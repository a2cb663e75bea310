------------------------------- MODULE Assistant -------------------------------
(***************************************************************************)
(* The AI features: the streaming assistant, the one-shot question and the   *)
(* three kinds of expense intake, behind the limiters of RateLimit, whose    *)
(* table and clean-up they share with the e-mail quota.                     *)
(*                                                                         *)
(* A streamed question is a chain of goroutines joined by unbuffered         *)
(* channels, so a send and its receive are one step:                        *)
(*                                                                         *)
(*    forward (openai) -> audit (AuditedAIProvider) -> relay (streamRounds)  *)
(*        -> handler (chat) -> client                                       *)
(*                                                                         *)
(* Every tool round has its own forward and audit goroutine, and those of   *)
(* an earlier round may still be at work when the next one has started.     *)
(* Each send also watches the request's context, which is cancelled when    *)
(* the client leaves and, like every HTTP request's, when its handler       *)
(* returns.                                                                 *)
(*                                                                         *)
(* A call's row in ai.requests, and the outcome under which the metrics     *)
(* counted it, are kept with the call.  What the model says                 *)
(* is a member of Turns; what the tools find does not matter here.          *)
(***************************************************************************)
EXTENDS RateLimit, Sequences, SequencesExt

CONSTANTS
    Slots,              \* requests in flight
    Turns,              \* what the model may stream in one round
    Worlds,             \* kinds of request, how many at once, whether time passes,
                        \* e-mails are sent, clients leave and inserts may fail
    MaxToolRounds       \* maxToolRounds

VARIABLES
    world,              \* fixed at the start
    job                 \* what each request is doing

assistantVars == <<limiterVars, world, job>>

ChatKey   == "assistant:user"
IntakeKey == "intake:user"
MailKey   == "email-send"

ASSUME AssistantAssumption ==
    /\ {ChatKey, IntakeKey, MailKey} \subseteq Keys
    /\ \A t \in Turns : t.fails \in BOOLEAN

Idle    == [kind |-> "idle"]
Busy(s) == job[s].kind # "idle"
OneShot == {"ask", "scan", "sentence", "dictate"}

(* A request that was let in.  live: its context is not cancelled; left: the *)
(* client is known to be gone.                                              *)
Started(kind) ==
    [kind |-> kind, live |-> TRUE, left |-> FALSE, relay |-> "open", held |-> <<>>,
     handler |-> "reading", sent |-> <<>>, messages |-> <<>>, pipes |-> <<>>]

Round(s)     == Len(job[s].pipes)
Pipe(s)      == job[s].pipes[Round(s)]
NewPipe(t)   == [turn |-> t, at |-> 1, open |-> TRUE, audit |-> "recv", held |-> <<>>,
                 failed |-> FALSE, counted |-> "none", row |-> "none"]

-----------------------------------------------------------------------------
(* The provider's stream. *)

Delta == [type |-> "delta"]
Fragment(index, part) == [type |-> "fragment", index |-> index, part |-> part]

\* Mutated form of accumulate: later fragments replace earlier ones.
KeepLast(pending, f) ==
    [i \in DOMAIN pending \cup {f.index} |-> IF i = f.index THEN <<f.part>> ELSE pending[i]]

(* The fragments of a tool call arrive in order, those of several calls     *)
(* mixed; pending maps an index to the parts so far.                        *)
accumulate(pending, f) ==
    [i \in DOMAIN pending \cup {f.index} |->
        IF i # f.index THEN pending[i]
        ELSE IF i \in DOMAIN pending THEN Append(pending[i], f.part) ELSE <<f.part>>]

(* The calls in the order of their indexes. *)
collect(pending) ==
    LET order == SetToSortSeq(DOMAIN pending, <) IN [n \in 1 .. Len(order) |-> pending[order[n]]]

Fragments(turn) == SelectSeq(turn.stream, LAMBDA c : c.type = "fragment")
Deltas(turn)    == SelectSeq(turn.stream, LAMBDA c : c.type = "delta")

(* What the n-th send of a stream carries: its text as it arrives, then one *)
(* terminal chunk with the calls, or the failure.                           *)
Chunk(turn, n) ==
    IF n <= Len(Deltas(turn)) THEN Delta
    ELSE IF turn.fails THEN [type |-> "err"]
    ELSE [type |-> "done", calls |-> collect(FoldLeft(accumulate, <<>>, Fragments(turn)))]

-----------------------------------------------------------------------------
(* The conversation. *)

Call(round, n)   == [role |-> "call", id |-> <<round, n>>]
Result(round, n) == [role |-> "tool", id |-> <<round, n>>]

\* Mutated form of resolveToolCalls: each call is followed by its own result.
ResolveOneByOne(messages, round, asked) ==
    FoldLeft(LAMBDA ms, n : ms \o <<Call(round, n), Result(round, n)>>, messages,
             [n \in 1 .. Len(asked) |-> n])

(* All calls of the round, then all results. *)
resolveToolCalls(messages, round, asked) ==
    messages \o [n \in 1 .. Len(asked) |-> Call(round, n)]
             \o [n \in 1 .. Len(asked) |-> Result(round, n)]

(* Consecutive calls become one turn of the assistant. *)
convertMessages(messages) ==
    FoldLeft(LAMBDA turns, m :
                 IF m.role = "call" /\ turns # <<>> /\ Last(turns).role = "assistant"
                 THEN Append(Front(turns), [Last(turns) EXCEPT !.ids = Append(@, m.id)])
                 ELSE Append(turns, IF m.role = "call"
                                    THEN [role |-> "assistant", ids |-> <<m.id>>]
                                    ELSE [role |-> "tool", ids |-> <<m.id>>]),
             <<>>, messages)

-----------------------------------------------------------------------------
(* Requests arrive. *)

Key(kind) == IF kind \in {"chat", "ask"} THEN ChatKey ELSE IntakeKey

(* The limiter is asked once per request, however many calls it makes.  A   *)
(* refused request ends there.                                              *)
Request(s, kind) ==
    /\ ~Busy(s)
    /\ kind \in world.kinds /\ s \in world.slots
    /\ AllowDurable(Key(kind)) \/ AllowLocal(Key(kind))
    /\ job' = IF granted' # granted THEN [job EXCEPT ![s] = Started(kind)] ELSE job
    /\ UNCHANGED world

chat(s)        == Request(s, "chat")
Ask(s)         == Request(s, "ask")
scan(s)        == Request(s, "scan")
intelligent(s) == Request(s, "sentence")
dictate(s)     == Request(s, "dictate")

-----------------------------------------------------------------------------
(* The provider and audit goroutines of round k. *)

Update(s, k, p) == job' = [job EXCEPT ![s].pipes[k] = p]

CancelError(s) == IF job[s].live THEN {} ELSE {[type |-> "err"]}

(* A chunk passes from the provider to the audit.  A cancelled stream may    *)
(* still report that as its failure.                                        *)
forward(s, k) ==
    LET p == job[s].pipes[k] IN
    \E c \in {Chunk(p.turn, p.at)} \cup CancelError(s) :
       /\ p.open /\ p.audit = "recv"
       /\ Update(s, k, [p EXCEPT !.at = @ + 1, !.open = c.type = "delta", !.audit = "send",
                                 !.held = c, !.failed = c.type = "err"])

\* Mutated form of ForwardCancelled: the provider goroutine waits for its reader only.
ForwardWaits(s, k) == FALSE

ForwardCancelled(s, k) ==
    LET p == job[s].pipes[k] IN
    /\ p.open /\ ~job[s].live
    /\ Update(s, k, [p EXCEPT !.open = FALSE])

Outcome(p) == IF p.failed THEN "error" ELSE "success"

(* RecordRequest.  The in-memory repository keeps every row; an insert into *)
(* PostgreSQL needs a context that has not ended, and may fail all the same.*)
RecordRequest(s, outcome) ==
    CASE ~durable                 -> {outcome}
      [] durable /\ job[s].live  -> {outcome} \cup (IF world.refuses THEN {"none"} ELSE {})
      [] durable /\ ~job[s].live -> {"none"}

\* Mutated form of record: a failed call is recorded as a success.
RecordUnchecked(s, p) ==
    {[p EXCEPT !.audit = "over", !.counted = "success", !.row = r] :
     r \in RecordRequest(s, "success")}

(* The error of RecordRequest is dropped, and the call is counted whether   *)
(* there is a row or not (recordUsageMetrics).                              *)
record(s, p) ==
    {[p EXCEPT !.audit = "over", !.counted = Outcome(p), !.row = r] :
     r \in RecordRequest(s, Outcome(p))}

(* The provider's channel is closed. *)
AuditRecord(s, k) ==
    LET p == job[s].pipes[k] IN
    /\ p.audit = "recv" /\ ~p.open
    /\ \E q \in record(s, p) : Update(s, k, q)

(* The audit gives up sending and with that neither records nor counts. *)
AuditCancelled(s, k) ==
    LET p == job[s].pipes[k] IN
    /\ p.audit = "send" /\ ~job[s].live
    /\ Update(s, k, [p EXCEPT !.audit = "over"])

-----------------------------------------------------------------------------
(* The relay: streamRounds with relayRound. *)

OpenStream(s) ==
    /\ job[s].relay = "open"
    /\ \E t \in Turns : job' = [job EXCEPT ![s].relay = "recv", ![s].pipes = Append(@, NewPipe(t))]

\* Mutated form of NextRound: the last round's calls are dropped without a word.
StopQuietly(j, round, asked) ==
    IF round > MaxToolRounds THEN [j EXCEPT !.relay = "end"]
    ELSE [j EXCEPT !.relay = "open", !.messages = resolveToolCalls(@, round, asked)]

(* The model asked for tools. *)
NextRound(j, round, asked) ==
    IF round > MaxToolRounds
    THEN [j EXCEPT !.relay = "send", !.held = [type |-> "toomany"]]
    ELSE [j EXCEPT !.relay = "open", !.messages = resolveToolCalls(@, round, asked)]

(* The relay takes what the audit of its round holds. *)
relayRound(s) ==
    LET c == Pipe(s).held
        j == [job[s] EXCEPT !.pipes[Round(s)].audit = "recv"]
    IN /\ job[s].relay = "recv" /\ Pipe(s).audit = "send"
       /\ job' = [job EXCEPT ![s] =
                     IF c.type = "done" /\ c.calls # <<>> THEN NextRound(j, Round(s), c.calls)
                     ELSE [j EXCEPT !.relay = "send", !.held = c]]

(* The round's channel is closed without a terminal chunk, or is drained. *)
RoundClosed(s) ==
    /\ job[s].relay \in {"recv", "drain"} /\ Pipe(s).audit = "over"
    /\ job' = [job EXCEPT ![s].relay = "end"]

drain(s) ==
    /\ job[s].relay = "drain" /\ Pipe(s).audit = "send"
    /\ job' = [job EXCEPT ![s].pipes[Round(s)].audit = "recv"]

(* Where the relay goes on after a send that succeeded or was given up. *)
After(c, sent) ==
    CASE c.type = "delta" -> IF sent THEN "recv" ELSE "drain"
      [] c.type = "err"   -> "drain"
      [] OTHER            -> "end"

SendCancelled(s) ==
    /\ job[s].relay = "send" /\ ~job[s].live
    /\ job' = [job EXCEPT ![s].relay = After(job[s].held, FALSE), ![s].held = <<>>]

-----------------------------------------------------------------------------
(* The handler.  It writes what it receives, and after a failure only       *)
(* empties the channel.                                                     *)

Event(c) ==
    CASE c.type = "delta" -> "message.delta"
      [] c.type = "done"  -> "message.completed"
      [] OTHER            -> "message.error"

Receive(s) ==
    LET j == job[s]
        written == [j EXCEPT !.sent = Append(@, Event(j.held)),
                             !.handler = IF Event(j.held) = "message.error" THEN "draining" ELSE @]
        broken  == [j EXCEPT !.handler = "draining", !.left = TRUE]
    IN /\ j.relay = "send" /\ j.handler \in {"reading", "draining"}
       /\ \E k \in {written, broken} :
             /\ k = broken => j.held.type = "delta" /\ world.leaves
             /\ job' = [job EXCEPT ![s] =
                   [(IF j.handler = "reading" THEN k ELSE j)
                       EXCEPT !.relay = After(j.held, TRUE), !.held = <<>>]]

HandlerReturns(s) ==
    /\ job[s].relay = "end" /\ job[s].handler # "gone"
    /\ job' = [job EXCEPT ![s].handler = "gone", ![s].live = FALSE]

ClientLeaves(s) ==
    /\ world.leaves
    /\ Busy(s) /\ job[s].handler # "gone"
    /\ job[s].live
    /\ job' = [job EXCEPT ![s].live = FALSE, ![s].left = TRUE]

(* Every goroutine of the request has ended. *)
Finish(s) ==
    /\ job[s].handler = "gone"
    /\ \A k \in 1 .. Round(s) : job[s].pipes[k].audit = "over" /\ ~job[s].pipes[k].open
    /\ job' = [job EXCEPT ![s] = Idle]

-----------------------------------------------------------------------------
(* One-shot requests: a call and its row, one after the other. *)

(* The provider is called: it will answer or fail. *)
CallProvider(s) ==
    /\ job[s].kind \in OneShot /\ job[s].relay = "open"
    /\ \E t \in Turns :
          job' = [job EXCEPT ![s].relay = "recv", ![s].pipes =
                     Append(@, [NewPipe(t) EXCEPT !.open = FALSE, !.failed = t.fails])]

Transcribe(s) == job[s].kind = "dictate" /\ Round(s) = 0 /\ CallProvider(s)
Complete(s)   == (job[s].kind = "dictate" => Round(s) > 0) /\ CallProvider(s)

(* How many calls a successful request of this kind makes without tools. *)
Calls(kind) == IF kind = "dictate" THEN 2 ELSE 1

(* What follows a call: the next one, tools, or the answer; an unusable     *)
(* transcript or draft ends the request like a failure.                     *)
AfterCall(j, p) ==
    LET asked == Chunk(p.turn, Len(Deltas(p.turn)) + 1).calls
        ended == [j EXCEPT !.relay = "end"]
    IN IF p.failed THEN {ended}
       ELSE IF j.kind = "ask" /\ asked # <<>>
       THEN {IF Len(j.pipes) > MaxToolRounds THEN ended
             ELSE [j EXCEPT !.relay = "open",
                            !.messages = resolveToolCalls(@, Len(j.pipes), asked)]}
       ELSE IF Len(j.pipes) < Calls(j.kind) THEN {ended, [j EXCEPT !.relay = "open"]}
       ELSE {ended}

(* A cancelled call may fail for that alone. *)
Completed(s) ==
    /\ job[s].kind \in OneShot /\ job[s].relay = "recv"
    /\ \E p \in {Pipe(s)} \cup {[Pipe(s) EXCEPT !.failed = TRUE] : e \in CancelError(s)} :
       \E q \in record(s, p) :
       \E j \in AfterCall([job[s] EXCEPT !.pipes[Round(s)] = q], p) :
          job' = [job EXCEPT ![s] = j]

(* The image cannot be normalised: nothing is called. *)
NormalizeFails(s) ==
    /\ job[s].kind = "scan" /\ job[s].relay = "open"
    /\ job' = [job EXCEPT ![s].relay = "end"]

-----------------------------------------------------------------------------
Streaming(s) ==
    /\ job[s].kind = "chat"
    /\ \/ OpenStream(s) \/ relayRound(s) \/ RoundClosed(s) \/ drain(s) \/ SendCancelled(s)
       \/ Receive(s)
       \/ \E k \in 1 .. Round(s) :
             \/ forward(s, k) \/ ForwardCancelled(s, k)
             \/ AuditRecord(s, k) \/ AuditCancelled(s, k)

Calling(s) == Transcribe(s) \/ Complete(s) \/ Completed(s) \/ NormalizeFails(s)

(* A step of one of the request's goroutines. *)
Step(s) ==
    /\ Busy(s)
    /\ Streaming(s) \/ Calling(s) \/ HandlerReturns(s) \/ Finish(s)
    /\ UNCHANGED <<limiterVars, world>>

Leave(s) == ClientLeaves(s) /\ UNCHANGED <<limiterVars, world>>

(* limitedSender.Send asks for the e-mail quota. *)
MailAsked ==
    /\ world.mails
    /\ AllowDurable(MailKey) \/ AllowLocal(MailKey)
    /\ UNCHANGED <<world, job>>

TimePasses == world.clock /\ (Tick \/ CleanupExpired) /\ UNCHANGED <<world, job>>

AssistantInit == LimiterInit /\ world \in Worlds /\ job = [s \in Slots |-> Idle]

AssistantNext ==
    \/ \E s \in Slots : chat(s) \/ Ask(s) \/ scan(s) \/ intelligent(s) \/ dictate(s)
    \/ \E s \in Slots : Step(s)
    \/ \E s \in Slots : Leave(s)
    \/ MailAsked \/ TimePasses

(* Goroutines are scheduled, and a provider's stream goes on or fails. *)
AssistantSpec ==
    /\ AssistantInit /\ [][AssistantNext]_assistantVars
    /\ \A s \in Slots : WF_assistantVars(Step(s))

-----------------------------------------------------------------------------
(* "Exactly one chunk has Done set, and it is always the last.  A chunk     *)
(* carrying Err is terminal too": however the goroutines interleave, a      *)
(* client that stayed has been told how its stream ended, once and last.    *)
Terminal(e) == e \in {"message.completed", "message.error"}
StreamEnds ==
    \A s \in Slots : job[s].kind = "chat" =>
        LET sent == job[s].sent IN
        /\ \A n \in DOMAIN sent : Terminal(sent[n]) => n = Len(sent)
        /\ job[s].handler = "gone" /\ ~job[s].left => sent # <<>> /\ Terminal(Last(sent))

(* "records every call": a call that is over was counted with its true      *)
(* outcome if its client stayed, also when the handler returned and ended   *)
(* the request's context before the audit got to it.  Its row, if it has    *)
(* one, says what was counted; without one the request had ended or the     *)
(* insert failed, which the in-memory repository never minds.               *)
AuditTrue ==
    \A s \in Slots : Busy(s) =>
        \A k \in 1 .. Round(s) :
            LET p == job[s].pipes[k] IN
            p.audit = "over" =>
                /\ job[s].left \/ p.counted = IF p.turn.fails THEN "error" ELSE "success"
                /\ p.row \in {"none", p.counted}
                /\ ~durable \/ (job[s].live /\ ~world.refuses) => p.row = p.counted

(* A question's tool calls are dispatched as the model made them, whatever   *)
(* pieces they arrived in, and each round goes back as one turn of the      *)
(* assistant followed by exactly its results.                               *)
ToolTurnsWhole ==
    \A s \in Slots : Busy(s) =>
        LET turns  == convertMessages(job[s].messages)
            asked  == SelectSeq([k \in 1 .. Round(s) |-> job[s].pipes[k].turn.made],
                                LAMBDA m : m # <<>>)
            spoken == SelectSeq(turns, LAMBDA t : t.role = "assistant")
        IN /\ Len(spoken) <= Len(asked)
           /\ \A n \in DOMAIN spoken : spoken[n].ids = [i \in 1 .. Len(asked[n]) |-> <<n, i>>]
           /\ turns = FlattenSeq([n \in 1 .. Len(spoken) |->
                         <<spoken[n]>> \o [i \in 1 .. Len(spoken[n].ids) |->
                             [role |-> "tool", ids |-> <<spoken[n].ids[i]>>]]])
           /\ \A k \in 1 .. Round(s) : job[s].pipes[k].held # <<>> =>
                 LET c == job[s].pipes[k].held IN
                 c.type = "done" => c.calls = job[s].pipes[k].turn.made

(* The answer to a question is whole: its stream ends as StreamEnds says,    *)
(* and what the model was sent on the way is as ToolTurnsWhole says (chat,   *)
(* relayRound, streamRounds, accumulate, collect, convertMessages).         *)
AnswersWhole == StreamEnds /\ ToolTurnsWhole

(* "Callers must drain the returned channel or cancel ctx": every request   *)
(* ends and leaves no goroutine behind, whether the client stays or leaves. *)
RequestsEnd == \A s \in Slots : Busy(s) ~> ~Busy(s)

=============================================================================
