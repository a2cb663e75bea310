----------------------------- MODULE MCAssistant -----------------------------
(* Small worlds for Assistant: the limiter's windows, with requests that    *)
(* end early; the e-mail quota, whose interval outlasts the retention;      *)
(* one-shot requests; streamed questions with clients that leave, with and  *)
(* without failing inserts.                                                 *)
EXTENDS Assistant, TLC

CONSTANTS s1, s2

Limits    == (ChatKey :> 2) @@ (IntakeKey :> 1) @@ (MailKey :> 1)
Intervals == (ChatKey :> 3) @@ (IntakeKey :> 2) @@ (MailKey :> 5)

Answer  == [stream |-> <<Delta>>, made |-> <<>>, fails |-> FALSE]
Failure == [stream |-> <<Delta>>, made |-> <<>>, fails |-> TRUE]
Tools   == [stream |-> <<Fragment(0, "a"), Delta, Fragment(1, "x"), Fragment(0, "b")>>,
            made |-> <<<<"a", "b">>, <<"x">>>>, fails |-> FALSE]

MCTurns == {Answer, Failure, Tools}

World(kinds, slots) == [kinds |-> kinds, slots |-> slots, clock |-> FALSE, mails |-> FALSE,
                        leaves |-> FALSE, refuses |-> FALSE]

MCWorlds == {
    [World({"scan", "sentence"}, {s1, s2}) EXCEPT !.clock = TRUE],
    [World({}, {}) EXCEPT !.clock = TRUE, !.mails = TRUE],
    [World({"ask", "dictate"}, {s1}) EXCEPT !.leaves = TRUE],
    [World({"chat"}, {s1}) EXCEPT !.leaves = TRUE],
    [World({"chat"}, {s1}) EXCEPT !.leaves = TRUE, !.refuses = TRUE]}
=============================================================================
