---------------------------- MODULE IdentityProofs ----------------------------
(***************************************************************************)
(* Proofs about Identity for every number of replicas, requests, users,     *)
(* e-mail addresses, passwords, workloads and faults.                       *)
(***************************************************************************)
EXTENDS Identity, SequenceTheorems, FiniteSetTheorems, TLAPS

Statements ==
    {"lookup", "fill", "admit", "accept", "update", "evict", "delete", "createUser",
     "createInvitation", "acceptInvitation", "createToken", "rotateToken", "revokeToken",
     "revokeSnapshot", "revokeAll", "createReset", "markUsed", "closeResets", "mail",
     "track", "orphan"}

OpNames ==
    {"login", "refresh", "logout", "invite", "join", "profile", "preferences", "password",
     "forgot", "reset", "image", "manage", "remove", "me", "bootstrap"}

(* Statements that use the row the request has read, and those that may      *)
(* come just before one of them.                                            *)
Uses  == {"admit", "accept", "update", "delete"}
Reads == {"lookup", "fill", "admit", "accept"}

(* Statements before which the request has a row in hand, if only the one it  *)
(* has written.                                                             *)
Holds == Uses \cup {"fill", "evict", "markUsed", "closeResets", "revokeSnapshot", "revokeAll",
                    "track", "orphan"}

(* Operations that are about no user there is. *)
Userless == {"invite", "join", "bootstrap"}

(* What is left of an operation's program: a write is followed by its        *)
(* eviction, a row is used only after it was read, a fill is next at once.   *)
Sound(s, op) ==
    \A i \in 1 .. Len(s) :
        /\ s[i] \in {"update", "delete"} => i < Len(s) /\ s[i + 1] = "evict"
        /\ s[i] = "update" /\ op = "manage" => Len(s) = i + 2
        /\ s[i] \in {"lookup", "revokeSnapshot"} => i < Len(s)
        /\ i > 1 => s[i] # "fill" /\ (s[i] \in Uses => s[i - 1] \in Reads)
        /\ s[i] = "createToken" => op = "login"
        /\ s[i] = "rotateToken" => op = "refresh"
        /\ s[i] = "createInvitation" => op = "invite"
        /\ s[i] = "acceptInvitation" => op = "join"
        /\ s[i] \notin {"createInvitation", "mail", "acceptInvitation", "createUser"} =>
              op \notin Userless

(* The order in which a write is followed up. *)
Staged(s, op) ==
    \A i \in 1 .. Len(s) :
        /\ i > 1 =>
              /\ s[i] \in Holds => s[i - 1] \in Holds \cup {"lookup"}
              /\ s[i] = "revokeSnapshot" => s[i - 1] = "closeResets"
              /\ s[i] = "revokeAll" => s[i - 1] = "revokeSnapshot"
              /\ s[i] = "evict" => s[i - 1] = IF op = "remove" THEN "delete" ELSE "update"
              /\ s[i] = "track" => s[i - 1] = "evict"
              /\ s[i] = "orphan" => s[i - 1] = IF op = "remove" THEN "evict" ELSE "track"
        /\ s[i] = "evict" /\ op \in PasswordOps => i < Len(s)
        /\ s[i] \in {"closeResets", "revokeSnapshot", "revokeAll"} => op \in PasswordOps
        /\ s[i] = "track" => op = "image"
        /\ s[i] = "orphan" => op \in {"image", "remove"}
        /\ s[i] = "delete" => op = "remove"

Invitee   == [email : Emails, role : Roles]
Presented == Invitee \cup Passwords \cup Nat

Tasks ==
    [op : OpNames, steps : Seq(Statements), rep : Replicas, u : Nat, x : Presented,
     read : UserRows \cup {Nothing}, overtaken : BOOLEAN, snap : SUBSET Nat]

Accounts == [row : UserRows, deleted : BOOLEAN]
Tokens   == [u : Nat, family : Nat, live : BOOLEAN, pw : Passwords, late : BOOLEAN]
Resets   == [u : Nat, used : BOOLEAN, pw : Passwords]
Invites  == [email : Emails, role : Roles, status : {"pending", "accepted"}, by : SUBSET Nat]

References == [state : {"none", "active", "orphaned"}, u : Nat]

(* The tables hold rows, and what they name exists. *)
Tables ==
    /\ users \in Seq(Accounts)
    /\ intent \in Seq(UserRows) /\ Len(intent) = Len(users)
    /\ tokens \in Seq(Tokens) /\ \A t \in DOMAIN tokens : tokens[t].u \in Ids
    /\ resets \in Seq(Resets) /\ \A x \in DOMAIN resets : resets[x].u \in Ids
    /\ invitations \in Seq(Invites)
    /\ refs \in Seq(References)
    /\ DOMAIN cache = Replicas
    /\ \A r \in Replicas : \A u \in DOMAIN cache[r] : u \in Ids /\ cache[r][u] \in UserRows

(* What a request at work holds on to. *)
Bound(r) ==
    /\ r.steps # << >> /\ Sound(r.steps, r.op) /\ Staged(r.steps, r.op)
    /\ r.op \notin Userless => r.u \in Ids
    /\ r.op = "login" => r.x \in Passwords
    /\ r.op = "image" => r.x \in Nat
    /\ r.op = "invite" => r.x \in Invitee
    /\ r.op = "refresh" => r.x \in DOMAIN tokens
    /\ r.op = "join" => r.x \in DOMAIN invitations
    /\ Head(r.steps) \in Holds => r.read \in UserRows

Working ==
    /\ req \in [Requests -> Tasks \cup {Idle}]
    /\ \A q \in Requests : req[q] # Idle => Bound(req[q])

Typed == Tables /\ Working

(* The row a request is about to use is the one stored, unless the request   *)
(* was overtaken.                                                           *)
Fresh ==
    \A q \in Requests :
        req[q] # Idle /\ Head(req[q].steps) \in Uses \cup {"fill"} =>
            req[q].overtaken \/ req[q].read = GetUser(req[q].u)

(* The two things that can be spent. *)
Families == \A t \in DOMAIN tokens : tokens[t].family \in 1 .. t
Accepted ==
    \A i \in DOMAIN invitations :
        \/ invitations[i].by = {}
        \/ invitations[i].status # "pending" /\ \E n : invitations[i].by = {n}

CacheInv    == Typed /\ Fresh /\ CacheCoherent /\ LastWriteStands
(* Under the password in force: the open resets of u, and its live sessions   *)
(* among the tokens T.                                                      *)
ResetsCurrent(u) ==
    \A x \in DOMAIN resets : resets[x].u = u /\ ~resets[x].used => resets[x].pw = users[u].row.pw
SessionsCurrent(u, T) ==
    \A t \in T : tokens[t].u = u /\ tokens[t].live /\ ~tokens[t].late
                    => tokens[t].pw = users[u].row.pw

(* A password operation that nobody overtook has closed the resets, and once *)
(* it is about to revoke, what it has not seen is current.                   *)
Closing ==
    \A p \in Requests :
        req[p] # Idle /\ ~req[p].overtaken =>
            /\ Head(req[p].steps) \in {"revokeSnapshot", "revokeAll"} => ResetsCurrent(req[p].u)
            /\ Head(req[p].steps) = "revokeAll" =>
                  SessionsCurrent(req[p].u, DOMAIN tokens \ req[p].snap)

PasswordInv == CacheInv /\ Closing /\ PasswordClosesSessions

(* The statements once the user has been written. *)
Written == {"evict", "track", "orphan"}

(* The upload p has a key of its user, which is not orphaned, and once written *)
(* it is the one shown.                                                     *)
UploadAt(p) ==
    req[p] # Idle /\ req[p].op = "image" =>
        /\ req[p].x \in DOMAIN refs /\ refs[req[p].x].u = req[p].u
        /\ \/ req[p].u \in mixed \/ users[req[p].u].deleted
           \/ refs[req[p].x].state # "orphaned"
        /\ Head(req[p].steps) \in Written /\ req[p].u \notin lost \cup mixed =>
              users[req[p].u].row.image = req[p].x

(* Two uploads of one user are recorded. *)
Alone ==
    \A p, q \in Requests :
        /\ p # q /\ req[p] # Idle /\ req[q] # Idle
        /\ req[p].op = "image" /\ req[q].op = "image" /\ req[p].u = req[q].u
        => req[p].u \in mixed

(* A deletion orphans images only after the user is gone. *)
RemovalAt(p) ==
    req[p] # Idle /\ req[p].op = "remove" /\ Head(req[p].steps) \in Written =>
        users[req[p].u].deleted

ShownAt(u) ==
    u \notin lost \cup mixed /\ ~users[u].deleted /\ users[u].row.image # NoImage =>
        /\ users[u].row.image \in DOMAIN refs
        /\ refs[users[u].row.image].u = u
        /\ refs[users[u].row.image].state # "orphaned"

ImageInv ==
    /\ CacheInv /\ Alone
    /\ \A p \in Requests : UploadAt(p) /\ RemovalAt(p)
    /\ \A u \in Ids : ShownAt(u)

SpendingInv == Typed /\ Families /\ OneLiveToken /\ Accepted

-----------------------------------------------------------------------------
(* Programs and what is left of them. *)

(* The first element of a sequence and the rest. *)
LEMMA FirstAndRest ==
    ASSUME NEW S, NEW s \in Seq(S)
    PROVE  /\ s # << >> <=> Len(s) > 0
           /\ s # << >> => /\ Head(s) = s[1]
                           /\ Tail(s) \in Seq(S) /\ Len(Tail(s)) = Len(s) - 1
                           /\ \A i \in 1 .. Len(s) - 1 : Tail(s)[i] = s[i + 1]
  OBVIOUS

(* A program stays sound as its statements are worked off. *)
LEMMA SoundTail ==
    ASSUME NEW s \in Seq(Statements), s # << >>, NEW op, Sound(s, op)
    PROVE  /\ Tail(s) \in Seq(Statements)
           /\ Sound(Tail(s), op)
           /\ Len(s) > 1 => Head(Tail(s)) = s[2]
           /\ Tail(s) # << >> <=> Len(s) > 1
  <1>1. /\ Tail(s) \in Seq(Statements) /\ Len(Tail(s)) = Len(s) - 1
        /\ \A i \in 1 .. Len(s) - 1 : Tail(s)[i] = s[i + 1]
        /\ Len(s) \in Nat \ {0}
    OBVIOUS
  <1>2. Sound(Tail(s), op)
    <2> SUFFICES ASSUME NEW i \in 1 .. Len(Tail(s))
                 PROVE  /\ Tail(s)[i] \in {"update", "delete"} => i < Len(Tail(s)) /\ Tail(s)[i + 1] = "evict"
                        /\ Tail(s)[i] = "update" /\ op = "manage" => Len(Tail(s)) = i + 2
                        /\ Tail(s)[i] \in {"lookup", "revokeSnapshot"} => i < Len(Tail(s))
                        /\ i > 1 => Tail(s)[i] # "fill" /\ (Tail(s)[i] \in Uses => Tail(s)[i - 1] \in Reads)
                        /\ Tail(s)[i] = "createToken" => op = "login"
                        /\ Tail(s)[i] = "rotateToken" => op = "refresh"
                        /\ Tail(s)[i] = "createInvitation" => op = "invite"
                        /\ Tail(s)[i] = "acceptInvitation" => op = "join"
                        /\ Tail(s)[i] \notin {"createInvitation", "mail", "acceptInvitation", "createUser"} =>
                              op \notin Userless
      BY DEF Sound
    <2>1. i + 1 \in 1 .. Len(s) /\ i + 1 > 1 /\ (i + 1) - 1 = i
      BY <1>1
    <2>2. /\ s[i + 1] \in {"update", "delete"} => i + 1 < Len(s) /\ s[(i + 1) + 1] = "evict"
          /\ s[i + 1] = "update" /\ op = "manage" => Len(s) = (i + 1) + 2
          /\ s[i + 1] \in {"lookup", "revokeSnapshot"} => i + 1 < Len(s)
          /\ s[i + 1] # "fill" /\ (s[i + 1] \in Uses => s[i] \in Reads)
          /\ s[i + 1] = "createToken" => op = "login"
          /\ s[i + 1] = "rotateToken" => op = "refresh"
          /\ s[i + 1] = "createInvitation" => op = "invite"
          /\ s[i + 1] = "acceptInvitation" => op = "join"
          /\ s[i + 1] \notin {"createInvitation", "mail", "acceptInvitation", "createUser"} =>
                op \notin Userless
      BY <2>1 DEF Sound
    <2>3. /\ Tail(s)[i] = s[i + 1]
          /\ i + 1 < Len(s) => i < Len(Tail(s)) /\ Tail(s)[i + 1] = s[(i + 1) + 1]
          /\ i > 1 => Tail(s)[i - 1] = s[i]
      BY <1>1
    <2>4. Len(s) = (i + 1) + 2 => Len(Tail(s)) = i + 2
      BY <1>1
    <2> QED
      BY <2>2, <2>3, <2>4
  <1>3. /\ Len(s) > 1 => Head(Tail(s)) = s[2]
        /\ Tail(s) # << >> <=> Len(s) > 1
    <2>1. \A T \in Seq(Statements) : (T # << >> <=> Len(T) > 0) /\ (Len(T) > 0 => Head(T) = T[1])
      OBVIOUS
    <2> DEFINE T == Tail(s)
    <2>2. T \in Seq(Statements) /\ Len(T) = Len(s) - 1 /\ (Len(s) > 1 => T[1] = s[1 + 1])
      BY <1>1
    <2> HIDE DEF T
    <2>3. (T # << >> <=> Len(T) > 0) /\ (Len(T) > 0 => Head(T) = T[1])
      BY <2>1, <2>2
    <2>4. (Len(s) > 1 <=> Len(T) > 0) /\ 1 + 1 = 2
      BY <1>1, <2>2
    <2>5. (Len(s) > 1 => Head(T) = s[2]) /\ (T # << >> <=> Len(s) > 1)
      BY <2>2, <2>3, <2>4
    <2> QED
      BY <2>5 DEF T
  <1> QED
    BY <1>1, <1>2, <1>3

LEMMA StagedTail ==
    ASSUME NEW s \in Seq(Statements), s # << >>, NEW op, Staged(s, op)
    PROVE  Staged(Tail(s), op)
  <1>1. /\ Len(Tail(s)) = Len(s) - 1 /\ Len(s) \in Nat
        /\ \A i \in 1 .. Len(s) - 1 : Tail(s)[i] = s[i + 1]
    BY FirstAndRest
  <1> PICK t : t = Tail(s)
    OBVIOUS
  <1>2. ASSUME NEW i \in 1 .. Len(t)
        PROVE  /\ i > 1 =>
                     /\ t[i] \in Holds => t[i - 1] \in Holds \cup {"lookup"}
                     /\ t[i] = "revokeSnapshot" => t[i - 1] = "closeResets"
                     /\ t[i] = "revokeAll" => t[i - 1] = "revokeSnapshot"
                     /\ t[i] = "evict" => t[i - 1] = IF op = "remove" THEN "delete" ELSE "update"
                     /\ t[i] = "track" => t[i - 1] = "evict"
                     /\ t[i] = "orphan" => t[i - 1] = IF op = "remove" THEN "evict" ELSE "track"
               /\ t[i] = "evict" /\ op \in PasswordOps => i < Len(t)
               /\ t[i] \in {"closeResets", "revokeSnapshot", "revokeAll"} => op \in PasswordOps
               /\ t[i] = "track" => op = "image"
               /\ t[i] = "orphan" => op \in {"image", "remove"}
               /\ t[i] = "delete" => op = "remove"
    <2>1. i + 1 \in 1 .. Len(s) /\ i + 1 > 1 /\ (i + 1) - 1 = i
      BY <1>1
    <2>2. /\ s[i + 1] \in Holds => s[i] \in Holds \cup {"lookup"}
          /\ s[i + 1] = "revokeSnapshot" => s[i] = "closeResets"
          /\ s[i + 1] = "revokeAll" => s[i] = "revokeSnapshot"
          /\ s[i + 1] = "evict" => s[i] = IF op = "remove" THEN "delete" ELSE "update"
          /\ s[i + 1] = "track" => s[i] = "evict"
          /\ s[i + 1] = "orphan" => s[i] = IF op = "remove" THEN "evict" ELSE "track"
          /\ s[i + 1] = "evict" /\ op \in PasswordOps => i + 1 < Len(s)
          /\ s[i + 1] \in {"closeResets", "revokeSnapshot", "revokeAll"} => op \in PasswordOps
          /\ s[i + 1] = "track" => op = "image"
          /\ s[i + 1] = "orphan" => op \in {"image", "remove"}
          /\ s[i + 1] = "delete" => op = "remove"
      BY <2>1 DEF Staged
    <2>3. t[i] = s[i + 1] /\ (i > 1 => t[i - 1] = s[i]) /\ (i + 1 < Len(s) => i < Len(t))
      BY <1>1
    <2> QED
      BY <2>2, <2>3
  <1> QED
    BY <1>2 DEF Staged

(* Two parts of a program put together. *)
LEMMA PutTogether ==
    ASSUME NEW S, NEW l \in Seq(S), NEW r \in Seq(S), NEW t \in Seq(S),
           Len(t) = Len(l) + Len(r),
           \A i \in 1 .. Len(t) : t[i] = IF i <= Len(l) THEN l[i] ELSE r[i - Len(l)]
    PROVE  l \o r = t
  <1>1. /\ l \o r \in Seq(S) /\ Len(l \o r) = Len(t)
        /\ \A i \in 1 .. Len(t) : (l \o r)[i] = IF i <= Len(l) THEN l[i] ELSE r[i - Len(l)]
    BY ConcatProperties
  <1> DEFINE c == l \o r
  <1>2. c \in Seq(S) /\ Len(c) = Len(t) /\ \A i \in 1 .. Len(t) : c[i] = t[i]
    BY <1>1
  <1> HIDE DEF c
  <1>3. c = t
    BY <1>2, SeqEqual
  <1> QED
    BY <1>3 DEF c

(* A program as a request takes it up. *)
Whole(s, op) ==
    /\ s \in Seq(Statements) /\ s # << >> /\ Sound(s, op) /\ Staged(s, op)
    /\ Head(s) \notin Holds

(* The programs with their parts put together. *)
LEMMA Programs ==
    /\ DOMAIN Program = OpNames
    /\ Program["login"] = <<"createToken">>
    /\ Program["refresh"] = <<"lookup", "accept", "rotateToken">>
    /\ Program["logout"] = <<"revokeToken">>
    /\ Program["invite"] = <<"createInvitation", "mail">>
    /\ Program["join"] = <<"acceptInvitation">>
    /\ Program["profile"] = <<"lookup", "admit", "lookup", "accept", "update", "evict">>
    /\ Program["preferences"] = <<"lookup", "admit", "lookup", "accept", "update", "evict">>
    /\ Program["password"] = <<"lookup", "admit", "lookup", "accept", "update", "evict", "closeResets", "revokeSnapshot", "revokeAll">>
    /\ Program["forgot"] = <<"createReset", "mail">>
    /\ Program["reset"] = <<"lookup", "accept", "update", "evict", "markUsed", "closeResets", "revokeSnapshot", "revokeAll">>
    /\ Program["image"] = <<"lookup", "admit", "lookup", "accept", "update", "evict", "track", "orphan">>
    /\ Program["manage"] = <<"lookup", "accept", "update", "evict", "mail">>
    /\ Program["remove"] = <<"lookup", "accept", "delete", "evict", "orphan">>
    /\ Program["me"] = <<"lookup", "admit">>
    /\ Program["bootstrap"] = <<"createUser">>
  <1> DEFINE S == Statements
  <1>0. DOMAIN Program = OpNames
    BY DEF Program, OpNames
  <1>m. "lookup" \in S /\ "admit" \in S /\ "accept" \in S /\ "update" \in S /\ "evict" \in S
        /\ "closeResets" \in S /\ "revokeSnapshot" \in S /\ "revokeAll" \in S /\ "markUsed" \in S
        /\ "track" \in S /\ "orphan" \in S /\ "mail" \in S
    BY DEF Statements
  <1> HIDE DEF S
  <1>a. <<"lookup", "admit">>
              \o <<"lookup", "accept">>
           = <<"lookup", "admit", "lookup", "accept">>
    <2> DEFINE l == <<"lookup", "admit">>
               r == <<"lookup", "accept">>
               t == <<"lookup", "admit", "lookup", "accept">>
    <2>1. l \in Seq(S) /\ r \in Seq(S) /\ t \in Seq(S)
      BY <1>m
    <2>2. Len(t) = Len(l) + Len(r)
      OBVIOUS
    <2>3. \A i \in 1 .. Len(t) : t[i] = IF i <= Len(l) THEN l[i] ELSE r[i - Len(l)]
      OBVIOUS
    <2> HIDE DEF l, r, t
    <2>4. l \o r = t
      BY <2>1, <2>2, <2>3, PutTogether
    <2> QED
      BY <2>4 DEF l, r, t
  <1>b. <<"lookup", "admit", "lookup", "accept">>
              \o <<"update", "evict">>
           = <<"lookup", "admit", "lookup", "accept", "update", "evict">>
    <2> DEFINE l == <<"lookup", "admit", "lookup", "accept">>
               r == <<"update", "evict">>
               t == <<"lookup", "admit", "lookup", "accept", "update", "evict">>
    <2>1. l \in Seq(S) /\ r \in Seq(S) /\ t \in Seq(S)
      BY <1>m
    <2>2. Len(t) = Len(l) + Len(r)
      OBVIOUS
    <2>3. \A i \in 1 .. Len(t) : t[i] = IF i <= Len(l) THEN l[i] ELSE r[i - Len(l)]
      OBVIOUS
    <2> HIDE DEF l, r, t
    <2>4. l \o r = t
      BY <2>1, <2>2, <2>3, PutTogether
    <2> QED
      BY <2>4 DEF l, r, t
  <1>c. <<"lookup", "accept">>
              \o <<"update", "evict">>
           = <<"lookup", "accept", "update", "evict">>
    <2> DEFINE l == <<"lookup", "accept">>
               r == <<"update", "evict">>
               t == <<"lookup", "accept", "update", "evict">>
    <2>1. l \in Seq(S) /\ r \in Seq(S) /\ t \in Seq(S)
      BY <1>m
    <2>2. Len(t) = Len(l) + Len(r)
      OBVIOUS
    <2>3. \A i \in 1 .. Len(t) : t[i] = IF i <= Len(l) THEN l[i] ELSE r[i - Len(l)]
      OBVIOUS
    <2> HIDE DEF l, r, t
    <2>4. l \o r = t
      BY <2>1, <2>2, <2>3, PutTogether
    <2> QED
      BY <2>4 DEF l, r, t
  <1>d. <<"lookup", "admit", "lookup", "accept", "update", "evict">>
              \o <<"closeResets", "revokeSnapshot", "revokeAll">>
           = <<"lookup", "admit", "lookup", "accept", "update", "evict", "closeResets", "revokeSnapshot", "revokeAll">>
    <2> DEFINE l == <<"lookup", "admit", "lookup", "accept", "update", "evict">>
               r == <<"closeResets", "revokeSnapshot", "revokeAll">>
               t == <<"lookup", "admit", "lookup", "accept", "update", "evict", "closeResets", "revokeSnapshot", "revokeAll">>
    <2>1. l \in Seq(S) /\ r \in Seq(S) /\ t \in Seq(S)
      BY <1>m
    <2>2. Len(t) = Len(l) + Len(r)
      OBVIOUS
    <2>3. \A i \in 1 .. Len(t) : t[i] = IF i <= Len(l) THEN l[i] ELSE r[i - Len(l)]
      OBVIOUS
    <2> HIDE DEF l, r, t
    <2>4. l \o r = t
      BY <2>1, <2>2, <2>3, PutTogether
    <2> QED
      BY <2>4 DEF l, r, t
  <1>e. <<"lookup", "accept", "update", "evict">>
              \o <<"markUsed", "closeResets", "revokeSnapshot", "revokeAll">>
           = <<"lookup", "accept", "update", "evict", "markUsed", "closeResets", "revokeSnapshot", "revokeAll">>
    <2> DEFINE l == <<"lookup", "accept", "update", "evict">>
               r == <<"markUsed", "closeResets", "revokeSnapshot", "revokeAll">>
               t == <<"lookup", "accept", "update", "evict", "markUsed", "closeResets", "revokeSnapshot", "revokeAll">>
    <2>1. l \in Seq(S) /\ r \in Seq(S) /\ t \in Seq(S)
      BY <1>m
    <2>2. Len(t) = Len(l) + Len(r)
      OBVIOUS
    <2>3. \A i \in 1 .. Len(t) : t[i] = IF i <= Len(l) THEN l[i] ELSE r[i - Len(l)]
      OBVIOUS
    <2> HIDE DEF l, r, t
    <2>4. l \o r = t
      BY <2>1, <2>2, <2>3, PutTogether
    <2> QED
      BY <2>4 DEF l, r, t
  <1>f. <<"lookup", "admit", "lookup", "accept", "update", "evict">>
              \o <<"track", "orphan">>
           = <<"lookup", "admit", "lookup", "accept", "update", "evict", "track", "orphan">>
    <2> DEFINE l == <<"lookup", "admit", "lookup", "accept", "update", "evict">>
               r == <<"track", "orphan">>
               t == <<"lookup", "admit", "lookup", "accept", "update", "evict", "track", "orphan">>
    <2>1. l \in Seq(S) /\ r \in Seq(S) /\ t \in Seq(S)
      BY <1>m
    <2>2. Len(t) = Len(l) + Len(r)
      OBVIOUS
    <2>3. \A i \in 1 .. Len(t) : t[i] = IF i <= Len(l) THEN l[i] ELSE r[i - Len(l)]
      OBVIOUS
    <2> HIDE DEF l, r, t
    <2>4. l \o r = t
      BY <2>1, <2>2, <2>3, PutTogether
    <2> QED
      BY <2>4 DEF l, r, t
  <1>g. <<"lookup", "accept", "update", "evict">>
              \o <<"mail">>
           = <<"lookup", "accept", "update", "evict", "mail">>
    <2> DEFINE l == <<"lookup", "accept", "update", "evict">>
               r == <<"mail">>
               t == <<"lookup", "accept", "update", "evict", "mail">>
    <2>1. l \in Seq(S) /\ r \in Seq(S) /\ t \in Seq(S)
      BY <1>m
    <2>2. Len(t) = Len(l) + Len(r)
      OBVIOUS
    <2>3. \A i \in 1 .. Len(t) : t[i] = IF i <= Len(l) THEN l[i] ELSE r[i - Len(l)]
      OBVIOUS
    <2> HIDE DEF l, r, t
    <2>4. l \o r = t
      BY <2>1, <2>2, <2>3, PutTogether
    <2> QED
      BY <2>4 DEF l, r, t
  <1>1. Program["login"] = <<"createToken">>
    BY DEF Program, Login
  <1>2. Program["refresh"] = <<"lookup", "accept", "rotateToken">>
    BY DEF Program, Refresh
  <1>3. Program["logout"] = <<"revokeToken">>
    BY DEF Program, Logout
  <1>4. Program["invite"] = <<"createInvitation", "mail">>
    BY DEF Program, Invite
  <1>5. Program["join"] = <<"acceptInvitation">>
    BY DEF Program, AcceptInvitation
  <1>6. Program["profile"] = <<"lookup", "admit", "lookup", "accept", "update", "evict">>
    BY <1>a, <1>b DEF Program, UpdateProfile, UpdateUser, Authenticate
  <1>7. Program["preferences"] = <<"lookup", "admit", "lookup", "accept", "update", "evict">>
    BY <1>a, <1>b DEF Program, UpdateNotificationPreferences, UpdateUser, Authenticate
  <1>8. Program["password"] = <<"lookup", "admit", "lookup", "accept", "update", "evict", "closeResets", "revokeSnapshot", "revokeAll">>
    BY <1>a, <1>b, <1>d DEF Program, ChangePassword, UpdateUser, Authenticate
  <1>9. Program["forgot"] = <<"createReset", "mail">>
    BY DEF Program, RequestPasswordReset
  <1>10. Program["reset"] = <<"lookup", "accept", "update", "evict", "markUsed", "closeResets", "revokeSnapshot", "revokeAll">>
    BY <1>c, <1>e DEF Program, ResetPassword, UpdateUser
  <1>11. Program["image"] = <<"lookup", "admit", "lookup", "accept", "update", "evict", "track", "orphan">>
    BY <1>a, <1>b, <1>f DEF Program, UpdateProfileImage, UpdateUser, Authenticate
  <1>12. Program["manage"] = <<"lookup", "accept", "update", "evict", "mail">>
    BY <1>c, <1>g DEF Program, ManageUser, UpdateUser
  <1>13. Program["remove"] = <<"lookup", "accept", "delete", "evict", "orphan">>
    BY DEF Program, DeleteUser
  <1>14. Program["me"] = <<"lookup", "admit">>
    BY DEF Program, Authenticate
  <1>15. Program["bootstrap"] = <<"createUser">>
    BY DEF Program, EnsureBootstrapSuperAdmin
  <1> QED
    BY <1>0, <1>1, <1>2, <1>3, <1>4, <1>5, <1>6, <1>7, <1>8, <1>9, <1>10, <1>11, <1>12, <1>13, <1>14, <1>15

(* Every program is one that can be worked off. *)
LEMMA ProgramsWhole ==
    \A op \in OpNames : Whole(Program[op], op)
  <1>1. Whole(<<"createToken">>, "login")
    BY DEF Whole, Sound, Staged, Statements, Uses, Holds, Reads, Userless, PasswordOps
  <1>2. Whole(<<"lookup", "accept", "rotateToken">>, "refresh")
    BY DEF Whole, Sound, Staged, Statements, Uses, Holds, Reads, Userless, PasswordOps
  <1>3. Whole(<<"revokeToken">>, "logout")
    BY DEF Whole, Sound, Staged, Statements, Uses, Holds, Reads, Userless, PasswordOps
  <1>4. Whole(<<"createInvitation", "mail">>, "invite")
    BY DEF Whole, Sound, Staged, Statements, Uses, Holds, Reads, Userless, PasswordOps
  <1>5. Whole(<<"acceptInvitation">>, "join")
    BY DEF Whole, Sound, Staged, Statements, Uses, Holds, Reads, Userless, PasswordOps
  <1>6. Whole(<<"lookup", "admit", "lookup", "accept", "update", "evict">>, "profile")
    BY DEF Whole, Sound, Staged, Statements, Uses, Holds, Reads, Userless, PasswordOps
  <1>7. Whole(<<"lookup", "admit", "lookup", "accept", "update", "evict">>, "preferences")
    BY DEF Whole, Sound, Staged, Statements, Uses, Holds, Reads, Userless, PasswordOps
  <1>8. Whole(<<"lookup", "admit", "lookup", "accept", "update", "evict", "closeResets", "revokeSnapshot", "revokeAll">>, "password")
    BY DEF Whole, Sound, Staged, Statements, Uses, Holds, Reads, Userless, PasswordOps
  <1>9. Whole(<<"createReset", "mail">>, "forgot")
    BY DEF Whole, Sound, Staged, Statements, Uses, Holds, Reads, Userless, PasswordOps
  <1>10. Whole(<<"lookup", "accept", "update", "evict", "markUsed", "closeResets", "revokeSnapshot", "revokeAll">>, "reset")
    BY DEF Whole, Sound, Staged, Statements, Uses, Holds, Reads, Userless, PasswordOps
  <1>11. Whole(<<"lookup", "admit", "lookup", "accept", "update", "evict", "track", "orphan">>, "image")
    BY DEF Whole, Sound, Staged, Statements, Uses, Holds, Reads, Userless, PasswordOps
  <1>12. Whole(<<"lookup", "accept", "update", "evict", "mail">>, "manage")
    BY DEF Whole, Sound, Staged, Statements, Uses, Holds, Reads, Userless, PasswordOps
  <1>13. Whole(<<"lookup", "accept", "delete", "evict", "orphan">>, "remove")
    BY DEF Whole, Sound, Staged, Statements, Uses, Holds, Reads, Userless, PasswordOps
  <1>14. Whole(<<"lookup", "admit">>, "me")
    BY DEF Whole, Sound, Staged, Statements, Uses, Holds, Reads, Userless, PasswordOps
  <1>15. Whole(<<"createUser">>, "bootstrap")
    BY DEF Whole, Sound, Staged, Statements, Uses, Holds, Reads, Userless, PasswordOps
  <1> QED
    BY Programs, <1>1, <1>2, <1>3, <1>4, <1>5, <1>6, <1>7, <1>8, <1>9, <1>10, <1>11, <1>12, <1>13, <1>14, <1>15 DEF OpNames

-----------------------------------------------------------------------------
(* The request table. *)

(* Rows are never taken out of a table. *)
Grown ==
    /\ Ids \subseteq Ids'
    /\ DOMAIN tokens \subseteq DOMAIN tokens'
    /\ DOMAIN invitations \subseteq DOMAIN invitations'

(* A request at work is a task, and its operation is not "idle". *)
LEMMA AtWork ==
    ASSUME Working, NEW q \in Requests
    PROVE  /\ req[q].op # "idle" <=> req[q] # Idle
           /\ req[q] # Idle => req[q] \in Tasks /\ Bound(req[q])
  <1>1. \A r \in Tasks : r.op # "idle"
    BY DEF Tasks, OpNames
  <1>2. Idle.op = "idle"
    BY DEF Idle
  <1> QED
    BY <1>1, <1>2 DEF Working

(* One request moves on. *)
LEMMA OneMoves ==
    ASSUME Working, Grown, NEW q \in Requests, NEW n,
           n = Idle \/ (n \in Tasks /\ Bound(n)),
           req' = [req EXCEPT ![q] = n]
    PROVE  Working'
  <1>1. req' \in [Requests -> Tasks \cup {Idle}]
    BY DEF Working
  <1>2. ASSUME NEW p \in Requests, req'[p] # Idle
        PROVE  Bound(req[p])'
    <2>1. PICK m : m = req'[p]
      OBVIOUS
    <2>2. Bound(m)
      BY <1>2, <2>1 DEF Working
    <2> QED
      BY <2>1, <2>2 DEF Bound, Grown
  <1> QED
    BY <1>1, <1>2 DEF Working

(* What a request is once its next statement, not a read, has gone through. *)
LEMMA Advanced ==
    ASSUME Working, NEW q \in Requests, req[q] # Idle, Head(req[q].steps) # "lookup",
           NEW n, n = Advance(req[q]), n # Idle
    PROVE  /\ n \in Tasks /\ Bound(n)
           /\ n = [req[q] EXCEPT !.steps = Tail(req[q].steps)]
           /\ Head(n.steps) \in Uses \cup {"fill"} => Head(req[q].steps) \in Uses \cup {"fill"}
           /\ Head(n.steps) = req[q].steps[2] /\ Len(req[q].steps) > 1
           /\ Head(n.steps) \in Holds => Head(req[q].steps) \in Holds
  <1> PICK r : r = req[q]
    OBVIOUS
  <1>1. r \in Tasks /\ Bound(r) /\ r.steps \in Seq(Statements) /\ r.steps # << >>
    BY AtWork DEF Tasks, Bound
  <1>2. n = [r EXCEPT !.steps = Tail(r.steps)] /\ Tail(r.steps) # << >>
    BY DEF Advance
  <1>3. /\ Tail(r.steps) \in Seq(Statements)
        /\ Sound(Tail(r.steps), r.op) /\ Staged(Tail(r.steps), r.op)
        /\ Len(r.steps) > 1 /\ Head(Tail(r.steps)) = r.steps[2]
    BY <1>1, <1>2, SoundTail, StagedTail DEF Bound
  <1>4. /\ n \in Tasks /\ n.op = r.op /\ n.u = r.u /\ n.x = r.x /\ n.read = r.read
        /\ n.steps = Tail(r.steps)
    BY <1>1, <1>2, <1>3 DEF Tasks
  <1>5. Head(n.steps) \in Uses \cup {"fill"} => Head(r.steps) \in Uses \cup {"fill"}
    <2>1. /\ r.steps[2] # "fill"
          /\ r.steps[2] \in Uses => r.steps[2 - 1] \in Reads
      <3>1. 2 \in 1 .. Len(r.steps) /\ 2 > 1
        BY <1>1, <1>3
      <3> QED
        BY <1>1, <3>1 DEF Bound, Sound
    <2>2. Head(r.steps) = r.steps[1]
      BY <1>1
    <2> QED
      BY <1>3, <1>4, <2>1, <2>2 DEF Uses, Reads
  <1>6. Head(n.steps) \in Holds => Head(r.steps) \in Holds
    <2>1. 2 \in 1 .. Len(r.steps) /\ 2 > 1 /\ 2 - 1 = 1 /\ Head(r.steps) = r.steps[1]
      BY <1>1, <1>3
    <2>2. r.steps[2] \in Holds => r.steps[1] \in Holds \cup {"lookup"}
      BY <1>1, <2>1 DEF Bound, Staged
    <2> QED
      BY <1>3, <1>4, <2>1, <2>2
  <1>7. Bound(n)
    BY <1>1, <1>2, <1>3, <1>4, <1>6 DEF Bound
  <1> QED
    BY <1>2, <1>3, <1>4, <1>5, <1>6, <1>7

(* A statement that is not a read moves its request on, or ends it. *)
LEMMA PlainStep ==
    ASSUME Working, Grown, NEW q \in Requests, req[q].op # "idle",
           Head(req[q].steps) # "lookup", Done(q) \/ Refuse(q)
    PROVE  Working'
  <1>1. PICK n : (n = Idle \/ n = Advance(req[q])) /\ req' = [req EXCEPT ![q] = n]
    BY DEF Done, Refuse
  <1>2. n = Idle \/ (n \in Tasks /\ Bound(n))
    BY <1>1, AtWork, Advanced
  <1> QED
    BY <1>1, <1>2, OneMoves

(* A new request. *)
LEMMA Arrived ==
    ASSUME Working, Grown, NEW q \in Requests, NEW op \in OpNames, NEW r \in Replicas,
           NEW u \in Nat, NEW x \in Presented, Arrive(q, op, r, u, x),
           op \notin Userless => u \in Ids,
           op = "login" => x \in Passwords,
           op = "image" => x \in Nat,
           op = "invite" => x \in Invitee,
           op = "refresh" => x \in DOMAIN tokens,
           op = "join" => x \in DOMAIN invitations
    PROVE  Working'
  <1>1. PICK s : s = Program[op]
    OBVIOUS
  <1>2. /\ s \in Seq(Statements) /\ s # << >> /\ Sound(s, op) /\ Staged(s, op)
        /\ Head(s) \notin Holds
    BY <1>1, ProgramsWhole DEF Whole
  <1>3. PICK n : n = [op |-> op, steps |-> s, rep |-> r, u |-> u, x |-> x,
                      read |-> Nothing, overtaken |-> FALSE, snap |-> {}]
    OBVIOUS
  <1>4. n \in Tasks
    BY <1>2, <1>3 DEF Tasks
  <1>5. Bound(n)
    BY <1>2, <1>3 DEF Bound
  <1>6. req' = [req EXCEPT ![q] = n]
    BY <1>1, <1>3 DEF Arrive
  <1> QED
    BY <1>4, <1>5, <1>6, OneMoves

-----------------------------------------------------------------------------
(* The tables. *)

(* A table of which some rows are rewritten. *)
LEMMA Rewritten ==
    ASSUME NEW S, NEW s \in Seq(S), NEW f, f = [k \in DOMAIN s |-> f[k]],
           \A k \in DOMAIN s : f[k] \in S
    PROVE  f \in Seq(S) /\ Len(f) = Len(s) /\ DOMAIN f = DOMAIN s
  <1>1. DOMAIN s = 1 .. Len(s) /\ Len(s) \in Nat
    OBVIOUS
  <1>2. f \in [1 .. Len(s) -> S]
    BY <1>1
  <1> QED
    BY <1>1, <1>2

(* A table that gains a row. *)
LEMMA Appended ==
    ASSUME NEW S, NEW s \in Seq(S), NEW e \in S
    PROVE  /\ Append(s, e) \in Seq(S)
           /\ Len(Append(s, e)) = Len(s) + 1
           /\ DOMAIN Append(s, e) = DOMAIN s \cup {Len(s) + 1}
           /\ \A k \in DOMAIN s : Append(s, e)[k] = s[k]
           /\ Append(s, e)[Len(s) + 1] = e
           /\ DOMAIN s = 1 .. Len(s) /\ Len(s) \in Nat
  OBVIOUS

(* Nothing but requests, or the queue, changes. *)
LEMMA SameTables ==
    ASSUME Tables, UNCHANGED <<users, intent, tokens, resets, invitations, refs, cache>>
    PROVE  Tables' /\ Grown
  BY DEF Tables, Grown, Ids

(* A lookup the cache cannot answer is followed by the fill of its entry. *)
LEMMA SoundFill ==
    ASSUME NEW s \in Seq(Statements), s # << >>, NEW op, Sound(s, op), Staged(s, op),
           s[1] = "lookup", NEW c, c = <<"fill">> \o Tail(s)
    PROVE  c \in Seq(Statements) /\ c # << >> /\ Sound(c, op) /\ Staged(c, op) /\ Head(c) = "fill"
  <1>1. /\ Tail(s) \in Seq(Statements) /\ Len(Tail(s)) = Len(s) - 1
        /\ \A i \in 1 .. Len(s) - 1 : Tail(s)[i] = s[i + 1]
        /\ Len(s) \in Nat \ {0}
    OBVIOUS
  <1> DEFINE f == <<"fill">>
  <1>2. f \in Seq(Statements) /\ Len(f) = 1 /\ f[1] = "fill"
    BY DEF Statements
  <1> HIDE DEF f
  <1>3. /\ c \in Seq(Statements) /\ Len(c) = Len(s)
        /\ \A i \in 1 .. Len(s) : c[i] = IF i <= 1 THEN f[i] ELSE Tail(s)[i - 1]
    <2>1. c = f \o Tail(s)
      BY DEF f
    <2>2. /\ f \o Tail(s) \in Seq(Statements)
          /\ Len(f \o Tail(s)) = Len(f) + Len(Tail(s))
          /\ \A i \in 1 .. Len(f) + Len(Tail(s)) :
                (f \o Tail(s))[i] = IF i <= Len(f) THEN f[i] ELSE Tail(s)[i - Len(f)]
      BY <1>1, <1>2, ConcatProperties, SMTT(20)
    <2> QED
      BY <1>1, <1>2, <2>1, <2>2
  <1>4. c[1] = "fill" /\ \A i \in 1 .. Len(s) : i > 1 => c[i] = s[i]
    BY <1>1, <1>2, <1>3
  <1>5. c # << >> /\ Head(c) = "fill"
    BY <1>1, <1>3, <1>4
  <1>6. Sound(c, op)
    <2> SUFFICES ASSUME NEW i \in 1 .. Len(s)
                 PROVE  /\ c[i] \in {"update", "delete"} => i < Len(s) /\ c[i + 1] = "evict"
                        /\ c[i] = "update" /\ op = "manage" => Len(s) = i + 2
                        /\ c[i] \in {"lookup", "revokeSnapshot"} => i < Len(s)
                        /\ i > 1 => c[i] # "fill" /\ (c[i] \in Uses => c[i - 1] \in Reads)
                        /\ c[i] = "createToken" => op = "login"
                        /\ c[i] = "rotateToken" => op = "refresh"
                        /\ c[i] = "createInvitation" => op = "invite"
                        /\ c[i] = "acceptInvitation" => op = "join"
                        /\ c[i] \notin {"createInvitation", "mail", "acceptInvitation", "createUser"} =>
                              op \notin Userless
      BY <1>3 DEF Sound
    <2>1. CASE i = 1
      <3>1. 1 \in 1 .. Len(s)
        BY <1>1
      <3>2. op \notin Userless
        BY <3>1 DEF Sound
      <3> QED
        BY <2>1, <1>4, <3>2
    <2>2. CASE i > 1
      <3>1. c[i] = s[i] /\ (i < Len(s) => c[i + 1] = s[i + 1])
        BY <1>4, <2>2
      <3>2. s[i] \in Uses => c[i - 1] \in Reads
        <4>1. CASE i = 2
          BY <4>1, <1>4 DEF Reads
        <4>2. CASE i > 2
          BY <4>2, <1>4 DEF Sound
        <4> QED
          BY <2>2, <4>1, <4>2
      <3>3. /\ s[i] \in {"update", "delete"} => i < Len(s) /\ s[i + 1] = "evict"
            /\ s[i] = "update" /\ op = "manage" => Len(s) = i + 2
            /\ s[i] \in {"lookup", "revokeSnapshot"} => i < Len(s)
            /\ s[i] # "fill"
            /\ s[i] = "createToken" => op = "login"
            /\ s[i] = "rotateToken" => op = "refresh"
            /\ s[i] = "createInvitation" => op = "invite"
            /\ s[i] = "acceptInvitation" => op = "join"
            /\ s[i] \notin {"createInvitation", "mail", "acceptInvitation", "createUser"} =>
                  op \notin Userless
        BY <2>2 DEF Sound
      <3> QED
        BY <3>1, <3>2, <3>3
    <2>3. i = 1 \/ i > 1
      BY <1>1
    <2> QED
      BY <2>1, <2>2, <2>3
  <1>7. Staged(c, op)
    <2>1. ASSUME NEW i \in 1 .. Len(c)
          PROVE  /\ i > 1 =>
                       /\ c[i] \in Holds => c[i - 1] \in Holds \cup {"lookup"}
                       /\ c[i] = "revokeSnapshot" => c[i - 1] = "closeResets"
                       /\ c[i] = "revokeAll" => c[i - 1] = "revokeSnapshot"
                       /\ c[i] = "evict" => c[i - 1] = IF op = "remove" THEN "delete" ELSE "update"
                       /\ c[i] = "track" => c[i - 1] = "evict"
                       /\ c[i] = "orphan" => c[i - 1] = IF op = "remove" THEN "evict" ELSE "track"
                 /\ c[i] = "evict" /\ op \in PasswordOps => i < Len(c)
                 /\ c[i] \in {"closeResets", "revokeSnapshot", "revokeAll"} => op \in PasswordOps
                 /\ c[i] = "track" => op = "image"
                 /\ c[i] = "orphan" => op \in {"image", "remove"}
                 /\ c[i] = "delete" => op = "remove"
      <3>1. CASE i = 1
        BY <3>1, <1>4
      <3>2. CASE i > 1
        <4>1. i \in 1 .. Len(s) /\ c[i] = s[i] /\ Len(c) = Len(s)
          BY <1>3, <1>4, <2>1, <3>2
        <4>2. /\ s[i] \in Holds => s[i - 1] \in Holds \cup {"lookup"}
              /\ s[i] = "revokeSnapshot" => s[i - 1] = "closeResets"
              /\ s[i] = "revokeAll" => s[i - 1] = "revokeSnapshot"
              /\ s[i] = "evict" => s[i - 1] = IF op = "remove" THEN "delete" ELSE "update"
              /\ s[i] = "track" => s[i - 1] = "evict"
              /\ s[i] = "orphan" => s[i - 1] = IF op = "remove" THEN "evict" ELSE "track"
              /\ s[i] = "evict" /\ op \in PasswordOps => i < Len(s)
              /\ s[i] \in {"closeResets", "revokeSnapshot", "revokeAll"} => op \in PasswordOps
              /\ s[i] = "track" => op = "image"
              /\ s[i] = "orphan" => op \in {"image", "remove"}
              /\ s[i] = "delete" => op = "remove"
          BY <3>2, <4>1 DEF Staged
        <4>3. CASE i = 2
          <5>1. i - 1 = 1 /\ s[i - 1] = "lookup" /\ c[i - 1] = "fill"
            BY <1>4, <4>3
          <5>2. "fill" \in Holds
            BY DEF Holds
          <5> QED
            BY <4>1, <4>2, <5>1, <5>2
        <4>4. CASE i > 2
          <5>1. c[i - 1] = s[i - 1]
            BY <1>1, <1>3, <1>4, <2>1, <4>4
          <5> QED
            BY <4>1, <4>2, <5>1
        <4>5. i = 2 \/ i > 2
          BY <3>2, <4>1
        <4> QED
          BY <4>3, <4>4, <4>5
      <3>3. i = 1 \/ i > 1
        BY <1>1, <1>3, <2>1
      <3> QED
        BY <3>1, <3>2, <3>3
    <2> QED
      BY <2>1 DEF Staged
  <1> QED
    BY <1>3, <1>5, <1>6, <1>7

(* The row a task names is there to be read. *)
LEMMA Stored ==
    ASSUME Typed, NEW u \in Ids
    PROVE  /\ users[u] \in Accounts /\ users[u].row \in UserRows /\ u \in Nat
           /\ GetUser(u) \in UserRows \cup {Nothing}
           /\ GetUser(u).found => GetUser(u) \in UserRows
           /\ \A r \in UserRows : r.found
  <1>1. users[u] \in Accounts /\ u \in Nat
    BY DEF Typed, Tables, Ids
  <1>2. users[u].row \in UserRows
    BY <1>1 DEF Accounts
  <1>3. ~Nothing.found /\ \A r \in UserRows : r.found
    BY DEF Nothing, UserRows
  <1> QED
    BY <1>1, <1>2, <1>3 DEF GetUser

-----------------------------------------------------------------------------
(* Every step keeps the tables and the requests well formed. *)

LEMMA ArrivalTyped ==
    ASSUME Typed, NEW q \in Requests, NEW r \in Replicas, Arrival(q, r)
    PROVE  Typed'
  <1> USE DEF Typed
  <1>1. Idle \notin Tasks /\ 0 \in Nat /\ 0 \in Presented
    BY DEF Idle, Tasks, OpNames, Presented
  <1>2. ASSUME NEW u \in Ids, LoginRequest(q, r, u)
        PROVE  Typed'
    <2>1. users[u].row \in UserRows /\ u \in Nat
      BY Stored
    <2>2. PICK x : x = users[u].row.pw
      OBVIOUS
    <2>3. x \in Passwords /\ x \in Presented
      BY <2>1, <2>2 DEF UserRows, Presented
    <2>4. Arrive(q, "login", r, u, x) /\ Tables' /\ Grown
      BY <1>2, <2>2, SameTables DEF LoginRequest, rows, ghosts
    <2> QED
      BY <2>1, <2>3, <2>4, Arrived DEF OpNames
  <1>3. ASSUME NEW t \in DOMAIN tokens, RefreshRequest(q, r, t) \/ LogoutRequest(q, r, t)
        PROVE  Typed'
    <2>1. PICK u : u = tokens[t].u
      OBVIOUS
    <2>2. u \in Ids /\ u \in Nat /\ t \in Nat /\ t \in Presented
      BY <2>1 DEF Tables, Ids, Presented
    <2>3. Tables' /\ Grown /\ (Arrive(q, "refresh", r, u, t) \/ Arrive(q, "logout", r, u, t))
      BY <1>3, <2>1, SameTables DEF RefreshRequest, LogoutRequest, rows, ghosts
    <2> QED
      BY <2>2, <2>3, Arrived DEF OpNames
  <1>4. ASSUME NEW x \in DOMAIN resets, ResetRequest(q, r, x)
        PROVE  Typed'
    <2>1. PICK u : u = resets[x].u
      OBVIOUS
    <2>2. u \in Ids /\ u \in Nat /\ x \in Nat /\ x \in Presented
      BY <2>1 DEF Tables, Ids, Presented
    <2>3. Tables' /\ Grown /\ Arrive(q, "reset", r, u, x)
      BY <1>4, <2>1, SameTables DEF ResetRequest, rows, ghosts
    <2> QED
      BY <2>2, <2>3, Arrived DEF OpNames
  <1>5. ASSUME NEW i \in DOMAIN invitations, AcceptRequest(q, r, i)
        PROVE  Typed'
    <2>1. i \in Nat /\ i \in Presented
      BY DEF Tables, Presented
    <2>2. Tables' /\ Grown /\ Arrive(q, "join", r, 0, i)
      BY <1>5, SameTables DEF AcceptRequest, rows, ghosts
    <2> QED
      BY <1>1, <2>1, <2>2, Arrived DEF OpNames, Userless
  <1>6. ASSUME NEW e \in Emails, NEW role \in Roles, InviteRequest(q, r, e, role)
        PROVE  Typed'
    <2>1. PICK x : x = [email |-> e, role |-> role]
      OBVIOUS
    <2>2. x \in Invitee /\ x \in Presented
      BY <2>1 DEF Invitee, Presented
    <2>3. Tables' /\ Grown /\ Arrive(q, "invite", r, 0, x)
      BY <1>6, <2>1, SameTables DEF InviteRequest, rows, ghosts
    <2> QED
      BY <1>1, <2>2, <2>3, Arrived DEF OpNames, Userless
  <1>7. ASSUME BootstrapRequest(q, r)
        PROVE  Typed'
    <2>1. Tables' /\ Grown /\ Arrive(q, "bootstrap", r, 0, 0)
      BY <1>7, SameTables DEF BootstrapRequest, rows, ghosts
    <2> QED
      BY <1>1, <2>1, Arrived DEF OpNames, Userless
  <1>8. ASSUME NEW u \in Ids, ForgotRequest(q, r, u)
        PROVE  Typed'
    <2>1. Tables' /\ Grown /\ Arrive(q, "forgot", r, u, 0) /\ u \in Nat
      BY <1>8, SameTables, Stored DEF ForgotRequest, rows, ghosts
    <2> QED
      BY <1>1, <2>1, Arrived DEF OpNames, Userless
  <1>9. ASSUME NEW u \in Ids, NEW op \in Ops,
               UserRequest(q, op, r, u) \/ ManageRequest(q, op, r, u)
        PROVE  Typed'
    <2>1. Tables' /\ Grown /\ Arrive(q, op, r, u, 0) /\ u \in Nat
      BY <1>9, SameTables, Stored DEF UserRequest, ManageRequest, rows, ghosts
    <2>2. op \in {"profile", "preferences", "password", "me", "manage", "remove"}
      BY <1>9 DEF UserRequest, ManageRequest
    <2> QED
      BY <1>1, <2>1, <2>2, Arrived DEF OpNames, Userless
  <1>10. ASSUME NEW u \in Ids, ImageRequest(q, r, u)
         PROVE  Typed'
    <2>1. PICK x : x = Len(refs) + 1
      OBVIOUS
    <2>2. x \in Nat /\ x \in Presented /\ u \in Nat
      BY <2>1, Stored DEF Tables, Presented
    <2>3. refs' \in Seq(References)
      <3>1. [state |-> "none", u |-> u] \in References
        BY <2>2 DEF References
      <3> QED
        BY <1>10, <3>1, Appended DEF ImageRequest, Tables
    <2>4. Tables' /\ Grown /\ Arrive(q, "image", r, u, x)
      BY <1>10, <2>1, <2>3 DEF ImageRequest, Tables, Grown, Ids
    <2> QED
      BY <2>2, <2>4, Arrived DEF OpNames, Userless
  <1> QED
    BY <1>2, <1>3, <1>4, <1>5, <1>6, <1>7, <1>8, <1>9, <1>10 DEF Arrival

LEMMA LookupTyped ==
    ASSUME Typed, NEW q \in Requests, GetUserByID(q)
    PROVE  Typed'
  <1> PICK r : r = req[q]
    OBVIOUS
  <1>1. /\ r # Idle /\ r \in Tasks /\ Bound(r) /\ r.rep \in Replicas
        /\ r.steps \in Seq(Statements) /\ r.steps # << >> /\ r.steps[1] = "lookup"
    <2>1. r # Idle /\ r \in Tasks /\ Bound(r)
      BY AtWork DEF GetUserByID, At, Typed
    <2>2. r.steps \in Seq(Statements) /\ r.steps # << >> /\ r.rep \in Replicas
      BY <2>1 DEF Tasks, Bound
    <2> QED
      BY <2>1, <2>2 DEF GetUserByID, At
  <1>2. r.u \in Ids /\ Sound(r.steps, r.op) /\ Len(r.steps) > 1
    <2>1. 1 \in 1 .. Len(r.steps)
      BY <1>1
    <2> QED
      BY <1>1, <2>1 DEF Bound, Sound
  <1>3. Tables' /\ Grown
    BY SameTables DEF GetUserByID, rows, ghosts, Typed
  <1>4. PICK n : /\ req' = [req EXCEPT ![q] = n]
                 /\ \/ n = Idle
                    \/ \E row \in UserRows, b \in BOOLEAN :
                          n = [r EXCEPT !.steps = Tail(r.steps), !.read = row, !.overtaken = b]
                    \/ \E row \in UserRows :
                          n = [r EXCEPT !.steps = <<"fill">> \o Tail(r.steps), !.read = row,
                                        !.overtaken = FALSE]
    <2>1. CASE Entry(r.rep, r.u).found
      <3>1. Entry(r.rep, r.u) \in UserRows
        BY <1>1, <2>1 DEF Entry, Nothing, Typed, Tables
      <3>2. (<<r.rep, r.u>> \in exposed \/ Unevicted(r.rep, r.u)) \in BOOLEAN
        OBVIOUS
      <3>3. PICK row, b : row = Entry(r.rep, r.u) /\ b = (<<r.rep, r.u>> \in exposed \/ Unevicted(r.rep, r.u))
        OBVIOUS
      <3>4. PICK m : m = [r EXCEPT !.steps = Tail(r.steps), !.read = row, !.overtaken = b]
        OBVIOUS
      <3>5. req' = [req EXCEPT ![q] = m]
        BY <2>1, <3>3, <3>4 DEF GetUserByID
      <3>6. row \in UserRows /\ b \in BOOLEAN
        BY <3>1, <3>2, <3>3
      <3> QED
        BY <3>4, <3>5, <3>6
    <2>2. CASE ~Entry(r.rep, r.u).found /\ GetUser(r.u).found
      <3>1. GetUser(r.u) \in UserRows
        BY <1>2, <2>2, Stored
      <3>2. PICK row : row = GetUser(r.u)
        OBVIOUS
      <3>3. PICK m : m = [r EXCEPT !.steps = <<"fill">> \o Tail(r.steps), !.read = row,
                                   !.overtaken = FALSE]
        OBVIOUS
      <3>4. req' = [req EXCEPT ![q] = m]
        BY <2>2, <3>2, <3>3 DEF GetUserByID
      <3> QED
        BY <3>1, <3>2, <3>3, <3>4
    <2>3. CASE ~Entry(r.rep, r.u).found /\ ~GetUser(r.u).found
      BY <2>3 DEF GetUserByID
    <2> QED
      BY <2>1, <2>2, <2>3
  <1>5. n = Idle \/ (n \in Tasks /\ Bound(n))
    <2>1. ASSUME NEW row \in UserRows, NEW b \in BOOLEAN,
                 n = [r EXCEPT !.steps = Tail(r.steps), !.read = row, !.overtaken = b]
          PROVE  n = Idle \/ (n \in Tasks /\ Bound(n))
      <3>1. /\ Tail(r.steps) \in Seq(Statements)
            /\ Sound(Tail(r.steps), r.op) /\ Staged(Tail(r.steps), r.op)
        BY <1>1, <1>2, SoundTail, StagedTail DEF Bound
      <3>2. n \in Tasks /\ n.op = r.op /\ n.u = r.u /\ n.x = r.x /\ n.read = row /\ n.steps = Tail(r.steps)
        BY <1>1, <2>1, <3>1 DEF Tasks
      <3>3. Tail(r.steps) # << >>
        BY <1>1, <1>2, SoundTail
      <3> QED
        BY <1>1, <3>1, <3>2, <3>3 DEF Bound
    <2>2. ASSUME NEW row \in UserRows,
                 n = [r EXCEPT !.steps = <<"fill">> \o Tail(r.steps), !.read = row,
                               !.overtaken = FALSE]
          PROVE  n = Idle \/ (n \in Tasks /\ Bound(n))
      <3>1. PICK c : c = <<"fill">> \o Tail(r.steps)
        OBVIOUS
      <3>2. c \in Seq(Statements) /\ c # << >> /\ Sound(c, r.op) /\ Staged(c, r.op)
        BY <1>1, <1>2, <3>1, SoundFill DEF Bound
      <3>3. n \in Tasks /\ n.op = r.op /\ n.u = r.u /\ n.x = r.x /\ n.read = row /\ n.steps = c
        BY <1>1, <2>2, <3>1, <3>2 DEF Tasks
      <3> QED
        BY <1>1, <3>2, <3>3 DEF Bound
    <2> QED
      BY <1>4, <2>1, <2>2
  <1> QED
    BY <1>3, <1>4, <1>5, OneMoves DEF Typed

LEMMA QuietTyped ==
    ASSUME Typed, NEW q \in Requests,
           Admit(q) \/ Accept(q) \/ QueueNotification(q) \/ Fail(q)
    PROVE  Typed'
  <1>1. Tables' /\ Grown
    BY SameTables DEF Admit, Accept, QueueNotification, Fail, rows, ghosts, Typed
  <1>2. CASE Fail(q)
    <2>1. req' = [req EXCEPT ![q] = Idle]
      BY <1>2 DEF Fail, Refuse
    <2> QED
      BY <1>1, <2>1, OneMoves DEF Typed
  <1>3. CASE Admit(q) \/ Accept(q) \/ QueueNotification(q)
    <2>1. req[q].op # "idle" /\ Head(req[q].steps) # "lookup" /\ (Done(q) \/ Refuse(q))
      BY <1>3 DEF Admit, Accept, QueueNotification, At
    <2> QED
      BY <1>1, <2>1, PlainStep DEF Typed
  <1> QED
    BY <1>2, <1>3

LEMMA SnapshotTyped ==
    ASSUME Typed, NEW q \in Requests, RevokeSnapshot(q)
    PROVE  Typed'
  <1> PICK r : r = req[q]
    OBVIOUS
  <1>1. Tables' /\ Grown
    BY SameTables DEF RevokeSnapshot, rows, ghosts, Typed
  <1>2. /\ r \in Tasks /\ Bound(r) /\ r.steps \in Seq(Statements) /\ r.steps # << >>
        /\ r.steps[1] = "revokeSnapshot"
    <2>1. r # Idle /\ r \in Tasks /\ Bound(r)
      BY AtWork DEF RevokeSnapshot, At, Typed
    <2>2. r.steps \in Seq(Statements) /\ r.steps # << >>
      BY <2>1 DEF Tasks, Bound
    <2> QED
      BY <2>1, <2>2 DEF RevokeSnapshot, At
  <1>s. PICK S \in SUBSET Nat :
           S = {t \in DOMAIN tokens : tokens[t].u = req[q].u /\ tokens[t].live}
    <2>1. DOMAIN tokens \subseteq Nat
      BY DEF Typed, Tables
    <2> QED
      BY <2>1
  <1>3. PICK n : /\ req' = [req EXCEPT ![q] = n]
                 /\ n = [r EXCEPT !.steps = Tail(r.steps), !.snap = S]
    BY <1>s DEF RevokeSnapshot
  <1>4. Sound(r.steps, r.op) /\ Len(r.steps) > 1 /\ r.read \in UserRows
    <2>1. Len(r.steps) \in Nat /\ 1 \in 1 .. Len(r.steps) /\ Head(r.steps) \in Holds
      BY <1>2 DEF Holds
    <2> QED
      BY <1>2, <2>1 DEF Bound, Sound
  <1>5. /\ Tail(r.steps) \in Seq(Statements) /\ Tail(r.steps) # << >>
        /\ Sound(Tail(r.steps), r.op) /\ Staged(Tail(r.steps), r.op)
    BY <1>2, <1>4, SoundTail, StagedTail DEF Bound
  <1>6. n \in Tasks /\ n.op = r.op /\ n.u = r.u /\ n.x = r.x /\ n.read = r.read /\ n.steps = Tail(r.steps)
    BY <1>2, <1>3, <1>5 DEF Tasks
  <1>7. Bound(n)
    BY <1>2, <1>4, <1>5, <1>6 DEF Bound
  <1> QED
    BY <1>1, <1>3, <1>6, <1>7, OneMoves DEF Typed

(* Statements that touch the caches only. *)
LEMMA CacheTyped ==
    ASSUME Typed, NEW q \in Requests, Fill(q) \/ Evict(q)
    PROVE  Typed'
  <1> PICK r : r = req[q]
    OBVIOUS
  <1>1. /\ r # Idle /\ r \in Tasks /\ Bound(r) /\ r.rep \in Replicas
        /\ Head(r.steps) \in {"fill", "evict"}
    BY AtWork DEF Fill, Evict, At, Typed, Tasks
  <1>2. r.u \in Ids
    <2>1. 1 \in 1 .. Len(r.steps) /\ Head(r.steps) = r.steps[1]
      BY <1>1 DEF Tasks, Bound
    <2> QED
      BY <1>1, <2>1 DEF Bound, Sound
  <1>3. \A s \in Replicas : \A u \in DOMAIN cache'[s] : u \in Ids /\ cache'[s][u] \in UserRows
    <2>1. CASE Fill(q)
      <3>1. r.read \in UserRows
        BY <1>1, <2>1 DEF Fill, At, Bound, Holds
      <3> QED
        BY <1>1, <1>2, <2>1, <3>1 DEF Fill, SetEntry, Typed, Tables
    <2>2. CASE Evict(q)
      BY <1>1, <2>2 DEF Evict, DropEntry, Typed, Tables
    <2> QED
      BY <2>1, <2>2
  <1>4. DOMAIN cache' = Replicas
    BY DEF Fill, Evict, SetEntry, DropEntry, Typed, Tables
  <1>5. Tables' /\ Grown
    BY <1>3, <1>4 DEF Fill, Evict, rows, Typed, Tables, Ids, Grown
  <1>6. req[q].op # "idle" /\ Head(req[q].steps) # "lookup" /\ Done(q)
    BY DEF Fill, Evict, At
  <1> QED
    BY <1>5, <1>6, PlainStep DEF Typed

(* Statements on refresh tokens. *)
LEMMA TokenTyped ==
    ASSUME Typed, NEW q \in Requests,
           \/ CreateRefreshToken(q) \/ RotateRefreshToken(q)
           \/ RevokeRefreshToken(q) \/ RevokeAllRefreshTokens(q)
    PROVE  Typed'
  <1> PICK r : r = req[q]
    OBVIOUS
  <1>1. /\ r # Idle /\ r \in Tasks /\ Bound(r)
        /\ Head(r.steps) \in {"createToken", "rotateToken", "revokeToken", "revokeAll"}
    BY AtWork DEF CreateRefreshToken, RotateRefreshToken, RevokeRefreshToken,
                  RevokeAllRefreshTokens, At, Typed
  <1>2. /\ r.u \in Ids /\ r.u \in Nat
        /\ Head(r.steps) = "createToken" => r.x \in Passwords
        /\ Head(r.steps) = "rotateToken" => r.x \in DOMAIN tokens
    <2>1. 1 \in 1 .. Len(r.steps) /\ Head(r.steps) = r.steps[1] /\ r.u \in Nat
      BY <1>1 DEF Tasks, Bound
    <2> QED
      BY <1>1, <2>1 DEF Bound, Sound
  <1>3. /\ tokens \in Seq(Tokens) /\ Len(tokens) \in Nat /\ DOMAIN tokens = 1 .. Len(tokens)
        /\ \A t \in DOMAIN tokens : tokens[t] \in Tokens /\ tokens[t].u \in Ids
    BY DEF Typed, Tables
  <1>4. \A u \in Ids, f \in Nat, p \in Passwords :
           NewToken(u, f, p) \in Tokens /\ NewToken(u, f, p).u = u
    <2>1. \A u \in Ids : u \in Nat
      BY DEF Typed, Tables, Ids
    <2> QED
      BY <2>1 DEF NewToken, Tokens, Late
  <1>5. /\ tokens' \in Seq(Tokens)
        /\ DOMAIN tokens \subseteq DOMAIN tokens'
        /\ \A t \in DOMAIN tokens' : tokens'[t].u \in Ids
    <2>1. CASE CreateRefreshToken(q)
      <3>1. Head(r.steps) = "createToken" /\ tokens' = Append(tokens, NewToken(r.u, Len(tokens) + 1, r.x))
        BY <2>1 DEF CreateRefreshToken, At
      <3>2. PICK e \in Tokens : e = NewToken(r.u, Len(tokens) + 1, r.x) /\ e.u = r.u
        BY <1>2, <1>3, <1>4, <3>1
      <3> QED
        BY <1>2, <1>3, <3>1, <3>2, Appended
    <2>2. CASE RotateRefreshToken(q)
      <3>1. /\ Head(r.steps) = "rotateToken"
            /\ \/ tokens' = tokens
               \/ tokens' = Append([tokens EXCEPT ![r.x].live = FALSE],
                                   NewToken(tokens[r.x].u, tokens[r.x].family, tokens[r.x].pw))
        BY <2>2 DEF RotateRefreshToken, At
      <3>2. PICK f : f = [tokens EXCEPT ![r.x].live = FALSE]
        OBVIOUS
      <3>3. /\ DOMAIN f = DOMAIN tokens /\ f = [t \in DOMAIN tokens |-> f[t]]
            /\ \A t \in DOMAIN tokens : f[t] \in Tokens /\ f[t].u = tokens[t].u
        BY <1>3, <3>2 DEF Tokens
      <3>4. f \in Seq(Tokens)
        BY <1>3, <3>3, Rewritten
      <3>5. PICK e \in Tokens : /\ e = NewToken(tokens[r.x].u, tokens[r.x].family, tokens[r.x].pw)
                                /\ e.u = tokens[r.x].u
        <4>1. tokens[r.x] \in Tokens /\ tokens[r.x].u \in Ids
          BY <1>2, <1>3, <3>1
        <4>2. tokens[r.x].family \in Nat /\ tokens[r.x].pw \in Passwords
          BY <4>1 DEF Tokens
        <4> QED
          BY <1>4, <4>1, <4>2
      <3>6. tokens[r.x].u \in Ids
        BY <1>2, <1>3, <3>1
      <3>7. CASE tokens' = Append(f, e)
        <4>1. /\ Append(f, e) \in Seq(Tokens) /\ DOMAIN Append(f, e) = DOMAIN f \cup {Len(f) + 1}
              /\ \A t \in DOMAIN f : Append(f, e)[t] = f[t]
              /\ Append(f, e)[Len(f) + 1] = e
          BY <3>4, Appended
        <4>2. PICK g : g = Append(f, e)
          OBVIOUS
        <4>3. \A t \in DOMAIN g : g[t].u \in Ids
          BY <1>3, <3>3, <3>5, <3>6, <4>1, <4>2, SMTT(20)
        <4>4. g \in Seq(Tokens) /\ DOMAIN tokens \subseteq DOMAIN g /\ tokens' = g
          BY <3>3, <3>7, <4>1, <4>2
        <4> QED
          BY <4>3, <4>4
      <3> QED
        BY <1>3, <3>1, <3>2, <3>5, <3>7
    <2>3. CASE RevokeRefreshToken(q)
      <3>1. PICK f : f = [tokens EXCEPT ![r.x].live = FALSE] /\ tokens' = f
        BY <2>3 DEF RevokeRefreshToken
      <3>2. /\ DOMAIN f = DOMAIN tokens /\ f = [t \in DOMAIN tokens |-> f[t]]
            /\ \A t \in DOMAIN tokens : f[t] \in Tokens /\ f[t].u = tokens[t].u
        BY <1>3, <3>1 DEF Tokens
      <3>3. f \in Seq(Tokens)
        BY <1>3, <3>2, Rewritten
      <3> QED
        BY <1>3, <3>1, <3>2, <3>3
    <2>4. CASE RevokeAllRefreshTokens(q)
      <3>1. PICK f : /\ f = [t \in DOMAIN tokens |-> IF t \in req[q].snap
                                   THEN [tokens[t] EXCEPT !.live = FALSE] ELSE tokens[t]]
                     /\ tokens' = f
        BY <2>4 DEF RevokeAllRefreshTokens
      <3>2. /\ DOMAIN f = DOMAIN tokens /\ f = [t \in DOMAIN tokens |-> f[t]]
            /\ \A t \in DOMAIN tokens : f[t] \in Tokens /\ f[t].u = tokens[t].u
        BY <1>3, <3>1 DEF Tokens
      <3>3. f \in Seq(Tokens)
        BY <1>3, <3>2, Rewritten
      <3> QED
        BY <1>3, <3>1, <3>2, <3>3
    <2> QED
      BY <2>1, <2>2, <2>3, <2>4
  <1>6. UNCHANGED <<users, intent, resets, invitations, refs, cache>>
    BY DEF CreateRefreshToken, RotateRefreshToken, RevokeRefreshToken,
           RevokeAllRefreshTokens, ghosts
  <1>7. Tables' /\ Grown
    BY <1>5, <1>6 DEF Typed, Tables, Ids, Grown
  <1>8. req[q].op # "idle" /\ Head(req[q].steps) # "lookup" /\ Done(q)
    BY DEF CreateRefreshToken, RotateRefreshToken, RevokeRefreshToken,
           RevokeAllRefreshTokens, At
  <1> QED
    BY <1>7, <1>8, PlainStep DEF Typed

(* Statements on password resets. *)
LEMMA ResetTyped ==
    ASSUME Typed, NEW q \in Requests,
           \/ CreatePasswordReset(q) \/ MarkPasswordResetUsed(q)
           \/ InvalidatePendingPasswordResets(q)
    PROVE  Typed'
  <1> PICK r : r = req[q]
    OBVIOUS
  <1>1. /\ r # Idle /\ r \in Tasks /\ Bound(r)
        /\ Head(r.steps) \in {"createReset", "markUsed", "closeResets"}
    BY AtWork DEF CreatePasswordReset, MarkPasswordResetUsed,
                  InvalidatePendingPasswordResets, At, Typed
  <1>2. r.u \in Ids /\ r.u \in Nat
    <2>1. 1 \in 1 .. Len(r.steps) /\ Head(r.steps) = r.steps[1] /\ r.u \in Nat
      BY <1>1 DEF Tasks, Bound
    <2> QED
      BY <1>1, <2>1 DEF Bound, Sound
  <1>3. resets \in Seq(Resets) /\ \A x \in DOMAIN resets : resets[x] \in Resets /\ resets[x].u \in Ids
    BY DEF Typed, Tables
  <1>4. resets' \in Seq(Resets) /\ \A x \in DOMAIN resets' : resets'[x].u \in Ids
    <2>1. CASE CreatePasswordReset(q)
      <3>1. PICK e : e = [u |-> r.u, used |-> FALSE, pw |-> users[r.u].row.pw]
        OBVIOUS
      <3>2. e \in Resets /\ e.u = r.u
        BY <1>2, <3>1, Stored DEF Resets, UserRows
      <3>3. resets' = Append(resets, e)
        BY <2>1, <3>1 DEF CreatePasswordReset
      <3> QED
        BY <1>2, <1>3, <3>2, <3>3, Appended
    <2>2. CASE MarkPasswordResetUsed(q)
      <3>1. PICK f : f = [resets EXCEPT ![r.x].used = TRUE] /\ resets' = f
        BY <2>2 DEF MarkPasswordResetUsed
      <3>2. /\ DOMAIN f = DOMAIN resets /\ f = [x \in DOMAIN resets |-> f[x]]
            /\ \A x \in DOMAIN resets : f[x] \in Resets /\ f[x].u = resets[x].u
        BY <1>3, <3>1 DEF Resets
      <3>3. f \in Seq(Resets)
        BY <1>3, <3>2, Rewritten
      <3> QED
        BY <1>3, <3>1, <3>2, <3>3
    <2>3. CASE InvalidatePendingPasswordResets(q)
      <3>1. PICK f : /\ f = [x \in DOMAIN resets |-> IF resets[x].u = req[q].u
                                   THEN [resets[x] EXCEPT !.used = TRUE] ELSE resets[x]]
                     /\ resets' = f
        BY <2>3 DEF InvalidatePendingPasswordResets
      <3>2. /\ DOMAIN f = DOMAIN resets /\ f = [x \in DOMAIN resets |-> f[x]]
            /\ \A x \in DOMAIN resets : f[x] \in Resets /\ f[x].u = resets[x].u
        BY <1>3, <3>1 DEF Resets
      <3>3. f \in Seq(Resets)
        BY <1>3, <3>2, Rewritten
      <3> QED
        BY <1>3, <3>1, <3>2, <3>3
    <2> QED
      BY <2>1, <2>2, <2>3
  <1>5. UNCHANGED <<users, intent, tokens, invitations, refs, cache>>
    BY DEF CreatePasswordReset, MarkPasswordResetUsed, InvalidatePendingPasswordResets, ghosts
  <1>6. Tables' /\ Grown
    BY <1>4, <1>5 DEF Typed, Tables, Ids, Grown
  <1>7. req[q].op # "idle" /\ Head(req[q].steps) # "lookup" /\ Done(q)
    BY DEF CreatePasswordReset, MarkPasswordResetUsed, InvalidatePendingPasswordResets, At
  <1> QED
    BY <1>6, <1>7, PlainStep DEF Typed

(* Statements on object references. *)
LEMMA ReferenceTyped ==
    ASSUME Typed, NEW q \in Requests, TrackObject(q) \/ OrphanObjectsFor(q)
    PROVE  Typed'
  <1> PICK r : r = req[q]
    OBVIOUS
  <1>1. r # Idle /\ r \in Tasks /\ r.u \in Nat
    BY AtWork DEF TrackObject, OrphanObjectsFor, At, Typed, Tasks
  <1>2. refs \in Seq(References) /\ \A k \in DOMAIN refs : refs[k] \in References
    BY DEF Typed, Tables
  <1>3. refs' \in Seq(References)
    <2>1. CASE TrackObject(q)
      <3>1. PICK f : f = [refs EXCEPT ![r.x] = [state |-> "active", u |-> r.u]] /\ refs' = f
        BY <2>1 DEF TrackObject
      <3>2. /\ f = [k \in DOMAIN refs |-> f[k]]
            /\ \A k \in DOMAIN refs : f[k] \in References
        BY <1>1, <1>2, <3>1 DEF References
      <3>3. f \in Seq(References)
        BY <1>2, <3>2, Rewritten
      <3> QED
        BY <3>1, <3>3
    <2>2. CASE OrphanObjectsFor(q)
      <3>1. PICK f : /\ f = [k \in DOMAIN refs |->
                                IF refs[k] = [state |-> "active", u |-> req[q].u] /\ k # Keep(q)
                                THEN [refs[k] EXCEPT !.state = "orphaned"] ELSE refs[k]]
                     /\ refs' = f
        BY <2>2 DEF OrphanObjectsFor
      <3>2. /\ f = [k \in DOMAIN refs |-> f[k]]
            /\ \A k \in DOMAIN refs : f[k] \in References
        BY <1>2, <3>1 DEF References
      <3>3. f \in Seq(References)
        BY <1>2, <3>2, Rewritten
      <3> QED
        BY <3>1, <3>3
    <2> QED
      BY <2>1, <2>2
  <1>4. Tables' /\ Grown
    BY <1>3 DEF TrackObject, OrphanObjectsFor, ghosts, Typed, Tables, Ids, Grown
  <1>5. req[q].op # "idle" /\ Head(req[q].steps) # "lookup" /\ (Done(q) \/ Refuse(q))
    BY DEF TrackObject, OrphanObjectsFor, At
  <1> QED
    BY <1>4, <1>5, PlainStep DEF Typed

(* A user is inserted, or not. *)
LEMMA InsertTyped ==
    ASSUME Typed, NEW e \in Emails, NEW role \in Roles,
           \/ \E p \in Passwords : Insert(User(e, p, role))
           \/ UNCHANGED <<users, intent>>
    PROVE  /\ users' \in Seq(Accounts) /\ intent' \in Seq(UserRows) /\ Len(intent') = Len(users')
           /\ Ids \subseteq Ids'
           /\ \A u \in Ids : users'[u] = users[u] /\ intent'[u] = intent[u]
           /\ \A u \in Ids' \ Ids : users'[u].row = intent'[u] /\ users'[u].row.image = NoImage
  <1>1. /\ users \in Seq(Accounts) /\ intent \in Seq(UserRows) /\ Len(intent) = Len(users)
        /\ Ids = DOMAIN users /\ Ids' = DOMAIN users' /\ DOMAIN intent = DOMAIN users
    BY DEF Typed, Tables, Ids
  <1>2. CASE UNCHANGED <<users, intent>>
    BY <1>1, <1>2
  <1>3. CASE \E p \in Passwords : Insert(User(e, p, role))
    <2>1. PICK p \in Passwords : Insert(User(e, p, role))
      BY <1>3
    <2>2. PICK row : row = User(e, p, role)
      OBVIOUS
    <2>3. row \in UserRows /\ row.image = NoImage
      BY <2>2 DEF User, UserRows, NoImage
    <2>4. PICK a : a = [row |-> row, deleted |-> FALSE]
      OBVIOUS
    <2>5. a \in Accounts /\ a.row = row
      BY <2>3, <2>4 DEF Accounts
    <2>6. users' = Append(users, a) /\ intent' = Append(intent, row)
      BY <2>1, <2>2, <2>4 DEF Insert
    <2>7. /\ users' \in Seq(Accounts) /\ Len(users') = Len(users) + 1
          /\ DOMAIN users' = DOMAIN users \cup {Len(users) + 1}
          /\ \A u \in DOMAIN users : users'[u] = users[u]
          /\ users'[Len(users) + 1] = a
      <3>1. PICK g : g = Append(users, a)
        OBVIOUS
      <3>2. /\ g \in Seq(Accounts) /\ Len(g) = Len(users) + 1
            /\ DOMAIN g = DOMAIN users \cup {Len(users) + 1}
            /\ \A u \in DOMAIN users : g[u] = users[u]
            /\ g[Len(users) + 1] = a
        BY <1>1, <2>5, <3>1, Appended
      <3> QED
        BY <2>6, <3>1, <3>2
    <2>8. /\ intent' \in Seq(UserRows) /\ Len(intent') = Len(intent) + 1
          /\ \A u \in DOMAIN intent : intent'[u] = intent[u]
          /\ intent'[Len(intent) + 1] = row
      <3>1. PICK g : g = Append(intent, row)
        OBVIOUS
      <3>2. /\ g \in Seq(UserRows) /\ Len(g) = Len(intent) + 1
            /\ \A u \in DOMAIN intent : g[u] = intent[u]
            /\ g[Len(intent) + 1] = row
        BY <1>1, <2>3, <3>1, Appended
      <3> QED
        BY <2>6, <3>1, <3>2
    <2> QED
      BY <1>1, <2>3, <2>5, <2>7, <2>8
  <1> QED
    BY <1>2, <1>3

(* Accepting an invitation inserts a user, or does nothing. *)
LEMMA Joined ==
    ASSUME Typed, NEW q \in Requests, AcceptInvitationTx(q)
    PROVE  /\ users' \in Seq(Accounts) /\ intent' \in Seq(UserRows) /\ Len(intent') = Len(users')
           /\ Ids \subseteq Ids'
           /\ \A u \in Ids : users'[u] = users[u] /\ intent'[u] = intent[u]
           /\ \A u \in Ids' \ Ids : users'[u].row = intent'[u] /\ users'[u].row.image = NoImage
  <1> PICK r : r = req[q]
    OBVIOUS
  <1>1. r # Idle /\ r \in Tasks /\ Bound(r) /\ Head(r.steps) = "acceptInvitation"
    BY AtWork DEF AcceptInvitationTx, At, Typed
  <1>2. 1 \in 1 .. Len(r.steps) /\ Head(r.steps) = r.steps[1]
    BY <1>1 DEF Tasks, Bound
  <1>3. r.x \in DOMAIN invitations /\ invitations[r.x] \in Invites
    <2>1. r.x \in DOMAIN invitations
      BY <1>1, <1>2 DEF Bound, Sound
    <2> QED
      BY <2>1 DEF Typed, Tables
  <1>4. PICK e, role : e = invitations[r.x].email /\ role = invitations[r.x].role
    OBVIOUS
  <1>5. e \in Emails /\ role \in Roles
    BY <1>3, <1>4 DEF Invites
  <1>6. (\E p \in Passwords : Insert(User(e, p, role))) \/ UNCHANGED <<users, intent>>
    BY <1>4 DEF AcceptInvitationTx
  <1> QED
    BY <1>5, <1>6, InsertTyped

(* Statements that insert a user or store an invitation. *)
LEMMA AccountTyped ==
    ASSUME Typed, NEW q \in Requests,
           CreateUser(q) \/ CreateInvitation(q) \/ AcceptInvitationTx(q)
    PROVE  Typed'
  <1> PICK r : r = req[q]
    OBVIOUS
  <1>1. /\ r # Idle /\ r \in Tasks /\ Bound(r)
        /\ Head(r.steps) \in {"createUser", "createInvitation", "acceptInvitation"}
    BY AtWork DEF CreateUser, CreateInvitation, AcceptInvitationTx, At, Typed
  <1>2. /\ Head(r.steps) = "createInvitation" => r.x \in Invitee
        /\ Head(r.steps) = "acceptInvitation" => r.x \in DOMAIN invitations
    <2>1. 1 \in 1 .. Len(r.steps) /\ Head(r.steps) = r.steps[1]
      BY <1>1 DEF Tasks, Bound
    <2> QED
      BY <1>1, <2>1 DEF Bound, Sound
  <1>3. invitations \in Seq(Invites) /\ \A i \in DOMAIN invitations : invitations[i] \in Invites
    BY DEF Typed, Tables
  <1>4. /\ users' \in Seq(Accounts) /\ intent' \in Seq(UserRows) /\ Len(intent') = Len(users')
        /\ Ids \subseteq Ids'
    <2>1. CASE CreateUser(q)
      <3>1. BootstrapEmail \in Emails /\ "super_admin" \in Roles
        BY IdentityAssumption DEF Roles
      <3>2. \/ \E p \in Passwords : Insert(User(BootstrapEmail, p, "super_admin"))
            \/ UNCHANGED <<users, intent>>
        BY <2>1 DEF CreateUser
      <3> QED
        BY <3>1, <3>2, InsertTyped
    <2>2. CASE CreateInvitation(q)
      BY <2>2 DEF CreateInvitation, ghosts, Typed, Tables, Ids
    <2>3. CASE AcceptInvitationTx(q)
      BY <2>3, Joined
    <2> QED
      BY <2>1, <2>2, <2>3
  <1>5. invitations' \in Seq(Invites) /\ DOMAIN invitations \subseteq DOMAIN invitations'
    <2>1. CASE CreateUser(q)
      BY <1>3, <2>1 DEF CreateUser
    <2>2. CASE CreateInvitation(q)
      <3>1. PICK e : e = [email |-> r.x.email, role |-> r.x.role, status |-> "pending", by |-> {}]
        OBVIOUS
      <3>2. e \in Invites
        BY <1>2, <2>2, <3>1 DEF CreateInvitation, At, Invitee, Invites
      <3>3. invitations' = Append(invitations, e)
        BY <2>2, <3>1 DEF CreateInvitation
      <3> QED
        BY <1>3, <3>2, <3>3, Appended
    <2>3. CASE AcceptInvitationTx(q)
      <3>1. CASE UNCHANGED invitations
        BY <1>3, <3>1
      <3>2. CASE invitations' = [invitations EXCEPT ![r.x].status = "accepted",
                                                    ![r.x].by = @ \cup {Len(users) + 1}]
        <4>1. PICK f : /\ f = [invitations EXCEPT ![r.x].status = "accepted",
                                                  ![r.x].by = @ \cup {Len(users) + 1}]
                       /\ invitations' = f
          BY <3>2
        <4>2. Len(users) + 1 \in Nat
          BY DEF Typed, Tables
        <4>3. /\ f = [i \in DOMAIN invitations |-> f[i]]
              /\ \A i \in DOMAIN invitations : f[i] \in Invites
          BY <1>3, <4>1, <4>2, ZenonT(30) DEF Invites
        <4>4. f \in Seq(Invites) /\ DOMAIN f = DOMAIN invitations
          BY <1>3, <4>3, Rewritten
        <4> QED
          BY <4>1, <4>4
      <3> QED
        BY <2>3, <3>1, <3>2 DEF AcceptInvitationTx
    <2> QED
      BY <2>1, <2>2, <2>3
  <1>6. UNCHANGED <<tokens, resets, refs, cache>>
    BY DEF CreateUser, CreateInvitation, AcceptInvitationTx
  <1>7. Tables' /\ Grown
    BY <1>4, <1>5, <1>6 DEF Typed, Tables, Grown
  <1>8. req[q].op # "idle" /\ Head(req[q].steps) # "lookup" /\ Done(q)
    BY DEF CreateUser, CreateInvitation, AcceptInvitationTx, At
  <1> QED
    BY <1>7, <1>8, PlainStep DEF Typed

(* A replica's entries go away. *)
LEMMA ReplicaTyped ==
    ASSUME Typed, NEW r \in Replicas, Restart(r) \/ \E u \in Ids : CacheExpires(r, u)
    PROVE  Typed'
  <1>1. CASE Restart(r)
    <2>1. Tables' /\ Grown
      BY <1>1 DEF Restart, rows, Typed, Tables, Ids, Grown
    <2>2. Working'
      <3>1. req' \in [Requests -> Tasks \cup {Idle}]
        BY <1>1 DEF Restart, Typed, Working
      <3>2. ASSUME NEW p \in Requests, req'[p] # Idle
            PROVE  Bound(req[p])'
        <4>1. req'[p] = req[p] /\ Bound(req[p])
          BY <1>1, <3>2 DEF Restart, Typed, Working
        <4> QED
          BY <2>1, <4>1 DEF Bound, Grown
      <3> QED
        BY <3>1, <3>2 DEF Working
    <2> QED
      BY <2>1, <2>2 DEF Typed
  <1>2. CASE \E u \in Ids : CacheExpires(r, u)
    <2>1. PICK u \in Ids : CacheExpires(r, u)
      BY <1>2
    <2>2. Tables'
      BY <2>1 DEF CacheExpires, DropEntry, rows, Typed, Tables, Ids
    <2>3. Working'
      BY <2>1 DEF CacheExpires, rows, Typed, Working, Bound, Ids
    <2> QED
      BY <2>2, <2>3 DEF Typed
  <1> QED
    BY <1>1, <1>2

(* The row a write stores: the columns of its operation as asked for, the     *)
(* others as read.                                                          *)
LEMMA RowWritten ==
    ASSUME Typed, NEW q \in Requests, At(q, "update"), NEW row \in Changes(q, Wanted(q))
    PROVE  /\ row \in UserRows /\ req[q].read \in UserRows
           /\ DOMAIN row = DOMAIN req[q].read
           /\ \A c \in DOMAIN row : c \notin Columns(req[q].op) => row[c] = req[q].read[c]
           /\ row.image = IF req[q].op = "image" THEN req[q].x ELSE req[q].read.image
           /\ row.pw = IF req[q].op \in PasswordOps THEN row.pw ELSE req[q].read.pw
  <1> PICK r : r = req[q]
    OBVIOUS
  <1>1. r # Idle /\ r \in Tasks /\ Bound(r) /\ r.read \in UserRows
    BY AtWork DEF At, Typed, Bound, Uses, Holds
  <1>2. PICK w \in Wanted(q) : row = NewRow(q, w)
    BY DEF Changes
  <1>3. /\ DOMAIN w = {"found", "email", "pw", "role", "blocked", "prefs", "image"}
        /\ w.found /\ w.email \in Emails /\ w.pw \in Passwords /\ w.role \in Roles
        /\ w.blocked \in BOOLEAN /\ w.prefs \in BOOLEAN /\ w.image = r.x /\ w.found \in BOOLEAN
    BY <1>2 DEF Wanted
  <1>4. /\ DOMAIN r.read = {"found", "email", "pw", "role", "blocked", "prefs", "image"}
        /\ r.read.found = TRUE /\ r.read.email \in Emails /\ r.read.pw \in Passwords
        /\ r.read.role \in Roles /\ r.read.blocked \in BOOLEAN /\ r.read.prefs \in BOOLEAN
        /\ r.read.image \in Nat
    BY <1>1 DEF UserRows
  <1>5. /\ row = [c \in DOMAIN w |-> IF c \in Columns(r.op) THEN w[c] ELSE r.read[c]]
        /\ DOMAIN row = DOMAIN w
    BY <1>2 DEF NewRow
  <1>6. /\ "found" \notin Columns(r.op)
        /\ "image" \in Columns(r.op) <=> r.op = "image"
        /\ "pw" \in Columns(r.op) <=> r.op \in PasswordOps
    BY DEF Columns, PasswordOps
  <1>7. r.op = "image" => r.x \in Nat
    BY <1>1 DEF Bound
  <1>8. /\ row.found = TRUE /\ row.email \in Emails /\ row.pw \in Passwords
        /\ row.role \in Roles /\ row.blocked \in BOOLEAN /\ row.prefs \in BOOLEAN
        /\ row.image = IF r.op = "image" THEN r.x ELSE r.read.image
        /\ row.pw = IF r.op \in PasswordOps THEN row.pw ELSE r.read.pw
    BY <1>3, <1>4, <1>5, <1>6
  <1>9. row \in UserRows
    <2>1. PICK g : g = [found |-> row.found, email |-> row.email, pw |-> row.pw, role |-> row.role,
                        blocked |-> row.blocked, prefs |-> row.prefs, image |-> row.image]
      OBVIOUS
    <2>2. g \in UserRows
      BY <1>4, <1>7, <1>8, <2>1 DEF UserRows
    <2>3. row = g
      BY <1>3, <1>5, <2>1
    <2> QED
      BY <2>2, <2>3
  <1> QED
    BY <1>1, <1>3, <1>4, <1>5, <1>8, <1>9

(* What a write makes of the other requests. *)
LEMMA Others ==
    ASSUME Working, NEW q \in Requests, NEW n,
           req' = [Overtaking(q, req) EXCEPT ![q] = n]
    PROVE  /\ DOMAIN req' = Requests /\ req'[q] = n
           /\ req' = [p \in Requests |-> req'[p]]
           /\ \A p \in Requests \ {q} :
                 req'[p] = IF p \in InFlight(req[q].u) /\ req[p].read.found
                           THEN [req[p] EXCEPT !.overtaken = TRUE] ELSE req[p]
  BY DEF Overtaking, Working

LEMMA WriterMoves ==
    ASSUME Typed, Grown, NEW q \in Requests, NEW n, n \in Tasks, Bound(n),
           req' = [Overtaking(q, req) EXCEPT ![q] = n]
    PROVE  Working'
  <1>1. /\ req' = [p \in Requests |-> req'[p]] /\ req'[q] = n
        /\ \A p \in Requests \ {q} :
              req'[p] = req[p] \/ (req[p] # Idle /\ req'[p] = [req[p] EXCEPT !.overtaken = TRUE])
    <2>1. \A p \in InFlight(req[q].u) : req[p] # Idle
      BY AtWork DEF InFlight, Typed
    <2> QED
      BY <2>1, Others DEF Typed
  <1>2. ASSUME NEW p \in Requests
        PROVE  req'[p] = Idle \/ (req'[p] \in Tasks /\ Bound(req[p])')
    <2>1. PICK m : m = req'[p]
      OBVIOUS
    <2>2. m = Idle \/ (m \in Tasks /\ Bound(m))
      <3>1. CASE p = q
        BY <1>1, <2>1, <3>1
      <3>2. CASE p # q /\ m = req[p]
        BY <2>1, <3>2, AtWork DEF Typed
      <3>3. CASE req[p] # Idle /\ m = [req[p] EXCEPT !.overtaken = TRUE]
        <4>1. req[p] \in Tasks /\ Bound(req[p])
          BY <3>3, AtWork DEF Typed
        <4>2. m \in Tasks /\ m.op = req[p].op /\ m.u = req[p].u /\ m.x = req[p].x
              /\ m.read = req[p].read /\ m.steps = req[p].steps
          BY <3>3, <4>1 DEF Tasks
        <4> QED
          BY <4>1, <4>2 DEF Bound
      <3> QED
        BY <1>1, <2>1, <3>1, <3>2, <3>3
    <2> QED
      BY <2>1, <2>2 DEF Bound, Grown
  <1>3. req' \in [Requests -> Tasks \cup {Idle}]
    BY <1>1, <1>2
  <1> QED
    BY <1>2, <1>3 DEF Working

(* After a write comes the eviction. *)
LEMMA ThenEvict ==
    ASSUME Typed, NEW q \in Requests, At(q, "update") \/ At(q, "delete"), NEW n,
           \/ n = Advance(req[q])
           \/ req[q].op = "manage" /\ At(q, "update") /\ n = Advance(WithoutMail(req[q]))
    PROVE  /\ n \in Tasks /\ Bound(n) /\ Head(n.steps) = "evict"
           /\ n = [req[q] EXCEPT !.steps = n.steps]
           /\ n.steps = Tail(req[q].steps) \/ req[q].op = "manage"
           /\ req[q].u \in Ids /\ req[q].rep \in Replicas /\ req[q] # Idle
           /\ req[q].read \in UserRows
  <1> PICK r : r = req[q]
    OBVIOUS
  <1>1. /\ r # Idle /\ r \in Tasks /\ Bound(r) /\ r.steps \in Seq(Statements) /\ r.steps # << >>
        /\ Head(r.steps) \in {"update", "delete"} /\ r.rep \in Replicas
    <2>1. r # Idle /\ r \in Tasks /\ Bound(r) /\ Head(r.steps) \in {"update", "delete"}
      BY AtWork DEF At, Typed
    <2> QED
      BY <2>1 DEF Tasks, Bound
  <1>2. /\ 1 \in 1 .. Len(r.steps) /\ Len(r.steps) \in Nat /\ Len(r.steps) > 1
        /\ Head(r.steps) = r.steps[1] /\ r.steps[2] = "evict" /\ r.u \in Ids /\ r.read \in UserRows
        /\ Head(r.steps) = "update" /\ r.op = "manage" => Len(r.steps) = 3
        /\ r.op \notin Userless
    <2>1. 1 \in 1 .. Len(r.steps) /\ Len(r.steps) \in Nat /\ Head(r.steps) = r.steps[1] /\ 1 + 1 = 2
          /\ Head(r.steps) \in Holds /\ 1 + 2 = 3
      BY <1>1 DEF Uses, Holds
    <2>2. Sound(r.steps, r.op)
      BY <1>1 DEF Bound
    <2>3. /\ r.steps[1] \in {"update", "delete"} => 1 < Len(r.steps) /\ r.steps[1 + 1] = "evict"
          /\ r.steps[1] = "update" /\ r.op = "manage" => Len(r.steps) = 1 + 2
          /\ r.steps[1] \notin {"createInvitation", "mail", "acceptInvitation", "createUser"} =>
                r.op \notin Userless
      BY <2>1, <2>2 DEF Sound
    <2>4. r.op \notin Userless /\ Len(r.steps) > 1 /\ r.steps[2] = "evict"
      BY <1>1, <2>1, <2>3
    <2>5. r.u \in Ids /\ r.read \in UserRows
      BY <1>1, <2>1, <2>4 DEF Bound
    <2> QED
      BY <2>1, <2>3, <2>4, <2>5
  <1>3. CASE n = Advance(r)
    <2>1. Tail(r.steps) # << >>
      BY <1>1, <1>2, SoundTail DEF Bound
    <2>2. n = [r EXCEPT !.steps = Tail(r.steps)]
      BY <1>3, <2>1 DEF Advance
    <2>3. n.op # "idle"
      BY <1>1, <2>2 DEF Tasks, OpNames
    <2>4. n # Idle
      BY <2>3 DEF Idle
    <2>5. n.steps = Tail(r.steps)
      BY <1>1, <2>2 DEF Tasks
    <2> QED
      BY <1>1, <1>2, <1>3, <2>2, <2>4, <2>5, Advanced DEF Typed
  <1>4. CASE r.op = "manage" /\ At(q, "update") /\ n = Advance(WithoutMail(r))
    <2>1. Len(r.steps) = 3
      BY <1>2, <1>4 DEF At
    <2>2. PICK c : c = SubSeq(r.steps, 1, Len(r.steps) - 1)
      OBVIOUS
    <2>3. c \in Seq(Statements) /\ Len(c) = 2 /\ c[1] = r.steps[1] /\ c[2] = r.steps[2]
      BY <1>1, <2>1, <2>2
    <2>4. PICK t : t = Tail(c)
      OBVIOUS
    <2>5. t \in Seq(Statements) /\ Len(t) = 1 /\ t[1] = "evict"
      <3>1. Len(c) > 0
        BY <2>3
      <3>2. /\ Tail(c) \in Seq(Statements) /\ Len(Tail(c)) = Len(c) - 1
            /\ \A i \in 1 .. Len(c) - 1 : Tail(c)[i] = c[i + 1]
        BY <2>3, <3>1, FirstAndRest, Zenon
      <3>3. 1 \in 1 .. Len(c) - 1 /\ 1 + 1 = 2 /\ Len(c) - 1 = 1
        BY <2>3
      <3> QED
        BY <1>2, <2>3, <2>4, <3>2, <3>3
    <2>6. t # << >> /\ Head(t) = "evict"
      <3>1. Len(t) > 0
        BY <2>5
      <3> QED
        BY <2>5, <3>1, FirstAndRest, Zenon
    <2>7. n = [r EXCEPT !.steps = t]
      <3>1. PICK m : m = [r EXCEPT !.steps = c] /\ m = WithoutMail(r)
        BY <2>2 DEF WithoutMail
      <3>2. m.steps = c
        BY <1>1, <3>1 DEF Tasks
      <3>3. n = [m EXCEPT !.steps = t]
        BY <1>4, <2>4, <2>6, <3>1, <3>2 DEF Advance
      <3> QED
        BY <1>1, <3>1, <3>3 DEF Tasks
    <2>8. n \in Tasks /\ n.op = r.op /\ n.u = r.u /\ n.x = r.x /\ n.read = r.read /\ n.steps = t
      BY <1>1, <2>5, <2>7 DEF Tasks
    <2>9. Sound(t, r.op) /\ Staged(t, r.op)
      BY <1>2, <1>4, <2>5 DEF Sound, Staged, PasswordOps
    <2>10. Bound(n)
      BY <1>1, <1>2, <2>6, <2>8, <2>9 DEF Bound
    <2> QED
      BY <1>1, <1>2, <1>4, <2>6, <2>7, <2>8, <2>10
  <1> QED
    BY <1>3, <1>4

(* A write that goes through. *)
Stores(q, row) ==
    /\ At(q, "update") /\ ~users[req[q].u].deleted
    /\ users' = [users EXCEPT ![req[q].u].row = row]
    /\ lost' = IF req[q].overtaken THEN lost \cup {req[q].u} ELSE lost
    /\ intent' = [intent EXCEPT ![req[q].u] =
          [c \in DOMAIN @ |-> IF c \in Columns(req[q].op) THEN row[c] ELSE @[c]]]
    /\ unsettled' = IF req[q].op \in PasswordOps THEN unsettled \cup {req[q].u} ELSE unsettled

Removes(q) ==
    /\ At(q, "delete") /\ ~users[req[q].u].deleted
    /\ users' = [users EXCEPT ![req[q].u].deleted = TRUE]
    /\ UNCHANGED <<lost, intent, unsettled>>

(* A write either fails or stores its row; then it goes on to its eviction.  *)
LEMMA Writing ==
    ASSUME Typed, NEW q \in Requests, WriteUser(q) \/ Delete(q)
    PROVE  \/ /\ UNCHANGED <<rows, cache, arriving, faults, ghosts>>
              /\ req' = [req EXCEPT ![q] = Idle]
           \/ /\ Removes(q) \/ \E row \in Changes(q, Wanted(q)) : Stores(q, row)
              /\ exposed' = exposed \cup LeftBehind(req[q].rep, req[q].u)
              /\ UNCHANGED <<tokens, resets, invitations, refs, mail, cache, mixed>>
              /\ \E n : /\ \/ n = Advance(req[q])
                           \/ req[q].op = "manage" /\ At(q, "update") /\ n = Advance(WithoutMail(req[q]))
                        /\ req' = [Overtaking(q, req) EXCEPT ![q] = n]
  <1>1. CASE WriteUser(q)
    <2>1. PICK row \in Changes(q, Wanted(q)) :
             IF users[req[q].u].deleted \/ ~EmailFree(row.email, req[q].u)
             THEN /\ Refuse(q) /\ UNCHANGED <<rows, cache, arriving, faults, ghosts>>
             ELSE /\ users' = [users EXCEPT ![req[q].u].row = row]
                  /\ req' = [Overtaking(q, req) EXCEPT ![q] = Advance(
                        IF req[q].op = "manage" /\ Unchanged(q, row) THEN WithoutMail(req[q]) ELSE req[q])]
                  /\ exposed' = exposed \cup LeftBehind(req[q].rep, req[q].u)
                  /\ lost' = IF req[q].overtaken THEN lost \cup {req[q].u} ELSE lost
                  /\ intent' = [intent EXCEPT ![req[q].u] =
                        [c \in DOMAIN @ |-> IF c \in Columns(req[q].op) THEN row[c] ELSE @[c]]]
                  /\ unsettled' = IF req[q].op \in PasswordOps THEN unsettled \cup {req[q].u} ELSE unsettled
                  /\ UNCHANGED <<tokens, resets, invitations, refs, mail, cache, arriving,
                                 faults, mixed>>
      BY <1>1 DEF WriteUser
    <2>2. CASE users[req[q].u].deleted \/ ~EmailFree(row.email, req[q].u)
      BY <2>1, <2>2 DEF Refuse
    <2>3. CASE ~(users[req[q].u].deleted \/ ~EmailFree(row.email, req[q].u))
      <3>1. At(q, "update")
        BY <1>1 DEF WriteUser
      <3>2. Stores(q, row)
        BY <2>1, <2>3, <3>1 DEF Stores
      <3>3. PICK n : n = Advance(IF req[q].op = "manage" /\ Unchanged(q, row)
                                 THEN WithoutMail(req[q]) ELSE req[q])
        OBVIOUS
      <3>4. \/ n = Advance(req[q])
            \/ req[q].op = "manage" /\ At(q, "update") /\ n = Advance(WithoutMail(req[q]))
        BY <3>1, <3>3
      <3>5. req' = [Overtaking(q, req) EXCEPT ![q] = n]
        BY <2>1, <2>3, <3>3
      <3> QED
        BY <2>1, <2>3, <3>2, <3>4, <3>5
    <2> QED
      BY <2>2, <2>3
  <1>2. CASE Delete(q)
    <2>1. CASE users[req[q].u].deleted
      BY <1>2, <2>1 DEF Delete, Refuse
    <2>2. CASE ~users[req[q].u].deleted
      <3>1. Removes(q)
        BY <1>2, <2>2 DEF Delete, Removes
      <3>2. /\ exposed' = exposed \cup LeftBehind(req[q].rep, req[q].u)
            /\ UNCHANGED <<tokens, resets, invitations, refs, mail, cache, mixed>>
            /\ req' = [Overtaking(q, req) EXCEPT ![q] = Advance(req[q])]
        BY <1>2, <2>2 DEF Delete
      <3> QED
        BY <3>1, <3>2
    <2> QED
      BY <2>1, <2>2
  <1> QED
    BY <1>1, <1>2

(* What is stored afterwards. *)
LEMMA StoredRow ==
    ASSUME Typed, NEW q \in Requests, NEW row \in Changes(q, Wanted(q)), Stores(q, row)
    PROVE  /\ users' \in Seq(Accounts) /\ intent' \in Seq(UserRows) /\ Len(intent') = Len(users')
           /\ Ids' = Ids /\ DOMAIN intent = Ids
           /\ \A v \in Ids : v # req[q].u => users'[v] = users[v] /\ intent'[v] = intent[v]
           /\ users'[req[q].u] = [row |-> row, deleted |-> FALSE]
           /\ intent'[req[q].u] = [c \in DOMAIN intent[req[q].u] |->
                 IF c \in Columns(req[q].op) THEN row[c] ELSE intent[req[q].u][c]]
           /\ row \in UserRows /\ req[q].u \in Ids
  <1> PICK u, op : u = req[q].u /\ op = req[q].op
    OBVIOUS
  <1>1. u \in Ids
    <2>1. PICK n : n = Advance(req[q])
      OBVIOUS
    <2> QED
      BY <2>1, ThenEvict DEF Stores
  <1>2. row \in UserRows
    BY RowWritten DEF Stores
  <1>3. /\ users \in Seq(Accounts) /\ intent \in Seq(UserRows) /\ Len(intent) = Len(users)
        /\ Ids = DOMAIN users /\ DOMAIN intent = DOMAIN users
        /\ \A v \in Ids : users[v] \in Accounts /\ intent[v] \in UserRows
    BY DEF Typed, Tables, Ids
  <1>4. PICK f, g : /\ f = [users EXCEPT ![u].row = row] /\ users' = f
                    /\ g = [intent EXCEPT ![u] = [c \in DOMAIN @ |-> IF c \in Columns(op) THEN row[c] ELSE @[c]]]
                    /\ intent' = g
    BY DEF Stores
  <1>5. /\ f = [v \in DOMAIN users |-> f[v]]
        /\ \A v \in DOMAIN users : v # u => f[v] = users[v]
        /\ f[u] = [users[u] EXCEPT !.row = row]
    BY <1>1, <1>3, <1>4
  <1>6. f[u] \in Accounts /\ f[u] = [row |-> row, deleted |-> FALSE]
    <2>1. users[u] \in Accounts /\ users[u].deleted = FALSE
      BY <1>1, <1>3 DEF Stores, Accounts
    <2> QED
      BY <1>2, <1>5, <2>1 DEF Accounts
  <1>7. f \in Seq(Accounts) /\ Len(f) = Len(users) /\ DOMAIN f = DOMAIN users
    <2>1. \A v \in DOMAIN users : f[v] \in Accounts
      BY <1>3, <1>5, <1>6
    <2> QED
      BY <1>3, <1>5, <2>1, Rewritten
  <1>8. /\ g = [v \in DOMAIN intent |-> g[v]]
        /\ \A v \in DOMAIN intent : v # u => g[v] = intent[v]
        /\ g[u] = [c \in DOMAIN intent[u] |-> IF c \in Columns(op) THEN row[c] ELSE intent[u][c]]
    BY <1>1, <1>3, <1>4
  <1>9. g[u] \in UserRows
    <2>1. intent[u] \in UserRows
      BY <1>1, <1>3
    <2>2. PICK h : h = [found |-> g[u].found, email |-> g[u].email, pw |-> g[u].pw, role |-> g[u].role,
                        blocked |-> g[u].blocked, prefs |-> g[u].prefs, image |-> g[u].image]
      OBVIOUS
    <2>3. DOMAIN intent[u] = {"found", "email", "pw", "role", "blocked", "prefs", "image"}
      BY <2>1 DEF UserRows
    <2>4. \A c \in DOMAIN intent[u] : g[u][c] = row[c] \/ g[u][c] = intent[u][c]
      BY <1>8
    <2>5. h \in UserRows
      BY <1>2, <2>1, <2>2, <2>3, <2>4, ZenonT(30) DEF UserRows
    <2>6. g[u] = h
      BY <1>8, <2>2, <2>3
    <2> QED
      BY <2>5, <2>6
  <1>10. g \in Seq(UserRows) /\ Len(g) = Len(intent)
    <2>1. \A v \in DOMAIN intent : g[v] \in UserRows
      BY <1>3, <1>8, <1>9
    <2> QED
      BY <1>3, <1>8, <2>1, Rewritten
  <1>11. Ids' = DOMAIN f
    BY <1>4 DEF Ids
  <1> QED
    BY <1>1, <1>2, <1>3, <1>4, <1>5, <1>6, <1>7, <1>8, <1>10, <1>11

LEMMA RemovedRow ==
    ASSUME Typed, NEW q \in Requests, Removes(q)
    PROVE  /\ users' \in Seq(Accounts) /\ intent' \in Seq(UserRows) /\ Len(intent') = Len(users')
           /\ Ids' = Ids
           /\ \A v \in Ids : v # req[q].u => users'[v] = users[v]
           /\ users'[req[q].u].deleted /\ users'[req[q].u].row = users[req[q].u].row
           /\ req[q].u \in Ids
  <1> PICK u : u = req[q].u
    OBVIOUS
  <1>1. u \in Ids
    <2>1. PICK n : n = Advance(req[q])
      OBVIOUS
    <2> QED
      BY <2>1, ThenEvict DEF Removes
  <1>2. /\ users \in Seq(Accounts) /\ intent \in Seq(UserRows) /\ Len(intent) = Len(users)
        /\ Ids = DOMAIN users /\ \A v \in Ids : users[v] \in Accounts
    BY DEF Typed, Tables, Ids
  <1>3. PICK f : f = [users EXCEPT ![u].deleted = TRUE] /\ users' = f
    BY DEF Removes
  <1>4. /\ f = [v \in DOMAIN users |-> f[v]]
        /\ \A v \in DOMAIN users : v # u => f[v] = users[v]
        /\ f[u] = [users[u] EXCEPT !.deleted = TRUE]
    BY <1>1, <1>2, <1>3
  <1>5. f[u] \in Accounts /\ f[u].deleted /\ f[u].row = users[u].row
    <2>1. users[u] \in Accounts
      BY <1>1, <1>2
    <2> QED
      BY <1>4, <2>1 DEF Accounts
  <1>6. f \in Seq(Accounts) /\ Len(f) = Len(users) /\ DOMAIN f = DOMAIN users
    <2>1. \A v \in DOMAIN users : f[v] \in Accounts
      BY <1>2, <1>4, <1>5
    <2> QED
      BY <1>2, <1>4, <2>1, Rewritten
  <1>7. Ids' = DOMAIN f /\ UNCHANGED intent
    BY <1>3 DEF Ids, Removes
  <1> QED
    BY <1>1, <1>2, <1>3, <1>4, <1>5, <1>6, <1>7

LEMMA WriteTyped ==
    ASSUME Typed, NEW q \in Requests, WriteUser(q) \/ Delete(q)
    PROVE  Typed'
  <1>1. CASE /\ UNCHANGED <<rows, cache, arriving, faults, ghosts>>
             /\ req' = [req EXCEPT ![q] = Idle]
    <2>1. Tables' /\ Grown
      BY <1>1, SameTables DEF rows, ghosts, Typed
    <2> QED
      BY <1>1, <2>1, OneMoves DEF Typed
  <1>2. CASE /\ Removes(q) \/ \E row \in Changes(q, Wanted(q)) : Stores(q, row)
             /\ UNCHANGED <<tokens, resets, invitations, refs, mail, cache, mixed>>
             /\ \E n : /\ \/ n = Advance(req[q])
                          \/ req[q].op = "manage" /\ At(q, "update") /\ n = Advance(WithoutMail(req[q]))
                       /\ req' = [Overtaking(q, req) EXCEPT ![q] = n]
    <2>1. /\ users' \in Seq(Accounts) /\ intent' \in Seq(UserRows) /\ Len(intent') = Len(users')
          /\ Ids' = Ids
      BY <1>2, StoredRow, RemovedRow
    <2>2. Tables' /\ Grown
      BY <1>2, <2>1 DEF Typed, Tables, Grown
    <2>3. PICK n : /\ \/ n = Advance(req[q])
                      \/ req[q].op = "manage" /\ At(q, "update") /\ n = Advance(WithoutMail(req[q]))
                   /\ req' = [Overtaking(q, req) EXCEPT ![q] = n]
      BY <1>2
    <2>4. At(q, "update") \/ At(q, "delete")
      BY <1>2 DEF Stores, Removes
    <2>5. n \in Tasks /\ Bound(n)
      BY <2>3, <2>4, ThenEvict
    <2> QED
      BY <2>2, <2>3, <2>5, WriterMoves DEF Typed
  <1> QED
    BY <1>1, <1>2, Writing

LEMMA StepTyped ==
    ASSUME Typed, [Next]_vars
    PROVE  Typed'
  <1>1. CASE UNCHANGED vars
    BY <1>1 DEF vars, rows, ghosts, Typed, Tables, Working, Bound, Ids
  <1>2. ASSUME NEW q \in Requests, Step(q)
        PROVE  Typed'
    BY <1>2, LookupTyped, QuietTyped, SnapshotTyped, CacheTyped, TokenTyped, ResetTyped,
       ReferenceTyped, AccountTyped, WriteTyped DEF Step
  <1>3. ASSUME NEW q \in Requests, Fail(q)
        PROVE  Typed'
    BY <1>3, QuietTyped
  <1>4. ASSUME NEW q \in Requests, NEW r \in Replicas, Arrival(q, r)
        PROVE  Typed'
    BY <1>4, ArrivalTyped
  <1>5. ASSUME NEW r \in Replicas, Restart(r) \/ \E u \in Ids : CacheExpires(r, u)
        PROVE  Typed'
    BY <1>5, ReplicaTyped
  <1> QED
    BY <1>1, <1>2, <1>3, <1>4, <1>5 DEF Next

LEMMA InitTyped ==
    ASSUME Init
    PROVE  /\ Typed /\ tokens = << >> /\ resets = << >> /\ invitations = << >> /\ refs = << >>
           /\ \A u \in Ids : users[u].row = intent[u] /\ users[u].row.image = NoImage
           /\ \A q \in Requests : req[q] = Idle
           /\ \A r \in Replicas : DOMAIN cache[r] = {}
  <1>1. PICK w \in Workloads :
           /\ users = [u \in DOMAIN w.users |-> [row |-> w.users[u], deleted |-> FALSE]]
           /\ intent = w.users
    BY DEF Init
  <1>2. w.users \in Seq(UserRows) /\ \A u \in DOMAIN w.users : w.users[u].image = NoImage
    BY IdentityAssumption
  <1>3. intent \in Seq(UserRows) /\ DOMAIN intent = 1 .. Len(intent) /\ Len(intent) \in Nat
    BY <1>1, <1>2
  <1>4. /\ users \in Seq(Accounts) /\ Len(users) = Len(intent)
        /\ Ids = DOMAIN intent
        /\ \A u \in Ids : users[u].row = intent[u] /\ users[u].row.image = NoImage
    <2>1. \A u \in DOMAIN intent : /\ users[u] = [row |-> intent[u], deleted |-> FALSE]
                                   /\ users[u] \in Accounts
      BY <1>1, <1>3 DEF Accounts
    <2>2. users \in [1 .. Len(intent) -> Accounts]
      BY <1>1, <1>3, <2>1
    <2>3. users \in Seq(Accounts) /\ Len(users) = Len(intent)
      BY <1>3, <2>2
    <2> QED
      BY <1>1, <1>2, <1>3, <2>1, <2>3 DEF Ids
  <1>5. /\ tokens = << >> /\ resets = << >> /\ invitations = << >> /\ refs = << >>
        /\ cache = [r \in Replicas |-> << >>] /\ req = [q \in Requests |-> Idle]
    BY DEF Init
  <1>6. \A S : << >> \in Seq(S) /\ DOMAIN << >> = {}
    OBVIOUS
  <1>7. Tables
    BY <1>3, <1>4, <1>5, <1>6 DEF Tables
  <1>8. Working
    BY <1>5 DEF Working
  <1> QED
    BY <1>4, <1>5, <1>6, <1>7, <1>8 DEF Typed

-----------------------------------------------------------------------------
(* What may be used once. *)

(* Revoking tokens leaves families alone. *)
LEMMA RevokedFamilies ==
    ASSUME Families, OneLiveToken,
           DOMAIN tokens' = DOMAIN tokens,
           \A t \in DOMAIN tokens : /\ tokens'[t].family = tokens[t].family
                                    /\ tokens'[t].live => tokens[t].live
    PROVE  Families' /\ OneLiveToken'
  BY DEF Families, OneLiveToken

LEMMA TokensSpent ==
    ASSUME Typed, Families, OneLiveToken, NEW q \in Requests,
           \/ CreateRefreshToken(q) \/ RotateRefreshToken(q)
           \/ RevokeRefreshToken(q) \/ RevokeAllRefreshTokens(q)
    PROVE  Families' /\ OneLiveToken'
  <1> PICK r : r = req[q]
    OBVIOUS
  <1>1. /\ tokens \in Seq(Tokens) /\ Len(tokens) \in Nat /\ DOMAIN tokens = 1 .. Len(tokens)
        /\ \A t \in DOMAIN tokens : tokens[t] \in Tokens
    BY DEF Typed, Tables
  <1>2. CASE CreateRefreshToken(q)
    <2>1. PICK e : e = NewToken(r.u, Len(tokens) + 1, r.x) /\ tokens' = Append(tokens, e)
      BY <1>2 DEF CreateRefreshToken
    <2>2. e.family = Len(tokens) + 1
      BY <2>1 DEF NewToken
    <2>3. /\ DOMAIN tokens' = 1 .. Len(tokens) + 1
          /\ \A t \in DOMAIN tokens : tokens'[t] = tokens[t]
          /\ tokens'[Len(tokens) + 1] = e
      BY <1>1, <2>1
    <2> QED
      BY <1>1, <2>2, <2>3 DEF Families, OneLiveToken
  <1>3. CASE RotateRefreshToken(q)
    <2>1. r.x \in DOMAIN tokens
      <3>1. r # Idle /\ r \in Tasks /\ Bound(r) /\ Head(r.steps) = "rotateToken"
        BY <1>3, AtWork DEF RotateRefreshToken, At, Typed
      <3>2. 1 \in 1 .. Len(r.steps) /\ Head(r.steps) = r.steps[1]
        BY <3>1 DEF Tasks, Bound
      <3> QED
        BY <3>1, <3>2 DEF Bound, Sound
    <2>2. CASE tokens' = tokens
      BY <2>2 DEF Families, OneLiveToken
    <2>3. CASE tokens[r.x].live /\ tokens' = Append([tokens EXCEPT ![r.x].live = FALSE],
                                NewToken(tokens[r.x].u, tokens[r.x].family, tokens[r.x].pw))
      <3>1. PICK f : f = [tokens EXCEPT ![r.x].live = FALSE]
        OBVIOUS
      <3>2. PICK e : e = NewToken(tokens[r.x].u, tokens[r.x].family, tokens[r.x].pw)
        OBVIOUS
      <3>3. e.family = tokens[r.x].family
        BY <3>2 DEF NewToken
      <3>4. /\ f = [t \in DOMAIN tokens |-> f[t]]
            /\ \A t \in DOMAIN tokens : f[t] \in Tokens
            /\ \A t \in DOMAIN tokens : f[t].family = tokens[t].family /\ (t # r.x => f[t] = tokens[t])
            /\ ~f[r.x].live
        BY <1>1, <2>1, <3>1 DEF Tokens
      <3>5. f \in Seq(Tokens) /\ Len(f) = Len(tokens) /\ DOMAIN f = DOMAIN tokens
        BY <1>1, <3>4, Rewritten
      <3>6. PICK g : g = Append(f, e) /\ tokens' = g
        BY <2>3, <3>1, <3>2
      <3>7. /\ DOMAIN g = 1 .. Len(tokens) + 1
            /\ \A t \in DOMAIN tokens : g[t] = f[t]
            /\ g[Len(tokens) + 1] = e
        BY <1>1, <3>5, <3>6
      <3>8. \A t \in DOMAIN g : g[t].family \in 1 .. t
        BY <1>1, <2>1, <3>3, <3>4, <3>7 DEF Families
      <3>9. ASSUME NEW s \in DOMAIN g, NEW t \in DOMAIN g, s # t, g[s].live, g[t].live
            PROVE  g[s].family # g[t].family
        <4>1. \A k \in DOMAIN g : g[k].live =>
                 \/ k = Len(tokens) + 1 /\ g[k].family = tokens[r.x].family
                 \/ k \in DOMAIN tokens /\ k # r.x /\ tokens[k].live /\ g[k].family = tokens[k].family
          BY <1>1, <3>3, <3>4, <3>7
        <4>2. \A k \in DOMAIN tokens : k # r.x /\ tokens[k].live => tokens[k].family # tokens[r.x].family
          BY <2>1, <2>3 DEF OneLiveToken
        <4> QED
          BY <3>9, <4>1, <4>2 DEF OneLiveToken
      <3> QED
        BY <3>6, <3>8, <3>9 DEF Families, OneLiveToken
    <2> QED
      BY <1>3, <2>2, <2>3 DEF RotateRefreshToken, Unrevoked
  <1>4. CASE RevokeRefreshToken(q)
    <2>1. /\ DOMAIN tokens' = DOMAIN tokens
          /\ \A t \in DOMAIN tokens : tokens'[t].family = tokens[t].family /\ (tokens'[t].live => tokens[t].live)
      BY <1>1, <1>4 DEF RevokeRefreshToken, Tokens
    <2> QED
      BY <2>1, RevokedFamilies
  <1>5. CASE RevokeAllRefreshTokens(q)
    <2>1. /\ DOMAIN tokens' = DOMAIN tokens
          /\ \A t \in DOMAIN tokens : tokens'[t].family = tokens[t].family /\ (tokens'[t].live => tokens[t].live)
      BY <1>1, <1>5 DEF RevokeAllRefreshTokens, Tokens
    <2> QED
      BY <2>1, RevokedFamilies
  <1> QED
    BY <1>2, <1>3, <1>4, <1>5

LEMMA InvitationsSpent ==
    ASSUME Typed, Accepted, NEW q \in Requests, CreateInvitation(q) \/ AcceptInvitationTx(q)
    PROVE  Accepted'
  <1> PICK x : x = req[q].x
    OBVIOUS
  <1>1. /\ invitations \in Seq(Invites) /\ Len(invitations) \in Nat
        /\ DOMAIN invitations = 1 .. Len(invitations)
        /\ \A i \in DOMAIN invitations : invitations[i] \in Invites
    BY DEF Typed, Tables
  <1>2. CASE CreateInvitation(q)
    <2>1. PICK e : /\ e = [email |-> x.email, role |-> x.role, status |-> "pending", by |-> {}]
                   /\ invitations' = Append(invitations, e)
      BY <1>2 DEF CreateInvitation
    <2>2. e.by = {}
      BY <2>1
    <2>3. /\ DOMAIN invitations' = 1 .. Len(invitations) + 1
          /\ \A i \in DOMAIN invitations : invitations'[i] = invitations[i]
          /\ invitations'[Len(invitations) + 1] = e
      BY <1>1, <2>1
    <2>4. ASSUME NEW i \in DOMAIN invitations'
          PROVE  \/ invitations'[i].by = {}
                 \/ invitations'[i].status # "pending" /\ \E n : invitations'[i].by = {n}
      <3>1. i \in DOMAIN invitations \/ i = Len(invitations) + 1
        BY <1>1, <2>3, <2>4
      <3> QED
        BY <2>2, <2>3, <3>1, Zenon DEF Accepted
    <2> QED
      BY <2>4 DEF Accepted
  <1>3. CASE AcceptInvitationTx(q)
    <2>1. CASE UNCHANGED invitations
      BY <2>1 DEF Accepted
    <2>2. CASE /\ StillPending(x)
               /\ invitations' = [invitations EXCEPT ![x].status = "accepted",
                                                     ![x].by = @ \cup {Len(users) + 1}]
      <3>1. PICK f, n : /\ n = Len(users) + 1
                        /\ f = [invitations EXCEPT ![x].status = "accepted", ![x].by = @ \cup {n}]
                        /\ invitations' = f
        BY <2>2
      <3>2. DOMAIN f = DOMAIN invitations /\ \A i \in DOMAIN invitations : i # x => f[i] = invitations[i]
        BY <1>1, <3>1
      <3>3. ASSUME x \in DOMAIN invitations
            PROVE  f[x].by = {n} /\ f[x].status = "accepted"
        <4>1. invitations[x].by = {}
          BY <2>2, <3>3 DEF StillPending, Accepted
        <4>2. f[x].status = "accepted" /\ f[x].by = invitations[x].by \cup {n}
          BY <1>1, <3>1, <3>3 DEF Invites
        <4> QED
          BY <4>1, <4>2
      <3> QED
        BY <3>1, <3>2, <3>3 DEF Accepted
    <2> QED
      BY <1>3, <2>1, <2>2 DEF AcceptInvitationTx
  <1> QED
    BY <1>2, <1>3

LEMMA StepSpends ==
    ASSUME SpendingInv, [Next]_vars
    PROVE  SpendingInv'
  <1> USE DEF SpendingInv
  <1>1. Typed'
    BY StepTyped
  <1>2. UNCHANGED tokens => Families' /\ OneLiveToken'
    BY DEF Families, OneLiveToken
  <1>3. UNCHANGED invitations => Accepted'
    BY DEF Accepted
  <1>4. ASSUME NEW q \in Requests, Step(q)
        PROVE  Families' /\ OneLiveToken' /\ Accepted'
    <2>1. CASE \/ CreateRefreshToken(q) \/ RotateRefreshToken(q)
               \/ RevokeRefreshToken(q) \/ RevokeAllRefreshTokens(q)
      <3>1. UNCHANGED invitations
        BY <2>1 DEF CreateRefreshToken, RotateRefreshToken, RevokeRefreshToken, RevokeAllRefreshTokens
      <3> QED
        BY <1>3, <2>1, <3>1, TokensSpent
    <2>2. CASE CreateInvitation(q) \/ AcceptInvitationTx(q)
      <3>1. UNCHANGED tokens
        BY <2>2 DEF CreateInvitation, AcceptInvitationTx
      <3> QED
        BY <1>2, <2>2, <3>1, InvitationsSpent
    <2>3. CASE WriteUser(q) \/ Delete(q)
      <3>1. UNCHANGED <<tokens, invitations>>
        BY <2>3, Writing DEF rows
      <3> QED
        BY <1>2, <1>3, <3>1
    <2>4. CASE \/ GetUserByID(q) \/ Fill(q) \/ Admit(q) \/ Accept(q) \/ Evict(q) \/ CreateUser(q)
               \/ RevokeSnapshot(q) \/ CreatePasswordReset(q) \/ MarkPasswordResetUsed(q)
               \/ InvalidatePendingPasswordResets(q)
               \/ QueueNotification(q) \/ TrackObject(q) \/ OrphanObjectsFor(q)
      <3>1. UNCHANGED <<tokens, invitations>>
        BY <2>4 DEF GetUserByID, Fill, Admit, Accept, Evict, CreateUser, RevokeSnapshot,
                    CreatePasswordReset, MarkPasswordResetUsed, InvalidatePendingPasswordResets,
                    QueueNotification, TrackObject, OrphanObjectsFor, rows
      <3> QED
        BY <1>2, <1>3, <3>1
    <2> QED
      BY <1>4, <2>1, <2>2, <2>3, <2>4 DEF Step
  <1>5. ASSUME NEW q \in Requests, Fail(q)
        PROVE  UNCHANGED <<tokens, invitations>>
    BY <1>5 DEF Fail, rows
  <1>6. ASSUME NEW q \in Requests, NEW r \in Replicas, Arrival(q, r)
        PROVE  UNCHANGED <<tokens, invitations>>
    BY <1>6 DEF Arrival, LoginRequest, ForgotRequest, ImageRequest, UserRequest, ManageRequest,
                RefreshRequest, LogoutRequest, ResetRequest, AcceptRequest, InviteRequest,
                BootstrapRequest, rows
  <1>7. ASSUME NEW r \in Replicas, Restart(r) \/ \E u \in Ids : CacheExpires(r, u)
        PROVE  UNCHANGED <<tokens, invitations>>
    BY <1>7 DEF Restart, CacheExpires, rows
  <1>8. CASE UNCHANGED vars
    BY <1>1, <1>2, <1>3, <1>8 DEF vars, rows
  <1> QED
    BY <1>1, <1>2, <1>3, <1>4, <1>5, <1>6, <1>7, <1>8 DEF Next

(* What may be used once is used once, however many requests present it at    *)
(* the same time: a session has one live refresh token                       *)
(* (IdentityRepository.RotateRefreshToken) and an invitation makes one        *)
(* account (IdentityRepository.AcceptInvitation).                            *)
THEOREM UsedOnce == Spec => []SpentOnce
  <1>1. Init => SpendingInv
    <2> SUFFICES ASSUME Init PROVE SpendingInv
      OBVIOUS
    <2>1. Typed /\ DOMAIN tokens = {} /\ DOMAIN invitations = {}
      BY InitTyped
    <2> QED
      BY <2>1 DEF SpendingInv, Families, OneLiveToken, Accepted
  <1>2. SpendingInv /\ [Next]_vars => SpendingInv'
    BY StepSpends
  <1>3. SpendingInv => SpentOnce
    <2> SUFFICES ASSUME SpendingInv PROVE SpentOnce
      OBVIOUS
    <2>1. \A n : Cardinality({n}) = 1
      BY FS_Singleton
    <2>2. Cardinality({}) = 0
      BY FS_EmptySet
    <2>3. ASSUME NEW i \in DOMAIN invitations
          PROVE  Cardinality(invitations[i].by) <= 1
      <3>1. CASE invitations[i].by = {}
        BY <2>2, <3>1
      <3>2. CASE \E n : invitations[i].by = {n}
        <4>1. PICK n : invitations[i].by = {n}
          BY <3>2
        <4>2. Cardinality(invitations[i].by) = 1
          BY <2>1, <4>1, Zenon
        <4> QED
          BY <4>2
      <3> QED
        BY <3>1, <3>2 DEF SpendingInv, Accepted
    <2> QED
      BY <2>3 DEF SpentOnce, InviteOnce, SpendingInv
  <1> QED
    BY <1>1, <1>2, <1>3, PTL DEF Spec

-----------------------------------------------------------------------------
(* Caches and rows. *)

(* A request that uses a row is about a user there is. *)
LEMMA UsesUser ==
    ASSUME Typed, NEW q \in Requests, req[q] # Idle,
           Head(req[q].steps) \in Uses \cup {"fill", "lookup", "evict", "update", "delete"}
    PROVE  req[q].u \in Ids /\ req[q].rep \in Replicas
  <1> PICK r : r = req[q]
    OBVIOUS
  <1>1. r \in Tasks /\ Bound(r)
    BY AtWork DEF Typed
  <1>2. 1 \in 1 .. Len(r.steps) /\ Head(r.steps) = r.steps[1] /\ r.rep \in Replicas
    BY <1>1 DEF Tasks, Bound
  <1> QED
    BY <1>1, <1>2 DEF Bound, Sound, Uses

(* Steps that leave every stored row, every entry and every eviction alone,  *)
(* except that users may be added.                                          *)
LEMMA QuietCoherent ==
    ASSUME CacheInv, Ids \subseteq Ids',
           \A u \in Ids : users'[u] = users[u] /\ intent'[u] = intent[u],
           \A u \in Ids' \ Ids : users'[u].row = intent'[u],
           UNCHANGED <<cache, exposed, lost>>,
           NEW q \in Requests, ~At(q, "evict"), NEW n, req' = [req EXCEPT ![q] = n],
           n # Idle /\ Head(n.steps) \in Uses \cup {"fill"} =>
              n.u \in Ids /\ (n.overtaken \/ n.read = GetUser(n.u))
    PROVE  Fresh' /\ CacheCoherent' /\ LastWriteStands'
  <1> USE DEF CacheInv
  <1>1. \A u \in Ids : GetUser(u)' = GetUser(u)
    BY DEF GetUser
  <1>2. Fresh'
    <2> SUFFICES ASSUME NEW p \in Requests, req'[p] # Idle, Head(req'[p].steps) \in Uses \cup {"fill"}
                 PROVE  req'[p].overtaken \/ req'[p].read = GetUser(req[p].u)'
      BY DEF Fresh
    <2>1. PICK m : m = req'[p]
      OBVIOUS
    <2>2. m.u \in Ids /\ (m.overtaken \/ m.read = GetUser(m.u))
      <3>1. CASE p = q
        BY <2>1, <3>1 DEF Typed, Working
      <3>2. CASE p # q
        <4>1. m = req[p]
          BY <2>1, <3>2 DEF Typed, Working
        <4> QED
          BY <2>1, <4>1, UsesUser DEF Fresh
      <3> QED
        BY <3>1, <3>2
    <2>3. GetUser(m.u)' = GetUser(m.u)
      BY <1>1, <2>2
    <2> QED
      BY <2>1, <2>2, <2>3 DEF GetUser
  <1>3. ASSUME NEW r \in Replicas, NEW u \in Ids, Unevicted(r, u)
        PROVE  Unevicted(r, u)'
    <2>1. PICK p \in InFlight(u) : req[p].rep = r /\ At(p, "evict")
      BY <1>3 DEF Unevicted
    <2>2. p \in Requests /\ p # q /\ req'[p] = req[p]
      BY <2>1 DEF InFlight, Typed, Working
    <2> QED
      BY <2>1, <2>2 DEF Unevicted, InFlight, At
  <1>4. CacheCoherent'
    <2> SUFFICES ASSUME NEW r \in Replicas, NEW u \in DOMAIN cache[r]
                 PROVE  cache[r][u] = GetUser(u)' \/ <<r, u>> \in exposed \/ Unevicted(r, u)'
      BY DEF CacheCoherent
    <2>1. u \in Ids
      BY DEF Typed, Tables
    <2> QED
      BY <1>1, <1>3, <2>1 DEF CacheCoherent
  <1>5. LastWriteStands'
    BY DEF LastWriteStands
  <1> QED
    BY <1>2, <1>4, <1>5

(* The row a lookup hands out is the one stored, or the request is marked. *)
LEMMA LookupCoherent ==
    ASSUME CacheInv, NEW q \in Requests, GetUserByID(q)
    PROVE  Fresh' /\ CacheCoherent' /\ LastWriteStands'
  <1> USE DEF CacheInv
  <1> PICK r : r = req[q]
    OBVIOUS
  <1>1. r # Idle /\ r \in Tasks /\ r.u \in Ids /\ r.rep \in Replicas
    BY AtWork, UsesUser DEF GetUserByID, At, Typed
  <1>2. PICK n : req' = [req EXCEPT ![q] = n] /\ n =
          IF Entry(r.rep, r.u).found
          THEN [r EXCEPT !.steps = Tail(r.steps), !.read = Entry(r.rep, r.u),
                         !.overtaken = <<r.rep, r.u>> \in exposed \/ Unevicted(r.rep, r.u)]
          ELSE IF GetUser(r.u).found
          THEN [r EXCEPT !.steps = <<"fill">> \o Tail(r.steps), !.read = GetUser(r.u),
                         !.overtaken = FALSE]
          ELSE Idle
    BY DEF GetUserByID
  <1>3. n # Idle => n.u \in Ids /\ (n.overtaken \/ n.read = GetUser(n.u))
    <2>1. CASE Entry(r.rep, r.u).found
      <3>1. r.u \in DOMAIN cache[r.rep] /\ Entry(r.rep, r.u) = cache[r.rep][r.u]
        BY <2>1 DEF Entry, Nothing
      <3>2. \/ cache[r.rep][r.u] = GetUser(r.u)
            \/ <<r.rep, r.u>> \in exposed \/ Unevicted(r.rep, r.u)
        BY <1>1, <3>1 DEF CacheCoherent
      <3>3. /\ n.u = r.u /\ n.read = Entry(r.rep, r.u)
            /\ n.overtaken = (<<r.rep, r.u>> \in exposed \/ Unevicted(r.rep, r.u))
        BY <1>1, <1>2, <2>1 DEF Tasks
      <3> QED
        BY <1>1, <3>1, <3>2, <3>3
    <2>2. CASE ~Entry(r.rep, r.u).found /\ GetUser(r.u).found
      <3>1. n.u = r.u /\ n.read = GetUser(r.u)
        BY <1>1, <1>2, <2>2 DEF Tasks
      <3> QED
        BY <1>1, <3>1
    <2> QED
      BY <1>2, <2>1, <2>2
  <1>4. UNCHANGED <<users, intent, cache, exposed, lost>> /\ ~At(q, "evict")
    BY DEF GetUserByID, At, rows, ghosts
  <1> QED
    BY <1>2, <1>3, <1>4, QuietCoherent DEF Ids

(* Statements other than a read or a write of a user. *)
LEMMA PlainCoherent ==
    ASSUME CacheInv, Ids \subseteq Ids',
           \A u \in Ids : users'[u] = users[u] /\ intent'[u] = intent[u],
           \A u \in Ids' \ Ids : users'[u].row = intent'[u],
           UNCHANGED <<cache, exposed, lost>>,
           NEW q \in Requests, req[q].op # "idle", Head(req[q].steps) \notin {"lookup", "evict"},
           Done(q) \/ Refuse(q)
    PROVE  Fresh' /\ CacheCoherent' /\ LastWriteStands'
  <1> USE DEF CacheInv
  <1>1. PICK n : (n = Idle \/ n = Advance(req[q])) /\ req' = [req EXCEPT ![q] = n]
    BY DEF Done, Refuse
  <1>2. req[q] # Idle /\ req[q] \in Tasks
    BY AtWork DEF Typed
  <1>3. ASSUME n # Idle, Head(n.steps) \in Uses \cup {"fill"}
        PROVE  n.u \in Ids /\ (n.overtaken \/ n.read = GetUser(n.u))
    <2>1. n = [req[q] EXCEPT !.steps = Tail(req[q].steps)] /\ Head(req[q].steps) \in Uses \cup {"fill"}
      BY <1>1, <1>2, <1>3, Advanced DEF Typed
    <2>2. n.u = req[q].u /\ n.overtaken = req[q].overtaken /\ n.read = req[q].read
      BY <1>2, <2>1 DEF Tasks
    <2>3. req[q].u \in Ids /\ (req[q].overtaken \/ req[q].read = GetUser(req[q].u))
      BY <1>2, <2>1, UsesUser DEF Fresh
    <2> QED
      BY <2>2, <2>3
  <1>4. ~At(q, "evict")
    BY DEF At
  <1> QED
    BY <1>1, <1>3, <1>4, QuietCoherent

(* What an arrival does: one request more, about to start its program. *)
LEMMA Arriving ==
    ASSUME Typed, NEW q \in Requests, NEW r \in Replicas, Arrival(q, r)
    PROVE  /\ UNCHANGED <<users, intent, tokens, resets, invitations, cache, exposed, lost, unsettled>>
           /\ req[q] = Idle
           /\ \E op, u, x, n :
                 /\ op \in OpNames /\ Arrive(q, op, r, u, x)
                 /\ req' = [req EXCEPT ![q] = n]
                 /\ n = [op |-> op, steps |-> Program[op], rep |-> r, u |-> u, x |-> x,
                         read |-> Nothing, overtaken |-> FALSE, snap |-> {}]
                 /\ Head(n.steps) \notin Holds
  <1>1. UNCHANGED <<users, intent, tokens, resets, invitations, cache, exposed, lost, unsettled>>
    BY DEF Arrival, LoginRequest, ForgotRequest, ImageRequest, UserRequest, ManageRequest,
           RefreshRequest, LogoutRequest, ResetRequest, AcceptRequest, InviteRequest,
           BootstrapRequest, rows, ghosts
  <1>2. \E op, u, x : op \in OpNames /\ Arrive(q, op, r, u, x)
    <2>1. Ops = OpNames
      BY Programs DEF Ops
    <2>2. ASSUME NEW u \in Ids,
                 \/ LoginRequest(q, r, u) \/ ForgotRequest(q, r, u) \/ ImageRequest(q, r, u)
                 \/ \E op \in Ops : UserRequest(q, op, r, u) \/ ManageRequest(q, op, r, u)
          PROVE  \E op, x : op \in OpNames /\ Arrive(q, op, r, u, x)
      BY <2>1, <2>2 DEF LoginRequest, ForgotRequest, ImageRequest, UserRequest, ManageRequest, OpNames
    <2>3. ASSUME NEW t \in DOMAIN tokens, RefreshRequest(q, r, t) \/ LogoutRequest(q, r, t)
          PROVE  \E op, u : op \in OpNames /\ Arrive(q, op, r, u, t)
      BY <2>3 DEF RefreshRequest, LogoutRequest, OpNames
    <2>4. ASSUME NEW x \in DOMAIN resets, ResetRequest(q, r, x)
          PROVE  \E op, u : op \in OpNames /\ Arrive(q, op, r, u, x)
      BY <2>4 DEF ResetRequest, OpNames
    <2>5. ASSUME NEW i \in DOMAIN invitations, AcceptRequest(q, r, i)
          PROVE  \E op : op \in OpNames /\ Arrive(q, op, r, 0, i)
      BY <2>5 DEF AcceptRequest, OpNames
    <2>6. ASSUME NEW e \in Emails, NEW role \in Roles, InviteRequest(q, r, e, role)
          PROVE  \E op, x : op \in OpNames /\ Arrive(q, op, r, 0, x)
      BY <2>6 DEF InviteRequest, OpNames
    <2>7. ASSUME BootstrapRequest(q, r)
          PROVE  \E op : op \in OpNames /\ Arrive(q, op, r, 0, 0)
      BY <2>7 DEF BootstrapRequest, OpNames
    <2> QED
      BY <2>2, <2>3, <2>4, <2>5, <2>6, <2>7 DEF Arrival
  <1>3. PICK op, u, x : op \in OpNames /\ Arrive(q, op, r, u, x)
    BY <1>2
  <1>4. PICK n : /\ req' = [req EXCEPT ![q] = n]
                 /\ n = [op |-> op, steps |-> Program[op], rep |-> r, u |-> u, x |-> x,
                         read |-> Nothing, overtaken |-> FALSE, snap |-> {}]
    BY <1>3 DEF Arrive
  <1>5. Head(n.steps) \notin Holds
    <2>1. n.steps = Program[op]
      BY <1>4
    <2> QED
      BY <1>3, <2>1, ProgramsWhole DEF Whole
  <1>6. req[q] = Idle
    BY <1>3 DEF Arrive
  <1> QED
    BY <1>1, <1>3, <1>4, <1>5, <1>6

LEMMA ArrivalCoherent ==
    ASSUME CacheInv, NEW q \in Requests, NEW r \in Replicas, Arrival(q, r)
    PROVE  Fresh' /\ CacheCoherent' /\ LastWriteStands'
  <1> USE DEF CacheInv
  <1>1. UNCHANGED <<users, intent, cache, exposed, lost>> /\ req[q] = Idle
    BY Arriving
  <1>2. PICK n : req' = [req EXCEPT ![q] = n] /\ Head(n.steps) \notin Holds
    BY Arriving
  <1>3. Head(n.steps) \notin Uses \cup {"fill"}
    BY <1>2 DEF Holds
  <1>4. ~At(q, "evict")
    BY <1>1 DEF At, Idle
  <1> QED
    BY <1>1, <1>2, <1>3, <1>4, QuietCoherent DEF Ids

LEMMA SnapshotCoherent ==
    ASSUME CacheInv, NEW q \in Requests, RevokeSnapshot(q)
    PROVE  Fresh' /\ CacheCoherent' /\ LastWriteStands'
  <1> USE DEF CacheInv
  <1> PICK r : r = req[q]
    OBVIOUS
  <1>1. r # Idle /\ r \in Tasks /\ Bound(r) /\ Head(r.steps) = "revokeSnapshot"
    BY AtWork DEF RevokeSnapshot, At, Typed
  <1>2. PICK n : /\ req' = [req EXCEPT ![q] = n]
                 /\ n = [r EXCEPT !.steps = Tail(r.steps),
                           !.snap = {t \in DOMAIN tokens : tokens[t].u = req[q].u /\ tokens[t].live}]
    BY DEF RevokeSnapshot
  <1>3. n.steps = Tail(r.steps)
    BY <1>1, <1>2 DEF Tasks
  <1>4. Head(Tail(r.steps)) \notin Uses \cup {"fill"}
    <2>1. /\ r.steps \in Seq(Statements) /\ r.steps # << >> /\ Sound(r.steps, r.op)
          /\ Len(r.steps) \in Nat /\ 1 \in 1 .. Len(r.steps) /\ r.steps[1] = "revokeSnapshot"
      BY <1>1 DEF Tasks, Bound
    <2>2. Len(r.steps) > 1
      BY <2>1 DEF Sound
    <2>3. 2 \in 1 .. Len(r.steps) /\ 2 > 1 /\ 2 - 1 = 1
      BY <2>1, <2>2
    <2>4. r.steps[2] # "fill" /\ (r.steps[2] \in Uses => r.steps[1] \in Reads)
      BY <2>1, <2>3 DEF Sound
    <2> QED
      BY <2>1, <2>2, <2>4, SoundTail DEF Reads
  <1>5. UNCHANGED <<users, intent, cache, exposed, lost>> /\ ~At(q, "evict")
    BY DEF RevokeSnapshot, At, rows, ghosts
  <1> QED
    BY <1>2, <1>3, <1>4, <1>5, QuietCoherent DEF Ids

(* A request at the eviction keeps its entry covered while it is there. *)
LEMMA EvictionStays ==
    ASSUME Typed, NEW r, NEW u, Unevicted(r, u),
           \A p \in Requests :
              req[p] # Idle /\ Head(req[p].steps) = "evict" /\ req[p].rep = r /\ req[p].u = u =>
                 /\ req'[p].op = req[p].op /\ req'[p].steps = req[p].steps
                 /\ req'[p].rep = r /\ req'[p].u = u
    PROVE  Unevicted(r, u)'
  <1>1. PICK p \in InFlight(u) : req[p].rep = r /\ At(p, "evict")
    BY DEF Unevicted
  <1>2. p \in Requests /\ req[p].op # "idle" /\ req[p].u = u /\ Head(req[p].steps) = "evict"
    BY <1>1 DEF InFlight, At
  <1>3. req[p] # Idle
    BY <1>2, AtWork DEF Typed
  <1>4. req'[p].op # "idle" /\ Head(req'[p].steps) = "evict" /\ req'[p].rep = r /\ req'[p].u = u
    BY <1>1, <1>2, <1>3
  <1>5. p \in InFlight(u)' /\ At(p, "evict")'
    BY <1>2, <1>4 DEF InFlight, At
  <1> QED
    BY <1>4, <1>5 DEF Unevicted

LEMMA FillCoherent ==
    ASSUME CacheInv, NEW q \in Requests, Fill(q)
    PROVE  Fresh' /\ CacheCoherent' /\ LastWriteStands'
  <1> USE DEF CacheInv
  <1> PICK t : t = req[q]
    OBVIOUS
  <1>1. /\ t # Idle /\ t \in Tasks /\ t.u \in Ids /\ t.rep \in Replicas /\ Head(t.steps) = "fill"
        /\ t.overtaken \/ t.read = GetUser(t.u)
    BY AtWork, UsesUser DEF Fill, At, Typed, Fresh
  <1>2. UNCHANGED <<users, intent, lost>> /\ Done(q)
    BY DEF Fill, rows
  <1>3. LastWriteStands'
    BY <1>2 DEF LastWriteStands, Ids
  <1>4. \A u \in Ids : GetUser(u)' = GetUser(u)
    BY <1>2 DEF GetUser
  <1>5. PICK n : n = Advance(t) /\ req' = [req EXCEPT ![q] = n]
    BY <1>2 DEF Done
  <1>6. Fresh'
    <2> SUFFICES ASSUME NEW p \in Requests, req'[p] # Idle, Head(req'[p].steps) \in Uses \cup {"fill"}
                 PROVE  req'[p].overtaken \/ req'[p].read = GetUser(req[p].u)'
      BY DEF Fresh
    <2>1. PICK m : m = req'[p]
      OBVIOUS
    <2>2. m.u \in Ids /\ (m.overtaken \/ m.read = GetUser(m.u))
      <3>1. CASE p = q
        <4>1. m = n
          BY <1>5, <2>1, <3>1 DEF Typed, Working
        <4>2. n = [t EXCEPT !.steps = Tail(t.steps)]
          BY <1>1, <1>5, <2>1, <4>1, Advanced DEF Typed
        <4>3. n.u = t.u /\ n.overtaken = t.overtaken /\ n.read = t.read
          BY <1>1, <4>2 DEF Tasks
        <4> QED
          BY <1>1, <4>1, <4>3
      <3>2. CASE p # q
        <4>1. m = req[p]
          BY <1>5, <2>1, <3>2 DEF Typed, Working
        <4> QED
          BY <2>1, <4>1, UsesUser DEF Fresh
      <3> QED
        BY <3>1, <3>2
    <2> QED
      BY <1>4, <2>1, <2>2 DEF GetUser
  <1>7. ASSUME NEW r \in Replicas, NEW u \in Ids, Unevicted(r, u)
        PROVE  Unevicted(r, u)'
    <2>1. \A p \in Requests : req[p] # Idle /\ Head(req[p].steps) = "evict" => p # q
      BY <1>1
    <2>2. \A p \in Requests : p # q => req'[p] = req[p]
      BY <1>5 DEF Typed, Working
    <2> QED
      BY <1>7, <2>1, <2>2, EvictionStays
  <1>8. CacheCoherent'
    <2> SUFFICES ASSUME NEW r \in Replicas, NEW u \in DOMAIN cache'[r]
                 PROVE  cache'[r][u] = GetUser(u)' \/ <<r, u>> \in exposed' \/ Unevicted(r, u)'
      BY DEF CacheCoherent
    <2>1. cache' = [cache EXCEPT ![t.rep] = [v \in DOMAIN @ \cup {t.u} |-> IF v = t.u THEN t.read ELSE @[v]]]
      BY DEF Fill, SetEntry
    <2>2. DOMAIN cache = Replicas /\ DOMAIN cache[r] \subseteq Ids
      BY DEF Typed, Tables
    <2>3. exposed' = IF t.overtaken THEN exposed \cup {<<t.rep, t.u>>} ELSE exposed \ {<<t.rep, t.u>>}
      BY DEF Fill
    <2>4. CASE r = t.rep /\ u = t.u
      <3>1. cache'[r][u] = t.read
        BY <1>1, <2>1, <2>2, <2>4
      <3> QED
        BY <1>1, <1>4, <2>3, <2>4, <3>1
    <2>5. CASE ~(r = t.rep /\ u = t.u)
      <3>1. u \in DOMAIN cache[r] /\ cache'[r][u] = cache[r][u]
        BY <1>1, <2>1, <2>2, <2>5
      <3>2. <<r, u>> \in exposed => <<r, u>> \in exposed'
        BY <2>3, <2>5
      <3>3. cache[r][u] = GetUser(u) \/ <<r, u>> \in exposed \/ Unevicted(r, u)
        BY <3>1 DEF CacheCoherent
      <3> QED
        BY <1>4, <1>7, <2>2, <3>1, <3>2, <3>3
    <2> QED
      BY <2>4, <2>5
  <1> QED
    BY <1>3, <1>6, <1>8

(* Entries go away; requests go on without using a row, or end. *)
LEMMA DropCoherent ==
    ASSUME CacheInv, UNCHANGED <<users, intent, lost>>,
           \A r \in Replicas : \A u \in DOMAIN cache'[r] :
              /\ u \in DOMAIN cache[r] /\ cache'[r][u] = cache[r][u]
              /\ <<r, u>> \in exposed => <<r, u>> \in exposed'
              /\ Unevicted(r, u) => Unevicted(r, u)' \/ <<r, u>> \in exposed',
           \A p \in Requests :
              \/ req'[p] = req[p] \/ req'[p] = Idle
              \/ Head(req'[p].steps) \notin Uses \cup {"fill"}
    PROVE  Fresh' /\ CacheCoherent' /\ LastWriteStands'
  <1> USE DEF CacheInv
  <1>1. LastWriteStands'
    BY DEF LastWriteStands, Ids
  <1>2. \A u : GetUser(u)' = GetUser(u)
    BY DEF GetUser
  <1>3. Fresh'
    <2> SUFFICES ASSUME NEW p \in Requests, req'[p] # Idle, Head(req'[p].steps) \in Uses \cup {"fill"}
                 PROVE  req'[p].overtaken \/ req'[p].read = GetUser(req[p].u)'
      BY DEF Fresh
    <2>1. req'[p] = req[p]
      OBVIOUS
    <2>2. req[p].overtaken \/ req[p].read = GetUser(req[p].u)
      BY <2>1 DEF Fresh
    <2> QED
      BY <2>1, <2>2 DEF GetUser
  <1>4. CacheCoherent'
    BY <1>2 DEF CacheCoherent
  <1> QED
    BY <1>1, <1>3, <1>4

LEMMA EvictCoherent ==
    ASSUME CacheInv, NEW q \in Requests, Evict(q)
    PROVE  Fresh' /\ CacheCoherent' /\ LastWriteStands'
  <1> USE DEF CacheInv
  <1> PICK t : t = req[q]
    OBVIOUS
  <1>1. t # Idle /\ t \in Tasks /\ t.u \in Ids /\ t.rep \in Replicas /\ Head(t.steps) = "evict"
    BY AtWork, UsesUser DEF Evict, At, Typed
  <1>2. PICK n : n = Advance(t) /\ req' = [req EXCEPT ![q] = n]
    BY DEF Evict, Done
  <1>3. /\ UNCHANGED <<users, intent, lost>>
        /\ exposed' = exposed \ {<<t.rep, t.u>>}
        /\ cache' = [cache EXCEPT ![t.rep] = [v \in DOMAIN @ \ {t.u} |-> @[v]]]
        /\ DOMAIN cache = Replicas
    BY DEF Evict, DropEntry, rows, Typed, Tables
  <1>4. \A p \in Requests : p # q => req'[p] = req[p]
    BY <1>2 DEF Typed, Working
  <1>5. n = Idle \/ Head(n.steps) \notin Uses \cup {"fill"}
    BY <1>1, <1>2, Advanced DEF Typed, Uses
  <1>6. req'[q] = n
    BY <1>2 DEF Typed, Working
  <1>7. ASSUME NEW r \in Replicas, NEW u \in DOMAIN cache'[r]
        PROVE  /\ u \in DOMAIN cache[r] /\ cache'[r][u] = cache[r][u]
               /\ <<r, u>> # <<t.rep, t.u>>
    BY <1>1, <1>3, <1>7
  <1>8. ASSUME NEW r \in Replicas, NEW u \in DOMAIN cache'[r], Unevicted(r, u)
        PROVE  Unevicted(r, u)'
    <2>1. \A p \in Requests : req[p].rep = r /\ req[p].u = u => p # q
      BY <1>7
    <2> QED
      BY <1>4, <1>8, <2>1, EvictionStays
  <1> QED
    BY <1>3, <1>4, <1>5, <1>6, <1>7, <1>8, DropCoherent

LEMMA FailCoherent ==
    ASSUME CacheInv, NEW q \in Requests, Fail(q)
    PROVE  Fresh' /\ CacheCoherent' /\ LastWriteStands'
  <1> USE DEF CacheInv
  <1> PICK t : t = req[q]
    OBVIOUS
  <1>1. /\ req' = [req EXCEPT ![q] = Idle] /\ UNCHANGED <<users, intent, lost, cache>>
        /\ exposed \subseteq exposed'
        /\ At(q, "evict") /\ t.u \in DOMAIN cache[t.rep] => <<t.rep, t.u>> \in exposed'
    BY DEF Fail, Refuse, rows
  <1>2. /\ \A p \in Requests : p # q => req'[p] = req[p]
        /\ req'[q] = Idle
    BY <1>1 DEF Typed, Working
  <1>3. ASSUME NEW r \in Replicas, NEW u \in DOMAIN cache[r], Unevicted(r, u)
        PROVE  Unevicted(r, u)' \/ <<r, u>> \in exposed'
    <2>1. CASE At(q, "evict") /\ t.rep = r /\ t.u = u
      BY <1>1, <1>3, <2>1
    <2>2. CASE ~(At(q, "evict") /\ t.rep = r /\ t.u = u)
      <3>1. \A p \in Requests :
               req[p] # Idle /\ Head(req[p].steps) = "evict" /\ req[p].rep = r /\ req[p].u = u => p # q
        BY <2>2, AtWork DEF At, Typed
      <3> QED
        BY <1>2, <1>3, <3>1, EvictionStays
    <2> QED
      BY <2>1, <2>2
  <1> QED
    BY <1>1, <1>2, <1>3, DropCoherent

LEMMA ReplicaCoherent ==
    ASSUME CacheInv, NEW r \in Replicas, Restart(r) \/ \E u \in Ids : CacheExpires(r, u)
    PROVE  Fresh' /\ CacheCoherent' /\ LastWriteStands'
  <1> USE DEF CacheInv
  <1>0. DOMAIN cache = Replicas
    BY DEF Typed, Tables
  <1>1. CASE Restart(r)
    <2>1. /\ UNCHANGED <<users, intent, lost>> /\ cache' = [cache EXCEPT ![r] = << >>]
          /\ exposed' = {e \in exposed : e[1] # r}
          /\ req' = [q \in Requests |-> IF req[q].op # "idle" /\ req[q].rep = r THEN Idle ELSE req[q]]
      BY <1>1 DEF Restart, rows
    <2>2. ASSUME NEW s \in Replicas, NEW u \in DOMAIN cache'[s]
          PROVE  s # r /\ cache'[s] = cache[s]
      BY <1>0, <2>1, <2>2
    <2>3. ASSUME NEW s \in Replicas, NEW u \in DOMAIN cache'[s], Unevicted(s, u)
          PROVE  Unevicted(s, u)'
      <3>1. \A p \in Requests : req[p].rep = s => req'[p] = req[p]
        BY <2>1, <2>2
      <3> QED
        BY <2>3, <3>1, EvictionStays
    <2>4. \A s \in Replicas : \A u \in DOMAIN cache'[s] : <<s, u>> \in exposed => <<s, u>> \in exposed'
      BY <2>1, <2>2
    <2>5. \A p \in Requests : req'[p] = req[p] \/ req'[p] = Idle
      BY <2>1
    <2> QED
      BY <2>1, <2>2, <2>3, <2>4, <2>5, DropCoherent
  <1>2. CASE \E u \in Ids : CacheExpires(r, u)
    <2>1. PICK v \in Ids : CacheExpires(r, v)
      BY <1>2
    <2>2. /\ UNCHANGED <<users, intent, lost, req>>
          /\ cache' = [cache EXCEPT ![r] = [w \in DOMAIN @ \ {v} |-> @[w]]]
          /\ exposed' = exposed \ {<<r, v>>}
      BY <2>1 DEF CacheExpires, DropEntry, rows
    <2>3. ASSUME NEW s \in Replicas, NEW u \in DOMAIN cache'[s]
          PROVE  u \in DOMAIN cache[s] /\ cache'[s][u] = cache[s][u] /\ <<s, u>> # <<r, v>>
      BY <1>0, <2>2, <2>3
    <2>4. \A s, u : Unevicted(s, u) => Unevicted(s, u)'
      BY <2>2 DEF Unevicted, InFlight, At
    <2> QED
      BY <2>2, <2>3, <2>4, DropCoherent
  <1> QED
    BY <1>1, <1>2

(* A write marks whoever has read the row, and leaves entries behind only     *)
(* where they are known to be stale or are about to be dropped.              *)
LEMMA WriteCoherent ==
    ASSUME CacheInv, NEW q \in Requests, WriteUser(q) \/ Delete(q)
    PROVE  Fresh' /\ CacheCoherent' /\ LastWriteStands'
  <1> USE DEF CacheInv
  <1> PICK t : t = req[q]
    OBVIOUS
  <1>1. CASE /\ UNCHANGED <<rows, cache, arriving, faults, ghosts>>
             /\ req' = [req EXCEPT ![q] = Idle]
    <2>1. UNCHANGED <<users, intent, cache, exposed, lost>> /\ ~At(q, "evict")
      BY <1>1 DEF WriteUser, Delete, At, rows, ghosts
    <2> QED
      BY <1>1, <2>1, QuietCoherent DEF Ids
  <1>2. CASE /\ Removes(q) \/ \E row \in Changes(q, Wanted(q)) : Stores(q, row)
             /\ exposed' = exposed \cup LeftBehind(req[q].rep, req[q].u)
             /\ UNCHANGED <<tokens, resets, invitations, refs, mail, cache, mixed>>
             /\ \E n : /\ \/ n = Advance(req[q])
                          \/ req[q].op = "manage" /\ At(q, "update") /\ n = Advance(WithoutMail(req[q]))
                       /\ req' = [Overtaking(q, req) EXCEPT ![q] = n]
    <2>1. PICK n : /\ \/ n = Advance(req[q])
                      \/ req[q].op = "manage" /\ At(q, "update") /\ n = Advance(WithoutMail(req[q]))
                   /\ req' = [Overtaking(q, req) EXCEPT ![q] = n]
      BY <1>2
    <2>2. At(q, "update") \/ At(q, "delete")
      BY <1>2 DEF Stores, Removes
    <2>3. /\ n \in Tasks /\ Head(n.steps) = "evict" /\ n = [t EXCEPT !.steps = n.steps]
          /\ t.u \in Ids /\ t.rep \in Replicas /\ t # Idle /\ t.read \in UserRows
      BY <2>1, <2>2, ThenEvict
    <2>4. t \in Tasks /\ n.op = t.op /\ n.u = t.u /\ n.rep = t.rep
      <3>1. t \in Tasks
        BY <2>3, AtWork DEF Typed
      <3> QED
        BY <2>3, <3>1 DEF Tasks
    <2>5. /\ Ids' = Ids
          /\ \A v \in Ids : v # t.u => users'[v] = users[v]
      BY <1>2, StoredRow, RemovedRow
    <2>6. \A v \in Ids : v # t.u => GetUser(v)' = GetUser(v)
      BY <2>5 DEF GetUser
    <2>7. /\ req'[q] = n
          /\ \A p \in Requests \ {q} :
                req'[p] = IF p \in InFlight(t.u) /\ req[p].read.found
                          THEN [req[p] EXCEPT !.overtaken = TRUE] ELSE req[p]
      BY <2>1, Others DEF Typed
    <2>8. ASSUME NEW p \in Requests \ {q}, req[p] # Idle
          PROVE  /\ req'[p].op = req[p].op /\ req'[p].steps = req[p].steps /\ req'[p].rep = req[p].rep
                 /\ req'[p].u = req[p].u /\ req'[p].read = req[p].read
                 /\ req[p].overtaken => req'[p].overtaken
                 /\ req[p].u = t.u /\ req[p].read \in UserRows => req'[p].overtaken
      <3>1. req[p] \in Tasks /\ req[p].op # "idle"
        BY <2>8, AtWork DEF Typed
      <3>2. CASE req'[p] = req[p] /\ ~(p \in InFlight(t.u) /\ req[p].read.found)
        <4>1. \A row \in UserRows : row.found
          BY DEF UserRows
        <4> QED
          BY <3>1, <3>2, <4>1 DEF InFlight
      <3>3. CASE req'[p] = [req[p] EXCEPT !.overtaken = TRUE]
        BY <3>1, <3>3 DEF Tasks
      <3> QED
        BY <2>7, <3>2, <3>3
    <2>9. Fresh'
      <3> SUFFICES ASSUME NEW p \in Requests, req'[p] # Idle, Head(req'[p].steps) \in Uses \cup {"fill"}
                   PROVE  req'[p].overtaken \/ req'[p].read = GetUser(req[p].u)'
        BY DEF Fresh
      <3>1. p # q
        BY <2>3, <2>7 DEF Uses
      <3>2. req[p] # Idle
        <4>1. p \in InFlight(t.u) => req[p] # Idle
          BY AtWork DEF InFlight, Typed
        <4> QED
          BY <2>7, <3>1, <4>1
      <3>3. PICK m : m = req'[p]
        OBVIOUS
      <3>4. /\ m.u = req[p].u /\ m.read = req[p].read /\ m.steps = req[p].steps
            /\ req[p].overtaken => m.overtaken
            /\ req[p].u = t.u /\ req[p].read \in UserRows => m.overtaken
        BY <2>8, <3>1, <3>2, <3>3
      <3>5. req[p].u \in Ids /\ req[p].read \in UserRows /\ (req[p].overtaken \/ req[p].read = GetUser(req[p].u))
        BY <3>2, <3>3, <3>4, UsesUser, AtWork DEF Fresh, Typed, Bound, Holds
      <3>6. m.overtaken \/ (m.u \in Ids /\ m.u # t.u /\ m.read = GetUser(m.u))
        BY <3>4, <3>5
      <3> QED
        BY <2>6, <3>3, <3>6 DEF GetUser
    <2>10. CacheCoherent'
      <3> SUFFICES ASSUME NEW r \in Replicas, NEW u \in DOMAIN cache[r]
                   PROVE  cache[r][u] = GetUser(u)' \/ <<r, u>> \in exposed' \/ Unevicted(r, u)'
        BY <1>2 DEF CacheCoherent
      <3>1. u \in Ids
        BY DEF Typed, Tables
      <3>2. CASE u = t.u /\ r # t.rep
        BY <1>2, <3>2 DEF LeftBehind
      <3>3. CASE u = t.u /\ r = t.rep
        <4>1. q \in InFlight(u)' /\ At(q, "evict")' /\ req'[q].rep = r
          <5>1. n.op # "idle"
            BY <2>3 DEF Tasks, OpNames
          <5> QED
            BY <2>3, <2>4, <2>7, <3>3, <5>1 DEF InFlight, At
        <4> QED
          BY <4>1 DEF Unevicted
      <3>4. CASE u # t.u
        <4>1. Unevicted(r, u) => Unevicted(r, u)'
          BY <2>8, <3>4, EvictionStays
        <4> QED
          BY <1>2, <2>6, <3>1, <3>4, <4>1 DEF CacheCoherent
      <3> QED
        BY <3>2, <3>3, <3>4
    <2>11. LastWriteStands'
      <3>1. CASE Removes(q)
        <4>1. \A v \in Ids : users'[v].row = users[v].row
          BY <2>5, <3>1, RemovedRow
        <4> QED
          BY <2>5, <3>1, <4>1 DEF LastWriteStands, Removes
      <3>2. ASSUME NEW row \in Changes(q, Wanted(q)), Stores(q, row)
            PROVE  LastWriteStands'
        <4>1. /\ \A v \in Ids : v # t.u => users'[v] = users[v] /\ intent'[v] = intent[v]
              /\ users'[t.u] = [row |-> row, deleted |-> FALSE]
              /\ intent'[t.u] = [c \in DOMAIN intent[t.u] |->
                    IF c \in Columns(t.op) THEN row[c] ELSE intent[t.u][c]]
          BY <3>2, StoredRow
        <4>2. lost' = IF t.overtaken THEN lost \cup {t.u} ELSE lost
          BY <3>2 DEF Stores
        <4>3. ASSUME t.u \notin lost'
              PROVE  row = intent'[t.u]
          <5>1. ~t.overtaken /\ t.u \notin lost
            BY <4>2, <4>3
          <5>2. t.read = GetUser(t.u)
            BY <2>2, <2>3, <5>1 DEF Fresh, At, Uses
          <5>3. GetUser(t.u) = users[t.u].row /\ users[t.u].row = intent[t.u]
            BY <2>3, <3>2, <5>1 DEF GetUser, Stores, LastWriteStands
          <5>4. /\ row \in UserRows /\ DOMAIN row = DOMAIN t.read
                /\ \A c \in DOMAIN row : c \notin Columns(t.op) => row[c] = t.read[c]
            BY <3>2, RowWritten DEF Stores
          <5>5. row = [c \in DOMAIN row |-> row[c]]
            BY <5>4 DEF UserRows
          <5> QED
            BY <4>1, <5>2, <5>3, <5>4, <5>5
        <4>4. \A v \in Ids \ lost' : users'[v].row = intent'[v]
          BY <4>1, <4>2, <4>3 DEF LastWriteStands
        <4> QED
          BY <2>5, <4>4 DEF LastWriteStands
      <3> QED
        BY <1>2, <3>1, <3>2
    <2> QED
      BY <2>9, <2>10, <2>11
  <1> QED
    BY <1>1, <1>2, Writing

LEMMA StepCoherent ==
    ASSUME CacheInv, [Next]_vars
    PROVE  CacheInv'
  <1>1. Typed'
    BY StepTyped DEF CacheInv
  <1>2. CASE UNCHANGED vars
    BY <1>2 DEF vars, rows, ghosts, CacheInv, Typed, Tables, Working, Bound, Fresh, CacheCoherent,
                LastWriteStands, Unevicted, InFlight, At, GetUser, Ids
  <1>3. ASSUME NEW q \in Requests, Step(q)
        PROVE  Fresh' /\ CacheCoherent' /\ LastWriteStands'
    <2>1. CASE \/ Admit(q) \/ Accept(q) \/ QueueNotification(q) \/ TrackObject(q)
               \/ OrphanObjectsFor(q) \/ CreatePasswordReset(q) \/ MarkPasswordResetUsed(q)
               \/ InvalidatePendingPasswordResets(q) \/ CreateInvitation(q)
               \/ CreateRefreshToken(q) \/ RotateRefreshToken(q) \/ RevokeRefreshToken(q)
               \/ RevokeAllRefreshTokens(q)
      <3>1. /\ UNCHANGED <<users, intent, cache, exposed, lost>>
            /\ req[q].op # "idle" /\ Head(req[q].steps) \notin {"lookup", "evict"}
            /\ Done(q) \/ Refuse(q)
        BY <2>1 DEF Admit, Accept, QueueNotification, TrackObject, OrphanObjectsFor,
                    CreatePasswordReset, MarkPasswordResetUsed, InvalidatePendingPasswordResets,
                    CreateInvitation, CreateRefreshToken, RotateRefreshToken, RevokeRefreshToken,
                    RevokeAllRefreshTokens, At, rows, ghosts
      <3> QED
        BY <3>1, PlainCoherent DEF Ids
    <2>2. CASE CreateUser(q)
      <3>1. /\ UNCHANGED <<cache, exposed, lost>> /\ Done(q)
            /\ req[q].op # "idle" /\ Head(req[q].steps) \notin {"lookup", "evict"}
        BY <2>2 DEF CreateUser, At
      <3>2. BootstrapEmail \in Emails /\ "super_admin" \in Roles
        BY IdentityAssumption DEF Roles
      <3>3. \/ \E p \in Passwords : Insert(User(BootstrapEmail, p, "super_admin"))
            \/ UNCHANGED <<users, intent>>
        BY <2>2 DEF CreateUser
      <3>4. /\ Ids \subseteq Ids'
            /\ \A u \in Ids : users'[u] = users[u] /\ intent'[u] = intent[u]
            /\ \A u \in Ids' \ Ids : users'[u].row = intent'[u]
        BY <3>2, <3>3, InsertTyped DEF CacheInv
      <3> QED
        BY <3>1, <3>4, PlainCoherent
    <2>3. CASE AcceptInvitationTx(q)
      <3>1. /\ UNCHANGED <<cache, exposed, lost>> /\ Done(q)
            /\ req[q].op # "idle" /\ Head(req[q].steps) \notin {"lookup", "evict"}
        BY <2>3 DEF AcceptInvitationTx, At
      <3>2. /\ Ids \subseteq Ids'
            /\ \A u \in Ids : users'[u] = users[u] /\ intent'[u] = intent[u]
            /\ \A u \in Ids' \ Ids : users'[u].row = intent'[u]
        BY <2>3, Joined DEF CacheInv
      <3> QED
        BY <3>1, <3>2, PlainCoherent
    <2> QED
      BY <1>3, <2>1, <2>2, <2>3, LookupCoherent, FillCoherent, EvictCoherent, WriteCoherent,
         SnapshotCoherent DEF Step
  <1>4. ASSUME NEW q \in Requests, NEW r \in Replicas, Arrival(q, r)
        PROVE  Fresh' /\ CacheCoherent' /\ LastWriteStands'
    BY <1>4, ArrivalCoherent
  <1> QED
    BY <1>1, <1>2, <1>3, <1>4, FailCoherent, ReplicaCoherent DEF Next, CacheInv

LEMMA InitCoherent == Init => CacheInv
  <1> SUFFICES ASSUME Init PROVE CacheInv
    OBVIOUS
  <1>1. Typed /\ Fresh /\ CacheCoherent /\ LastWriteStands
    BY InitTyped DEF Fresh, CacheCoherent, LastWriteStands
  <1> QED
    BY <1>1 DEF CacheInv

(* A replica serves a user as stored, unless another replica wrote the row, a  *)
(* fill was under way when it was written or the write's acknowledgement was  *)
(* lost (cached.IdentityRepository.GetUserByID, UpdateUser, DeleteUser).     *)
THEOREM CacheServesStored == Spec => []CacheCoherent
  <1>1. CacheInv /\ [Next]_vars => CacheInv'
    BY StepCoherent
  <1>2. CacheInv => CacheCoherent
    BY DEF CacheInv
  <1> QED
    BY <1>1, <1>2, InitCoherent, PTL DEF Spec

(* Each column of a user is what the operation that owns it wrote last,       *)
(* though every UpdateUser writes all of them, as long as nobody wrote the    *)
(* user from a row that had been overtaken (AuthService.ManageUser,          *)
(* UpdateProfile, ChangePassword, ...).                                     *)
THEOREM ColumnsKept == Spec => []LastWriteStands
  <1>1. CacheInv /\ [Next]_vars => CacheInv'
    BY StepCoherent
  <1>2. CacheInv => LastWriteStands
    BY DEF CacheInv
  <1> QED
    BY <1>1, <1>2, InitCoherent, PTL DEF Spec

-----------------------------------------------------------------------------
(* Passwords and what was granted under them. *)

(* Resets and tokens stay as they are, are used up or revoked, or are new;    *)
(* a new reset carries the password in force, a new token is marked if its   *)
(* password no longer is.                                                   *)
ResetsFollow ==
    \A x \in DOMAIN resets' :
        \/ /\ x \in DOMAIN resets /\ resets'[x].u = resets[x].u /\ resets'[x].pw = resets[x].pw
           /\ resets[x].used => resets'[x].used
        \/ resets'[x].u \in Ids /\ resets'[x].pw = users[resets'[x].u].row.pw

TokensFollow ==
    \A t \in DOMAIN tokens' :
        \/ /\ t \in DOMAIN tokens /\ tokens'[t].u = tokens[t].u /\ tokens'[t].pw = tokens[t].pw
           /\ tokens'[t].late = tokens[t].late
           /\ tokens'[t].live => tokens[t].live
        \/ /\ tokens'[t].u \in Ids
           /\ ~tokens'[t].late => ~Late(tokens'[t].u, tokens'[t].pw)

(* A password changes only with the user marked, and with every request that *)
(* has a row of the user in hand.                                           *)
RowsFollow ==
    /\ Ids \subseteq Ids'
    /\ lost \subseteq lost'
    /\ \A u \in Ids :
          \/ users'[u].row.pw = users[u].row.pw
          \/ /\ u \in unsettled' \cup lost'
             /\ \A p \in Requests :
                   (req'[p] # Idle /\ req'[p].u = u
                       /\ Head(req'[p].steps) \in {"revokeSnapshot", "revokeAll"})
                   => req'[p].overtaken

(* Request p is where it was, if it is about to revoke. *)
Follows(p) ==
    req'[p] # Idle /\ Head(req'[p].steps) \in {"revokeSnapshot", "revokeAll"} =>
        /\ req[p] # Idle /\ Head(req'[p].steps) = Head(req[p].steps)
        /\ req'[p].u = req[p].u /\ req'[p].snap = req[p].snap
        /\ req[p].overtaken => req'[p].overtaken

CurrentAt(u) == SessionsCurrent(u, DOMAIN tokens) /\ ResetsCurrent(u)

ClosingAt(p) ==
    req[p] # Idle /\ ~req[p].overtaken =>
        /\ Head(req[p].steps) \in {"revokeSnapshot", "revokeAll"} => ResetsCurrent(req[p].u)
        /\ Head(req[p].steps) = "revokeAll" =>
              SessionsCurrent(req[p].u, DOMAIN tokens \ req[p].snap)

LEMMA ByParts ==
    /\ Closing <=> \A p \in Requests : ClosingAt(p)
    /\ PasswordClosesSessions <=> \A u \in Ids \ (unsettled \cup lost) : CurrentAt(u)
  <1>1. Closing <=> \A p \in Requests : ClosingAt(p)
    BY DEF Closing, ClosingAt
  <1>2. PasswordClosesSessions <=> \A u \in Ids \ (unsettled \cup lost) : CurrentAt(u)
    BY DEF PasswordClosesSessions, CurrentAt, SessionsCurrent, ResetsCurrent
  <1> QED
    BY <1>1, <1>2

LEMMA ByPartsNext ==
    ASSUME \A p \in Requests : ClosingAt(p)',
           \A u \in Ids' \ (unsettled' \cup lost') : CurrentAt(u)'
    PROVE  Closing' /\ PasswordClosesSessions'
  <1>1. PasswordClosesSessions'
    BY DEF PasswordClosesSessions, CurrentAt, SessionsCurrent, ResetsCurrent
  <1>2. Closing'
    BY DEF Closing, ClosingAt
  <1> QED
    BY <1>1, <1>2

(* A request that is about to revoke names a user there is. *)
LEMMA RevokerUser ==
    ASSUME Typed, NEW p \in Requests, req[p] # Idle,
           Head(req[p].steps) \in {"closeResets", "revokeSnapshot", "revokeAll"}
    PROVE  /\ req[p].u \in Ids /\ req[p].op \in PasswordOps /\ req[p].read \in UserRows
           /\ req[p] \in Tasks /\ Bound(req[p])
           /\ req[p].steps[1] = Head(req[p].steps) /\ req[p].op # "idle"
  <1> PICK r : r = req[p]
    OBVIOUS
  <1>1. r \in Tasks /\ Bound(r) /\ r.op # "idle"
    BY AtWork DEF Typed
  <1>2. 1 \in 1 .. Len(r.steps) /\ Head(r.steps) = r.steps[1] /\ Head(r.steps) \in Holds
    BY <1>1 DEF Tasks, Bound, Holds
  <1>3. r.op \in PasswordOps
    BY <1>1, <1>2 DEF Bound, Staged
  <1>4. r.op \notin Userless
    BY <1>3 DEF PasswordOps, Userless
  <1> QED
    BY <1>1, <1>2, <1>3, <1>4 DEF Bound

(* What is current stays current. *)
LEMMA StaysCurrent ==
    ASSUME PasswordInv, ResetsFollow, TokensFollow, RowsFollow
    PROVE  /\ \A u \in Ids' \ (unsettled \cup unsettled' \cup lost') : CurrentAt(u)'
           /\ \A p \in Requests : Follows(p) => ClosingAt(p)'
  <1> USE DEF PasswordInv, CacheInv
  <1>1. /\ \A t \in DOMAIN tokens : tokens[t].u \in Ids
        /\ \A x \in DOMAIN resets : resets[x].u \in Ids
    BY DEF Typed, Tables
  <1>2. ASSUME NEW u \in Ids, ResetsCurrent(u), users'[u].row.pw = users[u].row.pw
        PROVE  ResetsCurrent(u)'
    BY <1>2 DEF ResetsCurrent, ResetsFollow
  <1>3. ASSUME NEW u \in Ids, NEW T, NEW T2, SessionsCurrent(u, T),
               users'[u].row.pw = users[u].row.pw, T2 \subseteq DOMAIN tokens',
               \A t \in T2 : t \in DOMAIN tokens => t \in T,
               u \notin unsettled \/ \E p \in InFlight(u) : At(p, "revokeAll")
        PROVE  \A t \in T2 : tokens'[t].u = u /\ tokens'[t].live /\ ~tokens'[t].late
                                => tokens'[t].pw = users'[u].row.pw
    <2> SUFFICES ASSUME NEW t \in T2, tokens'[t].u = u, tokens'[t].live, ~tokens'[t].late
                 PROVE  tokens'[t].pw = users[u].row.pw
      BY <1>3
    <2>1. t \in DOMAIN tokens'
      BY <1>3
    <2>2. CASE /\ t \in DOMAIN tokens /\ tokens'[t].u = tokens[t].u /\ tokens'[t].pw = tokens[t].pw
               /\ tokens'[t].late = tokens[t].late
               /\ tokens'[t].live => tokens[t].live
      BY <1>3, <2>2 DEF SessionsCurrent
    <2>3. CASE ~Late(u, tokens'[t].pw)
      BY <1>3, <2>3 DEF Late
    <2> QED
      BY <2>1, <2>2, <2>3 DEF TokensFollow
  <1>4. ASSUME NEW u \in Ids', u \notin unsettled, u \notin unsettled', u \notin lost'
        PROVE  CurrentAt(u)'
    <2>1. CASE u \in Ids
      <3>1. CurrentAt(u)
        BY <1>4, <2>1, ByParts DEF RowsFollow
      <3>2. users'[u].row.pw = users[u].row.pw
        BY <1>4, <2>1 DEF RowsFollow
      <3>3. ResetsCurrent(u)'
        BY <1>2, <2>1, <3>1, <3>2 DEF CurrentAt
      <3>4. PICK T, T2 : T = DOMAIN tokens /\ T2 = DOMAIN tokens'
        OBVIOUS
      <3>5. SessionsCurrent(u, T)
        BY <3>1, <3>4 DEF CurrentAt
      <3>6. \A t \in T2 : tokens'[t].u = u /\ tokens'[t].live /\ ~tokens'[t].late
                             => tokens'[t].pw = users'[u].row.pw
        BY <1>3, <1>4, <2>1, <3>2, <3>4, <3>5
      <3> QED
        BY <3>3, <3>4, <3>6 DEF CurrentAt, SessionsCurrent
    <2>2. CASE u \notin Ids
      <3>1. /\ \A t \in DOMAIN tokens' : tokens'[t].u # u
            /\ \A x \in DOMAIN resets' : resets'[x].u # u
        BY <1>1, <2>2 DEF TokensFollow, ResetsFollow
      <3> QED
        BY <3>1 DEF CurrentAt, SessionsCurrent, ResetsCurrent
    <2> QED
      BY <2>1, <2>2
  <1>5. ASSUME NEW p \in Requests, Follows(p)
        PROVE  ClosingAt(p)'
    <2> SUFFICES ASSUME req'[p] # Idle, ~req'[p].overtaken,
                        Head(req'[p].steps) \in {"revokeSnapshot", "revokeAll"}
                 PROVE  /\ ResetsCurrent(req[p].u)'
                        /\ Head(req'[p].steps) = "revokeAll" =>
                              SessionsCurrent(req[p].u, DOMAIN tokens \ req[p].snap)'
      BY DEF ClosingAt
    <2>1. PICK u, S : u = req[p].u /\ S = req[p].snap
      OBVIOUS
    <2>2. /\ req[p] # Idle /\ ~req[p].overtaken /\ Head(req'[p].steps) = Head(req[p].steps)
          /\ req'[p].u = u /\ req'[p].snap = S
      BY <1>5, <2>1 DEF Follows
    <2>3. u \in Ids /\ req[p].op # "idle"
      BY <2>1, <2>2, RevokerUser
    <2>4. users'[u].row.pw = users[u].row.pw
      BY <2>2, <2>3 DEF RowsFollow
    <2>5. ResetsCurrent(u) /\ (Head(req[p].steps) = "revokeAll" => SessionsCurrent(u, DOMAIN tokens \ S))
      BY <2>1, <2>2 DEF Closing
    <2>6. ResetsCurrent(u)'
      BY <1>2, <2>3, <2>4, <2>5
    <2>7. ASSUME Head(req[p].steps) = "revokeAll"
          PROVE  SessionsCurrent(req[p].u, DOMAIN tokens \ req[p].snap)'
      <3>1. p \in InFlight(u) /\ At(p, "revokeAll")
        BY <2>1, <2>3, <2>7 DEF InFlight, At
      <3>2. PICK T, T2 : T = DOMAIN tokens \ S /\ T2 = DOMAIN tokens' \ S
        OBVIOUS
      <3>3. \A t \in T2 : tokens'[t].u = u /\ tokens'[t].live /\ ~tokens'[t].late
                             => tokens'[t].pw = users'[u].row.pw
        BY <1>3, <2>3, <2>4, <2>5, <2>7, <3>1, <3>2
      <3> QED
        BY <2>2, <3>2, <3>3 DEF SessionsCurrent
    <2> QED
      BY <2>2, <2>6, <2>7 DEF ResetsCurrent
  <1> QED
    BY <1>4, <1>5

LEMMA SameFollow ==
    /\ UNCHANGED resets => ResetsFollow
    /\ UNCHANGED tokens => TokensFollow
    /\ UNCHANGED <<users, lost>> => RowsFollow
  BY DEF ResetsFollow, TokensFollow, RowsFollow, Ids

(* Steps after which nobody is newly about to revoke and nobody settles. *)
LEMMA SteadyPasswords ==
    ASSUME PasswordInv, ResetsFollow, TokensFollow, RowsFollow,
           unsettled \subseteq unsettled', \A p \in Requests : Follows(p)
    PROVE  Closing' /\ PasswordClosesSessions'
  <1>1. \A u \in Ids' \ (unsettled' \cup lost') : CurrentAt(u)'
    BY StaysCurrent
  <1>2. \A p \in Requests : ClosingAt(p)'
    BY StaysCurrent
  <1> QED
    BY <1>1, <1>2, ByPartsNext

LEMMA MoverFollows ==
    ASSUME Typed, NEW q \in Requests, NEW n, req' = [req EXCEPT ![q] = n],
           n = Idle \/ Head(n.steps) \notin {"revokeSnapshot", "revokeAll"}
    PROVE  \A p \in Requests : Follows(p)
  BY DEF Typed, Working, Follows

(* Only the statements before them lead to the revocation. *)
LEMMA NextHead ==
    ASSUME Typed, NEW q \in Requests, req[q] # Idle, Tail(req[q].steps) # << >>
    PROVE  /\ Head(Tail(req[q].steps)) = "revokeSnapshot" => Head(req[q].steps) = "closeResets"
           /\ Head(Tail(req[q].steps)) = "revokeAll" => Head(req[q].steps) = "revokeSnapshot"
           /\ Head(Tail(req[q].steps)) = "evict" =>
                 Head(req[q].steps) = IF req[q].op = "remove" THEN "delete" ELSE "update"
           /\ Head(Tail(req[q].steps)) = "track" => Head(req[q].steps) = "evict"
           /\ Head(Tail(req[q].steps)) = "orphan" =>
                 Head(req[q].steps) = IF req[q].op = "remove" THEN "evict" ELSE "track"
           /\ Head(Tail(req[q].steps)) = req[q].steps[2] /\ 2 \in 1 .. Len(req[q].steps)
  <1> PICK s, op : s = req[q].steps /\ op = req[q].op
    OBVIOUS
  <1>1. s \in Seq(Statements) /\ s # << >> /\ Sound(s, op) /\ Staged(s, op)
    BY AtWork DEF Typed, Tasks, Bound
  <1>2. Len(s) > 1 /\ Head(Tail(s)) = s[2] /\ Len(s) \in Nat
    BY <1>1, SoundTail
  <1>3. 2 \in 1 .. Len(s) /\ 2 > 1 /\ 2 - 1 = 1 /\ Head(s) = s[1]
    BY <1>1, <1>2
  <1>4. /\ s[2] = "revokeSnapshot" => s[1] = "closeResets"
        /\ s[2] = "revokeAll" => s[1] = "revokeSnapshot"
        /\ s[2] = "evict" => s[1] = IF op = "remove" THEN "delete" ELSE "update"
        /\ s[2] = "track" => s[1] = "evict"
        /\ s[2] = "orphan" => s[1] = IF op = "remove" THEN "evict" ELSE "track"
    BY <1>1, <1>3 DEF Staged
  <1> QED
    BY <1>2, <1>3, <1>4

(* What Done and Refuse make of the request. *)
LEMMA DoneOrRefused ==
    ASSUME Typed, NEW q \in Requests, req[q].op # "idle", Done(q) \/ Refuse(q)
    PROVE  /\ req[q] # Idle /\ req[q] \in Tasks /\ Bound(req[q])
           /\ \E n : /\ req' = [req EXCEPT ![q] = n]
                     /\ n = Idle \/ /\ Tail(req[q].steps) # << >>
                                    /\ n = [req[q] EXCEPT !.steps = Tail(req[q].steps)]
                                    /\ n.steps = Tail(req[q].steps)
  <1>1. req[q] # Idle /\ req[q] \in Tasks /\ Bound(req[q])
    BY AtWork DEF Typed
  <1>2. PICK n : (n = Idle \/ n = Advance(req[q])) /\ req' = [req EXCEPT ![q] = n]
    BY DEF Done, Refuse
  <1>3. n = Idle \/ (Tail(req[q].steps) # << >> /\ n = [req[q] EXCEPT !.steps = Tail(req[q].steps)])
    BY <1>2 DEF Advance
  <1>4. n = [req[q] EXCEPT !.steps = Tail(req[q].steps)] => n.steps = Tail(req[q].steps)
    BY <1>1 DEF Tasks
  <1> QED
    BY <1>1, <1>2, <1>3, <1>4

LEMMA PlainFollows ==
    ASSUME Typed, NEW q \in Requests, req[q].op # "idle", Done(q) \/ Refuse(q),
           Head(req[q].steps) \notin {"closeResets", "revokeSnapshot"}
    PROVE  \A p \in Requests : Follows(p)
  <1>1. PICK n : /\ req' = [req EXCEPT ![q] = n]
                 /\ n = Idle \/ (Tail(req[q].steps) # << >> /\ n.steps = Tail(req[q].steps))
    BY DoneOrRefused
  <1>2. req[q] # Idle
    BY DoneOrRefused
  <1>3. n = Idle \/ Head(n.steps) \notin {"revokeSnapshot", "revokeAll"}
    BY <1>1, <1>2, NextHead
  <1> QED
    BY <1>1, <1>3, MoverFollows

LEMMA TokensSteady ==
    ASSUME PasswordInv, NEW q \in Requests,
           CreateRefreshToken(q) \/ RotateRefreshToken(q) \/ RevokeRefreshToken(q)
    PROVE  Closing' /\ PasswordClosesSessions'
  <1> USE DEF PasswordInv, CacheInv
  <1> PICK r : r = req[q]
    OBVIOUS
  <1>1. /\ r # Idle /\ r \in Tasks /\ Bound(r)
        /\ Head(r.steps) \in {"createToken", "rotateToken", "revokeToken"}
    BY AtWork DEF CreateRefreshToken, RotateRefreshToken, RevokeRefreshToken, At, Typed
  <1>2. r.u \in Ids /\ (Head(r.steps) = "rotateToken" => r.x \in DOMAIN tokens)
    <2>1. 1 \in 1 .. Len(r.steps) /\ Head(r.steps) = r.steps[1]
      BY <1>1 DEF Tasks, Bound
    <2> QED
      BY <1>1, <2>1 DEF Bound, Sound
  <1>3. /\ tokens \in Seq(Tokens) /\ Len(tokens) \in Nat /\ DOMAIN tokens = 1 .. Len(tokens)
        /\ \A t \in DOMAIN tokens : tokens[t] \in Tokens /\ tokens[t].u \in Ids
    BY DEF Typed, Tables
  <1>4. \A u, f, w : /\ NewToken(u, f, w).u = u /\ NewToken(u, f, w).pw = w
                     /\ ~NewToken(u, f, w).late => ~Late(u, w)
    BY DEF NewToken
  <1>5. TokensFollow
    <2>1. CASE CreateRefreshToken(q)
      <3>1. PICK e : /\ e = NewToken(r.u, Len(tokens) + 1, r.x)
                     /\ e.u = r.u /\ (~e.late => ~Late(e.u, e.pw))
        BY <1>4
      <3>2. tokens' = Append(tokens, e)
        BY <2>1, <3>1 DEF CreateRefreshToken
      <3>3. /\ DOMAIN tokens' = 1 .. Len(tokens) + 1
            /\ \A t \in DOMAIN tokens : tokens'[t] = tokens[t]
            /\ tokens'[Len(tokens) + 1] = e
        BY <1>3, <3>2
      <3>4. \A t \in DOMAIN tokens' : t \in DOMAIN tokens \/ t = Len(tokens) + 1
        BY <1>3, <3>3
      <3> QED
        BY <1>2, <3>1, <3>3, <3>4 DEF TokensFollow
    <2>2. CASE RotateRefreshToken(q)
      <3>1. CASE tokens' = tokens
        BY <3>1 DEF TokensFollow
      <3>2. CASE tokens' = Append([tokens EXCEPT ![r.x].live = FALSE],
                                  NewToken(tokens[r.x].u, tokens[r.x].family, tokens[r.x].pw))
        <4>0. r.x \in DOMAIN tokens
          BY <1>2, <2>2 DEF RotateRefreshToken, At
        <4>1. PICK e : /\ e = NewToken(tokens[r.x].u, tokens[r.x].family, tokens[r.x].pw)
                       /\ e.u = tokens[r.x].u /\ (~e.late => ~Late(e.u, e.pw))
          BY <1>4
        <4>2. PICK f : f = [tokens EXCEPT ![r.x].live = FALSE]
          OBVIOUS
        <4>3. /\ f = [t \in DOMAIN tokens |-> f[t]]
              /\ \A t \in DOMAIN tokens : f[t] \in Tokens
              /\ \A t \in DOMAIN tokens : /\ f[t].u = tokens[t].u /\ f[t].pw = tokens[t].pw
                                          /\ f[t].late = tokens[t].late /\ (f[t].live => tokens[t].live)
          BY <1>3, <4>2 DEF Tokens
        <4>4. f \in Seq(Tokens) /\ Len(f) = Len(tokens) /\ DOMAIN f = DOMAIN tokens
          BY <1>3, <4>3, Rewritten
        <4>5. PICK g : g = Append(f, e) /\ tokens' = g
          BY <3>2, <4>1, <4>2
        <4>6. /\ DOMAIN g = 1 .. Len(tokens) + 1
              /\ \A t \in DOMAIN tokens : g[t] = f[t]
              /\ g[Len(tokens) + 1] = e
          BY <1>3, <4>4, <4>5
        <4>7. \A t \in DOMAIN g : t \in DOMAIN tokens \/ t = Len(tokens) + 1
          BY <1>3, <4>6
        <4>8. e.u \in Ids
          BY <1>3, <4>0, <4>1
        <4>9. ASSUME NEW t \in DOMAIN tokens
              PROVE  /\ g[t].u = tokens[t].u /\ g[t].pw = tokens[t].pw
                     /\ g[t].late = tokens[t].late /\ (g[t].live => tokens[t].live)
          BY <4>3, <4>6
        <4>10. /\ g[Len(tokens) + 1].u \in Ids
               /\ ~g[Len(tokens) + 1].late => ~Late(g[Len(tokens) + 1].u, g[Len(tokens) + 1].pw)
          BY <4>1, <4>6, <4>8
        <4>11. \A t \in DOMAIN g :
                  \/ /\ t \in DOMAIN tokens /\ g[t].u = tokens[t].u /\ g[t].pw = tokens[t].pw
                     /\ g[t].late = tokens[t].late
                     /\ g[t].live => tokens[t].live
                  \/ g[t].u \in Ids /\ (~g[t].late => ~Late(g[t].u, g[t].pw))
          BY <4>7, <4>9, <4>10
        <4> QED
          BY <4>5, <4>11 DEF TokensFollow
      <3> QED
        BY <2>2, <3>1, <3>2 DEF RotateRefreshToken
    <2>3. CASE RevokeRefreshToken(q)
      BY <1>3, <2>3 DEF RevokeRefreshToken, Tokens, TokensFollow
    <2> QED
      BY <2>1, <2>2, <2>3
  <1>6. UNCHANGED <<users, resets, lost, unsettled>> /\ Done(q) /\ req[q].op # "idle"
    BY DEF CreateRefreshToken, RotateRefreshToken, RevokeRefreshToken, ghosts, At
  <1>7. \A p \in Requests : Follows(p)
    BY <1>1, <1>6, PlainFollows
  <1> QED
    BY <1>5, <1>6, <1>7, SameFollow, SteadyPasswords

LEMMA ResetsSteady ==
    ASSUME PasswordInv, NEW q \in Requests,
           CreatePasswordReset(q) \/ MarkPasswordResetUsed(q)
    PROVE  Closing' /\ PasswordClosesSessions'
  <1> USE DEF PasswordInv, CacheInv
  <1> PICK r : r = req[q]
    OBVIOUS
  <1>1. r # Idle /\ r \in Tasks /\ Bound(r) /\ Head(r.steps) \in {"createReset", "markUsed"}
    BY AtWork DEF CreatePasswordReset, MarkPasswordResetUsed, At, Typed
  <1>2. r.u \in Ids
    <2>1. 1 \in 1 .. Len(r.steps) /\ Head(r.steps) = r.steps[1]
      BY <1>1 DEF Tasks, Bound
    <2> QED
      BY <1>1, <2>1 DEF Bound, Sound
  <1>3. /\ resets \in Seq(Resets) /\ Len(resets) \in Nat /\ DOMAIN resets = 1 .. Len(resets)
        /\ \A x \in DOMAIN resets : resets[x] \in Resets
    BY DEF Typed, Tables
  <1>4. ResetsFollow
    <2>1. CASE CreatePasswordReset(q)
      <3>0. PICK e : e = [u |-> r.u, used |-> FALSE, pw |-> users[r.u].row.pw]
        OBVIOUS
      <3>1. e.u = r.u /\ e.pw = users[r.u].row.pw
        BY <3>0
      <3>2. resets' = Append(resets, e)
        BY <2>1, <3>0 DEF CreatePasswordReset
      <3>3. /\ DOMAIN resets' = 1 .. Len(resets) + 1
            /\ \A x \in DOMAIN resets : resets'[x] = resets[x]
            /\ resets'[Len(resets) + 1] = e
        BY <1>3, <3>2
      <3>4. \A x \in DOMAIN resets' : x \in DOMAIN resets \/ x = Len(resets) + 1
        BY <1>3, <3>3
      <3> QED
        BY <1>2, <3>1, <3>3, <3>4 DEF ResetsFollow
    <2>2. CASE MarkPasswordResetUsed(q)
      BY <1>3, <2>2 DEF MarkPasswordResetUsed, Resets, ResetsFollow
    <2> QED
      BY <2>1, <2>2
  <1>5. UNCHANGED <<users, tokens, lost, unsettled>> /\ Done(q) /\ req[q].op # "idle"
    BY DEF CreatePasswordReset, MarkPasswordResetUsed, ghosts, At
  <1>6. \A p \in Requests : Follows(p)
    BY <1>1, <1>5, PlainFollows
  <1> QED
    BY <1>4, <1>5, <1>6, SameFollow, SteadyPasswords

(* The pending resets of the user are closed, whatever their password was. *)
LEMMA ResetsClose ==
    ASSUME PasswordInv, NEW q \in Requests, InvalidatePendingPasswordResets(q)
    PROVE  Closing' /\ PasswordClosesSessions'
  <1> USE DEF PasswordInv, CacheInv
  <1> PICK r : r = req[q]
    OBVIOUS
  <1>1. r # Idle /\ r \in Tasks /\ Bound(r) /\ Head(r.steps) = "closeResets" /\ r.op # "idle"
    BY AtWork DEF InvalidatePendingPasswordResets, At, Typed
  <1>2. \A x \in DOMAIN resets : resets[x] \in Resets
    BY DEF Typed, Tables
  <1>3. PICK f : f = [x \in DOMAIN resets |-> IF resets[x].u = r.u
                        THEN [resets[x] EXCEPT !.used = TRUE] ELSE resets[x]] /\ resets' = f
    BY DEF InvalidatePendingPasswordResets
  <1>4. /\ DOMAIN f = DOMAIN resets
        /\ \A x \in DOMAIN resets : /\ f[x].u = resets[x].u /\ f[x].pw = resets[x].pw
                                    /\ resets[x].used => f[x].used
                                    /\ resets[x].u = r.u => f[x].used
    BY <1>2, <1>3 DEF Resets
  <1>5. ResetsFollow
    BY <1>3, <1>4 DEF ResetsFollow
  <1>6. UNCHANGED <<users, tokens, lost, unsettled>> /\ Done(q)
    BY DEF InvalidatePendingPasswordResets, ghosts
  <1>7. TokensFollow /\ RowsFollow
    BY <1>6, SameFollow
  <1>8. PICK n : /\ req' = [req EXCEPT ![q] = n]
                 /\ n = Idle \/ /\ Tail(r.steps) # << >>
                                /\ n = [r EXCEPT !.steps = Tail(r.steps)]
                                /\ n.steps = Tail(r.steps)
    BY <1>1, <1>6, DoneOrRefused
  <1>9. n # Idle => n.u = r.u /\ Head(n.steps) # "revokeAll"
    <2>1. n # Idle => n.u = r.u
      BY <1>1, <1>8 DEF Tasks
    <2>2. n # Idle => Head(n.steps) # "revokeAll"
      BY <1>1, <1>8, NextHead
    <2> QED
      BY <2>1, <2>2
  <1>10. \A p \in Requests \ {q} : Follows(p)
    BY <1>8 DEF Follows, Typed, Working
  <1>11. ClosingAt(q)'
    <2>1. ResetsCurrent(r.u)'
      BY <1>3, <1>4 DEF ResetsCurrent
    <2>2. req'[q] = n
      BY <1>8 DEF Typed, Working
    <2> QED
      BY <1>9, <2>1, <2>2 DEF ClosingAt, ResetsCurrent
  <1>12. \A p \in Requests : ClosingAt(p)'
    BY <1>5, <1>7, <1>10, <1>11, StaysCurrent
  <1>13. \A u \in Ids' \ (unsettled' \cup lost') : CurrentAt(u)'
    BY <1>5, <1>6, <1>7, StaysCurrent
  <1> QED
    BY <1>12, <1>13, ByPartsNext

(* The revocation looks: what it does not see there is none of. *)
LEMMA SnapshotTaken ==
    ASSUME PasswordInv, NEW q \in Requests, RevokeSnapshot(q)
    PROVE  Closing' /\ PasswordClosesSessions'
  <1> USE DEF PasswordInv, CacheInv
  <1> PICK r : r = req[q]
    OBVIOUS
  <1>1. r # Idle /\ r \in Tasks /\ Bound(r) /\ Head(r.steps) = "revokeSnapshot" /\ r.op # "idle"
    BY AtWork DEF RevokeSnapshot, At, Typed
  <1>2. PICK S : S = {t \in DOMAIN tokens : tokens[t].u = r.u /\ tokens[t].live}
    OBVIOUS
  <1>3. PICK n : /\ req' = [req EXCEPT ![q] = n]
                 /\ n = [r EXCEPT !.steps = Tail(r.steps), !.snap = S]
    BY <1>2 DEF RevokeSnapshot
  <1>4. n.steps = Tail(r.steps) /\ n.snap = S /\ n.u = r.u /\ n.overtaken = r.overtaken
    BY <1>1, <1>3 DEF Tasks
  <1>5. UNCHANGED <<users, tokens, resets, lost, unsettled>>
    BY DEF RevokeSnapshot, rows, ghosts
  <1>6. ResetsFollow /\ TokensFollow /\ RowsFollow
    BY <1>5, SameFollow
  <1>7. \A p \in Requests \ {q} : Follows(p)
    BY <1>3 DEF Follows, Typed, Working
  <1>8. ClosingAt(q)'
    <2>1. req'[q] = n
      BY <1>3 DEF Typed, Working
    <2>2. SessionsCurrent(r.u, DOMAIN tokens \ S)
      BY <1>2 DEF SessionsCurrent
    <2>3. ~r.overtaken => ResetsCurrent(r.u)
      BY <1>1 DEF Closing
    <2> QED
      BY <1>4, <1>5, <2>1, <2>2, <2>3 DEF ClosingAt, ResetsCurrent, SessionsCurrent
  <1>9. \A p \in Requests : ClosingAt(p)'
    BY <1>6, <1>7, <1>8, StaysCurrent
  <1>10. \A u \in Ids' \ (unsettled' \cup lost') : CurrentAt(u)'
    BY <1>5, <1>6, StaysCurrent
  <1> QED
    BY <1>9, <1>10, ByPartsNext

(* The revocation writes: the user is settled, and none is left. *)
LEMMA SessionsRevoked ==
    ASSUME PasswordInv, NEW q \in Requests, RevokeAllRefreshTokens(q)
    PROVE  Closing' /\ PasswordClosesSessions'
  <1> USE DEF PasswordInv, CacheInv
  <1> PICK r : r = req[q]
    OBVIOUS
  <1>1. /\ r # Idle /\ r \in Tasks /\ Bound(r) /\ Head(r.steps) = "revokeAll" /\ r.op # "idle"
        /\ r.u \in Ids
    BY AtWork, RevokerUser DEF RevokeAllRefreshTokens, At, Typed
  <1>2. \A t \in DOMAIN tokens : tokens[t] \in Tokens
    BY DEF Typed, Tables
  <1>3. PICK f : f = [t \in DOMAIN tokens |-> IF t \in r.snap
                        THEN [tokens[t] EXCEPT !.live = FALSE] ELSE tokens[t]] /\ tokens' = f
    BY DEF RevokeAllRefreshTokens
  <1>4. /\ DOMAIN f = DOMAIN tokens
        /\ \A t \in DOMAIN tokens : /\ f[t].u = tokens[t].u /\ f[t].pw = tokens[t].pw
                                    /\ f[t].late = tokens[t].late /\ (f[t].live => tokens[t].live)
                                    /\ t \in r.snap => ~f[t].live
    BY <1>2, <1>3 DEF Tokens
  <1>5. TokensFollow
    BY <1>3, <1>4 DEF TokensFollow
  <1>6. UNCHANGED <<users, resets, lost>> /\ Done(q) /\ Settle(q)
    BY DEF RevokeAllRefreshTokens
  <1>7. ResetsFollow /\ RowsFollow
    BY <1>6, SameFollow
  <1>8. \A p \in Requests : Follows(p)
    BY <1>1, <1>6, PlainFollows
  <1>9. \A p \in Requests : ClosingAt(p)'
    BY <1>5, <1>7, <1>8, StaysCurrent
  <1>10. ASSUME NEW u \in Ids', u \notin unsettled', u \notin lost'
         PROVE  CurrentAt(u)'
    <2>1. CASE u \notin unsettled
      BY <1>5, <1>7, <1>10, <2>1, StaysCurrent
    <2>2. CASE u \in unsettled
      <3>1. u = r.u /\ ~r.overtaken
        BY <1>6, <1>10, <2>2 DEF Settle
      <3>2. ResetsCurrent(u) /\ SessionsCurrent(u, DOMAIN tokens \ r.snap)
        BY <1>1, <3>1 DEF Closing
      <3>3. ResetsCurrent(u)'
        BY <1>6, <3>2 DEF ResetsCurrent
      <3>4. \A t \in DOMAIN f : f[t].u = u /\ f[t].live /\ ~f[t].late => f[t].pw = users[u].row.pw
        BY <1>4, <3>2 DEF SessionsCurrent
      <3> QED
        BY <1>3, <1>6, <3>3, <3>4 DEF CurrentAt, SessionsCurrent
    <2> QED
      BY <2>1, <2>2
  <1> QED
    BY <1>9, <1>10, ByPartsNext

(* The other requests after a write of user u: those with a row of u in hand  *)
(* are overtaken.                                                           *)
LEMMA Bystanders ==
    ASSUME Typed, NEW q \in Requests, NEW n, req' = [Overtaking(q, req) EXCEPT ![q] = n],
           NEW p \in Requests \ {q}
    PROVE  /\ req'[p] # Idle <=> req[p] # Idle
           /\ req[p] # Idle =>
                 /\ req'[p].op = req[p].op /\ req'[p].steps = req[p].steps
                 /\ req'[p].u = req[p].u /\ req'[p].x = req[p].x /\ req'[p].snap = req[p].snap
                 /\ req[p].overtaken => req'[p].overtaken
                 /\ req[p].u = req[q].u /\ req[p].read \in UserRows => req'[p].overtaken
  <1>1. req'[p] = IF p \in InFlight(req[q].u) /\ req[p].read.found
                  THEN [req[p] EXCEPT !.overtaken = TRUE] ELSE req[p]
    BY Others DEF Typed
  <1>2. CASE req[p] = Idle
    <2>1. p \notin InFlight(req[q].u)
      BY <1>2 DEF InFlight, Idle
    <2> QED
      BY <1>1, <1>2, <2>1
  <1>3. CASE req[p] # Idle
    <2>1. req[p] \in Tasks /\ req[p].op # "idle"
      BY <1>3, AtWork DEF Typed
    <2>2. CASE req'[p] = req[p] /\ ~(p \in InFlight(req[q].u) /\ req[p].read.found)
      <3>1. \A row \in UserRows : row.found
        BY DEF UserRows
      <3> QED
        BY <1>3, <2>1, <2>2, <3>1 DEF InFlight
    <2>3. CASE req'[p] = [req[p] EXCEPT !.overtaken = TRUE]
      <3>1. PICK m : m = req'[p]
        OBVIOUS
      <3>2. /\ m.op = req[p].op /\ m.steps = req[p].steps /\ m.u = req[p].u /\ m.x = req[p].x
            /\ m.snap = req[p].snap /\ m.overtaken = TRUE
        BY <2>1, <2>3, <3>1 DEF Tasks
      <3>3. m # Idle
        BY <2>1, <3>2 DEF Idle
      <3> QED
        BY <1>3, <3>1, <3>2, <3>3
    <2> QED
      BY <1>1, <2>2, <2>3
  <1> QED
    BY <1>2, <1>3

LEMMA WriteSteady ==
    ASSUME PasswordInv, NEW q \in Requests, WriteUser(q) \/ Delete(q)
    PROVE  Closing' /\ PasswordClosesSessions'
  <1> USE DEF PasswordInv, CacheInv
  <1> PICK t : t = req[q]
    OBVIOUS
  <1>1. CASE /\ UNCHANGED <<rows, cache, arriving, faults, ghosts>>
             /\ req' = [req EXCEPT ![q] = Idle]
    <2>1. UNCHANGED <<users, tokens, resets, lost, unsettled>>
      BY <1>1 DEF rows, ghosts
    <2>2. \A p \in Requests : Follows(p)
      BY <1>1, MoverFollows
    <2> QED
      BY <2>1, <2>2, SameFollow, SteadyPasswords
  <1>2. CASE /\ Removes(q) \/ \E row \in Changes(q, Wanted(q)) : Stores(q, row)
             /\ UNCHANGED <<tokens, resets>>
             /\ \E n : /\ \/ n = Advance(req[q])
                          \/ req[q].op = "manage" /\ At(q, "update") /\ n = Advance(WithoutMail(req[q]))
                       /\ req' = [Overtaking(q, req) EXCEPT ![q] = n]
    <2>1. PICK n : /\ \/ n = Advance(req[q])
                      \/ req[q].op = "manage" /\ At(q, "update") /\ n = Advance(WithoutMail(req[q]))
                   /\ req' = [Overtaking(q, req) EXCEPT ![q] = n]
      BY <1>2
    <2>2. At(q, "update") \/ At(q, "delete")
      BY <1>2 DEF Stores, Removes
    <2>3. Head(n.steps) = "evict" /\ t.u \in Ids /\ t # Idle /\ t.read \in UserRows
      BY <2>1, <2>2, ThenEvict
    <2>4. req'[q] = n
      BY <2>1, Others DEF Typed
    <2>5. ASSUME NEW p \in Requests, req'[p] # Idle,
                 Head(req'[p].steps) \in {"revokeSnapshot", "revokeAll"}
          PROVE  /\ p \in Requests \ {q} /\ req[p] # Idle
                 /\ Head(req'[p].steps) = Head(req[p].steps)
                 /\ req'[p].u = req[p].u /\ req'[p].snap = req[p].snap
                 /\ req[p].overtaken => req'[p].overtaken
                 /\ req'[p].u = t.u => req'[p].overtaken
      <3>1. p \in Requests \ {q}
        BY <2>3, <2>4, <2>5
      <3>2. /\ req[p] # Idle /\ Head(req'[p].steps) = Head(req[p].steps)
            /\ req'[p].u = req[p].u /\ req'[p].snap = req[p].snap
            /\ req[p].overtaken => req'[p].overtaken
            /\ req[p].u = t.u /\ req[p].read \in UserRows => req'[p].overtaken
        BY <2>1, <2>5, <3>1, Bystanders
      <3>3. req[p].read \in UserRows
        BY <2>5, <3>2, RevokerUser
      <3> QED
        BY <3>1, <3>2, <3>3
    <2>6. \A p \in Requests : Follows(p)
      BY <2>5 DEF Follows
    <2>7. RowsFollow
      <3>1. CASE Removes(q)
        <4>1. Ids' = Ids /\ lost' = lost /\ \A v \in Ids : users'[v].row = users[v].row
          BY <3>1, RemovedRow DEF Removes
        <4> QED
          BY <4>1 DEF RowsFollow
      <3>2. ASSUME NEW row \in Changes(q, Wanted(q)), Stores(q, row)
            PROVE  RowsFollow
        <4>1. /\ Ids' = Ids /\ users'[t.u] = [row |-> row, deleted |-> FALSE]
              /\ \A v \in Ids : v # t.u => users'[v] = users[v]
          BY <3>2, StoredRow
        <4>2. /\ At(q, "update") /\ ~users[t.u].deleted
              /\ lost' = IF t.overtaken THEN lost \cup {t.u} ELSE lost
              /\ unsettled' = IF t.op \in PasswordOps THEN unsettled \cup {t.u} ELSE unsettled
          BY <3>2 DEF Stores
        <4>3. users'[t.u].row.pw = users[t.u].row.pw \/ t.u \in unsettled' \cup lost'
          <5>1. CASE t.overtaken \/ t.op \in PasswordOps
            BY <4>2, <5>1
          <5>2. CASE ~t.overtaken /\ t.op \notin PasswordOps
            <6>1. t.read = GetUser(t.u)
              BY <2>3, <4>2, <5>2 DEF Fresh, At, Uses
            <6>2. row.pw = t.read.pw
              BY <4>2, <5>2, RowWritten
            <6> QED
              BY <4>1, <4>2, <6>1, <6>2 DEF GetUser
          <5> QED
            BY <5>1, <5>2
        <4>4. \A p \in Requests :
                 (req'[p] # Idle /\ req'[p].u = t.u
                     /\ Head(req'[p].steps) \in {"revokeSnapshot", "revokeAll"})
                 => req'[p].overtaken
          BY <2>5
        <4>5. Ids \subseteq Ids' /\ lost \subseteq lost'
          BY <4>1, <4>2
        <4> QED
          BY <4>1, <4>3, <4>4, <4>5 DEF RowsFollow
      <3> QED
        BY <1>2, <3>1, <3>2
    <2>8. unsettled \subseteq unsettled'
      BY <1>2 DEF Stores, Removes
    <2> QED
      BY <1>2, <2>6, <2>7, <2>8, SameFollow, SteadyPasswords
  <1> QED
    BY <1>1, <1>2, Writing

LEMMA EvictSteady ==
    ASSUME PasswordInv, NEW q \in Requests, Evict(q)
    PROVE  Closing' /\ PasswordClosesSessions'
  <1> USE DEF PasswordInv, CacheInv
  <1> PICK r : r = req[q]
    OBVIOUS
  <1>1. r # Idle /\ r \in Tasks /\ Bound(r) /\ Head(r.steps) = "evict" /\ r.op # "idle"
    BY AtWork DEF Evict, At, Typed
  <1>2. r.op \in PasswordOps => Tail(r.steps) # << >>
    <2>1. /\ r.steps \in Seq(Statements) /\ Sound(r.steps, r.op) /\ r.steps # << >>
          /\ 1 \in 1 .. Len(r.steps) /\ r.steps[1] = "evict"
      BY <1>1 DEF Tasks, Bound
    <2>2. r.op \in PasswordOps => 1 < Len(r.steps)
      BY <1>1, <2>1 DEF Bound, Staged
    <2> QED
      BY <2>1, <2>2, SoundTail
  <1>3. UNCHANGED <<users, tokens, resets, lost, unsettled>> /\ Done(q)
    BY <1>2 DEF Evict, Settle, rows
  <1>4. \A p \in Requests : Follows(p)
    BY <1>1, <1>3, PlainFollows
  <1> QED
    BY <1>3, <1>4, SameFollow, SteadyPasswords

LEMMA LookupSteady ==
    ASSUME PasswordInv, NEW q \in Requests, GetUserByID(q)
    PROVE  Closing' /\ PasswordClosesSessions'
  <1> USE DEF PasswordInv, CacheInv
  <1> PICK r : r = req[q]
    OBVIOUS
  <1>1. r # Idle /\ r \in Tasks /\ Bound(r) /\ Head(r.steps) = "lookup"
    BY AtWork DEF GetUserByID, At, Typed
  <1>2. PICK n : req' = [req EXCEPT ![q] = n] /\ n =
          IF Entry(r.rep, r.u).found
          THEN [r EXCEPT !.steps = Tail(r.steps), !.read = Entry(r.rep, r.u),
                         !.overtaken = <<r.rep, r.u>> \in exposed \/ Unevicted(r.rep, r.u)]
          ELSE IF GetUser(r.u).found
          THEN [r EXCEPT !.steps = <<"fill">> \o Tail(r.steps), !.read = GetUser(r.u),
                         !.overtaken = FALSE]
          ELSE Idle
    BY DEF GetUserByID
  <1>3. n = Idle \/ n.steps = Tail(r.steps) \/ n.steps = <<"fill">> \o Tail(r.steps)
    BY <1>1, <1>2 DEF Tasks
  <1>4. /\ r.steps \in Seq(Statements) /\ r.steps # << >> /\ Sound(r.steps, r.op)
        /\ Staged(r.steps, r.op) /\ r.steps[1] = "lookup" /\ Tail(r.steps) # << >>
    <2>1. /\ r.steps \in Seq(Statements) /\ Sound(r.steps, r.op) /\ r.steps # << >>
          /\ Staged(r.steps, r.op) /\ 1 \in 1 .. Len(r.steps) /\ r.steps[1] = "lookup"
      BY <1>1 DEF Tasks, Bound
    <2>2. 1 < Len(r.steps)
      BY <2>1 DEF Sound
    <2> QED
      BY <2>1, <2>2, SoundTail
  <1>5. Head(<<"fill">> \o Tail(r.steps)) = "fill"
    BY <1>4, SoundFill
  <1>6. Head(Tail(r.steps)) \notin {"revokeSnapshot", "revokeAll"}
    BY <1>1, <1>4, NextHead
  <1>7. n = Idle \/ Head(n.steps) \notin {"revokeSnapshot", "revokeAll"}
    BY <1>3, <1>5, <1>6
  <1>8. UNCHANGED <<users, tokens, resets, lost, unsettled>>
    BY DEF GetUserByID, rows, ghosts
  <1>9. \A p \in Requests : Follows(p)
    BY <1>2, <1>7, MoverFollows
  <1> QED
    BY <1>8, <1>9, SameFollow, SteadyPasswords

LEMMA StepCloses ==
    ASSUME PasswordInv, [Next]_vars
    PROVE  PasswordInv'
  <1> USE DEF PasswordInv
  <1>1. CacheInv'
    BY StepCoherent
  <1>2. CASE UNCHANGED vars
    <2>1. UNCHANGED <<users, tokens, resets, req, lost, unsettled>>
      BY <1>2 DEF vars, rows, ghosts
    <2>2. \A p \in Requests : Follows(p)
      BY <2>1 DEF Follows
    <2> QED
      BY <1>1, <2>1, <2>2, SameFollow, SteadyPasswords
  <1>3. ASSUME NEW q \in Requests, Step(q)
        PROVE  Closing' /\ PasswordClosesSessions'
    <2>1. CASE Fill(q) \/ Admit(q) \/ Accept(q) \/ QueueNotification(q) \/ TrackObject(q)
               \/ OrphanObjectsFor(q) \/ CreateInvitation(q)
      <3>1. /\ UNCHANGED <<users, tokens, resets, lost, unsettled>>
            /\ req[q].op # "idle" /\ Head(req[q].steps) \notin {"closeResets", "revokeSnapshot"}
            /\ Done(q) \/ Refuse(q)
        BY <2>1 DEF Fill, Admit, Accept, QueueNotification, TrackObject, OrphanObjectsFor,
                    CreateInvitation, At, rows, ghosts
      <3>2. \A p \in Requests : Follows(p)
        BY <3>1, PlainFollows DEF CacheInv
      <3> QED
        BY <3>1, <3>2, SameFollow, SteadyPasswords
    <2>2. CASE CreateUser(q) \/ AcceptInvitationTx(q)
      <3>1. /\ UNCHANGED <<tokens, resets, lost, unsettled>> /\ Done(q)
            /\ req[q].op # "idle" /\ Head(req[q].steps) \notin {"closeResets", "revokeSnapshot"}
        BY <2>2 DEF CreateUser, AcceptInvitationTx, At
      <3>2. Ids \subseteq Ids' /\ \A u \in Ids : users'[u] = users[u]
        <4>1. CASE CreateUser(q)
          <5>1. BootstrapEmail \in Emails /\ "super_admin" \in Roles
            BY IdentityAssumption DEF Roles
          <5>2. \/ \E p \in Passwords : Insert(User(BootstrapEmail, p, "super_admin"))
                \/ UNCHANGED <<users, intent>>
            BY <4>1 DEF CreateUser
          <5> QED
            BY <5>1, <5>2, InsertTyped DEF CacheInv
        <4>2. CASE AcceptInvitationTx(q)
          BY <4>2, Joined DEF CacheInv
        <4> QED
          BY <2>2, <4>1, <4>2
      <3>3. RowsFollow
        BY <3>1, <3>2 DEF RowsFollow
      <3>4. \A p \in Requests : Follows(p)
        BY <3>1, PlainFollows DEF CacheInv
      <3> QED
        BY <3>1, <3>3, <3>4, SameFollow, SteadyPasswords
    <2> QED
      BY <1>3, <2>1, <2>2, LookupSteady, EvictSteady, WriteSteady, TokensSteady, ResetsSteady,
         ResetsClose, SnapshotTaken, SessionsRevoked DEF Step
  <1>4. ASSUME NEW q \in Requests, Fail(q) \/ \E r \in Replicas : Arrival(q, r)
        PROVE  Closing' /\ PasswordClosesSessions'
    <2>1. UNCHANGED <<users, tokens, resets, lost, unsettled>>
      BY <1>4, Arriving DEF Fail, rows, CacheInv
    <2>2. \E n : /\ req' = [req EXCEPT ![q] = n]
                 /\ n = Idle \/ Head(n.steps) \notin {"revokeSnapshot", "revokeAll"}
      <3>1. CASE Fail(q)
        BY <3>1 DEF Fail, Refuse
      <3>2. ASSUME NEW r \in Replicas, Arrival(q, r)
            PROVE  \E n : req' = [req EXCEPT ![q] = n] /\ Head(n.steps) \notin {"revokeSnapshot", "revokeAll"}
        <4>1. PICK n : req' = [req EXCEPT ![q] = n] /\ Head(n.steps) \notin Holds
          BY <3>2, Arriving DEF CacheInv
        <4> QED
          BY <4>1 DEF Holds
      <3> QED
        BY <1>4, <3>1, <3>2
    <2>3. \A p \in Requests : Follows(p)
      BY <2>2, MoverFollows DEF CacheInv
    <2> QED
      BY <2>1, <2>3, SameFollow, SteadyPasswords
  <1>5. ASSUME NEW r \in Replicas, Restart(r) \/ \E u \in Ids : CacheExpires(r, u)
        PROVE  Closing' /\ PasswordClosesSessions'
    <2>1. UNCHANGED <<users, tokens, resets, lost, unsettled>>
      BY <1>5 DEF Restart, CacheExpires, rows
    <2>2. \A p \in Requests : req'[p] = req[p] \/ req'[p] = Idle
      BY <1>5 DEF Restart, CacheExpires
    <2>3. \A p \in Requests : Follows(p)
      BY <2>2 DEF Follows
    <2> QED
      BY <2>1, <2>3, SameFollow, SteadyPasswords
  <1> QED
    BY <1>1, <1>2, <1>3, <1>4, <1>5 DEF Next

LEMMA InitCloses == Init => PasswordInv
  <1> SUFFICES ASSUME Init PROVE PasswordInv
    OBVIOUS
  <1>1. tokens = << >> /\ resets = << >> /\ \A p \in Requests : req[p] = Idle
    BY DEF Init
  <1>2. DOMAIN tokens = {} /\ DOMAIN resets = {}
    BY <1>1
  <1>3. PasswordClosesSessions
    BY <1>2 DEF PasswordClosesSessions
  <1>4. Closing
    BY <1>1 DEF Closing
  <1> QED
    BY <1>3, <1>4, InitCoherent DEF PasswordInv

(* Once a password change or reset has gone through, no session granted and   *)
(* no reset requested under the old password is left, but for sessions       *)
(* stored after the revocation looked (AuthService.ChangePassword,           *)
(* ResetPassword, IdentityRepository.RevokeAllRefreshTokens).               *)
THEOREM PasswordsClose == Spec => []PasswordClosesSessions
  <1>1. PasswordInv /\ [Next]_vars => PasswordInv'
    BY StepCloses
  <1>2. PasswordInv => PasswordClosesSessions
    BY DEF PasswordInv
  <1> QED
    BY <1>1, <1>2, InitCloses, PTL DEF Spec

-----------------------------------------------------------------------------
(* Profile images. *)

(* Users come without an image, go for good, and change their image only by   *)
(* an upload or with the loss recorded.                                     *)
ImagesFollow ==
    /\ Ids \subseteq Ids' /\ lost \subseteq lost' /\ mixed \subseteq mixed'
    /\ \A u \in Ids' \ Ids : users'[u].row.image = NoImage
    /\ \A u \in Ids :
          /\ users[u].deleted => users'[u].deleted
          /\ \/ users'[u].row.image = users[u].row.image
             \/ u \in lost'
             \/ \E q \in Requests : /\ req[q] # Idle /\ req[q].op = "image" /\ req[q].u = u
                                    /\ users'[u].row.image = req[q].x

(* What is newly orphaned is neither shown nor being uploaded. *)
RefsFollow ==
    \A k \in DOMAIN refs :
        /\ k \in DOMAIN refs' /\ refs'[k].u = refs[k].u
        /\ refs'[k].state = "orphaned" =>
              \/ refs[k].state = "orphaned" \/ users[refs[k].u].deleted \/ refs[k].u \in mixed
              \/ /\ refs[k].u \in lost \/ users[refs[k].u].row.image # k
                 /\ \A p \in Requests :
                       req[p] # Idle /\ req[p].op = "image" /\ req[p].u = refs[k].u => req[p].x # k

(* Request p is no new upload or deletion, and is past its write only if it   *)
(* was or has just written.                                                 *)
ItemFollows(p) ==
    req'[p] # Idle /\ req'[p].op \in {"image", "remove"} =>
        /\ req[p] # Idle /\ req[p].op = req'[p].op /\ req[p].x = req'[p].x /\ req[p].u = req'[p].u
        /\ Head(req'[p].steps) \in Written =>
              \/ Head(req[p].steps) \in Written
              \/ /\ req[p].op = "image"
                 /\ users'[req[p].u].row.image = req[p].x \/ req[p].u \in lost'
              \/ req[p].op = "remove" /\ users'[req[p].u].deleted

(* An upload or a deletion is about a user there is. *)
LEMMA ItemUser ==
    ASSUME Typed, NEW p \in Requests, req[p] # Idle, req[p].op \in {"image", "remove"}
    PROVE  req[p].u \in Ids
  BY AtWork DEF Typed, Bound, Userless

LEMMA ImagesSteady ==
    ASSUME ImageInv, ImagesFollow, RefsFollow
    PROVE  /\ \A u \in Ids' : ShownAt(u)'
           /\ \A p \in Requests : ItemFollows(p) => UploadAt(p)' /\ RemovalAt(p)'
           /\ (\A p \in Requests : ItemFollows(p)) => Alone'
  <1> USE DEF ImageInv
  <1>0. Typed
    BY DEF CacheInv
  (* A key that is shown or uploaded keeps its state. *)
  <1>1. ASSUME NEW p \in Requests, req[p] # Idle, req[p].op = "image"
        PROVE  /\ req[p].x \in DOMAIN refs' /\ refs'[req[p].x].u = req[p].u /\ req[p].u \in Ids
               /\ \/ req[p].u \in mixed' \/ users'[req[p].u].deleted
                  \/ refs'[req[p].x].state # "orphaned"
    <2>1. /\ req[p].x \in DOMAIN refs /\ refs[req[p].x].u = req[p].u
          /\ \/ req[p].u \in mixed \/ users[req[p].u].deleted
             \/ refs[req[p].x].state # "orphaned"
      BY <1>1 DEF UploadAt
    <2>2. req[p].u \in Ids
      BY <1>0, <1>1, ItemUser
    <2>3. /\ mixed \subseteq mixed'
          /\ users[req[p].u].deleted => users'[req[p].u].deleted
      BY <2>2 DEF ImagesFollow
    <2> QED
      BY <1>1, <2>1, <2>2, <2>3 DEF RefsFollow
  <1>2. ASSUME NEW u \in Ids'
        PROVE  ShownAt(u)'
    <2> SUFFICES ASSUME u \notin lost' \cup mixed', ~users'[u].deleted, users'[u].row.image # NoImage,
                        NEW k, k = users'[u].row.image
                 PROVE  k \in DOMAIN refs' /\ refs'[k].u = u /\ refs'[k].state # "orphaned"
      BY DEF ShownAt
    <2>1. u \in Ids /\ u \notin lost \cup mixed /\ ~users[u].deleted
      BY <1>2 DEF ImagesFollow
    <2>2. CASE k = users[u].row.image
      <3>1. k \in DOMAIN refs /\ refs[k].u = u /\ refs[k].state # "orphaned"
        BY <2>1, <2>2 DEF ShownAt
      <3> QED
        BY <2>1, <2>2, <3>1 DEF RefsFollow
    <2>3. ASSUME NEW q \in Requests, req[q] # Idle, req[q].op = "image", req[q].u = u, k = req[q].x
          PROVE  k \in DOMAIN refs' /\ refs'[k].u = u /\ refs'[k].state # "orphaned"
      BY <1>1, <2>3
    <2> QED
      BY <2>1, <2>2, <2>3 DEF ImagesFollow
  <1>3. ASSUME NEW p \in Requests, ItemFollows(p)
        PROVE  UploadAt(p)'
    <2> SUFFICES ASSUME req'[p] # Idle, req'[p].op = "image"
                 PROVE  /\ req'[p].x \in DOMAIN refs' /\ refs'[req'[p].x].u = req'[p].u
                        /\ \/ req'[p].u \in mixed' \/ users'[req'[p].u].deleted
                           \/ refs'[req'[p].x].state # "orphaned"
                        /\ Head(req'[p].steps) \in Written /\ req'[p].u \notin lost' \cup mixed' =>
                              users'[req'[p].u].row.image = req'[p].x
      BY DEF UploadAt
    <2>1. PICK u, x : u = req[p].u /\ x = req[p].x
      OBVIOUS
    <2>2. /\ req[p] # Idle /\ req[p].op = "image" /\ req'[p].x = x /\ req'[p].u = u
          /\ Head(req'[p].steps) \in Written =>
                Head(req[p].steps) \in Written \/ users'[u].row.image = x \/ u \in lost'
      BY <1>3, <2>1 DEF ItemFollows
    <2>3. /\ x \in DOMAIN refs' /\ refs'[x].u = u /\ u \in Ids
          /\ u \in mixed' \/ users'[u].deleted \/ refs'[x].state # "orphaned"
      BY <1>1, <2>1, <2>2
    <2>4. ASSUME Head(req[p].steps) \in Written, u \notin lost', u \notin mixed'
          PROVE  users'[u].row.image = x
      <3>1. users[u].row.image = x
        BY <2>1, <2>2, <2>4 DEF UploadAt, ImagesFollow
      <3>2. ASSUME NEW q \in Requests, req[q] # Idle, req[q].op = "image", req[q].u = u
            PROVE  req[q].x = x
        <4>1. u \notin mixed
          BY <2>4 DEF ImagesFollow
        <4> QED
          BY <2>1, <2>2, <3>2, <4>1 DEF Alone
      <3> QED
        BY <2>3, <2>4, <3>1, <3>2 DEF ImagesFollow
    <2> QED
      BY <2>2, <2>3, <2>4
  <1>4. ASSUME NEW p \in Requests, ItemFollows(p)
        PROVE  RemovalAt(p)'
    <2> SUFFICES ASSUME req'[p] # Idle, req'[p].op = "remove", Head(req'[p].steps) \in Written
                 PROVE  users'[req'[p].u].deleted
      BY DEF RemovalAt
    <2>1. /\ req[p] # Idle /\ req[p].op = "remove" /\ req'[p].u = req[p].u
          /\ Head(req[p].steps) \in Written \/ users'[req[p].u].deleted
      BY <1>4 DEF ItemFollows
    <2>2. req[p].u \in Ids
      BY <1>0, <2>1, ItemUser
    <2> QED
      BY <2>1, <2>2 DEF RemovalAt, ImagesFollow
  <1>5. ASSUME \A p \in Requests : ItemFollows(p)
        PROVE  Alone'
    <2> SUFFICES ASSUME NEW p \in Requests, NEW q \in Requests, p # q, req'[p] # Idle, req'[q] # Idle,
                        req'[p].op = "image", req'[q].op = "image", req'[p].u = req'[q].u
                 PROVE  req'[p].u \in mixed'
      BY DEF Alone
    <2>1. /\ req[p] # Idle /\ req[p].op = "image" /\ req'[p].u = req[p].u
          /\ req[q] # Idle /\ req[q].op = "image" /\ req'[q].u = req[q].u
      BY <1>5 DEF ItemFollows
    <2>2. req[p].u = req[q].u
      BY <2>1
    <2>3. req[p].u \in mixed
      BY <2>1, <2>2 DEF Alone
    <2> QED
      BY <2>1, <2>3 DEF ImagesFollow
  <1> QED
    BY <1>2, <1>3, <1>4, <1>5

LEMMA AllItems ==
    ASSUME ImageInv, ImagesFollow, RefsFollow, \A p \in Requests : ItemFollows(p), CacheInv'
    PROVE  ImageInv'
  <1>1. /\ \A u \in Ids' : ShownAt(u)'
        /\ \A p \in Requests : UploadAt(p)' /\ RemovalAt(p)'
        /\ Alone'
    BY ImagesSteady
  <1> QED
    BY <1>1 DEF ImageInv

LEMMA SameImages ==
    /\ UNCHANGED refs => RefsFollow
    /\ UNCHANGED <<users, lost, mixed>> => ImagesFollow
  BY DEF RefsFollow, ImagesFollow, Ids

LEMMA MoverItems ==
    ASSUME Typed, NEW q \in Requests, NEW n, req' = [req EXCEPT ![q] = n], req[q] # Idle,
           \/ n = Idle
           \/ /\ n.op = req[q].op /\ n.x = req[q].x /\ n.u = req[q].u
              /\ Head(n.steps) \in Written => Head(req[q].steps) \in Written
    PROVE  \A p \in Requests : ItemFollows(p)
  BY DEF Typed, Working, ItemFollows

(* Statements other than a write of the user. *)
LEMMA PlainItems ==
    ASSUME Typed, NEW q \in Requests, req[q].op # "idle", Done(q) \/ Refuse(q),
           Head(req[q].steps) \notin {"update", "delete"}
    PROVE  \A p \in Requests : ItemFollows(p)
  <1> PICK r : r = req[q]
    OBVIOUS
  <1>1. PICK n : /\ req' = [req EXCEPT ![q] = n]
                 /\ n = Idle \/ /\ Tail(r.steps) # << >>
                                /\ n = [r EXCEPT !.steps = Tail(r.steps)]
                                /\ n.steps = Tail(r.steps)
    BY DoneOrRefused
  <1>2. r # Idle /\ r \in Tasks
    BY DoneOrRefused
  <1>3. n = Idle \/ (n.op = r.op /\ n.x = r.x /\ n.u = r.u)
    BY <1>1, <1>2 DEF Tasks
  <1>4. ASSUME n # Idle, Head(n.steps) \in Written
        PROVE  Head(r.steps) \in Written
    <2>1. /\ Head(Tail(r.steps)) # "evict"
          /\ Head(Tail(r.steps)) = "track" => Head(r.steps) = "evict"
          /\ Head(Tail(r.steps)) = "orphan" => Head(r.steps) \in {"evict", "track"}
      BY <1>1, <1>2, <1>4, NextHead
    <2> QED
      BY <1>1, <1>4, <2>1 DEF Written
  <1> QED
    BY <1>1, <1>2, <1>3, <1>4, MoverItems

LEMMA TrackSteady ==
    ASSUME ImageInv, NEW q \in Requests, TrackObject(q), CacheInv'
    PROVE  ImageInv'
  <1> USE DEF ImageInv, CacheInv
  <1> PICK r : r = req[q]
    OBVIOUS
  <1>1. r # Idle /\ r \in Tasks /\ Bound(r) /\ Head(r.steps) = "track" /\ r.op # "idle"
    BY AtWork DEF TrackObject, At, Typed
  <1>2. r.op = "image"
    <2>1. 1 \in 1 .. Len(r.steps) /\ Head(r.steps) = r.steps[1]
      BY <1>1 DEF Tasks, Bound
    <2> QED
      BY <1>1, <2>1 DEF Bound, Staged
  <1>3. r.x \in DOMAIN refs /\ refs[r.x].u = r.u
    BY <1>1, <1>2 DEF UploadAt
  <1>4. PICK e : e = [state |-> "active", u |-> r.u]
    OBVIOUS
  <1>5. e.u = r.u /\ e.state # "orphaned"
    BY <1>4
  <1>6. refs' = [refs EXCEPT ![r.x] = e]
    BY <1>4 DEF TrackObject
  <1>7. RefsFollow
    BY <1>3, <1>5, <1>6 DEF RefsFollow
  <1>8. UNCHANGED <<users, lost, mixed>> /\ (Done(q) \/ Refuse(q))
    BY DEF TrackObject, ghosts
  <1>9. \A p \in Requests : ItemFollows(p)
    BY <1>1, <1>8, PlainItems
  <1> QED
    BY <1>7, <1>8, <1>9, SameImages, AllItems

(* An upload orphans the user's other images; a deletion all of them. *)
LEMMA OrphanSteady ==
    ASSUME ImageInv, NEW q \in Requests, OrphanObjectsFor(q), CacheInv'
    PROVE  ImageInv'
  <1> USE DEF ImageInv, CacheInv
  <1> PICK r : r = req[q]
    OBVIOUS
  <1>1. r # Idle /\ r \in Tasks /\ Bound(r) /\ Head(r.steps) = "orphan" /\ r.op # "idle"
    BY AtWork DEF OrphanObjectsFor, At, Typed
  <1>2. r.op \in {"image", "remove"}
    <2>1. 1 \in 1 .. Len(r.steps) /\ Head(r.steps) = r.steps[1]
      BY <1>1 DEF Tasks, Bound
    <2> QED
      BY <1>1, <2>1 DEF Bound, Staged
  <1>3. \A k \in DOMAIN refs : refs[k] \in References
    BY DEF Typed, Tables
  <1>4. PICK f : /\ refs' = f
                 /\ f = [k \in DOMAIN refs |->
                           IF refs[k] = [state |-> "active", u |-> r.u] /\ k # r.x
                           THEN [refs[k] EXCEPT !.state = "orphaned"] ELSE refs[k]]
    BY DEF OrphanObjectsFor, Keep
  <1>5. ASSUME NEW k \in DOMAIN refs
        PROVE  /\ k \in DOMAIN f /\ f[k].u = refs[k].u
               /\ f[k].state = "orphaned" =>
                     refs[k].state = "orphaned" \/ (refs[k].u = r.u /\ k # r.x)
    BY <1>3, <1>4 DEF References
  <1>6. ASSUME NEW k \in DOMAIN refs, refs[k].u = r.u, k # r.x
        PROVE  \/ users[refs[k].u].deleted \/ refs[k].u \in mixed
               \/ /\ refs[k].u \in lost \/ users[refs[k].u].row.image # k
                  /\ \A p \in Requests :
                        req[p] # Idle /\ req[p].op = "image" /\ req[p].u = refs[k].u => req[p].x # k
    <2>1. CASE r.op = "remove"
      <3>1. users[r.u].deleted
        BY <1>1, <2>1 DEF RemovalAt, Written
      <3> QED
        BY <1>6, <3>1
    <2>2. CASE r.op = "image" /\ r.u \notin mixed
      <3>1. r.u \in lost \/ users[r.u].row.image = r.x
        BY <1>1, <2>2 DEF UploadAt, Written
      <3>2. \A p \in Requests : req[p] # Idle /\ req[p].op = "image" /\ req[p].u = r.u => p = q
        BY <1>1, <2>2 DEF Alone
      <3> QED
        BY <1>6, <3>1, <3>2
    <2> QED
      BY <1>2, <1>6, <2>1, <2>2
  <1>7. RefsFollow
    BY <1>4, <1>5, <1>6 DEF RefsFollow
  <1>8. UNCHANGED <<users, lost, mixed>> /\ Done(q)
    BY DEF OrphanObjectsFor, ghosts
  <1>9. \A p \in Requests : ItemFollows(p)
    BY <1>1, <1>8, PlainItems
  <1> QED
    BY <1>7, <1>8, <1>9, SameImages, AllItems

LEMMA WriteShows ==
    ASSUME ImageInv, NEW q \in Requests, WriteUser(q) \/ Delete(q), CacheInv'
    PROVE  ImageInv'
  <1> USE DEF ImageInv, CacheInv
  <1> PICK t : t = req[q]
    OBVIOUS
  <1>1. CASE /\ UNCHANGED <<rows, cache, arriving, faults, ghosts>>
             /\ req' = [req EXCEPT ![q] = Idle]
    <2>1. UNCHANGED <<users, refs, lost, mixed>>
      BY <1>1 DEF rows, ghosts
    <2>2. req[q] # Idle
      BY AtWork DEF WriteUser, Delete, At, Typed
    <2>3. \A p \in Requests : ItemFollows(p)
      BY <1>1, <2>2, MoverItems
    <2> QED
      BY <2>1, <2>3, SameImages, AllItems
  <1>2. CASE /\ Removes(q) \/ \E row \in Changes(q, Wanted(q)) : Stores(q, row)
             /\ UNCHANGED <<refs, mixed>>
             /\ \E n : /\ \/ n = Advance(req[q])
                          \/ req[q].op = "manage" /\ At(q, "update") /\ n = Advance(WithoutMail(req[q]))
                       /\ req' = [Overtaking(q, req) EXCEPT ![q] = n]
    <2>1. PICK n : /\ \/ n = Advance(req[q])
                      \/ req[q].op = "manage" /\ At(q, "update") /\ n = Advance(WithoutMail(req[q]))
                   /\ req' = [Overtaking(q, req) EXCEPT ![q] = n]
      BY <1>2
    <2>2. At(q, "update") \/ At(q, "delete")
      BY <1>2 DEF Stores, Removes
    <2>3. /\ n = [t EXCEPT !.steps = n.steps] /\ t \in Tasks /\ t.u \in Ids /\ t # Idle
          /\ Head(n.steps) = "evict" /\ (n.steps = Tail(t.steps) \/ t.op = "manage")
      BY <2>1, <2>2, ThenEvict, AtWork DEF Typed
    <2>4. req'[q] = n /\ n.op = t.op /\ n.x = t.x /\ n.u = t.u
      <3>1. req'[q] = n
        BY <2>1, Others DEF Typed
      <3> QED
        BY <2>3, <3>1 DEF Tasks
    <2>5. Head(t.steps) = "update" => t.op # "remove"
      <3>1. CASE t.op = "remove"
        <4>1. Tail(t.steps) # << >>
          <5>1. t.steps \in Seq(Statements) /\ t.steps # << >> /\ Sound(t.steps, t.op)
                /\ 1 \in 1 .. Len(t.steps) /\ t.steps[1] = Head(t.steps)
            BY <2>3, AtWork DEF Typed, Tasks, Bound
          <5>2. 1 < Len(t.steps)
            BY <2>2, <5>1 DEF Sound, At
          <5> QED
            BY <5>1, <5>2, SoundTail
        <4>2. Head(Tail(t.steps)) = "evict"
          BY <2>3, <3>1
        <4> QED
          BY <2>3, <3>1, <4>1, <4>2, NextHead
      <3> QED
        BY <3>1
    <2>6. ASSUME NEW p \in Requests \ {q}
          PROVE  ItemFollows(p)
      <3>1. /\ req'[p] # Idle <=> req[p] # Idle
            /\ req[p] # Idle => /\ req'[p].op = req[p].op /\ req'[p].steps = req[p].steps
                                /\ req'[p].u = req[p].u /\ req'[p].x = req[p].x
        BY <2>1, Bystanders
      <3> QED
        BY <3>1 DEF ItemFollows
    <2>7. CASE Removes(q)
      <3>1. /\ Ids' = Ids /\ lost' = lost /\ users'[t.u].deleted
            /\ \A v \in Ids : /\ users'[v].row = users[v].row
                              /\ users[v].deleted => users'[v].deleted
        BY <2>7, RemovedRow DEF Removes
      <3>2. ImagesFollow
        BY <1>2, <3>1 DEF ImagesFollow
      <3>3. t.op = "remove"
        <4>1. t.steps \in Seq(Statements) /\ 1 \in 1 .. Len(t.steps) /\ Head(t.steps) = t.steps[1]
              /\ Staged(t.steps, t.op)
          BY <2>3, AtWork DEF Typed, Tasks, Bound
        <4>2. t.steps[1] = "delete"
          BY <2>7, <4>1 DEF Removes, At
        <4> QED
          BY <4>1, <4>2 DEF Staged
      <3>4. ItemFollows(q)
        BY <2>3, <2>4, <3>1, <3>3 DEF ItemFollows
      <3>5. \A p \in Requests : ItemFollows(p)
        BY <2>6, <3>4
      <3> QED
        BY <1>2, <3>2, <3>5, SameImages, AllItems
    <2>8. ASSUME NEW row \in Changes(q, Wanted(q)), Stores(q, row)
          PROVE  ImageInv'
      <3>1. /\ Ids' = Ids /\ users'[t.u] = [row |-> row, deleted |-> FALSE]
            /\ \A v \in Ids : v # t.u => users'[v] = users[v]
        BY <2>8, StoredRow
      <3>2. /\ At(q, "update") /\ ~users[t.u].deleted
            /\ lost' = IF t.overtaken THEN lost \cup {t.u} ELSE lost
        BY <2>8 DEF Stores
      <3>3. row.image = IF t.op = "image" THEN t.x ELSE t.read.image
        BY <3>2, RowWritten
      <3>4. \/ users'[t.u].row.image = users[t.u].row.image
            \/ t.u \in lost'
            \/ t.op = "image" /\ users'[t.u].row.image = t.x
        <4>1. CASE t.op = "image" \/ t.overtaken
          BY <3>1, <3>2, <3>3, <4>1
        <4>2. CASE t.op # "image" /\ ~t.overtaken
          <5>1. t.read = GetUser(t.u)
            BY <2>3, <3>2, <4>2 DEF Fresh, At, Uses
          <5> QED
            BY <3>1, <3>2, <3>3, <4>2, <5>1 DEF GetUser
        <4> QED
          BY <4>1, <4>2
      <3>5. ImagesFollow
        BY <1>2, <2>3, <3>1, <3>2, <3>4 DEF ImagesFollow
      <3>6. ItemFollows(q)
        <4>1. t.op # "remove"
          BY <2>5, <3>2 DEF At
        <4>2. t.op = "image" => users'[t.u].row.image = t.x
          BY <3>1, <3>3
        <4> QED
          BY <2>3, <2>4, <4>1, <4>2 DEF ItemFollows
      <3>7. \A p \in Requests : ItemFollows(p)
        BY <2>6, <3>6
      <3> QED
        BY <1>2, <3>5, <3>7, SameImages, AllItems
    <2> QED
      BY <1>2, <2>7, <2>8
  <1> QED
    BY <1>1, <1>2, Writing

LEMMA LookupItems ==
    ASSUME Typed, NEW q \in Requests, GetUserByID(q) \/ RevokeSnapshot(q)
    PROVE  \A p \in Requests : ItemFollows(p)
  <1> PICK r : r = req[q]
    OBVIOUS
  <1>1. r # Idle /\ r \in Tasks /\ Bound(r) /\ Head(r.steps) \in {"lookup", "revokeSnapshot"}
    BY AtWork DEF GetUserByID, RevokeSnapshot, At, Typed
  <1>2. /\ r.steps \in Seq(Statements) /\ r.steps # << >> /\ Sound(r.steps, r.op)
        /\ Staged(r.steps, r.op) /\ r.steps[1] = Head(r.steps) /\ Tail(r.steps) # << >>
    <2>1. /\ r.steps \in Seq(Statements) /\ Sound(r.steps, r.op) /\ r.steps # << >>
          /\ Staged(r.steps, r.op) /\ 1 \in 1 .. Len(r.steps) /\ r.steps[1] = Head(r.steps)
      BY <1>1 DEF Tasks, Bound
    <2>2. 1 < Len(r.steps)
      BY <1>1, <2>1 DEF Sound
    <2> QED
      BY <2>1, <2>2, SoundTail
  <1>3. Head(Tail(r.steps)) \notin Written
    BY <1>1, <1>2, NextHead DEF Written
  <1>4. Head(r.steps) = "lookup" => Head(<<"fill">> \o Tail(r.steps)) \notin Written
    BY <1>2, SoundFill DEF Written
  <1>5. \E n : /\ req' = [req EXCEPT ![q] = n]
               /\ \/ n = Idle
                  \/ /\ n.op = r.op /\ n.x = r.x /\ n.u = r.u
                     /\ Head(n.steps) \notin Written
    <2>1. CASE GetUserByID(q)
      <3>1. PICK n : req' = [req EXCEPT ![q] = n] /\ n =
              IF Entry(r.rep, r.u).found
              THEN [r EXCEPT !.steps = Tail(r.steps), !.read = Entry(r.rep, r.u),
                             !.overtaken = <<r.rep, r.u>> \in exposed \/ Unevicted(r.rep, r.u)]
              ELSE IF GetUser(r.u).found
              THEN [r EXCEPT !.steps = <<"fill">> \o Tail(r.steps), !.read = GetUser(r.u),
                             !.overtaken = FALSE]
              ELSE Idle
        BY <2>1 DEF GetUserByID
      <3>2. \/ n = Idle
            \/ /\ n.op = r.op /\ n.x = r.x /\ n.u = r.u
               /\ n.steps = Tail(r.steps) \/ n.steps = <<"fill">> \o Tail(r.steps)
        BY <1>1, <3>1 DEF Tasks
      <3>3. Head(r.steps) = "lookup"
        BY <2>1 DEF GetUserByID, At
      <3> QED
        BY <1>3, <1>4, <3>1, <3>2, <3>3
    <2>2. CASE RevokeSnapshot(q)
      <3>1. PICK n : /\ req' = [req EXCEPT ![q] = n]
                     /\ n = [r EXCEPT !.steps = Tail(r.steps),
                           !.snap = {t \in DOMAIN tokens : tokens[t].u = req[q].u /\ tokens[t].live}]
        BY <2>2 DEF RevokeSnapshot
      <3>2. n.op = r.op /\ n.x = r.x /\ n.u = r.u /\ n.steps = Tail(r.steps)
        BY <1>1, <3>1 DEF Tasks
      <3> QED
        BY <1>3, <3>1, <3>2
    <2> QED
      BY <2>1, <2>2
  <1> QED
    BY <1>1, <1>5, MoverItems

(* An upload comes with a key nobody else has. *)
LEMMA UploadArrives ==
    ASSUME ImageInv, NEW q \in Requests, NEW r \in Replicas, Arrival(q, r), CacheInv'
    PROVE  ImageInv'
  <1> USE DEF ImageInv, CacheInv
  <1>1. /\ UNCHANGED <<users, lost>> /\ req[q] = Idle
    BY Arriving
  <1>2. PICK op, u, x, n :
           /\ op \in OpNames /\ Arrive(q, op, r, u, x)
           /\ req' = [req EXCEPT ![q] = n]
           /\ n = [op |-> op, steps |-> Program[op], rep |-> r, u |-> u, x |-> x,
                   read |-> Nothing, overtaken |-> FALSE, snap |-> {}]
           /\ Head(n.steps) \notin Holds
    BY Arriving
  <1>3. /\ req'[q] = n /\ n.op = op /\ n.u = u /\ n.x = x
        /\ \A p \in Requests \ {q} : req'[p] = req[p]
        /\ Head(n.steps) \notin Written
    BY <1>2 DEF Typed, Working, Written, Holds
  <1>4. \A p \in Requests \ {q} : ItemFollows(p)
    BY <1>3 DEF ItemFollows
  <1>5. RemovalAt(q)'
    BY <1>3 DEF RemovalAt
  <1>6. CASE UNCHANGED <<refs, mixed>> /\ op # "image"
    <2>1. RefsFollow /\ ImagesFollow
      BY <1>1, <1>6, SameImages
    <2>3. UploadAt(q)'
      BY <1>3, <1>6 DEF UploadAt
    <2>4. \A p \in Requests : UploadAt(p)' /\ RemovalAt(p)'
      BY <1>4, <1>5, <2>1, <2>3, ImagesSteady
    <2>5. Alone'
      BY <1>3, <1>6 DEF Alone
    <2>6. \A v \in Ids' : ShownAt(v)'
      BY <2>1, ImagesSteady
    <2> QED
      BY <2>4, <2>5, <2>6
  <1>7. ASSUME NEW v \in Ids, ImageRequest(q, r, v)
        PROVE  ImageInv'
    <2>1. PICK e, k : e = [state |-> "none", u |-> v] /\ k = Len(refs) + 1
      OBVIOUS
    <2>2. /\ refs' = Append(refs, e) /\ e.u = v /\ e.state # "orphaned"
          /\ mixed' = IF \E p \in InFlight(v) : req[p].op = "image" THEN mixed \cup {v} ELSE mixed
      BY <1>7, <2>1 DEF ImageRequest
    <2>3. refs \in Seq(References) /\ e \in References
      <3>1. v \in Nat
        BY <1>7 DEF Typed, Tables, Ids
      <3> QED
        BY <2>1, <3>1 DEF References, Typed, Tables
    <2>4. /\ k \in DOMAIN refs' /\ refs'[k] = e
          /\ \A j \in DOMAIN refs : j \in DOMAIN refs' /\ refs'[j] = refs[j]
      BY <2>1, <2>2, <2>3, Appended
    <2>5. RefsFollow
      BY <2>4 DEF RefsFollow
    <2>6. ImagesFollow
      BY <1>1, <2>2 DEF ImagesFollow, Ids
    <2>7. u = v /\ x = k /\ op = "image"
      <3>1. PICK m : /\ req' = [req EXCEPT ![q] = m]
                     /\ m = [op |-> "image", steps |-> Program["image"], rep |-> r, u |-> v, x |-> k,
                             read |-> Nothing, overtaken |-> FALSE, snap |-> {}]
        BY <1>7, <2>1 DEF ImageRequest, Arrive
      <3>2. m.op = "image" /\ m.u = v /\ m.x = k
        BY <3>1
      <3>3. req'[q] = m
        BY <3>1 DEF Typed, Working
      <3> QED
        BY <1>3, <3>2, <3>3
    <2>8. UploadAt(q)'
      BY <1>3, <2>2, <2>4, <2>7 DEF UploadAt
    <2>9. Alone'
      <3> SUFFICES ASSUME NEW p \in Requests, NEW s \in Requests, p # s, req'[p] # Idle, req'[s] # Idle,
                          req'[p].op = "image", req'[s].op = "image", req'[p].u = req'[s].u
                   PROVE  req'[p].u \in mixed'
        BY DEF Alone
      <3>1. \A w \in Requests \ {q} : req'[w] = req[w]
        BY <1>3
      <3>2. ASSUME NEW w \in Requests \ {q}, req'[w] # Idle, req'[w].op = "image", req'[w].u = v
            PROVE  v \in mixed'
        <4>1. w \in InFlight(v) /\ req[w].op = "image"
          BY <3>1, <3>2 DEF InFlight
        <4> QED
          BY <2>2, <4>1
      <3>3. CASE p = q \/ s = q
        <4>1. req'[p].u = v /\ req'[s].u = v
          BY <1>3, <2>7, <3>3
        <4> QED
          BY <3>2, <3>3, <4>1
      <3>4. CASE p # q /\ s # q
        <4>1. req[p].u \in mixed
          BY <3>1, <3>4 DEF Alone
        <4> QED
          BY <2>2, <3>1, <3>4, <4>1
      <3> QED
        BY <3>3, <3>4
    <2>10. \A p \in Requests : UploadAt(p)' /\ RemovalAt(p)'
      BY <1>4, <1>5, <2>5, <2>6, <2>8, ImagesSteady
    <2>11. \A w \in Ids' : ShownAt(w)'
      BY <2>5, <2>6, ImagesSteady
    <2> QED
      BY <2>9, <2>10, <2>11
  <1>8. \/ UNCHANGED <<refs, mixed>> /\ op # "image"
        \/ \E v \in Ids : ImageRequest(q, r, v)
    <2>1. ASSUME NEW o, NEW v, NEW y, Arrive(q, o, r, v, y)
          PROVE  op = o
      <3>1. PICK m : /\ req' = [req EXCEPT ![q] = m]
                     /\ m = [op |-> o, steps |-> Program[o], rep |-> r, u |-> v, x |-> y,
                             read |-> Nothing, overtaken |-> FALSE, snap |-> {}]
        BY <2>1 DEF Arrive
      <3>2. m.op = o /\ req'[q] = m
        BY <3>1 DEF Typed, Working
      <3> QED
        BY <1>3, <3>2
    <2>2. ASSUME NEW v \in Ids, LoginRequest(q, r, v) \/ ForgotRequest(q, r, v)
          PROVE  UNCHANGED <<refs, mixed>> /\ op # "image"
      BY <2>1, <2>2 DEF LoginRequest, ForgotRequest, rows, ghosts
    <2>3. ASSUME NEW v \in Ids, NEW o \in Ops, UserRequest(q, o, r, v) \/ ManageRequest(q, o, r, v)
          PROVE  UNCHANGED <<refs, mixed>> /\ op # "image"
      BY <2>1, <2>3 DEF UserRequest, ManageRequest, rows, ghosts
    <2>4. ASSUME NEW t, RefreshRequest(q, r, t) \/ LogoutRequest(q, r, t) \/ ResetRequest(q, r, t)
                        \/ AcceptRequest(q, r, t)
          PROVE  UNCHANGED <<refs, mixed>> /\ op # "image"
      BY <2>1, <2>4 DEF RefreshRequest, LogoutRequest, ResetRequest, AcceptRequest, rows, ghosts
    <2>5. ASSUME NEW e, NEW role, InviteRequest(q, r, e, role) \/ BootstrapRequest(q, r)
          PROVE  UNCHANGED <<refs, mixed>> /\ op # "image"
      BY <2>1, <2>5 DEF InviteRequest, BootstrapRequest, rows, ghosts
    <2> QED
      BY <2>2, <2>3, <2>4, <2>5 DEF Arrival
  <1> QED
    BY <1>6, <1>7, <1>8

LEMMA StepShows ==
    ASSUME ImageInv, [Next]_vars
    PROVE  ImageInv'
  <1>0. CacheInv /\ Typed
    BY DEF ImageInv, CacheInv
  <1>1. CacheInv'
    BY <1>0, StepCoherent
  <1>2. CASE UNCHANGED vars
    <2>1. UNCHANGED <<users, refs, req, lost, mixed>>
      BY <1>2 DEF vars, rows, ghosts
    <2>2. \A p \in Requests : ItemFollows(p)
      BY <2>1 DEF ItemFollows
    <2> QED
      BY <1>1, <2>1, <2>2, SameImages, AllItems
  <1>3. ASSUME NEW q \in Requests, Step(q)
        PROVE  ImageInv'
    <2>1. CASE \/ Fill(q) \/ Admit(q) \/ Accept(q) \/ QueueNotification(q) \/ Evict(q)
               \/ CreatePasswordReset(q) \/ MarkPasswordResetUsed(q)
               \/ InvalidatePendingPasswordResets(q) \/ CreateInvitation(q)
               \/ CreateRefreshToken(q) \/ RotateRefreshToken(q) \/ RevokeRefreshToken(q)
               \/ RevokeAllRefreshTokens(q)
      <3>1. /\ UNCHANGED <<users, refs, lost, mixed>>
            /\ req[q].op # "idle" /\ Head(req[q].steps) \notin {"update", "delete"}
            /\ Done(q) \/ Refuse(q)
        BY <2>1 DEF Fill, Admit, Accept, QueueNotification, Evict, CreatePasswordReset,
                    MarkPasswordResetUsed, InvalidatePendingPasswordResets, CreateInvitation,
                    CreateRefreshToken, RotateRefreshToken, RevokeRefreshToken,
                    RevokeAllRefreshTokens, At, rows, ghosts
      <3>2. \A p \in Requests : ItemFollows(p)
        BY <1>0, <3>1, PlainItems
      <3> QED
        BY <1>1, <3>1, <3>2, SameImages, AllItems
    <2>2. CASE GetUserByID(q) \/ RevokeSnapshot(q)
      <3>1. UNCHANGED <<users, refs, lost, mixed>>
        BY <2>2 DEF GetUserByID, RevokeSnapshot, rows, ghosts
      <3>2. \A p \in Requests : ItemFollows(p)
        BY <1>0, <2>2, LookupItems
      <3> QED
        BY <1>1, <3>1, <3>2, SameImages, AllItems
    <2>3. CASE CreateUser(q) \/ AcceptInvitationTx(q)
      <3>1. /\ UNCHANGED <<refs, lost, mixed>> /\ Done(q)
            /\ req[q].op # "idle" /\ Head(req[q].steps) \notin {"update", "delete"}
        BY <2>3 DEF CreateUser, AcceptInvitationTx, At
      <3>2. /\ Ids \subseteq Ids' /\ \A u \in Ids : users'[u] = users[u]
            /\ \A u \in Ids' \ Ids : users'[u].row.image = NoImage
        <4>1. CASE CreateUser(q)
          <5>1. BootstrapEmail \in Emails /\ "super_admin" \in Roles
            BY IdentityAssumption DEF Roles
          <5>2. \/ \E p \in Passwords : Insert(User(BootstrapEmail, p, "super_admin"))
                \/ UNCHANGED <<users, intent>>
            BY <4>1 DEF CreateUser
          <5> QED
            BY <1>0, <5>1, <5>2, InsertTyped
        <4>2. CASE AcceptInvitationTx(q)
          BY <1>0, <4>2, Joined
        <4> QED
          BY <2>3, <4>1, <4>2
      <3>3. ImagesFollow
        BY <3>1, <3>2 DEF ImagesFollow
      <3>4. \A p \in Requests : ItemFollows(p)
        BY <1>0, <3>1, PlainItems
      <3> QED
        BY <1>1, <3>1, <3>3, <3>4, SameImages, AllItems
    <2> QED
      BY <1>1, <1>3, <2>1, <2>2, <2>3, TrackSteady, OrphanSteady, WriteShows DEF Step
  <1>4. ASSUME NEW q \in Requests, Fail(q)
        PROVE  ImageInv'
    <2>1. /\ UNCHANGED <<users, refs, lost, mixed>> /\ req' = [req EXCEPT ![q] = Idle]
          /\ req[q].op # "idle"
      BY <1>4 DEF Fail, Refuse, rows
    <2>2. req[q] # Idle
      BY <2>1 DEF Idle
    <2>3. \A p \in Requests : ItemFollows(p)
      BY <1>0, <2>1, <2>2, MoverItems
    <2> QED
      BY <1>1, <2>1, <2>3, SameImages, AllItems
  <1>5. ASSUME NEW r \in Replicas, Restart(r) \/ \E u \in Ids : CacheExpires(r, u)
        PROVE  ImageInv'
    <2>1. UNCHANGED <<users, refs, lost, mixed>>
      BY <1>5 DEF Restart, CacheExpires, rows
    <2>2. \A p \in Requests : req'[p] = req[p] \/ req'[p] = Idle
      BY <1>5 DEF Restart, CacheExpires
    <2>3. \A p \in Requests : ItemFollows(p)
      BY <2>2 DEF ItemFollows
    <2> QED
      BY <1>1, <2>1, <2>3, SameImages, AllItems
  <1> QED
    BY <1>1, <1>2, <1>3, <1>4, <1>5, UploadArrives DEF Next

LEMMA InitShows == Init => ImageInv
  <1> SUFFICES ASSUME Init PROVE ImageInv
    OBVIOUS
  <1>1. \A p \in Requests : req[p] = Idle
    BY DEF Init
  <1>2. Alone /\ \A p \in Requests : UploadAt(p) /\ RemovalAt(p)
    BY <1>1 DEF Alone, UploadAt, RemovalAt
  <1>3. PICK w \in Workloads :
           users = [u \in DOMAIN w.users |-> [row |-> w.users[u], deleted |-> FALSE]]
    BY DEF Init
  <1>4. \A u \in DOMAIN w.users : w.users[u].image = NoImage
    BY <1>3, IdentityAssumption
  <1>5. \A u \in Ids : ShownAt(u)
    BY <1>3, <1>4 DEF ShownAt, Ids
  <1> QED
    BY <1>2, <1>5, InitCoherent DEF ImageInv

(* The image a user shows is not given to the retention sweeper, unless two   *)
(* uploads of that user overlapped or an overtaken row was written           *)
(* (AuthService.UpdateProfileImage, DeleteUser).                            *)
THEOREM ShownImagesKept == Spec => []ShownImageKept
  <1>1. ImageInv /\ [Next]_vars => ImageInv'
    BY StepShows
  <1>2. ImageInv => ShownImageKept
    BY DEF ImageInv, ShownAt, ShownImageKept
  <1> QED
    BY <1>1, <1>2, InitShows, PTL DEF Spec

=============================================================================
