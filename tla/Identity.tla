------------------------------- MODULE Identity -------------------------------
(***************************************************************************)
(* Accounts and sessions: the operations of AuthService over the identity   *)
(* tables, and the per-replica cache in front of GetUserByID.               *)
(*                                                                         *)
(* Every operation is a sequence of statements that commit one by one; no   *)
(* transaction spans two of them.  An operation is therefore a list of      *)
(* steps (Program) that a request works off, and one action per kind of     *)
(* step says what the statement does.  A failed statement ends the request  *)
(* where it stands, with everything before it committed.                    *)
(*                                                                         *)
(* UpdateUser writes every column from the row the request read, and that   *)
(* row may come from the cache.  The variables under "history" record which *)
(* requests were overtaken, so that the properties can say what holds for   *)
(* the ones that were not.                                                  *)
(*                                                                         *)
(* An expired token, reset or invitation is refused at the first read, which *)
(* leaves the state as it was, so expiry needs no step of its own.          *)
(***************************************************************************)
EXTENDS Naturals, Sequences, FiniteSets

CONSTANTS
    Replicas,       \* processes, each with its own cache
    Requests,       \* requests in flight at once
    Emails, Passwords,
    Workloads,      \* the users there are at first and the requests that arrive
    MaxFaults,      \* bound on failed statements and restarts
    BootstrapEmail

NoImage == 0
Roles   == {"member", "admin", "super_admin"}

(* A row of identity.users. *)
UserRows ==
    [found : {TRUE}, email : Emails, pw : Passwords, role : Roles, blocked : BOOLEAN,
     prefs : BOOLEAN, image : Nat]

(* The users there are at first have no image yet. *)
ASSUME IdentityAssumption ==
    /\ BootstrapEmail \in Emails /\ MaxFaults \in Nat
    /\ \A w \in Workloads : /\ w.users \in Seq(UserRows)
                            /\ \A u \in DOMAIN w.users : w.users[u].image = NoImage

VARIABLES
    users,          \* identity.users; the id of a user is its index
    tokens,         \* identity.refresh_tokens
    resets,         \* identity.password_resets
    invitations,    \* identity.invitations
    refs,           \* files.object_references of profile images
    mail,           \* queued notifications: kind and recipient
    cache,          \* cached.IdentityRepository.users of each replica
    req,            \* what each request is doing
    arriving,       \* requests still to arrive, by operation
    faults,
    exposed,        \* history: entries a foreign write, a racing fill or a lost
                    \* acknowledgement left stale
    lost,           \* history: users written from a row that had been overtaken
    intent,         \* history: each column as its own operation last wrote it
    unsettled,      \* history: users whose new password has not revoked yet
    mixed           \* history: users whose image operations overlapped

rows   == <<users, tokens, resets, invitations, refs, mail>>
ghosts == <<exposed, lost, intent, unsettled, mixed>>
vars   == <<rows, cache, req, arriving, faults, ghosts>>

Ids      == DOMAIN users
Idle     == [op |-> "idle"]
Nothing  == [found |-> FALSE]           \* pgx.ErrNoRows, or no cache entry

Allows(role, permission) ==
    \/ role = "super_admin"
    \/ role = "admin" /\ permission # "audit:read"
    \/ role = "member" /\ permission \notin
          {"users:invite", "users:manage", "groups:manage", "audit:read"}

User(email, pw, role) ==
    [found |-> TRUE, email |-> email, pw |-> pw, role |-> role, blocked |-> FALSE,
     prefs |-> FALSE, image |-> NoImage]

(* GetUserByID and GetUserByEmail see no deleted row. *)
GetUser(u) == IF users[u].deleted THEN Nothing ELSE users[u].row

(* The unique index on email covers deleted rows as well. *)
EmailFree(e, u) == \A v \in Ids \ {u} : users[v].row.email # e

CountSuperAdmins ==
    Cardinality({u \in Ids : /\ ~users[u].deleted
                             /\ users[u].row.role = "super_admin"
                             /\ ~users[u].row.blocked})

-----------------------------------------------------------------------------
(* What each operation does, statement by statement, after the read that    *)
(* starts it.  "admit" is the blocked check of AuthenticateAccessToken and   *)
(* "accept" the operation's own check of the row it read.                   *)

\* Mutated form of UpdateUser: the entry is dropped before the row is written.
EvictFirst == <<"evict", "update">>

UpdateUser == <<"update", "evict">>
Authenticate == <<"lookup", "admit">>

Login        == <<"createToken">>
Refresh      == <<"lookup", "accept", "rotateToken">>
Logout       == <<"revokeToken">>
Invite       == <<"createInvitation", "mail">>
AcceptInvitation == <<"acceptInvitation">>
UpdateProfile == Authenticate \o <<"lookup", "accept">> \o UpdateUser
UpdateNotificationPreferences == Authenticate \o <<"lookup", "accept">> \o UpdateUser

\* Mutated form of ChangePassword: sessions are revoked before the new hash is stored.
RevokeFirst == Authenticate \o <<"lookup", "accept", "closeResets", "revokeSnapshot",
                                 "revokeAll">> \o UpdateUser
ChangePassword ==
    Authenticate \o <<"lookup", "accept">> \o UpdateUser
       \o <<"closeResets", "revokeSnapshot", "revokeAll">>
RequestPasswordReset == <<"createReset", "mail">>
ResetPassword ==
    <<"lookup", "accept">> \o UpdateUser
       \o <<"markUsed", "closeResets", "revokeSnapshot", "revokeAll">>
UpdateProfileImage ==
    Authenticate \o <<"lookup", "accept">> \o UpdateUser \o <<"track", "orphan">>
ManageUser   == <<"lookup", "accept">> \o UpdateUser \o <<"mail">>
DeleteUser   == <<"lookup", "accept", "delete", "evict", "orphan">>
EnsureBootstrapSuperAdmin == <<"createUser">>

Program ==
    [login |-> Login, refresh |-> Refresh, logout |-> Logout, invite |-> Invite,
     join |-> AcceptInvitation, profile |-> UpdateProfile,
     preferences |-> UpdateNotificationPreferences, password |-> ChangePassword,
     forgot |-> RequestPasswordReset, reset |-> ResetPassword,
     image |-> UpdateProfileImage, manage |-> ManageUser, remove |-> DeleteUser,
     me |-> Authenticate, bootstrap |-> EnsureBootstrapSuperAdmin]

Ops == DOMAIN Program
PasswordOps == {"password", "reset"}

(* The columns each operation means to change. *)
Columns(op) ==
    CASE op = "profile"     -> {"email"}
      [] op = "preferences" -> {"prefs"}
      [] op \in PasswordOps -> {"pw"}
      [] op = "image"       -> {"image"}
      [] op = "manage"      -> {"role", "blocked"}
      [] OTHER              -> {}

Init ==
    /\ \E w \in Workloads :
          /\ users = [u \in DOMAIN w.users |-> [row |-> w.users[u], deleted |-> FALSE]]
          /\ intent = w.users
          /\ arriving = w.arriving
    /\ tokens = <<>> /\ resets = <<>> /\ invitations = <<>> /\ refs = <<>> /\ mail = {}
    /\ cache = [r \in Replicas |-> <<>>]
    /\ req = [q \in Requests |-> Idle]
    /\ faults = 0
    /\ exposed = {} /\ lost = {} /\ unsettled = {} /\ mixed = {}

-----------------------------------------------------------------------------
(* The request table. *)

At(q, step)  == req[q].op # "idle" /\ Head(req[q].steps) = step
InFlight(u)  == {q \in Requests : req[q].op # "idle" /\ req[q].u = u}

(* The last statement of a program ends the request. *)
Advance(r)  == IF Tail(r.steps) = <<>> THEN Idle ELSE [r EXCEPT !.steps = Tail(@)]
Done(q)     == req' = [req EXCEPT ![q] = Advance(req[q])]
Refuse(q)   == req' = [req EXCEPT ![q] = Idle]

Entry(r, u) == IF u \in DOMAIN cache[r] THEN cache[r][u] ELSE Nothing
SetEntry(r, u, row) ==
    cache' = [cache EXCEPT ![r] = [v \in DOMAIN @ \cup {u} |-> IF v = u THEN row ELSE @[v]]]
DropEntry(r, u) ==
    cache' = [cache EXCEPT ![r] = [v \in DOMAIN @ \ {u} |-> @[v]]]

(* A request arrives at replica r for user u; x is the token, reset or       *)
(* invitation it presents.                                                  *)
Arrive(q, op, r, u, x) ==
    /\ req[q] = Idle
    /\ arriving[op] > 0
    /\ arriving' = [arriving EXCEPT ![op] = @ - 1]
    /\ req' = [req EXCEPT ![q] =
                  [op |-> op, steps |-> Program[op], rep |-> r, u |-> u, x |-> x,
                   read |-> Nothing, overtaken |-> FALSE, snap |-> {}]]

(* GetUserByEmail and the password comparison, or the refusal. *)
LoginRequest(q, r, u) ==
    /\ GetUser(u).found /\ ~GetUser(u).blocked
    /\ Arrive(q, "login", r, u, users[u].row.pw)
    /\ UNCHANGED <<rows, cache, faults, ghosts>>

RefreshRequest(q, r, t) ==
    /\ tokens[t].live
    /\ Arrive(q, "refresh", r, tokens[t].u, t)
    /\ UNCHANGED <<rows, cache, faults, ghosts>>

LogoutRequest(q, r, t) ==
    /\ Arrive(q, "logout", r, tokens[t].u, t)
    /\ UNCHANGED <<rows, cache, faults, ghosts>>

(* An administrator is needed; neither invitation nor change of role makes   *)
(* a super-admin.                                                           *)
Administered == \E a \in Ids : GetUser(a).found /\ ~GetUser(a).blocked
                               /\ Allows(GetUser(a).role, "users:manage")

InviteRequest(q, r, e, role) ==
    /\ Administered /\ role # "super_admin"
    /\ Arrive(q, "invite", r, 0, [email |-> e, role |-> role])
    /\ UNCHANGED <<rows, cache, faults, ghosts>>

AcceptRequest(q, r, i) ==
    /\ invitations[i].status = "pending"
    /\ Arrive(q, "join", r, 0, i)
    /\ UNCHANGED <<rows, cache, faults, ghosts>>

ForgotRequest(q, r, u) ==
    /\ GetUser(u).found /\ ~GetUser(u).blocked
    /\ Arrive(q, "forgot", r, u, 0)
    /\ UNCHANGED <<rows, cache, faults, ghosts>>

ResetRequest(q, r, x) ==
    /\ ~resets[x].used
    /\ Arrive(q, "reset", r, resets[x].u, x)
    /\ UNCHANGED <<rows, cache, faults, ghosts>>

(* The upload handler has stored the object under a new key. *)
ImageRequest(q, r, u) ==
    /\ Arrive(q, "image", r, u, Len(refs) + 1)
    /\ refs' = Append(refs, [state |-> "none", u |-> u])
    /\ mixed' = IF \E p \in InFlight(u) : req[p].op = "image" THEN mixed \cup {u} ELSE mixed
    /\ UNCHANGED <<users, tokens, resets, invitations, mail, cache, faults, exposed, lost,
                   intent, unsettled>>

UserRequest(q, op, r, u) ==
    /\ op \in {"profile", "preferences", "password", "me"}
    /\ Arrive(q, op, r, u, 0)
    /\ UNCHANGED <<rows, cache, faults, ghosts>>

ManageRequest(q, op, r, u) ==
    /\ op \in {"manage", "remove"} /\ Administered
    /\ Arrive(q, op, r, u, 0)
    /\ UNCHANGED <<rows, cache, faults, ghosts>>

(* At start-up, before the replica serves. *)
BootstrapRequest(q, r) ==
    /\ CountSuperAdmins = 0
    /\ Arrive(q, "bootstrap", r, 0, 0)
    /\ UNCHANGED <<rows, cache, faults, ghosts>>

-----------------------------------------------------------------------------
(* Reads through the cache. *)

(* The row read so far goes out of date when someone writes it meanwhile, or *)
(* when it is served from an entry that is already stale.                   *)
Unevicted(r, u) == \E p \in InFlight(u) : req[p].rep = r /\ At(p, "evict")

GetUserByID(q) ==
    LET r == req[q].rep  u == req[q].u  row == Entry(r, u)  rest == Tail(req[q].steps) IN
    /\ At(q, "lookup")
    /\ req' = [req EXCEPT ![q] =
          IF row.found
          THEN [req[q] EXCEPT !.steps = rest, !.read = row,
                              !.overtaken = <<r, u>> \in exposed \/ Unevicted(r, u)]
          ELSE IF GetUser(u).found
          THEN [req[q] EXCEPT !.steps = <<"fill">> \o rest, !.read = GetUser(u),
                              !.overtaken = FALSE]
          ELSE Idle]
    /\ UNCHANGED <<rows, cache, arriving, faults, ghosts>>

Fill(q) ==
    LET r == req[q].rep  u == req[q].u IN
    /\ At(q, "fill")
    /\ SetEntry(r, u, req[q].read)
    /\ exposed' = IF req[q].overtaken THEN exposed \cup {<<r, u>>} ELSE exposed \ {<<r, u>>}
    /\ Done(q)
    /\ UNCHANGED <<rows, arriving, faults, lost, intent, unsettled, mixed>>

(* AuthenticateAccessToken lets no blocked user in. *)
Admit(q) ==
    /\ At(q, "admit")
    /\ IF req[q].read.blocked THEN Refuse(q) ELSE Done(q)
    /\ UNCHANGED <<rows, cache, arriving, faults, ghosts>>

(* A super-admin is neither managed nor deleted; a blocked user neither      *)
(* refreshes a session nor resets a password.                               *)
Accept(q) ==
    /\ At(q, "accept")
    /\ IF \/ req[q].op \in {"manage", "remove"} /\ req[q].read.role = "super_admin"
          \/ req[q].op \in {"refresh", "reset"} /\ req[q].read.blocked
       THEN Refuse(q) ELSE Done(q)
    /\ UNCHANGED <<rows, cache, arriving, faults, ghosts>>

-----------------------------------------------------------------------------
(* Statements on identity.users. *)

(* A write of u by q overtakes every other request that has read u. *)
Overtaking(q, table) ==
    [p \in Requests |-> IF p # q /\ p \in InFlight(req[q].u) /\ table[p].read.found
                        THEN [table[p] EXCEPT !.overtaken = TRUE] ELSE table[p]]

(* Entries of other replicas outlive the write until their time is up. *)
LeftBehind(r, u) == {s \in Replicas \ {r} : u \in DOMAIN cache[s]} \X {u}

\* Mutated form of NewRow: the profile form resets the notification preferences.
ResetsPreferences(q, new) ==
    [c \in DOMAIN new |-> IF c \in Columns(req[q].op) THEN new[c]
                          ELSE IF c = "prefs" THEN FALSE ELSE req[q].read[c]]

(* Every column the operation does not mean to change comes from the read. *)
NewRow(q, new) ==
    [c \in DOMAIN new |-> IF c \in Columns(req[q].op) THEN new[c] ELSE req[q].read[c]]

(* What the request asks for. *)
Wanted(q) ==
    [found : {TRUE}, email : Emails, pw : Passwords, role : Roles \ {"super_admin"},
     blocked : BOOLEAN, prefs : {TRUE}, image : {req[q].x}]

Changes(q, new) == {NewRow(q, w) : w \in new}

(* The mail of ManageUser, its last statement, is queued only for a change    *)
(* the request can see.                                                     *)
Unchanged(q, row) == row.role = req[q].read.role /\ row.blocked = req[q].read.blocked
WithoutMail(r)    == [r EXCEPT !.steps = SubSeq(@, 1, Len(@) - 1)]

WriteUser(q) ==
    LET u == req[q].u  op == req[q].op IN
    /\ At(q, "update")
    /\ \E row \in Changes(q, Wanted(q)) :
          IF users[u].deleted \/ ~EmailFree(row.email, u)
          THEN /\ Refuse(q) /\ UNCHANGED <<rows, cache, arriving, faults, ghosts>>
          ELSE /\ users' = [users EXCEPT ![u].row = row]
               /\ req' = [Overtaking(q, req) EXCEPT ![q] = Advance(
                     IF op = "manage" /\ Unchanged(q, row) THEN WithoutMail(req[q]) ELSE req[q])]
               /\ exposed' = exposed \cup LeftBehind(req[q].rep, u)
               /\ lost' = IF req[q].overtaken THEN lost \cup {u} ELSE lost
               /\ intent' = [intent EXCEPT ![u] =
                     [c \in DOMAIN @ |-> IF c \in Columns(op) THEN row[c] ELSE @[c]]]
               /\ unsettled' = IF op \in PasswordOps THEN unsettled \cup {u} ELSE unsettled
               /\ UNCHANGED <<tokens, resets, invitations, refs, mail, cache, arriving,
                              faults, mixed>>

(* A password operation is over, and nobody has written the user since. *)
Settle(q) ==
    unsettled' = IF req[q].op \in PasswordOps /\ Tail(req[q].steps) = <<>> /\ ~req[q].overtaken
                 THEN unsettled \ {req[q].u} ELSE unsettled

(* The decorator drops its own replica's entry once the write went through. *)
Evict(q) ==
    LET r == req[q].rep  u == req[q].u IN
    /\ At(q, "evict")
    /\ DropEntry(r, u)
    /\ exposed' = exposed \ {<<r, u>>}
    /\ Settle(q)
    /\ Done(q)
    /\ UNCHANGED <<rows, arriving, faults, lost, intent, mixed>>

(* A soft delete. *)
Delete(q) ==
    LET u == req[q].u IN
    /\ At(q, "delete")
    /\ IF users[u].deleted
       THEN /\ Refuse(q) /\ UNCHANGED <<rows, cache, arriving, faults, ghosts>>
       ELSE /\ users' = [users EXCEPT ![u].deleted = TRUE]
            /\ req' = [Overtaking(q, req) EXCEPT ![q] = Advance(req[q])]
            /\ exposed' = exposed \cup LeftBehind(req[q].rep, u)
            /\ UNCHANGED <<tokens, resets, invitations, refs, mail, cache, arriving,
                           faults, lost, intent, unsettled, mixed>>

(* A user is inserted under a new id, if the e-mail address is free. *)
Insert(row) ==
    /\ users' = Append(users, [row |-> row, deleted |-> FALSE])
    /\ intent' = Append(intent, row)

CreateUser(q) ==
    /\ At(q, "createUser")
    /\ IF EmailFree(BootstrapEmail, 0)
       THEN \E p \in Passwords : Insert(User(BootstrapEmail, p, "super_admin"))
       ELSE UNCHANGED <<users, intent>>
    /\ Done(q)
    /\ UNCHANGED <<tokens, resets, invitations, refs, mail, cache, arriving, faults,
                   exposed, lost, unsettled, mixed>>

-----------------------------------------------------------------------------
(* Statements on invitations, refresh tokens, password resets, references    *)
(* and the notification queue.                                              *)

CreateInvitation(q) ==
    /\ At(q, "createInvitation")
    /\ invitations' = Append(invitations,
          [email |-> req[q].x.email, role |-> req[q].x.role, status |-> "pending", by |-> {}])
    /\ Done(q)
    /\ UNCHANGED <<users, tokens, resets, refs, mail, cache, arriving, faults, ghosts>>

\* Mutated form of StillPending: the update does not look at the status.
AnyStatus(i) == TRUE

StillPending(i) == invitations[i].status = "pending"

(* Insert and update in one transaction, rolled back together. *)
AcceptInvitationTx(q) ==
    LET i == req[q].x  inv == invitations[i] IN
    /\ At(q, "acceptInvitation")
    /\ IF EmailFree(inv.email, 0) /\ StillPending(i)
       THEN /\ \E p \in Passwords : Insert(User(inv.email, p, inv.role))
            /\ invitations' = [invitations EXCEPT ![i].status = "accepted",
                                                  ![i].by = @ \cup {Len(users) + 1}]
       ELSE UNCHANGED <<users, intent, invitations>>
    /\ Done(q)
    /\ UNCHANGED <<tokens, resets, refs, mail, cache, arriving, faults, exposed, lost,
                   unsettled, mixed>>

(* A session stored after the password it was granted under was changed and  *)
(* its sessions revoked.                                                    *)
Late(u, pw) ==
    /\ pw # users[u].row.pw
    /\ u \notin unsettled \/ \E p \in InFlight(u) : At(p, "revokeAll")

NewToken(u, family, pw) ==
    [u |-> u, family |-> family, live |-> TRUE, pw |-> pw, late |-> Late(u, pw)]

CreateRefreshToken(q) ==
    /\ At(q, "createToken")
    /\ tokens' = Append(tokens, NewToken(req[q].u, Len(tokens) + 1, req[q].x))
    /\ Done(q)
    /\ UNCHANGED <<users, resets, invitations, refs, mail, cache, arriving, faults, ghosts>>

\* Mutated form of Unrevoked: the update does not ask for revoked_at is null.
EvenRevoked(t) == TRUE

Unrevoked(t) == tokens[t].live

RotateRefreshToken(q) ==
    LET t == req[q].x IN
    /\ At(q, "rotateToken")
    /\ tokens' = IF Unrevoked(t)
                 THEN Append([tokens EXCEPT ![t].live = FALSE],
                             NewToken(tokens[t].u, tokens[t].family, tokens[t].pw))
                 ELSE tokens
    /\ Done(q)
    /\ UNCHANGED <<users, resets, invitations, refs, mail, cache, arriving, faults, ghosts>>

RevokeRefreshToken(q) ==
    /\ At(q, "revokeToken")
    /\ tokens' = [tokens EXCEPT ![req[q].x].live = FALSE]
    /\ Done(q)
    /\ UNCHANGED <<users, resets, invitations, refs, mail, cache, arriving, faults, ghosts>>

(* One UPDATE statement: it revokes the rows its snapshot saw, waiting for   *)
(* the ones a rotation holds; a replacement that rotation inserts is not     *)
(* among them.                                                              *)
RevokeSnapshot(q) ==
    /\ At(q, "revokeSnapshot")
    /\ req' = [req EXCEPT ![q] = [req[q] EXCEPT !.steps = Tail(req[q].steps),
                  !.snap = {t \in DOMAIN tokens : tokens[t].u = req[q].u /\ tokens[t].live}]]
    /\ UNCHANGED <<rows, cache, arriving, faults, ghosts>>

RevokeAllRefreshTokens(q) ==
    /\ At(q, "revokeAll")
    /\ tokens' = [t \in DOMAIN tokens |-> IF t \in req[q].snap
                                          THEN [tokens[t] EXCEPT !.live = FALSE] ELSE tokens[t]]
    /\ Settle(q)
    /\ Done(q)
    /\ UNCHANGED <<users, resets, invitations, refs, mail, cache, arriving, faults, exposed,
                   lost, intent, mixed>>

CreatePasswordReset(q) ==
    /\ At(q, "createReset")
    /\ resets' = Append(resets, [u |-> req[q].u, used |-> FALSE, pw |-> users[req[q].u].row.pw])
    /\ Done(q)
    /\ UNCHANGED <<users, tokens, invitations, refs, mail, cache, arriving, faults, ghosts>>

MarkPasswordResetUsed(q) ==
    /\ At(q, "markUsed")
    /\ resets' = [resets EXCEPT ![req[q].x].used = TRUE]
    /\ Done(q)
    /\ UNCHANGED <<users, tokens, invitations, refs, mail, cache, arriving, faults, ghosts>>

InvalidatePendingPasswordResets(q) ==
    /\ At(q, "closeResets")
    /\ resets' = [x \in DOMAIN resets |-> IF resets[x].u = req[q].u
                                          THEN [resets[x] EXCEPT !.used = TRUE] ELSE resets[x]]
    /\ Done(q)
    /\ UNCHANGED <<users, tokens, invitations, refs, mail, cache, arriving, faults, ghosts>>

QueueNotification(q) ==
    /\ At(q, "mail")
    /\ mail' = mail \cup {<<req[q].op, req[q].u>>}
    /\ Done(q)
    /\ UNCHANGED <<users, tokens, resets, invitations, refs, cache, arriving, faults, ghosts>>

TrackObject(q) ==
    /\ At(q, "track")
    /\ refs' = [refs EXCEPT ![req[q].x] = [state |-> "active", u |-> req[q].u]]
    \* nothing is orphaned on behalf of a first image
    /\ IF req[q].read.image = NoImage THEN Refuse(q) ELSE Done(q)
    /\ UNCHANGED <<users, tokens, resets, invitations, mail, cache, arriving, faults, ghosts>>

\* Mutated form of Keep: the key of the previous image is spared.
KeepPrevious(q) == req[q].read.image

Keep(q) == req[q].x

(* Every active image of the user except the one to keep (none on deletion). *)
OrphanObjectsFor(q) ==
    /\ At(q, "orphan")
    /\ refs' = [k \in DOMAIN refs |->
          IF refs[k] = [state |-> "active", u |-> req[q].u] /\ k # Keep(q)
          THEN [refs[k] EXCEPT !.state = "orphaned"] ELSE refs[k]]
    /\ Done(q)
    /\ UNCHANGED <<users, tokens, resets, invitations, mail, cache, arriving, faults, ghosts>>

-----------------------------------------------------------------------------
(* Time and faults. *)

(* An entry's time is up. *)
CacheExpires(r, u) ==
    /\ u \in DOMAIN cache[r]
    /\ DropEntry(r, u)
    /\ exposed' = exposed \ {<<r, u>>}
    /\ UNCHANGED <<rows, req, arriving, faults, lost, intent, unsettled, mixed>>

(* The next statement fails, or the client goes away.  Before "evict" it is  *)
(* the acknowledgement of the write that is lost: the decorator returns the  *)
(* error and leaves its entry.                                              *)
Fail(q) ==
    LET r == req[q].rep  u == req[q].u IN
    /\ req[q].op # "idle" /\ faults < MaxFaults
    /\ faults' = faults + 1
    /\ exposed' = IF At(q, "evict") /\ u \in DOMAIN cache[r]
                  THEN exposed \cup {<<r, u>>} ELSE exposed
    /\ Refuse(q)
    /\ UNCHANGED <<rows, cache, arriving, lost, intent, unsettled, mixed>>

(* A replica dies with its cache and the requests it was serving. *)
Restart(r) ==
    /\ faults < MaxFaults
    /\ faults' = faults + 1
    /\ cache' = [cache EXCEPT ![r] = <<>>]
    /\ exposed' = {e \in exposed : e[1] # r}
    /\ req' = [q \in Requests |-> IF req[q].op # "idle" /\ req[q].rep = r THEN Idle ELSE req[q]]
    /\ UNCHANGED <<rows, arriving, lost, intent, unsettled, mixed>>

Step(q) ==
    \/ GetUserByID(q) \/ Fill(q) \/ Admit(q) \/ Accept(q)
    \/ WriteUser(q) \/ Evict(q) \/ Delete(q) \/ CreateUser(q)
    \/ CreateInvitation(q) \/ AcceptInvitationTx(q)
    \/ CreateRefreshToken(q) \/ RotateRefreshToken(q) \/ RevokeRefreshToken(q)
    \/ RevokeSnapshot(q) \/ RevokeAllRefreshTokens(q)
    \/ CreatePasswordReset(q) \/ MarkPasswordResetUsed(q)
    \/ InvalidatePendingPasswordResets(q)
    \/ QueueNotification(q) \/ TrackObject(q) \/ OrphanObjectsFor(q)

Arrival(q, r) ==
    \/ \E u \in Ids : \/ LoginRequest(q, r, u) \/ ForgotRequest(q, r, u)
                      \/ ImageRequest(q, r, u)
                      \/ \E op \in Ops : UserRequest(q, op, r, u) \/ ManageRequest(q, op, r, u)
    \/ \E t \in DOMAIN tokens : RefreshRequest(q, r, t) \/ LogoutRequest(q, r, t)
    \/ \E x \in DOMAIN resets : ResetRequest(q, r, x)
    \/ \E i \in DOMAIN invitations : AcceptRequest(q, r, i)
    \/ \E e \in Emails, role \in Roles : InviteRequest(q, r, e, role)
    \/ BootstrapRequest(q, r)

Next ==
    \/ \E q \in Requests : Step(q) \/ Fail(q) \/ \E r \in Replicas : Arrival(q, r)
    \/ \E r \in Replicas : Restart(r) \/ \E u \in Ids : CacheExpires(r, u)

Spec == Init /\ [][Next]_vars

-----------------------------------------------------------------------------
(* Properties. *)

TypeOK ==
    /\ \A u \in Ids : users[u].deleted \in BOOLEAN /\ users[u].row.email \in Emails
                      /\ users[u].row.pw \in Passwords /\ users[u].row.role \in Roles
    /\ \A t \in DOMAIN tokens : tokens[t].u \in Ids /\ tokens[t].family \in 1..t
    /\ \A r \in Replicas : DOMAIN cache[r] \subseteq Ids
    /\ \A q \in Requests : req[q] = Idle \/ req[q].op \in Ops
    /\ lost \cup unsettled \cup mixed \subseteq Ids
    /\ exposed \subseteq Replicas \X Ids

(* A replica serves the user as stored, unless another replica wrote the row *)
(* or a fill was under way when it was written: once UpdateUser or           *)
(* DeleteUser has returned, its own replica's next read sees the write       *)
(* (cached.IdentityRepository.UpdateUser, cache.Invalidate).                *)
CacheCoherent ==
    \A r \in Replicas : \A u \in DOMAIN cache[r] :
        cache[r][u] = GetUser(u) \/ <<r, u>> \in exposed \/ Unevicted(r, u)

(* Each column holds what the operation that owns it wrote last - a block    *)
(* stays, a new password stays - as long as nobody wrote the user from a row  *)
(* that was overtaken.  UpdateUser writes all columns, so this rests on every *)
(* reader getting a fresh row (AuthService.ManageUser, UpdateProfile, ...).  *)
LastWriteStands ==
    \A u \in Ids \ lost : users[u].row = intent[u]

(* A refresh token is replaced at most once: a session has one live token,   *)
(* however many requests present the same one (AuthService.Refresh).        *)
OneLiveToken ==
    \A s, t \in DOMAIN tokens :
        s # t /\ tokens[s].live /\ tokens[t].live => tokens[s].family # tokens[t].family

(* After a password change or reset has gone through, no session granted and *)
(* no reset requested under the old password is left (AuthService            *)
(* ChangePassword, ResetPassword); sessions whose login or rotation finished  *)
(* only after the revocation looked are the exception.                      *)
PasswordClosesSessions ==
    \A u \in Ids \ (unsettled \cup lost) :
        /\ \A t \in DOMAIN tokens : tokens[t].u = u /\ tokens[t].live /\ ~tokens[t].late
                                      => tokens[t].pw = users[u].row.pw
        /\ \A x \in DOMAIN resets : resets[x].u = u /\ ~resets[x].used
                                      => resets[x].pw = users[u].row.pw

(* An invitation makes at most one account, even when its link is used twice *)
(* at once and the first account has moved to another address                *)
(* (IdentityRepository.AcceptInvitation).                                   *)
InviteOnce ==
    \A i \in DOMAIN invitations : Cardinality(invitations[i].by) <= 1

(* What may be used once is used once: an invitation, and a refresh token    *)
(* presented by several requests at the same time.                          *)
SpentOnce == OneLiveToken /\ InviteOnce

(* The image a user shows is not given to the retention sweeper, unless two   *)
(* uploads of that user overlapped (AuthService.UpdateProfileImage).        *)
ShownImageKept ==
    \A u \in Ids \ (lost \cup mixed) :
        LET k == users[u].row.image IN
        ~users[u].deleted /\ k # NoImage => refs[k].state # "orphaned"

=============================================================================
