---------------------------- MODULE AuthSessions ----------------------------
(***************************************************************************)
(* Signing in and out.  AuthService keeps one entry per user in Redis, the *)
(* refresh token of its last sign-in, under `${userId}-refresh-token`.     *)
(* What matters of it is whether it is there: the strategies of the guards *)
(* let a request with a valid access token pass as long as it is, and      *)
(* logout, itself a guarded request, removes it.                           *)
(*                                                                         *)
(* Each request is a slot with a program counter.  A Redis command and the *)
(* arrival of its answer are two steps, and between them a client whose    *)
(* connection broke may send the command again.  Redis may be started      *)
(* again with the entries of its last snapshot.  (Both are external.)      *)
(***************************************************************************)

CONSTANTS
  Users,     \* user ids
  Requests,  \* slots for requests in flight, in all processes together
  Faults,    \* what may happen besides: a subset of AllFaults
  Absent     \* no request

AllOps == {"signIn", "logout", "call"}

(* Any guarded request but logout is a "call".  "expire" is the end of the *)
(* last access token of a user, "fail" a rejected call or the end of the   *)
(* process.                                                                *)
AllFaults == {"expire", "fail", "resend", "snapshot"}

(* right: the e-mail and the password of a sign-in are those of user.      *)
Job == [op : AllOps, user : Users, right : BOOLEAN]

ASSUME AuthSessionsAssumption ==
  /\ Faults \subseteq AllFaults
  /\ Absent \notin Job

VARIABLES
  entries,   \* the users with an entry in Redis
  disk,      \* the entries of the last snapshot of Redis
  tokens,    \* the users of whom some client has an unexpired access token
  job,       \* what each slot was asked
  at,        \* where it is
  (* History variables: read by the properties only. *)
  standing,  \* what the order of the answered requests says of a user
  held,      \* the standing of its user throughout a request
  clean      \* a sign-in (logout) no logout (sign-in) of its user has met

redis   == <<entries, disk>>
history == <<standing, held, clean>>
vars    == <<entries, disk, tokens, job, at, standing, held, clean>>

Places == {"idle", "find", "set", "setting", "guard", "serve", "refused",
           "del", "deleting"}
Standings == {"in", "out", "unknown"}

TypeOK ==
  /\ entries \in SUBSET Users
  /\ disk \in SUBSET Users
  /\ tokens \in SUBSET Users
  /\ job \in [Requests -> Job \cup {Absent}]
  /\ at \in [Requests -> Places]
  /\ \A r \in Requests : at[r] # "idle" => job[r] \in Job
  /\ standing \in [Users -> Standings]
  /\ held \in [Requests -> Standings]
  /\ clean \in [Requests -> BOOLEAN]

Init ==
  /\ entries = {}
  /\ disk = {}
  /\ tokens = {}
  /\ job = [r \in Requests |-> Absent]
  /\ at = [r \in Requests |-> "idle"]
  /\ standing = [u \in Users |-> "out"]
  /\ held = [r \in Requests |-> "unknown"]
  /\ clean = [r \in Requests |-> FALSE]

-----------------------------------------------------------------------------
(* Helpers *)

(* The key of the entry, `${userId}-refresh-token`. *)
KeyForAll(u) == CHOOSE v \in Users : TRUE
Key(u) == u

InFlight(u) == {r \in Requests : at[r] # "idle" /\ job[r].user = u}

SigningIn(u)  == {r \in InFlight(u) : job[r].op = "signIn" /\ job[r].right}
LoggingOut(u) == {r \in InFlight(u) : job[r].op = "logout"}

End(r) ==
  /\ at' = [at EXCEPT ![r] = "idle"]
  /\ job' = [job EXCEPT ![r] = Absent]
  /\ held' = [held EXCEPT ![r] = "unknown"]
  /\ clean' = [clean EXCEPT ![r] = FALSE]

Goto(r, where) ==
  /\ at' = [at EXCEPT ![r] = where]
  /\ UNCHANGED <<job, held, clean>>

(* From now on the standing of u may not be s any more. *)
Doubt(u, s) ==
  standing' = [standing EXCEPT ![u] = IF @ = s THEN "unknown" ELSE @]
DoubtIn(S, s) ==
  [r \in Requests |-> IF r \in S /\ held[r] = s THEN "unknown" ELSE held[r]]

-----------------------------------------------------------------------------
(* sign-in, which is public *)

SignIn(r, u, right) ==
  /\ at[r] = "idle"
  /\ at' = [at EXCEPT ![r] = "find"]
  /\ job' = [job EXCEPT ![r] = [op |-> "signIn", user |-> u, right |-> right]]
  /\ IF right
       THEN /\ Doubt(u, "out")
            /\ held' = [DoubtIn(InFlight(u), "out") EXCEPT ![r] = "unknown"]
            /\ clean' = [q \in Requests |->
                 IF q = r THEN LoggingOut(u) = {}
                          ELSE clean[q] /\ q \notin LoggingOut(u)]
       ELSE UNCHANGED history
  /\ UNCHANGED <<redis, tokens>>

(* getUserByEmail and comparePasswordHash; the two tokens are signed.      *)
ComparedNot(j) == TRUE
Compared(j) == j.right
FindUser(r) ==
  /\ at[r] = "find"
  /\ IF Compared(job[r]) THEN Goto(r, "set") ELSE End(r)
  /\ UNCHANGED <<redis, tokens, standing>>

(* redisManagerService.set, without a time to live. *)
SetEntry(r) ==
  /\ at[r] = "set" \/ (at[r] = "setting" /\ "resend" \in Faults)
  /\ entries' = entries \cup {Key(job[r].user)}
  /\ Goto(r, "setting")
  /\ UNCHANGED <<disk, tokens, standing>>

TokenOfNobody(j) == Absent
TokenFor(j) == j.user
AnswerSignIn(r) ==
  /\ at[r] = "setting"
  /\ tokens' = tokens \cup {TokenFor(job[r])}
  /\ standing' = IF clean[r] THEN [standing EXCEPT ![job[r].user] = "in"]
                             ELSE standing
  /\ End(r)
  /\ UNCHANGED redis

-----------------------------------------------------------------------------
(* Guarded requests.  passport-jwt has checked that the token is valid     *)
(* before validate is called (Unauthorized, and no effect, otherwise).     *)

Call(r, u) ==
  /\ at[r] = "idle"
  /\ u \in tokens
  /\ at' = [at EXCEPT ![r] = "guard"]
  /\ job' = [job EXCEPT ![r] = [op |-> "call", user |-> u, right |-> TRUE]]
  /\ held' = [held EXCEPT ![r] = standing[u]]
  /\ UNCHANGED <<redis, tokens, standing, clean>>

Logout(r, u) ==
  /\ at[r] = "idle"
  /\ u \in tokens
  /\ at' = [at EXCEPT ![r] = "guard"]
  /\ job' = [job EXCEPT ![r] = [op |-> "logout", user |-> u, right |-> TRUE]]
  /\ Doubt(u, "in")
  /\ held' = [DoubtIn(InFlight(u), "in") EXCEPT ![r] = standing[u]]
  /\ clean' = [q \in Requests |->
       IF q = r THEN SigningIn(u) = {}
                ELSE clean[q] /\ q \notin SigningIn(u)]
  /\ UNCHANGED <<redis, tokens>>

(* The GET of validate: null is "You are logged out. Log in again.".       *)
Validate(r) ==
  /\ at[r] = "guard"
  /\ Goto(r, IF Key(job[r].user) \notin entries THEN "refused"
             ELSE IF job[r].op = "logout" THEN "del" ELSE "serve")
  /\ UNCHANGED <<redis, tokens, standing>>

(* The handler of the request runs, or ForbiddenException is answered.     *)
Answer(r) ==
  /\ at[r] \in {"serve", "refused"}
  /\ End(r)
  /\ UNCHANGED <<redis, tokens, standing>>

DelEntry(r) ==
  /\ at[r] = "del" \/ (at[r] = "deleting" /\ "resend" \in Faults)
  /\ entries' = entries \ {Key(job[r].user)}
  /\ Goto(r, "deleting")
  /\ UNCHANGED <<disk, tokens, standing>>

AnswerLogout(r) ==
  /\ at[r] = "deleting"
  /\ standing' = IF clean[r] THEN [standing EXCEPT ![job[r].user] = "out"]
                             ELSE standing
  /\ End(r)
  /\ UNCHANGED <<redis, tokens>>

-----------------------------------------------------------------------------
(* Faults *)

Fail(r) ==
  /\ "fail" \in Faults
  /\ at[r] # "idle"
  /\ End(r)
  /\ UNCHANGED <<redis, tokens, standing>>

ExpireTokens(u) ==
  /\ "expire" \in Faults
  /\ u \in tokens
  /\ tokens' = tokens \ {u}
  /\ UNCHANGED <<redis, job, at, history>>

Snapshot ==
  /\ "snapshot" \in Faults
  /\ disk' = entries
  /\ UNCHANGED <<entries, tokens, job, at, history>>

(* Entries since the snapshot are lost, and removed ones are back. *)
RestartRedis ==
  LET changed == (entries \ disk) \cup (disk \ entries)
      touched == UNION {InFlight(u) : u \in changed}
  IN  /\ "snapshot" \in Faults
      /\ entries' = disk
      /\ standing' = [u \in Users |-> IF u \in changed THEN "unknown"
                                                       ELSE standing[u]]
      /\ held' = [r \in Requests |-> IF r \in touched THEN "unknown" ELSE held[r]]
      /\ clean' = [r \in Requests |-> clean[r] /\ r \notin touched]
      /\ UNCHANGED <<disk, tokens, job, at>>

-----------------------------------------------------------------------------
Step(r) ==
  \/ FindUser(r)
  \/ SetEntry(r)
  \/ AnswerSignIn(r)
  \/ Validate(r)
  \/ Answer(r)
  \/ DelEntry(r)
  \/ AnswerLogout(r)

Next ==
  \/ \E r \in Requests :
       \/ \E u \in Users : \/ \E right \in BOOLEAN : SignIn(r, u, right)
                          \/ Call(r, u)
                          \/ Logout(r, u)
       \/ Step(r)
       \/ Fail(r)
  \/ \E u \in Users : ExpireTokens(u)
  \/ Snapshot
  \/ RestartRedis

Spec == Init /\ [][Next]_vars

-----------------------------------------------------------------------------
(* Properties *)

(* Who has been answered a sign-in, with no logout on any of its devices   *)
(* begun since or under way, is never told to log in again, nor by the     *)
(* first of its logouts: sign-ins and logouts of others, failed attempts   *)
(* and commands that are sent twice do not take the entry away.            *)
SignedInIsServed == \A r \in Requests : at[r] = "refused" => held[r] # "in"

(* After a logout has been answered, no request of that user is let in     *)
(* with any token, on whichever device, until somebody begins to sign in   *)
(* with the right password: not by a sign-in that failed, nor by one that  *)
(* was answered before.                                                    *)
LoggedOutIsRefused ==
  \A r \in Requests :
    at[r] \in {"serve", "del", "deleting"} => held[r] # "out"
=============================================================================
