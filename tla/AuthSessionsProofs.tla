------------------------- MODULE AuthSessionsProofs -------------------------
(* Proofs about AuthSessions, for any users, requests and faults. *)
EXTENDS AuthSessions, TLAPS

(* Which operation can be where. *)
InPlace ==
  \A r \in Requests :
    /\ at[r] \in {"find", "set", "setting"} => job[r].op = "signIn"
    /\ at[r] \in {"set", "setting"} => job[r].right
    /\ at[r] \in {"guard", "refused"} => job[r].op \in {"call", "logout"}
    /\ at[r] = "serve" => job[r].op = "call"
    /\ at[r] \in {"del", "deleting"} => job[r].op = "logout"
    /\ at[r] = "idle" => held[r] = "unknown" /\ ~clean[r]

(* Somebody signed in has the entry and nobody at work to remove it; and   *)
(* the other way round.                                                    *)
Standing ==
  \A u \in Users :
    /\ standing[u] = "in"  => u \in entries /\ LoggingOut(u) = {}
    /\ standing[u] = "out" => u \notin entries /\ SigningIn(u) = {}

(* A request that is clean has the field for itself. *)
Clean ==
  \A r \in Requests : clean[r] =>
    /\ job[r].op = "signIn" =>
         /\ job[r].right
         /\ LoggingOut(job[r].user) = {}
         /\ at[r] = "setting" => job[r].user \in entries
    /\ job[r].op = "logout" =>
         /\ SigningIn(job[r].user) = {}
         /\ at[r] = "deleting" => job[r].user \notin entries
    /\ job[r].op # "call"

(* While a request holds a standing, what made it true stays. *)
Held ==
  \A r \in Requests :
    /\ held[r] = "in" =>
         /\ LoggingOut(job[r].user) \subseteq {r}
         /\ at[r] = "guard" => job[r].user \in entries
         /\ at[r] # "refused"
    /\ held[r] = "out" =>
         /\ SigningIn(job[r].user) = {}
         /\ job[r].user \notin entries
         /\ at[r] \in {"guard", "refused"}

Inductive == TypeOK /\ InPlace /\ Standing /\ Clean /\ Held

USE DEF Places, Standings, AllOps, Key

LEMMA InductiveInit == Init => Inductive
BY DEF Init, Inductive, TypeOK, InPlace, Standing, Clean, Held, LoggingOut,
       SigningIn, InFlight

(* The types of the history variables after a step. *)
LEMMA DoubtTypes ==
  ASSUME TypeOK, NEW u \in Users, NEW s \in Standings, Doubt(u, s)
  PROVE  standing' \in [Users -> Standings]
BY DEF TypeOK, Doubt

LEMMA DoubtInTypes ==
  ASSUME TypeOK, NEW S, NEW s \in Standings, NEW r \in Requests,
         NEW t \in Standings
  PROVE  [DoubtIn(S, s) EXCEPT ![r] = t] \in [Requests -> Standings]
BY DEF TypeOK, DoubtIn

LEMMA InductiveSignIn ==
  ASSUME Inductive, NEW r \in Requests, NEW u \in Users, NEW right \in BOOLEAN,
         SignIn(r, u, right)
  PROVE  Inductive'
<1>a. TypeOK /\ InPlace /\ Standing /\ Clean /\ Held
  BY DEF Inductive
<1>1. TypeOK'
  <2>1. job' \in [Requests -> Job \cup {Absent}]
    BY <1>a DEF TypeOK, SignIn, Job
  <2>2. at' \in [Requests -> Places]
    BY <1>a DEF TypeOK, SignIn
  <2>3. \A q \in Requests : at'[q] # "idle" => job'[q] \in Job
    BY <1>a DEF TypeOK, SignIn, Job
  <2>4. standing' \in [Users -> Standings] /\ held' \in [Requests -> Standings]
    BY <1>a, DoubtTypes, DoubtInTypes DEF TypeOK, SignIn, history
  <2>5. clean' \in [Requests -> BOOLEAN]
    <3>1. CASE right
      <4>1. \A q \in Requests :
              (IF q = r THEN LoggingOut(u) = {}
                        ELSE clean[q] /\ q \notin LoggingOut(u)) \in BOOLEAN
        OBVIOUS
      <4> QED BY <3>1, <4>1 DEF SignIn
    <3> QED BY <1>a, <3>1 DEF TypeOK, SignIn, history
  <2> QED BY <1>a, <2>1, <2>2, <2>3, <2>4, <2>5 DEF TypeOK, SignIn, redis
<1>2. InPlace'
  <2>1. job'[r].op = "signIn" /\ at'[r] = "find"
    BY <1>a DEF TypeOK, SignIn
  <2>2. ASSUME NEW q \in Requests \ {r}
        PROVE  /\ job'[q] = job[q] /\ at'[q] = at[q]
               /\ held[q] = "unknown" => held'[q] = "unknown"
               /\ clean'[q] => clean[q]
    BY <1>a, <2>2 DEF TypeOK, SignIn, history, DoubtIn
  <2> QED BY <1>a, <2>1, <2>2 DEF InPlace, TypeOK
<1>3. Standing'
  BY <1>a DEF TypeOK, Standing, InPlace, LoggingOut, SigningIn, InFlight,
         SignIn, redis, history, Doubt, DoubtIn
<1>4. Clean'
  BY <1>a DEF TypeOK, Clean, InPlace, LoggingOut, SigningIn, InFlight,
         SignIn, redis, history, Doubt, DoubtIn
<1>5. Held'
  <2>0. /\ entries' = entries
        /\ job' = [job EXCEPT ![r] = [op |-> "signIn", user |-> u, right |-> right]]
        /\ at[r] = "idle"
        /\ at' = [at EXCEPT ![r] = "find"]
    BY DEF SignIn, redis
  <2>1. /\ held'[r] = "unknown"
        /\ \A q \in Requests \ {r} :
             /\ held'[q] \in {held[q], "unknown"}
             /\ right /\ at[q] # "idle" /\ job[q].user = u => held'[q] # "out"
    BY <1>a DEF TypeOK, InPlace, SignIn, history, DoubtIn, InFlight
  <2>2. \A v \in Users : LoggingOut(v)' = LoggingOut(v)
    BY <1>a, <2>0 DEF TypeOK, LoggingOut, InFlight
  <2>3. \A v \in Users : right => (v = u \/ SigningIn(v)' = SigningIn(v))
    BY <1>a, <2>0 DEF TypeOK, SigningIn, InFlight
  <2>4. \A v \in Users : ~right => SigningIn(v)' = SigningIn(v)
    BY <1>a, <2>0 DEF TypeOK, SigningIn, InFlight
  <2>5. \A q \in Requests : held'[q] # "unknown" =>
          at[q] # "idle" /\ q # r /\ job[q].user \in Users
    BY <1>a, <2>1 DEF InPlace, TypeOK, Job
  <2>6. \A q \in Requests : q # r => job'[q] = job[q] /\ at'[q] = at[q]
    BY <1>a, <2>0 DEF TypeOK
  <2> QED BY <1>a, <2>0, <2>1, <2>2, <2>3, <2>4, <2>5, <2>6 DEF Held
<1> QED BY <1>1, <1>2, <1>3, <1>4, <1>5 DEF Inductive

LEMMA InductiveFindUser ==
  ASSUME Inductive, NEW r \in Requests, FindUser(r)
  PROVE  Inductive'
<1>a. TypeOK /\ InPlace /\ Standing /\ Clean /\ Held
  BY DEF Inductive
<1>1. TypeOK'
  <2>1. Goto(r, "set") \/ End(r)
    BY DEF FindUser
  <2> QED BY <1>a, <2>1 DEF TypeOK, FindUser, Goto, End, redis
<1>2. InPlace'
  BY <1>a DEF TypeOK, InPlace, FindUser,
         LoggingOut, SigningIn, InFlight, Goto, End, redis, Compared, Job
<1>3. Standing'
  BY <1>a DEF TypeOK, InPlace, Standing, FindUser,
         LoggingOut, SigningIn, InFlight, Goto, End, redis, Compared, Job
<1>4. Clean'
  BY <1>a DEF TypeOK, InPlace, Clean, FindUser,
         LoggingOut, SigningIn, InFlight, Goto, End, redis, Compared, Job
<1>5. Held'
  BY <1>a DEF TypeOK, InPlace, Held, FindUser,
         LoggingOut, SigningIn, InFlight, Goto, End, redis, Compared, Job
<1> QED BY <1>1, <1>2, <1>3, <1>4, <1>5 DEF Inductive

LEMMA InductiveSetEntry ==
  ASSUME Inductive, NEW r \in Requests, SetEntry(r)
  PROVE  Inductive'
<1>a. TypeOK /\ InPlace /\ Standing /\ Clean /\ Held
  BY DEF Inductive
<1>1. TypeOK'
  BY <1>a DEF TypeOK, InPlace, SetEntry,
         LoggingOut, SigningIn, InFlight, Goto, End, redis, Job
<1>2. InPlace'
  BY <1>a DEF TypeOK, InPlace, SetEntry,
         LoggingOut, SigningIn, InFlight, Goto, End, redis, Job
<1>3. Standing'
  BY <1>a DEF TypeOK, InPlace, Standing, SetEntry,
         LoggingOut, SigningIn, InFlight, Goto, End, redis, Job
<1>4. Clean'
  BY <1>a DEF TypeOK, InPlace, Clean, SetEntry,
         LoggingOut, SigningIn, InFlight, Goto, End, redis, Job
<1>5. Held'
  BY <1>a DEF TypeOK, InPlace, Held, SetEntry,
         LoggingOut, SigningIn, InFlight, Goto, End, redis, Job
<1> QED BY <1>1, <1>2, <1>3, <1>4, <1>5 DEF Inductive

LEMMA InductiveAnswerSignIn ==
  ASSUME Inductive, NEW r \in Requests, AnswerSignIn(r)
  PROVE  Inductive'
<1>a. TypeOK /\ InPlace /\ Standing /\ Clean /\ Held
  BY DEF Inductive
<1>1. TypeOK'
  BY <1>a DEF TypeOK, InPlace, AnswerSignIn,
         LoggingOut, SigningIn, InFlight, Goto, End, redis, TokenFor, Job
<1>2. InPlace'
  BY <1>a DEF TypeOK, InPlace, AnswerSignIn,
         LoggingOut, SigningIn, InFlight, Goto, End, redis, TokenFor, Job
<1>3. Standing'
  BY <1>a DEF TypeOK, InPlace, Standing, Clean, AnswerSignIn,
         LoggingOut, SigningIn, InFlight, Goto, End, redis, TokenFor, Job
<1>4. Clean'
  BY <1>a DEF TypeOK, InPlace, Clean, AnswerSignIn,
         LoggingOut, SigningIn, InFlight, Goto, End, redis, TokenFor, Job
<1>5. Held'
  BY <1>a DEF TypeOK, InPlace, Held, AnswerSignIn,
         LoggingOut, SigningIn, InFlight, Goto, End, redis, TokenFor, Job
<1> QED BY <1>1, <1>2, <1>3, <1>4, <1>5 DEF Inductive

LEMMA InductiveValidate ==
  ASSUME Inductive, NEW r \in Requests, Validate(r)
  PROVE  Inductive'
<1>a. TypeOK /\ InPlace /\ Standing /\ Clean /\ Held
  BY DEF Inductive
<1>1. TypeOK'
  BY <1>a DEF TypeOK, InPlace, Validate,
         LoggingOut, SigningIn, InFlight, Goto, End, redis, Job
<1>2. InPlace'
  BY <1>a DEF TypeOK, InPlace, Validate,
         LoggingOut, SigningIn, InFlight, Goto, End, redis, Job
<1>3. Standing'
  BY <1>a DEF TypeOK, InPlace, Standing, Validate,
         LoggingOut, SigningIn, InFlight, Goto, End, redis, Job
<1>4. Clean'
  BY <1>a DEF TypeOK, InPlace, Clean, Validate,
         LoggingOut, SigningIn, InFlight, Goto, End, redis, Job
<1>5. Held'
  BY <1>a DEF TypeOK, InPlace, Held, Validate,
         LoggingOut, SigningIn, InFlight, Goto, End, redis, Job
<1> QED BY <1>1, <1>2, <1>3, <1>4, <1>5 DEF Inductive

LEMMA InductiveAnswer ==
  ASSUME Inductive, NEW r \in Requests, Answer(r)
  PROVE  Inductive'
<1>a. TypeOK /\ InPlace /\ Standing /\ Clean /\ Held
  BY DEF Inductive
<1>1. TypeOK'
  BY <1>a DEF TypeOK, InPlace, Answer,
         LoggingOut, SigningIn, InFlight, Goto, End, redis, Job
<1>2. InPlace'
  BY <1>a DEF TypeOK, InPlace, Answer,
         LoggingOut, SigningIn, InFlight, Goto, End, redis, Job
<1>3. Standing'
  BY <1>a DEF TypeOK, InPlace, Standing, Answer,
         LoggingOut, SigningIn, InFlight, Goto, End, redis, Job
<1>4. Clean'
  BY <1>a DEF TypeOK, InPlace, Clean, Answer,
         LoggingOut, SigningIn, InFlight, Goto, End, redis, Job
<1>5. Held'
  BY <1>a DEF TypeOK, InPlace, Held, Answer,
         LoggingOut, SigningIn, InFlight, Goto, End, redis, Job
<1> QED BY <1>1, <1>2, <1>3, <1>4, <1>5 DEF Inductive

LEMMA InductiveDelEntry ==
  ASSUME Inductive, NEW r \in Requests, DelEntry(r)
  PROVE  Inductive'
<1>a. TypeOK /\ InPlace /\ Standing /\ Clean /\ Held
  BY DEF Inductive
<1>1. TypeOK'
  BY <1>a DEF TypeOK, InPlace, DelEntry,
         LoggingOut, SigningIn, InFlight, Goto, End, redis, Job
<1>2. InPlace'
  BY <1>a DEF TypeOK, InPlace, DelEntry,
         LoggingOut, SigningIn, InFlight, Goto, End, redis, Job
<1>3. Standing'
  BY <1>a DEF TypeOK, InPlace, Standing, DelEntry,
         LoggingOut, SigningIn, InFlight, Goto, End, redis, Job
<1>4. Clean'
  BY <1>a DEF TypeOK, InPlace, Clean, DelEntry,
         LoggingOut, SigningIn, InFlight, Goto, End, redis, Job
<1>5. Held'
  BY <1>a DEF TypeOK, InPlace, Held, DelEntry,
         LoggingOut, SigningIn, InFlight, Goto, End, redis, Job
<1> QED BY <1>1, <1>2, <1>3, <1>4, <1>5 DEF Inductive

LEMMA InductiveAnswerLogout ==
  ASSUME Inductive, NEW r \in Requests, AnswerLogout(r)
  PROVE  Inductive'
<1>a. TypeOK /\ InPlace /\ Standing /\ Clean /\ Held
  BY DEF Inductive
<1>1. TypeOK'
  BY <1>a DEF TypeOK, InPlace, AnswerLogout,
         LoggingOut, SigningIn, InFlight, Goto, End, redis, Job
<1>2. InPlace'
  BY <1>a DEF TypeOK, InPlace, AnswerLogout,
         LoggingOut, SigningIn, InFlight, Goto, End, redis, Job
<1>3. Standing'
  BY <1>a DEF TypeOK, InPlace, Standing, Clean, AnswerLogout,
         LoggingOut, SigningIn, InFlight, Goto, End, redis, Job
<1>4. Clean'
  BY <1>a DEF TypeOK, InPlace, Clean, AnswerLogout,
         LoggingOut, SigningIn, InFlight, Goto, End, redis, Job
<1>5. Held'
  BY <1>a DEF TypeOK, InPlace, Held, AnswerLogout,
         LoggingOut, SigningIn, InFlight, Goto, End, redis, Job
<1> QED BY <1>1, <1>2, <1>3, <1>4, <1>5 DEF Inductive

LEMMA InductiveFail ==
  ASSUME Inductive, NEW r \in Requests, Fail(r)
  PROVE  Inductive'
<1>a. TypeOK /\ InPlace /\ Standing /\ Clean /\ Held
  BY DEF Inductive
<1>1. TypeOK'
  BY <1>a DEF TypeOK, InPlace, Fail,
         LoggingOut, SigningIn, InFlight, Goto, End, redis, Job
<1>2. InPlace'
  BY <1>a DEF TypeOK, InPlace, Fail,
         LoggingOut, SigningIn, InFlight, Goto, End, redis, Job
<1>3. Standing'
  BY <1>a DEF TypeOK, InPlace, Standing, Fail,
         LoggingOut, SigningIn, InFlight, Goto, End, redis, Job
<1>4. Clean'
  BY <1>a DEF TypeOK, InPlace, Clean, Fail,
         LoggingOut, SigningIn, InFlight, Goto, End, redis, Job
<1>5. Held'
  BY <1>a DEF TypeOK, InPlace, Held, Fail,
         LoggingOut, SigningIn, InFlight, Goto, End, redis, Job
<1> QED BY <1>1, <1>2, <1>3, <1>4, <1>5 DEF Inductive

LEMMA InductiveCall ==
  ASSUME Inductive, NEW r \in Requests, NEW u \in Users, Call(r, u)
  PROVE  Inductive'
<1>a. TypeOK /\ InPlace /\ Standing /\ Clean /\ Held
  BY DEF Inductive
<1>1. TypeOK'
  BY <1>a DEF TypeOK, Call, Job, redis
<1>2. InPlace'
  BY <1>a DEF TypeOK, InPlace, Call, Job, redis
<1>3. Standing'
  BY <1>a DEF TypeOK, InPlace, Standing, Call, LoggingOut, SigningIn, InFlight,
         Job, redis
<1>4. Clean'
  BY <1>a DEF TypeOK, InPlace, Clean, Call, LoggingOut, SigningIn, InFlight,
         Job, redis
<1>5. Held'
  BY <1>a DEF TypeOK, InPlace, Standing, Held, Call, LoggingOut, SigningIn,
         InFlight, Job, redis
<1> QED BY <1>1, <1>2, <1>3, <1>4, <1>5 DEF Inductive

LEMMA InductiveLogout ==
  ASSUME Inductive, NEW r \in Requests, NEW u \in Users, Logout(r, u)
  PROVE  Inductive'
<1>a. TypeOK /\ InPlace /\ Standing /\ Clean /\ Held
  BY DEF Inductive
<1>1. TypeOK'
  <2>1. standing' \in [Users -> Standings] /\ held' \in [Requests -> Standings]
    BY <1>a, DoubtTypes, DoubtInTypes DEF TypeOK, Logout
  <2>2. \A q \in Requests :
          (IF q = r THEN SigningIn(u) = {}
                    ELSE clean[q] /\ q \notin SigningIn(u)) \in BOOLEAN
    OBVIOUS
  <2>3. clean' \in [Requests -> BOOLEAN]
    BY <2>2 DEF Logout
  <2> QED BY <1>a, <2>1, <2>3 DEF TypeOK, Logout, Job, redis
<1>2. InPlace'
  BY <1>a DEF TypeOK, InPlace, Logout, DoubtIn, Job, redis
<1>3. Standing'
  BY <1>a DEF TypeOK, InPlace, Standing, Logout, Doubt, LoggingOut, SigningIn,
         InFlight, Job, redis
<1>4. Clean'
  BY <1>a DEF TypeOK, InPlace, Clean, Logout, LoggingOut, SigningIn, InFlight,
         Job, redis
<1>5. Held'
  <2>0. /\ entries' = entries
        /\ job' = [job EXCEPT ![r] = [op |-> "logout", user |-> u, right |-> TRUE]]
        /\ at[r] = "idle"
        /\ at' = [at EXCEPT ![r] = "guard"]
    BY DEF Logout, redis
  <2>1. /\ held'[r] = standing[u]
        /\ \A q \in Requests \ {r} :
             /\ held'[q] \in {held[q], "unknown"}
             /\ at[q] # "idle" /\ job[q].user = u => held'[q] # "in"
    BY <1>a DEF TypeOK, InPlace, Logout, DoubtIn, InFlight
  <2>2. \A v \in Users : SigningIn(v)' = SigningIn(v)
    BY <1>a, <2>0 DEF TypeOK, SigningIn, InFlight
  <2>3. \A v \in Users : LoggingOut(v)' = LoggingOut(v) \cup (IF v = u THEN {r} ELSE {})
    BY <1>a, <2>0 DEF TypeOK, LoggingOut, InFlight
  <2>4. \A q \in Requests : held'[q] # "unknown" /\ q # r =>
          at[q] # "idle" /\ job[q].user \in Users
    BY <1>a, <2>1 DEF InPlace, TypeOK, Job
  <2>5. \A q \in Requests : q # r => job'[q] = job[q] /\ at'[q] = at[q]
    BY <1>a, <2>0 DEF TypeOK
  <2>6. job'[r].user = u /\ at'[r] = "guard"
    BY <1>a, <2>0 DEF TypeOK
  <2> QED BY <1>a, <2>0, <2>1, <2>2, <2>3, <2>4, <2>5, <2>6 DEF Held, Standing
<1> QED BY <1>1, <1>2, <1>3, <1>4, <1>5 DEF Inductive

LEMMA InductiveRestart ==
  ASSUME Inductive, RestartRedis
  PROVE  Inductive'
<1> DEFINE changed == (entries \ disk) \cup (disk \ entries)
           touched == UNION {InFlight(u) : u \in changed}
<1>a. TypeOK /\ InPlace /\ Standing /\ Clean /\ Held
  BY DEF Inductive
<1>b. /\ entries' = disk
      /\ standing' = [u \in Users |-> IF u \in changed THEN "unknown"
                                                       ELSE standing[u]]
      /\ held' = [r \in Requests |-> IF r \in touched THEN "unknown" ELSE held[r]]
      /\ clean' = [r \in Requests |-> clean[r] /\ r \notin touched]
      /\ UNCHANGED <<disk, tokens, job, at>>
  BY DEF RestartRedis
<1>c. \A u \in Users : LoggingOut(u)' = LoggingOut(u) /\ SigningIn(u)' = SigningIn(u)
  BY <1>b DEF LoggingOut, SigningIn, InFlight
<1>d. \A r \in Requests : at[r] # "idle" /\ r \notin touched =>
        job[r].user \in Users /\ (job[r].user \in disk <=> job[r].user \in entries)
  BY <1>a DEF TypeOK, Job, InFlight
<1> HIDE DEF changed, touched
<1>1. TypeOK'
  <2>1. \A r \in Requests : (clean[r] /\ r \notin touched) \in BOOLEAN
    OBVIOUS
  <2>2. clean' \in [Requests -> BOOLEAN]
    BY <1>b, <2>1
  <2> QED BY <1>a, <1>b, <2>2 DEF TypeOK
<1>2. InPlace'
  BY <1>a, <1>b DEF TypeOK, InPlace
<1>3. Standing'
  BY <1>a, <1>b, <1>c DEF TypeOK, Standing, changed
<1>4. Clean'
  <2>1. ASSUME NEW r \in Requests, clean'[r]
        PROVE  /\ clean[r] /\ r \notin touched /\ at[r] # "idle"
               /\ job'[r] = job[r] /\ at'[r] = at[r]
    BY <1>a, <1>b, <2>1 DEF InPlace, TypeOK
  <2>2. ASSUME NEW r \in Requests, clean'[r]
        PROVE  job[r].user \in Users /\ (job[r].user \in entries' <=> job[r].user \in entries)
    BY <1>b, <1>d, <2>1, <2>2
  <2> QED BY <1>a, <1>c, <2>1, <2>2 DEF Clean
<1>5. Held'
  <2>1. \A r \in Requests : held'[r] # "unknown" =>
          /\ held'[r] = held[r]
          /\ job[r].user \in Users
          /\ job[r].user \in entries' <=> job[r].user \in entries
    BY <1>a, <1>b, <1>d DEF TypeOK, InPlace
  <2>2. UNCHANGED <<job, at>>
    BY <1>b
  <2> QED BY <1>a, <1>c, <2>1, <2>2 DEF Held
<1> QED BY <1>1, <1>2, <1>3, <1>4, <1>5 DEF Inductive

(* The steps that leave requests and history alone. *)
LEMMA InductiveRest ==
  ASSUME Inductive,
         \/ \E u \in Users : ExpireTokens(u)
         \/ Snapshot
         \/ UNCHANGED vars
  PROVE  Inductive'
<1>a. TypeOK /\ InPlace /\ Standing /\ Clean /\ Held
  BY DEF Inductive
<1>b. /\ UNCHANGED <<entries, job, at, standing, held, clean>>
      /\ tokens' \subseteq tokens
      /\ disk' \in {disk, entries}
  BY DEF ExpireTokens, Snapshot, vars, redis, history
<1>c. \A u \in Users : LoggingOut(u)' = LoggingOut(u) /\ SigningIn(u)' = SigningIn(u)
  BY <1>b DEF LoggingOut, SigningIn, InFlight
<1>1. TypeOK'
  BY <1>a, <1>b DEF TypeOK
<1>2. InPlace' /\ Standing'
  BY <1>a, <1>b, <1>c DEF InPlace, Standing
<1>3. Clean' /\ Held'
  BY <1>a, <1>b DEF Clean, Held, LoggingOut, SigningIn, InFlight
<1> QED BY <1>1, <1>2, <1>3 DEF Inductive

LEMMA InductiveStep == Inductive /\ [Next]_vars => Inductive'
<1> SUFFICES ASSUME Inductive, [Next]_vars PROVE Inductive'
  OBVIOUS
<1>1. CASE \E r \in Requests, u \in Users, right \in BOOLEAN : SignIn(r, u, right)
  BY <1>1, InductiveSignIn
<1>2. CASE \E r \in Requests, u \in Users : Call(r, u) \/ Logout(r, u)
  BY <1>2, InductiveCall, InductiveLogout
<1>3. CASE \E r \in Requests : Step(r) \/ Fail(r)
  BY <1>3, InductiveFindUser, InductiveSetEntry, InductiveAnswerSignIn,
     InductiveValidate, InductiveAnswer, InductiveDelEntry,
     InductiveAnswerLogout, InductiveFail DEF Step
<1>4. CASE RestartRedis
  BY <1>4, InductiveRestart
<1>5. CASE (\E u \in Users : ExpireTokens(u)) \/ Snapshot \/ UNCHANGED vars
  BY <1>5, InductiveRest
<1> QED BY <1>1, <1>2, <1>3, <1>4, <1>5 DEF Next

LEMMA InductiveAlways == Spec => []Inductive
BY InductiveInit, InductiveStep, PTL DEF Spec

(* Every reachable state of the sign-ins is well-typed. *)
THEOREM TypeCorrect == Spec => []TypeOK
<1>1. Inductive => TypeOK
  BY DEF Inductive
<1> QED BY <1>1, InductiveAlways, PTL

(* A signed-in user whom nobody has begun to log out is never refused by   *)
(* the guards, whatever else goes on (access-token.strategy.ts:23).        *)
THEOREM SignedInServed == Spec => []SignedInIsServed
<1>1. Inductive => SignedInIsServed
  BY DEF Inductive, Held, SignedInIsServed
<1> QED BY <1>1, InductiveAlways, PTL

(* A user whose logout was answered is not let in by the guards until      *)
(* somebody begins to sign in with the right password.                     *)
THEOREM LoggedOutRefused == Spec => []LoggedOutIsRefused
<1>1. Inductive => LoggedOutIsRefused
  BY DEF Inductive, Held, LoggedOutIsRefused
<1> QED BY <1>1, InductiveAlways, PTL
=============================================================================
