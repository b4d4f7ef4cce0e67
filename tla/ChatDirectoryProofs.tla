------------------------ MODULE ChatDirectoryProofs ------------------------
(***************************************************************************)
(* Proofs about ChatDirectory, for any users, chats and requests.          *)
(*                                                                         *)
(* What makes the saves of createDialog safe is what is known of the       *)
(* tables at each: unless another request has saved the same dialog since, *)
(* one that waits to save has found no dialog and there still is none, and *)
(* one that waits to save again knows of no dialog but its own.            *)
(***************************************************************************)
EXTENDS ChatDirectory, FiniteSetTheorems, TLAPS

(* What the slots hold at each place. *)
InPlace ==
  \A r \in Requests :
    /\ at[r] # "idle" => job[r] \in Job
    /\ at[r] = "check" => /\ job[r].op \in {"chat", "dialog"}
                          /\ Cardinality(job[r].others) = 1
    /\ at[r] # "idle" /\ job[r].op = "dialog" => Cardinality(job[r].others) = 1
    /\ at[r] = "save" => job[r].op # "remove"
    /\ at[r] = "again" => job[r].op = "dialog"
    /\ at[r] \in {"again", "remove"} => job[r].chat \in Chats

DialogsAreOfTwo ==
  \A c \in Present : chats[c].type = "DIALOG" =>
    \E u, p \in Users : chats[c].users = {u, p}

(* What a createDialog knows of the dialogs of its users. *)
KnownTo(r, users) ==
  NewRow(job[r]).users = users /\ ~stale[r] =>
    /\ at[r] = "save" /\ job[r].op = "dialog" => Dialogs(users) = {}
    /\ at[r] = "again" => Dialogs(users) \subseteq {job[r].chat}

Known == \A r \in Requests, users \in SUBSET Users : KnownTo(r, users)

Inductive == TypeOK /\ InPlace /\ DialogsAreOfTwo /\ Known

-----------------------------------------------------------------------------
(* Helpers *)

LEMMA NewRowType ==
  ASSUME NEW j \in Job
  PROVE  /\ NewRow(j) \in Row
         /\ NewRow(j).type = "DIALOG" =>
              \E u, p \in Users : NewRow(j).users = {u, p}
         /\ j.op = "group" => NewRow(j).type # "DIALOG"
<1>1. j.user \in Users /\ j.others \in SUBSET Users
  BY DEF Job
<1>2. IsFiniteSet(j.others)
  BY <1>1, FS_Subset, ChatDirectoryAssumption
<1>3. Cardinality(j.others) = 1 => \E p \in Users : j.others = {p}
  BY <1>1, <1>2, FS_Singleton
<1> QED BY <1>1, <1>3 DEF NewRow, Row

(* A search of createDialog that finds nothing has missed nothing. *)
LEMMA NothingMissed ==
  ASSUME NEW j \in Job, j.op = "dialog", Cardinality(j.others) = 1, ~Found(j)
  PROVE  Dialogs(NewRow(j).users) = {}
<1>1. j.user \in Users /\ j.others \in SUBSET Users
  BY DEF Job
<1>2. IsFiniteSet(j.others)
  BY <1>1, FS_Subset, ChatDirectoryAssumption
<1>3. PICK p : j.others = {p}
  BY <1>2, FS_Singleton
<1>4. ~IsExistDialog(j.user, p)
  BY <1>3 DEF Found
<1>5. \A c \in Dialogs({j.user, p}) : IsExistDialog(j.user, p)
  BY DEF Dialogs, IsExistDialog, ChatsOf
<1>6. NewRow(j).users = {j.user, p}
  BY <1>3 DEF NewRow
<1> QED BY <1>4, <1>5, <1>6

-----------------------------------------------------------------------------
(* TypeOK and InPlace are preserved *)

LEMMA InitTypes == Init => TypeOK /\ InPlace
BY DEF Init, TypeOK, InPlace

(* The id that createDialog gets from its first save. *)
LEMMA WithChat ==
  ASSUME NEW j \in Job, NEW c \in Chats
  PROVE  LET k == [j EXCEPT !.chat = c]
         IN  /\ k \in Job /\ k.chat = c
             /\ k.op = j.op /\ k.user = j.user /\ k.others = j.others
             /\ NewRow(k) = NewRow(j)
BY DEF Job, NewRow

LEMMA TypesStep ==
  ASSUME TypeOK, InPlace, [Next]_vars
  PROVE  TypeOK' /\ InPlace'
<1> USE DEF TypeOK, InPlace
<1>1. ASSUME NEW r \in Requests, NEW u \in Users, NEW op \in AllOps \ {"remove"},
             NEW others \in SUBSET Users, StartCreate(r, op, u, others)
      PROVE  TypeOK' /\ InPlace'
  <2> DEFINE j == [op |-> op, user |-> u, others |-> others, chat |-> NoChat]
             where == IF op = "group" \/ Cardinality(others) # 1 THEN "save" ELSE "check"
  <2>1. /\ j \in Job /\ j.op = op /\ j.others = others
        /\ where \in {"save", "check"}
        /\ where = "check" => op \in {"chat", "dialog"} /\ Cardinality(others) = 1
        /\ op = "dialog" => Cardinality(others) = 1
    BY <1>1 DEF StartCreate, Job, AllOps
  <2>2. at' = [at EXCEPT ![r] = where] /\ job' = [job EXCEPT ![r] = j]
        /\ UNCHANGED <<chats, unused, stale>>
    BY <1>1 DEF StartCreate, Begin
  <2> HIDE DEF j, where
  <2> QED BY <2>1, <2>2
<1>2. ASSUME NEW r \in Requests, NEW u \in Users, NEW c \in Chats, StartRemove(r, u, c)
      PROVE  TypeOK' /\ InPlace'
  <2> DEFINE j == [op |-> "remove", user |-> u, others |-> {}, chat |-> c]
  <2>1. j \in Job /\ j.chat = c /\ j.op = "remove"
    BY DEF Job, AllOps
  <2>2. at' = [at EXCEPT ![r] = "remove"] /\ job' = [job EXCEPT ![r] = j]
        /\ UNCHANGED <<chats, unused, stale>>
    BY <1>2 DEF StartRemove, Begin
  <2> HIDE DEF j
  <2> QED BY <2>1, <2>2
<1>3. ASSUME NEW r \in Requests, Check(r) PROVE TypeOK' /\ InPlace'
  BY <1>3 DEF Check, End
<1>4. ASSUME NEW r \in Requests, Save(r) PROVE TypeOK' /\ InPlace'
  <2>1. job[r] \in Job /\ NewRow(job[r]) \in Row
    BY <1>4, NewRowType DEF Save
  <2>2. PICK c \in unused :
          /\ chats' = [chats EXCEPT ![c] = NewRow(job[r])]
          /\ unused' = unused \ {c}
          /\ IF job[r].op = "dialog"
               THEN /\ at' = [at EXCEPT ![r] = "again"]
                    /\ job' = [job EXCEPT ![r].chat = c]
               ELSE End(r)
    BY <1>4 DEF Save
  <2>3. stale' \in [Requests -> BOOLEAN]
    BY <1>4 DEF Save, Outdates
  <2>4. c \in Chats
    OBVIOUS
  <2>5. CASE job[r].op = "dialog"
    <3> DEFINE k == [job[r] EXCEPT !.chat = c]
    <3>1. job' = [job EXCEPT ![r] = k] /\ at' = [at EXCEPT ![r] = "again"]
      BY <2>2, <2>5
    <3>2. k \in Job /\ k.chat = c /\ k.op = "dialog" /\ Cardinality(k.others) = 1
      BY <1>4, <2>1, <2>4, <2>5, WithChat DEF Save
    <3> HIDE DEF k
    <3> QED BY <2>1, <2>2, <2>3, <2>4, <3>1, <3>2
  <2>6. CASE job[r].op # "dialog"
    <3>1. End(r) /\ chats' \in [Chats -> Row \cup {Absent}] /\ unused' \in SUBSET Chats
      BY <2>1, <2>2, <2>6
    <3>2. /\ job' \in [Requests -> Job \cup {Absent}]
          /\ at' \in [Requests -> {"idle", "check", "save", "again", "remove"}]
      BY <3>1 DEF End
    <3>3. InPlace'
      BY <3>1 DEF End
    <3> QED BY <2>3, <3>1, <3>2, <3>3
  <2> QED BY <2>5, <2>6
<1>5. ASSUME NEW r \in Requests, SaveAgain(r) PROVE TypeOK' /\ InPlace'
  <2>1. job[r] \in Job /\ NewRow(job[r]) \in Row
    BY <1>5, NewRowType DEF SaveAgain
  <2>2. stale' \in [Requests -> BOOLEAN]
    BY <1>5 DEF SaveAgain, Outdates
  <2> QED BY <1>5, <2>1, <2>2 DEF SaveAgain, End
<1>6. ASSUME NEW r \in Requests, Remove(r) PROVE TypeOK' /\ InPlace'
  BY <1>6 DEF Remove, End
<1>7. ASSUME NEW r \in Requests, Fail(r) PROVE TypeOK' /\ InPlace'
  BY <1>7 DEF Fail, End
<1>8. CASE UNCHANGED vars
  BY <1>8 DEF vars
<1> QED BY <1>1, <1>2, <1>3, <1>4, <1>5, <1>6, <1>7, <1>8 DEF Next

-----------------------------------------------------------------------------
(* DialogsAreOfTwo is preserved *)

(* The rows are old, gone, or the new one of a request. *)
LEMMA ChatsStep ==
  ASSUME TypeOK, InPlace, [Next]_vars
  PROVE  \/ \A c \in Chats : chats'[c] \in {chats[c], Absent}
         \/ \E r \in Requests, c \in Chats :
              /\ at[r] \in {"save", "again"}
              /\ chats' = [chats EXCEPT ![c] = NewRow(job[r])]
<1>1. ASSUME NEW r \in Requests, Save(r)
      PROVE  \E c \in Chats : chats' = [chats EXCEPT ![c] = NewRow(job[r])]
  BY <1>1 DEF Save, TypeOK
<1>2. ASSUME NEW r \in Requests, SaveAgain(r)
      PROVE  \E c \in Chats : chats' = [chats EXCEPT ![c] = NewRow(job[r])]
  BY <1>2 DEF SaveAgain, InPlace
<1>3. ASSUME NEW r \in Requests, Remove(r)
      PROVE  \A c \in Chats : chats'[c] \in {chats[c], Absent}
  BY <1>3 DEF Remove, TypeOK
<1>4. ASSUME NEW r \in Requests, Save(r) \/ SaveAgain(r)
      PROVE  at[r] \in {"save", "again"}
  BY <1>4 DEF Save, SaveAgain
<1> QED
  BY <1>1, <1>2, <1>3, <1>4 DEF Next, StartCreate, StartRemove, Begin, Check, Fail, vars

LEMMA OfTwoStep ==
  ASSUME TypeOK, InPlace, DialogsAreOfTwo, [Next]_vars
  PROVE  DialogsAreOfTwo'
<1>1. CASE \A c \in Chats : chats'[c] \in {chats[c], Absent}
  BY <1>1 DEF DialogsAreOfTwo, Present
<1>2. ASSUME NEW r \in Requests, NEW c \in Chats, at[r] \in {"save", "again"},
             chats' = [chats EXCEPT ![c] = NewRow(job[r])]
      PROVE  DialogsAreOfTwo'
  <2>1. job[r] \in Job
    BY <1>2 DEF InPlace
  <2>2. NewRow(job[r]).type = "DIALOG" =>
          \E u, p \in Users : NewRow(job[r]).users = {u, p}
    BY <2>1, NewRowType
  <2>3. \A d \in Chats : d # c => chats'[d] = chats[d]
    BY <1>2 DEF TypeOK
  <2>4. chats'[c] = NewRow(job[r])
    BY <1>2 DEF TypeOK
  <2> QED BY <2>2, <2>3, <2>4 DEF DialogsAreOfTwo, Present
<1> QED BY <1>1, <1>2, ChatsStep

-----------------------------------------------------------------------------
(* Known is preserved *)

(* A step that adds no dialog of the users and leaves a slot as it was, or *)
(* outside the saves.                                                      *)
LEMMA KnownToKept ==
  ASSUME NEW q \in Requests, NEW users, KnownTo(q, users),
         Dialogs(users)' \subseteq Dialogs(users),
         at'[q] \in {"save", "again"} =>
           at'[q] = at[q] /\ job'[q] = job[q] /\ stale'[q] = stale[q]
  PROVE  KnownTo(q, users)'
<1>1. CASE at'[q] \in {"save", "again"}
  <2>1. /\ at'[q] = at[q] /\ job'[q] = job[q] /\ stale'[q] = stale[q]
        /\ NewRow(job[q])' = NewRow(job[q])
    BY <1>1 DEF NewRow
  <2> QED BY <2>1 DEF KnownTo
<1>2. CASE at'[q] \notin {"save", "again"}
  BY <1>2 DEF KnownTo
<1> QED BY <1>1, <1>2

(* A save leaves only its own users with more dialogs. *)
LEMMA DialogsOfSave ==
  ASSUME TypeOK, NEW row \in Row, NEW c \in Chats,
         chats' = [chats EXCEPT ![c] = row], NEW users
  PROVE  /\ Dialogs(users)' \subseteq Dialogs(users) \cup {c}
         /\ row.users # users \/ row.type # "DIALOG" =>
              Dialogs(users)' \subseteq Dialogs(users)
BY DEF TypeOK, Dialogs, Present

(* A save outdates what it makes wrong: what the others know stays true.   *)
LEMMA OthersKnow ==
  ASSUME TypeOK, Known, NEW r \in Requests, job[r] \in Job, NEW c \in Chats,
         chats' = [chats EXCEPT ![c] = NewRow(job[r])], Outdates(r),
         NEW q \in Requests \ {r}, at'[q] = at[q], job'[q] = job[q],
         NEW users \in SUBSET Users
  PROVE  KnownTo(q, users)'
<1>1. NewRow(job[r]) \in Row /\ NewRow(job[q])' = NewRow(job[q])
  BY NewRowType DEF NewRow
<1>2. KnownTo(q, users)
  BY DEF Known
<1>3. stale'[q] <=>
        \/ stale[q]
        \/ /\ at[q] \in {"save", "again"}
           /\ NewRow(job[r]).type = "DIALOG"
           /\ NewRow(job[q]).users = NewRow(job[r]).users
  BY DEF Outdates
<1>4. SUFFICES ASSUME ~stale'[q], at[q] \in {"save", "again"},
                      NewRow(job[q]).users = users
               PROVE  KnownTo(q, users)'
  BY <1>1 DEF KnownTo
<1>5. ~stale[q] /\ (NewRow(job[r]).users # users \/ NewRow(job[r]).type # "DIALOG")
  BY <1>3, <1>4
<1>6. Dialogs(users)' \subseteq Dialogs(users)
  BY <1>1, <1>5, DialogsOfSave
<1> QED BY <1>1, <1>2, <1>4, <1>5, <1>6 DEF KnownTo

LEMMA DialogIsDialog ==
  ASSUME NEW j \in Job, j.op = "dialog", Cardinality(j.others) = 1
  PROVE  NewRow(j).type = "DIALOG"
BY DEF NewRow

(* A save by a createDialog that is not outdated leaves its users one      *)
(* dialog: the one it saved.                                               *)
LEMMA OnlyDialogOfSave ==
  ASSUME TypeOK, InPlace, Known, NEW r \in Requests, NEW c \in Chats, ~stale[r],
         \/ at[r] = "save" /\ job[r].op = "dialog"
         \/ at[r] = "again" /\ c = job[r].chat,
         chats' = [chats EXCEPT ![c] = NewRow(job[r])],
         NEW users \in SUBSET Users, NewRow(job[r]).users = users
  PROVE  Dialogs(users)' = {c}
<1>1. /\ job[r] \in Job /\ NewRow(job[r]) \in Row /\ NewRow(job[r]).type = "DIALOG"
  BY NewRowType, DialogIsDialog DEF InPlace
<1>2. Dialogs(users) \subseteq {c}
  BY DEF Known, KnownTo
<1>3. \A d \in Chats : d # c => chats'[d] = chats[d]
  BY DEF TypeOK
<1>4. c \in Present' /\ chats'[c] = NewRow(job[r])
  BY <1>1, ChatDirectoryAssumption DEF TypeOK, Present
<1>5. c \in Dialogs(users)'
  BY <1>1, <1>4 DEF Dialogs
<1>6. Dialogs(users)' \subseteq Dialogs(users) \cup {c}
  BY <1>3 DEF Dialogs, Present
<1> QED BY <1>2, <1>5, <1>6

LEMMA KnownStep ==
  ASSUME TypeOK, InPlace, Known, [Next]_vars
  PROVE  Known'
<1> SUFFICES ASSUME NEW q \in Requests, NEW users \in SUBSET Users
             PROVE  KnownTo(q, users)'
  BY DEF Known
<1>1. KnownTo(q, users)
  BY DEF Known
<1>2. ASSUME NEW r \in Requests, NEW j, NEW where \in {"save", "check", "remove"},
             Begin(r, j, where), where = "save" => j.op # "dialog"
      PROVE  KnownTo(q, users)'
  <2>1. /\ at' = [at EXCEPT ![r] = where] /\ job' = [job EXCEPT ![r] = j]
        /\ UNCHANGED <<chats, stale>>
    BY <1>2 DEF Begin
  <2>2. Dialogs(users)' = Dialogs(users)
    BY <2>1 DEF Dialogs, Present
  <2>3. CASE q = r
    BY <1>2, <2>1, <2>3 DEF KnownTo, TypeOK
  <2>4. CASE q # r
    <3>1. at'[q] = at[q] /\ job'[q] = job[q] /\ stale'[q] = stale[q]
      BY <2>1, <2>4 DEF TypeOK
    <3> QED BY <1>1, <2>2, <3>1, KnownToKept
  <2> QED BY <2>3, <2>4
<1>3. ASSUME NEW r \in Requests, NEW u \in Users, NEW op \in AllOps \ {"remove"},
             NEW others \in SUBSET Users, StartCreate(r, op, u, others)
      PROVE  KnownTo(q, users)'
  <2> DEFINE j == [op |-> op, user |-> u, others |-> others, chat |-> NoChat]
             where == IF op = "group" \/ Cardinality(others) # 1 THEN "save" ELSE "check"
  <2>1. /\ Begin(r, j, where) /\ where \in {"save", "check", "remove"}
        /\ where = "save" => j.op # "dialog"
    BY <1>3 DEF StartCreate
  <2> HIDE DEF j, where
  <2> QED BY <1>2, <2>1
<1>4. ASSUME NEW r \in Requests, NEW u \in Users, NEW c \in Chats, StartRemove(r, u, c)
      PROVE  KnownTo(q, users)'
  <2>1. \E j : Begin(r, j, "remove")
    BY <1>4 DEF StartRemove
  <2> QED BY <1>2, <2>1
<1>5. ASSUME NEW r \in Requests, Check(r) PROVE KnownTo(q, users)'
  <2>1. /\ UNCHANGED chats /\ at[r] = "check" /\ job[r] \in Job
        /\ Cardinality(job[r].others) = 1
    BY <1>5 DEF Check, InPlace
  <2>2. Dialogs(users)' = Dialogs(users)
    BY <2>1 DEF Dialogs, Present
  <2>3. CASE q = r /\ ~Found(job[r])
    <3>1. at'[r] = "save" /\ UNCHANGED job
      BY <1>5, <2>3 DEF Check, TypeOK
    <3>2. NewRow(job[r])' = NewRow(job[r])
      BY <3>1 DEF NewRow
    <3>3. job[r].op = "dialog" => Dialogs(NewRow(job[r]).users) = {}
      BY <2>1, <2>3, NothingMissed
    <3> QED BY <2>2, <2>3, <3>1, <3>2, <3>3 DEF KnownTo
  <2>4. CASE q = r /\ Found(job[r])
    <3>1. at'[q] = "idle"
      BY <1>5, <2>4 DEF Check, End, TypeOK
    <3> QED BY <3>1 DEF KnownTo
  <2>5. CASE q # r
    <3>1. at'[q] = at[q] /\ job'[q] = job[q] /\ stale'[q] = stale[q]
      BY <1>5, <2>5 DEF Check, End, TypeOK
    <3> QED BY <1>1, <2>2, <3>1, KnownToKept
  <2> QED BY <2>3, <2>4, <2>5
<1>6. ASSUME NEW r \in Requests, Save(r) PROVE KnownTo(q, users)'
  <2>1. at[r] = "save" /\ job[r] \in Job /\ Outdates(r)
    BY <1>6 DEF Save, InPlace
  <2>2. PICK c \in unused :
          /\ chats' = [chats EXCEPT ![c] = NewRow(job[r])]
          /\ IF job[r].op = "dialog"
               THEN /\ at' = [at EXCEPT ![r] = "again"]
                    /\ job' = [job EXCEPT ![r].chat = c]
               ELSE End(r)
    BY <1>6 DEF Save
  <2>3. c \in Chats
    BY DEF TypeOK
  <2>4. CASE q # r
    <3>1. at'[q] = at[q] /\ job'[q] = job[q]
      <4>1. CASE job[r].op = "dialog"
        BY <2>2, <2>4, <4>1 DEF TypeOK
      <4>2. CASE job[r].op # "dialog"
        BY <2>2, <2>4, <4>2 DEF End, TypeOK
      <4> QED BY <4>1, <4>2
    <3> QED BY <2>1, <2>2, <2>3, <2>4, <3>1, OthersKnow
  <2>5. CASE q = r /\ job[r].op = "dialog"
    <3>1. at'[q] = "again" /\ job'[q] = [job[r] EXCEPT !.chat = c]
      BY <2>2, <2>5 DEF TypeOK
    <3>2. job'[q].chat = c /\ NewRow(job'[q]) = NewRow(job[r])
      BY <2>1, <2>3, <3>1, WithChat
    <3>3. NewRow(job[q])' = NewRow(job[r])
      BY <3>2 DEF NewRow
    <3>4. stale'[q] <=> stale[r]
      BY <2>1, <2>5 DEF Outdates
    <3>5. ~stale[r] /\ NewRow(job[r]).users = users => Dialogs(users)' = {c}
      BY <2>1, <2>2, <2>3, <2>5, OnlyDialogOfSave
    <3> QED BY <3>1, <3>2, <3>3, <3>4, <3>5 DEF KnownTo
  <2>6. CASE q = r /\ job[r].op # "dialog"
    <3>1. at'[q] = "idle"
      BY <2>2, <2>6 DEF End, TypeOK
    <3> QED BY <3>1 DEF KnownTo
  <2> QED BY <2>4, <2>5, <2>6
<1>7. ASSUME NEW r \in Requests, SaveAgain(r) PROVE KnownTo(q, users)'
  <2>1. /\ at[r] = "again" /\ job[r] \in Job /\ job[r].chat \in Chats
        /\ chats' = [chats EXCEPT ![job[r].chat] = NewRow(job[r])]
        /\ Outdates(r) /\ at' = [at EXCEPT ![r] = "idle"]
        /\ job' = [job EXCEPT ![r] = Absent]
    BY <1>7 DEF SaveAgain, End, InPlace
  <2>2. CASE q # r
    <3>1. at'[q] = at[q] /\ job'[q] = job[q]
      BY <2>1, <2>2 DEF TypeOK
    <3> QED BY <2>1, <2>2, <3>1, OthersKnow
  <2>3. CASE q = r
    BY <2>1, <2>3 DEF KnownTo, TypeOK
  <2> QED BY <2>2, <2>3
<1>8. ASSUME NEW r \in Requests, Remove(r) \/ Fail(r) PROVE KnownTo(q, users)'
  <2>1. /\ at' = [at EXCEPT ![r] = "idle"] /\ job' = [job EXCEPT ![r] = Absent]
        /\ UNCHANGED stale
        /\ UNCHANGED chats \/ chats' = [chats EXCEPT ![job[r].chat] = Absent]
    BY <1>8 DEF Remove, Fail, End
  <2>2. Dialogs(users)' \subseteq Dialogs(users)
    BY <2>1 DEF Dialogs, Present, TypeOK
  <2>3. at'[q] \in {"save", "again"} =>
          at'[q] = at[q] /\ job'[q] = job[q] /\ stale'[q] = stale[q]
    BY <2>1 DEF TypeOK
  <2> QED BY <1>1, <2>2, <2>3, KnownToKept
<1>9. CASE UNCHANGED vars
  <2>1. Dialogs(users)' = Dialogs(users)
    BY <1>9 DEF vars, Dialogs, Present
  <2> QED BY <1>1, <1>9, <2>1, KnownToKept DEF vars
<1> QED BY <1>3, <1>4, <1>5, <1>6, <1>7, <1>8, <1>9 DEF Next

-----------------------------------------------------------------------------
(* The theorems *)

LEMMA InductiveInit == Init => Inductive
BY InitTypes
DEF Inductive, Init, DialogsAreOfTwo, Known, KnownTo, Dialogs, Present

LEMMA InductiveStep == Inductive /\ [Next]_vars => Inductive'
BY TypesStep, OfTwoStep, KnownStep DEF Inductive

LEMMA AlwaysInductive == Spec => []Inductive
BY InductiveInit, InductiveStep, PTL DEF Spec

(* Every variable keeps its type, whichever of the creations and removals  *)
(* of ChatsService run at once.                                            *)
THEOREM TypeCorrect == Spec => []TypeOK
BY AlwaysInductive, PTL DEF Inductive

(* The slot that saves goes on: to its second save, or to its end. *)
LEMMA SaveMoves ==
  ASSUME TypeOK, InPlace, [Next]_vars
  PROVE  \/ \A users : Dialogs(users)' \subseteq Dialogs(users)
         \/ \E r \in Requests, c \in Chats :
              /\ at'[r] # at[r] /\ job[r] \in Job
              /\ chats' = [chats EXCEPT ![c] = NewRow(job[r])]
              /\ \/ at[r] = "save" /\ job[r].op # "remove"
                 \/ at[r] = "again" /\ c = job[r].chat
<1>1. ASSUME NEW r \in Requests, Save(r)
      PROVE  /\ at[r] = "save" /\ at'[r] # at[r] /\ job[r] \in Job
             /\ job[r].op # "remove"
             /\ \E c \in Chats : chats' = [chats EXCEPT ![c] = NewRow(job[r])]
  BY <1>1 DEF Save, End, TypeOK, InPlace
<1>2. ASSUME NEW r \in Requests, SaveAgain(r)
      PROVE  /\ at[r] = "again" /\ at'[r] # at[r] /\ job[r] \in Job
             /\ job[r].chat \in Chats
             /\ chats' = [chats EXCEPT ![job[r].chat] = NewRow(job[r])]
  BY <1>2 DEF SaveAgain, End, TypeOK, InPlace
<1>3. ASSUME NEW r \in Requests, Remove(r)
      PROVE  \A users : Dialogs(users)' \subseteq Dialogs(users)
  BY <1>3 DEF Remove, TypeOK, Dialogs, Present
<1>4. ASSUME UNCHANGED chats
      PROVE  \A users : Dialogs(users)' \subseteq Dialogs(users)
  BY <1>4 DEF Dialogs, Present
<1> QED
  BY <1>1, <1>2, <1>3, <1>4
  DEF Next, StartCreate, StartRemove, Begin, Check, Fail, vars

LEMMA DialogsStayUniqueStep ==
  ASSUME Inductive, [Next]_vars, NEW users \in SUBSET Users
  PROVE  \/ Dialogs(users)' \subseteq Dialogs(users)
         \/ Cardinality(Dialogs(users)') <= 1
         \/ Excused(users)
<1> USE DEF Inductive
<1>1. CASE \A us : Dialogs(us)' \subseteq Dialogs(us)
  BY <1>1
<1>2. ASSUME NEW r \in Requests, NEW c \in Chats, at'[r] # at[r], job[r] \in Job,
             chats' = [chats EXCEPT ![c] = NewRow(job[r])],
             \/ at[r] = "save" /\ job[r].op # "remove"
             \/ at[r] = "again" /\ c = job[r].chat,
             ~(Dialogs(users)' \subseteq Dialogs(users)), ~Excused(users)
      PROVE  Cardinality(Dialogs(users)') <= 1
  <2>1. NewRow(job[r]).users = users /\ NewRow(job[r]).type = "DIALOG"
    BY <1>2, NewRowType, DialogsOfSave
  <2>2. job[r].op # "chat" /\ ~stale[r]
    BY <1>2, <2>1 DEF Excused
  <2>3. at[r] = "save" => job[r].op = "dialog"
    BY <1>2, <2>1, <2>2, NewRowType DEF Job, AllOps
  <2>4. Dialogs(users)' = {c}
    BY <1>2, <2>1, <2>2, <2>3, OnlyDialogOfSave
  <2>5. Cardinality({c}) = 1
    BY FS_Singleton
  <2> QED BY <2>4, <2>5
<1> QED BY <1>1, <1>2, SaveMoves

(* A step that adds a dialog leaves its users with that one alone, for any *)
(* number of users, chats and requests, unless the step is by create-chat  *)
(* or by a createDialog that another save of the dialog overtook since its *)
(* search: the search before the first save, and the second save of the    *)
(* same entity, are then safe whatever happened before.                    *)
THEOREM OneDialogOnly == Spec => DialogsStayUnique
<1>1. Inductive /\ [Next]_vars =>
        [\A users \in SUBSET Users :
           \/ Dialogs(users)' \subseteq Dialogs(users)
           \/ Cardinality(Dialogs(users)') <= 1
           \/ Excused(users)]_vars
  BY DialogsStayUniqueStep
<1> QED BY <1>1, AlwaysInductive, PTL DEF Spec, DialogsStayUnique

(* isExistDialog answers for two different users exactly whether the       *)
(* tables have a dialog of these two, whatever else the tables hold: it    *)
(* rests on every dialog being of two users.                               *)
THEOREM IsExistDialogExact == Spec => []IsExistDialogIsExact
<1>1. Inductive => IsExistDialogIsExact
  <2> SUFFICES ASSUME Inductive, NEW u \in Users, NEW p \in Users \ {u}
               PROVE  IsExistDialog(u, p) <=> Dialogs({u, p}) # {}
    BY DEF IsExistDialogIsExact
  <2>1. ASSUME IsExistDialog(u, p) PROVE Dialogs({u, p}) # {}
    <3>1. PICK c \in ChatsOf(u) \cup ChatsOf(p) :
            /\ chats[c].type = "DIALOG"
            /\ p \in chats[c].users \cap {u, p} <=> u \in chats[c].users \cap {u, p}
      BY <2>1 DEF IsExistDialog
    <3>2. c \in Present /\ u \in chats[c].users /\ p \in chats[c].users
      BY <3>1 DEF ChatsOf
    <3>3. chats[c].users = {u, p}
      BY <3>1, <3>2 DEF Inductive, DialogsAreOfTwo
    <3> QED BY <3>1, <3>2, <3>3 DEF Dialogs
  <2>2. ASSUME NEW c \in Dialogs({u, p}) PROVE IsExistDialog(u, p)
    BY DEF Dialogs, IsExistDialog, ChatsOf
  <2> QED BY <2>1, <2>2
<1> QED BY <1>1, AlwaysInductive, PTL
=============================================================================
