------------------------- MODULE MessageStoreProofs -------------------------
(* Theorems about MessageStore, and that it implements MessageVersions, for *)
(* any number of users, chats, messages, statuses, texts and requests in    *)
(* flight.                                                                  *)
EXTENDS MessageHistory, TLAPS

-----------------------------------------------------------------------------
(* Types *)

(* A slot that ends keeps its types. *)
LEMMA EndType ==
  ASSUME NEW r \in Requests, TypeOK, End(r)
  PROVE  /\ pc' \in [Requests -> PCs]
         /\ job' \in [Requests -> Job \cup {Absent}]
         /\ \A q \in Requests : pc'[q] # "idle" => job'[q] \in Job
         /\ found' \in [Requests -> [Messages -> Row \cup {Absent}]]
         /\ loaded' \in [Requests -> [Messages -> Row \cup {Absent}]]
BY DEF TypeOK, End, PCs, Nothing

LEMMA GotoType ==
  ASSUME NEW r \in Requests, TypeOK, pc[r] # "idle",
         NEW where \in PCs, Goto(r, where)
  PROVE  /\ pc' \in [Requests -> PCs]
         /\ job' \in [Requests -> Job \cup {Absent}]
         /\ \A q \in Requests : pc'[q] # "idle" => job'[q] \in Job
         /\ found' \in [Requests -> [Messages -> Row \cup {Absent}]]
         /\ loaded' \in [Requests -> [Messages -> Row \cup {Absent}]]
BY DEF TypeOK, Goto

LEMMA BeginType ==
  ASSUME NEW r \in Requests, TypeOK, NEW j \in Job, NEW where \in PCs,
         Begin(r, j, where)
  PROVE  /\ chats' \in SUBSET Chats
         /\ messages' \in [Messages -> Row \cup {Absent}]
         /\ pc' \in [Requests -> PCs]
         /\ job' \in [Requests -> Job \cup {Absent}]
         /\ \A q \in Requests : pc'[q] # "idle" => job'[q] \in Job
         /\ loaded' \in [Requests -> [Messages -> Row \cup {Absent}]]
         /\ origin' \in [Messages -> Row \cup {Absent}]
         /\ dirty' \in [Requests -> BOOLEAN]
BY DEF TypeOK, Begin, store

LEMMA PickType ==
  ASSUME TypeOK, NEW S
  PROVE  Pick(S) \in [Messages -> Row \cup {Absent}]
BY DEF TypeOK, Pick

LEMMA SoilType ==
  ASSUME TypeOK, NEW r \in Requests, NEW T
  PROVE  Soil(r, T) \in [Requests -> BOOLEAN]
BY DEF TypeOK, Soil

(* What a job or a row is made of. *)
LEMMA RowFields ==
  ASSUME NEW row \in Row
  PROVE  /\ row.chat \in Chats
         /\ row.user \in Users
         /\ row.text \in Texts \cup {NoText}
         /\ row.status \in Statuses
         /\ row.readers \in SUBSET Users
BY DEF Row

LEMMA NewRowType ==
  ASSUME NEW j \in Job
  PROVE  NewRow(j) \in Row
BY MessageStoreAssumption DEF Job, NewRow, Row

LEMMA EditedType ==
  ASSUME NEW j \in Job, NEW row \in Row
  PROVE  /\ Edited(j, row) \in Row
         /\ Edited(j, row).chat = row.chat
         /\ Edited(j, row).user = row.user
         /\ Edited(j, row).text = row.text
         /\ Edited(j, row).status = IF j.op = "status" THEN j.status ELSE row.status
         /\ Edited(j, row).readers =
              IF j.op = "read" THEN row.readers \cup {j.user} ELSE row.readers
BY DEF Job, Row, Edited

LEMMA UpdatedType ==
  ASSUME NEW now \in Row, NEW was \in Row, NEW entity \in Row,
         NEW byReference \in BOOLEAN
  PROVE  Updated(now, was, entity, byReference) \in Row
BY DEF Row, Updated, Column

LEMMA TypeInit == Init => TypeOK
BY DEF Init, TypeOK, PCs, Nothing

LEMMA ArriveType ==
  ASSUME TypeOK, NEW r \in Requests, Arrive(r)
  PROVE  TypeOK'
<1>1. PICK u \in Users, c \in Chats :
        \/ \E t \in Texts \cup {NoText}, f \in BOOLEAN : StartCreate(r, u, c, t, f)
        \/ \E ids \in SUBSET Messages : StartRead(r, u, c, ids)
        \/ \E ids \in SUBSET Messages, s \in Statuses : StartStatus(r, u, c, ids, s)
        \/ \E m \in Messages, t \in Texts : StartEdit(r, u, c, m, t)
        \/ \E m \in Messages : StartDelete(r, u, c, m)
        \/ StartClear(r, u, c)
        \/ StartDrop(r, u, c)
  BY DEF Arrive
<1>2. ASSUME NEW t \in Texts \cup {NoText}, NEW f \in BOOLEAN, StartCreate(r, u, c, t, f)
      PROVE  TypeOK'
  <2> DEFINE j == [op |-> "create", user |-> u, chat |-> c, ids |-> {},
                   text |-> t, status |-> SENT]
  <2>1. j \in Job
    BY MessageStoreAssumption DEF Job, AllOps
  <2>2. Begin(r, j, "insert") /\ UNCHANGED <<found, issued, requested>>
    BY <1>2 DEF StartCreate
  <2> HIDE DEF j
  <2> QED BY <2>1, <2>2, BeginType DEF TypeOK, PCs
<1>3. ASSUME NEW ids \in SUBSET Messages, StartRead(r, u, c, ids)
      PROVE  TypeOK'
  <2> DEFINE j == [op |-> "read", user |-> u, chat |-> c, ids |-> ids,
                   text |-> NoText, status |-> SENT]
  <2>1. j \in Job
    BY MessageStoreAssumption DEF Job, AllOps
  <2>2. Begin(r, j, "find") /\ UNCHANGED <<found, requested>>
    BY <1>3 DEF StartRead
  <2>3. issued' \in SUBSET (Messages \X Users \X Chats)
    BY <1>3 DEF StartRead, TypeOK
  <2> HIDE DEF j
  <2> QED BY <2>1, <2>2, <2>3, BeginType DEF TypeOK, PCs
<1>4. ASSUME NEW ids \in SUBSET Messages, NEW s \in Statuses, StartStatus(r, u, c, ids, s)
      PROVE  TypeOK'
  <2> DEFINE j == [op |-> "status", user |-> u, chat |-> c, ids |-> ids,
                   text |-> NoText, status |-> s]
  <2>1. j \in Job
    BY DEF Job, AllOps
  <2>2. Begin(r, j, "find") /\ UNCHANGED <<found, issued>>
    BY <1>4 DEF StartStatus
  <2>3. requested' \in SUBSET (Messages \X Statuses)
    BY <1>4 DEF StartStatus, TypeOK
  <2> HIDE DEF j
  <2> QED BY <2>1, <2>2, <2>3, BeginType DEF TypeOK, PCs
<1>5. ASSUME NEW m \in Messages, NEW t \in Texts, StartEdit(r, u, c, m, t)
      PROVE  TypeOK'
  <2> DEFINE j == [op |-> "edit", user |-> u, chat |-> c, ids |-> {m},
                   text |-> t, status |-> SENT]
  <2>1. j \in Job
    BY MessageStoreAssumption DEF Job, AllOps
  <2>2. Begin(r, j, "find") /\ UNCHANGED <<found, issued, requested>>
    BY <1>5 DEF StartEdit
  <2> HIDE DEF j
  <2> QED BY <2>1, <2>2, BeginType DEF TypeOK, PCs
<1>6. ASSUME NEW m \in Messages, StartDelete(r, u, c, m)
      PROVE  TypeOK'
  <2> DEFINE j == [op |-> "delete", user |-> u, chat |-> c, ids |-> {m},
                   text |-> NoText, status |-> SENT]
  <2>1. j \in Job
    BY MessageStoreAssumption DEF Job, AllOps
  <2>2. Begin(r, j, "find") /\ UNCHANGED <<found, issued, requested>>
    BY <1>6 DEF StartDelete
  <2> HIDE DEF j
  <2> QED BY <2>1, <2>2, BeginType DEF TypeOK, PCs
<1>7. ASSUME StartClear(r, u, c)
      PROVE  TypeOK'
  <2> DEFINE j == [op |-> "clear", user |-> u, chat |-> c, ids |-> {},
                   text |-> NoText, status |-> SENT]
             rows == {m \in Present(messages) : messages[m].chat = c}
             where == IF rows # {} THEN "remove" ELSE "publish"
  <2>1. j \in Job /\ where \in PCs
    BY MessageStoreAssumption DEF Job, AllOps, PCs
  <2>2. /\ Begin(r, j, where)
        /\ found' = [found EXCEPT ![r] = Pick(rows)]
        /\ UNCHANGED <<issued, requested>>
    BY <1>7 DEF StartClear
  <2> HIDE DEF j, rows, where
  <2>3. found' \in [Requests -> [Messages -> Row \cup {Absent}]]
    BY <2>2, PickType DEF TypeOK
  <2> QED BY <2>1, <2>2, <2>3, BeginType DEF TypeOK
<1>8. ASSUME StartDrop(r, u, c)
      PROVE  TypeOK'
  <2> DEFINE j == [op |-> "drop", user |-> u, chat |-> c, ids |-> {},
                   text |-> NoText, status |-> SENT]
  <2>1. j \in Job
    BY MessageStoreAssumption DEF Job, AllOps
  <2>2. Begin(r, j, "drop") /\ UNCHANGED <<found, issued, requested>>
    BY <1>8 DEF StartDrop
  <2> HIDE DEF j
  <2> QED BY <2>1, <2>2, BeginType DEF TypeOK, PCs
<1> QED BY <1>1, <1>2, <1>3, <1>4, <1>5, <1>6, <1>7, <1>8

LEMMA StepType ==
  ASSUME TypeOK, NEW r \in Requests, Step(r)
  PROVE  TypeOK'
<1>1. CASE Insert(r)
  <2>1. job[r] \in Job /\ NewRow(job[r]) \in Row
    BY <1>1, NewRowType DEF TypeOK, Insert
  <2>2. CASE /\ ChatKey(NewRow(job[r]))
             /\ \E m \in Messages \ Present(origin) :
                  /\ messages' = [messages EXCEPT ![m] = NewRow(job[r])]
                  /\ origin' = [origin EXCEPT ![m] = NewRow(job[r])]
             /\ Goto(r, "publish")
    <3>1. /\ messages' \in [Messages -> Row \cup {Absent}]
          /\ origin' \in [Messages -> Row \cup {Absent}]
      BY <2>1, <2>2 DEF TypeOK
    <3> QED BY <1>1, <2>2, <3>1, GotoType DEF TypeOK, Insert, PCs
  <2>3. CASE End(r) /\ UNCHANGED <<messages, origin>>
    BY <1>1, <2>3, EndType DEF TypeOK, Insert
  <2> QED BY <1>1, <2>2, <2>3 DEF Insert
<1>2. CASE Find(r)
  <2> DEFINE rows == {m \in Present(messages) \cap job[r].ids :
                        Matches(job[r], messages[m])}
  <2>1. dirty' \in [Requests -> BOOLEAN]
    BY <1>2 DEF TypeOK, Find
  <2>2. CASE /\ found' = [found EXCEPT ![r] = Pick(rows)]
             /\ pc' = [pc EXCEPT ![r] = IF job[r].op = "delete"
                                          THEN "remove" ELSE "load"]
             /\ UNCHANGED <<job, loaded>>
    <3>1. Pick(rows) \in [Messages -> Row \cup {Absent}]
      BY PickType
    <3> HIDE DEF rows
    <3>2. pc[r] = "find"
      BY <1>2 DEF Find
    <3>3. /\ pc' \in [Requests -> PCs]
          /\ \A q \in Requests : pc'[q] # "idle" => job'[q] \in Job
      BY <2>2, <3>2 DEF TypeOK, PCs
    <3> QED BY <1>2, <2>1, <2>2, <3>1, <3>3 DEF TypeOK, Find, store
  <2>3. CASE End(r)
    BY <1>2, <2>1, <2>3, EndType DEF TypeOK, Find, store
  <2> QED BY <1>2, <2>2, <2>3 DEF Find
<1>3. CASE Load(r)
  <2>1. Pick(Present(found[r])) \in [Messages -> Row \cup {Absent}]
    BY PickType
  <2> QED BY <1>3, <2>1 DEF TypeOK, Load, PCs, store, history
<1>4. CASE Write(r)
  <2> DEFINE entities == Present(found[r])
             inserts == entities \ Present(loaded[r])
  <2>1. job[r] \in Job /\ pc[r] # "idle"
    BY <1>4 DEF TypeOK, Write
  <2>2. CASE /\ \E byReference \in BOOLEAN :
                  messages' = [m \in Messages |->
                    IF m \in inserts THEN Edited(job[r], found[r][m])
                    ELSE IF m \in entities \cap Present(messages)
                    THEN Updated(messages[m], loaded[r][m],
                                 Edited(job[r], found[r][m]), byReference)
                    ELSE messages[m]]
             /\ dirty' = Soil(r, entities)
             /\ Goto(r, "publish")
    <3>1. PICK byReference \in BOOLEAN :
            messages' = [m \in Messages |->
              IF m \in inserts THEN Edited(job[r], found[r][m])
              ELSE IF m \in entities \cap Present(messages)
              THEN Updated(messages[m], loaded[r][m],
                           Edited(job[r], found[r][m]), byReference)
              ELSE messages[m]]
      BY <2>2
    <3>2. ASSUME NEW m \in entities
          PROVE  Edited(job[r], found[r][m]) \in Row
      <4>1. found[r][m] \in Row
        BY <3>2 DEF TypeOK, Present
      <4> QED BY <2>1, <4>1, EditedType
    <3>3. ASSUME NEW m \in entities, m \in Present(messages), m \notin inserts
          PROVE  Updated(messages[m], loaded[r][m],
                         Edited(job[r], found[r][m]), byReference) \in Row
      <4>1. messages[m] \in Row /\ loaded[r][m] \in Row
        BY <3>3 DEF TypeOK, Present
      <4> QED BY <3>2, <4>1, UpdatedType
    <3>4. messages' \in [Messages -> Row \cup {Absent}]
      BY <3>1, <3>2, <3>3 DEF TypeOK
    <3>5. dirty' \in [Requests -> BOOLEAN]
      BY <2>2, SoilType
    <3> QED BY <1>4, <2>1, <2>2, <3>4, <3>5, GotoType DEF TypeOK, Write, PCs
  <2>3. CASE End(r) /\ UNCHANGED <<messages, dirty>>
    BY <1>4, <2>3, EndType DEF TypeOK, Write
  <2> QED BY <1>4, <2>2, <2>3 DEF Write
<1>5. CASE Remove(r)
  <2>1. messages' \in [Messages -> Row \cup {Absent}]
    BY <1>5 DEF TypeOK, Remove
  <2>2. dirty' \in [Requests -> BOOLEAN]
    BY <1>5, SoilType DEF Remove
  <2> QED BY <1>5, <2>1, <2>2, GotoType DEF TypeOK, Remove, PCs
<1>6. CASE Drop(r)
  <2>1. /\ messages' \in [Messages -> Row \cup {Absent}]
        /\ chats' \in SUBSET Chats
    BY <1>6 DEF TypeOK, Drop
  <2>2. dirty' \in [Requests -> BOOLEAN]
    BY <1>6, SoilType DEF Drop
  <2> QED BY <1>6, <2>1, <2>2, GotoType DEF TypeOK, Drop, PCs
<1>7. CASE Publish(r)
  BY <1>7, EndType DEF TypeOK, Publish, store, history
<1> QED BY <1>1, <1>2, <1>3, <1>4, <1>5, <1>6, <1>7 DEF Step

LEMMA TypeStep == TypeOK /\ [Next]_vars => TypeOK'
<1> SUFFICES ASSUME TypeOK, [Next]_vars PROVE TypeOK'
  OBVIOUS
<1>1. CASE UNCHANGED vars
  BY <1>1 DEF TypeOK, vars
<1>2. CASE Next
  <2>1. PICK r \in Requests : Arrive(r) \/ Step(r) \/ Fail(r)
    BY <1>2 DEF Next
  <2>2. CASE Fail(r)
    BY <2>2, EndType DEF TypeOK, Fail, store, history
  <2> QED BY <2>1, <2>2, ArriveType, StepType
<1> QED BY <1>1, <1>2

(* Every variable keeps its type in every execution: in particular no      *)
(* handler saves an incomplete row.                                        *)
THEOREM TypeCorrect == Spec => []TypeOK
BY TypeInit, TypeStep, PTL DEF Spec

-----------------------------------------------------------------------------
(* The contents of the rows.  A row is judged against the row its message   *)
(* was first inserted with (from) and against what clients have asked for;  *)
(* so are the copies that a handler holds, because it may save them.        *)

Sound(m, row, from, asked, wanted) ==
  /\ from # Absent
  /\ row.chat = from.chat
  /\ row.user = from.user
  /\ row.text = from.text
  /\ \A u \in row.readers : <<m, u, row.chat>> \in asked /\ u # row.user
  /\ row.status = SENT \/ <<m, row.status>> \in wanted

RowsSound ==
  \A m \in Messages : messages[m] # Absent
    => Sound(m, messages[m], origin[m], issued, requested)

CopiesSound ==
  \A r \in Requests, m \in Messages :
    /\ found[r][m] # Absent
         => Sound(m, found[r][m], origin[m], issued, requested)
    /\ loaded[r][m] # Absent
         => Sound(m, loaded[r][m], origin[m], issued, requested)

(* What a handler of read-messages or change-status-messages was asked is  *)
(* on record, and the messages it found are among those it was asked for.  *)
JobsOnRecord ==
  \A r \in Requests : pc[r] \in {"find", "load", "write"} =>
    /\ job[r].op = "read" =>
         \A m \in job[r].ids : <<m, job[r].user, job[r].chat>> \in issued
    /\ job[r].op = "status" =>
         \A m \in job[r].ids : <<m, job[r].status>> \in requested

FoundAskedFor ==
  \A r \in Requests, m \in Messages :
    pc[r] \in {"load", "write"} /\ found[r][m] # Absent =>
      m \in job[r].ids /\ Matches(job[r], found[r][m])

Inductive ==
  /\ TypeOK
  /\ RowsSound
  /\ CopiesSound
  /\ JobsOnRecord
  /\ FoundAskedFor
  /\ NoMessageOutlivesItsChat

(* A sound row stays sound while the records of what was asked only grow.  *)
LEMMA SoundGrows ==
  ASSUME NEW m, NEW row, NEW from, NEW asked, NEW wanted,
         NEW asked1, NEW wanted1, asked \subseteq asked1, wanted \subseteq wanted1,
         Sound(m, row, from, asked, wanted)
  PROVE  Sound(m, row, from, asked1, wanted1)
BY DEF Sound

LEMMA InductiveInit == Init => Inductive
BY TypeInit
   DEF Init, Inductive, RowsSound, CopiesSound, JobsOnRecord, FoundAskedFor,
       NoMessageOutlivesItsChat, Present, Nothing

(* A slot that ends holds no copy and no job. *)
LEMMA EndCopies ==
  ASSUME NEW r \in Requests, Inductive, End(r),
         UNCHANGED <<origin, issued, requested>>
  PROVE  CopiesSound' /\ JobsOnRecord' /\ FoundAskedFor'
BY DEF End, Inductive, TypeOK, CopiesSound, JobsOnRecord, FoundAskedFor, Nothing

(* A slot that goes on to publish keeps its copies and forgets nothing.    *)
LEMMA PublishCopies ==
  ASSUME NEW r \in Requests, Inductive, Goto(r, "publish"),
         UNCHANGED <<origin, issued, requested>>
  PROVE  CopiesSound' /\ JobsOnRecord' /\ FoundAskedFor'
BY DEF Goto, Inductive, TypeOK, CopiesSound, JobsOnRecord, FoundAskedFor

(* The rows a query returns are sound copies. *)
LEMMA PickSound ==
  ASSUME Inductive, NEW S, NEW m \in Messages, Pick(S)[m] # Absent
  PROVE  /\ m \in S
         /\ Pick(S)[m] = messages[m]
         /\ Sound(m, Pick(S)[m], origin[m], issued, requested)
BY DEF Inductive, RowsSound, Pick

(* A request that arrives leaves rows and copies alone; what it asks is    *)
(* put on record.                                                          *)
LEMMA BeginKeeps ==
  ASSUME NEW r \in Requests, Inductive, NEW j \in Job,
         NEW where \in PCs \ {"load", "write"}, Begin(r, j, where),
         issued \subseteq issued', requested \subseteq requested',
         \A q \in Requests : q # r => found'[q] = found[q],
         \A m \in Messages : found'[r][m] # Absent =>
           Sound(m, found'[r][m], origin[m], issued, requested),
         where = "find" /\ j.op = "read" =>
           \A m \in j.ids : <<m, j.user, j.chat>> \in issued',
         where = "find" /\ j.op = "status" =>
           \A m \in j.ids : <<m, j.status>> \in requested'
  PROVE  /\ RowsSound' /\ CopiesSound' /\ JobsOnRecord' /\ FoundAskedFor'
         /\ NoMessageOutlivesItsChat'
<1>0. /\ pc \in [Requests -> PCs]
      /\ job \in [Requests -> Job \cup {Absent}]
      /\ pc' = [pc EXCEPT ![r] = where]
      /\ job' = [job EXCEPT ![r] = j]
      /\ UNCHANGED <<chats, messages, loaded, origin>>
  BY DEF Inductive, TypeOK, Begin, store
<1>1. RowsSound'
  BY <1>0, SoundGrows DEF Inductive, RowsSound
<1>2. CopiesSound'
  <2>1. ASSUME NEW q \in Requests, NEW m \in Messages, found'[q][m] # Absent
        PROVE  Sound(m, found'[q][m], origin'[m], issued', requested')
    <3>1. Sound(m, found'[q][m], origin[m], issued, requested)
      BY <2>1 DEF Inductive, CopiesSound
    <3> QED BY <1>0, <3>1, SoundGrows
  <2>2. ASSUME NEW q \in Requests, NEW m \in Messages, loaded'[q][m] # Absent
        PROVE  Sound(m, loaded'[q][m], origin'[m], issued', requested')
    <3>1. Sound(m, loaded'[q][m], origin[m], issued, requested)
      BY <1>0, <2>2 DEF Inductive, CopiesSound
    <3> QED BY <1>0, <3>1, SoundGrows
  <2> QED BY <2>1, <2>2 DEF CopiesSound
<1>3. JobsOnRecord'
  BY <1>0 DEF Inductive, JobsOnRecord, PCs
<1>4. FoundAskedFor'
  BY <1>0 DEF Inductive, FoundAskedFor, PCs
<1>5. NoMessageOutlivesItsChat'
  BY <1>0 DEF Inductive, NoMessageOutlivesItsChat, Present
<1> QED BY <1>1, <1>2, <1>3, <1>4, <1>5

LEMMA ArriveInductive ==
  ASSUME Inductive, NEW r \in Requests, Arrive(r)
  PROVE  /\ RowsSound' /\ CopiesSound' /\ JobsOnRecord' /\ FoundAskedFor'
         /\ NoMessageOutlivesItsChat'
<1>0. PICK u \in Users, c \in Chats :
        \/ \E t \in Texts \cup {NoText}, f \in BOOLEAN : StartCreate(r, u, c, t, f)
        \/ \E ids \in SUBSET Messages : StartRead(r, u, c, ids)
        \/ \E ids \in SUBSET Messages, s \in Statuses : StartStatus(r, u, c, ids, s)
        \/ \E m \in Messages, t \in Texts : StartEdit(r, u, c, m, t)
        \/ \E m \in Messages : StartDelete(r, u, c, m)
        \/ StartClear(r, u, c)
        \/ StartDrop(r, u, c)
  BY DEF Arrive
<1>a. \A m \in Messages : found[r][m] # Absent =>
        Sound(m, found[r][m], origin[m], issued, requested)
  BY DEF Inductive, CopiesSound
(* The requests that put nothing on record and read nothing. *)
<1>b. ASSUME NEW j \in Job, NEW where \in PCs \ {"load", "write"},
             Begin(r, j, where), UNCHANGED <<found, issued, requested>>,
             j.op \notin {"read", "status"}
      PROVE  /\ RowsSound' /\ CopiesSound' /\ JobsOnRecord' /\ FoundAskedFor'
             /\ NoMessageOutlivesItsChat'
  BY <1>a, <1>b, BeginKeeps
<1>1. ASSUME NEW t \in Texts \cup {NoText}, NEW f \in BOOLEAN, StartCreate(r, u, c, t, f)
      PROVE  /\ RowsSound' /\ CopiesSound' /\ JobsOnRecord' /\ FoundAskedFor'
             /\ NoMessageOutlivesItsChat'
  <2> DEFINE j == [op |-> "create", user |-> u, chat |-> c, ids |-> {},
                   text |-> t, status |-> SENT]
  <2>1. j \in Job /\ j.op = "create"
    BY MessageStoreAssumption DEF Job, AllOps
  <2>2. Begin(r, j, "insert") /\ UNCHANGED <<found, issued, requested>>
    BY <1>1 DEF StartCreate
  <2> HIDE DEF j
  <2> QED BY <1>b, <2>1, <2>2 DEF PCs
<1>2. ASSUME NEW ids \in SUBSET Messages, StartRead(r, u, c, ids)
      PROVE  /\ RowsSound' /\ CopiesSound' /\ JobsOnRecord' /\ FoundAskedFor'
             /\ NoMessageOutlivesItsChat'
  <2> DEFINE j == [op |-> "read", user |-> u, chat |-> c, ids |-> ids,
                   text |-> NoText, status |-> SENT]
  <2>1. /\ j \in Job /\ j.op = "read"
        /\ \A m \in j.ids : <<m, j.user, j.chat>> \in issued \cup (ids \X {u} \X {c})
    BY MessageStoreAssumption DEF Job, AllOps
  <2>2. /\ Begin(r, j, "find")
        /\ UNCHANGED <<found, requested>>
        /\ issued' = issued \cup (ids \X {u} \X {c})
    BY <1>2 DEF StartRead
  <2> HIDE DEF j
  <2>3. issued \subseteq issued'
    BY <2>2
  <2> QED BY <1>a, <2>1, <2>2, <2>3, BeginKeeps DEF PCs
<1>3. ASSUME NEW ids \in SUBSET Messages, NEW s \in Statuses, StartStatus(r, u, c, ids, s)
      PROVE  /\ RowsSound' /\ CopiesSound' /\ JobsOnRecord' /\ FoundAskedFor'
             /\ NoMessageOutlivesItsChat'
  <2> DEFINE j == [op |-> "status", user |-> u, chat |-> c, ids |-> ids,
                   text |-> NoText, status |-> s]
  <2>1. /\ j \in Job /\ j.op = "status"
        /\ \A m \in j.ids : <<m, j.status>> \in requested \cup (ids \X {s})
    BY MessageStoreAssumption DEF Job, AllOps
  <2>2. /\ Begin(r, j, "find")
        /\ UNCHANGED <<found, issued>>
        /\ requested' = requested \cup (ids \X {s})
    BY <1>3 DEF StartStatus
  <2> HIDE DEF j
  <2>3. requested \subseteq requested'
    BY <2>2
  <2> QED BY <1>a, <2>1, <2>2, <2>3, BeginKeeps DEF PCs
<1>4. ASSUME NEW m \in Messages, NEW t \in Texts, StartEdit(r, u, c, m, t)
      PROVE  /\ RowsSound' /\ CopiesSound' /\ JobsOnRecord' /\ FoundAskedFor'
             /\ NoMessageOutlivesItsChat'
  <2> DEFINE j == [op |-> "edit", user |-> u, chat |-> c, ids |-> {m},
                   text |-> t, status |-> SENT]
  <2>1. j \in Job /\ j.op = "edit"
    BY MessageStoreAssumption DEF Job, AllOps
  <2>2. Begin(r, j, "find") /\ UNCHANGED <<found, issued, requested>>
    BY <1>4 DEF StartEdit
  <2> HIDE DEF j
  <2> QED BY <1>b, <2>1, <2>2 DEF PCs
<1>5. ASSUME NEW m \in Messages, StartDelete(r, u, c, m)
      PROVE  /\ RowsSound' /\ CopiesSound' /\ JobsOnRecord' /\ FoundAskedFor'
             /\ NoMessageOutlivesItsChat'
  <2> DEFINE j == [op |-> "delete", user |-> u, chat |-> c, ids |-> {m},
                   text |-> NoText, status |-> SENT]
  <2>1. j \in Job /\ j.op = "delete"
    BY MessageStoreAssumption DEF Job, AllOps
  <2>2. Begin(r, j, "find") /\ UNCHANGED <<found, issued, requested>>
    BY <1>5 DEF StartDelete
  <2> HIDE DEF j
  <2> QED BY <1>b, <2>1, <2>2 DEF PCs
<1>6. ASSUME StartClear(r, u, c)
      PROVE  /\ RowsSound' /\ CopiesSound' /\ JobsOnRecord' /\ FoundAskedFor'
             /\ NoMessageOutlivesItsChat'
  <2> DEFINE j == [op |-> "clear", user |-> u, chat |-> c, ids |-> {},
                   text |-> NoText, status |-> SENT]
             rows == {m \in Present(messages) : messages[m].chat = c}
             where == IF rows # {} THEN "remove" ELSE "publish"
  <2>1. /\ j \in Job /\ j.op = "clear"
        /\ where \in PCs \ {"load", "write"}
    BY MessageStoreAssumption DEF Job, AllOps, PCs
  <2>2. /\ Begin(r, j, where)
        /\ found' = [found EXCEPT ![r] = Pick(rows)]
        /\ UNCHANGED <<issued, requested>>
    BY <1>6 DEF StartClear
  <2> HIDE DEF j, rows, where
  <2>3. found \in [Requests -> [Messages -> Row \cup {Absent}]]
    BY DEF Inductive, TypeOK
  <2>4. \A m \in Messages : found'[r][m] # Absent =>
          Sound(m, found'[r][m], origin[m], issued, requested)
    BY <2>2, <2>3, PickSound
  <2>5. \A q \in Requests : q # r => found'[q] = found[q]
    BY <2>2, <2>3
  <2> QED BY <2>1, <2>2, <2>4, <2>5, BeginKeeps
<1>7. ASSUME StartDrop(r, u, c)
      PROVE  /\ RowsSound' /\ CopiesSound' /\ JobsOnRecord' /\ FoundAskedFor'
             /\ NoMessageOutlivesItsChat'
  <2> DEFINE j == [op |-> "drop", user |-> u, chat |-> c, ids |-> {},
                   text |-> NoText, status |-> SENT]
  <2>1. j \in Job /\ j.op = "drop"
    BY MessageStoreAssumption DEF Job, AllOps
  <2>2. Begin(r, j, "drop") /\ UNCHANGED <<found, issued, requested>>
    BY <1>7 DEF StartDrop
  <2> HIDE DEF j
  <2> QED BY <1>b, <2>1, <2>2 DEF PCs
<1> QED BY <1>0, <1>1, <1>2, <1>3, <1>4, <1>5, <1>6, <1>7

(* The entity a handler saves is sound: the reader it adds did ask, is not *)
(* the author and names the message's own chat; the status was asked for.  *)
LEMMA EntitySound ==
  ASSUME Inductive, NEW r \in Requests, pc[r] = "write",
         NEW m \in Messages, found[r][m] # Absent
  PROVE  /\ Edited(job[r], found[r][m]) \in Row
         /\ Sound(m, Edited(job[r], found[r][m]), origin[m], issued, requested)
<1> DEFINE row == found[r][m]
           entity == Edited(job[r], row)
<1>1. job[r] \in Job /\ row \in Row
  BY DEF Inductive, TypeOK
<1>2. Sound(m, row, origin[m], issued, requested)
  BY DEF Inductive, CopiesSound
<1>3. m \in job[r].ids /\ Matches(job[r], row)
  BY DEF Inductive, FoundAskedFor
<1>4. /\ job[r].op = "read" => <<m, job[r].user, job[r].chat>> \in issued
      /\ job[r].op = "status" => <<m, job[r].status>> \in requested
  BY <1>3 DEF Inductive, JobsOnRecord
<1> HIDE DEF row
<1>5. /\ entity \in Row
      /\ entity.chat = row.chat
      /\ entity.user = row.user
      /\ entity.text = row.text
      /\ entity.status = IF job[r].op = "status" THEN job[r].status ELSE row.status
      /\ entity.readers =
           IF job[r].op = "read" THEN row.readers \cup {job[r].user} ELSE row.readers
  BY <1>1, EditedType
<1> HIDE DEF entity
<1>6. Sound(m, entity, origin[m], issued, requested)
  BY <1>2, <1>3, <1>4, <1>5 DEF Sound, Matches
<1> QED BY <1>5, <1>6 DEF entity, row

(* Writing the changed columns of a sound entity into a sound row, after a *)
(* comparison with a sound copy, leaves a sound row of the same chat.      *)
LEMMA UpdatedSound ==
  ASSUME NEW m, NEW from, NEW asked, NEW wanted,
         NEW now \in Row, NEW was \in Row, NEW entity \in Row,
         NEW byReference \in BOOLEAN,
         Sound(m, now, from, asked, wanted),
         Sound(m, was, from, asked, wanted),
         Sound(m, entity, from, asked, wanted)
  PROVE  /\ Sound(m, Updated(now, was, entity, byReference), from, asked, wanted)
         /\ Updated(now, was, entity, byReference).chat = now.chat
<1> DEFINE new == Updated(now, was, entity, byReference)
<1>1. /\ new.chat = now.chat
      /\ new.user = now.user
      /\ new.text = now.text
      /\ new.status \in {now.status, entity.status}
      /\ new.readers \in {now.readers, entity.readers}
  BY DEF Sound, Updated, Column
<1> HIDE DEF new
<1>2. Sound(m, new, from, asked, wanted)
  BY <1>1 DEF Sound
<1> QED BY <1>1, <1>2 DEF new

LEMMA StepInductive ==
  ASSUME Inductive, NEW r \in Requests, Step(r)
  PROVE  /\ RowsSound' /\ CopiesSound' /\ JobsOnRecord' /\ FoundAskedFor'
         /\ NoMessageOutlivesItsChat'
<1>1. CASE Insert(r)
  <2>0. /\ NewRow(job[r]) \in Row
        /\ UNCHANGED <<chats, issued, requested>>
        /\ pc \in [Requests -> PCs]
        /\ origin \in [Messages -> Row \cup {Absent}]
        /\ messages \in [Messages -> Row \cup {Absent}]
    BY <1>1, NewRowType DEF Inductive, TypeOK, Insert
  <2>1. CASE End(r) /\ UNCHANGED <<messages, origin>>
    BY <2>0, <2>1, EndCopies
       DEF Inductive, RowsSound, NoMessageOutlivesItsChat, Present
  <2>2. CASE /\ ChatKey(NewRow(job[r]))
             /\ \E m \in Messages \ Present(origin) :
                  /\ messages' = [messages EXCEPT ![m] = NewRow(job[r])]
                  /\ origin' = [origin EXCEPT ![m] = NewRow(job[r])]
             /\ Goto(r, "publish")
    <3>1. PICK m \in Messages \ Present(origin) :
            /\ messages' = [messages EXCEPT ![m] = NewRow(job[r])]
            /\ origin' = [origin EXCEPT ![m] = NewRow(job[r])]
      BY <2>2
    (* No copy of m is held: m had no origin. *)
    <3>2. /\ origin[m] = Absent
          /\ \A n \in Messages : n # m => origin'[n] = origin[n]
      BY <2>0, <3>1 DEF Present
    <3>3. Sound(m, NewRow(job[r]), NewRow(job[r]), issued, requested)
      BY <2>0, MessageStoreAssumption DEF Sound, NewRow
    <3>4. RowsSound'
      BY <2>0, <3>1, <3>3 DEF Inductive, RowsSound
    <3>5. \A q \in Requests : found[q][m] = Absent /\ loaded[q][m] = Absent
      BY <3>2 DEF Inductive, CopiesSound, Sound
    <3>6. CopiesSound'
      BY <2>0, <2>2, <3>2, <3>5 DEF Inductive, CopiesSound, Goto
    <3>7. JobsOnRecord' /\ FoundAskedFor'
      BY <2>0, <2>2 DEF Inductive, JobsOnRecord, FoundAskedFor, Goto
    <3>8. NoMessageOutlivesItsChat'
      BY <2>0, <2>2, <3>1 DEF Inductive, NoMessageOutlivesItsChat, Present, ChatKey
    <3> QED BY <3>4, <3>6, <3>7, <3>8
  <2> QED BY <1>1, <2>1, <2>2 DEF Insert
<1>2. CASE Find(r)
  <2> DEFINE rows == {m \in Present(messages) \cap job[r].ids :
                        Matches(job[r], messages[m])}
  <2>1. /\ pc[r] = "find"
        /\ UNCHANGED <<chats, messages, origin, issued, requested>>
    BY <1>2 DEF Find, store
  <2>2. RowsSound' /\ NoMessageOutlivesItsChat'
    BY <2>1 DEF Inductive, RowsSound, NoMessageOutlivesItsChat, Present
  <2>3. CASE /\ found' = [found EXCEPT ![r] = Pick(rows)]
             /\ pc' = [pc EXCEPT ![r] = IF job[r].op = "delete"
                                          THEN "remove" ELSE "load"]
             /\ UNCHANGED <<job, loaded>>
    <3>1. \A m \in Messages : Pick(rows)[m] # Absent =>
            /\ m \in job[r].ids
            /\ Matches(job[r], Pick(rows)[m])
            /\ Sound(m, Pick(rows)[m], origin[m], issued, requested)
      BY PickSound
    <3>2. /\ found \in [Requests -> [Messages -> Row \cup {Absent}]]
          /\ pc \in [Requests -> PCs]
      BY DEF Inductive, TypeOK
    <3> HIDE DEF rows
    <3>3. CopiesSound'
      BY <2>1, <2>3, <3>1, <3>2 DEF Inductive, CopiesSound
    <3>4. JobsOnRecord'
      BY <2>1, <2>3, <3>2 DEF Inductive, JobsOnRecord
    <3>5. FoundAskedFor'
      BY <2>1, <2>3, <3>1, <3>2 DEF Inductive, FoundAskedFor
    <3> QED BY <2>2, <3>3, <3>4, <3>5
  <2>4. CASE End(r)
    BY <2>1, <2>2, <2>4, EndCopies
  <2> QED BY <1>2, <2>3, <2>4 DEF Find
<1>3. CASE Load(r)
  <2>1. /\ pc[r] = "load"
        /\ pc' = [pc EXCEPT ![r] = "write"]
        /\ loaded' = [loaded EXCEPT ![r] = Pick(Present(found[r]))]
        /\ UNCHANGED <<chats, messages, job, found, origin, issued, requested>>
        /\ pc \in [Requests -> PCs]
        /\ loaded \in [Requests -> [Messages -> Row \cup {Absent}]]
    BY <1>3 DEF Load, store, history, Inductive, TypeOK
  <2>2. RowsSound' /\ NoMessageOutlivesItsChat'
    BY <2>1 DEF Inductive, RowsSound, NoMessageOutlivesItsChat, Present
  <2>3. CopiesSound'
    BY <2>1, PickSound DEF Inductive, CopiesSound
  <2>4. JobsOnRecord' /\ FoundAskedFor'
    BY <2>1 DEF Inductive, JobsOnRecord, FoundAskedFor
  <2> QED BY <2>2, <2>3, <2>4
<1>4. CASE Write(r)
  <2> DEFINE entities == Present(found[r])
             inserts == entities \ Present(loaded[r])
  <2>0. /\ pc[r] = "write"
        /\ UNCHANGED <<chats, origin, issued, requested>>
        /\ messages \in [Messages -> Row \cup {Absent}]
        /\ loaded \in [Requests -> [Messages -> Row \cup {Absent}]]
    BY <1>4 DEF Write, Inductive, TypeOK
  <2>1. CASE End(r) /\ UNCHANGED <<messages, dirty>>
    BY <2>0, <2>1, EndCopies
       DEF Inductive, RowsSound, NoMessageOutlivesItsChat, Present
  <2>2. CASE /\ \A m \in inserts : ChatKey(Edited(job[r], found[r][m]))
             /\ \E byReference \in BOOLEAN :
                  messages' = [m \in Messages |->
                    IF m \in inserts THEN Edited(job[r], found[r][m])
                    ELSE IF m \in entities \cap Present(messages)
                    THEN Updated(messages[m], loaded[r][m],
                                 Edited(job[r], found[r][m]), byReference)
                    ELSE messages[m]]
             /\ Goto(r, "publish")
    <3>1. PICK byReference \in BOOLEAN :
            messages' = [m \in Messages |->
              IF m \in inserts THEN Edited(job[r], found[r][m])
              ELSE IF m \in entities \cap Present(messages)
              THEN Updated(messages[m], loaded[r][m],
                           Edited(job[r], found[r][m]), byReference)
              ELSE messages[m]]
      BY <2>2
    <3>2. ASSUME NEW m \in Messages, messages'[m] # Absent
          PROVE  /\ Sound(m, messages'[m], origin[m], issued, requested)
                 /\ messages'[m].chat \in chats
      <4>1. CASE m \in inserts
        <5>1. messages'[m] = Edited(job[r], found[r][m])
          BY <3>1, <4>1
        <5>2. found[r][m] # Absent
          BY <4>1 DEF Present
        <5> QED BY <2>0, <2>2, <4>1, <5>1, <5>2, EntitySound DEF ChatKey
      <4>2. CASE m \notin inserts /\ m \in entities \cap Present(messages)
        <5>1. messages'[m] = Updated(messages[m], loaded[r][m],
                               Edited(job[r], found[r][m]), byReference)
          BY <3>1, <4>2
        <5>2. /\ found[r][m] # Absent
              /\ loaded[r][m] # Absent
              /\ messages[m] # Absent
          BY <4>2 DEF Present
        <5>3. /\ messages[m] \in Row
              /\ loaded[r][m] \in Row
              /\ Sound(m, messages[m], origin[m], issued, requested)
              /\ Sound(m, loaded[r][m], origin[m], issued, requested)
          BY <2>0, <5>2 DEF Inductive, RowsSound, CopiesSound
        <5>4. /\ Edited(job[r], found[r][m]) \in Row
              /\ Sound(m, Edited(job[r], found[r][m]), origin[m], issued, requested)
          BY <2>0, <5>2, EntitySound
        <5>5. messages[m].chat \in chats
          BY <5>2 DEF Inductive, NoMessageOutlivesItsChat, Present
        <5> QED BY <5>1, <5>3, <5>4, <5>5, UpdatedSound
      <4>3. CASE m \notin inserts /\ m \notin entities \cap Present(messages)
        <5>1. messages'[m] = messages[m]
          BY <3>1, <4>3
        <5> QED BY <3>2, <5>1
                DEF Inductive, RowsSound, NoMessageOutlivesItsChat, Present
      <4> QED BY <4>1, <4>2, <4>3
    <3>3. RowsSound' /\ NoMessageOutlivesItsChat'
      BY <2>0, <3>2 DEF RowsSound, NoMessageOutlivesItsChat, Present
    <3> QED BY <2>0, <2>2, <3>3, PublishCopies
  <2> QED BY <1>4, <2>1, <2>2 DEF Write
<1>5. CASE Remove(r)
  <2>1. /\ messages' = [m \in Messages |->
                          IF m \in Present(found[r]) THEN Absent ELSE messages[m]]
        /\ Goto(r, "publish")
        /\ UNCHANGED <<chats, origin, issued, requested>>
    BY <1>5 DEF Remove
  <2>2. RowsSound' /\ NoMessageOutlivesItsChat'
    BY <2>1 DEF Inductive, RowsSound, NoMessageOutlivesItsChat, Present
  <2> QED BY <2>1, <2>2, PublishCopies
<1>6. CASE Drop(r)
  <2>1. /\ chats' = chats \ {job[r].chat}
        /\ messages' = [m \in Messages |->
                          IF m \in Cascade(job[r].chat) THEN Absent ELSE messages[m]]
        /\ Goto(r, "publish")
        /\ UNCHANGED <<origin, issued, requested>>
    BY <1>6 DEF Drop
  <2>2. RowsSound'
    BY <2>1 DEF Inductive, RowsSound
  <2>3. NoMessageOutlivesItsChat'
    BY <2>1 DEF Inductive, NoMessageOutlivesItsChat, Present, Cascade
  <2> QED BY <2>1, <2>2, <2>3, PublishCopies
<1>7. CASE Publish(r)
  <2>1. /\ End(r)
        /\ UNCHANGED <<chats, messages, origin, issued, requested>>
    BY <1>7 DEF Publish, store, history
  <2> QED BY <2>1, EndCopies
          DEF Inductive, RowsSound, NoMessageOutlivesItsChat, Present
<1> QED BY <1>1, <1>2, <1>3, <1>4, <1>5, <1>6, <1>7 DEF Step

LEMMA InductiveStep == Inductive /\ [Next]_vars => Inductive'
<1> SUFFICES ASSUME Inductive, [Next]_vars PROVE Inductive'
  OBVIOUS
<1>1. TypeOK'
  BY TypeStep DEF Inductive
<1>2. CASE UNCHANGED vars
  BY <1>2 DEF vars, Inductive, TypeOK, RowsSound, CopiesSound, JobsOnRecord,
              FoundAskedFor, NoMessageOutlivesItsChat, Present
<1>3. CASE Next
  <2>1. PICK r \in Requests : Arrive(r) \/ Step(r) \/ Fail(r)
    BY <1>3 DEF Next
  <2>2. CASE Fail(r)
    <3>1. /\ End(r)
          /\ UNCHANGED <<chats, messages, origin, issued, requested>>
      BY <2>2 DEF Fail, store, history
    <3> QED BY <1>1, <3>1, EndCopies
            DEF Inductive, RowsSound, NoMessageOutlivesItsChat, Present
  <2> QED BY <1>1, <2>1, <2>2, ArriveInductive, StepInductive DEF Inductive
<1> QED BY <1>2, <1>3

LEMMA InductiveHolds == Spec => []Inductive
BY InductiveInit, InductiveStep, PTL DEF Spec

(* However saves of stale copies interleave, a receipt in readersIds is one *)
(* its user asked for, in the chat of the message, and never the author's.  *)
THEOREM ReceiptsGenuine == Spec => []ReceiptsAreGenuine
<1>1. Inductive => ReceiptsAreGenuine
  BY DEF Inductive, RowsSound, Sound, ReceiptsAreGenuine, Present
<1> QED BY <1>1, InductiveHolds, PTL

(* No save and no re-insertion changes author, chat or text.               *)
THEOREM OriginKept == Spec => []RowsKeepOrigin
<1>1. Inductive => RowsKeepOrigin
  BY DEF Inductive, RowsSound, Sound, RowsKeepOrigin, Present
<1> QED BY <1>1, InductiveHolds, PTL

(* A status other than SENT was asked for.                                 *)
THEOREM StatusRequested == Spec => []StatusWasRequested
<1>1. Inductive => StatusWasRequested
  BY DEF Inductive, RowsSound, Sound, StatusWasRequested, Present
<1> QED BY <1>1, InductiveHolds, PTL

(* The foreign key and the cascade suffice: not even a save that re-inserts *)
(* messages leaves one without its chat.                                   *)
THEOREM NoOrphanMessages == Spec => []NoMessageOutlivesItsChat
<1>1. Inductive => NoMessageOutlivesItsChat
  BY DEF Inductive
<1> QED BY <1>1, InductiveHolds, PTL

-----------------------------------------------------------------------------
(* The save of a handler whose messages no other handler wrote             *)

(* While a slot is clean, its entities are the rows of the table, and so   *)
(* are the rows its save loaded.                                           *)
CleanCopies ==
  \A r \in Requests : ~dirty[r] =>
    /\ pc[r] \in {"load", "write"} =>
         \A m \in Messages : found[r][m] # Absent => messages[m] = found[r][m]
    /\ pc[r] = "write" =>
         \A m \in Messages : found[r][m] # Absent => loaded[r][m] = found[r][m]

LEMMA CleanInit == Init => CleanCopies
BY DEF Init, CleanCopies

(* A step of slot r that changes only the messages T, and soils the slots  *)
(* that hold any of them, leaves the other slots' clean copies clean.      *)
LEMMA SoiledCopies ==
  ASSUME Inductive, CleanCopies, NEW r \in Requests, NEW T \in SUBSET Messages,
         dirty' = Soil(r, T),
         \A m \in Messages \ T : messages'[m] = messages[m],
         pc'[r] \notin {"load", "write"},
         \A q \in Requests \ {r} : /\ pc'[q] = pc[q]
                                   /\ found'[q] = found[q]
                                   /\ loaded'[q] = loaded[q]
  PROVE  CleanCopies'
<1>1. ASSUME NEW q \in Requests \ {r}, ~dirty'[q], pc'[q] \in {"load", "write"},
             NEW m \in Messages, found'[q][m] # Absent
      PROVE  /\ messages'[m] = found'[q][m]
             /\ pc'[q] = "write" => loaded'[q][m] = found'[q][m]
  <2>1. ~dirty[q] /\ T \cap Present(found[q]) = {}
    BY <1>1 DEF Soil
  <2>2. m \notin T
    BY <1>1, <2>1 DEF Present
  <2> QED BY <1>1, <2>1, <2>2 DEF CleanCopies
<1> QED BY <1>1 DEF CleanCopies

(* A request that arrives changes no row and no copy of another slot.      *)
LEMMA ArriveRows ==
  ASSUME TypeOK, NEW r \in Requests, Arrive(r)
  PROVE  /\ \E w \in PCs \ {"load", "write"} : pc' = [pc EXCEPT ![r] = w]
         /\ UNCHANGED <<messages, dirty, loaded>>
         /\ \A q \in Requests \ {r} : found'[q] = found[q]
<1>1. PICK u \in Users, c \in Chats :
        \/ \E t \in Texts \cup {NoText}, f \in BOOLEAN : StartCreate(r, u, c, t, f)
        \/ \E ids \in SUBSET Messages : StartRead(r, u, c, ids)
        \/ \E ids \in SUBSET Messages, s \in Statuses : StartStatus(r, u, c, ids, s)
        \/ \E m \in Messages, t \in Texts : StartEdit(r, u, c, m, t)
        \/ \E m \in Messages : StartDelete(r, u, c, m)
        \/ StartClear(r, u, c)
        \/ StartDrop(r, u, c)
  BY DEF Arrive
<1>2. /\ \E w \in PCs \ {"load", "write"} : pc' = [pc EXCEPT ![r] = w]
      /\ UNCHANGED <<messages, dirty, loaded>>
  <2>1. CASE \E t \in Texts \cup {NoText}, f \in BOOLEAN : StartCreate(r, u, c, t, f)
    BY <2>1 DEF StartCreate, Begin, store, PCs
  <2>2. CASE \E ids \in SUBSET Messages : StartRead(r, u, c, ids)
    BY <2>2 DEF StartRead, Begin, store, PCs
  <2>3. CASE \E ids \in SUBSET Messages, s \in Statuses : StartStatus(r, u, c, ids, s)
    BY <2>3 DEF StartStatus, Begin, store, PCs
  <2>4. CASE \E m \in Messages, t \in Texts : StartEdit(r, u, c, m, t)
    BY <2>4 DEF StartEdit, Begin, store, PCs
  <2>5. CASE \E m \in Messages : StartDelete(r, u, c, m)
    BY <2>5 DEF StartDelete, Begin, store, PCs
  <2>6. CASE StartClear(r, u, c)
    BY <2>6 DEF StartClear, Begin, store, PCs
  <2>7. CASE StartDrop(r, u, c)
    BY <2>7 DEF StartDrop, Begin, store, PCs
  <2> QED BY <1>1, <2>1, <2>2, <2>3, <2>4, <2>5, <2>6, <2>7
<1>3. \A q \in Requests \ {r} : found'[q] = found[q]
  <2>1. CASE UNCHANGED found
    BY <2>1
  <2>2. CASE StartClear(r, u, c)
    BY <2>2 DEF StartClear, TypeOK
  <2> QED BY <1>1, <2>1, <2>2
          DEF StartCreate, StartRead, StartStatus, StartEdit, StartDelete, StartDrop
<1> QED BY <1>2, <1>3

LEMMA CleanStep == Inductive /\ CleanCopies /\ [Next]_vars => CleanCopies'
<1> SUFFICES ASSUME Inductive, CleanCopies, [Next]_vars PROVE CleanCopies'
  OBVIOUS
<1>0. /\ messages \in [Messages -> Row \cup {Absent}]
      /\ pc \in [Requests -> PCs]
      /\ found \in [Requests -> [Messages -> Row \cup {Absent}]]
      /\ loaded \in [Requests -> [Messages -> Row \cup {Absent}]]
      /\ dirty \in [Requests -> BOOLEAN]
  BY DEF Inductive, TypeOK
<1>1. CASE UNCHANGED vars
  BY <1>1 DEF vars, CleanCopies
<1>2. ASSUME NEW r \in Requests, NEW where \in PCs \ {"load", "write"},
             pc' = [pc EXCEPT ![r] = where],
             \A q \in Requests \ {r} : found'[q] = found[q],
             \A q \in Requests \ {r} : loaded'[q] = loaded[q],
             UNCHANGED <<messages, dirty>>
      PROVE  CleanCopies'
  BY <1>0, <1>2 DEF CleanCopies
<1>3. ASSUME NEW r \in Requests, Arrive(r)
      PROVE  CleanCopies'
  BY <1>2, <1>3, ArriveRows DEF Inductive
<1>4. ASSUME NEW r \in Requests, End(r), UNCHANGED <<messages, dirty>>
      PROVE  CleanCopies'
  BY <1>0, <1>2, <1>4 DEF End, PCs
<1>5. ASSUME NEW r \in Requests, Step(r)
      PROVE  CleanCopies'
  <2>1. CASE Insert(r)
    <3>1. CASE End(r) /\ UNCHANGED messages
      BY <1>4, <2>1, <3>1 DEF Insert
    <3>2. CASE /\ \E m \in Messages \ Present(origin) :
                    messages' = [messages EXCEPT ![m] = NewRow(job[r])]
               /\ Goto(r, "publish")
      <4>1. PICK m \in Messages \ Present(origin) :
              messages' = [messages EXCEPT ![m] = NewRow(job[r])]
        BY <3>2
      <4>2. \A q \in Requests : found[q][m] = Absent
        BY <4>1 DEF Inductive, TypeOK, CopiesSound, Sound, Present
      <4>3. UNCHANGED <<dirty, found, loaded>> /\ pc' = [pc EXCEPT ![r] = "publish"]
        BY <2>1, <3>2 DEF Insert, Goto
      <4> QED BY <1>0, <4>1, <4>2, <4>3 DEF CleanCopies
    <3> QED BY <2>1, <3>1, <3>2 DEF Insert
  <2>2. CASE Find(r)
    <3> DEFINE rows == {m \in Present(messages) \cap job[r].ids :
                          Matches(job[r], messages[m])}
    <3>1. /\ dirty' = [dirty EXCEPT ![r] = FALSE]
          /\ UNCHANGED messages
      BY <2>2 DEF Find, store
    <3>2. CASE End(r)
      BY <1>0, <3>1, <3>2 DEF End, CleanCopies
    <3>3. CASE /\ found' = [found EXCEPT ![r] = Pick(rows)]
               /\ pc' = [pc EXCEPT ![r] = IF job[r].op = "delete"
                                            THEN "remove" ELSE "load"]
               /\ UNCHANGED <<job, loaded>>
      <4>1. \A m \in Messages : Pick(rows)[m] # Absent => messages[m] = Pick(rows)[m]
        BY DEF Pick
      <4> HIDE DEF rows
      <4> QED BY <1>0, <3>1, <3>3, <4>1 DEF CleanCopies
    <3> QED BY <2>2, <3>2, <3>3 DEF Find
  <2>3. CASE Load(r)
    <3>1. /\ pc[r] = "load"
          /\ pc' = [pc EXCEPT ![r] = "write"]
          /\ loaded' = [loaded EXCEPT ![r] = Pick(Present(found[r]))]
          /\ UNCHANGED <<messages, found, dirty>>
      BY <2>3 DEF Load, store, history
    <3>2. \A m \in Messages : found[r][m] # Absent =>
            Pick(Present(found[r]))[m] = messages[m]
      BY DEF Pick, Present
    <3> QED BY <1>0, <3>1, <3>2 DEF CleanCopies
  <2>4. CASE Write(r)
    <3>1. CASE End(r) /\ UNCHANGED <<messages, dirty>>
      BY <1>4, <3>1
    <3>2. CASE /\ \A m \in Messages \ Present(found[r]) : messages'[m] = messages[m]
               /\ dirty' = Soil(r, Present(found[r]))
               /\ Goto(r, "publish")
      <4>1. Present(found[r]) \in SUBSET Messages
        BY DEF Present
      <4> QED BY <1>0, <3>2, <4>1, SoiledCopies DEF Goto
    <3> QED BY <2>4, <3>1, <3>2 DEF Write
  <2>5. CASE Remove(r)
    <3>1. /\ Present(found[r]) \in SUBSET Messages
          /\ \A m \in Messages \ Present(found[r]) : messages'[m] = messages[m]
          /\ dirty' = Soil(r, Present(found[r]))
      BY <2>5 DEF Remove, Present
    <3> QED BY <1>0, <2>5, <3>1, SoiledCopies DEF Remove, Goto
  <2>6. CASE Drop(r)
    <3>1. /\ Cascade(job[r].chat) \in SUBSET Messages
          /\ \A m \in Messages \ Cascade(job[r].chat) : messages'[m] = messages[m]
          /\ dirty' = Soil(r, Cascade(job[r].chat))
      BY <2>6 DEF Drop, Cascade, Present
    <3> QED BY <1>0, <2>6, <3>1, SoiledCopies DEF Drop, Goto
  <2>7. CASE Publish(r)
    BY <1>4, <2>7 DEF Publish, store, history
  <2> QED BY <1>5, <2>1, <2>2, <2>3, <2>4, <2>5, <2>6, <2>7 DEF Step
<1>6. ASSUME NEW r \in Requests, Fail(r)
      PROVE  CleanCopies'
  BY <1>4, <1>6 DEF Fail, store, history
<1> QED BY <1>1, <1>3, <1>5, <1>6 DEF Next

(* The row that a clean save writes is the one promised. *)
LEMMA CleanRow ==
  ASSUME NEW j \in Job, NEW row \in Row, NEW byReference \in BOOLEAN
  PROVE  Updated(row, row, Edited(j, row), byReference) = Promised(j, row)
<1> DEFINE new == Updated(row, row, Edited(j, row), byReference)
           old == Promised(j, row)
<1>1. /\ new \in Row
      /\ new.chat = row.chat
      /\ new.user = row.user
      /\ new.text = row.text
      /\ new.status = IF j.op = "status" THEN j.status ELSE row.status
      /\ new.readers =
           IF j.op = "read" THEN row.readers \cup {j.user} ELSE row.readers
  BY EditedType, UpdatedType DEF Updated, Column
<1>2. /\ old \in Row
      /\ old.chat = row.chat
      /\ old.user = row.user
      /\ old.text = row.text
      /\ old.status = IF j.op = "status" THEN j.status ELSE row.status
      /\ old.readers =
           IF j.op = "read" THEN row.readers \cup {j.user} ELSE row.readers
  BY DEF Row, Job, Promised
<1> HIDE DEF new, old
<1>3. new = old
  BY <1>1, <1>2 DEF Row
<1> QED BY <1>3 DEF new, old

(* A save whose messages no other handler wrote between its find and its    *)
(* write is the operation done in one step.                                 *)
THEOREM IsolatedSaves == Spec => IsolatedSaveIsAtomic
<1>1. ASSUME Inductive, CleanCopies, [Next]_vars, NEW r \in Requests,
             pc[r] = "write", pc'[r] = "publish", ~dirty[r]
      PROVE  messages' = [m \in Messages |->
               IF m \in Present(found[r]) THEN Promised(job[r], messages[m])
               ELSE messages[m]]
  <2>0. /\ messages \in [Messages -> Row \cup {Absent}]
        /\ pc \in [Requests -> PCs]
        /\ found \in [Requests -> [Messages -> Row \cup {Absent}]]
        /\ job[r] \in Job
    BY <1>1 DEF Inductive, TypeOK
  <2>1. Write(r)
    <3>1. pc' # pc
      BY <1>1
    <3>2. PICK q \in Requests : Arrive(q) \/ Step(q) \/ Fail(q)
      BY <1>1, <3>1 DEF Next, vars
    <3>3. q = r
      <4>1. \E w \in PCs : pc' = [pc EXCEPT ![q] = w]
        BY <3>2, ArriveRows, <1>1
           DEF Inductive, Step, Fail, Insert, Find, Load, Write, Remove, Drop,
               Publish, End, Goto, PCs
      <4> QED BY <1>1, <2>0, <4>1
    <3>4. ~Arrive(r)
      BY <1>1 DEF Arrive, StartCreate, StartRead, StartStatus, StartEdit,
                  StartDelete, StartClear, StartDrop, Begin
    <3>5. ~Fail(r)
      BY <1>1, <2>0 DEF Fail, End
    <3> QED BY <1>1, <3>2, <3>3, <3>4, <3>5
            DEF Step, Insert, Find, Load, Remove, Drop, Publish
  <2> DEFINE entities == Present(found[r])
             inserts == entities \ Present(loaded[r])
  <2>2. \A m \in Messages : found[r][m] # Absent =>
          messages[m] = found[r][m] /\ loaded[r][m] = found[r][m]
    BY <1>1 DEF CleanCopies
  <2>3. inserts = {} /\ entities \subseteq Present(messages)
    BY <2>2 DEF Present
  <2>4. PICK byReference \in BOOLEAN :
          messages' = [m \in Messages |->
            IF m \in inserts THEN Edited(job[r], found[r][m])
            ELSE IF m \in entities \cap Present(messages)
            THEN Updated(messages[m], loaded[r][m],
                         Edited(job[r], found[r][m]), byReference)
            ELSE messages[m]]
    <3>1. ~End(r)
      BY <1>1, <2>0 DEF End
    <3> QED BY <2>1, <3>1 DEF Write
  <2>5. ASSUME NEW m \in entities
        PROVE  Updated(messages[m], loaded[r][m],
                       Edited(job[r], found[r][m]), byReference)
                 = Promised(job[r], messages[m])
    <3>1. messages[m] \in Row /\ messages[m] = found[r][m]
                             /\ loaded[r][m] = found[r][m]
      BY <2>0, <2>2 DEF Present
    <3> QED BY <2>0, <3>1, CleanRow
  <2> QED BY <2>3, <2>4, <2>5
<1>2. Inductive /\ CleanCopies /\ [Next]_vars => \A r \in Requests : AtomicSave(r)
  BY <1>1 DEF AtomicSave
<1>3. Inductive /\ CleanCopies /\ [Next]_vars
        => [\A r \in Requests : AtomicSave(r)]_vars
  BY <1>2
<1>4. Spec => [](Inductive /\ CleanCopies)
  BY InductiveHolds, CleanInit, CleanStep, PTL DEF Spec
<1> QED BY <1>3, <1>4, PTL DEF Spec, IsolatedSaveIsAtomic

-----------------------------------------------------------------------------
(* What an overlap can undo *)

Explained(m) ==
  ReturnIsOutdated(m) /\ LossIsOutdated(m) /\ StatusIsAskedOrOutdated(m)

(* A message that stays as it is, or goes, needs no explanation. *)
LEMMA NothingToExplain ==
  ASSUME NEW m \in Messages, messages'[m] \in {messages[m], Absent}
  PROVE  Explained(m)
BY DEF Explained, ReturnIsOutdated, LossIsOutdated, StatusIsAskedOrOutdated

LEMMA WriteExplained ==
  ASSUME Inductive, CleanCopies, NEW r \in Requests, Write(r), ~End(r),
         NEW m \in Messages
  PROVE  Explained(m)
<1> DEFINE entities == Present(found[r])
           inserts == entities \ Present(loaded[r])
           entity == Edited(job[r], found[r][m])
<1>1. /\ TypeOK /\ job[r] \in Job /\ pc[r] = "write" /\ Goto(r, "publish")
      /\ \A k \in inserts : messages[k] = Absent
  BY DEF Write, Inductive, TypeOK
<1>2. pc'[r] = "publish"
  BY <1>1 DEF Goto, TypeOK
<1>3. PICK byReference \in BOOLEAN :
        messages' = [k \in Messages |->
          IF k \in inserts THEN Edited(job[r], found[r][k])
          ELSE IF k \in entities \cap Present(messages)
          THEN Updated(messages[k], loaded[r][k],
                       Edited(job[r], found[r][k]), byReference)
          ELSE messages[k]]
  BY DEF Write
<1>4. CASE found[r][m] = Absent
  BY <1>3, <1>4, NothingToExplain DEF Present
<1>5. CASE m \in inserts
  <2>1. messages[m] = Absent /\ found[r][m] # Absent /\ loaded[r][m] = Absent
    BY <1>1, <1>5 DEF Present
  <2>2. dirty[r]
    BY <1>1, <2>1 DEF CleanCopies
  <2> QED BY <1>1, <1>2, <2>1, <2>2
          DEF Explained, ReturnIsOutdated, LossIsOutdated, StatusIsAskedOrOutdated,
              Saves
<1>6. CASE m \in entities \ inserts /\ messages[m] = Absent
  BY <1>3, <1>6, NothingToExplain DEF Present
<1>7. CASE m \in entities \ inserts /\ messages[m] # Absent
  <2> DEFINE now == messages[m]
             old == found[r][m]
             was == loaded[r][m]
             new == Updated(now, was, entity, byReference)
  <2>1. now \in Row /\ old \in Row /\ was \in Row /\ Saves(r, m)
    BY <1>1, <1>2, <1>7 DEF TypeOK, Present, Saves
  <2>2. messages'[m] = new
    BY <1>3, <1>7 DEF Present
  <2>3. /\ old.readers \subseteq entity.readers
        /\ entity.status = IF job[r].op = "status" THEN job[r].status ELSE old.status
    BY <1>1, <2>1, EditedType
  <2>4. /\ new.readers \in {now.readers, entity.readers}
        /\ new.status = IF entity.status # was.status THEN entity.status ELSE now.status
    BY DEF Updated, Column
  <2>5. ~dirty[r] => now = old /\ was = old
    BY <1>1, <1>7 DEF CleanCopies, Present
  <2> HIDE DEF entity, new
  <2>6. ASSUME NEW u \in now.readers \ new.readers
        PROVE  dirty[r] /\ u \notin old.readers
    BY <2>3, <2>4, <2>5, <2>6
  <2>7. ASSUME new.status # now.status
        PROVE  \/ job[r].op = "status" /\ job[r].status = new.status
               \/ dirty[r] /\ old.status = new.status /\ old.status # was.status
    BY <2>3, <2>4, <2>5, <2>7
  <2>8. ReturnIsOutdated(m)
    BY <1>7 DEF ReturnIsOutdated
  <2>9. LossIsOutdated(m)
    BY <2>1, <2>2, <2>6 DEF LossIsOutdated
  <2>10. StatusIsAskedOrOutdated(m)
    BY <2>1, <2>2, <2>7 DEF StatusIsAskedOrOutdated
  <2> QED BY <2>8, <2>9, <2>10 DEF Explained
<1> QED BY <1>4, <1>5, <1>6, <1>7 DEF Present

(* A handler that ends does not go on. *)
LEMMA EndsIdle ==
  ASSUME NEW r \in Requests, pc \in [Requests -> PCs], End(r)
  PROVE  ~Goto(r, "publish")
<1>1. pc' = [pc EXCEPT ![r] = "idle"]
  BY DEF End
<1>2. pc'[r] = "idle"
  BY <1>1
<1>3. ASSUME Goto(r, "publish") PROVE FALSE
  <2>1. pc' = [pc EXCEPT ![r] = "publish"]
    BY <1>3 DEF Goto
  <2>2. pc'[r] = "publish"
    BY <2>1
  <2> QED BY <1>2, <2>2
<1> QED BY <1>3

(* Every message that comes back, every receipt that goes and every status *)
(* nobody asked for at that moment is the doing of a save that another     *)
(* write overtook, in the one window in which it can do that harm.         *)
THEOREM OnlyOverlaps == Spec => OnlyOverlapUndoes
<1>1. ASSUME Inductive, CleanCopies, [Next]_vars, NEW m \in Present(origin)
      PROVE  Explained(m)
  <2>0. TypeOK /\ m \in Messages
    BY <1>1 DEF Inductive, Present
  <2>1. UNCHANGED messages => Explained(m)
    BY <2>0, NothingToExplain
  <2> SUFFICES ASSUME messages' # messages PROVE Explained(m)
    BY <2>1
  <2>2. PICK r \in Requests : Arrive(r) \/ Step(r) \/ Fail(r)
    BY <1>1 DEF Next, vars
  <2>3. CASE Arrive(r)
    BY <2>0, <2>1, <2>3, ArriveRows
  <2>4. CASE Insert(r)
    <3>1. messages'[m] = messages[m]
      BY <1>1, <2>0, <2>4 DEF Insert, TypeOK
    <3> QED BY <2>0, <3>1, NothingToExplain
  <2>5. CASE Write(r)
    <3>1. CASE End(r)
      <4>1. ~Goto(r, "publish")
        BY <2>0, <3>1, EndsIdle DEF TypeOK
      <4> QED BY <2>1, <2>5, <4>1 DEF Write
    <3> QED BY <1>1, <2>0, <2>5, <3>1, WriteExplained
  <2>6. CASE Remove(r) \/ Drop(r)
    <3>1. messages'[m] \in {messages[m], Absent}
      BY <2>0, <2>6 DEF Remove, Drop
    <3> QED BY <2>0, <3>1, NothingToExplain
  <2>7. CASE Find(r) \/ Load(r) \/ Publish(r) \/ Fail(r)
    BY <2>1, <2>7 DEF Find, Load, Publish, Fail, store
  <2> QED BY <2>1, <2>2, <2>3, <2>4, <2>5, <2>6, <2>7 DEF Step
<1>2. Inductive /\ CleanCopies /\ [Next]_vars =>
        [\A m \in Present(origin) :
           ReturnIsOutdated(m) /\ LossIsOutdated(m) /\ StatusIsAskedOrOutdated(m)]_vars
  BY <1>1 DEF Explained
<1>3. Spec => [](Inductive /\ CleanCopies)
  BY InductiveHolds, CleanInit, CleanStep, PTL DEF Spec
<1> QED BY <1>2, <1>3, PTL DEF Spec, OnlyOverlapUndoes

-----------------------------------------------------------------------------
(* The versions of the rows, and the abstract store *)

(* What is in the table and what the handlers have found are versions; a   *)
(* message with a version has been inserted.                               *)
Versioned ==
  /\ past \in [Messages -> SUBSET Row]
  /\ \A m \in Messages : messages[m] # Absent => messages[m] \in past[m]
  /\ \A r \in Requests, m \in Messages :
       found[r][m] # Absent => found[r][m] \in past[m]
  /\ \A m \in Messages : origin[m] = Absent => past[m] = {}

(* Where each kind of handler can be, and what it holds there. *)
InPlace(where, j, entities) ==
  /\ where \in {"find", "load", "write"} => j.op \in {"read", "status", "edit", "delete"}
  /\ where \in {"load", "write"} => j.op # "delete"
  /\ where \in {"find", "load", "write", "remove"} /\ j.op \in {"edit", "delete"}
       => \E m \in Messages : j.ids = {m}
  /\ where = "remove" =>
       \/ j.op = "delete" /\ Present(entities) \subseteq j.ids
       \/ j.op = "clear" /\ \A m \in Present(entities) : entities[m].chat = j.chat

HandlersInPlace == \A r \in Requests : InPlace(pc[r], job[r], found[r])

VInductive == Inductive /\ Versioned /\ HandlersInPlace

LEMMA VInductiveInit == VInit => VInductive
BY InductiveInit
   DEF VInit, VInductive, Versioned, HandlersInPlace, InPlace, Init, Nothing

-----------------------------------------------------------------------------
(* The invariant *)

(* Versions are never forgotten, and the present row becomes one.          *)
LEMMA PastGrows ==
  ASSUME Versioned, messages' \in [Messages -> Row \cup {Absent}], VNext
  PROVE  /\ past' \in [Messages -> SUBSET Row]
         /\ \A m \in Messages : past[m] \subseteq past'[m]
         /\ \A m \in Messages : messages'[m] # Absent => messages'[m] \in past'[m]
         /\ \A m \in Messages : \A v \in past'[m] : v \in past[m] \/ v = messages'[m]
         /\ UNCHANGED messages => past' = past
BY DEF Versioned, VNext

(* What a slot may do to itself; the other slots keep what they have.      *)
Slotwise(r, where, j, entities) ==
  /\ pc' = [pc EXCEPT ![r] = where]
  /\ job' = [job EXCEPT ![r] = j]
  /\ found' = [found EXCEPT ![r] = entities]

LEMMA ArriveSlot ==
  ASSUME TypeOK, NEW r \in Requests, Arrive(r)
  PROVE  \E where, j, entities :
           /\ Slotwise(r, where, j, entities)
           /\ InPlace(where, j, entities)
           /\ \A m \in Messages : entities[m] \in {Absent, found[r][m], messages[m]}
<1>0. /\ pc \in [Requests -> PCs]
      /\ job \in [Requests -> Job \cup {Absent}]
      /\ found \in [Requests -> [Messages -> Row \cup {Absent}]]
      /\ messages \in [Messages -> Row \cup {Absent}]
  BY DEF TypeOK
<1>1. PICK u \in Users, c \in Chats :
        \/ \E t \in Texts \cup {NoText}, f \in BOOLEAN : StartCreate(r, u, c, t, f)
        \/ \E ids \in SUBSET Messages : StartRead(r, u, c, ids)
        \/ \E ids \in SUBSET Messages, s \in Statuses : StartStatus(r, u, c, ids, s)
        \/ \E m \in Messages, t \in Texts : StartEdit(r, u, c, m, t)
        \/ \E m \in Messages : StartDelete(r, u, c, m)
        \/ StartClear(r, u, c)
        \/ StartDrop(r, u, c)
  BY DEF Arrive
<1>2. ASSUME NEW j, NEW where, Begin(r, j, where), UNCHANGED found,
             InPlace(where, j, found[r])
      PROVE  /\ Slotwise(r, where, j, found[r])
             /\ InPlace(where, j, found[r])
             /\ \A m \in Messages : found[r][m] \in {Absent, found[r][m], messages[m]}
  BY <1>0, <1>2 DEF Begin, Slotwise
<1>3. CASE \E t \in Texts \cup {NoText}, f \in BOOLEAN : StartCreate(r, u, c, t, f)
  BY <1>2, <1>3 DEF StartCreate, InPlace
<1>4. CASE \E ids \in SUBSET Messages : StartRead(r, u, c, ids)
  BY <1>2, <1>4 DEF StartRead, InPlace
<1>5. CASE \E ids \in SUBSET Messages, s \in Statuses : StartStatus(r, u, c, ids, s)
  BY <1>2, <1>5 DEF StartStatus, InPlace
<1>6. CASE \E m \in Messages, t \in Texts : StartEdit(r, u, c, m, t)
  BY <1>2, <1>6 DEF StartEdit, InPlace
<1>7. CASE \E m \in Messages : StartDelete(r, u, c, m)
  BY <1>2, <1>7 DEF StartDelete, InPlace
<1>8. CASE StartClear(r, u, c)
  <2> DEFINE j == [op |-> "clear", user |-> u, chat |-> c, ids |-> {},
                   text |-> NoText, status |-> SENT]
             rows == {m \in Present(messages) : messages[m].chat = c}
             where == IF rows # {} THEN "remove" ELSE "publish"
  <2>1. Slotwise(r, where, j, Pick(rows))
    BY <1>8 DEF StartClear, Begin, Slotwise
  <2>2. \A m \in Messages : /\ Pick(rows)[m] \in {Absent, messages[m]}
                            /\ Pick(rows)[m] # Absent => messages[m].chat = c
    BY DEF Pick
  <2>3. InPlace(where, j, Pick(rows))
    BY <2>2 DEF InPlace, Present
  <2> HIDE DEF j, rows, where
  <2> QED BY <2>1, <2>2, <2>3
<1>9. CASE StartDrop(r, u, c)
  BY <1>2, <1>9 DEF StartDrop, InPlace
<1> QED BY <1>1, <1>3, <1>4, <1>5, <1>6, <1>7, <1>8, <1>9

LEMMA StepSlot ==
  ASSUME TypeOK, NEW r \in Requests, Step(r) \/ Fail(r),
         InPlace(pc[r], job[r], found[r])
  PROVE  \E where, j, entities :
           /\ Slotwise(r, where, j, entities)
           /\ InPlace(where, j, entities)
           /\ \A m \in Messages : entities[m] \in {Absent, found[r][m], messages[m]}
<1>0. /\ pc \in [Requests -> PCs]
      /\ job \in [Requests -> Job \cup {Absent}]
      /\ found \in [Requests -> [Messages -> Row \cup {Absent}]]
      /\ messages \in [Messages -> Row \cup {Absent}]
  BY DEF TypeOK
<1>1. CASE End(r)
  <2>1. Slotwise(r, "idle", Absent, Nothing)
    BY <1>1 DEF End, Slotwise
  <2>2. InPlace("idle", Absent, Nothing)
    BY DEF InPlace
  <2> QED BY <2>1, <2>2 DEF Nothing
<1>2. CASE Goto(r, "publish")
  <2>1. Slotwise(r, "publish", job[r], found[r])
    BY <1>0, <1>2 DEF Goto, Slotwise
  <2>2. InPlace("publish", job[r], found[r])
    BY DEF InPlace
  <2> QED BY <2>1, <2>2
<1>3. CASE Load(r)
  <2>1. Slotwise(r, "write", job[r], found[r]) /\ pc[r] = "load"
    BY <1>0, <1>3 DEF Load, Slotwise
  <2>2. InPlace("write", job[r], found[r])
    BY <2>1 DEF InPlace
  <2> QED BY <2>1, <2>2
<1>4. CASE Find(r) /\ ~End(r)
  <2> DEFINE rows == {m \in Present(messages) \cap job[r].ids :
                        Matches(job[r], messages[m])}
             where == IF job[r].op = "delete" THEN "remove" ELSE "load"
  <2>1. Slotwise(r, where, job[r], Pick(rows)) /\ pc[r] = "find"
    BY <1>0, <1>4 DEF Find, Slotwise
  <2>2. \A m \in Messages : /\ Pick(rows)[m] \in {Absent, messages[m]}
                            /\ Pick(rows)[m] # Absent => m \in job[r].ids
    BY DEF Pick
  <2>3. InPlace(where, job[r], Pick(rows))
    BY <2>1, <2>2 DEF InPlace, Present
  <2> HIDE DEF rows, where
  <2> QED BY <2>1, <2>2, <2>3
<1> QED BY <1>1, <1>2, <1>3, <1>4
        DEF Step, Insert, Find, Write, Remove, Drop, Publish, Fail

(* A message once inserted is on record for good; only rows are added.     *)
LEMMA OriginStays ==
  ASSUME TypeOK, Next, NEW m \in Messages, origin[m] # Absent
  PROVE  origin'[m] # Absent
<1>1. PICK r \in Requests : Arrive(r) \/ Step(r) \/ Fail(r)
  BY DEF Next
<1>2. CASE UNCHANGED origin
  BY <1>2
<1>3. CASE Insert(r)
  <2>1. UNCHANGED origin \/ \E k \in Messages \ Present(origin) :
                               origin' = [origin EXCEPT ![k] = NewRow(job[r])]
    BY <1>3 DEF Insert
  <2>2. CASE UNCHANGED origin
    BY <2>2
  <2>3. ASSUME NEW k \in Messages \ Present(origin),
               origin' = [origin EXCEPT ![k] = NewRow(job[r])]
        PROVE  origin'[m] = origin[m]
    <3>1. k # m
      BY DEF Present
    <3> QED BY <2>3, <3>1 DEF TypeOK
  <2> QED BY <2>1, <2>2, <2>3
<1>4. Arrive(r) => UNCHANGED origin
  <2>1. \A j, where : Begin(r, j, where) => UNCHANGED origin
    BY DEF Begin
  <2>2. Arrive(r) => \E j, where : Begin(r, j, where)
    <3> SUFFICES ASSUME Arrive(r) PROVE \E j, where : Begin(r, j, where)
      OBVIOUS
    <3> PICK u \in Users, c \in Chats :
          \/ \E t \in Texts \cup {NoText}, f \in BOOLEAN : StartCreate(r, u, c, t, f)
          \/ \E ids \in SUBSET Messages : StartRead(r, u, c, ids)
          \/ \E ids \in SUBSET Messages, s \in Statuses : StartStatus(r, u, c, ids, s)
          \/ \E k \in Messages, t \in Texts : StartEdit(r, u, c, k, t)
          \/ \E k \in Messages : StartDelete(r, u, c, k)
          \/ StartClear(r, u, c) \/ StartDrop(r, u, c)
      BY DEF Arrive
    <3> QED BY DEF StartCreate, StartRead, StartStatus, StartEdit, StartDelete,
                   StartClear, StartDrop
  <2> QED BY <2>1, <2>2
<1>5. Fail(r) => UNCHANGED origin
  BY DEF Fail, history
<1>6. Step(r) /\ ~Insert(r) => UNCHANGED origin
  BY DEF Step, Find, Load, Write, Remove, Drop, Publish, history
<1> QED BY <1>1, <1>2, <1>3, <1>4, <1>5, <1>6

LEMMA VInductiveStep ==
  VInductive /\ [VNext]_<<vars, past>> => VInductive'
<1> SUFFICES ASSUME VInductive, [VNext]_<<vars, past>> PROVE VInductive'
  OBVIOUS
<1>1. Inductive'
  BY InductiveStep DEF VInductive, VNext, vars
<1>2. CASE UNCHANGED <<vars, past>>
  BY <1>1, <1>2 DEF vars, VInductive, Versioned, HandlersInPlace, InPlace, Present
<1>3. CASE VNext
  <2>1. PICK r \in Requests : Arrive(r) \/ Step(r) \/ Fail(r)
    BY <1>3 DEF VNext, Next
  <2>2. TypeOK /\ TypeOK'
    BY <1>1 DEF VInductive, Inductive
  <2>3. PICK where, j, entities :
          /\ Slotwise(r, where, j, entities)
          /\ InPlace(where, j, entities)
          /\ \A m \in Messages : entities[m] \in {Absent, found[r][m], messages[m]}
    BY <2>1, <2>2, ArriveSlot, StepSlot DEF VInductive, HandlersInPlace
  <2>4. \A q \in Requests \ {r} : /\ pc'[q] = pc[q]
                                  /\ job'[q] = job[q]
                                  /\ found'[q] = found[q]
    BY <2>2, <2>3 DEF Slotwise, TypeOK
  <2>5. pc'[r] = where /\ job'[r] = j /\ found'[r] = entities
    BY <2>2, <2>3 DEF Slotwise, TypeOK
  <2>6. HandlersInPlace'
    BY <2>3, <2>4, <2>5 DEF VInductive, HandlersInPlace, InPlace, Present
  <2>7. /\ past' \in [Messages -> SUBSET Row]
        /\ \A m \in Messages : past[m] \subseteq past'[m]
        /\ \A m \in Messages : messages'[m] # Absent => messages'[m] \in past'[m]
        /\ \A m \in Messages : past'[m] = past[m] \cup ({messages'[m]} \ {Absent})
    BY <1>3, <2>2, PastGrows DEF VInductive, TypeOK, VNext
  <2>8. ASSUME NEW q \in Requests, NEW m \in Messages, found'[q][m] # Absent
        PROVE  found'[q][m] \in past'[m]
    BY <2>3, <2>4, <2>5, <2>7, <2>8 DEF VInductive, Versioned
  <2>9. ASSUME NEW m \in Messages, origin'[m] = Absent
        PROVE  past'[m] = {}
    <3>1. origin[m] = Absent
      BY <1>3, <2>2, <2>9, OriginStays DEF VNext
    <3>2. messages'[m] = Absent
      BY <1>1, <2>9 DEF Inductive, RowsSound, Sound
    <3> QED BY <2>7, <3>1, <3>2 DEF VInductive, Versioned
  <2> QED BY <1>1, <2>6, <2>7, <2>8, <2>9 DEF VInductive, Versioned
<1> QED BY <1>2, <1>3

-----------------------------------------------------------------------------
(* The refinement *)

LEMMA MapsInit == VInit => Versions!Init
BY DEF VInit, Init, Nothing, Versions!Init

(* A message that is inserted is posted. *)
LEMMA InsertMaps ==
  ASSUME VInductive, VNext, NEW r \in Requests, Insert(r), ~End(r)
  PROVE  Versions!Next
<1>1. PICK m \in Messages \ Present(origin) :
        messages' = [messages EXCEPT ![m] = NewRow(job[r])]
  BY DEF Insert
<1>2. job[r] \in Job /\ ChatKey(NewRow(job[r])) /\ UNCHANGED chats
  BY DEF Insert, VInductive, Inductive, TypeOK
<1>3. past[m] = {}
  BY <1>1 DEF VInductive, Versioned, Present
<1>4. /\ job[r].user \in Users
      /\ job[r].chat \in Chats
      /\ job[r].text \in Texts \cup {NoText}
      /\ job[r].chat \in chats
  BY <1>2 DEF Job, ChatKey, NewRow
<1>5. Versions!Post(m, job[r].user, job[r].chat, job[r].text)
  BY <1>1, <1>2, <1>3, <1>4 DEF Versions!Post, Versions!Remember, VNext, NewRow
<1> QED BY <1>1, <1>4, <1>5 DEF Versions!Next

(* A removal deletes one message or clears messages of one chat.           *)
LEMMA RemoveMaps ==
  ASSUME VInductive, VNext, NEW r \in Requests, Remove(r)
  PROVE  Versions!Next \/ UNCHANGED <<chats, messages>>
<1> DEFINE S == Present(found[r])
<1>1. /\ pc[r] = "remove" /\ UNCHANGED chats
      /\ messages' = [m \in Messages |-> IF m \in S THEN Absent ELSE messages[m]]
  BY DEF Remove
<1>2. /\ messages \in [Messages -> Row \cup {Absent}]
      /\ messages' \in [Messages -> Row \cup {Absent}]
      /\ S \in SUBSET Messages
      /\ job[r] \in Job
  BY <1>1 DEF VInductive, Inductive, TypeOK, Present
<1>3. \A m \in S : found[r][m] \in past[m]
  BY DEF VInductive, Versioned, Present
<1>4. InPlace("remove", job[r], found[r])
  BY <1>1 DEF VInductive, HandlersInPlace
<1>5. CASE job[r].op = "delete"
  <2>1. PICK m \in Messages : S \subseteq {m}
    BY <1>4, <1>5 DEF InPlace
  <2>2. CASE S = {}
    BY <1>1, <1>2, <2>2
  <2>3. CASE S = {m}
    <3>1. Versions!Delete(m)
      BY <1>1, <1>2, <2>3 DEF Versions!Delete, Versions!Remember, VNext
    <3> QED BY <3>1 DEF Versions!Next
  <2> QED BY <2>1, <2>2, <2>3
<1>6. CASE job[r].op = "clear"
  <2>1. \A m \in S : found[r][m].chat = job[r].chat
    BY <1>4, <1>6 DEF InPlace
  <2>2. job[r].chat \in Chats
    BY <1>2 DEF Job
  <2> HIDE DEF S
  <2>3. Versions!Only(S)
    BY <1>1, <1>2 DEF Versions!Only, Versions!Remember, Versions!Row, Row, VNext
  <2>4. Versions!Clear(job[r].chat, S)
    BY <1>1, <1>2, <1>3, <2>1, <2>3 DEF Versions!Clear
  <2> QED BY <1>2, <2>2, <2>4 DEF Versions!Next
<1> QED BY <1>4, <1>5, <1>6 DEF InPlace

LEMMA DropMaps ==
  ASSUME VInductive, VNext, NEW r \in Requests, Drop(r)
  PROVE  Versions!Next \/ UNCHANGED <<chats, messages>>
<1> DEFINE c == job[r].chat
<1>1. /\ chats' = chats \ {c}
      /\ messages' = [m \in Messages |->
                        IF m \in Cascade(c) THEN Absent ELSE messages[m]]
      /\ c \in Chats
      /\ messages \in [Messages -> Row \cup {Absent}]
  BY DEF Drop, VInductive, Inductive, TypeOK, Job
<1>2. CASE c \in chats
  <2>1. Versions!DropChat(c)
    BY <1>1, <1>2
       DEF Versions!DropChat, Versions!Remember, VNext, Cascade, Present
  <2> QED BY <1>1, <2>1 DEF Versions!Next
<1>3. CASE c \notin chats
  <2>1. Cascade(c) = {}
    BY <1>3 DEF Cascade, VInductive, Inductive, NoMessageOutlivesItsChat
  <2>2. messages' = messages
    BY <1>1, <2>1
  <2> QED BY <1>1, <1>3, <2>2
<1> QED BY <1>2, <1>3

(* What a save leaves in one row it writes is a merge of the row that is   *)
(* there and the entity, or the entity if there is none.                   *)
LEMMA SavedRow ==
  ASSUME VInductive, NEW r \in Requests, pc[r] = "write",
         NEW m \in Messages, found[r][m] # Absent, NEW byReference \in BOOLEAN,
         \/ /\ loaded[r][m] = Absent
            /\ messages[m] = Absent
            /\ ChatKey(Edited(job[r], found[r][m]))
            /\ messages'[m] = Edited(job[r], found[r][m])
         \/ /\ loaded[r][m] # Absent
            /\ messages[m] # Absent
            /\ messages'[m] = Updated(messages[m], loaded[r][m],
                                      Edited(job[r], found[r][m]), byReference)
  PROVE  Versions!Saved(m, Edited(job[r], found[r][m]))
<1> DEFINE entity == Edited(job[r], found[r][m])
<1>1. entity \in Row /\ Sound(m, entity, origin[m], issued, requested)
  BY EntitySound DEF VInductive
<1>2. CASE messages[m] = Absent
  BY <1>2 DEF ChatKey, Versions!Saved
<1>3. CASE messages[m] # Absent
  <2> DEFINE new == Updated(messages[m], loaded[r][m], entity, byReference)
  <2>1. messages[m] \in Row /\ loaded[r][m] \in Row
    BY <1>3 DEF VInductive, Inductive, TypeOK
  <2>2. /\ Sound(m, messages[m], origin[m], issued, requested)
        /\ Sound(m, loaded[r][m], origin[m], issued, requested)
    BY <1>3 DEF VInductive, Inductive, RowsSound, CopiesSound
  <2>3. new \in Row /\ Sound(m, new, origin[m], issued, requested)
    BY <1>1, <2>1, <2>2, UpdatedType, UpdatedSound
  <2>4. /\ new.status \in {messages[m].status, entity.status}
        /\ new.readers \in {messages[m].readers, entity.readers}
    BY DEF Updated, Column
  <2>5. messages'[m] = new
    BY <1>3
  <2>6. new # Absent
    BY <2>3, MessageStoreAssumption
  <2> HIDE DEF new, entity
  <2>7. Versions!Merged(new, messages[m], entity)
    BY <2>2, <2>3, <2>4 DEF Versions!Merged, Sound
  <2> QED BY <1>3, <2>5, <2>6, <2>7 DEF Versions!Saved, entity
<1> QED BY <1>2, <1>3

(* A save is the operation that was asked for, on a version of each of the *)
(* rows it writes and on all of them at once.                              *)
LEMMA WriteMaps ==
  ASSUME VInductive, VNext, NEW r \in Requests, Write(r), ~End(r)
  PROVE  Versions!Next \/ UNCHANGED <<chats, messages>>
<1> DEFINE entities == Present(found[r])
           inserts == entities \ Present(loaded[r])
           S == inserts \cup (entities \cap Present(messages))
<1>1. /\ pc[r] = "write" /\ UNCHANGED chats
      /\ \A m \in inserts : /\ ChatKey(Edited(job[r], found[r][m]))
                            /\ messages[m] = Absent
  BY DEF Write
<1>2. PICK byReference \in BOOLEAN :
        messages' = [m \in Messages |->
          IF m \in inserts THEN Edited(job[r], found[r][m])
          ELSE IF m \in entities \cap Present(messages)
          THEN Updated(messages[m], loaded[r][m],
                       Edited(job[r], found[r][m]), byReference)
          ELSE messages[m]]
  BY DEF Write
<1>3. /\ messages \in [Messages -> Row \cup {Absent}]
      /\ messages' \in [Messages -> Row \cup {Absent}]
      /\ job[r] \in Job
      /\ S \in SUBSET Messages
      /\ \A m \in S : found[r][m] \in Row
  <2>1. TypeOK /\ TypeOK'
    BY TypeStep DEF VInductive, Inductive, VNext
  <2> QED BY <1>1, <2>1 DEF TypeOK, Present
<1>4. \A m \in S : Versions!Saved(m, Edited(job[r], found[r][m]))
  <2> SUFFICES ASSUME NEW m \in S
               PROVE  Versions!Saved(m, Edited(job[r], found[r][m]))
    OBVIOUS
  <2>1. m \in Messages /\ found[r][m] # Absent
    BY DEF Present
  <2>2. CASE m \in inserts
    BY <1>1, <1>2, <2>1, <2>2, SavedRow DEF Present
  <2>3. CASE m \notin inserts
    BY <1>1, <1>2, <2>1, <2>3, SavedRow DEF Present
  <2> QED BY <2>2, <2>3
<1>5. Versions!Only(S)
  <2>1. \A m \in Messages \ S : messages'[m] = messages[m]
    BY <1>2
  <2> HIDE DEF S
  <2> QED BY <1>1, <1>3, <2>1
          DEF Versions!Only, Versions!Remember, Versions!Row, Row, VNext
<1>6. /\ InPlace("write", job[r], found[r])
      /\ \A m \in S : found[r][m] \in past[m]
      /\ \A m \in S : m \in job[r].ids /\ Matches(job[r], found[r][m])
  BY <1>1 DEF VInductive, HandlersInPlace, Versioned, Present,
              Inductive, FoundAskedFor
<1>7. /\ job[r].user \in Users
      /\ job[r].chat \in Chats
      /\ job[r].status \in Statuses
  BY <1>3 DEF Job
<1> HIDE DEF S
<1>8. CASE job[r].op = "read"
  <2>1. Versions!MarkRead(job[r].user, job[r].chat, S)
    BY <1>4, <1>5, <1>6, <1>8 DEF Versions!MarkRead, Edited, Matches
  <2> QED BY <1>3, <1>7, <2>1 DEF Versions!Next
<1>9. CASE job[r].op = "status"
  <2>1. Versions!ChangeStatus(job[r].status, S)
    BY <1>4, <1>5, <1>6, <1>9 DEF Versions!ChangeStatus, Edited
  <2> QED BY <1>3, <1>7, <2>1 DEF Versions!Next
<1>10. CASE job[r].op = "edit"
  <2>1. PICK m \in Messages : job[r].ids = {m}
    BY <1>6, <1>10 DEF InPlace
  <2>2. CASE S = {}
    BY <1>1, <1>3, <1>5, <2>2 DEF Versions!Only
  <2>3. CASE S = {m}
    <3>1. Versions!Edit(m)
      BY <1>4, <1>5, <1>6, <1>10, <2>3 DEF Versions!Edit, Edited
    <3> QED BY <3>1 DEF Versions!Next
  <2> QED BY <1>6, <2>1, <2>2, <2>3
<1> QED BY <1>6, <1>8, <1>9, <1>10 DEF InPlace

(* Whatever a step does, seen from the tables it is an operation or none.  *)
LEMMA StepMaps ==
  VInductive /\ [VNext]_<<vars, past>> => [Versions!Next]_(Versions!vars)
<1> SUFFICES ASSUME VInductive, [VNext]_<<vars, past>>
             PROVE  Versions!Next \/ UNCHANGED Versions!vars
  OBVIOUS
<1>1. CASE UNCHANGED <<vars, past>>
  BY <1>1 DEF vars, Versions!vars
<1>2. CASE VNext /\ UNCHANGED <<chats, messages>>
  <2>1. past' = past
    BY <1>2, PastGrows DEF VInductive, Inductive, TypeOK
  <2> QED BY <1>2, <2>1 DEF Versions!vars
<1>3. CASE VNext
  <2>1. PICK r \in Requests : Arrive(r) \/ Step(r) \/ Fail(r)
    BY <1>3 DEF VNext, Next
  <2>2. CASE Arrive(r)
    <3>1. \A j, where : Begin(r, j, where) => UNCHANGED <<chats, messages>>
      BY DEF Begin, store
    <3>2. PICK u \in Users, c \in Chats :
            \/ \E t \in Texts \cup {NoText}, f \in BOOLEAN : StartCreate(r, u, c, t, f)
            \/ \E ids \in SUBSET Messages : StartRead(r, u, c, ids)
            \/ \E ids \in SUBSET Messages, s \in Statuses : StartStatus(r, u, c, ids, s)
            \/ \E m \in Messages, t \in Texts : StartEdit(r, u, c, m, t)
            \/ \E m \in Messages : StartDelete(r, u, c, m)
            \/ StartClear(r, u, c)
            \/ StartDrop(r, u, c)
      BY <2>2, Zenon DEF Arrive
    <3>3. UNCHANGED <<chats, messages>>
      <4>1. CASE \E t \in Texts \cup {NoText}, f \in BOOLEAN : StartCreate(r, u, c, t, f)
        BY <3>1, <4>1, Zenon DEF StartCreate
      <4>2. CASE \E ids \in SUBSET Messages : StartRead(r, u, c, ids)
        BY <3>1, <4>2, Zenon DEF StartRead
      <4>3. CASE \E ids \in SUBSET Messages, s \in Statuses : StartStatus(r, u, c, ids, s)
        BY <3>1, <4>3, Zenon DEF StartStatus
      <4>4. CASE \E m \in Messages, t \in Texts : StartEdit(r, u, c, m, t)
        BY <3>1, <4>4, Zenon DEF StartEdit
      <4>5. CASE \E m \in Messages : StartDelete(r, u, c, m)
        BY <3>1, <4>5, Zenon DEF StartDelete
      <4>6. CASE StartClear(r, u, c)
        BY <3>1, <4>6, Zenon DEF StartClear
      <4>7. CASE StartDrop(r, u, c)
        BY <3>1, <4>7, Zenon DEF StartDrop
      <4> QED BY <3>2, <4>1, <4>2, <4>3, <4>4, <4>5, <4>6, <4>7
    <3> QED BY <1>2, <1>3, <3>3
  <2>3. CASE Insert(r) \/ Write(r)
    <3>1. CASE End(r)
      <4>0. pc \in [Requests -> PCs]
        BY DEF VInductive, Inductive, TypeOK
      <4>1. ~Goto(r, "publish")
        BY <2>1, <3>1, <4>0, EndsIdle
      <4>2. UNCHANGED <<chats, messages>>
        BY <2>3, <4>1 DEF Insert, Write
      <4> QED BY <1>2, <1>3, <4>2
    <3> QED BY <1>2, <1>3, <2>3, <3>1, InsertMaps, WriteMaps
  <2>4. CASE Remove(r)
    BY <1>2, <1>3, <2>4, RemoveMaps
  <2>5. CASE Drop(r)
    BY <1>2, <1>3, <2>5, DropMaps
  <2>6. CASE Find(r) \/ Load(r) \/ Publish(r) \/ Fail(r)
    BY <1>2, <1>3, <2>6 DEF Find, Load, Publish, Fail, store
  <2> QED BY <2>1, <2>2, <2>3, <2>4, <2>5, <2>6 DEF Step
<1> QED BY <1>1, <1>3

(* The handlers of ChatsGatewayV1 and their statements, interleaved in any *)
(* way and broken off anywhere, implement operations in one step on        *)
(* versions of the rows.                                                   *)
THEOREM ImplementsTheVersions == VSpec => ImplementsVersions
<1>1. VSpec => []VInductive
  BY VInductiveInit, VInductiveStep, PTL DEF VSpec
<1> QED BY <1>1, MapsInit, StepMaps, PTL DEF VSpec, ImplementsVersions, Versions!Spec
=============================================================================
