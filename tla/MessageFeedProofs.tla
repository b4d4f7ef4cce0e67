-------------------------- MODULE MessageFeedProofs --------------------------
(* Theorems about MessageFeed, for any users, messages and handlers.        *)
EXTENDS MessageFeed, TLAPS

-----------------------------------------------------------------------------
(* The inductive invariant *)

Owes(q, m)  == event[q] # Absent /\ m \in About(event[q])
ToTell(q, m) == at[q] = "publish" /\ m \in About(event[q])
Kind(q) == event[q].kind

(* Handlers at work: one that owes no event is in no order, and what one   *)
(* has found are messages that were there.                                 *)
InPlace ==
  \A q \in Requests :
    /\ event[q] = Absent => later[q] = {}
    /\ at[q] = "remove" => event[q] = Emptied
    /\ \A m \in Messages : found[q][m] # Absent => m \notin unused
    /\ q \notin later[q]

(* Of two handlers that owe an event about a message one is the later.     *)
Ordered ==
  \A p, q \in Requests : \A m \in Messages :
    p # q /\ Owes(p, m) /\ Owes(q, m) => p \in later[q] \/ q \in later[p]

(* A message is not created after it was found.                            *)
FoundBefore ==
  \A p, q \in Requests : \A m \in Messages :
    at[q] = "remove" /\ found[q][m] # Absent /\ ToTell(p, m) /\ Kind(p) = "created"
      => p \notin later[q]

(* What clear-chat has not found is not there, but for messages created    *)
(* since, or put back by the save of a copy.                               *)
Brings(p, m) ==
  ToTell(p, m) /\ (Kind(p) = "created" \/ (Kind(p) = "rows" /\ m \in outdated[p]))
RestIsGone ==
  \A q \in Requests : \A m \in Messages :
    /\ at[q] = "remove" /\ found[q][m] = Absent /\ m \notin outdated[q]
    /\ \A p \in later[q] : ~Brings(p, m)
    => messages[m] = Absent

(* The newest event about a message tells what is in the table.            *)
Newest(q, m) == ToTell(q, m) /\ m \notin outdated[q] /\ \A p \in later[q] : ~ToTell(p, m)
NewestTells ==
  \A q \in Requests : \A m \in Messages : Newest(q, m) =>
    CASE Kind(q) = "created" -> messages[m] = event[q].rows[m]
      [] Kind(q) = "rows" -> messages[m] \in {event[q].rows[m], Absent}
      [] OTHER -> messages[m] = Absent

(* The newest that may be about a row that came or went tells whether it   *)
(* is there.  Events about rows that changed are, when they are outdated:  *)
(* the save may have put the row back.                                     *)
ComesOrGoes(q, m) == ToTell(q, m) /\ (Kind(q) # "rows" \/ m \in outdated[q])
LastWord(q, m) ==
  /\ ToTell(q, m) /\ Kind(q) # "rows" /\ m \notin outdated[q]
  /\ \A p \in later[q] : ~ComesOrGoes(p, m)
PresenceTold ==
  \A q \in Requests : \A m \in Messages :
    LastWord(q, m) => (messages[m] # Absent <=> Kind(q) = "created")

(* Lists have the messages that are there when nobody is to tell who came  *)
(* or went, and as they are when nobody is to tell anything.               *)
UpToDate(u, m) == u \in listed /\ <<u, m>> \notin missed
SamePresence ==
  \A u \in Users, m \in Messages :
    UpToDate(u, m) /\ (\A q \in Requests : ~ComesOrGoes(q, m))
      => (view[u][m] # Absent <=> messages[m] # Absent)
SameRow ==
  \A u \in Users, m \in Messages :
    UpToDate(u, m) /\ (\A q \in Requests : ~ToTell(q, m)) => view[u][m] = messages[m]

Inductive ==
  /\ TypeOK
  /\ InPlace
  /\ Ordered
  /\ FoundBefore
  /\ RestIsGone
  /\ NewestTells
  /\ PresenceTold
  /\ SamePresence
  /\ SameRow

-----------------------------------------------------------------------------
(* Types *)

LEMMA TypeInit == Init => TypeOK
BY DEF Init, TypeOK, Nothing, Table, Present, Places

LEMMA EventTypes ==
  /\ Nothing \in Table
  /\ Emptied \in Event /\ Emptied.kind = "emptied" /\ About(Emptied) = Messages
  /\ \A rows \in Table : \A kind \in {"created", "rows", "deleted", "emptied"} :
       [kind |-> kind, rows |-> rows] \in Event
  /\ \A e \in Event : e # Absent
BY MessageFeedAssumption DEF Nothing, Table, Emptied, Event, About

(* The rows of a handler are rows of the table. *)
LEMMA RowTypes ==
  ASSUME TypeOK, NEW r \in Requests
  PROVE  /\ messages \in Table /\ found[r] \in Table /\ loaded[r] \in Table
         /\ \A S \in SUBSET Messages : Pick(S) \in Table
         /\ at[r] # "idle" => /\ job[r] \in Job /\ NewRow(job[r].user) \in Row
                              /\ \A row \in Row : Edited(job[r], row) \in Row
<1>1. /\ messages \in Table /\ found[r] \in Table /\ loaded[r] \in Table
      /\ at[r] # "idle" => job[r] \in Job
  BY DEF TypeOK
<1>2. \A S \in SUBSET Messages : Pick(S) \in Table
  BY DEF TypeOK, Pick, Table
<1>3. ASSUME job[r] \in Job
      PROVE  /\ NewRow(job[r].user) \in Row
             /\ \A row \in Row : Edited(job[r], row) \in Row
  BY <1>3 DEF Job, NewRow, Edited, Row
<1> QED BY <1>1, <1>2, <1>3

LEMMA UpdatedType ==
  ASSUME NEW now \in Row, NEW was \in Row, NEW entity \in Row, NEW b \in BOOLEAN
  PROVE  Updated(now, was, entity, b) \in Row
BY DEF Updated, Row

(* What a save does. *)
LEMMA WriteSo ==
  ASSUME TypeOK, NEW r \in Requests, Write(r)
  PROVE  \E e \in Event :
           /\ at[r] = "write" /\ e.kind = "rows"
           /\ \A m \in Messages : e.rows[m] # Absent <=> found[r][m] # Absent
           /\ Changes(r, e) /\ UNCHANGED <<chat, unused>>
           /\ messages' \in Table
           /\ \A m \in Messages : m \notin About(e) => messages'[m] = messages[m]
           /\ outdated' = [outdated EXCEPT ![r] =
                {m \in About(e) : messages[m] = Absent \/ messages'[m] # e.rows[m]}]
<1> DEFINE inserts == {m \in Messages : found[r][m] # Absent /\ loaded[r][m] = Absent}
           e == [kind |-> "rows", rows |-> Entities(r)]
<1>1. /\ at[r] = "write" /\ Changes(r, e) /\ UNCHANGED <<chat, unused>>
      /\ outdated' = [outdated EXCEPT ![r] =
           {m \in About(e) : messages[m] = Absent \/ messages'[m] # Entities(r)[m]}]
  BY DEF Write
<1>2. PICK b \in BOOLEAN :
        messages' = [m \in Messages |->
          CASE m \in inserts -> Entities(r)[m]
            [] m \in (About(e) \ inserts) \cap Present ->
                 Updated(messages[m], loaded[r][m], Entities(r)[m], b)
            [] OTHER -> messages[m]]
  BY DEF Write
<1>0. /\ messages \in [Messages -> Row \cup {Absent}] /\ Absent \notin Row
      /\ found[r] \in [Messages -> Row \cup {Absent}]
      /\ loaded[r] \in [Messages -> Row \cup {Absent}]
  BY RowTypes, MessageFeedAssumption DEF Table
<1>3. ASSUME NEW m \in Messages
      PROVE  /\ Entities(r)[m] \in Row \cup {Absent}
             /\ Entities(r)[m] # Absent <=> found[r][m] # Absent
  <2>1. CASE found[r][m] = Absent
    BY <2>1 DEF Entities
  <2>2. CASE found[r][m] # Absent
    <3>1. Edited(job[r], found[r][m]) \in Row
      BY <1>0, <1>1, <2>2, RowTypes
    <3> QED BY <1>0, <2>2, <3>1 DEF Entities
  <2> QED BY <2>1, <2>2
<1>4. Entities(r) \in Table
  BY <1>3 DEF Entities, Table
<1>5. e \in Event /\ e.kind = "rows" /\ e.rows = Entities(r)
  BY <1>4, EventTypes
<1>6. About(e) = {m \in Messages : found[r][m] # Absent}
  BY <1>3, <1>5 DEF About
<1> HIDE DEF e
<1>7. ASSUME NEW m \in Messages
      PROVE  /\ messages'[m] \in Row \cup {Absent}
             /\ m \notin About(e) => messages'[m] = messages[m]
  <2>1. CASE m \in inserts
    BY <1>2, <1>3, <1>6, <2>1
  <2>2. CASE m \in (About(e) \ inserts) \cap Present
    <3> DEFINE now == messages[m]
               was == loaded[r][m]
               entity == Entities(r)[m]
    <3>1. messages'[m] = Updated(now, was, entity, b)
      BY <1>2, <2>2
    <3>2. now \in Row /\ was \in Row /\ entity \in Row
      BY <1>0, <1>3, <1>6, <2>2 DEF Present
    <3> HIDE DEF now, was, entity
    <3>3. messages'[m] \in Row
      BY <3>1, <3>2, UpdatedType
    <3> QED BY <2>2, <3>3
  <2>3. CASE m \notin inserts /\ m \notin (About(e) \ inserts) \cap Present
    BY <1>0, <1>2, <2>3
  <2> QED BY <2>1, <2>2, <2>3
<1>8. messages' = [m \in Messages |-> messages'[m]]
  BY <1>2
<1>9. messages' \in Table
  BY <1>7, <1>8 DEF Table
<1> QED BY <1>1, <1>3, <1>5, <1>7, <1>9

(* The slots when a handler owes e. *)
LEMMA OweType ==
  ASSUME TypeOK, NEW r \in Requests, NEW e \in Event, Owe(r, e)
  PROVE  /\ event' \in [Requests -> Event \cup {Absent}]
         /\ event'[r] # Absent /\ \A q \in Requests \ {r} : event'[q] = event[q]
         /\ later' \in [Requests -> SUBSET Requests]
BY EventTypes DEF TypeOK, Owe

LEMMA ChangesType ==
  ASSUME TypeOK, NEW r \in Requests, at[r] # "idle", NEW e \in Event, Changes(r, e),
         chat' \in BOOLEAN, messages' \in Table,
         unused' \in SUBSET Messages, \A m \in unused' : messages'[m] = Absent,
         outdated' \in [Requests -> SUBSET Messages]
  PROVE  TypeOK'
<1>1. /\ at' = [at EXCEPT ![r] = "publish"] /\ UNCHANGED <<job, clients, missed>>
      /\ found' = [found EXCEPT ![r] = Nothing] /\ loaded' = [loaded EXCEPT ![r] = Nothing]
      /\ Owe(r, e)
  BY DEF Changes, Goto, Forget
<1>2. /\ at' \in [Requests -> Places] /\ at'[r] = "publish"
      /\ \A q \in Requests \ {r} : at'[q] = at[q]
      /\ found' \in [Requests -> Table] /\ loaded' \in [Requests -> Table]
  BY <1>1, EventTypes DEF TypeOK, Places
<1>3. \A q \in Requests : at'[q] \in {"remove", "publish"} <=> event'[q] # Absent
  BY <1>1, <1>2, OweType DEF TypeOK
<1>4. \A q \in Requests : at'[q] # "idle" => job'[q] \in Job
  BY <1>1, <1>2 DEF TypeOK
<1>5. unused' \in SUBSET (Messages \ Present')
  BY DEF Present
<1> QED BY <1>1, <1>2, <1>3, <1>4, <1>5, OweType DEF TypeOK, clients

-----------------------------------------------------------------------------
(* What the steps of the handlers come to *)

(* A handler that only reads. *)
Looks(r) ==
  \/ \E u \in Users, op \in Ops, ids \in SUBSET Present : Start(r, op, u, ids)
  \/ Find(r) \/ Load(r)

LEMMA LooksSo ==
  ASSUME TypeOK, InPlace, NEW r \in Requests, Looks(r)
  PROVE  /\ event[r] = Absent
         /\ at' \in [Requests -> Places] /\ at'[r] \notin {"idle", "remove", "publish"}
         /\ job' \in [Requests -> Job \cup {Absent}] /\ job'[r] \in Job
         /\ found' \in [Requests -> Table] /\ loaded' \in [Requests -> Table]
         /\ \A q \in Requests \ {r} :
              at'[q] = at[q] /\ job'[q] = job[q] /\ found'[q] = found[q]
         /\ \A m \in Messages : found'[r][m] # Absent => m \notin unused
         /\ UNCHANGED <<tables, event, clients, later, outdated, missed>>
<1>0. /\ \A m \in Messages : found[r][m] # Absent => m \notin unused
      /\ at[r] \notin {"remove", "publish"} => event[r] = Absent
      /\ \A where \in {"insert", "find", "load", "write", "delete", "drop"} : where \in Places
  BY DEF TypeOK, InPlace, Places
<1>1. ASSUME NEW u \in Users, NEW op \in Ops, NEW ids \in SUBSET Present,
             Start(r, op, u, ids)
      PROVE  \E where \in {"insert", "find", "drop"} :
               /\ at[r] = "idle" /\ Goto(r, where)
               /\ job' = [job EXCEPT ![r] = [op |-> op, user |-> u, ids |-> ids]]
               /\ UNCHANGED <<tables, found, loaded, event, clients, later, outdated, missed>>
  <2>1. CASE op \in {"read", "resend", "delete"}
    BY <1>1, <2>1 DEF Start, Begin
  <2>2. CASE op = "create"
    BY <1>1, <2>2 DEF Start, Begin
  <2>3. CASE op \notin {"read", "resend", "delete", "create"}
    BY <1>1, <2>3 DEF Start, Begin
  <2> QED BY <2>1, <2>2, <2>3
<1>2. CASE \E u \in Users, op \in Ops, ids \in SUBSET Present : Start(r, op, u, ids)
  <2> PICK u \in Users, op \in Ops, ids \in SUBSET Present : Start(r, op, u, ids)
    BY <1>2
  <2> PICK where \in {"insert", "find", "drop"} :
        /\ at[r] = "idle" /\ Goto(r, where)
        /\ job' = [job EXCEPT ![r] = [op |-> op, user |-> u, ids |-> ids]]
        /\ UNCHANGED <<tables, found, loaded, event, clients, later, outdated, missed>>
    BY <1>1
  <2>1. [op |-> op, user |-> u, ids |-> ids] \in Job
    BY MessageFeedAssumption DEF Job, Present
  <2>2. UNCHANGED <<tables, event, clients, later, outdated, missed>> /\ event[r] = Absent
    BY <1>0
  <2>3. /\ at' \in [Requests -> Places] /\ at'[r] = where
        /\ job' \in [Requests -> Job \cup {Absent}] /\ job'[r] \in Job
        /\ \A q \in Requests \ {r} : at'[q] = at[q] /\ job'[q] = job[q]
    BY <1>0, <2>1 DEF Goto, TypeOK
  <2>4. found' = found /\ loaded' = loaded
    OBVIOUS
  <2> QED BY <1>0, <2>2, <2>3, <2>4 DEF TypeOK
<1>3. CASE Find(r)
  <2> DEFINE rows == {m \in job[r].ids \cap Present : Matches(job[r], messages[m])}
  <2>1. rows \in SUBSET Messages /\ rows \subseteq Present
    BY DEF Present
  <2>2. PICK where \in {"delete", "load"} :
           /\ at[r] = "find" /\ Goto(r, where)
           /\ found' = [found EXCEPT ![r] = Pick(rows)]
           /\ UNCHANGED <<tables, job, loaded, event, clients, later, outdated, missed>>
    BY <1>3 DEF Find
  <2> HIDE DEF rows
  <2>3. Pick(rows) \in Table /\ job[r] \in Job
    BY <2>1, <2>2, RowTypes
  <2>4. \A m \in Messages : Pick(rows)[m] # Absent => m \notin unused
    BY <2>1 DEF Pick, TypeOK, Present
  <2>5. /\ at' \in [Requests -> Places] /\ at'[r] = where
        /\ found' \in [Requests -> Table] /\ found'[r] = Pick(rows)
        /\ \A q \in Requests \ {r} : at'[q] = at[q] /\ found'[q] = found[q]
    BY <1>0, <2>2, <2>3 DEF Goto, TypeOK
  <2> QED BY <1>0, <2>2, <2>3, <2>4, <2>5 DEF TypeOK
<1>4. CASE Load(r)
  <2> DEFINE rows == {m \in Messages : found[r][m] # Absent}
  <2>1. /\ at[r] = "load" /\ Goto(r, "write")
        /\ loaded' = [loaded EXCEPT ![r] = Pick(rows)]
        /\ UNCHANGED <<tables, job, found, event, clients, later, outdated, missed>>
    BY <1>4 DEF Load
  <2>2. Pick(rows) \in Table /\ job[r] \in Job
    BY <2>1, RowTypes
  <2> HIDE DEF rows
  <2>3. /\ at' \in [Requests -> Places] /\ at'[r] = "write"
        /\ loaded' \in [Requests -> Table] /\ found' = found
        /\ \A q \in Requests \ {r} : at'[q] = at[q]
    BY <1>0, <2>1, <2>2 DEF Goto, TypeOK
  <2> QED BY <1>0, <2>1, <2>2, <2>3 DEF TypeOK
<1> QED BY <1>2, <1>3, <1>4 DEF Looks

(* What a handler has made of m when it is to publish e. *)
Tells(e, m) ==
  CASE e.kind = "created" -> messages'[m] = e.rows[m] /\ messages'[m] # Absent
    [] e.kind = "rows" -> /\ messages[m] # Absent
                          /\ messages'[m] = e.rows[m] /\ messages'[m] # Absent
    [] OTHER -> messages'[m] = Absent

(* A handler that changes the tables. *)
Alters(r) == Insert(r) \/ Write(r) \/ Delete(r) \/ Drop(r)

AltersTo(r, e) ==
  /\ at[r] \in {"insert", "write", "delete", "drop"} /\ Changes(r, e)
  /\ chat' \in BOOLEAN /\ messages' \in Table
  /\ unused' \subseteq unused /\ \A m \in unused' : messages'[m] = Absent
  /\ outdated' \in [Requests -> SUBSET Messages]
  /\ \A q \in Requests \ {r} : outdated'[q] = outdated[q]
  /\ \A m \in About(e) : ~(e.kind = "rows" /\ m \in outdated'[r]) => Tells(e, m)
  /\ \A m \in Messages \ About(e) : messages'[m] = messages[m]
  /\ e.kind = "created" => About(e) \subseteq unused

LEMMA AltersSo ==
  ASSUME TypeOK, InPlace, NEW r \in Requests, Alters(r)
  PROVE  \E e \in Event : AltersTo(r, e)
<1>0. /\ messages \in [Messages -> Row \cup {Absent}] /\ chat \in BOOLEAN
      /\ unused \in SUBSET Messages /\ \A m \in unused : messages[m] = Absent
      /\ Absent \notin Row
      /\ outdated \in [Requests -> SUBSET Messages]
  BY MessageFeedAssumption DEF TypeOK, Table, Present
<1>1. CASE Insert(r)
  <2> DEFINE row == NewRow(job[r].user)
  <2>1. at[r] = "insert" /\ row \in Row /\ UNCHANGED <<chat, outdated>>
    BY <1>1, RowTypes DEF Insert
  <2> PICK m \in unused :
        /\ messages' = [messages EXCEPT ![m] = row]
        /\ unused' = unused \ {m}
        /\ Changes(r, [kind |-> "created", rows |-> [Nothing EXCEPT ![m] = row]])
    BY <1>1 DEF Insert
  <2> DEFINE rows == [Nothing EXCEPT ![m] = row]
             e == [kind |-> "created", rows |-> rows]
  <2> HIDE DEF row
  <2>2. rows \in Table /\ rows[m] = row /\ \A k \in Messages \ {m} : rows[k] = Absent
    BY <1>0, <2>1 DEF Nothing, Table
  <2>3. e \in Event /\ e.kind = "created" /\ e.rows = rows
    BY <2>2, EventTypes
  <2>4. Changes(r, e)
    OBVIOUS
  <2> HIDE DEF rows
  <2>5. About(e) = {m}
    BY <1>0, <2>1, <2>2 DEF About
  <2>6. /\ messages'[m] = row /\ \A k \in Messages \ {m} : messages'[k] = messages[k]
        /\ messages' \in Table
    BY <1>0, <2>1 DEF Table
  <2>7. Tells(e, m)
    BY <1>0, <2>1, <2>2, <2>3, <2>6 DEF Tells
  <2>8. unused' \subseteq unused /\ \A k \in unused' : messages'[k] = Absent
    BY <1>0, <2>6
  <2> HIDE DEF e
  <2>9. AltersTo(r, e)
    BY <1>0, <2>1, <2>3, <2>4, <2>5, <2>6, <2>7, <2>8 DEF AltersTo
  <2> QED BY <2>3, <2>9
<1>2. CASE Write(r)
  <2> PICK e \in Event :
           /\ at[r] = "write" /\ e.kind = "rows"
           /\ \A m \in Messages : e.rows[m] # Absent <=> found[r][m] # Absent
           /\ Changes(r, e) /\ UNCHANGED <<chat, unused>>
           /\ messages' \in Table
           /\ \A m \in Messages : m \notin About(e) => messages'[m] = messages[m]
           /\ outdated' = [outdated EXCEPT ![r] =
                {m \in About(e) : messages[m] = Absent \/ messages'[m] # e.rows[m]}]
    BY <1>2, WriteSo
  <2>1. About(e) = {m \in Messages : found[r][m] # Absent}
    BY DEF About
  <2>2. outdated'[r] = {m \in About(e) : messages[m] = Absent \/ messages'[m] # e.rows[m]}
    BY DEF TypeOK
  <2>3. \A m \in About(e) : m \notin outdated'[r] => Tells(e, m)
    BY <2>1, <2>2 DEF Tells
  <2>4. \A m \in unused : messages'[m] = Absent
    BY <1>0, <2>1 DEF InPlace
  <2>5. /\ outdated' \in [Requests -> SUBSET Messages]
        /\ \A q \in Requests \ {r} : outdated'[q] = outdated[q]
    BY <1>0, <2>1
  <2>6. AltersTo(r, e)
    BY <1>0, <2>3, <2>4, <2>5 DEF AltersTo
  <2> QED BY <2>6
<1>3. CASE Delete(r)
  <2> DEFINE e == [kind |-> "deleted", rows |-> found[r]]
  <2>1. /\ at[r] = "delete" /\ Changes(r, e) /\ UNCHANGED <<chat, unused, outdated>>
        /\ messages' = [m \in Messages |->
                          IF found[r][m] # Absent THEN Absent ELSE messages[m]]
    BY <1>3 DEF Delete
  <2>2. e \in Event /\ e.kind = "deleted"
    BY RowTypes, EventTypes
  <2>3. About(e) = {m \in Messages : found[r][m] # Absent}
    BY DEF About
  <2>4. messages' \in Table
    BY <1>0, <2>1 DEF Table
  <2>5. \A m \in About(e) : Tells(e, m)
    BY <2>1, <2>2, <2>3 DEF Tells
  <2> HIDE DEF e
  <2>6. AltersTo(r, e)
    BY <1>0, <2>1, <2>2, <2>3, <2>4, <2>5 DEF AltersTo
  <2> QED BY <2>2, <2>6
<1>4. CASE Drop(r)
  <2>1. /\ at[r] = "drop" /\ Changes(r, Emptied) /\ UNCHANGED <<unused, outdated>>
        /\ chat' = FALSE /\ messages' = Nothing
    BY <1>4 DEF Drop
  <2>2. \A m \in Messages : messages'[m] = Absent
    BY <2>1 DEF Nothing
  <2>3. \A m \in Messages : Tells(Emptied, m)
    BY <2>2, EventTypes DEF Tells
  <2>4. AltersTo(r, Emptied)
    BY <1>0, <2>1, <2>2, <2>3, EventTypes DEF AltersTo
  <2> QED BY <2>4, EventTypes
<1> QED BY <1>1, <1>2, <1>3, <1>4 DEF Alters

(* clear-chat has found what there is. *)
LEMMA ClearSo ==
  ASSUME TypeOK, NEW r \in Requests, NEW u \in Users, StartClear(r, u)
  PROVE  \E where \in {"remove", "publish"} : \E j \in Job :
           /\ event[r] = Absent
           /\ at' = [at EXCEPT ![r] = where] /\ job' = [job EXCEPT ![r] = j]
           /\ found' = [found EXCEPT ![r] = messages]
           /\ where = "publish" => \A m \in Messages : messages[m] = Absent
           /\ Owe(r, Emptied)
           /\ UNCHANGED <<tables, loaded, clients, outdated, missed>>
<1>1. PICK where \in {"remove", "publish"} :
        /\ Begin(r, "clear", u, {}, where)
        /\ where = "publish" => Present = {}
  BY DEF StartClear
<1>2. [op |-> "clear", user |-> u, ids |-> {}] \in Job
  BY DEF Job, AllOps
<1>3. /\ at[r] = "idle" /\ at' = [at EXCEPT ![r] = where]
      /\ job' = [job EXCEPT ![r] = [op |-> "clear", user |-> u, ids |-> {}]]
      /\ UNCHANGED <<tables, loaded, clients, outdated, missed>>
  BY <1>1 DEF Begin, Goto
<1>4. where = "publish" => \A m \in Messages : messages[m] = Absent
  BY <1>1 DEF Present
<1>5. event[r] = Absent
  BY <1>3 DEF TypeOK
<1>6. found' = [found EXCEPT ![r] = messages] /\ Owe(r, Emptied)
  BY DEF StartClear
<1> QED BY <1>2, <1>3, <1>4, <1>5, <1>6

LEMMA HandleIs ==
  ASSUME NEW r \in Requests, Handle(r)
  PROVE  \/ Looks(r) \/ Alters(r) \/ Remove(r)
         \/ \E u \in Users : StartClear(r, u)
BY DEF Handle, Looks, Alters

-----------------------------------------------------------------------------
(* TypeOK is preserved *)

LEMMA HandleType ==
  ASSUME TypeOK, InPlace, NEW r \in Requests, Handle(r)
  PROVE  TypeOK'
<1>0. /\ chat \in BOOLEAN /\ messages \in Table /\ unused \in SUBSET Messages
      /\ \A where \in {"insert", "find", "load", "write", "delete", "drop", "remove",
                       "publish"} : where \in Places
  BY DEF TypeOK, Places
<1>1. CASE Looks(r)
  BY <1>1, LooksSo DEF TypeOK, tables, clients, Present
<1>2. CASE Alters(r)
  <2> PICK e \in Event : AltersTo(r, e)
    BY <1>2, AltersSo
  <2> QED BY <1>0, ChangesType DEF AltersTo
<1>3. CASE Remove(r)
  <2>1. /\ at[r] = "remove" /\ at' = [at EXCEPT ![r] = "publish"]
        /\ messages' = [m \in Messages |->
                          IF found[r][m] # Absent THEN Absent ELSE messages[m]]
        /\ UNCHANGED <<chat, unused, job, copies, event, clients, later, outdated, missed>>
    BY <1>3 DEF Remove, Goto
  <2>2. messages' \in Table /\ unused' \in SUBSET (Messages \ Present')
    BY <2>1 DEF TypeOK, Table, Present
  <2> QED BY <1>0, <2>1, <2>2 DEF TypeOK, copies, clients
<1>4. ASSUME NEW u \in Users, StartClear(r, u) PROVE TypeOK'
  <2> PICK where \in {"remove", "publish"}, j \in Job :
           /\ event[r] = Absent
           /\ at' = [at EXCEPT ![r] = where] /\ job' = [job EXCEPT ![r] = j]
           /\ found' = [found EXCEPT ![r] = messages]
           /\ Owe(r, Emptied)
           /\ UNCHANGED <<tables, loaded, clients, outdated, missed>>
    BY <1>4, ClearSo
  <2>1. /\ event' \in [Requests -> Event \cup {Absent}]
        /\ event'[r] # Absent /\ \A q \in Requests \ {r} : event'[q] = event[q]
        /\ later' \in [Requests -> SUBSET Requests]
    BY EventTypes, OweType
  <2>2. \A q \in Requests : at'[q] \in {"remove", "publish"} <=> event'[q] # Absent
    BY <2>1 DEF TypeOK
  <2>3. /\ at' \in [Requests -> Places] /\ job' \in [Requests -> Job \cup {Absent}]
        /\ found' \in [Requests -> Table] /\ loaded' \in [Requests -> Table]
        /\ \A q \in Requests : at'[q] # "idle" => job'[q] \in Job
    BY <1>0 DEF TypeOK, Places, tables
  <2> QED BY <1>0, <2>1, <2>2, <2>3 DEF TypeOK, tables, clients, Present
<1> QED BY <1>1, <1>2, <1>3, <1>4, HandleIs

(* What the end of a handler does to the slots. *)
LEMMA EndType ==
  ASSUME TypeOK, NEW r \in Requests, End(r), Overtake(r)
  PROVE  /\ at' \in [Requests -> Places]
         /\ job' \in [Requests -> Job \cup {Absent}]
         /\ \A q \in Requests : at'[q] # "idle" => job'[q] \in Job
         /\ found' \in [Requests -> Table] /\ loaded' \in [Requests -> Table]
         /\ event' \in [Requests -> Event \cup {Absent}]
         /\ \A q \in Requests : at'[q] \in {"remove", "publish"} <=> event'[q] # Absent
         /\ later' \in [Requests -> SUBSET Requests]
         /\ outdated' \in [Requests -> SUBSET Messages]
<1>1. About(event[r]) \subseteq Messages
  BY DEF About
<1>2. "idle" \in Places
  BY DEF Places
<1> QED BY <1>1, <1>2, EventTypes DEF TypeOK, End, Overtake, Goto, Forget

LEMMA AppliedType ==
  ASSUME NEW list \in Table, NEW e \in Event
  PROVE  Applied(list, e) \in Table
BY DEF Applied, Table, Event

LEMMA TypeStep == TypeOK /\ InPlace /\ [Next]_vars => TypeOK'
<1> SUFFICES ASSUME TypeOK, InPlace, [Next]_vars PROVE TypeOK'
  OBVIOUS
<1>1. CASE UNCHANGED vars
  BY <1>1 DEF vars, TypeOK, Present
<1>2. ASSUME NEW r \in Requests, Handle(r)
      PROVE  TypeOK'
  BY <1>2, HandleType
<1>4. ASSUME NEW r \in Requests, Publish(r)
      PROVE  TypeOK'
  <2>1. /\ UNCHANGED <<chat, messages, unused, connected, joined, listed>>
        /\ event[r] \in Event
    BY <1>4 DEF Publish, tables, TypeOK
  <2>2. view' \in [Users -> Table]
    BY <1>4, <2>1, AppliedType DEF Publish, TypeOK
  <2>3. missed' \in SUBSET (Users \X Messages)
    <3>1. About(event[r]) \subseteq Messages
      BY DEF About
    <3>2. /\ Users \X (About(event[r]) \cap outdated[r]) \subseteq Users \X Messages
          /\ (Users \ joined) \X About(event[r]) \subseteq Users \X Messages
      BY <3>1
    <3> QED BY <1>4, <3>2 DEF Publish, TypeOK
  <2>4. unused' \in SUBSET (Messages \ Present')
    BY <2>1 DEF TypeOK, Present
  <2> QED BY <1>4, <2>1, <2>2, <2>3, <2>4, EndType DEF Publish, TypeOK
<1>5. ASSUME NEW r \in Requests, Fail(r)
      PROVE  TypeOK'
  <2>1. UNCHANGED <<chat, messages, unused, connected, joined, listed, view>>
    BY <1>5 DEF Fail, tables, clients
  <2>2. missed' \in SUBSET (Users \X Messages)
    <3>1. Users \X About(event[r]) \subseteq Users \X Messages
      BY DEF About
    <3> QED BY <1>5, <3>1 DEF Fail, TypeOK
  <2>3. unused' \in SUBSET (Messages \ Present')
    BY <2>1 DEF TypeOK, Present
  <2> QED BY <1>5, <2>1, <2>2, <2>3, EndType DEF Fail, TypeOK
<1>6. ASSUME NEW u \in Users, Connect(u) \/ Join(u) \/ Disconnect(u) \/ GetChats(u)
      PROVE  TypeOK'
  <2>1. UNCHANGED <<chat, messages, unused, job, at, found, loaded, event, later, outdated>>
    BY <1>6 DEF Connect, Join, Disconnect, GetChats, tables, handlers, copies
  <2>2. /\ connected' \in SUBSET Users
        /\ joined' \in SUBSET connected'
        /\ listed' \in SUBSET connected'
    BY <1>6 DEF Connect, Join, Disconnect, GetChats, TypeOK
  <2>3. view' \in [Users -> Table]
    BY <1>6, EventTypes DEF Connect, Join, Disconnect, GetChats, TypeOK
  <2>4. missed' \in SUBSET (Users \X Messages)
    BY <1>6 DEF Connect, Join, Disconnect, GetChats, TypeOK
  <2> QED BY <2>1, <2>2, <2>3, <2>4 DEF TypeOK, Present
<1> QED BY <1>1, <1>2, <1>4, <1>5, <1>6 DEF Next

-----------------------------------------------------------------------------
(* The steps and the invariant *)

LEMMA InductiveInit == Init => Inductive
<1> SUFFICES ASSUME Init PROVE Inductive
  OBVIOUS
<1>1. TypeOK
  BY TypeInit
<1>2. /\ \A q \in Requests : /\ at[q] = "idle" /\ later[q] = {} /\ event[q] = Absent
                             /\ \A m \in Messages : found[q][m] = Absent
      /\ listed = {}
  BY DEF Init, Nothing
<1> QED BY <1>1, <1>2 DEF Inductive, InPlace, Ordered, FoundBefore, RestIsGone,
           NewestTells, PresenceTold, SamePresence, SameRow, Owes, ToTell,
           Newest, LastWord, UpToDate

(* A handler that only looks disturbs nothing. *)
LEMMA LooksKeeps ==
  ASSUME Inductive, TypeOK', NEW r \in Requests, Looks(r)
  PROVE  Inductive'
<1>0. TypeOK /\ InPlace
  BY DEF Inductive
<1>a. /\ event[r] = Absent /\ at'[r] \notin {"remove", "publish"}
      /\ \A q \in Requests \ {r} : at'[q] = at[q] /\ found'[q] = found[q]
      /\ \A m \in Messages : found'[r][m] # Absent => m \notin unused
      /\ UNCHANGED <<messages, unused, event, listed, view, later, outdated, missed>>
  BY <1>0, LooksSo DEF tables, clients
<1>b. at[r] \notin {"remove", "publish"}
  BY <1>0, <1>a DEF TypeOK
<1>c. \A q \in Requests, m \in Messages :
        /\ Owes(q, m)' <=> Owes(q, m)
        /\ ToTell(q, m)' <=> ToTell(q, m)
        /\ ComesOrGoes(q, m)' <=> ComesOrGoes(q, m)
        /\ Brings(q, m)' <=> Brings(q, m)
        /\ Kind(q)' = Kind(q)
  <2>1. \A q \in Requests : About(event[q])' = About(event[q]) /\ Kind(q)' = Kind(q)
    BY <1>a DEF About, Kind
  <2>2. \A q \in Requests : (at[q] = "publish")' <=> at[q] = "publish"
    BY <1>a, <1>b
  <2>3. \A q \in Requests, m \in Messages :
          (Owes(q, m)' <=> Owes(q, m)) /\ (ToTell(q, m)' <=> ToTell(q, m))
    BY <1>a, <2>1, <2>2 DEF Owes, ToTell
  <2> QED BY <1>a, <2>1, <2>3 DEF ComesOrGoes, Brings
<1>1. InPlace'
  BY <1>a, <1>b DEF Inductive, InPlace, Emptied, Nothing
<1>2. Ordered'
  BY <1>a, <1>c DEF Inductive, Ordered
<1>3. FoundBefore'
  BY <1>a, <1>b, <1>c DEF Inductive, FoundBefore
<1>4. RestIsGone'
  <2>1. \A q \in Requests : later[q] \subseteq Requests
    BY <1>0 DEF TypeOK
  <2> QED BY <1>a, <1>b, <1>c, <2>1 DEF Inductive, RestIsGone
<1>5. NewestTells' /\ PresenceTold'
  <2>1. \A q \in Requests : later[q] \subseteq Requests
    BY <1>0 DEF TypeOK
  <2>2. \A q \in Requests, m \in Messages :
          (Newest(q, m)' <=> Newest(q, m)) /\ (LastWord(q, m)' <=> LastWord(q, m))
    BY <1>a, <1>c, <2>1 DEF Newest, LastWord
  <2>3. NewestTells'
    BY <1>a, <1>c, <2>2 DEF Inductive, NewestTells
  <2>4. PresenceTold'
    BY <1>a, <1>c, <2>2 DEF Inductive, PresenceTold
  <2> QED BY <2>3, <2>4
<1>6. SamePresence' /\ SameRow'
  BY <1>a, <1>c DEF Inductive, SamePresence, SameRow, UpToDate
<1> QED BY <1>1, <1>2, <1>3, <1>4, <1>5, <1>6 DEF Inductive

(* A handler that is from now on to publish e. *)
Effect(r, e, where) ==
  /\ event[r] = Absent /\ where \in {"remove", "publish"}
  /\ at' = [at EXCEPT ![r] = where]
  /\ Owe(r, e)
  /\ UNCHANGED <<listed, view, missed>>
  /\ \A q \in Requests \ {r} : outdated'[q] = outdated[q] /\ found'[q] = found[q]
  /\ unused' \subseteq unused
  /\ \A m \in Messages : found'[r][m] # Absent => messages[m] # Absent
  /\ where = "publish" =>
       /\ \A m \in About(e) : ~(e.kind = "rows" /\ m \in outdated'[r]) => Tells(e, m)
       /\ \A m \in Messages \ About(e) : messages'[m] = messages[m]
  /\ where = "remove" => e = Emptied /\ found'[r] = messages /\ messages' = messages
  /\ e.kind = "created" => where = "publish" /\ About(e) \subseteq unused

LEMMA AltersEffect ==
  ASSUME TypeOK, InPlace, NEW r \in Requests, Alters(r)
  PROVE  \E e \in Event : Effect(r, e, "publish")
<1> PICK e \in Event : AltersTo(r, e)
  BY AltersSo
<1>1. /\ at[r] \in {"insert", "write", "delete", "drop"} /\ Changes(r, e)
      /\ unused' \subseteq unused
      /\ \A q \in Requests \ {r} : outdated'[q] = outdated[q]
      /\ \A m \in About(e) : ~(e.kind = "rows" /\ m \in outdated'[r]) => Tells(e, m)
      /\ \A m \in Messages \ About(e) : messages'[m] = messages[m]
      /\ e.kind = "created" => About(e) \subseteq unused
  BY DEF AltersTo
<1>2. /\ at' = [at EXCEPT ![r] = "publish"] /\ Owe(r, e)
      /\ UNCHANGED <<listed, view, missed>>
      /\ found'[r] = Nothing /\ \A q \in Requests \ {r} : found'[q] = found[q]
  BY <1>1 DEF Changes, Goto, Forget, clients, TypeOK
<1>3. event[r] = Absent
  BY <1>1 DEF TypeOK
<1>4. \A m \in Messages : found'[r][m] = Absent
  BY <1>2 DEF Nothing
<1>5. Effect(r, e, "publish")
  BY <1>1, <1>2, <1>3, <1>4 DEF Effect
<1> QED BY <1>5

LEMMA ClearEffect ==
  ASSUME TypeOK, NEW r \in Requests, NEW u \in Users, StartClear(r, u)
  PROVE  \E where \in {"remove", "publish"} : Effect(r, Emptied, where)
<1> PICK where \in {"remove", "publish"}, j \in Job :
           /\ event[r] = Absent
           /\ at' = [at EXCEPT ![r] = where] /\ job' = [job EXCEPT ![r] = j]
           /\ found' = [found EXCEPT ![r] = messages]
           /\ where = "publish" => \A m \in Messages : messages[m] = Absent
           /\ Owe(r, Emptied)
           /\ UNCHANGED <<tables, loaded, clients, outdated, missed>>
  BY ClearSo
<1>1. UNCHANGED <<messages, unused, listed, view, missed, outdated>>
  BY DEF tables, clients
<1>2. found'[r] = messages /\ \A q \in Requests \ {r} : found'[q] = found[q]
  BY DEF TypeOK
<1>3. where = "publish" => \A m \in Messages : Tells(Emptied, m)
  BY <1>1, EventTypes DEF Tells
<1>4. Effect(r, Emptied, where)
  BY <1>1, <1>2, <1>3, EventTypes DEF Effect
<1> QED BY <1>4

(* Another handler stays where it is. *)
LEMMA EffectOnOthers ==
  ASSUME TypeOK, NEW r \in Requests, NEW e \in Event, NEW where \in {"remove", "publish"},
         Effect(r, e, where)
  PROVE  /\ at'[r] = where /\ event'[r] = e
         /\ \A q \in Requests \ {r} :
              /\ at'[q] = at[q] /\ event'[q] = event[q] /\ found'[q] = found[q]
              /\ outdated'[q] = outdated[q] /\ Kind(q)' = Kind(q)
              /\ \A m \in Messages : /\ Owes(q, m)' <=> Owes(q, m)
                                     /\ ToTell(q, m)' <=> ToTell(q, m)
                                     /\ ComesOrGoes(q, m)' <=> ComesOrGoes(q, m)
                                     /\ Brings(q, m)' <=> Brings(q, m)
         /\ \A m \in Messages :
              /\ Owes(r, m)' <=> m \in About(e)
              /\ ToTell(r, m)' <=> where = "publish" /\ m \in About(e)
              /\ ~Owes(r, m) /\ ~ToTell(r, m) /\ ~ComesOrGoes(r, m) /\ ~Brings(r, m)
         /\ Kind(r)' = e.kind
         /\ \A q \in Requests, m \in Messages :
              Owes(q, m) /\ m \in About(e) => r \in later'[q]
         /\ \A q \in Requests : later[q] \subseteq later'[q] /\ later'[q] \subseteq later[q] \cup {r}
         /\ later'[r] = later[r]
         /\ \A q \in Requests : event[q] = Absent => later'[q] = later[q]
<1>1. /\ at'[r] = where /\ event'[r] = e /\ event[r] = Absent
      /\ \A q \in Requests \ {r} :
            /\ at'[q] = at[q] /\ event'[q] = event[q] /\ found'[q] = found[q]
            /\ outdated'[q] = outdated[q]
  BY DEF TypeOK, Effect, Owe
<1>2. \A q \in Requests \ {r} :
         /\ About(event[q])' = About(event[q])
         /\ Kind(q)' = Kind(q)
  BY <1>1 DEF About, Kind
<1>3. \A q \in Requests \ {r}, m \in Messages :
         /\ Owes(q, m)' <=> Owes(q, m)
         /\ ToTell(q, m)' <=> ToTell(q, m)
         /\ ComesOrGoes(q, m)' <=> ComesOrGoes(q, m)
         /\ Brings(q, m)' <=> Brings(q, m)
  BY <1>1, <1>2 DEF Owes, ToTell, ComesOrGoes, Brings
<1>4. About(event[r])' = About(e) /\ Kind(r)' = e.kind /\ e # Absent
  BY <1>1, EventTypes DEF About, Kind
<1>5. \A m \in Messages : /\ Owes(r, m)' <=> m \in About(e)
                          /\ ToTell(r, m)' <=> where = "publish" /\ m \in About(e)
                          /\ ~Owes(r, m) /\ ~ToTell(r, m)
                          /\ ~ComesOrGoes(r, m) /\ ~Brings(r, m)
  BY <1>1, <1>4 DEF Owes, ToTell, ComesOrGoes, Brings, TypeOK
<1>6. \A q \in Requests :
         later'[q] = IF q \in Owing(About(e)) THEN later[q] \cup {r} ELSE later[q]
  BY DEF Effect, Owe
<1>7. \A q \in Requests, m \in Messages :
         Owes(q, m) /\ m \in About(e) => r \in later'[q]
  BY <1>6 DEF Owes, Owing
<1>8. \A q \in Requests : event[q] = Absent => later'[q] = later[q]
  BY <1>1, <1>6 DEF Owing
<1> QED BY <1>1, <1>2, <1>3, <1>4, <1>5, <1>6, <1>7, <1>8

LEMMA EffectKeeps ==
  ASSUME Inductive, TypeOK', NEW r \in Requests, NEW e \in Event,
         NEW where \in {"remove", "publish"}, Effect(r, e, where)
  PROVE  Inductive'
<1>0. TypeOK
  BY DEF Inductive
<1>a. /\ event[r] = Absent /\ UNCHANGED <<listed, view, missed>>
      /\ \A q \in Requests \ {r} : outdated'[q] = outdated[q]
      /\ unused' \subseteq unused
      /\ \A m \in Messages : found'[r][m] # Absent => messages[m] # Absent
      /\ where = "publish" =>
           /\ \A m \in About(e) : ~(e.kind = "rows" /\ m \in outdated'[r]) => Tells(e, m)
           /\ \A m \in Messages \ About(e) : messages'[m] = messages[m]
      /\ where = "remove" => e = Emptied /\ found'[r] = messages /\ messages' = messages
      /\ e.kind = "created" => where = "publish" /\ About(e) \subseteq unused
  BY DEF Effect
<1>b. /\ at'[r] = where /\ event'[r] = e
      /\ \A q \in Requests \ {r} :
            at'[q] = at[q] /\ event'[q] = event[q] /\ found'[q] = found[q]
      /\ later'[r] = {} /\ r \notin later'[r]
  BY <1>0, <1>a, EffectOnOthers DEF Inductive, InPlace
<1>c. \A q \in Requests \ {r} :
         /\ Kind(q)' = Kind(q)
         /\ \A m \in Messages : /\ Owes(q, m)' <=> Owes(q, m)
                                /\ ToTell(q, m)' <=> ToTell(q, m)
                                /\ ComesOrGoes(q, m)' <=> ComesOrGoes(q, m)
                                /\ Brings(q, m)' <=> Brings(q, m)
  BY <1>0, EffectOnOthers
<1>d. /\ Kind(r)' = e.kind
      /\ \A m \in Messages : /\ Owes(r, m)' <=> m \in About(e)
                             /\ ToTell(r, m)' <=> where = "publish" /\ m \in About(e)
                             /\ ~Owes(r, m) /\ ~ToTell(r, m) /\ ~ComesOrGoes(r, m)
                             /\ ~Brings(r, m)
  BY <1>0, EffectOnOthers
<1>e. /\ \A q \in Requests, m \in Messages :
            Owes(q, m) /\ m \in About(e) => r \in later'[q]
      /\ \A q \in Requests : later[q] \subseteq later'[q]
                             /\ later'[q] \subseteq later[q] \cup {r}
  BY <1>0, EffectOnOthers
<1>f. /\ \A q \in Requests, m \in Messages : ToTell(q, m) => Owes(q, m)
      /\ \A q \in Requests : later[q] \subseteq Requests /\ later'[q] \subseteq Requests
  BY <1>0 DEF ToTell, Owes, TypeOK
<1>g. About(e) \subseteq Messages
  BY DEF About
<1>h. Emptied.kind = "emptied" /\ About(Emptied) = Messages
  BY EventTypes
<1>1. InPlace'
  <2>1. ASSUME NEW q \in Requests \ {r}
        PROVE  /\ event'[q] = Absent => later'[q] = {}
               /\ at'[q] = "remove" => event'[q] = Emptied
               /\ \A m \in Messages : found'[q][m] # Absent => m \notin unused'
               /\ q \notin later'[q]
    <3>1. event[q] = Absent => later'[q] = later[q]
      BY <1>0, EffectOnOthers
    <3> QED BY <1>a, <1>b, <1>e, <3>1 DEF Inductive, InPlace
  <2>2. \A m \in Messages : messages[m] # Absent => m \notin unused
    BY <1>0 DEF TypeOK, Present
  <2>3. /\ event'[r] # Absent /\ r \notin later'[r]
        /\ at'[r] = "remove" => event'[r] = Emptied
        /\ \A m \in Messages : found'[r][m] # Absent => m \notin unused'
    BY <1>a, <1>b, <2>2, EventTypes
  <2> QED BY <2>1, <2>3 DEF InPlace, Emptied, Nothing
<1>2. Ordered'
  BY <1>b, <1>c, <1>d, <1>e DEF Inductive, Ordered
<1>3. FoundBefore'
  <2> SUFFICES ASSUME NEW p \in Requests, NEW q \in Requests, NEW m \in Messages,
                      at'[q] = "remove", found'[q][m] # Absent, ToTell(p, m)',
                      Kind(p)' = "created"
               PROVE  p \notin later'[q]
    BY DEF FoundBefore
  <2>1. CASE q = r
    BY <1>b, <2>1
  <2>2. CASE q # r /\ p # r
    BY <1>b, <1>c, <1>e, <2>2 DEF Inductive, FoundBefore
  <2>3. CASE q # r /\ p = r
    <3>1. m \in unused
      BY <1>a, <1>d, <2>3
    <3> QED BY <1>b, <2>3, <3>1 DEF Inductive, InPlace
  <2> QED BY <2>1, <2>2, <2>3
<1>4. RestIsGone'
  <2> SUFFICES ASSUME NEW q \in Requests, NEW m \in Messages,
                      at'[q] = "remove", found'[q][m] = Absent, m \notin outdated'[q],
                      \A p \in later'[q] : ~Brings(p, m)'
               PROVE  messages'[m] = Absent
    BY DEF RestIsGone
  <2>1. CASE q = r
    BY <1>a, <1>b, <2>1
  <2>2. CASE q # r
    <3>1. at[q] = "remove" /\ found[q][m] = Absent /\ m \notin outdated[q] /\ Owes(q, m)
      <4>1. at[q] = "remove" /\ found[q][m] = Absent /\ m \notin outdated[q]
        BY <1>a, <1>b, <2>2
      <4>2. event[q] = Emptied /\ event[q] # Absent
        BY <1>0, <4>1 DEF Inductive, InPlace, TypeOK
      <4> QED BY <1>h, <4>1, <4>2 DEF Owes
    <3>2. \A p \in later[q] : ~Brings(p, m)
      <4> TAKE p \in later[q]
      <4>1. p \in later'[q] /\ p \in Requests
        BY <1>e, <1>f
      <4> QED BY <1>c, <1>d, <4>1
    <3>3. messages[m] = Absent
      BY <3>1, <3>2 DEF Inductive, RestIsGone
    <3>4. CASE where = "publish" /\ m \in About(e)
      <4>1. ~Brings(r, m)' /\ ToTell(r, m)'
        BY <1>d, <1>e, <3>1, <3>4
      <4>2. e.kind # "created" /\ ~(e.kind = "rows" /\ m \in outdated'[r])
        BY <1>d, <4>1 DEF Brings
      <4> QED BY <1>a, <3>3, <3>4, <4>2 DEF Tells
    <3>5. CASE ~(where = "publish" /\ m \in About(e))
      BY <1>a, <3>3, <3>5
    <3> QED BY <3>4, <3>5
  <2> QED BY <2>1, <2>2
(* Whoever is still the newest about m has not been changed under. *)
<1>i. ASSUME NEW q \in Requests \ {r}, NEW m \in Messages, ToTell(q, m),
             r \notin later'[q] \/ ~(where = "publish" /\ m \in About(e))
      PROVE  messages'[m] = messages[m]
  BY <1>a, <1>e, <1>f, <1>i
<1>5. NewestTells'
  <2> SUFFICES ASSUME NEW q \in Requests, NEW m \in Messages, Newest(q, m)'
               PROVE  CASE Kind(q)' = "created" -> messages'[m] = event'[q].rows[m]
                        [] Kind(q)' = "rows" -> messages'[m] \in {event'[q].rows[m], Absent}
                        [] OTHER -> messages'[m] = Absent
    BY DEF NewestTells, Kind
  <2>0. /\ ToTell(q, m)' /\ m \notin outdated'[q]
        /\ \A p \in later'[q] : ~ToTell(p, m)'
    BY DEF Newest
  <2>1. CASE q = r
    BY <1>a, <1>b, <1>d, <2>0, <2>1 DEF Tells
  <2>2. CASE q # r
    <3>1. ToTell(q, m) /\ m \notin outdated[q]
      BY <1>a, <1>c, <2>0, <2>2
    <3>2. \A p \in later[q] : ~ToTell(p, m)
      <4> TAKE p \in later[q]
      <4>1. p \in later'[q] /\ p \in Requests
        BY <1>e, <1>f
      <4> QED BY <1>c, <1>d, <2>0, <4>1
    <3>3. messages'[m] = messages[m]
      BY <1>d, <1>i, <2>0, <2>2, <3>1
    <3>4. Kind(q)' = Kind(q) /\ event'[q] = event[q]
      BY <1>b, <1>c, <2>2
    <3>5. Newest(q, m)
      BY <3>1, <3>2 DEF Newest
    <3> QED BY <3>3, <3>4, <3>5 DEF Inductive, NewestTells
  <2> QED BY <2>1, <2>2
<1>6. PresenceTold'
  <2> SUFFICES ASSUME NEW q \in Requests, NEW m \in Messages, LastWord(q, m)'
               PROVE  messages'[m] # Absent <=> Kind(q)' = "created"
    BY DEF PresenceTold
  <2>0. /\ Kind(q)' # "rows" /\ m \notin outdated'[q] /\ ToTell(q, m)'
        /\ \A p \in later'[q] : ~ComesOrGoes(p, m)'
    BY DEF LastWord
  <2>1. CASE q = r
    BY <1>a, <1>d, <2>0, <2>1 DEF Tells
  <2>2. CASE q # r
    <3>1. Kind(q) # "rows" /\ ToTell(q, m) /\ m \notin outdated[q]
      BY <1>a, <1>c, <2>0, <2>2
    <3>2. \A p \in later[q] : ~ComesOrGoes(p, m)
      <4> TAKE p \in later[q]
      <4>1. p \in later'[q] /\ p \in Requests
        BY <1>e, <1>f
      <4> QED BY <1>c, <1>d, <2>0, <4>1
    <3>3. LastWord(q, m)
      BY <3>1, <3>2 DEF LastWord
    <3>4. messages[m] # Absent <=> Kind(q) = "created"
      BY <3>3 DEF Inductive, PresenceTold
    <3>5. Kind(q)' = Kind(q)
      BY <1>c, <2>2
    <3>6. CASE where = "publish" /\ m \in About(e)
      <4>1. r \in later'[q]
        BY <1>e, <1>f, <3>1, <3>6
      <4>2. e.kind = "rows" /\ m \notin outdated'[r]
        BY <1>d, <2>0, <3>6, <4>1 DEF ComesOrGoes
      <4> QED BY <1>a, <3>4, <3>5, <3>6, <4>2 DEF Tells
    <3>7. CASE ~(where = "publish" /\ m \in About(e))
      BY <1>a, <3>4, <3>5, <3>7
    <3> QED BY <3>6, <3>7
  <2> QED BY <2>1, <2>2
<1>7. SamePresence'
  <2> SUFFICES ASSUME NEW u \in Users, NEW m \in Messages, UpToDate(u, m)',
                      \A q \in Requests : ~ComesOrGoes(q, m)'
               PROVE  view'[u][m] # Absent <=> messages'[m] # Absent
    BY DEF SamePresence
  <2>1. \A q \in Requests : ~ComesOrGoes(q, m)
    BY <1>c, <1>d
  <2>2. view[u][m] # Absent <=> messages[m] # Absent
    BY <1>a, <2>1 DEF Inductive, SamePresence, UpToDate
  <2>3. CASE where = "publish" /\ m \in About(e)
    <3>1. e.kind = "rows" /\ m \notin outdated'[r]
      BY <1>d, <2>3 DEF ComesOrGoes
    <3> QED BY <1>a, <2>2, <2>3, <3>1 DEF Tells
  <2>4. CASE ~(where = "publish" /\ m \in About(e))
    BY <1>a, <2>2, <2>4
  <2> QED BY <2>3, <2>4
<1>8. SameRow'
  <2> SUFFICES ASSUME NEW u \in Users, NEW m \in Messages, UpToDate(u, m)',
                      \A q \in Requests : ~ToTell(q, m)'
               PROVE  view'[u][m] = messages'[m]
    BY DEF SameRow
  <2>1. \A q \in Requests : ~ToTell(q, m)
    BY <1>c, <1>d
  <2>2. view[u][m] = messages[m]
    BY <1>a, <2>1 DEF Inductive, SameRow, UpToDate
  <2>3. ~(where = "publish" /\ m \in About(e))
    BY <1>d
  <2> QED BY <1>a, <2>2, <2>3
<1> QED BY <1>1, <1>2, <1>3, <1>4, <1>5, <1>6, <1>7, <1>8 DEF Inductive


(* clear-chat removes what it has found. *)
LEMMA RemoveSo ==
  ASSUME TypeOK, InPlace, NEW r \in Requests, Remove(r)
  PROVE  /\ at[r] = "remove" /\ event[r] = Emptied
         /\ UNCHANGED <<unused, found, event, listed, view, later, outdated, missed>>
         /\ \A m \in Messages : messages'[m] = IF found[r][m] # Absent THEN Absent
                                                                       ELSE messages[m]
         /\ at'[r] = "publish" /\ \A q \in Requests \ {r} : at'[q] = at[q]
<1>1. /\ at[r] = "remove" /\ at' = [at EXCEPT ![r] = "publish"]
      /\ UNCHANGED <<unused, copies, event, clients, later, outdated, missed>>
      /\ \A m \in Messages : messages'[m] = IF found[r][m] # Absent THEN Absent
                                                                    ELSE messages[m]
  BY DEF Remove, Goto
<1>2. at \in [Requests -> Places] /\ event[r] = Emptied
  BY <1>1 DEF TypeOK, InPlace
<1> QED BY <1>1, <1>2 DEF copies, clients

LEMMA RemoveKeeps ==
  ASSUME Inductive, TypeOK', NEW r \in Requests, Remove(r)
  PROVE  Inductive'
<1>0. TypeOK /\ InPlace
  BY DEF Inductive
<1>a. /\ at[r] = "remove" /\ event[r] = Emptied
      /\ UNCHANGED <<unused, found, event, listed, view, later, outdated, missed>>
      /\ \A m \in Messages : messages'[m] = IF found[r][m] # Absent THEN Absent
                                                                    ELSE messages[m]
      /\ at'[r] = "publish" /\ \A q \in Requests \ {r} : at'[q] = at[q]
  BY <1>0, RemoveSo
<1>b. \A q \in Requests : About(event[q])' = About(event[q]) /\ Kind(q)' = Kind(q)
  BY <1>a DEF About, Kind
<1>c. \A q \in Requests, m \in Messages : Owes(q, m)' <=> Owes(q, m)
  BY <1>a, <1>b DEF Owes
<1>d. \A q \in Requests \ {r}, m \in Messages : ToTell(q, m)' <=> ToTell(q, m)
  BY <1>a, <1>b DEF ToTell
<1>e. \A q \in Requests \ {r}, m \in Messages :
        /\ ComesOrGoes(q, m)' <=> ComesOrGoes(q, m)
        /\ Brings(q, m)' <=> Brings(q, m)
  BY <1>a, <1>b, <1>d DEF ComesOrGoes, Brings
<1>f. /\ Kind(r) = "emptied"
      /\ \A m \in Messages : /\ Owes(r, m) /\ ToTell(r, m)' /\ ComesOrGoes(r, m)'
                             /\ ~ToTell(r, m) /\ ~Brings(r, m)' /\ ~Brings(r, m)
  <2>1. Kind(r) = "emptied" /\ About(event[r]) = Messages /\ event[r] # Absent
    BY <1>0, <1>a, EventTypes DEF Kind, TypeOK
  <2>2. \A m \in Messages : Owes(r, m) /\ ToTell(r, m)' /\ ~ToTell(r, m)
    BY <1>a, <1>b, <2>1 DEF Owes, ToTell
  <2> QED BY <1>b, <2>1, <2>2 DEF ComesOrGoes, Brings
<1>g. /\ \A q \in Requests, m \in Messages : ToTell(q, m) => Owes(q, m)
      /\ \A q \in Requests : later[q] \subseteq Requests
  BY <1>0 DEF ToTell, Owes, TypeOK
(* A creation that is not before r in the order is not of a message found. *)
<1>h. ASSUME NEW q \in Requests, NEW m \in Messages, ToTell(q, m), Kind(q) = "created",
             r \notin later[q]
      PROVE  messages'[m] = messages[m]
  <2>1. q # r
    BY <1>f, <1>h
  <2>2. q \in later[r]
    BY <1>f, <1>g, <1>h, <2>1 DEF Inductive, Ordered
  <2>3. found[r][m] = Absent
    BY <1>a, <1>h, <2>2 DEF Inductive, FoundBefore
  <2> QED BY <1>a, <2>3
(* What is told of m when r has the last word on it. *)
<1>i. ASSUME NEW m \in Messages, m \notin outdated[r], \A p \in later[r] : ~Brings(p, m)
      PROVE  messages'[m] = Absent
  <2>1. CASE found[r][m] # Absent
    BY <1>a, <2>1
  <2>2. CASE found[r][m] = Absent
    BY <1>a, <1>i, <2>2 DEF Inductive, RestIsGone
  <2> QED BY <2>1, <2>2
<1>1. InPlace'
  BY <1>0, <1>a DEF InPlace, Emptied, Nothing
<1>2. Ordered'
  BY <1>a, <1>c DEF Inductive, Ordered
<1>3. FoundBefore'
  <2> SUFFICES ASSUME NEW p \in Requests, NEW q \in Requests, NEW m \in Messages,
                      at'[q] = "remove", found'[q][m] # Absent, ToTell(p, m)',
                      Kind(p)' = "created"
               PROVE  p \notin later'[q]
    BY DEF FoundBefore
  <2>1. at[q] = "remove" /\ found[q][m] # Absent /\ p # r
    BY <1>a, <1>b, <1>f
  <2> QED BY <1>a, <1>b, <1>d, <2>1 DEF Inductive, FoundBefore
<1>4. RestIsGone'
  <2> SUFFICES ASSUME NEW q \in Requests, NEW m \in Messages,
                      at'[q] = "remove", found'[q][m] = Absent, m \notin outdated'[q],
                      \A p \in later'[q] : ~Brings(p, m)'
               PROVE  messages'[m] = Absent
    BY DEF RestIsGone
  <2>1. q # r /\ at[q] = "remove" /\ found[q][m] = Absent /\ m \notin outdated[q]
    BY <1>a
  <2>2. \A p \in later[q] : ~Brings(p, m)
    BY <1>a, <1>e, <1>f, <1>g
  <2>3. messages[m] = Absent
    BY <2>1, <2>2 DEF Inductive, RestIsGone
  <2> QED BY <1>a, <2>3
<1>5. NewestTells'
  <2> SUFFICES ASSUME NEW q \in Requests, NEW m \in Messages, Newest(q, m)'
               PROVE  CASE Kind(q)' = "created" -> messages'[m] = event'[q].rows[m]
                        [] Kind(q)' = "rows" -> messages'[m] \in {event'[q].rows[m], Absent}
                        [] OTHER -> messages'[m] = Absent
    BY DEF NewestTells, Kind
  <2>0. /\ ToTell(q, m)' /\ m \notin outdated[q]
        /\ \A p \in later[q] : ~ToTell(p, m)'
    BY <1>a DEF Newest
  <2>1. \A p \in later[q] : ~ToTell(p, m) /\ p # r
    BY <1>d, <1>f, <1>g, <2>0
  <2>2. CASE q = r
    <3>1. \A p \in later[r] : ~Brings(p, m)
      BY <2>1, <2>2 DEF Brings
    <3>2. messages'[m] = Absent
      BY <1>i, <2>0, <2>2, <3>1
    <3> QED BY <1>b, <1>f, <2>2, <3>2
  <2>3. CASE q # r
    <3>1. ToTell(q, m)
      BY <1>d, <2>0, <2>3
    <3>2. Newest(q, m)
      BY <2>0, <2>1, <3>1 DEF Newest
    <3>3. CASE Kind(q) = "created"
      <4>1. messages[m] = event[q].rows[m]
        BY <3>2, <3>3 DEF Inductive, NewestTells
      <4>2. messages'[m] = messages[m]
        BY <1>h, <2>1, <3>1, <3>3
      <4> QED BY <1>a, <1>b, <3>3, <4>1, <4>2
    <3>4. CASE Kind(q) # "created"
      BY <1>a, <1>b, <3>2, <3>4 DEF Inductive, NewestTells
    <3> QED BY <3>3, <3>4
  <2> QED BY <2>2, <2>3
<1>6. PresenceTold'
  <2> SUFFICES ASSUME NEW q \in Requests, NEW m \in Messages, LastWord(q, m)'
               PROVE  messages'[m] # Absent <=> Kind(q)' = "created"
    BY DEF PresenceTold
  <2>0. /\ ToTell(q, m)' /\ m \notin outdated[q] /\ Kind(q) # "rows"
        /\ \A p \in later[q] : p \in Requests /\ ~ComesOrGoes(p, m)'
    BY <1>a, <1>b, <1>g DEF LastWord
  <2>1. \A p \in later[q] : ~ComesOrGoes(p, m) /\ p # r
    BY <1>e, <1>f, <2>0
  <2>2. CASE q = r
    <3>1. \A p \in later[r] : ~Brings(p, m)
      BY <2>1, <2>2 DEF Brings, ComesOrGoes
    <3>2. messages'[m] = Absent
      BY <1>i, <2>0, <2>2, <3>1
    <3> QED BY <1>b, <1>f, <2>2, <3>2
  <2>3. CASE q # r
    <3>1. ToTell(q, m)
      BY <1>d, <2>0, <2>3
    <3>2. LastWord(q, m)
      BY <2>0, <2>1, <3>1 DEF LastWord
    <3>3. messages[m] # Absent <=> Kind(q) = "created"
      BY <3>2 DEF Inductive, PresenceTold
    <3>4. CASE Kind(q) = "created"
      BY <1>b, <1>h, <2>1, <3>1, <3>3, <3>4
    <3>5. CASE Kind(q) # "created"
      BY <1>a, <1>b, <3>3, <3>5
    <3> QED BY <3>4, <3>5
  <2> QED BY <2>2, <2>3
(* r is now to tell of every message. *)
<1>7. SamePresence'
  BY <1>f DEF SamePresence
<1>8. SameRow'
  BY <1>f DEF SameRow
<1> QED BY <1>1, <1>2, <1>3, <1>4, <1>5, <1>6, <1>7, <1>8 DEF Inductive

(* The end of a handler, after which it owes nothing; whoever it overtakes *)
(* has no say in what it was about.                                        *)
LEMMA EndEffect ==
  ASSUME TypeOK, NEW r \in Requests, End(r), Overtake(r)
  PROVE  /\ at'[r] = "idle" /\ event'[r] = Absent /\ later'[r] = {}
         /\ \A m \in Messages : found'[r][m] = Absent
         /\ \A q \in Requests \ {r} :
              /\ at'[q] = at[q] /\ event'[q] = event[q] /\ found'[q] = found[q]
              /\ later'[q] = later[q] \ {r} /\ outdated[q] \subseteq outdated'[q]
              /\ Kind(q)' = Kind(q)
              /\ \A m \in Messages : r \in later[q] /\ Owes(r, m) => m \in outdated'[q]
         /\ \A q \in Requests, m \in Messages :
              /\ Owes(q, m)' <=> q # r /\ Owes(q, m)
              /\ ToTell(q, m)' <=> q # r /\ ToTell(q, m)
              /\ q # r /\ ComesOrGoes(q, m) => ComesOrGoes(q, m)'
              /\ q # r /\ Brings(q, m) => Brings(q, m)'
<1>1. /\ at'[r] = "idle" /\ event'[r] = Absent /\ later'[r] = {}
      /\ \A m \in Messages : found'[r][m] = Absent
  BY DEF TypeOK, End, Goto, Forget, Nothing
<1>2. \A q \in Requests \ {r} :
         /\ at'[q] = at[q] /\ event'[q] = event[q] /\ found'[q] = found[q]
         /\ later'[q] = later[q] \ {r}
  BY DEF TypeOK, End, Goto, Forget
<1>3. \A q \in Requests \ {r} :
         outdated'[q] = IF r \in later[q] THEN outdated[q] \cup About(event[r])
                                          ELSE outdated[q]
  BY DEF Overtake
<1>4. \A q \in Requests \ {r} :
         /\ outdated[q] \subseteq outdated'[q]
         /\ \A m \in Messages : r \in later[q] /\ Owes(r, m) => m \in outdated'[q]
  BY <1>3 DEF Owes
<1>5. \A q \in Requests \ {r} : Kind(q)' = Kind(q) /\ About(event[q])' = About(event[q])
  BY <1>2 DEF Kind, About
<1>6. \A m \in Messages : ~Owes(r, m)' /\ ~ToTell(r, m)'
  BY <1>1 DEF Owes, ToTell
<1>7. \A q \in Requests \ {r}, m \in Messages :
         /\ Owes(q, m)' <=> Owes(q, m)
         /\ ToTell(q, m)' <=> ToTell(q, m)
  BY <1>2, <1>5 DEF Owes, ToTell
<1>8. \A q \in Requests \ {r}, m \in Messages :
         /\ ComesOrGoes(q, m) => ComesOrGoes(q, m)'
         /\ Brings(q, m) => Brings(q, m)'
  BY <1>4, <1>5, <1>7 DEF ComesOrGoes, Brings
<1> QED BY <1>1, <1>2, <1>4, <1>5, <1>6, <1>7, <1>8

LEMMA EndKeeps ==
  ASSUME Inductive, NEW r \in Requests, End(r), Overtake(r),
         messages' = messages, unused' = unused
  PROVE  /\ InPlace' /\ Ordered' /\ FoundBefore' /\ RestIsGone'
         /\ NewestTells' /\ PresenceTold'
<1>0. TypeOK /\ \A q \in Requests : later[q] \subseteq Requests
  BY DEF Inductive, TypeOK
<1>a. /\ at'[r] = "idle" /\ event'[r] = Absent /\ later'[r] = {}
      /\ \A m \in Messages : found'[r][m] = Absent
      /\ \A q \in Requests \ {r} :
            /\ at'[q] = at[q] /\ event'[q] = event[q] /\ found'[q] = found[q]
            /\ later'[q] = later[q] \ {r} /\ outdated[q] \subseteq outdated'[q]
            /\ Kind(q)' = Kind(q)
            /\ \A m \in Messages : r \in later[q] /\ Owes(r, m) => m \in outdated'[q]
  BY <1>0, EndEffect
<1>b. \A q \in Requests, m \in Messages :
            /\ Owes(q, m)' <=> q # r /\ Owes(q, m)
            /\ ToTell(q, m)' <=> q # r /\ ToTell(q, m)
            /\ q # r /\ ComesOrGoes(q, m) => ComesOrGoes(q, m)'
            /\ q # r /\ Brings(q, m) => Brings(q, m)'
  BY <1>0, EndEffect
<1>c. \A q \in Requests, m \in Messages :
        ToTell(q, m) \/ ComesOrGoes(q, m) \/ Brings(q, m) => Owes(q, m)
  BY <1>0 DEF ToTell, ComesOrGoes, Brings, Owes, TypeOK
<1>1. InPlace'
  <2>1. ASSUME NEW q \in Requests \ {r}
        PROVE  /\ event'[q] = Absent => later'[q] = {}
               /\ at'[q] = "remove" => event'[q] = Emptied
               /\ \A m \in Messages : found'[q][m] # Absent => m \notin unused'
               /\ q \notin later'[q]
    BY <1>a DEF Inductive, InPlace
  <2> QED BY <1>a, <2>1 DEF InPlace, Emptied, Nothing
<1>2. Ordered'
  BY <1>a, <1>b DEF Inductive, Ordered
<1>3. FoundBefore'
  <2> SUFFICES ASSUME NEW p \in Requests, NEW q \in Requests, NEW m \in Messages,
                      at'[q] = "remove", found'[q][m] # Absent, ToTell(p, m)',
                      Kind(p)' = "created"
               PROVE  p \notin later'[q]
    BY DEF FoundBefore
  <2>1. q # r /\ p # r /\ ToTell(p, m) /\ Kind(p) = "created"
    BY <1>a, <1>b
  <2> QED BY <1>a, <2>1 DEF Inductive, FoundBefore
<1>4. RestIsGone'
  <2> SUFFICES ASSUME NEW q \in Requests, NEW m \in Messages,
                      at'[q] = "remove", found'[q][m] = Absent, m \notin outdated'[q],
                      \A p \in later'[q] : ~Brings(p, m)'
               PROVE  messages[m] = Absent
    BY DEF RestIsGone
  <2>1. q # r /\ at[q] = "remove" /\ found[q][m] = Absent /\ m \notin outdated[q]
    BY <1>a
  <2>2. ASSUME NEW p \in later[q] PROVE ~Brings(p, m)
    <3>1. CASE p = r
      BY <1>a, <1>c, <2>1, <3>1
    <3>2. CASE p # r
      <4>1. p \in later'[q] /\ p \in Requests
        BY <1>0, <1>a, <2>1, <3>2
      <4> QED BY <1>b, <3>2, <4>1
    <3> QED BY <3>1, <3>2
  <2> QED BY <2>1, <2>2 DEF Inductive, RestIsGone
<1>5. NewestTells'
  <2> SUFFICES ASSUME NEW q \in Requests, NEW m \in Messages, Newest(q, m)'
               PROVE  CASE Kind(q)' = "created" -> messages[m] = event'[q].rows[m]
                        [] Kind(q)' = "rows" -> messages[m] \in {event'[q].rows[m], Absent}
                        [] OTHER -> messages[m] = Absent
    BY DEF NewestTells, Kind
  <2>0. /\ ToTell(q, m)' /\ m \notin outdated'[q]
        /\ \A p \in later'[q] : ~ToTell(p, m)'
    BY DEF Newest
  <2>1. q # r /\ ToTell(q, m) /\ m \notin outdated[q]
    BY <1>a, <1>b, <2>0
  <2>2. ASSUME NEW p \in later[q] PROVE ~ToTell(p, m)
    <3>1. CASE p = r
      BY <1>a, <1>c, <2>0, <2>1, <3>1
    <3>2. CASE p # r
      <4>1. p \in later'[q] /\ p \in Requests
        BY <1>0, <1>a, <2>1, <3>2
      <4> QED BY <1>b, <2>0, <3>2, <4>1
    <3> QED BY <3>1, <3>2
  <2>3. Newest(q, m)
    BY <2>1, <2>2 DEF Newest
  <2>4. Kind(q)' = Kind(q) /\ event'[q] = event[q]
    BY <1>a, <2>1
  <2> QED BY <2>3, <2>4 DEF Inductive, NewestTells
<1>6. PresenceTold'
  <2> SUFFICES ASSUME NEW q \in Requests, NEW m \in Messages, LastWord(q, m)'
               PROVE  messages[m] # Absent <=> Kind(q)' = "created"
    BY DEF PresenceTold
  <2>0. /\ ToTell(q, m)' /\ Kind(q)' # "rows" /\ m \notin outdated'[q]
        /\ \A p \in later'[q] : ~ComesOrGoes(p, m)'
    BY DEF LastWord
  <2>1. q # r /\ ToTell(q, m) /\ Kind(q) # "rows" /\ m \notin outdated[q]
    BY <1>a, <1>b, <2>0
  <2>2. ASSUME NEW p \in later[q] PROVE ~ComesOrGoes(p, m)
    <3>1. CASE p = r
      BY <1>a, <1>c, <2>0, <2>1, <3>1
    <3>2. CASE p # r
      <4>1. p \in later'[q] /\ p \in Requests
        BY <1>0, <1>a, <2>1, <3>2
      <4> QED BY <1>b, <2>0, <3>2, <4>1
    <3> QED BY <3>1, <3>2
  <2>3. LastWord(q, m)
    BY <2>1, <2>2 DEF LastWord
  <2>4. Kind(q)' = Kind(q)
    BY <1>a, <2>1
  <2> QED BY <2>3, <2>4 DEF Inductive, PresenceTold
<1> QED BY <1>1, <1>2, <1>3, <1>4, <1>5, <1>6

LEMMA AppliedIs ==
  ASSUME NEW list, NEW e, NEW m \in Messages
  PROVE  /\ m \notin About(e) => Applied(list, e)[m] = list[m]
         /\ m \in About(e) /\ e.kind = "created" => Applied(list, e)[m] = e.rows[m]
         /\ m \in About(e) /\ e.kind = "rows" =>
              Applied(list, e)[m] = IF list[m] # Absent THEN e.rows[m] ELSE list[m]
         /\ m \in About(e) /\ e.kind \in {"deleted", "emptied"} =>
              Applied(list, e)[m] = Absent
BY DEF Applied

LEMMA PublishKeeps ==
  ASSUME Inductive, TypeOK', NEW r \in Requests, Publish(r)
  PROVE  Inductive'
<1>0. TypeOK
  BY DEF Inductive
<1>a. /\ at[r] = "publish" /\ Overtake(r) /\ End(r)
      /\ UNCHANGED <<messages, unused, joined, listed>>
      /\ missed' = missed \cup (Users \X (About(event[r]) \cap outdated[r]))
                          \cup ((Users \ joined) \X About(event[r]))
      /\ \A u \in Users : view'[u] = IF u \in joined \cap listed
                                      THEN Applied(view[u], event[r]) ELSE view[u]
  BY DEF Publish, tables, Room
<1>1. InPlace' /\ Ordered' /\ FoundBefore' /\ RestIsGone' /\ NewestTells' /\ PresenceTold'
  BY <1>a, EndKeeps
<1>b. \A q \in Requests, m \in Messages :
         /\ ToTell(q, m)' <=> q # r /\ ToTell(q, m)
         /\ q # r /\ ComesOrGoes(q, m) => ComesOrGoes(q, m)'
  BY <1>0, <1>a, EndEffect
<1>c. \A m \in Messages :
         /\ ToTell(r, m) <=> m \in About(event[r])
         /\ ComesOrGoes(r, m) => m \in About(event[r])
  BY <1>a DEF ToTell, ComesOrGoes
<1>d. event[r] \in Event /\ event[r].kind \in {"created", "rows", "deleted", "emptied"}
  BY <1>0, <1>a DEF TypeOK, Event
<1>e. \A p \in later[r] : p \in Requests /\ p # r
  BY <1>0 DEF TypeOK, Inductive, InPlace
(* Who is up to date afterwards was before, and has got the event. *)
<1>2. ASSUME NEW u \in Users, NEW m \in Messages, UpToDate(u, m)'
      PROVE  /\ UpToDate(u, m)
             /\ m \notin About(event[r]) => view'[u][m] = view[u][m]
             /\ m \in About(event[r]) => /\ m \notin outdated[r]
                                         /\ view'[u] = Applied(view[u], event[r])
  <2>1. u \in listed /\ <<u, m>> \notin missed'
    BY <1>2, <1>a DEF UpToDate
  <2>2. <<u, m>> \notin missed
    BY <1>a, <2>1
  <2>3. m \in About(event[r]) => m \notin outdated[r] /\ u \in joined
    BY <1>a, <2>1
  <2>4. m \notin About(event[r]) => view'[u][m] = view[u][m]
    BY <1>a, AppliedIs
  <2> QED BY <1>a, <2>1, <2>2, <2>3, <2>4 DEF UpToDate
(* An event about changed rows says nothing of who came or went. *)
<1>3. ASSUME NEW m \in Messages, event[r].kind = "rows", m \notin outdated[r],
             \A q \in Requests : ~ComesOrGoes(q, m)',
             NEW u \in Users, UpToDate(u, m)
      PROVE  view[u][m] # Absent <=> messages[m] # Absent
  <2>1. ~ComesOrGoes(r, m)
    BY <1>3 DEF ComesOrGoes, Kind
  <2>2. \A q \in Requests : ~ComesOrGoes(q, m)
    BY <1>3, <1>b, <2>1
  <2> QED BY <1>3, <2>2 DEF Inductive, SamePresence
<1>4. SamePresence'
  <2> SUFFICES ASSUME NEW u \in Users, NEW m \in Messages, UpToDate(u, m)',
                      \A q \in Requests : ~ComesOrGoes(q, m)'
               PROVE  view'[u][m] # Absent <=> messages[m] # Absent
    BY <1>a DEF SamePresence
  <2>1. CASE m \notin About(event[r])
    <3>1. \A q \in Requests : ~ComesOrGoes(q, m)
      BY <1>b, <1>c, <2>1
    <3> QED BY <1>2, <2>1, <3>1 DEF Inductive, SamePresence
  <2>2. CASE m \in About(event[r]) /\ event[r].kind = "rows"
    <3>1. view[u][m] # Absent <=> messages[m] # Absent
      BY <1>2, <1>3, <2>2
    <3>2. event[r].rows[m] # Absent
      BY <2>2 DEF About
    <3> QED BY <1>2, <2>2, <3>1, <3>2, AppliedIs
  <2>3. CASE m \in About(event[r]) /\ event[r].kind # "rows"
    <3>1. LastWord(r, m)
      <4>1. ToTell(r, m) /\ Kind(r) # "rows" /\ m \notin outdated[r]
        BY <1>2, <1>c, <2>3 DEF Kind
      <4>2. \A p \in later[r] : ~ComesOrGoes(p, m)
        BY <1>b, <1>e
      <4> QED BY <4>1, <4>2 DEF LastWord
    <3>2. messages[m] # Absent <=> event[r].kind = "created"
      BY <3>1 DEF Inductive, PresenceTold, Kind
    <3>3. event[r].kind = "created" => event[r].rows[m] # Absent
      BY <2>3 DEF About
    <3> QED BY <1>2, <1>d, <2>3, <3>2, <3>3, AppliedIs
  <2> QED BY <2>1, <2>2, <2>3
<1>5. SameRow'
  <2> SUFFICES ASSUME NEW u \in Users, NEW m \in Messages, UpToDate(u, m)',
                      \A q \in Requests : ~ToTell(q, m)'
               PROVE  view'[u][m] = messages[m]
    BY <1>a DEF SameRow
  <2>1. CASE m \notin About(event[r])
    <3>1. \A q \in Requests : ~ToTell(q, m)
      BY <1>b, <1>c, <2>1
    <3> QED BY <1>2, <2>1, <3>1 DEF Inductive, SameRow
  <2>2. CASE m \in About(event[r])
    <3>1. Newest(r, m)
      BY <1>2, <1>b, <1>c, <1>e, <2>2 DEF Newest
    <3>2. CASE event[r].kind = "created"
      <4>1. messages[m] = event[r].rows[m]
        BY <3>1, <3>2 DEF Inductive, NewestTells, Kind
      <4> QED BY <1>2, <2>2, <3>2, <4>1, AppliedIs
    <3>3. CASE event[r].kind = "rows"
      <4>1. messages[m] \in {event[r].rows[m], Absent}
        BY <3>1, <3>3 DEF Inductive, NewestTells, Kind
      <4>2. \A q \in Requests : ~ComesOrGoes(q, m)'
        BY DEF ComesOrGoes
      <4>3. view[u][m] # Absent <=> messages[m] # Absent
        BY <1>2, <1>3, <2>2, <3>3, <4>2
      <4> QED BY <1>2, <2>2, <3>3, <4>1, <4>3, AppliedIs
    <3>4. CASE event[r].kind \in {"deleted", "emptied"}
      <4>1. messages[m] = Absent
        BY <3>1, <3>4 DEF Inductive, NewestTells, Kind
      <4> QED BY <1>2, <2>2, <3>4, <4>1, AppliedIs
    <3> QED BY <1>d, <3>2, <3>3, <3>4
  <2> QED BY <2>1, <2>2
<1> QED BY <1>1, <1>4, <1>5 DEF Inductive

LEMMA FailKeeps ==
  ASSUME Inductive, TypeOK', NEW r \in Requests, Fail(r)
  PROVE  Inductive'
<1>0. TypeOK
  BY DEF Inductive
<1>a. /\ Overtake(r) /\ End(r)
      /\ UNCHANGED <<messages, unused, listed, view>>
      /\ missed' = IF at[r] = "publish" THEN missed \cup (Users \X About(event[r]))
                                        ELSE missed
  BY DEF Fail, tables, clients
<1>1. InPlace' /\ Ordered' /\ FoundBefore' /\ RestIsGone' /\ NewestTells' /\ PresenceTold'
  BY <1>a, EndKeeps
<1>b. \A q \in Requests, m \in Messages :
         /\ ToTell(q, m)' <=> q # r /\ ToTell(q, m)
         /\ q # r /\ ComesOrGoes(q, m) => ComesOrGoes(q, m)'
  BY <1>0, <1>a, EndEffect
<1>2. ASSUME NEW u \in Users, NEW m \in Messages, UpToDate(u, m)'
      PROVE  UpToDate(u, m) /\ ~ToTell(r, m) /\ ~ComesOrGoes(r, m)
  BY <1>2, <1>a DEF UpToDate, ToTell, ComesOrGoes
<1>3. SamePresence'
  BY <1>a, <1>b, <1>2 DEF Inductive, SamePresence
<1>4. SameRow'
  BY <1>a, <1>b, <1>2 DEF Inductive, SameRow
<1> QED BY <1>1, <1>3, <1>4 DEF Inductive

LEMMA ClientsKeep ==
  ASSUME Inductive, TypeOK', NEW u \in Users,
         Connect(u) \/ Join(u) \/ Disconnect(u) \/ GetChats(u)
  PROVE  Inductive'
<1>0. TypeOK
  BY DEF Inductive
<1>a. UNCHANGED <<messages, unused, at, found, event, later, outdated>>
  BY DEF Connect, Join, Disconnect, GetChats, tables, handlers, copies
<1>1. InPlace' /\ Ordered' /\ FoundBefore' /\ RestIsGone' /\ NewestTells' /\ PresenceTold'
  BY <1>a DEF Inductive, InPlace, Ordered, FoundBefore, RestIsGone, NewestTells,
              PresenceTold, Newest, LastWord, ComesOrGoes, Brings, ToTell, Owes, Kind,
              About, Emptied, Nothing
<1>b. \A q \in Requests, m \in Messages :
         /\ ToTell(q, m)' <=> ToTell(q, m)
         /\ ComesOrGoes(q, m)' <=> ComesOrGoes(q, m)
  BY <1>a DEF ToTell, ComesOrGoes, Kind, About
(* A list is as it was, or new. *)
<1>2. ASSUME NEW v \in Users, NEW m \in Messages, UpToDate(v, m)'
      PROVE  \/ UpToDate(v, m) /\ view'[v][m] = view[v][m]
             \/ view'[v][m] = messages[m]
  <2>1. CASE Connect(u) \/ Join(u)
    BY <1>2, <2>1 DEF Connect, Join, UpToDate
  <2>2. CASE Disconnect(u)
    BY <1>0, <1>2, <2>2 DEF Disconnect, UpToDate, TypeOK
  <2>3. CASE GetChats(u)
    BY <1>0, <1>2, <2>3 DEF GetChats, UpToDate, TypeOK
  <2> QED BY <2>1, <2>2, <2>3
<1>3. SamePresence'
  BY <1>a, <1>b, <1>2 DEF Inductive, SamePresence
<1>4. SameRow'
  BY <1>a, <1>b, <1>2 DEF Inductive, SameRow
<1> QED BY <1>1, <1>3, <1>4 DEF Inductive

LEMMA InductiveStep == Inductive /\ [Next]_vars => Inductive'
<1> SUFFICES ASSUME Inductive, [Next]_vars PROVE Inductive'
  OBVIOUS
<1>0. TypeOK /\ InPlace
  BY DEF Inductive
<1>1. TypeOK'
  BY <1>0, TypeStep
<1>2. CASE UNCHANGED vars
  BY <1>1, <1>2 DEF vars, Inductive, InPlace, Ordered, FoundBefore, RestIsGone, NewestTells,
              PresenceTold, SamePresence, SameRow, UpToDate, Newest, LastWord,
              ComesOrGoes, Brings, ToTell, Owes, Kind, About, Emptied, Nothing
<1>3. ASSUME NEW r \in Requests, Handle(r) PROVE Inductive'
  <2>1. CASE Looks(r)
    BY <1>1, <2>1, LooksKeeps
  <2>2. CASE Alters(r)
    <3>1. PICK e \in Event : Effect(r, e, "publish")
      BY <1>0, <2>2, AltersEffect
    <3> QED BY <1>1, <3>1, EffectKeeps
  <2>3. CASE Remove(r)
    BY <1>1, <2>3, RemoveKeeps
  <2>4. ASSUME NEW u \in Users, StartClear(r, u) PROVE Inductive'
    <3>1. PICK where \in {"remove", "publish"} : Effect(r, Emptied, where)
      BY <1>0, <2>4, ClearEffect
    <3> QED BY <1>1, <3>1, EffectKeeps, EventTypes
  <2> QED BY <1>3, <2>1, <2>2, <2>3, <2>4, HandleIs
<1> QED BY <1>1, <1>2, <1>3, PublishKeeps, FailKeeps, ClientsKeep DEF Next

LEMMA AlwaysInductive == Spec => []Inductive
BY InductiveInit, InductiveStep, PTL DEF Spec

-----------------------------------------------------------------------------
(* The theorems *)

(* Every reachable state of tables, handlers and clients is well-typed.    *)
THEOREM TypeCorrect == Spec => []TypeOK
<1>1. Inductive => TypeOK
  BY DEF Inductive
<1> QED BY <1>1, AlwaysInductive, PTL

(* The list of a client is what is in the table, once all that is owed has *)
(* been published, for any users, messages and handlers, unless an event   *)
(* was missed, lost or overtaken, or did not tell what a save of outdated  *)
(* copies made of the row: neither the join of the room after the list,    *)
(* nor clear-chat's removal of what it had found, nor a save between whose *)
(* find and write nobody changed the row, gets in the way.                 *)
THEOREM ListsRight == Spec => []ListsAreRight
<1>1. Inductive => ListsAreRight
  <2> SUFFICES ASSUME Inductive, NEW u \in listed, NEW m \in Messages,
                      Owing({m}) = {}, <<u, m>> \notin missed
               PROVE  view[u][m] = messages[m]
    BY DEF ListsAreRight
  <2>1. u \in Users
    BY DEF Inductive, TypeOK
  <2>2. \A q \in Requests : ~ToTell(q, m)
    <3> SUFFICES ASSUME NEW q \in Requests, ToTell(q, m) PROVE FALSE
      OBVIOUS
    <3>1. event[q] # Absent /\ m \in About(event[q])
      BY DEF ToTell, Inductive, TypeOK
    <3> QED BY <3>1 DEF Owing
  <2> QED BY <2>1, <2>2 DEF Inductive, SameRow, UpToDate
<1> QED BY <1>1, AlwaysInductive, PTL
=============================================================================
