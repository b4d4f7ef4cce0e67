------------------------ MODULE UnreadCounterProofs ------------------------
(***************************************************************************)
(* Proofs about UnreadCounter, for any users, chats, messages and slots.   *)
(*                                                                         *)
(* ShownIsRight is not inductive: between the change of a handler and its  *)
(* publications a client shows an old number.  The invariant below says    *)
(* that then an answer for it is under way, and that an answer which waits *)
(* to be published is true unless the history has noted that it was        *)
(* overtaken.                                                              *)
(***************************************************************************)
EXTENDS UnreadCounter, FiniteSetTheorems, TLAPS

(* What the slots hold at each place. *)
InPlace ==
  \A r \in Requests :
    /\ at[r] # "idle" => job[r] \in Job
    /\ at[r] = "insert" => job[r].op = "create"
    /\ at[r] = "find" => job[r].op \in {"read", "resend", "delete"}
    /\ at[r] \in {"load", "write"} => job[r].op \in {"read", "resend"}
    /\ at[r] = "remove" => job[r].op \in {"delete", "clear"}
    /\ at[r] = "drop" => job[r].op = "drop"
    /\ at[r] = "saved" => job[r].op # "connect"
    /\ at[r] = "list" => job[r].op \notin {"connect", "read", "resend"}
    /\ at[r] # "count" => todo[r] = {} /\ answer[r] = NoAnswers
    /\ \A u \in todo[r] : answer[r][u] = None

(* Each message that has been in the table has one chat: all copies of its *)
(* row are of that chat, also those a stale save inserts again, and so are *)
(* the messages a handler is about to remove.                              *)
Home(home) ==
  /\ \A m \in Messages :
       messages[m] # Absent => m \notin unused /\ messages[m].chat = home[m]
  /\ \A r \in Requests, m \in Messages :
       found[r][m] # Absent => m \notin unused /\ found[r][m].chat = home[m]
  /\ \A r \in Requests : at[r] = "find" =>
       \A m \in job[r].ids : m \notin unused /\ home[m] = job[r].chat
  /\ \A r \in Requests : at[r] = "remove" =>
       \A m \in Messages : found[r][m] # Absent => home[m] = job[r].chat
OfItsChat == \E home \in [Messages -> Chats \cup {None}] : Home(home)

AnswersAreTrue ==
  \A r \in Requests : \A u \in Users \ outdated[r] :
    answer[r][u] # None => answer[r][u] = UnreadedChatsCount(u)

ShownOrDue ==
  \A u \in connected \ missed : Pending(u) \/ shown[u] = UnreadedChatsCount(u)

Inductive == TypeOK /\ InPlace /\ OfItsChat /\ AnswersAreTrue /\ ShownOrDue

-----------------------------------------------------------------------------
(* The steps of the handlers, by what they change *)

Begins(r) ==
  \E u \in Users, c \in Chats :
    \/ \E op \in Ops, ids \in SUBSET Messages : Start(r, op, u, c, ids)
    \/ StartClear(r, u, c)
Reads(r) == Find(r) \/ Load(r)
Saves(r) == Insert(r) \/ Write(r) \/ Remove(r) \/ Drop(r)

LEMMA NextIs ==
  Next => \/ \E u \in Users : Disconnect(u) \/ \E r \in Requests : Connect(r, u)
          \/ \E r \in Requests :
               \/ Begins(r) \/ Reads(r) \/ Saves(r) \/ SaveFails(r)
               \/ Publish(r) \/ ListUsers(r) \/ ListUsersFails(r)
               \/ \E u \in Users : Count(r, u) \/ CountFails(r, u) \/ Emit(r, u)
BY DEF Next, Begins, Reads, Saves

(* A handler that begins takes its request to an idle slot. *)
LEMMA BeginsSo ==
  ASSUME TypeOK, NEW r \in Requests, Begins(r)
  PROVE  \E j \in Job : \E where \in {"insert", "find", "remove", "drop", "saved"} :
           /\ at[r] = "idle" /\ j.op \in AllOps /\ j.ids \subseteq RowsOf(j.chat)
           /\ job' = [job EXCEPT ![r] = j] /\ at' = [at EXCEPT ![r] = where]
           /\ found' \in {found, [found EXCEPT ![r] = Pick(RowsOf(j.chat))]}
           /\ UNCHANGED <<store, clients, loaded, counts, missed>>
           /\ where = "insert" => j.op = "create"
           /\ where = "find" => j.op \in {"read", "resend", "delete"} /\ found' = found
           /\ where = "remove" => /\ j.op = "clear"
                                  /\ found' = [found EXCEPT ![r] = Pick(RowsOf(j.chat))]
           /\ where = "drop" => j.op = "drop"
<1> PICK u \in Users, c \in Chats :
      \/ \E op \in Ops, ids \in SUBSET Messages : Start(r, op, u, c, ids)
      \/ StartClear(r, u, c)
  BY DEF Begins
<1>0. Ops \subseteq AllOps
  BY UnreadCounterAssumption
<1>1. ASSUME NEW op \in Ops, NEW ids \in SUBSET Messages, Start(r, op, u, c, ids)
      PROVE  \E j \in Job : \E where \in {"insert", "find", "drop"} :
           /\ at[r] = "idle" /\ j.op \in AllOps /\ j.ids \subseteq RowsOf(j.chat)
           /\ job' = [job EXCEPT ![r] = j] /\ at' = [at EXCEPT ![r] = where]
           /\ found' = found
           /\ UNCHANGED <<store, clients, loaded, counts, missed>>
           /\ where = "insert" => j.op = "create"
           /\ where = "find" => j.op \in {"read", "resend", "delete"}
           /\ where = "drop" => j.op = "drop"
  <2> DEFINE j == [op |-> op, user |-> u, chat |-> c, ids |-> ids]
  <2>1. j \in Job /\ j.op = op /\ j.op \in AllOps /\ j.ids = ids /\ j.chat = c
    BY <1>0 DEF Job
  <2>2. j.ids \subseteq RowsOf(j.chat) /\ found' = found
    BY <1>1, <2>1 DEF Start
  <2>3. \/ op \in {"read", "resend", "delete"} /\ Begin(r, j, "find")
        \/ op = "create" /\ Begin(r, j, "insert")
        \/ op = "drop" /\ Begin(r, j, "drop")
    BY <1>1 DEF Start
  <2> HIDE DEF j
  <2>4. CASE op \in {"read", "resend", "delete"} /\ Begin(r, j, "find")
    BY <2>1, <2>2, <2>4 DEF Begin, Goto
  <2>5. CASE op = "create" /\ Begin(r, j, "insert")
    BY <2>1, <2>2, <2>5 DEF Begin, Goto
  <2>6. CASE op = "drop" /\ Begin(r, j, "drop")
    BY <2>1, <2>2, <2>6 DEF Begin, Goto
  <2> QED BY <2>3, <2>4, <2>5, <2>6
<1>2. CASE StartClear(r, u, c)
  <2> DEFINE j == [op |-> "clear", user |-> u, chat |-> c, ids |-> {}]
  <2>1. j \in Job /\ j.op = "clear" /\ j.op \in AllOps /\ j.ids = {} /\ j.chat = c
    BY DEF Job, AllOps
  <2>2. PICK where \in {"saved", "remove"} : Begin(r, j, where)
    BY <1>2 DEF StartClear
  <2>3. found' = [found EXCEPT ![r] = Pick(RowsOf(j.chat))]
    BY <1>2, <2>1 DEF StartClear
  <2> HIDE DEF j
  <2> QED BY <2>1, <2>2, <2>3 DEF Begin, Goto
<1> QED BY <1>1, <1>2

(* A find or a SELECT fills the copies of its slot. *)
LEMMA ReadsSo ==
  ASSUME TypeOK, InPlace, NEW r \in Requests, Reads(r)
  PROVE  \E where \in {"load", "write", "remove"} :
           /\ at[r] \in {"find", "load"} /\ job[r] \in Job
           /\ at' = [at EXCEPT ![r] = where]
           /\ UNCHANGED <<store, clients, job, counts, missed>>
           /\ found' \in [Requests -> Table] /\ loaded' \in [Requests -> Table]
           /\ \A q \in Requests \ {r} : found'[q] = found[q]
           /\ \A m \in Messages : found'[r][m] # Absent =>
                \/ found'[r][m] = found[r][m]
                \/ at[r] = "find" /\ m \in job[r].ids /\ found'[r][m] = messages[m]
           /\ where = "remove" => /\ at[r] = "find" /\ job[r].op = "delete"
                                  /\ \A m \in Messages : found'[r][m] # Absent => m \in job[r].ids
           /\ where \in {"load", "write"} => job[r].op \in {"read", "resend"}
<1>0. job[r] \in Job /\ job[r].ids \subseteq Messages
  BY DEF Reads, Find, Load, InPlace, Job
<1>p. \A S \in SUBSET Messages : /\ Pick(S) \in Table
                                 /\ \A m \in Messages : Pick(S)[m] # Absent
                                      => m \in S /\ Pick(S)[m] = messages[m]
  BY DEF TypeOK, Pick, Table
<1>1. CASE Find(r)
  <2> DEFINE rows == {m \in job[r].ids \cap Present : Matches(job[r], messages[m])}
  <2>1. rows \in SUBSET Messages /\ rows \subseteq job[r].ids
    BY <1>0
  <2>2. /\ at[r] = "find" /\ found' = [found EXCEPT ![r] = Pick(rows)]
        /\ at' = [at EXCEPT ![r] = IF job[r].op = "delete" THEN "remove" ELSE "load"]
        /\ UNCHANGED <<store, clients, job, loaded, counts, missed>>
    BY <1>1 DEF Find, Goto
  <2> HIDE DEF rows
  <2>3. /\ found'[r] = Pick(rows) /\ found' \in [Requests -> Table]
        /\ loaded' \in [Requests -> Table]
        /\ \A q \in Requests \ {r} : found'[q] = found[q]
        /\ \A m \in Messages : found'[r][m] # Absent
              => m \in job[r].ids /\ found'[r][m] = messages[m]
    BY <1>p, <2>1, <2>2 DEF TypeOK
  <2>4. job[r].op \in {"read", "resend", "delete"}
    BY <2>2 DEF InPlace
  <2>5. CASE job[r].op = "delete"
    BY <1>0, <2>2, <2>3, <2>5
  <2>6. CASE job[r].op # "delete"
    BY <1>0, <2>2, <2>3, <2>4, <2>6
  <2> QED BY <2>5, <2>6
<1>2. CASE Load(r)
  <2> DEFINE rows == {m \in Messages : found[r][m] # Absent}
  <2>1. /\ at[r] = "load" /\ found' = found /\ loaded' = [loaded EXCEPT ![r] = Pick(rows)]
        /\ at' = [at EXCEPT ![r] = "write"]
        /\ UNCHANGED <<store, clients, job, counts, missed>>
    BY <1>2 DEF Load, Goto
  <2>2. rows \in SUBSET Messages
    OBVIOUS
  <2> HIDE DEF rows
  <2>3. loaded' \in [Requests -> Table] /\ found' \in [Requests -> Table]
    BY <1>p, <2>1, <2>2 DEF TypeOK
  <2>4. job[r].op \in {"read", "resend"}
    BY <2>1 DEF InPlace
  <2> QED BY <1>0, <2>1, <2>3, <2>4
<1> QED BY <1>1, <1>2 DEF Reads

(* What a step that changes the tables makes of them: a new row, of the    *)
(* chat of its handler, or rows put back, updated or removed.              *)
LEMMA RowTypes ==
  ASSUME TypeOK, InPlace, NEW r \in Requests, at[r] # "idle"
  PROVE  /\ NewRow(job[r]) \in Row /\ NewRow(job[r]).chat = job[r].chat
         /\ job[r].chat \in Chats /\ job[r].user \in Users
         /\ \A row \in Row : /\ Edited(job[r], row) \in Row
                             /\ Edited(job[r], row).chat = row.chat
                             /\ Edited(job[r], row).user = row.user
                             /\ Edited(job[r], row).readers \in
                                  {row.readers, row.readers \cup {job[r].user}}
                             /\ job[r].op # "read" => Edited(job[r], row) = row
<1>1. job[r].chat \in Chats /\ job[r].user \in Users
  BY DEF InPlace, Job
<1>2. NewRow(job[r]) \in Row /\ NewRow(job[r]).chat = job[r].chat
  BY <1>1 DEF NewRow, Row
<1>3. ASSUME NEW row \in Row
      PROVE  /\ Edited(job[r], row) \in Row
             /\ Edited(job[r], row).chat = row.chat
             /\ Edited(job[r], row).user = row.user
             /\ Edited(job[r], row).readers \in
                  {row.readers, row.readers \cup {job[r].user}}
             /\ job[r].op # "read" => Edited(job[r], row) = row
  BY <1>1, <1>3 DEF Edited, Row
<1> QED BY <1>1, <1>2, <1>3

LEMMA UpdatedIs ==
  ASSUME NEW now \in Row, NEW was \in Row, NEW entity \in Row,
         NEW byReference \in BOOLEAN
  PROVE  LET row == Updated(now, was, entity, byReference)
         IN  /\ row \in Row /\ row.chat = now.chat /\ row.user = now.user
             /\ row.readers \in {now.readers, entity.readers}
BY DEF Updated, Row

LEMMA WriteSo ==
  ASSUME TypeOK, InPlace, NEW r \in Requests, Write(r)
  PROVE  /\ UNCHANGED <<chats, unused>> /\ messages' \in Table
         /\ \A m \in Messages :
              \/ messages'[m] = messages[m]
              \/ /\ found[r][m] # Absent /\ messages'[m] # Absent
                 /\ messages[m] = Absent => messages'[m] = Edited(job[r], found[r][m])
                 /\ messages[m] # Absent => messages'[m].chat = messages[m].chat
         /\ ~Stale(r) => \A m \in Messages :
              \/ messages'[m] = messages[m]
              \/ messages[m] # Absent /\ messages'[m] = Edited(job[r], messages[m])
<1> DEFINE entities == {m \in Messages : found[r][m] # Absent}
           inserts == {m \in entities : loaded[r][m] = Absent}
           entity(m) == Edited(job[r], found[r][m])
<1>1. /\ at[r] = "write" /\ UNCHANGED <<chats, unused>>
      /\ \A m \in inserts : messages[m] = Absent
  BY DEF Write
<1>2. PICK b \in BOOLEAN :
        messages' = [m \in Messages |->
          CASE m \in inserts -> entity(m)
            [] m \in (entities \ inserts) \cap Present ->
                 Updated(messages[m], loaded[r][m], entity(m), b)
            [] OTHER -> messages[m]]
  BY DEF Write
<1>0. /\ messages \in [Messages -> Row \cup {Absent}] /\ Absent \notin Row
      /\ found[r] \in [Messages -> Row \cup {Absent}]
      /\ loaded[r] \in [Messages -> Row \cup {Absent}]
  BY UnreadCounterAssumption DEF TypeOK, Table
<1>3. ASSUME NEW m \in Messages
      PROVE  /\ messages'[m] \in Row \cup {Absent}
             /\ \/ messages'[m] = messages[m]
                \/ /\ found[r][m] # Absent /\ messages'[m] # Absent
                   /\ messages[m] = Absent => messages'[m] = entity(m)
                   /\ messages[m] # Absent => messages'[m].chat = messages[m].chat
             /\ ~Stale(r) => \/ messages'[m] = messages[m]
                             \/ messages[m] # Absent /\ messages'[m] = Edited(job[r], messages[m])
  <2>1. CASE m \in inserts
    <3>1. messages'[m] = entity(m) /\ messages[m] = Absent /\ found[r][m] \in Row
      BY <1>0, <1>1, <1>2, <2>1
    <3>2. entity(m) \in Row
      BY <1>1, <3>1, RowTypes
    <3>3. Stale(r)
      BY <2>1 DEF Stale
    <3> QED BY <1>0, <3>1, <3>2, <3>3
  <2>2. CASE m \in (entities \ inserts) \cap Present
    <3> DEFINE now == messages[m]
               was == loaded[r][m]
               row == Updated(now, was, entity(m), b)
    <3>1. messages'[m] = row
      BY <1>2, <2>2
    <3>2. now \in Row /\ was \in Row /\ found[r][m] \in Row
      BY <1>0, <2>2 DEF Present
    <3>3. entity(m) \in Row
      BY <1>1, <3>2, RowTypes
    <3>4. /\ row \in Row /\ row.chat = now.chat /\ row.user = now.user
          /\ row.readers \in {now.readers, entity(m).readers}
      <4> HIDE DEF now, was, entity
      <4> QED BY <3>2, <3>3, UpdatedIs
    <3>5. ASSUME ~Stale(r) PROVE row = now \/ row = Edited(job[r], now)
      <4>1. found[r][m] = now
        BY <2>2, <3>5 DEF Stale
      <4>2. Edited(job[r], now) \in Row /\ Edited(job[r], now).chat = now.chat
            /\ Edited(job[r], now).user = now.user
        BY <1>1, <3>2, RowTypes
      <4>3. \A x, y \in Row :
              x.chat = y.chat /\ x.user = y.user /\ x.readers = y.readers => x = y
        BY DEF Row
      <4> HIDE DEF row
      <4>4. row.readers = now.readers => row = now
        BY <3>2, <3>4, <4>3
      <4>5. row.readers = entity(m).readers => row = Edited(job[r], now)
        BY <3>4, <4>1, <4>2, <4>3
      <4> QED BY <3>4, <4>4, <4>5
    <3> HIDE DEF row
    <3> QED BY <1>0, <2>2, <3>1, <3>2, <3>4, <3>5 DEF Present
  <2>3. CASE m \notin inserts /\ m \notin (entities \ inserts) \cap Present
    BY <1>0, <1>2, <2>3
  <2> QED BY <2>1, <2>2, <2>3
<1>4. messages' = [m \in Messages |-> messages'[m]]
  BY <1>2
<1>5. messages' \in Table
  BY <1>3, <1>4 DEF Table
<1> QED BY <1>1, <1>3, <1>5

LEMMA SavesSo ==
  ASSUME TypeOK, InPlace, NEW r \in Requests, Saves(r)
  PROVE  /\ at[r] \in {"insert", "write", "remove", "drop"} /\ job[r] \in Job
         /\ Changes(r) /\ missed \subseteq missed'
         /\ missed' \subseteq Users \cup missed
         /\ chats' \subseteq chats /\ messages' \in Table /\ unused' \subseteq unused
         /\ \A m \in Messages :
              \/ messages'[m] = messages[m]
              \/ messages'[m] = Absent
              \/ at[r] = "insert" /\ m \in unused \ unused' /\ messages'[m] = NewRow(job[r])
              \/ /\ found[r][m] # Absent
                 /\ messages[m] = Absent => messages'[m] = Edited(job[r], found[r][m])
                 /\ messages[m] # Absent => messages'[m].chat = messages[m].chat
<1>0. /\ messages \in [Messages -> Row \cup {Absent}]
      /\ unused \in SUBSET Messages
      /\ Recounted \subseteq Users
  BY DEF TypeOK, Table, Recounted
<1>1. CASE Insert(r)
  <2>1. at[r] = "insert" /\ UNCHANGED <<chats, missed>> /\ Changes(r) /\ job[r] \in Job
    BY <1>1 DEF Insert, InPlace
  <2>2. PICK n \in unused : /\ messages' = [messages EXCEPT ![n] = NewRow(job[r])]
                            /\ unused' = unused \ {n}
    BY <1>1 DEF Insert
  <2>3. NewRow(job[r]) \in Row
    BY <2>1, RowTypes
  <2> QED BY <1>0, <2>1, <2>2, <2>3 DEF Table
<1>2. CASE Write(r)
  <2>1. /\ at[r] = "write" /\ Changes(r) /\ job[r] \in Job
        /\ missed \subseteq missed' /\ missed' \subseteq Users \cup missed
    BY <1>0, <1>2 DEF Write, InPlace
  <2> QED BY <1>2, <2>1, WriteSo
<1>3. CASE Remove(r)
  <2>1. /\ at[r] = "remove" /\ Changes(r) /\ job[r] \in Job
        /\ UNCHANGED <<chats, unused, missed>>
        /\ messages' = [m \in Messages |-> IF found[r][m] # Absent THEN Absent ELSE messages[m]]
    BY <1>3 DEF Remove, InPlace
  <2> QED BY <1>0, <2>1 DEF Table
<1>4. CASE Drop(r)
  <2>1. /\ at[r] = "drop" /\ Changes(r) /\ job[r] \in Job
        /\ UNCHANGED <<unused, missed>> /\ chats' \subseteq chats
        /\ messages' = [m \in Messages |->
                          IF m \in RowsOf(job[r].chat) THEN Absent ELSE messages[m]]
    BY <1>4 DEF Drop, InPlace
  <2> QED BY <1>0, <2>1 DEF Table
<1> QED BY <1>1, <1>2, <1>3, <1>4 DEF Saves

-----------------------------------------------------------------------------
(* Helpers *)

(* The number is a number. *)
LEMMA CountInNat ==
  ASSUME TypeOK, NEW u \in Users
  PROVE  UnreadedChatsCount(u) \in Nat
<1>1. UnreadedChats(u) \subseteq Chats
  BY DEF UnreadedChats, TypeOK
<1>2. IsFiniteSet(UnreadedChats(u))
  BY <1>1, FS_Subset, UnreadCounterAssumption
<1> QED BY <1>2, FS_CardinalityType DEF UnreadedChatsCount

LEMMA CountKept ==
  ASSUME UNCHANGED store, NEW u
  PROVE  UnreadedChatsCount(u)' = UnreadedChatsCount(u)
BY DEF store, UnreadedChatsCount, UnreadedChats, RowsOf, Present, Unread

(* What a handler does to the tables changes the number of nobody but      *)
(* those it counts for afterwards, unless it saves stale copies.           *)
LEMMA ChangesAreLocal ==
  ASSUME TypeOK, InPlace, OfItsChat, NEW r \in Requests, Saves(r),
         at[r] = "write" => ~Stale(r),
         NEW u \in Users \ Recipients(job[r])
  PROVE  UnreadedChats(u)' = UnreadedChats(u)
<1> DEFINE j == job[r]
<1> PICK home \in [Messages -> Chats \cup {None}] : Home(home)
  BY DEF OfItsChat
<1>1. /\ at[r] \in {"insert", "write", "remove", "drop"}
      /\ j.chat \in Chats /\ j.user \in Users
      /\ messages \in [Messages -> Row \cup {Absent}]
      /\ chats \subseteq Chats /\ Absent \notin Row
  BY SavesSo, UnreadCounterAssumption DEF Job, TypeOK, Table
<1>2. CASE Insert(r)
  <2>1. at[r] = "insert" /\ j.op = "create" /\ chats' = chats
    BY <1>2 DEF Insert, InPlace
  <2>2. u \notin Members[j.chat]
    BY <2>1 DEF Recipients
  <2>3. PICK n \in unused : messages' = [messages EXCEPT ![n] = NewRow(j)]
    BY <1>2 DEF Insert
  <2>4. n \in Messages /\ messages[n] = Absent /\ messages'[n].chat = j.chat
    BY <1>1, <2>3 DEF TypeOK, Home, NewRow
  <2>5. \A c \in chats : u \in Members[c] => RowsOf(c)' = RowsOf(c)
    BY <1>1, <2>2, <2>3, <2>4 DEF RowsOf, Present
  <2>6. \A c \in chats, m \in Messages : m \in RowsOf(c) => m # n
    BY <2>4 DEF RowsOf, Present
  <2>7. \A m \in Messages : m # n => messages'[m] = messages[m]
    BY <1>1, <2>3
  <2> HIDE DEF j
  <2>8. \A c \in chats : u \in Members[c] =>
          ((\E m \in RowsOf(c)' : Unread(messages'[m], u))
             <=> (\E m \in RowsOf(c) : Unread(messages[m], u)))
    BY <2>5, <2>6, <2>7 DEF RowsOf, Present
  <2> QED BY <2>1, <2>8 DEF UnreadedChats
<1>3. CASE Write(r)
  <2>1. at[r] = "write" /\ chats' = chats /\ j.op \in {"read", "resend"}
    BY <1>3 DEF Write, InPlace
  <2>2. \A m \in Messages :
          \/ messages'[m] = messages[m]
          \/ messages[m] # Absent /\ messages'[m] = Edited(j, messages[m])
    BY <1>3, <2>1, WriteSo
  <2>3. \A row \in Row : /\ Edited(j, row) \in Row
                         /\ Edited(j, row).chat = row.chat
                         /\ Edited(j, row).user = row.user
                         /\ Edited(j, row).readers \in {row.readers, row.readers \cup {j.user}}
                         /\ j.op # "read" => Edited(j, row) = row
    BY <2>1, RowTypes
  <2>4. j.op = "read" => u # j.user
    BY DEF Recipients
  <2> HIDE DEF j
  <2>5. \A row \in Row : Unread(Edited(j, row), u) <=> Unread(row, u)
    BY <2>3, <2>4 DEF Unread
  <2>6. ASSUME NEW m \in Messages
        PROVE  /\ messages'[m] # Absent <=> messages[m] # Absent
               /\ messages[m] # Absent => messages'[m].chat = messages[m].chat
               /\ messages[m] # Absent => (Unread(messages'[m], u) <=> Unread(messages[m], u))
    <3>1. messages[m] # Absent => messages[m] \in Row
      BY <1>1
    <3> QED BY <1>1, <2>2, <2>3, <2>5, <3>1
  <2>7. \A c \in Chats : RowsOf(c)' = RowsOf(c)
    BY <2>6 DEF RowsOf, Present
  <2>8. \A c \in Chats :
          (\E m \in RowsOf(c)' : Unread(messages'[m], u))
             <=> (\E m \in RowsOf(c) : Unread(messages[m], u))
    BY <2>6, <2>7 DEF RowsOf, Present
  <2> QED BY <1>1, <2>1, <2>8 DEF UnreadedChats
<1>4. CASE Remove(r) \/ Drop(r)
  <2>1. u \notin Members[j.chat]
    BY <1>4 DEF Remove, Drop, InPlace, Recipients
  <2>2. chats' \in {chats, chats \ {j.chat}}
    BY <1>4 DEF Remove, Drop
  <2>3. \A m \in Messages :
          \/ messages'[m] = messages[m]
          \/ messages'[m] = Absent /\ (messages[m] # Absent => messages[m].chat = j.chat)
    <3>1. CASE Remove(r)
      <4>1. /\ at[r] = "remove"
            /\ messages' = [m \in Messages |->
                              IF found[r][m] # Absent THEN Absent ELSE messages[m]]
        BY <3>1 DEF Remove
      <4> QED BY <4>1 DEF Home
    <3>2. CASE Drop(r)
      BY <1>1, <3>2 DEF Drop, RowsOf
    <3> QED BY <1>4, <3>1, <3>2
  <2>4. \A c \in Chats : u \in Members[c] => RowsOf(c)' = RowsOf(c)
    BY <2>1, <2>3 DEF RowsOf, Present
  <2>5. \A c \in Chats, m \in Messages : u \in Members[c] /\ m \in RowsOf(c)
          => messages'[m] = messages[m]
    BY <2>1, <2>3 DEF RowsOf, Present
  <2>6. \A c \in Chats : u \in Members[c] =>
          ((\E m \in RowsOf(c)' : Unread(messages'[m], u))
             <=> (\E m \in RowsOf(c) : Unread(messages[m], u)))
    BY <2>4, <2>5 DEF RowsOf, Present
  <2>7. \A c \in Chats : u \in Members[c] => (c \in chats' <=> c \in chats)
    BY <2>1, <2>2
  <2>8. chats' \subseteq Chats
    BY <1>1, <2>2
  <2> QED BY <1>1, <2>6, <2>7, <2>8 DEF UnreadedChats
<1> QED BY <1>2, <1>3, <1>4 DEF Saves

-----------------------------------------------------------------------------
(* TypeOK is preserved *)

LEMMA TypeInit == Init => TypeOK
BY DEF Init, TypeOK, NoAnswers, Nothing, Table, Places

(* What a handler does when it is back from the tables. *)
LEMMA PublishSo ==
  ASSUME NEW r \in Requests, Publish(r)
  PROVE  /\ at[r] = "saved"
         /\ UNCHANGED <<store, clients, copies, answer, outdated>>
         /\ \/ /\ End(r) /\ UNCHANGED todo
               /\ missed' = missed \cup Recipients(job[r])
            \/ /\ End(r) /\ UNCHANGED <<todo, missed>> /\ job[r].op = "resend"
            \/ /\ Goto(r, "count") /\ UNCHANGED <<job, missed>> /\ job[r].op = "read"
               /\ todo' = [todo EXCEPT ![r] = {job[r].user}]
            \/ /\ Goto(r, "list") /\ UNCHANGED <<job, todo, missed>>
               /\ job[r].op \notin {"read", "resend"}
<1>1. CASE job[r].user \notin connected
  BY <1>1 DEF Publish
<1>2. CASE job[r].user \in connected
  <2>1. CASE job[r].op = "read"
    BY <1>2, <2>1 DEF Publish
  <2>2. CASE job[r].op = "resend"
    BY <1>2, <2>2 DEF Publish
  <2>3. CASE job[r].op \notin {"read", "resend"}
    BY <1>2, <2>3 DEF Publish
  <2> QED BY <2>1, <2>2, <2>3
<1> QED BY <1>1, <1>2

LEMMA TypeStep ==
  ASSUME TypeOK, InPlace, [Next]_vars
  PROVE  TypeOK'
<1>0. /\ "idle" \in Places /\ "count" \in Places /\ "list" \in Places
      /\ \A where \in {"insert", "find", "load", "write", "remove", "drop", "saved"} :
           where \in Places
  BY DEF Places
<1>n. Nothing \in Table /\ \A S \in SUBSET Messages : Pick(S) \in Table
  BY DEF Nothing, Pick, Table, TypeOK
<1> USE DEF TypeOK
<1>1. ASSUME NEW u \in Users, Disconnect(u) PROVE TypeOK'
  BY <1>1 DEF Disconnect, store, handlers, copies, counts
<1>2. ASSUME NEW u \in Users, NEW r \in Requests, Connect(r, u) PROVE TypeOK'
  BY <1>0, <1>2 DEF Connect, store, copies, Goto, Job
<1>3. ASSUME NEW r \in Requests, Begins(r) PROVE TypeOK'
  <2> PICK j \in Job, where \in {"insert", "find", "remove", "drop", "saved"} :
        /\ job' = [job EXCEPT ![r] = j] /\ at' = [at EXCEPT ![r] = where]
        /\ found' \in {found, [found EXCEPT ![r] = Pick(RowsOf(j.chat))]}
        /\ UNCHANGED <<store, clients, loaded, counts, missed>>
    BY <1>3, BeginsSo
  <2>1. Pick(RowsOf(j.chat)) \in Table
    BY <1>n DEF RowsOf, Present
  <2>2. job' \in [Requests -> Job \cup {Absent}] /\ at' \in [Requests -> Places]
    BY <1>0
  <2>3. found' \in [Requests -> Table]
    BY <2>1
  <2> QED BY <2>2, <2>3 DEF store, clients, counts
<1>4. ASSUME NEW r \in Requests, Reads(r) PROVE TypeOK'
  <2> PICK where \in {"load", "write", "remove"} :
        /\ at' = [at EXCEPT ![r] = where]
        /\ UNCHANGED <<store, clients, job, counts, missed>>
        /\ found' \in [Requests -> Table] /\ loaded' \in [Requests -> Table]
    BY <1>4, ReadsSo
  <2> QED BY <1>0 DEF store, clients, counts
<1>5. ASSUME NEW r \in Requests, Saves(r) PROVE TypeOK'
  <2>1. /\ chats' \subseteq chats /\ messages' \in Table /\ unused' \subseteq unused
        /\ missed' \subseteq Users \cup missed /\ Changes(r)
    BY <1>5, SavesSo
  <2>2. /\ at' = [at EXCEPT ![r] = "saved"] /\ UNCHANGED <<clients, job, todo, answer>>
        /\ found' = [found EXCEPT ![r] = Nothing]
        /\ loaded' = [loaded EXCEPT ![r] = Nothing]
        /\ outdated' = [q \in Requests |->
                          outdated[q] \cup {u \in Recounted : answer[q][u] # None}]
    BY <2>1 DEF Changes, Goto, Forget
  <2>3. outdated' \in [Requests -> SUBSET Users]
    BY <2>2 DEF Recounted
  <2> QED BY <1>0, <1>n, <2>1, <2>2, <2>3 DEF clients
<1>6. ASSUME NEW r \in Requests, SaveFails(r) PROVE TypeOK'
  BY <1>0, <1>n, <1>6 DEF SaveFails, store, clients, counts, End, Forget
<1>7. ASSUME NEW r \in Requests, Publish(r) PROVE TypeOK'
  <2>1. job[r].user \in Users /\ Recipients(job[r]) \subseteq Users
    BY <1>7, UnreadCounterAssumption DEF Publish, InPlace, Job, Recipients
  <2>2. /\ UNCHANGED <<store, clients, copies, answer, outdated>>
        /\ \/ End(r)
           \/ UNCHANGED job /\ (Goto(r, "count") \/ Goto(r, "list"))
        /\ missed' \in {missed, missed \cup Recipients(job[r])}
        /\ todo' \in {todo, [todo EXCEPT ![r] = {job[r].user}]}
    BY <1>7, PublishSo
  <2>3. job' \in [Requests -> Job \cup {Absent}] /\ at' \in [Requests -> Places]
    <3>1. CASE End(r)
      BY <1>0, <3>1 DEF End
    <3>2. CASE UNCHANGED job /\ (Goto(r, "count") \/ Goto(r, "list"))
      BY <1>0, <3>2 DEF Goto
    <3> QED BY <2>2, <3>1, <3>2
  <2>4. todo' \in [Requests -> SUBSET Users]
    <3>1. todo \in [Requests -> SUBSET Users] /\ {job[r].user} \in SUBSET Users
      BY <2>1
    <3> QED BY <2>2, <3>1
  <2>5. missed' \in SUBSET Users
    BY <2>1, <2>2
  <2> QED BY <2>2, <2>3, <2>4, <2>5 DEF store, clients, copies
<1>8. ASSUME NEW r \in Requests, ListUsers(r) PROVE TypeOK'
  <2>1. UsersInChat(job[r]) \subseteq Users
    BY <1>8, UnreadCounterAssumption DEF ListUsers, InPlace, Job, UsersInChat
  <2>2. job' \in [Requests -> Job \cup {Absent}] /\ at' \in [Requests -> Places]
    <3>1. End(r) \/ (UNCHANGED job /\ Goto(r, "count"))
      BY <1>8 DEF ListUsers
    <3> QED BY <1>0, <3>1 DEF End, Goto
  <2> QED BY <1>8, <2>1, <2>2 DEF ListUsers, store, clients, copies
<1>9. ASSUME NEW r \in Requests, ListUsersFails(r) PROVE TypeOK'
  <2>1. Recipients(job[r]) \subseteq Users
    BY <1>9, UnreadCounterAssumption DEF ListUsersFails, InPlace, Job, Recipients
  <2> QED BY <1>0, <1>9, <2>1 DEF ListUsersFails, store, clients, copies, End
<1>10. ASSUME NEW r \in Requests, NEW u \in Users, Count(r, u) PROVE TypeOK'
  BY <1>10, CountInNat DEF Count, store, clients, copies
<1>11. ASSUME NEW r \in Requests, NEW u \in Users, CountFails(r, u) PROVE TypeOK'
  <2>1. connected' \in SUBSET Users /\ shown' \in [Users -> Nat \cup {None}]
    BY <1>11 DEF CountFails, clients
  <2>2. job' \in [Requests -> Job \cup {Absent}] /\ at' \in [Requests -> Places]
    <3>1. End(r) \/ UNCHANGED <<at, job>>
      BY <1>11 DEF CountFails, EndOrWait
    <3>2. CASE End(r)
      BY <1>0, <3>2 DEF End
    <3> QED BY <3>1, <3>2
  <2> QED BY <1>11, <2>1, <2>2 DEF CountFails, store, copies
<1>12. ASSUME NEW r \in Requests, NEW u \in Users, Emit(r, u) PROVE TypeOK'
  <2>1. job' \in [Requests -> Job \cup {Absent}] /\ at' \in [Requests -> Places]
    <3>1. End(r) \/ UNCHANGED <<at, job>>
      BY <1>12 DEF Emit, EndOrWait
    <3>2. CASE End(r)
      BY <1>0, <3>2 DEF End
    <3> QED BY <3>1, <3>2
  <2>2. shown' \in [Users -> Nat \cup {None}]
    BY <1>12 DEF Emit
  <2>3. answer' \in [Requests -> [Users -> Nat \cup {None}]]
    BY <1>12 DEF Emit
  <2>4. outdated' \in [Requests -> SUBSET Users] /\ missed' \in SUBSET Users
    BY <1>12 DEF Emit
  <2> QED BY <1>12, <2>1, <2>2, <2>3, <2>4 DEF Emit, store, copies
<1>13. CASE UNCHANGED vars
  BY <1>13 DEF vars
<1> QED BY <1>1, <1>2, <1>3, <1>4, <1>5, <1>6, <1>7, <1>8, <1>9, <1>10, <1>11,
           <1>12, <1>13, NextIs

-----------------------------------------------------------------------------
(* InPlace is preserved *)

LEMMA PlaceInit == Init => InPlace
BY DEF Init, InPlace

(* A slot that has nothing left to count and publish holds nothing. *)
LEMMA LastIsLast ==
  ASSUME TypeOK, NEW r \in Requests, NEW u \in Users, Last(r, u)
  PROVE  /\ todo[r] \ {u} = {}
         /\ answer[r][u] = None => answer[r] = NoAnswers
         /\ [answer[r] EXCEPT ![u] = None] = NoAnswers
BY DEF TypeOK, Last, NoAnswers

LEMMA PlaceStep ==
  ASSUME TypeOK, InPlace, [Next]_vars
  PROVE  InPlace'
<1>1. ASSUME NEW u \in Users, Disconnect(u) PROVE InPlace'
  BY <1>1 DEF Disconnect, handlers, counts, InPlace, NoAnswers
<1>2. ASSUME NEW u \in Users, NEW r \in Requests, Connect(r, u) PROVE InPlace'
  BY <1>2 DEF TypeOK, Connect, Goto, Job, InPlace, NoAnswers
<1>3. ASSUME NEW r \in Requests, Begins(r) PROVE InPlace'
  <2> PICK j \in Job, where \in {"insert", "find", "remove", "drop", "saved"} :
        /\ at[r] = "idle" /\ j.op \in AllOps
        /\ job' = [job EXCEPT ![r] = j] /\ at' = [at EXCEPT ![r] = where]
        /\ UNCHANGED counts
        /\ where = "insert" => j.op = "create"
        /\ where = "find" => j.op \in {"read", "resend", "delete"}
        /\ where = "remove" => j.op = "clear"
        /\ where = "drop" => j.op = "drop"
    BY <1>3, BeginsSo
  <2>1. j.op # "connect"
    BY DEF AllOps
  <2>2. \A q \in Requests \ {r} : job'[q] = job[q] /\ at'[q] = at[q]
    BY DEF TypeOK
  <2>3. job'[r] = j /\ at'[r] = where /\ todo[r] = {} /\ answer[r] = NoAnswers
    BY DEF TypeOK, InPlace
  <2> QED BY <2>1, <2>2, <2>3 DEF InPlace, counts, NoAnswers
<1>4. ASSUME NEW r \in Requests, Reads(r) PROVE InPlace'
  <2> PICK where \in {"load", "write", "remove"} :
        /\ at[r] \in {"find", "load"} /\ job[r] \in Job
        /\ at' = [at EXCEPT ![r] = where]
        /\ UNCHANGED <<job, counts>>
        /\ where = "remove" => job[r].op = "delete"
        /\ where \in {"load", "write"} => job[r].op \in {"read", "resend"}
    BY <1>4, ReadsSo
  <2>1. at'[r] = where /\ \A q \in Requests \ {r} : at'[q] = at[q]
    BY DEF TypeOK
  <2> QED BY <2>1 DEF InPlace, counts, NoAnswers
<1>5. ASSUME NEW r \in Requests, Saves(r) PROVE InPlace'
  <2>1. /\ at[r] \in {"insert", "write", "remove", "drop"} /\ Goto(r, "saved")
        /\ UNCHANGED <<job, todo, answer>>
    BY <1>5, SavesSo DEF Changes
  <2>2. at'[r] = "saved" /\ \A q \in Requests \ {r} : at'[q] = at[q]
    BY <2>1 DEF TypeOK, Goto
  <2>3. job[r] \in Job /\ job[r].op # "connect" /\ todo[r] = {} /\ answer[r] = NoAnswers
    BY <2>1 DEF InPlace
  <2> QED BY <2>1, <2>2, <2>3 DEF InPlace, NoAnswers
<1>6. ASSUME NEW r \in Requests, SaveFails(r) PROVE InPlace'
  BY <1>6 DEF TypeOK, SaveFails, counts, End, InPlace, NoAnswers
<1>7. ASSUME NEW r \in Requests, Publish(r) PROVE InPlace'
  <2>1. at[r] = "saved" /\ UNCHANGED answer
    BY <1>7, PublishSo
  <2>2. /\ job[r] \in Job /\ job[r].op # "connect" /\ job[r].user \in Users
        /\ todo[r] = {} /\ answer[r] = NoAnswers
    BY <2>1 DEF InPlace, Job
  <2>3. CASE End(r) /\ UNCHANGED todo
    BY <2>1, <2>2, <2>3 DEF TypeOK, End, InPlace, NoAnswers
  <2>4. CASE Goto(r, "count") /\ UNCHANGED job /\ todo' = [todo EXCEPT ![r] = {job[r].user}]
    BY <2>1, <2>2, <2>4 DEF TypeOK, Goto, InPlace, NoAnswers
  <2>5. CASE /\ Goto(r, "list") /\ UNCHANGED <<job, todo>>
             /\ job[r].op \notin {"read", "resend"}
    BY <2>1, <2>2, <2>5 DEF TypeOK, Goto, InPlace, NoAnswers
  <2> QED BY <1>7, <2>3, <2>4, <2>5, PublishSo
<1>8. ASSUME NEW r \in Requests, ListUsers(r) PROVE InPlace'
  <2>1. /\ at[r] = "list" /\ UNCHANGED answer
        /\ todo' = [todo EXCEPT ![r] = UsersInChat(job[r])]
    BY <1>8 DEF ListUsers
  <2>2. UsersInChat(job[r]) \subseteq Users /\ answer[r] = NoAnswers /\ job[r] \in Job
    BY <2>1, UnreadCounterAssumption DEF InPlace, Job, UsersInChat
  <2>3. CASE UsersInChat(job[r]) = {} /\ End(r)
    BY <2>1, <2>2, <2>3 DEF TypeOK, End, InPlace, NoAnswers
  <2>4. CASE Goto(r, "count") /\ UNCHANGED job
    BY <2>1, <2>2, <2>4 DEF TypeOK, Goto, InPlace, NoAnswers
  <2> QED BY <1>8, <2>3, <2>4 DEF ListUsers
<1>9. ASSUME NEW r \in Requests, ListUsersFails(r) PROVE InPlace'
  BY <1>9 DEF TypeOK, ListUsersFails, End, InPlace, NoAnswers
<1>10. ASSUME NEW r \in Requests, NEW u \in Users, Count(r, u) PROVE InPlace'
  BY <1>10 DEF TypeOK, Count, InPlace, NoAnswers
<1>11. ASSUME NEW r \in Requests, NEW u \in Users, CountFails(r, u) PROVE InPlace'
  <2>1. at[r] = "count" /\ answer[r][u] = None
    BY <1>11 DEF CountFails, InPlace
  <2>2. CASE Last(r, u)
    BY <1>11, <2>1, <2>2, LastIsLast
    DEF TypeOK, CountFails, EndOrWait, End, InPlace, NoAnswers
  <2>3. CASE ~Last(r, u)
    BY <1>11, <2>1, <2>3 DEF TypeOK, CountFails, EndOrWait, InPlace, NoAnswers
  <2> QED BY <2>2, <2>3
<1>12. ASSUME NEW r \in Requests, NEW u \in Users, Emit(r, u) PROVE InPlace'
  <2>1. at[r] = "count" /\ u \notin todo[r]
    BY <1>12 DEF Emit, InPlace, NoAnswers
  <2>2. CASE Last(r, u)
    <3>1. answer'[r] = NoAnswers /\ todo[r] = {}
      BY <1>12, <2>1, <2>2, LastIsLast DEF Emit, TypeOK
    <3> QED BY <1>12, <2>2, <3>1 DEF TypeOK, Emit, EndOrWait, End, InPlace, NoAnswers
  <2>3. CASE ~Last(r, u)
    BY <1>12, <2>1, <2>3 DEF TypeOK, Emit, EndOrWait, InPlace, NoAnswers
  <2> QED BY <2>2, <2>3
<1>13. CASE UNCHANGED vars
  BY <1>13 DEF vars, InPlace, NoAnswers
<1> QED BY <1>1, <1>2, <1>3, <1>4, <1>5, <1>6, <1>7, <1>8, <1>9, <1>10, <1>11,
           <1>12, <1>13, NextIs

-----------------------------------------------------------------------------
(* OfItsChat is preserved *)

LEMMA HomeInit == Init => OfItsChat
<1> SUFFICES ASSUME Init PROVE OfItsChat
  OBVIOUS
<1>1. Home([m \in Messages |-> None])
  BY DEF Init, Home, Nothing
<1> QED BY <1>1 DEF OfItsChat

(* A step that only lets slots go on to count keeps it. *)
LEMMA HomeKept ==
  ASSUME OfItsChat, UNCHANGED <<store, copies>>,
         \A r \in Requests : at'[r] \in {"find", "remove"}
           => at'[r] = at[r] /\ job'[r] = job[r]
  PROVE  OfItsChat'
<1> PICK home \in [Messages -> Chats \cup {None}] : Home(home)
  BY DEF OfItsChat
<1>1. Home(home)'
  BY DEF Home, store, copies
<1> QED BY <1>1 DEF OfItsChat

(* Only the insertion of a message gives it a chat. *)
LEMMA HomeSaved ==
  ASSUME TypeOK, InPlace, OfItsChat, NEW r \in Requests, Saves(r)
  PROVE  OfItsChat'
<1> PICK home \in [Messages -> Chats \cup {None}] : Home(home)
  BY DEF OfItsChat
<1>1. /\ unused' \subseteq unused /\ messages' \in Table
      /\ at[r] \in {"insert", "write", "remove", "drop"} /\ job[r] \in Job
      /\ \A m \in Messages :
           \/ messages'[m] = messages[m]
           \/ messages'[m] = Absent
           \/ at[r] = "insert" /\ m \in unused \ unused' /\ messages'[m] = NewRow(job[r])
           \/ /\ found[r][m] # Absent
              /\ messages[m] = Absent => messages'[m] = Edited(job[r], found[r][m])
              /\ messages[m] # Absent => messages'[m].chat = messages[m].chat
  BY SavesSo
<1>2. /\ at'[r] = "saved" /\ found'[r] = Nothing
      /\ UNCHANGED job
      /\ \A q \in Requests \ {r} : at'[q] = at[q] /\ found'[q] = found[q]
  <2>1. Changes(r)
    BY SavesSo
  <2> QED BY <2>1 DEF Changes, Goto, Forget, TypeOK
<1>3. \A m \in Messages : found[r][m] # Absent => found[r][m] \in Row
  BY DEF TypeOK, Table
<1>4. \A row \in Row : Edited(job[r], row).chat = row.chat
  <2>1. at[r] # "idle"
    BY <1>1
  <2> QED BY <2>1, RowTypes
<1>5. \A q \in Requests, m \in Messages : found'[q][m] # Absent
        => found[q][m] # Absent /\ found'[q][m] = found[q][m]
  BY <1>2 DEF Nothing
<1>6. \A q \in Requests : at'[q] \in {"find", "remove"}
        => at[q] = at'[q] /\ found'[q] = found[q] /\ job'[q] = job[q]
  BY <1>2
<1>7. CASE Insert(r)
  <2>1. PICK n \in unused : /\ messages' = [messages EXCEPT ![n] = NewRow(job[r])]
                            /\ unused' = unused \ {n}
    BY <1>7 DEF Insert
  <2>2. n \in Messages /\ job[r].chat \in Chats
    BY <1>1 DEF TypeOK, Job
  <2>3. PICK new \in [Messages -> Chats \cup {None}] : new = [home EXCEPT ![n] = job[r].chat]
    BY <2>2
  <2>4. new[n] = job[r].chat /\ \A m \in Messages \ {n} : new[m] = home[m]
    BY <2>2, <2>3
  <2>5. messages'[n] = NewRow(job[r]) /\ \A m \in Messages \ {n} : messages'[m] = messages[m]
    BY <2>1, <2>2 DEF TypeOK, Table
  <2>6. NewRow(job[r]).chat = job[r].chat
    BY DEF NewRow
  <2>7. \A q \in Requests : at[q] = "find" => job[q].ids \subseteq Messages
    BY DEF InPlace, Job
  <2>8. \A m \in Messages : messages'[m] # Absent =>
          m \notin unused' /\ messages'[m].chat = new[m]
    BY <2>1, <2>4, <2>5, <2>6 DEF Home
  <2>9. \A q \in Requests, m \in Messages : found'[q][m] # Absent =>
          m \notin unused' /\ found'[q][m].chat = new[m]
    BY <1>5, <2>1, <2>4 DEF Home
  <2>10. \A q \in Requests : at'[q] = "find" =>
           \A m \in job'[q].ids : m \notin unused' /\ new[m] = job'[q].chat
    BY <1>2, <1>6, <2>1, <2>4, <2>7 DEF Home
  <2>11. \A q \in Requests : at'[q] = "remove" =>
           \A m \in Messages : found'[q][m] # Absent => new[m] = job'[q].chat
    <3> SUFFICES ASSUME NEW q \in Requests, at'[q] = "remove",
                        NEW m \in Messages, found'[q][m] # Absent
                 PROVE  new[m] = job'[q].chat
      OBVIOUS
    <3>1. found[q][m] # Absent /\ at[q] = "remove" /\ job'[q] = job[q]
      BY <1>5, <1>6
    <3>2. m \notin unused /\ home[m] = job[q].chat
      BY <3>1 DEF Home
    <3> QED BY <2>1, <2>4, <3>1, <3>2
  <2>12. Home(new)'
    BY <2>8, <2>9, <2>10, <2>11 DEF Home
  <2> QED BY <2>3, <2>12 DEF OfItsChat
<1>8. CASE ~Insert(r)
  <2>1. \A m \in Messages : messages'[m] # Absent
          => m \notin unused /\ messages'[m].chat = home[m]
    <3> SUFFICES ASSUME NEW m \in Messages, messages'[m] # Absent
                 PROVE  m \notin unused /\ messages'[m].chat = home[m]
      OBVIOUS
    <3>1. at[r] # "insert"
      BY <1>8 DEF Saves, Write, Remove, Drop
    <3>2. CASE messages'[m] = messages[m]
      BY <3>2 DEF Home
    <3>3. CASE /\ found[r][m] # Absent
               /\ messages[m] = Absent => messages'[m] = Edited(job[r], found[r][m])
               /\ messages[m] # Absent => messages'[m].chat = messages[m].chat
      <4>1. m \notin unused /\ found[r][m].chat = home[m]
        BY <3>3 DEF Home
      <4>2. messages[m] # Absent => messages[m].chat = home[m]
        BY DEF Home
      <4>3. messages[m] = Absent => messages'[m].chat = found[r][m].chat
        BY <1>3, <1>4, <3>3
      <4> QED BY <3>3, <4>1, <4>2, <4>3
    <3> QED BY <1>1, <3>1, <3>2, <3>3
  <2>2. Home(home)'
    BY <1>1, <1>2, <1>5, <1>6, <2>1 DEF Home
  <2> QED BY <2>2 DEF OfItsChat
<1> QED BY <1>7, <1>8

LEMMA HomeStep ==
  ASSUME TypeOK, InPlace, OfItsChat, [Next]_vars
  PROVE  OfItsChat'
<1>1. ASSUME NEW u \in Users, Disconnect(u) PROVE OfItsChat'
  BY <1>1, HomeKept DEF Disconnect, handlers
<1>2. ASSUME NEW u \in Users, NEW r \in Requests, Connect(r, u) PROVE OfItsChat'
  BY <1>2, HomeKept DEF TypeOK, Connect, Goto
<1>3. ASSUME NEW r \in Requests, Begins(r) PROVE OfItsChat'
  <2> PICK j \in Job, where \in {"insert", "find", "remove", "drop", "saved"} :
        /\ at[r] = "idle" /\ j.op \in AllOps /\ j.ids \subseteq RowsOf(j.chat)
        /\ job' = [job EXCEPT ![r] = j] /\ at' = [at EXCEPT ![r] = where]
        /\ found' \in {found, [found EXCEPT ![r] = Pick(RowsOf(j.chat))]}
        /\ UNCHANGED <<store, clients, loaded, counts, missed>>
        /\ where = "insert" => j.op = "create"
        /\ where = "find" => j.op \in {"read", "resend", "delete"} /\ found' = found
        /\ where = "remove" => /\ j.op = "clear"
                               /\ found' = [found EXCEPT ![r] = Pick(RowsOf(j.chat))]
        /\ where = "drop" => j.op = "drop"
    BY <1>3, BeginsSo
  <2> PICK home \in [Messages -> Chats \cup {None}] : Home(home)
    BY DEF OfItsChat
  <2>1. \A m \in RowsOf(j.chat) : m \notin unused /\ home[m] = j.chat
    BY DEF RowsOf, Present, Home
  <2>2. \A m \in Messages : Pick(RowsOf(j.chat))[m] # Absent
          => m \in RowsOf(j.chat) /\ Pick(RowsOf(j.chat))[m] = messages[m]
    BY DEF Pick
  <2>3. /\ job'[r] = j /\ at'[r] = where
        /\ found'[r] \in {found[r], Pick(RowsOf(j.chat))}
        /\ where = "remove" => found'[r] = Pick(RowsOf(j.chat))
        /\ \A q \in Requests \ {r} : /\ job'[q] = job[q] /\ at'[q] = at[q]
                                     /\ found'[q] = found[q]
    BY DEF TypeOK
  <2>4. \A m \in RowsOf(j.chat) : messages[m].chat = j.chat
    BY DEF RowsOf
  <2>5. Home(home)'
    <3>1. \A q \in Requests, m \in Messages :
            found'[q][m] # Absent => m \notin unused /\ found'[q][m].chat = home[m]
      BY <2>1, <2>2, <2>3, <2>4 DEF Home
    <3>2. \A q \in Requests : at'[q] = "find" =>
            \A m \in job'[q].ids : m \notin unused /\ home[m] = job'[q].chat
      BY <2>1, <2>3 DEF Home
    <3>3. \A q \in Requests : at'[q] = "remove" =>
            \A m \in Messages : found'[q][m] # Absent => home[m] = job'[q].chat
      BY <2>1, <2>2, <2>3 DEF Home
    <3> QED BY <3>1, <3>2, <3>3 DEF Home, store
  <2> QED BY <2>5 DEF OfItsChat
<1>4. ASSUME NEW r \in Requests, Reads(r) PROVE OfItsChat'
  <2> PICK where \in {"load", "write", "remove"} :
        /\ at' = [at EXCEPT ![r] = where] /\ UNCHANGED <<store, job>>
        /\ \A q \in Requests \ {r} : found'[q] = found[q]
        /\ \A m \in Messages : found'[r][m] # Absent =>
             \/ found'[r][m] = found[r][m]
             \/ at[r] = "find" /\ m \in job[r].ids /\ found'[r][m] = messages[m]
        /\ where = "remove" => /\ at[r] = "find"
                               /\ \A m \in Messages : found'[r][m] # Absent => m \in job[r].ids
    BY <1>4, ReadsSo
  <2> PICK home \in [Messages -> Chats \cup {None}] : Home(home)
    BY DEF OfItsChat
  <2>1. at'[r] = where /\ \A q \in Requests \ {r} : at'[q] = at[q]
    BY DEF TypeOK
  <2>2. Home(home)'
    <3>1. \A q \in Requests, m \in Messages :
            found'[q][m] # Absent => m \notin unused /\ found'[q][m].chat = home[m]
      BY DEF Home
    <3>2. \A q \in Requests : at'[q] = "find" => at[q] = "find"
      BY <2>1
    <3>3. \A q \in Requests : at'[q] = "remove" =>
            \A m \in Messages : found'[q][m] # Absent => home[m] = job[q].chat
      BY <2>1 DEF Home
    <3> QED BY <3>1, <3>2, <3>3 DEF Home, store
  <2> QED BY <2>2 DEF OfItsChat
<1>5. ASSUME NEW r \in Requests, Saves(r) PROVE OfItsChat'
  BY <1>5, HomeSaved
<1>6. ASSUME NEW r \in Requests, SaveFails(r) PROVE OfItsChat'
  <2> PICK home \in [Messages -> Chats \cup {None}] : Home(home)
    BY DEF OfItsChat
  <2>1. /\ UNCHANGED store /\ found' = [found EXCEPT ![r] = Nothing]
        /\ at' = [at EXCEPT ![r] = "idle"] /\ job' = [job EXCEPT ![r] = Absent]
    BY <1>6 DEF SaveFails, End, Forget
  <2>2. /\ at'[r] = "idle" /\ found'[r] = Nothing
        /\ \A q \in Requests \ {r} : at'[q] = at[q] /\ job'[q] = job[q] /\ found'[q] = found[q]
    BY <2>1 DEF TypeOK
  <2>3. Home(home)'
    BY <2>1, <2>2 DEF Home, Nothing, store
  <2> QED BY <2>3 DEF OfItsChat
<1>7. ASSUME NEW r \in Requests, Publish(r) PROVE OfItsChat'
  <2>1. /\ UNCHANGED <<store, copies>>
        /\ \/ End(r)
           \/ UNCHANGED job /\ (Goto(r, "count") \/ Goto(r, "list"))
    BY <1>7, PublishSo
  <2> QED BY <2>1, HomeKept DEF TypeOK, End, Goto
<1>8. ASSUME NEW r \in Requests, ListUsers(r) PROVE OfItsChat'
  BY <1>8, HomeKept DEF TypeOK, ListUsers, End, Goto
<1>9. ASSUME NEW r \in Requests, ListUsersFails(r) PROVE OfItsChat'
  BY <1>9, HomeKept DEF TypeOK, ListUsersFails, End
<1>10. ASSUME NEW r \in Requests, NEW u \in Users, Count(r, u) PROVE OfItsChat'
  BY <1>10, HomeKept DEF Count
<1>11. ASSUME NEW r \in Requests, NEW u \in Users, CountFails(r, u) PROVE OfItsChat'
  BY <1>11, HomeKept DEF TypeOK, CountFails, EndOrWait, End
<1>12. ASSUME NEW r \in Requests, NEW u \in Users, Emit(r, u) PROVE OfItsChat'
  BY <1>12, HomeKept DEF TypeOK, Emit, EndOrWait, End
<1>13. CASE UNCHANGED vars
  BY <1>13, HomeKept DEF vars, store, copies
<1> QED BY <1>1, <1>2, <1>3, <1>4, <1>5, <1>6, <1>7, <1>8, <1>9, <1>10, <1>11,
           <1>12, <1>13, NextIs

-----------------------------------------------------------------------------
(* AnswersAreTrue is preserved *)

(* No new answer, and none that is overtaken. *)
LEMMA AnswersKept ==
  ASSUME AnswersAreTrue, UNCHANGED <<store, answer, outdated>>
  PROVE  AnswersAreTrue'
BY CountKept DEF AnswersAreTrue

LEMMA AnswersStep ==
  ASSUME TypeOK, InPlace, AnswersAreTrue, [Next]_vars
  PROVE  AnswersAreTrue'
<1> USE DEF counts
<1>1. ASSUME NEW u \in Users, Disconnect(u) PROVE AnswersAreTrue'
  BY <1>1, AnswersKept DEF Disconnect, handlers
<1>2. ASSUME NEW u \in Users, NEW r \in Requests, Connect(r, u) PROVE AnswersAreTrue'
  BY <1>2, AnswersKept DEF Connect
<1>3. ASSUME NEW r \in Requests, Begins(r) PROVE AnswersAreTrue'
  BY <1>3, BeginsSo, AnswersKept
<1>4. ASSUME NEW r \in Requests, Reads(r) PROVE AnswersAreTrue'
  BY <1>4, ReadsSo, AnswersKept
<1>5. ASSUME NEW r \in Requests, Saves(r) PROVE AnswersAreTrue'
  <2>1. /\ UNCHANGED answer
        /\ outdated' = [q \in Requests |->
                          outdated[q] \cup {u \in Recounted : answer[q][u] # None}]
    BY <1>5, SavesSo DEF Changes
  <2> SUFFICES ASSUME NEW q \in Requests, NEW u \in Users \ outdated'[q],
                      answer'[q][u] # None
               PROVE  answer'[q][u] = UnreadedChatsCount(u)'
    BY DEF AnswersAreTrue
  <2>2. u \notin outdated[q] /\ UnreadedChatsCount(u) = UnreadedChatsCount(u)'
    BY <2>1 DEF Recounted
  <2> QED BY <2>1, <2>2 DEF AnswersAreTrue
<1>6. ASSUME NEW r \in Requests, SaveFails(r) PROVE AnswersAreTrue'
  BY <1>6, AnswersKept DEF SaveFails
<1>7. ASSUME NEW r \in Requests, Publish(r) PROVE AnswersAreTrue'
  BY <1>7, PublishSo, AnswersKept
<1>8. ASSUME NEW r \in Requests, ListUsers(r) PROVE AnswersAreTrue'
  BY <1>8, AnswersKept DEF ListUsers
<1>9. ASSUME NEW r \in Requests, ListUsersFails(r) PROVE AnswersAreTrue'
  BY <1>9, AnswersKept DEF ListUsersFails
<1>10. ASSUME NEW r \in Requests, NEW u \in Users, Count(r, u) PROVE AnswersAreTrue'
  <2>1. /\ answer' = [answer EXCEPT ![r][u] = UnreadedChatsCount(u)]
        /\ UNCHANGED <<store, outdated>>
        /\ answer \in [Requests -> [Users -> Nat \cup {None}]]
    BY <1>10 DEF Count, TypeOK
  <2> QED BY <2>1, CountKept DEF AnswersAreTrue
<1>11. ASSUME NEW r \in Requests, NEW u \in Users, CountFails(r, u) PROVE AnswersAreTrue'
  BY <1>11, AnswersKept DEF CountFails
<1>12. ASSUME NEW r \in Requests, NEW u \in Users, Emit(r, u) PROVE AnswersAreTrue'
  <2>1. /\ answer' = [answer EXCEPT ![r][u] = None]
        /\ outdated' = [outdated EXCEPT ![r] = @ \ {u}]
        /\ UNCHANGED store
        /\ answer \in [Requests -> [Users -> Nat \cup {None}]]
        /\ outdated \in [Requests -> SUBSET Users]
    BY <1>12 DEF Emit, TypeOK
  <2> SUFFICES ASSUME NEW q \in Requests, NEW v \in Users \ outdated'[q],
                      answer'[q][v] # None
               PROVE  answer'[q][v] = UnreadedChatsCount(v)'
    BY DEF AnswersAreTrue
  <2>2. v \notin outdated[q] /\ answer'[q][v] = answer[q][v]
    BY <2>1
  <2> QED BY <2>1, <2>2, CountKept DEF AnswersAreTrue
<1>13. CASE UNCHANGED vars
  BY <1>13, AnswersKept DEF vars, store
<1> QED BY <1>1, <1>2, <1>3, <1>4, <1>5, <1>6, <1>7, <1>8, <1>9, <1>10, <1>11,
           <1>12, <1>13, NextIs

-----------------------------------------------------------------------------
(* ShownOrDue is preserved *)

(* What slot r owes to u. *)
Owes(r, u) ==
  \/ at[r] \in {"saved", "list"} /\ u \in Recipients(job[r])
  \/ u \in todo[r]
  \/ answer[r][u] # None

LEMMA PendingIsOwed == \A u : Pending(u) <=> \E r \in Requests : Owes(r, u)
BY DEF Pending, Owes

(* A step of slot r keeps what is owed to u if r owed nothing to u, or     *)
(* still does.                                                             *)
LEMMA PendingKept ==
  ASSUME NEW r \in Requests, NEW u, Pending(u),
         Owes(r, u) => Owes(r, u)',
         \A q \in Requests \ {r} : /\ at'[q] = at[q] /\ job'[q] = job[q]
                                   /\ todo'[q] = todo[q] /\ answer'[q] = answer[q]
  PROVE  Pending(u)'
<1>1. PICK q \in Requests : Owes(q, u)
  BY PendingIsOwed
<1>2. q # r => Owes(q, u)'
  BY <1>1 DEF Owes, Recipients
<1> QED BY <1>1, <1>2 DEF Pending, Owes

(* A step of slot r that leaves the tables and the screens alone.          *)
LEMMA ShownKept ==
  ASSUME ShownOrDue, NEW r \in Requests,
         UNCHANGED <<store, clients>>, missed \subseteq missed',
         \A u \in connected \ missed' : Owes(r, u) => Owes(r, u)',
         \A q \in Requests \ {r} : /\ at'[q] = at[q] /\ job'[q] = job[q]
                                   /\ todo'[q] = todo[q] /\ answer'[q] = answer[q]
  PROVE  ShownOrDue'
<1> SUFFICES ASSUME NEW u \in connected \ missed', Pending(u)
             PROVE  Pending(u)'
  BY CountKept DEF ShownOrDue, clients
<1> QED BY PendingKept

LEMMA ShownStep ==
  ASSUME Inductive, [Next]_vars
  PROVE  ShownOrDue'
<1> USE DEF Inductive
<1>1. ASSUME NEW u \in Users, Disconnect(u) PROVE ShownOrDue'
  <2>1. \A v \in connected' \ missed' :
          v \in connected \ missed /\ shown'[v] = shown[v]
    BY <1>1 DEF Disconnect, TypeOK
  <2>2. \A v : Pending(v)' <=> Pending(v)
    BY <1>1 DEF Disconnect, handlers, counts, Pending, Recipients
  <2> QED BY <1>1, <2>1, <2>2, CountKept DEF Disconnect, ShownOrDue
<1>2. ASSUME NEW u \in Users, NEW r \in Requests, Connect(r, u) PROVE ShownOrDue'
  <2>1. /\ at[r] = "idle" /\ todo[r] = {} /\ answer[r] = NoAnswers
        /\ todo'[r] = {u}
        /\ UNCHANGED store
        /\ \A q \in Requests \ {r} : /\ at'[q] = at[q] /\ job'[q] = job[q]
                                     /\ todo'[q] = todo[q] /\ answer'[q] = answer[q]
    BY <1>2 DEF Connect, InPlace, TypeOK, Goto
  <2>2. \A v \in Users : ~Owes(r, v)
    BY <2>1 DEF Owes, NoAnswers
  <2>3. Pending(u)'
    BY <2>1 DEF Pending
  <2>4. \A v \in (connected' \ missed') \ {u} :
          v \in connected \ missed /\ v \in Users /\ shown'[v] = shown[v]
    BY <1>2 DEF Connect, TypeOK
  <2>5. \A v \in (connected' \ missed') \ {u} : Pending(v) => Pending(v)'
    BY <2>1, <2>2, <2>4, PendingKept
  <2> QED BY <2>1, <2>3, <2>4, <2>5, CountKept DEF ShownOrDue
<1>3. ASSUME NEW r \in Requests, Begins(r) PROVE ShownOrDue'
  <2>1. /\ at[r] = "idle" /\ UNCHANGED <<store, clients, todo, answer, missed>>
        /\ \A q \in Requests \ {r} : at'[q] = at[q] /\ job'[q] = job[q]
    BY <1>3, BeginsSo DEF TypeOK, counts
  <2>2. \A v : Owes(r, v) => Owes(r, v)'
    BY <2>1 DEF Owes
  <2> QED BY <2>1, <2>2, ShownKept
<1>4. ASSUME NEW r \in Requests, Reads(r) PROVE ShownOrDue'
  <2>1. /\ at[r] \in {"find", "load"} /\ UNCHANGED <<store, clients, job, todo, answer, missed>>
        /\ \A q \in Requests \ {r} : at'[q] = at[q]
    BY <1>4, ReadsSo DEF TypeOK, counts
  <2>2. \A v : Owes(r, v) => Owes(r, v)'
    BY <2>1 DEF Owes
  <2> QED BY <2>1, <2>2, ShownKept
<1>5. ASSUME NEW r \in Requests, Saves(r) PROVE ShownOrDue'
  <2>1. /\ at[r] \in {"insert", "write", "remove", "drop"} /\ job[r] \in Job
        /\ Changes(r) /\ missed \subseteq missed'
    BY <1>5, SavesSo
  <2>2. /\ todo[r] = {} /\ answer[r] = NoAnswers
        /\ at'[r] = "saved" /\ UNCHANGED <<clients, job, todo, answer>>
        /\ \A q \in Requests \ {r} : at'[q] = at[q]
    BY <2>1 DEF Changes, InPlace, TypeOK, Goto
  <2> SUFFICES ASSUME NEW u \in connected \ missed'
               PROVE  Pending(u)' \/ shown[u] = UnreadedChatsCount(u)'
    BY <2>2 DEF ShownOrDue, clients
  <2>3. u \in Users /\ u \notin missed
    BY <2>1 DEF TypeOK
  <2>4. CASE u \in Recipients(job[r])
    BY <2>2, <2>4 DEF Pending, Recipients
  <2>5. CASE u \notin Recipients(job[r])
    <3>1. UnreadedChatsCount(u)' = UnreadedChatsCount(u)
      <4>1. CASE at[r] = "write" => ~Stale(r)
        <5>1. UnreadedChats(u)' = UnreadedChats(u)
          BY <1>5, <2>3, <2>5, <4>1, ChangesAreLocal
        <5> QED BY <5>1 DEF UnreadedChatsCount
      <4>2. CASE at[r] = "write" /\ Stale(r)
        <5>1. missed' = missed \cup (Recounted \ Recipients(job[r]))
          BY <1>5, <4>2 DEF Saves, Insert, Write, Remove, Drop
        <5> QED BY <2>3, <2>5, <5>1 DEF Recounted
      <4> QED BY <4>1, <4>2
    <3>2. ~Owes(r, u)
      BY <2>1, <2>2, <2>3 DEF Owes, NoAnswers
    <3>3. Pending(u) => Pending(u)'
      BY <2>2, <3>2, PendingKept
    <3> QED BY <2>3, <3>1, <3>3 DEF ShownOrDue
  <2> QED BY <2>4, <2>5
<1>6. ASSUME NEW r \in Requests, SaveFails(r) PROVE ShownOrDue'
  <2>1. /\ at[r] \notin {"saved", "list", "count"} /\ todo[r] = {} /\ answer[r] = NoAnswers
        /\ UNCHANGED <<store, clients, todo, answer, missed>>
        /\ \A q \in Requests \ {r} : at'[q] = at[q] /\ job'[q] = job[q]
    BY <1>6 DEF SaveFails, End, TypeOK, InPlace, counts
  <2>2. \A v \in connected : ~Owes(r, v)
    BY <2>1 DEF Owes, NoAnswers, TypeOK
  <2> QED BY <2>1, <2>2, ShownKept
<1>7. ASSUME NEW r \in Requests, Publish(r) PROVE ShownOrDue'
  <2>1. /\ at[r] = "saved" /\ UNCHANGED <<store, clients, answer>>
        /\ \/ /\ End(r) /\ UNCHANGED todo
              /\ missed' = missed \cup Recipients(job[r])
           \/ /\ End(r) /\ UNCHANGED <<todo, missed>> /\ job[r].op = "resend"
           \/ /\ Goto(r, "count") /\ UNCHANGED <<job, missed>> /\ job[r].op = "read"
              /\ todo' = [todo EXCEPT ![r] = {job[r].user}]
           \/ /\ Goto(r, "list") /\ UNCHANGED <<job, todo, missed>>
              /\ job[r].op \notin {"read", "resend"}
    BY <1>7, PublishSo
  <2>2. /\ todo[r] = {} /\ answer[r] = NoAnswers /\ missed \subseteq missed'
        /\ \A q \in Requests \ {r} : /\ at'[q] = at[q] /\ job'[q] = job[q]
                                     /\ todo'[q] = todo[q] /\ answer'[q] = answer[q]
    BY <2>1 DEF End, Goto, TypeOK, InPlace
  <2>3. \A v \in connected : Owes(r, v) => v \in Recipients(job[r])
    BY <2>2 DEF Owes, NoAnswers, TypeOK
  <2>4. CASE missed' = missed \cup Recipients(job[r])
    BY <2>1, <2>2, <2>3, <2>4, ShownKept
  <2>5. CASE job[r].op = "resend"
    <3>1. \A v \in connected : ~Owes(r, v)
      BY <2>3, <2>5 DEF Recipients
    <3> QED BY <2>1, <2>2, <3>1, ShownKept
  <2>6. CASE /\ job[r].op = "read"
             /\ todo' = [todo EXCEPT ![r] = {job[r].user}]
    <3>1. todo'[r] = Recipients(job[r])
      BY <2>6 DEF Recipients, TypeOK
    <3>2. \A v \in connected : Owes(r, v) => Owes(r, v)'
      BY <2>3, <3>1 DEF Owes
    <3> QED BY <2>1, <2>2, <3>2, ShownKept
  <2>7. CASE Goto(r, "list") /\ UNCHANGED job
    <3>1. at'[r] = "list" /\ job'[r] = job[r]
      BY <2>7 DEF Goto, TypeOK
    <3>2. \A v \in connected : Owes(r, v) => Owes(r, v)'
      BY <2>3, <3>1 DEF Owes, Recipients
    <3> QED BY <2>1, <2>2, <3>2, ShownKept
  <2> QED BY <2>1, <2>4, <2>5, <2>6, <2>7
<1>8. ASSUME NEW r \in Requests, ListUsers(r) PROVE ShownOrDue'
  <2>1. /\ at[r] = "list" /\ todo[r] = {} /\ answer[r] = NoAnswers
        /\ job[r].op \notin {"read", "resend"}
        /\ UNCHANGED <<store, clients, answer, missed>>
        /\ \A q \in Requests \ {r} : /\ at'[q] = at[q] /\ job'[q] = job[q]
                                     /\ todo'[q] = todo[q] /\ answer'[q] = answer[q]
    BY <1>8 DEF ListUsers, End, Goto, TypeOK, InPlace
  <2>2. todo'[r] = Recipients(job[r])
    BY <1>8, <2>1 DEF ListUsers, UsersInChat, Recipients, TypeOK
  <2>3. \A v \in connected : Owes(r, v) => Owes(r, v)'
    BY <2>1, <2>2 DEF Owes, NoAnswers, TypeOK
  <2> QED BY <2>1, <2>3, ShownKept
<1>9. ASSUME NEW r \in Requests, ListUsersFails(r) PROVE ShownOrDue'
  <2>1. /\ at[r] = "list" /\ todo[r] = {} /\ answer[r] = NoAnswers
        /\ UNCHANGED <<store, clients, todo, answer>>
        /\ missed' = missed \cup Recipients(job[r])
        /\ \A q \in Requests \ {r} : at'[q] = at[q] /\ job'[q] = job[q]
    BY <1>9 DEF ListUsersFails, End, TypeOK, InPlace
  <2>2. \A v \in connected \ missed' : ~Owes(r, v)
    BY <2>1 DEF Owes, NoAnswers, TypeOK
  <2> QED BY <2>1, <2>2, ShownKept
<1>10. ASSUME NEW r \in Requests, NEW u \in Users, Count(r, u) PROVE ShownOrDue'
  <2>1. /\ todo' = [todo EXCEPT ![r] = @ \ {u}]
        /\ answer' = [answer EXCEPT ![r][u] = UnreadedChatsCount(u)]
        /\ UNCHANGED <<store, clients, job, at, missed>>
        /\ \A q \in Requests \ {r} : todo'[q] = todo[q] /\ answer'[q] = answer[q]
    BY <1>10 DEF Count, TypeOK
  <2>2. UnreadedChatsCount(u) # None
    BY CountInNat, UnreadCounterAssumption
  <2>3. /\ todo'[r] = todo[r] \ {u}
        /\ answer'[r] = [answer[r] EXCEPT ![u] = UnreadedChatsCount(u)]
        /\ answer[r] \in [Users -> Nat \cup {None}]
        /\ connected \subseteq Users
    BY <2>1 DEF TypeOK
  <2>4. \A v \in connected : Owes(r, v) => Owes(r, v)'
    BY <2>1, <2>2, <2>3 DEF Owes, Recipients
  <2> QED BY <2>1, <2>4, ShownKept
<1>11. ASSUME NEW r \in Requests, NEW u \in Users, CountFails(r, u) PROVE ShownOrDue'
  <2>1. /\ at[r] = "count" /\ todo'[r] = todo[r] \ {u} /\ UNCHANGED <<store, answer>>
        /\ missed' = missed \cup {u}
        /\ \A q \in Requests \ {r} : /\ at'[q] = at[q] /\ job'[q] = job[q]
                                     /\ todo'[q] = todo[q] /\ answer'[q] = answer[q]
    BY <1>11 DEF CountFails, EndOrWait, End, TypeOK, InPlace
  <2>2. \A v \in connected' \ missed' :
          v \in connected \ missed /\ v # u /\ shown'[v] = shown[v]
    BY <1>11, <2>1 DEF CountFails, clients, TypeOK
  <2>3. \A v \in connected' \ missed' : Owes(r, v) => Owes(r, v)'
    BY <2>1, <2>2 DEF Owes
  <2>4. \A v \in connected' \ missed' : Pending(v) => Pending(v)'
    BY <2>1, <2>3, PendingKept
  <2> QED BY <2>1, <2>2, <2>4, CountKept DEF ShownOrDue
<1>12. ASSUME NEW r \in Requests, NEW u \in Users, Emit(r, u) PROVE ShownOrDue'
  <2>1. /\ at[r] = "count" /\ UNCHANGED <<store, connected, todo>>
        /\ missed' = IF u \in outdated[r] THEN missed \cup {u} ELSE missed \ {u}
        /\ answer' = [answer EXCEPT ![r][u] = None] /\ answer[r][u] # None
        /\ shown' = IF u \in connected THEN [shown EXCEPT ![u] = answer[r][u]] ELSE shown
        /\ \A q \in Requests \ {r} : /\ at'[q] = at[q] /\ job'[q] = job[q]
                                     /\ todo'[q] = todo[q] /\ answer'[q] = answer[q]
    BY <1>12 DEF Emit, EndOrWait, End, TypeOK, InPlace, NoAnswers
  <2>2. \A v \in connected \ {u} : shown'[v] = shown[v] /\ answer'[r][v] = answer[r][v]
    BY <2>1 DEF TypeOK
  <2>3. \A v \in connected \ {u} : Owes(r, v) => Owes(r, v)'
    BY <2>1, <2>2 DEF Owes
  <2>4. \A v \in connected \ {u} : Pending(v) => Pending(v)'
    BY <2>1, <2>3, PendingKept
  <2>5. u \in connected \ missed' => shown'[u] = UnreadedChatsCount(u)
    <3> SUFFICES ASSUME u \in connected, u \notin missed'
                 PROVE  shown'[u] = UnreadedChatsCount(u)
      OBVIOUS
    <3>1. u \notin outdated[r]
      BY <2>1
    <3> QED BY <2>1, <3>1 DEF AnswersAreTrue, TypeOK
  <2>6. \A v \in connected' \ missed' : v # u => v \in connected \ missed
    BY <2>1
  <2> QED BY <2>1, <2>2, <2>4, <2>5, <2>6, CountKept DEF ShownOrDue
<1>13. CASE UNCHANGED vars
  <2>1. \A v : Pending(v)' <=> Pending(v)
    BY <1>13 DEF vars, Pending, Recipients
  <2> QED BY <1>13, <2>1, CountKept DEF vars, store, ShownOrDue
<1> QED BY <1>1, <1>2, <1>3, <1>4, <1>5, <1>6, <1>7, <1>8, <1>9, <1>10, <1>11,
           <1>12, <1>13, NextIs

-----------------------------------------------------------------------------
(* The theorems *)

LEMMA InductiveInit == Init => Inductive
BY TypeInit, PlaceInit, HomeInit
DEF Inductive, Init, AnswersAreTrue, ShownOrDue, NoAnswers

LEMMA InductiveStep == Inductive /\ [Next]_vars => Inductive'
BY TypeStep, PlaceStep, HomeStep, AnswersStep, ShownStep DEF Inductive

LEMMA AlwaysInductive == Spec => []Inductive
BY InductiveInit, InductiveStep, PTL DEF Spec

(* The two ways of saying what is unread are one. *)
LEMMA ToReadIsUnread == ASSUME NEW u PROVE ToRead(u) = UnreadedChats(u)
BY DEF ToRead, UnreadedChats, Unread

(* Every variable keeps its type: the slots of the handlers, the answers   *)
(* of getUserUnreadedChatsCount and the numbers the clients show.          *)
THEOREM TypeCorrect == Spec => []TypeOK
BY AlwaysInductive, PTL DEF Inductive

(* However the finds, saves, counts and publications of any handlers for   *)
(* any users interleave, a number on a screen that no update will replace  *)
(* is the number of chats with messages to read, unless, and no answer has *)
(* come since, the last answer published was overtaken by a change, a      *)
(* handler stopped between its change and its publications, or a save of   *)
(* copies that were no longer the rows changed the number of a user for    *)
(* whom its handler does not count.                                        *)
THEOREM ShownRight == Spec => []ShownIsRight
<1>1. Inductive => ShownIsRight
  <2> SUFFICES ASSUME Inductive, NEW u \in connected \ missed, ~Pending(u)
               PROVE  shown[u] = Cardinality(ToRead(u))
    BY DEF ShownIsRight
  <2>1. shown[u] = UnreadedChatsCount(u)
    BY DEF Inductive, ShownOrDue
  <2> QED BY <2>1, ToReadIsUnread DEF UnreadedChatsCount
<1> QED BY <1>1, AlwaysInductive, PTL

(* For any users, chats and messages, the badge of getChats and the count  *)
(* of getUserUnreadedChatsCount differ only about messages that the user   *)
(* and somebody else have read.                                            *)
THEOREM BadgesRight == Spec => []BadgesAgree
<1>1. TypeOK => BadgesAgree
  <2> SUFFICES ASSUME TypeOK, NEW c \in chats, NEW u \in Members[c]
               PROVE  /\ c \in UnreadedChats(u) => IsNotReadMessages(u, c) # {}
                      /\ \A m \in IsNotReadMessages(u, c) :
                           \/ c \in UnreadedChats(u)
                           \/ u \in messages[m].readers /\ messages[m].readers # {u}
    BY DEF BadgesAgree
  <2>1. c \in UnreadedChats(u) => IsNotReadMessages(u, c) # {}
    BY DEF UnreadedChats, IsNotReadMessages, Unread, NotRead
  <2>2. ASSUME NEW m \in IsNotReadMessages(u, c), c \notin UnreadedChats(u)
        PROVE  u \in messages[m].readers /\ messages[m].readers # {u}
    <3>1. m \in RowsOf(c) /\ NotRead(messages[m], u) /\ ~Unread(messages[m], u)
      BY <2>2 DEF UnreadedChats, IsNotReadMessages
    <3> QED BY <3>1 DEF Unread, NotRead
  <2> QED BY <2>1, <2>2
<1> QED BY <1>1, TypeCorrect, PTL
=============================================================================
