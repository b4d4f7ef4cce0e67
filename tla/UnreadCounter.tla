---------------------------- MODULE UnreadCounter ----------------------------
(***************************************************************************)
(* The number of chats with unread messages that a client shows: the last  *)
(* UNREADED_CHATS_COUNT event that reached it.  Handlers that change what  *)
(* is unread count again afterwards, one query per user, and publish each  *)
(* answer when it arrives; nothing orders the answers of two handlers.     *)
(*                                                                         *)
(* The database calls of a handler are as in MessageStore: what it finds,  *)
(* what its save loads and what it writes are steps of their own, and a    *)
(* save of copies found too early may change the number of users whom the  *)
(* handler does not think of.                                              *)
(***************************************************************************)
EXTENDS FiniteSets, Naturals

CONSTANTS
  Users,     \* user ids
  Chats,     \* ids of the chats that exist when the model starts
  Messages,  \* message ids the database may generate
  Requests,  \* slots for handlers
  Members,   \* Members[c]: the users of chat c
  Ops,       \* the handlers that clients call
  Faults,    \* what may happen besides: a subset of AllFaults
  FilesRelation,  \* find answers to relations {files}: see MessageStore
  Absent,    \* no row
  None       \* no number: nothing shown, no answer

(* change-status-messages and edit-message, which save the rows they find  *)
(* and change nothing that counts, are "resend".                           *)
AllOps == {"create", "read", "resend", "delete", "clear", "drop"}

(* A client goes away, a query is rejected. *)
AllFaults == {"disconnect", "reject"}

(* A row of "messages"; the null readersIds is the empty set. *)
Row == [chat : Chats, user : Users, readers : SUBSET Users]
Table == [Messages -> Row \cup {Absent}]

ASSUME UnreadCounterAssumption ==
  /\ Members \in [Chats -> SUBSET Users]
  /\ Ops \subseteq AllOps
  /\ Faults \subseteq AllFaults
  /\ FilesRelation \in BOOLEAN
  /\ Absent \notin Row
  /\ None \notin Nat
  /\ IsFiniteSet(Chats)

VARIABLES
  chats,      \* the chats that exist
  messages,   \* the table "messages"
  unused,     \* the ids no row has had
  connected,  \* the users with a connected socket
  shown,      \* shown[u]: the number the client of u shows
  job,        \* what the handler in each slot was asked
  at,         \* where it is
  found,      \* the entities its find returned
  loaded,     \* the rows its save loaded
  todo,       \* the users whose count it is still waiting for
  answer,     \* answer[r][u]: the count it has and has not published
  (* History variables: read by the property only. *)
  outdated,   \* outdated[r]: users whose answer in r a save has overtaken
  missed      \* users whose last update was outdated, or was never sent

store    == <<chats, messages, unused>>
clients  == <<connected, shown>>
copies   == <<found, loaded>>
counts   == <<todo, answer, outdated>>
handlers == <<job, at, copies, counts>>
vars == <<chats, messages, unused, connected, shown, job, at, found, loaded,
          todo, answer, outdated, missed>>

Job == [op : AllOps \cup {"connect"}, user : Users, chat : Chats,
        ids : SUBSET Messages]

NoAnswers == [u \in Users |-> None]
Present == {m \in Messages : messages[m] # Absent}

Nothing == [m \in Messages |-> Absent]
Pick(S) == [m \in Messages |-> IF m \in S THEN messages[m] ELSE Absent]

Places == {"idle", "insert", "find", "load", "write", "remove", "drop", "saved",
           "list", "count"}

TypeOK ==
  /\ chats \in SUBSET Chats
  /\ messages \in Table
  /\ unused \in SUBSET Messages
  /\ connected \in SUBSET Users
  /\ shown \in [Users -> Nat \cup {None}]
  /\ job \in [Requests -> Job \cup {Absent}]
  /\ at \in [Requests -> Places]
  /\ found \in [Requests -> Table]
  /\ loaded \in [Requests -> Table]
  /\ todo \in [Requests -> SUBSET Users]
  /\ answer \in [Requests -> [Users -> Nat \cup {None}]]
  /\ outdated \in [Requests -> SUBSET Users]
  /\ missed \in SUBSET Users

Init ==
  /\ chats = Chats
  /\ messages = Nothing
  /\ unused = Messages
  /\ connected = {}
  /\ shown = [u \in Users |-> None]
  /\ job = [r \in Requests |-> Absent]
  /\ at = [r \in Requests |-> "idle"]
  /\ found = [r \in Requests |-> Nothing]
  /\ loaded = [r \in Requests |-> Nothing]
  /\ todo = [r \in Requests |-> {}]
  /\ answer = [r \in Requests |-> NoAnswers]
  /\ outdated = [r \in Requests |-> {}]
  /\ missed = {}

-----------------------------------------------------------------------------
(* Helpers *)

RowsOf(c) == {m \in Present : messages[m].chat = c}

(* readersIds IS NULL OR :userId <> ALL (readersIds), userId <> :userId *)
Unread(row, u) == row.user # u /\ (row.readers = {} \/ \A v \in row.readers : u # v)

(* getUserUnreadedChatsCount: COUNT(DISTINCT(chats.id)) of the join. *)
UnreadedChats(u) ==
  {c \in chats : u \in Members[c] /\ \E m \in RowsOf(c) : Unread(messages[m], u)}
UnreadedChatsCount(u) == Cardinality(UnreadedChats(u))

(* The messages of c that getChats counts for u (isNotReadMessagesCount):  *)
(* userId != :userId, and :userId != ANY (readersIds) or it is NULL.       *)
NotReadNoNull(row, u) == row.user # u /\ \E v \in row.readers : u # v
NotRead(row, u) ==
  row.user # u /\ (row.readers = {} \/ \E v \in row.readers : u # v)
IsNotReadMessages(u, c) == {m \in RowsOf(c) : NotRead(messages[m], u)}

(* Those for whom a handler will count. *)
Recipients(j) ==
  CASE j.op = "read" -> {j.user} [] j.op = "resend" -> {} [] OTHER -> Members[j.chat]

(* An update for u is under way. *)
Pending(u) ==
  \E r \in Requests :
    \/ at[r] \in {"saved", "list"} /\ u \in Recipients(job[r])
    \/ u \in todo[r]
    \/ answer[r][u] # None

End(r) ==
  /\ at' = [at EXCEPT ![r] = "idle"]
  /\ job' = [job EXCEPT ![r] = Absent]

Goto(r, where) == at' = [at EXCEPT ![r] = where]

(* Slot r lets go of its copies. *)
Forget(r) ==
  /\ found' = [found EXCEPT ![r] = Nothing]
  /\ loaded' = [loaded EXCEPT ![r] = Nothing]

-----------------------------------------------------------------------------
(* handleConnection: the socket joins the room of its user and only then   *)
(* counts.  A client that has just connected shows nothing yet.            *)
Connect(r, u) ==
  /\ at[r] = "idle"
  /\ u \notin connected
  /\ connected' = connected \cup {u}
  /\ shown' = [shown EXCEPT ![u] = None]
  /\ \E c \in Chats :  \* not looked at
       job' = [job EXCEPT ![r] = [op |-> "connect", user |-> u, chat |-> c,
                                  ids |-> {}]]
  /\ Goto(r, "count")
  /\ todo' = [todo EXCEPT ![r] = {u}]
  /\ UNCHANGED <<store, copies, answer, outdated, missed>>

Disconnect(u) ==
  /\ "disconnect" \in Faults
  /\ u \in connected
  /\ connected' = connected \ {u}
  /\ shown' = [shown EXCEPT ![u] = None]
  /\ UNCHANGED <<store, handlers, missed>>

-----------------------------------------------------------------------------
(* What the handlers do to the tables *)

(* A client calls a handler, about messages of the chat it has been shown; *)
(* getChatById finds the chat.                                             *)
Begin(r, j, where) ==
  /\ at[r] = "idle"
  /\ j.op \in Ops
  /\ j.user \in connected
  /\ j.chat \in chats
  /\ job' = [job EXCEPT ![r] = j]
  /\ Goto(r, where)
  /\ UNCHANGED <<store, clients, loaded, counts, missed>>

IsMember(j) == j.user \in Members[j.chat]

Start(r, op, u, c, ids) ==
  LET j == [op |-> op, user |-> u, chat |-> c, ids |-> ids]
  IN  /\ ids \subseteq RowsOf(c)
      /\ CASE op \in {"read", "resend"} -> ids # {} /\ Begin(r, j, "find")
           [] op = "delete" -> Cardinality(ids) = 1 /\ IsMember(j) /\ Begin(r, j, "find")
           [] op = "create" -> ids = {} /\ Begin(r, j, "insert")
           [] op = "drop" -> ids = {} /\ IsMember(j) /\ Begin(r, j, "drop")
           [] OTHER -> FALSE
      /\ UNCHANGED found

(* clear-chat loads the chat with its messages; with none to remove it     *)
(* goes on to publish.                                                     *)
StartClear(r, u, c) ==
  LET j == [op |-> "clear", user |-> u, chat |-> c, ids |-> {}]
  IN  /\ IsMember(j)
      /\ Begin(r, j, IF RowsOf(c) = {} THEN "saved" ELSE "remove")
      /\ found' = [found EXCEPT ![r] = Pick(RowsOf(c))]

(* The tables change.  An answer that another handler holds is published   *)
(* all the same when it is no longer true.                                 *)
Recounted == {u \in Users : UnreadedChatsCount(u) # UnreadedChatsCount(u)'}
Changes(r) ==
  /\ Goto(r, "saved")
  /\ Forget(r)
  /\ outdated' = [q \in Requests |->
                    outdated[q] \cup {u \in Recounted : answer[q][u] # None}]
  /\ UNCHANGED <<clients, job, todo, answer>>

NewRowNoUser(j) == [chat |-> j.chat, user |-> Absent, readers |-> {}]
NewRow(j) == [chat |-> j.chat, user |-> j.user, readers |-> {}]

Insert(r) ==
  /\ at[r] = "insert"
  /\ job[r].chat \in chats
  /\ \E m \in unused :
       /\ messages' = [messages EXCEPT ![m] = NewRow(job[r])]
       /\ unused' = unused \ {m}
  /\ UNCHANGED <<chats, missed>>
  /\ Changes(r)

(* read-messages finds no messages of the reader, delete-message (by       *)
(* findOneOrFail) only one that is there.                                  *)
Matches(j, row) == j.op = "read" => row.user # j.user

Find(r) ==
  LET rows == {m \in job[r].ids \cap Present : Matches(job[r], messages[m])}
  IN  /\ at[r] = "find"
      /\ IF job[r].op = "delete" THEN rows # {} ELSE FilesRelation
      /\ found' = [found EXCEPT ![r] = Pick(rows)]
      /\ Goto(r, IF job[r].op = "delete" THEN "remove" ELSE "load")
      /\ UNCHANGED <<store, clients, job, loaded, counts, missed>>

Edited(j, row) ==
  IF j.op = "read" THEN [row EXCEPT !.readers = @ \cup {j.user}] ELSE row

(* save, first half: SELECT *)
Load(r) ==
  /\ at[r] = "load"
  /\ loaded' = [loaded EXCEPT ![r] = Pick({m \in Messages : found[r][m] # Absent})]
  /\ Goto(r, "write")
  /\ UNCHANGED <<store, clients, job, found, counts, missed>>

(* UPDATE writes readersIds when the entity differs from the loaded row; a *)
(* readersIds that is not null may be taken for changed though it is not.  *)
Updated(now, was, entity, byReference) ==
  IF entity.readers # was.readers \/ (byReference /\ entity.readers # {})
    THEN [now EXCEPT !.readers = entity.readers] ELSE now

(* The entities are no longer the rows, in the table or as loaded.         *)
Stale(r) ==
  \E m \in Messages :
    found[r][m] # Absent /\ (messages[m] # found[r][m] \/ loaded[r][m] # found[r][m])

(* save, second half: INSERT of what the SELECT did not return, which the  *)
(* foreign key or the primary key may refuse (see SaveFails), and UPDATE.  *)
(* When others have changed the rows meanwhile, the number of users may    *)
(* change for whom the handler does not count.                             *)
Write(r) ==
  LET entities == {m \in Messages : found[r][m] # Absent}
      inserts == {m \in entities : loaded[r][m] = Absent}
      entity(m) == Edited(job[r], found[r][m])
  IN  /\ at[r] = "write"
      /\ \A m \in inserts : found[r][m].chat \in chats /\ messages[m] = Absent
      /\ \E byReference \in BOOLEAN :
           messages' = [m \in Messages |->
             CASE m \in inserts -> entity(m)
               [] m \in (entities \ inserts) \cap Present ->
                    Updated(messages[m], loaded[r][m], entity(m), byReference)
               [] OTHER -> messages[m]]
      /\ UNCHANGED <<chats, unused>>
      /\ Changes(r)
      /\ missed' = IF Stale(r) THEN missed \cup (Recounted \ Recipients(job[r]))
                               ELSE missed

(* repository.remove: DELETE by id. *)
Remove(r) ==
  /\ at[r] = "remove"
  /\ messages' = [m \in Messages |->
                    IF found[r][m] # Absent THEN Absent ELSE messages[m]]
  /\ UNCHANGED <<chats, unused, missed>>
  /\ Changes(r)

(* The chat goes, and its messages with it. *)
Drop(r) ==
  /\ at[r] = "drop"
  /\ chats' = chats \ {job[r].chat}
  /\ messages' = [m \in Messages |->
                    IF m \in RowsOf(job[r].chat) THEN Absent ELSE messages[m]]
  /\ UNCHANGED <<unused, missed>>
  /\ Changes(r)

(* The operation is refused, or a query of it is rejected.                 *)
SaveFails(r) ==
  /\ at[r] \in {"insert", "find", "load", "write", "remove", "drop"}
  /\ End(r)
  /\ Forget(r)
  /\ UNCHANGED <<store, clients, counts, missed>>

-----------------------------------------------------------------------------
(* What they count and publish afterwards *)

(* Back in the handler.  The log line calls getSocket(userId).id, which    *)
(* throws when the caller is gone: then nobody's number is counted again.  *)
(* Otherwise read-messages counts for the reader, change-status-messages   *)
(* and edit-message for nobody, the others ask for the users of the chat.  *)
Publish(r) ==
  /\ at[r] = "saved"
  /\ IF job[r].user \notin connected
       THEN /\ End(r)
            /\ missed' = missed \cup Recipients(job[r])
            /\ UNCHANGED todo
       ELSE /\ CASE job[r].op = "read" ->
                       /\ Goto(r, "count")
                       /\ todo' = [todo EXCEPT ![r] = {job[r].user}]
                       /\ UNCHANGED job
                 [] job[r].op = "resend" -> End(r) /\ UNCHANGED todo
                 [] OTHER -> Goto(r, "list") /\ UNCHANGED <<job, todo>>
            /\ UNCHANGED missed
  /\ UNCHANGED <<store, clients, copies, answer, outdated>>

(* getUsersIdInChat, which throws when the chat is gone: always so in      *)
(* delete-chat.  A rejected query does the same.                           *)
UsersInOthers(j) == Members[j.chat] \ {j.user}
UsersInChat(j) == Members[j.chat]
ListUsers(r) ==
  /\ at[r] = "list"
  /\ job[r].chat \in chats
  /\ todo' = [todo EXCEPT ![r] = UsersInChat(job[r])]
  /\ IF UsersInChat(job[r]) = {} THEN End(r) ELSE Goto(r, "count") /\ UNCHANGED job
  /\ UNCHANGED <<store, copies, clients, answer, outdated, missed>>

ListUsersFails(r) ==
  /\ at[r] = "list"
  /\ job[r].chat \notin chats \/ "reject" \in Faults
  /\ End(r)
  /\ missed' = missed \cup Recipients(job[r])
  /\ UNCHANGED <<store, copies, clients, todo, answer, outdated>>

(* The query of emitUnreadedChatsCountForOneUser is evaluated. *)
Count(r, u) ==
  /\ u \in todo[r]
  /\ todo' = [todo EXCEPT ![r] = @ \ {u}]
  /\ answer' = [answer EXCEPT ![r][u] = UnreadedChatsCount(u)]
  /\ UNCHANGED <<store, copies, clients, job, at, outdated, missed>>

(* The last user of the Promise.all is done with. *)
Last(r, u) == todo[r] \subseteq {u} /\ \A v \in Users \ {u} : answer[r][v] = None

EndOrWait(r, u) == IF Last(r, u) THEN End(r) ELSE UNCHANGED <<at, job>>

(* It is rejected.  The counts of the other users go on; a client that is  *)
(* connecting is disconnected.                                             *)
CountFails(r, u) ==
  /\ "reject" \in Faults
  /\ u \in todo[r]
  /\ todo' = [todo EXCEPT ![r] = @ \ {u}]
  /\ EndOrWait(r, u)
  /\ missed' = missed \cup {u}
  /\ IF job[r].op = "connect"
       THEN /\ connected' = connected \ {u}
            /\ shown' = [shown EXCEPT ![u] = None]
       ELSE UNCHANGED clients
  /\ UNCHANGED <<store, copies, answer, outdated>>

(* Its answer is published to the room of the user. *)
Emit(r, u) ==
  /\ answer[r][u] # None
  /\ answer' = [answer EXCEPT ![r][u] = None]
  /\ shown' = IF u \in connected THEN [shown EXCEPT ![u] = answer[r][u]] ELSE shown
  /\ EndOrWait(r, u)
  /\ missed' = IF u \in outdated[r] THEN missed \cup {u} ELSE missed \ {u}
  /\ outdated' = [outdated EXCEPT ![r] = @ \ {u}]
  /\ UNCHANGED <<store, copies, connected, todo>>

-----------------------------------------------------------------------------
Next ==
  \/ \E u \in Users : Disconnect(u) \/ \E r \in Requests : Connect(r, u)
  \/ \E r \in Requests :
       \/ \E u \in Users, c \in Chats :
            \/ \E op \in Ops, ids \in SUBSET Messages : Start(r, op, u, c, ids)
            \/ StartClear(r, u, c)
       \/ Insert(r) \/ Find(r) \/ Load(r) \/ Write(r) \/ Remove(r) \/ Drop(r)
       \/ SaveFails(r)
       \/ Publish(r)
       \/ ListUsers(r)
       \/ ListUsersFails(r)
       \/ \E u \in Users : Count(r, u) \/ CountFails(r, u) \/ Emit(r, u)

Spec == Init /\ [][Next]_vars

-----------------------------------------------------------------------------
(* Properties *)

(* What the number stands for: a message counts until u reads it. *)
ToRead(u) ==
  {c \in chats : u \in Members[c] /\
     \E m \in RowsOf(c) : messages[m].user # u /\ u \notin messages[m].readers}

(* The number on the screen is right whenever nothing is under way for its *)
(* user, however many handlers have run at once, unless the last answer    *)
(* published to the user was overtaken by a change while it waited, or an  *)
(* update has been dropped since (a handler stopped between its change and *)
(* its publications), or a save of copies that others had changed meanwhile*)
(* has since changed the number of a user for whom its handler does not    *)
(* count.  The next answer that is not overtaken, of a handler or of a new *)
(* connection, makes good for everything before it.                        *)
ShownIsRight ==
  \A u \in connected \ missed : ~Pending(u) => shown[u] = Cardinality(ToRead(u))

(* The two queries of what is unread agree: a chat that counts has a badge *)
(* in the list of chats, and one with a badge counts, unless the user has  *)
(* read the messages with the badge, and others have too.                  *)
BadgesAgree ==
  \A c \in chats : \A u \in Members[c] :
    /\ c \in UnreadedChats(u) => IsNotReadMessages(u, c) # {}
    /\ \A m \in IsNotReadMessages(u, c) :
         \/ c \in UnreadedChats(u)
         \/ u \in messages[m].readers /\ messages[m].readers # {u}
=============================================================================
