----------------------------- MODULE MessageFeed -----------------------------
(***************************************************************************)
(* What the members of a chat see of its messages.  A client gets them     *)
(* with GET /chats (getChats) and keeps them up to date with the events    *)
(* that handlers publish to the room of the chat after they have changed   *)
(* the tables.  Nothing orders the list, the joining of the room and the   *)
(* events of two handlers.                                                 *)
(*                                                                         *)
(* The database calls of a handler are as in MessageStore: what it finds,  *)
(* what its save loads and what it writes are steps of their own.  So it   *)
(* may save copies that others have changed since, and what it publishes   *)
(* are those copies.                                                       *)
(*                                                                         *)
(* The client is external: it applies events in the order they come, also  *)
(* those that come while it waits for its list.                            *)
(***************************************************************************)
EXTENDS FiniteSets

CONSTANTS
  Users,     \* the members of the chat; each has one client
  Messages,  \* message ids the database may generate
  Requests,  \* slots for handlers
  Ops,       \* the handlers that clients call
  FilesRelation,  \* find answers to relations {files}: see MessageStore
  Absent     \* no row

AllOps == {"create", "read", "resend", "delete", "clear", "drop"}

(* A row of "messages".  Its status is left out: change-status-messages    *)
(* and edit-message, which publish the rows they have saved, are "resend". *)
Row == [user : Users, readers : SUBSET Users]
Table == [Messages -> Row \cup {Absent}]

(* "created" adds its row to a list, "rows" replaces those that are there, *)
(* "deleted" removes them, and "emptied" (CLEARED_CHAT and DELETED_CHAT)   *)
(* removes all.                                                            *)
Event == [kind : {"created", "rows", "deleted", "emptied"}, rows : Table]

ASSUME MessageFeedAssumption ==
  /\ Ops \subseteq AllOps
  /\ FilesRelation \in BOOLEAN
  /\ Absent \notin Row
  /\ Absent \notin Event

VARIABLES
  chat,       \* the chat exists
  messages,   \* the rows of its messages
  unused,     \* the ids no row has had
  job,        \* what the handler in each slot was asked
  at,         \* where it is
  found,      \* the entities its find returned
  loaded,     \* the rows its save loaded
  event,      \* what it will publish
  connected,  \* the users with a connected socket
  joined,     \* those whose socket is in the room of the chat
  listed,     \* those whose client has been sent its list
  view,       \* view[u]: the messages the client of u shows
  (* History variables: read by the properties only. *)
  later,      \* later[r]: the handlers that changed what r did after r
  outdated,   \* outdated[r]: messages of which r's event is not the last word
  missed      \* <<u, m>>: an event about m did not reach u, or was outdated

tables   == <<chat, messages, unused>>
copies   == <<found, loaded>>
handlers == <<job, at, copies, event>>
clients  == <<connected, joined, listed, view>>
vars == <<chat, messages, unused, job, at, found, loaded, event, connected,
          joined, listed, view, later, outdated, missed>>

Nothing == [m \in Messages |-> Absent]
Present == {m \in Messages : messages[m] # Absent}
Pick(S) == [m \in Messages |-> IF m \in S THEN messages[m] ELSE Absent]

Job == [op : AllOps, user : Users, ids : SUBSET Messages]

Places == {"idle", "insert", "find", "load", "write", "delete", "remove", "drop",
           "publish"}

TypeOK ==
  /\ chat \in BOOLEAN
  /\ messages \in Table
  /\ unused \in SUBSET (Messages \ Present)
  /\ job \in [Requests -> Job \cup {Absent}]
  /\ at \in [Requests -> Places]
  /\ \A r \in Requests : at[r] # "idle" => job[r] \in Job
  /\ found \in [Requests -> Table]
  /\ loaded \in [Requests -> Table]
  /\ event \in [Requests -> Event \cup {Absent}]
  /\ \A r \in Requests : at[r] \in {"remove", "publish"} <=> event[r] # Absent
  /\ connected \in SUBSET Users
  /\ joined \in SUBSET connected
  /\ listed \in SUBSET connected
  /\ view \in [Users -> Table]
  /\ later \in [Requests -> SUBSET Requests]
  /\ outdated \in [Requests -> SUBSET Messages]
  /\ missed \in SUBSET (Users \X Messages)

Init ==
  /\ chat = TRUE
  /\ messages = Nothing
  /\ unused = Messages
  /\ job = [r \in Requests |-> Absent]
  /\ at = [r \in Requests |-> "idle"]
  /\ found = [r \in Requests |-> Nothing]
  /\ loaded = [r \in Requests |-> Nothing]
  /\ event = [r \in Requests |-> Absent]
  /\ connected = {}
  /\ joined = {}
  /\ listed = {}
  /\ view = [u \in Users |-> Nothing]
  /\ later = [r \in Requests |-> {}]
  /\ outdated = [r \in Requests |-> {}]
  /\ missed = {}

-----------------------------------------------------------------------------
(* Helpers *)

(* The messages whose place in the lists an event settles. *)
About(e) == IF e.kind = "emptied" THEN Messages
            ELSE {m \in Messages : e.rows[m] # Absent}

(* What a client makes of an event. *)
Applied(list, e) ==
  [m \in Messages |->
     CASE e.kind = "created" /\ m \in About(e) -> e.rows[m]
       [] e.kind = "rows" /\ m \in About(e) /\ list[m] # Absent -> e.rows[m]
       [] e.kind \in {"deleted", "emptied"} /\ m \in About(e) -> Absent
       [] OTHER -> list[m]]

(* Handlers that have changed some of T, or found them to clear, and not   *)
(* yet published.                                                          *)
Owing(T) ==
  {q \in Requests : event[q] # Absent /\ About(event[q]) \cap T # {}}

Goto(r, where) == at' = [at EXCEPT ![r] = where]

(* Slot r lets go of its copies. *)
Forget(r) ==
  /\ found' = [found EXCEPT ![r] = Nothing]
  /\ loaded' = [loaded EXCEPT ![r] = Nothing]

End(r) ==
  /\ job' = [job EXCEPT ![r] = Absent]
  /\ Goto(r, "idle")
  /\ Forget(r)
  /\ event' = [event EXCEPT ![r] = Absent]
  /\ later' = [q \in Requests |-> IF q = r THEN {} ELSE later[q] \ {r}]

(* No event of an earlier change is of use after that of r, published or   *)
(* lost.                                                                   *)
Overtake(r) ==
  outdated' = [q \in Requests |->
    IF q = r THEN {}
    ELSE IF r \in later[q] THEN outdated[q] \cup About(event[r])
    ELSE outdated[q]]

(* From now on slot r is to publish e, after whoever owes an event about   *)
(* the same messages.                                                      *)
Owe(r, e) ==
  /\ event' = [event EXCEPT ![r] = e]
  /\ later' = [q \in Requests |->
                 IF q \in Owing(About(e)) THEN later[q] \cup {r} ELSE later[q]]

-----------------------------------------------------------------------------
(* The handlers, up to their publication *)

(* A client calls a handler, about messages it has been shown; getChatById *)
(* finds the chat.                                                         *)
Begin(r, op, u, ids, where) ==
  /\ at[r] = "idle"
  /\ op \in Ops
  /\ u \in connected
  /\ chat
  /\ job' = [job EXCEPT ![r] = [op |-> op, user |-> u, ids |-> ids]]
  /\ Goto(r, where)
  /\ UNCHANGED <<tables, loaded, clients, outdated, missed>>

Start(r, op, u, ids) ==
  /\ CASE op \in {"read", "resend"} -> ids # {} /\ Begin(r, op, u, ids, "find")
       [] op = "delete" -> Cardinality(ids) = 1 /\ Begin(r, op, u, ids, "find")
       [] op = "create" -> ids = {} /\ Begin(r, op, u, ids, "insert")
       [] op = "drop" -> ids = {} /\ Begin(r, op, u, ids, "drop")
       [] OTHER -> FALSE
  /\ UNCHANGED <<found, event, later>>

(* clear-chat loads the chat with its messages, and with none to remove    *)
(* goes on to publish.                                                     *)
Emptied == [kind |-> "emptied", rows |-> Nothing]
StartClear(r, u) ==
  /\ Begin(r, "clear", u, {}, IF Present = {} THEN "publish" ELSE "remove")
  /\ found' = [found EXCEPT ![r] = messages]
  /\ Owe(r, Emptied)

(* The tables change, and e is to be published. *)
Changes(r, e) ==
  /\ Goto(r, "publish")
  /\ Forget(r)
  /\ Owe(r, e)
  /\ UNCHANGED <<job, clients, missed>>

NewRowNoUser(u) == [user |-> Absent, readers |-> {}]
NewRow(u) == [user |-> u, readers |-> {}]

Insert(r) ==
  /\ at[r] = "insert"
  /\ chat
  /\ \E m \in unused :
       LET row == NewRow(job[r].user)
       IN  /\ messages' = [messages EXCEPT ![m] = row]
           /\ unused' = unused \ {m}
           /\ Changes(r, [kind |-> "created", rows |-> [Nothing EXCEPT ![m] = row]])
  /\ UNCHANGED <<chat, outdated>>

(* read-messages finds no messages of the reader, delete-message (by       *)
(* findOneOrFail) only one that is there.                                  *)
Matches(j, row) == j.op = "read" => row.user # j.user

Find(r) ==
  LET rows == {m \in job[r].ids \cap Present : Matches(job[r], messages[m])}
  IN  /\ at[r] = "find"
      /\ IF job[r].op = "delete" THEN rows # {} ELSE FilesRelation
      /\ found' = [found EXCEPT ![r] = Pick(rows)]
      /\ Goto(r, IF job[r].op = "delete" THEN "delete" ELSE "load")
      /\ UNCHANGED <<tables, job, loaded, event, clients, later, outdated, missed>>

(* save, first half: SELECT *)
Load(r) ==
  /\ at[r] = "load"
  /\ loaded' = [loaded EXCEPT ![r] = Pick({m \in Messages : found[r][m] # Absent})]
  /\ Goto(r, "write")
  /\ UNCHANGED <<tables, job, found, event, clients, later, outdated, missed>>

Edited(j, row) ==
  IF j.op = "read" THEN [row EXCEPT !.readers = @ \cup {j.user}] ELSE row

(* UPDATE writes readersIds when the entity differs from the loaded row; a *)
(* readersIds that is not null may be taken for changed though it is not.  *)
Updated(now, was, entity, byReference) ==
  IF entity.readers # was.readers \/ (byReference /\ entity.readers # {})
    THEN [now EXCEPT !.readers = entity.readers] ELSE now

(* What save returns, and READED_MESSAGES, CHANGED_STATUS_MESSAGES and     *)
(* EDITED_MESSAGE carry: the entities.                                     *)
Entities(r) ==
  [m \in Messages |-> IF found[r][m] = Absent THEN Absent
                                              ELSE Edited(job[r], found[r][m])]

(* save, second half: INSERT of what the SELECT did not return, which the  *)
(* foreign key or the primary key may refuse (see Fail), and UPDATE.  When *)
(* others have changed the rows meanwhile, the event may not tell what has *)
(* become of them: a row it gives is not the one in the table, or one that *)
(* is there again, which clients do not add.                               *)
Write(r) ==
  LET inserts == {m \in Messages : found[r][m] # Absent /\ loaded[r][m] = Absent}
      e == [kind |-> "rows", rows |-> Entities(r)]
  IN  /\ at[r] = "write"
      /\ inserts # {} => chat /\ \A m \in inserts : messages[m] = Absent
      /\ \E byReference \in BOOLEAN :
           messages' = [m \in Messages |->
             CASE m \in inserts -> Entities(r)[m]
               [] m \in (About(e) \ inserts) \cap Present ->
                    Updated(messages[m], loaded[r][m], Entities(r)[m], byReference)
               [] OTHER -> messages[m]]
      /\ Changes(r, e)
      /\ outdated' = [outdated EXCEPT ![r] =
           {m \in About(e) : messages[m] = Absent \/ messages'[m] # Entities(r)[m]}]
      /\ UNCHANGED <<chat, unused>>

(* delete-message removes what it has found: DELETE by id. *)
Delete(r) ==
  /\ at[r] = "delete"
  /\ messages' = [m \in Messages |->
                    IF found[r][m] # Absent THEN Absent ELSE messages[m]]
  /\ Changes(r, [kind |-> "deleted", rows |-> found[r]])
  /\ UNCHANGED <<chat, unused, outdated>>

(* clear-chat does, whose event counts from when it found them. *)
Remove(r) ==
  /\ at[r] = "remove"
  /\ messages' = [m \in Messages |->
                    IF found[r][m] # Absent THEN Absent ELSE messages[m]]
  /\ Goto(r, "publish")
  /\ UNCHANGED <<chat, unused, job, copies, event, clients, later, outdated, missed>>

(* delete-chat: the chat goes, and its messages with it. *)
Drop(r) ==
  /\ at[r] = "drop"
  /\ chat' = FALSE
  /\ messages' = Nothing
  /\ Changes(r, Emptied)
  /\ UNCHANGED <<unused, outdated>>

-----------------------------------------------------------------------------
(* Publication *)

(* server.to(chatId).emit *)
RoomOfOthers(r) == joined \ {job[r].user}
Room(r) == joined

(* An outdated event may put an older row, or a removed one, on the        *)
(* screens again.                                                          *)
Publish(r) ==
  /\ at[r] = "publish"
  /\ job[r].user \in connected
  /\ view' = [u \in Users |-> IF u \in Room(r) \cap listed
                               THEN Applied(view[u], event[r]) ELSE view[u]]
  /\ Overtake(r)
  /\ missed' = missed \cup (Users \X (About(event[r]) \cap outdated[r]))
                     \cup ((Users \ joined) \X About(event[r]))
  /\ End(r)
  /\ UNCHANGED <<tables, connected, joined, listed>>

(* A database call is refused or rejected, or the process ends; or         *)
(* getSocket(userId).id has thrown, since the caller is gone.  Nothing is  *)
(* published.                                                              *)
Fail(r) ==
  /\ at[r] # "idle"
  /\ Overtake(r)
  /\ missed' = IF at[r] = "publish" THEN missed \cup (Users \X About(event[r]))
                                   ELSE missed
  /\ End(r)
  /\ UNCHANGED <<tables, clients>>

-----------------------------------------------------------------------------
(* Clients *)

Connect(u) ==
  /\ u \notin connected
  /\ connected' = connected \cup {u}
  /\ UNCHANGED <<tables, handlers, joined, listed, view, later, outdated, missed>>

(* The end of handleConnection; the query of the user's chats has found    *)
(* this one.                                                               *)
Join(u) ==
  /\ u \in connected \ joined
  /\ joined' = joined \cup {u}
  /\ UNCHANGED <<tables, handlers, connected, listed, view, later, outdated,
                 missed>>

Disconnect(u) ==
  /\ u \in connected
  /\ connected' = connected \ {u}
  /\ joined' = joined \ {u}
  /\ listed' = listed \ {u}
  /\ view' = [view EXCEPT ![u] = Nothing]
  /\ UNCHANGED <<tables, handlers, later, outdated, missed>>

(* getChats: of the chats of u the rows; none of a chat that is gone.      *)
GetChats(u) ==
  /\ u \in connected
  /\ listed' = listed \cup {u}
  /\ view' = [view EXCEPT ![u] = messages]
  /\ missed' = missed \ ({u} \X Messages)
  /\ UNCHANGED <<tables, handlers, connected, joined, later, outdated>>

-----------------------------------------------------------------------------
Handle(r) ==
  \/ \E u \in Users : \/ \E op \in Ops, ids \in SUBSET Present : Start(r, op, u, ids)
                     \/ StartClear(r, u)
  \/ Insert(r) \/ Find(r) \/ Load(r) \/ Write(r) \/ Delete(r) \/ Remove(r) \/ Drop(r)

Next ==
  \/ \E r \in Requests : Handle(r) \/ Publish(r) \/ Fail(r)
  \/ \E u \in Users : Connect(u) \/ Join(u) \/ Disconnect(u) \/ GetChats(u)

Spec == Init /\ [][Next]_vars

-----------------------------------------------------------------------------
(* Properties *)

(* A client with a list shows of each message what is in the table, once   *)
(* every handler that changed it has published, unless an event about it   *)
(* was published before the client's socket had joined the room, was never *)
(* published, overtook one of an earlier change, or came from a save of a  *)
(* copy that others had changed meanwhile and did not tell what that save  *)
(* made of it.  A new list makes good for everything before it, whatever   *)
(* is still to be published.                                               *)
ListsAreRight ==
  \A u \in listed, m \in Messages :
    Owing({m}) = {} /\ <<u, m>> \notin missed => view[u][m] = messages[m]
=============================================================================
