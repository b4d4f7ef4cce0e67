---------------------------- MODULE MessageStore ----------------------------
(***************************************************************************)
(* The messages of the chats, as the WebSocket handlers of ChatsGatewayV1  *)
(* change them through ChatsService and MessagesService.                   *)
(*                                                                         *)
(* A handler is an async function: it gives up the event loop at every     *)
(* await, so handlers of several clients interleave between their database *)
(* statements.  Each request in flight is a slot of Requests with a        *)
(* program counter; one action is what a handler does between two awaits.  *)
(* Nothing in the code serialises requests, and the transactions it opens  *)
(* run at PostgreSQL's default level, read committed.                      *)
(*                                                                         *)
(* TypeORM is external.  repository.save(entities), as the services use    *)
(* it, is a Load (SELECT of the rows with the ids of the entities) and a   *)
(* Write (in one transaction: INSERT of every entity whose row was not     *)
(* there at the Load, UPDATE of the columns in which an entity differs     *)
(* from its loaded row).  Any database call may be rejected: see Fail.     *)
(*                                                                         *)
(* readMessages, changeMessageStatus and updateMessage find their messages *)
(* with relations {files}, while files is a plain column of MessagesEntity.*)
(* TypeORM 0.3 rejects such a find (FilesRelation FALSE: the program as    *)
(* built), so what these handlers are written to do after it happens only  *)
(* with a TypeORM that lets it pass (FilesRelation TRUE).  The latter has  *)
(* every behaviour of the former, since Fail may reject any find.          *)
(***************************************************************************)
EXTENDS FiniteSets, Naturals

CONSTANTS
  Users,      \* user ids; users are never removed by the code
  Chats,      \* ids of the chats that exist when the model starts
  Messages,   \* message ids the database may generate
  Requests,   \* slots for requests in flight
  Texts,      \* the non-empty texts a client may send
  NoText,     \* payload.text left out (or empty)
  Statuses,   \* the members of MessageStatusEnum that are used
  SENT,       \* MessageStatusEnum.SENT
  Absent,     \* no row, no entity, no job
  Members,    \* Members[c]: the users of chat c
  FilesRelation,  \* find answers to relations {files}
  Ops         \* the handlers that clients call

AllOps == {"create", "read", "status", "edit", "delete", "clear", "drop"}

(* A row of the table "messages"; the null readersIds is the empty set,    *)
(* which is never stored otherwise.                                        *)
Row == [chat    : Chats,
        user    : Users,
        text    : Texts \cup {NoText},
        status  : Statuses,
        readers : SUBSET Users]

(* What a handler was asked to do.  Fields an operation lacks have a       *)
(* default value.                                                          *)
Job == [op     : AllOps,
        user   : Users,
        chat   : Chats,
        ids    : SUBSET Messages,
        text   : Texts \cup {NoText},
        status : Statuses]

ASSUME MessageStoreAssumption ==
  /\ NoText \notin Texts
  /\ SENT \in Statuses
  /\ Members \in [Chats -> SUBSET Users]
  /\ Ops \subseteq AllOps
  /\ FilesRelation \in BOOLEAN
  /\ Absent \notin Row
  /\ Absent \notin Job

VARIABLES
  chats,      \* the chats that exist
  messages,   \* the table "messages"
  pc,         \* where the handler in each slot is
  job,        \* what it was asked
  found,      \* the entities its find returned
  loaded,     \* the rows its save loaded
  (* History variables: read by the properties only. *)
  origin,     \* the row each message was first inserted with
  issued,     \* <<m, u, c>>: u asked to mark m as read, as a message of c
  requested,  \* <<m, s>>: some client asked to give m the status s
  dirty       \* the slots whose entities another slot has written since

store   == <<chats, messages>>
history == <<origin, issued, requested, dirty>>
vars    == <<chats, messages, pc, job, found, loaded,
             origin, issued, requested, dirty>>

PCs == {"idle", "insert", "find", "load", "write", "remove", "drop",
        "publish"}

Present(table) == {m \in Messages : table[m] # Absent}
Nothing        == [m \in Messages |-> Absent]
Pick(S)        == [m \in Messages |-> IF m \in S THEN messages[m] ELSE Absent]

TypeOK ==
  /\ chats \in SUBSET Chats
  /\ messages \in [Messages -> Row \cup {Absent}]
  /\ pc \in [Requests -> PCs]
  /\ job \in [Requests -> Job \cup {Absent}]
  /\ \A r \in Requests : pc[r] # "idle" => job[r] \in Job
  /\ found \in [Requests -> [Messages -> Row \cup {Absent}]]
  /\ loaded \in [Requests -> [Messages -> Row \cup {Absent}]]
  /\ origin \in [Messages -> Row \cup {Absent}]
  /\ issued \in SUBSET (Messages \X Users \X Chats)
  /\ requested \in SUBSET (Messages \X Statuses)
  /\ dirty \in [Requests -> BOOLEAN]

Init ==
  /\ chats = Chats
  /\ messages = Nothing
  /\ pc = [r \in Requests |-> "idle"]
  /\ job = [r \in Requests |-> Absent]
  /\ found = [r \in Requests |-> Nothing]
  /\ loaded = [r \in Requests |-> Nothing]
  /\ origin = Nothing
  /\ issued = {}
  /\ requested = {}
  /\ dirty = [r \in Requests |-> FALSE]

-----------------------------------------------------------------------------
(* Helpers *)

(* The handler ends: it returns, or an exception leaves it. *)
End(r) ==
  /\ pc' = [pc EXCEPT ![r] = "idle"]
  /\ job' = [job EXCEPT ![r] = Absent]
  /\ found' = [found EXCEPT ![r] = Nothing]
  /\ loaded' = [loaded EXCEPT ![r] = Nothing]

Goto(r, where) ==
  /\ pc' = [pc EXCEPT ![r] = where]
  /\ UNCHANGED <<job, found, loaded>>

(* The request arrives and the service's first read, getChatById, finds    *)
(* the chat (NotFoundException, and no effect, otherwise).                 *)
Begin(r, j, where) ==
  /\ pc[r] = "idle"
  /\ j.op \in Ops
  /\ j.chat \in chats
  /\ pc' = [pc EXCEPT ![r] = where]
  /\ job' = [job EXCEPT ![r] = j]
  /\ UNCHANGED <<store, loaded, origin, dirty>>

(* chat.users?.find((user) => user.id === userId) *)
IsMember(j) == j.user \in Members[j.chat]

(* Slots other than r that hold entities of the messages T are dirty. *)
Soil(r, T) ==
  [q \in Requests |->
     dirty[q] \/ ( /\ q # r
                   /\ pc[q] \in {"load", "write"}
                   /\ T \cap Present(found[q]) # {})]

-----------------------------------------------------------------------------
(* create-message *)

(* !payload.filesIds && !payload.text is rejected; an array of filesIds,   *)
(* the empty one included, is truthy.                                      *)
NonEmpty(t, hasFiles) == hasFiles \/ t # NoText

StartCreate(r, u, c, t, hasFiles) ==
  /\ NonEmpty(t, hasFiles)
  /\ Begin(r, [op |-> "create", user |-> u, chat |-> c, ids |-> {},
               text |-> t, status |-> SENT], "insert")
  /\ UNCHANGED <<found, issued, requested>>

NewRowNoUser(j) == [chat |-> j.chat, user |-> Absent, text |-> j.text,
                    status |-> SENT, readers |-> {}]
NewRow(j) == [chat |-> j.chat, user |-> j.user, text |-> j.text,
              status |-> SENT, readers |-> {}]

(* The foreign key messages.chatId: the row's chat must still exist. *)
ChatKeyUnchecked(row) == TRUE
ChatKey(row) == row.chat \in chats

(* The INSERT of the transaction; the id is one the table never had. *)
Insert(r) ==
  /\ pc[r] = "insert"
  /\ \/ /\ ChatKey(NewRow(job[r]))
        /\ \E m \in Messages \ Present(origin) :
             /\ messages' = [messages EXCEPT ![m] = NewRow(job[r])]
             /\ origin' = [origin EXCEPT ![m] = NewRow(job[r])]
        /\ Goto(r, "publish")
     \/ /\ ~ChatKey(NewRow(job[r]))
        /\ End(r)
        /\ UNCHANGED <<messages, origin>>
  /\ UNCHANGED <<chats, issued, requested, dirty>>

-----------------------------------------------------------------------------
(* The handlers that find, change and save: read-messages,                 *)
(* change-status-messages and edit-message.                                *)

StartRead(r, u, c, ids) ==
  /\ Begin(r, [op |-> "read", user |-> u, chat |-> c, ids |-> ids,
               text |-> NoText, status |-> SENT], "find")
  /\ issued' = issued \cup (ids \X {u} \X {c})
  /\ UNCHANGED <<found, requested>>

StartStatus(r, u, c, ids, s) ==
  /\ Begin(r, [op |-> "status", user |-> u, chat |-> c, ids |-> ids,
               text |-> NoText, status |-> s], "find")
  /\ requested' = requested \cup (ids \X {s})
  /\ UNCHANGED <<found, issued>>

StartEdit(r, u, c, m, t) ==
  LET j == [op |-> "edit", user |-> u, chat |-> c, ids |-> {m},
            text |-> t, status |-> SENT]
  IN  /\ IsMember(j)
      /\ Begin(r, j, "find")
      /\ UNCHANGED <<found, issued, requested>>

(* The WHERE of the find: read-messages leaves out the reader's own        *)
(* messages and those of other chats; the others go by id alone.           *)
MatchesAll(j, row) == TRUE
Matches(j, row) == j.op = "read" => row.user # j.user /\ row.chat = j.chat

Find(r) ==
  LET rows == {m \in Present(messages) \cap job[r].ids :
                 Matches(job[r], messages[m])}
      ok == /\ job[r].op # "delete" => FilesRelation
            /\ job[r].op \in {"edit", "delete"} => rows # {}  \* findOneOrFail
  IN  /\ pc[r] = "find"
      /\ \/ /\ ok
            /\ found' = [found EXCEPT ![r] = Pick(rows)]
            /\ pc' = [pc EXCEPT ![r] = IF job[r].op = "delete"
                                         THEN "remove" ELSE "load"]
            /\ UNCHANGED <<job, loaded>>
         \/ /\ ~ok
            /\ End(r)
      /\ dirty' = [dirty EXCEPT ![r] = FALSE]
      /\ UNCHANGED <<store, origin, issued, requested>>

(* How the handler changes an entity before it saves it.  edit-message     *)
(* only empties message.files, which is not modelled: payload.text is not  *)
(* looked at.                                                              *)
EditedNotByReaders(j, row) ==
  IF j.op = "status" THEN [row EXCEPT !.status = j.status] ELSE row
EditedOnlyByReaders(j, row) ==
  IF j.op = "read" THEN [row EXCEPT !.readers = @ \cup {j.user}] ELSE row
EditedTakesOver(j, row) ==
  CASE j.op = "read"   -> [row EXCEPT !.readers = @ \cup {j.user}, !.user = j.user]
    [] j.op = "status" -> [row EXCEPT !.status = j.status]
    [] OTHER           -> row
EditedSeen(j, row) ==
  CASE j.op = "read"   -> [row EXCEPT !.readers = @ \cup {j.user},
                                      !.status = CHOOSE s \in Statuses : s # SENT]
    [] j.op = "status" -> [row EXCEPT !.status = j.status]
    [] OTHER           -> row
Edited(j, row) ==
  CASE j.op = "read"   -> [row EXCEPT !.readers = @ \cup {j.user}]
    [] j.op = "status" -> [row EXCEPT !.status = j.status]
    [] OTHER           -> row

(* save, first half: the rows that have the ids of the entities. *)
Load(r) ==
  /\ pc[r] = "load"
  /\ loaded' = [loaded EXCEPT ![r] = Pick(Present(found[r]))]
  /\ pc' = [pc EXCEPT ![r] = "write"]
  /\ UNCHANGED <<store, job, found, history>>

(* UPDATE: a column is written when the entity differs from the loaded     *)
(* row.  A readersIds that is not null is an array; it may be taken for    *)
(* changed although its elements are the same (byReference).               *)
Column(now, was, entity) == IF entity # was THEN entity ELSE now
UpdatedWhole(now, was, entity, byReference) == entity
Updated(now, was, entity, byReference) ==
  [chat    |-> Column(now.chat, was.chat, entity.chat),
   user    |-> Column(now.user, was.user, entity.user),
   text    |-> Column(now.text, was.text, entity.text),
   status  |-> Column(now.status, was.status, entity.status),
   readers |-> IF byReference /\ entity.readers # {} THEN entity.readers
               ELSE Column(now.readers, was.readers, entity.readers)]

(* save, second half.  An INSERT is refused when the chat is gone or when  *)
(* another save has inserted the row again meanwhile; the transaction      *)
(* rolls back.  An UPDATE of a row that is gone changes nothing.           *)
Write(r) ==
  LET entities == Present(found[r])
      inserts  == entities \ Present(loaded[r])
      entity(m) == Edited(job[r], found[r][m])
      ok == \A m \in inserts : /\ ChatKey(entity(m))
                               /\ messages[m] = Absent
  IN  /\ pc[r] = "write"
      /\ \/ /\ ok
            /\ \E byReference \in BOOLEAN :
                 messages' = [m \in Messages |->
                   IF m \in inserts THEN entity(m)
                   ELSE IF m \in entities \cap Present(messages)
                   THEN Updated(messages[m], loaded[r][m], entity(m), byReference)
                   ELSE messages[m]]
            /\ dirty' = Soil(r, entities)
            /\ Goto(r, "publish")
         \/ /\ ~ok
            /\ End(r)
            /\ UNCHANGED <<messages, dirty>>
      /\ UNCHANGED <<chats, origin, issued, requested>>

-----------------------------------------------------------------------------
(* delete-message, clear-chat and delete-chat *)

StartDelete(r, u, c, m) ==
  LET j == [op |-> "delete", user |-> u, chat |-> c, ids |-> {m},
            text |-> NoText, status |-> SENT]
  IN  /\ IsMember(j)
      /\ Begin(r, j, "find")
      /\ UNCHANGED <<found, issued, requested>>

(* clear-chat loads the chat with its messages in one query; with none to  *)
(* remove it goes on to publish.                                           *)
StartClear(r, u, c) ==
  LET j == [op |-> "clear", user |-> u, chat |-> c, ids |-> {},
            text |-> NoText, status |-> SENT]
      rows == {m \in Present(messages) : messages[m].chat = c}
  IN  /\ IsMember(j)
      /\ Begin(r, j, IF rows # {} THEN "remove" ELSE "publish")
      /\ found' = [found EXCEPT ![r] = Pick(rows)]
      /\ UNCHANGED <<issued, requested>>

(* repository.remove: DELETE by id, whatever the rows hold by now. *)
Remove(r) ==
  /\ pc[r] = "remove"
  /\ messages' = [m \in Messages |->
                    IF m \in Present(found[r]) THEN Absent ELSE messages[m]]
  /\ dirty' = Soil(r, Present(found[r]))
  /\ Goto(r, "publish")
  /\ UNCHANGED <<chats, origin, issued, requested>>

StartDrop(r, u, c) ==
  LET j == [op |-> "drop", user |-> u, chat |-> c, ids |-> {},
            text |-> NoText, status |-> SENT]
  IN  /\ IsMember(j)
      /\ Begin(r, j, "drop")
      /\ UNCHANGED <<found, issued, requested>>

(* The rows a chat takes with it (onDelete: 'CASCADE'). *)
Cascade(c) == {m \in Present(messages) : messages[m].chat = c}

Drop(r) ==
  LET c == job[r].chat
  IN  /\ pc[r] = "drop"
      /\ chats' = chats \ {c}
      /\ messages' = [m \in Messages |->
                        IF m \in Cascade(c) THEN Absent ELSE messages[m]]
      /\ dirty' = Soil(r, Cascade(c))
      /\ Goto(r, "publish")
      /\ UNCHANGED <<origin, issued, requested>>

-----------------------------------------------------------------------------
(* The end of a handler *)

(* The gateway emits the event to the room of the chat. *)
Publish(r) ==
  /\ pc[r] = "publish"
  /\ End(r)
  /\ UNCHANGED <<store, history>>

(* A database call is rejected, getSocket(userId) is undefined, or the     *)
(* process dies: what was committed stays, the rest is never done.         *)
Fail(r) ==
  /\ pc[r] # "idle"
  /\ End(r)
  /\ UNCHANGED <<store, history>>

Arrive(r) ==
  \E u \in Users, c \in Chats :
    \/ \E t \in Texts \cup {NoText}, f \in BOOLEAN : StartCreate(r, u, c, t, f)
    \/ \E ids \in SUBSET Messages : StartRead(r, u, c, ids)
    \/ \E ids \in SUBSET Messages, s \in Statuses : StartStatus(r, u, c, ids, s)
    \/ \E m \in Messages, t \in Texts : StartEdit(r, u, c, m, t)
    \/ \E m \in Messages : StartDelete(r, u, c, m)
    \/ StartClear(r, u, c)
    \/ StartDrop(r, u, c)

Step(r) ==
  \/ Insert(r)
  \/ Find(r)
  \/ Load(r)
  \/ Write(r)
  \/ Remove(r)
  \/ Drop(r)
  \/ Publish(r)

Next == \E r \in Requests : Arrive(r) \/ Step(r) \/ Fail(r)

Spec == Init /\ [][Next]_vars

(* Handlers go on to their end and no database call is rejected from       *)
(* without.                                                                *)
FairSpec ==
  /\ Init /\ [][\E r \in Requests : Arrive(r) \/ Step(r)]_vars
  /\ \A r \in Requests : WF_vars(Step(r))

-----------------------------------------------------------------------------
(* Properties *)

(* readersIds never names a user who did not ask to mark the message as    *)
(* read, as a message of the chat it is in, nor the author of the message, *)
(* however many stale copies are saved over the row.                       *)
ReceiptsAreGenuine ==
  \A m \in Present(messages) : \A u \in messages[m].readers :
    <<m, u, messages[m].chat>> \in issued /\ u # messages[m].user

(* A message keeps the author, the chat and the text it was created with,  *)
(* through every save of every handler and through a re-insertion.         *)
RowsKeepOrigin ==
  \A m \in Present(messages) :
    /\ messages[m].user = origin[m].user
    /\ messages[m].chat = origin[m].chat
    /\ messages[m].text = origin[m].text

(* A status other than the initial one was asked for by some client, for   *)
(* that message.                                                           *)
StatusWasRequested ==
  \A m \in Present(messages) :
    messages[m].status = SENT \/ <<m, messages[m].status>> \in requested

(* No message survives its chat, and none comes back after it: not by a    *)
(* create, nor by a save that began before the chat was deleted.           *)
NoMessageOutlivesItsChat ==
  \A m \in Present(messages) : messages[m].chat \in chats

(* What the operations promise, in one step. *)
Promised(j, row) ==
  [row EXCEPT !.readers = IF j.op = "read" THEN @ \cup {j.user} ELSE @,
              !.status  = IF j.op = "status" THEN j.status ELSE @]

AtomicSave(r) ==
  pc[r] = "write" /\ pc'[r] = "publish" /\ ~dirty[r]
    => messages' = [m \in Messages |->
         IF m \in Present(found[r]) THEN Promised(job[r], messages[m])
         ELSE messages[m]]

(* A save during which no other handler wrote the same messages has the    *)
(* effect of the operation done in one step: it neither loses a receipt or *)
(* a status nor brings back a message.  (With such an overlap it can do    *)
(* both.)                                                                  *)
IsolatedSaveIsAtomic == [][\A r \in Requests : AtomicSave(r)]_vars

Saves(r, m) == pc[r] = "write" /\ pc'[r] = "publish" /\ found[r][m] # Absent

(* The step that brings m back, that takes a receipt from it, or that      *)
(* changes its status.                                                     *)
ReturnIsOutdated(m) ==
  messages[m] = Absent /\ messages'[m] # Absent =>
    \E r \in Requests : Saves(r, m) /\ dirty[r] /\ loaded[r][m] = Absent

LossIsOutdated(m) ==
  messages[m] # Absent /\ messages'[m] # Absent =>
    \A u \in messages[m].readers \ messages'[m].readers :
      \E r \in Requests : Saves(r, m) /\ dirty[r] /\ u \notin found[r][m].readers

StatusIsAskedOrOutdated(m) ==
  messages[m] # Absent /\ messages'[m] # Absent
    /\ messages'[m].status # messages[m].status =>
      \E r \in Requests :
        /\ Saves(r, m)
        /\ \/ job[r].op = "status" /\ job[r].status = messages'[m].status
           \/ /\ dirty[r]
              /\ found[r][m].status = messages'[m].status
              /\ found[r][m].status # loaded[r][m].status

(* What an overlap can undo, and which: a message that was there comes     *)
(* back only by a save that found it before it went and whose SELECT came  *)
(* after, a receipt goes only by a save that had found the message without *)
(* it, and a status goes back only to the one a save found before a change *)
(* that its SELECT has seen; each time another handler wrote the message   *)
(* between the find and the write.  A change between the SELECT and the    *)
(* write is never undone in the status, nor a removal.                     *)
OnlyOverlapUndoes ==
  [][\A m \in Present(origin) :
       ReturnIsOutdated(m) /\ LossIsOutdated(m) /\ StatusIsAskedOrOutdated(m)]_vars

(* messages.service.ts:170 says that readMessages updates the read status  *)
(* of the messages: when no database call is rejected but for what the     *)
(* find itself refuses, each message it is to find gets the receipt, or    *)
(* goes.                                                                   *)
ToBeRead(r, m) ==
  /\ pc[r] = "find" /\ job[r].op = "read" /\ m \in job[r].ids
  /\ messages[m] # Absent /\ Matches(job[r], messages[m])
IsRead(m, u) == messages[m] # Absent => u \in messages[m].readers

ReadsAreStored ==
  \A r \in Requests, m \in Messages, u \in Users :
    ToBeRead(r, m) /\ job[r].user = u ~> IsRead(m, u)
=============================================================================
