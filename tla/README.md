# Formal models of g-messenger-backend

TLA+ models of the back end in `src/` (NestJS, socket.io, TypeORM over PostgreSQL, Redis, S3), checked
with TLC and, but for liveness, proved with TLAPS. Paths below are relative to `src/src/`.

The server has no lock, no serialising queue and no isolation level above *read committed*. Almost
everything that can go wrong happens between two `await`s: a row is read, other handlers run, and what was
read is written back or published. The models are about that.

## 1. The system

| Component | State | Operations | Hard behaviour | What makes it correct | Model |
|---|---|---|---|---|---|
| Messages (`modules/messages`, `modules/chats/services`, `modules/chats/gateways`) | tables `messages`, `chats` | create, read, change status, edit, delete, clear, delete the chat | read-modify-write of whole entities over several statements; `save` inserts rows that have gone; rollback of batches; cascades | receipts and statuses were asked for; a row keeps its origin; none outlives its chat; every step is an operation on versions of the rows | `MessageStore`, `MessageVersions`, `MessageHistory` |
| What clients see of messages (`getChats`, the events of the gateway) | lists on the screens, the room of a chat | list, join, publish, leave | the list, the joining and the events come by three ways in no order | a list with its events is the table, when nothing was missed | `MessageFeed` |
| Chat gateway (`chats.gateway.v1.ts`) | per process: map user → socket, socket.io rooms; in the database: `isOnline`, members | connect, disconnect, create-chat, create-group-chat, delete-chat | reconnection during a connect, unawaited saves, expiring tokens, the adapter replaced late, several processes, restarts | members are in the room of their chats, nobody else is; presence is right when settled | `ChatGateway` |
| Unread counters (gateway, `ChatsService.getUserUnreadedChatsCount`, the badge of `getUserChats`) | what clients show | count and publish after each handler | stale answers that overtake newer ones; one rejected count among several; two queries for one notion | the shown number is right when nothing is under way; the two queries agree | `UnreadCounter` |
| File upload (`modules/files`, `modules/s3`, `shared/helpers`) | bucket, tables `files`, `crops` | upload | two stores with no common transaction; loops that stop half-way; a promise that never settles | rows never name missing objects; crops go with their file; uploads end | `FileStore` |
| Chat directory (`ChatsService`) | tables `chats`, `chats-members` | createChat, createDialog, createGroupChat, deleteDialog, the searches | check, then act; saving twice | one dialog per pair; searches are exact | `ChatDirectory` |
| Lists of chats (`getUserChats`, `getUserRequestChats`, `RepositoryHelper`) | a client's list | pages | the page and its rows are two queries, pages are separate requests | a listing is complete and ends | `ChatPaging` |
| Authentication (`modules/auth`, `modules/redis-manager`) | one refresh token per user in Redis | sign-in, guarded request, logout | one entry for all sessions of a user; SET and DEL of overlapping requests; repeated commands; Redis restarted from a snapshot | who is signed in is served, who is logged out is refused | `AuthSessions` |
| Users, companies, crypto, message queries, bootstrap, DTOs | – | reads, wiring, pure functions | – | – | not modelled (section 7) |

How they interact: a socket.io event reaches a gateway handler, which awaits a method of `ChatsService`,
which awaits `MessagesService` and `UsersService`, which await the database. When the service returns, the
handler looks sockets up in its process's map, joins or addresses rooms, publishes an event and, for some
events, counts unread chats again. HTTP controllers serve sign-ins, lists and uploads; the guards of most of
them look at Redis, the gateway's own check of a token does not. Processes share PostgreSQL, Redis and,
through the Redis adapter of socket.io, broadcasts; they do not share the map of sockets.

## 2. Modules

One action is what the code does between two awaits. A request in flight is a slot with a program counter
and the locals it keeps across awaits. Each component also has an `MC` module with its TLC instances.

* **MessageStore**. `messages` and `chats` are the tables; `pc`, `job`, `found`, `loaded` are the handler:
  what it was asked, the entities its `find` returned, the rows its `save` loaded. `Start…` is the arrival
  of an event up to `getChatById`; `Find` the `find` of `MessagesService`; `Load` and `Write` the two halves
  of `repository.save`; `Insert`, `Remove`, `Drop` the other statements; `Publish` the way back through the
  gateway; `Fail` a rejected call, a throwing `getSocket(userId).id` or the end of the process.
  `FilesRelation` says whether TypeORM answers the finds of `read-messages`, `edit-message` and
  `change-status-messages` at all, which ask for a relation that is none (see below).
* **MessageVersions** is the abstract store: no requests, no statements, no copies. An operation (`Post`,
  `Read`, a change of status, a removal, the removal of a chat) happens in one step, for all the messages of
  its request or for none. It promises what the code keeps and no more: a save starts from *a version the
  row has had*, of the columns it touches any may go back to that version, and a row that is gone may come
  back as one, while its chat exists.
* **MessageHistory** extends MessageStore with the history variable `past` (the versions of each row) and
  instantiates the abstract store: `Versions == INSTANCE MessageVersions WITH rows <- messages`, with `chats`
  and `past` as they are. Steps that only read, publish or fail are stutters; the step of an operation is the
  `Insert`, `Write`, `Remove` or `Drop` of its handler.
* **MessageFeed** has a chat, its messages and clients that show a list of them. The database calls of a
  handler are steps of their own, as in MessageStore (`Find`, `Load`, `Write`; `Insert`, `Delete`, `Drop`;
  `StartClear` and `Remove`), so what it publishes (`Entities`) are the copies it has saved, whatever the table
  has by then; `Publish` or `Fail` comes after. `GetChats`, `Connect`, `Join`, `Disconnect` are the client's ways
  to its list and to the room. `Applied`, what a client makes of an event, is external.
* **ChatGateway**. `handleConnection` is `Connect`, `Query`, `Join` or `RejectConnection`;
  `handleDisconnect` is `Disconnect`; `updateOnline`, which nobody awaits, leaves saves in `owed` that
  `SaveOnline` does in any order; `create-chat` is `RequestChat`, `SaveChat` and `Announce` or
  `AnnounceThrows`; `InstallRedis` is the moment `RedisAdapter` replaces the adapter; `Restart` empties a
  process.
* **UnreadCounter**. The database calls of a handler are steps of their own, as in MessageStore (`Find`, `Load`,
  `Write`; `Insert`, `Remove`, `Drop`), and so is what follows: `Publish`, `ListUsers`, one `Count` and one `Emit`
  per user, each of which may fail. `UnreadedChats` is the query of the number,
  `IsNotReadMessages` the one of the badge, both with SQL's ANY and ALL over an array that may be null.
* **FileStore**. `FilesGrouping`, `Valid` and `Key` are the helpers; an upload takes `NextGroup`, `PutDone`
  or `PutFails` for every part, `GroupDone`, `SaveRows` or `SaveFails`; `Restart` may come anywhere.
* **UploadPromise** is the abstract upload: no groups, no waiting, no process. A request is open until all its
  rows are there, in one step and with all its objects, or it fails for ever; the bucket may keep objects of
  failed requests. FileStore instantiates it (`Promise`), with the abstract `outcome` read off the place of
  the upload.
* **ChatDirectory**. The three creations and the removal with their searches; `SaveAgain` is the second
  `save` of `createDialog`. Nothing in the repository calls `createDialog`, nor, but for it, `isExistDialog`: what
  the module says of the two (`IsExistDialogIsExact`, and `DialogsStayUnique`, which excuses `create-chat`) is said
  of code that the running system does not reach. They are modelled because theirs is the search that works.
* **ChatPaging**. `FindPage` and `FindRows` are the two queries of `RepositoryHelper.find`; the client that
  asks, by ids or by page numbers, is external.
* **AuthSessions**. `entries` is Redis as far as `${userId}-refresh-token` goes. A sign-in is `SignIn`,
  `FindUser` (with the comparison of the password), `SetEntry`, `AnswerSignIn`; a logout passes the guard
  (`Validate`) and is `DelEntry`, `AnswerLogout`; any other guarded request is `Call`, `Validate`, `Answer`.
  A Redis command and its answer are two steps, and between them the client library may send the command
  again. `Snapshot` and `RestartRedis` are Redis's own. Devices are not told apart: the code does not either.

The components meet in the tables, and each module keeps the columns its properties need: MessageStore all
of them, UnreadCounter chat, author and readers, MessageFeed author and readers. `change-status-messages` and
`edit-message`, whose columns these two leave out, save the rows they find all the same (`resend`).

**As the code is built and as it is written.** `readMessages`, `changeMessageStatus` and `updateMessage` ask their
finds for `relations: { files: true }` (`messages.service.ts:187`, 223, 145), while `files` is a plain `@Column`
(`messages.entity.ts:43`). TypeORM 0.3 rejects such a find, so with it what these methods are written to do next is
not reached. That is `FilesRelation = FALSE`. With `FilesRelation = TRUE` the finds may succeed, or be rejected
(`Fail`, `SaveFails`), so its behaviours include those of the program as built: every safety property that holds
with TRUE holds of the program, and goes on holding when the entity gets its relation, or the finds lose theirs.
The passing runs use TRUE, the theorems allow both, and `StoreReadsAreStored` shows what FALSE means to a reader.
Where this text speaks of what a save of `read-messages` or `change-status-messages` does, it is with TRUE.

External, and modelled by how the code uses it: TypeORM's `save` (SELECT by id, then in one transaction
INSERT of what the SELECT did not return and UPDATE of the columns that differ), foreign keys and cascades,
socket.io's rooms, Redis, the clients.

## 3. Runs

| Run | Question | Bounds |
|---|---|---|
| `StoreRows` | All seven handlers, two at a time: `RowsKeepOrigin`, `NoMessageOutlivesItsChat`, `ReceiptsAreGenuine`, `StatusWasRequested`, `IsolatedSaveIsAtomic`, `OnlyOverlapUndoes` | 2 users, 1 chat, 1 message, 2 slots, 1 text, 2 statuses |
| `StoreVersions` | Do the interleaved statements implement the abstract store (`ImplementsVersions`), and is a save of several entities atomic without overlap? | 2 users, 1 chat, 2 messages, 2 slots; create, read, clear, delete-chat |
| `StoreReadsAreStored` (violated) | Is a message marked as read in the end? Not as built: the find is rejected | 2 users, 1 chat, 1 message, 2 slots; create, read; `FilesRelation` FALSE |
| `GatewayFaults` | `EntriesAreLive`, `RoomCoverage`, `RoomsHoldMembers` with every fault | 2 users with a socket each, 1 chat, 1 process |
| `GatewayPresence` | `PresenceIsAccurate`, `PresenceOnlyImproves`, `EventuallyOnline` with faults | 1 user, 3 sockets, 2 processes |
| `GatewayAnnounced` (violated) | Is a created chat announced to the members? Not if the creator has gone: a log line throws | as `GatewayFaults`, no faults |
| `UnreadRaces` | Is the shown number right when all is quiet (`ShownIsRight`)? Do the number and the badges agree (`BadgesAgree`)? | 2 users, 2 chats, 1 message, 2 slots |
| `FilesMixed` | `StoresAgree`, `CropsBelong`, `EveryNameIsStored`, `UploadsEnd`; is an upload one step for whoever looks at the tables (`KeepsPromise`)? | two uploads: one of any at most 3 of 8 files, one of five typical requests |
| `DirectoryUnique` | `IsExistDialogIsExact`, `DialogsStayUnique` (of `createDialog`, which nothing calls) | 3 users, 2 chats, 2 slots |
| `PagingAll` | `ListingIsComplete`, `PagesMakeProgress`, `ListingEnds` | 4 chats, pages of 2 |
| `AuthOneEntry` | `SignedInIsServed`, `LoggedOutIsRefused` with every fault | 2 users, 3 slots |
| `FeedLists` | Is a list with its events what is in the table (`ListsAreRight`)? | 2 users, 1 message, 2 slots |

Every component's `TypeOK` is checked in one run as well; MessageVersions needs none, since MessageStore
checks its variables.

Why the bounds are enough for what the runs ask. The races of MessageStore are between one reader or writer
of a row and one other handler: two slots give every pair of handlers, each slot is used again and again, so
longer histories are there too. Batches need a second message; with two, `StoreVersions` keeps to the
handlers that have batches (with one message it has been run on all seven by hand). A room is missed by one
socket while one chat is created; presence needs a second socket of the same user, on the same process (a
tab, a reconnection) and on another one. A search of the directory is confused by a third user. A page
boundary needs more chats than a page, twice. An entry in Redis is contested by a sign-in and a logout while
a third request is between guard and answer: three slots. Two events are enough to be out of order, and what a
list shows of one message does not depend on another. A number counts chats, each of which has something unread
or not: `UnreadRaces` has two chats and one message, so that a handler, and a stale copy, may be of another chat
than the one counted. One chat with two messages has been run by hand: 1.9 million
states, no error. For the safety properties the proofs below remove the bounds.

Message and chat ids are used up and not given out again, as the database does; that bounds the histories.
`CHECK_DEADLOCK FALSE` appears where this lets the model come to rest: with the only chat gone
(MessageStore), or with every socket used (ChatGateway). `owed` in ChatGateway is bounded by
the finite set of sockets, `page` in ChatPaging by the finite set of chats.

Symmetry is used in MessageStore, MessageHistory, MessageFeed and AuthSessions (users, messages, slots),
UnreadCounter and ChatDirectory (chats as well), where no definition or instance tells the members apart;
never in a run with a liveness property. `UnreadRaces` also has a `View`: what was asked of a handler is left out
once nothing looks at it any more, so that handlers that only have numbers left to count are not told apart.

### Exemptions in the properties

Some properties leave a case out because the code does not hold in it; each exemption is a history variable.

* `IsolatedSaveIsAtomic` leaves out saves whose messages another handler wrote since they were found (`dirty`).
  `ImplementsVersions` leaves nothing out: it says what those saves do instead, by means of `past`, and
  `OnlyOverlapUndoes` names what they can undo and which of them can: a message comes back, or a status is set
  back, only when the change fell between the `find` and the SELECT of the `save`; a receipt may be lost whenever it
  came after the `find`.
* `PresenceIsAccurate`, `PresenceOnlyImproves` and `EventuallyOnline` leave out users with an `overlap`: their
  last connect or disconnect came while another socket of theirs was live or an earlier one not settled (a
  second tab, a quick reconnection), or with an expired token. Then the saves are in no order, the last tab is
  not told from the others, and `isOnline` may be wrong until the next separate connect or disconnect, which
  puts it right.
* `EntriesAreLive` lets the entry of a socket whose token expired stay: `handleDisconnect` verifies the
  token first.
* `RoomCoverage` leaves out sockets that connected before their process changed to the Redis adapter, and
  speaks of the registered socket on the creating process: other tabs and other processes are not joined.
* `ShownIsRight` leaves out users whose last published answer had been overtaken by a save while it waited
  (`outdated`), or for whom an update was dropped (`missed`), or whose number a save of outdated copies has
  changed though its handler does not count for them (`missed` too: `Stale` saves of `read-messages`, which counts
  for the reader only, and of the two that count for nobody), until the next answer that is not overtaken.
* `BadgesAgree` leaves out messages that the user and somebody else have read: there the two queries differ.
* `DialogsStayUnique` is about steps: one that adds a dialog leaves its users with that one alone. It excuses the
  saves of `create-chat`, whose search never finds a dialog, and of a `createDialog` that another save of the same
  dialog has overtaken since its search (`stale`); earlier duplicates excuse nothing.
* `UploadsEnd` leaves out an upload for which S3 has reported an error: it is never answered.
* `SignedInIsServed` and `LoggedOutIsRefused` speak of users whose `standing` is known: the last of their
  sign-ins and logouts to be answered met none of the other kind while it ran (`clean`), and no snapshot
  changed their entry. `held` is what a request could rely on throughout.
* `ListsAreRight` leaves out what a client has `missed` until its next list: an event published before its
  socket had joined, one that never was, one published when that of a later change already had been (`later` orders
  the changes), or one of a save that does not tell what the save made of the row, because others had changed it
  since the find: it is in the table again though clients were told it had gone, or not as the event has it
  (`outdated` collects both).

### Fairness

ChatGateway: the continuations of a connection and of a creation run, and owed saves reach the database
(`WF` on each): the event loop serves every continuation and PostgreSQL answers. Nothing is assumed of
clients, who need never connect, and faults are never fair. FileStore: each upload's next step happens, as
S3 and the database answer; a report of an error is an answer. ChatPaging: queries end, and the client that
has begun a listing goes on asking; the latter is an assumption about the client. MessageStore,
MessageHistory, MessageFeed, UnreadCounter, ChatDirectory and AuthSessions have safety properties only and no
fairness: a process may end at any step, and nothing in the code takes up what it was doing. The one exception is
`StoreReadsAreStored`, whose `FairSpec` leaves `Fail` out and lets every handler go on to its end, so that what
stops a read is nothing but its own find.

## 4. Proofs

The theorems hold for all values of the constants that satisfy the modules' named assumptions: memberships,
owners and batches are functions of the right type, null values are distinct from the data, and, where the
code counts, what is counted is finite (chats in UnreadCounter and ChatPaging, users and chats in
ChatDirectory). Each proof module has type correctness, an inductive invariant `Inductive` that holds
initially and after every step, and the theorems that follow from it.

**MessageStoreProofs.** The invariants are not inductive alone: a stale copy in `found` may be written back
at any time, so what is claimed of rows must hold of copies. `Inductive` adds to the types: `RowsSound` (rows,
compared with `origin`, `issued` and `requested`); `CopiesSound` (the copies in `found` and `loaded`);
`JobsOnRecord` (what a slot was asked is on record); `FoundAskedFor` (a slot has only found messages it was
asked about); and `NoMessageOutlivesItsChat`, by the foreign key at `INSERT` and the cascade at `DELETE`.
History only grows (`SoundGrows`), so copies stay sound while they are stale. From it follow
`ReceiptsGenuine`, `OriginKept`, `StatusRequested`, `NoOrphanMessages`. `IsolatedSaves` needs also
`CleanCopies` (a slot that is not dirty has in `found`, and in `loaded` once it has loaded, what is in the
table): then `Write` inserts nothing and updates exactly the columns that the operation changes. `OnlyOverlaps`
is the other half, from the same invariants: what a dirty `Write` inserts it did not see in its SELECT, the
receipts it drops are not in its copy, and it sets a status back only if its copy and its SELECT differ in it.

The same module proves `ImplementsTheVersions`: the specification of the handlers implies that of the
abstract store. The invariant is `Inductive` of the store with `Versioned` (the present row and every copy is
a version in `past`; a message never inserted has none) and `HandlersInPlace` (where each kind of handler can
be, and what it holds there). Then every action is an operation or a stutter: for `Write` the version to start
from is the copy in `found`, whatever the table has by then.

**ChatGatewayProofs.** `Inductive` is `EntriesAreLive`; `Started` (what is live, in a room or has a query
answered has begun to connect); `MembersInvited`; `QuerySound` (what a query returned its user was invited to);
`RoomsHoldMembers`; and `Coverage`: once a chat is announced, the registered socket of a member on the creating
process is still to query, about to join with the chat in its answer, or in the room. The last is the argument
that nobody falls between the query of a connection and the announcement of a chat: the entry is in the map
before the query is sent, and the chat is in the table before the map is looked at. `EntriesLead`,
`RoomsArePrivate` and `NobodyFallsBetween` follow. `PresenceAccurate` rests on `Presence`: a user whose last
connect or disconnect did not overlap has at most one socket; while its `handleConnection` runs no save is owed;
afterwards only saves of TRUE are, and without a socket only saves of FALSE; if none is owed, `isOnline` already
says so. `PresenceImproves` follows at once: a save that is carried out was owed, so it says what is so.

**AuthSessionsProofs.** `Standing`: who is in has the entry and no logout at work, who is out has none and no
sign-in at work. `Clean`: a request that has met none of the other kind finds no such request in flight, and
after its command the entry is as it left it. `Held`: while a request relies on a standing, the entry and the
absence of requests of the other kind persist. `SignedInServed` and `LoggedOutRefused` follow.

**UnreadCounterProofs.** `OfItsChat`: a message that was ever in the table has one chat, and every copy of it, in
`found` or `loaded`, has that chat too, so that even a save that inserts it again changes no chat but its own.
`AnswersAreTrue`: the answer a handler holds, if not `outdated`, is today's number. `ShownOrDue`: the screen of a
user who has `missed` nothing is right, or a number for it is still to be counted or published. What makes
`ShownOrDue` stay is `ChangesAreLocal`: a handler changes the numbers of nobody but those it counts for afterwards,
unless it saves outdated copies; and publishing an answer that is true makes the screen right whatever came
before. `BadgesRight` is a fact about the two queries in every state.

**ChatPagingProofs.** `LastPageIsAll`: a page that is not full has everything the client lacks of the chats
that were there all the time. It holds because `Limit` rows are taken of those eligible, and what leaves
between the two queries is no longer one of them. `PageIsNew`: a page by ids has nothing the client already has,
and a full page by number is within the chats there are; from it `PagesProgress`, the measure by which a listing
ends (`ListingEnds` itself needs fairness).

**ChatDirectoryProofs.** `DialogsAreOfTwo`, from which the search is exact, and `Known`: a `createDialog`
that is not stale is about to save for the first time while its users have no dialog, and for the second while
they have none or its own. Whatever another slot saves makes the slots it overtakes stale (`Outdates`), so the
step that adds a dialog finds none or is excused; `OneDialogOnly` follows for every history, however many
duplicates it already has.

**FileStoreProofs.** A lemma on `filesGrouping` (`GroupingIsRight`), for any sequence of files: every name of
the request is in a group, and a group joins a file with the crop of its own name; it rests on the names' first
places in the sequence, which are finitely many. On top of it, per upload: `Accounted` (the objects in the
bucket are those of the rows to be saved and what the current group has put), `RowsAreMade`, `Covered` (every
name is in a group to come or in a row). `UploadsKeepPromise` maps every action to a step of UploadPromise or a
stutter, `SaveRows` to the one in which all rows appear; that every name is among them and every crop beside its
file comes from `Inductive`.

**MessageFeedProofs.** `ListsAreRight` says nothing while something is still owed, so the invariant says,
message by message, what the handlers still to publish know of it. `Ordered`: of two that owe an event about
a message one is the later. `NewestTells`: the newest of them, if its event is not outdated, has the row that is in
the table. `PresenceTold`: the newest of those that created or removed it, or saved it back (`ComesOrGoes`), tells
whether it is there. `SamePresence` and `SameRow`: a list that missed nothing shows who is there when nobody is left
to tell otherwise, and the rows as they are when nobody is left to tell anything. `FoundBefore` and `RestIsGone`
are for `clear-chat`, which is late twice: what it has not found is not there, unless a later handler has created it
or brought it back (`Brings`). Every handler that changes the tables enters through one lemma (`EffectKeeps`): its
event tells what it made of the messages it is about, or is outdated for them at once. `ListsRight` follows from
`SameRow`.

**Model-checked only**: liveness (`EventuallyOnline`, `UploadsEnd`, `ListingEnds`), which the prover cannot do.

## 5. What the models showed

The two violated runs, with the lines where they bite:

1. `messages.service.ts:187`: the find of `read-messages` names a relation that does not exist and is rejected
   by TypeORM 0.3, so no receipt is ever stored; `edit-message` (line 145) and `change-status-messages` (line 223)
   end the same way.
2. `chats.gateway.v1.ts:129`: `getSocket(userId).id`, evaluated for a log line, throws when the creator of a chat
   has gone, before the members join and are told.

Found while modelling, in the models as the code has it, and without a run of its own:

* `messages.service.ts:206`: once its find succeeds, a `save` of copies found before a message was deleted inserts
  it again; clients have been told it is gone, and the event of the save does not add it to their lists
  (`ListsAreRight` leaves it out until the next list), nor does anybody count for the others (`ShownIsRight`).
* `messages.service.ts:196`: of two concurrent `read-messages` the second saves the array it had read, and a
  receipt of the first is lost. MessageVersions allows it, and says that nothing worse happens;
  `OnlyOverlapUndoes` says when it happens.
* `chats.gateway.v1.ts:484`: counts are published in the order in which their answers arrive, an older one last.
* `messages.service.ts:149`: `edit-message` never assigns `payload.text`, and publishes the old text.
* `chats.service.ts:507`: an empty `filesIds` array is truthy, so an empty message passes the check.
* `chats.gateway.v1.ts:139`: members connected to another process are not in the map, do not join the room of
  a new chat and are not told.
* `chats.gateway.v1.ts:303`: the event of a deletion goes to the chat the client names, which nobody compares
  with the chat of the message. Line 326: no socket leaves the room of a deleted chat.
* `chats.gateway.v1.ts:329`: `delete-chat` asks for the users of the chat it has removed, which throws: nobody
  gets the new count. Line 198: when the sender has gone, the counts of all members are skipped.
* `chats.service.ts:329`: `isNotReadMessagesCount` has `ANY` where line 243 has `ALL`, so it counts a message
  for a user who has read it once somebody else has as well (`BadgesAgree` draws the line).
* `chats.controller.v1.ts:28`: `GET chats/:chatId` is declared before `GET chats/search` (line 44), and answers
  its requests.
* `s3.service.ts:71`: an error of S3 is thrown in a callback; the promise never settles (`stuck` in
  FileStore) or the process ends.
* `files-grouping.helper.ts:24`: a second file of the same name in a request is dropped.
  `get-file-format-and-validate.helper.ts:11`: sizes are rounded down before they are compared.
* `chats.service.ts:397`: the search of `create-chat` asks for one user who is both and finds nothing.
  Line 92: `getChatIdBetweenUsers` may answer with a chat of only one of the two.
* `repository.helper.ts:40`: pages are cut from rows in no order, so a client that counts pages may miss some.
* `auth.service.ts:77`: a logout on one device logs out all of them, as there is one entry per user; the
  gateway does not look at the entry and lets a logged-out user connect until the token expires.
* `getChatMessages` and `getChatsMessagesBySearch` join the same `files`. `getChatsBySearch` names a column
  `username` that users do not have. `files.service.ts:59` selects `id` and `path`
  only, so its branch for videos is dead.

## 6. Plan

Done: all modules of section 2, with proofs of every safety and action property that a passing run checks and of
both refinements. What is left, in this order:

1. Gateway with several sockets per user and several processes at once in one run, with faults; an abstract
   "room" specification for it.
2. MessageFeed for several chats, so that an event may go to the wrong one (`chats.gateway.v1.ts:303`).
3. A refinement of MessageStore by MessageFeed and UnreadCounter, whose statements are the same, by a mapping of
   slots.

## 7. Not modelled

* Queries that change nothing: searches of chats and messages (`getChatsBySearch`, `getChatIdBetweenUsers`,
  `getChatMessages`, `getChatsMessagesBySearch`), users, companies, file reads. Wiring,
  configuration, DTO validation (its effects are guards), formats of answers, logging.
* The refresh of tokens: its end-point is commented out. Devices of a user, and the contents of tokens.
* `FilesService.removeFiles`, `linkingFiles`, `ChatsService.update`, `RedisManagerService.scanWithValues` and the
  time to live of `set`, and the generators of `CryptoService`, none of which has a caller.
* Sockets that connect with a bad token. `getUserIdFromToken` is awaited outside the `try` of `handleConnection`
  (`chats.gateway.v1.ts:57`), so the handler rejects before the socket is in the map or a room: it is not
  disconnected and stays without either, as nothing here tells from a socket that is not there. (The same call in
  `handleDisconnect`, line 89, is in ChatGateway: the entry stays.) Typing events, which change no state;
  rooms of single users; names and avatars of chats.
* Lists of ids with duplicates, and ids of users that do not exist.
