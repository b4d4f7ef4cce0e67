----------------------------- MODULE ChatGateway -----------------------------
(***************************************************************************)
(* The connections of ChatsGatewayV1: which socket stands for a user, which *)
(* rooms it is in, who hears of a new chat, and whether the database says   *)
(* that a user is online.                                                   *)
(*                                                                          *)
(* One action is what a handler does between two awaits.  verifyJwt only    *)
(* awaits computations, so handleConnection up to its queries and all of    *)
(* handleDisconnect are one step.  Promises nobody awaits (updateOnline)    *)
(* become writes that are owed to the database.                             *)
(*                                                                          *)
(* Several processes (Nodes) may serve the same database; each has its own  *)
(* map from users to sockets.  A process reaches the sockets of another one *)
(* once both have replaced socket.io's in-memory adapter by the Redis one.  *)
(***************************************************************************)
EXTENDS FiniteSets, Naturals

CONSTANTS
  Users,     \* user ids
  Sockets,   \* socket ids; socket.io never uses one twice
  Chats,     \* ids the database may give to new chats
  Nodes,     \* the processes that run the server
  Owner,     \* Owner[s]: the user in the access token of s
  At,        \* At[s]: the process s connects to
  Faults,    \* what may happen besides: a subset of AllFaults
  NoSocket,  \* the user has no entry in the map
  NoJob      \* the chat was never asked for

(* A rejected query, an expired token, the change to the Redis adapter     *)
(* after clients have connected, the end of a process.                     *)
AllFaults == {"reject", "expiry", "adapter", "restart"}

(* A create-chat handler: who asked which process, whom it invites, and    *)
(* what it is doing.                                                       *)
Job == [by : Users, node : Nodes, invited : SUBSET Users,
        at : {"saving", "saved", "done", "failed"}]

ASSUME ChatGatewayAssumption ==
  /\ Owner \in [Sockets -> Users]
  /\ At \in [Sockets -> Nodes]
  /\ Faults \subseteq AllFaults
  /\ NoSocket \notin Sockets
  /\ NoJob \notin Job

VARIABLES
  (* in the processes *)
  live,      \* the sockets that are connected
  phase,     \* how far handleConnection is for each socket
  query,     \* the chats getUserChatsIds returned to it
  sockets,   \* sockets[n][u]: the map of process n
  rooms,     \* the chat rooms each socket is in
  creating,  \* the create-chat handler of each chat
  owed,      \* owed[n][u][b]: saves of isOnline = b that n has yet to do
  redis,     \* the processes that run on the Redis adapter
  early,     \* sockets that connected before their process did
  (* in the database *)
  members,   \* members[c]; a chat without members does not exist
  online,    \* users.isOnline
  (* elsewhere *)
  expired,   \* sockets whose access token has expired
  heard,     \* heard[c]: the sockets that were sent CREATED_CHAT for c
  overlap    \* history: users whose last connect or disconnect overlapped

connections == <<live, phase, query, sockets, rooms>>
presence    == <<owed, online, overlap>>
adapters    == <<redis, early>>
creation    == <<creating, members, heard>>
vars == <<live, phase, query, sockets, rooms, creating, owed, redis, early,
          members, online, expired, heard, overlap>>

Phases == {"none", "querying", "joining", "ready", "failed"}

TypeOK ==
  /\ live \in SUBSET Sockets
  /\ phase \in [Sockets -> Phases]
  /\ query \in [Sockets -> SUBSET Chats]
  /\ sockets \in [Nodes -> [Users -> Sockets \cup {NoSocket}]]
  /\ rooms \in [Sockets -> SUBSET Chats]
  /\ creating \in [Chats -> Job \cup {NoJob}]
  /\ owed \in [Nodes -> [Users -> [BOOLEAN -> Nat]]]
  /\ redis \in SUBSET Nodes
  /\ early \in SUBSET Sockets
  /\ members \in [Chats -> SUBSET Users]
  /\ online \in [Users -> BOOLEAN]
  /\ expired \in SUBSET Sockets
  /\ heard \in [Chats -> SUBSET Sockets]
  /\ overlap \in [Users -> BOOLEAN]

NoEntries == [u \in Users |-> NoSocket]
NothingOwed == [u \in Users |-> [b \in BOOLEAN |-> 0]]

Init ==
  /\ live = {}
  /\ phase = [s \in Sockets |-> "none"]
  /\ query = [s \in Sockets |-> {}]
  /\ sockets = [n \in Nodes |-> NoEntries]
  /\ rooms = [s \in Sockets |-> {}]
  /\ creating = [c \in Chats |-> NoJob]
  /\ owed = [n \in Nodes |-> NothingOwed]
  /\ redis = {}
  /\ early = {}
  /\ members = [c \in Chats |-> {}]
  /\ online = [u \in Users |-> FALSE]
  /\ expired = {}
  /\ heard = [c \in Chats |-> {}]
  /\ overlap = [u \in Users |-> FALSE]

-----------------------------------------------------------------------------
(* Helpers *)

(* Handlers of the user's sockets are running, or saves are owed for it.   *)
Unsettled(u) ==
  \/ \E s \in Sockets : Owner[s] = u /\ phase[s] \in {"querying", "joining"}
  \/ \E n \in Nodes, b \in BOOLEAN : owed[n][u][b] > 0

OthersLive(s) == \E t \in live \ {s} : Owner[t] = Owner[s]

Note(u, overlaps) == overlap' = [overlap EXCEPT ![u] = overlaps]

Owe(n, u, b, k) == [owed EXCEPT ![n][u][b] = @ + k]

(* this.server.sockets.get(this.sockets.get(userId)): the entry, if its    *)
(* socket is still connected.                                              *)
SocketsOf(n, U) == {s \in live : \E u \in U : sockets[n][u] = s}

(* The map after the disconnection of s.  With an expired token verifyJwt  *)
(* rejects, and the rest of handleDisconnect is not run.                   *)
ForgetNothing(s) == sockets
Forget(s) ==
  IF s \in expired THEN sockets
  ELSE [sockets EXCEPT ![At[s]][Owner[s]] = NoSocket]

OfflineForgotten(s) == 0
OfflineOwed(s) == IF s \in expired THEN 0 ELSE 1

-----------------------------------------------------------------------------
(* handleConnection *)

(* sockets.set, and the rooms of the user (not modelled: the user's own).  *)
Connect(s) ==
  /\ phase[s] = "none"
  /\ s \notin expired
  /\ live' = live \cup {s}
  /\ phase' = [phase EXCEPT ![s] = "querying"]
  /\ sockets' = [sockets EXCEPT ![At[s]][Owner[s]] = s]
  /\ Note(Owner[s], OthersLive(s) \/ Unsettled(Owner[s]))
  /\ UNCHANGED <<query, rooms, creation, owed, online, adapters, expired>>

(* getUserChatsIds; the unread count of the same Promise.all changes       *)
(* nothing.                                                                *)
ChatsCreatedBy(u) == {c \in Chats : u \in members[c] /\ creating[c].by = u}
ChatsOf(u) == {c \in Chats : u \in members[c]}
Query(s) ==
  /\ phase[s] = "querying"
  /\ phase' = [phase EXCEPT ![s] = "joining"]
  /\ query' = [query EXCEPT ![s] = ChatsOf(Owner[s])]
  /\ UNCHANGED <<live, sockets, rooms, creation, presence, adapters, expired>>

(* The queries are done: updateOnline(userId, true), which is two saves,   *)
(* and joinRooms.  A socket that disconnected meanwhile joins nothing, and *)
(* what an early socket joins no longer counts.                            *)
Join(s) ==
  /\ phase[s] = "joining"
  /\ phase' = [phase EXCEPT ![s] = "ready"]
  /\ rooms' = IF s \in live \ early
                THEN [rooms EXCEPT ![s] = @ \cup query[s]] ELSE rooms
  /\ query' = [query EXCEPT ![s] = {}]
  /\ owed' = Owe(At[s], Owner[s], TRUE, 2)
  /\ UNCHANGED <<live, sockets, creation, online, overlap, adapters, expired>>

(* A query is rejected: updateOnline(userId, false) and socket.disconnect, *)
(* which, unless the socket is gone, runs handleDisconnect.                *)
RejectConnection(s) ==
  /\ "reject" \in Faults
  /\ phase[s] \in {"querying", "joining"}
  /\ phase' = [phase EXCEPT ![s] = "failed"]
  /\ query' = [query EXCEPT ![s] = {}]
  /\ live' = live \ {s}
  /\ rooms' = [rooms EXCEPT ![s] = {}]
  /\ IF s \in live
       THEN /\ sockets' = Forget(s)
            /\ owed' = Owe(At[s], Owner[s], FALSE, 1 + OfflineOwed(s))
       ELSE /\ owed' = Owe(At[s], Owner[s], FALSE, 1)
            /\ UNCHANGED sockets
  /\ UNCHANGED <<creation, online, overlap, adapters, expired>>

-----------------------------------------------------------------------------
(* handleDisconnect: the client or the network closes s.  It removes the   *)
(* user's entry from the map whichever socket the entry is for.            *)
Disconnect(s) ==
  /\ s \in live
  /\ live' = live \ {s}
  /\ rooms' = [rooms EXCEPT ![s] = {}]
  /\ sockets' = Forget(s)
  /\ owed' = Owe(At[s], Owner[s], FALSE, OfflineOwed(s))
  /\ Note(Owner[s], OthersLive(s) \/ Unsettled(Owner[s]) \/ s \in expired)
  /\ UNCHANGED <<phase, query, creation, online, adapters, expired>>

(* A save of updateOnline reaches the database.                            *)
DueOnceMore(n, u, b) == owed[n][u][b] >= 0
DueOffline(n, u, b) == ~b /\ owed[n][u][b] > 0
Due(n, u, b) == owed[n][u][b] > 0
SaveOnline(n, u, b) ==
  /\ Due(n, u, b)
  /\ owed' = [owed EXCEPT ![n][u][b] = @ - 1]
  /\ online' = [online EXCEPT ![u] = b]
  /\ UNCHANGED <<connections, creation, overlap, adapters, expired>>

ExpireToken(s) ==
  /\ "expiry" \in Faults
  /\ s \in live
  /\ s \notin expired
  /\ expired' = expired \cup {s}
  /\ UNCHANGED <<connections, creation, presence, adapters>>

-----------------------------------------------------------------------------
(* create-chat and create-group-chat.  WsAccessTokenGuard rejects an       *)
(* expired token.                                                          *)
RequestChat(s, c, invited) ==
  /\ s \in live \ expired
  /\ creating[c] = NoJob
  /\ creating' = [creating EXCEPT ![c] =
       [by |-> Owner[s], node |-> At[s], invited |-> invited, at |-> "saving"]]
  /\ UNCHANGED <<connections, presence, adapters, members, expired, heard>>

Reach(c, where) == creating' = [creating EXCEPT ![c].at = where]

Invited(c) == creating[c].invited \cup {creating[c].by}

IsAt(c, where) == creating[c] # NoJob /\ creating[c].at = where

(* The chat and its members are saved in one transaction.                  *)
SaveChat(c) ==
  /\ IsAt(c, "saving")
  /\ Reach(c, "saved")
  /\ members' = [members EXCEPT ![c] = Invited(c)]
  /\ UNCHANGED <<connections, presence, adapters, expired, heard>>

SaveChatFails(c) ==
  /\ IsAt(c, "saving")
  /\ Reach(c, "failed")
  /\ UNCHANGED <<connections, presence, adapters, members, expired, heard>>

(* The sockets a broadcast from process n reaches. *)
Reached(n, c, inRooms) ==
  {s \in live : c \in inRooms[s] /\ (At[s] = n \/ {n, At[s]} \subseteq redis)}

(* Back in the handler: the sockets that the map has for the members join  *)
(* the room, then the chat is published to the room.                       *)
JoiningAll(c) == live \ early
Joining(c) == SocketsOf(creating[c].node, Invited(c)) \ early

Announce(c) ==
  LET n == creating[c].node
      joined == [s \in Sockets |->
                   IF s \in Joining(c) THEN rooms[s] \cup {c} ELSE rooms[s]]
  IN  /\ IsAt(c, "saved")
      /\ SocketsOf(n, {creating[c].by}) # {}
      /\ Reach(c, "done")
      /\ rooms' = joined
      /\ heard' = [heard EXCEPT ![c] = Reached(n, c, joined)]
      /\ UNCHANGED <<live, phase, query, sockets, members, presence, adapters,
                     expired>>

(* this.getSocket(userId).id of the log line throws when the creator has   *)
(* no connected socket in the map: nobody joins, nobody is told.           *)
AnnounceThrows(c) ==
  /\ IsAt(c, "saved")
  /\ SocketsOf(creating[c].node, {creating[c].by}) = {}
  /\ Reach(c, "failed")
  /\ UNCHANGED <<connections, presence, adapters, members, expired, heard>>

(* delete-chat removes the chat; no socket leaves its room.                *)
DeleteChat(s, c) ==
  /\ s \in live \ expired
  /\ Owner[s] \in members[c]
  /\ members' = [members EXCEPT ![c] = {}]
  /\ UNCHANGED <<connections, presence, adapters, creating, expired, heard>>

-----------------------------------------------------------------------------
(* The processes *)

(* RedisAdapter: the clients have connected and server.adapter replaces    *)
(* the adapter; the rooms of the sockets connected so far stay behind.     *)
InstallRedis(n) ==
  LET before == {s \in live : At[s] = n}
  IN  /\ "adapter" \in Faults
      /\ n \notin redis
      /\ redis' = redis \cup {n}
      /\ early' = early \cup before
      /\ rooms' = [s \in Sockets |-> IF s \in before THEN {} ELSE rooms[s]]
      /\ UNCHANGED <<live, phase, query, sockets, creation, presence, expired>>

(* The process dies (a rejected updateOnline that nobody awaits is enough) *)
(* and starts again.                                                       *)
Restart(n) ==
  LET here(s) == At[s] = n /\ phase[s] # "none"
  IN  /\ "restart" \in Faults
      /\ live' = {s \in live : At[s] # n}
      /\ phase' = [s \in Sockets |-> IF here(s) THEN "failed" ELSE phase[s]]
      /\ query' = [s \in Sockets |-> IF here(s) THEN {} ELSE query[s]]
      /\ sockets' = [sockets EXCEPT ![n] = NoEntries]
      /\ rooms' = [s \in Sockets |-> IF here(s) THEN {} ELSE rooms[s]]
      /\ creating' = [c \in Chats |->
           IF creating[c] # NoJob /\ creating[c].node = n
              /\ creating[c].at \in {"saving", "saved"}
             THEN [creating[c] EXCEPT !.at = "failed"] ELSE creating[c]]
      /\ owed' = [owed EXCEPT ![n] = NothingOwed]
      /\ overlap' = [u \in Users |->
           \/ overlap[u]
           \/ \E s \in Sockets : Owner[s] = u /\ here(s) /\ s \in live
           \/ Unsettled(u)]
      /\ redis' = redis \ {n}
      /\ UNCHANGED <<early, members, online, expired, heard>>

-----------------------------------------------------------------------------
Handler(s) == Query(s) \/ Join(s)

Creation(c) == SaveChat(c) \/ Announce(c) \/ AnnounceThrows(c)

Next ==
  \/ \E s \in Sockets : \/ Connect(s)
                        \/ Handler(s)
                        \/ RejectConnection(s)
                        \/ Disconnect(s)
                        \/ ExpireToken(s)
  \/ \E n \in Nodes, u \in Users, b \in BOOLEAN : SaveOnline(n, u, b)
  \/ \E s \in Sockets, c \in Chats :
       \/ \E invited \in SUBSET Users : RequestChat(s, c, invited)
       \/ DeleteChat(s, c)
  \/ \E c \in Chats : Creation(c) \/ SaveChatFails(c)
  \/ \E n \in Nodes : InstallRedis(n) \/ Restart(n)

(* The event loop serves every continuation and the database answers; no   *)
(* client has to do anything.                                              *)
Fairness ==
  /\ \A s \in Sockets : WF_vars(Handler(s))
  /\ \A c \in Chats : WF_vars(Creation(c))
  /\ \A n \in Nodes, u \in Users, b \in BOOLEAN : WF_vars(SaveOnline(n, u, b))

Spec == Init /\ [][Next]_vars /\ Fairness

-----------------------------------------------------------------------------
(* Properties *)

Registered(s) == s \in live /\ sockets[At[s]][Owner[s]] = s

(* The map never leads to a socket of another user or process, nor, unless *)
(* its token expired first, to one that is gone.                           *)
EntriesAreLive ==
  \A n \in Nodes, u \in Users : sockets[n][u] # NoSocket =>
    LET s == sockets[n][u]
    IN  Owner[s] = u /\ At[s] = n /\ s \in live \cup expired

(* No socket is ever in the room of a chat its user was not invited to.    *)
RoomsHoldMembers ==
  \A s \in Sockets : \A c \in rooms[s] :
    creating[c] # NoJob /\ Owner[s] \in Invited(c)

(* A user who connects while a chat with it is being created misses it     *)
(* neither in the query nor in the announcement: once both handlers are    *)
(* done, the user's registered socket on the creating process is in the    *)
(* room.                                                                   *)
RoomCoverage ==
  \A s \in Sockets \ early, c \in Chats :
    /\ Registered(s) /\ phase[s] = "ready"
    /\ IsAt(c, "done") /\ creating[c].node = At[s]
    /\ Owner[s] \in members[c]
    => c \in rooms[s]

(* Whenever nothing is under way, isOnline says whether the user is        *)
(* connected, unless the last connect or disconnect came while the user    *)
(* had another socket or an earlier one was not settled.  So it may be     *)
(* wrong after a second tab, but not beyond the next separate connect or   *)
(* disconnect, however often the user overlapped before.                   *)
PresenceIsAccurate ==
  \A u \in Users : ~overlap[u] /\ ~Unsettled(u) =>
    online[u] = (\E s \in live : Owner[s] = u)

(* On the way there isOnline only ever improves: of all the saves that     *)
(* connects, rejected connects and disconnects leave unawaited, one that   *)
(* changes isOnline makes it right, and none flips it back for a while,    *)
(* unless the last connect or disconnect overlapped.                       *)
PresenceOnlyImproves ==
  [][\A u \in Users : ~overlap[u] /\ online'[u] # online[u] =>
       online'[u] = (\E s \in live : Owner[s] = u)]_vars

(* A user who stays connected, without overlap, is online in the end, and *)
(* stays so: no save it caused is left to undo it.                         *)
StaysConnected(u) == ~overlap[u] /\ \E s \in live : Owner[s] = u
EventuallyOnline ==
  \A u \in Users : <>[]StaysConnected(u) => <>[]online[u]

(* chat-events-descriptions.enum.ts:3: CREATED_CHAT is how a client gets   *)
(* the created chat.  When the handler ends, every socket of a member      *)
(* whose connection is set up has been sent it.                            *)
CreatedChatIsAnnounced ==
  [][\A c \in Chats : IsAt(c, "saved") /\ ~IsAt(c, "saved")' /\ live' = live
       => {s \in live : phase[s] = "ready" /\ Owner[s] \in members[c]}
            \subseteq heard'[c]]_vars
=============================================================================
