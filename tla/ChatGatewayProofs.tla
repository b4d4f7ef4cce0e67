-------------------------- MODULE ChatGatewayProofs --------------------------
(* Theorems about ChatGateway, for any number of users, sockets, chats and  *)
(* processes and for every combination of faults.                           *)
EXTENDS ChatGateway, TLAPS

-----------------------------------------------------------------------------
(* Types *)

LEMMA OweType ==
  ASSUME TypeOK, NEW n \in Nodes, NEW u \in Users, NEW b \in BOOLEAN, NEW k \in Nat
  PROVE  Owe(n, u, b, k) \in [Nodes -> [Users -> [BOOLEAN -> Nat]]]
<1>1. owed[n][u][b] + k \in Nat
  BY DEF TypeOK
<1>2. [owed[n][u] EXCEPT ![b] = @ + k] \in [BOOLEAN -> Nat]
  BY <1>1 DEF TypeOK
<1>3. [owed[n] EXCEPT ![u] = [owed[n][u] EXCEPT ![b] = @ + k]]
        \in [Users -> [BOOLEAN -> Nat]]
  BY <1>2 DEF TypeOK
<1> QED BY <1>3 DEF TypeOK, Owe

LEMMA ForgetType ==
  ASSUME TypeOK, NEW s \in Sockets
  PROVE  Forget(s) \in [Nodes -> [Users -> Sockets \cup {NoSocket}]]
BY ChatGatewayAssumption DEF TypeOK, Forget

LEMMA OfflineType == \A s \in Sockets : OfflineOwed(s) \in {0, 1}
BY DEF OfflineOwed

LEMMA ReachType ==
  ASSUME TypeOK, NEW c \in Chats, creating[c] # NoJob,
         NEW where \in {"saving", "saved", "done", "failed"}, Reach(c, where)
  PROVE  creating' \in [Chats -> Job \cup {NoJob}]
<1>1. creating \in [Chats -> Job \cup {NoJob}] /\ creating[c] \in Job
  BY DEF TypeOK
<1>2. [creating[c] EXCEPT !.at = where] \in Job
  BY <1>1 DEF Job
<1>3. creating' = [creating EXCEPT ![c] = [creating[c] EXCEPT !.at = where]]
  BY DEF Reach
<1> HIDE DEF Job
<1> QED BY <1>1, <1>2, <1>3

LEMMA InvitedType ==
  ASSUME TypeOK, NEW c \in Chats, creating[c] # NoJob
  PROVE  Invited(c) \in SUBSET Users
BY DEF TypeOK, Invited, Job

LEMMA TypeInit == Init => TypeOK
BY DEF Init, TypeOK, Phases, NoEntries, NothingOwed

LEMMA SocketType ==
  ASSUME TypeOK, NEW s \in Sockets,
         Connect(s) \/ Handler(s) \/ RejectConnection(s) \/ Disconnect(s)
           \/ ExpireToken(s)
  PROVE  TypeOK'
<1>0. At[s] \in Nodes /\ Owner[s] \in Users
  BY ChatGatewayAssumption
<1>1. CASE Connect(s)
  BY <1>0, <1>1 DEF TypeOK, Connect, Note, Phases, creation, adapters
<1>2. CASE Query(s)
  <2>1. ChatsOf(Owner[s]) \in SUBSET Chats
    BY DEF ChatsOf
  <2> QED BY <1>2, <2>1 DEF TypeOK, Query, Phases, creation, presence, adapters
<1>3. CASE Join(s)
  <2>1. owed' \in [Nodes -> [Users -> [BOOLEAN -> Nat]]]
    <3>1. 2 \in Nat
      OBVIOUS
    <3>2. owed' = Owe(At[s], Owner[s], TRUE, 2)
      BY <1>3 DEF Join
    <3> QED BY <1>0, <3>1, <3>2, OweType
  <2>2. rooms' \in [Sockets -> SUBSET Chats]
    BY <1>3 DEF TypeOK, Join
  <2> QED BY <1>3, <2>1, <2>2 DEF TypeOK, Join, Phases, creation, adapters
<1>4. CASE RejectConnection(s)
  <2>1. owed' \in [Nodes -> [Users -> [BOOLEAN -> Nat]]]
    <3>1. PICK k \in {1, 1 + OfflineOwed(s)} : owed' = Owe(At[s], Owner[s], FALSE, k)
      BY <1>4 DEF RejectConnection
    <3>2. k \in Nat
      BY OfflineType
    <3> QED BY <1>0, <3>1, <3>2, OweType
  <2>2. sockets' \in [Nodes -> [Users -> Sockets \cup {NoSocket}]]
    BY <1>4, ForgetType DEF RejectConnection, TypeOK
  <2> QED BY <1>4, <2>1, <2>2 DEF TypeOK, RejectConnection, Phases, creation, adapters
<1>5. CASE Disconnect(s)
  <2>1. owed' \in [Nodes -> [Users -> [BOOLEAN -> Nat]]]
    <3>1. OfflineOwed(s) \in Nat
      BY OfflineType
    <3> QED BY <1>0, <1>5, <3>1, OweType DEF Disconnect
  <2>2. sockets' \in [Nodes -> [Users -> Sockets \cup {NoSocket}]]
    BY <1>5, ForgetType DEF Disconnect
  <2> QED BY <1>0, <1>5, <2>1, <2>2 DEF TypeOK, Disconnect, Note, creation, adapters
<1>6. CASE ExpireToken(s)
  BY <1>6 DEF TypeOK, ExpireToken, connections, creation, presence, adapters
<1> QED BY <1>1, <1>2, <1>3, <1>4, <1>5, <1>6 DEF Handler

LEMMA ChatType ==
  ASSUME TypeOK, NEW c \in Chats,
         \/ Creation(c) \/ SaveChatFails(c)
         \/ \E s \in Sockets : \/ \E invited \in SUBSET Users : RequestChat(s, c, invited)
                               \/ DeleteChat(s, c)
  PROVE  TypeOK'
<1>1. CASE SaveChat(c)
  <2>1. creating' \in [Chats -> Job \cup {NoJob}] /\ Invited(c) \in SUBSET Users
    BY <1>1, ReachType, InvitedType DEF SaveChat, IsAt
  <2> QED BY <1>1, <2>1 DEF TypeOK, SaveChat, connections, presence, adapters
<1>2. CASE Announce(c)
  <2>1. creating' \in [Chats -> Job \cup {NoJob}]
    BY <1>2, ReachType DEF Announce, IsAt
  <2>2. rooms' \in [Sockets -> SUBSET Chats]
    BY <1>2 DEF TypeOK, Announce
  <2>3. heard' \in [Chats -> SUBSET Sockets]
    BY <1>2 DEF TypeOK, Announce, Reached
  <2> QED BY <1>2, <2>1, <2>2, <2>3 DEF TypeOK, Announce, presence, adapters
<1>3. CASE AnnounceThrows(c)
  <2>1. creating' \in [Chats -> Job \cup {NoJob}]
    BY <1>3, ReachType DEF AnnounceThrows, IsAt
  <2> QED BY <1>3, <2>1 DEF TypeOK, AnnounceThrows, connections, presence, adapters
<1>4. CASE SaveChatFails(c)
  <2>1. creating' \in [Chats -> Job \cup {NoJob}]
    BY <1>4, ReachType DEF SaveChatFails, IsAt
  <2> QED BY <1>4, <2>1 DEF TypeOK, SaveChatFails, connections, presence, adapters
<1>5. ASSUME NEW s \in Sockets, NEW invited \in SUBSET Users, RequestChat(s, c, invited)
      PROVE  TypeOK'
  <2>1. [by |-> Owner[s], node |-> At[s], invited |-> invited, at |-> "saving"] \in Job
    BY ChatGatewayAssumption DEF Job
  <2> QED BY <1>5, <2>1 DEF TypeOK, RequestChat, connections, presence, adapters
<1>6. ASSUME NEW s \in Sockets, DeleteChat(s, c)
      PROVE  TypeOK'
  BY <1>6 DEF TypeOK, DeleteChat, connections, presence, adapters
<1> QED BY <1>1, <1>2, <1>3, <1>4, <1>5, <1>6 DEF Creation

LEMMA ProcessType ==
  ASSUME TypeOK, NEW n \in Nodes, InstallRedis(n) \/ Restart(n)
  PROVE  TypeOK'
<1>1. CASE InstallRedis(n)
  BY <1>1 DEF TypeOK, InstallRedis, creation, presence
<1>2. CASE Restart(n)
  <2>1. /\ live' \in SUBSET Sockets
        /\ phase' \in [Sockets -> Phases]
        /\ query' \in [Sockets -> SUBSET Chats]
        /\ rooms' \in [Sockets -> SUBSET Chats]
    BY <1>2 DEF TypeOK, Restart, Phases
  <2>2. /\ sockets' \in [Nodes -> [Users -> Sockets \cup {NoSocket}]]
        /\ owed' \in [Nodes -> [Users -> [BOOLEAN -> Nat]]]
    BY <1>2 DEF TypeOK, Restart, NoEntries, NothingOwed
  <2>3. creating' \in [Chats -> Job \cup {NoJob}]
    <3>1. \A job \in Job : [job EXCEPT !.at = "failed"] \in Job
      BY DEF Job
    <3> QED BY <1>2, <3>1 DEF TypeOK, Restart
  <2>4. overlap' \in [Users -> BOOLEAN]
    <3> DEFINE lost(u) == \E s \in Sockets : /\ Owner[s] = u
                                              /\ At[s] = n /\ phase[s] # "none"
                                              /\ s \in live
    <3>1. overlap' = [u \in Users |-> overlap[u] \/ lost(u) \/ Unsettled(u)]
      BY <1>2 DEF Restart
    <3> HIDE DEF lost
    <3>2. \A u \in Users : (overlap[u] \/ lost(u) \/ Unsettled(u)) \in BOOLEAN
      BY Zenon
    <3> QED BY <3>1, <3>2
  <2> QED BY <1>2, <2>1, <2>2, <2>3, <2>4 DEF TypeOK, Restart
<1> QED BY <1>1, <1>2

LEMMA SaveOnlineType ==
  ASSUME TypeOK, NEW n \in Nodes, NEW u \in Users, NEW b \in BOOLEAN,
         SaveOnline(n, u, b)
  PROVE  TypeOK'
<1>1. owed[n][u][b] - 1 \in Nat
  BY DEF TypeOK, SaveOnline, Due
<1>2. [owed[n][u] EXCEPT ![b] = @ - 1] \in [BOOLEAN -> Nat]
  BY <1>1 DEF TypeOK
<1>3. owed' \in [Nodes -> [Users -> [BOOLEAN -> Nat]]]
  BY <1>2 DEF TypeOK, SaveOnline
<1> QED BY <1>3 DEF TypeOK, SaveOnline, connections, creation, adapters

LEMMA TypeStep == TypeOK /\ [Next]_vars => TypeOK'
<1> SUFFICES ASSUME TypeOK, [Next]_vars PROVE TypeOK'
  OBVIOUS
<1>1. CASE UNCHANGED vars
  BY <1>1 DEF TypeOK, vars
<1>2. CASE Next
  BY <1>2, SocketType, ChatType, ProcessType, SaveOnlineType DEF Next
<1> QED BY <1>1, <1>2

(* Every variable keeps its type; in particular no process owes a negative  *)
(* number of saves.                                                         *)
THEOREM TypeCorrect == Spec => []TypeOK
BY TypeInit, TypeStep, PTL DEF Spec

-----------------------------------------------------------------------------
(* The rooms                                                                *)

(* Only what has connected is live or in a room.                            *)
Started ==
  \A s \in Sockets : s \in live \/ rooms[s] # {} \/ query[s] # {} => phase[s] # "none"

(* A chat has only the members it was created with.                         *)
MembersInvited ==
  \A c \in Chats : members[c] # {} =>
    creating[c] # NoJob /\ members[c] \subseteq Invited(c)

QuerySound ==
  \A s \in Sockets : \A c \in query[s] :
    creating[c] # NoJob /\ Owner[s] \in Invited(c)

(* The heart of RoomCoverage: between the entry in the map and the end of  *)
(* handleConnection, either the query is still to come, or it has found the *)
(* chat, or the announcement has reached the socket.                       *)
Covered(s, c) ==
  \/ c \in rooms[s]
  \/ phase[s] = "querying"
  \/ phase[s] = "joining" /\ c \in query[s]

Owed(s, c) ==
  /\ s \notin early
  /\ Registered(s)
  /\ IsAt(c, "done")
  /\ creating[c].node = At[s]
  /\ Owner[s] \in members[c]

Coverage == \A s \in Sockets, c \in Chats : Owed(s, c) => Covered(s, c)

Inductive ==
  /\ TypeOK
  /\ EntriesAreLive
  /\ Started
  /\ MembersInvited
  /\ QuerySound
  /\ RoomsHoldMembers
  /\ Coverage

LEMMA InductiveInit == Init => Inductive
BY TypeInit
   DEF Init, Inductive, EntriesAreLive, Started, MembersInvited, QuerySound,
       RoomsHoldMembers, Coverage, Owed, IsAt, NoEntries

(* Who was invited to a chat never changes once it has been asked for.     *)
LEMMA InvitedKept ==
  ASSUME NEW c \in Chats, creating[c] # NoJob,
         creating'[c] # NoJob, creating'[c].by = creating[c].by,
         creating'[c].invited = creating[c].invited
  PROVE  Invited(c)' = Invited(c)
BY DEF Invited

(* The conjuncts that only look at the rooms and the invitations.          *)
LEMMA SocketStep ==
  ASSUME Inductive, NEW s \in Sockets,
         Connect(s) \/ Handler(s) \/ RejectConnection(s) \/ Disconnect(s)
           \/ ExpireToken(s)
  PROVE  /\ EntriesAreLive' /\ Started' /\ MembersInvited' /\ QuerySound'
         /\ RoomsHoldMembers' /\ Coverage'
<1>0. /\ At[s] \in Nodes /\ Owner[s] \in Users /\ s # NoSocket
      /\ sockets \in [Nodes -> [Users -> Sockets \cup {NoSocket}]]
      /\ phase \in [Sockets -> Phases]
      /\ query \in [Sockets -> SUBSET Chats]
      /\ rooms \in [Sockets -> SUBSET Chats]
      /\ live \in SUBSET Sockets
  BY ChatGatewayAssumption DEF Inductive, TypeOK
<1>1. UNCHANGED <<creating, members, early>>
  BY DEF Connect, Handler, Query, Join, RejectConnection, Disconnect, ExpireToken,
         creation, adapters
<1>2. MembersInvited'
  BY <1>1 DEF Inductive, MembersInvited, Invited
<1>3. CASE Connect(s)
  <2>1. /\ live' = live \cup {s}
        /\ phase' = [phase EXCEPT ![s] = "querying"]
        /\ sockets' = [sockets EXCEPT ![At[s]][Owner[s]] = s]
        /\ UNCHANGED <<query, rooms, expired>>
    BY <1>3 DEF Connect
  <2>2. EntriesAreLive'
    BY <1>0, <2>1 DEF Inductive, EntriesAreLive
  <2>3. Started'
    BY <1>0, <2>1 DEF Inductive, Started
  <2>4. QuerySound' /\ RoomsHoldMembers'
    BY <1>1, <2>1 DEF Inductive, QuerySound, RoomsHoldMembers, Invited
  <2>5. ASSUME NEW t \in Sockets, NEW c \in Chats, Owed(t, c)'
        PROVE  Covered(t, c)'
    <3>1. CASE t = s
      BY <1>0, <2>1, <3>1 DEF Covered
    <3>2. CASE t # s
      <4>1. Registered(t)
        BY <1>0, <2>1, <2>5, <3>2, ChatGatewayAssumption DEF Owed, Registered
      <4>2. Owed(t, c)
        BY <1>1, <2>5, <4>1 DEF Owed, IsAt
      <4> QED BY <1>0, <2>1, <3>2, <4>2 DEF Inductive, Coverage, Covered
    <3> QED BY <3>1, <3>2
  <2> QED BY <1>2, <2>2, <2>3, <2>4, <2>5 DEF Coverage
<1>4. CASE Query(s)
  <2>1. /\ phase[s] = "querying"
        /\ phase' = [phase EXCEPT ![s] = "joining"]
        /\ query' = [query EXCEPT ![s] = ChatsOf(Owner[s])]
        /\ UNCHANGED <<live, sockets, rooms, expired>>
    BY <1>4 DEF Query
  <2>2. EntriesAreLive' /\ RoomsHoldMembers'
    BY <1>1, <2>1 DEF Inductive, EntriesAreLive, RoomsHoldMembers, Invited
  <2>3. Started'
    BY <1>0, <2>1 DEF Inductive, Started
  <2>4. QuerySound'
    <3>1. \A c \in ChatsOf(Owner[s]) : creating[c] # NoJob /\ Owner[s] \in Invited(c)
      BY DEF Inductive, MembersInvited, ChatsOf
    <3> QED BY <1>0, <1>1, <2>1, <3>1 DEF Inductive, QuerySound, Invited
  <2>5. ASSUME NEW t \in Sockets, NEW c \in Chats, Owed(t, c)'
        PROVE  Covered(t, c)'
    <3>1. Owed(t, c)
      BY <1>1, <2>1, <2>5 DEF Owed, Registered, IsAt
    <3>2. CASE t = s
      BY <1>0, <2>1, <3>1, <3>2 DEF Owed, Covered, ChatsOf
    <3>3. CASE t # s
      BY <1>0, <2>1, <3>1, <3>3 DEF Inductive, Coverage, Covered
    <3> QED BY <3>2, <3>3
  <2> QED BY <1>2, <2>2, <2>3, <2>4, <2>5 DEF Coverage
<1>5. CASE Join(s)
  <2>1. /\ phase[s] = "joining"
        /\ phase' = [phase EXCEPT ![s] = "ready"]
        /\ rooms' = IF s \in live \ early
                      THEN [rooms EXCEPT ![s] = @ \cup query[s]] ELSE rooms
        /\ query' = [query EXCEPT ![s] = {}]
        /\ UNCHANGED <<live, sockets, expired>>
    BY <1>5 DEF Join
  <2>2. EntriesAreLive'
    BY <2>1 DEF Inductive, EntriesAreLive
  <2>3. Started'
    BY <1>0, <2>1 DEF Inductive, Started
  <2>4. QuerySound'
    BY <1>0, <1>1, <2>1 DEF Inductive, QuerySound, Invited
  <2>5. RoomsHoldMembers'
    BY <1>0, <1>1, <2>1 DEF Inductive, QuerySound, RoomsHoldMembers, Invited
  <2>6. ASSUME NEW t \in Sockets, NEW c \in Chats, Owed(t, c)'
        PROVE  Covered(t, c)'
    <3>1. Owed(t, c) /\ t \in live \ early
      BY <1>1, <2>1, <2>6 DEF Owed, Registered, IsAt
    <3>2. Covered(t, c)
      BY <3>1 DEF Inductive, Coverage
    <3> QED BY <1>0, <2>1, <3>1, <3>2 DEF Covered
  <2> QED BY <1>2, <2>2, <2>3, <2>4, <2>5, <2>6 DEF Coverage
(* The socket is gone: its rooms are empty, and the entry of its user with *)
(* it, unless the token has expired.                                       *)
<1>6. ASSUME live' = live \ {s}, rooms' = [rooms EXCEPT ![s] = {}],
             sockets' = Forget(s) \/ (s \notin live /\ UNCHANGED sockets),
             \/ UNCHANGED <<phase, query>>
             \/ /\ phase' = [phase EXCEPT ![s] = "failed"]
                /\ query' = [query EXCEPT ![s] = {}],
             UNCHANGED expired
      PROVE  /\ EntriesAreLive' /\ Started' /\ QuerySound'
             /\ RoomsHoldMembers' /\ Coverage'
  <2>1. EntriesAreLive'
    <3>1. \/ UNCHANGED sockets /\ (s \notin live \/ s \in expired)
          \/ sockets' = [sockets EXCEPT ![At[s]][Owner[s]] = NoSocket]
      BY <1>6 DEF Forget
    <3>2. CASE UNCHANGED sockets /\ (s \notin live \/ s \in expired)
      BY <1>0, <1>6, <3>2 DEF Inductive, EntriesAreLive
    <3>3. CASE sockets' = [sockets EXCEPT ![At[s]][Owner[s]] = NoSocket]
      <4>1. \A n \in Nodes, u \in Users :
              sockets'[n][u] = IF n = At[s] /\ u = Owner[s] THEN NoSocket
                                                           ELSE sockets[n][u]
        BY <1>0, <3>3
      <4> QED BY <1>0, <1>6, <4>1 DEF Inductive, EntriesAreLive
    <3> QED BY <3>1, <3>2, <3>3
  <2>2. Started'
    BY <1>0, <1>6 DEF Inductive, Started
  <2>3. QuerySound' /\ RoomsHoldMembers'
    BY <1>0, <1>1, <1>6 DEF Inductive, QuerySound, RoomsHoldMembers, Invited
  <2>4. ASSUME NEW t \in Sockets, NEW c \in Chats, Owed(t, c)'
        PROVE  Covered(t, c)'
    <3>1. t # s
      BY <1>6, <2>4 DEF Owed, Registered
    <3>2. Registered(t)
      <4>1. t \in live /\ sockets'[At[t]][Owner[t]] = t
        BY <1>6, <2>4 DEF Owed, Registered
      <4>2. sockets[At[t]][Owner[t]] = sockets'[At[t]][Owner[t]] \/ sockets'[At[t]][Owner[t]] = NoSocket
        <5>1. sockets' = sockets \/ sockets' = [sockets EXCEPT ![At[s]][Owner[s]] = NoSocket]
          BY <1>6 DEF Forget
        <5>2. At[t] \in Nodes /\ Owner[t] \in Users
          BY ChatGatewayAssumption
        <5>3. CASE sockets' = sockets
          BY <5>3
        <5>4. CASE sockets' = [sockets EXCEPT ![At[s]][Owner[s]] = NoSocket]
          BY <1>0, <5>2, <5>4
        <5> QED BY <5>1, <5>3, <5>4
      <4> QED BY <4>1, <4>2, ChatGatewayAssumption DEF Registered
    <3>3. Owed(t, c)
      BY <1>1, <2>4, <3>2 DEF Owed, IsAt
    <3> QED BY <1>0, <1>6, <3>1, <3>3 DEF Inductive, Coverage, Covered
  <2> QED BY <2>1, <2>2, <2>3, <2>4 DEF Coverage
<1>7. CASE RejectConnection(s)
  BY <1>2, <1>6, <1>7 DEF RejectConnection
<1>8. CASE Disconnect(s)
  BY <1>2, <1>6, <1>8 DEF Disconnect
<1>9. CASE ExpireToken(s)
  BY <1>1, <1>2, <1>9
     DEF ExpireToken, connections, Inductive, EntriesAreLive, Started, QuerySound,
         RoomsHoldMembers, Coverage, Owed, Covered, Registered, IsAt, Invited
<1> QED BY <1>3, <1>4, <1>5, <1>7, <1>8, <1>9 DEF Handler

(* The steps of a chat's creation and its deletion.                         *)
LEMMA ChatStep ==
  ASSUME Inductive, NEW c \in Chats,
         \/ Creation(c) \/ SaveChatFails(c)
         \/ \E s \in Sockets : \/ \E invited \in SUBSET Users : RequestChat(s, c, invited)
                               \/ DeleteChat(s, c)
  PROVE  /\ EntriesAreLive' /\ Started' /\ MembersInvited' /\ QuerySound'
         /\ RoomsHoldMembers' /\ Coverage'
<1>0. /\ creating \in [Chats -> Job \cup {NoJob}]
      /\ members \in [Chats -> SUBSET Users]
      /\ rooms \in [Sockets -> SUBSET Chats]
      /\ query \in [Sockets -> SUBSET Chats]
  BY DEF Inductive, TypeOK
<1>1. UNCHANGED <<live, phase, query, sockets, early, expired>>
  BY DEF Creation, SaveChat, Announce, AnnounceThrows, SaveChatFails, RequestChat,
         DeleteChat, connections, presence, adapters
<1>2. EntriesAreLive'
  BY <1>1 DEF Inductive, EntriesAreLive
(* A job that has been asked for only moves on.                            *)
<1>3. ASSUME NEW d \in Chats, creating[d] # NoJob
      PROVE  /\ creating'[d] # NoJob
             /\ creating'[d].node = creating[d].node
             /\ Invited(d)' = Invited(d)
  <2>1. CASE UNCHANGED creating
    BY <1>3, <2>1 DEF Invited
  <2>2. ASSUME NEW where \in {"saving", "saved", "done", "failed"}, Reach(c, where),
               creating[c] # NoJob
        PROVE  /\ creating'[d] # NoJob
               /\ creating'[d].node = creating[d].node
               /\ Invited(d)' = Invited(d)
    <3>1. CASE d = c
      <4>1. creating[d] \in Job /\ creating'[d] = [creating[d] EXCEPT !.at = where]
        BY <1>0, <2>2, <3>1 DEF Reach
      <4>2. creating'[d] \in Job
        BY <4>1 DEF Job
      <4> QED BY <4>1, <4>2, ChatGatewayAssumption DEF Job, Invited
    <3>2. CASE d # c
      BY <1>0, <1>3, <2>2, <3>2 DEF Reach, Invited
    <3> QED BY <3>1, <3>2
  <2>3. ASSUME NEW s \in Sockets, NEW invited \in SUBSET Users, RequestChat(s, c, invited)
        PROVE  /\ creating'[d] # NoJob
               /\ creating'[d].node = creating[d].node
               /\ Invited(d)' = Invited(d)
    BY <1>0, <1>3, <2>3 DEF RequestChat, Invited
  <2> QED BY <2>1, <2>2, <2>3
          DEF Creation, SaveChat, Announce, AnnounceThrows, SaveChatFails, DeleteChat, IsAt
<1>4. QuerySound'
  BY <1>0, <1>1, <1>3 DEF Inductive, QuerySound
<1>5. Started'
  <2>1. CASE UNCHANGED rooms
    BY <1>1, <2>1 DEF Inductive, Started
  <2>2. CASE Announce(c)
    <3>1. \A s \in Sockets : rooms'[s] # {} => s \in live \/ rooms[s] # {}
      BY <2>2 DEF Announce, Joining, SocketsOf
    <3> QED BY <1>1, <3>1 DEF Inductive, Started
  <2> QED BY <2>1, <2>2
          DEF Creation, SaveChat, AnnounceThrows, SaveChatFails, RequestChat, DeleteChat,
              connections
<1>6. MembersInvited'
  <2>1. ASSUME NEW d \in Chats, members'[d] # {}, creating[d] # NoJob, members'[d] \subseteq Invited(d)
        PROVE  creating'[d] # NoJob /\ members'[d] \subseteq Invited(d)'
    BY <1>3, <2>1
  <2>2. ASSUME NEW d \in Chats, members'[d] # {}
        PROVE  creating[d] # NoJob /\ members'[d] \subseteq Invited(d)
    <3>1. CASE SaveChat(c)
      BY <1>0, <2>2, <3>1 DEF SaveChat, IsAt, Inductive, MembersInvited
    <3>2. CASE \E s \in Sockets : DeleteChat(s, c)
      BY <1>0, <2>2, <3>2 DEF DeleteChat, Inductive, MembersInvited
    <3>3. CASE UNCHANGED members
      BY <2>2, <3>3 DEF Inductive, MembersInvited
    <3> QED BY <3>1, <3>2, <3>3
            DEF Creation, Announce, AnnounceThrows, SaveChatFails, RequestChat
  <2> QED BY <2>1, <2>2 DEF MembersInvited
(* The sockets that join on the announcement are those the map has for the *)
(* creator and the invited.                                                *)
<1>7. RoomsHoldMembers'
  <2>1. ASSUME NEW s \in Sockets, NEW d \in rooms[s]
        PROVE  creating'[d] # NoJob /\ Owner[s] \in Invited(d)'
    BY <1>0, <1>3 DEF Inductive, RoomsHoldMembers
  <2>2. CASE UNCHANGED rooms
    BY <2>1, <2>2 DEF RoomsHoldMembers
  <2>3. CASE Announce(c)
    <3>1. creating[c] # NoJob
      BY <2>3 DEF Announce, IsAt
    <3>2. \A s \in Sockets : s \in Joining(c) => Owner[s] \in Invited(c)
      <4>1. creating[c] \in Job
        BY <1>0, <3>1
      <4>2. Invited(c) \subseteq Users /\ creating[c].node \in Nodes
        BY <4>1 DEF Job, Invited
      <4> QED BY <4>2, ChatGatewayAssumption
              DEF Joining, SocketsOf, Inductive, EntriesAreLive
    <3>3. \A s \in Sockets : Owner[s] \in Invited(c) => creating'[c] # NoJob /\ Owner[s] \in Invited(c)'
      BY <1>3, <3>1
    <3>4. \A s \in Sockets : rooms'[s] = IF s \in Joining(c) THEN rooms[s] \cup {c} ELSE rooms[s]
      BY <2>3 DEF Announce
    <3> QED BY <2>1, <3>2, <3>3, <3>4 DEF RoomsHoldMembers
  <2> QED BY <2>2, <2>3
          DEF Creation, SaveChat, AnnounceThrows, SaveChatFails, RequestChat, DeleteChat,
              connections
<1>8. Coverage'
  <2> SUFFICES ASSUME NEW s \in Sockets, NEW d \in Chats, Owed(s, d)'
               PROVE  Covered(s, d)'
    BY DEF Coverage
  <2>1. rooms[s] \subseteq rooms'[s]
    BY DEF Creation, SaveChat, Announce, AnnounceThrows, SaveChatFails, RequestChat,
           DeleteChat, connections
  <2>2. Registered(s) /\ s \notin early
    BY <1>1 DEF Owed, Registered
  <2>3. CASE Owed(s, d)
    BY <1>1, <2>1, <2>3 DEF Inductive, Coverage, Covered
  <2>4. CASE Announce(c) /\ d = c
    <3>1. creating[c] # NoJob /\ creating[c] \in Job
      BY <1>0, <2>4 DEF Announce, IsAt
    <3>2. creating[c].node = At[s]
      BY <1>3, <2>4, <3>1 DEF Owed
    <3>3. Owner[s] \in Invited(c)
      BY <2>4 DEF Announce, Owed, Inductive, MembersInvited
    <3>4. s \in Joining(c)
      BY <2>2, <3>2, <3>3 DEF Joining, SocketsOf, Registered
    <3> QED BY <2>4, <3>4 DEF Announce, Covered
  <2>5. ASSUME ~Owed(s, d)
        PROVE  Announce(c) /\ d = c
    <3> DEFINE was == IsAt(d, "done") /\ creating[d].node = At[s] /\ Owner[s] \in members[d]
    <3>1. ~was
      BY <2>2, <2>5 DEF Owed
    <3>2. IsAt(d, "done")' /\ (creating[d].node = At[s])' /\ (Owner[s] \in members[d])'
      BY DEF Owed
    <3>3. CASE SaveChat(c)
      BY <1>0, <3>1, <3>2, <3>3 DEF SaveChat, Reach, IsAt, Job
    <3>4. CASE AnnounceThrows(c) \/ SaveChatFails(c)
      BY <1>0, <3>1, <3>2, <3>4 DEF AnnounceThrows, SaveChatFails, Reach, IsAt, Job
    <3>5. ASSUME NEW t \in Sockets, NEW invited \in SUBSET Users, RequestChat(t, c, invited)
          PROVE  FALSE
      BY <1>0, <3>1, <3>2, <3>5 DEF RequestChat, IsAt
    <3>6. ASSUME NEW t \in Sockets, DeleteChat(t, c)
          PROVE  FALSE
      BY <1>0, <3>1, <3>2, <3>6 DEF DeleteChat, IsAt
    <3>7. CASE Announce(c) /\ d # c
      BY <1>0, <3>1, <3>2, <3>7 DEF Announce, Reach, IsAt
    <3> QED BY <3>3, <3>4, <3>5, <3>6, <3>7 DEF Creation
  <2> QED BY <2>3, <2>4, <2>5
<1> QED BY <1>2, <1>4, <1>5, <1>6, <1>7, <1>8

(* A change of adapter takes the sockets it empties out of the account; a  *)
(* restart empties the map of the process with its rooms.                  *)
LEMMA ProcessStep ==
  ASSUME Inductive, NEW n \in Nodes, InstallRedis(n) \/ Restart(n)
  PROVE  /\ EntriesAreLive' /\ Started' /\ MembersInvited' /\ QuerySound'
         /\ RoomsHoldMembers' /\ Coverage'
<1>0. /\ sockets \in [Nodes -> [Users -> Sockets \cup {NoSocket}]]
      /\ creating \in [Chats -> Job \cup {NoJob}]
  BY DEF Inductive, TypeOK
<1>1. CASE InstallRedis(n)
  <2>1. /\ UNCHANGED <<live, phase, query, sockets, creating, members, expired>>
        /\ early' = early \cup {s \in live : At[s] = n}
        /\ rooms' = [s \in Sockets |->
                       IF s \in {t \in live : At[t] = n} THEN {} ELSE rooms[s]]
    BY <1>1 DEF InstallRedis, creation
  <2>2. EntriesAreLive' /\ Started' /\ MembersInvited' /\ QuerySound' /\ RoomsHoldMembers'
    BY <2>1 DEF Inductive, EntriesAreLive, Started, MembersInvited, QuerySound,
                RoomsHoldMembers, Invited
  <2>3. ASSUME NEW s \in Sockets, NEW c \in Chats, Owed(s, c)'
        PROVE  Covered(s, c)'
    <3>1. Owed(s, c) /\ s \notin {t \in live : At[t] = n}
      BY <2>1, <2>3 DEF Owed, Registered, IsAt
    <3> QED BY <2>1, <3>1 DEF Inductive, Coverage, Covered
  <2> QED BY <2>2, <2>3 DEF Coverage
<1>2. CASE Restart(n)
  <2> DEFINE here(s) == At[s] = n /\ phase[s] # "none"
             stopped(c) == creating[c] # NoJob /\ creating[c].node = n
                             /\ creating[c].at \in {"saving", "saved"}
  <2>1. /\ live' = {s \in live : At[s] # n}
        /\ phase' = [s \in Sockets |-> IF here(s) THEN "failed" ELSE phase[s]]
        /\ query' = [s \in Sockets |-> IF here(s) THEN {} ELSE query[s]]
        /\ sockets' = [sockets EXCEPT ![n] = NoEntries]
        /\ rooms' = [s \in Sockets |-> IF here(s) THEN {} ELSE rooms[s]]
        /\ creating' = [c \in Chats |->
             IF stopped(c) THEN [creating[c] EXCEPT !.at = "failed"] ELSE creating[c]]
        /\ UNCHANGED <<early, members, expired>>
    BY <1>2 DEF Restart
  <2>2. ASSUME NEW c \in Chats, creating[c] # NoJob
        PROVE  creating'[c] # NoJob /\ Invited(c)' = Invited(c)
    <3>1. creating[c] \in Job /\ [creating[c] EXCEPT !.at = "failed"] \in Job
      BY <1>0, <2>2 DEF Job
    <3> QED BY <2>1, <2>2, <3>1, ChatGatewayAssumption DEF Job, Invited
  <2>3. ASSUME NEW c \in Chats, IsAt(c, "done")'
        PROVE  creating'[c] = creating[c]
    BY <1>0, <2>1, <2>3 DEF IsAt, Job
  <2> HIDE DEF stopped
  <2>4. \A m \in Nodes, u \in Users : sockets'[m][u] # NoSocket =>
          m # n /\ sockets'[m][u] = sockets[m][u]
    BY <1>0, <2>1 DEF NoEntries
  <2>5. EntriesAreLive'
    BY <2>1, <2>4 DEF Inductive, EntriesAreLive
  <2>6. Started'
    BY <2>1 DEF Inductive, Started
  <2>7. MembersInvited'
    BY <2>1, <2>2 DEF Inductive, MembersInvited
  <2>8. QuerySound' /\ RoomsHoldMembers'
    <3>1. query \in [Sockets -> SUBSET Chats] /\ rooms \in [Sockets -> SUBSET Chats]
      BY DEF Inductive, TypeOK
    <3> QED BY <2>1, <2>2, <3>1 DEF Inductive, QuerySound, RoomsHoldMembers
  <2>9. ASSUME NEW s \in Sockets, NEW c \in Chats, Owed(s, c)'
        PROVE  Covered(s, c)'
    <3>1. s # NoSocket /\ At[s] \in Nodes /\ Owner[s] \in Users
      BY ChatGatewayAssumption
    <3>2. At[s] # n /\ Registered(s)
      BY <2>1, <2>4, <2>9, <3>1 DEF Owed, Registered
    <3>3. Owed(s, c)
      BY <2>1, <2>3, <2>9, <3>2 DEF Owed, IsAt
    <3> QED BY <2>1, <3>2, <3>3 DEF Inductive, Coverage, Covered
  <2> QED BY <2>5, <2>6, <2>7, <2>8, <2>9 DEF Coverage
<1> QED BY <1>1, <1>2

LEMMA InductiveStep == Inductive /\ [Next]_vars => Inductive'
<1> SUFFICES ASSUME Inductive, [Next]_vars PROVE Inductive'
  OBVIOUS
<1>1. TypeOK'
  BY TypeStep DEF Inductive
<1>2. CASE UNCHANGED vars \/ \E n \in Nodes, u \in Users, b \in BOOLEAN : SaveOnline(n, u, b)
  <2>1. UNCHANGED <<live, phase, query, sockets, rooms, creating, members, early, expired>>
    BY <1>2 DEF vars, SaveOnline, connections, creation, adapters
  <2> QED BY <1>1, <2>1
          DEF Inductive, EntriesAreLive, Started, MembersInvited, QuerySound,
              RoomsHoldMembers, Coverage, Owed, Covered, Registered, IsAt, Invited
<1>3. ASSUME NEW s \in Sockets,
             Connect(s) \/ Handler(s) \/ RejectConnection(s) \/ Disconnect(s)
               \/ ExpireToken(s)
      PROVE  Inductive'
  BY <1>1, <1>3, SocketStep DEF Inductive
<1>4. ASSUME NEW c \in Chats,
             \/ Creation(c) \/ SaveChatFails(c)
             \/ \E s \in Sockets : \/ \E invited \in SUBSET Users : RequestChat(s, c, invited)
                                   \/ DeleteChat(s, c)
      PROVE  Inductive'
  BY <1>1, <1>4, ChatStep DEF Inductive
<1>5. ASSUME NEW n \in Nodes, InstallRedis(n) \/ Restart(n)
      PROVE  Inductive'
  BY <1>1, <1>5, ProcessStep DEF Inductive
<1> QED BY <1>2, <1>3, <1>4, <1>5 DEF Next

LEMMA InductiveHolds == Spec => []Inductive
BY InductiveInit, InductiveStep, PTL DEF Spec

(* An entry of the map is for a socket of that user on that process, which  *)
(* is connected unless its token expired before it went.                    *)
THEOREM EntriesLead == Spec => []EntriesAreLive
<1>1. Inductive => EntriesAreLive
  BY DEF Inductive
<1> QED BY <1>1, InductiveHolds, PTL

(* No socket gets into the room of a chat its user was not invited to,      *)
(* neither from the query nor from an announcement, whatever fails.         *)
THEOREM RoomsArePrivate == Spec => []RoomsHoldMembers
<1>1. Inductive => RoomsHoldMembers
  BY DEF Inductive
<1> QED BY <1>1, InductiveHolds, PTL

(* A user who connects while a chat is created does not fall between the    *)
(* query and the announcement.                                              *)
THEOREM NobodyFallsBetween == Spec => []RoomCoverage
<1>1. Inductive => RoomCoverage
  <2> SUFFICES ASSUME Inductive, NEW s \in Sockets \ early, NEW c \in Chats,
                      Registered(s), phase[s] = "ready", IsAt(c, "done"),
                      creating[c].node = At[s], Owner[s] \in members[c]
               PROVE  c \in rooms[s]
    BY DEF RoomCoverage
  <2> QED BY DEF Inductive, Coverage, Owed, Covered
<1> QED BY <1>1, InductiveHolds, PTL
-----------------------------------------------------------------------------
(* Presence *)

Busy(s)        == phase[s] \in {"querying", "joining"}
NoneOwed(u, b) == \A n \in Nodes : owed[n][u][b] = 0
SomeOwed(u, b) == \E n \in Nodes : owed[n][u][b] > 0

(* A user whose last connect or disconnect has not overlapped has at most  *)
(* one socket.  While its handleConnection runs nothing is owed; after it  *)
(* only saves of TRUE are; and without a socket only saves of FALSE.  When *)
(* none is, the last one has been done.                                    *)
Alone(u) ==
  /\ \A s, t \in live : Owner[s] = u /\ Owner[t] = u => s = t
  /\ \A s \in Sockets : Owner[s] = u /\ Busy(s) =>
       s \in live /\ NoneOwed(u, TRUE) /\ NoneOwed(u, FALSE)
  /\ \A s \in live : Owner[s] = u /\ ~Busy(s) =>
       NoneOwed(u, FALSE) /\ (online[u] \/ SomeOwed(u, TRUE))
  /\ (\A s \in live : Owner[s] # u) =>
       NoneOwed(u, TRUE) /\ (~online[u] \/ SomeOwed(u, FALSE))

Presence == TypeOK /\ \A u \in Users : ~overlap[u] => Alone(u)

LEMMA PresenceInit == Init => Presence
<1> SUFFICES ASSUME Init PROVE Presence
  OBVIOUS
<1>1. TypeOK
  BY TypeInit
<1>2. ASSUME NEW u \in Users
      PROVE  Alone(u)
  BY <1>2 DEF Init, Alone, Busy, NoneOwed, NothingOwed
<1> QED BY <1>1, <1>2 DEF Presence

(* What is owed after one more promise. *)
LEMMA OweResult ==
  ASSUME TypeOK, NEW n \in Nodes, NEW u \in Users, NEW b \in BOOLEAN, NEW k \in Nat,
         owed' = Owe(n, u, b, k)
  PROVE  /\ \A m \in Nodes, v \in Users \ {u} : owed'[m][v] = owed[m][v]
         /\ \A m \in Nodes, a \in BOOLEAN : a # b => owed'[m][u][a] = owed[m][u][a]
         /\ \A m \in Nodes : owed'[m][u][b] = IF m = n THEN owed[m][u][b] + k
                                                     ELSE owed[m][u][b]
BY DEF TypeOK, Owe

LEMMA OweOne ==
  ASSUME TypeOK, NEW n \in Nodes, NEW u \in Users, NEW b \in BOOLEAN, NEW k \in Nat,
         k > 0, NEW other \in BOOLEAN, other # b, NoneOwed(u, b), NoneOwed(u, other),
         owed' = Owe(n, u, b, k)
  PROVE  NoneOwed(u, other)' /\ SomeOwed(u, b)'
BY OweResult DEF NoneOwed, SomeOwed

LEMMA OnlineOwed ==
  ASSUME TypeOK, NEW n \in Nodes, NEW u \in Users, NEW k \in Nat, k > 0,
         NoneOwed(u, TRUE), NoneOwed(u, FALSE), owed' = Owe(n, u, TRUE, k)
  PROVE  NoneOwed(u, FALSE)' /\ SomeOwed(u, TRUE)'
BY OweOne

LEMMA OfflineIsOwed ==
  ASSUME TypeOK, NEW n \in Nodes, NEW u \in Users, NEW k \in Nat, k > 0,
         NoneOwed(u, TRUE), NoneOwed(u, FALSE), owed' = Owe(n, u, FALSE, k)
  PROVE  NoneOwed(u, TRUE)' /\ SomeOwed(u, FALSE)'
BY OweOne

LEMMA SettledOwesNothing ==
  ASSUME TypeOK, NEW u \in Users, ~Unsettled(u), NEW b \in BOOLEAN
  PROVE  NoneOwed(u, b)
<1>1. \A n \in Nodes : owed[n][u][b] \in Nat
  BY DEF TypeOK
<1>2. \A n \in Nodes : ~(owed[n][u][b] > 0)
  BY DEF Unsettled
<1> QED BY <1>1, <1>2 DEF NoneOwed

(* A user is alone as long as its own sockets, saves and row are as before. *)
LEMMA Unaffected ==
  ASSUME NEW u \in Users, Alone(u), live \subseteq Sockets, live' \subseteq Sockets,
         \A s \in Sockets : Owner[s] = u =>
           (s \in live' <=> s \in live) /\ (Busy(s)' <=> Busy(s)),
         \A n \in Nodes, b \in BOOLEAN : owed'[n][u][b] = owed[n][u][b],
         online'[u] = online[u]
  PROVE  Alone(u)'
<1>1. \A b \in BOOLEAN : (NoneOwed(u, b)' <=> NoneOwed(u, b)) /\ (SomeOwed(u, b)' <=> SomeOwed(u, b))
  BY DEF NoneOwed, SomeOwed
<1> HIDE DEF NoneOwed, SomeOwed, Busy
<1> QED BY <1>1 DEF Alone

(* The steps of a connection, from its beginning to its end.               *)
LEMMA PresenceOfSockets ==
  ASSUME Presence, TypeOK', NEW s \in Sockets,
         Connect(s) \/ Handler(s) \/ RejectConnection(s) \/ Disconnect(s)
  PROVE  Presence'
<1> DEFINE me == Owner[s]
<1>0. /\ TypeOK
      /\ me \in Users /\ At[s] \in Nodes
      /\ live \subseteq Sockets /\ live' \subseteq Sockets
      /\ phase \in [Sockets -> Phases]
      /\ overlap \in [Users -> BOOLEAN]
      /\ UNCHANGED online
  <2>1. UNCHANGED online
    BY DEF Connect, Handler, Query, Join, RejectConnection, Disconnect, presence
  <2> QED BY <2>1, ChatGatewayAssumption DEF Presence, TypeOK
(* Only the owner of s is concerned, and only by a connect or disconnect   *)
(* of its own is an overlap forgotten.                                     *)
<1>1. /\ \A t \in Sockets \ {s} : (t \in live' <=> t \in live) /\ phase'[t] = phase[t]
      /\ \A u \in Users \ {me} : overlap'[u] = overlap[u]
      /\ Handler(s) \/ RejectConnection(s) => UNCHANGED overlap
  BY <1>0
     DEF Connect, Handler, Query, Join, RejectConnection, Disconnect, presence, Note
<1>2. \/ UNCHANGED owed
      \/ \E b \in BOOLEAN, k \in Nat : owed' = Owe(At[s], me, b, k)
  <2>1. OfflineOwed(s) \in Nat /\ 1 + OfflineOwed(s) \in Nat
    BY DEF OfflineOwed
  <2> QED BY <2>1
          DEF Connect, Handler, Query, Join, RejectConnection, Disconnect, presence
<1>3. \A n \in Nodes, u \in Users \ {me}, b \in BOOLEAN : owed'[n][u][b] = owed[n][u][b]
  BY <1>0, <1>2, OweResult
<1>4. ASSUME NEW u \in Users \ {me}, ~overlap'[u]
      PROVE  Alone(u)'
  <2>1. Alone(u)
    BY <1>1, <1>4 DEF Presence
  <2>2. \A t \in Sockets : Owner[t] = u =>
          (t \in live' <=> t \in live) /\ (Busy(t)' <=> Busy(t))
    BY <1>1 DEF Busy
  <2> QED BY <1>0, <1>3, <2>1, <2>2, Unaffected
<1>5. ASSUME ~overlap'[me]
      PROVE  Alone(me)'
  <2>0. Handler(s) \/ RejectConnection(s) => Alone(me)
    BY <1>0, <1>1, <1>5 DEF Presence
  <2>1. CASE Connect(s)
    <3>1. ~OthersLive(s) /\ ~Unsettled(me)
      BY <1>0, <1>5, <2>1 DEF Connect, Note
    <3>2. /\ live' = live \cup {s}
          /\ Busy(s)'
          /\ UNCHANGED owed
      BY <1>0, <2>1 DEF Connect, Busy
    <3>3. \A t \in live' : Owner[t] = me => t = s
      BY <3>1, <3>2 DEF OthersLive
    <3>4. \A t \in Sockets : Owner[t] = me /\ Busy(t)' => t = s
      BY <1>1, <3>1 DEF Unsettled, Busy
    <3>5. NoneOwed(me, TRUE)' /\ NoneOwed(me, FALSE)'
      <4>1. NoneOwed(me, TRUE) /\ NoneOwed(me, FALSE)
        BY <1>0, <3>1, SettledOwesNothing
      <4> QED BY <3>2, <4>1 DEF NoneOwed
    <3> QED BY <3>2, <3>3, <3>4, <3>5 DEF Alone
  <2>2. CASE Query(s)
    <3>1. UNCHANGED <<live, owed, online>> /\ \A t \in Sockets : Busy(t)' <=> Busy(t)
      BY <1>0, <2>2 DEF Query, presence, Busy
    <3>2. Alone(me)
      BY <2>0, <2>2 DEF Handler
    <3> QED BY <1>0, <3>1, <3>2, Unaffected
  <2>3. CASE Join(s)
    <3>0. Alone(me)
      BY <2>0, <2>3 DEF Handler
    <3>1. /\ UNCHANGED live
          /\ ~Busy(s)'
          /\ Busy(s)
          /\ owed' = Owe(At[s], me, TRUE, 2)
      BY <1>0, <2>3 DEF Join, Busy
    <3>2. s \in live /\ NoneOwed(me, TRUE) /\ NoneOwed(me, FALSE)
      BY <3>0, <3>1 DEF Alone
    <3>3. NoneOwed(me, FALSE)' /\ SomeOwed(me, TRUE)'
      BY <1>0, <3>1, <3>2, 2 \in Nat, 2 > 0, OnlineOwed
    <3>4. \A t \in live : Owner[t] = me => t = s
      BY <3>0, <3>2 DEF Alone
    <3>5. \A t \in Sockets : Owner[t] = me => ~Busy(t)'
      BY <1>1, <3>0, <3>1, <3>4 DEF Alone, Busy
    <3> QED BY <1>0, <3>1, <3>2, <3>3, <3>4, <3>5 DEF Alone
  <2>4. CASE RejectConnection(s)
    <3>0. Alone(me)
      BY <2>0, <2>4
    <3>1. /\ live' = live \ {s}
          /\ ~Busy(s)'
          /\ Busy(s)
          /\ owed' = Owe(At[s], me, FALSE, 1) \/ owed' = Owe(At[s], me, FALSE, 1 + OfflineOwed(s))
      BY <1>0, <2>4 DEF RejectConnection, Busy
    <3>2. s \in live /\ NoneOwed(me, TRUE) /\ NoneOwed(me, FALSE)
      BY <3>0, <3>1 DEF Alone
    <3>3. NoneOwed(me, TRUE)' /\ SomeOwed(me, FALSE)'
      <4>1. 1 + OfflineOwed(s) \in Nat /\ 1 + OfflineOwed(s) > 0
        BY DEF OfflineOwed
      <4>2. CASE owed' = Owe(At[s], me, FALSE, 1)
        BY <1>0, <3>2, <4>2, 1 \in Nat, 1 > 0, OfflineIsOwed
      <4>3. CASE owed' = Owe(At[s], me, FALSE, 1 + OfflineOwed(s))
        BY <1>0, <3>2, <4>1, <4>3, OfflineIsOwed
      <4> QED BY <3>1, <4>2, <4>3
    <3>4. \A t \in live : Owner[t] = me => t = s
      BY <3>0, <3>2 DEF Alone
    <3>5. \A t \in Sockets : Owner[t] = me => ~Busy(t)'
      BY <1>1, <3>0, <3>1, <3>4 DEF Alone, Busy
    <3> QED BY <1>0, <3>1, <3>3, <3>4, <3>5 DEF Alone
  <2>5. CASE Disconnect(s)
    <3>1. /\ ~OthersLive(s) /\ ~Unsettled(me) /\ s \notin expired
          /\ live' = live \ {s}
          /\ UNCHANGED phase
          /\ owed' = Owe(At[s], me, FALSE, 1)
      BY <1>0, <1>5, <2>5 DEF Disconnect, Note, OfflineOwed
    <3>2. NoneOwed(me, TRUE) /\ NoneOwed(me, FALSE)
      BY <1>0, <3>1, SettledOwesNothing
    <3>3. NoneOwed(me, TRUE)' /\ SomeOwed(me, FALSE)'
      BY <1>0, <3>1, <3>2, 1 \in Nat, 1 > 0, OfflineIsOwed
    <3>4. \A t \in live' : Owner[t] # me
      BY <3>1 DEF OthersLive
    <3>5. \A t \in Sockets : Owner[t] = me => ~Busy(t)'
      BY <3>1 DEF Unsettled, Busy
    <3> QED BY <1>0, <3>3, <3>4, <3>5 DEF Alone
  <2> QED BY <2>1, <2>2, <2>3, <2>4, <2>5 DEF Handler
<1> QED BY <1>4, <1>5 DEF Presence

(* A save of a user who is alone is one of the kind that is owed.          *)
LEMMA PresenceOfSaves ==
  ASSUME Presence, TypeOK', NEW n \in Nodes, NEW u \in Users, NEW b \in BOOLEAN,
         SaveOnline(n, u, b)
  PROVE  Presence'
<1>0. /\ TypeOK
      /\ live \subseteq Sockets
      /\ UNCHANGED <<live, phase, overlap>>
      /\ owed \in [Nodes -> [Users -> [BOOLEAN -> Nat]]]
      /\ online \in [Users -> BOOLEAN]
      /\ owed' = [owed EXCEPT ![n][u][b] = @ - 1]
      /\ online' = [online EXCEPT ![u] = b]
      /\ owed[n][u][b] > 0
  BY DEF Presence, TypeOK, SaveOnline, connections, Due
<1>1. \A m \in Nodes, v \in Users, a \in BOOLEAN :
        owed'[m][v][a] = IF m = n /\ v = u /\ a = b THEN owed[m][v][a] - 1
                                                     ELSE owed[m][v][a]
  BY <1>0
<1>2. ASSUME NEW v \in Users \ {u}, ~overlap'[v]
      PROVE  Alone(v)'
  <2>1. Alone(v)
    BY <1>0, <1>2 DEF Presence
  <2>2. \A s \in Sockets : Busy(s)' <=> Busy(s)
    BY <1>0 DEF Busy
  <2>3. online'[v] = online[v] /\ \A m \in Nodes, a \in BOOLEAN : owed'[m][v][a] = owed[m][v][a]
    BY <1>0, <1>1
  <2> QED BY <1>0, <2>1, <2>2, <2>3, Unaffected
<1>3. ASSUME ~overlap'[u]
      PROVE  Alone(u)'
  <2>0. Alone(u)
    BY <1>0, <1>3 DEF Presence
  <2>1. \A a \in BOOLEAN : NoneOwed(u, a) => NoneOwed(u, a)' /\ a # b
    BY <1>0, <1>1 DEF NoneOwed
  <2>2. online'[u] = b
    BY <1>0
  <2>3. \A s \in Sockets : Owner[s] = u => ~Busy(s) /\ ~Busy(s)'
    <3>1. \A s \in Sockets : Owner[s] = u => ~Busy(s)
      BY <2>0, <2>1 DEF Alone
    <3> QED BY <1>0, <3>1 DEF Busy
  <2> QED BY <1>0, <2>0, <2>1, <2>2, <2>3 DEF Alone
<1> QED BY <1>2, <1>3 DEF Presence

(* The end of a process leaves only users alone of whom nothing was there. *)
LEMMA PresenceOfRestarts ==
  ASSUME Inductive, Presence, TypeOK', NEW n \in Nodes, Restart(n)
  PROVE  Presence'
<1> DEFINE here(s) == At[s] = n /\ phase[s] # "none"
<1>0. /\ live \subseteq Sockets /\ live' \subseteq Sockets
      /\ \A m \in Nodes, u \in Users, b \in BOOLEAN : owed[m][u][b] \in Nat
      /\ owed \in [Nodes -> [Users -> [BOOLEAN -> Nat]]]
      /\ phase \in [Sockets -> Phases]
  BY DEF Presence, TypeOK
<1>1. /\ live' = {s \in live : At[s] # n}
      /\ phase' = [s \in Sockets |-> IF here(s) THEN "failed" ELSE phase[s]]
      /\ owed' = [owed EXCEPT ![n] = NothingOwed]
      /\ overlap' = [u \in Users |->
           \/ overlap[u]
           \/ \E s \in Sockets : Owner[s] = u /\ here(s) /\ s \in live
           \/ Unsettled(u)]
      /\ UNCHANGED online
  BY DEF Restart
<1>2. ASSUME NEW u \in Users, ~overlap'[u]
      PROVE  Alone(u)'
  <2>1. /\ ~overlap[u] /\ ~Unsettled(u)
        /\ \A s \in live : Owner[s] = u => At[s] # n
    <3>1. /\ ~overlap[u] /\ ~Unsettled(u)
          /\ \A s \in live : Owner[s] = u => ~here(s)
      BY <1>0, <1>1, <1>2
    <3> QED BY <1>0, <3>1 DEF Inductive, Started
  <2>2. Alone(u)
    BY <2>1 DEF Presence
  <2>3. \A s \in Sockets : Owner[s] = u => ~Busy(s) /\ ~Busy(s)'
    BY <1>1, <2>1 DEF Unsettled, Busy
  <2>4. \A m \in Nodes, b \in BOOLEAN : owed'[m][u][b] = 0 /\ owed[m][u][b] = 0
    BY <1>0, <1>1, <2>1 DEF Unsettled, NothingOwed
  <2>5. \A s \in Sockets : Owner[s] = u => (s \in live' <=> s \in live)
    BY <1>1, <2>1
  <2> HIDE DEF here
  <2> QED BY <1>0, <1>1, <2>2, <2>3, <2>4, <2>5, Unaffected
<1> QED BY <1>2 DEF Presence

LEMMA PresenceStep == Inductive /\ Presence /\ [Next]_vars => Presence'
<1> SUFFICES ASSUME Inductive, Presence, [Next]_vars PROVE Presence'
  OBVIOUS
<1>1. TypeOK'
  BY TypeStep DEF Presence
<1>2. CASE UNCHANGED <<live, phase, owed, online, overlap>>
  BY <1>1, <1>2 DEF Presence, Alone, Busy, NoneOwed, SomeOwed
<1>3. ASSUME NEW s \in Sockets,
             Connect(s) \/ Handler(s) \/ RejectConnection(s) \/ Disconnect(s)
      PROVE  Presence'
  BY <1>1, <1>3, PresenceOfSockets
<1>4. ASSUME NEW n \in Nodes, NEW u \in Users, NEW b \in BOOLEAN, SaveOnline(n, u, b)
      PROVE  Presence'
  BY <1>1, <1>4, PresenceOfSaves
<1>5. ASSUME NEW n \in Nodes, Restart(n)
      PROVE  Presence'
  BY <1>1, <1>5, PresenceOfRestarts
<1>6. ASSUME NEW s \in Sockets, ExpireToken(s)
      PROVE  Presence'
  BY <1>2, <1>6 DEF ExpireToken, connections, presence
<1>7. ASSUME NEW c \in Chats,
             \/ Creation(c) \/ SaveChatFails(c)
             \/ \E s \in Sockets : \/ \E invited \in SUBSET Users : RequestChat(s, c, invited)
                                   \/ DeleteChat(s, c)
      PROVE  Presence'
  BY <1>2, <1>7 DEF Creation, SaveChat, Announce, AnnounceThrows, SaveChatFails,
                    RequestChat, DeleteChat, connections, presence
<1>8. ASSUME NEW n \in Nodes, InstallRedis(n)
      PROVE  Presence'
  BY <1>2, <1>8 DEF InstallRedis, presence
<1> QED BY <1>2, <1>3, <1>4, <1>5, <1>6, <1>7, <1>8 DEF Next, vars

(* Nothing but a save of updateOnline changes isOnline. *)
LEMMA OnlySavesChangeOnline ==
  ASSUME [Next]_vars, online' # online
  PROVE  \E n \in Nodes, u \in Users, b \in BOOLEAN : SaveOnline(n, u, b)
<1>1. ASSUME NEW s \in Sockets,
             Connect(s) \/ Handler(s) \/ RejectConnection(s) \/ Disconnect(s)
               \/ ExpireToken(s)
      PROVE  UNCHANGED online
  BY <1>1 DEF Connect, Handler, Query, Join, RejectConnection, Disconnect,
              ExpireToken, presence
<1>2. ASSUME NEW c \in Chats,
             \/ Creation(c) \/ SaveChatFails(c)
             \/ \E s \in Sockets : \/ \E invited \in SUBSET Users : RequestChat(s, c, invited)
                                   \/ DeleteChat(s, c)
      PROVE  UNCHANGED online
  BY <1>2 DEF Creation, SaveChat, Announce, AnnounceThrows, SaveChatFails,
              RequestChat, DeleteChat, presence
<1>3. ASSUME NEW n \in Nodes, InstallRedis(n) \/ Restart(n)
      PROVE  UNCHANGED online
  BY <1>3 DEF InstallRedis, Restart, presence
<1> QED BY <1>1, <1>2, <1>3 DEF Next, vars

(* isOnline is right whenever nothing is under way, for any number of      *)
(* users, sockets and processes, whatever is rejected, expires or ends, of *)
(* every user whose last connect or disconnect has not overlapped: what    *)
(* earlier overlaps have left behind does not last beyond it.              *)
THEOREM PresenceAccurate == Spec => []PresenceIsAccurate
<1>1. Presence => PresenceIsAccurate
  <2> SUFFICES ASSUME Presence, NEW u \in Users, ~overlap[u], ~Unsettled(u)
               PROVE  online[u] = (\E s \in live : Owner[s] = u)
    BY DEF PresenceIsAccurate
  <2>1. Alone(u) /\ online[u] \in BOOLEAN /\ live \subseteq Sockets
    BY DEF Presence, TypeOK
  <2>2. \A s \in live : Owner[s] = u => ~Busy(s)
    BY <2>1 DEF Unsettled, Busy
  <2>3. ~SomeOwed(u, TRUE) /\ ~SomeOwed(u, FALSE)
    BY DEF Unsettled, SomeOwed
  <2>4. CASE \E s \in live : Owner[s] = u
    BY <2>1, <2>2, <2>3, <2>4 DEF Alone
  <2>5. CASE \A s \in live : Owner[s] # u
    BY <2>1, <2>3, <2>5 DEF Alone
  <2> QED BY <2>4, <2>5
<1>2. Spec => []Presence
  BY PresenceInit, PresenceStep, InductiveHolds, PTL DEF Spec
<1> QED BY <1>1, <1>2, PTL

(* Whatever connects, queries, disconnects and faults leave owed, a save   *)
(* that changes isOnline of a user whose last connect or disconnect did    *)
(* not overlap makes it right: no late save of updateOnline undoes what    *)
(* came after it.                                                          *)
THEOREM PresenceImproves == Spec => PresenceOnlyImproves
<1>1. ASSUME Presence, [Next]_vars, NEW u \in Users, ~overlap[u],
             online'[u] # online[u]
      PROVE  online'[u] = (\E s \in live : Owner[s] = u)
  <2>1. /\ Alone(u) /\ TypeOK /\ live \subseteq Sockets
    BY <1>1 DEF Presence, TypeOK
  <2>2. PICK n \in Nodes, v \in Users, b \in BOOLEAN : SaveOnline(n, v, b)
    BY <1>1, OnlySavesChangeOnline
  <2>3. v = u /\ online'[u] = b /\ owed[n][u][b] > 0
    BY <1>1, <2>1, <2>2 DEF SaveOnline, Due, TypeOK
  <2>4. ~NoneOwed(u, b)
    BY <2>1, <2>3 DEF NoneOwed, TypeOK
  <2>5. CASE \E s \in live : Owner[s] = u
    <3>1. PICK s \in live : Owner[s] = u
      BY <2>5
    <3>2. NoneOwed(u, FALSE)
      BY <2>1, <3>1 DEF Alone
    <3> QED BY <2>3, <2>4, <2>5, <3>2
  <2>6. CASE \A s \in live : Owner[s] # u
    <3>1. NoneOwed(u, TRUE)
      BY <2>1, <2>6 DEF Alone
    <3> QED BY <2>3, <2>4, <2>6, <3>1
  <2> QED BY <2>5, <2>6
<1>2. Presence /\ [Next]_vars =>
        [\A u \in Users : ~overlap[u] /\ online'[u] # online[u] =>
           online'[u] = (\E s \in live : Owner[s] = u)]_vars
  BY <1>1
<1>3. Spec => []Presence
  BY PresenceInit, PresenceStep, InductiveHolds, PTL DEF Spec
<1> QED BY <1>2, <1>3, PTL DEF Spec, PresenceOnlyImproves
=============================================================================
