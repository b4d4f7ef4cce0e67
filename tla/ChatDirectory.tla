---------------------------- MODULE ChatDirectory ----------------------------
(***************************************************************************)
(* Which chats there are and between whom: how ChatsService creates and    *)
(* removes them, and how it looks for a dialog before it makes one.        *)
(*                                                                         *)
(* createChat and createDialog look for a dialog before they save a new    *)
(* one, with nothing that keeps another request from doing the same in     *)
(* between.  createDialog has no caller in the repository; it is here      *)
(* because it is the one whose search works.                               *)
(***************************************************************************)
EXTENDS FiniteSets, Naturals

CONSTANTS
  Users,     \* user ids
  Chats,     \* ids the database may generate
  Requests,  \* slots for requests in flight
  Ops,       \* the operations that are called
  Absent,    \* no row, no request
  NoChat     \* no chat is named yet

AllOps == {"chat", "dialog", "group", "remove"}

(* A row of "chats" with its rows of "chats-members".                      *)
Row == [type : {"DIALOG", "GROUP"}, users : SUBSET Users]

(* A request of a user about other users, or about a chat.                 *)
Job == [op : AllOps, user : Users, others : SUBSET Users,
        chat : Chats \cup {NoChat}]

ASSUME ChatDirectoryAssumption ==
  /\ Ops \subseteq AllOps
  /\ Absent \notin Row
  /\ Absent \notin Job
  /\ NoChat \notin Chats
  /\ IsFiniteSet(Users)
  /\ IsFiniteSet(Chats)

VARIABLES
  chats,     \* the tables
  unused,    \* the ids no chat has had
  job,       \* what each slot was asked
  at,        \* where it is
  stale      \* history: has another request saved the dialog a slot is
             \* about to save, since the slot searched for it?

vars == <<chats, unused, job, at, stale>>

TypeOK ==
  /\ chats \in [Chats -> Row \cup {Absent}]
  /\ unused \in SUBSET Chats
  /\ job \in [Requests -> Job \cup {Absent}]
  /\ at \in [Requests -> {"idle", "check", "save", "again", "remove"}]
  /\ stale \in [Requests -> BOOLEAN]

Init ==
  /\ chats = [c \in Chats |-> Absent]
  /\ unused = Chats
  /\ job = [r \in Requests |-> Absent]
  /\ at = [r \in Requests |-> "idle"]
  /\ stale = [r \in Requests |-> FALSE]

-----------------------------------------------------------------------------
(* The searches *)

Present == {c \in Chats : chats[c] # Absent}
ChatsOf(u) == {c \in Present : u \in chats[c].users}

(* The query of createChat joins a chat with one user at a time and asks   *)
(* for a user that is both of the two.                                     *)
IsExistChat(u, p) == \E c \in Present : \E v \in chats[c].users : v = u /\ v = p

(* isExistDialog: of each dialog of u or p the users that are u or p; both *)
(* are there or the dialog is passed over.                                 *)
EitherDialog(u, p) ==
  \E c \in ChatsOf(u) \cup ChatsOf(p) : chats[c].type = "DIALOG"
IsExistDialog(u, p) ==
  \E c \in ChatsOf(u) \cup ChatsOf(p) :
    LET users == chats[c].users \cap {u, p}
    IN  chats[c].type = "DIALOG" /\ (p \in users <=> u \in users)

-----------------------------------------------------------------------------
(* The operations *)

End(r) ==
  /\ at' = [at EXCEPT ![r] = "idle"]
  /\ job' = [job EXCEPT ![r] = Absent]

Begin(r, j, where) ==
  /\ at[r] = "idle"
  /\ j.op \in Ops
  /\ at' = [at EXCEPT ![r] = where]
  /\ job' = [job EXCEPT ![r] = j]
  /\ UNCHANGED <<chats, unused, stale>>

(* createChat makes a dialog for one other user, a group otherwise, and    *)
(* looks for a chat only for the dialog; createGroupChat wants at least    *)
(* two profiles.                                                           *)
StartCreate(r, op, u, others) ==
  /\ op = "group" => Cardinality(others) >= 2
  /\ op = "dialog" => Cardinality(others) = 1
  /\ Begin(r, [op |-> op, user |-> u, others |-> others, chat |-> NoChat],
           IF op = "group" \/ Cardinality(others) # 1 THEN "save" ELSE "check")

FoundNothing(j) == FALSE
Found(j) ==
  \E p \in j.others : IF j.op = "chat" THEN IsExistChat(j.user, p)
                                       ELSE IsExistDialog(j.user, p)

(* "Dialog already exist", or on to the save. *)
Check(r) ==
  /\ at[r] = "check"
  /\ IF Found(job[r]) THEN End(r)
     ELSE at' = [at EXCEPT ![r] = "save"] /\ UNCHANGED job
  /\ stale' = [stale EXCEPT ![r] = FALSE]
  /\ UNCHANGED <<chats, unused>>

NewRowNoType(j) == [type |-> Absent, users |-> j.others \cup {j.user}]
NewRow(j) ==
  [type  |-> IF j.op # "group" /\ Cardinality(j.others) = 1
             THEN "DIALOG" ELSE "GROUP",
   users |-> j.others \cup {j.user}]

(* r saves a dialog: what others who are about to save that dialog found   *)
(* before is stale.                                                        *)
Outdates(r) ==
  stale' = [q \in Requests |->
    stale[q] \/ /\ q # r /\ at[q] \in {"save", "again"}
                /\ NewRow(job[r]).type = "DIALOG"
                /\ NewRow(job[q]).users = NewRow(job[r]).users]

(* The chat and its members are saved in one transaction.  createDialog    *)
(* then saves the same entity again.                                       *)
Save(r) ==
  /\ at[r] = "save"
  /\ \E c \in unused :
       /\ chats' = [chats EXCEPT ![c] = NewRow(job[r])]
       /\ unused' = unused \ {c}
       /\ IF job[r].op = "dialog"
            THEN /\ at' = [at EXCEPT ![r] = "again"]
                 /\ job' = [job EXCEPT ![r].chat = c]
            ELSE End(r)
  /\ Outdates(r)

(* The second save changes nothing, unless the chat has been removed: then *)
(* it inserts it once more.                                                *)
SaveAgain(r) ==
  /\ at[r] = "again"
  /\ chats' = [chats EXCEPT ![job[r].chat] = NewRow(job[r])]
  /\ Outdates(r)
  /\ End(r)
  /\ UNCHANGED unused

(* deleteDialog: a member removes the chat, of either type. *)
StartRemove(r, u, c) ==
  /\ c \in ChatsOf(u)
  /\ Begin(r, [op |-> "remove", user |-> u, others |-> {}, chat |-> c], "remove")

Remove(r) ==
  /\ at[r] = "remove"
  /\ chats' = [chats EXCEPT ![job[r].chat] = Absent]
  /\ End(r)
  /\ UNCHANGED <<unused, stale>>

(* A query is rejected, or the process ends. *)
Fail(r) ==
  /\ at[r] # "idle"
  /\ End(r)
  /\ UNCHANGED <<chats, unused, stale>>

Next ==
  \E r \in Requests :
    \/ \E u \in Users :
         \/ \E op \in AllOps \ {"remove"}, others \in SUBSET Users :
              StartCreate(r, op, u, others)
         \/ \E c \in Chats : StartRemove(r, u, c)
    \/ Check(r)
    \/ Save(r)
    \/ SaveAgain(r)
    \/ Remove(r)
    \/ Fail(r)

Spec == Init /\ [][Next]_vars

-----------------------------------------------------------------------------
(* Properties *)

Dialogs(users) == {c \in Present : chats[c].type = "DIALOG" /\ chats[c].users = users}

(* isExistDialog finds the dialog of two different users exactly when they *)
(* have one, whatever other dialogs and groups they are in.                *)
IsExistDialogIsExact ==
  \A u \in Users : \A p \in Users \ {u} : IsExistDialog(u, p) <=> Dialogs({u, p}) # {}

(* A request saved the users' dialog that create-chat made, whose search    *)
(* finds none, or that another request saved since it searched.            *)
Excused(users) ==
  \E r \in Requests :
    /\ at[r] \in {"save", "again"} /\ at'[r] # at[r]
    /\ NewRow(job[r]).users = users
    /\ job[r].op = "chat" \/ stale[r]

(* Whatever adds a dialog of two users leaves them with that one, even the *)
(* second of the two saves of createDialog, after a removal: but for       *)
(* create-chat, and for a createDialog that another one overtook between   *)
(* its search and its save.  What went on before, for the same users or    *)
(* others, is no excuse.                                                   *)
DialogsStayUnique ==
  [][\A users \in SUBSET Users :
       \/ Dialogs(users)' \subseteq Dialogs(users)
       \/ Cardinality(Dialogs(users)') <= 1
       \/ Excused(users)]_vars
=============================================================================
