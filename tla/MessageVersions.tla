--------------------------- MODULE MessageVersions ---------------------------
(***************************************************************************)
(* What the message store promises: every operation on messages takes      *)
(* effect in one step, or not at all.  There are no requests here, no      *)
(* statements and no copies.                                               *)
(*                                                                         *)
(* The promise is that of a register of versions and no better, because    *)
(* that is what the code keeps: a save starts from a version the row has   *)
(* had, not necessarily the last, and of the columns it touches any may    *)
(* go back to that version; a row that is gone comes back as that version  *)
(* (while its chat exists).  Author, chat and text never change.           *)
(***************************************************************************)
EXTENDS FiniteSets, Naturals

CONSTANTS Users, Chats, Messages, Texts, NoText, Statuses, SENT, Absent, Members

VARIABLES
  chats,  \* the chats that exist
  rows,   \* the row of each message, or Absent
  past    \* past[m]: the versions the row of m has had, the present one too

vars == <<chats, rows, past>>

Row == [chat    : Chats,
        user    : Users,
        text    : Texts \cup {NoText},
        status  : Statuses,
        readers : SUBSET Users]

Init ==
  /\ chats = Chats
  /\ rows = [m \in Messages |-> Absent]
  /\ past = [m \in Messages |-> {}]

-----------------------------------------------------------------------------
(* The table after a step, and its versions. *)
Remember ==
  past' = [m \in Messages |-> past[m] \cup ({rows'[m]} \ {Absent})]

(* Only the rows of the messages S may change. *)
Only(S) ==
  /\ rows' \in [Messages -> Row \cup {Absent}]
  /\ \A m \in Messages \ S : rows'[m] = rows[m]
  /\ Remember
  /\ UNCHANGED chats

(* A row in which each of the columns a save may touch is the present one  *)
(* or the saved one.                                                       *)
Merged(row, now, saved) ==
  /\ <<row.chat, row.user, row.text>> = <<now.chat, now.user, now.text>>
  /\ row.status \in {now.status, saved.status}
  /\ row.readers \in {now.readers, saved.readers}

Saved(m, row) ==
  IF rows[m] = Absent THEN row.chat \in chats /\ rows'[m] = row
                      ELSE rows'[m] # Absent /\ Merged(rows'[m], rows[m], row)

-----------------------------------------------------------------------------
(* A message is posted once, to a chat that exists, unread. *)
Post(m, u, c, t) ==
  /\ past[m] = {}
  /\ c \in chats
  /\ rows' = [rows EXCEPT ![m] = [chat |-> c, user |-> u, text |-> t,
                                  status |-> SENT, readers |-> {}]]
  /\ Remember
  /\ UNCHANGED chats

(* u has read messages of others in c: all of S, in one step. *)
MarkRead(u, c, S) ==
  /\ \A m \in S : \E v \in past[m] :
       /\ v.chat = c
       /\ v.user # u
       /\ Saved(m, [v EXCEPT !.readers = @ \cup {u}])
  /\ Only(S)

ChangeStatus(s, S) ==
  /\ \A m \in S : \E v \in past[m] : Saved(m, [v EXCEPT !.status = s])
  /\ Only(S)

(* An edit saves a version again and changes nothing else. *)
Edit(m) ==
  /\ \E v \in past[m] : Saved(m, v)
  /\ Only({m})

Delete(m) ==
  /\ rows' = [rows EXCEPT ![m] = Absent]
  /\ Remember
  /\ UNCHANGED chats

(* Messages of c are deleted in one step, those of other chats never. *)
Clear(c, S) ==
  /\ \A m \in S : \E v \in past[m] : v.chat = c
  /\ \A m \in S : rows'[m] = Absent
  /\ Only(S)

(* A chat goes, and its messages with it. *)
DropChat(c) ==
  /\ c \in chats
  /\ chats' = chats \ {c}
  /\ rows' = [m \in Messages |->
                IF rows[m] # Absent /\ rows[m].chat = c THEN Absent ELSE rows[m]]
  /\ Remember

Next ==
  \/ \E m \in Messages :
       \/ \E u \in Users, c \in Chats, t \in Texts \cup {NoText} : Post(m, u, c, t)
       \/ Edit(m)
       \/ Delete(m)
  \/ \E S \in SUBSET Messages :
       \/ \E u \in Users, c \in Chats : MarkRead(u, c, S)
       \/ \E s \in Statuses : ChangeStatus(s, S)
       \/ \E c \in Chats : Clear(c, S)
  \/ \E c \in Chats : DropChat(c)

Spec == Init /\ [][Next]_vars
=============================================================================
