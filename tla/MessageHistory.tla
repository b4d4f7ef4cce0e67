--------------------------- MODULE MessageHistory ---------------------------
(***************************************************************************)
(* MessageStore with a record of the versions each row has had, and the    *)
(* claim that it implements MessageVersions: seen from the tables, the     *)
(* interleaved statements of the handlers are operations done in one step. *)
(***************************************************************************)
EXTENDS MessageStore

VARIABLE past  \* history: past[m], the versions the row of m has had

VInit == Init /\ past = [m \in Messages |-> {}]

VNext ==
  /\ Next
  /\ past' = [m \in Messages |-> past[m] \cup ({messages'[m]} \ {Absent})]

VSpec == VInit /\ [][VNext]_<<vars, past>>

Versions == INSTANCE MessageVersions WITH rows <- messages

(* Every step of a handler is one operation of MessageVersions on the      *)
(* tables, or leaves them alone: whatever runs between the statements of a *)
(* handler, what is read in one and written in another (messages.service   *)
(* 179 and 206, 219 and 232) only ever puts a version back that the row    *)
(* has had, with the change that was asked for, for all the messages of    *)
(* the request at once.                                                    *)
ImplementsVersions == Versions!Spec
=============================================================================
