--------------------------- MODULE MCMessageStore ---------------------------
(* TLC instances of MessageStore.  Every user is a member of every chat and *)
(* the invariants name no user, message or request, so all three are        *)
(* interchangeable.                                                         *)
EXTENDS MessageStore, TLC

Everyone == [c \in Chats |-> Users]

Symmetry == Permutations(Users) \cup Permutations(Messages)
              \cup Permutations(Requests)
=============================================================================
