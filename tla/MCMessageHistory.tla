-------------------------- MODULE MCMessageHistory --------------------------
(* TLC instances of MessageHistory.  Every user is a member of every chat. *)
EXTENDS MessageHistory, TLC

Everyone == [c \in Chats |-> Users]

Symmetry == Permutations(Users) \cup Permutations(Messages)
              \cup Permutations(Requests)
=============================================================================
