--------------------------- MODULE MCMessageFeed ---------------------------
(* TLC instances of MessageFeed. *)
EXTENDS MessageFeed, TLC

Symmetry == Permutations(Users) \cup Permutations(Messages)
              \cup Permutations(Requests)
=============================================================================
