--------------------------- MODULE MCChatDirectory ---------------------------
(* TLC instances of ChatDirectory.  The searches choose only from single   *)
(* chats, so ids, users and slots are interchangeable.                     *)
EXTENDS ChatDirectory, TLC

Symmetry == Permutations(Users) \cup Permutations(Chats)
              \cup Permutations(Requests)
=============================================================================
