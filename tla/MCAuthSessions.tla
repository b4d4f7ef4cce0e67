--------------------------- MODULE MCAuthSessions ---------------------------
(* TLC instances of AuthSessions. *)
EXTENDS AuthSessions, TLC

Symmetry == Permutations(Users) \cup Permutations(Requests)
=============================================================================
