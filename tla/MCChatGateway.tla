---------------------------- MODULE MCChatGateway ----------------------------
(* TLC instances of ChatGateway.  Sockets are <<user, process, number>>. *)
EXTENDS ChatGateway

CONSTANTS u1, u2, n1, n2

OwnerOf == [s \in Sockets |-> s[1]]
PlaceOf == [s \in Sockets |-> s[2]]

(* One process, one socket for each user. *)
OneEach == {<<u1, n1, 1>>, <<u2, n1, 1>>}

(* One user, with two sockets on a process (two tabs, or a reconnection)    *)
(* and one on another.                                                      *)
ThreeOfOne == {<<u1, n1, 1>>, <<u1, n1, 2>>, <<u1, n2, 1>>}
=============================================================================
