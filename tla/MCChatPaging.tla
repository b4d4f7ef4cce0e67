----------------------------- MODULE MCChatPaging -----------------------------
(* TLC instances of ChatPaging.  No symmetry: PagingAll checks liveness. *)
EXTENDS ChatPaging
=============================================================================
