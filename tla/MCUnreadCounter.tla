-------------------------- MODULE MCUnreadCounter --------------------------
(* TLC instances of UnreadCounter.  Every user is a member of every chat. *)
EXTENDS UnreadCounter, TLC

Everyone == [c \in Chats |-> Users]

Symmetry == Permutations(Users) \cup Permutations(Messages)
              \cup Permutations(Requests) \cup Permutations(Chats)

(* What is still looked at of a job: while it lists, its chat; while it    *)
(* counts, whether it is a connect.  States that agree on the rest have    *)
(* the same successors, and the invariants do not tell them apart.         *)
StillAsked(r) ==
  CASE at[r] = "list" -> [chat |-> job[r].chat]
    [] at[r] = "count" -> [connects |-> job[r].op = "connect"]
    [] OTHER -> job[r]

View ==
  <<store, clients, at, copies, counts, missed, [r \in Requests |-> StillAsked(r)]>>
=============================================================================
