-------------------------- MODULE ChatPagingProofs --------------------------
(***************************************************************************)
(* Proofs about ChatPaging, for any chats and any page size.               *)
(*                                                                         *)
(* That a listing by ids ends complete rests on its last page: a page that *)
(* is not full was all that was eligible, so what the client lacks of the  *)
(* steady chats is on it, and whatever leaves between the two queries of   *)
(* the page is steady no more.                                             *)
(***************************************************************************)
EXTENDS ChatPaging, FiniteSetTheorems, TLAPS

(* A request is under way only in a listing; one by ids names no page.     *)
InListing ==
  /\ at # "none" => client = "listing"
  /\ byIds => page = 0
  /\ client = "listing" /\ ~byIds => page > 0

(* A page that is not full has what the client lacks. *)
LastPageIsAll ==
  at = "rows" /\ byIds /\ Cardinality(ids) < Limit => steady \subseteq have \cup ids

(* What a page has is new to a client that asks by ids, and a full page    *)
(* by number takes as many chats as the pages up to it.                    *)
PageIsNew ==
  at = "rows" =>
    /\ byIds => ids \cap have = {}
    /\ ~byIds /\ Cardinality(ids) = Limit => page * Limit <= Cardinality(Chats)

Inductive ==
  TypeOK /\ InListing /\ LastPageIsAll /\ PageIsNew /\ ListingIsComplete

-----------------------------------------------------------------------------
(* Helpers *)

LEMMA ChatsAreFinite ==
  ASSUME NEW S, S \subseteq Chats
  PROVE  IsFiniteSet(S) /\ Cardinality(S) \in Nat
BY FS_Subset, FS_CardinalityType, ChatPagingAssumption

(* A page never has more than Limit rows. *)
LEMMA PageIsBounded ==
  ASSUME TypeOK, NEW n \in Nat
  PROVE  SizeOf(n) \in Nat /\ SizeOf(n) <= Limit
<1>1. Limit \in Nat
  BY ChatPagingAssumption
<1>2. PageOf(page) - 1 \in Int
  BY DEF PageOf, TypeOK
<1>3. (PageOf(page) - 1) * Limit \in Int
  BY <1>1, <1>2
<1> QED BY <1>1, <1>3 DEF SizeOf

(* The first page has all the rows there are, or Limit of them. *)
LEMMA FirstPage ==
  ASSUME page = 0, NEW n \in Nat
  PROVE  SizeOf(n) = n \/ SizeOf(n) = Limit
<1>1. Limit \in Nat
  BY ChatPagingAssumption
<1>2. (PageOf(page) - 1) * Limit = 0
  BY <1>1 DEF PageOf
<1> QED BY <1>1, <1>2 DEF SizeOf

(* A page that is not full is all that is eligible. *)
LEMMA ShortPage ==
  ASSUME TypeOK, page = 0, NEW S \in SUBSET Eligible,
         Cardinality(S) = SizeOf(Cardinality(Eligible)), Cardinality(S) < Limit
  PROVE  S = Eligible
<1>1. Eligible \subseteq Chats
  BY DEF Eligible, TypeOK
<1>2. IsFiniteSet(Eligible) /\ Cardinality(Eligible) \in Nat
  BY <1>1, ChatsAreFinite
<1>3. Limit \in Nat
  BY ChatPagingAssumption
<1>4. Cardinality(S) = Cardinality(Eligible)
  BY <1>2, <1>3, FirstPage
<1> QED BY <1>2, <1>4, FS_Subset

(* A page by number that is full is within the chats there are. *)
LEMMA FullPage ==
  ASSUME TypeOK, page > 0, NEW n \in Nat, SizeOf(n) = Limit
  PROVE  page * Limit <= n
<1>1. Limit \in Nat /\ Limit > 0 /\ page \in Nat
  BY ChatPagingAssumption DEF TypeOK
<1> DEFINE before == (page - 1) * Limit
<1>2. before \in Int /\ page * Limit = before + Limit
  BY <1>1
<1>3. SizeOf(n) = IF n - before <= 0 THEN 0
                  ELSE IF n - before < Limit THEN n - before ELSE Limit
  BY <1>1 DEF SizeOf, PageOf
<1> HIDE DEF before
<1>4. n - before >= Limit
  BY <1>1, <1>2, <1>3
<1> QED BY <1>1, <1>2, <1>4

-----------------------------------------------------------------------------
LEMMA InductiveInit == Init => Inductive
<1> SUFFICES ASSUME Init PROVE Inductive
  OBVIOUS
<1>1. Cardinality({}) = 0 /\ Limit \in Nat
  BY FS_EmptySet, ChatPagingAssumption
<1>2. Cardinality(ids) <= Limit
  BY <1>1 DEF Init
<1> QED BY <1>2
       DEF Init, Inductive, TypeOK, InListing, LastPageIsAll, PageIsNew, ListingIsComplete

LEMMA InductiveStep == ASSUME Inductive, [Next]_vars PROVE Inductive'
<1> USE DEF Inductive, TypeOK, InListing, LastPageIsAll, PageIsNew, ListingIsComplete
<1>1. ASSUME NEW c \in Chats, Join(c) PROVE Inductive'
  BY <1>1 DEF Join, request
<1>2. ASSUME NEW c \in Chats, Leave(c) PROVE Inductive'
  BY <1>2 DEF Leave, request
<1>3. CASE Begin
  BY <1>3 DEF Begin, request
<1>4. CASE Ask
  BY <1>4 DEF Ask, database
<1>5. CASE FindPage
  <2>1. PICK S \in SUBSET Eligible :
          Cardinality(S) = SizeOf(Cardinality(Eligible)) /\ ids' = S
    BY <1>5 DEF FindPage
  <2>2. /\ at = "page" /\ at' = "rows"
        /\ UNCHANGED <<mine, unused, steady, client, byIds, have, page>>
    BY <1>5 DEF FindPage, database
  <2>3. Eligible \subseteq Chats /\ steady \subseteq mine
    BY DEF Eligible
  <2>4. Cardinality(Eligible) \in Nat
    BY <2>3, ChatsAreFinite
  <2>5. Cardinality(S) <= Limit
    BY <2>1, <2>4, PageIsBounded
  <2>6. byIds /\ Cardinality(S) < Limit => S = Eligible
    BY <2>1, ShortPage
  <2>7. byIds => steady \subseteq have \cup Eligible
    BY <2>3 DEF Eligible, Current
  <2>8. ASSUME ~byIds, Cardinality(S) = Limit
        PROVE  page * Limit <= Cardinality(Chats)
    <3>0. page > 0 /\ page * Limit \in Int
      BY <2>2, <2>8, ChatPagingAssumption
    <3>1. page * Limit <= Cardinality(Eligible)
      <4>1. SizeOf(Cardinality(Eligible)) = Limit
        BY <2>1, <2>8
      <4> QED BY <2>4, <3>0, <4>1, FullPage
    <3>2. Cardinality(Eligible) <= Cardinality(Chats) /\ Cardinality(Chats) \in Nat
      BY <2>3, FS_Subset, FS_CardinalityType, ChatPagingAssumption
    <3> QED BY <2>4, <3>0, <3>1, <3>2
  <2>9. byIds => S \cap have = {}
    BY DEF Eligible, Current
  <2> QED BY <2>1, <2>2, <2>3, <2>5, <2>6, <2>7, <2>8, <2>9
<1>6. CASE FindRows
  <2>1. /\ at = "rows" /\ at' = "none" /\ ids' = {}
        /\ have' = have \cup (ids \cap Eligible)
        /\ UNCHANGED <<mine, unused, steady, byIds>>
        /\ client = "listing"
        /\ client' \in {"done", "listing"} /\ page' \in Nat
        /\ client' = "done" => Cardinality(ids) < Limit
        /\ byIds => page' = page
        /\ page' \in {page, page + 1}
    BY <1>6 DEF FindRows, database
  <2>2. Cardinality(ids') <= Limit
    BY <2>1, FS_EmptySet, ChatPagingAssumption
  <2>3. have' \in SUBSET Chats
    BY <2>1 DEF Eligible
  <2>4. client' = "done" /\ byIds => steady \subseteq have'
    BY <2>1 DEF Eligible, Current
  <2> QED BY <2>1, <2>2, <2>3, <2>4
<1>7. CASE Reject
  <2>1. Cardinality({}) <= Limit
    BY FS_EmptySet, ChatPagingAssumption
  <2> QED BY <1>7, <2>1 DEF Reject, database
<1>8. CASE Close
  BY <1>8 DEF Close, database, request
<1>9. CASE UNCHANGED vars
  BY <1>9 DEF vars
<1> QED BY <1>1, <1>2, <1>3, <1>4, <1>5, <1>6, <1>7, <1>8, <1>9 DEF Next, Step

LEMMA AlwaysInductive == Spec => []Inductive
BY InductiveInit, InductiveStep, PTL DEF Spec

(* Every variable keeps its type; above all, no page of RepositoryHelper   *)
(* has more than the limit of rows, whatever page is asked for.            *)
THEOREM TypeCorrect == Spec => []TypeOK
BY AlwaysInductive, PTL DEF Inductive

(* For any number of chats, any limit and any coming and going of chats,   *)
(* a client that sends the ids it has (currentChatsIds) and stops at the   *)
(* first page that is not full has every chat that was the user's all the  *)
(* time.                                                                   *)
THEOREM ListingComplete == Spec => []ListingIsComplete
BY AlwaysInductive, PTL DEF Inductive

(* For any number of chats and any limit no page but the last is in vain:  *)
(* by ids it brings Limit chats the client was not sent before, less those *)
(* that left meanwhile, and by number there are at most as many pages as   *)
(* the chats fill.  What ListingEnds needs besides is fairness.            *)
THEOREM PagesProgress == Spec => PagesMakeProgress
<1>1. ASSUME Inductive, [Next]_vars, at = "rows", at' = "none", client' = "listing"
      PROVE  IF byIds THEN Cardinality(have' \ have) + Cardinality(ids \ mine) = Limit
                      ELSE page * Limit <= Cardinality(Chats)
  <2>1. FindRows /\ Cardinality(ids) = Limit
    <3>1. FindRows
      BY <1>1 DEF Next, Step, Join, Leave, Begin, Ask, FindPage, Reject, Close,
                  request, vars, Inductive, InListing
    <3>2. ids \subseteq Chats /\ Cardinality(ids) <= Limit /\ Limit \in Nat
      BY <1>1, ChatPagingAssumption DEF Inductive, TypeOK
    <3>3. Cardinality(ids) \in Nat
      BY <3>2, ChatsAreFinite
    <3>4. ~(Cardinality(ids) < Limit)
      BY <1>1, <3>1 DEF FindRows
    <3> QED BY <3>1, <3>2, <3>3, <3>4
  <2>2. CASE byIds
    <3>1. /\ have' \ have = ids \cap mine
          /\ ids \subseteq Chats
      BY <1>1, <2>1, <2>2
         DEF FindRows, Eligible, Current, Inductive, TypeOK, PageIsNew
    <3>2. Cardinality(ids \ mine) = Cardinality(ids) - Cardinality(ids \cap mine)
      BY <3>1, ChatsAreFinite, FS_Difference
    <3>3. Cardinality(ids) \in Nat /\ Cardinality(ids \cap mine) \in Nat
      BY <3>1, ChatsAreFinite
    <3>4. Cardinality(have' \ have) + Cardinality(ids \ mine) = Cardinality(ids)
      <4>1. Cardinality(have' \ have) = Cardinality(ids \cap mine)
        BY <3>1
      <4> QED BY <3>2, <3>3, <4>1
    <3> QED BY <2>1, <2>2, <3>4
  <2>3. CASE ~byIds
    BY <1>1, <2>1, <2>3 DEF Inductive, PageIsNew
  <2> QED BY <2>2, <2>3
<1>2. Inductive /\ [Next]_vars =>
        [at = "rows" /\ at' = "none" /\ client' = "listing" =>
           IF byIds THEN Cardinality(have' \ have) + Cardinality(ids \ mine) = Limit
                    ELSE page * Limit <= Cardinality(Chats)]_vars
  BY <1>1
<1> QED BY <1>2, AlwaysInductive, PTL DEF Spec, PagesMakeProgress
=============================================================================
