------------------------------ MODULE ChatPaging ------------------------------
(***************************************************************************)
(* How a client lists the chats of its user: getUserChats (and             *)
(* getUserRequestChats, which is the same) answers one page at a time with *)
(* RepositoryHelper.find, which makes two queries: the ids of the page and *)
(* then the rows with these ids.  Chats come and go meanwhile.             *)
(*                                                                         *)
(* The client is external.  It may ask for what it does not have yet       *)
(* (currentChatsIds), always on the first page, or page after page; it     *)
(* stops when meta.itemCount says that a page was not full.                *)
(***************************************************************************)
EXTENDS FiniteSets, Naturals

CONSTANTS
  Chats,      \* ids the database may generate
  Limit       \* payload.limit

ASSUME ChatPagingAssumption ==
  /\ IsFiniteSet(Chats)
  /\ Limit \in Nat \ {0}

VARIABLES
  mine,       \* the chats that the user is a member of
  unused,     \* the ids no chat has had
  client,     \* "idle", "listing" or "done"
  byIds,      \* it sends currentChatsIds, or else page numbers
  have,       \* the chats the client has been sent in this listing
  page,       \* payload.page of its next request; 0 when it has none
  at,         \* where the request is
  ids,        \* entitiesIds
  steady      \* history: the user's chats throughout this listing

database == <<mine, unused, steady>>
request  == <<at, ids>>
vars     == <<mine, unused, client, byIds, have, page, at, ids, steady>>

TypeOK ==
  /\ mine \in SUBSET Chats
  /\ unused \in SUBSET (Chats \ mine)
  /\ client \in {"idle", "listing", "done"}
  /\ byIds \in BOOLEAN
  /\ have \in SUBSET Chats
  /\ page \in Nat
  /\ at \in {"none", "page", "rows"}
  /\ ids \in SUBSET Chats /\ Cardinality(ids) <= Limit
  /\ steady \in SUBSET mine

Init ==
  /\ mine \in SUBSET Chats
  /\ unused = Chats \ mine
  /\ client = "idle"
  /\ byIds = TRUE
  /\ have = {}
  /\ page = 0
  /\ at = "none"
  /\ ids = {}
  /\ steady = {}

-----------------------------------------------------------------------------
(* Other handlers *)

Join(c) ==
  /\ c \in unused
  /\ mine' = mine \cup {c}
  /\ unused' = unused \ {c}
  /\ UNCHANGED <<client, byIds, have, page, request, steady>>

Leave(c) ==
  /\ c \in mine
  /\ mine' = mine \ {c}
  /\ steady' = steady \ {c}
  /\ UNCHANGED <<unused, client, byIds, have, page, request>>

-----------------------------------------------------------------------------
(* The client *)

Begin ==
  /\ client = "idle"
  /\ client' = "listing"
  /\ have' = {}
  /\ byIds' \in BOOLEAN
  /\ page' = IF byIds' THEN 0 ELSE 1
  /\ steady' = mine
  /\ UNCHANGED <<mine, unused, request>>

Ask ==
  /\ client = "listing"
  /\ at = "none"
  /\ at' = "page"
  /\ UNCHANGED <<database, client, byIds, have, page, ids>>

-----------------------------------------------------------------------------
(* The handler *)

(* getPageAndLimit: the first page unless the payload names one. *)
PageOf(p) == IF p = 0 THEN 1 ELSE p

(* payload.currentChatsIds *)
CurrentIfFew == IF byIds /\ Cardinality(have) <= Limit THEN have ELSE {}
Current == IF byIds THEN have ELSE {}

(* The WHERE of the query: the user's chats but those. *)
EligibleAll == mine
Eligible == mine \ Current

(* How many rows paginate's LIMIT and OFFSET leave of n. *)
SizeOfAll(n) == n
SizeOfNext(n) ==
  LET rest == n - PageOf(page) * Limit
  IN  IF rest <= 0 THEN 0 ELSE IF rest < Limit THEN rest ELSE Limit
SizeOf(n) ==
  LET rest == n - (PageOf(page) - 1) * Limit
  IN  IF rest <= 0 THEN 0 ELSE IF rest < Limit THEN rest ELSE Limit

(* The first query has no ORDER BY: a page may be any rows. *)
FindPage ==
  /\ at = "page"
  /\ at' = "rows"
  /\ \E S \in SUBSET Eligible :
       Cardinality(S) = SizeOf(Cardinality(Eligible)) /\ ids' = S
  /\ UNCHANGED <<database, client, byIds, have, page>>

(* The second query, which a chat that has gone meanwhile is missing from, *)
(* and the answer.  meta is that of the first query.                       *)
FindRows ==
  /\ at = "rows"
  /\ at' = "none"
  /\ ids' = {}
  /\ have' = have \cup (ids \cap Eligible)
  /\ IF Cardinality(ids) < Limit
       THEN client' = "done" /\ UNCHANGED page
       ELSE /\ page' = IF byIds THEN page ELSE page + 1
            /\ UNCHANGED client
  /\ UNCHANGED <<database, byIds>>

(* A query is rejected; the client gives up this listing. *)
Reject ==
  /\ at # "none"
  /\ at' = "none"
  /\ ids' = {}
  /\ client' = "idle"
  /\ UNCHANGED <<database, byIds, have, page>>

(* The client may list the chats once more. *)
Close ==
  /\ client = "done"
  /\ client' = "idle"
  /\ UNCHANGED <<database, byIds, have, page, request>>

Step == Ask \/ FindPage \/ FindRows

Next ==
  \/ \E c \in Chats : Join(c) \/ Leave(c)
  \/ Begin
  \/ Step
  \/ Reject
  \/ Close

(* Queries end, and the client goes on asking. *)
Fairness == WF_vars(Step)

Spec == Init /\ [][Next]_vars /\ Fairness

-----------------------------------------------------------------------------
(* Properties *)

(* A client that asks by ids and is done has every chat that has been the  *)
(* user's all the time, whatever chats came and went between its pages,    *)
(* and between the queries of one page.  (One that counts pages may miss   *)
(* some, as pages are cut from rows in no order.)                          *)
ListingIsComplete == client = "done" /\ byIds => steady \subseteq have

(* No page but the last is in vain, which is why a listing ends.  By ids,  *)
(* it brings Limit chats that no earlier page has brought, but for those   *)
(* that have left between its two queries, whatever came and went before;  *)
(* by numbers, there are no more pages than the chats there may be fill.   *)
PagesMakeProgress ==
  [][at = "rows" /\ at' = "none" /\ client' = "listing" =>
       IF byIds THEN Cardinality(have' \ have) + Cardinality(ids \ mine) = Limit
                ELSE page * Limit <= Cardinality(Chats)]_vars

(* A listing of either kind comes to its end: no page is sent again and    *)
(* again.                                                                  *)
ListingEnds == client = "listing" ~> client # "listing"
=============================================================================
