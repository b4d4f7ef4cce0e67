---------------------------- MODULE UploadPromise ----------------------------
(***************************************************************************)
(* What an upload promises, as far as its client, the bucket and the       *)
(* tables can tell.  There are no groups here, no puts that are waited for *)
(* and no process: a request is open until all its files are in the tables *)
(* or it has failed, and nothing is ever taken back.                       *)
(*                                                                         *)
(* The bucket is promised less than the tables: objects of a request that  *)
(* failed stay in it, and may still arrive.                                *)
(***************************************************************************)
EXTENDS Sequences

CONSTANTS Uploads, Batches, NoFile

VARIABLES
  asked,    \* the files each request carries
  outcome,  \* what has become of it
  bucket,   \* the objects, each with its request as the first part of its key
  rows      \* the tables

vars == <<asked, outcome, bucket, rows>>

Outcomes == {"open", "stored", "failed"}

Init ==
  /\ asked = [u \in Uploads |-> <<>>]
  /\ outcome = [u \in Uploads |-> "open"]
  /\ bucket = {}
  /\ rows = {}

-----------------------------------------------------------------------------
(* A file of one name, and the crop that was made of it or none. *)
Joined(row) ==
  /\ row.file.name.crop = "no"
  /\ row.crop # NoFile => row.crop.name = [row.file.name EXCEPT !.crop = "-crop"]

NamesIn(row) ==
  {row.file.name} \cup (IF row.crop = NoFile THEN {} ELSE {row.crop.name})

Objects(u) == {key \in bucket : key[1] = u}

Ask(u) ==
  /\ outcome[u] = "open"
  /\ asked[u] = <<>>
  /\ \E files \in Batches[u] : asked' = [asked EXCEPT ![u] = files]
  /\ UNCHANGED <<outcome, bucket, rows>>

(* An object of a request comes into the bucket, but never after the       *)
(* request was answered with its files.                                    *)
Put(u) ==
  /\ outcome[u] # "stored"
  /\ \E key \in bucket' : key[1] = u /\ bucket' = bucket \cup {key}
  /\ UNCHANGED <<asked, outcome, rows>>

(* All the rows of a request come into the tables in one step: one for     *)
(* every name in the request, of objects that are there by now, and no     *)
(* object of the request is left without a row.                            *)
Store(u) ==
  LET new == rows' \ rows
  IN  /\ outcome[u] = "open"
      /\ outcome' = [outcome EXCEPT ![u] = "stored"]
      /\ rows \subseteq rows'
      /\ \A row \in new : row.upload = u /\ Joined(row)
      /\ \A i \in DOMAIN asked[u] : \E row \in new : asked[u][i].name \in NamesIn(row)
      /\ UNION {row.keys : row \in new} = Objects(u)
      /\ UNCHANGED <<asked, bucket>>

(* Requests fail, one or all that are open: none of their rows is there,   *)
(* and none will be.                                                       *)
Fail(S) ==
  /\ \A u \in S : outcome[u] = "open"
  /\ outcome' = [u \in Uploads |-> IF u \in S THEN "failed" ELSE outcome[u]]
  /\ UNCHANGED <<asked, bucket, rows>>

Next ==
  \/ \E u \in Uploads : Ask(u) \/ Put(u) \/ Store(u)
  \/ \E S \in SUBSET Uploads : Fail(S)

Spec == Init /\ [][Next]_vars
=============================================================================
