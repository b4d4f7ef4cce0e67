------------------------------ MODULE FileStore ------------------------------
(***************************************************************************)
(* FilesService.upload: the files of one request are grouped by name, each *)
(* group (a file and perhaps a crop of it) is put into the S3 bucket, and  *)
(* when all of them are there their rows are saved in one transaction.     *)
(*                                                                         *)
(* The bucket and the tables are two stores with nothing that joins them,  *)
(* uploads run beside each other, and each may stop at every step.  No     *)
(* code calls FilesService.removeFiles or linkingFiles, so nothing else    *)
(* writes to either store.                                                 *)
(***************************************************************************)
EXTENDS FiniteSets, Functions, Naturals, Sequences

CONSTANTS
  Uploads,   \* the requests; each is made once
  Batches,   \* Batches[u]: the sequences of files request u may carry
  Limit,     \* Limit[format]: media.sizes, in megabytes
  Megabyte,  \* the unit of the sizes of files
  Faults,    \* what may happen besides: a subset of AllFaults
  NoFile     \* a group lacks this part

(* A file is a record of its name, format and size.                        *)
(* A name is what is left of it without "-crop", and how it says crop:     *)
(* "no", "-crop" or "other", "crop" without the dash, which is not removed *)
(* from the name.                                                          *)
Name == [base : STRING, crop : {"no", "-crop", "other"}]

(* S3 reports an error, the database rejects a save, the process ends. *)
AllFaults == {"s3", "database", "restart"}

FileType == [name : Name, format : STRING, size : Nat]

ASSUME FileStoreAssumption ==
  /\ Faults \subseteq AllFaults
  /\ Megabyte \in Nat \ {0}
  /\ \A format \in DOMAIN Limit : Limit[format] \in Nat
  /\ \A u \in Uploads : Batches[u] \subseteq Seq(FileType)
  /\ NoFile \notin FileType

VARIABLES
  bucket,   \* the keys that are in the S3 bucket
  rows,     \* the tables "files" and "crops"
  at,       \* where each upload is
  batch,    \* the files it was sent
  groups,   \* the groups still to be put into the bucket
  waiting,  \* the parts of the current group that are being put
  made      \* the rows it will save

stores  == <<bucket, rows>>
uploads == <<at, batch, groups, waiting, made>>
vars    == <<bucket, rows, at, batch, groups, waiting, made>>

Parts == {"file", "crop"}

States == {"new", "next", "putting", "saving", "answered", "rejected", "stuck",
           "dead"}

-----------------------------------------------------------------------------
(* filesGrouping *)

(* The property of filesGroups that a file belongs to.                     *)
GroupName(name) == IF name.crop = "-crop" THEN [name EXCEPT !.crop = "no"] ELSE name
IsDashCrop(name) == name.crop = "-crop"
IsCrop(name) == name.crop # "no"

(* Of the files of a group, crops or not, the first is kept. *)
PartOf(files, group, crop) ==
  LET S == {i \in DOMAIN files :
              GroupName(files[i].name) = group /\ IsCrop(files[i].name) = crop}
  IN  IF S = {} THEN NoFile ELSE files[CHOOSE i \in S : \A k \in S : i <= k]

(* The groups, in the order in which their names first occur. *)
FilesGrouping(files) ==
  LET name(i) == GroupName(files[i].name)
      starts == {i \in DOMAIN files : \A k \in 1..(i - 1) : name(k) # name(i)}
      start(g) == CHOOSE i \in starts : Cardinality({k \in starts : k <= i}) = g
  IN  [g \in 1..Cardinality(starts) |->
         [file |-> PartOf(files, name(start(g)), FALSE),
          crop |-> PartOf(files, name(start(g)), TRUE)]]

(* getFileFormatAndValidate returns; it throws otherwise, also on the      *)
(* undefined file of a crop that came alone.                               *)
Floor(n, d) == n \div d
Valid(file) ==
  /\ file # NoFile
  /\ file.format \in DOMAIN Limit
  /\ Floor(file.size, Megabyte) <= Limit[file.format]

ValidGroup(g) == Valid(g.file) /\ (g.crop # NoFile => Valid(g.crop))

PartsOf(g) == {"file"} \cup (IF g.crop # NoFile THEN {"crop"} ELSE {})

(* The key of an object, a fresh v4() for every part of every group; the   *)
(* group is told by how many of the upload come after it.                  *)
KeyOfUpload(u, part) == <<u, part>>
Key(u, part) == <<u, Len(groups[u]), part>>

-----------------------------------------------------------------------------
Init ==
  /\ bucket = {}
  /\ rows = {}
  /\ at = [u \in Uploads |-> "new"]
  /\ batch = [u \in Uploads |-> <<>>]
  /\ groups = [u \in Uploads |-> <<>>]
  /\ waiting = [u \in Uploads |-> {}]
  /\ made = [u \in Uploads |-> {}]

Goto(u, where) == at' = [at EXCEPT ![u] = where]

(* An upload without files is answered with none. *)
Begin(u, files) ==
  /\ at[u] = "new"
  /\ batch' = [batch EXCEPT ![u] = files]
  /\ groups' = [groups EXCEPT ![u] = FilesGrouping(files)]
  /\ Goto(u, IF files = <<>> THEN "answered" ELSE "next")
  /\ UNCHANGED <<stores, waiting, made>>

(* The head of the loop: the group is validated and its parts are put, or  *)
(* the request is rejected with what was put before left in the bucket.    *)
NextGroup(u) ==
  /\ at[u] = "next"
  /\ groups[u] # <<>>
  /\ IF ValidGroup(Head(groups[u]))
       THEN /\ Goto(u, "putting")
            /\ waiting' = [waiting EXCEPT ![u] = PartsOf(Head(groups[u]))]
       ELSE Goto(u, "rejected") /\ UNCHANGED waiting
  /\ UNCHANGED <<stores, batch, groups, made>>

(* S3 has stored a part, and saveFile resolves if it is still there.       *)
PutDone(u, part) ==
  /\ at[u] \in {"putting", "stuck", "dead"}
  /\ part \in waiting[u]
  /\ bucket' = bucket \cup {Key(u, part)}
  /\ waiting' = [waiting EXCEPT ![u] = @ \ {part}]
  /\ UNCHANGED <<rows, at, batch, groups, made>>

(* S3 reports an error.  The callback throws, which neither resolves nor   *)
(* rejects the promise of saveFile: the upload waits forever, or the       *)
(* exception, caught by nobody, ends the process.                          *)
PutFails(u, part) ==
  /\ "s3" \in Faults
  /\ at[u] \in {"putting", "stuck"}
  /\ part \in waiting[u]
  /\ Goto(u, "stuck")
  /\ waiting' = [waiting EXCEPT ![u] = @ \ {part}]
  /\ UNCHANGED <<stores, batch, groups, made>>

(* Promise.all resolves: the entity of the group is created.               *)
RowWithoutCrop(u, g) == [upload |-> u, file |-> g.file, crop |-> NoFile,
                         keys |-> {Key(u, part) : part \in PartsOf(g)}]
RowOf(u, g) == [upload |-> u, file |-> g.file, crop |-> g.crop,
                keys |-> {Key(u, part) : part \in PartsOf(g)}]

NotAwaited(u) == TRUE
AllWithCrop(u) == \A part \in Parts : Key(u, part) \in bucket
AllPut(u) == waiting[u] = {}
GroupDoneSaves(u) ==
  /\ at[u] = "putting"
  /\ AllPut(u)
  /\ rows' = rows \cup {RowOf(u, Head(groups[u]))}
  /\ made' = [made EXCEPT ![u] = @ \cup {RowOf(u, Head(groups[u]))}]
  /\ groups' = [groups EXCEPT ![u] = Tail(@)]
  /\ Goto(u, IF Len(groups[u]) = 1 THEN "saving" ELSE "next")
  /\ UNCHANGED <<bucket, batch, waiting>>
GroupDone(u) ==
  /\ at[u] = "putting"
  /\ AllPut(u)
  /\ made' = [made EXCEPT ![u] = @ \cup {RowOf(u, Head(groups[u]))}]
  /\ groups' = [groups EXCEPT ![u] = Tail(@)]
  /\ Goto(u, IF Len(groups[u]) = 1 THEN "saving" ELSE "next")
  /\ UNCHANGED <<stores, batch, waiting>>

(* repository.save(newFiles), with the crops by cascade. *)
SaveRows(u) ==
  /\ at[u] = "saving"
  /\ rows' = rows \cup made[u]
  /\ Goto(u, "answered")
  /\ UNCHANGED <<bucket, batch, groups, waiting, made>>

SaveFails(u) ==
  /\ "database" \in Faults
  /\ at[u] = "saving"
  /\ Goto(u, "rejected")
  /\ UNCHANGED <<stores, batch, groups, waiting, made>>

(* The process ends and starts again: the uploads in it are lost. *)
Restart ==
  /\ "restart" \in Faults
  /\ at' = [u \in Uploads |->
              IF at[u] \in {"next", "putting", "saving", "stuck"}
              THEN "dead" ELSE at[u]]
  /\ UNCHANGED <<stores, batch, groups, waiting, made>>

-----------------------------------------------------------------------------
Step(u) ==
  \/ NextGroup(u)
  \/ GroupDone(u)
  \/ SaveRows(u)
  \/ SaveFails(u)
  \/ \E part \in Parts : PutDone(u, part) \/ PutFails(u, part)

Next ==
  \/ \E u \in Uploads : Step(u) \/ \E files \in Batches[u] : Begin(u, files)
  \/ Restart

(* S3 and the database answer; the event loop runs every continuation.     *)
Fairness == \A u \in Uploads : WF_vars(Step(u))

Spec == Init /\ [][Next]_vars /\ Fairness

-----------------------------------------------------------------------------
(* Properties *)

(* The files a client may send, and the rows made of them. *)
AllBatches == UNION {Batches[u] : u \in Uploads}
Files == UNION {Range(files) : files \in AllBatches}

RowType == [upload : Uploads, file : Files, crop : Files \cup {NoFile},
            keys : SUBSET (Uploads \X Nat \X Parts)]

TypeOK ==
  /\ bucket \in SUBSET (Uploads \X Nat \X Parts)
  /\ rows \in SUBSET RowType
  /\ at \in [Uploads -> States]
  /\ batch \in [Uploads -> AllBatches \cup {<<>>}]
  /\ groups \in [Uploads -> Seq([file : Files \cup {NoFile},
                                crop : Files \cup {NoFile}])]
  /\ waiting \in [Uploads -> SUBSET Parts]
  /\ made \in [Uploads -> SUBSET RowType]

(* A file the tables know is in the bucket with its crop, whatever fails   *)
(* and whenever the process ends; and once an upload is answered the       *)
(* bucket has nothing of it that the tables do not know.                   *)
StoresAgree ==
  /\ \A row \in rows : row.keys \subseteq bucket
  /\ \A u \in Uploads : at[u] = "answered" =>
       {key \in bucket : key[1] = u} =
         UNION {row.keys : row \in {x \in rows : x.upload = u}}

(* A crop is never stored as a file, nor with a file that it was not made  *)
(* of, in whatever order the files of the request come.                    *)
CropsBelong ==
  \A row \in rows :
    /\ row.file.name.crop = "no"
    /\ row.crop # NoFile => row.crop.name = [row.file.name EXCEPT !.crop = "-crop"]

(* Every name that a client sent in an answered request is there. *)
EveryNameIsStored ==
  \A u \in Uploads : at[u] = "answered" =>
    \A i \in DOMAIN batch[u] :
      \E row \in rows : /\ row.upload = u
                        /\ batch[u][i].name \in
                             {row.file.name} \cup
                             (IF row.crop = NoFile THEN {} ELSE {row.crop.name})

(* The puts of an upload, in whatever order they end, with whatever fails  *)
(* between them (files.service.ts 87 to 149), are one step for those who   *)
(* look at the tables: all its rows come at once, with every object there, *)
(* or none ever does.  Nothing is taken back, and a request that has been  *)
(* answered or has failed stays so.                                        *)
Outcome(u) ==
  CASE at[u] = "answered"             -> "stored"
    [] at[u] \in {"rejected", "dead"} -> "failed"
    [] OTHER                          -> "open"

Promise == INSTANCE UploadPromise WITH
             asked <- batch, outcome <- [u \in Uploads |-> Outcome(u)]

KeepsPromise == Promise!Spec

(* A client that sent files is answered, one way or the other, unless the *)
(* process ends or S3 reports an error for that very upload ("stuck"): an  *)
(* error of another one never holds it up.                                 *)
UploadsEnd ==
  \A u \in Uploads :
    at[u] = "next" ~> at[u] \in {"answered", "rejected", "dead", "stuck"}
=============================================================================
