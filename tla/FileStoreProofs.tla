-------------------------- MODULE FileStoreProofs --------------------------
(***************************************************************************)
(* Proofs about FileStore, for any uploads, batches of files and limits.   *)
(*                                                                         *)
(* First what filesGrouping makes of any sequence of files, then that the  *)
(* bucket and the tables agree about each upload in whatever order puts    *)
(* end, and what that says of the files that were sent.                    *)
(***************************************************************************)
EXTENDS FileStore, FiniteSetTheorems, SequenceTheorems, TLAPS

-----------------------------------------------------------------------------
(* filesGrouping *)

LEMMA LeastOf ==
  ASSUME NEW S, S \subseteq Nat, S # {}
  PROVE  \E i \in S : \A k \in S : i <= k
<1> DEFINE R == OpToRel(<, Nat)
<1>1. \A x, y \in Nat : x < y => <<x, y>> \in R
  BY DEF OpToRel
<1>2. IsWellFoundedOn(R, Nat)
  BY NatLessThanWellFounded
<1> HIDE DEF R
<1>3. PICK i \in S : \A k \in S : ~ (<<k, i>> \in R)
  BY <1>2, WFMin
<1>4. \A k \in S : ~ (k < i)
  BY <1>1, <1>3, Zenon
<1> QED BY <1>3, <1>4

(* Elements of a finite set of numbers are counted without gaps: each is   *)
(* the only one with as many up to it.                                     *)
LEMMA CountedUpTo ==
  ASSUME NEW S \in SUBSET Nat, IsFiniteSet(S), NEW i \in S
  PROVE  /\ Cardinality({k \in S : k <= i}) \in 1..Cardinality(S)
         /\ \A j \in S : Cardinality({k \in S : k <= j}) = Cardinality({k \in S : k <= i})
                           => j = i
<1> DEFINE Up(j) == {k \in S : k <= j}
<1>1. \A j \in S : /\ IsFiniteSet(Up(j)) /\ Cardinality(Up(j)) \in Nat
                   /\ Cardinality(Up(j)) <= Cardinality(S)
  <2> SUFFICES ASSUME NEW j \in S
               PROVE  /\ IsFiniteSet(Up(j)) /\ Cardinality(Up(j)) \in Nat
                      /\ Cardinality(Up(j)) <= Cardinality(S)
    OBVIOUS
  <2>1. Up(j) \in SUBSET S
    OBVIOUS
  <2> HIDE DEF Up
  <2> QED BY <2>1, FS_Subset, FS_CardinalityType
<1>2. Cardinality(S) \in Nat
  BY FS_CardinalityType
<1>3. Up(i) # {}
  OBVIOUS
<1>4. Cardinality(Up(i)) # 0
  <2> HIDE DEF Up
  <2> QED BY <1>1, <1>3, FS_EmptySet
<1>5. ASSUME NEW j \in S, NEW l \in S, j < l,
             Cardinality(Up(j)) = Cardinality(Up(l))
      PROVE  FALSE
  <2>1. Up(j) \subseteq Up(l) /\ l \in Up(l) /\ l \notin Up(j)
    <3>1. \A x \in S : x \in Nat
      OBVIOUS
    <3>2. j < l /\ j \in Nat /\ l \in Nat
      BY <1>5, <3>1
    <3>3. \A x \in Nat : x <= j => x <= l
      BY <3>2
    <3>4. Up(j) \subseteq Up(l)
      BY <3>1, <3>3
    <3>5. l \in Up(l)
      BY <3>2
    <3>6. l \notin Up(j)
      BY <3>2
    <3> QED BY <3>4, <3>5, <3>6
  <2> HIDE DEF Up
  <2>2. Up(j) = Up(l)
    BY <1>1, <1>5, <2>1, FS_Subset
  <2> QED BY <2>1, <2>2
<1> QED BY <1>1, <1>2, <1>4, <1>5

(* The names that FilesGrouping gives its groups. *)
NameAt(files, i) == GroupName(files[i].name)
Starts(files) ==
  {i \in DOMAIN files : \A k \in 1..(i - 1) : NameAt(files, k) # NameAt(files, i)}
GroupOf(files, name) ==
  [file |-> PartOf(files, name, FALSE), crop |-> PartOf(files, name, TRUE)]

LEMMA StartsAreFinite ==
  ASSUME NEW files \in Seq(FileType)
  PROVE  /\ Starts(files) \in SUBSET Nat /\ IsFiniteSet(Starts(files))
         /\ Cardinality(Starts(files)) \in Nat
<1>1. DOMAIN files = 1..Len(files) /\ Len(files) \in Nat
  OBVIOUS
<1>2. IsFiniteSet(1..Len(files))
  BY <1>1, FS_Interval
<1>3. Starts(files) \subseteq 1..Len(files)
  BY <1>1 DEF Starts
<1> QED BY <1>2, <1>3, FS_Subset, FS_CardinalityType

(* The groups are those of the names. *)
LEMMA GroupsHaveNames ==
  ASSUME NEW files \in Seq(FileType)
  PROVE  LET n == Cardinality(Starts(files))
         IN  /\ FilesGrouping(files) = [g \in 1..n |-> FilesGrouping(files)[g]]
             /\ \A g \in 1..n : \E name : FilesGrouping(files)[g] = GroupOf(files, name)
             /\ \A i \in Starts(files) : \E g \in 1..n :
                  FilesGrouping(files)[g] = GroupOf(files, NameAt(files, i))
<1> DEFINE S == Starts(files)
           n == Cardinality(S)
           start(g) == CHOOSE i \in S : Cardinality({k \in S : k <= i}) = g
<1>1. FilesGrouping(files) = [g \in 1..n |-> GroupOf(files, NameAt(files, start(g)))]
  BY DEF FilesGrouping, GroupOf, NameAt, Starts
<1>2. S \in SUBSET Nat /\ IsFiniteSet(S)
  BY StartsAreFinite
<1>3. ASSUME NEW i \in S
      PROVE  \E g \in 1..n : start(g) = i
  <2> DEFINE g == Cardinality({k \in S : k <= i})
  <2>1. g \in 1..n /\ \A j \in S : Cardinality({k \in S : k <= j}) = g => j = i
    BY <1>2, CountedUpTo
  <2>2. start(g) = i
    BY <2>1
  <2> QED BY <2>1, <2>2
<1> HIDE DEF start, n, S
<1>4. \A g \in 1..n : FilesGrouping(files)[g] = GroupOf(files, NameAt(files, start(g)))
  BY <1>1
<1>5. FilesGrouping(files) = [g \in 1..n |-> FilesGrouping(files)[g]]
  BY <1>1
<1>6. \A g \in 1..n : \E name : FilesGrouping(files)[g] = GroupOf(files, name)
  BY <1>4
<1>7. \A i \in S : \E g \in 1..n :
        FilesGrouping(files)[g] = GroupOf(files, NameAt(files, i))
  BY <1>3, <1>4
<1> QED BY <1>5, <1>6, <1>7 DEF n, S

LEMMA FilesOfBatch ==
  ASSUME NEW files \in Seq(FileType)
  PROVE  \A i \in DOMAIN files : /\ files[i] \in FileType /\ files[i] \in Range(files)
                                 /\ files[i].name \in Name /\ files[i] # NoFile
<1>1. \A i \in DOMAIN files : files[i] \in FileType /\ files[i] \in Range(files)
  BY DEF Range
<1>2. \A file \in FileType : file.name \in Name /\ file # NoFile
  BY FileStoreAssumption DEF FileType
<1> QED BY <1>1, <1>2

(* The parts of a group are files of the batch with its name. *)
LEMMA PartIsOfGroup ==
  ASSUME NEW files \in Seq(FileType), NEW name, NEW crop \in BOOLEAN
  PROVE  LET part == PartOf(files, name, crop)
             S == {i \in DOMAIN files :
                     GroupName(files[i].name) = name /\ IsCrop(files[i].name) = crop}
         IN  \/ part = NoFile /\ S = {}
             \/ \E i \in S : part = files[i]
<1> DEFINE S == {i \in DOMAIN files :
                   GroupName(files[i].name) = name /\ IsCrop(files[i].name) = crop}
<1>1. CASE S = {}
  BY <1>1 DEF PartOf
<1>2. CASE S # {}
  <2>1. S \subseteq Nat
    OBVIOUS
  <2>2. \E i \in S : \A k \in S : i <= k
    BY <1>2, <2>1, LeastOf
  <2>3. (CHOOSE i \in S : \A k \in S : i <= k) \in S
    BY <2>2
  <2>4. PartOf(files, name, crop) = files[CHOOSE i \in S : \A k \in S : i <= k]
    BY <1>2 DEF PartOf
  <2> QED BY <2>3, <2>4
<1> QED BY <1>1, <1>2

(* Two names of one group that both say crop, or both do not, are equal.   *)
LEMMA NamesOfGroup ==
  ASSUME NEW x \in Name, NEW y \in Name, GroupName(x) = GroupName(y),
         IsCrop(x) = IsCrop(y)
  PROVE  x = y
<1>1. \A z \in Name : /\ GroupName(z) \in Name /\ GroupName(z).base = z.base
                      /\ GroupName(z).crop = IF z.crop = "-crop" THEN "no" ELSE z.crop
  BY DEF GroupName, Name
<1>2. x.base = y.base /\ x.crop = y.crop
  BY <1>1 DEF IsCrop, Name
<1> QED BY <1>2 DEF Name

(* What a file and a crop of one group are to each other. *)
Belong(g) ==
  /\ g.file # NoFile => g.file.name.crop = "no"
  /\ g.file # NoFile /\ g.crop # NoFile =>
       g.crop.name = [g.file.name EXCEPT !.crop = "-crop"]

(* The name is that of a part of the group. *)
Holds(g, name) ==
  \/ g.file # NoFile /\ g.file.name = name
  \/ g.crop # NoFile /\ g.crop.name = name

GroupType(files) == [file : Range(files) \cup {NoFile}, crop : Range(files) \cup {NoFile}]

LEMMA GroupOfBelongs ==
  ASSUME NEW files \in Seq(FileType), NEW name
  PROVE  GroupOf(files, name) \in GroupType(files) /\ Belong(GroupOf(files, name))
<1>1. \A i \in DOMAIN files : /\ files[i] \in FileType /\ files[i] \in Range(files)
                              /\ files[i].name \in Name /\ files[i] # NoFile
  BY FilesOfBatch
<1> DEFINE f == PartOf(files, name, FALSE)
           c == PartOf(files, name, TRUE)
<1>2. f = NoFile \/ \E i \in DOMAIN files :
        /\ f = files[i] /\ GroupName(files[i].name) = name /\ ~IsCrop(files[i].name)
  BY PartIsOfGroup
<1>3. c = NoFile \/ \E i \in DOMAIN files :
        /\ c = files[i] /\ GroupName(files[i].name) = name /\ IsCrop(files[i].name)
  BY PartIsOfGroup
<1>4. GroupOf(files, name).file = f /\ GroupOf(files, name).crop = c
  BY DEF GroupOf
<1> HIDE DEF f, c
<1>5. GroupOf(files, name) \in GroupType(files)
  <2>1. f \in Range(files) \cup {NoFile} /\ c \in Range(files) \cup {NoFile}
    BY <1>1, <1>2, <1>3
  <2> QED BY <2>1 DEF GroupOf, GroupType, f, c
<1>6. f # NoFile => f.name \in Name /\ f.name.crop = "no" /\ GroupName(f.name) = name
  BY <1>1, <1>2 DEF IsCrop
<1>7. c # NoFile => c.name \in Name /\ c.name.crop # "no" /\ GroupName(c.name) = name
  BY <1>1, <1>3 DEF IsCrop
<1>8. ASSUME f # NoFile, c # NoFile
      PROVE  c.name = [f.name EXCEPT !.crop = "-crop"]
  <2>1. GroupName(f.name) = f.name
    BY <1>6, <1>8 DEF GroupName
  <2>2. c.name.crop = "-crop" /\ f.name = [c.name EXCEPT !.crop = "no"]
    BY <1>6, <1>7, <1>8, <2>1 DEF GroupName
  <2>3. c.name.base = f.name.base
    BY <1>7, <1>8, <2>2 DEF Name
  <2> QED BY <1>6, <1>7, <1>8, <2>2, <2>3 DEF Name
<1> QED BY <1>4, <1>5, <1>6, <1>8 DEF Belong

(* What filesGrouping does, for any files: a group for every file, with    *)
(* nothing in it that does not belong there.                               *)
LEMMA GroupingIsRight ==
  ASSUME NEW files \in Seq(FileType)
  PROVE  /\ FilesGrouping(files) \in Seq(GroupType(files))
         /\ files # <<>> => FilesGrouping(files) # <<>>
         /\ \A g \in Range(FilesGrouping(files)) : Belong(g)
         /\ \A i \in DOMAIN files :
              \E g \in Range(FilesGrouping(files)) : Holds(g, files[i].name)
<1> DEFINE n == Cardinality(Starts(files))
           F == FilesGrouping(files)
<1>1. /\ F = [g \in 1..n |-> F[g]]
      /\ \A g \in 1..n : \E name : F[g] = GroupOf(files, name)
      /\ \A i \in Starts(files) : \E g \in 1..n : F[g] = GroupOf(files, NameAt(files, i))
  BY GroupsHaveNames
<1>2. n \in Nat
  BY StartsAreFinite
<1> HIDE DEF n, F
<1>3. DOMAIN F = 1..n /\ \A g \in 1..n : F[g] \in GroupType(files) /\ Belong(F[g])
  BY <1>1, GroupOfBelongs
<1>4. F \in Seq(GroupType(files))
  BY <1>1, <1>2, <1>3
<1>5. \A g \in Range(F) : Belong(g)
  BY <1>3 DEF Range
<1>6. ASSUME NEW i \in DOMAIN files
      PROVE  \E g \in Range(F) : Holds(g, files[i].name)
  <2> DEFINE S == {k \in DOMAIN files : NameAt(files, k) = NameAt(files, i)}
  <2>1. S \subseteq Nat /\ S # {}
    OBVIOUS
  <2>2. PICK s \in S : \A k \in S : s <= k
    BY <2>1, LeastOf
  <2>3. s \in Starts(files) /\ NameAt(files, s) = NameAt(files, i)
    BY <2>2 DEF Starts
  <2>4. PICK g \in 1..n : F[g] = GroupOf(files, NameAt(files, i))
    BY <1>1, <2>3
  <2>5. \A k \in DOMAIN files : files[k].name \in Name /\ files[k] # NoFile
    BY FilesOfBatch
  <2> DEFINE part == PartOf(files, NameAt(files, i), IsCrop(files[i].name))
  <2>6. \E k \in DOMAIN files :
          /\ part = files[k] /\ GroupName(files[k].name) = GroupName(files[i].name)
          /\ IsCrop(files[k].name) = IsCrop(files[i].name)
    <3>1. /\ GroupName(files[i].name) = NameAt(files, i)
          /\ IsCrop(files[i].name) \in BOOLEAN
      BY DEF NameAt, IsCrop
    <3> HIDE DEF part
    <3> QED BY <3>1, PartIsOfGroup DEF NameAt, part
  <2>7. part # NoFile /\ part.name = files[i].name
    BY <2>5, <2>6, NamesOfGroup
  <2>8. part \in {F[g].file, F[g].crop}
    <3>1. IsCrop(files[i].name) \in BOOLEAN
      BY DEF IsCrop
    <3>2. /\ F[g].file = PartOf(files, NameAt(files, i), FALSE)
          /\ F[g].crop = PartOf(files, NameAt(files, i), TRUE)
      BY <2>4 DEF GroupOf
    <3>3. CASE IsCrop(files[i].name) = TRUE
      BY <3>2, <3>3
    <3>4. CASE IsCrop(files[i].name) = FALSE
      BY <3>2, <3>4
    <3> QED BY <3>1, <3>3, <3>4
  <2>9. Holds(F[g], files[i].name)
    BY <2>7, <2>8 DEF Holds
  <2> QED BY <1>3, <2>9 DEF Range
<1>7. files # <<>> => F # <<>>
  <2>1. ASSUME files # <<>>, F = <<>> PROVE FALSE
    <3>1. 1 \in DOMAIN files
      BY <2>1
    <3>2. Range(F) # {}
      BY <1>6, <3>1
    <3> QED BY <2>1, <3>2 DEF Range
  <2> QED BY <2>1
<1> QED BY <1>4, <1>5, <1>6, <1>7 DEF F

-----------------------------------------------------------------------------
(* The inductive invariant *)

Sent(u) == {key \in bucket : key[1] = u}
RowsFor(u) == {row \in rows : row.upload = u}
KeysMade(u) == UNION {row.keys : row \in made[u]}
PutNow(u) == {Key(u, part) : part \in PartsOf(Head(groups[u])) \ waiting[u]}

(* Where an upload is tells what it has left to do. *)
InPlace(u) ==
  /\ at[u] = "new" => made[u] = {} /\ Sent(u) = {} /\ batch[u] = <<>>
  /\ at[u] \in {"next", "putting"} => groups[u] # <<>>
  /\ at[u] = "putting" => /\ ValidGroup(Head(groups[u]))
                          /\ waiting[u] \subseteq PartsOf(Head(groups[u]))
  /\ at[u] \in {"new", "next", "saving", "answered", "rejected"} => waiting[u] = {}

(* The objects of an upload that goes on are those of the rows it will     *)
(* save, and those that the current group has put.                         *)
Accounted(u) ==
  /\ at[u] \in {"next", "saving", "answered"} => Sent(u) = KeysMade(u)
  /\ at[u] = "putting" => Sent(u) = KeysMade(u) \cup PutNow(u)

RowsAreMade(u) ==
  /\ \A row \in made[u] : row.upload = u /\ row.file # NoFile /\ Belong(row)
  /\ RowsFor(u) = IF at[u] = "answered" THEN made[u] ELSE {}

(* Every name of the batch is in a group to come or in a row. *)
Covered(u) ==
  /\ \A g \in Range(groups[u]) : Belong(g)
  /\ at[u] \in {"next", "putting"} =>
       \A i \in DOMAIN batch[u] :
         \E g \in Range(groups[u]) \cup made[u] : Holds(g, batch[u][i].name)
  /\ at[u] \in {"saving", "answered"} =>
       \A i \in DOMAIN batch[u] : \E row \in made[u] : Holds(row, batch[u][i].name)

Good(u) == InPlace(u) /\ Accounted(u) /\ RowsAreMade(u) /\ Covered(u)

Inductive == TypeOK /\ \A u \in Uploads : Good(u)

(* An upload that a step leaves alone stays good. *)
LEMMA GoodKept ==
  ASSUME NEW u \in Uploads, Good(u), at'[u] = at[u], batch'[u] = batch[u],
         groups'[u] = groups[u], waiting'[u] = waiting[u], made'[u] = made[u],
         Sent(u)' = Sent(u), RowsFor(u)' = RowsFor(u)
  PROVE  Good(u)'
<1>1. KeysMade(u)' = KeysMade(u) /\ PutNow(u)' = PutNow(u)
  BY DEF KeysMade, PutNow, Key
<1>2. InPlace(u)'
  BY DEF Good, InPlace
<1>3. Accounted(u)'
  BY <1>1 DEF Good, Accounted
<1>4. RowsAreMade(u)' /\ Covered(u)'
  BY DEF Good, RowsAreMade, Covered
<1> QED BY <1>2, <1>3, <1>4 DEF Good

LEMMA OthersKept ==
  ASSUME \A u \in Uploads : Good(u), NEW u \in Uploads, NEW v \in Uploads \ {u},
         at'[v] = at[v], batch'[v] = batch[v],
         groups'[v] = groups[v], waiting'[v] = waiting[v], made'[v] = made[v],
         \A key : key[1] = v => (key \in bucket' <=> key \in bucket),
         \A row : row.upload = v => (row \in rows' <=> row \in rows)
  PROVE  Good(v)'
<1>1. Sent(v)' = Sent(v)
  BY DEF Sent
<1>2. RowsFor(v)' = RowsFor(v)
  BY DEF RowsFor
<1> QED BY <1>1, <1>2, GoodKept

LEMMA InductiveInit == Init => Inductive
<1> SUFFICES ASSUME Init PROVE Inductive
  OBVIOUS
<1>1. TypeOK
  BY DEF Init, TypeOK, States
<1>2. ASSUME NEW u \in Uploads PROVE Good(u)
  <2>1. Sent(u) = {} /\ RowsFor(u) = {} /\ made[u] = {} /\ waiting[u] = {}
        /\ at[u] = "new" /\ groups[u] = <<>> /\ batch[u] = <<>>
    BY DEF Init, Sent, RowsFor
  <2>2. Range(groups[u]) = {}
    BY <2>1 DEF Range
  <2> QED BY <2>1, <2>2 DEF Good, InPlace, Accounted, RowsAreMade, Covered
<1> QED BY <1>1, <1>2 DEF Inductive

-----------------------------------------------------------------------------
(* The steps *)

LEMMA BatchType ==
  ASSUME NEW u \in Uploads, NEW files \in Batches[u]
  PROVE  /\ files \in AllBatches /\ files \in Seq(FileType)
         /\ GroupType(files) \subseteq
              [file : Files \cup {NoFile}, crop : Files \cup {NoFile}]
<1>1. files \in AllBatches /\ files \in Seq(FileType)
  BY FileStoreAssumption DEF AllBatches
<1>2. Range(files) \subseteq Files
  BY <1>1 DEF Files
<1> QED BY <1>1, <1>2 DEF GroupType

LEMMA BeginStep ==
  ASSUME Inductive, NEW u \in Uploads, NEW files \in Batches[u], Begin(u, files)
  PROVE  Inductive'
<1> DEFINE F == FilesGrouping(files)
<1>1. files \in Seq(FileType) /\ files \in AllBatches
  BY BatchType
<1>2. /\ F \in Seq([file : Files \cup {NoFile}, crop : Files \cup {NoFile}])
      /\ files # <<>> => F # <<>>
      /\ \A g \in Range(F) : Belong(g)
      /\ \A i \in DOMAIN files : \E g \in Range(F) : Holds(g, files[i].name)
  <2>1. /\ F \in Seq(GroupType(files))
        /\ files # <<>> => F # <<>>
        /\ \A g \in Range(F) : Belong(g)
        /\ \A i \in DOMAIN files : \E g \in Range(F) : Holds(g, files[i].name)
    BY <1>1, GroupingIsRight
  <2>2. GroupType(files) \subseteq
          [file : Files \cup {NoFile}, crop : Files \cup {NoFile}]
    BY BatchType
  <2> HIDE DEF F
  <2>3. F \in Seq([file : Files \cup {NoFile}, crop : Files \cup {NoFile}])
    BY <2>1, <2>2, SeqMonotonic
  <2> QED BY <2>1, <2>3
<1> HIDE DEF F
<1>3. /\ at[u] = "new" /\ UNCHANGED <<bucket, rows, waiting, made>>
      /\ batch' = [batch EXCEPT ![u] = files]
      /\ groups' = [groups EXCEPT ![u] = F]
      /\ at' = [at EXCEPT ![u] = IF files = <<>> THEN "answered" ELSE "next"]
  BY DEF Begin, Goto, stores, F
<1>4. TypeOK'
  BY <1>1, <1>2, <1>3 DEF Inductive, TypeOK, States
<1>5. ASSUME NEW v \in Uploads \ {u} PROVE Good(v)'
  <2>1. /\ at'[v] = at[v] /\ batch'[v] = batch[v] /\ groups'[v] = groups[v]
        /\ waiting'[v] = waiting[v] /\ made'[v] = made[v]
    BY <1>3 DEF Inductive, TypeOK
  <2> QED BY <1>3, <2>1, OthersKept DEF Inductive
<1>6. Good(u)'
  <2>1. /\ batch'[u] = files /\ groups'[u] = F
        /\ at'[u] = IF files = <<>> THEN "answered" ELSE "next"
    BY <1>3 DEF Inductive, TypeOK
  <2>2. /\ made[u] = {} /\ Sent(u) = {} /\ waiting[u] = {} /\ RowsFor(u) = {}
    BY <1>3 DEF Inductive, Good, InPlace, RowsAreMade
  <2>3. made'[u] = {} /\ Sent(u)' = {} /\ waiting'[u] = {} /\ RowsFor(u)' = {}
    BY <1>3, <2>2 DEF Sent, RowsFor
  <2>4. KeysMade(u)' = {}
    BY <2>3 DEF KeysMade
  <2>5. InPlace(u)' /\ Accounted(u)' /\ RowsAreMade(u)'
    BY <1>2, <2>1, <2>3, <2>4 DEF InPlace, Accounted, RowsAreMade
  <2>6. Covered(u)'
    BY <1>2, <2>1 DEF Covered
  <2> QED BY <2>5, <2>6 DEF Good
<1> QED BY <1>4, <1>5, <1>6 DEF Inductive

LEMMA NextGroupStep ==
  ASSUME Inductive, NEW u \in Uploads, NextGroup(u)
  PROVE  Inductive'
<1>1. /\ at[u] = "next" /\ groups[u] # <<>>
      /\ UNCHANGED <<bucket, rows, batch, groups, made>>
  BY DEF NextGroup, stores
<1>2. \/ /\ ValidGroup(Head(groups[u]))
         /\ at' = [at EXCEPT ![u] = "putting"]
         /\ waiting' = [waiting EXCEPT ![u] = PartsOf(Head(groups[u]))]
      \/ /\ at' = [at EXCEPT ![u] = "rejected"]
         /\ UNCHANGED waiting
  BY DEF NextGroup, Goto
<1>3. PartsOf(Head(groups[u])) \subseteq Parts
  BY DEF PartsOf, Parts
<1>4. TypeOK'
  BY <1>1, <1>2, <1>3 DEF Inductive, TypeOK, States
<1>5. ASSUME NEW v \in Uploads \ {u} PROVE Good(v)'
  <2>1. /\ at'[v] = at[v] /\ batch'[v] = batch[v] /\ groups'[v] = groups[v]
        /\ waiting'[v] = waiting[v] /\ made'[v] = made[v]
    BY <1>1, <1>2 DEF Inductive, TypeOK
  <2> QED BY <1>1, <2>1, OthersKept DEF Inductive
<1>6. Good(u)'
  <2>1. Sent(u)' = Sent(u) /\ RowsFor(u)' = RowsFor(u) /\ KeysMade(u)' = KeysMade(u)
    BY <1>1 DEF Sent, RowsFor, KeysMade
  <2>2. Good(u)
    BY DEF Inductive
  <2>3. CASE /\ ValidGroup(Head(groups[u])) /\ at'[u] = "putting"
             /\ waiting'[u] = PartsOf(Head(groups[u]))
    <3>1. PutNow(u)' = {}
      BY <1>1, <2>3 DEF PutNow
    <3> QED BY <1>1, <2>1, <2>2, <2>3, <3>1
        DEF Good, InPlace, Accounted, RowsAreMade, Covered
  <2>4. CASE at'[u] = "rejected" /\ waiting'[u] = waiting[u]
    BY <1>1, <2>1, <2>2, <2>4 DEF Good, InPlace, Accounted, RowsAreMade, Covered
  <2> QED BY <1>2, <2>3, <2>4 DEF Inductive, TypeOK
<1> QED BY <1>4, <1>5, <1>6 DEF Inductive

LEMMA KeyType ==
  ASSUME TypeOK, NEW u \in Uploads, NEW part \in Parts
  PROVE  Key(u, part) \in Uploads \X Nat \X Parts /\ Key(u, part)[1] = u
<1>1. Len(groups[u]) \in Nat
  BY DEF TypeOK
<1> QED BY <1>1 DEF Key

LEMMA PutDoneStep ==
  ASSUME Inductive, NEW u \in Uploads, NEW part \in Parts, PutDone(u, part)
  PROVE  Inductive'
<1>1. /\ at[u] \in {"putting", "stuck", "dead"} /\ part \in waiting[u]
      /\ bucket' = bucket \cup {Key(u, part)}
      /\ waiting' = [waiting EXCEPT ![u] = @ \ {part}]
      /\ UNCHANGED <<rows, at, batch, groups, made>>
  BY DEF PutDone
<1>2. Key(u, part) \in Uploads \X Nat \X Parts /\ Key(u, part)[1] = u
  BY KeyType DEF Inductive
<1>3. waiting'[u] = waiting[u] \ {part}
  BY <1>1 DEF Inductive, TypeOK
<1>4. TypeOK'
  BY <1>1, <1>2 DEF Inductive, TypeOK
<1>5. ASSUME NEW v \in Uploads \ {u} PROVE Good(v)'
  <2>1. /\ at'[v] = at[v] /\ batch'[v] = batch[v] /\ groups'[v] = groups[v]
        /\ waiting'[v] = waiting[v] /\ made'[v] = made[v]
    BY <1>1 DEF Inductive, TypeOK
  <2>2. \A key : key[1] = v => (key \in bucket' <=> key \in bucket)
    BY <1>1, <1>2
  <2> QED BY <1>1, <2>1, <2>2, OthersKept DEF Inductive
<1>6. Good(u)'
  <2>1. Good(u)
    BY DEF Inductive
  <2>2. RowsFor(u)' = RowsFor(u) /\ KeysMade(u)' = KeysMade(u)
    BY <1>1 DEF RowsFor, KeysMade
  <2>3. Sent(u)' = Sent(u) \cup {Key(u, part)}
    BY <1>1, <1>2 DEF Sent
  <2>4. at[u] = "putting" => PutNow(u)' = PutNow(u) \cup {Key(u, part)}
    <3>1. at[u] = "putting" => part \in PartsOf(Head(groups[u]))
      BY <1>1, <2>1 DEF Good, InPlace
    <3>2. \A x : Key(u, x)' = Key(u, x)
      BY <1>1 DEF Key
    <3>3. PutNow(u)' = {Key(u, x) : x \in PartsOf(Head(groups[u])) \ waiting'[u]}
      BY <1>1, <3>2 DEF PutNow
    <3> QED BY <1>1, <1>3, <3>1, <3>3 DEF PutNow
  <2>5. InPlace(u)' /\ RowsAreMade(u)' /\ Covered(u)'
    BY <1>1, <1>3, <2>1, <2>2 DEF Good, InPlace, RowsAreMade, Covered
  <2>6. Accounted(u)'
    BY <1>1, <2>1, <2>2, <2>3, <2>4 DEF Good, Accounted
  <2> QED BY <2>5, <2>6 DEF Good
<1> QED BY <1>4, <1>5, <1>6 DEF Inductive

(* Steps after which an upload is rejected, stuck or dead. *)
LEMMA GivesUp ==
  ASSUME NEW u \in Uploads, Good(u), at[u] # "answered",
         at'[u] \in {"rejected", "stuck", "dead"},
         at'[u] = "rejected" => waiting'[u] = {},
         UNCHANGED <<rows, batch, groups, made>>
  PROVE  Good(u)'
BY DEF Good, InPlace, Accounted, RowsAreMade, RowsFor, Covered

LEMMA PutFailsStep ==
  ASSUME Inductive, NEW u \in Uploads, NEW part \in Parts, PutFails(u, part)
  PROVE  Inductive'
<1>1. /\ at[u] \in {"putting", "stuck"}
      /\ at' = [at EXCEPT ![u] = "stuck"]
      /\ waiting' = [waiting EXCEPT ![u] = @ \ {part}]
      /\ UNCHANGED <<bucket, rows, batch, groups, made>>
  BY DEF PutFails, Goto, stores
<1>2. TypeOK'
  BY <1>1 DEF Inductive, TypeOK, States
<1>3. ASSUME NEW v \in Uploads \ {u} PROVE Good(v)'
  <2>1. /\ at'[v] = at[v] /\ batch'[v] = batch[v] /\ groups'[v] = groups[v]
        /\ waiting'[v] = waiting[v] /\ made'[v] = made[v]
    BY <1>1 DEF Inductive, TypeOK
  <2> QED BY <1>1, <2>1, OthersKept DEF Inductive
<1>4. Good(u)'
  <2>1. at'[u] = "stuck"
    BY <1>1 DEF Inductive, TypeOK
  <2> QED BY <1>1, <2>1, GivesUp DEF Inductive
<1> QED BY <1>2, <1>3, <1>4 DEF Inductive

LEMMA SaveFailsStep ==
  ASSUME Inductive, NEW u \in Uploads, SaveFails(u)
  PROVE  Inductive'
<1>1. /\ at[u] = "saving"
      /\ at' = [at EXCEPT ![u] = "rejected"]
      /\ UNCHANGED <<bucket, rows, batch, groups, waiting, made>>
  BY DEF SaveFails, Goto, stores
<1>2. TypeOK'
  BY <1>1 DEF Inductive, TypeOK, States
<1>3. ASSUME NEW v \in Uploads \ {u} PROVE Good(v)'
  <2>1. at'[v] = at[v]
    BY <1>1 DEF Inductive, TypeOK
  <2> QED BY <1>1, <2>1, OthersKept DEF Inductive
<1>4. Good(u)'
  <2>1. at'[u] = "rejected" /\ waiting[u] = {}
    BY <1>1 DEF Inductive, TypeOK, Good, InPlace
  <2> QED BY <1>1, <2>1, GivesUp DEF Inductive
<1> QED BY <1>2, <1>3, <1>4 DEF Inductive

LEMMA RestartStep ==
  ASSUME Inductive, Restart
  PROVE  Inductive'
<1>1. /\ at' = [u \in Uploads |->
                  IF at[u] \in {"next", "putting", "saving", "stuck"}
                  THEN "dead" ELSE at[u]]
      /\ UNCHANGED <<bucket, rows, batch, groups, waiting, made>>
  BY DEF Restart, stores
<1>2. TypeOK'
  BY <1>1 DEF Inductive, TypeOK, States
<1>3. ASSUME NEW u \in Uploads PROVE Good(u)'
  <2>1. CASE at[u] \in {"next", "putting", "saving", "stuck"}
    BY <1>1, <2>1, GivesUp DEF Inductive
  <2>2. CASE at[u] \notin {"next", "putting", "saving", "stuck"}
    <3>1. Sent(u)' = Sent(u) /\ RowsFor(u)' = RowsFor(u)
      BY <1>1 DEF Sent, RowsFor
    <3> QED BY <1>1, <2>2, <3>1, GoodKept DEF Inductive
  <2> QED BY <2>1, <2>2
<1> QED BY <1>2, <1>3 DEF Inductive

LEMMA SaveRowsStep ==
  ASSUME Inductive, NEW u \in Uploads, SaveRows(u)
  PROVE  Inductive'
<1>1. /\ at[u] = "saving"
      /\ rows' = rows \cup made[u]
      /\ at' = [at EXCEPT ![u] = "answered"]
      /\ UNCHANGED <<bucket, batch, groups, waiting, made>>
  BY DEF SaveRows, Goto
<1>2. TypeOK'
  BY <1>1 DEF Inductive, TypeOK, States
<1>3. \A row \in made[u] : row.upload = u
  BY DEF Inductive, Good, RowsAreMade
<1>4. ASSUME NEW v \in Uploads \ {u} PROVE Good(v)'
  <2>1. at'[v] = at[v]
    BY <1>1 DEF Inductive, TypeOK
  <2>2. \A row : row.upload = v => (row \in rows' <=> row \in rows)
    BY <1>1, <1>3
  <2> QED BY <1>1, <2>1, <2>2, OthersKept DEF Inductive
<1>5. Good(u)'
  <2>1. Good(u) /\ at'[u] = "answered"
    BY <1>1 DEF Inductive, TypeOK
  <2>2. RowsFor(u) = {}
    BY <1>1, <2>1 DEF Good, RowsAreMade
  <2>3. RowsFor(u)' = made[u]
    BY <1>1, <1>3, <2>2 DEF RowsFor
  <2>4. Sent(u)' = Sent(u) /\ KeysMade(u)' = KeysMade(u)
    BY <1>1 DEF Sent, KeysMade
  <2> QED BY <1>1, <2>1, <2>3, <2>4 DEF Good, InPlace, Accounted, RowsAreMade, Covered
<1> QED BY <1>2, <1>4, <1>5 DEF Inductive

LEMMA GroupDoneStep ==
  ASSUME Inductive, NEW u \in Uploads, GroupDone(u)
  PROVE  Inductive'
<1> DEFINE g == Head(groups[u])
           row == RowOf(u, g)
<1>1. /\ at[u] = "putting" /\ waiting[u] = {}
      /\ made' = [made EXCEPT ![u] = @ \cup {row}]
      /\ groups' = [groups EXCEPT ![u] = Tail(@)]
      /\ at' = [at EXCEPT ![u] = IF Len(groups[u]) = 1 THEN "saving" ELSE "next"]
      /\ UNCHANGED <<bucket, rows, batch, waiting>>
  BY DEF GroupDone, AllPut, Goto, stores
<1>2. Good(u) /\ TypeOK
  BY DEF Inductive
<1>3. /\ groups[u] \in Seq([file : Files \cup {NoFile}, crop : Files \cup {NoFile}])
      /\ groups[u] # <<>> /\ ValidGroup(g)
  BY <1>1, <1>2 DEF TypeOK, Good, InPlace
<1>4. /\ g \in [file : Files \cup {NoFile}, crop : Files \cup {NoFile}]
      /\ Tail(groups[u]) \in Seq([file : Files \cup {NoFile}, crop : Files \cup {NoFile}])
      /\ Len(Tail(groups[u])) = Len(groups[u]) - 1
      /\ \A i \in 1..Len(Tail(groups[u])) : Tail(groups[u])[i] = groups[u][i + 1]
  BY <1>3, HeadTailProperties
<1>5. g \in Range(groups[u]) /\ Range(groups[u]) = {g} \cup Range(Tail(groups[u]))
  <2> DEFINE n == Len(groups[u])
  <2>1. n \in Nat /\ n >= 1 /\ DOMAIN groups[u] = 1..n /\ groups[u][1] = g
    BY <1>3
  <2>2. DOMAIN Tail(groups[u]) = 1..(n - 1)
    BY <1>4
  <2>3. \A i \in 1..n : i = 1 \/ (i - 1 \in 1..(n - 1) /\ groups[u][i] = Tail(groups[u])[i - 1])
    BY <1>4, <2>1
  <2>4. \A i \in 1..(n - 1) : i + 1 \in 1..n /\ Tail(groups[u])[i] = groups[u][i + 1]
    BY <1>4, <2>1
  <2> HIDE DEF n, g
  <2>5. Range(groups[u]) \subseteq {g} \cup Range(Tail(groups[u]))
    <3> SUFFICES ASSUME NEW i \in 1..n
                 PROVE  groups[u][i] \in {g} \cup Range(Tail(groups[u]))
      BY <2>1 DEF Range
    <3>1. CASE i = 1
      BY <2>1, <3>1
    <3>2. CASE i # 1
      BY <2>2, <2>3, <3>2 DEF Range
    <3> QED BY <3>1, <3>2
  <2>6. g \in Range(groups[u]) /\ Range(Tail(groups[u])) \subseteq Range(groups[u])
    <3>1. 1 \in 1..n
      BY <2>1
    <3> QED BY <2>1, <2>2, <2>4, <3>1 DEF Range
  <2> QED BY <2>5, <2>6
<1> HIDE DEF g
<1>6. g.file \in Files /\ g.file # NoFile /\ g.crop \in Files \cup {NoFile} /\ Belong(g)
  BY <1>2, <1>3, <1>4, <1>5 DEF ValidGroup, Valid, Good, Covered
<1>7. row.upload = u /\ row.file = g.file /\ row.crop = g.crop
      /\ row.keys = {Key(u, part) : part \in PartsOf(g)}
  BY DEF RowOf
<1>8. row \in RowType
  <2>1. PartsOf(g) \subseteq Parts
    BY DEF PartsOf, Parts
  <2>2. {Key(u, part) : part \in PartsOf(g)} \subseteq Uploads \X Nat \X Parts
    BY <1>2, <2>1, KeyType
  <2> QED BY <1>6, <2>2 DEF RowOf, RowType
<1>9. Belong(row) /\ \A name : Holds(g, name) => Holds(row, name)
  BY <1>6, <1>7 DEF Belong, Holds
<1> HIDE DEF row
<1>10. TypeOK'
  BY <1>1, <1>2, <1>4, <1>8 DEF TypeOK, States
<1>11. ASSUME NEW v \in Uploads \ {u} PROVE Good(v)'
  <2>1. at'[v] = at[v] /\ groups'[v] = groups[v] /\ made'[v] = made[v]
    BY <1>1, <1>2 DEF TypeOK
  <2> QED BY <1>1, <2>1, OthersKept DEF Inductive
<1>12. Good(u)'
  <2>1. /\ made'[u] = made[u] \cup {row} /\ groups'[u] = Tail(groups[u])
        /\ at'[u] = IF Len(groups[u]) = 1 THEN "saving" ELSE "next"
    BY <1>1, <1>2 DEF TypeOK
  <2>2. Sent(u)' = Sent(u) /\ RowsFor(u)' = RowsFor(u)
    BY <1>1 DEF Sent, RowsFor
  <2>3. KeysMade(u)' = KeysMade(u) \cup row.keys
    BY <2>1 DEF KeysMade
  <2>4. PutNow(u) = row.keys
    BY <1>1, <1>7 DEF PutNow, g
  <2>5. Accounted(u)'
    BY <1>1, <1>2, <2>1, <2>2, <2>3, <2>4 DEF Good, Accounted
  <2>6. RowsAreMade(u)'
    BY <1>1, <1>2, <1>6, <1>7, <1>9, <2>1, <2>2 DEF Good, RowsAreMade
  <2>7. at'[u] = "next" => groups'[u] # <<>>
    <3>1. at'[u] = "next" => Len(groups[u]) # 1
      BY <2>1
    <3>2. Len(groups[u]) # 1 => Len(Tail(groups[u])) # 0
      BY <1>3, <1>4
    <3>3. Tail(groups[u]) = <<>> => Len(Tail(groups[u])) = 0
      BY EmptySeq, Zenon
    <3> QED BY <2>1, <3>1, <3>2, <3>3
  <2>8. InPlace(u)'
    BY <1>1, <2>1, <2>7 DEF InPlace
  <2>9. at'[u] = "saving" => Range(Tail(groups[u])) = {}
    <3>1. at'[u] = "saving" => Len(Tail(groups[u])) = 0
      BY <1>4, <2>1
    <3>2. DOMAIN Tail(groups[u]) = 1..Len(Tail(groups[u]))
      BY <1>4
    <3>3. 1..0 = {}
      BY SMT
    <3>4. at'[u] = "saving" => DOMAIN Tail(groups[u]) = {}
      BY <3>1, <3>2, <3>3, Zenon
    <3> QED BY <3>4 DEF Range
  <2>10. \A i \in DOMAIN batch[u] :
           \E x \in Range(Tail(groups[u])) \cup made'[u] : Holds(x, batch[u][i].name)
    <3> SUFFICES ASSUME NEW i \in DOMAIN batch[u]
                 PROVE  \E x \in Range(Tail(groups[u])) \cup made'[u] :
                          Holds(x, batch[u][i].name)
      OBVIOUS
    <3>1. PICK x \in Range(groups[u]) \cup made[u] : Holds(x, batch[u][i].name)
      BY <1>1, <1>2 DEF Good, Covered
    <3>2. CASE x = g
      BY <1>9, <2>1, <3>1, <3>2
    <3>3. CASE x # g
      BY <1>5, <2>1, <3>1, <3>3
    <3> QED BY <3>2, <3>3
  <2>11. Covered(u)'
    BY <1>1, <1>2, <1>5, <2>1, <2>9, <2>10 DEF Good, Covered
  <2> QED BY <2>5, <2>6, <2>8, <2>11 DEF Good
<1> QED BY <1>10, <1>11, <1>12 DEF Inductive

LEMMA InductiveStep == Inductive /\ [Next]_vars => Inductive'
<1> SUFFICES ASSUME Inductive, [Next]_vars PROVE Inductive'
  OBVIOUS
<1>1. ASSUME UNCHANGED vars PROVE Inductive'
  <2>1. TypeOK'
    BY <1>1 DEF Inductive, TypeOK, vars
  <2>2. ASSUME NEW u \in Uploads PROVE Good(u)'
    BY <1>1, GoodKept DEF Inductive, vars, Sent, RowsFor
  <2> QED BY <2>1, <2>2 DEF Inductive
<1> QED BY <1>1, BeginStep, NextGroupStep, PutDoneStep, PutFailsStep, GroupDoneStep,
           SaveRowsStep, SaveFailsStep, RestartStep DEF Next, Step

LEMMA AlwaysInductive == Spec => []Inductive
BY InductiveInit, InductiveStep, PTL DEF Spec

-----------------------------------------------------------------------------
(* The promise: every step is one of UploadPromise or leaves it alone      *)

Result == [u \in Uploads |-> Outcome(u)]

LEMMA OutcomeIs ==
  ASSUME NEW u \in Uploads
  PROVE  /\ Outcome(u) = "stored" <=> at[u] = "answered"
         /\ Outcome(u) = "failed" <=> at[u] \in {"rejected", "dead"}
         /\ Outcome(u) = "open" <=> at[u] \notin {"answered", "rejected", "dead"}
BY DEF Outcome

(* One upload goes from one place to another. *)
LEMMA OneOutcome ==
  ASSUME TypeOK, NEW u \in Uploads, NEW where, Goto(u, where)
  PROVE  /\ at'[u] = where
         /\ \A v \in Uploads \ {u} : Outcome(v)' = Outcome(v)
         /\ Result' = [Result EXCEPT ![u] = Outcome(u)']
<1>1. at'[u] = where /\ \A v \in Uploads \ {u} : at'[v] = at[v]
  BY DEF TypeOK, Goto
<1>2. \A v \in Uploads \ {u} : Outcome(v)' = Outcome(v)
  BY <1>1 DEF Outcome
<1> HIDE DEF Outcome
<1>3. Result' = [Result EXCEPT ![u] = Outcome(u)']
  BY <1>2 DEF Result
<1> QED BY <1>1, <1>2, <1>3

LEMMA SameResult ==
  ASSUME TypeOK, NEW u \in Uploads, NEW where, Goto(u, where), Outcome(u)' = Outcome(u)
  PROVE  Result' = Result
BY OneOutcome DEF Result

LEMMA PromiseInit == Init => Promise!Init
BY DEF Init, Promise!Init, Outcome

(* A request arrives; without files it is answered at once, with no rows.  *)
LEMMA BeginMaps ==
  ASSUME Inductive, NEW u \in Uploads, NEW files \in Batches[u], Begin(u, files)
  PROVE  Promise!Ask(u) \/ Promise!Store(u)
<1>1. /\ at[u] = "new" /\ UNCHANGED <<bucket, rows>>
      /\ batch' = [batch EXCEPT ![u] = files]
      /\ Goto(u, IF files = <<>> THEN "answered" ELSE "next")
  BY DEF Begin, stores
<1>2. TypeOK /\ batch[u] = <<>> /\ Sent(u) = {}
  BY <1>1 DEF Inductive, Good, InPlace
<1>3. Outcome(u) = "open" /\ Result[u] = "open"
  BY <1>1 DEF Outcome, Result
<1>4. CASE files = <<>>
  <2>1. at'[u] = "answered" /\ Result' = [Result EXCEPT ![u] = Outcome(u)']
    BY <1>1, <1>2, <1>4, OneOutcome
  <2>2. Result' = [Result EXCEPT ![u] = "stored"]
    BY <2>1 DEF Outcome
  <2>3. batch' = batch
    BY <1>1, <1>2, <1>4 DEF TypeOK
  <2>4. DOMAIN batch[u] = {}
    BY <1>2
  <2>5. Promise!Objects(u) = {} /\ rows' \ rows = {}
    BY <1>1, <1>2 DEF Promise!Objects, Sent
  <2> QED BY <1>1, <1>3, <2>2, <2>3, <2>4, <2>5 DEF Promise!Store, Result
<1>5. CASE files # <<>>
  <2>1. at'[u] = "next"
    BY <1>1, <1>2, <1>5, OneOutcome
  <2>2. Outcome(u)' = Outcome(u)
    BY <1>3, <2>1 DEF Outcome
  <2>3. Result' = Result
    BY <1>1, <1>2, <2>2, SameResult
  <2> QED BY <1>1, <1>2, <1>3, <2>3 DEF Promise!Ask, Result
<1> QED BY <1>4, <1>5

LEMMA PutMaps ==
  ASSUME Inductive, NEW u \in Uploads, NEW part \in Parts, PutDone(u, part)
  PROVE  Promise!Put(u)
<1>1. /\ at[u] \in {"putting", "stuck", "dead"}
      /\ bucket' = bucket \cup {Key(u, part)}
      /\ UNCHANGED <<rows, at, batch>>
  BY DEF PutDone
<1>2. Key(u, part)[1] = u
  BY KeyType DEF Inductive
<1>3. Result[u] # "stored"
  BY <1>1 DEF Result, Outcome
<1>4. Result' = Result
  BY <1>1 DEF Result, Outcome
<1> QED BY <1>1, <1>2, <1>3, <1>4 DEF Promise!Put, Result

(* All the rows of an upload come at once, and complete. *)
LEMMA SaveMaps ==
  ASSUME Inductive, NEW u \in Uploads, SaveRows(u)
  PROVE  Promise!Store(u)
<1>1. /\ at[u] = "saving"
      /\ rows' = rows \cup made[u]
      /\ Goto(u, "answered")
      /\ UNCHANGED <<bucket, batch>>
  BY DEF SaveRows
<1>2. TypeOK /\ Good(u)
  BY DEF Inductive
<1>3. /\ RowsFor(u) = {}
      /\ \A row \in made[u] : row.upload = u /\ row.file # NoFile /\ Belong(row)
      /\ Sent(u) = KeysMade(u)
      /\ \A i \in DOMAIN batch[u] : \E row \in made[u] : Holds(row, batch[u][i].name)
  BY <1>1, <1>2 DEF Good, RowsAreMade, Accounted, Covered
<1>4. rows' \ rows = made[u] /\ rows \subseteq rows'
  BY <1>1, <1>3 DEF RowsFor
<1>5. Result[u] = "open" /\ Result' = [Result EXCEPT ![u] = "stored"]
  <2>1. Result[u] = "open"
    BY <1>1 DEF Result, Outcome
  <2>2. at'[u] = "answered" /\ Result' = [Result EXCEPT ![u] = Outcome(u)']
    BY <1>1, <1>2, OneOutcome
  <2> QED BY <2>1, <2>2 DEF Outcome
<1>6. \A row \in made[u] : row.upload = u /\ Promise!Joined(row)
  BY <1>3 DEF Promise!Joined, Belong
<1>7. \A i \in DOMAIN batch[u] : \E row \in made[u] :
        batch[u][i].name \in Promise!NamesIn(row)
  BY <1>3 DEF Promise!NamesIn, Holds
<1>8. UNION {row.keys : row \in made[u]} = Promise!Objects(u)
  BY <1>3 DEF Promise!Objects, Sent, KeysMade
<1> QED BY <1>1, <1>4, <1>5, <1>6, <1>7, <1>8 DEF Promise!Store, Result

(* Uploads of S that are open go to a place where they have failed. *)
LEMMA FailMaps ==
  ASSUME NEW S \in SUBSET Uploads, \A u \in S : Outcome(u) = "open",
         \A u \in Uploads : Outcome(u)' = IF u \in S THEN "failed" ELSE Outcome(u),
         UNCHANGED <<batch, bucket, rows>>
  PROVE  Promise!Fail(S)
BY DEF Promise!Fail

LEMMA RejectedMaps ==
  ASSUME TypeOK, NEW u \in Uploads, Goto(u, "rejected"), Outcome(u) = "open",
         UNCHANGED <<batch, bucket, rows>>
  PROVE  Promise!Fail({u})
<1>1. at'[u] = "rejected" /\ \A v \in Uploads \ {u} : Outcome(v)' = Outcome(v)
  BY OneOutcome
<1>2. Outcome(u)' = "failed"
  BY <1>1 DEF Outcome
<1> HIDE DEF Outcome
<1> QED BY <1>1, <1>2, FailMaps

LEMMA RestartMaps ==
  ASSUME TypeOK, Restart
  PROVE  \E S \in SUBSET Uploads : Promise!Fail(S)
<1> DEFINE S == {u \in Uploads : at[u] \in {"next", "putting", "saving", "stuck"}}
<1>1. /\ at' = [u \in Uploads |-> IF u \in S THEN "dead" ELSE at[u]]
      /\ UNCHANGED <<batch, bucket, rows>>
  BY DEF Restart, stores
<1>2. \A u \in S : Outcome(u) = "open"
  BY DEF Outcome
<1>3. \A u \in Uploads : Outcome(u)' = IF u \in S THEN "failed" ELSE Outcome(u)
  BY <1>1 DEF Outcome
<1> HIDE DEF S, Outcome
<1>4. S \in SUBSET Uploads
  BY DEF S
<1> QED BY <1>1, <1>2, <1>3, <1>4, FailMaps

LEMMA PromiseStep ==
  Inductive /\ [Next]_vars => [Promise!Next]_(Promise!vars)
<1> SUFFICES ASSUME Inductive, [Next]_vars
             PROVE  Promise!Next \/ UNCHANGED Promise!vars
  OBVIOUS
<1>1. CASE UNCHANGED vars
  BY <1>1 DEF vars, Promise!vars, Outcome
<1>2. ASSUME NEW u \in Uploads, NEW files \in Batches[u], Begin(u, files)
      PROVE  Promise!Next
  BY <1>2, BeginMaps DEF Promise!Next
<1>3. ASSUME NEW u \in Uploads, NEW part \in Parts, PutDone(u, part)
      PROVE  Promise!Next
  BY <1>3, PutMaps DEF Promise!Next
<1>4. ASSUME NEW u \in Uploads, SaveRows(u)
      PROVE  Promise!Next
  BY <1>4, SaveMaps DEF Promise!Next
<1>5. ASSUME NEW u \in Uploads, SaveFails(u)
      PROVE  Promise!Next
  <2>1. TypeOK /\ Outcome(u) = "open" /\ Goto(u, "rejected")
        /\ UNCHANGED <<batch, bucket, rows>>
    BY <1>5 DEF Inductive, SaveFails, Outcome, stores
  <2>2. Promise!Fail({u})
    BY <2>1, RejectedMaps
  <2> QED BY <2>2 DEF Promise!Next
<1>6. ASSUME NEW u \in Uploads, NextGroup(u)
      PROVE  Promise!Next \/ UNCHANGED Promise!vars
  <2>1. TypeOK /\ at[u] = "next" /\ Outcome(u) = "open"
        /\ UNCHANGED <<batch, bucket, rows>>
    BY <1>6 DEF Inductive, NextGroup, Outcome, stores
  <2>2. CASE Goto(u, "rejected")
    <3>1. Promise!Fail({u})
      BY <2>1, <2>2, RejectedMaps
    <3> QED BY <3>1 DEF Promise!Next
  <2>3. CASE Goto(u, "putting")
    <3>1. at'[u] = "putting"
      BY <2>1, <2>3, OneOutcome
    <3>2. Outcome(u)' = Outcome(u)
      BY <2>1, <3>1 DEF Outcome
    <3>3. Result' = Result
      BY <2>1, <2>3, <3>2, SameResult
    <3> QED BY <2>1, <3>3 DEF Promise!vars, Result
  <2> QED BY <1>6, <2>2, <2>3 DEF NextGroup
<1>7. ASSUME NEW u \in Uploads, GroupDone(u) \/ \E part \in Parts : PutFails(u, part)
      PROVE  UNCHANGED Promise!vars
  <2>1. TypeOK /\ Outcome(u) = "open" /\ UNCHANGED <<batch, bucket, rows>>
    BY <1>7 DEF Inductive, GroupDone, PutFails, Outcome, stores
  <2>2. PICK where \in {"saving", "next", "stuck"} : Goto(u, where)
    BY <1>7 DEF GroupDone, PutFails
  <2>3. at'[u] = where
    BY <2>1, <2>2, OneOutcome
  <2>4. Outcome(u)' = Outcome(u)
    BY <2>1, <2>3 DEF Outcome
  <2>5. Result' = Result
    BY <2>1, <2>2, <2>4, SameResult
  <2> QED BY <2>1, <2>5 DEF Promise!vars, Result
<1>8. CASE Restart
  BY <1>8, RestartMaps DEF Inductive, Promise!Next
<1> QED BY <1>1, <1>2, <1>3, <1>4, <1>5, <1>6, <1>7, <1>8 DEF Next, Step

-----------------------------------------------------------------------------
(* The theorems *)

(* Every variable keeps its type: what is in the bucket, in the tables and *)
(* under way for each upload, for any batches of files.                    *)
THEOREM TypeCorrect == Spec => []TypeOK
BY AlwaysInductive, PTL DEF Inductive

(* For any number of uploads of any files, in whatever order S3 stores     *)
(* their parts and whichever uploads fail or die with the process: a row   *)
(* in the tables has its objects in the bucket, and an answered upload has *)
(* no other objects there.                                                 *)
THEOREM StoresAlwaysAgree == Spec => []StoresAgree
<1>1. Inductive => StoresAgree
  <2> SUFFICES ASSUME Inductive PROVE StoresAgree
    OBVIOUS
  <2>1. ASSUME NEW u \in Uploads, at[u] = "answered"
        PROVE  /\ Sent(u) = KeysMade(u) /\ RowsFor(u) = made[u]
    BY <2>1 DEF Inductive, Good, Accounted, RowsAreMade
  <2>2. ASSUME NEW row \in rows PROVE row.keys \subseteq bucket
    <3>1. row.upload \in Uploads /\ row \in RowsFor(row.upload)
      BY DEF Inductive, TypeOK, RowType, RowsFor
    <3>2. at[row.upload] = "answered" /\ row \in made[row.upload]
      BY <3>1 DEF Inductive, Good, RowsAreMade
    <3>3. row.keys \subseteq Sent(row.upload)
      BY <2>1, <3>1, <3>2 DEF KeysMade
    <3> QED BY <3>3 DEF Sent
  <2> QED BY <2>1, <2>2 DEF StoresAgree, Sent, KeysMade, RowsFor
<1> QED BY <1>1, AlwaysInductive, PTL

(* Whatever files a request carries, in whatever order, a row in the       *)
(* tables joins a file that is no crop with the crop of its own name, or   *)
(* with none.                                                              *)
THEOREM CropsAlwaysBelong == Spec => []CropsBelong
<1>1. Inductive => CropsBelong
  <2> SUFFICES ASSUME Inductive, NEW row \in rows
               PROVE  /\ row.file.name.crop = "no"
                      /\ row.crop # NoFile =>
                           row.crop.name = [row.file.name EXCEPT !.crop = "-crop"]
    BY DEF CropsBelong
  <2>1. row.upload \in Uploads /\ row \in RowsFor(row.upload)
    BY DEF Inductive, TypeOK, RowType, RowsFor
  <2>2. row \in made[row.upload]
    BY <2>1 DEF Inductive, Good, RowsAreMade
  <2> QED BY <2>1, <2>2 DEF Inductive, Good, RowsAreMade, Belong
<1> QED BY <1>1, AlwaysInductive, PTL

(* When a request is answered, each name it carried is in the tables: the  *)
(* grouping of filesGrouping loses none, however many files there are.     *)
THEOREM EveryNameStored == Spec => []EveryNameIsStored
<1>1. Inductive => EveryNameIsStored
  <2> SUFFICES ASSUME Inductive, NEW u \in Uploads, at[u] = "answered",
                      NEW i \in DOMAIN batch[u]
               PROVE  \E row \in rows :
                        /\ row.upload = u
                        /\ batch[u][i].name \in
                             {row.file.name} \cup
                             (IF row.crop = NoFile THEN {} ELSE {row.crop.name})
    BY DEF EveryNameIsStored
  <2>1. PICK row \in made[u] : Holds(row, batch[u][i].name)
    BY DEF Inductive, Good, Covered
  <2>2. row \in rows /\ row.upload = u
    BY <2>1 DEF Inductive, Good, RowsAreMade, RowsFor
  <2> QED BY <2>1, <2>2 DEF Holds
<1> QED BY <1>1, AlwaysInductive, PTL

(* For whoever looks at the bucket and the tables only, an upload is one   *)
(* step: all its rows with all their objects, or nothing in the tables for *)
(* ever, in whatever order its parts are put and wherever it stops.        *)
THEOREM UploadsKeepPromise == Spec => KeepsPromise
BY AlwaysInductive, PromiseInit, PromiseStep, PTL
   DEF Spec, KeepsPromise, Promise!Spec
=============================================================================
