----------------------------- MODULE MCFileStore -----------------------------
(* TLC instances of FileStore.  The unit of sizes is half a megabyte. *)
EXTENDS FileStore

CONSTANTS p1, p2

LimitOf == [IMAGE |-> 2]

File(base, crop, format, size) ==
  [name |-> [base |-> base, crop |-> crop], format |-> format, size |-> size]

(* Two pictures, one of them a bit larger than the limit, with their crops, *)
(* another with the first one's name, a picture called "...crop..." of its  *)
(* own, one that is too large, and a text.                                  *)
Some == {File("a", "no", "IMAGE", 4), File("a", "-crop", "IMAGE", 1),
         File("b", "no", "IMAGE", 5), File("b", "-crop", "IMAGE", 2),
         File("a", "no", "IMAGE", 2), File("c", "other", "IMAGE", 2),
         File("d", "no", "IMAGE", 6), File("e", "no", "TEXT", 2)}

Distinct(S, n) == {s \in [1..n -> S] : \A i, j \in 1..n : i # j => s[i] # s[j]}

(* Every request of at most three different files of Some. *)
Mixed == {<<>>} \cup UNION {Distinct(Some, n) : n \in 1..3}

(* Requests of one picture, of one with its crop, of two, and of a bad one *)
(* after a good one.                                                       *)
Typical ==
  LET a == File("a", "no", "IMAGE", 4)
      crop == File("a", "-crop", "IMAGE", 1)
      b == File("b", "no", "IMAGE", 5)
      d == File("d", "no", "IMAGE", 6)
  IN  {<<a>>, <<a, crop>>, <<a, b>>, <<b, crop, a>>, <<a, d>>}

(* One request of any kind beside one of the typical ones. *)
MixedAndTypical == [u \in Uploads |-> IF u = p1 THEN Mixed ELSE Typical]
=============================================================================
