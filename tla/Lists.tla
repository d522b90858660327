-------------------------------- MODULE Lists --------------------------------
(***************************************************************************)
(* Lists: what Rust's vectors and iterators do with them.  A selection is  *)
(* given by the set it keeps, and a sum by a list of numbers: the theorems *)
(* (TableProofs) then quantify over sets and functions only, which the     *)
(* provers can instantiate, unlike the operator that SelectSeq and the     *)
(* folds take.  SequencesExt, which has Last, InsertAt and RemoveAt, is    *)
(* left out because its bags slow every proof step down.                   *)
(***************************************************************************)
EXTENDS Integers, Sequences, Functions

\* A decoded list: elements at the positions from one on.
IsList(s) == s \in Seq(Range(s))

\* slice::last, of a list that has one; Vec::insert and Vec::remove, at a position.
Last(s) == s[Len(s)]
InsertAt(s, i, e) == SubSeq(s, 1, i - 1) \o <<e>> \o SubSeq(s, i, Len(s))
RemoveAt(s, i) == SubSeq(s, 1, i - 1) \o SubSeq(s, i + 1, Len(s))

\* Vec::retain, Iterator::filter: the elements that belong to T, in their order.
Keep(s, T) ==
    LET kept[n \in 0 .. Len(s)] ==
          IF n = 0 THEN <<>>
          ELSE IF s[n] \in T THEN Append(kept[n - 1], s[n])
          ELSE kept[n - 1]
    IN  kept[Len(s)]

\* Iterator::sum.
Total(numbers) ==
    LET upto[n \in 0 .. Len(numbers)] == IF n = 0 THEN 0 ELSE upto[n - 1] + numbers[n]
    IN  upto[Len(numbers)]
==============================================================================
