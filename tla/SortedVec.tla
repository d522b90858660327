------------------------------ MODULE SortedVec ------------------------------
(***************************************************************************)
(* The sorted vectors and flat tables that the bridge keeps its tables in. *)
(*                                                                         *)
(* An element is a pair of its key, which its order goes by, and the rest  *)
(* of the entry.  A binary search that meets several equal keys may return *)
(* any of them, so an operation is the set of the vectors it may leave.    *)
(***************************************************************************)
EXTENDS Lists

get_key(e) == e[1]
KeysOf(v) == {get_key(v[i]) : i \in DOMAIN v}

is_sorted(v) == \A i \in 1 .. (Len(v) - 1) : get_key(v[i]) <= get_key(v[i + 1])
check_duplicate_keys(v) == \E i \in 1 .. (Len(v) - 1) : get_key(v[i]) = get_key(v[i + 1])

\* TryFrom<Vec<T>>, and check_table_vec: what a decoded vector must be.
try_from(v) == is_sorted(v)
check_table_vec(v) ==
    IF ~is_sorted(v) THEN "Unsorted" ELSE IF check_duplicate_keys(v) THEN "Duplicates" ELSE "Safe"

\* binary_search: Ok of a position with the key, or Err of the one it belongs at.
Found(v, k) == {i \in DOMAIN v : get_key(v[i]) = k}
Missing(v, k) ==
    {i \in 1 .. (Len(v) + 1) : /\ \A j \in 1 .. (i - 1) : get_key(v[j]) < k
                               /\ \A j \in i .. Len(v) : get_key(v[j]) > k}

contains(v, k) == Found(v, k) # {}

\* SortedVec: an equal element is kept beside the new one; one match is removed.
insert(v, e) == {InsertAt(v, i, e) : i \in IF contains(v, get_key(e)) THEN Found(v, get_key(e))
                                            ELSE Missing(v, get_key(e))}
remove(v, k) == IF contains(v, k) THEN {RemoveAt(v, i) : i \in Found(v, k)} ELSE {v}

\* FlatTable: an entry with the same key is replaced.
table_insert(v, e) == IF contains(v, get_key(e))
                      THEN {[v EXCEPT ![i] = e] : i \in Found(v, get_key(e))}
                      ELSE {InsertAt(v, i, e) : i \in Missing(v, get_key(e))}

-----------------------------------------------------------------------------
(* merge: the step taken with i elements of v and j elements of w behind.  *)

\* SortedVec: of equal elements those of v come first.
merge(v, w) ==
    LET from[i \in 0 .. Len(v), j \in 0 .. Len(w)] ==
          IF i = Len(v) \/ j = Len(w)
          THEN SubSeq(v, i + 1, Len(v)) \o SubSeq(w, j + 1, Len(w))
          ELSE IF get_key(v[i + 1]) > get_key(w[j + 1])
          THEN <<w[j + 1]>> \o from[i, j + 1]
          ELSE <<v[i + 1]>> \o from[i + 1, j]
    IN from[0, 0]

\* FlatTable: of equal entries that of w is kept.
table_merge(v, w) ==
    LET from[i \in 0 .. Len(v), j \in 0 .. Len(w)] ==
          IF i = Len(v) \/ j = Len(w)
          THEN SubSeq(v, i + 1, Len(v)) \o SubSeq(w, j + 1, Len(w))
          ELSE IF get_key(v[i + 1]) < get_key(w[j + 1])
          THEN <<v[i + 1]>> \o from[i + 1, j]
          ELSE IF get_key(v[i + 1]) > get_key(w[j + 1])
          THEN <<w[j + 1]>> \o from[i, j + 1]
          ELSE <<w[j + 1]>> \o from[i + 1, j + 1]
    IN from[0, 0]

-----------------------------------------------------------------------------
\* The function a vector without duplicates stands for.
TableOf(v) == [k \in KeysOf(v) |-> v[CHOOSE i \in DOMAIN v : get_key(v[i]) = k][2]]

-----------------------------------------------------------------------------
(* The encoded tables: the entries in order, which decoding checks.        *)
DepositsTableSsz(v) == [deposits |-> v]
DepositsTableDecodes(ssz) == try_from(ssz.deposits)

AssignmentTableSsz(v, duration) == [assignments |-> v, assignment_duration |-> duration]
AssignmentTableDecodes(ssz) == try_from(ssz.assignments)

OperatorTableSsz(next_idx, v, agg_key, history) ==
    [next_idx |-> next_idx, operators |-> v, agg_key |-> agg_key, historical_nn_scripts |-> history]
OperatorTableDecodes(ssz) == try_from(ssz.operators)
==============================================================================
