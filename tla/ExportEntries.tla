---------------------------- MODULE ExportEntries ----------------------------
(***************************************************************************)
(* The export-entry store of the Moho database: per container an MMR of    *)
(* leaves with a reverse index by hash and an index of the first leaf each *)
(* height contributed.  One action per sled write, so that a user of the   *)
(* store can be killed between any two of them.                            *)
(*                                                                         *)
(* MMR nodes are written as one batch: an MMR is the sequence of its       *)
(* leaves.  Leaf i of the store is element i + 1 of the sequence.          *)
(***************************************************************************)
EXTENDS L1Chain, Sequences

CONSTANTS
  Container,    \* container ids, a set of numbers
  Leaf          \* exported hashes

VARIABLES
  leaves,       \* export_entry_nodes: [Container -> Seq(Leaf)]
  hashIdx,      \* export_entries_by_hash: [Container -> [Leaf -> index or None]]
  heightIdx     \* export_entries_by_height: [Container -> [Heights -> index or None]]

entryVars == <<leaves, hashIdx, heightIdx>>

EntriesTypeInv ==
  /\ leaves \in [Container -> Seq(Leaf)]
  /\ hashIdx \in [Container -> [Leaf -> Nat \cup {None}]]
  /\ heightIdx \in [Container -> [Heights -> Nat \cup {None}]]

EntriesInit ==
  /\ leaves = [c \in Container |-> <<>>]
  /\ hashIdx = [c \in Container |-> [l \in Leaf |-> None]]
  /\ heightIdx = [c \in Container |-> [h \in Heights |-> None]]

MinOf(S) == CHOOSE x \in S : \A y \in S : x <= y
MaxOf(S) == CHOOSE x \in S : \A y \in S : x >= y

-----------------------------------------------------------------------------
(* append: the height row, then for every entry its leaf and its hash row. *)

OpenRun(c, h) ==
  /\ heightIdx' = [heightIdx EXCEPT ![c][h] = Len(leaves[c])]
  /\ UNCHANGED <<leaves, hashIdx>>

AppendLeaf(c, l) ==
  /\ leaves' = [leaves EXCEPT ![c] = Append(@, l)]
  /\ UNCHANGED <<hashIdx, heightIdx>>

\* Mutant: one below the leaf just appended.
IndexLeafShort(c, l) ==
  /\ hashIdx' = [hashIdx EXCEPT ![c][l] = Len(leaves[c]) - 2]
  /\ UNCHANGED <<leaves, heightIdx>>

IndexLeaf(c, l) ==
  /\ hashIdx' = [hashIdx EXCEPT ![c][l] = Len(leaves[c]) - 1]
  /\ UNCHANGED <<leaves, heightIdx>>

-----------------------------------------------------------------------------
(* prune_from: containers in ascending order, for each one the leaves, the *)
(* hash rows and last the height rows, highest first.                      *)

RowsFrom(c, h) == {g \in Heights : g >= h /\ heightIdx[c][g] # None}

\* Containers with something to drop.  Containers already pruned have no rows
\* left, so the least one is where the loop of prune_from stands.
Unpruned(h) == {c \in Container : RowsFrom(c, h) # {}}

Pruning(h) == MinOf(Unpruned(h))

\* Mutant: only a run recorded at exactly this height is dropped.
FirstDroppedExact(c, h) ==
  IF heightIdx[c][h] # None THEN heightIdx[c][h] ELSE Len(leaves[c])

\* Start of the earliest run at or above h.
FirstDropped(c, h) == heightIdx[c][MinOf(RowsFrom(c, h))]

\* StoredMmr::prune_after of a smaller MMR drops nothing.
DropLeaves(c, h) ==
  /\ leaves' = [leaves EXCEPT ![c] =
                  SubSeq(@, 1, IF FirstDropped(c, h) < Len(@) THEN FirstDropped(c, h) ELSE Len(@))]
  /\ UNCHANGED <<hashIdx, heightIdx>>

StaleHashes(c, h) == {l \in Leaf : hashIdx[c][l] # None /\ hashIdx[c][l] >= FirstDropped(c, h)}

\* Rows go one by one in the order of the hashes, which is left open.
DropHashRow(c, l) ==
  /\ hashIdx' = [hashIdx EXCEPT ![c][l] = None]
  /\ UNCHANGED <<leaves, heightIdx>>

DropHeightRow(c, h) ==
  /\ heightIdx' = [heightIdx EXCEPT ![c][MaxOf(RowsFrom(c, h))] = None]
  /\ UNCHANGED <<leaves, hashIdx>>

-----------------------------------------------------------------------------
\* entry_height: rows are scanned by ascending height up to the first one that
\* starts after leaf i; the last row passed is the leaf's.
EntryHeight(c, i) ==
  LET rows == RowsFrom(c, 0)
      passed == {h \in rows : \A g \in rows : g <= h => heightIdx[c][g] <= i}
  IN IF i < Len(leaves[c]) /\ passed # {} THEN MaxOf(passed) ELSE None

\* leaf_range_at_height: from the height's row to the next row or the count.
LeafRange(c, h) ==
  LET later == RowsFrom(c, h + 1)
      end == IF later = {} THEN Len(leaves[c]) ELSE heightIdx[c][MinOf(later)]
  IN IF heightIdx[c][h] = None THEN {} ELSE heightIdx[c][h]..(end - 1)
==============================================================================
