---------------------------- MODULE ExportProofs -----------------------------
(***************************************************************************)
(* Inclusion proofs of export entries, as the RPC server builds them while *)
(* the Moho worker runs: the Moho state of the queried block fixes the     *)
(* size of the container's MMR, the entry store supplies the position of   *)
(* the leaf and its siblings.                                              *)
(*                                                                         *)
(* An MMR of n leaves is a row of perfect trees, one per binary digit of   *)
(* n, the largest first.  Hashes are injective: the root of a tree is the  *)
(* sequence of its leaves, and the sibling path of a leaf with the leaf    *)
(* itself recomputes that sequence.                                        *)
(***************************************************************************)
EXTENDS MohoWorker

\* Numbers of leaves of the perfect trees in an MMR of n leaves.
TreeSizes(n) == {s \in 1..n : \E k \in 0..n : s = 2^k}

\* Leaf indices under the peak that holds leaf i of an MMR of n leaves: the peak
\* is the largest perfect tree over leaf i that is complete.
PeakOf(i, n) ==
  LET size == MaxOf({s \in TreeSizes(n) : (i \div s) * s + s <= n})
      start == (i \div size) * size
  IN start..(start + size - 1)

\* The peak's root in an MMR whose leaves are s.
RootOf(s, i, n) == [j \in PeakOf(i, n) |-> s[j + 1]]

get_moho_state(b) == moho[b]

find_index(c, l) == hashIdx[c][l]

num_entries(c) == Len(leaves[c])

\* Mutant: the proof is made at the size the store has now.
generate_proof_now(c, i, at_leaf_count) ==
  [index |-> i, siblings |-> [j \in PeakOf(i, num_entries(c)) |-> leaves[c][j + 1]]]

\* generate_proof_at_size; the caller has checked that the store is large enough.
generate_proof(c, i, at_leaf_count) ==
  [index |-> i, siblings |-> RootOf(leaves[c], i, at_leaf_count)]

\* CompactMmr::verify: the path, ended by the leaf, recomputes the peak.
verify_entry(s, proof, l) ==
  [proof.siblings EXCEPT ![proof.index] = l] = RootOf(s, proof.index, Len(s))

ExportProofError ==
  {"NoStateAtBlock", "NoSuchContainer", "NoSuchLeaf", "LeafAfterBlock", "ProofDoesNotVerify",
   "ExportEntries"}

\* A state has the containers that a log created.
HasContainer(state, c) == state.export[c].leaves # <<>> \/ state.export[c].extra # None

\* The outcome for leaf l of container c as of block b.
build_export_entry_mmr_proof(b, c, l) ==
  IF get_moho_state(b) = None THEN "NoStateAtBlock"
  ELSE IF ~HasContainer(get_moho_state(b), c) THEN "NoSuchContainer"
  ELSE LET entries == get_moho_state(b).export[c].leaves
           at_leaf_count == Len(entries)
           mmr_index == find_index(c, l)
       IN IF mmr_index = None THEN "NoSuchLeaf"
          ELSE IF mmr_index >= at_leaf_count THEN "LeafAfterBlock"
          ELSE IF at_leaf_count > num_entries(c) THEN "ExportEntries"
          ELSE IF ~verify_entry(entries, generate_proof(c, mmr_index, at_leaf_count), l)
               THEN "ProofDoesNotVerify"
               ELSE "Proof"

\* The RPC handler: bitcoind gives the height of the named block, the rest is the
\* proof built from the stores.
get_export_entry_mmr_proof(b, c, l) == build_export_entry_mmr_proof(b, c, l)

-----------------------------------------------------------------------------
\* The ASM committed one chain only, and the operator dropped no part of it.
OneChain ==
  /\ asmPrunes = 0
  /\ \A b, c \in Block : anchors[b] # None /\ anchors[c] # None => OnChainOf(b, c) \/ OnChainOf(c, b)

\* No committed block's container c holds leaf l twice.
ExportedOnce(c, l) ==
  \A b \in Block : anchors[b] # None =>
    \A i, j \in 1..Len(Exported(b, c)) : Exported(b, c)[i] = l /\ Exported(b, c)[j] = l => i = j

\* On one chain a proof of every entry exported up to a folded block is served
\* as of that block at every moment: while the worker prunes and appends for a
\* later block, after it was killed between two of those writes, during the
\* catch-up at startup, and after the operator dropped Moho states.  The entry
\* is found at the position the block gave it each time, so the handler's three
\* reads may fall on either side of any write (get_export_entry_mmr_proof).  An
\* entry that is exported again moves to its later position and is away while
\* that one is pruned: then the answer may be that it is not there or is later
\* than the block, but never a proof that does not verify.
ExportProofsServed ==
  OneChain =>
    \A b \in Block, c \in Container : Folded(b) =>
      \A i \in 0..(Len(Exported(b, c)) - 1) :
        LET l == Exported(b, c)[i + 1]
        IN /\ get_export_entry_mmr_proof(b, c, l) \in {"Proof", "NoSuchLeaf", "LeafAfterBlock"}
           /\ ExportedOnce(c, l) =>
                get_export_entry_mmr_proof(b, c, l) = "Proof" /\ find_index(c, l) = i
==============================================================================
