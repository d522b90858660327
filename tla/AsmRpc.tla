------------------------------- MODULE AsmRpc --------------------------------
(***************************************************************************)
(* The always-on RPC handlers of the runner, which read the worker's       *)
(* stores and status while the worker writes them.  A handler first asks   *)
(* bitcoind for the height of the named block, without retrying, and then  *)
(* makes one read; a block's height never changes, so what it serves is    *)
(* what the store holds at that read.                                      *)
(***************************************************************************)
EXTENDS AsmWorker

\* to_block_commitment: bitcoind keeps the blocks of abandoned branches too, so
\* any block of the tree may be asked for.
Queryable == Block

\* AnchorState of the block, or None.
get_anchor_state(b) == anchors[b]

\* AsmManifest of the block, or None: no handler asks whether it is committed.
get_manifest(b) == manifests[b]

\* AsmWorkerStatus: the worker's current block, which the service publishes after
\* each input it has processed.
get_status == blkid
-----------------------------------------------------------------------------
\* Whatever the moment of a call, the RPC serves the manifest and the state the
\* block's own ancestry determines: also for a block whose commit a kill cut
\* off, or whose branch L1 abandoned.  A block served with a state is served
\* with its manifest, and the block of the status is served with both
\* (get_anchor_state, get_manifest and get_status, each a separate read).
ServedCanonically ==
  /\ \A b \in Queryable :
       /\ get_anchor_state(b) \in {None, CanonState[b]}
       /\ get_manifest(b) # None => Above(b) /\ get_manifest(b) = CanonManifest(b)
       /\ get_anchor_state(b) # None /\ Above(b) => get_manifest(b) # None
  /\ Running => get_anchor_state(get_status) # None
==============================================================================
