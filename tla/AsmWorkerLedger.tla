-------------------------- MODULE AsmWorkerLedger ----------------------------
(***************************************************************************)
(* AsmWorker as an implementation of AsmLedger: the committed states are   *)
(* the stored anchors, and the process is up unless it is down.            *)
(***************************************************************************)
EXTENDS AsmWorker

\* The worker implements AsmLedger: while the process is up a stored anchor is
\* never changed or dropped, and a block is committed exactly once, on top of
\* its committed parent (sync_to_block's base search and forward order).
Ledger == INSTANCE AsmLedger
            WITH committed <- anchors, up <- pc # "down", DropHeights <- PruneHeights

RefinesLedger == Ledger!Spec
==============================================================================
