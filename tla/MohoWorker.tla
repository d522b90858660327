----------------------------- MODULE MohoWorker ------------------------------
(***************************************************************************)
(* The Moho worker over the promise of the ASM worker (AsmLedger).         *)
(*                                                                         *)
(* At startup the worker seeds the genesis Moho state, resumes from the    *)
(* latest stored one and folds what the ASM committed beyond it; only then *)
(* is the block watcher started and do commits arrive.  Every commit is    *)
(* folded onto its parent's Moho state: export entries above the height    *)
(* are pruned, the block's own are appended, the Moho state is stored and  *)
(* the prover is told.  The ASM worker commits on its own thread meanwhile *)
(* and the process can be killed between any two writes.                   *)
(*                                                                         *)
(* A Moho state is a function of the ancestry; hashes are injective, so    *)
(* the inner commitment is the anchor state and a compact MMR its leaves.  *)
(* An anchored block has its canonical manifest (CommitComplete), so its   *)
(* logs are constants of the block.                                        *)
(***************************************************************************)
EXTENDS ExportEntries

CONSTANTS
  Exports,      \* [Block -> [Container -> Seq(Leaf)]]: NewExportEntry logs
  Extra,        \* [Block -> [Container -> ExtraData \cup {None}]]: extra-data logs
  ExtraData,    \* values of a container's extra data
  CanonMoho,    \* [Block -> MohoState]: Moho state after the block
  BlockId,      \* [Block -> Nat]: order of the block ids
  DropHeights,  \* heights the operator may prune anchor states at
  MohoHeights,  \* heights the operator may prune Moho states at
  MaxCrashes,   \* bound: kills of the process
  MaxFaults,    \* bound: header requests that fail after all retries
  MaxPrunes     \* bound: offline prunes of each store

VARIABLES
  anchors, up,  \* the ASM worker: AsmLedger's committed and up
  queue,        \* commits emitted to the worker's subscription, oldest first
  moho,         \* moho_states: [Block -> MohoState \cup {None}]
  pc,           \* what the worker does next
  live,         \* startup is over and the block watcher runs
  curBlock, curMoho,
  cursor,       \* block the backward walk is at
  pending,      \* blocks to fold, newest first
  next,         \* Moho state computed for the block being folded
  todo,         \* containers whose entries are still to be appended
  notified,     \* blocks emitted to the prover in this life of the process
  crashes, faults, asmPrunes, mohoPrunes

asmVars == <<anchors, up, queue>>
curVars == <<curBlock, curMoho>>
planVars == <<cursor, pending>>
boundVars == <<crashes, faults, asmPrunes, mohoPrunes>>
vars == <<asmVars, moho, entryVars, pc, live, curVars, planVars, next, todo, notified, boundVars>>

Asm == INSTANCE AsmLedger WITH committed <- anchors

-----------------------------------------------------------------------------
ExportState == [Container -> [leaves : Seq(Leaf), extra : ExtraData \cup {None}]]

MohoState == [inner : AnchorState, pred : Pred, export : ExportState]

Stage == {"down", "seed", "plan", "fold", "prune", "prune_hash", "prune_height",
          "open_run", "append", "index", "store", "idle", "failed"}

\* construct_genesis_moho_state
GenesisMoho ==
  [inner |-> GenesisState, pred |-> PredOf[GenesisSpec],
   export |-> [c \in Container |-> [leaves |-> <<>>, extra |-> None]]]

\* advance_export_state_with_logs
AdvanceExport(prev, b) ==
  [c \in Container |->
     [leaves |-> prev[c].leaves \o Exports[b][c],
      extra |-> IF Extra[b][c] # None THEN Extra[b][c] ELSE prev[c].extra]]

\* construct_next_moho_state
NextMoho(prev, st) ==
  [inner |-> st,
   pred |-> IF Upgrade[st.block] # None THEN Upgrade[st.block] ELSE prev.pred,
   export |-> AdvanceExport(prev.export, st.block)]

\* CanonMoho is the fold of the logs along the ancestry.
ASSUME ExportAssumption ==
  /\ Container \subseteq Nat
  /\ None \notin Nat \cup Leaf \cup ExtraData
  /\ Exports \in [Block -> [Container -> Seq(Leaf)]]
  /\ Extra \in [Block -> [Container -> ExtraData \cup {None}]]
  /\ BlockId \in [Block -> Nat]
  /\ \A b, c \in Block : BlockId[b] = BlockId[c] => b = c
  /\ CanonMoho \in [Block -> MohoState]
  /\ None \notin MohoState
  /\ CanonMoho[Genesis] = GenesisMoho
  /\ \A b \in Block : Above(b) => CanonMoho[b] = NextMoho(CanonMoho[Parent[b]], CanonState[b])

\* b is the last key of a store: keys order by height, then by block id.
IsLast(store, b) ==
  /\ store[b] # None
  /\ \A c \in Block : store[c] # None =>
       Height[c] < Height[b] \/ (Height[c] = Height[b] /\ BlockId[c] <= BlockId[b])

Folded(b) == moho[b] # None

\* The block being folded: the oldest pending one.
Current == pending[Len(pending)]

CurrentHeight == Height[Current]

-----------------------------------------------------------------------------
Init ==
  /\ Asm!Init
  /\ queue = <<>>
  /\ moho = [b \in Block |-> None]
  /\ EntriesInit
  /\ pc = "down" /\ live = FALSE
  /\ curBlock = None /\ curMoho = None
  /\ cursor = None /\ pending = <<>> /\ next = None /\ todo = {}
  /\ notified = <<>>
  /\ crashes = 0 /\ faults = 0 /\ asmPrunes = 0 /\ mohoPrunes = 0

-----------------------------------------------------------------------------
(* The ASM worker.                                                         *)

\* AsmWorkerBuilder::launch returns with the genesis anchor stored.
LaunchAsm ==
  /\ pc = "down"
  /\ IF Asm!Committed(Genesis) THEN Asm!Start ELSE Asm!StoreGenesis
  /\ pc' = "seed"
  /\ UNCHANGED <<queue, moho, entryVars, live, curVars, planVars, next, todo, notified, boundVars>>

\* Commits flow once the watcher runs; they are queued for the subscriber, or
\* dropped after it has failed.
AsmCommit(b) ==
  /\ live
  /\ Asm!Commit(b)
  /\ queue' = IF pc = "failed" THEN queue ELSE Append(queue, b)
  /\ UNCHANGED <<moho, entryVars, pc, live, curVars, planVars, next, todo, notified, boundVars>>

-----------------------------------------------------------------------------
(* Startup: MohoWorkerServiceState::new, then sync_to_tip.                 *)

Seeded == [moho EXCEPT ![Genesis] = GenesisMoho]

\* get_latest_moho_state of the given store, and the ASM tip to catch up to.
Resume(store) ==
  \E b, t \in Block :
    /\ IsLast(store, b)
    /\ IsLast(anchors, t)
    /\ moho' = store
    /\ curBlock' = b
    /\ curMoho' = store[b]
    /\ cursor' = t

\* Mutant: the genesis state is written to an empty store only.
SeedEmptyStore ==
  /\ pc = "seed"
  /\ Resume(IF \E b \in Block : Folded(b) THEN moho ELSE Seeded)
  /\ pc' = "plan"
  /\ UNCHANGED <<asmVars, entryVars, live, pending, next, todo, notified, boundVars>>

\* Mutant: resumes without catching up to the ASM's tip.
SeedWithoutSync ==
  /\ pc = "seed"
  /\ Resume(Seeded)
  /\ pc' = "idle" /\ live' = TRUE
  /\ UNCHANGED <<asmVars, entryVars, pending, next, todo, notified, boundVars>>

\* The genesis Moho state is checked or written, the latest one resumed from.
Seed ==
  /\ pc = "seed"
  /\ IF moho[Genesis] \in {None, GenesisMoho} /\ Asm!Committed(Genesis)
     THEN Resume(Seeded) /\ pc' = "plan"
     ELSE pc' = "failed" /\ UNCHANGED <<moho, curVars, cursor>>
  /\ UNCHANGED <<asmVars, entryVars, live, pending, next, todo, notified, boundVars>>

\* The walk back to the first folded block; the watcher starts when there is
\* nothing to fold.
Plan ==
  /\ pc = "plan"
  /\ IF cursor = curBlock \/ Folded(cursor)
     THEN /\ pc' = IF pending = <<>> THEN "idle" ELSE "fold"
          /\ live' = (pending = <<>>)
          /\ cursor' = None
          /\ UNCHANGED pending
     ELSE IF Above(cursor)
          THEN /\ pending' = Append(pending, cursor)
               /\ cursor' = Parent[cursor]
               /\ UNCHANGED <<pc, live>>
          ELSE pc' = "failed" /\ UNCHANGED <<live, cursor, pending>>
  /\ UNCHANGED <<asmVars, moho, entryVars, curVars, next, todo, notified, boundVars>>

-----------------------------------------------------------------------------
(* process_input and process_block, one step per write.                    *)

Receive ==
  /\ pc = "idle"
  /\ queue # <<>>
  /\ pending' = <<Head(queue)>>
  /\ queue' = Tail(queue)
  /\ pc' = "fold"
  /\ UNCHANGED <<anchors, up, moho, entryVars, live, curVars, cursor, next, todo, notified, boundVars>>

\* Mutant: the state held in memory is taken for the parent's.
ParentStateHeld == curMoho

\* The parent's Moho state: the one in memory, or the stored one; None when the
\* parent was never folded.
ParentState == IF curBlock = Parent[Current] THEN curMoho ELSE moho[Parent[Current]]

\* Mutant: the prover is told before the state is stored.
FoldAndNotify ==
  /\ pc = "fold"
  /\ ParentState # None /\ anchors[Current] # None
  /\ next' = NextMoho(ParentState, anchors[Current])
  /\ todo' = {c \in Container : Exports[Current][c] # <<>>}
  /\ pc' = "prune"
  /\ notified' = Append(notified, Current)
  /\ UNCHANGED <<asmVars, moho, entryVars, live, curVars, planVars, boundVars>>

\* A missing parent state or anchor ends the worker.
Fold ==
  /\ pc = "fold"
  /\ IF ParentState # None /\ anchors[Current] # None
     THEN /\ next' = NextMoho(ParentState, anchors[Current])
          /\ todo' = {c \in Container : Exports[Current][c] # <<>>}
          /\ pc' = "prune"
     ELSE pc' = "failed" /\ UNCHANGED <<next, todo>>
  /\ UNCHANGED <<asmVars, moho, entryVars, live, curVars, planVars, notified, boundVars>>

\* The header request of get_parent_block fails after all retries.
ParentUnavailable ==
  /\ \/ pc = "fold"
     \/ pc = "plan" /\ cursor # curBlock /\ ~Folded(cursor) /\ Above(cursor)
  /\ faults < MaxFaults
  /\ faults' = faults + 1
  /\ pc' = "failed"
  /\ UNCHANGED <<asmVars, moho, entryVars, live, curVars, planVars, next, todo, notified,
                 crashes, asmPrunes, mohoPrunes>>

foldUnchanged == <<asmVars, moho, live, curVars, planVars, next, notified, boundVars>>

StartAppending == IF todo = {} THEN "store" ELSE "open_run"

\* Mutant: a replayed block appends without pruning first.
PruneNothing ==
  /\ pc = "prune"
  /\ pc' = StartAppending
  /\ UNCHANGED <<foldUnchanged, todo, entryVars>>

PruneLeaves ==
  /\ pc = "prune"
  /\ IF Unpruned(CurrentHeight) = {}
     THEN pc' = StartAppending /\ UNCHANGED entryVars
     ELSE DropLeaves(Pruning(CurrentHeight), CurrentHeight) /\ pc' = "prune_hash"
  /\ UNCHANGED <<foldUnchanged, todo>>

PruneHash ==
  /\ pc = "prune_hash"
  /\ LET c == Pruning(CurrentHeight)
         stale == StaleHashes(c, CurrentHeight)
     IN IF stale = {}
        THEN pc' = "prune_height" /\ UNCHANGED entryVars
        ELSE \E l \in stale : DropHashRow(c, l) /\ UNCHANGED pc
  /\ UNCHANGED <<foldUnchanged, todo>>

PruneHeight ==
  /\ pc = "prune_height"
  /\ LET c == Pruning(CurrentHeight)
         more == \E g, h \in RowsFrom(c, CurrentHeight) : g # h
     IN /\ DropHeightRow(c, CurrentHeight)
        /\ pc' = IF more THEN pc ELSE "prune"
  /\ UNCHANGED <<foldUnchanged, todo>>

\* The container being appended to: ascending order.
Appending == MinOf(todo)

StartRun ==
  /\ pc = "open_run"
  /\ OpenRun(Appending, CurrentHeight)
  /\ pc' = "append"
  /\ UNCHANGED <<foldUnchanged, todo>>

\* Entries of the block already in the container.
Appended == Len(leaves[Appending]) - heightIdx[Appending][CurrentHeight]

AppendEntry ==
  /\ pc = "append"
  /\ AppendLeaf(Appending, Exports[Current][Appending][Appended + 1])
  /\ pc' = "index"
  /\ UNCHANGED <<foldUnchanged, todo>>

IndexEntry ==
  /\ pc = "index"
  /\ LET c == Appending
         done == Appended = Len(Exports[Current][c])
     IN /\ IndexLeaf(c, Exports[Current][c][Appended])
        /\ todo' = IF done THEN todo \ {c} ELSE todo
        /\ pc' = IF ~done THEN "append" ELSE IF todo' = {} THEN "store" ELSE "open_run"
  /\ UNCHANGED foldUnchanged

\* The commit point; then the in-memory state moves on and, unless this is the
\* startup catch-up, the prover is told.
StoreMoho ==
  /\ pc = "store"
  /\ moho' = [moho EXCEPT ![Current] = next]
  /\ curMoho' = next
  /\ curBlock' = Current
  /\ notified' = IF live THEN Append(notified, Current) ELSE notified
  /\ next' = None
  /\ pending' = SubSeq(pending, 1, Len(pending) - 1)
  /\ pc' = IF Len(pending) = 1 THEN "idle" ELSE "fold"
  /\ live' = (Len(pending) = 1)
  /\ UNCHANGED <<asmVars, entryVars, cursor, todo, boundVars>>

-----------------------------------------------------------------------------
\* The process ends; only the databases survive.
Stop ==
  /\ Asm!Stop
  /\ queue' = <<>>
  /\ pc' = "down" /\ live' = FALSE
  /\ curBlock' = None /\ curMoho' = None
  /\ cursor' = None /\ pending' = <<>> /\ next' = None /\ todo' = {}
  /\ notified' = <<>>
  /\ UNCHANGED <<moho, entryVars, faults, asmPrunes, mohoPrunes>>

\* A worker error is a critical task failure: the runner shuts down.
Exit == pc = "failed" /\ Stop /\ UNCHANGED crashes

Crash == pc \notin {"down", "failed"} /\ crashes < MaxCrashes /\ Stop /\ crashes' = crashes + 1

\* Offline, the operator prunes anchor states or Moho states.
PruneAnchors(h) ==
  /\ asmPrunes < MaxPrunes
  /\ Asm!Drop(h)
  /\ asmPrunes' = asmPrunes + 1
  /\ UNCHANGED <<queue, moho, entryVars, pc, live, curVars, planVars, next, todo, notified,
                 crashes, faults, mohoPrunes>>

PruneMoho(h) ==
  /\ pc = "down"
  /\ mohoPrunes < MaxPrunes
  /\ \/ moho' = [b \in Block |-> IF Height[b] < h THEN None ELSE moho[b]]
     \/ moho' = [b \in Block |-> IF Height[b] > h THEN None ELSE moho[b]]
  /\ mohoPrunes' = mohoPrunes + 1
  /\ UNCHANGED <<asmVars, entryVars, pc, live, curVars, planVars, next, todo, notified,
                 crashes, faults, asmPrunes>>

-----------------------------------------------------------------------------
MohoStep ==
  \/ Seed \/ Plan \/ Receive \/ Fold
  \/ PruneLeaves \/ PruneHash \/ PruneHeight
  \/ StartRun \/ AppendEntry \/ IndexEntry \/ StoreMoho

Next ==
  \/ LaunchAsm \/ MohoStep
  \/ \E b \in Block : AsmCommit(b)
  \/ ParentUnavailable \/ Exit \/ Crash
  \/ \E h \in DropHeights : PruneAnchors(h)
  \/ \E h \in MohoHeights : PruneMoho(h)

Spec == Init /\ [][Next]_vars

\* The service task keeps being polled, and a supervisor starts the process
\* again after it stopped.
FairSpec == Spec /\ WF_vars(MohoStep) /\ WF_vars(LaunchAsm) /\ WF_vars(Exit)

-----------------------------------------------------------------------------
TypeInv ==
  /\ anchors \in [Block -> AnchorState \cup {None}]
  /\ up \in BOOLEAN
  /\ queue \in Seq(Block)
  /\ moho \in [Block -> MohoState \cup {None}]
  /\ EntriesTypeInv
  /\ pc \in Stage
  /\ live \in BOOLEAN
  /\ curBlock \in Block \cup {None}
  /\ curMoho \in MohoState \cup {None}
  /\ cursor \in Block \cup {None}
  /\ pending \in Seq(Block)
  /\ next \in MohoState \cup {None}
  /\ todo \subseteq Container
  /\ notified \in Seq(Block)
  /\ crashes \in Nat /\ faults \in Nat /\ asmPrunes \in Nat /\ mohoPrunes \in Nat

\* Every stored Moho state, and the one in memory, is the fold of the block's
\* own ancestry, whichever branch the worker was on before and wherever it was
\* killed (process_block's choice of the parent's state).
MohoCanonical ==
  /\ \A b \in Block : Folded(b) => moho[b] = CanonMoho[b]
  /\ curBlock # None => curMoho = CanonMoho[curBlock]

Exported(b, c) == CanonMoho[b].export[c].leaves

\* v is the position, from 0, of the last copy of leaf l in s.
LastCopy(s, l, v) ==
  \E j \in 1..Len(s) : /\ v = j - 1 /\ s[j] = l
                       /\ \A k \in 1..Len(s) : s[k] = l => k <= j

\* Leaf i of container c is found by its height h, and the last copy of it by its
\* hash: a leaf may be exported again, and the later append overwrites the row.
IndexedAt(c, i, h) ==
  /\ LastCopy(leaves[c], leaves[c][i + 1], hashIdx[c][leaves[c][i + 1]])
  /\ EntryHeight(c, i) = h
  /\ i \in LeafRange(c, h)

\* c is b or one of its ancestors.
OnChainOf(b, c) ==
  c = Genesis \/ (CanonState[b].hist[Height[c]] # None /\ CanonState[b].hist[Height[c]].block = c)

\* Every block the ASM committed up to b's height is b or one of its ancestors,
\* and the operator dropped none of them.
Uncontested(b) ==
  /\ asmPrunes = 0
  /\ \A c \in Block : anchors[c] # None /\ Height[c] <= Height[b] => OnChainOf(b, c)

\* A block whose parent has no competitor leaves exactly its own leaves in every
\* container, its new ones found under its height and under their hashes,
\* whatever a killed prune or append or a branch that forks off at the parent
\* left behind (prune_from, append).
CleanPrefixMirrored ==
  pc = "store" /\ Uncontested(Parent[Current]) =>
    \A c \in Container :
      /\ leaves[c] = Exported(Current, c)
      /\ \A i \in Len(Exported(Parent[Current], c))..(Len(leaves[c]) - 1) :
           IndexedAt(c, i, CurrentHeight)

\* As long as the ASM committed no block that competes with the worker's tip,
\* the entry store mirrors the tip's export state leaf by leaf after any number
\* of kills, failures and prunes of the Moho states: no leaf is lost, doubled or
\* indexed wrongly, so the proofs build_export_entry_mmr_proof makes verify.
StraightChainMirrored ==
  pc = "idle" /\ Uncontested(curBlock) =>
    \A c \in Container :
      /\ leaves[c] = Exported(curBlock, c)
      /\ \A i \in 0..(Len(leaves[c]) - 1) : \E h \in Heights :
           /\ leaves[c][i + 1] \in {Exports[CanonState[curBlock].hist[h].block][c][k] :
                                      k \in DOMAIN Exports[CanonState[curBlock].hist[h].block][c]}
           /\ IndexedAt(c, i, h)

\* The prover finds the Moho state of every block it is told about and of that
\* block's parent (process_input emits last; InputBuilder reads both).
NotifiedProvable ==
  \A i \in DOMAIN notified : Folded(notified[i]) /\ Folded(Parent[notified[i]])

\* Startup fails only if a header request failed or the operator pruned the
\* anchor of a block that was still to be folded: the genesis state is always
\* there to end the walk, and a replayed fold finds its parent.
StartupFailuresExplained ==
  [][pc # "failed" /\ pc' = "failed" /\ ~live =>
       \/ faults' > faults
       \/ pc = "fold" /\ anchors[Current] = None /\ asmPrunes > 0]_vars

\* The Moho state of the ASM's latest block is eventually stored, also when the
\* worker or the process stopped in between, unless the operator pruned anchor
\* states (sync_to_tip, process_input).
LatestFolded ==
  <>[](asmPrunes > 0 \/ (up /\ \A b \in Block : IsLast(anchors, b) => Folded(b)))

\* The leaves below the block about to be stored are its parent's: re-stored
\* leaves always extend a clean prefix.
ExtendsCleanPrefix ==
  pc = "store" =>
    \A c \in Container : SubSeq(leaves[c], 1, Len(Exported(Parent[Current], c)))
                           = Exported(Parent[Current], c)

\* The catch-up bridges every gap: a live commit finds its parent's Moho state.
LiveParentFolded == pc = "fold" /\ live => ParentState # None
==============================================================================
