# A verification project for the Strata Anchor State Machine

The repository runs the Strata *Anchor State Machine* (ASM) over Bitcoin. The ASM
is a deterministic state transition function (STF) on Bitcoin blocks. It hosts
three subprotocols: administration, checkpoint and bridge. A runner follows
bitcoind, executes the STF block by block, stores the results, folds them into
Moho states and requests proofs of both.

This directory holds TLA+ modules for parts of that system, TLC configurations
that check them on small instances, and TLAPS proofs for every instance.
`PROJECT.json` is the index: components, runs, mutants, the map from definitions
to source lines, findings, hazards and theorems.

## The system

```
bitcoind --hashblock--> block watcher --submit--> ASM worker --commit--> Moho worker --> prover worker
                                                     |                      |               |
                                                  ASM DB                 Moho DB         proof DB
                                                     \______ RPC server, dbtool ____________/
```

| Part | Source | State | Module |
|---|---|---|---|
| Block watcher | `bin/asm-runner/src/block_watcher.rs` | ZMQ stream | `AsmWorker` |
| ASM worker | `crates/worker` | current anchor, next predicate | `AsmWorker` |
| ASM database | `crates/storage` | anchors, manifests, manifest MMR, aux data | `AsmWorker` |
| Execution registry, specs | `crates/worker/src/registry.rs`, `crates/spec` | constant | `L1Chain` |
| STF seen from outside | `crates/stf`, `crates/state` | none | `L1Chain` |
| Promise to readers of the ASM database | `crates/worker/src/service.rs` | committed anchors | `AsmLedger` |
| Moho worker | `crates/extensions/moho/worker` | current block and Moho state | `MohoWorker` |
| Moho database | `crates/extensions/moho/storage` | Moho states, export entries | `MohoWorker`, `ExportEntries` |
| Export proofs of the Moho RPC | `crates/extensions/moho/storage/src/export_proof.rs` | none | `ExportProofs` |
| Prover worker | `crates/extensions/prover/worker` | queue, frontier, peer health | `ProverWorker` |
| Proof database | `crates/extensions/prover/storage` | proofs, remote ids, statuses | `ProofDb` |
| Proof hosts, proof statements | `prover/worker/src/backend`, `crates/proof/statements` | configuration | `ProofHosts` |
| STF stages, messages, aux data | `crates/stf`, `crates/common` | stage, buffers, logs | `AsmHost`, `AsmLogs`, `AsmStf` |
| Header and body verification | `crates/btc-verification` | target, timestamps | `HeaderVerification`, `BodyVerification` |
| Administration | `crates/subprotocols/admin` | authorities, queued updates | `Admin`, `AdminTxs`, `ThresholdSig` |
| Checkpoint | `crates/subprotocols/checkpoint` | verified tip, predicates, deposit pool | `Checkpoint`, `CheckpointRules` |
| Bridge | `crates/subprotocols/bridge` | deposits, operators, assignments, safe harbor | `Bridge`, `BridgeTables`, `BridgeTxs`, `BridgeTypes` |
| Sorted tables | `crates/common/src/sorted_vec.rs` | none | `SortedVec` |
| Promise of bridge and checkpoint together | both handlers | counts of deposits | `Peg` |
| RPC server | `bin/asm-runner/src/rpc_server.rs` | none | `AsmRpc`, `ExportProofs` |

The system is checked in four compositions, joined by what each promises the next:

- `AsmStf` executes blocks inside one transition, down to the single message;
- `AsmWorker` runs that transition as a deterministic function of a block's ancestry
  and follows a reorganising L1 with it;
- `MohoWorker` sees the ASM worker as `AsmLedger`, which `AsmWorker` is shown to
  implement;
- `ProverWorker` sees the Moho worker as a source of committed blocks whose parents
  are committed, which is what `NotifiedProvable` says of `MohoWorker`.

## Modules

### L1Chain

The Bitcoin block tree and the reference result of executing the ASM along it. All
of it is constant, because a block hash fixes the block and its ancestry. A block is
a model value with a parent, a height and accumulated work. Two data of a block
matter to the worker: the ASM upgrade its manifest logs (`Upgrade`) and the heights
whose manifest hashes its transactions look up (`AuxReq`). Both are results of the
block and its ancestry, so they are constants of the block.

Three functions are folds along the ancestry:

- `Auth[b]`, the predicate that must execute b's children: the last upgrade logged
  on the way to b, else the genesis predicate;
- `CanonState[b]`, the anchor state after b;
- `Descends[b]`, whether b is on a chain through the configured genesis.

They are constants bound by their fold equations (`FoldAssumption`). The proofs use
only the equations. The MC module computes the folds for concrete trees, and TLC
evaluates the assumptions on each.

An anchor state is its block, the spec that produced it and the leaves of its
history accumulator. A manifest keeps the block, the spec, the upgrade and the blocks
whose manifests were looked up, so that a wrong look-up shows in the state. Its hash
is taken to be injective: the MMR leaf is the manifest.

### AsmWorker

The worker, the watcher and the ASM database.

| Actions | Code |
|---|---|
| `L1Advance` | bitcoind moves to a tip of more work and notifies, or the notification is lost |
| `Boot`, `SeedMmr`, `LoadAnchor` | `AsmWorkerServiceState::new`, one action per store it may write |
| `Subscribe`, `CatchUp`, `CatchUpFails`, `Deliver` | `drive_asm_from_bitcoin` |
| `PlanStep`, `PlanEmpty`, `RestoreAnchor` | `sync_to_block`: the walk of `plan_sync`, the early return, `restore_anchor` |
| `Transition` | `AsmWorkerServiceState::transition` with aux resolution and verification |
| `PutManifest`, `PutManifestHash`, `StoreAux`, `StoreAnchor` | the writes of `apply_block`, in its order |
| `ReadFails` | a read of bitcoind fails after its retries |
| `Exit`, `Crash`, `Prune` | the process stops on an error, is killed, or `dbtool` prunes offline |

Choices a reader may ask about:

- *Durability.* The database is never flushed explicitly, so a kill loses a suffix of
  its writes. That is the same as being killed earlier, and `Crash` can happen
  between any two writes. Writes are therefore durable at once.
- *Latest anchor.* `asm_states` orders keys by height and then by block id. Which of
  two blocks of one height has the greater id is left open.
- *MMR proofs.* `Mountain(i, n)` is the set of leaves under the same peak as leaf i in
  an MMR of n leaves. A proof generated from the store verifies exactly when every
  such leaf agrees with the accumulator it is verified against.
- *Failures.* An assertion of `prepare` and an error of `transition` both stop the
  process, so both are a failed transition. A read of bitcoind that fails after every
  retry is `ReadFails`, at each step that reads from it; `MaxOutages` bounds it. An
  error of the store has the effect of a kill at that point.
- *Aux requests* are for heights above genesis; the indexes below hold sentinels.

Not modelled: pruning of manifests and aux data, and single-record edits with
`dbtool`.

### AsmLedger

The promise to everyone who reads the ASM database. While the process is up, a block
is committed once, on top of its committed parent, with the state its ancestry
determines, and nothing is changed or dropped. Between two lives of the process the
operator may drop the states below or above a height. `AsmWorkerLedger` states that
`AsmWorker` implements it (`RefinesLedger`), with `committed` mapped to the anchor
store and `up` to "the process runs".

### MCAsmWorker

Three block trees.

- *Switchback* (`Sw`): a1 is overtaken by b2 and b2 by a3. The branches log the
  upgrade at different blocks, b2 and a3 look up manifests that the other branch
  overwrites, and a3 upgrades to a predicate nobody registered.
- *Off the path* (`Off`): genesis at height 1, a tip below it and a branch that does
  not descend from it, an upgrade that is taken back by a spec that refuses the newer
  state, and an unregistered predicate.
- *Trunk and fork* (`Fk`): look-ups reach only blocks below the fork, and every block
  is executable.

### ExportEntries

The export-entry store: the leaves of each container, the reverse index by hash and
the index of each height's first leaf. There is one action per sled write of `append`
and `prune_from`, and one operator per look-up (`entry_height`,
`leaf_range_at_height`). A container's MMR is its sequence of leaves: appending a leaf
or truncating the MMR is one step, because the nodes belong to an external store.

### MohoWorker

The Moho worker over `AsmLedger`, so the ASM worker is exactly its promise. The ASM
store may be pruned offline while the Moho store keeps what was derived from it.

| Actions | Code |
|---|---|
| `LaunchAsm`, `AsmCommit` | `bootstrap`; a commit and its emission to the subscription |
| `Seed` | `MohoWorkerServiceState::new`: genesis state, latest stored state |
| `Plan` | the walk of `sync_to_tip`; the watcher starts when nothing is left to fold |
| `Receive` | `process_input` takes the next commit |
| `Fold` | the parent's state, the anchor and the logs are read, the next state computed |
| `PruneLeaves`, `PruneHash`, `PruneHeight` | `prune_export_entries_from`, one step per write |
| `StartRun`, `AppendEntry`, `IndexEntry` | `store_export_entries`, one step per write |
| `StoreMoho` | `store_moho_state`, `update_moho_state` and, when live, the emission to the prover |
| `ParentUnavailable`, `Exit`, `Crash` | a header request fails for good, the runner stops, a kill |
| `PruneAnchors`, `PruneMoho` | `dbtool` prunes either store |

Commits are emitted only after the catch-up, because the block watcher starts after
the Moho worker is launched. A Moho state is the anchor state, the predicate and, per
container, leaves and extra data. The commitment hash is taken to be injective.
`CanonMoho` is the fold along the ancestry, constrained and computed as the folds of
`L1Chain` are. An anchored block has its own manifest (`CommitComplete`), so its logs
are constants of the block.

*Durability.* Writes of one database are durable in order, as in `AsmWorker`. A power
loss that sets the ASM store back while the Moho store stays ahead is represented by
`PruneAnchors`, which drops a range of heights, not an arbitrary suffix of the writes.

### MCMohoWorker

A tree with a branch a1, a2, a3 and a branch b1, b2, two containers, blocks with none,
one and two entries, and an upgrade at a different block of each branch.

### ExportProofs, AsmRpc

What the RPC server answers while the workers write. Its handlers read and never
write, so they are operators evaluated in every state of `MohoWorker` and `AsmWorker`,
the states between two writes included. `get_export_entry_mmr_proof` follows the code
through each of its errors. An MMR is its leaves, a peak's root is the sequence of the
leaves under it, and a proof verifies when it recomputes that sequence.

### AsmHost

The host of one transition. The variable `stage` goes through the stages of a block in
the code's order:

| Stages | Code |
|---|---|
| `idle` → `preprocess` | `StartBlock`: header and body checks, grouping by subprotocol |
| `resolve` | `PreProcess`, `Resolve`: each subprotocol requests aux data on the state before the block; what resolves is what the handlers can read |
| `admin_pending`, `admin_enact`, `admin` | administration: matured updates, one step per update, then one per transaction |
| `checkpoint` | one step per checkpoint transaction |
| `bridge`, `bridge_expired` | one step per bridge transaction, then the reassignment of expired assignments |
| `checkpoint_msgs`, `bridge_msgs` | the message round in spec order, one step per message |
| `export` | `ExportBlock`: the manifest is built and the next spec taken from its logs |

Pre-processing sees the state before the block and the handlers see what earlier
transactions of the same block left, so data a handler needs may never have been
requested. The code panics there. A panic sets `halted`, and `NoHalt` says that no
block leads to one.

`HeaderVerification` holds the four header checks, the timestamp ring with its median
and the retarget arithmetic. `BodyVerification` holds Merkle roots, the duplicate
check, the witness commitment and inclusion proofs; a hash is the term of what was
hashed. `AsmLogs` holds the log types and the one log the ASM reads back.

### Admin, AdminTxs, ThresholdSig

| Actions | Code |
|---|---|
| `DrainQueue`, `EnactQueued` | `handle_pending_updates`: all matured updates leave the queue, then each is enacted |
| `IgnoreAdminTx`, `RejectUpdate` | the early returns of `handle_action`; a rejected update still uses up its sequence number |
| `EnqueueUpdate`, `ApplyImmediately`, `CancelUpdate` | the three outcomes of an authorised action |

An update is a pair of type and content. On the wire the type is the transaction type
byte and the content has a layout that several types share, as in the code. A
signature names a signer and the message it was made over. The history variable
`accepted` records the fate of every accepted update.

### Checkpoint, CheckpointRules

`AcceptCheckpoint` and `RejectCheckpoint` follow the rules in the order of the code:
envelope key, epoch and height progression, proof under the active predicate,
withdrawals against the pool. A proof names its predicate and its claim. The messages
of administration (sequencer key, predicate rotation) and of the bridge (a processed
deposit) are actions of their own. A rotation takes effect at the tip: it waits in
`pending_transition` until the verified tip reaches its boundary, and the oldest is
evicted when the queue is full. The history variable `rotations` keeps every rotation
and whether it was evicted, and `covered` every accepted checkpoint with the predicate
that verified it.

### Bridge, BridgeTables, BridgeTxs, BridgeTypes

| Actions | Code |
|---|---|
| `AddDeposit`, `FulfillWithdrawal`, `RemoveOperator`, `SkipBridgeTx` | `handle_parsed_tx` for deposits, fulfilments, slashes and unstakes, and everything that does not parse or validate |
| `reassign_expired_assignments` | the step of `bridge_expired`, which also emits the export log |
| `create_withdrawal_assignment`, `apply_operator_set_update`, `update_safe_harbor_address`, `activate_safe_harbor` | one per message of `bridge_msgs` |

Deposits and assignments are functions on deposit indices. `SortedVec` models the
sorted vectors behind them; theorems of `TableProofs` and an assumption that TLC
evaluates relate the two. The seeded choice of an assignee is a nondeterministic choice among
the operators the code would draw from. An aggregated key is the set of keys it was
made from.

### Peg

Five counters: deposits in the vault, deposits that are free, units ordered by accepted
checkpoints, assignments owed, withdrawals paid. A unit is ordered only against a free
deposit, becomes owed with a deposit from the vault, and leaves only by being paid.
`AsmStf` maps `free` to the checkpoint's pool plus the deposits still in the message
buffer, and `ordered` to the dispatches in the buffer.

### ProofDb, ProofHosts, ProverWorker

`ProofDb` is the four trees of the proof database with their key order, the overwrite
checks and the offline deletions. `ProofHosts` decides which configurations start at
all (`can_bootstrap`), which program proves which spec, and what a program commits to.

| Actions of `ProverWorker` | Code |
|---|---|
| `Launch`, `Kill` | `bootstrap` with `ProverServiceState::new`; a kill between any two writes |
| `CommitBlock`, `Deliver` | the Moho worker commits; `enqueue_block_proofs` |
| `Tick`, `reconcile_one`, `RemoveStatus` | `reconcile_active_proofs`, one job at a time, one step per write |
| `GenerateTick`, `SkipProof`, `DeferProof`, `SubmitFails`, `UnknownArtifact` | the outcomes of `try_submit` that submit nothing |
| `SubmitProof`, `MapRemote`, `RecordStatus`, `ScheduleDone` | a submission: remote call, mapping, status |
| `FollowTick`, `FetchSkips`, `FetchReceipt`, `FetchDone` | a follower's tick: health, lag, fetches from its peer |
| `JobRuns`, `JobFails` | the remote prover (outside the repository) |
| `Maintain` | `dbtool` deletes or prunes records while the service is down |

One bound, `MaxFaults`, counts everything that goes wrong: kills, failed jobs, failed
calls, wrong receipts, repeated commits and maintenance. The remote prover numbers the
jobs of a proof; `TypeOK` says that the numbers never exceed the faults by more than one.

### Lists, Stages

`Lists` holds what the models of the STF do with vectors: selection (`Keep`, for
`retain` and `filter`), insertion and removal at a position, sums. They are recursive
functions or plain functions on positions, so that TLC evaluates them and the prover
reasons about them. `Stages` names groups of the stages of a block that the proofs of
administration and of the bridge refer to.

### MC and proof modules

`MCAsmStf` builds two sets of blocks: one in which administration hands over signers,
sequencer keys and predicates while checkpoints are posted, and one in which deposits,
withdrawals and operators come and go. `MCProverWorker` is a chain whose first block
upgrades the program, with three configurations that start and nine that do not.
The theorems and their lemmas are in proof modules. `AsmWorkerProofs`,
`MohoWorkerProofs` (over `ExportProofs`) and `ProverWorkerProofs` are about one worker
each. `TableProofs` is about the data of the transition: lists, sums, the operator table,
sorted vectors, Merkle trees and headers. `AdminProofs`, `BridgeProofs` and `AsmStfProofs`
build on it, and `PegProofs` on all three; see below.

## Runs

| Run | Instance, bounds | Checks | Result |
|---|---|---|---|
| `asm_switchback` | Sw, 2 kills, 1 loss, 1 outage | `TypeInv`, `AnchorsCanonical`, `CommitComplete`, `ServedCanonically`, `TipAuthorised`, `RefinesLedger` | holds, 55,672 states |
| `asm_offpath` | Off, 1 kill, 1 loss, 1 outage, 1 prune at height 1, 2 or 3 | `TipAuthorised`, `NoMmrGap`, `FailuresExplained`, `RefinesLedger` | holds, 277,378 states |
| `asm_liveness` | Fk, 1 kill, 1 outage, no loss | `CatchesUp` | holds, 22,084 states |
| `asm_stale_leaf` | Sw | `StaleLeafOverwritten` | violated, finding 1 |
| `asm_ignored_tip` | Sw | `IgnoredTipIsNoReorg` | violated, finding 2 |
| `moho_reorg` | a and b, 1 kill, 1 failed request, 1 prune of each store (anchors at height 2, Moho states at height 1) | `TypeInv`, `MohoCanonical`, `CleanPrefixMirrored`, `StraightChainMirrored`, `NotifiedProvable`, `ExportProofsServed`, `StartupFailuresExplained`, `LatestFolded` | holds, 324,770 states |
| `moho_stale_entries` | a and b, no kill | `ExtendsCleanPrefix` | violated, finding 3 |
| `moho_missing_parent` | a and b, 1 kill | `LiveParentFolded` | violated, finding 4 |
| `stf_handover` | handover blocks, heights 2 to 6 | `StfTypeOK`, `NoHalt`, `PowStateFromChain`, `BodyBound`, `UpdatesResolveOnce`, `QuorateSigners`, `TransitionsAhead`, `GovernedRanges` | holds, 1,392,890 states |
| `stf_peg` | peg blocks, heights 2 to 6 | `NoHalt`, `AssignmentsSound`, `OperatorHistory`, `HeldUntilDeadline`, `PegKept` | holds, 493,182 states |
| `prover` | g, a1, a2; 1 fault; 12 configurations | `TypeOK`, `StoredProofsAttest`, `RecursionComposes`, `FrontierBacked`, `InFlightBounded`, `TipSubmitted` | holds, 285,371 states |
| `prover_tip_retry` | g, a1, a2; 1 fault; one configuration | `TipProven` | violated, finding 5 |

What the properties say:

- `AnchorsCanonical`: every stored anchor is the one its ancestry determines, whatever
  reorgs, kills, prunes and stale leaves came before.
- `CommitComplete`: a committed block has its own manifest and aux data stored.
- `ServedCanonically`: at every moment the RPC serves the state and the manifest a
  block's ancestry determines, and a state never without its manifest.
- `TipAuthorised`: the next block will be executed by the spec that the tip's ancestry
  authorised, also after it was re-derived from a single manifest.
- `NoMmrGap`: an MMR write never leaves a gap.
- `FailuresExplained`: the worker stops only because a read of bitcoind failed, because
  L1 left the configured genesis, because the authorised spec cannot execute the next
  block, or because the MMR holds a leaf of another branch.
- `CatchesUp`: once L1 stops moving, its tip is eventually committed and stays so.
- `MohoCanonical`: every stored Moho state is the fold of its block's own ancestry.
- `CleanPrefixMirrored`: when the ASM committed no competitor of the parent or of a block
  below it (`Uncontested`), folding a block leaves exactly the block's leaves, its own
  found under its height and the last copy of each under its hash, whatever a killed prune or append or a branch that forks off at the parent left
  behind.
- `StraightChainMirrored`: while no competing block was committed, the entry store
  mirrors the tip's export state, through kills, failures and prunes of Moho states.
  Pruned anchors are excluded in both: a rollback of the ASM store followed by a kill between
  two folds can lose entries, because the latest Moho state then is above them.
- `NotifiedProvable`: the prover is told only about blocks whose own and parent's Moho
  states are stored.
- `ExportProofsServed`: on one chain a proof of every entry exported once is served as of
  every folded block, also between two writes for a later block. For an entry exported
  again the answer may also be that it is not there or later than the block, but never a
  proof that does not verify.
- `StartupFailuresExplained`: startup fails only on a failed header request or when
  the operator pruned an anchor that was still to be folded.
- `LatestFolded`: the Moho state of the ASM's highest block is eventually stored.
- `NoHalt`: no block panics the transition.
- `PowStateFromChain`: timestamp ring, interval start, work and next target are those
  of the whole chain since the anchor, computed as Bitcoin Core does.
- `BodyBound`: the transactions processed are those the header commits to, also when a
  node is handed a body that was altered.
- `UpdatesResolveOnce`: every accepted update is queued, enacted or cancelled, exactly
  one of them, and enacted at its own height.
- `QuorateSigners`: every role keeps distinct signers and a threshold they can reach.
- `TransitionsAhead`: queued rotations are ordered and lie above the verified tip.
- `GovernedRanges`: accepted checkpoints tile the L1 heights, and each height was
  verified under the predicate that the history of rotations puts in force for it.
- `AssignmentsSound`: an index is a deposit or an assignment, not both; an assignee is
  in its deposit's notary set and was not tried before; deadlines lie ahead.
- `HeldUntilDeadline`: an assignment changes only when its deadline has passed, after
  the transactions of that block, and then goes to an eligible operator.
- `OperatorHistory`: the recorded configurations, keys and bitmaps of the operator
  table agree, and a removed operator never comes back.
- `PegKept`: the transition implements `Peg`.
- `StoredProofsAttest`: a stored proof is a proof of its own block, and a recursive one was
  made under the worker's own Moho key, not just accepted by it.
- `RecursionComposes`: the inputs of every job on record compose into the attestation
  its block calls for.
- `FrontierBacked`: the reported frontier is a highest block with a stored Moho proof.
- `InFlightBounded`: no more jobs are on record than the largest configured limit.
- `TipSubmitted`: the Moho proof of the last committed block is eventually submitted,
  unless the service rests for one of the reasons `AtRest` names.

TLC also evaluates two assumptions on the way: `VectorsImplementTables`, that the
operations of `SortedVec` on all vectors of up to three entries agree with functions on
keys, and `RefusedAtStartup`, that `can_bootstrap` refuses nine faulty configurations
and no other.

*Bounds of the workers.* L1 moves only to more work, so a tree has finitely many tip
sequences. Each tree has two branches past the fork, which is what a reorg, a second
reorg back and a re-run need. Two kills allow one during the recovery from another. One
lost notification, one outage and one prune are enough to meet each recovery path with
the other. In `moho_reorg` the ASM may commit the two branches in any order that
respects parents, which includes every sequence of reorgs between them.

*Bounds of the STF.* Five blocks follow the anchor at height 1. That is enough for an
update to be queued, cancelled or enacted and for checkpoints to be posted before,
across and after it. The queue of rotations holds two, so three rotations evict one.
Difficulty intervals are two blocks and the timestamp ring three, so that five blocks
cross two retargets and wrap the ring; empty blocks come early and late, and targets
reach both limits. Three signers, a gap of two sequence numbers and a height range that
ends at the last block in `stf_handover` put each limit within reach. In `stf_peg`
assignments last one block and deposits are made under three operator sets.

*Bounds of the prover.* One fault reaches every single failure between any two writes.
Larger instances were run by hand, and the invariants held: the same tree with two
faults (4.0 million states) and a tree of four blocks with a fork, one configuration and
two faults (3.6 million states).

*Deadlock* is checked in the `stf` and `prover` runs; the last block of an `stf` run
stutters (`EndOfChain`). It is not checked in the others: with its bounds spent and L1
at its last tip the system rests.

*Fairness.* The worker thread and the watcher task run until the process ends (weak
fairness of `WorkerStep` and `WatcherStep`). A failed critical task ends the process
(`Exit`), and a supervisor starts it again (`Boot`). The last is outside the
repository. `CatchesUp` is checked without lost notifications: the watcher has no
retry after a lost one until the next block arrives. `LatestFolded` assumes the same
of the Moho worker's task (`MohoStep`), of `Exit` and of the restart (`LaunchAsm`), and
nothing of the ASM worker. `TipSubmitted` and `TipProven` assume that the prover
service's timer keeps ticking (weak fairness of `TickStep`), that it gets round to its
messages between ticks (strong fairness of `Deliver`, because a tick disables it), that
it is restarted (`Launch`) and that the remote prover works on its jobs (`JobRuns`,
strong because the model lets jobs progress only while a pass looks at them).

### Findings

1. *A superseded leaf can outlive its chain.* `put_manifest_hash`'s doc
   (`crates/worker/src/traits.rs:115`) says that a reorg overwrites each superseded
   leaf before any later height is written. The forward pass starts above the nearest
   committed ancestor, so when L1 returns to a branch whose lower blocks are already
   committed, the other branch's leaves at those heights stay. A later look-up under
   the same peak fails verification and stops the worker. `AnchorsCanonical` shows
   that no state is ever wrong because of it.
2. *An empty plan can hide a reorg.* `sync_to_block`'s doc
   (`crates/worker/src/service.rs:105`) says that an already processed target is
   never a reorg. The catch-up commits the new tip, a queued notification of the old
   branch moves the worker's tip back, and the notification of the new tip is then
   ignored. The worker's tip stays on the abandoned branch until the next block.
3. *Re-stored export entries need not extend a clean prefix.* The entry store's doc
   (`crates/extensions/moho/storage/src/sled/export_entries.rs:11`) relies on the
   consumer pruning from the block's height. After a1, then b1 and b2, then a2, the
   prune from a2's height keeps b1's entries where a1's should be, since a1 is already
   folded and is not folded again. Inclusion proofs built from the store then fail;
   `MohoCanonical` shows that no Moho state is wrong.
4. *The catch-up can miss a branch.* `sync_to_tip`'s doc
   (`crates/extensions/moho/worker/src/service.rs:127`) says that the catch-up keeps a
   live commit from finding its parent's Moho state missing, also across a reorg. It
   follows the highest anchor. If the process is killed after the ASM committed the
   first block of a new branch that is not yet higher than the old one, that block is
   not caught up, and its child ends the worker. `LatestFolded` shows that restarts
   recover once the new branch holds the highest anchor.
5. *A failed proof of the tip waits.* `reconcile.rs:112` and the module doc
   (`crates/extensions/prover/worker/src/reconcile.rs:5`) say that a discarded
   submission lets the scheduler submit the block again. The scheduler takes only what
   is queued, and discarding enqueues nothing. The proof is submitted again when a
   later block needs it as a prerequisite or when the service restarts.
   `TipSubmitted` shows that every tip gets its first submission.

### Observations

Met while modelling, and not violations of a stated property:

- A kill between `put_remote_proof_id` and `put_status`, or a deletion of the status by
  hand, leaves a mapping without a status. The proof is then skipped as already
  submitted for good (`Orphaned` in `ProverWorker`).
- `queue.rs:4` and `:14` say that Moho proofs come first. `Ord` puts the lower height
  first and, at one height, the ASM proof.
- Discarding a stale failed job a second time can clear the mapping of a newer job, and
  the proof is then submitted twice. Nothing stored is affected.
- `cancel.rs:9` says that a wrong id yields a different signing message. The id is not
  part of the message, so it does not when two identical updates are queued.
- A block may carry several ASM upgrades, because `BlockUpdateGuard` does not limit
  them. Every reader takes the first log, so readers agree.
- `header_verification.rs:60` says that the timestamp ring retains additional timestamps
  for reorgs. It holds exactly the eleven the median needs.
- A leaf can be exported twice into one container. It is a hash of the deposit index and
  the operator of a fulfilled withdrawal, and a test says that the index of a fulfilled
  deposit is free again (`crates/subprotocols/bridge/state/src/bridge.rs:357`). The reverse
  index has the last position only, as the trait says
  (`crates/extensions/moho/storage/src/export_entries.rs:38`). When a reorg prunes that
  position the row goes with it, and the earlier copy is not found by its hash although it
  is still in the container.
- A full queue of rotations drops its oldest entry, which then never takes effect.
  `GovernedRanges` treats it as the code does.

## Proofs

For every value of the constants that meets the modules' assumptions:

| Module | Theorem | Statement |
|---|---|---|
| `AsmWorkerProofs` | `TypeCorrect` | `Spec => []TypeInv` |
| `AsmWorkerProofs` | `Canonical` | `Spec => []AnchorsCanonical` |
| `AsmWorkerProofs` | `Complete` | `Spec => []CommitComplete` |
| `AsmWorkerProofs` | `Authorised` | `Spec => []TipAuthorised` |
| `AsmWorkerProofs` | `GapFree` | `Spec => []NoMmrGap` |
| `AsmWorkerProofs` | `LedgerRefined` | `Spec => RefinesLedger` |
| `AsmWorkerProofs` | `Failures` | `Spec => FailuresExplained` |
| `AsmWorkerProofs` | `Served` | `Spec => []ServedCanonically` |
| `MohoWorkerProofs` | `WellTyped` | `Spec => []TypeInv` |
| `MohoWorkerProofs` | `Canonical` | `Spec => []MohoCanonical` |
| `MohoWorkerProofs` | `Provable` | `Spec => []NotifiedProvable` |
| `MohoWorkerProofs` | `StartupExplained` | `Spec => StartupFailuresExplained` |
| `MohoWorkerProofs` | `PrefixMirrored` | `Spec => []CleanPrefixMirrored` |
| `MohoWorkerProofs` | `TipMirrored` | `Spec => []StraightChainMirrored` |
| `MohoWorkerProofs` | `ProofsServed` | `Spec => []ExportProofsServed` |
| `ProverWorkerProofs` | `WellFormed` | `Spec => []TypeOK` |
| `ProverWorkerProofs` | `Attest` | `Spec => []StoredProofsAttest` |
| `ProverWorkerProofs` | `Composes` | `Spec => []RecursionComposes` |
| `ProverWorkerProofs` | `Frontier` | `Spec => []FrontierBacked` |
| `ProverWorkerProofs` | `Bounded` | `Spec => []InFlightBounded` |
| `AsmStfProofs` | `Governed` | `Spec => []GovernedRanges` |
| `AsmStfProofs` | `Ahead` | `Spec => []TransitionsAhead` |
| `AsmStfProofs` | `PowFromChain` | `Spec => []PowStateFromChain` |
| `AsmStfProofs` | `BodyIsMined` | `Spec => []BodyBound` |
| `AdminProofs` | `ResolvedOnce` | `Spec => []UpdatesResolveOnce` |
| `AdminProofs` | `AlwaysQuorate` | `Spec => []QuorateSigners` |
| `PegProofs` | `HistoryRecorded` | `Spec => []OperatorHistory` |
| `PegProofs` | `SoundAssignments` | `Spec => []AssignmentsSound`, when `assignment_duration # 0` |
| `PegProofs` | `Held` | `Spec => HeldUntilDeadline` |
| `PegProofs` | `PegRefined` | `Spec => PegKept` |
| `PegProofs` | `Typed` | `Spec => []StfTypeOK` |
| `PegProofs` | `NeverHalts` | `Spec /\ []Provided(h) => []NoHalt`, for an operator `h` of the first set |
| `TableProofs` | `RootBinds` | leaves without repetitions are determined by their Merkle root |
| `TableProofs` | `BodyBinds` | a body that passes `check_block_integrity` is the mined one |
| `TableProofs` | `OrderedDecodes`, `InsertDepositImplements`, `RemoveDepositImplements`, `FirstIsOldest` | operations on strictly ordered vectors |

*Assumptions.* `L1Chain`, `AsmWorker` and `MohoWorker`: what a Bitcoin chain and the
registry's own checks give. A block above genesis has its parent one height below and
less work, registered predicates are distinct, a block looks up only heights below its
own, and the folds satisfy their equations. `ProofDb` and `ProverWorker`: a tree of
blocks above genesis with distinct ids, configurations whose Moho program is the one the
predicate names, and `None` (no receipt, no job) unlike any receipt and any job.
`AsmStf`: the parameter checks of the code (`check_invariants`), limits that are positive
numbers, an anchor whose target is attainable, a non-empty list of first operators, and a
block to choose at every height. Of the blocks' contents the models assume what decoding
gives (lists of transactions, times that are numbers) and two rules of Bitcoin: whatever
body a node is handed, the header was mined for a body that Bitcoin accepts
(`BodyAssumption`), and a mined transaction spends outputs that exist
(`SpendsAssumption`).

`SoundAssignments` has a hypothesis of its own. With an `assignment_duration` of zero a
deadline is the height at which the assignment is made, so it does not lie ahead; the
configured value is a parameter that no check of the code bounds from below. The other
three parts of `AssignmentsSound` hold for every duration (`PegInvariance`).

*`AsmWorkerProofs`.* The inductive invariant `IInv` is needed because none of the
properties is inductive alone:

- `StoreInv`: every committed block descends from genesis, has a canonical state and,
  above genesis, the canonical manifest and aux data; a manifest that is stored at all
  is its block's canonical one; the MMR is empty or reaches genesis, and reaches
  every committed block.
- `PlanInv`: the pending blocks are a chain of parents from the target to the cursor,
  or to the current anchor in the forward pass, so each block applied is the child of
  the anchor it is applied to.
- `OutInv`: an STF output waiting to be written is canonical for its block, and the
  writes already made are in the stores.

The step that matters for canonical states is the one where the MMR may be wrong:
`Transition` reads leaves that another branch may have overwritten. It succeeds only
when they verify against the anchor's own accumulator, which is canonical by
induction, so the output is canonical. The proof of `Failures` needs one more fact:
`Auth` is recoverable from one manifest, because the spec that produced a committed
state is the one its parent's `Auth` resolved to and the registry is injective.
`Served` follows from the same invariant.

*`MohoWorkerProofs`.* The invariant adds to the two properties: stored anchors are
canonical (`AnchorsInv`, from `AsmLedger`'s commit step), the pending blocks are above
genesis (`WorkInv`), the state being written is canonical for the block it is written
under and the parent's is stored (`FoldInv`), and nothing is in memory or notified
while the process is down (`DownInv`), so that a prune of the Moho store cannot falsify
what the prover was told. The step that matters is `Fold`: the parent's state comes
from memory only if the block held there is the parent, so a canonical state is
extended by its own child in either case.

`WellTyped` needs one fact that is more than types: between the height row and the last
hash row the run that `append` writes lies inside the block's entries (`RunInv`), so that
the position read back from the store is one of them. `StartupExplained` is about the
catch-up: if it fails although no request failed, an anchor was pruned. `CatchUpInv` says
why. Unless anchors were pruned, the parent of an anchored block is anchored
(`AncestryInv`); the walk stands at the parent of the block it collected last, and the
genesis state is there to end it (`WalkInv`); every pending block is the child of the next
one, and the oldest one's parent is folded (`PendingInv`).

The theorems about the entry store need to know, of every half-finished prune or append,
which rows are still exact. `MirrorInv` says it in nine parts.

- `CleanInv` is the one the properties rest on. Of every folded block without competitors:
  each container begins with its leaves, each found under the height
  that exported it, and whatever comes after them is under rows of greater heights, the
  lowest of which starts right after them. The last clause makes the next prune exact: it
  cuts at the lowest row at or above the height of the block being folded.
- `ChainInv`: until the operator drops anchors, a block is anchored with all its ancestors,
  and its exports begin with theirs.
- `WaitInv`: a folded block without competitors is below everything that is still to be
  folded, so no prune ever reaches it. It needs the order of the pending blocks and of the
  queue, where the catch-up starts, and that an anchored block above one still to be folded is
  queued itself (`TailInv`).
- `RowsInv`: there is a highest row, and no row is above the highest anchored block.
- `StageInv`: the leaves go before the rows they are under, and once an append begins there
  is no row above the block's height.
- `AppendInv`: what was appended so far is an initial part of the block's exports, and every
  leaf but the one about to be indexed has its last copy under its hash.
- `HashInv`: of every folded block without competitors, the hash of each leaf leads to its
  last copy among the block's leaves, unless a block above that was handed to the worker
  exports the leaf again. In between the row names a later position or is pruned.
- `SoundInv`: on one chain a hash row, however old, names a position where some committed
  block has that leaf, so a proof made from it verifies.
- `ExactInv`: no row is above the block an idle worker stands at, and every anchored block
  above it is queued.

A kill may come between any two writes, so `CleanInv` cannot speak of the block being
folded, and `AppendInv` must hold again after the re-run has pruned what the killed run
left. `ProofsServed` also needs a fact about MMRs: the peak over a leaf covers leaves of
the MMR only (`PeakInside`), so a proof as of a folded block reads no leaf of a later one.

*`ProverWorkerProofs`.* The invariant has seven parts. `ChainInv` and `QueueInv` bound
what can be queued. `StoreInv` is `StoredProofsAttest` with the types it needs.
`RecordsInv` says that what a pass looks at is on record and that a job is recorded for
the proof it was submitted for. `JobsInv` says that every job's input yields the
expected receipt: when a proof is ready its prerequisites are stored, and by
`StoreInv` they attest to the right blocks, so they compose; a later deletion does not
change the input. `FrontierInv` leaves out the proofs a running fetch loop has stored,
because the frontier advances only when the loop ends. `FlightInv` adds the jobs on
record and the free slots of the running pass; a status is recorded only after a slot
was taken, and a kill between the two only loses the slot.

`WellFormed` rests on an account of the retries (`RetryInv`). The service forgets a
submission by itself when a job failed or its receipt did not verify, so the number of
jobs of one proof is not bounded by anything the service keeps. The account is: the jobs
of a proof and its failed jobs still on record are together at most the faults so far,
plus one if a submission is on record. A fault that fails a job is put on account then
and spent when the pass discards the submission; that a receipt which does not verify is
itself a fault follows from `JobsInv`. A kill between the two writes of a discard puts the
failed job back on record, which costs the kill's own fault: this is how a proof comes to
be submitted twice (see the observations), and how often it can.

*`AsmStfProofs`.* `GovernedRanges` compares the checkpoints with the history of
rotations, while the code decides on its bounded queue. `HistoryInv` ties the two: the
queue is the last part of the history, and what left it lies at or below the verified
tip or was evicted. `TipInv` keeps the tip below the block being processed, so a
rotation that arrives now cannot govern a range that is already covered. `CoverInv`
says that the checkpoints end at the tip. Three steps matter: accepting a checkpoint
(the proof is checked under the predicate of the whole range because no boundary lies
inside it), promoting a rotation, and evicting one from a full queue (it was still
ahead of the tip, so no covered height was governed by it).

`PowFromChain`: the inductive invariant `ChainInv` is `FromChain` with types. One header
verified on a state that comes from the chain leaves a state that comes from the longer
chain (`FromChainKept` of `TableProofs`). The ring holds the last times, also after it
wrapped; the start of the interval moves exactly at a boundary; and the code's saturating
subtraction of times gives the same target as the signed one of Bitcoin Core, because both
are clamped to a quarter of the timespan.

`BodyIsMined` rests on `BodyBinds`. With a witness commitment the body is bound through the
witness root and the proof of the coinbase, whose length the code fixes to the depth of the
tree; without one through the transaction root. In both cases `RootBinds` gives the
leaves, and the leaves the transactions. Levels of odd length repeat their last node, so
two different lists can have one root; the scan for repeated leaves excludes it, and no
inner level needs a scan.

*`TableProofs`, sorted vectors.* On strictly ordered vectors the binary search
finds the one entry with a key or the one place for it, so insertion and removal act as
on a function on keys and keep the order; decoding accepts such vectors, so a table
written by one block is read back by the next.

*`AdminProofs`.* `AdminInv` ties the queue to the history of accepted updates
(`Waiting`): the entries of the queue and the updates being enacted have different ids,
each names an update that the history has as undecided, with the same content and height,
and every undecided update is in one of the two. `Due` follows the height through a block:
only before the queue is drained may it hold an update of the current height, and what is
being enacted is due exactly now. The steps that matter are `DrainQueue` (the matured and
the remaining entries are the queue, each once)
and `CancelUpdate` (the id that is removed is the one whose fate changes). For
`AlwaysQuorate`, an accepted update names members to remove and strangers to add, neither
twice, so the new list has the length that `validate_update` computed and the threshold
was checked against; what was queued is validated again when it is enacted, because the
set may have changed since.

*`BridgeProofs`, `PegProofs`.* `TableInv` says of the operator table what
`OperatorHistory` says, and that a recorded configuration only uses operators that exist,
so that a later addition does not change its key. `Backed` and `Assigned` say that every
deposit and assignment refers to a recorded configuration.

`PegKept` is a refinement with counts of messages in flight. `FreeDeposits` is the
checkpoint's pool and the deposits whose message has not reached it, and `OrderedUnits`
the units of the withdrawals whose message has not reached the bridge. `CountsInv`
says that the tables are finite and what may be in which inbox at which stage. Each step
of the host maps to one step of `Peg` or to a stutter: a deposit transaction to a
deposit, an accepted checkpoint to an order of as many units as it dispatches, the
assignment of a withdrawal intent to as many assignments as it needs, a fulfilment to a
payment. The pool check of the checkpoint (`verify_withdrawals`) is what makes the
abstract guard hold, and the denomination makes an amount a number of deposits.

`HeldUntilDeadline` is an action property: a block's pass over expired assignments is the
only step that changes one, and it runs after the block's transactions.

`Typed` collects the invariants of all parts and adds the host's own (`HostInv`) and the
checkpoint's counts (`CountInv`).

`NeverHalts` cannot be unconditional. `Provided(h)` is what the transition relies on and
does not check: the ruleset a block upgrades to is built into the node, a block's logs fit
the manifest, the deposits held are worth no more than the money supply, the operator
table does not outgrow its index space, and the operator `h` is never removed (the honest
operator that `subprotocol.rs:103` assumes). Each is something the code panics without.
Everything else that the code unwraps is proved, with `RunInv`:

- `Balanced`: the deposits held are those in the pool, those whose report is on its way to
  the pool and those promised to a withdrawal on its way to the bridge. So every approved
  withdrawal finds a deposit, however checkpoints and deposits interleave.
- `Steady`: `h` is in every recorded configuration, so every assignment finds an operator.
- `DataInv`: what was requested on the state before the block covers what the handlers
  read on the states the block goes through; `FedInv`: the requested transactions exist.
- `RotationInv` (`AdminProofs`): two rotations of the predicate are never enacted at one
  height, because they wait equally long and a block accepts one at most, so the
  boundaries the checkpoint receives increase.

*Induction.* The prover cannot instantiate an induction theorem that takes an operator.
Where a recursive function over the length of a list matters (selection, sums, the
addition of operators), the lemmas of `TableProofs` argue with sets instead: the set of
lengths for which the claim holds contains zero and is closed under successor, or a
counterexample of least length exists by well-foundedness.

*Only model-checked:*

- the liveness properties `CatchesUp`, `LatestFolded` and `TipSubmitted`: the prover
  does no fairness;
- `NoHalt` without the hypotheses of `NeverHalts`: it holds of the blocks of the two
  instances, and not of every block that the constants allow;
- the five violations.

## Not modelled

- Bytes: SSZ and tag layouts, scripts, addresses, signatures and hashing are taken by
  what they tell apart. Hashes and encodings are injective. The limit on the size of a
  section is left out.
- Overflow of an activation height at the end of the `u32` range is modelled with a
  small range (`MAX_L1_HEIGHT`); amounts are bounded by `MAX_MONEY`.
- Pre-processing in the code checks the header and the main pass checks the body as
  well. The model starts a block only when both hold.
- `dbtool`: pruning of manifests and aux data, and commands that put or delete single
  ASM and Moho records by hand.
- RPC getters that decode one section of a state or return a stored proof.
- Logging, metrics, `upgrade_watch.rs`, error texts, configuration files, the SP1 guest
  builder, the benchmark and the test utilities.
- Operator 0 is never removed in the instance of `stf_peg`: the bridge (`subprotocol.rs:103`)
  assumes one honest operator, and a table without active operators panics by design.
