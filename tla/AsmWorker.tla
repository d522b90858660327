------------------------------ MODULE AsmWorker ------------------------------
(***************************************************************************)
(* The ASM worker, the block watcher that drives it, and the stores of the *)
(* ASM database, over the block tree of L1Chain.                           *)
(*                                                                         *)
(* The watcher subscribes to bitcoind's new-tip notifications, submits the *)
(* current tip once and then every notified tip.  The worker plans each    *)
(* submission by walking parents back to the nearest stored anchor and     *)
(* applies the blocks above it, oldest first, one durable write at a time. *)
(* The process can be killed between any two writes.  L1 moves only to     *)
(* tips of more accumulated work.                                          *)
(*                                                                         *)
(* A kill leaves the database at a prefix of its writes.  Losing the last  *)
(* writes as well as the memory is the same as being killed earlier, so    *)
(* the writes are modelled as durable at once.                             *)
(***************************************************************************)
EXTENDS L1Chain, Sequences

CONSTANTS
  PruneHeights, \* heights the operator may prune anchor states at (dbtool)
  MaxCrashes,   \* bound: kills of the process
  MaxLost,      \* bound: notifications lost by the ZMQ stream
  MaxOutages,   \* bound: reads of bitcoind that fail after every retry
  MaxPrunes     \* bound: offline prunes

VARIABLES
  \* L1 and the watcher
  l1tip,        \* bitcoind's best block
  watcher,      \* "off", "subscribed" (tip not submitted yet), "live"
  zmq,          \* notifications not yet read, oldest first
  \* the ASM database
  anchors,      \* asm_states: [Block -> AnchorState \cup {None}]
  manifests,    \* asm_manifests: [Block -> Manifest \cup {None}]
  mmrCount,     \* leaf count of the manifest MMR; 0 until it is seeded
  mmrLeaf,      \* its leaves above genesis, by height
  auxData,      \* aux data by block, as resolved for the prover
  \* the worker's memory
  pc,           \* what the worker does next
  blkid,        \* current anchor block
  anchor,       \* current anchor state
  nextPred,     \* predicate that must execute the next block
  cursor,       \* block the backward walk is at
  pending,      \* blocks to apply, newest first
  out,          \* STF output of the block being persisted
  \* counters of the bounds
  crashes, lost, outages, prunes

l1Vars == <<l1tip, watcher, zmq>>
dbVars == <<anchors, manifests, mmrCount, mmrLeaf, auxData>>
memVars == <<blkid, anchor, nextPred, cursor, pending, out>>
boundVars == <<crashes, lost, outages, prunes>>
vars == <<l1Vars, dbVars, pc, memVars, boundVars>>

-----------------------------------------------------------------------------
Anchored(b) == anchors[b] # None

Stage == {"down", "seed", "load", "idle", "plan", "transition",
          "put_manifest", "put_leaf", "store_aux", "store_anchor", "failed"}

\* STF output of block b with the aux data it was given.
Output(b) == [state : AnchorState, manifest : Manifest, aux : [AuxReq[b] -> Manifest]]

ASSUME OutputAssumption == \A b \in Block : None \notin Output(b)

\* The last entry of asm_states: its keys order by height, then by block id.
\* Which of two blocks of the same height has the greater id is left open.
IsLatest(b) == Anchored(b) /\ \A c \in Block : Anchored(c) => Height[c] <= Height[b]

\* Execution predicate recovered for a stored anchor (recover_from_context):
\* the configured one at genesis, else the upgrade logged in the block's own
\* manifest, else the one registered for the spec that produced the anchor.
Recoverable(st) ==
  \/ st.block = Genesis
  \/ /\ Above(st.block)
     /\ manifests[st.block] # None
     /\ manifests[st.block].block = st.block
     /\ manifests[st.block].up # None \/ st.spec \in Registered

\* Mutant: the upgrade logged in the anchor's own block is ignored.
RecoveredFromSpec(st) ==
  IF st.block = Genesis THEN PredOf[GenesisSpec] ELSE PredOf[st.spec]

Recovered(st) ==
  IF st.block = Genesis THEN PredOf[GenesisSpec]
  ELSE IF manifests[st.block].up # None THEN manifests[st.block].up
  ELSE PredOf[st.spec]

\* Of the n leaves of an MMR, those hashed into the same peak as leaf i: bit k
\* of n is a peak over 2^k leaves, after the leaves of the higher bits.
Mountain(i, n) ==
  LET Peak(k) == ((n \div 2^k - 1) * 2^k)..((n \div 2^k) * 2^k - 1)
  IN {j \in 0..(n - 1) : \E k \in 0..n : (n \div 2^k) % 2 = 1 /\ {i, j} \subseteq Peak(k)}

\* The stored leaf h with the path generated for st's entry count verifies
\* against st's accumulator: every leaf under the same peak is st's own.
ProofVerifies(st, h) ==
  /\ mmrLeaf[h] = st.hist[h]
  /\ mmrLeaf[h] # None
  /\ \A j \in Mountain(h, Height[st.block] + 1) \cap Heights : mmrLeaf[j] = st.hist[j]

-----------------------------------------------------------------------------
Init ==
  /\ l1tip = Genesis
  /\ watcher = "off"
  /\ zmq = <<>>
  /\ anchors = [b \in Block |-> None]
  /\ manifests = [b \in Block |-> None]
  /\ mmrCount = 0
  /\ mmrLeaf = [h \in Heights |-> None]
  /\ auxData = [b \in Block |-> None]
  /\ pc = "down"
  /\ blkid = None /\ anchor = None /\ nextPred = None
  /\ cursor = None /\ pending = <<>> /\ out = None
  /\ crashes = 0 /\ lost = 0 /\ outages = 0 /\ prunes = 0

-----------------------------------------------------------------------------
\* bitcoind switches to a tip with more work.  A subscriber is notified unless
\* the publisher drops the message or its receipt fails.
L1Advance(t) ==
  /\ Work[t] > Work[l1tip]
  /\ l1tip' = t
  /\ \/ zmq' = (IF watcher = "off" THEN zmq ELSE Append(zmq, t)) /\ UNCHANGED lost
     \/ watcher # "off" /\ lost < MaxLost /\ lost' = lost + 1 /\ UNCHANGED zmq
  /\ UNCHANGED <<watcher, dbVars, pc, memVars, crashes, outages, prunes>>

-----------------------------------------------------------------------------
(* Startup: AsmWorkerServiceState::new, one step per store it may write.   *)

\* validate_anchor_against_l1: the block at the anchor's height on L1's active
\* chain is the anchor (its other fields follow from the block).
AnchorOnL1 == Descends[l1tip]

\* Mutant: a pruned genesis anchor is not written back.
BootWithoutGenesis ==
  /\ pc = "down"
  /\ pc' = IF AnchorOnL1 THEN "seed" ELSE "failed"
  /\ UNCHANGED <<l1Vars, dbVars, memVars, boundVars>>

\* The configured anchor must be on L1's active chain and agree with the stored
\* one.  A genesis anchor pruned away below a later one is written back.
Boot ==
  /\ pc = "down"
  /\ IF AnchorOnL1 /\ anchors[Genesis] \in {None, GenesisState}
     THEN /\ pc' = "seed"
          /\ anchors' = IF \E b \in Block : Anchored(b)
                        THEN [anchors EXCEPT ![Genesis] = GenesisState]
                        ELSE anchors
     ELSE pc' = "failed" /\ UNCHANGED anchors
  /\ UNCHANGED <<l1Vars, manifests, mmrCount, mmrLeaf, auxData, memVars, boundVars>>

\* Mutant: seeded one entry short of the genesis accumulator.
SeedMmrShort ==
  /\ pc = "seed"
  /\ mmrCount' = IF mmrCount = 0 THEN GenesisHeight ELSE mmrCount
  /\ pc' = "load"
  /\ UNCHANGED <<l1Vars, anchors, manifests, mmrLeaf, auxData, memVars, boundVars>>

\* An empty manifest MMR is seeded with the genesis accumulator's entries.
SeedMmr ==
  /\ pc = "seed"
  /\ mmrCount' = IF mmrCount = 0 THEN GenesisHeight + 1 ELSE mmrCount
  /\ pc' = IF mmrCount = 0 \/ mmrCount >= GenesisHeight + 1 THEN "load" ELSE "failed"
  /\ UNCHANGED <<l1Vars, anchors, manifests, mmrLeaf, auxData, memVars, boundVars>>

\* Resume from the latest anchor, or store the genesis one, and recover the
\* predicate of the next block.
LoadAnchor ==
  /\ pc = "load"
  /\ \E b \in Block :
       LET empty == \A c \in Block : ~Anchored(c)
           st == IF empty THEN GenesisState ELSE anchors[b]
       IN /\ IF empty THEN b = Genesis ELSE IsLatest(b)
          /\ anchors' = [anchors EXCEPT ![b] = st]
          /\ IF Recoverable(st)
             THEN /\ pc' = "idle"
                  /\ blkid' = b
                  /\ anchor' = st
                  /\ nextPred' = Recovered(st)
             ELSE pc' = "failed" /\ UNCHANGED <<blkid, anchor, nextPred>>
  /\ UNCHANGED <<l1Vars, manifests, mmrCount, mmrLeaf, auxData, cursor, pending, out, boundVars>>

-----------------------------------------------------------------------------
(* The block watcher: drive_asm_from_bitcoin.  It awaits the outcome of    *)
(* each submission before it makes the next one.                           *)

\* process_input / head of sync_to_block: a block below genesis is ignored.
Submit(t) ==
  IF Height[t] < GenesisHeight
  THEN UNCHANGED <<pc, cursor, pending>>
  ELSE pc' = "plan" /\ cursor' = t /\ pending' = <<>>

Subscribe ==
  /\ watcher = "off"
  /\ pc = "idle"
  /\ watcher' = "subscribed"
  /\ UNCHANGED <<l1tip, zmq, dbVars, pc, memVars, boundVars>>

\* Mutant: the watcher relies on notifications alone.
CatchUpSkipped ==
  /\ watcher = "subscribed"
  /\ pc = "idle"
  /\ watcher' = "live"
  /\ UNCHANGED <<l1tip, zmq, dbVars, pc, memVars, boundVars>>

\* The current tip is submitted once, after subscribing.
CatchUp ==
  /\ watcher = "subscribed"
  /\ pc = "idle"
  /\ watcher' = "live"
  /\ Submit(l1tip)
  /\ UNCHANGED <<l1tip, zmq, dbVars, blkid, anchor, nextPred, out, boundVars>>

\* Fetching the tip failed after all retries: only logged.
CatchUpFails ==
  /\ watcher = "subscribed"
  /\ lost < MaxLost
  /\ watcher' = "live"
  /\ lost' = lost + 1
  /\ UNCHANGED <<l1tip, zmq, dbVars, pc, memVars, crashes, outages, prunes>>

Deliver ==
  /\ watcher = "live"
  /\ pc = "idle"
  /\ zmq # <<>>
  /\ zmq' = Tail(zmq)
  /\ Submit(Head(zmq))
  /\ UNCHANGED <<l1tip, watcher, dbVars, blkid, anchor, nextPred, out, boundVars>>

-----------------------------------------------------------------------------
(* sync_to_block: the backward walk of plan_sync, then the forward pass.   *)

\* No base at the cursor and the cursor is above the floor: go to its parent.
PlanStep ==
  /\ pc = "plan"
  /\ ~Anchored(cursor)
  /\ IF Above(cursor)
     THEN /\ pending' = Append(pending, cursor)
          /\ cursor' = Parent[cursor]
          /\ UNCHANGED pc
     ELSE pc' = "failed" /\ UNCHANGED <<pending, cursor>>
  /\ UNCHANGED <<l1Vars, dbVars, blkid, anchor, nextPred, out, boundVars>>

\* The cursor is the base and there is nothing above it: the submission is
\* taken for a duplicate and the tip stays where it is.
PlanEmpty ==
  /\ pc = "plan"
  /\ Anchored(cursor)
  /\ pending = <<>>
  /\ pc' = "idle"
  /\ cursor' = None
  /\ UNCHANGED <<l1Vars, dbVars, blkid, anchor, nextPred, pending, out, boundVars>>

\* restore_anchor: re-anchor at the base; when that is not the current tip the
\* predicate is recovered from the base's own manifest.
RestoreAnchor ==
  /\ pc = "plan"
  /\ Anchored(cursor)
  /\ pending # <<>>
  /\ IF cursor = blkid \/ Recoverable(anchors[cursor])
     THEN /\ nextPred' = IF cursor = blkid THEN nextPred ELSE Recovered(anchors[cursor])
          /\ anchor' = anchors[cursor]
          /\ blkid' = cursor
          /\ pc' = "transition"
     ELSE pc' = "failed" /\ UNCHANGED <<nextPred, anchor, blkid>>
  /\ cursor' = None
  /\ UNCHANGED <<l1Vars, dbVars, pending, out, boundVars>>

\* The block being applied: the oldest one pending.
Current == pending[Len(pending)]

\* Mutant: everything in the MMR is handed over, not just what was requested.
ResolvedAuxAll == mmrLeaf

\* The manifest hashes read from the MMR for the current block.
ResolvedAux == [h \in AuxReq[Current] |-> mmrLeaf[h]]

\* Mutant: the proofs of the resolved hashes are not verified.
TransitionUnverified ==
  /\ CanExecute(anchor, nextPred)
  /\ Parent[Current] = anchor.block

\* Mutant: `prepare` accepts whatever spec produced the source state.
TransitionAnySource ==
  /\ Resolves(nextPred)
  /\ Parent[Current] = anchor.block
  /\ \A h \in AuxReq[Current] : ProofVerifies(anchor, h)

\* AsmWorkerServiceState::transition: resolve the authorised spec, resolve the
\* aux requests at the accumulator's entry count, run the STF.  It fails on an
\* unregistered predicate, a source state `prepare` refuses, a proof that does
\* not verify against the accumulator, or a block that is not the anchor's child.
TransitionSucceeds ==
  /\ CanExecute(anchor, nextPred)
  /\ Parent[Current] = anchor.block
  /\ \A h \in AuxReq[Current] : ProofVerifies(anchor, h)

Transition ==
  /\ pc = "transition"
  /\ IF TransitionSucceeds
     THEN LET s == Resolve(nextPred)
              m == StfManifest(Current, s, ResolvedAux)
          IN /\ out' = [state |-> StfState(Current, s, anchor, m),
                        manifest |-> m, aux |-> ResolvedAux]
             /\ pc' = "put_manifest"
     ELSE pc' = "failed" /\ UNCHANGED out
  /\ UNCHANGED <<l1Vars, dbVars, blkid, anchor, nextPred, cursor, pending, boundVars>>

(* apply_block's writes, in its order; a kill may fall between any two.    *)

PutManifest ==
  /\ pc = "put_manifest"
  /\ manifests' = [manifests EXCEPT ![out.manifest.block] = out.manifest]
  /\ pc' = "put_leaf"
  /\ UNCHANGED <<l1Vars, anchors, mmrCount, mmrLeaf, auxData, memVars, boundVars>>

\* put_leaf appends at the end or overwrites in place; a gap is rejected.
PutManifestHash ==
  /\ pc = "put_leaf"
  /\ LET h == Height[out.manifest.block] IN
     IF h <= mmrCount
     THEN /\ mmrLeaf' = [mmrLeaf EXCEPT ![h] = out.manifest]
          /\ mmrCount' = IF h = mmrCount THEN mmrCount + 1 ELSE mmrCount
          /\ pc' = "store_aux"
     ELSE pc' = "failed" /\ UNCHANGED <<mmrLeaf, mmrCount>>
  /\ UNCHANGED <<l1Vars, anchors, manifests, auxData, memVars, boundVars>>

\* Mutant: keyed by the tip, which is still the parent at this point.
StoreAuxAtTip ==
  /\ pc = "store_aux"
  /\ auxData' = [auxData EXCEPT ![blkid] = out.aux]
  /\ pc' = "store_anchor"
  /\ UNCHANGED <<l1Vars, anchors, manifests, mmrCount, mmrLeaf, memVars, boundVars>>

StoreAux ==
  /\ pc = "store_aux"
  /\ auxData' = [auxData EXCEPT ![Current] = out.aux]
  /\ pc' = "store_anchor"
  /\ UNCHANGED <<l1Vars, anchors, manifests, mmrCount, mmrLeaf, memVars, boundVars>>

\* The commit point, followed by accept_output and the subscribers' wake-up
\* (AsmLedger's Commit step); then the next pending block or the next input.
StoreAnchor ==
  /\ pc = "store_anchor"
  /\ anchors' = [anchors EXCEPT ![out.state.block] = out.state]
  /\ nextPred' = IF out.manifest.up # None THEN out.manifest.up ELSE nextPred
  /\ anchor' = out.state
  /\ blkid' = Current
  /\ out' = None
  /\ pending' = SubSeq(pending, 1, Len(pending) - 1)
  /\ pc' = IF Len(pending) = 1 THEN "idle" ELSE "transition"
  /\ UNCHANGED <<l1Vars, manifests, mmrCount, mmrLeaf, auxData, cursor, boundVars>>

-----------------------------------------------------------------------------
\* Where the worker reads bitcoind: the anchor's header at startup, the height
\* of a submitted block, the parents of the walk, and the block to apply with
\* the transactions it asks for.
ReadsL1 ==
  \/ pc \in {"down", "transition"}
  \/ pc = "plan" /\ (pending = <<>> \/ (~Anchored(cursor) /\ Above(cursor)))

\* bitcoind stays unreachable for longer than the client's retries: the launch
\* or the sync returns the error.
ReadFails ==
  /\ ReadsL1
  /\ outages < MaxOutages
  /\ outages' = outages + 1
  /\ pc' = "failed"
  /\ UNCHANGED <<l1Vars, dbVars, memVars, crashes, lost, prunes>>

\* The process ends; only the database survives.
Stop ==
  /\ pc' = "down"
  /\ watcher' = "off"
  /\ zmq' = <<>>
  /\ blkid' = None /\ anchor' = None /\ nextPred' = None
  /\ cursor' = None /\ pending' = <<>> /\ out' = None
  /\ UNCHANGED <<l1tip, dbVars, lost, outages, prunes>>

\* A sync error is a critical task failure: the runner shuts down.
Exit == pc = "failed" /\ Stop /\ UNCHANGED crashes

Crash == pc \notin {"down", "failed"} /\ crashes < MaxCrashes /\ Stop /\ crashes' = crashes + 1

\* Offline, the operator prunes anchor states below or above a height.
Prune(h) ==
  /\ pc = "down"
  /\ prunes < MaxPrunes
  /\ \/ anchors' = [b \in Block |-> IF Height[b] < h THEN None ELSE anchors[b]]
     \/ anchors' = [b \in Block |-> IF Height[b] > h THEN None ELSE anchors[b]]
  /\ prunes' = prunes + 1
  /\ UNCHANGED <<l1Vars, manifests, mmrCount, mmrLeaf, auxData, pc, memVars, crashes, lost, outages>>

-----------------------------------------------------------------------------
WorkerStep ==
  \/ SeedMmr \/ LoadAnchor
  \/ PlanStep \/ PlanEmpty \/ RestoreAnchor
  \/ Transition \/ PutManifest \/ PutManifestHash \/ StoreAux \/ StoreAnchor

WatcherStep == Subscribe \/ CatchUp \/ Deliver

Next ==
  \/ \E t \in Block : L1Advance(t)
  \/ Boot \/ WorkerStep
  \/ WatcherStep \/ CatchUpFails \/ ReadFails
  \/ Exit \/ Crash
  \/ \E h \in PruneHeights : Prune(h)

Spec == Init /\ [][Next]_vars

\* The worker thread and the watcher task keep running, and a supervisor starts
\* the process again after it stopped.
FairSpec ==
  /\ Spec
  /\ WF_vars(WorkerStep)
  /\ WF_vars(WatcherStep)
  /\ WF_vars(Boot)
  /\ WF_vars(Exit)
-----------------------------------------------------------------------------
Running == pc \notin {"down", "seed", "load", "failed"}

TypeInv ==
  /\ l1tip \in Block
  /\ watcher \in {"off", "subscribed", "live"}
  /\ zmq \in Seq(Block)
  /\ anchors \in [Block -> AnchorState \cup {None}]
  /\ manifests \in [Block -> Manifest \cup {None}]
  /\ mmrCount \in Nat
  /\ mmrLeaf \in History
  /\ DOMAIN auxData = Block
  /\ \A b \in Block : auxData[b] \in [AuxReq[b] -> Manifest] \cup {None}
  /\ pc \in Stage
  /\ blkid \in Block \cup {None}
  /\ anchor \in AnchorState \cup {None}
  /\ nextPred \in Pred \cup {None}
  /\ cursor \in Block \cup {None}
  /\ pending \in Seq(Block)
  /\ out # None => pending # <<>> /\ out \in Output(Current)
  /\ crashes \in Nat /\ lost \in Nat /\ outages \in Nat /\ prunes \in Nat

\* Every anchor state ever committed is the result of executing the block's own
\* ancestry under the predicates that ancestry authorised, whatever reorgs,
\* kills, prunes and stale MMR leaves preceded it (apply_block, restore_anchor).
AnchorsCanonical == \A b \in Block : Anchored(b) => anchors[b] = CanonState[b]

\* A committed block has its manifest and its prover aux data stored, and the
\* aux data holds only manifests of the block's own ancestors: the anchor is
\* written last, so a kill never leaves a commit without them (apply_block).
CommitComplete ==
  \A b \in Block : Anchored(b) /\ Above(b) =>
    manifests[b] = CanonManifest(b) /\ auxData[b] = CanonAux(b)

\* The in-memory tip is a committed block, and the next block will be executed
\* by the spec that the tip's ancestry authorised, also after a restart or a
\* reorg re-derived it from a single manifest (recover_predicate).
TipAuthorised ==
  Running => /\ blkid \in Block
             /\ Anchored(blkid)
             /\ anchor = CanonState[blkid]
             /\ nextPred = Auth[blkid]

\* put_leaf is never asked to leave a gap: the manifest MMR reaches the parent
\* of every block the worker applies, on any branch and after any kill.
NoMmrGap == pc = "put_leaf" => Height[out.manifest.block] <= mmrCount

\* The worker stops for four reasons only: a read of bitcoind failed, L1 left
\* the configured genesis, the authorised spec cannot execute the next block, or
\* the MMR holds a leaf of another branch below the tip.  In particular no kill
\* or prune makes startup, predicate recovery or an MMR write fail.
FailuresExplained ==
  [][pc # "failed" /\ pc' = "failed" =>
       \/ outages' > outages
       \/ pc = "down" /\ ~Descends[l1tip]
       \/ pc = "plan" /\ ~Descends[cursor]
       \/ pc = "transition" /\
            \/ ~CanExecute(CanonState[blkid], Auth[blkid])
            \/ \E h \in Heights : h <= Height[blkid] /\ mmrLeaf[h] # anchor.hist[h]]_vars

\* Once L1 stops moving the worker commits L1's tip, through kills, outages of
\* bitcoind, restarts and reorgs, provided no notification is lost (drive_asm_from_bitcoin).
CatchesUp == <>[]Anchored(l1tip)

\* When a leaf is written for a block, every lower leaf belongs to the block's
\* own chain: a superseded leaf never outlives its chain.
StaleLeafOverwritten ==
  pc = "store_aux" =>
    \A h \in Heights : h <= Height[out.state.block] => mmrLeaf[h] = out.state.hist[h]

\* A submission with an empty plan is a duplicate or lagging notification: when
\* it names L1's current tip, the worker's own tip is on that block's chain.
IgnoredTipIsNoReorg ==
  pc = "plan" /\ pending = <<>> /\ Anchored(cursor) /\ cursor = l1tip /\ Above(cursor) =>
    anchor.hist[Height[cursor]] # None /\ anchor.hist[Height[cursor]].block = cursor
==============================================================================
