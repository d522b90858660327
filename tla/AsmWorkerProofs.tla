--------------------------- MODULE AsmWorkerProofs ---------------------------
(***************************************************************************)
(* Proofs about AsmWorker, for every block tree, registry and bound.       *)
(*                                                                         *)
(* AnchorsCanonical is not inductive: that the next anchor is canonical    *)
(* depends on what the worker holds in memory, which after a restart or a  *)
(* reorg depends on the stored manifests, which depend on the order of the *)
(* writes of earlier blocks.  IInv closes that circle.  From it follow     *)
(* that the worker implements AsmLedger, that it fails only for the        *)
(* reasons FailuresExplained names, and that what the RPC serves is        *)
(* canonical.                                                              *)
(***************************************************************************)
EXTENDS AsmWorkerLedger, AsmRpc, TLAPS

Persisting == pc \in {"put_manifest", "put_leaf", "store_aux", "store_anchor"}

Forward == pc = "transition" \/ Persisting

\* Stored anchors are genesis or descend from an executable parent, and the
\* manifest MMR reaches past every one of them.
StoreInv ==
  /\ \A b \in Block : Anchored(b) =>
       /\ b = Genesis \/ Above(b)
       /\ Height[b] < mmrCount
       /\ Above(b) => /\ CanExecute(CanonState[Parent[b]], Auth[Parent[b]])
                      /\ manifests[b] # None
  /\ mmrCount # 0 => mmrCount > GenesisHeight
  /\ pc = "load" \/ Running => mmrCount > GenesisHeight
  /\ Running => Anchored(Genesis)
  /\ pc \in {"seed", "load"} /\ (\E b \in Block : Anchored(b)) => Anchored(Genesis)

\* The pending blocks are a chain, newest first, that hangs off the cursor
\* during the walk and off the tip during the forward pass.
PlanInv ==
  /\ \A i \in 1..Len(pending) : Above(pending[i]) /\ ~Anchored(pending[i])
  /\ \A i, j \in 1..Len(pending) : i < j => Height[pending[j]] < Height[pending[i]]
  /\ \A i \in 1..Len(pending) : i < Len(pending) => Parent[pending[i]] = pending[i + 1]
  /\ pc = "plan" => /\ cursor \in Block
                    /\ Height[cursor] >= GenesisHeight
                    /\ pending # <<>> => Parent[Current] = cursor
  /\ Forward => pending # <<>> /\ Parent[Current] = blkid
  /\ ~Forward /\ pc \notin {"plan", "failed"} => pending = <<>>

\* What is being persisted is canonical, and each write done is in the store.
OutInv ==
  /\ ~Persisting /\ pc # "failed" => out = None
  /\ Persisting =>
       /\ CanExecute(CanonState[blkid], Auth[blkid])
       /\ out # None
       /\ out.state = CanonState[Current]
       /\ out.manifest = CanonManifest(Current)
       /\ out.aux = CanonAux(Current)
       /\ pc # "put_manifest" => manifests[Current] = CanonManifest(Current)
       /\ pc \in {"store_aux", "store_anchor"} => Height[Current] < mmrCount
       /\ pc = "store_anchor" => auxData[Current] = CanonAux(Current)

IInv ==
  /\ TypeInv
  /\ AnchorsCanonical
  /\ CommitComplete
  /\ StoreInv
  /\ TipAuthorised
  /\ PlanInv
  /\ OutInv

-----------------------------------------------------------------------------
(* Facts about the reference execution.                                    *)

\* The spec resolved for a registered predicate is registered under it.
LEMMA ResolveFact ==
  ASSUME NEW p, Resolves(p)
  PROVE  Resolve(p) \in Registered /\ PredOf[Resolve(p)] = p
BY Zenon DEF Resolves, Resolve

\* The canonical state and manifest of an executable block name the block, the
\* spec its parent authorised and the block's own upgrade.
LEMMA CanonFacts ==
  ASSUME NEW b \in Block, Above(b), CanExecute(CanonState[Parent[b]], Auth[Parent[b]])
  PROVE  /\ CanonState[b].block = b
         /\ CanonState[b].spec \in Registered
         /\ PredOf[CanonState[b].spec] = Auth[Parent[b]]
         /\ CanonManifest(b).block = b
         /\ CanonManifest(b).up = Upgrade[b]
<1>1. CanonState[b] = StfState(b, Resolve(Auth[Parent[b]]), CanonState[Parent[b]],
                               CanonManifest(b))
  BY FoldAssumption, Zenon
<1>2. Resolve(Auth[Parent[b]]) \in Registered /\ PredOf[Resolve(Auth[Parent[b]])] = Auth[Parent[b]]
  BY ResolveFact, Zenon DEF CanExecute
<1> QED
  BY <1>1, <1>2 DEF StfState, CanonManifest, StfManifest

\* An anchored block's predicate is recoverable from its own manifest, and is
\* the one its ancestry authorised.
LEMMA RecoverFact ==
  ASSUME AnchorsCanonical, CommitComplete, StoreInv, NEW b \in Block, Anchored(b)
  PROVE  /\ anchors[b].block = b
         /\ Recoverable(anchors[b])
         /\ Recovered(anchors[b]) = Auth[b]
<1>1. CASE b = Genesis
  BY <1>1, FoldAssumption DEF AnchorsCanonical, GenesisState, Recoverable, Recovered
<1>2. CASE b # Genesis
  <2>1. Above(b) /\ CanExecute(CanonState[Parent[b]], Auth[Parent[b]]) /\ manifests[b] # None
    BY <1>2, Zenon DEF StoreInv
  <2>2. anchors[b] = CanonState[b] /\ manifests[b] = CanonManifest(b)
    BY <2>1, Zenon DEF AnchorsCanonical, CommitComplete
  <2>3. /\ CanonState[b].block = b
        /\ CanonState[b].spec \in Registered
        /\ PredOf[CanonState[b].spec] = Auth[Parent[b]]
        /\ CanonManifest(b).block = b
        /\ CanonManifest(b).up = Upgrade[b]
    BY <2>1, CanonFacts, Zenon
  <2>4. Auth[b] = IF Upgrade[b] # None THEN Upgrade[b] ELSE Auth[Parent[b]]
    BY <2>1, FoldAssumption, Zenon
  <2> QED
    BY <1>2, <2>1, <2>2, <2>3, <2>4, Zenon DEF Recoverable, Recovered
<1> QED
  BY <1>1, <1>2, Zenon

-----------------------------------------------------------------------------
\* It holds before the first start: every store is empty.
LEMMA InitInv == Init => IInv
<1> SUFFICES ASSUME Init PROVE IInv
  BY Zenon
<1> USE DEF Init
<1>1. TypeInv
  BY TreeAssumption DEF TypeInv, Stage, History
<1>2. AnchorsCanonical /\ CommitComplete /\ TipAuthorised
  BY Zenon DEF AnchorsCanonical, CommitComplete, TipAuthorised, Anchored, Running
<1>3. StoreInv
  BY TreeAssumption, Zenon DEF StoreInv, Anchored, Running
<1>4. PlanInv /\ OutInv
  BY DEF PlanInv, OutInv, Forward, Persisting
<1> QED
  BY <1>1, <1>2, <1>3, <1>4, Zenon DEF IInv

\* A step that leaves the stores, the stage and the worker's memory alone
\* preserves everything but possibly the types of the rest.
LEMMA FrameInv ==
  ASSUME IInv, TypeInv', UNCHANGED <<dbVars, pc, memVars>>
  PROVE  IInv'
<1> USE DEF IInv, dbVars, memVars
<1>1. AnchorsCanonical' /\ CommitComplete' /\ TipAuthorised'
  BY Zenon DEF AnchorsCanonical, CommitComplete, TipAuthorised, Anchored, Running
<1>2. StoreInv'
  BY Zenon DEF StoreInv, Anchored, Running
<1>3. PlanInv' /\ OutInv'
  BY Zenon DEF PlanInv, OutInv, Forward, Persisting, Current, Anchored
<1> QED
  BY <1>1, <1>2, <1>3, Zenon

\* L1, the subscription and a failed catch-up touch neither stores nor worker.
LEMMA EnvInv ==
  ASSUME IInv,
         (\E t \in Block : L1Advance(t)) \/ Subscribe \/ CatchUpFails
  PROVE  IInv'
<1>1. ASSUME NEW t \in Block, L1Advance(t) PROVE IInv'
  <2>1. zmq' \in Seq(Block) /\ lost' \in Nat
    <3>1. zmq' = zmq \/ zmq' = Append(zmq, t)
      BY <1>1, Zenon DEF L1Advance
    <3>2. lost' = lost \/ lost' = lost + 1
      BY <1>1, Zenon DEF L1Advance
    <3>3. zmq \in Seq(Block) /\ lost \in Nat
      BY Zenon DEF IInv, TypeInv
    <3>4. Append(zmq, t) \in Seq(Block)
      BY <1>1, <3>3
    <3> QED
      BY <3>1, <3>2, <3>3, <3>4
  <2>2. l1tip' \in Block /\ UNCHANGED <<watcher, dbVars, pc, memVars, crashes, outages, prunes>>
    BY <1>1, Zenon DEF L1Advance
  <2>3. TypeInv'
    BY <2>1, <2>2, Zenon DEF IInv, TypeInv, dbVars, memVars, Current
  <2> QED
    BY <2>2, <2>3, FrameInv, Zenon
<1>2. CASE Subscribe
  <2>1. TypeInv'
    BY <1>2, Zenon DEF IInv, TypeInv, Subscribe, dbVars, memVars, boundVars, Current
  <2> QED
    BY <1>2, <2>1, FrameInv, Zenon DEF Subscribe
<1>3. CASE CatchUpFails
  <2>1. TypeInv'
    BY <1>3 DEF IInv, TypeInv, CatchUpFails, dbVars, memVars, Current
  <2> QED
    BY <1>3, <2>1, FrameInv, Zenon DEF CatchUpFails
<1> QED
  BY <1>1, <1>2, <1>3, Zenon

\* Validation against L1 may write back the genesis anchor, and nothing else.
LEMMA BootInv == ASSUME IInv, Boot PROVE IInv'
<1> USE DEF IInv, Boot, l1Vars, memVars, boundVars
<1>1. anchors' = [anchors EXCEPT ![Genesis] = GenesisState] \/ anchors' = anchors
  BY Zenon
<1>2. pc = "down" /\ pc' \in {"seed", "failed"}
  BY Zenon
<1>3. GenesisState \in AnchorState /\ GenesisState # None /\ GenesisState = CanonState[Genesis]
  BY TreeAssumption, FoldAssumption, LogAssumption
<1>4. TypeInv'
  BY <1>1, <1>2, <1>3, TreeAssumption, Zenon DEF TypeInv, Stage, Current
<1>5. \A b \in Block : Anchored(b)' => Anchored(b) \/ b = Genesis
  BY <1>1, TreeAssumption, Zenon DEF Anchored, TypeInv
<1>6. ~Above(Genesis)
  BY TreeAssumption DEF Above, GenesisHeight
<1>7. AnchorsCanonical'
  BY <1>1, <1>3, TreeAssumption, SMTT(60) DEF AnchorsCanonical, TypeInv, Anchored
<1>10. CommitComplete'
  BY <1>5, <1>6, Zenon DEF CommitComplete, CanonManifest, CanonAux
<1>8. StoreInv'
  BY <1>1, <1>2, <1>3, <1>5, <1>6, TreeAssumption
     DEF StoreInv, Anchored, Running, GenesisHeight, TypeInv
<1>9. TipAuthorised' /\ PlanInv' /\ OutInv'
  BY <1>2 DEF TipAuthorised, PlanInv, OutInv, Forward, Persisting, Running
<1> QED
  BY <1>4, <1>7, <1>8, <1>9, <1>10, Zenon

\* Seeding moves an empty MMR past the genesis height and never shrinks it.
LEMMA SeedInv == ASSUME IInv, SeedMmr PROVE IInv'
<1> USE DEF IInv, SeedMmr, l1Vars, memVars, boundVars
<1>1. pc = "seed" /\ pc' \in {"load", "failed"}
  BY Zenon
<1>2. /\ mmrCount' \in Nat /\ mmrCount' >= mmrCount /\ mmrCount' > GenesisHeight
  BY TreeAssumption, SMTT(60) DEF StoreInv, TypeInv, GenesisHeight
<1>3. TypeInv'
  BY <1>1, <1>2, Zenon DEF TypeInv, Stage, Current
<1>4. AnchorsCanonical' /\ CommitComplete'
  BY Zenon DEF AnchorsCanonical, CommitComplete, Anchored
<1>5. StoreInv'
  <2>1. \A b \in Block : Anchored(b)' => Height[b] < mmrCount'
    BY <1>2, TreeAssumption DEF StoreInv, TypeInv, Anchored
  <2> QED
    BY <1>1, <1>2, <2>1, Zenon DEF StoreInv, Anchored, Running
<1>6. TipAuthorised' /\ PlanInv' /\ OutInv'
  BY <1>1 DEF TipAuthorised, PlanInv, OutInv, Forward, Persisting, Running
<1> QED
  BY <1>3, <1>4, <1>5, <1>6, Zenon

\* Whichever latest anchor is resumed from, its authorised predicate is
\* recovered from its manifest alone.
LEMMA LoadInv == ASSUME IInv, LoadAnchor PROVE IInv'
<1> USE DEF IInv, l1Vars, boundVars
<1> DEFINE empty == \A c \in Block : ~Anchored(c)
           st(b) == IF empty THEN GenesisState ELSE anchors[b]
<1>1. PICK b \in Block :
        /\ IF empty THEN b = Genesis ELSE IsLatest(b)
        /\ anchors' = [anchors EXCEPT ![b] = st(b)]
        /\ IF Recoverable(st(b))
           THEN pc' = "idle" /\ blkid' = b /\ anchor' = st(b) /\ nextPred' = Recovered(st(b))
           ELSE pc' = "failed" /\ UNCHANGED <<blkid, anchor, nextPred>>
  BY Zenon DEF LoadAnchor
<1>2. /\ pc = "load"
      /\ UNCHANGED <<l1Vars, manifests, mmrCount, mmrLeaf, auxData, cursor, pending, out, boundVars>>
  BY Zenon DEF LoadAnchor
<1>3. GenesisState \in AnchorState /\ GenesisState # None /\ GenesisState = CanonState[Genesis]
  BY TreeAssumption, FoldAssumption, LogAssumption
<1>4. st(b) = CanonState[b] /\ st(b) \in AnchorState /\ st(b) # None
  BY <1>1, <1>3, LogAssumption, FoldAssumption DEF AnchorsCanonical, IsLatest, Anchored
<1>5. Recoverable(st(b)) /\ Recovered(st(b)) = Auth[b]
  <2>1. CASE empty
    BY <1>1, <2>1, FoldAssumption, Zenon DEF Recoverable, Recovered, GenesisState
  <2>2. CASE ~empty
    <3>1. Anchored(b)
      BY <1>1, <2>2, Zenon DEF IsLatest
    <3> QED
      BY <2>2, <3>1, RecoverFact, Zenon
  <2> QED
    BY <2>1, <2>2, Zenon
<1>6. pc' = "idle" /\ blkid' = b /\ anchor' = CanonState[b] /\ nextPred' = Auth[b]
  BY <1>1, <1>4, <1>5
<1>7. TypeInv'
  <2>1. anchors' \in [Block -> AnchorState \cup {None}]
    BY <1>1, <1>4, Zenon DEF TypeInv
  <2>2. anchor' \in AnchorState /\ nextPred' \in Pred
    BY <1>4, <1>6, FoldAssumption, Zenon
  <2> QED
    BY <1>2, <1>6, <2>1, <2>2, Zenon DEF TypeInv, Stage, Current
<1>8. AnchorsCanonical'
  BY <1>1, <1>4, Zenon DEF AnchorsCanonical, Anchored, TypeInv
<1>9. \A c \in Block : Anchored(c)' => Anchored(c) \/ c = Genesis
  BY <1>1, Zenon DEF Anchored, TypeInv, IsLatest
<1>10. ~Above(Genesis)
  BY TreeAssumption DEF Above, GenesisHeight
<1>11. CommitComplete'
  BY <1>2, <1>9, <1>10, Zenon DEF CommitComplete, CanonManifest, CanonAux
<1>12. Anchored(Genesis)' /\ Anchored(b)'
  <2>1. Anchored(b)'
    BY <1>1, <1>4, Zenon DEF Anchored, TypeInv
  <2>2. CASE empty
    BY <1>1, <2>1, <2>2, Zenon
  <2>3. CASE ~empty
    <3>1. Anchored(Genesis)
      BY <1>2, <2>3, Zenon DEF StoreInv
    <3> QED
      BY <1>1, <1>4, <3>1, TreeAssumption, Zenon DEF Anchored, TypeInv
  <2> QED
    BY <2>1, <2>2, <2>3, Zenon
<1>13. StoreInv'
  BY <1>2, <1>6, <1>9, <1>10, <1>12, TreeAssumption, Zenon
     DEF StoreInv, Running, GenesisHeight, Above
<1>14. TipAuthorised'
  BY <1>6, <1>12, Zenon DEF TipAuthorised
<1>15. pending = <<>> /\ pending' = <<>>
  BY <1>2, Zenon DEF PlanInv, Forward, Persisting
<1>16. PlanInv' /\ OutInv'
  BY <1>2, <1>6, <1>15 DEF PlanInv, OutInv, Forward, Persisting
<1> QED
  BY <1>7, <1>8, <1>11, <1>13, <1>14, <1>16, Zenon

\* A submission only starts the walk at the submitted block.
LEMMA SubmitInv ==
  ASSUME IInv, pc = "idle", NEW t \in Block, Submit(t),
         watcher' \in {"off", "subscribed", "live"}, zmq' \in Seq(Block),
         UNCHANGED <<l1tip, dbVars, blkid, anchor, nextPred, out, boundVars>>
  PROVE  IInv'
<1> USE DEF IInv, dbVars, boundVars
<1>1. pending = <<>> /\ out = None
  BY Zenon DEF PlanInv, OutInv, Forward, Persisting
<1>2. \/ pc' = pc /\ cursor' = cursor /\ pending' = <<>>
      \/ pc' = "plan" /\ cursor' = t /\ pending' = <<>> /\ Height[t] >= GenesisHeight
  BY <1>1, TreeAssumption DEF Submit, GenesisHeight
<1>3. TypeInv'
  BY <1>1, <1>2, Zenon DEF TypeInv, Stage
<1>4. AnchorsCanonical' /\ CommitComplete' /\ TipAuthorised'
  BY <1>2, Zenon DEF AnchorsCanonical, CommitComplete, TipAuthorised, Anchored, Running
<1>5. StoreInv'
  BY <1>2, Zenon DEF StoreInv, Anchored, Running
<1>6. PlanInv' /\ OutInv'
  BY <1>1, <1>2 DEF PlanInv, OutInv, Forward, Persisting
<1> QED
  BY <1>3, <1>4, <1>5, <1>6, Zenon

\* The watcher's two ways of submitting a block.
LEMMA WatcherInv == ASSUME IInv, CatchUp \/ Deliver PROVE IInv'
<1>1. CASE CatchUp
  <2>1. l1tip \in Block /\ zmq' \in Seq(Block)
    BY <1>1, Zenon DEF CatchUp, IInv, TypeInv
  <2> QED
    BY <1>1, <2>1, SubmitInv, Zenon DEF CatchUp
<1>2. CASE Deliver
  <2>1. zmq \in Seq(Block) /\ zmq # <<>>
    BY <1>2, Zenon DEF Deliver, IInv, TypeInv
  <2>2. Head(zmq) \in Block /\ Tail(zmq) \in Seq(Block)
    BY <2>1
  <2> QED
    BY <1>2, <2>2, SubmitInv, Zenon DEF Deliver, IInv, TypeInv
<1> QED
  BY <1>1, <1>2, Zenon

\* The backward walk extends the pending chain by the cursor's block.
LEMMA PlanStepInv == ASSUME IInv, PlanStep PROVE IInv'
<1> USE DEF IInv, l1Vars, dbVars, boundVars
<1>1. /\ pc = "plan" /\ ~Anchored(cursor) /\ cursor \in Block /\ out' = out
      /\ UNCHANGED <<l1Vars, dbVars, blkid, anchor, nextPred, out, boundVars>>
  BY Zenon DEF PlanStep, PlanInv
<1>2. pc' \in {"plan", "failed"}
  BY <1>1, Zenon DEF PlanStep
<1>3. AnchorsCanonical' /\ CommitComplete' /\ TipAuthorised' /\ OutInv'
  BY <1>1, <1>2, Zenon DEF AnchorsCanonical, CommitComplete, TipAuthorised, Anchored, Running, OutInv,
                    Persisting
<1>4. StoreInv'
  BY <1>1, <1>2, Zenon DEF StoreInv, Anchored, Running
<1>5. CASE ~Above(cursor)
  <2>1. pc' = "failed" /\ pending' = pending /\ cursor' = cursor
    BY <1>5, Zenon DEF PlanStep
  <2>2. TypeInv'
    BY <1>1, <2>1, Zenon DEF TypeInv, Stage, Current
  <2>3. PlanInv'
    BY <1>1, <2>1, Zenon DEF PlanInv, Anchored, Forward, Persisting
  <2> QED
    BY <1>3, <1>4, <2>2, <2>3, Zenon
<1>6. CASE Above(cursor)
  <2>1. pc' = "plan" /\ pending' = Append(pending, cursor) /\ cursor' = Parent[cursor]
    BY <1>1, <1>6, Zenon DEF PlanStep
  <2>2. pending \in Seq(Block)
    BY Zenon DEF TypeInv
  <2>3. /\ pending' \in Seq(Block)
        /\ Len(pending') = Len(pending) + 1
        /\ \A i \in 1..Len(pending) : pending'[i] = pending[i]
        /\ pending'[Len(pending) + 1] = cursor
    BY <1>1, <2>1, <2>2
  <2>4. /\ cursor' \in Block /\ Height[cursor'] = Height[cursor] - 1
        /\ Height[cursor] > GenesisHeight /\ Height[cursor] \in Nat /\ GenesisHeight \in Nat
    BY <1>1, <1>6, <2>1, TreeAssumption, Zenon DEF Above, GenesisHeight
  <2>5. out = None
    BY <1>1, Zenon DEF OutInv, Persisting
  <2>6. TypeInv'
    BY <1>1, <2>1, <2>3, <2>4, <2>5, Zenon DEF TypeInv
  <2>7. \A i \in 1..Len(pending) : Height[cursor] < Height[pending[i]]
    <3> SUFFICES ASSUME NEW i \in 1..Len(pending) PROVE Height[cursor] < Height[pending[i]]
      BY Zenon
    <3>1. pending # <<>> /\ Len(pending) \in 1..Len(pending)
      BY <2>2
    <3>2. pending[Len(pending)] \in Block /\ pending[i] \in Block
      BY <2>2, <3>1
    <3>3. Height[cursor] = Height[pending[Len(pending)]] - 1
      BY <1>1, <3>1, <3>2, TreeAssumption, Zenon DEF PlanInv, Current
    <3>4. i = Len(pending) \/ Height[pending[Len(pending)]] < Height[pending[i]]
      BY <3>1 DEF PlanInv
    <3> QED
      BY <3>2, <3>3, <3>4, <2>4, TreeAssumption, SMTT(60)
  <2>8. \A i \in 1..Len(pending') : Above(pending'[i]) /\ anchors'[pending'[i]] = None
    BY <1>1, <1>6, <2>2, <2>3 DEF PlanInv, Anchored
  <2>9. \A i, j \in 1..Len(pending') : i < j => Height[pending'[j]] < Height[pending'[i]]
    <3> SUFFICES ASSUME NEW i \in 1..Len(pending'), NEW j \in 1..Len(pending'), i < j
                 PROVE  Height[pending'[j]] < Height[pending'[i]]
      BY Zenon
    <3>1. /\ i \in 1..Len(pending)
          /\ j \in 1..Len(pending) \/ j = Len(pending) + 1
      BY <2>2, <2>3
    <3>2. CASE j \in 1..Len(pending)
      BY <2>3, <3>1, <3>2, Zenon DEF PlanInv
    <3>3. CASE j = Len(pending) + 1
      BY <2>3, <2>7, <3>1, <3>3, Zenon
    <3> QED
      BY <3>1, <3>2, <3>3, Zenon
  <2>10. \A i \in 1..Len(pending') : i < Len(pending') => Parent[pending'[i]] = pending'[i + 1]
    <3> SUFFICES ASSUME NEW i \in 1..Len(pending), i < Len(pending')
                 PROVE  Parent[pending'[i]] = pending'[i + 1]
      BY <2>2, <2>3, SMTT(60)
    <3>1. CASE i = Len(pending)
      BY <1>1, <2>2, <2>3, <3>1 DEF PlanInv, Current
    <3>2. CASE i < Len(pending)
      BY <2>2, <2>3, <3>2, SMTT(60) DEF PlanInv
    <3> QED
      BY <2>2, <3>1, <3>2
  <2>11. PlanInv'
    <3>1. Current' = cursor /\ pending' # <<>>
      BY <2>2, <2>3 DEF Current
    <3> QED
      BY <2>1, <2>4, <2>8, <2>9, <2>10, <3>1, SMTT(60) DEF PlanInv, Forward, Persisting, Anchored
  <2> QED
    BY <1>3, <1>4, <2>6, <2>11, Zenon
<1> QED
  BY <1>5, <1>6, Zenon

\* A submission that needs no block leaves the tip alone.
LEMMA PlanEmptyInv == ASSUME IInv, PlanEmpty PROVE IInv'
<1> USE DEF IInv, PlanEmpty, l1Vars, dbVars, boundVars
<1>1. out = None
  BY Zenon DEF OutInv, Persisting
<1>2. TypeInv'
  BY <1>1, Zenon DEF TypeInv, Stage
<1>3. AnchorsCanonical' /\ CommitComplete' /\ TipAuthorised' /\ OutInv'
  BY <1>1, Zenon DEF AnchorsCanonical, CommitComplete, TipAuthorised, Anchored, Running, OutInv, Persisting
<1>4. StoreInv'
  BY Zenon DEF StoreInv, Anchored, Running
<1>5. PlanInv'
  BY DEF PlanInv, Forward, Persisting
<1> QED
  BY <1>2, <1>3, <1>4, <1>5, Zenon

\* Re-anchoring at the base adopts a canonical state and its authorised
\* predicate, whether the base is the tip or another branch's block.
LEMMA RestoreInv == ASSUME IInv, RestoreAnchor PROVE IInv'
<1> USE DEF IInv, l1Vars, dbVars, boundVars
<1>1. /\ pc = "plan" /\ cursor \in Block /\ Anchored(cursor) /\ pending # <<>> /\ cursor' = None
      /\ UNCHANGED <<l1Vars, dbVars, pending, out, boundVars>>
  BY Zenon DEF RestoreAnchor, PlanInv
<1>2. /\ Recoverable(anchors[cursor])
      /\ Recovered(anchors[cursor]) = Auth[cursor]
      /\ anchors[cursor] = CanonState[cursor]
  BY <1>1, RecoverFact, Zenon DEF AnchorsCanonical
<1>3. pc' = "transition" /\ anchor' = CanonState[cursor] /\ blkid' = cursor
  BY <1>2, Zenon DEF RestoreAnchor
<1>4. nextPred' = Auth[cursor]
  BY <1>1, <1>2, Zenon DEF RestoreAnchor, TipAuthorised, Running
<1>5. out = None
  BY <1>1, Zenon DEF OutInv, Persisting
<1>6. TypeInv'
  BY <1>1, <1>3, <1>4, <1>5, FoldAssumption, Zenon DEF TypeInv, Stage
<1>7. AnchorsCanonical' /\ CommitComplete' /\ TipAuthorised'
  BY <1>1, <1>3, <1>4, Zenon DEF AnchorsCanonical, CommitComplete, TipAuthorised, Anchored
<1>8. StoreInv'
  BY <1>1, <1>3, Zenon DEF StoreInv, Anchored, Running
<1>9. OutInv'
  BY <1>1, <1>3, <1>5, Zenon DEF OutInv, Persisting
<1>10. PlanInv'
  BY <1>1, <1>3, Zenon DEF PlanInv, Forward, Persisting, Anchored, Current
<1> QED
  BY <1>6, <1>7, <1>8, <1>9, <1>10, Zenon

\* The oldest pending block is a block above genesis.
LEMMA CurrentFact ==
  ASSUME TypeInv, PlanInv, pending # <<>>
  PROVE  /\ Len(pending) \in Nat /\ Len(pending) >= 1
         /\ Current \in Block /\ Above(Current) /\ ~Anchored(Current)
<1>1. pending \in Seq(Block)
  BY Zenon DEF TypeInv
<1>2. Len(pending) \in Nat /\ Len(pending) >= 1
  BY <1>1
<1> QED
  BY <1>1, <1>2 DEF Current, PlanInv

\* A successful transition yields the canonical output of the current block:
\* the aux data it read verified against the parent's own accumulator.
LEMMA TransitionFact ==
  ASSUME IInv, pc = "transition", TransitionSucceeds
  PROVE  /\ CanExecute(CanonState[blkid], Auth[blkid])
         /\ ResolvedAux = CanonAux(Current)
         /\ ResolvedAux \in [AuxReq[Current] -> Manifest]
         /\ StfManifest(Current, Resolve(nextPred), ResolvedAux) = CanonManifest(Current)
         /\ CanonManifest(Current) \in Manifest
         /\ StfState(Current, Resolve(nextPred), anchor, CanonManifest(Current)) = CanonState[Current]
<1> USE DEF IInv
<1>1. pending # <<>> /\ Parent[Current] = blkid
  BY Zenon DEF PlanInv, Forward
<1>2. Current \in Block /\ Above(Current)
  BY <1>1, CurrentFact, Zenon
<1>3. blkid \in Block /\ anchor = CanonState[blkid] /\ nextPred = Auth[blkid]
  BY Zenon DEF TipAuthorised, Running
<1>4. CanExecute(CanonState[blkid], Auth[blkid])
  BY <1>3, Zenon DEF TransitionSucceeds
<1>5. \A h \in AuxReq[Current] : mmrLeaf[h] = anchor.hist[h] /\ mmrLeaf[h] # None /\ h \in Heights
  BY <1>2, LogAssumption, Zenon DEF TransitionSucceeds, ProofVerifies
<1>6. ResolvedAux = CanonAux(Current)
  BY <1>1, <1>3, <1>5, Zenon DEF ResolvedAux, CanonAux
<1>7. ResolvedAux \in [AuxReq[Current] -> Manifest]
  BY <1>5, Zenon DEF ResolvedAux, TypeInv, History
<1>8. StfManifest(Current, Resolve(nextPred), ResolvedAux) = CanonManifest(Current)
  BY <1>1, <1>3, <1>6, Zenon DEF CanonManifest
<1>9. StfManifest(Current, Resolve(nextPred), ResolvedAux) \in Manifest
  <2>1. Resolve(nextPred) \in SpecId
    BY <1>3, <1>4, ResolveFact, RegistryAssumption, Zenon DEF CanExecute
  <2>2. {ResolvedAux[h].block : h \in AuxReq[Current]} \in SUBSET Block
    BY <1>7, Zenon DEF Manifest
  <2>3. Upgrade[Current] \in Pred \cup {None}
    BY <1>2, LogAssumption, Zenon
  <2> QED
    BY <1>2, <2>1, <2>2, <2>3, Zenon DEF StfManifest, Manifest
<1>10. StfState(Current, Resolve(nextPred), anchor, CanonManifest(Current)) = CanonState[Current]
  BY <1>1, <1>2, <1>3, <1>4, FoldAssumption, Zenon
<1> QED
  BY <1>4, <1>6, <1>7, <1>8, <1>9, <1>10, Zenon

\* The STF step changes no store.
LEMMA TransitionInv == ASSUME IInv, Transition PROVE IInv'
<1> USE DEF IInv, l1Vars, dbVars, boundVars
<1>1. /\ pc = "transition"
      /\ UNCHANGED <<l1Vars, dbVars, blkid, anchor, nextPred, cursor, pending, boundVars>>
  BY Zenon DEF Transition
<1>2. pending # <<>> /\ Current \in Block
  BY <1>1, CurrentFact, Zenon DEF PlanInv, Forward
<1>3. pc' \in {"failed", "put_manifest"}
  BY Zenon DEF Transition
<1>4. AnchorsCanonical' /\ CommitComplete' /\ TipAuthorised'
  BY <1>1, <1>3, Zenon DEF AnchorsCanonical, CommitComplete, TipAuthorised, Anchored, Running
<1>5. StoreInv'
  BY <1>1, <1>3, Zenon DEF StoreInv, Anchored, Running
<1>6. PlanInv'
  BY <1>1, <1>3, Zenon DEF PlanInv, Forward, Persisting, Anchored, Current
<1>7. CASE ~TransitionSucceeds
  <2>1. pc' = "failed" /\ out' = out
    BY <1>7, Zenon DEF Transition
  <2>2. TypeInv' /\ OutInv'
    BY <1>1, <2>1, Zenon DEF TypeInv, Stage, Current, OutInv, Persisting
  <2> QED
    BY <1>4, <1>5, <1>6, <2>2, Zenon
<1>8. CASE TransitionSucceeds
  <2>1. /\ CanExecute(CanonState[blkid], Auth[blkid])
        /\ ResolvedAux = CanonAux(Current)
        /\ ResolvedAux \in [AuxReq[Current] -> Manifest]
        /\ CanonManifest(Current) \in Manifest
    BY <1>1, <1>8, TransitionFact, Zenon
  <2>2. /\ pc' = "put_manifest"
        /\ out' = [state |-> CanonState[Current], manifest |-> CanonManifest(Current),
                   aux |-> ResolvedAux]
    BY <1>1, <1>8, TransitionFact, Zenon DEF Transition
  <2>3. out' \in Output(Current)
    BY <1>2, <2>1, <2>2, FoldAssumption DEF Output
  <2>4. out' # None
    BY <1>2, <2>3, OutputAssumption, Zenon
  <2>5. TypeInv'
    BY <1>1, <1>2, <2>2, <2>3, Zenon DEF TypeInv, Stage, Current
  <2>6. OutInv'
    BY <1>1, <2>1, <2>2, <2>4, Zenon DEF OutInv, Persisting, Current, CanonManifest, CanonAux
  <2> QED
    BY <1>4, <1>5, <1>6, <2>5, <2>6, Zenon
<1> QED
  BY <1>7, <1>8, Zenon

-----------------------------------------------------------------------------
(* The writes of apply_block.  Each one stores a canonical value for the   *)
(* current block, which is not committed yet.                              *)

\* The manifest written is canonical, and of no committed block.
LEMMA PutManifestInv == ASSUME IInv, PutManifest PROVE IInv'
<1> USE DEF IInv, l1Vars, memVars, boundVars
<1>1. pc = "put_manifest" /\ pc' = "put_leaf" /\ UNCHANGED <<l1Vars, anchors, mmrCount, mmrLeaf,
                                                          auxData, memVars, boundVars>>
  BY Zenon DEF PutManifest
<1>2. pending # <<>> /\ Current \in Block /\ Above(Current) /\ ~Anchored(Current)
  BY <1>1, CurrentFact, Zenon DEF PlanInv, Forward, Persisting
<1>3. /\ CanExecute(CanonState[blkid], Auth[blkid]) /\ Parent[Current] = blkid
      /\ out.manifest = CanonManifest(Current) /\ out \in Output(Current)
  BY <1>1, Zenon DEF OutInv, Persisting, TypeInv, PlanInv, Forward
<1>4. CanonManifest(Current) \in Manifest /\ out.manifest.block = Current
  BY <1>2, <1>3, CanonFacts, Zenon DEF Output
<1>5. manifests' = [manifests EXCEPT ![Current] = CanonManifest(Current)]
  BY <1>3, <1>4, Zenon DEF PutManifest
<1>6. TypeInv'
  BY <1>1, <1>4, <1>5, Zenon DEF TypeInv, Stage, Current
<1>7. AnchorsCanonical' /\ TipAuthorised'
  BY <1>1, Zenon DEF AnchorsCanonical, TipAuthorised, Anchored, Running
<1>8. CommitComplete'
  BY <1>1, <1>2, <1>5, Zenon DEF CommitComplete, Anchored, CanonManifest, CanonAux, TypeInv
<1>9. StoreInv'
  <2>1. \A b \in Block : Anchored(b) => manifests'[b] = manifests[b]
    BY <1>2, <1>5, Zenon DEF TypeInv
  <2> QED
    BY <1>1, <2>1, Zenon DEF StoreInv, Anchored, Running
<1>10. PlanInv'
  BY <1>1, Zenon DEF PlanInv, Forward, Persisting, Anchored, Current
<1>11. OutInv'
  <2>1. manifests'[Current] = CanonManifest(Current)
    BY <1>2, <1>5, Zenon DEF TypeInv
  <2> QED
    BY <1>1, <2>1, Zenon DEF OutInv, Persisting, Current, CanonManifest, CanonAux
<1> QED
  BY <1>6, <1>7, <1>8, <1>9, <1>10, <1>11, Zenon

\* The MMR write never meets a gap: the parent is anchored, so the MMR already
\* reaches past the parent's height.
LEMMA NoGap ==
  ASSUME IInv, Persisting
  PROVE  /\ Current \in Block /\ Height[Current] \in Nat /\ Height[Current] \in Heights
         /\ Height[Current] <= mmrCount
         /\ out.manifest.block = Current
<1> USE DEF IInv
<1>1. Current \in Block /\ Above(Current) /\ Parent[Current] = blkid
  BY CurrentFact, Zenon DEF PlanInv, Forward
<1>2. blkid \in Block /\ Anchored(blkid)
  BY Zenon DEF TipAuthorised, Persisting, Running
<1>3. Height[blkid] < mmrCount /\ mmrCount \in Nat
  BY <1>2, Zenon DEF StoreInv, TypeInv
<1>4. Height[Current] \in Nat /\ Height[blkid] \in Nat /\ Height[blkid] = Height[Current] - 1
  BY <1>1, <1>2, TreeAssumption, Zenon
<1>5. Height[Current] \in Heights
  BY <1>1, TreeAssumption DEF Heights, Above, GenesisHeight
<1>6. out.manifest.block = Current
  BY <1>1, CanonFacts, Zenon DEF OutInv
<1> QED
  BY <1>1, <1>3, <1>4, <1>5, <1>6

\* The leaf write keeps the MMR past every committed block.
LEMMA PutLeafInv == ASSUME IInv, PutManifestHash PROVE IInv'
<1> USE DEF IInv, l1Vars, memVars, boundVars
<1>1. pc = "put_leaf" /\ UNCHANGED <<l1Vars, anchors, manifests, auxData, memVars, boundVars>>
  BY Zenon DEF PutManifestHash
<1>2. /\ Current \in Block /\ Height[Current] \in Nat /\ Height[Current] \in Heights
      /\ Height[Current] <= mmrCount /\ out.manifest.block = Current /\ mmrCount \in Nat
  BY <1>1, NoGap, Zenon DEF Persisting, TypeInv
<1>3. /\ pc' = "store_aux"
      /\ mmrLeaf' = [mmrLeaf EXCEPT ![Height[Current]] = out.manifest]
      /\ mmrCount' = IF Height[Current] = mmrCount THEN mmrCount + 1 ELSE mmrCount
  BY <1>2, Zenon DEF PutManifestHash
<1>4. mmrCount' \in Nat /\ mmrCount' >= mmrCount /\ Height[Current] < mmrCount'
  BY <1>2, <1>3
<1>5. out.manifest \in Manifest
  BY <1>1, Zenon DEF OutInv, Persisting, TypeInv, Output
<1>6. TypeInv'
  BY <1>1, <1>2, <1>3, <1>4, <1>5, Zenon DEF TypeInv, Stage, Current, History
<1>7. AnchorsCanonical' /\ CommitComplete' /\ TipAuthorised'
  BY <1>1, <1>3, Zenon DEF AnchorsCanonical, CommitComplete, TipAuthorised, Anchored, Running,
                    CanonManifest, CanonAux
<1>8. StoreInv'
  <2>1. \A b \in Block : Anchored(b)' => Height[b] < mmrCount'
    BY <1>1, <1>2, <1>4, TreeAssumption DEF StoreInv, Anchored
  <2>2. mmrCount' > GenesisHeight
    BY <1>1, <1>2, <1>4, TreeAssumption DEF StoreInv, Running, GenesisHeight
  <2> QED
    BY <1>1, <1>3, <2>1, <2>2, Zenon DEF StoreInv, Anchored, Running
<1>9. PlanInv'
  BY <1>1, <1>3, Zenon DEF PlanInv, Forward, Persisting, Anchored, Current
<1>10. OutInv'
  BY <1>1, <1>3, <1>4, Zenon DEF OutInv, Persisting, Current, CanonManifest, CanonAux
<1> QED
  BY <1>6, <1>7, <1>8, <1>9, <1>10, Zenon

\* The aux data written is canonical, and of no committed block.
LEMMA StoreAuxInv == ASSUME IInv, StoreAux PROVE IInv'
<1> USE DEF IInv, l1Vars, memVars, boundVars
<1>1. /\ pc = "store_aux" /\ pc' = "store_anchor"
      /\ auxData' = [auxData EXCEPT ![Current] = out.aux]
      /\ UNCHANGED <<l1Vars, anchors, manifests, mmrCount, mmrLeaf, memVars, boundVars>>
  BY Zenon DEF StoreAux
<1>2. pending # <<>> /\ Current \in Block /\ ~Anchored(Current)
  BY <1>1, CurrentFact, Zenon DEF PlanInv, Forward, Persisting
<1>3. out.aux = CanonAux(Current) /\ out.aux \in [AuxReq[Current] -> Manifest]
  BY <1>1, Zenon DEF OutInv, Persisting, TypeInv, Output
<1>4. TypeInv'
  BY <1>1, <1>3, Zenon DEF TypeInv, Stage, Current
<1>5. AnchorsCanonical' /\ TipAuthorised'
  BY <1>1, Zenon DEF AnchorsCanonical, TipAuthorised, Anchored, Running
<1>6. CommitComplete'
  BY <1>1, <1>2, Zenon DEF CommitComplete, Anchored, CanonManifest, CanonAux, TypeInv
<1>7. StoreInv'
  BY <1>1, Zenon DEF StoreInv, Anchored, Running
<1>8. PlanInv'
  BY <1>1, Zenon DEF PlanInv, Forward, Persisting, Anchored, Current
<1>9. OutInv'
  <2>1. auxData'[Current] = CanonAux(Current)
    BY <1>1, <1>2, <1>3, Zenon DEF TypeInv
  <2> QED
    BY <1>1, <2>1, Zenon DEF OutInv, Persisting, Current, CanonManifest, CanonAux
<1> QED
  BY <1>4, <1>5, <1>6, <1>7, <1>8, <1>9, Zenon

\* The commit: the anchor stored is canonical, its manifest and aux data are
\* already in place, and the parent is committed.
LEMMA CommitFact ==
  ASSUME IInv, StoreAnchor
  PROVE  /\ Current \in Block /\ Above(Current) /\ ~Anchored(Current)
         /\ Parent[Current] = blkid /\ blkid \in Block /\ Anchored(blkid)
         /\ CanExecute(CanonState[blkid], Auth[blkid])
         /\ CanonState[Current] \in AnchorState /\ CanonState[Current] # None
         /\ manifests[Current] = CanonManifest(Current) /\ manifests[Current] # None
         /\ auxData[Current] = CanonAux(Current)
         /\ Height[Current] < mmrCount
         /\ anchors' = [anchors EXCEPT ![Current] = CanonState[Current]]
         /\ anchor' = CanonState[Current]
         /\ nextPred' = Auth[Current]
<1> USE DEF IInv
<1>1. pc = "store_anchor"
  BY Zenon DEF StoreAnchor
<1>2. Current \in Block /\ Above(Current) /\ ~Anchored(Current) /\ Parent[Current] = blkid
  BY <1>1, CurrentFact, Zenon DEF PlanInv, Forward, Persisting
<1>3. blkid \in Block /\ Anchored(blkid) /\ nextPred = Auth[blkid]
  BY <1>1, Zenon DEF TipAuthorised, Running
<1>4. /\ CanExecute(CanonState[blkid], Auth[blkid])
      /\ out.state = CanonState[Current]
      /\ out.manifest = CanonManifest(Current)
      /\ manifests[Current] = CanonManifest(Current)
      /\ auxData[Current] = CanonAux(Current)
      /\ Height[Current] < mmrCount
      /\ out \in Output(Current)
  BY <1>1, Zenon DEF OutInv, Persisting, TypeInv
<1>5. manifests[Current] # None
  BY <1>4, LogAssumption, Zenon DEF Output
<1>6. /\ CanonState[Current].block = Current
      /\ CanonManifest(Current).up = Upgrade[Current]
  BY <1>2, <1>4, CanonFacts, Zenon
<1>7. CanonState[Current] \in AnchorState /\ CanonState[Current] # None
  BY <1>2, FoldAssumption, LogAssumption, SMTT(60)
<1>8. nextPred' = Auth[Current]
  BY <1>2, <1>3, <1>4, <1>6, FoldAssumption DEF StoreAnchor
<1>9. anchors' = [anchors EXCEPT ![Current] = CanonState[Current]] /\ anchor' = CanonState[Current]
  BY <1>4, <1>6, Zenon DEF StoreAnchor
<1> QED
  BY <1>2, <1>3, <1>4, <1>5, <1>7, <1>8, <1>9, Zenon

\* All but the last element of a sequence.
LEMMA FrontFact ==
  ASSUME NEW S, NEW s \in Seq(S), Len(s) >= 1
  PROVE  /\ SubSeq(s, 1, Len(s) - 1) \in Seq(S)
         /\ Len(SubSeq(s, 1, Len(s) - 1)) = Len(s) - 1
         /\ \A i \in 1..(Len(s) - 1) : SubSeq(s, 1, Len(s) - 1)[i] = s[i]
<1> DEFINE n == Len(s) - 1
<1>1. n \in Nat /\ \A i \in 1..n : s[i] \in S
  BY SMTT(60)
<1> HIDE DEF n
<1>2. /\ SubSeq(s, 1, n) \in Seq(S)
      /\ Len(SubSeq(s, 1, n)) = IF 1 <= n THEN n - 1 + 1 ELSE 0
      /\ \A i \in 1..(n - 1 + 1) : SubSeq(s, 1, n)[i] = s[1 + i - 1]
  BY <1>1, SMTT(60)
<1>3. Len(SubSeq(s, 1, n)) = n
  BY <1>1, <1>2, SMTT(60)
<1>4. \A i \in 1..n : SubSeq(s, 1, n)[i] = s[i]
  BY <1>1, <1>2
<1> QED
  BY <1>2, <1>3, <1>4, Zenon DEF n

\* The commit point keeps the invariant; the rest of the plan stays a chain
\* above the new tip.
LEMMA StoreAnchorInv == ASSUME IInv, StoreAnchor PROVE IInv'
<1> USE DEF IInv, l1Vars, boundVars
<1>1. /\ pc = "store_anchor" /\ blkid' = Current /\ out' = None
      /\ pending' = SubSeq(pending, 1, Len(pending) - 1)
      /\ pc' = (IF Len(pending) = 1 THEN "idle" ELSE "transition")
      /\ UNCHANGED <<l1Vars, manifests, mmrCount, mmrLeaf, auxData, cursor, boundVars>>
  BY Zenon DEF StoreAnchor
<1>2. /\ Current \in Block /\ Above(Current) /\ ~Anchored(Current)
      /\ Parent[Current] = blkid /\ CanExecute(CanonState[blkid], Auth[blkid])
      /\ CanonState[Current] \in AnchorState /\ CanonState[Current] # None
      /\ manifests[Current] = CanonManifest(Current) /\ manifests[Current] # None
      /\ auxData[Current] = CanonAux(Current) /\ Height[Current] < mmrCount
      /\ anchors' = [anchors EXCEPT ![Current] = CanonState[Current]]
      /\ anchor' = CanonState[Current] /\ nextPred' = Auth[Current]
  BY CommitFact, Zenon
<1>3. pending \in Seq(Block) /\ Len(pending) \in Nat /\ Len(pending) >= 1
  BY <1>1, CurrentFact, Zenon DEF TypeInv, PlanInv, Forward, Persisting
<1>4. /\ pending' \in Seq(Block) /\ Len(pending') = Len(pending) - 1
      /\ \A i \in 1..Len(pending') : pending'[i] = pending[i] /\ i \in 1..Len(pending)
                                     /\ i < Len(pending)
  <2>1. /\ pending' \in Seq(Block)
        /\ Len(pending') = Len(pending) - 1
        /\ \A i \in 1..(Len(pending) - 1) : pending'[i] = pending[i]
    BY <1>1, <1>3, FrontFact, Zenon
  <2> QED
    BY <1>3, <2>1
<1>5. \A b \in Block : Anchored(b)' <=> Anchored(b) \/ b = Current
  BY <1>2, Zenon DEF Anchored, TypeInv
<1>6. TypeInv'
  BY <1>1, <1>2, <1>4, FoldAssumption, Zenon DEF TypeInv, Stage
<1>7. AnchorsCanonical'
  BY <1>2, Zenon DEF AnchorsCanonical, Anchored, TypeInv
<1>8. CommitComplete'
  BY <1>1, <1>2, <1>5, Zenon DEF CommitComplete, CanonManifest, CanonAux
<1>9. TipAuthorised'
  BY <1>1, <1>2, <1>5, Zenon DEF TipAuthorised
<1>10. StoreInv'
  BY <1>1, <1>2, <1>5, TreeAssumption, Zenon DEF StoreInv, Running
<1>11. OutInv'
  BY <1>1, Zenon DEF OutInv, Persisting
<1>12. \A i \in 1..Len(pending') : Above(pending'[i]) /\ anchors'[pending'[i]] = None
  <2> SUFFICES ASSUME NEW i \in 1..Len(pending')
               PROVE  Above(pending'[i]) /\ anchors'[pending'[i]] = None
    BY Zenon
  <2>1. pending'[i] = pending[i] /\ i \in 1..Len(pending) /\ i < Len(pending)
    BY <1>4, Zenon
  <2>2. pending[i] \in Block /\ Above(pending[i]) /\ anchors[pending[i]] = None
    BY <1>3, <2>1 DEF PlanInv, Anchored
  <2>3. Height[Current] < Height[pending[i]]
    BY <1>3, <2>1, SMTT(60) DEF PlanInv, Current
  <2>4. pending[i] # Current
    BY <1>2, <2>2, <2>3, TreeAssumption
  <2> QED
    BY <1>2, <2>1, <2>2, <2>4, Zenon DEF TypeInv
<1>13. \A i, j \in 1..Len(pending') : i < j => Height[pending'[j]] < Height[pending'[i]]
  BY <1>4, Zenon DEF PlanInv
<1>14. \A i \in 1..Len(pending') : i < Len(pending') => Parent[pending'[i]] = pending'[i + 1]
  <2> SUFFICES ASSUME NEW i \in 1..Len(pending'), i < Len(pending')
               PROVE  Parent[pending'[i]] = pending'[i + 1]
    BY Zenon
  <2>1. i + 1 \in 1..Len(pending') /\ i \in 1..Len(pending) /\ i < Len(pending)
    BY <1>3, <1>4
  <2> QED
    BY <1>4, <2>1, Zenon DEF PlanInv
<1>15. CASE Len(pending) = 1
  <2>1. pending' = <<>> /\ pc' = "idle"
    BY <1>1, <1>3, <1>4, <1>15
  <2>2. PlanInv'
    BY <2>1 DEF PlanInv, Forward, Persisting
  <2> QED
    BY <1>6, <1>7, <1>8, <1>9, <1>10, <1>11, <2>2, Zenon
<1>16. CASE Len(pending) # 1
  <2>0. pc' = "transition" /\ Len(pending') \in Nat /\ Len(pending') >= 1
    BY <1>1, <1>3, <1>4, <1>16
  <2>1. pc' = "transition" /\ pending' # <<>> /\ Len(pending') \in 1..Len(pending')
    BY <2>0
  <2>2. Current' = pending[Len(pending) - 1]
    BY <1>3, <1>4, <2>1, Zenon DEF Current
  <2>3. Parent[Current'] = blkid'
    BY <1>1, <1>3, <1>4, <1>16, <2>2 DEF PlanInv, Current
  <2>4. PlanInv'
    BY <1>12, <1>13, <1>14, <2>1, <2>3, Zenon DEF PlanInv, Forward, Persisting, Anchored
  <2> QED
    BY <1>6, <1>7, <1>8, <1>9, <1>10, <1>11, <2>4, Zenon
<1> QED
  BY <1>15, <1>16, Zenon

-----------------------------------------------------------------------------
\* A kill or an exit keeps the stores and forgets the memory.
LEMMA StopInv == ASSUME IInv, Stop, crashes' \in Nat PROVE IInv'
<1> USE DEF IInv, Stop, dbVars
<1>1. TypeInv'
  BY DEF TypeInv, Stage
<1>2. AnchorsCanonical' /\ CommitComplete' /\ TipAuthorised'
  BY Zenon DEF AnchorsCanonical, CommitComplete, TipAuthorised, Anchored, Running
<1>3. StoreInv'
  BY Zenon DEF StoreInv, Anchored, Running
<1>4. PlanInv' /\ OutInv'
  BY DEF PlanInv, OutInv, Forward, Persisting
<1> QED
  BY <1>1, <1>2, <1>3, <1>4, Zenon

\* A failed read of bitcoind stops the worker and touches no store.
LEMMA ReadFailsInv == ASSUME IInv, ReadFails PROVE IInv'
<1> USE DEF IInv, l1Vars, dbVars, memVars
<1>1. /\ pc' = "failed" /\ outages' = outages + 1 /\ ~Persisting
      /\ UNCHANGED <<l1Vars, dbVars, memVars, crashes, lost, prunes>>
  BY Zenon DEF ReadFails, ReadsL1, Persisting
<1>2. outages' \in Nat
  BY <1>1 DEF TypeInv
<1>3. TypeInv'
  BY <1>1, <1>2, Zenon DEF TypeInv, Stage, Current
<1>4. AnchorsCanonical' /\ CommitComplete' /\ TipAuthorised'
  BY <1>1, Zenon DEF AnchorsCanonical, CommitComplete, TipAuthorised, Anchored, Running
<1>5. StoreInv'
  BY <1>1, Zenon DEF StoreInv, Anchored, Running
<1>6. PlanInv' /\ OutInv'
  BY <1>1, Zenon DEF PlanInv, OutInv, Anchored, Forward, Persisting
<1> QED
  BY <1>3, <1>4, <1>5, <1>6, Zenon

\* Pruning drops anchors and adds none.
LEMMA PruneInv == ASSUME IInv, NEW h \in PruneHeights, Prune(h) PROVE IInv'
<1> USE DEF IInv, l1Vars, memVars
<1>1. /\ pc = "down" /\ prunes' = prunes + 1
      /\ UNCHANGED <<l1Vars, manifests, mmrCount, mmrLeaf, auxData, pc, memVars, crashes, lost,
                     outages>>
  BY Zenon DEF Prune
<1>2. /\ anchors' \in [Block -> AnchorState \cup {None}]
      /\ \A b \in Block : Anchored(b)' => Anchored(b) /\ anchors'[b] = anchors[b]
  BY Zenon DEF Prune, TypeInv, Anchored
<1>3. TypeInv'
  BY <1>1, <1>2 DEF TypeInv, Current
<1>4. AnchorsCanonical' /\ TipAuthorised'
  BY <1>1, <1>2, Zenon DEF AnchorsCanonical, TipAuthorised, Running
<1>5. CommitComplete'
  BY <1>1, <1>2, Zenon DEF CommitComplete, CanonManifest, CanonAux
<1>6. StoreInv'
  BY <1>1, <1>2, Zenon DEF StoreInv, Running
<1>7. PlanInv' /\ OutInv'
  BY <1>1 DEF PlanInv, OutInv, Forward, Persisting
<1> QED
  BY <1>3, <1>4, <1>5, <1>6, <1>7, Zenon

\* Every step preserves the inductive invariant.
LEMMA StepInv == IInv /\ [Next]_vars => IInv'
<1> SUFFICES ASSUME IInv, [Next]_vars PROVE IInv'
  BY Zenon
<1>1. CASE UNCHANGED vars
  <2>1. TypeInv'
    BY <1>1, Zenon DEF IInv, TypeInv, vars, l1Vars, dbVars, memVars, boundVars, Current
  <2> QED
    BY <1>1, <2>1, FrameInv, Zenon DEF vars
<1>2. CASE (\E t \in Block : L1Advance(t)) \/ Subscribe \/ CatchUpFails
  BY <1>2, EnvInv, Zenon
<1>3. CASE Boot
  BY <1>3, BootInv, Zenon
<1>4. CASE WorkerStep
  BY Zenon, <1>4, SeedInv, LoadInv, PlanStepInv, PlanEmptyInv, RestoreInv, TransitionInv,
     PutManifestInv, PutLeafInv, StoreAuxInv, StoreAnchorInv DEF WorkerStep
<1>5. CASE CatchUp \/ Deliver
  BY <1>5, WatcherInv, Zenon
<1>6. CASE Exit \/ Crash
  <2>1. Stop /\ crashes' \in Nat
    BY <1>6 DEF Exit, Crash, IInv, TypeInv
  <2> QED
    BY <2>1, StopInv, Zenon
<1>7. CASE \E h \in PruneHeights : Prune(h)
  BY <1>7, PruneInv, Zenon
<1>8. CASE ReadFails
  BY <1>8, ReadFailsInv, Zenon
<1> QED
  BY <1>1, <1>2, <1>3, <1>4, <1>5, <1>6, <1>7, <1>8, Zenon DEF Next, WatcherStep

\* The inductive invariant holds throughout.
LEMMA Inductive == Spec => []IInv
BY InitInv, StepInv, PTL DEF Spec

-----------------------------------------------------------------------------
\* The types of the worker's stores and memory (AsmWorkerServiceState).
THEOREM TypeCorrect == Spec => []TypeInv
<1>1. IInv => TypeInv
  BY Zenon DEF IInv
<1> QED
  BY Inductive, <1>1, PTL

\* Whatever reorgs, kills and prunes happen, a stored anchor is the result of
\* executing its block's own ancestry (apply_block, restore_anchor).
THEOREM Canonical == Spec => []AnchorsCanonical
<1>1. IInv => AnchorsCanonical
  BY Zenon DEF IInv
<1> QED
  BY Inductive, <1>1, PTL

\* A committed block always has its manifest and aux data (apply_block's order
\* of writes).
THEOREM Complete == Spec => []CommitComplete
<1>1. IInv => CommitComplete
  BY Zenon DEF IInv
<1> QED
  BY Inductive, <1>1, PTL

\* The predicate that will execute the next block is the one the tip's ancestry
\* authorised, also after it was recovered from one manifest (recover_predicate).
THEOREM Authorised == Spec => []TipAuthorised
<1>1. IInv => TipAuthorised
  BY Zenon DEF IInv
<1> QED
  BY Inductive, <1>1, PTL

\* put_leaf never rejects a height as a gap.
THEOREM GapFree == Spec => []NoMmrGap
<1>1. IInv => NoMmrGap
  BY NoGap, Zenon DEF NoMmrGap, Persisting
<1> QED
  BY Inductive, <1>1, PTL

-----------------------------------------------------------------------------
(* The worker implements AsmLedger.                                        *)

\* AsmLedger reads the block tree through the same definitions.
LEMMA LedgerTree ==
  /\ Ledger!GenesisState = GenesisState
  /\ \A b : Ledger!Above(b) <=> Above(b)
  /\ \A st, p : Ledger!CanExecute(st, p) <=> CanExecute(st, p)
<1>1. Ledger!GenesisHeight = GenesisHeight /\ Ledger!Registered = Registered
  BY Zenon DEF Ledger!GenesisHeight, GenesisHeight, Ledger!Registered, Registered
<1>2. Ledger!Heights = Heights
  BY <1>1, Zenon DEF Ledger!Heights, Heights
<1>3. Ledger!GenesisState = GenesisState
  BY <1>2, Zenon DEF Ledger!GenesisState, GenesisState
<1>4. \A b : Ledger!Above(b) <=> Above(b)
  BY <1>1, Zenon DEF Ledger!Above, Above
<1>5. \A st, p : Ledger!CanExecute(st, p) <=> CanExecute(st, p)
  BY <1>1, Zenon DEF Ledger!CanExecute, CanExecute, Ledger!Resolves, Resolves, Ledger!Resolve, Resolve
<1> QED
  BY <1>3, <1>4, <1>5, Zenon

\* The startup steps store at most the genesis anchor.
LEMMA LedgerBoot ==
  ASSUME IInv, Boot \/ LoadAnchor
  PROVE  [Ledger!Next]_<<anchors, pc # "down">>
<1> USE DEF IInv
<1>1. /\ anchors \in [Block -> AnchorState \cup {None}]
      /\ Anchored(Genesis) => anchors[Genesis] = GenesisState
  BY TreeAssumption, FoldAssumption, Zenon DEF TypeInv, AnchorsCanonical
<1>2. pc' # "down" /\ (LoadAnchor => pc # "down") /\ (Boot => pc = "down")
  BY Zenon DEF Boot, LoadAnchor
<1>3. \/ anchors' = anchors
      \/ anchors' = [anchors EXCEPT ![Genesis] = GenesisState] /\ ~Anchored(Genesis)
  <2>1. CASE Boot
    BY <1>1, <2>1, Zenon DEF Boot
  <2>2. CASE LoadAnchor
    BY <1>1, <2>2, Zenon DEF LoadAnchor, Anchored
  <2> QED
    BY <2>1, <2>2, Zenon
<1>4. CASE anchors' # anchors
  BY <1>2, <1>3, <1>4, LedgerTree, Zenon DEF Ledger!Next, Ledger!StoreGenesis, Ledger!Committed, Anchored
<1>5. CASE anchors' = anchors /\ Boot
  BY <1>2, <1>5, Zenon DEF Ledger!Next, Ledger!Start
<1>6. CASE anchors' = anchors /\ LoadAnchor
  BY <1>2, <1>6, Zenon
<1> QED
  BY <1>4, <1>5, <1>6, Zenon

\* The last write of apply_block is AsmLedger's Commit.
LEMMA LedgerCommit == ASSUME IInv, StoreAnchor PROVE Ledger!Next
<1>1. /\ Current \in Block /\ Above(Current) /\ ~Anchored(Current)
      /\ Parent[Current] = blkid /\ Anchored(blkid)
      /\ CanExecute(CanonState[blkid], Auth[blkid])
      /\ anchors' = [anchors EXCEPT ![Current] = CanonState[Current]]
  BY CommitFact, Zenon
<1>2. pc # "down" /\ pc' # "down"
  BY Zenon DEF StoreAnchor
<1>3. Ledger!Commit(Current)
  BY <1>1, <1>2, LedgerTree, Zenon DEF Ledger!Commit, Ledger!Committed, Anchored
<1> QED
  BY <1>1, <1>3, Zenon DEF Ledger!Next

\* Every step of the worker is a step of AsmLedger or changes nothing there.
LEMMA LedgerStep ==
  ASSUME IInv, [Next]_vars
  PROVE  [Ledger!Next]_<<anchors, pc # "down">>
<1>1. CASE UNCHANGED vars
  BY <1>1, Zenon DEF vars, dbVars
<1>2. CASE (\E t \in Block : L1Advance(t)) \/ Subscribe \/ CatchUpFails
  BY <1>2, Zenon DEF L1Advance, Subscribe, CatchUpFails, dbVars
<1>10. CASE ReadFails
  <2>1. pc' # "down" /\ anchors' = anchors
    BY <1>10, Zenon DEF ReadFails, dbVars
  <2> QED
    BY <2>1, Zenon DEF Ledger!Next, Ledger!Start
<1>3. CASE CatchUp \/ Deliver
  BY <1>3, Zenon DEF CatchUp, Deliver, Submit, dbVars
<1>4. CASE Boot \/ LoadAnchor
  BY <1>4, LedgerBoot, Zenon
<1>5. CASE SeedMmr \/ PlanStep \/ PlanEmpty \/ RestoreAnchor
  BY <1>5, Zenon DEF SeedMmr, PlanStep, PlanEmpty, RestoreAnchor, dbVars
<1>6. CASE Transition \/ PutManifest \/ PutManifestHash \/ StoreAux
  BY <1>6, Zenon DEF Transition, PutManifest, PutManifestHash, StoreAux, dbVars
<1>7. CASE StoreAnchor
  BY <1>7, LedgerCommit, Zenon
<1>8. CASE Exit \/ Crash
  <2>1. pc # "down" /\ pc' = "down" /\ anchors' = anchors
    BY <1>8, Zenon DEF Exit, Crash, Stop, dbVars
  <2> QED
    BY <2>1, Zenon DEF Ledger!Next, Ledger!Stop
<1>9. CASE \E h \in PruneHeights : Prune(h)
  <2>1. PICK h \in PruneHeights : Prune(h)
    BY <1>9, Zenon
  <2>2. Ledger!Drop(h)
    BY <2>1, Zenon DEF Prune, Ledger!Drop
  <2> QED
    BY <2>2, Zenon DEF Ledger!Next
<1> QED
  BY <1>1, <1>2, <1>3, <1>4, <1>5, <1>6, <1>7, <1>8, <1>9, <1>10, Zenon
     DEF Next, WorkerStep, WatcherStep

\* The worker, with its kills, reorgs and separate writes, implements AsmLedger:
\* one atomic, parent-first, write-once commit per block (sync_to_block).
THEOREM LedgerRefined == Spec => RefinesLedger
<1>1. Init => Ledger!Init
  BY Zenon DEF Init, Ledger!Init
<1>2. IInv /\ [Next]_vars => [Ledger!Next]_<<anchors, pc # "down">>
  BY LedgerStep, Zenon
<1> QED
  BY Inductive, <1>1, <1>2, PTL DEF Spec, RefinesLedger, Ledger!Spec

-----------------------------------------------------------------------------
(* Why the worker stops.                                                   *)

\* A stored accumulator has an entry for every height up to its block.
HistInv ==
  \A b \in Block : Anchored(b) =>
    \A h \in Heights : h <= Height[b] => CanonState[b].hist[h] # None

\* A commit adds the entry of its own height to the parent's accumulator.
LEMMA HistStep == IInv /\ HistInv /\ [Next]_vars => HistInv'
<1> SUFFICES ASSUME IInv, HistInv, [Next]_vars PROVE HistInv'
  BY Zenon
<1>1. CASE StoreAnchor
  <2>1. /\ Current \in Block /\ Above(Current)
        /\ Parent[Current] = blkid /\ blkid \in Block /\ Anchored(blkid)
        /\ CanExecute(CanonState[blkid], Auth[blkid])
        /\ anchors' = [anchors EXCEPT ![Current] = CanonState[Current]]
        /\ manifests[Current] = CanonManifest(Current) /\ manifests[Current] # None
    BY <1>1, CommitFact, Zenon
  <2>2. CanonState[Current].hist = [CanonState[blkid].hist EXCEPT ![Height[Current]] =
                                      CanonManifest(Current)]
    BY <2>1, FoldAssumption, SMTT(60) DEF StfState
  <2>3. DOMAIN CanonState[blkid].hist = Heights
    BY <2>1, FoldAssumption, SMTT(60) DEF AnchorState, History
  <2>4. /\ Height[Current] \in Nat /\ Height[blkid] = Height[Current] - 1
        /\ Heights \subseteq Nat
    BY <2>1, TreeAssumption DEF Heights
  <2>5. \A h \in Heights : h <= Height[Current] => h = Height[Current] \/ h <= Height[blkid]
    BY <2>4, SMTT(60)
  <2>6. \A h \in Heights : h <= Height[Current] => CanonState[Current].hist[h] # None
    BY <2>1, <2>2, <2>3, <2>5 DEF HistInv
  <2>7. \A b \in Block : anchors'[b] # None => Anchored(b) \/ b = Current
    BY <2>1, Zenon DEF Anchored, IInv, TypeInv
  <2> QED
    BY <2>6, <2>7, Zenon DEF HistInv, Anchored
<1>2. CASE Boot \/ LoadAnchor
  <2>1. \A b \in Block : anchors'[b] # None => Anchored(b) \/ b = Genesis
    BY <1>2, TreeAssumption, Zenon DEF Boot, LoadAnchor, Anchored, IInv, TypeInv, IsLatest
  <2>2. \A h \in Heights : ~(h <= Height[Genesis])
    BY TreeAssumption DEF Heights, GenesisHeight
  <2> QED
    BY <2>1, <2>2, Zenon DEF HistInv, Anchored
<1>3. CASE \E h \in PruneHeights : Prune(h)
  BY <1>3, Zenon DEF Prune, HistInv, Anchored, IInv, TypeInv
<1>4. CASE UNCHANGED anchors
  BY <1>4, Zenon DEF HistInv, Anchored
<1>5. \/ StoreAnchor \/ Boot \/ LoadAnchor \/ (\E h \in PruneHeights : Prune(h))
      \/ UNCHANGED anchors
  BY Zenon DEF Next, WorkerStep, WatcherStep, L1Advance, Subscribe, CatchUp, CatchUpFails, Deliver,
         SeedMmr, PlanStep, PlanEmpty, RestoreAnchor, Transition, PutManifest, PutManifestHash,
         StoreAux, ReadFails, Exit, Crash, Stop, vars, dbVars
<1> QED
  BY <1>1, <1>2, <1>3, <1>4, <1>5, Zenon

\* The leaves under a peak are leaves of the MMR.
LEMMA MountainFact ==
  ASSUME NEW i, NEW n \in Nat, NEW j \in Mountain(i, n)
  PROVE  j \in 0..(n - 1)
BY Zenon DEF Mountain

\* When the transition fails although the authorised spec can execute the
\* block, some leaf at or below the tip is not the tip's own.
LEMMA TransitionFails ==
  ASSUME IInv, HistInv, pc = "transition", ~TransitionSucceeds,
         CanExecute(CanonState[blkid], Auth[blkid])
  PROVE  \E h \in Heights : h <= Height[blkid] /\ mmrLeaf[h] # anchor.hist[h]
<1> USE DEF IInv
<1>1. /\ blkid \in Block /\ Anchored(blkid)
      /\ anchor = CanonState[blkid] /\ nextPred = Auth[blkid]
  BY Zenon DEF TipAuthorised, Running
<1>2. Current \in Block /\ Above(Current) /\ Parent[Current] = blkid
  BY CurrentFact, Zenon DEF PlanInv, Forward
<1>3. anchor.block = blkid
  BY <1>1, RecoverFact, Zenon DEF AnchorsCanonical
<1>4. PICK h \in AuxReq[Current] : ~ProofVerifies(anchor, h)
  BY <1>1, <1>2, <1>3, Zenon DEF TransitionSucceeds
<1>5. /\ Height[blkid] \in Nat /\ Height[blkid] = Height[Current] - 1 /\ Heights \subseteq Nat
      /\ Height[Current] \in Nat
  BY <1>1, <1>2, TreeAssumption DEF Heights
<1>6. h \in Heights /\ h < Height[Current]
  BY <1>2, LogAssumption, Zenon
<1>7. h \in Heights /\ h <= Height[blkid]
  <2>1. h \in Nat
    BY <1>5, <1>6, Zenon
  <2> QED
    BY <1>5, <1>6, <2>1
<1>8. anchor.hist[h] # None
  BY <1>1, <1>7, Zenon DEF HistInv
<1>9. CASE mmrLeaf[h] # anchor.hist[h]
  BY <1>7, <1>9, Zenon
<1>10. CASE \E j \in Mountain(h, Height[blkid] + 1) \cap Heights : mmrLeaf[j] # anchor.hist[j]
  <2> DEFINE n == Height[blkid] + 1
  <2>1. PICK j \in Heights : j \in Mountain(h, n) /\ mmrLeaf[j] # anchor.hist[j]
    BY <1>10, Zenon
  <2>2. n \in Nat
    BY <1>5
  <2> HIDE DEF n
  <2>3. j \in 0..(n - 1)
    BY <2>1, <2>2, MountainFact, Zenon
  <2> QED
    BY <1>5, <2>1, <2>3 DEF n
<1> QED
  BY <1>3, <1>4, <1>8, <1>9, <1>10, Zenon DEF ProofVerifies

\* The reasons for which the worker stops, step by step.
LEMMA FailureStep ==
  ASSUME IInv, HistInv, Next, pc # "failed", pc' = "failed"
  PROVE  \/ outages' > outages
         \/ pc = "down" /\ ~Descends[l1tip]
         \/ pc = "plan" /\ ~Descends[cursor]
         \/ pc = "transition" /\
              \/ ~CanExecute(CanonState[blkid], Auth[blkid])
              \/ \E h \in Heights : h <= Height[blkid] /\ mmrLeaf[h] # anchor.hist[h]
<1>1. CASE Boot
  BY <1>1, TreeAssumption, FoldAssumption, Zenon DEF Boot, AnchorOnL1, IInv, AnchorsCanonical, Anchored
<1>2. CASE PlanStep
  <2>1. pc = "plan" /\ ~Anchored(cursor) /\ ~Above(cursor) /\ cursor \in Block
    BY <1>2, Zenon DEF PlanStep, IInv, PlanInv
  <2>2. Anchored(Genesis)
    BY <2>1, Zenon DEF IInv, StoreInv, Running
  <2> QED
    BY <2>1, <2>2, FoldAssumption, Zenon
<1>3. CASE Transition
  BY <1>3, TransitionFails, ZenonT(60) DEF Transition
<1>4. CASE SeedMmr
  BY <1>4, TreeAssumption DEF SeedMmr, IInv, StoreInv, TypeInv, GenesisHeight
<1>5. CASE LoadAnchor
  <2>1. pc' = "idle"
    <3>1. TipAuthorised' /\ pc = "load"
      BY <1>5, LoadInv, Zenon DEF IInv, LoadAnchor
    <3>2. PICK b \in Block :
            LET st == IF \A c \in Block : ~Anchored(c) THEN GenesisState ELSE anchors[b]
            IN /\ IF \A c \in Block : ~Anchored(c) THEN b = Genesis ELSE IsLatest(b)
               /\ Recoverable(st) => pc' = "idle"
      BY <1>5, Zenon DEF LoadAnchor
    <3>3. CASE \A c \in Block : ~Anchored(c)
      BY <3>2, <3>3, Zenon DEF Recoverable, GenesisState
    <3>4. CASE ~\A c \in Block : ~Anchored(c)
      BY <3>2, <3>4, RecoverFact, Zenon DEF IsLatest, IInv
    <3> QED
      BY <3>3, <3>4, Zenon
  <2> QED
    BY <2>1, Zenon
<1>6. CASE RestoreAnchor
  <2>1. cursor \in Block /\ Anchored(cursor)
    BY <1>6, Zenon DEF RestoreAnchor, IInv, PlanInv
  <2>2. Recoverable(anchors[cursor])
    BY <2>1, RecoverFact, Zenon DEF IInv
  <2> QED
    BY <1>6, <2>2, Zenon DEF RestoreAnchor
<1>7. CASE PutManifestHash
  BY <1>7, NoGap, Zenon DEF PutManifestHash, Persisting
<1>8. \/ Boot \/ PlanStep \/ Transition \/ SeedMmr \/ LoadAnchor \/ RestoreAnchor
      \/ PutManifestHash \/ ReadFails
  BY Zenon DEF Next, WorkerStep, WatcherStep, L1Advance, Subscribe, CatchUp, CatchUpFails, Deliver,
         Submit, PlanEmpty, PutManifest, StoreAux, StoreAnchor, Exit, Crash, Stop, Prune
<1>9. CASE ReadFails
  BY <1>9 DEF ReadFails, IInv, TypeInv
<1> QED
  BY <1>1, <1>2, <1>3, <1>4, <1>5, <1>6, <1>7, <1>8, <1>9, Zenon

\* The worker stops only on a failed read of bitcoind, when L1 left the configured
\* genesis, when the authorised spec cannot execute the next block, or on a leaf of
\* another branch (the error returns of sync_to_block and AsmWorkerServiceState::new).
THEOREM Failures == Spec => FailuresExplained
<1>1. Init => HistInv
  BY Zenon DEF Init, HistInv, Anchored
<1>2. IInv /\ HistInv /\ [Next]_vars =>
        [pc # "failed" /\ pc' = "failed" =>
           \/ outages' > outages
           \/ pc = "down" /\ ~Descends[l1tip]
           \/ pc = "plan" /\ ~Descends[cursor]
           \/ pc = "transition" /\
                \/ ~CanExecute(CanonState[blkid], Auth[blkid])
                \/ \E h \in Heights : h <= Height[blkid] /\ mmrLeaf[h] # anchor.hist[h]]_vars
  BY FailureStep, Zenon
<1> QED
  BY Inductive, HistStep, <1>1, <1>2, PTL DEF Spec, FailuresExplained

-----------------------------------------------------------------------------
(* What the RPC serves.  The states are canonical by AnchorsCanonical; the *)
(* manifests need more than CommitComplete, which speaks of committed      *)
(* blocks only.                                                            *)
\* Every stored manifest is its block's canonical one, committed or not.
ManifestsCanonical ==
  \A b \in Block : manifests[b] # None => Above(b) /\ manifests[b] = CanonManifest(b)

\* The manifest put_manifest writes is the one of the block being applied.
LEMMA PutCanonical ==
  ASSUME IInv, ManifestsCanonical, PutManifest
  PROVE  ManifestsCanonical'
<1> USE DEF IInv
<1>1. Persisting /\ pc = "put_manifest"
  BY Zenon DEF PutManifest, Persisting
<1>2. Current \in Block /\ Above(Current)
  BY <1>1, CurrentFact, Zenon DEF PlanInv, Forward
<1>3. out.manifest = CanonManifest(Current) /\ out.manifest.block = Current
  BY <1>1, NoGap, Zenon DEF OutInv
<1>4. manifests' = [manifests EXCEPT ![Current] = CanonManifest(Current)]
  BY <1>3, Zenon DEF PutManifest
<1>5. ASSUME NEW b \in Block, manifests'[b] # None
      PROVE  Above(b) /\ manifests'[b] = CanonManifest(b)
  <2>1. CASE b = Current
    BY <1>2, <1>4, <2>1, Zenon DEF TypeInv
  <2>2. CASE b # Current
    <3>1. manifests'[b] = manifests[b]
      BY <1>4, <2>2, Zenon DEF TypeInv
    <3> QED
      BY <1>5, <3>1, Zenon DEF ManifestsCanonical
  <2> QED
    BY <2>1, <2>2, Zenon
<1> QED
  BY <1>5, Zenon DEF ManifestsCanonical, CanonManifest, CanonAux

\* No other step writes a manifest.
LEMMA ManifestsStep == IInv /\ ManifestsCanonical /\ [Next]_vars => ManifestsCanonical'
<1> SUFFICES ASSUME IInv, ManifestsCanonical, [Next]_vars PROVE ManifestsCanonical'
  BY Zenon
<1>1. PutManifest \/ UNCHANGED manifests
  BY Zenon DEF Next, WorkerStep, WatcherStep, L1Advance, Boot, Subscribe, CatchUp, CatchUpFails,
         Deliver, SeedMmr, LoadAnchor, PlanStep, PlanEmpty, RestoreAnchor, Transition,
         PutManifestHash, StoreAux, StoreAnchor, ReadFails, Exit, Crash, Stop, Prune, vars, dbVars
<1>2. CASE UNCHANGED manifests
  BY <1>2, Zenon DEF ManifestsCanonical, CanonManifest, CanonAux
<1> QED
  BY <1>1, <1>2, PutCanonical, Zenon

\* Whenever a handler reads, it serves canonical states and manifests, a state
\* never without its manifest, and the status names a served block
\* (get_anchor_state, get_manifest, get_status).
THEOREM Served == Spec => []ServedCanonically
<1>1. Init => ManifestsCanonical
  BY Zenon DEF Init, ManifestsCanonical
<1>2. IInv /\ ManifestsCanonical => ServedCanonically
  <2> SUFFICES ASSUME IInv, ManifestsCanonical PROVE ServedCanonically
    BY Zenon
  <2>1. Running => anchors[blkid] # None
    BY Zenon DEF IInv, TipAuthorised, Anchored
  <2>2. ASSUME NEW b \in Block
        PROVE  /\ anchors[b] \in {None, CanonState[b]}
               /\ manifests[b] # None => Above(b) /\ manifests[b] = CanonManifest(b)
               /\ anchors[b] # None /\ Above(b) => manifests[b] # None
    BY Zenon DEF IInv, AnchorsCanonical, StoreInv, ManifestsCanonical, Anchored
  <2> QED
    BY <2>1, <2>2, Zenon DEF ServedCanonically, Queryable, get_anchor_state, get_manifest, get_status
<1> QED
  BY Inductive, ManifestsStep, <1>1, <1>2, PTL DEF Spec
==============================================================================
