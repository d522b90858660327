---------------------------- MODULE AsmStfProofs ----------------------------
(***************************************************************************)
(* Proofs about the whole transition, for every chain of blocks, every     *)
(* capacity of the rotation queue and every history of rotations: the      *)
(* checkpoints tile the L1 heights and each height was verified under the  *)
(* predicate that governs it.                                              *)
(*                                                                         *)
(* The inductive invariant is that of the checkpoint subprotocol.  Three   *)
(* steps can disturb it: a new block, an accepted checkpoint and a queued  *)
(* rotation.  GovernedRanges is not inductive: it compares the checkpoints *)
(* with the history of rotations, while the code decides on its bounded    *)
(* queue.  HistoryInv says how the two belong together: the queue is the   *)
(* end of the history, and whatever is no longer in it lies at or below    *)
(* the verified tip, or was evicted.                                       *)
(*                                                                         *)
(* The later sections are about what the transition reads from L1: the     *)
(* header state comes from the chain of headers, the transactions the      *)
(* subprotocols are fed are the mined ones, and the data requested for     *)
(* them on the state before the block covers what their handlers read,     *)
(* although the handlers run on the state the block has changed.           *)
(***************************************************************************)
EXTENDS AsmStf, TableProofs

\* A leaf that names no prover is given to Zenon.
USE ZenonT(60)

(***************************************************************************)
(* Sequences of anything: predicates come from messages and have no type.  *)
(***************************************************************************)
Listed(s) == \E S : s \in Seq(S)

\* What a list is made of.
LEMMA ListedDomain ==
  ASSUME NEW s, Listed(s)
  PROVE  /\ Len(s) \in Nat
         /\ DOMAIN s = 1 .. Len(s)
         /\ s # <<>> <=> Len(s) > 0
<1>1. PICK S : s \in Seq(S)
  BY DEF Listed
<1>2. Len(s) \in Nat /\ DOMAIN s = 1 .. Len(s)
  BY <1>1, SMTT(60)
<1>3. s # <<>> => Len(s) \in Nat \ {0}
  BY <1>1, SMTT(60)
<1>4. s = <<>> => Len(s) = 0
  <2>1. Len(<<>>) = 0
    OBVIOUS
  <2> QED
    BY <2>1
<1> QED
  BY <1>2, <1>3, <1>4, SMTT(60)

\* Append adds one element at the end and keeps the others.
LEMMA AppendListed ==
  ASSUME NEW s, Listed(s), NEW e
  PROVE  /\ Listed(Append(s, e))
         /\ Append(s, e) # <<>>
         /\ Len(Append(s, e)) = Len(s) + 1
         /\ \A i \in 1 .. Len(s) : Append(s, e)[i] = s[i]
         /\ Append(s, e)[Len(s) + 1] = e
<1>1. PICK S : s \in Seq(S)
  BY DEF Listed
<1> DEFINE T == S \cup {e}
<1>2. s \in Seq(T) /\ e \in T
  <2>1. S \subseteq T /\ e \in T
    OBVIOUS
  <2> HIDE DEF T
  <2> QED
    BY <1>1, <2>1, SMTT(60)
<1> HIDE DEF T
<1>3. /\ Append(s, e) \in Seq(T)
      /\ Append(s, e) # <<>>
      /\ Len(Append(s, e)) = Len(s) + 1
      /\ \A i \in 1 .. Len(s) : Append(s, e)[i] = s[i]
      /\ Append(s, e)[Len(s) + 1] = e
  BY <1>2, SMTT(60)
<1> QED
  BY <1>3 DEF Listed

\* Tail drops the first element and moves the others down by one.
LEMMA TailListed ==
  ASSUME NEW s, Listed(s), s # <<>>
  PROVE  /\ Listed(Tail(s))
         /\ Len(Tail(s)) = Len(s) - 1
         /\ \A i \in 1 .. Len(s) - 1 : Tail(s)[i] = s[i + 1]
         /\ Head(s) = s[1]
<1>1. PICK S : s \in Seq(S)
  BY DEF Listed
<1>2. /\ Tail(s) \in Seq(S)
      /\ Len(Tail(s)) = Len(s) - 1
      /\ \A i \in 1 .. Len(Tail(s)) : Tail(s)[i] = s[i + 1]
  BY <1>1, SMTT(60)
<1>3. Head(s) = s[1]
  BY <1>1, SMTT(60)
<1>4. Listed(Tail(s))
  BY <1>2 DEF Listed
<1> QED
  BY <1>2, <1>3, <1>4

(***************************************************************************)
(* The inductive invariant.                                                *)
(***************************************************************************)
\* Heights are numbers, and the tip lies below every block that is processed.
TipInv ==
  /\ "last_verified_block" \in DOMAIN pow_state
  /\ height \in Nat
  /\ verified_tip.l1_height \in Nat
  /\ verified_tip.l1_height <= height
  /\ stage # "idle" \/ covered # <<>> => verified_tip.l1_height < height

\* The rotations that have left the queue.
Settled == Len(rotations) - Len(pending_transition)

\* The queue is the end of the history; what left it took effect or was evicted.
HistoryInv ==
  /\ Listed(rotations) /\ Listed(pending_transition)
  /\ Len(pending_transition) <= Len(rotations)
  /\ \A i \in DOMAIN rotations :
         /\ DOMAIN rotations[i] = {"predicate", "boundary", "evicted"}
         /\ rotations[i].boundary \in Nat
         /\ rotations[i].boundary <= height
  /\ \A i, j \in DOMAIN rotations : i < j => rotations[i].boundary < rotations[j].boundary
  /\ \A j \in DOMAIN pending_transition :
         /\ pending_transition[j].boundary > verified_tip.l1_height
         /\ pending_transition[j].boundary = rotations[Settled + j].boundary
         /\ pending_transition[j].predicate = rotations[Settled + j].predicate
         /\ ~rotations[Settled + j].evicted
  /\ \A i \in 1 .. Settled :
         \/ rotations[i].boundary <= verified_tip.l1_height
         \/ rotations[i].evicted /\ pending_transition # <<>>

\* The checkpoints accepted so far end at the verified tip.
CoverInv ==
  /\ Listed(covered)
  /\ \A i \in DOMAIN covered : covered[i].to <= verified_tip.l1_height
  /\ \A i \in DOMAIN covered : covered[i].from \in Nat /\ covered[i].to \in Nat
  /\ IF covered = <<>> THEN verified_tip.l1_height = GenesisHeight
     ELSE covered[Len(covered)].to = verified_tip.l1_height
  /\ GovernedRanges

IInv == TipInv /\ HistoryInv /\ CoverInv

\* What HistoryInv says about positions: the queue is the last part of the history, so
\* its first rotation has the least boundary, and a rotation above the tip that was not
\* evicted is in the queue.
LEMMA Positions ==
  ASSUME TipInv, HistoryInv
  PROVE  /\ Len(rotations) \in Nat /\ DOMAIN rotations = 1 .. Len(rotations)
         /\ Len(pending_transition) \in Nat
         /\ DOMAIN pending_transition = 1 .. Len(pending_transition)
         /\ Settled \in Nat /\ Len(rotations) = Settled + Len(pending_transition)
         /\ pending_transition # <<>> <=> Len(pending_transition) > 0
         /\ \A j \in 1 .. Len(pending_transition) :
                /\ Settled + j \in 1 .. Len(rotations)
                /\ pending_transition[j].boundary \in Nat
         /\ \A i, j \in 1 .. Len(pending_transition) :
                i < j => pending_transition[i].boundary < pending_transition[j].boundary
         /\ \A i \in 1 .. Len(rotations) : i > Settled =>
                i - Settled \in 1 .. Len(pending_transition)
<1>1. /\ Len(rotations) \in Nat /\ DOMAIN rotations = 1 .. Len(rotations)
      /\ Len(pending_transition) \in Nat
      /\ DOMAIN pending_transition = 1 .. Len(pending_transition)
      /\ pending_transition # <<>> <=> Len(pending_transition) > 0
  BY ListedDomain DEF HistoryInv
<1>2. Settled \in Nat /\ Len(rotations) = Settled + Len(pending_transition)
  <2>1. Len(pending_transition) <= Len(rotations)
    BY DEF HistoryInv
  <2> QED
    BY <1>1, <2>1, SMTT(60) DEF Settled
<1>3. \A j \in 1 .. Len(pending_transition) : Settled + j \in 1 .. Len(rotations)
  BY <1>1, <1>2, SMTT(60)
<1>4. \A j \in 1 .. Len(pending_transition) : pending_transition[j].boundary \in Nat
  BY <1>1, <1>3 DEF HistoryInv
<1>5. ASSUME NEW i \in 1 .. Len(pending_transition), NEW j \in 1 .. Len(pending_transition), i < j
      PROVE  pending_transition[i].boundary < pending_transition[j].boundary
  <2>1. Settled + i < Settled + j
    BY <1>2, <1>5, SMTT(60)
  <2>2. rotations[Settled + i].boundary < rotations[Settled + j].boundary
    BY <1>1, <1>3, <2>1 DEF HistoryInv
  <2> QED
    BY <1>1, <2>2 DEF HistoryInv
<1>6. \A i \in 1 .. Len(rotations) : i > Settled => i - Settled \in 1 .. Len(pending_transition)
  BY <1>1, <1>2, SMTT(60)
<1> QED
  BY <1>1, <1>2, <1>3, <1>4, <1>5, <1>6

-----------------------------------------------------------------------------
(* Checkpoints in the whole transition.                                    *)

\* The empty history governs nothing.
LEMMA InitIInv ==
  Init => IInv
<1> SUFFICES ASSUME Init PROVE IInv
  OBVIOUS
<1>1. /\ pow_state = init(Anchor) /\ stage = "idle"
      /\ verified_tip = CheckpointTip(0, CheckpointGenesisHeight, 0)
      /\ pending_transition = <<>> /\ rotations = <<>> /\ covered = <<>>
      /\ checkpoint_predicate = GenesisPredicate
  BY DEF Init, HostInit, CheckpointInit
<1>2. Anchor.height \in Nat /\ CheckpointGenesisHeight = Anchor.height
  BY HeaderAssumption, ParamsAssumption  DEF check_invariants, check_genesis_l1_height
<1>3. height = Anchor.height /\ "last_verified_block" \in DOMAIN pow_state
  BY <1>1  DEF height, init, HeaderVerificationState
<1>4. verified_tip.l1_height = Anchor.height
  BY <1>1, <1>2  DEF CheckpointTip
<1>5. TipInv
  BY <1>1, <1>2, <1>3, <1>4, SMTT(60) DEF TipInv
<1>6. Listed(<<>>) /\ Len(<<>>) = 0 /\ DOMAIN <<>> = {}
  <2>1. <<>> \in Seq({})
    BY SMTT(60)
  <2>2. Len(<<>>) = 0 /\ DOMAIN <<>> = {}
    BY SMTT(60)
  <2> QED
    BY <2>1, <2>2 DEF Listed
<1>7. HistoryInv
  BY <1>1, <1>6, SMTT(60) DEF HistoryInv, Settled
<1>8. \A h : Governing(rotations, h) = GenesisPredicate
  <2>1. \A h : Effective(rotations, h) = {}
    BY <1>1, <1>6 DEF Effective
  <2> QED
    BY <2>1 DEF Governing
<1>9. GovernedRanges
  BY <1>1, <1>6, <1>8 DEF GovernedRanges
<1>10. CoverInv
  BY <1>1, <1>4, <1>6, <1>9 DEF CoverInv, GenesisHeight
<1> QED
  BY <1>5, <1>7, <1>10 DEF IInv

\* The steps that matter to checkpoints: a new block, an accepted checkpoint and a
\* queued rotation.  All others keep the header state, the tip, both histories and the
\* queue, and none of them leaves the idle stage.
LEMMA Steps ==
  ASSUME [Next]_vars
  PROVE  \/ StartBlock /\ UNCHANGED checkpointVars
         \/ AcceptCheckpoint
         \/ queue_predicate_transition
         \/ /\ UNCHANGED <<pow_state, checkpoint_predicate, verified_tip, pending_transition,
                           rotations, covered>>
            /\ stage # "idle" \/ stage' = stage
<1>1. CASE UNCHANGED vars
  BY <1>1 DEF vars, hostVars, chainVars, checkpointVars
<1>2. CASE EndOfChain
  BY <1>2 DEF EndOfChain, vars, hostVars, chainVars, checkpointVars
<1>3. CASE HostStep
  <2>1. CASE StartBlock /\ UNCHANGED <<adminVars, checkpointVars, bridgeVars>>
    BY <2>1
  <2>2. CASE PreProcess(CollectedRequests) /\ UNCHANGED <<adminVars, checkpointVars, bridgeVars>>
    BY <2>2  DEF PreProcess, Running, checkpointVars
  <2>3. CASE Resolve /\ UNCHANGED <<adminVars, checkpointVars, bridgeVars>>
    BY <2>3  DEF Resolve, Running, checkpointVars, chainVars
  <2>4. CASE ExportBlock /\ UNCHANGED <<adminVars, checkpointVars, bridgeVars>>
    BY <2>4  DEF ExportBlock, Running, checkpointVars, chainVars
  <2> QED
    BY <1>3, <2>1, <2>2, <2>3, <2>4 DEF HostStep
<1>4. CASE AdminStep
  <2>1. UNCHANGED checkpointVars
    BY <1>4 DEF AdminStep
  <2>2. UNCHANGED chainVars /\ stage # "idle"
    <3>1. CASE DrainQueue
      BY <3>1  DEF DrainQueue, Running
    <3>2. CASE EnactQueued
      BY <3>2  DEF EnactQueued, Running
    <3>3. CASE IgnoreAdminTx
      BY <3>3  DEF IgnoreAdminTx, Running
    <3>4. CASE AuthorizedTx
      BY <3>4  DEF AuthorizedTx, Running
    <3>5. CASE TxsDone("admin", "checkpoint")
      BY <3>5  DEF TxsDone, Running
    <3>6. RejectUpdate \/ EnqueueUpdate \/ ApplyImmediately \/ CancelUpdate => AuthorizedTx
      BY DEF RejectUpdate, EnqueueUpdate, ApplyImmediately, CancelUpdate
    <3> QED
      BY <1>4, <3>1, <3>2, <3>3, <3>4, <3>5, <3>6 DEF AdminStep, AdminNext
  <2> QED
    BY <2>1, <2>2 DEF checkpointVars, chainVars
<1>5. CASE CheckpointStep
  <2>1. CASE RejectCheckpoint
    BY <2>1  DEF RejectCheckpoint, CheckpointTxReady, Running, Panic, checkpointVars, chainVars
  <2>2. CASE TxsDone("checkpoint", "bridge") /\ UNCHANGED checkpointVars
    BY <2>2  DEF TxsDone, Running, checkpointVars, chainVars
  <2>3. CASE record_deposit
    BY <2>3  DEF record_deposit, CheckpointMsgReady, HandledMsg, Running, Panic, chainVars
  <2>4. CASE update_sequencer_key
    BY <2>4  DEF update_sequencer_key, CheckpointMsgReady, HandledMsg, Running, chainVars
  <2>5. CASE MsgsDone("checkpoint", "checkpoint_msgs", "bridge_msgs") /\ UNCHANGED checkpointVars
    BY <2>5 DEF MsgsDone, Running, checkpointVars, chainVars
  <2> QED
    BY <1>5, <2>1, <2>2, <2>3, <2>4, <2>5 DEF CheckpointStep, CheckpointNext
<1>6. CASE BridgeStep
  <2>1. UNCHANGED checkpointVars
    BY <1>6 DEF BridgeStep
  <2>2. UNCHANGED chainVars /\ stage # "idle"
    <3>1. CASE SkipBridgeTx
      BY <3>1  DEF SkipBridgeTx, BridgeTxReady, BridgeTxHandled, Running, Panic
    <3>2. CASE AddDeposit
      BY <3>2  DEF AddDeposit, BridgeTxReady, BridgeTxHandled, Running
    <3>3. CASE FulfillWithdrawal
      BY <3>3  DEF FulfillWithdrawal, BridgeTxReady, BridgeTxHandled, Running, Panic
    <3>4. CASE RemoveOperator
      BY <3>4 DEF RemoveOperator, BridgeTxReady, BridgeTxHandled, Running, Panic
    <3>5. CASE TxsDone("bridge", "bridge_expired")
      BY <3>5  DEF TxsDone, Running
    <3>6. CASE reassign_expired_assignments
      BY <3>6  DEF reassign_expired_assignments, Running, Panic
    <3>7. CASE create_withdrawal_assignment
      BY <3>7  DEF create_withdrawal_assignment, BridgeMsgReady, BridgeMsgHandled, Running, Panic
    <3>8. CASE apply_operator_set_update
      BY <3>8  DEF apply_operator_set_update, BridgeMsgReady, BridgeMsgHandled, Running, Panic
    <3>9. CASE update_safe_harbor_address
      BY <3>9  DEF update_safe_harbor_address, BridgeMsgReady, BridgeMsgHandled, Running
    <3>10. CASE activate_safe_harbor
      BY <3>10  DEF activate_safe_harbor, BridgeMsgReady, BridgeMsgHandled, Running
    <3>11. CASE MsgsDone("bridge", "bridge_msgs", "export")
      BY <3>11  DEF MsgsDone, Running
    <3> QED
      BY <1>6, <3>1, <3>2, <3>3, <3>4, <3>5, <3>6, <3>7, <3>8, <3>9, <3>10, <3>11 DEF BridgeStep,
         BridgeNext
  <2> QED
    BY <2>1, <2>2 DEF checkpointVars, chainVars
<1> QED
  BY <1>1, <1>2, <1>3, <1>4, <1>5, <1>6 DEF Next

\* Every step keeps the invariant.
LEMMA IInvStep ==
  IInv /\ [Next]_vars => IInv'
\* The greatest of some positions is one of them.
<1>MaxAmong. ASSUME NEW n \in Nat, NEW T \in SUBSET (1 .. n), T # {}
             PROVE  Max(T) \in T /\ \A i \in T : i <= Max(T)
  <2> USE <1>MaxAmong
  <2> DEFINE U == {n - i : i \in T}
  <2>1. U \in SUBSET Nat /\ U # {}
    <3>1. \A i \in T : n - i \in Nat
      BY SMTT(60)
    <3>2. U # {}
      OBVIOUS
    <3> QED
      BY <3>1, <3>2
  <2>2. PICK x \in U : \A y \in U : <<y, x>> \notin OpToRel(<, Nat)
    <3> HIDE DEF U
    <3>1. IsWellFoundedOn(OpToRel(<, Nat), Nat)
      BY NatLessThanWellFounded
    <3> QED
      BY <2>1, <3>1, WFMin
  <2>3. PICK t \in T : x = n - t
    OBVIOUS
  <2>4. ASSUME NEW i \in T PROVE t >= i
    <3>1. <<n - i, n - t>> \notin OpToRel(<, Nat)
      BY <2>2, <2>3
    <3>2. n - i \in Nat /\ n - t \in Nat /\ i \in Int /\ t \in Int
      BY SMTT(60)
    <3> QED
      BY <3>1, <3>2, SMTT(60) DEF OpToRel
  <2>5. Max(T) \in T /\ \A i \in T : Max(T) >= i
    <3>1. \E m \in T : \A i \in T : m >= i
      BY <2>4
    <3> QED
      BY <3>1 DEF Max
  <2> QED
    BY <2>5
\* A step that keeps what the invariant is about keeps the invariant.
<1>OtherStep. ASSUME IInv, stage # "idle" \/ stage' = stage,
                     UNCHANGED <<pow_state, checkpoint_predicate, verified_tip, pending_transition,
                                 rotations, covered>>
              PROVE  IInv'
  <2> USE <1>OtherStep
  <2>1. /\ pow_state' = pow_state /\ checkpoint_predicate' = checkpoint_predicate
        /\ verified_tip' = verified_tip /\ pending_transition' = pending_transition
        /\ rotations' = rotations /\ covered' = covered
    OBVIOUS
  <2>2. height' = height
    BY <2>1 DEF height
  <2>3. TipInv'
    BY <2>1, <2>2  DEF IInv, TipInv
  <2>4. HistoryInv'
    BY <2>1, <2>2 DEF IInv, HistoryInv, Settled
  <2>5. CoverInv'
    BY <2>1, <2>2 DEF IInv, CoverInv, GovernedRanges, GenesisHeight
  <2> QED
    BY <2>3, <2>4, <2>5 DEF IInv
\* A verified header is one block on (check_and_update).
<1>HeightGrows. ASSUME TipInv, StartBlock
                PROVE  height' = height + 1 /\ "last_verified_block" \in DOMAIN pow_state'
  <2> USE <1>HeightGrows
  <2>1. PICK block : pow_state' = check_and_update(pow_state, block.header)
    BY DEF StartBlock
  <2> DEFINE verified == [pow_state EXCEPT !.last_verified_block = @ + 1]
             timed == update_timestamps(verified, block.header.time)
  <2>2. /\ "last_verified_block" \in DOMAIN verified
        /\ verified.last_verified_block = pow_state.last_verified_block + 1
    BY DEF TipInv
  <2>3. /\ "last_verified_block" \in DOMAIN timed
        /\ timed.last_verified_block = verified.last_verified_block
    <3> HIDE DEF verified
    <3> QED
      BY <2>2  DEF update_timestamps
  <2>4. pow_state' = [timed EXCEPT !.next_block_target = next_target(timed, block.header),
                                   !.total_accumulated_pow = @ + work(block.header.bits)]
    BY <2>1 DEF check_and_update
  <2>5. /\ "last_verified_block" \in DOMAIN pow_state'
        /\ pow_state'.last_verified_block = timed.last_verified_block
    <3> HIDE DEF timed
    <3> QED
      BY <2>3, <2>4
  <2> QED
    BY <2>2, <2>3, <2>5  DEF height
\* A new block leaves the checkpoint state and both histories alone.
<1>BlockStep. ASSUME IInv, StartBlock, UNCHANGED checkpointVars
              PROVE  IInv'
  <2> USE <1>BlockStep
  <2>1. /\ checkpoint_predicate' = checkpoint_predicate
        /\ verified_tip' = verified_tip /\ pending_transition' = pending_transition
        /\ rotations' = rotations /\ covered' = covered
    BY DEF checkpointVars
  <2>2. height' = height + 1 /\ "last_verified_block" \in DOMAIN pow_state'
    BY <1>HeightGrows DEF IInv
  <2>3. height \in Nat /\ verified_tip.l1_height \in Nat /\ verified_tip.l1_height <= height
    BY DEF IInv, TipInv
  <2>4. TipInv'
    BY <2>1, <2>2, <2>3, SMTT(60) DEF TipInv
  <2>5. HistoryInv'
    <3>1. \A i \in DOMAIN rotations : rotations[i].boundary \in Nat /\ rotations[i].boundary <= height
      BY DEF IInv, HistoryInv
    <3>2. \A i \in DOMAIN rotations : rotations[i].boundary <= height'
      BY <2>2, <2>3, <3>1, SMTT(60)
    <3> QED
      BY <2>1, <3>2 DEF IInv, HistoryInv, Settled
  <2>6. CoverInv'
    <3>1. verified_tip.l1_height < height'
      BY <2>2, <2>3, SMTT(60)
    <3> QED
      BY <2>1, <3>1 DEF IInv, CoverInv, GovernedRanges, GenesisHeight
  <2> QED
    BY <2>4, <2>5, <2>6 DEF IInv
\* The same effective rotations with the same predicates govern in the same way.
<1>SameGoverning. ASSUME NEW r, NEW q, NEW h, NEW n \in Nat,
                         Effective(r, h) \subseteq 1 .. n,
                         Effective(q, h) = Effective(r, h),
                         \A i \in 1 .. n : q[i].predicate = r[i].predicate
                  PROVE  Governing(q, h) = Governing(r, h)
  <2> USE <1>SameGoverning
  <2>1. CASE Effective(r, h) = {}
    BY <2>1 DEF Governing
  <2>2. CASE Effective(r, h) # {}
    <3>1. Max(Effective(r, h)) \in 1 .. n
      BY <2>2, <1>MaxAmong
    <3> QED
      BY <2>2, <3>1 DEF Governing
  <2> QED
    BY <2>1, <2>2
\* Eviction marks the one rotation with the boundary of the head of the queue and
\* changes nothing else.
<1>EvictMarks. ASSUME TipInv, HistoryInv, pending_transition # <<>>
               PROVE  LET history == Evict(rotations, Head(pending_transition))
                      IN  /\ Listed(history) /\ Len(history) = Len(rotations)
                          /\ \A i \in 1 .. Len(rotations) :
                                 /\ DOMAIN history[i] = {"predicate", "boundary", "evicted"}
                                 /\ history[i].boundary = rotations[i].boundary
                                 /\ history[i].predicate = rotations[i].predicate
                                 /\ history[i].evicted = IF i = Settled + 1 THEN TRUE ELSE rotations[i].evicted
  <2> USE <1>EvictMarks
  <2> DEFINE history == Evict(rotations, Head(pending_transition))
             n == Len(rotations)
  <2>0. /\ n \in Nat /\ DOMAIN rotations = 1 .. n /\ Settled \in Nat
        /\ Len(pending_transition) > 0 /\ Len(pending_transition) \in Nat
        /\ DOMAIN pending_transition = 1 .. Len(pending_transition)
        /\ Settled + 1 \in 1 .. n
    <3>1. /\ n \in Nat /\ DOMAIN rotations = 1 .. n /\ Settled \in Nat
          /\ Len(pending_transition) > 0 /\ Len(pending_transition) \in Nat
          /\ DOMAIN pending_transition = 1 .. Len(pending_transition)
          /\ n = Settled + Len(pending_transition)
      BY Positions
    <3> QED
      BY <3>1, SMTT(60)
  <2> HIDE DEF n
  <2>1. Head(pending_transition).boundary = rotations[Settled + 1].boundary
    <3>1. Head(pending_transition) = pending_transition[1]
      BY TailListed DEF HistoryInv
    <3>2. 1 \in DOMAIN pending_transition
      BY <2>0, SMTT(60)
    <3> QED
      BY <3>1, <3>2 DEF HistoryInv
  <2>2. ASSUME NEW i \in 1 .. n, rotations[i].boundary = Head(pending_transition).boundary
        PROVE  i = Settled + 1
    <3>1. \A j \in 1 .. n : j < i => rotations[j].boundary < rotations[i].boundary
      BY <2>0 DEF HistoryInv
    <3>2. \A j \in 1 .. n : i < j => rotations[i].boundary < rotations[j].boundary
      BY <2>0 DEF HistoryInv
    <3>3. rotations[i].boundary \in Nat
      BY <2>0 DEF HistoryInv
    <3> QED
      BY <2>0, <2>1, <2>2, <3>1, <3>2, <3>3, SMTT(60)
  <2>3. /\ DOMAIN history = 1 .. n
        /\ \A i \in 1 .. n : history[i] = IF i = Settled + 1 THEN [rotations[i] EXCEPT !.evicted = TRUE]
                                           ELSE rotations[i]
    <3>1. history = [i \in 1 .. n |-> IF rotations[i].boundary = Head(pending_transition).boundary
                                      THEN [rotations[i] EXCEPT !.evicted = TRUE] ELSE rotations[i]]
      BY <2>0 DEF Evict
    <3> HIDE DEF history
    <3>2. ASSUME NEW i \in 1 .. n
          PROVE  rotations[i].boundary = Head(pending_transition).boundary <=> i = Settled + 1
      BY <2>1, <2>2
    <3>3. \A i \in 1 .. n : history[i] = IF rotations[i].boundary = Head(pending_transition).boundary
                                         THEN [rotations[i] EXCEPT !.evicted = TRUE] ELSE rotations[i]
      BY <3>1
    <3>4. DOMAIN history = 1 .. n
      BY <3>1
    <3> QED
      BY <3>2, <3>3, <3>4
  <2>4. history \in [1 .. n -> {history[i] : i \in 1 .. n}]
    <3>1. history = [i \in 1 .. n |-> history[i]]
      <4>1. history = [i \in DOMAIN history |-> history[i]]
        BY DEF Evict
      <4> QED
        BY <2>3, <4>1
    <3> HIDE DEF history
    <3> QED
      BY <3>1
  <2> HIDE DEF history
  <2>5. history \in Seq({history[i] : i \in 1 .. n}) /\ Len(history) = n
    <3> DEFINE H == {history[i] : i \in 1 .. n}
    <3>1. history \in Seq(H)
      <4>1. history \in [1 .. n -> H]
        BY <2>4
      <4> HIDE DEF H
      <4> QED
        BY <2>0, <4>1, SMTT(60)
    <3>2. Len(history) \in Nat /\ DOMAIN history = 1 .. Len(history)
      BY <3>1, SMTT(60)
    <3> QED
      BY <2>0, <2>3, <3>1, <3>2, SMTT(60)
  <2>6. ASSUME NEW i \in 1 .. n
        PROVE  /\ DOMAIN history[i] = {"predicate", "boundary", "evicted"}
               /\ history[i].boundary = rotations[i].boundary
               /\ history[i].predicate = rotations[i].predicate
               /\ history[i].evicted = IF i = Settled + 1 THEN TRUE ELSE rotations[i].evicted
    <3>1. DOMAIN rotations[i] = {"predicate", "boundary", "evicted"}
      BY <2>0 DEF HistoryInv
    <3>2. history[i] = IF i = Settled + 1 THEN [rotations[i] EXCEPT !.evicted = TRUE] ELSE rotations[i]
      BY <2>3
    <3> QED
      BY <3>1, <3>2
  <2>7. Listed(history)
    BY <2>5 DEF Listed
  <2> QED
    BY <2>5, <2>6, <2>7 DEF history, n
\* A queued rotation starts above the tip and above every rotation before it, and an
\* evicted one had not started: no height a checkpoint claimed changes its predicate.
<1>QueueStep. ASSUME IInv, queue_predicate_transition
              PROVE  IInv'
  <2> USE <1>QueueStep
  <2> DEFINE n == Len(rotations)
             k == Len(pending_transition)
             d == IF QueueFull THEN 1 ELSE 0
             tip == verified_tip.l1_height
             predicate == NextMsg("checkpoint")[2]
             kept == IF QueueFull THEN Tail(pending_transition) ELSE pending_transition
             history == IF QueueFull THEN Evict(rotations, Head(pending_transition)) ELSE rotations
  <2>1. stage = "checkpoint_msgs" /\ TipInv /\ HistoryInv /\ CoverInv
    BY DEF queue_predicate_transition, CheckpointMsgReady, Running, IInv
  <2>2. /\ stage' = stage /\ pow_state' = pow_state
        /\ checkpoint_predicate' = checkpoint_predicate
        /\ verified_tip' = verified_tip /\ covered' = covered
    BY DEF queue_predicate_transition, HandledMsg, Panic, chainVars
  <2>3. CASE UNCHANGED <<pending_transition, rotations>>
    BY <2>2, <2>3, <1>OtherStep
  <2>4. CASE /\ Ordered(height)
             /\ pending_transition' = Append(kept, PendingPredicateTransition(predicate, height))
             /\ rotations' = Append(history, Rotation(predicate, height))
    <3>1. /\ n \in Nat /\ DOMAIN rotations = 1 .. n /\ k \in Nat
          /\ DOMAIN pending_transition = 1 .. k
          /\ Settled \in Nat /\ n = Settled + k
          /\ pending_transition # <<>> <=> k > 0
      BY <2>1, Positions
    <3>2. height \in Nat /\ tip \in Nat /\ tip < height /\ height' = height
      <4>1. stage # "idle"
        BY <2>1
      <4> QED
        BY <2>1, <2>2, <4>1 DEF TipInv, height
    <3>3. QueueFull => k > 0
      BY CheckpointAssumption, SMTT(60) DEF QueueFull
    <3>4. d \in {0, 1} /\ d <= k /\ (QueueFull <=> d = 1)
      BY <3>1, <3>3, SMTT(60)
    <3>5. /\ Listed(kept) /\ Len(kept) = k - d
          /\ \A j \in 1 .. k - d : kept[j] = pending_transition[j + d]
      <4>1. CASE QueueFull
        <5>1. /\ Listed(Tail(pending_transition)) /\ Len(Tail(pending_transition)) = k - 1
              /\ \A j \in 1 .. k - 1 : Tail(pending_transition)[j] = pending_transition[j + 1]
          BY <2>1, <3>1, <3>3, <4>1, TailListed DEF HistoryInv
        <5> QED
          BY <4>1, <5>1
      <4>2. CASE ~QueueFull
        <5>1. Listed(pending_transition)
          BY <2>1 DEF HistoryInv
        <5> QED
          BY <3>1, <4>2, <5>1, SMTT(60)
      <4> QED
        BY <4>1, <4>2
    <3>6. /\ Listed(history) /\ Len(history) = n
          /\ \A i \in 1 .. n :
                 /\ DOMAIN history[i] = {"predicate", "boundary", "evicted"}
                 /\ history[i].boundary = rotations[i].boundary
                 /\ history[i].predicate = rotations[i].predicate
                 /\ i # Settled + d => history[i].evicted = rotations[i].evicted
                 /\ i = Settled + d /\ QueueFull => history[i].evicted
                 /\ ~QueueFull => history[i].evicted = rotations[i].evicted
      <4>1. CASE QueueFull
        <5>1. /\ Listed(history) /\ Len(history) = n
              /\ \A i \in 1 .. n :
                 /\ DOMAIN history[i] = {"predicate", "boundary", "evicted"}
                 /\ history[i].boundary = rotations[i].boundary
                 /\ history[i].predicate = rotations[i].predicate
                 /\ history[i].evicted = IF i = Settled + 1 THEN TRUE ELSE rotations[i].evicted
          BY <2>1, <3>1, <3>3, <4>1, <1>EvictMarks
        <5>2. d = 1
          BY <4>1
        <5> HIDE DEF history, d
        <5> QED
          BY <4>1, <5>1, <5>2
      <4>2. CASE ~QueueFull
        <5>1. history = rotations
          BY <4>2
        <5> HIDE DEF history
        <5> QED
          BY <2>1, <3>1, <4>2, <5>1 DEF HistoryInv
      <4> QED
        BY <4>1, <4>2
    <3> HIDE DEF kept, history, d
    <3>7. /\ Listed(pending_transition') /\ pending_transition' # <<>>
          /\ Len(pending_transition') = k - d + 1
          /\ \A j \in 1 .. k - d : pending_transition'[j] = pending_transition[j + d]
          /\ pending_transition'[k - d + 1] = PendingPredicateTransition(predicate, height)
      <4> DEFINE e == PendingPredicateTransition(predicate, height)
      <4>1. pending_transition' = Append(kept, e)
        BY <2>4
      <4> HIDE DEF e
      <4>2. /\ Listed(Append(kept, e)) /\ Append(kept, e) # <<>>
            /\ Len(Append(kept, e)) = Len(kept) + 1
            /\ \A j \in 1 .. Len(kept) : Append(kept, e)[j] = kept[j]
            /\ Append(kept, e)[Len(kept) + 1] = e
        BY <3>5, AppendListed
      <4> QED
        BY <3>5, <4>1, <4>2 DEF e
    <3>8. /\ Listed(rotations') /\ Len(rotations') = n + 1
          /\ \A i \in 1 .. n : rotations'[i] = history[i]
          /\ rotations'[n + 1] = Rotation(predicate, height)
      <4> DEFINE e == Rotation(predicate, height)
      <4>1. rotations' = Append(history, e)
        BY <2>4
      <4> HIDE DEF e
      <4>2. /\ Listed(Append(history, e))
            /\ Len(Append(history, e)) = Len(history) + 1
            /\ \A j \in 1 .. Len(history) : Append(history, e)[j] = history[j]
            /\ Append(history, e)[Len(history) + 1] = e
        <5>1. Listed(history)
          BY <3>6
        <5> QED
          BY <5>1, AppendListed, SMTT(60)
      <4> QED
        BY <3>6, <4>1, <4>2 DEF e
    <3>9. DOMAIN pending_transition' = 1 .. k - d + 1 /\ DOMAIN rotations' = 1 .. n + 1
      BY <3>7, <3>8, ListedDomain
    <3>10. Settled' = Settled + d
      BY <3>1, <3>4, <3>7, <3>8, SMTT(60) DEF Settled
    <3>11. /\ rotations'[n + 1].boundary = height /\ rotations'[n + 1].predicate = predicate
           /\ DOMAIN rotations'[n + 1] = {"predicate", "boundary", "evicted"}
           /\ ~rotations'[n + 1].evicted
           /\ pending_transition'[k - d + 1].boundary = height
           /\ pending_transition'[k - d + 1].predicate = predicate
      <4> HIDE DEF predicate
      <4> QED
        BY <3>7, <3>8, SMTT(60) DEF Rotation, PendingPredicateTransition
    <3> HIDE DEF predicate
    <3>12. ASSUME NEW i \in 1 .. n PROVE rotations[i].boundary \in Nat /\ rotations[i].boundary < height
      <4>1. rotations[i].boundary \in Nat
        BY <2>1, <3>1 DEF HistoryInv
      <4>2. CASE k = 0
        <5>1. i \in 1 .. Settled /\ pending_transition = <<>>
          BY <3>1, <4>2, SMTT(60)
        <5>2. rotations[i].boundary <= tip
          BY <2>1, <5>1 DEF HistoryInv
        <5> QED
          BY <3>2, <4>1, <5>2, SMTT(60)
      <4>3. CASE k > 0
        <5>1. pending_transition[k].boundary < height
          BY <2>4, <3>1, <4>3 DEF Ordered, Last
        <5>2. k \in 1 .. k /\ Settled + k = n
          BY <3>1, <4>3, SMTT(60)
        <5>3. pending_transition[k].boundary = rotations[n].boundary
          BY <2>1, <3>1, <5>2 DEF HistoryInv
        <5>4. i < n => rotations[i].boundary < rotations[n].boundary
          <6>1. n \in 1 .. n
            BY <3>1, <5>2, SMTT(60)
          <6> QED
            BY <2>1, <3>1, <6>1 DEF HistoryInv
        <5>5. rotations[n].boundary \in Nat
          <6>1. n \in 1 .. n
            BY <3>1, <5>2, SMTT(60)
          <6> QED
            BY <2>1, <3>1, <6>1 DEF HistoryInv
        <5>6. i < n \/ i = n
          BY <3>1, SMTT(60)
        <5> QED
          BY <3>2, <4>1, <5>1, <5>3, <5>4, <5>5, <5>6, SMTT(60)
      <4> QED
        BY <3>1, <4>2, <4>3
    <3>13. HistoryInv'
      <4>1. Len(pending_transition') <= Len(rotations')
        BY <3>1, <3>4, <3>7, <3>8, SMTT(60)
      <4>2. ASSUME NEW i \in 1 .. n + 1
            PROVE  /\ DOMAIN rotations'[i] = {"predicate", "boundary", "evicted"}
                   /\ rotations'[i].boundary \in Nat
                   /\ rotations'[i].boundary <= height
        <5>1. CASE i \in 1 .. n
          <6>1. /\ DOMAIN rotations'[i] = {"predicate", "boundary", "evicted"}
                /\ rotations'[i].boundary = rotations[i].boundary
            BY <3>6, <3>8, <5>1
          <6> QED
            BY <3>2, <3>12, <5>1, <6>1, SMTT(60)
        <5>2. CASE i = n + 1
          BY <3>2, <3>11, <5>2, SMTT(60)
        <5> QED
          BY <3>1, <5>1, <5>2, SMTT(60)
      <4>3. ASSUME NEW i \in 1 .. n + 1, NEW j \in 1 .. n + 1, i < j
            PROVE  rotations'[i].boundary < rotations'[j].boundary
        <5>1. i \in 1 .. n /\ (j \in 1 .. n \/ j = n + 1)
          BY <3>1, <4>3, SMTT(60)
        <5>2. rotations'[i].boundary = rotations[i].boundary
          BY <3>6, <3>8, <5>1
        <5>3. CASE j \in 1 .. n
          <6>1. rotations'[j].boundary = rotations[j].boundary
            BY <3>6, <3>8, <5>3
          <6>2. rotations[i].boundary < rotations[j].boundary
            BY <2>1, <3>1, <4>3, <5>1, <5>3 DEF HistoryInv
          <6> QED
            BY <5>2, <6>1, <6>2
        <5>4. CASE j = n + 1
          <6>1. rotations[i].boundary < height
            BY <3>12, <5>1
          <6> QED
            BY <3>11, <5>2, <5>4, <6>1
        <5> QED
          BY <5>1, <5>3, <5>4
      <4>4. ASSUME NEW j \in 1 .. k - d + 1
            PROVE  /\ pending_transition'[j].boundary > tip
                   /\ pending_transition'[j].boundary = rotations'[Settled' + j].boundary
                   /\ pending_transition'[j].predicate = rotations'[Settled' + j].predicate
                   /\ ~rotations'[Settled' + j].evicted
        <5>1. CASE j \in 1 .. k - d
          <6>1. j + d \in 1 .. k /\ Settled' + j = Settled + (j + d) /\ Settled' + j \in 1 .. n
                /\ Settled' + j # Settled + d
            BY <3>1, <3>4, <3>10, <5>1, SMTT(60)
          <6>2. /\ pending_transition[j + d].boundary > tip
                /\ pending_transition[j + d].boundary = rotations[Settled + (j + d)].boundary
                /\ pending_transition[j + d].predicate = rotations[Settled + (j + d)].predicate
                /\ ~rotations[Settled + (j + d)].evicted
            BY <2>1, <3>1, <6>1 DEF HistoryInv
          <6>3. pending_transition'[j] = pending_transition[j + d]
            BY <3>7, <5>1
          <6>4. /\ rotations'[Settled' + j].boundary = rotations[Settled' + j].boundary
                /\ rotations'[Settled' + j].predicate = rotations[Settled' + j].predicate
                /\ rotations'[Settled' + j].evicted = rotations[Settled' + j].evicted
            BY <3>6, <3>8, <6>1
          <6> QED
            BY <6>1, <6>2, <6>3, <6>4
        <5>2. CASE j = k - d + 1
          <6>1. Settled' + j = n + 1
            BY <3>1, <3>4, <3>10, <5>2, SMTT(60)
          <6>2. height > tip
            BY <3>2
          <6> QED
            BY <3>11, <5>2, <6>1, <6>2
        <5> QED
          BY <3>1, <3>4, <5>1, <5>2, SMTT(60)
      <4>5. ASSUME NEW i \in 1 .. Settled'
            PROVE  rotations'[i].boundary <= tip \/ rotations'[i].evicted
        <5>1. i \in 1 .. n /\ (i \in 1 .. Settled \/ (i = Settled + d /\ d = 1))
          BY <3>1, <3>4, <3>10, SMTT(60)
        <5>2. rotations'[i] = history[i]
          BY <3>8, <5>1
        <5>3. CASE i = Settled + d /\ d = 1
          BY <3>4, <3>6, <5>1, <5>2, <5>3
        <5>4. CASE i \in 1 .. Settled /\ ~(i = Settled + d /\ d = 1)
          <6>1. rotations[i].boundary <= tip \/ rotations[i].evicted
            BY <2>1, <5>4 DEF HistoryInv
          <6>2. history[i].evicted = rotations[i].evicted
            BY <3>4, <3>6, <5>1, <5>4
          <6>3. history[i].boundary = rotations[i].boundary
            BY <3>6, <5>1
          <6> QED
            BY <5>2, <6>1, <6>2, <6>3
        <5> QED
          BY <5>1, <5>3, <5>4
      <4> QED
        BY <2>2, <3>2, <3>7, <3>8, <3>9, <4>1, <4>2, <4>3, <4>4, <4>5 DEF HistoryInv
    <3>14. ASSUME NEW h \in Int, h <= tip + 1
           PROVE  Governing(rotations', h) = Governing(rotations, h)
      <4>1. ASSUME NEW i \in 1 .. n
            PROVE  i \in Effective(rotations', h) <=> i \in Effective(rotations, h)
        <5>1. /\ rotations'[i].boundary = rotations[i].boundary
              /\ rotations[i].boundary \in Nat
          BY <3>6, <3>8, <3>12
        <5>2. rotations'[i].evicted # rotations[i].evicted => rotations[i].boundary > tip
          <6>1. rotations'[i].evicted # rotations[i].evicted => i = Settled + d /\ d = 1
            BY <3>4, <3>6, <3>8
          <6>2. ASSUME d = 1 PROVE rotations[Settled + 1].boundary > tip
            <7>1. 1 \in DOMAIN pending_transition
              BY <3>1, <3>4, <6>2, SMTT(60)
            <7> QED
              BY <2>1, <7>1 DEF HistoryInv
          <6> QED
            BY <6>1, <6>2
        <5>3. i \in DOMAIN rotations /\ i \in DOMAIN rotations'
          BY <3>1, <3>9, SMTT(60)
        <5>4. rotations[i].boundary > tip => ~(rotations[i].boundary < h)
          BY <3>2, <3>14, <5>1, SMTT(60)
        <5>5. CASE rotations[i].boundary > tip
          BY <5>1, <5>3, <5>4, <5>5 DEF Effective
        <5>6. CASE rotations'[i].evicted = rotations[i].evicted
          BY <5>1, <5>3, <5>6 DEF Effective
        <5> QED
          BY <5>2, <5>5, <5>6
      <4>2. n + 1 \notin Effective(rotations', h)
        <5>1. ~(height < h)
          BY <3>2, <3>14, SMTT(60)
        <5> QED
          BY <3>11, <5>1 DEF Effective
      <4>3. Effective(rotations', h) \subseteq 1 .. n
        <5>1. Effective(rotations', h) \subseteq 1 .. n + 1
          BY <3>9 DEF Effective
        <5> QED
          BY <3>1, <4>2, <5>1, SMTT(60)
      <4>4. Effective(rotations, h) \subseteq 1 .. n
        BY <3>1 DEF Effective
      <4>5. Effective(rotations', h) = Effective(rotations, h)
        BY <4>1, <4>3, <4>4
      <4>6. \A i \in 1 .. n : rotations'[i].predicate = rotations[i].predicate
        BY <3>6, <3>8
      <4> QED
        BY <3>1, <4>4, <4>5, <4>6, <1>SameGoverning
    <3>15. GovernedRanges'
      <4>1. ASSUME NEW i \in DOMAIN covered, NEW h \in covered[i].from .. covered[i].to
            PROVE  Governing(rotations', h) = covered[i].predicate
        <5>1. covered[i].to <= tip /\ covered[i].to \in Nat /\ covered[i].from \in Nat
          BY <2>1 DEF CoverInv
        <5>2. h \in Int /\ h <= tip + 1
          BY <3>2, <5>1, SMTT(60)
        <5>3. Governing(rotations, h) = covered[i].predicate
          BY <2>1 DEF CoverInv, GovernedRanges
        <5> QED
          BY <3>14, <5>2, <5>3
      <4>2. Governing(rotations', tip + 1) = checkpoint_predicate
        <5>1. tip + 1 \in Int /\ tip + 1 <= tip + 1
          BY <3>2, SMTT(60)
        <5> QED
          BY <2>1, <3>14, <5>1 DEF CoverInv, GovernedRanges
      <4> QED
        BY <2>1, <2>2, <3>2, <4>1, <4>2 DEF CoverInv, GovernedRanges, GenesisHeight
    <3>16. CoverInv'
      BY <2>1, <2>2, <3>15 DEF CoverInv, GenesisHeight
    <3>17. TipInv'
      BY <2>1, <2>2, <3>2 DEF TipInv
    <3> QED
      BY <3>13, <3>16, <3>17 DEF IInv
  <2> QED
    BY <2>3, <2>4 DEF queue_predicate_transition
\* An accepted checkpoint claims the heights after the tip, up to the next boundary at
\* most, all governed by the active predicate; reaching the boundary activates the next.
<1>AcceptStep. ASSUME IInv, AcceptCheckpoint
               PROVE  IInv'
  <2> USE <1>AcceptStep
  <2> DEFINE n == Len(rotations)
             k == Len(pending_transition)
             tip == verified_tip.l1_height
             payload == PayloadOf(NextTx("checkpoint"))
             new == payload.new_tip.l1_height
             first == pending_transition[1].boundary
             reached == Elapsed(payload.new_tip)
  <2>1. stage = "checkpoint" /\ TipInv /\ HistoryInv /\ CoverInv
    BY DEF AcceptCheckpoint, CheckpointTxReady, Running, IInv
  <2>2. /\ stage' = stage /\ pow_state' = pow_state /\ rotations' = rotations
        /\ verified_tip' = payload.new_tip
        /\ promote_elapsed_transition(payload.new_tip)
        /\ covered' = Append(covered, [from |-> tip + 1, to |-> new, predicate |-> checkpoint_predicate])
    BY DEF AcceptCheckpoint, advance, chainVars
  <2>3. /\ payload.new_tip \in CheckpointTips
        /\ verify_progression(verified_tip, payload.new_tip, height, pending_transition)
    BY DEF AcceptCheckpoint, Valid, Progresses, decode_checkpoint_payload, PayloadOf
  <2> HIDE DEF payload
  <2>4. /\ n \in Nat /\ DOMAIN rotations = 1 .. n /\ k \in Nat
        /\ DOMAIN pending_transition = 1 .. k
        /\ Settled \in Nat /\ n = Settled + k
        /\ pending_transition # <<>> <=> k > 0
    BY <2>1, Positions
  <2>5. /\ new \in Nat /\ tip \in Nat /\ height \in Nat
        /\ tip <= new /\ new < height
        /\ k > 0 => first \in Nat /\ first > tip /\ (new = tip \/ new <= first)
    <3>1. new \in Nat /\ tip \in Nat /\ height \in Nat
      BY <2>1, <2>3  DEF CheckpointTips, TipInv
    <3>2. /\ tip <= new /\ new < height
          /\ tip # new /\ pending_transition # <<>> => new <= Head(pending_transition).boundary
      BY <2>3 DEF verify_progression, IsEmptyRange
    <3>3. ASSUME k > 0 PROVE first \in Nat /\ first > tip /\ Head(pending_transition).boundary = first
      <4>1. 1 \in 1 .. k
        BY <2>4, <3>3, SMTT(60)
      <4>2. Head(pending_transition) = pending_transition[1]
        BY <2>1, <2>4, <3>3, TailListed DEF HistoryInv
      <4> QED
        BY <2>1, <2>4, <4>1, <4>2, Positions DEF HistoryInv
    <3> QED
      BY <2>4, <3>1, <3>2, <3>3
  <2>6. /\ reached <=> k > 0 /\ new = first
        /\ reached => checkpoint_predicate' = pending_transition[1].predicate
        /\ reached => pending_transition' = Tail(pending_transition)
        /\ ~reached => checkpoint_predicate' = checkpoint_predicate
        /\ ~reached => pending_transition' = pending_transition
        /\ k > 0 /\ ~reached => new < first
    <3>1. k > 0 => Head(pending_transition) = pending_transition[1]
      BY <2>1, <2>4, TailListed DEF HistoryInv
    <3>2. reached <=> k > 0 /\ first <= new
      BY <2>4, <3>1 DEF Elapsed
    <3>3. reached <=> k > 0 /\ new = first
      BY <2>5, <3>2, SMTT(60)
    <3>4. k > 0 /\ ~reached => new < first
      BY <2>5, <3>2, SMTT(60)
    <3>5. reached => /\ checkpoint_predicate' = pending_transition[1].predicate
                     /\ pending_transition' = Tail(pending_transition)
      BY <2>2, <3>1, <3>2 DEF promote_elapsed_transition
    <3>6. ~reached => /\ checkpoint_predicate' = checkpoint_predicate
                      /\ pending_transition' = pending_transition
      BY <2>2 DEF promote_elapsed_transition
    <3> QED
      BY <3>3, <3>4, <3>5, <3>6
  <2> HIDE DEF reached
  <2>7. height' = height /\ verified_tip'.l1_height = new
    BY <2>2 DEF height
  <2>8. TipInv'
    BY <2>1, <2>2, <2>5, <2>7, SMTT(60) DEF TipInv
  <2>9. \A j \in 1 .. k :
           /\ pending_transition[j].boundary \in Nat
           /\ pending_transition[j].boundary >= first
           /\ j > 1 => pending_transition[j].boundary > first
    <3> SUFFICES ASSUME NEW j \in 1 .. k
                 PROVE  /\ pending_transition[j].boundary \in Nat
                        /\ pending_transition[j].boundary >= first
                        /\ j > 1 => pending_transition[j].boundary > first
      OBVIOUS
    <3>1. pending_transition[j].boundary \in Nat
      BY <2>1, Positions
    <3>2. 1 \in 1 .. k /\ (j = 1 \/ 1 < j)
      BY <2>4, SMTT(60)
    <3>3. 1 < j => first < pending_transition[j].boundary
      BY <2>1, <3>2, Positions
    <3>4. first \in Nat
      BY <2>1, <3>2, Positions
    <3> QED
      BY <3>1, <3>2, <3>3, <3>4, SMTT(60)
  <2>10. \A i \in 1 .. n : rotations[i].boundary \in Nat
    BY <2>1, <2>4 DEF HistoryInv
  <2>11. ASSUME NEW i \in 1 .. n, i > Settled
         PROVE  /\ i - Settled \in 1 .. k /\ Settled + (i - Settled) = i
                /\ rotations[i].boundary = pending_transition[i - Settled].boundary
    <3>1. i - Settled \in 1 .. k /\ Settled + (i - Settled) = i
      BY <2>4, <2>11, SMTT(60)
    <3> QED
      BY <2>1, <2>4, <3>1 DEF HistoryInv
  <2>12. HistoryInv'
    <3>1. CASE ~reached
      <4>1. ASSUME NEW j \in 1 .. k PROVE pending_transition[j].boundary > new
        <5>1. k > 0
          BY <2>4, SMTT(60)
        <5>2. new < first /\ first \in Nat /\ new \in Nat
          BY <2>5, <2>6, <3>1, <5>1
        <5>3. pending_transition[j].boundary \in Nat /\ pending_transition[j].boundary >= first
          BY <2>9
        <5> QED
          BY <5>2, <5>3, SMTT(60)
      <4>2. \A i \in 1 .. Settled : rotations[i].boundary <= tip => rotations[i].boundary <= new
        BY <2>4, <2>5, <2>10, SMTT(60)
      <4> QED
        BY <2>1, <2>2, <2>4, <2>6, <2>7, <3>1, <4>1, <4>2 DEF HistoryInv, Settled
    <3>2. CASE reached
      <4>1. /\ Listed(pending_transition') /\ Len(pending_transition') = k - 1
            /\ \A j \in 1 .. k - 1 : pending_transition'[j] = pending_transition[j + 1]
        <5>1. Listed(pending_transition) /\ pending_transition # <<>>
          BY <2>1, <2>4, <2>6, <3>2 DEF HistoryInv
        <5>2. pending_transition' = Tail(pending_transition)
          BY <2>6, <3>2
        <5> QED
          BY <5>1, <5>2, TailListed
      <4>2. DOMAIN pending_transition' = 1 .. k - 1
        BY <4>1, ListedDomain
      <4>3. Settled' = Settled + 1 /\ k > 0 /\ Settled + 1 \in 1 .. n
        BY <2>2, <2>4, <2>6, <3>2, <4>1, SMTT(60) DEF Settled
      <4>4. ASSUME NEW j \in 1 .. k - 1
            PROVE  /\ pending_transition'[j].boundary > new
                   /\ pending_transition'[j].boundary = rotations'[Settled' + j].boundary
                   /\ pending_transition'[j].predicate = rotations'[Settled' + j].predicate
                   /\ ~rotations'[Settled' + j].evicted
        <5>1. j + 1 \in 1 .. k /\ j + 1 > 1 /\ Settled' + j = Settled + (j + 1)
          BY <2>4, <4>3, SMTT(60)
        <5>2. pending_transition'[j] = pending_transition[j + 1]
          BY <4>1
        <5>3. pending_transition[j + 1].boundary > new
          BY <2>6, <2>9, <3>2, <5>1
        <5> QED
          BY <2>1, <2>2, <2>4, <5>1, <5>2, <5>3 DEF HistoryInv
      <4>5. ASSUME NEW i \in 1 .. Settled' PROVE rotations'[i].boundary <= new
        <5>1. i \in 1 .. n /\ (i < Settled + 1 \/ i = Settled + 1)
          BY <2>4, <4>3, SMTT(60)
        <5>2. rotations[Settled + 1].boundary = new
          <6>1. 1 \in DOMAIN pending_transition
            BY <2>4, <4>3, SMTT(60)
          <6> QED
            BY <2>1, <2>6, <3>2, <6>1 DEF HistoryInv
        <5>3. i < Settled + 1 => rotations[i].boundary < rotations[Settled + 1].boundary
          BY <2>1, <2>4, <4>3, <5>1 DEF HistoryInv
        <5> QED
          BY <2>2, <2>5, <2>10, <5>1, <5>2, <5>3, SMTT(60)
      <4>6. Len(pending_transition') <= Len(rotations')
        BY <2>2, <2>4, <4>1, SMTT(60)
      <4> QED
        BY <2>1, <2>2, <2>7, <4>1, <4>2, <4>4, <4>5, <4>6 DEF HistoryInv
    <3> QED
      BY <3>1, <3>2
  <2>13. ASSUME NEW i \in 1 .. n, ~rotations[i].evicted
         PROVE  \/ rotations[i].boundary <= tip
                \/ k > 0 /\ rotations[i].boundary >= first /\ i > Settled
    <3>1. CASE i \in 1 .. Settled
      BY <2>1, <2>13, <3>1 DEF HistoryInv
    <3>2. CASE i > Settled
      <4>1. i - Settled \in 1 .. k /\ rotations[i].boundary = pending_transition[i - Settled].boundary
        BY <2>11, <3>2
      <4>2. k > 0
        BY <2>4, <4>1, SMTT(60)
      <4> QED
        BY <2>9, <3>2, <4>1, <4>2
    <3> QED
      BY <2>4, <3>1, <3>2, SMTT(60)
  <2>14. \A h : Effective(rotations, h) \subseteq 1 .. n
    BY <2>4 DEF Effective
  <2>15. ASSUME NEW h \in Int, tip + 1 <= h, h <= new + 1, h <= new \/ ~reached
         PROVE  Governing(rotations, h) = Governing(rotations, tip + 1)
    <3>1. ASSUME NEW i \in 1 .. n
          PROVE  i \in Effective(rotations, h) <=> i \in Effective(rotations, tip + 1)
      <4>1. rotations[i].boundary < tip + 1 => rotations[i].boundary < h
        BY <2>5, <2>10, <2>15, SMTT(60)
      <4>2. ~rotations[i].evicted /\ rotations[i].boundary < h => rotations[i].boundary < tip + 1
        <5>1. k > 0 /\ h > tip + 1 => h <= first
          BY <2>5, <2>6, <2>15, SMTT(60)
        <5> QED
          BY <2>5, <2>10, <2>13, <2>15, <5>1, SMTT(60)
      <4> QED
        BY <2>4, <4>1, <4>2 DEF Effective
    <3>2. Effective(rotations, h) \subseteq 1 .. n /\ Effective(rotations, tip + 1) \subseteq 1 .. n
      BY <2>14
    <3>3. Effective(rotations, h) = Effective(rotations, tip + 1)
      BY <3>1, <3>2
    <3> QED
      BY <3>3 DEF Governing
  <2>16. Governing(rotations, tip + 1) = checkpoint_predicate
    BY <2>1 DEF CoverInv, GovernedRanges
  <2>17. Governing(rotations, new + 1) = checkpoint_predicate'
    <3>1. CASE ~reached
      BY <2>5, <2>6, <2>15, <2>16, <3>1, SMTT(60)
    <3>2. CASE reached
      <4> DEFINE m == Settled + 1
      <4>1. /\ m \in 1 .. n /\ m - Settled = 1 /\ m > Settled /\ 1 \in 1 .. k
        BY <2>4, <2>6, <3>2, SMTT(60)
      <4>2. /\ rotations[m].boundary = new /\ ~rotations[m].evicted
            /\ rotations[m].predicate = checkpoint_predicate'
        BY <2>1, <2>4, <2>6, <3>2, <4>1 DEF HistoryInv
      <4> HIDE DEF m
      <4>3. m \in Effective(rotations, new + 1)
        <5>1. new < new + 1
          BY <2>5, SMTT(60)
        <5> QED
          BY <2>4, <4>1, <4>2, <5>1 DEF Effective
      <4>4. ASSUME NEW i \in Effective(rotations, new + 1) PROVE i <= m
        <5>1. i \in 1 .. n /\ rotations[i].boundary < new + 1
          BY <2>14 DEF Effective
        <5>2. m < i => rotations[m].boundary < rotations[i].boundary
          BY <2>1, <2>4, <4>1, <5>1 DEF HistoryInv
        <5> QED
          BY <2>4, <2>5, <2>10, <4>1, <4>2, <5>1, <5>2, SMTT(60)
      <4> DEFINE E == Effective(rotations, new + 1)
      <4>5. Max(E) \in E /\ \A i \in E : i <= Max(E)
        <5>1. E \in SUBSET (1 .. n) /\ E # {}
          BY <2>14, <4>3
        <5> HIDE DEF E
        <5> QED
          BY <2>4, <5>1, <1>MaxAmong
      <4>6. Max(E) = m
        <5>1. Max(E) <= m /\ m <= Max(E) /\ Max(E) \in 1 .. n
          BY <2>14, <4>3, <4>4, <4>5
        <5> QED
          BY <2>4, <4>1, <5>1, SMTT(60)
      <4> QED
        BY <4>2, <4>3, <4>6 DEF Governing
    <3> QED
      BY <3>1, <3>2
  <2> DEFINE c == Len(covered)
             e == [from |-> tip + 1, to |-> new, predicate |-> checkpoint_predicate]
  <2>18. c \in Nat /\ DOMAIN covered = 1 .. c /\ (covered # <<>> <=> c > 0)
    BY <2>1, ListedDomain DEF CoverInv
  <2>19. /\ Listed(covered') /\ covered' # <<>> /\ Len(covered') = c + 1
         /\ DOMAIN covered' = 1 .. c + 1
         /\ \A i \in 1 .. c : covered'[i] = covered[i]
         /\ covered'[c + 1] = e
    <3>1. covered' = Append(covered, e) /\ Listed(covered)
      BY <2>1, <2>2 DEF CoverInv
    <3> HIDE DEF e
    <3>2. /\ Listed(covered') /\ covered' # <<>> /\ Len(covered') = c + 1
          /\ \A i \in 1 .. c : covered'[i] = covered[i]
          /\ covered'[c + 1] = e
      BY <3>1, AppendListed
    <3> QED
      BY <3>2, ListedDomain
  <2>20. e.from = tip + 1 /\ e.to = new /\ e.predicate = checkpoint_predicate
    OBVIOUS
  <2> HIDE DEF e
  <2>21. \A i \in 1 .. c + 1 : i \in 1 .. c \/ i = c + 1
    BY <2>18, SMTT(60)
  <2>22. \A i \in 1 .. c + 1 :
            covered'[i].from \in Nat /\ covered'[i].to \in Nat /\ covered'[i].to <= new
    <3>1. \A i \in 1 .. c : covered[i].from \in Nat /\ covered[i].to \in Nat /\ covered[i].to <= tip
      BY <2>1, <2>18 DEF CoverInv
    <3> QED
      BY <2>5, <2>18, <2>19, <2>20, <2>21, <3>1, SMTT(60)
  <2>23. GovernedRanges'
    <3>1. ASSUME NEW i \in 1 .. c + 1
          PROVE  covered'[i].from = IF i = 1 THEN GenesisHeight + 1 ELSE covered'[i - 1].to + 1
      <4>1. CASE i \in 1 .. c
        <5>1. covered[i].from = IF i = 1 THEN GenesisHeight + 1 ELSE covered[i - 1].to + 1
          BY <2>1, <2>18, <4>1 DEF CoverInv, GovernedRanges
        <5>2. i # 1 => i - 1 \in 1 .. c
          BY <2>18, <4>1, SMTT(60)
        <5> QED
          BY <2>19, <4>1, <5>1, <5>2
      <4>2. CASE i = c + 1
        <5>1. CASE c = 0
          <6>1. tip = GenesisHeight /\ i = 1
            BY <2>1, <2>18, <4>2, <5>1, SMTT(60) DEF CoverInv
          <6> QED
            BY <2>19, <2>20, <4>2, <6>1
        <5>2. CASE c # 0
          <6>1. i # 1 /\ i - 1 = c /\ c \in 1 .. c /\ covered # <<>>
            BY <2>18, <4>2, <5>2, SMTT(60)
          <6>2. covered[c].to = tip
            BY <2>1, <6>1 DEF CoverInv
          <6> QED
            BY <2>19, <2>20, <4>2, <6>1, <6>2
        <5> QED
          BY <5>1, <5>2
      <4> QED
        BY <2>21, <4>1, <4>2
    <3>2. ASSUME NEW i \in 1 .. c + 1, NEW h \in covered'[i].from .. covered'[i].to
          PROVE  Governing(rotations', h) = covered'[i].predicate
      <4>1. CASE i \in 1 .. c
        BY <2>1, <2>2, <2>18, <2>19, <3>2, <4>1 DEF CoverInv, GovernedRanges
      <4>2. CASE i = c + 1
        <5>1. h \in tip + 1 .. new
          BY <2>19, <2>20, <3>2, <4>2
        <5>2. h \in Int /\ tip + 1 <= h /\ h <= new /\ h <= new + 1
          BY <2>5, <5>1, SMTT(60)
        <5> QED
          BY <2>2, <2>15, <2>16, <2>19, <2>20, <4>2, <5>2
      <4> QED
        BY <2>21, <4>1, <4>2
    <3> QED
      BY <2>2, <2>5, <2>7, <2>17, <2>19, <3>1, <3>2 DEF GovernedRanges, GenesisHeight
  <2>24. CoverInv'
    <3>1. covered'[Len(covered')].to = verified_tip'.l1_height
      BY <2>7, <2>19, <2>20
    <3> QED
      BY <2>7, <2>19, <2>22, <2>23, <3>1 DEF CoverInv
  <2> QED
    BY <2>8, <2>12, <2>24 DEF IInv
<1>main. IInv /\ [Next]_vars => IInv'
  <2> SUFFICES ASSUME IInv, [Next]_vars PROVE IInv'
    OBVIOUS
  <2> QED
    BY Steps, <1>OtherStep, <1>BlockStep, <1>AcceptStep, <1>QueueStep
<1> QED
  BY <1>main

\* The history and the queue belong together in every reachable state.
THEOREM Invariance ==
  Spec => []IInv
<1> QED
  BY InitIInv, IInvStep, PTL DEF Spec

\* Whatever rotations arrive, are evicted or take effect, the accepted checkpoints tile
\* the L1 heights, every height was verified under the predicate that governs it, and
\* the active predicate governs the next height (verify_progression, advance,
\* queue_predicate_transition).
THEOREM Governed ==
  Spec => []GovernedRanges
<1>1. IInv => GovernedRanges
  BY DEF IInv, CoverInv
<1> QED
  BY <1>1, Invariance, PTL

\* Queued rotations have strictly increasing boundaries above the verified tip, so
\* promote_elapsed_transition has at most one to promote.
THEOREM Ahead ==
  Spec => []TransitionsAhead
<1>1. IInv => TransitionsAhead
  <2> SUFFICES ASSUME IInv PROVE TransitionsAhead
    OBVIOUS
  <2>1. TipInv /\ HistoryInv
    BY DEF IInv
  <2>2. \A j \in DOMAIN pending_transition :
           pending_transition[j].boundary > verified_tip.l1_height
    BY <2>1 DEF HistoryInv
  <2> QED
    BY <2>1, <2>2, Positions DEF TransitionsAhead
<1> QED
  BY <1>1, Invariance, PTL

\* The safe harbor is an address and a flag.
HarborInv ==
  /\ safe_harbor = [address |-> safe_harbor.address, activated |-> safe_harbor.activated]
  /\ safe_harbor.activated \in BOOLEAN

\* Only the two messages of the bridge touch the safe harbor (update_address,
\* set_activated).
LEMMA HarborSteps ==
  ASSUME [Next]_vars
  PROVE  \/ UNCHANGED safe_harbor
         \/ \E address : safe_harbor' = update_address(safe_harbor, address)
         \/ safe_harbor' = set_activated(safe_harbor)
<1>1. CASE UNCHANGED vars
  BY <1>1 DEF vars, bridgeVars
<1>2. CASE EndOfChain
  BY <1>2 DEF EndOfChain, vars, bridgeVars
<1>3. CASE HostStep \/ AdminStep \/ CheckpointStep
  BY <1>3 DEF HostStep, AdminStep, CheckpointStep, bridgeVars
<1>4. CASE BridgeStep
  <2>1. CASE update_safe_harbor_address \/ activate_safe_harbor
    BY <2>1 DEF update_safe_harbor_address, activate_safe_harbor
  <2>2. CASE SkipBridgeTx \/ AddDeposit \/ FulfillWithdrawal \/ RemoveOperator
    BY <2>2 DEF SkipBridgeTx, AddDeposit, FulfillWithdrawal, RemoveOperator, bridgeVars
  <2>3. CASE reassign_expired_assignments \/ create_withdrawal_assignment \/ apply_operator_set_update
    BY <2>3 DEF reassign_expired_assignments, create_withdrawal_assignment,
       apply_operator_set_update
  <2>4. CASE UNCHANGED bridgeVars
    BY <2>4 DEF bridgeVars
  <2> QED
    BY <1>4, <2>1, <2>2, <2>3, <2>4 DEF BridgeStep, BridgeNext
<1> QED
  BY <1>1, <1>2, <1>3, <1>4 DEF Next

\* Both messages keep its type.
LEMMA HarborKept ==
  ASSUME HarborInv, [Next]_vars
  PROVE  HarborInv'
<1>1. CASE UNCHANGED safe_harbor
  BY <1>1 DEF HarborInv
<1>2. CASE \E address : safe_harbor' = update_address(safe_harbor, address)
  <2>1. PICK address : safe_harbor' = update_address(safe_harbor, address)
    BY <1>2
  <2>2. CASE safe_harbor.activated
    BY <2>1, <2>2 DEF update_address, HarborInv
  <2>3. CASE ~safe_harbor.activated
    <3>1. safe_harbor' = [safe_harbor EXCEPT !.address = address]
      BY <2>1, <2>3 DEF update_address
    <3>2. safe_harbor' = [address |-> address, activated |-> safe_harbor.activated]
      BY <3>1  DEF HarborInv
    <3> QED
      BY <2>3, <3>2  DEF HarborInv
  <2> QED
    BY <2>2, <2>3
<1>3. CASE safe_harbor' = set_activated(safe_harbor)
  <2>1. safe_harbor' = [address |-> safe_harbor.address, activated |-> TRUE]
    BY <1>3 DEF set_activated, HarborInv
  <2> QED
    BY <2>1  DEF HarborInv
<1> QED
  BY <1>1, <1>2, <1>3, HarborSteps

-----------------------------------------------------------------------------
(* What the transition reads from L1.                                      *)

\* The stages by name.
StageNames == {"idle", "preprocess", "resolve", "admin_pending", "admin_enact", "admin", "checkpoint",
               "bridge", "bridge_expired", "checkpoint_msgs", "bridge_msgs", "export"}

\* They are the stages of the host.
LEMMA StageNamed ==
  Range(Stages) = StageNames
<1>1. DOMAIN Stages = 1 .. 12
  BY SMTT(60) DEF Stages
<1>2. Range(Stages) \subseteq StageNames
  <2> SUFFICES ASSUME NEW i \in 1 .. 12 PROVE Stages[i] \in StageNames
    BY <1>1  DEF Range
  <2>1. i \in {1, 2, 3, 4, 5, 6, 7, 8, 9, 10, 11, 12}
    BY SMTT(60)
  <2> QED
    BY <2>1, SMTT(60) DEF Stages, StageNames
<1>3. StageNames \subseteq Range(Stages)
  <2>1. /\ Stages[1] = "idle" /\ Stages[2] = "preprocess" /\ Stages[3] = "resolve" /\ Stages[4] = "admin_pending"
        /\ Stages[5] = "admin_enact" /\ Stages[6] = "admin" /\ Stages[7] = "checkpoint" /\ Stages[8] = "bridge"
        /\ Stages[9] = "bridge_expired" /\ Stages[10] = "checkpoint_msgs" /\ Stages[11] = "bridge_msgs"
        /\ Stages[12] = "export"
    BY DEF Stages
  <2> QED
    BY <1>1, <2>1, SMTT(60) DEF Range, StageNames
<1> QED
  BY <1>2, <1>3

\* A step within a block: the chain is left alone, at most one transaction is taken, and the stage
\* moves on.
Within ==
  /\ UNCHANGED <<pow_state, headers, spec_id, next_predicate, num_entries>>
  /\ stage' = stage \/ (stage # "idle" /\ stage' \in StageNames \ {"idle", "preprocess"})
  /\ relevant' = relevant \/ \E s \in SubIds : stage = s /\ relevant[s] # <<>> /\ TakeTx(s)
  /\ stage' = "preprocess" => UNCHANGED <<relevant, mined>>

\* What a step does to the host.
LEMMA HostSteps ==
  ASSUME [Next]_vars
  PROVE  StartBlock \/ ExportBlock \/ Within
<1>1. CASE UNCHANGED vars
  BY <1>1 DEF vars, hostVars, chainVars, Within
<1>2. CASE EndOfChain
  BY <1>2 DEF EndOfChain, vars, hostVars, chainVars, Within
<1>3. CASE HostStep
  <2>1. CASE PreProcess(CollectedRequests)
    BY <2>1  DEF PreProcess, Running, Within, TakeTx, SubIds, StageNames
  <2>2. CASE Resolve
    BY <2>2  DEF Resolve, Running, chainVars, Within, TakeTx, SubIds, StageNames
  <2> QED
    BY <1>3, <2>1, <2>2 DEF HostStep
<1>4. CASE AdminStep
  <2>1. CASE DrainQueue
    BY <2>1  DEF DrainQueue, Running, chainVars, Within, TakeTx, SubIds, StageNames
  <2>2. CASE EnactQueued
    BY <2>2  DEF EnactQueued, Running, chainVars, Within, TakeTx, SubIds, StageNames
  <2>3. CASE IgnoreAdminTx
    BY <2>3  DEF IgnoreAdminTx, Running, chainVars, Within, TakeTx, SubIds, StageNames
  <2>4. CASE AuthorizedTx
    BY <2>4  DEF AuthorizedTx, Running, chainVars, Within, TakeTx, SubIds, StageNames
  <2>5. CASE TxsDone("admin", "checkpoint")
    BY <2>5  DEF TxsDone, Running, chainVars, Within, TakeTx, SubIds, StageNames
  <2>6. RejectUpdate \/ EnqueueUpdate \/ ApplyImmediately \/ CancelUpdate => AuthorizedTx
    BY DEF RejectUpdate, EnqueueUpdate, ApplyImmediately, CancelUpdate
  <2> QED
    BY <1>4, <2>1, <2>2, <2>3, <2>4, <2>5, <2>6 DEF AdminStep, AdminNext
<1>5. CASE CheckpointStep
  <2>1. CASE RejectCheckpoint
    BY <2>1  DEF RejectCheckpoint, CheckpointTxReady, Running, Panic, chainVars, Within, TakeTx, SubIds, StageNames
  <2>2. CASE AcceptCheckpoint
    BY <2>2  DEF AcceptCheckpoint, CheckpointTxReady, Running, chainVars, Within, TakeTx, SubIds, StageNames
  <2>3. CASE TxsDone("checkpoint", "bridge")
    BY <2>3  DEF TxsDone, Running, chainVars, Within, TakeTx, SubIds, StageNames
  <2>4. CASE record_deposit
    BY <2>4  DEF record_deposit, CheckpointMsgReady, HandledMsg, Running, Panic, chainVars, Within, TakeTx, SubIds, StageNames
  <2>5. CASE update_sequencer_key
    BY <2>5  DEF update_sequencer_key, CheckpointMsgReady, HandledMsg, Running, chainVars, Within, TakeTx, SubIds, StageNames
  <2>6. CASE queue_predicate_transition
    BY <2>6  DEF queue_predicate_transition, CheckpointMsgReady, HandledMsg, Running, Panic, chainVars, Within, TakeTx, SubIds, StageNames
  <2>7. CASE MsgsDone("checkpoint", "checkpoint_msgs", "bridge_msgs")
    BY <2>7  DEF MsgsDone, Running, chainVars, Within, TakeTx, SubIds, StageNames
  <2> QED
    BY <1>5, <2>1, <2>2, <2>3, <2>4, <2>5, <2>6, <2>7 DEF CheckpointStep, CheckpointNext
<1>6. CASE BridgeStep
  <2>1. CASE SkipBridgeTx
    BY <2>1  DEF SkipBridgeTx, BridgeTxReady, BridgeTxHandled, Running, Panic, chainVars, Within, TakeTx, SubIds, StageNames
  <2>2. CASE AddDeposit
    BY <2>2  DEF AddDeposit, BridgeTxReady, BridgeTxHandled, Running, chainVars, Within, TakeTx, SubIds, StageNames
  <2>3. CASE FulfillWithdrawal
    BY <2>3  DEF FulfillWithdrawal, BridgeTxReady, BridgeTxHandled, Running, Panic, chainVars, Within, TakeTx, SubIds, StageNames
  <2>4. CASE RemoveOperator
    BY <2>4  DEF RemoveOperator, BridgeTxReady, BridgeTxHandled, Running, Panic, chainVars, Within, TakeTx, SubIds, StageNames
  <2>5. CASE TxsDone("bridge", "bridge_expired")
    BY <2>5  DEF TxsDone, Running, chainVars, Within, TakeTx, SubIds, StageNames
  <2>6. CASE reassign_expired_assignments
    BY <2>6  DEF reassign_expired_assignments, Running, Panic, chainVars, Within, TakeTx, SubIds, StageNames
  <2>7. CASE create_withdrawal_assignment
    BY <2>7  DEF create_withdrawal_assignment, BridgeMsgReady, BridgeMsgHandled, Running, Panic, chainVars, Within, TakeTx, SubIds, StageNames
  <2>8. CASE apply_operator_set_update
    BY <2>8  DEF apply_operator_set_update, BridgeMsgReady, BridgeMsgHandled, Running, Panic, chainVars, Within, TakeTx, SubIds, StageNames
  <2>9. CASE update_safe_harbor_address
    BY <2>9  DEF update_safe_harbor_address, BridgeMsgReady, BridgeMsgHandled, Running, chainVars, Within, TakeTx, SubIds, StageNames
  <2>10. CASE activate_safe_harbor
    BY <2>10  DEF activate_safe_harbor, BridgeMsgReady, BridgeMsgHandled, Running, chainVars, Within, TakeTx, SubIds, StageNames
  <2>11. CASE MsgsDone("bridge", "bridge_msgs", "export")
    BY <2>11  DEF MsgsDone, Running, chainVars, Within, TakeTx, SubIds, StageNames
  <2> QED
    BY <1>6, <2>1, <2>2, <2>3, <2>4, <2>5, <2>6, <2>7, <2>8, <2>9, <2>10, <2>11 DEF BridgeStep,
       BridgeNext
<1> QED
  BY <1>1, <1>2, <1>3, <1>4, <1>5, <1>6 DEF Next

\* Only a new block touches the chain, and no other step enters the pre-processing stage.
LEMMA ChainSteps ==
  ASSUME [Next]_vars
  PROVE  \/ StartBlock
         \/ /\ UNCHANGED <<pow_state, headers>>
            /\ stage' = "preprocess" => UNCHANGED <<stage, relevant, mined>>
<1>1. CASE ExportBlock
  BY <1>1  DEF ExportBlock, Running, chainVars
<1>2. CASE Within
  BY <1>2 DEF Within
<1> QED
  BY <1>1, <1>2, HostSteps

\* The header state is typed, comes from the chain, and has verified no height past the last.
ChainInv ==
  PowTyped(pow_state, headers) /\ FromChain(pow_state, headers) /\ height <= MaxHeight

\* The block a step takes was offered on the verified tip.
LEMMA BlockTaken ==
  ASSUME ChainInv, StartBlock
  PROVE  \E block :
           /\ IsOffered(block) /\ check_block_integrity(block)
           /\ \A i \in DOMAIN block.mined \ {1} : SpendsExisting(block.mined[i])
           /\ block.header.time \in Nat /\ block.header.bits = pow_state.next_block_target
           /\ pow_state' = check_and_update(pow_state, block.header)
           /\ headers' = Append(headers, [time |-> block.header.time, bits |-> block.header.bits])
           /\ mined' = block.mined
           /\ relevant' = group_txs_by_subprotocol(block.txs)
<1>1. PICK block \in WithIntegrity[height] :
         /\ HeaderValid(pow_state, block.header)
         /\ pow_state' = check_and_update(pow_state, block.header)
         /\ headers' = Append(headers, [time |-> block.header.time, bits |-> block.header.bits])
         /\ mined' = block.mined
         /\ relevant' = group_txs_by_subprotocol(block.txs)
  BY DEF StartBlock
<1>2. height \in DOMAIN Blocks
  <2>1. height < MaxHeight
    BY DEF StartBlock
  <2>2. /\ Anchor.height \in Nat /\ MaxHeight \in Nat
        /\ height = Anchor.height + Len(headers) /\ headers \in Seq(Stamped)
    BY HeaderAssumption, HostAssumption DEF ChainInv, PowTyped, height
  <2>3. Len(headers) \in Nat
    BY <2>2, SMTT(60)
  <2>4. height \in Anchor.height .. MaxHeight - 1
    BY <2>1, <2>2, <2>3, SMTT(60)
  <2> QED
    BY <2>4, HostAssumption
<1>3. block \in Blocks[height] /\ check_block_integrity(block)
  BY <1>1, <1>2 DEF WithIntegrity
<1>4. /\ IsOffered(block) /\ block.header.time \in Nat
      /\ \A i \in DOMAIN block.mined \ {1} : SpendsExisting(block.mined[i])
  BY <1>2, <1>3, BodyAssumption, HostAssumption, SpendsAssumption
<1>5. block.header.bits = pow_state.next_block_target
  BY <1>1 DEF HeaderValid, OnTarget
<1> QED
  BY <1>1, <1>3, <1>4, <1>5

\* Every step keeps the chain.
LEMMA ChainKept ==
  ChainInv /\ [Next]_vars => ChainInv'
<1> SUFFICES ASSUME ChainInv, [Next]_vars PROVE ChainInv'
  OBVIOUS
<1>1. CASE StartBlock
  <2>1. PICK block :
          /\ block.header.time \in Nat /\ block.header.bits = pow_state.next_block_target
          /\ pow_state' = check_and_update(pow_state, block.header)
          /\ headers' = Append(headers, [time |-> block.header.time, bits |-> block.header.bits])
    BY <1>1, BlockTaken
  <2>2. PowTyped(pow_state', headers') /\ FromChain(pow_state', headers')
    BY <2>1, FromChainKept DEF ChainInv
  <2>3. height' <= MaxHeight
    <3>1. /\ height < MaxHeight /\ MaxHeight \in Nat /\ Anchor.height \in Nat /\ headers \in Seq(Stamped)
          /\ height = Anchor.height + Len(headers) /\ height' = Anchor.height + Len(headers')
      BY <1>1, <2>2, HeaderAssumption, HostAssumption DEF ChainInv, PowTyped, height, StartBlock
    <3>2. Len(headers') = Len(headers) + 1 /\ Len(headers) \in Nat
      <4>1. [time |-> block.header.time, bits |-> block.header.bits] \in Stamped
        BY <2>1 DEF Stamped, ChainInv, PowTyped
      <4> QED
        BY <2>1, <3>1, <4>1, SMTT(60)
    <3> QED
      BY <3>1, <3>2, SMTT(60)
  <2> QED
    BY <2>2, <2>3 DEF ChainInv
<1>2. CASE UNCHANGED <<pow_state, headers>>
  BY <1>2 DEF ChainInv, height
<1> QED
  BY <1>1, <1>2, ChainSteps

\* The anchor starts it.
LEMMA ChainStarts ==
  Init => ChainInv
<1> SUFFICES ASSUME Init PROVE ChainInv
  OBVIOUS
<1>1. pow_state = init(Anchor) /\ headers = <<>>
  BY DEF Init, HostInit
<1>2. PowTyped(pow_state, headers) /\ FromChain(pow_state, headers)
  BY <1>1, FromChainInit
<1>3. height = Anchor.height
  BY <1>1  DEF init, HeaderVerificationState, height
<1> QED
  BY <1>2, <1>3, HostAssumption DEF ChainInv

\* Whatever headers follow the anchor, the header state is what all of them say: the ring
\* of timestamps, the start of the interval, the work and the next target; and its stored
\* form decodes to it (check_and_update, next_target, from_delegate).
THEOREM PowFromChain ==
  Spec => []PowStateFromChain
<1>1. ChainInv => PowStateFromChain
  BY StateDecodes DEF ChainInv, PowStateFromChain
<1> QED
  BY <1>1, ChainStarts, ChainKept, PTL DEF Spec

\* Whatever body comes with a header that verifies, the subprotocols are fed exactly the
\* transactions the header was mined with, in their order (check_block_integrity,
\* group_txs_by_subprotocol).
THEOREM BodyIsMined ==
  Spec => []BodyBound
<1>1. Init => BodyBound
  BY DEF Init, HostInit, BodyBound
<1>2. ChainInv /\ BodyBound /\ [Next]_vars => BodyBound'
  <2> SUFFICES ASSUME ChainInv, BodyBound, [Next]_vars PROVE BodyBound'
    OBVIOUS
  <2>1. CASE StartBlock
    <3>1. PICK block :
            /\ IsOffered(block) /\ check_block_integrity(block)
            /\ mined' = block.mined
            /\ relevant' = group_txs_by_subprotocol(block.txs)
      BY <2>1, BlockTaken
    <3>2. Tail(block.txs) = Tail(block.mined)
      BY <3>1, BodyBinds
    <3>3. group_txs_by_subprotocol(block.txs) = group_txs_by_subprotocol(block.mined)
      BY <3>2 DEF group_txs_by_subprotocol
    <3> QED
      BY <3>1, <3>3 DEF BodyBound
  <2>2. CASE stage' = "preprocess" => UNCHANGED <<stage, relevant, mined>>
    BY <2>2 DEF BodyBound
  <2> QED
    BY <2>1, <2>2, ChainSteps
<1> QED
  BY <1>1, <1>2, ChainStarts, ChainKept, PTL DEF Spec

-----------------------------------------------------------------------------
(* The state of the host and of the checkpoints.                           *)

\* Nothing is ever sent to administration.
LEMMA AdminBox ==
  ASSUME DOMAIN inbox = SubIds, inbox["admin"] = <<>>, [Next]_vars
  PROVE  inbox'["admin"] = <<>>
<1> SUFFICES inbox' = inbox \/ StartBlock \/ inbox'["admin"] = inbox["admin"]
  BY DEF StartBlock, SubIds
<1>1. CASE UNCHANGED vars \/ EndOfChain
  BY <1>1 DEF EndOfChain, vars, hostVars
<1>2. CASE HostStep
  BY <1>2 DEF HostStep, PreProcess, Resolve, ExportBlock
<1>3. \A box, msgs : /\ DOMAIN box = SubIds
                     => /\ relay_msgs(box, "checkpoint", msgs)["admin"] = box["admin"]
                        /\ DOMAIN relay_msgs(box, "checkpoint", msgs) = SubIds
                        /\ relay_msgs(box, "bridge", msgs)["admin"] = box["admin"]
  BY DEF relay_msgs, SubIds
<1>4. TakeMsg("checkpoint") \/ TakeMsg("bridge") => inbox'["admin"] = inbox["admin"]
  BY DEF TakeMsg, SubIds
<1>5. ASSUME NEW auths, NEW update, handle_update(auths, update) PROVE inbox'["admin"] = inbox["admin"]
  <2> DEFINE mid == relay_msgs(inbox, "checkpoint", CheckpointMsgs(update))
  <2>1. inbox' = relay_msgs(mid, "bridge", BridgeMsgs(update))
    BY <1>5 DEF handle_update
  <2>2. DOMAIN mid = SubIds /\ mid["admin"] = inbox["admin"]
    BY <1>3
  <2> HIDE DEF mid
  <2> QED
    BY <1>3, <2>1, <2>2
<1>6. CASE AdminStep
  <2>1. CASE DrainQueue \/ IgnoreAdminTx \/ RejectUpdate \/ EnqueueUpdate \/ CancelUpdate
    BY <2>1 DEF DrainQueue, IgnoreAdminTx, RejectUpdate, EnqueueUpdate, CancelUpdate
  <2>2. CASE EnactQueued \/ ApplyImmediately
    BY <1>5, <2>2 DEF EnactQueued, ApplyImmediately
  <2>3. CASE TxsDone("admin", "checkpoint")
    BY <2>3 DEF TxsDone
  <2> QED
    BY <1>6, <2>1, <2>2, <2>3 DEF AdminStep, AdminNext
<1>7. CASE CheckpointStep
  <2>1. CASE RejectCheckpoint \/ TxsDone("checkpoint", "bridge")
    BY <2>1 DEF RejectCheckpoint, Panic, TxsDone
  <2>2. CASE AcceptCheckpoint
    BY <1>3, <2>2 DEF AcceptCheckpoint
  <2>3. CASE record_deposit \/ update_sequencer_key \/ queue_predicate_transition
    BY <1>4, <2>3 DEF record_deposit, update_sequencer_key, queue_predicate_transition,
       HandledMsg, Panic
  <2>4. CASE MsgsDone("checkpoint", "checkpoint_msgs", "bridge_msgs")
    BY <2>4 DEF MsgsDone
  <2> QED
    BY <1>7, <2>1, <2>2, <2>3, <2>4 DEF CheckpointStep, CheckpointNext
<1>8. CASE BridgeStep
  <2>1. CASE SkipBridgeTx \/ FulfillWithdrawal \/ RemoveOperator \/ reassign_expired_assignments
    BY <2>1 DEF SkipBridgeTx, FulfillWithdrawal, RemoveOperator, reassign_expired_assignments,
       Panic
  <2>2. CASE AddDeposit
    BY <1>3, <2>2 DEF AddDeposit
  <2>3. CASE \/ create_withdrawal_assignment \/ apply_operator_set_update
             \/ update_safe_harbor_address \/ activate_safe_harbor
    BY <1>4, <2>3 DEF create_withdrawal_assignment, apply_operator_set_update,
       update_safe_harbor_address, activate_safe_harbor, BridgeMsgHandled, Panic
  <2>4. CASE TxsDone("bridge", "bridge_expired") \/ MsgsDone("bridge", "bridge_msgs", "export")
    BY <2>4 DEF TxsDone, MsgsDone
  <2> QED
    BY <1>8, <2>1, <2>2, <2>3, <2>4 DEF BridgeStep, BridgeNext
<1> QED
  BY <1>1, <1>2, <1>6, <1>7, <1>8 DEF Next

\* The state of the host: within a block the manifest of its height is still to come, and the
\* buffers hold lists.
HostInv ==
  /\ spec_id \in {0, 1}
  /\ num_entries = IF stage = "idle" THEN height + 1 ELSE height
  /\ stage \in StageNames
  /\ DOMAIN relevant = SubIds /\ \A s \in SubIds : IsList(relevant[s])
  /\ inbox["admin"] = <<>>

\* The transactions of a body are handed out as lists.
LEMMA GroupsAreLists ==
  ASSUME NEW txs, IsList(txs), txs # <<>>
  PROVE  /\ DOMAIN group_txs_by_subprotocol(txs) = SubIds
         /\ \A s \in SubIds : /\ IsList(group_txs_by_subprotocol(txs)[s])
                              /\ Range(group_txs_by_subprotocol(txs)[s]) \subseteq Range(Tail(txs))
<1>1. IsList(Tail(txs))
  BY ListTail
<1>2. \A T : IsList(Keep(Tail(txs), T)) /\ Range(Keep(Tail(txs), T)) \subseteq Range(Tail(txs))
  <2> TAKE T
  <2>1. IsList(Keep(Tail(txs), T)) /\ Range(Keep(Tail(txs), T)) = Range(Tail(txs)) \cap T
    BY <1>1, KeepList
  <2> QED
    BY <2>1
<1> QED
  BY <1>2 DEF group_txs_by_subprotocol

\* Every step keeps the state of the host.
LEMMA HostKept ==
  ASSUME HostInv, ChainInv, DOMAIN inbox = SubIds, [Next]_vars
  PROVE  HostInv'
<1>1. inbox'["admin"] = <<>>
  BY AdminBox DEF HostInv
<1>2. height \in Nat
  <2>1. height = Anchor.height + Len(headers) /\ headers \in Seq(Stamped) /\ Anchor.height \in Nat
    BY HeaderAssumption DEF ChainInv, PowTyped, height
  <2> QED
    BY <2>1, SMTT(60)
<1>3. CASE StartBlock
  <2>1. PICK block :
          /\ IsOffered(block) /\ check_block_integrity(block)
          /\ pow_state' = check_and_update(pow_state, block.header)
          /\ headers' = Append(headers, [time |-> block.header.time, bits |-> block.header.bits])
          /\ block.header.time \in Nat /\ block.header.bits = pow_state.next_block_target
          /\ relevant' = group_txs_by_subprotocol(block.txs)
    BY <1>3, BlockTaken
  <2>2. IsList(block.txs) /\ block.txs # <<>>
    BY <2>1 DEF IsOffered, IsBody, check_block_integrity
  <2>3. DOMAIN relevant' = SubIds /\ \A s \in SubIds : IsList(relevant'[s])
    BY <2>1, <2>2, GroupsAreLists
  <2>4. /\ stage = "idle" /\ stage' = "preprocess" /\ num_entries' = num_entries
        /\ spec_id' = spec_id \/ (CanExecute /\ spec_id' = Registry[next_predicate])
    BY <1>3 DEF StartBlock, Running
  <2>5. spec_id' \in {0, 1}
    <3>1. CanExecute => Registry[next_predicate] \in {0, 1}
      BY HostAssumption DEF CanExecute
    <3> QED
      BY <2>4, <3>1 DEF HostInv
  <2>6. height' = height + 1
    <3>1. "last_verified_block" \in DOMAIN pow_state
      BY SMTT(60) DEF ChainInv, PowTyped, HeaderVerificationState
    <3>2. PowTyped(pow_state', headers') /\ FromChain(pow_state', headers')
      BY <2>1, FromChainKept DEF ChainInv
    <3>3. height = Anchor.height + Len(headers) /\ height' = Anchor.height + Len(headers')
          /\ headers \in Seq(Stamped) /\ Anchor.height \in Nat
      BY <3>2, HeaderAssumption DEF ChainInv, PowTyped, height
    <3>4. [time |-> block.header.time, bits |-> block.header.bits] \in Stamped
      BY <2>1 DEF Stamped, ChainInv, PowTyped
    <3>5. Len(headers') = Len(headers) + 1 /\ Len(headers) \in Nat
      BY <2>1, <3>3, <3>4, SMTT(60)
    <3> QED
      BY <3>3, <3>5, SMTT(60)
  <2>7. num_entries' = height'
    BY <2>4, <2>6 DEF HostInv
  <2>8. stage' # "idle" /\ stage' \in StageNames
    BY <2>4  DEF StageNames
  <2> QED
    BY <1>1, <2>3, <2>5, <2>7, <2>8 DEF HostInv
<1>4. CASE ExportBlock
  <2>1. /\ stage = "export" /\ UNCHANGED <<pow_state, spec_id, relevant>>
        /\ \/ stage' = "idle" /\ num_entries = height /\ num_entries' = num_entries + 1
           \/ stage' = stage /\ num_entries' = num_entries
    BY <1>4 DEF ExportBlock, Running, chainVars
  <2>2. height' = height
    BY <2>1 DEF height
  <2>3. stage' \in StageNames /\ stage # "idle"
    BY <2>1  DEF StageNames
  <2>4. num_entries' = IF stage' = "idle" THEN height' + 1 ELSE height'
    BY <2>1, <2>2, <2>3 DEF HostInv
  <2> QED
    BY <1>1, <2>1, <2>3, <2>4 DEF HostInv
<1>5. CASE Within
  <2>1. height' = height /\ UNCHANGED <<spec_id, num_entries>>
    BY <1>5 DEF Within, height
  <2>2. /\ stage' \in StageNames
        /\ stage' = "idle" <=> stage = "idle"
    BY <1>5  DEF Within, HostInv, StageNames
  <2>3. DOMAIN relevant' = SubIds /\ \A s \in SubIds : IsList(relevant'[s])
    <3>1. CASE relevant' = relevant
      BY <3>1 DEF HostInv
    <3>2. ASSUME NEW s \in SubIds, relevant[s] # <<>>, TakeTx(s)
          PROVE  DOMAIN relevant' = SubIds /\ \A r \in SubIds : IsList(relevant'[r])
      <4>1. IsList(Tail(relevant[s]))
        BY <3>2, ListTail DEF HostInv
      <4>2. /\ DOMAIN relevant' = SubIds
            /\ \A r \in SubIds : relevant'[r] = IF r = s THEN Tail(relevant[s]) ELSE relevant[r]
        BY <3>2 DEF TakeTx, HostInv
      <4> QED
        BY <4>1, <4>2 DEF HostInv
    <3> QED
      BY <1>5, <3>1, <3>2 DEF Within
  <2> QED
    BY <1>1, <2>1, <2>2, <2>3 DEF HostInv
<1> QED
  BY <1>3, <1>4, <1>5, HostSteps

\* The tip counts the checkpoints, and the queue of rotations is within its capacity.
CountInv ==
  /\ verified_tip \in CheckpointTips
  /\ Len(covered) = verified_tip.epoch
  /\ Len(pending_transition) <= MAX_PENDING_PREDICATE_TRANSITIONS

\* Every step keeps that.
LEMMA CountKept ==
  ASSUME IInv, CountInv, [Next]_vars
  PROVE  CountInv'
<1>1. Listed(covered) /\ Listed(pending_transition)
  BY DEF IInv, CoverInv, HistoryInv
<1>2. Len(pending_transition) \in Nat /\ (pending_transition # <<>> <=> Len(pending_transition) > 0)
  BY <1>1, ListedDomain
<1>3. CASE AcceptCheckpoint
  <2> DEFINE payload == PayloadOf(NextTx("checkpoint"))
             entry == [from |-> verified_tip.l1_height + 1, to |-> payload.new_tip.l1_height,
                       predicate |-> checkpoint_predicate]
  <2>1. /\ verified_tip' = payload.new_tip /\ promote_elapsed_transition(payload.new_tip)
        /\ covered' = Append(covered, entry)
    BY <1>3 DEF AcceptCheckpoint, advance
  <2>2. /\ payload.new_tip \in CheckpointTips
        /\ verify_progression(verified_tip, payload.new_tip, height, pending_transition)
    BY <1>3 DEF AcceptCheckpoint, Valid, Progresses, decode_checkpoint_payload, PayloadOf
  <2> HIDE DEF payload, entry
  <2>3. Len(covered') = Len(covered) + 1
    BY <1>1, <2>1, AppendListed
  <2>4. verified_tip'.epoch = verified_tip.epoch + 1
    BY <2>1, <2>2 DEF verify_progression
  <2>5. Len(pending_transition') <= MAX_PENDING_PREDICATE_TRANSITIONS
    <3>1. CASE pending_transition' = pending_transition
      BY <3>1 DEF CountInv
    <3>2. CASE pending_transition # <<>> /\ pending_transition' = Tail(pending_transition)
      <4>1. Len(pending_transition') = Len(pending_transition) - 1
        BY <1>1, <3>2, TailListed
      <4> QED
        BY <1>2, <4>1, CheckpointAssumption, SMTT(60) DEF CountInv
    <3> QED
      BY <2>1, <3>1, <3>2 DEF promote_elapsed_transition, Elapsed
  <2> QED
    BY <2>1, <2>2, <2>3, <2>4, <2>5 DEF CountInv
<1>4. CASE queue_predicate_transition
  <2>1. /\ UNCHANGED <<verified_tip, covered>>
        /\ \/ pending_transition' = pending_transition
           \/ \E e : pending_transition' =
                       Append(IF QueueFull THEN Tail(pending_transition) ELSE pending_transition, e)
    BY <1>4 DEF queue_predicate_transition
  <2>2. Len(pending_transition') <= MAX_PENDING_PREDICATE_TRANSITIONS
    <3>1. CASE pending_transition' = pending_transition
      BY <3>1 DEF CountInv
    <3>2. ASSUME NEW e, QueueFull, pending_transition' = Append(Tail(pending_transition), e)
          PROVE  Len(pending_transition') <= MAX_PENDING_PREDICATE_TRANSITIONS
      <4>1. Len(pending_transition) > 0
        BY <3>2, CheckpointAssumption, SMTT(60) DEF QueueFull
      <4>2. Listed(Tail(pending_transition)) /\ Len(Tail(pending_transition)) = Len(pending_transition) - 1
        BY <1>1, <1>2, <4>1, TailListed
      <4>3. Len(pending_transition') = Len(Tail(pending_transition)) + 1
        BY <3>2, <4>2, AppendListed
      <4> QED
        BY <1>2, <4>2, <4>3, SMTT(60) DEF CountInv
    <3>3. ASSUME NEW e, ~QueueFull, pending_transition' = Append(pending_transition, e)
          PROVE  Len(pending_transition') <= MAX_PENDING_PREDICATE_TRANSITIONS
      <4>1. Len(pending_transition') = Len(pending_transition) + 1
        BY <1>1, <3>3, AppendListed
      <4> QED
        BY <1>2, <3>3, <4>1, CheckpointAssumption, SMTT(60) DEF CountInv, QueueFull
    <3> QED
      BY <2>1, <3>1, <3>2, <3>3
  <2> QED
    BY <2>1, <2>2 DEF CountInv
<1>5. CASE UNCHANGED <<verified_tip, covered, pending_transition>>
  BY <1>5 DEF CountInv
<1> QED
  BY <1>3, <1>4, <1>5, Steps DEF checkpointVars

-----------------------------------------------------------------------------
(* The transactions that are processed.                                    *)

\* The transactions left to process.
FedInv == \A s \in SubIds : \A tx \in Range(relevant[s]) : Fed(tx)

\* Within a block the buffers of transactions only shrink.
LEMMA OnlyTaken ==
  ASSUME HostInv, Within, NEW s \in SubIds
  PROVE  Range(relevant'[s]) \subseteq Range(relevant[s])
<1>1. CASE relevant' = relevant
  BY <1>1
<1>2. ASSUME NEW r \in SubIds, relevant[r] # <<>>, TakeTx(r)
      PROVE  Range(relevant'[s]) \subseteq Range(relevant[s])
  <2>1. relevant'[s] = IF s = r THEN Tail(relevant[r]) ELSE relevant[s]
    BY <1>2 DEF TakeTx, HostInv
  <2>2. IsList(relevant[r])
    BY DEF HostInv
  <2> QED
    BY <1>2, <2>1, <2>2, FirstOfList
<1> QED
  BY <1>1, <1>2 DEF Within

\* The transactions of a block come from a body Bitcoin accepted.
LEMMA FedKept ==
  ASSUME HostInv, ChainInv, FedInv, [Next]_vars
  PROVE  FedInv'
<1>1. CASE StartBlock
  <2>1. PICK block :
          /\ IsOffered(block) /\ check_block_integrity(block)
          /\ \A i \in DOMAIN block.mined \ {1} : SpendsExisting(block.mined[i])
          /\ relevant' = group_txs_by_subprotocol(block.txs)
    BY <1>1, BlockTaken
  <2>2. Tail(block.txs) = Tail(block.mined)
    BY <2>1, BodyBinds
  <2>3. IsList(block.txs) /\ block.txs # <<>>
    BY <2>1 DEF IsOffered, IsBody, check_block_integrity
  <2>4. IsList(block.mined) /\ block.mined # <<>> /\ \A i \in DOMAIN block.mined : IsList(block.mined[i].ins)
    BY <2>1 DEF IsOffered, IsMinedBody, IsBody, IsTx
  <2>5. ASSUME NEW tx \in Range(Tail(block.mined)) PROVE Fed(tx)
    <3>1. PICK i \in DOMAIN Tail(block.mined) : tx = Tail(block.mined)[i]
      BY DEF Range
    <3>2. /\ IsList(Tail(block.mined)) /\ Len(Tail(block.mined)) = Len(block.mined) - 1
          /\ \A k \in 1 .. Len(Tail(block.mined)) : Tail(block.mined)[k] = block.mined[k + 1]
      BY <2>4, ListTail
    <3>3. /\ Len(block.mined) \in Nat /\ DOMAIN block.mined = 1 .. Len(block.mined)
          /\ DOMAIN Tail(block.mined) = 1 .. Len(Tail(block.mined))
      BY <2>4, <3>2, ListDomain
    <3>4. i + 1 \in DOMAIN block.mined \ {1} /\ tx = block.mined[i + 1]
      BY <3>1, <3>2, <3>3, SMTT(60)
    <3> QED
      BY <2>1, <2>4, <3>4 DEF Fed
  <2>6. \A s \in SubIds : Range(relevant'[s]) \subseteq Range(Tail(block.txs))
    BY <2>1, <2>3, GroupsAreLists
  <2> QED
    BY <2>2, <2>5, <2>6 DEF FedInv
<1>2. CASE ExportBlock
  BY <1>2 DEF ExportBlock, FedInv, Fed, SpendsExisting
<1>3. CASE Within
  <2>1. \A s \in SubIds : Range(relevant'[s]) \subseteq Range(relevant[s])
    BY <1>3, OnlyTaken
  <2>2. \A tx : Fed(tx)' <=> Fed(tx)
    BY DEF Fed, SpendsExisting
  <2> QED
    BY <2>1 DEF FedInv, Fed
<1> QED
  BY <1>1, <1>2, <1>3, HostSteps

-----------------------------------------------------------------------------
(* The data the handlers read.                                             *)

\* The stages in which checkpoint transactions wait.
Reading == {"admin_pending", "admin_enact", "admin", "checkpoint"}

\* The spent output and the manifests the handler of a checkpoint transaction reads.
CheckpointServed(tx, data) ==
  verify_envelope_key(tx) =>
     /\ tx.ins[1].txid \in data.txs
     /\ decode_checkpoint_payload(EnvelopeLeaf(tx)) /\ PayloadOf(tx).new_tip.l1_height < height =>
          verified_tip.l1_height + 1 .. PayloadOf(tx).new_tip.l1_height \subseteq data.heights

\* All transactions that wait are served.
CheckpointsServed(data) == \A tx \in Range(relevant["checkpoint"]) : CheckpointServed(tx, data)
BridgesServed(data) == \A tx \in Range(relevant["bridge"]) : BridgeServed(tx, data)

\* What was requested can be resolved, and covers what will be read.
DataInv ==
  /\ verified_tip.l1_height >= GenesisHeight
  /\ stage = "resolve" => /\ Resolvable(requests) /\ VerifiesAgainst(Verified(requests))
                          /\ CheckpointsServed(Verified(requests)) /\ BridgesServed(Verified(requests))
  /\ stage \in Reading => CheckpointsServed(aux)
  /\ stage \in Reading \cup {"bridge"} => BridgesServed(aux)

\* Every step keeps that.
LEMMA DataKept ==
     HostInv /\ FedInv /\ TipInv /\ CountInv /\ DataInv /\ [Next]_vars
      => DataInv'
\* The steps that matter to the data.
<1>DataSteps. ASSUME [Next]_vars
              PROVE  \/ stage' \notin Reading \cup {"resolve", "bridge"}
                     \/ PreProcess(CollectedRequests) /\ UNCHANGED checkpointVars
                     \/ Resolve /\ UNCHANGED checkpointVars
                     \/ /\ UNCHANGED <<aux, requests>>
                        /\ stage' = "resolve" => UNCHANGED <<stage, relevant, num_entries, sequencer_key, verified_tip>>
                        /\ stage' \in Reading => /\ stage \in Reading /\ UNCHANGED sequencer_key
                                                 /\ AcceptCheckpoint \/ UNCHANGED verified_tip
                        /\ stage' = "bridge" => stage \in {"checkpoint", "bridge"}
  <2> USE <1>DataSteps
  <2>1. CASE UNCHANGED vars
    BY <2>1 DEF vars, hostVars, chainVars, checkpointVars
  <2>2. CASE EndOfChain
    BY <2>2 DEF EndOfChain, vars, hostVars, chainVars, checkpointVars
  <2>3. CASE HostStep
    <3>1. CASE StartBlock
      BY <3>1  DEF StartBlock, Reading
    <3>2. CASE ExportBlock
      BY <3>2  DEF ExportBlock, Running, Reading
    <3> QED
      BY <2>3, <3>1, <3>2 DEF HostStep
  <2>4. CASE AdminStep
    <3>1. UNCHANGED <<sequencer_key, verified_tip>>
      BY <2>4 DEF AdminStep, checkpointVars
    <3>2. CASE DrainQueue
      BY <3>1, <3>2  DEF DrainQueue, Running, Reading
    <3>3. CASE EnactQueued
      BY <3>1, <3>3  DEF EnactQueued, Running, Reading
    <3>4. CASE IgnoreAdminTx
      BY <3>1, <3>4  DEF IgnoreAdminTx, Running, Reading
    <3>5. CASE AuthorizedTx
      BY <3>1, <3>5  DEF AuthorizedTx, Running, Reading
    <3>6. CASE TxsDone("admin", "checkpoint")
      BY <3>1, <3>6  DEF TxsDone, Running, Reading
    <3>7. RejectUpdate \/ EnqueueUpdate \/ ApplyImmediately \/ CancelUpdate => AuthorizedTx
      BY DEF RejectUpdate, EnqueueUpdate, ApplyImmediately, CancelUpdate
    <3> QED
      BY <2>4, <3>2, <3>3, <3>4, <3>5, <3>6, <3>7 DEF AdminStep, AdminNext
  <2>5. CASE CheckpointStep
    <3>1. CASE RejectCheckpoint
      BY <3>1  DEF RejectCheckpoint, CheckpointTxReady, Running, Panic, Reading,
         checkpointVars
    <3>2. CASE AcceptCheckpoint
      BY <3>2  DEF AcceptCheckpoint, CheckpointTxReady, Running, Reading
    <3>3. CASE TxsDone("checkpoint", "bridge") /\ UNCHANGED checkpointVars
      BY <3>3  DEF TxsDone, Running, Reading
    <3>4. CASE record_deposit \/ update_sequencer_key \/ queue_predicate_transition
      <4>1. stage = "checkpoint_msgs" /\ stage' = stage
        BY <3>4 DEF record_deposit, update_sequencer_key, queue_predicate_transition,
           CheckpointMsgReady, Running, HandledMsg, Panic
      <4> QED
        BY <4>1  DEF Reading
    <3>5. CASE MsgsDone("checkpoint", "checkpoint_msgs", "bridge_msgs")
      BY <3>5  DEF MsgsDone, Reading
    <3> QED
      BY <2>5, <3>1, <3>2, <3>3, <3>4, <3>5 DEF CheckpointStep, CheckpointNext
  <2>6. CASE BridgeStep
    <3>1. CASE SkipBridgeTx \/ AddDeposit \/ FulfillWithdrawal \/ RemoveOperator
      <4>1. stage = "bridge" /\ stage' = stage /\ UNCHANGED <<aux, requests>>
        BY <3>1 DEF SkipBridgeTx, AddDeposit, FulfillWithdrawal, RemoveOperator, BridgeTxReady,
           Running, BridgeTxHandled, Panic
      <4> QED
        BY <4>1  DEF Reading
    <3>2. CASE TxsDone("bridge", "bridge_expired")
      BY <3>2  DEF TxsDone, Reading
    <3>3. CASE reassign_expired_assignments
      <4>1. stage = "bridge_expired" /\ stage' \in {stage, "checkpoint_msgs"}
        BY <3>3 DEF reassign_expired_assignments, Running, Panic
      <4> QED
        BY <4>1  DEF Reading
    <3>4. CASE \/ create_withdrawal_assignment \/ apply_operator_set_update
               \/ update_safe_harbor_address \/ activate_safe_harbor
      <4>1. stage = "bridge_msgs" /\ stage' = stage
        BY <3>4 DEF create_withdrawal_assignment, apply_operator_set_update,
           update_safe_harbor_address, activate_safe_harbor, BridgeMsgReady, BridgeMsgHandled,
           Running, Panic
      <4> QED
        BY <4>1  DEF Reading
    <3>5. CASE MsgsDone("bridge", "bridge_msgs", "export")
      BY <3>5  DEF MsgsDone, Reading
    <3> QED
      BY <2>6, <3>1, <3>2, <3>3, <3>4, <3>5 DEF BridgeStep, BridgeNext
  <2> QED
    BY <2>1, <2>2, <2>3, <2>4, <2>5, <2>6 DEF Next
\* preprocess_parsed_tx asks for transactions that exist.
<1>BridgeRequest. ASSUME NEW tx, Fed(tx)
                  PROVE  preprocess_parsed_tx(tx) \subseteq DOMAIN L1Txs
  <2> USE <1>BridgeRequest
  <2>1. \A i \in DOMAIN tx.ins : tx.ins[i].txid \in DOMAIN L1Txs
    BY DEF Fed, SpendsExisting
  <2>2. /\ ~(IsDeposit(tx) /\ IsSlash(tx)) /\ ~(IsDeposit(tx) /\ IsUnstake(tx))
        /\ ~(IsSlash(tx) /\ IsUnstake(tx))
    <3>1. "Deposit" # "Slash" /\ "Deposit" # "Unstake" /\ "Slash" # "Unstake"
      OBVIOUS
    <3> QED
      BY <3>1 DEF IsDeposit, IsSlash, IsUnstake, ParsesAs
  <2>3. CASE IsDeposit(tx)
    <3>1. DepositInfo(tx).drt_inpoint = tx.ins[DRT_INPUT_INDEX + 1]
      BY DEF DepositInfo, InputAt
    <3>2. DRT_INPUT_INDEX + 1 \in DOMAIN tx.ins
      BY <2>3 DEF IsDeposit, parse_deposit_tx, HasInput
    <3>3. DepositInfo(tx).drt_inpoint.txid \in DOMAIN L1Txs
      BY <2>1, <3>1, <3>2
    <3> QED
      BY <2>2, <2>3, <3>3  DEF preprocess_parsed_tx
  <2>4. CASE IsSlash(tx)
    <3>1. SlashInfo(tx).stake_inpoint = tx.ins[SLASH_STAKE_INPUT_INDEX + 1]
      BY DEF SlashInfo, InputAt
    <3>2. SLASH_STAKE_INPUT_INDEX + 1 \in DOMAIN tx.ins
      BY <2>4 DEF IsSlash, parse_slash_tx, HasInput
    <3>3. SlashInfo(tx).stake_inpoint.txid \in DOMAIN L1Txs
      BY <2>1, <3>1, <3>2
    <3> QED
      BY <2>2, <2>4, <3>3  DEF preprocess_parsed_tx
  <2>5. CASE IsUnstake(tx)
    <3>1. UnstakeInfo(tx).stake_inpoint = tx.ins[UNSTAKE_STAKE_INPUT_INDEX + 1]
      BY DEF UnstakeInfo, InputAt
    <3>2. UNSTAKE_STAKE_INPUT_INDEX + 1 \in DOMAIN tx.ins
      BY <2>5 DEF IsUnstake, parse_unstake_tx, HasInput
    <3>3. UnstakeInfo(tx).stake_inpoint.txid \in DOMAIN L1Txs
      BY <2>1, <3>1, <3>2
    <3> QED
      BY <2>2, <2>5, <3>3  DEF preprocess_parsed_tx
  <2>6. CASE ~IsDeposit(tx) /\ ~IsSlash(tx) /\ ~IsUnstake(tx)
    BY <2>6  DEF preprocess_parsed_tx
  <2> QED
    BY <2>3, <2>4, <2>5, <2>6
\* request_checkpoint_aux asks for what exists, and for all the handler reads on that state.
<1>CheckpointRequest. ASSUME NEW tx, Fed(tx), verified_tip \in CheckpointTips, verified_tip.l1_height >= GenesisHeight,
                             height \in Nat, num_entries = height
                      PROVE  /\ request_checkpoint_aux(tx).txs \subseteq DOMAIN L1Txs
                             /\ \A r \in request_checkpoint_aux(tx).ranges : r[1] > GenesisHeight /\ r[2] <= last_inserted_height /\ r[2] \in Int
                             /\ \A data : /\ request_checkpoint_aux(tx).txs \subseteq data.txs
                                          /\ \A r \in request_checkpoint_aux(tx).ranges : r[1] .. r[2] \subseteq data.heights
                                          => CheckpointServed(tx, data)
  <2> USE <1>CheckpointRequest
  <2> DEFINE req == request_checkpoint_aux(tx)
             from == verified_tip.l1_height + 1
             to == PayloadOf(tx).new_tip.l1_height
             asked == IF decode_checkpoint_payload(EnvelopeLeaf(tx)) THEN request_manifest_hashes(from, to) ELSE {}
  <2>1. CASE ~verify_envelope_key(tx)
    <3>1. req.txs = {} /\ req.ranges = {}
      BY <2>1  DEF request_checkpoint_aux, NoRequests
    <3> QED
      BY <2>1, <3>1  DEF CheckpointServed
  <2>2. CASE verify_envelope_key(tx)
    <3>1. req.txs = {tx.ins[1].txid} /\ req.ranges = asked
      BY <2>2  DEF request_checkpoint_aux
    <3>2. tx.ins[1].txid \in DOMAIN L1Txs
      <4>1. IsList(tx.ins) /\ Len(tx.ins) >= 1
        BY <2>2 DEF Fed, verify_envelope_key, parse_checkpoint_envelope
      <4>2. 1 \in DOMAIN tx.ins
        BY <4>1, ListDomain, SMTT(60)
      <4> QED
        BY <4>2 DEF Fed, SpendsExisting
    <3>3. verified_tip.l1_height \in Nat /\ GenesisHeight \in Nat
      BY HeaderAssumption  DEF CheckpointTips, GenesisHeight
    <3>4. \A r \in asked : r[1] > GenesisHeight /\ r[2] <= last_inserted_height /\ r[2] \in Int
      <4> SUFFICES ASSUME NEW r \in asked PROVE r[1] > GenesisHeight /\ r[2] <= last_inserted_height /\ r[2] \in Int
        OBVIOUS
      <4>1. decode_checkpoint_payload(EnvelopeLeaf(tx)) /\ r \in request_manifest_hashes(from, to)
        OBVIOUS
      <4>2. to \in Nat
        BY <4>1  DEF decode_checkpoint_payload, PayloadOf, CheckpointTips
      <4>3. r = <<from, to>> /\ ~(from > to \/ to > last_inserted_height)
        BY <4>1 DEF request_manifest_hashes
      <4> HIDE DEF from, to
      <4>4. r[1] = from /\ r[2] = to
        BY <4>3
      <4> QED
        BY <3>3, <4>2, <4>3, <4>4, SMTT(60) DEF from, last_inserted_height
    <3>5. ASSUME NEW data, req.txs \subseteq data.txs, \A r \in req.ranges : r[1] .. r[2] \subseteq data.heights
          PROVE  CheckpointServed(tx, data)
      <4>1. tx.ins[1].txid \in data.txs
        BY <3>1, <3>5
      <4>2. ASSUME decode_checkpoint_payload(EnvelopeLeaf(tx)), to < height
            PROVE  from .. to \subseteq data.heights
        <5>1. to \in Nat
          BY <4>2  DEF decode_checkpoint_payload, PayloadOf, CheckpointTips
        <5>2. CASE from > to
          BY <3>3, <5>1, <5>2, SMTT(60)
        <5>3. CASE ~(from > to)
          <6>1. asked = {<<from, to>>}
            BY <3>3, <4>2, <5>1, <5>3, SMTT(60) DEF request_manifest_hashes, last_inserted_height
          <6> HIDE DEF asked, req, from, to
          <6>2. <<from, to>> \in req.ranges /\ <<from, to>>[1] = from /\ <<from, to>>[2] = to
            BY <3>1, <6>1
          <6>3. <<from, to>>[1] .. <<from, to>>[2] \subseteq data.heights
            BY <3>5, <6>2
          <6> QED
            BY <6>2, <6>3
        <5> QED
          BY <5>2, <5>3
      <4> QED
        BY <4>1, <4>2 DEF CheckpointServed
    <3> HIDE DEF req, asked
    <3>6. req.txs \subseteq DOMAIN L1Txs
      BY <3>1, <3>2
    <3>7. \A r \in req.ranges : r[1] > GenesisHeight /\ r[2] <= last_inserted_height /\ r[2] \in Int
      BY <3>1, <3>4
    <3> QED
      BY <3>5, <3>6, <3>7 DEF req
  <2> QED
    BY <2>1, <2>2
\* All that was collected can be resolved, verifies and serves every transaction.
<1>CollectedServes. ASSUME FedInv, verified_tip \in CheckpointTips, verified_tip.l1_height >= GenesisHeight,
                           height \in Nat, num_entries = height
                    PROVE  /\ Resolvable(CollectedRequests) /\ VerifiesAgainst(Verified(CollectedRequests))
                           /\ CheckpointsServed(Verified(CollectedRequests)) /\ BridgesServed(Verified(CollectedRequests))
  <2> USE <1>CollectedServes
  <2> DEFINE ckpt == Range(relevant["checkpoint"])
             bridge == Range(relevant["bridge"])
             all == CollectedRequests
             data == Verified(all)
  <2>1. /\ all.txs = (UNION {request_checkpoint_aux(t).txs : t \in ckpt})
                         \cup (UNION {preprocess_parsed_tx(t) : t \in bridge})
        /\ all.ranges = UNION {request_checkpoint_aux(t).ranges : t \in ckpt}
    BY DEF CollectedRequests
  <2>2. data.txs = all.txs /\ data.heights = UNION {r[1] .. r[2] : r \in all.ranges}
    BY DEF Verified
  <2>3. (\A t \in ckpt : Fed(t)) /\ (\A t \in bridge : Fed(t))
    BY DEF FedInv, SubIds
  <2>4. \A t \in ckpt : /\ request_checkpoint_aux(t).txs \subseteq DOMAIN L1Txs
                        /\ \A r \in request_checkpoint_aux(t).ranges :
                               r[1] > GenesisHeight /\ r[2] <= last_inserted_height /\ r[2] \in Int
    BY <2>3, <1>CheckpointRequest
  <2>5. \A t \in bridge : preprocess_parsed_tx(t) \subseteq DOMAIN L1Txs
    BY <2>3, <1>BridgeRequest
  <2> HIDE DEF ckpt, bridge, all, data
  <2>6. \A r \in all.ranges : r[1] > GenesisHeight /\ r[2] <= last_inserted_height
    BY <2>1, <2>4
  <2>12. \A r \in all.ranges : r[2] \in Int
    BY <2>1, <2>4
  <2>7. all.txs \subseteq DOMAIN L1Txs
    BY <2>1, <2>4, <2>5
  <2>8. Resolvable(all)
    BY <2>6, <2>7 DEF Resolvable
  <2>9. \A h \in data.heights : h <= last_inserted_height
    <3> SUFFICES ASSUME NEW h \in data.heights PROVE h <= last_inserted_height
      OBVIOUS
    <3>1. PICK r \in all.ranges : h \in r[1] .. r[2]
      BY <2>2
    <3>2. r[2] \in Int
      BY <2>12, <3>1
    <3>3. h \in Int /\ h <= r[2] /\ r[2] <= last_inserted_height /\ last_inserted_height \in Int
      BY <2>6, <3>1, <3>2, SMTT(60) DEF last_inserted_height
    <3> QED
      BY <3>2, <3>3, SMTT(60)
  <2>10. ASSUME NEW t \in ckpt PROVE CheckpointServed(t, data)
    <3>1. request_checkpoint_aux(t).txs \subseteq data.txs
      BY <2>1, <2>2
    <3>2. \A r \in request_checkpoint_aux(t).ranges : r[1] .. r[2] \subseteq data.heights
      <4>1. \A r \in request_checkpoint_aux(t).ranges : r \in all.ranges
        BY <2>1
      <4> QED
        BY <2>2, <4>1
    <3> QED
      BY <2>3, <3>1, <3>2, <1>CheckpointRequest
  <2>11. ASSUME NEW t \in bridge PROVE BridgeServed(t, data)
    BY <2>1, <2>2 DEF BridgeServed
  <2> QED
    BY <2>8, <2>9, <2>10, <2>11 DEF VerifiesAgainst, CheckpointsServed, BridgesServed, ckpt,
       bridge, all, data
\* An accepted checkpoint moves the tip on.
<1>AcceptAdvances. ASSUME AcceptCheckpoint
                   PROVE  /\ verified_tip' \in CheckpointTips /\ verified_tip.l1_height <= verified_tip'.l1_height
                          /\ stage = "checkpoint" /\ UNCHANGED <<pow_state, stage, aux, requests, num_entries>>
  <2> USE <1>AcceptAdvances
  <2> DEFINE tx == NextTx("checkpoint")
  <2>1. verified_tip' = PayloadOf(tx).new_tip /\ Progresses(tx)
    BY DEF AcceptCheckpoint, advance, Valid
  <2>2. PayloadOf(tx).new_tip \in CheckpointTips
    BY <2>1 DEF Progresses, decode_checkpoint_payload, PayloadOf
  <2>3. verified_tip.l1_height <= PayloadOf(tx).new_tip.l1_height
    BY <2>1 DEF Progresses, verify_progression
  <2>4. stage = "checkpoint" /\ UNCHANGED <<pow_state, stage, aux, requests, num_entries>>
    BY DEF AcceptCheckpoint, CheckpointTxReady, Running, chainVars
  <2> QED
    BY <2>1, <2>2, <2>3, <2>4
\* What is served stays served while the tip moves on and the sequencer key is the same.
<1>StillServed. ASSUME NEW tx, NEW data, CheckpointServed(tx, data), height' = height, sequencer_key' = sequencer_key,
                       verified_tip.l1_height \in Nat, verified_tip'.l1_height \in Nat,
                       verified_tip.l1_height <= verified_tip'.l1_height
                PROVE  CheckpointServed(tx, data)'
  <2> USE <1>StillServed
  <2> DEFINE to == PayloadOf(tx).new_tip.l1_height
  <2>1. verify_envelope_key(tx)' <=> verify_envelope_key(tx)
    BY DEF verify_envelope_key, verify_sequencer_key
  <2> SUFFICES ASSUME verify_envelope_key(tx)
               PROVE  /\ tx.ins[1].txid \in data.txs
                      /\ decode_checkpoint_payload(EnvelopeLeaf(tx)) /\ to < height =>
                           verified_tip'.l1_height + 1 .. to \subseteq data.heights
    BY <2>1 DEF CheckpointServed
  <2>2. /\ tx.ins[1].txid \in data.txs
        /\ decode_checkpoint_payload(EnvelopeLeaf(tx)) /\ to < height =>
             verified_tip.l1_height + 1 .. to \subseteq data.heights
    BY DEF CheckpointServed
  <2>3. decode_checkpoint_payload(EnvelopeLeaf(tx)) => to \in Nat
    BY DEF decode_checkpoint_payload, PayloadOf, CheckpointTips
  <2> DEFINE a == verified_tip.l1_height
             b == verified_tip'.l1_height
  <2>4. \A n \in Nat : b + 1 .. n \subseteq a + 1 .. n
    <3> HIDE DEF a, b
    <3> SUFFICES ASSUME a \in Nat, b \in Nat, a <= b, NEW n \in Nat, NEW k \in b + 1 .. n PROVE k \in a + 1 .. n
      BY DEF a, b
    <3> QED
      BY SMTT(60)
  <2> HIDE DEF to
  <2> QED
    BY <2>2, <2>3, <2>4
<1>main. ASSUME HostInv, FedInv, TipInv, CountInv, DataInv, [Next]_vars
         PROVE  DataInv'
  <2> USE <1>main
  <2>1. verified_tip \in CheckpointTips /\ height \in Nat /\ verified_tip.l1_height \in Nat /\ GenesisHeight \in Nat
    BY HeaderAssumption DEF CountInv, TipInv, GenesisHeight
  <2>2. AcceptCheckpoint \/ UNCHANGED verified_tip
    BY Steps DEF checkpointVars, queue_predicate_transition
  <2>3. verified_tip'.l1_height \in Nat /\ verified_tip.l1_height <= verified_tip'.l1_height
    <3>1. CASE AcceptCheckpoint
      <4>1. verified_tip' \in CheckpointTips /\ verified_tip.l1_height <= verified_tip'.l1_height
        BY <3>1, <1>AcceptAdvances
      <4> QED
        BY <4>1  DEF CheckpointTips
    <3>2. CASE UNCHANGED verified_tip
      BY <2>1, <3>2, SMTT(60)
    <3> QED
      BY <2>2, <3>1, <3>2
  <2>4. (verified_tip.l1_height >= GenesisHeight)'
    <3>1. verified_tip.l1_height >= GenesisHeight /\ GenesisHeight' = GenesisHeight
      BY DEF DataInv, GenesisHeight
    <3> QED
      BY <2>1, <2>3, <3>1, SMTT(60)
  <2>5. CASE stage' \notin Reading \cup {"resolve", "bridge"}
    BY <2>4, <2>5 DEF DataInv
  <2>6. CASE PreProcess(CollectedRequests) /\ UNCHANGED checkpointVars
    <3>1. /\ stage = "preprocess" /\ stage' = "resolve" /\ requests' = CollectedRequests
          /\ UNCHANGED <<pow_state, num_entries, relevant, sequencer_key, verified_tip>>
      BY <2>6 DEF PreProcess, Running, checkpointVars
    <3>2. num_entries = height /\ height' = height
      BY <3>1  DEF HostInv, height
    <3>3. /\ Resolvable(CollectedRequests) /\ VerifiesAgainst(Verified(CollectedRequests))
          /\ CheckpointsServed(Verified(CollectedRequests)) /\ BridgesServed(Verified(CollectedRequests))
      BY <2>1, <3>2, <1>CollectedServes DEF DataInv
    <3>4. stage' \notin Reading \cup {"bridge"}
      BY <3>1  DEF Reading
    <3>5. \A tx, data : CheckpointServed(tx, data)' <=> CheckpointServed(tx, data)
      BY <3>1, <3>2 DEF CheckpointServed, verify_envelope_key, verify_sequencer_key
    <3> DEFINE all == CollectedRequests
    <3> HIDE DEF all
    <3>6. requests' = all /\ Resolvable(all) /\ VerifiesAgainst(Verified(all))
          /\ CheckpointsServed(Verified(all)) /\ BridgesServed(Verified(all))
      BY <3>1, <3>3 DEF all
    <3>7. Resolvable(requests)'
      BY <3>6 DEF Resolvable, GenesisHeight
    <3>8. VerifiesAgainst(Verified(requests))'
      BY <3>1, <3>6 DEF VerifiesAgainst, Verified, last_inserted_height
    <3>9. CheckpointsServed(Verified(requests))'
      BY <3>1, <3>5, <3>6 DEF CheckpointsServed, Verified
    <3>10. BridgesServed(Verified(requests))'
      BY <3>1, <3>6 DEF BridgesServed, BridgeServed, Verified
    <3> QED
      BY <2>4, <3>4, <3>7, <3>8, <3>9, <3>10 DEF DataInv
  <2>7. CASE Resolve /\ UNCHANGED checkpointVars
    <3>1. /\ stage = "resolve" /\ UNCHANGED <<pow_state, num_entries, relevant, requests, sequencer_key, verified_tip>>
          /\ stage' = "admin_pending" /\ aux' = Verified(requests)
      BY <2>7 DEF Resolve, Running, checkpointVars, chainVars, DataInv
    <3>2. height' = height
      BY <3>1 DEF height
    <3>3. CheckpointsServed(Verified(requests)) /\ BridgesServed(Verified(requests))
      BY <3>1 DEF DataInv
    <3>4. stage' # "resolve"
      BY <3>1
    <3>5. \A tx, data : CheckpointServed(tx, data)' <=> CheckpointServed(tx, data)
      BY <3>1, <3>2 DEF CheckpointServed, verify_envelope_key, verify_sequencer_key
    <3>6. CheckpointsServed(aux)'
      BY <3>1, <3>3, <3>5 DEF CheckpointsServed
    <3>7. BridgesServed(aux)'
      BY <3>1, <3>3 DEF BridgesServed, BridgeServed
    <3> QED
      BY <2>4, <3>4, <3>6, <3>7 DEF DataInv
  <2>8. CASE /\ stage' \in Reading \cup {"resolve", "bridge"}
             /\ UNCHANGED <<aux, requests>>
             /\ stage' = "resolve" => UNCHANGED <<stage, relevant, num_entries, sequencer_key, verified_tip>>
             /\ stage' \in Reading => /\ stage \in Reading /\ UNCHANGED sequencer_key
                                      /\ AcceptCheckpoint \/ UNCHANGED verified_tip
             /\ stage' = "bridge" => stage \in {"checkpoint", "bridge"}
    <3>1. Within
      <4>1. ~StartBlock
        BY <2>8  DEF StartBlock, Reading
      <4>2. ~ExportBlock
        BY <2>8  DEF ExportBlock, Running, Reading
      <4> QED
        BY <4>1, <4>2, HostSteps
    <3>2. height' = height
      BY <3>1 DEF Within, height
    <3>3. "checkpoint" \in SubIds /\ "bridge" \in SubIds
      BY DEF SubIds
    <3>4. /\ Range(relevant'["checkpoint"]) \subseteq Range(relevant["checkpoint"])
          /\ Range(relevant'["bridge"]) \subseteq Range(relevant["bridge"])
      BY <3>1, <3>3, OnlyTaken
    <3>5. "resolve" \notin Reading /\ "checkpoint" \in Reading /\ "bridge" \notin Reading
      BY DEF Reading
    <3>6. ASSUME stage' = "resolve"
          PROVE  (/\ Resolvable(requests) /\ VerifiesAgainst(Verified(requests))
                  /\ CheckpointsServed(Verified(requests)) /\ BridgesServed(Verified(requests)))'
      <4>1. UNCHANGED <<stage, relevant, num_entries, sequencer_key, verified_tip, requests>>
        BY <2>8, <3>6
      <4>2. \A tx, data : CheckpointServed(tx, data)' <=> CheckpointServed(tx, data)
        BY <3>2, <4>1 DEF CheckpointServed, verify_envelope_key, verify_sequencer_key
      <4>3. /\ Resolvable(requests) /\ VerifiesAgainst(Verified(requests))
            /\ CheckpointsServed(Verified(requests)) /\ BridgesServed(Verified(requests))
        BY <3>6, <4>1 DEF DataInv
      <4>4. (Resolvable(requests) /\ VerifiesAgainst(Verified(requests)))'
        BY <4>1, <4>3 DEF Resolvable, GenesisHeight, VerifiesAgainst, Verified,
           last_inserted_height
      <4>5. CheckpointsServed(Verified(requests))'
        BY <4>1, <4>2, <4>3 DEF CheckpointsServed, Verified
      <4>6. BridgesServed(Verified(requests))'
        BY <4>1, <4>3 DEF BridgesServed, BridgeServed, Verified
      <4> QED
        BY <4>4, <4>5, <4>6
    <3>7. ASSUME stage' \in Reading PROVE CheckpointsServed(aux)'
      <4>1. CheckpointsServed(aux) /\ UNCHANGED <<aux, sequencer_key>>
        BY <2>8, <3>7 DEF DataInv
      <4>2. ASSUME NEW tx \in Range(relevant'["checkpoint"]), NEW data, data = aux
            PROVE  CheckpointServed(tx, data)'
        <5>1. CheckpointServed(tx, data)
          BY <3>4, <4>1, <4>2 DEF CheckpointsServed
        <5> QED
          BY <2>1, <2>3, <3>2, <4>1, <5>1, <1>StillServed
      <4>3. PICK data : data = aux
        OBVIOUS
      <4>4. \A tx \in Range(relevant'["checkpoint"]) : CheckpointServed(tx, data)'
        BY <4>2, <4>3
      <4> QED
        BY <4>1, <4>3, <4>4 DEF CheckpointsServed
    <3>8. ASSUME stage' \in Reading \cup {"bridge"} PROVE BridgesServed(aux)'
      <4>1. BridgesServed(aux) /\ UNCHANGED aux
        BY <2>8, <3>5, <3>8 DEF DataInv
      <4> QED
        BY <3>4, <4>1 DEF BridgesServed, BridgeServed
    <3> QED
      BY <2>4, <3>6, <3>7, <3>8 DEF DataInv
  <2> QED
    BY <2>5, <2>6, <2>7, <2>8, <1>DataSteps
<1> QED
  BY <1>main

\* handle_checkpoint_tx finds what pre-processing asked for.
LEMMA ServedCheckpoint ==
  ASSUME NEW tx, Fed(tx), CheckpointServed(tx, aux), TipInv
  PROVE  ~AuxMissing(tx)
<1>1. ASSUME verify_envelope_key(tx) PROVE has_bitcoin_txout(tx.ins[1])
  <2>1. tx.ins[1].txid \in aux.txs
    BY <1>1 DEF CheckpointServed
  <2>2. IsList(tx.ins) /\ Len(tx.ins) >= 1
    BY <1>1 DEF Fed, verify_envelope_key, parse_checkpoint_envelope
  <2>3. 1 \in DOMAIN tx.ins
    BY <2>2, ListDomain, SMTT(60)
  <2> QED
    BY <2>1, <2>3 DEF Fed, SpendsExisting, has_bitcoin_txout, has_bitcoin_tx
<1>2. ~MissingManifests(tx)
  <2> DEFINE new == PayloadOf(tx).new_tip
  <2> SUFFICES ASSUME Progresses(tx), ~IsEmptyRange(verified_tip, new)
               PROVE  has_manifest_hashes(verified_tip.l1_height + 1, new.l1_height)
    BY DEF MissingManifests
  <2>1. /\ verify_envelope_key(tx) /\ decode_checkpoint_payload(EnvelopeLeaf(tx))
        /\ new.l1_height < height /\ verified_tip.l1_height <= new.l1_height
    BY DEF Progresses, verify_progression
  <2>2. verified_tip.l1_height + 1 .. new.l1_height \subseteq aux.heights
    BY <2>1 DEF CheckpointServed
  <2>3. new.l1_height \in Nat
    BY <2>1  DEF decode_checkpoint_payload, PayloadOf, CheckpointTips
  <2>4. verified_tip.l1_height # new.l1_height /\ verified_tip.l1_height \in Nat
    BY DEF IsEmptyRange, TipInv
  <2> HIDE DEF new
  <2>5. verified_tip.l1_height + 1 <= new.l1_height
    BY <2>1, <2>3, <2>4, SMTT(60)
  <2> QED
    BY <2>2, <2>5 DEF has_manifest_hashes
<1> QED
  BY <1>1, <1>2 DEF AuxMissing, MissingSpentOutput

=============================================================================
