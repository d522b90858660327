------------------------------ MODULE PegProofs ------------------------------
(***************************************************************************)
(* Proofs about the bridge and the peg in the whole transition: the        *)
(* operator table, the deposits and the assignments stay sound, and the    *)
(* vault, the pool, the orders in flight and the assignments implement the *)
(* abstract peg of module Peg.                                             *)
(*                                                                         *)
(* The counts of the peg are not inductive as they stand: between the      *)
(* bridge, the checkpoints and administration a deposit or a withdrawal is *)
(* for a while only a message.  CountsInv adds what is in flight.          *)
(*                                                                         *)
(* With the invariants of all parts at hand the last sections prove that   *)
(* the whole state keeps its type and that no block panics the transition. *)
(* RunInv is inductive for the latter: the deposits held are those of the  *)
(* pool and of the messages, one operator is in every configuration, the   *)
(* data covers the transactions that wait, and rotations come in order.    *)
(***************************************************************************)
EXTENDS AdminProofs, BridgeProofs, AsmStfProofs

\* A leaf that names no prover is given to Zenon.
USE ZenonT(60)

-----------------------------------------------------------------------------
(* The bridge, and the messages between the subprotocols.                  *)

\* What administration sends carries no deposit and orders no withdrawal (handle_update).
LEMMA UpdateMessages ==
  ASSUME NEW update, WellFormed(update)
  PROVE  /\ CheckpointBox(CheckpointMsgs(update)) /\ DepositsIn(CheckpointMsgs(update)) = 0
         /\ BridgeBox(BridgeMsgs(update)) /\ UnitsIn(BridgeMsgs(update)) = 0
<1> DEFINE type == update_tx_type(update)
           ck == CheckpointMsgs(update)
           br == BridgeMsgs(update)
<1>1. \/ ck = <<>>
      \/ ck = << <<"UpdateSequencerKey", update[2]>> >>
      \/ ck = << <<"UpdateCheckpointPredicate", update[2]>> >>
  BY DEF CheckpointMsgs, relay_checkpoint_sequencer_update, relay_checkpoint_predicate_update
<1>2. \/ br = <<>>
      \/ br = << <<"UpdateOperatorSet", update[2]>> >> /\ type = "Operator"
      \/ br = << <<"Defcon", 0>> >>
      \/ br = << <<"UpdateSafeHarborAddress", update[2]>> >>
  BY DEF BridgeMsgs, relay_bridge_operator_set_update, relay_bridge_defcon,
     relay_bridge_safe_harbor_address_update
<1> HIDE DEF ck, br, type
<1>3. CheckpointBox(ck) /\ DepositsIn(ck) = 0
  <2>1. ASSUME NEW kind, kind # "DepositProcessed"
        PROVE  /\ CheckpointMsg(<<kind, update[2]>>) /\ DepositCount(<<kind, update[2]>>) = 0
    BY <2>1  DEF CheckpointMsg, DepositCount
  <2>2. "UpdateSequencerKey" # "DepositProcessed" /\ "UpdateCheckpointPredicate" # "DepositProcessed"
    OBVIOUS
  <2>3. CASE ck = <<>>
    BY <2>3, BoxesOf, NoneInFlight
  <2>4. ASSUME NEW kind, kind # "DepositProcessed", ck = << <<kind, update[2]>> >>
        PROVE  CheckpointBox(ck) /\ DepositsIn(ck) = 0
    BY <2>1, <2>4, OneMessage
  <2> QED
    BY <1>1, <2>2, <2>3, <2>4
<1>4. BridgeBox(br) /\ UnitsIn(br) = 0
  <2>1. ASSUME NEW kind, NEW content, kind # "DispatchWithdrawal",
               kind = "UpdateOperatorSet" => IsList(content.add_members)
        PROVE  BridgeMsg(<<kind, content>>) /\ UnitCount(<<kind, content>>) = 0
    BY <2>1  DEF BridgeMsg, UnitCount
  <2>2. /\ "UpdateOperatorSet" # "DispatchWithdrawal"
        /\ "Defcon" # "DispatchWithdrawal" /\ "Defcon" # "UpdateOperatorSet"
        /\ "UpdateSafeHarborAddress" # "DispatchWithdrawal"
        /\ "UpdateSafeHarborAddress" # "UpdateOperatorSet"
    OBVIOUS
  <2>3. CASE br = <<>>
    BY <2>3, BoxesOf, NoneInFlight
  <2>4. ASSUME NEW kind, NEW content, kind # "DispatchWithdrawal",
               kind = "UpdateOperatorSet" => IsList(content.add_members),
               br = << <<kind, content>> >>
        PROVE  BridgeBox(br) /\ UnitsIn(br) = 0
    BY <2>1, <2>4, OneMessage
  <2>5. type = "Operator" => IsList(update[2].add_members)
    BY DEF WellFormed, type
  <2> QED
    BY <1>2, <2>2, <2>3, <2>4, <2>5
<1> QED
  BY <1>3, <1>4 DEF ck, br

\* An enacted update.
LEMMA UpdateRelayed ==
  ASSUME CountsInv, UNCHANGED bridgeVars, stage \in {"admin", "admin_enact"},
         stage' \in {"admin", "admin_enact"},
         NEW auths, NEW update, WellFormed(update), handle_update(auths, update)
  PROVE  Counted
<1> DEFINE ck == CheckpointMsgs(update)
           br == BridgeMsgs(update)
           mid == relay_msgs(inbox, "checkpoint", ck)
<1>1. inbox' = relay_msgs(mid, "bridge", br)
  BY DEF handle_update
<1>2. CheckpointBox(ck) /\ DepositsIn(ck) = 0 /\ BridgeBox(br) /\ UnitsIn(br) = 0
  BY UpdateMessages
<1>3. BoxesInv(inbox, stage) /\ CheckpointBox(inbox["checkpoint"]) /\ BridgeBox(inbox["bridge"])
  BY DEF CountsInv, BoxesInv
<1>4. /\ stage \notin {"bridge_msgs", "export", "idle"} /\ stage' \notin {"bridge_msgs", "export", "idle"}
      /\ stage \notin {"export", "idle"}
  OBVIOUS
<1> HIDE DEF ck, br
<1>5. /\ BoxesInv(mid, stage) /\ mid["checkpoint"] = inbox["checkpoint"] \o ck
      /\ mid["bridge"] = inbox["bridge"]
  BY <1>2, <1>3, <1>4, RelayToCheckpoint
<1> HIDE DEF mid
<1>6. /\ BoxesInv(inbox', stage) /\ inbox'["bridge"] = mid["bridge"] \o br
      /\ inbox'["checkpoint"] = mid["checkpoint"]
  BY <1>1, <1>2, <1>4, <1>5, RelayToBridge
<1>7. BoxesInv(inbox', stage')
  BY <1>4, <1>6 DEF BoxesInv
<1>8. DepositsIn(inbox["checkpoint"] \o ck) = DepositsIn(inbox["checkpoint"])
  <2>1. IsList(inbox["checkpoint"]) /\ IsList(ck)
    BY <1>2, <1>3 DEF CheckpointBox
  <2> QED
    BY <1>2, <2>1, DepositsInFlight, SMTT(60)
<1>9. UnitsIn(inbox["bridge"] \o br) = UnitsIn(inbox["bridge"])
  BY <1>2, <1>3, UnitsInFlight, SMTT(60)
<1>10. Reported' = Reported /\ Asked' = Asked
  BY <1>5, <1>6, <1>8, <1>9 DEF Reported, Asked
<1> QED
  BY <1>7, <1>10, SameTables

\* The steps of the host: messages are in flight within a block only.
LEMMA HostCounted ==
  ASSUME CountsInv, HostStep
  PROVE  Counted
<1>1. UNCHANGED bridgeVars
  BY DEF HostStep
<1>2. deposits' = deposits /\ assignments' = assignments /\ fulfilled' = fulfilled
  BY <1>1 DEF bridgeVars
<1>3. CASE StartBlock
  <2>1. stage = "idle" /\ stage' = "preprocess" /\ inbox' = [s \in SubIds |-> <<>>]
    BY <1>3 DEF StartBlock, Running
  <2>2. inbox["checkpoint"] = <<>> /\ inbox["bridge"] = <<>>
    BY <2>1 DEF CountsInv, BoxesInv
  <2>3. DOMAIN inbox' = SubIds /\ inbox'["checkpoint"] = <<>> /\ inbox'["bridge"] = <<>>
    BY <2>1  DEF SubIds
  <2>4. BoxesInv(inbox', stage')
    BY <2>3, BoxesOf DEF BoxesInv
  <2>5. Reported' = Reported /\ Asked' = Asked
    BY <2>2, <2>3 DEF Reported, Asked
  <2> QED
    BY <1>1, <2>4, <2>5, SameTables
<1>4. CASE PreProcess(CollectedRequests)
  <2>1. inbox' = inbox /\ stage' = "resolve"
    BY <1>4 DEF PreProcess
  <2>2. stage' \notin {"bridge_msgs", "export", "idle"}
    BY <2>1
  <2> QED
    BY <1>2, <2>1, <2>2, UncountedStep
<1>5. CASE Resolve
  <2>1. inbox' = inbox /\ (stage' = "admin_pending" \/ stage' = stage)
    BY <1>5 DEF Resolve
  <2>2. stage' \notin {"bridge_msgs", "export", "idle"} \/ stage' = stage
    BY <2>1
  <2> QED
    BY <1>2, <2>1, <2>2, UncountedStep
<1>6. CASE ExportBlock
  <2>1. inbox' = inbox /\ stage = "export" /\ (stage' = "idle" \/ stage' = stage)
    BY <1>6 DEF ExportBlock, Running
  <2> QED
    BY <1>2, <2>1, UncountedStep
<1> QED
  BY <1>3, <1>4, <1>5, <1>6 DEF HostStep

\* The steps of administration: its messages order and report nothing.
LEMMA AdminCounted ==
  ASSUME AdminInv, CountsInv, AdminStep
  PROVE  Counted
<1>1. UNCHANGED bridgeVars /\ AdminNext
  BY DEF AdminStep
<1>2. deposits' = deposits /\ assignments' = assignments /\ fulfilled' = fulfilled
  BY <1>1 DEF bridgeVars
<1>3. CASE DrainQueue
  <2>1. inbox' = inbox /\ (stage' = "admin" \/ stage' = "admin_enact")
    BY <1>3 DEF DrainQueue
  <2>2. stage' \notin {"bridge_msgs", "export", "idle"}
    BY <2>1
  <2> QED
    BY <1>2, <2>1, <2>2, UncountedStep
<1>4. CASE EnactQueued
  <2>1. stage = "admin_enact" /\ handle_update(authorities, Head(enacting).action)
    BY <1>4 DEF EnactQueued, Running
  <2>2. stage' = "admin" \/ stage' = "admin_enact"
    BY <1>4, <2>1 DEF EnactQueued
  <2>3. Waiting(queued, enacting, accepted) /\ Due(queued, enacting, height, "admin_enact")
    BY <2>1 DEF AdminInv
  <2>4. 1 \in DOMAIN enacting /\ Head(enacting) = enacting[1]
    BY <2>3, EnactDue DEF Waiting
  <2>5. WellFormed(Head(enacting).action)
    BY <2>3, <2>4 DEF Waiting, Pending
  <2>6. stage \in {"admin", "admin_enact"} /\ stage' \in {"admin", "admin_enact"}
    BY <2>1, <2>2
  <2> QED
    BY <1>1, <2>1, <2>5, <2>6, UpdateRelayed
<1>5. CASE IgnoreAdminTx
  BY <1>2, <1>5, UncountedStep DEF IgnoreAdminTx
<1>6. CASE RejectUpdate \/ EnqueueUpdate \/ CancelUpdate
  <2>1. AuthorizedTx /\ inbox' = inbox
    BY <1>6 DEF RejectUpdate, EnqueueUpdate, CancelUpdate
  <2> QED
    BY <1>2, <2>1, UncountedStep DEF AuthorizedTx
<1>7. CASE ApplyImmediately
  <2> DEFINE payload == AdminPayload(NextTx("admin"))
  <2>1. AuthorizedTx /\ ~IsCancel(payload) /\ handle_update(update_last_seqno(payload), payload.action)
    BY <1>7 DEF ApplyImmediately
  <2>2. WellFormed(payload.action) /\ stage = "admin" /\ stage' = stage
    BY <2>1, AuthorizedFacts
  <2>3. stage \in {"admin", "admin_enact"} /\ stage' \in {"admin", "admin_enact"}
    BY <2>2
  <2> HIDE DEF payload
  <2> QED
    BY <1>1, <2>1, <2>2, <2>3, UpdateRelayed
<1>8. CASE TxsDone("admin", "checkpoint")
  <2>1. inbox' = inbox /\ stage' = "checkpoint"
    BY <1>8 DEF TxsDone
  <2>2. stage' \notin {"bridge_msgs", "export", "idle"}
    BY <2>1
  <2> QED
    BY <1>2, <2>1, <2>2, UncountedStep
<1> QED
  BY <1>1, <1>3, <1>4, <1>5, <1>6, <1>7, <1>8 DEF AdminNext

\* The steps of the checkpoint subprotocol.
LEMMA CheckpointCounted ==
  ASSUME CountsInv, PoolInv(pool), CheckpointStep
  PROVE  PegStep
<1>1. UNCHANGED bridgeVars /\ CheckpointNext
  BY DEF CheckpointStep
<1>2. deposits' = deposits /\ assignments' = assignments /\ fulfilled' = fulfilled
  BY <1>1 DEF bridgeVars
<1>3. CASE RejectCheckpoint
  <2>1. inbox' = inbox /\ stage' = stage /\ pool' = pool
    BY <1>3 DEF RejectCheckpoint, Panic, checkpointVars
  <2>2. Counted
    BY <1>2, <2>1, UncountedStep
  <2> QED
    BY <2>1, <2>2, SamePool
<1>4. CASE TxsDone("checkpoint", "bridge") /\ UNCHANGED checkpointVars
  <2>1. inbox' = inbox /\ stage' = "bridge" /\ pool' = pool
    BY <1>4 DEF TxsDone, checkpointVars
  <2>2. stage' \notin {"bridge_msgs", "export", "idle"}
    BY <2>1
  <2>3. Counted
    BY <1>2, <2>1, <2>2, UncountedStep
  <2> QED
    BY <2>1, <2>3, SamePool
<1>5. CASE MsgsDone("checkpoint", "checkpoint_msgs", "bridge_msgs") /\ UNCHANGED checkpointVars
  <2>1. inbox' = inbox /\ stage' = "bridge_msgs" /\ inbox["checkpoint"] = <<>> /\ pool' = pool
    BY <1>5 DEF MsgsDone, checkpointVars
  <2>2. Counted
    BY <1>2, <2>1, UncountedStep
  <2> QED
    BY <2>1, <2>2, SamePool
<1>6. ASSUME NEW kind, kind # "DepositProcessed", CheckpointMsgReady(kind), HandledMsg, pool' = pool
      PROVE  PegStep
  <2>1. NextMsg("checkpoint")[1] = kind /\ inbox["checkpoint"] # <<>>
    BY <1>6 DEF CheckpointMsgReady
  <2>2. /\ CountsInv' /\ Asked' = Asked /\ UNCHANGED <<Vault, Owed, fulfilled>>
        /\ Reported \in Nat /\ Reported' \in Nat
        /\ Reported = DepositCount(NextMsg("checkpoint")) + Reported'
    BY <1>1, <1>6, <2>1, CheckpointMsgTaken
  <2>3. DepositCount(NextMsg("checkpoint")) = 0
    BY <1>6, <2>1 DEF DepositCount
  <2>4. Reported' = Reported
    BY <2>2, <2>3, SMTT(60)
  <2>5. Uncounted
    BY <2>2, <2>4 DEF Uncounted
  <2> QED
    BY <1>6, <2>2, <2>5 DEF PegStep
<1>7. /\ "UpdateSequencerKey" # "DepositProcessed" /\ "UpdateCheckpointPredicate" # "DepositProcessed"
  OBVIOUS
<1>8. CASE update_sequencer_key
  BY <1>6, <1>7, <1>8 DEF update_sequencer_key
<1>9. CASE queue_predicate_transition
  <2>1. pool' = pool /\ CheckpointMsgReady("UpdateCheckpointPredicate") /\ (HandledMsg \/ Panic)
    BY <1>9 DEF queue_predicate_transition
  <2>2. CASE Panic
    <3>1. inbox' = inbox /\ stage' = stage
      BY <2>2 DEF Panic
    <3>2. Counted
      BY <1>2, <3>1, UncountedStep
    <3> QED
      BY <2>1, <3>2, SamePool
  <2> QED
    BY <1>6, <1>7, <2>1, <2>2
<1> QED
  BY <1>1, <1>3, <1>4, <1>5, <1>8, <1>9, OrderCounted, RecordCounted DEF CheckpointNext

-----------------------------------------------------------------------------
(* The invariant of the bridge and of the peg, and what follows from it.   *)

\* The pass over the expired assignments comes after the transactions of the block.
NoTxsLeft == stage = "bridge_expired" => relevant["bridge"] = <<>>

PegInv == BridgeInv /\ CountsInv /\ PoolInv(pool) /\ NoTxsLeft

\* A step that is not the bridge's, within a block.
Meanwhile ==
  /\ pow_state' = pow_state
  /\ AfterPass(stage') => AfterPass(stage)
  /\ stage' = "bridge_expired" => stage = "bridge_expired" /\ relevant' = relevant

\* What the rest of the system does while the bridge waits.
LEMMA OtherSteps ==
  ASSUME [Next]_vars
  PROVE  \/ BridgeStep
         \/ UNCHANGED bridgeVars /\ (StartBlock \/ Meanwhile)
<1>1. CASE UNCHANGED vars \/ EndOfChain
  BY <1>1 DEF EndOfChain, vars, hostVars, chainVars, Meanwhile
<1>2. CASE HostStep
  <2>1. UNCHANGED bridgeVars
    BY <1>2 DEF HostStep
  <2>2. CASE PreProcess(CollectedRequests)
    BY <2>1, <2>2  DEF PreProcess, Meanwhile, AfterPass
  <2>3. CASE Resolve
    BY <2>1, <2>3  DEF Resolve, chainVars, Meanwhile, AfterPass
  <2>4. CASE ExportBlock
    BY <2>1, <2>4  DEF ExportBlock, Running, chainVars, Meanwhile, AfterPass
  <2> QED
    BY <1>2, <2>1, <2>2, <2>3, <2>4 DEF HostStep
<1>3. CASE AdminStep
  <2>1. UNCHANGED bridgeVars /\ AdminNext
    BY <1>3 DEF AdminStep
  <2>2. CASE DrainQueue
    BY <2>1, <2>2  DEF DrainQueue, chainVars, Meanwhile, AfterPass
  <2>3. CASE EnactQueued
    BY <2>1, <2>3  DEF EnactQueued, Running, chainVars, Meanwhile, AfterPass
  <2>4. CASE IgnoreAdminTx
    BY <2>1, <2>4  DEF IgnoreAdminTx, Running, chainVars, Meanwhile, AfterPass
  <2>5. CASE AuthorizedTx
    BY <2>1, <2>5  DEF AuthorizedTx, Running, chainVars, Meanwhile, AfterPass
  <2>6. CASE TxsDone("admin", "checkpoint")
    BY <2>1, <2>6  DEF TxsDone, chainVars, Meanwhile, AfterPass
  <2>7. RejectUpdate \/ EnqueueUpdate \/ ApplyImmediately \/ CancelUpdate => AuthorizedTx
    BY DEF RejectUpdate, EnqueueUpdate, ApplyImmediately, CancelUpdate
  <2> QED
    BY <2>1, <2>2, <2>3, <2>4, <2>5, <2>6, <2>7 DEF AdminNext
<1>4. CASE CheckpointStep
  <2>1. UNCHANGED bridgeVars /\ CheckpointNext
    BY <1>4 DEF CheckpointStep
  <2>2. CASE RejectCheckpoint
    BY <2>1, <2>2  DEF RejectCheckpoint, CheckpointTxReady, Running, Panic, chainVars, Meanwhile, AfterPass
  <2>3. CASE AcceptCheckpoint
    BY <2>1, <2>3  DEF AcceptCheckpoint, CheckpointTxReady, Running, chainVars, Meanwhile, AfterPass
  <2>4. CASE TxsDone("checkpoint", "bridge")
    BY <2>1, <2>4  DEF TxsDone, chainVars, Meanwhile, AfterPass
  <2>5. CASE record_deposit
    BY <2>1, <2>5  DEF record_deposit, HandledMsg, Panic, chainVars, Meanwhile
  <2>6. CASE update_sequencer_key
    BY <2>1, <2>6  DEF update_sequencer_key, HandledMsg, chainVars, Meanwhile
  <2>7. CASE queue_predicate_transition
    BY <2>1, <2>7  DEF queue_predicate_transition, HandledMsg, Panic, chainVars, Meanwhile
  <2>8. CASE MsgsDone("checkpoint", "checkpoint_msgs", "bridge_msgs")
    BY <2>1, <2>8  DEF MsgsDone, Running, chainVars, Meanwhile, AfterPass
  <2> QED
    BY <2>1, <2>2, <2>3, <2>4, <2>5, <2>6, <2>7, <2>8 DEF CheckpointNext
<1> QED
  BY <1>1, <1>2, <1>3, <1>4 DEF Next

\* The bridge starts its pass when its transactions are done.
LEMMA PassStarts ==
  ASSUME NoTxsLeft, BridgeNext
  PROVE  NoTxsLeft'
<1>1. CASE SkipBridgeTx
  BY <1>1  DEF SkipBridgeTx, BridgeTxReady, BridgeTxHandled, Running, Panic, NoTxsLeft
<1>2. CASE AddDeposit
  BY <1>2  DEF AddDeposit, BridgeTxReady, BridgeTxHandled, Running, NoTxsLeft
<1>3. CASE FulfillWithdrawal
  BY <1>3  DEF FulfillWithdrawal, BridgeTxReady, BridgeTxHandled, Running, Panic, NoTxsLeft
<1>4. CASE RemoveOperator
  BY <1>4  DEF RemoveOperator, BridgeTxReady, BridgeTxHandled, Running, Panic, NoTxsLeft
<1>5. CASE TxsDone("bridge", "bridge_expired")
  BY <1>5  DEF TxsDone, NoTxsLeft
<1>6. CASE reassign_expired_assignments
  BY <1>6  DEF reassign_expired_assignments, Panic, NoTxsLeft
<1>7. CASE create_withdrawal_assignment
  BY <1>7  DEF create_withdrawal_assignment, BridgeMsgHandled, Panic, NoTxsLeft
<1>8. CASE apply_operator_set_update
  BY <1>8  DEF apply_operator_set_update, BridgeMsgHandled, Panic, NoTxsLeft
<1>9. CASE update_safe_harbor_address
  BY <1>9  DEF update_safe_harbor_address, BridgeMsgHandled, NoTxsLeft
<1>10. CASE activate_safe_harbor
  BY <1>10  DEF activate_safe_harbor, BridgeMsgHandled, NoTxsLeft
<1>11. CASE MsgsDone("bridge", "bridge_msgs", "export")
  BY <1>11  DEF MsgsDone, NoTxsLeft
<1> QED
  BY <1>1, <1>2, <1>3, <1>4, <1>5, <1>6, <1>7, <1>8, <1>9, <1>10, <1>11 DEF BridgeNext

\* What every step of the system does to the bridge and to the peg.
PegKeptBy ==
  /\ PegInv' /\ PegStep /\ KeptOrMoved
  /\ assignment_duration # 0 =>
       (DeadlinesAhead(assignments, height, stage) => DeadlinesAhead(assignments', height', stage'))

\* Every step keeps the invariant.
LEMMA PegInvStep ==
  ASSUME AdminInv, PegInv, [Next]_vars
  PROVE  PegKeptBy
<1>1. BridgeInv /\ CountsInv /\ PoolInv(pool) /\ NoTxsLeft
  BY DEF PegInv
<1>2. PegStep
  <2>1. CASE UNCHANGED vars \/ EndOfChain
    <3>1. /\ inbox' = inbox /\ stage' = stage /\ pool' = pool
          /\ deposits' = deposits /\ assignments' = assignments /\ fulfilled' = fulfilled
      BY <2>1 DEF EndOfChain, vars, hostVars, bridgeVars, checkpointVars
    <3>2. Counted
      BY <1>1, <3>1, UncountedStep
    <3> QED
      BY <1>1, <3>1, <3>2, SamePool
  <2>2. CASE HostStep
    <3>1. pool' = pool
      BY <2>2 DEF HostStep, checkpointVars
    <3> QED
      BY <1>1, <2>2, <3>1, HostCounted, SamePool
  <2>3. CASE AdminStep
    <3>1. pool' = pool
      BY <2>3 DEF AdminStep, checkpointVars
    <3> QED
      BY <1>1, <2>3, <3>1, AdminCounted, SamePool
  <2>4. CASE CheckpointStep
    BY <1>1, <2>4, CheckpointCounted
  <2>5. CASE BridgeStep
    <3>1. pool' = pool /\ BridgeNext
      BY <2>5 DEF BridgeStep, checkpointVars
    <3> QED
      BY <1>1, <3>1, BridgeCounts, SamePool
  <2> QED
    BY <2>1, <2>2, <2>3, <2>4, <2>5 DEF Next
<1>3. CASE BridgeStep
  <2>1. BridgeNext
    BY <1>3 DEF BridgeStep
  <2>2. height \in Int
    BY DEF AdminInv, Due
  <2>3. BridgeBox(inbox["bridge"])
    BY <1>1 DEF CountsInv, BoxesInv
  <2>4. BridgeKept
    BY <1>1, <2>1, <2>2, <2>3, BridgeStepKept
  <2>5. NoTxsLeft'
    BY <1>1, <2>1, PassStarts
  <2> QED
    BY <1>2, <2>4, <2>5 DEF BridgeKept, PegKeptBy, PegInv, PegStep
<1>4. CASE UNCHANGED bridgeVars /\ (StartBlock \/ Meanwhile)
  <2>1. deposits' = deposits /\ assignments' = assignments /\ op_table' = op_table
    BY <1>4 DEF bridgeVars
  <2>2. BridgeInv'
    BY <1>1, <2>1 DEF BridgeInv
  <2>3. KeptOrMoved
    BY <2>1 DEF KeptOrMoved
  <2>4. CASE StartBlock
    <3>1. stage' = "preprocess"
      BY <2>4 DEF StartBlock
    <3>2. ~AfterPass(stage') /\ stage' # "bridge_expired"
      BY <3>1  DEF AfterPass
    <3> QED
      BY <1>2, <2>2, <2>3, <3>2 DEF PegKeptBy, PegInv, PegStep, NoTxsLeft, DeadlinesAhead
  <2>5. CASE Meanwhile
    <3>1. height' = height /\ (AfterPass(stage') => AfterPass(stage)) /\ NoTxsLeft'
      BY <1>1, <2>5 DEF Meanwhile, height, NoTxsLeft
    <3>2. DeadlinesAhead(assignments, height, stage) => DeadlinesAhead(assignments', height', stage')
      BY <2>1, <3>1 DEF DeadlinesAhead
    <3> QED
      BY <1>2, <2>2, <2>3, <3>1, <3>2 DEF PegKeptBy, PegInv, PegStep
  <2> QED
    BY <1>4, <2>4, <2>5
<1> QED
  BY <1>3, <1>4, OtherSteps

\* The tables of the bridge, the pool and the messages in flight belong together in every
\* reachable state.
THEOREM PegInvariance ==
  Spec => []PegInv
<1>1. Init => PegInv
  <2> SUFFICES ASSUME Init PROVE PegInv
    OBVIOUS
  <2>1. /\ stage = "idle" /\ inbox = [s \in SubIds |-> <<>>] /\ pool = EmptyPool
    BY DEF Init, HostInit, CheckpointInit
  <2>2. BridgeInv
    BY BridgeInitInv DEF Init
  <2>3. DOMAIN deposits = {} /\ DOMAIN assignments = {}
    BY DEF Init, BridgeInit, NoEntries
  <2>4. DOMAIN inbox = SubIds /\ inbox["checkpoint"] = <<>> /\ inbox["bridge"] = <<>>
    BY <2>1  DEF SubIds
  <2>5. BoxesInv(inbox, stage)
    BY <2>4, BoxesOf DEF BoxesInv
  <2>6. CountsInv
    BY <2>3, <2>5, FS_EmptySet DEF CountsInv
  <2>7. PoolInv(pool)
    BY <2>1  DEF PoolInv, EmptyPool
  <2>8. NoTxsLeft
    BY <2>1  DEF NoTxsLeft
  <2> QED
    BY <2>2, <2>6, <2>7, <2>8 DEF PegInv
<1>2. AdminInv /\ PegInv /\ [Next]_vars => PegInv'
  BY PegInvStep DEF PegKeptBy
<1> QED
  BY <1>1, <1>2, AdminInvariance, PTL DEF Spec

\* Whatever operators join and leave, the last recorded configuration is the active set and
\* is not empty, its key is the one deposits must use, and who left never comes back
\* (apply_membership_changes).
THEOREM HistoryRecorded ==
  Spec => []OperatorHistory
<1>1. PegInv => OperatorHistory
  BY TableInvHistory DEF PegInv, BridgeInv, OperatorHistory
<1> QED
  BY <1>1, PegInvariance, PTL

\* Deposits and assignments share no index and every assignee is a member of the notary set
\* of its deposit who was not tried before; and when assignments last at least one block, as
\* no check of the parameters demands, every deadline lies ahead between blocks (add_deposit,
\* create, reassign).
THEOREM SoundAssignments ==
  ASSUME assignment_duration # 0
  PROVE  Spec => []AssignmentsSound
<1>1. Init => DeadlinesAhead(assignments, height, stage)
  BY BridgeInitInv DEF Init
<1>2. /\ AdminInv /\ PegInv /\ DeadlinesAhead(assignments, height, stage) /\ [Next]_vars
      => DeadlinesAhead(assignments, height, stage)'
  BY PegInvStep DEF PegKeptBy
<1>3. PegInv /\ DeadlinesAhead(assignments, height, stage) => AssignmentsSound
  <2> SUFFICES ASSUME PegInv, DeadlinesAhead(assignments, height, stage) PROVE AssignmentsSound
    OBVIOUS
  <2>1. /\ TableInv(op_table) /\ Assigned(assignments, op_table)
        /\ DOMAIN deposits \cap DOMAIN assignments = {}
    BY DEF PegInv, BridgeInv
  <2> SUFFICES ASSUME NEW d \in DOMAIN assignments
               PROVE  LET entry == assignments[d]
                          notary == nn_script(op_table, entry.deposit_entry.notary_set).operators
                      IN  /\ is_active(notary, entry.current_assignee)
                          /\ ~is_active(entry.previous_assignees, entry.current_assignee)
                          /\ active_indices(entry.previous_assignees) \subseteq active_indices(notary)
                          /\ stage = "idle" => entry.fulfillment_deadline > height
    BY <2>1 DEF AssignmentsSound
  <2> DEFINE entry == assignments[d]
             notary == nn_script(op_table, entry.deposit_entry.notary_set).operators
             tried == entry.previous_assignees
  <2>2. /\ tried \in Seq(BOOLEAN) /\ Len(tried) = Len(notary)
        /\ is_active(notary, entry.current_assignee) /\ ~is_active(tried, entry.current_assignee)
        /\ \A i \in DOMAIN tried : tried[i] => notary[i]
    BY <2>1 DEF Assigned, EntryOf, AssigneeOf, NotarySet
  <2>3. notary \in Seq(BOOLEAN)
    <3>1. IsNotary(op_table, entry.deposit_entry.notary_set)
      BY <2>1 DEF Assigned, EntryOf, DepositOf
    <3> QED
      BY <2>1, <3>1, Configs DEF NotarySet
  <2>4. stage = "idle" => entry.fulfillment_deadline > height
    <3>1. stage = "idle" => AfterPass(stage)
      BY DEF AfterPass
    <3> QED
      BY <3>1 DEF DeadlinesAhead
  <2> HIDE DEF notary, tried
  <2>5. DOMAIN tried = DOMAIN notary
    BY <2>2, <2>3, SMTT(60)
  <2>6. active_indices(tried) \subseteq active_indices(notary)
    BY <2>2, <2>5 DEF active_indices
  <2> QED
    BY <2>2, <2>4, <2>6 DEF notary, tried
<1> QED
  BY <1>1, <1>2, <1>3, AdminInvariance, PegInvariance, PTL DEF Spec

\* An assignment keeps its operator until its deadline has been processed; then it goes to
\* a member of its notary set that is active now, to one that was tried before only when
\* all of those were, and the payout never changes (reassign_expired_assignments).
THEOREM Held ==
  Spec => HeldUntilDeadline
<1> DEFINE Step ==
      \A d \in DOMAIN assignments \cap DOMAIN assignments' :
          LET before == assignments[d]
              after == assignments'[d]
              tried == active_indices(before.previous_assignees) \cup {before.current_assignee}
              eligible == active_indices(nn_script(op_table, before.deposit_entry.notary_set).operators)
                              \cap active_indices(current_multisig(op_table))
          IN  after # before =>
                  /\ before.fulfillment_deadline <= height
                  /\ relevant["bridge"] = <<>>
                  /\ after.current_assignee \in eligible
                  /\ after.current_assignee \in tried => eligible \subseteq tried
                  /\ after.withdrawal_output = before.withdrawal_output
<1>1. AdminInv /\ PegInv /\ [Next]_vars => [Step]_vars
  <2> SUFFICES ASSUME AdminInv, PegInv, [Next]_vars PROVE Step
    OBVIOUS
  <2>1. KeptOrMoved /\ NoTxsLeft
    BY PegInvStep DEF PegKeptBy, PegInv
  <2> QED
    BY <2>1 DEF KeptOrMoved, NoTxsLeft, MovedOn, EligibleNow, Tried, NotarySet
<1> QED
  BY <1>1, AdminInvariance, PegInvariance, PTL DEF Spec, HeldUntilDeadline

\* A step of the system is a step of the peg or changes nothing in it.
LEMMA PegStepRefines ==
  ASSUME CountsInv, PoolInv(pool), PegStep
  PROVE  [ThePeg!Next]_(ThePeg!pegVars)
<1>1. FreeDeposits = pool.count + Reported /\ OrderedUnits = Asked
  BY DEF FreeDeposits, OrderedUnits, Reported, Asked, DepositsIn, UnitsIn, DepositCount, UnitCount
<1>2. FreeDeposits' = pool'.count + Reported' /\ OrderedUnits' = Asked'
  BY DEF FreeDeposits, OrderedUnits, Reported, Asked, DepositsIn, UnitsIn, DepositCount, UnitCount
<1>3. /\ Reported \in Nat /\ Asked \in Nat /\ Vault \in Nat /\ Owed \in Nat
      /\ pool.count \in Nat /\ pool'.count \in Nat
  <2>1. BridgeBox(inbox["bridge"]) /\ IsList(inbox["checkpoint"])
    BY DEF CountsInv, BoxesInv, CheckpointBox
  <2>2. Reported \in Nat
    BY <2>1, DepositsInFlight  DEF Reported
  <2>3. Asked \in Nat
    BY <2>1, UnitsInFlight  DEF Asked
  <2>4. Vault \in Nat /\ Owed \in Nat
    BY FS_CardinalityType DEF CountsInv, Vault, Owed
  <2>5. pool.count \in Nat /\ pool'.count \in Nat
    BY DEF PoolInv, PegStep
  <2> QED
    BY <2>2, <2>3, <2>4, <2>5
<1>4. Vault = Cardinality(DOMAIN deposits) /\ Owed = Cardinality(DOMAIN assignments)
  BY DEF Vault, Owed
<1>5. Vault' = Cardinality(DOMAIN deposits') /\ Owed' = Cardinality(DOMAIN assignments')
  BY DEF Vault, Owed
<1>6. CASE pool' = pool /\ CountedDeposit
  <2>1. /\ Vault' = Vault + 1 /\ FreeDeposits' = FreeDeposits + 1
        /\ OrderedUnits' = OrderedUnits /\ Owed' = Owed /\ fulfilled' = fulfilled
    BY <1>1, <1>2, <1>3, <1>6, SMTT(60) DEF CountedDeposit
  <2>2. ThePeg!Deposit
    BY <1>4, <1>5, <2>1 DEF ThePeg!Deposit
  <2> QED
    BY <2>2 DEF ThePeg!Next
<1>7. CASE pool' = pool /\ Uncounted
  <2>1. /\ Vault' = Vault /\ FreeDeposits' = FreeDeposits /\ OrderedUnits' = OrderedUnits
        /\ Owed' = Owed /\ fulfilled' = fulfilled
    BY <1>1, <1>2, <1>7 DEF Uncounted
  <2> QED
    BY <1>4, <1>5, <2>1 DEF ThePeg!pegVars
<1>8. CASE pool' = pool /\ CountedAssign
  <2>1. PICK n \in Nat : /\ n <= Asked /\ Asked' = Asked - n /\ Vault' = Vault - n
                         /\ Owed' = Owed + n /\ UNCHANGED <<Reported, fulfilled>>
    BY <1>8 DEF CountedAssign
  <2>2. FreeDeposits' = FreeDeposits /\ fulfilled' = fulfilled
    BY <1>1, <1>2, <1>8, <2>1
  <2>3. CASE n = 0
    <3>1. Vault' = Vault /\ OrderedUnits' = OrderedUnits /\ Owed' = Owed
      BY <1>1, <1>2, <1>3, <2>1, <2>3, SMTT(60)
    <3> QED
      BY <1>4, <1>5, <2>2, <3>1 DEF ThePeg!pegVars
  <2>4. CASE n # 0
    <3>1. /\ Owed' > Owed /\ Owed' - Owed <= OrderedUnits
          /\ OrderedUnits' = OrderedUnits - (Owed' - Owed) /\ Vault' = Vault - (Owed' - Owed)
      BY <1>1, <1>2, <1>3, <2>1, <2>4, SMTT(60)
    <3>2. ThePeg!Assign
      BY <1>4, <1>5, <2>2, <3>1 DEF ThePeg!Assign
    <3> QED
      BY <3>2 DEF ThePeg!Next
  <2> QED
    BY <2>3, <2>4
<1>9. CASE pool' = pool /\ CountedPay
  <2>1. /\ Owed > 0 /\ Owed' = Owed - 1 /\ fulfilled' = fulfilled + 1 /\ Vault' = Vault
        /\ FreeDeposits' = FreeDeposits /\ OrderedUnits' = OrderedUnits
    BY <1>1, <1>2, <1>9 DEF CountedPay
  <2>2. ThePeg!Pay
    BY <1>4, <1>5, <2>1 DEF ThePeg!Pay
  <2> QED
    BY <2>2 DEF ThePeg!Next
<1>10. CASE CountedOrder
  <2>1. PICK n \in Nat : /\ n <= pool.count /\ pool'.count = pool.count - n /\ Asked' = Asked + n
                         /\ UNCHANGED <<Vault, Reported, Owed, fulfilled>>
    BY <1>10 DEF CountedOrder
  <2>2. Vault' = Vault /\ Owed' = Owed /\ Reported' = Reported /\ fulfilled' = fulfilled
    BY <2>1
  <2>3. CASE n = 0
    <3>1. FreeDeposits' = FreeDeposits /\ OrderedUnits' = OrderedUnits
      BY <1>1, <1>2, <1>3, <2>1, <2>2, <2>3, SMTT(60)
    <3> QED
      BY <1>4, <1>5, <2>2, <3>1 DEF ThePeg!pegVars
  <2>4. CASE n # 0
    <3>1. /\ OrderedUnits' > OrderedUnits /\ OrderedUnits' - OrderedUnits <= FreeDeposits
          /\ FreeDeposits' = FreeDeposits - (OrderedUnits' - OrderedUnits)
      BY <1>1, <1>2, <1>3, <2>1, <2>2, <2>4, SMTT(60)
    <3>2. ThePeg!Order
      BY <1>4, <1>5, <2>2, <3>1 DEF ThePeg!Order
    <3> QED
      BY <3>2 DEF ThePeg!Next
  <2> QED
    BY <2>3, <2>4
<1>11. CASE CountedRecord
  <2>1. /\ pool'.count = pool.count + 1 /\ Reported' = Reported - 1
        /\ Vault' = Vault /\ Asked' = Asked /\ Owed' = Owed /\ fulfilled' = fulfilled
    BY <1>11 DEF CountedRecord
  <2>2. FreeDeposits' = FreeDeposits /\ OrderedUnits' = OrderedUnits
    BY <1>1, <1>2, <1>3, <2>1, SMTT(60)
  <2> QED
    BY <1>4, <1>5, <2>1, <2>2 DEF ThePeg!pegVars
<1> QED
  BY <1>6, <1>7, <1>8, <1>9, <1>10, <1>11 DEF PegStep

\* The transition implements the peg: the checkpoint subprotocol's pool and the bridge's
\* tables never disagree, although what one tells the other arrives after both have
\* processed the block (verify_withdrawals, record_deposit, create_withdrawal_assignment).
THEOREM PegRefined ==
  Spec => PegKept
<1>1. Init => ThePeg!Init
  <2> SUFFICES ASSUME Init PROVE ThePeg!Init
    OBVIOUS
  <2>1. inbox = [s \in SubIds |-> <<>>] /\ pool = EmptyPool
    BY DEF Init, HostInit, CheckpointInit
  <2>2. DOMAIN deposits = {} /\ DOMAIN assignments = {} /\ fulfilled = 0
    BY DEF Init, BridgeInit, NoEntries
  <2>3. inbox["checkpoint"] = <<>> /\ inbox["bridge"] = <<>>
    BY <2>1  DEF SubIds
  <2>4. DepositsIn(inbox["checkpoint"]) = 0 /\ UnitsIn(inbox["bridge"]) = 0
    BY <2>3, NoneInFlight
  <2>5. FreeDeposits = pool.count + DepositsIn(inbox["checkpoint"]) /\ OrderedUnits = UnitsIn(inbox["bridge"])
    BY DEF FreeDeposits, OrderedUnits, DepositsIn, UnitsIn, DepositCount, UnitCount
  <2>6. FreeDeposits = 0 /\ OrderedUnits = 0
    BY <2>1, <2>4, <2>5, SMTT(60) DEF EmptyPool
  <2>7. Cardinality({}) = 0
    BY FS_EmptySet
  <2> QED
    BY <2>2, <2>6, <2>7 DEF ThePeg!Init
<1>2. AdminInv /\ PegInv /\ [Next]_vars => [ThePeg!Next]_(ThePeg!pegVars)
  BY PegInvStep, PegStepRefines DEF PegKeptBy, PegInv
<1> QED
  BY <1>1, <1>2, AdminInvariance, PegInvariance, PTL DEF Spec, PegKept, ThePeg!Spec

-----------------------------------------------------------------------------
(* The types of the whole state.                                           *)

\* The transition runs or has panicked.
LEMMA HaltedOrNot ==
  ASSUME halted \in BOOLEAN, [Next]_vars
  PROVE  halted' \in BOOLEAN
<1> SUFFICES halted' = halted \/ halted' = TRUE \/ halted' = FALSE
  OBVIOUS
<1>1. CASE UNCHANGED vars \/ EndOfChain
  BY <1>1 DEF EndOfChain, vars, hostVars
<1>2. CASE HostStep
  BY <1>2 DEF HostStep, StartBlock, PreProcess, Resolve, ExportBlock
<1>3. CASE AdminStep
  BY <1>3 DEF AdminStep, AdminNext, DrainQueue, EnactQueued, IgnoreAdminTx, AuthorizedTx,
     RejectUpdate, EnqueueUpdate, ApplyImmediately, CancelUpdate, TxsDone
<1>4. CASE CheckpointStep
  BY <1>4 DEF CheckpointStep, CheckpointNext, RejectCheckpoint, AcceptCheckpoint, record_deposit,
     update_sequencer_key, queue_predicate_transition, HandledMsg, Panic, TxsDone, MsgsDone
<1>5. CASE BridgeStep
  BY <1>5 DEF BridgeStep, BridgeNext, SkipBridgeTx, AddDeposit, FulfillWithdrawal, RemoveOperator,
     reassign_expired_assignments, create_withdrawal_assignment, apply_operator_set_update,
     update_safe_harbor_address, activate_safe_harbor, BridgeTxHandled, BridgeMsgHandled, Panic,
     TxsDone, MsgsDone
<1> QED
  BY <1>1, <1>2, <1>3, <1>4, <1>5 DEF Next

\* The withdrawals paid are counted.
LEMMA FulfilledCounted ==
  ASSUME AdminInv, PegInv, fulfilled \in Nat, [Next]_vars
  PROVE  fulfilled' \in Nat
<1>1. PegStep
  BY PegInvStep DEF PegKeptBy
<1>2. fulfilled' = fulfilled \/ fulfilled' = fulfilled + 1
  BY <1>1 DEF PegStep, CountedDeposit, CountedAssign, CountedPay, Uncounted, CountedOrder,
     CountedRecord
<1> QED
  BY <1>2, SMTT(60)

\* The invariants of the parts.
TypesInv == HostInv /\ CountInv /\ halted \in BOOLEAN /\ fulfilled \in Nat

\* They hold at the start.
LEMMA TypesStart ==
  ASSUME Init
  PROVE  TypesInv
<1>1. HostInv
  <2>1. /\ spec_id = Registry[GenesisAsmPredicate] /\ stage = "idle"
        /\ pow_state = init(Anchor) /\ num_entries = Anchor.height + 1
        /\ relevant = [s \in SubIds |-> <<>>] /\ inbox = [s \in SubIds |-> <<>>]
    BY DEF Init, HostInit, accumulator_new, GenesisHeight
  <2>2. height = Anchor.height
    BY <2>1  DEF init, HeaderVerificationState, height
  <2>3. spec_id \in {0, 1}
    BY <2>1, HostAssumption
  <2>4. stage \in StageNames
    BY <2>1  DEF StageNames
  <2>5. \A s \in SubIds : relevant[s] = <<>> /\ inbox[s] = <<>>
    BY <2>1
  <2>6. IsList(<<>>) /\ "admin" \in SubIds /\ DOMAIN relevant = SubIds
    <3>1. <<>> \in Seq({})
      BY SMTT(60)
    <3> QED
      BY <2>1, <3>1, ListOfRange DEF SubIds
  <2> QED
    BY <2>1, <2>2, <2>3, <2>4, <2>5, <2>6 DEF HostInv
<1>2. CountInv
  <2>1. verified_tip = CheckpointTip(0, CheckpointGenesisHeight, 0) /\ covered = <<>> /\ pending_transition = <<>>
    BY DEF Init, CheckpointInit
  <2>2. CheckpointGenesisHeight \in Nat
    BY HeaderAssumption, ParamsAssumption DEF check_invariants, check_genesis_l1_height
  <2>3. verified_tip \in CheckpointTips /\ verified_tip.epoch = 0
    BY <2>1, <2>2, RulesAssumption, SMTT(60) DEF CheckpointTip, CheckpointTips
  <2>4. Len(<<>>) = 0
    OBVIOUS
  <2> QED
    BY <2>1, <2>3, <2>4, CheckpointAssumption, SMTT(60) DEF CountInv
<1> QED
  BY <1>1, <1>2 DEF TypesInv, Init, HostInit, BridgeInit

\* So they hold at every step.
LEMMA TypesInvariance ==
  Spec => [](TypesInv /\ HarborInv)
<1>1. Init => TypesInv /\ HarborInv
  <2>1. Init => TypesInv
    BY TypesStart
  <2>2. Init => HarborInv
    BY SMTT(60) DEF Init, BridgeInit, SafeHarbor, HarborInv
  <2> QED
    BY <2>1, <2>2
<1>2. /\ TypesInv /\ HarborInv /\ IInv /\ ChainInv /\ AdminInv /\ PegInv /\ [Next]_vars
      => TypesInv' /\ HarborInv'
  <2> SUFFICES ASSUME TypesInv, HarborInv, IInv, ChainInv, AdminInv, PegInv, [Next]_vars
               PROVE  TypesInv' /\ HarborInv'
    OBVIOUS
  <2>1. DOMAIN inbox = SubIds
    BY DEF PegInv, CountsInv, BoxesInv
  <2>2. HostInv'
    BY <2>1, HostKept DEF TypesInv
  <2>3. CountInv'
    BY CountKept DEF TypesInv
  <2>4. halted' \in BOOLEAN
    BY HaltedOrNot DEF TypesInv
  <2>5. fulfilled' \in Nat
    BY FulfilledCounted DEF TypesInv
  <2>6. HarborInv'
    BY HarborKept
  <2> QED
    BY <2>2, <2>3, <2>4, <2>5, <2>6 DEF TypesInv
<1> QED
  BY <1>1, <1>2, Invariance, ChainStarts, ChainKept, AdminInvariance, PegInvariance, PTL DEF Spec

\* Every part of the state has its type at every step.
THEOREM Typed ==
  Spec => []StfTypeOK
<1>1. TypesInv /\ HarborInv /\ IInv /\ ChainInv /\ AdminInv /\ PegInv => StfTypeOK
  <2> SUFFICES ASSUME TypesInv, HarborInv, IInv, ChainInv, AdminInv, PegInv PROVE StfTypeOK
    OBVIOUS
  <2>1. HostTypeOK
    <3>1. /\ height = Anchor.height + Len(headers) /\ headers \in Seq(Stamped) /\ Anchor.height \in Nat
          /\ height <= MaxHeight
      BY HeaderAssumption DEF ChainInv, PowTyped, height
    <3>2. MaxHeight \in Nat
      BY HostAssumption
    <3>3. Len(headers) \in Nat
      BY <3>1, SMTT(60)
    <3>4. height \in GenesisHeight .. MaxHeight /\ Len(headers) = height - GenesisHeight /\ height \in Nat
      BY <3>1, <3>2, <3>3, SMTT(60) DEF GenesisHeight
    <3>5. num_entries \in Nat
      BY <3>4, SMTT(60) DEF TypesInv, HostInv
    <3>6. \A s \in SubIds : DOMAIN relevant[s] = 1 .. Len(relevant[s])
      <4> TAKE s \in SubIds
      <4>1. IsList(relevant[s])
        BY DEF TypesInv, HostInv
      <4> QED
        BY <4>1, ListDomain
    <3>7. \A s \in SubIds : DOMAIN inbox[s] = 1 .. Len(inbox[s])
      <4>1. IsList(inbox["checkpoint"]) /\ IsList(inbox["bridge"])
        BY DEF PegInv, CountsInv, BoxesInv, CheckpointBox, BridgeBox
      <4>2. inbox["admin"] = <<>>
        BY DEF TypesInv, HostInv
      <4>3. IsList(inbox["admin"])
        BY <4>1, <4>2, ListDomain
      <4>4. \A s \in SubIds : IsList(inbox[s])
        BY <4>1, <4>3 DEF SubIds
      <4> TAKE s \in SubIds
      <4>5. IsList(inbox[s])
        BY <4>4
      <4> QED
        BY <4>5, ListDomain
    <3>8. stage \in Range(Stages) /\ DOMAIN inbox = SubIds /\ DOMAIN relevant = SubIds
      BY StageNamed DEF TypesInv, HostInv, PegInv, CountsInv, BoxesInv
    <3> QED
      BY <3>4, <3>5, <3>6, <3>7, <3>8 DEF HostTypeOK, TypesInv, HostInv
  <2>2. AdminTypeOK
    <3>1. QuorateAuthorities(authorities) /\ Waiting(queued, enacting, accepted) /\ IsList(accepted)
      BY DEF AdminInv, History
    <3>2. DOMAIN authorities = Role
      BY <3>1 DEF QuorateAuthorities
    <3>3. \A i \in DOMAIN queued : queued[i].id \in 0 .. (Len(accepted) - 1)
      BY <3>1 DEF Waiting, Pending
    <3>4. Len(accepted) \in Nat
      BY <3>1, ListDomain
    <3>5. \A i \in DOMAIN queued : queued[i].id < Len(accepted)
      BY <3>3, <3>4, SMTT(60)
    <3>6. next_update_id = Len(accepted) /\ block_updates \subseteq {"OlStfVk", "EeStfVk"}
      BY DEF AdminInv
    <3> QED
      BY <3>1, <3>2, <3>5, <3>6 DEF AdminTypeOK, QuorateAuthorities, Quorate
  <2>3. CheckpointTypeOK
    <3>1. verified_tip \in CheckpointTips /\ Len(covered) = verified_tip.epoch
          /\ Len(pending_transition) <= MAX_PENDING_PREDICATE_TRANSITIONS
      BY DEF TypesInv, CountInv
    <3>2. verified_tip.epoch \in 0 .. MAX_EPOCH /\ verified_tip.l1_height \in Nat /\ verified_tip.slot \in Nat
      BY <3>1  DEF CheckpointTips
    <3>3. pool.count \in Nat
      BY DEF PegInv, PoolInv
    <3> QED
      BY <3>1, <3>2, <3>3 DEF CheckpointTypeOK
  <2>4. BridgeTypeOK
    BY DEF BridgeTypeOK, PegInv, BridgeInv, Backed, DepositOf, Assigned, EntryOf, HarborInv,
       TypesInv
  <2> QED
    BY <2>1, <2>2, <2>3, <2>4 DEF StfTypeOK
<1> QED
  BY <1>1, TypesInvariance, Invariance, ChainStarts, ChainKept, AdminInvariance, PegInvariance, PTL DEF Spec

-----------------------------------------------------------------------------
(* No block panics the transition.                                         *)

\* What the transition relies on and does not check itself: the ruleset a block upgrades to
\* is one the node was built with, a block's logs fit its manifest, the deposits held are
\* worth no more than the money supply, and the operators keep to 1/N honesty (CanExecute,
\* MAX_LOGS, pool_total, apply_membership_changes).
Provided(h) ==
  /\ stage = "idle" => CanExecute
  /\ Len(logs) <= MAX_LOGS
  /\ denomination * Vault <= MAX_MONEY
  /\ HonestKept(h)

\* What keeps the transition running.
RunInv(h) ==
  NoHalt /\ Balanced /\ Steady(op_table, h) /\ FedInv /\ DataInv /\ RotationInv

\* The steps of the host do not panic: the ruleset is known, the requests can be served and
\* the manifest is the next one (StartBlock, Resolve, ExportBlock).
LEMMA HostRuns ==
  ASSUME NEW h \in Nat, TypesInv, RunInv(h), Provided(h), HostStep
  PROVE  NoHalt'
<1>1. ~halted
  BY DEF RunInv, NoHalt
<1>2. CASE StartBlock
  <2>1. CanExecute
    BY <1>2 DEF StartBlock, Running, Provided
  <2> QED
    BY <1>2, <2>1 DEF StartBlock, NoHalt
<1>3. CASE PreProcess(CollectedRequests)
  BY <1>1, <1>3 DEF PreProcess, NoHalt
<1>4. CASE Resolve
  <2>1. Resolvable(requests) /\ VerifiesAgainst(Verified(requests))
    BY <1>4 DEF Resolve, Running, RunInv, DataInv
  <2> QED
    BY <1>1, <1>4, <2>1 DEF Resolve, NoHalt
<1>5. CASE ExportBlock
  <2>1. stage = "export" /\ "export" # "idle"
    BY <1>5  DEF ExportBlock, Running
  <2>2. num_entries = height /\ Len(logs) <= MAX_LOGS
    BY <2>1 DEF TypesInv, HostInv, Provided
  <2> QED
    BY <1>1, <1>5, <2>2 DEF ExportBlock, NoHalt
<1> QED
  BY <1>2, <1>3, <1>4, <1>5 DEF HostStep

\* Nor do those of the checkpoint subprotocol: the handler finds its data, the pool fits the
\* money supply and rotations come in order (RejectCheckpoint, record_deposit,
\* queue_predicate_transition).
LEMMA CheckpointRuns ==
  ASSUME NEW h \in Nat, TypesInv, IInv, PegInv, RunInv(h), Provided(h), CheckpointNext
  PROVE  NoHalt'
<1>1. ~halted
  BY DEF RunInv, NoHalt
<1>2. CASE RejectCheckpoint
  <2> DEFINE tx == NextTx("checkpoint")
  <2>1. stage = "checkpoint" /\ relevant["checkpoint"] # <<>>
    BY <1>2 DEF RejectCheckpoint, CheckpointTxReady, Running
  <2>2. stage \in Reading /\ "checkpoint" \in SubIds
    BY <2>1  DEF Reading, SubIds
  <2>3. IsList(relevant["checkpoint"])
    BY <2>2 DEF TypesInv, HostInv
  <2>4. tx \in Range(relevant["checkpoint"])
    <3>1. Head(relevant["checkpoint"]) = relevant["checkpoint"][1] /\ 1 \in DOMAIN relevant["checkpoint"]
      BY <2>1, <2>3, ListTail, ListDomain
    <3> QED
      BY <3>1 DEF NextTx, Range
  <2>5. Fed(tx) /\ CheckpointServed(tx, aux) /\ TipInv
    BY <2>2, <2>4 DEF RunInv, FedInv, DataInv, CheckpointsServed, IInv
  <2>6. ~AuxMissing(tx)
    BY <2>5, ServedCheckpoint
  <2> QED
    BY <1>1, <1>2, <2>6 DEF RejectCheckpoint, NoHalt
<1>3. CASE record_deposit
  <2>1. CountsInv /\ PoolInv(pool) /\ Balanced /\ denomination * Vault <= MAX_MONEY
    BY DEF PegInv, RunInv, Provided
  <2>2. ~(pool_total(record(pool, NextMsg("checkpoint")[2])) > MAX_MONEY)
    BY <1>3, <2>1, PoolFits DEF record_deposit
  <2>3. HandledMsg
    BY <1>3, <2>2 DEF record_deposit
  <2> QED
    BY <1>1, <2>3 DEF HandledMsg, NoHalt
<1>4. CASE queue_predicate_transition
  <2>1. IsList(inbox["checkpoint"]) /\ RotationInv
    BY DEF PegInv, CountsInv, BoxesInv, CheckpointBox, RunInv
  <2>2. IsList(pending_transition)
    BY ListOfRange DEF IInv, HistoryInv, Listed
  <2>3. Ordered(height)
    BY <1>4, <2>1, <2>2, RotationOrdered DEF queue_predicate_transition
  <2> QED
    BY <1>1, <1>4, <2>3 DEF queue_predicate_transition, HandledMsg, NoHalt
<1> QED
  BY <1>1, <1>2, <1>3, <1>4 DEF CheckpointNext, AcceptCheckpoint, TxsDone, update_sequencer_key,
     HandledMsg, MsgsDone, NoHalt

\* Every step keeps the transition running.
LEMMA RunKept ==
  ASSUME NEW h \in Nat, TypesInv, IInv, ChainInv, AdminInv, PegInv, RunInv(h), Provided(h), [Next]_vars
  PROVE  RunInv(h)'
<1>1. /\ NoHalt /\ ~halted /\ Balanced /\ Steady(op_table, h) /\ FedInv /\ DataInv /\ RotationInv
      /\ BridgeInv /\ CountsInv /\ PoolInv(pool) /\ HostInv /\ CountInv /\ TipInv /\ HistoryInv
  BY DEF RunInv, NoHalt, PegInv, TypesInv, IInv
<1>2. Balanced'
  <2>1. PegStep
    BY PegInvStep DEF PegKeptBy
  <2> QED
    BY <1>1, <2>1, BalanceKept
<1>3. FedInv'
  BY <1>1, FedKept
<1>4. DataInv'
  BY <1>1, DataKept
<1>5. RotationInv'
  <2>1. HeaderInv
    BY <1>1 DEF TipInv, HeaderInv
  <2>2. IsList(inbox["checkpoint"]) /\ DOMAIN inbox = SubIds
    BY <1>1 DEF CountsInv, BoxesInv, CheckpointBox
  <2>3. IsList(pending_transition)
    BY <1>1, ListOfRange DEF HistoryInv, Listed
  <2>4. \A p \in Range(pending_transition) : p.boundary \in Int /\ p.boundary <= height
    <3> SUFFICES ASSUME NEW j \in DOMAIN pending_transition
                 PROVE  /\ pending_transition[j].boundary \in Int
                        /\ pending_transition[j].boundary <= height
      BY DEF Range
    <3>1. /\ DOMAIN rotations = 1 .. Len(rotations) /\ DOMAIN pending_transition = 1 .. Len(pending_transition)
          /\ \A i \in 1 .. Len(pending_transition) :
                 Settled + i \in 1 .. Len(rotations) /\ pending_transition[i].boundary \in Nat
      BY <1>1, Positions
    <3>2. pending_transition[j].boundary \in Nat /\ Settled + j \in DOMAIN rotations
      BY <3>1
    <3>3. pending_transition[j].boundary <= height
      BY <1>1, <3>2 DEF HistoryInv
    <3> QED
      BY <3>2, <3>3, SMTT(60)
  <2> QED
    BY <1>1, <2>1, <2>2, <2>3, <2>4, RotationKept
<1>6. CASE UNCHANGED vars \/ EndOfChain
  <2>1. halted' = halted /\ op_table' = op_table
    BY <1>6 DEF EndOfChain, vars, hostVars, bridgeVars
  <2> QED
    BY <1>1, <1>2, <1>3, <1>4, <1>5, <2>1 DEF RunInv, NoHalt, Steady
<1>7. CASE UNCHANGED bridgeVars /\ NoHalt'
  <2>1. op_table' = op_table
    BY <1>7 DEF bridgeVars
  <2> QED
    BY <1>1, <1>2, <1>3, <1>4, <1>5, <1>7, <2>1 DEF RunInv, Steady
<1>8. CASE HostStep
  <2>1. UNCHANGED bridgeVars
    BY <1>8 DEF HostStep
  <2> QED
    BY <1>7, <1>8, <2>1, HostRuns
<1>9. CASE AdminStep
  <2>1. UNCHANGED bridgeVars
    BY <1>9 DEF AdminStep
  <2>2. halted' = halted
    BY <1>9 DEF AdminStep, AdminNext, DrainQueue, EnactQueued, IgnoreAdminTx, AuthorizedTx,
       RejectUpdate, EnqueueUpdate, ApplyImmediately, CancelUpdate, TxsDone
  <2> QED
    BY <1>1, <1>7, <2>1, <2>2 DEF NoHalt
<1>10. CASE CheckpointStep
  BY <1>7, <1>10, CheckpointRuns DEF CheckpointStep
<1>11. CASE BridgeStep
  <2>1. Asked <= Vault
    <3>1. Vault \in Nat /\ Reported \in Nat /\ Asked \in Nat /\ pool.count \in Nat
      BY <1>1, CountsAreNumbers
    <3>2. Vault = pool.count + Reported + Asked
      BY <1>1 DEF Balanced
    <3> QED
      BY <3>1, <3>2, SMTT(60)
  <2>2. "bridge" \in SubIds /\ (stage = "bridge" => stage \in Reading \cup {"bridge"})
    BY DEF SubIds
  <2>3. IsList(relevant["bridge"])
    BY <1>1, <2>2 DEF HostInv
  <2>4. stage = "bridge" => \A tx \in Range(relevant["bridge"]) : Fed(tx) /\ BridgeServed(tx, aux)
    BY <1>1, <2>2 DEF FedInv, DataInv, BridgesServed
  <2>5. BridgeNext /\ HonestKept(h)
    BY <1>11 DEF BridgeStep, Provided
  <2>6. ~halted' /\ Steady(op_table', h)
    BY <1>1, <2>1, <2>3, <2>4, <2>5, BridgeRuns
  <2> QED
    BY <1>2, <1>3, <1>4, <1>5, <2>6 DEF RunInv, NoHalt, Steady
<1> QED
  BY <1>6, <1>8, <1>9, <1>10, <1>11 DEF Next

\* It starts running.
LEMMA RunStarts ==
  ASSUME NEW h \in Nat, is_active(current_multisig(from_operator_list(OperatorKeys)), h), Init
  PROVE  RunInv(h)
<1>1. /\ stage = "idle" /\ ~halted /\ relevant = [s \in SubIds |-> <<>>] /\ inbox = [s \in SubIds |-> <<>>]
      /\ pool = EmptyPool /\ verified_tip = CheckpointTip(0, CheckpointGenesisHeight, 0)
      /\ op_table = from_operator_list(OperatorKeys)
  BY DEF Init, HostInit, CheckpointInit, BridgeInit
<1>2. Balanced
  <2>1. DOMAIN deposits = {}
    BY DEF Init, BridgeInit, NoEntries
  <2>2. inbox["checkpoint"] = <<>> /\ inbox["bridge"] = <<>>
    BY <1>1  DEF SubIds
  <2>3. Vault = 0 /\ Reported = 0 /\ Asked = 0
    BY <2>1, <2>2, NoneInFlight, FS_EmptySet DEF Vault, Reported, Asked
  <2> QED
    BY <1>1, <2>3, SMTT(60) DEF Balanced, EmptyPool
<1>3. Steady(op_table, h)
  <2> DEFINE new == Membership(EmptyOperatorTable, OperatorKeys, <<>>)
             config == HistoricalNnScript(build_nn_script(calculate_aggregated_key(new.operators, new.active)), new.active)
             past == op_table.historical_nn_scripts
  <2>1. op_table = IF new.active # InitialActive(EmptyOperatorTable)
                   THEN record_nn_script(EmptyOperatorTable, new.operators, new.active)
                   ELSE [EmptyOperatorTable EXCEPT !.operators = new.operators]
    BY <1>1 DEF from_operator_list, apply_membership_changes
  <2>2. past = <<>> \/ past = Append(<<>>, config)
    <3> HIDE DEF new
    <3>1. CASE new.active # InitialActive(EmptyOperatorTable)
      BY <2>1, <3>1  DEF record_nn_script, EmptyOperatorTable
    <3>2. CASE new.active = InitialActive(EmptyOperatorTable)
      BY <2>1, <3>2  DEF EmptyOperatorTable
    <3> QED
      BY <3>1, <3>2
  <2> HIDE DEF config, past
  <2>3. \A i \in DOMAIN past : past[i] = Last(past)
    <3>1. CASE past = <<>>
      BY <3>1, SMTT(60)
    <3>2. CASE past = Append(<<>>, config)
      BY <3>2, SMTT(60) DEF Last
    <3> QED
      BY <2>2, <3>1, <3>2
  <2>4. is_active(Last(past).operators, h)
    BY <1>1 DEF past, current_multisig, current_nn_script
  <2> QED
    BY <2>3, <2>4 DEF Steady, past
<1>4. FedInv
  <2>1. \A s \in SubIds : relevant[s] = <<>>
    BY <1>1
  <2>2. Range(<<>>) = {}
    BY SMTT(60) DEF Range
  <2> QED
    BY <2>1, <2>2 DEF FedInv
<1>5. DataInv
  <2>1. verified_tip.l1_height = GenesisHeight /\ GenesisHeight \in Nat
    <3>1. CheckpointGenesisHeight = Anchor.height /\ Anchor.height \in Nat
      BY HeaderAssumption, ParamsAssumption DEF check_invariants, check_genesis_l1_height
    <3> QED
      BY <1>1, <3>1  DEF CheckpointTip, GenesisHeight
  <2>2. verified_tip.l1_height >= GenesisHeight
    BY <2>1, SMTT(60)
  <2>3. stage # "resolve" /\ stage \notin Reading \cup {"bridge"}
    BY <1>1  DEF Reading
  <2> QED
    BY <2>2, <2>3 DEF DataInv
<1> QED
  BY <1>1, <1>2, <1>3, <1>4, <1>5, RotationStarts DEF RunInv, NoHalt

\* No block panics the transition, as long as one operator of the genesis set is never removed
\* and what the transition relies on is provided: the data requested on the state before the
\* block is all the handlers read, every approved withdrawal finds a deposit and an operator,
\* rotation boundaries increase and the manifest follows its predecessor (compute_asm_transition).
THEOREM NeverHalts ==
  ASSUME NEW h \in Nat, is_active(current_multisig(from_operator_list(OperatorKeys)), h)
  PROVE  Spec /\ []Provided(h) => []NoHalt
<1>1. Init => RunInv(h)
  BY RunStarts
<1>2. /\ TypesInv /\ HarborInv /\ IInv /\ ChainInv /\ AdminInv /\ PegInv /\ RunInv(h) /\ Provided(h) /\ [Next]_vars
      => RunInv(h)'
  BY RunKept
<1>3. RunInv(h) => NoHalt
  BY DEF RunInv
<1> QED
  BY <1>1, <1>2, <1>3, TypesInvariance, Invariance, ChainStarts, ChainKept, AdminInvariance, PegInvariance, PTL DEF Spec

=============================================================================
