----------------------------- MODULE Checkpoint -----------------------------
(***************************************************************************)
(* The checkpoint subprotocol.  It keeps the verified tip of the OL chain, *)
(* the key the sequencer posts with, the predicate that verifies           *)
(* checkpoint proofs, the queue of predicate rotations that have been      *)
(* enacted but whose boundary the tip has not reached, and the pool of     *)
(* deposits that withdrawals may draw on.                                  *)
(*                                                                         *)
(* rotations and covered are history variables: every rotation that        *)
(* arrived, and every checkpoint that was accepted with the predicate that *)
(* verified it.                                                            *)
(***************************************************************************)
EXTENDS AsmHost, CheckpointRules, FiniteSetsExt

CONSTANTS
    SequencerKey,           \* the sequencer key at genesis
    GenesisPredicate,       \* the checkpoint predicate at genesis
    CheckpointGenesisHeight,    \* genesis_l1_height of the checkpoint configuration
    MAX_PENDING_PREDICATE_TRANSITIONS   \* capacity of the rotation queue (8 in the code)

(* The tip starts at the anchor block: a configuration that disagrees is refused. *)
check_genesis_l1_height(config_height, anchor_height) == config_height = anchor_height

\* The queue can hold a rotation.
ASSUME CheckpointAssumption == MAX_PENDING_PREDICATE_TRANSITIONS \in Nat \ {0}

VARIABLES
    sequencer_key,
    checkpoint_predicate,   \* the active predicate
    verified_tip,
    pending_transition,     \* rotations waiting for the tip, oldest first
    pool,                   \* the deposits withdrawals can draw on
    rotations,              \* history: [predicate, boundary, evicted] of every rotation
    covered                 \* history: [from, to, predicate] of every accepted checkpoint

checkpointVars == <<sequencer_key, checkpoint_predicate, verified_tip, pending_transition, pool,
                    rotations, covered>>

CheckpointTypeOK ==
    /\ verified_tip.epoch \in 0 .. MAX_EPOCH
    /\ verified_tip.l1_height \in Nat
    /\ verified_tip.slot \in Nat
    /\ Len(pending_transition) <= MAX_PENDING_PREDICATE_TRANSITIONS
    /\ pool.count \in Nat
    /\ Len(covered) = verified_tip.epoch

CheckpointInit ==
    /\ sequencer_key = SequencerKey
    /\ checkpoint_predicate = GenesisPredicate
    /\ verified_tip = CheckpointTip(0, CheckpointGenesisHeight, 0)
    /\ pending_transition = <<>>
    /\ pool = EmptyPool
    /\ rotations = <<>>
    /\ covered = <<>>

(***************************************************************************)
(* Envelopes: the first input reveals a signed leaf [pubkey, payload]; the *)
(* key stands for a signature when the output it spends is native taproot. *)
(***************************************************************************)
OL_STF_CHECKPOINT_TX_TYPE == 1

parse_checkpoint_envelope(tx) == Len(tx.ins) >= 1 /\ tx.ins[1].witness[1] = "signed"
EnvelopeLeaf(tx) == tx.ins[1].witness[2]
decode_checkpoint_payload(leaf) ==
    /\ leaf.payload[1] = "checkpoint"
    /\ leaf.payload[2].new_tip \in CheckpointTips
    /\ OLLogs(leaf.payload[2].sidecar.ol_logs)
PayloadOf(tx) == EnvelopeLeaf(tx).payload[2]

verify_sequencer_key(tx) == EnvelopeLeaf(tx).pubkey = sequencer_key
verify_spent_output(script) == script[1] \in {"p2tr", "p2tr_key", "drt", "stake"}

(* The checks that need no auxiliary data; pre-processing runs them too. *)
verify_envelope_key(tx) ==
    /\ tx.type = OL_STF_CHECKPOINT_TX_TYPE
    /\ parse_checkpoint_envelope(tx)
    /\ verify_sequencer_key(tx)

authenticate_checkpoint_envelope(tx) ==
    /\ has_bitcoin_txout(tx.ins[1])
    /\ verify_spent_output(get_bitcoin_txout(tx.ins[1]).script)

(* What pre-processing asks for, from the state before the block. *)
request_checkpoint_aux(tx) ==
    IF ~verify_envelope_key(tx) THEN NoRequests
    ELSE [txs |-> {tx.ins[1].txid},
          ranges |-> IF decode_checkpoint_payload(EnvelopeLeaf(tx))
                     THEN request_manifest_hashes(verified_tip.l1_height + 1,
                                                  PayloadOf(tx).new_tip.l1_height)
                     ELSE {}]

(***************************************************************************)
(* handle_checkpoint_tx                                                    *)
(***************************************************************************)
(* The steps before the proof: authentication, decoding and progression. *)
Progresses(tx) ==
    /\ verify_envelope_key(tx)
    /\ authenticate_checkpoint_envelope(tx)
    /\ decode_checkpoint_payload(EnvelopeLeaf(tx))
    /\ verify_progression(verified_tip, PayloadOf(tx).new_tip, height, pending_transition)

(* Auxiliary data the handler cannot do without: a miss panics. *)
MissingSpentOutput(tx) == verify_envelope_key(tx) /\ ~has_bitcoin_txout(tx.ins[1])
MissingManifests(tx) ==
    LET new == PayloadOf(tx).new_tip
    IN  /\ Progresses(tx)
        /\ ~IsEmptyRange(verified_tip, new)
        /\ ~has_manifest_hashes(verified_tip.l1_height + 1, new.l1_height)
AuxMissing(tx) == MissingSpentOutput(tx) \/ MissingManifests(tx)

(* The intents, the pool and the proof, checked before anything changes. *)
can_advance(payload) ==
    /\ IntentsWellFormed(payload.sidecar.ol_logs)
    /\ verify_withdrawals(pool, extract_withdrawal_intents(payload.sidecar.ol_logs))
    /\ verify_proof(checkpoint_predicate, verified_tip, payload,
                    compute_asm_manifests_hash(verified_tip, payload.new_tip))
Valid(tx) == Progresses(tx) /\ can_advance(PayloadOf(tx))

\* Mutant: a tip at the boundary does not promote the rotation.
ElapsedLate(tip) == pending_transition # <<>> /\ Head(pending_transition).boundary < tip.l1_height

(* A rotation whose boundary the new tip has reached becomes active. *)
Elapsed(tip) == pending_transition # <<>> /\ Head(pending_transition).boundary <= tip.l1_height
promote_elapsed_transition(tip) ==
    IF Elapsed(tip)
    THEN /\ checkpoint_predicate' = Head(pending_transition).predicate
         /\ pending_transition' = Tail(pending_transition)
    ELSE UNCHANGED <<checkpoint_predicate, pending_transition>>

advance(payload) ==
    /\ pool' = apply_withdrawals(pool, extract_withdrawal_intents(payload.sidecar.ol_logs))
    /\ verified_tip' = payload.new_tip
    /\ promote_elapsed_transition(payload.new_tip)
    /\ covered' = Append(covered, [from |-> verified_tip.l1_height + 1,
                                   to |-> payload.new_tip.l1_height,
                                   predicate |-> checkpoint_predicate])

DispatchWithdrawals(payload) ==
    LET intents == extract_withdrawal_intents(payload.sidecar.ol_logs)
    IN  [i \in DOMAIN intents |-> <<"DispatchWithdrawal", intents[i]>>]

CheckpointTxReady == Running("checkpoint") /\ relevant["checkpoint"] # <<>>

(* Missing auxiliary data means the runtime did not honour a request: the handler panics. *)
RejectCheckpoint ==
    /\ CheckpointTxReady
    /\ IF AuxMissing(NextTx("checkpoint"))
       THEN Panic
       ELSE /\ ~Valid(NextTx("checkpoint"))
            /\ TakeTx("checkpoint")
            /\ UNCHANGED <<chainVars, spec_id, next_predicate, num_entries, stage, requests, aux, inbox, logs, halted>>
    /\ UNCHANGED checkpointVars

AcceptCheckpoint ==
    /\ CheckpointTxReady
    /\ ~AuxMissing(NextTx("checkpoint"))
    /\ Valid(NextTx("checkpoint"))
    /\ LET payload == PayloadOf(NextTx("checkpoint"))
       IN  /\ advance(payload)
           /\ emit_logs(<<CheckpointTipUpdate(payload.new_tip)>>)
           /\ inbox' = relay_msgs(inbox, "bridge", DispatchWithdrawals(payload))
    /\ TakeTx("checkpoint")
    /\ UNCHANGED <<chainVars, spec_id, next_predicate, num_entries, stage, requests, aux, halted>>
    /\ UNCHANGED <<sequencer_key, rotations>>

(***************************************************************************)
(* process_msgs                                                            *)
(***************************************************************************)
CheckpointMsgReady(kind) ==
    /\ Running("checkpoint_msgs")
    /\ inbox["checkpoint"] # <<>>
    /\ NextMsg("checkpoint")[1] = kind

HandledMsg ==
    /\ TakeMsg("checkpoint")
    /\ UNCHANGED <<chainVars, spec_id, next_predicate, num_entries, stage, relevant, requests, aux, logs, halted>>

(* The recorded total is logged, and computing it panics past the money supply. *)
record_deposit ==
    LET recorded == record(pool, NextMsg("checkpoint")[2])
    IN  /\ CheckpointMsgReady("DepositProcessed")
        /\ \/ pool_total(recorded) <= MAX_MONEY /\ pool' = recorded /\ HandledMsg
           \/ pool_total(recorded) > MAX_MONEY /\ UNCHANGED pool /\ Panic
        /\ UNCHANGED <<sequencer_key, checkpoint_predicate, verified_tip, pending_transition,
                       rotations, covered>>

update_sequencer_key ==
    /\ CheckpointMsgReady("UpdateSequencerKey")
    /\ sequencer_key' = NextMsg("checkpoint")[2]
    /\ HandledMsg
    /\ UNCHANGED <<checkpoint_predicate, verified_tip, pending_transition, pool, rotations, covered>>

\* Mutant: one rotation too many.
QueueOverfull == Len(pending_transition) > MAX_PENDING_PREDICATE_TRANSITIONS

(* The block that carries the rotation is the last one the predicate before it governs.  A     *)
(* full queue drops its oldest rotation, which never takes effect.                             *)
QueueFull == Len(pending_transition) = MAX_PENDING_PREDICATE_TRANSITIONS
Ordered(boundary) == pending_transition # <<>> => Last(pending_transition).boundary < boundary
Rotation(predicate, boundary) ==
    [predicate |-> predicate, boundary |-> boundary, evicted |-> FALSE]
Evict(history, transition) ==
    [i \in DOMAIN history |->
        IF history[i].boundary = transition.boundary THEN [history[i] EXCEPT !.evicted = TRUE]
        ELSE history[i]]

queue_predicate_transition ==
    LET predicate == NextMsg("checkpoint")[2]
        kept == IF QueueFull THEN Tail(pending_transition) ELSE pending_transition
        history == IF QueueFull THEN Evict(rotations, Head(pending_transition)) ELSE rotations
    IN  /\ CheckpointMsgReady("UpdateCheckpointPredicate")
        /\ \/ /\ Ordered(height)
              /\ pending_transition' = Append(kept, PendingPredicateTransition(predicate, height))
              /\ rotations' = Append(history, Rotation(predicate, height))
              /\ HandledMsg
           \/ /\ ~Ordered(height)
              /\ Panic
              /\ UNCHANGED <<pending_transition, rotations>>
        /\ UNCHANGED <<sequencer_key, checkpoint_predicate, verified_tip, pool, covered>>

CheckpointNext ==
    \/ RejectCheckpoint
    \/ AcceptCheckpoint
    \/ TxsDone("checkpoint", "bridge") /\ UNCHANGED checkpointVars
    \/ record_deposit
    \/ update_sequencer_key
    \/ queue_predicate_transition
    \/ MsgsDone("checkpoint", "checkpoint_msgs", "bridge_msgs") /\ UNCHANGED checkpointVars

(***************************************************************************)
(* Properties, which hold in the whole transition (AsmStf).                *)
(***************************************************************************)
(* Queued predicate rotations have strictly increasing boundaries, all above the verified tip   *)
(* (queue_predicate_transition, promote_elapsed_transition).                                    *)
TransitionsAhead ==
    /\ \A i, j \in DOMAIN pending_transition :
           i < j => pending_transition[i].boundary < pending_transition[j].boundary
    /\ \A i \in DOMAIN pending_transition :
           pending_transition[i].boundary > verified_tip.l1_height

(* The predicate that governs a height: the last rotation with a boundary below it, among those *)
(* of the history that were not evicted.                                                        *)
Effective(history, h) ==
    {i \in DOMAIN history : history[i].boundary < h /\ ~history[i].evicted}
Governing(history, h) ==
    IF Effective(history, h) = {} THEN GenesisPredicate
    ELSE history[Max(Effective(history, h))].predicate

(* Accepted checkpoints tile the L1 heights without gap or overlap, stay below the block that   *)
(* carried them, and every height was verified under the predicate that governs it; the active  *)
(* predicate governs the next height a checkpoint can claim (verify_progression, advance).      *)
GovernedRanges ==
    /\ \A i \in DOMAIN covered :
           /\ covered[i].from = IF i = 1 THEN GenesisHeight + 1 ELSE covered[i - 1].to + 1
           /\ \A h \in covered[i].from .. covered[i].to : Governing(rotations, h) = covered[i].predicate
    /\ verified_tip.l1_height < height \/ covered = <<>>
    /\ Governing(rotations, verified_tip.l1_height + 1) = checkpoint_predicate
=============================================================================
