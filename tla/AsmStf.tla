------------------------------- MODULE AsmStf -------------------------------
(***************************************************************************)
(* The anchor state machine: the host of the transition with the three     *)
(* subprotocols in it, processing one L1 block after another.              *)
(***************************************************************************)
EXTENDS Admin, Checkpoint, Bridge

(* What spans the whole parameter set: everything is written for the network and the height of *)
(* the anchor.                                                                                 *)
check_invariants ==
    /\ check_signer_networks(InitSigners, Anchor.network)
    /\ check_safe_harbor_network(SafeHarborConfig, Anchor.network)
    /\ check_genesis_l1_height(CheckpointGenesisHeight, Anchor.height)

\* A parameter file that fails these checks is not read.
ASSUME ParamsAssumption == check_invariants /\ Anchor.network = Network

vars == <<hostVars, adminVars, checkpointVars, bridgeVars>>

(* pre_process: the requests of every relevant transaction, from the state before the block. *)
CollectedRequests ==
    LET ckpt == Range(relevant["checkpoint"])
        bridge == Range(relevant["bridge"])
    IN  [txs |-> (UNION {request_checkpoint_aux(t).txs : t \in ckpt})
                   \cup (UNION {preprocess_parsed_tx(t) : t \in bridge}),
         ranges |-> UNION {request_checkpoint_aux(t).ranges : t \in ckpt}]

Init == HostInit /\ AdminInit /\ CheckpointInit /\ BridgeInit

(* Each part leaves the others' state alone: they meet in the buffers of the host only. *)
HostStep ==
    \/ StartBlock /\ UNCHANGED <<adminVars, checkpointVars, bridgeVars>>
    \/ PreProcess(CollectedRequests) /\ UNCHANGED <<adminVars, checkpointVars, bridgeVars>>
    \/ Resolve /\ UNCHANGED <<adminVars, checkpointVars, bridgeVars>>
    \/ ExportBlock /\ UNCHANGED <<adminVars, checkpointVars, bridgeVars>>
AdminStep == AdminNext /\ UNCHANGED <<checkpointVars, bridgeVars>>
CheckpointStep == CheckpointNext /\ UNCHANGED <<adminVars, bridgeVars>>
BridgeStep == BridgeNext /\ UNCHANGED <<adminVars, checkpointVars>>

(* The end of the explored chain. *)
EndOfChain == Running("idle") /\ height = MaxHeight /\ UNCHANGED vars

Next == HostStep \/ AdminStep \/ CheckpointStep \/ BridgeStep \/ EndOfChain
Spec == Init /\ [][Next]_vars

(***************************************************************************)
(* Properties.                                                             *)
(***************************************************************************)
(* The type invariant. *)
StfTypeOK == HostTypeOK /\ AdminTypeOK /\ CheckpointTypeOK /\ BridgeTypeOK

(* No block panics the transition: the data pre-processing requested on the state before the    *)
(* block is all the handlers read, every approved withdrawal finds a deposit and an operator,   *)
(* rotation boundaries increase, the operator set is never emptied and the manifest fits.  The  *)
(* blocks respect the 1/N honesty assumption: the first operator is never removed.              *)
NoHalt == ~halted

(* The header state is what the whole chain since the anchor says: timestamps, interval start,   *)
(* work and next target.  Its stored form decodes to itself (check_and_update, from_delegate).  *)
PowStateFromChain ==
    /\ FromChain(pow_state, headers)
    /\ Decodes(into_delegate(pow_state)) /\ from_delegate(into_delegate(pow_state)) = pow_state

(* The transactions the subprotocols are fed are exactly the ones the header was mined with,    *)
(* in their order, whatever body came with it: a repeated tail of the body has the same Merkle  *)
(* root (calculate_root_no_dups, check_block_integrity).                                        *)
BodyBound == stage = "preprocess" => relevant = group_txs_by_subprotocol(mined)

(* Every accepted update ends in one way (handle_pending_updates, handle_action): it waits in   *)
(* the queue exactly once, or was enacted exactly at its activation height, or was cancelled    *)
(* before it.  Once a block's queue is drained nothing that is due is left, so the actions of   *)
(* the block are checked against the signer sets those updates produced.                        *)
UpdatesResolveOnce ==
    LET waiting(id) == {i \in DOMAIN queued : queued[i].id = id}
        enacted(id) == {i \in DOMAIN enacting : enacting[i].id = id}
    IN  \A k \in DOMAIN accepted :
            LET update == accepted[k]
                here == waiting(k - 1)
            IN  /\ Cardinality(here) + Cardinality(enacted(k - 1))
                       = IF update.fate = "queued" THEN 1 ELSE 0
                /\ update.fate = "enacted" => update.at = update.due
                /\ update.fate = "cancelled" => update.at < update.due
                /\ update.fate = "queued" /\ stage \in {"idle", "admin", "checkpoint"} =>
                       update.due > height
                /\ \A i \in here : /\ queued[i].action = update.action
                                   /\ queued[i].activation_height = update.due

(* A role can always be exercised: its signers are distinct and at least as many as the         *)
(* threshold, although an update is validated again only when it is enacted, blocks after it    *)
(* was accepted, on a signer set other updates may have changed (apply_multisig_update).        *)
QuorateSigners ==
    \A r \in Role : LET config == authorities[r].config
                    IN  /\ IsInjective(config.signers)
                        /\ config.threshold \in 1 .. Len(config.signers)
                        /\ Len(config.signers) <= MAX_SIGNERS

(* Deposits and assignments share no index; an assignee belongs to the notary set of its        *)
(* deposit and has not been tried before; the operators tried are a part of that set; and       *)
(* between blocks every deadline lies ahead (add_deposit, create, reassign).                    *)
AssignmentsSound ==
    /\ DOMAIN deposits \cap DOMAIN assignments = {}
    /\ \A d \in DOMAIN assignments :
           LET entry == assignments[d]
               notary == nn_script(op_table, entry.deposit_entry.notary_set).operators
           IN  /\ is_active(notary, entry.current_assignee)
               /\ ~is_active(entry.previous_assignees, entry.current_assignee)
               /\ active_indices(entry.previous_assignees) \subseteq active_indices(notary)
               /\ stage = "idle" => entry.fulfillment_deadline > height

(* An assignment keeps its operator until the deadline height has been processed, the           *)
(* transactions of that block first; then it goes to a member of its notary set that is active  *)
(* now, and to one that was tried before only when all of those were; the payout never changes  *)
(* (reassign_expired_assignments).                                                              *)
HeldUntilDeadline ==
    [][\A d \in DOMAIN assignments \cap DOMAIN assignments' :
          LET before == assignments[d]
              after == assignments'[d]
              tried == active_indices(before.previous_assignees) \cup {before.current_assignee}
              eligible == active_indices(nn_script(op_table, before.deposit_entry.notary_set).operators)
                              \cap active_indices(current_multisig(op_table))
          IN  after # before =>
                  /\ before.fulfillment_deadline <= height
                  /\ relevant["bridge"] = <<>>
                  /\ after.current_assignee \in eligible
                  /\ after.current_assignee \in tried => eligible \subseteq tried
                  /\ after.withdrawal_output = before.withdrawal_output]_vars

(* The operator table: the last recorded configuration is the active set and is never empty,    *)
(* its key is the aggregated key deposits must use, bitmaps only grow, and a removed operator   *)
(* never comes back (apply_membership_changes).                                                 *)
OperatorHistory ==
    LET past == op_table.historical_nn_scripts
    IN  /\ past # <<>>
        /\ build_nn_script(op_table.agg_key) = Last(past).script
        /\ Len(Last(past).operators) = Len(op_table.operators)
        /\ IsInjective(op_table.operators)
        /\ \A i \in DOMAIN past :
               /\ active_indices(past[i].operators) # {}
               /\ past[i].script =
                      build_nn_script(calculate_aggregated_key(op_table.operators,
                                                               past[i].operators))
               /\ \A j \in i .. Len(past) : \A idx \in active_indices(past[j].operators) :
                      idx < Len(past[i].operators) => is_active(past[i].operators, idx)

(***************************************************************************)
(* The peg.  Messages in flight count: a deposit is free as soon as the    *)
(* bridge took it, a withdrawal is ordered as soon as its checkpoint is    *)
(* accepted.                                                               *)
(***************************************************************************)
FreeDeposits ==
    pool.count + Total([i \in DOMAIN inbox["checkpoint"] |->
                          IF inbox["checkpoint"][i][1] = "DepositProcessed" THEN 1 ELSE 0])
OrderedUnits ==
    Total([i \in DOMAIN inbox["bridge"] |->
             IF inbox["bridge"][i][1] = "DispatchWithdrawal"
             THEN denomination_units(inbox["bridge"][i][2], denomination) ELSE 0])

ThePeg == INSTANCE Peg WITH
    vault <- Cardinality(DOMAIN deposits), free <- FreeDeposits, ordered <- OrderedUnits,
    owed <- Cardinality(DOMAIN assignments), paid <- fulfilled

(* The transition implements the peg: the checkpoint's pool and the bridge's tables, updated by *)
(* messages that cross in one block, never disagree.                                            *)
PegKept == ThePeg!Spec
=============================================================================
