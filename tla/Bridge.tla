------------------------------- MODULE Bridge -------------------------------
(***************************************************************************)
(* The bridge subprotocol.  In a block it first handles its transactions   *)
(* (deposits, withdrawal fulfillments, slashes and unstakes), then hands   *)
(* every assignment whose deadline is reached to another operator, then    *)
(* emits the export log.  In the finish stage it handles its messages:     *)
(* withdrawals ordered by checkpoints become assignments, and              *)
(* administration changes the operator set and the safe harbor.            *)
(*                                                                         *)
(* fulfilled is a history variable: the number of withdrawals paid out.    *)
(***************************************************************************)
EXTENDS AsmHost, BridgeTables, BridgeTxs

CONSTANTS
    OperatorKeys,           \* the operators at genesis
    denomination,           \* the amount of every deposit
    assignment_duration,    \* blocks an operator has to fulfill a withdrawal
    operator_fee,
    recovery_delay,         \* blocks after which a depositor may take a request back
    SafeHarborConfig        \* the safe harbor address of the parameter file

\* The bridge starts with an operator, and with a safe harbor that can hold one.
ASSUME BridgeAssumption ==
    /\ IsList(OperatorKeys) /\ OperatorKeys # <<>>
    /\ denomination \in Nat \ {0}
    /\ assignment_duration \in Nat
    /\ operator_fee \in Nat
    /\ recovery_delay \in Nat
    /\ SafeHarborAddressOk(SafeHarborConfig)

VARIABLES
    op_table,       \* operators: the operator table
    deposits,       \* unassigned deposits
    assignments,    \* withdrawals an operator must pay
    safe_harbor,
    fulfilled       \* history: withdrawals paid out

bridgeVars == <<op_table, deposits, assignments, safe_harbor, fulfilled>>

BridgeTypeOK ==
    /\ \A d \in DOMAIN deposits : deposits[d].deposit_idx = d
    /\ \A d \in DOMAIN assignments : assignments[d].deposit_entry.deposit_idx = d
    /\ safe_harbor.activated \in BOOLEAN
    /\ fulfilled \in Nat

BridgeInit ==
    /\ op_table = from_operator_list(OperatorKeys)
    /\ deposits = NoEntries
    /\ assignments = NoEntries
    /\ safe_harbor = SafeHarbor(SafeHarborAddressFrom(SafeHarborConfig))
    /\ fulfilled = 0

\* Mutant: the stake an unstake spends is not requested.
preprocess_without_unstake(tx) ==
    CASE IsDeposit(tx) -> {DepositInfo(tx).drt_inpoint.txid}
      [] IsSlash(tx) -> {SlashInfo(tx).stake_inpoint.txid}
      [] OTHER -> {}

(***************************************************************************)
(* preprocess_parsed_tx: the transactions a parsed one needs.              *)
(***************************************************************************)
preprocess_parsed_tx(tx) ==
    CASE IsDeposit(tx) -> {DepositInfo(tx).drt_inpoint.txid}
      [] IsSlash(tx) -> {SlashInfo(tx).stake_inpoint.txid}
      [] IsUnstake(tx) -> {UnstakeInfo(tx).stake_inpoint.txid}
      [] OTHER -> {}

(***************************************************************************)
(* Validation.                                                             *)
(***************************************************************************)
validate_deposit_info(info, drt) ==
    /\ info.locked_script = current_nn_script(op_table).script
    /\ drt.script = create_deposit_request_locking_script(drt.recovery_pk, op_table.agg_key,
                                                          recovery_delay)
    /\ info.amt = denomination

(* An index that is waiting in either table is taken. *)
can_add_deposit(idx) == ~has_assignment(assignments, idx) /\ ~get_deposit(deposits, idx)

validate_withdrawal_fulfillment_info(info) ==
    /\ has_assignment(assignments, info.deposit_idx)
    /\ net_amount(assignments[info.deposit_idx]) = info.withdrawal_amount
    /\ <<"p2tr", assignments[info.deposit_idx].withdrawal_output.destination>>
           = info.withdrawal_destination

(* The first recorded configuration with that script. *)
ConfigsWith(script) ==
    {i \in DOMAIN op_table.historical_nn_scripts :
        op_table.historical_nn_scripts[i].script = script}
WasInConfig(script, idx) ==
    /\ ConfigsWith(script) # {}
    /\ is_active(op_table.historical_nn_scripts[Min(ConfigsWith(script))].operators, idx)

validate_slash_stake_connector(idx, script) == WasInConfig(script, idx)
validate_unstake_info(info, script) ==
    /\ WasInConfig(build_nn_script(info.witness_pushed_pubkey), info.operator_idx)
    /\ script = expected_stake_connector_script_pubkey(info.stake_hash, info.witness_pushed_pubkey)

\* A bridge transaction whose requests are among the data.
BridgeServed(tx, data) == preprocess_parsed_tx(tx) \subseteq data.txs

(***************************************************************************)
(* handle_parsed_tx: what an accepted transaction of each type needs.      *)
(***************************************************************************)
(* Requested data that is missing panics. *)
BridgeAuxMissing(tx) ==
    CASE IsDeposit(tx) -> ~has_bitcoin_tx(DepositInfo(tx).drt_inpoint.txid)
      [] IsSlash(tx) -> ~has_bitcoin_txout(SlashInfo(tx).stake_inpoint)
      [] IsUnstake(tx) -> ~has_bitcoin_txout(UnstakeInfo(tx).stake_inpoint)
      [] OTHER -> FALSE

Drt(tx) == L1Txs[DepositInfo(tx).drt_inpoint.txid]
DepositAccepted(tx) ==
    /\ IsDeposit(tx)
    /\ parse_drt(Drt(tx))
    /\ validate_deposit_info(DepositInfo(tx), DepositRequestInfo(Drt(tx)))
    /\ can_add_deposit(DepositInfo(tx).deposit_idx)

FulfillmentAccepted(tx) ==
    IsFulfillment(tx) /\ validate_withdrawal_fulfillment_info(WithdrawalFulfillmentInfo(tx))

SlashAccepted(tx) ==
    /\ IsSlash(tx)
    /\ validate_slash_stake_connector(SlashInfo(tx).operator_idx,
                                      get_bitcoin_txout(SlashInfo(tx).stake_inpoint).script)
UnstakeAccepted(tx) ==
    /\ IsUnstake(tx)
    /\ validate_unstake_info(UnstakeInfo(tx), get_bitcoin_txout(UnstakeInfo(tx).stake_inpoint).script)
RemovalAccepted(tx) == SlashAccepted(tx) \/ UnstakeAccepted(tx)

(***************************************************************************)
(* process_txs.                                                            *)
(***************************************************************************)
BridgeTx == NextTx("bridge")
BridgeTxReady == Running("bridge") /\ relevant["bridge"] # <<>>
BridgeTxHandled ==
    /\ TakeTx("bridge")
    /\ UNCHANGED <<chainVars, spec_id, next_predicate, num_entries, stage, requests, aux, halted>>

(* The transaction does not parse or does not validate; or requested data is missing. *)
SkipBridgeTx ==
    /\ BridgeTxReady
    /\ IF BridgeAuxMissing(BridgeTx)
       THEN Panic
       ELSE /\ ~DepositAccepted(BridgeTx)
            /\ ~FulfillmentAccepted(BridgeTx)
            /\ ~RemovalAccepted(BridgeTx)
            /\ BridgeTxHandled
            /\ UNCHANGED <<inbox, logs>>
    /\ UNCHANGED bridgeVars

AddDeposit ==
    LET info == DepositInfo(BridgeTx)
        notary_set == current_nn_script_index(op_table)
    IN  /\ BridgeTxReady
        /\ ~BridgeAuxMissing(BridgeTx)
        /\ DepositAccepted(BridgeTx)
        /\ deposits' = insert_deposit(deposits, DepositEntry(info.deposit_idx, notary_set, info.amt))
        /\ inbox' = relay_msgs(inbox, "checkpoint", << <<"DepositProcessed", info.amt>> >>)
        /\ emit_logs(<<DepositLog(DepositRequestInfo(Drt(BridgeTx)).destination, info.amt)>>)
        /\ BridgeTxHandled
        /\ UNCHANGED <<op_table, assignments, safe_harbor, fulfilled>>

(* The leaf names the assignee by index under spec 0 and by key under spec 1. *)
export_leaf(deposit_idx, assignee) ==
    IF spec_id = 0 THEN OperatorClaimUnlockV0(deposit_idx, assignee)
    ELSE OperatorClaimUnlockV1(deposit_idx, get_operator(op_table, assignee))

FulfillWithdrawal ==
    LET idx == WithdrawalFulfillmentInfo(BridgeTx).deposit_idx
    IN  /\ BridgeTxReady
        /\ FulfillmentAccepted(BridgeTx)
        /\ IF spec_id = 0 \/ known_operator(op_table, assignments[idx].current_assignee)
           THEN /\ assignments' = remove_assignment(assignments, idx)
                /\ fulfilled' = fulfilled + 1
                /\ emit_logs(<<NewExportEntry("bridge",
                                 export_leaf(idx, assignments[idx].current_assignee))>>)
                /\ BridgeTxHandled
                /\ UNCHANGED inbox
           ELSE Panic /\ UNCHANGED <<assignments, fulfilled>>
        /\ UNCHANGED <<op_table, deposits, safe_harbor>>

(* Removing the last active operator panics. *)
RemoveOperator ==
    LET idx == BridgeTx.aux[2]
    IN  /\ BridgeTxReady
        /\ ~BridgeAuxMissing(BridgeTx)
        /\ RemovalAccepted(BridgeTx)
        /\ IF membership_panics(op_table, <<>>, <<idx>>)
           THEN Panic /\ UNCHANGED op_table
           ELSE /\ op_table' = apply_membership_changes(op_table, <<>>, <<idx>>)
                /\ BridgeTxHandled
                /\ UNCHANGED <<inbox, logs>>
        /\ UNCHANGED <<deposits, assignments, safe_harbor, fulfilled>>

(* After the transactions: every expired assignment moves on, or the whole pass panics.  Then  *)
(* the accumulated work is exported.                                                           *)
Reassigned(d) ==
    reassign(assignments[d], calculate_deadline(assignment_duration, height),
             nn_script(op_table, assignments[d].deposit_entry.notary_set).operators,
             current_multisig(op_table))

reassign_expired_assignments ==
    LET expired == ExpiredAssignments(assignments, height)
    IN  /\ Running("bridge_expired")
        /\ IF \E d \in expired : Reassigned(d) = {}
           THEN Panic /\ UNCHANGED assignments
           ELSE /\ \E moved \in [expired -> UNION {Reassigned(d) : d \in expired}] :
                       /\ \A d \in expired : moved[d] \in Reassigned(d)
                       /\ assignments' = insert_assignments(assignments, moved)
                /\ emit_logs(<<ExportExtraDataUpdate("bridge", pow_state.total_accumulated_pow)>>)
                /\ stage' = "checkpoint_msgs"
                /\ UNCHANGED <<chainVars, spec_id, next_predicate, num_entries, relevant, requests, aux, inbox, halted>>
        /\ UNCHANGED <<op_table, deposits, safe_harbor, fulfilled>>

(***************************************************************************)
(* process_msgs.                                                           *)
(***************************************************************************)
BridgeMsgReady(kind) ==
    /\ Running("bridge_msgs")
    /\ inbox["bridge"] # <<>>
    /\ NextMsg("bridge")[1] = kind
BridgeMsgHandled ==
    /\ TakeMsg("bridge")
    /\ UNCHANGED <<chainVars, spec_id, next_predicate, num_entries, stage, relevant, requests, aux, logs, halted>>

(* One unit of a withdrawal on the deposit d. *)
build_assignment(d, intent) ==
    create(deposits[d], [intent EXCEPT !.amt = denomination], operator_fee,
           calculate_deadline(assignment_duration, height),
           nn_script(op_table, deposits[d].notary_set).operators, current_multisig(op_table))

(* The units are backed by the oldest deposits, in order; what cannot be backed, or has no     *)
(* eligible operator, panics.                                                                  *)
DispatchFails(intent, units, backing) ==
    \/ ~has_units(intent, denomination)
    \/ Cardinality(backing) < units
    \/ \E d \in backing : \/ deposits[d].amt # denomination
                          \/ build_assignment(d, intent) = {}
                          \/ has_assignment(assignments, d)

create_withdrawal_assignment ==
    LET intent == NextMsg("bridge")[2]
        units == denomination_units(intent, denomination)
        backing == oldest_deposits(deposits, units)
    IN  /\ BridgeMsgReady("DispatchWithdrawal")
        /\ IF DispatchFails(intent, units, backing)
           THEN Panic /\ UNCHANGED <<deposits, assignments>>
           ELSE /\ \E entries \in [backing -> UNION {build_assignment(d, intent) : d \in backing}] :
                       /\ \A d \in backing : entries[d] \in build_assignment(d, intent)
                       /\ assignments' = insert_assignments(assignments, entries)
                /\ deposits' = remove_deposits(deposits, backing)
                /\ BridgeMsgHandled
        /\ UNCHANGED <<op_table, safe_harbor, fulfilled>>

apply_operator_set_update ==
    LET change == NextMsg("bridge")[2]
    IN  /\ BridgeMsgReady("UpdateOperatorSet")
        /\ IF membership_panics(op_table, change.add_members, change.remove_members)
           THEN Panic /\ UNCHANGED op_table
           ELSE /\ op_table' = apply_membership_changes(op_table, change.add_members,
                                                        change.remove_members)
                /\ BridgeMsgHandled
        /\ UNCHANGED <<deposits, assignments, safe_harbor, fulfilled>>

update_safe_harbor_address ==
    /\ BridgeMsgReady("UpdateSafeHarborAddress")
    /\ safe_harbor' = update_address(safe_harbor, NextMsg("bridge")[2])
    /\ BridgeMsgHandled
    /\ UNCHANGED <<op_table, deposits, assignments, fulfilled>>

activate_safe_harbor ==
    /\ BridgeMsgReady("Defcon")
    /\ safe_harbor' = set_activated(safe_harbor)
    /\ BridgeMsgHandled
    /\ UNCHANGED <<op_table, deposits, assignments, fulfilled>>

BridgeNext ==
    \/ SkipBridgeTx
    \/ AddDeposit
    \/ FulfillWithdrawal
    \/ RemoveOperator
    \/ TxsDone("bridge", "bridge_expired") /\ UNCHANGED bridgeVars
    \/ reassign_expired_assignments
    \/ create_withdrawal_assignment
    \/ apply_operator_set_update
    \/ update_safe_harbor_address
    \/ activate_safe_harbor
    \/ MsgsDone("bridge", "bridge_msgs", "export") /\ UNCHANGED bridgeVars
=============================================================================
