---------------------------- MODULE BridgeTables ----------------------------
(***************************************************************************)
(* The tables of the bridge: the operators with the history of their N/N   *)
(* configurations, the unassigned deposits and the assignments.            *)
(*                                                                         *)
(* An operator's index is its position in the table, which only grows.     *)
(* Deposits and assignments are functions on deposit indices.  The key     *)
(* aggregated from a set of operator keys stands for that set.             *)
(***************************************************************************)
EXTENDS BridgeTypes, Lists, FiniteSetsExt

(***************************************************************************)
(* Operators.                                                              *)
(***************************************************************************)
aggregate_schnorr_keys(keys) == <<"agg", keys>>
build_nn_script(agg_key) == <<"p2tr_key", agg_key>>
HistoricalNnScript(script, operators) == [script |-> script, operators |-> operators]

current_nn_script_index(table) == Len(table.historical_nn_scripts) - 1
nn_script(table, idx) == table.historical_nn_scripts[idx + 1]
current_nn_script(table) == Last(table.historical_nn_scripts)
current_multisig(table) == current_nn_script(table).operators
is_in_current_multisig(table, idx) == is_active(current_multisig(table), idx)
known_operator(table, idx) == idx + 1 \in DOMAIN table.operators
get_operator(table, idx) == table.operators[idx + 1]

(* A key that is already in the table is skipped, whether or not it is still active. *)
AddOperator(state, pk) ==
    IF pk \in Range(state.operators) THEN state
    ELSE [operators |-> Append(state.operators, pk),
          active |-> try_set(state.active, Len(state.operators), TRUE)]
add_operators(operators, active, members) ==
    LET upto[n \in 0 .. Len(members)] ==
          IF n = 0 THEN [operators |-> operators, active |-> active]
          ELSE AddOperator(upto[n - 1], members[n])
    IN  upto[Len(members)]

(* An unknown index is skipped; a known one loses its bit. *)
remove_operators(state, indices) ==
    [i \in DOMAIN state.active |->
        state.active[i] /\ ~(i - 1 \in Range(indices) /\ i \in DOMAIN state.operators)]

calculate_aggregated_key(operators, active) ==
    aggregate_schnorr_keys({operators[i + 1] : i \in active_indices(active)})

InitialActive(table) ==
    IF table.historical_nn_scripts = <<>> THEN new_empty_bitmap ELSE current_multisig(table)
Membership(table, add, remove) ==
    LET added == add_operators(table.operators, InitialActive(table), add)
    IN  [operators |-> added.operators, active |-> remove_operators(added, remove)]

(* An index space used up, or a configuration left without operators, panics. *)
membership_panics(table, add, remove) ==
    LET new == Membership(table, add, remove)
    IN  \/ Len(new.operators) > NoSelection
        \/ new.active # InitialActive(table) /\ active_indices(new.active) = {}

\* Mutant: the aggregated key of the table is not refreshed.
record_nn_script_stale(table, operators, active) ==
    LET agg == calculate_aggregated_key(operators, active)
    IN  [operators |-> operators,
         agg_key |-> IF table.agg_key = <<>> THEN agg ELSE table.agg_key,
         historical_nn_scripts |->
             Append(table.historical_nn_scripts, HistoricalNnScript(build_nn_script(agg), active))]

record_nn_script(table, operators, active) ==
    LET agg == calculate_aggregated_key(operators, active)
    IN  [operators |-> operators, agg_key |-> agg,
         historical_nn_scripts |->
             Append(table.historical_nn_scripts, HistoricalNnScript(build_nn_script(agg), active))]

(* A configuration is recorded only when the resolved bitmap changed. *)
apply_membership_changes(table, add, remove) ==
    LET new == Membership(table, add, remove)
    IN  IF new.active # InitialActive(table)
        THEN record_nn_script(table, new.operators, new.active)
        ELSE [table EXCEPT !.operators = new.operators]

EmptyOperatorTable == [operators |-> <<>>, agg_key |-> <<>>, historical_nn_scripts |-> <<>>]
from_operator_list(keys) == apply_membership_changes(EmptyOperatorTable, keys, <<>>)

(***************************************************************************)
(* Deposits.                                                               *)
(***************************************************************************)
DepositEntry(idx, notary_set, amt) ==
    [deposit_idx |-> idx, notary_set |-> notary_set, amt |-> amt]
NoEntries == [d \in {} |-> {}]
get_deposit(deposits, idx) == idx \in DOMAIN deposits
insert_deposit(deposits, entry) ==
    [d \in DOMAIN deposits \cup {entry.deposit_idx} |->
        IF d = entry.deposit_idx THEN entry ELSE deposits[d]]
(* The n deposits with the smallest indices back the next n withdrawals. *)
oldest_deposits(deposits, n) ==
    {d \in DOMAIN deposits : Cardinality({e \in DOMAIN deposits : e < d}) < n}
remove_deposits(deposits, taken) == [d \in DOMAIN deposits \ taken |-> deposits[d]]

(***************************************************************************)
(* Assignments.                                                            *)
(***************************************************************************)
calculate_deadline(duration, current_height) == current_height + duration

(* The pick is seeded by the block and the deposit: any eligible operator may come out. *)
select_random_operator(eligible) == active_indices(eligible)

AssignmentEntry(deposit, output, fee, assignee, previous, deadline) ==
    [deposit_entry |-> deposit, withdrawal_output |-> output, operator_fee |-> fee,
     current_assignee |-> assignee, previous_assignees |-> previous,
     fulfillment_deadline |-> deadline]

(* What the operator must pay: the fee is kept, never below zero. *)
net_amount(entry) ==
    IF entry.withdrawal_output.amt < entry.operator_fee THEN 0
    ELSE entry.withdrawal_output.amt - entry.operator_fee

(* The preferred operator when eligible, otherwise any eligible one: the entries create may    *)
(* return, none when it fails.                                                                 *)
create(deposit, intent, fee, deadline, notary, active) ==
    LET previous == new_with_size(Len(notary), FALSE)
        eligible == filter_eligible_operators(notary, previous, active)
        preferred == {i \in as_specific(intent.selected_operator) : is_active(eligible, i)}
        assignees == IF preferred # {} THEN preferred ELSE select_random_operator(eligible)
    IN  IF ~can_filter(notary, previous, active) THEN {}
        ELSE {AssignmentEntry(deposit, to_output(intent), fee, a, previous, deadline) :
                  a \in assignees}

\* Mutant: the operator that let the deadline pass is not marked as tried.
reassign_unmarked(entry, new_deadline, notary, active) ==
    {[entry EXCEPT !.current_assignee = a, !.fulfillment_deadline = new_deadline] :
        a \in select_random_operator(
                 filter_eligible_operators(notary, entry.previous_assignees, active))}

(* The assignee is marked as tried; when nobody is left untried the marks are cleared.  The    *)
(* entries reassign may leave, none when it fails.                                             *)
reassign(entry, new_deadline, notary, active) ==
    LET tried == try_set(entry.previous_assignees, entry.current_assignee, TRUE)
        untried == filter_eligible_operators(notary, tried, active)
        cleared == new_with_size(Len(notary), FALSE)
        previous == IF active_indices(untried) # {} THEN tried ELSE cleared
        assignees == select_random_operator(filter_eligible_operators(notary, previous, active))
    IN  IF ~can_set(entry.previous_assignees, entry.current_assignee)
           \/ ~can_filter(notary, tried, active)
        THEN {}
        ELSE {[entry EXCEPT !.current_assignee = a, !.previous_assignees = previous,
                            !.fulfillment_deadline = new_deadline] : a \in assignees}

has_assignment(assignments, idx) == idx \in DOMAIN assignments
remove_assignment(assignments, idx) == [d \in DOMAIN assignments \ {idx} |-> assignments[d]]
insert_assignments(assignments, entries) ==
    [d \in DOMAIN assignments \cup DOMAIN entries |->
        IF d \in DOMAIN entries THEN entries[d] ELSE assignments[d]]

\* Mutant: a deadline expires a block late.
ExpiredAssignmentsLate(assignments, current_height) ==
    {d \in DOMAIN assignments : assignments[d].fulfillment_deadline < current_height}

(* Expired: the deadline height has been reached. *)
ExpiredAssignments(assignments, current_height) ==
    {d \in DOMAIN assignments : assignments[d].fulfillment_deadline <= current_height}
=============================================================================
