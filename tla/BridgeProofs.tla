---------------------------- MODULE BridgeProofs -----------------------------
(***************************************************************************)
(* Proofs about the bridge: the operator table with the history of its     *)
(* configurations, and the deposits and assignments that refer to it.      *)
(* Two sections are about panics: as long as one operator is never         *)
(* removed, every configuration has an operator and every handler finds    *)
(* its data.  The last one is about the pool of the checkpoints and about  *)
(* the counts of deposits, orders and assignments, with the messages that  *)
(* are in flight; PegProofs follows them through a block.                  *)
(***************************************************************************)
EXTENDS Bridge, Checkpoint, Stages, TableProofs

\* A leaf that names no prover is given to Zenon.
USE ZenonT(60)

-----------------------------------------------------------------------------
(* The operator table.                                                     *)

\* A recorded configuration: some of the operators, and the script of their key.
ConfigOf(config, operators) ==
  /\ config.operators \in Seq(BOOLEAN) /\ Len(config.operators) <= Len(operators)
  /\ active_indices(config.operators) # {}
  /\ config.script = build_nn_script(calculate_aggregated_key(operators, config.operators))

\* The configurations in their order: bits are added and cleared, never set again.
ConfigsInv(past, operators) ==
  /\ IsList(past) /\ past # <<>>
  /\ Len(Last(past).operators) = Len(operators)
  /\ \A i \in DOMAIN past : ConfigOf(past[i], operators)
  /\ \A i, j \in DOMAIN past : i <= j => Shrunk(past[i].operators, past[j].operators)

TableInv(table) ==
  /\ DOMAIN table = {"operators", "agg_key", "historical_nn_scripts"}
  /\ IsList(table.operators) /\ IsInjective(table.operators)
  /\ ConfigsInv(table.historical_nn_scripts, table.operators)
  /\ build_nn_script(table.agg_key) = Last(table.historical_nn_scripts).script

\* The last element of a list, and of one with an element appended.
LEMMA LastOfList ==
  ASSUME NEW s, IsList(s)
  PROVE  /\ s # <<>> => Len(s) \in DOMAIN s /\ Last(s) = s[Len(s)]
         /\ \A e : Last(Append(s, e)) = e
<1> DEFINE R == Range(s)
<1>1. s \in Seq(R)
  BY DEF IsList
<1> HIDE DEF R
<1>2. s # <<>> => Len(s) \in DOMAIN s
  BY <1>1, SMTT(60)
<1>3. ASSUME NEW e PROVE Last(Append(s, e)) = e
  BY <1>1, SMTT(60) DEF Last
<1> QED
  BY <1>2, <1>3 DEF Last

\* A bitmap is contained in itself, and containment composes.
LEMMA ShrunkTwice ==
  ASSUME NEW a \in Seq(BOOLEAN), NEW b \in Seq(BOOLEAN), NEW c \in Seq(BOOLEAN)
  PROVE  Shrunk(a, a) /\ (Shrunk(a, b) /\ Shrunk(b, c) => Shrunk(a, c))
<1>1. Len(a) \in Nat /\ Len(b) \in Nat /\ Len(c) \in Nat
  BY SMTT(60)
<1>2. Shrunk(a, a)
  <2>1. Len(a) <= Len(a)
    BY <1>1, SMTT(60)
  <2> QED
    BY <2>1 DEF Shrunk
<1>3. ASSUME Shrunk(a, b), Shrunk(b, c) PROVE Shrunk(a, c)
  <2>1. Len(a) <= Len(b) /\ Len(b) <= Len(c)
    BY <1>3 DEF Shrunk
  <2>2. Len(a) <= Len(c)
    BY <1>1, <2>1, SMTT(60)
  <2> QED
    BY <1>3, <2>2 DEF Shrunk
<1> QED
  BY <1>2, <1>3

\* What the invariant says of the table is what OperatorHistory says.
LEMMA TableInvHistory ==
  ASSUME NEW table, TableInv(table)
  PROVE  LET past == table.historical_nn_scripts
         IN  /\ past # <<>>
             /\ build_nn_script(table.agg_key) = Last(past).script
             /\ Len(Last(past).operators) = Len(table.operators)
             /\ IsInjective(table.operators)
             /\ \A i \in DOMAIN past :
                    /\ active_indices(past[i].operators) # {}
                    /\ past[i].script =
                           build_nn_script(calculate_aggregated_key(table.operators,
                                                                    past[i].operators))
                    /\ \A j \in i .. Len(past) : \A idx \in active_indices(past[j].operators) :
                           idx < Len(past[i].operators) => is_active(past[i].operators, idx)
<1> DEFINE past == table.historical_nn_scripts
<1>1. ConfigsInv(past, table.operators) /\ IsInjective(table.operators)
      /\ build_nn_script(table.agg_key) = Last(past).script
  BY DEF TableInv
<1> HIDE DEF past
<1>2. /\ IsList(past) /\ past # <<>> /\ Len(Last(past).operators) = Len(table.operators)
      /\ \A i \in DOMAIN past : ConfigOf(past[i], table.operators)
  BY <1>1 DEF ConfigsInv
<1>3. DOMAIN past = 1 .. Len(past) /\ Len(past) \in Nat
  BY <1>2, ListDomain
<1>4. ASSUME NEW i \in DOMAIN past, NEW j \in i .. Len(past),
             NEW idx \in active_indices(past[j].operators), idx < Len(past[i].operators)
      PROVE  is_active(past[i].operators, idx)
  <2>1. j \in DOMAIN past /\ i <= j
    BY <1>3, SMTT(60)
  <2>2. Shrunk(past[i].operators, past[j].operators)
    BY <1>1, <2>1 DEF ConfigsInv
  <2> DEFINE a == past[i].operators
             b == past[j].operators
  <2>3. a \in Seq(BOOLEAN) /\ b \in Seq(BOOLEAN)
    BY <1>2, <2>1 DEF ConfigOf
  <2>4. \A k \in DOMAIN a : k \in DOMAIN b /\ (b[k] => a[k])
    BY <2>2 DEF Shrunk
  <2>5. idx \in active_indices(b) /\ idx < Len(a)
    BY <1>4
  <2> HIDE DEF a, b
  <2>6. idx + 1 \in DOMAIN b /\ b[idx + 1] /\ idx + 1 \in DOMAIN a
    BY <2>3, <2>5, SMTT(60) DEF active_indices
  <2> QED
    BY <2>4, <2>6 DEF is_active, a
<1> QED
  BY <1>1, <1>2, <1>4 DEF ConfigOf, past

-----------------------------------------------------------------------------
(* Eligible operators.                                                     *)

\* A bitmap of cleared bits.
LEMMA Cleared ==
  ASSUME NEW n \in Nat
  PROVE  /\ new_with_size(n, FALSE) \in Seq(BOOLEAN) /\ Len(new_with_size(n, FALSE)) = n
         /\ \A i \in DOMAIN new_with_size(n, FALSE) : ~new_with_size(n, FALSE)[i]
<1> DEFINE bits == [i \in 1 .. n |-> FALSE]
<1>1. bits \in [1 .. n -> BOOLEAN]
  OBVIOUS
<1>2. bits \in Seq(BOOLEAN) /\ Len(bits) = n
  <2> HIDE DEF bits
  <2> QED
    BY <1>1, SMTT(60)
<1>3. \A i \in DOMAIN bits : ~bits[i]
  OBVIOUS
<1> QED
  BY <1>2, <1>3 DEF new_with_size

\* Marking a member of a bitmap as tried.
LEMMA Marked ==
  ASSUME NEW bits \in Seq(BOOLEAN), NEW a \in Nat, a + 1 \in 1 .. Len(bits)
  PROVE  /\ try_set(bits, a, TRUE) \in Seq(BOOLEAN)
         /\ Len(try_set(bits, a, TRUE)) = Len(bits)
         /\ \A i \in 1 .. Len(bits) : try_set(bits, a, TRUE)[i] <=> (i = a + 1 \/ bits[i])
<1> DEFINE n == Len(bits)
           new == [i \in 1 .. n |-> IF i = a + 1 THEN TRUE ELSE bits[i]]
<1>1. n \in Nat /\ \A i \in 1 .. n : bits[i] \in BOOLEAN
  BY SMTT(60)
<1>2. a # n
  BY <1>1, SMTT(60)
<1>3. try_set(bits, a, TRUE) = new
  BY <1>2 DEF try_set
<1> HIDE DEF n
<1>4. \A i \in 1 .. n : (IF i = a + 1 THEN TRUE ELSE bits[i]) \in BOOLEAN
  BY <1>1
<1>5. new \in [1 .. n -> BOOLEAN]
  BY <1>4
<1>6. \A i \in 1 .. n : new[i] <=> (i = a + 1 \/ bits[i])
  OBVIOUS
<1> HIDE DEF new
<1>7. new \in Seq(BOOLEAN) /\ Len(new) = n
  BY <1>1, <1>5, SMTT(60)
<1> QED
  BY <1>3, <1>6, <1>7 DEF n

-----------------------------------------------------------------------------
(* Deposits and assignments.                                               *)

\* A recorded configuration, by its number.
IsNotary(table, k) == k \in Nat /\ k + 1 \in DOMAIN table.historical_nn_scripts
NotarySet(table, k) == nn_script(table, k).operators

DepositOf(d, entry, table) ==
  entry.deposit_idx = d /\ IsNotary(table, entry.notary_set) /\ entry.amt = denomination

\* The assignee of a withdrawal belongs to the notary set of its deposit and was not tried
\* before; who was tried belongs to the set too.
AssigneeOf(entry, notary) ==
  /\ entry.previous_assignees \in Seq(BOOLEAN) /\ Len(entry.previous_assignees) = Len(notary)
  /\ entry.current_assignee \in Nat /\ is_active(notary, entry.current_assignee)
  /\ ~is_active(entry.previous_assignees, entry.current_assignee)
  /\ \A i \in DOMAIN entry.previous_assignees : entry.previous_assignees[i] => notary[i]

IsEntry(entry) ==
  entry = AssignmentEntry(entry.deposit_entry, entry.withdrawal_output, entry.operator_fee,
                          entry.current_assignee, entry.previous_assignees,
                          entry.fulfillment_deadline)
EntryOf(d, entry, table) ==
  /\ IsEntry(entry)
  /\ DepositOf(d, entry.deposit_entry, table)
  /\ AssigneeOf(entry, NotarySet(table, entry.deposit_entry.notary_set))
  /\ entry.fulfillment_deadline \in Int

Backed(deps, table) == \A d \in DOMAIN deps : DepositOf(d, deps[d], table)
Assigned(asgs, table) == \A d \in DOMAIN asgs : EntryOf(d, asgs[d], table)

\* A withdrawal intent that a checkpoint's logs decode to.
IsIntent(intent) ==
  /\ intent = WithdrawalIntent(intent.destination, intent.amt, intent.selected_operator)
  /\ intent.amt \in Nat /\ intent.selected_operator \in Nat

\* Every configuration is a bitmap, the one in force included.
LEMMA Configs ==
  ASSUME NEW table, TableInv(table)
  PROVE  /\ \A k : IsNotary(table, k) => NotarySet(table, k) \in Seq(BOOLEAN)
         /\ current_multisig(table) \in Seq(BOOLEAN)
         /\ IsNotary(table, current_nn_script_index(table))
<1> DEFINE past == table.historical_nn_scripts
<1>1. IsList(past) /\ past # <<>> /\ \A i \in DOMAIN past : past[i].operators \in Seq(BOOLEAN)
  BY DEF TableInv, ConfigsInv, ConfigOf
<1>2. Len(past) \in DOMAIN past /\ Last(past) = past[Len(past)]
  BY <1>1, LastOfList
<1>3. DOMAIN past = 1 .. Len(past) /\ Len(past) \in Nat
  BY <1>1, ListDomain
<1>4. ASSUME NEW k, IsNotary(table, k) PROVE NotarySet(table, k) \in Seq(BOOLEAN)
  BY <1>1, <1>4 DEF IsNotary, NotarySet, nn_script
<1>5. current_multisig(table) \in Seq(BOOLEAN)
  BY <1>1, <1>2 DEF current_multisig, current_nn_script
<1>6. Len(past) - 1 \in Nat /\ (Len(past) - 1) + 1 = Len(past)
  <2> HIDE DEF past
  <2> QED
    BY <1>2, <1>3, SMTT(60)
<1>7. IsNotary(table, current_nn_script_index(table))
  BY <1>2, <1>6 DEF IsNotary, current_nn_script_index
<1> QED
  BY <1>4, <1>5, <1>7

\* An entry with another assignee.
Moved(entry, b, q, u) ==
  [entry EXCEPT !.current_assignee = b, !.previous_assignees = q, !.fulfillment_deadline = u]

\* The operators that could take an assignment over, and those that already had it.
EligibleNow(entry, table) ==
  active_indices(NotarySet(table, entry.deposit_entry.notary_set))
    \cap active_indices(current_multisig(table))
Tried(entry) == active_indices(entry.previous_assignees) \cup {entry.current_assignee}

\* What a reassignment may do to an entry.
MovedOn(before, after, table) ==
  /\ after.current_assignee \in EligibleNow(before, table)
  /\ after.current_assignee \in Tried(before) => EligibleNow(before, table) \subseteq Tried(before)
  /\ after.withdrawal_output = before.withdrawal_output

-----------------------------------------------------------------------------
(* The invariant of the bridge.                                            *)

BridgeInv ==
  /\ TableInv(op_table)
  /\ Backed(deposits, op_table)
  /\ Assigned(assignments, op_table)
  /\ DOMAIN deposits \cap DOMAIN assignments = {}

\* The messages the other subprotocols send.
BridgeMsg(msg) ==
  /\ msg[1] = "DispatchWithdrawal" => IsIntent(msg[2]) /\ has_units(msg[2], denomination)
  /\ msg[1] = "UpdateOperatorSet" => IsList(msg[2].add_members)
BridgeBox(box) == IsList(box) /\ \A i \in DOMAIN box : BridgeMsg(box[i])

\* After the pass over the expired assignments no deadline has passed.
DeadlinesAhead(asgs, h, st) ==
  AfterPass(st) => \A d \in DOMAIN asgs : asgs[d].fulfillment_deadline > h

\* The bridge starts with a configuration and nothing else.
LEMMA BridgeInitInv ==
     BridgeInit
      => BridgeInv /\ \A h, st : DeadlinesAhead(assignments, h, st)
\* The table a bridge starts with.
<1>FirstTable. ASSUME NEW keys, IsList(keys), keys # <<>>
               PROVE  TableInv(from_operator_list(keys))
  <2> USE <1>FirstTable
  <2> DEFINE none == <<>>
             empty == EmptyOperatorTable
             new == Membership(empty, keys, none)
             after == from_operator_list(keys)
             added == add_operators(none, none, keys)
  <2>1. empty.operators = none /\ empty.historical_nn_scripts = none
    BY DEF EmptyOperatorTable
  <2>2. InitialActive(empty) = none
    BY <2>1 DEF InitialActive, new_empty_bitmap
  <2>3. /\ Members(added.operators, added.active) /\ 1 \in DOMAIN added.active
        /\ \A j \in DOMAIN added.active : added.active[j] = TRUE
    BY FirstOperators
  <2>4. new = [operators |-> added.operators, active |-> remove_operators(added, none)]
    BY <2>1, <2>2 DEF Membership
  <2>5. new.operators = added.operators /\ new.active = remove_operators(added, none)
    BY <2>4, SMTT(60)
  <2>6. Members(new.operators, new.active)
    BY <2>3, <2>5, RemoveShrinks
  <2>7. new.active = [i \in DOMAIN added.active |->
                        added.active[i] /\ ~(i - 1 \in Range(none) /\ i \in DOMAIN added.operators)]
    BY <2>5 DEF remove_operators
  <2>8. \A x : x \notin Range(none)
    BY SMTT(60) DEF Range
  <2>9. 1 \in DOMAIN new.active /\ new.active[1] = TRUE
    BY <2>3, <2>7, <2>8
  <2> HIDE DEF new
  <2>10. new.active # none
    <3>1. 1 \notin DOMAIN none
      BY SMTT(60)
    <3> QED
      BY <2>9, <3>1
  <2>11. active_indices(new.active) # {}
    BY <2>9 DEF active_indices
  <2> DEFINE agg == calculate_aggregated_key(new.operators, new.active)
             config == HistoricalNnScript(build_nn_script(agg), new.active)
             past == Append(none, config)
  <2>12. after = [operators |-> new.operators, agg_key |-> agg, historical_nn_scripts |-> past]
    BY <2>1, <2>2, <2>10 DEF from_operator_list, apply_membership_changes, record_nn_script, new
  <2>13. /\ DOMAIN after = {"operators", "agg_key", "historical_nn_scripts"}
         /\ after.operators = new.operators /\ after.agg_key = agg
         /\ after.historical_nn_scripts = past
    <3> HIDE DEF after, agg, past
    <3> QED
      BY <2>12
  <2>14. config.operators = new.active /\ config.script = build_nn_script(agg)
    BY DEF HistoricalNnScript
  <2>15. /\ IsList(new.operators) /\ IsInjective(new.operators)
         /\ new.active \in Seq(BOOLEAN) /\ Len(new.active) = Len(new.operators)
    BY <2>6 DEF Members
  <2>16. ConfigOf(config, new.operators)
    <3>1. Len(new.active) \in Nat
      BY <2>15, SMTT(60)
    <3>2. Len(new.active) <= Len(new.operators)
      BY <2>15, <3>1, SMTT(60)
    <3> QED
      BY <2>11, <2>14, <2>15, <3>2 DEF ConfigOf
  <2>17. past = <<config>>
    BY SMTT(60) DEF past
  <2> HIDE DEF config, agg, after
  <2>18. /\ IsList(past) /\ past # <<>> /\ Last(past) = config /\ DOMAIN past = {1} /\ past[1] = config
    <3>1. past \in Seq({config}) /\ past # <<>> /\ Len(past) = 1 /\ DOMAIN past = {1} /\ past[1] = config
      <4> HIDE DEF past
      <4> QED
        BY <2>17, SMTT(60)
    <3>2. Range(past) = {config}
      <4> HIDE DEF past
      <4> QED
        BY <3>1  DEF Range
    <3> QED
      BY <3>1, <3>2 DEF IsList, Last
  <2>19. ConfigsInv(past, new.operators)
    BY <2>14, <2>15, <2>16, <2>18, ShrunkTwice DEF ConfigsInv
  <2> QED
    BY <2>13, <2>14, <2>15, <2>18, <2>19 DEF TableInv, after
<1>main. ASSUME BridgeInit
         PROVE  BridgeInv /\ \A h, st : DeadlinesAhead(assignments, h, st)
  <2> USE <1>main
  <2>1. TableInv(op_table)
    BY BridgeAssumption, <1>FirstTable DEF BridgeInit
  <2>2. DOMAIN deposits = {} /\ DOMAIN assignments = {}
    BY DEF BridgeInit, NoEntries
  <2> QED
    BY <2>1, <2>2 DEF BridgeInv, Backed, Assigned, DeadlinesAhead
<1> QED
  BY <1>main

\* The first message of a list of them.
LEMMA FirstMsg ==
  ASSUME NEW box, BridgeBox(box), box # <<>>
  PROVE  BridgeMsg(Head(box))
<1> DEFINE R == Range(box)
<1>1. box \in Seq(R)
  BY DEF BridgeBox, IsList
<1> HIDE DEF R
<1>2. 1 \in DOMAIN box /\ Head(box) = box[1]
  BY <1>1, SMTT(60)
<1> QED
  BY <1>2 DEF BridgeBox

\* The table all holds the entries and whatever they left of asgs.
Merged(asgs, entries, all) ==
  /\ DOMAIN all = DOMAIN asgs \cup DOMAIN entries
  /\ \A d \in DOMAIN entries : all[d] = entries[d]
  /\ \A d \in DOMAIN asgs : d \notin DOMAIN entries => all[d] = asgs[d]

\* What a step may do to the assignments it keeps.
KeptOrMoved ==
  \A d \in DOMAIN assignments \cap DOMAIN assignments' :
     assignments'[d] # assignments[d] =>
        /\ stage = "bridge_expired"
        /\ assignments[d].fulfillment_deadline <= height
        /\ MovedOn(assignments[d], assignments'[d], op_table)

\* What every step of the bridge does.
BridgeKept ==
  /\ BridgeInv' /\ KeptOrMoved /\ height' = height
  /\ assignment_duration # 0 =>
       (DeadlinesAhead(assignments, height, stage) => DeadlinesAhead(assignments', height', stage'))

\* One step of the bridge.
LEMMA BridgeStepKept ==
     BridgeInv /\ height \in Int /\ BridgeBox(inbox["bridge"]) /\ BridgeNext
      => BridgeKept
\* Operators that are added leave the configurations before them as they are.
<1>ConfigKept. ASSUME NEW config, NEW old, IsList(old), NEW new, IsList(new), Grown(old, new), ConfigOf(config, old)
               PROVE  ConfigOf(config, new)
  <2> USE <1>ConfigKept
  <2>1. config.operators \in Seq(BOOLEAN) /\ Len(config.operators) <= Len(old)
    BY DEF ConfigOf
  <2>2. calculate_aggregated_key(new, config.operators) = calculate_aggregated_key(old, config.operators)
    BY <2>1, KeyKept
  <2>3. Len(old) \in Nat /\ Len(new) \in Nat /\ Len(old) <= Len(new)
    BY ListDomain DEF Grown
  <2>4. Len(config.operators) \in Nat
    BY <2>1, SMTT(60)
  <2>5. Len(config.operators) <= Len(new)
    BY <2>1, <2>3, <2>4, SMTT(60)
  <2> QED
    BY <2>2, <2>5 DEF ConfigOf
\* A configuration of all operators that follows from the last one continues the history.
<1>HistoryGrows. ASSUME NEW past, NEW old, IsList(old), NEW new, IsList(new), Grown(old, new),
                        ConfigsInv(past, old), NEW config, ConfigOf(config, new),
                        Len(config.operators) = Len(new), Shrunk(Last(past).operators, config.operators)
                 PROVE  ConfigsInv(Append(past, config), new)
  <2> USE <1>HistoryGrows
  <2> DEFINE more == Append(past, config)
             n == Len(past)
  <2>1. IsList(past) /\ past # <<>> /\ \A i \in DOMAIN past : ConfigOf(past[i], old)
    BY DEF ConfigsInv
  <2>2. DOMAIN past = 1 .. n /\ n \in Nat /\ n \in DOMAIN past /\ Last(past) = past[n]
    BY <2>1, ListDomain, LastOfList
  <2>3. IsList(more) /\ Len(more) = n + 1 /\ more[n + 1] = config /\ \A i \in 1 .. n : more[i] = past[i]
    BY <2>1, ListAppend, SMTT(60)
  <2>4. DOMAIN more = 1 .. (n + 1)
    BY <2>3, ListDomain
  <2>5. Last(more) = config
    BY <2>1, LastOfList
  <2> HIDE DEF more
  <2>6. \A i \in DOMAIN more : i \in 1 .. n \/ i = n + 1
    BY <2>2, <2>4, SMTT(60)
  <2>7. ASSUME NEW i \in DOMAIN more PROVE ConfigOf(more[i], new)
    <3>1. CASE i = n + 1
      BY <2>3, <3>1
    <3>2. CASE i \in 1 .. n
      <4>1. ConfigOf(past[i], old)
        BY <2>1, <2>2, <3>2
      <4>2. ConfigOf(past[i], new)
        BY <4>1, <1>ConfigKept
      <4> QED
        BY <2>3, <3>2, <4>2
    <3> QED
      BY <2>6, <3>1, <3>2
  <2>8. \A i \in DOMAIN more : more[i].operators \in Seq(BOOLEAN)
    BY <2>7 DEF ConfigOf
  <2>9. ASSUME NEW i \in DOMAIN more, NEW j \in DOMAIN more, i <= j
        PROVE  Shrunk(more[i].operators, more[j].operators)
    <3>1. CASE i \in 1 .. n /\ j \in 1 .. n
      BY <2>2, <2>3, <2>9, <3>1 DEF ConfigsInv
    <3>2. CASE i \in 1 .. n /\ j = n + 1
      <4>1. i <= n /\ n \in 1 .. n
        BY <2>2, <3>2, SMTT(60)
      <4>2. Shrunk(past[i].operators, past[n].operators)
        BY <2>2, <3>2, <4>1 DEF ConfigsInv
      <4>3. n \in DOMAIN more /\ more[n] = past[n] /\ more[i] = past[i]
        BY <2>2, <2>3, <2>4, <3>2, SMTT(60)
      <4>4. Shrunk(past[n].operators, config.operators)
        BY <2>2
      <4>5. /\ past[i].operators \in Seq(BOOLEAN) /\ past[n].operators \in Seq(BOOLEAN)
            /\ config.operators \in Seq(BOOLEAN)
        BY <2>8, <4>3 DEF ConfigOf
      <4>6. Shrunk(past[i].operators, config.operators)
        BY <4>2, <4>4, <4>5, ShrunkTwice
      <4> QED
        BY <2>3, <3>2, <4>3, <4>6
    <3>3. CASE i = n + 1
      <4>1. j = n + 1
        BY <2>2, <2>4, <2>9, <3>3, SMTT(60)
      <4> QED
        BY <2>8, <3>3, <4>1, ShrunkTwice
    <3> QED
      BY <2>6, <3>1, <3>2, <3>3
  <2>10. more # <<>>
    <3>1. n + 1 \in DOMAIN more
      BY <2>2, <2>4, SMTT(60)
    <3>2. n + 1 \notin DOMAIN <<>>
      BY <2>2, SMTT(60)
    <3> QED
      BY <3>1, <3>2
  <2> QED
    BY <2>3, <2>5, <2>7, <2>9, <2>10 DEF ConfigsInv, more
\* What a membership change records: the configuration of the new bits.
<1>ChangeRecords. ASSUME NEW table, NEW add, NEW drop, IsList(add), TableInv(table),
                         ~membership_panics(table, add, drop)
                  PROVE  /\ TableInv(apply_membership_changes(table, add, drop))
                         /\ Grown(table.historical_nn_scripts,
                                  apply_membership_changes(table, add, drop).historical_nn_scripts)
  <2> USE <1>ChangeRecords
  <2> DEFINE ops == table.operators
             past == table.historical_nn_scripts
             act == InitialActive(table)
             new == Membership(table, add, drop)
             after == apply_membership_changes(table, add, drop)
  <2>1. IsList(ops) /\ IsInjective(ops) /\ ConfigsInv(past, ops)
    BY DEF TableInv
  <2>2. /\ IsList(past) /\ past # <<>> /\ Len(Last(past).operators) = Len(ops)
        /\ \A i \in DOMAIN past : ConfigOf(past[i], ops)
    BY <2>1 DEF ConfigsInv
  <2>3. act = Last(past).operators
    BY <2>2 DEF InitialActive, current_multisig, current_nn_script
  <2>4. Len(past) \in DOMAIN past /\ Last(past) = past[Len(past)] /\ Len(past) \in Nat
    BY <2>2, LastOfList, ListDomain
  <2>5. act \in Seq(BOOLEAN)
    BY <2>2, <2>3, <2>4 DEF ConfigOf
  <2>6. Members(ops, act)
    BY <2>1, <2>2, <2>3, <2>5 DEF Members
  <2>7. /\ Members(new.operators, new.active) /\ Grown(ops, new.operators)
        /\ Shrunk(act, new.active) /\ (new.active = act => new.operators = ops)
    BY <2>6, MembershipFacts
  <2>8. /\ IsList(new.operators) /\ IsInjective(new.operators)
        /\ new.active \in Seq(BOOLEAN) /\ Len(new.active) = Len(new.operators)
    BY <2>7 DEF Members
  <2>9. CASE new.active = act
    <3>1. after = [table EXCEPT !.operators = new.operators]
      BY <2>9 DEF apply_membership_changes
    <3>2. /\ DOMAIN after = DOMAIN table /\ after.operators = ops
          /\ after.agg_key = table.agg_key /\ after.historical_nn_scripts = past
      <4>1. new.operators = ops
        BY <2>7, <2>9
      <4>2. DOMAIN table = {"operators", "agg_key", "historical_nn_scripts"}
        BY DEF TableInv
      <4> HIDE DEF after, new
      <4> QED
        BY <3>1, <4>1, <4>2
    <3>3. Len(past) <= Len(past)
      BY <2>4, SMTT(60)
    <3>4. Grown(past, past)
      BY <3>3 DEF Grown
    <3> QED
      BY <3>2, <3>4 DEF TableInv
  <2>10. CASE new.active # act
    <3> DEFINE agg == calculate_aggregated_key(new.operators, new.active)
               config == HistoricalNnScript(build_nn_script(agg), new.active)
    <3>1. after = [operators |-> new.operators, agg_key |-> agg,
                   historical_nn_scripts |-> Append(past, config)]
      BY <2>10 DEF apply_membership_changes, record_nn_script
    <3>2. /\ DOMAIN after = {"operators", "agg_key", "historical_nn_scripts"}
          /\ after.operators = new.operators /\ after.agg_key = agg
          /\ after.historical_nn_scripts = Append(past, config)
      <4> HIDE DEF after, new, agg, config
      <4> QED
        BY <3>1
    <3>3. active_indices(new.active) # {}
      BY <2>10 DEF membership_panics
    <3>4. config.operators = new.active /\ config.script = build_nn_script(agg)
      BY DEF HistoricalNnScript
    <3>5. Len(new.operators) <= Len(new.operators)
      <4>1. Len(new.operators) \in Nat
        BY <2>8, ListDomain
      <4> QED
        BY <4>1, SMTT(60)
    <3>6. ConfigOf(config, new.operators)
      BY <2>8, <3>3, <3>4, <3>5 DEF ConfigOf
    <3> HIDE DEF config, after, new, agg
    <3>7. ConfigsInv(Append(past, config), new.operators)
      BY <2>1, <2>3, <2>7, <2>8, <3>4, <3>6, <1>HistoryGrows
    <3>8. Last(Append(past, config)) = config
      BY <2>2, LastOfList
    <3>9. Grown(past, Append(past, config))
      BY <2>2, AppendGrown
    <3> QED
      BY <2>8, <3>2, <3>4, <3>7, <3>8, <3>9 DEF TableInv, after
  <2> QED
    BY <2>9, <2>10
\* An eligible operator is in the notary set, active, and not tried before.
<1>Eligible. ASSUME NEW notary \in Seq(BOOLEAN), NEW previous, NEW active, NEW a \in Int,
                    is_active(filter_eligible_operators(notary, previous, active), a)
             PROVE  /\ a \in Nat /\ a + 1 \in 1 .. Len(notary) /\ a + 1 \in DOMAIN notary
                    /\ active[a + 1] /\ notary[a + 1] /\ ~previous[a + 1]
  <2> USE <1>Eligible
  <2> DEFINE n == Len(notary)
             eligible == [i \in 1 .. n |-> active[i] /\ notary[i] /\ ~previous[i]]
  <2>1. n \in Nat /\ DOMAIN notary = 1 .. n
    BY SMTT(60)
  <2>2. a + 1 \in DOMAIN eligible /\ eligible[a + 1]
    BY DEF is_active, filter_eligible_operators
  <2> HIDE DEF n
  <2>3. a + 1 \in 1 .. n
    BY <2>2
  <2>4. a \in Nat
    BY <2>1, <2>3, SMTT(60)
  <2>5. active[a + 1] /\ notary[a + 1] /\ ~previous[a + 1]
    BY <2>2, <2>3
  <2> QED
    BY <2>1, <2>3, <2>4, <2>5 DEF n
\* The indices of a bitmap are the numbers of its set bits.
<1>ActiveIndices. ASSUME NEW bits, NEW n \in Nat, DOMAIN bits = 1 .. n
                  PROVE  \A a : a \in active_indices(bits) <=> a \in Int /\ is_active(bits, a)
  <2> USE <1>ActiveIndices
  <2>1. ASSUME NEW a, a \in active_indices(bits) PROVE a \in Int /\ is_active(bits, a)
    <3>1. PICK i \in DOMAIN bits : bits[i] /\ a = i - 1
      BY <2>1 DEF active_indices
    <3>2. a \in Int /\ a + 1 = i
      BY <3>1, SMTT(60)
    <3> QED
      BY <3>1, <3>2 DEF is_active
  <2>2. ASSUME NEW a \in Int, is_active(bits, a) PROVE a \in active_indices(bits)
    <3>1. a + 1 \in DOMAIN bits /\ bits[a + 1] /\ a = (a + 1) - 1
      BY <2>2, SMTT(60) DEF is_active
    <3> QED
      BY <3>1 DEF active_indices
  <2> QED
    BY <2>1, <2>2
\* The operators select_random_operator may pick.
<1>Picked. ASSUME NEW notary \in Seq(BOOLEAN), NEW previous, NEW active,
                  NEW a \in select_random_operator(filter_eligible_operators(notary, previous, active))
           PROVE  a \in Int /\ is_active(filter_eligible_operators(notary, previous, active), a)
  <2> DEFINE eligible == filter_eligible_operators(notary, previous, active)
  <2>1. Len(notary) \in Nat /\ DOMAIN eligible = 1 .. Len(notary)
    BY SMTT(60) DEF filter_eligible_operators
  <2>2. a \in active_indices(eligible)
    BY DEF select_random_operator
  <2> HIDE DEF eligible
  <2>3. a \in Int /\ is_active(eligible, a)
    BY <2>1, <2>2, <1>ActiveIndices
  <2> QED
    BY <2>3 DEF eligible
\* Configurations that are recorded later leave deposits and assignments as they are.
<1>NotaryKept. ASSUME NEW old, NEW new, Grown(old.historical_nn_scripts, new.historical_nn_scripts)
               PROVE  /\ \A deps : Backed(deps, old) => Backed(deps, new)
                      /\ \A asgs : Assigned(asgs, old) => Assigned(asgs, new)
  <2> USE <1>NotaryKept
  <2>1. ASSUME NEW k, IsNotary(old, k)
        PROVE  IsNotary(new, k) /\ NotarySet(new, k) = NotarySet(old, k)
    BY <2>1 DEF IsNotary, NotarySet, nn_script, Grown
  <2>2. \A d, entry : DepositOf(d, entry, old) => DepositOf(d, entry, new)
    BY <2>1 DEF DepositOf
  <2>3. ASSUME NEW d, NEW entry, EntryOf(d, entry, old) PROVE EntryOf(d, entry, new)
    <3>1. IsNotary(old, entry.deposit_entry.notary_set)
      BY <2>3 DEF EntryOf, DepositOf
    <3>2. NotarySet(new, entry.deposit_entry.notary_set) = NotarySet(old, entry.deposit_entry.notary_set)
      BY <2>1, <3>1
    <3> QED
      BY <2>2, <2>3, <3>2 DEF EntryOf
  <2> QED
    BY <2>2, <2>3 DEF Backed, Assigned
\* The fields of an entry.
<1>EntryFields. ASSUME NEW entry, NEW deposit, NEW output, NEW fee, NEW a, NEW p, NEW t,
                       entry = AssignmentEntry(deposit, output, fee, a, p, t)
                PROVE  /\ entry.deposit_entry = deposit /\ entry.withdrawal_output = output
                       /\ entry.operator_fee = fee /\ entry.current_assignee = a
                       /\ entry.previous_assignees = p /\ entry.fulfillment_deadline = t
  BY <1>EntryFields  DEF AssignmentEntry
\* It is an entry again.
<1>EntryMoved. ASSUME NEW entry, IsEntry(entry), NEW b, NEW q, NEW u
               PROVE  Moved(entry, b, q, u)
                        = AssignmentEntry(entry.deposit_entry, entry.withdrawal_output, entry.operator_fee, b, q, u)
  <2> USE <1>EntryMoved
  <2> DEFINE made(a, p, t) == AssignmentEntry(entry.deposit_entry, entry.withdrawal_output,
                                              entry.operator_fee, a, p, t)
  <2>1. [entry EXCEPT !.current_assignee = b]
          = made(b, entry.previous_assignees, entry.fulfillment_deadline)
    BY SMTT(60) DEF IsEntry, AssignmentEntry
  <2>2. [made(b, entry.previous_assignees, entry.fulfillment_deadline) EXCEPT !.previous_assignees = q]
          = made(b, q, entry.fulfillment_deadline)
    BY SMTT(60) DEF AssignmentEntry
  <2>3. [made(b, q, entry.fulfillment_deadline) EXCEPT !.fulfillment_deadline = u] = made(b, q, u)
    BY SMTT(60) DEF AssignmentEntry
  <2> QED
    BY <2>1, <2>2, <2>3 DEF Moved
\* create: the assignee of a new entry is eligible, and nobody was tried.
<1>Created. ASSUME NEW table, TableInv(table), NEW d, NEW deposit, DepositOf(d, deposit, table),
                   NEW intent, intent.selected_operator \in Nat, NEW fee, NEW deadline \in Int,
                   NEW entry \in create(deposit, intent, fee, deadline,
                                        NotarySet(table, deposit.notary_set), current_multisig(table))
            PROVE  EntryOf(d, entry, table) /\ entry.fulfillment_deadline = deadline
                   /\ entry.withdrawal_output = to_output(intent)
  <2> USE <1>Created
  <2> DEFINE notary == NotarySet(table, deposit.notary_set)
             active == current_multisig(table)
             previous == new_with_size(Len(notary), FALSE)
             eligible == filter_eligible_operators(notary, previous, active)
             preferred == {i \in as_specific(intent.selected_operator) : is_active(eligible, i)}
             assignees == IF preferred # {} THEN preferred ELSE select_random_operator(eligible)
  <2>1. notary \in Seq(BOOLEAN) /\ active \in Seq(BOOLEAN)
    BY Configs DEF DepositOf
  <2>2. PICK a \in assignees : entry = AssignmentEntry(deposit, to_output(intent), fee, a, previous, deadline)
    BY DEF create
  <2>3. a \in Int /\ is_active(eligible, a)
    <3>1. CASE preferred # {}
      <4>1. a \in as_specific(intent.selected_operator) /\ is_active(eligible, a)
        BY <2>2, <3>1
      <4>2. a = intent.selected_operator
        BY <4>1 DEF as_specific
      <4>3. a \in Int
        <5> HIDE DEF eligible
        <5> QED
          BY <4>2, SMTT(60)
      <4> QED
        BY <4>1, <4>3
    <3>2. CASE preferred = {}
      <4>1. a \in select_random_operator(eligible)
        BY <2>2, <3>2
      <4> QED
        BY <2>1, <4>1, <1>Picked
    <3> QED
      BY <3>1, <3>2
  <2>4. a \in Nat /\ a + 1 \in DOMAIN notary /\ notary[a + 1]
    BY <2>1, <2>3, <1>Eligible
  <2>5. Len(notary) \in Nat
    <3> HIDE DEF notary
    <3> QED
      BY <2>1, SMTT(60)
  <2>6. previous \in Seq(BOOLEAN) /\ Len(previous) = Len(notary) /\ \A i \in DOMAIN previous : ~previous[i]
    BY <2>5, Cleared
  <2> HIDE DEF notary, active, previous, eligible, assignees
  <2>7. /\ entry.deposit_entry = deposit /\ entry.withdrawal_output = to_output(intent)
        /\ entry.operator_fee = fee /\ entry.current_assignee = a
        /\ entry.previous_assignees = previous /\ entry.fulfillment_deadline = deadline
    BY <2>2, <1>EntryFields, SMTT(60)
  <2>8. AssigneeOf(entry, notary)
    BY <2>4, <2>6, <2>7 DEF AssigneeOf, is_active
  <2> QED
    BY <2>2, <2>7, <2>8 DEF EntryOf, IsEntry, notary
\* reassign: the next assignee is an eligible one that was not tried; only when there is
\* none do those that were tried get another turn.
<1>ReassignedEntry. ASSUME NEW table, TableInv(table), NEW d, NEW before, EntryOf(d, before, table),
                           NEW deadline \in Int,
                           NEW after \in reassign(before, deadline,
                                                  NotarySet(table, before.deposit_entry.notary_set),
                                                  current_multisig(table))
                    PROVE  /\ EntryOf(d, after, table) /\ after.fulfillment_deadline = deadline
                           /\ MovedOn(before, after, table)
  <2> USE <1>ReassignedEntry
  <2> DEFINE notary == NotarySet(table, before.deposit_entry.notary_set)
             active == current_multisig(table)
             old == before.previous_assignees
             c == before.current_assignee
             tried == try_set(old, c, TRUE)
             untried == filter_eligible_operators(notary, tried, active)
             cleared == new_with_size(Len(notary), FALSE)
             previous == IF active_indices(untried) # {} THEN tried ELSE cleared
             eligible == filter_eligible_operators(notary, previous, active)
  <2>1. DepositOf(d, before.deposit_entry, table) /\ AssigneeOf(before, notary) /\ IsEntry(before)
    BY DEF EntryOf
  <2>2. notary \in Seq(BOOLEAN) /\ active \in Seq(BOOLEAN)
    BY <2>1, Configs DEF DepositOf
  <2>3. PICK a \in select_random_operator(eligible) :
          after = Moved(before, a, previous, deadline)
    BY DEF reassign, Moved
  <2>4. can_filter(notary, tried, active)
    BY DEF reassign
  <2> HIDE DEF notary, active
  <2>5. Len(notary) \in Nat /\ DOMAIN notary = 1 .. Len(notary) /\ DOMAIN active = 1 .. Len(active)
        /\ Len(active) \in Nat
    BY <2>2, SMTT(60)
  <2>6. /\ old \in Seq(BOOLEAN) /\ Len(old) = Len(notary) /\ c \in Nat
        /\ c + 1 \in DOMAIN notary /\ notary[c + 1]
        /\ \A i \in DOMAIN old : old[i] => notary[i]
    BY <2>1 DEF AssigneeOf, is_active
  <2> HIDE DEF c, old
  <2>7. DOMAIN old = 1 .. Len(notary)
    BY <2>5, <2>6, SMTT(60)
  <2>8. /\ tried \in Seq(BOOLEAN) /\ Len(tried) = Len(notary)
        /\ \A i \in 1 .. Len(notary) : tried[i] <=> (i = c + 1 \/ old[i])
    BY <2>5, <2>6, Marked
  <2>9. /\ cleared \in Seq(BOOLEAN) /\ Len(cleared) = Len(notary)
        /\ \A i \in DOMAIN cleared : ~cleared[i]
    BY <2>5, Cleared
  <2> HIDE DEF tried, cleared
  <2>10. DOMAIN tried = 1 .. Len(notary) /\ DOMAIN cleared = 1 .. Len(notary)
    BY <2>5, <2>8, <2>9, SMTT(60)
  <2>11. /\ previous \in Seq(BOOLEAN) /\ Len(previous) = Len(notary)
         /\ \A i \in DOMAIN previous : previous[i] => notary[i]
    <3>1. \A i \in DOMAIN tried : tried[i] => notary[i]
      BY <2>6, <2>7, <2>8, <2>10
    <3> QED
      BY <2>8, <2>9, <3>1
  <2>12. a \in Int /\ is_active(eligible, a)
    BY <2>2, <2>3, <1>Picked
  <2>13. /\ a \in Nat /\ a + 1 \in 1 .. Len(notary) /\ a + 1 \in DOMAIN notary
         /\ active[a + 1] /\ notary[a + 1] /\ ~previous[a + 1]
    BY <2>2, <2>12, <1>Eligible
  <2>14. after = AssignmentEntry(before.deposit_entry, before.withdrawal_output, before.operator_fee,
                                 a, previous, deadline)
    <3> HIDE DEF previous
    <3> QED
      BY <2>1, <2>3, <1>EntryMoved
  <2> HIDE DEF eligible
  <2>15. /\ after.deposit_entry = before.deposit_entry
         /\ after.withdrawal_output = before.withdrawal_output
         /\ after.operator_fee = before.operator_fee /\ after.current_assignee = a
         /\ after.previous_assignees = previous /\ after.fulfillment_deadline = deadline
    <3> HIDE DEF previous
    <3> QED
      BY <2>14, <1>EntryFields, SMTT(60)
  <2>16. AssigneeOf(after, notary)
    <3> HIDE DEF previous
    <3> QED
      BY <2>11, <2>13, <2>15 DEF AssigneeOf, is_active
  <2>17. EntryOf(d, after, table)
    <3> HIDE DEF previous
    <3> QED
      BY <2>1, <2>14, <2>15, <2>16 DEF EntryOf, IsEntry, notary
  <2>18. \A x : x \in active_indices(notary) <=> x \in Int /\ is_active(notary, x)
    BY <2>5, <1>ActiveIndices
  <2>19. \A x : x \in active_indices(active) <=> x \in Int /\ is_active(active, x)
    BY <2>5, <1>ActiveIndices
  <2>20. \A x : x \in active_indices(old) <=> x \in Int /\ is_active(old, x)
    BY <2>5, <2>7, <1>ActiveIndices
  <2>21. a + 1 \in DOMAIN active
    <3>1. Len(active) >= Len(notary)
      BY <2>4 DEF can_filter
    <3> QED
      BY <2>5, <2>13, <3>1, SMTT(60)
  <2>22. a \in active_indices(notary) \cap active_indices(active)
    BY <2>12, <2>13, <2>18, <2>19, <2>21 DEF is_active
  <2>23. ASSUME a \in active_indices(old) \cup {c},
                NEW x \in active_indices(notary) \cap active_indices(active)
         PROVE  x \in active_indices(old) \cup {c}
    <3>1. tried[a + 1]
      <4>1. CASE a = c
        BY <2>8, <2>13, <4>1
      <4>2. CASE a \in active_indices(old)
        BY <2>8, <2>13, <2>20, <4>2 DEF is_active
      <4> QED
        BY <2>23, <4>1, <4>2
    <3>2. active_indices(untried) = {}
      BY <2>13, <3>1
    <3>3. /\ x \in Int /\ x + 1 \in DOMAIN notary /\ notary[x + 1] /\ active[x + 1]
      BY <2>18, <2>19, <2>23 DEF is_active
    <3>4. DOMAIN untried = 1 .. Len(notary)
      BY DEF filter_eligible_operators
    <3>5. ~is_active(untried, x)
      <4>1. x \notin active_indices(untried)
        BY <3>2
      <4> HIDE DEF untried
      <4> QED
        BY <2>5, <3>3, <3>4, <4>1, <1>ActiveIndices
    <3>6. x + 1 \in 1 .. Len(notary)
      BY <2>5, <3>3
    <3>7. untried[x + 1] = (active[x + 1] /\ notary[x + 1] /\ ~tried[x + 1])
      BY <3>6 DEF filter_eligible_operators
    <3>8. tried[x + 1]
      <4> HIDE DEF untried
      <4> QED
        BY <3>3, <3>4, <3>5, <3>6, <3>7 DEF is_active
    <3>9. x + 1 = c + 1 \/ old[x + 1]
      BY <2>8, <3>6, <3>8
    <3>10. CASE x + 1 = c + 1
      BY <2>6, <3>3, <3>10, SMTT(60)
    <3>11. CASE old[x + 1]
      BY <2>7, <2>20, <3>3, <3>6, <3>11 DEF is_active
    <3> QED
      BY <3>9, <3>10, <3>11
  <2>24. MovedOn(before, after, table)
    BY <2>15, <2>22, <2>23 DEF MovedOn, EligibleNow, Tried, notary, active, old, c
  <2> QED
    BY <2>15, <2>17, <2>24
\* Entries that replace or join those of a table.
<1>InsertEntries. ASSUME NEW asgs, NEW entries, NEW table, Assigned(asgs, table), Assigned(entries, table)
                  PROVE  /\ Assigned(insert_assignments(asgs, entries), table)
                         /\ Merged(asgs, entries, insert_assignments(asgs, entries))
  <2> USE <1>InsertEntries
  <2> DEFINE all == insert_assignments(asgs, entries)
  <2>1. all = [d \in DOMAIN asgs \cup DOMAIN entries |-> IF d \in DOMAIN entries THEN entries[d] ELSE asgs[d]]
    BY DEF insert_assignments
  <2> HIDE DEF all
  <2>2. DOMAIN all = DOMAIN asgs \cup DOMAIN entries
    BY <2>1
  <2>3. \A d \in DOMAIN entries : all[d] = entries[d]
    BY <2>1
  <2>4. \A d \in DOMAIN asgs : d \notin DOMAIN entries => all[d] = asgs[d]
    BY <2>1
  <2>5. ASSUME NEW d \in DOMAIN all PROVE EntryOf(d, all[d], table)
    <3>1. CASE d \in DOMAIN entries
      BY <2>3, <3>1 DEF Assigned
    <3>2. CASE d \notin DOMAIN entries
      BY <2>2, <2>4, <3>2 DEF Assigned
    <3> QED
      BY <3>1, <3>2
  <2> QED
    BY <2>2, <2>3, <2>4, <2>5 DEF Assigned, Merged, all
\* handle_deposit: the new entry names the configuration in force.
<1>AddDepositStep. ASSUME BridgeInv, AddDeposit
                   PROVE  BridgeInv'
  <2> USE <1>AddDepositStep
  <2> DEFINE info == DepositInfo(BridgeTx)
             idx == info.deposit_idx
             entry == DepositEntry(idx, current_nn_script_index(op_table), info.amt)
  <2>1. /\ deposits' = insert_deposit(deposits, entry) /\ op_table' = op_table
        /\ assignments' = assignments /\ can_add_deposit(idx) /\ info.amt = denomination
    BY DEF AddDeposit, DepositAccepted, validate_deposit_info
  <2>2. TableInv(op_table) /\ Backed(deposits, op_table) /\ Assigned(assignments, op_table)
        /\ DOMAIN deposits \cap DOMAIN assignments = {}
    BY DEF BridgeInv
  <2>3. /\ entry.deposit_idx = idx /\ entry.notary_set = current_nn_script_index(op_table)
        /\ entry.amt = info.amt
    BY DEF DepositEntry
  <2>4. IsNotary(op_table, current_nn_script_index(op_table))
    BY <2>2, Configs
  <2> HIDE DEF entry
  <2>5. DepositOf(idx, entry, op_table)
    BY <2>1, <2>3, <2>4 DEF DepositOf
  <2>6. idx \notin DOMAIN assignments
    BY <2>1 DEF can_add_deposit, has_assignment
  <2> HIDE DEF idx
  <2>7. deposits' = [d \in DOMAIN deposits \cup {idx} |-> IF d = idx THEN entry ELSE deposits[d]]
    BY <2>1, <2>3 DEF insert_deposit
  <2>8. Backed(deposits', op_table)
    BY <2>2, <2>5, <2>7 DEF Backed
  <2>9. DOMAIN deposits' \cap DOMAIN assignments = {}
    BY <2>2, <2>6, <2>7
  <2> QED
    BY <2>1, <2>2, <2>8, <2>9 DEF BridgeInv
\* handle_withdrawal_fulfillment: an entry leaves, or the block fails.
<1>FulfillStep. ASSUME BridgeInv, FulfillWithdrawal
                PROVE  BridgeInv'
  <2> USE <1>FulfillStep
  <2>1. /\ op_table' = op_table /\ deposits' = deposits
        /\ \/ assignments' = assignments
           \/ \E idx : assignments' = remove_assignment(assignments, idx)
    BY DEF FulfillWithdrawal
  <2>2. /\ DOMAIN assignments' \subseteq DOMAIN assignments
        /\ \A d \in DOMAIN assignments' : assignments'[d] = assignments[d]
    BY <2>1 DEF remove_assignment
  <2> QED
    BY <2>1, <2>2 DEF BridgeInv, Assigned
\* A change of the membership keeps what deposits and assignments refer to.
<1>MembershipStep. ASSUME BridgeInv, NEW add, NEW drop, IsList(add),
                          \/ op_table' = op_table
                          \/ /\ ~membership_panics(op_table, add, drop)
                             /\ op_table' = apply_membership_changes(op_table, add, drop),
                          deposits' = deposits, assignments' = assignments
                   PROVE  BridgeInv'
  <2> USE <1>MembershipStep
  <2>1. CASE op_table' = op_table
    BY <2>1 DEF BridgeInv
  <2>2. CASE ~membership_panics(op_table, add, drop) /\ op_table' = apply_membership_changes(op_table, add, drop)
    <3>1. /\ TableInv(op_table')
          /\ Grown(op_table.historical_nn_scripts, op_table'.historical_nn_scripts)
      BY <2>2, <1>ChangeRecords DEF BridgeInv
    <3>2. Backed(deposits, op_table') /\ Assigned(assignments, op_table')
      BY <3>1, <1>NotaryKept DEF BridgeInv
    <3> QED
      BY <3>1, <3>2 DEF BridgeInv
  <2> QED
    BY <2>1, <2>2
\* reassign_expired_assignments: what had expired has a new deadline, the rest is as it was.
<1>ReassignStep. ASSUME BridgeInv, height \in Int, reassign_expired_assignments
                 PROVE  BridgeKept
  <2> USE <1>ReassignStep
  <2> DEFINE expired == ExpiredAssignments(assignments, height)
             deadline == calculate_deadline(assignment_duration, height)
  <2>1. /\ Running("bridge_expired") /\ op_table' = op_table /\ deposits' = deposits
        /\ \/ assignments' = assignments /\ stage' = stage /\ pow_state' = pow_state
           \/ /\ stage' = "checkpoint_msgs" /\ pow_state' = pow_state
              /\ \E moved \in [expired -> UNION {Reassigned(d) : d \in expired}] :
                    /\ \A d \in expired : moved[d] \in Reassigned(d)
                    /\ assignments' = insert_assignments(assignments, moved)
    BY DEF reassign_expired_assignments, Panic, chainVars
  <2>2. height' = height
    BY <2>1 DEF height
  <2>3. CASE assignments' = assignments /\ stage' = stage
    BY <2>1, <2>2, <2>3 DEF BridgeInv, KeptOrMoved, BridgeKept
  <2>4. ASSUME stage' = "checkpoint_msgs",
               NEW moved \in [expired -> UNION {Reassigned(d) : d \in expired}],
               \A d \in expired : moved[d] \in Reassigned(d),
               assignments' = insert_assignments(assignments, moved)
        PROVE  /\ BridgeInv' /\ KeptOrMoved
               /\ assignment_duration # 0 => DeadlinesAhead(assignments', height', stage')
    <3>1. TableInv(op_table) /\ Assigned(assignments, op_table)
      BY DEF BridgeInv
    <3>2. deadline \in Int /\ (assignment_duration # 0 => deadline > height)
      BY BridgeAssumption, SMTT(60) DEF calculate_deadline
    <3>3. DOMAIN moved = expired
      BY <2>4
    <3>4. \A d \in expired : d \in DOMAIN assignments /\ assignments[d].fulfillment_deadline <= height
      BY DEF ExpiredAssignments
    <3> HIDE DEF expired, deadline
    <3>5. ASSUME NEW d \in expired
          PROVE  /\ EntryOf(d, moved[d], op_table) /\ moved[d].fulfillment_deadline = deadline
                 /\ MovedOn(assignments[d], moved[d], op_table)
      <4>1. EntryOf(d, assignments[d], op_table)
        BY <3>1, <3>4 DEF Assigned
      <4>2. moved[d] \in reassign(assignments[d], deadline,
                                  NotarySet(op_table, assignments[d].deposit_entry.notary_set),
                                  current_multisig(op_table))
        BY <2>4 DEF Reassigned, NotarySet, deadline
      <4> QED
        BY <3>1, <3>2, <4>1, <4>2, <1>ReassignedEntry
    <3>6. Assigned(moved, op_table)
      BY <3>3, <3>5 DEF Assigned
    <3>7. /\ Assigned(assignments', op_table)
          /\ DOMAIN assignments' = DOMAIN assignments \cup expired
          /\ \A d \in expired : assignments'[d] = moved[d]
          /\ \A d \in DOMAIN assignments : d \notin expired => assignments'[d] = assignments[d]
      <4>1. Assigned(assignments', op_table) /\ Merged(assignments, moved, assignments')
        BY <2>4, <3>1, <3>6, <1>InsertEntries
      <4> QED
        BY <3>3, <4>1 DEF Merged
    <3>8. DOMAIN assignments' = DOMAIN assignments
      BY <3>4, <3>7
    <3>9. BridgeInv'
      BY <2>1, <3>7, <3>8 DEF BridgeInv
    <3>10. KeptOrMoved
      <4> SUFFICES ASSUME NEW d \in DOMAIN assignments, assignments'[d] # assignments[d]
                   PROVE  /\ stage = "bridge_expired"
                          /\ assignments[d].fulfillment_deadline <= height
                          /\ MovedOn(assignments[d], assignments'[d], op_table)
        BY DEF KeptOrMoved
      <4>1. d \in expired
        BY <3>7
      <4> QED
        BY <2>1, <3>4, <3>5, <3>7, <4>1 DEF Running
    <3>11. ASSUME assignment_duration # 0, NEW d \in DOMAIN assignments'
           PROVE  assignments'[d].fulfillment_deadline > height
      <4>1. CASE d \in expired
        BY <3>2, <3>5, <3>7, <3>11, <4>1
      <4>2. CASE d \notin expired
        <5>1. assignments'[d] = assignments[d] /\ EntryOf(d, assignments[d], op_table)
          BY <3>1, <3>7, <3>8, <4>2 DEF Assigned
        <5>2. ~(assignments[d].fulfillment_deadline <= height)
          BY <3>8, <4>2 DEF ExpiredAssignments, expired
        <5>3. assignments[d].fulfillment_deadline \in Int
          BY <5>1 DEF EntryOf
        <5> QED
          BY <5>1, <5>2, <5>3, SMTT(60)
      <4> QED
        BY <4>1, <4>2
    <3> QED
      BY <2>2, <3>9, <3>10, <3>11 DEF DeadlinesAhead
  <2> QED
    BY <2>1, <2>2, <2>3, <2>4 DEF BridgeKept
\* create_withdrawal_assignment: the deposits that back the withdrawal become assignments.
<1>DispatchStep. ASSUME BridgeInv, height \in Int, BridgeBox(inbox["bridge"]), create_withdrawal_assignment
                 PROVE  BridgeKept
  <2> USE <1>DispatchStep
  <2> DEFINE intent == NextMsg("bridge")[2]
             units == denomination_units(intent, denomination)
             backing == oldest_deposits(deposits, units)
             unit == [intent EXCEPT !.amt = denomination]
             deadline == calculate_deadline(assignment_duration, height)
  <2>1. /\ BridgeMsgReady("DispatchWithdrawal") /\ op_table' = op_table
        /\ \/ assignments' = assignments /\ deposits' = deposits /\ stage' = stage /\ pow_state' = pow_state
           \/ /\ stage' = stage /\ pow_state' = pow_state /\ ~DispatchFails(intent, units, backing)
              /\ deposits' = remove_deposits(deposits, backing)
              /\ \E entries \in [backing -> UNION {build_assignment(d, intent) : d \in backing}] :
                    /\ \A d \in backing : entries[d] \in build_assignment(d, intent)
                    /\ assignments' = insert_assignments(assignments, entries)
    BY DEF create_withdrawal_assignment, Panic, BridgeMsgHandled, chainVars
  <2>2. height' = height
    BY <2>1 DEF height
  <2>3. CASE assignments' = assignments /\ deposits' = deposits /\ stage' = stage
    BY <2>1, <2>2, <2>3 DEF BridgeInv, KeptOrMoved, BridgeKept
  <2>4. ASSUME stage' = stage, ~DispatchFails(intent, units, backing),
               deposits' = remove_deposits(deposits, backing),
               NEW entries \in [backing -> UNION {build_assignment(d, intent) : d \in backing}],
               \A d \in backing : entries[d] \in build_assignment(d, intent),
               assignments' = insert_assignments(assignments, entries)
        PROVE  /\ BridgeInv' /\ KeptOrMoved
               /\ assignment_duration # 0 =>
                    (DeadlinesAhead(assignments, height, stage) =>
                       DeadlinesAhead(assignments', height', stage'))
    <3>1. /\ TableInv(op_table) /\ Backed(deposits, op_table) /\ Assigned(assignments, op_table)
          /\ DOMAIN deposits \cap DOMAIN assignments = {}
      BY DEF BridgeInv
    <3>2. deadline \in Int /\ (assignment_duration # 0 => deadline > height)
      BY BridgeAssumption, SMTT(60) DEF calculate_deadline
    <3>3. DOMAIN entries = backing
      BY <2>4
    <3>4. backing \subseteq DOMAIN deposits
      BY DEF oldest_deposits
    <3>5. IsIntent(intent)
      <4>1. inbox["bridge"] # <<>> /\ NextMsg("bridge")[1] = "DispatchWithdrawal"
        BY <2>1 DEF BridgeMsgReady
      <4> QED
        BY <4>1, FirstMsg DEF BridgeMsg, NextMsg
    <3> HIDE DEF backing, units, deadline, intent
    <3>6. unit.selected_operator \in Nat
      <4>1. /\ intent = WithdrawalIntent(intent.destination, intent.amt, intent.selected_operator)
            /\ intent.selected_operator \in Nat
        BY <3>5 DEF IsIntent
      <4> QED
        BY <4>1  DEF WithdrawalIntent
    <3>7. ASSUME NEW d \in backing
          PROVE  EntryOf(d, entries[d], op_table) /\ entries[d].fulfillment_deadline = deadline
      <4>1. DepositOf(d, deposits[d], op_table)
        BY <3>1, <3>4 DEF Backed
      <4>2. entries[d] \in create(deposits[d], unit, operator_fee, deadline,
                                  NotarySet(op_table, deposits[d].notary_set), current_multisig(op_table))
        BY <2>4 DEF build_assignment, NotarySet, deadline
      <4> HIDE DEF unit
      <4> QED
        BY <3>1, <3>2, <3>6, <4>1, <4>2, <1>Created, SMTT(60)
    <3>8. Assigned(entries, op_table)
      BY <3>3, <3>7 DEF Assigned
    <3>9. /\ Assigned(assignments', op_table)
          /\ DOMAIN assignments' = DOMAIN assignments \cup backing
          /\ \A d \in backing : assignments'[d] = entries[d]
          /\ \A d \in DOMAIN assignments : d \notin backing => assignments'[d] = assignments[d]
      <4>1. Assigned(assignments', op_table) /\ Merged(assignments, entries, assignments')
        BY <2>4, <3>1, <3>8, <1>InsertEntries
      <4> QED
        BY <3>3, <4>1 DEF Merged
    <3>10. /\ DOMAIN deposits' = DOMAIN deposits \ backing
           /\ \A d \in DOMAIN deposits' : deposits'[d] = deposits[d]
      BY <2>4 DEF remove_deposits
    <3>11. BridgeInv'
      BY <2>1, <3>1, <3>9, <3>10 DEF BridgeInv, Backed
    <3>12. \A d \in DOMAIN assignments : assignments'[d] = assignments[d]
      BY <3>1, <3>4, <3>9
    <3>13. ASSUME assignment_duration # 0, DeadlinesAhead(assignments, height, stage), AfterPass(stage),
                  NEW d \in DOMAIN assignments'
           PROVE  assignments'[d].fulfillment_deadline > height
      <4>1. CASE d \in backing
        BY <3>2, <3>7, <3>9, <3>13, <4>1
      <4>2. CASE d \notin backing
        BY <3>9, <3>13, <4>2 DEF DeadlinesAhead
      <4> QED
        BY <4>1, <4>2
    <3> QED
      BY <2>2, <2>4, <3>11, <3>12, <3>13 DEF DeadlinesAhead, KeptOrMoved
  <2> QED
    BY <2>1, <2>2, <2>3, <2>4 DEF BridgeKept
<1>main. ASSUME BridgeInv, height \in Int, BridgeBox(inbox["bridge"]), BridgeNext
         PROVE  BridgeKept
  <2> USE <1>main
  \* Nothing but a pass over the expired assignments moves deadlines or enters the later stages.
  <2>1. ASSUME BridgeInv', pow_state' = pow_state,
               DOMAIN assignments' \subseteq DOMAIN assignments,
               \A d \in DOMAIN assignments' : assignments'[d] = assignments[d],
               AfterPass(stage') => AfterPass(stage)
        PROVE  BridgeKept
    <3>1. height' = height
      BY <2>1 DEF height
    <3> QED
      BY <2>1, <3>1 DEF KeptOrMoved, DeadlinesAhead, BridgeKept
  <2>2. ASSUME UNCHANGED bridgeVars, pow_state' = pow_state, AfterPass(stage') => AfterPass(stage)
        PROVE  BridgeKept
    <3>1. op_table' = op_table /\ deposits' = deposits /\ assignments' = assignments
      BY <2>2 DEF bridgeVars
    <3>2. BridgeInv'
      BY <3>1 DEF BridgeInv
    <3> QED
      BY <2>1, <2>2, <3>1, <3>2
  <2>3. CASE SkipBridgeTx
    <3>1. UNCHANGED bridgeVars /\ pow_state' = pow_state /\ stage' = stage
      BY <2>3 DEF SkipBridgeTx, Panic, BridgeTxHandled, chainVars
    <3> QED
      BY <2>2, <3>1
  <2>4. CASE AddDeposit
    <3>1. assignments' = assignments /\ pow_state' = pow_state /\ stage' = stage
      BY <2>4 DEF AddDeposit, BridgeTxHandled, chainVars
    <3> QED
      BY <2>1, <2>4, <3>1, <1>AddDepositStep
  <2>5. CASE FulfillWithdrawal
    <3>1. pow_state' = pow_state /\ stage' = stage
      BY <2>5 DEF FulfillWithdrawal, Panic, BridgeTxHandled, chainVars
    <3>2. \/ assignments' = assignments
          \/ \E idx : assignments' = remove_assignment(assignments, idx)
      BY <2>5 DEF FulfillWithdrawal
    <3>3. /\ DOMAIN assignments' \subseteq DOMAIN assignments
          /\ \A d \in DOMAIN assignments' : assignments'[d] = assignments[d]
      BY <3>2 DEF remove_assignment
    <3> QED
      BY <2>1, <2>5, <3>1, <3>3, <1>FulfillStep
  <2>6. CASE RemoveOperator
    <3>1. /\ assignments' = assignments /\ deposits' = deposits
          /\ pow_state' = pow_state /\ stage' = stage
      BY <2>6 DEF RemoveOperator, Panic, BridgeTxHandled, chainVars
    <3>2. PICK drop : \/ op_table' = op_table
                      \/ /\ ~membership_panics(op_table, <<>>, drop)
                         /\ op_table' = apply_membership_changes(op_table, <<>>, drop)
      BY <2>6 DEF RemoveOperator
    <3>3. IsList(<<>>)
      <4>1. <<>> \in Seq({})
        BY SMTT(60)
      <4> QED
        BY <4>1, ListOfRange
    <3>4. BridgeInv'
      BY <3>1, <3>2, <3>3, <1>MembershipStep
    <3> QED
      BY <2>1, <3>1, <3>4
  <2>7. CASE TxsDone("bridge", "bridge_expired") /\ UNCHANGED bridgeVars
    <3>1. pow_state' = pow_state /\ stage' = "bridge_expired"
      BY <2>7 DEF TxsDone, chainVars
    <3>2. ~AfterPass(stage')
      BY <3>1  DEF AfterPass
    <3> QED
      BY <2>2, <2>7, <3>1, <3>2
  <2>8. CASE reassign_expired_assignments
    BY <2>8, <1>ReassignStep
  <2>9. CASE create_withdrawal_assignment
    BY <2>9, <1>DispatchStep
  <2>10. CASE apply_operator_set_update
    <3> DEFINE change == NextMsg("bridge")[2]
    <3>1. /\ assignments' = assignments /\ deposits' = deposits
          /\ pow_state' = pow_state /\ stage' = stage
      BY <2>10 DEF apply_operator_set_update, Panic, BridgeMsgHandled, chainVars
    <3>2. \/ op_table' = op_table
          \/ /\ ~membership_panics(op_table, change.add_members, change.remove_members)
             /\ op_table' = apply_membership_changes(op_table, change.add_members, change.remove_members)
      BY <2>10 DEF apply_operator_set_update
    <3>3. IsList(change.add_members)
      <4>1. inbox["bridge"] # <<>> /\ NextMsg("bridge")[1] = "UpdateOperatorSet"
        BY <2>10 DEF apply_operator_set_update, BridgeMsgReady
      <4> QED
        BY <4>1, FirstMsg DEF BridgeMsg, NextMsg
    <3> HIDE DEF change
    <3>4. BridgeInv'
      BY <3>1, <3>2, <3>3, <1>MembershipStep
    <3> QED
      BY <2>1, <3>1, <3>4
  <2>11. CASE update_safe_harbor_address \/ activate_safe_harbor
    <3>1. /\ op_table' = op_table /\ deposits' = deposits /\ assignments' = assignments
          /\ pow_state' = pow_state /\ stage' = stage
      BY <2>11 DEF update_safe_harbor_address, activate_safe_harbor, BridgeMsgHandled, chainVars
    <3>2. BridgeInv'
      BY <3>1 DEF BridgeInv
    <3> QED
      BY <2>1, <3>1, <3>2
  <2>12. CASE MsgsDone("bridge", "bridge_msgs", "export") /\ UNCHANGED bridgeVars
    <3>1. pow_state' = pow_state /\ stage = "bridge_msgs"
      BY <2>12 DEF MsgsDone, Running, chainVars
    <3>2. AfterPass(stage)
      BY <3>1  DEF AfterPass
    <3> QED
      BY <2>2, <2>12, <3>1, <3>2
  <2> QED
    BY <2>3, <2>4, <2>5, <2>6, <2>7, <2>8, <2>9, <2>10, <2>11, <2>12 DEF BridgeNext
<1> QED
  BY <1>main

-----------------------------------------------------------------------------
(* Messages in flight.                                                     *)

\* The bridge reports deposits of one denomination.
CheckpointMsg(msg) == msg[1] = "DepositProcessed" => msg[2] = denomination
CheckpointBox(box) == IsList(box) /\ \A i \in DOMAIN box : CheckpointMsg(box[i])

\* The deposits and the withdrawals that messages stand for.
DepositCount(msg) == IF msg[1] = "DepositProcessed" THEN 1 ELSE 0
UnitCount(msg) ==
  IF msg[1] = "DispatchWithdrawal" THEN denomination_units(msg[2], denomination) ELSE 0
DepositsIn(box) == Total([i \in DOMAIN box |-> DepositCount(box[i])])
UnitsIn(box) == Total([i \in DOMAIN box |-> UnitCount(box[i])])

\* A box holds lists of messages, and those for a subprotocol that is done are gone.
BoxesInv(box, st) ==
  /\ DOMAIN box = SubIds
  /\ CheckpointBox(box["checkpoint"]) /\ BridgeBox(box["bridge"])
  /\ st \in {"bridge_msgs", "export", "idle"} => box["checkpoint"] = <<>>
  /\ st \in {"export", "idle"} => box["bridge"] = <<>>

\* So what every message satisfies still holds when messages arrive and are taken.
LEMMA BoxesOf ==
  \A s, t :
         /\ BridgeBox(<<>>) /\ CheckpointBox(<<>>)
         /\ BridgeBox(s) /\ BridgeBox(t) => BridgeBox(s \o t)
         /\ CheckpointBox(s) /\ CheckpointBox(t) => CheckpointBox(s \o t)
         /\ BridgeBox(s) /\ s # <<>> => BridgeBox(Tail(s))
         /\ CheckpointBox(s) /\ s # <<>> => CheckpointBox(Tail(s))
\* Two lists of messages are one, and a list without its first message is one.
<1>BoxLists. ASSUME NEW s, NEW t, IsList(s), IsList(t)
             PROVE  /\ IsList(s \o t) /\ (s # <<>> => IsList(Tail(s)))
                    /\ \A i \in DOMAIN (s \o t) : \/ \E j \in DOMAIN s : (s \o t)[i] = s[j]
                                                  \/ \E j \in DOMAIN t : (s \o t)[i] = t[j]
                    /\ s # <<>> => \A i \in DOMAIN Tail(s) : \E j \in DOMAIN s : Tail(s)[i] = s[j]
  <2> USE <1>BoxLists
  <2> DEFINE R == Range(s) \cup Range(t)
  <2>1. s \in Seq(R) /\ t \in Seq(R)
    <3>1. s \in Seq(Range(s)) /\ t \in Seq(Range(t))
      BY DEF IsList
    <3>2. Range(s) \subseteq R /\ Range(t) \subseteq R
      OBVIOUS
    <3> HIDE DEF R
    <3> QED
      BY <3>1, <3>2, SMTT(60)
  <2> HIDE DEF R
  <2>2. s \o t \in Seq(R) /\ (s # <<>> => Tail(s) \in Seq(R))
    BY <2>1, SMTT(60)
  <2>3. ASSUME NEW i \in DOMAIN (s \o t)
        PROVE  \/ \E j \in DOMAIN s : (s \o t)[i] = s[j]
               \/ \E j \in DOMAIN t : (s \o t)[i] = t[j]
    <3>1. /\ i \in 1 .. (Len(s) + Len(t)) /\ Len(s) \in Nat /\ Len(t) \in Nat
          /\ DOMAIN s = 1 .. Len(s) /\ DOMAIN t = 1 .. Len(t)
      BY <2>1, SMTT(60)
    <3>2. CASE i <= Len(s)
      <4>1. i \in DOMAIN s /\ (s \o t)[i] = s[i]
        BY <2>1, <3>1, <3>2, SMTT(60)
      <4> QED
        BY <4>1
    <3>3. CASE ~(i <= Len(s))
      <4>1. i - Len(s) \in DOMAIN t /\ (s \o t)[i] = t[i - Len(s)]
        BY <2>1, <3>1, <3>3, SMTT(60)
      <4> QED
        BY <4>1
    <3> QED
      BY <3>2, <3>3
  <2>4. ASSUME s # <<>>, NEW i \in DOMAIN Tail(s) PROVE \E j \in DOMAIN s : Tail(s)[i] = s[j]
    <3>1. i + 1 \in DOMAIN s /\ Tail(s)[i] = s[i + 1]
      BY <2>1, <2>4, SMTT(60)
    <3> QED
      BY <3>1
  <2> QED
    BY <2>2, <2>3, <2>4, ListOfRange
<1>main. ASSUME NEW s, NEW t
         PROVE  /\ BridgeBox(<<>>) /\ CheckpointBox(<<>>)
                /\ BridgeBox(s) /\ BridgeBox(t) => BridgeBox(s \o t)
                /\ CheckpointBox(s) /\ CheckpointBox(t) => CheckpointBox(s \o t)
                /\ BridgeBox(s) /\ s # <<>> => BridgeBox(Tail(s))
                /\ CheckpointBox(s) /\ s # <<>> => CheckpointBox(Tail(s))
  <2>1. IsList(<<>>) /\ DOMAIN <<>> = {}
    <3>1. <<>> \in Seq({}) /\ DOMAIN <<>> = {}
      BY SMTT(60)
    <3> QED
      BY <3>1, ListOfRange
  <2>2. BridgeBox(<<>>) /\ CheckpointBox(<<>>)
    BY <2>1 DEF BridgeBox, CheckpointBox
  <2>3. ASSUME BridgeBox(s), BridgeBox(t) PROVE BridgeBox(s \o t)
    BY <2>3, <1>BoxLists, SMTT(60) DEF BridgeBox
  <2>4. ASSUME CheckpointBox(s), CheckpointBox(t) PROVE CheckpointBox(s \o t)
    BY <2>4, <1>BoxLists, SMTT(60) DEF CheckpointBox
  <2>5. ASSUME BridgeBox(s), s # <<>> PROVE BridgeBox(Tail(s))
    BY <2>5, <1>BoxLists  DEF BridgeBox
  <2>6. ASSUME CheckpointBox(s), s # <<>> PROVE CheckpointBox(Tail(s))
    BY <2>6, <1>BoxLists  DEF CheckpointBox
  <2> QED
    BY <2>2, <2>3, <2>4, <2>5, <2>6
<1> QED
  BY <1>main

\* A unit is a number.
LEMMA UnitsNat ==
  ASSUME NEW msg, BridgeMsg(msg)
  PROVE  UnitCount(msg) \in Nat
<1>1. CASE msg[1] = "DispatchWithdrawal"
  <2>1. msg[2].amt \in Nat
    BY <1>1 DEF BridgeMsg, IsIntent
  <2>2. denomination \in Nat \ {0}
    BY BridgeAssumption
  <2>3. denomination_units(msg[2], denomination) \in Nat
    BY <2>1, <2>2, SMTT(60) DEF denomination_units
  <2> QED
    BY <1>1, <2>3 DEF UnitCount
<1>2. CASE msg[1] # "DispatchWithdrawal"
  BY <1>2  DEF UnitCount
<1> QED
  BY <1>1, <1>2

\* The withdrawals that two lists of messages order, and one without its first message.
LEMMA UnitsInFlight ==
  ASSUME NEW s, NEW t, BridgeBox(s), BridgeBox(t)
  PROVE  /\ UnitsIn(s) \in Nat /\ UnitsIn(s \o t) = UnitsIn(s) + UnitsIn(t)
         /\ s # <<>> => /\ UnitCount(Head(s)) \in Nat /\ UnitsIn(Tail(s)) \in Nat
                        /\ UnitsIn(s) = UnitCount(Head(s)) + UnitsIn(Tail(s))
<1> DEFINE R == Range(s) \cup Range(t)
           w == [m \in R |-> UnitCount(m)]
<1>1. s \in Seq(R) /\ t \in Seq(R)
  <2>1. s \in Seq(Range(s)) /\ t \in Seq(Range(t))
    BY DEF IsList, BridgeBox
  <2>2. Range(s) \subseteq R /\ Range(t) \subseteq R
    OBVIOUS
  <2> HIDE DEF R
  <2> QED
    BY <2>1, <2>2, SMTT(60)
<1>2. \A m \in R : UnitCount(m) \in Nat
  BY UnitsNat DEF Range, BridgeBox
<1> HIDE DEF R
<1>3. w \in [R -> Nat]
  BY <1>2
<1>4. ASSUME NEW u \in Seq(R)
      PROVE  UnitsIn(u) = Total(Weights(u, w)) /\ (u # <<>> => UnitCount(Head(u)) = w[Head(u)])
  <2>1. \A i \in DOMAIN u : u[i] \in R
    BY SMTT(60)
  <2>2. \A i \in DOMAIN u : w[u[i]] = UnitCount(u[i])
    BY <2>1
  <2>3. Weights(u, w) = [i \in DOMAIN u |-> UnitCount(u[i])]
    BY <2>2 DEF Weights
  <2>4. u # <<>> => Head(u) \in R
    BY SMTT(60)
  <2> QED
    BY <2>3, <2>4 DEF UnitsIn
<1> HIDE DEF w
<1>5. s \o t \in Seq(R) /\ (s # <<>> => Tail(s) \in Seq(R))
  BY <1>1, SMTT(60)
<1>6. /\ Total(Weights(s, w)) \in Nat
      /\ Total(Weights(s \o t, w)) = Total(Weights(s, w)) + Total(Weights(t, w))
      /\ s # <<>> => /\ w[Head(s)] \in Nat
                     /\ Total(Weights(Tail(s), w)) \in Nat
                     /\ Total(Weights(s, w)) = w[Head(s)] + Total(Weights(Tail(s), w))
  BY <1>1, <1>3, WeightsTotal
<1> QED
  BY <1>1, <1>4, <1>5, <1>6

\* The same for the deposits that are reported.
LEMMA DepositsInFlight ==
  ASSUME NEW s, NEW t, IsList(s), IsList(t)
  PROVE  /\ DepositsIn(s) \in Nat /\ DepositsIn(s \o t) = DepositsIn(s) + DepositsIn(t)
         /\ s # <<>> => /\ DepositCount(Head(s)) \in Nat /\ DepositsIn(Tail(s)) \in Nat
                        /\ DepositsIn(s) = DepositCount(Head(s)) + DepositsIn(Tail(s))
<1> DEFINE R == Range(s) \cup Range(t)
           w == [m \in R |-> DepositCount(m)]
<1>1. s \in Seq(R) /\ t \in Seq(R)
  <2>1. s \in Seq(Range(s)) /\ t \in Seq(Range(t))
    BY DEF IsList
  <2>2. Range(s) \subseteq R /\ Range(t) \subseteq R
    OBVIOUS
  <2> HIDE DEF R
  <2> QED
    BY <2>1, <2>2, SMTT(60)
<1>2. \A m \in R : DepositCount(m) \in Nat
  <2> HIDE DEF R
  <2> QED
    BY DEF DepositCount
<1> HIDE DEF R
<1>3. w \in [R -> Nat]
  BY <1>2
<1>4. ASSUME NEW u \in Seq(R)
      PROVE  DepositsIn(u) = Total(Weights(u, w)) /\ (u # <<>> => DepositCount(Head(u)) = w[Head(u)])
  <2>1. \A i \in DOMAIN u : u[i] \in R
    BY SMTT(60)
  <2>2. \A i \in DOMAIN u : w[u[i]] = DepositCount(u[i])
    BY <2>1
  <2>3. Weights(u, w) = [i \in DOMAIN u |-> DepositCount(u[i])]
    BY <2>2 DEF Weights
  <2>4. u # <<>> => Head(u) \in R
    BY SMTT(60)
  <2> QED
    BY <2>3, <2>4 DEF DepositsIn
<1> HIDE DEF w
<1>5. s \o t \in Seq(R) /\ (s # <<>> => Tail(s) \in Seq(R))
  BY <1>1, SMTT(60)
<1>6. /\ Total(Weights(s, w)) \in Nat
      /\ Total(Weights(s \o t, w)) = Total(Weights(s, w)) + Total(Weights(t, w))
      /\ s # <<>> => /\ w[Head(s)] \in Nat
                     /\ Total(Weights(Tail(s), w)) \in Nat
                     /\ Total(Weights(s, w)) = w[Head(s)] + Total(Weights(Tail(s), w))
  BY <1>1, <1>3, WeightsTotal
<1> QED
  BY <1>1, <1>4, <1>5, <1>6

\* Messages arrive for the checkpoint subprotocol.
LEMMA RelayToCheckpoint ==
  ASSUME NEW box, NEW st, NEW msgs, BoxesInv(box, st), CheckpointBox(msgs),
         st \notin {"bridge_msgs", "export", "idle"}
  PROVE  /\ BoxesInv(relay_msgs(box, "checkpoint", msgs), st)
         /\ relay_msgs(box, "checkpoint", msgs)["checkpoint"] = box["checkpoint"] \o msgs
         /\ relay_msgs(box, "checkpoint", msgs)["bridge"] = box["bridge"]
<1> DEFINE new == relay_msgs(box, "checkpoint", msgs)
<1>1. /\ DOMAIN box = SubIds /\ CheckpointBox(box["checkpoint"]) /\ BridgeBox(box["bridge"])
      /\ st \in {"export", "idle"} => box["bridge"] = <<>>
  BY DEF BoxesInv
<1>2. "checkpoint" \in SubIds /\ "bridge" \in SubIds /\ "checkpoint" # "bridge"
  BY DEF SubIds
<1>3. /\ DOMAIN new = SubIds /\ new["checkpoint"] = box["checkpoint"] \o msgs
      /\ new["bridge"] = box["bridge"]
  BY <1>1, <1>2  DEF relay_msgs
<1> HIDE DEF new
<1>4. CheckpointBox(new["checkpoint"])
  BY <1>1, <1>3, BoxesOf
<1>5. BoxesInv(new, st)
  BY <1>1, <1>3, <1>4 DEF BoxesInv
<1> QED
  BY <1>3, <1>5 DEF new

\* Messages arrive for the bridge.
LEMMA RelayToBridge ==
  ASSUME NEW box, NEW st, NEW msgs, BoxesInv(box, st), BridgeBox(msgs),
         st \notin {"export", "idle"}
  PROVE  /\ BoxesInv(relay_msgs(box, "bridge", msgs), st)
         /\ relay_msgs(box, "bridge", msgs)["bridge"] = box["bridge"] \o msgs
         /\ relay_msgs(box, "bridge", msgs)["checkpoint"] = box["checkpoint"]
<1> DEFINE new == relay_msgs(box, "bridge", msgs)
<1>1. /\ DOMAIN box = SubIds /\ CheckpointBox(box["checkpoint"]) /\ BridgeBox(box["bridge"])
      /\ st \in {"bridge_msgs", "export", "idle"} => box["checkpoint"] = <<>>
  BY DEF BoxesInv
<1>2. "checkpoint" \in SubIds /\ "bridge" \in SubIds /\ "checkpoint" # "bridge"
  BY DEF SubIds
<1>3. /\ DOMAIN new = SubIds /\ new["bridge"] = box["bridge"] \o msgs
      /\ new["checkpoint"] = box["checkpoint"]
  BY <1>1, <1>2  DEF relay_msgs
<1> HIDE DEF new
<1>4. BridgeBox(new["bridge"])
  BY <1>1, <1>3, BoxesOf
<1>5. BoxesInv(new, st)
  BY <1>1, <1>3, <1>4 DEF BoxesInv
<1> QED
  BY <1>3, <1>5 DEF new

\* The box without the first message of one subprotocol.
Without(box, s) == [box EXCEPT ![s] = Tail(@)]

\* A message is taken.
LEMMA TakeFromBox ==
  ASSUME NEW box, NEW st, BoxesInv(box, st), NEW s \in {"checkpoint", "bridge"}, box[s] # <<>>
  PROVE  /\ BoxesInv(Without(box, s), st)
         /\ Without(box, s)[s] = Tail(box[s])
         /\ \A r \in {"checkpoint", "bridge"} : r # s => Without(box, s)[r] = box[r]
<1> DEFINE new == Without(box, s)
<1>1. /\ DOMAIN box = SubIds /\ CheckpointBox(box["checkpoint"]) /\ BridgeBox(box["bridge"])
      /\ st \in {"bridge_msgs", "export", "idle"} => box["checkpoint"] = <<>>
      /\ st \in {"export", "idle"} => box["bridge"] = <<>>
  BY DEF BoxesInv
<1>2. {"checkpoint", "bridge"} \subseteq SubIds
  BY DEF SubIds
<1>3. /\ DOMAIN new = SubIds /\ new[s] = Tail(box[s])
      /\ \A r \in {"checkpoint", "bridge"} : r # s => new[r] = box[r]
  BY <1>1, <1>2  DEF Without
<1> HIDE DEF new
<1>4. CASE s = "checkpoint"
  <2>1. new["checkpoint"] = Tail(box["checkpoint"]) /\ new["bridge"] = box["bridge"]
    BY <1>3, <1>4
  <2>2. CheckpointBox(new["checkpoint"])
    BY <1>1, <1>4, <2>1, BoxesOf
  <2>3. BoxesInv(new, st)
    BY <1>1, <1>3, <1>4, <2>1, <2>2 DEF BoxesInv
  <2> QED
    BY <1>3, <2>3 DEF new
<1>5. CASE s = "bridge"
  <2>1. new["bridge"] = Tail(box["bridge"]) /\ new["checkpoint"] = box["checkpoint"]
    BY <1>3, <1>5
  <2>2. BridgeBox(new["bridge"])
    BY <1>1, <1>5, <2>1, BoxesOf
  <2>3. BoxesInv(new, st)
    BY <1>1, <1>3, <1>5, <2>1, <2>2 DEF BoxesInv
  <2> QED
    BY <1>3, <2>3 DEF new
<1> QED
  BY <1>4, <1>5

\* oldest_deposits picks no more deposits than it was asked for.
LEMMA OldestBound ==
  ASSUME NEW deps, IsFiniteSet(DOMAIN deps), DOMAIN deps \subseteq Nat, NEW n \in Nat
  PROVE  /\ oldest_deposits(deps, n) \subseteq DOMAIN deps
         /\ IsFiniteSet(oldest_deposits(deps, n))
         /\ Cardinality(oldest_deposits(deps, n)) \in Nat
         /\ Cardinality(oldest_deposits(deps, n)) <= n
<1> DEFINE D == DOMAIN deps
           below(d) == {e \in D : e < d}
           rank == [d \in oldest_deposits(deps, n) |-> Cardinality(below(d))]
           T == 0 .. (n - 1)
<1>1. oldest_deposits(deps, n) \subseteq D /\ \A d \in oldest_deposits(deps, n) : Cardinality(below(d)) < n
  BY DEF oldest_deposits
<1> DEFINE B == oldest_deposits(deps, n)
<1> HIDE DEF D
<1>2. IsFiniteSet(D) /\ D \subseteq Nat
  BY DEF D
<1> HIDE DEF B
<1>3. B \subseteq D /\ \A d \in B : Cardinality(below(d)) < n
  BY <1>1 DEF B
<1>4. IsFiniteSet(B) /\ Cardinality(B) \in Nat
  BY <1>2, <1>3, FS_Subset, FS_CardinalityType
<1>5. \A d : IsFiniteSet(below(d)) /\ Cardinality(below(d)) \in Nat
  <2>1. \A d : below(d) \subseteq D
    OBVIOUS
  <2> QED
    BY <1>2, <2>1, FS_Subset, FS_CardinalityType
<1>6. ASSUME NEW d \in B, NEW e \in B, d < e PROVE Cardinality(below(d)) < Cardinality(below(e))
  <2>1. d \in D /\ e \in D /\ d \in Nat /\ e \in Nat
    BY <1>2, <1>3
  <2>2. \A x \in D : x < d => x < e
    BY <1>2, <1>6, <2>1, SMTT(60)
  <2>3. ~(d < d)
    BY <2>1, SMTT(60)
  <2>4. below(d) \subseteq below(e)
    BY <2>2
  <2>5. below(d) # below(e)
    BY <1>6, <2>1, <2>3
  <2> HIDE DEF below
  <2>6. Cardinality(below(d)) <= Cardinality(below(e)) /\ Cardinality(below(d)) # Cardinality(below(e))
    BY <1>5, <2>4, <2>5, FS_Subset
  <2> QED
    BY <1>5, <2>6, SMTT(60)
<1>7. rank \in [B -> T]
  <2>1. \A d \in B : Cardinality(below(d)) \in T
    <3> HIDE DEF below
    <3> QED
      BY <1>3, <1>5, SMTT(60)
  <2> QED
    BY <2>1 DEF B
<1>8. ASSUME NEW d \in B, NEW e \in B, rank[d] = rank[e] PROVE d = e
  <2>1. Cardinality(below(d)) = Cardinality(below(e))
    BY <1>8 DEF B
  <2>2. d \in Nat /\ e \in Nat
    BY <1>2, <1>3
  <2> HIDE DEF below
  <2>3. ~(d < e) /\ ~(e < d)
    BY <1>5, <1>6, <2>1, SMTT(60)
  <2> QED
    BY <2>2, <2>3, SMTT(60)
<1>9. IsFiniteSet(T) /\ Cardinality(T) = n
  <2>1. 0 \in Int /\ n - 1 \in Int
    BY SMTT(60)
  <2>2. IsFiniteSet(T) /\ Cardinality(T) = IF 0 > n - 1 THEN 0 ELSE (n - 1) - 0 + 1
    BY <2>1, FS_Interval
  <2> QED
    BY <2>2, SMTT(60)
<1> HIDE DEF rank, T
<1>10. rank \in Injection(B, T)
  BY <1>7, <1>8 DEF Injection, IsInjective
<1>11. Cardinality(B) <= Cardinality(T)
  BY <1>4, <1>9, <1>10, FS_Injection DEF ExistsInjection
<1> QED
  BY <1>3, <1>4, <1>9, <1>11 DEF B, D

-----------------------------------------------------------------------------
(* What the bridge does to the number of deposits and withdrawals.         *)

Vault == Cardinality(DOMAIN deposits)
Owed == Cardinality(DOMAIN assignments)
Reported == DepositsIn(inbox["checkpoint"])
Asked == UnitsIn(inbox["bridge"])

CountsInv ==
  /\ IsFiniteSet(DOMAIN deposits) /\ DOMAIN deposits \subseteq Nat
  /\ IsFiniteSet(DOMAIN assignments)
  /\ BoxesInv(inbox, stage)

\* A deposit comes in and is reported; withdrawals that were asked for are backed by as many
\* deposits; one is paid; or nothing counts.
CountedDeposit ==
  Vault' = Vault + 1 /\ Reported' = Reported + 1 /\ UNCHANGED <<Asked, Owed, fulfilled>>
CountedAssign ==
  \E n \in Nat : /\ n <= Asked /\ Asked' = Asked - n /\ Vault' = Vault - n /\ Owed' = Owed + n
                 /\ UNCHANGED <<Reported, fulfilled>>
CountedPay ==
  /\ Owed > 0 /\ Owed' = Owed - 1 /\ fulfilled' = fulfilled + 1
  /\ UNCHANGED <<Vault, Reported, Asked>>
Uncounted == UNCHANGED <<Vault, Reported, Asked, Owed, fulfilled>>
Counted == CountsInv' /\ (CountedDeposit \/ CountedAssign \/ CountedPay \/ Uncounted)

\* Nothing is in flight in an empty box.
LEMMA NoneInFlight ==
  DepositsIn(<<>>) = 0 /\ UnitsIn(<<>>) = 0
<1>1. [i \in DOMAIN <<>> |-> DepositCount(<<>>[i])] = <<>> /\ <<>> \in Seq(Nat)
  BY SMTT(60)
<1>2. [i \in DOMAIN <<>> |-> UnitCount(<<>>[i])] = <<>>
  BY SMTT(60)
<1>3. Total(<<>>) = 0
  BY <1>1, TotalTail
<1> QED
  BY <1>1, <1>2, <1>3 DEF DepositsIn, UnitsIn

\* The tables and the boxes stay as they are, or the stage moves on.
LEMMA UncountedStep ==
  ASSUME CountsInv, DOMAIN deposits' = DOMAIN deposits, DOMAIN assignments' = DOMAIN assignments,
         fulfilled' = fulfilled, inbox' = inbox,
         \/ stage' = stage
         \/ stage' \notin {"bridge_msgs", "export", "idle"}
         \/ stage' = "bridge_msgs" /\ inbox["checkpoint"] = <<>>
         \/ stage' = "export" /\ stage = "bridge_msgs" /\ inbox["bridge"] = <<>>
         \/ stage' = "idle" /\ stage = "export"
  PROVE  Counted
<1>1. BoxesInv(inbox, stage)
  BY DEF CountsInv
<1>2. BoxesInv(inbox, stage')
  <2>1. CASE stage' = stage
    BY <1>1, <2>1
  <2>2. CASE stage' \notin {"bridge_msgs", "export", "idle"}
    BY <1>1, <2>2 DEF BoxesInv
  <2>3. CASE stage' = "bridge_msgs" /\ inbox["checkpoint"] = <<>>
    <3>1. stage' \notin {"export", "idle"}
      BY <2>3
    <3> QED
      BY <1>1, <2>3, <3>1 DEF BoxesInv
  <2>4. CASE stage' = "export" /\ stage = "bridge_msgs" /\ inbox["bridge"] = <<>>
    <3>1. inbox["checkpoint"] = <<>>
      BY <1>1, <2>4 DEF BoxesInv
    <3> QED
      BY <1>1, <2>4, <3>1 DEF BoxesInv
  <2>5. CASE stage' = "idle" /\ stage = "export"
    <3>1. inbox["checkpoint"] = <<>> /\ inbox["bridge"] = <<>>
      BY <1>1, <2>5 DEF BoxesInv
    <3> QED
      BY <1>1, <3>1 DEF BoxesInv
  <2> QED
    BY <2>1, <2>2, <2>3, <2>4, <2>5
<1>3. CountsInv'
  BY <1>2 DEF CountsInv
<1>4. Uncounted
  BY DEF Uncounted, Vault, Owed, Reported, Asked
<1> QED
  BY <1>3, <1>4 DEF Counted

\* One step of the bridge.
LEMMA BridgeCounts ==
     BridgeInv /\ CountsInv /\ BridgeNext
      => Counted
\* AddDeposit: one deposit, and one message that reports it.
<1>DepositCounted. ASSUME CountsInv, AddDeposit
                   PROVE  Counted
  <2> USE <1>DepositCounted
  <2> DEFINE info == DepositInfo(BridgeTx)
             idx == info.deposit_idx
             entry == DepositEntry(idx, current_nn_script_index(op_table), info.amt)
             msg == <<"DepositProcessed", info.amt>>
             msgs == <<msg>>
  <2>1. /\ deposits' = insert_deposit(deposits, entry) /\ assignments' = assignments
        /\ fulfilled' = fulfilled /\ inbox' = relay_msgs(inbox, "checkpoint", msgs)
        /\ can_add_deposit(idx) /\ IsDeposit(BridgeTx) /\ info.amt = denomination
        /\ stage' = stage /\ stage = "bridge"
    BY DEF AddDeposit, DepositAccepted, validate_deposit_info, BridgeTxHandled, BridgeTxReady,
       Running
  <2>2. entry.deposit_idx = idx
    BY DEF DepositEntry
  <2>3. idx \in Nat
    <3>1. BridgeTx.aux[2] \in Nat
      BY <2>1 DEF IsDeposit, parse_deposit_tx, DepositTxHeaderAux, IsIndex
    <3>2. idx = BridgeTx.aux[2]
      BY DEF DepositInfo
    <3> QED
      BY <3>1, <3>2
  <2>4. idx \notin DOMAIN deposits
    BY <2>1 DEF can_add_deposit, get_deposit
  <2> HIDE DEF idx, entry
  <2>5. DOMAIN deposits' = DOMAIN deposits \cup {idx}
    BY <2>1, <2>2 DEF insert_deposit
  <2>6. IsFiniteSet(DOMAIN deposits) /\ DOMAIN deposits \subseteq Nat /\ BoxesInv(inbox, stage)
        /\ IsFiniteSet(DOMAIN assignments)
    BY DEF CountsInv
  <2>7. IsFiniteSet(DOMAIN deposits') /\ Cardinality(DOMAIN deposits') = Cardinality(DOMAIN deposits) + 1
    BY <2>4, <2>5, <2>6, FS_AddElement
  <2>8. DOMAIN deposits' \subseteq Nat
    BY <2>3, <2>5, <2>6
  <2>9. IsList(msgs) /\ DOMAIN msgs = {1} /\ msgs[1] = msg /\ msgs # <<>> /\ Head(msgs) = msg /\ Tail(msgs) = <<>>
    <3> HIDE DEF msg
    <3>1. msgs \in Seq({msg})
      BY SMTT(60)
    <3>2. DOMAIN msgs = {1} /\ msgs[1] = msg /\ msgs # <<>> /\ Head(msgs) = msg /\ Tail(msgs) = <<>>
      BY SMTT(60)
    <3> QED
      BY <3>1, <3>2, ListOfRange
  <2>10. CheckpointMsg(msg) /\ DepositCount(msg) = 1
    BY <2>1  DEF CheckpointMsg, DepositCount
  <2> HIDE DEF msg, msgs
  <2>11. CheckpointBox(msgs)
    BY <2>9, <2>10 DEF CheckpointBox
  <2>12. DepositsIn(msgs) = 1
    <3>1. DepositsIn(msgs) = DepositCount(msg) + DepositsIn(<<>>)
      BY <2>9, DepositsInFlight
    <3> QED
      BY <2>10, <3>1, NoneInFlight, SMTT(60)
  <2>13. stage \notin {"bridge_msgs", "export", "idle"}
    BY <2>1
  <2>14. /\ BoxesInv(inbox', stage') /\ inbox'["checkpoint"] = inbox["checkpoint"] \o msgs
         /\ inbox'["bridge"] = inbox["bridge"]
    BY <2>1, <2>6, <2>11, <2>13, RelayToCheckpoint
  <2>15. IsList(inbox["checkpoint"])
    BY <2>6 DEF BoxesInv, CheckpointBox
  <2>16. Reported' = Reported + 1
    BY <2>9, <2>12, <2>14, <2>15, DepositsInFlight, SMTT(60) DEF Reported
  <2>17. CountsInv'
    BY <2>1, <2>6, <2>7, <2>8, <2>14 DEF CountsInv
  <2>18. CountedDeposit
    BY <2>1, <2>7, <2>14, <2>16 DEF CountedDeposit, Vault, Owed, Asked
  <2> QED
    BY <2>17, <2>18 DEF Counted
\* FulfillWithdrawal: one assignment is paid, or the block fails.
<1>PayCounted. ASSUME CountsInv, FulfillWithdrawal
               PROVE  Counted
  <2> USE <1>PayCounted
  <2> DEFINE idx == WithdrawalFulfillmentInfo(BridgeTx).deposit_idx
  <2>1. /\ deposits' = deposits /\ inbox' = inbox /\ stage' = stage /\ idx \in DOMAIN assignments
        /\ \/ assignments' = assignments /\ fulfilled' = fulfilled
           \/ assignments' = remove_assignment(assignments, idx) /\ fulfilled' = fulfilled + 1
    BY DEF FulfillWithdrawal, FulfillmentAccepted, validate_withdrawal_fulfillment_info,
       has_assignment, Panic, BridgeTxHandled
  <2> HIDE DEF idx
  <2>2. CASE assignments' = assignments /\ fulfilled' = fulfilled
    BY <2>1, <2>2, UncountedStep
  <2>3. CASE assignments' = remove_assignment(assignments, idx) /\ fulfilled' = fulfilled + 1
    <3>1. DOMAIN assignments' = DOMAIN assignments \ {idx}
      BY <2>3 DEF remove_assignment
    <3>2. IsFiniteSet(DOMAIN assignments)
      BY DEF CountsInv
    <3>3. /\ IsFiniteSet(DOMAIN assignments')
          /\ Cardinality(DOMAIN assignments') = Cardinality(DOMAIN assignments) - 1
      BY <2>1, <3>1, <3>2, FS_RemoveElement
    <3>4. Cardinality(DOMAIN assignments') \in Nat /\ Cardinality(DOMAIN assignments) \in Nat
      BY <3>2, <3>3, FS_CardinalityType
    <3>5. Cardinality(DOMAIN assignments) > 0
      BY <3>3, <3>4, SMTT(60)
    <3>6. CountsInv'
      BY <2>1, <3>3 DEF CountsInv
    <3>7. CountedPay
      BY <2>1, <2>3, <3>3, <3>5 DEF CountedPay, Owed, Vault, Reported, Asked
    <3> QED
      BY <3>6, <3>7 DEF Counted
  <2> QED
    BY <2>1, <2>2, <2>3
\* reassign_expired_assignments: no assignment comes or goes.
<1>ReassignUncounted. ASSUME CountsInv, reassign_expired_assignments
                      PROVE  Counted
  <2> USE <1>ReassignUncounted
  <2> DEFINE expired == ExpiredAssignments(assignments, height)
  <2>1. /\ deposits' = deposits /\ fulfilled' = fulfilled /\ inbox' = inbox
        /\ stage' = stage \/ stage' = "checkpoint_msgs"
        /\ \/ assignments' = assignments
           \/ \E moved \in [expired -> UNION {Reassigned(d) : d \in expired}] :
                 assignments' = insert_assignments(assignments, moved)
    BY DEF reassign_expired_assignments, Panic
  <2>2. expired \subseteq DOMAIN assignments
    BY DEF ExpiredAssignments
  <2>3. DOMAIN assignments' = DOMAIN assignments
    BY <2>1, <2>2 DEF insert_assignments
  <2>4. "checkpoint_msgs" \notin {"bridge_msgs", "export", "idle"}
    OBVIOUS
  <2> QED
    BY <2>1, <2>3, <2>4, UncountedStep
\* A message that orders no withdrawal is taken.
<1>MsgUncounted. ASSUME CountsInv, NEW kind, BridgeMsgReady(kind), kind # "DispatchWithdrawal", BridgeMsgHandled,
                        deposits' = deposits, assignments' = assignments, fulfilled' = fulfilled
                 PROVE  Counted
  <2> USE <1>MsgUncounted
  <2>1. /\ inbox["bridge"] # <<>> /\ Head(inbox["bridge"])[1] # "DispatchWithdrawal"
        /\ inbox' = Without(inbox, "bridge") /\ stage' = stage
    BY DEF BridgeMsgReady, BridgeMsgHandled, NextMsg, TakeMsg, Without
  <2>2. BoxesInv(inbox, stage) /\ BridgeBox(inbox["bridge"])
    BY DEF CountsInv, BoxesInv
  <2>3. /\ BoxesInv(inbox', stage') /\ inbox'["bridge"] = Tail(inbox["bridge"])
        /\ inbox'["checkpoint"] = inbox["checkpoint"]
    BY <2>1, <2>2, TakeFromBox
  <2>4. UnitCount(Head(inbox["bridge"])) = 0
    BY <2>1 DEF UnitCount
  <2>5. /\ UnitsIn(inbox["bridge"]) = UnitCount(Head(inbox["bridge"])) + UnitsIn(Tail(inbox["bridge"]))
        /\ UnitsIn(Tail(inbox["bridge"])) \in Nat
    BY <2>1, <2>2, UnitsInFlight
  <2>6. Asked' = Asked
    BY <2>3, <2>4, <2>5, SMTT(60) DEF Asked
  <2>7. CountsInv'
    BY <2>3 DEF CountsInv
  <2>8. Uncounted
    BY <2>3, <2>6 DEF Uncounted, Vault, Owed, Reported
  <2> QED
    BY <2>7, <2>8 DEF Counted
\* create_withdrawal_assignment: as many deposits become assignments as the message asks for.
<1>AssignCounted. ASSUME BridgeInv, CountsInv, create_withdrawal_assignment
                  PROVE  Counted
  <2> USE <1>AssignCounted
  <2> DEFINE msg == NextMsg("bridge")
             units == denomination_units(msg[2], denomination)
             backing == oldest_deposits(deposits, units)
  <2>1. /\ BridgeMsgReady("DispatchWithdrawal") /\ fulfilled' = fulfilled
        /\ \/ assignments' = assignments /\ deposits' = deposits /\ inbox' = inbox /\ stage' = stage
           \/ /\ ~(Cardinality(backing) < units)
              /\ deposits' = remove_deposits(deposits, backing) /\ BridgeMsgHandled
              /\ \E entries \in [backing -> UNION {build_assignment(d, msg[2]) : d \in backing}] :
                    assignments' = insert_assignments(assignments, entries)
    BY DEF create_withdrawal_assignment, DispatchFails, Panic
  <2>2. CASE assignments' = assignments /\ deposits' = deposits /\ inbox' = inbox /\ stage' = stage
    BY <2>1, <2>2, UncountedStep
  <2>3. CASE /\ ~(Cardinality(backing) < units)
             /\ deposits' = remove_deposits(deposits, backing) /\ BridgeMsgHandled
             /\ \E entries \in [backing -> UNION {build_assignment(d, msg[2]) : d \in backing}] :
                   assignments' = insert_assignments(assignments, entries)
    <3>1. /\ IsFiniteSet(DOMAIN deposits) /\ DOMAIN deposits \subseteq Nat
          /\ IsFiniteSet(DOMAIN assignments) /\ BoxesInv(inbox, stage) /\ BridgeBox(inbox["bridge"])
      BY DEF CountsInv, BoxesInv
    <3>2. /\ inbox["bridge"] # <<>> /\ msg[1] = "DispatchWithdrawal"
          /\ inbox' = Without(inbox, "bridge") /\ stage' = stage /\ msg = Head(inbox["bridge"])
      BY <2>1, <2>3 DEF BridgeMsgReady, BridgeMsgHandled, NextMsg, TakeMsg, Without
    <3>3. UnitCount(msg) = units
      BY <3>2 DEF UnitCount
    <3>4. /\ UnitsIn(inbox["bridge"]) = UnitCount(msg) + UnitsIn(Tail(inbox["bridge"]))
          /\ UnitsIn(Tail(inbox["bridge"])) \in Nat /\ UnitCount(msg) \in Nat
      BY <3>1, <3>2, UnitsInFlight
    <3>5. DOMAIN deposits' = DOMAIN deposits \ backing
      BY <2>3 DEF remove_deposits
    <3>6. DOMAIN assignments' = DOMAIN assignments \cup backing
      BY <2>3 DEF insert_assignments
    <3> HIDE DEF units, backing
    <3>7. units \in Nat
      BY <3>3, <3>4
    <3>8. /\ backing \subseteq DOMAIN deposits /\ IsFiniteSet(backing)
          /\ Cardinality(backing) \in Nat /\ Cardinality(backing) <= units
      BY <3>1, <3>7, OldestBound DEF backing
    <3>9. Cardinality(backing) = units
      BY <2>3, <3>7, <3>8, SMTT(60)
    <3>10. /\ IsFiniteSet(DOMAIN deposits')
           /\ Cardinality(DOMAIN deposits') = Cardinality(DOMAIN deposits) - units
      <4>1. DOMAIN deposits \cap backing = backing
        BY <3>8
      <4>2. /\ IsFiniteSet(DOMAIN deposits \ backing)
            /\ Cardinality(DOMAIN deposits \ backing)
                 = Cardinality(DOMAIN deposits) - Cardinality(DOMAIN deposits \cap backing)
        BY <3>1, FS_Difference
      <4> QED
        BY <3>5, <3>9, <4>1, <4>2
    <3>11. DOMAIN assignments \cap backing = {}
      BY <3>8 DEF BridgeInv
    <3>12. /\ IsFiniteSet(DOMAIN assignments')
           /\ Cardinality(DOMAIN assignments') = Cardinality(DOMAIN assignments) + units
      <4>1. /\ IsFiniteSet(DOMAIN assignments \cup backing)
            /\ Cardinality(DOMAIN assignments \cup backing)
                 = Cardinality(DOMAIN assignments) + Cardinality(backing)
                     - Cardinality(DOMAIN assignments \cap backing)
        BY <3>1, <3>8, FS_Union
      <4>2. Cardinality(DOMAIN assignments \cap backing) = 0
        BY <3>11, FS_EmptySet
      <4>3. Cardinality(DOMAIN assignments) \in Nat
        BY <3>1, FS_CardinalityType
      <4> QED
        BY <3>6, <3>8, <3>9, <4>1, <4>2, <4>3, SMTT(60)
    <3>13. /\ BoxesInv(inbox', stage') /\ inbox'["bridge"] = Tail(inbox["bridge"])
           /\ inbox'["checkpoint"] = inbox["checkpoint"]
      BY <3>1, <3>2, TakeFromBox
    <3>14. units <= Asked /\ Asked' = Asked - units
      BY <3>3, <3>4, <3>7, <3>13, SMTT(60) DEF Asked
    <3>15. DOMAIN deposits' \subseteq Nat
      BY <3>1, <3>5
    <3>16. CountsInv'
      BY <3>10, <3>12, <3>13, <3>15 DEF CountsInv
    <3>17. CountedAssign
      BY <2>1, <3>7, <3>10, <3>12, <3>13, <3>14 DEF CountedAssign, Vault, Owed, Reported
    <3> QED
      BY <3>16, <3>17 DEF Counted
  <2> QED
    BY <2>1, <2>2, <2>3
<1>main. ASSUME BridgeInv, CountsInv, BridgeNext
         PROVE  Counted
  <2> USE <1>main
  <2>1. CASE SkipBridgeTx
    <3>1. UNCHANGED bridgeVars /\ inbox' = inbox /\ stage' = stage
      BY <2>1 DEF SkipBridgeTx, Panic, BridgeTxHandled
    <3> QED
      BY <3>1, UncountedStep DEF bridgeVars
  <2>2. CASE RemoveOperator
    <3>1. /\ deposits' = deposits /\ assignments' = assignments /\ fulfilled' = fulfilled
          /\ inbox' = inbox /\ stage' = stage
      BY <2>2 DEF RemoveOperator, Panic, BridgeTxHandled
    <3> QED
      BY <3>1, UncountedStep
  <2>3. CASE TxsDone("bridge", "bridge_expired") /\ UNCHANGED bridgeVars
    <3>1. inbox' = inbox /\ stage' = "bridge_expired"
      BY <2>3 DEF TxsDone
    <3>2. stage' \notin {"bridge_msgs", "export", "idle"}
      BY <3>1
    <3> QED
      BY <2>3, <3>1, <3>2, UncountedStep DEF bridgeVars
  <2>4. CASE apply_operator_set_update
    <3>1. /\ deposits' = deposits /\ assignments' = assignments /\ fulfilled' = fulfilled
          /\ BridgeMsgReady("UpdateOperatorSet")
          /\ BridgeMsgHandled \/ (inbox' = inbox /\ stage' = stage)
      BY <2>4 DEF apply_operator_set_update, Panic
    <3>2. "UpdateOperatorSet" # "DispatchWithdrawal"
      OBVIOUS
    <3> QED
      BY <3>1, <3>2, UncountedStep, <1>MsgUncounted
  <2>5. CASE update_safe_harbor_address \/ activate_safe_harbor
    <3>1. /\ deposits' = deposits /\ assignments' = assignments /\ fulfilled' = fulfilled
          /\ BridgeMsgReady("UpdateSafeHarborAddress") \/ BridgeMsgReady("Defcon")
          /\ BridgeMsgHandled
      BY <2>5 DEF update_safe_harbor_address, activate_safe_harbor
    <3>2. "UpdateSafeHarborAddress" # "DispatchWithdrawal" /\ "Defcon" # "DispatchWithdrawal"
      OBVIOUS
    <3> QED
      BY <3>1, <3>2, <1>MsgUncounted
  <2>6. CASE MsgsDone("bridge", "bridge_msgs", "export") /\ UNCHANGED bridgeVars
    <3>1. inbox' = inbox /\ stage' = "export" /\ stage = "bridge_msgs" /\ inbox["bridge"] = <<>>
      BY <2>6 DEF MsgsDone, Running
    <3> QED
      BY <2>6, <3>1, UncountedStep DEF bridgeVars
  <2> QED
    BY <2>1, <2>2, <2>3, <2>4, <2>5, <2>6, <1>DepositCounted, <1>PayCounted, <1>ReassignUncounted,
       <1>AssignCounted DEF BridgeNext
<1> QED
  BY <1>main

-----------------------------------------------------------------------------
(* An operator that is never removed.                                      *)

\* The operator h is in every recorded configuration.
Steady(table, h) ==
  \A i \in DOMAIN table.historical_nn_scripts : is_active(table.historical_nn_scripts[i].operators, h)

-----------------------------------------------------------------------------
(* No step of the bridge panics.                                           *)

\* What the operators and administrators keep to: the operator table does not outgrow its
\* index space, and the operator h is never removed (the 1/N honesty assumption).
HonestKept(h) ==
  /\ Len(op_table.operators) <= NoSelection
  /\ BridgeTxReady /\ RemovalAccepted(BridgeTx) => BridgeTx.aux[2] # h
  /\ BridgeMsgReady("UpdateOperatorSet") =>
       LET change == NextMsg("bridge")[2]
       IN  /\ Len(Membership(op_table, change.add_members, change.remove_members).operators) <= NoSelection
           /\ h \notin Range(change.remove_members)

\* The bridge keeps running, and the operator h keeps its place.
LEMMA BridgeRuns ==
  \A h \in Nat :
         /\ BridgeInv
         /\ CountsInv
         /\ Steady(op_table, h)
         /\ HonestKept(h)
         /\ Asked <= Vault
         /\ IsList(relevant["bridge"])
         /\ ~halted
         /\ (stage = "bridge" => \A tx \in Range(relevant["bridge"]) : Fed(tx) /\ BridgeServed(tx, aux))
         /\ BridgeNext
      => ~halted' /\ Steady(op_table', h)
\* apply_membership_changes: an operator that is not removed keeps its bit.
<1>BitKept. ASSUME NEW table, NEW add, NEW drop, IsList(add), Members(table.operators, InitialActive(table)),
                   NEW h \in Nat, is_active(InitialActive(table), h), h \notin Range(drop)
            PROVE  is_active(Membership(table, add, drop).active, h)
  <2> USE <1>BitKept
  <2> DEFINE act == InitialActive(table)
             added == add_operators(table.operators, act, add)
             kept == remove_operators(added, drop)
  <2>1. h + 1 \in DOMAIN act /\ act[h + 1]
    BY DEF is_active
  <2>2. Grown(act, added.active)
    BY AddOperatorsGrow
  <2>3. h + 1 \in DOMAIN added.active /\ added.active[h + 1] = act[h + 1]
    BY <2>1, <2>2 DEF Grown
  <2>4. (h + 1) - 1 = h
    BY SMTT(60)
  <2>5. kept[h + 1] = (added.active[h + 1] /\ ~((h + 1) - 1 \in Range(drop) /\ h + 1 \in DOMAIN added.operators))
        /\ DOMAIN kept = DOMAIN added.active
    BY <2>3 DEF remove_operators
  <2>6. h + 1 \in DOMAIN kept /\ kept[h + 1]
    BY <2>1, <2>3, <2>4, <2>5
  <2>7. Membership(table, add, drop).active = kept
    BY DEF Membership
  <2> QED
    BY <2>6, <2>7 DEF is_active
\* So an operator set that operator is never removed from is never emptied.
<1>SteadyKept. ASSUME NEW table, TableInv(table), NEW add, NEW drop, IsList(add),
                      NEW h \in Nat, Steady(table, h), h \notin Range(drop)
               PROVE  /\ Len(Membership(table, add, drop).operators) <= NoSelection => ~membership_panics(table, add, drop)
                      /\ Steady(apply_membership_changes(table, add, drop), h)
  <2> USE <1>SteadyKept
  <2> DEFINE past == table.historical_nn_scripts
             act == InitialActive(table)
             new == Membership(table, add, drop)
             after == apply_membership_changes(table, add, drop)
  <2>1. /\ IsList(table.operators) /\ IsInjective(table.operators)
        /\ IsList(past) /\ past # <<>> /\ Len(Last(past).operators) = Len(table.operators)
        /\ \A i \in DOMAIN past : ConfigOf(past[i], table.operators)
    BY DEF TableInv, ConfigsInv
  <2>2. act = Last(past).operators
    BY <2>1 DEF InitialActive, current_multisig, current_nn_script
  <2>3. Len(past) \in DOMAIN past /\ Last(past) = past[Len(past)]
    BY <2>1, LastOfList
  <2>4. act \in Seq(BOOLEAN) /\ is_active(act, h)
    BY <2>1, <2>2, <2>3 DEF ConfigOf, Steady
  <2>5. Members(table.operators, act)
    BY <2>1, <2>2, <2>4 DEF Members
  <2>6. is_active(new.active, h)
    BY <2>4, <2>5, <1>BitKept
  <2>7. active_indices(new.active) # {}
    BY <2>6 DEF is_active, active_indices
  <2>8. Steady(after, h)
    <3>1. CASE new.active = act
      <4>1. after.historical_nn_scripts = past
        BY <3>1, SMTT(60) DEF apply_membership_changes
      <4> QED
        BY <4>1 DEF Steady
    <3>2. CASE new.active # act
      <4> DEFINE config == HistoricalNnScript(build_nn_script(calculate_aggregated_key(new.operators, new.active)),
                                              new.active)
      <4>1. after.historical_nn_scripts = Append(past, config)
        <5>1. after = record_nn_script(table, new.operators, new.active)
          BY <3>2 DEF apply_membership_changes
        <5> HIDE DEF after, new
        <5> QED
          BY <5>1  DEF record_nn_script
      <4>2. config.operators = new.active
        BY DEF HistoricalNnScript
      <4> HIDE DEF config
      <4>3. /\ Append(past, config)[Len(past) + 1] = config
            /\ \A i \in 1 .. Len(past) : Append(past, config)[i] = past[i]
            /\ DOMAIN past = 1 .. Len(past) /\ Len(past) \in Nat
            /\ Len(Append(past, config)) = Len(past) + 1 /\ IsList(Append(past, config))
        BY <2>1, ListAppend, ListDomain, SMTT(60)
      <4>4. DOMAIN Append(past, config) = 1 .. Len(past) + 1
        BY <4>3, ListDomain
      <4> SUFFICES ASSUME NEW i \in 1 .. Len(past) + 1 PROVE is_active(Append(past, config)[i].operators, h)
        BY <4>1, <4>4 DEF Steady
      <4>5. i \in 1 .. Len(past) \/ i = Len(past) + 1
        BY <4>3, SMTT(60)
      <4> QED
        BY <2>6, <4>2, <4>3, <4>5 DEF Steady
    <3> QED
      BY <3>1, <3>2
  <2>9. Len(new.operators) <= NoSelection => ~membership_panics(table, add, drop)
    <3> SUFFICES ASSUME Len(new.operators) <= NoSelection, Len(new.operators) > NoSelection PROVE FALSE
      BY <2>7 DEF membership_panics
    <3>1. Members(new.operators, new.active)
      BY <2>5, MembershipFacts
    <3>2. Len(new.operators) \in Nat
      BY <3>1, ListDomain DEF Members
    <3> HIDE DEF new
    <3> QED
      BY <3>2, BridgeTypesAssumption, SMTT(60)
  <2> QED
    BY <2>8, <2>9
\* create and reassign: the lengths of the bitmaps agree.
<1>SteadyBits. ASSUME NEW table, TableInv(table), NEW h \in Nat, Steady(table, h), NEW k, IsNotary(table, k)
               PROVE  /\ NotarySet(table, k) \in Seq(BOOLEAN) /\ current_multisig(table) \in Seq(BOOLEAN)
                      /\ Len(NotarySet(table, k)) \in Nat /\ Len(NotarySet(table, k)) <= Len(current_multisig(table))
                      /\ h + 1 \in 1 .. Len(NotarySet(table, k))
                      /\ NotarySet(table, k)[h + 1] = TRUE /\ current_multisig(table)[h + 1] = TRUE
  <2> USE <1>SteadyBits
  <2> DEFINE past == table.historical_nn_scripts
             notary == NotarySet(table, k)
             active == current_multisig(table)
  <2>1. /\ IsList(past) /\ past # <<>>
        /\ \A i, j \in DOMAIN past : i <= j => Shrunk(past[i].operators, past[j].operators)
    BY DEF TableInv, ConfigsInv
  <2>2. /\ DOMAIN past = 1 .. Len(past) /\ Len(past) \in Nat /\ Len(past) \in DOMAIN past
        /\ Last(past) = past[Len(past)]
    BY <2>1, LastOfList, ListDomain
  <2>3. k + 1 \in DOMAIN past /\ notary = past[k + 1].operators /\ active = past[Len(past)].operators
    BY <2>2 DEF IsNotary, NotarySet, nn_script, current_multisig, current_nn_script
  <2>4. notary \in Seq(BOOLEAN) /\ active \in Seq(BOOLEAN)
    BY Configs
  <2>5. k + 1 <= Len(past)
    BY <2>2, <2>3, SMTT(60)
  <2>6. Shrunk(notary, active)
    BY <2>1, <2>2, <2>3, <2>5
  <2>7. is_active(notary, h) /\ is_active(active, h)
    BY <2>2, <2>3 DEF Steady
  <2> HIDE DEF notary, active
  <2>8. Len(notary) \in Nat /\ DOMAIN notary = 1 .. Len(notary) /\ Len(notary) <= Len(active)
        /\ \A i \in DOMAIN notary : notary[i] \in BOOLEAN
    BY <2>4, <2>6, SMTT(60) DEF Shrunk
  <2>9. \A i \in DOMAIN active : active[i] \in BOOLEAN
    BY <2>4, SMTT(60)
  <2> QED
    BY <2>4, <2>7, <2>8, <2>9 DEF is_active, notary, active
\* An operator in the notary set and active, and not tried, is eligible.
<1>EligibleIs. ASSUME NEW notary \in Seq(BOOLEAN), NEW previous, NEW active, NEW h \in Nat, h + 1 \in 1 .. Len(notary),
                      notary[h + 1] = TRUE, active[h + 1] = TRUE, previous[h + 1] = FALSE
               PROVE  h \in select_random_operator(filter_eligible_operators(notary, previous, active))
  <2> USE <1>EligibleIs
  <2> DEFINE eligible == [i \in 1 .. Len(notary) |-> active[i] /\ notary[i] /\ ~previous[i]]
  <2>1. h + 1 \in DOMAIN eligible /\ eligible[h + 1]
    OBVIOUS
  <2>2. (h + 1) - 1 = h
    BY SMTT(60)
  <2>3. h \in active_indices(eligible)
    <3> HIDE DEF eligible
    <3> QED
      BY <2>1, <2>2 DEF active_indices
  <2> QED
    BY <2>3 DEF select_random_operator, filter_eligible_operators
\* create: a deposit always finds an operator.
<1>CanCreate. ASSUME NEW table, TableInv(table), NEW h \in Nat, Steady(table, h), NEW d, NEW deposit,
                     DepositOf(d, deposit, table), NEW intent, NEW fee, NEW deadline
              PROVE  create(deposit, intent, fee, deadline, NotarySet(table, deposit.notary_set),
                            current_multisig(table)) # {}
  <2> USE <1>CanCreate
  <2> DEFINE notary == NotarySet(table, deposit.notary_set)
             active == current_multisig(table)
             previous == new_with_size(Len(notary), FALSE)
             eligible == filter_eligible_operators(notary, previous, active)
             preferred == {i \in as_specific(intent.selected_operator) : is_active(eligible, i)}
             assignees == IF preferred # {} THEN preferred ELSE select_random_operator(eligible)
  <2>1. IsNotary(table, deposit.notary_set)
    BY DEF DepositOf
  <2>2. /\ notary \in Seq(BOOLEAN) /\ active \in Seq(BOOLEAN)
        /\ Len(notary) \in Nat /\ Len(notary) <= Len(active)
        /\ h + 1 \in 1 .. Len(notary) /\ notary[h + 1] = TRUE /\ active[h + 1] = TRUE
    BY <2>1, <1>SteadyBits
  <2> HIDE DEF notary, active
  <2>3. /\ previous \in Seq(BOOLEAN) /\ Len(previous) = Len(notary)
        /\ \A i \in DOMAIN previous : ~previous[i]
    BY <2>2, Cleared
  <2>4. previous[h + 1] = FALSE
    <3>1. h + 1 \in DOMAIN previous /\ previous[h + 1] \in BOOLEAN
      <4> HIDE DEF previous
      <4> QED
        BY <2>2, <2>3, SMTT(60)
    <3> QED
      BY <2>3, <3>1
  <2> HIDE DEF previous
  <2>5. h \in select_random_operator(eligible)
    BY <2>2, <2>4, <1>EligibleIs
  <2>6. assignees # {}
    <3> HIDE DEF eligible
    <3> QED
      BY <2>5
  <2>7. can_filter(notary, previous, active)
    BY <2>2, <2>3  DEF can_filter
  <2>8. create(deposit, intent, fee, deadline, notary, active) =
          {AssignmentEntry(deposit, to_output(intent), fee, a, previous, deadline) : a \in assignees}
    BY <2>7 DEF create, previous
  <2> HIDE DEF assignees
  <2> QED
    BY <2>6, <2>8 DEF notary, active
\* reassign: an expired assignment always finds an operator.
<1>CanReassign. ASSUME NEW table, TableInv(table), NEW h \in Nat, Steady(table, h), NEW d, NEW before,
                       EntryOf(d, before, table), NEW deadline
                PROVE  reassign(before, deadline, NotarySet(table, before.deposit_entry.notary_set),
                                current_multisig(table)) # {}
  <2> USE <1>CanReassign
  <2> DEFINE notary == NotarySet(table, before.deposit_entry.notary_set)
             active == current_multisig(table)
             old == before.previous_assignees
             c == before.current_assignee
             tried == try_set(old, c, TRUE)
             untried == filter_eligible_operators(notary, tried, active)
             cleared == new_with_size(Len(notary), FALSE)
             previous == IF active_indices(untried) # {} THEN tried ELSE cleared
             eligible == filter_eligible_operators(notary, previous, active)
  <2>1. IsNotary(table, before.deposit_entry.notary_set) /\ AssigneeOf(before, notary)
    BY DEF EntryOf, DepositOf
  <2>2. /\ notary \in Seq(BOOLEAN) /\ active \in Seq(BOOLEAN)
        /\ Len(notary) \in Nat /\ Len(notary) <= Len(active)
        /\ h + 1 \in 1 .. Len(notary) /\ notary[h + 1] = TRUE /\ active[h + 1] = TRUE
    BY <2>1, <1>SteadyBits
  <2> HIDE DEF notary, active
  <2>3. old \in Seq(BOOLEAN) /\ Len(old) = Len(notary) /\ c \in Nat /\ c + 1 \in DOMAIN notary
    BY <2>1 DEF AssigneeOf, is_active
  <2> HIDE DEF old, c
  <2>4. c + 1 \in 1 .. Len(old) /\ can_set(old, c)
    BY <2>2, <2>3, SMTT(60) DEF can_set
  <2>5. Len(tried) = Len(notary)
    BY <2>3, <2>4, Marked
  <2>6. /\ cleared \in Seq(BOOLEAN) /\ Len(cleared) = Len(notary)
        /\ \A i \in DOMAIN cleared : ~cleared[i]
    BY <2>2, Cleared
  <2> HIDE DEF tried, cleared
  <2>7. cleared[h + 1] = FALSE
    <3>1. h + 1 \in DOMAIN cleared /\ cleared[h + 1] \in BOOLEAN
      BY <2>2, <2>6, SMTT(60)
    <3> QED
      BY <2>6, <3>1
  <2>8. select_random_operator(eligible) # {}
    <3>1. CASE active_indices(untried) # {}
      BY <3>1 DEF select_random_operator
    <3>2. CASE active_indices(untried) = {}
      <4>1. previous = cleared
        BY <3>2
      <4> HIDE DEF previous
      <4> QED
        BY <2>2, <2>7, <4>1, <1>EligibleIs
    <3> QED
      BY <3>1, <3>2
  <2>9. can_filter(notary, tried, active)
    BY <2>2, <2>5  DEF can_filter
  <2>10. reassign(before, deadline, notary, active) =
           {[before EXCEPT !.current_assignee = a, !.previous_assignees = previous,
                           !.fulfillment_deadline = deadline] : a \in select_random_operator(eligible)}
    BY <2>4, <2>9 DEF reassign, tried, cleared, old, c
  <2> HIDE DEF eligible, previous
  <2> QED
    BY <2>8, <2>10 DEF notary, active
\* oldest_deposits: when there are n deposits, n are found.
<1>OldestEnough. ASSUME NEW deps, IsFiniteSet(DOMAIN deps), DOMAIN deps \subseteq Nat, NEW n \in Nat,
                        n <= Cardinality(DOMAIN deps)
                 PROVE  Cardinality(oldest_deposits(deps, n)) = n
  <2> USE <1>OldestEnough
  <2> DEFINE D == DOMAIN deps
             B(k) == oldest_deposits(deps, k)
             below(d) == {e \in D : e < d}
             P == {k \in 0 .. n : Cardinality(B(k)) = k}
  <2>1. \A k \in Nat : /\ B(k) \subseteq D /\ IsFiniteSet(B(k)) /\ Cardinality(B(k)) \in Nat
                       /\ Cardinality(B(k)) <= k
    BY OldestBound
  <2>2. Cardinality(D) \in Nat /\ IsFiniteSet(D) /\ D \subseteq Nat /\ n <= Cardinality(D)
    BY FS_CardinalityType
  <2>3. \A k, d : d \in B(k) <=> d \in D /\ Cardinality(below(d)) < k
    BY DEF oldest_deposits
  <2> HIDE DEF D, B
  <2>4. 0 \in P
    BY <2>1, SMTT(60)
  <2>5. ASSUME NEW k \in 0 .. n - 1, k \in P PROVE k + 1 \in P
    <3>1. Cardinality(B(k)) = k /\ k \in Nat /\ k + 1 \in 0 .. n /\ k + 1 \in Nat /\ k < Cardinality(D)
      BY <2>2, <2>5, SMTT(60)
    <3>2. B(k) # D
      BY <2>2, <3>1, SMTT(60)
    <3>3. D \ B(k) # {} /\ D \ B(k) \in SUBSET Nat
      BY <2>1, <2>2, <3>1, <3>2
    <3>4. PICK x \in D \ B(k) : \A y \in D \ B(k) : x <= y
      BY <3>3, LeastElement
    <3>5. \A e \in D : e < x => e \in B(k)
      BY <2>2, <3>4, SMTT(60)
    <3>6. below(x) \subseteq B(k)
      BY <3>5
    <3>7. Cardinality(below(x)) <= Cardinality(B(k)) /\ IsFiniteSet(below(x))
      BY <2>1, <3>1, <3>6, FS_Subset
    <3>8. Cardinality(below(x)) \in Nat
      BY <3>7, FS_CardinalityType
    <3>9. Cardinality(below(x)) < k + 1
      <4> HIDE DEF below
      <4> QED
        BY <3>1, <3>7, <3>8, SMTT(60)
    <3>10. \A d \in B(k) : d \in B(k + 1)
      <4> TAKE d \in B(k)
      <4>1. below(d) \subseteq D
        OBVIOUS
      <4>2. Cardinality(below(d)) \in Nat
        BY <2>2, <4>1, FS_Subset, FS_CardinalityType
      <4>3. Cardinality(below(d)) < k /\ d \in D
        BY <2>3
      <4>4. Cardinality(below(d)) < k + 1
        <5> HIDE DEF below
        <5> QED
          BY <3>1, <4>2, <4>3, SMTT(60)
      <4> QED
        BY <2>3, <4>3, <4>4
    <3>11. x \in B(k + 1) /\ x \notin B(k)
      BY <2>3, <3>4, <3>9
    <3>12. B(k) \cup {x} \subseteq B(k + 1)
      BY <3>10, <3>11
    <3>13. Cardinality(B(k) \cup {x}) = k + 1
      BY <2>1, <3>1, <3>11, FS_AddElement
    <3>14. k + 1 <= Cardinality(B(k + 1)) /\ Cardinality(B(k + 1)) <= k + 1 /\ Cardinality(B(k + 1)) \in Nat
      <4>1. /\ IsFiniteSet(B(k + 1)) /\ Cardinality(B(k + 1)) \in Nat /\ Cardinality(B(k + 1)) <= k + 1
        BY <2>1, <3>1
      <4>2. Cardinality(B(k) \cup {x}) <= Cardinality(B(k + 1))
        BY <3>12, <4>1, FS_Subset
      <4> QED
        BY <3>13, <4>1, <4>2
    <3> QED
      BY <3>1, <3>14, SMTT(60)
  <2>6. \A k \in 0 .. n : k \in P
    <3> HIDE DEF P
    <3> QED
      BY <2>4, <2>5, UpTo
  <2>7. n \in 0 .. n
    BY SMTT(60)
  <2> QED
    BY <2>6, <2>7 DEF B
\* A transaction parses as one kind (parse_tx).
<1>OneKind. ASSUME NEW tx
            PROVE  /\ ~(IsDeposit(tx) /\ IsSlash(tx)) /\ ~(IsDeposit(tx) /\ IsUnstake(tx))
                   /\ ~(IsSlash(tx) /\ IsUnstake(tx))
  <2>1. "Deposit" # "Slash" /\ "Deposit" # "Unstake" /\ "Slash" # "Unstake"
    OBVIOUS
  <2> QED
    BY <2>1 DEF IsDeposit, IsSlash, IsUnstake, ParsesAs
\* handle_parsed_tx finds what preprocess_parsed_tx asked for.
<1>ServedTx. ASSUME NEW tx, Fed(tx), BridgeServed(tx, aux)
             PROVE  ~BridgeAuxMissing(tx)
  <2> USE <1>ServedTx
  <2>1. \A i \in DOMAIN tx.ins : /\ tx.ins[i].txid \in DOMAIN L1Txs
                                 /\ tx.ins[i].vout + 1 \in DOMAIN L1Txs[tx.ins[i].txid].outs
    BY DEF Fed, SpendsExisting
  <2>2. /\ ~(IsDeposit(tx) /\ IsSlash(tx)) /\ ~(IsDeposit(tx) /\ IsUnstake(tx))
        /\ ~(IsSlash(tx) /\ IsUnstake(tx))
    BY <1>OneKind
  <2>6. CASE IsDeposit(tx)
    <3>1. DepositInfo(tx).drt_inpoint.txid \in aux.txs
      BY <2>2, <2>6  DEF BridgeServed, preprocess_parsed_tx
    <3> QED
      BY <2>2, <2>6, <3>1  DEF BridgeAuxMissing, has_bitcoin_tx
  <2>3. CASE ~IsDeposit(tx) /\ IsSlash(tx)
    <3>1. SlashInfo(tx).stake_inpoint.txid \in aux.txs
      BY <2>2, <2>3  DEF BridgeServed, preprocess_parsed_tx
    <3>2. SlashInfo(tx).stake_inpoint = tx.ins[SLASH_STAKE_INPUT_INDEX + 1]
      BY DEF SlashInfo, InputAt
    <3>3. SLASH_STAKE_INPUT_INDEX + 1 \in DOMAIN tx.ins
      BY <2>3 DEF IsSlash, parse_slash_tx, HasInput
    <3>4. has_bitcoin_txout(SlashInfo(tx).stake_inpoint)
      BY <2>1, <3>1, <3>2, <3>3 DEF has_bitcoin_txout, has_bitcoin_tx
    <3> QED
      BY <2>2, <2>3, <3>4  DEF BridgeAuxMissing
  <2>4. CASE ~IsDeposit(tx) /\ ~IsSlash(tx) /\ IsUnstake(tx)
    <3>1. UnstakeInfo(tx).stake_inpoint.txid \in aux.txs
      BY <2>4  DEF BridgeServed, preprocess_parsed_tx
    <3>2. UnstakeInfo(tx).stake_inpoint = tx.ins[UNSTAKE_STAKE_INPUT_INDEX + 1]
      BY DEF UnstakeInfo, InputAt
    <3>3. UNSTAKE_STAKE_INPUT_INDEX + 1 \in DOMAIN tx.ins
      BY <2>4 DEF IsUnstake, parse_unstake_tx, HasInput
    <3>4. has_bitcoin_txout(UnstakeInfo(tx).stake_inpoint)
      BY <2>1, <3>1, <3>2, <3>3 DEF has_bitcoin_txout, has_bitcoin_tx
    <3> QED
      BY <2>4, <3>4  DEF BridgeAuxMissing
  <2>5. CASE ~IsDeposit(tx) /\ ~IsSlash(tx) /\ ~IsUnstake(tx)
    BY <2>5  DEF BridgeAuxMissing
  <2> QED
    BY <2>3, <2>4, <2>5, <2>6
\* handle_withdrawal_fulfillment: an assignee is an operator of the table.
<1>AssigneeKnown. ASSUME BridgeInv, NEW d \in DOMAIN assignments
                  PROVE  known_operator(op_table, assignments[d].current_assignee)
  <2> USE <1>AssigneeKnown
  <2> DEFINE entry == assignments[d]
             k == entry.deposit_entry.notary_set
             notary == NotarySet(op_table, k)
             a == entry.current_assignee
  <2>1. IsNotary(op_table, k) /\ is_active(notary, a) /\ a \in Nat
    BY DEF BridgeInv, Assigned, EntryOf, DepositOf, AssigneeOf
  <2>2. notary \in Seq(BOOLEAN) /\ Len(notary) <= Len(op_table.operators) /\ IsList(op_table.operators)
    BY <2>1 DEF BridgeInv, TableInv, ConfigsInv, ConfigOf, IsNotary, NotarySet, nn_script
  <2>3. DOMAIN op_table.operators = 1 .. Len(op_table.operators) /\ Len(op_table.operators) \in Nat
    BY <2>2, ListDomain
  <2>4. a + 1 \in DOMAIN notary
    BY <2>1 DEF is_active
  <2> HIDE DEF notary, a
  <2>5. a + 1 \in DOMAIN op_table.operators
    BY <2>2, <2>3, <2>4, SMTT(60)
  <2> QED
    BY <2>5 DEF known_operator, a
\* create_withdrawal_assignment: the deposits that back a withdrawal are there, are of the one
\* denomination and are not promised twice, and each finds an operator.
<1>DispatchSucceeds. ASSUME BridgeInv, CountsInv, NEW h \in Nat, Steady(op_table, h), Asked <= Vault,
                            inbox["bridge"] # <<>>, NextMsg("bridge")[1] = "DispatchWithdrawal"
                     PROVE  LET intent == NextMsg("bridge")[2]
                                units == denomination_units(intent, denomination)
                            IN  ~DispatchFails(intent, units, oldest_deposits(deposits, units))
  <2> USE <1>DispatchSucceeds
  <2> DEFINE msg == NextMsg("bridge")
             intent == msg[2]
             units == denomination_units(intent, denomination)
             backing == oldest_deposits(deposits, units)
  <2>1. /\ IsFiniteSet(DOMAIN deposits) /\ DOMAIN deposits \subseteq Nat /\ BridgeBox(inbox["bridge"])
    BY DEF CountsInv, BoxesInv
  <2>2. BridgeMsg(msg) /\ msg = Head(inbox["bridge"])
    BY <2>1, FirstMsg DEF NextMsg
  <2>3. has_units(intent, denomination)
    BY <2>2 DEF BridgeMsg
  <2>4. units \in Nat /\ units <= Vault
    <3>1. UnitCount(msg) = units /\ UnitCount(msg) \in Nat
      BY <2>2, UnitsNat DEF UnitCount
    <3>2. BridgeBox(Tail(inbox["bridge"]))
      BY <2>1, BoxesOf
    <3>3. Asked = UnitCount(msg) + UnitsIn(Tail(inbox["bridge"])) /\ UnitsIn(Tail(inbox["bridge"])) \in Nat
      BY <2>1, <2>2, <3>2, UnitsInFlight  DEF Asked
    <3>4. Vault \in Nat
      BY <2>1, FS_CardinalityType DEF Vault
    <3> HIDE DEF units, msg
    <3> QED
      BY <3>1, <3>3, <3>4, SMTT(60)
  <2> HIDE DEF units, intent
  <2>5. Cardinality(backing) = units /\ backing \subseteq DOMAIN deposits
    BY <2>1, <2>4, <1>OldestEnough, OldestBound DEF Vault
  <2>6. ~(Cardinality(backing) < units)
    BY <2>4, <2>5, SMTT(60)
  <2>7. ASSUME NEW d \in backing
        PROVE  /\ deposits[d].amt = denomination /\ d \notin DOMAIN assignments
               /\ build_assignment(d, intent) # {}
    <3>1. d \in DOMAIN deposits
      BY <2>5
    <3>2. DepositOf(d, deposits[d], op_table) /\ d \notin DOMAIN assignments /\ TableInv(op_table)
      BY <3>1 DEF BridgeInv, Backed
    <3>3. build_assignment(d, intent) # {}
      BY <3>2, <1>CanCreate DEF build_assignment, NotarySet
    <3> QED
      BY <3>2, <3>3 DEF DepositOf
  <2> HIDE DEF backing
  <2>8. ~DispatchFails(intent, units, backing)
    BY <2>3, <2>6, <2>7 DEF DispatchFails, has_assignment
  <2> QED
    BY <2>8 DEF backing, units, intent, msg
\* The operators of a table and its current bitmap fit together.
<1>TableMembers. ASSUME NEW table, TableInv(table)
                 PROVE  Members(table.operators, InitialActive(table))
  <2> USE <1>TableMembers
  <2> DEFINE past == table.historical_nn_scripts
  <2>1. /\ IsList(table.operators) /\ IsInjective(table.operators)
        /\ IsList(past) /\ past # <<>> /\ Len(Last(past).operators) = Len(table.operators)
        /\ \A i \in DOMAIN past : ConfigOf(past[i], table.operators)
    BY DEF TableInv, ConfigsInv
  <2>2. InitialActive(table) = Last(past).operators
    BY <2>1 DEF InitialActive, current_multisig, current_nn_script
  <2>3. Last(past).operators \in Seq(BOOLEAN)
    BY <2>1, LastOfList DEF ConfigOf
  <2> QED
    BY <2>1, <2>2, <2>3 DEF Members
<1>main. ASSUME BridgeInv, CountsInv, NEW h \in Nat, Steady(op_table, h), HonestKept(h), Asked <= Vault,
                IsList(relevant["bridge"]), ~halted,
                stage = "bridge" => \A tx \in Range(relevant["bridge"]) : Fed(tx) /\ BridgeServed(tx, aux),
                BridgeNext
         PROVE  ~halted' /\ Steady(op_table', h)
  <2> USE <1>main
  <2>1. ASSUME BridgeTxReady PROVE ~BridgeAuxMissing(BridgeTx)
    <3>1. stage = "bridge" /\ relevant["bridge"] # <<>>
      BY <2>1 DEF BridgeTxReady, Running
    <3>2. BridgeTx \in Range(relevant["bridge"])
      BY <3>1, FirstOfList DEF BridgeTx, NextTx
    <3> QED
      BY <3>1, <3>2, <1>ServedTx
  <2>2. ASSUME UNCHANGED <<halted, op_table>> PROVE ~halted' /\ Steady(op_table', h)
    BY <2>2
  <2>3. CASE SkipBridgeTx
    BY <2>1, <2>2, <2>3 DEF SkipBridgeTx, BridgeTxHandled, bridgeVars
  <2>4. CASE AddDeposit
    BY <2>2, <2>4 DEF AddDeposit, BridgeTxHandled
  <2>5. CASE FulfillWithdrawal
    <3> DEFINE idx == WithdrawalFulfillmentInfo(BridgeTx).deposit_idx
    <3>1. idx \in DOMAIN assignments
      BY <2>5 DEF FulfillWithdrawal, FulfillmentAccepted, validate_withdrawal_fulfillment_info,
         has_assignment
    <3>2. known_operator(op_table, assignments[idx].current_assignee)
      BY <3>1, <1>AssigneeKnown
    <3> QED
      BY <2>2, <2>5, <3>2 DEF FulfillWithdrawal, BridgeTxHandled
  <2>6. IsList(<<>>)
    <3>1. <<>> \in Seq({})
      BY SMTT(60)
    <3> QED
      BY <3>1, ListOfRange
  <2>7. TableInv(op_table)
    BY DEF BridgeInv
  <2>8. CASE RemoveOperator
    <3> DEFINE idx == BridgeTx.aux[2]
               new == Membership(op_table, <<>>, <<idx>>)
    <3>1. idx # h
      BY <2>8 DEF RemoveOperator, HonestKept
    <3>2. h \notin Range(<<idx>>)
      BY <3>1, SMTT(60) DEF Range
    <3>3. new.operators = op_table.operators
      <4> DEFINE act == InitialActive(op_table)
                 added == add_operators(op_table.operators, act, <<>>)
      <4>1. Members(op_table.operators, act)
        BY <2>7, <1>TableMembers
      <4>2. PICK f : Additions(op_table.operators, act, <<>>, f) /\ added = f[Len(<<>>)]
        BY <2>6, <4>1, AddOperatorsSteps
      <4>3. Len(<<>>) = 0
        OBVIOUS
      <4>4. added.operators = op_table.operators
        BY <4>2, <4>3, SMTT(60) DEF Additions
      <4> HIDE DEF added
      <4>5. new = [operators |-> added.operators, active |-> remove_operators(added, <<idx>>)]
        BY DEF Membership, added
      <4> QED
        BY <4>4, <4>5, SMTT(60)
    <3>4. Len(new.operators) <= NoSelection
      BY <3>3 DEF HonestKept
    <3>5. /\ ~membership_panics(op_table, <<>>, <<idx>>)
          /\ Steady(apply_membership_changes(op_table, <<>>, <<idx>>), h)
      BY <2>6, <2>7, <3>2, <3>4, <1>SteadyKept
    <3> QED
      BY <2>8, <3>5 DEF RemoveOperator, BridgeTxHandled
  <2>9. CASE reassign_expired_assignments
    <3>1. ASSUME NEW d \in ExpiredAssignments(assignments, height) PROVE Reassigned(d) # {}
      <4>1. d \in DOMAIN assignments
        BY <3>1 DEF ExpiredAssignments
      <4>2. EntryOf(d, assignments[d], op_table)
        BY <4>1 DEF BridgeInv, Assigned
      <4> QED
        BY <2>7, <4>2, <1>CanReassign DEF Reassigned, NotarySet
    <3> QED
      BY <2>2, <2>9, <3>1 DEF reassign_expired_assignments
  <2>10. CASE create_withdrawal_assignment
    <3>1. inbox["bridge"] # <<>> /\ NextMsg("bridge")[1] = "DispatchWithdrawal"
      BY <2>10 DEF create_withdrawal_assignment, BridgeMsgReady
    <3>2. LET intent == NextMsg("bridge")[2]
              units == denomination_units(intent, denomination)
          IN  ~DispatchFails(intent, units, oldest_deposits(deposits, units))
      BY <3>1, <1>DispatchSucceeds
    <3> QED
      BY <2>2, <2>10, <3>2 DEF create_withdrawal_assignment, BridgeMsgHandled
  <2>11. CASE apply_operator_set_update
    <3> DEFINE change == NextMsg("bridge")[2]
    <3>1. BridgeMsgReady("UpdateOperatorSet")
      BY <2>11 DEF apply_operator_set_update
    <3>2. /\ Len(Membership(op_table, change.add_members, change.remove_members).operators) <= NoSelection
          /\ h \notin Range(change.remove_members)
      BY <3>1 DEF HonestKept
    <3>3. IsList(change.add_members)
      <4>1. inbox["bridge"] # <<>> /\ NextMsg("bridge")[1] = "UpdateOperatorSet" /\ BridgeBox(inbox["bridge"])
        BY <3>1 DEF BridgeMsgReady, CountsInv, BoxesInv
      <4> QED
        BY <4>1, FirstMsg DEF BridgeMsg, NextMsg
    <3> HIDE DEF change
    <3>4. /\ ~membership_panics(op_table, change.add_members, change.remove_members)
          /\ Steady(apply_membership_changes(op_table, change.add_members, change.remove_members), h)
      BY <2>7, <3>2, <3>3, <1>SteadyKept
    <3> QED
      BY <2>11, <3>4 DEF apply_operator_set_update, BridgeMsgHandled, change
  <2>12. CASE update_safe_harbor_address \/ activate_safe_harbor
    BY <2>2, <2>12 DEF update_safe_harbor_address, activate_safe_harbor, BridgeMsgHandled
  <2>13. CASE TxsDone("bridge", "bridge_expired") /\ UNCHANGED bridgeVars
    BY <2>2, <2>13 DEF TxsDone, bridgeVars
  <2>14. CASE MsgsDone("bridge", "bridge_msgs", "export") /\ UNCHANGED bridgeVars
    BY <2>2, <2>14 DEF MsgsDone, bridgeVars
  <2> QED
    BY <2>3, <2>4, <2>5, <2>8, <2>9, <2>10, <2>11, <2>12, <2>13, <2>14 DEF BridgeNext
<1> QED
  BY <1>main

-----------------------------------------------------------------------------
(* The pool of the checkpoints, and the counts of the peg.                 *)

\* A single message.
LEMMA OneMessage ==
  ASSUME NEW msg
  PROVE  /\ CheckpointMsg(msg) => CheckpointBox(<<msg>>)
         /\ BridgeMsg(msg) => BridgeBox(<<msg>>)
         /\ DepositsIn(<<msg>>) = DepositCount(msg)
         /\ BridgeMsg(msg) => UnitsIn(<<msg>>) = UnitCount(msg)
<1>1. <<msg>> \in Seq({msg})
  BY SMTT(60)
<1>2. DOMAIN <<msg>> = {1} /\ <<msg>>[1] = msg
  BY SMTT(60)
<1>3. <<msg>> # <<>> /\ Head(<<msg>>) = msg /\ Tail(<<msg>>) = <<>>
  BY SMTT(60)
<1>4. IsList(<<msg>>)
  BY <1>1, ListOfRange
<1>5. CheckpointMsg(msg) => CheckpointBox(<<msg>>)
  BY <1>2, <1>4 DEF CheckpointBox
<1>6. BridgeMsg(msg) => BridgeBox(<<msg>>)
  BY <1>2, <1>4 DEF BridgeBox
<1>7. DepositsIn(<<msg>>) = DepositCount(msg)
  <2>1. DepositsIn(<<msg>>) = DepositCount(msg) + DepositsIn(<<>>) /\ DepositCount(msg) \in Nat
    BY <1>3, <1>4, DepositsInFlight
  <2> QED
    BY <2>1, NoneInFlight, SMTT(60)
<1>8. ASSUME BridgeMsg(msg) PROVE UnitsIn(<<msg>>) = UnitCount(msg)
  <2>1. BridgeBox(<<msg>>)
    BY <1>6, <1>8
  <2>2. UnitsIn(<<msg>>) = UnitCount(msg) + UnitsIn(<<>>) /\ UnitCount(msg) \in Nat
    BY <1>3, <2>1, UnitsInFlight
  <2> QED
    BY <2>2, NoneInFlight, SMTT(60)
<1> QED
  BY <1>5, <1>6, <1>7, <1>8

\* The bridge's tables and count are left alone.
LEMMA SameTables ==
  ASSUME CountsInv, UNCHANGED bridgeVars, BoxesInv(inbox', stage'),
         Reported' = Reported, Asked' = Asked
  PROVE  Counted
<1>1. deposits' = deposits /\ assignments' = assignments /\ fulfilled' = fulfilled
  BY DEF bridgeVars
<1>2. CountsInv'
  BY <1>1 DEF CountsInv
<1>3. Uncounted
  BY <1>1 DEF Uncounted, Vault, Owed
<1> QED
  BY <1>2, <1>3 DEF Counted

\* The pool counts deposits of the one denomination of the bridge.
PoolInv(p) ==
  /\ p = [denomination |-> p.denomination, count |-> p.count]
  /\ p.count \in Nat
  /\ p = EmptyPool \/ p.denomination = denomination

\* Withdrawals are ordered against the pool, or a reported deposit joins it.
CountedOrder ==
  \E n \in Nat : /\ n <= pool.count /\ pool'.count = pool.count - n /\ Asked' = Asked + n
                 /\ UNCHANGED <<Vault, Reported, Owed, fulfilled>>
CountedRecord ==
  /\ pool'.count = pool.count + 1 /\ Reported' = Reported - 1
  /\ UNCHANGED <<Vault, Asked, Owed, fulfilled>>

\* What every step does to the pool and to the counts of the bridge.
PegStep ==
  /\ CountsInv' /\ PoolInv(pool')
  /\ \/ pool' = pool /\ (CountedDeposit \/ CountedAssign \/ CountedPay \/ Uncounted)
     \/ CountedOrder
     \/ CountedRecord

\* The pool is left alone.
LEMMA SamePool ==
  ASSUME PoolInv(pool), pool' = pool, Counted
  PROVE  PegStep
BY DEF Counted, PegStep

\* An accepted checkpoint: the withdrawals it orders are covered by the pool, and leave it
\* (verify_withdrawals, apply_withdrawals).
LEMMA OrderCounted ==
     CountsInv /\ PoolInv(pool) /\ AcceptCheckpoint /\ UNCHANGED bridgeVars
      => PegStep
\* The messages an accepted checkpoint sends to the bridge order the units of its intents.
<1>DispatchesWithdrawals. ASSUME NEW payload, OLLogs(payload.sidecar.ol_logs),
                                 \A i \in DOMAIN extract_withdrawal_intents(payload.sidecar.ol_logs) :
                                    has_units(extract_withdrawal_intents(payload.sidecar.ol_logs)[i], denomination)
                          PROVE  /\ BridgeBox(DispatchWithdrawals(payload))
                                 /\ UnitsIn(DispatchWithdrawals(payload)) =
                                      Total([i \in DOMAIN extract_withdrawal_intents(payload.sidecar.ol_logs) |->
                                               denomination_units(extract_withdrawal_intents(payload.sidecar.ol_logs)[i],
                                                                  denomination)])
  <2> USE <1>DispatchesWithdrawals
  <2> DEFINE ol_logs == payload.sidecar.ol_logs
             T == {log \in Range(ol_logs) : IsWithdrawalLog(log)}
             found == Keep(ol_logs, T)
             intents == extract_withdrawal_intents(ol_logs)
             msgs == DispatchWithdrawals(payload)
  <2>1. IsList(found) /\ Range(found) = Range(ol_logs) \cap T
    <3>1. IsList(ol_logs)
      BY DEF OLLogs
    <3> HIDE DEF T
    <3> QED
      BY <3>1, KeepList
  <2>2. \A i \in DOMAIN found : found[i].amt \in Nat /\ found[i].selected_operator \in Nat
    <3> SUFFICES ASSUME NEW i \in DOMAIN found
                 PROVE  found[i].amt \in Nat /\ found[i].selected_operator \in Nat
      OBVIOUS
    <3>1. found[i] \in Range(found)
      BY DEF Range
    <3>2. found[i] \in Range(ol_logs) /\ IsWithdrawalLog(found[i])
      BY <2>1, <3>1
    <3>3. PICK j \in DOMAIN ol_logs : found[i] = ol_logs[j]
      BY <3>2 DEF Range
    <3> QED
      BY <3>2, <3>3 DEF OLLogs
  <2>3. /\ intents = [i \in DOMAIN found |-> WithdrawalIntent(found[i].destination, found[i].amt,
                                                           found[i].selected_operator)]
        /\ msgs = [i \in DOMAIN intents |-> <<"DispatchWithdrawal", intents[i]>>]
    BY DEF extract_withdrawal_intents, DispatchWithdrawals
  <2>units. \A i \in DOMAIN intents : has_units(intents[i], denomination)
    OBVIOUS
  <2> HIDE DEF found, intents, msgs
  <2>4. DOMAIN found = 1 .. Len(found) /\ Len(found) \in Nat
    BY <2>1, ListDomain
  <2>5. DOMAIN intents = 1 .. Len(found) /\ DOMAIN msgs = 1 .. Len(found)
    BY <2>3, <2>4
  <2>6. \A i \in DOMAIN msgs : msgs[i] = <<"DispatchWithdrawal", intents[i]>> /\ IsIntent(intents[i])
    <3> SUFFICES ASSUME NEW i \in DOMAIN msgs
                 PROVE  msgs[i] = <<"DispatchWithdrawal", intents[i]>> /\ IsIntent(intents[i])
      OBVIOUS
    <3>1. i \in DOMAIN found /\ i \in DOMAIN intents
      BY <2>4, <2>5
    <3>2. msgs[i] = <<"DispatchWithdrawal", intents[i]>>
      BY <2>3, <3>1
    <3>3. intents[i] = WithdrawalIntent(found[i].destination, found[i].amt, found[i].selected_operator)
      BY <2>3, <3>1
    <3>4. IsIntent(intents[i])
      BY <2>2, <3>1, <3>3, SMTT(60) DEF WithdrawalIntent, IsIntent
    <3> QED
      BY <3>2, <3>4
  <2>7. BridgeBox(msgs)
    <3>1. msgs \in Seq(Range(msgs))
      <4> DEFINE S == Range(msgs)
      <4>1. \A i \in DOMAIN msgs : msgs[i] \in S
        BY DEF Range
      <4>2. msgs = [i \in 1 .. Len(found) |-> msgs[i]]
        BY <2>3, <2>5
      <4>3. msgs \in [1 .. Len(found) -> S]
        BY <2>5, <4>1, <4>2
      <4> HIDE DEF S
      <4>4. msgs \in Seq(S)
        BY <2>4, <4>3, SMTT(60)
      <4> QED
        BY <4>4 DEF S
    <3>2. ASSUME NEW i \in DOMAIN msgs PROVE BridgeMsg(msgs[i])
      <4>1. i \in DOMAIN intents
        BY <2>5
      <4>2. has_units(intents[i], denomination)
        BY <2>units, <4>1
      <4> QED
        BY <2>6, <4>2, SMTT(60) DEF BridgeMsg
    <3> QED
      BY <3>1, <3>2, ListOfRange DEF BridgeBox
  <2>8. UnitsIn(msgs) = Total([i \in DOMAIN intents |-> denomination_units(intents[i], denomination)])
    <3>1. \A i \in DOMAIN msgs : UnitCount(msgs[i]) = denomination_units(intents[i], denomination)
      BY <2>6, SMTT(60) DEF UnitCount
    <3>2. [i \in DOMAIN msgs |-> UnitCount(msgs[i])]
            = [i \in DOMAIN intents |-> denomination_units(intents[i], denomination)]
      BY <2>5, <3>1
    <3> QED
      BY <3>2 DEF UnitsIn
  <2> QED
    BY <2>7, <2>8 DEF intents, msgs
<1>main. ASSUME CountsInv, PoolInv(pool), AcceptCheckpoint, UNCHANGED bridgeVars
         PROVE  PegStep
  <2> USE <1>main
  <2> DEFINE payload == PayloadOf(NextTx("checkpoint"))
             intents == extract_withdrawal_intents(payload.sidecar.ol_logs)
             msgs == DispatchWithdrawals(payload)
             n == UnitsIn(msgs)
  <2>1. /\ stage = "checkpoint" /\ stage' = stage
        /\ inbox' = relay_msgs(inbox, "bridge", msgs)
        /\ pool' = apply_withdrawals(pool, intents)
    BY DEF AcceptCheckpoint, CheckpointTxReady, Running, advance
  <2>2. Valid(NextTx("checkpoint"))
    BY DEF AcceptCheckpoint
  <2>3. OLLogs(payload.sidecar.ol_logs)
    BY <2>2 DEF Valid, Progresses, decode_checkpoint_payload, PayloadOf
  <2>4. verify_withdrawals(pool, intents)
    BY <2>2 DEF Valid, can_advance
  <2>units. \A i \in DOMAIN intents : has_units(intents[i], denomination)
    <3> HIDE DEF intents
    <3>1. CASE intents = <<>>
      BY <3>1, SMTT(60)
    <3>2. CASE intents # <<>>
      <4>1. /\ pool.count > 0
            /\ \A i \in DOMAIN intents : has_units(intents[i], pool.denomination)
        BY <2>4, <3>2 DEF verify_withdrawals
      <4>2. pool.denomination = denomination
        BY <4>1, SMTT(60) DEF PoolInv, EmptyPool
      <4> QED
        BY <4>1, <4>2
    <3> QED
      BY <3>1, <3>2
  <2>5. BridgeBox(msgs) /\ n = Total([i \in DOMAIN intents |-> denomination_units(intents[i], denomination)])
    BY <2>3, <2>units, <1>DispatchesWithdrawals
  <2>6. intents = <<>> => msgs = <<>>
    BY SMTT(60) DEF DispatchWithdrawals
  <2> HIDE DEF payload, intents, msgs
  <2>7. n \in Nat /\ n <= pool.count /\ pool'.count = pool.count - n /\ PoolInv(pool')
    <3>1. n \in Nat
      BY <2>5, UnitsInFlight
    <3>2. CASE intents = <<>>
      <4>1. n = 0
        BY <2>6, <3>2, NoneInFlight
      <4>2. pool' = pool
        BY <2>1, <3>2 DEF apply_withdrawals
      <4>3. pool.count \in Nat /\ PoolInv(pool')
        BY <4>2 DEF PoolInv
      <4> HIDE DEF n
      <4> QED
        BY <4>1, <4>2, <4>3, SMTT(60)
    <3>3. CASE intents # <<>>
      <4>1. pool.count > 0 /\ required_units(pool, intents) <= pool.count
        BY <2>4, <3>3 DEF verify_withdrawals
      <4>2. /\ pool = [denomination |-> pool.denomination, count |-> pool.count] /\ pool.count \in Nat
            /\ pool = EmptyPool \/ pool.denomination = denomination
        BY DEF PoolInv
      <4>3. pool.denomination = denomination
        BY <4>1, <4>2, SMTT(60) DEF EmptyPool
      <4>4. required_units(pool, intents) = n
        BY <2>5, <4>3 DEF required_units
      <4> HIDE DEF n
      <4>5. pool' = [pool EXCEPT !.count = pool.count - n]
        BY <2>1, <3>3, <4>4  DEF apply_withdrawals
      <4>6. pool' = [denomination |-> denomination, count |-> pool.count - n]
        BY <4>2, <4>3, <4>5
      <4>7. pool.count - n \in Nat /\ n <= pool.count
        BY <3>1, <4>1, <4>2, <4>4, SMTT(60)
      <4>8. PoolInv(pool')
        BY <4>6, <4>7  DEF PoolInv
      <4> QED
        BY <3>1, <4>6, <4>7, <4>8
    <3> QED
      BY <3>2, <3>3
  <2>8. BoxesInv(inbox, stage) /\ BridgeBox(inbox["bridge"])
    BY DEF CountsInv, BoxesInv
  <2>9. stage \notin {"export", "idle"}
    BY <2>1
  <2>10. /\ BoxesInv(inbox', stage) /\ inbox'["bridge"] = inbox["bridge"] \o msgs
         /\ inbox'["checkpoint"] = inbox["checkpoint"]
    BY <2>1, <2>5, <2>8, <2>9, RelayToBridge
  <2>11. UnitsIn(inbox["bridge"] \o msgs) = UnitsIn(inbox["bridge"]) + n
    BY <2>5, <2>8, UnitsInFlight
  <2> HIDE DEF n
  <2>12. Asked' = Asked + n /\ Reported' = Reported
    BY <2>10, <2>11 DEF Asked, Reported
  <2>13. deposits' = deposits /\ assignments' = assignments /\ fulfilled' = fulfilled
    BY DEF bridgeVars
  <2>14. CountsInv'
    BY <2>1, <2>10, <2>13 DEF CountsInv
  <2>15. UNCHANGED <<Vault, Reported, Owed, fulfilled>>
    BY <2>12, <2>13 DEF Vault, Owed
  <2>16. CountedOrder
    BY <2>7, <2>12, <2>15 DEF CountedOrder
  <2> QED
    BY <2>7, <2>14, <2>16 DEF PegStep
<1> QED
  BY <1>main

\* A message of the checkpoint subprotocol is handled.
LEMMA CheckpointMsgTaken ==
  ASSUME CountsInv, UNCHANGED bridgeVars, inbox["checkpoint"] # <<>>, HandledMsg
  PROVE  /\ CountsInv' /\ Asked' = Asked /\ UNCHANGED <<Vault, Owed, fulfilled>>
         /\ Reported \in Nat /\ Reported' \in Nat
         /\ Reported = DepositCount(NextMsg("checkpoint")) + Reported'
         /\ CheckpointMsg(NextMsg("checkpoint"))
<1> DEFINE box == inbox["checkpoint"]
<1>1. inbox' = Without(inbox, "checkpoint") /\ stage' = stage
  BY DEF HandledMsg, TakeMsg, Without
<1>2. BoxesInv(inbox, stage) /\ CheckpointBox(box) /\ IsList(box)
  BY DEF CountsInv, BoxesInv, CheckpointBox
<1>3. /\ "checkpoint" \in {"checkpoint", "bridge"} /\ "bridge" \in {"checkpoint", "bridge"}
      /\ "bridge" # "checkpoint"
  OBVIOUS
<1>4. /\ BoxesInv(Without(inbox, "checkpoint"), stage)
      /\ Without(inbox, "checkpoint")["checkpoint"] = Tail(box)
      /\ Without(inbox, "checkpoint")["bridge"] = inbox["bridge"]
  BY <1>2, <1>3, TakeFromBox
<1>5. /\ DepositsIn(box) \in Nat /\ DepositsIn(Tail(box)) \in Nat
      /\ DepositsIn(box) = DepositCount(Head(box)) + DepositsIn(Tail(box))
  BY <1>2, DepositsInFlight
<1>6. deposits' = deposits /\ assignments' = assignments /\ fulfilled' = fulfilled
  BY DEF bridgeVars
<1>7. CountsInv'
  BY <1>1, <1>4, <1>6 DEF CountsInv
<1>8. Asked' = Asked /\ Reported = DepositsIn(box) /\ Reported' = DepositsIn(Tail(box))
  BY <1>1, <1>4 DEF Asked, Reported
<1>9. UNCHANGED <<Vault, Owed, fulfilled>>
  BY <1>6 DEF Vault, Owed
<1>10. CheckpointMsg(Head(box))
  <2>1. Head(box) = box[1] /\ 1 \in DOMAIN box
    BY <1>2, ListTail, ListDomain
  <2> QED
    BY <1>2, <2>1 DEF CheckpointBox
<1> HIDE DEF box
<1> QED
  BY <1>5, <1>7, <1>8, <1>9, <1>10 DEF NextMsg, box

\* record_deposit: the reported deposit joins the pool.
LEMMA RecordCounted ==
  ASSUME CountsInv, PoolInv(pool), record_deposit, UNCHANGED bridgeVars
  PROVE  PegStep
<1> DEFINE msg == NextMsg("checkpoint")
<1>1. msg[1] = "DepositProcessed" /\ inbox["checkpoint"] # <<>>
  BY DEF record_deposit, CheckpointMsgReady
<1>2. CASE pool' = record(pool, msg[2]) /\ HandledMsg
  <2>1. /\ CountsInv' /\ Asked' = Asked /\ UNCHANGED <<Vault, Owed, fulfilled>>
        /\ Reported \in Nat /\ Reported' \in Nat /\ Reported = DepositCount(msg) + Reported'
        /\ CheckpointMsg(msg)
    BY <1>1, <1>2, CheckpointMsgTaken
  <2> HIDE DEF msg
  <2>2. DepositCount(msg) = 1 /\ msg[2] = denomination
    BY <1>1, <2>1 DEF DepositCount, CheckpointMsg
  <2>3. Reported' = Reported - 1
    <3>1. ASSUME NEW a \in Nat, NEW b \in Nat, a = 1 + b PROVE b = a - 1
      BY <3>1, SMTT(60)
    <3> QED
      BY <2>1, <2>2, <3>1
  <2>4. pool'.count = pool.count + 1 /\ PoolInv(pool')
    <3>1. /\ pool = [denomination |-> pool.denomination, count |-> pool.count] /\ pool.count \in Nat
          /\ pool = EmptyPool \/ pool.denomination = denomination
      BY DEF PoolInv
    <3>2. CASE pool = EmptyPool
      <4>1. pool' = [denomination |-> denomination, count |-> 1] /\ pool.count = 0
        BY <1>2, <2>2, <3>2  DEF record, is_empty_pool, EmptyPool
      <4> QED
        BY <4>1, SMTT(60) DEF PoolInv
    <3>3. CASE pool # EmptyPool
      <4>1. pool' = [pool EXCEPT !.count = pool.count + 1] /\ pool.denomination = denomination
        BY <1>2, <2>2, <3>1, <3>3  DEF record, is_empty_pool
      <4>2. pool' = [denomination |-> denomination, count |-> pool.count + 1]
        BY <3>1, <4>1
      <4> QED
        BY <3>1, <4>2, SMTT(60) DEF PoolInv
    <3> QED
      BY <3>2, <3>3
  <2>5. CountedRecord
    BY <2>1, <2>3, <2>4 DEF CountedRecord
  <2> QED
    BY <2>1, <2>4, <2>5 DEF PegStep
<1>3. CASE pool' = pool /\ Panic
  <2>1. inbox' = inbox /\ stage' = stage
    BY <1>3 DEF Panic
  <2>2. deposits' = deposits /\ assignments' = assignments /\ fulfilled' = fulfilled
    BY DEF bridgeVars
  <2>3. Counted
    BY <2>1, <2>2, UncountedStep
  <2> QED
    BY <1>3, <2>3, SamePool
<1> QED
  BY <1>2, <1>3 DEF record_deposit

\* Every deposit held is in the pool, on its way to it, or promised to a withdrawal on its way.
Balanced == Vault = pool.count + Reported + Asked

\* The counts are numbers.
LEMMA CountsAreNumbers ==
  ASSUME CountsInv, PoolInv(pool)
  PROVE  Vault \in Nat /\ Reported \in Nat /\ Asked \in Nat /\ Owed \in Nat /\ pool.count \in Nat
<1>1. BridgeBox(inbox["bridge"]) /\ IsList(inbox["checkpoint"])
  BY DEF CountsInv, BoxesInv, CheckpointBox
<1>2. Reported \in Nat
  BY <1>1, DepositsInFlight  DEF Reported
<1>3. Asked \in Nat
  BY <1>1, UnitsInFlight  DEF Asked
<1>4. Vault \in Nat /\ Owed \in Nat
  BY FS_CardinalityType DEF CountsInv, Vault, Owed
<1> QED
  BY <1>2, <1>3, <1>4 DEF PoolInv

\* Every step keeps the balance.
LEMMA BalanceKept ==
  ASSUME CountsInv, PoolInv(pool), PegStep, Balanced
  PROVE  Balanced'
<1> DEFINE c == pool.count
           d == pool'.count
<1>1. Vault \in Nat /\ Reported \in Nat /\ Asked \in Nat /\ c \in Nat
  BY CountsAreNumbers
<1>2. Vault = c + Reported + Asked
  BY DEF Balanced
<1>3. Vault' = d + Reported' + Asked' => Balanced'
  BY DEF Balanced
<1>4. pool' = pool => d = c
  OBVIOUS
<1> HIDE DEF c, d
<1> SUFFICES Vault' = d + Reported' + Asked'
  BY <1>3
<1>5. CASE pool' = pool /\ CountedDeposit
  BY <1>1, <1>2, <1>4, <1>5, SMTT(60) DEF CountedDeposit
<1>6. CASE pool' = pool /\ CountedAssign
  <2>1. PICK n \in Nat : Asked' = Asked - n /\ Vault' = Vault - n /\ Reported' = Reported
    BY <1>6 DEF CountedAssign
  <2> QED
    BY <1>1, <1>2, <1>4, <1>6, <2>1, SMTT(60)
<1>7. CASE pool' = pool /\ (CountedPay \/ Uncounted)
  <2>1. Vault' = Vault /\ Reported' = Reported /\ Asked' = Asked
    BY <1>7 DEF CountedPay, Uncounted
  <2> QED
    BY <1>2, <1>4, <1>7, <2>1
<1>8. CASE CountedOrder
  <2>1. PICK n \in Nat : d = c - n /\ Asked' = Asked + n /\ Vault' = Vault /\ Reported' = Reported
    BY <1>8 DEF CountedOrder, c, d
  <2> QED
    BY <1>1, <1>2, <2>1, SMTT(60)
<1>9. CASE CountedRecord
  <2>1. d = c + 1 /\ Reported' = Reported - 1 /\ Vault' = Vault /\ Asked' = Asked
    BY <1>9 DEF CountedRecord, c, d
  <2> QED
    BY <1>1, <1>2, <2>1, SMTT(60)
<1> QED
  BY <1>5, <1>6, <1>7, <1>8, <1>9 DEF PegStep

\* record_deposit: the deposit that is recorded is held, so the pool's total stays within the
\* money supply.
LEMMA PoolFits ==
  ASSUME CountsInv, PoolInv(pool), Balanced, denomination * Vault <= MAX_MONEY,
         CheckpointMsgReady("DepositProcessed")
  PROVE  ~(pool_total(record(pool, NextMsg("checkpoint")[2])) > MAX_MONEY)
<1> DEFINE box == inbox["checkpoint"]
           msg == NextMsg("checkpoint")
           c == pool.count
<1>1. box # <<>> /\ msg = Head(box) /\ msg[1] = "DepositProcessed"
  BY DEF CheckpointMsgReady, NextMsg
<1>2. CheckpointBox(box) /\ IsList(box)
  BY DEF CountsInv, BoxesInv, CheckpointBox
<1>3. /\ DepositsIn(box) = DepositCount(Head(box)) + DepositsIn(Tail(box))
      /\ DepositsIn(Tail(box)) \in Nat
  BY <1>1, <1>2, DepositsInFlight
<1>4. Head(box) = box[1] /\ 1 \in DOMAIN box
  BY <1>1, <1>2, ListTail, ListDomain
<1>5. CheckpointMsg(msg)
  BY <1>1, <1>2, <1>4 DEF CheckpointBox
<1>6. Reported = DepositsIn(box)
  BY DEF Reported
<1>7. /\ pool = [denomination |-> pool.denomination, count |-> pool.count]
      /\ pool = EmptyPool \/ pool.denomination = denomination
  BY DEF PoolInv
<1> HIDE DEF msg, box
<1>8. DepositCount(msg) = 1 /\ msg[2] = denomination
  BY <1>1, <1>5 DEF DepositCount, CheckpointMsg
<1>9. Vault \in Nat /\ Asked \in Nat /\ c \in Nat /\ denomination \in Nat /\ MAX_MONEY \in Nat
  BY CountsAreNumbers, BridgeAssumption, RulesAssumption
<1>10. c + 1 <= Vault
  <2>1. Vault = c + (1 + DepositsIn(Tail(box))) + Asked
    BY <1>1, <1>3, <1>6, <1>8 DEF Balanced
  <2> QED
    BY <1>3, <1>9, <2>1, SMTT(60)
<1>11. record(pool, denomination) = [denomination |-> denomination, count |-> c + 1]
  <2>1. CASE pool = EmptyPool
    BY <2>1, SMTT(60) DEF record, is_empty_pool, EmptyPool
  <2>2. CASE pool # EmptyPool
    BY <1>7, <2>2  DEF record, is_empty_pool
  <2> QED
    BY <2>1, <2>2
<1> HIDE DEF c
<1>12. denomination * (c + 1) <= MAX_MONEY
  <2>1. ASSUME NEW a \in Nat, NEW k \in Nat, NEW v \in Nat, NEW m \in Nat, k <= v, a * v <= m
        PROVE  a * k <= m
    <3>1. PICK e \in Nat : v = k + e
      <4>1. v - k \in Nat /\ v = k + (v - k)
        BY <2>1, SMTT(60)
      <4> QED
        BY <4>1
    <3>2. a * v = a * k + a * e /\ a * e >= 0
      BY <3>1, SMTT(60)
    <3> QED
      BY <2>1, <3>1, <3>2, SMTT(60)
  <2>2. c + 1 \in Nat
    BY <1>9, SMTT(60)
  <2> QED
    BY <1>9, <1>10, <2>1, <2>2
<1>13. ~(denomination * (c + 1) > MAX_MONEY)
  <2>1. denomination * (c + 1) \in Int
    BY <1>9, SMTT(60)
  <2> QED
    BY <1>9, <1>12, <2>1, SMTT(60)
<1> QED
  BY <1>8, <1>11, <1>13, SMTT(60) DEF pool_total, msg

=============================================================================
