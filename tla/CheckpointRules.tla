--------------------------- MODULE CheckpointRules --------------------------
(***************************************************************************)
(* What makes a checkpoint valid: the progression of the tip, the claim    *)
(* its proof must prove, the withdrawals it orders and the pool of bridge  *)
(* deposits that must cover them.                                          *)
(*                                                                         *)
(* Hashes are injective, so a hash is its preimage; a proof names the      *)
(* predicate it was made for and the claim it proves.  The manifests of an *)
(* inclusive height range are identified by the range.                     *)
(***************************************************************************)
EXTENDS BridgeTypes, Lists

CONSTANTS
    MAX_MONEY,  \* the Bitcoin money supply
    MAX_EPOCH   \* the largest epoch number (2^32 - 1 in the code)

\* Both bounds are at least one.
ASSUME RulesAssumption == MAX_MONEY \in Nat \ {0} /\ MAX_EPOCH \in Nat \ {0}

(***************************************************************************)
(* Payloads and claims.                                                    *)
(***************************************************************************)
CheckpointTips == [epoch : 0 .. MAX_EPOCH, l1_height : Nat, slot : Nat]
CheckpointTip(epoch, l1_height, slot) == [epoch |-> epoch, l1_height |-> l1_height, slot |-> slot]
CheckpointSidecar(diff, ol_logs, complement) ==
    [ol_state_diff |-> diff, ol_logs |-> ol_logs, terminal_header_complement |-> complement]
CheckpointPayload(new_tip, sidecar, proof) ==
    [new_tip |-> new_tip, sidecar |-> sidecar, proof |-> proof]

L2BlockRange(start, end) == [start |-> start, end |-> end]
CheckpointClaim(epoch, l2_range, manifests, diff, ol_logs, complement) ==
    [epoch |-> epoch, l2_range |-> l2_range, asm_manifests_hash |-> manifests,
     state_diff_hash |-> diff, ol_logs_hash |-> ol_logs, complement_hash |-> complement]

PendingPredicateTransition(predicate, boundary) ==
    [predicate |-> predicate, boundary |-> boundary]

(***************************************************************************)
(* Progression: the epoch advances by one, the L1 height does not regress  *)
(* and stays below the block that carries the checkpoint, the slot         *)
(* advances, and new heights stop at the next predicate boundary.          *)
(***************************************************************************)
IsEmptyRange(last, new) == last.l1_height = new.l1_height
CheckpointL1Range(last, new) == <<last.l1_height + 1, new.l1_height>>

\* Mutant: a checkpoint may run past the boundary of the next rotation.
verify_progression_across(last, new, current_height, pending) ==
    /\ last.epoch < MAX_EPOCH
    /\ new.epoch = last.epoch + 1
    /\ new.l1_height < current_height
    /\ last.l1_height <= new.l1_height
    /\ last.slot < new.slot

verify_progression(last, new, current_height, pending) ==
    /\ last.epoch < MAX_EPOCH
    /\ new.epoch = last.epoch + 1
    /\ new.l1_height < current_height
    /\ last.l1_height <= new.l1_height
    /\ last.slot < new.slot
    /\ ~IsEmptyRange(last, new) /\ pending # <<>> => new.l1_height <= Head(pending).boundary

(* An empty range commits to the zero hash. *)
ZERO == "zero"
compute_asm_manifests_hash(last, new) ==
    IF IsEmptyRange(last, new) THEN <<ZERO>> ELSE CheckpointL1Range(last, new)

construct_full_claim(last, payload, manifests) ==
    CheckpointClaim(payload.new_tip.epoch, L2BlockRange(last.slot, payload.new_tip.slot),
                    manifests, payload.sidecar.ol_state_diff, payload.sidecar.ol_logs,
                    payload.sidecar.terminal_header_complement)

verify_claim_witness(predicate, claim, proof) == proof.predicate = predicate /\ proof.claim = claim
verify_proof(predicate, last, payload, manifests) ==
    verify_claim_witness(predicate, construct_full_claim(last, payload, manifests), payload.proof)

(***************************************************************************)
(* Withdrawal intents: the withdrawal logs of the bridge gateway account,  *)
(* in order.  One malformed destination or impossible amount fails the     *)
(* whole checkpoint; a log that is no withdrawal log is skipped.           *)
(***************************************************************************)
OLLog(account, type, destination, amt, operator) ==
    [account |-> account, type |-> type, destination |-> destination, amt |-> amt,
     selected_operator |-> operator]
MalformedDescriptor == "malformed"
IsWithdrawalLog(log) == log.account = "bridge_gateway" /\ log.type = "withdrawal_intent"

(* What the logs of a sidecar decode to. *)
OLLogs(ol_logs) ==
    /\ IsList(ol_logs)
    /\ \A i \in DOMAIN ol_logs : IsWithdrawalLog(ol_logs[i]) =>
           ol_logs[i].amt \in Nat /\ ol_logs[i].selected_operator \in Nat

IntentsWellFormed(ol_logs) ==
    \A i \in DOMAIN ol_logs : IsWithdrawalLog(ol_logs[i]) =>
        /\ ol_logs[i].destination # MalformedDescriptor
        /\ ol_logs[i].amt <= MAX_MONEY
extract_withdrawal_intents(ol_logs) ==
    LET found == Keep(ol_logs, {log \in Range(ol_logs) : IsWithdrawalLog(log)})
    IN  [i \in DOMAIN found |->
            WithdrawalIntent(found[i].destination, found[i].amt, found[i].selected_operator)]

(***************************************************************************)
(* The deposit pool: a count of deposits of one denomination, fixed by the *)
(* first deposit ever recorded.                                            *)
(***************************************************************************)
EmptyPool == [denomination |-> 0, count |-> 0]
is_empty_pool(pool) == pool = EmptyPool
pool_total(pool) == pool.denomination * pool.count

record(pool, amount) ==
    IF is_empty_pool(pool) THEN [denomination |-> amount, count |-> 1]
    ELSE IF amount = pool.denomination THEN [pool EXCEPT !.count = @ + 1]
    ELSE pool

\* Mutant: every intent consumes one deposit.
required_intents(pool, intents) == Len(intents)

required_units(pool, intents) ==
    Total([i \in DOMAIN intents |-> denomination_units(intents[i], pool.denomination)])

verify_withdrawals(pool, intents) ==
    \/ intents = <<>>
    \/ /\ pool.count > 0
       /\ \A i \in DOMAIN intents :
              /\ has_units(intents[i], pool.denomination)
              /\ denomination_units(intents[i], pool.denomination) > 0
       /\ required_units(pool, intents) <= pool.count

apply_withdrawals(pool, intents) ==
    IF intents = <<>> THEN pool ELSE [pool EXCEPT !.count = @ - required_units(pool, intents)]
=============================================================================
