------------------------------ MODULE BridgeTxs -----------------------------
(***************************************************************************)
(* The bridge's transactions: what makes each type parse and what a parsed *)
(* one says.                                                               *)
(*                                                                         *)
(* The auxiliary data of a tag is <<"idx", n>> (one index, the layout that *)
(* deposits, fulfillments, slashes and unstakes share), <<"drt", recovery  *)
(* key, destination>> or something that does not decode.  A witness is     *)
(* <<"items", elements>>, an element <<"sig", length>>, <<"annex">>,       *)
(* <<"script", leaf>> or <<"data">>.  An output script is a tagged tuple.  *)
(***************************************************************************)
EXTENDS Lists, TLC

CONSTANT MAX_DESTINATION_LEN    \* longest deposit destination

\* A destination may be empty.
ASSUME BridgeTxsAssumption == MAX_DESTINATION_LEN \in Nat

BridgeTxType ==
    0 :> "DepositRequest" @@ 1 :> "Deposit" @@ 2 :> "WithdrawalFulfillment" @@ 3 :> "Commit" @@
    4 :> "Slash" @@ 5 :> "Unstake"

(* The auxiliary data of these four types is one index. *)
IsIndex(data) == data[1] = "idx" /\ data[2] \in Nat
DepositTxHeaderAux(tx) == IsIndex(tx.aux)
WithdrawalFulfillmentTxHeaderAux(tx) == IsIndex(tx.aux)
SlashTxHeaderAux(tx) == IsIndex(tx.aux)
UnstakeTxHeaderAux(tx) == IsIndex(tx.aux)

TxOutOk(tx, index) == index + 1 \in DOMAIN tx.outs /\ tx.outs[index + 1].script[1] # "oversized"
OutputAt(tx, index) == tx.outs[index + 1]
HasInput(tx, index) == index + 1 \in DOMAIN tx.ins
InputAt(tx, index) == tx.ins[index + 1]

(***************************************************************************)
(* Deposit requests, read from auxiliary data when their deposit arrives.  *)
(***************************************************************************)
DRT_OUTPUT_INDEX == 1

build_deposit_request_spend_info(recovery_pk, recovery_delay) == <<recovery_pk, recovery_delay>>
create_deposit_request_locking_script(recovery_pk, internal_key, recovery_delay) ==
    <<"drt", internal_key, build_deposit_request_spend_info(recovery_pk, recovery_delay)>>

(* The recovery key, then a destination that is not too long. *)
DrtHeaderAuxOk(aux) == aux[1] = "drt" /\ Len(aux[3]) <= MAX_DESTINATION_LEN
parse_drt(tx) == tx.sub # "none" /\ DrtHeaderAuxOk(tx.aux) /\ TxOutOk(tx, DRT_OUTPUT_INDEX)
DepositRequestInfo(tx) ==
    [recovery_pk |-> tx.aux[2], destination |-> tx.aux[3],
     script |-> OutputAt(tx, DRT_OUTPUT_INDEX).script]

(***************************************************************************)
(* Deposits: they spend the request output by its key path.                *)
(***************************************************************************)
DEPOSIT_OUTPUT_INDEX == 1
DRT_INPUT_INDEX == 0

ensure_key_path_spend(witness) ==
    LET items == witness[2]
        has_annex == Len(items) >= 2 /\ Last(items)[1] = "annex"
    IN  /\ Len(items) = IF has_annex THEN 2 ELSE 1
        /\ items[1][1] = "sig"
        /\ items[1][2] \in {64, 65}

parse_deposit_tx(tx) ==
    /\ DepositTxHeaderAux(tx)
    /\ TxOutOk(tx, DEPOSIT_OUTPUT_INDEX)
    /\ HasInput(tx, DRT_INPUT_INDEX)
    /\ InputAt(tx, DRT_INPUT_INDEX).vout = DRT_OUTPUT_INDEX
    /\ ensure_key_path_spend(InputAt(tx, DRT_INPUT_INDEX).witness)
DepositInfo(tx) ==
    [deposit_idx |-> tx.aux[2], drt_inpoint |-> InputAt(tx, DRT_INPUT_INDEX),
     amt |-> OutputAt(tx, DEPOSIT_OUTPUT_INDEX).value,
     locked_script |-> OutputAt(tx, DEPOSIT_OUTPUT_INDEX).script]

(***************************************************************************)
(* Withdrawal fulfillments.                                                *)
(***************************************************************************)
USER_WITHDRAWAL_FULFILLMENT_OUTPUT_INDEX == 1

parse_withdrawal_fulfillment_tx(tx) ==
    /\ WithdrawalFulfillmentTxHeaderAux(tx)
    /\ USER_WITHDRAWAL_FULFILLMENT_OUTPUT_INDEX + 1 \in DOMAIN tx.outs
WithdrawalFulfillmentInfo(tx) ==
    [deposit_idx |-> tx.aux[2],
     withdrawal_destination |-> OutputAt(tx, USER_WITHDRAWAL_FULFILLMENT_OUTPUT_INDEX).script,
     withdrawal_amount |-> OutputAt(tx, USER_WITHDRAWAL_FULFILLMENT_OUTPUT_INDEX).value]

(***************************************************************************)
(* Slashes and unstakes: both spend a stake connector.                     *)
(***************************************************************************)
SLASH_STAKE_INPUT_INDEX == 1
parse_slash_tx(tx) == SlashTxHeaderAux(tx) /\ HasInput(tx, SLASH_STAKE_INPUT_INDEX)
SlashInfo(tx) ==
    [operator_idx |-> tx.aux[2], stake_inpoint |-> InputAt(tx, SLASH_STAKE_INPUT_INDEX)]

stake_connector_script(stake_hash, pubkey) == <<"stake_leaf", pubkey, stake_hash>>
expected_stake_connector_script_pubkey(stake_hash, nn_pubkey) ==
    <<"stake", stake_connector_script(stake_hash, nn_pubkey)>>
extract_script_params(leaf) == [pubkey |-> leaf[2], stake_hash |-> leaf[3]]
validate_and_extract_script_params(leaf) ==
    /\ Len(leaf) = 3
    /\ leaf = stake_connector_script(extract_script_params(leaf).stake_hash,
                                     extract_script_params(leaf).pubkey)

UNSTAKE_STAKE_INPUT_INDEX == 0
STAKE_WITNESS_ITEMS == 4
SCRIPT_INDEX == 2
WitnessScript(tx) == InputAt(tx, UNSTAKE_STAKE_INPUT_INDEX).witness[2][SCRIPT_INDEX + 1]

parse_unstake_tx(tx) ==
    /\ UnstakeTxHeaderAux(tx)
    /\ HasInput(tx, UNSTAKE_STAKE_INPUT_INDEX)
    /\ Len(InputAt(tx, UNSTAKE_STAKE_INPUT_INDEX).witness[2]) = STAKE_WITNESS_ITEMS
    /\ WitnessScript(tx)[1] = "script"
    /\ validate_and_extract_script_params(WitnessScript(tx)[2])
UnstakeInfo(tx) ==
    [operator_idx |-> tx.aux[2], stake_inpoint |-> InputAt(tx, UNSTAKE_STAKE_INPUT_INDEX),
     witness_pushed_pubkey |-> extract_script_params(WitnessScript(tx)[2]).pubkey,
     stake_hash |-> extract_script_params(WitnessScript(tx)[2]).stake_hash]

(***************************************************************************)
(* Dispatch: the type byte picks the parser; deposit requests, commits and *)
(* unknown types are skipped.                                              *)
(***************************************************************************)
ParsesAs(tx, type) == tx.type \in DOMAIN BridgeTxType /\ BridgeTxType[tx.type] = type
IsDeposit(tx) == ParsesAs(tx, "Deposit") /\ parse_deposit_tx(tx)
IsFulfillment(tx) == ParsesAs(tx, "WithdrawalFulfillment") /\ parse_withdrawal_fulfillment_tx(tx)
IsSlash(tx) == ParsesAs(tx, "Slash") /\ parse_slash_tx(tx)
IsUnstake(tx) == ParsesAs(tx, "Unstake") /\ parse_unstake_tx(tx)
parse_tx(tx) == IsDeposit(tx) \/ IsFulfillment(tx) \/ IsSlash(tx) \/ IsUnstake(tx)
=============================================================================
