----------------------------- MODULE BridgeTypes ----------------------------
(***************************************************************************)
(* The values the bridge and the checkpoint subprotocols share: operator   *)
(* selections and bitmaps, withdrawal intents, operator claims and the     *)
(* safe harbor.                                                            *)
(*                                                                         *)
(* A bitmap is a sequence of Booleans: operator i has position i + 1.      *)
(***************************************************************************)
EXTENDS Integers, Sequences, FiniteSets

CONSTANTS
    NoSelection,    \* the raw operator selection that means "any operator" (u32::MAX)
    ByteBits        \* bits per byte of an encoded bitmap (8)

\* The largest index stands for no selection, and bytes hold at least one bit.
ASSUME BridgeTypesAssumption == NoSelection \in Nat /\ ByteBits \in Nat \ {0}

(***************************************************************************)
(* Operator selections.                                                    *)
(***************************************************************************)
any == NoSelection
as_specific(raw) == IF raw = NoSelection THEN {} ELSE {raw}

(***************************************************************************)
(* Operator bitmaps.                                                       *)
(***************************************************************************)
new_empty_bitmap == <<>>
new_with_size(size, initial) == [i \in 1 .. size |-> initial]

is_active(bits, idx) == idx + 1 \in DOMAIN bits /\ bits[idx + 1]
active_indices(bits) == {i - 1 : i \in {j \in DOMAIN bits : bits[j]}}
active_count(bits) == Cardinality(active_indices(bits))

(* Setting the bit just past the end extends the bitmap by one; a gap is refused. *)
can_set(bits, idx) == idx <= Len(bits)
try_set(bits, idx, active) ==
    [i \in 1 .. IF idx = Len(bits) THEN Len(bits) + 1 ELSE Len(bits) |->
        IF i = idx + 1 THEN active ELSE bits[i]]

(* The encoded form: the number of bits, and whole bytes of them. *)
OperatorBitmapSsz(bits) ==
    [bit_len |-> Len(bits),
     bytes |-> [i \in 1 .. ByteBits * ((Len(bits) + ByteBits - 1) \div ByteBits) |->
                   i <= Len(bits) /\ bits[i]]]
BitmapDecodes(ssz) == ssz.bit_len <= Len(ssz.bytes)
BitmapFromSsz(ssz) == SubSeq(ssz.bytes, 1, ssz.bit_len)

(* Eligible: active now, in the notary set, and not tried before; the active bitmap is cut to  *)
(* the notary set's length.                                                                    *)
can_filter(notary, previous, active) ==
    /\ Len(notary) = Len(previous)
    /\ Len(active) >= Len(notary)
filter_eligible_operators(notary, previous, active) ==
    [i \in 1 .. Len(notary) |-> active[i] /\ notary[i] /\ ~previous[i]]

(***************************************************************************)
(* Withdrawals.                                                            *)
(***************************************************************************)
WithdrawalOutput(destination, amt) == [destination |-> destination, amt |-> amt]
WithdrawalIntent(destination, amt, operator) ==
    [destination |-> destination, amt |-> amt, selected_operator |-> operator]
to_output(intent) == WithdrawalOutput(intent.destination, intent.amt)

(* How many deposits an intent consumes: none when the amount is not a multiple. *)
has_units(intent, denomination) == denomination # 0 /\ intent.amt % denomination = 0
denomination_units(intent, denomination) == intent.amt \div denomination
decompose(intent, denomination) ==
    [i \in 1 .. denomination_units(intent, denomination) |->
        WithdrawalIntent(intent.destination, denomination, intent.selected_operator)]

(***************************************************************************)
(* Operator claims: the leaf a fulfilled withdrawal exports.  Version 0    *)
(* names the assignee by index, version 1 by key.                          *)
(***************************************************************************)
OperatorClaimUnlockV0(deposit_idx, operator_idx) == <<"claim0", deposit_idx, operator_idx>>
OperatorClaimUnlockV1(deposit_idx, operator_pubkey) == <<"claim1", deposit_idx, operator_pubkey>>

(***************************************************************************)
(* The safe harbor: an address on the chain's network that is a taproot    *)
(* output with a valid key, and whether it is activated.                   *)
(***************************************************************************)
SafeHarborAddressOk(address) == address.kind = "p2tr" /\ address.on_curve
SafeHarborAddressFrom(address) == <<"p2tr", address.program>>
check_safe_harbor_network(address, network) == address.network = network

SafeHarbor(address) == [address |-> address, activated |-> FALSE]
set_activated(harbor) == [harbor EXCEPT !.activated = TRUE]
update_address(harbor, address) ==
    IF harbor.activated THEN harbor ELSE [harbor EXCEPT !.address = address]
=============================================================================
