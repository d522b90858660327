------------------------------ MODULE AdminTxs ------------------------------
(***************************************************************************)
(* The vocabulary of the administration subprotocol: roles, update types   *)
(* and their wire identifiers, the envelope a transaction carries and the  *)
(* message signers sign.                                                   *)
(*                                                                         *)
(* An update is a pair <<type, content>>.  On the wire the type is the     *)
(* SPS-50 tx type byte and nothing else: the envelope holds the content,   *)
(* whose layout (shape) several types share.                               *)
(***************************************************************************)
EXTENDS ThresholdSig, TLC

CONSTANT Network    \* the network the chain is anchored to

Role == {"StrataAdministrator", "StrataSequencerManager", "AlpenAdministrator",
         "StrataSecurityCouncil"}

(* The wire identifier of each update type. *)
UpdateTxType ==
    10 :> "StrataAdminMultisig" @@ 11 :> "OlStfVk" @@ 12 :> "AsmStfVk" @@ 13 :> "Operator" @@
    14 :> "SafeHarborAddress" @@ 15 :> "StrataSecurityCouncilMultisig" @@
    20 :> "StrataSeqManagerMultisig" @@ 21 :> "Sequencer" @@
    30 :> "AlpenAdminMultisig" @@ 31 :> "EeStfVk" @@ 41 :> "Defcon1" @@ 43 :> "Defcon3"
CANCEL_TX_TYPE == 0
IsAdminTxType(byte) == byte = CANCEL_TX_TYPE \/ byte \in DOMAIN UpdateTxType

(* The role that authorizes each type. *)
authorized_role(type) ==
    CASE type \in {"StrataAdminMultisig", "OlStfVk", "AsmStfVk", "Operator", "SafeHarborAddress",
                   "StrataSecurityCouncilMultisig"} -> "StrataAdministrator"
      [] type \in {"AlpenAdminMultisig", "EeStfVk"} -> "AlpenAdministrator"
      [] type \in {"Sequencer", "StrataSeqManagerMultisig"} -> "StrataSequencerManager"
      [] type \in {"Defcon1", "Defcon3"} -> "StrataSecurityCouncil"

(* The role whose signer set a multisig update changes. *)
MultisigRole ==
    [StrataAdminMultisig |-> "StrataAdministrator",
     StrataSeqManagerMultisig |-> "StrataSequencerManager",
     AlpenAdminMultisig |-> "AlpenAdministrator",
     StrataSecurityCouncilMultisig |-> "StrataSecurityCouncil"]

(* One constructor per action. *)
StrataAdminMultisigUpdate(config) == <<"StrataAdminMultisig", config>>
StrataSeqManagerMultisigUpdate(config) == <<"StrataSeqManagerMultisig", config>>
AlpenAdminMultisigUpdate(config) == <<"AlpenAdminMultisig", config>>
StrataSecurityCouncilMultisigUpdate(config) == <<"StrataSecurityCouncilMultisig", config>>
OlStfVkUpdate(key) == <<"OlStfVk", key>>
AsmStfVkUpdate(key) == <<"AsmStfVk", key>>
EeStfVkUpdate(key) == <<"EeStfVk", key>>
OperatorSetUpdate(add_members, remove_members) ==
    <<"Operator", [add_members |-> add_members, remove_members |-> remove_members]>>
SafeHarborAddressUpdate(address) == <<"SafeHarborAddress", address>>
SequencerUpdate(pub_key) == <<"Sequencer", pub_key>>
Defcon1Update == <<"Defcon1", "unit">>
Defcon3Update == <<"Defcon3", "unit">>

update_tx_type(update) == update[1]
required_role(update) == authorized_role(update_tx_type(update))

(* The layout of each type's content. *)
Shape(type) ==
    CASE type \in DOMAIN MultisigRole -> "config"
      [] type \in {"OlStfVk", "AsmStfVk", "EeStfVk"} -> "predicate"
      [] type = "Operator" -> "operators"
      [] type = "Sequencer" -> "key"
      [] type = "SafeHarborAddress" -> "address"
      [] OTHER -> "unit"

(***************************************************************************)
(* Envelopes: the first input's witness reveals a leaf script that holds   *)
(* the payload [seqno, shape, content, signatures].                        *)
(***************************************************************************)
HasLeafScript(tx) == Len(tx.ins) >= 1 /\ tx.ins[1].witness[1] = "leaf"
EnvelopeBytes(tx) == tx.ins[1].witness[2]

(* The bytes hold a sequence number and a content of the expected layout, lists within bounds. *)
decode_wire(bytes, shape) ==
    /\ bytes.shape = shape
    /\ bytes.seqno \in Nat
    /\ shape = "config" => ThresholdConfigUpdate(bytes.content)
    /\ shape = "operators" => IsList(bytes.content.add_members) /\ IsList(bytes.content.remove_members)
decode_signed_payload(byte, bytes) ==
    IF byte = CANCEL_TX_TYPE
    THEN [seqno |-> bytes.seqno, action |-> <<"Cancel", bytes.content>>, signatures |-> bytes.signatures]
    ELSE [seqno |-> bytes.seqno, action |-> <<UpdateTxType[byte], bytes.content>>,
          signatures |-> bytes.signatures]

(* A transaction of an unknown type, without an envelope or with one that does not decode as   *)
(* the tagged type is skipped.                                                                 *)
AdminParses(tx) ==
    /\ IsAdminTxType(tx.type)
    /\ HasLeafScript(tx)
    /\ decode_wire(EnvelopeBytes(tx),
                   IF tx.type = CANCEL_TX_TYPE THEN "id" ELSE Shape(UpdateTxType[tx.type]))
AdminPayload(tx) == decode_signed_payload(tx.type, EnvelopeBytes(tx))

IsCancel(payload) == payload.action[1] = "Cancel"

(* The details show every field of the update, long predicates by their hash: no two updates    *)
(* of a type read alike.                                                                       *)
render_details(update) == update[2]

(* What signers see: network, action type, authorizing role, sequence number and the details   *)
(* of the update.  A cancel shows the update it targets, type included, never the id.          *)
SigningMessage(cancel, update, seqno) ==
    <<Network, IF cancel THEN "Cancel" ELSE update_tx_type(update), required_role(update), seqno,
      update_tx_type(update), render_details(update)>>
=============================================================================
