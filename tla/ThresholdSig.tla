---------------------------- MODULE ThresholdSig ----------------------------
(***************************************************************************)
(* The threshold signature scheme of the administration subprotocol: a     *)
(* configuration lists signer addresses in order, a signature names the    *)
(* position of its signer, and enough valid signatures by distinct         *)
(* positions authorize a message.                                          *)
(*                                                                         *)
(* Signing is abstract: a signature records the key that made it and the   *)
(* message it was made over; recovering a key from it under another        *)
(* message yields a key that is nobody's.                                  *)
(***************************************************************************)
EXTENDS Lists, FiniteSets

CONSTANT MAX_SIGNERS    \* capacity of a signer list (256 in the code)

\* A configuration holds at least one signer.
ASSUME MaxSignersAssumption == MAX_SIGNERS \in Nat \ {0}

(***************************************************************************)
(* Addresses.  Only a P2WPKH address stands for a signer: its program is   *)
(* the hash of one key, the network it is written for is dropped.          *)
(***************************************************************************)
is_p2wpkh(address) == address.kind = "p2wpkh"
try_from_address(address) == address.program
from_pubkey(key) == key
is_valid_for_network(address, network) == address.network = network

(* Configurations, and the updates of them that decode or can be built: their threshold is not *)
(* zero, and the lists of an update are bounded each on its own.                               *)
bounded_members(members) == Len(members) <= MAX_SIGNERS

ThresholdConfig(config) == IsList(config.signers) /\ config.threshold \in Nat \ {0}
ThresholdConfigUpdate(update) ==
    /\ IsList(update.add_members) /\ bounded_members(update.add_members)
    /\ IsList(update.remove_members) /\ bounded_members(update.remove_members)
    /\ update.new_threshold \in Nat \ {0}

updated_size(config, update) ==
    Len(config.signers) + Len(update.add_members) - Len(update.remove_members)

validate_update(config, update) ==
    /\ IsInjective(update.add_members)
    /\ IsInjective(update.remove_members)
    /\ Range(update.add_members) \cap Range(config.signers) = {}
    /\ Range(update.remove_members) \subseteq Range(config.signers)
    /\ updated_size(config, update) <= MAX_SIGNERS
    /\ update.new_threshold <= updated_size(config, update)

apply_update(config, update) ==
    [signers |-> Keep(config.signers, Range(config.signers) \ Range(update.remove_members))
                     \o update.add_members,
     threshold |-> update.new_threshold]

(* A configuration is built by adding its signers to an empty one; it is refused unless the    *)
(* addresses are P2WPKH and that update validates.                                             *)
EmptyConfig(threshold) == [signers |-> <<>>, threshold |-> threshold]
SignersUpdate(unchecked) ==
    [add_members |-> [i \in DOMAIN unchecked.signers |-> try_from_address(unchecked.signers[i])],
     remove_members |-> <<>>,
     new_threshold |-> unchecked.threshold]
CanResolve(unchecked) ==
    /\ \A i \in DOMAIN unchecked.signers : is_p2wpkh(unchecked.signers[i])
    /\ ThresholdConfigUpdate(SignersUpdate(unchecked))
    /\ validate_update(EmptyConfig(unchecked.threshold), SignersUpdate(unchecked))
ThresholdConfigFrom(unchecked) ==
    apply_update(EmptyConfig(unchecked.threshold), SignersUpdate(unchecked))

(***************************************************************************)
(* Signatures: the signer's position (from 0), the recovery header, the    *)
(* key that signed and the message it signed.                              *)
(***************************************************************************)
IndexedSignature(index, header, key, message) ==
    [index |-> index, header |-> header, key |-> key, message |-> message]

SignatureSetOk(sigs) ==
    /\ \A i, j \in DOMAIN sigs : sigs[i].index = sigs[j].index => i = j
    /\ Len(sigs) <= MAX_SIGNERS

(* Raw headers, then the three BIP-137 ranges, all onto 0..3. *)
normalize_recovery_id(header) ==
    CASE header \in 0 .. 3 -> header
      [] header \in 31 .. 34 -> header - 31
      [] header \in 35 .. 38 -> header - 35
      [] header \in 39 .. 42 -> header - 39
      [] OTHER -> -1

NobodysKey == "nobody"
recover_ecdsa(sig, message) == IF sig.message = message THEN sig.key ELSE NobodysKey

verify_ecdsa_signatures(config, sigs, message) ==
    \A i \in DOMAIN sigs :
        /\ sigs[i].index < Len(config.signers)
        /\ normalize_recovery_id(sigs[i].header) >= 0
        /\ from_pubkey(recover_ecdsa(sigs[i], message)) = config.signers[sigs[i].index + 1]

verify_threshold_signatures(config, sigs, message) ==
    /\ SignatureSetOk(sigs)
    /\ Len(sigs) >= config.threshold
    /\ verify_ecdsa_signatures(config, sigs, message)
=============================================================================
