------------------------------- MODULE Admin --------------------------------
(***************************************************************************)
(* The administration subprotocol.  Each L1 block it first enacts the      *)
(* queued updates that reached their activation height, then handles the   *)
(* administration transactions of the block: an update authorized by its   *)
(* role is queued for its confirmation depth (or enacted at once when the  *)
(* depth is zero), a cancel removes a queued one.  Enacting an update      *)
(* changes a signer set, sends a message to another subprotocol, or emits  *)
(* a log.                                                                  *)
(*                                                                         *)
(* accepted is a history variable: what became of each update, by id.      *)
(***************************************************************************)
EXTENDS AsmHost, AdminTxs

CONSTANTS
    InitSigners,        \* the signer set of each role in the parameter file
    ConfirmationDepths, \* the confirmation depth of each update type but Defcon1
    max_seqno_gap,      \* how far a sequence number may jump
    MAX_L1_HEIGHT       \* the largest L1 height (2^32 - 1 in the code)

UpdateTypes == Range(UpdateTxType)

(* Every signer of every role is an address on the network. *)
check_signer_networks(config, network) ==
    \A r \in Role : \A i \in DOMAIN config[r].signers : is_valid_for_network(config[r].signers[i], network)

\* The parameter file is refused unless every signer set resolves.
ASSUME AdminAssumption ==
    /\ DOMAIN InitSigners = Role
    /\ \A r \in Role : CanResolve(InitSigners[r])
    /\ ConfirmationDepths \in [UpdateTypes \ {"Defcon1"} -> Nat]
    /\ max_seqno_gap \in Nat \ {0}
    /\ MAX_L1_HEIGHT \in Nat

VARIABLES
    authorities,    \* per role: the threshold configuration and the last sequence number
    queued,         \* the updates waiting for their activation height
    next_update_id, \* the id of the next accepted update
    enacting,       \* the matured updates being enacted in this block
    block_updates,  \* BlockUpdateGuard: limited types already accepted in this block
    accepted        \* history: per update id, the update and what became of it

adminVars == <<authorities, queued, next_update_id, enacting, block_updates, accepted>>

QueuedUpdate(id, action, activation_height) ==
    [id |-> id, action |-> action, activation_height |-> activation_height]
MultisigAuthority(config) == [config |-> config, last_seqno |-> 0]

AdminTypeOK ==
    /\ DOMAIN authorities = Role
    /\ \A r \in Role : /\ authorities[r].last_seqno \in Nat
                       /\ Len(authorities[r].config.signers) <= MAX_SIGNERS
    /\ next_update_id = Len(accepted)
    /\ \A i \in DOMAIN queued : queued[i].id < next_update_id
    /\ block_updates \subseteq {"OlStfVk", "EeStfVk"}

AdminInit ==
    /\ authorities = [r \in Role |-> MultisigAuthority(ThresholdConfigFrom(InitSigners[r]))]
    /\ queued = <<>>
    /\ next_update_id = 0
    /\ enacting = <<>>
    /\ block_updates = {}
    /\ accepted = <<>>

(* A depth of zero means: apply at once. *)
confirmation_depth(type) == IF type = "Defcon1" THEN 0 ELSE ConfirmationDepths[type]

find_queued(id) == {i \in DOMAIN queued : queued[i].id = id}
remove_queued(id) == Keep(queued, {u \in Range(queued) : u.id # id})

(* Both verifying-key rotations are limited to one accepted update per block. *)
Limited(type) == type \in {"OlStfVk", "EeStfVk"}
admit(type) == Limited(type) => type \notin block_updates
Admitted(type) == block_updates \cup (IF Limited(type) THEN {type} ELSE {})

\* Mutant: the update was validated when it was accepted and is not validated again.
apply_multisig_update_unchecked(auths, role, update) ==
    [auths EXCEPT ![role].config = apply_update(@, update)]

(***************************************************************************)
(* handle_update: what enacting an update does.                            *)
(***************************************************************************)
apply_multisig_update(auths, role, update) ==
    IF validate_update(auths[role].config, update)
    THEN [auths EXCEPT ![role].config = apply_update(@, update)]
    ELSE auths

UpdatedAuthorities(auths, update) ==
    IF update_tx_type(update) \in DOMAIN MultisigRole
    THEN apply_multisig_update(auths, MultisigRole[update_tx_type(update)], update[2])
    ELSE auths

relay_checkpoint_sequencer_update(key) == << <<"UpdateSequencerKey", key>> >>
relay_checkpoint_predicate_update(key) == << <<"UpdateCheckpointPredicate", key>> >>
relay_bridge_operator_set_update(change) == << <<"UpdateOperatorSet", change>> >>
relay_bridge_defcon == << <<"Defcon", 0>> >>
relay_bridge_safe_harbor_address_update(address) == << <<"UpdateSafeHarborAddress", address>> >>

CheckpointMsgs(update) ==
    CASE update_tx_type(update) = "Sequencer" -> relay_checkpoint_sequencer_update(update[2])
      [] update_tx_type(update) = "OlStfVk" -> relay_checkpoint_predicate_update(update[2])
      [] OTHER -> <<>>
BridgeMsgs(update) ==
    CASE update_tx_type(update) = "Operator" -> relay_bridge_operator_set_update(update[2])
      [] update_tx_type(update) \in {"Defcon1", "Defcon3"} -> relay_bridge_defcon
      [] update_tx_type(update) = "SafeHarborAddress" ->
             relay_bridge_safe_harbor_address_update(update[2])
      [] OTHER -> <<>>

(* The logs of an enacted update: an OL rotation, an ASM STF rotation or an EE rotation. *)
UpdateLogs(update) ==
    CASE update_tx_type(update) = "OlStfVk" -> <<CheckpointPredicateEnacted(update[2])>>
      [] update_tx_type(update) = "AsmStfVk" -> <<AsmStfUpdate(update[2])>>
      [] update_tx_type(update) = "EeStfVk" -> <<EePredicateKeyUpdate("ee", update[2])>>
      [] OTHER -> <<>>

handle_update(auths, update) ==
    /\ authorities' = UpdatedAuthorities(auths, update)
    /\ inbox' = relay_msgs(relay_msgs(inbox, "checkpoint", CheckpointMsgs(update)),
                           "bridge", BridgeMsgs(update))
    /\ emit_logs(UpdateLogs(update))

Fate(update, due, fate, at) == [action |-> update, due |-> due, fate |-> fate, at |-> at]

\* Mutant: enacted a block late.
MaturedLate(u) == u.activation_height < height

(***************************************************************************)
(* Phase 1: the queue is drained, in queue order.                          *)
(***************************************************************************)
Matured(u) == u.activation_height <= height
process_queued == Keep(queued, {u \in Range(queued) : Matured(u)})
still_queued == Keep(queued, {u \in Range(queued) : ~Matured(u)})

DrainQueue ==
    /\ Running("admin_pending")
    /\ enacting' = process_queued
    /\ queued' = still_queued
    /\ block_updates' = {}
    /\ stage' = IF process_queued = <<>> THEN "admin" ELSE "admin_enact"
    /\ UNCHANGED <<chainVars, spec_id, next_predicate, num_entries, relevant, requests, aux, inbox, logs, halted>>
    /\ UNCHANGED <<authorities, next_update_id, accepted>>

EnactQueued ==
    /\ Running("admin_enact")
    /\ LET u == Head(enacting)
       IN  /\ handle_update(authorities, u.action)
           /\ accepted' = [accepted EXCEPT ![u.id + 1].fate = "enacted", ![u.id + 1].at = height]
    /\ enacting' = Tail(enacting)
    /\ stage' = IF Len(enacting) = 1 THEN "admin" ELSE stage
    /\ UNCHANGED <<chainVars, spec_id, next_predicate, num_entries, relevant, requests, aux, halted>>
    /\ UNCHANGED <<queued, next_update_id, block_updates>>

(***************************************************************************)
(* Phase 2: the transactions of the block, one handle_action each.         *)
(***************************************************************************)
(* A cancel is rebuilt from the update queued under its id. *)
Resolves(payload) == IsCancel(payload) => find_queued(payload.action[2]) # {}
ResolvedUpdate(payload) ==
    IF IsCancel(payload)
    THEN queued[CHOOSE i \in find_queued(payload.action[2]) : TRUE].action
    ELSE payload.action

SeqnoInWindow(authority, seqno) ==
    /\ seqno > authority.last_seqno
    /\ seqno <= authority.last_seqno + max_seqno_gap

verify_action_signature(authority, payload) ==
    /\ SeqnoInWindow(authority, payload.seqno)
    /\ verify_threshold_signatures(
           authority.config, payload.signatures,
           SigningMessage(IsCancel(payload), ResolvedUpdate(payload), payload.seqno))

Authorized(payload) ==
    /\ Resolves(payload)
    /\ verify_action_signature(authorities[required_role(ResolvedUpdate(payload))], payload)

(* The sequence number is burned before the action is accepted or rejected. *)
update_last_seqno(payload) ==
    [authorities EXCEPT ![required_role(ResolvedUpdate(payload))].last_seqno = payload.seqno]

ActivationHeight(update) == height + confirmation_depth(update_tx_type(update))

(* Nothing in the transaction is ours, or its signatures do not verify: nothing changes. *)
IgnoreAdminTx ==
    /\ Running("admin")
    /\ relevant["admin"] # <<>>
    /\ \/ ~AdminParses(NextTx("admin"))
       \/ AdminParses(NextTx("admin")) /\ ~Authorized(AdminPayload(NextTx("admin")))
    /\ TakeTx("admin")
    /\ UNCHANGED <<chainVars, spec_id, next_predicate, num_entries, stage, requests, aux, inbox, logs, halted>>
    /\ UNCHANGED adminVars

(* The next transaction carries an authorized payload. *)
AuthorizedTx ==
    /\ Running("admin")
    /\ relevant["admin"] # <<>>
    /\ AdminParses(NextTx("admin"))
    /\ Authorized(AdminPayload(NextTx("admin")))
    /\ TakeTx("admin")
    /\ UNCHANGED <<chainVars, spec_id, next_predicate, num_entries, stage, requests, aux, halted, enacting>>

(* A second rotation of a limited type in one block, or an activation height past the end of   *)
(* the height range: rejected, and the sequence number is spent all the same.                  *)
RejectUpdate ==
    LET payload == AdminPayload(NextTx("admin"))
        type == update_tx_type(payload.action)
    IN  /\ AuthorizedTx
        /\ ~IsCancel(payload)
        /\ \/ ~admit(type) /\ UNCHANGED block_updates
           \/ /\ admit(type)
              /\ confirmation_depth(type) # 0
              /\ ActivationHeight(payload.action) > MAX_L1_HEIGHT
              /\ block_updates' = Admitted(type)
        /\ authorities' = update_last_seqno(payload)
        /\ UNCHANGED <<inbox, logs, queued, next_update_id, accepted>>

EnqueueUpdate ==
    LET payload == AdminPayload(NextTx("admin"))
        type == update_tx_type(payload.action)
    IN  /\ AuthorizedTx
        /\ ~IsCancel(payload)
        /\ admit(type)
        /\ confirmation_depth(type) # 0
        /\ ActivationHeight(payload.action) <= MAX_L1_HEIGHT
        /\ authorities' = update_last_seqno(payload)
        /\ block_updates' = Admitted(type)
        /\ queued' = Append(queued, QueuedUpdate(next_update_id, payload.action,
                                                 ActivationHeight(payload.action)))
        /\ next_update_id' = next_update_id + 1
        /\ accepted' = Append(accepted, Fate(payload.action, ActivationHeight(payload.action),
                                             "queued", height))
        /\ UNCHANGED <<inbox, logs>>

ApplyImmediately ==
    LET payload == AdminPayload(NextTx("admin"))
        type == update_tx_type(payload.action)
    IN  /\ AuthorizedTx
        /\ ~IsCancel(payload)
        /\ admit(type)
        /\ confirmation_depth(type) = 0
        /\ block_updates' = Admitted(type)
        /\ handle_update(update_last_seqno(payload), payload.action)
        /\ next_update_id' = next_update_id + 1
        /\ accepted' = Append(accepted, Fate(payload.action, height, "enacted", height))
        /\ UNCHANGED queued

CancelUpdate ==
    LET payload == AdminPayload(NextTx("admin"))
        id == payload.action[2]
    IN  /\ AuthorizedTx
        /\ IsCancel(payload)
        /\ authorities' = update_last_seqno(payload)
        /\ queued' = remove_queued(id)
        /\ accepted' = [accepted EXCEPT ![id + 1].fate = "cancelled", ![id + 1].at = height]
        /\ UNCHANGED <<inbox, logs, next_update_id, block_updates>>

AdminNext ==
    \/ DrainQueue
    \/ EnactQueued
    \/ IgnoreAdminTx
    \/ RejectUpdate
    \/ EnqueueUpdate
    \/ ApplyImmediately
    \/ CancelUpdate
    \/ TxsDone("admin", "checkpoint") /\ UNCHANGED adminVars
=============================================================================
