------------------------------ MODULE AsmHost ------------------------------
(***************************************************************************)
(* The host of one ASM state transition: compute_asm_transition and its    *)
(* pre-processing pass, the subprotocol manager that buffers the messages  *)
(* subprotocols send each other, and the auxiliary data they ask for.      *)
(*                                                                         *)
(* A transition runs the subprotocols in one fixed order through the same  *)
(* stages for every L1 block: every subprotocol pre-processes the block's  *)
(* transactions on the state BEFORE the block and asks for auxiliary data; *)
(* then each one processes its transactions; then each one processes the   *)
(* messages buffered for it.  The variable stage names the step the        *)
(* transition is in; the actions of Admin, Checkpoint and Bridge are       *)
(* guarded by it, and AsmStf composes them.                                *)
(*                                                                         *)
(* A Rust panic inside the transition sets halted: the block can never be  *)
(* processed, and the machine stops.                                       *)
(***************************************************************************)
EXTENDS Lists, AsmLogs, HeaderVerification, BodyVerification, FiniteSets

CONSTANTS
    Blocks,         \* the L1 blocks offered once a height is verified: header, txs (coinbase
                    \* first), coinbase_proof, and mined, the transactions the header is for
    L1Txs,          \* the L1 transactions aux data can supply: a function on txids
    MaxHeight,      \* bound on the heights explored
    GenesisAsmPredicate,    \* the predicate that authorises the first block
    Registry,       \* the rulesets compiled into the node: predicate -> spec id
    MAX_LOGS        \* SSZ capacity of a manifest's log list

\* Blocks up to the last height, the two rulesets of the node, and the capacity of a manifest.
ASSUME HostAssumption ==
    /\ MaxHeight \in Nat /\ Anchor.height <= MaxHeight
    /\ Anchor.height .. MaxHeight - 1 \subseteq DOMAIN Blocks
    /\ \A prev \in DOMAIN Blocks : \A block \in Blocks[prev] :
           IsList(block.txs) /\ block.header.time \in Nat
    /\ GenesisAsmPredicate \in DOMAIN Registry
    /\ \A p \in DOMAIN Registry : Registry[p] \in {0, 1}
    /\ MAX_LOGS \in Nat

\* Whatever comes with a header, the header itself was mined for a body Bitcoin accepts.
ASSUME BodyAssumption == \A prev \in DOMAIN Blocks : \A block \in Blocks[prev] : IsOffered(block)

(* Every input spends an output of a transaction the Bitcoin node can serve. *)
SpendsExisting(tx) ==
    \A i \in DOMAIN tx.ins : /\ tx.ins[i].txid \in DOMAIN L1Txs
                             /\ tx.ins[i].vout + 1 \in DOMAIN L1Txs[tx.ins[i].txid].outs

\* A transaction whose inputs can be served.
Fed(tx) == IsList(tx.ins) /\ SpendsExisting(tx)

\* Bitcoin mines no transaction, the coinbase aside, that spends what does not exist.
ASSUME SpendsAssumption ==
    \A prev \in DOMAIN Blocks : \A block \in Blocks[prev] :
        \A i \in DOMAIN block.mined \ {1} : SpendsExisting(block.mined[i])

VARIABLES
    pow_state,  \* the header verification state: the block being, or last, processed
    headers,    \* history: the headers verified since the anchor
    mined,      \* history: the transactions the block being pre-processed was mined with
    spec_id,    \* the ruleset the anchor state was produced under
    next_predicate, \* the predicate the anchor state authorises for the next block
    num_entries,    \* leaves of the manifest MMR, the prefilled ones included
    stage,      \* the step of the transition
    relevant,   \* tx_bufs: what is left of each subprotocol's transactions
    requests,   \* the AuxRequests collected while pre-processing
    aux,        \* the VerifiedAuxData handed to the process stage
    inbox,      \* interproto_msg_buf of each handler
    logs,       \* the logs emitted in this block
    halted      \* the transition panicked

(* The height of the block being, or last, processed, and the height of the anchor block. *)
height == pow_state.last_verified_block
GenesisHeight == Anchor.height

chainVars == <<pow_state, headers, mined>>
hostVars == <<chainVars, spec_id, next_predicate, num_entries, stage, relevant, requests, aux, inbox,
              logs, halted>>

(* The order of call_subprotocols, the same in every stage. *)
Subprotocols == <<"admin", "checkpoint", "bridge">>
SubIds == {"admin", "checkpoint", "bridge"}

(* StrataAsmSpec accepts only its own states, StrataAsmSpecV1 also its predecessor's. *)
prepare(target, source) == IF target = 0 THEN source = 0 ELSE source \in {0, 1}

(* The registry resolves the ruleset of a block from the predicate its parent authorises. *)
CanExecute == next_predicate \in DOMAIN Registry /\ prepare(Registry[next_predicate], spec_id)

(***************************************************************************)
(* Transactions.  A transaction carries its SPS-50 tag (sub, type, aux),   *)
(* its inputs (the outpoint spent and the witness) and its outputs (script *)
(* and value); sub is "none" when the transaction has no valid tag.        *)
(***************************************************************************)
group_txs_by_subprotocol(txs) ==
    [s \in SubIds |-> Keep(Tail(txs), {t \in Range(Tail(txs)) : t.sub = s})]

(***************************************************************************)
(* The manifest MMR is prefilled up to genesis, so a leaf index is a height *)
(***************************************************************************)
accumulator_new(genesis) == genesis + 1
last_inserted_height == num_entries - 1

(***************************************************************************)
(* Auxiliary data.                                                         *)
(***************************************************************************)
NoRequests == [txs |-> {}, ranges |-> {}]

\* Mutant: a range of one height is taken for an empty one.
request_manifest_hashes_strict(start, end) ==
    IF start >= end \/ end > last_inserted_height THEN {} ELSE {<<start, end>>}

(* request_manifest_hashes drops an inverted range and one above the last manifest. *)
request_manifest_hashes(start, end) ==
    IF start > end \/ end > last_inserted_height THEN {} ELSE {<<start, end>>}

(* The worker cannot serve heights at or below genesis: it has no leaves there. *)
Resolvable(reqs) ==
    /\ \A r \in reqs.ranges : r[1] > GenesisHeight
    /\ reqs.txs \subseteq DOMAIN L1Txs

(* VerifiedAuxData: transactions by txid, manifest hashes by height.  Every proof must verify  *)
(* against the accumulator of the pre-state.                                                   *)
Verified(reqs) ==
    [txs |-> reqs.txs, heights |-> UNION {r[1] .. r[2] : r \in reqs.ranges}]
VerifiesAgainst(data) == \A h \in data.heights : h <= last_inserted_height

has_bitcoin_tx(txid) == txid \in aux.txs
has_bitcoin_txout(op) == has_bitcoin_tx(op.txid) /\ op.vout + 1 \in DOMAIN L1Txs[op.txid].outs
get_bitcoin_txout(op) == L1Txs[op.txid].outs[op.vout + 1]
has_manifest_hashes(start, end) == start <= end /\ start .. end \subseteq aux.heights

(***************************************************************************)
(* The relayer.                                                            *)
(***************************************************************************)
relay_msgs(box, to, msgs) == [box EXCEPT ![to] = @ \o msgs]
emit_logs(new) == logs' = logs \o new

(***************************************************************************)
(* Stages.                                                                 *)
(***************************************************************************)
Stages == <<"idle", "preprocess", "resolve", "admin_pending", "admin_enact", "admin", "checkpoint", "bridge",
            "bridge_expired", "checkpoint_msgs", "bridge_msgs", "export">>

HostTypeOK ==
    /\ height \in GenesisHeight .. MaxHeight
    /\ Len(headers) = height - GenesisHeight
    /\ spec_id \in {0, 1}
    /\ num_entries \in Nat
    /\ stage \in Range(Stages)
    /\ DOMAIN relevant = SubIds
    /\ DOMAIN inbox = SubIds
    /\ \A s \in SubIds : /\ DOMAIN relevant[s] = 1 .. Len(relevant[s])
                         /\ DOMAIN inbox[s] = 1 .. Len(inbox[s])
    /\ halted \in BOOLEAN

HostInit ==
    /\ pow_state = init(Anchor)
    /\ headers = <<>>
    /\ mined = <<>>
    /\ spec_id = Registry[GenesisAsmPredicate]
    /\ next_predicate = GenesisAsmPredicate
    /\ num_entries = accumulator_new(GenesisHeight)
    /\ stage = "idle"
    /\ relevant = [s \in SubIds |-> <<>>]
    /\ requests = NoRequests
    /\ aux = [txs |-> {}, heights |-> {}]
    /\ inbox = [s \in SubIds |-> <<>>]
    /\ logs = <<>>
    /\ halted = FALSE

Running(s) == stage = s /\ ~halted

Panic ==
    /\ halted' = TRUE
    /\ UNCHANGED <<chainVars, spec_id, next_predicate, num_entries, stage, relevant, requests, aux, inbox, logs>>

(* The blocks whose body is the one their header commits to; no anchor state is read for it. *)
WithIntegrity == [prev \in DOMAIN Blocks |-> {block \in Blocks[prev] : check_block_integrity(block)}]

(* A block whose body and header verify is taken: its transactions are grouped.  One that does *)
(* not verify is an error, and leaves the anchor state as it is.                               *)
StartBlock ==
    /\ Running("idle")
    /\ height < MaxHeight
    /\ \E block \in WithIntegrity[height] :
         /\ HeaderValid(pow_state, block.header)
         /\ pow_state' = check_and_update(pow_state, block.header)
         /\ headers' = Append(headers, [time |-> block.header.time, bits |-> block.header.bits])
         /\ mined' = block.mined
         /\ relevant' = group_txs_by_subprotocol(block.txs)
    /\ stage' = "preprocess"
    /\ logs' = <<>>
    /\ requests' = NoRequests
    /\ inbox' = [s \in SubIds |-> <<>>]
    /\ IF CanExecute
       THEN spec_id' = Registry[next_predicate] /\ halted' = FALSE
       ELSE spec_id' = spec_id /\ halted' = TRUE
    /\ UNCHANGED <<next_predicate, num_entries, aux>>

(* The pre-processing pass leaves the requests of every subprotocol; collected is their union. *)
PreProcess(collected) ==
    /\ Running("preprocess")
    /\ requests' = collected
    /\ stage' = "resolve"
    /\ mined' = <<>>
    /\ UNCHANGED <<pow_state, headers, spec_id, next_predicate, num_entries, relevant, aux, inbox, logs, halted>>

(* The worker resolves the requests; a request it cannot serve fails the block for good, and   *)
(* so does data that does not verify.                                                          *)
Resolve ==
    /\ Running("resolve")
    /\ IF Resolvable(requests) /\ VerifiesAgainst(Verified(requests))
       THEN /\ aux' = Verified(requests)
            /\ stage' = "admin_pending"
            /\ UNCHANGED halted
       ELSE /\ halted' = TRUE
            /\ UNCHANGED <<aux, stage>>
    /\ UNCHANGED <<chainVars, spec_id, next_predicate, num_entries, relevant, requests, inbox, logs>>

(* A subprotocol has no transaction left: its part of the process stage ends. *)
TxsDone(s, next) ==
    /\ Running(s)
    /\ relevant[s] = <<>>
    /\ stage' = next
    /\ UNCHANGED <<chainVars, spec_id, next_predicate, num_entries, relevant, requests, aux, inbox, logs, halted>>

(* All its messages are processed: its part of the finish stage ends. *)
MsgsDone(s, now, next) ==
    /\ Running(now)
    /\ inbox[s] = <<>>
    /\ stage' = next
    /\ UNCHANGED <<chainVars, spec_id, next_predicate, num_entries, relevant, requests, aux, inbox, logs, halted>>

(* The manifest of the block is appended, an upgrade among its logs authorises the next        *)
(* ruleset, and the sections are exported.  A manifest with more  *)
(* logs than its list can hold is an error, and an MMR whose last leaf is not this height       *)
(* fails the sanity assertion.                                                                  *)
ExportBlock ==
    /\ Running("export")
    /\ IF Len(logs) <= MAX_LOGS /\ num_entries = height
       THEN /\ num_entries' = num_entries + 1
            /\ next_predicate' = extract_next_predicate_from_logs(logs, next_predicate)
            /\ stage' = "idle"
            /\ aux' = [txs |-> {}, heights |-> {}]
            /\ requests' = NoRequests
            /\ logs' = <<>>
            /\ UNCHANGED halted
       ELSE /\ halted' = TRUE
            /\ UNCHANGED <<next_predicate, num_entries, stage, aux, requests, logs>>
    /\ UNCHANGED <<chainVars, spec_id, relevant, inbox>>

(* A handler takes its next transaction, or its next message. *)
NextTx(s) == Head(relevant[s])
TakeTx(s) == relevant' = [relevant EXCEPT ![s] = Tail(@)]
NextMsg(s) == Head(inbox[s])
TakeMsg(s) == inbox' = [inbox EXCEPT ![s] = Tail(@)]
=============================================================================
