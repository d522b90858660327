------------------------------ MODULE MCAsmStf ------------------------------
(***************************************************************************)
(* Blocks for AsmStf: one set in which administration hands over signer    *)
(* sets, sequencer keys and predicates while checkpoints are posted, and   *)
(* one in which deposits, withdrawals and operators come and go.           *)
(***************************************************************************)
EXTENDS AsmStf

Tx(txid, sub, type, tag, ins, outs) ==
    [txid |-> txid, sub |-> sub, type |-> type, aux |-> tag, ins |-> ins, outs |-> outs]
In(txid, vout, witness) == [txid |-> txid, vout |-> vout, witness |-> witness]
Out(script, value) == [script |-> script, value |-> value]

(* The body of a block: its coinbase commits to the witnesses when there are any. *)
Coinbase(witness, outs) == Tx("coinbase", "none", 0, <<"raw">>, << In("null", 0, witness) >>, outs)
Reserved == <<"bytes32">>
BlockOf(txs) ==
    LET root == calculate_root(wtxids(<<Coinbase(NoWitness, <<>>)>> \o txs))
    IN  << IF HasWitness(txs)
           THEN Coinbase(<<"items", <<Reserved>> >>,
                         << Out(<<"witness", witness_commitment(root, Reserved)>>, 0) >>)
           ELSE Coinbase(NoWitness, <<>>) >> \o txs
Op == Out(<<"op_return", 0>>, 0)

Address(program) == [kind |-> "p2wpkh", program |-> program, network |-> "regtest"]
Signers(keys, threshold) ==
    [signers |-> [i \in DOMAIN keys |-> Address(keys[i])], threshold |-> threshold]
McSigners ==
    [r \in Role |->
        CASE r = "StrataAdministrator" -> Signers(<<"a", "b">>, 2)
          [] r = "StrataSequencerManager" -> Signers(<<"m">>, 1)
          [] r = "AlpenAdministrator" -> Signers(<<"e">>, 1)
          [] r = "StrataSecurityCouncil" -> Signers(<<"c">>, 1)]

Depths(delayed) ==
    [t \in UpdateTypes \ {"Defcon1"} |-> IF t \in DOMAIN delayed THEN delayed[t] ELSE 0]

(* An administration transaction, signed by the keys at the given positions. *)
AdminTx(byte, shape, content, seqno, message, positions, keys) ==
    Tx("admin", "admin", byte, <<"raw">>,
       << In("f", seqno, <<"leaf", [seqno |-> seqno, shape |-> shape, content |-> content,
            signatures |-> [i \in DOMAIN keys |->
                IndexedSignature(positions[i], 31, keys[i], message)]]>>) >>, <<>>)
Update(update, seqno, keys) ==
    LET byte == CHOOSE b \in DOMAIN UpdateTxType : UpdateTxType[b] = update_tx_type(update)
    IN  AdminTx(byte, Shape(update_tx_type(update)), update[2], seqno,
                SigningMessage(FALSE, update, seqno), [i \in DOMAIN keys |-> i - 1], keys)
Cancel(id, update, seqno, keys) ==
    AdminTx(CANCEL_TX_TYPE, "id", id, seqno, SigningMessage(TRUE, update, seqno),
            [i \in DOMAIN keys |-> i - 1], keys)

(* A checkpoint from the height prev to the height new; every epoch is one slot long. *)
CheckpointTx(epoch, prev, new, predicate, key, ol_logs, source) ==
    LET last == CheckpointTip(epoch - 1, prev, epoch - 1)
        tip == CheckpointTip(epoch, new, epoch)
        body == CheckpointPayload(tip, CheckpointSidecar("d", ol_logs, "t"), "none")
        claim == construct_full_claim(last, body, compute_asm_manifests_hash(last, tip))
    IN  Tx("ckpt", "checkpoint", OL_STF_CHECKPOINT_TX_TYPE, <<"raw">>,
           << In(source, epoch - 1, <<"signed", [pubkey |-> key, payload |-> <<"checkpoint",
                [body EXCEPT !.proof = [predicate |-> predicate, claim |-> claim]]>>]>>) >>, <<>>)

Fund(txid, script, n) == Tx(txid, "none", 0, <<"raw">>, <<>>, [i \in 1 .. n |-> Out(script, 1)])
FundingTxs == "f" :> Fund("f", <<"p2tr", "s">>, 4) @@ "w" :> Fund("w", <<"p2wpkh", "s">>, 1)

McRegistry == [v0 |-> 0, v1 |-> 1]
McSafeHarbor == [kind |-> "p2tr", on_curve |-> TRUE, program |-> "h", network |-> "regtest"]

-----------------------------------------------------------------------------
(* Headers.  Blocks are eight apart unless the block is empty: an empty    *)
(* one may also come early or late, so that intervals of two blocks are    *)
(* short, long or even negative, and targets move to both of their limits. *)
McAnchor ==
    [network |-> "regtest", height |-> 1, next_target |-> 64, epoch_start_timestamp |-> 0]
OnTime(h) == 8 * h
OtherTimes == 3 :> {12, 60} @@ 4 :> {20} @@ 5 :> {22, 30}
Times(h) == {OnTime(h)} \cup IF h \in DOMAIN OtherTimes THEN OtherTimes[h] ELSE {}
Retargets(targets, h) ==
    {from_next_work_required(b, saturating_sub(end, start)) :
        b \in targets, end \in Times(h - 1), start \in Times(h - 2)}
Targets(h) ==
    CASE h < 4 -> {64}
      [] h \in {4, 5} -> Retargets({64}, 4)
      [] h = 6 -> Retargets(Retargets({64}, 4), 6)

(* The block a miner found over txs, and what a node may be handed in its place. *)
Header(prev, bits, time, txs) ==
    [prev_blockhash |-> prev, bits |-> bits, time |-> time,
     merkle_root |-> calculate_root(txids(txs)), met |-> TRUE]
Mined(header, txs) ==
    [header |-> header, txs |-> txs, coinbase_proof |-> generate(txs, 0), mined |-> txs]
Delivered(block, txs) == [block EXCEPT !.txs = txs, !.coinbase_proof = generate(txs, 0)]
RepeatedTails(txs) ==
    {txs \o SubSeq(txs, i, Len(txs)) : i \in {j \in 2 .. Len(txs) : Len(txs) + 1 - j <= 2}}
NoTxs == BlockOf(<<>>)

(* The blocks that may follow prev when it is on time, and the ones around empty blocks. *)
OnTimeBlocks(prev, bodies) ==
    {Mined(Header(prev, bits, OnTime(prev + 1), txs), txs) : bits \in Targets(prev + 1), txs \in bodies}
OffTimeBlocks(prev) ==
    {Mined(Header(prev, bits, time, NoTxs), NoTxs) :
        bits \in Targets(prev + 1) \cup {32}, time \in Times(prev + 1)}
Unverifiable(blocks) ==
    UNION {{Delivered(b, txs) : txs \in RepeatedTails(b.txs)} :
               b \in {b \in blocks : Len(b.txs) \in {3, 6}}}
    \cup {[b EXCEPT !.header.met = FALSE] : b \in {b \in blocks : b.txs = NoTxs}}
    \cup {[b EXCEPT !.header.prev_blockhash = @ - 1] : b \in {b \in blocks : b.txs = NoTxs}}
Extending(prev, bodies) ==
    OnTimeBlocks(prev, bodies) \cup OffTimeBlocks(prev) \cup Unverifiable(OnTimeBlocks(prev, bodies))
-----------------------------------------------------------------------------
(* Handover: rotations of the predicate, the sequencer key and the signers *)
(* around a few checkpoints.                                               *)
MultisigChange(add, remove, threshold) ==
    [add_members |-> add, remove_members |-> remove, new_threshold |-> threshold]

RotateTo1 == Update(OlStfVkUpdate("k1"), 1, <<"a", "b">>)
RotateTo2 == Update(OlStfVkUpdate("k2"), 2, <<"a", "b">>)
RotateTo3 == Update(OlStfVkUpdate("k3"), 3, <<"a", "b">>)
RotateAlone == Update(OlStfVkUpdate("k2"), 3, <<"a">>)
CancelRotation == Cancel(0, OlStfVkUpdate("k1"), 2, <<"a", "b">>)
AsmUpgrade == Update(AsmStfVkUpdate("v1"), 1, <<"a", "b">>)
CancelUpgrade == Cancel(0, AsmStfVkUpdate("v1"), 2, <<"a", "b">>)
DropB == Update(StrataAdminMultisigUpdate(MultisigChange(<<>>, <<"b">>, 1)), 2, <<"a", "b">>)
SwapA == Update(StrataAdminMultisigUpdate(MultisigChange(<<"z">>, <<"a">>, 2)), 3, <<"a", "b">>)
NewSequencer == Update(SequencerUpdate("s2"), 1, <<"m">>)
EeRotation == Update(EeStfVkUpdate("e1"), 1, <<"e">>)
Unsigned == Update(SequencerUpdate("s2"), 1, <<"x">>)

Ckpt(epoch, prev, new, predicate, key) == CheckpointTx(epoch, prev, new, predicate, key, <<>>, "f")
HandoverCheckpoints ==
    {Ckpt(1, 1, 2, "k0", "s1"), Ckpt(1, 1, 3, "k0", "s1"), Ckpt(1, 1, 4, "k0", "s1"),
     Ckpt(1, 1, 1, "k0", "s1"), Ckpt(1, 1, 2, "k1", "s1"), Ckpt(1, 1, 3, "k0", "s2"),
     Ckpt(2, 2, 3, "k0", "s1"), Ckpt(2, 2, 3, "k1", "s1"), Ckpt(2, 3, 4, "k1", "s1"),
     Ckpt(2, 3, 4, "k2", "s1"), Ckpt(2, 3, 4, "k0", "s1"), Ckpt(3, 3, 4, "k1", "s1"),
     CheckpointTx(1, 1, 2, "k0", "s1", <<>>, "w")}
HandoverUpdates ==
    {RotateTo1, RotateTo2, RotateTo3, RotateAlone, AsmUpgrade, CancelUpgrade, DropB, NewSequencer,
     Unsigned}
HandoverBodies ==
    {BlockOf(<<>>)} \cup {BlockOf(<<t>>) : t \in HandoverCheckpoints \cup HandoverUpdates}
    \cup {BlockOf(<<RotateTo1, RotateTo2>>), BlockOf(<<RotateTo1, CancelRotation>>),
          BlockOf(<<DropB, SwapA>>),
          BlockOf(<<NewSequencer, EeRotation>>), BlockOf(<<RotateTo3, Ckpt(1, 1, 3, "k0", "s1")>>),
          BlockOf(<<RotateTo2, Ckpt(1, 1, 2, "k0", "s1")>>),
          BlockOf(<<Ckpt(1, 1, 2, "k0", "s1"), Ckpt(2, 2, 3, "k0", "s1")>>),
          BlockOf(<<Unsigned, RotateTo1, AsmUpgrade, RotateTo2, RotateAlone>>)}
HandoverBlocks == [prev \in 1 .. 5 |-> Extending(prev, HandoverBodies)]
HandoverDepths == Depths([OlStfVk |-> 1, StrataAdminMultisig |-> 1, EeStfVk |-> 1, AsmStfVk |-> 2])
HandoverTxs == FundingTxs
HandoverOperators == <<"o0", "o1">>
-----------------------------------------------------------------------------
(* Peg: deposits under three operator sets, withdrawals of one and two     *)
(* deposits, fulfillments early and late, removals and a joining operator, *)
(* and a safe harbor update that races its activation.                     *)
Agg(keys) == aggregate_schnorr_keys(keys)
RequestTx(txid, keys) ==
    Tx(txid, "bridge", 0, <<"drt", "r", <<"acct">>>>, <<>>,
       << Op, Out(create_deposit_request_locking_script("r", Agg(keys), recovery_delay),
                  denomination) >>)
Both == {"o0", "o1"}
Alone == {"o0"}
Three == {"o0", "o1", "o2"}
StakeLeaf == stake_connector_script("x", Agg(Both))
PegTxs ==
    FundingTxs @@
    "drt2" :> RequestTx("drt2", Both) @@ "drt1" :> RequestTx("drt1", Alone) @@
    "drt3" :> RequestTx("drt3", Three) @@ "drt4" :> RequestTx("drt4", Both) @@
    "slashed" :> Fund("slashed", build_nn_script(Agg(Both)), 1) @@
    "stake" :> Fund("stake", <<"stake", StakeLeaf>>, 1)

KeyPath == <<"items", << <<"sig", 64>> >> >>
DepositTx(idx, drt, keys) ==
    Tx("dt", "bridge", 1, <<"idx", idx>>, << In(drt, 1, KeyPath) >>,
       << Op, Out(build_nn_script(Agg(keys)), denomination) >>)
FulfillTx(idx) ==
    Tx("wf", "bridge", 2, <<"idx", idx>>, <<>>,
       << Op, Out(<<"p2tr", "u">>, denomination - operator_fee) >>)
SlashTx(idx) ==
    Tx("sl", "bridge", 4, <<"idx", idx>>, << In("f", 0, KeyPath), In("slashed", 0, KeyPath) >>, <<>>)
UnstakeTx(idx) ==
    Tx("un", "bridge", 5, <<"idx", idx>>,
       << In("stake", 0, <<"items", << <<"data">>, <<"sig", 64>>, <<"script", StakeLeaf>>,
                                       <<"data">> >> >>) >>, <<>>)

Withdrawal(units, operator) ==
    OLLog("bridge_gateway", "withdrawal_intent", "u", units * denomination, operator)
OtherLog == OLLog("account", "transfer", "u", 1, any)
Orders(epoch, ol_logs) == CheckpointTx(epoch, 1, 1, "k0", "s1", ol_logs, "f")
OrderOne == Orders(1, <<Withdrawal(1, 1), OtherLog>>)
OrderTwo == Orders(1, <<Withdrawal(2, any)>>)
OrderMore == Orders(2, <<Withdrawal(1, any)>>)
OrderEach == Orders(1, <<Withdrawal(1, any), Withdrawal(1, 0)>>)

Join == Update(OperatorSetUpdate(<<"o2">>, <<>>), 1, <<"a", "b">>)
Upgrade == Update(AsmStfVkUpdate("v1"), 2, <<"a", "b">>)
NewHarbor == Update(SafeHarborAddressUpdate(<<"p2tr", "h2">>), 1, <<"a", "b">>)
Defcon1 == Update(Defcon1Update, 1, <<"c">>)
PegDepths == Depths([SafeHarborAddress |-> 1])

PegBodies ==
    {BlockOf(<<>>)} \cup
    {BlockOf(<<t>>) : t \in {DepositTx(0, "drt2", Both), DepositTx(1, "drt1", Alone),
                            DepositTx(1, "drt3", Three), FulfillTx(0), FulfillTx(1),
                            SlashTx(1), UnstakeTx(1), Join, Upgrade, NewHarbor, Defcon1,
                            OrderOne, OrderTwo, OrderMore}} \cup
    {BlockOf(<<DepositTx(0, "drt2", Both), DepositTx(1, "drt4", Both)>>),
     BlockOf(<<DepositTx(1, "drt2", Both), SlashTx(1), OrderOne>>),
     BlockOf(<<OrderOne, OrderMore>>), BlockOf(<<NewHarbor, Defcon1>>),
     BlockOf(<<OrderEach, Join>>)}
PegBlocks == [prev \in 1 .. 5 |-> {b \in OnTimeBlocks(prev, PegBodies) : b.header.bits = 64}]
PegOperators == <<"o0", "o1">>
-----------------------------------------------------------------------------
(* The sorted vectors of the tables, against the functions they stand for: *)
(* keys 0 to 3, at most three entries.                                     *)
Vec == INSTANCE SortedVec
Vectors == UNION {[1 .. n -> (0 .. 3) \X {"a"}] : n \in 0 .. 3}
SortedVectors == {v \in Vectors : Vec!is_sorted(v)}
SafeVectors == {v \in Vectors : Vec!check_table_vec(v) = "Safe"}
Marked(v) == [i \in DOMAIN v |-> <<v[i][1], "b">>]
Entries(v) == [e \in Range(v) |-> Cardinality({i \in DOMAIN v : v[i] = e})]

\* Every operation has a result; sorted vectors stay sorted, duplicates kept; a
\* table without duplicates keeps one entry per key, the newer one after a merge.
ASSUME VectorsImplementTables ==
    /\ \A v \in SortedVectors, k \in 0 .. 3 :
        /\ Vec!insert(v, <<k, "b">>) # {} /\ Vec!remove(v, k) # {}
        /\ \A w \in Vec!insert(v, <<k, "b">>) \cup Vec!remove(v, k) : Vec!is_sorted(w)
    /\ \A v, w \in SortedVectors :
        /\ Vec!is_sorted(Vec!merge(v, Marked(w)))
        /\ Entries(Vec!merge(v, Marked(w))) = Entries(v) @@ Entries(Marked(w))
    /\ \A v \in SafeVectors, k \in 0 .. 3 : \A w \in Vec!table_insert(v, <<k, "b">>) :
        /\ Vec!check_table_vec(w) = "Safe"
        /\ Vec!TableOf(w) = (k :> "b") @@ Vec!TableOf(v)
    /\ \A v, w \in SafeVectors :
        /\ Vec!check_table_vec(Vec!table_merge(v, Marked(w))) = "Safe"
        /\ Vec!TableOf(Vec!table_merge(v, Marked(w))) = Vec!TableOf(Marked(w)) @@ Vec!TableOf(v)
=============================================================================
