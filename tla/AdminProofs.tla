---------------------------- MODULE AdminProofs ------------------------------
(***************************************************************************)
(* Proofs about the administration subprotocol, by itself and in the whole *)
(* transition.                                                             *)
(*                                                                         *)
(* The signer sets.  An update removes members of the set and adds others, *)
(* neither twice, so its size is the one validate_update computes; that is *)
(* a fact about selections from lists without repetitions.                 *)
(*                                                                         *)
(* The queue.  Its entries, and the matured ones being enacted, are tied   *)
(* to the history of accepted updates by their ids, which no two of them   *)
(* share.  The invariant also follows the height through a block: only     *)
(* between the start of a block and the draining of the queue may an       *)
(* update be due.                                                          *)
(*                                                                         *)
(* Rotations.  Two updates of the checkpoint predicate are never enacted   *)
(* at the same height, because they wait equally long and a block accepts  *)
(* one at most; so every rotation the checkpoints are sent is later than   *)
(* those they hold.                                                        *)
(*                                                                         *)
(* The parts of the invariant take the state they are about as parameters: *)
(* what a step does to them is then a fact about lists, without primes.    *)
(***************************************************************************)
EXTENDS AsmStf, Stages, TableProofs

\* A leaf that names no prover is given to Zenon.
USE ZenonT(60)

\* A configuration that can be exercised.
Quorate(config) ==
  /\ ThresholdConfig(config)
  /\ IsInjective(config.signers)
  /\ config.threshold \in 1 .. Len(config.signers)
  /\ Len(config.signers) <= MAX_SIGNERS

\* The content of an update decoded from a transaction.
WellFormed(update) ==
  /\ update_tx_type(update) \in UpdateTypes
  /\ update_tx_type(update) \in DOMAIN MultisigRole => ThresholdConfigUpdate(update[2])
  /\ update_tx_type(update) = "Operator" =>
       IsList(update[2].add_members) /\ IsList(update[2].remove_members)

QuorateAuthorities(auths) ==
  /\ auths = [r \in Role |-> [config |-> auths[r].config, last_seqno |-> auths[r].last_seqno]]
  /\ \A r \in Role : Quorate(auths[r].config) /\ auths[r].last_seqno \in Nat

\* The history of accepted updates: a decided one was decided in time.
History(acc) ==
  /\ IsList(acc)
  /\ \A k \in DOMAIN acc :
       /\ acc[k] = Fate(acc[k].action, acc[k].due, acc[k].fate, acc[k].at)
       /\ acc[k].due \in Int
       /\ acc[k].fate = "enacted" => acc[k].at = acc[k].due
       /\ acc[k].fate = "cancelled" => acc[k].at < acc[k].due

\* u is the update accepted under its id, and it is undecided.
Pending(u, acc) ==
  /\ u.id \in 0 .. (Len(acc) - 1)
  /\ acc[u.id + 1].fate = "queued"
  /\ acc[u.id + 1].action = u.action
  /\ acc[u.id + 1].due = u.activation_height
  /\ WellFormed(u.action)

\* Every undecided update waits, once: in the queue q or among those being enacted, e.
Waiting(q, e, acc) ==
  /\ IsList(q) /\ IsList(e)
  /\ \A i \in DOMAIN q : Pending(q[i], acc)
  /\ \A i \in DOMAIN e : Pending(e[i], acc)
  /\ \A i, j \in DOMAIN q : q[i].id = q[j].id => i = j
  /\ \A i, j \in DOMAIN e : e[i].id = e[j].id => i = j
  /\ \A i \in DOMAIN q, j \in DOMAIN e : q[i].id # e[j].id
  /\ \A k \in DOMAIN acc : acc[k].fate = "queued" =>
       \/ \E i \in DOMAIN q : q[i].id = k - 1
       \/ \E i \in DOMAIN e : e[i].id = k - 1

\* At height h: what is due is drained, and enacted in the same block.
Due(q, e, h, st) ==
  /\ h \in Int
  /\ \A i \in DOMAIN q : /\ q[i].activation_height >= h
                         /\ ~BeforeDraining(st) => q[i].activation_height > h
  /\ \A i \in DOMAIN e : e[i].activation_height = h
  /\ st = "admin_enact" <=> e # <<>>

AdminInv ==
  /\ QuorateAuthorities(authorities)
  /\ History(accepted) /\ next_update_id = Len(accepted)
  /\ Waiting(queued, enacting, accepted)
  /\ Due(queued, enacting, height, stage)
  /\ block_updates \subseteq {"OlStfVk", "EeStfVk"}

-----------------------------------------------------------------------------
(* Signer sets.                                                            *)

\* A validated update leaves a configuration of the size it was validated for.
LEMMA UpdateKeepsQuorate ==
  ASSUME NEW config, ThresholdConfig(config), IsInjective(config.signers),
         NEW update, ThresholdConfigUpdate(update), validate_update(config, update)
  PROVE  Quorate(apply_update(config, update))
<1> DEFINE old == config.signers
           add == update.add_members
           rem == update.remove_members
           kept == Keep(old, Range(old) \ Range(rem))
           new == kept \o add
<1>1. /\ IsList(old) /\ IsList(add) /\ IsList(rem)
      /\ update.new_threshold \in Nat \ {0}
  BY DEF ThresholdConfig, ThresholdConfigUpdate
<1>2. /\ IsInjective(add) /\ IsInjective(rem)
      /\ Range(add) \cap Range(old) = {}
      /\ Range(rem) \subseteq Range(old)
      /\ Len(old) + Len(add) - Len(rem) <= MAX_SIGNERS
      /\ update.new_threshold <= Len(old) + Len(add) - Len(rem)
  BY DEF validate_update, updated_size
<1>3. apply_update(config, update).signers = new /\ apply_update(config, update).threshold = update.new_threshold
  BY DEF apply_update
<1>4. IsInjective(old)
  OBVIOUS
<1> HIDE DEF old, add, rem
<1>5. /\ IsList(kept) /\ IsInjective(kept)
      /\ Range(kept) = Range(old) \cap (Range(old) \ Range(rem))
  BY <1>1, <1>4, KeepList
<1>6. Range(kept) = Range(old) \ Range(rem)
  BY <1>5
<1> HIDE DEF kept
<1>7. /\ IsFiniteSet(Range(old)) /\ Cardinality(Range(old)) = Len(old)
      /\ Cardinality(Range(rem)) = Len(rem)
      /\ Cardinality(Range(kept)) = Len(kept)
  <2>1. old \in Seq(Range(old)) /\ rem \in Seq(Range(rem)) /\ kept \in Seq(Range(kept))
    BY <1>1, <1>5 DEF IsList
  <2> QED
    BY <1>2, <1>4, <1>5, <2>1, InjectiveLength
<1>8. Len(kept) = Len(old) - Len(rem)
  <2>1. Cardinality(Range(old) \ Range(rem)) = Cardinality(Range(old)) - Cardinality(Range(old) \cap Range(rem))
    BY <1>7, FS_Difference
  <2>2. Range(old) \cap Range(rem) = Range(rem)
    BY <1>2
  <2> QED
    BY <1>6, <1>7, <2>1, <2>2
<1>9. IsList(new) /\ Len(new) = Len(kept) + Len(add)
  BY <1>1, <1>5, ListConcat
<1>10. IsInjective(new)
  <2> DEFINE S == Range(kept) \cup Range(add)
  <2>1. kept \in Seq(Range(kept)) /\ add \in Seq(Range(add))
    BY <1>1, <1>5 DEF IsList
  <2>2. Range(kept) \subseteq S /\ Range(add) \subseteq S
    OBVIOUS
  <2>3. Range(kept) \cap Range(add) = {}
    BY <1>2, <1>6
  <2> HIDE DEF S
  <2>4. kept \in Seq(S) /\ add \in Seq(S)
    BY <2>1, <2>2, SMTT(60)
  <2> QED
    BY <1>2, <1>5, <2>3, <2>4, ConcatInjective
<1>11. Len(old) \in Nat /\ Len(add) \in Nat /\ Len(rem) \in Nat /\ MAX_SIGNERS \in Nat
  BY <1>1, ListDomain, MaxSignersAssumption
<1> HIDE DEF new
<1>12. Len(new) = Len(old) + Len(add) - Len(rem)
  BY <1>8, <1>9, <1>11, SMTT(60)
<1>13. update.new_threshold \in 1 .. Len(new) /\ Len(new) <= MAX_SIGNERS
  BY <1>1, <1>2, <1>11, <1>12, SMTT(60)
<1> QED
  BY <1>1, <1>3, <1>9, <1>10, <1>13 DEF Quorate, ThresholdConfig

-----------------------------------------------------------------------------
(* The queue.                                                              *)

\* The history once the fate of an update is decided.
Decided(acc, k, f, h) == [acc EXCEPT ![k].fate = f, ![k].at = h]

\* Every waiting update has a height.
LEMMA WaitingHeights ==
  ASSUME NEW q, NEW e, NEW acc, Waiting(q, e, acc), History(acc)
  PROVE  \A i \in DOMAIN q : /\ q[i].activation_height \in Int
                             /\ q[i].id \in Int /\ q[i].id + 1 \in DOMAIN acc
                             /\ acc[q[i].id + 1].due = q[i].activation_height
<1>1. DOMAIN acc = 1 .. Len(acc) /\ Len(acc) \in Nat
  BY ListDomain DEF History
<1> SUFFICES ASSUME NEW i \in DOMAIN q
             PROVE  /\ q[i].activation_height \in Int
                    /\ q[i].id \in Int /\ q[i].id + 1 \in DOMAIN acc
                    /\ acc[q[i].id + 1].due = q[i].activation_height
  OBVIOUS
<1>2. q[i].id \in 0 .. (Len(acc) - 1) /\ acc[q[i].id + 1].due = q[i].activation_height
  BY DEF Waiting, Pending
<1>3. q[i].id \in Int /\ q[i].id + 1 \in DOMAIN acc
  BY <1>1, <1>2, SMTT(60)
<1>4. acc[q[i].id + 1].due \in Int
  BY <1>3 DEF History
<1> QED
  BY <1>2, <1>3, <1>4

\* Enacting one update leaves the others due in this block.
LEMMA EnactDue ==
  ASSUME NEW q, NEW e, IsList(e), NEW h, Due(q, e, h, "admin_enact")
  PROVE  /\ e # <<>> /\ 1 \in DOMAIN e /\ Head(e) = e[1] /\ e[1].activation_height = h
         /\ Due(q, Tail(e), h, IF Len(e) = 1 THEN "admin" ELSE "admin_enact")
<1> DEFINE t == Tail(e)
           st == IF Len(e) = 1 THEN "admin" ELSE "admin_enact"
<1>1. e # <<>>
  BY DEF Due
<1>2. /\ IsList(t) /\ Len(t) = Len(e) - 1
      /\ \A i \in 1 .. Len(t) : t[i] = e[i + 1]
      /\ Head(e) = e[1] /\ 1 \in 1 .. Len(e)
  BY <1>1, ListTail
<1>3. DOMAIN e = 1 .. Len(e) /\ Len(e) \in Nat
  BY ListDomain
<1>4. DOMAIN t = 1 .. Len(t) /\ (t = <<>> <=> Len(t) = 0)
  BY <1>2, ListDomain
<1> HIDE DEF t
<1>5. 1 \in DOMAIN e /\ e[1].activation_height = h
  BY <1>2, <1>3 DEF Due
<1>6. \A i \in DOMAIN t : i + 1 \in DOMAIN e /\ t[i] = e[i + 1]
  BY <1>2, <1>3, <1>4, SMTT(60)
<1>7. st = "admin_enact" <=> t # <<>>
  BY <1>2, <1>3, <1>4, SMTT(60)
<1>8. st \in {"admin", "admin_enact"}
  OBVIOUS
<1>9. ~BeforeDraining(st) /\ ~BeforeDraining("admin_enact")
  BY <1>8  DEF BeforeDraining
<1> HIDE DEF st
<1>10. Due(q, t, h, st)
  BY <1>6, <1>7, <1>9 DEF Due
<1> QED
  BY <1>1, <1>2, <1>5, <1>10 DEF t, st

\* Nothing is accepted, and nothing waits, at the start.
LEMMA AdminInitInv ==
     HostInit /\ AdminInit /\ height \in Int
      => AdminInv
\* The parameter file resolves to signer sets that can be exercised.
<1>InitialAuthorities. ASSUME AdminInit
                       PROVE  QuorateAuthorities(authorities)
  <2> USE <1>InitialAuthorities
  <2>1. authorities = [r \in Role |-> MultisigAuthority(ThresholdConfigFrom(InitSigners[r]))]
    BY DEF AdminInit
  <2>2. ASSUME NEW r \in Role PROVE Quorate(ThresholdConfigFrom(InitSigners[r]))
    <3> DEFINE u == InitSigners[r]
               config == EmptyConfig(u.threshold)
               update == SignersUpdate(u)
    <3>1. ThresholdConfigUpdate(update) /\ validate_update(config, update)
      BY AdminAssumption DEF CanResolve
    <3>2. config.signers = <<>> /\ config.threshold = u.threshold /\ update.new_threshold = u.threshold
      BY DEF EmptyConfig, SignersUpdate
    <3>3. ThresholdConfig(config)
      <4>1. IsList(<<>>)
        <5>1. <<>> \in Seq({})
          BY SMTT(60)
        <5> QED
          BY <5>1, ListOfRange
      <4> QED
        BY <3>1, <3>2, <4>1 DEF ThresholdConfig, ThresholdConfigUpdate
    <3>4. IsInjective(config.signers)
      <4>1. \A a, b \in DOMAIN <<>> : a = b
        BY SMTT(60)
      <4> QED
        BY <3>2, <4>1 DEF IsInjective
    <3>5. ThresholdConfigFrom(u) = apply_update(config, update)
      BY DEF ThresholdConfigFrom
    <3> HIDE DEF u, config, update
    <3>6. Quorate(ThresholdConfigFrom(u))
      BY <3>1, <3>3, <3>4, <3>5, UpdateKeepsQuorate
    <3> QED
      BY <3>6 DEF u
  <2>3. ASSUME NEW r \in Role
        PROVE  /\ authorities[r] = [config |-> ThresholdConfigFrom(InitSigners[r]), last_seqno |-> 0]
               /\ authorities[r].config = ThresholdConfigFrom(InitSigners[r])
               /\ authorities[r].last_seqno = 0
    BY <2>1  DEF MultisigAuthority
  <2>4. authorities = [r \in Role |-> [config |-> authorities[r].config, last_seqno |-> authorities[r].last_seqno]]
    <3>1. \A r \in Role : MultisigAuthority(ThresholdConfigFrom(InitSigners[r]))
                            = [config |-> authorities[r].config, last_seqno |-> authorities[r].last_seqno]
      BY <2>3 DEF MultisigAuthority
    <3> QED
      BY <2>1, <3>1
  <2>5. \A r \in Role : authorities[r].last_seqno \in Nat
    <3>1. 0 \in Nat
      OBVIOUS
    <3> QED
      BY <2>3, <3>1
  <2> QED
    BY <2>2, <2>3, <2>4, <2>5 DEF QuorateAuthorities
<1>main. ASSUME HostInit, AdminInit, height \in Int
         PROVE  AdminInv
  <2> USE <1>main
  <2>1. /\ queued = <<>> /\ enacting = <<>> /\ accepted = <<>> /\ next_update_id = 0
        /\ block_updates = {} /\ stage = "idle"
    BY DEF AdminInit, HostInit
  <2>2. IsList(<<>>)
    <3>1. <<>> \in Seq({})
      BY SMTT(60)
    <3> QED
      BY <3>1, ListOfRange
  <2>3. Len(<<>>) = 0 /\ \A i \in DOMAIN <<>> : FALSE
    BY SMTT(60)
  <2>4. History(<<>>) /\ Waiting(<<>>, <<>>, <<>>)
    BY <2>2, <2>3 DEF History, Waiting
  <2>5. Due(<<>>, <<>>, height, "idle")
    <3>1. "idle" # "admin_enact"
      OBVIOUS
    <3> HIDE DEF height
    <3> QED
      BY <2>3, <3>1 DEF Due
  <2>6. QuorateAuthorities(authorities)
    BY <1>InitialAuthorities
  <2> QED
    BY <2>1, <2>3, <2>4, <2>5, <2>6 DEF AdminInv
<1> QED
  BY <1>main

\* What every authorized transaction leaves alone, and what its payload is.
LEMMA AuthorizedFacts ==
     AdminInv /\ AuthorizedTx
      => /\ UNCHANGED <<pow_state, stage, enacting>> /\ height' = height /\ stage = "admin"
         /\ AdminPayload(NextTx("admin")).seqno \in Nat
         /\ ~IsCancel(AdminPayload(NextTx("admin"))) => WellFormed(AdminPayload(NextTx("admin")).action)
         /\ QuorateAuthorities(update_last_seqno(AdminPayload(NextTx("admin"))))
         /\ Due(queued, enacting, height, "admin")
\* Burning a sequence number leaves the signer sets alone.
<1>SeqnoKeepsAuthorities. ASSUME QuorateAuthorities(authorities), NEW payload, payload.seqno \in Nat
                          PROVE  QuorateAuthorities(update_last_seqno(payload))
  <2> USE <1>SeqnoKeepsAuthorities
  <2> DEFINE role == required_role(ResolvedUpdate(payload))
             n == payload.seqno
             after == [authorities EXCEPT ![role].last_seqno = n]
  <2>1. update_last_seqno(payload) = after
    BY DEF update_last_seqno
  <2>2. /\ authorities = [r \in Role |-> [config |-> authorities[r].config,
                                          last_seqno |-> authorities[r].last_seqno]]
        /\ \A r \in Role : Quorate(authorities[r].config) /\ authorities[r].last_seqno \in Nat
    BY DEF QuorateAuthorities
  <2>3. n \in Nat
    OBVIOUS
  <2> HIDE DEF role, n
  <2>4. after = [r \in Role |-> [config |-> authorities[r].config,
                                 last_seqno |-> IF r = role THEN n ELSE authorities[r].last_seqno]]
    <3>1. CASE role \in Role
      BY <2>2, <3>1, SMTT(60)
    <3>2. CASE role \notin Role
      <4>1. DOMAIN authorities = Role /\ authorities = [r \in Role |-> authorities[r]]
        BY <2>2
      <4>2. after = authorities
        BY <3>2, <4>1
      <4>3. \A r \in Role : (IF r = role THEN n ELSE authorities[r].last_seqno) = authorities[r].last_seqno
        BY <3>2
      <4> HIDE DEF after
      <4> QED
        BY <2>2, <4>2, <4>3
    <3> QED
      BY <3>1, <3>2
  <2>5. \A r \in Role : /\ after[r].config = authorities[r].config
                        /\ after[r].last_seqno = IF r = role THEN n ELSE authorities[r].last_seqno
    BY <2>4
  <2> HIDE DEF after
  <2>6. after = [r \in Role |-> [config |-> after[r].config, last_seqno |-> after[r].last_seqno]]
    BY <2>4, <2>5
  <2>7. \A r \in Role : Quorate(after[r].config) /\ after[r].last_seqno \in Nat
    BY <2>2, <2>3, <2>5
  <2> QED
    BY <2>1, <2>6, <2>7 DEF QuorateAuthorities
\* The types whose content is a change of a signer set.
<1>MultisigTypes. DOMAIN MultisigRole = {"StrataAdminMultisig", "StrataSeqManagerMultisig", "AlpenAdminMultisig",
                                         "StrataSecurityCouncilMultisig"}
  BY DEF MultisigRole
\* What decodes from a transaction is well formed (decode_wire).
<1>DecodedWellFormed. ASSUME NEW tx, AdminParses(tx)
                      PROVE  /\ AdminPayload(tx).seqno \in Nat
                             /\ ~IsCancel(AdminPayload(tx)) => WellFormed(AdminPayload(tx).action)
  <2> USE <1>DecodedWellFormed
  <2> DEFINE bytes == EnvelopeBytes(tx)
             payload == AdminPayload(tx)
             type == UpdateTxType[tx.type]
  <2>1. bytes.seqno \in Nat
    BY DEF AdminParses, decode_wire
  <2>2. payload.seqno \in Nat
    BY <2>1  DEF AdminPayload, decode_signed_payload
  <2>3. ASSUME ~IsCancel(payload) PROVE WellFormed(payload.action)
    <3>1. tx.type # CANCEL_TX_TYPE
      BY <2>3  DEF IsCancel, AdminPayload, decode_signed_payload
    <3>2. payload.action = <<type, bytes.content>>
      BY <3>1  DEF AdminPayload, decode_signed_payload
    <3>3. update_tx_type(payload.action) = type /\ payload.action[2] = bytes.content
      BY <3>2, SMTT(60) DEF update_tx_type
    <3>4. type \in UpdateTypes
      BY <3>1 DEF AdminParses, IsAdminTxType, UpdateTypes, Range
    <3>5. decode_wire(bytes, Shape(type))
      BY <3>1 DEF AdminParses
    <3> HIDE DEF type, bytes, payload
    <3>6. type \in DOMAIN MultisigRole => Shape(type) = "config"
      BY <1>MultisigTypes  DEF Shape
    <3>7. type = "Operator" => Shape(type) = "operators"
      BY <1>MultisigTypes  DEF Shape
    <3> QED
      BY <3>3, <3>4, <3>5, <3>6, <3>7 DEF WellFormed, decode_wire
  <2> QED
    BY <2>2, <2>3
<1>main. ASSUME AdminInv, AuthorizedTx
         PROVE  /\ UNCHANGED <<pow_state, stage, enacting>> /\ height' = height /\ stage = "admin"
                /\ AdminPayload(NextTx("admin")).seqno \in Nat
                /\ ~IsCancel(AdminPayload(NextTx("admin"))) => WellFormed(AdminPayload(NextTx("admin")).action)
                /\ QuorateAuthorities(update_last_seqno(AdminPayload(NextTx("admin"))))
                /\ Due(queued, enacting, height, "admin")
  <2> USE <1>main
  <2>1. UNCHANGED <<pow_state, stage, enacting>> /\ stage = "admin"
    BY DEF AuthorizedTx, Running, chainVars
  <2>2. height' = height
    BY <2>1 DEF height
  <2>3. AdminParses(NextTx("admin"))
    BY DEF AuthorizedTx
  <2>4. /\ AdminPayload(NextTx("admin")).seqno \in Nat
        /\ ~IsCancel(AdminPayload(NextTx("admin"))) => WellFormed(AdminPayload(NextTx("admin")).action)
    BY <2>3, <1>DecodedWellFormed
  <2>5. QuorateAuthorities(update_last_seqno(AdminPayload(NextTx("admin"))))
    BY <2>4, <1>SeqnoKeepsAuthorities DEF AdminInv
  <2>6. Due(queued, enacting, height, "admin")
    BY <2>1 DEF AdminInv
  <2> QED
    BY <2>1, <2>2, <2>4, <2>5, <2>6
<1> QED
  BY <1>main

\* A confirmation depth is a number of blocks.
LEMMA DepthType ==
  ASSUME NEW type \in UpdateTypes
  PROVE  confirmation_depth(type) \in Nat
<1>2. CASE type = "Defcon1"
  BY <1>2  DEF confirmation_depth
<1>3. CASE type # "Defcon1"
  <2>1. ConfirmationDepths \in [UpdateTypes \ {"Defcon1"} -> Nat] /\ type \in UpdateTypes \ {"Defcon1"}
    BY <1>3, AdminAssumption
  <2>2. ConfirmationDepths[type] \in Nat
    BY <2>1
  <2> QED
    BY <1>3, <2>2 DEF confirmation_depth
<1> QED
  BY <1>2, <1>3

-----------------------------------------------------------------------------
(* What the invariant says of one accepted update.                         *)

\* The entries of a list that carry an id: one, or none.
LEMMA OneOrNone ==
  ASSUME NEW q, NEW id, \A i, j \in DOMAIN q : q[i].id = q[j].id => i = j
  PROVE  LET here == {i \in DOMAIN q : q[i].id = id}
         IN  Cardinality(here) = IF \E i \in DOMAIN q : q[i].id = id THEN 1 ELSE 0
<1> DEFINE here == {i \in DOMAIN q : q[i].id = id}
<1>1. CASE \E i \in DOMAIN q : q[i].id = id
  <2>1. PICK i \in DOMAIN q : q[i].id = id
    BY <1>1
  <2>2. here = {i}
    BY <2>1
  <2>3. Cardinality({i}) = 1
    BY FS_Singleton
  <2> QED
    BY <1>1, <2>2, <2>3
<1>2. CASE ~\E i \in DOMAIN q : q[i].id = id
  <2>1. here = {}
    BY <1>2
  <2>2. Cardinality({}) = 0
    BY FS_EmptySet
  <2> QED
    BY <1>2, <2>1, <2>2
<1> QED
  BY <1>1, <1>2

\* An undecided update waits once and a decided one nowhere; after the draining nothing
\* that waits is due.
LEMMA WaitsOnce ==
  ASSUME NEW q, NEW e, NEW acc, NEW h, NEW st, Waiting(q, e, acc), History(acc),
         Due(q, e, h, st), NEW k \in DOMAIN acc
  PROVE  LET here == {i \in DOMAIN q : q[i].id = k - 1}
             there == {i \in DOMAIN e : e[i].id = k - 1}
         IN  /\ Cardinality(here) + Cardinality(there) = IF acc[k].fate = "queued" THEN 1 ELSE 0
             /\ \A i \in here : q[i].action = acc[k].action /\ q[i].activation_height = acc[k].due
             /\ acc[k].fate = "queued" /\ ~BeforeDraining(st) /\ st # "admin_enact" => acc[k].due > h
<1> DEFINE InQueue == \E i \in DOMAIN q : q[i].id = k - 1
           InHand == \E i \in DOMAIN e : e[i].id = k - 1
<1>1. k \in Int /\ (k - 1) + 1 = k
  <2>1. DOMAIN acc = 1 .. Len(acc)
    BY ListDomain DEF History
  <2> QED
    BY <2>1, SMTT(60)
<1>2. /\ \A i \in DOMAIN q : Pending(q[i], acc)
      /\ \A i \in DOMAIN e : Pending(e[i], acc)
      /\ \A i, j \in DOMAIN q : q[i].id = q[j].id => i = j
      /\ \A i, j \in DOMAIN e : e[i].id = e[j].id => i = j
  BY DEF Waiting
<1>3. /\ \A i \in DOMAIN q, j \in DOMAIN e : q[i].id # e[j].id
      /\ acc[k].fate = "queued" => InQueue \/ InHand
  BY DEF Waiting
<1>4. \A i \in DOMAIN q : q[i].id = k - 1 =>
        q[i].action = acc[k].action /\ q[i].activation_height = acc[k].due /\ acc[k].fate = "queued"
  BY <1>1, <1>2 DEF Pending
<1>5. \A i \in DOMAIN e : e[i].id = k - 1 => acc[k].fate = "queued"
  BY <1>1, <1>2 DEF Pending
<1>6. /\ Cardinality({i \in DOMAIN q : q[i].id = k - 1}) = IF InQueue THEN 1 ELSE 0
      /\ Cardinality({i \in DOMAIN e : e[i].id = k - 1}) = IF InHand THEN 1 ELSE 0
  BY <1>2, OneOrNone
<1>7. ~(InQueue /\ InHand) /\ (acc[k].fate = "queued" <=> InQueue \/ InHand)
  BY <1>3, <1>4, <1>5
<1>8. ASSUME acc[k].fate = "queued", ~BeforeDraining(st), st # "admin_enact"
      PROVE  acc[k].due > h
  <2>1. \A i \in DOMAIN <<>> : FALSE
    BY SMTT(60)
  <2>2. e = <<>> /\ \A i \in DOMAIN q : q[i].activation_height > h
    BY <1>8 DEF Due
  <2> QED
    BY <1>4, <1>7, <1>8, <2>1, <2>2
<1> HIDE DEF InQueue, InHand
<1>9. Cardinality({i \in DOMAIN q : q[i].id = k - 1}) + Cardinality({i \in DOMAIN e : e[i].id = k - 1})
        = IF acc[k].fate = "queued" THEN 1 ELSE 0
  <2> DEFINE a == Cardinality({i \in DOMAIN q : q[i].id = k - 1})
             b == Cardinality({i \in DOMAIN e : e[i].id = k - 1})
  <2>1. a = (IF InQueue THEN 1 ELSE 0) /\ b = IF InHand THEN 1 ELSE 0
    BY <1>6
  <2> HIDE DEF a, b
  <2>2. a + b = IF acc[k].fate = "queued" THEN 1 ELSE 0
    BY <1>7, <2>1, SMTT(60)
  <2> QED
    BY <2>2 DEF a, b
<1> QED
  BY <1>4, <1>8, <1>9

-----------------------------------------------------------------------------
(* Administration in the whole transition.                                  *)

\* The header chain has a last block.
HeaderInv == "last_verified_block" \in DOMAIN pow_state

\* A verified header is one block on (check_and_update).
LEMMA BlockHeight ==
  ASSUME HeaderInv, StartBlock
  PROVE  height' = height + 1 /\ HeaderInv'
<1>1. PICK block : pow_state' = check_and_update(pow_state, block.header)
  BY DEF StartBlock
<1> DEFINE verified == [pow_state EXCEPT !.last_verified_block = @ + 1]
           timed == update_timestamps(verified, block.header.time)
<1>2. /\ "last_verified_block" \in DOMAIN verified
      /\ verified.last_verified_block = pow_state.last_verified_block + 1
  BY DEF HeaderInv
<1>3. /\ "last_verified_block" \in DOMAIN timed
      /\ timed.last_verified_block = verified.last_verified_block
  <2> HIDE DEF verified
  <2> QED
    BY <1>2  DEF update_timestamps
<1>4. pow_state' = [timed EXCEPT !.next_block_target = next_target(timed, block.header),
                                 !.total_accumulated_pow = @ + work(block.header.bits)]
  BY <1>1 DEF check_and_update
<1>5. /\ "last_verified_block" \in DOMAIN pow_state'
      /\ pow_state'.last_verified_block = timed.last_verified_block
  <2> HIDE DEF timed
  <2> QED
    BY <1>3, <1>4
<1> QED
  BY <1>2, <1>3, <1>5  DEF height, HeaderInv

\* Every step keeps the invariant of administration.
LEMMA AdminInvStep ==
     HeaderInv /\ AdminInv /\ [Next]_vars
      => HeaderInv' /\ AdminInv'
\* Enacting an update keeps every role exercisable: what does not validate is dropped.
<1>EnactKeepsAuthorities. ASSUME NEW auths, QuorateAuthorities(auths), NEW update, WellFormed(update)
                          PROVE  QuorateAuthorities(UpdatedAuthorities(auths, update))
  <2> USE <1>EnactKeepsAuthorities
  <2> DEFINE role == MultisigRole[update_tx_type(update)]
             config == auths[role].config
             new == apply_update(config, update[2])
             after == [auths EXCEPT ![role].config = new]
  <2>1. CASE /\ update_tx_type(update) \in DOMAIN MultisigRole
             /\ role \in Role
             /\ validate_update(config, update[2])
    <3>1. ThresholdConfigUpdate(update[2])
      BY <2>1 DEF WellFormed
    <3>2. ThresholdConfig(config) /\ IsInjective(config.signers)
      BY <2>1 DEF QuorateAuthorities, Quorate
    <3>3. Quorate(new)
      <4> HIDE DEF config
      <4> QED
        BY <2>1, <3>1, <3>2, UpdateKeepsQuorate
    <3>4. UpdatedAuthorities(auths, update) = after
      BY <2>1 DEF UpdatedAuthorities, apply_multisig_update
    <3> HIDE DEF new, config, role
    <3>5. /\ auths = [r \in Role |-> [config |-> auths[r].config, last_seqno |-> auths[r].last_seqno]]
          /\ \A r \in Role : Quorate(auths[r].config) /\ auths[r].last_seqno \in Nat
      BY DEF QuorateAuthorities
    <3>6. after = [r \in Role |-> [config |-> IF r = role THEN new ELSE auths[r].config,
                                   last_seqno |-> auths[r].last_seqno]]
      BY <2>1, <3>5, SMTT(60)
    <3>7. \A r \in Role : /\ after[r].config = (IF r = role THEN new ELSE auths[r].config)
                          /\ after[r].last_seqno = auths[r].last_seqno
      BY <3>6, SMTT(60)
    <3> HIDE DEF after
    <3>8. after = [r \in Role |-> [config |-> after[r].config, last_seqno |-> after[r].last_seqno]]
      BY <3>6, <3>7
    <3>9. \A r \in Role : Quorate(after[r].config) /\ after[r].last_seqno \in Nat
      BY <3>3, <3>5, <3>7
    <3> QED
      BY <3>4, <3>8, <3>9 DEF QuorateAuthorities
  <2>2. CASE update_tx_type(update) \in DOMAIN MultisigRole /\ role \notin Role
    <3>1. DOMAIN auths = Role
      BY DEF QuorateAuthorities
    <3> HIDE DEF new, config
    <3>2. after = auths
      <4> HIDE DEF role
      <4>1. auths = [r \in Role |-> auths[r]]
        BY <3>1  DEF QuorateAuthorities
      <4> QED
        BY <2>2, <3>1, <4>1
    <3>3. UpdatedAuthorities(auths, update) \in {auths, after}
      BY <2>2 DEF UpdatedAuthorities, apply_multisig_update, new, config
    <3> QED
      BY <3>2, <3>3
  <2>3. CASE \/ update_tx_type(update) \notin DOMAIN MultisigRole
             \/ ~validate_update(config, update[2])
    <3>1. UpdatedAuthorities(auths, update) = auths
      BY <2>3 DEF UpdatedAuthorities, apply_multisig_update
    <3> QED
      BY <3>1
  <2> QED
    BY <2>1, <2>2, <2>3
\* The fields of an entry of the history, and of one of the queue.
<1>Fields. ASSUME NEW a, NEW d, NEW f, NEW h
           PROVE  /\ Fate(a, d, f, h).action = a /\ Fate(a, d, f, h).due = d
                  /\ Fate(a, d, f, h).fate = f /\ Fate(a, d, f, h).at = h
                  /\ QueuedUpdate(h, a, d).id = h /\ QueuedUpdate(h, a, d).action = a
                  /\ QueuedUpdate(h, a, d).activation_height = d
  BY DEF Fate, QueuedUpdate
\* Deciding the update k changes its entry alone, and there the fate and the time.
<1>DecidedEntries. ASSUME NEW acc, History(acc), NEW k \in DOMAIN acc, NEW f, NEW h
                   PROVE  /\ IsList(Decided(acc, k, f, h))
                          /\ Len(Decided(acc, k, f, h)) = Len(acc)
                          /\ DOMAIN Decided(acc, k, f, h) = DOMAIN acc
                          /\ \A j \in DOMAIN acc : j # k => Decided(acc, k, f, h)[j] = acc[j]
                          /\ Decided(acc, k, f, h)[k] = Fate(acc[k].action, acc[k].due, f, h)
  <2> USE <1>DecidedEntries
  <2> DEFINE e == Fate(acc[k].action, acc[k].due, f, h)
  <2>1. IsList(acc) /\ acc[k] = Fate(acc[k].action, acc[k].due, acc[k].fate, acc[k].at)
    BY DEF History
  <2>2. Decided(acc, k, f, h) = [acc EXCEPT ![k] = e]
    <3>1. [[acc[k] EXCEPT !.fate = f] EXCEPT !.at = h] = e
      <4>1. [acc[k] EXCEPT !.fate = f] = Fate(acc[k].action, acc[k].due, f, acc[k].at)
        BY <2>1, SMTT(60) DEF Fate
      <4>2. [Fate(acc[k].action, acc[k].due, f, acc[k].at) EXCEPT !.at = h] = e
        BY SMTT(60) DEF Fate
      <4> QED
        BY <4>1, <4>2
    <3>2. Decided(acc, k, f, h) = [acc EXCEPT ![k] = [[acc[k] EXCEPT !.fate = f] EXCEPT !.at = h]]
      BY DEF Decided
    <3> QED
      BY <3>1, <3>2
  <2> HIDE DEF e
  <2>3. /\ IsList([acc EXCEPT ![k] = e])
        /\ Len([acc EXCEPT ![k] = e]) = Len(acc)
        /\ \A i \in DOMAIN acc : [acc EXCEPT ![k] = e][i] = IF i = k THEN e ELSE acc[i]
    BY <2>1, ListExcept
  <2>4. DOMAIN Decided(acc, k, f, h) = DOMAIN acc
    BY <2>2
  <2> QED
    BY <2>2, <2>3, <2>4 DEF e
\* An update decided in time leaves a history.
<1>DecidedHistory. ASSUME NEW acc, History(acc), NEW k \in DOMAIN acc, NEW f, NEW h,
                          \/ f = "enacted" /\ h = acc[k].due
                          \/ f = "cancelled" /\ h < acc[k].due
                   PROVE  History(Decided(acc, k, f, h))
  <2> USE <1>DecidedHistory
  <2> DEFINE new == Decided(acc, k, f, h)
  <2>1. /\ IsList(new) /\ DOMAIN new = DOMAIN acc
        /\ \A j \in DOMAIN acc : j # k => new[j] = acc[j]
        /\ new[k] = Fate(acc[k].action, acc[k].due, f, h)
    BY <1>DecidedEntries, SMTT(60)
  <2>2. new[k].action = acc[k].action /\ new[k].due = acc[k].due /\ new[k].fate = f /\ new[k].at = h
    BY <2>1, <1>Fields, SMTT(60)
  <2>3. "enacted" # "cancelled"
    OBVIOUS
  <2> HIDE DEF new
  <2>4. ASSUME NEW j \in DOMAIN new
        PROVE  /\ new[j] = Fate(new[j].action, new[j].due, new[j].fate, new[j].at)
               /\ new[j].due \in Int
               /\ new[j].fate = "enacted" => new[j].at = new[j].due
               /\ new[j].fate = "cancelled" => new[j].at < new[j].due
    <3>1. CASE j # k
      BY <2>1, <3>1 DEF History
    <3>2. CASE j = k
      BY <2>1, <2>2, <2>3, <3>2 DEF History
    <3> QED
      BY <3>1, <3>2
  <2>5. History(new)
    BY <2>1, <2>4 DEF History
  <2> QED
    BY <2>5 DEF new
\* Deciding one update leaves the others undecided.
<1>DecidedPending. ASSUME NEW acc, History(acc), NEW k \in DOMAIN acc, NEW f, NEW h,
                          NEW u, Pending(u, acc), u.id + 1 # k
                   PROVE  Pending(u, Decided(acc, k, f, h))
  <2> USE <1>DecidedPending
  <2> DEFINE new == Decided(acc, k, f, h)
  <2>1. Len(new) = Len(acc) /\ \A j \in DOMAIN acc : j # k => new[j] = acc[j]
    BY <1>DecidedEntries, SMTT(60)
  <2> HIDE DEF new
  <2>2. u.id \in 0 .. (Len(acc) - 1)
    BY DEF Pending
  <2>3. u.id + 1 \in DOMAIN acc
    <3>1. DOMAIN acc = 1 .. Len(acc) /\ Len(acc) \in Nat
      BY ListDomain DEF History
    <3> QED
      BY <2>2, <3>1, SMTT(60)
  <2>4. new[u.id + 1] = acc[u.id + 1]
    BY <2>1, <2>3
  <2>5. Pending(u, new)
    BY <2>1, <2>4 DEF Pending
  <2> QED
    BY <2>5 DEF new
\* Splitting the queue splits what waits in it.
<1>DrainWaiting. ASSUME NEW q, NEW acc, Waiting(q, <<>>, acc), NEW T, NEW U,
                        Range(q) \subseteq T \cup U, T \cap U = {}
                 PROVE  Waiting(Keep(q, T), Keep(q, U), acc)
  <2> USE <1>DrainWaiting
  <2> DEFINE p == Keep(q, T)
             e == Keep(q, U)
  <2>1. IsList(q)
    BY DEF Waiting
  <2>2. DOMAIN q = 1 .. Len(q)
    BY <2>1, ListDomain
  <2>3. /\ \A i \in 1 .. Len(q) : Pending(q[i], acc)
        /\ \A i, j \in 1 .. Len(q) : q[i].id = q[j].id => i = j
    BY <2>2 DEF Waiting
  <2>4. \A k \in DOMAIN acc : acc[k].fate = "queued" => \E i \in 1 .. Len(q) : q[i].id = k - 1
    <3>1. \A i \in DOMAIN <<>> : FALSE
      BY SMTT(60)
    <3> QED
      BY <2>2, <3>1 DEF Waiting
  <2>5. IsList(p) /\ IsList(e)
    BY <2>1, KeepList
  <2>6. DOMAIN p = 1 .. Len(p) /\ DOMAIN e = 1 .. Len(e)
    BY <2>5, ListDomain
  <2>7. PICK a : /\ KeptAt(q, T, p, Len(q), a)
                 /\ \A j, k \in 1 .. Len(p) : a[j] = a[k] => j = k
    BY <2>1, KeepList, SMTT(60)
  <2>8. PICK b : /\ KeptAt(q, U, e, Len(q), b)
                 /\ \A j, k \in 1 .. Len(e) : b[j] = b[k] => j = k
    BY <2>1, KeepList, SMTT(60)
  <2> HIDE DEF p, e
  <2>9. /\ \A k \in 1 .. Len(p) : a[k] \in 1 .. Len(q) /\ p[k] = q[a[k]] /\ p[k] \in T
        /\ \A i \in 1 .. Len(q) : q[i] \in T => \E k \in 1 .. Len(p) : a[k] = i
    BY <2>7 DEF KeptAt
  <2>10. /\ \A k \in 1 .. Len(e) : b[k] \in 1 .. Len(q) /\ e[k] = q[b[k]] /\ e[k] \in U
         /\ \A i \in 1 .. Len(q) : q[i] \in U => \E k \in 1 .. Len(e) : b[k] = i
    BY <2>8 DEF KeptAt
  <2>11. /\ \A i \in DOMAIN p : a[i] \in 1 .. Len(q) /\ p[i] = q[a[i]] /\ Pending(p[i], acc)
         /\ \A i \in DOMAIN e : b[i] \in 1 .. Len(q) /\ e[i] = q[b[i]] /\ Pending(e[i], acc)
    <3>1. ASSUME NEW i \in DOMAIN p
          PROVE  a[i] \in 1 .. Len(q) /\ p[i] = q[a[i]] /\ Pending(p[i], acc)
      <4>1. a[i] \in 1 .. Len(q) /\ p[i] = q[a[i]]
        BY <2>6, <2>9
      <4>2. Pending(q[a[i]], acc)
        BY <2>3, <4>1
      <4> QED
        BY <4>1, <4>2
    <3>2. ASSUME NEW i \in DOMAIN e
          PROVE  b[i] \in 1 .. Len(q) /\ e[i] = q[b[i]] /\ Pending(e[i], acc)
      <4>1. b[i] \in 1 .. Len(q) /\ e[i] = q[b[i]]
        BY <2>6, <2>10
      <4>2. Pending(q[b[i]], acc)
        BY <2>3, <4>1
      <4> QED
        BY <4>1, <4>2
    <3> QED
      BY <3>1, <3>2
  <2>12. ASSUME NEW i \in DOMAIN p, NEW j \in DOMAIN p, p[i].id = p[j].id PROVE i = j
    <3>1. /\ a[i] \in 1 .. Len(q) /\ p[i] = q[a[i]]
          /\ a[j] \in 1 .. Len(q) /\ p[j] = q[a[j]]
      BY <2>11
    <3>2. q[a[i]].id = q[a[j]].id
      BY <2>12, <3>1
    <3>3. a[i] = a[j]
      BY <2>3, <3>1, <3>2
    <3> QED
      BY <2>6, <2>7, <3>3
  <2>13. ASSUME NEW i \in DOMAIN e, NEW j \in DOMAIN e, e[i].id = e[j].id PROVE i = j
    <3>1. /\ b[i] \in 1 .. Len(q) /\ e[i] = q[b[i]]
          /\ b[j] \in 1 .. Len(q) /\ e[j] = q[b[j]]
      BY <2>11
    <3>2. q[b[i]].id = q[b[j]].id
      BY <2>13, <3>1
    <3>3. b[i] = b[j]
      BY <2>3, <3>1, <3>2
    <3> QED
      BY <2>6, <2>8, <3>3
  <2>14. ASSUME NEW i \in DOMAIN p, NEW j \in DOMAIN e, p[i].id = e[j].id PROVE FALSE
    <3>1. /\ a[i] \in 1 .. Len(q) /\ p[i] = q[a[i]]
          /\ b[j] \in 1 .. Len(q) /\ e[j] = q[b[j]]
      BY <2>11
    <3>2. q[a[i]].id = q[b[j]].id
      BY <2>14, <3>1
    <3>3. a[i] = b[j]
      BY <2>3, <3>1, <3>2
    <3>4. p[i] \in T /\ e[j] \in U
      BY <2>6, <2>9, <2>10
    <3>5. p[i] = e[j]
      BY <3>1, <3>3
    <3> QED
      BY <3>4, <3>5
  <2>15. ASSUME NEW k \in DOMAIN acc, acc[k].fate = "queued"
         PROVE  (\E i \in DOMAIN p : p[i].id = k - 1) \/ (\E i \in DOMAIN e : e[i].id = k - 1)
    <3>1. PICK i \in 1 .. Len(q) : q[i].id = k - 1
      BY <2>4, <2>15
    <3>2. q[i] \in T \cup U
      BY <2>2 DEF Range
    <3>3. CASE q[i] \in T
      <4>1. PICK n \in 1 .. Len(p) : a[n] = i
        BY <2>9, <3>3
      <4>2. n \in DOMAIN p /\ p[n] = q[i]
        BY <2>6, <2>11, <4>1
      <4> QED
        BY <3>1, <4>2
    <3>4. CASE q[i] \in U
      <4>1. PICK n \in 1 .. Len(e) : b[n] = i
        BY <2>10, <3>4
      <4>2. n \in DOMAIN e /\ e[n] = q[i]
        BY <2>6, <2>11, <4>1
      <4> QED
        BY <3>1, <4>2
    <3> QED
      BY <3>2, <3>3, <3>4
  <2>16. Waiting(p, e, acc)
    BY <2>5, <2>11, <2>12, <2>13, <2>14, <2>15 DEF Waiting
  <2> QED
    BY <2>16 DEF p, e
\* Of the updates being enacted the first is decided.
<1>EnactWaiting. ASSUME NEW q, NEW e, NEW acc, Waiting(q, e, acc), History(acc), e # <<>>, NEW f, NEW h,
                        f # "queued"
                 PROVE  Waiting(q, Tail(e), Decided(acc, Head(e).id + 1, f, h))
  <2> USE <1>EnactWaiting
  <2> DEFINE n == Head(e).id + 1
             new == Decided(acc, n, f, h)
             t == Tail(e)
  <2>1. IsList(q) /\ IsList(e)
    BY DEF Waiting
  <2>2. /\ IsList(t) /\ Len(t) = Len(e) - 1
        /\ \A i \in 1 .. Len(t) : t[i] = e[i + 1]
        /\ Head(e) = e[1] /\ 1 \in 1 .. Len(e)
    BY <2>1, ListTail
  <2>3. DOMAIN e = 1 .. Len(e) /\ DOMAIN t = 1 .. Len(t) /\ Len(e) \in Nat
    BY <2>1, <2>2, ListDomain
  <2>4. \A i \in DOMAIN t : t[i] = e[i + 1] /\ i + 1 \in DOMAIN e /\ i + 1 # 1
    BY <2>2, <2>3, SMTT(60)
  <2>5. \A i \in DOMAIN e : i = 1 \/ (i - 1 \in DOMAIN t /\ t[i - 1] = e[i])
    BY <2>2, <2>3, SMTT(60)
  <2>6. 1 \in DOMAIN e /\ n = e[1].id + 1 /\ Pending(e[1], acc)
    BY <2>2, <2>3 DEF Waiting
  <2>7. \A u : Pending(u, acc) => u.id + 1 \in DOMAIN acc /\ u.id \in Int
    <3>1. DOMAIN acc = 1 .. Len(acc) /\ Len(acc) \in Nat
      BY ListDomain DEF History
    <3>2. \A u : Pending(u, acc) => u.id \in 0 .. (Len(acc) - 1)
      BY DEF Pending
    <3> QED
      BY <3>1, <3>2, SMTT(60)
  <2>8. n \in DOMAIN acc /\ e[1].id \in Int
    BY <2>6, <2>7
  <2>9. ASSUME NEW u, Pending(u, acc), u.id # e[1].id PROVE Pending(u, new)
    <3>1. u.id + 1 # n
      BY <2>6, <2>7, <2>8, <2>9, SMTT(60)
    <3> HIDE DEF n
    <3> QED
      BY <2>8, <2>9, <3>1, <1>DecidedPending
  <2>10. /\ \A i \in DOMAIN q : Pending(q[i], acc) /\ q[i].id # e[1].id
         /\ \A i \in DOMAIN t : Pending(t[i], acc) /\ t[i].id # e[1].id
    <3>1. \A i \in DOMAIN q : Pending(q[i], acc) /\ q[i].id # e[1].id
      BY <2>6 DEF Waiting
    <3>2. \A i \in DOMAIN t : Pending(t[i], acc) /\ t[i].id # e[1].id
      BY <2>4, <2>6 DEF Waiting
    <3> QED
      BY <3>1, <3>2
  <2>11. /\ \A i \in DOMAIN q : Pending(q[i], new)
         /\ \A i \in DOMAIN t : Pending(t[i], new)
    BY <2>9, <2>10
  <2>12. /\ \A i, j \in DOMAIN q : q[i].id = q[j].id => i = j
         /\ \A i \in DOMAIN q, j \in DOMAIN t : q[i].id # t[j].id
    BY <2>4, SMTT(60) DEF Waiting
  <2>13. ASSUME NEW i \in DOMAIN t, NEW j \in DOMAIN t, t[i].id = t[j].id PROVE i = j
    <3>1. i + 1 = j + 1
      BY <2>4, <2>13, SMTT(60) DEF Waiting
    <3> QED
      BY <2>3, <3>1, SMTT(60)
  <2>14. /\ DOMAIN new = DOMAIN acc
         /\ \A j \in DOMAIN acc : j # n => new[j] = acc[j]
         /\ new[n].fate = f
    <3> HIDE DEF n
    <3>1. /\ DOMAIN new = DOMAIN acc
          /\ \A j \in DOMAIN acc : j # n => new[j] = acc[j]
          /\ new[n] = Fate(acc[n].action, acc[n].due, f, h)
      BY <2>8, <1>DecidedEntries, SMTT(60)
    <3> QED
      BY <3>1, <1>Fields, SMTT(60)
  <2> HIDE DEF new, t, n
  <2>15. ASSUME NEW k \in DOMAIN new, new[k].fate = "queued"
         PROVE  (\E i \in DOMAIN q : q[i].id = k - 1) \/ (\E i \in DOMAIN t : t[i].id = k - 1)
    <3>1. k # n /\ k \in DOMAIN acc /\ acc[k].fate = "queued"
      BY <2>14, <2>15
    <3>2. (\E i \in DOMAIN q : q[i].id = k - 1) \/ (\E i \in DOMAIN e : e[i].id = k - 1)
      BY <3>1 DEF Waiting
    <3>3. ASSUME NEW i \in DOMAIN e, e[i].id = k - 1 PROVE \E j \in DOMAIN t : t[j].id = k - 1
      <4>1. k \in Int
        <5>1. DOMAIN acc = 1 .. Len(acc)
          BY ListDomain DEF History
        <5> QED
          BY <3>1, <5>1, SMTT(60)
      <4>2. i # 1
        BY <2>6, <3>1, <3>3, <4>1, SMTT(60)
      <4> QED
        BY <2>5, <3>3, <4>2
    <3> QED
      BY <3>2, <3>3
  <2>16. Waiting(q, t, new)
    BY <2>1, <2>2, <2>11, <2>12, <2>13, <2>15 DEF Waiting
  <2> QED
    BY <2>16 DEF t, new, n
\* A queued update is cancelled: it leaves the queue and is decided.
<1>CancelWaiting. ASSUME NEW q, NEW e, NEW acc, Waiting(q, e, acc), History(acc),
                         NEW c \in DOMAIN q, NEW f, NEW h, f # "queued"
                  PROVE  Waiting(Keep(q, {u \in Range(q) : u.id # q[c].id}), e, Decided(acc, q[c].id + 1, f, h))
  <2> USE <1>CancelWaiting
  <2> DEFINE n == q[c].id + 1
             new == Decided(acc, n, f, h)
             T == {u \in Range(q) : u.id # q[c].id}
             p == Keep(q, T)
  <2>1. IsList(q) /\ IsList(e)
    BY DEF Waiting
  <2>2. DOMAIN q = 1 .. Len(q)
    BY <2>1, ListDomain
  <2>q1. \A i \in DOMAIN q : Pending(q[i], acc)
    BY DEF Waiting
  <2>q2. \A i, j \in DOMAIN q : q[i].id = q[j].id => i = j
    BY DEF Waiting
  <2>e1. \A i \in DOMAIN e : Pending(e[i], acc)
    BY DEF Waiting
  <2>e2. \A i, j \in DOMAIN e : e[i].id = e[j].id => i = j
    BY DEF Waiting
  <2>qe. \A i \in DOMAIN q, j \in DOMAIN e : q[i].id # e[j].id
    BY DEF Waiting
  <2> HIDE DEF T
  <2>3. IsList(p)
    BY <2>1, KeepList
  <2>4. DOMAIN p = 1 .. Len(p)
    BY <2>3, ListDomain
  <2>5. PICK at : /\ KeptAt(q, T, p, Len(q), at)
                 /\ \A j, k \in 1 .. Len(p) : at[j] = at[k] => j = k
    BY <2>1, KeepList, SMTT(60)
  <2> HIDE DEF p
  <2>6. /\ \A k \in DOMAIN p : at[k] \in DOMAIN q /\ p[k] = q[at[k]] /\ p[k].id # q[c].id
        /\ \A i \in DOMAIN q : q[i].id # q[c].id => \E k \in DOMAIN p : at[k] = i
    <3>1. \A i \in DOMAIN q : q[i].id # q[c].id => q[i] \in T
      BY DEF Range, T
    <3>2. /\ \A k \in DOMAIN p : at[k] \in DOMAIN q /\ p[k] = q[at[k]] /\ p[k] \in T
          /\ \A i \in DOMAIN q : q[i] \in T => \E k \in DOMAIN p : at[k] = i
      BY <2>2, <2>4, <2>5 DEF KeptAt
    <3>3. \A u \in T : u.id # q[c].id
      BY DEF T
    <3> QED
      BY <3>1, <3>2, <3>3
  <2>7. \A u : Pending(u, acc) => u.id + 1 \in DOMAIN acc /\ u.id \in Int
    <3>1. DOMAIN acc = 1 .. Len(acc) /\ Len(acc) \in Nat
      BY ListDomain DEF History
    <3>2. \A u : Pending(u, acc) => u.id \in 0 .. (Len(acc) - 1)
      BY DEF Pending
    <3> QED
      BY <3>1, <3>2, SMTT(60)
  <2>8. n \in DOMAIN acc /\ q[c].id \in Int
    BY <2>7, <2>q1
  <2>9. ASSUME NEW u, Pending(u, acc), u.id # q[c].id PROVE Pending(u, new)
    <3>1. u.id + 1 # n
      BY <2>7, <2>8, <2>9, SMTT(60)
    <3> HIDE DEF n
    <3> QED
      BY <2>8, <2>9, <3>1, <1>DecidedPending
  <2>10. /\ \A i \in DOMAIN p : Pending(p[i], new)
         /\ \A i \in DOMAIN e : Pending(e[i], new)
    <3>1. \A i \in DOMAIN p : Pending(p[i], acc)
      BY <2>6, <2>q1
    <3>2. \A i \in DOMAIN e : Pending(e[i], acc) /\ e[i].id # q[c].id
      BY <2>e1, <2>qe
    <3> QED
      BY <2>6, <2>9, <3>1, <3>2
  <2>11. \A i \in DOMAIN p, j \in DOMAIN e : p[i].id # e[j].id
    BY <2>6, <2>qe, SMTT(60)
  <2>12. ASSUME NEW i \in DOMAIN p, NEW j \in DOMAIN p, p[i].id = p[j].id PROVE i = j
    <3>1. at[i] = at[j]
      BY <2>6, <2>12, <2>q2, SMTT(60)
    <3> QED
      BY <2>4, <2>5, <3>1
  <2>13. /\ DOMAIN new = DOMAIN acc
         /\ \A j \in DOMAIN acc : j # n => new[j] = acc[j]
         /\ new[n].fate = f
    <3> HIDE DEF n
    <3>0. Fate(acc[n].action, acc[n].due, f, h).fate = f
      BY DEF Fate
    <3>1. /\ DOMAIN new = DOMAIN acc
          /\ \A j \in DOMAIN acc : j # n => new[j] = acc[j]
          /\ new[n] = Fate(acc[n].action, acc[n].due, f, h)
      BY <2>8, <1>DecidedEntries, SMTT(60)
    <3> QED
      BY <3>0, <3>1
  <2> HIDE DEF new
  <2>14. ASSUME NEW k \in DOMAIN new, new[k].fate = "queued"
         PROVE  (\E i \in DOMAIN p : p[i].id = k - 1) \/ (\E i \in DOMAIN e : e[i].id = k - 1)
    <3>1. k # n /\ k \in DOMAIN acc /\ acc[k].fate = "queued"
      <4> HIDE DEF n
      <4> QED
        BY <2>13, <2>14
    <3>2. (\E i \in DOMAIN q : q[i].id = k - 1) \/ (\E i \in DOMAIN e : e[i].id = k - 1)
      BY <3>1 DEF Waiting
    <3>3. ASSUME NEW i \in DOMAIN q, q[i].id = k - 1 PROVE \E j \in DOMAIN p : p[j].id = k - 1
      <4>1. k \in Int
        <5>1. DOMAIN acc = 1 .. Len(acc)
          BY ListDomain DEF History
        <5> QED
          BY <3>1, <5>1, SMTT(60)
      <4>2. q[i].id # q[c].id
        BY <2>8, <3>1, <3>3, <4>1, SMTT(60)
      <4>3. PICK j \in DOMAIN p : at[j] = i
        BY <2>6, <4>2
      <4>4. p[j].id = k - 1
        BY <2>6, <3>3, <4>3
      <4> QED
        BY <4>4
    <3> QED
      BY <3>2, <3>3
  <2>15. Waiting(p, e, new)
    BY <2>1, <2>3, <2>10, <2>11, <2>12, <2>14, <2>e2 DEF Waiting
  <2> QED
    BY <2>15 DEF p, new, n, T
\* A new entry of the history leaves the others as they are.
<1>AcceptedEntries. ASSUME NEW acc, History(acc), NEW act, NEW d \in Int, NEW f, NEW h,
                           f = "enacted" => h = d, f # "cancelled"
                    PROVE  LET new == Append(acc, Fate(act, d, f, h))
                           IN  /\ History(new)
                               /\ Len(new) = Len(acc) + 1
                               /\ \A k \in DOMAIN acc : k \in DOMAIN new /\ new[k] = acc[k]
                               /\ DOMAIN new = DOMAIN acc \cup {Len(acc) + 1}
                               /\ new[Len(acc) + 1] = Fate(act, d, f, h)
                               /\ \A u : Pending(u, acc) => Pending(u, new) /\ u.id # Len(acc)
  <2> USE <1>AcceptedEntries
  <2> DEFINE e == Fate(act, d, f, h)
             new == Append(acc, e)
             n == Len(acc) + 1
  <2>1. IsList(acc) /\ DOMAIN acc = 1 .. Len(acc) /\ Len(acc) \in Nat
    BY ListDomain DEF History
  <2>2. e.action = act /\ e.due = d /\ e.fate = f /\ e.at = h
    BY DEF Fate
  <2> HIDE DEF e
  <2>3. IsList(new) /\ Len(new) = n /\ (\A i \in 1 .. Len(acc) : new[i] = acc[i]) /\ new[n] = e
    BY <2>1, ListAppend, SMTT(60)
  <2>4. DOMAIN new = 1 .. n
    BY <2>3, ListDomain
  <2> HIDE DEF new
  <2>5. DOMAIN new = DOMAIN acc \cup {n} /\ \A k \in DOMAIN acc : k \in DOMAIN new /\ new[k] = acc[k]
    BY <2>1, <2>3, <2>4, SMTT(60)
  <2>6. ASSUME NEW k \in DOMAIN new
        PROVE  /\ new[k] = Fate(new[k].action, new[k].due, new[k].fate, new[k].at)
               /\ new[k].due \in Int
               /\ new[k].fate = "enacted" => new[k].at = new[k].due
               /\ new[k].fate = "cancelled" => new[k].at < new[k].due
    <3>1. CASE k \in DOMAIN acc
      BY <2>5, <3>1 DEF History
    <3>2. CASE k = n
      <4> HIDE DEF n
      <4> QED
        BY <2>2, <2>3, <3>2 DEF e
    <3> QED
      BY <2>5, <3>1, <3>2
  <2>7. History(new)
    BY <2>3, <2>6 DEF History
  <2>8. ASSUME NEW u, Pending(u, acc) PROVE Pending(u, new) /\ u.id # Len(acc)
    <3>1. u.id \in 0 .. (Len(acc) - 1)
      BY <2>8 DEF Pending
    <3>2. u.id \in 0 .. (Len(new) - 1) /\ u.id + 1 \in DOMAIN acc /\ u.id # Len(acc)
      BY <2>1, <2>3, <3>1, SMTT(60)
    <3>3. new[u.id + 1] = acc[u.id + 1]
      BY <2>5, <3>2
    <3> QED
      BY <2>8, <3>2, <3>3 DEF Pending
  <2> QED
    BY <2>3, <2>5, <2>7, <2>8 DEF new, e, n
\* An update that takes effect at once waits nowhere.
<1>ImmediateWaiting. ASSUME NEW q, NEW e, NEW acc, Waiting(q, e, acc), History(acc), NEW act, NEW h \in Int
                     PROVE  LET new == Append(acc, Fate(act, h, "enacted", h))
                            IN  Waiting(q, e, new) /\ History(new)
  <2> USE <1>ImmediateWaiting
  <2> DEFINE new == Append(acc, Fate(act, h, "enacted", h))
  <2>1. "enacted" # "cancelled" /\ "enacted" # "queued"
    OBVIOUS
  <2>2. /\ History(new)
        /\ \A k \in DOMAIN acc : k \in DOMAIN new /\ new[k] = acc[k]
        /\ DOMAIN new = DOMAIN acc \cup {Len(acc) + 1}
        /\ new[Len(acc) + 1] = Fate(act, h, "enacted", h)
        /\ \A u : Pending(u, acc) => Pending(u, new) /\ u.id # Len(acc)
    BY <2>1, <1>AcceptedEntries, SMTT(60)
  <2>3. new[Len(acc) + 1].fate = "enacted"
    BY <2>2, SMTT(60) DEF Fate
  <2> HIDE DEF new
  <2>4. \A k \in DOMAIN new : new[k].fate = "queued" => k \in DOMAIN acc /\ acc[k].fate = "queued"
    BY <2>1, <2>2, <2>3
  <2>5. Waiting(q, e, new)
    BY <2>2, <2>4 DEF Waiting
  <2> QED
    BY <2>2, <2>5 DEF new
\* An update queued under the next id waits in the queue alone.
<1>EnqueueWaiting. ASSUME NEW q, NEW e, NEW acc, Waiting(q, e, acc), History(acc), NEW act, WellFormed(act),
                          NEW d \in Int, NEW h
                   PROVE  LET new == Append(acc, Fate(act, d, "queued", h))
                              later == Append(q, QueuedUpdate(Len(acc), act, d))
                          IN  Waiting(later, e, new) /\ History(new)
  <2> USE <1>EnqueueWaiting
  <2> DEFINE new == Append(acc, Fate(act, d, "queued", h))
             u == QueuedUpdate(Len(acc), act, d)
             later == Append(q, u)
             m == Len(q) + 1
             n == Len(acc) + 1
  <2>1. "queued" # "cancelled" /\ "enacted" # "queued"
    OBVIOUS
  <2>2. /\ History(new) /\ Len(new) = n
        /\ \A k \in DOMAIN acc : k \in DOMAIN new /\ new[k] = acc[k]
        /\ DOMAIN new = DOMAIN acc \cup {n}
        /\ new[n] = Fate(act, d, "queued", h)
        /\ \A v : Pending(v, acc) => Pending(v, new) /\ v.id # Len(acc)
    BY <2>1, <1>AcceptedEntries, SMTT(60)
  <2>3. new[n].fate = "queued" /\ new[n].action = act /\ new[n].due = d
    <3> HIDE DEF n, new
    <3> QED
      BY <2>2, SMTT(60) DEF Fate
  <2>4. u.id = Len(acc) /\ u.action = act /\ u.activation_height = d
    BY DEF QueuedUpdate
  <2>5. Len(acc) \in Nat
    BY ListDomain DEF History
  <2> HIDE DEF new, u
  <2>6. Pending(u, new)
    <3>1. u.id \in 0 .. (Len(new) - 1)
      BY <2>2, <2>4, <2>5, SMTT(60)
    <3> QED
      BY <2>3, <2>4, <3>1 DEF Pending
  <2>7. IsList(q) /\ IsList(e)
    BY DEF Waiting
  <2>8. DOMAIN q = 1 .. Len(q) /\ Len(q) \in Nat
    BY <2>7, ListDomain
  <2>9. IsList(later) /\ Len(later) = m /\ (\A i \in 1 .. Len(q) : later[i] = q[i]) /\ later[m] = u
    BY <2>7, ListAppend, SMTT(60)
  <2>10. DOMAIN later = 1 .. m
    BY <2>9, ListDomain
  <2> HIDE DEF later
  <2>11. /\ DOMAIN later = DOMAIN q \cup {m} /\ m \notin DOMAIN q
         /\ \A i \in DOMAIN q : later[i] = q[i]
    BY <2>8, <2>9, <2>10, SMTT(60)
  <2> HIDE DEF m
  <2>12. /\ \A i \in DOMAIN q : Pending(q[i], new) /\ q[i].id # u.id
         /\ \A i \in DOMAIN e : Pending(e[i], new) /\ e[i].id # u.id
    BY <2>2, <2>4 DEF Waiting
  <2>13. /\ \A i \in DOMAIN later : Pending(later[i], new)
         /\ \A i \in DOMAIN e : Pending(e[i], new)
    BY <2>6, <2>9, <2>11, <2>12
  <2>14. ASSUME NEW i \in DOMAIN later, NEW j \in DOMAIN later, later[i].id = later[j].id PROVE i = j
    <3>1. CASE i \in DOMAIN q /\ j \in DOMAIN q
      BY <2>11, <2>14, <3>1 DEF Waiting
    <3>2. CASE i = m \/ j = m
      BY <2>9, <2>11, <2>12, <2>14, <3>2
    <3> QED
      BY <2>11, <3>1, <3>2
  <2>15. /\ \A i, j \in DOMAIN e : e[i].id = e[j].id => i = j
         /\ \A i \in DOMAIN later, j \in DOMAIN e : later[i].id # e[j].id
    BY <2>9, <2>11, <2>12, SMTT(60) DEF Waiting
  <2>16. ASSUME NEW k \in DOMAIN new, new[k].fate = "queued"
         PROVE  (\E i \in DOMAIN later : later[i].id = k - 1) \/ (\E i \in DOMAIN e : e[i].id = k - 1)
    <3>1. CASE k \in DOMAIN acc
      BY <2>2, <2>11, <2>16, <3>1, SMTT(60) DEF Waiting
    <3>2. CASE k = n
      <4>1. k - 1 = Len(acc)
        BY <2>5, <3>2, SMTT(60)
      <4> QED
        BY <2>4, <2>9, <2>11, <4>1
    <3> QED
      BY <2>2, <3>1, <3>2
  <2>17. Waiting(later, e, new)
    BY <2>7, <2>9, <2>13, <2>14, <2>15, <2>16 DEF Waiting
  <2> QED
    BY <2>2, <2>17 DEF new, later, u
\* Draining the queue leaves nothing in it that is due.
<1>DrainDue. ASSUME NEW q, IsList(q), NEW h, Due(q, <<>>, h, "admin_pending"),
                    \A i \in DOMAIN q : q[i].activation_height \in Int
             PROVE  LET due == Keep(q, {u \in Range(q) : u.activation_height <= h})
                        later == Keep(q, {u \in Range(q) : ~(u.activation_height <= h)})
                    IN  Due(later, due, h, IF due = <<>> THEN "admin" ELSE "admin_enact")
  <2> USE <1>DrainDue
  <2> DEFINE T == {u \in Range(q) : u.activation_height <= h}
             U == {u \in Range(q) : ~(u.activation_height <= h)}
             due == Keep(q, T)
             later == Keep(q, U)
             st == IF due = <<>> THEN "admin" ELSE "admin_enact"
  <2>1. \A i \in DOMAIN q : q[i].activation_height \in Int /\ q[i].activation_height >= h
    BY DEF Due
  <2>2. h \in Int
    BY DEF Due
  <2>3. \A u \in T : u.activation_height = h
    <3>1. \A u \in T : u.activation_height \in Int /\ u.activation_height >= h /\ u.activation_height <= h
      BY <2>1 DEF Range
    <3> QED
      BY <2>2, <3>1, SMTT(60)
  <2>4. \A u \in U : u.activation_height > h
    <3>1. \A u \in U : u.activation_height \in Int /\ ~(u.activation_height <= h)
      BY <2>1 DEF Range
    <3> QED
      BY <2>2, <3>1, SMTT(60)
  <2>5. \A x, y : x \in Int /\ y \in Int /\ x > y => x >= y
    BY SMTT(60)
  <2>6. \A u \in U : u.activation_height \in Int
    BY DEF Range
  <2> HIDE DEF T, U
  <2>7. Range(due) \subseteq T /\ Range(later) \subseteq U
    <3>1. Range(due) = Range(q) \cap T
      BY KeepList
    <3>2. Range(later) = Range(q) \cap U
      BY KeepList
    <3> QED
      BY <3>1, <3>2
  <2> HIDE DEF due, later
  <2>8. \A i \in DOMAIN due : due[i] \in T
    BY <2>7 DEF Range
  <2>9. \A i \in DOMAIN later : later[i] \in U
    BY <2>7 DEF Range
  <2>10. st = "admin_enact" <=> due # <<>>
    OBVIOUS
  <2> HIDE DEF st
  <2>11. Due(later, due, h, st)
    BY <2>2, <2>3, <2>4, <2>5, <2>6, <2>8, <2>9, <2>10 DEF Due
  <2> QED
    BY <2>11 DEF st, due, later, T, U
\* A step that leaves administration and the height alone, and does not pass the draining
\* of the queue.
<1>AdminOtherStep. ASSUME AdminInv, UNCHANGED adminVars, UNCHANGED pow_state, Apart(stage, stage')
                   PROVE  AdminInv'
  <2> USE <1>AdminOtherStep
  <2>1. /\ authorities' = authorities /\ queued' = queued /\ next_update_id' = next_update_id
        /\ enacting' = enacting /\ block_updates' = block_updates /\ accepted' = accepted
    BY DEF adminVars
  <2>2. height' = height
    BY DEF height
  <2>3. Due(queued, enacting, height, stage)
    BY DEF AdminInv
  <2> HIDE DEF height
  <2>4. Due(queued, enacting, height, stage')
    BY <2>3 DEF Due, Apart
  <2> QED
    BY <2>1, <2>2, <2>4 DEF AdminInv
\* A new block: what is due at its height is still to be drained.
<1>AdminBlockStep. ASSUME AdminInv, UNCHANGED adminVars, stage = "idle", stage' = "preprocess",
                          height' = height + 1
                   PROVE  AdminInv'
  <2> USE <1>AdminBlockStep
  <2>1. /\ authorities' = authorities /\ queued' = queued /\ next_update_id' = next_update_id
        /\ enacting' = enacting /\ block_updates' = block_updates /\ accepted' = accepted
    BY DEF adminVars
  <2> DEFINE h == height
             g == height'
  <2>2. Due(queued, enacting, h, "idle")
    BY DEF AdminInv
  <2>3. ~BeforeDraining("idle") /\ BeforeDraining("preprocess")
        /\ "idle" # "admin_enact" /\ "preprocess" # "admin_enact"
    BY DEF BeforeDraining
  <2>4. \A i \in DOMAIN queued : queued[i].activation_height \in Int
    BY WaitingHeights DEF AdminInv
  <2>5. enacting = <<>> /\ h \in Int
    BY <2>2, <2>3 DEF Due
  <2>6. g = h + 1
    OBVIOUS
  <2> HIDE DEF h, g
  <2>7. \A i \in DOMAIN queued : queued[i].activation_height > h
    BY <2>2, <2>3 DEF Due
  <2>8. g \in Int /\ \A i \in DOMAIN queued : queued[i].activation_height >= g
    BY <2>4, <2>5, <2>6, <2>7, SMTT(60)
  <2>9. \A i \in DOMAIN <<>> : FALSE
    BY SMTT(60)
  <2>10. Due(queued, enacting, g, "preprocess")
    BY <2>3, <2>5, <2>8, <2>9 DEF Due
  <2> QED
    BY <2>1, <2>10 DEF AdminInv, g
\* The queue is drained.
<1>DrainStep. ASSUME AdminInv, DrainQueue
              PROVE  AdminInv'
  <2> USE <1>DrainStep
  <2> DEFINE T == {u \in Range(queued) : u.activation_height <= height}
             U == {u \in Range(queued) : ~(u.activation_height <= height)}
             due == Keep(queued, T)
             later == Keep(queued, U)
  <2>1. process_queued = due /\ still_queued = later
    BY DEF process_queued, still_queued, Matured
  <2>2. /\ enacting' = due /\ queued' = later /\ block_updates' = {}
        /\ stage' = IF due = <<>> THEN "admin" ELSE "admin_enact"
        /\ authorities' = authorities /\ next_update_id' = next_update_id /\ accepted' = accepted
        /\ pow_state' = pow_state /\ stage = "admin_pending"
    BY <2>1 DEF DrainQueue, Running, chainVars
  <2>3. height' = height
    BY <2>2 DEF height
  <2>4. Due(queued, enacting, height, "admin_pending") /\ Waiting(queued, enacting, accepted)
    BY <2>2 DEF AdminInv
  <2>5. enacting = <<>>
    <3>1. "admin_pending" # "admin_enact"
      OBVIOUS
    <3> QED
      BY <2>4, <3>1 DEF Due
  <2>6. Range(queued) \subseteq U \cup T /\ U \cap T = {}
    OBVIOUS
  <2> HIDE DEF T, U
  <2>7. Waiting(later, due, accepted)
    BY <2>4, <2>5, <2>6, <1>DrainWaiting
  <2>8. \A i \in DOMAIN queued : queued[i].activation_height \in Int
    BY WaitingHeights DEF AdminInv
  <2>9. IsList(queued)
    BY <2>4 DEF Waiting
  <2>10. Due(later, due, height, IF due = <<>> THEN "admin" ELSE "admin_enact")
    <3> HIDE DEF height
    <3> QED
      BY <2>4, <2>5, <2>8, <2>9, <1>DrainDue DEF T, U
  <2> HIDE DEF due, later, height
  <2> QED
    BY <2>2, <2>3, <2>7, <2>10 DEF AdminInv
\* The first matured update is enacted.
<1>EnactStep. ASSUME AdminInv, EnactQueued
              PROVE  AdminInv'
  <2> USE <1>EnactStep
  <2> DEFINE u == Head(enacting)
             h == height
             acc == Decided(accepted, u.id + 1, "enacted", h)
             st == IF Len(enacting) = 1 THEN "admin" ELSE "admin_enact"
  <2>1. /\ authorities' = UpdatedAuthorities(authorities, u.action)
        /\ enacting' = Tail(enacting) /\ accepted' = acc /\ stage' = st
        /\ queued' = queued /\ block_updates' = block_updates /\ next_update_id' = next_update_id
        /\ pow_state' = pow_state /\ stage = "admin_enact"
    BY DEF EnactQueued, handle_update, Running, chainVars, Decided
  <2>2. height' = h
    BY <2>1 DEF height
  <2>3. /\ QuorateAuthorities(authorities) /\ History(accepted)
        /\ next_update_id = Len(accepted) /\ Waiting(queued, enacting, accepted)
        /\ Due(queued, enacting, h, "admin_enact")
        /\ block_updates \subseteq {"OlStfVk", "EeStfVk"}
    BY <2>1 DEF AdminInv
  <2>4. IsList(enacting)
    BY <2>3 DEF Waiting
  <2> HIDE DEF h
  <2>5. /\ enacting # <<>> /\ 1 \in DOMAIN enacting /\ u = enacting[1] /\ u.activation_height = h
        /\ Due(queued, Tail(enacting), h, st)
    BY <2>3, <2>4, EnactDue
  <2> HIDE DEF u, st
  <2>6. Pending(u, accepted)
    <3>1. \A i \in DOMAIN enacting : Pending(enacting[i], accepted)
      BY <2>3 DEF Waiting
    <3> QED
      BY <2>5, <3>1
  <2>7. u.id + 1 \in DOMAIN accepted /\ accepted[u.id + 1].due = h
    <3>1. DOMAIN accepted = 1 .. Len(accepted) /\ Len(accepted) \in Nat
      BY <2>3, ListDomain DEF History
    <3>2. u.id \in 0 .. (Len(accepted) - 1) /\ accepted[u.id + 1].due = u.activation_height
      BY <2>6 DEF Pending
    <3> QED
      BY <2>5, <3>1, <3>2, SMTT(60)
  <2>8. QuorateAuthorities(UpdatedAuthorities(authorities, u.action))
    BY <2>3, <2>6, <1>EnactKeepsAuthorities DEF Pending
  <2>9. History(acc)
    BY <2>3, <2>7, <1>DecidedHistory
  <2>10. Len(acc) = Len(accepted)
    BY <2>3, <2>7, <1>DecidedEntries, SMTT(60)
  <2>11. "enacted" # "queued"
    OBVIOUS
  <2>12. Waiting(queued, Tail(enacting), acc)
    BY <2>3, <2>5, <2>11, <1>EnactWaiting DEF u
  <2> HIDE DEF acc
  <2> QED
    BY <2>1, <2>2, <2>3, <2>5, <2>8, <2>9, <2>10, <2>12 DEF AdminInv
\* The limited types are the two that block_updates may hold.
<1>AdmittedTypes. ASSUME block_updates \subseteq {"OlStfVk", "EeStfVk"}, NEW type
                  PROVE  Admitted(type) \subseteq {"OlStfVk", "EeStfVk"}
  BY <1>AdmittedTypes DEF Admitted, Limited
\* A rejected update spends its sequence number.
<1>RejectStep. ASSUME AdminInv, RejectUpdate
               PROVE  AdminInv'
  <2> USE <1>RejectStep
  <2> DEFINE payload == AdminPayload(NextTx("admin"))
             type == update_tx_type(payload.action)
  <2>1. /\ AuthorizedTx /\ authorities' = update_last_seqno(payload)
        /\ block_updates' = block_updates \/ block_updates' = Admitted(type)
        /\ queued' = queued /\ next_update_id' = next_update_id /\ accepted' = accepted
    BY DEF RejectUpdate
  <2>2. /\ stage' = stage /\ enacting' = enacting /\ height' = height
        /\ QuorateAuthorities(update_last_seqno(payload))
    BY <2>1, AuthorizedFacts
  <2> HIDE DEF payload
  <2>3. block_updates' \subseteq {"OlStfVk", "EeStfVk"}
    BY <2>1, <1>AdmittedTypes DEF AdminInv
  <2> HIDE DEF height
  <2> QED
    BY <2>1, <2>2, <2>3 DEF AdminInv
\* An update is queued.
<1>EnqueueStep. ASSUME AdminInv, EnqueueUpdate
                PROVE  AdminInv'
  <2> USE <1>EnqueueStep
  <2> DEFINE payload == AdminPayload(NextTx("admin"))
             act == payload.action
             type == update_tx_type(act)
             h == height
             d == ActivationHeight(act)
             acc == Append(accepted, Fate(act, d, "queued", h))
             u == QueuedUpdate(Len(accepted), act, d)
             later == Append(queued, u)
  <2>1. AuthorizedTx /\ ~IsCancel(payload) /\ confirmation_depth(type) # 0
    BY DEF EnqueueUpdate
  <2>2. /\ authorities' = update_last_seqno(payload) /\ block_updates' = Admitted(type)
        /\ queued' = Append(queued, QueuedUpdate(next_update_id, act, d))
        /\ next_update_id' = next_update_id + 1 /\ accepted' = acc
    BY DEF EnqueueUpdate
  <2>3. /\ stage' = stage /\ enacting' = enacting /\ height' = h /\ stage = "admin"
        /\ QuorateAuthorities(update_last_seqno(payload)) /\ WellFormed(act)
        /\ Due(queued, enacting, h, "admin")
    BY <2>1, AuthorizedFacts
  <2>4. /\ History(accepted) /\ next_update_id = Len(accepted) /\ Waiting(queued, enacting, accepted)
        /\ block_updates \subseteq {"OlStfVk", "EeStfVk"}
    BY DEF AdminInv
  <2>5. confirmation_depth(type) \in Nat
    BY <2>3, DepthType DEF WellFormed
  <2>6. h \in Int
    BY <2>3 DEF Due
  <2>7. d = h + confirmation_depth(type)
    BY DEF ActivationHeight
  <2> HIDE DEF payload, type, h, d, act
  <2>8. d \in Int /\ d > h /\ d >= h
    BY <2>1, <2>5, <2>6, <2>7, SMTT(60)
  <2>9. Waiting(later, enacting, acc) /\ History(acc)
    BY <2>3, <2>4, <2>8, <1>EnqueueWaiting
  <2>10. Len(acc) = next_update_id + 1
    BY <2>4, ListAppend  DEF History
  <2>11. IsList(queued) /\ DOMAIN queued = 1 .. Len(queued) /\ Len(queued) \in Nat
    BY <2>4, ListDomain DEF Waiting
  <2>12. u.activation_height = d
    BY DEF QueuedUpdate
  <2>13. block_updates' \subseteq {"OlStfVk", "EeStfVk"}
    BY <2>2, <2>4, <1>AdmittedTypes
  <2> HIDE DEF u, acc
  <2>14. /\ \A i \in 1 .. Len(queued) : later[i] = queued[i]
         /\ IsList(later) /\ Len(later) = Len(queued) + 1 /\ later[Len(queued) + 1] = u
    BY <2>11, ListAppend, SMTT(60)
  <2>15. DOMAIN later = 1 .. Len(later)
    BY <2>14, ListDomain
  <2> HIDE DEF later
  <2>16. \A i \in DOMAIN later : \/ i \in DOMAIN queued /\ later[i] = queued[i]
                                \/ later[i] = u
    BY <2>11, <2>14, <2>15, SMTT(60)
  <2>17. Due(later, enacting, h, "admin")
    <3>1. ~BeforeDraining("admin")
      BY DEF BeforeDraining
    <3>2. \A i \in DOMAIN queued : queued[i].activation_height >= h /\ queued[i].activation_height > h
      BY <2>3, <3>1 DEF Due
    <3>3. \A i \in DOMAIN later : later[i].activation_height >= h /\ later[i].activation_height > h
      BY <2>8, <2>12, <2>16, <3>2
    <3> QED
      BY <2>3, <3>3 DEF Due
  <2>18. queued' = later /\ next_update_id' = Len(acc)
    BY <2>2, <2>4, <2>10 DEF later, u
  <2> QED
    BY <2>2, <2>3, <2>9, <2>13, <2>17, <2>18 DEF AdminInv, h
\* An update without a confirmation depth takes effect at once.
<1>ImmediateStep. ASSUME AdminInv, ApplyImmediately
                  PROVE  AdminInv'
  <2> USE <1>ImmediateStep
  <2> DEFINE payload == AdminPayload(NextTx("admin"))
             act == payload.action
             type == update_tx_type(act)
             auths == update_last_seqno(payload)
             h == height
             acc == Append(accepted, Fate(act, h, "enacted", h))
  <2>1. AuthorizedTx /\ ~IsCancel(payload)
    BY DEF ApplyImmediately
  <2>2. /\ authorities' = UpdatedAuthorities(auths, act) /\ block_updates' = Admitted(type)
        /\ next_update_id' = next_update_id + 1 /\ accepted' = acc /\ queued' = queued
    BY DEF ApplyImmediately, handle_update
  <2>3. /\ stage' = stage /\ enacting' = enacting /\ height' = h /\ stage = "admin"
        /\ QuorateAuthorities(auths) /\ WellFormed(act)
        /\ Due(queued, enacting, h, "admin")
    BY <2>1, AuthorizedFacts
  <2>4. /\ History(accepted) /\ next_update_id = Len(accepted) /\ Waiting(queued, enacting, accepted)
        /\ block_updates \subseteq {"OlStfVk", "EeStfVk"}
    BY DEF AdminInv
  <2>5. h \in Int
    BY <2>3 DEF Due
  <2> HIDE DEF payload, type, h, act, auths
  <2>6. QuorateAuthorities(UpdatedAuthorities(auths, act))
    BY <2>3, <1>EnactKeepsAuthorities
  <2>7. Waiting(queued, enacting, acc) /\ History(acc)
    BY <2>4, <2>5, <1>ImmediateWaiting
  <2>8. Len(acc) = next_update_id + 1
    BY <2>4, ListAppend  DEF History
  <2>9. block_updates' \subseteq {"OlStfVk", "EeStfVk"}
    BY <2>2, <2>4, <1>AdmittedTypes
  <2> HIDE DEF acc
  <2>10. next_update_id' = Len(acc)
    BY <2>2, <2>8
  <2> QED
    BY <2>2, <2>3, <2>6, <2>7, <2>9, <2>10 DEF AdminInv, h
\* A queued update is cancelled; it was not due yet.
<1>CancelStep. ASSUME AdminInv, CancelUpdate
               PROVE  AdminInv'
  <2> USE <1>CancelStep
  <2> DEFINE payload == AdminPayload(NextTx("admin"))
             id == payload.action[2]
             h == height
             acc == Decided(accepted, id + 1, "cancelled", h)
             later == Keep(queued, {u \in Range(queued) : u.id # id})
  <2>1. AuthorizedTx /\ IsCancel(payload)
    BY DEF CancelUpdate
  <2>2. /\ authorities' = update_last_seqno(payload) /\ block_updates' = block_updates
        /\ next_update_id' = next_update_id /\ accepted' = acc /\ queued' = later
    BY DEF CancelUpdate, remove_queued, Decided
  <2>3. /\ stage' = stage /\ enacting' = enacting /\ height' = h /\ stage = "admin"
        /\ QuorateAuthorities(update_last_seqno(payload))
        /\ Due(queued, enacting, h, "admin")
    BY <2>1, AuthorizedFacts
  <2>4. /\ History(accepted) /\ next_update_id = Len(accepted) /\ Waiting(queued, enacting, accepted)
        /\ block_updates \subseteq {"OlStfVk", "EeStfVk"}
    BY DEF AdminInv
  <2>5. PICK c \in DOMAIN queued : queued[c].id = id
    BY <2>1 DEF AuthorizedTx, Authorized, Resolves, find_queued
  <2> HIDE DEF payload, h, id
  <2>6. id + 1 \in DOMAIN accepted /\ accepted[id + 1].due = queued[c].activation_height
    BY <2>4, <2>5, WaitingHeights
  <2>7. ~BeforeDraining("admin")
    BY DEF BeforeDraining
  <2>8. h < accepted[id + 1].due
    <3>1. queued[c].activation_height > h /\ h \in Int
      BY <2>3, <2>7 DEF Due
    <3>2. queued[c].activation_height \in Int
      BY <2>4, WaitingHeights
    <3> QED
      BY <2>6, <3>1, <3>2
  <2>9. History(acc)
    BY <2>4, <2>6, <2>8, <1>DecidedHistory
  <2>10. Len(acc) = Len(accepted)
    BY <2>4, <2>6, <1>DecidedEntries
  <2>11. "cancelled" # "queued"
    OBVIOUS
  <2>12. Waiting(later, enacting, acc)
    <3>1. Waiting(Keep(queued, {u \in Range(queued) : u.id # queued[c].id}), enacting,
                  Decided(accepted, queued[c].id + 1, "cancelled", h))
      BY <2>4, <2>11, <1>CancelWaiting
    <3> QED
      BY <2>5, <3>1
  <2>13. Due(later, enacting, h, "admin")
    <3>1. \A i \in DOMAIN queued : queued[i].activation_height >= h /\ queued[i].activation_height > h
      BY <2>3, <2>7 DEF Due
    <3>2. IsList(queued)
      BY <2>4 DEF Waiting
    <3>3. Range(later) \subseteq Range(queued)
      BY <3>2, KeepList
    <3> HIDE DEF later
    <3>4. \A i \in DOMAIN later : \E j \in DOMAIN queued : later[i] = queued[j]
      BY <3>3 DEF Range
    <3>5. \A i \in DOMAIN later : later[i].activation_height >= h /\ later[i].activation_height > h
      BY <3>1, <3>4
    <3> QED
      BY <2>3, <3>5 DEF Due
  <2> HIDE DEF acc, later
  <2> QED
    BY <2>2, <2>3, <2>4, <2>9, <2>10, <2>12, <2>13 DEF AdminInv, h
\* Every step of administration keeps its invariant.
<1>AdminStepInv. ASSUME AdminInv, AdminNext
                 PROVE  AdminInv'
  <2> USE <1>AdminStepInv
  <2>1. CASE DrainQueue
    BY <2>1, <1>DrainStep
  <2>2. CASE EnactQueued
    BY <2>2, <1>EnactStep
  <2>3. CASE IgnoreAdminTx
    <3>1. UNCHANGED adminVars /\ UNCHANGED pow_state /\ Apart(stage, stage')
      BY <2>3 DEF IgnoreAdminTx, chainVars, Apart
    <3> QED
      BY <3>1, <1>AdminOtherStep
  <2>4. CASE RejectUpdate
    BY <2>4, <1>RejectStep
  <2>5. CASE EnqueueUpdate
    BY <2>5, <1>EnqueueStep
  <2>6. CASE ApplyImmediately
    BY <2>6, <1>ImmediateStep
  <2>7. CASE CancelUpdate
    BY <2>7, <1>CancelStep
  <2>8. CASE TxsDone("admin", "checkpoint") /\ UNCHANGED adminVars
    <3>1. UNCHANGED pow_state /\ stage = "admin" /\ stage' = "checkpoint"
      BY <2>8 DEF TxsDone, Running, chainVars
    <3>2. Apart(stage, stage')
      BY <3>1  DEF BeforeDraining, Apart
    <3> QED
      BY <2>8, <3>1, <3>2, <1>AdminOtherStep
  <2> QED
    BY <2>1, <2>2, <2>3, <2>4, <2>5, <2>6, <2>7, <2>8 DEF AdminNext
\* The bridge follows the stages from its transactions to the export.
<1>BridgeStages. ASSUME BridgeNext
                 PROVE  UNCHANGED pow_state /\ Apart(stage, stage')
  <2> USE <1>BridgeStages
  <2>1. CASE SkipBridgeTx
    BY <2>1  DEF SkipBridgeTx, BridgeTxHandled, Panic, chainVars, Apart
  <2>2. CASE AddDeposit
    BY <2>2  DEF AddDeposit, BridgeTxHandled, chainVars, Apart
  <2>3. CASE FulfillWithdrawal
    BY <2>3  DEF FulfillWithdrawal, BridgeTxHandled, Panic, chainVars, Apart
  <2>4. CASE RemoveOperator
    BY <2>4  DEF RemoveOperator, BridgeTxHandled, Panic, chainVars, Apart
  <2>5. CASE TxsDone("bridge", "bridge_expired")
    BY <2>5  DEF TxsDone, Running, chainVars, Apart, BeforeDraining
  <2>6. CASE reassign_expired_assignments
    BY <2>6  DEF reassign_expired_assignments, Running, Panic, chainVars, Apart, BeforeDraining
  <2>7. CASE create_withdrawal_assignment
    BY <2>7  DEF create_withdrawal_assignment, BridgeMsgHandled, Panic, chainVars, Apart
  <2>8. CASE apply_operator_set_update
    BY <2>8  DEF apply_operator_set_update, BridgeMsgHandled, Panic, chainVars, Apart
  <2>9. CASE update_safe_harbor_address
    BY <2>9  DEF update_safe_harbor_address, BridgeMsgHandled, chainVars, Apart
  <2>10. CASE activate_safe_harbor
    BY <2>10  DEF activate_safe_harbor, BridgeMsgHandled, chainVars, Apart
  <2>11. CASE MsgsDone("bridge", "bridge_msgs", "export")
    BY <2>11  DEF MsgsDone, Running, chainVars, Apart, BeforeDraining
  <2> QED
    BY <2>1, <2>2, <2>3, <2>4, <2>5, <2>6, <2>7, <2>8, <2>9, <2>10, <2>11 DEF BridgeNext
\* Only a new block and the steps of administration matter to it: no other step passes
\* the draining of the queue.
<1>AdminSteps. ASSUME [Next]_vars
               PROVE  \/ StartBlock /\ UNCHANGED adminVars
                      \/ AdminNext /\ UNCHANGED pow_state
                      \/ UNCHANGED adminVars /\ UNCHANGED pow_state /\ Apart(stage, stage')
  <2> USE <1>AdminSteps
  <2>1. CASE UNCHANGED vars \/ EndOfChain
    BY <2>1 DEF EndOfChain, vars, hostVars, chainVars, Apart
  <2>2. CASE HostStep
    <3>1. CASE StartBlock /\ UNCHANGED <<adminVars, checkpointVars, bridgeVars>>
      BY <3>1
    <3>2. CASE PreProcess(CollectedRequests) /\ UNCHANGED <<adminVars, checkpointVars, bridgeVars>>
      BY <3>2  DEF PreProcess, Running, Apart, BeforeDraining
    <3>3. CASE Resolve /\ UNCHANGED <<adminVars, checkpointVars, bridgeVars>>
      BY <3>3  DEF Resolve, Running, chainVars, Apart, BeforeDraining
    <3>4. CASE ExportBlock /\ UNCHANGED <<adminVars, checkpointVars, bridgeVars>>
      BY <3>4  DEF ExportBlock, Running, chainVars, Apart, BeforeDraining
    <3> QED
      BY <2>2, <3>1, <3>2, <3>3, <3>4 DEF HostStep
  <2>3. CASE AdminStep
    <3>1. AdminNext
      BY <2>3 DEF AdminStep
    <3>2. CASE RejectUpdate \/ EnqueueUpdate \/ ApplyImmediately \/ CancelUpdate
      <4>1. UNCHANGED chainVars
        BY <3>2 DEF RejectUpdate, EnqueueUpdate, ApplyImmediately, CancelUpdate, AuthorizedTx
      <4> QED
        BY <3>1, <4>1 DEF chainVars
    <3>3. CASE DrainQueue \/ EnactQueued \/ IgnoreAdminTx \/ TxsDone("admin", "checkpoint")
      <4>1. UNCHANGED chainVars
        BY <3>3 DEF DrainQueue, EnactQueued, IgnoreAdminTx, TxsDone
      <4> QED
        BY <3>1, <4>1 DEF chainVars
    <3> QED
      BY <3>1, <3>2, <3>3 DEF AdminNext
  <2>4. CASE CheckpointStep
    <3>1. UNCHANGED adminVars
      BY <2>4 DEF CheckpointStep
    <3>2. CASE RejectCheckpoint
      BY <3>1, <3>2  DEF RejectCheckpoint, CheckpointTxReady, Running, Panic, chainVars, Apart
    <3>3. CASE AcceptCheckpoint
      BY <3>1, <3>3  DEF AcceptCheckpoint, CheckpointTxReady, Running, Panic, chainVars, Apart
    <3>4. CASE TxsDone("checkpoint", "bridge")
      BY <3>1, <3>4  DEF TxsDone, Running, chainVars, Apart, BeforeDraining
    <3>5. CASE record_deposit
      BY <3>1, <3>5  DEF record_deposit, CheckpointMsgReady, HandledMsg, Running, Panic, chainVars, Apart
    <3>6. CASE update_sequencer_key
      BY <3>1, <3>6  DEF update_sequencer_key, CheckpointMsgReady, HandledMsg, Running, chainVars, Apart
    <3>7. CASE queue_predicate_transition
      BY <3>1, <3>7  DEF queue_predicate_transition, CheckpointMsgReady, HandledMsg, Running, Panic,
                        chainVars, Apart
    <3>8. CASE MsgsDone("checkpoint", "checkpoint_msgs", "bridge_msgs")
      BY <3>1, <3>8  DEF MsgsDone, Running, chainVars, Apart, BeforeDraining
    <3> QED
      BY <2>4, <3>2, <3>3, <3>4, <3>5, <3>6, <3>7, <3>8 DEF CheckpointStep, CheckpointNext
  <2>5. CASE BridgeStep
    <3>1. UNCHANGED adminVars
      BY <2>5 DEF BridgeStep
    <3>2. UNCHANGED pow_state /\ Apart(stage, stage')
      BY <2>5, <1>BridgeStages DEF BridgeStep
    <3> QED
      BY <3>1, <3>2
  <2> QED
    BY <2>1, <2>2, <2>3, <2>4, <2>5 DEF Next
<1>main. ASSUME HeaderInv, AdminInv, [Next]_vars
         PROVE  HeaderInv' /\ AdminInv'
  <2> USE <1>main
  <2>1. CASE StartBlock /\ UNCHANGED adminVars
    <3>1. height' = height + 1 /\ HeaderInv'
      BY <2>1, BlockHeight
    <3>2. stage = "idle" /\ stage' = "preprocess"
      BY <2>1 DEF StartBlock, Running
    <3> QED
      BY <2>1, <3>1, <3>2, <1>AdminBlockStep
  <2>2. CASE AdminNext /\ UNCHANGED pow_state
    BY <2>2, <1>AdminStepInv DEF HeaderInv
  <2>3. CASE UNCHANGED adminVars /\ UNCHANGED pow_state /\ Apart(stage, stage')
    BY <2>3, <1>AdminOtherStep DEF HeaderInv
  <2> QED
    BY <2>1, <2>2, <2>3, <1>AdminSteps
<1> QED
  BY <1>main

\* The queue, the updates in hand and the history of accepted updates belong together in
\* every reachable state, and every signer set can be exercised.
THEOREM AdminInvariance ==
  Spec => []AdminInv
<1>1. Init => HeaderInv /\ AdminInv
  <2> SUFFICES ASSUME Init PROVE HeaderInv /\ AdminInv
    OBVIOUS
  <2>1. pow_state = init(Anchor) /\ Anchor.height \in Nat
    BY HeaderAssumption DEF Init, HostInit
  <2>2. height \in Int /\ HeaderInv
    BY <2>1, SMTT(60) DEF height, init, HeaderVerificationState, HeaderInv
  <2> QED
    BY <2>2, AdminInitInv DEF Init
<1>2. HeaderInv /\ AdminInv /\ [Next]_vars => HeaderInv' /\ AdminInv'
  BY AdminInvStep
<1> QED
  BY <1>1, <1>2, PTL DEF Spec

\* Every accepted update ends in one way: it waits once, or was enacted exactly at its
\* activation height, or was cancelled before it; and once the queue of a block is drained
\* nothing that is due is left in it (handle_pending_updates, handle_action).
THEOREM ResolvedOnce ==
  Spec => []UpdatesResolveOnce
<1>1. AdminInv => UpdatesResolveOnce
  <2> SUFFICES ASSUME AdminInv PROVE UpdatesResolveOnce
    OBVIOUS
  <2>1. /\ History(accepted) /\ Waiting(queued, enacting, accepted)
        /\ Due(queued, enacting, height, stage)
    BY DEF AdminInv
  <2>2. stage \in {"idle", "admin", "checkpoint"} => ~BeforeDraining(stage) /\ stage # "admin_enact"
    BY DEF BeforeDraining
  <2> HIDE DEF height
  <2> SUFFICES ASSUME NEW k \in DOMAIN accepted
               PROVE  LET here == {i \in DOMAIN queued : queued[i].id = k - 1}
                          there == {i \in DOMAIN enacting : enacting[i].id = k - 1}
                          update == accepted[k]
                      IN  /\ Cardinality(here) + Cardinality(there)
                                = IF update.fate = "queued" THEN 1 ELSE 0
                          /\ update.fate = "enacted" => update.at = update.due
                          /\ update.fate = "cancelled" => update.at < update.due
                          /\ update.fate = "queued" /\ stage \in {"idle", "admin", "checkpoint"} =>
                               update.due > height
                          /\ \A i \in here : /\ queued[i].action = update.action
                                            /\ queued[i].activation_height = update.due
    BY DEF UpdatesResolveOnce
  <2>3. /\ accepted[k].fate = "enacted" => accepted[k].at = accepted[k].due
        /\ accepted[k].fate = "cancelled" => accepted[k].at < accepted[k].due
    BY <2>1 DEF History
  <2> DEFINE here == {i \in DOMAIN queued : queued[i].id = k - 1}
             there == {i \in DOMAIN enacting : enacting[i].id = k - 1}
  <2>4. /\ Cardinality(here) + Cardinality(there) = IF accepted[k].fate = "queued" THEN 1 ELSE 0
        /\ \A i \in here : /\ queued[i].action = accepted[k].action
                          /\ queued[i].activation_height = accepted[k].due
        /\ accepted[k].fate = "queued" /\ ~BeforeDraining(stage) /\ stage # "admin_enact" =>
             accepted[k].due > height
    BY <2>1, WaitsOnce
  <2> HIDE DEF here, there
  <2>5. /\ Cardinality(here) + Cardinality(there) = IF accepted[k].fate = "queued" THEN 1 ELSE 0
        /\ accepted[k].fate = "enacted" => accepted[k].at = accepted[k].due
        /\ accepted[k].fate = "cancelled" => accepted[k].at < accepted[k].due
        /\ accepted[k].fate = "queued" /\ stage \in {"idle", "admin", "checkpoint"} =>
             accepted[k].due > height
        /\ \A i \in here : /\ queued[i].action = accepted[k].action
                          /\ queued[i].activation_height = accepted[k].due
    BY <2>2, <2>3, <2>4
  <2> QED
    BY <2>5 DEF here, there
<1> QED
  BY <1>1, AdminInvariance, PTL

\* Whatever updates are queued, cancelled and enacted in whatever order, no role is left
\* with fewer signers than its threshold or with a signer listed twice
\* (validate_update, apply_multisig_update).
THEOREM AlwaysQuorate ==
  Spec => []QuorateSigners
<1>1. AdminInv => QuorateSigners
  BY DEF AdminInv, QuorateAuthorities, Quorate, QuorateSigners
<1> QED
  BY <1>1, AdminInvariance, PTL

-----------------------------------------------------------------------------
(* Rotations of the checkpoint predicate: at most one a block.             *)

IsRotation(u) == update_tx_type(u.action) = "OlStfVk"
RotationDepth == confirmation_depth("OlStfVk")
RotationMsgs(box) == {i \in DOMAIN box : box[i][1] = "UpdateCheckpointPredicate"}

\* Rotations in the queue q become due at different heights, because a block accepts only one;
\* so one at most is among the updates in hand, e, or else in the box of the checkpoints.
RotationsApart(q, e, box, ups, h, st) ==
  /\ \A u, v \in Range(q) :
       IsRotation(u) /\ IsRotation(v) /\ u.activation_height = v.activation_height => u = v
  /\ \A u \in Range(q) : IsRotation(u) =>
       /\ RotationDepth # 0
       /\ u.activation_height <= h + RotationDepth
       /\ u.activation_height = h + RotationDepth => "OlStfVk" \in ups /\ ~BeforeDraining(st)
  /\ \A u, v \in Range(e) : IsRotation(u) /\ IsRotation(v) => u = v
  /\ \A u \in Range(e) : IsRotation(u) => RotationDepth # 0
  /\ \A i, j \in RotationMsgs(box) : i = j
  /\ RotationMsgs(box) # {} => /\ \A u \in Range(e) : ~IsRotation(u)
                               /\ RotationDepth = 0 => "OlStfVk" \in ups
                               /\ ~BeforeDraining(st)

\* Until the rotation of a block reaches the checkpoints, those pending come from earlier blocks.
RotationsPast(pending, box, h, st) ==
  RotationMsgs(box) # {} \/ ~AfterPass(st) => \A p \in Range(pending) : p.boundary < h

RotationInv ==
  /\ RotationsApart(queued, enacting, inbox["checkpoint"], block_updates, height, stage)
  /\ RotationsPast(pending_transition, inbox["checkpoint"], height, stage)

\* Taking the first message.
LEMMA RotationTaken ==
  ASSUME NEW box, IsList(box), box # <<>>, \A i, j \in RotationMsgs(box) : i = j
  PROVE  /\ \A i, j \in RotationMsgs(Tail(box)) : i = j
         /\ RotationMsgs(Tail(box)) # {} => RotationMsgs(box) # {}
         /\ Head(box)[1] = "UpdateCheckpointPredicate" => RotationMsgs(box) # {} /\ RotationMsgs(Tail(box)) = {}
<1> DEFINE t == Tail(box)
           Moved(i) == i + 1 \in RotationMsgs(box)
<1>1. /\ IsList(t) /\ Len(t) = Len(box) - 1 /\ \A i \in 1 .. Len(t) : t[i] = box[i + 1]
      /\ Head(box) = box[1] /\ 1 \in 1 .. Len(box)
  BY ListTail
<1>2. DOMAIN box = 1 .. Len(box) /\ Len(box) \in Nat
  BY ListDomain
<1>3. DOMAIN t = 1 .. Len(t)
  BY <1>1, ListDomain
<1> HIDE DEF t
<1>4. \A i \in DOMAIN t : i \in Nat /\ i # 0 /\ i + 1 \in DOMAIN box /\ t[i] = box[i + 1]
  BY <1>1, <1>2, <1>3, SMTT(60)
<1>5. \A i \in RotationMsgs(t) : i \in Nat /\ i # 0 /\ i + 1 \in RotationMsgs(box)
  BY <1>4 DEF RotationMsgs
<1>6. ASSUME NEW i \in RotationMsgs(t), NEW j \in RotationMsgs(t) PROVE i = j
  <2>1. i + 1 = j + 1 /\ i \in Nat /\ j \in Nat
    BY <1>5
  <2> QED
    BY <2>1, SMTT(60)
<1>7. ASSUME Head(box)[1] = "UpdateCheckpointPredicate"
      PROVE  RotationMsgs(box) # {} /\ RotationMsgs(t) = {}
  <2>1. 1 \in RotationMsgs(box)
    BY <1>1, <1>2, <1>7 DEF RotationMsgs
  <2>2. ASSUME NEW i \in RotationMsgs(t) PROVE FALSE
    <3>1. i + 1 = 1 /\ i \in Nat /\ i # 0
      BY <1>5, <2>1
    <3> QED
      BY <3>1, SMTT(60)
  <2> QED
    BY <2>1, <2>2
<1> QED
  BY <1>5, <1>6, <1>7 DEF t

\* Messages that are no rotations, and one that is.
LEMMA RotationsRelayed ==
  ASSUME NEW box, IsList(box), NEW msgs, IsList(msgs), RotationMsgs(msgs) = {} \/ Len(msgs) = 1
  PROVE  /\ RotationMsgs(msgs) = {} => RotationMsgs(box \o msgs) = RotationMsgs(box)
         /\ RotationMsgs(box) = {} => \A i, j \in RotationMsgs(box \o msgs) : i = j
<1> DEFINE b == box \o msgs
<1>1. /\ IsList(b) /\ Len(b) = Len(box) + Len(msgs)
      /\ \A i \in 1 .. Len(box) : b[i] = box[i]
      /\ \A i \in 1 .. Len(msgs) : b[Len(box) + i] = msgs[i]
  BY ListConcat, SMTT(60)
<1>2. /\ DOMAIN box = 1 .. Len(box) /\ Len(box) \in Nat
      /\ DOMAIN msgs = 1 .. Len(msgs) /\ Len(msgs) \in Nat
  BY ListDomain
<1>3. DOMAIN b = 1 .. Len(b)
  BY <1>1, ListDomain
<1> HIDE DEF b
<1>4. /\ \A i \in DOMAIN box : i \in DOMAIN b /\ b[i] = box[i]
      /\ \A i \in DOMAIN b : \/ i \in DOMAIN box
                             \/ /\ i \in Nat /\ i - Len(box) \in DOMAIN msgs /\ b[i] = msgs[i - Len(box)]
  BY <1>1, <1>2, <1>3, SMTT(60)
<1>5. /\ RotationMsgs(box) \subseteq RotationMsgs(b)
      /\ \A i \in RotationMsgs(b) : i \in RotationMsgs(box) \/ (i \in Nat /\ i - Len(box) \in RotationMsgs(msgs))
  BY <1>4 DEF RotationMsgs
<1>6. ASSUME RotationMsgs(msgs) = {} PROVE RotationMsgs(b) = RotationMsgs(box)
  BY <1>5, <1>6
<1>7. ASSUME RotationMsgs(box) = {}, NEW i \in RotationMsgs(b), NEW j \in RotationMsgs(b) PROVE i = j
  <2>1. i \in Nat /\ j \in Nat /\ i - Len(box) \in RotationMsgs(msgs) /\ j - Len(box) \in RotationMsgs(msgs)
    BY <1>5, <1>7
  <2>2. i - Len(box) \in DOMAIN msgs /\ j - Len(box) \in DOMAIN msgs /\ Len(msgs) = 1
    BY <2>1 DEF RotationMsgs
  <2> QED
    BY <1>2, <2>1, <2>2, SMTT(60)
<1> QED
  BY <1>6, <1>7 DEF b

\* The depth of a rotation is a number of blocks.
LEMMA RotationDepthNat ==
  ASSUME NEW update, WellFormed(update), update_tx_type(update) = "OlStfVk"
  PROVE  RotationDepth \in Nat
BY DepthType DEF RotationDepth, WellFormed

\* A step of administration.
LEMMA RotationsAdmin ==
         /\ AdminInv
         /\ RotationInv
         /\ IsList(inbox["checkpoint"])
         /\ DOMAIN inbox = SubIds
         /\ AdminNext
         /\ UNCHANGED pending_transition
      => RotationInv'
\* What an update sends to the checkpoints (handle_update).
<1>RotationSent. ASSUME NEW update
                 PROVE  /\ IsList(CheckpointMsgs(update))
                        /\ RotationMsgs(CheckpointMsgs(update)) = {} \/ Len(CheckpointMsgs(update)) = 1
                        /\ update_tx_type(update) # "OlStfVk" => RotationMsgs(CheckpointMsgs(update)) = {}
  <2> DEFINE m == CheckpointMsgs(update)
  <2>1. \A x : /\ <<x>> \in Seq({x}) /\ Len(<<x>>) = 1 /\ DOMAIN <<x>> = {1} /\ <<x>>[1] = x
    BY SMTT(60)
  <2>2. <<>> \in Seq({}) /\ DOMAIN <<>> = {}
    BY SMTT(60)
  <2>3. CASE update_tx_type(update) = "OlStfVk"
    <3>1. m = << <<"UpdateCheckpointPredicate", update[2]>> >>
      BY <2>3  DEF CheckpointMsgs, relay_checkpoint_predicate_update
    <3> HIDE DEF m
    <3>2. IsList(m) /\ Len(m) = 1
      BY <2>1, <3>1, ListOfRange
    <3> QED
      BY <2>3, <3>2 DEF m
  <2>4. CASE update_tx_type(update) = "Sequencer"
    <3> DEFINE msg == <<"UpdateSequencerKey", update[2]>>
    <3>1. m = <<msg>>
      BY <2>4  DEF CheckpointMsgs, relay_checkpoint_sequencer_update
    <3>2. msg[1] # "UpdateCheckpointPredicate"
      OBVIOUS
    <3> HIDE DEF m, msg
    <3>3. IsList(m) /\ RotationMsgs(m) = {}
      BY <2>1, <3>1, <3>2, ListOfRange DEF RotationMsgs
    <3> QED
      BY <3>3 DEF m
  <2>5. CASE update_tx_type(update) # "OlStfVk" /\ update_tx_type(update) # "Sequencer"
    <3>1. m = <<>>
      BY <2>5 DEF CheckpointMsgs
    <3> HIDE DEF m
    <3>2. IsList(m) /\ RotationMsgs(m) = {}
      BY <2>2, <3>1, ListOfRange DEF RotationMsgs
    <3> QED
      BY <3>2 DEF m
  <2> QED
    BY <2>3, <2>4, <2>5
\* The queue is drained: what is due now was accepted in one earlier block.
<1>RotationsDrained. ASSUME AdminInv, RotationInv, DrainQueue, UNCHANGED pending_transition
                     PROVE  RotationInv'
  <2> USE <1>RotationsDrained
  <2> DEFINE T == {u \in Range(queued) : Matured(u)}
             U == {u \in Range(queued) : ~Matured(u)}
             box == inbox["checkpoint"]
             ups == block_updates
  <2>1. /\ enacting' = Keep(queued, T) /\ queued' = Keep(queued, U) /\ stage = "admin_pending"
        /\ stage' \in {"admin", "admin_enact"} /\ inbox' = inbox /\ UNCHANGED pow_state
    BY DEF DrainQueue, process_queued, still_queued, Running, chainVars
  <2>2. height' = height
    BY <2>1 DEF height
  <2>3. IsList(queued)
    BY DEF AdminInv, Waiting
  <2>4. Range(enacting') \subseteq T /\ Range(queued') \subseteq U
    <3>1. Range(Keep(queued, T)) = Range(queued) \cap T /\ Range(Keep(queued, U)) = Range(queued) \cap U
      <4> HIDE DEF T, U
      <4> QED
        BY <2>3, KeepList
    <3> QED
      BY <2>1, <3>1
  <2>5. \A u \in T : u.activation_height = height
    <3>1. \A i \in DOMAIN queued : queued[i].activation_height \in Int
      BY WaitingHeights DEF AdminInv
    <3>2. \A i \in DOMAIN queued : queued[i].activation_height >= height
      BY DEF AdminInv, Due
    <3>3. \A u \in T : u.activation_height \in Int /\ u.activation_height >= height /\ u.activation_height <= height
      BY <3>1, <3>2 DEF Range, Matured
    <3>4. height \in Int
      BY DEF AdminInv, Due
    <3> HIDE DEF T, height
    <3> QED
      BY <3>3, <3>4, SMTT(60)
  <2>6. T \subseteq Range(queued) /\ U \subseteq Range(queued)
    OBVIOUS
  <2> HIDE DEF T, U
  <2>7. BeforeDraining(stage) /\ ~AfterPass(stage)
    BY <2>1  DEF BeforeDraining, AfterPass
  <2>8. RotationsApart(queued, enacting, box, ups, height, stage) /\ RotationsPast(pending_transition, box, height, stage)
    BY DEF RotationInv
  <2> HIDE DEF height
  <2>9. RotationMsgs(box) = {}
    BY <2>7, <2>8 DEF RotationsApart
  <2>10. RotationsApart(queued', enacting', box, ups', height, stage')
    BY <2>4, <2>5, <2>6, <2>7, <2>8, <2>9 DEF RotationsApart
  <2>11. RotationsPast(pending_transition', box, height, stage')
    BY <2>7, <2>8 DEF RotationsPast
  <2> QED
    BY <2>1, <2>2, <2>10, <2>11 DEF RotationInv
\* An update is enacted, or applied at once: a rotation is the first in the block.
<1>RotationsRelay. ASSUME NEW update, RotationInv, IsList(inbox["checkpoint"]), DOMAIN inbox = SubIds,
                          inbox' = relay_msgs(relay_msgs(inbox, "checkpoint", CheckpointMsgs(update)), "bridge", BridgeMsgs(update)),
                          queued' = queued, block_updates \subseteq block_updates', Range(enacting') \subseteq Range(enacting),
                          height' = height, pending_transition' = pending_transition,
                          ~BeforeDraining(stage), ~BeforeDraining(stage'), ~AfterPass(stage), ~AfterPass(stage'),
                          update_tx_type(update) = "OlStfVk" =>
                             /\ RotationMsgs(inbox["checkpoint"]) = {}
                             /\ \A u \in Range(enacting') : ~IsRotation(u)
                             /\ RotationDepth = 0 => "OlStfVk" \in block_updates'
                   PROVE  RotationInv'
  <2> USE <1>RotationsRelay
  <2> DEFINE box == inbox["checkpoint"]
             msgs == CheckpointMsgs(update)
             b == box \o msgs
  <2>1. inbox'["checkpoint"] = b
    BY DEF relay_msgs, SubIds
  <2>2. IsList(msgs) /\ (RotationMsgs(msgs) = {} \/ Len(msgs) = 1)
    BY <1>RotationSent
  <2>3. update_tx_type(update) # "OlStfVk" => RotationMsgs(msgs) = {}
    BY <1>RotationSent
  <2>4. RotationMsgs(msgs) = {} => RotationMsgs(b) = RotationMsgs(box)
    BY <2>2, RotationsRelayed
  <2>5. RotationMsgs(box) = {} => \A i, j \in RotationMsgs(b) : i = j
    BY <2>2, RotationsRelayed
  <2> HIDE DEF b, msgs, height
  <2>6. RotationsApart(queued, enacting, box, block_updates, height, stage)
    BY DEF RotationInv
  <2>7. RotationsApart(queued, enacting', b, block_updates', height, stage')
    <3>1. CASE update_tx_type(update) = "OlStfVk"
      BY <2>5, <2>6, <3>1 DEF RotationsApart
    <3>2. CASE update_tx_type(update) # "OlStfVk"
      BY <2>3, <2>4, <2>6, <3>2 DEF RotationsApart
    <3> QED
      BY <3>1, <3>2
  <2>8. RotationsPast(pending_transition, b, height, stage')
    BY DEF RotationInv, RotationsPast
  <2> QED
    BY <2>1, <2>7, <2>8 DEF RotationInv
\* The first update in hand is enacted.
<1>RotationsEnacted. ASSUME AdminInv, RotationInv, IsList(inbox["checkpoint"]), DOMAIN inbox = SubIds,
                            EnactQueued, UNCHANGED pending_transition
                     PROVE  RotationInv'
  <2> USE <1>RotationsEnacted
  <2> DEFINE u == Head(enacting)
  <2>1. /\ inbox' = relay_msgs(relay_msgs(inbox, "checkpoint", CheckpointMsgs(u.action)), "bridge", BridgeMsgs(u.action))
        /\ queued' = queued /\ block_updates' = block_updates /\ enacting' = Tail(enacting)
        /\ UNCHANGED pow_state /\ stage = "admin_enact" /\ stage' \in {"admin", stage}
    BY DEF EnactQueued, handle_update, Running, chainVars
  <2>2. height' = height
    BY <2>1 DEF height
  <2>3. ~BeforeDraining(stage) /\ ~BeforeDraining(stage') /\ ~AfterPass(stage) /\ ~AfterPass(stage')
    BY <2>1  DEF BeforeDraining, AfterPass
  <2>4. IsList(enacting) /\ enacting # <<>>
    BY <2>1 DEF AdminInv, Waiting, Due
  <2>5. u \in Range(enacting) /\ Range(Tail(enacting)) \subseteq Range(enacting)
    BY <2>4, FirstOfList
  <2>6. \A v \in Range(Tail(enacting)) : v.id # u.id
    <3> DEFINE t == Tail(enacting)
    <3>1. /\ IsList(t) /\ Len(t) = Len(enacting) - 1 /\ \A i \in 1 .. Len(t) : t[i] = enacting[i + 1]
          /\ u = enacting[1] /\ 1 \in 1 .. Len(enacting)
      BY <2>4, ListTail
    <3>2. DOMAIN enacting = 1 .. Len(enacting) /\ Len(enacting) \in Nat
      BY <2>4, ListDomain
    <3>3. DOMAIN t = 1 .. Len(t)
      BY <3>1, ListDomain
    <3> HIDE DEF t
    <3>4. \A i \in DOMAIN t : i + 1 \in DOMAIN enacting /\ t[i] = enacting[i + 1] /\ i + 1 # 1
      BY <3>1, <3>2, <3>3, SMTT(60)
    <3>5. \A i, j \in DOMAIN enacting : enacting[i].id = enacting[j].id => i = j
      BY DEF AdminInv, Waiting
    <3>6. \A i \in DOMAIN t : t[i].id # u.id
      BY <3>1, <3>2, <3>4, <3>5
    <3> QED
      BY <3>6 DEF Range, t
  <2> HIDE DEF height
  <2>7. ASSUME update_tx_type(u.action) = "OlStfVk"
        PROVE  /\ RotationMsgs(inbox["checkpoint"]) = {}
               /\ \A v \in Range(enacting') : ~IsRotation(v)
               /\ RotationDepth = 0 => "OlStfVk" \in block_updates'
    <3>1. IsRotation(u)
      BY <2>7 DEF IsRotation
    <3> HIDE DEF u
    <3> QED
      BY <2>1, <2>5, <2>6, <3>1 DEF RotationInv, RotationsApart
  <2> HIDE DEF u
  <2> QED
    BY <2>1, <2>2, <2>3, <2>5, <2>7, <1>RotationsRelay
\* An update takes effect at once.
<1>RotationsApplied. ASSUME AdminInv, RotationInv, IsList(inbox["checkpoint"]), DOMAIN inbox = SubIds,
                            ApplyImmediately, UNCHANGED pending_transition
                     PROVE  RotationInv'
  <2> USE <1>RotationsApplied
  <2> DEFINE update == AdminPayload(NextTx("admin")).action
             type == update_tx_type(update)
  <2>1. /\ AuthorizedTx /\ admit(type) /\ confirmation_depth(type) = 0 /\ block_updates' = Admitted(type)
        /\ inbox' = relay_msgs(relay_msgs(inbox, "checkpoint", CheckpointMsgs(update)), "bridge", BridgeMsgs(update))
        /\ queued' = queued
    BY DEF ApplyImmediately, handle_update
  <2>2. height' = height /\ stage = "admin" /\ stage' = stage /\ enacting' = enacting
    BY <2>1, AuthorizedFacts
  <2>3. ~BeforeDraining(stage) /\ ~BeforeDraining(stage') /\ ~AfterPass(stage) /\ ~AfterPass(stage')
    BY <2>2  DEF BeforeDraining, AfterPass
  <2>4. block_updates \subseteq block_updates'
    BY <2>1 DEF Admitted
  <2> HIDE DEF height
  <2>5. ASSUME type = "OlStfVk"
        PROVE  /\ RotationMsgs(inbox["checkpoint"]) = {}
               /\ \A v \in Range(enacting') : ~IsRotation(v)
               /\ RotationDepth = 0 => "OlStfVk" \in block_updates'
    <3>1. RotationDepth = 0 /\ "OlStfVk" \notin block_updates /\ "OlStfVk" \in block_updates'
      BY <2>1, <2>5 DEF RotationDepth, admit, Admitted, Limited
    <3> QED
      BY <2>2, <3>1 DEF RotationInv, RotationsApart
  <2> HIDE DEF update
  <2> QED
    BY <2>1, <2>2, <2>3, <2>4, <2>5, <1>RotationsRelay
\* An update is queued.
<1>RotationsQueued. ASSUME AdminInv, RotationInv, EnqueueUpdate, UNCHANGED pending_transition
                    PROVE  RotationInv'
  <2> USE <1>RotationsQueued
  <2> DEFINE update == AdminPayload(NextTx("admin")).action
             type == update_tx_type(update)
             d == ActivationHeight(update)
             new == QueuedUpdate(next_update_id, update, d)
             box == inbox["checkpoint"]
  <2>1. /\ AuthorizedTx /\ admit(type) /\ confirmation_depth(type) # 0 /\ block_updates' = Admitted(type)
        /\ queued' = Append(queued, new) /\ inbox' = inbox
        /\ ~IsCancel(AdminPayload(NextTx("admin")))
    BY DEF EnqueueUpdate
  <2>2. height' = height /\ stage = "admin" /\ stage' = stage /\ enacting' = enacting
    BY <2>1, AuthorizedFacts
  <2>3. WellFormed(update)
    BY <2>1, AuthorizedFacts
  <2>4. ~BeforeDraining(stage)
    BY <2>2  DEF BeforeDraining
  <2>5. IsList(queued)
    BY DEF AdminInv, Waiting
  <2>6. Range(queued') \subseteq Range(queued) \cup {new}
    <3> DEFINE later == Append(queued, new)
    <3> HIDE DEF new
    <3>1. DOMAIN queued = 1 .. Len(queued) /\ Len(queued) \in Nat
      BY <2>5, ListDomain
    <3>2. /\ \A i \in 1 .. Len(queued) : later[i] = queued[i]
          /\ IsList(later) /\ Len(later) = Len(queued) + 1 /\ later[Len(queued) + 1] = new
      BY <2>5, ListAppend, SMTT(60)
    <3>3. DOMAIN later = 1 .. Len(later)
      BY <3>2, ListDomain
    <3> HIDE DEF later
    <3>4. \A i \in DOMAIN later : (i \in DOMAIN queued /\ later[i] = queued[i]) \/ later[i] = new
      BY <3>1, <3>2, <3>3, SMTT(60)
    <3>5. Range(later) \subseteq Range(queued) \cup {new}
      BY <3>4 DEF Range
    <3> QED
      BY <2>1, <3>5 DEF later
  <2>7. new.activation_height = d /\ new.action = update
    BY DEF QueuedUpdate
  <2>8. d = height + confirmation_depth(type)
    BY DEF ActivationHeight
  <2>9. block_updates \subseteq block_updates'
    BY <2>1 DEF Admitted
  <2>10. height \in Int
    BY DEF AdminInv, Due
  <2> HIDE DEF height, d, new, update
  <2>11. RotationsApart(queued, enacting, box, block_updates, height, stage)
    BY DEF RotationInv
  <2>12. RotationsApart(queued', enacting, box, block_updates', height, stage)
    <3>1. CASE type = "OlStfVk"
      <4>1. /\ RotationDepth = confirmation_depth(type) /\ "OlStfVk" \notin block_updates
            /\ "OlStfVk" \in block_updates'
        BY <2>1, <3>1 DEF RotationDepth, admit, Admitted, Limited
      <4>2. RotationDepth \in Nat
        BY <2>3, <3>1, RotationDepthNat
      <4>3. new.activation_height = height + RotationDepth /\ RotationDepth # 0
        BY <2>1, <2>7, <2>8, <4>1
      <4>4. new.activation_height <= height + RotationDepth
        BY <2>10, <4>2, <4>3, SMTT(60)
      <4>5. \A u \in Range(queued) : IsRotation(u) => u.activation_height # new.activation_height
        BY <2>11, <4>1, <4>3 DEF RotationsApart
      <4> QED
        BY <2>4, <2>6, <2>11, <4>1, <4>3, <4>4, <4>5 DEF RotationsApart
    <3>2. CASE type # "OlStfVk"
      <4>1. ~IsRotation(new)
        BY <2>7, <3>2 DEF IsRotation
      <4> QED
        BY <2>6, <2>9, <2>11, <4>1 DEF RotationsApart
    <3> QED
      BY <3>1, <3>2
  <2> QED
    BY <2>1, <2>2, <2>12 DEF RotationInv
\* A step that relays nothing, with no more in the queue than before.
<1>RotationsStay. ASSUME RotationInv, UNCHANGED <<pending_transition, inbox, enacting>>, height' = height,
                         Range(queued') \subseteq Range(queued), block_updates \subseteq block_updates',
                         ~BeforeDraining(stage'), ~AfterPass(stage)
                  PROVE  RotationInv'
  <2> USE <1>RotationsStay
  <2> HIDE DEF height
  <2>1. RotationsApart(queued', enacting, inbox["checkpoint"], block_updates', height, stage')
    BY DEF RotationInv, RotationsApart
  <2>2. RotationsPast(pending_transition, inbox["checkpoint"], height, stage')
    BY DEF RotationInv, RotationsPast
  <2> QED
    BY <2>1, <2>2 DEF RotationInv
<1>main. ASSUME AdminInv, RotationInv, IsList(inbox["checkpoint"]), DOMAIN inbox = SubIds,
                AdminNext, UNCHANGED pending_transition
         PROVE  RotationInv'
  <2> USE <1>main
  <2>1. CASE DrainQueue
    BY <2>1, <1>RotationsDrained
  <2>2. CASE EnactQueued
    BY <2>2, <1>RotationsEnacted
  <2>3. CASE ApplyImmediately
    BY <2>3, <1>RotationsApplied
  <2>4. CASE EnqueueUpdate
    BY <2>4, <1>RotationsQueued
  <2>5. CASE RejectUpdate \/ CancelUpdate
    <3>1. /\ AuthorizedTx /\ inbox' = inbox
      BY <2>5 DEF RejectUpdate, CancelUpdate
    <3>2. height' = height /\ stage = "admin" /\ stage' = stage /\ enacting' = enacting
      BY <3>1, AuthorizedFacts
    <3>3. ~BeforeDraining(stage') /\ ~AfterPass(stage)
      BY <3>2  DEF BeforeDraining, AfterPass
    <3>4. block_updates \subseteq block_updates'
      BY <2>5 DEF RejectUpdate, CancelUpdate, Admitted
    <3>5. Range(queued') \subseteq Range(queued)
      <4>1. CASE RejectUpdate
        BY <4>1 DEF RejectUpdate
      <4>2. CASE CancelUpdate
        <5> DEFINE T == {u \in Range(queued) : u.id # AdminPayload(NextTx("admin")).action[2]}
        <5>1. queued' = Keep(queued, T)
          BY <4>2 DEF CancelUpdate, remove_queued
        <5>2. IsList(queued)
          BY DEF AdminInv, Waiting
        <5> HIDE DEF T
        <5>3. Range(Keep(queued, T)) = Range(queued) \cap T
          BY <5>2, KeepList
        <5> QED
          BY <5>1, <5>3
      <4> QED
        BY <2>5, <4>1, <4>2
    <3> HIDE DEF height
    <3> QED
      BY <3>1, <3>2, <3>3, <3>4, <3>5, <1>RotationsStay
  <2>6. CASE IgnoreAdminTx \/ (TxsDone("admin", "checkpoint") /\ UNCHANGED adminVars)
    <3>1. /\ UNCHANGED <<inbox, pow_state>> /\ stage = "admin" /\ stage' \in {"admin", "checkpoint"}
          /\ UNCHANGED <<queued, enacting, block_updates>>
      BY <2>6 DEF IgnoreAdminTx, TxsDone, Running, chainVars, adminVars
    <3>2. height' = height
      BY <3>1 DEF height
    <3>3. ~BeforeDraining(stage') /\ ~AfterPass(stage)
      BY <3>1  DEF BeforeDraining, AfterPass
    <3> HIDE DEF height
    <3> QED
      BY <3>1, <3>2, <3>3, <1>RotationsStay
  <2> QED
    BY <2>1, <2>2, <2>3, <2>4, <2>5, <2>6 DEF AdminNext
<1> QED
  BY <1>main

\* The steps of the checkpoints and the bridge: what they do to the messages for the checkpoints
\* and to the pending rotations.
BoxMove(box, new, pending, later, st, next) ==
  /\ AfterPass(st) => AfterPass(next)
  /\ BeforeDraining(next) => BeforeDraining(st)
  /\ \/ new = box /\ (later = pending \/ (pending # <<>> /\ later = Tail(pending)))
     \/ later = pending /\ \E amt : new = box \o << <<"DepositProcessed", amt>> >>
     \/ later = pending /\ box # <<>> /\ new = Tail(box)
     \/ /\ box # <<>> /\ Head(box)[1] = "UpdateCheckpointPredicate" /\ new = Tail(box)
        /\ AfterPass(next)

\* Every step keeps at most one rotation a block.
LEMMA RotationKept ==
         /\ HeaderInv
         /\ AdminInv
         /\ RotationInv
         /\ IsList(inbox["checkpoint"])
         /\ DOMAIN inbox = SubIds
         /\ IsList(pending_transition)
         /\ [Next]_vars
         /\ (\A p \in Range(pending_transition) : p.boundary \in Int /\ p.boundary <= height)
      => RotationInv'
\* A new block.
<1>RotationsBlock. ASSUME AdminInv, RotationInv, HeaderInv, StartBlock, UNCHANGED <<adminVars, pending_transition>>,
                          \A p \in Range(pending_transition) : p.boundary \in Int /\ p.boundary <= height
                   PROVE  RotationInv'
  <2> USE <1>RotationsBlock
  <2>1. height' = height + 1
    BY BlockHeight
  <2>2. stage' = "preprocess" /\ inbox' = [s \in SubIds |-> <<>>]
    BY DEF StartBlock
  <2>3. BeforeDraining(stage')
    BY <2>2  DEF BeforeDraining
  <2>4. RotationMsgs(inbox'["checkpoint"]) = {}
    <3>1. inbox'["checkpoint"] = <<>>
      BY <2>2  DEF SubIds
    <3>2. DOMAIN <<>> = {}
      BY SMTT(60)
    <3> QED
      BY <3>1, <3>2 DEF RotationMsgs
  <2>5. height \in Int
    BY DEF AdminInv, Due
  <2>6. queued' = queued /\ enacting' = enacting /\ block_updates' = block_updates
    BY DEF adminVars
  <2> HIDE DEF height
  <2>7. ASSUME NEW u \in Range(queued), IsRotation(u)
        PROVE  /\ RotationDepth # 0 /\ u.activation_height <= height' + RotationDepth
               /\ u.activation_height # height' + RotationDepth
    <3>1. u.activation_height \in Int /\ WellFormed(u.action)
      <4>1. PICK i \in DOMAIN queued : u = queued[i]
        BY DEF Range
      <4>2. queued[i].activation_height \in Int
        BY WaitingHeights DEF AdminInv
      <4> QED
        BY <4>1, <4>2 DEF AdminInv, Waiting, Pending
    <3>2. RotationDepth \in Nat
      BY <2>7, <3>1, RotationDepthNat DEF IsRotation
    <3>3. RotationDepth # 0 /\ u.activation_height <= height + RotationDepth
      BY <2>7 DEF RotationInv, RotationsApart
    <3> QED
      BY <2>1, <2>5, <3>1, <3>2, <3>3, SMTT(60)
  <2>8. RotationsApart(queued', enacting', inbox'["checkpoint"], block_updates', height', stage')
    BY <2>4, <2>6, <2>7 DEF RotationInv, RotationsApart
  <2>9. \A p \in Range(pending_transition) : p.boundary < height'
    BY <2>1, <2>5, SMTT(60)
  <2> QED
    BY <2>8, <2>9 DEF RotationInv, RotationsPast
\* Such a step keeps the rotations apart.
<1>RotationsMoved. ASSUME RotationInv, IsList(inbox["checkpoint"]), IsList(pending_transition),
                          UNCHANGED adminVars, UNCHANGED pow_state,
                          BoxMove(inbox["checkpoint"], inbox'["checkpoint"], pending_transition, pending_transition', stage, stage')
                   PROVE  RotationInv'
  <2> USE <1>RotationsMoved
  <2> DEFINE box == inbox["checkpoint"]
             new == inbox'["checkpoint"]
  <2>1. UNCHANGED <<queued, enacting, block_updates>>
    BY DEF adminVars
  <2>2. height' = height
    BY DEF height
  <2> HIDE DEF height
  <2>3. /\ RotationsApart(queued, enacting, box, block_updates, height, stage)
        /\ RotationsPast(pending_transition, box, height, stage)
    BY DEF RotationInv
  <2>4. \A i, j \in RotationMsgs(box) : i = j
    BY <2>3 DEF RotationsApart
  <2> DEFINE Fewer == (\A i, j \in RotationMsgs(new) : i = j) /\ (RotationMsgs(new) # {} => RotationMsgs(box) # {})
  <2>5. ASSUME new = box PROVE Fewer
    BY <2>4, <2>5
  <2>6. ASSUME pending_transition' = pending_transition, NEW amt, new = box \o << <<"DepositProcessed", amt>> >>
        PROVE  Fewer
    <3> DEFINE msg == <<"DepositProcessed", amt>>
               msgs == <<msg>>
    <3>1. msg[1] # "UpdateCheckpointPredicate"
      OBVIOUS
    <3> HIDE DEF msg
    <3>2. msgs \in Seq({msg}) /\ DOMAIN msgs = {1} /\ msgs[1] = msg
      BY SMTT(60)
    <3>3. IsList(msgs) /\ RotationMsgs(msgs) = {}
      BY <3>1, <3>2, ListOfRange DEF RotationMsgs
    <3>4. new = box \o msgs
      BY <2>6 DEF msg
    <3> HIDE DEF msgs
    <3>5. RotationMsgs(box \o msgs) = RotationMsgs(box)
      BY <3>3, RotationsRelayed
    <3> QED
      BY <2>4, <3>4, <3>5
  <2>7. ASSUME box # <<>>, new = Tail(box)
        PROVE  Fewer /\ (Head(box)[1] = "UpdateCheckpointPredicate" => RotationMsgs(new) = {})
    BY <2>4, <2>7, RotationTaken
  <2> HIDE DEF box, new
  <2>8. Fewer
    BY <2>5, <2>6, <2>7 DEF BoxMove, box, new
  <2>9. \/ Range(pending_transition') \subseteq Range(pending_transition)
        \/ RotationMsgs(new) = {} /\ AfterPass(stage')
    <3>1. CASE pending_transition' = pending_transition
      BY <3>1
    <3>2. CASE pending_transition # <<>> /\ pending_transition' = Tail(pending_transition)
      BY <3>2, FirstOfList
    <3>3. CASE box # <<>> /\ Head(box)[1] = "UpdateCheckpointPredicate" /\ new = Tail(box) /\ AfterPass(stage')
      BY <2>7, <3>3
    <3> QED
      BY <3>1, <3>2, <3>3 DEF BoxMove, box, new
  <2>10. /\ AfterPass(stage) => AfterPass(stage')
         /\ BeforeDraining(stage') => BeforeDraining(stage)
    BY DEF BoxMove
  <2>11. RotationsApart(queued, enacting, new, block_updates, height, stage')
    BY <2>3, <2>8, <2>10 DEF RotationsApart
  <2>12. RotationsPast(pending_transition', new, height, stage')
    BY <2>3, <2>8, <2>9, <2>10 DEF RotationsPast
  <2> QED
    BY <2>1, <2>2, <2>11, <2>12 DEF RotationInv, new
<1>main. ASSUME HeaderInv, AdminInv, RotationInv, IsList(inbox["checkpoint"]), DOMAIN inbox = SubIds,
                IsList(pending_transition), [Next]_vars,
                \A p \in Range(pending_transition) : p.boundary \in Int /\ p.boundary <= height
         PROVE  RotationInv'
  <2> USE <1>main
  <2> DEFINE Moved == BoxMove(inbox["checkpoint"], inbox'["checkpoint"], pending_transition, pending_transition',
                              stage, stage')
  <2>1. ASSUME StartBlock, UNCHANGED <<adminVars, checkpointVars, bridgeVars>> PROVE RotationInv'
    <3>1. UNCHANGED <<adminVars, pending_transition>>
      BY <2>1 DEF checkpointVars
    <3> QED
      BY <2>1, <3>1, <1>RotationsBlock
  <2>2. ASSUME AdminStep PROVE RotationInv'
    <3>1. AdminNext /\ UNCHANGED pending_transition
      BY <2>2 DEF AdminStep, checkpointVars
    <3> QED
      BY <3>1, RotationsAdmin
  <2>3. ASSUME UNCHANGED <<inbox, pending_transition>>, stage' = stage PROVE Moved
    BY <2>3 DEF BoxMove
  <2>4. ASSUME UNCHANGED <<inbox, pending_transition>>,
               \/ stage = "preprocess" /\ stage' = "resolve"
               \/ stage = "resolve" /\ stage' = "admin_pending"
               \/ stage = "export" /\ stage' = "idle"
               \/ stage = "checkpoint" /\ stage' = "bridge"
               \/ stage = "bridge" /\ stage' = "bridge_expired"
               \/ stage = "bridge_expired" /\ stage' = "checkpoint_msgs"
               \/ stage = "checkpoint_msgs" /\ stage' = "bridge_msgs"
               \/ stage = "bridge_msgs" /\ stage' = "export"
        PROVE  Moved
    <3>1. /\ AfterPass(stage) => AfterPass(stage')
          /\ BeforeDraining(stage') => BeforeDraining(stage)
      BY <2>4  DEF AfterPass, BeforeDraining
    <3> QED
      BY <2>4, <3>1 DEF BoxMove
  <2>5. ASSUME UNCHANGED vars \/ EndOfChain PROVE Moved /\ UNCHANGED <<adminVars, pow_state>>
    <3>1. UNCHANGED <<inbox, pending_transition>> /\ stage' = stage /\ UNCHANGED <<adminVars, pow_state>>
      BY <2>5 DEF EndOfChain, vars, hostVars, chainVars, checkpointVars
    <3> QED
      BY <2>3, <3>1
  <2>6. ASSUME HostStep, ~StartBlock PROVE Moved /\ UNCHANGED <<adminVars, pow_state>>
    <3>1. UNCHANGED pending_transition /\ UNCHANGED adminVars
      BY <2>6 DEF HostStep, checkpointVars
    <3>2. CASE PreProcess(CollectedRequests)
      <4>1. UNCHANGED <<inbox, pow_state>> /\ stage = "preprocess" /\ stage' = "resolve"
        BY <3>2 DEF PreProcess, Running
      <4> QED
        BY <2>4, <3>1, <4>1
    <3>3. CASE Resolve
      <4>1. UNCHANGED <<inbox, pow_state>> /\ stage = "resolve" /\ (stage' = "admin_pending" \/ stage' = stage)
        BY <3>3 DEF Resolve, Running, chainVars
      <4> QED
        BY <2>3, <2>4, <3>1, <4>1
    <3>4. CASE ExportBlock
      <4>1. UNCHANGED <<inbox, pow_state>> /\ stage = "export" /\ (stage' = "idle" \/ stage' = stage)
        BY <3>4 DEF ExportBlock, Running, chainVars
      <4> QED
        BY <2>3, <2>4, <3>1, <4>1
    <3> QED
      BY <2>6, <3>2, <3>3, <3>4 DEF HostStep
  <2>7. "checkpoint" \in SubIds /\ "bridge" \in SubIds /\ "checkpoint" # "bridge"
    BY DEF SubIds
  <2>8. ASSUME CheckpointStep PROVE Moved /\ UNCHANGED <<adminVars, pow_state>>
    <3>1. UNCHANGED adminVars
      BY <2>8 DEF CheckpointStep
    <3>2. ASSUME TakeMsg("checkpoint")
          PROVE  inbox'["checkpoint"] = Tail(inbox["checkpoint"])
      BY <2>7, <3>2 DEF TakeMsg
    <3>3. CASE RejectCheckpoint
      <4>1. UNCHANGED <<inbox, pow_state, pending_transition>> /\ stage' = stage
        BY <3>3 DEF RejectCheckpoint, Panic, chainVars, checkpointVars
      <4> QED
        BY <2>3, <3>1, <4>1
    <3>4. CASE AcceptCheckpoint
      <4>1. /\ UNCHANGED pow_state /\ stage' = stage
            /\ \/ pending_transition' = pending_transition
               \/ pending_transition # <<>> /\ pending_transition' = Tail(pending_transition)
        BY <3>4 DEF AcceptCheckpoint, advance, promote_elapsed_transition, Elapsed, chainVars
      <4>2. inbox'["checkpoint"] = inbox["checkpoint"]
        BY <2>7, <3>4 DEF AcceptCheckpoint, relay_msgs
      <4> QED
        BY <3>1, <4>1, <4>2 DEF BoxMove
    <3>5. CASE TxsDone("checkpoint", "bridge") /\ UNCHANGED checkpointVars
      <4>1. UNCHANGED <<inbox, pow_state, pending_transition>> /\ stage = "checkpoint" /\ stage' = "bridge"
        BY <3>5 DEF TxsDone, Running, chainVars, checkpointVars
      <4> QED
        BY <2>4, <3>1, <4>1
    <3>6. CASE record_deposit \/ update_sequencer_key
      <4>1. /\ UNCHANGED pow_state /\ stage' = stage /\ pending_transition' = pending_transition
            /\ inbox["checkpoint"] # <<>> /\ (TakeMsg("checkpoint") \/ UNCHANGED inbox)
        BY <3>6 DEF record_deposit, update_sequencer_key, CheckpointMsgReady, HandledMsg, Panic,
           chainVars
      <4> QED
        BY <2>3, <3>1, <3>2, <4>1 DEF BoxMove
    <3>7. CASE queue_predicate_transition
      <4>1. /\ UNCHANGED pow_state /\ stage' = stage /\ stage = "checkpoint_msgs"
            /\ inbox["checkpoint"] # <<>> /\ Head(inbox["checkpoint"])[1] = "UpdateCheckpointPredicate"
            /\ TakeMsg("checkpoint") \/ UNCHANGED <<inbox, pending_transition>>
        BY <3>7 DEF queue_predicate_transition, CheckpointMsgReady, HandledMsg, Panic, chainVars,
           Running, NextMsg
      <4>2. AfterPass(stage')
        BY <4>1  DEF AfterPass
      <4> QED
        BY <2>3, <3>1, <3>2, <4>1, <4>2 DEF BoxMove
    <3>8. CASE MsgsDone("checkpoint", "checkpoint_msgs", "bridge_msgs") /\ UNCHANGED checkpointVars
      <4>1. UNCHANGED <<inbox, pow_state, pending_transition>> /\ stage = "checkpoint_msgs" /\ stage' = "bridge_msgs"
        BY <3>8 DEF MsgsDone, Running, chainVars, checkpointVars
      <4> QED
        BY <2>4, <3>1, <4>1
    <3> QED
      BY <2>8, <3>3, <3>4, <3>5, <3>6, <3>7, <3>8 DEF CheckpointStep, CheckpointNext
  <2>9. ASSUME BridgeStep PROVE Moved /\ UNCHANGED <<adminVars, pow_state>>
    <3>1. UNCHANGED adminVars /\ UNCHANGED pending_transition
      BY <2>9 DEF BridgeStep, checkpointVars
    <3>2. ASSUME TakeMsg("bridge")
          PROVE  inbox'["checkpoint"] = inbox["checkpoint"]
      BY <2>7, <3>2 DEF TakeMsg
    <3>3. CASE AddDeposit
      <4>1. UNCHANGED pow_state /\ stage' = stage
        BY <3>3 DEF AddDeposit, BridgeTxHandled, chainVars
      <4>2. \E amt : inbox'["checkpoint"] = inbox["checkpoint"] \o << <<"DepositProcessed", amt>> >>
        BY <2>7, <3>3 DEF AddDeposit, relay_msgs
      <4> QED
        BY <3>1, <4>1, <4>2 DEF BoxMove
    <3>4. CASE SkipBridgeTx \/ FulfillWithdrawal \/ RemoveOperator
      <4>1. UNCHANGED <<inbox, pow_state>> /\ stage' = stage
        BY <3>4 DEF SkipBridgeTx, FulfillWithdrawal, RemoveOperator, BridgeTxHandled, Panic,
           chainVars
      <4> QED
        BY <2>3, <3>1, <4>1
    <3>5. CASE TxsDone("bridge", "bridge_expired")
      <4>1. UNCHANGED <<inbox, pow_state>> /\ stage = "bridge" /\ stage' = "bridge_expired"
        BY <3>5 DEF TxsDone, Running, chainVars
      <4> QED
        BY <2>4, <3>1, <4>1
    <3>6. CASE reassign_expired_assignments
      <4>1. /\ UNCHANGED <<inbox, pow_state>> /\ stage = "bridge_expired"
            /\ (stage' = "checkpoint_msgs" \/ stage' = stage)
        BY <3>6 DEF reassign_expired_assignments, Running, Panic, chainVars
      <4> QED
        BY <2>3, <2>4, <3>1, <4>1
    <3>7. CASE \/ create_withdrawal_assignment \/ apply_operator_set_update
               \/ update_safe_harbor_address \/ activate_safe_harbor
      <4>1. UNCHANGED pow_state /\ stage' = stage /\ (TakeMsg("bridge") \/ UNCHANGED inbox)
        BY <3>7 DEF create_withdrawal_assignment, apply_operator_set_update,
           update_safe_harbor_address, activate_safe_harbor, BridgeMsgHandled, Panic, chainVars
      <4> QED
        BY <2>3, <3>1, <3>2, <4>1 DEF BoxMove
    <3>8. CASE MsgsDone("bridge", "bridge_msgs", "export")
      <4>1. UNCHANGED <<inbox, pow_state>> /\ stage = "bridge_msgs" /\ stage' = "export"
        BY <3>8 DEF MsgsDone, Running, chainVars
      <4> QED
        BY <2>4, <3>1, <4>1
    <3> QED
      BY <2>9, <3>3, <3>4, <3>5, <3>6, <3>7, <3>8 DEF BridgeStep, BridgeNext
  <2>10. ASSUME Moved, UNCHANGED <<adminVars, pow_state>> PROVE RotationInv'
    BY <2>10, <1>RotationsMoved
  <2>11. ASSUME HostStep, StartBlock PROVE UNCHANGED <<adminVars, checkpointVars, bridgeVars>>
    BY <2>11 DEF HostStep
  <2> QED
    BY <2>1, <2>2, <2>5, <2>6, <2>8, <2>9, <2>10, <2>11 DEF Next
<1> QED
  BY <1>main

\* No rotation waits at the start.
LEMMA RotationStarts ==
  ASSUME Init
  PROVE  RotationInv
<1>1. queued = <<>> /\ enacting = <<>> /\ pending_transition = <<>> /\ inbox["checkpoint"] = <<>>
  BY DEF Init, HostInit, AdminInit, CheckpointInit, SubIds
<1>2. DOMAIN <<>> = {}
  BY SMTT(60)
<1>3. Range(<<>>) = {} /\ RotationMsgs(<<>>) = {}
  BY <1>2 DEF Range, RotationMsgs
<1> QED
  BY <1>1, <1>3 DEF RotationInv, RotationsApart, RotationsPast

\* A rotation that reaches the checkpoints is later than every pending one.
LEMMA RotationOrdered ==
  ASSUME RotationInv, IsList(inbox["checkpoint"]), IsList(pending_transition),
         CheckpointMsgReady("UpdateCheckpointPredicate")
  PROVE  Ordered(height)
<1>1. inbox["checkpoint"] # <<>> /\ Head(inbox["checkpoint"])[1] = "UpdateCheckpointPredicate"
  BY DEF CheckpointMsgReady, NextMsg
<1>2. RotationMsgs(inbox["checkpoint"]) # {}
  BY <1>1, RotationTaken DEF RotationInv, RotationsApart
<1>3. \A p \in Range(pending_transition) : p.boundary < height
  BY <1>2 DEF RotationInv, RotationsPast
<1>4. pending_transition # <<>> => Last(pending_transition) \in Range(pending_transition)
  <2>1. DOMAIN pending_transition = 1 .. Len(pending_transition) /\ Len(pending_transition) \in Nat
    BY ListDomain
  <2>2. pending_transition # <<>> => Len(pending_transition) \in DOMAIN pending_transition
    BY <2>1, ListDomain, SMTT(60)
  <2> QED
    BY <2>2 DEF Range, Last
<1> QED
  BY <1>3, <1>4 DEF Ordered
=============================================================================
