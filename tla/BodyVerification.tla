-------------------------- MODULE BodyVerification --------------------------
(***************************************************************************)
(* Verification of L1 block bodies: the Merkle trees over transactions,    *)
(* the inclusion proof of the coinbase, and check_block_integrity.  Hashes *)
(* are symbolic: a hash is the term of what was hashed, so two hashes are  *)
(* equal exactly when their preimages are.                                 *)
(***************************************************************************)
EXTENDS Lists

(* A transaction is the record AsmHost describes; its id does not cover the witnesses. *)
compute_txid(tx) ==
    <<"txid", [tx EXCEPT !.ins = [i \in DOMAIN tx.ins |->
                                      [txid |-> tx.ins[i].txid, vout |-> tx.ins[i].vout]]]>>
compute_wtxid(tx) == <<"wtxid", tx>>
zero_hash == <<"zero">>
hash_pair(a, b) == <<"node", a, b>>

(***************************************************************************)
(* Merkle trees.  A level of odd length repeats its last node.             *)
(***************************************************************************)
merkle_tree_depth(count) ==
    IF count <= 1 THEN 0 ELSE CHOOSE d \in 1 .. count : 2 ^ d >= count /\ 2 ^ (d - 1) < count

Padded(level) == IF Len(level) % 2 = 1 THEN Append(level, Last(level)) ELSE level
NextLevel(level) ==
    [i \in 1 .. Len(Padded(level)) \div 2 |-> hash_pair(Padded(level)[2 * i - 1], Padded(level)[2 * i])]
LevelsUp(leaves, n) ==
    LET level[k \in 0 .. n] == IF k = 0 THEN leaves ELSE NextLevel(level[k - 1])
    IN  level[n]

(* calculate_root, of at least one leaf: the recursion stops at the first level of one node. *)
RootLevel(leaves) ==
    CHOOSE n \in 0 .. Len(leaves) :
        Len(LevelsUp(leaves, n)) = 1 /\ \A k \in 0 .. n - 1 : Len(LevelsUp(leaves, k)) # 1
calculate_root(leaves) == LevelsUp(leaves, RootLevel(leaves))[1]

\* Mutant: only neighbours in block order are compared.
NoNeighbourDups(leaves) == \A i \in 1 .. Len(leaves) - 1 : leaves[i] # leaves[i + 1]

(* The leaf scan of calculate_root_no_dups. *)
NoDups(leaves) == IsInjective(leaves)

txids(txs) == [i \in DOMAIN txs |-> compute_txid(txs[i])]
(* The coinbase cannot commit to its own witness id: its leaf is zero. *)
wtxids(txs) == [i \in DOMAIN txs |-> IF i = 1 THEN zero_hash ELSE compute_wtxid(txs[i])]

(***************************************************************************)
(* TxidInclusionProof.                                                     *)
(***************************************************************************)
TxidInclusionProof(position, siblings) == [position |-> position, siblings |-> siblings]

IsLeft(position) == position % 2 = 0
SiblingOf(position) == IF IsLeft(position) THEN position + 1 ELSE position - 1
Ancestor(position, n) == position \div 2 ^ n

(* generate, for a position inside the block. *)
generate(txs, position) ==
    TxidInclusionProof(position,
        [n \in 1 .. RootLevel(txids(txs)) |->
            Padded(LevelsUp(txids(txs), n - 1))[SiblingOf(Ancestor(position, n - 1)) + 1]])

compute_root(proof, tx) ==
    LET hash[n \in 0 .. Len(proof.siblings)] ==
          IF n = 0 THEN compute_txid(tx)
          ELSE IF IsLeft(Ancestor(proof.position, n - 1))
          THEN hash_pair(hash[n - 1], proof.siblings[n])
          ELSE hash_pair(proof.siblings[n], hash[n - 1])
    IN  hash[Len(proof.siblings)]

(* verify: the number of siblings is the depth of the tree, so no inner node passes as a leaf. *)
verify_inclusion(proof, tx, root, tx_count) ==
    /\ proof.position < tx_count
    /\ Len(proof.siblings) = merkle_tree_depth(tx_count)
    /\ compute_root(proof, tx) = root

(***************************************************************************)
(* check_block_integrity.                                                  *)
(***************************************************************************)
is_coinbase(tx) == Len(tx.ins) = 1 /\ tx.ins[1].txid = "null"
NoWitness == <<"items", <<>>>>
HasWitness(txs) == \E i \in DOMAIN txs : \E j \in DOMAIN txs[i].ins : txs[i].ins[j].witness # NoWitness

(* The last output that carries the witness magic. *)
CommitmentOutputs(coinbase) == {i \in DOMAIN coinbase.outs : coinbase.outs[i].script[1] = "witness"}
witness_commitment_from_coinbase(coinbase) ==
    coinbase.outs[CHOOSE i \in CommitmentOutputs(coinbase) :
                      \A j \in CommitmentOutputs(coinbase) : j <= i].script[2]
(* The commitment hashes the witness root with the 32 bytes the coinbase reveals. *)
witness_commitment(root, reserved) == <<"commitment", root, reserved>>

SegwitIntegrity(block) ==
    LET coinbase == Head(block.txs)
        witness == coinbase.ins[1].witness
    IN  /\ witness[1] = "items" /\ Len(witness[2]) = 1 /\ witness[2][1][1] = "bytes32"
        /\ NoDups(wtxids(block.txs))
        /\ witness_commitment_from_coinbase(coinbase)
               = witness_commitment(calculate_root(wtxids(block.txs)), witness[2][1])
        /\ verify_inclusion(block.coinbase_proof, coinbase, block.header.merkle_root, Len(block.txs))

LegacyIntegrity(block) ==
    /\ ~HasWitness(block.txs)
    /\ NoDups(txids(block.txs))
    /\ calculate_root(txids(block.txs)) = block.header.merkle_root

check_block_integrity(block) ==
    /\ block.txs # <<>>
    /\ is_coinbase(Head(block.txs))
    /\ IF CommitmentOutputs(Head(block.txs)) # {} THEN SegwitIntegrity(block) ELSE LegacyIntegrity(block)

(***************************************************************************)
(* Bodies.                                                                 *)
(***************************************************************************)
(* A decoded transaction, and a decoded body: a list of them. *)
IsTx(tx) ==
    /\ tx = [txid |-> tx.txid, sub |-> tx.sub, type |-> tx.type, aux |-> tx.aux,
             ins |-> tx.ins, outs |-> tx.outs]
    /\ IsList(tx.ins)
    /\ \A i \in DOMAIN tx.ins :
           tx.ins[i] = [txid |-> tx.ins[i].txid, vout |-> tx.ins[i].vout, witness |-> tx.ins[i].witness]
IsBody(txs) == IsList(txs) /\ \A i \in DOMAIN txs : IsTx(txs[i])

(* A body Bitcoin accepts: its first transaction is its only coinbase, none repeats, and the     *)
(* coinbase commits to the witnesses if there are any (BIP 141).                                 *)
IsMinedBody(txs) ==
    /\ IsBody(txs) /\ txs # <<>>
    /\ \A i \in DOMAIN txs : is_coinbase(txs[i]) <=> i = 1
    /\ NoDups(txids(txs))
    /\ IF CommitmentOutputs(Head(txs)) = {} THEN ~HasWitness(txs)
       ELSE witness_commitment_from_coinbase(Head(txs)) =
                witness_commitment(calculate_root(wtxids(txs)), Head(txs).ins[1].witness[2][1])

(* A block as it is handed over: a header mined for one body, any body, and any proof for the    *)
(* coinbase of that.                                                                             *)
IsOffered(block) ==
    /\ IsBody(block.txs) /\ IsList(block.coinbase_proof.siblings)
    /\ IsMinedBody(block.mined)
    /\ block.header.merkle_root = calculate_root(txids(block.mined))
=============================================================================
