------------------------------- MODULE ProofDb -------------------------------
(***************************************************************************)
(* The proof database: identities and order of proofs, the two proof       *)
(* tables, and the bookkeeping of jobs handed to the remote prover.        *)
(*                                                                         *)
(* A sled tree is a function on its keys.  Every write below is one tree   *)
(* operation and is durable on its own: a process that is killed leaves    *)
(* exactly the writes it has made.                                         *)
(***************************************************************************)
EXTENDS Integers, FiniteSets, Functions

CONSTANTS
  Block,          \* blocks of the tree (L1BlockCommitment)
  Genesis,        \* the block the recursive chain is rooted at
  Parent,         \* [Block -> Block]; meaningful above Genesis
  Height,         \* [Block -> Nat]
  BlkId,          \* [Block -> Nat]: the block id, read as a big-endian number
  NextPredicate,  \* [Block -> predicates]: next_predicate of the block's Moho state
  MohoPredicate,  \* the predicate of the recursive program
  None

\* The blocks are a tree rooted at Genesis, and a block id names one block.
ASSUME TreeAssumption ==
  /\ Genesis \in Block /\ None \notin Block
  /\ Parent \in [Block -> Block] /\ Height \in [Block -> Nat] /\ BlkId \in [Block -> Nat]
  /\ \A b \in Block \ {Genesis} : Height[b] > Height[Genesis] /\ Height[b] = Height[Parent[b]] + 1
  /\ \A b, c \in Block : BlkId[b] = BlkId[c] => b = c

VARIABLES
  proofs,           \* asm_proofs and moho_proofs: proof id -> receipt
  proof_to_remote,  \* proof id -> its latest remote job
  remote_to_proof,  \* every remote job a proof has had -> the proof
  remote_status     \* remote job -> "Requested" or "InProgress"

dbVars == <<proofs, proof_to_remote, remote_to_proof, remote_status>>

-----------------------------------------------------------------------------
(***************************************************************************)
(* Identities.  The worker creates single-block ranges only, so an ASM     *)
(* proof is named by its block.                                            *)
(***************************************************************************)
Asm(b) == <<"Asm", b>>

Moho(b) == <<"Moho", b>>

ProvableBlock == {b \in Block : Height[b] > Height[Genesis]}

ProofId == {"Asm", "Moho"} \X ProvableBlock

height(p) == Height[p[2]]

variant_rank(p) == IF p[1] = "Asm" THEN 0 ELSE 1

\* encode_block_commitment: big-endian height, then the block id, so that the
\* byte order of keys is the order by height and then by id.
KeyBefore(b, c) ==
  \/ Height[b] < Height[c]
  \/ Height[b] = Height[c] /\ BlkId[b] < BlkId[c]

\* Ord for ProofId: height, then ASM before Moho, then the full key.
Before(p, q) ==
  \/ height(p) < height(q)
  \/ height(p) = height(q) /\ variant_rank(p) < variant_rank(q)
  \/ height(p) = height(q) /\ variant_rank(p) = variant_rank(q) /\ KeyBefore(p[2], q[2])

\* tree.last(): the greatest key of a set of blocks, or None.
LastKey(bs) == IF bs = {} THEN None ELSE CHOOSE b \in bs : \A c \in bs \ {b} : KeyBefore(c, b)

-----------------------------------------------------------------------------
(***************************************************************************)
(* Proof tables.                                                           *)
(***************************************************************************)
proof_exists(p) == p \in DOMAIN proofs

\* get_asm_proof, get_moho_proof: the receipt stored under p, or None.
get_proof(p) == IF proof_exists(p) THEN proofs[p] ELSE None

\* get_latest_moho: the entry with the greatest key.
get_latest_moho == LastKey({b \in ProvableBlock : proof_exists(Moho(b))})

\* The table with the receipt stored under p, replacing an earlier one.
store_completed_proof(p, receipt) == [q \in DOMAIN proofs \cup {p} |->
                                        IF q = p THEN receipt ELSE proofs[q]]

\* delete_asm, delete_moho: the table without p.
delete_proof(p) == Restrict(proofs, DOMAIN proofs \ {p})

\* prune_before: both tables lose what lies below the height.
prune_before(h) == Restrict(proofs, {p \in DOMAIN proofs : height(p) >= h})

-----------------------------------------------------------------------------
(***************************************************************************)
(* Remote bookkeeping.                                                     *)
(***************************************************************************)
get_remote(p) == IF p \in DOMAIN proof_to_remote THEN proof_to_remote[p] ELSE None

get_local(r) == IF r \in DOMAIN remote_to_proof THEN remote_to_proof[r] ELSE None

\* A remote id belongs to one proof: DuplicateRemoteId otherwise.
can_put_remote(p, r) == get_local(r) \in {None, p}

\* put_remote_proof_id writes two trees, one after the other: the newest job of
\* the proof, and the proof of the job.
put_forward(p, r) == [q \in DOMAIN proof_to_remote \cup {p} |->
                        IF q = p THEN r ELSE proof_to_remote[q]]

put_reverse(p, r) == [s \in DOMAIN remote_to_proof \cup {r} |->
                        IF s = r THEN p ELSE remote_to_proof[s]]

\* clear_remote_submission: only the proof -> remote direction is forgotten.
clear_remote_submission(p) == Restrict(proof_to_remote, DOMAIN proof_to_remote \ {p})

\* put_status inserts, and refuses an id that is already tracked.
can_put_status(r) == r \notin DOMAIN remote_status

put_status(r, s) == [t \in DOMAIN remote_status \cup {r} |-> IF t = r THEN s ELSE remote_status[t]]

\* update_status: only an existing entry.
update_status(r, s) == [remote_status EXCEPT ![r] = s]

delete_status(r) == Restrict(remote_status, DOMAIN remote_status \ {r})

\* in_progress: the jobs recorded as Requested or InProgress.
in_progress == {r \in DOMAIN remote_status : remote_status[r] \in {"Requested", "InProgress"}}
==============================================================================
