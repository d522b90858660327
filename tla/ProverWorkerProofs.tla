-------------------------- MODULE ProverWorkerProofs --------------------------
(***************************************************************************)
(* For every block tree, configuration and number of faults: what the      *)
(* prover worker stores attests to its own block, what it submits composes *)
(* into a recursion from genesis, no more jobs are on record than a        *)
(* configuration allows, and a proof is submitted at most once more than   *)
(* something has gone wrong.                                               *)
(***************************************************************************)
EXTENDS ProverWorker, FiniteSetTheorems, NaturalsInduction, WellFoundedInduction, TLAPS

-----------------------------------------------------------------------------
(***************************************************************************)
(* The queue has a first entry.                                            *)
(***************************************************************************)
\* A non-empty set of numbers has a least one.
LEMMA LeastNumber ==
  ASSUME NEW T \in SUBSET Nat, T # {}
  PROVE  \E x \in T : \A y \in T : x <= y
<1>1. IsWellFoundedOn(OpToRel(<, Nat), Nat)
  BY NatLessThanWellFounded, Zenon
<1>2. PICK x \in T : \A y \in T : <<y, x>> \notin OpToRel(<, Nat)
  BY <1>1, WFMin, Zenon
<1>3. ASSUME NEW y \in T PROVE x <= y
  <2>1. <<y, x>> \notin OpToRel(<, Nat)
    BY <1>2, Zenon
  <2>2. x \in Nat /\ y \in Nat
    OBVIOUS
  <2> QED
    BY <2>1, <2>2 DEF OpToRel
<1> QED
  BY <1>3, Zenon

\* A non-empty set has an element on which a function to numbers is least.
LEMMA LeastBy ==
  ASSUME NEW S, S # {}, NEW f \in [S -> Nat]
  PROVE  \E x \in S : \A y \in S : f[x] <= f[y]
<1> DEFINE T == {f[x] : x \in S}
<1>1. T \in SUBSET Nat /\ T # {}
  OBVIOUS
<1>2. PICK t \in T : \A u \in T : t <= u
  <2> HIDE DEF T
  <2> QED
    BY <1>1, LeastNumber, Zenon
<1>3. PICK x \in S : t = f[x]
  OBVIOUS
<1>4. \A y \in S : f[y] \in T
  OBVIOUS
<1> QED
  BY <1>2, <1>3, <1>4, Zenon

\* A non-empty set has an element on which a bounded function is greatest.
LEMMA GreatestBy ==
  ASSUME NEW S, S # {}, NEW f \in [S -> Nat], NEW n \in Nat, \A x \in S : f[x] <= n
  PROVE  \E x \in S : \A y \in S : f[y] <= f[x]
<1> DEFINE g == [x \in S |-> n - f[x]]
<1>1. g \in [S -> Nat]
  OBVIOUS
<1>2. PICK x \in S : \A y \in S : g[x] <= g[y]
  <2> HIDE DEF g
  <2> QED
    BY <1>1, LeastBy, Zenon
<1>3. ASSUME NEW y \in S PROVE f[y] <= f[x]
  <2>1. n - f[x] <= n - f[y]
    BY <1>2
  <2>2. f[x] \in Nat /\ f[y] \in Nat
    OBVIOUS
  <2> QED
    BY <2>1, <2>2
<1> QED
  BY <1>3, Zenon

\* dequeue_one takes an entry of the queue: the order of proofs is total.
LEMMA DequeuedFromQueue ==
  ASSUME queue \subseteq ProofId, queue # {}
  PROVE  Next_in_queue \in queue
<1>0. /\ \A p \in ProofId : p[2] \in Block /\ p[1] \in {"Asm", "Moho"} /\ p = <<p[1], p[2]>>
      /\ \A p \in ProofId : height(p) \in Nat /\ variant_rank(p) \in Nat /\ BlkId[p[2]] \in Nat
  BY TreeAssumption DEF ProofId, ProvableBlock, height, variant_rank
<1>1. PICK p1 \in queue : \A q \in queue : height(p1) <= height(q)
  <2> DEFINE f == [p \in queue |-> height(p)]
  <2>1. f \in [queue -> Nat]
    BY <1>0
  <2>2. PICK x \in queue : \A y \in queue : f[x] <= f[y]
    <3> HIDE DEF f
    <3> QED
      BY <2>1, LeastBy, Zenon
  <2> QED
    BY <2>2
<1> DEFINE Q1 == {q \in queue : height(q) = height(p1)}
<1>2. PICK p2 \in Q1 : \A q \in Q1 : variant_rank(p2) <= variant_rank(q)
  <2> DEFINE f == [p \in Q1 |-> variant_rank(p)]
  <2>1. f \in [Q1 -> Nat] /\ Q1 # {}
    BY <1>0, <1>1
  <2>2. PICK x \in Q1 : \A y \in Q1 : f[x] <= f[y]
    <3> HIDE DEF f, Q1
    <3> QED
      BY <2>1, LeastBy, Zenon
  <2> QED
    BY <2>2
<1> DEFINE Q2 == {q \in Q1 : variant_rank(q) = variant_rank(p2)}
<1>3. PICK p3 \in Q2 : \A q \in Q2 : BlkId[p3[2]] <= BlkId[q[2]]
  <2> DEFINE f == [p \in Q2 |-> BlkId[p[2]]]
  <2>1. f \in [Q2 -> Nat] /\ Q2 # {}
    BY <1>0, <1>2
  <2>2. PICK x \in Q2 : \A y \in Q2 : f[x] <= f[y]
    <3> HIDE DEF f, Q2
    <3> QED
      BY <2>1, LeastBy, Zenon
  <2> QED
    BY <2>2
<1>4. ASSUME NEW q \in queue \ {p3} PROVE Before(p3, q)
  <2>1. height(p3) = height(p1) /\ height(p1) <= height(q)
    BY <1>1, <1>3
  <2>2. CASE height(q) = height(p1) /\ variant_rank(q) = variant_rank(p2)
    <3>1. BlkId[p3[2]] <= BlkId[q[2]] /\ variant_rank(p3) = variant_rank(q)
      BY <1>3, <2>2
    <3>2. p3[1] = q[1]
      BY <1>0, <3>1 DEF variant_rank
    <3>3. p3[2] # q[2]
      BY <1>0, <3>2, p3 \in ProofId, q \in ProofId, Zenon
    <3>4. BlkId[p3[2]] # BlkId[q[2]]
      BY <1>0, <3>3, TreeAssumption, p3 \in ProofId, q \in ProofId, Zenon
    <3>5. BlkId[p3[2]] < BlkId[q[2]]
      BY <1>0, <3>1, <3>4
    <3> QED
      BY <2>1, <2>2, <3>1, <3>5 DEF Before, KeyBefore, height
  <2>3. CASE height(q) = height(p1) /\ variant_rank(q) # variant_rank(p2)
    <3>1. variant_rank(p3) <= variant_rank(q) /\ variant_rank(p3) # variant_rank(q)
      BY <1>2, <1>3, <2>3
    <3> QED
      BY <1>0, <2>1, <2>3, <3>1 DEF Before
  <2>4. CASE height(q) # height(p1)
    BY <1>0, <2>1, <2>4 DEF Before
  <2> QED
    BY <2>2, <2>3, <2>4, Zenon
<1> QED
  BY <1>3, <1>4 DEF Next_in_queue

-----------------------------------------------------------------------------
(***************************************************************************)
(* A table that has been written finitely often has a last key.            *)
(***************************************************************************)
KeysBounded(S) == \E n \in Nat : \A b \in S : Height[b] <= n /\ BlkId[b] <= n

\* One more key keeps a set of keys bounded.
LEMMA KeysBoundedAdd ==
  ASSUME NEW S, KeysBounded(S), S \subseteq Block, NEW c \in Block
  PROVE  KeysBounded(S \cup {c})
<1>1. PICK n \in Nat : \A b \in S : Height[b] <= n /\ BlkId[b] <= n
  BY Zenon DEF KeysBounded
<1>2. \A b \in Block : Height[b] \in Nat /\ BlkId[b] \in Nat
  BY TreeAssumption
<1> DEFINE m == n + Height[c] + BlkId[c]
<1>3. m \in Nat
  BY <1>2
<1>4. ASSUME NEW b \in S \cup {c} PROVE Height[b] <= m /\ BlkId[b] <= m
  <2>1. b \in Block /\ Height[b] \in Nat /\ BlkId[b] \in Nat /\ Height[c] \in Nat /\ BlkId[c] \in Nat
    BY <1>2
  <2>2. CASE b \in S
    <3>1. Height[b] <= n /\ BlkId[b] <= n
      BY <1>1, <2>2, Zenon
    <3> QED
      BY <2>1, <3>1
  <2>3. CASE b = c
    BY <2>1, <2>3
  <2> QED
    BY <2>2, <2>3, Zenon
<1> HIDE DEF m
<1> QED
  BY <1>3, <1>4, Zenon DEF KeysBounded

\* tree.last() is an entry, and no other key lies above it.
LEMMA LastKeyIsLast ==
  ASSUME NEW S, S \subseteq Block, S # {}, KeysBounded(S)
  PROVE  /\ LastKey(S) \in S
         /\ \A c \in S : Height[c] <= Height[LastKey(S)]
<1>1. PICK n \in Nat : \A b \in S : Height[b] <= n /\ BlkId[b] <= n
  BY Zenon DEF KeysBounded
<1>2. \A b \in Block : Height[b] \in Nat /\ BlkId[b] \in Nat
  BY TreeAssumption
<1>3. PICK b1 \in S : \A c \in S : Height[c] <= Height[b1]
  <2> DEFINE f == [b \in S |-> Height[b]]
  <2>1. f \in [S -> Nat]
    BY <1>2
  <2>2. \A x \in S : f[x] <= n
    BY <1>1
  <2>3. PICK x \in S : \A y \in S : f[y] <= f[x]
    <3> HIDE DEF f
    <3> QED
      BY <2>1, <2>2, GreatestBy, Zenon
  <2> QED
    BY <2>3
<1> DEFINE T == {b \in S : Height[b] = Height[b1]}
<1>4. PICK b2 \in T : \A c \in T : BlkId[c] <= BlkId[b2]
  <2> DEFINE f == [b \in T |-> BlkId[b]]
  <2>1. f \in [T -> Nat] /\ T # {}
    BY <1>2
  <2>2. \A x \in T : f[x] <= n
    BY <1>1
  <2>3. PICK x \in T : \A y \in T : f[y] <= f[x]
    <3> HIDE DEF f, T
    <3> QED
      BY <2>1, <2>2, GreatestBy, Zenon
  <2> QED
    BY <2>3
<1>5. ASSUME NEW c \in S \ {b2} PROVE KeyBefore(c, b2)
  <2>1. /\ Height[c] \in Nat /\ Height[b2] = Height[b1] /\ Height[b1] \in Nat
        /\ BlkId[c] \in Nat /\ BlkId[b2] \in Nat
    BY <1>2
  <2>2. Height[c] <= Height[b1]
    BY <1>3, Zenon
  <2>3. Height[c] = Height[b1] => BlkId[c] <= BlkId[b2]
    BY <1>4, Zenon
  <2>4. BlkId[c] # BlkId[b2]
    BY TreeAssumption, Zenon
  <2> QED
    BY <2>1, <2>2, <2>3, <2>4 DEF KeyBefore
<1>6. LastKey(S) \in S /\ \A c \in S \ {LastKey(S)} : KeyBefore(c, LastKey(S))
  <2> DEFINE P(b) == \A c \in S \ {b} : KeyBefore(c, b)
  <2>1. b2 \in S /\ P(b2)
    BY <1>5, Zenon
  <2>2. (CHOOSE b \in S : P(b)) \in S /\ P(CHOOSE b \in S : P(b))
    <3> HIDE DEF P
    <3> QED
      BY <2>1, Zenon
  <2> QED
    BY <2>2, Zenon DEF LastKey
<1>7. ASSUME NEW c \in S PROVE Height[c] <= Height[LastKey(S)]
  <2>1. Height[c] \in Nat /\ Height[LastKey(S)] \in Nat
    BY <1>2, <1>6, Zenon
  <2>2. CASE c = LastKey(S)
    BY <2>1, <2>2
  <2>3. CASE c # LastKey(S)
    <3>1. KeyBefore(c, LastKey(S))
      BY <1>6, <2>3, Zenon
    <3> QED
      BY <2>1, <3>1 DEF KeyBefore
  <2> QED
    BY <2>2, <2>3, Zenon
<1> QED
  BY <1>6, <1>7, Zenon

-----------------------------------------------------------------------------
(***************************************************************************)
(* Commits and the queue.                                                  *)
(***************************************************************************)
ChainInv ==
  /\ committed \subseteq Block /\ Genesis \in committed /\ KeysBounded(committed)
  /\ inbox \in Seq(ProvableBlock)

QueueInv == queue \subseteq ProofId /\ parked \subseteq ProofId

\* Blocks are committed, announced and taken; nothing else touches either.
LEMMA ChainStep ==
  ASSUME ChainInv, [Next]_vars
  PROVE  ChainInv'
<1>1. ASSUME committed' = committed, inbox' \in {inbox, <<>>}
      PROVE  ChainInv'
  <2>1. <<>> \in Seq(ProvableBlock)
    OBVIOUS
  <2>2. inbox' \in Seq(ProvableBlock)
    BY <1>1, <2>1, Zenon DEF ChainInv
  <2> QED
    BY <1>1, <2>2, Zenon DEF ChainInv, KeysBounded
<1>2. ASSUME NEW b \in ProvableBlock, CommitBlock(b)
      PROVE  ChainInv'
  <2>1. b \in Block
    BY DEF ProvableBlock
  <2>2. KeysBounded(committed \cup {b})
    BY <2>1, KeysBoundedAdd, Zenon DEF ChainInv
  <2>3. committed' = committed \cup {b} /\ inbox' \in {inbox, Append(inbox, b)}
    BY <1>2 DEF CommitBlock
  <2>4. inbox' \in Seq(ProvableBlock)
    BY <2>3 DEF ChainInv
  <2> QED
    BY <2>1, <2>2, <2>3, <2>4 DEF ChainInv, KeysBounded
<1>3. CASE Deliver
  BY <1>3 DEF Deliver, ChainInv, KeysBounded
<1>4. CASE \E c \in Configs : Launch(c)
  BY <1>1, <1>4, Zenon DEF Launch, chainVars
<1>5. CASE Kill
  BY <1>1, <1>5, Zenon DEF Kill, Halt
<1>6. CASE \E r \in DOMAIN jobs : JobRuns(r) \/ JobFails(r)
  BY <1>1, <1>6, Zenon DEF JobRuns, JobFails, chainVars
<1>7. CASE Maintain
  BY <1>1, <1>7, Zenon DEF Maintain, chainVars
<1>8. CASE TickStep
  <2>1. ASSUME NEW r \in work, reconcile_one(r)
        PROVE  ChainInv'
    <3>1. CASE PollJob(r)
      BY <1>1, <3>1, Zenon DEF PollJob, PassOver, chainVars
    <3>2. CASE discard_submission(r)
      BY <1>1, <3>2, Zenon DEF discard_submission, chainVars
    <3>3. CASE handle_completed(r)
      BY <1>1, <3>3, Zenon DEF handle_completed, discard_submission, Terminal, Halt, chainVars
    <3> QED
      BY <2>1, <3>1, <3>2, <3>3, Zenon DEF reconcile_one
  <2>2. CASE Tick \/ RemoveStatus \/ GenerateTick \/ MapRemote \/ RecordStatus \/ ScheduleDone
    BY <1>1, <2>2, Zenon DEF Tick, RemoveStatus, GenerateTick, schedule_proofs, MapRemote,
       RecordStatus, ScheduleDone, chainVars
  <2>3. CASE SkipProof \/ DeferProof \/ SubmitFails \/ UnknownArtifact \/ SubmitProof
    BY <1>1, <2>3, Zenon DEF SkipProof, DeferProof, SubmitFails, UnknownArtifact, SubmitProof,
       Dequeued, Terminal, Halt, chainVars
  <2>4. CASE FollowTick
    BY <1>1, <2>4, Zenon DEF FollowTick, schedule_proofs, chainVars
  <2>5. CASE FetchSkips \/ FetchReceipt \/ FetchDone
    BY <1>1, <2>5, Zenon DEF FetchSkips, FetchReceipt, FetchDone, EndFetch, Dequeued, chainVars
  <2> QED
    BY <1>8, <2>1, <2>2, <2>3, <2>4, <2>5, Zenon DEF TickStep
<1>9. CASE UNCHANGED vars
  BY <1>1, <1>9, Zenon DEF vars, chainVars
<1> QED
  BY <1>2, <1>3, <1>4, <1>5, <1>6, <1>7, <1>8, <1>9, Zenon DEF Next

\* Of a block above genesis both proofs are identified, and so are those of its
\* parent unless that is genesis.
LEMMA Provable ==
  /\ \A p \in ProofId : p[2] \in ProvableBlock /\ p[1] \in {"Asm", "Moho"} /\ p = <<p[1], p[2]>>
  /\ \A b \in ProvableBlock :
       /\ b \in Block /\ b # Genesis /\ Parent[b] \in Block
       /\ Asm(b) \in ProofId /\ Moho(b) \in ProofId
       /\ Parent[b] # Genesis => Parent[b] \in ProvableBlock
  /\ Moho(Genesis) \notin ProofId
<1>1. \A p \in ProofId : p[2] \in ProvableBlock /\ p[1] \in {"Asm", "Moho"} /\ p = <<p[1], p[2]>>
  BY DEF ProofId
<1>2. \A b \in ProvableBlock : Asm(b) \in ProofId /\ Moho(b) \in ProofId
  BY DEF ProofId, Asm, Moho
<1>3. \A b \in ProvableBlock : b \in Block /\ b # Genesis /\ Parent[b] \in Block
  BY TreeAssumption DEF ProvableBlock
<1>4. \A b \in ProvableBlock : Parent[b] # Genesis => Parent[b] \in ProvableBlock
  BY <1>3, TreeAssumption, Zenon DEF ProvableBlock
<1>5. Moho(Genesis) \notin ProofId
  BY <1>1, <1>3 DEF Moho
<1> QED
  BY <1>1, <1>2, <1>3, <1>4, <1>5, Zenon

\* Only proofs of blocks above genesis are ever queued.
LEMMA QueueStep ==
  ASSUME ChainInv, QueueInv, [Next]_vars
  PROVE  QueueInv'
<1> DEFINE p == Next_in_queue
<1>0. queue # {} => p \in queue /\ p \in ProofId
  BY DequeuedFromQueue, Zenon DEF QueueInv
<1> HIDE DEF p
<1>1. ASSUME queue' \in {queue, {}, queue \cup parked, queue \ {p}},
             parked' \in {parked, {}} \/ (queue # {} /\ parked' = parked \cup {p})
      PROVE  QueueInv'
  BY <1>0, <1>1 DEF QueueInv
<1>2. ASSUME NEW c \in Configs, Launch(c)
      PROVE  QueueInv'
  <2> DEFINE seed == LastKey(committed)
  <2>1. seed \in Block
    <3>1. committed # {} /\ committed \subseteq Block /\ KeysBounded(committed)
      BY Zenon DEF ChainInv
    <3> QED
      BY <3>1, LastKeyIsLast, Zenon
  <2>2. queue' = {} \/ (Height[seed] > Height[Genesis] /\ queue' = {Moho(seed)})
    BY <1>2, Zenon DEF Launch, StateNew
  <2>3. Height[seed] > Height[Genesis] => Moho(seed) \in ProofId
    BY <2>1, Provable, Zenon DEF ProvableBlock
  <2>4. parked' = parked
    BY <1>2, Zenon DEF Launch, loopVars
  <2> HIDE DEF seed
  <2> QED
    BY <2>2, <2>3, <2>4, Zenon DEF QueueInv
<1>3. CASE Deliver
  <2>1. Head(inbox) \in ProvableBlock
    BY <1>3 DEF Deliver, ChainInv
  <2>2. Asm(Head(inbox)) \in ProofId /\ Moho(Head(inbox)) \in ProofId
    BY <2>1, Provable, Zenon
  <2>3. queue' = queue \cup {Asm(Head(inbox)), Moho(Head(inbox))} /\ parked' = parked
    BY <1>3, Zenon DEF Deliver, loopVars
  <2> QED
    BY <2>2, <2>3, Zenon DEF QueueInv
<1>4. CASE Kill
  BY <1>1, <1>4, Zenon DEF Kill, Halt
<1>5. CASE \E b \in ProvableBlock : CommitBlock(b)
  BY <1>1, <1>5, Zenon DEF CommitBlock, loopVars
<1>6. CASE \E r \in DOMAIN jobs : JobRuns(r) \/ JobFails(r)
  BY <1>1, <1>6, Zenon DEF JobRuns, JobFails, loopVars
<1>7. CASE Maintain
  BY <1>1, <1>7, Zenon DEF Maintain, loopVars
<1>8. CASE TickStep
  <2>1. ASSUME NEW r \in work, reconcile_one(r)
        PROVE  QueueInv'
    <3>1. CASE PollJob(r)
      BY <1>1, <3>1, Zenon DEF PollJob, PassOver
    <3>2. CASE discard_submission(r)
      BY <1>1, <3>2, Zenon DEF discard_submission
    <3>3. CASE handle_completed(r)
      BY <1>1, <3>3, Zenon DEF handle_completed, discard_submission, Terminal, Halt
    <3> QED
      BY <2>1, <3>1, <3>2, <3>3, Zenon DEF reconcile_one
  <2>2. CASE Tick \/ RemoveStatus \/ GenerateTick \/ MapRemote \/ RecordStatus \/ ScheduleDone
    BY <1>1, <2>2, Zenon DEF Tick, RemoveStatus, GenerateTick, schedule_proofs, MapRemote,
       RecordStatus, ScheduleDone, loopVars
  <2>3. CASE SkipProof \/ SubmitFails \/ UnknownArtifact \/ SubmitProof
    BY <1>1, <2>3, Zenon DEF SkipProof, SubmitFails, UnknownArtifact, SubmitProof, Scheduling,
       Dequeued, Terminal, Halt, p
  <2>4. CASE DeferProof
    <3>1. p \in ProofId
      BY <1>0, <2>4, Zenon DEF DeferProof, Scheduling
    <3>2. missing_prerequisites(p[2]) \subseteq ProofId
      BY <3>1, Provable, Zenon DEF missing_prerequisites
    <3>3. /\ queue' = (queue \ {p}) \cup (missing_prerequisites(p[2]) \ parked)
          /\ parked' = parked \cup {p}
      BY <2>4, Zenon DEF DeferProof, Dequeued, p
    <3> QED
      BY <3>1, <3>2, <3>3, Zenon DEF QueueInv
  <2>5. CASE FollowTick
    BY <1>1, <2>5, Zenon DEF FollowTick, schedule_proofs, loopVars
  <2>6. CASE FetchSkips \/ FetchReceipt \/ FetchDone
    BY <1>1, <2>6, Zenon DEF FetchSkips, FetchReceipt, FetchDone, Fetching, EndFetch, Dequeued, p
  <2> QED
    BY <1>8, <2>1, <2>2, <2>3, <2>4, <2>5, <2>6, Zenon DEF TickStep
<1>9. CASE UNCHANGED vars
  BY <1>1, <1>9, Zenon DEF vars, loopVars
<1> QED
  BY <1>2, <1>3, <1>4, <1>5, <1>6, <1>7, <1>8, <1>9, Zenon DEF Next

-----------------------------------------------------------------------------
(***************************************************************************)
(* The proof tables.                                                       *)
(***************************************************************************)
StoredBlocks == {p[2] : p \in DOMAIN proofs}

StoreInv ==
  /\ DOMAIN proofs \subseteq ProofId /\ \A p \in DOMAIN proofs : proofs[p] \in Receipt
  /\ KeysBounded(StoredBlocks)
  /\ StoredProofsAttest

\* What a pass looks at is on record, what is on record was submitted, and a job
\* is on record for the proof it was submitted for.
RecordsInv ==
  /\ \A r \in DOMAIN jobs : r[1] \in ProofId
  /\ DOMAIN remote_to_proof \subseteq DOMAIN jobs
  /\ \A r \in DOMAIN remote_to_proof : remote_to_proof[r] = r[1]
  /\ DOMAIN remote_status \subseteq DOMAIN remote_to_proof
  /\ work \subseteq DOMAIN remote_status
  /\ pc = "down" => work = {}
  /\ pc = "mapping" => cur[1] = cur[2][1] /\ cur[2] \in DOMAIN jobs
  /\ pc = "recording" => cur[2] \in DOMAIN remote_to_proof

\* The local proof of a job that a pass looks at.
LEMMA LocalProof ==
  ASSUME RecordsInv, NEW r \in work
  PROVE  get_local(r) = r[1] /\ get_local(r) \in ProofId /\ r \in DOMAIN remote_status
BY Zenon DEF RecordsInv, get_local

Stores(p, receipt) ==
  verify(receipt, expected_attestation(p)) /\ proofs' = store_completed_proof(p, receipt)

\* The tables change in three ways: a verified receipt is stored under its proof,
\* maintenance takes entries away, and nothing else happens to them.
LEMMA StoreEffect ==
  ASSUME QueueInv, RecordsInv, [Next]_vars
  PROVE  \/ proofs' = proofs
         \/ \E p \in ProofId, receipt \in Receipt : Stores(p, receipt)
         \/ \E S \in SUBSET DOMAIN proofs : proofs' = Restrict(proofs, S)
<1> DEFINE Effect ==
      \/ proofs' = proofs
      \/ \E p \in ProofId, receipt \in Receipt : Stores(p, receipt)
      \/ \E S \in SUBSET DOMAIN proofs : proofs' = Restrict(proofs, S)
<1>1. ASSUME proofs' = proofs PROVE Effect
  BY <1>1, Zenon
<1>2. CASE (\E c \in Configs : Launch(c)) \/ Kill \/ Deliver
  BY <1>1, <1>2, Zenon DEF Launch, Kill, Deliver, dbVars
<1>3. CASE \E b \in ProvableBlock : CommitBlock(b)
  BY <1>1, <1>3, Zenon DEF CommitBlock, dbVars
<1>4. CASE \E r \in DOMAIN jobs : JobRuns(r) \/ JobFails(r)
  BY <1>1, <1>4, Zenon DEF JobRuns, JobFails, dbVars
<1>5. CASE Maintain
  <2>1. CASE \E q \in DOMAIN proofs : proofs' = delete_proof(q)
    <3>1. \A q \in DOMAIN proofs : DOMAIN proofs \ {q} \in SUBSET DOMAIN proofs
      OBVIOUS
    <3> QED
      BY <2>1, <3>1, Zenon DEF delete_proof
  <2>2. CASE \E h \in {Height[b] : b \in ProvableBlock} : proofs' = prune_before(h)
    <3>1. \A h : {q \in DOMAIN proofs : height(q) >= h} \in SUBSET DOMAIN proofs
      OBVIOUS
    <3> QED
      BY <2>2, <3>1, Zenon DEF prune_before
  <2> QED
    BY <1>1, <1>5, <2>1, <2>2, Zenon DEF Maintain
<1>6. CASE TickStep
  <2>1. ASSUME NEW r \in work, reconcile_one(r)
        PROVE  Effect
    <3>1. CASE PollJob(r)
      BY <1>1, <3>1, Zenon DEF PollJob, dbVars
    <3>2. CASE discard_submission(r)
      BY <1>1, <3>2, Zenon DEF discard_submission
    <3>3. CASE handle_completed(r)
      <4>1. get_local(r) \in ProofId
        BY LocalProof, Zenon
      <4> QED
        BY <1>1, <3>3, <4>1, Zenon
        DEF handle_completed, discard_submission, Stores, Terminal, dbVars
    <3> QED
      BY <2>1, <3>1, <3>2, <3>3, Zenon DEF reconcile_one
  <2>2. CASE Tick \/ RemoveStatus \/ GenerateTick \/ MapRemote \/ RecordStatus \/ ScheduleDone
    BY <1>1, <2>2, Zenon DEF Tick, RemoveStatus, GenerateTick, schedule_proofs, MapRemote,
       RecordStatus, ScheduleDone, dbVars
  <2>3. CASE SkipProof \/ DeferProof \/ SubmitFails \/ UnknownArtifact \/ SubmitProof
    BY <1>1, <2>3, Zenon DEF SkipProof, DeferProof, SubmitFails, UnknownArtifact, SubmitProof,
       Dequeued, Terminal, dbVars
  <2>4. CASE FollowTick
    BY <1>1, <2>4, Zenon DEF FollowTick, schedule_proofs, dbVars
  <2>5. CASE FetchSkips \/ FetchDone
    BY <1>1, <2>5, Zenon DEF FetchSkips, FetchDone, EndFetch, Dequeued, dbVars
  <2>6. CASE FetchReceipt
    <3>1. Next_in_queue \in ProofId
      BY <2>6, DequeuedFromQueue, Zenon DEF FetchReceipt, Fetching, QueueInv
    <3> QED
      BY <1>1, <2>6, <3>1, Zenon DEF FetchReceipt, EndFetch, Stores, dbVars
  <2> QED
    BY <1>6, <2>1, <2>2, <2>3, <2>4, <2>5, <2>6, Zenon DEF TickStep
<1>7. CASE UNCHANGED vars
  BY <1>1, <1>7, Zenon DEF vars, dbVars
<1> QED
  BY <1>2, <1>3, <1>4, <1>5, <1>6, <1>7, Zenon DEF Next

\* What verifies attests to its own block, so the tables go on attesting.
LEMMA StoreStep ==
  ASSUME StoreInv, QueueInv, RecordsInv, [Next]_vars
  PROVE  StoreInv'
<1>1. CASE proofs' = proofs
  BY <1>1, Zenon DEF StoreInv, StoredProofsAttest, StoredBlocks, KeysBounded
<1>2. ASSUME NEW p \in ProofId, NEW receipt \in Receipt, Stores(p, receipt)
      PROVE  StoreInv'
  <2>1. /\ DOMAIN proofs' = DOMAIN proofs \cup {p}
        /\ proofs'[p] = receipt
        /\ \A q \in DOMAIN proofs \ {p} : proofs'[q] = proofs[q]
    BY <1>2 DEF Stores, store_completed_proof
  <2>2. KeysBounded(StoredBlocks \cup {p[2]})
    <3>1. p[2] \in Block /\ StoredBlocks \subseteq Block
      BY Provable, Zenon DEF StoredBlocks, StoreInv
    <3> QED
      BY <3>1, KeysBoundedAdd, Zenon DEF StoreInv
  <2>3. StoredBlocks' = StoredBlocks \cup {p[2]}
    BY <2>1, Zenon DEF StoredBlocks
  <2>4. /\ receipt.target = p[2]
        /\ p[1] = "Asm" => receipt.origin = Parent[p[2]]
                           /\ receipt.predicate = NextPredicate[Parent[p[2]]]
        /\ p[1] = "Moho" => /\ receipt.origin = Genesis /\ receipt.predicate = MohoPredicate
                            /\ receipt.recursed_under = MohoPredicate
    BY <1>2 DEF Stores, verify, expected_attestation, Attests
  <2>5. StoredProofsAttest'
    <3>1. ASSUME NEW q \in DOMAIN proofs'
          PROVE  /\ proofs'[q].target = q[2]
                 /\ q[1] = "Asm" => proofs'[q].origin = Parent[q[2]]
                                    /\ proofs'[q].predicate = NextPredicate[Parent[q[2]]]
                 /\ q[1] = "Moho" => /\ proofs'[q].origin = Genesis
                                     /\ proofs'[q].predicate = MohoPredicate
                                     /\ proofs'[q].recursed_under = MohoPredicate
      <4>1. CASE q = p
        BY <2>1, <2>4, <4>1, Zenon
      <4>2. CASE q # p
        BY <2>1, <4>2, ZenonT(60) DEF StoreInv, StoredProofsAttest
      <4> QED
        BY <4>1, <4>2, Zenon
    <3> QED
      BY <3>1, Zenon DEF StoredProofsAttest
  <2>6. DOMAIN proofs' \subseteq ProofId /\ \A q \in DOMAIN proofs' : proofs'[q] \in Receipt
    BY <2>1, Zenon DEF StoreInv
  <2>7. KeysBounded(StoredBlocks)'
    BY <2>2, <2>3, Zenon DEF KeysBounded
  <2> QED
    BY <2>5, <2>6, <2>7, Zenon DEF StoreInv
<1>3. ASSUME NEW S \in SUBSET DOMAIN proofs, proofs' = Restrict(proofs, S)
      PROVE  StoreInv'
  <2>1. DOMAIN proofs' = S /\ \A q \in S : proofs'[q] = proofs[q]
    BY <1>3 DEF Restrict
  <2>2. StoredBlocks' \subseteq StoredBlocks
    BY <2>1, Zenon DEF StoredBlocks
  <2>3. KeysBounded(StoredBlocks)'
    BY <2>2, Zenon DEF KeysBounded, StoreInv
  <2>4. StoredProofsAttest'
    BY <2>1, ZenonT(60) DEF StoreInv, StoredProofsAttest
  <2> QED
    BY <2>1, <2>3, <2>4, Zenon DEF StoreInv
<1> QED
  BY <1>1, <1>2, <1>3, StoreEffect, Zenon

-----------------------------------------------------------------------------
(***************************************************************************)
(* Jobs and their records.                                                 *)
(***************************************************************************)
JobsInv ==
  \A r \in DOMAIN jobs :
    /\ jobs[r] = [status |-> jobs[r].status, input |-> jobs[r].input]
    /\ JobOutput(r[1], jobs[r].input) = expected_attestation(r[1])

\* A proof that is ready is submitted with an input from which its program makes
\* the expected receipt.
LEMMA InputComposes ==
  ASSUME StoreInv, NEW p \in ProofId, Ready(p)
  PROVE  JobOutput(p, RuntimeInput(p)) = expected_attestation(p)
<1> DEFINE b == p[2]
<1>0. b \in ProvableBlock /\ p[1] \in {"Asm", "Moho"}
  BY Provable, Zenon
<1>1. CASE p[1] = "Asm"
  BY <1>1 DEF JobOutput, RuntimeInput, StepInput, process_asm_stf, AsmStfProgram, compute_ref,
     compute_prev_ref, expected_attestation, Attests
<1>2. CASE p[1] = "Moho"
  <2>1. Asm(b) \in DOMAIN proofs /\ (Parent[b] # Genesis => Moho(Parent[b]) \in DOMAIN proofs)
    BY <1>2, Zenon DEF Ready, missing_prerequisites, proof_exists
  <2> DEFINE step == proofs[Asm(b)]
             in == [moho_predicate |-> MohoPredicate, prev |-> get_proof(Moho(Parent[b])),
                    step |-> step, step_predicate |-> NextPredicate[Parent[b]]]
  <2>2. get_proof(Asm(b)) = step
    BY <2>1, Zenon DEF get_proof, proof_exists
  <2>3. RuntimeInput(p) = in
    BY <1>2, <2>2, SMTT(60) DEF RuntimeInput
  <2>4. /\ step.target = b /\ step.origin = Parent[b]
        /\ step.predicate = NextPredicate[Parent[b]]
    BY <2>1 DEF StoreInv, StoredProofsAttest, Asm
  <2>5. expected_attestation(p) = Attests(MohoPredicate, MohoPredicate, Genesis, b)
    BY <1>2, ZenonT(60) DEF expected_attestation
  <2>6. JobOutput(p, RuntimeInput(p)) = process_recursive_moho_proof(in)
    BY <1>2, <2>3, SMTT(60) DEF JobOutput
  <2>7. CASE Parent[b] = Genesis
    <3>1. get_proof(Moho(Parent[b])) = None
      BY <2>7, Provable, Zenon DEF get_proof, proof_exists, StoreInv
    <3>2. /\ in.step = step /\ in.prev = None /\ in.step_predicate = NextPredicate[Parent[b]]
          /\ in.moho_predicate = MohoPredicate
      BY <3>1
    <3> HIDE DEF in, step
    <3> QED
      BY <2>4, <2>5, <2>6, <2>7, <3>2 DEF process_recursive_moho_proof, recursion_accepts
  <2>8. CASE Parent[b] # Genesis
    <3> DEFINE prev == proofs[Moho(Parent[b])]
    <3>1. get_proof(Moho(Parent[b])) = prev
      BY <2>1, <2>8, Zenon DEF get_proof, proof_exists
    <3>2. /\ prev.target = Parent[b] /\ prev.origin = Genesis
          /\ prev.predicate = MohoPredicate /\ prev.recursed_under = MohoPredicate
      BY <2>1, <2>8 DEF StoreInv, StoredProofsAttest, Moho
    <3>3. prev # None
      BY <2>1, <2>8, ReceiptAssumption, ZenonT(60) DEF StoreInv
    <3>4. /\ in.step = step /\ in.prev = prev /\ in.step_predicate = NextPredicate[Parent[b]]
          /\ in.moho_predicate = MohoPredicate
      BY <3>1
    <3> HIDE DEF in, step, prev
    <3> QED
      BY <2>4, <2>5, <2>6, <3>2, <3>3, <3>4 DEF process_recursive_moho_proof, recursion_accepts
  <2> QED
    BY <2>7, <2>8, Zenon
<1> QED
  BY <1>0, <1>1, <1>2, Zenon

\* Jobs are submitted with inputs that compose, and keep them.
LEMMA JobsStep ==
  ASSUME StoreInv, QueueInv, JobsInv, [Next]_vars
  PROVE  JobsInv'
<1>1. ASSUME jobs' = jobs PROVE JobsInv'
  BY <1>1, Zenon DEF JobsInv, JobOutput, process_asm_stf, process_recursive_moho_proof,
     expected_attestation
<1>2. ASSUME NEW r \in DOMAIN jobs, NEW s, jobs' = [jobs EXCEPT ![r].status = s]
      PROVE  JobsInv'
  <2>1. DOMAIN jobs' = DOMAIN jobs
    BY <1>2
  <2>2. ASSUME NEW t \in DOMAIN jobs
        PROVE  /\ jobs'[t] = [status |-> jobs'[t].status, input |-> jobs'[t].input]
               /\ jobs'[t].input = jobs[t].input
    <3>1. jobs[t] = [status |-> jobs[t].status, input |-> jobs[t].input]
      BY Zenon DEF JobsInv
    <3>2. CASE t = r
      <4>1. jobs'[t] = [jobs[t] EXCEPT !.status = s]
        BY <1>2, <3>2
      <4> QED
        BY <3>1, <4>1
    <3>3. CASE t # r
      <4>1. jobs'[t] = jobs[t]
        BY <1>2, <3>3
      <4> QED
        BY <3>1, <4>1, Zenon
    <3> QED
      BY <3>2, <3>3, Zenon
  <2> QED
    BY <2>1, <2>2, ZenonT(60) DEF JobsInv, JobOutput, process_asm_stf, process_recursive_moho_proof,
       expected_attestation
<1>3. CASE \E r \in DOMAIN jobs : JobRuns(r) \/ JobFails(r)
  BY <1>2, <1>3, Zenon DEF JobRuns, JobFails
<1>4. CASE SubmitProof
  <2> DEFINE p == Next_in_queue
             r == <<p, 1 + Cardinality({s \in DOMAIN jobs : s[1] = p})>>
  <2>1. p \in ProofId
    BY <1>4, DequeuedFromQueue, Zenon DEF SubmitProof, Scheduling, QueueInv
  <2>2. JobOutput(p, RuntimeInput(p)) = expected_attestation(p)
    BY <1>4, <2>1, InputComposes, Zenon DEF SubmitProof
  <2>3. jobs' = [s \in DOMAIN jobs \cup {r} |->
                   IF s = r THEN [status |-> "Requested", input |-> RuntimeInput(p)] ELSE jobs[s]]
    BY <1>4, Zenon DEF SubmitProof
  <2>4. r[1] = p
    OBVIOUS
  <2> HIDE DEF p, r
  <2>5. /\ DOMAIN jobs' = DOMAIN jobs \cup {r}
        /\ jobs'[r] = [status |-> "Requested", input |-> RuntimeInput(p)]
        /\ \A s \in DOMAIN jobs \ {r} : jobs'[s] = jobs[s]
    BY <2>3
  <2>6. ASSUME NEW s \in DOMAIN jobs'
        PROVE  /\ jobs'[s] = [status |-> jobs'[s].status, input |-> jobs'[s].input]
               /\ JobOutput(s[1], jobs'[s].input) = expected_attestation(s[1])
    <3>1. CASE s = r
      <4>1. jobs'[s] = [status |-> jobs'[s].status, input |-> jobs'[s].input]
        BY <2>5, <3>1
      <4>2. jobs'[s].input = RuntimeInput(p)
        BY <2>5, <3>1
      <4> QED
        BY <2>2, <2>4, <3>1, <4>1, <4>2, Zenon
    <3>2. CASE s # r
      <4>1. s \in DOMAIN jobs /\ jobs'[s] = jobs[s]
        BY <2>5, <3>2, Zenon
      <4> QED
        BY <4>1, Zenon DEF JobsInv
    <3> QED
      BY <3>1, <3>2, Zenon
  <2> QED
    BY <2>6, Zenon DEF JobsInv, JobOutput, process_asm_stf, process_recursive_moho_proof,
       expected_attestation
<1>5. CASE (\E c \in Configs : Launch(c)) \/ Kill \/ Deliver \/ Maintain
  BY <1>1, <1>5, Zenon DEF Launch, Kill, Halt, Deliver, Maintain
<1>6. CASE \E b \in ProvableBlock : CommitBlock(b)
  BY <1>1, <1>6, Zenon DEF CommitBlock
<1>7. CASE \E r \in work : reconcile_one(r)
  BY <1>1, <1>7, Zenon DEF reconcile_one, PollJob, PassOver, discard_submission, handle_completed,
     Terminal, Halt
<1>8. CASE Tick \/ RemoveStatus \/ GenerateTick \/ MapRemote \/ RecordStatus \/ ScheduleDone
  BY <1>1, <1>8, Zenon DEF Tick, RemoveStatus, GenerateTick, schedule_proofs, MapRemote,
     RecordStatus, ScheduleDone
<1>9. CASE SkipProof \/ DeferProof \/ SubmitFails \/ UnknownArtifact
  BY <1>1, <1>9, Zenon DEF SkipProof, DeferProof, SubmitFails, UnknownArtifact, Dequeued, Terminal,
     Halt
<1>10. CASE FollowTick
  BY <1>1, <1>10, Zenon DEF FollowTick, schedule_proofs
<1>11. CASE FetchSkips \/ FetchReceipt \/ FetchDone
  BY <1>1, <1>11, Zenon DEF FetchSkips, FetchReceipt, FetchDone, EndFetch, Dequeued
<1>12. CASE UNCHANGED vars
  BY <1>1, <1>12, Zenon DEF vars
<1> QED
  BY <1>3, <1>4, <1>5, <1>6, <1>7, <1>8, <1>9, <1>10, <1>11, <1>12, ZenonT(60) DEF Next, TickStep

\* The records keep following one another.
LEMMA RecordsStep ==
  ASSUME QueueInv, RecordsInv, [Next]_vars
  PROVE  RecordsInv'
<1>1. ASSUME DOMAIN jobs' = DOMAIN jobs, remote_to_proof' = remote_to_proof,
             DOMAIN remote_status' \subseteq DOMAIN remote_status,
             work' \subseteq DOMAIN remote_status', pc' = "down" => work' = {},
             pc' \notin {"mapping", "recording"}
      PROVE  RecordsInv'
  BY <1>1, Zenon DEF RecordsInv
<1>2. ASSUME DOMAIN jobs' = DOMAIN jobs, UNCHANGED <<remote_to_proof, remote_status, work, cur, pc>>
      PROVE  RecordsInv'
  BY <1>2, Zenon DEF RecordsInv
<1>3. ASSUME UNCHANGED <<jobs, remote_to_proof, remote_status>>, work' \in {work, {}},
             pc' \in {"idle", "reconcile", "removing", "schedule", "fetch"} \/ (pc' = "down" /\ work' = {})
      PROVE  RecordsInv'
  <2>1. work' \subseteq DOMAIN remote_status'
    BY <1>3, Zenon DEF RecordsInv
  <2>2. pc' \notin {"mapping", "recording"} /\ (pc' = "down" => work' = {})
    BY <1>3
  <2>3. DOMAIN jobs' = DOMAIN jobs /\ DOMAIN remote_status' \subseteq DOMAIN remote_status
    BY <1>3, Zenon
  <2> QED
    BY <1>1, <1>3, <2>1, <2>2, <2>3, Zenon
<1>4. CASE (\E c \in Configs : Launch(c)) \/ Kill
  BY <1>3, <1>4, Zenon DEF Launch, Kill, Halt, dbVars, loopVars
<1>5. CASE Deliver \/ \E b \in ProvableBlock : CommitBlock(b)
  BY <1>2, <1>5, Zenon DEF Deliver, CommitBlock, dbVars, loopVars
<1>6. ASSUME NEW r \in DOMAIN jobs, JobRuns(r) \/ JobFails(r)
      PROVE  RecordsInv'
  <2>1. DOMAIN jobs' = DOMAIN jobs
    <3>1. ASSUME NEW s, jobs' = [jobs EXCEPT ![r].status = s]
          PROVE  DOMAIN jobs' = DOMAIN jobs
      BY <3>1
    <3> QED
      BY <1>6, <3>1, Zenon DEF JobRuns, JobFails
  <2> QED
    BY <1>2, <1>6, <2>1, Zenon DEF JobRuns, JobFails, dbVars, loopVars
<1>7. CASE Maintain
  <2>1. CASE \E r \in DOMAIN remote_status : remote_status' = delete_status(r)
    <3>1. DOMAIN remote_status' \subseteq DOMAIN remote_status
      BY <2>1 DEF delete_status, Restrict
    <3>2. /\ work = {} /\ UNCHANGED <<jobs, remote_to_proof, work>>
          /\ pc = "down" /\ pc' = pc
      BY <1>7, Zenon DEF Maintain, RecordsInv, loopVars
    <3>3. pc' \notin {"mapping", "recording"}
      BY <3>2
    <3> QED
      BY <1>1, <3>1, <3>2, <3>3, Zenon
  <2>2. CASE UNCHANGED remote_status
    BY <1>2, <1>7, <2>2, Zenon DEF Maintain, loopVars
  <2> QED
    BY <1>7, <2>1, <2>2, Zenon DEF Maintain
<1>8. ASSUME NEW r \in work, reconcile_one(r)
      PROVE  RecordsInv'
  <2>1. CASE PollJob(r)
    <3>1. /\ pc = "reconcile" /\ pc' = pc
          /\ UNCHANGED <<jobs, remote_to_proof>> /\ work' = work \ {r}
          /\ remote_status' = remote_status \/ remote_status' = update_status(r, "InProgress")
      BY <1>8, <2>1, Zenon DEF reconcile_one, PollJob, PassOver, dbVars
    <3>2. DOMAIN remote_status' = DOMAIN remote_status
      BY <3>1 DEF update_status
    <3>3. pc' \notin {"mapping", "recording"} /\ pc' # "down"
      BY <3>1
    <3>4. work' \subseteq DOMAIN remote_status'
      BY <3>1, <3>2, Zenon DEF RecordsInv
    <3> QED
      BY <1>1, <3>1, <3>2, <3>3, <3>4, Zenon
  <2>2. CASE discard_submission(r)
    BY <1>3, <2>2, Zenon DEF discard_submission
  <2>3. CASE handle_completed(r)
    BY <1>3, <2>3, Zenon DEF handle_completed, discard_submission, Terminal, Halt, dbVars
  <2> QED
    BY <1>8, <2>1, <2>2, <2>3, Zenon DEF reconcile_one
<1>9. CASE Tick
  <2>1. pc' = "reconcile" /\ work' = in_progress /\ UNCHANGED <<jobs, remote_to_proof, remote_status>>
    BY <1>9, Zenon DEF Tick, dbVars
  <2>2. work' \subseteq DOMAIN remote_status'
    BY <2>1, Zenon DEF in_progress
  <2>3. pc' \notin {"mapping", "recording"} /\ pc' # "down"
    BY <2>1
  <2> QED
    BY <1>1, <2>1, <2>2, <2>3, Zenon
<1>10. CASE RemoveStatus
  <2>1. /\ pc' = "reconcile" /\ work' = work \ {cur[2]} /\ UNCHANGED <<jobs, remote_to_proof>>
        /\ remote_status' = delete_status(cur[2])
    BY <1>10, Zenon DEF RemoveStatus
  <2>2. DOMAIN remote_status' = DOMAIN remote_status \ {cur[2]}
    BY <2>1 DEF delete_status, Restrict
  <2>3. work' \subseteq DOMAIN remote_status' /\ DOMAIN remote_status' \subseteq DOMAIN remote_status
    BY <2>1, <2>2, Zenon DEF RecordsInv
  <2>4. pc' \notin {"mapping", "recording"} /\ pc' # "down"
    BY <2>1
  <2> QED
    BY <1>1, <2>1, <2>3, <2>4, Zenon
<1>11. CASE GenerateTick \/ ScheduleDone
  BY <1>3, <1>11, Zenon DEF GenerateTick, schedule_proofs, ScheduleDone, dbVars
<1>12. CASE SkipProof \/ DeferProof \/ SubmitFails
  BY <1>2, <1>12, Zenon DEF SkipProof, DeferProof, SubmitFails, Dequeued, dbVars
<1>13. CASE UnknownArtifact
  BY <1>3, <1>13, Zenon DEF UnknownArtifact, Terminal, Halt, dbVars
<1>14. CASE SubmitProof
  <2> DEFINE p == Next_in_queue
             r == <<p, 1 + Cardinality({s \in DOMAIN jobs : s[1] = p})>>
  <2>1. p \in ProofId
    BY <1>14, DequeuedFromQueue, Zenon DEF SubmitProof, Scheduling, QueueInv
  <2>2. jobs' = [s \in DOMAIN jobs \cup {r} |->
                   IF s = r THEN [status |-> "Requested", input |-> RuntimeInput(p)] ELSE jobs[s]]
    BY <1>14, Zenon DEF SubmitProof
  <2>3. /\ UNCHANGED <<remote_to_proof, remote_status, work>>
        /\ pc' = "mapping" /\ cur' = <<p, r>>
    BY <1>14, Zenon DEF SubmitProof
  <2>4. r[1] = p
    OBVIOUS
  <2> HIDE DEF p, r
  <2>5. DOMAIN jobs' = DOMAIN jobs \cup {r}
    BY <2>2
  <2>6. cur'[1] = cur'[2][1] /\ cur'[2] = r
    BY <2>3, <2>4
  <2>7. pc' # "down" /\ pc' # "recording"
    BY <2>3
  <2> QED
    BY <2>1, <2>3, <2>4, <2>5, <2>6, <2>7, Zenon DEF RecordsInv
<1>15. CASE MapRemote
  <2>1. /\ pc = "mapping" /\ pc' = "recording" /\ UNCHANGED <<jobs, remote_status, work, cur>>
        /\ remote_to_proof' = put_reverse(cur[1], cur[2])
    BY <1>15, Zenon DEF MapRemote, loopVars
  <2>2. /\ DOMAIN remote_to_proof' = DOMAIN remote_to_proof \cup {cur[2]}
        /\ remote_to_proof'[cur[2]] = cur[1]
        /\ \A s \in DOMAIN remote_to_proof \ {cur[2]} : remote_to_proof'[s] = remote_to_proof[s]
    BY <2>1 DEF put_reverse
  <2>3. cur[1] = cur[2][1] /\ cur[2] \in DOMAIN jobs
    BY <2>1, Zenon DEF RecordsInv
  <2>4. \A s \in DOMAIN remote_to_proof' : remote_to_proof'[s] = s[1]
    BY <2>2, <2>3, Zenon DEF RecordsInv
  <2>5. pc' # "down" /\ pc' # "mapping"
    BY <2>1
  <2> QED
    BY <2>1, <2>2, <2>3, <2>4, <2>5, Zenon DEF RecordsInv
<1>16. CASE RecordStatus
  <2>1. /\ pc = "recording" /\ pc' = "schedule" /\ UNCHANGED <<jobs, remote_to_proof, work>>
        /\ remote_status' = put_status(cur[2], "Requested")
    BY <1>16, Zenon DEF RecordStatus
  <2>2. DOMAIN remote_status' = DOMAIN remote_status \cup {cur[2]}
    BY <2>1 DEF put_status
  <2>3. pc' \notin {"down", "mapping", "recording"}
    BY <2>1
  <2> QED
    BY <2>1, <2>2, <2>3, Zenon DEF RecordsInv
<1>17. CASE FollowTick
  BY <1>3, <1>17, Zenon DEF FollowTick, schedule_proofs, loopVars, dbVars
<1>18. CASE FetchSkips
  BY <1>2, <1>18, Zenon DEF FetchSkips, Dequeued, dbVars
<1>19. CASE FetchReceipt \/ FetchDone
  BY <1>2, <1>3, <1>19, Zenon DEF FetchReceipt, FetchDone, EndFetch, dbVars
<1>20. CASE UNCHANGED vars
  BY <1>2, <1>20, Zenon DEF vars, dbVars, loopVars
<1> QED
  BY <1>4, <1>5, <1>6, <1>7, <1>8, <1>9, <1>10, <1>11, <1>12, <1>13, <1>14, <1>15, <1>16, <1>17,
     <1>18, <1>19, <1>20, ZenonT(60) DEF Next, TickStep

-----------------------------------------------------------------------------
(***************************************************************************)
(* The frontier.  Proofs the running fetch loop has stored count only when *)
(* the loop ends.                                                          *)
(***************************************************************************)
Counted == DOMAIN proofs \ fetched

FrontierInv ==
  /\ fetched \subseteq DOMAIN proofs
  /\ pc # "fetch" => fetched = {}
  /\ last_proven \in ProvableBlock \cup {None}
  /\ pc # "down" /\ last_proven = None => \A b \in ProvableBlock : Moho(b) \notin Counted
  /\ pc # "down" /\ last_proven # None =>
       /\ Moho(last_proven) \in DOMAIN proofs
       /\ \A b \in ProvableBlock : Moho(b) \in Counted => Height[b] <= Height[last_proven]

\* advance_proven takes the frontier to the highest of the Moho proofs just
\* stored, unless it is there already.
LEMMA Advances ==
  ASSUME NEW c \in ProvableBlock \cup {None}, NEW ps, ps \subseteq ProofId,
         KeysBounded({p[2] : p \in ps}), NEW n, n = advance_proven(c, ps)
  PROVE  /\ n = c \/ (n \in ProvableBlock /\ Moho(n) \in ps)
         /\ c # None => n # None /\ Height[c] <= Height[n]
         /\ \A b \in ProvableBlock : Moho(b) \in ps => n # None /\ Height[b] <= Height[n]
<1> DEFINE bs == {b \in ProvableBlock : Moho(b) \in ps /\ (c # None => Height[b] > Height[c])}
<1>0. /\ \A b \in ProvableBlock : Height[b] \in Nat /\ b # None
      /\ n = IF bs = {} THEN c ELSE CHOOSE b \in bs : \A d \in bs : Height[d] <= Height[b]
  BY TreeAssumption, Zenon DEF advance_proven, ProvableBlock
<1>1. CASE bs = {}
  <2>1. n = c
    BY <1>0, <1>1, Zenon
  <2>2. ASSUME NEW b \in ProvableBlock, Moho(b) \in ps
        PROVE  c # None /\ Height[b] <= Height[c]
    <3>1. c # None /\ ~(Height[b] > Height[c])
      BY <1>1, <2>2, Zenon
    <3>2. Height[b] \in Nat /\ Height[c] \in Nat
      BY <1>0, <3>1, Zenon
    <3> QED
      BY <3>1, <3>2
  <2>3. c # None => Height[c] <= Height[c]
    BY <1>0
  <2> QED
    BY <2>1, <2>2, <2>3, Zenon
<1>2. CASE bs # {}
  <2>1. PICK m \in Nat : \A b \in {p[2] : p \in ps} : Height[b] <= m
    BY Zenon DEF KeysBounded
  <2>2. PICK b0 \in bs : \A d \in bs : Height[d] <= Height[b0]
    <3> DEFINE f == [b \in bs |-> Height[b]]
    <3>1. f \in [bs -> Nat]
      BY <1>0
    <3>2. ASSUME NEW x \in bs PROVE f[x] <= m
      <4>1. Moho(x) \in ps /\ Moho(x)[2] = x
        BY DEF Moho
      <4>2. x \in {p[2] : p \in ps}
        BY <4>1
      <4> QED
        BY <2>1, <4>2
    <3>3. PICK x \in bs : \A y \in bs : f[y] <= f[x]
      <4> HIDE DEF f, bs
      <4> QED
        BY <1>2, <3>1, <3>2, GreatestBy, Zenon
    <3> QED
      BY <3>3, Zenon
  <2>3. n \in bs /\ \A d \in bs : Height[d] <= Height[n]
    <3> DEFINE P(b) == \A d \in bs : Height[d] <= Height[b]
    <3>1. n = CHOOSE b \in bs : P(b)
      BY <1>0, <1>2, Zenon
    <3>2. P(b0)
      BY <2>2, Zenon
    <3>3. n \in bs /\ P(n)
      <4> HIDE DEF P, bs
      <4> QED
        BY <3>1, <3>2, Zenon
    <3> QED
      BY <3>3, Zenon
  <2>4. n \in ProvableBlock /\ Moho(n) \in ps /\ n # None /\ Height[n] \in Nat
        /\ (c # None => Height[n] > Height[c])
    BY <1>0, <2>3, Zenon
  <2>5. c # None => Height[c] <= Height[n]
    BY <1>0, <2>4
  <2>6. ASSUME NEW b \in ProvableBlock, Moho(b) \in ps
        PROVE  Height[b] <= Height[n]
    <3>1. CASE b \in bs
      BY <2>3, <3>1, Zenon
    <3>2. CASE b \notin bs
      <4>1. c # None /\ ~(Height[b] > Height[c])
        BY <2>6, <3>2, Zenon
      <4>2. Height[b] \in Nat /\ Height[c] \in Nat
        BY <1>0, <4>1, Zenon
      <4> QED
        BY <2>4, <4>1, <4>2
    <3> QED
      BY <3>1, <3>2, Zenon
  <2> QED
    BY <2>4, <2>5, <2>6, Zenon
<1> QED
  BY <1>1, <1>2, Zenon

\* A step that counts further stored proofs and advances the frontier over them.
LEMMA FrontierAdvances ==
  ASSUME FrontierInv, StoreInv, StoreInv', NEW ps, ps \subseteq DOMAIN proofs', pc # "down",
         last_proven' = advance_proven(last_proven, ps),
         DOMAIN proofs \subseteq DOMAIN proofs', DOMAIN proofs' \subseteq Counted \cup ps,
         fetched' = {}
  PROVE  FrontierInv'
<1>1. ps \subseteq ProofId /\ KeysBounded({p[2] : p \in ps})
  <2>1. KeysBounded({p[2] : p \in DOMAIN proofs'}) /\ DOMAIN proofs' \subseteq ProofId
    BY Zenon DEF StoreInv, StoredBlocks, KeysBounded
  <2> QED
    BY <2>1, Zenon DEF KeysBounded
<1>2. last_proven \in ProvableBlock \cup {None}
  BY Zenon DEF FrontierInv
<1>3. /\ last_proven' = last_proven \/ (last_proven' \in ProvableBlock /\ Moho(last_proven') \in ps)
      /\ last_proven # None => last_proven' # None /\ Height[last_proven] <= Height[last_proven']
      /\ \A b \in ProvableBlock : Moho(b) \in ps =>
           last_proven' # None /\ Height[b] <= Height[last_proven']
  BY <1>1, <1>2, Advances, ZenonT(60)
<1>4. \A b \in ProvableBlock : Height[b] \in Nat
  BY TreeAssumption DEF ProvableBlock
<1>5. last_proven' \in ProvableBlock \cup {None}
  BY <1>2, <1>3, Zenon
<1>6. ASSUME NEW b \in ProvableBlock, Moho(b) \in DOMAIN proofs'
      PROVE  last_proven' # None /\ Height[b] <= Height[last_proven']
  <2>1. CASE Moho(b) \in ps
    BY <1>3, <2>1, Zenon
  <2>2. CASE Moho(b) \in Counted
    <3>1. last_proven # None /\ Height[b] <= Height[last_proven]
      BY <2>2, Zenon DEF FrontierInv
    <3>2. last_proven' # None /\ Height[last_proven] <= Height[last_proven']
      BY <1>3, <3>1, Zenon
    <3>3. Height[b] \in Nat /\ Height[last_proven] \in Nat /\ Height[last_proven'] \in Nat
      BY <1>2, <1>4, <1>5, <3>1, <3>2, Zenon
    <3> QED
      BY <3>1, <3>2, <3>3
  <2> QED
    BY <1>6, <2>1, <2>2, Zenon
<1>7. last_proven' # None => Moho(last_proven') \in DOMAIN proofs'
  BY <1>3, Zenon DEF FrontierInv
<1> QED
  BY <1>5, <1>6, <1>7, Zenon DEF FrontierInv, Counted

\* The frontier stays backed: it is read from the tables at launch and advanced
\* with what is stored, job by job or when a fetch loop ends.
LEMMA FrontierStep ==
  ASSUME FrontierInv, StoreInv, StoreInv', QueueInv, RecordsInv, [Next]_vars
  PROVE  FrontierInv'
<1>1. ASSUME UNCHANGED <<proofs, last_proven, fetched>>, pc' # "down" => pc # "down",
             pc' = "fetch" \/ pc # "fetch"
      PROVE  FrontierInv'
  BY <1>1, Zenon DEF FrontierInv, Counted
<1>2. ASSUME proofs' = proofs, fetched' = {}, last_proven' = None, pc' = "down"
      PROVE  FrontierInv'
  BY <1>2, Zenon DEF FrontierInv
<1>3. ASSUME NEW c \in Configs, Launch(c)
      PROVE  FrontierInv'
  <2> DEFINE bs == {b \in ProvableBlock : proof_exists(Moho(b))}
  <2>1. /\ pc = "down" /\ pc' = "idle" /\ UNCHANGED <<proofs, fetched>>
        /\ last_proven' = LastKey(bs)
    BY <1>3, Zenon DEF Launch, StateNew, get_latest_moho, dbVars, loopVars
  <2>2. fetched = {} /\ pc' # "fetch"
    BY <2>1 DEF FrontierInv
  <2>3. CASE bs = {}
    <3>1. last_proven' = None
      BY <2>1, <2>3, Zenon DEF LastKey
    <3>2. \A b \in ProvableBlock : Moho(b) \notin DOMAIN proofs
      BY <2>3, Zenon DEF proof_exists
    <3> QED
      BY <2>1, <2>2, <3>1, <3>2, Zenon DEF FrontierInv, Counted
  <2>4. CASE bs # {}
    <3>1. bs \subseteq Block
      BY DEF ProvableBlock
    <3>2. ASSUME NEW b \in bs PROVE b \in StoredBlocks
      <4>1. Moho(b) \in DOMAIN proofs /\ Moho(b)[2] = b
        BY DEF proof_exists, Moho
      <4> QED
        BY <4>1 DEF StoredBlocks
    <3>3. KeysBounded(bs)
      BY <3>2, Zenon DEF KeysBounded, StoreInv
    <3>4. LastKey(bs) \in bs /\ \A b \in bs : Height[b] <= Height[LastKey(bs)]
      <4> HIDE DEF bs
      <4> QED
        BY <2>4, <3>1, <3>3, LastKeyIsLast, Zenon
    <3>5. LastKey(bs) # None
      BY <3>1, <3>4, TreeAssumption, Zenon
    <3> QED
      BY <2>1, <2>2, <3>4, <3>5, Zenon DEF FrontierInv, Counted, proof_exists
  <2> QED
    BY <2>3, <2>4, Zenon
<1>4. CASE Kill \/ UnknownArtifact
  BY <1>2, <1>4, Zenon DEF Kill, UnknownArtifact, Terminal, Halt, dbVars
<1>5. CASE Deliver \/ \E b \in ProvableBlock : CommitBlock(b)
  BY <1>1, <1>5, Zenon DEF Deliver, CommitBlock, FrontierInv, dbVars, loopVars, statusVars
<1>6. CASE \E r \in DOMAIN jobs : JobRuns(r) \/ JobFails(r)
  BY <1>1, <1>6, Zenon DEF JobRuns, JobFails, dbVars, loopVars, statusVars
<1>7. CASE Maintain
  <2>1. pc = "down" /\ pc' = pc /\ UNCHANGED <<last_proven, fetched>>
    BY <1>7, Zenon DEF Maintain, loopVars, statusVars
  <2>2. fetched = {}
    BY <2>1 DEF FrontierInv
  <2> QED
    BY <2>1, <2>2, Zenon DEF FrontierInv
<1>8. ASSUME NEW r \in work, reconcile_one(r)
      PROVE  FrontierInv'
  <2>0. pc # "fetch" /\ pc # "down"
    BY <1>8 DEF reconcile_one
  <2>1. CASE PollJob(r)
    BY <1>1, <2>0, <2>1, Zenon DEF PollJob, PassOver, dbVars
  <2>2. CASE discard_submission(r)
    BY <1>1, <2>0, <2>2, Zenon DEF discard_submission, statusVars
  <2>3. CASE handle_completed(r)
    <3> DEFINE p == get_local(r)
    <3>1. CASE Terminal
      BY <1>2, <3>1, Zenon DEF Terminal, Halt, dbVars
    <3>2. ASSUME NEW receipt \in Receipt, proofs' = store_completed_proof(p, receipt),
                 last_proven' = advance_proven(last_proven, {p}), fetched' = fetched
          PROVE  FrontierInv'
      <4>1. DOMAIN proofs' = DOMAIN proofs \cup {p}
        BY <3>2 DEF store_completed_proof
      <4>2. fetched = {} /\ Counted = DOMAIN proofs
        BY <2>0 DEF FrontierInv, Counted
      <4> HIDE DEF p
      <4> QED
        BY <2>0, <3>2, <4>1, <4>2, FrontierAdvances, Zenon
    <3> QED
      BY <2>2, <2>3, <3>1, <3>2, Zenon DEF handle_completed
  <2> QED
    BY <1>8, <2>1, <2>2, <2>3, Zenon DEF reconcile_one
<1>9. CASE Tick \/ RemoveStatus \/ GenerateTick
  BY <1>1, <1>9, Zenon DEF Tick, RemoveStatus, GenerateTick, schedule_proofs, statusVars, dbVars
<1>10. CASE MapRemote \/ RecordStatus \/ ScheduleDone
  BY <1>1, <1>10, Zenon DEF MapRemote, RecordStatus, ScheduleDone, loopVars, statusVars, dbVars
<1>11. CASE SkipProof \/ DeferProof \/ SubmitFails
  BY <1>1, <1>11, Zenon DEF SkipProof, DeferProof, SubmitFails, Scheduling, Dequeued, statusVars,
     dbVars
<1>12. CASE SubmitProof
  BY <1>1, <1>12, Zenon DEF SubmitProof, Scheduling, statusVars
<1>13. CASE FollowTick
  BY <1>1, <1>13, Zenon DEF FollowTick, schedule_proofs, loopVars, statusVars, dbVars
<1>14. ASSUME NEW invalid, pc = "fetch", EndFetch(invalid)
       PROVE  FrontierInv'
  <2>1. /\ proofs' = proofs /\ fetched' = {} /\ pc # "down"
        /\ last_proven' = advance_proven(last_proven, fetched)
    BY <1>14 DEF EndFetch, dbVars
  <2>2. fetched \subseteq DOMAIN proofs' /\ DOMAIN proofs' \subseteq Counted \cup fetched
    BY <2>1, Zenon DEF FrontierInv, Counted
  <2> QED
    BY <2>1, <2>2, FrontierAdvances, Zenon
<1>15. CASE FetchSkips
  BY <1>1, <1>15, Zenon DEF FetchSkips, Fetching, Dequeued, statusVars, dbVars
<1>16. CASE FetchReceipt
  <2> DEFINE p == Next_in_queue
  <2>1. ASSUME NEW receipt, proofs' = store_completed_proof(p, receipt),
               fetched' = fetched \cup {p}, UNCHANGED <<last_proven, pc>>, pc = "fetch"
        PROVE  FrontierInv'
    <3>1. DOMAIN proofs' = DOMAIN proofs \cup {p}
      BY <2>1 DEF store_completed_proof
    <3>2. pc # "down" /\ pc' = "fetch"
      BY <2>1
    <3>3. fetched' \subseteq DOMAIN proofs' /\ Counted' \subseteq Counted
      BY <2>1, <3>1, Zenon DEF FrontierInv, Counted
    <3> HIDE DEF p
    <3> QED
      BY <2>1, <3>1, <3>2, <3>3, Zenon DEF FrontierInv
  <2> QED
    BY <1>14, <1>16, <2>1, Zenon DEF FetchReceipt, Fetching, statusVars
<1>17. CASE FetchDone
  BY <1>14, <1>17, Zenon DEF FetchDone
<1>18. CASE UNCHANGED vars
  BY <1>1, <1>18, Zenon DEF vars, dbVars, loopVars, statusVars
<1> QED
  BY <1>3, <1>4, <1>5, <1>6, <1>7, <1>8, <1>9, <1>10, <1>11, <1>12, <1>13, <1>15, <1>16, <1>17,
     <1>18, ZenonT(60) DEF Next, TickStep

-----------------------------------------------------------------------------
(***************************************************************************)
(* Jobs on record.  The slots a scheduling loop starts with are the ones   *)
(* the record leaves free, and each submission uses one up.                *)
(***************************************************************************)
OnRecord == Cardinality(DOMAIN remote_status)

Allowed(n) == \E c \in Configs : can_bootstrap(c) /\ n <= c.max_concurrent_proofs

FlightInv ==
  /\ IsFiniteSet(DOMAIN remote_status)
  /\ \A r \in DOMAIN remote_status : remote_status[r] \in {"Requested", "InProgress"}
  /\ pc # "down" => \E c \in Configs : can_bootstrap(c) /\ config = Backend(c)
  /\ pc \in {"schedule", "mapping", "recording"} =>
       capacity \in Nat /\ OnRecord + capacity <= config.max_concurrent_proofs
  /\ pc \in {"mapping", "recording"} => capacity > 0
  /\ DOMAIN remote_status = {} \/ Allowed(OnRecord)

\* Every job on record counts as in progress.
LEMMA RecordedInProgress ==
  ASSUME FlightInv
  PROVE  in_progress = DOMAIN remote_status /\ OnRecord \in Nat
BY FS_CardinalityType, Zenon DEF FlightInv, in_progress, OnRecord

\* A running service keeps to the limit it was configured with.
LEMMA Limit ==
  ASSUME FlightInv, pc # "down"
  PROVE  /\ config.max_concurrent_proofs \in Nat
         /\ \A n \in Nat : n <= config.max_concurrent_proofs => Allowed(n)
<1>1. PICK c \in Configs : can_bootstrap(c) /\ config = Backend(c)
  BY Zenon DEF FlightInv
<1>2. config.max_concurrent_proofs = c.max_concurrent_proofs
  BY <1>1 DEF Backend
<1>3. c.max_concurrent_proofs \in Nat
  BY ConfigsAssumption, Zenon DEF IsOrchestratorConfig
<1> QED
  BY <1>1, <1>2, <1>3, Zenon DEF Allowed

\* With fewer jobs on record the bound still holds.
LEMMA FewerOnRecord ==
  ASSUME FlightInv, DOMAIN remote_status' \subseteq DOMAIN remote_status
  PROVE  /\ IsFiniteSet(DOMAIN remote_status')
         /\ DOMAIN remote_status' = {} \/ Allowed(OnRecord')
<1>1. IsFiniteSet(DOMAIN remote_status)
  BY Zenon DEF FlightInv
<1>2. /\ IsFiniteSet(DOMAIN remote_status')
      /\ Cardinality(DOMAIN remote_status') <= Cardinality(DOMAIN remote_status)
  BY <1>1, FS_Subset, Zenon
<1>3. OnRecord \in Nat /\ OnRecord' \in Nat
  BY <1>1, <1>2, FS_CardinalityType, Zenon DEF OnRecord
<1>4. CASE Allowed(OnRecord)
  <2>1. PICK c \in Configs : can_bootstrap(c) /\ OnRecord <= c.max_concurrent_proofs
    BY <1>4, Zenon DEF Allowed
  <2>2. c.max_concurrent_proofs \in Nat
    BY ConfigsAssumption, Zenon DEF IsOrchestratorConfig
  <2>3. OnRecord' <= c.max_concurrent_proofs
    BY <1>2, <1>3, <2>1, <2>2 DEF OnRecord
  <2> QED
    BY <1>2, <2>1, <2>3, Zenon DEF Allowed
<1> QED
  BY <1>2, <1>4, Zenon DEF FlightInv

\* No step takes the record beyond the limit.
LEMMA FlightStep ==
  ASSUME FlightInv, [Next]_vars
  PROVE  FlightInv'
<1> DEFINE Loop == {"schedule", "mapping", "recording"}
<1>1. ASSUME DOMAIN remote_status' \subseteq DOMAIN remote_status,
             \A r \in DOMAIN remote_status' : remote_status'[r] \in {"Requested", "InProgress"},
             pc' = "down" \/ (pc # "down" /\ config' = config), pc' \notin Loop
      PROVE  FlightInv'
  <2>1. pc' \notin {"mapping", "recording"}
    BY <1>1
  <2> QED
    BY <1>1, <2>1, FewerOnRecord, Zenon DEF FlightInv
<1>2. ASSUME remote_status' = remote_status, pc' = "down" \/ (pc # "down" /\ config' = config),
             pc' \notin Loop
      PROVE  FlightInv'
  BY <1>1, <1>2, Zenon DEF FlightInv
<1>3. ASSUME UNCHANGED <<remote_status, capacity, config, pc>>
      PROVE  FlightInv'
  BY <1>3, Zenon DEF FlightInv, OnRecord, Allowed
<1>4. ASSUME schedule_proofs, pc = "reconcile"
      PROVE  FlightInv'
  <2>1. /\ UNCHANGED <<remote_status, config>> /\ capacity' = Slots
        /\ pc' = IF Slots = 0 THEN "idle" ELSE "schedule"
    BY <1>4, Zenon DEF schedule_proofs, dbVars
  <2>2. in_progress = DOMAIN remote_status /\ OnRecord \in Nat
    BY RecordedInProgress, Zenon
  <2>3. pc # "down" /\ config.max_concurrent_proofs \in Nat
    BY <1>4, Limit
  <2>4. Slots = IF OnRecord < config.max_concurrent_proofs
                THEN config.max_concurrent_proofs - OnRecord ELSE 0
    BY <2>2, Zenon DEF Slots, OnRecord
  <2>5. CASE Slots = 0
    <3>1. pc' = "idle"
      BY <2>1, <2>5, Zenon
    <3>2. pc' \notin Loop
      BY <3>1
    <3> QED
      BY <1>2, <2>1, <2>3, <3>2, Zenon
  <2>6. CASE Slots # 0
    <3>1. pc' = "schedule"
      BY <2>1, <2>6, Zenon
    <3>2. Slots \in Nat /\ OnRecord + Slots <= config.max_concurrent_proofs
      BY <2>2, <2>3, <2>4, <2>6
    <3>3. pc' \notin {"mapping", "recording"} /\ OnRecord' = OnRecord
      BY <2>1, <3>1 DEF OnRecord
    <3> QED
      BY <2>1, <2>3, <3>2, <3>3, Zenon DEF FlightInv, Allowed
  <2> QED
    BY <2>5, <2>6, Zenon
<1>5. ASSUME NEW c \in Configs, Launch(c)
      PROVE  FlightInv'
  <2>1. /\ pc' = "idle" /\ config' = Backend(c) /\ can_bootstrap(c)
        /\ remote_status' = remote_status
    BY <1>5, Zenon DEF Launch, dbVars
  <2>2. pc' \notin {"schedule", "mapping", "recording"} /\ pc' \notin {"mapping", "recording"}
    BY <2>1
  <2> QED
    BY <2>1, <2>2, Zenon DEF FlightInv, OnRecord, Allowed
<1>6. CASE Kill \/ UnknownArtifact
  <2>1. remote_status' = remote_status /\ pc' = "down"
    BY <1>6, Zenon DEF Kill, UnknownArtifact, Terminal, Halt, dbVars
  <2>2. pc' \notin Loop
    BY <2>1
  <2> QED
    BY <1>2, <2>1, <2>2, Zenon
<1>7. CASE Deliver \/ \E b \in ProvableBlock : CommitBlock(b)
  BY <1>3, <1>7, Zenon DEF Deliver, CommitBlock, dbVars, loopVars
<1>8. CASE \E r \in DOMAIN jobs : JobRuns(r) \/ JobFails(r)
  BY <1>3, <1>8, Zenon DEF JobRuns, JobFails, dbVars, loopVars
<1>9. ASSUME NEW r, remote_status' = delete_status(r)
      PROVE  /\ DOMAIN remote_status' \subseteq DOMAIN remote_status
             /\ \A s \in DOMAIN remote_status' : remote_status'[s] \in {"Requested", "InProgress"}
  <2>1. /\ DOMAIN remote_status' = DOMAIN remote_status \ {r}
        /\ \A s \in DOMAIN remote_status' : remote_status'[s] = remote_status[s]
    BY <1>9 DEF delete_status, Restrict
  <2> QED
    BY <2>1, Zenon DEF FlightInv
<1>10. CASE Maintain
  <2>1. CASE \E r \in DOMAIN remote_status : remote_status' = delete_status(r)
    <3>1. pc' = "down"
      BY <1>10, Zenon DEF Maintain
    <3>2. pc' \notin Loop
      BY <3>1
    <3> QED
      BY <1>1, <1>9, <2>1, <3>1, <3>2, Zenon
  <2> QED
    BY <1>3, <1>10, <2>1, Zenon DEF Maintain, loopVars
<1>11. ASSUME NEW r \in work, reconcile_one(r)
       PROVE  FlightInv'
  <2>1. CASE PollJob(r)
    <3>1. /\ pc = "reconcile" /\ UNCHANGED <<pc, config>>
          /\ remote_status' = remote_status \/ remote_status' = update_status(r, "InProgress")
      BY <1>11, <2>1, Zenon DEF reconcile_one, PollJob, PassOver, dbVars
    <3>2. pc' \notin Loop /\ pc # "down"
      BY <3>1
    <3>3. CASE remote_status' = remote_status
      BY <1>2, <3>1, <3>2, <3>3, Zenon
    <3>4. CASE remote_status' = update_status(r, "InProgress")
      <4>1. /\ DOMAIN remote_status' = DOMAIN remote_status
            /\ \A s \in DOMAIN remote_status :
                 remote_status'[s] = remote_status[s] \/ remote_status'[s] = "InProgress"
        BY <3>4 DEF update_status
      <4>2. \A s \in DOMAIN remote_status' : remote_status'[s] \in {"Requested", "InProgress"}
        BY <4>1, Zenon DEF FlightInv
      <4> QED
        BY <1>1, <3>1, <3>2, <4>1, <4>2, Zenon
    <3> QED
      BY <3>1, <3>3, <3>4, Zenon
  <2>2. CASE ~PollJob(r)
    <3>1. /\ pc = "reconcile" /\ remote_status' = remote_status
          /\ pc' = "down" \/ (pc' = "removing" /\ config' = config)
      BY <1>11, <2>2, Zenon
      DEF reconcile_one, handle_completed, discard_submission, Terminal, Halt, dbVars
    <3>2. pc' \notin Loop /\ pc # "down"
      BY <3>1
    <3> QED
      BY <1>2, <3>1, <3>2, Zenon
  <2> QED
    BY <2>1, <2>2, Zenon
<1>12. CASE Tick \/ ScheduleDone
  <2>1. /\ remote_status' = remote_status /\ config' = config
        /\ pc \in {"idle", "schedule"} /\ pc' \in {"idle", "reconcile"}
    BY <1>12, Zenon DEF Tick, ScheduleDone, dbVars
  <2>2. pc' \notin Loop /\ pc # "down"
    BY <2>1
  <2> QED
    BY <1>2, <2>1, <2>2, Zenon
<1>13. CASE RemoveStatus
  <2>1. /\ remote_status' = delete_status(cur[2]) /\ config' = config
        /\ pc = "removing" /\ pc' = "reconcile"
    BY <1>13, Zenon DEF RemoveStatus
  <2>2. pc' \notin Loop /\ pc # "down"
    BY <2>1
  <2> QED
    BY <1>1, <1>9, <2>1, <2>2, Zenon
<1>14. CASE GenerateTick
  BY <1>4, <1>14, Zenon DEF GenerateTick
<1>15. CASE SkipProof \/ DeferProof \/ SubmitFails
  BY <1>3, <1>15, Zenon DEF SkipProof, DeferProof, SubmitFails, Dequeued, dbVars
<1>16. CASE SubmitProof \/ MapRemote
  <2>1. /\ UNCHANGED <<remote_status, capacity, config>>
        /\ pc \in {"schedule", "mapping"} /\ pc' \in {"mapping", "recording"}
    BY <1>16, Zenon DEF SubmitProof, MapRemote, Scheduling, loopVars
  <2>2. capacity > 0
    BY <1>16, Zenon DEF SubmitProof, MapRemote, Scheduling, FlightInv
  <2>3. pc \in Loop /\ pc # "down"
    BY <2>1
  <2>4. capacity \in Nat /\ OnRecord + capacity <= config.max_concurrent_proofs
    BY <2>3, Zenon DEF FlightInv
  <2> QED
    BY <2>1, <2>2, <2>3, <2>4, Zenon DEF FlightInv, OnRecord, Allowed
<1>17. CASE RecordStatus
  <2>1. /\ pc = "recording" /\ pc' = "schedule" /\ config' = config /\ capacity' = capacity - 1
        /\ cur[2] \notin DOMAIN remote_status
        /\ remote_status' = put_status(cur[2], "Requested")
    BY <1>17, Zenon DEF RecordStatus, can_put_status
  <2>2. /\ DOMAIN remote_status' = DOMAIN remote_status \cup {cur[2]}
        /\ \A s \in DOMAIN remote_status' :
             remote_status'[s] = "Requested" \/ (s \in DOMAIN remote_status /\ remote_status'[s] = remote_status[s])
    BY <2>1 DEF put_status
  <2>3. \A s \in DOMAIN remote_status' : remote_status'[s] \in {"Requested", "InProgress"}
    BY <2>2, Zenon DEF FlightInv
  <2>4. IsFiniteSet(DOMAIN remote_status') /\ OnRecord' = OnRecord + 1
    <3>1. IsFiniteSet(DOMAIN remote_status)
      BY Zenon DEF FlightInv
    <3> QED
      BY <2>1, <2>2, <3>1, FS_AddElement DEF OnRecord
  <2>5. OnRecord \in Nat
    BY RecordedInProgress, Zenon
  <2>6. /\ capacity \in Nat /\ capacity > 0
        /\ OnRecord + capacity <= config.max_concurrent_proofs
    BY <2>1, Zenon DEF FlightInv
  <2>7. pc # "down" /\ config.max_concurrent_proofs \in Nat
    BY <2>1, Limit
  <2>8. /\ capacity' \in Nat /\ OnRecord' + capacity' <= config.max_concurrent_proofs
        /\ OnRecord' \in Nat /\ OnRecord' <= config.max_concurrent_proofs
    BY <2>1, <2>4, <2>5, <2>6, <2>7
  <2>9. Allowed(OnRecord')
    BY <2>7, <2>8, Limit, Zenon
  <2>10. pc' \notin {"mapping", "recording"}
    BY <2>1
  <2> QED
    BY <2>1, <2>3, <2>4, <2>7, <2>8, <2>9, <2>10, Zenon DEF FlightInv, Allowed
<1>18. CASE FollowTick
  <2>1. /\ pc = "reconcile"
        /\ \/ schedule_proofs
           \/ pc' \in {"fetch", "idle"} /\ UNCHANGED <<remote_status, config>>
    BY <1>18, Zenon DEF FollowTick, dbVars
  <2>2. CASE pc' \in {"fetch", "idle"} /\ UNCHANGED <<remote_status, config>>
    <3>1. pc' \notin Loop /\ pc # "down"
      BY <2>1, <2>2
    <3> QED
      BY <1>2, <2>2, <3>1, Zenon
  <2> QED
    BY <1>4, <2>1, <2>2, Zenon
<1>19. CASE FetchSkips \/ FetchReceipt \/ FetchDone
  <2>1. /\ pc = "fetch" /\ pc' \in {"fetch", "idle"} /\ UNCHANGED <<remote_status, config>>
    BY <1>19, Zenon
    DEF FetchSkips, FetchReceipt, FetchDone, Fetching, EndFetch, Dequeued, dbVars
  <2>2. pc' \notin Loop /\ pc # "down"
    BY <2>1
  <2> QED
    BY <1>2, <2>1, <2>2, Zenon
<1>20. CASE UNCHANGED vars
  BY <1>3, <1>20, Zenon DEF vars, dbVars, loopVars
<1> QED
  BY <1>5, <1>6, <1>7, <1>8, <1>10, <1>11, <1>12, <1>13, <1>14, <1>15, <1>16, <1>17, <1>18, <1>19,
     <1>20, ZenonT(60) DEF Next, TickStep

-----------------------------------------------------------------------------
(***************************************************************************)
(* Theorems.                                                               *)
(***************************************************************************)
IInv == ChainInv /\ QueueInv /\ StoreInv /\ RecordsInv /\ JobsInv /\ FrontierInv /\ FlightInv

\* An empty database and a service that is down.
LEMMA InitIInv == Init => IInv
<1> SUFFICES ASSUME Init PROVE IInv
  OBVIOUS
<1>0. /\ DOMAIN proofs = {} /\ DOMAIN remote_to_proof = {} /\ DOMAIN remote_status = {}
      /\ DOMAIN jobs = {}
  BY DEF Init
<1>1. ChainInv
  <2>1. committed = {Genesis} /\ inbox = <<>>
    BY DEF Init
  <2>2. KeysBounded({}) /\ Genesis \in Block /\ {} \subseteq Block
    <3>1. 0 \in Nat
      OBVIOUS
    <3> QED
      BY <3>1, TreeAssumption, Zenon DEF KeysBounded
  <2>3. KeysBounded({} \cup {Genesis})
    BY <2>2, KeysBoundedAdd, Zenon
  <2>4. {} \cup {Genesis} = {Genesis} /\ inbox \in Seq(ProvableBlock)
    BY <2>1
  <2> QED
    BY <2>1, <2>2, <2>3, <2>4 DEF ChainInv
<1>2. QueueInv
  BY DEF Init, QueueInv
<1>3. StoreInv
  <2>1. StoredBlocks = {} /\ 0 \in Nat
    BY <1>0 DEF StoredBlocks
  <2>2. KeysBounded(StoredBlocks)
    BY <2>1, Zenon DEF KeysBounded
  <2> QED
    BY <1>0, <2>2, Zenon DEF StoreInv, StoredProofsAttest
<1>4. RecordsInv
  <2>1. pc = "down" /\ work = {}
    BY DEF Init
  <2> QED
    BY <1>0, <2>1 DEF RecordsInv
<1>5. JobsInv
  BY <1>0, Zenon DEF JobsInv
<1>6. FrontierInv
  BY DEF Init, FrontierInv
<1>7. FlightInv
  <2>1. pc = "down"
    BY DEF Init
  <2> QED
    BY <1>0, <2>1, FS_EmptySet DEF FlightInv
<1> QED
  BY <1>1, <1>2, <1>3, <1>4, <1>5, <1>6, <1>7, Zenon DEF IInv

\* The conjuncts support one another: what is queued and on record names proofs,
\* so what is stored attests, so what is submitted composes.
LEMMA IInvStep == IInv /\ [Next]_vars => IInv'
<1> SUFFICES ASSUME IInv, [Next]_vars PROVE IInv'
  BY Zenon
<1>0. ChainInv /\ QueueInv /\ StoreInv /\ RecordsInv /\ JobsInv /\ FrontierInv /\ FlightInv
  BY Zenon DEF IInv
<1>1. ChainInv'
  BY <1>0, ChainStep, Zenon
<1>2. QueueInv'
  BY <1>0, QueueStep, Zenon
<1>3. StoreInv'
  BY <1>0, StoreStep, Zenon
<1>4. RecordsInv'
  BY <1>0, RecordsStep, Zenon
<1>5. JobsInv'
  BY <1>0, JobsStep, Zenon
<1>6. FrontierInv'
  BY <1>0, <1>3, FrontierStep, Zenon
<1>7. FlightInv'
  BY <1>0, FlightStep, Zenon
<1> QED
  BY <1>1, <1>2, <1>3, <1>4, <1>5, <1>6, <1>7, Zenon DEF IInv

\* The invariant holds of every behaviour of the prover worker.
THEOREM Invariance == Spec => []IInv
<1>1. Init => IInv
  BY InitIInv
<1>2. IInv /\ [Next]_vars => IInv'
  BY IInvStep
<1> QED
  BY <1>1, <1>2, PTL DEF Spec

\* Whatever provers and peers return, a stored proof is a proof of its own block
\* (ProofVerifier::verify).
THEOREM Attest == Spec => []StoredProofsAttest
<1>1. IInv => StoredProofsAttest
  BY Zenon DEF IInv, StoreInv
<1> QED
  BY <1>1, Invariance, PTL

\* A submitted job that runs as its program says yields a receipt that verifies,
\* whatever was stored, pruned or lost before (InputBuilder, schedule_with).
THEOREM Composes == Spec => []RecursionComposes
<1>1. IInv => RecursionComposes
  BY Zenon DEF IInv, RecordsInv, JobsInv, RecursionComposes
<1> QED
  BY <1>1, Invariance, PTL

\* Between ticks the reported frontier is a highest block with a stored Moho
\* proof (advance_proven, get_latest_moho).
THEOREM Frontier == Spec => []FrontierBacked
<1>1. IInv => FrontierBacked
  <2> SUFFICES ASSUME IInv, pc \in {"idle", "reconcile", "schedule"}
               PROVE  IF last_proven = None
                      THEN \A b \in ProvableBlock : ~proof_exists(Moho(b))
                      ELSE /\ proof_exists(Moho(last_proven))
                           /\ \A b \in ProvableBlock :
                                proof_exists(Moho(b)) => Height[b] <= Height[last_proven]
    BY Zenon DEF FrontierBacked
  <2>1. pc # "down" /\ pc # "fetch"
    OBVIOUS
  <2>2. FrontierInv /\ Counted = DOMAIN proofs
    BY <2>1, Zenon DEF IInv, FrontierInv, Counted
  <2> QED
    BY <2>1, <2>2, Zenon DEF FrontierInv, proof_exists
<1> QED
  BY <1>1, Invariance, PTL

\* The jobs on record never exceed the largest limit of a configuration that
\* starts (schedule_proofs).
THEOREM Bounded == Spec => []InFlightBounded
<1>1. IInv => InFlightBounded
  BY RecordedInProgress, Zenon DEF IInv, FlightInv, InFlightBounded, OnRecord, Allowed
<1> QED
  BY <1>1, Invariance, PTL

-----------------------------------------------------------------------------
(***************************************************************************)
(* Retries.  A proof is submitted again only when its submission or its    *)
(* receipt was lost, and every loss is paid for by a fault of its own: a   *)
(* failed job pays when it fails and spends that when it is discarded.     *)
(***************************************************************************)
JobsOf(p) == {r \in DOMAIN jobs : r[1] = p}

\* Failed jobs on record, each of which makes the pass forget a submission once.
FailedOf(p) ==
  {r \in DOMAIN remote_status :
     r[1] = p /\ jobs[r].status = "Failed" /\ ~(pc = "removing" /\ cur[2] = r)}

WithinFaults(p) ==
  Cardinality(JobsOf(p)) + Cardinality(FailedOf(p)) <= faults + (IF Pending(p) THEN 0 ELSE 1)

RetryInv ==
  /\ faults \in Nat /\ faults <= MaxFaults
  /\ IsFiniteSet(DOMAIN jobs) /\ DOMAIN jobs \subseteq Job
  /\ \A p \in ProofId : {r[2] : r \in JobsOf(p)} = 1 .. Cardinality(JobsOf(p))
  /\ \A p \in ProofId : WithinFaults(p)
  /\ pc \in {"mapping", "recording"} => jobs[cur[2]].status = "Requested"

\* The jobs of p and the failed ones among them are finite.
LEMMA JobsFinite ==
  ASSUME FlightInv, RetryInv, NEW p
  PROVE  /\ IsFiniteSet(JobsOf(p)) /\ Cardinality(JobsOf(p)) \in Nat
         /\ IsFiniteSet(FailedOf(p)) /\ Cardinality(FailedOf(p)) \in Nat
<1>1. JobsOf(p) \subseteq DOMAIN jobs /\ FailedOf(p) \subseteq DOMAIN remote_status
  BY Zenon DEF JobsOf, FailedOf
<1>2. IsFiniteSet(JobsOf(p)) /\ IsFiniteSet(FailedOf(p))
  BY <1>1, FS_Subset, Zenon DEF FlightInv, RetryInv
<1> QED
  BY <1>2, FS_CardinalityType, Zenon

\* A step that adds no job keeps p within its faults: nothing is lost, or a fault
\* pays for what is lost or for a job that failed, or a failed job is spent.
LEMMA Paid ==
  ASSUME FlightInv, RetryInv, NEW p \in ProofId,
         JobsOf(p)' = JobsOf(p), faults' \in Nat, faults' >= faults,
         \/ FailedOf(p)' \subseteq FailedOf(p) /\ (Pending(p)' => Pending(p))
         \/ faults' = faults + 1 /\ FailedOf(p)' \subseteq FailedOf(p)
         \/ /\ faults' = faults + 1 /\ (Pending(p)' => Pending(p))
            /\ \E r : FailedOf(p)' \subseteq FailedOf(p) \cup {r}
         \/ \E r \in FailedOf(p) : FailedOf(p)' \subseteq FailedOf(p) \ {r}
  PROVE  WithinFaults(p)'
<1> DEFINE F == FailedOf(p)
           G == FailedOf(p)'
           n == Cardinality(JobsOf(p))
           c == IF Pending(p) THEN 0 ELSE 1
           d == IF Pending(p)' THEN 0 ELSE 1
<1>1. IsFiniteSet(F) /\ Cardinality(F) \in Nat /\ n \in Nat
  BY JobsFinite, Zenon
<1>2. n + Cardinality(F) <= faults + c /\ faults \in Nat
  BY Zenon DEF RetryInv, WithinFaults
<1>3. c \in {0, 1} /\ d \in {0, 1} /\ ((Pending(p)' => Pending(p)) => d >= c)
  BY SMT
<1>4. SUFFICES n + Cardinality(G) <= faults' + d
  BY Zenon DEF WithinFaults
<1> HIDE DEF F, G, n, c, d
<1>5. ASSUME G \subseteq F PROVE Cardinality(G) \in Nat /\ Cardinality(G) <= Cardinality(F)
  BY <1>1, <1>5, FS_Subset, FS_CardinalityType, Zenon
<1>6. CASE G \subseteq F /\ (Pending(p)' => Pending(p))
  BY <1>1, <1>2, <1>3, <1>5, <1>6, SMTT(60)
<1>7. CASE faults' = faults + 1 /\ G \subseteq F
  BY <1>1, <1>2, <1>3, <1>5, <1>7, SMTT(60)
<1>8. CASE faults' = faults + 1 /\ (Pending(p)' => Pending(p)) /\ \E r : G \subseteq F \cup {r}
  <2>1. PICK r : G \subseteq F \cup {r}
    BY <1>8, Zenon
  <2>2. IsFiniteSet(F \cup {r}) /\ Cardinality(F \cup {r}) \in {Cardinality(F), Cardinality(F) + 1}
    BY <1>1, FS_AddElement, Zenon
  <2>3. Cardinality(G) \in Nat /\ Cardinality(G) <= Cardinality(F \cup {r})
    BY <2>1, <2>2, FS_Subset, FS_CardinalityType, Zenon
  <2> QED
    BY <1>1, <1>2, <1>3, <1>8, <2>2, <2>3
<1>9. CASE \E r \in F : G \subseteq F \ {r}
  <2>1. PICK r \in F : G \subseteq F \ {r}
    BY <1>9, Zenon
  <2>2. IsFiniteSet(F \ {r}) /\ Cardinality(F \ {r}) = Cardinality(F) - 1
    BY <1>1, FS_RemoveElement, Zenon
  <2>3. Cardinality(G) \in Nat /\ Cardinality(G) <= Cardinality(F \ {r})
    BY <2>1, <2>2, FS_Subset, FS_CardinalityType, Zenon
  <2> QED
    BY <1>1, <1>2, <1>3, <2>2, <2>3
<1> QED
  BY <1>6, <1>7, <1>8, <1>9, Zenon DEF F, G

\* A step that starts no job, once every proof is within its faults.
LEMMA NoNewJob ==
  ASSUME RetryInv, DOMAIN jobs' = DOMAIN jobs, NoFault \/ Fault,
         pc' \in {"mapping", "recording"} => jobs'[cur'[2]].status = "Requested",
         \A p \in ProofId : faults' \in Nat /\ faults' >= faults /\ JobsOf(p)' = JobsOf(p) => WithinFaults(p)'
  PROVE  RetryInv'
<1>1. faults' \in Nat /\ faults' <= MaxFaults /\ faults' >= faults
  BY JobAssumption DEF RetryInv, NoFault, Fault
<1>2. \A p : JobsOf(p)' = JobsOf(p)
  BY Zenon DEF JobsOf
<1> QED
  BY <1>1, <1>2, ZenonT(60) DEF RetryInv

\* A job taken off the record, or a pass that stands at the same job, leaves no
\* new failed job.
LEMMA FailedShrinks ==
  ASSUME DOMAIN remote_status' \subseteq DOMAIN remote_status, jobs' = jobs,
         pc = "removing" => (pc' = "removing" /\ cur' = cur) \/ cur[2] \notin DOMAIN remote_status',
         NEW p
  PROVE  FailedOf(p)' \subseteq FailedOf(p)
BY Zenon DEF FailedOf

\* Steps that lose nothing.
LEMMA NothingLost ==
  ASSUME FlightInv, RetryInv,
         jobs' = jobs, proof_to_remote' = proof_to_remote,
         DOMAIN proofs \subseteq DOMAIN proofs',
         DOMAIN remote_status' \subseteq DOMAIN remote_status, NoFault \/ Fault,
         pc = "removing" => (pc' = "removing" /\ cur' = cur) \/ cur[2] \notin DOMAIN remote_status',
         pc' \in {"mapping", "recording"} => pc \in {"mapping", "recording"} /\ cur' = cur
  PROVE  RetryInv'
<1>1. ASSUME NEW p \in ProofId, faults' \in Nat, faults' >= faults, JobsOf(p)' = JobsOf(p)
      PROVE  WithinFaults(p)'
  <2>1. Pending(p)' => Pending(p)
    BY Zenon DEF Pending, proof_exists, get_remote
  <2>2. FailedOf(p)' \subseteq FailedOf(p)
    BY FailedShrinks, Zenon
  <2> QED
    BY <1>1, <2>1, <2>2, Paid, Zenon
<1>2. pc' \in {"mapping", "recording"} => jobs'[cur'[2]].status = "Requested"
  BY Zenon DEF RetryInv
<1> QED
  BY <1>1, <1>2, NoNewJob, Zenon

\* The expected receipt verifies.
LEMMA ExpectedVerifies ==
  \A p : verify(expected_attestation(p), expected_attestation(p))
<1> SUFFICES ASSUME NEW p PROVE verify(expected_attestation(p), expected_attestation(p))
  OBVIOUS
<1>1. expected_attestation(p).recursed_under \in {None, MohoPredicate}
  BY Zenon DEF expected_attestation, Attests
<1> QED
  BY <1>1, Zenon DEF verify

\* The job's receipt is the expected one unless something went wrong, so a receipt
\* that does not verify is a fault.
LEMMA BadReceiptIsFault ==
  ASSUME JobsInv, NEW r \in DOMAIN jobs, NEW receipt,
         IF receipt = JobOutput(r[1], jobs[r].input) THEN NoFault ELSE Fault,
         ~verify(receipt, expected_attestation(r[1]))
  PROVE  Fault
BY ExpectedVerifies, Zenon DEF JobsInv

\* A submission is forgotten: a fault pays, or the failed job it was made for.
LEMMA Discarded ==
  ASSUME FlightInv, RecordsInv, RetryInv, pc = "reconcile",
         NEW r \in work, discard_submission(r),
         Fault \/ (NoFault /\ jobs[r].status = "Failed")
  PROVE  RetryInv'
<1>1. get_local(r) = r[1] /\ r \in DOMAIN remote_status
  BY LocalProof, Zenon
<1>2. /\ proof_to_remote' = clear_remote_submission(r[1])
      /\ pc' = "removing" /\ cur' = <<r[1], r>>
      /\ UNCHANGED <<proofs, remote_status, jobs>>
  BY <1>1, Zenon DEF discard_submission
<1>3. cur'[2] = r /\ pc' \notin {"mapping", "recording"} /\ pc # "removing"
  BY <1>2
<1>4. \A q : q # r[1] => (Pending(q)' => Pending(q))
  <2>1. \A q : q # r[1] => /\ q \in DOMAIN proof_to_remote' <=> q \in DOMAIN proof_to_remote
                           /\ q \in DOMAIN proof_to_remote => proof_to_remote'[q] = proof_to_remote[q]
    BY <1>2 DEF clear_remote_submission, Restrict
  <2> QED
    BY <1>2, <2>1, ZenonT(60) DEF Pending, proof_exists, get_remote
<1>5. \A q : FailedOf(q)' \subseteq FailedOf(q) /\ r \notin FailedOf(q)'
  BY <1>2, <1>3, Zenon DEF FailedOf
<1>6. ASSUME NEW q \in ProofId, faults' \in Nat, faults' >= faults, JobsOf(q)' = JobsOf(q)
      PROVE  WithinFaults(q)'
  <2>1. CASE Fault
    BY <1>5, <1>6, <2>1, Paid, Zenon DEF Fault
  <2>2. CASE q # r[1]
    BY <1>4, <1>5, <1>6, <2>2, Paid, Zenon
  <2>3. CASE q = r[1] /\ jobs[r].status = "Failed"
    <3>1. r \in FailedOf(q)
      BY <1>1, <1>3, <2>3, Zenon DEF FailedOf
    <3>2. FailedOf(q)' \subseteq FailedOf(q) \ {r}
      BY <1>5, Zenon
    <3> QED
      BY <1>6, <3>1, <3>2, Paid, Zenon
  <2> QED
    BY <2>1, <2>2, <2>3, Zenon
<1> QED
  BY <1>2, <1>3, <1>6, NoNewJob, Zenon

\* A proof without a submission and without a receipt gets its next job.
LEMMA Submitted ==
  ASSUME QueueInv, RecordsInv, FlightInv, RetryInv, SubmitProof
  PROVE  RetryInv'
<1>1. PICK p \in ProofId : p = Next_in_queue
  BY DequeuedFromQueue, Zenon DEF SubmitProof, Scheduling, QueueInv
<1> DEFINE n == Cardinality(JobsOf(p))
           r == <<p, 1 + n>>
<1>2. /\ jobs' = [s \in DOMAIN jobs \cup {r} |->
                   IF s = r THEN [status |-> "Requested", input |-> RuntimeInput(p)] ELSE jobs[s]]
      /\ proof_to_remote' = put_forward(p, r)
      /\ UNCHANGED <<proofs, remote_status, faults>>
      /\ pc = "schedule" /\ pc' = "mapping" /\ cur' = <<p, r>> /\ Pending(p)
  BY <1>1, Zenon DEF SubmitProof, JobsOf, Scheduling
<1>3. r[1] = p /\ r[2] = 1 + n
  OBVIOUS
<1>4. n \in Nat /\ IsFiniteSet(JobsOf(p)) /\ Cardinality(FailedOf(p)) \in Nat
  BY JobsFinite, Zenon
<1>5. n + Cardinality(FailedOf(p)) <= faults /\ faults <= MaxFaults /\ faults \in Nat
  <2>1. n + Cardinality(FailedOf(p)) <= faults + 0 /\ faults <= MaxFaults /\ faults \in Nat
    BY <1>1, <1>2, Zenon DEF RetryInv, WithinFaults
  <2> QED
    BY <2>1
<1>6. r \in Job /\ r # None
  <2>1. 1 + n \in 1 .. MaxFaults + 1
    BY <1>4, <1>5, JobAssumption
  <2> QED
    BY <1>1, <2>1, JobAssumption DEF Job
<1>7. r \notin DOMAIN jobs
  <2>1. 1 + n \notin 1 .. n
    BY <1>4
  <2>2. {s[2] : s \in JobsOf(p)} = 1 .. n
    BY <1>1, Zenon DEF RetryInv
  <2> QED
    BY <1>3, <2>1, <2>2, Zenon DEF JobsOf
<1> HIDE DEF n, r
<1>8. /\ DOMAIN jobs' = DOMAIN jobs \cup {r} /\ jobs'[r].status = "Requested"
      /\ \A s \in DOMAIN jobs : jobs'[s] = jobs[s]
  BY <1>2, <1>7
<1>9. /\ JobsOf(p)' = JobsOf(p) \cup {r}
      /\ \A q : q # p => JobsOf(q)' = JobsOf(q)
  <2>1. \A q, s : s \in JobsOf(q)' <=> s \in JobsOf(q) \/ (s = r /\ q = p)
    BY <1>3, <1>8, Zenon DEF JobsOf
  <2>2. \A s : s \in JobsOf(p)' <=> s \in JobsOf(p) \cup {r}
    BY <2>1, Zenon
  <2>3. ASSUME NEW q, q # p PROVE JobsOf(q)' = JobsOf(q)
    <3>1. \A s : s \in JobsOf(q)' <=> s \in JobsOf(q)
      BY <2>1, <2>3, Zenon
    <3> QED
      BY <3>1, Zenon
  <2> QED
    BY <2>2, <2>3, Zenon
<1>10. Cardinality(JobsOf(p)') = n + 1
  <2>1. r \notin JobsOf(p)
    BY <1>7, Zenon DEF JobsOf
  <2> QED
    BY <1>4, <1>9, <2>1, FS_AddElement, ZenonT(60) DEF n
<1>11. \A q : FailedOf(q)' = FailedOf(q)
  <2>1. pc # "removing" /\ pc' # "removing"
    BY <1>2
  <2>2. \A s \in DOMAIN remote_status : s \in DOMAIN jobs
    BY Zenon DEF RecordsInv
  <2> QED
    BY <1>2, <1>8, <2>1, <2>2, Zenon DEF FailedOf
<1>12. ~Pending(p)' /\ \A q : q # p => (Pending(q)' <=> Pending(q))
  <2>1. /\ p \in DOMAIN proof_to_remote' /\ proof_to_remote'[p] = r
        /\ \A q : q # p => /\ q \in DOMAIN proof_to_remote' <=> q \in DOMAIN proof_to_remote
                           /\ q \in DOMAIN proof_to_remote => proof_to_remote'[q] = proof_to_remote[q]
    BY <1>2 DEF put_forward
  <2> QED
    BY <1>2, <1>6, <2>1, ZenonT(60) DEF Pending, proof_exists, get_remote
<1>13. \A q \in ProofId : WithinFaults(q)'
  <2>1. WithinFaults(p)'
    <3>1. (n + 1) + Cardinality(FailedOf(p)) <= faults + 1
      BY <1>4, <1>5
    <3> QED
      BY <1>2, <1>10, <1>11, <1>12, <3>1, Zenon DEF WithinFaults
  <2>2. ASSUME NEW q \in ProofId, q # p PROVE WithinFaults(q)'
    BY <1>2, <1>9, <1>11, <1>12, <2>2, Zenon DEF RetryInv, WithinFaults
  <2> QED
    BY <2>1, <2>2, Zenon
<1>14. \A q \in ProofId : {s[2] : s \in JobsOf(q)'} = 1 .. Cardinality(JobsOf(q)')
  <2>1. {s[2] : s \in JobsOf(p)'} = 1 .. (n + 1)
    <3>1. {s[2] : s \in JobsOf(p)} = 1 .. n
      BY <1>1, Zenon DEF RetryInv, n
    <3>2. {s[2] : s \in JobsOf(p)'} = 1 .. n \cup {1 + n}
      BY <1>3, <1>9, <3>1, Zenon
    <3> QED
      BY <1>4, <3>2
  <2> QED
    BY <1>9, <1>10, <2>1, Zenon DEF RetryInv
<1>15. IsFiniteSet(DOMAIN jobs') /\ DOMAIN jobs' \subseteq Job
  BY <1>6, <1>8, FS_AddElement, ZenonT(60) DEF RetryInv
<1>16. jobs'[cur'[2]].status = "Requested"
  <2>1. cur'[2] = r
    BY <1>2
  <2> QED
    BY <1>8, <2>1, Zenon
<1> QED
  BY <1>2, <1>5, <1>13, <1>14, <1>15, <1>16, ZenonT(60) DEF RetryInv

\* Every step keeps the books: a fault is on account before a submission is
\* forgotten, and a job is started only for a proof without one.
LEMMA RetryStep ==
  ASSUME QueueInv, RecordsInv, JobsInv, FlightInv, RetryInv, [Next]_vars
  PROVE  RetryInv'
<1>1. ASSUME UNCHANGED <<jobs, proof_to_remote, remote_status>>, DOMAIN proofs \subseteq DOMAIN proofs',
             NoFault \/ Fault, pc # "removing" \/ (pc' = pc /\ cur' = cur),
             pc' \in {"down", "idle", "reconcile", "removing", "schedule", "fetch"}
             \/ (pc' = pc /\ cur' = cur) \/ (pc = "mapping" /\ cur' = cur)
      PROVE  RetryInv'
  <2>1. DOMAIN remote_status' \subseteq DOMAIN remote_status
    BY <1>1, Zenon
  <2>2. pc' \in {"mapping", "recording"} => pc \in {"mapping", "recording"} /\ cur' = cur
    BY <1>1
  <2>3. pc = "removing" => pc' = "removing" /\ cur' = cur
    BY <1>1, Zenon
  <2> QED
    BY <1>1, <2>1, <2>2, <2>3, NothingLost, Zenon
<1>2. ASSUME Fault, DOMAIN jobs' = DOMAIN jobs, pc' \notin {"mapping", "recording"},
             \A p \in ProofId : FailedOf(p)' \subseteq FailedOf(p)
      PROVE  RetryInv'
  <2>1. faults' = faults + 1
    BY <1>2, Zenon DEF Fault
  <2> QED
    BY <1>2, <2>1, Paid, NoNewJob, Zenon
<1>3. CASE \E c \in Configs : Launch(c)
  <2>1. pc = "down" /\ UNCHANGED <<dbVars, jobs, faults>> /\ pc' = "idle"
    BY <1>3, Zenon DEF Launch
  <2>2. pc # "removing"
    BY <2>1
  <2> QED
    BY <1>1, <2>1, <2>2, Zenon DEF NoFault, dbVars
<1>4. CASE Kill
  <2>1. Fault /\ UNCHANGED <<proofs, proof_to_remote, remote_status, jobs>> /\ pc' = "down"
    BY <1>4, Zenon DEF Kill, Halt, dbVars
  <2>2. \A p : FailedOf(p)' \subseteq FailedOf(p) \cup {cur[2]}
    BY <2>1, Zenon DEF FailedOf
  <2>3. \A p : Pending(p)' => Pending(p)
    BY <2>1, Zenon DEF Pending, proof_exists, get_remote
  <2>4. pc' \notin {"mapping", "recording"} /\ faults' = faults + 1
    BY <2>1 DEF Fault
  <2>5. ASSUME NEW p \in ProofId, faults' \in Nat, faults' >= faults, JobsOf(p)' = JobsOf(p)
        PROVE  WithinFaults(p)'
    BY <2>2, <2>3, <2>4, <2>5, Paid, Zenon
  <2> QED
    BY <2>1, <2>4, <2>5, NoNewJob, Zenon
<1>5. CASE Deliver \/ \E b \in ProvableBlock : CommitBlock(b)
  <2>1. UNCHANGED <<dbVars, jobs, pc, cur>> /\ (NoFault \/ Fault)
    BY <1>5, Zenon DEF Deliver, CommitBlock, loopVars, NoFault
  <2> QED
    BY <1>1, <2>1, Zenon DEF dbVars
<1>6. ASSUME NEW r \in DOMAIN jobs, NEW s, jobs' = [jobs EXCEPT ![r].status = s],
             pc = "reconcile", pc' = pc, UNCHANGED dbVars,
             (s # "Failed" /\ NoFault) \/ Fault
      PROVE  RetryInv'
  <2>1. /\ DOMAIN jobs' = DOMAIN jobs /\ jobs'[r].status = s
        /\ \A x \in DOMAIN jobs : x # r => jobs'[x] = jobs[x]
    <3>1. jobs[r] = [status |-> jobs[r].status, input |-> jobs[r].input]
      BY Zenon DEF JobsInv
    <3> QED
      BY <1>6, <3>1
  <2>2. \A x \in DOMAIN remote_status : x \in DOMAIN jobs
    BY Zenon DEF RecordsInv
  <2>3. \A p : Pending(p)' => Pending(p)
    BY <1>6, Zenon DEF Pending, proof_exists, get_remote, dbVars
  <2>4. pc # "removing" /\ pc' \notin {"mapping", "recording", "removing"}
    BY <1>6
  <2>5. remote_status' = remote_status
    BY <1>6, Zenon DEF dbVars
  <2>6. \A p : FailedOf(p)' \subseteq FailedOf(p) \cup {r}
    BY <2>1, <2>2, <2>4, <2>5, Zenon DEF FailedOf
  <2>7. s # "Failed" => \A p : FailedOf(p)' \subseteq FailedOf(p)
    BY <2>1, <2>2, <2>4, <2>5, Zenon DEF FailedOf
  <2>8. ASSUME NEW p \in ProofId, faults' \in Nat, faults' >= faults, JobsOf(p)' = JobsOf(p)
        PROVE  WithinFaults(p)'
    <3>1. CASE Fault
      <4>1. faults' = faults + 1
        BY <3>1, Zenon DEF Fault
      <4> QED
        BY <2>3, <2>6, <2>8, <4>1, Paid, Zenon
    <3>2. CASE s # "Failed"
      BY <2>3, <2>7, <2>8, <3>2, Paid, Zenon
    <3> QED
      BY <1>6, <3>1, <3>2, Zenon
  <2> QED
    BY <1>6, <2>1, <2>4, <2>8, NoNewJob, Zenon
<1>7. CASE \E r \in DOMAIN jobs : JobRuns(r) \/ JobFails(r)
  <2>1. ASSUME NEW r \in DOMAIN jobs, JobRuns(r)
        PROVE  RetryInv'
    <3>1. PICK s \in {"InProgress", "Completed"} : jobs' = [jobs EXCEPT ![r].status = s]
      BY <2>1, Zenon DEF JobRuns
    <3>2. s # "Failed"
      OBVIOUS
    <3> QED
      BY <1>6, <2>1, <3>1, <3>2, Zenon DEF JobRuns, NoFault
  <2>2. ASSUME NEW r \in DOMAIN jobs, JobFails(r)
        PROVE  RetryInv'
    BY <1>6, <2>2, Zenon DEF JobFails
  <2> QED
    BY <1>7, <2>1, <2>2, Zenon
<1>8. CASE Maintain
  <2>1. /\ Fault /\ jobs' = jobs /\ pc = "down" /\ pc' = pc
        /\ remote_status' = remote_status \/ \E r : remote_status' = delete_status(r)
    BY <1>8, Zenon DEF Maintain
  <2>2. DOMAIN remote_status' \subseteq DOMAIN remote_status
    BY <2>1, Zenon DEF delete_status, Restrict
  <2>3. pc' \notin {"mapping", "recording"} /\ pc # "removing"
    BY <2>1
  <2>4. \A p : FailedOf(p)' \subseteq FailedOf(p)
    BY <2>1, <2>2, <2>3, FailedShrinks, Zenon
  <2> QED
    BY <1>2, <2>1, <2>3, <2>4, Zenon
<1>9. ASSUME NEW r \in work, reconcile_one(r)
      PROVE  RetryInv'
  <2>0. pc = "reconcile" /\ pc # "removing"
    BY <1>9 DEF reconcile_one
  <2>1. CASE PollJob(r)
    <3>1. /\ UNCHANGED <<jobs, proofs, proof_to_remote, pc, cur>> /\ (NoFault \/ Fault)
          /\ remote_status' = remote_status \/ remote_status' = update_status(r, "InProgress")
      BY <2>1, Zenon DEF PollJob, PassOver, dbVars
    <3>2. DOMAIN remote_status' = DOMAIN remote_status
      BY <3>1 DEF update_status
    <3> QED
      BY <2>0, <3>1, <3>2, NothingLost, Zenon
  <2>2. CASE jobs[r].status = "Failed" /\ NoFault /\ discard_submission(r)
    BY <2>0, <2>2, Discarded, Zenon
  <2>3. CASE handle_completed(r)
    <3>1. get_local(r) = r[1] /\ r \in DOMAIN jobs
      BY LocalProof, Zenon DEF RecordsInv
    <3>2. CASE Terminal
      BY <1>1, <2>0, <3>2, Zenon DEF Terminal, Halt, dbVars
    <3>3. ASSUME NEW receipt \in Receipt,
                 IF receipt = JobOutput(r[1], jobs[r].input) THEN NoFault ELSE Fault,
                 ~verify(receipt, expected_attestation(r[1])), discard_submission(r)
          PROVE  RetryInv'
      <4>1. Fault
        BY <3>1, <3>3, BadReceiptIsFault, Zenon
      <4> QED
        BY <2>0, <3>3, <4>1, Discarded, Zenon
    <3>4. ASSUME NEW receipt \in Receipt, NoFault \/ Fault,
                 proofs' = store_completed_proof(r[1], receipt), pc' = "removing",
                 UNCHANGED <<proof_to_remote, remote_status, jobs>>
          PROVE  RetryInv'
      <4>1. DOMAIN proofs \subseteq DOMAIN proofs'
        BY <3>4 DEF store_completed_proof
      <4> QED
        BY <1>1, <2>0, <3>4, <4>1, Zenon
    <3> QED
      BY <2>3, <3>1, <3>2, <3>3, <3>4, Zenon DEF handle_completed
  <2> QED
    BY <1>9, <2>1, <2>2, <2>3, Zenon DEF reconcile_one
<1>10. CASE RemoveStatus
  <2>1. /\ UNCHANGED <<proofs, proof_to_remote, jobs, faults>> /\ pc' = "reconcile"
        /\ remote_status' = delete_status(cur[2])
    BY <1>10, Zenon DEF RemoveStatus
  <2>2. DOMAIN remote_status' \subseteq DOMAIN remote_status /\ cur[2] \notin DOMAIN remote_status'
    BY <2>1 DEF delete_status, Restrict
  <2>3. pc' \notin {"mapping", "recording"}
    BY <2>1
  <2> QED
    BY <2>1, <2>2, <2>3, NothingLost, Zenon DEF NoFault
<1>11. CASE Tick \/ GenerateTick \/ ScheduleDone
  <2>1. /\ UNCHANGED <<dbVars, jobs, faults>> /\ pc \in {"idle", "reconcile", "schedule"}
        /\ pc' \in {"idle", "reconcile", "schedule"}
    BY <1>11, Zenon DEF Tick, GenerateTick, schedule_proofs, ScheduleDone
  <2>2. pc # "removing"
    BY <2>1
  <2> QED
    BY <1>1, <2>1, <2>2, Zenon DEF NoFault, dbVars
<1>12. CASE SkipProof \/ DeferProof \/ SubmitFails \/ FetchSkips
  <2>1. UNCHANGED <<dbVars, jobs, pc, cur>> /\ (NoFault \/ Fault)
    BY <1>12, Zenon DEF SkipProof, DeferProof, SubmitFails, FetchSkips, Dequeued
  <2> QED
    BY <1>1, <2>1, Zenon DEF dbVars
<1>13. CASE UnknownArtifact
  <2>1. pc = "schedule" /\ UNCHANGED <<dbVars, jobs, faults>> /\ pc' = "down"
    BY <1>13, Zenon DEF UnknownArtifact, Scheduling, Terminal, Halt, NoFault
  <2>2. pc # "removing"
    BY <2>1
  <2> QED
    BY <1>1, <2>1, <2>2, Zenon DEF NoFault, dbVars
<1>14. CASE SubmitProof
  BY <1>14, Submitted, Zenon
<1>15. CASE MapRemote
  <2>1. pc = "mapping" /\ UNCHANGED <<proofs, proof_to_remote, remote_status, cur, jobs, faults>>
    BY <1>15, Zenon DEF MapRemote, loopVars
  <2>2. pc # "removing"
    BY <2>1
  <2> QED
    BY <1>1, <2>1, <2>2, Zenon DEF NoFault
<1>16. CASE RecordStatus
  <2>1. /\ UNCHANGED <<proofs, proof_to_remote, jobs, faults>> /\ pc = "recording" /\ pc' = "schedule"
        /\ remote_status' = put_status(cur[2], "Requested")
    BY <1>16, Zenon DEF RecordStatus
  <2>2. DOMAIN remote_status' = DOMAIN remote_status \cup {cur[2]}
    BY <2>1 DEF put_status
  <2>3. pc # "removing" /\ pc' \notin {"mapping", "recording", "removing"} /\ "Requested" # "Failed"
    BY <2>1
  <2>4. jobs[cur[2]].status # "Failed"
    <3>1. jobs[cur[2]].status = "Requested"
      BY <2>1, Zenon DEF RetryInv
    <3> QED
      BY <3>1
  <2>5. \A p : FailedOf(p)' \subseteq FailedOf(p)
    BY <2>1, <2>2, <2>3, <2>4, Zenon DEF FailedOf
  <2>6. \A p : Pending(p)' => Pending(p)
    BY <2>1, Zenon DEF Pending, proof_exists, get_remote
  <2>7. ASSUME NEW p \in ProofId, faults' \in Nat, faults' >= faults, JobsOf(p)' = JobsOf(p)
        PROVE  WithinFaults(p)'
    BY <2>5, <2>6, <2>7, Paid, Zenon
  <2> QED
    BY <2>1, <2>3, <2>7, NoNewJob, Zenon DEF NoFault
<1>17. CASE FollowTick
  <2>1. /\ UNCHANGED <<dbVars, jobs, faults>> /\ pc = "reconcile"
        /\ pc' \in {"fetch", "idle", "schedule"}
    BY <1>17, Zenon DEF FollowTick, schedule_proofs
  <2>2. pc # "removing"
    BY <2>1
  <2> QED
    BY <1>1, <2>1, <2>2, Zenon DEF NoFault, dbVars
<1>18. CASE FetchReceipt \/ FetchDone
  <2>1. /\ pc = "fetch" /\ pc' \in {"fetch", "idle"}
        /\ UNCHANGED <<proof_to_remote, remote_status, jobs, faults>>
        /\ proofs' = proofs \/ \E receipt : proofs' = store_completed_proof(Next_in_queue, receipt)
    BY <1>18, Zenon DEF FetchReceipt, FetchDone, Fetching, EndFetch, dbVars
  <2>2. pc # "removing"
    BY <2>1
  <2>3. DOMAIN proofs \subseteq DOMAIN proofs'
    BY <2>1 DEF store_completed_proof
  <2> QED
    BY <1>1, <2>1, <2>2, <2>3, Zenon DEF NoFault
<1>19. CASE UNCHANGED vars
  BY <1>1, <1>19, Zenon DEF vars, dbVars, loopVars, NoFault
<1> QED
  BY <1>3, <1>4, <1>5, <1>7, <1>8, <1>9, <1>10, <1>11, <1>12, <1>13, <1>14, <1>15, <1>16, <1>17,
     <1>18, <1>19, ZenonT(60) DEF Next, TickStep

\* A submission on record names a job of the remote prover.
SubmittedInv ==
  /\ DOMAIN proof_to_remote \subseteq ProofId
  /\ \A p \in DOMAIN proof_to_remote : proof_to_remote[p] \in DOMAIN jobs

\* What the running loop holds, it holds only while it runs.
LoopInv ==
  /\ pc \notin {"removing", "mapping", "recording"} => cur = None
  /\ pc \notin {"reconcile", "removing"} => work = {}
  /\ pc \notin {"schedule", "mapping", "recording", "fetch"} => parked = {}

\* What was announced is committed.
AnnouncedInv == inbox \in Seq(committed) /\ last_committed \in committed \cup {None}

\* Submissions are recorded for started jobs, and jobs are never withdrawn.
LEMMA SubmittedStep ==
  ASSUME QueueInv, SubmittedInv, [Next]_vars
  PROVE  SubmittedInv'
<1>1. ASSUME DOMAIN jobs \subseteq DOMAIN jobs',
             \/ proof_to_remote' = proof_to_remote
             \/ \E p : proof_to_remote' = clear_remote_submission(p)
      PROVE  SubmittedInv'
  <2>1. /\ DOMAIN proof_to_remote' \subseteq DOMAIN proof_to_remote
        /\ \A p \in DOMAIN proof_to_remote' : proof_to_remote'[p] = proof_to_remote[p]
    BY <1>1, Zenon DEF clear_remote_submission, Restrict
  <2> QED
    BY <1>1, <2>1, Zenon DEF SubmittedInv
<1>2. ASSUME jobs' = jobs, proof_to_remote' = proof_to_remote
      PROVE  SubmittedInv'
  BY <1>2, Zenon DEF SubmittedInv
<1>3. CASE (\E c \in Configs : Launch(c)) \/ Kill \/ Deliver \/ \E b \in ProvableBlock : CommitBlock(b)
  BY <1>2, <1>3, Zenon DEF Launch, Kill, Halt, Deliver, CommitBlock, dbVars
<1>4. ASSUME NEW r \in DOMAIN jobs, JobRuns(r) \/ JobFails(r)
      PROVE  SubmittedInv'
  <2>1. ASSUME NEW s, jobs' = [jobs EXCEPT ![r].status = s]
        PROVE  DOMAIN jobs \subseteq DOMAIN jobs'
    BY <2>1
  <2> QED
    BY <1>1, <1>4, <2>1, Zenon DEF JobRuns, JobFails, dbVars
<1>5. CASE Maintain
  BY <1>1, <1>5, Zenon DEF Maintain
<1>6. ASSUME NEW r \in work, reconcile_one(r)
      PROVE  SubmittedInv'
  <2>1. CASE PollJob(r)
    BY <1>2, <2>1, Zenon DEF PollJob, PassOver, dbVars
  <2>2. CASE discard_submission(r)
    BY <1>1, <2>2, Zenon DEF discard_submission
  <2>3. CASE handle_completed(r)
    BY <1>2, <2>2, <2>3, Zenon DEF handle_completed, Terminal, Halt, dbVars
  <2> QED
    BY <1>6, <2>1, <2>2, <2>3, Zenon DEF reconcile_one
<1>7. CASE Tick \/ RemoveStatus \/ GenerateTick \/ MapRemote \/ RecordStatus \/ ScheduleDone \/ FollowTick
  BY <1>2, <1>7, Zenon DEF Tick, RemoveStatus, GenerateTick, schedule_proofs, MapRemote, RecordStatus,
     ScheduleDone, FollowTick, dbVars
<1>8. CASE SkipProof \/ DeferProof \/ SubmitFails \/ UnknownArtifact
  BY <1>2, <1>8, Zenon DEF SkipProof, DeferProof, SubmitFails, UnknownArtifact, Dequeued, Terminal,
     Halt, dbVars
<1>9. CASE SubmitProof
  <2>1. PICK p \in ProofId : p = Next_in_queue
    BY <1>9, DequeuedFromQueue, Zenon DEF SubmitProof, Scheduling, QueueInv
  <2>2. PICK r : /\ jobs' = [s \in DOMAIN jobs \cup {r} |->
                       IF s = r THEN [status |-> "Requested", input |-> RuntimeInput(p)] ELSE jobs[s]]
                 /\ proof_to_remote' = put_forward(p, r)
    BY <1>9, <2>1, Zenon DEF SubmitProof
  <2>3. DOMAIN jobs' = DOMAIN jobs \cup {r}
    BY <2>2, SMTT(60)
  <2>4. /\ DOMAIN proof_to_remote' = DOMAIN proof_to_remote \cup {p} /\ proof_to_remote'[p] = r
        /\ \A q \in DOMAIN proof_to_remote : q # p => proof_to_remote'[q] = proof_to_remote[q]
    BY <2>2 DEF put_forward
  <2> QED
    BY <2>3, <2>4, Zenon DEF SubmittedInv
<1>10. CASE FetchSkips \/ FetchReceipt \/ FetchDone
  BY <1>2, <1>10, Zenon DEF FetchSkips, FetchReceipt, FetchDone, EndFetch, Dequeued, dbVars
<1>11. CASE UNCHANGED vars
  BY <1>2, <1>11, Zenon DEF vars, dbVars
<1> QED
  BY <1>3, <1>4, <1>5, <1>6, <1>7, <1>8, <1>9, <1>10, <1>11, ZenonT(60) DEF Next, TickStep

\* The loops leave nothing behind.
LEMMA LoopStep ==
  ASSUME LoopInv, [Next]_vars
  PROVE  LoopInv'
<1>1. ASSUME UNCHANGED <<pc, cur, work, parked>>
      PROVE  LoopInv'
  BY <1>1, Zenon DEF LoopInv
<1>2. ASSUME pc' \in {"idle", "down"}, cur' = None, work' = {}, parked' = {}
      PROVE  LoopInv'
  BY <1>2, Zenon DEF LoopInv
<1>3. CASE (\E c \in Configs : Launch(c)) \/ Kill \/ UnknownArtifact
  <2>1. CASE \E c \in Configs : Launch(c)
    <3>1. pc = "down" /\ pc' = "idle" /\ UNCHANGED <<cur, work, parked>>
      BY <2>1, Zenon DEF Launch, loopVars
    <3> QED
      BY <3>1 DEF LoopInv
  <2>2. CASE Kill \/ UnknownArtifact
    BY <1>2, <2>2, Zenon DEF Kill, UnknownArtifact, Terminal, Halt
  <2> QED
    BY <1>3, <2>1, <2>2, Zenon
<1>4. CASE \/ Deliver \/ Maintain \/ \E b \in ProvableBlock : CommitBlock(b)
           \/ \E r \in DOMAIN jobs : JobRuns(r) \/ JobFails(r)
  BY <1>1, <1>4, Zenon DEF Deliver, Maintain, CommitBlock, JobRuns, JobFails, loopVars
<1>5. ASSUME NEW r \in work, reconcile_one(r)
      PROVE  LoopInv'
  <2>0. pc = "reconcile"
    BY <1>5, Zenon DEF reconcile_one
  <2>1. ASSUME pc' \in {"reconcile", "removing"}, parked' = parked, pc' = "reconcile" => cur' = cur
        PROVE  LoopInv'
    BY <2>0, <2>1 DEF LoopInv
  <2>2. CASE PollJob(r)
    BY <2>0, <2>1, <2>2, Zenon DEF PollJob, PassOver
  <2>3. CASE discard_submission(r)
    <3>1. pc' = "removing" /\ parked' = parked
      BY <2>3, Zenon DEF discard_submission
    <3>2. pc' # "reconcile"
      BY <3>1
    <3> QED
      BY <2>1, <3>1, <3>2, Zenon
  <2>4. CASE handle_completed(r)
    <3>1. CASE Terminal
      BY <1>2, <3>1, Zenon DEF Terminal, Halt
    <3>2. CASE pc' = "removing" /\ parked' = parked
      <4>1. pc' # "reconcile"
        BY <3>2
      <4> QED
        BY <2>1, <3>2, <4>1, Zenon
    <3> QED
      BY <2>3, <2>4, <3>1, <3>2, Zenon DEF handle_completed
  <2> QED
    BY <1>5, <2>2, <2>3, <2>4, Zenon DEF reconcile_one
<1>6. CASE Tick
  <2>1. pc = "idle" /\ pc' = "reconcile" /\ UNCHANGED <<parked, cur>>
    BY <1>6, Zenon DEF Tick
  <2> QED
    BY <2>1 DEF LoopInv
<1>7. CASE RemoveStatus
  <2>1. pc = "removing" /\ pc' = "reconcile" /\ cur' = None /\ parked' = parked
    BY <1>7, Zenon DEF RemoveStatus
  <2> QED
    BY <2>1 DEF LoopInv
<1>8. CASE GenerateTick \/ FollowTick
  <2>1. /\ pc = "reconcile" /\ work = {} /\ pc' \in {"idle", "schedule", "fetch"}
        /\ UNCHANGED <<work, parked, cur>>
    BY <1>8, Zenon DEF GenerateTick, FollowTick, schedule_proofs, loopVars
  <2> QED
    BY <2>1 DEF LoopInv
<1>9. CASE SkipProof \/ DeferProof \/ SubmitFails \/ FetchSkips
  <2>1. pc \in {"schedule", "fetch"} /\ UNCHANGED <<pc, work, cur>>
    BY <1>9, Zenon DEF SkipProof, DeferProof, SubmitFails, FetchSkips, Dequeued, Scheduling, Fetching
  <2> QED
    BY <2>1 DEF LoopInv
<1>10. CASE SubmitProof \/ MapRemote \/ RecordStatus
  <2>1. /\ pc \in {"schedule", "mapping", "recording"} /\ pc' \in {"schedule", "mapping", "recording"}
        /\ UNCHANGED work /\ (pc' = "schedule" => cur' = None)
    <3>1. "mapping" # "schedule" /\ "recording" # "schedule"
      OBVIOUS
    <3> QED
      BY <1>10, <3>1, Zenon DEF SubmitProof, MapRemote, RecordStatus, Scheduling, loopVars
  <2> QED
    BY <2>1 DEF LoopInv
<1>11. CASE ScheduleDone \/ FetchDone
  <2>1. pc \in {"schedule", "fetch"} /\ pc' = "idle" /\ parked' = {} /\ UNCHANGED <<work, cur>>
    BY <1>11, Zenon DEF ScheduleDone, FetchDone, EndFetch
  <2> QED
    BY <2>1 DEF LoopInv
<1>12. CASE FetchReceipt
  <2>1. pc = "fetch" /\ UNCHANGED <<work, cur>> /\ (pc' = pc \/ (pc' = "idle" /\ parked' = {}))
    BY <1>12, Zenon DEF FetchReceipt, EndFetch, Fetching
  <2> QED
    BY <2>1 DEF LoopInv
<1>13. CASE UNCHANGED vars
  BY <1>1, <1>13, Zenon DEF vars, loopVars
<1> QED
  BY <1>3, <1>4, <1>5, <1>6, <1>7, <1>8, <1>9, <1>10, <1>11, <1>12, <1>13, ZenonT(60) DEF Next, TickStep

\* Blocks are announced after they are committed.
LEMMA AnnouncedStep ==
  ASSUME ChainInv, AnnouncedInv, [Next]_vars
  PROVE  AnnouncedInv'
<1>1. ASSUME committed' = committed, inbox' \in {inbox, <<>>}, last_committed' \in {last_committed, None}
      PROVE  AnnouncedInv'
  <2>1. <<>> \in Seq(committed)
    OBVIOUS
  <2> QED
    BY <1>1, <2>1, Zenon DEF AnnouncedInv
<1>2. ASSUME NEW b, CommitBlock(b)
      PROVE  AnnouncedInv'
  <2>1. /\ committed' = committed \cup {b} /\ last_committed' = last_committed
        /\ inbox' \in {inbox, Append(inbox, b)}
    BY <1>2 DEF CommitBlock, statusVars
  <2> QED
    BY <2>1 DEF AnnouncedInv
<1>3. CASE Deliver
  <2>1. inbox # <<>> /\ inbox' = Tail(inbox) /\ last_committed' = Head(inbox) /\ committed' = committed
    BY <1>3, Zenon DEF Deliver
  <2> QED
    BY <2>1 DEF AnnouncedInv
<1>4. CASE \E c \in Configs : Launch(c)
  <2>1. last_committed' = LastKey(committed) /\ UNCHANGED <<committed, inbox>>
    BY <1>4, Zenon DEF Launch, StateNew, chainVars
  <2>2. LastKey(committed) \in committed
    BY LastKeyIsLast, Zenon DEF ChainInv
  <2> QED
    BY <2>1, <2>2, Zenon DEF AnnouncedInv
<1>5. CASE Kill \/ Maintain \/ \E r \in DOMAIN jobs : JobRuns(r) \/ JobFails(r)
  BY <1>1, <1>5, Zenon DEF Kill, Halt, Maintain, JobRuns, JobFails, chainVars, statusVars
<1>6. ASSUME NEW r \in work, reconcile_one(r)
      PROVE  AnnouncedInv'
  <2>1. CASE PollJob(r)
    BY <1>1, <2>1, Zenon DEF PollJob, PassOver, chainVars
  <2>2. CASE discard_submission(r)
    BY <1>1, <2>2, Zenon DEF discard_submission, chainVars, statusVars
  <2>3. CASE handle_completed(r)
    BY <1>1, <2>2, <2>3, Zenon DEF handle_completed, Terminal, Halt, chainVars
  <2> QED
    BY <1>6, <2>1, <2>2, <2>3, Zenon DEF reconcile_one
<1>7. CASE Tick \/ RemoveStatus \/ GenerateTick \/ MapRemote \/ RecordStatus \/ ScheduleDone \/ FollowTick
  BY <1>1, <1>7, Zenon DEF Tick, RemoveStatus, GenerateTick, schedule_proofs, MapRemote, RecordStatus,
     ScheduleDone, FollowTick, chainVars, statusVars
<1>8. CASE SkipProof \/ DeferProof \/ SubmitFails \/ UnknownArtifact \/ SubmitProof
  BY <1>1, <1>8, Zenon DEF SkipProof, DeferProof, SubmitFails, UnknownArtifact, SubmitProof, Dequeued,
     Terminal, Halt, chainVars, statusVars
<1>9. CASE FetchSkips \/ FetchReceipt \/ FetchDone
  BY <1>1, <1>9, Zenon DEF FetchSkips, FetchReceipt, FetchDone, EndFetch, Dequeued, chainVars, statusVars
<1>10. CASE UNCHANGED vars
  BY <1>1, <1>10, Zenon DEF vars, chainVars, statusVars
<1> QED
  BY <1>2, <1>3, <1>4, <1>5, <1>6, <1>7, <1>8, <1>9, <1>10, Zenon DEF Next, TickStep

\* Every variable has its type in every reachable state; what takes an argument is
\* that a proof has at most one job more than there have been faults, although
\* submissions are forgotten by the service itself (discard_submission).
THEOREM WellFormed == Spec => []TypeOK
<1> DEFINE TInv == RetryInv /\ SubmittedInv /\ LoopInv /\ AnnouncedInv
<1>1. Init => TInv
  <2> SUFFICES ASSUME Init PROVE TInv
    OBVIOUS
  <2>1. DOMAIN jobs = {} /\ DOMAIN remote_status = {} /\ DOMAIN proof_to_remote = {}
    BY DEF Init
  <2>2. RetryInv
    <3>1. faults = 0 /\ pc \notin {"mapping", "recording"}
      BY DEF Init
    <3>2. IsFiniteSet({}) /\ Cardinality({}) = 0
      BY FS_EmptySet, Zenon
    <3>3. \A p : JobsOf(p) = {} /\ FailedOf(p) = {}
      BY <2>1, Zenon DEF JobsOf, FailedOf
    <3>4. 1 .. 0 = {} /\ 0 <= MaxFaults /\ 0 \in Nat /\ \A c \in {0, 1} : 0 + 0 <= 0 + c
      BY JobAssumption
    <3>5. \A p : WithinFaults(p)
      BY <3>1, <3>2, <3>3, <3>4, Zenon DEF WithinFaults
    <3>6. \A p : {r[2] : r \in JobsOf(p)} = 1 .. Cardinality(JobsOf(p))
      BY <3>2, <3>3, <3>4, Zenon
    <3> QED
      BY <2>1, <3>1, <3>2, <3>4, <3>5, <3>6, Zenon DEF RetryInv
  <2>3. SubmittedInv
    BY <2>1, Zenon DEF SubmittedInv
  <2>4. LoopInv
    BY Zenon DEF Init, LoopInv
  <2>5. AnnouncedInv
    BY DEF Init, AnnouncedInv
  <2> QED
    BY <2>2, <2>3, <2>4, <2>5, Zenon
<1>2. IInv /\ TInv /\ [Next]_vars => TInv'
  <2> SUFFICES ASSUME IInv, TInv, [Next]_vars PROVE TInv'
    OBVIOUS
  <2>1. RetryInv'
    BY RetryStep, Zenon DEF IInv
  <2>2. SubmittedInv'
    BY SubmittedStep, Zenon DEF IInv
  <2>3. LoopInv'
    BY LoopStep, Zenon
  <2>4. AnnouncedInv'
    BY AnnouncedStep, Zenon DEF IInv
  <2> QED
    BY <2>1, <2>2, <2>3, <2>4, Zenon
<1>3. IInv /\ TInv => TypeOK
  <2> SUFFICES ASSUME IInv, TInv PROVE TypeOK
    OBVIOUS
  <2>1. /\ DOMAIN proofs \subseteq ProofId /\ \A p \in DOMAIN proofs : proofs[p] \in Receipt
        /\ Genesis \in committed /\ committed \subseteq Block
        /\ queue \subseteq ProofId /\ parked \subseteq ProofId
    BY Zenon DEF IInv, StoreInv, ChainInv, QueueInv
  <2>2. /\ DOMAIN remote_status \subseteq DOMAIN remote_to_proof
        /\ \A r \in DOMAIN remote_status : remote_status[r] \in {"Requested", "InProgress"}
        /\ DOMAIN remote_to_proof \subseteq DOMAIN jobs
        /\ \A r \in DOMAIN remote_to_proof : remote_to_proof[r] \in ProofId
        /\ work \subseteq DOMAIN remote_status
    BY Zenon DEF IInv, RecordsInv, FlightInv
  <2>3. pc \in {"down", "idle"} => parked = {} /\ work = {} /\ cur = None /\ fetched = {}
    <3> SUFFICES ASSUME pc \in {"down", "idle"} PROVE parked = {} /\ work = {} /\ cur = None /\ fetched = {}
      BY Zenon
    <3>1. pc \notin {"removing", "mapping", "recording", "reconcile", "schedule", "fetch"}
      OBVIOUS
    <3> QED
      BY <3>1, Zenon DEF LoopInv, IInv, FrontierInv
  <2>4. DOMAIN jobs \subseteq Job /\ last_committed \in committed \cup {None}
    BY Zenon DEF RetryInv, AnnouncedInv
  <2>5. SubmittedInv
    BY Zenon
  <2> QED
    BY <2>1, <2>2, <2>3, <2>4, <2>5, Zenon DEF TypeOK, SubmittedInv
<1> HIDE DEF TInv
<1> QED
  BY <1>1, <1>2, <1>3, Invariance, PTL DEF Spec
==============================================================================
