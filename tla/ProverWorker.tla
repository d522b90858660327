----------------------------- MODULE ProverWorker ----------------------------
(***************************************************************************)
(* The prover worker: for every block the Moho worker commits it obtains   *)
(* an ASM step proof and a Moho recursive proof, from a remote prover or   *)
(* from a peer, and files them in the proof database.                      *)
(*                                                                         *)
(* The service handles one input at a time: a committed block, or a tick.  *)
(* A tick first reconciles the jobs on record and then submits or fetches  *)
(* what is pending.  It awaits at every database write and every remote    *)
(* call, so blocks are committed, jobs progress and the process can be     *)
(* killed between any two of the steps below.  The worker itself runs      *)
(* alone, so reads and the write they lead to are one step.                *)
(***************************************************************************)
EXTENDS ProofHosts

CONSTANTS
  Configs,            \* the configurations a launch may be given
  MaxFaults           \* bound: kills, failed calls and jobs, bad receipts, maintenance

\* Configurations parse, and the recursive program stays the same across launches.
ASSUME ConfigsAssumption ==
  \A c \in Configs : IsOrchestratorConfig(c) /\ resolve_predicate(c.moho) = MohoPredicate

VARIABLES
  committed,        \* blocks whose Moho state is stored
  inbox,            \* commit messages not yet handled
  jobs,             \* the remote prover: job -> state of the job and its input
  faults,           \* faults so far
  config,           \* the running backend and mode, None when the service is down
  pc,               \* where the service is
  queue,            \* PendingProofQueue
  parked,           \* the deferred or parked buffer of the running loop
  work,             \* jobs the running reconciliation has still to look at
  capacity,         \* submissions left in the running scheduling loop
  cur,              \* proof and job between two writes of one operation
  up_to,            \* frontier of the running fetch loop
  fetched,          \* proofs the running fetch loop has stored
  last_committed,
  last_proven,
  health            \* PeerHealth

chainVars == <<committed, inbox>>
loopVars == <<parked, work, capacity, cur, up_to, fetched>>
statusVars == <<last_committed, last_proven>>
vars == <<dbVars, chainVars, loopVars, statusVars, jobs, faults, config, pc, queue, health>>

Fault == faults < MaxFaults /\ faults' = faults + 1

NoFault == faults' = faults

-----------------------------------------------------------------------------
(***************************************************************************)
(* Receipts, what they have to attest to, and the jobs that produce them.  *)
(***************************************************************************)
Predicate == {NextPredicate[b] : b \in Block} \cup {MohoPredicate}

\* recursed_under: None in the public values of a step, which are no recursive
\* output.
Receipt == [predicate : Predicate, recursed_under : Predicate \cup {None},
            origin : Block, target : Block]

ASSUME ReceiptAssumption == None \notin Receipt

\* The remote prover's ids: the jobs of a proof are numbered.
Job == ProofId \X (1 .. MaxFaults + 1)

ASSUME JobAssumption == MaxFaults \in Nat /\ None \notin Job

\* The receipt expected under p, from this node's own states: a step from the
\* parent under the program the parent authorises, a recursion from genesis.
expected_attestation(p) ==
  IF p[1] = "Asm"
  THEN Attests(NextPredicate[Parent[p[2]]], None, Parent[p[2]], p[2])
  ELSE Attests(MohoPredicate, MohoPredicate, Genesis, p[2])

\* Mutant: the key that a Moho receipt commits is not compared.
verify_outer_only(receipt, expected) ==
  /\ receipt.predicate = expected.predicate
  /\ receipt.recursed_under = None <=> expected.recursed_under = None
  /\ receipt.origin = expected.origin
  /\ receipt.target = expected.target

\* ProofVerifier::verify: the claim satisfies the predicate, the public values
\* decode to what a proof of this kind commits, the key a recursion ran under is
\* the worker's own, and the transition is the expected one, compared whole.
verify(receipt, expected) ==
  /\ receipt.predicate = expected.predicate
  /\ receipt.recursed_under = None <=> expected.recursed_under = None
  /\ expected.recursed_under # None => receipt.recursed_under = MohoPredicate
  /\ receipt.origin = expected.origin
  /\ receipt.target = expected.target

\* UnknownArtifact, a terminal error, without a host.
HasHost(p) == p[1] = "Asm" => hosts_for(config, NextPredicate[Parent[p[2]]]) # {}

\* build_moho_runtime_input: the proofs a recursion over b still lacks.
missing_prerequisites(b) ==
  {p \in {Asm(b)} \cup (IF Parent[b] = Genesis THEN {} ELSE {Moho(Parent[b])}) : ~proof_exists(p)}

\* What a job is given: the block and the state before it, or the receipts the
\* recursion verifies and composes.
RuntimeInput(p) ==
  LET b == p[2]
  IN IF p[1] = "Asm" THEN StepInput(b)
     ELSE [moho_predicate |-> MohoPredicate, prev |-> get_proof(Moho(Parent[b])),
           step |-> get_proof(Asm(b)), step_predicate |-> NextPredicate[Parent[b]]]

\* What a job returns when nothing goes wrong: the host looked up for the proof
\* runs its program on the input.
JobOutput(p, input) ==
  IF p[1] = "Asm" THEN process_asm_stf(input, NextPredicate[input.moho_pre_state])
  ELSE process_recursive_moho_proof(input)

-----------------------------------------------------------------------------
(***************************************************************************)
(* The queue and the status.                                               *)
(***************************************************************************)
\* dequeue_one: the first entry in the order of ProofId.
Next_in_queue == CHOOSE p \in queue : \A q \in queue \ {p} : Before(p, q)

\* Mutant: the latest completion always becomes the frontier.
advance_proven_always(cur_proven, ps) ==
  LET bs == {b \in ProvableBlock : Moho(b) \in ps}
  IN IF bs = {} THEN cur_proven ELSE CHOOSE b \in bs : \A c \in bs : Height[c] <= Height[b]

\* advance_proven over the proofs just stored: the frontier moves only to a
\* Moho proof strictly above it.
advance_proven(cur_proven, ps) ==
  LET bs == {b \in ProvableBlock : Moho(b) \in ps /\
                                   (cur_proven # None => Height[b] > Height[cur_proven])}
  IN IF bs = {} THEN cur_proven ELSE CHOOSE b \in bs : \A c \in bs : Height[c] <= Height[b]

\* follow_action: what a follower does with the outcome of its probe, None or
\* the height of the peer's frontier.
follow_action(probe, h) ==
  IF h.served_invalid_proof THEN "Fallback"
  ELSE IF probe = None
       THEN IF h.failures >= config.mode.max_peer_failures THEN "Fallback" ELSE "Wait"
       ELSE IF last_committed = None THEN "Wait"
            ELSE IF Height[last_committed] - probe > config.mode.max_lag THEN "Fallback" ELSE "Fetch"

Healthy == [failures |-> 0, served_invalid_proof |-> FALSE]

-----------------------------------------------------------------------------
Init ==
  /\ proofs = <<>> /\ proof_to_remote = <<>> /\ remote_to_proof = <<>> /\ remote_status = <<>>
  /\ committed = {Genesis} /\ inbox = <<>>
  /\ jobs = <<>> /\ faults = 0
  /\ config = None /\ pc = "down" /\ queue = {}
  /\ parked = {} /\ work = {} /\ capacity = 0 /\ cur = None /\ up_to = 0 /\ fetched = {}
  /\ last_committed = None /\ last_proven = None /\ health = Healthy

\* The process ends: everything in memory and every undelivered message is gone.
Halt ==
  /\ config' = None /\ pc' = "down" /\ queue' = {} /\ inbox' = <<>>
  /\ parked' = {} /\ work' = {} /\ capacity' = 0 /\ cur' = None /\ up_to' = 0 /\ fetched' = {}
  /\ last_committed' = None /\ last_proven' = None /\ health' = Healthy
  /\ UNCHANGED <<committed, jobs>>

\* ProverServiceState::new: the latest committed block is the seed unless it is
\* proven already or not above genesis.
StateNew(seed) ==
  /\ last_committed' = seed
  /\ last_proven' = get_latest_moho
  /\ queue' = IF get_latest_moho # seed /\ Height[seed] > Height[Genesis] THEN {Moho(seed)} ELSE {}

\* bootstrap: the Moho worker is up, the service subscribes to it before any
\* further block is committed and is launched.
Launch(c) ==
  /\ pc = "down" /\ can_bootstrap(c)
  /\ config' = Backend(c) /\ pc' = "idle"
  /\ StateNew(LastKey(committed))
  /\ UNCHANGED <<dbVars, chainVars, loopVars, jobs, faults, health>>

Kill == pc # "down" /\ Fault /\ Halt /\ UNCHANGED dbVars

\* A terminal error ends the service; what is on record stays on record.
Terminal == NoFault /\ Halt /\ UNCHANGED dbVars

-----------------------------------------------------------------------------
(***************************************************************************)
(* The world outside the service.                                          *)
(***************************************************************************)
\* The Moho worker stores a state and then announces the block; a block whose
\* state is already stored may be announced again.  Nothing in a tick reads
\* either, so commits during a tick are taken at its end.
CommitBlock(b) ==
  /\ pc \in {"idle", "down"} /\ Parent[b] \in committed
  /\ IF b \in committed THEN pc # "down" /\ inbox = <<>> /\ last_committed # b /\ Fault
                        ELSE NoFault
  /\ committed' = committed \cup {b}
  /\ inbox' = IF pc = "down" THEN inbox ELSE Append(inbox, b)
  /\ UNCHANGED <<dbVars, loopVars, statusVars, jobs, config, pc, queue, health>>

\* The remote prover works on a job, and may fail it.  Only the reconciliation
\* looks at jobs, so progress at other times is taken when it next runs.
JobRuns(r) ==
  /\ pc = "reconcile" /\ jobs[r].status \in {"Requested", "InProgress"}
  /\ \E s \in {"InProgress", "Completed"} \ {jobs[r].status} :
       jobs' = [jobs EXCEPT ![r].status = s]
  /\ UNCHANGED <<dbVars, chainVars, loopVars, statusVars, faults, config, pc, queue, health>>

JobFails(r) ==
  /\ pc = "reconcile" /\ jobs[r].status \in {"Requested", "InProgress"}
  /\ Fault
  /\ jobs' = [jobs EXCEPT ![r].status = "Failed"]
  /\ UNCHANGED <<dbVars, chainVars, loopVars, statusVars, config, pc, queue, health>>

\* dbtool, which needs the database's exclusive lock: the service is down.
Maintain ==
  /\ pc = "down" /\ Fault
  /\ \/ /\ \/ \E p \in DOMAIN proofs : proofs' = delete_proof(p)
           \/ \E h \in {Height[b] : b \in ProvableBlock} : proofs' = prune_before(h)
        /\ UNCHANGED <<proof_to_remote, remote_status>>
     \/ /\ \E p \in DOMAIN proof_to_remote : proof_to_remote' = clear_remote_submission(p)
        /\ UNCHANGED <<proofs, remote_status>>
     \/ /\ \E r \in DOMAIN remote_status : remote_status' = delete_status(r)
        /\ UNCHANGED <<proofs, proof_to_remote>>
  /\ UNCHANGED <<remote_to_proof, chainVars, loopVars, statusVars, jobs, config, pc, queue, health>>

-----------------------------------------------------------------------------
(***************************************************************************)
(* Inputs of the service.                                                  *)
(***************************************************************************)
\* enqueue_block_proofs.
Deliver ==
  /\ pc = "idle" /\ inbox # <<>>
  /\ queue' = queue \cup {Asm(Head(inbox)), Moho(Head(inbox))}
  /\ last_committed' = Head(inbox)
  /\ inbox' = Tail(inbox)
  /\ UNCHANGED <<dbVars, committed, loopVars, last_proven, jobs, faults, config, pc, health>>

\* tick: the reconciliation pass works on a snapshot of the jobs on record.
Tick ==
  /\ pc = "idle"
  /\ pc' = "reconcile" /\ work' = in_progress
  /\ UNCHANGED <<dbVars, chainVars, parked, capacity, cur, up_to, fetched, statusVars, jobs,
                 faults, config, queue, health>>

-----------------------------------------------------------------------------
(***************************************************************************)
(* reconcile_active_proofs, one job at a time.                             *)
(***************************************************************************)
\* The pass leaves job r and goes on.
PassOver(r) ==
  /\ work' = work \ {r}
  /\ UNCHANGED <<chainVars, parked, capacity, cur, up_to, fetched, last_committed, jobs, config,
                 pc, queue, health>>

\* The job has not changed, the call failed, or the stored status is refreshed.
PollJob(r) ==
  \/ jobs[r].status = remote_status[r] /\ NoFault /\ PassOver(r) /\ UNCHANGED <<dbVars, last_proven>>
  \/ Fault /\ PassOver(r) /\ UNCHANGED <<dbVars, last_proven>>
  \/ /\ jobs[r].status = "InProgress" /\ remote_status[r] # "InProgress"
     /\ remote_status' = update_status(r, "InProgress")
     /\ NoFault /\ PassOver(r)
     /\ UNCHANGED <<proofs, proof_to_remote, remote_to_proof, last_proven>>

\* discard_submission forgets the submission first and the status afterwards.
discard_submission(r) ==
  /\ proof_to_remote' = clear_remote_submission(get_local(r))
  /\ pc' = "removing" /\ cur' = <<get_local(r), r>>
  /\ UNCHANGED <<proofs, remote_to_proof, remote_status, chainVars, parked, work, capacity, up_to,
                 fetched, statusVars, jobs, config, queue, health>>

\* handle_completed: the receipt is fetched from the host of the expected
\* program, verified, stored, and the frontier advanced.
handle_completed(r) ==
  LET p == get_local(r)
  IN /\ jobs[r].status = "Completed"
     /\ IF ~HasHost(p) THEN Terminal
        ELSE \E receipt \in Receipt :
          /\ IF receipt = JobOutput(p, jobs[r].input) THEN NoFault ELSE Fault
          /\ IF verify(receipt, expected_attestation(p))
             THEN /\ proofs' = store_completed_proof(p, receipt)
                  /\ last_proven' = advance_proven(last_proven, {p})
                  /\ pc' = "removing" /\ cur' = <<p, r>>
                  /\ UNCHANGED <<proof_to_remote, remote_to_proof, remote_status, chainVars,
                                 parked, work, capacity, up_to, fetched, last_committed, jobs,
                                 config, queue, health>>
             ELSE discard_submission(r)

\* remove_status, the last write of either outcome.
RemoveStatus ==
  /\ pc = "removing"
  /\ remote_status' = delete_status(cur[2])
  /\ work' = work \ {cur[2]}
  /\ pc' = "reconcile" /\ cur' = None
  /\ UNCHANGED <<proofs, proof_to_remote, remote_to_proof, chainVars, parked, capacity, up_to,
                 fetched, statusVars, jobs, faults, config, queue, health>>

reconcile_one(r) ==
  /\ pc = "reconcile"
  /\ \/ PollJob(r)
     \/ jobs[r].status = "Failed" /\ NoFault /\ discard_submission(r)
     \/ handle_completed(r)

-----------------------------------------------------------------------------
(***************************************************************************)
(* schedule_proofs and schedule_with.                                      *)
(***************************************************************************)
\* Mutant: the jobs already in flight are not counted.
SlotsIgnoringFlight == config.max_concurrent_proofs

\* max_concurrent_proofs.saturating_sub(in_flight)
Slots ==
  LET n == Cardinality(in_progress)
  IN IF n < config.max_concurrent_proofs THEN config.max_concurrent_proofs - n ELSE 0

schedule_proofs ==
  /\ capacity' = Slots
  /\ pc' = IF Slots = 0 THEN "idle" ELSE "schedule"
  /\ UNCHANGED <<dbVars, chainVars, parked, work, cur, up_to, fetched, statusVars, jobs, faults,
                 config, queue>>

GenerateTick ==
  /\ pc = "reconcile" /\ work = {} /\ config.mode.kind = "Generator"
  /\ schedule_proofs /\ UNCHANGED health

\* Mutant: a proof that is already submitted is not skipped.
PendingUnlessStored(p) == ~proof_exists(p)

\* The loop goes on with proof p: not stored, not submitted.
Pending(p) == ~proof_exists(p) /\ get_remote(p) = None

Dequeued(q, d) ==
  /\ queue' = q /\ parked' = d
  /\ UNCHANGED <<dbVars, chainVars, work, capacity, cur, up_to, fetched, statusVars, jobs, config,
                 pc, health>>

Scheduling == pc = "schedule" /\ capacity > 0 /\ queue # {}

\* Skipped: the proof exists or is already submitted.
SkipProof ==
  /\ Scheduling /\ ~Pending(Next_in_queue)
  /\ NoFault /\ Dequeued(queue \ {Next_in_queue}, parked)

\* Mutant: a deferred proof waits for prerequisites nobody has asked for.
DeferProofAlone ==
  LET p == Next_in_queue
  IN /\ Scheduling /\ Pending(p) /\ p[1] = "Moho" /\ missing_prerequisites(p[2]) # {}
     /\ NoFault
     /\ Dequeued(queue \ {p}, parked \cup {p})

\* Deferred: the missing prerequisites join the queue unless they are parked.
DeferProof ==
  LET p == Next_in_queue
  IN /\ Scheduling /\ Pending(p) /\ p[1] = "Moho" /\ missing_prerequisites(p[2]) # {}
     /\ NoFault
     /\ Dequeued((queue \ {p}) \cup (missing_prerequisites(p[2]) \ parked), parked \cup {p})

\* Reading the input or submitting it fails: the proof is parked.
SubmitFails ==
  /\ Scheduling /\ Pending(Next_in_queue)
  /\ Fault /\ Dequeued(queue \ {Next_in_queue}, parked \cup {Next_in_queue})

\* The parent's program is not loaded.
UnknownArtifact ==
  /\ Scheduling /\ Pending(Next_in_queue) /\ ~HasHost(Next_in_queue)
  /\ Terminal

\* Mutant: the recursion is submitted without its predecessor.
ReadyWithoutPrevious(p) == HasHost(p) /\ (p[1] = "Moho" => proof_exists(Asm(p[2])))

Ready(p) == HasHost(p) /\ (p[1] = "Moho" => missing_prerequisites(p[2]) = {})

\* start_proving hands out a fresh job, and the mapping's first tree is written.
SubmitProof ==
  LET p == Next_in_queue
      r == <<p, 1 + Cardinality({s \in DOMAIN jobs : s[1] = p})>>
  IN /\ Scheduling /\ Pending(p) /\ Ready(p)
     /\ can_put_remote(p, r)
     /\ jobs' = [s \in DOMAIN jobs \cup {r} |->
                   IF s = r THEN [status |-> "Requested", input |-> RuntimeInput(p)] ELSE jobs[s]]
     /\ proof_to_remote' = put_forward(p, r)
     /\ queue' = queue \ {p}
     /\ pc' = "mapping" /\ cur' = <<p, r>>
     /\ UNCHANGED <<proofs, remote_to_proof, remote_status, chainVars, parked, work, capacity,
                    up_to, fetched, statusVars, faults, config, health>>

\* put_remote_proof_id's second tree, then put_status.
MapRemote ==
  /\ pc = "mapping"
  /\ remote_to_proof' = put_reverse(cur[1], cur[2])
  /\ pc' = "recording"
  /\ UNCHANGED <<proofs, proof_to_remote, remote_status, chainVars, loopVars, statusVars, jobs,
                 faults, config, queue, health>>

RecordStatus ==
  /\ pc = "recording" /\ can_put_status(cur[2])
  /\ remote_status' = put_status(cur[2], "Requested")
  /\ pc' = "schedule" /\ cur' = None /\ capacity' = capacity - 1
  /\ UNCHANGED <<proofs, proof_to_remote, remote_to_proof, chainVars, parked, work, up_to,
                 fetched, statusVars, jobs, faults, config, queue, health>>

\* The loop ends and the parked proofs return to the queue.
ScheduleDone ==
  /\ pc = "schedule" /\ (capacity = 0 \/ queue = {})
  /\ queue' = queue \cup parked /\ parked' = {} /\ capacity' = 0
  /\ pc' = "idle"
  /\ UNCHANGED <<dbVars, chainVars, work, cur, up_to, fetched, statusVars, jobs, faults, config,
                 health>>

-----------------------------------------------------------------------------
(***************************************************************************)
(* follow_proofs and fetch_with.  The peer answers what it likes.          *)
(***************************************************************************)
\* The probe's outcome decides the tick.  The failure count is kept at its
\* threshold, beyond which it makes no difference.
FollowTick ==
  /\ pc = "reconcile" /\ work = {} /\ config.mode.kind = "Follower"
  /\ \E probe \in {Height[b] : b \in Block} \cup {None} :
       LET f == IF probe # None THEN 0
                ELSE IF health.failures < config.mode.max_peer_failures THEN health.failures + 1
                ELSE health.failures
           h == [health EXCEPT !.failures = f]
       IN /\ health' = h
          /\ CASE follow_action(probe, h) = "Fetch" ->
                    /\ pc' = "fetch" /\ up_to' = probe
                    /\ UNCHANGED <<dbVars, chainVars, parked, work, capacity, cur, fetched,
                                   statusVars, jobs, faults, config, queue>>
               [] follow_action(probe, h) = "Fallback" -> schedule_proofs
               [] OTHER ->
                    /\ pc' = "idle"
                    /\ UNCHANGED <<dbVars, chainVars, loopVars, statusVars, jobs, faults, config,
                                   queue>>

Fetching == pc = "fetch" /\ queue # {} /\ height(Next_in_queue) <= up_to

\* The loop ends: parked proofs return, the frontier takes in what was fetched,
\* and a receipt that did not verify marks the peer for good.
EndFetch(invalid) ==
  /\ queue' = queue \cup parked /\ parked' = {}
  /\ last_proven' = advance_proven(last_proven, fetched)
  /\ fetched' = {} /\ up_to' = 0
  /\ health' = [health EXCEPT !.served_invalid_proof = @ \/ invalid]
  /\ pc' = "idle"
  /\ UNCHANGED <<dbVars, chainVars, work, capacity, cur, last_committed, jobs, faults, config>>

\* AlreadyStored, or NotAvailable and failed calls.
FetchSkips ==
  /\ Fetching
  /\ \/ proof_exists(Next_in_queue) /\ NoFault /\ Dequeued(queue \ {Next_in_queue}, parked)
     \/ /\ ~proof_exists(Next_in_queue) /\ NoFault
        /\ Dequeued(queue \ {Next_in_queue}, parked \cup {Next_in_queue})

\* A receipt arrives and is stored only if it verifies.
FetchReceipt ==
  LET p == Next_in_queue
  IN /\ Fetching /\ ~proof_exists(p)
     /\ \E receipt \in Receipt :
          IF verify(receipt, expected_attestation(p))
          THEN /\ proofs' = store_completed_proof(p, receipt)
               /\ fetched' = fetched \cup {p}
               /\ queue' = queue \ {p}
               /\ UNCHANGED <<proof_to_remote, remote_to_proof, remote_status, chainVars, parked,
                              work, capacity, cur, up_to, statusVars, jobs, faults, config, pc,
                              health>>
          ELSE EndFetch(TRUE)

FetchDone == pc = "fetch" /\ ~Fetching /\ EndFetch(FALSE)

-----------------------------------------------------------------------------
\* The steps of a tick.
TickStep ==
  \/ Tick
  \/ \E r \in work : reconcile_one(r)
  \/ RemoveStatus \/ GenerateTick
  \/ SkipProof \/ DeferProof \/ SubmitFails \/ UnknownArtifact \/ SubmitProof
  \/ MapRemote \/ RecordStatus \/ ScheduleDone
  \/ FollowTick \/ FetchSkips \/ FetchReceipt \/ FetchDone

Next ==
  \/ \E c \in Configs : Launch(c)
  \/ Kill
  \/ \E b \in ProvableBlock : CommitBlock(b)
  \/ \E r \in DOMAIN jobs : JobRuns(r) \/ JobFails(r)
  \/ Maintain
  \/ Deliver
  \/ TickStep

Spec == Init /\ [][Next]_vars

\* The service keeps ticking, gets round to its messages between ticks and is
\* restarted when it ends.  The remote prover goes on with its jobs; JobRuns is
\* enabled in every reconciliation rather than all along, hence strongly fair.
FairSpec ==
  /\ Spec
  /\ WF_vars(TickStep) /\ SF_vars(Deliver)
  /\ WF_vars(\E c \in Configs : Launch(c))
  /\ SF_vars(\E r \in DOMAIN jobs : JobRuns(r))

-----------------------------------------------------------------------------
(***************************************************************************)
(* Properties.                                                             *)
(***************************************************************************)
\* Every variable has its type: tables are keyed by proofs and by jobs, only
\* live statuses are recorded, a proof is submitted once more than something has
\* gone wrong at most, and the loop variables are at rest between ticks.
TypeOK ==
  /\ DOMAIN proofs \subseteq ProofId /\ \A p \in DOMAIN proofs : proofs[p] \in Receipt
  /\ DOMAIN proof_to_remote \subseteq ProofId
  /\ \A p \in DOMAIN proof_to_remote : proof_to_remote[p] \in DOMAIN jobs
  /\ DOMAIN remote_status \subseteq DOMAIN remote_to_proof
  /\ \A r \in DOMAIN remote_status : remote_status[r] \in {"Requested", "InProgress"}
  /\ DOMAIN remote_to_proof \subseteq DOMAIN jobs
  /\ \A r \in DOMAIN remote_to_proof : remote_to_proof[r] \in ProofId
  /\ DOMAIN jobs \subseteq Job
  /\ Genesis \in committed /\ committed \subseteq Block
  /\ queue \subseteq ProofId /\ parked \subseteq ProofId /\ work \subseteq DOMAIN remote_status
  /\ pc \in {"down", "idle"} => parked = {} /\ work = {} /\ cur = None /\ fetched = {}
  /\ last_committed \in committed \cup {None}

\* Whatever a failing prover or peer returns, a stored proof is a proof of its
\* own block: the step out of the block's parent under the program the parent
\* authorises, or the recursion anchored at genesis that verified the proofs below
\* it under the worker's own Moho key (ProofVerifier::verify).
StoredProofsAttest ==
  \A p \in DOMAIN proofs :
    /\ proofs[p].target = p[2]
    /\ p[1] = "Asm" => proofs[p].origin = Parent[p[2]]
                       /\ proofs[p].predicate = NextPredicate[Parent[p[2]]]
    /\ p[1] = "Moho" => /\ proofs[p].origin = Genesis /\ proofs[p].predicate = MohoPredicate
                        /\ proofs[p].recursed_under = MohoPredicate

\* A job that runs as its program says yields a receipt that will be accepted: in
\* particular a recursion is submitted with receipts that compose into a chain
\* from genesis to its block, in whatever order the proofs below it were obtained,
\* lost, pruned or obtained again.
RecursionComposes ==
  \A r \in DOMAIN remote_to_proof :
    LET p == remote_to_proof[r]
    IN JobOutput(p, jobs[r].input) = expected_attestation(p)

\* Between ticks the reported frontier is a highest block with a stored Moho
\* proof, also when a branch below it is proven later and after a restart.
FrontierBacked ==
  pc \in {"idle", "reconcile", "schedule"} =>
    IF last_proven = None THEN \A b \in ProvableBlock : ~proof_exists(Moho(b))
    ELSE /\ proof_exists(Moho(last_proven))
         /\ \A b \in ProvableBlock : proof_exists(Moho(b)) => Height[b] <= Height[last_proven]

\* The jobs on record never exceed the largest max_concurrent_proofs the service
\* was ever given, whatever resubmissions, restarts and fallbacks happen.
InFlightBounded ==
  \/ in_progress = {}
  \/ \E c \in Configs : can_bootstrap(c) /\ Cardinality(in_progress) <= c.max_concurrent_proofs

\* The blocks from genesis (excluded) to b.
Chain[b \in Block] ==
  IF Height[b] <= Height[Genesis] THEN {} ELSE {b} \cup Chain[Parent[b]]

\* A proof on record as submitted that no job will ever deliver.
Orphaned(p) ==
  /\ ~proof_exists(p) /\ p \in DOMAIN proof_to_remote
  /\ proof_to_remote[p] \notin DOMAIN remote_status
  /\ cur # None => cur[1] # p

\* Why the chain up to b may rest: the service is down or trusts its peer, lacks
\* a program, or a record from before a kill or a maintenance names a lost job.
AtRest(b) ==
  \/ pc = "down"
  \/ config.mode.kind = "Follower" /\ ~health.served_invalid_proof
  \/ \E c \in Chain[b] : ~HasHost(Asm(c)) \/ Orphaned(Asm(c)) \/ Orphaned(Moho(c))

\* The prerequisite cascade reaches the tip: however jobs fail and whatever is
\* lost in a restart, the Moho proof of the last committed block is submitted.
TipSubmitted ==
  \A b \in ProvableBlock :
    (last_committed = b) ~>
      \/ last_committed # b \/ AtRest(b)
      \/ proof_exists(Moho(b)) \/ \E r \in DOMAIN jobs : r[1] = Moho(b)

\* "discarded so the scheduler can submit the block again": the tip is proven
\* although the job for its Moho proof failed.
TipProven ==
  \A b \in ProvableBlock :
    (last_committed = b) ~> (last_committed # b \/ AtRest(b) \/ proof_exists(Moho(b)))
==============================================================================
