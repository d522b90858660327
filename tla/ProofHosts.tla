------------------------------ MODULE ProofHosts -----------------------------
(***************************************************************************)
(* What the prover is given when the runner starts: the programs it can    *)
(* drive, loaded from its configuration and bound to the predicates they   *)
(* prove, and what those programs commit to when they run.                 *)
(*                                                                         *)
(* A configuration is checked whole before any worker starts; one that     *)
(* fails a check starts nothing.                                           *)
(***************************************************************************)
EXTENDS ProofDb, Sequences

CONSTANTS
  Sp1Feature,     \* the binary is built with the sp1 feature
  CompiledSpec,   \* the spec ids compiled into the binary
  Program         \* identities of guest ELFs and native signing keys

-----------------------------------------------------------------------------
(***************************************************************************)
(* Configuration.  The program of a source is what its ELF or its signing  *)
(* key identifies, None when nothing can be read or parsed there.          *)
(***************************************************************************)
ArtifactSource == [kind : {"sp1", "native"}, program : Program \cup {None}]

AsmArtifactConfig == [spec_id : Nat, source : ArtifactSource]

Generator == [kind |-> "Generator"]

\* peer says whether an RPC client can be built for peer_url.
FollowerConfig == [kind : {"Follower"}, peer : BOOLEAN, max_lag : Nat, max_peer_failures : Nat]

ProverMode == {Generator} \cup FollowerConfig

IsOrchestratorConfig(c) ==
  /\ c.max_concurrent_proofs \in Nat
  /\ c.moho \in ArtifactSource
  /\ \A i \in DOMAIN c.asm_artifacts : c.asm_artifacts[i] \in AsmArtifactConfig
  /\ c.mode \in ProverMode

-----------------------------------------------------------------------------
(***************************************************************************)
(* Hosts and predicates.                                                   *)
(***************************************************************************)
\* A guest ELF is loaded by a binary built with the feature, a native host made by
\* one built without it.
load_host(source) == Sp1Feature /\ source.kind = "sp1" /\ source.program # None

native_host(source) == ~Sp1Feature /\ source.kind = "native" /\ source.program # None

host_loads(source) == load_host(source) \/ native_host(source)

\* The key of the program, under the type of its proofs.
resolve_sp1_predicate(source) == <<"Sp1Groth16", source.program>>

resolve_native_predicate(source) == <<"Bip340Schnorr", source.program>>

resolve_predicate(source) ==
  IF source.kind = "sp1" THEN resolve_sp1_predicate(source) ELSE resolve_native_predicate(source)

bind_expected(source, expected) == resolve_predicate(source) = expected

load_spec_host(source, expected) == host_loads(source) /\ bind_expected(source, expected)

\* build_execution_registry: compiled specs, each spec and each predicate once.
registry_builds(targets) ==
  /\ \A i \in DOMAIN targets : targets[i].spec_id \in CompiledSpec
  /\ \A i, j \in DOMAIN targets :
       i # j => targets[i].spec_id # targets[j].spec_id /\ targets[i].predicate # targets[j].predicate

\* The targets list a spec once; the predicate is the one they list for it.
targets_list(targets, spec_id) == \E i \in DOMAIN targets : targets[i].spec_id = spec_id

registry_predicate(targets, spec_id) ==
  targets[CHOOSE i \in DOMAIN targets : targets[i].spec_id = spec_id].predicate

load_asm_host(targets, artifact) ==
  /\ targets_list(targets, artifact.spec_id) /\ artifact.spec_id \in CompiledSpec
  /\ load_spec_host(artifact.source, registry_predicate(targets, artifact.spec_id))

AsmProgramDescriptor(artifact) ==
  [spec_id |-> artifact.spec_id, predicate |-> resolve_predicate(artifact.source)]

\* AsmHostRegistry::new: at least one host, each spec and each predicate once.
host_registry_builds(artifacts) ==
  LET hosts == [i \in DOMAIN artifacts |-> AsmProgramDescriptor(artifacts[i])]
  IN /\ hosts # <<>>
     /\ \A i, j \in DOMAIN hosts :
          i < j => hosts[i].spec_id # hosts[j].spec_id /\ hosts[i].predicate # hosts[j].predicate

\* ProofBackend::new.
proof_backend_builds(c) == host_loads(c.moho) /\ host_registry_builds(c.asm_artifacts)

\* bootstrap: the execution registry, the genesis spec, every artifact, the
\* backend, and for a follower the client of its peer.
can_bootstrap(c) ==
  /\ registry_builds(c.targets)
  /\ targets_list(c.targets, c.genesis_spec_id)
  /\ \A i \in DOMAIN c.asm_artifacts : load_asm_host(c.targets, c.asm_artifacts[i])
  /\ proof_backend_builds(c)
  /\ c.mode.kind = "Follower" => c.mode.peer

\* What the worker keeps of its configuration.
Backend(c) ==
  [mode |-> c.mode, max_concurrent_proofs |-> c.max_concurrent_proofs,
   hosts |-> {AsmProgramDescriptor(c.asm_artifacts[i]) : i \in DOMAIN c.asm_artifacts}]

\* AsmHostRegistry::get.
hosts_for(backend, predicate) == {h \in backend.hosts : h.predicate = predicate}

-----------------------------------------------------------------------------
(***************************************************************************)
(* The programs.  A receipt satisfies one predicate and commits the        *)
(* transition between two blocks' Moho states; a recursive one also        *)
(* commits the key its recursion verified earlier proofs under.            *)
(***************************************************************************)
Attests(predicate, recursed_under, origin, target) ==
  [predicate |-> predicate, recursed_under |-> recursed_under, origin |-> origin,
   target |-> target]

\* AsmStepInput: the block; its references are its own and its parent's ids.
compute_ref(block) == block

compute_prev_ref(block) == Parent[block]

\* The input of a step proof: the parent's Moho state and the block.
StepInput(b) == [moho_pre_state |-> Parent[b], block |-> b]

\* AsmStfProgram: what a step of the program refers to, from its input alone.
AsmStfProgram(input) ==
  [prev_reference |-> compute_prev_ref(input.block), input_reference |-> compute_ref(input.block)]

\* process_asm_stf in the guest the predicate names: it attests what it computes.
process_asm_stf(input, predicate) ==
  Attests(predicate, None, AsmStfProgram(input).prev_reference, AsmStfProgram(input).input_reference)

\* The recursive program: the step satisfies the predicate its parent authorises
\* and continues the recursion so far, if there is one, whose claim is made up
\* again with the key the program was given; otherwise the guest panics and there
\* is no receipt.
recursion_accepts(input) ==
  /\ input.step.predicate = input.step_predicate
  /\ input.prev # None => /\ input.prev.predicate = input.moho_predicate
                          /\ input.prev.recursed_under = input.moho_predicate
                          /\ input.prev.target = input.step.origin

process_recursive_moho_proof(input) ==
  IF recursion_accepts(input)
  THEN Attests(MohoPredicate, input.moho_predicate,
               IF input.prev = None THEN input.step.origin ELSE input.prev.origin,
               input.step.target)
  ELSE None
==============================================================================
