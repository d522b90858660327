---------------------------- MODULE MCProverWorker ---------------------------
(***************************************************************************)
(* A chain of two blocks for ProverWorker.  Block a1 authorises a new      *)
(* program, so the step into a2 needs the artifact of spec 1.              *)
(***************************************************************************)
EXTENDS ProverWorker, TLC

McBlock == {"g", "a1", "a2"}
McParent == [g |-> "g", a1 |-> "g", a2 |-> "a1"]
McHeight == [g |-> 0, a1 |-> 1, a2 |-> 2]
McBlkId == [g |-> 0, a1 |-> 2, a2 |-> 1]
Key(k) == <<"Bip340Schnorr", k>>
McNextPredicate == [g |-> Key("v0"), a1 |-> Key("v1"), a2 |-> Key("v1")]
McMohoPredicate == Key("moho")
McProgram == {"v0", "v1", "moho"}

Native(k) == [kind |-> "native", program |-> k]
Artifact(id, k) == [spec_id |-> id, source |-> Native(k)]
McTargets == <<[spec_id |-> 0, predicate |-> Key("v0")], [spec_id |-> 1, predicate |-> Key("v1")]>>

McGenerator == [targets |-> McTargets, genesis_spec_id |-> 0, moho |-> Native("moho"),
                asm_artifacts |-> <<Artifact(0, "v0"), Artifact(1, "v1")>>,
                max_concurrent_proofs |-> 2, mode |-> Generator]
McOutdated == [McGenerator EXCEPT !.asm_artifacts = <<Artifact(0, "v0")>>,
                                  !.max_concurrent_proofs = 1]
McFollower == [McGenerator EXCEPT !.mode = [kind |-> "Follower", peer |-> TRUE, max_lag |-> 1,
                                            max_peer_failures |-> 1]]

\* Configurations that start nothing: artifacts swapped, repeated, absent or of
\* the wrong kind, a spec that is not compiled, not listed or listed twice.
McRefused ==
  {[McGenerator EXCEPT !.asm_artifacts = <<Artifact(0, "v1"), Artifact(1, "v0")>>],
   [McGenerator EXCEPT !.asm_artifacts = <<Artifact(0, "v0"), Artifact(0, "v0")>>],
   [McGenerator EXCEPT !.asm_artifacts = <<>>],
   [McGenerator EXCEPT !.asm_artifacts[2].source.kind = "sp1"],
   [McGenerator EXCEPT !.targets = Append(@, [spec_id |-> 2, predicate |-> Key("v2")])],
   [McGenerator EXCEPT !.targets = <<Head(@)>>],
   [McGenerator EXCEPT !.targets[2].spec_id = 0],
   [McGenerator EXCEPT !.genesis_spec_id = 2],
   [McFollower EXCEPT !.mode.peer = FALSE]}

McConfigs == {McGenerator, McOutdated, McFollower} \cup McRefused
McOneConfig == {McGenerator}

\* bootstrap refuses what it should and nothing else.
ASSUME RefusedAtStartup == {c \in McConfigs : can_bootstrap(c)} = McConfigs \ McRefused
==============================================================================
