------------------------------- MODULE L1Chain -------------------------------
(***************************************************************************)
(* The Bitcoin block tree as the ASM sees it, and the reference result of  *)
(* executing the ASM along it.                                             *)
(*                                                                         *)
(* Everything here is constant: a block hash fixes the block, its whole    *)
(* ancestry and therefore every deterministic function of that ancestry.   *)
(* The functions that are folds along the ancestry (Auth, CanonState,      *)
(* Descends) are constants constrained by their fold equations, so that    *)
(* the same text serves TLC, which evaluates the assumptions on a concrete *)
(* tree, and the proofs, which use nothing but the equations.              *)
(*                                                                         *)
(* A block is a model value.  A manifest keeps the block it describes, the *)
(* spec that produced it, the ASM upgrade logged in it, and the manifests  *)
(* the block's transactions looked up; its hash, the MMR leaf, is taken to *)
(* be injective, so the leaf is the manifest itself.                       *)
(***************************************************************************)
EXTENDS Integers

CONSTANTS
  Block,        \* the blocks of the tree (L1BlockCommitment: height and id)
  Genesis,      \* the configured anchor block
  Parent,       \* [Block -> Block]; meaningful above the genesis height
  Height,       \* [Block -> Nat]
  Work,         \* [Block -> Nat]: accumulated proof of work
  None          \* "absent"

CONSTANTS
  Pred,         \* predicate keys that can appear in upgrade logs
  SpecId,       \* compiled specs
  PredOf,       \* the execution registry, [registered specs -> Pred]
  Accepts,      \* [SpecId -> SUBSET SpecId]: source specs `prepare` allows
  GenesisSpec,  \* spec of the genesis state
  Upgrade,      \* [Block -> Pred \cup {None}]: AsmStfUpdate log of the block
  AuxReq,       \* [Block -> sets of heights]: manifest hashes the block needs
  Auth,         \* [Block -> Pred]: predicate authorised for the block's children
  CanonState,   \* [Block -> AnchorState]: ASM state after the block
  Descends      \* [Block -> BOOLEAN]: the block is on a chain through Genesis

-----------------------------------------------------------------------------
GenesisHeight == Height[Genesis]

\* Heights above genesis: the leaf indexes that hold real manifests.  Indexes
\* 0..GenesisHeight hold the sentinels of the genesis accumulator.
Heights == {Height[b] : b \in Block} \ 0..GenesisHeight

Manifest == [block : Block, spec : SpecId, up : Pred \cup {None}, view : SUBSET Block]

History == [Heights -> Manifest \cup {None}]

\* AnchorState: the block it is anchored to, the spec that produced it and the
\* history accumulator.  The accumulator always has Height[block] + 1 entries.
AnchorState == [block : Block, spec : SpecId, hist : History]

GenesisState == [block |-> Genesis, spec |-> GenesisSpec, hist |-> [h \in Heights |-> None]]

\* ExecutionRegistry::resolve: the spec registered under exactly this predicate.
Registered == DOMAIN PredOf

Resolves(p) == \E s \in Registered : PredOf[s] = p

Resolve(p) == CHOOSE s \in Registered : PredOf[s] = p

-----------------------------------------------------------------------------
(***************************************************************************)
(* The STF on one block: the manifest it emits and the state it returns,   *)
(* given the parent state, the executing spec and the manifest hashes the  *)
(* block looked up.                                                        *)
(***************************************************************************)
StfManifest(b, s, aux) ==
  [block |-> b, spec |-> s, up |-> Upgrade[b], view |-> {aux[h].block : h \in AuxReq[b]}]

StfState(b, s, st, m) ==
  [block |-> b, spec |-> s, hist |-> [st.hist EXCEPT ![Height[b]] = m]]

\* The spec a child of st may be executed by: registered, and `prepare` accepts
\* the state it starts from.
CanExecute(st, p) == Resolves(p) /\ st.spec \in Accepts[Resolve(p)]

\* The manifest hashes block b is entitled to: those of its own ancestors.
CanonAux(b) == [h \in AuxReq[b] |-> CanonState[Parent[b]].hist[h]]

CanonManifest(b) == StfManifest(b, Resolve(Auth[Parent[b]]), CanonAux(b))

-----------------------------------------------------------------------------
Above(b) == Height[b] > GenesisHeight

\* Blocks above genesis have their parent one height below them and less work.
ASSUME TreeAssumption ==
  /\ Genesis \in Block
  /\ None \notin Block
  /\ Height \in [Block -> Nat]
  /\ Work \in [Block -> Nat]
  /\ Parent \in [Block -> Block]
  /\ \A b \in Block : Above(b) => /\ Height[Parent[b]] = Height[b] - 1
                                  /\ Work[Parent[b]] < Work[b]

\* The registry rejects duplicate predicates and duplicate spec ids; the genesis
\* predicate is the one registered for the genesis spec.
ASSUME RegistryAssumption ==
  /\ Registered \subseteq SpecId
  /\ PredOf \in [Registered -> Pred]
  /\ \A s, t \in Registered : PredOf[s] = PredOf[t] => s = t
  /\ GenesisSpec \in Registered
  /\ Accepts \in [SpecId -> SUBSET SpecId]

\* A manifest records what the block contains; None is no value of any kind.
ASSUME LogAssumption ==
  /\ Upgrade \in [Block -> Pred \cup {None}]
  /\ None \notin Pred
  /\ None \notin Manifest
  /\ None \notin AnchorState
  /\ AuxReq \in [Block -> SUBSET Heights]
  /\ \A b \in Block : \A h \in AuxReq[b] : h < Height[b]

\* Auth and CanonState are the folds of the upgrade logs and of the STF along
\* the ancestry; Descends says which blocks are on a chain through Genesis.
ASSUME FoldAssumption ==
  /\ Auth \in [Block -> Pred]
  /\ Auth[Genesis] = PredOf[GenesisSpec]
  /\ CanonState \in [Block -> AnchorState]
  /\ CanonState[Genesis] = GenesisState
  /\ Descends \in [Block -> BOOLEAN]
  /\ \A b \in Block : ~Above(b) => (Descends[b] <=> b = Genesis)
  /\ \A b \in Block : Above(b) =>
       /\ Descends[b] = Descends[Parent[b]]
       /\ Auth[b] = IF Upgrade[b] # None THEN Upgrade[b] ELSE Auth[Parent[b]]
       /\ CanExecute(CanonState[Parent[b]], Auth[Parent[b]]) =>
            CanonState[b] = StfState(b, Resolve(Auth[Parent[b]]), CanonState[Parent[b]],
                                     CanonManifest(b))
==============================================================================
