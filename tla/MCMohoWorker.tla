---------------------------- MODULE MCMohoWorker -----------------------------
(***************************************************************************)
(* Block trees and export logs for MohoWorker.  Container 1 holds the      *)
(* bridge's entries and container 2 the other subprotocols'.               *)
(***************************************************************************)
EXTENDS ExportProofs, TLC

McPred == {"p0", "p1"}
McPredOf == 0 :> "p0" @@ 1 :> "p1"
McAccepts == 0 :> {0} @@ 1 :> {0, 1}

McAuth[b \in Block] ==
  IF ~Above(b) THEN PredOf[GenesisSpec]
  ELSE IF Upgrade[b] # None THEN Upgrade[b] ELSE McAuth[Parent[b]]

McCanonState[b \in Block] ==
  IF ~Above(b) THEN [GenesisState EXCEPT !.block = b]
  ELSE LET st == McCanonState[Parent[b]]
           s == Resolve(McAuth[Parent[b]])
       IN StfState(b, s, st, StfManifest(b, s, [h \in AuxReq[b] |-> st.hist[h]]))

McDescends[b \in Block] == IF Above(b) THEN McDescends[Parent[b]] ELSE b = Genesis

McCanonMoho[b \in Block] ==
  IF ~Above(b) THEN GenesisMoho ELSE NextMoho(McCanonMoho[Parent[b]], CanonState[b])

-----------------------------------------------------------------------------
(* A fork at genesis.  Both branches export "w", a2 exports to container 1 *)
(* twice, and b1 leaves container 1 alone, so that pruning at its height   *)
(* starts at a run above it.  a3 adds to both containers: in the first one *)
(* a leaf that is there already, in the second one a leaf that joins the   *)
(* peak of the first leaf.                                                 *)
FkBlock == {"g", "a1", "a2", "a3", "b1", "b2"}
FkParent == [g |-> "g", a1 |-> "g", a2 |-> "a1", a3 |-> "a2", b1 |-> "g", b2 |-> "b1"]
FkHeight == [g |-> 0, a1 |-> 1, a2 |-> 2, a3 |-> 3, b1 |-> 1, b2 |-> 2]
FkId == [g |-> 0, a1 |-> 4, a2 |-> 2, a3 |-> 5, b1 |-> 1, b2 |-> 3]
FkUpgrade == [g |-> None, a1 |-> "p1", a2 |-> None, a3 |-> None, b1 |-> None, b2 |-> "p1"]
FkAuxReq == [b \in FkBlock |-> {}]
FkLeaf == {"v", "w", "x"}
FkExports ==
  [g |-> <<<<>>, <<>>>>, a1 |-> <<<<>>, <<"v">>>>, a2 |-> <<<<"w", "x">>, <<>>>>,
   a3 |-> <<<<"w">>, <<"w">>>>, b1 |-> <<<<>>, <<"x">>>>, b2 |-> <<<<"w">>, <<>>>>]
FkExtra ==
  [g |-> <<None, None>>, a1 |-> <<None, "e">>, a2 |-> <<None, None>>, a3 |-> <<None, None>>,
   b1 |-> <<None, None>>, b2 |-> <<None, "f">>]
==============================================================================
