----------------------------- MODULE MCAsmWorker -----------------------------
(***************************************************************************)
(* Concrete block trees for AsmWorker.  "p0" and "p1" are the predicates   *)
(* registered for specs 0 and 1 (StrataAsmSpec, StrataAsmSpecV1); no spec  *)
(* is registered under "px".                                               *)
(***************************************************************************)
EXTENDS AsmWorkerLedger, AsmRpc, TLC

McPred == {"p0", "p1", "px"}
McPredOf == 0 :> "p0" @@ 1 :> "p1"
McAccepts == 0 :> {0} @@ 1 :> {0, 1}

(* The folds of L1Chain, computed.                                         *)
McAuth[b \in Block] ==
  IF ~Above(b) THEN PredOf[GenesisSpec]
  ELSE IF Upgrade[b] # None THEN Upgrade[b] ELSE McAuth[Parent[b]]

McCanonState[b \in Block] ==
  IF ~Above(b) THEN [GenesisState EXCEPT !.block = b]
  ELSE LET st == McCanonState[Parent[b]]
           p == McAuth[Parent[b]]
       IN IF CanExecute(st, p)
          THEN StfState(b, Resolve(p), st,
                        StfManifest(b, Resolve(p), [h \in AuxReq[b] |-> st.hist[h]]))
          ELSE [st EXCEPT !.block = b]

McDescends[b \in Block] == IF Above(b) THEN McDescends[Parent[b]] ELSE b = Genesis

-----------------------------------------------------------------------------
(* Switchback: a1 is overtaken by b2, and b2 by a3.  The branches upgrade  *)
(* at different blocks; a3 upgrades to a predicate nobody registered.      *)
SwBlock == {"g", "a1", "a2", "a3", "b1", "b2"}
SwParent == [g |-> "g", a1 |-> "g", a2 |-> "a1", a3 |-> "a2", b1 |-> "g", b2 |-> "b1"]
SwHeight == [g |-> 0, a1 |-> 1, a2 |-> 2, a3 |-> 3, b1 |-> 1, b2 |-> 2]
SwUpgrade == [g |-> None, a1 |-> None, a2 |-> "p1", a3 |-> "px", b1 |-> "p1", b2 |-> None]
SwAuxReq == [g |-> {}, a1 |-> {}, a2 |-> {}, a3 |-> {1}, b1 |-> {}, b2 |-> {1}]

(* Off the path: genesis is at height 1.  x1 and x2 do not descend from it *)
(* and z0 lies below it.  a2's upgrade to p1 is taken back by a3, which    *)
(* spec 0 refuses to follow; b2 names an unregistered predicate.           *)
OffBlock == {"g", "a2", "a3", "a4", "b2", "b3", "x1", "x2", "z0"}
OffParent == [g |-> "z0", a2 |-> "g", a3 |-> "a2", a4 |-> "a3", b2 |-> "g", b3 |-> "b2",
              x1 |-> "z0", x2 |-> "x1", z0 |-> "z0"]
OffHeight == [g |-> 1, a2 |-> 2, a3 |-> 3, a4 |-> 4, b2 |-> 2, b3 |-> 3,
              x1 |-> 1, x2 |-> 2, z0 |-> 0]
OffWork == [g |-> 1, a2 |-> 2, a3 |-> 3, a4 |-> 5, b2 |-> 3, b3 |-> 4,
            x1 |-> 2, x2 |-> 5, z0 |-> 6]
OffUpgrade == [g |-> None, a2 |-> "p1", a3 |-> "p0", a4 |-> None, b2 |-> "px", b3 |-> None,
               x1 |-> None, x2 |-> None, z0 |-> None]
OffAuxReq == [g |-> {}, a2 |-> {}, a3 |-> {2}, a4 |-> {}, b2 |-> {}, b3 |-> {},
              x1 |-> {}, x2 |-> {}, z0 |-> {}]

(* Trunk and fork: requests reach only the trunk block t1, whose peak no   *)
(* reorg can disturb; every block is executable.                           *)
FkBlock == {"g", "t1", "a2", "a3", "b2", "b3", "a4"}
FkParent == [g |-> "g", t1 |-> "g", a2 |-> "t1", a3 |-> "a2", a4 |-> "a3", b2 |-> "t1",
             b3 |-> "b2"]
FkHeight == [g |-> 0, t1 |-> 1, a2 |-> 2, a3 |-> 3, a4 |-> 4, b2 |-> 2, b3 |-> 3]
FkUpgrade == [g |-> None, t1 |-> None, a2 |-> "p1", a3 |-> None, a4 |-> None, b2 |-> None,
              b3 |-> "p1"]
FkAuxReq == [g |-> {}, t1 |-> {}, a2 |-> {1}, a3 |-> {1}, a4 |-> {}, b2 |-> {1}, b3 |-> {1}]
==============================================================================
