------------------------------ MODULE AsmLedger ------------------------------
(***************************************************************************)
(* What the ASM worker promises to the parts that read its database: the   *)
(* Moho worker, the prover and the RPC server.                             *)
(*                                                                         *)
(* While the process is up, blocks are only ever added, each on top of its *)
(* committed parent and with the state its ancestry determines.  Between   *)
(* two lives of the process the operator may drop a range of states.       *)
(***************************************************************************)
EXTENDS L1Chain

CONSTANT DropHeights   \* heights the operator may cut the stored states at

VARIABLES
  committed,    \* [Block -> AnchorState \cup {None}]
  up            \* the process is running

Committed(b) == committed[b] # None

Init == committed = [b \in Block |-> None] /\ up = FALSE

\* The genesis anchor is (re)stored during startup.
StoreGenesis ==
  /\ committed' = [committed EXCEPT ![Genesis] = GenesisState]
  /\ ~Committed(Genesis)
  /\ up' = TRUE

Start == ~up /\ up' = TRUE /\ UNCHANGED committed

\* A block becomes visible in one step; subscribers are told in that step.
Commit(b) ==
  /\ up
  /\ Above(b)
  /\ ~Committed(b)
  /\ Committed(Parent[b])
  /\ CanExecute(CanonState[Parent[b]], Auth[Parent[b]])
  /\ committed' = [committed EXCEPT ![b] = CanonState[b]]
  /\ UNCHANGED up

Stop == up /\ up' = FALSE /\ UNCHANGED committed

\* Offline, all states below a height or all states above it are dropped.
Drop(h) ==
  /\ ~up
  /\ \/ committed' = [b \in Block |-> IF Height[b] < h THEN None ELSE committed[b]]
     \/ committed' = [b \in Block |-> IF Height[b] > h THEN None ELSE committed[b]]
  /\ UNCHANGED up

Next ==
  \/ StoreGenesis \/ Start \/ Stop
  \/ \E b \in Block : Commit(b)
  \/ \E h \in DropHeights : Drop(h)

Spec == Init /\ [][Next]_<<committed, up>>
==============================================================================
