-------------------------------- MODULE Stages --------------------------------
(***************************************************************************)
(* The stages of a block, as the invariants of the subprotocols tell them  *)
(* apart.                                                                  *)
(***************************************************************************)
\* From the start of a block to the draining of the queue of updates.
BeforeDraining(st) == st \in {"preprocess", "resolve", "admin_pending"}

\* A change of the stage that neither passes the draining of the queue nor enters or
\* leaves the enacting.
Apart(st, next) ==
  \/ next = st
  \/ /\ st # "admin_enact" /\ next # "admin_enact"
     /\ BeforeDraining(st) => BeforeDraining(next)

\* From the pass over the expired assignments to the next block.
AfterPass(st) == st \in {"checkpoint_msgs", "bridge_msgs", "export", "idle"}

===============================================================================
