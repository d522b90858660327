-------------------------------- MODULE Peg ---------------------------------
(***************************************************************************)
(* What the bridge and the checkpoint subprotocols promise together: a     *)
(* withdrawal is ordered only against a deposit that is really held, every *)
(* ordered withdrawal gets a deposit and becomes owed, and what is owed    *)
(* leaves only by being paid.                                              *)
(***************************************************************************)
EXTENDS Integers

VARIABLES
    vault,      \* deposits held and not promised to a withdrawal
    free,       \* deposits that withdrawals may still be ordered against
    ordered,    \* withdrawals ordered, not yet backed by a deposit
    owed,       \* withdrawals an operator has to pay
    paid        \* withdrawals paid

pegVars == <<vault, free, ordered, owed, paid>>

Init == vault = 0 /\ free = 0 /\ ordered = 0 /\ owed = 0 /\ paid = 0

Deposit ==
    /\ vault' = vault + 1
    /\ free' = free + 1
    /\ UNCHANGED <<ordered, owed, paid>>

Order ==
    /\ ordered' > ordered
    /\ ordered' - ordered <= free
    /\ free' = free - (ordered' - ordered)
    /\ UNCHANGED <<vault, owed, paid>>

Assign ==
    /\ owed' > owed
    /\ owed' - owed <= ordered
    /\ ordered' = ordered - (owed' - owed)
    /\ vault' = vault - (owed' - owed)
    /\ UNCHANGED <<free, paid>>

Pay ==
    /\ owed > 0
    /\ owed' = owed - 1
    /\ paid' = paid + 1
    /\ UNCHANGED <<vault, free, ordered>>

Next == Deposit \/ Order \/ Assign \/ Pay
Spec == Init /\ [][Next]_pegVars
=============================================================================
