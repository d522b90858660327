-------------------------- MODULE MohoWorkerProofs ---------------------------
(***************************************************************************)
(* For every block tree, every export log and every bound: the stored Moho *)
(* states are the folds of their ancestries, the prover is told about a    *)
(* block only when the Moho states it reads are stored, every variable has *)
(* its type, and startup fails only for a reason.                          *)
(*                                                                         *)
(* The entry store mirrors every folded block without competitors, through *)
(* any kill and any re-run, and serves a proof of each entry exported once *)
(* and no wrong proof of any other.  MirrorInv is inductive for these.     *)
(***************************************************************************)
EXTENDS ExportProofs, NaturalsInduction, WellFoundedInduction, TLAPS

\* A leaf that names no prover is given to Zenon.
USE ZenonT(60)

\* Between reading the parent's state and storing the block's own.
Writing == {"prune", "prune_hash", "prune_height", "open_run", "append", "index", "store"}

\* What the ASM stored is canonical and belongs to the block it is stored under.
AnchorsInv ==
  /\ anchors \in [Block -> AnchorState \cup {None}]
  /\ \A b \in Block : anchors[b] # None =>
       /\ anchors[b] = CanonState[b]
       /\ b = Genesis \/ Above(b)

MohoInv ==
  /\ moho \in [Block -> MohoState \cup {None}]
  /\ \A b \in Block : Folded(b) => moho[b] = CanonMoho[b]

CurInv ==
  curBlock # None => /\ curBlock \in Block
                     /\ Folded(curBlock)
                     /\ curMoho = CanonMoho[curBlock]

\* Blocks handed to the fold are above genesis.
WorkInv ==
  /\ queue \in Seq(Block)
  /\ \A i \in 1..Len(queue) : Above(queue[i])
  /\ pending \in Seq(Block)
  /\ \A i \in 1..Len(pending) : Above(pending[i])
  /\ pc = "plan" => cursor \in Block
  /\ pc = "idle" => pending = <<>>

FoldInv ==
  /\ pc \in Writing \cup {"fold"} => pending # <<>>
  /\ pc \in Writing => next = CanonMoho[Current] /\ Folded(Parent[Current])

NotifiedInv ==
  /\ notified \in Seq(Block)
  /\ NotifiedProvable

\* Nothing in memory while the process is down.
DownInv == pc = "down" => curBlock = None /\ notified = <<>>

IInv == AnchorsInv /\ MohoInv /\ CurInv /\ WorkInv /\ FoldInv /\ NotifiedInv /\ DownInv
-----------------------------------------------------------------------------
\* Empty stores satisfy the invariant.
THEOREM InitInv == Init => IInv
<1> SUFFICES ASSUME Init PROVE IInv
  OBVIOUS
<1>1. AnchorsInv /\ MohoInv
  BY DEF Init, Asm!Init, AnchorsInv, MohoInv, Folded
<1>2. CurInv /\ DownInv
  BY DEF Init, CurInv, DownInv
<1>3. WorkInv /\ FoldInv /\ NotifiedInv
  BY SMTT(60) DEF Init, WorkInv, FoldInv, NotifiedInv, NotifiedProvable, Writing
<1> QED
  BY <1>1, <1>2, <1>3 DEF IInv

\* The oldest pending block is a block above genesis.
LEMMA CurrentFact ==
  ASSUME IInv, pending # <<>>
  PROVE  Current \in Block /\ Above(Current) /\ Parent[Current] \in Block
<1>1. pending \in Seq(Block) /\ \A i \in 1..Len(pending) : Above(pending[i])
  BY DEF IInv, WorkInv
<1>2. Len(pending) \in 1..Len(pending) /\ pending[Len(pending)] \in Block
  BY <1>1, SMTT(60)
<1> QED
  BY <1>1, <1>2, TreeAssumption DEF Current

\* All but the last element of a sequence.
LEMMA FrontFact ==
  ASSUME NEW S, NEW s \in Seq(S), Len(s) >= 1
  PROVE  /\ SubSeq(s, 1, Len(s) - 1) \in Seq(S)
         /\ Len(SubSeq(s, 1, Len(s) - 1)) = Len(s) - 1
         /\ \A i \in 1..(Len(s) - 1) : SubSeq(s, 1, Len(s) - 1)[i] = s[i]
<1> DEFINE n == Len(s) - 1
<1>1. n \in Nat /\ \A i \in 1..n : s[i] \in S
  BY SMTT(60)
<1> HIDE DEF n
<1>2. /\ SubSeq(s, 1, n) \in Seq(S)
      /\ Len(SubSeq(s, 1, n)) = IF 1 <= n THEN n - 1 + 1 ELSE 0
      /\ \A i \in 1..(n - 1 + 1) : SubSeq(s, 1, n)[i] = s[1 + i - 1]
  BY <1>1, SMTT(60)
<1>3. Len(SubSeq(s, 1, n)) = n
  BY <1>1, <1>2, SMTT(60)
<1>4. \A i \in 1..n : SubSeq(s, 1, n)[i] = s[i]
  BY <1>1, <1>2, SMTT(60)
<1> QED
  BY <1>2, <1>3, <1>4 DEF n

\* The invariant is inductive.
THEOREM StepInv == IInv /\ [Next]_vars => IInv'
\* The writes to the entry store leave everything else alone.
<1>EntryStep. ASSUME IInv,
                     \/ PruneLeaves \/ PruneHash \/ PruneHeight
                     \/ StartRun \/ AppendEntry \/ IndexEntry
              PROVE  IInv'
  <2> USE <1>EntryStep
  <2>1. pc \in Writing /\ pc' \in Writing
    BY DEF PruneLeaves, PruneHash, PruneHeight, StartRun, AppendEntry, IndexEntry, Writing,
       StartAppending
  <2>2. UNCHANGED foldUnchanged
    BY DEF PruneLeaves, PruneHash, PruneHeight, StartRun, AppendEntry, IndexEntry
  <2>3. UNCHANGED <<anchors, queue, moho, curBlock, curMoho, cursor, pending, next, notified>>
    BY <2>2 DEF foldUnchanged, asmVars, curVars, planVars
  <2>4. "plan" \notin Writing /\ "idle" \notin Writing /\ "down" \notin Writing
    BY DEF Writing
  <2>5. AnchorsInv' /\ MohoInv' /\ CurInv' /\ NotifiedInv'
    BY <2>3 DEF IInv, AnchorsInv, MohoInv, CurInv, NotifiedInv, NotifiedProvable, Folded
  <2>6. WorkInv' /\ DownInv'
    BY <2>1, <2>3, <2>4 DEF IInv, WorkInv, DownInv
  <2>7. FoldInv'
    BY <2>1, <2>3 DEF IInv, FoldInv, Folded, Current
  <2> QED
    BY <2>5, <2>6, <2>7 DEF IInv
\* The process stops, or nothing but bookkeeping changes.
<1>StopStep. ASSUME IInv, Exit \/ Crash PROVE IInv'
  <2> USE <1>StopStep
  <2>1. /\ UNCHANGED <<anchors, moho>>
        /\ queue' = <<>> /\ pending' = <<>> /\ notified' = <<>>
        /\ curBlock' = None /\ pc' = "down"
    BY DEF Exit, Crash, Stop, Asm!Stop
  <2>2. AnchorsInv' /\ MohoInv' /\ CurInv' /\ DownInv'
    BY <2>1 DEF IInv, AnchorsInv, MohoInv, CurInv, DownInv, Folded
  <2>3. WorkInv' /\ FoldInv' /\ NotifiedInv'
    BY <2>1, SMTT(60) DEF WorkInv, FoldInv, NotifiedInv, NotifiedProvable, Writing
  <2> QED
    BY <2>2, <2>3 DEF IInv
\* Offline prunes only remove entries.
<1>PruneStep. ASSUME IInv, NEW h, PruneAnchors(h) \/ PruneMoho(h)
              PROVE  IInv'
  <2> USE <1>PruneStep
  <2>1. CASE PruneAnchors(h)
    <3>1. UNCHANGED <<queue, moho, curBlock, curMoho, cursor, pending, next, notified, pc>>
      BY <2>1 DEF PruneAnchors, curVars, planVars
    <3>2. /\ anchors' \in [Block -> AnchorState \cup {None}]
          /\ \A b \in Block : anchors'[b] \in {anchors[b], None}
      BY <2>1 DEF PruneAnchors, Asm!Drop, IInv, AnchorsInv
    <3>3. AnchorsInv'
      BY <3>2 DEF IInv, AnchorsInv
    <3>4. MohoInv' /\ CurInv' /\ NotifiedInv' /\ WorkInv' /\ DownInv' /\ FoldInv'
      BY <3>1 DEF IInv, MohoInv, CurInv, NotifiedInv, NotifiedProvable, WorkInv, DownInv, FoldInv,
         Folded, Current
    <3> QED
      BY <3>3, <3>4 DEF IInv
  <2>2. CASE PruneMoho(h)
    <3>1. /\ UNCHANGED <<anchors, queue, curBlock, curMoho, cursor, pending, next, notified, pc>>
          /\ pc = "down"
      BY <2>2 DEF PruneMoho, asmVars, curVars, planVars
    <3>2. /\ moho' \in [Block -> MohoState \cup {None}]
          /\ \A b \in Block : moho'[b] \in {moho[b], None}
      BY <2>2 DEF PruneMoho, IInv, MohoInv
    <3>3. curBlock = None /\ notified = <<>>
      BY <3>1 DEF IInv, DownInv
    <3>4. AnchorsInv' /\ WorkInv' /\ DownInv'
      BY <3>1 DEF IInv, AnchorsInv, WorkInv, DownInv
    <3>5. MohoInv' /\ CurInv'
      BY <3>1, <3>2, <3>3 DEF IInv, MohoInv, CurInv, Folded
    <3>6. NotifiedInv' /\ FoldInv'
      BY <3>1, <3>3, SMTT(60) DEF IInv, NotifiedInv, NotifiedProvable, FoldInv, Writing
    <3> QED
      BY <3>4, <3>5, <3>6 DEF IInv
  <2> QED
    BY <2>1, <2>2
\* A commit of the ASM worker is queued.
<1>CommitStep. ASSUME IInv, NEW b \in Block, AsmCommit(b) PROVE IInv'
  <2> USE <1>CommitStep
  <2>1. /\ UNCHANGED <<moho, curBlock, curMoho, cursor, pending, next, notified, pc>>
        /\ queue' = queue \/ queue' = Append(queue, b)
    BY DEF AsmCommit, curVars, planVars
  <2>2. Asm!Above(b) <=> Above(b)
    BY DEF Asm!Above, Above, Asm!GenesisHeight, GenesisHeight
  <2>3. Above(b) /\ anchors' = [anchors EXCEPT ![b] = CanonState[b]]
    BY <2>2 DEF AsmCommit, Asm!Commit
  <2>4. AnchorsInv'
    BY <2>3, FoldAssumption DEF IInv, AnchorsInv
  <2>5. WorkInv'
    <3>1. queue' \in Seq(Block) /\ \A i \in 1..Len(queue') : Above(queue'[i])
      <4>1. queue \in Seq(Block) /\ \A i \in 1..Len(queue) : Above(queue[i])
        BY DEF IInv, WorkInv
      <4>2. /\ Append(queue, b) \in Seq(Block)
            /\ \A i \in 1..Len(Append(queue, b)) :
                 Append(queue, b)[i] = b \/ (i \in 1..Len(queue) /\ Append(queue, b)[i] = queue[i])
        BY <4>1, SMTT(60)
      <4> QED
        BY <2>1, <2>3, <4>1, <4>2
    <3> QED
      BY <2>1, <3>1 DEF IInv, WorkInv
  <2>6. MohoInv' /\ CurInv' /\ NotifiedInv' /\ DownInv' /\ FoldInv'
    BY <2>1 DEF IInv, MohoInv, CurInv, NotifiedInv, NotifiedProvable, DownInv, FoldInv, Folded,
       Current
  <2> QED
    BY <2>4, <2>5, <2>6 DEF IInv
\* Startup: the ASM's genesis anchor, the genesis Moho state, the walk.
<1>LaunchStep. ASSUME IInv, LaunchAsm PROVE IInv'
  <2> USE <1>LaunchStep
  <2>1. /\ UNCHANGED <<queue, moho, curBlock, curMoho, pending, next, notified>>
        /\ pc' = "seed"
    BY DEF LaunchAsm, curVars, planVars
  <2>2. Asm!GenesisState = GenesisState
    BY DEF Asm!GenesisState, GenesisState, Asm!Heights, Heights, Asm!GenesisHeight, GenesisHeight
  <2>3. anchors' = anchors \/ anchors' = [anchors EXCEPT ![Genesis] = GenesisState]
    BY <2>2 DEF LaunchAsm, Asm!Start, Asm!StoreGenesis
  <2>4. AnchorsInv'
    <3>1. /\ GenesisState = CanonState[Genesis] /\ GenesisState \in AnchorState
          /\ Genesis \in Block
      BY TreeAssumption, FoldAssumption
    <3>2. anchors' \in [Block -> AnchorState \cup {None}]
      BY <2>3, <3>1  DEF IInv, AnchorsInv
    <3>3. \A b \in Block : anchors'[b] = anchors[b] \/ (b = Genesis /\ anchors'[b] = GenesisState)
      BY <2>3, <3>1  DEF IInv, AnchorsInv
    <3> QED
      BY <3>1, <3>2, <3>3 DEF IInv, AnchorsInv
  <2>5. MohoInv' /\ CurInv' /\ NotifiedInv'
    BY <2>1 DEF IInv, MohoInv, CurInv, NotifiedInv, NotifiedProvable, Folded
  <2>6. WorkInv' /\ FoldInv' /\ DownInv'
    BY <2>1  DEF IInv, WorkInv, FoldInv, DownInv, Writing
  <2> QED
    BY <2>4, <2>5, <2>6 DEF IInv
\* The worker resumes from a stored state, which is canonical (MohoWorkerServiceState::new).
<1>SeedStep. ASSUME IInv, Seed PROVE IInv'
  <2> USE <1>SeedStep
  <2>1. UNCHANGED <<anchors, queue, pending, next, notified>>
    BY DEF Seed, asmVars
  <2>2. GenesisMoho \in MohoState /\ GenesisMoho = CanonMoho[Genesis] /\ Genesis \in Block
    BY ExportAssumption, TreeAssumption
  <2>3. CASE pc' = "failed"
    <3>1. UNCHANGED <<moho, curBlock, curMoho>>
      BY <2>3  DEF Seed, curVars
    <3>2. AnchorsInv' /\ MohoInv' /\ CurInv' /\ NotifiedInv'
      BY <2>1, <3>1 DEF IInv, AnchorsInv, MohoInv, CurInv, NotifiedInv, NotifiedProvable, Folded
    <3>3. WorkInv' /\ FoldInv' /\ DownInv'
      BY <2>1, <2>3  DEF IInv, WorkInv, FoldInv, DownInv, Writing
    <3> QED
      BY <3>2, <3>3 DEF IInv
  <2>4. CASE pc' = "plan"
    <3>1. Resume(Seeded)
      BY <2>4  DEF Seed
    <3>2. PICK b, t \in Block : /\ IsLast(Seeded, b)
                               /\ moho' = Seeded
                               /\ curBlock' = b
                               /\ curMoho' = Seeded[b]
                               /\ cursor' = t
      BY <3>1 DEF Resume
    <3>3. MohoInv' /\ \A c \in Block : Folded(c) => Folded(c)'
      BY <2>2, <3>2, LogAssumption, ExportAssumption  DEF IInv, MohoInv, Folded, Seeded
    <3>4. CurInv'
      <4>1. Folded(b)'
        BY <3>2 DEF IsLast, Folded
      <4> QED
        BY <3>2, <3>3, <4>1 DEF CurInv, MohoInv
    <3>5. NotifiedInv'
      <4>1. \A i \in DOMAIN notified : notified[i] \in Block
        BY SMTT(60) DEF IInv, NotifiedInv
      <4>2. \A c \in Block : Parent[c] \in Block
        BY TreeAssumption
      <4> QED
        BY <2>1, <3>3, <4>1, <4>2 DEF IInv, NotifiedInv, NotifiedProvable
    <3>6. AnchorsInv'
      BY <2>1 DEF IInv, AnchorsInv
    <3>7. WorkInv' /\ FoldInv' /\ DownInv'
      BY <2>1, <2>4, <3>2  DEF IInv, WorkInv, FoldInv, DownInv, Writing
    <3> QED
      BY <3>3, <3>4, <3>5, <3>6, <3>7 DEF IInv
  <2> QED
    BY <2>3, <2>4 DEF Seed
\* The backward walk of sync_to_tip collects blocks above genesis, each the child
\* of the next.
<1>PlanStep. ASSUME IInv, Plan PROVE IInv'
  <2> USE <1>PlanStep
  <2>1. UNCHANGED <<anchors, queue, moho, curBlock, curMoho, next, notified>> /\ pc = "plan"
    BY DEF Plan, asmVars, curVars
  <2>2. AnchorsInv' /\ MohoInv' /\ CurInv' /\ NotifiedInv'
    BY <2>1 DEF IInv, AnchorsInv, MohoInv, CurInv, NotifiedInv, NotifiedProvable, Folded
  <2>3. cursor \in Block /\ pending \in Seq(Block) /\ \A i \in 1..Len(pending) : Above(pending[i])
    BY <2>1 DEF IInv, WorkInv
  <2>4. CASE pending' = pending
    <3>1. /\ pc' \in {"idle", "fold", "failed"}
          /\ pc' = "idle" => pending = <<>>
          /\ pc' = "fold" => pending # <<>>
      <4>1. pending # Append(pending, cursor)
        BY <2>3, SMTT(60)
      <4> QED
        BY <2>4, <4>1  DEF Plan
    <3>2. WorkInv' /\ FoldInv' /\ DownInv'
      BY <2>1, <2>3, <2>4, <3>1  DEF IInv, WorkInv, FoldInv, DownInv, Writing
    <3> QED
      BY <2>2, <3>2 DEF IInv
  <2>5. CASE pending' # pending
    <3>1. pc' = "plan" /\ Above(cursor) /\ pending' = Append(pending, cursor) /\ cursor' = Parent[cursor]
      BY <2>1, <2>5  DEF Plan
    <3>2. cursor' \in Block
      BY <2>3, <3>1, TreeAssumption
    <3>3. /\ pending' \in Seq(Block)
          /\ \A i \in 1..Len(pending') :
               pending'[i] = cursor \/ (i \in 1..Len(pending) /\ pending'[i] = pending[i])
      BY <2>3, <3>1, SMTT(60)
    <3>4. \A i \in 1..Len(pending') : Above(pending'[i])
      BY <2>3, <3>1, <3>3
    <3>5. WorkInv' /\ FoldInv' /\ DownInv'
      BY <2>1, <3>1, <3>2, <3>3, <3>4  DEF IInv, WorkInv, FoldInv, DownInv, Writing
    <3> QED
      BY <2>2, <3>5 DEF IInv
  <2> QED
    BY <2>4, <2>5
\* A received commit becomes the only pending block (process_input).
<1>ReceiveStep. ASSUME IInv, Receive PROVE IInv'
  <2> USE <1>ReceiveStep
  <2>1. /\ UNCHANGED <<anchors, moho, curBlock, curMoho, cursor, next, notified>>
        /\ queue # <<>> /\ pending' = <<Head(queue)>> /\ queue' = Tail(queue) /\ pc' = "fold"
    BY DEF Receive, curVars
  <2>2. AnchorsInv' /\ MohoInv' /\ CurInv' /\ NotifiedInv'
    BY <2>1 DEF IInv, AnchorsInv, MohoInv, CurInv, NotifiedInv, NotifiedProvable, Folded
  <2>3. queue \in Seq(Block) /\ \A i \in 1..Len(queue) : Above(queue[i])
    BY DEF IInv, WorkInv
  <2>4. /\ queue' \in Seq(Block)
        /\ \A i \in 1..Len(queue') : i + 1 \in 1..Len(queue) /\ queue'[i] = queue[i + 1]
        /\ Head(queue) \in Block /\ 1 \in 1..Len(queue) /\ Head(queue) = queue[1]
    BY <2>1, <2>3, SMTT(60)
  <2>5. (\A i \in 1..Len(queue') : Above(queue'[i])) /\ Above(Head(queue))
    BY <2>3, <2>4
  <2>6. WorkInv' /\ FoldInv' /\ DownInv'
    BY <2>1, <2>4, <2>5, SMTT(60) DEF WorkInv, FoldInv, DownInv, Writing
  <2> QED
    BY <2>2, <2>6 DEF IInv
\* The state computed from the parent's is the block's own.
<1>FoldStep. ASSUME IInv, Fold PROVE IInv'
  <2> USE <1>FoldStep
  <2>1. /\ UNCHANGED <<anchors, queue, moho, curBlock, curMoho, cursor, pending, notified>>
        /\ pc = "fold"
    BY DEF Fold, asmVars, curVars, planVars
  <2>2. AnchorsInv' /\ MohoInv' /\ CurInv' /\ NotifiedInv'
    BY <2>1 DEF IInv, AnchorsInv, MohoInv, CurInv, NotifiedInv, NotifiedProvable, Folded
  <2>3. pending # <<>> /\ Current \in Block /\ Above(Current) /\ Parent[Current] \in Block
    BY <2>1, CurrentFact DEF IInv, FoldInv
  <2>4. CASE pc' = "failed"
    BY <2>1, <2>2, <2>4  DEF IInv, WorkInv, FoldInv, DownInv, Writing
  <2>5. CASE pc' # "failed"
    <3>1. /\ ParentState # None /\ anchors[Current] # None
          /\ next' = NextMoho(ParentState, anchors[Current])
          /\ pc' = "prune"
      BY <2>5 DEF Fold
    <3>2. anchors[Current] = CanonState[Current]
      BY <2>3, <3>1 DEF IInv, AnchorsInv
    <3>3. ParentState = CanonMoho[Parent[Current]] /\ Folded(Parent[Current])
      <4>1. CASE curBlock = Parent[Current]
        <5>1. curBlock # None
          BY <2>3, <4>1, TreeAssumption
        <5> QED
          BY <4>1, <5>1 DEF IInv, CurInv, ParentState
      <4>2. CASE curBlock # Parent[Current]
        BY <2>3, <3>1, <4>2 DEF IInv, MohoInv, ParentState, Folded
      <4> QED
        BY <4>1, <4>2
    <3>4. next' = CanonMoho[Current]
      BY <2>3, <3>1, <3>2, <3>3, ExportAssumption
    <3>5. Current' = Current /\ Folded(Parent[Current])'
      BY <2>1, <3>3 DEF Current, Folded
    <3>6. FoldInv'
      BY <2>1, <2>3, <3>4, <3>5 DEF FoldInv
    <3>7. WorkInv' /\ DownInv'
      BY <2>1, <3>1  DEF IInv, WorkInv, DownInv
    <3> QED
      BY <2>2, <3>6, <3>7 DEF IInv
  <2> QED
    BY <2>4, <2>5
\* The computed state becomes the stored one and the one in memory (store_moho_state,
\* update_moho_state), and the prover is told.
<1>StoreStep. ASSUME IInv, StoreMoho PROVE IInv'
  <2> USE <1>StoreStep
  <2>1. /\ UNCHANGED <<anchors, queue, cursor>>
        /\ pc = "store"
        /\ moho' = [moho EXCEPT ![Current] = next]
        /\ curMoho' = next /\ curBlock' = Current
        /\ notified' \in {notified, Append(notified, Current)}
        /\ pending' = SubSeq(pending, 1, Len(pending) - 1)
        /\ pc' = IF Len(pending) = 1 THEN "idle" ELSE "fold"
    BY DEF StoreMoho, asmVars
  <2>2. /\ pending # <<>> /\ next = CanonMoho[Current] /\ Folded(Parent[Current])
    BY <2>1  DEF IInv, FoldInv, Writing
  <2>3. Current \in Block /\ Parent[Current] \in Block
    BY <2>2, CurrentFact
  <2>4. next \in MohoState /\ next # None
    <3>1. CanonMoho \in [Block -> MohoState] /\ None \notin MohoState
      BY ExportAssumption
    <3> QED
      BY <2>2, <2>3, <3>1
  <2>5. /\ moho' \in [Block -> MohoState \cup {None}]
        /\ \A b \in Block : moho'[b] = moho[b] \/ (b = Current /\ moho'[b] = next)
        /\ moho'[Current] = next
    BY <2>1, <2>3, <2>4  DEF IInv, MohoInv
  <2>6. /\ MohoInv' /\ CurInv'
        /\ moho'[Current] # None
        /\ \A b \in Block : Folded(b) => Folded(b)'
    <3>1. \A b \in Block : Folded(b) => moho[b] = CanonMoho[b]
      BY DEF IInv, MohoInv
    <3>2. MohoInv'
      BY <2>2, <2>5, <3>1 DEF MohoInv, Folded
    <3>3. moho'[Current] # None
      BY <2>4, <2>5
    <3>4. CurInv'
      BY <2>1, <2>2, <2>3, <3>3 DEF CurInv, Folded
    <3>5. \A b \in Block : Folded(b) => Folded(b)'
      BY <2>4, <2>5 DEF Folded
    <3> QED
      BY <3>2, <3>3, <3>4, <3>5
  <2>7. NotifiedInv'
    <3>1. notified \in Seq(Block) /\ NotifiedProvable
      BY DEF IInv, NotifiedInv
    <3>2. /\ notified' \in Seq(Block)
          /\ \A i \in DOMAIN notified' :
               notified'[i] = Current \/ (i \in DOMAIN notified /\ notified'[i] = notified[i])
      <4>1. CASE notified' = notified
        BY <3>1, <4>1
      <4>2. CASE notified' = Append(notified, Current)
        <5>1. notified' \in Seq(Block) /\ Len(notified') = Len(notified) + 1
          BY <2>3, <3>1, <4>2, SMTT(60)
        <5>2. \A i \in 1..(Len(notified) + 1) :
                notified'[i] = Current \/ (i \in 1..Len(notified) /\ notified'[i] = notified[i])
          BY <2>3, <3>1, <4>2, SMTT(60)
        <5>3. DOMAIN notified = 1..Len(notified) /\ DOMAIN notified' = 1..(Len(notified) + 1)
          BY <3>1, <5>1, SMTT(60)
        <5> QED
          BY <5>1, <5>2, <5>3
      <4> QED
        BY <2>1, <4>1, <4>2
    <3>3. \A i \in DOMAIN notified : notified[i] \in Block
      BY <3>1, SMTT(60)
    <3>4. \A b \in Block : Parent[b] \in Block
      BY TreeAssumption
    <3>5. NotifiedProvable'
      <4> SUFFICES ASSUME NEW i \in DOMAIN notified'
                   PROVE  moho'[notified'[i]] # None /\ moho'[Parent[notified'[i]]] # None
        BY DEF NotifiedProvable, Folded
      <4>1. CASE notified'[i] = Current
        BY <2>2, <2>3, <2>6, <4>1 DEF Folded
      <4>2. CASE i \in DOMAIN notified /\ notified'[i] = notified[i]
        <5>1. Folded(notified[i]) /\ Folded(Parent[notified[i]])
          BY <3>1, <4>2 DEF NotifiedProvable
        <5>2. notified[i] \in Block /\ Parent[notified[i]] \in Block
          BY <3>3, <3>4, <4>2
        <5> QED
          BY <2>6, <4>2, <5>1, <5>2 DEF Folded
      <4> QED
        BY <3>2, <4>1, <4>2
    <3> QED
      BY <3>2, <3>5 DEF NotifiedInv
  <2>8. /\ pending' \in Seq(Block)
        /\ \A i \in 1..Len(pending') : i \in 1..Len(pending) /\ pending'[i] = pending[i]
        /\ Len(pending) = 1 => pending' = <<>>
        /\ Len(pending) # 1 => pending' # <<>>
    <3>1. pending \in Seq(Block) /\ Len(pending) \in Nat /\ Len(pending) >= 1
      BY <2>2, SMTT(60) DEF IInv, WorkInv
    <3>2. /\ pending' \in Seq(Block)
          /\ Len(pending') = Len(pending) - 1
          /\ \A i \in 1..(Len(pending) - 1) : pending'[i] = pending[i]
      BY <2>1, <3>1, FrontFact
    <3>3. Len(pending) = 1 => pending' = <<>>
      BY <3>2, SMTT(60)
    <3>4. Len(pending) # 1 => pending' # <<>>
      BY <3>1, <3>2, SMTT(60)
    <3> QED
      BY <3>1, <3>2, <3>3, <3>4, SMTT(60)
  <2>9. WorkInv' /\ FoldInv' /\ DownInv'
    BY <2>1, <2>8  DEF IInv, WorkInv, FoldInv, DownInv, Writing
  <2>10. AnchorsInv'
    BY <2>1 DEF IInv, AnchorsInv
  <2> QED
    BY <2>6, <2>7, <2>9, <2>10 DEF IInv
\* A failed header request ends the worker and writes nothing.
<1>FaultStep. ASSUME IInv, ParentUnavailable PROVE IInv'
  <2> USE <1>FaultStep
  <2>1. /\ UNCHANGED <<anchors, queue, moho, curBlock, curMoho, cursor, pending, next, notified>>
        /\ pc' = "failed"
    BY DEF ParentUnavailable, asmVars, curVars, planVars
  <2>2. AnchorsInv' /\ MohoInv' /\ CurInv' /\ NotifiedInv'
    BY <2>1 DEF IInv, AnchorsInv, MohoInv, CurInv, NotifiedInv, NotifiedProvable, Folded
  <2>3. WorkInv' /\ FoldInv' /\ DownInv'
    BY <2>1  DEF IInv, WorkInv, FoldInv, DownInv, Writing
  <2> QED
    BY <2>2, <2>3 DEF IInv
<1>main. IInv /\ [Next]_vars => IInv'
  <2> SUFFICES ASSUME IInv, [Next]_vars PROVE IInv'
    OBVIOUS
  <2>1. CASE UNCHANGED vars
    <3>1. UNCHANGED <<anchors, queue, moho, curBlock, curMoho, cursor, pending, next, notified, pc>>
      BY <2>1 DEF vars, asmVars, curVars, planVars
    <3> QED
      BY <3>1 DEF IInv, AnchorsInv, MohoInv, CurInv, WorkInv, FoldInv, NotifiedInv,
         NotifiedProvable, DownInv, Folded, Current
  <2>2. CASE MohoStep
    BY <2>2, <1>SeedStep, <1>PlanStep, <1>ReceiveStep, <1>FoldStep, <1>EntryStep, <1>StoreStep DEF MohoStep
  <2>3. CASE LaunchAsm \/ ParentUnavailable \/ Exit \/ Crash
    BY <2>3, <1>LaunchStep, <1>FaultStep, <1>StopStep
  <2>4. CASE \E b \in Block : AsmCommit(b)
    BY <2>4, <1>CommitStep
  <2>5. CASE (\E h \in DropHeights : PruneAnchors(h)) \/ (\E h \in MohoHeights : PruneMoho(h))
    BY <2>5, <1>PruneStep
  <2> QED
    BY <2>1, <2>2, <2>3, <2>4, <2>5 DEF Next
<1> QED
  BY <1>main, Zenon

\* Every stored Moho state is the fold of its block's own ancestry, through all
\* reorgs, kills, failed requests and prunes (process_block).
THEOREM Canonical == Spec => []MohoCanonical
<1>1. IInv => MohoCanonical
  BY DEF IInv, MohoInv, CurInv, MohoCanonical
<1> QED
  BY InitInv, StepInv, <1>1, PTL DEF Spec

\* The prover is told about a block only when the Moho states of the block and
\* of its parent are stored (process_input).
THEOREM Provable == Spec => []NotifiedProvable
<1>1. IInv => NotifiedProvable
  BY DEF IInv, NotifiedInv
<1> QED
  BY InitInv, StepInv, <1>1, PTL DEF Spec
-----------------------------------------------------------------------------
(* Types; the interesting part is the position inside a block's run of      *)
(* entries, which AppendEntry and IndexEntry read back from the store.      *)

\* While a block's entries are written every open container gets some; between
\* the height row and the last hash row the run is inside the block's entries.
RunInv ==
  /\ pc \in Writing => \A c \in todo : Exports[Current][c] # <<>>
  /\ pc \in {"open_run", "append", "index"} => todo # {}
  /\ pc \in {"append", "index"} => heightIdx[Appending][CurrentHeight] \in Nat
  /\ pc = "append" => Appended \in 0..(Len(Exports[Current][Appending]) - 1)
  /\ pc = "index" => Appended \in 1..Len(Exports[Current][Appending])

TypedInv == TypeInv /\ RunInv

\* A non-empty set of numbers has a least one.
LEMMA LeastOf ==
  ASSUME NEW S \in SUBSET Nat, S # {}
  PROVE  MinOf(S) \in S /\ \A y \in S : MinOf(S) <= y
<1>1. IsWellFoundedOn(OpToRel(<, Nat), Nat)
  BY NatLessThanWellFounded
<1>2. PICK x \in S : \A y \in S : <<y, x>> \notin OpToRel(<, Nat)
  BY <1>1, WFMin
<1>3. ASSUME NEW y \in S PROVE x <= y
  <2>1. <<y, x>> \notin OpToRel(<, Nat) /\ x \in Nat /\ y \in Nat
    BY <1>2
  <2> QED
    BY <2>1, SMTT(60) DEF OpToRel
<1> QED
  BY <1>3 DEF MinOf

\* What the types of the other variables rest on; the invariant has the rest.
PlainTypes ==
  /\ up \in BOOLEAN /\ live \in BOOLEAN
  /\ pc \in Stage
  /\ curMoho \in MohoState \cup {None}
  /\ cursor \in Block \cup {None}
  /\ next \in MohoState \cup {None}
  /\ todo \subseteq Container
  /\ crashes \in Nat /\ faults \in Nat /\ asmPrunes \in Nat /\ mohoPrunes \in Nat

\* The invariant types the stores, the lists of blocks and the resumed block.
LEMMA TypesSplit == IInv => (TypeInv <=> PlainTypes /\ EntriesTypeInv)
<1>1. IInv => /\ anchors \in [Block -> AnchorState \cup {None}]
              /\ moho \in [Block -> MohoState \cup {None}]
              /\ queue \in Seq(Block) /\ pending \in Seq(Block) /\ notified \in Seq(Block)
              /\ curBlock \in Block \cup {None}
  BY DEF IInv, AnchorsInv, MohoInv, WorkInv, NotifiedInv, CurInv
<1> QED
  BY <1>1 DEF TypeInv, PlainTypes

\* The block being written has a height of its own and entries of the containers.
LEMMA WritingFact ==
  ASSUME IInv, TypedInv, pc \in Writing
  PROVE  /\ Current \in Block
         /\ CurrentHeight \in Heights
         /\ Heights \subseteq Nat
         /\ \A c \in Container : Exports[Current][c] \in Seq(Leaf)
         /\ pc \in {"open_run", "append", "index"} => Appending \in todo /\ Appending \in Container
<1>1. Current \in Block /\ Above(Current)
  BY CurrentFact DEF IInv, FoldInv
<1>2. \A b \in Block : Height[b] \in Nat
  BY TreeAssumption
<1>3. CurrentHeight \in Heights /\ Heights \subseteq Nat
  BY <1>1, <1>2, TreeAssumption, SMTT(60) DEF Above, CurrentHeight, Heights, GenesisHeight
<1>4. \A c \in Container : Exports[Current][c] \in Seq(Leaf)
  <2>1. Exports \in [Block -> [Container -> Seq(Leaf)]]
    BY ExportAssumption
  <2> QED
    BY <1>1, <2>1
<1>5. ASSUME pc \in {"open_run", "append", "index"} PROVE Appending \in todo /\ Appending \in Container
  <2>1. todo # {} /\ todo \subseteq Container /\ Container \subseteq Nat
    BY <1>5, ExportAssumption DEF TypedInv, TypeInv, RunInv
  <2>2. MinOf(todo) \in todo
    BY <2>1, LeastOf
  <2> QED
    BY <2>1, <2>2 DEF Appending
<1> QED
  BY <1>1, <1>3, <1>4, <1>5

\* Every step keeps the types.
LEMMA TypedStep ==
     IInv /\ IInv' /\ TypedInv /\ [Next]_vars
                                              => TypedInv'
\* Outside the writes nothing is demanded of the runs; when the stage, the block
\* and the store stay, nothing changes.
<1>RunKept. ASSUME RunInv,
                   pc' \notin Writing \/ UNCHANGED <<pc, todo, pending, leaves, hashIdx, heightIdx>>
            PROVE  RunInv'
  <2> USE <1>RunKept
  <2>1. CASE pc' \notin Writing
    BY <2>1  DEF RunInv, Writing
  <2>2. CASE UNCHANGED <<pc, todo, pending, leaves, hashIdx, heightIdx>>
    BY <2>2 DEF RunInv, Appended, Appending, Current, CurrentHeight
  <2> QED
    BY <2>1, <2>2
\* Startup and the end of the process.
<1>TypedLife. ASSUME IInv, TypedInv, LaunchAsm \/ Seed \/ Plan \/ Exit \/ Crash \/ ParentUnavailable
              PROVE  PlainTypes' /\ RunInv' /\ UNCHANGED entryVars
  <2> USE <1>TypedLife
  <2>1. PlainTypes /\ RunInv
    BY TypesSplit DEF TypedInv
  <2>2. CASE LaunchAsm
    <3>1. /\ pc' = "seed" /\ up' = TRUE
          /\ UNCHANGED <<entryVars, live, curMoho, cursor, next, todo, crashes, faults, asmPrunes, mohoPrunes>>
      BY <2>2 DEF LaunchAsm, Asm!Start, Asm!StoreGenesis, curVars, planVars, boundVars
    <3>2. pc' \in Stage /\ pc' \notin Writing
      BY <3>1  DEF Stage, Writing
    <3> QED
      BY <2>1, <3>1, <3>2, <1>RunKept DEF PlainTypes
  <2>3. CASE Seed
    <3>1. UNCHANGED <<up, entryVars, live, next, todo, crashes, faults, asmPrunes, mohoPrunes>>
      BY <2>3 DEF Seed, asmVars, boundVars
    <3>2. pc' \in Stage /\ pc' \notin Writing
      BY <2>3  DEF Seed, Stage, Writing
    <3>3. curMoho' \in MohoState \cup {None} /\ cursor' \in Block \cup {None}
      <4>1. CASE UNCHANGED <<curVars, cursor>>
        BY <2>1, <4>1 DEF PlainTypes, curVars
      <4>2. CASE Resume(Seeded)
        <5>1. Seeded \in [Block -> MohoState \cup {None}]
          <6>1. GenesisMoho \in MohoState /\ Genesis \in Block
            BY TreeAssumption, ExportAssumption
          <6> QED
            BY <6>1  DEF IInv, MohoInv, Seeded
        <5> QED
          BY <4>2, <5>1 DEF Resume
      <4> QED
        BY <2>3, <4>1, <4>2 DEF Seed
    <3> QED
      BY <2>1, <3>1, <3>2, <3>3, <1>RunKept DEF PlainTypes
  <2>4. CASE Plan
    <3>1. UNCHANGED <<up, entryVars, curMoho, next, todo, crashes, faults, asmPrunes, mohoPrunes>>
      BY <2>4 DEF Plan, asmVars, curVars, boundVars
    <3>2. pc' \in Stage /\ pc' \notin Writing
      BY <2>4  DEF Plan, Stage, Writing
    <3>3. cursor \in Block /\ Parent[cursor] \in Block
      BY <2>4, TreeAssumption DEF Plan, IInv, WorkInv
    <3>4. live' \in BOOLEAN /\ cursor' \in Block \cup {None}
      BY <2>1, <2>4, <3>3 DEF Plan, PlainTypes
    <3> QED
      BY <2>1, <3>1, <3>2, <3>4, <1>RunKept DEF PlainTypes
  <2>5. CASE Exit \/ Crash
    <3>1. /\ pc' = "down" /\ live' = FALSE /\ up' = FALSE
          /\ curMoho' = None /\ cursor' = None /\ next' = None /\ todo' = {}
          /\ UNCHANGED <<entryVars, faults, asmPrunes, mohoPrunes>>
          /\ crashes' \in {crashes, crashes + 1}
      BY <2>5 DEF Exit, Crash, Stop, Asm!Stop
    <3>2. pc' \in Stage /\ pc' \notin Writing
      BY <3>1  DEF Stage, Writing
    <3>3. crashes' \in Nat
      BY <2>1, <3>1, SMTT(60) DEF PlainTypes
    <3> QED
      BY <2>1, <3>1, <3>2, <3>3, <1>RunKept DEF PlainTypes
  <2>6. CASE ParentUnavailable
    <3>1. /\ pc' = "failed" /\ faults' = faults + 1
          /\ UNCHANGED <<up, entryVars, live, curMoho, cursor, next, todo, crashes, asmPrunes, mohoPrunes>>
      BY <2>6 DEF ParentUnavailable, asmVars, curVars, planVars
    <3>2. pc' \in Stage /\ pc' \notin Writing
      BY <3>1  DEF Stage, Writing
    <3>3. faults' \in Nat
      BY <2>1, <3>1, SMTT(60) DEF PlainTypes
    <3> QED
      BY <2>1, <3>1, <3>2, <3>3, <1>RunKept DEF PlainTypes
  <2> QED
    BY <2>2, <2>3, <2>4, <2>5, <2>6
\* Commits, prunes, and the fold of a block up to its entries and after them.
<1>TypedFold. ASSUME IInv, IInv', TypedInv,
                     \/ Receive \/ Fold \/ StoreMoho
                     \/ \E b \in Block : AsmCommit(b)
                     \/ \E h \in DropHeights : PruneAnchors(h)
                     \/ \E h \in MohoHeights : PruneMoho(h)
              PROVE  PlainTypes' /\ RunInv' /\ UNCHANGED entryVars
  <2> USE <1>TypedFold
  <2>1. PlainTypes /\ RunInv
    BY TypesSplit DEF TypedInv
  <2>2. CASE Receive
    <3>1. /\ pc' = "fold"
          /\ UNCHANGED <<up, entryVars, live, curMoho, cursor, next, todo, crashes, faults, asmPrunes, mohoPrunes>>
      BY <2>2 DEF Receive, curVars, boundVars
    <3>2. pc' \in Stage /\ pc' \notin Writing
      BY <3>1  DEF Stage, Writing
    <3> QED
      BY <2>1, <3>1, <3>2, <1>RunKept DEF PlainTypes
  <2>3. CASE Fold
    <3>1. UNCHANGED <<up, entryVars, live, curMoho, cursor, pending, crashes, faults, asmPrunes, mohoPrunes>>
      BY <2>3 DEF Fold, asmVars, curVars, planVars, boundVars
    <3>2. CASE pc' = "failed" /\ UNCHANGED <<next, todo>>
      <4>1. pc' \in Stage /\ pc' \notin Writing
        BY <3>2  DEF Stage, Writing
      <4> QED
        BY <2>1, <3>1, <3>2, <4>1, <1>RunKept DEF PlainTypes
    <3>3. CASE pc' = "prune" /\ todo' = {c \in Container : Exports[Current][c] # <<>>}
      <4>1. pc' \in Stage /\ pc' \in Writing /\ pc' \notin {"open_run", "append", "index"}
        BY <3>3  DEF Stage, Writing
      <4>2. next' \in MohoState
        <5>1. next' = CanonMoho[Current'] /\ pending' # <<>>
          BY <4>1 DEF IInv, FoldInv
        <5>2. pending' \in Seq(Block)
          BY DEF IInv, WorkInv
        <5>3. Current' \in Block
          BY <5>1, <5>2, SMTT(60) DEF Current
        <5> QED
          BY <5>1, <5>3, ExportAssumption
      <4>3. Current' = Current
        BY <3>1 DEF Current
      <4>4. RunInv'
        BY <3>3, <4>1, <4>3 DEF RunInv
      <4> QED
        BY <2>1, <3>1, <3>3, <4>1, <4>2, <4>4 DEF PlainTypes
    <3> QED
      BY <2>3, <3>2, <3>3 DEF Fold
  <2>4. CASE StoreMoho
    <3>1. /\ curMoho' = next /\ next' = None /\ live' \in BOOLEAN
          /\ UNCHANGED <<up, entryVars, cursor, todo, crashes, faults, asmPrunes, mohoPrunes>>
      BY <2>4 DEF StoreMoho, asmVars, boundVars
    <3>2. pc' \in Stage /\ pc' \notin Writing
      BY <2>4  DEF StoreMoho, Stage, Writing
    <3> QED
      BY <2>1, <3>1, <3>2, <1>RunKept DEF PlainTypes
  <2>5. CASE \/ \E b \in Block : AsmCommit(b)
             \/ \E h \in DropHeights : PruneAnchors(h)
             \/ \E h \in MohoHeights : PruneMoho(h)
    <3>1. /\ UNCHANGED <<entryVars, pc, live, curMoho, cursor, pending, next, todo, crashes, faults, up>>
          /\ asmPrunes' \in {asmPrunes, asmPrunes + 1} /\ mohoPrunes' \in {mohoPrunes, mohoPrunes + 1}
      BY <2>5 DEF AsmCommit, PruneAnchors, PruneMoho, Asm!Commit, Asm!Drop, asmVars, curVars,
         planVars, boundVars
    <3>2. asmPrunes' \in Nat /\ mohoPrunes' \in Nat
      BY <2>1, <3>1, SMTT(60) DEF PlainTypes
    <3> QED
      BY <2>1, <3>1, <3>2, <1>RunKept DEF PlainTypes, entryVars
  <2> QED
    BY <2>2, <2>3, <2>4, <2>5
\* Writing one row of an index.
<1>RowWritten. ASSUME NEW A, NEW B, NEW C, NEW f \in [A -> [B -> C]], NEW a, NEW b, NEW v \in C
               PROVE  /\ [f EXCEPT ![a][b] = v] \in [A -> [B -> C]]
                      /\ a \in A /\ b \in B => [f EXCEPT ![a][b] = v][a][b] = v
  <2>1. \A x \in A : [f[x] EXCEPT ![b] = v] \in [B -> C]
    OBVIOUS
  <2>2. [f EXCEPT ![a][b] = v] = [x \in A |-> IF x = a THEN [f[x] EXCEPT ![b] = v] ELSE f[x]]
    OBVIOUS
  <2>3. [f EXCEPT ![a][b] = v] \in [A -> [B -> C]]
    BY <2>1, <2>2
  <2>4. ASSUME a \in A, b \in B PROVE [f EXCEPT ![a][b] = v][a][b] = v
    BY <2>4
  <2> QED
    BY <2>3, <2>4
\* The first n leaves.
<1>CutFact. ASSUME NEW S, NEW s \in Seq(S), NEW n \in 0..Len(s)
            PROVE  SubSeq(s, 1, n) \in Seq(S)
  <2>1. n \in Nat /\ \A i \in 1..n : s[i] \in S
    BY SMTT(60)
  <2> QED
    BY <2>1, SMTT(60)
\* The writes of the prune: rows and leaves go, nothing new is stored.
<1>TypedPrune. ASSUME IInv, TypedInv, PruneLeaves \/ PruneHash \/ PruneHeight
               PROVE  EntriesTypeInv' /\ RunInv' /\ pc' \in Stage /\ todo' = todo
  <2> USE <1>TypedPrune
  <2> DEFINE h == CurrentHeight
             c == Pruning(CurrentHeight)
  <2>1. /\ leaves \in [Container -> Seq(Leaf)]
        /\ hashIdx \in [Container -> [Leaf -> Nat \cup {None}]]
        /\ heightIdx \in [Container -> [Heights -> Nat \cup {None}]]
        /\ Container \subseteq Nat
    BY ExportAssumption DEF TypedInv, TypeInv, EntriesTypeInv
  <2>2. pc \in Writing /\ Current' = Current /\ todo' = todo
    <3>1. pc \in Writing
      BY DEF PruneLeaves, PruneHash, PruneHeight, Writing
    <3>2. UNCHANGED <<pending, todo>>
      BY DEF PruneLeaves, PruneHash, PruneHeight, foldUnchanged, planVars
    <3> QED
      BY <3>1, <3>2 DEF Current
  <2>3. pc' \in {"prune", "prune_hash", "prune_height", "store"} \/ (pc' = "open_run" /\ todo # {})
    BY DEF PruneLeaves, PruneHash, PruneHeight, StartAppending
  <2>4. pc' \in Stage /\ RunInv'
    <3>1. /\ pc' \in Stage /\ pc' \notin {"append", "index"} /\ pc' # "append" /\ pc' # "index"
          /\ pc' \in {"open_run", "append", "index"} => todo # {}
      BY <2>3  DEF Stage
    <3>2. \A d \in todo : Exports[Current][d] # <<>>
      BY <2>2 DEF TypedInv, RunInv
    <3> QED
      BY <2>2, <3>1, <3>2 DEF RunInv
  <2>5. EntriesTypeInv'
    <3>1. CASE UNCHANGED entryVars
      BY <2>1, <3>1 DEF EntriesTypeInv, entryVars
    <3>2. CASE Unpruned(h) # {} /\ DropLeaves(c, h)
      <4>1. c \in Container /\ RowsFrom(c, h) # {}
        <5>1. Unpruned(h) \in SUBSET Nat /\ Unpruned(h) # {}
          BY <2>1, <3>2 DEF Unpruned
        <5>2. c \in Unpruned(h)
          BY <5>1, LeastOf DEF Pruning
        <5> QED
          BY <5>2 DEF Unpruned
      <4>2. FirstDropped(c, h) \in Nat
        <5>1. RowsFrom(c, h) \in SUBSET Nat
          BY <2>2, WritingFact DEF RowsFrom
        <5>2. MinOf(RowsFrom(c, h)) \in RowsFrom(c, h)
          BY <4>1, <5>1, LeastOf
        <5>3. \A g \in RowsFrom(c, h) : heightIdx[c][g] \in Nat
          BY <2>1, <4>1, SMTT(60) DEF RowsFrom
        <5> QED
          BY <5>2, <5>3 DEF FirstDropped
      <4> DEFINE n == IF FirstDropped(c, h) < Len(leaves[c]) THEN FirstDropped(c, h) ELSE Len(leaves[c])
      <4>3. leaves[c] \in Seq(Leaf) /\ n \in 0..Len(leaves[c])
        <5> HIDE DEF c, h
        <5>1. leaves[c] \in Seq(Leaf) /\ Len(leaves[c]) \in Nat
          BY <2>1, <4>1, SMTT(60)
        <5> QED
          BY <4>2, <5>1, SMTT(60)
      <4>4. SubSeq(leaves[c], 1, n) \in Seq(Leaf)
        BY <4>3, <1>CutFact
      <4>5. leaves' = [leaves EXCEPT ![c] = SubSeq(leaves[c], 1, n)] /\ UNCHANGED <<hashIdx, heightIdx>>
        BY <3>2 DEF DropLeaves
      <4> HIDE DEF n, c, h
      <4>6. leaves' \in [Container -> Seq(Leaf)]
        BY <2>1, <4>1, <4>4, <4>5
      <4> QED
        BY <2>1, <4>5, <4>6 DEF EntriesTypeInv
    <3>3. CASE \E l : DropHashRow(c, l)
      <4> HIDE DEF c
      <4>1. PICK l : hashIdx' = [hashIdx EXCEPT ![c][l] = None] /\ UNCHANGED <<leaves, heightIdx>>
        BY <3>3 DEF DropHashRow
      <4>2. None \in Nat \cup {None}
        OBVIOUS
      <4>3. hashIdx' \in [Container -> [Leaf -> Nat \cup {None}]]
        BY <2>1, <4>1, <4>2, <1>RowWritten
      <4> QED
        BY <2>1, <4>1, <4>3 DEF EntriesTypeInv
    <3>4. CASE DropHeightRow(c, h)
      BY <2>1, <3>4, <1>RowWritten DEF EntriesTypeInv, DropHeightRow
    <3> QED
      BY <3>1, <3>2, <3>3, <3>4 DEF PruneLeaves, PruneHash, PruneHeight
  <2> QED
    BY <2>2, <2>4, <2>5
\* The writes of the append stay inside the block's entries.
<1>TypedAppend. ASSUME IInv, TypedInv, StartRun \/ AppendEntry \/ IndexEntry
                PROVE  EntriesTypeInv' /\ RunInv' /\ pc' \in Stage /\ todo' \subseteq todo
  <2> USE <1>TypedAppend
  <2>1. /\ leaves \in [Container -> Seq(Leaf)]
        /\ hashIdx \in [Container -> [Leaf -> Nat \cup {None}]]
        /\ heightIdx \in [Container -> [Heights -> Nat \cup {None}]]
    BY DEF TypedInv, TypeInv, EntriesTypeInv
  <2>2. pc \in Writing /\ pc \in {"open_run", "append", "index"} /\ Current' = Current
    <3>1. pc \in Writing /\ pc \in {"open_run", "append", "index"}
      BY DEF StartRun, AppendEntry, IndexEntry, Writing
    <3>2. UNCHANGED pending
      BY DEF StartRun, AppendEntry, IndexEntry, foldUnchanged, planVars
    <3> QED
      BY <3>1, <3>2 DEF Current
  <2> DEFINE c == Appending
             h == CurrentHeight
             e == Exports[Current][Appending]
  <2>3. /\ c \in todo /\ c \in Container /\ h \in Heights
        /\ e \in Seq(Leaf) /\ e # <<>> /\ \A d \in todo : Exports[Current][d] # <<>>
    BY <2>2, WritingFact DEF TypedInv, RunInv
  <2>4. h' = h
    BY <2>2 DEF CurrentHeight
  <2>5. leaves[c] \in Seq(Leaf) /\ Len(leaves[c]) \in Nat /\ Len(e) \in Nat /\ Len(e) >= 1
    <3> HIDE DEF c, e
    <3> QED
      BY <2>1, <2>3, SMTT(60)
  <2>6. CASE StartRun
    <3>1. /\ heightIdx' = [heightIdx EXCEPT ![c][h] = Len(leaves[c])]
          /\ UNCHANGED <<leaves, hashIdx, todo>> /\ pc' = "append"
      BY <2>6 DEF StartRun, OpenRun
    <3>2. heightIdx' \in [Container -> [Heights -> Nat \cup {None}]] /\ heightIdx'[c][h] = Len(leaves[c])
      <4> HIDE DEF c, h
      <4>1. Len(leaves[c]) \in Nat \cup {None}
        BY <2>5
      <4> QED
        BY <2>1, <2>3, <3>1, <4>1, <1>RowWritten, SMTT(60)
    <3>3. Appending' = Appending /\ Appended' = Len(leaves[c]) - Len(leaves[c])
      BY <2>4, <3>1, <3>2 DEF Appending, Appended
    <3>4. Appended' \in 0..(Len(e) - 1) /\ heightIdx'[c][h] \in Nat
      <4> HIDE DEF c, h, e
      <4> QED
        BY <2>5, <3>2, <3>3, SMTT(60)
    <3>5. EntriesTypeInv'
      BY <2>1, <3>1, <3>2 DEF EntriesTypeInv
    <3>6. pc' \in Stage /\ pc' # "index" /\ pc' # "open_run"
      BY <3>1  DEF Stage
    <3>7. RunInv'
      BY <2>2, <2>3, <2>4, <3>1, <3>3, <3>4, <3>6 DEF RunInv
    <3> QED
      BY <3>1, <3>5, <3>6, <3>7
  <2>7. CASE AppendEntry
    <3>1. /\ leaves' = [leaves EXCEPT ![c] = Append(leaves[c], e[Appended + 1])]
          /\ UNCHANGED <<hashIdx, heightIdx, todo>> /\ pc = "append" /\ pc' = "index"
      BY <2>7 DEF AppendEntry, AppendLeaf
    <3>2. heightIdx[c][h] \in Nat /\ Appended \in 0..(Len(e) - 1)
      BY <2>2, <3>1 DEF TypedInv, RunInv
    <3>3. Appended + 1 \in 1..Len(e) /\ e[Appended + 1] \in Leaf
      <4> HIDE DEF c, h, e
      <4>1. Appended + 1 \in 1..Len(e)
        BY <2>5, <3>2, SMTT(60)
      <4> QED
        BY <2>3, <4>1, SMTT(60)
    <3>4. /\ leaves' \in [Container -> Seq(Leaf)] /\ Len(leaves'[c]) = Len(leaves[c]) + 1
      <4> DEFINE l == e[Appended + 1]
      <4>1. l \in Leaf
        BY <3>3
      <4> HIDE DEF c, l
      <4>2. Append(leaves[c], l) \in Seq(Leaf) /\ Len(Append(leaves[c], l)) = Len(leaves[c]) + 1
        BY <2>5, <4>1, SMTT(60)
      <4>3. leaves' = [leaves EXCEPT ![c] = Append(leaves[c], l)]
        BY <3>1 DEF l
      <4> QED
        BY <2>1, <2>3, <4>2, <4>3
    <3>5. Appending' = Appending /\ Appended' = (Len(leaves[c]) + 1) - heightIdx[c][h]
      BY <2>4, <3>1, <3>4 DEF Appending, Appended
    <3>6. Appended' \in 1..Len(e)
      <4>1. Appended = Len(leaves[c]) - heightIdx[c][h]
        BY DEF Appended
      <4> HIDE DEF c, h, e
      <4> QED
        BY <2>5, <3>2, <3>5, <4>1, SMTT(60)
    <3>7. EntriesTypeInv'
      BY <2>1, <3>1, <3>4 DEF EntriesTypeInv
    <3>8. pc' \in Stage /\ pc' # "append" /\ pc' # "open_run"
      BY <3>1  DEF Stage
    <3>9. RunInv'
      BY <2>2, <2>3, <2>4, <3>1, <3>2, <3>5, <3>6, <3>8 DEF RunInv
    <3> QED
      BY <3>1, <3>7, <3>8, <3>9
  <2>8. CASE IndexEntry
    <3>1. /\ hashIdx' = [hashIdx EXCEPT ![c][e[Appended]] = Len(leaves[c]) - 1]
          /\ UNCHANGED <<leaves, heightIdx>> /\ pc = "index"
          /\ todo' = IF Appended = Len(e) THEN todo \ {c} ELSE todo
          /\ pc' = IF Appended # Len(e) THEN "append" ELSE IF todo' = {} THEN "store" ELSE "open_run"
      BY <2>8 DEF IndexEntry, IndexLeaf
    <3>2. heightIdx[c][h] \in Nat /\ Appended \in 1..Len(e) /\ Appended = Len(leaves[c]) - heightIdx[c][h]
      BY <2>2, <3>1 DEF TypedInv, RunInv, Appended
    <3>3. hashIdx' \in [Container -> [Leaf -> Nat \cup {None}]]
      <4> DEFINE l == e[Appended]
                 n == Len(leaves[c]) - 1
      <4>1. n \in Nat \cup {None}
        <5> HIDE DEF c, h, e
        <5> QED
          BY <2>5, <3>2, SMTT(60)
      <4>2. hashIdx' = [hashIdx EXCEPT ![c][l] = n]
        BY <3>1
      <4> HIDE DEF c, l, n
      <4> QED
        BY <2>1, <4>1, <4>2, <1>RowWritten
    <3>4. EntriesTypeInv' /\ todo' \subseteq todo
      BY <2>1, <3>1, <3>3 DEF EntriesTypeInv
    <3>5. CASE Appended # Len(e)
      <4>1. pc' = "append" /\ todo' = todo
        BY <3>1, <3>5
      <4>2. Appending' = Appending /\ Appended' = Appended
        BY <2>4, <3>1, <4>1 DEF Appending, Appended
      <4>3. Appended \in 0..(Len(e) - 1)
        <5> HIDE DEF c, h, e
        <5> QED
          BY <2>5, <3>2, <3>5, SMTT(60)
      <4>4. pc' \in Stage /\ pc' # "index" /\ pc' # "open_run"
        BY <4>1  DEF Stage
      <4>5. RunInv'
        BY <2>2, <2>3, <2>4, <3>1, <3>2, <4>1, <4>2, <4>3, <4>4 DEF RunInv
      <4> QED
        BY <3>4, <4>4, <4>5
    <3>6. CASE Appended = Len(e)
      <4>1. pc' = "store" \/ (pc' = "open_run" /\ todo' # {})
        BY <3>1, <3>6
      <4>2. /\ pc' \in Stage /\ pc' \notin {"append", "index"} /\ pc' # "append" /\ pc' # "index"
            /\ pc' \in {"open_run", "append", "index"} => todo' # {}
        BY <4>1  DEF Stage
      <4>3. RunInv'
        BY <2>2, <2>3, <3>4, <4>2 DEF RunInv
      <4> QED
        BY <3>4, <4>2, <4>3
    <3> QED
      BY <3>5, <3>6
  <2> QED
    BY <2>6, <2>7, <2>8
<1>main. ASSUME IInv, IInv', TypedInv, [Next]_vars PROVE TypedInv'
  <2> USE <1>main
  <2>1. PlainTypes /\ EntriesTypeInv /\ RunInv
    BY TypesSplit DEF TypedInv
  <2>2. SUFFICES PlainTypes' /\ EntriesTypeInv' /\ RunInv'
    <3>1. IInv' => (TypeInv' <=> PlainTypes' /\ EntriesTypeInv')
      BY TypesSplit, PTL
    <3> QED
      BY <3>1 DEF TypedInv
  <2>3. CASE UNCHANGED vars
    <3>1. UNCHANGED <<up, live, pc, curMoho, cursor, next, todo, crashes, faults, asmPrunes, mohoPrunes,
                      pending, leaves, hashIdx, heightIdx>>
      BY <2>3 DEF vars, asmVars, entryVars, curVars, planVars, boundVars
    <3> QED
      BY <2>1, <3>1, <1>RunKept DEF PlainTypes, EntriesTypeInv
  <2>4. CASE PruneLeaves \/ PruneHash \/ PruneHeight \/ StartRun \/ AppendEntry \/ IndexEntry
    <3>1. UNCHANGED foldUnchanged
      BY <2>4 DEF PruneLeaves, PruneHash, PruneHeight, StartRun, AppendEntry, IndexEntry
    <3>2. UNCHANGED <<up, live, curMoho, cursor, next, crashes, faults, asmPrunes, mohoPrunes>>
      BY <3>1 DEF foldUnchanged, asmVars, curVars, planVars, boundVars
    <3>3. EntriesTypeInv' /\ RunInv' /\ pc' \in Stage /\ todo' \subseteq todo
      BY <2>4, <1>TypedPrune, <1>TypedAppend
    <3> QED
      BY <2>1, <3>2, <3>3 DEF PlainTypes
  <2>5. CASE \/ LaunchAsm \/ Seed \/ Plan \/ Exit \/ Crash \/ ParentUnavailable
             \/ Receive \/ Fold \/ StoreMoho
             \/ \E b \in Block : AsmCommit(b)
             \/ \E h \in DropHeights : PruneAnchors(h)
             \/ \E h \in MohoHeights : PruneMoho(h)
    <3>1. PlainTypes' /\ RunInv' /\ UNCHANGED entryVars
      BY <2>5, <1>TypedLife, <1>TypedFold
    <3> QED
      BY <2>1, <3>1 DEF EntriesTypeInv, entryVars
  <2> QED
    BY <2>3, <2>4, <2>5 DEF Next, MohoStep
<1> QED
  BY <1>main

\* The empty stores have their types.
LEMMA TypedInit == Init => TypedInv
<1> SUFFICES ASSUME Init PROVE TypedInv
  OBVIOUS
<1>1. PlainTypes
  BY DEF Init, Asm!Init, PlainTypes, Stage
<1>2. EntriesTypeInv
  BY SMTT(60) DEF Init, EntriesInit, EntriesTypeInv
<1>3. RunInv
  BY DEF Init, RunInv, Writing
<1> QED
  BY <1>1, <1>2, <1>3, InitInv, TypesSplit DEF TypedInv

\* The databases, the lists of blocks and the states in memory are well formed in
\* every life of the process; in particular the entry being appended is one of the
\* block's and the row being indexed exists (append, prune_from).
THEOREM WellTyped == Spec => []TypeInv
<1>1. Init => TypedInv
  BY TypedInit
<1>2. IInv /\ IInv' /\ TypedInv /\ [Next]_vars => TypedInv'
  BY TypedStep
<1>3. TypedInv => TypeInv
  BY DEF TypedInv
<1> QED
  BY <1>1, <1>2, <1>3, InitInv, StepInv, PTL DEF Spec

-----------------------------------------------------------------------------
(* The catch-up at startup.                                                *)

\* Anchors are dropped only while the process is down.  The anchored blocks
\* descend from genesis and, until the operator drops some, so do their parents.
AncestryInv ==
  /\ pc # "down" => up
  /\ \A b \in Block : anchors[b] # None => Descends[b]
  /\ asmPrunes = 0 => \A b \in Block : anchors[b] # None /\ Above(b) => anchors[Parent[b]] # None
  /\ pc = "seed" => anchors[Genesis] # None

\* The walk stands at the parent of the block it collected last, and the genesis
\* state is there to end it.
WalkInv ==
  pc = "plan" =>
    /\ Folded(Genesis)
    /\ Descends[cursor]
    /\ asmPrunes = 0 => anchors[cursor] # None
    /\ pending # <<>> => Parent[Current] = cursor

\* Every pending block is the child of the next one; at startup all of them are
\* anchored and the oldest one's parent is folded.
PendingInv ==
  /\ pc \in {"down", "seed"} => pending = <<>>
  /\ pc \in {"down", "seed", "plan"} => ~live
  /\ pc = "idle" => live
  /\ \A i \in 1..(Len(pending) - 1) : Parent[pending[i]] = pending[i + 1]
  /\ live => Len(pending) <= 1
  /\ ~live /\ asmPrunes = 0 => \A i \in 1..Len(pending) : anchors[pending[i]] # None
  /\ ~live /\ pc \in Writing \cup {"fold"} => Folded(Parent[Current])

CatchUpInv == AncestryInv /\ WalkInv /\ PendingInv

\* Blocks, their parents and the genesis block.
LEMMA Lineage ==
  /\ Genesis \in Block /\ None \notin Block
  /\ \A b \in Block : Parent[b] \in Block
  /\ \A b \in Block : ~Above(b) => (Descends[b] <=> b = Genesis)
  /\ \A b \in Block : Above(b) => (Descends[b] <=> Descends[Parent[b]])
  /\ ~Above(Genesis) /\ Descends[Genesis]
<1>1. Genesis \in Block /\ None \notin Block /\ \A b \in Block : Parent[b] \in Block
  BY TreeAssumption
<1>2. /\ \A b \in Block : ~Above(b) => (Descends[b] <=> b = Genesis)
      /\ \A b \in Block : Above(b) => (Descends[b] <=> Descends[Parent[b]])
  BY FoldAssumption
<1>3. Height[Genesis] \in Nat
  BY <1>1, TreeAssumption
<1>4. ~Above(Genesis)
  BY <1>3, SMTT(60) DEF Above, GenesisHeight
<1> QED
  BY <1>1, <1>2, <1>4

\* Every step keeps the invariant of the catch-up.
LEMMA CatchUpStep ==
     TypeInv /\ IInv /\ CatchUpInv /\ [Next]_vars
                                                  => CatchUpInv'
\* An idle step of the catch-up: what the invariant speaks of stays, the stage
\* included or the next one among those with the same demands.
<1>CatchUpKept. ASSUME CatchUpInv,
                       UNCHANGED <<anchors, up, moho, live, pending, asmPrunes>>,
                       UNCHANGED <<pc, cursor>> \/ pc' = "failed"
                       \/ (pc \in Writing \cup {"fold"} /\ pc' \in Writing),
                       pc' = "failed" => pc # "down"
                PROVE  CatchUpInv'
  <2> USE <1>CatchUpKept
  <2>1. pc' # pc => pc' \notin {"down", "seed", "plan", "idle"} /\ pc # "down"
    BY DEF Writing
  <2>2. AncestryInv'
    BY <2>1 DEF CatchUpInv, AncestryInv
  <2>3. WalkInv'
    <3>1. pc' = "plan" => UNCHANGED <<pc, cursor>>
      BY DEF Writing
    <3> QED
      BY <3>1 DEF CatchUpInv, WalkInv, Folded, Current
  <2>4. pc' \in Writing \cup {"fold"} => pc \in Writing \cup {"fold"}
    BY DEF Writing
  <2>5. PendingInv'
    BY <2>1, <2>4 DEF CatchUpInv, PendingInv, Folded, Current
  <2> QED
    BY <2>2, <2>3, <2>5 DEF CatchUpInv
\* Nothing is demanded of an empty list.
<1>NothingPending. ASSUME pending' = <<>>, pc' \notin Writing \cup {"fold"},
                          pc' \in {"down", "seed", "plan"} => ~live',
                          pc' = "idle" => live'
                   PROVE  PendingInv'
  <2> USE <1>NothingPending
  <2>1. Len(pending') = 0
    OBVIOUS
  <2>2. Len(pending') <= 1 /\ 1..Len(pending') = {} /\ 1..(Len(pending') - 1) = {}
    BY <2>1, SMTT(60)
  <2> QED
    BY <2>2 DEF PendingInv
\* Startup, a commit and the prunes: the steps that change what is anchored.
<1>CatchUpAnchors. ASSUME TypeInv, IInv, CatchUpInv,
                          \/ LaunchAsm \/ Exit \/ Crash
                          \/ \E b \in Block : AsmCommit(b)
                          \/ \E h \in DropHeights : PruneAnchors(h)
                          \/ \E h \in MohoHeights : PruneMoho(h)
                   PROVE  CatchUpInv'
  <2> USE <1>CatchUpAnchors
  <2>1. CASE LaunchAsm
    <3>1. /\ pc = "down" /\ pc' = "seed" /\ up'
          /\ UNCHANGED <<moho, live, pending, asmPrunes>>
      BY <2>1 DEF LaunchAsm, planVars, boundVars, Asm!Start, Asm!StoreGenesis
    <3>2. Asm!GenesisState = GenesisState
      BY DEF Asm!GenesisState, GenesisState, Asm!Heights, Heights, Asm!GenesisHeight, GenesisHeight
    <3>3. \/ anchors' = anchors /\ anchors[Genesis] # None
          \/ anchors' = [anchors EXCEPT ![Genesis] = GenesisState]
      BY <2>1, <3>2 DEF LaunchAsm, Asm!Start, Asm!StoreGenesis, Asm!Committed
    <3>4. GenesisState # None
      <4>1. GenesisState \in AnchorState /\ None \notin AnchorState
        BY FoldAssumption, LogAssumption, Lineage
      <4> QED
        BY <4>1
    <3>5. /\ anchors'[Genesis] # None
          /\ \A b \in Block : b # Genesis => anchors'[b] = anchors[b]
      BY <3>3, <3>4, Lineage  DEF IInv, AnchorsInv
    <3>6. AncestryInv'
      BY <3>1, <3>5, Lineage DEF CatchUpInv, AncestryInv
    <3>7. pending = <<>> /\ ~live
      BY <3>1 DEF CatchUpInv, PendingInv
    <3>8. WalkInv' /\ pc' \notin Writing \cup {"fold", "idle"}
      BY <3>1  DEF WalkInv, Writing
    <3>9. PendingInv'
      BY <3>1, <3>7, <3>8, <1>NothingPending
    <3> QED
      BY <3>6, <3>8, <3>9 DEF CatchUpInv
  <2>2. CASE Exit \/ Crash
    <3>1. pc' = "down" /\ pending' = <<>> /\ live' = FALSE /\ UNCHANGED <<anchors, asmPrunes>>
      BY <2>2 DEF Exit, Crash, Stop, Asm!Stop
    <3>2. AncestryInv' /\ WalkInv'
      BY <3>1  DEF CatchUpInv, AncestryInv, WalkInv
    <3>3. PendingInv'
      BY <3>1, SMTT(60) DEF PendingInv, Writing
    <3> QED
      BY <3>2, <3>3 DEF CatchUpInv
  <2>3. ASSUME NEW b \in Block, AsmCommit(b) PROVE CatchUpInv'
    <3>1. /\ live /\ UNCHANGED <<up, moho, pc, live, cursor, pending, asmPrunes>>
          /\ anchors' = [anchors EXCEPT ![b] = CanonState[b]] /\ anchors[Parent[b]] # None
      BY <2>3 DEF AsmCommit, Asm!Commit, Asm!Committed, planVars, boundVars
    <3>2. Above(b)
      BY <2>3 DEF AsmCommit, Asm!Commit, Asm!Above, Above, Asm!GenesisHeight, GenesisHeight
    <3>3. CanonState[b] # None
      <4>1. CanonState[b] \in AnchorState /\ None \notin AnchorState
        BY FoldAssumption, LogAssumption
      <4> QED
        BY <4>1
    <3>4. \A c \in Block : anchors'[c] # None <=> anchors[c] # None \/ c = b
      BY <3>1, <3>3  DEF IInv, AnchorsInv
    <3>5. AncestryInv'
      <4>1. \A c \in Block : anchors'[c] # None => Descends[c]
        <5>1. Descends[Parent[b]]
          BY <3>1, Lineage DEF CatchUpInv, AncestryInv
        <5>2. Descends[b]
          BY <3>2, <5>1, Lineage
        <5> QED
          BY <3>4, <5>2 DEF CatchUpInv, AncestryInv
      <4>2. ASSUME asmPrunes = 0, NEW c \in Block, anchors'[c] # None, Above(c)
            PROVE  anchors'[Parent[c]] # None
        <5>1. Parent[c] \in Block /\ Parent[b] \in Block
          BY Lineage
        <5> QED
          BY <3>1, <3>4, <4>2, <5>1 DEF CatchUpInv, AncestryInv
      <4>3. pc = "seed" => anchors'[Genesis] # None
        BY <3>4, Lineage DEF CatchUpInv, AncestryInv
      <4> QED
        BY <3>1, <4>1, <4>2, <4>3 DEF CatchUpInv, AncestryInv
    <3>6. WalkInv'
      <4>1. pc = "plan" => cursor \in Block
        BY DEF IInv, WorkInv
      <4> QED
        BY <3>1, <3>4, <4>1 DEF CatchUpInv, WalkInv, Folded, Current
    <3>7. PendingInv'
      BY <3>1 DEF CatchUpInv, PendingInv, Folded, Current
    <3> QED
      BY <3>5, <3>6, <3>7 DEF CatchUpInv
  <2>4. ASSUME NEW h, PruneAnchors(h) PROVE CatchUpInv'
    <3>1. /\ ~up /\ UNCHANGED <<up, moho, pc, live, cursor, pending>> /\ asmPrunes' = asmPrunes + 1
          /\ \A b \in Block : anchors'[b] \in {anchors[b], None}
      BY <2>4 DEF PruneAnchors, Asm!Drop, planVars
    <3>2. pc = "down" /\ pending = <<>>
      BY <3>1  DEF CatchUpInv, AncestryInv, PendingInv
    <3>3. asmPrunes' # 0
      BY <3>1, SMTT(60) DEF TypeInv
    <3>4. AncestryInv'
      BY <3>1, <3>2, <3>3 DEF CatchUpInv, AncestryInv
    <3>5. WalkInv' /\ PendingInv'
      BY <3>1, <3>2, SMTT(60) DEF CatchUpInv, WalkInv, PendingInv, Writing
    <3> QED
      BY <3>4, <3>5 DEF CatchUpInv
  <2>5. ASSUME NEW h, PruneMoho(h) PROVE CatchUpInv'
    <3>1. pc = "down" /\ UNCHANGED <<anchors, up, pc, live, cursor, pending, asmPrunes>>
      BY <2>5 DEF PruneMoho, asmVars, planVars
    <3>2. AncestryInv'
      BY <3>1 DEF CatchUpInv, AncestryInv
    <3>3. WalkInv' /\ PendingInv'
      BY <3>1  DEF CatchUpInv, WalkInv, PendingInv, Writing
    <3> QED
      BY <3>2, <3>3 DEF CatchUpInv
  <2> QED
    BY <2>1, <2>2, <2>3, <2>4, <2>5
\* The walk starts at an anchored block, with the genesis state in the store.
<1>CatchUpSeed. ASSUME IInv, CatchUpInv, Seed PROVE CatchUpInv'
  <2> USE <1>CatchUpSeed
  <2>1. pc = "seed" /\ UNCHANGED <<anchors, up, live, pending, asmPrunes>>
    BY DEF Seed, asmVars, boundVars
  <2>2. pending = <<>> /\ ~live
    BY <2>1 DEF CatchUpInv, PendingInv
  <2>3. pc' \in {"plan", "failed"}
    BY DEF Seed
  <2>4. PendingInv' /\ AncestryInv'
    <3>1. pc' \notin Writing \cup {"fold"} /\ pc' \notin {"seed", "idle"} /\ pc # "down"
      BY <2>1, <2>3  DEF Writing
    <3>2. PendingInv'
      BY <2>1, <2>2, <3>1, <1>NothingPending
    <3>3. AncestryInv'
      BY <2>1, <3>1 DEF CatchUpInv, AncestryInv
    <3> QED
      BY <3>2, <3>3
  <2>5. ASSUME pc' = "plan" PROVE WalkInv'
    <3>1. Resume(Seeded)
      BY <2>5  DEF Seed
    <3>2. PICK t \in Block : anchors[t] # None /\ cursor' = t /\ moho' = Seeded
      BY <3>1 DEF Resume, IsLast
    <3>3. moho'[Genesis] # None
      <4>1. GenesisMoho \in MohoState /\ None \notin MohoState
        BY ExportAssumption, Lineage
      <4>2. moho'[Genesis] = GenesisMoho
        BY <3>2, Lineage  DEF Seeded, IInv, MohoInv
      <4> QED
        BY <4>1, <4>2
    <3> QED
      BY <2>1, <2>2, <3>2, <3>3 DEF CatchUpInv, AncestryInv, WalkInv, Folded
  <2> QED
    BY <2>4, <2>5 DEF CatchUpInv, WalkInv
\* A collected block is the child of the cursor's new position; when the walk
\* ends, the oldest pending block's parent is folded.
<1>CatchUpPlan. ASSUME TypeInv, IInv, CatchUpInv, Plan PROVE CatchUpInv'
  <2> USE <1>CatchUpPlan
  <2>1. pc = "plan" /\ UNCHANGED <<anchors, up, moho, curBlock, asmPrunes>>
    BY DEF Plan, asmVars, boundVars, curVars
  <2>2. /\ cursor \in Block /\ pending \in Seq(Block) /\ up
        /\ Folded(Genesis) /\ Descends[cursor]
        /\ asmPrunes = 0 => anchors[cursor] # None
        /\ pending # <<>> => Parent[Current] = cursor
        /\ \A b \in Block : anchors[b] # None => Descends[b]
        /\ asmPrunes = 0 => \A b \in Block : anchors[b] # None /\ Above(b) => anchors[Parent[b]] # None
    BY <2>1  DEF IInv, WorkInv, CatchUpInv, AncestryInv, WalkInv
  <2>3. pc' # "down" /\ pc' # "seed"
    BY <2>1  DEF Plan
  <2>4. AncestryInv'
    BY <2>1, <2>2, <2>3 DEF AncestryInv
  <2>5. CASE cursor = curBlock \/ Folded(cursor)
    <3>1. /\ pc' = IF pending = <<>> THEN "idle" ELSE "fold"
          /\ live' = (pending = <<>>) /\ pending' = pending
      BY <2>5 DEF Plan
    <3>2. Folded(cursor)
      BY <2>2, <2>5, Lineage DEF IInv, CurInv
    <3>3. WalkInv'
      BY <3>1  DEF WalkInv
    <3>4. pending # <<>> => Folded(Parent[Current])'
      BY <2>1, <2>2, <3>1, <3>2 DEF Folded, Current
    <3>5. PendingInv'
      <4>1. CASE pending = <<>>
        <5>1. pc' = "idle" /\ live' = TRUE /\ pending' = <<>>
          BY <3>1, <4>1
        <5>2. pc' \notin Writing \cup {"fold"} /\ pc' \notin {"down", "seed", "plan"}
          BY <5>1  DEF Writing
        <5> QED
          BY <5>1, <5>2, <1>NothingPending
      <4>2. CASE pending # <<>>
        <5>1. pc' = "fold" /\ live' = FALSE /\ live = FALSE
          BY <2>1, <3>1, <4>2  DEF CatchUpInv, PendingInv, TypeInv
        <5> QED
          BY <2>1, <3>1, <3>4, <4>2, <5>1  DEF CatchUpInv, PendingInv
      <4> QED
        BY <4>1, <4>2
    <3> QED
      BY <2>4, <3>3, <3>5 DEF CatchUpInv
  <2>6. CASE cursor # curBlock /\ ~Folded(cursor) /\ Above(cursor)
    <3>1. /\ pending' = Append(pending, cursor) /\ cursor' = Parent[cursor]
          /\ UNCHANGED <<pc, live>>
      BY <2>6 DEF Plan
    <3>2. /\ Len(pending') = Len(pending) + 1 /\ pending'[Len(pending) + 1] = cursor
          /\ pending' # <<>>
          /\ \A i \in 1..Len(pending) : pending'[i] = pending[i]
          /\ pending # <<>> => Len(pending) \in 1..Len(pending)
          /\ Len(pending) \in Nat
      BY <2>2, <3>1, SMTT(60)
    <3>3. Current' = cursor
      BY <3>2 DEF Current
    <3>4. WalkInv'
      BY <2>1, <2>2, <2>6, <3>1, <3>3, Lineage DEF WalkInv, Folded
    <3>5. live = FALSE /\ live' = FALSE /\ pc' = "plan"
      BY <2>1, <3>1  DEF CatchUpInv, PendingInv, TypeInv
    <3>6. \A i \in 1..(Len(pending') - 1) : Parent[pending'[i]] = pending'[i + 1]
      <4> SUFFICES ASSUME NEW i \in 1..Len(pending)
                   PROVE  Parent[pending'[i]] = pending'[i + 1]
        BY <3>2, SMTT(60)
      <4>1. CASE i = Len(pending)
        BY <2>2, <3>2, <4>1, SMTT(60) DEF Current
      <4>2. CASE i # Len(pending)
        <5>1. i \in 1..(Len(pending) - 1) /\ i + 1 \in 1..Len(pending)
          BY <3>2, <4>2, SMTT(60)
        <5> QED
          BY <3>2, <5>1  DEF CatchUpInv, PendingInv
      <4> QED
        BY <4>1, <4>2
    <3>7. asmPrunes = 0 => \A i \in 1..Len(pending') : anchors[pending'[i]] # None
      <4>1. asmPrunes = 0 => \A i \in 1..Len(pending) : anchors[pending[i]] # None
        BY <3>5  DEF CatchUpInv, PendingInv
      <4> QED
        BY <2>2, <3>2, <4>1, SMTT(60)
    <3>8. PendingInv'
      BY <2>1, <3>5, <3>6, <3>7  DEF PendingInv, Writing
    <3> QED
      BY <2>4, <3>4, <3>8 DEF CatchUpInv
  <2>7. CASE ~Folded(cursor) /\ ~Above(cursor)
    BY <2>2, <2>7, Lineage
  <2> QED
    BY <2>5, <2>6, <2>7
\* A live commit is the only pending block.
<1>CatchUpReceive. ASSUME IInv, CatchUpInv, Receive PROVE CatchUpInv'
  <2> USE <1>CatchUpReceive
  <2>1. /\ pc = "idle" /\ pc' = "fold" /\ pending' = <<Head(queue)>>
        /\ UNCHANGED <<anchors, up, moho, live, asmPrunes>>
    BY DEF Receive, boundVars
  <2>2. AncestryInv' /\ WalkInv'
    <3>1. pc # "down" /\ pc' # "seed" /\ pc' # "plan"
      BY <2>1
    <3> QED
      BY <2>1, <3>1 DEF CatchUpInv, AncestryInv, WalkInv
  <2>3. /\ Len(pending') <= 1 /\ 1..(Len(pending') - 1) = {}
        /\ pc' \notin {"down", "seed", "plan", "idle"}
    BY <2>1, SMTT(60)
  <2>4. PendingInv'
    BY <2>1, <2>3 DEF CatchUpInv, PendingInv
  <2> QED
    BY <2>2, <2>4 DEF CatchUpInv
\* The parent of the next pending block is the block just stored.
<1>CatchUpStore. ASSUME TypeInv, IInv, CatchUpInv, StoreMoho PROVE CatchUpInv'
  <2> USE <1>CatchUpStore
  <2>1. /\ pc = "store" /\ UNCHANGED <<anchors, up, asmPrunes>>
        /\ moho' = [moho EXCEPT ![Current] = next]
        /\ pending' = SubSeq(pending, 1, Len(pending) - 1)
        /\ pc' = IF Len(pending) = 1 THEN "idle" ELSE "fold"
        /\ live' = (Len(pending) = 1)
    BY DEF StoreMoho, asmVars, boundVars
  <2>2. pending \in Seq(Block) /\ Len(pending) \in Nat /\ Len(pending) >= 1
    BY <2>1, SMTT(60) DEF IInv, WorkInv, FoldInv, Writing
  <2>3. /\ pending' \in Seq(Block) /\ Len(pending') = Len(pending) - 1
        /\ \A i \in 1..(Len(pending) - 1) : pending'[i] = pending[i]
    BY <2>1, <2>2, FrontFact
  <2>4. AncestryInv'
    BY <2>1  DEF CatchUpInv, AncestryInv
  <2>5. WalkInv'
    BY <2>1  DEF WalkInv
  <2>6. CASE Len(pending) = 1
    <3>1. pc' = "idle" /\ live' = TRUE
      BY <2>1, <2>6
    <3>2. pc' \notin Writing \cup {"fold"} /\ pc' \notin {"down", "seed", "plan"}
      BY <3>1  DEF Writing
    <3>3. pending' = <<>>
      BY <2>2, <2>3, <2>6, SMTT(60)
    <3>4. PendingInv'
      BY <3>1, <3>2, <3>3, <1>NothingPending
    <3> QED
      BY <2>4, <2>5, <3>4 DEF CatchUpInv
  <2>7. CASE Len(pending) # 1
    <3>0. /\ ~(Len(pending) <= 1) /\ Len(pending) - 1 \in 1..(Len(pending) - 1)
          /\ (Len(pending) - 1) + 1 = Len(pending)
      <4>1. ASSUME NEW n \in Nat, n >= 1, n # 1
            PROVE  ~(n <= 1) /\ n - 1 \in 1..(n - 1) /\ (n - 1) + 1 = n
        BY <4>1, SMTT(60)
      <4> QED
        BY <2>2, <2>7, <4>1
    <3>1. pc' = "fold" /\ live' = FALSE /\ ~live
      <4>1. pc' = "fold" /\ live' = FALSE
        BY <2>1, <2>7
      <4> QED
        BY <3>0, <4>1 DEF CatchUpInv, PendingInv
    <3>2. Parent[pending[Len(pending) - 1]] = pending[Len(pending)]
      <4>1. Parent[pending[Len(pending) - 1]] = pending[(Len(pending) - 1) + 1]
        BY <3>0 DEF CatchUpInv, PendingInv
      <4> QED
        BY <3>0, <4>1
    <3>3. Parent[Current'] = Current
      BY <2>2, <2>3, <2>7, <3>2, SMTT(60) DEF Current
    <3>4. moho'[Current] # None
      <4>1. Current \in Block
        BY <2>2, SMTT(60) DEF Current
      <4>2. next = CanonMoho[Current] /\ CanonMoho[Current] \in MohoState /\ None \notin MohoState
        BY <2>1, <4>1, ExportAssumption  DEF IInv, FoldInv, Writing
      <4> QED
        BY <2>1, <4>1, <4>2  DEF IInv, MohoInv
    <3>5. \A i \in 1..(Len(pending') - 1) : Parent[pending'[i]] = pending'[i + 1]
      BY <2>2, <2>3, SMTT(60) DEF CatchUpInv, PendingInv
    <3>6. asmPrunes = 0 => \A i \in 1..Len(pending') : anchors[pending'[i]] # None
      BY <2>2, <2>3, <3>1, SMTT(60) DEF CatchUpInv, PendingInv
    <3>7. PendingInv'
      BY <2>1, <3>1, <3>3, <3>4, <3>5, <3>6  DEF PendingInv, Folded
    <3> QED
      BY <2>4, <2>5, <3>7 DEF CatchUpInv
  <2> QED
    BY <2>6, <2>7
<1>main. ASSUME TypeInv, IInv, CatchUpInv, [Next]_vars PROVE CatchUpInv'
  <2> USE <1>main
  <2>1. CASE UNCHANGED vars
    <3>1. UNCHANGED <<anchors, up, moho, live, pending, asmPrunes, pc, cursor>>
      BY <2>1 DEF vars, asmVars, planVars, boundVars
    <3> QED
      BY <3>1, <1>CatchUpKept
  <2>2. CASE PruneLeaves \/ PruneHash \/ PruneHeight \/ StartRun \/ AppendEntry \/ IndexEntry
    <3>1. pc \in Writing /\ pc' \in Writing
      BY <2>2  DEF PruneLeaves, PruneHash, PruneHeight, StartRun, AppendEntry, IndexEntry,
         Writing, StartAppending
    <3>2. UNCHANGED foldUnchanged
      BY <2>2 DEF PruneLeaves, PruneHash, PruneHeight, StartRun, AppendEntry, IndexEntry
    <3>3. UNCHANGED <<anchors, up, moho, live, pending, asmPrunes>>
      BY <3>2 DEF foldUnchanged, asmVars, planVars, boundVars
    <3>4. pc' # "failed"
      BY <3>1  DEF Writing
    <3> QED
      BY <3>1, <3>3, <3>4, <1>CatchUpKept
  <2>3. CASE Fold
    <3>1. pc = "fold" /\ UNCHANGED <<anchors, up, moho, live, pending, asmPrunes>>
      BY <2>3 DEF Fold, asmVars, planVars, boundVars
    <3>2. pc \in Writing \cup {"fold"} /\ pc # "down" /\ (pc' = "failed" \/ pc' \in Writing)
      BY <2>3, <3>1  DEF Fold, Writing
    <3> QED
      BY <3>1, <3>2, <1>CatchUpKept
  <2>4. CASE ParentUnavailable
    <3>1. pc' = "failed" /\ pc \in {"fold", "plan"}
          /\ UNCHANGED <<anchors, up, moho, live, pending, asmPrunes>>
      BY <2>4  DEF ParentUnavailable, asmVars, planVars
    <3>2. pc # "down"
      BY <3>1
    <3> QED
      BY <3>1, <3>2, <1>CatchUpKept
  <2>5. CASE Seed \/ Plan \/ Receive \/ StoreMoho
    BY <2>5, <1>CatchUpSeed, <1>CatchUpPlan, <1>CatchUpReceive, <1>CatchUpStore
  <2>6. CASE \/ LaunchAsm \/ Exit \/ Crash
             \/ \E b \in Block : AsmCommit(b)
             \/ \E h \in DropHeights : PruneAnchors(h)
             \/ \E h \in MohoHeights : PruneMoho(h)
    BY <2>6, <1>CatchUpAnchors
  <2> QED
    BY <2>1, <2>2, <2>3, <2>4, <2>5, <2>6 DEF Next, MohoStep
<1> QED
  BY <1>main

\* Nothing is pending at first.
LEMMA CatchUpInit == Init => CatchUpInv
<1> SUFFICES ASSUME Init PROVE CatchUpInv
  OBVIOUS
<1>1. AncestryInv /\ WalkInv
  BY DEF Init, Asm!Init, AncestryInv, WalkInv
<1>2. PendingInv
  BY SMTT(60) DEF Init, PendingInv, Writing
<1> QED
  BY <1>1, <1>2 DEF CatchUpInv

\* Startup fails only when a header request failed, or when the operator pruned
\* the anchor of a block that is still to be folded (MohoWorkerServiceState::new,
\* sync_to_tip, process_block).
THEOREM StartupExplained == Spec => StartupFailuresExplained
<1>1. Init => CatchUpInv
  BY CatchUpInit
<1>2. ASSUME TypeInv, IInv, CatchUpInv, [Next]_vars,
             pc # "failed", pc' = "failed", ~live
      PROVE  faults' > faults \/ (pc = "fold" /\ anchors[Current] = None /\ asmPrunes > 0)
  <2>1. ~UNCHANGED vars
    BY <1>2 DEF vars
  <2>2. CASE ParentUnavailable
    BY <1>2, <2>2, SMTT(60) DEF ParentUnavailable, TypeInv
  <2>3. CASE Seed
    <3>1. pc = "seed" /\ ~(moho[Genesis] \in {None, GenesisMoho} /\ anchors[Genesis] # None)
      BY <1>2, <2>3  DEF Seed, Asm!Committed
    <3>2. anchors[Genesis] # None /\ moho[Genesis] \in {None, GenesisMoho}
      BY <1>2, <3>1, Lineage, ExportAssumption DEF CatchUpInv, AncestryInv, IInv, MohoInv, Folded
    <3> QED
      BY <3>1, <3>2
  <2>4. CASE Plan
    <3>1. pc = "plan" /\ ~Folded(cursor) /\ ~Above(cursor)
      BY <1>2, <2>4  DEF Plan
    <3> QED
      BY <1>2, <3>1, Lineage DEF CatchUpInv, WalkInv, IInv, WorkInv
  <2>5. CASE Fold
    <3>1. pc = "fold" /\ ~(ParentState # None /\ anchors[Current] # None)
      BY <1>2, <2>5  DEF Fold
    <3>2. pending # <<>> /\ Current \in Block /\ Parent[Current] \in Block
      BY <1>2, <3>1, CurrentFact DEF IInv, FoldInv
    <3>3. Folded(Parent[Current])
      BY <1>2, <3>1 DEF CatchUpInv, PendingInv
    <3>4. ParentState # None
      <4>1. Parent[Current] # None /\ CanonMoho[Parent[Current]] # None
        BY <3>2, Lineage, ExportAssumption, SMTT(60)
      <4> QED
        BY <1>2, <3>3, <4>1 DEF ParentState, Folded, IInv, CurInv
    <3>5. anchors[Current] = None
      BY <3>1, <3>4
    <3>6. Len(pending) \in 1..Len(pending)
      BY <1>2, <3>2, SMTT(60) DEF IInv, WorkInv
    <3>7. asmPrunes # 0
      BY <1>2, <3>5, <3>6 DEF CatchUpInv, PendingInv, Current
    <3>8. asmPrunes > 0
      BY <1>2, <3>7, SMTT(60) DEF TypeInv
    <3> QED
      BY <3>1, <3>5, <3>8
  <2>6. CASE Receive \/ StoreMoho \/ PruneLeaves \/ PruneHash \/ PruneHeight \/ StartRun
             \/ AppendEntry \/ IndexEntry \/ LaunchAsm \/ Exit \/ Crash
    BY <1>2, <2>6 DEF Receive, StoreMoho, PruneLeaves, PruneHash, PruneHeight, StartRun,
       AppendEntry, IndexEntry, LaunchAsm, Exit, Crash, Stop, StartAppending
  <2>7. CASE \/ \E b \in Block : AsmCommit(b)
             \/ \E h \in DropHeights : PruneAnchors(h)
             \/ \E h \in MohoHeights : PruneMoho(h)
    BY <1>2, <2>7 DEF AsmCommit, PruneAnchors, PruneMoho
  <2> QED
    BY <1>2, <2>1, <2>2, <2>3, <2>4, <2>5, <2>6, <2>7 DEF Next, MohoStep
<1>3. TypeInv /\ IInv /\ CatchUpInv /\ [Next]_vars => CatchUpInv'
  BY CatchUpStep
<1>4. TypeInv /\ IInv /\ CatchUpInv /\ [Next]_vars =>
        [pc # "failed" /\ pc' = "failed" /\ ~live =>
           \/ faults' > faults
           \/ pc = "fold" /\ anchors[Current] = None /\ asmPrunes > 0]_vars
  BY <1>2
<1> QED
  BY <1>1, <1>3, <1>4, InitInv, StepInv, WellTyped, PTL DEF Spec, StartupFailuresExplained

-----------------------------------------------------------------------------
(* The entry store mirrors the export states.  First the chain: an anchored *)
(* block's history names its ancestors, and its exports begin with theirs. *)

Rooted(b) == b = Genesis \/ Above(b)

\* s is an initial part of t.
Begins(s, t) == Len(s) <= Len(t) /\ \A i \in 1..Len(s) : s[i] = t[i]

\* The block's history and exports are its parent's and its own.
Grown(b) ==
  /\ CanonState[b].hist[Height[b]] # None /\ CanonState[b].hist[Height[b]].block = b
  /\ \A h \in Heights : h # Height[b] => CanonState[b].hist[h] = CanonState[Parent[b]].hist[h]
  /\ \A c \in Container : Exported(b, c) = Exported(Parent[b], c) \o Exports[b][c]

\* The history of b names one block of every height up to b's.
Lined(b) ==
  \A h \in Heights :
    /\ CanonState[b].hist[h] # None <=> h <= Height[b]
    /\ h <= Height[b] => /\ CanonState[b].hist[h].block \in Block
                         /\ Height[CanonState[b].hist[h].block] = h

\* Until the operator drops anchors: a block is anchored with all its ancestors,
\* and its exports begin with theirs.
ChainInv ==
  asmPrunes = 0 => \A b \in Block : anchors[b] # None =>
    /\ Lined(b)
    /\ Above(b) => Grown(b)
    /\ \A a \in Block : Rooted(a) /\ OnChainOf(b, a) =>
         /\ anchors[a] # None /\ Height[a] <= Height[b]
         /\ \A c \in Container : Begins(Exported(a, c), Exported(b, c))

\* The exports of a block are sequences of leaves.
LEMMA ExportedFact ==
  ASSUME NEW b \in Block, NEW c \in Container
  PROVE  Exported(b, c) \in Seq(Leaf) /\ Exports[b][c] \in Seq(Leaf)
<1>1. CanonMoho[b] \in MohoState /\ Exports \in [Block -> [Container -> Seq(Leaf)]]
  BY ExportAssumption
<1>2. CanonMoho[b].export \in ExportState
  BY <1>1  DEF MohoState
<1>3. CanonMoho[b].export[c] \in [leaves : Seq(Leaf), extra : ExtraData \cup {None}]
  BY <1>2  DEF ExportState
<1> QED
  BY <1>1, <1>3  DEF Exported

\* Heights are numbers above genesis.
LEMMA HeightFact ==
  /\ Heights \subseteq Nat /\ GenesisHeight \in Nat
  /\ \A h \in Heights : h > GenesisHeight
  /\ \A b \in Block : Height[b] \in Nat /\ (Above(b) <=> Height[b] \in Heights)
  /\ \A b \in Block : Above(b) => Parent[b] \in Block /\ Height[Parent[b]] = Height[b] - 1
<1>1. Genesis \in Block /\ \A b \in Block : Height[b] \in Nat
  BY TreeAssumption
<1>2. Heights \subseteq Nat /\ GenesisHeight \in Nat /\ \A h \in Heights : h > GenesisHeight
  BY <1>1, SMTT(60) DEF Heights, GenesisHeight
<1>3. \A b \in Block : Height[b] \in Nat /\ (Above(b) <=> Height[b] \in Heights)
  <2> SUFFICES ASSUME NEW b \in Block PROVE Height[b] \in Nat /\ (Above(b) <=> Height[b] \in Heights)
    OBVIOUS
  <2>1. Height[b] \in {Height[x] : x \in Block}
    OBVIOUS
  <2>2. Height[b] \in Heights <=> Height[b] \notin 0..GenesisHeight
    BY <2>1 DEF Heights
  <2> QED
    BY <1>1, <1>2, <2>2, SMTT(60) DEF Above
<1>4. \A b \in Block : Above(b) => Parent[b] \in Block /\ Height[Parent[b]] = Height[b] - 1
  BY TreeAssumption
<1> QED
  BY <1>2, <1>3, <1>4

\* Executing a block appends its manifest and its exports to its parent's.
LEMMA Growth ==
  ASSUME NEW b \in Block, Above(b), CanExecute(CanonState[Parent[b]], Auth[Parent[b]]),
         Lined(Parent[b])
  PROVE  Grown(b)
<1> DEFINE p == Parent[b]
           m == CanonManifest(b)
           s == Resolve(Auth[p])
<1>1. CanonState[b] = StfState(b, s, CanonState[p], m)
  BY FoldAssumption
<1>2. CanonState[b] \in AnchorState /\ CanonState[p] \in AnchorState /\ p \in Block
  BY FoldAssumption, HeightFact
<1>3. CanonState[p].hist \in History /\ CanonState[b].hist \in History
  BY <1>2  DEF AnchorState
<1>4. /\ CanonState[b].block = b
      /\ CanonState[b].hist = [CanonState[p].hist EXCEPT ![Height[b]] = m]
  BY <1>1, SMTT(60) DEF StfState
<1>5. Height[b] \in Heights
  BY HeightFact
<1>6. CanonState[b].hist[Height[b]] = m
      /\ \A h \in Heights : h # Height[b] => CanonState[b].hist[h] = CanonState[p].hist[h]
  BY <1>3, <1>4, <1>5 DEF History
<1>7. m.block = b
  BY DEF CanonManifest, StfManifest
<1>8. m # None
  <2>1. s \in SpecId
    <3>1. s \in Registered
      BY DEF CanExecute, Resolves, Resolve
    <3> QED
      BY <3>1, RegistryAssumption
  <2>2. Upgrade[b] \in Pred \cup {None}
    BY LogAssumption
  <2>3. ASSUME NEW h \in AuxReq[b] PROVE CanonAux(b)[h].block \in Block
    <3>1. h \in Heights /\ h < Height[b]
      BY <2>3, LogAssumption
    <3>2. h <= Height[p]
      BY <3>1, <1>2, HeightFact, SMTT(60)
    <3>3. CanonState[p].hist[h].block \in Block
      BY <3>1, <3>2 DEF Lined
    <3> QED
      BY <2>3, <3>3 DEF CanonAux
  <2>4. {CanonAux(b)[h].block : h \in AuxReq[b]} \in SUBSET Block
    BY <2>3
  <2>5. m \in Manifest
    BY <2>1, <2>2, <2>4  DEF CanonManifest, StfManifest, Manifest
  <2> QED
    BY <2>5, LogAssumption
<1>9. ASSUME NEW c \in Container PROVE Exported(b, c) = Exported(p, c) \o Exports[b][c]
  <2>1. CanonMoho[b] = NextMoho(CanonMoho[p], CanonState[b])
    BY ExportAssumption
  <2>2. CanonMoho[b].export = AdvanceExport(CanonMoho[p].export, b)
    BY <1>4, <2>1, SMTT(60) DEF NextMoho
  <2>3. AdvanceExport(CanonMoho[p].export, b)[c].leaves = CanonMoho[p].export[c].leaves \o Exports[b][c]
    BY <1>9 DEF AdvanceExport
  <2> QED
    BY <2>2, <2>3 DEF Exported
<1> QED
  BY <1>6, <1>7, <1>8, <1>9 DEF Grown

\* What a block adds comes after what its parent's exports begin with.
LEMMA BeginsLonger ==
  ASSUME NEW s \in Seq(Leaf), NEW t \in Seq(Leaf), NEW u \in Seq(Leaf), Begins(s, t)
  PROVE  Begins(s, t \o u) /\ Begins(s, s)
BY SMTT(60) DEF Begins

\* A committed block is anchored on a chain of anchored blocks.
LEMMA ChainCommit ==
  ASSUME IInv, ChainInv, NEW b \in Block, AsmCommit(b) PROVE ChainInv'
<1> SUFFICES ASSUME asmPrunes' = 0 PROVE ChainInv'
  BY DEF ChainInv
<1> DEFINE p == Parent[b]
<1>1. /\ asmPrunes = 0 /\ anchors[p] # None
      /\ anchors' = [anchors EXCEPT ![b] = CanonState[b]]
      /\ Asm!CanExecute(CanonState[p], Auth[p])
  BY DEF AsmCommit, Asm!Commit, Asm!Committed, boundVars
<1>2. CanExecute(CanonState[p], Auth[p])
  BY <1>1 DEF CanExecute, Asm!CanExecute, Resolves, Asm!Resolves, Resolve, Asm!Resolve,
     Registered, Asm!Registered
<1>3. Above(b)
  BY DEF AsmCommit, Asm!Commit, Asm!Above, Above, Asm!GenesisHeight, GenesisHeight
<1>4. p \in Block /\ Height[p] = Height[b] - 1 /\ Height[b] \in Nat /\ Height[b] \in Heights
  BY <1>3, HeightFact
<1>5. CanonState[b] # None
  <2>1. CanonState[b] \in AnchorState /\ None \notin AnchorState
    BY FoldAssumption, LogAssumption
  <2> QED
    BY <2>1
<1>6. \A c \in Block : anchors'[c] # None <=> anchors[c] # None \/ c = b
  BY <1>1, <1>5  DEF IInv, AnchorsInv
<1>7. /\ Lined(p)
      /\ \A a \in Block : Rooted(a) /\ OnChainOf(p, a) =>
           /\ anchors[a] # None /\ Height[a] <= Height[p]
           /\ \A c \in Container : Begins(Exported(a, c), Exported(p, c))
  BY <1>1, <1>4 DEF ChainInv
<1>8. Grown(b)
  BY <1>2, <1>3, <1>7, Growth
<1>9. Lined(b)
  <2> SUFFICES ASSUME NEW h \in Heights
               PROVE  /\ CanonState[b].hist[h] # None <=> h <= Height[b]
                      /\ h <= Height[b] => /\ CanonState[b].hist[h].block \in Block
                                           /\ Height[CanonState[b].hist[h].block] = h
    BY DEF Lined
  <2>1. CASE h = Height[b]
    BY <1>4, <1>8, <2>1, SMTT(60) DEF Grown
  <2>2. CASE h # Height[b]
    <3>1. CanonState[b].hist[h] = CanonState[p].hist[h]
      BY <1>8, <2>2 DEF Grown
    <3>2. h <= Height[b] <=> h <= Height[p]
      BY <1>4, <2>2, HeightFact, SMTT(60)
    <3> QED
      BY <1>7, <3>1, <3>2 DEF Lined
  <2> QED
    BY <2>1, <2>2
<1>10. ASSUME NEW a \in Block, Rooted(a), OnChainOf(b, a)
       PROVE  /\ anchors'[a] # None /\ Height[a] <= Height[b]
              /\ \A c \in Container : Begins(Exported(a, c), Exported(b, c))
  <2>1. CASE a = b
    BY <1>4, <1>6, <2>1, ExportedFact, SMTT(60) DEF Begins
  <2>2. CASE a # b
    <3>1. OnChainOf(p, a)
      <4>1. CASE a = Genesis
        BY <4>1 DEF OnChainOf
      <4>2. CASE a # Genesis
        <5>1. Height[a] \in Heights
          BY <1>10, <4>2, HeightFact DEF Rooted
        <5>2. Height[a] # Height[b]
          BY <1>8, <1>10, <2>2, <4>2 DEF OnChainOf, Grown
        <5> QED
          BY <1>8, <1>10, <4>2, <5>1, <5>2 DEF OnChainOf, Grown
      <4> QED
        BY <4>1, <4>2
    <3>2. /\ anchors[a] # None /\ Height[a] <= Height[p]
          /\ \A c \in Container : Begins(Exported(a, c), Exported(p, c))
      BY <1>7, <1>10, <3>1
    <3>3. Height[a] <= Height[b]
      BY <1>4, <3>2, HeightFact, SMTT(60)
    <3>4. ASSUME NEW c \in Container PROVE Begins(Exported(a, c), Exported(b, c))
      <4>1. Exported(b, c) = Exported(p, c) \o Exports[b][c]
        BY <1>8, <3>4 DEF Grown
      <4> QED
        BY <1>4, <3>2, <3>4, <4>1, ExportedFact, BeginsLonger
    <3> QED
      BY <1>6, <3>2, <3>3, <3>4
  <2> QED
    BY <2>1, <2>2
<1> QED
  BY <1>1, <1>6, <1>8, <1>9, <1>10 DEF ChainInv

\* The genesis block has no ancestors.
LEMMA ChainLaunch == ASSUME IInv, ChainInv, LaunchAsm PROVE ChainInv'
<1> SUFFICES ASSUME asmPrunes' = 0 PROVE ChainInv'
  BY DEF ChainInv
<1>1. asmPrunes = 0 /\ \A b \in Block : b # Genesis => anchors'[b] = anchors[b]
  BY Lineage DEF IInv, AnchorsInv, LaunchAsm, Asm!Start, Asm!StoreGenesis, boundVars
<1>2. anchors'[Genesis] # None
  <2>1. \/ anchors' = anchors /\ anchors[Genesis] # None
        \/ anchors' = [anchors EXCEPT ![Genesis] = GenesisState]
    BY DEF LaunchAsm, Asm!Start, Asm!StoreGenesis, Asm!Committed, Asm!GenesisState, GenesisState,
       Asm!Heights, Heights, Asm!GenesisHeight, GenesisHeight
  <2>2. GenesisState # None
    <3>1. GenesisState \in AnchorState /\ None \notin AnchorState
      BY FoldAssumption, LogAssumption, Lineage
    <3> QED
      BY <3>1
  <2> QED
    BY <2>1, <2>2, Lineage  DEF IInv, AnchorsInv
<1>3. \A h \in Heights : CanonState[Genesis].hist[h] = None
  <2>1. CanonState[Genesis] = GenesisState
    BY FoldAssumption
  <2>2. CanonState[Genesis].hist = [h \in Heights |-> None]
    BY <2>1, SMTT(60) DEF GenesisState
  <2> QED
    BY <2>2
<1>4. Lined(Genesis) /\ ~Above(Genesis)
  <2>1. \A h \in Heights : ~(h <= Height[Genesis])
    BY HeightFact, SMTT(60) DEF GenesisHeight
  <2> QED
    BY <1>3, <2>1, Lineage DEF Lined
<1>5. ASSUME NEW a \in Block, Rooted(a), OnChainOf(Genesis, a) PROVE a = Genesis
  BY <1>3, <1>5, HeightFact DEF OnChainOf, Rooted
<1>6. \A c \in Container : Begins(Exported(Genesis, c), Exported(Genesis, c))
  BY ExportedFact, Lineage, SMTT(60) DEF Begins
<1>7. Height[Genesis] <= Height[Genesis]
  BY HeightFact, Lineage, SMTT(60)
<1>8. \A b \in Block : anchors[b] # None => anchors'[b] # None
  BY <1>1, <1>2
<1> QED
  BY <1>1, <1>2, <1>4, <1>5, <1>6, <1>7, <1>8 DEF ChainInv

\* Every step but a commit and a start keeps the anchors, or drops some.
LEMMA ChainKept ==
  ASSUME ChainInv, asmPrunes' = 0 => UNCHANGED <<asmPrunes, anchors>>
  PROVE  ChainInv'
BY DEF ChainInv

-----------------------------------------------------------------------------
\* An anchored block is on its own chain, and the only one of its height there.
LEMMA OwnChain ==
  ASSUME IInv, ChainInv, asmPrunes = 0, NEW t \in Block, anchors[t] # None
  PROVE  /\ OnChainOf(t, t)
         /\ \A z \in Block : Rooted(z) /\ OnChainOf(t, z) /\ Height[z] = Height[t] => z = t
<1>1. t = Genesis \/ Above(t)
  BY DEF IInv, AnchorsInv
<1>2. Above(t) => Grown(t)
  BY DEF ChainInv
<1>3. OnChainOf(t, t)
  BY <1>1, <1>2 DEF OnChainOf, Grown
<1>4. ASSUME NEW z \in Block, Rooted(z), OnChainOf(t, z), Height[z] = Height[t] PROVE z = t
  <2>1. CASE ~Above(t)
    <3>1. ~Above(z)
      BY <1>4, <2>1 DEF Above
    <3> QED
      BY <1>1, <1>4, <2>1, <3>1 DEF Rooted
  <2>2. CASE Above(t)
    <3>1. z # Genesis
      BY <1>4, <2>2, Lineage DEF Above
    <3> QED
      BY <1>2, <1>4, <2>2, <3>1 DEF OnChainOf, Grown
  <2> QED
    BY <2>1, <2>2
<1> QED
  BY <1>3, <1>4

\* A block without competitors is an ancestor of every anchored block that is not
\* below it, and its parent has no competitors either.
LEMMA Trunk ==
  ASSUME IInv, ChainInv, NEW t \in Block, anchors[t] # None, Uncontested(t)
  PROVE  /\ \A x \in Block : anchors[x] # None /\ Height[t] <= Height[x] => OnChainOf(x, t)
         /\ Above(t) => Uncontested(Parent[t])
<1>1. asmPrunes = 0 /\ \A c \in Block : anchors[c] # None /\ Height[c] <= Height[t] => OnChainOf(t, c)
  BY DEF Uncontested
<1>2. \A c \in Block : anchors[c] # None => Rooted(c)
  BY DEF IInv, AnchorsInv, Rooted
<1>3. ASSUME NEW x \in Block, anchors[x] # None, Height[t] <= Height[x] PROVE OnChainOf(x, t)
  <2>1. CASE t = Genesis
    BY <2>1 DEF OnChainOf
  <2>2. CASE t # Genesis
    <3> DEFINE z == CanonState[x].hist[Height[t]].block
    <3>1. Height[t] \in Heights
      BY <1>2, <2>2, HeightFact DEF Rooted
    <3>2. Lined(x)
      BY <1>1, <1>3 DEF ChainInv
    <3>3. z \in Block /\ Height[z] = Height[t] /\ CanonState[x].hist[Height[t]] # None
      BY <1>3, <3>1, <3>2 DEF Lined
    <3>4. OnChainOf(x, z) /\ Rooted(z)
      BY <3>1, <3>3, HeightFact DEF OnChainOf, Rooted
    <3>5. anchors[z] # None
      BY <1>1, <1>3, <3>3, <3>4 DEF ChainInv
    <3>6. Height[z] <= Height[t]
      BY <3>3, HeightFact, SMTT(60)
    <3>7. z = t
      BY <1>1, <3>3, <3>4, <3>5, <3>6, OwnChain
    <3> QED
      BY <3>4, <3>7
  <2> QED
    BY <2>1, <2>2
<1>4. ASSUME Above(t) PROVE Uncontested(Parent[t])
  <2>1. Grown(t)
    BY <1>1, <1>4 DEF ChainInv
  <2>2. ASSUME NEW c \in Block, anchors[c] # None, Height[c] <= Height[Parent[t]]
        PROVE  OnChainOf(Parent[t], c)
    <3>1. Height[c] <= Height[t] /\ Height[c] # Height[t]
      BY <1>4, <2>2, HeightFact, SMTT(60)
    <3>2. OnChainOf(t, c)
      BY <1>1, <2>2, <3>1
    <3>3. c # Genesis => Height[c] \in Heights
      BY <1>2, <2>2, HeightFact DEF Rooted
    <3> QED
      BY <2>1, <3>1, <3>2, <3>3 DEF OnChainOf, Grown
  <2> QED
    BY <1>1, <2>2 DEF Uncontested
<1> QED
  BY <1>3, <1>4

-----------------------------------------------------------------------------
(* What is still to be folded is above every folded block that has no      *)
(* competitors.                                                            *)

\* Commits that wait for the worker.
Queued == {queue[i] : i \in 1..Len(queue)}

\* Blocks that are still to be folded.
Listed == {pending[i] : i \in 1..Len(pending)} \cup Queued

\* The lists are in the order of the chain: a pending block is above the ones
\* folded before it, and a queued block is no ancestor of one folded before it.
OrderInv ==
  /\ \A i, j \in 1..Len(pending) : i < j => Height[pending[j]] < Height[pending[i]]
  /\ asmPrunes = 0 => \A j \in 1..Len(queue) :
       /\ \A i \in 1..Len(queue) : i < j => ~OnChainOf(queue[i], queue[j])
       /\ \A i \in 1..Len(pending) : ~OnChainOf(pending[i], queue[j])

\* Until the operator drops anchors, what is folded or still to be folded is
\* anchored.
SeenInv ==
  asmPrunes = 0 => \A b \in Block : Folded(b) \/ b \in Listed => anchors[b] # None

\* A folded block without competitors is below everything that is still to be
\* folded: it is never written again.
AheadInv ==
  \A t \in Block : Uncontested(t) /\ Folded(t) =>
    /\ \A b \in Listed : Height[t] < Height[b]
    /\ pc = "plan" => Height[t] <= Height[cursor]

\* The walk starts at the last anchored block, the worker resumed from the last
\* folded one; commits arrive after startup only.
StartInv ==
  /\ ~live => queue = <<>>
  /\ pc = "plan" => /\ pending = <<>> => IsLast(anchors, cursor)
                    /\ IsLast(moho, curBlock)

\* Until the operator drops anchors, the lists end with the newest block of the
\* chain: what descends from a listed block is queued, and the catch-up ends at
\* the last anchored block.
TailInv ==
  asmPrunes = 0 =>
    /\ live /\ pc # "failed" => \A x \in Listed, e \in Block :
         anchors[e] # None /\ OnChainOf(e, x) => e = x \/ e \in Queued
    /\ ~live /\ pending # <<>> => IsLast(anchors, pending[1])

WaitInv == OrderInv /\ SeenInv /\ AheadInv /\ StartInv /\ TailInv

\* Writes to the entry store and failures move no block.
LEMMA WaitKept ==
  ASSUME WaitInv, UNCHANGED <<anchors, moho, queue, pending, asmPrunes, live>>,
         pc' # "plan" \/ UNCHANGED <<pc, cursor, curBlock>>,
         pc = "failed" => pc' = "failed"
  PROVE  WaitInv'
<1>1. Listed' = Listed /\ Queued' = Queued
  BY DEF Listed, Queued
<1>2. OrderInv' /\ SeenInv'
  BY <1>1 DEF WaitInv, OrderInv, SeenInv, Folded
<1>3. AheadInv'
  BY <1>1 DEF WaitInv, AheadInv, Folded, Uncontested
<1>4. StartInv'
  BY DEF WaitInv, StartInv, IsLast
<1>5. TailInv'
  BY <1>1 DEF WaitInv, TailInv, IsLast
<1> QED
  BY <1>2, <1>3, <1>4, <1>5 DEF WaitInv

\* Nothing is demanded of empty lists.
LEMMA WaitNothing ==
  ASSUME pending' = <<>>, queue' = <<>>, pc' # "plan",
         asmPrunes' = 0 => \A b \in Block : moho'[b] # None => anchors'[b] # None
  PROVE  WaitInv'
<1>1. Len(pending') = 0 /\ Len(queue') = 0
  OBVIOUS
<1>2. 1..Len(pending') = {} /\ 1..Len(queue') = {}
  BY <1>1, SMTT(60)
<1>3. Listed' = {}
  BY <1>2 DEF Listed, Queued
<1>4. OrderInv' /\ SeenInv' /\ AheadInv' /\ StartInv' /\ TailInv'
  BY <1>2, <1>3 DEF OrderInv, SeenInv, AheadInv, StartInv, TailInv, Folded
<1> QED
  BY <1>4 DEF WaitInv

\* The process stops or starts, or the operator prunes: nothing is listed.
LEMMA WaitOffline ==
  ASSUME TypeInv, IInv, CatchUpInv, WaitInv,
         \/ LaunchAsm \/ Exit \/ Crash
         \/ \E h \in DropHeights : PruneAnchors(h)
         \/ \E h \in MohoHeights : PruneMoho(h)
  PROVE  WaitInv'
<1>1. asmPrunes = 0 => \A b \in Block : Folded(b) => anchors[b] # None
  BY DEF WaitInv, SeenInv
<1>2. pc = "down" => pending = <<>> /\ queue = <<>>
  BY DEF CatchUpInv, PendingInv, WaitInv, StartInv
<1>3. CASE LaunchAsm
  <2>1. pc = "down" /\ pc' = "seed" /\ UNCHANGED <<moho, pending, queue, asmPrunes>>
    BY <1>3 DEF LaunchAsm, planVars, boundVars
  <2>2. GenesisState # None
    <3>1. GenesisState \in AnchorState /\ None \notin AnchorState
      BY FoldAssumption, LogAssumption, Lineage
    <3> QED
      BY <3>1
  <2>3. anchors' = anchors \/ anchors' = [anchors EXCEPT ![Genesis] = GenesisState]
    BY <1>3 DEF LaunchAsm, Asm!Start, Asm!StoreGenesis, Asm!GenesisState, GenesisState,
       Asm!Heights, Heights, Asm!GenesisHeight, GenesisHeight
  <2>4. \A b \in Block : anchors[b] # None => anchors'[b] # None
    BY <2>2, <2>3  DEF IInv, AnchorsInv
  <2>5. pc' # "plan"
    BY <2>1
  <2> QED
    BY <1>1, <1>2, <2>1, <2>4, <2>5, WaitNothing DEF Folded
<1>4. CASE Exit \/ Crash
  <2>1. /\ UNCHANGED <<anchors, moho, asmPrunes>>
        /\ queue' = <<>> /\ pending' = <<>> /\ pc' = "down"
    BY <1>4 DEF Exit, Crash, Stop, Asm!Stop
  <2>2. pc' # "plan"
    BY <2>1
  <2> QED
    BY <1>1, <2>1, <2>2, WaitNothing DEF Folded
<1>5. ASSUME NEW h, PruneAnchors(h) PROVE WaitInv'
  <2>1. ~up /\ UNCHANGED <<pc, queue, pending>> /\ asmPrunes' = asmPrunes + 1
    BY <1>5 DEF PruneAnchors, Asm!Drop, planVars
  <2>2. pc = "down"
    BY <2>1 DEF CatchUpInv, AncestryInv
  <2>3. pc' # "plan" /\ asmPrunes' # 0
    BY <2>1, <2>2, SMTT(60) DEF TypeInv
  <2> QED
    BY <1>2, <2>1, <2>2, <2>3, WaitNothing
<1>6. ASSUME NEW h, PruneMoho(h) PROVE WaitInv'
  <2>1. pc = "down" /\ UNCHANGED <<anchors, pc, queue, pending, asmPrunes>>
    BY <1>6 DEF PruneMoho, asmVars, planVars
  <2>2. \A b \in Block : moho'[b] \in {moho[b], None}
    BY <1>6 DEF PruneMoho, IInv, MohoInv
  <2>3. pc' # "plan"
    BY <2>1
  <2> QED
    BY <1>1, <1>2, <2>1, <2>2, <2>3, WaitNothing DEF Folded
<1> QED
  BY <1>3, <1>4, <1>5, <1>6

\* The worker resumes from its last folded block and walks from the last anchored one.
LEMMA WaitSeed == ASSUME TypeInv, IInv, CatchUpInv, WaitInv, Seed PROVE WaitInv'
<1>1. pc = "seed" /\ UNCHANGED <<anchors, queue, live, pending, asmPrunes>>
  BY DEF Seed, asmVars, boundVars
<1>2. pending = <<>> /\ queue = <<>>
  BY <1>1  DEF CatchUpInv, PendingInv, WaitInv, StartInv
<1>3. CASE pc' = "failed"
  <2>1. UNCHANGED moho
    BY <1>3  DEF Seed
  <2>2. pc' # "plan"
    BY <1>3
  <2> QED
    BY <1>1, <1>3, <2>1, <2>2, WaitKept
<1>4. CASE pc' = "plan"
  <2>1. Resume(Seeded)
    BY <1>4  DEF Seed
  <2>2. PICK b, t \in Block : /\ IsLast(Seeded, b)
                             /\ IsLast(anchors, t)
                             /\ moho' = Seeded
                             /\ curBlock' = b
                             /\ cursor' = t
    BY <2>1 DEF Resume
  <2>3. \A x \in Block : moho'[x] # None => Folded(x) \/ x = Genesis
    BY <2>2  DEF Folded, Seeded, IInv, MohoInv
  <2>4. asmPrunes' = 0 => \A x \in Block : moho'[x] # None => anchors'[x] # None
    BY <1>1, <2>3 DEF WaitInv, SeenInv, CatchUpInv, AncestryInv
  <2>5. Listed' = {} /\ 1..Len(pending') = {} /\ 1..Len(queue') = {}
    <3>1. Len(pending') = 0 /\ Len(queue') = 0
      BY <1>1, <1>2
    <3>2. 1..Len(pending') = {} /\ 1..Len(queue') = {}
      BY <3>1, SMTT(60)
    <3> QED
      BY <3>2 DEF Listed, Queued
  <2>6. OrderInv' /\ SeenInv'
    BY <2>4, <2>5 DEF OrderInv, SeenInv, Folded
  <2>7. ASSUME NEW x \in Block, Uncontested(x)', Folded(x)' PROVE Height[x] <= Height[t]
    <3>1. anchors[x] # None
      BY <1>1, <2>4, <2>7 DEF Uncontested, Folded
    <3>2. Height[x] < Height[t] \/ Height[x] = Height[t]
      BY <2>2, <3>1 DEF IsLast
    <3> QED
      BY <3>2, HeightFact, SMTT(60)
  <2>8. AheadInv'
    BY <2>2, <2>5, <2>7 DEF AheadInv
  <2>9. StartInv' /\ TailInv'
    BY <1>1, <1>2, <2>2, <2>5 DEF StartInv, TailInv, IsLast
  <2> QED
    BY <2>6, <2>8, <2>9 DEF WaitInv
<1> QED
  BY <1>3, <1>4 DEF Seed

\* The walk collects a block that is not folded, so it is above every folded one
\* without competitors.
LEMMA WaitPlan == ASSUME TypeInv, IInv, CatchUpInv, ChainInv, WaitInv, Plan PROVE WaitInv'
<1>1. pc = "plan" /\ UNCHANGED <<anchors, queue, moho, curBlock, asmPrunes>>
  BY DEF Plan, asmVars, boundVars, curVars
<1>2. /\ cursor \in Block /\ pending \in Seq(Block)
      /\ asmPrunes = 0 => anchors[cursor] # None
      /\ pending # <<>> => Parent[Current] = cursor
      /\ queue = <<>>
  BY <1>1  DEF CatchUpInv, WalkInv, PendingInv, IInv, WorkInv, WaitInv, StartInv
<1>3. 1..Len(queue) = {}
  <2>1. Len(queue) = 0
    BY <1>2
  <2> QED
    BY <2>1, SMTT(60)
<1>4. CASE pending' = pending
  <2>1. pc' # "plan"
    <3>1. pending # Append(pending, cursor)
      BY <1>2, SMTT(60)
    <3> QED
      BY <1>4, <3>1  DEF Plan
  <2>2. Listed' = Listed
    BY <1>1, <1>4 DEF Listed, Queued
  <2>3. OrderInv' /\ SeenInv'
    BY <1>1, <1>4, <2>2 DEF WaitInv, OrderInv, SeenInv, Folded
  <2>4. AheadInv'
    BY <1>1, <2>1, <2>2 DEF WaitInv, AheadInv, Folded, Uncontested
  <2>5. StartInv'
    BY <1>1, <1>2, <2>1 DEF StartInv
  <2>6. TailInv'
    <3>1. ~live
      BY <1>1 DEF CatchUpInv, PendingInv
    <3>2. live' /\ pc' # "failed" => pending = <<>>
      BY <1>1, <1>4, <2>1, <3>1 DEF Plan
    <3>3. pending = <<>> => Listed' = {}
      <4>1. ASSUME pending = <<>> PROVE Len(pending) = 0
        BY <4>1
      <4>2. pending = <<>> => 1..Len(pending) = {}
        BY <4>1, SMTT(60)
      <4> QED
        BY <1>3, <2>2, <4>2 DEF Listed, Queued
    <3> QED
      BY <1>1, <1>4, <3>1, <3>2, <3>3 DEF WaitInv, TailInv, IsLast
  <2> QED
    BY <2>3, <2>4, <2>5, <2>6 DEF WaitInv
<1>5. CASE pending' # pending
  <2>1. /\ pc' = "plan" /\ live' = live /\ Above(cursor) /\ ~Folded(cursor)
        /\ pending' = Append(pending, cursor) /\ cursor' = Parent[cursor]
    BY <1>1, <1>5  DEF Plan
  <2>2. /\ Len(pending') = Len(pending) + 1 /\ Len(pending) \in Nat
        /\ pending'[Len(pending) + 1] = cursor
        /\ \A i \in 1..Len(pending) : pending'[i] = pending[i]
        /\ pending' # <<>>
    BY <1>2, <2>1, SMTT(60)
  <2>3. Listed' = Listed \cup {cursor}
    <3>1. {pending'[i] : i \in 1..Len(pending')} = {pending[i] : i \in 1..Len(pending)} \cup {cursor}
      <4>1. 1..Len(pending') = 1..Len(pending) \cup {Len(pending) + 1}
        BY <2>2, SMTT(60)
      <4> QED
        BY <2>2, <4>1
    <3> QED
      BY <1>1, <3>1 DEF Listed, Queued
  <2>4. SeenInv'
    BY <1>1, <1>2, <2>3 DEF WaitInv, SeenInv, Folded
  <2>5. ASSUME NEW t \in Block, Uncontested(t), Folded(t)
        PROVE  Height[t] < Height[cursor] /\ Height[t] <= Height[Parent[cursor]]
    <3>1. Height[t] <= Height[cursor]
      BY <1>1, <2>5 DEF WaitInv, AheadInv
    <3>2. asmPrunes = 0 /\ anchors[t] # None
      BY <2>5 DEF WaitInv, SeenInv, Uncontested
    <3>3. ASSUME Height[t] = Height[cursor] PROVE FALSE
      <4>1. OnChainOf(cursor, t)
        BY <1>2, <2>5, <3>1, <3>2, Trunk
      <4>2. Rooted(t)
        BY <3>2 DEF IInv, AnchorsInv, Rooted
      <4>3. t = cursor
        BY <1>2, <3>2, <3>3, <4>1, <4>2, OwnChain
      <4> QED
        BY <2>1, <2>5, <4>3
    <3>4. /\ Height[t] \in Nat /\ Height[cursor] \in Nat
          /\ Height[Parent[cursor]] = Height[cursor] - 1
      BY <1>2, <2>1, HeightFact
    <3> QED
      BY <3>1, <3>3, <3>4, SMTT(60)
  <2>6. AheadInv'
    <3>1. ASSUME NEW t \in Block, Uncontested(t)', Folded(t)' PROVE Uncontested(t) /\ Folded(t)
      BY <1>1, <3>1 DEF Uncontested, Folded
    <3> QED
      BY <2>1, <2>3, <2>5, <3>1 DEF WaitInv, AheadInv
  <2>7. OrderInv'
    <3>1. ASSUME NEW i \in 1..Len(pending'), NEW j \in 1..Len(pending'), i < j
          PROVE  Height[pending'[j]] < Height[pending'[i]]
      <4>1. i \in 1..Len(pending) /\ pending'[i] = pending[i] /\ pending[i] \in Block
        BY <1>2, <2>2, <3>1, SMTT(60)
      <4>2. CASE j \in 1..Len(pending)
        BY <2>2, <3>1, <4>1, <4>2 DEF WaitInv, OrderInv
      <4>3. CASE j = Len(pending) + 1
        <5>1. pending'[j] = cursor
          BY <2>2, <4>3
        <5>2. pending # <<>> /\ Len(pending) \in 1..Len(pending)
          BY <1>2, <2>2, <4>1, SMTT(60)
        <5>3. Current \in Block /\ Above(Current) /\ Height[cursor] = Height[Current] - 1
          BY <1>2, <5>2, CurrentFact, HeightFact
        <5>4. i = Len(pending) \/ Height[Current] < Height[pending[i]]
          <6>1. i = Len(pending) \/ i < Len(pending)
            BY <2>2, <4>1, SMTT(60)
          <6> QED
            BY <4>1, <5>2, <6>1 DEF WaitInv, OrderInv, Current
        <5>5. pending[i] = Current \/ Height[Current] < Height[pending[i]]
          BY <5>4 DEF Current
        <5>6. Height[cursor] \in Nat /\ Height[Current] \in Nat /\ Height[pending[i]] \in Nat
          BY <1>2, <4>1, <5>3, HeightFact
        <5>7. Height[cursor] < Height[pending[i]]
          BY <5>3, <5>5, <5>6, SMTT(60)
        <5> QED
          BY <4>1, <5>1, <5>7
      <4> QED
        BY <2>2, <3>1, <4>2, <4>3, SMTT(60)
    <3> QED
      BY <1>1, <1>3, <3>1 DEF OrderInv
  <2>8. StartInv'
    BY <1>1, <1>2, <2>1, <2>2 DEF WaitInv, StartInv, IsLast
  <2>9. TailInv'
    <3>1. ~live
      BY <1>1 DEF CatchUpInv, PendingInv
    <3>2. CASE pending = <<>>
      <4>1. pending'[1] = cursor
        BY <1>2, <2>1, <3>2, SMTT(60)
      <4> QED
        BY <1>1, <2>1, <3>1, <3>2, <4>1 DEF WaitInv, StartInv, TailInv, IsLast
    <3>3. CASE pending # <<>>
      <4>1. 1 \in 1..Len(pending)
        BY <1>2, <3>3, SMTT(60)
      <4> QED
        BY <1>1, <2>1, <2>2, <3>1, <3>3, <4>1 DEF WaitInv, TailInv, IsLast
    <3> QED
      BY <3>2, <3>3
  <2> QED
    BY <2>4, <2>6, <2>7, <2>8, <2>9 DEF WaitInv
<1> QED
  BY <1>4, <1>5

\* The head of the queue becomes the only pending block.
LEMMA WaitReceive == ASSUME IInv, CatchUpInv, WaitInv, Receive PROVE WaitInv'
<1>1. /\ UNCHANGED <<anchors, moho, live, asmPrunes>> /\ pc = "idle" /\ pc' = "fold"
      /\ queue # <<>> /\ pending' = <<Head(queue)>> /\ queue' = Tail(queue)
  BY DEF Receive, boundVars
<1>2. queue \in Seq(Block) /\ pending = <<>> /\ live
  BY <1>1  DEF IInv, WorkInv, CatchUpInv, PendingInv
<1>3. /\ Len(queue') = Len(queue) - 1 /\ Len(queue) \in Nat /\ 1 \in 1..Len(queue)
      /\ \A i \in 1..Len(queue') : i + 1 \in 1..Len(queue) /\ queue'[i] = queue[i + 1]
      /\ Len(pending') = 1 /\ pending'[1] = queue[1]
  BY <1>1, <1>2, SMTT(60)
<1>4. Listed' \subseteq Listed
  <2>1. {queue'[i] : i \in 1..Len(queue')} \subseteq {queue[i] : i \in 1..Len(queue)}
    <3>1. \A i \in 1..Len(queue') : \E k \in 1..Len(queue) : queue'[i] = queue[k]
      BY <1>3
    <3> QED
      BY <3>1
  <2>2. 1..Len(pending') = {1}
    BY <1>3, SMTT(60)
  <2>3. {pending'[i] : i \in 1..Len(pending')} = {queue[1]}
    BY <1>3, <2>2
  <2> QED
    BY <1>3, <2>1, <2>3 DEF Listed, Queued
<1>5. pc' # "plan"
  BY <1>1
<1>6. SeenInv' /\ AheadInv' /\ StartInv'
  BY <1>1, <1>2, <1>4, <1>5 DEF WaitInv, SeenInv, AheadInv, StartInv, Folded, Uncontested
<1>7. OrderInv'
  <2>1. \A i, j \in 1..Len(pending') : ~(i < j)
    BY <1>3, SMTT(60)
  <2>2. ASSUME asmPrunes' = 0, NEW j \in 1..Len(queue'), NEW i \in 1..Len(queue'), i < j
        PROVE  ~OnChainOf(queue'[i], queue'[j])
    <3>1. i + 1 < j + 1 /\ i + 1 \in 1..Len(queue) /\ j + 1 \in 1..Len(queue)
          /\ queue'[i] = queue[i + 1] /\ queue'[j] = queue[j + 1]
      BY <1>3, <2>2, SMTT(60)
    <3> QED
      BY <1>1, <2>2, <3>1 DEF WaitInv, OrderInv
  <2>3. ASSUME asmPrunes' = 0, NEW j \in 1..Len(queue'), NEW i \in 1..Len(pending')
        PROVE  ~OnChainOf(pending'[i], queue'[j])
    <3>1. pending'[i] = queue[1] /\ 1 < j + 1 /\ j + 1 \in 1..Len(queue) /\ queue'[j] = queue[j + 1]
      BY <1>3, <2>3, SMTT(60)
    <3> QED
      BY <1>1, <1>3, <2>3, <3>1 DEF WaitInv, OrderInv
  <2> QED
    BY <2>1, <2>2, <2>3 DEF OrderInv
<1>8. TailInv'
  <2>1. ASSUME asmPrunes = 0, NEW x \in Listed', NEW e \in Block, anchors[e] # None, OnChainOf(e, x),
               e # x, e \notin Queued'
        PROVE  FALSE
    <3>1. x \in Listed
      BY <1>4, <2>1
    <3>2. e \in Queued
      BY <1>1, <1>2, <2>1, <3>1 DEF WaitInv, TailInv
    <3>3. \A k \in 1..Len(queue) : k = 1 \/ \E i \in 1..Len(queue') : queue[k] = queue'[i]
      <4>1. ASSUME NEW k \in 1..Len(queue), k # 1 PROVE k - 1 \in 1..Len(queue') /\ (k - 1) + 1 = k
        BY <1>3, <4>1, SMTT(60)
      <4> QED
        BY <1>3, <4>1
    <3>4. e = queue[1]
      BY <2>1, <3>2, <3>3 DEF Queued
    <3>5. x = queue[1] \/ \E j \in 1..Len(queue') : x = queue'[j]
      <4>1. \A i \in 1..Len(pending') : i = 1
        BY <1>3, SMTT(60)
      <4> QED
        BY <1>3, <2>1, <4>1 DEF Listed, Queued
    <3>6. PICK j \in 1..Len(queue') : x = queue'[j]
      BY <2>1, <3>4, <3>5
    <3>7. 1 < j + 1 /\ j + 1 \in 1..Len(queue) /\ x = queue[j + 1]
      BY <1>3, <3>6, SMTT(60)
    <3> QED
      BY <1>3, <2>1, <3>4, <3>7 DEF WaitInv, OrderInv
  <2> QED
    BY <1>1, <1>2, <2>1 DEF TailInv
<1> QED
  BY <1>6, <1>7, <1>8 DEF WaitInv

\* The stored block is below the pending ones and, without competitors, below
\* the queued ones.
LEMMA WaitStore == ASSUME IInv, CatchUpInv, WaitInv, StoreMoho PROVE WaitInv'
<1> DEFINE n == Len(pending)
<1>1. /\ UNCHANGED <<anchors, queue, asmPrunes>> /\ pc = "store"
      /\ moho' = [moho EXCEPT ![Current] = next]
      /\ pending' = SubSeq(pending, 1, n - 1)
      /\ live' = (n = 1)
  BY DEF StoreMoho, asmVars, boundVars
<1>2. pc' # "plan"
  BY DEF StoreMoho
<1>3. pending # <<>> /\ pending \in Seq(Block) /\ Current \in Block
  <2>1. pc \in Writing
    BY <1>1  DEF Writing
  <2>2. pending # <<>> /\ pending \in Seq(Block)
    BY <2>1 DEF IInv, FoldInv, WorkInv
  <2> QED
    BY <2>2, CurrentFact
<1>4. n \in Nat /\ n >= 1 /\ n \in 1..n
  BY <1>3, SMTT(60)
<1>5. /\ pending' \in Seq(Block) /\ Len(pending') = n - 1
      /\ \A i \in 1..(n - 1) : pending'[i] = pending[i]
  BY <1>1, <1>3, <1>4, FrontFact
<1>6. \A i \in 1..Len(pending') : i \in 1..n /\ i < n /\ pending'[i] = pending[i]
  BY <1>4, <1>5, SMTT(60)
<1> HIDE DEF n
<1>7. Listed' \subseteq Listed
  <2>1. {pending'[i] : i \in 1..Len(pending')} \subseteq {pending[i] : i \in 1..n}
    BY <1>6
  <2> QED
    BY <1>1, <2>1 DEF Listed, Queued, n
<1>8. Current \in Listed /\ Current = pending[n]
  BY <1>4 DEF Listed, Current, n
<1>9. \A b \in Block : Folded(b)' => Folded(b) \/ b = Current
  BY <1>1  DEF IInv, MohoInv, Folded
<1>10. SeenInv'
  BY <1>1, <1>7, <1>8, <1>9 DEF WaitInv, SeenInv
<1>11. StartInv'
  <2>1. live => live'
    <3>1. live => n <= 1
      BY DEF CatchUpInv, PendingInv, n
    <3>2. live => n = 1
      BY <1>4, <3>1, SMTT(60)
    <3> QED
      BY <1>1, <3>2
  <2>2. ~live' => queue' = <<>>
    BY <1>1, <2>1 DEF WaitInv, StartInv
  <2> QED
    BY <1>2, <2>2 DEF StartInv
<1>12. OrderInv'
  BY <1>1, <1>6 DEF WaitInv, OrderInv, n
<1>13. AheadInv'
  <2>1. ASSUME NEW t \in Block, Uncontested(t)', Folded(t)', NEW b \in Listed' PROVE Height[t] < Height[b]
    <3>1. Uncontested(t)
      BY <1>1, <2>1 DEF Uncontested
    <3>2. CASE Folded(t)
      BY <1>7, <2>1, <3>1, <3>2 DEF WaitInv, AheadInv
    <3>3. CASE t = Current
      <4>1. CASE \E i \in 1..Len(pending') : b = pending'[i]
        <5>1. PICK i \in 1..Len(pending') : b = pending'[i]
          BY <4>1
        <5>2. i \in 1..n /\ i < n /\ b = pending[i]
          BY <1>6, <5>1
        <5> QED
          BY <1>4, <1>8, <3>3, <5>2 DEF WaitInv, OrderInv, n
      <4>2. CASE \E j \in 1..Len(queue) : b = queue[j]
        <5>1. PICK j \in 1..Len(queue) : b = queue[j]
          BY <4>2
        <5>2. asmPrunes = 0 /\ ~OnChainOf(t, b)
          BY <1>4, <1>8, <3>1, <3>3, <5>1 DEF WaitInv, OrderInv, Uncontested, n
        <5>3. b \in Block /\ anchors[b] # None
          <6>1. b \in Block
            BY <5>1, SMTT(60) DEF IInv, WorkInv
          <6> QED
            BY <1>7, <2>1, <5>2, <6>1 DEF WaitInv, SeenInv
        <5>4. ~(Height[b] <= Height[t])
          BY <3>1, <5>2, <5>3 DEF Uncontested
        <5> QED
          BY <5>3, <5>4, HeightFact, SMTT(60)
      <4> QED
        BY <1>1, <2>1, <4>1, <4>2 DEF Listed, Queued
    <3> QED
      BY <1>9, <2>1, <3>2, <3>3
  <2> QED
    BY <1>2, <2>1 DEF AheadInv
<1>14. TailInv'
  <2>1. CASE live
    <3>1. live' /\ pc # "failed" /\ Queued' = Queued
      <4>1. n <= 1
        BY <2>1 DEF CatchUpInv, PendingInv, n
      <4>2. n = 1
        BY <1>4, <4>1, SMTT(60)
      <4> QED
        BY <1>1, <4>2 DEF Queued
    <3> QED
      BY <1>1, <1>7, <2>1, <3>1 DEF WaitInv, TailInv
  <2>2. CASE ~live
    <3>1. queue = <<>>
      BY <2>2 DEF WaitInv, StartInv
    <3>2. CASE n = 1
      <4>1. Len(pending') = 0 /\ Len(queue') = 0
        BY <1>1, <1>5, <3>1, <3>2, SMTT(60)
      <4>2. 1..Len(pending') = {} /\ 1..Len(queue') = {}
        BY <4>1, SMTT(60)
      <4>3. Listed' = {}
        BY <4>2 DEF Listed, Queued
      <4> QED
        BY <1>1, <3>2, <4>3 DEF TailInv
    <3>3. CASE n # 1
      <4>1. 1 \in 1..(n - 1)
        BY <1>4, <3>3, SMTT(60)
      <4>2. pending'[1] = pending[1] /\ ~live'
        BY <1>1, <1>5, <3>3, <4>1
      <4> QED
        BY <1>1, <1>3, <2>2, <4>2 DEF WaitInv, TailInv, IsLast
    <3> QED
      BY <3>2, <3>3
  <2> QED
    BY <2>1, <2>2
<1> QED
  BY <1>10, <1>11, <1>12, <1>13, <1>14 DEF WaitInv

\* A commit is queued unless the worker failed.
LEMMA QueuedCommit ==
  ASSUME IInv, NEW b \in Block, AsmCommit(b)
  PROVE  /\ Queued' \subseteq Queued \cup {b}
         /\ pc # "failed" => Queued' = Queued \cup {b}
<1>1. queue \in Seq(Block)
  BY DEF IInv, WorkInv
<1>2. queue' = queue \/ queue' = Append(queue, b)
  BY DEF AsmCommit
<1>3. pc # "failed" => queue' = Append(queue, b)
  BY DEF AsmCommit
<1>4. ASSUME queue' = Append(queue, b) PROVE Queued' = Queued \cup {b}
  <2>1. /\ \A i \in 1..Len(queue) : i \in 1..Len(queue') /\ queue'[i] = queue[i]
        /\ Len(queue') \in 1..Len(queue') /\ queue'[Len(queue')] = b
        /\ \A i \in 1..Len(queue') : queue'[i] = b \/ (i \in 1..Len(queue) /\ queue'[i] = queue[i])
    BY <1>1, <1>4, SMTT(60)
  <2>2. Queued' \subseteq Queued \cup {b}
    BY <2>1 DEF Queued
  <2>3. Queued \cup {b} \subseteq Queued'
    BY <2>1 DEF Queued
  <2> QED
    BY <2>2, <2>3
<1>5. queue' = queue => Queued' = Queued
  BY DEF Queued
<1> QED
  BY <1>2, <1>3, <1>4, <1>5

\* A new commit is no ancestor of an anchored block, so it is queued behind its
\* ancestors and above every folded block without competitors.
LEMMA WaitCommit ==
  ASSUME TypeInv, IInv, CatchUpInv, ChainInv, WaitInv, NEW b \in Block, AsmCommit(b)
  PROVE  WaitInv'
<1>1. /\ live /\ UNCHANGED <<moho, pc, live, cursor, curBlock, pending, asmPrunes>>
      /\ anchors' = [anchors EXCEPT ![b] = CanonState[b]] /\ anchors[b] = None
      /\ queue' = queue \/ queue' = Append(queue, b)
      /\ pc # "failed" => queue' = Append(queue, b)
  BY DEF AsmCommit, Asm!Commit, Asm!Committed, curVars, planVars, boundVars
<1>2. pc # "plan"
  BY <1>1 DEF CatchUpInv, PendingInv
<1>3. CanonState[b] # None
  <2>1. CanonState[b] \in AnchorState /\ None \notin AnchorState
    BY FoldAssumption, LogAssumption
  <2> QED
    BY <2>1
<1>4. \A c \in Block : anchors'[c] # None <=> anchors[c] # None \/ c = b
  BY <1>1, <1>3  DEF IInv, AnchorsInv
<1>5. Above(b)
  BY DEF AsmCommit, Asm!Commit, Asm!Above, Above, Asm!GenesisHeight, GenesisHeight
<1>6. Listed' \subseteq Listed \cup {b} /\ Listed \subseteq Block
  <2>1. queue \in Seq(Block) /\ pending \in Seq(Block)
    BY DEF IInv, WorkInv
  <2>2. Listed \subseteq Block
    BY <2>1, SMTT(60) DEF Listed, Queued
  <2>3. \A i \in 1..Len(queue') : queue'[i] = b \/ (i \in 1..Len(queue) /\ queue'[i] = queue[i])
    BY <1>1, <2>1, SMTT(60)
  <2> QED
    BY <1>1, <2>2, <2>3 DEF Listed, Queued
<1>7. ASSUME asmPrunes = 0, NEW x \in Block, anchors[x] # None PROVE ~OnChainOf(x, b)
  BY <1>1, <1>5, <1>7 DEF ChainInv, Rooted
<1>8. \A t \in Block : Uncontested(t)' => Uncontested(t)
  BY <1>1, <1>4 DEF Uncontested
<1>9. SeenInv'
  BY <1>1, <1>4, <1>6 DEF WaitInv, SeenInv, Folded
<1>10. StartInv'
  BY <1>1, <1>2 DEF StartInv
<1>11. AheadInv'
  <2>1. ASSUME NEW t \in Block, Uncontested(t)', Folded(t)' PROVE Height[t] < Height[b]
    <3>1. asmPrunes = 0 /\ anchors[t] # None
      BY <1>1, <2>1 DEF WaitInv, SeenInv, Uncontested, Folded
    <3>2. ~OnChainOf(t, b)
      BY <1>7, <3>1
    <3>3. ~(Height[b] <= Height[t])
      BY <1>4, <2>1, <3>2 DEF Uncontested
    <3> QED
      BY <3>3, HeightFact, SMTT(60)
  <2>2. ASSUME NEW t \in Block, Uncontested(t)', Folded(t)', NEW x \in Listed' PROVE Height[t] < Height[x]
    <3>1. Uncontested(t) /\ Folded(t)
      BY <1>1, <1>8, <2>2 DEF Folded
    <3> QED
      BY <1>6, <2>1, <2>2, <3>1 DEF WaitInv, AheadInv
  <2> QED
    BY <1>1, <1>2, <2>2 DEF AheadInv
<1>12. OrderInv'
  <2>1. queue \in Seq(Block) /\ pending \in Seq(Block)
    BY DEF IInv, WorkInv
  <2>2. asmPrunes = 0 => \A x \in Listed : ~OnChainOf(x, b)
    BY <1>6, <1>7 DEF WaitInv, SeenInv
  <2>3. /\ \A i \in 1..Len(queue) : queue[i] \in Listed
        /\ \A i \in 1..Len(pending) : pending[i] \in Listed
    BY DEF Listed, Queued
  <2>4. CASE queue' = queue
    BY <1>1, <2>4 DEF WaitInv, OrderInv
  <2>5. CASE queue' = Append(queue, b)
    <3>1. \A j \in 1..Len(queue') :
            \/ j \in 1..Len(queue) /\ queue'[j] = queue[j]
            \/ queue'[j] = b /\ j = Len(queue) + 1
      BY <2>1, <2>5, SMTT(60)
    <3>2. ASSUME asmPrunes = 0, NEW j \in 1..Len(queue'), NEW i \in 1..Len(queue'), i < j
          PROVE  ~OnChainOf(queue'[i], queue'[j])
      <4>1. i \in 1..Len(queue) /\ queue'[i] = queue[i]
        <5>1. Len(queue) \in Nat /\ Len(queue') = Len(queue) + 1
          BY <2>1, <2>5, SMTT(60)
        <5>2. i # Len(queue) + 1
          BY <3>2, <5>1, SMTT(60)
        <5> QED
          BY <3>1, <5>2
      <4> QED
        BY <2>2, <2>3, <3>1, <3>2, <4>1 DEF WaitInv, OrderInv
    <3>3. ASSUME asmPrunes = 0, NEW j \in 1..Len(queue'), NEW i \in 1..Len(pending)
          PROVE  ~OnChainOf(pending[i], queue'[j])
      BY <2>2, <2>3, <3>1, <3>3 DEF WaitInv, OrderInv
    <3> QED
      BY <1>1, <3>2, <3>3 DEF WaitInv, OrderInv
  <2> QED
    BY <1>1, <2>4, <2>5
<1>13. TailInv'
  <2>1. ASSUME asmPrunes = 0, pc # "failed", NEW x \in Listed', NEW e \in Block, anchors'[e] # None,
               OnChainOf(e, x), e # x
        PROVE  e \in Queued'
    <3>1. Queued \subseteq Queued' /\ b \in Queued'
      BY <2>1, QueuedCommit
    <3>2. CASE e = b
      BY <3>1, <3>2
    <3>3. CASE e # b
      <4>1. anchors[e] # None
        BY <1>4, <2>1, <3>3
      <4>2. x \in Listed
        BY <1>6, <1>7, <2>1, <4>1
      <4> QED
        BY <1>1, <2>1, <3>1, <4>1, <4>2 DEF WaitInv, TailInv
    <3> QED
      BY <3>2, <3>3
  <2> QED
    BY <1>1, <2>1 DEF TailInv
<1> QED
  BY <1>9, <1>10, <1>11, <1>12, <1>13 DEF WaitInv

-----------------------------------------------------------------------------
(* A container that begins with a block's exports, and the writes that keep *)
(* it so.                                                                  *)

\* The height has a row in the container.
Opened(c, h) == heightIdx[c][h] # None

\* Leaf i is under the row of height h.
Found(c, i, h) ==
  /\ Opened(c, h) /\ heightIdx[c][h] <= i
  /\ \A g \in Heights : Opened(c, g) =>
       (g < h => heightIdx[c][g] <= i) /\ (g > h => heightIdx[c][g] > i)

\* Entry i of t's container c is one that t or an ancestor of height h exported.
ExportedAt(t, c, i, h) ==
  \E k \in DOMAIN Exports[CanonState[t].hist[h].block][c] :
    Exported(t, c)[i + 1] = Exports[CanonState[t].hist[h].block][c][k]

\* Container c begins with t's entries, all of them under the rows of their
\* heights; what comes after them is under rows of greater heights, the first of
\* which starts there.
Clean(t, c) ==
  LET n == Len(Exported(t, c))
  IN /\ Begins(Exported(t, c), leaves[c])
     /\ \A i \in 0..(n - 1) : \E h \in Heights :
          h <= Height[t] /\ Found(c, i, h) /\ ExportedAt(t, c, i, h)
     /\ \A h \in Heights : Opened(c, h) =>
          (h <= Height[t] => heightIdx[c][h] <= n) /\ (h > Height[t] => heightIdx[c][h] >= n)
     /\ \A h \in Heights :
          /\ Opened(c, h) /\ h > Height[t]
          /\ \A g \in Heights : Opened(c, g) /\ g > Height[t] => h <= g
          => heightIdx[c][h] = n
     /\ Len(leaves[c]) > n => \E h \in Heights : h > Height[t] /\ Opened(c, h)

\* The rows and leaves of a container have their types.
LEMMA EntryTypes ==
  ASSUME TypeInv, NEW c \in Container
  PROVE  /\ leaves[c] \in Seq(Leaf) /\ Len(leaves[c]) \in Nat
         /\ \A l \in Leaf : hashIdx[c][l] \in Nat \cup {None}
         /\ \A h \in Heights : heightIdx[c][h] \in Nat \cup {None}
         /\ \A h \in Heights : Opened(c, h) => heightIdx[c][h] \in Nat
         /\ None \notin Nat
<1>1. /\ leaves \in [Container -> Seq(Leaf)]
      /\ hashIdx \in [Container -> [Leaf -> Nat \cup {None}]]
      /\ heightIdx \in [Container -> [Heights -> Nat \cup {None}]]
  BY DEF TypeInv, EntriesTypeInv
<1>2. leaves[c] \in Seq(Leaf) /\ Len(leaves[c]) \in Nat
  BY <1>1, SMTT(60)
<1>3. /\ \A l \in Leaf : hashIdx[c][l] \in Nat \cup {None}
      /\ \A h \in Heights : heightIdx[c][h] \in Nat \cup {None}
  BY <1>1
<1>4. None \notin Nat
  BY ExportAssumption
<1> QED
  BY <1>2, <1>3, <1>4 DEF Opened

\* A container that was not written to stays clean, whatever its hash rows.
LEMMA CleanSame ==
  ASSUME NEW t, NEW c, Clean(t, c), leaves'[c] = leaves[c], heightIdx'[c] = heightIdx[c]
  PROVE  Clean(t, c)'
<1>1. \A h : Opened(c, h)' <=> Opened(c, h)
  BY DEF Opened
<1>2. \A i, h : Found(c, i, h)' <=> Found(c, i, h)
  BY <1>1 DEF Found
<1> QED
  BY <1>1, <1>2 DEF Clean

\* Cutting the leaves no further than t's entries.
LEMMA CleanCut ==
  ASSUME TypeInv, NEW t \in Block, NEW c \in Container, Clean(t, c),
         NEW k \in Nat, Len(Exported(t, c)) <= k, k <= Len(leaves[c]),
         leaves'[c] = SubSeq(leaves[c], 1, k), heightIdx'[c] = heightIdx[c]
  PROVE  Clean(t, c)'
<1>1. \A h : Opened(c, h)' <=> Opened(c, h)
  BY DEF Opened
<1>2. \A i, h : Found(c, i, h)' <=> Found(c, i, h)
  BY <1>1 DEF Found
<1>3. leaves[c] \in Seq(Leaf) /\ Exported(t, c) \in Seq(Leaf)
  BY EntryTypes, ExportedFact
<1>4. Len(leaves'[c]) = k /\ \A i \in 1..k : leaves'[c][i] = leaves[c][i]
  BY <1>3, SMTT(60)
<1>5. Begins(Exported(t, c), leaves[c])
  BY DEF Clean
<1>6. Begins(Exported(t, c), leaves'[c])
  BY <1>3, <1>4, <1>5, SMTT(60) DEF Begins
<1>7. Len(leaves'[c]) > Len(Exported(t, c)) => Len(leaves[c]) > Len(Exported(t, c))
  BY <1>3, <1>4, SMTT(60)
<1> QED
  BY <1>1, <1>2, <1>6, <1>7 DEF Clean

\* Dropping the last row, above t: when it was the only one above t, the leaves
\* under it are gone.
LEMMA CleanRow ==
  ASSUME TypeInv, NEW t \in Block, NEW c \in Container, Clean(t, c),
         NEW g \in Heights, g > Height[t], Opened(c, g),
         \A h \in Heights : Opened(c, h) => h <= g,
         \/ Len(leaves[c]) <= Len(Exported(t, c))
         \/ \E h \in Heights : h # g /\ h > Height[t] /\ Opened(c, h),
         heightIdx' = [heightIdx EXCEPT ![c][g] = None], UNCHANGED leaves
  PROVE  Clean(t, c)'
<1> DEFINE n == Len(Exported(t, c))
<1>1. \A h \in Heights : /\ Opened(c, h)' <=> Opened(c, h) /\ h # g
                         /\ h # g => heightIdx'[c][h] = heightIdx[c][h]
  BY DEF TypeInv, EntriesTypeInv, Opened
<1>2. Heights \subseteq Nat /\ Height[t] \in Nat
  BY HeightFact
<1>3. ASSUME NEW i, NEW h \in Heights, h <= Height[t], Found(c, i, h) PROVE Found(c, i, h)'
  <2>1. h # g
    BY <1>2, <1>3, SMTT(60)
  <2> QED
    BY <1>1, <1>3, <2>1 DEF Found
<1>4. \A h \in Heights : Opened(c, h)' =>
        (h <= Height[t] => heightIdx'[c][h] <= n) /\ (h > Height[t] => heightIdx'[c][h] >= n)
  BY <1>1 DEF Clean
<1>5. ASSUME NEW h \in Heights, Opened(c, h)', h > Height[t],
             \A e \in Heights : Opened(c, e)' /\ e > Height[t] => h <= e
      PROVE  heightIdx'[c][h] = n
  <2>1. \A e \in Heights : Opened(c, e) /\ e > Height[t] => h <= e
    BY <1>1, <1>5
  <2> QED
    BY <1>1, <1>5, <2>1 DEF Clean
<1>6. Len(leaves'[c]) > n => \E h \in Heights : h > Height[t] /\ Opened(c, h)'
  <2>1. Len(leaves[c]) \in Nat /\ n \in Nat
    BY EntryTypes, ExportedFact, SMTT(60)
  <2>2. Len(leaves[c]) > n => ~(Len(leaves[c]) <= n)
    BY <2>1, SMTT(60)
  <2> QED
    BY <1>1, <2>2
<1>7. Begins(Exported(t, c), leaves[c])'
  BY DEF Clean
<1>8. \A i \in 0..(n - 1) : \E h \in Heights : h <= Height[t] /\ Found(c, i, h)' /\ ExportedAt(t, c, i, h)
  BY <1>3 DEF Clean
<1> QED
  BY <1>4, <1>5, <1>6, <1>7, <1>8 DEF Clean

\* Opening a row above t where there is none at that height or above.
LEMMA CleanOpen ==
  ASSUME TypeInv, NEW t \in Block, NEW c \in Container, Clean(t, c),
         NEW g \in Heights, g > Height[t], \A h \in Heights : h >= g => ~Opened(c, h),
         heightIdx' = [heightIdx EXCEPT ![c][g] = Len(leaves[c])], UNCHANGED leaves
  PROVE  Clean(t, c)'
<1> DEFINE n == Len(Exported(t, c))
<1>0. /\ Len(leaves[c]) \in Nat /\ n \in Nat /\ None \notin Nat
      /\ Heights \subseteq Nat /\ Height[t] \in Nat
  BY EntryTypes, ExportedFact, HeightFact, SMTT(60)
<1>1. /\ Opened(c, g)' /\ heightIdx'[c][g] = Len(leaves[c])
      /\ \A h \in Heights : h # g => /\ Opened(c, h)' <=> Opened(c, h)
                                     /\ heightIdx'[c][h] = heightIdx[c][h]
  BY <1>0  DEF TypeInv, EntriesTypeInv, Opened
<1>2. Begins(Exported(t, c), leaves[c]) /\ n <= Len(leaves[c])
  BY DEF Clean, Begins
<1>3. ASSUME NEW i \in 0..(n - 1), NEW h \in Heights, h <= Height[t], Found(c, i, h) PROVE Found(c, i, h)'
  <2>1. h # g /\ ~(g < h) /\ Len(leaves[c]) > i
    BY <1>0, <1>2, <1>3, SMTT(60)
  <2> QED
    BY <1>1, <1>3, <2>1 DEF Found
<1>4. ASSUME NEW h \in Heights, Opened(c, h)'
      PROVE  (h <= Height[t] => heightIdx'[c][h] <= n) /\ (h > Height[t] => heightIdx'[c][h] >= n)
  <2>1. CASE h = g
    BY <1>0, <1>1, <1>2, <2>1, SMTT(60)
  <2>2. CASE h # g
    BY <1>1, <1>4, <2>2 DEF Clean
  <2> QED
    BY <2>1, <2>2
<1>5. ASSUME NEW h \in Heights, Opened(c, h)', h > Height[t],
             \A e \in Heights : Opened(c, e)' /\ e > Height[t] => h <= e
      PROVE  heightIdx'[c][h] = n
  <2>1. CASE h = g
    <3>1. ASSUME NEW e \in Heights, e > Height[t], Opened(c, e) PROVE FALSE
      <4>1. ~(e >= g)
        BY <3>1
      <4>2. e # g /\ ~(g <= e)
        BY <1>0, <4>1, SMTT(60)
      <4> QED
        BY <1>1, <1>5, <2>1, <3>1, <4>2
    <3>2. ~(Len(leaves[c]) > n)
      BY <3>1 DEF Clean
    <3> QED
      BY <1>0, <1>1, <1>2, <2>1, <3>2, SMTT(60)
  <2>2. CASE h # g
    <3>1. \A e \in Heights : Opened(c, e) /\ e > Height[t] => h <= e
      BY <1>1, <1>5
    <3> QED
      BY <1>1, <1>5, <2>2, <3>1 DEF Clean
  <2> QED
    BY <2>1, <2>2
<1>6. \E h \in Heights : h > Height[t] /\ Opened(c, h)'
  BY <1>1
<1>7. Begins(Exported(t, c), leaves[c])'
  BY DEF Clean
<1>8. \A i \in 0..(n - 1) : \E h \in Heights : h <= Height[t] /\ Found(c, i, h)' /\ ExportedAt(t, c, i, h)
  BY <1>3 DEF Clean
<1> QED
  BY <1>4, <1>5, <1>6, <1>7, <1>8 DEF Clean

\* Appending a leaf under a row above t.
LEMMA CleanAppend ==
  ASSUME TypeInv, NEW t \in Block, NEW c \in Container, Clean(t, c),
         NEW g \in Heights, g > Height[t], Opened(c, g), NEW l \in Leaf,
         leaves' = [leaves EXCEPT ![c] = Append(@, l)], UNCHANGED heightIdx
  PROVE  Clean(t, c)'
<1>1. \A h : Opened(c, h)' <=> Opened(c, h)
  BY DEF Opened
<1>2. \A i, h : Found(c, i, h)' <=> Found(c, i, h)
  BY <1>1 DEF Found
<1>3. leaves[c] \in Seq(Leaf) /\ Exported(t, c) \in Seq(Leaf)
  BY EntryTypes, ExportedFact
<1>4. leaves'[c] = Append(leaves[c], l)
  BY DEF TypeInv, EntriesTypeInv
<1>5. Len(leaves'[c]) = Len(leaves[c]) + 1 /\ \A i \in 1..Len(leaves[c]) : leaves'[c][i] = leaves[c][i]
  BY <1>3, <1>4, SMTT(60)
<1>6. Begins(Exported(t, c), leaves[c])
  BY DEF Clean
<1>7. Begins(Exported(t, c), leaves'[c])
  BY <1>3, <1>5, <1>6, SMTT(60) DEF Begins
<1> QED
  BY <1>1, <1>2, <1>7 DEF Clean

-----------------------------------------------------------------------------
(* The prune at a block's height leaves the blocks below it alone.         *)

Appends == {"open_run", "append", "index", "store"}

\* There is a last row, and it is not above the last anchored block.
RowsInv ==
  /\ \E m \in Nat : \A c \in Container, h \in Heights : Opened(c, h) => h <= m
  /\ asmPrunes = 0 => \A c \in Container, h \in Heights : Opened(c, h) =>
       \E b \in Block : anchors[b] # None /\ h <= Height[b]

\* Where the fold of a block stands: the leaves go before the rows they are
\* under; once everything from the block's height up is gone, each container
\* gets its row and its entries.
StageInv ==
  /\ pc \in {"prune", "prune_hash", "prune_height"} =>
       todo = {c \in Container : Exports[Current][c] # <<>>}
  /\ pc \in {"prune_hash", "prune_height"} =>
       /\ Unpruned(CurrentHeight) # {}
       /\ Len(leaves[Pruning(CurrentHeight)]) <= FirstDropped(Pruning(CurrentHeight), CurrentHeight)
  /\ pc = "store" => todo = {}
  /\ pc \in Appends => \A c \in Container :
       /\ \A h \in Heights : h > CurrentHeight => ~Opened(c, h)
       /\ c \in todo /\ (pc = "open_run" \/ c # Appending) => ~Opened(c, CurrentHeight)

CleanInv ==
  \A t \in Block : Uncontested(t) /\ (Folded(t) \/ t = Genesis) => \A c \in Container : Clean(t, c)

\* A non-empty bounded set of numbers has a greatest one.
LEMMA GreatestOf ==
  ASSUME NEW S \in SUBSET Nat, S # {}, NEW m \in Nat, \A x \in S : x <= m
  PROVE  MaxOf(S) \in S /\ \A y \in S : MaxOf(S) >= y
<1> DEFINE T == {d \in Nat : m - d \in S}
<1>1. PICK x \in S : TRUE
  OBVIOUS
<1>2. m - x \in T
  BY <1>1, SMTT(60)
<1>3. T \in SUBSET Nat /\ T # {}
  BY <1>2
<1> DEFINE d == MinOf(T)
<1>4. d \in T /\ \A y \in T : d <= y
  BY <1>3, LeastOf
<1> HIDE DEF d
<1>5. m - d \in S /\ \A y \in S : m - d >= y
  <2>1. m - d \in S /\ d \in Nat
    BY <1>4
  <2>2. ASSUME NEW y \in S PROVE m - d >= y
    <3>1. m - y \in T
      BY <2>2, SMTT(60)
    <3>2. d <= m - y
      BY <1>4, <3>1
    <3> QED
      BY <2>1, <2>2, <3>2, SMTT(60)
  <2> QED
    BY <2>1, <2>2
<1> QED
  BY <1>5 DEF MaxOf

\* The earliest row to drop of the container that is pruned.
FirstRow == MinOf(RowsFrom(Pruning(CurrentHeight), CurrentHeight))

\* Where a prune stands: in the least container with a row to drop, whose earliest
\* such row says which leaves go.
LEMMA PruningFact ==
  ASSUME IInv, TypedInv, pc \in Writing, Unpruned(CurrentHeight) # {}
  PROVE  /\ Pruning(CurrentHeight) \in Container
         /\ FirstRow \in Heights /\ FirstRow >= CurrentHeight /\ Opened(Pruning(CurrentHeight), FirstRow)
         /\ \A g \in Heights :
              g >= CurrentHeight /\ Opened(Pruning(CurrentHeight), g) => FirstRow <= g
         /\ FirstDropped(Pruning(CurrentHeight), CurrentHeight)
              = heightIdx[Pruning(CurrentHeight)][FirstRow]
         /\ FirstDropped(Pruning(CurrentHeight), CurrentHeight) \in Nat
<1> DEFINE c == Pruning(CurrentHeight)
           m == MinOf(RowsFrom(c, CurrentHeight))
<1>1. Unpruned(CurrentHeight) \in SUBSET Nat
  BY ExportAssumption DEF Unpruned
<1>2. c \in Unpruned(CurrentHeight)
  BY <1>1, LeastOf DEF Pruning
<1>3. c \in Container /\ RowsFrom(c, CurrentHeight) # {}
  BY <1>2 DEF Unpruned
<1>4. RowsFrom(c, CurrentHeight) \in SUBSET Nat
  BY HeightFact DEF RowsFrom
<1>5. m \in RowsFrom(c, CurrentHeight) /\ \A g \in RowsFrom(c, CurrentHeight) : m <= g
  BY <1>3, <1>4, LeastOf
<1>6. /\ m \in Heights /\ m >= CurrentHeight /\ Opened(c, m)
      /\ \A g \in Heights : g >= CurrentHeight /\ Opened(c, g) => m <= g
  BY <1>5 DEF RowsFrom, Opened
<1>7. FirstDropped(c, CurrentHeight) = heightIdx[c][m]
  BY DEF FirstDropped
<1>8. heightIdx[c][m] \in Nat
  BY <1>3, <1>6, EntryTypes DEF TypedInv
<1> QED
  BY <1>3, <1>6, <1>7, <1>8 DEF FirstRow

\* The entry writes change neither the chain nor the Moho states nor the block
\* that is folded.
LEMMA EntryFrame ==
  ASSUME PruneLeaves \/ PruneHash \/ PruneHeight \/ StartRun \/ AppendEntry \/ IndexEntry
  PROVE  /\ pc \in Writing /\ pc' \in Writing
         /\ UNCHANGED <<anchors, asmPrunes, moho, pending, curBlock>>
         /\ Current' = Current /\ CurrentHeight' = CurrentHeight
         /\ \A t : (Uncontested(t)' <=> Uncontested(t)) /\ (Folded(t)' <=> Folded(t))
<1>1. pc \in Writing /\ pc' \in Writing
  BY DEF PruneLeaves, PruneHash, PruneHeight, StartRun, AppendEntry, IndexEntry, Writing,
     StartAppending
<1>2. UNCHANGED foldUnchanged
  BY DEF PruneLeaves, PruneHash, PruneHeight, StartRun, AppendEntry, IndexEntry
<1>3. UNCHANGED <<anchors, asmPrunes, moho, pending, curBlock>>
  BY <1>2 DEF foldUnchanged, asmVars, curVars, planVars, boundVars
<1>4. Current' = Current /\ CurrentHeight' = CurrentHeight
  BY <1>3 DEF Current, CurrentHeight
<1>5. \A t : (Uncontested(t)' <=> Uncontested(t)) /\ (Folded(t)' <=> Folded(t))
  BY <1>3 DEF Uncontested, Folded
<1> QED
  BY <1>1, <1>3, <1>4, <1>5

\* A folded block without competitors is below the block that is folded.
LEMMA Below ==
  ASSUME IInv, WaitInv, pc \in Writing,
         NEW t \in Block, Uncontested(t), Folded(t) \/ t = Genesis
  PROVE  /\ Height[t] < CurrentHeight
         /\ anchors[Current] # None
         /\ Current \in Block /\ Above(Current)
<1>1. pending # <<>> /\ pending \in Seq(Block)
  BY DEF IInv, FoldInv, WorkInv
<1>2. Current \in Block /\ Above(Current)
  BY <1>1, CurrentFact
<1>3. Current \in Listed
  <2>1. Len(pending) \in 1..Len(pending)
    BY <1>1, SMTT(60)
  <2> QED
    BY <2>1 DEF Listed, Current
<1>4. anchors[Current] # None
  BY <1>2, <1>3 DEF WaitInv, SeenInv, Uncontested
<1>5. CASE Folded(t)
  BY <1>2, <1>3, <1>4, <1>5 DEF WaitInv, AheadInv, CurrentHeight
<1>6. CASE t = Genesis
  <2>1. Height[t] < CurrentHeight
    BY <1>2, <1>6, HeightFact  DEF Above, GenesisHeight, CurrentHeight
  <2> QED
    BY <1>2, <1>4, <2>1
<1> QED
  BY <1>5, <1>6

\* The prune at a block's height reaches no entry of a block below it.
LEMMA CleanPrune ==
  ASSUME IInv, TypedInv, WaitInv, RowsInv, StageInv, CleanInv, PruneLeaves \/ PruneHash \/ PruneHeight
  PROVE  CleanInv'
<1> DEFINE H == CurrentHeight
           k == Pruning(CurrentHeight)
           m == FirstRow
           f == FirstDropped(k, CurrentHeight)
<1>1. TypeInv
  BY DEF TypedInv
<1>2. pc \in Writing /\ \A t : (Uncontested(t)' <=> Uncontested(t)) /\ (Folded(t)' <=> Folded(t))
  BY EntryFrame
<1>3. H \in Heights /\ Heights \subseteq Nat
  BY <1>2, WritingFact
<1> SUFFICES ASSUME NEW t \in Block, Uncontested(t), Folded(t) \/ t = Genesis, NEW c \in Container
             PROVE  Clean(t, c)'
  BY <1>2 DEF CleanInv
<1> DEFINE n == Len(Exported(t, k))
<1>4. Clean(t, c)
  BY DEF CleanInv
<1>5. Height[t] < H /\ Height[t] \in Nat
  BY <1>2, Below, HeightFact
<1>6. CASE UNCHANGED entryVars
  BY <1>4, <1>6, CleanSame DEF entryVars
<1>7. CASE Unpruned(H) # {}
  <2>1. /\ k \in Container /\ m \in Heights /\ m >= H /\ Opened(k, m)
        /\ \A g \in Heights : g >= H /\ Opened(k, g) => m <= g
        /\ f = heightIdx[k][m] /\ f \in Nat
    BY <1>2, <1>7, PruningFact
  <2>2. Clean(t, k)
    BY <2>1 DEF CleanInv
  <2> HIDE DEF k, m, f, H
  <2>3. m > Height[t]
    <3>1. m \in Heights /\ m >= H
      BY <2>1
    <3> QED
      BY <1>3, <1>5, <3>1, SMTT(60)
  <2>4. n <= f /\ n \in Nat
    <3>1. f >= n
      BY <2>1, <2>2, <2>3 DEF Clean
    <3>2. n \in Nat
      BY <2>1, ExportedFact, SMTT(60)
    <3> QED
      BY <2>1, <3>1, <3>2
  <2>5. /\ leaves \in [Container -> Seq(Leaf)]
        /\ hashIdx \in [Container -> [Leaf -> Nat \cup {None}]]
        /\ heightIdx \in [Container -> [Heights -> Nat \cup {None}]]
    BY <1>1 DEF TypeInv, EntriesTypeInv
  <2>6. CASE DropLeaves(k, H)
    <3> DEFINE j == IF f < Len(leaves[k]) THEN f ELSE Len(leaves[k])
    <3>1. leaves' = [leaves EXCEPT ![k] = SubSeq(leaves[k], 1, j)] /\ UNCHANGED <<hashIdx, heightIdx>>
      BY <2>6 DEF DropLeaves, f, H
    <3>2. CASE c # k
      BY <1>4, <2>5, <3>1, <3>2, CleanSame
    <3>3. CASE c = k
      <4>1. Len(leaves[k]) \in Nat /\ n <= Len(leaves[k])
        BY <1>1, <2>1, <2>2, EntryTypes DEF Clean, Begins
      <4>2. j \in Nat /\ n <= j /\ j <= Len(leaves[k])
        BY <2>1, <2>4, <4>1, SMTT(60)
      <4>3. leaves'[k] = SubSeq(leaves[k], 1, j)
        BY <2>1, <2>5, <3>1
      <4> HIDE DEF j
      <4> QED
        BY <1>1, <2>1, <2>2, <3>1, <3>3, <4>2, <4>3, CleanCut
    <3> QED
      BY <3>2, <3>3
  <2>7. CASE \E l \in StaleHashes(k, H) : DropHashRow(k, l)
    <3>1. UNCHANGED <<leaves, heightIdx>>
      BY <2>7 DEF DropHashRow
    <3> QED
      BY <1>4, <3>1, CleanSame
  <2>8. CASE pc = "prune_height" /\ DropHeightRow(k, H)
    <3> DEFINE g == MaxOf(RowsFrom(k, H))
    <3>1. g \in RowsFrom(k, H) /\ \A e \in RowsFrom(k, H) : g >= e
      <4>1. PICK b \in Nat : \A e \in Heights : Opened(k, e) => e <= b
        BY <2>1 DEF RowsInv
      <4>2. RowsFrom(k, H) \in SUBSET Nat /\ \A e \in RowsFrom(k, H) : e <= b
        BY <1>3, <4>1 DEF RowsFrom, Opened
      <4>3. RowsFrom(k, H) # {}
        BY <2>1 DEF RowsFrom, Opened
      <4> QED
        BY <4>2, <4>3, GreatestOf
    <3>2. heightIdx' = [heightIdx EXCEPT ![k][g] = None] /\ UNCHANGED <<leaves, hashIdx>>
      BY <2>8 DEF DropHeightRow
    <3> HIDE DEF g
    <3>3. g \in Heights /\ g >= H /\ Opened(k, g) /\ \A e \in Heights : e >= H /\ Opened(k, e) => g >= e
      BY <3>1 DEF RowsFrom, Opened
    <3>4. CASE c # k
      <4>1. heightIdx'[c] = heightIdx[c]
        BY <2>5, <3>2, <3>4
      <4> QED
        BY <1>4, <3>2, <4>1, CleanSame
    <3>5. CASE c = k
      <4>1. g > Height[t]
        BY <1>3, <1>5, <3>3, SMTT(60)
      <4>2. ASSUME NEW e \in Heights, Opened(k, e) PROVE e <= g
        <5>1. e >= H \/ e < H
          BY <1>3, SMTT(60)
        <5> QED
          BY <1>3, <3>3, <4>2, <5>1, SMTT(60)
      <4>3. \/ Len(leaves[k]) <= n
            \/ \E e \in Heights : e # g /\ e > Height[t] /\ Opened(k, e)
        <5> SUFFICES ASSUME \A e \in Heights : e > Height[t] /\ Opened(k, e) => e = g
                     PROVE  Len(leaves[k]) <= n
          OBVIOUS
        <5>1. m = g
          BY <2>1, <2>3
        <5>2. heightIdx[k][g] = n
          <6>1. \A e \in Heights : Opened(k, e) /\ e > Height[t] => g <= e
            BY <1>3, <3>3
          <6> QED
            BY <2>2, <3>3, <4>1, <6>1 DEF Clean
        <5>3. Len(leaves[k]) <= f
          BY <2>8 DEF StageInv, k, f
        <5> QED
          BY <2>1, <5>1, <5>2, <5>3
      <4> QED
        BY <1>1, <2>1, <2>2, <3>2, <3>3, <3>5, <4>1, <4>2, <4>3, CleanRow
    <3> QED
      BY <3>4, <3>5
  <2> QED
    BY <1>6, <2>6, <2>7, <2>8  DEF PruneLeaves, PruneHash, PruneHeight, k, H
<1>8. CASE Unpruned(H) = {}
  <2>1. PruneLeaves
    BY <1>8  DEF StageInv, PruneHash, PruneHeight
  <2> QED
    BY <1>6, <1>8, <2>1 DEF PruneLeaves
<1> QED
  BY <1>7, <1>8

-----------------------------------------------------------------------------
(* The entries of a block come after its parent's.                         *)

\* The block that is folded exports what its parent did and then its own; the
\* exports of a folded block without competitors are where its parent's begin.
LEMMA Parentage ==
  ASSUME IInv, CatchUpInv, ChainInv, WaitInv, pc \in Writing,
         NEW t \in Block, Uncontested(t), Folded(t) \/ t = Genesis
  PROVE  /\ Parent[Current] \in Block /\ Height[Parent[Current]] = CurrentHeight - 1
         /\ Grown(Current)
         /\ \A c \in Container : Begins(Exported(t, c), Exported(Parent[Current], c))
<1> DEFINE p == Parent[Current]
<1>1. /\ Height[t] < CurrentHeight /\ anchors[Current] # None
      /\ Current \in Block /\ Above(Current)
  BY Below
<1>2. asmPrunes = 0
  BY DEF Uncontested
<1>3. p \in Block /\ Height[p] = CurrentHeight - 1 /\ CurrentHeight \in Nat /\ Height[t] \in Nat
  BY <1>1, HeightFact DEF CurrentHeight
<1>4. Grown(Current)
  BY <1>1, <1>2 DEF ChainInv
<1>5. anchors[p] # None
  BY <1>1, <1>2 DEF CatchUpInv, AncestryInv
<1>6. anchors[t] # None
  <2>1. CASE Folded(t)
    BY <1>2, <2>1 DEF WaitInv, SeenInv
  <2>2. CASE t = Genesis
    BY <1>1, <1>2, <2>2 DEF ChainInv, Rooted, OnChainOf
  <2> QED
    BY <2>1, <2>2
<1>7. Height[t] <= Height[p]
  <2> HIDE DEF p
  <2> QED
    BY <1>1, <1>3, SMTT(60)
<1>8. OnChainOf(p, t)
  BY <1>3, <1>5, <1>6, <1>7, Trunk
<1>9. Rooted(t)
  BY <1>6 DEF IInv, AnchorsInv, Rooted
<1>10. \A c \in Container : Begins(Exported(t, c), Exported(p, c))
  BY <1>2, <1>3, <1>5, <1>8, <1>9 DEF ChainInv
<1> QED
  BY <1>3, <1>4, <1>10

\* Leaf k of a block's own exports is the leaf that many after its parent's.
LEMMA OwnLeaf ==
  ASSUME NEW x \in Block, Parent[x] \in Block, Grown(x), NEW c \in Container
  PROVE  /\ Len(Exported(Parent[x], c)) \in Nat /\ Len(Exports[x][c]) \in Nat
         /\ Len(Exported(x, c)) = Len(Exported(Parent[x], c)) + Len(Exports[x][c])
         /\ \A i \in 1..Len(Exported(Parent[x], c)) : Exported(x, c)[i] = Exported(Parent[x], c)[i]
         /\ \A k \in 1..Len(Exports[x][c]) :
              Exported(x, c)[Len(Exported(Parent[x], c)) + k] = Exports[x][c][k]
<1> DEFINE s == Exported(Parent[x], c)
           u == Exports[x][c]
<1>1. s \in Seq(Leaf) /\ u \in Seq(Leaf)
  BY ExportedFact
<1>2. Exported(x, c) = s \o u
  BY DEF Grown
<1> HIDE DEF s, u
<1>3. /\ Len(s) \in Nat /\ Len(u) \in Nat /\ Len(s \o u) = Len(s) + Len(u)
      /\ \A i \in 1..Len(s) : (s \o u)[i] = s[i]
      /\ \A k \in 1..Len(u) : (s \o u)[Len(s) + k] = u[k]
  BY <1>1, SMTT(60)
<1> QED
  BY <1>2, <1>3 DEF s, u

\* The entries of a block disturb no block below it: its rows are higher and its
\* leaves come after.
LEMMA CleanEntries ==
  ASSUME IInv, TypedInv, CatchUpInv, ChainInv, WaitInv, StageInv, CleanInv,
         StartRun \/ AppendEntry \/ IndexEntry
  PROVE  CleanInv'
<1> DEFINE H == CurrentHeight
           k == Appending
           u == Exports[Current][Appending]
<1>1. TypeInv
  BY DEF TypedInv
<1>2. pc \in Writing /\ \A t : (Uncontested(t)' <=> Uncontested(t)) /\ (Folded(t)' <=> Folded(t))
  BY EntryFrame
<1>3. pc \in {"open_run", "append", "index"}
  BY DEF StartRun, AppendEntry, IndexEntry
<1>4. H \in Heights /\ Heights \subseteq Nat /\ k \in todo /\ k \in Container /\ Current \in Block
      /\ u \in Seq(Leaf)
  BY <1>2, <1>3, WritingFact
<1> SUFFICES ASSUME NEW t \in Block, Uncontested(t), Folded(t) \/ t = Genesis, NEW c \in Container
             PROVE  Clean(t, c)'
  BY <1>2 DEF CleanInv
<1>5. Clean(t, c)
  BY DEF CleanInv
<1>6. H > Height[t]
  <2>1. Height[t] < H /\ Height[t] \in Nat
    BY <1>2, Below, HeightFact
  <2> HIDE DEF H
  <2> QED
    BY <1>4, <2>1
<1>7. /\ leaves \in [Container -> Seq(Leaf)]
      /\ hashIdx \in [Container -> [Leaf -> Nat \cup {None}]]
      /\ heightIdx \in [Container -> [Heights -> Nat \cup {None}]]
  BY <1>1 DEF TypeInv, EntriesTypeInv
<1>8. CASE StartRun
  <2>1. /\ pc = "open_run" /\ UNCHANGED <<leaves, hashIdx>>
        /\ heightIdx' = [heightIdx EXCEPT ![k][H] = Len(leaves[k])]
    BY <1>8 DEF StartRun, OpenRun
  <2>2. CASE c # k
    <3>1. heightIdx'[c] = heightIdx[c]
      BY <1>7, <2>1, <2>2
    <3> QED
      BY <1>5, <2>1, <3>1, CleanSame
  <2>3. CASE c = k
    <3>1. \A h \in Heights : h > H => ~Opened(k, h)
      BY <1>4, <2>1  DEF StageInv, Appends
    <3>2. ~Opened(k, H)
      BY <1>4, <2>1  DEF StageInv, Appends
    <3> HIDE DEF H, k
    <3>3. \A h \in Heights : h >= H => ~Opened(k, h)
      <4>1. \A h \in Heights : h >= H => h > H \/ h = H
        BY <1>4, SMTT(60)
      <4> QED
        BY <3>1, <3>2, <4>1
    <3> QED
      BY <1>1, <1>4, <1>5, <1>6, <2>1, <2>3, <3>3, CleanOpen
  <2> QED
    BY <2>2, <2>3
<1>9. CASE AppendEntry
  <2> DEFINE l == u[Appended + 1]
  <2>1. /\ pc = "append" /\ UNCHANGED <<hashIdx, heightIdx>>
        /\ leaves' = [leaves EXCEPT ![k] = Append(@, l)]
    BY <1>9 DEF AppendEntry, AppendLeaf
  <2>2. CASE c # k
    <3>1. leaves'[c] = leaves[c]
      BY <1>7, <2>1, <2>2
    <3> QED
      BY <1>5, <2>1, <3>1, CleanSame
  <2>3. CASE c = k
    <3>1. heightIdx[k][H] \in Nat /\ Appended \in 0..(Len(u) - 1)
      BY <2>1  DEF TypedInv, RunInv
    <3>2. Opened(k, H)
      BY <3>1, ExportAssumption DEF Opened
    <3> HIDE DEF H, k, u
    <3>3. l \in Leaf
      BY <1>4, <3>1, SMTT(60)
    <3> HIDE DEF l
    <3> QED
      BY <1>1, <1>4, <1>5, <1>6, <2>1, <2>3, <3>2, <3>3, CleanAppend
  <2> QED
    BY <2>2, <2>3
<1>10. CASE IndexEntry
  <2>1. UNCHANGED <<leaves, heightIdx>>
    BY <1>10 DEF IndexEntry, IndexLeaf
  <2> QED
    BY <1>5, <2>1, CleanSame
<1> QED
  BY <1>8, <1>9, <1>10

\* What the fold of a block has appended so far, when its parent has no
\* competitors: an initial part of the block's exports, the hash of every leaf
\* after the parent's leading to its last copy, except of the leaf about to be
\* indexed.
AppendInv ==
  pc \in Appends /\ Uncontested(Parent[Current]) => \A c \in Container :
    /\ Begins(leaves[c], Exported(Current, c))
    /\ \A i \in 1..Len(leaves[c]) :
         \/ i <= Len(Exported(Parent[Current], c))
         \/ LastCopy(leaves[c], leaves[c][i], hashIdx[c][leaves[c][i]])
         \/ pc = "index" /\ c = Appending /\ leaves[c][i] = leaves[c][Len(leaves[c])]
    /\ c \notin todo => Len(leaves[c]) = Len(Exported(Current, c))

\* Leaves other than l leave the last copy of l where it is.
LEMMA LastCopyKept ==
  ASSUME NEW s, NEW u, NEW l, NEW v, LastCopy(s, l, v),
         Len(s) \in Nat, Len(u) \in Nat, Len(s) <= Len(u),
         \A k \in 1..Len(s) : u[k] = s[k],
         \A k \in 1..Len(u) : k \in 1..Len(s) \/ u[k] # l
  PROVE  LastCopy(u, l, v)
<1>1. PICK j \in 1..Len(s) : v = j - 1 /\ s[j] = l /\ \A k \in 1..Len(s) : s[k] = l => k <= j
  BY DEF LastCopy
<1>2. j \in 1..Len(u)
  BY SMTT(60)
<1>3. \A k \in 1..Len(u) : u[k] = l => k <= j
  BY <1>1
<1> QED
  BY <1>1, <1>2, <1>3 DEF LastCopy

\* The last leaf is the last copy of itself.
LEMMA LastCopyEnd ==
  ASSUME NEW s, NEW r \in Nat, r = Len(s), r \in 1..r
  PROVE  LastCopy(s, s[r], r - 1)
<1>1. \A k \in 1..r : k <= r
  BY SMTT(60)
<1> QED
  BY <1>1 DEF LastCopy

\* Rows of the store that are written: none but the block's own.
LEMMA RowsKept ==
  ASSUME RowsInv, \A c \in Container, h \in Heights : Opened(c, h)' => Opened(c, h),
         asmPrunes' = 0 => asmPrunes = 0 /\ \A b \in Block : anchors[b] # None => anchors'[b] # None
  PROVE  RowsInv'
<1>1. \E m \in Nat : \A c \in Container, h \in Heights : Opened(c, h)' => h <= m
  BY DEF RowsInv
<1>2. asmPrunes' = 0 => \A c \in Container, h \in Heights : Opened(c, h)' =>
        \E b \in Block : anchors'[b] # None /\ h <= Height[b]
  BY DEF RowsInv
<1> QED
  BY <1>1, <1>2 DEF RowsInv

\* The prune of a block's height: leaves, hash rows, height rows.
LEMMA StagePrune ==
  ASSUME IInv, TypedInv, RowsInv, StageInv, PruneLeaves \/ PruneHash \/ PruneHeight
  PROVE  StageInv' /\ RowsInv'
<1> DEFINE H == CurrentHeight
           k == Pruning(CurrentHeight)
           f == FirstDropped(Pruning(CurrentHeight), CurrentHeight)
<1>1. /\ pc \in Writing /\ UNCHANGED <<anchors, asmPrunes, todo>>
      /\ Current' = Current /\ CurrentHeight' = CurrentHeight
  <2>1. UNCHANGED todo
    BY DEF PruneLeaves, PruneHash, PruneHeight
  <2> QED
    BY <2>1, EntryFrame
<1>2. pc \in {"prune", "prune_hash", "prune_height"} /\ todo = {c \in Container : Exports[Current][c] # <<>>}
  <2>1. pc \in {"prune", "prune_hash", "prune_height"}
    BY DEF PruneLeaves, PruneHash, PruneHeight
  <2> QED
    BY <2>1 DEF StageInv
<1>3. TypeInv
  BY DEF TypedInv
<1>4. H \in Heights /\ Heights \subseteq Nat
  BY <1>1, WritingFact
<1>5. CASE Unpruned(H) = {}
  <2>1. PruneLeaves
    BY <1>5  DEF StageInv, PruneHash, PruneHeight
  <2>2. UNCHANGED entryVars /\ pc' = StartAppending
    BY <1>5, <2>1 DEF PruneLeaves
  <2>3. \A c \in Container, h \in Heights : h >= H => ~Opened(c, h)
    BY <1>5 DEF Unpruned, RowsFrom, Opened
  <2>4. \A c, h : Opened(c, h)' <=> Opened(c, h)
    BY <2>2 DEF entryVars, Opened
  <2>5. \A c \in Container : \A h \in Heights : h > H \/ h = H => ~Opened(c, h)'
    <3> HIDE DEF H
    <3>1. \A h \in Heights : h > H \/ h = H => h >= H
      BY <1>4, SMTT(60)
    <3> QED
      BY <2>3, <2>4, <3>1
  <2>6. pc' \in {"store", "open_run"} /\ (pc' = "store" => todo = {})
    BY <2>2  DEF StartAppending
  <2>7. pc' \notin {"prune", "prune_hash", "prune_height"} /\ pc' \notin {"prune_hash", "prune_height"}
    BY <2>6
  <2>8. StageInv'
    BY <1>1, <1>4, <2>5, <2>6, <2>7 DEF StageInv
  <2>9. RowsInv'
    BY <1>1, <2>4, RowsKept
  <2> QED
    BY <2>8, <2>9
<1>6. CASE Unpruned(H) # {}
  <2> DEFINE m == FirstRow
  <2>1. /\ k \in Container /\ m \in Heights /\ m >= H /\ Opened(k, m)
        /\ f = heightIdx[k][m] /\ f \in Nat
    BY <1>1, <1>6, PruningFact
  <2>2. CASE UNCHANGED heightIdx /\ pc' \in {"prune_hash", "prune_height"} /\ Len(leaves'[k]) <= f
    <3>1. \A c, h : Opened(c, h)' <=> Opened(c, h)
      BY <2>2 DEF Opened
    <3>2. RowsInv'
      BY <1>1, <3>1, RowsKept
    <3>3. \A c, h : (RowsFrom(c, h))' = RowsFrom(c, h)
      BY <2>2 DEF RowsFrom
    <3>4. Unpruned(H)' = Unpruned(H)
      BY <1>1, <3>3 DEF Unpruned
    <3>5. k' = k
      BY <1>1, <3>4 DEF Pruning
    <3>6. f' = f
      BY <1>1, <2>2, <3>3, <3>5 DEF FirstDropped
    <3>7. pc' # "store" /\ pc' \notin Appends
      BY <2>2  DEF Appends
    <3>8. StageInv'
      BY <1>1, <1>2, <1>6, <2>2, <3>4, <3>5, <3>6, <3>7 DEF StageInv
    <3> QED
      BY <3>2, <3>8
  <2>3. CASE PruneLeaves
    <3>1. DropLeaves(k, H) /\ pc' = "prune_hash"
      BY <1>6, <2>3 DEF PruneLeaves
    <3> DEFINE j == IF f < Len(leaves[k]) THEN f ELSE Len(leaves[k])
    <3>2. leaves' = [leaves EXCEPT ![k] = SubSeq(leaves[k], 1, j)] /\ UNCHANGED heightIdx
      BY <3>1 DEF DropLeaves
    <3>3. Len(leaves'[k]) <= f
      <4>1. leaves \in [Container -> Seq(Leaf)] /\ leaves[k] \in Seq(Leaf) /\ Len(leaves[k]) \in Nat
        BY <1>3, <2>1, EntryTypes DEF TypeInv, EntriesTypeInv
      <4> HIDE DEF k, f
      <4>2. j \in Nat /\ j <= f /\ j <= Len(leaves[k])
        BY <2>1, <4>1, SMTT(60)
      <4>3. leaves'[k] = SubSeq(leaves[k], 1, j)
        BY <2>1, <3>2, <4>1
      <4> HIDE DEF j
      <4>4. Len(SubSeq(leaves[k], 1, j)) = j
        BY <4>1, <4>2, SMTT(60)
      <4> QED
        BY <4>2, <4>3, <4>4
    <3>4. pc' \in {"prune_hash", "prune_height"}
      BY <3>1
    <3> QED
      BY <2>2, <3>2, <3>3, <3>4
  <2>4. CASE PruneHash
    <3>1. UNCHANGED <<leaves, heightIdx>> /\ pc = "prune_hash" /\ pc' \in {"prune_hash", "prune_height"}
      BY <2>4  DEF PruneHash, entryVars, DropHashRow
    <3>2. Len(leaves[k]) <= f
      BY <3>1  DEF StageInv
    <3> QED
      BY <2>2, <3>1, <3>2
  <2>5. CASE PruneHeight
    <3> DEFINE g == MaxOf(RowsFrom(k, H))
               more == \E d, h \in RowsFrom(k, H) : d # h
    <3>1. /\ heightIdx' = [heightIdx EXCEPT ![k][g] = None] /\ UNCHANGED <<leaves, hashIdx>>
          /\ pc = "prune_height" /\ pc' = IF more THEN pc ELSE "prune"
      BY <2>5 DEF PruneHeight, DropHeightRow
    <3>2. RowsFrom(k, H) \in SUBSET Nat /\ RowsFrom(k, H) # {}
      BY <1>4, <2>1 DEF RowsFrom, Opened
    <3>3. g \in RowsFrom(k, H) /\ \A e \in RowsFrom(k, H) : g >= e
      <4>1. PICK b \in Nat : \A e \in Heights : Opened(k, e) => e <= b
        BY <2>1 DEF RowsInv
      <4>2. \A e \in RowsFrom(k, H) : e <= b
        BY <4>1 DEF RowsFrom, Opened
      <4> QED
        BY <3>2, <4>2, GreatestOf
    <3>4. heightIdx \in [Container -> [Heights -> Nat \cup {None}]]
      BY <1>3 DEF TypeInv, EntriesTypeInv
    <3>5. \A c \in Container, h \in Heights :
            heightIdx'[c][h] = IF c = k /\ h = g THEN None ELSE heightIdx[c][h]
      <4> HIDE DEF k, g
      <4> QED
        BY <3>1, <3>4
    <3>6. RowsInv'
      <4>1. \A c \in Container, h \in Heights : Opened(c, h)' => Opened(c, h)
        BY <3>5 DEF Opened
      <4> QED
        BY <1>1, <4>1, RowsKept
    <3>7. CASE ~more
      <4>1. pc' = "prune"
        BY <3>1, <3>7
      <4>2. pc' \notin {"prune_hash", "prune_height"} /\ pc' # "store" /\ pc' \notin Appends
        BY <4>1  DEF Appends
      <4>3. StageInv'
        BY <1>1, <1>2, <4>2 DEF StageInv
      <4> QED
        BY <3>6, <4>3
    <3>8. CASE more
      <4> DEFINE R == RowsFrom(k, H)
      <4>1. m \in R /\ \A e \in R : m <= e
        BY <3>2, LeastOf DEF FirstRow
      <4>2. m # g
        <5>1. PICK d \in R, e \in R : d # e
          BY <3>8
        <5>2. d \in Nat /\ e \in Nat /\ m \in Nat /\ g \in Nat
          BY <3>2, <3>3, <4>1
        <5>3. m <= d /\ m <= e /\ g >= d /\ g >= e
          BY <3>3, <4>1
        <5> HIDE DEF m, g, R
        <5> QED
          BY <5>1, <5>2, <5>3, SMTT(60)
      <4> DEFINE W(c) == {h \in Heights : h >= H /\ heightIdx'[c][h] # None}
      <4>3. W(k) = R \ {g} /\ \A c \in Container : c # k => W(c) = RowsFrom(c, H)
        BY <2>1, <3>5 DEF RowsFrom
      <4>4. m \in W(k)
        BY <4>1, <4>2, <4>3
      <4>5. Unpruned(H)' = Unpruned(H)
        <5>1. Unpruned(H)' = {c \in Container : W(c) # {}}
          BY <1>1 DEF Unpruned, RowsFrom
        <5>2. \A c \in Container : W(c) # {} <=> RowsFrom(c, H) # {}
          BY <3>2, <4>3, <4>4
        <5> HIDE DEF W
        <5> QED
          BY <5>1, <5>2 DEF Unpruned
      <4>6. k' = k
        BY <1>1, <4>5 DEF Pruning
      <4>7. f' = heightIdx'[k][MinOf(W(k))]
        BY <1>1, <4>6 DEF FirstDropped, RowsFrom
      <4>8. MinOf(W(k)) = m
        <5>1. W(k) \in SUBSET Nat /\ W(k) # {}
          BY <3>2, <4>3, <4>4
        <5> DEFINE w == MinOf(W(k))
        <5>2. w \in W(k) /\ \A y \in W(k) : w <= y
          BY <5>1, LeastOf
        <5>3. w <= m /\ m <= w /\ w \in Nat /\ m \in Nat
          BY <4>1, <4>3, <4>4, <5>1, <5>2
        <5> HIDE DEF w, m
        <5> QED
          BY <5>3, SMTT(60) DEF w
      <4>9. f' = f
        BY <2>1, <3>5, <4>2, <4>7, <4>8
      <4>10. pc = "prune_height" /\ pc' = "prune_height"
        BY <3>1, <3>8
      <4>11. Len(leaves[k]) <= f
        BY <4>10  DEF StageInv
      <4>12. pc' # "store" /\ pc' \notin Appends
        BY <4>10  DEF Appends
      <4>13. StageInv'
        BY <1>1, <1>2, <1>6, <3>1, <4>5, <4>6, <4>9, <4>11, <4>12 DEF StageInv
      <4> QED
        BY <3>6, <4>13
    <3> QED
      BY <3>7, <3>8
  <2> QED
    BY <2>3, <2>4, <2>5
<1> QED
  BY <1>5, <1>6

\* A container gets its row before its entries and is done after them.
LEMMA StageEntries ==
  ASSUME IInv, TypedInv, WaitInv, RowsInv, StageInv, StartRun \/ AppendEntry \/ IndexEntry
  PROVE  StageInv' /\ RowsInv'
<1> DEFINE H == CurrentHeight
           k == Appending
<1>1. /\ pc \in Writing /\ UNCHANGED <<anchors, asmPrunes, pending>>
      /\ Current' = Current /\ CurrentHeight' = CurrentHeight
  BY EntryFrame
<1>2. pc \in {"open_run", "append", "index"} /\ pc \in Appends
  BY DEF StartRun, AppendEntry, IndexEntry, Appends
<1>3. H \in Heights /\ Heights \subseteq Nat /\ k \in todo /\ k \in Container /\ Current \in Block
  BY <1>1, <1>2, WritingFact
<1>4. \A c \in Container :
        /\ \A h \in Heights : h > H => ~Opened(c, h)
        /\ c \in todo /\ (pc = "open_run" \/ c # k) => ~Opened(c, H)
  BY <1>2 DEF StageInv
<1>5. CASE StartRun
  <2>1. /\ heightIdx' = [heightIdx EXCEPT ![k][H] = Len(leaves[k])]
        /\ UNCHANGED todo /\ pc = "open_run" /\ pc' = "append"
    BY <1>5 DEF StartRun, OpenRun
  <2>2. heightIdx \in [Container -> [Heights -> Nat \cup {None}]]
    BY DEF TypedInv, TypeInv, EntriesTypeInv
  <2>3. \A c \in Container, h \in Heights : c # k \/ h # H => heightIdx'[c][h] = heightIdx[c][h]
    <3> HIDE DEF k, H
    <3> QED
      BY <2>1, <2>2
  <2>4. \A c \in Container, h \in Heights : c # k \/ h # H => (Opened(c, h)' <=> Opened(c, h))
    BY <2>3 DEF Opened
  <2>5. Appending' = k
    BY <2>1 DEF Appending
  <2>6. /\ pc' \notin {"prune", "prune_hash", "prune_height"} /\ pc' \notin {"prune_hash", "prune_height"}
        /\ pc' # "store" /\ pc' # "open_run"
    BY <2>1
  <2>7. \A h \in Heights : h > H => h # H
    <3> HIDE DEF H
    <3> QED
      BY <1>3, SMTT(60)
  <2>8. StageInv'
    BY <1>1, <1>3, <1>4, <2>1, <2>4, <2>5, <2>6, <2>7 DEF StageInv
  <2>9. \E m \in Nat : \A c \in Container, h \in Heights : Opened(c, h)' => h <= m
    <3>1. PICK m \in Nat : \A c \in Container, h \in Heights : Opened(c, h) => h <= m
      BY DEF RowsInv
    <3> DEFINE w == IF m < H THEN H ELSE m
    <3>2. w \in Nat /\ H <= w /\ \A h \in Nat : h <= m => h <= w
      <4> HIDE DEF H
      <4> QED
        BY <1>3, SMTT(60)
    <3> HIDE DEF w
    <3>3. \A c \in Container, h \in Heights : Opened(c, h)' => h <= w
      BY <1>3, <2>4, <3>1, <3>2
    <3> QED
      BY <3>2, <3>3
  <2>10. ASSUME asmPrunes' = 0, NEW c \in Container, NEW h \in Heights, Opened(c, h)'
         PROVE  \E b \in Block : anchors'[b] # None /\ h <= Height[b]
    <3>1. CASE h = H
      <4>1. Current \in Listed
        <5>1. Len(pending) \in 1..Len(pending)
          <6>1. pending # <<>> /\ pending \in Seq(Block)
            BY <1>1 DEF IInv, FoldInv, WorkInv
          <6> QED
            BY <6>1, SMTT(60)
        <5> QED
          BY <5>1 DEF Listed, Current
      <4>2. anchors[Current] # None
        BY <1>1, <1>3, <2>10, <4>1 DEF WaitInv, SeenInv
      <4>3. H <= Height[Current]
        <5>1. H = Height[Current] /\ Height[Current] \in Nat
          BY <1>3, HeightFact DEF CurrentHeight
        <5> HIDE DEF H
        <5> QED
          BY <5>1, SMTT(60)
      <4> QED
        BY <1>1, <1>3, <3>1, <4>2, <4>3
    <3>2. CASE h # H
      BY <1>1, <2>4, <2>10, <3>2 DEF RowsInv
    <3> QED
      BY <3>1, <3>2
  <2>11. RowsInv'
    BY <2>9, <2>10 DEF RowsInv
  <2> QED
    BY <2>8, <2>11
<1>6. CASE AppendEntry \/ IndexEntry
  <2>1. UNCHANGED heightIdx
    BY <1>6 DEF AppendEntry, IndexEntry, AppendLeaf, IndexLeaf
  <2>2. \A c, h : Opened(c, h)' <=> Opened(c, h)
    BY <2>1 DEF Opened
  <2>3. RowsInv'
    BY <1>1, <2>2, RowsKept
  <2>4. /\ pc' \in {"append", "index", "open_run", "store"} /\ pc # "open_run"
        /\ todo' = todo \/ (todo' = todo \ {k} /\ pc' \in {"open_run", "store"})
        /\ pc' = "store" => todo' = {}
        /\ pc' = "open_run" => todo' = todo \ {k}
    BY <1>6  DEF AppendEntry, IndexEntry
  <2>5. todo' = todo => Appending' = k
    BY DEF Appending
  <2>6. pc' \notin {"prune", "prune_hash", "prune_height"} /\ pc' \notin {"prune_hash", "prune_height"}
    BY <2>4
  <2>7. ASSUME NEW c \in todo', pc' = "open_run" \/ c # Appending' PROVE c \in todo /\ c # k
    BY <2>4, <2>5, <2>7
  <2>8. StageInv'
    BY <1>1, <1>4, <2>2, <2>4, <2>6, <2>7 DEF StageInv
  <2> QED
    BY <2>3, <2>8
<1> QED
  BY <1>5, <1>6

\* A store without rows from the block's height up holds the parent's leaves; with
\* a row of the block, that row starts after them.
LEMMA ParentLeaves ==
  ASSUME IInv, TypedInv, CatchUpInv, ChainInv, WaitInv, CleanInv, pc \in Writing,
         Uncontested(Parent[Current]), NEW c \in Container,
         \A h \in Heights : h > CurrentHeight => ~Opened(c, h)
  PROVE  /\ Parent[Current] \in Block /\ Grown(Current) /\ Clean(Parent[Current], c)
         /\ Height[Parent[Current]] = CurrentHeight - 1
         /\ CurrentHeight \in Heights /\ CurrentHeight \in Nat
         /\ Len(Exported(Parent[Current], c)) <= Len(leaves[c])
         /\ Opened(c, CurrentHeight) => heightIdx[c][CurrentHeight] = Len(Exported(Parent[Current], c))
         /\ ~Opened(c, CurrentHeight) => Len(leaves[c]) = Len(Exported(Parent[Current], c))
<1> DEFINE H == CurrentHeight
           p == Parent[Current]
           n == Len(Exported(p, c))
<1>1. Folded(p)
  BY DEF IInv, FoldInv
<1>2. p \in Block
  BY CurrentFact DEF IInv, FoldInv
<1>3. Grown(Current) /\ Height[p] = H - 1
  BY <1>1, <1>2, Parentage
<1>4. Clean(p, c)
  BY <1>1, <1>2 DEF CleanInv
<1>5. H \in Heights /\ Heights \subseteq Nat
  BY WritingFact
<1>6. Len(leaves[c]) \in Nat /\ n \in Nat
  BY <1>2, EntryTypes, ExportedFact, SMTT(60) DEF TypedInv
<1>7. n <= Len(leaves[c])
  BY <1>4 DEF Clean, Begins
<1>8. \A h \in Heights : h > Height[p] => h > H \/ h = H
  <2> HIDE DEF H, p
  <2> QED
    BY <1>3, <1>5, SMTT(60)
<1>9. \A h \in Heights : h > Height[p] /\ Opened(c, h) => h = H
  BY <1>8
<1>10. H > Height[p] /\ H <= H
  <2> HIDE DEF H, p
  <2> QED
    BY <1>3, <1>5, SMTT(60)
<1>11. Opened(c, H) => heightIdx[c][H] = n
  BY <1>4, <1>5, <1>9, <1>10 DEF Clean
<1>12. ~Opened(c, H) => ~(Len(leaves[c]) > n)
  BY <1>4, <1>9 DEF Clean
<1>13. ~Opened(c, H) => Len(leaves[c]) = n
  <2> HIDE DEF n, H
  <2> QED
    BY <1>6, <1>7, <1>12, SMTT(60)
<1> QED
  BY <1>2, <1>3, <1>4, <1>5, <1>7, <1>11, <1>13

\* The append starts from the parent's leaves.
LEMMA AppendStart ==
  ASSUME IInv, TypedInv, CatchUpInv, ChainInv, WaitInv, RowsInv, StageInv, CleanInv,
         PruneLeaves \/ PruneHash \/ PruneHeight
  PROVE  AppendInv'
<1>1. /\ pc \in Writing /\ UNCHANGED <<anchors, asmPrunes, todo>>
      /\ Current' = Current /\ CurrentHeight' = CurrentHeight
      /\ \A t : Uncontested(t)' <=> Uncontested(t)
  <2>1. UNCHANGED todo
    BY DEF PruneLeaves, PruneHash, PruneHeight
  <2> QED
    BY <2>1, EntryFrame
<1> SUFFICES ASSUME pc' \in Appends, Uncontested(Parent[Current]), NEW c \in Container
             PROVE  /\ Begins(leaves'[c], Exported(Current, c))
                    /\ \A i \in 1..Len(leaves'[c]) : i <= Len(Exported(Parent[Current], c))
                    /\ c \notin todo => Len(leaves'[c]) = Len(Exported(Current, c))
  BY <1>1 DEF AppendInv
<1> DEFINE p == Parent[Current]
           n == Len(Exported(p, c))
<1>2. pc = "prune" /\ Unpruned(CurrentHeight) = {} /\ UNCHANGED entryVars
  BY DEF PruneLeaves, PruneHash, PruneHeight, Appends
<1>3. todo = {d \in Container : Exports[Current][d] # <<>>}
  BY <1>2  DEF StageInv
<1>4. CurrentHeight \in Heights /\ Heights \subseteq Nat /\ Current \in Block
  BY <1>1, WritingFact
<1>5. \A h \in Heights : h >= CurrentHeight => ~Opened(c, h)
  BY <1>2 DEF Unpruned, RowsFrom, Opened
<1>6. (\A h \in Heights : h > CurrentHeight => ~Opened(c, h)) /\ ~Opened(c, CurrentHeight)
  <2>1. CurrentHeight >= CurrentHeight /\ \A h \in Heights : h > CurrentHeight => h >= CurrentHeight
    BY <1>4, SMTT(60)
  <2> QED
    BY <1>4, <1>5, <2>1
<1>7. p \in Block /\ Grown(Current) /\ Clean(p, c) /\ Len(leaves[c]) = n
  BY <1>1, <1>6, ParentLeaves
<1>8. /\ n \in Nat /\ Len(Exports[Current][c]) \in Nat
      /\ Len(Exported(Current, c)) = n + Len(Exports[Current][c])
      /\ \A i \in 1..n : Exported(Current, c)[i] = Exported(p, c)[i]
  BY <1>4, <1>7, OwnLeaf
<1>9. \A i \in 1..n : Exported(p, c)[i] = leaves[c][i]
  BY <1>7 DEF Clean, Begins
<1>10. leaves'[c] = leaves[c]
  BY <1>2 DEF entryVars
<1>11. c \notin todo => Len(Exports[Current][c]) = 0
  <2>1. c \notin todo => Exports[Current][c] = <<>>
    BY <1>3
  <2> QED
    BY <2>1, SMTT(60)
<1> HIDE DEF n, p
<1>12. n <= Len(Exported(Current, c)) /\ (c \notin todo => n = Len(Exported(Current, c)))
       /\ \A i \in 1..n : i <= n
  BY <1>8, <1>11, SMTT(60)
<1> QED
  BY <1>7, <1>8, <1>9, <1>10, <1>12 DEF Begins, n, p

\* Every entry of the block goes where the block's exports have it.
LEMMA AppendEntries ==
  ASSUME IInv, TypedInv, CatchUpInv, ChainInv, WaitInv, StageInv, CleanInv, AppendInv,
         StartRun \/ AppendEntry \/ IndexEntry
  PROVE  AppendInv'
<1> DEFINE k == Appending
           X == Current
           u == Exports[X][k]
           n == Len(Exported(Parent[X], k))
           r == Len(leaves[k])
<1>1. /\ pc \in Writing /\ UNCHANGED <<anchors, asmPrunes>>
      /\ Current' = Current /\ CurrentHeight' = CurrentHeight
      /\ \A t : Uncontested(t)' <=> Uncontested(t)
  BY EntryFrame
<1>2. pc \in {"open_run", "append", "index"} /\ pc \in Appends
  BY DEF StartRun, AppendEntry, IndexEntry, Appends
<1>3. k \in todo /\ k \in Container /\ X \in Block /\ u \in Seq(Leaf)
  BY <1>1, <1>2, WritingFact
<1> SUFFICES ASSUME pc' \in Appends, Uncontested(Parent[X])
             PROVE  \A c \in Container :
                      /\ Begins(leaves'[c], Exported(X, c))
                      /\ \A i \in 1..Len(leaves'[c]) :
                           \/ i <= Len(Exported(Parent[X], c))
                           \/ LastCopy(leaves'[c], leaves'[c][i], hashIdx'[c][leaves'[c][i]])
                           \/ pc' = "index" /\ c = Appending' /\ leaves'[c][i] = leaves'[c][Len(leaves'[c])]
                      /\ c \notin todo' => Len(leaves'[c]) = Len(Exported(X, c))
  BY <1>1 DEF AppendInv
<1>4. \A c \in Container :
        /\ Begins(leaves[c], Exported(X, c))
        /\ \A i \in 1..Len(leaves[c]) :
             \/ i <= Len(Exported(Parent[X], c))
             \/ LastCopy(leaves[c], leaves[c][i], hashIdx[c][leaves[c][i]])
             \/ pc = "index" /\ c = k /\ leaves[c][i] = leaves[c][Len(leaves[c])]
        /\ c \notin todo => Len(leaves[c]) = Len(Exported(X, c))
  BY <1>2 DEF AppendInv
<1>5. CASE StartRun
  <2>1. UNCHANGED <<leaves, hashIdx, todo>> /\ pc = "open_run"
    BY <1>5 DEF StartRun, OpenRun
  <2>2. pc # "index"
    BY <2>1
  <2> QED
    BY <1>4, <2>1, <2>2
<1>6. \A h \in Heights : h > CurrentHeight => ~Opened(k, h)
  BY <1>2, <1>3 DEF StageInv
<1>7. Parent[X] \in Block /\ Grown(X) /\ (Opened(k, CurrentHeight) => heightIdx[k][CurrentHeight] = n)
  BY <1>1, <1>3, <1>6, ParentLeaves
<1>8. /\ n \in Nat /\ Len(u) \in Nat /\ Len(Exported(X, k)) = n + Len(u)
      /\ \A j \in 1..Len(u) : Exported(X, k)[n + j] = u[j]
  BY <1>3, <1>7, OwnLeaf
<1>9. ASSUME pc \in {"append", "index"} PROVE Appended = r - n
  <2>1. heightIdx[k][CurrentHeight] \in Nat
    BY <1>9 DEF TypedInv, RunInv
  <2>2. Opened(k, CurrentHeight)
    BY <2>1, ExportAssumption DEF Opened
  <2> QED
    BY <1>7, <2>2 DEF Appended
<1>10. r \in Nat /\ leaves[k] \in Seq(Leaf) /\ leaves \in [Container -> Seq(Leaf)]
       /\ hashIdx \in [Container -> [Leaf -> Nat \cup {None}]]
  BY <1>3, EntryTypes DEF TypedInv, TypeInv, EntriesTypeInv
<1>11. /\ Begins(leaves[k], Exported(X, k)) /\ r <= n + Len(u)
       /\ \A i \in 1..r : leaves[k][i] = Exported(X, k)[i]
  BY <1>3, <1>4, <1>8 DEF Begins
<1>12. CASE AppendEntry
  <2> DEFINE l == u[Appended + 1]
  <2>1. /\ pc = "append" /\ pc' = "index" /\ UNCHANGED <<hashIdx, heightIdx, todo>>
        /\ leaves' = [leaves EXCEPT ![k] = Append(@, l)]
    BY <1>12 DEF AppendEntry, AppendLeaf
  <2>2. pc # "index" /\ Appending' = k
    BY <2>1 DEF Appending
  <2>3. Appended = r - n /\ Appended \in 0..(Len(u) - 1)
    BY <1>9, <2>1  DEF TypedInv, RunInv
  <2> DEFINE a == Appended
  <2> HIDE DEF k, u, n, r, X, a
  <2>4. l = Exported(X, k)[r + 1] /\ l \in Leaf /\ r + 1 <= n + Len(u)
    <3>1. a + 1 \in 1..Len(u) /\ n + (a + 1) = r + 1 /\ r + 1 <= n + Len(u)
      BY <1>8, <1>10, <2>3, SMTT(60) DEF a
    <3>2. u[a + 1] \in Leaf
      BY <1>3, <3>1, SMTT(60)
    <3>3. Exported(X, k)[n + (a + 1)] = u[a + 1]
      BY <1>8, <3>1
    <3> QED
      BY <3>1, <3>2, <3>3 DEF a
  <2> HIDE DEF l
  <2>5. leaves'[k] = Append(leaves[k], l) /\ \A c \in Container : c # k => leaves'[c] = leaves[c]
    BY <1>3, <1>10, <2>1
  <2>6. /\ Len(leaves'[k]) = r + 1 /\ leaves'[k][r + 1] = l
        /\ \A i \in 1..r : leaves'[k][i] = leaves[k][i]
        /\ \A i \in 1..(r + 1) : i \in 1..r \/ i = r + 1
    BY <1>10, <2>4, <2>5, SMTT(60) DEF r
  <2>7. Begins(leaves'[k], Exported(X, k))
    <3>1. \A i \in 1..(r + 1) : leaves'[k][i] = Exported(X, k)[i]
      BY <1>11, <2>4, <2>6
    <3> QED
      BY <1>8, <2>4, <2>6, <3>1 DEF Begins
  <2>8. ASSUME NEW i \in 1..(r + 1)
        PROVE  \/ i <= Len(Exported(Parent[X], k))
               \/ LastCopy(leaves'[k], leaves'[k][i], hashIdx[k][leaves'[k][i]])
               \/ leaves'[k][i] = l
    <3>1. CASE i \in 1..r /\ leaves[k][i] # l
      <4>1. leaves'[k][i] = leaves[k][i]
        BY <2>6, <3>1
      <4>2. i <= Len(Exported(Parent[X], k)) \/ LastCopy(leaves[k], leaves[k][i], hashIdx[k][leaves[k][i]])
        BY <1>3, <1>4, <2>2, <3>1 DEF r
      <4>3. Len(leaves[k]) \in Nat /\ Len(leaves'[k]) \in Nat /\ Len(leaves[k]) <= Len(leaves'[k])
        BY <1>10, <2>6, SMTT(60) DEF r
      <4>4. \A j \in 1..Len(leaves'[k]) : j \in 1..Len(leaves[k]) \/ leaves'[k][j] # leaves[k][i]
        BY <2>6, <3>1 DEF r
      <4>5. \A j \in 1..Len(leaves[k]) : leaves'[k][j] = leaves[k][j]
        BY <2>6 DEF r
      <4> QED
        BY <4>1, <4>2, <4>3, <4>4, <4>5, LastCopyKept
    <3> QED
      BY <2>6, <2>8, <3>1
  <2> QED
    BY <1>3, <1>4, <2>1, <2>2, <2>5, <2>6, <2>7, <2>8
<1>13. CASE IndexEntry
  <2> DEFINE l == u[Appended]
  <2>1. /\ pc = "index" /\ UNCHANGED <<leaves, heightIdx>>
        /\ hashIdx' = [hashIdx EXCEPT ![k][l] = r - 1]
        /\ todo' = IF Appended = Len(u) THEN todo \ {k} ELSE todo
    BY <1>13 DEF IndexEntry, IndexLeaf
  <2>2. pc' # "index"
    BY <1>13  DEF IndexEntry
  <2>3. Appended = r - n /\ Appended \in 1..Len(u)
    BY <1>9, <2>1  DEF TypedInv, RunInv
  <2> DEFINE a == Appended
  <2> HIDE DEF k, u, n, r, X, a
  <2>4. l = Exported(X, k)[r] /\ l \in Leaf /\ r \in 1..(n + Len(u)) /\ r \in 1..r
        /\ (a = Len(u) => r = n + Len(u))
    <3>1. a \in 1..Len(u) /\ n + a = r /\ r \in 1..(n + Len(u)) /\ r \in 1..r
          /\ (a = Len(u) => r = n + Len(u))
      BY <1>8, <1>10, <2>3, SMTT(60) DEF a
    <3>2. u[a] \in Leaf
      BY <1>3, <3>1, SMTT(60)
    <3>3. Exported(X, k)[n + a] = u[a]
      BY <1>8, <3>1
    <3> QED
      BY <3>1, <3>2, <3>3 DEF a
  <2> HIDE DEF l
  <2>5. /\ hashIdx'[k][l] = r - 1
        /\ \A x \in Leaf : x # l => hashIdx'[k][x] = hashIdx[k][x]
        /\ \A c \in Container : c # k => hashIdx'[c] = hashIdx[c]
    BY <1>3, <1>10, <2>1, <2>4
  <2>6. ASSUME NEW i \in 1..r
        PROVE  \/ i <= Len(Exported(Parent[X], k))
               \/ LastCopy(leaves[k], leaves[k][i], hashIdx'[k][leaves[k][i]])
    <3>1. leaves[k][r] = l /\ r = Len(leaves[k])
      BY <1>11, <2>4 DEF r
    <3>2. CASE leaves[k][i] = l
      <4>1. LastCopy(leaves[k], l, r - 1)
        BY <1>10, <2>4, <3>1, LastCopyEnd
      <4> QED
        BY <2>5, <3>2, <4>1
    <3>3. CASE leaves[k][i] # l
      <4>1. leaves[k][i] \in Leaf
        BY <1>10, SMTT(60) DEF r
      <4> QED
        BY <1>3, <1>4, <2>5, <3>1, <3>3, <4>1
    <3> QED
      BY <3>2, <3>3
  <2>7. \A c \in Container : c \notin todo' => c \notin todo \/ (c = k /\ r = Len(Exported(X, k)))
    BY <1>8, <2>1, <2>4 DEF a
  <2>8. \A c \in Container : c \notin todo' => Len(leaves[c]) = Len(Exported(X, c))
    BY <1>4, <2>7 DEF r
  <2>9. ASSUME NEW c \in Container, NEW i \in 1..Len(leaves[c])
        PROVE  \/ i <= Len(Exported(Parent[X], c))
               \/ LastCopy(leaves[c], leaves[c][i], hashIdx'[c][leaves[c][i]])
    <3>1. CASE c = k
      BY <2>6, <3>1 DEF r
    <3>2. CASE c # k
      BY <1>4, <2>5, <3>2
    <3> QED
      BY <3>1, <3>2
  <2> QED
    BY <1>4, <2>1, <2>8, <2>9
<1> QED
  BY <1>5, <1>12, <1>13

\* When the fold is done the store holds the block's exports, its own under the
\* row of its height and under their hashes.
LEMMA StoreMirrors ==
  ASSUME IInv, TypedInv, CatchUpInv, ChainInv, WaitInv, StageInv, CleanInv, AppendInv,
         pc = "store", Uncontested(Parent[Current]), NEW c \in Container
  PROVE  /\ leaves[c] = Exported(Current, c)
         /\ \A h \in Heights : h > CurrentHeight => ~Opened(c, h)
         /\ \A i \in Len(Exported(Parent[Current], c))..(Len(leaves[c]) - 1) : Found(c, i, CurrentHeight)
         /\ \A i \in 1..Len(leaves[c]) :
              \/ i <= Len(Exported(Parent[Current], c))
              \/ LastCopy(leaves[c], leaves[c][i], hashIdx[c][leaves[c][i]])
         /\ Clean(Current, c)
<1> DEFINE H == CurrentHeight
           X == Current
           p == Parent[X]
           n == Len(Exported(p, c))
           N == Len(Exported(X, c))
           u == Exports[X][c]
<1>1. pc \in Writing /\ pc \in Appends /\ todo = {}
  <2>1. pc \in Writing /\ pc \in Appends
    BY DEF Writing, Appends
  <2> QED
    BY <2>1 DEF StageInv
<1>2. X \in Block /\ H \in Heights /\ Heights \subseteq Nat /\ H = Height[X]
  BY <1>1, WritingFact DEF CurrentHeight
<1>3. \A h \in Heights : h > H => ~Opened(c, h)
  BY <1>1 DEF StageInv
<1>4. /\ p \in Block /\ Grown(X) /\ Clean(p, c) /\ Height[p] = H - 1
      /\ Opened(c, H) => heightIdx[c][H] = n
      /\ ~Opened(c, H) => Len(leaves[c]) = n
  BY <1>1, <1>3, ParentLeaves
<1>5. /\ n \in Nat /\ Len(u) \in Nat /\ N = n + Len(u)
      /\ \A i \in 1..n : Exported(X, c)[i] = Exported(p, c)[i]
      /\ \A j \in 1..Len(u) : Exported(X, c)[n + j] = u[j]
  BY <1>2, <1>4, OwnLeaf
<1>6. /\ Begins(leaves[c], Exported(X, c)) /\ Len(leaves[c]) = N
      /\ \A i \in 1..Len(leaves[c]) : i <= n \/ LastCopy(leaves[c], leaves[c][i], hashIdx[c][leaves[c][i]])
  <2>1. pc # "index" /\ c \notin todo
    BY <1>1
  <2> QED
    BY <1>1, <2>1 DEF AppendInv
<1>7. leaves[c] = Exported(X, c)
  <2>1. leaves[c] \in Seq(Leaf) /\ Exported(X, c) \in Seq(Leaf)
    BY <1>2, EntryTypes, ExportedFact DEF TypedInv
  <2>2. \A i \in 1..Len(leaves[c]) : leaves[c][i] = Exported(X, c)[i]
    BY <1>6 DEF Begins
  <2> HIDE DEF X
  <2> QED
    BY <1>6, <2>1, <2>2, SMTT(60)
<1> HIDE DEF H, X, p, n, N, u
<1>8. /\ n <= N /\ \A i \in 1..N : i <= n => i \in 1..n
      /\ \A i \in 0..(N - 1) : (i \in n..(N - 1) \/ i \in 0..(n - 1)) /\ i < N
      /\ \A i \in n..(N - 1) : n <= i /\ N # n /\ (i + 1) - n \in 1..Len(u) /\ n + ((i + 1) - n) = i + 1
      /\ \A i \in 0..(n - 1) : i + 1 \in 1..n
      /\ \A h \in Heights : (h <= Height[p] \/ h = H \/ h > H) /\ (h < H => h <= Height[p])
      /\ \A h \in Heights : h <= Height[p] => h <= H /\ h # H
      /\ H <= H
  <2>1. \A i \in 1..N : i <= n => i \in 1..n
    BY <1>5, SMTT(60)
  <2>2. \A i \in 0..(N - 1) : (i \in n..(N - 1) \/ i \in 0..(n - 1)) /\ i < N
    BY <1>5, SMTT(60)
  <2>3. n <= N /\ \A i \in n..(N - 1) : n <= i /\ N # n /\ (i + 1) - n \in 1..Len(u) /\ n + ((i + 1) - n) = i + 1
    BY <1>5, SMTT(60)
  <2>4. \A i \in 0..(n - 1) : i + 1 \in 1..n
    BY <1>5, SMTT(60)
  <2>5. \A h \in Heights : (h <= Height[p] \/ h = H \/ h > H) /\ (h < H => h <= Height[p])
    BY <1>2, <1>4, SMTT(60)
  <2>6. H <= H /\ \A h \in Heights : h <= Height[p] => h <= H /\ h # H
    BY <1>2, <1>4, SMTT(60)
  <2> QED
    BY <2>1, <2>2, <2>3, <2>4, <2>5, <2>6
<1>9. ASSUME NEW i \in n..(N - 1) PROVE Opened(c, H) /\ Found(c, i, H)
  <2>1. n <= i /\ N # n
    BY <1>8, <1>9
  <2>2. Opened(c, H) /\ heightIdx[c][H] = n
    BY <1>4, <1>6, <2>1
  <2>3. ASSUME NEW g \in Heights, Opened(c, g), g < H PROVE heightIdx[c][g] <= i
    <3>1. heightIdx[c][g] <= n
      BY <1>4, <1>8, <2>3 DEF Clean, n
    <3>2. heightIdx[c][g] \in Nat
      BY <2>3, EntryTypes DEF TypedInv
    <3> QED
      BY <1>5, <1>9, <3>1, <3>2, SMTT(60)
  <2> QED
    BY <1>3, <2>1, <2>2, <2>3 DEF Found, H
<1>11. CanonState[X].hist[H].block = X /\ \A h \in Heights : h # H => CanonState[X].hist[h] = CanonState[p].hist[h]
  BY <1>2, <1>4 DEF Grown, p
<1>12. ASSUME NEW i \in 0..(N - 1)
       PROVE  \E h \in Heights : h <= Height[X] /\ Found(c, i, h) /\ ExportedAt(X, c, i, h)
  <2>1. CASE i \in n..(N - 1)
    <3> DEFINE j == (i + 1) - n
    <3>1. j \in 1..Len(u) /\ n + j = i + 1
      BY <1>8, <2>1
    <3>2. Exported(X, c)[i + 1] = u[j] /\ j \in DOMAIN u
      <4>1. u \in Seq(Leaf)
        BY <1>2, ExportedFact DEF u
      <4>2. DOMAIN u = 1..Len(u)
        BY <4>1, SMTT(60)
      <4> HIDE DEF j
      <4> QED
        BY <1>5, <3>1, <4>2
    <3> HIDE DEF j
    <3>3. ExportedAt(X, c, i, H)
      BY <1>11, <3>2 DEF ExportedAt, u
    <3> QED
      BY <1>2, <1>8, <1>9, <2>1, <3>3
  <2>2. CASE i \in 0..(n - 1)
    <3>1. PICK h \in Heights : h <= Height[p] /\ Found(c, i, h) /\ ExportedAt(p, c, i, h)
      BY <1>4, <2>2 DEF Clean, n
    <3>2. h <= Height[X] /\ CanonState[X].hist[h] = CanonState[p].hist[h]
      BY <1>2, <1>8, <1>11, <3>1
    <3>3. Exported(X, c)[i + 1] = Exported(p, c)[i + 1]
      BY <1>5, <1>8, <2>2
    <3>4. ExportedAt(X, c, i, h)
      BY <3>1, <3>2, <3>3 DEF ExportedAt
    <3> QED
      BY <3>1, <3>2, <3>4
  <2> QED
    BY <1>8, <2>1, <2>2
<1>13. ASSUME NEW h \in Heights, Opened(c, h) PROVE heightIdx[c][h] <= N /\ ~(h > Height[X])
  <2>1. heightIdx[c][h] <= n
    <3>1. CASE h <= Height[p]
      BY <1>4, <1>13, <3>1 DEF Clean, n
    <3>2. CASE h = H
      BY <1>4, <1>5, <1>13, <3>2, SMTT(60)
    <3> QED
      BY <1>3, <1>8, <1>13, <3>1, <3>2 DEF H
  <2>2. heightIdx[c][h] \in Nat
    BY <1>13, EntryTypes DEF TypedInv
  <2>3. heightIdx[c][h] <= N
    BY <1>5, <2>1, <2>2, SMTT(60)
  <2> QED
    BY <1>2, <1>3, <1>13, <2>3 DEF H
<1>14. Begins(Exported(X, c), leaves[c]) /\ ~(Len(leaves[c]) > N)
  BY <1>5, <1>6, <1>7, SMTT(60) DEF Begins, N
<1>15. Clean(X, c)
  BY <1>12, <1>13, <1>14 DEF Clean, N
<1> QED
  BY <1>3, <1>6, <1>7, <1>9, <1>15 DEF X, H, N, n, p

\* A leaf under a row is found by its height.
LEMMA FoundByHeight ==
  ASSUME TypeInv, NEW c \in Container, NEW i \in 0..(Len(leaves[c]) - 1), NEW h \in Heights, Found(c, i, h)
  PROVE  EntryHeight(c, i) = h /\ i \in LeafRange(c, h)
<1> DEFINE rows == RowsFrom(c, 0)
           passed == {e \in rows : \A g \in rows : g <= e => heightIdx[c][g] <= i}
           later == RowsFrom(c, h + 1)
           end == IF later = {} THEN Len(leaves[c]) ELSE heightIdx[c][MinOf(later)]
<1>1. Heights \subseteq Nat /\ Len(leaves[c]) \in Nat /\ None \notin Nat
      /\ \A g \in Heights : Opened(c, g) => heightIdx[c][g] \in Nat
  BY EntryTypes, HeightFact
<1>2. rows = {g \in Heights : Opened(c, g)}
  <2>1. \A g \in Heights : g >= 0
    BY <1>1, SMTT(60)
  <2> QED
    BY <2>1 DEF RowsFrom, Opened
<1>3. Opened(c, h) /\ heightIdx[c][h] <= i /\ i \in Nat /\ i < Len(leaves[c])
  <2>1. i \in Nat /\ i < Len(leaves[c])
    BY <1>1, SMTT(60)
  <2> QED
    BY <2>1 DEF Found
<1>4. h \in passed
  <2>1. ASSUME NEW g \in rows, g <= h PROVE heightIdx[c][g] <= i
    <3>1. g = h \/ g < h
      <4>1. g \in Nat /\ h \in Nat /\ g <= h
        BY <1>1, <1>2, <2>1
      <4> QED
        BY <4>1, SMTT(60)
    <3> QED
      BY <1>2, <1>3, <2>1, <3>1 DEF Found
  <2> QED
    BY <1>2, <1>3, <2>1
<1>5. ASSUME NEW e \in passed PROVE h >= e
  <2>1. e \in Heights /\ Opened(c, e) /\ e \in Nat /\ h \in Nat
    BY <1>1, <1>2
  <2>2. heightIdx[c][e] <= i
    <3>1. e <= e
      BY <2>1, SMTT(60)
    <3> QED
      BY <1>2, <3>1
  <2>3. ~(e > h)
    <3>1. heightIdx[c][e] \in Nat
      BY <1>1, <2>1
    <3>2. ~(heightIdx[c][e] > i)
      BY <1>3, <2>2, <3>1, SMTT(60)
    <3> QED
      BY <2>1, <3>2 DEF Found
  <2> QED
    BY <2>1, <2>3, SMTT(60)
<1>6. MaxOf(passed) = h
  <2> DEFINE m == MaxOf(passed)
  <2>1. m \in passed /\ \A y \in passed : m >= y
    BY <1>4, <1>5 DEF MaxOf
  <2>2. m >= h /\ h >= m /\ m \in Nat /\ h \in Nat
    BY <1>1, <1>2, <1>4, <1>5, <2>1
  <2> HIDE DEF m
  <2>3. m = h
    BY <2>2, SMTT(60)
  <2> QED
    BY <2>3  DEF m
<1>7. EntryHeight(c, i) = h
  BY <1>3, <1>4, <1>6 DEF EntryHeight
<1>8. end \in Nat /\ i < end
  <2>1. CASE later = {}
    BY <1>1, <1>3, <2>1
  <2>2. CASE later # {}
    <3>1. later \in SUBSET Nat
      BY <1>1 DEF RowsFrom
    <3>2. MinOf(later) \in later
      BY <2>2, <3>1, LeastOf
    <3>3. MinOf(later) \in Heights /\ MinOf(later) >= h + 1 /\ Opened(c, MinOf(later))
      BY <3>2 DEF RowsFrom, Opened
    <3> DEFINE m == MinOf(later)
    <3> HIDE DEF m
    <3>4. m > h
      <4>1. m \in Nat /\ h \in Nat /\ m >= h + 1
        BY <1>1, <3>3 DEF m
      <4> QED
        BY <4>1, SMTT(60)
    <3>5. heightIdx[c][m] \in Nat /\ heightIdx[c][m] > i
      BY <1>1, <3>3, <3>4 DEF Found, m
    <3>6. end = heightIdx[c][m]
      BY <2>2 DEF m
    <3> HIDE DEF end
    <3> QED
      BY <1>3, <3>5, <3>6
  <2> QED
    BY <2>1, <2>2
<1>9. LeafRange(c, h) = heightIdx[c][h]..(end - 1)
  BY <1>3 DEF LeafRange, Opened
<1>10. i \in heightIdx[c][h]..(end - 1)
  <2>1. heightIdx[c][h] \in Nat
    BY <1>1, <1>3
  <2> HIDE DEF end
  <2> QED
    BY <1>3, <1>8, <2>1, SMTT(60)
<1> QED
  BY <1>7, <1>9, <1>10

-----------------------------------------------------------------------------
(* The rows by hash: the last copy of a leaf, until it is exported again.  *)

\* A block above t that exports leaf l to container c was handed to the worker.
Again(t, c, l) ==
  \E e \in Block : /\ anchors[e] # None /\ e \notin Queued /\ Height[e] > Height[t]
                   /\ \E k \in 1..Len(Exports[e][c]) : Exports[e][c][k] = l

\* The hash of each of t's leaves leads to its last copy among them, unless the
\* leaf was exported again.
Hashed(t, c) ==
  \A i \in 1..Len(Exported(t, c)) :
    \/ Again(t, c, Exported(t, c)[i])
    \/ LastCopy(Exported(t, c), Exported(t, c)[i], hashIdx[c][Exported(t, c)[i]])

HashInv ==
  \A t \in Block : Uncontested(t) /\ (Folded(t) \/ t = Genesis) => \A c \in Container : Hashed(t, c)

\* On one chain the hash of a leaf leads to a position where a committed block has
\* that leaf.
SoundInv ==
  OneChain => \A c \in Container, l \in Leaf : hashIdx[c][l] # None =>
    \E e \in Block : /\ anchors[e] # None
                     /\ hashIdx[c][l] + 1 \in 1..Len(Exported(e, c))
                     /\ Exported(e, c)[hashIdx[c][l] + 1] = l

\* The block that is folded is anchored and not queued any more.
LEMMA CurrentTaken ==
  ASSUME IInv, ChainInv, WaitInv, pc \in Writing, asmPrunes = 0
  PROVE  /\ Current \in Block /\ Above(Current) /\ Current \in Listed
         /\ anchors[Current] # None /\ Current \notin Queued
<1>1. pending # <<>> /\ pending \in Seq(Block)
  BY DEF IInv, FoldInv, WorkInv
<1>2. Current \in Block /\ Above(Current)
  BY <1>1, CurrentFact
<1>3. Len(pending) \in 1..Len(pending)
  BY <1>1, SMTT(60)
<1>4. Current \in Listed
  BY <1>3 DEF Listed, Current
<1>5. anchors[Current] # None
  BY <1>2, <1>4 DEF WaitInv, SeenInv
<1>6. \A j \in 1..Len(queue) : ~OnChainOf(Current, queue[j])
  BY <1>3 DEF WaitInv, OrderInv, Current
<1>7. OnChainOf(Current, Current)
  BY <1>2, <1>5, OwnChain
<1> QED
  BY <1>2, <1>4, <1>5, <1>6, <1>7 DEF Queued

\* On one chain no committed block has a competitor.
LEMMA OneTrunk ==
  ASSUME IInv, ChainInv, OneChain, NEW b \in Block, anchors[b] # None
  PROVE  Uncontested(b)
<1>1. asmPrunes = 0 /\ Rooted(b)
  BY DEF OneChain, IInv, AnchorsInv, Rooted
<1>2. ASSUME NEW x \in Block, anchors[x] # None, Height[x] <= Height[b] PROVE OnChainOf(b, x)
  <2>1. CASE OnChainOf(x, b)
    <3>1. Height[b] <= Height[x]
      BY <1>1, <1>2, <2>1 DEF ChainInv
    <3>2. Height[b] = Height[x]
      BY <1>2, <3>1, HeightFact, SMTT(60)
    <3>3. b = x
      BY <1>1, <1>2, <2>1, <3>2, OwnChain
    <3> QED
      BY <1>1, <3>3, OwnChain
  <2> QED
    BY <1>2, <2>1 DEF OneChain
<1> QED
  BY <1>1, <1>2 DEF Uncontested

\* Steps that write no hash row and put no anchored block back into the queue.
LEMMA HashKept ==
  ASSUME HashInv, SoundInv, UNCHANGED hashIdx,
         asmPrunes' = 0 => asmPrunes = 0 /\ \A b \in Block : anchors[b] # None => anchors'[b] # None,
         asmPrunes' = 0 => \A b \in Block : anchors[b] # None /\ b \in Queued' => b \in Queued,
         \A t \in Block : Uncontested(t) /\ Folded(t)' =>
           Folded(t) \/ t = Genesis \/ \A c \in Container : Hashed(t, c)
  PROVE  HashInv' /\ SoundInv'
<1>1. \A t : Uncontested(t)' => Uncontested(t) /\ asmPrunes' = 0
  BY DEF Uncontested
<1>2. asmPrunes' = 0 => \A t, c, l : Again(t, c, l) => Again(t, c, l)'
  BY DEF Again
<1>3. asmPrunes' = 0 => \A t, c : Hashed(t, c) => Hashed(t, c)'
  BY <1>2 DEF Hashed
<1>4. HashInv'
  BY <1>1, <1>3 DEF HashInv
<1>5. OneChain' => OneChain /\ asmPrunes' = 0
  BY DEF OneChain
<1>6. SoundInv'
  BY <1>5 DEF SoundInv
<1> QED
  BY <1>4, <1>6

\* The prune drops no hash row of a block below the one that is folded.
LEMMA HashPrune ==
  ASSUME IInv, TypedInv, WaitInv, StageInv, CleanInv, HashInv, SoundInv,
         PruneLeaves \/ PruneHash \/ PruneHeight
  PROVE  HashInv' /\ SoundInv'
<1> DEFINE H == CurrentHeight
           k == Pruning(CurrentHeight)
           f == FirstDropped(k, CurrentHeight)
<1>1. /\ pc \in Writing /\ UNCHANGED <<anchors, asmPrunes, moho>>
      /\ \A t : (Uncontested(t)' <=> Uncontested(t)) /\ (Folded(t)' <=> Folded(t))
  BY EntryFrame
<1>2. Queued' = Queued
  <2>1. UNCHANGED queue
    BY DEF PruneLeaves, PruneHash, PruneHeight, foldUnchanged, asmVars
  <2> QED
    BY <2>1 DEF Queued
<1>3. CASE UNCHANGED hashIdx
  BY <1>1, <1>2, <1>3, HashKept
<1>4. CASE hashIdx' # hashIdx
  <2>1. pc = "prune_hash" /\ \E l \in StaleHashes(k, H) : DropHashRow(k, l)
    BY <1>4 DEF PruneLeaves, PruneHash, PruneHeight, DropLeaves, DropHeightRow, entryVars
  <2>2. PICK l \in Leaf : /\ hashIdx[k][l] # None /\ hashIdx[k][l] >= f
                         /\ hashIdx' = [hashIdx EXCEPT ![k][l] = None]
    BY <2>1 DEF StaleHashes, DropHashRow
  <2>3. Unpruned(H) # {}
    BY <2>1 DEF StageInv
  <2>4. /\ k \in Container /\ FirstRow \in Heights /\ FirstRow >= H /\ Opened(k, FirstRow)
        /\ f = heightIdx[k][FirstRow] /\ f \in Nat
    BY <1>1, <2>3, PruningFact
  <2>5. H \in Heights /\ Heights \subseteq Nat
    BY <1>1, WritingFact
  <2>6. hashIdx[k][l] \in Nat
    BY <2>2, <2>4, EntryTypes DEF TypedInv
  <2>7. /\ hashIdx'[k][l] = None
        /\ \A c \in Container, x \in Leaf : c # k \/ x # l => hashIdx'[c][x] = hashIdx[c][x]
    BY <2>2, <2>4 DEF TypedInv, TypeInv, EntriesTypeInv
  <2> HIDE DEF k, f, H
  <2>8. \A t, c, x : Again(t, c, x) => Again(t, c, x)'
    BY <1>1, <1>2 DEF Again
  <2>9. ASSUME NEW t \in Block, Uncontested(t), Folded(t) \/ t = Genesis, NEW c \in Container,
               NEW i \in 1..Len(Exported(t, c)),
               LastCopy(Exported(t, c), Exported(t, c)[i], hashIdx[c][Exported(t, c)[i]])
        PROVE  hashIdx'[c][Exported(t, c)[i]] = hashIdx[c][Exported(t, c)[i]]
    <3> DEFINE n == Len(Exported(t, c))
               x == Exported(t, c)[i]
    <3>1. Exported(t, c) \in Seq(Leaf) /\ n \in Nat /\ x \in Leaf
      BY <2>9, ExportedFact, SMTT(60)
    <3>2. PICK j \in 1..n : hashIdx[c][x] = j - 1
      BY <2>9 DEF LastCopy
    <3>3. CASE c = k
      <4>1. Clean(t, k)
        BY <2>4, <2>9 DEF CleanInv
      <4>2. Height[t] < H /\ Height[t] \in Nat
        BY <1>1, <2>9, Below, HeightFact DEF H
      <4>3. FirstRow > Height[t]
        BY <2>4, <2>5, <4>2, SMTT(60)
      <4>4. f >= n
        BY <2>4, <3>3, <4>1, <4>3 DEF Clean
      <4> HIDE DEF n, x
      <4>5. ~(hashIdx[k][x] >= f)
        BY <2>4, <3>1, <3>2, <3>3, <4>4, SMTT(60)
      <4>6. x # l
        BY <2>2, <4>5
      <4> QED
        BY <2>4, <2>7, <3>1, <3>3, <4>6 DEF x
    <3>4. CASE c # k
      BY <2>7, <3>1, <3>4
    <3> QED
      BY <3>3, <3>4
  <2>10. HashInv'
    BY <1>1, <2>8, <2>9 DEF HashInv, Hashed
  <2>11. SoundInv'
    <3>1. OneChain' <=> OneChain
      BY <1>1 DEF OneChain
    <3>2. ASSUME OneChain, NEW c \in Container, NEW x \in Leaf, hashIdx'[c][x] # None
          PROVE  \E e \in Block : /\ anchors[e] # None /\ hashIdx'[c][x] + 1 \in 1..Len(Exported(e, c))
                                  /\ Exported(e, c)[hashIdx'[c][x] + 1] = x
      <4>1. c # k \/ x # l
        BY <2>7, <3>2
      <4>2. hashIdx'[c][x] = hashIdx[c][x]
        BY <2>7, <3>2, <4>1
      <4>3. hashIdx[c][x] # None
        BY <3>2, <4>2
      <4>4. PICK e \in Block : /\ anchors[e] # None /\ hashIdx[c][x] + 1 \in 1..Len(Exported(e, c))
                              /\ Exported(e, c)[hashIdx[c][x] + 1] = x
        BY <3>2, <4>3 DEF SoundInv
      <4> QED
        BY <4>2, <4>4
    <3> QED
      BY <1>1, <3>1, <3>2 DEF SoundInv
  <2> QED
    BY <2>10, <2>11
<1> QED
  BY <1>3, <1>4

\* The leaf that is indexed is the last one of the store, where the block's exports
\* have it.
LEMMA IndexedLeaf ==
  ASSUME IInv, TypedInv, CatchUpInv, ChainInv, WaitInv, StageInv, CleanInv, pc = "index",
         Uncontested(Parent[Current])
  PROVE  /\ Len(leaves[Appending]) \in 1..Len(Exported(Current, Appending))
         /\ Exported(Current, Appending)[Len(leaves[Appending])] = Exports[Current][Appending][Appended]
<1> DEFINE k == Appending
           X == Current
           u == Exports[X][k]
           n == Len(Exported(Parent[X], k))
           r == Len(leaves[k])
           a == Appended
<1>1. pc \in Writing /\ pc \in Appends /\ pc \in {"open_run", "append", "index"}
  BY DEF Writing, Appends
<1>2. k \in Container /\ X \in Block
  BY <1>1, WritingFact
<1>3. \A h \in Heights : h > CurrentHeight => ~Opened(k, h)
  BY <1>1, <1>2 DEF StageInv
<1>4. Parent[X] \in Block /\ Grown(X) /\ (Opened(k, CurrentHeight) => heightIdx[k][CurrentHeight] = n)
  BY <1>1, <1>2, <1>3, ParentLeaves
<1>5. /\ n \in Nat /\ Len(u) \in Nat /\ Len(Exported(X, k)) = n + Len(u)
      /\ \A j \in 1..Len(u) : Exported(X, k)[n + j] = u[j]
  BY <1>2, <1>4, OwnLeaf
<1>6. heightIdx[k][CurrentHeight] \in Nat /\ a \in 1..Len(u)
  BY DEF TypedInv, RunInv
<1>7. Opened(k, CurrentHeight)
  BY <1>6, ExportAssumption DEF Opened
<1>8. a = r - n
  BY <1>4, <1>7 DEF Appended
<1>9. r \in Nat
  BY <1>2, EntryTypes DEF TypedInv
<1> HIDE DEF k, X, u, n, r, a
<1>10. n + a = r /\ r \in 1..Len(Exported(X, k))
  BY <1>5, <1>6, <1>8, <1>9, SMTT(60)
<1> QED
  BY <1>5, <1>6, <1>10 DEF k, X, u, r, a

\* A leaf gets a new row only when a block above exports it again.
LEMMA HashEntries ==
  ASSUME IInv, TypedInv, CatchUpInv, ChainInv, WaitInv, StageInv, CleanInv, HashInv, SoundInv,
         StartRun \/ AppendEntry \/ IndexEntry
  PROVE  HashInv' /\ SoundInv'
<1> DEFINE k == Appending
           u == Exports[Current][k]
           l == u[Appended]
           r == Len(leaves[k])
<1>1. /\ pc \in Writing /\ UNCHANGED <<anchors, asmPrunes, moho>>
      /\ \A t : (Uncontested(t)' <=> Uncontested(t)) /\ (Folded(t)' <=> Folded(t))
  BY EntryFrame
<1>2. Queued' = Queued
  <2>1. UNCHANGED queue
    BY DEF StartRun, AppendEntry, IndexEntry, foldUnchanged, asmVars
  <2> QED
    BY <2>1 DEF Queued
<1>3. CASE UNCHANGED hashIdx
  BY <1>1, <1>2, <1>3, HashKept
<1>4. CASE IndexEntry
  <2>1. pc = "index" /\ hashIdx' = [hashIdx EXCEPT ![k][l] = r - 1]
    BY <1>4 DEF IndexEntry, IndexLeaf
  <2>2. k \in Container /\ Current \in Block /\ u \in Seq(Leaf)
    BY <1>1, <2>1, WritingFact
  <2>3. Appended \in 1..Len(u)
    BY <2>1 DEF TypedInv, RunInv
  <2>4. l \in Leaf /\ r \in Nat
    <3> HIDE DEF k, u
    <3> QED
      BY <2>2, <2>3, EntryTypes, SMTT(60) DEF TypedInv
  <2>5. /\ hashIdx'[k][l] = r - 1
        /\ \A c \in Container, x \in Leaf : c # k \/ x # l => hashIdx'[c][x] = hashIdx[c][x]
    <3>1. hashIdx \in [Container -> [Leaf -> Nat \cup {None}]]
      BY DEF TypedInv, TypeInv, EntriesTypeInv
    <3> HIDE DEF k, l, r
    <3> QED
      BY <2>1, <2>2, <2>4, <3>1
  <2>6. \A t, c, x : Again(t, c, x) => Again(t, c, x)'
    BY <1>1, <1>2 DEF Again
  <2>7. ASSUME NEW t \in Block, Uncontested(t), Folded(t) \/ t = Genesis PROVE Again(t, k, l)
    <3>1. asmPrunes = 0
      BY <2>7 DEF Uncontested
    <3>2. Current \in Block /\ anchors[Current] # None /\ Current \notin Queued
      BY <1>1, <3>1, CurrentTaken
    <3>3. Height[t] < Height[Current] /\ Height[t] \in Nat /\ Height[Current] \in Nat
      BY <1>1, <2>7, <3>2, Below, HeightFact DEF CurrentHeight
    <3>4. Height[Current] > Height[t]
      BY <3>3, SMTT(60)
    <3> QED
      BY <2>3, <3>2, <3>4 DEF Again
  <2>8. HashInv'
    <3>1. ASSUME NEW t \in Block, Uncontested(t), Folded(t) \/ t = Genesis, NEW c \in Container,
                 NEW i \in 1..Len(Exported(t, c))
          PROVE  \/ Again(t, c, Exported(t, c)[i])
                 \/ LastCopy(Exported(t, c), Exported(t, c)[i], hashIdx'[c][Exported(t, c)[i]])
      <4> DEFINE x == Exported(t, c)[i]
      <4>1. x \in Leaf
        BY <3>1, ExportedFact, SMTT(60)
      <4>2. CASE c = k /\ x = l
        BY <2>7, <3>1, <4>2
      <4>3. CASE c # k \/ x # l
        <5>1. hashIdx'[c][x] = hashIdx[c][x]
          BY <2>5, <3>1, <4>1, <4>3
        <5> QED
          BY <3>1, <5>1 DEF HashInv, Hashed
      <4> QED
        BY <4>2, <4>3
    <3> QED
      BY <1>1, <2>6, <3>1 DEF HashInv, Hashed
  <2>9. SoundInv'
    <3>1. OneChain' <=> OneChain
      BY <1>1 DEF OneChain
    <3>2. ASSUME OneChain
          PROVE  \E e \in Block : anchors[e] # None /\ r \in 1..Len(Exported(e, k)) /\ Exported(e, k)[r] = l
      <4>1. asmPrunes = 0
        BY <3>2 DEF OneChain
      <4>2. Above(Current) /\ anchors[Current] # None
        BY <1>1, <4>1, CurrentTaken
      <4>3. Parent[Current] \in Block /\ anchors[Parent[Current]] # None
        BY <2>2, <4>1, <4>2, Lineage DEF CatchUpInv, AncestryInv
      <4>4. Uncontested(Parent[Current])
        BY <3>2, <4>3, OneTrunk
      <4> QED
        BY <2>1, <2>2, <4>2, <4>4, IndexedLeaf
    <3>3. (r - 1) + 1 = r
      <4> HIDE DEF r
      <4> QED
        BY <2>4, SMTT(60)
    <3>4. ASSUME OneChain, NEW c \in Container, NEW x \in Leaf, hashIdx'[c][x] # None
          PROVE  \E e \in Block : /\ anchors[e] # None /\ hashIdx'[c][x] + 1 \in 1..Len(Exported(e, c))
                                  /\ Exported(e, c)[hashIdx'[c][x] + 1] = x
      <4>1. CASE c = k /\ x = l
        <5> HIDE DEF k, l, r
        <5> QED
          BY <2>5, <3>2, <3>3, <3>4, <4>1
      <4>2. CASE c # k \/ x # l
        <5>1. hashIdx'[c][x] = hashIdx[c][x]
          BY <2>5, <3>4, <4>2
        <5> QED
          BY <3>4, <5>1 DEF SoundInv
      <4> QED
        BY <4>1, <4>2
    <3> QED
      BY <1>1, <3>1, <3>4 DEF SoundInv
  <2> QED
    BY <2>8, <2>9
<1> QED
  BY <1>3, <1>4 DEF StartRun, AppendEntry, OpenRun, AppendLeaf

\* When the fold of a block without competitors is done its leaves are under their
\* hashes: its own were just indexed, its parent's were there.
LEMMA HashStore ==
  ASSUME IInv, TypedInv, CatchUpInv, ChainInv, WaitInv, StageInv, CleanInv, AppendInv, HashInv,
         pc = "store", Uncontested(Current), NEW c \in Container
  PROVE  Hashed(Current, c)
<1> DEFINE X == Current
           p == Parent[X]
           n == Len(Exported(p, c))
           N == Len(Exported(X, c))
           u == Exports[X][c]
<1>1. pc \in Writing /\ pc \in Appends /\ asmPrunes = 0
  BY DEF Writing, Appends, Uncontested
<1>2. X \in Block /\ Above(X) /\ anchors[X] # None
  BY <1>1, CurrentTaken
<1>3. Uncontested(p)
  BY <1>2, Trunk
<1>4. /\ leaves[c] = Exported(X, c)
      /\ \A i \in 1..N : i <= n \/ LastCopy(Exported(X, c), Exported(X, c)[i], hashIdx[c][Exported(X, c)[i]])
  BY <1>3, StoreMirrors
<1>5. p \in Block /\ Grown(X) /\ Height[p] = Height[X] - 1
  <2>1. \A h \in Heights : h > CurrentHeight => ~Opened(c, h)
    BY <1>1 DEF StageInv
  <2> QED
    BY <1>1, <1>3, <2>1, ParentLeaves DEF CurrentHeight
<1>6. /\ n \in Nat /\ Len(u) \in Nat /\ N = n + Len(u)
      /\ \A i \in 1..n : Exported(X, c)[i] = Exported(p, c)[i]
      /\ \A j \in 1..Len(u) : Exported(X, c)[n + j] = u[j]
  BY <1>2, <1>5, OwnLeaf
<1>7. Hashed(p, c)
  <2>1. Folded(p)
    BY <1>1 DEF IInv, FoldInv
  <2> QED
    BY <1>3, <1>5, <2>1 DEF HashInv
<1>8. Height[X] \in Nat
  BY <1>2, HeightFact
<1>9. \A j \in 1..Len(u) : n + j \in 1..N /\ ~(n + j <= n)
  <2> HIDE DEF n, N, u
  <2> QED
    BY <1>6, SMTT(60)
<1>10. /\ n <= N /\ N \in Nat
       /\ \A i \in 1..N : i <= n => i \in 1..n
       /\ \A i \in 1..N : i \in 1..n \/ ~(i <= n)
  <2> HIDE DEF n, N, u
  <2> QED
    BY <1>6, SMTT(60)
<1>11. ASSUME NEW i \in 1..N, ~LastCopy(Exported(X, c), Exported(X, c)[i], hashIdx[c][Exported(X, c)[i]])
       PROVE  Again(X, c, Exported(X, c)[i])
  <2> DEFINE x == Exported(X, c)[i]
  <2>1. \A j \in 1..N : Exported(X, c)[j] = x => j <= n
    BY <1>4, <1>11
  <2>2. i \in 1..n /\ x = Exported(p, c)[i]
    BY <1>6, <1>10, <1>11, <2>1
  <2>3. ~LastCopy(Exported(p, c), x, hashIdx[c][x])
    <3>1. \A j \in 1..N : j \in 1..n \/ Exported(X, c)[j] # x
      BY <1>10, <2>1
    <3> HIDE DEF x
    <3>2. LastCopy(Exported(p, c), x, hashIdx[c][x]) => LastCopy(Exported(X, c), x, hashIdx[c][x])
      BY <1>6, <1>10, <3>1, LastCopyKept
    <3> QED
      BY <1>11, <3>2 DEF x
  <2>4. Again(p, c, x)
    BY <1>7, <2>2, <2>3 DEF Hashed
  <2>5. PICK e \in Block : /\ anchors[e] # None /\ e \notin Queued /\ Height[e] > Height[p]
                          /\ \E j \in 1..Len(Exports[e][c]) : Exports[e][c][j] = x
    BY <2>4 DEF Again
  <2>6. e # X
    BY <1>6, <1>9, <2>1, <2>5
  <2>7. Height[e] # Height[X]
    <3>1. ASSUME Height[e] = Height[X] PROVE FALSE
      <4>1. Rooted(e) /\ Height[e] <= Height[X]
        <5>1. Height[e] <= Height[X]
          BY <1>8, <3>1, SMTT(60)
        <5> QED
          BY <2>5, <5>1 DEF IInv, AnchorsInv, Rooted
      <4>2. OnChainOf(X, e)
        BY <2>5, <4>1 DEF Uncontested
      <4> QED
        BY <1>1, <1>2, <2>6, <3>1, <4>1, <4>2, OwnChain
    <3> QED
      BY <3>1
  <2>8. Height[e] > Height[X]
    <3>1. Height[e] \in Nat
      BY HeightFact
    <3> HIDE DEF X, p
    <3> QED
      BY <1>5, <1>8, <2>5, <2>7, <3>1, SMTT(60)
  <2> QED
    BY <2>5, <2>8 DEF Again
<1> QED
  BY <1>11 DEF Hashed

-----------------------------------------------------------------------------
(* Every step keeps the mirror.                                            *)

\* The worker that waits for a commit has a block; no row is above it, and the
\* blocks above it are queued.
ExactInv ==
  /\ pc \in {"plan", "idle"} => curBlock # None
  /\ pc = "idle" /\ Uncontested(curBlock) =>
       /\ \A c \in Container, h \in Heights : h > Height[curBlock] => ~Opened(c, h)
       /\ \A e \in Block : anchors[e] # None /\ Height[e] > Height[curBlock] => e \in Queued

\* The entry store, relative to the folded blocks and the one being folded.
StoreInv == RowsInv /\ StageInv /\ CleanInv /\ AppendInv /\ HashInv /\ SoundInv

MirrorInv == ChainInv /\ WaitInv /\ StoreInv /\ ExactInv

\* Steps that leave the entry store alone.
LEMMA StoreKept ==
  ASSUME StoreInv, UNCHANGED entryVars,
         asmPrunes' = 0 => asmPrunes = 0 /\ \A b \in Block : anchors[b] # None => anchors'[b] # None,
         asmPrunes' = 0 => \A b \in Block : anchors[b] # None /\ b \in Queued' => b \in Queued,
         \A t \in Block : Uncontested(t) /\ Folded(t)' =>
           Folded(t) \/ t = Genesis \/ \A c \in Container : Clean(t, c) /\ Hashed(t, c),
         \/ pc' \notin Writing
         \/ UNCHANGED <<pc, todo, pending>>
         \/ pc' = "prune" /\ todo' = {c \in Container : Exports[Current'][c] # <<>>}
  PROVE  StoreInv'
<1>0. RowsInv /\ StageInv /\ CleanInv /\ AppendInv /\ HashInv /\ SoundInv
  BY DEF StoreInv
<1>1. UNCHANGED <<leaves, hashIdx, heightIdx>>
  BY DEF entryVars
<1>2. \A c, h : Opened(c, h)' <=> Opened(c, h)
  BY <1>1 DEF Opened
<1>3. RowsInv'
  BY <1>0, <1>2, RowsKept
<1>4. \A t : Uncontested(t)' => Uncontested(t)
  BY DEF Uncontested
<1>5. \A t, c : Clean(t, c) => Clean(t, c)'
  BY <1>1, CleanSame
<1>6. CleanInv' /\ HashInv' /\ SoundInv'
  <2>1. CleanInv'
    BY <1>0, <1>4, <1>5 DEF CleanInv
  <2> QED
    BY <1>0, <1>1, <2>1, HashKept
<1>7. CASE pc' \notin Writing \/ pc' = "prune"
  <2>1. pc' \notin Appends /\ pc' \notin {"prune_hash", "prune_height"} /\ pc' # "store"
    BY <1>7  DEF Writing, Appends
  <2>2. pc' \in {"prune", "prune_hash", "prune_height"} => pc' \in Writing
    BY DEF Writing
  <2>3. AppendInv'
    BY <2>1 DEF AppendInv
  <2>4. pc' \in Writing => todo' = {c \in Container : Exports[Current'][c] # <<>>} \/ UNCHANGED <<pc, todo, pending>>
    OBVIOUS
  <2>5. UNCHANGED <<pc, todo, pending>> => Current' = Current
    BY DEF Current
  <2>6. StageInv'
    BY <1>0, <2>1, <2>2, <2>4, <2>5 DEF StageInv
  <2> QED
    BY <1>3, <1>6, <2>3, <2>6 DEF StoreInv
<1>8. CASE UNCHANGED <<pc, todo, pending>>
  <2>1. Current' = Current /\ CurrentHeight' = CurrentHeight /\ Appending' = Appending
    BY <1>8 DEF Current, CurrentHeight, Appending
  <2>2. AppendInv'
    BY <1>0, <1>1, <1>4, <1>8, <2>1 DEF AppendInv
  <2>3. /\ Unpruned(CurrentHeight)' = Unpruned(CurrentHeight)
        /\ Pruning(CurrentHeight)' = Pruning(CurrentHeight)
        /\ FirstDropped(Pruning(CurrentHeight), CurrentHeight)'
             = FirstDropped(Pruning(CurrentHeight), CurrentHeight)
    BY <1>1, <2>1 DEF Unpruned, Pruning, FirstDropped, RowsFrom
  <2>4. StageInv'
    BY <1>0, <1>1, <1>2, <1>8, <2>1, <2>3 DEF StageInv
  <2> QED
    BY <1>3, <1>6, <2>2, <2>4 DEF StoreInv
<1> QED
  BY <1>7, <1>8

\* Steps that do not make the worker wait for a commit.
LEMMA ExactKept ==
  ASSUME ExactInv,
         \/ pc' \notin {"plan", "idle"}
         \/ /\ UNCHANGED <<pc, curBlock, entryVars>>
            /\ asmPrunes' = 0 => asmPrunes = 0 /\ \A b \in Block : anchors[b] # None => anchors'[b] # None
            /\ pc = "idle" /\ asmPrunes' = 0 => \A b \in Block :
                 b \in Queued \/ (anchors'[b] # None /\ anchors[b] = None) => b \in Queued'
  PROVE  ExactInv'
<1>1. CASE pc' \notin {"plan", "idle"}
  <2>1. pc' # "idle"
    BY <1>1
  <2> QED
    BY <1>1, <2>1 DEF ExactInv
<1>2. CASE /\ UNCHANGED <<pc, curBlock, entryVars>>
           /\ asmPrunes' = 0 => asmPrunes = 0 /\ \A b \in Block : anchors[b] # None => anchors'[b] # None
           /\ pc = "idle" /\ asmPrunes' = 0 => \A b \in Block :
                b \in Queued \/ (anchors'[b] # None /\ anchors[b] = None) => b \in Queued'
  <2>1. \A t : Uncontested(t)' => Uncontested(t) /\ asmPrunes' = 0
    BY <1>2 DEF Uncontested
  <2>2. \A c, h : Opened(c, h)' <=> Opened(c, h)
    BY <1>2 DEF entryVars, Opened
  <2> QED
    BY <1>2, <2>1, <2>2 DEF ExactInv
<1> QED
  BY <1>1, <1>2

\* The writes of a fold.
LEMMA MirrorEntries ==
  ASSUME IInv, TypedInv, CatchUpInv, MirrorInv,
         PruneLeaves \/ PruneHash \/ PruneHeight \/ StartRun \/ AppendEntry \/ IndexEntry
  PROVE  MirrorInv'
<1>1. /\ ChainInv /\ WaitInv /\ ExactInv
      /\ RowsInv /\ StageInv /\ CleanInv /\ AppendInv /\ HashInv /\ SoundInv
  BY DEF MirrorInv, StoreInv
<1>2. pc \in Writing /\ pc' \in Writing /\ UNCHANGED <<anchors, asmPrunes, moho, pending>>
  BY EntryFrame
<1>3. UNCHANGED <<queue, live>>
  <2>1. UNCHANGED foldUnchanged
    BY DEF PruneLeaves, PruneHash, PruneHeight, StartRun, AppendEntry, IndexEntry
  <2> QED
    BY <2>1 DEF foldUnchanged, asmVars
<1>4. pc' # "plan" /\ pc' \notin {"plan", "idle"} /\ pc # "failed"
  BY <1>2  DEF Writing
<1>5. ChainInv' /\ WaitInv' /\ ExactInv'
  BY <1>1, <1>2, <1>3, <1>4, ChainKept, WaitKept, ExactKept
<1>6. RowsInv' /\ StageInv'
  BY <1>1, StagePrune, StageEntries
<1>7. CleanInv'
  BY <1>1, CleanPrune, CleanEntries
<1>8. AppendInv'
  BY <1>1, AppendStart, AppendEntries
<1>9. HashInv' /\ SoundInv'
  BY <1>1, HashPrune, HashEntries
<1> QED
  BY <1>5, <1>6, <1>7, <1>8, <1>9 DEF MirrorInv, StoreInv

\* What is above the last block to fold, when that has no competitors, is queued.
LEMMA StoreTop ==
  ASSUME IInv, ChainInv, WaitInv, pc = "store", Len(pending) = 1, Uncontested(Current),
         NEW e \in Block, anchors[e] # None, Height[e] > Height[Current]
  PROVE  e \in Queued
<1>1. pc \in Writing /\ pc # "failed" /\ asmPrunes = 0
  BY DEF Writing, Uncontested
<1>2. Current \in Block /\ Current \in Listed /\ anchors[Current] # None
  BY <1>1, CurrentTaken
<1>3. Height[Current] \in Nat /\ Height[e] \in Nat
  BY <1>2, HeightFact
<1>4. Height[Current] <= Height[e] /\ Height[e] # Height[Current] /\ ~(Height[e] < Height[Current])
  BY <1>3, SMTT(60)
<1>5. CASE live
  <2>1. OnChainOf(e, Current)
    BY <1>2, <1>4, Trunk
  <2> QED
    BY <1>1, <1>2, <1>4, <1>5, <2>1 DEF WaitInv, TailInv
<1>6. CASE ~live
  <2>1. pending # <<>> /\ pending[1] = Current
    BY <1>1 DEF IInv, FoldInv, Current
  <2>2. IsLast(anchors, Current)
    BY <1>1, <1>6, <2>1 DEF WaitInv, TailInv
  <2> QED
    BY <1>4, <2>2 DEF IsLast
<1> QED
  BY <1>5, <1>6

\* The stored block is mirrored.
LEMMA MirrorStore ==
  ASSUME IInv, TypedInv, CatchUpInv, MirrorInv, StoreMoho PROVE MirrorInv'
<1>1. /\ ChainInv /\ WaitInv /\ StoreInv /\ ExactInv
      /\ RowsInv /\ StageInv /\ CleanInv /\ AppendInv /\ HashInv /\ SoundInv
  BY DEF MirrorInv, StoreInv
<1>2. /\ pc = "store" /\ UNCHANGED <<entryVars, anchors, queue, asmPrunes>>
      /\ moho' = [moho EXCEPT ![Current] = next] /\ curBlock' = Current
  BY DEF StoreMoho, asmVars, boundVars
<1>3. pc \in Writing /\ pc' \notin Writing /\ pc' \in {"idle", "fold"}
  BY <1>2  DEF StoreMoho, Writing
<1>4. Current \in Block /\ CurrentHeight \in Heights /\ Heights \subseteq Nat
  BY <1>3, WritingFact
<1>5. ASSUME Uncontested(Current)
      PROVE  \A c \in Container : /\ Clean(Current, c) /\ Hashed(Current, c)
                                  /\ \A h \in Heights : h > CurrentHeight => ~Opened(c, h)
  <2>1. Above(Current) /\ anchors[Current] # None
    BY <1>1, <1>3, <1>5, CurrentTaken DEF Uncontested
  <2>2. Uncontested(Parent[Current])
    BY <1>1, <1>4, <1>5, <2>1, Trunk
  <2> QED
    BY <1>1, <1>2, <1>5, <2>2, StoreMirrors, HashStore
<1>6. \A t \in Block : Folded(t)' => Folded(t) \/ t = Current
  BY <1>2  DEF IInv, MohoInv, Folded
<1>7. StoreInv' /\ Queued' = Queued
  <2>1. Queued' = Queued
    BY <1>2 DEF Queued
  <2> QED
    BY <1>1, <1>2, <1>3, <1>5, <1>6, <2>1, StoreKept
<1>8. ExactInv'
  <2>1. curBlock' # None
    BY <1>2, <1>4, Lineage
  <2>2. Uncontested(curBlock)' => Uncontested(Current)
    BY <1>2 DEF Uncontested
  <2>3. \A c, h : Opened(c, h)' <=> Opened(c, h)
    BY <1>2 DEF entryVars, Opened
  <2>4. ASSUME pc' = "idle", Uncontested(Current),
               NEW e \in Block, anchors[e] # None, Height[e] > Height[Current]
        PROVE  e \in Queued
    <3>1. Len(pending) = 1
      BY <2>4 DEF StoreMoho
    <3> QED
      BY <1>1, <1>2, <2>4, <3>1, StoreTop
  <2> QED
    BY <1>2, <1>5, <1>7, <2>1, <2>2, <2>3, <2>4 DEF ExactInv, CurrentHeight
<1>9. ChainInv' /\ WaitInv'
  BY <1>1, <1>2, ChainKept, WaitStore
<1> QED
  BY <1>7, <1>8, <1>9 DEF MirrorInv

\* Startup, commits and prunes; the entry store is left alone.
LEMMA MirrorOthers ==
  ASSUME IInv, TypedInv, CatchUpInv, MirrorInv,
         \/ LaunchAsm \/ Seed \/ Plan \/ Receive \/ Fold \/ ParentUnavailable \/ Exit \/ Crash
         \/ \E b \in Block : AsmCommit(b)
         \/ \E h \in DropHeights : PruneAnchors(h)
         \/ \E h \in MohoHeights : PruneMoho(h)
  PROVE  MirrorInv'
<1>1. ChainInv /\ WaitInv /\ StoreInv /\ ExactInv
  BY DEF MirrorInv
<1>2. TypeInv
  BY DEF TypedInv
<1> DEFINE Same == UNCHANGED <<anchors, asmPrunes>>
           Held == asmPrunes' = 0 => asmPrunes = 0 /\ \A b \in Block : anchors[b] # None => anchors'[b] # None
<1>3. /\ Same => ChainInv' /\ Held
      /\ UNCHANGED queue => Queued' = Queued
  BY <1>1, ChainKept DEF Queued
<1>4. CASE LaunchAsm
  <2>1. pc' = "seed" /\ UNCHANGED <<entryVars, moho, queue, asmPrunes>>
    BY <1>4 DEF LaunchAsm, boundVars
  <2>2. pc' \notin Writing /\ pc' \notin {"plan", "idle"}
    BY <2>1  DEF Writing
  <2>3. Held
    <3>1. GenesisState # None
      <4>1. GenesisState \in AnchorState /\ None \notin AnchorState
        BY FoldAssumption, LogAssumption, Lineage
      <4> QED
        BY <4>1
    <3>2. anchors' = anchors \/ anchors' = [anchors EXCEPT ![Genesis] = GenesisState]
      BY <1>4 DEF LaunchAsm, Asm!Start, Asm!StoreGenesis, Asm!GenesisState, GenesisState,
         Asm!Heights, Heights, Asm!GenesisHeight, GenesisHeight
    <3>3. \A b \in Block : anchors[b] # None => anchors'[b] # None
      BY <3>1, <3>2  DEF IInv, AnchorsInv
    <3> QED
      BY <2>1, <3>3
  <2>4. \A t \in Block : Folded(t)' => Folded(t)
    BY <2>1 DEF Folded
  <2>5. StoreInv' /\ ExactInv'
    BY <1>1, <1>3, <2>1, <2>2, <2>3, <2>4, StoreKept, ExactKept
  <2>6. ChainInv' /\ WaitInv'
    BY <1>1, <1>2, <1>4, ChainLaunch, WaitOffline
  <2> QED
    BY <2>5, <2>6 DEF MirrorInv
<1>5. CASE Seed
  <2>1. pc = "seed" /\ Same /\ UNCHANGED <<entryVars, queue>>
    BY <1>5 DEF Seed, asmVars, boundVars
  <2>2. pc' \in {"plan", "failed"} /\ pc' \notin Writing /\ pc' # "idle"
    BY <1>5  DEF Seed, Writing
  <2>3. \A t \in Block : Folded(t)' => Folded(t) \/ t = Genesis
    <3>1. moho' = moho \/ moho' = Seeded
      BY <1>5 DEF Seed, Resume
    <3> QED
      BY <3>1  DEF Folded, Seeded, IInv, MohoInv
  <2>4. StoreInv'
    BY <1>1, <1>3, <2>1, <2>2, <2>3, StoreKept
  <2>5. pc' = "plan" => curBlock' # None
    <3>1. pc' = "plan" => Resume(Seeded)
      BY <1>5  DEF Seed
    <3>2. Resume(Seeded) => curBlock' \in Block
      BY DEF Resume
    <3> QED
      BY <3>1, <3>2, Lineage
  <2>6. ExactInv'
    BY <2>2, <2>5  DEF ExactInv
  <2>7. WaitInv'
    BY <1>1, <1>2, <1>5, WaitSeed
  <2> QED
    BY <1>3, <2>1, <2>4, <2>6, <2>7 DEF MirrorInv
<1>6. CASE Plan
  <2>1. pc = "plan" /\ Same /\ UNCHANGED <<entryVars, moho, queue, curBlock>>
    BY <1>6 DEF Plan, asmVars, boundVars, curVars
  <2>2. pc' \notin Writing
    BY <1>6  DEF Plan, Writing
  <2>3. \A t \in Block : Folded(t)' => Folded(t)
    BY <2>1 DEF Folded
  <2>4. StoreInv'
    BY <1>1, <1>3, <2>1, <2>2, <2>3, StoreKept
  <2>5. curBlock \in Block /\ curBlock # None
    BY <1>1, <2>1  DEF ExactInv, IInv, CurInv
  <2>6. ASSUME pc' = "idle", NEW b \in Block, anchors[b] # None
        PROVE  Height[b] <= Height[curBlock] /\ ~(Height[b] > Height[curBlock])
    <3>1. (cursor = curBlock \/ Folded(cursor)) /\ pending = <<>>
      BY <1>6, <2>6 DEF Plan
    <3>2. IsLast(anchors, cursor) /\ IsLast(moho, curBlock) /\ cursor \in Block
      BY <1>1, <2>1, <3>1 DEF WaitInv, StartInv, IInv, WorkInv
    <3>3. Height[b] < Height[cursor] \/ Height[b] = Height[cursor]
      BY <2>6, <3>2 DEF IsLast
    <3>4. cursor = curBlock \/ Height[cursor] < Height[curBlock] \/ Height[cursor] = Height[curBlock]
      BY <3>1, <3>2 DEF IsLast, Folded
    <3>5. Height[b] \in Nat /\ Height[cursor] \in Nat /\ Height[curBlock] \in Nat
      BY <2>5, <2>6, <3>2, HeightFact
    <3>6. Height[cursor] <= Height[curBlock]
      BY <3>4, <3>5, SMTT(60)
    <3> QED
      BY <3>3, <3>5, <3>6, SMTT(60)
  <2>7. ExactInv'
    <3>1. \A c, h : Opened(c, h)' <=> Opened(c, h)
      BY <2>1 DEF entryVars, Opened
    <3>2. ASSUME pc' = "idle", asmPrunes = 0, NEW c \in Container, NEW h \in Heights, Opened(c, h)
          PROVE  ~(h > Height[curBlock])
      <4>1. PICK b \in Block : anchors[b] # None /\ h <= Height[b]
        BY <1>1, <3>2 DEF StoreInv, RowsInv
      <4>2. Height[b] <= Height[curBlock]
        BY <2>6, <3>2, <4>1
      <4>3. Height[b] \in Nat /\ Height[curBlock] \in Nat /\ h \in Nat
        BY <2>5, <3>2, <4>1, HeightFact
      <4> QED
        BY <4>1, <4>2, <4>3, SMTT(60)
    <3> QED
      BY <2>1, <2>5, <2>6, <3>1, <3>2 DEF ExactInv, Uncontested
  <2>8. WaitInv'
    BY <1>1, <1>2, <1>6, WaitPlan
  <2> QED
    BY <1>3, <2>1, <2>4, <2>7, <2>8 DEF MirrorInv
<1>7. CASE Receive
  <2>1. pc' = "fold" /\ Same /\ UNCHANGED <<entryVars, moho>>
    BY <1>7 DEF Receive, boundVars
  <2>2. pc' \notin Writing /\ pc' \notin {"plan", "idle"}
    BY <2>1  DEF Writing
  <2>3. \A t \in Block : Folded(t)' => Folded(t)
    BY <2>1 DEF Folded
  <2>4. Queued' \subseteq Queued
    <3>1. queue \in Seq(Block) /\ queue # <<>> /\ queue' = Tail(queue)
      BY <1>7 DEF Receive, IInv, WorkInv
    <3>2. \A i \in 1..Len(queue') : i + 1 \in 1..Len(queue) /\ queue'[i] = queue[i + 1]
      BY <3>1, SMTT(60)
    <3> QED
      BY <3>2 DEF Queued
  <2>5. StoreInv' /\ ExactInv'
    BY <1>1, <1>3, <2>1, <2>2, <2>3, <2>4, StoreKept, ExactKept
  <2> QED
    BY <1>1, <1>3, <1>7, <2>1, <2>5, WaitReceive DEF MirrorInv
<1>8. CASE Fold \/ ParentUnavailable
  <2>1. Same /\ UNCHANGED <<entryVars, moho, queue, pending, live>>
    BY <1>8 DEF Fold, ParentUnavailable, asmVars, planVars, boundVars
  <2>2. Current' = Current
    BY <2>1 DEF Current
  <2>3. pc' = "failed" \/ (pc' = "prune" /\ todo' = {c \in Container : Exports[Current][c] # <<>>})
    BY <1>8 DEF Fold, ParentUnavailable
  <2>4. pc' \notin Writing \/ (pc' = "prune" /\ todo' = {c \in Container : Exports[Current'][c] # <<>>})
    <3>1. pc' = "failed" => pc' \notin Writing
      BY DEF Writing
    <3> QED
      BY <2>2, <2>3, <3>1
  <2>5. pc' \notin {"plan", "idle"} /\ pc' # "plan" /\ pc # "failed"
    <3>1. pc' \in {"failed", "prune"} /\ pc \in {"fold", "plan"}
      BY <1>8, <2>3 DEF Fold, ParentUnavailable
    <3> QED
      BY <3>1
  <2>6. \A t \in Block : Folded(t)' => Folded(t)
    BY <2>1 DEF Folded
  <2>7. StoreInv'
    BY <1>1, <1>3, <2>1, <2>4, <2>6, StoreKept
  <2>8. WaitInv' /\ ExactInv'
    BY <1>1, <2>1, <2>5, WaitKept, ExactKept
  <2> QED
    BY <1>3, <2>1, <2>7, <2>8 DEF MirrorInv
<1>9. CASE Exit \/ Crash
  <2>1. pc' = "down" /\ Same /\ UNCHANGED <<entryVars, moho>> /\ queue' = <<>>
    BY <1>9 DEF Exit, Crash, Stop, Asm!Stop
  <2>2. pc' \notin Writing /\ pc' \notin {"plan", "idle"}
    BY <2>1  DEF Writing
  <2>3. \A t \in Block : Folded(t)' => Folded(t)
    BY <2>1 DEF Folded
  <2>4. Queued' = {}
    <3>1. Len(queue') = 0
      BY <2>1
    <3>2. 1..Len(queue') = {}
      BY <3>1, SMTT(60)
    <3> QED
      BY <3>2 DEF Queued
  <2>5. StoreInv' /\ ExactInv'
    BY <1>1, <1>3, <2>1, <2>2, <2>3, <2>4, StoreKept, ExactKept
  <2>6. WaitInv'
    BY <1>1, <1>2, <1>9, WaitOffline
  <2> QED
    BY <1>3, <2>1, <2>5, <2>6 DEF MirrorInv
<1>10. ASSUME NEW b \in Block, AsmCommit(b) PROVE MirrorInv'
  <2>1. UNCHANGED <<entryVars, moho, asmPrunes, pc, todo, pending, curBlock>>
    BY <1>10 DEF AsmCommit, curVars, planVars, boundVars
  <2>2. /\ anchors[b] = None
        /\ \A x \in Block : anchors[x] # None => anchors'[x] # None
        /\ \A x \in Block : anchors'[x] # None => anchors[x] # None \/ x = b
    <3>1. CanonState[b] # None
      <4>1. CanonState[b] \in AnchorState /\ None \notin AnchorState
        BY FoldAssumption, LogAssumption
      <4> QED
        BY <4>1
    <3>2. anchors' = [anchors EXCEPT ![b] = CanonState[b]] /\ anchors[b] = None
      BY <1>10 DEF AsmCommit, Asm!Commit, Asm!Committed
    <3>3. /\ \A x \in Block : anchors[x] # None => anchors'[x] # None
          /\ \A x \in Block : anchors'[x] # None => anchors[x] # None \/ x = b
      BY <3>1, <3>2  DEF IInv, AnchorsInv
    <3> QED
      BY <3>2, <3>3
  <2>3. Held /\ \A t \in Block : Folded(t)' => Folded(t)
    BY <2>1, <2>2 DEF Folded
  <2>4. Queued' \subseteq Queued \cup {b} /\ (pc = "idle" => Queued' = Queued \cup {b})
    <3>1. pc = "idle" => pc # "failed"
      OBVIOUS
    <3> QED
      BY <1>10, <3>1, QueuedCommit
  <2>5. StoreInv'
    BY <1>1, <2>1, <2>2, <2>3, <2>4, StoreKept
  <2>6. ExactInv'
    BY <1>1, <2>1, <2>2, <2>3, <2>4, ExactKept
  <2>7. ChainInv' /\ WaitInv'
    BY <1>1, <1>2, <1>10, ChainCommit, WaitCommit
  <2> QED
    BY <2>5, <2>6, <2>7 DEF MirrorInv
<1>11. ASSUME NEW h \in DropHeights, PruneAnchors(h) PROVE MirrorInv'
  <2>1. UNCHANGED <<entryVars, moho, pc, todo, pending, curBlock>> /\ asmPrunes' = asmPrunes + 1
    BY <1>11 DEF PruneAnchors, curVars, planVars
  <2>2. asmPrunes' # 0
    BY <1>2, <2>1, SMTT(60) DEF TypeInv
  <2>3. \A t \in Block : Folded(t)' => Folded(t)
    BY <2>1 DEF Folded
  <2>4. StoreInv' /\ ExactInv' /\ ChainInv'
    BY <1>1, <2>1, <2>2, <2>3, StoreKept, ExactKept, ChainKept
  <2>5. WaitInv'
    BY <1>1, <1>2, <1>11, WaitOffline
  <2> QED
    BY <2>4, <2>5 DEF MirrorInv
<1>12. ASSUME NEW h \in MohoHeights, PruneMoho(h) PROVE MirrorInv'
  <2>1. Same /\ UNCHANGED <<entryVars, queue, pc, todo, pending, curBlock>>
    BY <1>12 DEF PruneMoho, asmVars, curVars, planVars
  <2>2. \A t \in Block : Folded(t)' => Folded(t)
    <3>1. \A t \in Block : moho'[t] \in {moho[t], None}
      BY <1>12 DEF PruneMoho, IInv, MohoInv
    <3> QED
      BY <3>1 DEF Folded
  <2>3. StoreInv' /\ ExactInv'
    BY <1>1, <1>3, <2>1, <2>2, StoreKept, ExactKept
  <2>4. WaitInv'
    BY <1>1, <1>2, <1>12, WaitOffline
  <2> QED
    BY <1>3, <2>1, <2>3, <2>4 DEF MirrorInv
<1> QED
  BY <1>4, <1>5, <1>6, <1>7, <1>8, <1>9, <1>10, <1>11, <1>12

\* The empty store mirrors the genesis block, which exports nothing.
LEMMA MirrorInit == Init => MirrorInv
<1> SUFFICES ASSUME Init PROVE MirrorInv
  OBVIOUS
<1>1. /\ anchors = [b \in Block |-> None] /\ moho = [b \in Block |-> None] /\ pc = "down"
      /\ queue = <<>> /\ pending = <<>>
  BY DEF Init, Asm!Init
<1>2. EntriesInit
  BY DEF Init
<1>3. Len(pending) = 0 /\ Len(queue) = 0 /\ pc # "plan" /\ pc # "idle" /\ pc \notin {"plan", "idle"}
      /\ pc \notin Appends /\ pc \notin {"prune", "prune_hash", "prune_height"}
      /\ pc \notin {"prune_hash", "prune_height"} /\ pc # "store"
  BY <1>1  DEF Appends
<1>4. 1..Len(pending) = {} /\ 1..Len(queue) = {}
  BY <1>3, SMTT(60)
<1>5. ChainInv
  BY <1>1 DEF ChainInv
<1>6. WaitInv
  BY <1>1, <1>3, <1>4 DEF WaitInv, OrderInv, SeenInv, AheadInv, StartInv, TailInv, Listed, Queued,
     Folded
<1>7. /\ \A c \in Container, h \in Heights : ~Opened(c, h)
      /\ \A c \in Container : leaves[c] = <<>>
      /\ \A c \in Container, l \in Leaf : hashIdx[c][l] = None
  BY <1>2 DEF EntriesInit, Opened
<1>8. RowsInv
  <2>1. 0 \in Nat
    OBVIOUS
  <2> QED
    BY <1>7, <2>1 DEF RowsInv
<1>9. StageInv /\ AppendInv /\ ExactInv
  BY <1>3 DEF StageInv, AppendInv, ExactInv
<1>10. ASSUME NEW c \in Container PROVE Clean(Genesis, c) /\ Hashed(Genesis, c)
  <2>1. Exported(Genesis, c) = <<>>
    <3>1. CanonMoho[Genesis] = GenesisMoho
      BY ExportAssumption
    <3> QED
      BY <3>1, SMTT(60) DEF Exported, GenesisMoho
  <2>2. Len(Exported(Genesis, c)) = 0 /\ Len(leaves[c]) = 0
    BY <1>7, <2>1, SMTT(60)
  <2>3. 1..0 = {} /\ 0..(0 - 1) = {} /\ 0 <= 0 /\ ~(0 > 0)
    BY SMTT(60)
  <2> QED
    BY <1>7, <2>2, <2>3 DEF Clean, Begins, Hashed
<1>11. CleanInv /\ HashInv
  BY <1>1, <1>10 DEF CleanInv, HashInv, Folded
<1>12. SoundInv
  BY <1>7 DEF SoundInv
<1> QED
  BY <1>5, <1>6, <1>8, <1>9, <1>11, <1>12 DEF MirrorInv, StoreInv

\* Every step keeps the mirror.
LEMMA MirrorStep ==
  ASSUME IInv, TypedInv, CatchUpInv, MirrorInv, [Next]_vars
  PROVE  MirrorInv'
<1>1. CASE UNCHANGED vars
  <2>1. UNCHANGED <<anchors, asmPrunes, moho, queue, pending, live, pc, cursor, curBlock, todo, entryVars>>
    BY <1>1 DEF vars, asmVars, curVars, planVars, boundVars
  <2>2. ChainInv /\ WaitInv /\ StoreInv /\ ExactInv /\ Queued' = Queued
    BY <2>1 DEF MirrorInv, Queued
  <2>3. \A t \in Block : Folded(t)' => Folded(t)
    BY <2>1 DEF Folded
  <2>4. StoreInv' /\ ExactInv' /\ ChainInv' /\ WaitInv'
    BY <2>1, <2>2, <2>3, StoreKept, ExactKept, ChainKept, WaitKept
  <2> QED
    BY <2>4 DEF MirrorInv
<1>2. CASE PruneLeaves \/ PruneHash \/ PruneHeight \/ StartRun \/ AppendEntry \/ IndexEntry
  BY <1>2, MirrorEntries
<1>3. CASE StoreMoho
  BY <1>3, MirrorStore
<1>4. CASE \/ LaunchAsm \/ Seed \/ Plan \/ Receive \/ Fold \/ ParentUnavailable \/ Exit \/ Crash
           \/ \E b \in Block : AsmCommit(b)
           \/ \E h \in DropHeights : PruneAnchors(h)
           \/ \E h \in MohoHeights : PruneMoho(h)
  BY <1>4, MirrorOthers
<1> QED
  BY <1>1, <1>2, <1>3, <1>4 DEF Next, MohoStep

\* The mirror and what it rests on hold in every reachable state.
LEMMA Mirrored == Spec => [](IInv /\ TypedInv /\ CatchUpInv /\ MirrorInv)
<1> DEFINE Inv == IInv /\ TypedInv /\ CatchUpInv /\ MirrorInv
<1>1. Init => Inv
  BY InitInv, TypedInit, CatchUpInit, MirrorInit
<1>2. Inv /\ [Next]_vars => Inv'
  <2> SUFFICES ASSUME IInv, TypedInv, CatchUpInv, MirrorInv, [Next]_vars PROVE Inv'
    OBVIOUS
  <2>1. IInv'
    BY StepInv
  <2>2. TypedInv'
    BY <2>1, TypedStep
  <2>3. CatchUpInv'
    BY CatchUpStep DEF TypedInv
  <2>4. MirrorInv'
    BY MirrorStep
  <2> QED
    BY <2>1, <2>2, <2>3, <2>4
<1> QED
  BY <1>1, <1>2, PTL DEF Spec

\* A block whose parent has no competitor leaves exactly its exports in the entry
\* store, its own found under its height and the last copy of each under its
\* hash, whatever a killed prune or append or another branch left behind
\* (process_block, prune_from, append).
THEOREM PrefixMirrored == Spec => []CleanPrefixMirrored
<1>1. IInv /\ TypedInv /\ CatchUpInv /\ MirrorInv => CleanPrefixMirrored
  <2> SUFFICES ASSUME IInv, TypedInv, CatchUpInv, MirrorInv, pc = "store", Uncontested(Parent[Current]),
                      NEW c \in Container
               PROVE  /\ leaves[c] = Exported(Current, c)
                      /\ \A i \in Len(Exported(Parent[Current], c))..(Len(leaves[c]) - 1) :
                           IndexedAt(c, i, CurrentHeight)
    BY DEF CleanPrefixMirrored
  <2> DEFINE n == Len(Exported(Parent[Current], c))
  <2>1. /\ leaves[c] = Exported(Current, c) /\ Clean(Current, c)
        /\ \A i \in n..(Len(leaves[c]) - 1) : Found(c, i, CurrentHeight)
        /\ \A i \in 1..Len(leaves[c]) :
             i <= n \/ LastCopy(leaves[c], leaves[c][i], hashIdx[c][leaves[c][i]])
    BY StoreMirrors DEF MirrorInv, StoreInv
  <2>2. Current \in Block /\ Parent[Current] \in Block /\ CurrentHeight \in Heights
    <3>1. pc \in Writing
      BY DEF Writing
    <3> QED
      BY <3>1, WritingFact, Lineage
  <2>3. ASSUME NEW i \in n..(Len(leaves[c]) - 1) PROVE IndexedAt(c, i, CurrentHeight)
    <3>1. n \in Nat /\ Len(leaves[c]) \in Nat
      BY <2>2, ExportedFact, EntryTypes, SMTT(60) DEF TypedInv
    <3> HIDE DEF n
    <3>2. i \in 0..(Len(leaves[c]) - 1) /\ i + 1 \in 1..Len(leaves[c]) /\ ~(i + 1 <= n)
      BY <2>3, <3>1, SMTT(60)
    <3>3. EntryHeight(c, i) = CurrentHeight /\ i \in LeafRange(c, CurrentHeight)
      BY <2>1, <2>2, <2>3, <3>2, FoundByHeight DEF TypedInv
    <3>4. LastCopy(leaves[c], leaves[c][i + 1], hashIdx[c][leaves[c][i + 1]])
      BY <2>1, <3>2
    <3> QED
      BY <3>3, <3>4 DEF IndexedAt
  <2> QED
    BY <2>1, <2>3
<1> QED
  BY <1>1, Mirrored, PTL

\* As long as no committed block competes with the worker's tip the entry store
\* mirrors the tip's export state (process_block, sync_to_tip).
THEOREM TipMirrored == Spec => []StraightChainMirrored
<1>1. IInv /\ TypedInv /\ CatchUpInv /\ MirrorInv => StraightChainMirrored
  <2> SUFFICES ASSUME IInv, TypedInv, CatchUpInv, MirrorInv, pc = "idle", Uncontested(curBlock),
                      NEW c \in Container
               PROVE  /\ leaves[c] = Exported(curBlock, c)
                      /\ \A i \in 0..(Len(leaves[c]) - 1) : \E h \in Heights :
                           /\ leaves[c][i + 1] \in {Exports[CanonState[curBlock].hist[h].block][c][k] :
                                k \in DOMAIN Exports[CanonState[curBlock].hist[h].block][c]}
                           /\ IndexedAt(c, i, h)
    BY DEF StraightChainMirrored
  <2>1. curBlock # None /\ \A h \in Heights : h > Height[curBlock] => ~Opened(c, h)
    BY DEF MirrorInv, ExactInv
  <2>2. curBlock \in Block /\ Folded(curBlock)
    BY <2>1 DEF IInv, CurInv
  <2>3. Clean(curBlock, c) /\ Hashed(curBlock, c)
    BY <2>2 DEF MirrorInv, StoreInv, CleanInv, HashInv
  <2>4. leaves[c] \in Seq(Leaf) /\ Exported(curBlock, c) \in Seq(Leaf)
    BY <2>2, EntryTypes, ExportedFact DEF TypedInv
  <2>5. Begins(Exported(curBlock, c), leaves[c]) /\ ~(Len(leaves[c]) > Len(Exported(curBlock, c)))
    BY <2>1, <2>3 DEF Clean
  <2>6. leaves[c] = Exported(curBlock, c)
    BY <2>4, <2>5, SMTT(60) DEF Begins
  <2>7. ASSUME NEW i \in 0..(Len(leaves[c]) - 1)
        PROVE  \E h \in Heights :
                 /\ leaves[c][i + 1] \in {Exports[CanonState[curBlock].hist[h].block][c][k] :
                      k \in DOMAIN Exports[CanonState[curBlock].hist[h].block][c]}
                 /\ IndexedAt(c, i, h)
    <3>1. PICK h \in Heights : Found(c, i, h) /\ ExportedAt(curBlock, c, i, h)
      BY <2>3, <2>6, <2>7 DEF Clean
    <3>2. EntryHeight(c, i) = h /\ i \in LeafRange(c, h)
      BY <3>1, FoundByHeight DEF TypedInv
    <3>3. i + 1 \in 1..Len(leaves[c])
      BY <2>4, <2>7, SMTT(60)
    <3>4. LastCopy(leaves[c], leaves[c][i + 1], hashIdx[c][leaves[c][i + 1]])
      <4>1. ~Again(curBlock, c, leaves[c][i + 1])
        BY DEF Again, MirrorInv, ExactInv
      <4> QED
        BY <2>3, <2>6, <3>3, <4>1 DEF Hashed
    <3>5. leaves[c][i + 1] \in {Exports[CanonState[curBlock].hist[h].block][c][k] :
            k \in DOMAIN Exports[CanonState[curBlock].hist[h].block][c]}
      BY <2>6, <3>1 DEF ExportedAt
    <3> QED
      BY <3>2, <3>4, <3>5 DEF IndexedAt
  <2> QED
    BY <2>6, <2>7
<1> QED
  BY <1>1, Mirrored, PTL

\* The peak over a leaf covers leaves of the MMR only.
LEMMA PeakInside ==
  ASSUME NEW n \in Nat, NEW i \in 0..(n - 1)
  PROVE  PeakOf(i, n) \subseteq 0..(n - 1)
<1> DEFINE S == {s \in TreeSizes(n) : (i \div s) * s + s <= n}
           size == MaxOf(S)
           start == (i \div size) * size
<1>1. n >= 1 /\ i \in Nat /\ i + 1 <= n
  BY SMTT(60)
<1>2. 1 \in S
  <2>1. 1 \in TreeSizes(n)
    <3>1. 0 \in 0..n /\ 1 = 2^0 /\ 1 \in 1..n
      BY <1>1, SMTT(60)
    <3> QED
      BY <3>1 DEF TreeSizes
  <2>2. (i \div 1) * 1 + 1 <= n
    <3>1. i \div 1 = i
      BY <1>1, SMTT(60)
    <3> QED
      BY <1>1, <3>1, SMTT(60)
  <2> QED
    BY <2>1, <2>2
<1>3. S \in SUBSET Nat /\ S # {} /\ \A x \in S : x <= n
  <2>1. \A x \in 1..n : x \in Nat /\ x <= n
    BY <1>1, SMTT(60)
  <2> QED
    BY <1>2, <2>1 DEF TreeSizes
<1>4. size \in S
  BY <1>3, GreatestOf
<1>5. size \in 1..n /\ start + size <= n
  BY <1>4 DEF TreeSizes
<1>6. start \in Nat
  <2>1. size \in Nat /\ size >= 1
    <3> HIDE DEF size
    <3> QED
      BY <1>5, SMTT(60)
  <2> HIDE DEF size
  <2>2. i \div size \in Nat
    BY <1>1, <2>1, SMTT(60)
  <2> DEFINE q == i \div size
  <2> HIDE DEF q
  <2>3. q * size \in Nat
    BY <2>1, <2>2, SMTT(60) DEF q
  <2> QED
    BY <2>3  DEF q
<1>7. PeakOf(i, n) = start..(start + size - 1)
  BY DEF PeakOf
<1> HIDE DEF start, size
<1>8. start..(start + size - 1) \subseteq 0..(n - 1)
  BY <1>5, <1>6, SMTT(60)
<1> QED
  BY <1>7, <1>8

\* On one chain a leaf that no block holds twice is not exported again.
LEMMA NotAgain ==
  ASSUME IInv, CatchUpInv, ChainInv, OneChain, NEW b \in Block, anchors[b] # None,
         NEW c \in Container, NEW i \in 1..Len(Exported(b, c)), ExportedOnce(c, Exported(b, c)[i])
  PROVE  ~Again(b, c, Exported(b, c)[i])
<1> SUFFICES ASSUME NEW e \in Block, anchors[e] # None, Height[e] > Height[b],
                    NEW k \in 1..Len(Exports[e][c]), Exports[e][c][k] = Exported(b, c)[i]
             PROVE  FALSE
  BY DEF Again
<1> DEFINE p == Parent[e]
           n == Len(Exported(p, c))
           m == Len(Exported(b, c))
           N == Len(Exported(e, c))
<1>1. asmPrunes = 0 /\ Uncontested(e)
  BY OneTrunk DEF OneChain
<1>2. Above(e) /\ Rooted(b)
  <2>1. (e = Genesis \/ Above(e)) /\ Rooted(b)
    BY DEF IInv, AnchorsInv, Rooted
  <2>2. ASSUME e = Genesis PROVE FALSE
    <3>1. Height[b] >= GenesisHeight /\ Height[e] = GenesisHeight
      BY <2>1, <2>2, HeightFact, SMTT(60) DEF Rooted, Above, GenesisHeight
    <3> QED
      BY <3>1, HeightFact, SMTT(60)
  <2> QED
    BY <2>1, <2>2
<1>3. p \in Block /\ anchors[p] # None /\ Grown(e) /\ Height[b] <= Height[p]
  <2>1. p \in Block /\ anchors[p] # None /\ Grown(e)
    <3>1. p \in Block /\ anchors[p] # None
      BY <1>1, <1>2, HeightFact DEF CatchUpInv, AncestryInv
    <3>2. Grown(e)
      BY <1>1, <1>2 DEF ChainInv
    <3> QED
      BY <3>1, <3>2
  <2>2. Height[b] \in Nat /\ Height[e] \in Nat /\ Height[p] = Height[e] - 1
    BY <1>2, HeightFact
  <2>3. Height[b] <= Height[p]
    <3> HIDE DEF p
    <3> QED
      BY <2>2, SMTT(60)
  <2> QED
    BY <2>1, <2>3
<1>4. OnChainOf(p, b)
  BY <1>1, <1>2, <1>3, Trunk DEF Uncontested
<1>5. Begins(Exported(b, c), Exported(p, c))
  BY <1>1, <1>2, <1>3, <1>4 DEF ChainInv
<1>6. /\ n \in Nat /\ Len(Exports[e][c]) \in Nat /\ N = n + Len(Exports[e][c])
      /\ \A j \in 1..n : Exported(e, c)[j] = Exported(p, c)[j]
      /\ \A j \in 1..Len(Exports[e][c]) : Exported(e, c)[n + j] = Exports[e][c][j]
  BY <1>3, OwnLeaf
<1>7. m <= n /\ Exported(p, c)[i] = Exported(b, c)[i]
  BY <1>5 DEF Begins
<1>8. m \in Nat
  BY ExportedFact, SMTT(60)
<1>9. i \in 1..n /\ i \in 1..N /\ n + k \in 1..N /\ i # n + k
  <2> HIDE DEF n, m, N
  <2>1. i \in 1..m
    BY DEF m
  <2> QED
    BY <1>6, <1>7, <1>8, <2>1, SMTT(60)
<1>10. Exported(e, c)[i] = Exported(b, c)[i] /\ Exported(e, c)[n + k] = Exported(b, c)[i]
  BY <1>6, <1>7, <1>9
<1> QED
  BY <1>9, <1>10 DEF ExportedOnce

\* On one chain the answer for every entry exported up to a folded block is a
\* proof that verifies, or that the entry is not there or later; for an entry
\* that is exported once it is the proof, at the position the block gave it
\* (get_export_entry_mmr_proof).
THEOREM ProofsServed == Spec => []ExportProofsServed
<1>1. IInv /\ TypedInv /\ CatchUpInv /\ MirrorInv => ExportProofsServed
  <2> SUFFICES ASSUME IInv, TypedInv, CatchUpInv, MirrorInv, OneChain,
                      NEW b \in Block, NEW c \in Container, Folded(b),
                      NEW i \in 0..(Len(Exported(b, c)) - 1)
               PROVE  /\ get_export_entry_mmr_proof(b, c, Exported(b, c)[i + 1])
                           \in {"Proof", "NoSuchLeaf", "LeafAfterBlock"}
                      /\ ExportedOnce(c, Exported(b, c)[i + 1]) =>
                           /\ get_export_entry_mmr_proof(b, c, Exported(b, c)[i + 1]) = "Proof"
                           /\ find_index(c, Exported(b, c)[i + 1]) = i
    BY DEF ExportProofsServed
  <2> DEFINE e == Exported(b, c)
             n == Len(e)
             l == e[i + 1]
             v == hashIdx[c][l]
  <2>1. ChainInv /\ WaitInv /\ CleanInv /\ HashInv /\ SoundInv /\ asmPrunes = 0
    BY DEF MirrorInv, StoreInv, OneChain
  <2>2. anchors[b] # None
    BY <2>1 DEF WaitInv, SeenInv
  <2>3. Uncontested(b)
    BY <2>1, <2>2, OneTrunk
  <2>4. Clean(b, c) /\ Hashed(b, c)
    BY <2>1, <2>3 DEF CleanInv, HashInv
  <2>5. e \in Seq(Leaf) /\ n \in Nat /\ Len(leaves[c]) \in Nat /\ None \notin Nat
    BY ExportedFact, EntryTypes, SMTT(60) DEF TypedInv
  <2>6. moho[b] = CanonMoho[b] /\ moho[b] # None
    BY DEF IInv, MohoInv, Folded
  <2>7. moho[b].export[c].leaves = e
    BY <2>6 DEF Exported
  <2> HIDE DEF e, n
  <2>8. i + 1 \in 1..n /\ l \in Leaf /\ i \in Nat /\ ~(i >= n) /\ (i + 1) - 1 = i
    BY <2>5, SMTT(60) DEF n, e
  <2>9. v = None \/ v \in Nat
    BY <2>8, EntryTypes DEF TypedInv
  <2>10. n <= Len(leaves[c]) /\ \A j \in 1..n : leaves[c][j] = e[j]
    BY <2>4 DEF Clean, Begins, n, e
  <2>11. e # <<>>
    BY <2>5, <2>8, SMTT(60) DEF n
  <2>12. HasContainer(moho[b], c)
    BY <2>7, <2>11 DEF HasContainer
  <2> HIDE DEF l, v
  <2>13. ASSUME v \in Nat, ~(v >= n) PROVE e[v + 1] = l
    <3>1. v # None /\ v + 1 \in 1..n
      BY <2>5, <2>13, SMTT(60)
    <3>2. PICK x \in Block : /\ anchors[x] # None /\ v + 1 \in 1..Len(Exported(x, c))
                            /\ Exported(x, c)[v + 1] = l
      BY <2>1, <2>8, <3>1 DEF SoundInv, v
    <3>3. CASE OnChainOf(b, x)
      <4>1. Begins(Exported(x, c), e)
        BY <2>1, <2>2, <3>2, <3>3 DEF ChainInv, IInv, AnchorsInv, Rooted, e
      <4> QED
        BY <3>2, <4>1 DEF Begins
    <3>4. CASE OnChainOf(x, b)
      <4>1. Begins(e, Exported(x, c))
        BY <2>1, <2>2, <3>2, <3>4 DEF ChainInv, IInv, AnchorsInv, Rooted, e
      <4> QED
        BY <3>1, <3>2, <4>1 DEF Begins, n
    <3> QED
      BY <2>2, <3>2, <3>3, <3>4 DEF OneChain
  <2>14. ASSUME v \in Nat, ~(v >= n) PROVE verify_entry(e, generate_proof(c, v, n), l)
    <3> DEFINE r == RootOf(e, v, n)
    <3>1. v \in 0..(n - 1)
      BY <2>5, <2>14, SMTT(60)
    <3>2. PeakOf(v, n) \subseteq 0..(n - 1)
      BY <2>5, <3>1, PeakInside
    <3>3. \A j \in 0..(n - 1) : j + 1 \in 1..n
      BY <2>5, SMTT(60)
    <3>4. \A j \in PeakOf(v, n) : leaves[c][j + 1] = e[j + 1]
      BY <2>10, <3>2, <3>3
    <3>5. RootOf(leaves[c], v, n) = r
      BY <3>4 DEF RootOf
    <3>6. generate_proof(c, v, n).index = v /\ generate_proof(c, v, n).siblings = r
      BY <3>5 DEF generate_proof
    <3>7. e[v + 1] = l
      BY <2>13, <2>14
    <3>8. [r EXCEPT ![v] = l] = r
      BY <3>7 DEF RootOf
    <3> QED
      BY <3>6, <3>8 DEF verify_entry, n
  <2>15. find_index(c, l) = v /\ ~(n > Len(leaves[c]))
    <3>1. ~(n > Len(leaves[c]))
      BY <2>5, <2>10, SMTT(60)
    <3> QED
      BY <3>1 DEF find_index, v
  <2>16. build_export_entry_mmr_proof(b, c, l) =
           IF v = None THEN "NoSuchLeaf" ELSE IF v >= n THEN "LeafAfterBlock" ELSE "Proof"
    <3>1. v # None /\ ~(v >= n) => verify_entry(e, generate_proof(c, v, n), l)
      BY <2>9, <2>14
    <3> QED
      BY <2>6, <2>7, <2>12, <2>15, <3>1 DEF build_export_entry_mmr_proof, get_moho_state, num_entries, n
  <2>17. get_export_entry_mmr_proof(b, c, l) =
           IF v = None THEN "NoSuchLeaf" ELSE IF v >= n THEN "LeafAfterBlock" ELSE "Proof"
    BY <2>16 DEF get_export_entry_mmr_proof
  <2>18. ASSUME ExportedOnce(c, l) PROVE v = i
    <3>1. ~Again(b, c, l)
      BY <2>1, <2>2, <2>8, <2>18, NotAgain DEF l, e, n
    <3>2. LastCopy(e, l, v)
      BY <2>4, <2>8, <3>1 DEF Hashed, l, v, e, n
    <3>3. PICK j \in 1..n : v = j - 1 /\ e[j] = l
      BY <3>2 DEF LastCopy, n
    <3>4. j = i + 1
      BY <2>2, <2>8, <2>18, <3>3 DEF ExportedOnce, e, n, l
    <3> QED
      BY <2>8, <3>3, <3>4
  <2>19. get_export_entry_mmr_proof(b, c, l) \in {"Proof", "NoSuchLeaf", "LeafAfterBlock"}
    BY <2>17
  <2>20. ASSUME ExportedOnce(c, l) PROVE get_export_entry_mmr_proof(b, c, l) = "Proof" /\ find_index(c, l) = i
    <3>1. v = i /\ v # None /\ ~(v >= n)
      BY <2>5, <2>8, <2>18, <2>20
    <3> QED
      BY <2>15, <2>17, <3>1
  <2> QED
    BY <2>19, <2>20 DEF e, l
<1> QED
  BY <1>1, Mirrored, PTL
=============================================================================
