--------------------------- MODULE SchedulerProofs ---------------------------
(***************************************************************************)
(* Scheduler implements OrchestrationStore for any number of processes,    *)
(* Steps and executions, so what is proved of the store holds of every     *)
(* interleaving of drains, recoveries, executions, commands and crashes.   *)
(***************************************************************************)
EXTENDS Scheduler, OrchestrationStoreProofs

\* The values of drain entries.
Drains == [phase : {"idle", "loop", "tick", "executing"},
           candidates : SUBSET Steps, cleared : SUBSET Steps, started : BOOLEAN]

\* The values of executions.
Executions == [owner : Owners, step : Steps, attempt : 1..MaxAttempts,
               awaited : BOOLEAN, aborted : BOOLEAN]

\* SchedTypeOK, with attempts inside the bound of the store's Next.
MemoryOK ==
  /\ proc \in [Owners -> {"new", "up", "stopping", "dead"}]
  /\ drain \in [Owners -> Drains]
  /\ recoveries \in [Owners -> SUBSET {"begin", "draining", "sleeping"}]
  /\ execs \subseteq Executions
  /\ stalls \in 0..MaxStalls
  /\ commands \in 0..MaxCommands

\* What a process knows is in range, and the fences of the store are sound:
\* the preflight of a Step claims no fence, so it relies on no running Step
\* being without an owner.
SchedInv == TypeOK /\ FenceWhileRunning /\ MemoryOK

-----------------------------------------------------------------------------
(* Every step is a transaction of the store or leaves it alone             *)

\* Parking a Step that is not running needs no fence, so any will do.
LEMMA ParkingIsNext ==
  ASSUME SchedInv, NEW s \in Steps, NEW act \in Actions, NEW o \in Owners,
         requestApproval(s, act, NoOwner, 0)
  PROVE  Next
<1>1. ~(step[s] = "running" /\ owner[s] = NoOwner)
  BY StoreAssumption DEF SchedInv, FenceWhileRunning
<1>2. requestApproval(s, act, o, 1)
  BY <1>1 DEF requestApproval, awaitStepApproval
<1>3. 1 \in 1..MaxAttempts
  BY StoreAssumption
<1> QED BY <1>2, <1>3 DEF Next, ExecutionOps

\* The drain: its claim and its preflight are the store's transactions, with
\* candidates that may be stale.
LEMMA DrainImplements ==
  ASSUME SchedInv, NEW o \in Owners, DrainStep(o)
  PROVE  Next \/ UNCHANGED storeVars
<1>1. drain[o].candidates \in SUBSET Steps
  BY DEF SchedInv, MemoryOK, Drains
<1>2. CASE DrainLoop(o) \/ TickDone(o)
  BY <1>2 DEF DrainLoop, TickDone
<1>3. CASE PrepareReview(o)
  BY <1>1, <1>3 DEF PrepareReview, Next
<1>4. CASE PreflightStep(o)
  <2>1. PICK s \in Unchecked(o) :
          UNCHANGED storeVars \/ requestApproval(s, Preflight[s], NoOwner, 0)
    BY <1>4 DEF PreflightStep
  <2>2. s \in Steps /\ Preflight[s] \in Actions
    BY <1>1, SchedulerAssumption DEF Unchecked
  <2> QED BY <2>1, <2>2, ParkingIsNext
<1>5. CASE Claim(o)
  <2> DEFINE picked == IF run \in Claimable THEN ClaimableSteps(drain[o].candidates) ELSE {}
  <2>1. UNCHANGED storeVars \/ SomeSnapshotFails(picked) \/ StartSteps(o, picked)
    BY <1>5 DEF Claim
  <2>2. CASE SomeSnapshotFails(picked) \/ StartSteps(o, picked)
    <3>1. picked # {}
      BY <2>2 DEF SomeSnapshotFails, StartSteps
    <3> QED BY <1>1, <2>2, <3>1 DEF claimReadySteps, Next
  <2> QED BY <2>1, <2>2
<1> QED BY <1>2, <1>3, <1>4, <1>5 DEF DrainStep

\* Executions: results, failures and requests carry the execution's fence.
LEMMA ExecutionImplements ==
  ASSUME SchedInv, NEW e \in execs,
         \/ ExecReturns(e) \/ ExecThrows(e)
         \/ \E act \in Actions : ExecAsks(e, act) \/ gateStepAction(e, act)
  PROVE  Next \/ UNCHANGED storeVars
<1>1. e.owner \in Owners /\ e.step \in Steps /\ e.attempt \in 1..MaxAttempts
  BY DEF SchedInv, MemoryOK, Executions
<1>2. ASSUME ExecutionOps(e.owner, e.step, e.attempt) PROVE Next
  BY <1>1, <1>2 DEF Next
<1>3. CASE ExecReturns(e)
  BY <1>2, <1>3 DEF ExecReturns, ExecutionOps
<1>4. ASSUME ExecFails(e) PROVE Next \/ UNCHANGED storeVars
  BY <1>2, <1>4 DEF ExecFails, ExecutionOps
<1>5. CASE ExecThrows(e)
  BY <1>4, <1>5 DEF ExecThrows
<1>6. ASSUME NEW act \in Actions, ExecAsks(e, act) PROVE Next \/ UNCHANGED storeVars
  BY <1>2, <1>4, <1>6 DEF ExecAsks, ExecutionOps
<1>7. ASSUME NEW act \in Actions, gateStepAction(e, act) PROVE Next
  <2>1. PICK f \in execs : f.attempt = attempt[e.step]
    BY <1>7 DEF gateStepAction, ExecsOf
  <2>2. attempt[e.step] \in 1..MaxAttempts
    BY <2>1 DEF SchedInv, MemoryOK, Executions
  <2>3. requestApproval(e.step, act, e.owner, attempt[e.step])
    BY <1>7 DEF gateStepAction
  <2> QED BY <1>1, <2>2, <2>3 DEF Next, ExecutionOps
<1> QED BY <1>3, <1>5, <1>6, <1>7

\* The other steps of a process.
LEMMA ProcessImplements ==
  ASSUME SchedInv, NEW o \in Owners,
         \/ recoverInternal(o) \/ RecoveryWakes(o)
         \/ Pause(o) \/ Resume(o) \/ Cancel(o) \/ Decide(o) \/ Merge(o) \/ SelectImage(o)
         \/ Boot(o) \/ Crash(o) \/ Shutdown(o) \/ Exit(o)
  PROVE  Next \/ UNCHANGED storeVars
<1>1. CASE recoverInternal(o)
  BY <1>1 DEF recoverInternal, Next
<1>2. CASE RecoveryWakes(o) \/ Boot(o) \/ Crash(o) \/ Shutdown(o) \/ Exit(o)
  BY <1>2 DEF RecoveryWakes, Boot, Crash, Shutdown, Exit
<1>3. CASE Pause(o) \/ Resume(o) \/ Cancel(o)
  BY <1>3 DEF Pause, Resume, Cancel, Next
<1>4. CASE Decide(o)
  BY <1>4 DEF Decide, Next
<1>5. CASE Merge(o)
  BY <1>5 DEF Merge, Next
<1>6. CASE SelectImage(o)
  BY <1>6 DEF SelectImage, Next
<1> QED BY <1>1, <1>2, <1>3, <1>4, <1>5, <1>6

\* Every step of the Scheduler maps to a step of the store or a stutter.
LEMMA SchedulerStepImplements ==
  ASSUME SchedInv, [SchedNext]_vars
  PROVE  [Next]_storeVars
<1>1. ASSUME NEW s \in Steps, OrphanLeaseExpires(s) \/ StalledLeaseExpires(s)
      PROVE  Next
  BY <1>1 DEF OrphanLeaseExpires, StalledLeaseExpires, Next
<1>2. CASE UNCHANGED vars
  BY <1>2 DEF vars
<1> QED
  BY <1>1, <1>2, DrainImplements, ExecutionImplements, ProcessImplements DEF SchedNext

-----------------------------------------------------------------------------
(* What the processes hold in memory stays in range                        *)

\* The updates of the drains map the actions share.
LEMMA DrainUpdates ==
  ASSUME MemoryOK, NEW o \in Owners
  PROVE  /\ runUntilIdle(o) => drain' \in [Owners -> Drains]
         /\ DrainResolves(o) =>
              /\ drain' \in [Owners -> Drains]
              /\ recoveries' \in [Owners -> SUBSET {"begin", "draining", "sleeping"}]
         /\ \A rest \in SUBSET Executions : DrainRejects(o, rest) =>
              /\ drain' \in [Owners -> Drains]
              /\ recoveries' \in [Owners -> SUBSET {"begin", "draining", "sleeping"}]
              /\ execs' \subseteq Executions
<1>1. NoDrain \in Drains /\ LoopHead(FALSE) \in Drains
  BY DEF NoDrain, LoopHead, Drains
<1>2. ASSUME runUntilIdle(o) PROVE drain' \in [Owners -> Drains]
  BY <1>1, <1>2 DEF runUntilIdle, MemoryOK
<1>3. ASSUME DrainResolves(o)
      PROVE  /\ drain' \in [Owners -> Drains]
             /\ recoveries' \in [Owners -> SUBSET {"begin", "draining", "sleeping"}]
  BY <1>1, <1>3 DEF DrainResolves, MemoryOK
<1>4. ASSUME NEW rest \in SUBSET Executions, DrainRejects(o, rest)
      PROVE  /\ drain' \in [Owners -> Drains]
             /\ recoveries' \in [Owners -> SUBSET {"begin", "draining", "sleeping"}]
             /\ execs' \subseteq Executions
  <2>1. ASSUME NEW e \in rest PROVE [e EXCEPT !.awaited = @ /\ e.owner # o] \in Executions
    BY DEF Executions
  <2> QED BY <1>1, <1>4, <2>1 DEF DrainRejects, MemoryOK
<1> QED BY <1>2, <1>3, <1>4

\* Aborting keeps executions what they are.
LEMMA AbortedInRange ==
  ASSUME NEW o, NEW es \in SUBSET Executions
  PROVE  AbortedAll(o, es) \subseteq Executions
<1>1. ASSUME NEW e \in es PROVE [e EXCEPT !.aborted = @ \/ e.owner = o] \in Executions
  BY DEF Executions
<1> QED BY <1>1 DEF AbortedAll

\* Drain steps stay in range: a claim starts attempts inside the bound.
LEMMA DrainInRange ==
  ASSUME SchedInv, NEW o \in Owners, DrainStep(o)
  PROVE  MemoryOK'
<1> USE DEF SchedInv
<1>1. drain[o] \in Drains
  BY DEF MemoryOK
<1>2. CASE DrainLoop(o)
  <2>1. CASE DrainResolves(o)
    BY <1>2, <2>1, DrainUpdates DEF DrainLoop, MemoryOK
  <2>2. CASE drain' = [drain EXCEPT ![o].phase = "tick",
                                    ![o].candidates = readyStepIds \ MergeSteps]
             /\ UNCHANGED recoveries
    <3>1. [drain[o] EXCEPT !.phase = "tick", !.candidates = readyStepIds \ MergeSteps] \in Drains
      BY <1>1 DEF Drains, readyStepIds
    <3>2. drain' \in [Owners -> Drains]
      BY <2>2, <3>1 DEF MemoryOK
    <3> QED BY <1>2, <2>2, <3>2 DEF DrainLoop, MemoryOK
  <2> QED BY <1>2, <2>1, <2>2 DEF DrainLoop
<1>3. CASE PrepareReview(o)
  <2>1. DrainResolves(o) \/ UNCHANGED <<drain, recoveries>>
    BY <1>3 DEF PrepareReview
  <2> QED BY <1>3, <2>1, DrainUpdates DEF PrepareReview, MemoryOK
<1>4. CASE PreflightStep(o)
  <2>1. PICK s \in Unchecked(o) :
          \/ drain' = [drain EXCEPT ![o].cleared = @ \cup {s}] /\ UNCHANGED <<recoveries, execs>>
          \/ drain' = [drain EXCEPT ![o].candidates = @ \ {s}] /\ UNCHANGED <<recoveries, execs>>
          \/ DrainRejects(o, execs)
    BY <1>4 DEF PreflightStep
  <2>2. /\ [drain[o] EXCEPT !.cleared = @ \cup {s}] \in Drains
        /\ [drain[o] EXCEPT !.candidates = @ \ {s}] \in Drains
    BY <1>1 DEF Drains, Unchecked
  <2>3. UNCHANGED <<proc, stalls, commands>>
    BY <1>4 DEF PreflightStep
  <2>4. CASE DrainRejects(o, execs)
    BY <2>3, <2>4, DrainUpdates DEF MemoryOK
  <2>5. CASE UNCHANGED <<recoveries, execs>>
             /\ \/ drain' = [drain EXCEPT ![o].cleared = @ \cup {s}]
                \/ drain' = [drain EXCEPT ![o].candidates = @ \ {s}]
    BY <2>2, <2>3, <2>5 DEF MemoryOK
  <2> QED BY <2>1, <2>4, <2>5
<1>5. CASE Claim(o)
  <2> DEFINE asked == drain[o].candidates
             picked == IF run \in Claimable THEN ClaimableSteps(asked) ELSE {}
  <2>1. CASE DrainResolves(o) /\ UNCHANGED execs
    BY <1>5, <2>1, DrainUpdates DEF Claim, MemoryOK
  <2>2. CASE /\ StartSteps(o, picked)
             /\ execs' = execs \cup NewExecs(o, picked)
             /\ drain' = [drain EXCEPT ![o] = [LoopHead(TRUE) EXCEPT !.phase = "executing"]]
             /\ UNCHANGED recoveries
    <3>2. StartSteps(o, picked)
      BY <2>2
    <3>3. picked \subseteq Steps
      BY <1>1 DEF ClaimableSteps, Drains
    <3> HIDE DEF picked
    <3>4. \A s \in picked : attempt[s] + 1 \in 1..MaxAttempts
      BY <3>2, <3>3, StoreAssumption DEF StartSteps, TypeOK
    <3>5. NewExecs(o, picked) \subseteq Executions
      <4>1. ASSUME NEW s \in picked
            PROVE  [owner |-> o, step |-> s, attempt |-> attempt[s] + 1, awaited |-> TRUE,
                    aborted |-> FALSE] \in Executions
        BY <3>3, <3>4 DEF Executions
      <4> QED BY <4>1 DEF NewExecs
    <3>6. [LoopHead(TRUE) EXCEPT !.phase = "executing"] \in Drains
      BY DEF LoopHead, NoDrain, Drains
    <3>7. UNCHANGED <<proc, stalls, commands>>
      BY <1>5 DEF Claim
    <3> QED BY <2>2, <3>5, <3>6, <3>7 DEF MemoryOK
  <2> QED BY <1>5, <2>1, <2>2 DEF Claim
<1>6. CASE TickDone(o)
  <2>1. [drain[o] EXCEPT !.phase = "loop"] \in Drains
    BY <1>1 DEF Drains
  <2> QED BY <1>6, <2>1 DEF TickDone, MemoryOK
<1> QED BY <1>2, <1>3, <1>4, <1>5, <1>6 DEF DrainStep

\* Executions only leave the set, or are marked.
LEMMA ExecutionInRange ==
  ASSUME SchedInv, NEW e \in execs,
         \/ ExecReturns(e) \/ ExecThrows(e)
         \/ \E act \in Actions : ExecAsks(e, act) \/ gateStepAction(e, act)
  PROVE  MemoryOK'
<1> USE DEF SchedInv
<1>1. e.owner \in Owners /\ execs \ {e} \in SUBSET Executions
  BY DEF MemoryOK, Executions
<1>2. CASE ExecReturns(e)
  <2>1. execs' = execs \ {e} \/ execs' = AbortedAll(e.owner, execs \ {e})
    BY <1>2 DEF ExecReturns
  <2>2. execs' \subseteq Executions
    BY <1>1, <2>1, AbortedInRange
  <2> QED BY <1>2, <2>2 DEF ExecReturns, MemoryOK
<1> DEFINE Ends == \/ execs' = execs \ {e} /\ UNCHANGED <<drain, recoveries>>
                   \/ DrainRejects(e.owner, execs \ {e})
<1>3. ASSUME Ends, UNCHANGED <<proc, stalls, commands>> PROVE MemoryOK'
  <2>1. CASE DrainRejects(e.owner, execs \ {e})
    BY <1>1, <1>3, <2>1, DrainUpdates DEF MemoryOK
  <2>2. CASE execs' = execs \ {e} /\ UNCHANGED <<drain, recoveries>>
    BY <1>1, <1>3, <2>2 DEF MemoryOK
  <2> QED BY <1>3, <2>1, <2>2
<1>4. ASSUME ExecFails(e) PROVE Ends
  BY <1>4 DEF ExecFails, ExecRejects
<1>5. CASE ExecThrows(e)
  <2>1. Ends /\ UNCHANGED <<proc, stalls, commands>>
    BY <1>4, <1>5 DEF ExecThrows
  <2> QED BY <1>3, <2>1
<1>6. ASSUME NEW act \in Actions, ExecAsks(e, act) PROVE MemoryOK'
  <2>1. Ends /\ UNCHANGED <<proc, stalls, commands>>
    BY <1>4, <1>6 DEF ExecAsks, ExecRejects
  <2> QED BY <1>3, <2>1
<1>7. ASSUME NEW act \in Actions, gateStepAction(e, act) PROVE MemoryOK'
  <2>1. PICK f \in execs : execs' = (execs \ {f}) \cup {[f EXCEPT !.aborted = TRUE]}
    BY <1>7 DEF gateStepAction, ExecsOf
  <2>2. [f EXCEPT !.aborted = TRUE] \in Executions
    BY DEF MemoryOK, Executions
  <2> QED BY <1>7, <2>1, <2>2 DEF gateStepAction, MemoryOK
<1> QED BY <1>2, <1>5, <1>6, <1>7

\* Recoveries, commands and the life of a process stay in range.
LEMMA ProcessInRange ==
  ASSUME SchedInv, NEW o \in Owners,
         \/ recoverInternal(o) \/ RecoveryWakes(o)
         \/ Pause(o) \/ Resume(o) \/ Cancel(o) \/ Decide(o) \/ Merge(o) \/ SelectImage(o)
         \/ Boot(o) \/ Crash(o) \/ Shutdown(o) \/ Exit(o)
  PROVE  MemoryOK'
<1> USE DEF SchedInv
<1>1. CASE recoverInternal(o)
  <2>1. drain' \in [Owners -> Drains]
    BY <1>1, DrainUpdates DEF recoverInternal, MemoryOK
  <2>2. recoveries' \in [Owners -> SUBSET {"begin", "draining", "sleeping"}]
    BY <1>1 DEF recoverInternal, MemoryOK
  <2> QED BY <1>1, <2>1, <2>2 DEF recoverInternal, MemoryOK
<1>2. CASE RecoveryWakes(o)
  BY <1>2 DEF RecoveryWakes, MemoryOK
<1>3. CASE Pause(o)
  BY <1>3, SchedulerAssumption DEF Pause, MemoryOK
<1>4. CASE Resume(o)
  BY <1>4 DEF Resume, MemoryOK
<1>5. CASE Cancel(o)
  <2>1. execs' \subseteq Executions
    BY <1>5, AbortedInRange DEF Cancel, MemoryOK
  <2> QED BY <1>5, <2>1, SchedulerAssumption DEF Cancel, MemoryOK
<1>6. CASE Decide(o)
  <2>1. drain' \in [Owners -> Drains]
    BY <1>6, DrainUpdates DEF Decide, MemoryOK
  <2> QED BY <1>6, <2>1 DEF Decide, MemoryOK
<1>7. CASE Merge(o)
  <2>1. drain' \in [Owners -> Drains]
    BY <1>7, DrainUpdates DEF Merge, MemoryOK
  <2> QED BY <1>7, <2>1 DEF Merge, MemoryOK
<1>8. CASE SelectImage(o)
  BY <1>8 DEF SelectImage, procVars, MemoryOK
<1>9. CASE Boot(o)
  BY <1>9 DEF Boot, MemoryOK
<1>10. CASE Crash(o)
  <2>1. NoDrain \in Drains
    BY DEF NoDrain, Drains
  <2> QED BY <1>10, <2>1 DEF Crash, MemoryOK
<1>11. CASE Shutdown(o)
  <2>1. execs' \subseteq Executions
    BY <1>11, AbortedInRange DEF Shutdown, MemoryOK
  <2> QED BY <1>11, <2>1 DEF Shutdown, MemoryOK
<1>12. CASE Exit(o)
  BY <1>12 DEF Exit, MemoryOK
<1> QED
  BY <1>1, <1>2, <1>3, <1>4, <1>5, <1>6, <1>7, <1>8, <1>9, <1>10, <1>11, <1>12

\* SchedInv is inductive.
LEMMA SchedulerStepKeeps == SchedInv /\ [SchedNext]_vars => SchedInv'
<1> SUFFICES ASSUME SchedInv, [SchedNext]_vars PROVE SchedInv'
  OBVIOUS
<1>1. TypeOK' /\ FenceWhileRunning'
  BY SchedulerStepImplements, NextType, NextFence DEF SchedInv
<1>2. ASSUME NEW s \in Steps, OrphanLeaseExpires(s) \/ StalledLeaseExpires(s)
      PROVE  MemoryOK'
  BY <1>2, SchedulerAssumption
  DEF OrphanLeaseExpires, StalledLeaseExpires, procVars, SchedInv, MemoryOK
<1>3. CASE UNCHANGED vars
  BY <1>3, <1>1 DEF vars, procVars, SchedInv, MemoryOK
<1>4. CASE SchedNext
  <2>1. MemoryOK'
    BY <1>2, <1>4, DrainInRange, ExecutionInRange, ProcessInRange DEF SchedNext
  <2> QED BY <1>1, <2>1 DEF SchedInv
<1> QED BY <1>3, <1>4

\* SchedInv holds when the first process starts with the approved Run.
LEMMA SchedulerStarts == SchedInit => SchedInv
<1> SUFFICES ASSUME SchedInit PROVE SchedInv
  OBVIOUS
<1>1. TypeOK /\ FenceWhileRunning
  BY InitType DEF SchedInit, Init, FenceWhileRunning
<1>2. NoDrain \in Drains /\ LoopHead(FALSE) \in Drains
  BY DEF NoDrain, LoopHead, Drains
<1>3. MemoryOK
  <2>1. PICK o \in Owners :
          /\ proc = [p \in Owners |-> IF p = o THEN "up" ELSE "new"]
          /\ drain = [p \in Owners |-> IF p = o THEN LoopHead(FALSE) ELSE NoDrain]
    BY DEF SchedInit
  <2>2. drain \in [Owners -> Drains]
    BY <1>2, <2>1
  <2>3. stalls \in 0..MaxStalls /\ commands \in 0..MaxCommands
    BY SchedulerAssumption DEF SchedInit
  <2> QED BY <2>1, <2>2, <2>3 DEF SchedInit, MemoryOK
<1> QED BY <1>1, <1>3 DEF SchedInv

-----------------------------------------------------------------------------

\* The maps of every process hold what the Scheduler's code puts there, for
\* any number of processes, Steps, executions and faults.
THEOREM SchedulerTypeCorrect == SchedSpec => []SchedTypeOK
<1>1. SchedInv => SchedTypeOK
  BY StoreAssumption DEF SchedInv, MemoryOK, SchedTypeOK, Drains, Executions
<1> QED BY <1>1, SchedulerStarts, SchedulerStepKeeps, PTL DEF SchedSpec

\* Whatever the interleaving of drains, recoveries, stale executions, user
\* commands, overlapping processes and crashes, every write of the Scheduler
\* is a transaction of the store called as its interface allows.
THEOREM SchedulerImplementsStore == SchedSpec => ImplementsStore
<1>1. SchedInit => Init
  BY DEF SchedInit
<1> QED
  BY <1>1, SchedulerStarts, SchedulerStepKeeps, SchedulerStepImplements, PTL
  DEF SchedSpec, ImplementsStore, Spec

\* So the store's guarantees hold of the running system: no finished Run,
\* Step, gate or decision is undone by any process, however late it acts.
THEOREM SchedulerKeepsFinalStates == SchedSpec => []FinalRunIsQuiet /\ FinalStatesAbsorb
BY SchedulerImplementsStore, FinishedRunsAreQuiet, FinalStatesAreAbsorbing, PTL
DEF ImplementsStore
=============================================================================
