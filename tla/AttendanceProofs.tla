-------------------------- MODULE AttendanceProofs --------------------------
(***************************************************************************)
(* The promises of the Scheduler that relate what a process has in memory  *)
(* to the rows of the store: its executions to the fences, its drains to   *)
(* those who wait for them, its preflight to the approvals.                *)
(***************************************************************************)
EXTENDS SchedulerProofs, ReviewProofs

\* A process that runs Steps has started, so a new one finds none of its own.
OwnersStarted == \A s \in Steps : step[s] = "running" => proc[owner[s]] # "new"

\* No execution is ahead of the attempts its Step has had, and no two share one.
Numbered ==
  /\ \A e \in execs : e.attempt <= attempt[e.step]
  /\ \A e, f \in execs : e.step = f.step /\ e.attempt = f.attempt => e = f

\* RunningStepsAttended, without the uniqueness that Numbered gives.
Attended ==
  \A s \in Steps :
    step[s] = "running" /\ lease[s] = "live" /\ proc[owner[s]] = "up" =>
      \E e \in execs : e.step = s /\ HoldsStep(e)

\* A candidate is cleared by an approval, and approvals are final.
ClearedAreApproved ==
  \A o \in Owners : \A s \in drain[o].cleared :
    Preflight[s] # NoAction /\ approval[s][Preflight[s]] = "approved"

\* The inductive invariant of the processes that share a store.
AttendInv ==
  /\ SchedInv /\ ApprovalsBound
  /\ OwnersStarted /\ Numbered /\ Attended
  /\ ClearedAreApproved /\ ProtectedStartsApproved
  /\ WaitersAreServed

-----------------------------------------------------------------------------
(* What the rows of a running Step can do                                  *)

\* A Step that runs after the transaction ran before it, with the same fence.
RunsOn(t) ==
  step'[t] = "running" =>
    /\ step[t] = "running"
    /\ owner'[t] = owner[t] /\ attempt'[t] = attempt[t]
    /\ lease'[t] = "live" => lease[t] = "live"

\* Only a claim gives out a fence: a transaction that starts no attempt starts
\* no Step, and leaves the owner and the lease of a Step that goes on.
LEMMA FencesAreNotMoved ==
  ASSUME TypeOK, [Next]_storeVars, UNCHANGED attempt, NEW t \in Steps
  PROVE  RunsOn(t)
<1>1. step'[t] = "running" => step[t] = "running"
  <2>1. attempt[t] \in Nat
    BY DEF TypeOK
  <2> QED BY <2>1, AttemptsGrow
<1>2. SUFFICES ASSUME step[t] = "running", step'[t] = "running"
               PROVE  owner'[t] = owner[t] /\ (lease'[t] = "live" => lease[t] = "live")
  BY <1>1 DEF RunsOn
<1> DEFINE Kept == owner'[t] = owner[t] /\ (lease'[t] = "live" => lease[t] = "live")
<1>3. ASSUME NEW o \in Owners, NEW requested \in SUBSET Steps, claimReadySteps(o, requested)
      PROVE  Kept
  <2>1. PICK picked \in SUBSET Steps :
          /\ picked # {} /\ \A s \in picked : step[s] \in {"pending", "ready"}
          /\ FailSnapshots(picked) \/ StartSteps(o, picked)
    BY <1>3, ClaimWrites DEF ClaimableSteps
  <2>2. t \notin picked
    BY <1>2, <2>1
  <2> QED BY <2>1, <2>2 DEF FailSnapshots, StartSteps
<1>4. ASSUME NEW s \in Steps, LeaseExpires(s) PROVE Kept
  BY <1>4 DEF LeaseExpires, TypeOK
<1>5. ASSUME recoverRun PROVE Kept
  BY <1>2, <1>5 DEF recoverRun, ExpiredSteps
<1>6. ASSUME NEW o, NEW s \in Steps, NEW a, completeStep(o, s, a) \/ failStep(o, s, a)
      PROVE  Kept
  BY <1>6 DEF completeStep, failStep, FinishStep, TypeOK
<1>7. ASSUME NEW o, NEW s, NEW a, NEW v, completeReviewStep(o, s, a, v) PROVE Kept
  BY <1>2, <1>7 DEF completeReviewStep, DropFences
<1>8. ASSUME NEW o, NEW s \in Steps, NEW a, NEW act, requestApproval(s, act, o, a) PROVE Kept
  <2>1. /\ step' = [step EXCEPT ![s] = "awaitingApproval"]
        /\ owner' = [owner EXCEPT ![s] = NoOwner]
        /\ lease' = [lease EXCEPT ![s] = "none"]
    BY <1>8 DEF requestApproval, awaitStepApproval
  <2> QED BY <1>2, <2>1 DEF TypeOK
<1>9. ASSUME cancelRun PROVE Kept
  BY <1>2, <1>9 DEF cancelRun, DropFences
<1>10. ASSUME UNCHANGED fenceVars PROVE Kept
  BY <1>10 DEF fenceVars
<1>11. ASSUME \/ \E s \in Steps : prepareReviewStepForExecution(s)
              \/ \E s \in Steps : selectImage(s)
              \/ \E s \in MergeSteps :
                   mergeCleanly(s) \/ createMergeConflict(s) \/ resolveMergeConflict(s)
              \/ \E s \in Steps, act \in Actions, decision \in {"approved", "rejected"} :
                   decideApproval(s, act, decision)
              \/ pauseRun \/ resumeRun \/ UNCHANGED storeVars
       PROVE  UNCHANGED fenceVars
  BY <1>11 DEF prepareReviewStepForExecution, selectImage, mergeCleanly, createMergeConflict,
               resolveMergeConflict, completeMergeStep, decideApproval, resolveStepApproval,
               pauseRun, resumeRun, storeVars
<1> HIDE DEF Kept
<1>12. Kept
  BY <1>3, <1>4, <1>5, <1>6, <1>7, <1>8, <1>9, <1>10, <1>11 DEF Next, ExecutionOps
<1> QED BY <1>12 DEF Kept

\* The transactions that start nothing count no attempt.
LEMMA OnlyClaimsCount ==
  ASSUME \/ \E s : LeaseExpires(s)
         \/ recoverRun
         \/ \E o, s, a : completeStep(o, s, a) \/ failStep(o, s, a)
         \/ \E o, s, a, v : completeReviewStep(o, s, a, v)
         \/ \E o, s, a, act : requestApproval(s, act, o, a)
         \/ \E s : prepareReviewStepForExecution(s) \/ selectImage(s)
         \/ \E s : mergeCleanly(s) \/ createMergeConflict(s) \/ resolveMergeConflict(s)
         \/ \E s, act, decision : decideApproval(s, act, decision)
         \/ pauseRun \/ resumeRun \/ cancelRun \/ UNCHANGED storeVars
  PROVE  UNCHANGED attempt
<1>1. CASE \/ \E s : LeaseExpires(s)
           \/ recoverRun
           \/ \E o, s, a : completeStep(o, s, a) \/ failStep(o, s, a)
           \/ \E o, s, a, v : completeReviewStep(o, s, a, v)
           \/ \E o, s, a, act : requestApproval(s, act, o, a)
           \/ cancelRun
  BY <1>1 DEF LeaseExpires, recoverRun, completeStep, failStep, FinishStep, completeReviewStep,
              DropFences, requestApproval, awaitStepApproval, cancelRun
<1>2. CASE \/ \E s : prepareReviewStepForExecution(s) \/ selectImage(s)
           \/ \E s : mergeCleanly(s) \/ createMergeConflict(s) \/ resolveMergeConflict(s)
           \/ \E s, act, decision : decideApproval(s, act, decision)
           \/ pauseRun \/ resumeRun \/ UNCHANGED storeVars
  BY <1>2 DEF prepareReviewStepForExecution, selectImage, mergeCleanly, createMergeConflict,
              resolveMergeConflict, completeMergeStep, decideApproval, resolveStepApproval,
              pauseRun, resumeRun, storeVars, fenceVars
<1> QED BY <1>1, <1>2

-----------------------------------------------------------------------------
(* How the executions of a process change                                  *)

\* f is the execution e, perhaps awaited no longer.
SameExecution(e, f) ==
  f.owner = e.owner /\ f.step = e.step /\ f.attempt = e.attempt /\ (f.awaited => e.awaited)

\* The executions in rest go on, some of them marked; the others are gone.
GoOn(rest) ==
  \E mark \in [rest -> Executions] :
    /\ execs' = {mark[e] : e \in rest}
    /\ \A e \in rest : SameExecution(e, mark[e])

\* The forms in which the actions write that.
LEMMA WaysToGoOn ==
  ASSUME SchedInv, NEW rest \in SUBSET execs
  PROVE  /\ execs' = rest => GoOn(rest)
         /\ \A o : execs' = AbortedAll(o, rest) => GoOn(rest)
         /\ \A o : DrainRejects(o, rest) => GoOn(rest)
         /\ \A f \in rest : execs' = (rest \ {f}) \cup {[f EXCEPT !.aborted = TRUE]} => GoOn(rest)
<1>1. rest \subseteq Executions
  BY DEF SchedInv, MemoryOK
<1>2. ASSUME execs' = rest PROVE GoOn(rest)
  <2> DEFINE mark == [e \in rest |-> e]
  <2>1. mark \in [rest -> Executions] /\ execs' = {mark[e] : e \in rest}
    BY <1>1, <1>2
  <2>2. \A e \in rest : SameExecution(e, mark[e])
    BY DEF SameExecution
  <2> QED BY <2>1, <2>2 DEF GoOn
<1>3. ASSUME NEW o, execs' = AbortedAll(o, rest) PROVE GoOn(rest)
  <2> DEFINE mark == [e \in rest |-> [e EXCEPT !.aborted = @ \/ e.owner = o]]
  <2>1. ASSUME NEW e \in rest PROVE mark[e] \in Executions /\ SameExecution(e, mark[e])
    BY <1>1 DEF Executions, SameExecution
  <2>2. execs' = {mark[e] : e \in rest}
    BY <1>3 DEF AbortedAll
  <2>3. mark \in [rest -> Executions]
    BY <2>1
  <2> HIDE DEF mark
  <2> QED BY <2>1, <2>2, <2>3 DEF GoOn
<1>4. ASSUME NEW o, DrainRejects(o, rest) PROVE GoOn(rest)
  <2> DEFINE mark == [e \in rest |-> [e EXCEPT !.awaited = @ /\ e.owner # o]]
  <2>1. ASSUME NEW e \in rest PROVE mark[e] \in Executions /\ SameExecution(e, mark[e])
    BY <1>1 DEF Executions, SameExecution
  <2>2. execs' = {mark[e] : e \in rest}
    BY <1>4 DEF DrainRejects
  <2>3. mark \in [rest -> Executions]
    BY <2>1
  <2> HIDE DEF mark
  <2> QED BY <2>1, <2>2, <2>3 DEF GoOn
<1>5. ASSUME NEW f \in rest, execs' = (rest \ {f}) \cup {[f EXCEPT !.aborted = TRUE]}
      PROVE  GoOn(rest)
  <2> DEFINE mark == [e \in rest |-> IF e = f THEN [f EXCEPT !.aborted = TRUE] ELSE e]
  <2>1. ASSUME NEW e \in rest PROVE mark[e] \in Executions /\ SameExecution(e, mark[e])
    BY <1>1 DEF Executions, SameExecution
  <2>2. execs' = {mark[e] : e \in rest}
    BY <1>5
  <2>3. mark \in [rest -> Executions]
    BY <2>1
  <2> HIDE DEF mark
  <2> QED BY <2>1, <2>2, <2>3 DEF GoOn
<1> QED BY <1>2, <1>3, <1>4, <1>5

\* Whatever goes on was there, and is still the only one of its attempt.
LEMMA WhatGoesOn ==
  ASSUME NEW rest \in SUBSET execs, GoOn(rest)
  PROVE  /\ \A f \in execs' : \E e \in rest : SameExecution(e, f)
         /\ \A e \in rest : \E f \in execs' : SameExecution(e, f)
         /\ Numbered => \A f, h \in execs' : f.step = h.step /\ f.attempt = h.attempt => f = h
<1>1. PICK mark \in [rest -> Executions] :
        /\ execs' = {mark[e] : e \in rest}
        /\ \A e \in rest : SameExecution(e, mark[e])
  BY DEF GoOn
<1>2. ASSUME Numbered, NEW f \in execs', NEW h \in execs', f.step = h.step, f.attempt = h.attempt
      PROVE  f = h
  <2>1. PICK e \in rest : f = mark[e]
    BY <1>1
  <2>2. PICK d \in rest : h = mark[d]
    BY <1>1
  <2>3. e.step = d.step /\ e.attempt = d.attempt
    BY <1>1, <1>2, <2>1, <2>2 DEF SameExecution
  <2>4. e = d
    BY <1>2, <2>3 DEF Numbered
  <2> QED BY <2>1, <2>2, <2>4
<1> QED BY <1>1, <1>2

\* An execution may be dropped once nobody expects it to work on its Step.
MayGo(e) ==
  ~ /\ step'[e.step] = "running" /\ lease'[e.step] = "live"
    /\ owner'[e.step] = e.owner /\ attempt'[e.step] = e.attempt
    /\ proc'[e.owner] = "up"

\* A step that starts no Step: executions go on or may go, and processes only
\* start or stop.
Quiescent ==
  /\ UNCHANGED attempt
  /\ \E rest \in SUBSET execs : GoOn(rest) /\ \A e \in execs \ rest : MayGo(e)
  /\ \A o \in Owners : /\ proc'[o] = "up" => proc[o] \in {"up", "new"}
                       /\ proc'[o] = "new" => proc[o] = "new"

\* Such a step leaves every running Step with its execution.
LEMMA QuiescentAttends ==
  ASSUME AttendInv, [Next]_storeVars, Quiescent
  PROVE  OwnersStarted' /\ Numbered' /\ Attended' /\ ProtectedStartsApproved'
<1> USE DEF AttendInv
<1>1. PICK rest \in SUBSET execs : GoOn(rest) /\ \A e \in execs \ rest : MayGo(e)
  BY DEF Quiescent
<1>2. /\ \A f \in execs' : \E e \in rest : SameExecution(e, f)
      /\ \A e \in rest : \E f \in execs' : SameExecution(e, f)
      /\ \A f, h \in execs' : f.step = h.step /\ f.attempt = h.attempt => f = h
  BY <1>1, WhatGoesOn
<1>3. \A t \in Steps : RunsOn(t)
  BY FencesAreNotMoved DEF SchedInv, Quiescent
<1>4. ASSUME NEW s \in Steps, step'[s] = "running"
      PROVE  /\ step[s] = "running" /\ owner'[s] = owner[s] /\ owner[s] \in Owners
             /\ attempt'[s] = attempt[s] /\ (lease'[s] = "live" => lease[s] = "live")
  BY <1>3, <1>4 DEF RunsOn, SchedInv, FenceWhileRunning
<1>5. OwnersStarted'
  BY <1>4 DEF OwnersStarted, Quiescent
<1>6. Numbered'
  BY <1>2 DEF Numbered, SameExecution, Quiescent
<1>7. Attended'
  <2> SUFFICES ASSUME NEW s \in Steps, step'[s] = "running", lease'[s] = "live",
                      proc'[owner'[s]] = "up"
               PROVE  \E f \in execs' : f.step = s /\ HoldsStep(f)'
    BY DEF Attended
  <2>1. /\ step[s] = "running" /\ lease[s] = "live" /\ owner'[s] = owner[s]
        /\ attempt'[s] = attempt[s] /\ proc[owner[s]] = "up"
    BY <1>4 DEF OwnersStarted, Quiescent
  <2>2. PICK e \in execs : e.step = s /\ HoldsStep(e)
    BY <2>1 DEF Attended
  <2>3. ~MayGo(e)
    BY <2>1, <2>2 DEF HoldsStep, MayGo
  <2>4. PICK f \in execs' : SameExecution(e, f)
    BY <1>1, <1>2, <2>3
  <2> QED BY <2>1, <2>2, <2>4 DEF HoldsStep, SameExecution
<1>8. ProtectedStartsApproved'
  <2> SUFFICES ASSUME NEW f \in execs', Preflight[f.step] # NoAction
               PROVE  approval'[f.step][Preflight[f.step]] = "approved"
    BY DEF ProtectedStartsApproved
  <2>1. PICK e \in execs : f.step = e.step
    BY <1>2 DEF SameExecution
  <2>2. e.step \in Steps /\ Preflight[e.step] \in Actions
    BY <2>1, SchedulerAssumption DEF SchedInv, MemoryOK, Executions
  <2>3. approval[e.step][Preflight[e.step]] = "approved"
    BY <2>1 DEF ProtectedStartsApproved
  <2> QED BY <2>1, <2>2, <2>3, StepsAndApprovalsStay DEF SchedInv
<1> QED BY <1>5, <1>6, <1>7, <1>8

-----------------------------------------------------------------------------
(* Every step is quiescent, except the claim that starts Steps             *)

\* A step after which all executions go on is quiescent.
LEMMA AllGoOn ==
  ASSUME SchedInv, UNCHANGED <<attempt, proc>>, GoOn(execs)
  PROVE  Quiescent
BY DEF Quiescent, SchedInv, MemoryOK

\* The drain up to its claim only loses sight of its executions.
LEMMA DrainIsQuiescent ==
  ASSUME SchedInv, NEW o \in Owners,
         DrainLoop(o) \/ PrepareReview(o) \/ PreflightStep(o) \/ TickDone(o)
  PROVE  Quiescent
<1>1. UNCHANGED <<attempt, proc>>
  BY OnlyClaimsCount DEF DrainLoop, PrepareReview, PreflightStep, TickDone
<1>2. UNCHANGED execs \/ DrainRejects(o, execs)
  BY DEF DrainLoop, PrepareReview, PreflightStep, TickDone
<1> QED BY <1>1, <1>2, WaysToGoOn, AllGoOn

\* The claim gives each Step it starts one execution, of an attempt no other
\* has, after its protected action was approved.
LEMMA ClaimAttends ==
  ASSUME AttendInv, NEW o \in Owners, Claim(o)
  PROVE  OwnersStarted' /\ Numbered' /\ Attended' /\ ProtectedStartsApproved'
<1> DEFINE asked == drain[o].candidates
           picked == IF run \in Claimable THEN ClaimableSteps(asked) ELSE {}
<1>0. SchedInv /\ TypeOK /\ asked \subseteq Steps /\ [Next]_storeVars
  <2>1. SchedInv
    BY DEF AttendInv
  <2>2. asked \subseteq Steps
    BY <2>1 DEF SchedInv, MemoryOK, Drains
  <2> QED BY <2>1, <2>2, DrainImplements DEF SchedInv, DrainStep
<1>1. CASE UNCHANGED execs /\ (UNCHANGED storeVars \/ SomeSnapshotFails(picked))
  <2>2. UNCHANGED <<attempt, proc, execs>>
    BY <1>1 DEF Claim, SomeSnapshotFails, FailSnapshots, storeVars, fenceVars
  <2> QED BY <1>0, <2>2, WaysToGoOn, AllGoOn, QuiescentAttends
<1>2. CASE execs' = execs \cup NewExecs(o, picked) /\ StartSteps(o, picked)
  <2>1. /\ execs' = execs \cup NewExecs(o, picked) /\ StartSteps(o, picked)
        /\ UNCHANGED proc /\ proc[o] # "new" /\ Unchecked(o) = {}
    BY <1>2 DEF Claim, Alive
  <2>2. picked \subseteq asked
    BY DEF ClaimableSteps
  <2> HIDE DEF picked
  <2>3. ASSUME NEW s \in Steps
        PROVE  /\ s \in picked => /\ step'[s] = "running" /\ owner'[s] = o
                                  /\ attempt'[s] = attempt[s] + 1
               /\ s \notin picked => /\ step'[s] = step[s] /\ owner'[s] = owner[s]
                                     /\ lease'[s] = lease[s] /\ attempt'[s] = attempt[s]
    BY <2>1 DEF StartSteps
  <2>4. ASSUME NEW f \in NewExecs(o, picked)
        PROVE  /\ f.step \in picked /\ f.step \in Steps
               /\ f.owner = o /\ f.attempt = attempt[f.step] + 1
               /\ f = [owner |-> o, step |-> f.step, attempt |-> attempt[f.step] + 1,
                       awaited |-> TRUE, aborted |-> FALSE]
    BY <1>0, <2>2 DEF NewExecs
  <2>5. ASSUME NEW e \in execs
        PROVE  /\ e.step \in Steps /\ e.attempt \in Nat /\ attempt[e.step] \in Nat
               /\ e.attempt <= attempt[e.step]
    BY <1>0 DEF AttendInv, Numbered, SchedInv, MemoryOK, Executions, TypeOK
  <2>6. OwnersStarted'
    BY <2>1, <2>3 DEF OwnersStarted, AttendInv
  <2>7. Numbered'
    <3>1. ASSUME NEW f \in execs' PROVE f.attempt <= attempt'[f.step]
      <4>1. CASE f \in execs
        BY <2>3, <2>5, <4>1
      <4>2. CASE f \in NewExecs(o, picked)
        <5>1. attempt[f.step] \in Nat
          BY <1>0, <2>4, <4>2 DEF TypeOK
        <5> QED BY <2>3, <2>4, <4>2, <5>1
      <4> QED BY <2>1, <4>1, <4>2
    <3>2. ASSUME NEW f \in execs', NEW h \in execs', f.step = h.step, f.attempt = h.attempt
          PROVE  f = h
      <4>1. CASE f \in execs /\ h \in execs
        BY <3>2, <4>1 DEF AttendInv, Numbered
      <4>2. CASE f \in NewExecs(o, picked) /\ h \in NewExecs(o, picked)
        BY <2>4, <3>2, <4>2
      <4>3. CASE f \in execs /\ h \in NewExecs(o, picked)
        BY <2>4, <2>5, <3>2, <4>3
      <4>4. CASE h \in execs /\ f \in NewExecs(o, picked)
        BY <2>4, <2>5, <3>2, <4>4
      <4> QED BY <2>1, <4>1, <4>2, <4>3, <4>4
    <3> QED BY <3>1, <3>2 DEF Numbered
  <2>8. Attended'
    <3> SUFFICES ASSUME NEW s \in Steps, step'[s] = "running", lease'[s] = "live",
                        proc'[owner'[s]] = "up"
                 PROVE  \E f \in execs' : f.step = s /\ HoldsStep(f)'
      BY DEF Attended
    <3>1. CASE s \in picked
      <4>1. PICK f \in execs' : f.owner = o /\ f.step = s /\ f.attempt = attempt[s] + 1
        <5> DEFINE new == [owner |-> o, step |-> s, attempt |-> attempt[s] + 1,
                           awaited |-> TRUE, aborted |-> FALSE]
        <5>1. new \in execs'
          BY <2>1, <3>1 DEF NewExecs
        <5> QED BY <5>1
      <4>2. f.step = s /\ HoldsStep(f)'
        BY <2>3, <3>1, <4>1 DEF HoldsStep
      <4> QED BY <4>1, <4>2
    <3>2. CASE s \notin picked
      <4>1. PICK e \in execs : e.step = s /\ HoldsStep(e)
        BY <2>1, <2>3, <3>2 DEF AttendInv, Attended
      <4>2. HoldsStep(e)'
        BY <2>3, <3>2, <4>1 DEF HoldsStep
      <4> QED BY <2>1, <4>1, <4>2
    <3> QED BY <3>1, <3>2
  <2>9. ProtectedStartsApproved'
    <3>1. UNCHANGED approval
      BY <2>1 DEF StartSteps, approvalVars
    <3>2. ASSUME NEW f \in NewExecs(o, picked), Preflight[f.step] # NoAction
          PROVE  approval[f.step][Preflight[f.step]] = "approved"
      <4>1. f.step \in drain[o].cleared
        BY <2>1, <2>2, <2>4, <3>2 DEF Unchecked
      <4> QED BY <4>1 DEF AttendInv, ClearedAreApproved
    <3> QED BY <2>1, <3>1, <3>2 DEF AttendInv, ProtectedStartsApproved
  <2> QED BY <2>6, <2>7, <2>8, <2>9
<1> QED BY <1>1, <1>2 DEF Claim

\* An execution settles only when the store knows, or its process stops.
LEMMA ExecutionIsQuiescent ==
  ASSUME SchedInv, ApprovalsBound, NEW e \in execs,
         \/ ExecReturns(e) \/ ExecThrows(e)
         \/ \E act \in Actions : ExecAsks(e, act) \/ gateStepAction(e, act)
  PROVE  Quiescent
<1>1. UNCHANGED proc
  BY DEF ExecReturns, ExecThrows, ExecAsks, gateStepAction
<1>2. UNCHANGED attempt
  BY OnlyClaimsCount DEF ExecReturns, ExecThrows, ExecAsks, ExecFails, gateStepAction
<1>3. e.step \in Steps /\ TypeOK
  BY DEF SchedInv, MemoryOK, Executions
<1>4. ASSUME GoOn(execs \ {e}), MayGo(e) PROVE Quiescent
  BY <1>1, <1>2, <1>4 DEF Quiescent, SchedInv, MemoryOK
<1>5. ASSUME Discarded(e), UNCHANGED storeVars PROVE MayGo(e)
  BY <1>1, <1>5 DEF Discarded, HoldsFence, LiveFence, MayGo, storeVars, fenceVars
<1>6. ASSUME ExecFails(e) PROVE GoOn(execs \ {e}) /\ MayGo(e)
  <2>1. CASE failStep(e.owner, e.step, e.attempt)
    <3>1. step'[e.step] = "failed"
      BY <1>3, <2>1 DEF failStep, TypeOK
    <3>2. execs' = execs \ {e} \/ DrainRejects(e.owner, execs \ {e})
      BY <1>6 DEF ExecFails, ExecRejects
    <3> QED BY <3>1, <3>2, WaysToGoOn DEF MayGo
  <2>2. CASE Discarded(e) /\ UNCHANGED storeVars
    <3>1. execs' = execs \ {e} \/ DrainRejects(e.owner, execs \ {e})
      BY <1>6 DEF ExecFails, ExecRejects
    <3> QED BY <1>5, <2>2, <3>1, WaysToGoOn
  <2> QED BY <1>6, <2>1, <2>2 DEF ExecFails
<1>7. CASE ExecReturns(e)
  <2>1. GoOn(execs \ {e})
    BY <1>7, WaysToGoOn DEF ExecReturns
  <2>2. MayGo(e)
    <3>1. CASE Discarded(e) /\ UNCHANGED storeVars
      BY <1>5, <3>1
    <3>2. CASE completeStep(e.owner, e.step, e.attempt)
      BY <1>3, <3>2, CompleteStepMoves DEF MayGo
    <3>3. CASE \E v \in {"accept", "reject"} : completeReviewStep(e.owner, e.step, e.attempt, v)
      BY <1>3, <3>3, ReviewMoves DEF MayGo
    <3> QED BY <1>7, <3>1, <3>2, <3>3 DEF ExecReturns
  <2> QED BY <1>4, <2>1, <2>2
<1>8. CASE ExecThrows(e)
  BY <1>4, <1>6, <1>8 DEF ExecThrows
<1>9. ASSUME NEW act \in Actions, ExecAsks(e, act) PROVE Quiescent
  <2>1. CASE ExecFails(e)
    BY <1>4, <1>6, <2>1
  <2>2. CASE NothingToPark(e.step, act) /\ execs' = execs \ {e} /\ UNCHANGED storeVars
    <3>1. step'[e.step] # "running"
      BY <1>3, <2>2 DEF NothingToPark, ApprovalsBound, storeVars
    <3> QED BY <1>4, <2>2, <3>1, WaysToGoOn DEF MayGo
  <2>3. CASE requestApproval(e.step, act, e.owner, e.attempt) /\ execs' = execs \ {e}
    <3>1. step'[e.step] = "awaitingApproval"
      BY <1>3, <2>3 DEF requestApproval, awaitStepApproval, TypeOK
    <3> QED BY <1>4, <2>3, <3>1, WaysToGoOn DEF MayGo
  <2>4. CASE CannotPark(e.step, act, e.owner, e.attempt) /\ ExecRejects(e) /\ UNCHANGED storeVars
    <3>1. execs' = execs \ {e} \/ DrainRejects(e.owner, execs \ {e})
      BY <2>4 DEF ExecRejects
    <3>2. MayGo(e)
      BY <2>4 DEF CannotPark, MayGo, storeVars, fenceVars
    <3> QED BY <1>4, <3>1, <3>2, WaysToGoOn
  <2> QED BY <1>9, <2>1, <2>2, <2>3, <2>4 DEF ExecAsks
<1>10. ASSUME NEW act \in Actions, gateStepAction(e, act) PROVE Quiescent
  <2>1. PICK f \in execs : execs' = (execs \ {f}) \cup {[f EXCEPT !.aborted = TRUE]}
    BY <1>10 DEF gateStepAction, ExecsOf
  <2> QED BY <1>1, <1>2, <2>1, WaysToGoOn, AllGoOn
<1> QED BY <1>7, <1>8, <1>9, <1>10

\* Recoveries, commands and the life of a process start nothing.
LEMMA ProcessIsQuiescent ==
  ASSUME SchedInv, NEW o \in Owners,
         \/ recoverInternal(o) \/ RecoveryWakes(o)
         \/ Pause(o) \/ Resume(o) \/ Cancel(o) \/ Decide(o) \/ Merge(o) \/ SelectImage(o)
         \/ Boot(o) \/ Crash(o) \/ Shutdown(o) \/ Exit(o)
  PROVE  Quiescent
<1>0. proc \in [Owners -> {"new", "up", "stopping", "dead"}]
  BY DEF SchedInv, MemoryOK
<1>1. UNCHANGED attempt
  <2>1. CASE \/ recoverInternal(o) \/ RecoveryWakes(o) \/ Pause(o) \/ Resume(o) \/ Cancel(o)
             \/ Boot(o) \/ Crash(o) \/ Shutdown(o) \/ Exit(o)
    BY <2>1, OnlyClaimsCount DEF recoverInternal, RecoveryWakes, Pause, Resume, Cancel,
                                 Boot, Crash, Shutdown, Exit
  <2>2. CASE Decide(o) \/ Merge(o) \/ SelectImage(o)
    BY <2>2, OnlyClaimsCount DEF Decide, Merge, SelectImage
  <2> QED BY <2>1, <2>2
<1>2. CASE \/ recoverInternal(o) \/ RecoveryWakes(o) \/ Pause(o) \/ Resume(o)
           \/ Decide(o) \/ Merge(o) \/ SelectImage(o)
  <2>1. UNCHANGED <<proc, execs>>
    BY <1>2 DEF recoverInternal, RecoveryWakes, Pause, Resume, Decide, Merge, SelectImage, procVars
  <2> QED BY <1>1, <2>1, WaysToGoOn, AllGoOn
<1>3. CASE Cancel(o)
  <2>1. UNCHANGED proc /\ execs' = AbortedAll(o, execs)
    BY <1>3 DEF Cancel
  <2> QED BY <1>1, <2>1, WaysToGoOn, AllGoOn
<1>4. CASE Boot(o) \/ Exit(o) \/ Shutdown(o)
  <2>1. GoOn(execs)
    BY <1>4, WaysToGoOn DEF Boot, Exit, Shutdown
  <2>2. \A p \in Owners : /\ proc'[p] = "up" => proc[p] \in {"up", "new"}
                          /\ proc'[p] = "new" => proc[p] = "new"
    BY <1>0, <1>4 DEF Boot, Exit, Shutdown
  <2> QED BY <1>1, <2>1, <2>2 DEF Quiescent
<1>5. CASE Crash(o)
  <2>1. GoOn(execs \ ExecsOf(o))
    BY <1>5, WaysToGoOn DEF Crash
  <2>2. \A p \in Owners : proc'[p] = IF p = o THEN "dead" ELSE proc[p]
    BY <1>0, <1>5 DEF Crash
  <2>3. \A e \in execs \ (execs \ ExecsOf(o)) : MayGo(e)
    BY <2>2 DEF ExecsOf, MayGo
  <2> QED BY <1>0, <1>1, <2>1, <2>2, <2>3 DEF Quiescent
<1> QED BY <1>2, <1>3, <1>4, <1>5

-----------------------------------------------------------------------------
(* Preflight and waiting                                                   *)

\* What a drain has cleared when a step leaves or resets what it knows.
LEMMA ClearedStay ==
  ASSUME AttendInv, [Next]_storeVars, drain' \in [Owners -> Drains],
         \A o \in Owners : \A s \in drain'[o].cleared :
           \/ s \in drain[o].cleared
           \/ s \in Steps /\ Preflight[s] # NoAction /\ approval[s][Preflight[s]] = "approved"
  PROVE  ClearedAreApproved'
<1> SUFFICES ASSUME NEW o \in Owners, NEW s \in drain'[o].cleared
             PROVE  Preflight[s] # NoAction /\ approval'[s][Preflight[s]] = "approved"
  BY DEF ClearedAreApproved
<1>1. s \in Steps /\ Preflight[s] # NoAction /\ approval[s][Preflight[s]] = "approved"
  BY DEF AttendInv, ClearedAreApproved, SchedInv, MemoryOK, Drains
<1>2. Preflight[s] \in Actions
  BY <1>1, SchedulerAssumption
<1> QED BY <1>1, <1>2, StepsAndApprovalsStay DEF AttendInv, SchedInv

\* The drain of process o and its waiters after a step that only they take.
Served(o) ==
  /\ "draining" \in recoveries'[o] => drain'[o].phase # "idle"
  /\ \A e \in execs' : e.owner = o /\ e.awaited => drain'[o].phase = "executing"

\* A step of one process leaves the others' drains, recoveries and awaited
\* executions as they were.
LEMMA OthersAreServed ==
  ASSUME WaitersAreServed, NEW o \in Owners, Served(o),
         \A p \in Owners : p # o => drain'[p] = drain[p] /\ recoveries'[p] = recoveries[p],
         \A f \in execs' : f.owner # o => \E e \in execs : SameExecution(e, f)
  PROVE  WaitersAreServed'
<1> SUFFICES ASSUME NEW p \in Owners
             PROVE  /\ "draining" \in recoveries'[p] => drain'[p].phase # "idle"
                    /\ \A e \in execs' : e.owner = p /\ e.awaited => drain'[p].phase = "executing"
  BY DEF WaitersAreServed, ExecsOf
<1>1. CASE p = o
  BY <1>1 DEF Served
<1>2. CASE p # o
  BY <1>2 DEF WaitersAreServed, ExecsOf, SameExecution
<1> QED BY <1>1, <1>2

\* The ends of a drain: whoever waits for it is told.
LEMMA EndsServe ==
  ASSUME SchedInv, WaitersAreServed, NEW o \in Owners
  PROVE  /\ DrainResolves(o) /\ UNCHANGED execs /\ drain[o].phase # "executing" =>
              WaitersAreServed'
         /\ \A rest \in SUBSET execs : DrainRejects(o, rest) => WaitersAreServed'
<1>1. drain \in [Owners -> Drains] /\ recoveries \in [Owners -> SUBSET {"begin", "draining", "sleeping"}]
      /\ execs \subseteq Executions
  BY DEF SchedInv, MemoryOK
<1>2. ASSUME DrainResolves(o), UNCHANGED execs, drain[o].phase # "executing"
      PROVE  WaitersAreServed'
  <2>1. Served(o)
    BY <1>1, <1>2 DEF DrainResolves, Served, WaitersAreServed, ExecsOf
  <2>2. \A p \in Owners : p # o => drain'[p] = drain[p] /\ recoveries'[p] = recoveries[p]
    BY <1>1, <1>2 DEF DrainResolves
  <2> QED BY <1>2, <2>1, <2>2, OthersAreServed DEF SameExecution
<1>3. ASSUME NEW rest \in SUBSET execs, DrainRejects(o, rest) PROVE WaitersAreServed'
  <2>1. \A p \in Owners : p # o => drain'[p] = drain[p] /\ recoveries'[p] = recoveries[p]
    BY <1>1, <1>3 DEF DrainRejects
  <2>2. "draining" \notin recoveries'[o]
    BY <1>1, <1>3 DEF DrainRejects
  <2>3. ASSUME NEW f \in execs' PROVE f.owner = o => ~f.awaited
    <3>1. PICK e \in rest : f = [e EXCEPT !.awaited = @ /\ e.owner # o]
      BY <1>3 DEF DrainRejects
    <3>2. f.owner = e.owner /\ f.awaited = (e.awaited /\ e.owner # o)
      BY <1>1, <3>1 DEF Executions
    <3> QED BY <3>2
  <2>4. \A f \in execs' : \E e \in execs : SameExecution(e, f)
    BY <1>3, WaysToGoOn, WhatGoesOn
  <2> QED BY <2>1, <2>2, <2>3, <2>4, OthersAreServed DEF Served
<1> QED BY <1>2, <1>3

\* A drain that is shared or started serves a recovery that joins it.
LEMMA JoiningServes ==
  ASSUME SchedInv, WaitersAreServed, NEW o \in Owners, runUntilIdle(o), UNCHANGED execs,
         \A p \in Owners : recoveries'[p] = recoveries[p] \/ p = o
  PROVE  WaitersAreServed'
<1>1. drain \in [Owners -> Drains]
  BY DEF SchedInv, MemoryOK
<1>2. drain'[o] = IF drain[o].phase = "idle" THEN LoopHead(FALSE) ELSE drain[o]
  BY <1>1 DEF runUntilIdle
<1>3. drain'[o].phase # "idle"
  BY <1>2 DEF LoopHead, NoDrain
<1>4. Served(o)
  BY <1>2, <1>3 DEF Served, WaitersAreServed, ExecsOf
<1>5. \A p \in Owners : p # o => drain'[p] = drain[p]
  BY <1>1 DEF runUntilIdle
<1> QED BY <1>4, <1>5, OthersAreServed DEF SameExecution

\* A step that changes no drain, adds no waiter and keeps the executions.
LEMMA NobodyStartsToWait ==
  ASSUME WaitersAreServed, UNCHANGED drain, NEW rest \in SUBSET execs, GoOn(rest),
         \A o \in Owners : "draining" \in recoveries'[o] => "draining" \in recoveries[o]
  PROVE  WaitersAreServed'
<1>1. \A f \in execs' : \E e \in execs : SameExecution(e, f)
  BY WhatGoesOn
<1> SUFFICES ASSUME NEW p \in Owners
             PROVE  /\ "draining" \in recoveries'[p] => drain'[p].phase # "idle"
                    /\ \A e \in execs' : e.owner = p /\ e.awaited => drain'[p].phase = "executing"
  BY DEF WaitersAreServed, ExecsOf
<1> QED BY <1>1 DEF WaitersAreServed, ExecsOf, SameExecution

\* The drain serves its waiters from its start to its end.
LEMMA DrainServes ==
  ASSUME AttendInv, NEW o \in Owners, DrainStep(o)
  PROVE  WaitersAreServed' /\ ClearedAreApproved'
<1>0. /\ SchedInv /\ MemoryOK /\ WaitersAreServed
      /\ drain \in [Owners -> Drains] /\ drain[o] \in Drains
      /\ drain' \in [Owners -> Drains] /\ [Next]_storeVars
  <2>1. MemoryOK'
    BY DrainInRange DEF AttendInv
  <2> QED BY <2>1, DrainImplements DEF AttendInv, SchedInv, MemoryOK
<1>1. ASSUME DrainResolves(o) \/ DrainRejects(o, execs) PROVE ClearedAreApproved'
  <2>1. \A p \in Owners : drain'[p] = IF p = o THEN NoDrain ELSE drain[p]
    BY <1>0, <1>1 DEF DrainResolves, DrainRejects
  <2>2. \A p \in Owners : drain'[p].cleared \subseteq drain[p].cleared
    BY <2>1 DEF NoDrain
  <2> QED BY <1>0, <2>2, ClearedStay
<1>2. ASSUME NEW d, drain' = [drain EXCEPT ![o] = d], d.cleared \subseteq drain[o].cleared
      PROVE  ClearedAreApproved'
  <2>1. \A p \in Owners : drain'[p] = IF p = o THEN d ELSE drain[p]
    BY <1>0, <1>2
  <2>2. \A p \in Owners : drain'[p].cleared \subseteq drain[p].cleared
    BY <1>2, <2>1
  <2> QED BY <1>0, <2>2, ClearedStay
<1>3. ASSUME NEW d, drain' = [drain EXCEPT ![o] = d], d.phase # "idle",
             drain[o].phase # "executing" \/ \A e \in ExecsOf(o) : ~e.awaited,
             UNCHANGED <<recoveries, execs>>
      PROVE  WaitersAreServed'
  <2>1. \A p \in Owners : drain'[p] = IF p = o THEN d ELSE drain[p]
    BY <1>0, <1>3
  <2>2. Served(o)
    BY <1>0, <1>3, <2>1 DEF Served, WaitersAreServed, ExecsOf
  <2> QED BY <1>0, <1>3, <2>1, <2>2, OthersAreServed DEF SameExecution
<1>4. CASE DrainLoop(o)
  <2>1. CASE DrainResolves(o)
    BY <1>0, <1>1, <1>4, <2>1, EndsServe DEF DrainLoop
  <2>2. CASE drain' = [drain EXCEPT ![o].phase = "tick",
                                    ![o].candidates = readyStepIds \ MergeSteps]
             /\ UNCHANGED recoveries
    <3> DEFINE d == [drain[o] EXCEPT !.phase = "tick", !.candidates = readyStepIds \ MergeSteps]
    <3>1. drain' = [drain EXCEPT ![o] = d]
      BY <1>0, <2>2
    <3>2. d.phase = "tick" /\ d.cleared = drain[o].cleared
      BY <1>0 DEF Drains
    <3>3. UNCHANGED execs /\ drain[o].phase = "loop"
      BY <1>4 DEF DrainLoop
    <3> HIDE DEF d
    <3> QED BY <1>2, <1>3, <2>2, <3>1, <3>2, <3>3
  <2> QED BY <1>4, <2>1, <2>2 DEF DrainLoop
<1>5. CASE PrepareReview(o)
  <2>1. UNCHANGED execs /\ drain[o].phase = "tick"
    BY <1>5 DEF PrepareReview
  <2>2. CASE DrainResolves(o)
    BY <1>0, <1>1, <2>1, <2>2, EndsServe
  <2>3. CASE UNCHANGED <<drain, recoveries>>
    <3>1. WaitersAreServed'
      BY <1>0, <2>1, <2>3 DEF WaitersAreServed, ExecsOf
    <3> QED BY <1>0, <2>3, <3>1, ClearedStay
  <2> QED BY <1>5, <2>2, <2>3 DEF PrepareReview
<1>6. CASE PreflightStep(o)
  <2>1. PICK s \in Unchecked(o) :
          \/ /\ drain' = [drain EXCEPT ![o].cleared = @ \cup {s}]
             /\ approval[s][Preflight[s]] = "approved" /\ UNCHANGED <<recoveries, execs>>
          \/ drain' = [drain EXCEPT ![o].candidates = @ \ {s}] /\ UNCHANGED <<recoveries, execs>>
          \/ DrainRejects(o, execs)
    BY <1>6 DEF PreflightStep
  <2>2. drain[o].phase = "tick" /\ s \in Steps /\ Preflight[s] # NoAction
    BY <1>0, <1>6 DEF PreflightStep, Unchecked, Drains
  <2>3. CASE DrainRejects(o, execs)
    BY <1>0, <1>1, <2>3, EndsServe
  <2>4. CASE drain' = [drain EXCEPT ![o].candidates = @ \ {s}] /\ UNCHANGED <<recoveries, execs>>
    <3> DEFINE d == [drain[o] EXCEPT !.candidates = @ \ {s}]
    <3>1. drain' = [drain EXCEPT ![o] = d]
      BY <1>0, <2>4
    <3>2. d.phase = "tick" /\ d.cleared = drain[o].cleared
      BY <1>0, <2>2 DEF Drains
    <3> HIDE DEF d
    <3> QED BY <1>2, <1>3, <2>2, <2>4, <3>1, <3>2
  <2>5. CASE /\ drain' = [drain EXCEPT ![o].cleared = @ \cup {s}]
             /\ approval[s][Preflight[s]] = "approved" /\ UNCHANGED <<recoveries, execs>>
    <3> DEFINE d == [drain[o] EXCEPT !.cleared = @ \cup {s}]
    <3>1. drain' = [drain EXCEPT ![o] = d]
      BY <1>0, <2>5
    <3>2. d.phase = "tick" /\ d.cleared = drain[o].cleared \cup {s}
      BY <1>0, <2>2 DEF Drains
    <3> HIDE DEF d
    <3>3. \A p \in Owners : drain'[p] = IF p = o THEN d ELSE drain[p]
      BY <1>0, <3>1
    <3>4. ClearedAreApproved'
      BY <1>0, <2>2, <2>5, <3>2, <3>3, ClearedStay
    <3> QED BY <1>3, <2>2, <2>5, <3>1, <3>2, <3>4
  <2> QED BY <2>1, <2>3, <2>4, <2>5
<1>7. CASE Claim(o)
  <2>1. drain[o].phase = "tick"
    BY <1>7 DEF Claim
  <2>2. CASE DrainResolves(o) /\ UNCHANGED execs
    BY <1>0, <1>1, <2>1, <2>2, EndsServe
  <2>3. CASE /\ \E picked : execs' = execs \cup NewExecs(o, picked)
             /\ drain' = [drain EXCEPT ![o] = [LoopHead(TRUE) EXCEPT !.phase = "executing"]]
             /\ UNCHANGED recoveries
    <3> DEFINE d == [LoopHead(TRUE) EXCEPT !.phase = "executing"]
    <3>1. d.phase = "executing" /\ d.cleared = {}
      BY DEF LoopHead, NoDrain
    <3>2. drain' = [drain EXCEPT ![o] = d]
      BY <2>3
    <3> HIDE DEF d
    <3>3. ClearedAreApproved'
      BY <1>2, <3>1, <3>2
    <3>4. drain'[o] = d /\ \A p \in Owners : p # o => drain'[p] = drain[p]
      BY <1>0, <3>2
    <3>5. \A f \in execs' : f.owner # o => f \in execs
      BY <2>3 DEF NewExecs
    <3>6. Served(o)
      BY <3>1, <3>4 DEF Served
    <3> QED BY <1>0, <2>3, <3>3, <3>4, <3>5, <3>6, OthersAreServed DEF SameExecution
  <2> QED BY <1>7, <2>2, <2>3 DEF Claim
<1>8. CASE TickDone(o)
  <2> DEFINE d == [drain[o] EXCEPT !.phase = "loop"]
  <2>1. drain' = [drain EXCEPT ![o] = d]
    BY <1>0, <1>8 DEF TickDone
  <2>2. d.phase = "loop" /\ d.cleared = drain[o].cleared
    BY <1>0 DEF Drains
  <2>3. UNCHANGED <<recoveries, execs>> /\ \A e \in ExecsOf(o) : ~e.awaited
    BY <1>8 DEF TickDone
  <2> HIDE DEF d
  <2> QED BY <1>2, <1>3, <2>1, <2>2, <2>3
<1> QED BY <1>4, <1>5, <1>6, <1>7, <1>8 DEF DrainStep

\* A drain that nobody restarts keeps what it has cleared.
LEMMA DrainUntouched ==
  ASSUME AttendInv, [Next]_storeVars, UNCHANGED drain
  PROVE  ClearedAreApproved'
BY ClearedStay DEF AttendInv, SchedInv, MemoryOK

\* An execution that settles lets its drain go on, or takes it with it.
LEMMA ExecutionServes ==
  ASSUME AttendInv, NEW e \in execs,
         \/ ExecReturns(e) \/ ExecThrows(e)
         \/ \E act \in Actions : ExecAsks(e, act) \/ gateStepAction(e, act)
  PROVE  WaitersAreServed' /\ ClearedAreApproved'
<1>0. SchedInv /\ WaitersAreServed /\ [Next]_storeVars /\ e.owner \in Owners
  BY ExecutionImplements DEF AttendInv, SchedInv, MemoryOK, Executions
<1>1. CASE UNCHANGED <<drain, recoveries>>
  <2>1. PICK rest \in SUBSET execs : GoOn(rest)
    BY ExecutionIsQuiescent DEF AttendInv, Quiescent
  <2> QED BY <1>0, <1>1, <2>1, NobodyStartsToWait, DrainUntouched
<1>2. CASE DrainRejects(e.owner, execs \ {e})
  <2>1. drain \in [Owners -> Drains]
    BY <1>0 DEF SchedInv, MemoryOK
  <2>2. \A p \in Owners : drain'[p] = IF p = e.owner THEN NoDrain ELSE drain[p]
    BY <1>2, <2>1 DEF DrainRejects
  <2>3. \A p \in Owners : drain'[p].cleared \subseteq drain[p].cleared
    BY <2>2 DEF NoDrain
  <2>4. drain' \in [Owners -> Drains]
    BY ExecutionInRange DEF AttendInv, MemoryOK
  <2> QED BY <1>0, <1>2, <2>3, <2>4, EndsServe, ClearedStay
<1>3. UNCHANGED <<drain, recoveries>> \/ DrainRejects(e.owner, execs \ {e})
  BY DEF ExecReturns, ExecThrows, ExecAsks, ExecFails, ExecRejects, gateStepAction
<1> QED BY <1>1, <1>2, <1>3

\* A recovery waits for a drain it has started or found; commands restart
\* idle drains only; a process that goes takes its waiters along.
LEMMA ProcessServes ==
  ASSUME AttendInv, NEW o \in Owners,
         \/ recoverInternal(o) \/ RecoveryWakes(o)
         \/ Pause(o) \/ Resume(o) \/ Cancel(o) \/ Decide(o) \/ Merge(o) \/ SelectImage(o)
         \/ Boot(o) \/ Crash(o) \/ Shutdown(o) \/ Exit(o)
  PROVE  WaitersAreServed' /\ ClearedAreApproved'
<1>0. /\ SchedInv /\ WaitersAreServed /\ [Next]_storeVars
      /\ drain \in [Owners -> Drains] /\ drain' \in [Owners -> Drains]
      /\ recoveries \in [Owners -> SUBSET {"begin", "draining", "sleeping"}]
  <2>1. MemoryOK'
    BY ProcessInRange DEF AttendInv
  <2> QED BY <2>1, ProcessImplements DEF AttendInv, SchedInv, MemoryOK
<1>1. PICK rest \in SUBSET execs : GoOn(rest)
  BY ProcessIsQuiescent DEF AttendInv, Quiescent
<1>2. ASSUME UNCHANGED drain,
             \A p \in Owners : "draining" \in recoveries'[p] => "draining" \in recoveries[p]
      PROVE  WaitersAreServed' /\ ClearedAreApproved'
  BY <1>0, <1>1, <1>2, NobodyStartsToWait, DrainUntouched
<1>3. ASSUME runUntilIdle(o), UNCHANGED execs,
             \A p \in Owners : recoveries'[p] = recoveries[p] \/ p = o
      PROVE  WaitersAreServed' /\ ClearedAreApproved'
  <2>1. \A p \in Owners : drain'[p] = IF p = o /\ drain[o].phase = "idle"
                                      THEN LoopHead(FALSE) ELSE drain[p]
    BY <1>0, <1>3 DEF runUntilIdle
  <2>2. \A p \in Owners : drain'[p].cleared \subseteq drain[p].cleared
    BY <2>1 DEF LoopHead, NoDrain
  <2> QED BY <1>0, <1>3, <2>2, ClearedStay, JoiningServes
<1>4. CASE recoverInternal(o)
  <2>1. UNCHANGED execs /\ \A p \in Owners : p # o => recoveries'[p] = recoveries[p]
    BY <1>0, <1>4 DEF recoverInternal
  <2>2. CASE runUntilIdle(o)
    BY <1>3, <2>1, <2>2
  <2>3. CASE recoveries' = [recoveries EXCEPT ![o] = @ \ {"begin"}] /\ UNCHANGED drain
    BY <1>0, <1>2, <2>3
  <2> QED BY <1>4, <2>2, <2>3 DEF recoverInternal
<1>5. CASE RecoveryWakes(o) \/ Resume(o) \/ Boot(o) \/ Shutdown(o)
  <2>1. \A p \in Owners : "draining" \in recoveries'[p] => "draining" \in recoveries[p]
    BY <1>0, <1>5 DEF RecoveryWakes, Resume, Boot, Shutdown
  <2> QED BY <1>2, <1>5, <2>1 DEF RecoveryWakes, Resume, Boot, Shutdown
<1>6. CASE Pause(o) \/ Cancel(o) \/ SelectImage(o) \/ Exit(o)
  BY <1>2, <1>6 DEF Pause, Cancel, SelectImage, Exit, procVars
<1>7. CASE Decide(o) \/ Merge(o)
  <2>1. UNCHANGED <<recoveries, execs>>
    BY <1>7 DEF Decide, Merge
  <2>2. runUntilIdle(o) \/ UNCHANGED drain
    BY <1>7 DEF Decide, Merge
  <2> QED BY <1>2, <1>3, <2>1, <2>2
<1>8. CASE Crash(o)
  <2>1. \A p \in Owners : /\ drain'[p] = IF p = o THEN NoDrain ELSE drain[p]
                          /\ recoveries'[p] = IF p = o THEN {} ELSE recoveries[p]
    BY <1>0, <1>8 DEF Crash
  <2>2. \A p \in Owners : drain'[p].cleared \subseteq drain[p].cleared
    BY <2>1 DEF NoDrain
  <2>3. execs' = execs \ ExecsOf(o)
    BY <1>8 DEF Crash
  <2>4. Served(o)
    BY <2>1, <2>3 DEF Served, ExecsOf
  <2>5. WaitersAreServed'
    BY <1>0, <2>1, <2>3, <2>4, OthersAreServed DEF SameExecution
  <2> QED BY <1>0, <2>2, <2>5, ClearedStay
<1> QED BY <1>4, <1>5, <1>6, <1>7, <1>8

\* A lease that expires changes nothing a process has in memory.
LEMMA LeaseLeavesMemory ==
  ASSUME AttendInv, NEW s \in Steps, OrphanLeaseExpires(s) \/ StalledLeaseExpires(s)
  PROVE  Quiescent /\ WaitersAreServed' /\ ClearedAreApproved'
<1>0. SchedInv /\ WaitersAreServed
  BY DEF AttendInv
<1>1. LeaseExpires(s) /\ UNCHANGED <<proc, drain, recoveries, execs>>
  BY DEF OrphanLeaseExpires, StalledLeaseExpires, procVars
<1>2. UNCHANGED attempt /\ [Next]_storeVars
  BY <1>1, OnlyClaimsCount DEF Next
<1>3. GoOn(execs)
  BY <1>0, <1>1, WaysToGoOn
<1> QED BY <1>0, <1>1, <1>2, <1>3, AllGoOn, NobodyStartsToWait, DrainUntouched

-----------------------------------------------------------------------------

\* AttendInv is inductive.
LEMMA AttendNext == AttendInv /\ [SchedNext]_vars => AttendInv'
<1> SUFFICES ASSUME AttendInv, [SchedNext]_vars PROVE AttendInv'
  OBVIOUS
<1>1. SchedInv' /\ [Next]_storeVars
  BY SchedulerStepKeeps, SchedulerStepImplements DEF AttendInv
<1>2. ApprovalsBound'
  BY <1>1, NextApprovals DEF AttendInv, SchedInv
<1> DEFINE Rest == /\ OwnersStarted' /\ Numbered' /\ Attended' /\ ProtectedStartsApproved'
                   /\ WaitersAreServed' /\ ClearedAreApproved'
<1>3. ASSUME NEW o \in Owners, DrainStep(o) PROVE Rest
  BY <1>1, <1>3, DrainServes, DrainIsQuiescent, QuiescentAttends, ClaimAttends
  DEF DrainStep, AttendInv
<1>4. ASSUME NEW o \in Owners,
             \/ recoverInternal(o) \/ RecoveryWakes(o)
             \/ Pause(o) \/ Resume(o) \/ Cancel(o) \/ Decide(o) \/ Merge(o) \/ SelectImage(o)
             \/ Boot(o) \/ Crash(o) \/ Shutdown(o) \/ Exit(o)
      PROVE  Rest
  <2>1. Quiescent
    BY <1>4, ProcessIsQuiescent DEF AttendInv
  <2>2. WaitersAreServed' /\ ClearedAreApproved'
    BY <1>4, ProcessServes
  <2> QED BY <1>1, <2>1, <2>2, QuiescentAttends
<1>5. ASSUME NEW e \in execs,
             \/ ExecReturns(e) \/ ExecThrows(e)
             \/ \E act \in Actions : ExecAsks(e, act) \/ gateStepAction(e, act)
      PROVE  Rest
  <2>1. Quiescent
    BY <1>5, ExecutionIsQuiescent DEF AttendInv
  <2>2. WaitersAreServed' /\ ClearedAreApproved'
    BY <1>5, ExecutionServes
  <2> QED BY <1>1, <2>1, <2>2, QuiescentAttends
<1>6. ASSUME NEW s \in Steps, OrphanLeaseExpires(s) \/ StalledLeaseExpires(s) PROVE Rest
  BY <1>1, <1>6, LeaseLeavesMemory, QuiescentAttends
<1>7. ASSUME UNCHANGED vars PROVE Rest
  <2>1. UNCHANGED <<storeVars, proc, drain, recoveries, execs>>
    BY <1>7 DEF vars, procVars
  <2>2. UNCHANGED attempt
    BY <2>1, OnlyClaimsCount
  <2>3. SchedInv /\ WaitersAreServed /\ GoOn(execs)
    BY <2>1, WaysToGoOn DEF AttendInv
  <2>4. Quiescent
    BY <2>1, <2>2, <2>3, AllGoOn
  <2> QED BY <1>1, <2>1, <2>3, <2>4, QuiescentAttends, NobodyStartsToWait, DrainUntouched
<1> HIDE DEF Rest
<1>8. Rest
  BY <1>3, <1>4, <1>5, <1>6, <1>7 DEF SchedNext
<1> QED BY <1>1, <1>2, <1>8 DEF Rest, AttendInv

\* The first process starts with nothing running.
LEMMA AttendInit == SchedInit => AttendInv
<1> SUFFICES ASSUME SchedInit PROVE AttendInv
  OBVIOUS
<1>1. SchedInv
  BY SchedulerStarts
<1>2. \A s \in Steps : step[s] \in {"pending", "absent"}
  BY DEF SchedInit, Init
<1>3. ApprovalsBound
  BY <1>2 DEF SchedInit, Init, ApprovalsBound
<1>4. OwnersStarted /\ Attended
  BY <1>2 DEF OwnersStarted, Attended
<1>5. execs = {} /\ \A o \in Owners : recoveries[o] = {}
  BY DEF SchedInit
<1>6. Numbered /\ ProtectedStartsApproved /\ WaitersAreServed
  BY <1>5 DEF Numbered, ProtectedStartsApproved, WaitersAreServed, ExecsOf
<1>7. \A o \in Owners : drain[o].cleared = {}
  BY DEF SchedInit, LoopHead, NoDrain
<1>8. ClearedAreApproved
  BY <1>7 DEF ClearedAreApproved
<1> QED BY <1>1, <1>3, <1>4, <1>6, <1>8 DEF AttendInv

\* AttendInv always holds.
LEMMA AlwaysAttended == SchedSpec => []AttendInv
BY AttendInit, AttendNext, PTL DEF SchedSpec

\* While its process is up and its lease lives, a running Step has exactly one
\* execution, however drains, recoveries, aborts, crashes and overlapping
\* processes interleave (tick, executeClaimedStep, gateStepAction, shutdown).
THEOREM StepsAreAttended == SchedSpec => []RunningStepsAttended
<1>1. AttendInv => RunningStepsAttended
  <2> SUFFICES ASSUME AttendInv, NEW s \in Steps, step[s] = "running", lease[s] = "live",
                      proc[owner[s]] = "up"
               PROVE  Cardinality({e \in execs : e.step = s /\ HoldsStep(e)}) = 1
    BY DEF RunningStepsAttended
  <2>1. PICK e \in execs : e.step = s /\ HoldsStep(e)
    BY DEF AttendInv, Attended
  <2>2. {f \in execs : f.step = s /\ HoldsStep(f)} = {e}
    BY <2>1 DEF AttendInv, Numbered, HoldsStep
  <2> QED BY <2>2, FS_Singleton
<1> QED BY <1>1, AlwaysAttended, PTL

\* No Step whose executor announces a protected action is executed before the
\* user approved it: what a drain reads before its awaits may be stale, but an
\* approval it has seen is final (filterProtectedSteps, claimReadySteps).
THEOREM PreflightHolds == SchedSpec => []ProtectedStartsApproved
<1>1. AttendInv => ProtectedStartsApproved
  BY DEF AttendInv
<1> QED BY <1>1, AlwaysAttended, PTL

\* Nobody waits for a promise that has settled: a recovery that waits has a
\* drain, a drain that waits has executions, and whatever ends one of them
\* ends the wait (runUntilIdle, recoverInternal, DrainRejects, Crash).
THEOREM NobodyWaitsInVain == SchedSpec => []WaitersAreServed
<1>1. AttendInv => WaitersAreServed
  BY DEF AttendInv
<1> QED BY <1>1, AlwaysAttended, PTL

\* The gates of the store hold in the running system: no schedule of any
\* number of processes releases a Step past a gate or loses a review.
THEOREM SchedulerKeepsGates == SchedSpec => [](GateBarrier /\ ReviewTrail /\ OneReviewUnderWay)
BY SchedulerImplementsStore, GatesHoldTheLine, GatesFollowEvidence, ReviewsAreNeverLost, PTL
DEF ImplementsStore
=============================================================================
