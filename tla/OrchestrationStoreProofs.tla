---------------------- MODULE OrchestrationStoreProofs ----------------------
(***************************************************************************)
(* Proofs about OrchestrationStore, for every plan, set of gates, owners   *)
(* and actions RunGraph and OrchestrationStore assume.                     *)
(***************************************************************************)
EXTENDS OrchestrationStore, TLAPS

-----------------------------------------------------------------------------
(* Type correctness                                                        *)

\* The tables of Step states.
StepRows == [Steps -> StepStates]

\* releaseEligiblePendingSteps writes states of the schema only.
LEMMA ReleaseType ==
  ASSUME NEW st \in StepRows, NEW gt
  PROVE  releaseEligiblePendingSteps(st, gt) \in StepRows
BY DEF releaseEligiblePendingSteps, StepRows, StepStates, Unfinished

\* The rewrites of the Step rows the other transactions share.
LEMMA RewriteType ==
  ASSUME NEW st \in StepRows, NEW new
  PROVE  /\ MakeReady(st, new) \in StepRows
         /\ CancelUnfinished(st) \in StepRows
         /\ \A s : [st EXCEPT ![s] = "completed"] \in StepRows
BY DEF MakeReady, CancelUnfinished, StepRows, StepStates, Unfinished

\* An event is counted once, whatever its type.
LEMMA EndedType ==
  ASSUME NEW outcome, TypeOK, WriteEnd(outcome)
  PROVE  ended' \in [Terminal -> Nat]
BY DEF WriteEnd, TypeOK

\* Where the Run can go when a transaction ends it or moves it.
LEMMA RunType ==
  ASSUME TypeOK, NEW r \in RunStates, NEW outcome
  PROVE  /\ EndRun(r, outcome) => run' \in RunStates /\ ended' \in [Terminal -> Nat]
         /\ outcome \in RunStates /\ MoveRun(r, outcome) =>
              run' \in RunStates /\ ended' \in [Terminal -> Nat]
         /\ outcome \in RunStates => transitionRunState(r, outcome) \in RunStates
BY EndedType DEF EndRun, MoveRun, RunStates, Terminal, transitionRunState

\* The rows plan.approve inserts are well formed.
LEMMA InitType == Init => TypeOK
BY DEF Init, TypeOK, RunStates, Claimable, StepStates, Unfinished, Terminal

\* completeStep keeps the types.
LEMMA CompleteStepType ==
  ASSUME TypeOK, NEW o, NEW s \in Steps, NEW a, completeStep(o, s, a)
  PROVE  TypeOK'
<1> DEFINE new == derivedReviewers(s)
           r == IF new = {} THEN run ELSE transitionRunState(run, "reviewing")
           st == releaseEligiblePendingSteps(
                   MakeReady([step EXCEPT ![s] = "completed"], new), gate)
<1>1. st \in StepRows
  BY ReleaseType, RewriteType DEF TypeOK, StepRows
<1>2. r \in RunStates
  BY RunType DEF TypeOK, RunStates, Claimable
<1>3. step' = st /\ EndRun(r, AfterCompletion(r, st))
  BY DEF completeStep
<1>4. run' \in RunStates /\ ended' \in [Terminal -> Nat]
  BY <1>2, <1>3, RunType
<1>5. lease' \in [Steps -> {"none", "live", "expired"}] /\ UNCHANGED <<owner, attempt>>
  BY DEF completeStep, FinishStep, TypeOK
<1>6. UNCHANGED <<reviewVars, approvalVars, conflict>>
  BY DEF completeStep
<1> HIDE DEF new, r, st
<1> QED
  BY <1>1, <1>3, <1>4, <1>5, <1>6 DEF TypeOK, StepRows, reviewVars, approvalVars

\* A claim fails some of the Steps it may claim over their snapshots, or starts
\* all of them.
LEMMA ClaimWrites ==
  ASSUME NEW o, NEW requested, claimReadySteps(o, requested)
  PROVE  /\ run \in Claimable
         /\ \E picked \in SUBSET ClaimableSteps(requested) :
              picked # {} /\ (FailSnapshots(picked) \/ StartSteps(o, picked))
<1> DEFINE all == ClaimableSteps(requested)
<1>1. CASE SomeSnapshotFails(all)
  BY <1>1 DEF SomeSnapshotFails, claimReadySteps
<1>2. CASE StartSteps(o, all)
  BY <1>2 DEF StartSteps, claimReadySteps
<1> QED BY <1>1, <1>2 DEF claimReadySteps

\* Claims, lease expiry and recovery keep the types.
LEMMA LeaseType ==
  ASSUME TypeOK
  PROVE  /\ \A o \in Owners, requested \in SUBSET Steps :
              claimReadySteps(o, requested) => TypeOK'
         /\ \A s \in Steps : LeaseExpires(s) => TypeOK'
         /\ recoverRun => TypeOK'
<1>1. ASSUME NEW o \in Owners, NEW picked, FailSnapshots(picked)
      PROVE  TypeOK'
  <2>1. ended' \in [Terminal -> Nat]
    BY <1>1, EndedType DEF FailSnapshots
  <2>2. step' \in StepRows /\ run' \in RunStates
    BY <1>1 DEF FailSnapshots, TypeOK, StepRows, StepStates, RunStates, Terminal
  <2> QED
    BY <1>1, <2>1, <2>2 DEF FailSnapshots, TypeOK, StepRows, reviewVars, approvalVars
<1>2. ASSUME NEW o \in Owners, NEW picked, run \in Claimable, StartSteps(o, picked)
      PROVE  TypeOK'
  <2>1. step' \in StepRows /\ run' \in RunStates
    BY <1>2 DEF StartSteps, TypeOK, StepRows, StepStates, Unfinished, RunStates, Claimable
  <2>2. attempt' \in [Steps -> Nat]
    BY <1>2 DEF StartSteps, TypeOK
  <2> QED
    BY <1>2, <2>1, <2>2 DEF StartSteps, TypeOK, StepRows, reviewVars, approvalVars
<1>3. ASSUME NEW s \in Steps, LeaseExpires(s) PROVE TypeOK'
  BY <1>3 DEF LeaseExpires, TypeOK, reviewVars, approvalVars
<1>4. ASSUME recoverRun PROVE TypeOK'
  BY <1>4 DEF recoverRun, TypeOK, reviewVars, approvalVars, StepStates, Unfinished
<1> QED
  BY <1>1, <1>2, <1>3, <1>4, ClaimWrites

\* failStep keeps the types.
LEMMA FailStepType ==
  ASSUME TypeOK, NEW o, NEW s \in Steps, NEW a, failStep(o, s, a)
  PROVE  TypeOK'
<1>1. run' \in RunStates /\ ended' \in [Terminal -> Nat]
  BY RunType DEF failStep, TypeOK
<1> QED
  BY <1>1 DEF failStep, FinishStep, TypeOK, reviewVars, approvalVars, StepStates

\* Every verdict on a review keeps the types.
LEMMA ReviewType ==
  ASSUME TypeOK, NEW o, NEW s \in Steps, NEW a, NEW v \in {"accept", "reject"},
         completeReviewStep(o, s, a, v)
  PROVE  TypeOK'
<1>1. PICK g \in Gates :
        /\ \/ acceptReview(g, s)
           \/ rejectForRework(g, s) \/ applyReviewLimit(g, s)
        /\ verdict' = [verdict EXCEPT ![s] = v]
        /\ DropFences(step')
        /\ UNCHANGED <<selected, frozen, approvalVars, conflict>>
  BY DEF completeReviewStep
<1> DEFINE Rows == /\ step' \in StepRows
                   /\ run' \in RunStates /\ ended' \in [Terminal -> Nat]
                   /\ gate' \in [Gates -> {"active", "accepted", "limit-reached"}]
                   /\ reassigned' \in [Gates -> BOOLEAN]
<1>2. ASSUME acceptReview(g, s) PROVE Rows
  <2> DEFINE gt == [gate EXCEPT ![g] = "accepted"]
             st == releaseEligiblePendingSteps([step EXCEPT ![s] = "completed"], gt)
             target == AfterAcceptance(st, gt)
  <2>1. st \in StepRows
    BY ReleaseType, RewriteType DEF TypeOK, StepRows
  <2>2. target \in RunStates
    BY DEF AfterAcceptance, TypeOK, RunStates, Claimable, Terminal
  <2>3. step' = st /\ gate' = gt /\ UNCHANGED reassigned
        /\ MoveRun(run, transitionRunState(run, target))
    BY <1>2 DEF acceptReview
  <2>4. transitionRunState(run, target) \in RunStates
    BY <2>2, RunType DEF TypeOK
  <2>5. run' \in RunStates /\ ended' \in [Terminal -> Nat]
    BY <2>3, <2>4, RunType DEF TypeOK
  <2>6. gt \in [Gates -> {"active", "accepted", "limit-reached"}]
    BY DEF TypeOK
  <2> QED BY <2>1, <2>3, <2>5, <2>6 DEF TypeOK
<1>3. ASSUME NEW new, NEW target \in {"revising", "reviewing"}, DeriveNext(s, new, target)
      PROVE  step' \in StepRows /\ run' \in RunStates /\ ended' \in [Terminal -> Nat]
  <2>1. step' \in StepRows
    BY <1>3, RewriteType DEF DeriveNext, TypeOK, StepRows
  <2>2. transitionRunState(run, target) \in RunStates
    BY RunType DEF TypeOK, RunStates, Claimable
  <2> QED BY <1>3, <2>1, <2>2, RunType DEF DeriveNext, TypeOK
<1>4. ASSUME rejectForRework(g, s) PROVE Rows
  BY <1>3, <1>4 DEF rejectForRework, TypeOK
<1>5. ASSUME reassignReview(g, s) PROVE Rows
  BY <1>3, <1>5 DEF reassignReview, TypeOK
<1>6. ASSUME abortAtLimit(g, s) PROVE Rows
  <2>1. step' \in StepRows
    BY <1>6, RewriteType DEF abortAtLimit, TypeOK, StepRows
  <2> QED BY <1>6, <2>1, RunType DEF abortAtLimit, ReachLimit, TypeOK, RunStates, Terminal
<1>7. ASSUME pauseAtLimit(g, s) PROVE Rows
  <2>1. step' \in StepRows
    BY <1>7, RewriteType DEF pauseAtLimit, TypeOK, StepRows
  <2> QED BY <1>7, <2>1, RunType DEF pauseAtLimit, ReachLimit, TypeOK, RunStates
<1>8. Rows
  BY <1>1, <1>2, <1>4, <1>5, <1>6, <1>7 DEF applyReviewLimit
<1>9. /\ verdict' \in [Steps -> {"none", "accept", "reject"}]
      /\ owner' \in [Steps -> Owners \cup {NoOwner}]
      /\ lease' \in [Steps -> {"none", "live", "expired"}]
      /\ attempt' = attempt
  BY <1>1 DEF TypeOK, DropFences
<1> QED
  BY <1>1, <1>8, <1>9 DEF TypeOK, StepRows, approvalVars

\* Merges keep the types.
LEMMA MergeType ==
  ASSUME TypeOK, NEW s \in MergeSteps,
         mergeCleanly(s) \/ createMergeConflict(s) \/ resolveMergeConflict(s)
  PROVE  TypeOK'
<1>1. CASE createMergeConflict(s)
  BY <1>1 DEF createMergeConflict, TypeOK, reviewVars, approvalVars, fenceVars, RunStates
<1>2. ASSUME completeMergeStep(s)
      PROVE  step' \in StepRows /\ run' \in RunStates /\ ended' \in [Terminal -> Nat]
  <2> DEFINE st == releaseEligiblePendingSteps([step EXCEPT ![s] = "completed"], gate)
  <2>1. st \in StepRows
    BY ReleaseType, RewriteType DEF TypeOK, StepRows
  <2>2. step' = st
    BY <1>2 DEF completeMergeStep
  <2>3. EndRun(run, "completed") \/ UNCHANGED <<run, ended>>
    BY <1>2 DEF completeMergeStep
  <2> QED BY <2>1, <2>2, <2>3, RunType DEF TypeOK
<1>3. CASE mergeCleanly(s)
  BY <1>2, <1>3 DEF mergeCleanly, completeMergeStep, TypeOK, StepRows, reviewVars, approvalVars,
                    fenceVars
<1>4. CASE resolveMergeConflict(s)
  <2>1. CASE completeMergeStep(s)
    BY <1>2, <1>4, <2>1 DEF resolveMergeConflict, completeMergeStep, TypeOK, StepRows,
                            reviewVars, approvalVars, fenceVars
  <2>2. CASE UNCHANGED <<run, step, ended, fenceVars, reviewVars, approvalVars>>
    BY <1>4, <2>2 DEF resolveMergeConflict, TypeOK, reviewVars, approvalVars, fenceVars
  <2> QED BY <1>4, <2>1, <2>2 DEF resolveMergeConflict
<1> QED BY <1>1, <1>3, <1>4

\* Requests and decisions of approvals keep the types.
LEMMA ApprovalType ==
  ASSUME TypeOK, NEW s \in Steps, NEW act \in Actions
  PROVE  /\ \A o, a : requestApproval(s, act, o, a) => TypeOK'
         /\ \A decision \in {"approved", "rejected"} :
              decideApproval(s, act, decision) => TypeOK'
<1>1. ASSUME NEW o, NEW a, requestApproval(s, act, o, a) PROVE TypeOK'
  <2>1. approval' \in [Steps -> [Actions -> {"none", "pending", "approved", "rejected"}]]
    BY <1>1 DEF requestApproval, TypeOK
  <2> QED
    BY <1>1, <2>1 DEF requestApproval, awaitStepApproval, TypeOK, reviewVars, StepStates,
                      Unfinished, RunStates
<1>2. ASSUME NEW decision \in {"approved", "rejected"}, decideApproval(s, act, decision)
      PROVE  TypeOK'
  <2>1. approval' \in [Steps -> [Actions -> {"none", "pending", "approved", "rejected"}]]
    BY <1>2 DEF decideApproval, TypeOK
  <2>2. AfterDecision(step', decision) \in RunStates
    BY DEF AfterDecision, TypeOK, RunStates, Claimable, Terminal
  <2>3. run' \in RunStates /\ ended' \in [Terminal -> Nat]
    BY <1>2, <2>2, RunType DEF decideApproval, resolveStepApproval, TypeOK
  <2>4. step' \in StepRows
    BY <1>2 DEF decideApproval, resolveStepApproval, TypeOK, StepRows, StepStates, Unfinished
  <2> QED
    BY <1>2, <2>1, <2>3, <2>4 DEF decideApproval, resolveStepApproval, TypeOK, StepRows,
                                  reviewVars, fenceVars
<1> QED BY <1>1, <1>2

\* Pausing, resuming, cancelling and image selection keep the types.
LEMMA ControlType ==
  ASSUME TypeOK
  PROVE  /\ pauseRun => TypeOK'
         /\ resumeRun => TypeOK'
         /\ cancelRun => TypeOK'
         /\ \A s \in Steps : prepareReviewStepForExecution(s) => TypeOK'
         /\ \A t \in Steps : selectImage(t) => TypeOK'
<1>1. ASSUME pauseRun PROVE TypeOK'
  BY <1>1 DEF pauseRun, TypeOK, reviewVars, approvalVars, fenceVars, RunStates
<1>2. ASSUME resumeRun PROVE TypeOK'
  <2>1. PICK target \in ResumeTargets : MoveRun(run, target)
    BY <1>2 DEF resumeRun
  <2>2. target \in RunStates
    BY <2>1 DEF ResumeTargets, RunStates, Claimable, Terminal
  <2>3. run' \in RunStates /\ ended' \in [Terminal -> Nat]
    BY <2>1, <2>2, RunType DEF TypeOK
  <2> QED BY <1>2, <2>3 DEF resumeRun, TypeOK, reviewVars, approvalVars, fenceVars
<1>3. ASSUME cancelRun PROVE TypeOK'
  <2>1. step' \in StepRows
    BY <1>3, RewriteType DEF cancelRun, TypeOK, StepRows
  <2>2. run' \in RunStates /\ ended' \in [Terminal -> Nat]
    BY <1>3, RunType DEF cancelRun, TypeOK, RunStates, Terminal
  <2> QED
    BY <1>3, <2>1, <2>2 DEF cancelRun, DropFences, TypeOK, StepRows, reviewVars, approvalVars
<1>4. ASSUME NEW s \in Steps, prepareReviewStepForExecution(s) PROVE TypeOK'
  BY <1>4 DEF prepareReviewStepForExecution, TypeOK, approvalVars, fenceVars, RunStates
<1>5. ASSUME NEW g \in Steps, selectImage(g) PROVE TypeOK'
  BY <1>5 DEF selectImage, TypeOK, approvalVars, fenceVars
<1> QED BY <1>1, <1>2, <1>3, <1>4, <1>5

\* Every transaction keeps the types.
LEMMA NextType == TypeOK /\ [Next]_storeVars => TypeOK'
<1> SUFFICES ASSUME TypeOK, [Next]_storeVars PROVE TypeOK'
  OBVIOUS
<1>1. CASE UNCHANGED storeVars
  BY <1>1 DEF TypeOK, storeVars, fenceVars, reviewVars, approvalVars
<1>2. ASSUME NEW o \in Owners, NEW s \in Steps, NEW a \in 1..MaxAttempts,
             ExecutionOps(o, s, a)
      PROVE  TypeOK'
  BY <1>2, CompleteStepType, FailStepType, ReviewType, ApprovalType DEF ExecutionOps
<1> QED
  BY <1>1, <1>2, LeaseType, MergeType, ApprovalType, ControlType DEF Next

\* The columns of a Run hold only what the schema and the state whitelists
\* allow, whoever calls the store's transactions and in whatever order.
THEOREM TypeCorrect == Spec => []TypeOK
BY InitType, NextType, PTL DEF Spec

-----------------------------------------------------------------------------
(* How Step rows move                                                      *)

\* What a transaction that does not handle an approval may do to a Step.
OrdinaryMove(t) ==
  \/ step'[t] = step[t]
  \/ step[t] \in {"pending", "absent"} /\ step'[t] = "ready"
  \/ step[t] \in {"pending", "ready"} /\ step'[t] \in {"running", "failed"}
  \/ step[t] = "ready" /\ step'[t] = "completed"
  \/ step[t] = "running" /\ step'[t] \in {"completed", "failed", "ready"}
  \/ step[t] \in Unfinished /\ step'[t] = "cancelled"

\* A review or completion inserts and releases Steps, and touches no other.
LEMMA RewriteMoves ==
  ASSUME NEW st \in StepRows, NEW t \in Steps, NEW new, NEW gt
  PROVE  /\ \/ releaseEligiblePendingSteps(st, gt)[t] = st[t]
            \/ st[t] = "pending" /\ releaseEligiblePendingSteps(st, gt)[t] = "ready"
         /\ MakeReady(st, new)[t] = IF t \in new THEN "ready" ELSE st[t]
         /\ CancelUnfinished(st)[t] = IF st[t] \in Unfinished THEN "cancelled" ELSE st[t]
<1>1. releaseEligiblePendingSteps(st, gt)[t] =
        IF st[t] = "pending" /\ isStepEligibleForReady(t, st, gt) THEN "ready" ELSE st[t]
  BY DEF releaseEligiblePendingSteps
<1>2. MakeReady(st, new)[t] = IF t \in new THEN "ready" ELSE st[t]
  BY DEF MakeReady
<1>3. CancelUnfinished(st)[t] = IF st[t] \in Unfinished THEN "cancelled" ELSE st[t]
  BY DEF CancelUnfinished
<1> QED BY <1>1, <1>2, <1>3

\* completeStep: the Step completes, others are at most released.
LEMMA CompleteStepMoves ==
  ASSUME TypeOK, NEW o, NEW s \in Steps, NEW a, completeStep(o, s, a), NEW t \in Steps
  PROVE  /\ step[s] = "running" /\ step'[s] = "completed"
         /\ t # s => \/ step'[t] = step[t]
                     \/ step[t] \in {"pending", "absent"} /\ step'[t] = "ready"
<1> DEFINE done == [step EXCEPT ![s] = "completed"]
           mid == MakeReady(done, derivedReviewers(s))
<1>1. /\ step[s] = "running"
      /\ \A u \in derivedReviewers(s) : step[u] \in {"pending", "absent"}
      /\ step' = releaseEligiblePendingSteps(mid, gate)
  BY DEF completeStep, LiveFence
<1>2. done \in StepRows /\ \A u \in Steps : done[u] = IF u = s THEN "completed" ELSE step[u]
  BY RewriteType DEF TypeOK, StepRows
<1> HIDE DEF done
<1>3. ASSUME NEW u \in Steps
      PROVE  mid[u] = IF u \in derivedReviewers(s) THEN "ready"
                      ELSE IF u = s THEN "completed" ELSE step[u]
  BY <1>2, RewriteMoves
<1>4. ASSUME NEW u \in Steps
      PROVE  step'[u] = mid[u] \/ (mid[u] = "pending" /\ step'[u] = "ready")
  <2>1. mid \in StepRows
    BY <1>2, RewriteType
  <2> HIDE DEF mid
  <2> QED BY <1>1, <2>1, RewriteMoves
<1> HIDE DEF mid
<1>5. step'[s] = "completed"
  BY <1>1, <1>3, <1>4
<1> QED
  BY <1>1, <1>3, <1>4, <1>5

\* A verdict: the reviewer completes; others are released, inserted or, when
\* the gate aborts the Run, cancelled.
LEMMA ReviewMoves ==
  ASSUME TypeOK, NEW o, NEW s \in Steps, NEW a, NEW v, completeReviewStep(o, s, a, v),
         NEW t \in Steps
  PROVE  /\ step[s] = "running" /\ step'[s] = "completed"
         /\ t # s => \/ step'[t] = step[t]
                     \/ step[t] \in {"pending", "absent"} /\ step'[t] = "ready"
                     \/ step[t] \in Unfinished /\ step'[t] = "cancelled"
<1> DEFINE done == [step EXCEPT ![s] = "completed"]
<1>1. PICK g \in Gates :
        acceptReview(g, s) \/ rejectForRework(g, s) \/ applyReviewLimit(g, s)
  BY DEF completeReviewStep
<1>2. step[s] = "running"
  BY DEF completeReviewStep, LiveFence
<1>3. done \in StepRows /\ \A u \in Steps : done[u] = IF u = s THEN "completed" ELSE step[u]
  BY RewriteType DEF TypeOK, StepRows
<1> DEFINE Goal == \A u \in Steps :
             IF u = s THEN step'[u] = "completed"
             ELSE \/ step'[u] = step[u]
                  \/ step[u] \in {"pending", "absent"} /\ step'[u] = "ready"
                  \/ step[u] \in Unfinished /\ step'[u] = "cancelled"
<1>4. ASSUME acceptReview(g, s) PROVE Goal
  <2>1. step' = releaseEligiblePendingSteps(done, [gate EXCEPT ![g] = "accepted"])
    BY <1>4 DEF acceptReview
  <2> HIDE DEF done
  <2> QED BY <1>3, <2>1, RewriteMoves
<1>5. ASSUME NEW new, NEW target, DeriveNext(s, new, target) PROVE Goal
  <2>1. step' = MakeReady(done, {new}) /\ step[new] = "absent"
    BY <1>5 DEF DeriveNext
  <2> HIDE DEF done
  <2> QED BY <1>2, <1>3, <2>1, RewriteMoves
<1>6. ASSUME applyReviewLimit(g, s) PROVE Goal
  <2>1. CASE reassignReview(g, s)
    BY <1>5, <2>1 DEF reassignReview
  <2>2. CASE abortAtLimit(g, s)
    <3>1. step' = CancelUnfinished(done)
      BY <2>2 DEF abortAtLimit
    <3> HIDE DEF done
    <3> QED BY <1>3, <3>1, RewriteMoves DEF Unfinished
  <2>3. CASE pauseAtLimit(g, s)
    BY <1>3, <2>3 DEF pauseAtLimit
  <2> QED BY <1>6, <2>1, <2>2, <2>3 DEF applyReviewLimit
<1>7. Goal
  BY <1>1, <1>4, <1>5, <1>6 DEF rejectForRework
<1> QED BY <1>2, <1>7

\* completeMergeStep: the merge Step completes, others are at most released.
LEMMA MergeMoves ==
  ASSUME TypeOK, NEW s \in MergeSteps, completeMergeStep(s), NEW t \in Steps
  PROVE  /\ s \in Steps /\ step[s] = "ready" /\ step'[s] = "completed"
         /\ t # s => step'[t] = step[t] \/ (step[t] = "pending" /\ step'[t] = "ready")
<1> DEFINE done == [step EXCEPT ![s] = "completed"]
<1>1. s \in Steps
  BY GraphAssumption DEF Steps
<1>2. done \in StepRows /\ \A u \in Steps : done[u] = IF u = s THEN "completed" ELSE step[u]
  BY RewriteType DEF TypeOK, StepRows
<1>3. step' = releaseEligiblePendingSteps(done, gate) /\ step[s] = "ready"
  BY DEF completeMergeStep
<1> HIDE DEF done
<1> QED BY <1>1, <1>2, <1>3, RewriteMoves

\* The transactions that leave the approval requests alone.
Ordinary ==
  \/ \E o \in Owners, requested \in SUBSET Steps : claimReadySteps(o, requested)
  \/ \E s \in Steps : LeaseExpires(s)
  \/ recoverRun
  \/ \E o \in Owners, s \in Steps, a \in 1..MaxAttempts :
       \/ completeStep(o, s, a)
       \/ failStep(o, s, a)
       \/ \E v \in {"accept", "reject"} : completeReviewStep(o, s, a, v)
  \/ \E s \in Steps : prepareReviewStepForExecution(s)
  \/ \E t \in Steps : selectImage(t)
  \/ \E s \in MergeSteps :
       mergeCleanly(s) \/ createMergeConflict(s) \/ resolveMergeConflict(s)
  \/ pauseRun
  \/ resumeRun
  \/ cancelRun

\* A transaction handles an approval or moves Steps in the ordinary ways.
LEMMA NextCases ==
  Next => \/ Ordinary
          \/ \E o \in Owners, s \in Steps, a \in 1..MaxAttempts, act \in Actions :
               requestApproval(s, act, o, a)
          \/ \E s \in Steps, act \in Actions, decision \in {"approved", "rejected"} :
               decideApproval(s, act, decision)
BY DEF Next, ExecutionOps, Ordinary

\* The ordinary transactions move Steps in the ordinary ways, and leave the
\* approvals alone.
LEMMA OrdinaryMoves ==
  ASSUME TypeOK, Ordinary
  PROVE  (\A t \in Steps : OrdinaryMove(t)) /\ UNCHANGED approvalVars
<1>1. ASSUME NEW o \in Owners, NEW requested \in SUBSET Steps, claimReadySteps(o, requested)
      PROVE  (\A t \in Steps : OrdinaryMove(t)) /\ UNCHANGED approvalVars
  <2>1. PICK picked \in SUBSET ClaimableSteps(requested) :
          FailSnapshots(picked) \/ StartSteps(o, picked)
    BY <1>1, ClaimWrites
  <2> QED BY <2>1 DEF FailSnapshots, StartSteps, ClaimableSteps, OrdinaryMove, TypeOK
<1>2. ASSUME NEW s \in Steps, LeaseExpires(s)
      PROVE  (\A t \in Steps : OrdinaryMove(t)) /\ UNCHANGED approvalVars
  BY <1>2 DEF LeaseExpires, OrdinaryMove
<1>3. ASSUME recoverRun
      PROVE  (\A t \in Steps : OrdinaryMove(t)) /\ UNCHANGED approvalVars
  BY <1>3 DEF recoverRun, ExpiredSteps, OrdinaryMove, TypeOK
<1>4. ASSUME NEW o, NEW s \in Steps, NEW a, completeStep(o, s, a)
      PROVE  (\A t \in Steps : OrdinaryMove(t)) /\ UNCHANGED approvalVars
  <2>1. UNCHANGED approvalVars
    BY <1>4 DEF completeStep
  <2> QED BY <1>4, <2>1, CompleteStepMoves DEF OrdinaryMove
<1>5. ASSUME NEW o, NEW s \in Steps, NEW a, failStep(o, s, a)
      PROVE  (\A t \in Steps : OrdinaryMove(t)) /\ UNCHANGED approvalVars
  BY <1>5 DEF failStep, LiveFence, OrdinaryMove, TypeOK
<1>6. ASSUME NEW o, NEW s \in Steps, NEW a, NEW v, completeReviewStep(o, s, a, v)
      PROVE  (\A t \in Steps : OrdinaryMove(t)) /\ UNCHANGED approvalVars
  <2>1. UNCHANGED approvalVars
    BY <1>6 DEF completeReviewStep
  <2> QED BY <1>6, <2>1, ReviewMoves DEF OrdinaryMove
<1>7. ASSUME NEW s, prepareReviewStepForExecution(s)
      PROVE  (\A t \in Steps : OrdinaryMove(t)) /\ UNCHANGED approvalVars
  BY <1>7 DEF prepareReviewStepForExecution, OrdinaryMove
<1>8. ASSUME NEW g, selectImage(g)
      PROVE  (\A t \in Steps : OrdinaryMove(t)) /\ UNCHANGED approvalVars
  BY <1>8 DEF selectImage, OrdinaryMove
<1>9. ASSUME NEW s \in MergeSteps,
             mergeCleanly(s) \/ createMergeConflict(s) \/ resolveMergeConflict(s)
      PROVE  (\A t \in Steps : OrdinaryMove(t)) /\ UNCHANGED approvalVars
  <2>1. UNCHANGED approvalVars /\ (completeMergeStep(s) \/ UNCHANGED step)
    BY <1>9 DEF mergeCleanly, createMergeConflict, resolveMergeConflict, completeMergeStep
  <2> QED BY <2>1, MergeMoves DEF OrdinaryMove
<1>10. ASSUME pauseRun \/ resumeRun
       PROVE  (\A t \in Steps : OrdinaryMove(t)) /\ UNCHANGED approvalVars
  BY <1>10 DEF pauseRun, resumeRun, OrdinaryMove
<1>11. ASSUME cancelRun
       PROVE  (\A t \in Steps : OrdinaryMove(t)) /\ UNCHANGED approvalVars
  <2>1. step' = CancelUnfinished(step) /\ UNCHANGED approvalVars
    BY <1>11 DEF cancelRun
  <2>2. ASSUME NEW t \in Steps PROVE OrdinaryMove(t)
    BY <2>1 DEF OrdinaryMove, CancelUnfinished
  <2> QED BY <2>1, <2>2
<1> QED
  BY <1>1, <1>2, <1>3, <1>4, <1>5, <1>6, <1>7, <1>8, <1>9, <1>10, <1>11 DEF Ordinary

-----------------------------------------------------------------------------
(* Fences                                                                  *)

\* Ordinary transactions keep every fence with its running Step.
LEMMA OrdinaryFence ==
  ASSUME TypeOK, FenceWhileRunning, Ordinary
  PROVE  FenceWhileRunning'
<1>1. ASSUME NEW o \in Owners, NEW requested \in SUBSET Steps, claimReadySteps(o, requested)
      PROVE  FenceWhileRunning'
  <2>2. PICK picked \in SUBSET ClaimableSteps(requested) :
          FailSnapshots(picked) \/ StartSteps(o, picked)
    BY <1>1, ClaimWrites
  <2>1. picked \subseteq Steps /\ \A s \in picked : step[s] \in {"pending", "ready"}
    BY DEF ClaimableSteps
  <2>3. CASE FailSnapshots(picked)
    BY <2>1, <2>3 DEF FailSnapshots, FenceWhileRunning, TypeOK
  <2>4. CASE StartSteps(o, picked)
    BY <2>1, <2>4 DEF StartSteps, FenceWhileRunning, TypeOK
  <2> QED BY <2>2, <2>3, <2>4
<1>2. ASSUME NEW s \in Steps, LeaseExpires(s) PROVE FenceWhileRunning'
  BY <1>2 DEF LeaseExpires, FenceWhileRunning, TypeOK
<1>3. ASSUME recoverRun PROVE FenceWhileRunning'
  BY <1>3 DEF recoverRun, ExpiredSteps, FenceWhileRunning, TypeOK
<1>4. ASSUME NEW o, NEW s \in Steps, NEW a, completeStep(o, s, a) PROVE FenceWhileRunning'
  <2>1. FinishStep(s)
    BY <1>4 DEF completeStep
  <2>2. ASSUME NEW t \in Steps
        PROVE  step'[t] = "running" <=> (step[t] = "running" /\ t # s)
    BY <1>4, CompleteStepMoves
  <2> QED BY <2>1, <2>2 DEF FinishStep, FenceWhileRunning, TypeOK
<1>5. ASSUME NEW o, NEW s \in Steps, NEW a, failStep(o, s, a) PROVE FenceWhileRunning'
  BY <1>5 DEF failStep, FinishStep, FenceWhileRunning, TypeOK
<1>6. ASSUME DropFences(step'),
             \A t \in Steps : step'[t] = "running" => step[t] = "running"
      PROVE  FenceWhileRunning'
  BY <1>6 DEF DropFences, FenceWhileRunning, TypeOK
<1>7. ASSUME NEW o, NEW s \in Steps, NEW a, NEW v, completeReviewStep(o, s, a, v)
      PROVE  FenceWhileRunning'
  <2>1. DropFences(step')
    BY <1>7 DEF completeReviewStep
  <2>2. \A t \in Steps : step'[t] = "running" => step[t] = "running"
    BY <1>7, ReviewMoves
  <2> QED BY <1>6, <2>1, <2>2
<1>8. ASSUME UNCHANGED <<step, fenceVars>> PROVE FenceWhileRunning'
  BY <1>8 DEF FenceWhileRunning, fenceVars
<1>9. ASSUME NEW s \in MergeSteps,
             mergeCleanly(s) \/ createMergeConflict(s) \/ resolveMergeConflict(s)
      PROVE  FenceWhileRunning'
  <2>1. UNCHANGED fenceVars /\ (completeMergeStep(s) \/ UNCHANGED step)
    BY <1>9 DEF mergeCleanly, createMergeConflict, resolveMergeConflict, completeMergeStep
  <2>2. ASSUME completeMergeStep(s), NEW t \in Steps
        PROVE  step'[t] = "running" <=> step[t] = "running"
    BY <2>2, MergeMoves
  <2>3. CASE completeMergeStep(s)
    BY <2>1, <2>2, <2>3 DEF fenceVars, FenceWhileRunning
  <2> QED BY <1>8, <2>1, <2>3
<1>10. ASSUME NEW s \in Steps, prepareReviewStepForExecution(s) PROVE FenceWhileRunning'
  BY <1>8, <1>10 DEF prepareReviewStepForExecution
<1>11. ASSUME NEW g \in Steps, selectImage(g) PROVE FenceWhileRunning'
  BY <1>8, <1>11 DEF selectImage
<1>12. ASSUME pauseRun \/ resumeRun PROVE FenceWhileRunning'
  BY <1>8, <1>12 DEF pauseRun, resumeRun
<1>13. ASSUME cancelRun PROVE FenceWhileRunning'
  <2>1. step' = CancelUnfinished(step) /\ DropFences(step')
    BY <1>13 DEF cancelRun
  <2>2. ASSUME NEW t \in Steps, step'[t] = "running" PROVE step[t] = "running"
    BY <2>1, <2>2 DEF CancelUnfinished
  <2> QED BY <1>6, <2>1, <2>2
<1> QED
  BY <1>1, <1>2, <1>3, <1>4, <1>5, <1>7, <1>9, <1>10, <1>11, <1>12, <1>13 DEF Ordinary

\* Parking a Step takes its fence away; a decision finds none.
LEMMA ApprovalFence ==
  ASSUME TypeOK, FenceWhileRunning, NEW s \in Steps, NEW act \in Actions
  PROVE  /\ \A o, a : requestApproval(s, act, o, a) => FenceWhileRunning'
         /\ \A decision \in {"approved", "rejected"} :
              decideApproval(s, act, decision) => FenceWhileRunning'
<1>1. ASSUME NEW o, NEW a, requestApproval(s, act, o, a) PROVE FenceWhileRunning'
  BY <1>1 DEF requestApproval, awaitStepApproval, FenceWhileRunning, TypeOK
<1>2. ASSUME NEW decision \in {"approved", "rejected"}, decideApproval(s, act, decision)
      PROVE  FenceWhileRunning'
  BY <1>2 DEF decideApproval, resolveStepApproval, FenceWhileRunning, TypeOK, fenceVars
<1> QED BY <1>1, <1>2

\* Every transaction keeps the fences with the running Steps.
LEMMA NextFence == TypeOK /\ FenceWhileRunning /\ [Next]_storeVars => FenceWhileRunning'
<1>1. UNCHANGED storeVars /\ FenceWhileRunning => FenceWhileRunning'
  BY DEF storeVars, fenceVars, FenceWhileRunning
<1> QED BY <1>1, NextCases, OrdinaryFence, ApprovalFence

\* A Step has an owner, an attempt and a lease exactly while it runs, so a
\* lease is what recovery finds every abandoned Step by, and no finished,
\* parked or cancelled Step can be taken over (claimReadySteps, recoverRun,
\* awaitStepApproval, cancelRun).
THEOREM FencesFollowExecution == Spec => []FenceWhileRunning
<1>1. Init => FenceWhileRunning
  BY DEF Init, FenceWhileRunning
<1> QED BY <1>1, NextFence, TypeCorrect, PTL DEF Spec

-----------------------------------------------------------------------------
(* Approvals                                                               *)

\* ApprovalMatchesStep, with the request a parked Step waits on made the only
\* pending one: without it a decision could leave another request pending on
\* a Step that has moved on.
ApprovalsBound ==
  \A s \in Steps :
    /\ step[s] = "awaitingApproval" =>
         binding[s] \in Actions /\ approval[s][binding[s]] = "pending"
    /\ \A act \in Actions :
         /\ approval[s][act] = "rejected" => step[s] = "failed"
         /\ approval[s][act] = "pending" =>
              \/ step[s] = "awaitingApproval" /\ binding[s] = act
              \/ step[s] = "cancelled"

\* Every transaction keeps parked Steps and pending requests together.
LEMMA NextApprovals ==
  TypeOK /\ ApprovalsBound /\ [Next]_storeVars => ApprovalsBound'
<1> SUFFICES ASSUME TypeOK, ApprovalsBound, [Next]_storeVars PROVE ApprovalsBound'
  OBVIOUS
<1>1. CASE UNCHANGED storeVars
  BY <1>1 DEF storeVars, approvalVars, ApprovalsBound
<1>2. CASE Ordinary
  <2>1. (\A t \in Steps : OrdinaryMove(t)) /\ UNCHANGED <<approval, binding>>
    BY <1>2, OrdinaryMoves DEF approvalVars
  <2>2. ASSUME NEW t \in Steps
        PROVE  /\ step[t] \in {"failed", "cancelled"} => step'[t] = step[t]
               /\ step'[t] = "awaitingApproval" => step[t] = "awaitingApproval"
               /\ step[t] = "awaitingApproval" => step'[t] \in {"awaitingApproval", "cancelled"}
    BY <2>1 DEF OrdinaryMove, Unfinished
  <2> QED BY <2>1, <2>2 DEF ApprovalsBound
<1>3. ASSUME NEW s \in Steps, NEW act \in Actions, NEW o, NEW a, requestApproval(s, act, o, a)
      PROVE  ApprovalsBound'
  <2>1. step[s] \in {"pending", "ready", "running"}
    BY <1>3 DEF requestApproval, awaitStepApproval
  <2>2. \A b \in Actions : approval[s][b] \notin {"pending", "rejected"}
    BY <2>1 DEF ApprovalsBound
  <2>3. /\ step' = [step EXCEPT ![s] = "awaitingApproval"]
        /\ binding' = [binding EXCEPT ![s] = act]
        /\ approval' = [approval EXCEPT ![s][act] = "pending"]
    BY <1>3 DEF requestApproval, awaitStepApproval
  <2>4. ASSUME NEW b \in Actions
        PROVE  approval'[s][b] = IF b = act THEN "pending" ELSE approval[s][b]
    BY <2>3 DEF TypeOK
  <2>5. ASSUME NEW t \in Steps, t # s
        PROVE  step'[t] = step[t] /\ binding'[t] = binding[t] /\ approval'[t] = approval[t]
    BY <2>3, <2>5 DEF TypeOK
  <2>6. step'[s] = "awaitingApproval" /\ binding'[s] = act
    BY <2>3 DEF TypeOK
  <2> QED BY <2>2, <2>4, <2>5, <2>6 DEF ApprovalsBound
<1>4. ASSUME NEW s \in Steps, NEW act \in Actions, NEW decision \in {"approved", "rejected"},
             decideApproval(s, act, decision)
      PROVE  ApprovalsBound'
  <2>1. /\ step[s] = "awaitingApproval" /\ binding[s] = act
        /\ step' = [step EXCEPT ![s] = IF decision = "approved" THEN "ready" ELSE "failed"]
        /\ approval' = [approval EXCEPT ![s][act] = decision]
        /\ binding' = binding
    BY <1>4 DEF decideApproval, resolveStepApproval
  <2>2. ASSUME NEW b \in Actions
        PROVE  /\ approval[s][b] # "rejected"
               /\ approval[s][b] = "pending" => b = act
               /\ approval'[s][b] = IF b = act THEN decision ELSE approval[s][b]
    BY <2>1 DEF TypeOK, ApprovalsBound
  <2>3. ASSUME NEW t \in Steps, t # s
        PROVE  step'[t] = step[t] /\ binding'[t] = binding[t] /\ approval'[t] = approval[t]
    BY <2>1, <2>3 DEF TypeOK
  <2>4. step'[s] = IF decision = "approved" THEN "ready" ELSE "failed"
    BY <2>1 DEF TypeOK
  <2> QED BY <2>2, <2>3, <2>4 DEF ApprovalsBound
<1> QED BY <1>1, <1>2, <1>3, <1>4, NextCases

\* A parked Step always waits on the request the user sees, no request stays
\* pending on a Step that has moved on, and a rejected action leaves its Step
\* failed for good (awaitStepApproval, resolveStepApproval, cancelRun).
THEOREM ApprovalsFollowSteps == Spec => []ApprovalMatchesStep
<1>1. Init => ApprovalsBound
  BY DEF Init, ApprovalsBound
<1>2. ApprovalsBound => ApprovalMatchesStep
  BY DEF ApprovalsBound, ApprovalMatchesStep
<1> QED BY <1>1, <1>2, NextApprovals, TypeCorrect, PTL DEF Spec

-----------------------------------------------------------------------------
(* Final states                                                            *)

\* The Steps of the approved plan are all inserted with the Run.
PlanStepsPresent == \A p \in PlanSteps : step[p] # "absent"

\* The strengthening of FinalRunIsQuiet: no plan Step is ever lost.
QuietInv == TypeOK /\ PlanStepsPresent /\ FinalRunIsQuiet

\* Once a Run has ended with no Step unfinished, no transaction changes the
\* Run, a Step or a gate: each needs an unfinished Step or an open Run.
LEMMA EndedRunIsFrozen ==
  ASSUME run \in Terminal, ~Some(step, Unfinished), [Next]_storeVars
  PROVE  UNCHANGED <<run, step, gate>>
<1>1. \A s \in Steps : step[s] \notin Unfinished
  BY DEF Some
<1>2. run \notin Claimable /\ run \notin Mergeable /\ run # "paused"
  BY DEF Terminal, Claimable, Mergeable
<1>3. \A o, a : \A s \in Steps : ~LiveFence(o, s, a)
  BY <1>1 DEF LiveFence, Unfinished
<1>4. CASE Ordinary
  <2>1. ASSUME NEW s \in MergeSteps PROVE step[s] # "ready"
    BY <1>1, GraphAssumption DEF Steps, Unfinished
  <2>2. ~recoverRun /\ ~pauseRun /\ ~resumeRun /\ ~cancelRun
    BY <1>2 DEF recoverRun, pauseRun, resumeRun, cancelRun
  <2>3. ASSUME NEW s \in Steps, prepareReviewStepForExecution(s)
        PROVE  UNCHANGED <<run, step, gate>>
    BY <1>2, <2>3 DEF prepareReviewStepForExecution
  <2>4. ASSUME NEW s \in MergeSteps
        PROVE  ~mergeCleanly(s) /\ ~createMergeConflict(s) /\ ~resolveMergeConflict(s)
    BY <1>2 DEF mergeCleanly, createMergeConflict, resolveMergeConflict
  <2>5. ASSUME NEW s \in Steps, LeaseExpires(s) PROVE UNCHANGED <<run, step, gate>>
    BY <2>5 DEF LeaseExpires, reviewVars
  <2>6. ASSUME NEW g \in Steps, selectImage(g) PROVE UNCHANGED <<run, step, gate>>
    BY <2>6 DEF selectImage
  <2>7. ASSUME NEW o, NEW requested PROVE ~claimReadySteps(o, requested)
    BY <1>2 DEF claimReadySteps
  <2>8. ASSUME NEW o, NEW s \in Steps, NEW a, NEW v
        PROVE  ~completeStep(o, s, a) /\ ~failStep(o, s, a) /\ ~completeReviewStep(o, s, a, v)
    BY <1>3 DEF completeStep, failStep, completeReviewStep
  <2> QED BY <1>4, <2>2, <2>3, <2>4, <2>5, <2>6, <2>7, <2>8 DEF Ordinary
<1>5. ASSUME NEW s \in Steps, NEW act, NEW o, NEW a PROVE ~requestApproval(s, act, o, a)
  BY <1>1 DEF requestApproval, awaitStepApproval, Unfinished
<1>6. ASSUME NEW s \in Steps, NEW act, NEW decision PROVE ~decideApproval(s, act, decision)
  BY <1>1 DEF decideApproval, resolveStepApproval, Unfinished
<1>7. CASE UNCHANGED storeVars
  BY <1>7 DEF storeVars, reviewVars
<1> QED BY <1>4, <1>5, <1>6, <1>7, NextCases

\* So a completed or cancelled Run stays as it is.
LEMMA FinalRunIsFrozen ==
  ASSUME QuietInv, run \in {"completed", "cancelled"}, [Next]_storeVars
  PROVE  UNCHANGED <<run, step, gate>>
<1>1. ~Some(step, Unfinished)
  BY DEF QuietInv, FinalRunIsQuiet, AllCompleted, Some, Unfinished
<1> QED BY <1>1, EndedRunIsFrozen DEF Terminal

\* A paused Run resumes to completed only when every gate is accepted: an
\* active gate keeps it in review or blocks it, one at its limit blocks it.
LEMMA ResumeCompletes ==
  ASSUME QuietInv, resumeRun, run' = "completed"
  PROVE  AllCompleted(step) /\ ~hasUnresolvedAcceptanceGate(gate)
<1>1. "completed" \in ResumeTargets /\ ~ReviewBlocksResume
  BY DEF resumeRun, MoveRun
<1>2. ActiveReviewSteps = {} /\ AllCompleted(step)
  BY <1>1 DEF ResumeTargets
<1>3. ASSUME NEW g \in Gates PROVE gate[g] = "accepted"
  <2>1. Target[g] \in PlanSteps /\ Target[g] \in Steps
    BY GraphAssumption DEF Steps
  <2>2. step[Target[g]] = "completed"
    BY <1>2, <2>1 DEF AllCompleted, QuietInv, PlanStepsPresent
  <2>3. gate[g] # "limit-reached" /\ gate[g] # "active"
    BY <1>1, <1>2, <2>2 DEF ReviewBlocksResume
  <2> QED BY <2>3 DEF QuietInv, TypeOK
<1> QED BY <1>2, <1>3 DEF hasUnresolvedAcceptanceGate

\* A Run becomes completed only with every Step completed and every gate
\* accepted.
LEMMA EntersCompleted ==
  ASSUME QuietInv, Next, run # "completed", run' = "completed"
  PROVE  AllCompleted(step') /\ ~hasUnresolvedAcceptanceGate(gate')
<1>1. ASSUME NEW o, NEW s \in Steps, NEW a, completeStep(o, s, a)
      PROVE  AllCompleted(step') /\ ~hasUnresolvedAcceptanceGate(gate')
  <2>1. PICK r \in {run, transitionRunState(run, "reviewing")} :
          EndRun(r, AfterCompletion(r, step'))
    BY <1>1 DEF completeStep
  <2>2. r # "completed"
    BY <2>1 DEF transitionRunState
  <2>3. AfterCompletion(r, step') = "completed" /\ gate' = gate
    BY <1>1, <2>1, <2>2 DEF EndRun, completeStep, reviewVars
  <2> QED BY <2>3 DEF AfterCompletion
<1>2. ASSUME NEW o, NEW s \in Steps, NEW a, failStep(o, s, a) PROVE FALSE
  BY <1>2 DEF failStep, EndRun, Terminal
<1>3. ASSUME NEW o, NEW s \in Steps, NEW a, NEW v, completeReviewStep(o, s, a, v)
      PROVE  AllCompleted(step') /\ ~hasUnresolvedAcceptanceGate(gate')
  <2>1. PICK g \in Gates :
          acceptReview(g, s) \/ rejectForRework(g, s) \/ applyReviewLimit(g, s)
    BY <1>3 DEF completeReviewStep
  <2>2. ASSUME NEW new, NEW target \in {"revising", "reviewing"}, DeriveNext(s, new, target)
        PROVE  FALSE
    BY <2>2 DEF DeriveNext, MoveRun, transitionRunState
  <2>3. ~rejectForRework(g, s) /\ ~applyReviewLimit(g, s)
    BY <2>2 DEF rejectForRework, applyReviewLimit, reassignReview, abortAtLimit, pauseAtLimit,
                MoveRun
  <2>4. acceptReview(g, s)
    BY <2>1, <2>3
  <2>5. run' = transitionRunState(run, AfterAcceptance(step', gate'))
    BY <2>4 DEF acceptReview, MoveRun
  <2>6. AfterAcceptance(step', gate') = "completed"
    BY <2>5 DEF transitionRunState
  <2> QED BY <2>6 DEF AfterAcceptance
<1>4. ASSUME NEW s \in MergeSteps,
             mergeCleanly(s) \/ createMergeConflict(s) \/ resolveMergeConflict(s)
      PROVE  AllCompleted(step') /\ ~hasUnresolvedAcceptanceGate(gate')
  BY <1>4 DEF mergeCleanly, createMergeConflict, resolveMergeConflict, completeMergeStep,
              reviewVars
<1>5. ASSUME NEW s \in Steps, NEW act, NEW decision, decideApproval(s, act, decision)
      PROVE  FALSE
  BY <1>5 DEF decideApproval, resolveStepApproval, MoveRun, AfterDecision
<1>6. ASSUME NEW s \in Steps, NEW act, NEW o, NEW a, requestApproval(s, act, o, a)
      PROVE  FALSE
  BY <1>6 DEF requestApproval, awaitStepApproval
<1>7. ASSUME resumeRun
      PROVE  AllCompleted(step') /\ ~hasUnresolvedAcceptanceGate(gate')
  <2>1. step' = step /\ gate' = gate
    BY <1>7 DEF resumeRun, reviewVars
  <2> QED BY <1>7, <2>1, ResumeCompletes
<1>8. ASSUME \/ \E o \in Owners, requested \in SUBSET Steps : claimReadySteps(o, requested)
             \/ \E s \in Steps : LeaseExpires(s) \/ prepareReviewStepForExecution(s)
             \/ recoverRun \/ pauseRun \/ cancelRun
             \/ \E t \in Steps : selectImage(t)
      PROVE  FALSE
  BY <1>8, ClaimWrites DEF FailSnapshots, StartSteps, LeaseExpires, recoverRun,
              prepareReviewStepForExecution, pauseRun, cancelRun, MoveRun, selectImage
<1> QED
  BY <1>1, <1>2, <1>3, <1>4, <1>5, <1>6, <1>7, <1>8 DEF Next, ExecutionOps

\* A Run becomes cancelled only with every unfinished Step cancelled.
LEMMA EntersCancelled ==
  ASSUME QuietInv, Next, run # "cancelled", run' = "cancelled"
  PROVE  ~Some(step', Unfinished)
<1>1. ASSUME NEW o, NEW s \in Steps, NEW a, completeStep(o, s, a) PROVE FALSE
  <2>1. PICK r \in {run, transitionRunState(run, "reviewing")} :
          EndRun(r, AfterCompletion(r, step'))
    BY <1>1 DEF completeStep
  <2> QED BY <2>1 DEF transitionRunState, EndRun, AfterCompletion
<1>2. ASSUME NEW o, NEW s \in Steps, NEW a, failStep(o, s, a) PROVE FALSE
  BY <1>2 DEF failStep, EndRun, Terminal
<1>3. ASSUME NEW o, NEW s \in Steps, NEW a, NEW v, completeReviewStep(o, s, a, v) PROVE FALSE
  <2>1. PICK g \in Gates :
          acceptReview(g, s) \/ rejectForRework(g, s) \/ applyReviewLimit(g, s)
    BY <1>3 DEF completeReviewStep
  <2>2. ASSUME NEW new, NEW target \in {"revising", "reviewing"}, DeriveNext(s, new, target)
        PROVE  FALSE
    BY <2>2 DEF DeriveNext, MoveRun, transitionRunState
  <2>3. ~rejectForRework(g, s) /\ ~applyReviewLimit(g, s)
    BY <2>2 DEF rejectForRework, applyReviewLimit, reassignReview, abortAtLimit, pauseAtLimit,
                MoveRun
  <2>4. ~acceptReview(g, s)
    BY DEF acceptReview, MoveRun, transitionRunState, AfterAcceptance
  <2> QED BY <2>1, <2>3, <2>4
<1>4. ASSUME NEW s \in MergeSteps,
             mergeCleanly(s) \/ createMergeConflict(s) \/ resolveMergeConflict(s)
      PROVE  FALSE
  BY <1>4 DEF mergeCleanly, createMergeConflict, resolveMergeConflict, completeMergeStep, EndRun
<1>5. ASSUME NEW s \in Steps, NEW act, NEW decision, decideApproval(s, act, decision)
      PROVE  FALSE
  BY <1>5 DEF decideApproval, resolveStepApproval, MoveRun, AfterDecision
<1>6. ASSUME NEW s \in Steps, NEW act, NEW o, NEW a, requestApproval(s, act, o, a)
      PROVE  FALSE
  BY <1>6 DEF requestApproval, awaitStepApproval
<1>7. ASSUME resumeRun PROVE FALSE
  BY <1>7 DEF resumeRun, MoveRun, ResumeTargets
<1>8. ASSUME cancelRun PROVE ~Some(step', Unfinished)
  <2>1. step' = CancelUnfinished(step)
    BY <1>8 DEF cancelRun
  <2>2. ASSUME NEW t \in Steps PROVE step'[t] \notin Unfinished
    BY <2>1 DEF CancelUnfinished, Unfinished
  <2> QED BY <2>2 DEF Some
<1>9. ASSUME \/ \E o \in Owners, requested \in SUBSET Steps : claimReadySteps(o, requested)
             \/ \E s \in Steps : LeaseExpires(s) \/ prepareReviewStepForExecution(s)
             \/ recoverRun \/ pauseRun
             \/ \E t \in Steps : selectImage(t)
      PROVE  FALSE
  BY <1>9, ClaimWrites DEF FailSnapshots, StartSteps, LeaseExpires, recoverRun,
              prepareReviewStepForExecution, pauseRun, selectImage
<1> QED
  BY <1>1, <1>2, <1>3, <1>4, <1>5, <1>6, <1>7, <1>8, <1>9 DEF Next, ExecutionOps

\* No transaction deletes a Step of the plan.
LEMMA PlanStepsStay ==
  ASSUME TypeOK, PlanStepsPresent, [Next]_storeVars
  PROVE  PlanStepsPresent'
<1> SUFFICES ASSUME NEW p \in PlanSteps PROVE step'[p] # "absent"
  BY DEF PlanStepsPresent
<1>1. p \in Steps /\ step[p] # "absent" /\ TypeOK
  BY DEF Steps, PlanStepsPresent
<1>2. CASE UNCHANGED storeVars
  BY <1>1, <1>2 DEF storeVars
<1>3. CASE Ordinary
  <2>1. OrdinaryMove(p)
    BY <1>1, <1>3, OrdinaryMoves
  <2> QED BY <1>1, <2>1 DEF OrdinaryMove
<1>4. ASSUME NEW s \in Steps, NEW act, NEW o, NEW a, requestApproval(s, act, o, a)
      PROVE  step'[p] # "absent"
  BY <1>1, <1>4 DEF requestApproval, awaitStepApproval, TypeOK
<1>5. ASSUME NEW s \in Steps, NEW act, NEW decision, decideApproval(s, act, decision)
      PROVE  step'[p] # "absent"
  BY <1>1, <1>5 DEF decideApproval, resolveStepApproval, TypeOK
<1> QED BY <1>2, <1>3, <1>4, <1>5, NextCases

\* Every transaction keeps completed and cancelled Runs quiet.
LEMMA NextQuiet == QuietInv /\ [Next]_storeVars => QuietInv'
<1> SUFFICES ASSUME QuietInv, [Next]_storeVars PROVE QuietInv'
  OBVIOUS
<1>1. TypeOK'
  BY NextType DEF QuietInv
<1>2. PlanStepsPresent'
  BY PlanStepsStay DEF QuietInv
<1>3. FinalRunIsQuiet'
  <2>1. CASE run \in {"completed", "cancelled"}
    <3>1. UNCHANGED <<run, step, gate>>
      BY <2>1, FinalRunIsFrozen
    <3> QED
      BY <3>1 DEF QuietInv, FinalRunIsQuiet, AllCompleted, Some, hasUnresolvedAcceptanceGate
  <2>2. CASE run \notin {"completed", "cancelled"} /\ Next
    BY <2>2, EntersCompleted, EntersCancelled DEF FinalRunIsQuiet
  <2>3. CASE run \notin {"completed", "cancelled"} /\ UNCHANGED storeVars
    BY <2>3 DEF FinalRunIsQuiet, storeVars
  <2> QED BY <2>1, <2>2, <2>3
<1> QED BY <1>1, <1>2, <1>3 DEF QuietInv

\* The invariant holds of a Run as it is approved, and so always.
LEMMA AlwaysQuiet == Spec => []QuietInv
<1>1. Init => QuietInv
  <2>1. Init => PlanStepsPresent
    BY DEF Init, PlanStepsPresent, Steps
  <2>2. Init => FinalRunIsQuiet
    BY DEF Init, FinalRunIsQuiet
  <2> QED BY <2>1, <2>2, InitType DEF QuietInv
<1> QED BY <1>1, NextQuiet, PTL DEF Spec

\* A Run is reported completed only with all its Steps completed and all its
\* gates accepted, and stays so; a cancelled Run has nothing left to do
\* (completeStep, completeMergeStep, finishAcceptedReview, resumeRun,
\* cancelRun).
THEOREM FinishedRunsAreQuiet == Spec => []FinalRunIsQuiet
<1>1. QuietInv => FinalRunIsQuiet
  BY DEF QuietInv
<1> QED BY <1>1, AlwaysQuiet, PTL

-----------------------------------------------------------------------------
(* Final states are absorbing                                              *)

\* A gate is written only by the verdict of a review, while it is active.
LEMMA GatesStay ==
  ASSUME TypeOK, [Next]_storeVars, NEW g \in Gates, gate[g] # "active"
  PROVE  gate'[g] = gate[g]
<1>1. CASE UNCHANGED storeVars
  BY <1>1 DEF storeVars, reviewVars
<1>2. ASSUME NEW o, NEW s \in Steps, NEW a, NEW v, completeReviewStep(o, s, a, v)
      PROVE  gate'[g] = gate[g]
  <2>1. PICK h \in Gates :
          /\ gate[h] = "active"
          /\ acceptReview(h, s) \/ rejectForRework(h, s) \/ applyReviewLimit(h, s)
    BY <1>2 DEF completeReviewStep
  <2>2. gate' = gate \/ \E x : gate' = [gate EXCEPT ![h] = x]
    BY <2>1 DEF acceptReview, rejectForRework, applyReviewLimit, reassignReview,
                abortAtLimit, pauseAtLimit, ReachLimit
  <2> QED BY <2>1, <2>2 DEF TypeOK
<1>3. ASSUME NEW o, NEW s, NEW a, completeStep(o, s, a) \/ failStep(o, s, a)
      PROVE  gate' = gate
  BY <1>3 DEF completeStep, failStep, reviewVars
<1>4. ASSUME NEW s, NEW act, NEW o, NEW a, requestApproval(s, act, o, a) PROVE gate' = gate
  BY <1>4 DEF requestApproval, awaitStepApproval, reviewVars
<1>5. ASSUME NEW s, NEW act, NEW decision, decideApproval(s, act, decision) PROVE gate' = gate
  BY <1>5 DEF decideApproval, resolveStepApproval, reviewVars
<1>6. ASSUME NEW s, mergeCleanly(s) \/ createMergeConflict(s) \/ resolveMergeConflict(s)
      PROVE  gate' = gate
  BY <1>6 DEF mergeCleanly, createMergeConflict, resolveMergeConflict, completeMergeStep,
              reviewVars
<1>7. ASSUME NEW o, NEW requested, claimReadySteps(o, requested) PROVE gate' = gate
  BY <1>7, ClaimWrites DEF FailSnapshots, StartSteps, reviewVars
<1>8. ASSUME NEW s, LeaseExpires(s) \/ prepareReviewStepForExecution(s) PROVE gate' = gate
  BY <1>8 DEF LeaseExpires, prepareReviewStepForExecution, reviewVars
<1>9. ASSUME \/ recoverRun \/ pauseRun \/ resumeRun \/ cancelRun
             \/ \E h \in Steps : selectImage(h)
      PROVE  gate' = gate
  BY <1>9 DEF recoverRun, pauseRun, resumeRun, cancelRun, selectImage, reviewVars
<1> QED
  BY <1>1, <1>2, <1>3, <1>4, <1>5, <1>6, <1>7, <1>8, <1>9 DEF Next, ExecutionOps

\* Only a claim counts attempts, and it counts one for each Step it starts.
LEMMA AttemptsGrow ==
  ASSUME TypeOK, [Next]_storeVars, NEW t \in Steps
  PROVE  /\ attempt'[t] >= attempt[t]
         /\ step[t] # "running" /\ step'[t] = "running" => attempt'[t] > attempt[t]
<1>0. attempt[t] \in Nat
  BY DEF TypeOK
<1>1. CASE UNCHANGED storeVars
  BY <1>0, <1>1 DEF storeVars, fenceVars
<1>2. ASSUME NEW o, NEW requested, claimReadySteps(o, requested)
      PROVE  /\ attempt'[t] >= attempt[t]
             /\ step[t] # "running" /\ step'[t] = "running" => attempt'[t] > attempt[t]
  <2>1. PICK picked : FailSnapshots(picked) \/ StartSteps(o, picked)
    BY <1>2, ClaimWrites
  <2>2. CASE FailSnapshots(picked)
    BY <1>0, <2>2 DEF FailSnapshots, TypeOK
  <2>3. CASE StartSteps(o, picked)
    BY <1>0, <2>3 DEF StartSteps, TypeOK
  <2> QED BY <2>1, <2>2, <2>3
<1>3. ASSUME attempt' = attempt, step'[t] = "running" => step[t] = "running"
      PROVE  /\ attempt'[t] >= attempt[t]
             /\ step[t] # "running" /\ step'[t] = "running" => attempt'[t] > attempt[t]
  BY <1>0, <1>3
<1> DEFINE Kept == attempt' = attempt /\ (step'[t] = "running" => step[t] = "running")
<1>4. ASSUME NEW o, NEW s \in Steps, NEW a, completeStep(o, s, a) PROVE Kept
  BY <1>4, CompleteStepMoves DEF completeStep, FinishStep
<1>5. ASSUME NEW o, NEW s \in Steps, NEW a, failStep(o, s, a) PROVE Kept
  BY <1>5 DEF failStep, FinishStep, TypeOK
<1>6. ASSUME NEW o, NEW s \in Steps, NEW a, NEW v, completeReviewStep(o, s, a, v) PROVE Kept
  <2>1. attempt' = attempt
    BY <1>6 DEF completeReviewStep, DropFences
  <2> QED BY <1>6, <2>1, ReviewMoves
<1>7. ASSUME NEW s \in Steps, NEW act, NEW o, NEW a, requestApproval(s, act, o, a) PROVE Kept
  BY <1>7 DEF requestApproval, awaitStepApproval, TypeOK
<1>8. ASSUME NEW s \in Steps, NEW act, NEW decision, decideApproval(s, act, decision) PROVE Kept
  BY <1>8 DEF decideApproval, resolveStepApproval, fenceVars, TypeOK
<1>9. ASSUME NEW s \in MergeSteps,
             mergeCleanly(s) \/ createMergeConflict(s) \/ resolveMergeConflict(s)
      PROVE  Kept
  <2>1. UNCHANGED fenceVars /\ (completeMergeStep(s) \/ UNCHANGED step)
    BY <1>9 DEF mergeCleanly, createMergeConflict, resolveMergeConflict, completeMergeStep
  <2> QED BY <2>1, MergeMoves DEF fenceVars
<1>10. ASSUME NEW s \in Steps, LeaseExpires(s) \/ prepareReviewStepForExecution(s) PROVE Kept
  BY <1>10 DEF LeaseExpires, prepareReviewStepForExecution, fenceVars
<1>11. ASSUME recoverRun PROVE Kept
  BY <1>11 DEF recoverRun, TypeOK
<1>12. ASSUME pauseRun \/ resumeRun \/ \E h \in Steps : selectImage(h) PROVE Kept
  BY <1>12 DEF pauseRun, resumeRun, selectImage, fenceVars
<1>13. ASSUME cancelRun PROVE Kept
  <2>1. step' = CancelUnfinished(step) /\ attempt' = attempt
    BY <1>13 DEF cancelRun, DropFences
  <2> QED BY <2>1 DEF CancelUnfinished
<1> QED
  BY <1>1, <1>2, <1>3, <1>4, <1>5, <1>6, <1>7, <1>8, <1>9, <1>10, <1>11, <1>12, <1>13
  DEF Next, ExecutionOps

\* Final Steps stay, and a decided approval is not decided again.
LEMMA StepsAndApprovalsStay ==
  ASSUME TypeOK, [Next]_storeVars, NEW t \in Steps
  PROVE  /\ step[t] \in {"completed", "failed", "cancelled"} => step'[t] = step[t]
         /\ \A act \in Actions : approval[t][act] \in {"approved", "rejected"} =>
                approval'[t][act] = approval[t][act]
<1>1. CASE UNCHANGED storeVars
  BY <1>1 DEF storeVars, approvalVars
<1>2. CASE Ordinary
  BY <1>2, OrdinaryMoves DEF OrdinaryMove, Unfinished, approvalVars
<1>3. ASSUME NEW s \in Steps, NEW act \in Actions, NEW new,
             step[s] \in {"pending", "ready", "running", "awaitingApproval"},
             approval[s][act] \in {"none", "pending"},
             approval' = [approval EXCEPT ![s][act] = new],
             \E x : step' = [step EXCEPT ![s] = x]
      PROVE  /\ step[t] \in {"completed", "failed", "cancelled"} => step'[t] = step[t]
             /\ \A b \in Actions : approval[t][b] \in {"approved", "rejected"} =>
                    approval'[t][b] = approval[t][b]
  BY <1>3 DEF TypeOK
<1>4. ASSUME NEW s \in Steps, NEW act \in Actions, NEW o, NEW a, requestApproval(s, act, o, a)
      PROVE  /\ step[t] \in {"completed", "failed", "cancelled"} => step'[t] = step[t]
             /\ \A b \in Actions : approval[t][b] \in {"approved", "rejected"} =>
                    approval'[t][b] = approval[t][b]
  BY <1>3, <1>4 DEF requestApproval, awaitStepApproval
<1>5. ASSUME NEW s \in Steps, NEW act \in Actions, NEW decision,
             decideApproval(s, act, decision)
      PROVE  /\ step[t] \in {"completed", "failed", "cancelled"} => step'[t] = step[t]
             /\ \A b \in Actions : approval[t][b] \in {"approved", "rejected"} =>
                    approval'[t][b] = approval[t][b]
  BY <1>3, <1>5 DEF decideApproval, resolveStepApproval
<1> QED BY <1>1, <1>2, <1>4, <1>5, NextCases

\* No transaction undoes a completed or cancelled Run, a finished Step, a
\* resolved gate or a decided approval, and no execution attempt is used for
\* two executions: what the fences and the user's decisions rely on.
THEOREM FinalStatesAreAbsorbing == Spec => FinalStatesAbsorb
<1>1. QuietInv /\ [Next]_storeVars => [FinalsStay]_storeVars
  <2> SUFFICES ASSUME QuietInv, [Next]_storeVars PROVE FinalsStay
    OBVIOUS
  <2>1. TypeOK
    BY DEF QuietInv
  <2>2. run \in {"completed", "cancelled"} => run' = run
    BY FinalRunIsFrozen
  <2> QED BY <2>1, <2>2, GatesStay, AttemptsGrow, StepsAndApprovalsStay DEF FinalsStay
<1> QED BY <1>1, AlwaysQuiet, PTL DEF Spec, FinalStatesAbsorb
=============================================================================
