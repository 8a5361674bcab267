------------------------- MODULE OrchestrationStore -------------------------
(***************************************************************************)
(* SqliteOrchestrationStore for one Run: every transaction that changes a  *)
(* Run, its Steps, gates or approvals is one action (SQLite runs them in   *)
(* BEGIN IMMEDIATE, so they are atomic), and a transaction that throws     *)
(* leaves the database alone, so its throws are the action's guards.       *)
(*                                                                         *)
(* Next lets any caller run any transaction at any time with any owner and *)
(* attempt: what holds here holds whatever the schedulers above do.        *)
(*                                                                         *)
(* Clock: lease_expires_at is abstracted to live/expired, and LeaseExpires *)
(* is time passing it.  Refreshing a live lease moves no abstract state.   *)
(***************************************************************************)
EXTENDS RunGraph

CONSTANTS
  Owners,       \* execution owner ids (one per scheduler incarnation)
  NoOwner,      \* execution_owner_id NULL
  Actions,      \* digests of protected actions a Step may ask for
  DeniedActions,\* actions whose policy gate is 'deny'
  NoAction,     \* no step.awaitingApproval event yet
  ImageGates,   \* gates whose target and reworks yield several images
  MaxAttempts   \* bound on claims of one Step

ASSUME StoreAssumption ==
  /\ NoOwner \notin Owners
  /\ NoAction \notin Actions
  /\ DeniedActions \subseteq Actions
  /\ ImageGates \subseteq Gates
  /\ MaxAttempts \in Nat \ {0}

VARIABLES
  run,        \* run.state
  step,       \* step.state, "absent" before the Step is inserted
  owner,      \* step.execution_owner_id
  lease,      \* step.lease_expires_at against the clock
  attempt,    \* step.execution_attempt
  gate,       \* acceptance_gate.state
  reassigned, \* acceptance_gate.reassigned
  verdict,    \* review_evidence.verdict of a reviewer Step
  approval,   \* approval_request.state, per Step and action digest
  binding,    \* action of the Step's latest step.awaitingApproval event
  conflict,   \* merge Steps with an unresolved artifact_merge_conflict
  selected,   \* producers of the image the user selected last, per gate
  frozen,     \* reviewer Steps with a frozen image selection
  ended       \* how many run.completed/failed/cancelled events are stored

reviewVars == <<gate, reassigned, verdict, selected, frozen>>
approvalVars == <<approval, binding>>
fenceVars == <<owner, lease, attempt>>
storeVars == <<run, step, fenceVars, reviewVars, approvalVars, conflict, ended>>

Terminal == {"completed", "failed", "cancelled"}
Claimable == {"queued", "running", "reviewing", "revising"}
RunStates == Claimable \cup {"awaitingToolApproval", "paused"} \cup Terminal

Unfinished == {"pending", "ready", "running", "awaitingApproval"}
StepStates == Unfinished \cup {"completed", "failed", "cancelled", "absent"}

Init ==
  /\ run = "queued"
  /\ step = [s \in Steps |-> IF s \in PlanSteps THEN "pending" ELSE "absent"]
  /\ owner = [s \in Steps |-> NoOwner]
  /\ lease = [s \in Steps |-> "none"]
  /\ attempt = [s \in Steps |-> 0]
  /\ gate = [g \in Gates |-> "active"]
  /\ reassigned = [g \in Gates |-> FALSE]
  /\ verdict = [s \in Steps |-> "none"]
  /\ approval = [s \in Steps |-> [a \in Actions |-> "none"]]
  /\ binding = [s \in Steps |-> NoAction]
  /\ conflict = {}
  /\ selected = {}
  /\ frozen = {}
  /\ ended = [e \in Terminal |-> 0]

-----------------------------------------------------------------------------
(* Reads shared by the transactions. st and gt are the Step and gate rows  *)
(* as the transaction has rewritten them so far.                           *)

\* Every dependency completed, and no unresolved gate other than the Step's
\* own stands anywhere above it.
isStepEligibleForReady(s, st, gt) ==
  /\ \A d \in Deps(s) : st[d] = "completed"
  /\ \A g \in Gates :
       gt[g] = "accepted" \/ s \in GateSteps(g)
         \/ Ancestors[s] \cap (GateSteps(g) \cup {Target[g]}) = {}

\* Mutants: gates, or all but one dependency, are forgotten on release.
releaseOnDependencies(st, gt) ==
  [s \in Steps |->
     IF st[s] = "pending" /\ \A d \in Deps(s) : st[d] = "completed" THEN "ready" ELSE st[s]]
releaseOnAnyDependency(st, gt) ==
  [s \in Steps |->
     IF st[s] = "pending" /\ \E d \in Deps(s) : st[d] = "completed" THEN "ready" ELSE st[s]]

releaseEligiblePendingSteps(st, gt) ==
  [s \in Steps |->
     IF st[s] = "pending" /\ isStepEligibleForReady(s, st, gt) THEN "ready" ELSE st[s]]

hasUnresolvedAcceptanceGate(gt) == \E g \in Gates : gt[g] # "accepted"

AllCompleted(st) == \A s \in Steps : st[s] \in {"completed", "absent"}

Some(st, states) == \E s \in Steps : st[s] \in states

HasRunnable(st, gt) ==
  \/ Some(st, {"running", "ready"})
  \/ \E s \in Steps : st[s] = "pending" /\ isStepEligibleForReady(s, st, gt)

\* transitionRunState: silent when the Run is there already or paused,
\* throws when it is terminal.
canTransition(r, target) == r = target \/ r \notin Terminal
transitionRunState(r, target) == IF r = "paused" THEN r ELSE target

\* assertLiveStepFence
LiveFence(o, s, a) ==
  step[s] = "running" /\ owner[s] = o /\ attempt[s] = a /\ lease[s] = "live"

WriteEnd(outcome) ==
  ended' = [e \in Terminal |-> IF e = outcome THEN ended[e] + 1 ELSE ended[e]]

\* The event is stored even when the UPDATE finds the Run terminal already.
EndRun(r, outcome) ==
  /\ run' = IF outcome \in Terminal /\ r \notin Terminal THEN outcome ELSE r
  /\ WriteEnd(outcome)

\* transitionRunState stores its event only when it changes the Run.
MoveRun(r, target) == run' = target /\ WriteEnd(IF target = r THEN "none" ELSE target)

-----------------------------------------------------------------------------
(* Claiming, leases and recovery                                           *)

ClaimableSteps(requested) ==
  {s \in requested :
     /\ s \notin MergeSteps
     /\ step[s] \in {"pending", "ready"}
     /\ isStepEligibleForReady(s, step, gate)}

\* The snapshot limit fails the Steps it hits and, with them, the Run; the
\* other requested Steps are not claimed. The outputs a snapshot collects decide
\* whether it is over the limit.
FailSnapshots(over) ==
  /\ step' = [s \in Steps |-> IF s \in over THEN "failed" ELSE step[s]]
  /\ owner' = [s \in Steps |-> IF s \in over THEN NoOwner ELSE owner[s]]
  /\ lease' = [s \in Steps |-> IF s \in over THEN "none" ELSE lease[s]]
  /\ run' = "failed"
  /\ WriteEnd("failed")
  /\ UNCHANGED <<attempt, reviewVars, approvalVars, conflict>>

\* Mutant: the other requested Steps are left half claimed, leased and unstarted.
SomeSnapshotFailsHalfway(picked) ==
  \E over \in SUBSET (picked \cap Oversized) :
    /\ over # {}
    /\ step' = [s \in Steps |-> IF s \in over THEN "failed" ELSE step[s]]
    /\ owner' = [s \in Steps |-> IF s \in over THEN NoOwner ELSE owner[s]]
    /\ lease' = [s \in Steps |-> IF s \in over THEN "none"
                                 ELSE IF s \in picked THEN "live" ELSE lease[s]]
    /\ run' = "failed"
    /\ WriteEnd("failed")
    /\ UNCHANGED <<attempt, reviewVars, approvalVars, conflict>>

SomeSnapshotFails(picked) ==
  \E over \in SUBSET (picked \cap Oversized) : over # {} /\ FailSnapshots(over)

StartSteps(o, picked) ==
  /\ picked # {}
  /\ \A s \in picked : attempt[s] < MaxAttempts
  /\ run' = IF run = "queued" THEN "running" ELSE run
  /\ step' = [s \in Steps |-> IF s \in picked THEN "running" ELSE step[s]]
  /\ owner' = [s \in Steps |-> IF s \in picked THEN o ELSE owner[s]]
  /\ lease' = [s \in Steps |-> IF s \in picked THEN "live" ELSE lease[s]]
  /\ attempt' = [s \in Steps |-> IF s \in picked THEN attempt[s] + 1 ELSE attempt[s]]
  /\ UNCHANGED <<reviewVars, approvalVars, conflict, ended>>

claimReadySteps(o, requested) ==
  /\ run \in Claimable
  /\ LET picked == ClaimableSteps(requested)
     IN SomeSnapshotFails(picked) \/ StartSteps(o, picked)

LeaseExpires(s) ==
  /\ lease[s] = "live"
  /\ lease' = [lease EXCEPT ![s] = "expired"]
  /\ UNCHANGED <<run, step, owner, attempt, reviewVars, approvalVars, conflict, ended>>

ExpiredSteps == {s \in Steps : step[s] = "running" /\ lease[s] # "live"}

recoverRun ==
  /\ run \notin Terminal
  /\ ExpiredSteps # {}
  /\ step' = [s \in Steps |-> IF s \in ExpiredSteps THEN "ready" ELSE step[s]]
  /\ owner' = [s \in Steps |-> IF s \in ExpiredSteps THEN NoOwner ELSE owner[s]]
  /\ lease' = [s \in Steps |-> IF s \in ExpiredSteps THEN "none" ELSE lease[s]]
  /\ UNCHANGED <<run, attempt, reviewVars, approvalVars, conflict, ended>>

-----------------------------------------------------------------------------
(* Ends of an execution                                                    *)

\* Mutant: a completed rework is not reviewed.
derivedInitialReviewers(s) ==
  {InitialReviewer(g) : g \in {h \in Gates : Target[h] = s /\ gate[h] = "active"}}

\* The review Step a completed Step calls for: the initial reviewer of the
\* gate it is the target of, or the reviewer of the rework it was.
derivedReviewers(s) ==
  {InitialReviewer(g) : g \in {h \in Gates : Target[h] = s /\ gate[h] = "active"}}
    \cup {Reviewer(g, Iteration(s)) : g \in {h \in Gates : s \in Reworks(h)}}

MakeReady(st, new) == [s \in Steps |-> IF s \in new THEN "ready" ELSE st[s]]

\* How completeStep leaves the Run after the Step rows are written.
AfterCompletion(r, st) ==
  IF r = "paused" THEN "none"
  ELSE IF ~hasUnresolvedAcceptanceGate(gate) /\ AllCompleted(st) THEN "completed"
  ELSE IF Some(st, {"failed"}) /\ ~Some(st, {"running", "ready", "awaitingApproval"})
       THEN "failed" ELSE "none"

FinishStep(s) ==
  /\ lease' = [lease EXCEPT ![s] = "none"]
  /\ UNCHANGED <<owner, attempt>>

completeStep(o, s, a) ==
  /\ LiveFence(o, s, a)
  /\ \A g \in Gates : s \notin Reviewers(g)
  /\ LET new == derivedReviewers(s)
         r == IF new = {} THEN run ELSE transitionRunState(run, "reviewing")
         st == releaseEligiblePendingSteps(
                 MakeReady([step EXCEPT ![s] = "completed"], new), gate)
     IN /\ new # {} => canTransition(run, "reviewing")
        /\ \A t \in new : step[t] \in {"pending", "absent"}
        /\ step' = st
        /\ EndRun(r, AfterCompletion(r, st))
  /\ FinishStep(s)
  /\ UNCHANGED <<reviewVars, approvalVars, conflict>>

\* Unlike completeStep, a Step awaiting approval does not keep the Run open.
failStep(o, s, a) ==
  /\ LiveFence(o, s, a)
  /\ step' = [step EXCEPT ![s] = "failed"]
  /\ EndRun(run, IF run # "paused" /\ ~Some(step', {"running", "ready"})
                 THEN "failed" ELSE "none")
  /\ FinishStep(s)
  /\ UNCHANGED <<reviewVars, approvalVars, conflict>>

-----------------------------------------------------------------------------
(* Reviews                                                                 *)

\* Mutant: the gate's state is written to the Run.
AfterAcceptanceWritingGate(st, gt) ==
  IF hasUnresolvedAcceptanceGate(gt) THEN run ELSE "accepted"

\* finishAcceptedReview: the Run stays as it is while another gate is open.
AfterAcceptance(st, gt) ==
  IF hasUnresolvedAcceptanceGate(gt) THEN run
  ELSE IF AllCompleted(st) THEN "completed"
  ELSE IF Some(st, {"awaitingApproval"}) THEN "awaitingToolApproval"
  ELSE IF HasRunnable(st, gt) THEN "running" ELSE "failed"

acceptReview(g, s) ==
  LET gt == [gate EXCEPT ![g] = "accepted"]
      st == releaseEligiblePendingSteps([step EXCEPT ![s] = "completed"], gt)
      target == AfterAcceptance(st, gt)
  IN /\ canTransition(run, target)
     /\ gate' = gt
     /\ step' = st
     /\ MoveRun(run, transitionRunState(run, target))
     /\ UNCHANGED reassigned

\* The next review Step is inserted ready and the Run follows it.
DeriveNext(s, new, target) ==
  /\ step[new] = "absent"
  /\ canTransition(run, target)
  /\ step' = MakeReady([step EXCEPT ![s] = "completed"], {new})
  /\ MoveRun(run, transitionRunState(run, target))

rejectForRework(g, s) ==
  /\ Iteration(s) < MaxIterations[g]
  /\ DeriveNext(s, Rework(g, Iteration(s) + 1), "revising")
  /\ UNCHANGED <<gate, reassigned>>

\* Mutant: the reassignment is not recorded.
reassignReviewUnrecorded(g, s) ==
  /\ Iteration(s) = MaxIterations[g]
  /\ CanReassign(g) /\ ~reassigned[g]
  /\ DeriveNext(s, BackupReviewer(g), "reviewing")
  /\ UNCHANGED <<gate, reassigned>>

reassignReview(g, s) ==
  /\ Iteration(s) = MaxIterations[g]
  /\ CanReassign(g) /\ ~reassigned[g]
  /\ DeriveNext(s, BackupReviewer(g), "reviewing")
  /\ reassigned' = [reassigned EXCEPT ![g] = TRUE]
  /\ UNCHANGED gate

\* Mutants: running Steps are left alone; finished Steps are cancelled too.
CancelWaiting(st) ==
  [t \in Steps |-> IF st[t] \in Unfinished \ {"running"} THEN "cancelled" ELSE st[t]]
CancelPresent(st) == [t \in Steps |-> IF st[t] # "absent" THEN "cancelled" ELSE st[t]]

CancelUnfinished(st) ==
  [t \in Steps |-> IF st[t] \in Unfinished THEN "cancelled" ELSE st[t]]

\* Mutant: the gate at its limit stays active.
ReachLimitGateKept(g, s) ==
  /\ Iteration(s) = MaxIterations[g]
  /\ ~CanReassign(g) \/ reassigned[g]
  /\ UNCHANGED <<gate, reassigned>>

ReachLimit(g, s) ==
  /\ Iteration(s) = MaxIterations[g]
  /\ ~CanReassign(g) \/ reassigned[g]
  /\ gate' = [gate EXCEPT ![g] = "limit-reached"]
  /\ UNCHANGED reassigned

\* Aborting fails the Run from 'paused' too.
abortAtLimit(g, s) ==
  /\ ReachLimit(g, s)
  /\ OnLimit[g] = "abort"
  /\ canTransition(run, "failed")
  /\ step' = CancelUnfinished([step EXCEPT ![s] = "completed"])
  /\ MoveRun(run, "failed")

pauseAtLimit(g, s) ==
  /\ ReachLimit(g, s)
  /\ OnLimit[g] # "abort"
  /\ canTransition(run, "paused")
  /\ step' = [step EXCEPT ![s] = "completed"]
  /\ MoveRun(run, "paused")

applyReviewLimit(g, s) == reassignReview(g, s) \/ abortAtLimit(g, s) \/ pauseAtLimit(g, s)

\* The rows a finished or cancelled Step no longer holds.
DropFences(st) ==
  /\ owner' = [t \in Steps |-> IF st[t] = "cancelled" THEN NoOwner ELSE owner[t]]
  /\ lease' = [t \in Steps |-> IF st[t] = "running" THEN lease[t] ELSE "none"]
  /\ UNCHANGED attempt

completeReviewStep(o, s, a, v) ==
  \E g \in Gates :
    /\ s \in Reviewers(g)
    /\ LiveFence(o, s, a)
    /\ gate[g] = "active"
    /\ verdict[s] = "none"
    /\ verdict' = [verdict EXCEPT ![s] = v]
    /\ \/ v = "accept" /\ acceptReview(g, s)
       \/ v = "reject" /\ (rejectForRework(g, s) \/ applyReviewLimit(g, s))
    /\ DropFences(step')
    /\ UNCHANGED <<selected, frozen, approvalVars, conflict>>

\* The reviewers that get several images to judge.  The backup reviewer gets
\* what the reviewer before it judged, one image.
ImageReviewers(g) == {Reviewer(g, i) : i \in 0..MaxIterations[g]}

\* A reviewer has its candidates from its derivation on; they are the output
\* of the Step it depends on, which replaces the images reviewed before.
HasCandidates(s) == step[s] # "absent" /\ \A d \in Deps(s) : step[d] = "completed"
IsSelected(s) == Deps(s) \subseteq selected

\* Before a reviewer is claimed its image candidates are narrowed to the
\* user's selection, or the Run pauses until there is one.
prepareReviewStepForExecution(s) ==
  \E g \in ImageGates :
    /\ s \in ImageReviewers(g) \ frozen
    /\ HasCandidates(s)
    /\ IF IsSelected(s)
       THEN frozen' = frozen \cup {s} /\ UNCHANGED run
       ELSE run \notin Terminal \cup {"paused"} /\ run' = "paused" /\ UNCHANGED frozen
    /\ UNCHANGED <<step, fenceVars, gate, reassigned, verdict, selected,
                   approvalVars, conflict, ended>>

\* The user selects an image of t; it is the latest selection of its gate.
selectImage(t) ==
  \E g \in ImageGates :
    /\ t \in ({Target[g]} \cup Reworks(g)) \ selected
    /\ step[t] = "completed"
    /\ selected' = (selected \ ({Target[g]} \cup Reworks(g))) \cup {t}
    /\ UNCHANGED <<run, step, fenceVars, gate, reassigned, verdict, frozen,
                   approvalVars, conflict, ended>>

-----------------------------------------------------------------------------
(* Merge Steps, completed by the user's artifact merge                     *)

Mergeable == {"running", "reviewing", "revising", "paused"}

\* Mutant: a merge never completes the Run.
completeMergeQuietly(s) ==
  /\ s \in MergeSteps
  /\ step[s] = "ready"
  /\ \A d \in Deps(s) : step[d] = "completed"
  /\ step' = releaseEligiblePendingSteps([step EXCEPT ![s] = "completed"], gate)
  /\ UNCHANGED <<run, ended, fenceVars, reviewVars, approvalVars>>

completeMergeStep(s) ==
  /\ s \in MergeSteps
  /\ step[s] = "ready"
  /\ \A d \in Deps(s) : step[d] = "completed"
  /\ LET st == releaseEligiblePendingSteps([step EXCEPT ![s] = "completed"], gate)
     IN /\ step' = st
        /\ IF run # "paused" /\ ~hasUnresolvedAcceptanceGate(gate) /\ AllCompleted(st)
           THEN run \notin Terminal /\ EndRun(run, "completed")
           ELSE UNCHANGED <<run, ended>>
  /\ UNCHANGED <<fenceVars, reviewVars, approvalVars>>

mergeCleanly(s) == run \in Mergeable /\ completeMergeStep(s) /\ UNCHANGED conflict

\* createMergeConflict pauses the Run.  Bound: one open conflict per Step.
createMergeConflict(s) ==
  /\ s \in MergeSteps \ conflict
  /\ step[s] = "ready"
  /\ run \in Mergeable
  /\ conflict' = conflict \cup {s}
  /\ run' = "paused"
  /\ UNCHANGED <<step, fenceVars, reviewVars, approvalVars, ended>>

\* A Step merged cleanly in the meantime is left as it is.
resolveMergeConflict(s) ==
  /\ s \in conflict
  /\ run = "paused"
  /\ conflict' = conflict \ {s}
  /\ \/ completeMergeStep(s)
     \/ step[s] = "completed" /\ UNCHANGED <<run, step, ended, fenceVars, reviewVars, approvalVars>>

-----------------------------------------------------------------------------
(* Approvals of protected actions                                          *)

\* Mutant: the action of the parked Step is not recorded.
awaitStepApprovalUnbound(s, act, o, a) ==
  /\ \/ step[s] = "ready"
     \/ step[s] = "running" /\ owner[s] = o /\ attempt[s] = a
  /\ step' = [step EXCEPT ![s] = "awaitingApproval"]
  /\ owner' = [owner EXCEPT ![s] = NoOwner]
  /\ lease' = [lease EXCEPT ![s] = "none"]
  /\ run' = IF run = "paused" THEN run ELSE "awaitingToolApproval"
  /\ UNCHANGED <<attempt, binding, reviewVars, conflict, ended>>

\* A pending Step is readied first; a running one needs the caller's fence,
\* but not a live lease.  The Run follows even when it is terminal.
awaitStepApproval(s, act, o, a) ==
  /\ \/ step[s] = "ready"
     \/ step[s] = "pending" /\ isStepEligibleForReady(s, step, gate)
     \/ step[s] = "running" /\ owner[s] = o /\ attempt[s] = a
  /\ step' = [step EXCEPT ![s] = "awaitingApproval"]
  /\ owner' = [owner EXCEPT ![s] = NoOwner]
  /\ lease' = [lease EXCEPT ![s] = "none"]
  /\ binding' = [binding EXCEPT ![s] = act]
  /\ run' = IF run = "paused" THEN run ELSE "awaitingToolApproval"
  /\ UNCHANGED <<attempt, reviewVars, conflict, ended>>

\* The unit of work of persistStepApproval that parks the Step: the first
\* request of an action is enqueued, a pending one is bound again.
requestApproval(s, act, o, a) ==
  /\ approval[s][act] \in {"none", "pending"}
  /\ approval' = [approval EXCEPT ![s][act] = "pending"]
  /\ awaitStepApproval(s, act, o, a)

\* What resolveStepApproval makes of the Run, whatever it was before.
AfterDecision(st, decision) ==
  IF run = "paused" THEN run
  ELSE IF Some(st, {"awaitingApproval"}) THEN "awaitingToolApproval"
  ELSE IF HasRunnable(st, gate) \/ decision = "approved" THEN "running" ELSE "failed"

resolveStepApproval(s, act, decision) ==
  /\ binding[s] = act
  /\ step[s] = "awaitingApproval"
  /\ step' = [step EXCEPT ![s] = IF decision = "approved" THEN "ready" ELSE "failed"]
  /\ MoveRun(run, AfterDecision(step', decision))
  /\ UNCHANGED <<fenceVars, reviewVars, conflict>>

\* decideApproval: the decision and the Step move in one unit of work.
decideApproval(s, act, decision) ==
  /\ approval[s][act] = "pending"
  /\ decision = "approved" => act \notin DeniedActions
  /\ approval' = [approval EXCEPT ![s][act] = decision]
  /\ resolveStepApproval(s, act, decision)
  /\ UNCHANGED binding

-----------------------------------------------------------------------------
(* Pause, resume, cancel                                                   *)

pauseRun ==
  /\ run \notin Terminal \cup {"paused"}
  /\ run' = "paused"
  /\ UNCHANGED <<step, fenceVars, reviewVars, approvalVars, conflict, ended>>

ActiveReviewSteps ==
  {s \in Steps : \E g \in Gates :
     s \in GateSteps(g) /\ gate[g] = "active" /\ step[s] \in Unfinished}

\* A derived Step has a higher plan order than every plan Step; the order of
\* the derived Steps of two gates is left open.
LatestReviewSteps ==
  IF ActiveReviewSteps \cap DerivedSteps # {}
  THEN ActiveReviewSteps \cap DerivedSteps ELSE ActiveReviewSteps

\* Mutant: a Run without a review under way is always running again.
ResumeRunning ==
  IF ActiveReviewSteps # {}
  THEN {IF \E g \in Gates : s \in Reviewers(g) THEN "reviewing" ELSE "revising" :
          s \in LatestReviewSteps}
  ELSE {"running"}

ResumeTargets ==
  IF ActiveReviewSteps # {}
  THEN {IF \E g \in Gates : s \in Reviewers(g) THEN "reviewing" ELSE "revising" :
          s \in LatestReviewSteps}
  ELSE IF AllCompleted(step) THEN {"completed"}
  ELSE IF Some(step, {"awaitingApproval"}) THEN {"awaitingToolApproval"}
  ELSE IF ~HasRunnable(step, gate) THEN {"failed"}
  ELSE IF \A s \in Steps : step[s] \in {"pending", "absent"} THEN {"queued"}
  ELSE {"running"}

\* A gate at its limit, or one whose target is done with no review under
\* way, keeps the Run paused.
ReviewBlocksResume ==
  \E g \in Gates :
    \/ gate[g] = "limit-reached"
    \/ /\ gate[g] = "active"
       /\ step[Target[g]] = "completed"
       /\ ActiveReviewSteps \cap GateSteps(g) = {}

resumeRun ==
  /\ run = "paused"
  /\ conflict = {}
  /\ ~ReviewBlocksResume
  /\ \E target \in ResumeTargets : MoveRun(run, target)
  /\ UNCHANGED <<step, fenceVars, reviewVars, approvalVars, conflict>>

cancelRun ==
  /\ run \notin Terminal
  /\ step' = CancelUnfinished(step)
  /\ MoveRun(run, "cancelled")
  /\ DropFences(step')
  /\ UNCHANGED <<reviewVars, approvalVars, conflict>>

-----------------------------------------------------------------------------
ExecutionOps(o, s, a) ==
  \/ completeStep(o, s, a)
  \/ failStep(o, s, a)
  \/ \E v \in {"accept", "reject"} : completeReviewStep(o, s, a, v)
  \/ \E act \in Actions : requestApproval(s, act, o, a)

Next ==
  \/ \E o \in Owners, requested \in SUBSET Steps : claimReadySteps(o, requested)
  \/ \E s \in Steps : LeaseExpires(s)
  \/ recoverRun
  \/ \E o \in Owners, s \in Steps, a \in 1..MaxAttempts : ExecutionOps(o, s, a)
  \/ \E s \in Steps : prepareReviewStepForExecution(s)
  \/ \E t \in Steps : selectImage(t)
  \/ \E s \in MergeSteps :
       mergeCleanly(s) \/ createMergeConflict(s) \/ resolveMergeConflict(s)
  \/ \E s \in Steps, act \in Actions, decision \in {"approved", "rejected"} :
       decideApproval(s, act, decision)
  \/ pauseRun
  \/ resumeRun
  \/ cancelRun

Spec == Init /\ [][Next]_storeVars

-----------------------------------------------------------------------------
(* Properties                                                              *)

\* The columns hold what the schema's CHECKs and the state whitelists allow.
TypeOK ==
  /\ run \in RunStates
  /\ step \in [Steps -> StepStates]
  /\ owner \in [Steps -> Owners \cup {NoOwner}]
  /\ lease \in [Steps -> {"none", "live", "expired"}]
  /\ attempt \in [Steps -> Nat]
  /\ gate \in [Gates -> {"active", "accepted", "limit-reached"}]
  /\ reassigned \in [Gates -> BOOLEAN]
  /\ verdict \in [Steps -> {"none", "accept", "reject"}]
  /\ approval \in [Steps -> [Actions -> {"none", "pending", "approved", "rejected"}]]
  /\ binding \in [Steps -> Actions \cup {NoAction}]
  /\ conflict \subseteq MergeSteps
  /\ selected \subseteq Steps
  /\ frozen \subseteq Steps
  /\ ended \in [Terminal -> Nat]

\* A Step holds a fence exactly while it runs: recovery finds every running
\* Step by its lease and nothing else looks leased (recoverRun,
\* getNextLeaseExpiry, assertLiveStepFence).
FenceWhileRunning ==
  \A s \in Steps :
    /\ step[s] = "running" => owner[s] \in Owners /\ attempt[s] >= 1
    /\ step[s] = "running" <=> lease[s] # "none"

\* No Step is released, run or finished before everything it depends on is
\* completed and every gate above it is accepted, whatever was derived,
\* paused, cancelled, rejected or recovered meanwhile.
GateBarrier ==
  \A s \in Steps :
    step[s] \in {"ready", "running", "awaitingApproval", "completed", "failed"}
      => isStepEligibleForReady(s, step, gate)

\* A Run reported completed has all its Steps completed and all its gates
\* accepted, and a cancelled Run has nothing left to do.
FinalRunIsQuiet ==
  /\ run = "completed" => AllCompleted(step) /\ ~hasUnresolvedAcceptanceGate(gate)
  /\ run = "cancelled" => ~Some(step, Unfinished)

\* Review evidence and gates agree: a gate is accepted only on an accepting
\* verdict about its completed target, each rework answers a rejection of the
\* iteration before it, and the backup reviewer only follows a rejection at
\* the limit.
ReviewTrail ==
  \A g \in Gates :
    /\ gate[g] = "accepted" =>
         step[Target[g]] = "completed" /\ \E s \in Reviewers(g) : verdict[s] = "accept"
    /\ gate[g] # "accepted" => \A s \in Reviewers(g) : verdict[s] # "accept"
    /\ \A i \in 1..MaxIterations[g] :
         step[Rework(g, i)] # "absent" => verdict[Reviewer(g, i - 1)] = "reject"
    /\ CanReassign(g) /\ step[BackupReviewer(g)] # "absent" =>
         reassigned[g] /\ verdict[Reviewer(g, MaxIterations[g])] = "reject"

\* An active gate whose target is done always has one review Step that is
\* under way or has ended badly: a review is never lost between two Steps.
OneReviewUnderWay ==
  \A g \in Gates :
    gate[g] = "active" /\ step[Target[g]] = "completed" =>
      Cardinality({s \in GateSteps(g) :
                     step[s] \in Unfinished \cup {"failed", "cancelled"}}) = 1

\* A parked Step waits on exactly the request the user sees, and a rejected
\* action leaves its Step failed for good.
ApprovalMatchesStep ==
  \A s \in Steps :
    /\ step[s] = "awaitingApproval" =>
         binding[s] \in Actions /\ approval[s][binding[s]] = "pending"
    /\ \A act \in Actions :
         /\ approval[s][act] = "rejected" => step[s] = "failed"
         /\ approval[s][act] = "pending" => step[s] \in {"awaitingApproval", "cancelled"}

\* Nothing leaves a final state: a completed or cancelled Run, a completed,
\* failed or cancelled Step, a resolved gate and a decided approval stay,
\* and an execution attempt is never reused.
FinalsStay ==
  /\ run \in {"completed", "cancelled"} => run' = run
  /\ \A g \in Gates : gate[g] # "active" => gate'[g] = gate[g]
  /\ \A s \in Steps :
       /\ step[s] \in {"completed", "failed", "cancelled"} => step'[s] = step[s]
       /\ attempt'[s] >= attempt[s]
       /\ step[s] # "running" /\ step'[s] = "running" => attempt'[s] > attempt[s]
       /\ \A act \in Actions :
            approval[s][act] \in {"approved", "rejected"} =>
              approval'[s][act] = approval[s][act]

FinalStatesAbsorb == [][FinalsStay]_storeVars

\* Without a failed Step an open Run always has a Step that can move it or
\* one that waits for the user: gates, merges, pauses and recoveries never
\* leave it open with nothing to do.
NoStallWithoutFailure ==
  run \in Claimable /\ ~Some(step, {"failed"}) =>
    HasRunnable(step, gate) \/ Some(step, {"awaitingApproval"})

\* The M2 exit demo's criterion "no duplicate terminal events": a Run's
\* history holds each of run.completed, run.failed, run.cancelled at most once.
NoDuplicateTerminalEvents == \A e \in Terminal : ended[e] <= 1
=============================================================================
