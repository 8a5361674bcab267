--------------------------- MODULE ProgressProofs ---------------------------
(***************************************************************************)
(* An open Run without a failed Step always has something to do, for every *)
(* acyclic plan: the least pending Step is not held back by anything that  *)
(* will not move.                                                          *)
(***************************************************************************)
EXTENDS ReviewProofs, WellFoundedInduction

-----------------------------------------------------------------------------
(* The plan has a first pending Step                                       *)

\* Ancestors of plan Steps are plan Steps, and grow along the edges.
LEMMA PlanAncestors ==
  ASSUME NEW s \in PlanSteps
  PROVE  /\ s \in Steps /\ Deps(s) \subseteq PlanSteps
         /\ Ancestors[s] \in SUBSET PlanSteps
         /\ \A d \in Deps(s) : /\ d \in Ancestors[s] /\ Ancestors[d] \subseteq Ancestors[s]
                               /\ Ancestors[d] # Ancestors[s]
<1>1. s \in Steps /\ \A p \in PlanSteps : p \in Steps /\ Deps(p) \subseteq PlanSteps
  BY GraphAssumption DEF Deps, Steps
<1>2. ASSUME NEW t \in Steps
      PROVE  Ancestors[t] = {u \in Steps : \A C \in SUBSET Steps :
                                             Closed(C) /\ Deps(t) \subseteq C => u \in C}
  BY DEF Ancestors
<1>3. Closed(PlanSteps) /\ PlanSteps \in SUBSET Steps
  BY <1>1 DEF Closed
<1>4. Ancestors[s] \subseteq PlanSteps
  BY <1>1, <1>2, <1>3
<1>5. ASSUME NEW d \in Deps(s)
      PROVE  /\ d \in Ancestors[s] /\ Ancestors[d] \subseteq Ancestors[s]
             /\ Ancestors[d] # Ancestors[s]
  <2>1. d \in PlanSteps /\ d \in Steps
    BY <1>1
  <2>2. d \in Ancestors[s]
    BY <1>1, <1>2, <2>1
  <2>3. ASSUME NEW C \in SUBSET Steps, Closed(C), Deps(s) \subseteq C PROVE Deps(d) \subseteq C
    BY <2>3 DEF Closed
  <2>4. Ancestors[d] \subseteq Ancestors[s]
    BY <1>1, <1>2, <2>1, <2>3
  <2>5. d \notin Ancestors[d]
    BY <2>1, AcyclicAssumption DEF validateDag
  <2> QED BY <2>2, <2>4, <2>5
<1> QED BY <1>1, <1>4, <1>5

\* Of the plan Steps in a set, one depends on none of the others.
LEMMA FirstOfThem ==
  ASSUME NEW P \in SUBSET PlanSteps, P # {}
  PROVE  \E s \in P : \A d \in Deps(s) : d \notin P
<1> DEFINE below == {Ancestors[s] : s \in P}
<1>1. below \subseteq SUBSET PlanSteps /\ below # {}
  BY PlanAncestors
<1>2. IsWellFoundedOn(StrictSubsetOrdering(PlanSteps), SUBSET PlanSteps)
  <2>1. FiniteSubsetsOf(PlanSteps) = SUBSET PlanSteps
    BY FS_FiniteSubsetsOfFinite, GraphAssumption
  <2>2. IsWellFoundedOn(StrictSubsetOrdering(PlanSteps), FiniteSubsetsOf(PlanSteps))
    BY FS_StrictSubsetOrderingWellFounded
  <2> QED BY <2>1, <2>2
<1>3. PICK a \in below : \A b \in below : ~(<<b, a>> \in StrictSubsetOrdering(PlanSteps))
  BY <1>1, <1>2, WFMin
<1>4. PICK s \in P : a = Ancestors[s]
  BY <1>3
<1>5. ASSUME NEW d \in Deps(s), d \in P PROVE FALSE
  <2>1. Ancestors[d] \in below /\ Ancestors[d] \in SUBSET PlanSteps /\ a \in SUBSET PlanSteps
    BY <1>1, <1>3, <1>5
  <2>2. Ancestors[d] \subseteq a /\ Ancestors[d] # a
    BY <1>4, PlanAncestors
  <2>3. <<Ancestors[d], a>> \in StrictSubsetOrdering(PlanSteps)
    BY <2>1, <2>2 DEF StrictSubsetOrdering
  <2> QED BY <1>3, <2>1, <2>3
<1> QED BY <1>5

\* What is released has everything below it completed.
LEMMA CompletedBelow ==
  ASSUME GateBarrier, NEW s \in Steps, \A d \in Deps(s) : step[d] = "completed"
  PROVE  \A t \in Ancestors[s] : t \in Steps /\ step[t] = "completed"
<1> DEFINE C == {t \in Steps : step[t] = "completed"}
<1>1. Closed(C)
  BY DepsAreSteps DEF Closed, GateBarrier, isStepEligibleForReady
<1>2. Deps(s) \subseteq C
  BY DepsAreSteps
<1>3. Ancestors[s] = {u \in Steps : \A D \in SUBSET Steps :
                                      Closed(D) /\ Deps(s) \subseteq D => u \in D}
  BY DEF Ancestors
<1> QED BY <1>1, <1>2, <1>3

-----------------------------------------------------------------------------
(* What keeps a Run from stalling                                          *)

\* The Run has ended and left nothing unfinished.
Halted == run \in {"failed", "cancelled"} /\ ~Some(step, Unfinished)

\* A gate at its limit keeps the Run paused or has ended it, Steps are
\* cancelled only with their Run, and a Run that is done says so.
LimitStops == \A g \in Gates : gate[g] = "limit-reached" => run = "paused" \/ Halted

\* Steps are cancelled only with their Run.
CancelledEnds == Some(step, {"cancelled"}) => Halted

\* A Run with nothing left to do does not stay open.
DoneIsReported ==
  ~(run \in Claimable /\ AllCompleted(step) /\ ~hasUnresolvedAcceptanceGate(gate))

\* The inductive invariant behind NoStallWithoutFailure.
StallInv == ReviewInv /\ PlanStepsPresent /\ LimitStops /\ CancelledEnds /\ DoneIsReported

\* A gate that holds back a Step whose dependencies are completed is reviewed
\* by a Step that can be started.
LEMMA GateHasWork ==
  ASSUME StallInv, run \in Claimable, NEW g \in Gates, gate[g] # "accepted",
         step[Target[g]] = "completed"
  PROVE  HasRunnable(step, gate) \/ Some(step, {"awaitingApproval", "failed"})
<1>1. gate[g] = "active"
  BY DEF StallInv, LimitStops, Halted, ReviewInv, TypeOK, Claimable
<1>2. PICK u \in GateSteps(g) : Open(g) = {u}
  BY <1>1 DEF StallInv, ReviewInv, GateInv, OneOpen
<1>3. u \in Steps /\ step[u] \in StepStates \ {"absent", "completed"}
  BY <1>2, GateStepKinds DEF Open, StallInv, ReviewInv, TypeOK
<1>4. step[u] # "cancelled"
  BY <1>3 DEF StallInv, CancelledEnds, Some, Halted, Claimable
<1>5. CASE step[u] \in {"running", "ready", "awaitingApproval", "failed"}
  BY <1>3, <1>5 DEF HasRunnable, Some
<1>6. CASE step[u] = "pending"
  <2>1. Deps(u) = {Target[g]}
    BY <1>6, GateStepIds, InitialReviewerFacts DEF StallInv, ReviewInv, GateInv, DerivedAfterTarget
  <2>2. Target[g] \in Steps /\ isStepEligibleForReady(Target[g], step, gate)
    BY GatesAreApart DEF StallInv, ReviewInv, GateBarrier
  <2>3. Ancestors[u] \subseteq Ancestors[Target[g]] \cup {Target[g]}
    BY <1>3, <2>1, <2>2, AncestorsOfOne
  <2>4. ASSUME NEW h \in Gates, gate[h] # "accepted", u \notin GateSteps(h)
        PROVE  Ancestors[u] \cap (GateSteps(h) \cup {Target[h]}) = {}
    <3>1. h # g
      BY <2>4
    <3>2. Target[g] \notin GateSteps(h) /\ Target[g] # Target[h]
      BY <3>1, GatesAreApart
    <3>3. Ancestors[Target[g]] \cap (GateSteps(h) \cup {Target[h]}) = {}
      BY <2>2, <2>4, <3>2 DEF isStepEligibleForReady
    <3> QED BY <2>3, <3>2, <3>3
  <2>5. isStepEligibleForReady(u, step, gate)
    BY <2>1, <2>4 DEF isStepEligibleForReady
  <2> QED BY <1>3, <1>6, <2>5 DEF HasRunnable
<1> QED BY <1>3, <1>4, <1>5, <1>6 DEF StepStates, Unfinished

\* So an open Run has work: its first pending Step, the review of a gate
\* above it, or, with nothing pending, the review of a gate not accepted yet.
LEMMA OpenRunHasWork ==
  ASSUME StallInv
  PROVE  NoStallWithoutFailure
<1> SUFFICES ASSUME run \in Claimable, ~Some(step, {"failed"}),
                    ~Some(step, {"awaitingApproval"}), ~HasRunnable(step, gate)
             PROVE  FALSE
  BY DEF NoStallWithoutFailure
<1>1. ASSUME NEW g \in Gates, step[Target[g]] = "completed" PROVE gate[g] = "accepted"
  BY <1>1, GateHasWork DEF Some
<1>2. ASSUME NEW t \in Steps PROVE step[t] \in {"pending", "completed", "absent"}
  <2>1. step[t] \in StepStates
    BY DEF StallInv, ReviewInv, TypeOK
  <2>2. step[t] # "cancelled"
    BY DEF StallInv, CancelledEnds, Some, Halted, Claimable
  <2> QED BY <2>1, <2>2 DEF Some, HasRunnable, StepStates, Unfinished
<1>3. ASSUME NEW p \in PlanSteps PROVE p \in Steps /\ step[p] \in {"pending", "completed"}
  BY <1>2 DEF StallInv, PlanStepsPresent, Steps
<1> DEFINE P == {p \in PlanSteps : step[p] = "pending"}
<1>4. CASE P # {}
  <2>1. PICK s \in P : \A d \in Deps(s) : d \notin P
    BY <1>4, FirstOfThem
  <2>2. s \in Steps /\ \A d \in Deps(s) : step[d] = "completed"
    BY <1>3, <2>1, PlanAncestors
  <2>3. \A t \in Ancestors[s] : t \in Steps /\ step[t] = "completed"
    BY <2>2, CompletedBelow DEF StallInv, ReviewInv
  <2>4. ASSUME NEW g \in Gates, Ancestors[s] \cap (GateSteps(g) \cup {Target[g]}) # {}
        PROVE  gate[g] = "accepted"
    <3>1. PICK t \in Ancestors[s] : t \in GateSteps(g) \/ t = Target[g]
      BY <2>4
    <3>2. CASE t = Target[g]
      BY <1>1, <2>3, <3>1, <3>2
    <3>3. CASE t \in GateSteps(g)
      BY <1>1, <2>3, <3>1, <3>3, TargetIsCompleted DEF StallInv, Released
    <3> QED BY <3>1, <3>2, <3>3
  <2>5. isStepEligibleForReady(s, step, gate)
    BY <2>2, <2>4 DEF isStepEligibleForReady
  <2> QED BY <2>1, <2>2, <2>5 DEF HasRunnable
<1>5. CASE P = {}
  <2>1. \A p \in PlanSteps : step[p] = "completed"
    BY <1>3, <1>5
  <2>2. ~hasUnresolvedAcceptanceGate(gate)
    BY <1>1, <2>1, GatesAreApart DEF hasUnresolvedAcceptanceGate
  <2>3. ASSUME NEW t \in Steps, t \notin PlanSteps PROVE step[t] # "pending"
    BY <2>3 DEF Steps, StallInv, ReviewInv, GateInv, DerivedAfterTarget
  <2>4. AllCompleted(step)
    BY <1>2, <2>1, <2>3 DEF AllCompleted
  <2> QED BY <2>2, <2>4 DEF StallInv, DoneIsReported
<1> QED BY <1>4, <1>5

-----------------------------------------------------------------------------
(* Every transaction keeps it so                                           *)

\* What a transaction may not do, for StallInv to be kept.
KeepsMoving ==
  /\ \A t \in Steps : step'[t] = "cancelled" => step[t] = "cancelled" \/ Halted'
  /\ \A g \in Gates :
       gate'[g] = "limit-reached" => gate[g] = "limit-reached" \/ run' = "paused" \/ Halted'
  /\ run = "paused" /\ (\E g \in Gates : gate[g] = "limit-reached") => run' = "paused" \/ Halted'
  /\ DoneIsReported => DoneIsReported'

\* A transaction that leaves Steps and gates alone may pause the Run.
LEMMA RowsKeptMoves ==
  ASSUME UNCHANGED <<step, gate>>, run' = run \/ run' = "paused"
  PROVE  KeepsMoving
BY DEF KeepsMoving, DoneIsReported, AllCompleted, hasUnresolvedAcceptanceGate, Claimable

\* Some Step is left to do after the transaction.
LEMMA StepLeft ==
  ASSUME NEW t \in Steps, step'[t] \notin {"completed", "absent"}
  PROVE  DoneIsReported'
BY DEF DoneIsReported, AllCompleted

\* A claim starts a Step, or fails one over its snapshot limit.
LEMMA ClaimMoves ==
  ASSUME NEW o, NEW requested \in SUBSET Steps, claimReadySteps(o, requested)
  PROVE  KeepsMoving
<1>1. PICK picked \in SUBSET Steps :
        picked # {} /\ (FailSnapshots(picked) \/ StartSteps(o, picked))
  BY ClaimWrites DEF ClaimableSteps
<1>2. run # "paused" /\ gate' = gate
  BY <1>1, ClaimWrites DEF Claimable, FailSnapshots, StartSteps, reviewVars
<1>3. PICK t \in picked : step'[t] \in {"running", "failed"}
  BY <1>1 DEF FailSnapshots, StartSteps
<1>4. DoneIsReported'
  BY <1>1, <1>3, StepLeft
<1>5. \A u \in Steps : step'[u] = "cancelled" => step[u] = "cancelled"
  BY <1>1 DEF FailSnapshots, StartSteps
<1> QED BY <1>2, <1>4, <1>5 DEF KeepsMoving

\* completeStep and failStep leave something to do or end the Run.
LEMMA CompletionMoves ==
  ASSUME TypeOK, NEW o, NEW s \in Steps, NEW a, completeStep(o, s, a) \/ failStep(o, s, a)
  PROVE  KeepsMoving
<1>1. CASE completeStep(o, s, a)
  <2>1. PICK r \in {run, transitionRunState(run, "reviewing")} :
          EndRun(r, AfterCompletion(r, step'))
    BY <1>1 DEF completeStep
  <2>2. gate' = gate /\ \A u \in Steps : step'[u] = "cancelled" => step[u] = "cancelled"
    BY <1>1, CompleteStepMoves DEF completeStep, reviewVars
  <2>3. run = "paused" => run' = "paused"
    BY <2>1 DEF transitionRunState, EndRun, AfterCompletion, Terminal
  <2>4. DoneIsReported'
    <3> SUFFICES ASSUME run' \in Claimable, AllCompleted(step'), ~hasUnresolvedAcceptanceGate(gate)
                 PROVE  FALSE
      BY <2>2 DEF DoneIsReported, AllCompleted, hasUnresolvedAcceptanceGate
    <3>1. r # "paused"
      BY <2>1 DEF EndRun, AfterCompletion, Terminal, Claimable
    <3>2. AfterCompletion(r, step') = "completed"
      BY <3>1 DEF AfterCompletion
    <3> QED BY <2>1, <3>2 DEF EndRun, Terminal, Claimable
  <2> QED BY <2>2, <2>3, <2>4 DEF KeepsMoving
<1>2. CASE failStep(o, s, a)
  <2>1. gate' = gate /\ step' = [step EXCEPT ![s] = "failed"]
    BY <1>2 DEF failStep, reviewVars
  <2>2. run = "paused" => run' = "paused"
    BY <1>2 DEF failStep, EndRun, Terminal
  <2>3. step'[s] = "failed" /\ \A u \in Steps : step'[u] = "cancelled" => step[u] = "cancelled"
    BY <2>1 DEF TypeOK
  <2> QED BY <2>1, <2>2, <2>3, StepLeft DEF KeepsMoving
<1> QED BY <1>1, <1>2

\* A verdict reports the Run completed, leaves the next review Step to do, or
\* stops the Run at the limit.
LEMMA VerdictMoves ==
  ASSUME TypeOK, NEW o, NEW s \in Steps, NEW a, NEW v, completeReviewStep(o, s, a, v)
  PROVE  KeepsMoving
<1>1. PICK g \in Gates :
        /\ s \in Reviewers(g)
        /\ acceptReview(g, s) \/ rejectForRework(g, s) \/ applyReviewLimit(g, s)
  BY DEF completeReviewStep
<1> DEFINE done == [step EXCEPT ![s] = "completed"]
<1>2. done \in StepRows /\ \A u \in Steps : done[u] = IF u = s THEN "completed" ELSE step[u]
  BY RewriteType DEF TypeOK, StepRows
<1> HIDE DEF done
<1>3. CASE acceptReview(g, s)
  <2>1. /\ gate' = [gate EXCEPT ![g] = "accepted"]
        /\ step' = releaseEligiblePendingSteps(done, gate')
        /\ run' = transitionRunState(run, AfterAcceptance(step', gate'))
    BY <1>3 DEF acceptReview, MoveRun, done
  <2>2. \A u \in Steps : step'[u] = "cancelled" => step[u] = "cancelled"
    BY <1>2, <2>1, RewriteMoves
  <2>3. \A h \in Gates : gate'[h] = "limit-reached" => gate[h] = "limit-reached"
    BY <2>1 DEF TypeOK
  <2>4. run = "paused" => run' = "paused"
    BY <2>1 DEF transitionRunState
  <2>5. DoneIsReported'
    <3> SUFFICES ASSUME run' \in Claimable, AllCompleted(step'), ~hasUnresolvedAcceptanceGate(gate')
                 PROVE  FALSE
      BY DEF DoneIsReported, AllCompleted, hasUnresolvedAcceptanceGate
    <3>1. AfterAcceptance(step', gate') = "completed"
      BY DEF AfterAcceptance
    <3> QED BY <2>1, <3>1 DEF transitionRunState, Claimable
  <2> QED BY <2>2, <2>3, <2>4, <2>5 DEF KeepsMoving
<1>4. ASSUME NEW new, NEW target \in {"revising", "reviewing"}, DeriveNext(s, new, target),
             UNCHANGED gate, new \in Steps
      PROVE  KeepsMoving
  <2>1. step' = MakeReady(done, {new}) /\ run' = transitionRunState(run, target)
    BY <1>4 DEF DeriveNext, MoveRun, done
  <2>2. \A u \in Steps : step'[u] = IF u = new THEN "ready" ELSE done[u]
    BY <1>2, <2>1, RewriteMoves
  <2>3. run = "paused" => run' = "paused"
    BY <2>1 DEF transitionRunState
  <2>4. DoneIsReported'
    BY <1>4, <2>2, StepLeft
  <2> QED BY <1>2, <1>4, <2>2, <2>3, <2>4 DEF KeepsMoving
<1>5. CASE rejectForRework(g, s)
  <2>1. /\ DeriveNext(s, Rework(g, Iteration(s) + 1), "revising") /\ UNCHANGED gate
        /\ Iteration(s) < MaxIterations[g]
    BY <1>5 DEF rejectForRework
  <2>2. Iteration(s) \in 0..MaxIterations[g] /\ MaxIterations[g] \in Nat
    BY <1>1, ReviewerKinds, GraphAssumption
  <2>3. Iteration(s) + 1 \in 1..MaxIterations[g]
    BY <2>1, <2>2
  <2>4. Rework(g, Iteration(s) + 1) \in Steps
    BY <2>3, ReworkFacts DEF GateSteps, Steps
  <2> QED BY <1>4, <2>1, <2>4
<1>6. CASE reassignReview(g, s)
  <2>1. DeriveNext(s, BackupReviewer(g), "reviewing") /\ UNCHANGED gate /\ CanReassign(g)
    BY <1>6 DEF reassignReview
  <2>2. BackupReviewer(g) \in Steps
    BY <2>1, BackupFacts DEF GateSteps, Steps
  <2> QED BY <1>4, <2>1, <2>2
<1>7. CASE abortAtLimit(g, s)
  <2>1. run' = "failed" /\ step' = CancelUnfinished(done)
    BY <1>7 DEF abortAtLimit, MoveRun, done
  <2>2. \A u \in Steps : step'[u] \notin Unfinished
    BY <1>2, <2>1, RewriteMoves DEF Unfinished
  <2>3. Halted'
    BY <2>1, <2>2 DEF Halted, Some
  <2> QED BY <2>1, <2>3 DEF KeepsMoving, DoneIsReported, Claimable
<1>8. CASE pauseAtLimit(g, s)
  <2>1. run' = "paused" /\ step' = done
    BY <1>8 DEF pauseAtLimit, MoveRun, done
  <2> QED BY <1>2, <2>1 DEF KeepsMoving, DoneIsReported, Claimable
<1> QED BY <1>1, <1>3, <1>5, <1>6, <1>7, <1>8 DEF applyReviewLimit

\* Merging, or recording and resolving a conflict.
LEMMA MergeKeepsMoving ==
  ASSUME TypeOK, NEW s \in MergeSteps,
         mergeCleanly(s) \/ createMergeConflict(s) \/ resolveMergeConflict(s)
  PROVE  KeepsMoving
<1>1. CASE completeMergeStep(s)
  <2>1. gate' = gate /\ \A u \in Steps : step'[u] = "cancelled" => step[u] = "cancelled"
    BY <1>1, MergeMoves DEF completeMergeStep, reviewVars
  <2>2. \/ /\ run # "paused" /\ ~hasUnresolvedAcceptanceGate(gate) /\ AllCompleted(step')
           /\ run \notin Terminal /\ EndRun(run, "completed")
        \/ /\ run = "paused" \/ hasUnresolvedAcceptanceGate(gate) \/ ~AllCompleted(step')
           /\ run' = run
    BY <1>1 DEF completeMergeStep
  <2>3. DoneIsReported'
    BY <2>1, <2>2 DEF DoneIsReported, AllCompleted, hasUnresolvedAcceptanceGate, EndRun, Terminal,
                      Claimable
  <2> QED BY <2>1, <2>2, <2>3 DEF KeepsMoving
<1>2. CASE createMergeConflict(s)
  BY <1>2, RowsKeptMoves DEF createMergeConflict, reviewVars
<1>3. CASE resolveMergeConflict(s) /\ ~completeMergeStep(s)
  BY <1>3, RowsKeptMoves DEF resolveMergeConflict, reviewVars
<1> QED BY <1>1, <1>2, <1>3 DEF mergeCleanly

\* Parking a Step for an approval, and deciding it.
LEMMA ApprovalKeepsMoving ==
  ASSUME TypeOK, NEW s \in Steps, NEW act
  PROVE  /\ \A o, a : requestApproval(s, act, o, a) => KeepsMoving
         /\ \A decision : decideApproval(s, act, decision) => KeepsMoving
<1>1. ASSUME NEW o, NEW a, requestApproval(s, act, o, a) PROVE KeepsMoving
  <2>1. /\ step' = [step EXCEPT ![s] = "awaitingApproval"] /\ gate' = gate
        /\ run = "paused" => run' = "paused"
    BY <1>1 DEF requestApproval, awaitStepApproval, reviewVars
  <2>2. \A u \in Steps : step'[u] = IF u = s THEN "awaitingApproval" ELSE step[u]
    BY <2>1 DEF TypeOK
  <2> QED BY <2>1, <2>2, StepLeft DEF KeepsMoving
<1>2. ASSUME NEW decision, decideApproval(s, act, decision) PROVE KeepsMoving
  <2> DEFINE to == IF decision = "approved" THEN "ready" ELSE "failed"
  <2>1. /\ step' = [step EXCEPT ![s] = to] /\ gate' = gate
        /\ run = "paused" => run' = "paused"
    BY <1>2 DEF decideApproval, resolveStepApproval, MoveRun, AfterDecision, reviewVars
  <2>2. \A u \in Steps : step'[u] = IF u = s THEN to ELSE step[u]
    BY <2>1 DEF TypeOK
  <2> QED BY <2>1, <2>2, StepLeft DEF KeepsMoving
<1> QED BY <1>1, <1>2

\* A Run does not resume while a gate is at its limit, and not as an open one
\* when everything is done.
LEMMA ControlKeepsMoving ==
  ASSUME TypeOK, resumeRun \/ cancelRun
  PROVE  KeepsMoving
<1>1. CASE resumeRun
  <2>1. UNCHANGED <<step, gate>> /\ ~ReviewBlocksResume
    BY <1>1 DEF resumeRun, reviewVars
  <2>2. \A g \in Gates : gate[g] # "limit-reached"
    BY <2>1 DEF ReviewBlocksResume
  <2>3. run' \in ResumeTargets
    BY <1>1 DEF resumeRun, MoveRun
  <2>4. AllCompleted(step) => run' = "completed"
    <3>1. AllCompleted(step) => ActiveReviewSteps = {}
      BY DEF AllCompleted, ActiveReviewSteps, Unfinished
    <3> QED BY <2>3, <3>1 DEF ResumeTargets
  <2>5. DoneIsReported'
    BY <2>1, <2>4 DEF DoneIsReported, AllCompleted, Claimable
  <2> QED BY <2>1, <2>2, <2>5 DEF KeepsMoving
<1>2. CASE cancelRun
  <2>1. run' = "cancelled" /\ step' = CancelUnfinished(step)
    BY <1>2 DEF cancelRun, MoveRun
  <2>2. \A u \in Steps : step'[u] \notin Unfinished
    BY <2>1, RewriteMoves DEF Unfinished, TypeOK, StepRows
  <2>3. Halted'
    BY <2>1, <2>2 DEF Halted, Some
  <2> QED BY <2>1, <2>3 DEF KeepsMoving, DoneIsReported, Claimable
<1> QED BY <1>1, <1>2

\* Recovery leaves Steps to do.
LEMMA RecoveryMoves ==
  ASSUME recoverRun
  PROVE  KeepsMoving
<1>1. PICK t \in Steps : step'[t] = "ready"
  BY DEF recoverRun, ExpiredSteps
<1>2. DoneIsReported'
  BY <1>1, StepLeft
<1>3. /\ run' = run /\ gate' = gate
      /\ \A u \in Steps : step'[u] = "cancelled" => step[u] = "cancelled"
  BY DEF recoverRun, ExpiredSteps, reviewVars
<1> QED BY <1>2, <1>3 DEF KeepsMoving

\* Every transaction, by its group of actions.
LEMMA NextKeepsMoving ==
  ASSUME TypeOK, [Next]_storeVars
  PROVE  KeepsMoving
<1>1. ASSUME \/ \E s \in Steps : LeaseExpires(s) \/ prepareReviewStepForExecution(s) \/ selectImage(s)
             \/ pauseRun \/ UNCHANGED storeVars
      PROVE  KeepsMoving
  BY <1>1, RowsKeptMoves
  DEF LeaseExpires, prepareReviewStepForExecution, selectImage, pauseRun, storeVars, reviewVars
<1>2. ASSUME NEW o \in Owners, NEW s \in Steps, NEW a \in 1..MaxAttempts, ExecutionOps(o, s, a)
      PROVE  KeepsMoving
  BY <1>2, CompletionMoves, VerdictMoves, ApprovalKeepsMoving DEF ExecutionOps
<1> QED
  BY <1>1, <1>2, ClaimMoves, RecoveryMoves, MergeKeepsMoving, ApprovalKeepsMoving,
     ControlKeepsMoving DEF Next

\* StallInv is inductive.
LEMMA StallNext == StallInv /\ [Next]_storeVars => StallInv'
<1> SUFFICES ASSUME StallInv, [Next]_storeVars PROVE StallInv'
  OBVIOUS
<1>1. ReviewInv'
  BY NextReviews DEF StallInv
<1>2. PlanStepsPresent'
  BY PlanStepsStay DEF StallInv, ReviewInv
<1>3. KeepsMoving
  BY NextKeepsMoving DEF StallInv, ReviewInv
<1>4. DoneIsReported'
  BY <1>3 DEF StallInv, KeepsMoving
<1>5. CASE Halted
  <2>1. UNCHANGED <<run, step, gate>>
    BY <1>5, EndedRunIsFrozen DEF Halted, Terminal
  <2>2. Halted'
    BY <1>5, <2>1 DEF Halted, Some
  <2> QED BY <1>1, <1>2, <1>4, <2>2 DEF StallInv, LimitStops, CancelledEnds
<1>6. CASE ~Halted
  <2>1. CancelledEnds'
    BY <1>3, <1>6 DEF StallInv, CancelledEnds, KeepsMoving, Some
  <2>2. LimitStops'
    BY <1>3, <1>6 DEF StallInv, LimitStops, KeepsMoving
  <2> QED BY <1>1, <1>2, <1>4, <2>1, <2>2 DEF StallInv
<1> QED BY <1>5, <1>6

\* A new Run has its plan to do.
LEMMA StallInit == Init => StallInv
<1> SUFFICES ASSUME Init PROVE StallInv
  OBVIOUS
<1>1. ReviewInv
  BY InitReviews
<1>2. PICK p \in PlanSteps : p \in Steps /\ step[p] = "pending"
  BY GraphAssumption DEF Init, Steps
<1>3. PlanStepsPresent
  BY DEF Init, PlanStepsPresent, Steps
<1>4. LimitStops /\ CancelledEnds
  BY DEF Init, LimitStops, CancelledEnds, Some
<1>5. DoneIsReported
  BY <1>2 DEF DoneIsReported, AllCompleted
<1> QED BY <1>1, <1>3, <1>4, <1>5 DEF StallInv

\* Without a failed Step an open Run has a Step that can be started, runs, or
\* waits for the user, whatever was reviewed, merged, paused, recovered or
\* resumed: only a failure can leave it open with nothing to do (completeStep,
\* finishAcceptedReview, completeMergeStep, resumeRun, recoverRun).
THEOREM OpenRunsCanMove == Spec => []NoStallWithoutFailure
<1>1. Spec => []StallInv
  BY StallInit, StallNext, PTL DEF Spec
<1>2. StallInv => NoStallWithoutFailure
  BY OpenRunHasWork
<1> QED BY <1>1, <1>2, PTL
=============================================================================
