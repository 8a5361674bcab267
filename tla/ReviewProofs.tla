---------------------------- MODULE ReviewProofs ----------------------------
(***************************************************************************)
(* Gates and reviews of OrchestrationStore, for every plan and every set   *)
(* of gates RunGraph assumes: no Step gets past a dependency or a gate,    *)
(* gates and review evidence agree, and a review is never lost.            *)
(***************************************************************************)
EXTENDS OrchestrationStoreProofs, FiniteSetTheorems

-----------------------------------------------------------------------------
(* The Steps of a gate                                                     *)

\* The reviewer of the first output is a plan Step that depends on the target, or
\* is derived from it.
LEMMA InitialReviewerFacts ==
  ASSUME NEW g \in Gates
  PROVE  /\ InitialReviewer(g) \in Steps
         /\ InitialReviewer(g) = Reviewer(g, 0)
         /\ InitialReviewer(g) \in Reviewers(g)
         /\ Deps(InitialReviewer(g)) = {Target[g]}
         /\ Iteration(InitialReviewer(g)) = 0
         /\ \/ InitialReviewer(g) = PlannedReviewer[g] /\ PlannedReviewer[g] \in PlanSteps
            \/ /\ InitialReviewer(g) = DerivedStep(g, "reviewer", 0, "initial")
               /\ InitialReviewer(g) \notin PlanSteps
<1>1. MaxIterations[g] \in Nat /\ 0 \in 0..MaxIterations[g]
  BY GraphAssumption
<1>2. InitialReviewer(g) = Reviewer(g, 0) /\ InitialReviewer(g) \in Reviewers(g)
  BY <1>1 DEF Reviewer, Reviewers
<1>3. InitialReviewer(g) \in Steps
  BY <1>2 DEF Steps, GateSteps
<1>4. CASE PlannedReviewer[g] # NoStep
  <2>1. InitialReviewer(g) = PlannedReviewer[g] /\ PlannedReviewer[g] \in PlanSteps
    BY <1>4, GraphAssumption DEF InitialReviewer
  <2>2. DependsOn[PlannedReviewer[g]] = {Target[g]}
    BY <1>4, LineageAssumption DEF createAcceptanceGate
  <2> QED BY <1>2, <1>3, <2>1, <2>2 DEF Deps, Iteration
<1>5. CASE PlannedReviewer[g] = NoStep
  <2> DEFINE s == DerivedStep(g, "reviewer", 0, "initial")
  <2>1. InitialReviewer(g) = s /\ s \notin PlanSteps
    BY <1>1, <1>5, StepIdAssumption DEF InitialReviewer
  <2>2. s.role = "reviewer" /\ s.iteration = 0 /\ s.derivation = "initial" /\ s.gate = g
    BY DEF DerivedStep
  <2>3. DerivedFrom(s) = Target[g]
    BY <2>2 DEF DerivedFrom
  <2> HIDE DEF s
  <2>4. Deps(s) = {Target[g]} /\ Iteration(s) = 0
    BY <2>1, <2>2, <2>3 DEF Deps, Iteration
  <2> QED BY <1>2, <1>3, <2>1, <2>4 DEF s
<1> QED BY <1>4, <1>5

\* A later reviewer is derived from the rework of its iteration.
LEMMA ReviewerFacts ==
  ASSUME NEW g \in Gates, NEW i \in 1..MaxIterations[g]
  PROVE  /\ Reviewer(g, i) \in Reviewers(g)
         /\ Reviewer(g, i) = DerivedStep(g, "reviewer", i, "rework")
         /\ Reviewer(g, i) \notin PlanSteps
         /\ Deps(Reviewer(g, i)) = {Rework(g, i)}
         /\ Iteration(Reviewer(g, i)) = i
<1> DEFINE s == DerivedStep(g, "reviewer", i, "rework")
<1>1. MaxIterations[g] \in Nat /\ i \in 0..MaxIterations[g] /\ i # 0
  BY GraphAssumption
<1>2. Reviewer(g, i) = s /\ Reviewer(g, i) \in Reviewers(g)
  BY <1>1 DEF Reviewer, Reviewers
<1>3. s \notin PlanSteps
  BY <1>1, StepIdAssumption
<1>4. s.role = "reviewer" /\ s.iteration = i /\ s.derivation = "rework" /\ s.gate = g
  BY DEF DerivedStep
<1>5. DerivedFrom(s) = Rework(g, i)
  BY <1>4 DEF DerivedFrom
<1> HIDE DEF s
<1>6. Deps(s) = {Rework(g, i)} /\ Iteration(s) = i
  BY <1>3, <1>4, <1>5 DEF Deps, Iteration
<1> QED BY <1>2, <1>3, <1>6 DEF s

\* A rework is derived from the reviewer of the iteration before.
LEMMA ReworkFacts ==
  ASSUME NEW g \in Gates, NEW i \in 1..MaxIterations[g]
  PROVE  /\ Rework(g, i) \in Reworks(g)
         /\ Rework(g, i) = DerivedStep(g, "rework", i, "rework")
         /\ Rework(g, i) \notin PlanSteps
         /\ Deps(Rework(g, i)) = {Reviewer(g, i - 1)}
         /\ Iteration(Rework(g, i)) = i
<1> DEFINE s == DerivedStep(g, "rework", i, "rework")
<1>1. MaxIterations[g] \in Nat /\ i \in 0..MaxIterations[g]
  BY GraphAssumption
<1>2. Rework(g, i) = s /\ Rework(g, i) \in Reworks(g)
  BY DEF Rework, Reworks
<1>3. s \notin PlanSteps
  BY <1>1, StepIdAssumption
<1>4. s.role = "rework" /\ s.iteration = i /\ s.gate = g
  BY DEF DerivedStep
<1>5. DerivedFrom(s) = Reviewer(g, i - 1)
  BY <1>4 DEF DerivedFrom
<1> HIDE DEF s
<1>6. Deps(s) = {Reviewer(g, i - 1)} /\ Iteration(s) = i
  BY <1>3, <1>4, <1>5 DEF Deps, Iteration
<1> QED BY <1>2, <1>3, <1>6 DEF s

\* The backup reviewer is derived from the reviewer that hit the limit.
LEMMA BackupFacts ==
  ASSUME NEW g \in Gates
  PROVE  /\ BackupReviewer(g) = DerivedStep(g, "reviewer", MaxIterations[g], "reassign")
         /\ BackupReviewer(g) \notin PlanSteps
         /\ Deps(BackupReviewer(g)) = {Reviewer(g, MaxIterations[g])}
         /\ Iteration(BackupReviewer(g)) = MaxIterations[g]
         /\ CanReassign(g) => BackupReviewer(g) \in Reviewers(g)
<1> DEFINE i == MaxIterations[g]
           s == DerivedStep(g, "reviewer", i, "reassign")
<1>1. i \in Nat /\ i \in 0..MaxIterations[g]
  BY GraphAssumption
<1>2. BackupReviewer(g) = s /\ (CanReassign(g) => BackupReviewer(g) \in Reviewers(g))
  BY DEF BackupReviewer, Reviewers
<1>3. s \notin PlanSteps
  BY <1>1, StepIdAssumption
<1>4. s.role = "reviewer" /\ s.iteration = i /\ s.derivation = "reassign" /\ s.gate = g
  BY DEF DerivedStep
<1>5. DerivedFrom(s) = Reviewer(g, i)
  BY <1>4 DEF DerivedFrom
<1> HIDE DEF s
<1>6. Deps(s) = {Reviewer(g, i)} /\ Iteration(s) = i
  BY <1>3, <1>4, <1>5 DEF Deps, Iteration
<1> QED BY <1>2, <1>3, <1>6 DEF s

\* The four kinds of Steps a gate has.
LEMMA GateStepKinds ==
  ASSUME NEW g \in Gates, NEW s \in GateSteps(g)
  PROVE  /\ s \in Steps
         /\ \/ s = InitialReviewer(g)
            \/ \E i \in 1..MaxIterations[g] : s = Reviewer(g, i)
            \/ \E i \in 1..MaxIterations[g] : s = Rework(g, i)
            \/ CanReassign(g) /\ s = BackupReviewer(g)
<1>1. MaxIterations[g] \in Nat
  BY GraphAssumption
<1>2. s \in Steps
  BY DEF Steps
<1>3. ASSUME NEW i \in 0..MaxIterations[g], s = Reviewer(g, i)
      PROVE  s = InitialReviewer(g) \/ \E j \in 1..MaxIterations[g] : s = Reviewer(g, j)
  <2>1. i = 0 \/ i \in 1..MaxIterations[g]
    BY <1>1
  <2> QED BY <1>3, <2>1, InitialReviewerFacts
<1> QED BY <1>2, <1>3 DEF GateSteps, Reviewers, Reworks

\* A Step of a gate is its planned reviewer or carries the gate in its id.
LEMMA GateStepIds ==
  ASSUME NEW g \in Gates, NEW s \in GateSteps(g)
  PROVE  \/ s \in PlanSteps /\ s = PlannedReviewer[g] /\ s = InitialReviewer(g)
         \/ s \notin PlanSteps /\ s.gate = g
<1>1. CASE s = InitialReviewer(g)
  BY <1>1, InitialReviewerFacts DEF DerivedStep
<1>2. ASSUME NEW i \in 1..MaxIterations[g], s = Reviewer(g, i) PROVE s \notin PlanSteps /\ s.gate = g
  BY <1>2, ReviewerFacts DEF DerivedStep
<1>3. ASSUME NEW i \in 1..MaxIterations[g], s = Rework(g, i) PROVE s \notin PlanSteps /\ s.gate = g
  BY <1>3, ReworkFacts DEF DerivedStep
<1>4. CASE s = BackupReviewer(g)
  BY <1>4, BackupFacts DEF DerivedStep
<1> QED BY <1>1, <1>2, <1>3, <1>4, GateStepKinds

\* A Step serves one gate, and no gate reviews a reviewer or a merge.
LEMMA GatesAreApart ==
  ASSUME NEW g \in Gates, NEW h \in Gates
  PROVE  /\ \A s : s \in GateSteps(g) /\ s \in GateSteps(h) => g = h
         /\ Target[g] \notin GateSteps(h)
         /\ Target[g] = Target[h] => g = h
         /\ Target[g] \in PlanSteps /\ Target[g] \in Steps /\ Target[g] \notin MergeSteps
         /\ \A s \in GateSteps(g) : s \notin MergeSteps
<1>1. Target[g] \in PlanSteps /\ Target[g] \in Steps /\ Target[g] \notin MergeSteps
  BY GraphAssumption DEF Steps
<1>2. Target[g] = Target[h] => g = h
  BY LineageAssumption DEF createAcceptanceGate
<1>3. ASSUME NEW s \in GateSteps(g), s \in GateSteps(h) PROVE g = h
  <2>1. CASE s \in PlanSteps
    <3>1. s = PlannedReviewer[g] /\ s = PlannedReviewer[h] /\ s # NoStep
      BY <1>3, <2>1, GateStepIds, GraphAssumption
    <3> QED BY <3>1, LineageAssumption DEF createAcceptanceGate
  <2>2. CASE s \notin PlanSteps
    BY <1>3, <2>2, GateStepIds
  <2> QED BY <2>1, <2>2
<1>4. Target[g] \notin GateSteps(h)
  <2> SUFFICES ASSUME Target[g] \in GateSteps(h) PROVE FALSE
    OBVIOUS
  <2>1. Target[g] = PlannedReviewer[h]
    BY <1>1, GateStepIds
  <2> QED BY <2>1, LineageAssumption DEF createPlanAcceptanceGates
<1>5. ASSUME NEW s \in GateSteps(g) PROVE s \notin MergeSteps
  BY GateStepIds, GraphAssumption
<1> QED BY <1>1, <1>2, <1>3, <1>4, <1>5

\* A reviewer judges its iteration, or is the backup reviewer of the last one.
LEMMA ReviewerKinds ==
  ASSUME NEW g \in Gates, NEW s \in Reviewers(g)
  PROVE  /\ s \in GateSteps(g)
         /\ \/ \E i \in 0..MaxIterations[g] :
                 s = Reviewer(g, i) /\ Iteration(s) = i /\ s # BackupReviewer(g)
            \/ CanReassign(g) /\ s = BackupReviewer(g) /\ Iteration(s) = MaxIterations[g]
<1>1. s \in GateSteps(g) /\ MaxIterations[g] \in Nat
  BY GraphAssumption DEF GateSteps
<1>2. ASSUME NEW i \in 0..MaxIterations[g]
      PROVE  Iteration(Reviewer(g, i)) = i /\ Reviewer(g, i) # BackupReviewer(g)
  <2>1. CASE i = 0
    BY <2>1, InitialReviewerFacts, BackupFacts DEF DerivedStep
  <2>2. CASE i \in 1..MaxIterations[g]
    BY <2>2, ReviewerFacts, BackupFacts DEF DerivedStep
  <2> QED BY <1>1, <2>1, <2>2
<1> QED BY <1>1, <1>2, BackupFacts DEF Reviewers

\* Reworks are told apart by their iteration, and from reviewers by their role.
LEMMA ReworksAreApart ==
  ASSUME NEW g \in Gates, NEW i \in 1..MaxIterations[g]
  PROVE  /\ Rework(g, i) \notin Reviewers(g)
         /\ \A j \in 1..MaxIterations[g] : Rework(g, i) = Rework(g, j) => i = j
<1>1. \A j \in 1..MaxIterations[g] : Rework(g, i) = Rework(g, j) => i = j
  BY ReworkFacts
<1>2. ASSUME Rework(g, i) \in Reviewers(g) PROVE FALSE
  <2>1. CASE Rework(g, i) = BackupReviewer(g)
    BY <2>1, ReworkFacts, BackupFacts DEF DerivedStep
  <2>2. ASSUME NEW j \in 0..MaxIterations[g], Rework(g, i) = Reviewer(g, j) PROVE FALSE
    <3>1. CASE j = 0
      BY <2>2, <3>1, ReworkFacts, InitialReviewerFacts DEF DerivedStep
    <3>2. CASE j \in 1..MaxIterations[g]
      BY <2>2, <3>2, ReworkFacts, ReviewerFacts DEF DerivedStep
    <3> QED BY <3>1, <3>2, GraphAssumption
  <2> QED BY <1>2, <2>1, <2>2, ReviewerKinds
<1> QED BY <1>1, <1>2

-----------------------------------------------------------------------------
(* Dependencies                                                            *)

\* Dependencies are Steps of the Run.
LEMMA DepsAreSteps ==
  ASSUME NEW s \in Steps
  PROVE  Deps(s) \subseteq Steps
<1>1. CASE s \in PlanSteps
  BY <1>1, GraphAssumption DEF Deps, Steps
<1>2. ASSUME NEW g \in Gates, s \in GateSteps(g) PROVE Deps(s) \subseteq Steps
  <2>1. MaxIterations[g] \in Nat
    BY GraphAssumption
  <2>2. \A i \in 0..MaxIterations[g] : Reviewer(g, i) \in Steps
    BY <2>1 DEF Reviewers, GateSteps, Steps
  <2>3. \A i \in 1..MaxIterations[g] : Rework(g, i) \in Steps
    BY ReworkFacts DEF GateSteps, Steps
  <2>4. CASE s = InitialReviewer(g)
    BY <2>4, InitialReviewerFacts, GatesAreApart
  <2>5. ASSUME NEW i \in 1..MaxIterations[g], s = Reviewer(g, i) PROVE Deps(s) \subseteq Steps
    BY <2>3, <2>5, ReviewerFacts
  <2>6. ASSUME NEW i \in 1..MaxIterations[g], s = Rework(g, i) PROVE Deps(s) \subseteq Steps
    <3>1. i - 1 \in 0..MaxIterations[g]
      BY <2>1
    <3> QED BY <2>2, <2>6, <3>1, ReworkFacts
  <2>7. CASE s = BackupReviewer(g)
    BY <2>1, <2>2, <2>7, BackupFacts
  <2> QED BY <1>2, <2>4, <2>5, <2>6, <2>7, GateStepKinds
<1> QED BY <1>1, <1>2 DEF Steps

\* The ancestors of a Step with one dependency are that Step and its ancestors.
LEMMA AncestorsOfOne ==
  ASSUME NEW s \in Steps, NEW new \in Steps, Deps(new) = {s}
  PROVE  Ancestors[new] \subseteq Ancestors[s] \cup {s}
<1> DEFINE C == Ancestors[s] \cup {s}
<1>1. Ancestors[s] = {t \in Steps : \A D \in SUBSET Steps :
                                      Closed(D) /\ Deps(s) \subseteq D => t \in D}
  BY DEF Ancestors
<1>2. Ancestors[new] = {t \in Steps : \A D \in SUBSET Steps :
                                        Closed(D) /\ Deps(new) \subseteq D => t \in D}
  BY DEF Ancestors
<1>3. C \in SUBSET Steps
  BY <1>1
<1>4. Deps(s) \subseteq C
  BY <1>1, DepsAreSteps
<1>5. ASSUME NEW c \in Ancestors[s], NEW t \in Deps(c) PROVE t \in Ancestors[s]
  <2>1. t \in Steps
    BY <1>1, DepsAreSteps
  <2>2. ASSUME NEW D \in SUBSET Steps, Closed(D), Deps(s) \subseteq D PROVE t \in D
    <3>1. c \in D
      BY <1>1, <2>2
    <3> QED BY <2>2, <3>1 DEF Closed
  <2> QED BY <1>1, <2>1, <2>2
<1>6. Closed(C)
  BY <1>4, <1>5 DEF Closed
<1>7. Deps(new) \subseteq C
  OBVIOUS
<1> HIDE DEF C
<1>8. Ancestors[new] \subseteq C
  BY <1>2, <1>3, <1>6, <1>7
<1> QED BY <1>8 DEF C

-----------------------------------------------------------------------------
(* The barrier                                                             *)

\* The states of a Step that has been released.
Released == {"ready", "running", "awaitingApproval", "completed", "failed"}

\* Completed dependencies and accepted gates stay, so a Step that was eligible
\* is eligible for good.
LEMMA EligibleStays ==
  ASSUME TypeOK, [Next]_storeVars, NEW t \in Steps, isStepEligibleForReady(t, step, gate)
  PROVE  isStepEligibleForReady(t, step', gate')
<1>1. ASSUME NEW d \in Deps(t) PROVE step'[d] = "completed"
  <2>1. d \in Steps /\ step[d] = "completed"
    BY DepsAreSteps DEF isStepEligibleForReady
  <2> QED BY <2>1, StepsAndApprovalsStay
<1>2. ASSUME NEW g \in Gates, gate[g] = "accepted" PROVE gate'[g] = "accepted"
  BY <1>2, GatesStay
<1> QED BY <1>1, <1>2 DEF isStepEligibleForReady

\* What releaseEligiblePendingSteps releases is eligible in the rows it leaves.
LEMMA ReleasedAreEligible ==
  ASSUME NEW st \in StepRows, NEW gt, NEW t \in Steps,
         st[t] \notin Released, releaseEligiblePendingSteps(st, gt)[t] \in Released
  PROVE  isStepEligibleForReady(t, releaseEligiblePendingSteps(st, gt), gt)
<1> DEFINE out == releaseEligiblePendingSteps(st, gt)
<1>1. \A u \in Steps : out[u] =
        IF st[u] = "pending" /\ isStepEligibleForReady(u, st, gt) THEN "ready" ELSE st[u]
  BY DEF releaseEligiblePendingSteps
<1>2. isStepEligibleForReady(t, st, gt)
  BY <1>1
<1>3. \A d \in Deps(t) : out[d] = "completed"
  BY <1>1, <1>2, DepsAreSteps DEF isStepEligibleForReady
<1> HIDE DEF out
<1>4. isStepEligibleForReady(t, out, gt)
  BY <1>2, <1>3 DEF isStepEligibleForReady
<1> QED BY <1>4 DEF out

\* A review Step inserted when the Step it is derived from completes: the gates above
\* that Step were accepted, and its own gate does not hold it back.
LEMMA NewcomerIsEligible ==
  ASSUME TypeOK, [Next]_storeVars, NEW g \in Gates, NEW s \in Steps, NEW new \in GateSteps(g),
         Deps(new) = {s}, s = Target[g] \/ s \in GateSteps(g),
         isStepEligibleForReady(s, step, gate), step'[s] = "completed"
  PROVE  isStepEligibleForReady(new, step', gate')
<1>1. new \in Steps
  BY GateStepKinds
<1>2. Ancestors[new] \subseteq Ancestors[s] \cup {s}
  BY <1>1, AncestorsOfOne
<1>3. isStepEligibleForReady(s, step', gate')
  BY EligibleStays
<1>4. ASSUME NEW h \in Gates, gate'[h] # "accepted", new \notin GateSteps(h)
      PROVE  Ancestors[new] \cap (GateSteps(h) \cup {Target[h]}) = {}
  <2>1. h # g
    BY <1>4
  <2>2. s \notin GateSteps(h) /\ s # Target[h]
    BY <2>1, GatesAreApart
  <2>3. Ancestors[s] \cap (GateSteps(h) \cup {Target[h]}) = {}
    BY <1>3, <1>4, <2>2 DEF isStepEligibleForReady
  <2> QED BY <1>2, <2>2, <2>3
<1> QED BY <1>4 DEF isStepEligibleForReady

\* The review Steps completeStep inserts.
LEMMA DerivedReviewersFacts ==
  ASSUME NEW s \in Steps, NEW new \in derivedReviewers(s)
  PROVE  \E g \in Gates :
           /\ new \in Reviewers(g) /\ new \in GateSteps(g) /\ new \in Steps /\ Deps(new) = {s}
           /\ \/ s = Target[g] /\ new = InitialReviewer(g) /\ gate[g] = "active"
              \/ \E i \in 1..MaxIterations[g] : s = Rework(g, i) /\ new = Reviewer(g, i)
<1>1. ASSUME NEW g \in Gates, Target[g] = s, new = InitialReviewer(g)
      PROVE  new \in Reviewers(g) /\ new \in GateSteps(g) /\ new \in Steps /\ Deps(new) = {s}
  BY <1>1, InitialReviewerFacts, ReviewerKinds
<1>2. ASSUME NEW g \in Gates, s \in Reworks(g), new = Reviewer(g, Iteration(s))
      PROVE  /\ new \in Reviewers(g) /\ new \in GateSteps(g) /\ new \in Steps /\ Deps(new) = {s}
             /\ \E i \in 1..MaxIterations[g] : s = Rework(g, i) /\ new = Reviewer(g, i)
  <2>1. PICK i \in 1..MaxIterations[g] : s = Rework(g, i)
    BY <1>2 DEF Reworks
  <2>2. new = Reviewer(g, i)
    BY <1>2, <2>1, ReworkFacts
  <2>3. new \in Reviewers(g) /\ Deps(new) = {s}
    BY <2>1, <2>2, ReviewerFacts
  <2> QED BY <2>1, <2>2, <2>3, ReviewerKinds, GateStepKinds
<1> QED BY <1>1, <1>2 DEF derivedReviewers

\* completeStep releases only eligible Steps.
LEMMA CompleteStepBarrier ==
  ASSUME TypeOK, GateBarrier, [Next]_storeVars, NEW o, NEW s \in Steps, NEW a,
         completeStep(o, s, a),
         NEW t \in Steps, step[t] \notin Released, step'[t] \in Released
  PROVE  isStepEligibleForReady(t, step', gate')
<1> DEFINE done == [step EXCEPT ![s] = "completed"]
           mid == MakeReady(done, derivedReviewers(s))
<1>1. step' = releaseEligiblePendingSteps(mid, gate) /\ gate' = gate /\ step[s] = "running"
  BY DEF completeStep, LiveFence, reviewVars
<1>2. done \in StepRows /\ mid \in StepRows
  BY RewriteType DEF TypeOK, StepRows
<1>3. mid[t] = IF t \in derivedReviewers(s) THEN "ready" ELSE done[t]
  BY DEF MakeReady
<1>4. isStepEligibleForReady(s, step, gate) /\ step'[s] = "completed"
  BY <1>1, CompleteStepMoves DEF GateBarrier
<1>5. CASE t \in derivedReviewers(s)
  <2>1. PICK g \in Gates : /\ t \in GateSteps(g) /\ Deps(t) = {s}
                           /\ s = Target[g] \/ \E i \in 1..MaxIterations[g] : s = Rework(g, i)
    BY <1>5, DerivedReviewersFacts
  <2>2. s = Target[g] \/ s \in GateSteps(g)
    BY <2>1, ReworkFacts DEF GateSteps
  <2> QED BY <1>4, <2>1, <2>2, NewcomerIsEligible
<1>6. CASE t \notin derivedReviewers(s)
  <2>1. t # s
    BY <1>1 DEF Released
  <2>2. mid[t] \notin Released
    BY <1>3, <1>6, <2>1 DEF TypeOK
  <2> HIDE DEF mid
  <2> QED BY <1>1, <1>2, <2>2, ReleasedAreEligible
<1> QED BY <1>5, <1>6

\* A verdict releases only eligible Steps.
LEMMA ReviewBarrier ==
  ASSUME TypeOK, GateBarrier, [Next]_storeVars, NEW o, NEW s \in Steps, NEW a, NEW v,
         completeReviewStep(o, s, a, v),
         NEW t \in Steps, step[t] \notin Released, step'[t] \in Released
  PROVE  isStepEligibleForReady(t, step', gate')
<1> DEFINE done == [step EXCEPT ![s] = "completed"]
<1>1. PICK g \in Gates :
        /\ s \in Reviewers(g)
        /\ acceptReview(g, s) \/ rejectForRework(g, s) \/ applyReviewLimit(g, s)
  BY DEF completeReviewStep
<1>2. step[s] = "running" /\ step'[s] = "completed" /\ t # s
  BY ReviewMoves DEF Released
<1>3. done \in StepRows /\ done[t] = step[t]
  BY <1>2, RewriteType DEF TypeOK, StepRows
<1>4. isStepEligibleForReady(s, step, gate) /\ s \in GateSteps(g)
  BY <1>1, <1>2, ReviewerKinds DEF GateBarrier
<1>5. CASE acceptReview(g, s)
  <2>1. /\ step' = releaseEligiblePendingSteps(done, [gate EXCEPT ![g] = "accepted"])
        /\ gate' = [gate EXCEPT ![g] = "accepted"]
    BY <1>5 DEF acceptReview
  <2> HIDE DEF done
  <2> QED BY <1>3, <2>1, ReleasedAreEligible
<1>6. ASSUME NEW new, NEW target, DeriveNext(s, new, target) PROVE t = new
  <2>1. step' = MakeReady(done, {new})
    BY <1>6 DEF DeriveNext
  <2> HIDE DEF done
  <2> QED BY <1>3, <2>1, RewriteMoves
<1>7. CASE rejectForRework(g, s)
  <2> DEFINE i == Iteration(s) + 1
  <2>1. DeriveNext(s, Rework(g, i), "revising") /\ Iteration(s) < MaxIterations[g]
    BY <1>7 DEF rejectForRework
  <2>2. s = Reviewer(g, Iteration(s)) /\ Iteration(s) \in 0..MaxIterations[g]
    BY <1>1, <2>1, ReviewerKinds, GraphAssumption
  <2>3. i \in 1..MaxIterations[g] /\ i - 1 = Iteration(s)
    BY <2>1, <2>2, GraphAssumption
  <2>4. t = Rework(g, i)
    BY <1>6, <2>1
  <2>5. t \in GateSteps(g) /\ Deps(t) = {s}
    BY <2>2, <2>3, <2>4, ReworkFacts DEF GateSteps
  <2> QED BY <1>2, <1>4, <2>5, NewcomerIsEligible
<1>8. CASE reassignReview(g, s)
  <2>1. /\ DeriveNext(s, BackupReviewer(g), "reviewing") /\ CanReassign(g)
        /\ Iteration(s) = MaxIterations[g]
    BY <1>8 DEF reassignReview
  <2>2. t = BackupReviewer(g)
    BY <1>6, <2>1
  <2>3. s # t
    BY <1>2
  <2>4. s = Reviewer(g, MaxIterations[g])
    BY <1>1, <2>1, <2>2, <2>3, ReviewerKinds
  <2>5. t \in GateSteps(g) /\ Deps(t) = {s}
    BY <2>1, <2>2, <2>4, BackupFacts DEF GateSteps
  <2> QED BY <1>2, <1>4, <2>5, NewcomerIsEligible
<1>9. CASE abortAtLimit(g, s) \/ pauseAtLimit(g, s)
  <2>1. step' = CancelUnfinished(done) \/ step' = done
    BY <1>9 DEF abortAtLimit, pauseAtLimit
  <2>2. step'[t] \in {step[t], "cancelled"}
    BY <1>3, <2>1 DEF CancelUnfinished
  <2> QED BY <2>2 DEF Released
<1> QED BY <1>1, <1>5, <1>7, <1>8, <1>9 DEF applyReviewLimit

\* The other transactions release only eligible Steps.
LEMMA OtherBarrier ==
  ASSUME TypeOK, [Next]_storeVars,
         \/ \E o \in Owners, requested \in SUBSET Steps : claimReadySteps(o, requested)
         \/ \E s \in Steps : LeaseExpires(s)
         \/ recoverRun
         \/ \E o \in Owners, s \in Steps, a \in 1..MaxAttempts :
              failStep(o, s, a) \/ \E act \in Actions : requestApproval(s, act, o, a)
         \/ \E s \in Steps : prepareReviewStepForExecution(s)
         \/ \E s \in Steps : selectImage(s)
         \/ \E s \in MergeSteps :
              mergeCleanly(s) \/ createMergeConflict(s) \/ resolveMergeConflict(s)
         \/ \E s \in Steps, act \in Actions, decision \in {"approved", "rejected"} :
              decideApproval(s, act, decision)
         \/ pauseRun \/ resumeRun \/ cancelRun \/ UNCHANGED storeVars,
         NEW t \in Steps, step[t] \notin Released, step'[t] \in Released
  PROVE  isStepEligibleForReady(t, step', gate')
<1>1. ASSUME NEW o \in Owners, NEW requested \in SUBSET Steps, claimReadySteps(o, requested)
      PROVE  isStepEligibleForReady(t, step', gate')
  <2>1. isStepEligibleForReady(t, step, gate)
    BY <1>1, ClaimWrites DEF FailSnapshots, StartSteps, ClaimableSteps
  <2> QED BY <2>1, EligibleStays
<1>2. step' # step
  OBVIOUS
<1>3. ~(\/ (\E s \in Steps : LeaseExpires(s) \/ prepareReviewStepForExecution(s)
                              \/ selectImage(s))
        \/ (\E s \in MergeSteps : createMergeConflict(s))
        \/ pauseRun \/ resumeRun \/ UNCHANGED storeVars)
  BY <1>2 DEF LeaseExpires, prepareReviewStepForExecution, selectImage, createMergeConflict,
              pauseRun, resumeRun, storeVars
<1>4. ~recoverRun
  BY DEF recoverRun, ExpiredSteps, Released
<1>5. ~cancelRun
  BY DEF cancelRun, CancelUnfinished, Released
<1>6. ASSUME NEW o, NEW s \in Steps, NEW a, failStep(o, s, a) PROVE FALSE
  BY <1>6 DEF failStep, LiveFence, TypeOK, Released
<1>7. ASSUME NEW o, NEW s \in Steps, NEW a, NEW act \in Actions, requestApproval(s, act, o, a)
      PROVE  isStepEligibleForReady(t, step', gate')
  <2>1. /\ \/ step[s] = "ready" \/ step[s] = "running"
           \/ step[s] = "pending" /\ isStepEligibleForReady(s, step, gate)
        /\ step' = [step EXCEPT ![s] = "awaitingApproval"]
    BY <1>7 DEF requestApproval, awaitStepApproval
  <2>2. t = s
    BY <2>1 DEF TypeOK
  <2>3. isStepEligibleForReady(t, step, gate)
    BY <2>1, <2>2 DEF Released
  <2> QED BY <2>3, EligibleStays
<1>8. ASSUME NEW s \in Steps, NEW act \in Actions, NEW decision, decideApproval(s, act, decision)
      PROVE  FALSE
  BY <1>8 DEF decideApproval, resolveStepApproval, TypeOK, Released
<1>9. ASSUME NEW s \in MergeSteps, mergeCleanly(s) \/ resolveMergeConflict(s)
      PROVE  isStepEligibleForReady(t, step', gate')
  <2> DEFINE done == [step EXCEPT ![s] = "completed"]
  <2>1. completeMergeStep(s)
    BY <1>2, <1>9 DEF mergeCleanly, resolveMergeConflict
  <2>2. step' = releaseEligiblePendingSteps(done, gate) /\ gate' = gate /\ step[s] = "ready"
    BY <2>1 DEF completeMergeStep, reviewVars
  <2>3. done \in StepRows /\ done[t] = step[t]
    BY <2>2, RewriteType DEF TypeOK, StepRows, Released
  <2> HIDE DEF done
  <2> QED BY <2>2, <2>3, ReleasedAreEligible
<1> QED BY <1>1, <1>3, <1>4, <1>5, <1>6, <1>7, <1>8, <1>9

\* Every transaction keeps the barrier.
LEMMA NextBarrier == TypeOK /\ GateBarrier /\ [Next]_storeVars => GateBarrier'
<1> SUFFICES ASSUME TypeOK, GateBarrier, [Next]_storeVars, NEW t \in Steps, step'[t] \in Released
             PROVE  isStepEligibleForReady(t, step', gate')
  BY DEF GateBarrier, isStepEligibleForReady, Released
<1>1. CASE step[t] \in Released
  <2>1. isStepEligibleForReady(t, step, gate)
    BY <1>1 DEF GateBarrier, Released
  <2> QED BY <2>1, EligibleStays
<1>2. CASE step[t] \notin Released
  <2>1. ASSUME NEW o \in Owners, NEW s \in Steps, NEW a \in 1..MaxAttempts,
               \/ completeStep(o, s, a)
               \/ \E v \in {"accept", "reject"} : completeReviewStep(o, s, a, v)
        PROVE  isStepEligibleForReady(t, step', gate')
    BY <1>2, <2>1, CompleteStepBarrier, ReviewBarrier
  <2> QED BY <1>2, <2>1, OtherBarrier DEF Next, ExecutionOps
<1> QED BY <1>1, <1>2

\* No Step is released, run or finished before its dependencies are completed and
\* the gates above it accepted, for every graph plan.approve can persist.
THEOREM GatesHoldTheLine == Spec => []GateBarrier
<1>1. Init => GateBarrier
  <2> SUFFICES ASSUME Init, NEW s \in Steps PROVE step[s] \in {"pending", "absent"}
    BY DEF GateBarrier
  <2> QED BY DEF Init
<1> QED BY <1>1, TypeCorrect, NextBarrier, PTL DEF Spec

-----------------------------------------------------------------------------
(* Reviews                                                                 *)

\* The review Steps of a gate that are in the rows and not completed.
Open(g) == {s \in GateSteps(g) : step[s] \notin {"absent", "completed"}}

\* Derived Steps appear once the target is completed, ready at once.
DerivedAfterTarget(g) ==
  \A s \in GateSteps(g) : s \notin PlanSteps /\ step[s] # "absent" =>
    step[s] # "pending" /\ step[Target[g]] = "completed"

\* One review Step carries an active review.
OneOpen(g) ==
  gate[g] = "active" /\ step[Target[g]] = "completed" => \E s \in GateSteps(g) : Open(g) = {s}

\* ReviewTrail, for one gate.
Trail(g) ==
  /\ gate[g] = "accepted" =>
       step[Target[g]] = "completed" /\ \E s \in Reviewers(g) : verdict[s] = "accept"
  /\ gate[g] # "accepted" => \A s \in Reviewers(g) : verdict[s] # "accept"
  /\ \A i \in 1..MaxIterations[g] :
       step[Rework(g, i)] # "absent" => verdict[Reviewer(g, i - 1)] = "reject"
  /\ CanReassign(g) /\ step[BackupReviewer(g)] # "absent" =>
       reassigned[g] /\ verdict[Reviewer(g, MaxIterations[g])] = "reject"

\* What is kept of one gate.
GateInv(g) == DerivedAfterTarget(g) /\ OneOpen(g) /\ Trail(g)

\* The inductive invariant behind the three theorems about reviews.
ReviewInv == TypeOK /\ GateBarrier /\ \A g \in Gates : GateInv(g)

\* A review Step that was released has a completed target.
LEMMA TargetIsCompleted ==
  ASSUME ReviewInv, NEW g \in Gates, NEW s \in GateSteps(g), step[s] \in Released
  PROVE  step[Target[g]] = "completed"
<1>1. CASE s \in PlanSteps
  <2>1. s \in Steps /\ Deps(s) = {Target[g]}
    BY <1>1, GateStepIds, InitialReviewerFacts
  <2> QED BY <2>1 DEF ReviewInv, GateBarrier, isStepEligibleForReady, Released
<1>2. CASE s \notin PlanSteps
  BY <1>2 DEF ReviewInv, GateInv, DerivedAfterTarget, Released
<1> QED BY <1>1, <1>2

\* A step that neither inserts nor completes the Step t.
Still(t) ==
  /\ step'[t] = "absent" <=> step[t] = "absent"
  /\ step'[t] = "completed" <=> step[t] = "completed"
  /\ step'[t] = "pending" => step[t] = "pending"

\* A transaction that leaves a gate and its Steps alone keeps what is known of them.
LEMMA GateUntouched ==
  ASSUME ReviewInv, NEW g \in Gates, \A t \in GateSteps(g) : Still(t), Still(Target[g]),
         gate'[g] = gate[g], reassigned'[g] = reassigned[g],
         \A t \in Reviewers(g) : verdict'[t] = verdict[t]
  PROVE  GateInv(g)'
<1>1. GateInv(g) /\ MaxIterations[g] \in Nat
  BY GraphAssumption DEF ReviewInv
<1>2. Open(g)' = Open(g)
  BY DEF Open, Still
<1>3. DerivedAfterTarget(g)'
  BY <1>1 DEF GateInv, DerivedAfterTarget, Still
<1>4. OneOpen(g)'
  BY <1>1, <1>2 DEF GateInv, OneOpen, Still
<1>5. Trail(g)'
  <2>1. \A i \in 1..MaxIterations[g] :
          Rework(g, i) \in GateSteps(g) /\ Reviewer(g, i - 1) \in Reviewers(g)
    BY <1>1, ReworkFacts DEF GateSteps, Reviewers
  <2>2. CanReassign(g) => BackupReviewer(g) \in GateSteps(g)
    BY BackupFacts DEF GateSteps
  <2>3. Reviewer(g, MaxIterations[g]) \in Reviewers(g)
    BY <1>1 DEF Reviewers
  <2> QED BY <1>1, <2>1, <2>2, <2>3 DEF GateInv, Trail, Still
<1> QED BY <1>3, <1>4, <1>5 DEF GateInv

\* completeStep: the target or a rework hands over to the reviewer it calls for.
LEMMA CompleteStepReviews ==
  ASSUME ReviewInv, NEW o, NEW s \in Steps, NEW a, completeStep(o, s, a), NEW g \in Gates
  PROVE  GateInv(g)'
<1> DEFINE new == derivedReviewers(s)
           done == [step EXCEPT ![s] = "completed"]
           mid == MakeReady(done, new)
<1>0. TypeOK /\ GateInv(g)
  BY DEF ReviewInv
<1>1. /\ step' = releaseEligiblePendingSteps(mid, gate) /\ step[s] = "running"
      /\ s \notin Reviewers(g)
      /\ \A t \in new : step[t] \in {"pending", "absent"}
      /\ UNCHANGED <<gate, reassigned, verdict>>
  BY DEF completeStep, LiveFence, reviewVars
<1>2. ASSUME NEW t \in Steps, t # s, t \notin new
      PROVE  step'[t] = step[t] \/ (step[t] = "pending" /\ step'[t] = "ready")
  <2>1. mid[t] = step[t]
    BY <1>0, <1>2 DEF MakeReady, TypeOK
  <2> HIDE DEF mid
  <2> QED BY <1>1, <2>1 DEF releaseEligiblePendingSteps
<1>3. ASSUME NEW t \in Steps, t \in new PROVE step'[t] = "ready"
  <2>1. mid[t] = "ready"
    BY <1>3 DEF MakeReady
  <2> HIDE DEF mid
  <2> QED BY <1>1, <2>1 DEF releaseEligiblePendingSteps
<1>4. step'[s] = "completed"
  BY <1>0, CompleteStepMoves
<1>5. ASSUME NEW t \in new
      PROVE  \E h \in Gates :
               /\ t \in Reviewers(h) /\ t \in GateSteps(h) /\ t \in Steps
               /\ \/ s = Target[h] /\ t = InitialReviewer(h) /\ gate[h] = "active"
                  \/ \E i \in 1..MaxIterations[h] : s = Rework(h, i) /\ t = Reviewer(h, i)
  BY DerivedReviewersFacts
<1> HIDE DEF new, mid, done
<1>6. ASSUME NEW t, t = Target[g] \/ t \in GateSteps(g)
      PROVE  t \in Steps
  BY <1>6, GatesAreApart, GateStepKinds
<1>7. Target[g] \notin new
  BY <1>5, GatesAreApart
<1>8. ASSUME NEW t \in new, t \in GateSteps(g)
      PROVE  /\ t \in Reviewers(g)
             /\ \/ s = Target[g] /\ t = InitialReviewer(g) /\ gate[g] = "active"
                \/ \E i \in 1..MaxIterations[g] : s = Rework(g, i) /\ t = Reviewer(g, i)
  BY <1>5, <1>8, GatesAreApart
<1>9. Trail(g)'
  <2>1. \A i \in 1..MaxIterations[g] : Rework(g, i) \in GateSteps(g) /\ Rework(g, i) \notin new
    BY <1>8, ReworkFacts, ReworksAreApart DEF GateSteps
  <2>2. \A i \in 1..MaxIterations[g] : step'[Rework(g, i)] # "absent" => step[Rework(g, i)] # "absent"
    BY <1>1, <1>2, <1>6, <2>1
  <2>3. BackupReviewer(g) \notin new \/ ~CanReassign(g)
    <3> SUFFICES ASSUME CanReassign(g), BackupReviewer(g) \in new PROVE FALSE
      OBVIOUS
    <3>1. BackupReviewer(g) \in GateSteps(g) /\ MaxIterations[g] \in Nat
      BY BackupFacts, GraphAssumption DEF GateSteps
    <3>2. PICK i \in 0..MaxIterations[g] : BackupReviewer(g) = Reviewer(g, i)
      <4>1. CASE BackupReviewer(g) = InitialReviewer(g)
        BY <3>1, <4>1, InitialReviewerFacts
      <4>2. CASE \E i \in 1..MaxIterations[g] : BackupReviewer(g) = Reviewer(g, i)
        BY <3>1, <4>2
      <4> QED BY <1>8, <3>1, <4>1, <4>2
    <3>3. Reviewer(g, i) # BackupReviewer(g)
      <4>1. CASE i = 0
        BY <4>1, InitialReviewerFacts, BackupFacts DEF DerivedStep
      <4>2. CASE i \in 1..MaxIterations[g]
        BY <4>2, ReviewerFacts, BackupFacts DEF DerivedStep
      <4> QED BY <3>1, <4>1, <4>2
    <3> QED BY <3>2, <3>3
  <2>4. CanReassign(g) /\ step'[BackupReviewer(g)] # "absent" => step[BackupReviewer(g)] # "absent"
    <3> SUFFICES ASSUME CanReassign(g), step'[BackupReviewer(g)] # "absent"
                 PROVE  step[BackupReviewer(g)] # "absent"
      OBVIOUS
    <3>1. BackupReviewer(g) \in Steps
      BY <1>6, BackupFacts DEF GateSteps
    <3> QED BY <1>1, <1>2, <2>3, <3>1
  <2>5. step[Target[g]] = "completed" => step'[Target[g]] = "completed"
    BY <1>2, <1>4, <1>6, <1>7
  <2> QED BY <1>0, <1>1, <2>2, <2>4, <2>5 DEF GateInv, Trail
<1>10. CASE s = Target[g]
  <2>1. step'[Target[g]] = "completed"
    BY <1>4, <1>10
  <2>2. \A t \in GateSteps(g) : t \notin PlanSteps => step[t] = "absent"
    BY <1>0, <1>1, <1>10 DEF GateInv, DerivedAfterTarget
  <2>3. ASSUME NEW t \in GateSteps(g), t # InitialReviewer(g) PROVE step'[t] = "absent"
    <3>1. t \in Steps /\ t # s /\ step[t] = "absent"
      BY <1>10, <2>2, <2>3, GateStepIds, GateStepKinds, GatesAreApart
    <3>2. t \notin new
      <4> SUFFICES ASSUME t \in new PROVE FALSE
        OBVIOUS
      <4>1. PICK i \in 1..MaxIterations[g] : s = Rework(g, i)
        BY <1>8, <2>3
      <4> QED BY <1>10, <4>1, ReworkFacts, GatesAreApart
    <3> QED BY <1>2, <3>1, <3>2
  <2>4. gate[g] = "active" => InitialReviewer(g) \in new
    BY <1>10 DEF new, derivedReviewers
  <2>5. InitialReviewer(g) \in GateSteps(g) /\ InitialReviewer(g) \in Steps
    BY InitialReviewerFacts, ReviewerKinds
  <2>6. InitialReviewer(g) # s
    BY <1>10, <2>5, GatesAreApart
  <2>7. DerivedAfterTarget(g)'
    <3> SUFFICES ASSUME InitialReviewer(g) \notin PlanSteps
                 PROVE  step'[InitialReviewer(g)] # "pending"
      BY <2>1, <2>3 DEF DerivedAfterTarget
    <3>1. step[InitialReviewer(g)] = "absent"
      BY <2>2, <2>5
    <3> QED BY <1>2, <1>3, <2>5, <2>6, <3>1
  <2>8. OneOpen(g)'
    <3> SUFFICES ASSUME gate[g] = "active" PROVE Open(g)' = {InitialReviewer(g)}
      BY <1>1, <2>5 DEF OneOpen
    <3>1. step'[InitialReviewer(g)] = "ready"
      BY <1>3, <2>4, <2>5
    <3> QED BY <2>3, <2>5, <3>1 DEF Open
  <2> QED BY <1>9, <2>7, <2>8 DEF GateInv
<1>11. ASSUME NEW i \in 1..MaxIterations[g], s = Rework(g, i) PROVE GateInv(g)'
  <2>1. s \in GateSteps(g) /\ s \notin PlanSteps
    BY <1>11, ReworkFacts DEF GateSteps
  <2>2. step[Target[g]] = "completed" /\ s # Target[g]
    BY <1>0, <1>1, <2>1, GatesAreApart DEF GateInv, DerivedAfterTarget
  <2>3. step'[Target[g]] = "completed"
    BY <1>2, <1>6, <1>7, <2>2
  <2> DEFINE next == Reviewer(g, i)
  <2>4. next \in new
    BY <1>11, ReworkFacts DEF new, derivedReviewers
  <2>5. next \in GateSteps(g) /\ next \in Steps /\ next # s
    BY <1>1, <1>6, ReviewerFacts, ReviewerKinds
  <2>6. ASSUME NEW t \in new, t \in GateSteps(g) PROVE t = next
    <3>1. PICK j \in 1..MaxIterations[g] : s = Rework(g, j) /\ t = Reviewer(g, j)
      BY <1>8, <2>2, <2>6
    <3> QED BY <1>11, <3>1, ReworksAreApart
  <2>7. DerivedAfterTarget(g)'
    <3> SUFFICES ASSUME NEW t \in GateSteps(g), t \notin PlanSteps, step'[t] # "absent"
                 PROVE  step'[t] # "pending"
      BY <2>3 DEF DerivedAfterTarget
    <3>1. t \in Steps
      BY <1>6
    <3>2. CASE t = s \/ t \in new
      BY <1>3, <1>4, <3>1, <3>2
    <3>3. CASE t # s /\ t \notin new
      BY <1>0, <1>2, <3>1, <3>3 DEF GateInv, DerivedAfterTarget
    <3> QED BY <3>2, <3>3
  <2>8. OneOpen(g)'
    <3> SUFFICES ASSUME gate[g] = "active" PROVE Open(g)' = {next}
      BY <1>1, <2>5 DEF OneOpen
    <3>1. Open(g) = {s}
      BY <1>0, <1>1, <2>1, <2>2 DEF GateInv, OneOpen, Open
    <3>2. step'[next] = "ready"
      BY <1>3, <2>4, <2>5
    <3>3. ASSUME NEW t \in GateSteps(g), t # next PROVE step'[t] \in {"absent", "completed"}
      <4>1. CASE t = s
        BY <1>4, <4>1
      <4>2. CASE t # s
        <5>1. step[t] \in {"absent", "completed"} /\ t \notin new
          BY <2>6, <3>1, <3>3, <4>2 DEF Open
        <5> QED BY <1>2, <1>6, <4>2, <5>1
      <4> QED BY <4>1, <4>2
    <3> QED BY <2>5, <3>2, <3>3 DEF Open
  <2> QED BY <1>9, <2>7, <2>8 DEF GateInv
<1>12. CASE s # Target[g] /\ \A i \in 1..MaxIterations[g] : s # Rework(g, i)
  <2>1. s \notin GateSteps(g)
    BY <1>1, <1>12 DEF GateSteps, Reworks
  <2>2. \A t \in GateSteps(g) : t \notin new
    BY <1>8, <1>12
  <2>3. ASSUME NEW t, t = Target[g] \/ t \in GateSteps(g) PROVE Still(t)
    <3>1. t \in Steps /\ t # s /\ t \notin new
      BY <1>6, <1>7, <1>12, <2>1, <2>2, <2>3
    <3> QED BY <1>2, <3>1 DEF Still
  <2> QED BY <1>1, <2>3, GateUntouched
<1> QED BY <1>10, <1>11, <1>12

\* A verdict and the other gates: their Steps are at most released or cancelled.
LEMMA VerdictElsewhere ==
  ASSUME ReviewInv, NEW o, NEW s \in Steps, NEW a, NEW v, completeReviewStep(o, s, a, v),
         NEW g \in Gates, s \notin Reviewers(g)
  PROVE  GateInv(g)'
<1> DEFINE done == [step EXCEPT ![s] = "completed"]
<1>1. PICK h \in Gates :
        /\ s \in Reviewers(h)
        /\ acceptReview(h, s) \/ rejectForRework(h, s) \/ applyReviewLimit(h, s)
        /\ verdict' = [verdict EXCEPT ![s] = v]
  BY DEF completeReviewStep
<1>2. TypeOK /\ h # g /\ s \in GateSteps(h)
  BY <1>1, ReviewerKinds DEF ReviewInv
<1>3. gate'[g] = gate[g] /\ reassigned'[g] = reassigned[g]
  BY <1>1, <1>2 DEF acceptReview, rejectForRework, applyReviewLimit, reassignReview, abortAtLimit,
                    pauseAtLimit, ReachLimit, TypeOK
<1>4. \A t \in Reviewers(g) : verdict'[t] = verdict[t]
  BY <1>1 DEF ReviewInv, TypeOK
<1>5. ASSUME NEW t, t = Target[g] \/ t \in GateSteps(g)
      PROVE  t \in Steps /\ t # s /\ t \notin GateSteps(h)
  BY <1>2, <1>5, GatesAreApart, GateStepKinds
<1>6. ASSUME NEW t, t = Target[g] \/ t \in GateSteps(g) PROVE Still(t)
  <2>1. t \in Steps /\ t # s /\ t \notin GateSteps(h)
    BY <1>5, <1>6
  <2>2. done \in StepRows /\ done[t] = step[t]
    <3>1. step \in StepRows
      BY <1>2 DEF TypeOK, StepRows
    <3>2. done[t] = step[t]
      BY <2>1, <3>1 DEF StepRows
    <3> QED BY <3>1, <3>2, RewriteType
  <2>3. ASSUME NEW new \in GateSteps(h), NEW target, DeriveNext(s, new, target)
        PROVE  step'[t] = step[t]
    <3>1. step' = MakeReady(done, {new}) /\ t # new
      BY <2>1, <2>3 DEF DeriveNext
    <3> HIDE DEF done
    <3> QED BY <2>1, <2>2, <3>1, RewriteMoves
  <2>4. CASE acceptReview(h, s)
    <3>1. step' = releaseEligiblePendingSteps(done, [gate EXCEPT ![h] = "accepted"])
      BY <2>4 DEF acceptReview
    <3> HIDE DEF done
    <3> QED BY <2>1, <2>2, <3>1, RewriteMoves DEF Still
  <2>5. CASE rejectForRework(h, s)
    <3>1. /\ Iteration(s) < MaxIterations[h] /\ MaxIterations[h] \in Nat
          /\ DeriveNext(s, Rework(h, Iteration(s) + 1), "revising")
      BY <2>5, GraphAssumption DEF rejectForRework
    <3>2. Iteration(s) + 1 \in 1..MaxIterations[h]
      BY <1>1, <3>1, ReviewerKinds
    <3>3. Rework(h, Iteration(s) + 1) \in GateSteps(h)
      BY <3>2, ReworkFacts DEF GateSteps
    <3> QED BY <2>3, <3>1, <3>3 DEF Still
  <2>6. CASE reassignReview(h, s)
    <3>1. CanReassign(h) /\ DeriveNext(s, BackupReviewer(h), "reviewing")
      BY <2>6 DEF reassignReview
    <3>2. BackupReviewer(h) \in GateSteps(h)
      BY <3>1, BackupFacts DEF GateSteps
    <3> QED BY <2>3, <3>1, <3>2 DEF Still
  <2>7. CASE abortAtLimit(h, s) \/ pauseAtLimit(h, s)
    <3>1. step' = CancelUnfinished(done) \/ step' = done
      BY <2>7 DEF abortAtLimit, pauseAtLimit
    <3>2. step'[t] = step[t] \/ (step[t] \in Unfinished /\ step'[t] = "cancelled")
      BY <2>1, <2>2, <3>1 DEF CancelUnfinished
    <3> QED BY <3>2 DEF Still, Unfinished
  <2> QED BY <1>1, <2>4, <2>5, <2>6, <2>7 DEF applyReviewLimit
<1> QED BY <1>3, <1>4, <1>6, GateUntouched

\* The Step a rejection inserts takes the review over from the reviewer.
LEMMA ReviewIsHandedOn ==
  ASSUME ReviewInv, NEW g \in Gates, NEW s \in Reviewers(g), step[s] = "running",
         gate[g] = "active", NEW new \in GateSteps(g), NEW target, DeriveNext(s, new, target),
         gate' = gate, new \notin PlanSteps
  PROVE  /\ DerivedAfterTarget(g)' /\ OneOpen(g)' /\ step'[Target[g]] = "completed"
         /\ \A t \in GateSteps(g) : t # new =>
              (step'[t] # "absent" <=> step[t] # "absent")
<1> DEFINE done == [step EXCEPT ![s] = "completed"]
<1>1. TypeOK /\ s \in GateSteps(g) /\ s \in Steps /\ new \in Steps
  BY ReviewerKinds, GateStepKinds DEF ReviewInv
<1>2. step' = MakeReady(done, {new}) /\ step[new] = "absent" /\ new # s
  BY DEF DeriveNext
<1>3. done \in StepRows /\ \A t \in Steps : done[t] = IF t = s THEN "completed" ELSE step[t]
  BY <1>1, RewriteType DEF TypeOK, StepRows
<1> HIDE DEF done
<1>4. \A t \in Steps : step'[t] = IF t = new THEN "ready"
                                  ELSE IF t = s THEN "completed" ELSE step[t]
  BY <1>2, <1>3, RewriteMoves
<1>5. step[Target[g]] = "completed" /\ step'[Target[g]] = "completed"
  <2>1. step[Target[g]] = "completed"
    BY <1>1, TargetIsCompleted DEF Released
  <2>2. Target[g] \in Steps /\ Target[g] # new
    BY <1>2, <2>1, GatesAreApart
  <2> QED BY <1>4, <2>1, <2>2
<1>6. Open(g) = {s}
  <2>1. PICK t \in GateSteps(g) : Open(g) = {t}
    BY <1>5 DEF ReviewInv, GateInv, OneOpen
  <2>2. s \in Open(g)
    BY <1>1 DEF Open
  <2> QED BY <2>1, <2>2
<1>7. \A t \in GateSteps(g) : t \in Steps
  BY GateStepKinds
<1>8. Open(g)' = {new}
  <2>1. \A t \in GateSteps(g) : t # s => step[t] \in {"absent", "completed"}
    BY <1>6 DEF Open
  <2> QED BY <1>2, <1>4, <1>7, <2>1 DEF Open
<1>9. OneOpen(g)'
  BY <1>8 DEF OneOpen
<1>10. DerivedAfterTarget(g)'
  BY <1>4, <1>5, <1>7 DEF ReviewInv, GateInv, DerivedAfterTarget
<1>11. \A t \in GateSteps(g) : t # new => (step'[t] # "absent" <=> step[t] # "absent")
  BY <1>4, <1>7
<1> QED BY <1>5, <1>9, <1>10, <1>11

\* A verdict and its gate.
LEMMA VerdictOnGate ==
  ASSUME ReviewInv, NEW o, NEW s \in Steps, NEW a, NEW v \in {"accept", "reject"},
         completeReviewStep(o, s, a, v), NEW g \in Gates, s \in Reviewers(g)
  PROVE  GateInv(g)'
<1> DEFINE done == [step EXCEPT ![s] = "completed"]
<1>1. /\ gate[g] = "active" /\ verdict[s] = "none" /\ step[s] = "running"
      /\ verdict' = [verdict EXCEPT ![s] = v]
      /\ \/ v = "accept" /\ acceptReview(g, s)
         \/ v = "reject" /\ (rejectForRework(g, s) \/ applyReviewLimit(g, s))
  <2>1. PICK h \in Gates :
          /\ s \in Reviewers(h) /\ gate[h] = "active" /\ verdict[s] = "none"
          /\ verdict' = [verdict EXCEPT ![s] = v]
          /\ \/ v = "accept" /\ acceptReview(h, s)
             \/ v = "reject" /\ (rejectForRework(h, s) \/ applyReviewLimit(h, s))
    BY DEF completeReviewStep
  <2>2. h = g
    BY <2>1, ReviewerKinds, GatesAreApart
  <2> QED BY <2>1, <2>2 DEF completeReviewStep, LiveFence
<1>2. TypeOK /\ GateInv(g) /\ s \in GateSteps(g) /\ MaxIterations[g] \in Nat
  BY ReviewerKinds, GraphAssumption DEF ReviewInv
<1>3. step[Target[g]] = "completed" /\ Target[g] \in Steps /\ Target[g] # s
  BY <1>1, <1>2, TargetIsCompleted, GatesAreApart DEF Released
<1>4. /\ verdict'[s] = v
      /\ \A t \in Steps : t # s => verdict'[t] = verdict[t]
      /\ \A t \in Steps : verdict[t] = "reject" => verdict'[t] = "reject"
  BY <1>1, <1>2 DEF TypeOK
<1>5. \A t \in GateSteps(g) : t \in Steps
  BY GateStepKinds
<1>6. /\ \A i \in 1..MaxIterations[g] :
           /\ Rework(g, i) \in GateSteps(g)
           /\ i - 1 \in 0..MaxIterations[g] /\ Reviewer(g, i - 1) \in Steps
      /\ Reviewer(g, MaxIterations[g]) \in Steps
      /\ CanReassign(g) => BackupReviewer(g) \in GateSteps(g)
      /\ \A t \in Reviewers(g) : t \in Steps
  <2>1. \A i \in 0..MaxIterations[g] : Reviewer(g, i) \in Reviewers(g)
    BY DEF Reviewers
  <2>2. \A t \in Reviewers(g) : t \in Steps
    BY <1>5 DEF GateSteps
  <2>3. \A i \in 1..MaxIterations[g] : i - 1 \in 0..MaxIterations[g]
    BY <1>2
  <2> QED BY <1>2, <2>1, <2>2, <2>3, ReworkFacts, BackupFacts DEF GateSteps
<1>7. done \in StepRows /\ \A t \in Steps : done[t] = IF t = s THEN "completed" ELSE step[t]
  BY <1>2, RewriteType DEF TypeOK, StepRows
<1> DEFINE Resolved == /\ \A t \in Steps : (step'[t] # "absent" <=> step[t] # "absent")
                       /\ \A t \in Steps : step'[t] = "pending" => step[t] = "pending"
                       /\ step'[Target[g]] = "completed"
                       /\ gate'[g] # "active" /\ reassigned' = reassigned
                       /\ gate'[g] = "accepted" <=> v = "accept"
<1>8. ASSUME Resolved PROVE GateInv(g)'
  <2>1. DerivedAfterTarget(g)'
    BY <1>2, <1>5, <1>8 DEF GateInv, DerivedAfterTarget
  <2>2. OneOpen(g)'
    BY <1>8 DEF OneOpen
  <2>3. gate[g] # "accepted" /\ \A t \in Reviewers(g) : verdict[t] # "accept"
    BY <1>1, <1>2 DEF GateInv, Trail
  <2>4. Trail(g)'
    BY <1>2, <1>4, <1>5, <1>6, <1>8, <2>3 DEF GateInv, Trail
  <2> QED BY <2>1, <2>2, <2>4 DEF GateInv
<1>9. CASE v = "accept" /\ acceptReview(g, s)
  <2>1. /\ step' = releaseEligiblePendingSteps(done, [gate EXCEPT ![g] = "accepted"])
        /\ gate' = [gate EXCEPT ![g] = "accepted"] /\ reassigned' = reassigned
    BY <1>9 DEF acceptReview
  <2> HIDE DEF done
  <2>2. \A t \in Steps : step'[t] = done[t] \/ (done[t] = "pending" /\ step'[t] = "ready")
    BY <1>7, <2>1, RewriteMoves
  <2>3. gate'[g] = "accepted"
    BY <1>2, <2>1 DEF TypeOK
  <2> QED BY <1>1, <1>3, <1>7, <1>8, <1>9, <2>1, <2>2, <2>3
<1>10. CASE v = "reject" /\ (abortAtLimit(g, s) \/ pauseAtLimit(g, s))
  <2>1. /\ step' = CancelUnfinished(done) \/ step' = done
        /\ gate' = [gate EXCEPT ![g] = "limit-reached"] /\ reassigned' = reassigned
    BY <1>10 DEF abortAtLimit, pauseAtLimit, ReachLimit
  <2> HIDE DEF done
  <2>2. \A t \in Steps : step'[t] = done[t] \/ (done[t] \in Unfinished /\ step'[t] = "cancelled")
    BY <1>7, <2>1, RewriteMoves
  <2>3. gate'[g] = "limit-reached"
    BY <1>2, <2>1 DEF TypeOK
  <2> QED BY <1>1, <1>3, <1>7, <1>8, <1>10, <2>1, <2>2, <2>3 DEF Unfinished
<1>11. CASE v = "reject" /\ rejectForRework(g, s)
  <2> DEFINE i == Iteration(s) + 1
             new == Rework(g, i)
  <2>1. /\ Iteration(s) < MaxIterations[g] /\ DeriveNext(s, new, "revising")
        /\ UNCHANGED <<gate, reassigned>>
    BY <1>11 DEF rejectForRework
  <2>2. /\ i \in 1..MaxIterations[g] /\ s = Reviewer(g, i - 1)
    BY <1>2, <2>1, ReviewerKinds
  <2>3. new \in GateSteps(g) /\ new \notin PlanSteps /\ new # BackupReviewer(g)
    BY <2>2, ReworkFacts, BackupFacts DEF GateSteps, DerivedStep
  <2> HIDE DEF new
  <2>4. /\ DerivedAfterTarget(g)' /\ OneOpen(g)' /\ step'[Target[g]] = "completed"
        /\ \A t \in GateSteps(g) : t # new => (step'[t] # "absent" <=> step[t] # "absent")
    BY <1>1, <2>1, <2>3, ReviewIsHandedOn
  <2> HIDE DEF i
  <2>5. \A t \in Reviewers(g) : verdict'[t] # "accept"
    BY <1>1, <1>2, <1>4, <1>6, <1>11 DEF GateInv, Trail
  <2>6. ASSUME NEW j \in 1..MaxIterations[g], step'[Rework(g, j)] # "absent"
        PROVE  verdict'[Reviewer(g, j - 1)] = "reject"
    <3>1. CASE j = i
      BY <1>4, <1>11, <2>2, <3>1
    <3>2. CASE j # i
      <4>1. Rework(g, j) # new
        BY <2>2, <3>2, ReworksAreApart DEF new
      <4>2. step[Rework(g, j)] # "absent"
        BY <1>6, <2>4, <2>6, <4>1
      <4> QED BY <1>2, <1>4, <1>6, <4>2 DEF GateInv, Trail
    <3> QED BY <3>1, <3>2
  <2>7. CanReassign(g) /\ step'[BackupReviewer(g)] # "absent" =>
          reassigned'[g] /\ verdict'[Reviewer(g, MaxIterations[g])] = "reject"
    BY <1>2, <1>4, <1>6, <2>1, <2>3, <2>4 DEF GateInv, Trail
  <2>8. Trail(g)'
    BY <1>1, <2>1, <2>5, <2>6, <2>7 DEF Trail
  <2> QED BY <2>4, <2>8 DEF GateInv
<1>12. CASE v = "reject" /\ reassignReview(g, s)
  <2> DEFINE new == BackupReviewer(g)
  <2>1. /\ Iteration(s) = MaxIterations[g] /\ DeriveNext(s, new, "reviewing")
        /\ CanReassign(g) /\ gate' = gate /\ reassigned' = [reassigned EXCEPT ![g] = TRUE]
    BY <1>12 DEF reassignReview
  <2>2. step[new] = "absent" /\ s # new
    BY <1>1, <2>1 DEF DeriveNext
  <2>3. s = Reviewer(g, MaxIterations[g])
    BY <2>1, <2>2, ReviewerKinds
  <2>4. new \in GateSteps(g) /\ new \notin PlanSteps
    BY <1>6, <2>1, BackupFacts
  <2>5. \A j \in 1..MaxIterations[g] : Rework(g, j) # new
    BY ReworkFacts, BackupFacts DEF DerivedStep
  <2> HIDE DEF new
  <2>6. /\ DerivedAfterTarget(g)' /\ OneOpen(g)' /\ step'[Target[g]] = "completed"
        /\ \A t \in GateSteps(g) : t # new => (step'[t] # "absent" <=> step[t] # "absent")
    BY <1>1, <2>1, <2>4, ReviewIsHandedOn
  <2>7. \A t \in Reviewers(g) : verdict'[t] # "accept"
    BY <1>1, <1>2, <1>4, <1>6, <1>12 DEF GateInv, Trail
  <2>8. \A j \in 1..MaxIterations[g] :
          step'[Rework(g, j)] # "absent" => verdict'[Reviewer(g, j - 1)] = "reject"
    BY <1>2, <1>4, <1>6, <2>5, <2>6 DEF GateInv, Trail
  <2>9. reassigned'[g] /\ verdict'[Reviewer(g, MaxIterations[g])] = "reject"
    BY <1>2, <1>4, <1>12, <2>1, <2>3 DEF TypeOK
  <2>10. Trail(g)'
    BY <1>1, <2>1, <2>7, <2>8, <2>9 DEF Trail
  <2> QED BY <2>6, <2>10 DEF GateInv
<1> QED BY <1>1, <1>9, <1>10, <1>11, <1>12 DEF applyReviewLimit

\* The other transactions neither insert nor complete a review Step or a target.
LEMMA OtherReviews ==
  ASSUME ReviewInv,
         \/ \E o \in Owners, requested \in SUBSET Steps : claimReadySteps(o, requested)
         \/ \E s \in Steps : LeaseExpires(s)
         \/ recoverRun
         \/ \E o \in Owners, s \in Steps, a \in 1..MaxAttempts :
              failStep(o, s, a) \/ \E act \in Actions : requestApproval(s, act, o, a)
         \/ \E s \in Steps : prepareReviewStepForExecution(s)
         \/ \E s \in Steps : selectImage(s)
         \/ \E s \in MergeSteps :
              mergeCleanly(s) \/ createMergeConflict(s) \/ resolveMergeConflict(s)
         \/ \E s \in Steps, act \in Actions, decision \in {"approved", "rejected"} :
              decideApproval(s, act, decision)
         \/ pauseRun \/ resumeRun \/ cancelRun \/ UNCHANGED storeVars,
         NEW g \in Gates
  PROVE  GateInv(g)'
<1>0. TypeOK
  BY DEF ReviewInv
<1> DEFINE Quiet == /\ \A t \in Steps : t \notin MergeSteps => Still(t)
                    /\ UNCHANGED <<gate, reassigned, verdict>>
<1>1. ASSUME NEW o \in Owners, NEW requested \in SUBSET Steps, claimReadySteps(o, requested)
      PROVE  Quiet
  <2>1. UNCHANGED <<gate, reassigned, verdict>>
    BY <1>1, ClaimWrites DEF FailSnapshots, StartSteps, reviewVars
  <2>2. PICK picked \in SUBSET ClaimableSteps(requested) :
          FailSnapshots(picked) \/ StartSteps(o, picked)
    BY <1>1, ClaimWrites
  <2> QED BY <2>1, <2>2 DEF FailSnapshots, StartSteps, ClaimableSteps, Still
<1>2. ASSUME NEW s \in Steps, LeaseExpires(s) \/ prepareReviewStepForExecution(s) \/ selectImage(s)
      PROVE  Quiet
  BY <1>2 DEF LeaseExpires, prepareReviewStepForExecution, selectImage, reviewVars, Still
<1>3. ASSUME \/ pauseRun \/ resumeRun \/ UNCHANGED storeVars
             \/ \E s \in MergeSteps : createMergeConflict(s)
      PROVE  Quiet
  BY <1>3 DEF pauseRun, resumeRun, storeVars, createMergeConflict, reviewVars, Still
<1>4. ASSUME recoverRun PROVE Quiet
  BY <1>4 DEF recoverRun, ExpiredSteps, reviewVars, Still
<1>5. ASSUME cancelRun PROVE Quiet
  BY <1>5 DEF cancelRun, CancelUnfinished, Unfinished, reviewVars, Still
<1>6. ASSUME NEW o, NEW s \in Steps, NEW a, failStep(o, s, a) PROVE Quiet
  BY <1>0, <1>6 DEF failStep, LiveFence, reviewVars, TypeOK, Still
<1>7. ASSUME NEW o, NEW s \in Steps, NEW a, NEW act \in Actions, requestApproval(s, act, o, a)
      PROVE  Quiet
  BY <1>0, <1>7 DEF requestApproval, awaitStepApproval, reviewVars, TypeOK, Still
<1>8. ASSUME NEW s \in Steps, NEW act \in Actions, NEW decision, decideApproval(s, act, decision)
      PROVE  Quiet
  BY <1>0, <1>8 DEF decideApproval, resolveStepApproval, reviewVars, TypeOK, Still
<1>9. ASSUME NEW s \in MergeSteps, mergeCleanly(s) \/ resolveMergeConflict(s) PROVE Quiet
  <2>1. CASE completeMergeStep(s)
    <3>1. UNCHANGED <<gate, reassigned, verdict>>
      BY <2>1 DEF completeMergeStep, reviewVars
    <3>2. ASSUME NEW t \in Steps, t \notin MergeSteps
          PROVE  step'[t] = step[t] \/ (step[t] = "pending" /\ step'[t] = "ready")
      BY <1>0, <2>1, <3>2, MergeMoves
    <3> QED BY <3>1, <3>2 DEF Still
  <2>2. CASE UNCHANGED <<step, reviewVars>>
    BY <2>2 DEF Still, reviewVars
  <2> QED BY <1>9, <2>1, <2>2 DEF mergeCleanly, resolveMergeConflict
<1> HIDE DEF Quiet
<1>10. Quiet
  BY <1>1, <1>2, <1>3, <1>4, <1>5, <1>6, <1>7, <1>8, <1>9
<1>11. \A t : t = Target[g] \/ t \in GateSteps(g) => t \in Steps /\ t \notin MergeSteps
  BY GatesAreApart, GateStepKinds
<1>12. /\ \A t \in GateSteps(g) : Still(t)
       /\ Still(Target[g])
       /\ gate'[g] = gate[g] /\ reassigned'[g] = reassigned[g]
       /\ \A t \in Reviewers(g) : verdict'[t] = verdict[t]
  BY <1>10, <1>11 DEF Quiet
<1> QED BY <1>12, GateUntouched

\* Every transaction keeps what is known of the reviews.
LEMMA NextReviews == ReviewInv /\ [Next]_storeVars => ReviewInv'
<1> SUFFICES ASSUME ReviewInv, [Next]_storeVars PROVE ReviewInv'
  OBVIOUS
<1>1. TypeOK' /\ GateBarrier'
  BY NextType, NextBarrier DEF ReviewInv
<1>2. ASSUME NEW g \in Gates PROVE GateInv(g)'
  <2>1. ASSUME NEW o \in Owners, NEW s \in Steps, NEW a \in 1..MaxAttempts,
               \/ completeStep(o, s, a)
               \/ \E v \in {"accept", "reject"} : completeReviewStep(o, s, a, v)
        PROVE  GateInv(g)'
    BY <2>1, CompleteStepReviews, VerdictElsewhere, VerdictOnGate
  <2> QED BY <2>1, OtherReviews DEF Next, ExecutionOps
<1> QED BY <1>1, <1>2 DEF ReviewInv

\* A new Run has no review yet.
LEMMA InitReviews == Init => ReviewInv
<1> SUFFICES ASSUME Init PROVE ReviewInv
  OBVIOUS
<1>1. TypeOK
  BY InitType
<1>2. \A s \in Steps : step[s] = IF s \in PlanSteps THEN "pending" ELSE "absent"
  BY DEF Init
<1>3. GateBarrier
  BY <1>2 DEF GateBarrier
<1>4. ASSUME NEW g \in Gates PROVE GateInv(g)
  <2>1. Target[g] \in Steps /\ step[Target[g]] = "pending"
    BY <1>2, GatesAreApart
  <2>2. \A s \in GateSteps(g) : s \in Steps
    BY GateStepKinds
  <2>3. DerivedAfterTarget(g) /\ OneOpen(g)
    BY <1>2, <2>1, <2>2 DEF DerivedAfterTarget, OneOpen
  <2>4. \A i \in 1..MaxIterations[g] : step[Rework(g, i)] = "absent"
    BY <1>2, <2>2, ReworkFacts DEF GateSteps
  <2>5. CanReassign(g) => step[BackupReviewer(g)] = "absent"
    BY <1>2, <2>2, BackupFacts DEF GateSteps
  <2>6. gate[g] = "active" /\ \A s \in Reviewers(g) : verdict[s] = "none"
    BY <2>2 DEF Init, GateSteps
  <2>7. Trail(g)
    BY <2>4, <2>5, <2>6 DEF Trail
  <2> QED BY <2>3, <2>7 DEF GateInv
<1> QED BY <1>1, <1>3, <1>4 DEF ReviewInv

\* What the store knows of its reviews, at all times.
LEMMA AlwaysReviewed == Spec => []ReviewInv
BY InitReviews, NextReviews, PTL DEF Spec

\* Gates and evidence agree: nobody accepts a gate but a reviewer whose target is
\* completed, every rework answers a rejection, and the backup reviewer is asked
\* once, after a rejection at the limit.
THEOREM GatesFollowEvidence == Spec => []ReviewTrail
<1>1. ReviewInv => ReviewTrail
  BY DEF ReviewInv, GateInv, Trail, ReviewTrail
<1> QED BY <1>1, AlwaysReviewed, PTL

\* A review is never lost between two Steps: from the completion of its target to
\* the verdict that resolves the gate exactly one Step carries it.
THEOREM ReviewsAreNeverLost == Spec => []OneReviewUnderWay
<1>1. ReviewInv => OneReviewUnderWay
  <2> SUFFICES ASSUME ReviewInv, NEW g \in Gates, gate[g] = "active", step[Target[g]] = "completed"
               PROVE  Cardinality({s \in GateSteps(g) :
                        step[s] \in Unfinished \cup {"failed", "cancelled"}}) = 1
    BY DEF OneReviewUnderWay
  <2>1. PICK s \in GateSteps(g) : Open(g) = {s}
    BY DEF ReviewInv, GateInv, OneOpen
  <2>2. {t \in GateSteps(g) : step[t] \in Unfinished \cup {"failed", "cancelled"}} = Open(g)
    <3>1. \A t \in GateSteps(g) : step[t] \in StepStates
      BY GateStepKinds DEF ReviewInv, TypeOK
    <3> QED BY <3>1 DEF Open, StepStates, Unfinished
  <2>3. Cardinality({s}) = 1
    BY FS_Singleton
  <2> QED BY <2>1, <2>2, <2>3
<1> QED BY <1>1, AlwaysReviewed, PTL
=============================================================================
