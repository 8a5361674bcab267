------------------------------ MODULE RunGraph ------------------------------
(***************************************************************************)
(* The static shape of one orchestration Run: the Steps of the approved    *)
(* plan, their dependencies, the acceptance gates created with the plan,   *)
(* and every review Step a gate can still derive.                          *)
(*                                                                         *)
(* A derived Step has a stable id computed from its gate, role, iteration  *)
(* and derivation, and its only dependency is fixed by them, so the whole  *)
(* graph is a constant: a Step not inserted yet is in state "absent".      *)
(***************************************************************************)
EXTENDS Naturals, FiniteSets

CONSTANTS
  PlanSteps,        \* Steps of the approved plan revision
  DependsOn,        \* [PlanSteps -> SUBSET PlanSteps], the plan's edges
  MergeSteps,       \* plan Steps of kind 'merge', completed by the user
  Oversized,        \* Steps whose input snapshot may exceed the snapshot limit
  Gates,            \* acceptance gates
  Target,           \* [Gates -> PlanSteps], the gated Step
  PlannedReviewer,  \* [Gates -> PlanSteps \cup {NoStep}]
  MaxIterations,    \* [Gates -> Nat], rework rounds before the limit
  OnLimit,          \* [Gates -> {"pause", "abort", "reassign"}]
  HasBackup,        \* [Gates -> BOOLEAN], a backup reviewer is configured
  NoStep            \* not a Step

DerivedStep(g, role, i, derivation) ==
  [gate |-> g, role |-> role, iteration |-> i, derivation |-> derivation]

\* The reviewer that judges the target's first output: the plan's reviewer
\* Step, or a Step derived when the target completes.
InitialReviewer(g) ==
  IF PlannedReviewer[g] # NoStep
  THEN PlannedReviewer[g]
  ELSE DerivedStep(g, "reviewer", 0, "initial")

Reviewer(g, i) ==
  IF i = 0 THEN InitialReviewer(g) ELSE DerivedStep(g, "reviewer", i, "rework")

Rework(g, i) == DerivedStep(g, "rework", i, "rework")

\* The backup reviewer is asked once, about the iteration that hit the limit.
BackupReviewer(g) == DerivedStep(g, "reviewer", MaxIterations[g], "reassign")

CanReassign(g) == OnLimit[g] = "reassign" /\ HasBackup[g]

Reviewers(g) ==
  {Reviewer(g, i) : i \in 0..MaxIterations[g]}
    \cup (IF CanReassign(g) THEN {BackupReviewer(g)} ELSE {})

Reworks(g) == {Rework(g, i) : i \in 1..MaxIterations[g]}

GateSteps(g) == Reviewers(g) \cup Reworks(g)

Steps == PlanSteps \cup UNION {GateSteps(g) : g \in Gates}

DerivedSteps == Steps \ PlanSteps

\* The iteration a review Step belongs to; a planned reviewer has iteration 0.
Iteration(s) == IF s \in PlanSteps THEN 0 ELSE s.iteration

\* A derived Step depends on the Step whose completion derived it.
DerivedFrom(s) ==
  CASE s.role = "rework"                                -> Reviewer(s.gate, s.iteration - 1)
    [] s.role = "reviewer" /\ s.derivation = "initial"  -> Target[s.gate]
    [] s.role = "reviewer" /\ s.derivation = "rework"   -> Rework(s.gate, s.iteration)
    [] s.role = "reviewer" /\ s.derivation = "reassign" -> Reviewer(s.gate, s.iteration)

Deps(s) == IF s \in PlanSteps THEN DependsOn[s] ELSE {DerivedFrom(s)}

\* A set of Steps that contains the dependencies of each of its members.
Closed(C) == \A c \in C : Deps(c) \subseteq C

\* The transitive dependencies: the least closed set above Deps(s).
Ancestors ==
  [s \in Steps |->
     {t \in Steps :
        \A C \in SUBSET Steps : Closed(C) /\ Deps(s) \subseteq C => t \in C}]

\* The parts of a graph that plan.approve persists: a plan without Steps is
\* refused (plan.steps_required).  A gate on a merge Step is left out.
ASSUME GraphAssumption ==
  /\ IsFiniteSet(PlanSteps) /\ IsFiniteSet(Gates) /\ PlanSteps # {}
  /\ DependsOn \in [PlanSteps -> SUBSET PlanSteps]
  /\ MergeSteps \subseteq PlanSteps
  /\ Oversized \subseteq Steps \ MergeSteps
  /\ Target \in [Gates -> PlanSteps \ MergeSteps]
  /\ PlannedReviewer \in [Gates -> (PlanSteps \ MergeSteps) \cup {NoStep}]
  /\ MaxIterations \in [Gates -> Nat]
  /\ OnLimit \in [Gates -> {"pause", "abort", "reassign"}]
  /\ HasBackup \in [Gates -> BOOLEAN]
  /\ NoStep \notin PlanSteps

\* validateDag: every dependency is a Step of the plan and none leads back.
validateDag ==
  \A s \in PlanSteps : DependsOn[s] \subseteq PlanSteps /\ s \notin Ancestors[s]

\* createAcceptanceGate refuses a second gate on a target, and a planned
\* reviewer that serves another gate or depends on more than its target.
createAcceptanceGate(g) ==
  /\ \A h \in Gates : Target[g] = Target[h] => g = h
  /\ PlannedReviewer[g] # NoStep =>
       /\ DependsOn[PlannedReviewer[g]] = {Target[g]}
       /\ \A h \in Gates : PlannedReviewer[g] = PlannedReviewer[h] => g = h

\* createPlanAcceptanceGates refuses a reviewer that reviews a reviewer.
createPlanAcceptanceGates ==
  \A g, h \in Gates : Target[g] # PlannedReviewer[h]

ASSUME LineageAssumption ==
  createPlanAcceptanceGates /\ \A g \in Gates : createAcceptanceGate(g)

\* Derived ids are hashes with a prefix of their own: none is a plan id.
ASSUME StepIdAssumption ==
  \A p \in PlanSteps, g \in Gates :
    \A role \in {"reviewer", "rework"}, i \in 0..MaxIterations[g],
       d \in {"initial", "rework", "reassign"} : p # DerivedStep(g, role, i, d)

ASSUME AcyclicAssumption == validateDag
=============================================================================
