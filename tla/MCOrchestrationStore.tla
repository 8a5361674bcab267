------------------------ MODULE MCOrchestrationStore ------------------------
(***************************************************************************)
(* The graphs OrchestrationStore is checked on.                            *)
(***************************************************************************)
EXTENDS OrchestrationStore, TLC

CONSTANTS a, b, c, ra, g1, g2, o1, o2, act1, act2

NoGate == <<>>

\* a is reviewed by the planned Step ra; b follows the review.
ReviewPlan == {a, ra, b}
ReviewEdges == a :> {} @@ ra :> {a} @@ b :> {ra}
ReviewTarget == g1 :> a
ReviewPlanned == g1 :> ra
OneIteration == g1 :> 1
Reassign == g1 :> "reassign"
WithBackup == g1 :> TRUE

\* a and b are independent and each has a gate: one aborts the Run at its
\* limit, the other pauses it and derives its reviewer.  The user merges
\* their accepted outputs in c.  The derived reviewer's input may be too large.
LimitPlan == {a, ra, b, c}
LimitEdges == a :> {} @@ ra :> {a} @@ b :> {} @@ c :> {a, b}
LimitTarget == g1 :> a @@ g2 :> b
LimitPlanned == g1 :> ra @@ g2 :> NoStep
NoIterations == g1 :> 0 @@ g2 :> 0
AbortOrPause == g1 :> "abort" @@ g2 :> "pause"
NoBackup == g1 :> FALSE @@ g2 :> FALSE
DerivedReviewer == {DerivedStep(g2, "reviewer", 0, "initial")}

\* b and c both follow a and ask for protected actions.
ForkPlan == {a, b, c}
ForkEdges == a :> {} @@ b :> {a} @@ c :> {a}

\* Owner ids are only compared, so they are interchangeable.
OwnerSymmetry == Permutations(Owners)
=============================================================================
