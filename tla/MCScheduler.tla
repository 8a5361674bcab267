----------------------------- MODULE MCScheduler -----------------------------
(***************************************************************************)
(* The graphs, processes and faults Scheduler is checked with.             *)
(***************************************************************************)
EXTENDS Scheduler, TLC

CONSTANTS a, b, c, ra, g1, o1, o2, act1

NoGate == <<>>

\* Two Steps in a row; two Steps side by side.
Pair == {a, b}
Chain == a :> {} @@ b :> {a}
Siblings == a :> {} @@ b :> {}

\* a is reviewed by the planned Step ra, with one round of rework; the user merges
\* its accepted output in c; b follows the merge.
MergePlan == {a, ra, b, c}
MergeEdges == a :> {} @@ ra :> {a} @@ c :> {a} @@ b :> {c}

ReviewTarget == g1 :> a
ReviewPlanned == g1 :> ra
OneIteration == g1 :> 1
Abort == g1 :> "abort"
NoBackup == g1 :> FALSE

NoPreflight == [s \in Steps |-> NoAction]
AllProtected == [s \in Steps |-> Actions]
ProtectedB == [s \in Steps |-> IF s = b THEN Actions ELSE {}]
PreflightB == [s \in Steps |-> IF s = b THEN act1 ELSE NoAction]
=============================================================================
