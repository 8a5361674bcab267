------------------------------ MODULE EventInbox ------------------------------
(***************************************************************************)
(* What the external event inbox promises its submitters, without leases,  *)
(* attempts, frames or processes: an accepted event is bound to at most    *)
(* one Run, for good; the Run ends once; and the event is settled once,    *)
(* with the result of that Run, unless the daemon gives the delivery up.   *)
(* ExternalEvents implements it: see Inbox there.                          *)
(***************************************************************************)
CONSTANTS Events, Runs, NoRun

VARIABLES
  outcome,   \* outcome[e]: "absent", "open" or the status reported for e
  bound,     \* bound[e]: the Run that executes e, or NoRun
  result     \* result[r]: how the bound Run r ended, or "none"

vars == <<outcome, bound, result>>

Results == {"success", "failed", "cancelled"}

Init ==
  /\ outcome = [e \in Events |-> "absent"]
  /\ bound = [e \in Events |-> NoRun]
  /\ result = [r \in Runs |-> "none"]

\* The submitter is told that the event is stored.
Accept(e) ==
  /\ outcome[e] = "absent"
  /\ outcome' = [outcome EXCEPT ![e] = "open"]
  /\ UNCHANGED <<bound, result>>

\* A delivery binds the event to a fresh Run. A delivery the daemon no longer
\* waits for may still begin the Run of an event it has given up.
Begin(e, r) ==
  /\ outcome[e] \in {"open", "failed"}
  /\ bound[e] = NoRun
  /\ \A f \in Events : bound[f] # r
  /\ bound' = [bound EXCEPT ![e] = r]
  /\ UNCHANGED <<outcome, result>>

End(r, status) ==
  /\ \E e \in Events : bound[e] = r
  /\ result[r] = "none"
  /\ result' = [result EXCEPT ![r] = status]
  /\ UNCHANGED <<outcome, bound>>

\* The event takes the status of its Run.
Report(e) ==
  /\ outcome[e] = "open"
  /\ bound[e] # NoRun
  /\ result[bound[e]] # "none"
  /\ outcome' = [outcome EXCEPT ![e] = result[bound[e]]]
  /\ UNCHANGED <<bound, result>>

\* The attempts are used up.
GiveUp(e) ==
  /\ outcome[e] = "open"
  /\ outcome' = [outcome EXCEPT ![e] = "failed"]
  /\ UNCHANGED <<bound, result>>

\* Several Runs may end in one step: a restart closes every Run too old to
\* be resumed.
EndSeveral ==
  \E closed \in SUBSET {r \in Runs : result[r] = "none" /\ \E e \in Events : bound[e] = r} :
    /\ result' = [r \in Runs |-> IF r \in closed THEN "failed" ELSE result[r]]
    /\ UNCHANGED <<outcome, bound>>

Next ==
  \/ \E e \in Events : Accept(e) \/ Report(e) \/ GiveUp(e) \/ \E r \in Runs : Begin(e, r)
  \/ \E r \in Runs, status \in Results : End(r, status)
  \/ EndSeveral

Spec == Init /\ [][Next]_vars
=============================================================================
