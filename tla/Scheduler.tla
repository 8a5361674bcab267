------------------------------ MODULE Scheduler ------------------------------
(***************************************************************************)
(* The Scheduler of apps/runtime over the shared store: one process per    *)
(* execution owner, its drain loop, its background recoveries, and the     *)
(* executions in flight.  A process is interrupted only where the code     *)
(* awaits; the drain between two awaits is one action.                     *)
(*                                                                         *)
(* Every step is a transaction of OrchestrationStore or leaves the         *)
(* database alone (Refinement).                                            *)
(***************************************************************************)
EXTENDS OrchestrationStore

CONSTANTS
  Protected,     \* [Steps -> SUBSET Actions], what a Step's execution may ask for
  Preflight,     \* [Steps -> Actions \cup {NoAction}], getActionRequest
  AllowOverlap,  \* TRUE: a second process may start while one runs
  AbortMayThrow, \* TRUE: an aborted executor may throw; the production
                 \* executor catches and returns {}
  MaxStalls,     \* bound on leases a live execution lets expire
  MaxCommands    \* bound on pause and cancel commands

ASSUME SchedulerAssumption ==
  /\ Protected \in [Steps -> SUBSET Actions]
  /\ Preflight \in [Steps -> Actions \cup {NoAction}]
  /\ AllowOverlap \in BOOLEAN /\ AbortMayThrow \in BOOLEAN
  /\ MaxStalls \in Nat /\ MaxCommands \in Nat

VARIABLES
  proc,       \* process of an owner id: "new", "up", "stopping" or "dead"
  drain,      \* this process's entry in the drains map
  recoveries, \* phases of its recoverInternal loops
  execs,      \* executeClaimedStep calls not settled yet
  stalls, commands

procVars == <<proc, drain, recoveries, execs, stalls, commands>>
vars == <<storeVars, procVars>>

NoDrain == [phase |-> "idle", candidates |-> {}, cleared |-> {}, started |-> FALSE]
LoopHead(started) == [NoDrain EXCEPT !.phase = "loop", !.started = started]

SchedInit ==
  /\ Init
  /\ \E o \in Owners :
       /\ proc = [p \in Owners |-> IF p = o THEN "up" ELSE "new"]
       /\ drain = [p \in Owners |-> IF p = o THEN LoopHead(FALSE) ELSE NoDrain]
  /\ recoveries = [o \in Owners |-> {}]
  /\ execs = {}
  /\ stalls = 0
  /\ commands = 0

Alive(o) == proc[o] \in {"up", "stopping"}
ExecsOf(o) == {e \in execs : e.owner = o}

-----------------------------------------------------------------------------
(* Drains and recoveries of one process                                    *)

\* runUntilIdle: a drain in flight is shared, not restarted.
runUntilIdle(o) ==
  drain' = [drain EXCEPT ![o] = IF @.phase = "idle" THEN LoopHead(FALSE) ELSE @]

HasLease == \E s \in Steps : step[s] = "running" /\ lease[s] # "none"

\* The drain's promise resolves: a recovery that waited for it returns if it
\* started a Step or no lease is left to wait for, and sleeps otherwise.
DrainResolves(o) ==
  /\ drain' = [drain EXCEPT ![o] = NoDrain]
  /\ recoveries' = [recoveries EXCEPT ![o] =
       (@ \ {"draining"})
         \cup (IF "draining" \in @ /\ ~drain[o].started /\ HasLease' THEN {"sleeping"} ELSE {})]

\* Mutant: a rejected drain leaves the recoveries waiting.
DrainRejectsSilently(o, rest) ==
  /\ drain' = [drain EXCEPT ![o] = NoDrain]
  /\ UNCHANGED recoveries
  /\ execs' = {[e EXCEPT !.awaited = @ /\ e.owner # o] : e \in rest}

\* It rejects: the recoveries that waited fail with it, and the executions it
\* started go on unattended.
DrainRejects(o, rest) ==
  /\ drain' = [drain EXCEPT ![o] = NoDrain]
  /\ recoveries' = [recoveries EXCEPT ![o] = @ \ {"draining"}]
  /\ execs' = {[e EXCEPT !.awaited = @ /\ e.owner # o] : e \in rest}

\* getReadyStepIds
readyStepIds ==
  {s \in Steps : step[s] \in {"pending", "ready"} /\ \A d \in Deps(s) : step[d] = "completed"}

\* A tick over merge Steps alone asks nobody anything and starts nothing.
DrainMustStop ==
  \/ run \in Terminal \cup {"paused", "awaitingToolApproval"}
  \/ Some(step, {"awaitingApproval"})
  \/ readyStepIds \subseteq MergeSteps

\* The head of drainInternal's loop, and tick up to its first await.
DrainLoop(o) ==
  /\ Alive(o)
  /\ drain[o].phase = "loop"
  /\ UNCHANGED storeVars
  /\ IF proc[o] = "stopping" \/ DrainMustStop
     THEN DrainResolves(o)
     ELSE /\ drain' = [drain EXCEPT ![o].phase = "tick",
                                    ![o].candidates = readyStepIds \ MergeSteps]
          /\ UNCHANGED recoveries
  /\ UNCHANGED <<proc, execs, stalls, commands>>

NeedsImageChoice(s) == HasCandidates(s) /\ \E g \in ImageGates : s \in ImageReviewers(g) \ frozen

\* prepareReviewStepForExecution of one candidate: a missing selection ends
\* the tick, and with it the drain.
PrepareReview(o) ==
  /\ Alive(o)
  /\ drain[o].phase = "tick"
  /\ \E s \in drain[o].candidates :
       /\ NeedsImageChoice(s)
       /\ IF IsSelected(s)
          THEN prepareReviewStepForExecution(s) /\ UNCHANGED <<drain, recoveries>>
          ELSE /\ IF run \in Terminal \cup {"paused"}
                  THEN UNCHANGED storeVars ELSE prepareReviewStepForExecution(s)
               /\ DrainResolves(o)
  /\ UNCHANGED <<proc, execs, stalls, commands>>

ReviewsPrepared(o) == \A s \in drain[o].candidates : ~NeedsImageChoice(s)

\* Mutant: the preflight of protected Steps is skipped.
UncheckedNone(o) == {}

Unchecked(o) == {s \in drain[o].candidates \ drain[o].cleared : Preflight[s] # NoAction}

\* persistStepApproval, past an approved request: nothing to write, or the
\* Step must be parked; the Step a caller's fence allows to be parked.
NothingToPark(s, act) ==
  \/ approval[s][act] = "rejected"
  \/ approval[s][act] = "pending" /\ step[s] = "awaitingApproval"
  \/ approval[s][act] = "none" /\ step[s] \notin {"pending", "ready", "running"}

CannotPark(s, act, o, a) ==
  /\ approval[s][act] # "approved"
  /\ ~NothingToPark(s, act)
  /\ ~ \/ step[s] = "ready"
       \/ step[s] = "pending" /\ isStepEligibleForReady(s, step, gate)
       \/ step[s] = "running" /\ owner[s] = o /\ attempt[s] = a

\* The code after one await of getActionRequest: the candidate was read before
\* the await, persistStepApproval reads the store again.
PreflightStep(o) ==
  /\ Alive(o)
  /\ drain[o].phase = "tick"
  /\ ReviewsPrepared(o)
  /\ \E s \in Unchecked(o) :
       LET act == Preflight[s]
           dropped == [drain EXCEPT ![o].candidates = @ \ {s}]
       IN \/ /\ approval[s][act] = "approved"
             /\ drain' = [drain EXCEPT ![o].cleared = @ \cup {s}]
             /\ UNCHANGED <<storeVars, recoveries, execs>>
          \/ /\ NothingToPark(s, act)
             /\ drain' = dropped
             /\ UNCHANGED <<storeVars, recoveries, execs>>
          \/ /\ ~NothingToPark(s, act)
             /\ requestApproval(s, act, NoOwner, 0)
             /\ drain' = dropped
             /\ UNCHANGED <<recoveries, execs>>
          \/ /\ CannotPark(s, act, NoOwner, 0)
             /\ DrainRejects(o, execs)
             /\ UNCHANGED storeVars
  /\ UNCHANGED <<proc, stalls, commands>>

\* Mutant: the fence is taken from the row read before the claim.
NewExecsStale(o, picked) ==
  {[owner |-> owner[s], step |-> s, attempt |-> attempt[s], awaited |-> TRUE,
    aborted |-> FALSE] : s \in picked}

NewExecs(o, picked) ==
  {[owner |-> o, step |-> s, attempt |-> attempt[s] + 1, awaited |-> TRUE,
    aborted |-> FALSE] : s \in picked}

\* The end of tick: claim what was read before the awaits, start it, or
\* resolve the drain when nothing could be started.
Claim(o) ==
  /\ Alive(o)
  /\ drain[o].phase = "tick"
  /\ ReviewsPrepared(o)
  /\ Unchecked(o) = {}
  /\ LET picked == IF run \in Claimable THEN ClaimableSteps(drain[o].candidates) ELSE {}
     IN \/ /\ picked = {} /\ UNCHANGED storeVars
           /\ DrainResolves(o)
           /\ UNCHANGED execs
        \/ /\ SomeSnapshotFails(picked)
           /\ DrainResolves(o)
           /\ UNCHANGED execs
        \/ /\ StartSteps(o, picked)
           /\ execs' = execs \cup NewExecs(o, picked)
           /\ drain' = [drain EXCEPT ![o] = [LoopHead(TRUE) EXCEPT !.phase = "executing"]]
           /\ UNCHANGED recoveries
  /\ UNCHANGED <<proc, stalls, commands>>

\* Mutant: the drain ends with its first tick.
TickDoneStops(o) ==
  /\ drain[o].phase = "executing"
  /\ \A e \in ExecsOf(o) : ~e.awaited
  /\ DrainResolves(o)
  /\ UNCHANGED <<storeVars, proc, execs, stalls, commands>>

TickDone(o) ==
  /\ drain[o].phase = "executing"
  /\ \A e \in ExecsOf(o) : ~e.awaited
  /\ drain' = [drain EXCEPT ![o].phase = "loop"]
  /\ UNCHANGED <<storeVars, proc, recoveries, execs, stalls, commands>>

\* One round of recoverInternal up to its await.
recoverInternal(o) ==
  /\ Alive(o)
  /\ "begin" \in recoveries[o]
  /\ LET given_up == proc[o] = "stopping" \/ run \in Terminal \cup {"paused"}
     IN /\ IF proc[o] # "stopping" /\ run \notin Terminal /\ ExpiredSteps # {}
           THEN recoverRun ELSE UNCHANGED storeVars
        /\ IF given_up
           THEN /\ recoveries' = [recoveries EXCEPT ![o] = @ \ {"begin"}]
                /\ UNCHANGED drain
           ELSE /\ recoveries' = [recoveries EXCEPT ![o] = (@ \ {"begin"}) \cup {"draining"}]
                /\ runUntilIdle(o)
  /\ UNCHANGED <<proc, execs, stalls, commands>>

\* Mutant: the recovery ends with its first wait.
RecoveryWaitsOnce(o) ==
  /\ Alive(o)
  /\ "sleeping" \in recoveries[o]
  /\ recoveries' = [recoveries EXCEPT ![o] = @ \ {"sleeping"}]
  /\ UNCHANGED <<storeVars, proc, drain, execs, stalls, commands>>

\* The wait for the next lease expiry ends.
RecoveryWakes(o) ==
  /\ Alive(o)
  /\ "sleeping" \in recoveries[o]
  /\ recoveries' = [recoveries EXCEPT ![o] = (@ \ {"sleeping"}) \cup {"begin"}]
  /\ UNCHANGED <<storeVars, proc, drain, execs, stalls, commands>>

-----------------------------------------------------------------------------
(* Executions                                                              *)

HoldsFence(e) == LiveFence(e.owner, e.step, e.attempt)

HoldsStep(e) ==
  step[e.step] = "running" /\ owner[e.step] = e.owner /\ attempt[e.step] = e.attempt

\* A shutdown drops what its aborted executions come to; the store's fence
\* drops what a stale execution comes to.
Discarded(e) == ~HoldsFence(e) \/ (proc[e.owner] = "stopping" /\ e.aborted)

AbortedAll(o, es) == {[e EXCEPT !.aborted = @ \/ e.owner = o] : e \in es}

\* Mutant: the verdict of a review is dropped.
ExecReturnsNoVerdict(e) ==
  /\ Alive(e.owner)
  /\ \/ /\ Discarded(e) \/ \E g \in Gates : e.step \in Reviewers(g)
        /\ UNCHANGED storeVars
     \/ ~Discarded(e) /\ completeStep(e.owner, e.step, e.attempt)
  /\ execs' = execs \ {e}
  /\ UNCHANGED <<proc, drain, recoveries, stalls, commands>>

\* executeClaimedStep after the executor returned a result: the Step is read
\* again, and a fence lost by then drops the result.
ExecReturns(e) ==
  /\ Alive(e.owner)
  /\ \/ /\ Discarded(e)
        /\ execs' = execs \ {e}
        /\ UNCHANGED storeVars
     \/ /\ ~Discarded(e)
        /\ completeStep(e.owner, e.step, e.attempt)
        /\ execs' = execs \ {e}
     \/ /\ ~Discarded(e)
        /\ \E v \in {"accept", "reject"} : completeReviewStep(e.owner, e.step, e.attempt, v)
        /\ execs' = IF run' = "failed" THEN AbortedAll(e.owner, execs \ {e}) ELSE execs \ {e}
  /\ UNCHANGED <<proc, drain, recoveries, stalls, commands>>

\* failStep refuses a Step that is not running with an error of its own.
Refused(e) ==
  /\ run # "cancelled"
  /\ ~(proc[e.owner] = "stopping" /\ e.aborted)
  /\ step[e.step] \in {"pending", "ready", "awaitingApproval", "completed"}

\* The execution ends with an error nobody handles: the tick that awaits it
\* rejects, and so does the drain.
ExecRejects(e) ==
  IF e.awaited THEN DrainRejects(e.owner, execs \ {e})
  ELSE execs' = execs \ {e} /\ UNCHANGED <<drain, recoveries>>

\* Mutants: every error is swallowed; a Step is failed without its fence.
ExecFailsSilently(e) ==
  /\ execs' = execs \ {e}
  /\ UNCHANGED <<storeVars, drain, recoveries>>
ExecFailsUnfenced(e) ==
  /\ step' = [step EXCEPT ![e.step] = "failed"]
  /\ lease' = [lease EXCEPT ![e.step] = "none"]
  /\ EndRun(run, IF run # "paused" /\ ~Some(step', {"running", "ready"})
                 THEN "failed" ELSE "none")
  /\ execs' = execs \ {e}
  /\ UNCHANGED <<owner, attempt, reviewVars, approvalVars, conflict, drain, recoveries>>

\* The end of the catch block.  A fence mismatch is swallowed.
ExecFails(e) ==
  \/ /\ ~Discarded(e)
     /\ failStep(e.owner, e.step, e.attempt)
     /\ execs' = execs \ {e}
     /\ UNCHANGED <<drain, recoveries>>
  \/ /\ Discarded(e)
     /\ UNCHANGED storeVars
     /\ IF Refused(e) THEN ExecRejects(e)
        ELSE execs' = execs \ {e} /\ UNCHANGED <<drain, recoveries>>

\* The executor threw, or the heartbeat found the fence gone.
ExecThrows(e) ==
  /\ Alive(e.owner)
  /\ e.aborted => AbortMayThrow
  /\ ExecFails(e)
  /\ UNCHANGED <<proc, stalls, commands>>

\* The executor threw StepAwaitingApprovalError.
ExecAsks(e, act) ==
  /\ Alive(e.owner)
  /\ act \in Protected[e.step]
  /\ e.aborted => AbortMayThrow
  /\ \/ approval[e.step][act] = "approved" /\ ExecFails(e)
     \/ /\ NothingToPark(e.step, act)
        /\ execs' = execs \ {e}
        /\ UNCHANGED <<storeVars, drain, recoveries>>
     \/ /\ ~NothingToPark(e.step, act)
        /\ requestApproval(e.step, act, e.owner, e.attempt)
        /\ execs' = execs \ {e}
        /\ UNCHANGED <<drain, recoveries>>
     \/ /\ CannotPark(e.step, act, e.owner, e.attempt)
        /\ ExecRejects(e)
        /\ UNCHANGED storeVars
  /\ UNCHANGED <<proc, stalls, commands>>

\* gateStepAction, called by an execution before a protected action: an
\* action not approved yet parks the Step and aborts the execution that the
\* active map holds for it.  An approved one changes nothing.
gateStepAction(e, act) ==
  /\ Alive(e.owner)
  /\ act \in Protected[e.step]
  /\ step[e.step] = "running" /\ owner[e.step] = e.owner
  /\ \E f \in ExecsOf(e.owner) :
       /\ f.step = e.step /\ f.attempt = attempt[e.step]
       /\ ~f.aborted
       /\ requestApproval(e.step, act, e.owner, attempt[e.step])
       /\ execs' = (execs \ {f}) \cup {[f EXCEPT !.aborted = TRUE]}
  /\ UNCHANGED <<proc, drain, recoveries, stalls, commands>>

-----------------------------------------------------------------------------
(* User commands, served by a live process                                 *)

UserCommand(o) == proc[o] = "up"

Pause(o) ==
  /\ UserCommand(o) /\ commands < MaxCommands
  /\ pauseRun
  /\ commands' = commands + 1
  /\ UNCHANGED <<proc, drain, recoveries, execs, stalls>>

Resume(o) ==
  /\ UserCommand(o)
  /\ resumeRun
  /\ recoveries' = [recoveries EXCEPT ![o] =
       IF run' \in Claimable THEN @ \cup {"begin"} ELSE @]
  /\ UNCHANGED <<proc, drain, execs, stalls, commands>>

\* cancelRun, then abortActiveRun of this process.
Cancel(o) ==
  /\ UserCommand(o) /\ commands < MaxCommands
  /\ cancelRun
  /\ execs' = AbortedAll(o, execs)
  /\ commands' = commands + 1
  /\ UNCHANGED <<proc, drain, recoveries, stalls>>

\* Mutant: an approval starts no drain.
DecideWithoutDrain(o) ==
  /\ UserCommand(o)
  /\ \E s \in Steps, act \in Actions, decision \in {"approved", "rejected"} :
       decideApproval(s, act, decision)
  /\ UNCHANGED <<proc, drain, recoveries, execs, stalls, commands>>

Decide(o) ==
  /\ UserCommand(o)
  /\ \E s \in Steps, act \in Actions, decision \in {"approved", "rejected"} :
       /\ decideApproval(s, act, decision)
       /\ IF decision = "approved" THEN runUntilIdle(o) ELSE UNCHANGED drain
  /\ UNCHANGED <<proc, recoveries, execs, stalls, commands>>

Merge(o) ==
  /\ UserCommand(o)
  /\ \E s \in MergeSteps :
       \/ /\ mergeCleanly(s)
          /\ IF run' \in Claimable THEN runUntilIdle(o) ELSE UNCHANGED drain
       \/ (createMergeConflict(s) \/ resolveMergeConflict(s)) /\ UNCHANGED drain
  /\ UNCHANGED <<proc, recoveries, execs, stalls, commands>>

SelectImage(o) ==
  /\ UserCommand(o)
  /\ \E t \in Steps : selectImage(t)
  /\ UNCHANGED procVars

-----------------------------------------------------------------------------
(* Processes and time                                                      *)

Recoverable == Claimable \cup {"paused"}

\* start(): recoverAll on boot.
Boot(o) ==
  /\ proc[o] = "new"
  /\ AllowOverlap \/ \A p \in Owners : ~Alive(p)
  /\ proc' = [proc EXCEPT ![o] = "up"]
  /\ recoveries' = [recoveries EXCEPT ![o] = IF run \in Recoverable THEN {"begin"} ELSE {}]
  /\ UNCHANGED <<storeVars, drain, execs, stalls, commands>>

\* A crash loses everything in memory and nothing in the store.  One owner id
\* is kept in reserve, so that a process can always be restarted.
Crash(o) ==
  /\ Alive(o)
  /\ \E p \in Owners : proc[p] = "new"
  /\ proc' = [proc EXCEPT ![o] = "dead"]
  /\ drain' = [drain EXCEPT ![o] = NoDrain]
  /\ recoveries' = [recoveries EXCEPT ![o] = {}]
  /\ execs' = execs \ ExecsOf(o)
  /\ UNCHANGED <<storeVars, stalls, commands>>

\* Mutant: a shutdown gives its Steps back although their leases live.
ShutdownReleasing(o) ==
  /\ proc[o] = "up"
  /\ \E p \in Owners : proc[p] = "new"
  /\ proc' = [proc EXCEPT ![o] = "stopping"]
  /\ recoveries' = [recoveries EXCEPT ![o] = @ \ {"sleeping"}]
  /\ step' = [s \in Steps |-> IF step[s] = "running" /\ owner[s] = o THEN "ready" ELSE step[s]]
  /\ execs' = AbortedAll(o, execs)
  /\ UNCHANGED <<run, fenceVars, reviewVars, approvalVars, conflict, ended,
                 drain, stalls, commands>>

\* shutdown(): stop scheduling and abort; the sleeping recoveries end.
Shutdown(o) ==
  /\ proc[o] = "up"
  /\ \E p \in Owners : proc[p] = "new"
  /\ proc' = [proc EXCEPT ![o] = "stopping"]
  /\ recoveries' = [recoveries EXCEPT ![o] = @ \ {"sleeping"}]
  /\ execs' = AbortedAll(o, execs)
  /\ UNCHANGED <<storeVars, drain, stalls, commands>>

Exit(o) ==
  /\ proc[o] = "stopping"
  /\ ExecsOf(o) = {} /\ drain[o].phase = "idle" /\ recoveries[o] = {}
  /\ proc' = [proc EXCEPT ![o] = "dead"]
  /\ UNCHANGED <<storeVars, drain, recoveries, execs, stalls, commands>>

\* A heartbeat keeps a live execution's lease unless the process stalls.
Heartbeating(s) == \E e \in execs : e.step = s /\ HoldsStep(e)

OrphanLeaseExpires(s) ==
  /\ ~Heartbeating(s)
  /\ LeaseExpires(s)
  /\ UNCHANGED procVars

StalledLeaseExpires(s) ==
  /\ Heartbeating(s)
  /\ stalls < MaxStalls
  /\ LeaseExpires(s)
  /\ stalls' = stalls + 1
  /\ UNCHANGED <<proc, drain, recoveries, execs, commands>>

-----------------------------------------------------------------------------
DrainStep(o) ==
  DrainLoop(o) \/ PrepareReview(o) \/ PreflightStep(o) \/ Claim(o) \/ TickDone(o)

SchedNext ==
  \/ \E o \in Owners :
       \/ DrainStep(o) \/ recoverInternal(o) \/ RecoveryWakes(o)
       \/ Pause(o) \/ Resume(o) \/ Cancel(o) \/ Decide(o) \/ Merge(o) \/ SelectImage(o)
       \/ Boot(o) \/ Crash(o) \/ Shutdown(o) \/ Exit(o)
  \/ \E e \in execs :
       \/ ExecReturns(e) \/ ExecThrows(e)
       \/ \E act \in Actions : ExecAsks(e, act) \/ gateStepAction(e, act)
  \/ \E s \in Steps : OrphanLeaseExpires(s) \/ StalledLeaseExpires(s)

SchedSpec == SchedInit /\ [][SchedNext]_vars

Settle(o, s) ==
  \E e \in execs : e.owner = o /\ e.step = s /\ (ExecReturns(e) \/ ExecThrows(e))

\* Promise continuations and timers run while the process lives, executions
\* end, leases nobody refreshes expire, and a stopped runtime is started
\* again.  Nothing is assumed of the user.
Fairness ==
  /\ \A o \in Owners :
       /\ WF_vars(DrainStep(o))
       /\ WF_vars(recoverInternal(o))
       /\ WF_vars(RecoveryWakes(o))
       /\ WF_vars(Boot(o))
       /\ WF_vars(Exit(o))
       /\ \A s \in Steps : WF_vars(Settle(o, s))
  /\ \A s \in Steps : WF_vars(OrphanLeaseExpires(s))

FairSpec == SchedSpec /\ Fairness

-----------------------------------------------------------------------------
(* Properties                                                              *)

\* Drains, recoveries and executions hold what the Scheduler's maps can.
SchedTypeOK ==
  /\ proc \in [Owners -> {"new", "up", "stopping", "dead"}]
  /\ drain \in [Owners -> [phase : {"idle", "loop", "tick", "executing"},
                           candidates : SUBSET Steps, cleared : SUBSET Steps,
                           started : BOOLEAN]]
  /\ recoveries \in [Owners -> SUBSET {"begin", "draining", "sleeping"}]
  /\ execs \subseteq [owner : Owners, step : Steps, attempt : Nat,
                      awaited : BOOLEAN, aborted : BOOLEAN]
  /\ stalls \in 0..MaxStalls
  /\ commands \in 0..MaxCommands

\* Every step of every process is a transaction the store allows: no
\* interleaving of drains, recoveries, stale executions and crashes writes
\* anything else.
ImplementsStore == Spec

\* While its process is up and its lease lives, a running Step has exactly one
\* execution working on it: none is dropped without the store learning of it,
\* and none is started twice.
RunningStepsAttended ==
  \A s \in Steps :
    step[s] = "running" /\ lease[s] = "live" /\ proc[owner[s]] = "up" =>
      Cardinality({e \in execs : e.step = s /\ HoldsStep(e)}) = 1

\* A Step whose executor announces a protected action is only executed once
\* the user has approved that action, whatever was read before the awaits of
\* tick (filterProtectedSteps, claimReadySteps).
ProtectedStartsApproved ==
  \A e \in execs :
    Preflight[e.step] # NoAction => approval[e.step][Preflight[e.step]] = "approved"

\* A recovery that waits for a drain has one to wait for, and a drain that
\* waits for executions has them: neither waits for ever on a promise that
\* has settled.
WaitersAreServed ==
  \A o \in Owners :
    /\ "draining" \in recoveries[o] => drain[o].phase # "idle"
    /\ \A e \in ExecsOf(o) : e.awaited => drain[o].phase = "executing"

\* Where the Run waits for the user or is over.
Settled ==
  \/ run \in Terminal \cup {"paused", "awaitingToolApproval"}
  \/ Some(step, {"awaitingApproval"})
  \/ \E s \in MergeSteps : step[s] = "ready"

\* A failed Step may leave the Run open with nothing to run: resumeRun opens it
\* for a review whose target failed, and neither completeMergeStep nor
\* finishAcceptedReview fails it. NoStallWithoutFailure is the other half.
StalledByFailure ==
  run \in Claimable /\ Some(step, {"failed"}) /\ ~HasRunnable(step, gate)

\* A Run is not left open by its schedulers: it ends, waits for the user, or is
\* one the store itself left without a runnable Step after a failure.
RunSettles == []<>(Settled \/ StalledByFailure)

Orphaned(s) == step[s] = "running" /\ proc[owner[s]] = "dead" /\ run \in Claimable

\* "waits for an unexpired startup lease and recovers it exactly at expiry":
\* a Step whose process died is taken over once its lease has expired.
OrphansAreRecovered == \A s \in Steps : Orphaned(s) ~> ~Orphaned(s)

LostLease(s) == step[s] = "running" /\ lease[s] = "expired" /\ run \in Claimable

\* "fails and cleans up when a lost lease executor ignores AbortSignal
\* forever": a Step whose lease was lost does not stay running.
LostLeasesAreCleanedUp == \A s \in Steps : LostLease(s) ~> ~LostLease(s)

Waiting(s) == step[s] = "ready" /\ s \notin MergeSteps /\ run \in Claimable

\* "keeps an unaffected ready branch runnable when another worker fails
\* later": a ready Step of an open Run is started, also one that was parked, in
\* whichever process is alive when the user decides.
ReadyStepsStart == \A s \in Steps : Waiting(s) ~> ~Waiting(s)
=============================================================================
