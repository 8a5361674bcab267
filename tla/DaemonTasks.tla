----------------------------- MODULE DaemonTasks -----------------------------
(***************************************************************************)
(* Scheduled tasks in the daemon: timers that come due, catch-up of missed *)
(* triggers, a limited number of slots with a durable queue behind them,   *)
(* and the execution of a task by the runtime it is dispatched to or by a  *)
(* worker process. The daemon restarts the runtime when it dies and        *)
(* retries the tasks that were dispatched to it.                           *)
(*                                                                         *)
(* apps/runtime/src/daemon (main.ts, queue.ts, catchup.ts, interrupt.ts,   *)
(* timers.ts, dispatch-client.ts), scheduler-core.ts and the task.dispatch *)
(* half of runtime.ts.                                                     *)
(***************************************************************************)
EXTENDS Naturals, FiniteSets, Sequences, SequencesExt

CONSTANTS
  Tasks,
  OneShot,         \* the tasks with an 'at' rule; the others recur
  MaxConcurrent,   \* taskMaxConcurrent
  MaxFaults        \* bound: crashes, stops, lost frames, missed timeouts and probes,
                   \* reads that fail, edits

ASSUME DaemonAssumption ==
  /\ IsFiniteSet(Tasks)
  /\ OneShot \subseteq Tasks
  /\ MaxConcurrent \in Nat \ {0}
  /\ MaxFaults \in Nat

\* Where nextRunAt lies: absent, ahead, reached to the millisecond, missed by at
\* most 24 h, missed by more.
Due == {"none", "future", "now", "late", "stale"}
Handlers == {"idle", "probing", "sending", "accepted", "worker"}
Frame == [type : {"dispatch", "unread", "accept", "reject", "complete", "abort"}, task : Tasks]
NoScan == {}

VARIABLES
  enabled, due, queue,     \* scheduled_task and daemon_task_queue rows
  armed,                   \* TimerRegistry: the timers that will still fire
  running,                 \* TaskConcurrencyManager.running
  handler,                 \* where the execution onFire started is; "accepted": its
                           \* completeTask waits in dispatchedReleases
  tracked,                 \* DispatchedTracker: "none", "pending" or "retried"
  catchups,                \* catchupCounts
  booting,                 \* the tasks a worker process has yet to fire
  scan,                    \* the pending entries a rescan took before its probe
  sweeping,                \* startupCatchupTimer is set
  frames,                  \* frames under way; nobody waits for the answer to an
                           \* "unread" dispatch
  up, desk,                \* the runtime process and what it does for each task
  faults

daemon == <<due, queue, running, handler, tracked, catchups>>
rest == <<enabled, armed, booting, scan, sweeping, frames, up, desk, faults>>
vars == <<daemon, rest>>

Queued == ToSet(queue)

TypeOK ==
  /\ enabled \subseteq Tasks
  /\ due \in [Tasks -> Due]
  /\ queue \in Seq(Tasks) /\ Len(queue) = Cardinality(Queued)
  /\ armed \subseteq Tasks
  /\ running \subseteq Tasks /\ Cardinality(running) <= MaxConcurrent
  /\ handler \in [Tasks -> Handlers]
  /\ running = {t \in Tasks : handler[t] # "idle"}
  /\ tracked \in [Tasks -> {"none", "pending", "retried"}]
  /\ catchups \in [Tasks -> 0 .. 1]
  /\ booting \subseteq Tasks
  /\ scan \subseteq Tasks
  /\ sweeping \in BOOLEAN
  /\ frames \subseteq Frame
  /\ up \in BOOLEAN
  /\ desk \in [Tasks -> {"none", "starting", "running"}]
  /\ faults \in 0 .. MaxFaults

Init ==
  /\ enabled = Tasks
  /\ due = [t \in Tasks |-> "future"]
  /\ queue = <<>>
  /\ armed = Tasks
  /\ running = {}
  /\ handler = [t \in Tasks |-> "idle"]
  /\ tracked = [t \in Tasks |-> "none"]
  /\ catchups = [t \in Tasks |-> 0]
  /\ booting = {}
  /\ scan = NoScan
  /\ sweeping = FALSE
  /\ frames = {}
  /\ up = TRUE
  /\ desk = [t \in Tasks |-> "none"]
  /\ faults = 0

-----------------------------------------------------------------------------
(***************************************************************************)
(* The synchronous part of the daemon, as functions from states to states: *)
(* one callback may fire several tasks in a row.                           *)
(***************************************************************************)

Now == [due |-> due, queue |-> queue, running |-> running, handler |-> handler,
        tracked |-> tracked, catchups |-> catchups]

Become(next) == \E s \in {next} :
  /\ due' = s.due /\ queue' = s.queue /\ running' = s.running
  /\ handler' = s.handler /\ tracked' = s.tracked /\ catchups' = s.catchups

\* A synchronous loop: Body for each element of q in turn, from state s on.
Loop(Body(_, _), s, q) ==
  LET after[i \in 0 .. Len(q)] == IF i = 0 THEN s ELSE Body(after[i - 1], q[i])
  IN  after[Len(q)]

\* computeNextRunAt
Following(t) == IF t \in OneShot THEN "none" ELSE "future"

\* update({nextRunAt: undefined}) leaves the row as it is.
Advance(t, was) == IF t \in OneShot THEN was ELSE "future"

\* Mutant: a plain INSERT.
enqueueTwice(q, t) == Append(q, t)

\* INSERT OR IGNORE
enqueue(q, t) == IF t \in ToSet(q) THEN q ELSE Append(q, t)

\* concurrency.acquire and the start of the handler.
onFire(s, t) ==
  [s EXCEPT !.due[t] = Following(t), !.running = @ \cup {t}, !.handler[t] = "probing"]

\* decideCatchup
CatchesUp(s, t) == s.due[t] = "late" /\ s.catchups[t] < 1
Deferred(s, t) == s.due[t] \in {"late", "stale"} /\ ~CatchesUp(s, t)

\* decideDue: a task that still runs skips this trigger.
decideDue(s, t) ==
  CASE t \in s.running -> s
    [] t \notin s.running /\ Cardinality(s.running) >= MaxConcurrent ->
         [s EXCEPT !.queue = enqueue(@, t)]
    [] OTHER -> onFire(s, t)

fireTask(s, t, force) ==
  CASE t \notin enabled \/ (s.due[t] = "future" /\ ~force) -> s
    [] t \in enabled /\ Deferred(s, t) -> [s EXCEPT !.due[t] = Advance(t, @)]
    [] OTHER -> decideDue(IF CatchesUp(s, t) THEN [s EXCEPT !.catchups[t] = @ + 1] ELSE s, t)

fireDue(s, t) == fireTask(s, t, FALSE)

\* Mutant: a disabled task at the head holds the queue up.
drainQueueInOrder(s) ==
  LET Drain(a, t) == IF Cardinality(a.running) >= MaxConcurrent \/ Head(a.queue) \notin enabled
                     THEN a ELSE fireTask([a EXCEPT !.queue = Tail(@)], t, TRUE)
  IN  Loop(Drain, s, s.queue)

\* One round: the row at the head, while a slot is free.
drainRow(s, t) ==
  IF Cardinality(s.running) >= MaxConcurrent THEN s
  ELSE fireTask([s EXCEPT !.queue = Tail(@)], t, TRUE)

\* The rows from the head on; a drained row enqueues nothing.
drainQueue(s) == Loop(drainRow, s, s.queue)

\* Mutant: the slot is freed and nobody looks at the queue.
completeQuietly(s, t) == [s EXCEPT !.running = @ \ {t}, !.handler[t] = "idle"]

completeTask(s, t) ==
  drainQueue([s EXCEPT !.running = @ \ {t}, !.handler[t] = "idle"])

\* dispatchedReleases.get(taskId)?.(), then delete
releaseDispatched(s, t) == IF s.handler[t] = "accepted" THEN completeTask(s, t) ELSE s

\* classifyInterruption for one entry of the rescan, the runtime being dead.
Interrupted(s, t) ==
  CASE s.tracked[t] = "none" -> s
    [] s.tracked[t] = "pending" ->
         fireTask(releaseDispatched([s EXCEPT !.tracked[t] = "retried"], t), t, TRUE)
    [] s.tracked[t] = "retried" -> releaseDispatched([s EXCEPT !.tracked[t] = "none"], t)

spawnWorker(s, t) == [s EXCEPT !.handler[t] = "worker"]

-----------------------------------------------------------------------------
(***************************************************************************)
(* Time and timers.                                                        *)
(***************************************************************************)

\* Time passes; nobody owes it to the task that anything happens at once.
Tick(t) ==
  /\ due[t] \in {"future", "now", "late"}
  /\ due' = [due EXCEPT ![t] = CASE @ = "future" -> "now" [] @ = "now" -> "late"
                                 [] OTHER -> "stale"]
  /\ UNCHANGED <<queue, running, handler, tracked, catchups, rest>>

\* A recurring timer reschedules itself whatever fireTask did; a one-shot does not.
timer(t) ==
  /\ t \in armed \cap enabled
  /\ due[t] \in {"now", "late", "stale"}
  /\ Become(fireTask(Now, t, FALSE))
  /\ armed' = armed \ (OneShot \cap {t})
  /\ UNCHANGED <<enabled, booting, scan, sweeping, frames, up, desk, faults>>

\* Mutant: a row without nextRunAt counts as overdue.
startupCatchupAll ==
  /\ sweeping
  /\ LET overdue == {t \in enabled : due[t] # "future"}
     IN  Become(Loop(fireDue, Now, SetToSeq(overdue)))
  /\ sweeping' = FALSE
  /\ UNCHANGED <<enabled, booting, armed, scan, frames, up, desk, faults>>

\* A second after the start: every overdue task, in the order of the list.
startupCatchup ==
  /\ sweeping
  /\ LET overdue == {t \in enabled : due[t] \in {"now", "late", "stale"}}
     IN  Become(Loop(fireDue, Now, SetToSeq(overdue)))
  /\ sweeping' = FALSE
  /\ UNCHANGED <<enabled, booting, armed, scan, frames, up, desk, faults>>

\* A rescan lists the pending entries, then awaits its probe. With no entry it
\* does nothing to them.
rescan ==
  /\ scan = NoScan
  /\ scan' = {t \in Tasks : tracked[t] # "none"}
  /\ scan' # NoScan
  /\ UNCHANGED <<daemon, enabled, booting, armed, sweeping, frames, up, desk, faults>>

\* The probe has 800 ms: only a fault makes it miss a runtime that is up.
ProbeMissesRuntime ==
  IF up THEN faults < MaxFaults /\ faults' = faults + 1 ELSE faults' = faults

rescanProbed ==
  /\ scan # NoScan
  /\ \/ up /\ UNCHANGED <<daemon, faults>>
     \/ ProbeMissesRuntime /\ Become(Loop(Interrupted, Now, SetToSeq(scan)))
  /\ scan' = NoScan
  /\ UNCHANGED <<enabled, booting, armed, sweeping, frames, up, desk>>

-----------------------------------------------------------------------------
(***************************************************************************)
(* One execution: probe, dispatch or worker, release.                      *)
(***************************************************************************)

\* The entry is tracked before the answer can arrive.
probed(t) ==
  /\ handler[t] = "probing"
  /\ \/ /\ up
        /\ Become([Now EXCEPT !.handler[t] = "sending", !.tracked[t] = "pending"])
        /\ frames' = frames \cup {[type |-> "dispatch", task |-> t]}
        /\ UNCHANGED <<booting, faults>>
     \/ /\ ProbeMissesRuntime
        /\ Become(spawnWorker(Now, t))
        /\ booting' = booting \cup {t}
        /\ UNCHANGED frames
  /\ UNCHANGED <<enabled, armed, scan, sweeping, up, desk>>

answered(t) ==
  \E f \in frames :
    /\ f.task = t /\ f.type \in {"accept", "reject"}
    /\ Become(IF f.type = "accept"
                THEN [Now EXCEPT !.handler[t] = "accepted"]
                ELSE completeTask([Now EXCEPT !.tracked[t] = "none"], t))
    /\ frames' = frames \ {f}
    /\ UNCHANGED <<enabled, booting, armed, scan, sweeping, up, desk, faults>>

\* Unreachable, or no answer within 30 s: the worker takes over. A dispatch that
\* is only slow still reaches the runtime.
unanswered(t) ==
  LET late == {f \in frames : f.task = t /\ f.type \in {"dispatch", "accept", "reject"}} IN
  /\ handler[t] = "sending"
  /\ IF late = {} THEN faults' = faults ELSE faults < MaxFaults /\ faults' = faults + 1
  /\ Become(spawnWorker([Now EXCEPT !.tracked[t] = "none"], t))
  /\ frames' = (frames \ late) \cup
       {[f EXCEPT !.type = "unread"] : f \in {g \in late : g.type = "dispatch"}}
  /\ booting' = booting \cup {t}
  /\ UNCHANGED <<enabled, armed, scan, sweeping, up, desk>>

\* The worker has booted and fires the task as the runtime would, which advances
\* nextRunAt again; it outlives the daemon. A worker that never gets there, or that
\* does not fire, changes nothing.
workerFires(t) ==
  /\ t \in booting
  /\ due' = [due EXCEPT ![t] = Advance(t, @)]
  /\ booting' = booting \ {t}
  /\ UNCHANGED <<queue, running, handler, tracked, catchups>>
  /\ UNCHANGED <<enabled, armed, scan, sweeping, frames, up, desk, faults>>

\* Mutant: the exit of a worker is not awaited.
workerExitsUnnoticed(t) ==
  /\ handler[t] = "worker"
  /\ UNCHANGED vars

\* The worker ends, is killed, or could not be started.
workerExits(t) ==
  /\ handler[t] = "worker"
  /\ Become(completeTask(Now, t))
  /\ booting' = booting \ {t}
  /\ UNCHANGED <<enabled, armed, scan, sweeping, frames, up, desk, faults>>

\* task.dispatch.complete and task.abort name the task, not the execution.
onFrame(t) ==
  \E f \in frames :
    /\ f.task = t /\ f.type \in {"complete", "abort"}
    /\ Become(releaseDispatched([Now EXCEPT !.tracked[t] = "none"], t))
    /\ frames' = frames \ {f}
    /\ UNCHANGED <<enabled, booting, armed, scan, sweeping, up, desk, faults>>

-----------------------------------------------------------------------------
(***************************************************************************)
(* The runtime.                                                            *)
(***************************************************************************)

Busy == {t \in Tasks : desk[t] # "none"}

\* scheduledTaskDispatchRejection: a conversation may be busy at any time, so a
\* refusal is always possible.
handleTaskDispatch(t) ==
  /\ up
  /\ \E f \in frames, answer \in {"accept", "reject"} :
       /\ f.task = t /\ f.type \in {"dispatch", "unread"}
       /\ answer = "accept" => t \in enabled \ Busy /\ Cardinality(Busy) < MaxConcurrent
       /\ desk' = IF answer = "accept" THEN [desk EXCEPT ![t] = "starting"] ELSE desk
       /\ frames' = (frames \ {f}) \cup
            (IF f.type = "dispatch" THEN {[type |-> answer, task |-> t]} ELSE {})
  /\ UNCHANGED <<daemon, enabled, booting, armed, scan, sweeping, up, faults>>

\* Accepted is not fired: without a model provider, or when the conversation or the
\* Run cannot be made, there is no Run and no completion. The runtime reads no other
\* frame in between, but it may die there; Busy counts the task meanwhile.
fireScheduledTask(t) ==
  /\ desk[t] = "starting"
  /\ \/ /\ desk' = [desk EXCEPT ![t] = "running"]
        /\ due' = [due EXCEPT ![t] = Advance(t, @)]
     \/ /\ desk' = [desk EXCEPT ![t] = "none"]
        /\ due' \in {due, [due EXCEPT ![t] = Advance(t, @)]}
  /\ UNCHANGED <<queue, running, handler, tracked, catchups>>
  /\ UNCHANGED <<enabled, booting, armed, scan, sweeping, frames, up, faults>>

\* attachTaskRunCleanup: without a result (the events of the Run cannot be read)
\* there is no completion either.
endRun(t) ==
  /\ desk[t] = "running"
  /\ desk' = [desk EXCEPT ![t] = "none"]
  /\ \/ frames' = frames \cup {[type |-> "complete", task |-> t]} /\ faults' = faults
     \/ frames' = frames /\ faults < MaxFaults /\ faults' = faults + 1
  /\ UNCHANGED <<daemon, enabled, booting, armed, scan, sweeping, up>>

\* The supervisor starts the runtime again.
ensureRuntime ==
  /\ ~up /\ up' = TRUE
  /\ UNCHANGED <<daemon, enabled, booting, armed, scan, sweeping, frames, desk, faults>>

RuntimeGone(aborts) ==
  /\ up /\ up' = FALSE
  /\ desk' = [t \in Tasks |-> "none"]
  /\ frames' = {f \in frames : f.type \notin {"dispatch", "unread"}} \cup aborts
  /\ faults < MaxFaults /\ faults' = faults + 1
  /\ UNCHANGED <<daemon, enabled, booting, armed, scan, sweeping>>

\* stop tells the daemon which dispatched tasks it abandons; a crash does not.
runtimeStops == RuntimeGone([type : {"abort"}, task : Busy])
runtimeDies == RuntimeGone({})

-----------------------------------------------------------------------------
(***************************************************************************)
(* Faults and edits.                                                       *)
(***************************************************************************)

\* The daemon dies and is started again: its tables survive, it drains the
\* queue, and the catch-up follows.
daemonDies ==
  /\ faults < MaxFaults /\ faults' = faults + 1
  /\ Become(drainQueue([due |-> due, queue |-> queue, running |-> {},
       handler |-> [t \in Tasks |-> "idle"], tracked |-> [t \in Tasks |-> "none"],
       catchups |-> [t \in Tasks |-> 0]]))
  /\ armed' = {t \in Tasks : due[t] # "none"}
  /\ scan' = NoScan
  /\ sweeping' = TRUE
  /\ frames' = {[f EXCEPT !.type = "unread"] :
       f \in {g \in frames : g.type \in {"dispatch", "unread"}}}
  /\ UNCHANGED <<enabled, booting, up, desk>>

frameLost(f) ==
  /\ faults < MaxFaults /\ faults' = faults + 1
  /\ frames' = frames \ {f}
  /\ UNCHANGED <<daemon, enabled, booting, armed, scan, sweeping, up, desk>>

\* The user switches a task off or on; the next rescan cancels or sets its timer.
setEnabled(t) ==
  /\ faults < MaxFaults /\ faults' = faults + 1
  /\ enabled' = IF t \in enabled THEN enabled \ {t} ELSE enabled \cup {t}
  /\ armed' = IF t \in enabled \/ due[t] = "none" THEN armed \ {t} ELSE armed \cup {t}
  /\ UNCHANGED <<daemon, booting, scan, sweeping, frames, up, desk>>

Next ==
  \/ \E t \in Tasks :
       \/ Tick(t) \/ timer(t) \/ probed(t) \/ answered(t) \/ unanswered(t)
       \/ workerFires(t) \/ workerExits(t) \/ onFrame(t) \/ setEnabled(t)
       \/ handleTaskDispatch(t) \/ fireScheduledTask(t) \/ endRun(t)
  \/ startupCatchup \/ rescan \/ rescanProbed
  \/ ensureRuntime \/ runtimeStops \/ runtimeDies \/ daemonDies
  \/ \E f \in frames : frameLost(f)

Spec == Init /\ [][Next]_vars

\* The handler's next step: at most one of them is enabled.
handlerStep(t) ==
  probed(t) \/ answered(t) \/ workerExits(t) \/ (unanswered(t) /\ faults' = faults)

runtimeStep(t) == handleTaskDispatch(t) \/ fireScheduledTask(t) \/ endRun(t)

\* Promises resolve, processes end or are restarted, frames that are not lost
\* arrive, and the interval timers run. Time itself is owed to nobody.
Fairness ==
  /\ WF_vars(rescan \/ rescanProbed) /\ WF_vars(ensureRuntime)
  /\ \A t \in Tasks : WF_vars(handlerStep(t)) /\ WF_vars(onFrame(t)) /\ WF_vars(runtimeStep(t))

FairSpec == Spec /\ Fairness

-----------------------------------------------------------------------------
(***************************************************************************)
(* Properties.                                                             *)
(***************************************************************************)

\* No queued task waits beside a free slot: whatever frees a slot (a worker's
\* exit, a refusal, a completion, an abort, the retry of a rescan, a restart)
\* drains the queue in the same callback. Nothing else looks at the queue.
NoIdleSlotWithQueue == queue # <<>> => Cardinality(running) = MaxConcurrent

\* A one-shot task that has fired is taken up again only as the retry of a
\* dispatch whose runtime was found dead, however timers, catch-up, the queue and
\* restarts of the daemon are interleaved.
OneShotsFireOnce ==
  [][\A t \in OneShot :
       /\ due[t] = "none" /\ t \notin running \cup Queued
       /\ t \in running' \cup Queued'
       => tracked[t] = "pending"]_vars

\* The slot of an accepted dispatch that nobody will release: the runtime is up,
\* so no rescan sees a crash, but it does nothing for the task and no frame is on
\* its way.
Leaked(t) ==
  /\ handler[t] = "accepted" /\ up /\ desk[t] = "none"
  /\ \A f \in frames : f.task = t => f.type \notin {"complete", "abort"}

\* Every slot is given back, unless it leaked: crashes of either process, late and
\* lost frames, refusals and takeovers lead to a release.
SlotsComeBack == \A t \in Tasks : (t \in running) ~> (t \notin running \/ Leaked(t))

\* Every queued task leaves the queue, unless a leaked slot holds it up.
QueueMoves == \A t \in Tasks : (t \in Queued) ~> (t \notin Queued \/ \E u \in Tasks : Leaked(u))

\* daemon/main.ts, at the finally of the handler: every acquired slot is released.
EverySlotReleased == \A t \in Tasks : (t \in running) ~> (t \notin running)

\* daemon/main.ts, in drainQueue: a queued row is an already-due trigger that does
\* not wait for the next periodic occurrence.
QueuedTriggersRun ==
  [][\A t \in enabled :
       t \in Queued /\ t \notin Queued' /\ t \notin running => t \in running']_vars
=============================================================================
