# A verification of SYNC-THINK's runtime core

SYNC-THINK is a desktop multi-agent assistant. A user approves a plan; the runtime executes
its Steps with agents, in parallel, over minutes or hours, across restarts, with reviews,
reworks, approvals, merges, pauses and cancellations. A daemon fires scheduled tasks and
delivers external events to the runtime, and conversations share a limited number of resident
kernel processes. What must not go wrong is spread over SQLite transactions, asynchronous code
that keeps promises in memory, frames between processes, and command handlers that connect all
of it to the user. This directory models those layers in TLA+, checks them with TLC on small
instances and proves every safety property the passing runs check, the two refinements included,
with TLAPS: for every plan and any number of processes, events, tasks, conversations and faults.
Liveness is checked with TLC only.

## 1. Inventory of the system

| Part | State | Operations | Hard behaviour | What makes it correct |
|---|---|---|---|---|
| Plan approval (`runtime.ts` `handlePlanApprove`, `createPlanAcceptanceGates`; `dag.ts`) | plan revision, Run, Steps, gates | validate, approve, create gates | one unit of work over several stores | acyclic graph, one gate per target, reviewers depend on exactly their target |
| Orchestration store (`orchestration-store.ts`) | Run, Steps with owner/lease/attempt, gates, evidence, bindings, events | claim, recover, complete, fail, review, await/resolve approval, merge, pause, resume, cancel | called by several processes in any order, with stale fences | gates hold, fences follow execution, final states stay, reviews are never lost, a Run never stalls |
| Step approvals (`approval-store.ts`, scheduler) | requests by action digest | enqueue, find, decide | two tables in one unit of work; decisions race pauses, failures and cancels | a parked Step and its request agree |
| Artifact merge and selection (`artifact-store.ts`) | versions, selections, conflicts | select, merge, record and resolve a conflict | the user acts while Steps run | merge Steps complete once and only when released |
| Scheduler (`scheduler.ts`) | drain promises, recoveries, heartbeats, active executions | tick, drain, recover, execute, gate an action, shut down | state read before `await` and used after it; shared promises; lost leases | every write is a legal transaction; a running Step is attended; nobody waits on a settled promise; the Run ends or waits for the user |
| Runtime commands (`runtime.ts`) | - | pause, resume, cancel, decide, merge, select, boot | which command wakes the scheduler | every wake-up that is needed is given |
| Production step executor | provider call | execute one Step | aborts | contract with the scheduler |
| Daemon task scheduling (`daemon/main.ts`, `queue.ts`, `catchup.ts`, `interrupt.ts`, `timers.ts`, `dispatch-client.ts`, `scheduler-core.ts`) | timers, slots, persistent queue, dispatch tracker, catch-up counts | fire, enqueue, drain, dispatch, take over, complete, abort, retry, catch up | acknowledgements and completions out of order, probes that are stale, crashes on both sides | slots come back and never exceed the limit, a free slot is used, a one-shot fires once |
| External event inbox (`external-event-*`, `external-event-store.ts`, `runtime.ts`) | rows with leases and tokens; the runtime's execution records | submit, claim, dispatch, heartbeat, complete, release, adopt, resume | crash between two durable writes, redelivery, takeover, late frames | one bound Run and one result per event; every event is settled |
| Kernel sessions (`kernel/bounded-session-host.ts`, external kernel Runs in `runtime.ts`) | entries, leases, waiters, one line of turns per conversation | acquire, release, evict, recycle, cancel, stop | awaits inside the drain, stops that fail, shutdown at any point | capacity, one turn per conversation, no lost wake-up, nothing outlives the shutdown |
| Gateway, tool approvals in chat, browser, desktop shell, bots, cloud, website, other stores | mostly I/O | | | see Not modelled |

`PROJECT.json` lists every component with its sources, and every hazard at its line with the
properties aimed at it.

How the parts interact: a command handler calls the store inside a unit of work (one SQLite
`BEGIN IMMEDIATE` transaction) and then, outside it, starts a drain or a recovery of the
scheduler. The scheduler reads the graph, awaits, claims Steps and starts executions; each
execution reports through a fenced transaction (owner id, attempt, live lease). Processes
share nothing but the database. Fences are the only protection against a process that does
not know it has been replaced.

The daemon and the runtime are separate processes that exchange frames over named pipes, one
connection per message, and share the database file. The daemon supervises the runtime and
restarts it; it leases events and slots to it and learns of the end of the work only by a
frame, or not at all. Inside the runtime a conversation's Runs wait for their turn and then for
a kernel process; `Runtime.stop` cancels them and stops the processes.

## 2. Modules

- `RunGraph` - the static graph of one Run. Derived review Steps have ids that are functions
  of gate, role, iteration and derivation (`stableDerivedReviewStepId`) and one fixed
  dependency, so the whole graph, derived Steps included, is a constant. Its assumptions are
  what plan approval enforces.
- `OrchestrationStore` - the abstract specification of what the database promises. One action
  per transaction; a transaction that throws rolls back, so its throws are guards. `Next`
  lets any owner with any attempt call anything at any time.
- `Scheduler` - extends the store with the processes: `proc`, `drain` (the entry of the
  `drains` map), `recoveries` (the phases of `recoverInternal`), `execs` (unsettled
  `executeClaimedStep` calls). What runs between two `await`s is one action.
- `ExternalEvents` - the inbox: the daemon's rows and pump, the frames under way, the runtime's
  durable records and its process state, and faults of all of them.
- `EventInbox` - what the inbox promises a submitter, without leases, attempts, frames or
  processes. `ExternalEvents` implements it by the refinement mapping `Inbox`: a row is open
  until it is settled, the bound Run is the execution record, and only results of bound Runs
  count.
- `DaemonTasks` - the daemon's scheduler. The code of one callback may fire several tasks in a
  row (`completeTask` drains the queue, which fires, which may enqueue), so the synchronous part
  is written as functions from states to states and an action applies them. A `for` loop of the
  code is `Loop(Body, s, q)`, the state after the last round of a recursive function of rounds.
- `KernelSessions` - the bounded host, the line of turns and the shutdown; a step ends where the
  code awaits.
- `MCOrchestrationStore`, `MCScheduler`, `MCExternalEvents`, `MCDaemonTasks`, `MCKernelSessions`
  - the instances TLC uses.
- `OrchestrationStoreProofs` (types, fences, approvals, final states), `ReviewProofs` (gates and
  reviews; extends it), `ProgressProofs` (no stall; extends `ReviewProofs`), `SchedulerProofs`
  (the refinement of the store), `AttendanceProofs` (what a process has in memory; extends
  `SchedulerProofs` and `ReviewProofs`), `ExternalEventsProofs`, `DaemonTasksProofs`,
  `KernelSessionsProofs` - the theorems, per component.

### Correspondence, store

| Code | Model |
|---|---|
| `run.state`, `step.state` | `run`, `step` (`"absent"` = not inserted) |
| `execution_owner_id`, `lease_expires_at`, `execution_attempt` | `owner`, `lease` (none/live/expired), `attempt` |
| `acceptance_gate.state/reassigned`, `review_evidence` | `gate`, `reassigned`, `verdict` |
| `approval_request`, last `step.awaitingApproval` event | `approval`, `binding` |
| open `artifact_merge_conflict` rows | `conflict` |
| latest image selection, frozen selections of reviewers | `selected`, `frozen` |
| stored `run.completed/failed/cancelled` events | `ended` |

`claimReadySteps`, `recoverRun`, `completeStep`, `failStep`, `completeReviewStep` (with
`acceptReview`, `rejectForRework`, `applyReviewLimit`), `prepareReviewStepForExecution`,
`selectImage`, `completeMergeStep`, `createMergeConflict`, `resolveMergeConflict`,
`requestApproval`, `decideApproval`, `pauseRun`, `resumeRun` and `cancelRun` carry the names
of the methods, or of the unit of work that calls them. Releasing pending Steps, deriving the
next review Step and moving the Run are parts of the action that does them in the code.

Details that are easy to overlook and are kept: the terminal event is stored even when the
`UPDATE run` finds the Run terminal (`EndRun`), while `transitionRunState` is silent when
nothing changes (`MoveRun`) and throws from a terminal state; a paused Run swallows most
transitions but not an abort; `failStep` does not count parked Steps and `completeStep` does;
`awaitStepApproval` does not ask for a live lease and moves even a terminal Run;
`resolveStepApproval` writes the Run whatever it was; a completed Step keeps its owner, a
cancelled one loses it.

### Correspondence, scheduler

| Code | Model |
|---|---|
| `drainInternal` loop head, `tick` up to the reviews | `DrainLoop` |
| the loop over `prepareReviewStepForExecution` | `PrepareReview` |
| `filterProtectedSteps`, one `await` per Step | `PreflightStep` |
| `claimReadySteps` and starting executions | `Claim` |
| `Promise.all(executions)` resolves | `TickDone` |
| the drain's promise resolves or rejects | `DrainResolves`, `DrainRejects` |
| `recoverInternal` to its `await`, its wait | `recoverInternal`, `RecoveryWakes` |
| `executeClaimedStep` after the executor | `ExecReturns`, `ExecThrows`, `ExecAsks` |
| `gateStepAction` | `gateStepAction` |
| handlers in `runtime.ts` | `Pause`, `Resume`, `Cancel`, `Decide`, `Merge`, `SelectImage` |
| `start()`, `shutdown()`, process death | `Boot`, `Shutdown`/`Exit`, `Crash` |
| `maintainLease` | `OrphanLeaseExpires` (nobody refreshes), `StalledLeaseExpires` (a live process is late) |

### Correspondence, events

| Code | Model |
|---|---|
| `daemon_external_event.state`, `(created_at, id)`, `attempt_count`, `run_id` | `state`, `order`, `attempts`, `rowRun` |
| SQLite's row id, the order of insertion | `rowid` |
| `lease_token` (fresh per claim) | the number of the claim, so that the row's token is `attempts` |
| `lease_expires_at` in the past | `expired` |
| `ExternalEventCoordinator.pumping` and the claimed record | `pump` |
| Run events, terminal event, `external-event.execution.*` setting | `runOf`, `result`, `execution` |
| `externalEventExecutions`, `inFlight` | `registered`, `inFlight` |
| `handleExternalEventDispatch` up to the committed Run, the rest of it | `Adopt`/`Refuse`/`Prepare`, `saveExternalEventExecution` or `saveThrows` |
| `attachExternalEventRunCleanup`, heartbeat timer | `reportResult`, `sendExternalEventHeartbeat` |

### Correspondence, daemon

| Code | Model |
|---|---|
| `nextRunAt` against the clock | `due`: none, future, now, late (at most 24 h), stale |
| `daemon_task_queue`, `TaskConcurrencyManager.running` | `queue`, `running` |
| where the async body of `onFire` is; an entry of `dispatchedReleases` | `handler`; `"accepted"` |
| `DispatchedTracker`, `catchupCounts`, `TimerRegistry` | `tracked`, `catchups`, `armed` |
| `fireTask`, `decideDue`, `decideCatchup`, `drainQueue`, `completeTask` | operators of the same names (`CatchesUp` and `Deferred` for `decideCatchup`) |
| `task.dispatch`, its answer, `task.dispatch.complete`, `task.abort` | `frames` |
| `dispatchedTasks`, `taskRuns` of the runtime | `desk` |
| worker processes that have not fired their task (`runDaemonTask`) | `booting` |

### Correspondence, kernel sessions

| Code | Model |
|---|---|
| `entries`, `leased`, `stopping` and who awaits the stop | `entries`, `holder`, `stopping` |
| `lastUsedAt` of idle entries | the relation `usedBefore` |
| `recycleRequested`; the `Promise.all` of a `recycleAll` | `recycle`; `batches` |
| `waiters`, `draining` with the waiter it serves | `waiters`, `draining` |
| `externalKernelSessionTails` | `HasTurn` |
| `Runtime.stop` between its awaits | `stop`, `abortRuns`, `stopAll`, `stopSettles` |

### Abstractions

- Time. A lease is live or expired. Refreshing a live lease changes nothing; a live process
  loses a lease only by stalling, at most `MaxStalls` times. A sleeping recovery may wake
  early, which costs a round and nothing else. Preparing reviews is an action of its own
  although the code does it in the same turn as the loop head; this only adds interleavings.
- Data. Artifacts, prompts, snapshots, event texts and idempotency keys are left out; a
  snapshot is over its limit or not (`Oversized`). An image selection is the producer it was
  made of: outputs of a rework replace the reviewed images (`assertValidReworkOutputs`), and
  the backup reviewer gets what the reviewer before it judged.
- Replays. Calling `completeStep` or `failStep` again with the same fence returns the stored
  result and is a stuttering step. So are commands that find nothing to do.
- Approvals. Only actions the policy does not approve by itself are modelled. `Protected` says
  which of them an execution of a Step may ask for. `Preflight` is
  `getActionRequest` of the executor interface, which the production executor does not
  implement; production asks through `gateStepAction` and `StepAwaitingApprovalError`.
- The executor is an environment. `AbortMayThrow = FALSE` is the production executor, which
  returns `{}` when aborted; `TRUE` is what the interface allows.
- Snapshots. `claimReadySteps` takes the snapshots of all requested Steps first; if some are over
  the limit it fails these and the Run and starts none. Whether a Step of `Oversized`, a derived
  reviewer or rework included, is over it depends on the artifacts it is given and is a choice at
  every claim.
- Left out: gates on merge Steps, more than one open conflict per Step, the step state
  `skipped` (never written), worker-mode runtimes (they neither recover nor drain), the drain
  after a browser handoff, task version checks.
- Event order. `claimNext` picks by `(created_at, id)`. `created_at` is the daemon's clock, which
  may repeat within a millisecond or be set back, and ids are in no order of time: a new row takes
  any place in `order`, while `rowid` keeps the order of insertion.
- Events. A dedupe key stands for the row; conversations, prompts and reasons are left out. The
  model provider may be missing at any time, so a refusal is always possible. A stop of the
  runtime and its death leave the same records and are one action.
- Tasks. Of a rule only whether it recurs is kept. `Tick` moves one task's clock at a time. The
  runtime's own history is left out. A worker ends, is killed or cannot be started, and what else
  it does inside is one step, `workerFires`: the due date of its task moves on when the worker
  fires it, which may be after its daemon died, and never for one that does not get so far. Two
  workers of one task, of a dead daemon and of its successor, count as one in `booting`.
- Probes. A probe of the runtime's pipe finds nobody when the runtime is down, and may miss one
  that is up (800 ms timeout); a miss counts as a fault, as does a Run that ends without a result
  to report (`finalizeScheduledTaskRun` returns nothing) and so sends no completion.
- Kernel sessions. `createAdapter` always succeeds. Attempts and fallback models inside a turn
  are one turn. Kernels other than codex take turns but have no host entry; they are not
  distinguished.

## 3. Properties and runs

Safety of the store, for all callers:

- `TypeOK`;
- `FenceWhileRunning` - lease exactly while running, with owner and attempt;
- `GateBarrier` - no Step is released, run or finished before its dependencies are completed
  and every gate above it is accepted;
- `ReviewTrail`, `OneReviewUnderWay` - evidence, reworks and gates agree; a review is neither
  lost nor duplicated;
- `FinalRunIsQuiet`, `FinalStatesAbsorb` - what final states mean, and that they are final
  (a *failed* Run is not: see the findings);
- `ApprovalMatchesStep` - parked Steps and requests agree;
- `NoStallWithoutFailure` - an open Run without failed Step can always move or waits for the
  user.

Of the scheduler:

- `ImplementsStore` - refinement: every step is a store transaction or a stutter;
- `RunningStepsAttended` - a running Step with a live lease of a live process has exactly one
  execution;
- `ProtectedStartsApproved` - nothing read before an await starts a protected Step unapproved;
- `WaitersAreServed` - nobody waits for a promise that has settled;
- `RunSettles`, `OrphansAreRecovered`, `ReadyStepsStart` - liveness, where at most one Step is an
  orphan or parked at a time (with two, see the end of Findings).

Of the event inbox:

- `InboxSpec` - refinement: leases, takeovers, stale completions and restarts implement
  `EventInbox`: one bound Run, one result, settled once;
- `LeaseWindow` - of the rows older than a leased one, by creation time and by insertion, fewer
  than `MaxConcurrent` are unsettled: expired and revived leases starve no earlier event;
- `RowNamesItsRun`, `FailureIsExplained` - what a settled row says is true of the Run it names;
  faults alone fail nothing before the last attempt;
- `EventsSettle` - liveness: every event is settled, unless a Run was stranded by a restart
  without a model provider.

Of the daemon:

- `NoIdleSlotWithQueue` - no queued task waits beside a free slot;
- `OneShotsFireOnce` - a fired one-shot is only taken up again as the retry of a dispatch
  whose runtime was found dead;
- `SlotsComeBack`, `QueueMoves` - liveness, unless a slot leaked (`Leaked`).

Of the kernel sessions:

- `WithinCapacity`, `OneTurnPerConversation`, `TurnKeepsItsProcess`, `NoLostWakeup`,
  `NothingOutlivesStop` and, as liveness, `RunsEnd`.

| Run | Instance | States | Result |
|---|---|---|---|
| `store_review` | planned reviewer, 1 rework, backup reviewer, image gate, a Step behind; 2 owners (symmetric), 2 attempts | 347,054 | pass |
| `store_limits` | two gates with 0 reworks, abort and pause, one planned and one derived reviewer, the derived one over the snapshot limit or not, a merge Step behind both, two protected actions (one denied); 1 owner, 2 attempts (a late execution differs in its attempt; two owners are in `store_review`) | 180,768 | pass |
| `sched_overlap` | two Steps side by side, preflight on one, 2 overlapping processes, 1 stall, 1 command, aborted executors may throw | 863,524 | pass |
| `sched_review` | review with rework and image choice, merge Step, oversized Step; the last Step may ask for approval; 1 crash/shutdown, 1 command, fairness | 38,232 | pass |
| `events_delivery` | 2 events, 1 slot, 2 attempts, 4 Run ids, 1 fault, fairness | 340,633 | pass |
| `daemon_tasks` | a recurring and a one-shot task, 1 slot, 1 fault or edit, fairness | 118,040 | pass |
| `session_host` | 3 Runs, 3 conversations, 2 processes, 1 recycle, 1 failing stop, shutdown, fairness | 111,831 | pass |
| `store_terminal_events`, `sched_lost_lease`, `events_second_run`, `daemon_queue`, `daemon_slots` | see Findings | | violation |

Bounds. `MaxAttempts` bounds how often a Step is claimed: two attempts are needed for a stale
execution to meet its successor. `Owners` has two members except in `store_limits` and
`sched_lost_lease`: one that is replaced and one that replaces it; one owner id is kept unused until the end so that a dead runtime can be started
again. `MaxStalls` and `MaxCommands` bound what the environment may do arbitrarily often.
One rework and a backup reach every branch of `nextReviewAction`; zero reworks reach the
boundary. Because the bounds make behaviours end, deadlock is not checked
(a finished or bounded-out Run has no successor); `NoStallWithoutFailure` and `RunSettles` say
what deadlock freedom means here.

In `events_delivery` one fault is enough for each kind to meet every phase of a delivery, two
attempts are the smallest number with a last and a not last one, and the safety properties were
also checked once with two faults (7,874,655 states). Deadlock is checked: a settled inbox still
accepts a duplicate submission. In `daemon_tasks` two tasks and one slot make the queue matter;
the fault is a crash of either process, a stop, a lost frame, a missed timeout, a probe that misses, a Run without a result or an edit. In
`session_host` three conversations compete for two places, so that evictions happen with a
waiter behind them, and three Runs make a line with a middle. Both stop when their bounds are
used up or the runtime is down, so deadlock is not checked there.

Fairness (`Fairness` in `Scheduler`) is weak fairness of: the drain and recovery
continuations of a live process (promises and timers of Node's event loop), the end of an
execution (`Settle`: executors have timeouts), the expiry of a lease nobody refreshes (time
passes), the completion of a shutdown, and a restart after the runtime died (the desktop
supervisor starts it again, or the user does). Nothing is assumed of the user: no fairness of
resume, decide, merge or select; `RunSettles` counts waiting for the user as settled, and a Run
that stalls after one of its Steps failed (`StalledByFailure`) as settled too.

`ExternalEvents`: the one-second pump and the health timer of the daemon, delivery of frames
that are not lost, the runtime's handlers and timers, the expiry of a lease nobody attends to,
the end of a Run that executes. No fairness of faults, refusals or submissions. `DaemonTasks`:
continuations of the handler, frames that are not lost, the rescan interval, the supervisor's
restart and the end of tasks and workers (both have timeouts). Time itself is owed to nobody.
`KernelSessions`: continuations of the drain, the settlement of a stop (to success or failure),
the end of a turn, and the next step of a shutdown that has begun. Nothing is assumed of idle
timers, recycling or cancellation.

Every property has a mutant in the modules, a definition changed as a plausible bug would,
under which TLC finds the property violated; they stand before the definition they change and
no specification uses them.

## 4. Findings

1. `store_terminal_events`: a Run that failed while a Step was parked is reopened by the
   decision and can store `run.failed` twice, against the "no duplicate terminal events" of the
   M2 plan.
2. `sched_lost_lease`: a process that lost a lease cannot fail the Step and nobody recovers it
   until the next boot or resume, against "fails and cleans up when a lost lease executor
   ignores AbortSignal forever".
3. `events_second_run`: the Run of an event and the record that names it are two transactions;
   a crash between them makes the redelivery open a second Run, against "重复投递或 crash
   takeover 复用原 Run" (docs/engineering/04-tech-decisions.md:1386).
4. `daemon_slots`: the runtime acknowledges a task before it fires it and reports nothing when
   it then cannot, so the daemon's slot is never released, against "Every acquired slot is
   released exactly once" (`daemon/main.ts`:794). The other ways to leak a slot, a crash repaired
   before the next rescan, a lost completion or one that overtakes its acknowledgement, a Run
   that ends without a result, end in the same state, `Leaked`.
5. `daemon_queue`: a queued task keeps its `nextRunAt`, counts as missed when it is drained late
   and may be dropped, against the comment at `daemon/main.ts`:914.

Known from the models, without a run of their own: resuming a paused Run whose gated Step
failed yields `reviewing` with nothing to run (`orchestration-store.ts`:3003; the Run stalls
after a failure); `recoverInternal` returns after the first drain that starts a Step
(`scheduler.ts`:393), so of two orphans the one whose lease had not expired at the restart stays
running, with an expired lease, until the next boot or resume (`OrphansAreRecovered` fails with
two Steps side by side and one crash); the drain after an approval stops at a Step that is still
parked, and a rejection drains nothing (`runtime.ts`:12751), so a Step approved before the other
one was rejected stays ready in an open Run (`ReadyStepsStart` fails with two parked Steps), while
without a rejection every order of decisions starts both; the number of leased events
may exceed `MaxConcurrent` when a row inserted later has an earlier `created_at` and the lease of
a row behind it, expired meanwhile, is revived (`external-event-store.ts`:198); a failed stop
in `recycleAll` skips the drain behind it (`bounded-session-host.ts`:124), and the entry blocks
its own conversation because the failed stop is cached (line 253); one failed stop also makes
`Runtime.stop` throw before it tells the daemon which tasks it abandons (`runtime.ts`:33557);
`daemon.setConfig` raises the limit without draining the queue (`daemon/main.ts`:1109).

## 5. Proofs

Every invariant, safety action property and refinement that a passing run checks is a theorem.
The theorems hold for all constants that satisfy the named assumptions; TLC evaluates these in
each run.

- `GraphAssumption`, `LineageAssumption`, `StepIdAssumption`, `AcyclicAssumption` are what plan
  approval enforces: a finite, non-empty plan (`assertValidSteps` throws `plan.steps_required`),
  gates on ordinary Steps, reviewers that depend on exactly their target, derived ids that are
  no plan ids, no cycle.
- `StoreAssumption`, `SchedulerAssumption`, `EventAssumption`, `DaemonAssumption` and
  `HostAssumption` say that the null values are none of the real ones, that sets of tasks,
  events and conversations are finite, that limits are positive and that bounds are numbers.

A proof that an invariant is kept has one step per action. What most of them need first is a
stronger invariant; each was checked with TLC before it was proved.

**The store** (`OrchestrationStoreProofs`, `ReviewProofs`, `ProgressProofs`)

- `TypeCorrect`, `FencesFollowExecution`: `TypeOK` and `FenceWhileRunning` are inductive
  together.
- `ApprovalsFollowSteps`: `ApprovalMatchesStep` is not inductive alone, because nothing would
  tie an approval *not* bound to the Step to anything. `ApprovalsBound` says that a pending
  request is the bound one and that a Step with a rejected request has failed.
- `FinishedRunsAreQuiet`: with `QuietInv` = `TypeOK`, plan Steps are never absent, and the
  property. Without the second part a Run could be complete by losing a Step.
- `FinalStatesAreAbsorbing`: the action property, one case per action.
- `GatesHoldTheLine`: `GateBarrier` is inductive with `TypeOK`, since a completed Step and an
  accepted gate stay so.
- `GatesFollowEvidence`, `ReviewsAreNeverLost`: `ReviewTrail` and `OneReviewUnderWay` need each
  other. `ReviewInv` says of each gate that derived Steps appear only after the target is
  completed (`DerivedAfterTarget`), that an active gate whose target is completed has exactly
  one review Step that is not (`OneOpen`), and how verdicts, iterations and the gate agree (`Trail`).
  The verdict of the one open Step decides which Step is derived next, and the lemmas about ids
  show that this one was absent.
- `OpenRunsCanMove`: `NoStallWithoutFailure`. `StallInv` adds to `ReviewInv` that a gate at its
  limit keeps the Run paused or has ended it, that Steps are cancelled only with their Run, and
  that a Run with nothing left to do does not stay open. If a Run is open and nothing is ready,
  running, parked or failed, take a pending plan Step whose set of ancestors is minimal: its
  dependencies are completed, so it is held by a gate above it, and the open review of that
  gate can be started.

**The scheduler** (`SchedulerProofs`, `AttendanceProofs`)

- `SchedulerTypeCorrect`, `SchedulerImplementsStore`: `SchedSpec => Spec`. The identity mapping
  is not enough by itself: that a stale execution writes nothing uses that executions carry
  attempts within the bound and owners that exist, so the invariant is `SchedInv` =
  `TypeOK /\ FenceWhileRunning /\ MemoryOK`.
- `SchedulerKeepsFinalStates`, `SchedulerKeepsGates`: the store's results carried over.
- `StepsAreAttended`, `PreflightHolds`, `NobodyWaitsInVain`: `RunningStepsAttended`,
  `ProtectedStartsApproved`, `WaitersAreServed`, by one invariant `AttendInv`. That a running
  Step has *exactly* one execution follows from `Attended` (it has one) and `Numbered` (no two
  executions share Step and attempt, none is ahead of the Step's attempts); a new process finds
  no Steps of its own (`OwnersStarted`); and a candidate cleared before an `await` is still
  approved after it, because approvals are final (`ClearedAreApproved`).

**The event inbox** (`ExternalEventsProofs`)

- `InboxTypeCorrect`, `RowsNameTheirRun`, `FailuresAreExplained`: the rows alone know nothing of
  the Run, so `EventInv` also says what the runtime's records and the pipes know. A record binds
  an event to a Run it opened (`Bindings`), a Run under way has no result (`OpenRuns`), and a
  frame, however late it is read, names the bound Run and its result (`FramesTell`). This is
  stable because bindings, Runs and results are never changed (`DurableGrows`).
- `LeasesStayAtTheHead`: `LeaseWindow`, by counting the unsettled events ahead of a leased one:
  a new row may
  be put in front of a leased one, but it is the younger by insertion, and the property counts
  what is older by both orders.
- `InboxKeepsItsPromise`: `Spec => InboxSpec`, step by step: submissions, bindings, results and
  settlements map to steps of `EventInbox`, everything about leases, frames and processes to
  stuttering.

**The daemon** (`DaemonTasksProofs`)

- `DaemonTypeCorrect`, `SlotsServeTheQueue`, `OneShotsStayFired`: `TypeOK`,
  `NoIdleSlotWithQueue`, `OneShotsFireOnce`. `TypeOK` includes that a slot is held by exactly the
  executions under way and that no task is queued twice. `DaemonInv` adds `AsksAreAwaited`: a
  request or an answer under way is the only one of the execution that waits for it; otherwise
  an acceptance that arrives late could revive an execution that is over.
- A callback is a loop whose rounds fire, enqueue and dispatch. `CountUp`, `TraceExists` and
  `TraceUnique` give the states of its rounds; `DrainLoop`, `SweepLoop` and `RescanLoop` say what
  holds after each one. After the drain either no slot is free or the queue is empty, whichever
  tasks were dropped on the way.

**The kernel sessions** (`KernelSessionsProofs`)

- `HostIsSound`: `HostInv` is inductive. It relates leases to turns (`Leases`, `Running`), the
  line to the Runs in it (`Line`, `Turns`), the drain's victim to the waiter it makes room for
  (`Evictions`) and the stops that a `recycleAll` awaits to their causes (`Requests`,
  `Batches`).
- `HostTypeCorrect`, `TurnsExclude`, `LeasesProtectTurns` follow from it.
  `HostStaysWithinCapacity`, `ShutdownIsComplete` and `WaitersAreWoken` (`WithinCapacity`,
  `NothingOutlivesStop`, `NoLostWakeup`) are inductive relative to it: the place an eviction
  frees goes to the waiter the drain holds, and every step that makes a waiter servable drains
  the line.

Induction. The library's induction principles take a predicate, which the provers cannot
instantiate. Where induction is needed (the first pending Step of a plan, the rounds of a loop)
the proofs use `WFMin` of `WellFoundedInduction` on a *set*: a smallest counterexample exists,
and it is none.

Only model-checked: the liveness properties `RunSettles`, `OrphansAreRecovered`,
`ReadyStepsStart`, `EventsSettle`, `SlotsComeBack`, `QueueMoves` and `RunsEnd`, because the
prover handles neither `ENABLED` nor fairness, and the violated properties of the findings,
whose counterexamples are TLC's.

## 6. Plan

Done: the run graph, the store, the scheduler with its commands and their refinement; the event
inbox with its abstract specification; the daemon's task scheduling; the kernel session host;
theorems for all safety properties of these. Next, in this order:

1. An abstract specification of a Run as the user sees it (queued, open, waiting, over), which
   the store implements, and the proof that it does.
2. What the findings leave true: a weaker statement for each violated property, checked and
   proved (a terminal event is stored at most once unless a decision reopens a failed Run; a
   slot is released at most once).
3. `daemon.setConfig` and the runtime's own task scheduler, which yields to the daemon.
4. If time allows: approvals of single tool calls, gateway tickets, the update rollback.

## 7. Not modelled

Most of the repository's 300,000 lines are presentation (the renderer and its settings pages),
wire types, vendor adapters and tools that act on files and browsers; the part with concurrent
protocols of its own is the part modelled here. Not modelled and not planned: provider and kernel adapters, browser and desktop automation,
bot channels, transports, storage maintenance, the renderer, cloud and website (I/O and
presentation, with no state the properties above depend on).
