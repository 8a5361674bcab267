---------------------------- MODULE ExternalEvents ----------------------------
(***************************************************************************)
(* The durable external event inbox: the daemon stores events, leases the  *)
(* oldest one at a time and dispatches it to the runtime over a pipe; the  *)
(* runtime binds the event to one Run, executes it, renews the lease and   *)
(* reports the result. Both processes may crash, frames may be lost or     *)
(* late, and a lease that nobody renews is taken over.                     *)
(*                                                                         *)
(* SqliteExternalEventStore (packages/storage), ExternalEventCoordinator   *)
(* (apps/runtime/src/daemon) and the external event half of the runtime    *)
(* (apps/runtime/src/runtime.ts).                                          *)
(***************************************************************************)
EXTENDS Naturals, FiniteSets

CONSTANTS
  Events,          \* dedupe keys; a row's id never matters on its own
  MaxConcurrent,   \* taskMaxConcurrent, the same setting in both processes
  MaxAttempts,     \* ExternalEventCoordinatorOptions.maxAttempts
  MaxRuns,         \* bound: Run ids the runtime may draw
  MaxFaults        \* bound: crashes, lost or late frames, failed saves

ASSUME EventAssumption ==
  /\ IsFiniteSet(Events) /\ "none" \notin Events
  /\ MaxConcurrent \in Nat \ {0}
  /\ MaxAttempts \in Nat \ {0}
  /\ MaxRuns \in Nat
  /\ MaxFaults \in Nat

NoRun == 0
Runs == 1 .. MaxRuns
Results == {"success", "failed", "cancelled"}
Settled == {"completed", "failed", "cancelled"}
States == {"absent", "pending", "leased"} \cup Settled
Frame == [type : {"dispatch", "accept", "reject", "heartbeat", "complete"},
          event : Events, token : Nat, run : Runs \cup {NoRun},
          status : Results \cup {"none"}]
NoPump == [event |-> "none", token |-> 0, sent |-> FALSE]
NoWork == [event |-> "none", token |-> 0, run |-> NoRun]

VARIABLES
  state, order, rowid, attempts,            \* the rows of daemon_external_event
  expired, rowRun,
  pump,                                     \* ExternalEventCoordinator.pumping
  frames,                                   \* frames under way on the pipes
  runOf, result, execution,                 \* the runtime's durable records
  up, registered, inFlight, preparing,      \* the runtime process
  faults

\* A row: its state; order is its place by (created_at, id), rowid the number of
\* its insertion, both 0 when absent; attempts is attempt_count, and the token of
\* the n-th claim is n, so that the row's lease_token is attempts; expired holds
\* the rows whose lease_expires_at has passed; rowRun is run_id.
row == <<state, order, rowid, attempts, expired, rowRun>>

\* runOf[r] is the event whose message opened Run r; result[r] its terminal
\* event; execution[e] the external-event execution setting of e.
durable == <<runOf, result, execution>>

\* registered[e] is the lease token in externalEventExecutions, 0 when e is not
\* there; preparing is the dispatch whose Run is persisted and whose execution
\* record is not yet saved.
process == <<up, registered, inFlight, preparing>>

vars == <<row, pump, frames, durable, process, faults>>

TypeOK ==
  /\ state \in [Events -> States]
  /\ order \in [Events -> Nat]
  /\ rowid \in [Events -> Nat]
  /\ attempts \in [Events -> Nat]
  /\ expired \subseteq {e \in Events : state[e] = "leased"}
  /\ rowRun \in [Events -> Runs \cup {NoRun}]
  /\ pump \in [event : Events, token : Nat, sent : BOOLEAN] \cup {NoPump}
  /\ frames \subseteq Frame
  /\ runOf \in [Runs -> Events \cup {"none"}]
  /\ result \in [Runs -> Results \cup {"none"}]
  /\ execution \in [Events -> Runs \cup {NoRun}]
  /\ up \in BOOLEAN
  /\ registered \in [Events -> Nat]
  /\ inFlight \subseteq Runs
  /\ preparing \in [event : Events, token : Nat, run : Runs] \cup {NoWork}
  /\ faults \in 0 .. MaxFaults

Init ==
  /\ state = [e \in Events |-> "absent"]
  /\ order = [e \in Events |-> 0]
  /\ rowid = [e \in Events |-> 0]
  /\ attempts = [e \in Events |-> 0]
  /\ expired = {}
  /\ rowRun = [e \in Events |-> NoRun]
  /\ pump = NoPump
  /\ frames = {}
  /\ runOf = [r \in Runs |-> "none"]
  /\ result = [r \in Runs |-> "none"]
  /\ execution = [e \in Events |-> NoRun]
  /\ up = TRUE
  /\ registered = [e \in Events |-> 0]
  /\ inFlight = {}
  /\ preparing = NoWork
  /\ faults = 0

-----------------------------------------------------------------------------
(***************************************************************************)
(* The store.                                                              *)
(***************************************************************************)

Message(type, e, token, r, status) ==
  [type |-> type, event |-> e, token |-> token, run |-> r, status |-> status]

\* WHERE id = ? AND state = 'leased' AND lease_token = ?
Fenced(e, token) == state[e] = "leased" /\ attempts[e] = token

\* run_id = COALESCE(?, run_id)
SetRun(e, r) == rowRun' = IF r = NoRun THEN rowRun ELSE [rowRun EXCEPT ![e] = r]

NewRowid == Cardinality({e \in Events : state[e] # "absent"}) + 1

\* created_at is the clock of the daemon, which may repeat or go back, and ids are
\* in no order of time: a new row takes any place among the others.
PlaceRow(e) ==
  \E place \in (1 .. Cardinality(Events)) \ {order[f] : f \in Events \ {e}} :
    order' = [order EXCEPT ![e] = place]

\* Mutant: INSERT OR REPLACE.
submitReplacing(e) ==
  /\ state' = [state EXCEPT ![e] = "pending"]
  /\ PlaceRow(e)
  /\ rowid' = [rowid EXCEPT ![e] = NewRowid]
  /\ expired' = expired \ {e}
  /\ UNCHANGED <<attempts, rowRun, pump, frames, durable, process, faults>>

\* INSERT OR IGNORE: a second submission of a dedupe key finds the first row.
submit(e) ==
  /\ IF state[e] = "absent"
       THEN /\ state' = [state EXCEPT ![e] = "pending"]
            /\ PlaceRow(e)
            /\ rowid' = [rowid EXCEPT ![e] = NewRowid]
       ELSE UNCHANGED <<state, order, rowid>>
  /\ UNCHANGED <<attempts, expired, rowRun, pump, frames, durable, process, faults>>

\* Mutant: expired leases are not taken over.
ClaimablePending == {e \in Events : state[e] = "pending"}

Claimable == {e \in Events : state[e] = "pending" \/ e \in expired}

\* Mutant: no ORDER BY.
claimAny(e) ==
  /\ e \in Claimable
  /\ state' = [state EXCEPT ![e] = "leased"]
  /\ attempts' = [attempts EXCEPT ![e] = @ + 1]
  /\ expired' = expired \ {e}
  /\ UNCHANGED <<order, rowid, rowRun>>

claimNext(e) ==
  /\ e \in Claimable
  /\ \A f \in Claimable : order[e] <= order[f]
  /\ state' = [state EXCEPT ![e] = "leased"]
  /\ attempts' = [attempts EXCEPT ![e] = @ + 1]
  /\ expired' = expired \ {e}
  /\ UNCHANGED <<order, rowid, rowRun>>

\* The lease is renewed even when it has already run out.
heartbeat(e, token, r) ==
  /\ IF Fenced(e, token)
       THEN expired' = expired \ {e} /\ SetRun(e, r)
       ELSE UNCHANGED <<expired, rowRun>>
  /\ UNCHANGED <<state, order, rowid, attempts>>

StateOf(status) == IF status = "success" THEN "completed" ELSE status

complete(e, token, status, r) ==
  /\ IF Fenced(e, token)
       THEN /\ state' = [state EXCEPT ![e] = StateOf(status)]
            /\ expired' = expired \ {e}
            /\ SetRun(e, r)
       ELSE UNCHANGED <<state, expired, rowRun>>
  /\ UNCHANGED <<order, rowid, attempts>>

\* Mutant: lease_expires_at is not cleared.
releaseKeepingExpiry(e, token) ==
  /\ state' = IF Fenced(e, token) THEN [state EXCEPT ![e] = "pending"] ELSE state
  /\ UNCHANGED <<order, rowid, attempts, expired, rowRun>>

release(e, token) ==
  /\ IF Fenced(e, token)
       THEN state' = [state EXCEPT ![e] = "pending"] /\ expired' = expired \ {e}
       ELSE UNCHANGED <<state, expired>>
  /\ UNCHANGED <<order, rowid, attempts, rowRun>>

-----------------------------------------------------------------------------
(***************************************************************************)
(* The coordinator. pumpOnce runs at most once at a time: it claims, waits *)
(* for the runtime to be up, sends, and waits for the answer.              *)
(***************************************************************************)

Active == {e \in Events : state[e] = "leased" /\ e \notin expired}

pumpOnce ==
  /\ pump = NoPump
  /\ Cardinality(Active) < MaxConcurrent
  /\ \E e \in Events :
       /\ claimNext(e)
       /\ pump' = [event |-> e, token |-> attempts[e] + 1, sent |-> FALSE]
  /\ UNCHANGED <<frames, durable, process, faults>>

\* ensureRuntime resolved to true.
dispatch ==
  /\ pump # NoPump /\ ~pump.sent /\ up
  /\ pump' = [pump EXCEPT !.sent = TRUE]
  /\ frames' = frames \cup {Message("dispatch", pump.event, pump.token, NoRun, "none")}
  /\ UNCHANGED <<row, durable, process, faults>>

\* Mutant: the last attempt is not made.
GiveBackEarly(e, token) ==
  IF token + 1 >= MaxAttempts THEN complete(e, token, "failed", NoRun) ELSE release(e, token)

\* attempt_count of the claimed record is the number of its token.
GiveBack(e, token) ==
  IF token >= MaxAttempts THEN complete(e, token, "failed", NoRun) ELSE release(e, token)

\* The answer to the dispatch the pump waits for; no other answer has a reader.
acked(f) ==
  /\ f.type \in {"accept", "reject"}
  /\ IF f.type = "accept"
       THEN heartbeat(f.event, f.token, f.run)
       ELSE GiveBack(f.event, f.token)
  /\ pump' = NoPump
  /\ frames' = frames \ {f}
  /\ UNCHANGED <<durable, process, faults>>

Waiting(f) ==
  /\ f.type \in {"dispatch", "accept", "reject"}
  /\ f.event = pump.event /\ f.token = pump.token

\* No answer: nothing is left that could bring one, or it is a fault, a runtime
\* that does not start or an answer that misses the timeout. A late dispatch may
\* still reach the runtime; a late answer reaches nobody.
unanswered ==
  /\ pump # NoPump
  /\ IF /\ pump.sent
        /\ \A f \in frames : ~Waiting(f)
        /\ preparing = NoWork \/ preparing.token # pump.token \/ preparing.event # pump.event
       THEN faults' = faults
       ELSE faults < MaxFaults /\ faults' = faults + 1
  /\ GiveBack(pump.event, pump.token)
  /\ pump' = NoPump
  /\ frames' = {f \in frames : Waiting(f) => f.type = "dispatch"}
  /\ UNCHANGED <<durable, process>>

onHeartbeat(f) ==
  /\ f.type = "heartbeat"
  /\ heartbeat(f.event, f.token, f.run)
  /\ frames' = frames \ {f}
  /\ UNCHANGED <<pump, durable, process, faults>>

onComplete(f) ==
  /\ f.type = "complete"
  /\ complete(f.event, f.token, f.status, f.run)
  /\ frames' = frames \ {f}
  /\ UNCHANGED <<pump, durable, process, faults>>

\* Somebody still looks after the lease: the pump, the runtime that renews it
\* every 10 s, or a frame that has only to arrive.
Attended(e) ==
  \/ pump.event = e
  \/ up /\ registered[e] = attempts[e]
  \/ \E f \in frames : f.event = e /\ f.token = attempts[e] /\ f.type \in {"heartbeat", "complete"}

\* 30 s pass. While the lease is attended to, only a fault makes it run out.
expire(e) ==
  /\ e \in Active
  /\ IF Attended(e)
       THEN faults < MaxFaults /\ faults' = faults + 1
       ELSE faults' = faults
  /\ expired' = expired \cup {e}
  /\ UNCHANGED <<state, order, rowid, attempts, rowRun, pump, frames, durable, process>>

-----------------------------------------------------------------------------
(***************************************************************************)
(* The runtime.                                                            *)
(***************************************************************************)

\* An answer is only read by the request that waits for it.
Ack(e, token, type, r) ==
  IF pump.event = e /\ pump.token = token
    THEN {Message(type, e, token, r, "none")}
    ELSE {}

registerExternalEventExecution(e, token) == registered' = [registered EXCEPT ![e] = token]

Registered == {e \in Events : registered[e] # 0}

\* externalEventDispatchRejection, or an exception before the Run is persisted.
\* A model provider may be missing at any time; the limit is not a choice.
Refuse(f) ==
  /\ frames' = (frames \ {f}) \cup Ack(f.event, f.token, "reject", NoRun)
  /\ UNCHANGED <<row, pump, durable, process, faults>>

\* A redelivery adopts the Run of the first delivery.
Adopt(f) ==
  /\ execution[f.event] # NoRun
  /\ registerExternalEventExecution(f.event, f.token)
  /\ frames' = (frames \ {f}) \cup Ack(f.event, f.token, "accept", execution[f.event])
                  \cup {Message("heartbeat", f.event, f.token, execution[f.event], "none")}
  /\ UNCHANGED <<row, pump, durable, up, inFlight, preparing, faults>>

Unused == {r \in Runs : runOf[r] = "none"}

\* Mutant: a redelivery opens a Run of its own.
PrepareAgain(f) ==
  /\ Cardinality(Registered) < MaxConcurrent
  /\ \E r \in Unused :
       /\ \A s \in Unused : r <= s
       /\ runOf' = [runOf EXCEPT ![r] = f.event]
       /\ preparing' = [event |-> f.event, token |-> f.token, run |-> r]
  /\ frames' = frames \ {f}
  /\ UNCHANGED <<row, pump, result, execution, up, registered, inFlight, faults>>

\* persistProjectedEvents commits the Run's first events.
Prepare(f) ==
  /\ execution[f.event] = NoRun
  /\ Cardinality(Registered) < MaxConcurrent
  /\ \E r \in Unused :
       /\ \A s \in Unused : r <= s
       /\ runOf' = [runOf EXCEPT ![r] = f.event]
       /\ preparing' = [event |-> f.event, token |-> f.token, run |-> r]
  /\ frames' = frames \ {f}
  /\ UNCHANGED <<row, pump, result, execution, up, registered, inFlight, faults>>

handleExternalEventDispatch(f) ==
  /\ up /\ preparing = NoWork
  /\ f.type = "dispatch"
  /\ \/ Adopt(f)
     \/ execution[f.event] = NoRun /\ Refuse(f)
     \/ Prepare(f)

\* The rest of the handler: no other code of the process runs in between, but
\* the process may die there.
saveExternalEventExecution ==
  /\ preparing # NoWork
  /\ execution' = [execution EXCEPT ![preparing.event] = preparing.run]
  /\ registerExternalEventExecution(preparing.event, preparing.token)
  /\ inFlight' = inFlight \cup {preparing.run}
  /\ frames' = frames \cup Ack(preparing.event, preparing.token, "accept", preparing.run)
       \cup {Message("heartbeat", preparing.event, preparing.token, preparing.run, "none")}
  /\ preparing' = NoWork
  /\ UNCHANGED <<row, pump, runOf, result, up, faults>>

\* The setting cannot be written: the catch answers, and the Run stays open.
saveThrows ==
  /\ preparing # NoWork
  /\ faults < MaxFaults /\ faults' = faults + 1
  /\ frames' = frames \cup Ack(preparing.event, preparing.token, "reject", NoRun)
  /\ preparing' = NoWork
  /\ UNCHANGED <<row, pump, durable, up, registered, inFlight>>

\* The 10 s timer. Renewing a lease that has not run out changes nothing here, so
\* only the ticks that find it expired are steps.
sendExternalEventHeartbeat(e) ==
  /\ up /\ preparing = NoWork /\ e \in Registered \cap expired
  /\ frames' = frames \cup {Message("heartbeat", e, registered[e], execution[e], "none")}
  /\ UNCHANGED <<row, pump, durable, process, faults>>

\* A Run reaches its terminal event and leaves inFlight.
endRun(r) ==
  /\ preparing = NoWork
  /\ r \in inFlight
  /\ \E status \in Results : result' = [result EXCEPT ![r] = status]
  /\ inFlight' = inFlight \ {r}
  /\ UNCHANGED <<row, pump, frames, runOf, execution, up, registered, preparing, faults>>

\* The 50 ms check of attachExternalEventRunCleanup, once the Run has a result.
reportResult(e) ==
  /\ up /\ preparing = NoWork /\ e \in Registered
  /\ execution[e] \notin inFlight
  /\ result[execution[e]] # "none"
  /\ registered' = [registered EXCEPT ![e] = 0]
  /\ frames' = frames \cup
       {Message("complete", e, registered[e], execution[e], result[execution[e]])}
  /\ UNCHANGED <<row, pump, durable, up, inFlight, preparing, faults>>

\* Open Runs of the last process: the ones that are too old end as paused, the
\* others execute again. Without a model provider nothing happens to them.
resumeDemoRuns ==
  LET open == {r \in Runs : runOf[r] # "none" /\ result[r] = "none"} IN
  \/ \E old \in SUBSET open :
       /\ result' = [r \in Runs |-> IF r \in old THEN "failed" ELSE result[r]]
       /\ inFlight' = open \ old
  \/ UNCHANGED <<result, inFlight>>

startRuntime ==
  /\ ~up
  /\ up' = TRUE
  /\ resumeDemoRuns
  /\ UNCHANGED <<row, pump, frames, runOf, execution, registered, preparing, faults>>

-----------------------------------------------------------------------------
(***************************************************************************)
(* Faults.                                                                 *)
(***************************************************************************)

\* A stop of the runtime ends no Run either, and leaves the same records.
runtimeDies ==
  /\ up
  /\ faults < MaxFaults /\ faults' = faults + 1
  /\ up' = FALSE
  /\ registered' = [e \in Events |-> 0]
  /\ inFlight' = {}
  /\ preparing' = NoWork
  /\ frames' = {f \in frames : f.type # "dispatch"}
  /\ UNCHANGED <<row, pump, durable>>

\* The daemon dies and is restarted.
daemonDies ==
  /\ faults < MaxFaults /\ faults' = faults + 1
  /\ pump' = NoPump
  /\ frames' = {f \in frames : f.type = "dispatch"}
  /\ UNCHANGED <<row, durable, process>>

frameLost(f) ==
  /\ faults < MaxFaults /\ faults' = faults + 1
  /\ frames' = frames \ {f}
  /\ UNCHANGED <<row, pump, durable, process>>

Next ==
  \/ \E e \in Events :
       submit(e) \/ expire(e) \/ sendExternalEventHeartbeat(e) \/ reportResult(e)
  \/ pumpOnce \/ dispatch \/ unanswered
  \/ \E f \in frames :
       \/ acked(f) \/ onHeartbeat(f) \/ onComplete(f)
       \/ handleExternalEventDispatch(f) \/ frameLost(f)
  \/ saveExternalEventExecution \/ saveThrows
  \/ \E r \in Runs : endRun(r)
  \/ startRuntime \/ runtimeDies \/ daemonDies

Spec == Init /\ [][Next]_vars

\* The daemon's one-second timer pumps and its health timer restarts the runtime;
\* pipes deliver what they do not lose; the runtime's timers renew and report; a
\* lease nobody attends to runs out; and a Run that executes ends. Refusals and
\* faults are owed to nobody.
Fairness ==
  /\ WF_vars(pumpOnce) /\ WF_vars(dispatch) /\ WF_vars(startRuntime)
  /\ WF_vars(unanswered /\ faults' = faults)
  /\ WF_vars(saveExternalEventExecution)
  /\ WF_vars(\E f \in frames : handleExternalEventDispatch(f))
  /\ WF_vars(\E f \in frames : acked(f))
  /\ \A e \in Events :
       /\ WF_vars(expire(e) /\ faults' = faults)
       /\ WF_vars(reportResult(e))
       /\ WF_vars(\E f \in frames : f.event = e /\ onHeartbeat(f))
       /\ WF_vars(\E f \in frames : f.event = e /\ onComplete(f))
  /\ \A r \in Runs : WF_vars(endRun(r))

FairSpec == Spec /\ Fairness

-----------------------------------------------------------------------------
(***************************************************************************)
(* What the inbox promises.                                                *)
(***************************************************************************)

\* The abstract view: a row is open until it is settled, and only the results of
\* bound Runs count.
Outcome == [e \in Events |->
  IF state[e] \in {"pending", "leased"} THEN "open"
  ELSE IF state[e] = "completed" THEN "success" ELSE state[e]]

BoundResult == [r \in Runs |-> IF \E e \in Events : execution[e] = r THEN result[r] ELSE "none"]

Inbox == INSTANCE EventInbox WITH outcome <- Outcome, bound <- execution, result <- BoundResult

\* Leases, takeovers, stale completions and restarts implement the promise of
\* EventInbox: one bound Run per event, settled once, with that Run's result.
InboxSpec == Inbox!Spec

Unsettled == {e \in Events : state[e] \in {"pending", "leased"}}

\* Of the rows that are older than a leased one, in created_at and in the order of
\* insertion, less than MaxConcurrent are unsettled: although expired leases do not
\* count in pumpOnce and a late heartbeat revives them, the order in which
\* claimNext picks lets no event overtake one it could starve. (A row that is
\* inserted later with an earlier created_at may be claimed while the lease of a
\* row behind it is expired, and that lease be revived: the number of leases alone
\* has no bound.)
LeaseWindow ==
  \A e \in Events : state[e] = "leased" =>
    Cardinality({f \in Unsettled : order[f] < order[e] /\ rowid[f] < rowid[e]}) < MaxConcurrent

\* The run_id a submitter reads in the row is the Run the runtime bound, whichever
\* delivery reported it, and a success or a cancellation names the Run it is of.
RowNamesItsRun ==
  \A e \in Events :
    /\ rowRun[e] # NoRun => execution[e] = rowRun[e] /\ runOf[rowRun[e]] = e
    /\ state[e] \in {"completed", "cancelled"} =>
         rowRun[e] # NoRun /\ StateOf(result[rowRun[e]]) = state[e]

\* Crashes, lost frames and takeovers alone fail no event: it fails with its Run,
\* or after the last of its attempts.
FailureIsExplained ==
  \A e \in Events : state[e] = "failed" =>
    \/ attempts[e] >= MaxAttempts
    \/ rowRun[e] # NoRun /\ result[rowRun[e]] = "failed"

\* A restart without a model provider leaves the Run open and unexecuted: the
\* redelivery adopts it, and the lease is renewed for ever.
Stranded == \E e \in Events : up /\ execution[e] # NoRun
  /\ result[execution[e]] = "none" /\ execution[e] \notin inFlight

\* Every accepted event is settled in the end, whatever is lost on the way, unless
\* a Run is stranded (it may hold the slot the event waits for).
EventsSettle == \A e \in Events : (e \in Unsettled) ~> (e \notin Unsettled \/ Stranded)

\* docs/engineering/04-tech-decisions.md says a crash takeover reuses the Run.
OneRunPerEvent ==
  \A r, s \in Runs : runOf[r] # "none" /\ runOf[r] = runOf[s] => r = s
=============================================================================
