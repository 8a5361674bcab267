------------------------- MODULE ExternalEventsProofs -------------------------
(***************************************************************************)
(* The external event inbox, for any number of events, Runs, attempts and  *)
(* faults: its rows name the right Run, its failures are explained, its    *)
(* leases stay at the head of the line, and it implements EventInbox.      *)
(***************************************************************************)
EXTENDS ExternalEvents, FiniteSetTheorems, TLAPS

\* A Run that executes, or whose record is being saved, has no result yet; a
\* Run that nobody opened has none either.
OpenRuns ==
  /\ \A r \in inFlight : result[r] = "none" /\ runOf[r] # "none"
  /\ \A r \in Runs : runOf[r] = "none" => result[r] = "none"

\* An execution record binds a stored event to a Run that this event opened, and
\* an execution is registered only for a bound event.
Bindings ==
  /\ \A e \in Events : execution[e] # NoRun =>
       state[e] # "absent" /\ runOf[execution[e]] = e
  /\ \A e \in Events : registered[e] # 0 => execution[e] # NoRun

\* The dispatch being prepared: its Run is open, and not yet bound.
Preparation ==
  preparing # NoWork =>
    /\ up
    /\ preparing.event \in Events
    /\ state[preparing.event] # "absent"
    /\ execution[preparing.event] = NoRun
    /\ runOf[preparing.run] = preparing.event
    /\ result[preparing.run] = "none"

\* What a frame says is true when it is sent and stays true, however late it is
\* read: it names the bound Run, and a completion that Run's result.
Truthful(f) ==
  /\ state[f.event] # "absent"
  /\ f.run # NoRun => f.run = execution[f.event]
  /\ f.type \in {"accept", "heartbeat", "complete"} => f.run # NoRun
  /\ f.type = "complete" => f.status # "none" /\ f.status = result[f.run]

\* What every frame on the pipes says is true.
FramesTell == \A f \in frames : Truthful(f)

\* The pump works for a stored event.
PumpStored == pump # NoPump => state[pump.event] # "absent"

\* TypeOK in two halves: the daemon's rows, and everything else.
RowType ==
  /\ state \in [Events -> States]
  /\ order \in [Events -> Nat]
  /\ rowid \in [Events -> Nat]
  /\ attempts \in [Events -> Nat]
  /\ expired \subseteq {e \in Events : state[e] = "leased"}
  /\ rowRun \in [Events -> Runs \cup {NoRun}]

\* The other half: the pump, the pipes, the runtime's records and its process.
WorldType ==
  /\ pump \in [event : Events, token : Nat, sent : BOOLEAN] \cup {NoPump}
  /\ frames \subseteq Frame
  /\ runOf \in [Runs -> Events \cup {"none"}]
  /\ result \in [Runs -> Results \cup {"none"}]
  /\ execution \in [Events -> Runs \cup {NoRun}]
  /\ up \in BOOLEAN
  /\ registered \in [Events -> Nat]
  /\ inFlight \subseteq Runs
  /\ preparing \in [event : Events, token : Nat, run : Runs] \cup {NoWork}
  /\ faults \in 0 .. MaxFaults

\* What is kept of the rows of daemon_external_event.
RowInv == RowType /\ RowNamesItsRun /\ FailureIsExplained

\* What is kept of the frames, the runtime's records and the processes.
WorldInv ==
  WorldType /\ OpenRuns /\ Bindings /\ Preparation /\ FramesTell /\ PumpStored

\* RowNamesItsRun and FailureIsExplained are inductive together with what the
\* processes and the pipes know.
EventInv == RowInv /\ WorldInv

\* A bound event stays bound, an opened Run stays that event's, and a result is
\* final.
DurableGrows ==
  /\ \A e \in Events : execution[e] # NoRun => execution'[e] = execution[e]
  /\ \A r \in Runs : runOf[r] # "none" => runOf'[r] = runOf[r]
  /\ \A r \in Runs : result[r] # "none" => result'[r] = result[r]

\* No row is deleted.
Stored == {e \in Events : state[e] # "absent"}

-----------------------------------------------------------------------------
(* Records                                                                 *)

\* The fields of a frame that is sent.
LEMMA MessageType ==
  ASSUME NEW type \in {"dispatch", "accept", "reject", "heartbeat", "complete"},
         NEW e \in Events, NEW token \in Nat, NEW r \in Runs \cup {NoRun},
         NEW status \in Results \cup {"none"}
  PROVE  /\ Message(type, e, token, r, status) \in Frame
         /\ Message(type, e, token, r, status).type = type
         /\ Message(type, e, token, r, status).event = e
         /\ Message(type, e, token, r, status).token = token
         /\ Message(type, e, token, r, status).run = r
         /\ Message(type, e, token, r, status).status = status
BY DEF Message, Frame

\* The fields of a frame that is read.
LEMMA FrameType ==
  ASSUME NEW f \in Frame
  PROVE  /\ f.type \in {"dispatch", "accept", "reject", "heartbeat", "complete"}
         /\ f.event \in Events /\ f.token \in Nat
         /\ f.run \in Runs \cup {NoRun} /\ f.status \in Results \cup {"none"}
BY DEF Frame

\* A Run id is not NoRun.
LEMMA RunIds == NoRun \notin Runs
BY EventAssumption DEF NoRun, Runs

\* A pump at work has an event and a token.
LEMMA PumpType ==
  ASSUME WorldType, pump # NoPump
  PROVE  /\ pump.event \in Events /\ pump.token \in Nat /\ pump.sent \in BOOLEAN
         /\ pump \in [event : Events, token : Nat, sent : BOOLEAN]
BY DEF WorldType

\* A preparation has an event, a token and a Run.
LEMMA WorkType ==
  ASSUME WorldType, preparing # NoWork
  PROVE  preparing.event \in Events /\ preparing.token \in Nat /\ preparing.run \in Runs
BY DEF WorldType

-----------------------------------------------------------------------------

\* The inbox starts empty.
LEMMA InitEvents == Init => EventInv
<1> SUFFICES ASSUME Init PROVE EventInv
  OBVIOUS
<1>1. RowType /\ WorldType
  BY EventAssumption DEF Init, RowType, WorldType, States, Settled
<1>2. OpenRuns /\ Bindings /\ Preparation /\ FramesTell /\ PumpStored
  BY DEF Init, OpenRuns, Bindings, Preparation, FramesTell, PumpStored, Truthful
<1>3. RowNamesItsRun /\ FailureIsExplained
  BY DEF Init, RowNamesItsRun, FailureIsExplained
<1> QED BY <1>1, <1>2, <1>3 DEF EventInv, RowInv, WorldInv

-----------------------------------------------------------------------------
(* The transactions of the store keep RowInv and every stored row          *)

\* A submission adds a row or finds its duplicate.
LEMMA SubmitRow ==
  ASSUME EventInv, NEW e \in Events, submit(e)
  PROVE  RowInv' /\ Stored \subseteq Stored'
<1>1. NewRowid \in Nat
  <2>1. Cardinality({f \in Events : state[f] # "absent"}) \in Nat
    BY EventAssumption, FS_Subset, FS_CardinalityType
  <2> QED BY <2>1 DEF NewRowid
<1>2. RowType'
  <2>1. order' \in [Events -> Nat]
    <3>1. ASSUME PlaceRow(e) PROVE order' \in [Events -> Nat]
      <4>1. Cardinality(Events) \in Nat
        BY EventAssumption, FS_CardinalityType
      <4> QED BY <3>1, <4>1 DEF PlaceRow, EventInv, RowInv, RowType
    <3> QED BY <3>1 DEF submit, EventInv, RowInv, RowType
  <2> QED BY <1>1, <2>1 DEF EventInv, RowInv, RowType, submit, States
<1>3. RowNamesItsRun' /\ FailureIsExplained'
  BY DEF EventInv, RowInv, RowType, RowNamesItsRun, FailureIsExplained, submit, durable
<1> QED BY <1>2, <1>3 DEF RowInv, EventInv, RowType, submit, Stored

\* claimNext leases a row that is pending or whose lease expired.
LEMMA ClaimRow ==
  ASSUME EventInv, NEW e \in Events, claimNext(e), UNCHANGED durable
  PROVE  RowInv' /\ Stored \subseteq Stored'
<1>1. state[e] \in {"pending", "leased"}
  BY DEF EventInv, RowInv, RowType, claimNext, Claimable
<1>2. RowType'
  BY DEF EventInv, RowInv, RowType, claimNext, States
<1>3. RowNamesItsRun'
  BY <1>1 DEF EventInv, RowInv, RowType, RowNamesItsRun, claimNext, durable
<1>4. FailureIsExplained'
  BY <1>1 DEF EventInv, RowInv, RowType, FailureIsExplained, claimNext, durable
<1> QED BY <1>2, <1>3, <1>4 DEF RowInv, EventInv, RowType, claimNext, Stored

\* A heartbeat may name the bound Run, or none.
LEMMA HeartbeatRow ==
  ASSUME EventInv, NEW e \in Events, NEW token \in Nat, NEW r \in Runs \cup {NoRun},
         r # NoRun => r = execution[e],
         heartbeat(e, token, r), UNCHANGED durable
  PROVE  RowInv' /\ Stored \subseteq Stored'
<1>1. RowType'
  BY DEF EventInv, RowInv, RowType, heartbeat, SetRun
<1>2. rowRun' = rowRun \/ (r # NoRun /\ Fenced(e, token) /\ rowRun' = [rowRun EXCEPT ![e] = r])
  BY DEF heartbeat, SetRun
<1>3. r # NoRun => runOf[r] = e
  BY DEF EventInv, WorldInv, Bindings
<1>4. state' = state /\ attempts' = attempts
  BY DEF heartbeat
<1>5. RowNamesItsRun'
  BY <1>2, <1>3, <1>4
  DEF EventInv, RowInv, RowType, RowNamesItsRun, Fenced, durable
<1>6. FailureIsExplained'
  BY <1>2, <1>3, <1>4
  DEF EventInv, RowInv, RowType, FailureIsExplained, Fenced, durable
<1> QED BY <1>1, <1>4, <1>5, <1>6 DEF RowInv, Stored

\* A completion reports the result of the bound Run, or gives the event up after
\* its last attempt.
LEMMA CompleteRow ==
  ASSUME EventInv, NEW e \in Events, NEW token \in Nat, NEW r \in Runs \cup {NoRun},
         NEW status \in Results,
         \/ r # NoRun /\ r = execution[e] /\ status = result[r]
         \/ r = NoRun /\ status = "failed" /\ token >= MaxAttempts,
         complete(e, token, status, r), UNCHANGED durable
  PROVE  RowInv' /\ Stored \subseteq Stored'
<1>1. CASE ~Fenced(e, token)
  BY <1>1 DEF EventInv, RowInv, RowType, RowNamesItsRun, FailureIsExplained,
              complete, durable, Stored
<1>2. CASE Fenced(e, token)
  <2>1. StateOf(status) \in Settled
    BY DEF StateOf, Settled, Results
  <2>2. /\ state' = [state EXCEPT ![e] = StateOf(status)]
        /\ expired' = expired \ {e}
        /\ rowRun' = IF r = NoRun THEN rowRun ELSE [rowRun EXCEPT ![e] = r]
        /\ order' = order /\ rowid' = rowid /\ attempts' = attempts
        /\ runOf' = runOf /\ result' = result /\ execution' = execution
    BY <1>2 DEF complete, SetRun, durable
  <2>3. RowType'
    BY <2>1, <2>2 DEF EventInv, RowInv, RowType, States
  <2>4. r # NoRun => runOf[r] = e
    BY DEF EventInv, WorldInv, Bindings
  <2>5. RowNamesItsRun'
    <3>1. ASSUME NEW g \in Events, g # e
          PROVE  state'[g] = state[g] /\ rowRun'[g] = rowRun[g]
      BY <2>2, <3>1 DEF EventInv, RowInv, RowType
    <3>2. state'[e] = StateOf(status) /\ rowRun'[e] = IF r = NoRun THEN rowRun[e] ELSE r
      BY <2>2 DEF EventInv, RowInv, RowType
    <3>3. r = NoRun => StateOf(status) = "failed"
      BY DEF StateOf
    <3> QED BY <2>2, <2>4, <3>1, <3>2, <3>3
            DEF EventInv, RowInv, RowNamesItsRun, StateOf
  <2>6. FailureIsExplained'
    <3>1. ASSUME NEW g \in Events, g # e
          PROVE  state'[g] = state[g] /\ rowRun'[g] = rowRun[g]
      BY <2>2, <3>1 DEF EventInv, RowInv, RowType
    <3>2. state'[e] = StateOf(status) /\ rowRun'[e] = IF r = NoRun THEN rowRun[e] ELSE r
      BY <2>2 DEF EventInv, RowInv, RowType
    <3>3. attempts[e] = token
      BY <1>2 DEF Fenced
    <3>4. StateOf(status) = "failed" => status = "failed"
      BY DEF StateOf
    <3> QED BY <2>2, <3>1, <3>2, <3>3, <3>4
            DEF EventInv, RowInv, FailureIsExplained
  <2>7. Stored \subseteq Stored'
    BY <2>1, <2>2 DEF Stored, Settled, EventInv, RowInv, RowType
  <2> QED BY <2>3, <2>5, <2>6, <2>7 DEF RowInv
<1> QED BY <1>1, <1>2

\* release puts the row of the current token back into the line.
LEMMA ReleaseRow ==
  ASSUME EventInv, NEW e \in Events, NEW token \in Nat,
         release(e, token), UNCHANGED durable
  PROVE  RowInv' /\ Stored \subseteq Stored'
<1>1. RowType'
  BY DEF EventInv, RowInv, RowType, release, States
<1>2. RowNamesItsRun'
  BY DEF EventInv, RowInv, RowType, RowNamesItsRun, release, durable
<1>3. FailureIsExplained'
  BY DEF EventInv, RowInv, RowType, FailureIsExplained, release, durable
<1> QED BY <1>1, <1>2, <1>3 DEF RowInv, EventInv, RowType, release, Stored

\* The coordinator releases an event, or fails it at its last attempt.
LEMMA GiveBackRow ==
  ASSUME EventInv, NEW e \in Events, NEW token \in Nat,
         GiveBack(e, token), UNCHANGED durable
  PROVE  RowInv' /\ Stored \subseteq Stored'
<1>1. CASE token >= MaxAttempts
  <2>1. complete(e, token, "failed", NoRun) /\ "failed" \in Results
    BY <1>1 DEF GiveBack, Results
  <2> QED BY <1>1, <2>1, CompleteRow
<1>2. CASE ~(token >= MaxAttempts)
  BY <1>2, ReleaseRow DEF GiveBack
<1> QED BY <1>1, <1>2

\* A lease that runs out changes no row but for its expiry.
LEMMA ExpireRow ==
  ASSUME EventInv, NEW e \in Events, expire(e)
  PROVE  RowInv' /\ Stored \subseteq Stored'
BY DEF EventInv, RowInv, RowType, RowNamesItsRun, FailureIsExplained, expire, Active,
       durable, Stored

-----------------------------------------------------------------------------
(* The daemon and the pipes                                                *)

\* A step of the daemon leaves the runtime alone; it keeps WorldInv when the
\* frames it sends are true.
LEMMA DaemonWorld ==
  ASSUME EventInv, Stored \subseteq Stored', UNCHANGED <<durable, process>>,
         pump' = NoPump \/ ( /\ pump' \in [event : Events, token : Nat, sent : BOOLEAN]
                            /\ state'[pump'.event] # "absent" ),
         faults' \in 0 .. MaxFaults,
         frames' \subseteq Frame,
         \A f \in frames' : f \in frames \/ Truthful(f)'
  PROVE  WorldInv'
<1>1. WorldType'
  BY DEF EventInv, WorldInv, WorldType, durable, process
<1>2. OpenRuns' /\ Bindings' /\ PumpStored'
  BY DEF EventInv, WorldInv, OpenRuns, Bindings, PumpStored, Stored, durable, process
<1>3. Preparation'
  BY WorkType DEF EventInv, WorldInv, Preparation, Stored, durable, process
<1>4. FramesTell'
  <2>1. ASSUME NEW f \in frames', f \in frames
        PROVE  Truthful(f)'
    <3>1. f.event \in Events /\ Truthful(f)
      BY <2>1, FrameType DEF EventInv, WorldInv, WorldType, FramesTell
    <3> QED BY <3>1 DEF Truthful, Stored, durable
  <2> QED BY <2>1 DEF FramesTell
<1> QED BY <1>1, <1>2, <1>3, <1>4 DEF WorldInv

\* The steps of the coordinator's pump.
LEMMA PumpSteps ==
  ASSUME EventInv, pumpOnce \/ dispatch \/ unanswered
  PROVE  EventInv'
<1>1. CASE pumpOnce
  <2>1. PICK e \in Events :
          claimNext(e) /\ pump' = [event |-> e, token |-> attempts[e] + 1, sent |-> FALSE]
    BY <1>1 DEF pumpOnce
  <2>2. UNCHANGED <<frames, durable, process, faults>>
    BY <1>1 DEF pumpOnce
  <2>3. RowInv' /\ Stored \subseteq Stored'
    BY <2>1, <2>2, ClaimRow
  <2>4. pump' \in [event : Events, token : Nat, sent : BOOLEAN] /\ pump'.event = e
    BY <2>1 DEF EventInv, RowInv, RowType
  <2>5. state'[e] = "leased"
    BY <2>1 DEF claimNext, EventInv, RowInv, RowType
  <2>6. WorldInv'
    BY <2>2, <2>3, <2>4, <2>5, DaemonWorld DEF EventInv, WorldInv, WorldType
  <2> QED BY <2>3, <2>6 DEF EventInv
<1>2. CASE dispatch
  <2>1. /\ UNCHANGED <<row, durable, process, faults>> /\ pump # NoPump
        /\ pump' = [pump EXCEPT !.sent = TRUE]
        /\ frames' = frames \cup {Message("dispatch", pump.event, pump.token, NoRun, "none")}
    BY <1>2 DEF dispatch
  <2>2. RowInv' /\ Stored \subseteq Stored'
    BY <2>1 DEF EventInv, RowInv, RowType, RowNamesItsRun, FailureIsExplained, row, durable,
                Stored
  <2>3. /\ pump.event \in Events /\ pump.token \in Nat
        /\ pump' \in [event : Events, token : Nat, sent : BOOLEAN]
        /\ pump'.event = pump.event
    BY <2>1, PumpType DEF EventInv, WorldInv
  <2>4. state'[pump.event] # "absent"
    BY <2>1 DEF EventInv, WorldInv, PumpStored, row
  <2> DEFINE m == Message("dispatch", pump.event, pump.token, NoRun, "none")
  <2>5. m \in Frame /\ m.type = "dispatch" /\ m.event = pump.event /\ m.run = NoRun
    <3>1. NoRun \in Runs \cup {NoRun} /\ "none" \in Results \cup {"none"}
      OBVIOUS
    <3>2. "dispatch" \in {"dispatch", "accept", "reject", "heartbeat", "complete"}
      OBVIOUS
    <3>3. pump.event \in Events /\ pump.token \in Nat
      BY <2>3
    <3> QED BY <3>1, <3>2, <3>3, MessageType
  <2>6. Truthful(m)'
    BY <2>1, <2>4, <2>5 DEF Truthful, Message
  <2>7. WorldInv'
    BY <2>1, <2>2, <2>3, <2>4, <2>5, <2>6, DaemonWorld DEF EventInv, WorldInv, WorldType
  <2> QED BY <2>2, <2>7 DEF EventInv
<1>3. CASE unanswered
  <2>1. /\ UNCHANGED <<durable, process>> /\ pump # NoPump /\ pump' = NoPump
        /\ GiveBack(pump.event, pump.token)
        /\ frames' \subseteq frames
    BY <1>3 DEF unanswered
  <2>2. pump.event \in Events /\ pump.token \in Nat
    BY <2>1, PumpType DEF EventInv, WorldInv
  <2>3. RowInv' /\ Stored \subseteq Stored'
    BY <2>1, <2>2, GiveBackRow
  <2>4. faults' \in 0 .. MaxFaults
    BY <1>3, EventAssumption DEF unanswered, EventInv, WorldInv, WorldType
  <2>5. WorldInv'
    BY <2>1, <2>3, <2>4, DaemonWorld DEF EventInv, WorldInv, WorldType
  <2> QED BY <2>3, <2>5 DEF EventInv
<1> QED BY <1>1, <1>2, <1>3

\* Answers, heartbeats and completions: whatever the frame says is still true.
LEMMA FrameSteps ==
  ASSUME EventInv, NEW f \in frames, acked(f) \/ onHeartbeat(f) \/ onComplete(f)
  PROVE  EventInv'
<1>1. /\ f \in Frame /\ f.event \in Events /\ f.token \in Nat
      /\ f.run \in Runs \cup {NoRun} /\ f.status \in Results \cup {"none"}
  BY FrameType DEF EventInv, WorldInv, WorldType
<1>2. Truthful(f)
  BY DEF EventInv, WorldInv, FramesTell
<1>3. /\ UNCHANGED <<durable, process, faults>> /\ frames' = frames \ {f}
      /\ pump' = NoPump \/ pump' = pump
  BY DEF acked, onHeartbeat, onComplete
<1>4. RowInv' /\ Stored \subseteq Stored'
  <2>1. CASE acked(f)
    BY <1>1, <1>2, <1>3, <2>1, HeartbeatRow, GiveBackRow DEF acked, Truthful
  <2>2. CASE onHeartbeat(f)
    BY <1>1, <1>2, <1>3, <2>2, HeartbeatRow DEF onHeartbeat, Truthful
  <2>3. CASE onComplete(f)
    <3>1. /\ f.status \in Results /\ f.run # NoRun
          /\ f.run = execution[f.event] /\ f.status = result[f.run]
      BY <1>1, <1>2, <2>3 DEF onComplete, Truthful
    <3> QED BY <1>1, <1>3, <2>3, <3>1, CompleteRow DEF onComplete
  <2> QED BY <2>1, <2>2, <2>3
<1>5. pump' = NoPump \/ ( /\ pump' \in [event : Events, token : Nat, sent : BOOLEAN]
                         /\ state'[pump'.event] # "absent" )
  BY <1>3, <1>4, PumpType DEF EventInv, WorldInv, PumpStored, Stored
<1>6. WorldInv'
  BY <1>3, <1>4, <1>5, DaemonWorld DEF EventInv, WorldInv, WorldType
<1> QED BY <1>4, <1>6 DEF EventInv

\* Submissions, leases that run out, lost frames and the death of the daemon.
LEMMA OutsideSteps ==
  ASSUME EventInv,
         \/ \E e \in Events : submit(e) \/ expire(e)
         \/ daemonDies
         \/ \E f \in frames : frameLost(f)
  PROVE  EventInv'
<1>1. /\ UNCHANGED <<durable, process>> /\ frames' \subseteq frames
      /\ pump' = NoPump \/ pump' = pump
  BY DEF submit, expire, daemonDies, frameLost
<1>2. faults' \in 0 .. MaxFaults
  <2>1. faults' = faults \/ (faults < MaxFaults /\ faults' = faults + 1)
    BY DEF submit, expire, daemonDies, frameLost
  <2> QED BY <2>1, EventAssumption DEF EventInv, WorldInv, WorldType
<1>3. RowInv' /\ Stored \subseteq Stored'
  <2>1. ASSUME NEW e \in Events, submit(e) \/ expire(e)
        PROVE  RowInv' /\ Stored \subseteq Stored'
    BY <2>1, SubmitRow, ExpireRow
  <2>2. ASSUME UNCHANGED row
        PROVE  RowInv' /\ Stored \subseteq Stored'
    BY <1>1, <2>2 DEF EventInv, RowInv, RowType, RowNamesItsRun, FailureIsExplained, row,
                      durable, Stored
  <2> QED BY <2>1, <2>2 DEF daemonDies, frameLost
<1>4. pump' = NoPump \/ ( /\ pump' \in [event : Events, token : Nat, sent : BOOLEAN]
                         /\ state'[pump'.event] # "absent" )
  BY <1>1, <1>3, PumpType DEF EventInv, WorldInv, PumpStored, Stored
<1>5. WorldInv'
  BY <1>1, <1>2, <1>3, <1>4, DaemonWorld DEF EventInv, WorldInv, WorldType
<1> QED BY <1>3, <1>5 DEF EventInv

-----------------------------------------------------------------------------
(* The runtime                                                             *)

\* Records that only grow keep the rows and the frames true.
LEMMA GrowthKeeps ==
  ASSUME EventInv, UNCHANGED row, DurableGrows
  PROVE  /\ RowInv' /\ Stored' = Stored
         /\ \A f \in frames : Truthful(f)'
<1>1. UNCHANGED <<state, order, rowid, attempts, expired, rowRun>>
  BY DEF row
<1>2. RowType' /\ Stored' = Stored
  BY <1>1 DEF EventInv, RowInv, RowType, Stored
<1>3. ASSUME NEW e \in Events, rowRun[e] # NoRun
      PROVE  /\ rowRun[e] \in Runs
             /\ execution'[e] = rowRun[e] /\ runOf'[rowRun[e]] = e
             /\ result[rowRun[e]] # "none" => result'[rowRun[e]] = result[rowRun[e]]
  BY <1>3, EventAssumption DEF EventInv, RowInv, RowType, RowNamesItsRun, DurableGrows
<1>4. RowNamesItsRun'
  <2>1. StateOf("none") \notin {"completed", "cancelled"}
    BY DEF StateOf
  <2> QED BY <1>1, <1>3, <2>1 DEF EventInv, RowInv, RowNamesItsRun
<1>5. FailureIsExplained'
  BY <1>1, <1>3 DEF EventInv, RowInv, FailureIsExplained
<1>6. ASSUME NEW f \in frames PROVE Truthful(f)'
  <2>1. Truthful(f) /\ f.event \in Events /\ f.run \in Runs \cup {NoRun}
    BY FrameType DEF EventInv, WorldInv, WorldType, FramesTell
  <2> QED BY <1>1, <2>1 DEF Truthful, DurableGrows
<1> QED BY <1>2, <1>4, <1>5, <1>6 DEF RowInv

\* An answer is sent to the pump that waits for it, or dropped.
LEMMA AckType ==
  ASSUME NEW e \in Events, NEW token \in Nat, NEW type \in {"accept", "reject"},
         NEW r \in Runs \cup {NoRun}
  PROVE  /\ Ack(e, token, type, r) \subseteq Frame
         /\ \A f \in Ack(e, token, type, r) : f.type = type /\ f.event = e /\ f.run = r
BY MessageType DEF Ack

\* handleExternalEventDispatch: the event is adopted, refused or prepared.
LEMMA DispatchHandled ==
  ASSUME EventInv, NEW f \in frames, handleExternalEventDispatch(f)
  PROVE  EventInv'
<1>1. /\ f \in Frame /\ f.event \in Events /\ f.token \in Nat /\ Truthful(f)
      /\ frames \subseteq Frame
  BY FrameType DEF EventInv, WorldInv, WorldType, FramesTell
<1>2. up /\ preparing = NoWork
  BY DEF handleExternalEventDispatch
<1>3. CASE Refuse(f)
  <2>1. UNCHANGED <<row, pump, durable, process, faults>>
    BY <1>3 DEF Refuse
  <2>2. DurableGrows
    BY <2>1 DEF DurableGrows, durable
  <2>3. RowInv' /\ Stored' = Stored
    BY <2>1, <2>2, GrowthKeeps
  <2>4. frames' \subseteq Frame
    BY <1>1, <1>3, AckType DEF Refuse
  <2>5. ASSUME NEW g \in frames', g \notin frames PROVE Truthful(g)'
    <3>1. g.type = "reject" /\ g.event = f.event /\ g.run = NoRun
      BY <1>1, <1>3, <2>5, AckType DEF Refuse
    <3> QED BY <1>1, <2>1, <3>1 DEF Truthful, row
  <2>6. pump' = NoPump \/ ( /\ pump' \in [event : Events, token : Nat, sent : BOOLEAN]
                           /\ state'[pump'.event] # "absent" )
    BY <2>1, PumpType DEF EventInv, WorldInv, PumpStored, row
  <2>7. WorldInv'
    BY <2>1, <2>3, <2>4, <2>5, <2>6, DaemonWorld DEF EventInv, WorldInv, WorldType
  <2> QED BY <2>3, <2>7 DEF EventInv
<1>4. CASE Adopt(f)
  <2> DEFINE r == execution[f.event]
             m == Message("heartbeat", f.event, f.token, r, "none")
  <2>1. /\ UNCHANGED <<row, pump, durable, up, inFlight, preparing, faults>>
        /\ r # NoRun /\ registered' = [registered EXCEPT ![f.event] = f.token]
        /\ frames' = (frames \ {f}) \cup Ack(f.event, f.token, "accept", r) \cup {m}
    BY <1>4 DEF Adopt, registerExternalEventExecution
  <2>2. RowInv' /\ Stored' = Stored /\ \A g \in frames : Truthful(g)'
    BY <2>1, GrowthKeeps DEF DurableGrows, durable
  <2>3. r \in Runs
    BY <1>1, <2>1 DEF EventInv, WorldInv, WorldType
  <2>4. m \in Frame /\ m.type = "heartbeat" /\ m.event = f.event /\ m.run = r
    BY <1>1, <2>3, MessageType
  <2>5. frames' \subseteq Frame
    BY <1>1, <2>1, <2>3, <2>4, AckType
  <2>6. ASSUME NEW g \in frames', g \notin frames PROVE Truthful(g)'
    <3>1. g.type \in {"accept", "heartbeat"} /\ g.event = f.event /\ g.run = r
      BY <1>1, <2>1, <2>3, <2>4, <2>6, AckType
    <3> QED BY <1>1, <2>1, <3>1 DEF Truthful, row, durable
  <2>7. FramesTell'
    BY <2>2, <2>6 DEF FramesTell
  <2>8. WorldType'
    BY <1>1, <2>1, <2>5 DEF EventInv, WorldInv, WorldType, durable
  <2>9. OpenRuns' /\ Bindings' /\ Preparation' /\ PumpStored'
    BY <1>1, <1>2, <2>1
    DEF EventInv, WorldInv, WorldType, OpenRuns, Bindings, Preparation, PumpStored, durable, row
  <2> QED BY <2>2, <2>7, <2>8, <2>9 DEF EventInv, WorldInv
<1>5. CASE Prepare(f)
  <2>1. PICK r \in Unused :
          /\ runOf' = [runOf EXCEPT ![r] = f.event]
          /\ preparing' = [event |-> f.event, token |-> f.token, run |-> r]
    BY <1>5 DEF Prepare
  <2>2. /\ execution[f.event] = NoRun /\ frames' = frames \ {f}
        /\ UNCHANGED <<row, pump, result, execution, up, registered, inFlight, faults>>
    BY <1>5 DEF Prepare
  <2>3. r \in Runs /\ runOf[r] = "none"
    BY DEF Unused
  <2>4. runOf \in [Runs -> Events \cup {"none"}]
    BY DEF EventInv, WorldInv, WorldType
  <2>5. DurableGrows
    BY <2>1, <2>2, <2>3, <2>4 DEF DurableGrows
  <2>6. RowInv' /\ Stored' = Stored /\ \A g \in frames : Truthful(g)'
    BY <2>2, <2>5, GrowthKeeps
  <2>7. FramesTell'
    BY <2>2, <2>6 DEF FramesTell
  <2>8. WorldType'
    BY <1>1, <2>1, <2>2, <2>3 DEF EventInv, WorldInv, WorldType
  <2>9. /\ preparing'.event = f.event /\ preparing'.run = r
        /\ runOf'[r] = f.event
    BY <2>1, <2>3, <2>4
  <2>10. Preparation'
    BY <1>1, <1>2, <2>2, <2>3, <2>9
    DEF Preparation, Truthful, EventInv, WorldInv, OpenRuns, row
  <2>11. OpenRuns' /\ PumpStored'
    BY <2>1, <2>2, <2>3, <2>4 DEF EventInv, WorldInv, OpenRuns, PumpStored, row
  <2>12. Bindings'
    BY <2>1, <2>2, <2>3, <2>4, <2>5, EventAssumption, RunIds
    DEF EventInv, WorldInv, WorldType, Bindings, DurableGrows, row
  <2> QED BY <2>6, <2>7, <2>8, <2>10, <2>11, <2>12 DEF EventInv, WorldInv
<1> QED BY <1>3, <1>4, <1>5 DEF handleExternalEventDispatch

\* The record is saved: the event is bound, to a Run that is open and its own.
LEMMA SaveKeeps ==
  ASSUME EventInv, saveExternalEventExecution
  PROVE  EventInv'
<1> DEFINE e == preparing.event
           t == preparing.token
           r == preparing.run
           m == Message("heartbeat", e, t, r, "none")
<1>1. e \in Events /\ t \in Nat /\ r \in Runs
  BY WorkType DEF saveExternalEventExecution, EventInv, WorldInv
<1>2. /\ up /\ state[e] # "absent" /\ execution[e] = NoRun
      /\ runOf[r] = e /\ result[r] = "none"
  BY DEF saveExternalEventExecution, EventInv, WorldInv, Preparation
<1>3. /\ execution' = [execution EXCEPT ![e] = r]
      /\ registered' = [registered EXCEPT ![e] = t]
      /\ inFlight' = inFlight \cup {r}
      /\ frames' = frames \cup Ack(e, t, "accept", r) \cup {m}
      /\ preparing' = NoWork
      /\ UNCHANGED <<row, pump, runOf, result, up, faults>>
  BY DEF saveExternalEventExecution, registerExternalEventExecution
<1>4. execution \in [Events -> Runs \cup {NoRun}]
  BY DEF EventInv, WorldInv, WorldType
<1>5. DurableGrows
  BY <1>1, <1>2, <1>3, <1>4 DEF DurableGrows
<1>6. RowInv' /\ Stored' = Stored /\ \A g \in frames : Truthful(g)'
  BY <1>3, <1>5, GrowthKeeps
<1>7. m \in Frame /\ m.type = "heartbeat" /\ m.event = e /\ m.run = r
  BY <1>1, MessageType
<1>8. frames' \subseteq Frame
  BY <1>1, <1>3, <1>7, AckType DEF EventInv, WorldInv, WorldType
<1>9. FramesTell'
  <2>1. ASSUME NEW g \in frames', g \notin frames PROVE Truthful(g)'
    <3>1. g.type \in {"accept", "heartbeat"} /\ g.event = e /\ g.run = r
      BY <1>1, <1>3, <1>7, <2>1, AckType
    <3> QED BY <1>1, <1>2, <1>3, <1>4, <3>1, RunIds DEF Truthful, row
  <2> QED BY <1>6, <2>1 DEF FramesTell
<1>10. WorldType'
  BY <1>1, <1>3, <1>8 DEF EventInv, WorldInv, WorldType
<1>11. OpenRuns' /\ Preparation' /\ PumpStored'
  BY <1>1, <1>2, <1>3, EventAssumption
  DEF EventInv, WorldInv, OpenRuns, Preparation, PumpStored, row
<1>12. Bindings'
  BY <1>1, <1>2, <1>3, <1>4, RunIds DEF EventInv, WorldInv, WorldType, Bindings, row
<1> QED BY <1>6, <1>9, <1>10, <1>11, <1>12 DEF EventInv, WorldInv

\* The execution record could not be written: the runtime refuses the event.
LEMMA SaveThrowsKeeps ==
  ASSUME EventInv, saveThrows
  PROVE  EventInv'
<1> DEFINE e == preparing.event
           t == preparing.token
<1>1. e \in Events /\ t \in Nat
  BY WorkType DEF saveThrows, EventInv, WorldInv
<1>2. state[e] # "absent"
  BY DEF saveThrows, EventInv, WorldInv, Preparation
<1>3. /\ frames' = frames \cup Ack(e, t, "reject", NoRun) /\ preparing' = NoWork
      /\ UNCHANGED <<row, pump, durable, up, registered, inFlight>>
  BY DEF saveThrows
<1>4. RowInv' /\ Stored' = Stored /\ \A g \in frames : Truthful(g)'
  BY <1>3, GrowthKeeps DEF DurableGrows, durable
<1>5. frames' \subseteq Frame
  BY <1>1, <1>3, AckType DEF EventInv, WorldInv, WorldType
<1>6. FramesTell'
  <2>1. ASSUME NEW g \in frames', g \notin frames PROVE Truthful(g)'
    <3>1. g.type = "reject" /\ g.event = e /\ g.run = NoRun
      BY <1>1, <1>3, <2>1, AckType
    <3> QED BY <1>2, <1>3, <3>1 DEF Truthful, row
  <2> QED BY <1>4, <2>1 DEF FramesTell
<1>7. faults' \in 0 .. MaxFaults
  BY EventAssumption DEF saveThrows, EventInv, WorldInv, WorldType
<1>8. WorldType'
  BY <1>3, <1>5, <1>7 DEF EventInv, WorldInv, WorldType, durable
<1>9. OpenRuns' /\ Bindings' /\ Preparation' /\ PumpStored'
  BY <1>3 DEF EventInv, WorldInv, OpenRuns, Bindings, Preparation, PumpStored, durable, row
<1> QED BY <1>4, <1>6, <1>8, <1>9 DEF EventInv, WorldInv

\* The runtime's timers send what its records say.
LEMMA TimerSteps ==
  ASSUME EventInv, NEW e \in Events, sendExternalEventHeartbeat(e) \/ reportResult(e)
  PROVE  EventInv'
<1>1. registered[e] \in Nat /\ execution[e] \in Runs
  BY DEF sendExternalEventHeartbeat, reportResult, Registered, EventInv, WorldInv, WorldType,
         Bindings
<1>2. PICK m \in Frame :
        /\ frames' = frames \cup {m} /\ m.event = e /\ m.run = execution[e]
        /\ \/ m.type = "heartbeat"
           \/ m.type = "complete" /\ m.status = result[execution[e]] /\ m.status # "none"
  <2>1. CASE sendExternalEventHeartbeat(e)
    <3> DEFINE m == Message("heartbeat", e, registered[e], execution[e], "none")
    <3>1. m \in Frame /\ m.event = e /\ m.run = execution[e] /\ m.type = "heartbeat"
      BY <1>1, MessageType
    <3> QED BY <2>1, <3>1 DEF sendExternalEventHeartbeat
  <2>2. CASE reportResult(e)
    <3> DEFINE m == Message("complete", e, registered[e], execution[e], result[execution[e]])
    <3>1. result[execution[e]] \in Results /\ result[execution[e]] # "none"
      BY <1>1, <2>2 DEF reportResult, EventInv, WorldInv, WorldType
    <3>2. /\ m \in Frame /\ m.event = e /\ m.run = execution[e] /\ m.type = "complete"
          /\ m.status = result[execution[e]]
      BY <1>1, <3>1, MessageType
    <3> QED BY <2>2, <3>1, <3>2 DEF reportResult
  <2> QED BY <2>1, <2>2
<1>3. /\ UNCHANGED <<row, pump, durable, up, inFlight, preparing, faults>>
      /\ registered' = registered \/ registered' = [registered EXCEPT ![e] = 0]
  BY DEF sendExternalEventHeartbeat, reportResult, process
<1>4. RowInv' /\ Stored' = Stored /\ \A g \in frames : Truthful(g)'
  BY <1>3, GrowthKeeps DEF DurableGrows, durable
<1>5. state[e] # "absent"
  <2>1. preparing = NoWork /\ registered[e] # 0
    BY DEF sendExternalEventHeartbeat, reportResult, Registered
  <2> QED BY <2>1 DEF EventInv, WorldInv, Bindings
<1>6. FramesTell'
  BY <1>1, <1>2, <1>3, <1>4, <1>5, RunIds DEF FramesTell, Truthful, row, durable
<1>7. WorldType'
  BY <1>1, <1>2, <1>3 DEF EventInv, WorldInv, WorldType, durable
<1>8. OpenRuns' /\ Bindings' /\ Preparation' /\ PumpStored'
  BY <1>3 DEF EventInv, WorldInv, WorldType, OpenRuns, Bindings, Preparation, PumpStored,
              durable, row
<1> QED BY <1>4, <1>6, <1>7, <1>8 DEF EventInv, WorldInv

\* Runs end, alone or when the runtime starts again: only open ones do.
LEMMA EndSteps ==
  ASSUME EventInv, startRuntime \/ \E r \in Runs : endRun(r)
  PROVE  EventInv'
<1>1. /\ UNCHANGED <<row, pump, frames, runOf, execution, registered, preparing, faults>>
      /\ preparing = NoWork /\ up' \in BOOLEAN
  BY DEF startRuntime, endRun, EventInv, WorldInv, WorldType, Preparation
<1> DEFINE OnlyOpenRunsEnd ==
  /\ result' \in [Runs -> Results \cup {"none"}]
  /\ \A r \in Runs : result[r] # "none" \/ runOf[r] = "none" => result'[r] = result[r]
  /\ inFlight' \subseteq Runs
  /\ \A r \in inFlight' : result'[r] = "none" /\ runOf[r] # "none"
<1>2. OnlyOpenRunsEnd
  <2>1. CASE startRuntime
    <3>1. CASE UNCHANGED <<result, inFlight>>
      BY <3>1 DEF EventInv, WorldInv, WorldType, OpenRuns
    <3> DEFINE open == {r \in Runs : runOf[r] # "none" /\ result[r] = "none"}
    <3>2. ASSUME NEW old \in SUBSET open,
                 result' = [r \in Runs |-> IF r \in old THEN "failed" ELSE result[r]],
                 inFlight' = open \ old
          PROVE  OnlyOpenRunsEnd
      BY <3>2 DEF EventInv, WorldInv, WorldType, OpenRuns, Results
    <3> QED BY <2>1, <3>1, <3>2 DEF startRuntime, resumeDemoRuns
  <2>2. CASE \E r \in Runs : endRun(r)
    <3>1. PICK r \in Runs : endRun(r)
      BY <2>2
    <3>2. PICK status \in Results : result' = [result EXCEPT ![r] = status]
      BY <3>1 DEF endRun
    <3>3. /\ r \in inFlight /\ inFlight' = inFlight \ {r}
          /\ result[r] = "none" /\ runOf[r] # "none"
      BY <3>1 DEF endRun, EventInv, WorldInv, OpenRuns
    <3> QED BY <3>2, <3>3 DEF EventInv, WorldInv, WorldType, OpenRuns
  <2> QED BY <2>1, <2>2
<1>3. DurableGrows
  BY <1>1, <1>2 DEF DurableGrows
<1>4. RowInv' /\ Stored' = Stored /\ \A g \in frames : Truthful(g)'
  BY <1>1, <1>3, GrowthKeeps
<1>5. FramesTell'
  BY <1>1, <1>4 DEF FramesTell
<1>6. WorldType'
  BY <1>1, <1>2 DEF EventInv, WorldInv, WorldType
<1>7. OpenRuns'
  BY <1>1, <1>2 DEF EventInv, WorldInv, OpenRuns
<1>8. Bindings' /\ Preparation' /\ PumpStored'
  BY <1>1 DEF EventInv, WorldInv, Bindings, Preparation, PumpStored, row
<1> QED BY <1>4, <1>5, <1>6, <1>7, <1>8 DEF EventInv, WorldInv

\* The death of the runtime loses its memory and the dispatches it had not read.
LEMMA RuntimeDiesKeeps ==
  ASSUME EventInv, runtimeDies
  PROVE  EventInv'
<1>1. /\ UNCHANGED <<row, pump, durable>> /\ frames' \subseteq frames
      /\ up' = FALSE /\ preparing' = NoWork /\ inFlight' = {}
      /\ registered' = [e \in Events |-> 0]
  BY DEF runtimeDies
<1>2. RowInv' /\ Stored' = Stored /\ \A g \in frames : Truthful(g)'
  BY <1>1, GrowthKeeps DEF DurableGrows, durable
<1>3. faults' \in 0 .. MaxFaults
  BY EventAssumption DEF runtimeDies, EventInv, WorldInv, WorldType
<1>4. WorldType'
  BY <1>1, <1>3 DEF EventInv, WorldInv, WorldType, durable
<1>5. OpenRuns' /\ Bindings' /\ Preparation' /\ PumpStored' /\ FramesTell'
  BY <1>1, <1>2 DEF EventInv, WorldInv, OpenRuns, Bindings, Preparation, PumpStored,
                    FramesTell, durable, row
<1> QED BY <1>2, <1>4, <1>5 DEF EventInv, WorldInv

\* EventInv is inductive.
LEMMA NextEvents == EventInv /\ [Next]_vars => EventInv'
<1> SUFFICES ASSUME EventInv, [Next]_vars PROVE EventInv'
  OBVIOUS
<1>1. CASE UNCHANGED vars
  <2>1. UNCHANGED <<row, pump, frames, durable, process, faults>>
    BY <1>1 DEF vars
  <2>2. RowInv' /\ Stored' = Stored
    BY <2>1, GrowthKeeps DEF DurableGrows, durable
  <2>3. pump' = NoPump \/ ( /\ pump' \in [event : Events, token : Nat, sent : BOOLEAN]
                           /\ state'[pump'.event] # "absent" )
    BY <2>1, PumpType DEF EventInv, WorldInv, PumpStored, row
  <2>4. WorldInv'
    BY <2>1, <2>2, <2>3, DaemonWorld DEF EventInv, WorldInv, WorldType
  <2> QED BY <2>2, <2>4 DEF EventInv
<1>2. CASE Next
  BY <1>2, PumpSteps, FrameSteps, OutsideSteps, DispatchHandled, SaveKeeps, SaveThrowsKeeps,
     TimerSteps, EndSteps, RuntimeDiesKeeps DEF Next
<1> QED BY <1>1, <1>2

\* EventInv always holds.
LEMMA EventsKeepInv == Spec => []EventInv
BY InitEvents, NextEvents, PTL DEF Spec

-----------------------------------------------------------------------------
(* What holds                                                              *)

\* The rows of daemon_external_event, the pump, the frames on the pipes and the
\* runtime's records stay in their types; in particular only a leased row has an
\* expiry, and no completion ever writes a status that is not a result.
THEOREM InboxTypeCorrect == Spec => []TypeOK
<1>1. EventInv => TypeOK
  BY DEF EventInv, RowInv, WorldInv, RowType, WorldType, TypeOK
<1> QED BY <1>1, EventsKeepInv, PTL

\* Whichever delivery reported it, and however late its frame was read, the run_id
\* of a row is the Run the runtime bound to the event, and a success or a
\* cancellation is that Run's.
THEOREM RowsNameTheirRun == Spec => []RowNamesItsRun
BY EventsKeepInv, PTL DEF EventInv, RowInv

\* No crash, lost frame, refusal or takeover fails an event before its attempts are
\* used up.
THEOREM FailuresAreExplained == Spec => []FailureIsExplained
BY EventsKeepInv, PTL DEF EventInv, RowInv

-----------------------------------------------------------------------------
(* Leases stay at the head of the line                                     *)

\* A new row is numbered behind all others.
PlacesInLine == \A e \in Stored : rowid[e] <= Cardinality(Stored)

\* The unsettled events that are older than e, by both orders.
Ahead(e) == {f \in Unsettled : order[f] < order[e] /\ rowid[f] < rowid[e]}

\* Rows keep their places and are at most settled or released.
OnlySettles ==
  /\ order' = order /\ rowid' = rowid /\ Stored' = Stored
  /\ Unsettled' \subseteq Unsettled
  /\ \A e \in Events : state'[e] = "leased" => state[e] = "leased"

\* Events are finitely many, so their sets can be counted.
LEMMA FiniteEvents ==
  ASSUME NEW S \in SUBSET Events, NEW T \in SUBSET S
  PROVE  /\ IsFiniteSet(S) /\ Cardinality(S) \in Nat
         /\ Cardinality(T) \in Nat /\ Cardinality(T) <= Cardinality(S)
<1>1. IsFiniteSet(S)
  BY EventAssumption, FS_Subset
<1> QED BY <1>1, FS_Subset, FS_CardinalityType

\* Settling and releasing only make the line shorter.
LEMMA SettlingKeepsLine ==
  ASSUME EventInv, PlacesInLine, LeaseWindow, OnlySettles
  PROVE  PlacesInLine' /\ LeaseWindow'
<1>1. PlacesInLine'
  BY DEF OnlySettles, PlacesInLine
<1>2. ASSUME NEW e \in Events, state'[e] = "leased"
      PROVE  Cardinality(Ahead(e)') < MaxConcurrent
  <2>1. Ahead(e)' \subseteq Ahead(e) /\ Ahead(e) \subseteq Events
    BY DEF OnlySettles, Ahead, Unsettled
  <2>2. Cardinality(Ahead(e)) < MaxConcurrent
    BY <1>2 DEF OnlySettles, LeaseWindow, Ahead
  <2> QED BY <2>1, <2>2, FiniteEvents, EventAssumption
<1> QED BY <1>1, <1>2 DEF LeaseWindow, Ahead

\* A new row is not older, by both orders, than any leased one.
LEMMA SubmitKeepsLine ==
  ASSUME EventInv, PlacesInLine, LeaseWindow, NEW e \in Events, submit(e)
  PROVE  PlacesInLine' /\ LeaseWindow'
<1>1. CASE state[e] # "absent"
  <2>1. order' = order /\ rowid' = rowid /\ state' = state
    BY <1>1 DEF submit
  <2> QED BY <2>1, SettlingKeepsLine DEF OnlySettles, Stored, Unsettled
<1>2. CASE state[e] = "absent"
  <2> DEFINE n == Cardinality(Stored)
  <2>1. /\ state' = [state EXCEPT ![e] = "pending"]
        /\ rowid' = [rowid EXCEPT ![e] = n + 1]
        /\ \E place : order' = [order EXCEPT ![e] = place]
    BY <1>2 DEF submit, PlaceRow, NewRowid, Stored
  <2>2. n \in Nat /\ IsFiniteSet(Stored) /\ e \notin Stored
    BY <1>2, FiniteEvents DEF Stored
  <2>3. Stored' = Stored \cup {e}
    BY <2>1 DEF Stored, EventInv, RowInv, RowType
  <2>4. Cardinality(Stored') = n + 1
    BY <2>2, <2>3, FS_AddElement
  <2>5. ASSUME NEW g \in Stored
        PROVE  order'[g] = order[g] /\ rowid'[g] = rowid[g] /\ rowid[g] <= n /\ rowid[g] \in Nat
    BY <2>1, <2>2, <2>5 DEF Stored, PlacesInLine, EventInv, RowInv, RowType
  <2>6. rowid'[e] = n + 1
    BY <2>1 DEF EventInv, RowInv, RowType
  <2>7. PlacesInLine'
    BY <2>2, <2>3, <2>4, <2>5, <2>6 DEF PlacesInLine
  <2>8. ASSUME NEW g \in Events, state'[g] = "leased"
        PROVE  Cardinality(Ahead(g)') < MaxConcurrent
    <3>1. g \in Stored /\ state[g] = "leased"
      BY <2>1, <2>8 DEF Stored, EventInv, RowInv, RowType
    <3>2. Unsettled' = Unsettled \cup {e} /\ Unsettled \subseteq Stored
      BY <2>1 DEF Unsettled, Stored, EventInv, RowInv, RowType
    <3>3. Ahead(g)' = Ahead(g)
      BY <2>2, <2>5, <2>6, <3>1, <3>2 DEF Ahead
    <3> QED BY <3>1, <3>3 DEF LeaseWindow, Ahead
  <2> QED BY <2>7, <2>8 DEF LeaseWindow, Ahead
<1> QED BY <1>1, <1>2

\* Whatever is ahead of the oldest claimable row holds a lease that still runs,
\* and pumpOnce has counted those.
LEMMA ClaimKeepsLine ==
  ASSUME EventInv, PlacesInLine, LeaseWindow, pumpOnce
  PROVE  PlacesInLine' /\ LeaseWindow'
<1>1. PICK e \in Events : claimNext(e)
  BY DEF pumpOnce
<1>2. /\ state' = [state EXCEPT ![e] = "leased"] /\ order' = order /\ rowid' = rowid
      /\ e \in Claimable /\ \A f \in Claimable : order[e] <= order[f]
  BY <1>1 DEF claimNext
<1>3. state[e] \in {"pending", "leased"}
  BY <1>2 DEF Claimable, EventInv, RowInv, RowType
<1>4. Stored' = Stored /\ Unsettled' = Unsettled
  BY <1>2, <1>3 DEF Stored, Unsettled, EventInv, RowInv, RowType
<1>5. Ahead(e) \subseteq Active /\ Active \subseteq Events
  BY <1>2 DEF Ahead, Active, Unsettled, Claimable, EventInv, RowInv, RowType
<1>6. Cardinality(Ahead(e)) < MaxConcurrent
  BY <1>5, FiniteEvents, EventAssumption DEF pumpOnce
<1>7. PlacesInLine'
  BY <1>2, <1>4 DEF PlacesInLine
<1>8. ASSUME NEW g \in Events, state'[g] = "leased"
      PROVE  Cardinality(Ahead(g)') < MaxConcurrent
  <2>1. Ahead(g)' = Ahead(g)
    BY <1>2, <1>4 DEF Ahead
  <2>2. g = e \/ state[g] = "leased"
    BY <1>2, <1>8 DEF EventInv, RowInv, RowType
  <2> QED BY <1>6, <2>1, <2>2 DEF LeaseWindow, Ahead
<1> QED BY <1>7, <1>8 DEF LeaseWindow, Ahead

\* No other step claims or submits.
LEMMA OthersOnlySettle ==
  ASSUME EventInv, [Next]_vars, ~pumpOnce, \A e \in Events : ~submit(e)
  PROVE  OnlySettles
<1>1. ASSUME UNCHANGED <<state, order, rowid>>
      PROVE  OnlySettles
  BY <1>1 DEF OnlySettles, Stored, Unsettled
<1>2. ASSUME NEW e \in Events, NEW token, NEW r, NEW status,
             \/ heartbeat(e, token, r)
             \/ complete(e, token, status, r) /\ StateOf(status) \in Settled
             \/ release(e, token)
      PROVE  OnlySettles
  BY <1>2 DEF heartbeat, complete, release, Fenced, Settled, OnlySettles, Stored, Unsettled,
              EventInv, RowInv, RowType
<1>3. ASSUME NEW e \in Events, NEW token, GiveBack(e, token)
      PROVE  OnlySettles
  BY <1>2, <1>3 DEF GiveBack, StateOf, Settled
<1>4. CASE unanswered
  BY <1>3, <1>4, PumpType DEF unanswered, EventInv, WorldInv
<1>5. ASSUME NEW f \in frames, acked(f) \/ onHeartbeat(f) \/ onComplete(f)
      PROVE  OnlySettles
  <2>1. f.event \in Events /\ f.status \in Results \cup {"none"} /\ Truthful(f)
    BY FrameType DEF EventInv, WorldInv, WorldType, FramesTell
  <2>2. f.type = "complete" => StateOf(f.status) \in Settled
    BY <2>1 DEF Truthful, StateOf, Settled, Results
  <2> QED BY <1>2, <1>3, <1>5, <2>1, <2>2 DEF acked, onHeartbeat, onComplete
<1>6. CASE UNCHANGED vars
  BY <1>1, <1>6 DEF vars, row
<1>7. CASE Next /\ ~unanswered /\ \A f \in frames : ~(acked(f) \/ onHeartbeat(f) \/ onComplete(f))
  <2>1. UNCHANGED <<state, order, rowid>>
    BY <1>7 DEF Next, expire, sendExternalEventHeartbeat, reportResult, dispatch,
         handleExternalEventDispatch, Adopt, Refuse, Prepare, frameLost,
         saveExternalEventExecution, saveThrows, endRun, startRuntime, runtimeDies,
         daemonDies, row
  <2> QED BY <1>1, <2>1
<1> QED BY <1>4, <1>5, <1>6, <1>7

\* The line is empty at the start.
LEMMA InitLine == Init => PlacesInLine /\ LeaseWindow
BY DEF Init, PlacesInLine, LeaseWindow, Stored

\* Every step keeps the places in the line and the window of leases.
LEMMA NextLine ==
  EventInv /\ PlacesInLine /\ LeaseWindow /\ [Next]_vars => PlacesInLine' /\ LeaseWindow'
BY ClaimKeepsLine, SubmitKeepsLine, OthersOnlySettle, SettlingKeepsLine

\* At most MaxConcurrent unsettled events are leased, the first ones of the line:
\* pumpOnce does not count expired leases and a late heartbeat revives them, and
\* still the order of claimNext keeps every lease inside the window.
THEOREM LeasesStayAtTheHead == Spec => []LeaseWindow
BY InitLine, NextLine, EventsKeepInv, PTL DEF Spec

-----------------------------------------------------------------------------
(* The inbox implements EventInbox                                         *)

\* The inbox starts as its abstract specification does.
LEMMA InitImplements == Init => Inbox!Init
<1> SUFFICES ASSUME Init PROVE Inbox!Init
  OBVIOUS
<1>1. Outcome = [e \in Events |-> "absent"]
  BY DEF Init, Outcome
<1>2. BoundResult = [r \in Runs |-> "none"]
  BY DEF Init, BoundResult
<1> QED BY <1>1, <1>2 DEF Init, Inbox!Init

\* The statuses of settled rows, as a submitter reads them.
LEMMA OutcomeOf ==
  ASSUME NEW e \in Events
  PROVE  Outcome[e] = IF state[e] \in {"pending", "leased"} THEN "open"
                      ELSE IF state[e] = "completed" THEN "success" ELSE state[e]
BY DEF Outcome

\* Claims, releases, heartbeats and expiries do not show.
LEMMA OpenStaysOpen ==
  ASSUME RowType, RowType', UNCHANGED <<execution, result>>,
         \A e \in Events : state'[e] = state[e] \/ {state[e], state'[e]} \subseteq {"pending", "leased"}
  PROVE  UNCHANGED <<Outcome, execution, BoundResult>>
<1>1. ASSUME NEW e \in Events PROVE Outcome'[e] = Outcome[e]
  BY DEF Outcome
<1>2. Outcome' = Outcome
  BY <1>1 DEF Outcome
<1>3. BoundResult' = BoundResult
  BY DEF BoundResult
<1> QED BY <1>2, <1>3

\* A submission is one of the abstract inbox, or a duplicate it ignores.
LEMMA SubmitImplements ==
  ASSUME EventInv, NEW e \in Events, submit(e)
  PROVE  [Inbox!Next]_(Inbox!vars)
<1>1. RowType /\ UNCHANGED <<execution, result>>
  BY DEF EventInv, RowInv, submit, durable
<1>2. CASE state[e] = "absent"
  <2>1. state' = [state EXCEPT ![e] = "pending"]
    BY <1>2 DEF submit, EventInv, RowInv, RowType
  <2>2. Outcome[e] = "absent"
    BY <1>2, OutcomeOf
  <2>3. Outcome' = [Outcome EXCEPT ![e] = "open"]
    BY <1>1, <2>1 DEF Outcome, RowType
  <2>4. BoundResult' = BoundResult
    BY <1>1 DEF BoundResult
  <2>5. Inbox!Accept(e)
    BY <1>1, <2>2, <2>3, <2>4 DEF Inbox!Accept
  <2> QED BY <2>5 DEF Inbox!Next
<1>3. CASE state[e] # "absent"
  <2>1. state' = state
    BY <1>3 DEF submit, EventInv, RowInv, RowType
  <2>2. Outcome' = Outcome /\ BoundResult' = BoundResult
    BY <1>1, <2>1 DEF Outcome, BoundResult
  <2> QED BY <1>1, <2>2 DEF Inbox!vars
<1> QED BY <1>2, <1>3

\* A completion that passes the fence reports its Run's result or gives up.
LEMMA CompleteImplements ==
  ASSUME EventInv, NEW e \in Events, NEW token \in Nat, NEW r \in Runs \cup {NoRun},
         NEW status \in Results,
         \/ r # NoRun /\ r = execution[e] /\ status = result[r]
         \/ r = NoRun /\ status = "failed",
         complete(e, token, status, r), UNCHANGED durable
  PROVE  [Inbox!Next]_(Inbox!vars)
<1>1. RowType /\ UNCHANGED <<execution, result>> /\ BoundResult' = BoundResult
  BY DEF EventInv, RowInv, durable, BoundResult
<1>2. CASE ~Fenced(e, token)
  <2>1. Outcome' = Outcome
    BY <1>2 DEF complete, Outcome
  <2> QED BY <1>1, <2>1 DEF Inbox!vars
<1>3. CASE Fenced(e, token)
  <2>1. state' = [state EXCEPT ![e] = StateOf(status)] /\ state[e] = "leased"
    BY <1>3 DEF complete, Fenced
  <2>2. Outcome[e] = "open"
    BY <2>1, OutcomeOf
  <2>3. Outcome' = [Outcome EXCEPT ![e] = status]
    BY <1>1, <2>1 DEF Outcome, RowType, StateOf, Results
  <2>4. CASE r = NoRun
    <3>1. Inbox!GiveUp(e)
      BY <1>1, <2>2, <2>3, <2>4 DEF Inbox!GiveUp
    <3> QED BY <3>1 DEF Inbox!Next
  <2>5. CASE r # NoRun
    <3>1. r \in Runs /\ execution[e] = r /\ status = result[r] /\ status # "none"
      BY <2>5 DEF Results
    <3>2. BoundResult[execution[e]] = status
      BY <3>1 DEF BoundResult
    <3>3. Inbox!Report(e)
      BY <1>1, <2>2, <2>3, <2>5, <3>1, <3>2 DEF Inbox!Report
    <3> QED BY <3>3 DEF Inbox!Next
  <2> QED BY <2>4, <2>5
<1> QED BY <1>2, <1>3

\* Giving an event back is invisible, and giving it up settles it.
LEMMA GiveBackImplements ==
  ASSUME EventInv, EventInv', NEW e \in Events, NEW token \in Nat,
         GiveBack(e, token), UNCHANGED durable
  PROVE  [Inbox!Next]_(Inbox!vars)
<1>1. CASE token >= MaxAttempts
  <2>1. complete(e, token, "failed", NoRun) /\ "failed" \in Results
    BY <1>1 DEF GiveBack, Results
  <2> QED BY <2>1, CompleteImplements
<1>2. CASE ~(token >= MaxAttempts)
  <2>1. \A g \in Events : state'[g] = state[g] \/ {state[g], state'[g]} \subseteq {"pending", "leased"}
    BY <1>2 DEF GiveBack, release, Fenced, EventInv, RowInv, RowType
  <2> QED BY <2>1, OpenStaysOpen DEF EventInv, RowInv, durable, Inbox!vars
<1> QED BY <1>1, <1>2

\* Saving the record binds the event, which is open or given up: had its Run been
\* reported, it would be bound already.
LEMMA SaveImplements ==
  ASSUME EventInv, saveExternalEventExecution
  PROVE  [Inbox!Next]_(Inbox!vars)
<1> DEFINE e == preparing.event
           r == preparing.run
<1>1. e \in Events /\ r \in Runs
  BY WorkType DEF saveExternalEventExecution, EventInv, WorldInv
<1>2. /\ state[e] # "absent" /\ execution[e] = NoRun
      /\ runOf[r] = e /\ result[r] = "none"
  BY DEF saveExternalEventExecution, EventInv, WorldInv, Preparation
<1>3. execution' = [execution EXCEPT ![e] = r] /\ result' = result /\ state' = state
  BY DEF saveExternalEventExecution, row
<1>4. rowRun[e] = NoRun
  BY <1>1, <1>2 DEF EventInv, RowInv, RowNamesItsRun
<1>5. state[e] \in {"pending", "leased", "failed"}
  BY <1>1, <1>2, <1>4 DEF EventInv, RowInv, RowType, RowNamesItsRun, States, Settled
<1>6. Outcome[e] \in {"open", "failed"}
  BY <1>1, <1>5, OutcomeOf
<1>7. ASSUME NEW f \in Events PROVE execution[f] # r
  BY <1>1, <1>2, RunIds DEF EventInv, WorldInv, Bindings
<1>8. Outcome' = Outcome
  BY <1>3 DEF Outcome
<1>9. BoundResult' = BoundResult
  <2>1. ASSUME NEW q \in Runs PROVE BoundResult'[q] = BoundResult[q]
    <3>1. CASE q = r
      BY <1>2, <1>3, <1>7, <3>1 DEF BoundResult
    <3>2. CASE q # r
      <4>1. (\E f \in Events : execution'[f] = q) <=> (\E f \in Events : execution[f] = q)
        BY <1>1, <1>2, <1>3, <3>2, RunIds DEF EventInv, WorldInv, WorldType
      <4> QED BY <1>3, <4>1 DEF BoundResult
    <3> QED BY <3>1, <3>2
  <2> QED BY <2>1 DEF BoundResult
<1>10. Inbox!Begin(e, r)
  BY <1>2, <1>3, <1>6, <1>7, <1>8, <1>9 DEF Inbox!Begin
<1> QED BY <1>1, <1>10 DEF Inbox!Next

\* A Run that ends shows when it is bound.
LEMMA EndRunImplements ==
  ASSUME EventInv, NEW r \in Runs, endRun(r)
  PROVE  [Inbox!Next]_(Inbox!vars)
<1>1. /\ r \in inFlight /\ execution' = execution /\ state' = state
      /\ result \in [Runs -> Results \cup {"none"}] /\ result[r] = "none"
  BY DEF endRun, row, EventInv, WorldInv, WorldType, OpenRuns
<1>2. PICK status \in Results : result' = [result EXCEPT ![r] = status]
  BY DEF endRun
<1>3. Outcome' = Outcome
  BY <1>1 DEF Outcome
<1>4. CASE \E e \in Events : execution[e] = r
  <2>1. BoundResult[r] = "none"
    BY <1>1 DEF BoundResult
  <2>2. BoundResult' = [BoundResult EXCEPT ![r] = status]
    BY <1>1, <1>2, <1>4 DEF BoundResult
  <2>3. status \in Inbox!Results
    BY DEF Results, Inbox!Results
  <2>4. Inbox!End(r, status)
    BY <1>1, <1>3, <1>4, <2>1, <2>2 DEF Inbox!End
  <2> QED BY <2>3, <2>4 DEF Inbox!Next
<1>5. CASE ~\E e \in Events : execution[e] = r
  <2>1. BoundResult' = BoundResult
    BY <1>1, <1>2, <1>5 DEF BoundResult
  <2> QED BY <1>1, <1>3, <2>1 DEF Inbox!vars
<1> QED BY <1>4, <1>5

\* A start closes the bound Runs among those that are too old.
LEMMA StartImplements ==
  ASSUME EventInv, startRuntime
  PROVE  [Inbox!Next]_(Inbox!vars)
<1>1. execution' = execution /\ state' = state
  BY DEF startRuntime, row
<1>2. Outcome' = Outcome
  BY <1>1 DEF Outcome
<1>3. CASE result' = result
  <2>1. BoundResult' = BoundResult
    BY <1>1, <1>3 DEF BoundResult
  <2> QED BY <1>1, <1>2, <2>1 DEF Inbox!vars
<1> DEFINE open == {r \in Runs : runOf[r] # "none" /\ result[r] = "none"}
<1>4. ASSUME NEW old \in SUBSET open,
             result' = [r \in Runs |-> IF r \in old THEN "failed" ELSE result[r]]
      PROVE  [Inbox!Next]_(Inbox!vars)
  <2> DEFINE closed == {r \in old : \E e \in Events : execution[e] = r}
  <2>1. closed \in SUBSET {r \in Runs :
          BoundResult[r] = "none" /\ \E e \in Events : execution[e] = r}
    BY DEF BoundResult
  <2>2. BoundResult' = [r \in Runs |-> IF r \in closed THEN "failed" ELSE BoundResult[r]]
    BY <1>1, <1>4 DEF BoundResult
  <2>3. Inbox!EndSeveral
    BY <1>1, <1>2, <2>1, <2>2 DEF Inbox!EndSeveral
  <2> QED BY <2>3 DEF Inbox!Next
<1> QED BY <1>3, <1>4 DEF startRuntime, resumeDemoRuns

\* Every step is a step of the abstract inbox or leaves it alone.
LEMMA NextImplements ==
  EventInv /\ EventInv' /\ [Next]_vars => [Inbox!Next]_(Inbox!vars)
<1> SUFFICES ASSUME EventInv, EventInv', [Next]_vars PROVE [Inbox!Next]_(Inbox!vars)
  OBVIOUS
<1> DEFINE OpenOnly == \A g \in Events :
             state'[g] = state[g] \/ {state[g], state'[g]} \subseteq {"pending", "leased"}
<1>1. ASSUME OpenOnly, UNCHANGED <<execution, result>>
      PROVE  [Inbox!Next]_(Inbox!vars)
  BY <1>1, OpenStaysOpen DEF EventInv, RowInv, Inbox!vars
<1>2. CASE pumpOnce
  <2>1. OpenOnly
    BY <1>2 DEF pumpOnce, claimNext, Claimable, EventInv, RowInv, RowType
  <2>2. UNCHANGED <<execution, result>>
    BY <1>2 DEF pumpOnce, durable
  <2> QED BY <1>1, <2>1, <2>2
<1>3. CASE unanswered
  BY <1>3, PumpType, GiveBackImplements DEF unanswered, EventInv, WorldInv
<1>4. ASSUME NEW f \in frames, acked(f) \/ onHeartbeat(f) \/ onComplete(f)
      PROVE  [Inbox!Next]_(Inbox!vars)
  <2>1. /\ f.event \in Events /\ f.token \in Nat /\ f.run \in Runs \cup {NoRun}
        /\ f.status \in Results \cup {"none"} /\ Truthful(f)
    BY FrameType DEF EventInv, WorldInv, WorldType, FramesTell
  <2>2. UNCHANGED durable
    BY <1>4 DEF acked, onHeartbeat, onComplete
  <2>3. ASSUME heartbeat(f.event, f.token, f.run)
        PROVE  [Inbox!Next]_(Inbox!vars)
    BY <1>1, <2>2, <2>3 DEF heartbeat, durable
  <2>4. CASE acked(f)
    BY <2>1, <2>2, <2>3, <2>4, GiveBackImplements DEF acked
  <2>5. CASE onHeartbeat(f)
    BY <2>3, <2>5 DEF onHeartbeat
  <2>6. CASE onComplete(f)
    <3>1. /\ f.status \in Results /\ f.run # NoRun
          /\ f.run = execution[f.event] /\ f.status = result[f.run]
      BY <2>1, <2>6 DEF onComplete, Truthful
    <3> QED BY <2>1, <2>2, <2>6, <3>1, CompleteImplements DEF onComplete
  <2> QED BY <1>4, <2>4, <2>5, <2>6
<1>5. ASSUME UNCHANGED <<state, execution, result>>
      PROVE  [Inbox!Next]_(Inbox!vars)
  BY <1>1, <1>5
<1>6. ASSUME NEW e \in Events, expire(e) \/ sendExternalEventHeartbeat(e) \/ reportResult(e)
      PROVE  UNCHANGED <<state, execution, result>>
  BY <1>6 DEF expire, sendExternalEventHeartbeat, reportResult, row, durable
<1>7. ASSUME NEW f \in frames, handleExternalEventDispatch(f) \/ frameLost(f)
      PROVE  UNCHANGED <<state, execution, result>>
  BY <1>7 DEF handleExternalEventDispatch, Adopt, Refuse, Prepare, frameLost, row, durable
<1>8. ASSUME dispatch \/ saveThrows \/ runtimeDies \/ daemonDies \/ UNCHANGED vars
      PROVE  UNCHANGED <<state, execution, result>>
  BY <1>8 DEF dispatch, saveThrows, runtimeDies, daemonDies, vars, row, durable
<1> QED
  BY <1>2, <1>3, <1>4, <1>5, <1>6, <1>7, <1>8, SubmitImplements, SaveImplements,
     EndRunImplements, StartImplements DEF Next

\* Whatever is lost, late, repeated or taken over, an accepted event is bound to at
\* most one Run for good, that Run ends once, and the event is settled once, with
\* the Run's result or given up.
THEOREM InboxKeepsItsPromise == Spec => InboxSpec
BY InitImplements, NextImplements, EventsKeepInv, PTL DEF Spec, InboxSpec, Inbox!Spec
=============================================================================
