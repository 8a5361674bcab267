------------------------- MODULE KernelSessionsProofs -------------------------
(***************************************************************************)
(* The kernel session host, for any number of conversations, Runs, places, *)
(* recycles and failing stops: it stays within its capacity, a turn keeps  *)
(* its process, turns of a conversation exclude each other, no waiter that *)
(* could be served is forgotten, and nothing outlives a shutdown.          *)
(***************************************************************************)
EXTENDS KernelSessions, FiniteSetTheorems, SequenceTheorems, TLAPS

\* TypeOK in two halves, without what relates entries to each other.
RunType ==
  /\ phase \in [Runs -> {"new", "queued", "acquiring", "running", "done"}]
  /\ keyOf \in [Runs -> Keys \cup {"none"}]
  /\ waiters \in Seq(Runs)
  /\ draining \in {NotDraining} \cup [phase : {"loop"}, run : {NoRun}]
                  \cup [phase : {"evicting"}, run : Runs]
  /\ recycles \in 0 .. MaxRecycles
  /\ life \in {"up", "closing", "aborted", "stopped", "over", "threw"}

\* The half about the host's entries.
EntryType ==
  /\ entries \subseteq Keys
  /\ holder \in [Keys -> Runs \cup {NoRun}]
  /\ usedBefore \subseteq Idle \X Idle
  /\ stopping \in [Keys -> Causes \cup {"no"}]
  /\ failed \subseteq {k \in entries : stopping[k] # "no"}
  /\ recycle \subseteq entries

\* A key without an entry has no lease and no stop; a lease belongs to a running
\* turn of that conversation; only a shutdown stops a leased process; and once the
\* host is stopped, every process that is left is being stopped.
Leases ==
  /\ \A k \in Keys \ entries : holder[k] = NoRun /\ stopping[k] = "no"
  /\ \A k \in Keys : holder[k] # NoRun =>
       keyOf[holder[k]] = k /\ phase[holder[k]] = "running"
  /\ \A k \in Keys : stopping[k] # "no" => stopping[k] = "stopAll" \/ holder[k] = NoRun
  /\ \A k \in Keys : stopping[k] = "stopAll" => stopped
  /\ stopped => \A k \in entries : stopping[k] # "no"

\* recycleRequested is on leased processes, and on those being stopped for it.
Requests ==
  \A k \in recycle : holder[k] # NoRun \/ stopping[k] \in {"release", "stopAll"}

\* The line: every started Run has a key; ids are drawn in order; a waiter is
\* acquiring and stands in line once.
Line ==
  /\ \A r \in Runs : phase[r] # "new" => keyOf[r] \in Keys
  /\ \A r, q \in Runs : q < r /\ phase[q] = "new" => phase[r] = "new"
  /\ \A i \in DOMAIN waiters : phase[waiters[i]] = "acquiring"
  /\ \A i, j \in DOMAIN waiters : waiters[i] = waiters[j] => i = j

\* A Run has its turn when the earlier Runs of its conversation are done.
Turns ==
  \A r, q \in Runs :
    q < r /\ keyOf[q] = keyOf[r] /\ phase[r] \in {"acquiring", "running"} => phase[q] = "done"

\* The drain awaits the stop of one victim exactly while it serves the Run it took
\* from the line, whose conversation has no process yet.
Evictions ==
  /\ \A v \in Keys : stopping[v] = "drain" /\ v \notin failed => draining.phase = "evicting"
  /\ \A v, w \in Keys :
       /\ stopping[v] = "drain" /\ v \notin failed
       /\ stopping[w] = "drain" /\ w \notin failed
       => v = w
  /\ draining.phase = "evicting" =>
       /\ phase[draining.run] \in {"acquiring", "done"}
       /\ keyOf[draining.run] \in Keys \ entries
       /\ \A i \in DOMAIN waiters : waiters[i] # draining.run

\* A recycleAll awaits stops of its own, and a stop of its kind that nobody awaits
\* belongs to one that was rejected.
Batches ==
  /\ batches \subseteq SUBSET {k \in entries : stopping[k] = "recycleAll" /\ k \notin failed}
  /\ {} \notin batches
  /\ \A k \in Keys : stopping[k] = "recycleAll" /\ k \notin failed =>
       (\E b \in batches : k \in b) \/ \E j \in failed : stopping[j] = "recycleAll"

\* Before the shutdown stops the host, a running turn holds its process.
Running ==
  \A r \in Runs : phase[r] = "running" /\ ~stopped => holder[keyOf[r]] = r

\* The inductive invariant of the host.
HostInv ==
  /\ RunType /\ EntryType /\ Leases /\ Requests /\ Line /\ Turns /\ Evictions
  /\ Batches /\ Running

-----------------------------------------------------------------------------
(* The line of waiters                                                     *)

\* A waiter taken out of the line: the others keep their order.
LEMMA RemoveAtProperties ==
  ASSUME NEW S, NEW s \in Seq(S), NEW i \in DOMAIN s
  PROVE  /\ RemoveAt(s, i) \in Seq(S)
         /\ DOMAIN RemoveAt(s, i) = 1 .. Len(s) - 1
         /\ \A j \in 1 .. Len(s) - 1 : RemoveAt(s, i)[j] = IF j < i THEN s[j] ELSE s[j + 1]
<1>1. i \in 1 .. Len(s) /\ Len(s) \in Nat /\ \A j \in 1 .. Len(s) : s[j] \in S
  OBVIOUS
<1> DEFINE front == SubSeq(s, 1, i - 1)
           back == SubSeq(s, i + 1, Len(s))
<1>2. /\ front \in Seq(S) /\ Len(front) = i - 1
      /\ \A j \in 1 .. i - 1 : front[j] = s[j]
  BY <1>1
<1>3. /\ back \in Seq(S) /\ Len(back) = Len(s) - i
      /\ \A j \in 1 .. Len(s) - i : back[j] = s[i + j]
  BY <1>1
<1> HIDE DEF front, back
<1>4. /\ front \o back \in Seq(S) /\ Len(front \o back) = Len(s) - 1
      /\ \A j \in 1 .. Len(s) - 1 :
           (front \o back)[j] = IF j <= i - 1 THEN front[j] ELSE back[j - (i - 1)]
  BY <1>1, <1>2, <1>3, ConcatProperties
<1>5. \A j \in 1 .. Len(s) - 1 : (front \o back)[j] = IF j < i THEN s[j] ELSE s[j + 1]
  <2> SUFFICES ASSUME NEW j \in 1 .. Len(s) - 1
               PROVE  (front \o back)[j] = IF j < i THEN s[j] ELSE s[j + 1]
    OBVIOUS
  <2>1. CASE j < i
    BY <1>1, <1>2, <1>4, <2>1
  <2>2. CASE ~(j < i)
    <3>1. j - (i - 1) \in 1 .. Len(s) - i /\ i + (j - (i - 1)) = j + 1
      BY <1>1, <2>2
    <3>2. back[j - (i - 1)] = s[j + 1]
      BY <1>3, <3>1
    <3>3. (front \o back)[j] = back[j - (i - 1)]
      BY <1>1, <1>4, <2>2
    <3> QED BY <2>2, <3>2, <3>3
  <2> QED BY <2>1, <2>2
<1>6. DOMAIN (front \o back) = 1 .. Len(s) - 1
  BY <1>4
<1> QED BY <1>4, <1>5, <1>6 DEF RemoveAt, front, back

\* What removing a waiter does to the conditions on the line.
LEMMA LineShrinks ==
  ASSUME waiters \in Seq(Runs), NEW i \in DOMAIN waiters, waiters' = RemoveAt(waiters, i),
         \A j, k \in DOMAIN waiters : waiters[j] = waiters[k] => j = k
  PROVE  /\ waiters' \in Seq(Runs)
         /\ \A j \in DOMAIN waiters' : \E k \in DOMAIN waiters :
              waiters'[j] = waiters[k] /\ waiters[k] # waiters[i]
         /\ \A j, k \in DOMAIN waiters' : waiters'[j] = waiters'[k] => j = k
<1>1. /\ waiters' \in Seq(Runs) /\ DOMAIN waiters' = 1 .. Len(waiters) - 1
      /\ \A j \in 1 .. Len(waiters) - 1 :
           waiters'[j] = IF j < i THEN waiters[j] ELSE waiters[j + 1]
  BY RemoveAtProperties
<1>2. DOMAIN waiters = 1 .. Len(waiters) /\ Len(waiters) \in Nat
  OBVIOUS
<1>3. ASSUME NEW j \in DOMAIN waiters'
      PROVE  \E k \in DOMAIN waiters :
               waiters'[j] = waiters[k] /\ waiters[k] # waiters[i] /\ k = IF j < i THEN j ELSE j + 1
  BY <1>1, <1>2
<1> QED BY <1>1, <1>2, <1>3

\* A Run that begins to acquire is put at the end.
LEMMA LineGrows ==
  ASSUME waiters \in Seq(Runs), NEW r \in Runs, waiters' = Append(waiters, r)
  PROVE  /\ waiters' \in Seq(Runs)
         /\ DOMAIN waiters' = 1 .. Len(waiters) + 1 /\ Len(waiters) \in Nat
         /\ DOMAIN waiters = 1 .. Len(waiters)
         /\ \A j \in DOMAIN waiters : waiters'[j] = waiters[j]
         /\ waiters'[Len(waiters) + 1] = r
OBVIOUS

\* A Run id is not NoRun.
LEMMA RunIds == NoRun \notin Runs /\ Runs \subseteq Nat
BY HostAssumption DEF NoRun, Runs

\* An empty host.
LEMMA InitHost == Init => HostInv
<1> SUFFICES ASSUME Init PROVE HostInv
  OBVIOUS
<1>1. Idle = {}
  BY DEF Init, Idle
<1>2. RunType /\ EntryType
  BY <1>1, HostAssumption DEF Init, RunType, EntryType, NotDraining
<1>3. Leases /\ Requests /\ Line /\ Turns /\ Running
  BY DEF Init, Leases, Requests, Line, Turns, Running, stopped
<1>4. Evictions /\ Batches
  BY DEF Init, Evictions, Batches, NotDraining
<1> QED BY <1>2, <1>3, <1>4 DEF HostInv

-----------------------------------------------------------------------------
(* The drain                                                               *)

\* The drain is idle, in its loop, or serves a Run.
LEMMA DrainType ==
  ASSUME RunType
  PROVE  /\ draining.phase \in {"no", "loop", "evicting"}
         /\ draining.phase = "evicting" => draining.run \in Runs
         /\ draining.phase = "no" => draining = NotDraining
         /\ draining.phase = "loop" => draining = [phase |-> "loop", run |-> NoRun]
BY DEF RunType, NotDraining

\* drain() starts the loop or leaves a drain under way alone.
LEMMA DrainedType ==
  ASSUME RunType
  PROVE  /\ Drained(draining) \in {NotDraining} \cup [phase : {"loop"}, run : {NoRun}]
                                 \cup [phase : {"evicting"}, run : Runs]
         /\ draining.phase = "evicting" <=> Drained(draining).phase = "evicting"
         /\ draining.phase = "evicting" => Drained(draining) = draining
         /\ ~stopped => Drained(draining).phase # "no"
<1>1. CASE draining.phase = "no" /\ ~stopped
  <2>1. draining = NotDraining
    BY <1>1, DrainType
  <2>2. Drained(draining) = [phase |-> "loop", run |-> NoRun]
    BY <1>1, <2>1 DEF Drained, NotDraining
  <2> QED BY <1>1, <2>2
<1>2. CASE ~(draining.phase = "no" /\ ~stopped)
  <2>1. Drained(draining) = draining
    BY <1>2 DEF Drained
  <2> QED BY <1>2, <2>1 DEF RunType
<1> QED BY <1>1, <1>2

\* The process of the Run being served, where it exists or fits.
LEMMA FulfillKeeps ==
  ASSUME HostInv, fulfill
  PROVE  HostInv'
<1>1. PICK i \in DOMAIN waiters :
        LET r == waiters[i]
            k == keyOf[r]
        IN  /\ Served(i)
            /\ k \in entries \/ Cardinality(entries) < MaxEntries
            /\ waiters' = RemoveAt(waiters, i)
            /\ entries' = entries \cup {k}
            /\ holder' = [holder EXCEPT ![k] = r]
            /\ usedBefore' = Untouched({k})
            /\ phase' = [phase EXCEPT ![r] = "running"]
  BY DEF fulfill
<1> DEFINE r == waiters[i]
           k == keyOf[r]
<1>2. /\ draining.phase = "loop" /\ ~stopped
      /\ UNCHANGED <<keyOf, draining, stopping, failed, recycle, batches, recycles, life>>
  BY DEF fulfill
<1>3. r \in Runs /\ phase[r] = "acquiring" /\ k \in Keys
  BY DEF HostInv, RunType, Line
<1>4. holder[k] = NoRun /\ stopping[k] = "no"
  BY <1>1, <1>3 DEF Served, canAcquire, Idle, HostInv, Leases
<1>5. /\ waiters' \in Seq(Runs)
      /\ \A j \in DOMAIN waiters' : \E h \in DOMAIN waiters :
           waiters'[j] = waiters[h] /\ waiters[h] # r
      /\ \A j, h \in DOMAIN waiters' : waiters'[j] = waiters'[h] => j = h
  BY <1>1, LineShrinks DEF HostInv, RunType, Line
<1>6. RunType'
  BY <1>1, <1>2, <1>3, <1>5 DEF HostInv, RunType
<1>7. Idle' = Idle \ {k}
  BY <1>1, <1>2, <1>3, <1>4, RunIds DEF Idle, HostInv, EntryType
<1>8. EntryType'
  <2>1. usedBefore' \subseteq Idle' \X Idle'
    BY <1>1, <1>7 DEF Untouched, HostInv, EntryType
  <2> QED BY <1>1, <1>2, <1>3, <2>1 DEF HostInv, EntryType
<1>9. Leases'
  BY <1>1, <1>2, <1>3, <1>4 DEF HostInv, Leases, EntryType, RunType, stopped
<1>10. Requests'
  BY <1>1, <1>2, <1>3, <1>4, RunIds DEF HostInv, Requests, EntryType
<1>11. Line'
  BY <1>1, <1>2, <1>3, <1>5 DEF HostInv, RunType, Line
<1>12. Turns'
  BY <1>1, <1>2, <1>3 DEF HostInv, RunType, Turns
<1>13. Evictions'
  BY <1>2 DEF HostInv, Evictions
<1>14. Batches'
  BY <1>1, <1>2 DEF HostInv, Batches
<1>15. Running'
  <2>1. ASSUME NEW q \in Runs, phase'[q] = "running"
        PROVE  holder'[keyOf[q]] = q
    <3>1. CASE q = r
      BY <1>1, <1>3, <3>1 DEF HostInv, EntryType
    <3>2. CASE q # r
      <4>1. phase[q] = "running" /\ holder[keyOf[q]] = q
        BY <1>1, <1>2, <2>1, <3>2 DEF HostInv, Running, RunType
      <4>2. keyOf[q] # k
        BY <1>4, <4>1, RunIds
      <4> QED BY <1>1, <4>1, <4>2 DEF HostInv, EntryType
    <3> QED BY <3>1, <3>2
  <2> QED BY <1>2, <2>1 DEF Running
<1> QED BY <1>6, <1>8, <1>9, <1>10, <1>11, <1>12, <1>13, <1>14, <1>15 DEF HostInv

\* What stopEntry does to idle entries.
LEMMA StopIdle ==
  ASSUME HostInv, NEW ks \in SUBSET Idle, NEW cause \in Causes, stopEntry(ks, cause),
         UNCHANGED <<entries, holder>>
  PROVE  /\ Idle' = Idle \ ks
         /\ usedBefore' \subseteq Idle' \X Idle'
         /\ stopping' \in [Keys -> Causes \cup {"no"}]
         /\ \A k \in Keys : stopping'[k] = IF k \in ks THEN cause ELSE stopping[k]
         /\ \A k \in ks : k \in entries /\ holder[k] = NoRun /\ stopping[k] = "no"
<1>1. \A k \in ks : k \in Keys /\ k \in entries /\ holder[k] = NoRun /\ stopping[k] = "no"
  BY DEF Idle, HostInv, EntryType
<1>2. \A k \in Keys : stopping'[k] = IF k \in ks THEN cause ELSE stopping[k]
  BY <1>1 DEF stopEntry, HostInv, EntryType
<1>3. stopping' \in [Keys -> Causes \cup {"no"}]
  BY DEF stopEntry, HostInv, EntryType
<1>4. "no" \notin Causes
  BY DEF Causes
<1>5. Idle' = Idle \ ks
  BY <1>1, <1>2, <1>4 DEF Idle, HostInv, EntryType
<1>6. usedBefore' \subseteq Idle' \X Idle'
  BY <1>5 DEF stopEntry, Untouched, HostInv, EntryType
<1> QED BY <1>1, <1>2, <1>3, <1>5, <1>6

\* Stopping one idle process takes it, and nothing else, out of the idle ones.
LEMMA StopOneIdle ==
  ASSUME HostInv, NEW v \in Idle, NEW cause \in Causes, stopEntry({v}, cause),
         UNCHANGED <<entries, holder>>
  PROVE  /\ Idle' = Idle \ {v}
         /\ usedBefore' \subseteq Idle' \X Idle'
         /\ stopping' \in [Keys -> Causes \cup {"no"}]
         /\ \A k \in Keys : stopping'[k] = IF k = v THEN cause ELSE stopping[k]
         /\ v \in entries /\ holder[v] = NoRun /\ stopping[v] = "no"
<1> DEFINE ks == {v}
<1>1. ks \in SUBSET Idle /\ stopEntry(ks, cause)
  OBVIOUS
<1> HIDE DEF ks
<1>2. /\ Idle' = Idle \ ks
      /\ usedBefore' \subseteq Idle' \X Idle'
      /\ stopping' \in [Keys -> Causes \cup {"no"}]
      /\ \A k \in Keys : stopping'[k] = IF k \in ks THEN cause ELSE stopping[k]
      /\ \A k \in ks : k \in entries /\ holder[k] = NoRun /\ stopping[k] = "no"
  BY <1>1, StopIdle
<1> QED BY <1>2 DEF ks

\* The victim is idle, and the drain leaves its loop to await its stop.
LEMMA EvictOldestKeeps ==
  ASSUME HostInv, evictOldest
  PROVE  HostInv'
<1>1. PICK i \in DOMAIN waiters, v \in Keys :
        /\ keyOf[waiters[i]] \notin entries
        /\ oldestIdleEntry(v)
        /\ waiters' = RemoveAt(waiters, i)
        /\ stopEntry({v}, "drain")
        /\ draining' = [phase |-> "evicting", run |-> waiters[i]]
  BY DEF evictOldest
<1> DEFINE r == waiters[i]
<1>2. /\ draining.phase = "loop" /\ ~stopped
      /\ UNCHANGED <<runVars, entries, holder, failed, recycle, batches, recycles, life>>
  BY DEF evictOldest
<1>3. r \in Runs /\ phase[r] = "acquiring" /\ keyOf[r] \in Keys
  BY DEF HostInv, RunType, Line
<1>4. v \in Idle /\ "drain" \in Causes
  BY <1>1 DEF oldestIdleEntry, Causes
<1>5. /\ Idle' = Idle \ {v}
      /\ usedBefore' \subseteq Idle' \X Idle'
      /\ stopping' \in [Keys -> Causes \cup {"no"}]
      /\ \A k \in Keys : stopping'[k] = IF k = v THEN "drain" ELSE stopping[k]
      /\ v \in entries /\ holder[v] = NoRun /\ stopping[v] = "no"
  BY <1>1, <1>2, <1>4, StopOneIdle
<1>6. /\ waiters' \in Seq(Runs)
      /\ \A j \in DOMAIN waiters' : \E h \in DOMAIN waiters :
           waiters'[j] = waiters[h] /\ waiters[h] # r
      /\ \A j, h \in DOMAIN waiters' : waiters'[j] = waiters'[h] => j = h
  BY <1>1, LineShrinks DEF HostInv, RunType, Line
<1>7. RunType'
  BY <1>1, <1>2, <1>3, <1>6 DEF HostInv, RunType, runVars
<1>8. EntryType'
  BY <1>2, <1>5 DEF HostInv, EntryType
<1>9. Leases'
  BY <1>2, <1>5 DEF HostInv, Leases, EntryType, runVars, stopped
<1>10. Requests'
  BY <1>2, <1>5 DEF HostInv, Requests, EntryType
<1>11. Line' /\ Turns' /\ Running'
  BY <1>2, <1>6 DEF HostInv, Line, Turns, Running, runVars, stopped
<1>12. Evictions'
  <2>1. \A w \in Keys : stopping[w] = "drain" => w \in failed
    BY <1>2 DEF HostInv, Evictions
  <2>2. draining'.phase = "evicting" /\ draining'.run = r
    BY <1>1
  <2> QED BY <1>1, <1>2, <1>3, <1>5, <1>6, <2>1, <2>2 DEF Evictions, runVars
<1>13. Batches'
  BY <1>2, <1>5 DEF HostInv, EntryType, Batches
<1> QED BY <1>7, <1>8, <1>9, <1>10, <1>11, <1>12, <1>13 DEF HostInv

\* drainEnds: the drain stops when nobody in line can be served.
LEMMA DrainEndsKeeps ==
  ASSUME HostInv, drainEnds
  PROVE  HostInv'
<1>1. draining.phase = "loop" /\ draining' = NotDraining
  BY DEF drainEnds
<1>2. UNCHANGED <<phase, keyOf, waiters, entries, holder, usedBefore, stopping, failed, recycle,
                  batches, recycles, life>>
  BY DEF drainEnds, runVars, entryVars
<1>3. RunType' /\ EntryType'
  BY <1>1, <1>2 DEF HostInv, RunType, EntryType, Idle
<1>4. Leases' /\ Requests'
  BY <1>2 DEF HostInv, Leases, Requests, stopped
<1>5. Line' /\ Turns' /\ Running' /\ Batches'
  BY <1>2 DEF HostInv, Line, Turns, Running, Batches, stopped
<1>6. Evictions'
  BY <1>1, <1>2 DEF HostInv, Evictions, NotDraining
<1> QED BY <1>3, <1>4, <1>5, <1>6 DEF HostInv

\* The deletion of an entry that has stopped.
LEMMA DeleteKeeps ==
  ASSUME HostInv, NEW k \in Keys, stopping[k] # "no", k \notin failed, Delete(k)
  PROVE  /\ EntryType' /\ k \in entries /\ Idle' = Idle
         /\ entries' = entries \ {k} /\ recycle' = recycle \ {k} /\ failed' = failed
         /\ \A j \in Keys : stopping'[j] = IF j = k THEN "no" ELSE stopping[j]
         /\ \A j \in Keys : holder'[j] = IF j = k THEN NoRun ELSE holder[j]
<1>1. k \in entries
  BY DEF HostInv, Leases
<1>2. /\ entries' = entries \ {k} /\ recycle' = recycle \ {k} /\ failed' = failed
      /\ holder' = [holder EXCEPT ![k] = NoRun]
      /\ stopping' = [stopping EXCEPT ![k] = "no"] /\ usedBefore' = usedBefore
  BY DEF Delete
<1>3. Idle' = Idle
  BY <1>2 DEF Idle, HostInv, EntryType
<1>4. EntryType'
  BY <1>2, <1>3 DEF HostInv, EntryType
<1> QED BY <1>1, <1>2, <1>3, <1>4 DEF HostInv, EntryType

\* The deletion of an entry whose stop is not awaited by a recycleAll, by a step
\* that changes no Run.
LEMMA DeleteQuietly ==
  ASSUME HostInv, NEW k \in Keys, stopping[k] \in Causes \ {"recycleAll"}, k \notin failed,
         Delete(k), UNCHANGED <<batches, life, keyOf>>
  PROVE  /\ EntryType' /\ Requests' /\ Batches'
         /\ phase' = phase => Leases' /\ Running'
<1>1. stopping[k] # "no"
  BY DEF Causes
<1>2. /\ EntryType' /\ k \in entries /\ Idle' = Idle
      /\ entries' = entries \ {k} /\ recycle' = recycle \ {k} /\ failed' = failed
      /\ \A j \in Keys : stopping'[j] = IF j = k THEN "no" ELSE stopping[j]
      /\ \A j \in Keys : holder'[j] = IF j = k THEN NoRun ELSE holder[j]
  BY <1>1, DeleteKeeps
<1>3. Requests'
  BY <1>2 DEF HostInv, EntryType, Requests
<1>4. Batches'
  BY <1>2 DEF HostInv, EntryType, Batches
<1>5. phase' = phase => Leases'
  BY <1>2 DEF HostInv, EntryType, Leases, stopped
<1>6. phase' = phase => Running'
  <2> SUFFICES ASSUME phase' = phase, NEW r \in Runs, phase[r] = "running", ~stopped
               PROVE  holder'[keyOf[r]] = r
    BY DEF Running, stopped
  <2>1. holder[keyOf[r]] = r /\ keyOf[r] \in Keys
    BY DEF HostInv, Running, Line
  <2>2. stopping[keyOf[r]] = "no"
    BY <2>1, RunIds DEF HostInv, Leases
  <2> QED BY <1>1, <1>2, <2>1, <2>2
<1> QED BY <1>2, <1>3, <1>4, <1>5, <1>6

\* The victim has stopped: at a stopped host its place goes, otherwise the Run
\* that was served takes it over, or, when it was aborted, leaves it idle.
LEMMA VictimStoppedKeeps ==
  ASSUME HostInv, NEW v \in Keys, victimStopped(v)
  PROVE  HostInv'
<1> DEFINE r == draining.run
           k == keyOf[r]
<1>1. /\ stopping[v] = "drain" /\ v \notin failed
      /\ draining' = [phase |-> "loop", run |-> NoRun]
      /\ UNCHANGED <<keyOf, waiters, batches, recycles, life>>
  BY DEF victimStopped
<1>2. /\ draining.phase = "evicting" /\ r \in Runs /\ phase[r] \in {"acquiring", "done"}
      /\ k \in Keys \ entries /\ \A i \in DOMAIN waiters : waiters[i] # r
  BY <1>1, DrainType DEF HostInv, Evictions
<1>3. v \in entries /\ holder[v] = NoRun /\ v # k
  BY <1>1, <1>2 DEF HostInv, Leases
<1>4. \A w \in Keys : stopping[w] = "drain" /\ w \notin failed => w = v
  BY <1>1 DEF HostInv, Evictions
<1>5. holder[k] = NoRun /\ stopping[k] = "no" /\ k \notin failed /\ v \notin recycle
  BY <1>1, <1>2, <1>3 DEF HostInv, Leases, EntryType, Requests
<1>6. CASE stopped
  <2>1. Delete(v) /\ phase' = [phase EXCEPT ![r] = "done"]
    BY <1>6 DEF victimStopped
  <2>2. stopping[v] \in Causes \ {"recycleAll"} /\ stopping[v] # "no"
    BY <1>1 DEF Causes
  <2>3. EntryType' /\ Requests' /\ Batches'
    BY <1>1, <2>1, <2>2, DeleteQuietly
  <2>4. /\ entries' = entries \ {v} /\ failed' = failed
        /\ \A j \in Keys : stopping'[j] = IF j = v THEN "no" ELSE stopping[j]
        /\ \A j \in Keys : holder'[j] = IF j = v THEN NoRun ELSE holder[j]
    BY <1>1, <2>1, <2>2, DeleteKeeps
  <2>5. RunType'
    BY <1>1, <1>2, <2>1 DEF HostInv, RunType
  <2>6. Leases'
    BY <1>1, <1>2, <1>6, <2>1, <2>4 DEF HostInv, RunType, EntryType, Leases, stopped
  <2>7. Line' /\ Turns' /\ Running'
    BY <1>1, <1>2, <1>6, <2>1 DEF HostInv, RunType, Line, Turns, Running, stopped
  <2>8. Evictions'
    BY <1>1, <1>4, <2>4 DEF Evictions
  <2> QED BY <2>3, <2>5, <2>6, <2>7, <2>8 DEF HostInv
<1>7. CASE ~stopped
  <2>1. /\ entries' = (entries \ {v}) \cup {k}
        /\ stopping' = [stopping EXCEPT ![v] = "no"]
        /\ UNCHANGED <<failed, recycle>>
        /\ \/ /\ phase[r] = "done" /\ usedBefore' = Touched(k)
              /\ UNCHANGED <<holder, phase>>
           \/ /\ phase[r] # "done" /\ holder' = [holder EXCEPT ![k] = r]
              /\ phase' = [phase EXCEPT ![r] = "running"]
              /\ UNCHANGED usedBefore
    BY <1>7 DEF victimStopped
  <2>2. RunType'
    BY <1>1, <1>2, <2>1 DEF HostInv, RunType
  <2>3. stopping' \in [Keys -> Causes \cup {"no"}] /\ holder' \in [Keys -> Runs \cup {NoRun}]
    BY <1>2, <2>1 DEF HostInv, EntryType
  <2>4. \A j \in Keys : stopping'[j] = IF j = v THEN "no" ELSE stopping[j]
    BY <2>1 DEF HostInv, EntryType
  <2>5. usedBefore' \subseteq Idle' \X Idle'
    <3>1. Idle \subseteq Idle'
      BY <1>1, <1>2, <1>5, <2>1, <2>4 DEF Idle, HostInv, EntryType
    <3>2. phase[r] = "done" => k \in Idle'
      BY <1>2, <1>3, <1>5, <2>1, <2>4 DEF Idle
    <3> QED BY <2>1, <3>1, <3>2 DEF Touched, HostInv, EntryType
  <2>6. EntryType'
    BY <1>1, <1>2, <1>5, <2>1, <2>3, <2>4, <2>5 DEF HostInv, EntryType
  <2>7. Leases'
    BY <1>1, <1>2, <1>3, <1>5, <1>7, <2>1, <2>4
    DEF HostInv, RunType, EntryType, Leases, stopped
  <2>8. Requests'
    BY <1>1, <1>2, <1>5, <2>1, <2>4, RunIds DEF HostInv, EntryType, Requests
  <2>9. Line' /\ Turns'
    BY <1>1, <1>2, <2>1 DEF HostInv, RunType, Line, Turns
  <2>10. Evictions'
    BY <1>1, <1>4, <2>1, <2>4 DEF Evictions
  <2>11. Batches'
    BY <1>1, <2>1, <2>4 DEF HostInv, EntryType, Batches
  <2>12. Running'
    <3> SUFFICES ASSUME NEW q \in Runs, phase'[q] = "running"
                 PROVE  holder'[keyOf[q]] = q
      BY <1>1 DEF Running
    <3>1. CASE q = r
      BY <1>2, <2>1, <3>1 DEF HostInv, EntryType, RunType
    <3>2. CASE q # r
      <4>1. holder[keyOf[q]] = q /\ keyOf[q] \in Keys
        BY <1>2, <1>7, <2>1, <3>2 DEF HostInv, RunType, Running, Line
      <4>2. keyOf[q] # k
        BY <1>5, <4>1, RunIds
      <4> QED BY <2>1, <4>1, <4>2 DEF HostInv, EntryType
    <3> QED BY <3>1, <3>2
  <2> QED BY <2>2, <2>6, <2>7, <2>8, <2>9, <2>10, <2>11, <2>12 DEF HostInv
<1> QED BY <1>6, <1>7

\* A stop that failed: its entry stays and its awaiters are told.
LEMMA KeepKeeps ==
  ASSUME HostInv, NEW k \in Keys, stopping[k] # "no", Keep(k)
  PROVE  /\ EntryType' /\ UNCHANGED <<entries, holder, usedBefore, stopping, recycle>>
         /\ failed' = failed \cup {k}
<1>1. k \in entries
  BY DEF HostInv, Leases
<1>2. UNCHANGED <<entries, holder, usedBefore, stopping, recycle>> /\ failed' = failed \cup {k}
  BY DEF Keep
<1>3. Idle' = Idle
  BY <1>2 DEF Idle
<1> QED BY <1>1, <1>2, <1>3 DEF HostInv, EntryType

\* victimFailed: the Run the victim was stopped for ends with the error.
LEMMA VictimFailedKeeps ==
  ASSUME HostInv, NEW v \in Keys, victimFailed(v)
  PROVE  HostInv'
<1> DEFINE r == draining.run
<1>1. /\ stopping[v] = "drain" /\ v \notin failed /\ Keep(v)
      /\ phase' = [phase EXCEPT ![r] = "done"]
      /\ draining' = [phase |-> "loop", run |-> NoRun]
      /\ UNCHANGED <<keyOf, waiters, batches, recycles, life>>
  BY DEF victimFailed
<1>2. /\ draining.phase = "evicting" /\ r \in Runs /\ phase[r] \in {"acquiring", "done"}
      /\ \A i \in DOMAIN waiters : waiters[i] # r
  BY <1>1, DrainType DEF HostInv, Evictions
<1>3. /\ EntryType' /\ UNCHANGED <<entries, holder, usedBefore, stopping, recycle>>
      /\ failed' = failed \cup {v}
  BY <1>1, KeepKeeps
<1>4. RunType'
  BY <1>1, <1>2 DEF HostInv, RunType
<1>5. Leases' /\ Requests'
  BY <1>1, <1>2, <1>3 DEF HostInv, RunType, Leases, Requests, stopped
<1>6. Line' /\ Turns'
  BY <1>1, <1>2 DEF HostInv, RunType, Line, Turns
<1>7. Running'
  BY <1>1, <1>2, <1>3 DEF HostInv, RunType, Running, stopped
<1>8. Evictions'
  BY <1>1, <1>3 DEF HostInv, Evictions
<1>9. Batches'
  BY <1>1, <1>3 DEF HostInv, Batches
<1> QED BY <1>3, <1>4, <1>5, <1>6, <1>7, <1>8, <1>9 DEF HostInv

-----------------------------------------------------------------------------
(* Evictions, recycling and shutdown                                       *)

\* What the conditions on Runs, lines and turns are about.
LEMMA RunsUntouched ==
  ASSUME HostInv, UNCHANGED <<runVars, waiters, recycles, life>>,
         draining' \in {draining, Drained(draining)}
  PROVE  RunType' /\ Line' /\ Turns'
<1>1. UNCHANGED <<phase, keyOf, waiters, recycles, life>>
  BY DEF runVars
<1>2. RunType'
  BY <1>1, DrainedType DEF HostInv, RunType
<1> QED BY <1>1, <1>2 DEF HostInv, Line, Turns

\* evictIdle: a process that was idle too long is stopped.
LEMMA EvictIdleKeeps ==
  ASSUME HostInv, NEW k \in Keys, evictIdle(k)
  PROVE  HostInv'
<1>1. /\ k \in Idle /\ ~stopped /\ stopEntry({k}, "evictIdle") /\ "evictIdle" \in Causes
      /\ UNCHANGED <<runVars, waiters, draining, entries, holder, failed, recycle,
                     batches, recycles, life>>
  BY DEF evictIdle, Causes
<1>2. /\ Idle' = Idle \ {k}
      /\ usedBefore' \subseteq Idle' \X Idle'
      /\ stopping' \in [Keys -> Causes \cup {"no"}]
      /\ \A j \in Keys : stopping'[j] = IF j = k THEN "evictIdle" ELSE stopping[j]
      /\ k \in entries /\ holder[k] = NoRun /\ stopping[k] = "no"
  BY <1>1, StopOneIdle
<1>3. RunType' /\ Line' /\ Turns'
  BY <1>1, RunsUntouched
<1>4. EntryType'
  BY <1>1, <1>2 DEF HostInv, EntryType
<1>5. Leases'
  BY <1>1, <1>2 DEF HostInv, EntryType, Leases, runVars, stopped
<1>6. Running'
  BY <1>1 DEF HostInv, Running, runVars, stopped
<1>7. Requests' /\ Batches'
  BY <1>1, <1>2 DEF HostInv, EntryType, Requests, Batches
<1>8. Evictions'
  BY <1>1, <1>2 DEF HostInv, EntryType, Evictions, runVars
<1> QED BY <1>3, <1>4, <1>5, <1>6, <1>7, <1>8 DEF HostInv

\* The end of a stop that an idle timeout, a release or the shutdown awaits.
LEMMA EntryStoppedKeeps ==
  ASSUME HostInv, NEW k \in Keys, entryStopped(k) \/ stoppedByAll(k)
  PROVE  HostInv'
<1>1. /\ stopping[k] \in {"evictIdle", "release", "stopAll"} /\ k \notin failed /\ Delete(k)
      /\ draining' \in {draining, Drained(draining)}
      /\ UNCHANGED <<runVars, waiters, batches, recycles, life>>
  BY DEF entryStopped, stoppedByAll
<1>2. stopping[k] \in Causes \ {"recycleAll"} /\ stopping[k] # "no" /\ UNCHANGED <<phase, keyOf>>
  BY <1>1 DEF Causes, runVars
<1>3. RunType' /\ Line' /\ Turns'
  BY <1>1, RunsUntouched
<1>4. EntryType' /\ Requests' /\ Batches' /\ Leases' /\ Running'
  BY <1>1, <1>2, DeleteQuietly
<1>5. /\ entries' = entries \ {k} /\ failed' = failed
      /\ \A j \in Keys : stopping'[j] = IF j = k THEN "no" ELSE stopping[j]
  BY <1>1, <1>2, DeleteKeeps
<1>6. /\ draining.phase = "evicting" => draining' = draining
      /\ draining'.phase = "evicting" => draining' = draining
  BY <1>1, DrainedType DEF HostInv
<1>7. Evictions'
  BY <1>1, <1>2, <1>5, <1>6 DEF HostInv, Evictions
<1> QED BY <1>3, <1>4, <1>7 DEF HostInv

\* recycleAll: a new batch of stops, and a request on every lease.
LEMMA RecycleAllKeeps ==
  ASSUME HostInv, recycleAll
  PROVE  HostInv'
<1>1. /\ ~stopped /\ recycles < MaxRecycles /\ recycles' = recycles + 1
      /\ recycle' = recycle \cup {k \in entries : holder[k] # NoRun}
      /\ stopEntry(Idle, "recycleAll") /\ "recycleAll" \in Causes
      /\ batches' = IF Idle = {} THEN batches ELSE batches \cup {Idle}
      /\ draining' \in {draining, Drained(draining)}
      /\ UNCHANGED <<phase, keyOf, waiters, entries, holder, failed, life>>
  BY DEF recycleAll, Causes, runVars
<1> DEFINE ks == Idle
<1>2. /\ Idle' = {}
      /\ usedBefore' \subseteq Idle' \X Idle'
      /\ stopping' \in [Keys -> Causes \cup {"no"}]
      /\ \A k \in Keys : stopping'[k] = IF k \in Idle THEN "recycleAll" ELSE stopping[k]
      /\ \A k \in Idle : k \in entries /\ holder[k] = NoRun /\ stopping[k] = "no"
  <2>1. ks \in SUBSET Idle /\ stopEntry(ks, "recycleAll")
    BY <1>1
  <2> HIDE DEF ks
  <2>2. /\ Idle' = Idle \ ks
        /\ usedBefore' \subseteq Idle' \X Idle'
        /\ stopping' \in [Keys -> Causes \cup {"no"}]
        /\ \A k \in Keys : stopping'[k] = IF k \in ks THEN "recycleAll" ELSE stopping[k]
        /\ \A k \in ks : k \in entries /\ holder[k] = NoRun /\ stopping[k] = "no"
    BY <1>1, <2>1, StopIdle
  <2> QED BY <2>2 DEF ks
<1>3. RunType'
  BY <1>1, DrainedType, HostAssumption DEF HostInv, RunType
<1>4. Line' /\ Turns'
  BY <1>1 DEF HostInv, Line, Turns
<1>5. EntryType'
  BY <1>1, <1>2 DEF HostInv, EntryType
<1>6. Leases'
  BY <1>1, <1>2 DEF HostInv, EntryType, Leases, stopped
<1>7. Running'
  BY <1>1 DEF HostInv, Running, stopped
<1>8. Requests'
  <2> SUFFICES ASSUME NEW k \in recycle'
               PROVE  holder[k] # NoRun \/ stopping'[k] \in {"release", "stopAll"}
    BY <1>1 DEF Requests
  <2>1. k \in Keys
    BY <1>1 DEF HostInv, EntryType
  <2> QED BY <1>1, <1>2, <2>1 DEF HostInv, Requests
<1>9. Evictions'
  <2>1. /\ draining.phase = "evicting" => draining' = draining
        /\ draining'.phase = "evicting" => draining' = draining
    BY <1>1, DrainedType DEF HostInv
  <2>2. \A v \in Keys : stopping'[v] = "drain" => stopping[v] = "drain"
    BY <1>2
  <2> QED BY <1>1, <2>1, <2>2 DEF HostInv, Evictions
<1>10. Batches'
  <2>1. ASSUME NEW b \in batches'
        PROVE  /\ b # {}
               /\ b \subseteq {k \in entries : stopping'[k] = "recycleAll" /\ k \notin failed}
    <3>1. CASE b \in batches
      BY <1>2, <3>1 DEF HostInv, EntryType, Batches
    <3>2. CASE b = Idle /\ Idle # {}
      BY <1>2, <3>2 DEF HostInv, EntryType
    <3> QED BY <1>1, <2>1, <3>1, <3>2
  <2>2. ASSUME NEW k \in Keys, stopping'[k] = "recycleAll", k \notin failed
        PROVE  (\E b \in batches' : k \in b) \/ \E j \in failed : stopping'[j] = "recycleAll"
    <3>1. CASE k \in Idle
      BY <1>1, <3>1
    <3>2. CASE k \notin Idle
      <4>1. stopping[k] = "recycleAll"
        BY <1>2, <2>2, <3>2
      <4>2. \A j \in failed : stopping[j] = "recycleAll" => stopping'[j] = "recycleAll"
        BY <1>2 DEF HostInv, EntryType
      <4> QED BY <1>1, <2>2, <4>1, <4>2 DEF HostInv, Batches
    <3> QED BY <3>1, <3>2
  <2> QED BY <1>1, <2>1, <2>2 DEF Batches
<1> QED BY <1>3, <1>4, <1>5, <1>6, <1>7, <1>8, <1>9, <1>10 DEF HostInv

\* One stop of a batch succeeds: the batch awaits the others.
LEMMA RecycledStoppedKeeps ==
  ASSUME HostInv, NEW k \in Keys, recycledStopped(k)
  PROVE  HostInv'
<1>1. /\ stopping[k] = "recycleAll" /\ k \notin failed /\ Delete(k)
      /\ batches' = {b \ {k} : b \in batches} \ {{}}
      /\ draining' \in {draining, Drained(draining)}
      /\ UNCHANGED <<runVars, waiters, recycles, life>>
  BY DEF recycledStopped
<1>2. UNCHANGED <<phase, keyOf>>
  BY <1>1 DEF runVars
<1>3. /\ EntryType' /\ k \in entries
      /\ entries' = entries \ {k} /\ recycle' = recycle \ {k} /\ failed' = failed
      /\ \A j \in Keys : stopping'[j] = IF j = k THEN "no" ELSE stopping[j]
      /\ \A j \in Keys : holder'[j] = IF j = k THEN NoRun ELSE holder[j]
  BY <1>1, DeleteKeeps
<1>4. RunType' /\ Line' /\ Turns'
  BY <1>1, RunsUntouched
<1>5. Leases'
  BY <1>1, <1>2, <1>3 DEF HostInv, EntryType, Leases, stopped
<1>6. Running'
  <2> SUFFICES ASSUME NEW r \in Runs, phase[r] = "running", ~stopped
               PROVE  holder'[keyOf[r]] = r
    BY <1>1, <1>2 DEF Running, stopped
  <2>1. holder[keyOf[r]] = r /\ keyOf[r] \in Keys
    BY DEF HostInv, Running, Line
  <2>2. stopping[keyOf[r]] = "no"
    BY <2>1, RunIds DEF HostInv, Leases
  <2> QED BY <1>1, <1>3, <2>1, <2>2
<1>7. Requests'
  BY <1>3 DEF HostInv, EntryType, Requests
<1>8. Evictions'
  <2>1. /\ draining.phase = "evicting" => draining' = draining
        /\ draining'.phase = "evicting" => draining' = draining
    BY <1>1, DrainedType DEF HostInv
  <2> QED BY <1>1, <1>2, <1>3, <2>1 DEF HostInv, Evictions
<1>9. Batches'
  <2>1. ASSUME NEW b \in batches'
        PROVE  /\ b # {}
               /\ b \subseteq {j \in entries' : stopping'[j] = "recycleAll" /\ j \notin failed'}
    <3>1. PICK c \in batches : b = c \ {k} /\ b # {}
      BY <1>1, <2>1
    <3> QED BY <1>3, <3>1 DEF HostInv, EntryType, Batches
  <2>2. ASSUME NEW j \in Keys, stopping'[j] = "recycleAll", j \notin failed'
        PROVE  (\E b \in batches' : j \in b) \/ \E h \in failed' : stopping'[h] = "recycleAll"
    <3>1. j # k /\ stopping[j] = "recycleAll"
      BY <1>3, <2>2
    <3>2. CASE \E c \in batches : j \in c
      <4>1. PICK c \in batches : j \in c
        BY <3>2
      <4>2. c \ {k} \in batches' /\ j \in c \ {k}
        BY <1>1, <3>1, <4>1
      <4> QED BY <4>2
    <3>3. CASE \E h \in failed : stopping[h] = "recycleAll"
      BY <1>1, <1>3, <3>3 DEF HostInv, EntryType
    <3> QED BY <1>3, <2>2, <3>1, <3>2, <3>3 DEF HostInv, Batches
  <2> QED BY <2>1, <2>2 DEF Batches
<1> QED BY <1>3, <1>4, <1>5, <1>6, <1>7, <1>8, <1>9 DEF HostInv

\* A failed stop rejects the recycleAll that awaits it.
LEMMA StopFailedKeeps ==
  ASSUME HostInv, NEW k \in Keys, stopFailed(k)
  PROVE  HostInv'
<1>1. /\ stopping[k] \in Causes \ {"drain"} /\ k \notin failed /\ Keep(k)
      /\ batches' = {b \in batches : k \notin b}
      /\ UNCHANGED <<phase, keyOf, waiters, draining, recycles, life>>
  BY DEF stopFailed, runVars
<1>2. stopping[k] # "no"
  BY <1>1 DEF Causes
<1>3. /\ EntryType' /\ UNCHANGED <<entries, holder, usedBefore, stopping, recycle>>
      /\ failed' = failed \cup {k}
  BY <1>1, <1>2, KeepKeeps
<1>4. RunType' /\ Line' /\ Turns' /\ Running'
  BY <1>1, <1>3 DEF HostInv, RunType, Line, Turns, Running, stopped
<1>5. Leases' /\ Requests'
  BY <1>1, <1>3 DEF HostInv, Leases, Requests, stopped
<1>6. Evictions'
  BY <1>1, <1>3 DEF HostInv, Evictions
<1>7. Batches'
  BY <1>1, <1>3 DEF HostInv, Batches
<1> QED BY <1>3, <1>4, <1>5, <1>6, <1>7 DEF HostInv

-----------------------------------------------------------------------------
(* The Runs                                                                *)

\* A new Run takes the next id, so nobody after it has started.
LEMMA ExecuteKeeps ==
  ASSUME HostInv, NEW r \in Runs, executeExternalKernelRun(r)
  PROVE  HostInv'
<1>1. /\ phase[r] = "new" /\ phase' = [phase EXCEPT ![r] = "queued"]
      /\ \A q \in 1 .. r - 1 : phase[q] # "new"
      /\ UNCHANGED <<waiters, draining, entryVars, batches, recycles, life>>
  BY DEF executeExternalKernelRun
<1>2. PICK k \in Keys : keyOf' = [keyOf EXCEPT ![r] = k]
  BY DEF executeExternalKernelRun
<1>3. UNCHANGED <<entries, holder, usedBefore, stopping, failed, recycle>> /\ Idle' = Idle
  BY <1>1 DEF entryVars, Idle
<1>4. RunType'
  BY <1>1, <1>2 DEF HostInv, RunType
<1>5. EntryType' /\ Requests' /\ Batches'
  BY <1>1, <1>3 DEF HostInv, EntryType, Requests, Batches
<1>6. \A q \in Runs : q # r => phase'[q] = phase[q] /\ keyOf'[q] = keyOf[q]
  BY <1>1, <1>2 DEF HostInv, RunType
<1>7. phase'[r] = "queued" /\ keyOf'[r] = k
  BY <1>1, <1>2 DEF HostInv, RunType
<1>8. Leases'
  <2>1. ASSUME NEW j \in Keys, holder[j] # NoRun
        PROVE  keyOf'[holder[j]] = j /\ phase'[holder[j]] = "running"
    <3>1. keyOf[holder[j]] = j /\ phase[holder[j]] = "running" /\ holder[j] \in Runs
      BY <2>1 DEF HostInv, Leases, EntryType
    <3> QED BY <1>1, <1>6, <3>1
  <2> QED BY <1>1, <1>3, <2>1 DEF HostInv, Leases, stopped
<1>9. Running'
  BY <1>1, <1>3, <1>6, <1>7 DEF HostInv, Running, stopped
<1>10. \A i \in DOMAIN waiters : waiters[i] \in Runs /\ waiters[i] # r
  BY <1>1 DEF HostInv, RunType, Line
<1>11. \A p, q \in Runs : q < p /\ phase'[q] = "new" => phase'[p] = "new"
  <2> SUFFICES ASSUME NEW p \in Runs, NEW q \in Runs, q < p, phase'[q] = "new"
               PROVE  phase'[p] = "new"
    OBVIOUS
  <2>1. q # r /\ phase[q] = "new"
    BY <1>6, <1>7
  <2>2. phase[p] = "new"
    BY <2>1 DEF HostInv, Line
  <2>3. p # r
    BY <1>1, <2>1, HostAssumption DEF Runs
  <2> QED BY <1>6, <2>2, <2>3
<1>12. Line'
  BY <1>1, <1>2, <1>6, <1>7, <1>10, <1>11 DEF HostInv, Line
<1>13. Turns'
  <2> SUFFICES ASSUME NEW p \in Runs, NEW q \in Runs, q < p, keyOf'[q] = keyOf'[p],
                      phase'[p] \in {"acquiring", "running"}
               PROVE  phase'[q] = "done"
    BY DEF Turns
  <2>1. p # r /\ phase[p] = phase'[p] /\ keyOf'[p] = keyOf[p]
    BY <1>6, <1>7
  <2>2. q # r
    BY <1>1, <2>1 DEF HostInv, Line
  <2> QED BY <1>6, <2>1, <2>2 DEF HostInv, Turns
<1>14. Evictions'
  <2>1. draining.phase = "evicting" => draining.run \in Runs /\ draining.run # r
    BY <1>1, DrainType DEF HostInv, Evictions
  <2> QED BY <1>1, <1>3, <1>6, <2>1 DEF HostInv, Evictions
<1> QED BY <1>4, <1>5, <1>8, <1>9, <1>12, <1>13, <1>14 DEF HostInv

\* A Run whose turn has come joins the line, behind nobody of its conversation.
LEMMA WaitForTurnKeeps ==
  ASSUME HostInv, NEW r \in Runs, waitForTurn(r)
  PROVE  HostInv'
<1>1. /\ phase[r] = "queued" /\ HasTurn(r)
      /\ phase' = [phase EXCEPT ![r] = "acquiring"]
      /\ waiters' = Append(waiters, r)
      /\ draining' = Drained(draining)
      /\ UNCHANGED <<keyOf, entryVars, batches, recycles, life>>
  BY DEF waitForTurn
<1>2. UNCHANGED <<entries, holder, usedBefore, stopping, failed, recycle>> /\ Idle' = Idle
  BY <1>1 DEF entryVars, Idle
<1>3. /\ waiters' \in Seq(Runs)
      /\ DOMAIN waiters' = 1 .. Len(waiters) + 1 /\ Len(waiters) \in Nat
      /\ DOMAIN waiters = 1 .. Len(waiters)
      /\ \A j \in DOMAIN waiters : waiters'[j] = waiters[j]
      /\ waiters'[Len(waiters) + 1] = r
  BY <1>1, LineGrows DEF HostInv, RunType
<1>4. RunType'
  BY <1>1, <1>3, DrainedType DEF HostInv, RunType
<1>5. EntryType' /\ Requests' /\ Batches'
  BY <1>1, <1>2 DEF HostInv, EntryType, Requests, Batches
<1>6. \A q \in Runs : phase'[q] = IF q = r THEN "acquiring" ELSE phase[q]
  BY <1>1 DEF HostInv, RunType
<1>7. Leases'
  <2>1. ASSUME NEW j \in Keys, holder[j] # NoRun
        PROVE  keyOf'[holder[j]] = j /\ phase'[holder[j]] = "running"
    <3>1. keyOf[holder[j]] = j /\ phase[holder[j]] = "running" /\ holder[j] \in Runs
      BY <2>1 DEF HostInv, Leases, EntryType
    <3> QED BY <1>1, <1>6, <3>1
  <2> QED BY <1>1, <1>2, <2>1 DEF HostInv, Leases, stopped
<1>8. Running'
  BY <1>1, <1>2, <1>6 DEF HostInv, Running, stopped
<1>9. \A i \in DOMAIN waiters : waiters[i] \in Runs /\ waiters[i] # r
  BY <1>1 DEF HostInv, RunType, Line
<1>10. ASSUME NEW i \in DOMAIN waiters'
       PROVE  \/ i \in DOMAIN waiters /\ waiters'[i] = waiters[i] /\ waiters[i] # r
              \/ i = Len(waiters) + 1 /\ waiters'[i] = r
  BY <1>3, <1>9
<1>11. Line'
  <2>1. \A i \in DOMAIN waiters' : phase'[waiters'[i]] = "acquiring"
    BY <1>6, <1>9, <1>10 DEF HostInv, Line
  <2>2. \A i, j \in DOMAIN waiters' : waiters'[i] = waiters'[j] => i = j
    BY <1>10 DEF HostInv, Line
  <2> QED BY <1>1, <1>6, <2>1, <2>2 DEF HostInv, Line
<1>12. Turns'
  <2> SUFFICES ASSUME NEW p \in Runs, NEW q \in Runs, q < p, keyOf[q] = keyOf[p],
                      phase'[p] \in {"acquiring", "running"}
               PROVE  phase'[q] = "done"
    BY <1>1 DEF Turns
  <2>1. CASE p = r
    <3>1. q \in 1 .. r - 1
      BY <2>1 DEF Runs
    <3>2. phase[q] = "done"
      BY <1>1, <2>1, <3>1 DEF HasTurn
    <3> QED BY <1>1, <1>6, <3>2
  <2>2. CASE p # r
    <3>1. phase[q] = "done"
      BY <1>6, <2>2 DEF HostInv, Turns
    <3> QED BY <1>1, <1>6, <3>1
  <2> QED BY <2>1, <2>2
<1>13. Evictions'
  <2>1. /\ draining.phase = "evicting" => draining' = draining
        /\ draining'.phase = "evicting" => draining' = draining
    BY <1>1, DrainedType DEF HostInv
  <2>2. draining.phase = "evicting" => draining.run \in Runs /\ draining.run # r
    BY <1>1, DrainType DEF HostInv, Evictions
  <2> QED BY <1>1, <1>2, <1>6, <1>10, <2>1, <2>2 DEF HostInv, Evictions
<1> QED BY <1>4, <1>5, <1>7, <1>8, <1>11, <1>12, <1>13 DEF HostInv

\* A turn ends: its process becomes idle, is stopped as it was asked to be, or is
\* already on its way out with the host.
LEMMA EndTurnKeeps ==
  ASSUME HostInv, NEW r \in Runs, endTurn(r)
  PROVE  HostInv'
<1> DEFINE k == keyOf[r]
<1>1. /\ phase[r] = "running" /\ Release(r) /\ phase' = [phase EXCEPT ![r] = "done"]
      /\ UNCHANGED <<keyOf, waiters, batches, recycles, life>>
  BY DEF endTurn
<1>2. k \in Keys
  BY <1>1 DEF HostInv, Line
<1>3. \A q \in Runs : phase'[q] = IF q = r THEN "done" ELSE phase[q]
  BY <1>1 DEF HostInv, RunType
<1>4. Line'
  BY <1>1, <1>3 DEF HostInv, RunType, Line
<1>5. Turns'
  BY <1>1, <1>3 DEF HostInv, Turns
<1>6. draining' \in {draining, Drained(draining)} /\ UNCHANGED <<entries, failed, recycle>>
  BY <1>1 DEF Release, entryVars
<1>7. RunType'
  BY <1>1, <1>6, DrainedType DEF HostInv, RunType
<1>8. CASE holder[k] # r
  <2>1. UNCHANGED <<entries, holder, usedBefore, stopping, failed, recycle>> /\ Idle' = Idle
    BY <1>1, <1>8 DEF Release, entryVars, Idle
  <2>2. draining' = draining
    BY <1>1, <1>8 DEF Release
  <2>3. EntryType' /\ Requests' /\ Batches'
    BY <1>1, <2>1 DEF HostInv, EntryType, Requests, Batches
  <2>4. \A j \in Keys : holder[j] # r
    BY <1>8, RunIds DEF HostInv, Leases
  <2>5. Leases'
    BY <1>1, <1>3, <2>1, <2>4 DEF HostInv, EntryType, Leases, stopped
  <2>6. Running'
    BY <1>1, <1>3, <2>1 DEF HostInv, Running, stopped
  <2>7. Evictions'
    BY <1>1, <1>3, <2>1, <2>2, DrainType DEF HostInv, Evictions
  <2> QED BY <1>4, <1>5, <1>7, <2>3, <2>5, <2>6, <2>7 DEF HostInv
<1>9. CASE holder[k] = r
  <2>1. /\ holder' = [holder EXCEPT ![k] = NoRun]
        /\ IF k \in recycle
             THEN stopEntry({k}, "release") /\ UNCHANGED draining
             ELSE /\ usedBefore' = IF stopping[k] = "no" THEN Touched(k) ELSE usedBefore
                  /\ UNCHANGED stopping
    BY <1>1, <1>9 DEF Release
  <2>2. \A j \in Keys : holder'[j] = IF j = k THEN NoRun ELSE holder[j]
    BY <2>1 DEF HostInv, EntryType
  <2>3. k \in entries /\ stopping[k] \in {"no", "stopAll"} /\ k \notin Idle
    BY <1>2, <1>9, RunIds DEF HostInv, Leases, EntryType, Idle
  <2>4. \A j \in Keys : stopping'[j] =
          IF j = k /\ k \in recycle /\ stopping[k] = "no" THEN "release" ELSE stopping[j]
    BY <2>1 DEF stopEntry, HostInv, EntryType
  <2>5. stopping' \in [Keys -> Causes \cup {"no"}]
    <3>1. CASE k \in recycle
      BY <2>1, <3>1 DEF stopEntry, HostInv, EntryType, Causes
    <3>2. CASE k \notin recycle
      BY <2>1, <3>2 DEF HostInv, EntryType
    <3> QED BY <3>1, <3>2
  <2>6. Idle' = IF k \notin recycle /\ stopping[k] = "no" THEN Idle \cup {k} ELSE Idle
    BY <1>2, <1>6, <2>2, <2>3, <2>4 DEF Idle, HostInv, EntryType
  <2>7. usedBefore' \subseteq Idle' \X Idle'
    <3>1. CASE k \in recycle
      BY <2>1, <2>6, <3>1 DEF stopEntry, Untouched, HostInv, EntryType
    <3>2. CASE k \notin recycle
      BY <2>1, <2>6, <3>2 DEF Touched, HostInv, EntryType
    <3> QED BY <3>1, <3>2
  <2>8. EntryType'
    <3>1. failed' \subseteq {j \in entries' : stopping'[j] # "no"}
      BY <1>6, <2>4 DEF HostInv, EntryType
    <3>2. holder' \in [Keys -> Runs \cup {NoRun}]
      BY <2>1 DEF HostInv, EntryType
    <3> QED BY <1>6, <2>5, <2>7, <3>1, <3>2 DEF HostInv, EntryType
  <2>9. Leases'
    <3>1. ASSUME NEW j \in Keys, holder'[j] # NoRun
          PROVE  keyOf'[holder'[j]] = j /\ phase'[holder'[j]] = "running"
      <4>1. j # k /\ holder'[j] = holder[j] /\ holder[j] \in Runs
        BY <2>2, <3>1 DEF HostInv, EntryType
      <4>2. keyOf[holder[j]] = j /\ phase[holder[j]] = "running"
        BY <3>1, <4>1 DEF HostInv, Leases
      <4> QED BY <1>1, <1>3, <4>1, <4>2
    <3> QED BY <1>1, <1>2, <1>6, <2>2, <2>3, <2>4, <3>1
        DEF HostInv, EntryType, Leases, stopped
  <2>10. Requests'
    <3> SUFFICES ASSUME NEW j \in recycle
                 PROVE  holder'[j] # NoRun \/ stopping'[j] \in {"release", "stopAll"}
      BY <1>6 DEF Requests
    <3>1. j \in Keys
      BY DEF HostInv, EntryType
    <3> QED BY <2>2, <2>3, <2>4, <3>1 DEF HostInv, Requests
  <2>11. Running'
    <3> SUFFICES ASSUME NEW q \in Runs, phase'[q] = "running", ~stopped
                 PROVE  holder'[keyOf[q]] = q
      BY <1>1 DEF Running, stopped
    <3>1. q # r /\ holder[keyOf[q]] = q /\ keyOf[q] \in Keys
      BY <1>3 DEF HostInv, Running, Line
    <3> QED BY <1>9, <2>2, <3>1
  <2>12. Evictions'
    <3>1. /\ draining.phase = "evicting" => draining' = draining
          /\ draining'.phase = "evicting" => draining' = draining
      BY <1>6, DrainedType DEF HostInv
    <3>2. draining.phase = "evicting" => draining.run \in Runs
      BY DrainType DEF HostInv
    <3>3. \A v \in Keys : stopping'[v] = "drain" => stopping[v] = "drain"
      BY <2>4
    <3> QED BY <1>1, <1>3, <1>6, <3>1, <3>2, <3>3 DEF HostInv, Evictions
  <2>13. Batches'
    <3>1. \A v \in Keys : stopping'[v] = "recycleAll" <=> stopping[v] = "recycleAll"
      BY <2>3, <2>4
    <3> QED BY <1>1, <1>6, <3>1 DEF HostInv, EntryType, Batches
  <2> QED BY <1>4, <1>5, <1>7, <2>8, <2>9, <2>10, <2>11, <2>12, <2>13 DEF HostInv
<1> QED BY <1>8, <1>9

\* Aborting Runs that wait, in a line that keeps only Runs that are not aborted.
LEMMA AbortKeeps ==
  ASSUME HostInv, NEW rs, phase' = Aborted(rs),
         waiters' \in Seq(Runs),
         \A i \in DOMAIN waiters' : \E h \in DOMAIN waiters :
           waiters'[i] = waiters[h] /\ waiters[h] \notin rs,
         \A i, j \in DOMAIN waiters' : waiters'[i] = waiters'[j] => i = j,
         UNCHANGED <<keyOf, draining, entries, holder, failed, recycle, batches, recycles>>
  PROVE  /\ phase' \in [Runs -> {"new", "queued", "acquiring", "running", "done"}]
         /\ \A r \in Runs : phase[r] = "running" <=> phase'[r] = "running"
         /\ Line' /\ Turns'
         /\ draining.phase = "evicting" =>
              /\ phase'[draining.run] \in {"acquiring", "done"}
              /\ \A i \in DOMAIN waiters' : waiters'[i] # draining.run
<1>1. /\ phase' \in [Runs -> {"new", "queued", "acquiring", "running", "done"}]
      /\ \A r \in Runs : phase'[r] =
           IF r \in rs /\ phase[r] \in {"queued", "acquiring"} THEN "done" ELSE phase[r]
  BY DEF Aborted, HostInv, RunType
<1>2. \A h \in DOMAIN waiters : waiters[h] \in Runs /\ phase[waiters[h]] = "acquiring"
  BY DEF HostInv, RunType, Line
<1>3. Line'
  BY <1>1, <1>2 DEF HostInv, Line
<1>4. Turns'
  BY <1>1 DEF HostInv, Turns
<1>5. draining.phase = "evicting" =>
        /\ phase'[draining.run] \in {"acquiring", "done"}
        /\ \A i \in DOMAIN waiters' : waiters'[i] # draining.run
  BY <1>1, DrainType DEF HostInv, Evictions
<1> QED BY <1>1, <1>3, <1>4, <1>5

\* The host does not notice: it serves a Run that is done, and releases at once.
LEMMA AbortRunsKeeps ==
  ASSUME HostInv, abortRuns \/ \E r \in Runs : cancelRun(r)
  PROVE  HostInv'
<1>1. /\ UNCHANGED <<keyOf, draining, entryVars, batches, recycles>>
      /\ life' = life \/ (life = "closing" /\ life' = "aborted")
  BY DEF abortRuns, cancelRun
<1>2. UNCHANGED <<entries, holder, usedBefore, stopping, failed, recycle>> /\ Idle' = Idle
  BY <1>1 DEF entryVars, Idle
<1>3. \E rs : /\ phase' = Aborted(rs) /\ waiters' \in Seq(Runs)
              /\ \A i \in DOMAIN waiters' : \E h \in DOMAIN waiters :
                   waiters'[i] = waiters[h] /\ waiters[h] \notin rs
              /\ \A i, j \in DOMAIN waiters' : waiters'[i] = waiters'[j] => i = j
  <2>1. CASE abortRuns
    <3>1. phase' = Aborted(Active) /\ waiters' = <<>>
      BY <2>1 DEF abortRuns
    <3>2. waiters' \in Seq(Runs) /\ DOMAIN waiters' = {}
      BY <3>1
    <3> QED BY <3>1, <3>2
  <2>2. ASSUME NEW r \in Runs, cancelRun(r)
        PROVE  /\ phase' = Aborted({r}) /\ waiters' \in Seq(Runs)
               /\ \A i \in DOMAIN waiters' : \E h \in DOMAIN waiters :
                    waiters'[i] = waiters[h] /\ waiters[h] \notin {r}
               /\ \A i, j \in DOMAIN waiters' : waiters'[i] = waiters'[j] => i = j
    <3>1. phase' = Aborted({r})
      BY <2>2 DEF cancelRun
    <3>2. ASSUME NEW i \in DOMAIN waiters, waiters[i] = r, waiters' = RemoveAt(waiters, i)
          PROVE  /\ waiters' \in Seq(Runs)
                 /\ \A j \in DOMAIN waiters' : \E h \in DOMAIN waiters :
                      waiters'[j] = waiters[h] /\ waiters[h] # waiters[i]
                 /\ \A j, h \in DOMAIN waiters' : waiters'[j] = waiters'[h] => j = h
      BY <3>2, LineShrinks DEF HostInv, RunType, Line
    <3>3. CASE UNCHANGED waiters /\ \A i \in DOMAIN waiters : waiters[i] # r
      BY <3>1, <3>3 DEF HostInv, RunType, Line
    <3> QED BY <2>2, <3>1, <3>2, <3>3 DEF cancelRun
  <2>3. CASE \E r \in Runs : cancelRun(r)
    <3>1. PICK r \in Runs : cancelRun(r)
      BY <2>3
    <3> QED BY <2>2, <3>1
  <2> QED BY <2>1, <2>3
<1>4. PICK rs : /\ phase' = Aborted(rs) /\ waiters' \in Seq(Runs)
                /\ \A i \in DOMAIN waiters' : \E h \in DOMAIN waiters :
                     waiters'[i] = waiters[h] /\ waiters[h] \notin rs
                /\ \A i, j \in DOMAIN waiters' : waiters'[i] = waiters'[j] => i = j
  BY <1>3
<1>5. /\ phase' \in [Runs -> {"new", "queued", "acquiring", "running", "done"}]
      /\ \A r \in Runs : phase[r] = "running" <=> phase'[r] = "running"
      /\ Line' /\ Turns'
      /\ draining.phase = "evicting" =>
           /\ phase'[draining.run] \in {"acquiring", "done"}
           /\ \A i \in DOMAIN waiters' : waiters'[i] # draining.run
  BY <1>1, <1>2, <1>4, AbortKeeps
<1>6. stopped' <=> stopped
  BY <1>1 DEF stopped
<1>7. RunType'
  BY <1>1, <1>4, <1>5 DEF HostInv, RunType
<1>8. EntryType' /\ Requests' /\ Batches'
  BY <1>1, <1>2 DEF HostInv, EntryType, Requests, Batches
<1>9. Leases'
  BY <1>1, <1>2, <1>5, <1>6 DEF HostInv, EntryType, Leases
<1>10. Running'
  BY <1>1, <1>2, <1>5, <1>6 DEF HostInv, Running
<1>11. Evictions'
  BY <1>1, <1>2, <1>5 DEF HostInv, Evictions
<1> QED BY <1>5, <1>7, <1>8, <1>9, <1>10, <1>11 DEF HostInv

\* stopAll begins the stop of every process that is not being stopped yet, leased
\* ones too, and rejects the waiters.
LEMMA StopAllKeeps ==
  ASSUME HostInv, stopAll
  PROVE  HostInv'
<1> DEFINE rs == ToSet(waiters)
<1>1. /\ life = "aborted" /\ life' = "stopped" /\ phase' = Aborted(rs) /\ waiters' = <<>>
      /\ stopEntry(entries, "stopAll")
      /\ UNCHANGED <<keyOf, draining, entries, holder, failed, recycle, batches, recycles>>
  BY DEF stopAll
<1>2. waiters' \in Seq(Runs) /\ DOMAIN waiters' = {}
  BY <1>1
<1> HIDE DEF rs
<1>3. /\ phase' \in [Runs -> {"new", "queued", "acquiring", "running", "done"}]
      /\ \A r \in Runs : phase[r] = "running" <=> phase'[r] = "running"
      /\ Line' /\ Turns'
      /\ draining.phase = "evicting" =>
           /\ phase'[draining.run] \in {"acquiring", "done"}
           /\ \A i \in DOMAIN waiters' : waiters'[i] # draining.run
  BY <1>1, <1>2, AbortKeeps
<1>4. /\ stopping' \in [Keys -> Causes \cup {"no"}]
      /\ \A k \in Keys : stopping'[k] =
           IF k \in entries /\ stopping[k] = "no" THEN "stopAll" ELSE stopping[k]
  BY <1>1 DEF stopEntry, HostInv, EntryType, Causes
<1>5. stopped' /\ ~stopped
  BY <1>1 DEF stopped
<1>6. usedBefore' = {}
  BY <1>1 DEF stopEntry, Untouched, Idle, HostInv, EntryType
<1>7. RunType'
  BY <1>1, <1>2, <1>3 DEF HostInv, RunType
<1>8. EntryType'
  BY <1>1, <1>4, <1>6 DEF HostInv, EntryType
<1>9. Leases'
  BY <1>1, <1>3, <1>4, <1>5 DEF HostInv, EntryType, Leases
<1>10. Requests'
  <2> SUFFICES ASSUME NEW j \in recycle
               PROVE  holder[j] # NoRun \/ stopping'[j] \in {"release", "stopAll"}
    BY <1>1 DEF Requests
  <2> QED BY <1>4 DEF HostInv, EntryType, Requests
<1>11. Running'
  BY <1>5 DEF Running
<1>12. Evictions'
  <2>1. \A v \in Keys : stopping'[v] = "drain" => stopping[v] = "drain"
    BY <1>4
  <2> QED BY <1>1, <1>3, <2>1 DEF HostInv, Evictions
<1>13. Batches'
  <2>1. \A v \in Keys : stopping'[v] = "recycleAll" <=> stopping[v] = "recycleAll"
    BY <1>4
  <2> QED BY <1>1, <2>1 DEF HostInv, EntryType, Batches
<1> QED BY <1>3, <1>7, <1>8, <1>9, <1>10, <1>11, <1>12, <1>13 DEF HostInv

\* The steps of stop that only move it on, and stuttering.
LEMMA LifeKeeps ==
  ASSUME HostInv, stop \/ stopSettles \/ UNCHANGED vars
  PROVE  HostInv'
<1>1. /\ UNCHANGED <<phase, keyOf, waiters, draining, entries, holder, usedBefore, stopping,
                     failed, recycle, batches, recycles>>
      /\ stopped' <=> stopped
      /\ life' \in {"up", "closing", "aborted", "stopped", "over", "threw"}
  BY DEF HostInv, RunType, stop, stopSettles, vars, runVars, entryVars, stopped
<1>2. Idle' = Idle
  BY <1>1 DEF Idle
<1>3. RunType' /\ EntryType' /\ Leases' /\ Running'
  BY <1>1, <1>2 DEF HostInv, RunType, EntryType, Leases, Running
<1>4. Requests' /\ Line' /\ Turns' /\ Evictions' /\ Batches'
  BY <1>1 DEF HostInv, Requests, Line, Turns, Evictions, Batches
<1> QED BY <1>3, <1>4 DEF HostInv

-----------------------------------------------------------------------------
(* The host keeps its invariant                                            *)

\* One case per action.
LEMMA NextHost == HostInv /\ [Next]_vars => HostInv'
<1> SUFFICES ASSUME HostInv, [Next]_vars PROVE HostInv'
  OBVIOUS
<1>1. CASE fulfill
  BY <1>1, FulfillKeeps
<1>2. CASE evictOldest
  BY <1>2, EvictOldestKeeps
<1>3. CASE drainEnds
  BY <1>3, DrainEndsKeeps
<1>4. CASE recycleAll
  BY <1>4, RecycleAllKeeps
<1>5. ASSUME NEW k \in Keys,
             \/ victimStopped(k) \/ victimFailed(k) \/ evictIdle(k) \/ entryStopped(k)
             \/ recycledStopped(k) \/ stopFailed(k) \/ stoppedByAll(k)
      PROVE  HostInv'
  BY <1>5, VictimStoppedKeeps, VictimFailedKeeps, EvictIdleKeeps, EntryStoppedKeeps,
     RecycledStoppedKeeps, StopFailedKeeps
<1>6. ASSUME NEW r \in Runs,
             executeExternalKernelRun(r) \/ waitForTurn(r) \/ endTurn(r) \/ cancelRun(r)
      PROVE  HostInv'
  BY <1>6, ExecuteKeeps, WaitForTurnKeeps, EndTurnKeeps, AbortRunsKeeps
<1>7. CASE abortRuns
  BY <1>7, AbortRunsKeeps
<1>8. CASE stopAll
  BY <1>8, StopAllKeeps
<1>9. CASE stop \/ stopSettles \/ UNCHANGED vars
  BY <1>9, LifeKeeps
<1> QED BY <1>1, <1>2, <1>3, <1>4, <1>5, <1>6, <1>7, <1>8, <1>9 DEF Next

\* The invariant of the host.
THEOREM HostIsSound == Spec => []HostInv
BY InitHost, NextHost, PTL DEF Spec

\* Runs, line, drain and entries are of their types: the state the host is modelled
\* with is the state it keeps.
THEOREM HostTypeCorrect == Spec => []TypeOK
<1>1. HostInv => TypeOK
  BY DEF HostInv, RunType, EntryType, Batches, TypeOK
<1> QED BY <1>1, HostIsSound, PTL

\* Two Runs of one conversation are never both acquiring or running: the later one
\* awaits the tails of all the earlier ones, whoever left the line in between.
THEOREM TurnsExclude == Spec => []OneTurnPerConversation
<1>1. HostInv => OneTurnPerConversation
  <2> SUFFICES ASSUME HostInv, NEW r \in Runs, NEW q \in Runs, keyOf[r] = keyOf[q],
                      {phase[r], phase[q]} \subseteq {"acquiring", "running"}
               PROVE  r = q
    BY DEF OneTurnPerConversation
  <2>1. ~(q < r) /\ ~(r < q)
    BY DEF HostInv, Turns
  <2> QED BY <2>1, HostAssumption DEF Runs
<1> QED BY <1>1, HostIsSound, PTL

\* A running turn holds the process of its conversation, and nobody but the shutdown
\* stops it: not an eviction, a recycle or an idle timeout.
THEOREM LeasesProtectTurns == Spec => []TurnKeepsItsProcess
<1>1. HostInv => TurnKeepsItsProcess
  <2> SUFFICES ASSUME HostInv, NEW r \in Runs, phase[r] = "running", ~stopped
               PROVE  holder[keyOf[r]] = r /\ stopping[keyOf[r]] = "no"
    BY DEF TurnKeepsItsProcess
  <2>1. holder[keyOf[r]] = r /\ keyOf[r] \in Keys
    BY DEF HostInv, Running, Line
  <2> QED BY <2>1, RunIds DEF HostInv, Leases
<1> QED BY <1>1, HostIsSound, PTL

-----------------------------------------------------------------------------
(* Capacity                                                                *)

\* No step adds a process except where there is room, or in the place of another
\* that has stopped.
LEMMA EntriesStep ==
  ASSUME HostInv, [Next]_vars
  PROVE  \/ entries' \subseteq entries
         \/ Cardinality(entries) < MaxEntries /\ \E k \in Keys : entries' = entries \cup {k}
         \/ \E v \in entries, k \in Keys : entries' = (entries \ {v}) \cup {k}
<1>1. CASE fulfill
  <2>1. PICK i \in DOMAIN waiters :
          /\ keyOf[waiters[i]] \in entries \/ Cardinality(entries) < MaxEntries
          /\ entries' = entries \cup {keyOf[waiters[i]]}
    BY <1>1 DEF fulfill
  <2>2. keyOf[waiters[i]] \in Keys
    BY DEF HostInv, RunType, Line
  <2> QED BY <2>1, <2>2
<1>2. ASSUME NEW v \in Keys, victimStopped(v)
      PROVE  \/ entries' \subseteq entries
             \/ \E w \in entries, k \in Keys : entries' = (entries \ {w}) \cup {k}
  <2>1. v \in entries /\ draining.phase = "evicting" /\ keyOf[draining.run] \in Keys
    BY <1>2 DEF victimStopped, HostInv, Leases, Evictions
  <2> QED BY <1>2, <2>1 DEF victimStopped, Delete
<1>3. ASSUME NEW k \in Keys,
             \/ victimFailed(k) \/ evictIdle(k) \/ entryStopped(k)
             \/ recycledStopped(k) \/ stopFailed(k) \/ stoppedByAll(k)
      PROVE  entries' \subseteq entries
  BY <1>3 DEF victimFailed, evictIdle, entryStopped, recycledStopped, stopFailed, stoppedByAll,
              Delete, Keep
<1>4. ASSUME NEW r \in Runs,
             executeExternalKernelRun(r) \/ waitForTurn(r) \/ endTurn(r) \/ cancelRun(r)
      PROVE  entries' = entries
  BY <1>4 DEF executeExternalKernelRun, waitForTurn, endTurn, cancelRun, Release, entryVars
<1>5. CASE \/ evictOldest \/ drainEnds \/ recycleAll \/ stop \/ abortRuns \/ stopAll
           \/ stopSettles \/ UNCHANGED vars
  BY <1>5 DEF evictOldest, drainEnds, recycleAll, stop, abortRuns, stopAll, stopSettles, vars,
              entryVars
<1> QED BY <1>1, <1>2, <1>3, <1>4, <1>5 DEF Next

\* Entries whose stop failed are still entries, and count.
THEOREM HostStaysWithinCapacity == Spec => []WithinCapacity
<1> DEFINE Fits == Cardinality(entries) <= MaxEntries
<1>1. Init => Fits
  BY FS_EmptySet, HostAssumption DEF Init
<1>2. HostInv => IsFiniteSet(entries) /\ Cardinality(entries) \in Nat
  BY HostAssumption, FS_Subset, FS_CardinalityType DEF HostInv, EntryType
<1>3. HostInv /\ Fits /\ [Next]_vars => Fits'
  <2> SUFFICES ASSUME HostInv, Fits, [Next]_vars
               PROVE  Cardinality(entries') <= MaxEntries
    OBVIOUS
  <2>1. IsFiniteSet(entries) /\ Cardinality(entries) \in Nat /\ MaxEntries \in Nat
    BY <1>2, HostAssumption
  <2>2. CASE entries' \subseteq entries
    <3>1. IsFiniteSet(entries') /\ Cardinality(entries') <= Cardinality(entries)
          /\ Cardinality(entries') \in Nat
      BY <2>1, <2>2, FS_Subset, FS_CardinalityType
    <3> QED BY <2>1, <3>1
  <2>3. ASSUME NEW k \in Keys, Cardinality(entries) < MaxEntries, entries' = entries \cup {k}
        PROVE  Cardinality(entries') <= MaxEntries
    <3>1. Cardinality(entries') \in {Cardinality(entries), Cardinality(entries) + 1}
      BY <2>1, <2>3, FS_AddElement
    <3> QED BY <2>1, <2>3, <3>1
  <2>4. ASSUME NEW v \in entries, NEW k \in Keys, entries' = (entries \ {v}) \cup {k}
        PROVE  Cardinality(entries') <= MaxEntries
    <3> DEFINE rest == entries \ {v}
    <3>1. IsFiniteSet(rest) /\ Cardinality(rest) = Cardinality(entries) - 1
      BY <2>1, <2>4, FS_RemoveElement
    <3> HIDE DEF rest
    <3>2. Cardinality(rest \cup {k}) \in {Cardinality(rest), Cardinality(rest) + 1}
      BY <3>1, FS_AddElement
    <3>3. entries' = rest \cup {k}
      BY <2>4 DEF rest
    <3> QED BY <2>1, <3>1, <3>2, <3>3
  <2> QED BY <2>2, <2>3, <2>4, EntriesStep
<1>4. HostInv /\ Fits => WithinCapacity
  <2> SUFFICES ASSUME HostInv, Fits PROVE WithinCapacity
    OBVIOUS
  <2>1. entries \cup failed = entries
    BY DEF HostInv, EntryType
  <2> QED BY <2>1 DEF WithinCapacity
<1> QED BY <1>1, <1>3, <1>4, HostIsSound, PTL DEF Spec

-----------------------------------------------------------------------------
(* Shutdown                                                                *)

\* When stop returns without an error every stop has settled and none has failed, so
\* no process is left; and no later step of anyone can bring one back.
THEOREM ShutdownIsComplete == Spec => []NothingOutlivesStop
<1>1. Init => NothingOutlivesStop
  BY DEF Init, NothingOutlivesStop
<1>2. HostInv /\ NothingOutlivesStop /\ [Next]_vars => NothingOutlivesStop'
  <2> SUFFICES ASSUME HostInv, NothingOutlivesStop, [Next]_vars, life' = "over"
               PROVE  entries' = {} /\ Active' = {} /\ waiters' = <<>>
    BY DEF NothingOutlivesStop
  <2>1. CASE life = "over"
    <3>1. entries = {} /\ Active = {} /\ waiters = <<>> /\ stopped
      BY <2>1 DEF NothingOutlivesStop, stopped
    <3>2. \A k \in Keys : stopping[k] = "no"
      BY <3>1 DEF HostInv, Leases
    <3>3. \A r \in Runs : phase[r] \in {"new", "done"}
      BY <3>1 DEF Active
    <3>4. ASSUME NEW k \in Keys
          PROVE  ~(\/ victimStopped(k) \/ victimFailed(k) \/ evictIdle(k) \/ entryStopped(k)
                   \/ recycledStopped(k) \/ stopFailed(k) \/ stoppedByAll(k))
      BY <3>1, <3>2 DEF victimStopped, victimFailed, evictIdle, entryStopped, recycledStopped,
                        stopFailed, stoppedByAll, Causes
    <3>5. ASSUME NEW r \in Runs
          PROVE  ~(\/ executeExternalKernelRun(r) \/ waitForTurn(r) \/ endTurn(r)
                   \/ cancelRun(r))
      BY <2>1, <3>3 DEF executeExternalKernelRun, waitForTurn, endTurn, cancelRun
    <3>6. ~(\/ fulfill \/ evictOldest \/ recycleAll \/ stop \/ abortRuns \/ stopAll
            \/ stopSettles)
      BY <2>1, <3>1 DEF fulfill, evictOldest, recycleAll, stop, abortRuns, stopAll, stopSettles
    <3>7. UNCHANGED <<phase, entries, waiters>>
      BY <3>4, <3>5, <3>6 DEF Next, drainEnds, vars, runVars, entryVars
    <3> QED BY <3>1, <3>7 DEF Active
  <2>2. CASE life # "over"
    <3>1. stopSettles
      BY <2>2 DEF Next, fulfill, evictOldest, drainEnds, recycleAll, victimStopped, victimFailed,
                  evictIdle, entryStopped, recycledStopped, stopFailed, stoppedByAll,
                  executeExternalKernelRun, waitForTurn, endTurn, cancelRun, stop, abortRuns,
                  stopAll, vars
    <3>2. /\ failed = {} /\ Active = {} /\ stopped
          /\ \A k \in entries : stopping[k] # "no" => k \in failed
          /\ UNCHANGED <<phase, entries, waiters>>
      BY <3>1 DEF stopSettles, runVars, entryVars, stopped
    <3>3. entries = {}
      BY <3>2 DEF HostInv, Leases
    <3>4. DOMAIN waiters = {}
      BY <3>2 DEF HostInv, RunType, Line, Active
    <3>5. waiters = <<>>
      BY <3>4 DEF HostInv, RunType
    <3> QED BY <3>2, <3>3, <3>5 DEF Active
  <2> QED BY <2>1, <2>2
<1> QED BY <1>1, <1>2, HostIsSound, PTL DEF Spec

-----------------------------------------------------------------------------
(* Wake-ups                                                                *)

\* A set of natural numbers has a least one.
LEMMA LeastNatural ==
  ASSUME NEW T \in SUBSET Nat, T # {}
  PROVE  \E m \in T : \A n \in T : ~(n < m)
<1> DEFINE less == OpToRel(<, Nat)
<1>1. IsWellFoundedOn(less, Nat)
  BY NatLessThanWellFounded
<1>2. \A m, n \in Nat : n < m => <<n, m>> \in less
  BY DEF OpToRel
<1> HIDE DEF less
<1>3. \E m \in T : \A n \in T : ~(<<n, m>> \in less)
  BY <1>1, WFMin
<1> QED BY <1>2, <1>3

\* When the loop finds nobody to serve, nobody can be: the first that could be served
\* would have been found.
LEMMA NobodyServed ==
  ASSUME HostInv, \A i \in DOMAIN waiters : ~Served(i)
  PROVE  \A i \in DOMAIN waiters : ~canAcquire(keyOf[waiters[i]])
<1> DEFINE able == {i \in DOMAIN waiters : canAcquire(keyOf[waiters[i]])}
<1>1. DOMAIN waiters = 1 .. Len(waiters) /\ Len(waiters) \in Nat
  BY DEF HostInv, RunType
<1>2. able \in SUBSET Nat
  BY <1>1
<1>3. ASSUME able # {} PROVE FALSE
  <2> HIDE DEF able
  <2>1. PICK m \in able : \A n \in able : ~(n < m)
    BY <1>2, <1>3, LeastNatural
  <2>2. m \in DOMAIN waiters /\ canAcquire(keyOf[waiters[m]])
    BY <2>1 DEF able
  <2>3. \A j \in 1 .. m - 1 : j \in DOMAIN waiters /\ j < m
    BY <1>1, <2>2
  <2>4. \A j \in 1 .. m - 1 : ~canAcquire(keyOf[waiters[j]])
    BY <2>1, <2>3 DEF able
  <2> QED BY <2>2, <2>4 DEF Served
<1> QED BY <1>3

\* A step that frees no place and brings no new waiter leaves nobody behind who was
\* not already waited for.
LEMMA StillAwaited ==
  ASSUME HostInv, NoLostWakeup, entries' = entries, Idle' \subseteq Idle,
         stopped => stopped',
         \A i \in DOMAIN waiters' : \E h \in DOMAIN waiters :
           keyOf'[waiters'[i]] = keyOf[waiters[h]],
         draining' = draining, batches' = batches, failed \subseteq failed',
         \A j \in failed : stopping'[j] = stopping[j]
  PROVE  NoLostWakeup'
<1> SUFFICES ASSUME NEW i \in DOMAIN waiters', canAcquire(keyOf[waiters[i]])', ~stopped'
             PROVE  \/ draining.phase # "no" \/ batches # {}
                    \/ \E k \in failed : stopping[k] = "recycleAll"
  BY DEF NoLostWakeup
<1>1. PICK h \in DOMAIN waiters : keyOf'[waiters'[i]] = keyOf[waiters[h]]
  OBVIOUS
<1>2. canAcquire(keyOf[waiters[h]])
  BY <1>1 DEF canAcquire
<1> QED BY <1>2 DEF NoLostWakeup

\* A step that is followed by a drain leaves nobody behind.
LEMMA Awaited ==
  ASSUME ~stopped' => \/ draining'.phase # "no" \/ batches' # {}
                      \/ \E k \in failed' : stopping'[k] = "recycleAll"
  PROVE  NoLostWakeup'
BY DEF NoLostWakeup

\* The steps of the drain and of the stops it awaits.
LEMMA DrainWakes ==
  ASSUME HostInv, NoLostWakeup,
         \/ fulfill \/ evictOldest \/ drainEnds
         \/ \E v \in Keys : victimStopped(v) \/ victimFailed(v)
  PROVE  NoLostWakeup'
<1>1. CASE fulfill \/ evictOldest \/ \E v \in Keys : victimStopped(v) \/ victimFailed(v)
  <2>1. CASE fulfill
    BY <2>1, Awaited DEF fulfill
  <2>2. CASE evictOldest
    <3>1. \E r : draining' = [phase |-> "evicting", run |-> r]
      BY <2>2 DEF evictOldest
    <3> QED BY <3>1, Awaited
  <2>3. CASE \E v \in Keys : victimStopped(v) \/ victimFailed(v)
    <3>1. draining' = [phase |-> "loop", run |-> NoRun]
      BY <2>3 DEF victimStopped, victimFailed
    <3> QED BY <3>1, Awaited
  <2> QED BY <1>1, <2>1, <2>2, <2>3
<1>2. CASE drainEnds /\ stopped
  <2>1. stopped'
    BY <1>2 DEF drainEnds, stopped
  <2> QED BY <2>1, Awaited
<1>3. CASE drainEnds /\ ~stopped
  <2>1. /\ \A i \in DOMAIN waiters : ~Served(i)
        /\ UNCHANGED <<keyOf, waiters, entries, holder, stopping>>
    BY <1>3 DEF drainEnds, runVars, entryVars
  <2>2. \A i \in DOMAIN waiters : ~canAcquire(keyOf[waiters[i]])
    BY <2>1, NobodyServed
  <2>3. \A i \in DOMAIN waiters' : ~canAcquire(keyOf[waiters[i]])'
    BY <2>1, <2>2 DEF canAcquire, Idle
  <2> QED BY <2>3 DEF NoLostWakeup
<1> QED BY <1>1, <1>2, <1>3

\* Recycling: a stop of a batch that others still await, that was rejected before, or
\* that ends it and drains.
LEMMA RecycleWakes ==
  ASSUME HostInv, NoLostWakeup,
         recycleAll \/ \E k \in Keys : recycledStopped(k) \/ stopFailed(k)
  PROVE  NoLostWakeup'
<1>1. CASE recycleAll
  <2>1. batches' # {} \/ draining' = Drained(draining)
    BY <1>1 DEF recycleAll
  <2>2. ~stopped
    BY <1>1 DEF recycleAll
  <2>3. batches' # {} \/ draining'.phase # "no"
    BY <2>1, <2>2, DrainedType DEF HostInv
  <2> QED BY <2>3, Awaited
<1>2. ASSUME NEW k \in Keys, recycledStopped(k) PROVE NoLostWakeup'
  <2>1. /\ stopping[k] = "recycleAll" /\ k \notin failed /\ Delete(k) /\ life' = life
        /\ batches' = {b \ {k} : b \in batches} \ {{}}
        /\ draining' = IF {k} \in batches THEN Drained(draining) ELSE draining
    BY <1>2 DEF recycledStopped
  <2>2. failed' = failed /\ \A j \in Keys : stopping'[j] = IF j = k THEN "no" ELSE stopping[j]
    BY <2>1, DeleteKeeps
  <2>3. CASE {k} \in batches
    <3>1. ~stopped' => draining'.phase # "no"
      BY <2>1, <2>3, DrainedType DEF HostInv, stopped
    <3> QED BY <3>1, Awaited
  <2>4. ASSUME {k} \notin batches, NEW b \in batches, k \in b PROVE NoLostWakeup'
    <3>1. b \ {k} # {}
      BY <2>4
    <3>2. b \ {k} \in batches'
      BY <2>1, <2>4, <3>1
    <3>3. batches' # {}
      BY <3>2
    <3> QED BY <3>3, Awaited
  <2>5. ASSUME NEW j \in failed, stopping[j] = "recycleAll" PROVE NoLostWakeup'
    <3>1. j # k /\ j \in Keys
      BY <2>1 DEF HostInv, EntryType
    <3>2. j \in failed' /\ stopping'[j] = "recycleAll"
      BY <2>2, <2>5, <3>1
    <3> QED BY <3>2, Awaited
  <2> QED BY <2>1, <2>3, <2>4, <2>5 DEF HostInv, Batches
<1>3. ASSUME NEW k \in Keys, stopFailed(k) PROVE NoLostWakeup'
  <2>1. /\ stopping[k] \in Causes \ {"drain"} /\ k \notin failed /\ Keep(k)
        /\ batches' = {b \in batches : k \notin b}
        /\ UNCHANGED <<phase, keyOf, waiters, draining, life>>
    BY <1>3 DEF stopFailed, runVars
  <2>2. UNCHANGED <<entries, holder, stopping>> /\ failed' = failed \cup {k}
    BY <2>1 DEF Keep
  <2>3. CASE stopping[k] = "recycleAll"
    BY <2>2, <2>3, Awaited
  <2>4. CASE stopping[k] # "recycleAll"
    <3>1. batches' = batches
      BY <2>1, <2>4 DEF HostInv, Batches
    <3>2. Idle' = Idle /\ (stopped' <=> stopped)
      BY <2>1, <2>2 DEF Idle, stopped
    <3> QED BY <2>1, <2>2, <3>1, <3>2, StillAwaited
  <2> QED BY <2>3, <2>4
<1> QED BY <1>1, <1>2, <1>3

\* The stops that an idle timeout, a release or the shutdown begins or awaits.
LEMMA StopWakes ==
  ASSUME HostInv, NoLostWakeup, NEW k \in Keys,
         evictIdle(k) \/ entryStopped(k) \/ stoppedByAll(k)
  PROVE  NoLostWakeup'
<1>1. CASE evictIdle(k)
  <2>1. /\ k \in Idle /\ stopEntry({k}, "evictIdle") /\ "evictIdle" \in Causes
        /\ UNCHANGED <<phase, keyOf, waiters, draining, entries, holder, failed, batches, life>>
    BY <1>1 DEF evictIdle, runVars, Causes
  <2>2. /\ Idle' = Idle \ {k} /\ stopping[k] = "no"
        /\ \A j \in Keys : stopping'[j] = IF j = k THEN "evictIdle" ELSE stopping[j]
    BY <2>1, StopOneIdle
  <2>3. \A j \in failed : stopping'[j] = stopping[j]
    BY <2>2 DEF HostInv, EntryType
  <2>4. stopped' <=> stopped
    BY <2>1 DEF stopped
  <2> QED BY <2>1, <2>2, <2>3, <2>4, StillAwaited
<1>2. CASE entryStopped(k)
  <2>1. ~stopped' => draining'.phase # "no"
    BY <1>2, DrainedType DEF entryStopped, HostInv, stopped
  <2> QED BY <2>1, Awaited
<1>3. CASE stoppedByAll(k)
  <2>1. stopped'
    BY <1>3 DEF stoppedByAll, HostInv, Leases, stopped
  <2> QED BY <2>1, Awaited
<1> QED BY <1>1, <1>2, <1>3

\* The steps of the Runs: joining the line and giving back a lease drain, leaving the
\* line frees nothing.
LEMMA RunWakes ==
  ASSUME HostInv, NoLostWakeup, NEW r \in Runs,
         executeExternalKernelRun(r) \/ waitForTurn(r) \/ endTurn(r) \/ cancelRun(r)
  PROVE  NoLostWakeup'
<1>1. CASE executeExternalKernelRun(r)
  <2>1. PICK k \in Keys : keyOf' = [keyOf EXCEPT ![r] = k]
    BY <1>1 DEF executeExternalKernelRun
  <2>2. /\ phase[r] = "new"
        /\ UNCHANGED <<waiters, draining, entries, holder, stopping, failed, batches, life>>
    BY <1>1 DEF executeExternalKernelRun, entryVars
  <2>3. Idle' = Idle /\ (stopped' <=> stopped)
    BY <2>2 DEF Idle, stopped
  <2>4. \A i \in DOMAIN waiters : keyOf'[waiters[i]] = keyOf[waiters[i]]
    BY <2>1, <2>2 DEF HostInv, RunType, Line
  <2> QED BY <2>2, <2>3, <2>4, StillAwaited
<1>2. CASE waitForTurn(r)
  <2>1. ~stopped' => draining'.phase # "no"
    BY <1>2, DrainedType DEF waitForTurn, HostInv, stopped
  <2> QED BY <2>1, Awaited
<1>3. CASE endTurn(r)
  <2> DEFINE k == keyOf[r]
  <2>1. Release(r) /\ UNCHANGED <<keyOf, waiters, batches, life>> /\ k \in Keys
    BY <1>3 DEF endTurn, HostInv, Line
  <2>2. stopped' <=> stopped
    BY <2>1 DEF stopped
  <2>3. CASE holder[k] # r
    <3>1. UNCHANGED <<entries, holder, stopping, failed, draining>>
      BY <2>1, <2>3 DEF Release, entryVars
    <3>2. Idle' = Idle
      BY <3>1 DEF Idle
    <3> QED BY <2>1, <2>2, <3>1, <3>2, StillAwaited
  <2>4. CASE holder[k] = r /\ k \in recycle
    <3>1. /\ UNCHANGED <<entries, failed, draining>> /\ stopEntry({k}, "release")
          /\ holder' = [holder EXCEPT ![k] = NoRun]
      BY <2>1, <2>4 DEF Release
    <3>2. \A j \in Keys : stopping'[j] =
            IF j = k /\ stopping[k] = "no" THEN "release" ELSE stopping[j]
      BY <3>1 DEF stopEntry, HostInv, EntryType
    <3>3. Idle' \subseteq Idle
      BY <3>1, <3>2 DEF Idle, HostInv, EntryType
    <3>4. \A j \in failed : stopping'[j] = stopping[j]
      BY <3>2 DEF HostInv, EntryType
    <3> QED BY <2>1, <2>2, <3>1, <3>3, <3>4, StillAwaited
  <2>5. CASE holder[k] = r /\ k \notin recycle
    <3>1. draining' = Drained(draining)
      BY <2>1, <2>5 DEF Release
    <3>2. ~stopped' => draining'.phase # "no"
      BY <2>2, <3>1, DrainedType DEF HostInv
    <3> QED BY <3>2, Awaited
  <2> QED BY <2>3, <2>4, <2>5
<1>4. CASE cancelRun(r)
  <2>1. UNCHANGED <<keyOf, draining, entries, holder, stopping, failed, batches, life>>
    BY <1>4 DEF cancelRun, entryVars
  <2>2. Idle' = Idle /\ (stopped' <=> stopped)
    BY <2>1 DEF Idle, stopped
  <2>3. ASSUME NEW i \in DOMAIN waiters, waiters' = RemoveAt(waiters, i)
        PROVE  \A j \in DOMAIN waiters' : \E h \in DOMAIN waiters : waiters'[j] = waiters[h]
    BY <2>3, LineShrinks DEF HostInv, RunType, Line
  <2>4. \A j \in DOMAIN waiters' : \E h \in DOMAIN waiters : waiters'[j] = waiters[h]
    BY <1>4, <2>3 DEF cancelRun
  <2> QED BY <2>1, <2>2, <2>4, StillAwaited
<1> QED BY <1>1, <1>2, <1>3, <1>4

\* No wake-up is lost: whatever frees a place or brings a waiter drains, or is part of
\* a recycleAll that will. The theorem is as exact as the code: a recycleAll rejected
\* by one entry that does not stop is its one exception.
THEOREM WaitersAreWoken == Spec => []NoLostWakeup
<1>1. Init => NoLostWakeup
  BY DEF Init, NoLostWakeup
<1>2. HostInv /\ NoLostWakeup /\ [Next]_vars => NoLostWakeup'
  <2> SUFFICES ASSUME HostInv, NoLostWakeup, [Next]_vars PROVE NoLostWakeup'
    OBVIOUS
  <2>1. CASE fulfill \/ evictOldest \/ drainEnds
    BY <2>1, DrainWakes
  <2>2. CASE recycleAll
    BY <2>2, RecycleWakes
  <2>3. ASSUME NEW k \in Keys,
               \/ victimStopped(k) \/ victimFailed(k) \/ evictIdle(k) \/ entryStopped(k)
               \/ recycledStopped(k) \/ stopFailed(k) \/ stoppedByAll(k)
        PROVE  NoLostWakeup'
    BY <2>3, DrainWakes, RecycleWakes, StopWakes
  <2>4. ASSUME NEW r \in Runs,
               executeExternalKernelRun(r) \/ waitForTurn(r) \/ endTurn(r) \/ cancelRun(r)
        PROVE  NoLostWakeup'
    BY <2>4, RunWakes
  <2>5. CASE abortRuns
    <3>1. DOMAIN waiters' = {}
      BY <2>5 DEF abortRuns
    <3> QED BY <3>1 DEF NoLostWakeup
  <2>6. CASE stopAll
    <3>1. stopped'
      BY <2>6 DEF stopAll, stopped
    <3> QED BY <3>1, Awaited
  <2>7. CASE stop \/ stopSettles \/ UNCHANGED vars
    <3>1. /\ UNCHANGED <<keyOf, waiters, draining, entries, holder, stopping, failed, batches>>
          /\ stopped' <=> stopped
      BY <2>7 DEF HostInv, RunType, stop, stopSettles, vars, runVars, entryVars, stopped
    <3>2. Idle' = Idle
      BY <3>1 DEF Idle
    <3> QED BY <3>1, <3>2, StillAwaited
  <2> QED BY <2>1, <2>2, <2>3, <2>4, <2>5, <2>6, <2>7 DEF Next
<1> QED BY <1>1, <1>2, HostIsSound, PTL DEF Spec
=============================================================================
