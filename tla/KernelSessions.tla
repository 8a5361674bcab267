---------------------------- MODULE KernelSessions ----------------------------
(***************************************************************************)
(* The resident kernel processes of conversation Runs: the turns of one    *)
(* conversation are taken in line, a turn leases the conversation's        *)
(* process from a host of limited capacity, and the host evicts, recycles  *)
(* and stops processes whose stop may take time and may fail.              *)
(*                                                                         *)
(* BoundedKernelSessionHost (apps/runtime/src/kernel) and the external     *)
(* kernel Runs of apps/runtime/src/runtime.ts. A step ends where the code  *)
(* awaits.                                                                 *)
(***************************************************************************)
EXTENDS Naturals, FiniteSets, Sequences, SequencesExt

CONSTANTS
  Keys,         \* kernelConversationSessionKey of the conversations
  MaxRuns,      \* bound: Run ids, drawn in order
  MaxEntries,   \* codexSessionMaxEntries
  MaxRecycles,  \* bound: kernel.recycle commands
  MaxFailures   \* bound: stops of a process that fail

ASSUME HostAssumption ==
  /\ IsFiniteSet(Keys) /\ "none" \notin Keys
  /\ MaxEntries \in Nat \ {0}
  /\ MaxRuns \in Nat /\ MaxRecycles \in Nat /\ MaxFailures \in Nat

NoRun == 0
Runs == 1 .. MaxRuns

VARIABLES
  phase,       \* executeExternalKernelRun: "new", "queued", "acquiring",
               \* "running" or "done"
  keyOf,       \* the conversation of a Run, "none" before it is started
  waiters,     \* BoundedKernelSessionHost.waiters
  draining,    \* drain: "no", "loop", or "evicting" while it awaits a stop for
               \* the Run it took from the waiters
  entries,     \* the keys of BoundedKernelSessionHost.entries
  holder,      \* the Run that leases an entry
  usedBefore,  \* pairs of idle entries ordered by lastUsedAt
  stopping,    \* who awaits the stop of an entry: "no", "drain", "recycleAll",
               \* "release", "evictIdle" or "stopAll"
  failed,      \* the entries whose stop was rejected
  recycle,     \* the entries with recycleRequested
  batches,     \* the entries each pending recycleAll still awaits
  recycles,
  life         \* Runtime.stop: "up", "closing", "aborted", "stopped", then
               \* "over" or "threw"

runVars == <<phase, keyOf>>
entryVars == <<entries, holder, usedBefore, stopping, failed, recycle>>
vars == <<runVars, waiters, draining, entryVars, batches, recycles, life>>

NotDraining == [phase |-> "no", run |-> NoRun]
Causes == {"drain", "recycleAll", "release", "evictIdle", "stopAll"}

Idle == {k \in entries : holder[k] = NoRun /\ stopping[k] = "no"}

TypeOK ==
  /\ phase \in [Runs -> {"new", "queued", "acquiring", "running", "done"}]
  /\ keyOf \in [Runs -> Keys \cup {"none"}]
  /\ waiters \in Seq(Runs)
  /\ draining \in {NotDraining} \cup [phase : {"loop"}, run : {NoRun}]
                  \cup [phase : {"evicting"}, run : Runs]
  /\ entries \subseteq Keys
  /\ holder \in [Keys -> Runs \cup {NoRun}]
  /\ usedBefore \subseteq Idle \X Idle
  /\ stopping \in [Keys -> Causes \cup {"no"}]
  /\ failed \subseteq {k \in entries : stopping[k] # "no"}
  /\ recycle \subseteq entries
  /\ batches \subseteq SUBSET entries
  /\ recycles \in 0 .. MaxRecycles
  /\ life \in {"up", "closing", "aborted", "stopped", "over", "threw"}

Init ==
  /\ phase = [r \in Runs |-> "new"]
  /\ keyOf = [r \in Runs |-> "none"]
  /\ waiters = <<>>
  /\ draining = NotDraining
  /\ entries = {}
  /\ holder = [k \in Keys |-> NoRun]
  /\ usedBefore = {}
  /\ stopping = [k \in Keys |-> "no"]
  /\ failed = {}
  /\ recycle = {}
  /\ batches = {}
  /\ recycles = 0
  /\ life = "up"

-----------------------------------------------------------------------------
(***************************************************************************)
(* The host.                                                               *)
(***************************************************************************)

stopped == life \in {"stopped", "over", "threw"}

canAcquire(k) ==
  IF k \in entries THEN k \in Idle ELSE Cardinality(entries) < MaxEntries \/ Idle # {}

oldestIdleEntry(v) == v \in Idle /\ \A k \in Idle : <<k, v>> \notin usedBefore

\* lastUsedAt matters while an entry is idle: k becomes the latest, ks leave.
Touched(k) == usedBefore \cup (Idle \X {k})
Untouched(ks) == {p \in usedBefore : p[1] \notin ks /\ p[2] \notin ks}

\* drain() is called; a drain under way takes the call over.
Drained(d) == IF d.phase = "no" /\ ~stopped THEN [d EXCEPT !.phase = "loop"] ELSE d

\* Mutant: recycleRequested outlives the entry.
DeleteKeepingRequest(k) ==
  /\ entries' = entries \ {k}
  /\ holder' = [holder EXCEPT ![k] = NoRun]
  /\ stopping' = [stopping EXCEPT ![k] = "no"]
  /\ UNCHANGED <<usedBefore, failed, recycle>>

\* entries.delete(k)
Delete(k) ==
  /\ entries' = entries \ {k}
  /\ holder' = [holder EXCEPT ![k] = NoRun]
  /\ stopping' = [stopping EXCEPT ![k] = "no"]
  /\ recycle' = recycle \ {k}
  /\ UNCHANGED <<usedBefore, failed>>

\* Mutant: an entry is deleted whether its process stopped or not.
KeepNothing(k) ==
  /\ Cardinality(failed) < MaxFailures
  /\ failed' = failed \cup {k}
  /\ entries' = entries \ {k}
  /\ stopping' = [stopping EXCEPT ![k] = "no"]
  /\ recycle' = recycle \ {k}
  /\ UNCHANGED <<holder, usedBefore>>

\* A process that does not stop keeps its place.
Keep(k) ==
  /\ Cardinality(failed) < MaxFailures
  /\ failed' = failed \cup {k}
  /\ UNCHANGED <<entries, holder, usedBefore, stopping, recycle>>

\* stopEntry: a stop under way is shared.
stopEntry(ks, cause) ==
  /\ stopping' = [k \in Keys |-> IF k \in ks /\ stopping[k] = "no" THEN cause ELSE stopping[k]]
  /\ usedBefore' = Untouched(ks)

\* The lease of r is released, unless its entry is gone.
Release(r) ==
  LET k == keyOf[r] IN
  IF holder[k] # r
    THEN UNCHANGED <<entryVars, draining>>
    ELSE /\ holder' = [holder EXCEPT ![k] = NoRun]
         /\ IF k \in recycle
              THEN stopEntry({k}, "release") /\ UNCHANGED draining
              ELSE /\ usedBefore' = IF stopping[k] = "no" THEN Touched(k) ELSE usedBefore
                   /\ draining' = Drained(draining)
                   /\ UNCHANGED stopping
         /\ UNCHANGED <<entries, failed, recycle>>

\* The first waiter that can be served: waiters behind it may be, those before
\* it cannot.
Served(i) ==
  /\ i \in DOMAIN waiters
  /\ canAcquire(keyOf[waiters[i]])
  /\ \A j \in 1 .. i - 1 : ~canAcquire(keyOf[waiters[j]])

\* fulfill for an entry that exists or fits, and the waiter's promise resolves.
fulfill ==
  /\ draining.phase = "loop" /\ ~stopped
  /\ \E i \in DOMAIN waiters :
       LET r == waiters[i]
           k == keyOf[r]
       IN  /\ Served(i)
           /\ k \in entries \/ Cardinality(entries) < MaxEntries
           /\ waiters' = RemoveAt(waiters, i)
           /\ entries' = entries \cup {k}
           /\ holder' = [holder EXCEPT ![k] = r]
           /\ usedBefore' = Untouched({k})
           /\ phase' = [phase EXCEPT ![r] = "running"]
  /\ UNCHANGED <<keyOf, draining, stopping, failed, recycle, batches, recycles, life>>

\* fulfill at capacity, up to the stop of the victim.
evictOldest ==
  /\ draining.phase = "loop" /\ ~stopped
  /\ \E i \in DOMAIN waiters, v \in Keys :
       /\ Served(i)
       /\ keyOf[waiters[i]] \notin entries /\ Cardinality(entries) >= MaxEntries
       /\ oldestIdleEntry(v)
       /\ waiters' = RemoveAt(waiters, i)
       /\ stopEntry({v}, "drain")
       /\ draining' = [phase |-> "evicting", run |-> waiters[i]]
  /\ UNCHANGED <<runVars, entries, holder, failed, recycle, batches, recycles, life>>

drainEnds ==
  /\ draining.phase = "loop"
  /\ stopped \/ \A i \in DOMAIN waiters : ~Served(i)
  /\ draining' = NotDraining
  /\ UNCHANGED <<runVars, waiters, entryVars, batches, recycles, life>>

\* Mutant: the host is not asked again whether it was stopped.
victimStoppedUnchecked(v) ==
  LET r == draining.run
      k == keyOf[r]
  IN
  /\ stopping[v] = "drain" /\ v \notin failed
  /\ entries' = (entries \ {v}) \cup {k}
  /\ stopping' = [stopping EXCEPT ![v] = "no"]
  /\ IF phase[r] = "done"
       THEN usedBefore' = Touched(k) /\ UNCHANGED <<holder, phase>>
       ELSE /\ holder' = [holder EXCEPT ![k] = r]
            /\ phase' = [phase EXCEPT ![r] = "running"]
            /\ UNCHANGED usedBefore
  /\ draining' = [phase |-> "loop", run |-> NoRun]
  /\ UNCHANGED <<keyOf, waiters, failed, recycle, batches, recycles, life>>

\* The victim has stopped. The waiter may have been aborted while it was served:
\* its lease is released at once. A host stopped meanwhile takes no new entry.
victimStopped(v) ==
  LET r == draining.run
      k == keyOf[r]
  IN
  /\ stopping[v] = "drain" /\ v \notin failed
  /\ IF stopped
       THEN Delete(v) /\ phase' = [phase EXCEPT ![r] = "done"]
       ELSE /\ entries' = (entries \ {v}) \cup {k}
            /\ stopping' = [stopping EXCEPT ![v] = "no"]
            /\ IF phase[r] = "done"
                 THEN usedBefore' = Touched(k) /\ UNCHANGED <<holder, phase>>
                 ELSE /\ holder' = [holder EXCEPT ![k] = r]
                      /\ phase' = [phase EXCEPT ![r] = "running"]
                      /\ UNCHANGED usedBefore
            /\ UNCHANGED <<failed, recycle>>
  /\ draining' = [phase |-> "loop", run |-> NoRun]
  /\ UNCHANGED <<keyOf, waiters, batches, recycles, life>>

\* Its waiter is rejected with the error of the stop.
victimFailed(v) ==
  /\ stopping[v] = "drain" /\ v \notin failed
  /\ Keep(v)
  /\ phase' = [phase EXCEPT ![draining.run] = "done"]
  /\ draining' = [phase |-> "loop", run |-> NoRun]
  /\ UNCHANGED <<keyOf, waiters, batches, recycles, life>>

evictIdle(k) ==
  /\ k \in Idle /\ ~stopped
  /\ stopEntry({k}, "evictIdle")
  /\ UNCHANGED <<runVars, waiters, draining, entries, holder, failed, recycle,
                 batches, recycles, life>>

\* Mutant: the freed place is offered to nobody.
entryStoppedQuietly(k) ==
  /\ stopping[k] \in {"evictIdle", "release"} /\ k \notin failed
  /\ Delete(k)
  /\ UNCHANGED <<runVars, waiters, draining, batches, recycles, life>>

\* The stop that an idle timeout or the release of a recycled entry awaits.
entryStopped(k) ==
  /\ stopping[k] \in {"evictIdle", "release"} /\ k \notin failed
  /\ Delete(k)
  /\ draining' = Drained(draining)
  /\ UNCHANGED <<runVars, waiters, batches, recycles, life>>

\* Mutant: leased entries stop at once as well.
recycleAllNow ==
  /\ ~stopped
  /\ recycles < MaxRecycles /\ recycles' = recycles + 1
  /\ stopEntry(entries, "recycleAll")
  /\ batches' = (batches \cup {{k \in entries : stopping[k] = "no"}}) \ {{}}
  /\ UNCHANGED <<runVars, waiters, draining, entries, holder, failed, recycle, life>>

\* Idle entries stop now, leased ones when they are released.
recycleAll ==
  /\ ~stopped
  /\ recycles < MaxRecycles /\ recycles' = recycles + 1
  /\ recycle' = recycle \cup {k \in entries : holder[k] # NoRun}
  /\ stopEntry(Idle, "recycleAll")
  /\ IF Idle = {}
       THEN draining' = Drained(draining) /\ UNCHANGED batches
       ELSE batches' = batches \cup {Idle} /\ UNCHANGED draining
  /\ UNCHANGED <<runVars, waiters, entries, holder, failed, life>>

\* Promise.all: the last stop of a batch drains, the first failure rejects it.
recycledStopped(k) ==
  /\ stopping[k] = "recycleAll" /\ k \notin failed
  /\ Delete(k)
  /\ batches' = {b \ {k} : b \in batches} \ {{}}
  /\ draining' = IF {k} \in batches THEN Drained(draining) ELSE draining
  /\ UNCHANGED <<runVars, waiters, recycles, life>>

\* A stop nobody can act on: the entry stays, and a recycleAll that awaits it is
\* rejected.
stopFailed(k) ==
  /\ stopping[k] \in Causes \ {"drain"} /\ k \notin failed
  /\ Keep(k)
  /\ batches' = {b \in batches : k \notin b}
  /\ UNCHANGED <<runVars, waiters, draining, recycles, life>>

stoppedByAll(k) ==
  /\ stopping[k] = "stopAll" /\ k \notin failed
  /\ Delete(k)
  /\ UNCHANGED <<runVars, waiters, draining, batches, recycles, life>>

-----------------------------------------------------------------------------
(***************************************************************************)
(* The Runs.                                                               *)
(***************************************************************************)

executeExternalKernelRun(r) ==
  /\ phase[r] = "new"
  /\ life = "up"
  /\ \A q \in 1 .. r - 1 : phase[q] # "new"
  /\ phase' = [phase EXCEPT ![r] = "queued"]
  /\ \E k \in Keys : keyOf' = [keyOf EXCEPT ![r] = k]
  /\ UNCHANGED <<waiters, draining, entryVars, batches, recycles, life>>

\* Mutant: a tail does not include the one before it.
HasTurnAfterLast(r) ==
  \A q \in 1 .. r - 1 :
    keyOf[q] = keyOf[r] /\ (\A p \in q + 1 .. r - 1 : keyOf[p] # keyOf[r]) => phase[q] = "done"

\* A tail resolves when its Run has released its turn and the tail before it has
\* resolved; the next Run awaits it.
HasTurn(r) ==
  \A q \in 1 .. r - 1 : keyOf[q] = keyOf[r] => phase[q] = "done"

\* The turn has come: acquire.
waitForTurn(r) ==
  /\ phase[r] = "queued"
  /\ HasTurn(r)
  /\ phase' = [phase EXCEPT ![r] = "acquiring"]
  /\ waiters' = Append(waiters, r)
  /\ draining' = Drained(draining)
  /\ UNCHANGED <<keyOf, entryVars, batches, recycles, life>>

\* The terminal event, the last failed attempt, or the end of a cancelled stream:
\* the finally block gives back the lease and the turn.
endTurn(r) ==
  /\ phase[r] = "running"
  /\ Release(r)
  /\ phase' = [phase EXCEPT ![r] = "done"]
  /\ UNCHANGED <<keyOf, waiters, batches, recycles, life>>

Active == {r \in Runs : phase[r] \notin {"new", "done"}}

\* Mutant: an aborted waiter is removed and its promise never settles.
AbortedUnsettled(rs) ==
  [r \in Runs |-> IF r \in rs /\ phase[r] = "queued" THEN "done" ELSE phase[r]]

\* A Run that waits ends at once, also while its waiter is being served: it is
\* done then, and so is its signal aborted. One that runs cancels its adapter,
\* and ends in endTurn.
Aborted(rs) ==
  [r \in Runs |->
     IF r \in rs /\ phase[r] \in {"queued", "acquiring"} THEN "done" ELSE phase[r]]

\* The abort listener of the waiter, if it has one, takes it out of the line.
cancelRun(r) ==
  /\ phase[r] \in {"queued", "acquiring"}
  /\ phase' = Aborted({r})
  /\ \/ \E i \in DOMAIN waiters : waiters[i] = r /\ waiters' = RemoveAt(waiters, i)
     \/ (\A i \in DOMAIN waiters : waiters[i] # r) /\ UNCHANGED waiters
  /\ UNCHANGED <<keyOf, draining, entryVars, batches, recycles, life>>

-----------------------------------------------------------------------------
(***************************************************************************)
(* Runtime.stop, between its awaits.                                       *)
(***************************************************************************)

stop ==
  /\ life = "up"
  /\ life' = "closing"
  /\ UNCHANGED <<runVars, waiters, draining, entryVars, batches, recycles>>

\* Every waiter is of an active Run, so the listeners empty the line.
abortRuns ==
  /\ life = "closing"
  /\ life' = "aborted"
  /\ phase' = Aborted(Active)
  /\ waiters' = <<>>
  /\ UNCHANGED <<keyOf, draining, entryVars, batches, recycles>>

\* Waiters are rejected, and every entry is stopped.
stopAll ==
  /\ life = "aborted"
  /\ life' = "stopped"
  /\ phase' = Aborted(ToSet(waiters))
  /\ waiters' = <<>>
  /\ stopEntry(entries, "stopAll")
  /\ UNCHANGED <<keyOf, draining, entries, holder, failed, recycle,
                 batches, recycles>>

\* allSettled: one stop that failed makes stopAll, and with it stop, throw.
stopSettles ==
  /\ life = "stopped"
  /\ \A k \in entries : stopping[k] # "no" => k \in failed
  /\ \/ failed # {} /\ life' = "threw"
     \/ failed = {} /\ Active = {} /\ life' = "over"
  /\ UNCHANGED <<runVars, waiters, draining, entryVars, batches, recycles>>

Next ==
  \/ fulfill \/ evictOldest \/ drainEnds \/ recycleAll
  \/ \E k \in Keys :
       \/ victimStopped(k) \/ victimFailed(k) \/ evictIdle(k) \/ entryStopped(k)
       \/ recycledStopped(k) \/ stopFailed(k) \/ stoppedByAll(k)
  \/ \E r \in Runs :
       executeExternalKernelRun(r) \/ waitForTurn(r) \/ endTurn(r) \/ cancelRun(r)
  \/ stop \/ abortRuns \/ stopAll \/ stopSettles

Spec == Init /\ [][Next]_vars

Settled(k) ==
  victimStopped(k) \/ victimFailed(k) \/ entryStopped(k) \/ recycledStopped(k)
    \/ stopFailed(k) \/ stoppedByAll(k)

\* Continuations run, stops settle and turns end. Nothing is owed to timers,
\* commands or the user, except that a shutdown goes on once it has begun.
Fairness ==
  /\ WF_vars(fulfill \/ evictOldest \/ drainEnds)
  /\ \A k \in Keys : WF_vars(Settled(k))
  /\ \A r \in Runs : WF_vars(waitForTurn(r)) /\ WF_vars(endTurn(r))
  /\ WF_vars(abortRuns \/ stopAll \/ stopSettles)

FairSpec == Spec /\ Fairness

-----------------------------------------------------------------------------
(***************************************************************************)
(* Properties.                                                             *)
(***************************************************************************)

\* "the host can never silently exceed maxEntries": never more processes than
\* that, evictions under way and processes that did not stop included.
WithinCapacity == Cardinality(entries \cup failed) <= MaxEntries

\* The turns of a conversation are taken one after the other, although Runs that
\* never had theirs leave the line in any order.
OneTurnPerConversation ==
  \A r, q \in Runs :
    /\ keyOf[r] = keyOf[q]
    /\ {phase[r], phase[q]} \subseteq {"acquiring", "running"}
    => r = q

\* "A lease protects an active turn": while it lasts nobody but the shutdown stops
\* the process, no other Run uses it, and no other process serves the
\* conversation.
TurnKeepsItsProcess ==
  \A r \in Runs : phase[r] = "running" /\ ~stopped =>
    holder[keyOf[r]] = r /\ stopping[keyOf[r]] = "no"

\* A waiter that could be served is being served, or waits for a recycleAll that
\* will drain: whatever frees a place drains. The exception is a recycleAll
\* rejected by one entry: the places its other entries free are noticed by nobody.
NoLostWakeup ==
  (\E i \in DOMAIN waiters : canAcquire(keyOf[waiters[i]])) /\ ~stopped =>
    draining.phase # "no" \/ batches # {} \/ \E k \in failed : stopping[k] = "recycleAll"

\* A shutdown that returns has left no process and no Run behind, not even one
\* whose waiter was being served when the host was stopped.
NothingOutlivesStop ==
  life = "over" => entries = {} /\ Active = {} /\ waiters = <<>>

\* Every Run that was started ends, unless a process that does not stop holds a
\* place; a shutdown ends the Runs even then.
RunsEnd == \A r \in Runs : (r \in Active) ~> (r \notin Active \/ (failed # {} /\ life = "up"))
=============================================================================
