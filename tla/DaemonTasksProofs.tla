--------------------------- MODULE DaemonTasksProofs ---------------------------
(***************************************************************************)
(* The daemon's slots and queue, for any set of tasks, any number of slots *)
(* and any number of faults: a slot is held by exactly the executions      *)
(* under way, no queued task waits beside a free slot, and a one-shot task *)
(* that has fired is not taken up again.                                   *)
(*                                                                         *)
(* The daemon's callbacks are loops over states. Their induction is over   *)
(* sets, not predicates: what holds after each round is a set of states    *)
(* per round, and a round that would leave its set first is the smallest   *)
(* element of a set of numbers.                                            *)
(***************************************************************************)
EXTENDS DaemonTasks, FiniteSetTheorems, SequenceTheorems, WellFoundedInduction, TLAPS

-----------------------------------------------------------------------------
(* Loops                                                                   *)

\* Counting up from 0 reaches every number of an interval.
LEMMA CountUp ==
  ASSUME NEW n \in Nat, NEW T, 0 \in T, \A i \in 1 .. n : i - 1 \in T => i \in T
  PROVE  0 .. n \subseteq T
<1> DEFINE Missed == {i \in 0 .. n : i \notin T}
<1>1. SUFFICES ASSUME Missed # {} PROVE FALSE
  OBVIOUS
<1>2. Missed \subseteq Nat
  OBVIOUS
<1>3. PICK m \in Missed : \A k \in Missed : ~(<<k, m>> \in OpToRel(<, Nat))
  <2> HIDE DEF Missed
  <2> QED BY <1>1, <1>2, NatLessThanWellFounded, WFMin
<1>4. m \in 1 .. n /\ m - 1 \in 0 .. n /\ m - 1 \in Nat /\ m \in Nat /\ m - 1 < m
  OBVIOUS
<1>5. <<m - 1, m>> \in OpToRel(<, Nat)
  BY <1>4 DEF OpToRel
<1>6. m - 1 \notin Missed
  BY <1>3, <1>5
<1>7. m - 1 \in T
  BY <1>4, <1>6
<1> QED BY <1>4, <1>7

\* g is the trace of n rounds from s: round i applies F[i] and ends in I[i].
Trace(g, n, I, s, F) ==
  /\ g = [i \in 0 .. n |-> g[i]]
  /\ g[0] = s
  /\ \A i \in 1 .. n : g[i] = F[i][g[i - 1]]
  /\ \A i \in 0 .. n : g[i] \in I[i]

\* Rounds that lead from each set to the next have a trace.
LEMMA TraceExists ==
  ASSUME NEW n \in Nat, NEW I, NEW s \in I[0], NEW F,
         \A i \in 1 .. n : \A a \in I[i - 1] : F[i][a] \in I[i]
  PROVE  \E g : Trace(g, n, I, s, F)
<1> DEFINE T == {m \in 0 .. n : \E g : Trace(g, m, I, s, F)}
<1>1. 0 \in T
  <2>1. Trace([i \in 0 .. 0 |-> s], 0, I, s, F)
    BY DEF Trace
  <2> QED BY <2>1
<1>2. ASSUME NEW m \in 1 .. n, m - 1 \in T PROVE m \in T
  <2>1. PICK g : Trace(g, m - 1, I, s, F)
    BY <1>2
  <2> DEFINE h == [i \in 0 .. m |-> IF i = m THEN F[m][g[m - 1]] ELSE g[i]]
  <2>2. g[m - 1] \in I[m - 1] /\ F[m][g[m - 1]] \in I[m]
    BY <2>1 DEF Trace
  <2>3. h = [i \in 0 .. m |-> h[i]] /\ h[0] = s
    BY <2>1 DEF Trace
  <2>4. ASSUME NEW i \in 1 .. m PROVE h[i] = F[i][h[i - 1]]
    <3>1. i \in 0 .. m /\ i - 1 \in 0 .. m - 1 /\ i - 1 # m /\ i - 1 \in 0 .. m
      OBVIOUS
    <3>2. h[i - 1] = g[i - 1]
      BY <3>1
    <3>3. CASE i = m
      <4>1. h[m] = F[m][g[m - 1]]
        OBVIOUS
      <4> HIDE DEF h
      <4> QED BY <3>2, <3>3, <4>1
    <3>4. CASE i # m
      <4>1. i \in 1 .. m - 1 /\ h[i] = g[i]
        BY <3>1, <3>4
      <4>2. g[i] = F[i][g[i - 1]]
        BY <2>1, <4>1 DEF Trace
      <4> HIDE DEF h
      <4> QED BY <3>2, <4>1, <4>2
    <3> QED BY <3>3, <3>4
  <2>5. ASSUME NEW i \in 0 .. m PROVE h[i] \in I[i]
    <3>1. CASE i = m
      BY <2>2, <3>1
    <3>2. CASE i # m
      BY <2>1, <3>2 DEF Trace
    <3> QED BY <3>1, <3>2
  <2>6. Trace(h, m, I, s, F)
    <3> HIDE DEF h
    <3> QED BY <2>3, <2>4, <2>5 DEF Trace
  <2> QED BY <2>6
<1>3. 0 .. n \subseteq T
  <2> HIDE DEF T
  <2> QED BY <1>1, <1>2, CountUp
<1> QED BY <1>3

\* Two traces of the same rounds agree.
LEMMA TraceUnique ==
  ASSUME NEW n \in Nat, NEW g, NEW h, g[0] = h[0],
         \A i \in 1 .. n : h[i - 1] = g[i - 1] => h[i] = g[i]
  PROVE  h[n] = g[n]
<1> DEFINE T == {i \in 0 .. n : h[i] = g[i]}
<1>1. 0 \in T /\ \A i \in 1 .. n : i - 1 \in T => i \in T
  OBVIOUS
<1>2. 0 .. n \subseteq T
  <2> HIDE DEF T
  <2> QED BY <1>1, CountUp
<1> QED BY <1>2

\* A loop whose rounds lead from each set to the next ends in the last one: first
\* the rounds of drainQueue.
LEMMA DrainLoop ==
  ASSUME NEW q, NEW I, Len(q) \in Nat, NEW s \in I[0],
         \A i \in 1 .. Len(q) : \A a \in I[i - 1] : drainRow(a, q[i]) \in I[i]
  PROVE  Loop(drainRow, s, q) \in I[Len(q)]
<1> DEFINE n == Len(q)
<1> DEFINE F == [i \in 1 .. n |-> [a \in I[i - 1] |-> drainRow(a, q[i])]]
<1> DEFINE Fix(h) == h = [i \in 0 .. n |-> IF i = 0 THEN s ELSE drainRow(h[i - 1], q[i])]
<1>1. \A i \in 1 .. n : \A a \in I[i - 1] : F[i][a] = drainRow(a, q[i]) /\ F[i][a] \in I[i]
  OBVIOUS
<1>2. PICK g : Trace(g, n, I, s, F)
  <2>1. n \in Nat /\ s \in I[0] /\ \A i \in 1 .. n : \A a \in I[i - 1] : F[i][a] \in I[i]
    BY <1>1
  <2> HIDE DEF n, F
  <2> QED BY <2>1, TraceExists
<1>3. ASSUME NEW i \in 1 .. n
      PROVE  g[i - 1] \in I[i - 1] /\ g[i] = drainRow(g[i - 1], q[i])
  <2> HIDE DEF n, F
  <2>1. g[i] = F[i][g[i - 1]]
    BY <1>2, Zenon DEF Trace
  <2>2. i - 1 \in 0 .. n
    BY DEF n
  <2>3. g[i - 1] \in I[i - 1]
    BY <1>2, <2>2 DEF Trace
  <2> QED BY <1>1, <2>1, <2>3
<1>4. g[0] = s /\ g[n] \in I[n] /\ g = [i \in 0 .. n |-> g[i]]
  <2> HIDE DEF F
  <2> QED BY <1>2 DEF Trace
<1>5. Fix(g)
  <2> HIDE DEF F
  <2> QED BY <1>3, <1>4
<1> DEFINE h == CHOOSE f : Fix(f)
<1>6. Fix(h)
  <2> HIDE DEF Fix
  <2> QED BY <1>5
<1>7. h[n] = g[n]
  <2>1. h[0] = s /\ \A i \in 1 .. n : h[i] = drainRow(h[i - 1], q[i])
    <3> HIDE DEF h, F
    <3> QED BY <1>6
  <2>2. n \in Nat /\ g[0] = h[0] /\ \A i \in 1 .. n : h[i - 1] = g[i - 1] => h[i] = g[i]
    <3> HIDE DEF h, F
    <3> QED BY <1>3, <1>4, <2>1
  <2> HIDE DEF h, F, n
  <2> QED BY <2>2, TraceUnique
<1>8. Loop(drainRow, s, q) = h[n]
  BY DEF Loop
<1> HIDE DEF h, F
<1> QED BY <1>4, <1>7, <1>8
\* The same for the rounds of startupCatchup.
LEMMA SweepLoop ==
  ASSUME NEW q, NEW I, Len(q) \in Nat, NEW s \in I[0],
         \A i \in 1 .. Len(q) : \A a \in I[i - 1] : fireDue(a, q[i]) \in I[i]
  PROVE  Loop(fireDue, s, q) \in I[Len(q)]
<1> DEFINE n == Len(q)
<1> DEFINE F == [i \in 1 .. n |-> [a \in I[i - 1] |-> fireDue(a, q[i])]]
<1> DEFINE Fix(h) == h = [i \in 0 .. n |-> IF i = 0 THEN s ELSE fireDue(h[i - 1], q[i])]
<1>1. \A i \in 1 .. n : \A a \in I[i - 1] : F[i][a] = fireDue(a, q[i]) /\ F[i][a] \in I[i]
  OBVIOUS
<1>2. PICK g : Trace(g, n, I, s, F)
  <2>1. n \in Nat /\ s \in I[0] /\ \A i \in 1 .. n : \A a \in I[i - 1] : F[i][a] \in I[i]
    BY <1>1
  <2> HIDE DEF n, F
  <2> QED BY <2>1, TraceExists
<1>3. ASSUME NEW i \in 1 .. n
      PROVE  g[i - 1] \in I[i - 1] /\ g[i] = fireDue(g[i - 1], q[i])
  <2> HIDE DEF n, F
  <2>1. g[i] = F[i][g[i - 1]]
    BY <1>2, Zenon DEF Trace
  <2>2. i - 1 \in 0 .. n
    BY DEF n
  <2>3. g[i - 1] \in I[i - 1]
    BY <1>2, <2>2 DEF Trace
  <2> QED BY <1>1, <2>1, <2>3
<1>4. g[0] = s /\ g[n] \in I[n] /\ g = [i \in 0 .. n |-> g[i]]
  <2> HIDE DEF F
  <2> QED BY <1>2 DEF Trace
<1>5. Fix(g)
  <2> HIDE DEF F
  <2> QED BY <1>3, <1>4
<1> DEFINE h == CHOOSE f : Fix(f)
<1>6. Fix(h)
  <2> HIDE DEF Fix
  <2> QED BY <1>5
<1>7. h[n] = g[n]
  <2>1. h[0] = s /\ \A i \in 1 .. n : h[i] = fireDue(h[i - 1], q[i])
    <3> HIDE DEF h, F
    <3> QED BY <1>6
  <2>2. n \in Nat /\ g[0] = h[0] /\ \A i \in 1 .. n : h[i - 1] = g[i - 1] => h[i] = g[i]
    <3> HIDE DEF h, F
    <3> QED BY <1>3, <1>4, <2>1
  <2> HIDE DEF h, F, n
  <2> QED BY <2>2, TraceUnique
<1>8. Loop(fireDue, s, q) = h[n]
  BY DEF Loop
<1> HIDE DEF h, F
<1> QED BY <1>4, <1>7, <1>8
\* The same for the rounds of rescan.
LEMMA RescanLoop ==
  ASSUME NEW q, NEW I, Len(q) \in Nat, NEW s \in I[0],
         \A i \in 1 .. Len(q) : \A a \in I[i - 1] : Interrupted(a, q[i]) \in I[i]
  PROVE  Loop(Interrupted, s, q) \in I[Len(q)]
<1> DEFINE n == Len(q)
<1> DEFINE F == [i \in 1 .. n |-> [a \in I[i - 1] |-> Interrupted(a, q[i])]]
<1> DEFINE Fix(h) == h = [i \in 0 .. n |-> IF i = 0 THEN s ELSE Interrupted(h[i - 1], q[i])]
<1>1. \A i \in 1 .. n : \A a \in I[i - 1] : F[i][a] = Interrupted(a, q[i]) /\ F[i][a] \in I[i]
  OBVIOUS
<1>2. PICK g : Trace(g, n, I, s, F)
  <2>1. n \in Nat /\ s \in I[0] /\ \A i \in 1 .. n : \A a \in I[i - 1] : F[i][a] \in I[i]
    BY <1>1
  <2> HIDE DEF n, F
  <2> QED BY <2>1, TraceExists
<1>3. ASSUME NEW i \in 1 .. n
      PROVE  g[i - 1] \in I[i - 1] /\ g[i] = Interrupted(g[i - 1], q[i])
  <2> HIDE DEF n, F
  <2>1. g[i] = F[i][g[i - 1]]
    BY <1>2, Zenon DEF Trace
  <2>2. i - 1 \in 0 .. n
    BY DEF n
  <2>3. g[i - 1] \in I[i - 1]
    BY <1>2, <2>2 DEF Trace
  <2> QED BY <1>1, <2>1, <2>3
<1>4. g[0] = s /\ g[n] \in I[n] /\ g = [i \in 0 .. n |-> g[i]]
  <2> HIDE DEF F
  <2> QED BY <1>2 DEF Trace
<1>5. Fix(g)
  <2> HIDE DEF F
  <2> QED BY <1>3, <1>4
<1> DEFINE h == CHOOSE f : Fix(f)
<1>6. Fix(h)
  <2> HIDE DEF Fix
  <2> QED BY <1>5
<1>7. h[n] = g[n]
  <2>1. h[0] = s /\ \A i \in 1 .. n : h[i] = Interrupted(h[i - 1], q[i])
    <3> HIDE DEF h, F
    <3> QED BY <1>6
  <2>2. n \in Nat /\ g[0] = h[0] /\ \A i \in 1 .. n : h[i - 1] = g[i - 1] => h[i] = g[i]
    <3> HIDE DEF h, F
    <3> QED BY <1>3, <1>4, <2>1
  <2> HIDE DEF h, F, n
  <2> QED BY <2>2, TraceUnique
<1>8. Loop(Interrupted, s, q) = h[n]
  BY DEF Loop
<1> HIDE DEF h, F
<1> QED BY <1>4, <1>7, <1>8
\* The queue of a state is drained by the rounds of drainQueue.
LEMMA DrainIsALoop ==
  ASSUME NEW s, NEW I, Len(s.queue) \in Nat, s \in I[0],
         \A i \in 1 .. Len(s.queue) : \A a \in I[i - 1] : drainRow(a, s.queue[i]) \in I[i]
  PROVE  drainQueue(s) \in I[Len(s.queue)]
<1> DEFINE q == s.queue
<1>1. drainQueue(s) = Loop(drainRow, s, q)
  BY DEF drainQueue
<1>2. /\ Len(q) \in Nat
      /\ \A i \in 1 .. Len(q) : \A a \in I[i - 1] : drainRow(a, q[i]) \in I[i]
  OBVIOUS
<1>3. Loop(drainRow, s, q) \in I[Len(q)]
  <2> HIDE DEF q
  <2> QED BY <1>2, DrainLoop, Zenon
<1> QED BY <1>1, <1>3, Zenon

-----------------------------------------------------------------------------
(* The daemon's state between two steps of a callback                      *)

\* What a callback computes with: the rows and tables it may change.
States == [due : [Tasks -> Due], queue : Seq(Tasks), running : SUBSET Tasks,
           handler : [Tasks -> Handlers], tracked : [Tasks -> {"none", "pending", "retried"}],
           catchups : [Tasks -> 0 .. 1]]

\* A task is queued once, and the slots are held by the executions under way.
Sound(s) ==
  /\ \A i, j \in 1 .. Len(s.queue) : s.queue[i] = s.queue[j] => i = j
  /\ s.running = {t \in Tasks : s.handler[t] # "idle"}
  /\ Cardinality(s.running) <= MaxConcurrent

\* A task that has fired and that nobody has a reason to take up.
Rests(s, u) ==
  /\ s.due[u] = "none" /\ s.tracked[u] # "pending" /\ u \notin s.running
  /\ \A i \in 1 .. Len(s.queue) : s.queue[i] # u

\* The states in which the tasks of B still wait for an answer and those of Q rest.
Kept(B, Q) ==
  {s \in States : /\ Sound(s)
                  /\ \A u \in B : s.handler[u] = "sending"
                  /\ \A u \in Q : Rests(s, u)}

\* NoIdleSlotWithQueue, of a state.
Drained(s) == s.queue # <<>> => Cardinality(s.running) = MaxConcurrent

\* The trigger of a task that does not rest moves to another time.
LEMMA DueKeeps ==
  ASSUME NEW B \in SUBSET Tasks, NEW Q \in SUBSET Tasks, NEW s \in Kept(B, Q),
         NEW t \in Tasks \ Q, NEW d \in Due
  PROVE  /\ [s EXCEPT !.due[t] = d] \in Kept(B, Q)
         /\ [s EXCEPT !.due[t] = d].queue = s.queue
         /\ [s EXCEPT !.due[t] = d].running = s.running
<1> DEFINE r == [s EXCEPT !.due[t] = d]
<1>1. s \in States
  BY DEF Kept
<1>2. r \in States /\ r.queue = s.queue /\ r.running = s.running /\ r.handler = s.handler
      /\ r.tracked = s.tracked /\ \A u \in Tasks \ {t} : r.due[u] = s.due[u]
  BY <1>1 DEF States
<1> HIDE DEF r
<1>3. Sound(r)
  BY <1>2 DEF Kept, Sound
<1>4. ASSUME NEW u \in Q PROVE Rests(r, u)
  BY <1>2 DEF Kept, Rests
<1>5. \A u \in B : r.handler[u] = "sending"
  BY <1>2 DEF Kept
<1> QED BY <1>2, <1>3, <1>4, <1>5 DEF Kept, r

\* A catch-up is counted.
LEMMA CatchupKeeps ==
  ASSUME NEW B \in SUBSET Tasks, NEW Q \in SUBSET Tasks, NEW s \in Kept(B, Q),
         NEW t \in Tasks, s.catchups[t] < 1
  PROVE  /\ [s EXCEPT !.catchups[t] = @ + 1] \in Kept(B, Q)
         /\ [s EXCEPT !.catchups[t] = @ + 1].queue = s.queue
         /\ [s EXCEPT !.catchups[t] = @ + 1].running = s.running
<1> DEFINE r == [s EXCEPT !.catchups[t] = @ + 1]
<1>1. s \in States /\ s.catchups[t] + 1 \in 0 .. 1
  BY DEF Kept, States
<1>2. r \in States /\ r.queue = s.queue /\ r.running = s.running /\ r.handler = s.handler
      /\ r.tracked = s.tracked /\ r.due = s.due
  BY <1>1 DEF States
<1> HIDE DEF r
<1>3. Sound(r) /\ (\A u \in B : r.handler[u] = "sending") /\ \A u \in Q : Rests(r, u)
  BY <1>2 DEF Kept, Sound, Rests
<1> QED BY <1>2, <1>3 DEF Kept, r

\* enqueue
LEMMA EnqueueKeeps ==
  ASSUME NEW B \in SUBSET Tasks, NEW Q \in SUBSET Tasks, NEW s \in Kept(B, Q), NEW t \in Tasks \ Q
  PROVE  LET r == [s EXCEPT !.queue = enqueue(@, t)]
         IN  r \in Kept(B, Q) /\ r.running = s.running
<1> DEFINE q == enqueue(s.queue, t)  r == [s EXCEPT !.queue = q]
<1>1. s \in States /\ s.queue \in Seq(Tasks) /\ Sound(s)
  BY DEF Kept, States
<1>2. /\ q \in Seq(Tasks)
      /\ \A i, j \in 1 .. Len(q) : q[i] = q[j] => i = j
      /\ \A i \in 1 .. Len(q) : q[i] = t \/ \E j \in 1 .. Len(s.queue) : q[i] = s.queue[j]
  <2>1. CASE t \in ToSet(s.queue)
    BY <1>1, <2>1 DEF enqueue, Sound
  <2>2. CASE t \notin ToSet(s.queue)
    <3>1. q = Append(s.queue, t) /\ \A i \in 1 .. Len(s.queue) : s.queue[i] # t
      BY <1>1, <2>2 DEF enqueue, ToSet
    <3>2. /\ Len(q) = Len(s.queue) + 1 /\ Len(s.queue) \in Nat /\ q[Len(s.queue) + 1] = t
          /\ \A i \in 1 .. Len(s.queue) : q[i] = s.queue[i]
      BY <1>1, <3>1
    <3>3. q \in Seq(Tasks)
      BY <1>1, <3>1
    <3> HIDE DEF q
    <3> QED BY <1>1, <3>1, <3>2, <3>3 DEF Sound
  <2> QED BY <2>1, <2>2
<1> HIDE DEF q
<1>3. r \in States /\ r.queue = q /\ r.running = s.running /\ r.handler = s.handler
      /\ r.tracked = s.tracked /\ r.due = s.due
  BY <1>1, <1>2 DEF States
<1> HIDE DEF r
<1>4. Sound(r)
  BY <1>1, <1>2, <1>3 DEF Sound
<1>5. ASSUME NEW u \in Q PROVE Rests(r, u)
  BY <1>2, <1>3 DEF Kept, Rests
<1>6. \A u \in B : r.handler[u] = "sending"
  BY <1>3 DEF Kept
<1> QED BY <1>3, <1>4, <1>5, <1>6 DEF Kept, r, q

\* The slots that are held are finitely many.
LEMMA SlotsFinite ==
  ASSUME NEW R \in SUBSET Tasks
  PROVE  IsFiniteSet(R) /\ Cardinality(R) \in Nat
BY DaemonAssumption, FS_Subset, FS_CardinalityType

\* A free slot is taken by a task that does not run.
LEMMA OnFireKeeps ==
  ASSUME NEW B \in SUBSET Tasks, NEW Q \in SUBSET Tasks, NEW s \in Kept(B, Q), NEW t \in Tasks \ Q,
         t \notin s.running, Cardinality(s.running) < MaxConcurrent
  PROVE  onFire(s, t) \in Kept(B, Q) /\ onFire(s, t).queue = s.queue
<1> DEFINE r == onFire(s, t)
<1>1. s \in States /\ Sound(s) /\ Following(t) \in Due
  BY DEF Kept, Following, Due
<1>2. /\ r \in States /\ r.queue = s.queue /\ r.running = s.running \cup {t}
      /\ r.handler = [s.handler EXCEPT ![t] = "probing"]
      /\ r.tracked = s.tracked /\ \A u \in Tasks \ {t} : r.due[u] = s.due[u]
  BY <1>1 DEF States, onFire, Handlers
<1> HIDE DEF r
<1>3. Cardinality(r.running) <= MaxConcurrent
  <2>1. s.running \in SUBSET Tasks
    BY <1>1 DEF States
  <2>2. Cardinality(s.running \cup {t}) = Cardinality(s.running) + 1
    BY <2>1, SlotsFinite, FS_AddElement
  <2> QED BY <1>2, <2>1, <2>2, SlotsFinite, DaemonAssumption
<1>4. s.handler \in [Tasks -> Handlers] /\ s.running = {u \in Tasks : s.handler[u] # "idle"}
  BY <1>1 DEF States, Sound
<1>5. r.running = {u \in Tasks : r.handler[u] # "idle"}
  BY <1>2, <1>4
<1>6. Sound(r)
  BY <1>1, <1>2, <1>3, <1>5 DEF Sound
<1>7. ASSUME NEW u \in Q PROVE Rests(r, u)
  BY <1>2 DEF Kept, Rests
<1>8. ASSUME NEW u \in B PROVE r.handler[u] = "sending"
  <2>1. s.handler[u] = "sending" /\ u \in Tasks
    BY DEF Kept
  <2> QED BY <1>2, <1>4, <2>1
<1> QED BY <1>2, <1>6, <1>7, <1>8 DEF Kept, r

\* fireTask takes up no task that rests, answers for nobody, and enqueues a task
\* only when every slot is taken.
LEMMA FireKeeps ==
  ASSUME NEW B \in SUBSET Tasks, NEW Q \in SUBSET Tasks, NEW s \in Kept(B, Q), NEW t \in Tasks \ Q,
         NEW force \in BOOLEAN
  PROVE  /\ fireTask(s, t, force) \in Kept(B, Q)
         /\ Cardinality(s.running) < MaxConcurrent => fireTask(s, t, force).queue = s.queue
         /\ Drained(s) => Drained(fireTask(s, t, force))
<1> DEFINE Good(r) == /\ r \in Kept(B, Q)
                      /\ Cardinality(s.running) < MaxConcurrent => r.queue = s.queue
                      /\ Drained(s) => Drained(r)
<1>1. /\ s \in States /\ s.running \in SUBSET Tasks /\ Cardinality(s.running) <= MaxConcurrent
      /\ Cardinality(s.running) \in Nat /\ MaxConcurrent \in Nat /\ s.due[t] \in Due
  BY SlotsFinite, DaemonAssumption DEF Kept, States, Sound
<1>2. Good(s)
  OBVIOUS
<1>3. Good([s EXCEPT !.due[t] = Advance(t, @)])
  <2>1. Advance(t, s.due[t]) \in Due
    BY <1>1 DEF Advance, Due
  <2> QED BY <2>1, DueKeeps DEF Drained
<1>4. ASSUME NEW a \in Kept(B, Q), a.queue = s.queue, a.running = s.running
      PROVE  Good(decideDue(a, t))
  <2>1. CASE t \in a.running
    BY <1>4, <2>1 DEF decideDue, Drained
  <2>2. CASE t \notin a.running /\ Cardinality(a.running) >= MaxConcurrent
    <3> DEFINE r == [a EXCEPT !.queue = enqueue(@, t)]
    <3>1. r \in Kept(B, Q) /\ r.running = s.running
      BY <1>4, EnqueueKeeps
    <3>2. decideDue(a, t) = r
      BY <2>2 DEF decideDue
    <3> HIDE DEF r
    <3> QED BY <1>1, <1>4, <2>2, <3>1, <3>2 DEF Drained
  <2>3. CASE t \notin a.running /\ Cardinality(a.running) < MaxConcurrent
    <3>1. decideDue(a, t) = onFire(a, t)
      BY <1>1, <1>4, <2>3 DEF decideDue
    <3>2. onFire(a, t) \in Kept(B, Q) /\ onFire(a, t).queue = s.queue
      BY <1>4, <2>3, OnFireKeeps
    <3> QED BY <1>1, <1>4, <2>3, <3>1, <3>2 DEF Drained
  <2> QED BY <1>1, <1>4, <2>1, <2>2, <2>3
<1>5. CASE t \notin enabled \/ (s.due[t] = "future" /\ ~force)
  <2>1. fireTask(s, t, force) = s
    BY <1>5 DEF fireTask, Deferred, CatchesUp
  <2> QED BY <1>2, <2>1
<1>6. CASE t \in enabled /\ Deferred(s, t) /\ ~(s.due[t] = "future" /\ ~force)
  <2>1. fireTask(s, t, force) = [s EXCEPT !.due[t] = Advance(t, @)]
    BY <1>6 DEF fireTask, Deferred, CatchesUp
  <2> QED BY <1>3, <2>1
<1>7. CASE t \in enabled /\ ~Deferred(s, t) /\ ~(s.due[t] = "future" /\ ~force)
  <2> DEFINE a == IF CatchesUp(s, t) THEN [s EXCEPT !.catchups[t] = @ + 1] ELSE s
  <2>1. fireTask(s, t, force) = decideDue(a, t)
    BY <1>7 DEF fireTask
  <2>2. a \in Kept(B, Q) /\ a.queue = s.queue /\ a.running = s.running
    BY CatchupKeeps DEF CatchesUp
  <2> HIDE DEF a, Good
  <2>3. Good(decideDue(a, t))
    BY <1>4, <2>2
  <2> QED BY <2>1, <2>3 DEF Good
<1> QED BY <1>5, <1>6, <1>7

\* A round of the drain takes the row at the head and leaves the others.
LEMMA DrainRowKeeps ==
  ASSUME NEW B \in SUBSET Tasks, NEW Q \in SUBSET Tasks, NEW s \in Kept(B, Q), NEW t \in Tasks \ Q,
         Cardinality(s.running) < MaxConcurrent => s.queue # <<>>
  PROVE  /\ drainRow(s, t) \in Kept(B, Q)
         /\ Cardinality(s.running) >= MaxConcurrent => drainRow(s, t) = s
         /\ Cardinality(s.running) < MaxConcurrent =>
              Len(drainRow(s, t).queue) = Len(s.queue) - 1
<1>1. /\ s \in States /\ s.running \in SUBSET Tasks /\ Cardinality(s.running) <= MaxConcurrent
      /\ Cardinality(s.running) \in Nat /\ MaxConcurrent \in Nat /\ s.queue \in Seq(Tasks)
      /\ Sound(s)
  BY SlotsFinite, DaemonAssumption DEF Kept, States, Sound
<1>2. CASE Cardinality(s.running) >= MaxConcurrent
  BY <1>1, <1>2 DEF drainRow
<1>3. CASE Cardinality(s.running) < MaxConcurrent
  <2> DEFINE q == Tail(s.queue)  r == [s EXCEPT !.queue = q]
  <2>1. /\ q \in Seq(Tasks) /\ Len(q) = Len(s.queue) - 1 /\ Len(q) \in Nat
        /\ \A i \in 1 .. Len(q) : i + 1 \in 1 .. Len(s.queue) /\ q[i] = s.queue[i + 1]
    BY <1>1, <1>3
  <2> HIDE DEF q
  <2>2. r \in States /\ r.queue = q /\ r.running = s.running /\ r.handler = s.handler
        /\ r.tracked = s.tracked /\ r.due = s.due
    BY <1>1, <2>1 DEF States
  <2> HIDE DEF r
  <2>3. Sound(r)
    <3>1. ASSUME NEW i \in 1 .. Len(q), NEW j \in 1 .. Len(q), q[i] = q[j] PROVE i = j
      <4>1. i + 1 = j + 1
        BY <1>1, <2>1, <3>1 DEF Sound
      <4> QED BY <2>1, <4>1
    <3> QED BY <1>1, <2>2, <3>1 DEF Sound
  <2>4. ASSUME NEW u \in Q PROVE Rests(r, u)
    BY <2>1, <2>2 DEF Kept, Rests
  <2>5. \A u \in B : r.handler[u] = "sending"
    BY <2>2 DEF Kept
  <2>6. r \in Kept(B, Q)
    BY <2>2, <2>3, <2>4, <2>5 DEF Kept
  <2>7. drainRow(s, t) = fireTask(r, t, TRUE)
    <3>1. ~(Cardinality(s.running) >= MaxConcurrent)
      BY <1>1, <1>3
    <3> QED BY <3>1, Zenon DEF drainRow, r, q
  <2>8. fireTask(r, t, TRUE) \in Kept(B, Q) /\ fireTask(r, t, TRUE).queue = q
    BY <1>3, <2>2, <2>6, FireKeeps
  <2>9. drainRow(s, t) \in Kept(B, Q) /\ Len(drainRow(s, t).queue) = Len(s.queue) - 1
    <3> HIDE DEF r
    <3> QED BY <2>1, <2>7, <2>8
  <2> QED BY <1>1, <1>3, <2>9
<1> QED BY <1>1, <1>2, <1>3

\* The drain ends with an empty queue or with every slot taken.
LEMMA DrainKeeps ==
  ASSUME NEW B \in SUBSET Tasks, NEW Q \in SUBSET Tasks, NEW s \in Kept(B, Q)
  PROVE  drainQueue(s) \in Kept(B, Q) /\ Drained(drainQueue(s))
<1> DEFINE q == s.queue  n == Len(q)
<1> DEFINE Full(a) == Cardinality(a.running) = MaxConcurrent
<1> DEFINE I == [i \in 0 .. n |-> {a \in Kept(B, Q) : Full(a) \/ Len(a.queue) = n - i}]
<1>1. q \in Seq(Tasks) /\ n \in Nat /\ \A u \in Q : \A i \in 1 .. n : q[i] # u
  BY DEF Kept, States, Rests
<1>2. \A i \in 1 .. n : q[i] \in Tasks \ Q
  BY <1>1
<1>3. s \in I[0]
  BY <1>1
<1>4. ASSUME NEW i \in 1 .. n, NEW a \in I[i - 1] PROVE drainRow(a, q[i]) \in I[i]
  <2>1. a \in Kept(B, Q) /\ (Full(a) \/ Len(a.queue) = n - (i - 1))
    <3>1. i - 1 \in 0 .. n
      BY <1>1
    <3> HIDE DEF n, q
    <3> QED BY <3>1
  <2>2. /\ Cardinality(a.running) <= MaxConcurrent /\ Cardinality(a.running) \in Nat
        /\ MaxConcurrent \in Nat /\ a.queue \in Seq(Tasks)
    BY <2>1, SlotsFinite, DaemonAssumption DEF Kept, States, Sound
  <2>3. Cardinality(a.running) < MaxConcurrent => a.queue # <<>> /\ Len(a.queue) = n - (i - 1)
    BY <1>1, <2>1, <2>2
  <2>4. q[i] \in Tasks \ Q
    BY <1>2
  <2> DEFINE r == drainRow(a, q[i])
  <2>5. /\ r \in Kept(B, Q)
        /\ Cardinality(a.running) >= MaxConcurrent => r = a
        /\ Cardinality(a.running) < MaxConcurrent => Len(r.queue) = Len(a.queue) - 1
    <3> HIDE DEF q, n, I
    <3> QED BY <2>1, <2>3, <2>4, DrainRowKeeps
  <2> HIDE DEF r, q, n
  <2>6. Full(r) \/ Len(r.queue) = n - i
    <3>1. CASE Cardinality(a.running) >= MaxConcurrent
      BY <2>2, <2>5, <3>1
    <3>2. CASE Cardinality(a.running) < MaxConcurrent
      <4>1. Len(r.queue) = n - (i - 1) - 1
        BY <2>3, <2>5, <3>2
      <4>2. i \in Int /\ n \in Int
        BY <1>1
      <4> QED BY <4>1, <4>2
    <3> QED BY <2>2, <3>1, <3>2
  <2> QED BY <1>1, <2>5, <2>6 DEF r
<1>5. drainQueue(s) \in I[n]
  <2>1. /\ Len(s.queue) \in Nat
        /\ \A i \in 1 .. Len(s.queue) : \A a \in I[i - 1] : drainRow(a, s.queue[i]) \in I[i]
    BY <1>1, <1>4
  <2>2. drainQueue(s) \in I[Len(s.queue)]
    <3> HIDE DEF I
    <3> QED BY <1>3, <2>1, DrainIsALoop, Zenon
  <2> QED BY <2>2
<1> DEFINE r == drainQueue(s)
<1>6. r \in Kept(B, Q) /\ (Full(r) \/ Len(r.queue) = 0)
  <2> HIDE DEF r
  <2> QED BY <1>1, <1>5 DEF r
<1>7. r.queue \in Seq(Tasks)
  <2> HIDE DEF r
  <2> QED BY <1>6 DEF Kept, States
<1> HIDE DEF r
<1>8. Drained(r)
  BY <1>6, <1>7 DEF Drained
<1> QED BY <1>6, <1>8 DEF r

\* A slot that is freed is offered to the queue at once.
LEMMA CompleteKeeps ==
  ASSUME NEW B \in SUBSET Tasks, NEW Q \in SUBSET Tasks, NEW s \in Kept(B, Q), NEW t \in Tasks \ B
  PROVE  completeTask(s, t) \in Kept(B, Q) /\ Drained(completeTask(s, t))
<1> DEFINE r == [s EXCEPT !.running = @ \ {t}, !.handler[t] = "idle"]
<1>1. s \in States /\ Sound(s)
  BY DEF Kept
<1>2. /\ r \in States /\ r.queue = s.queue /\ r.running = s.running \ {t}
      /\ r.handler = [s.handler EXCEPT ![t] = "idle"]
      /\ r.tracked = s.tracked /\ r.due = s.due
  BY <1>1 DEF States, Handlers
<1> HIDE DEF r
<1>3. s.handler \in [Tasks -> Handlers] /\ s.running = {u \in Tasks : s.handler[u] # "idle"}
  BY <1>1 DEF States, Sound
<1>4. r.running = {u \in Tasks : r.handler[u] # "idle"}
  BY <1>2, <1>3
<1>5. Cardinality(r.running) <= MaxConcurrent
  <2>1. IsFiniteSet(s.running) /\ r.running \subseteq s.running
    BY <1>1, <1>2, SlotsFinite DEF States
  <2>2. Cardinality(r.running) <= Cardinality(s.running)
    BY <2>1, FS_Subset
  <2>3. s.running \in SUBSET Tasks /\ r.running \in SUBSET Tasks
    BY <1>1, <1>2 DEF States
  <2> QED BY <1>1, <2>2, <2>3, SlotsFinite, DaemonAssumption DEF Sound
<1>6. Sound(r)
  BY <1>1, <1>2, <1>4, <1>5 DEF Sound
<1>7. \A u \in Q : Rests(r, u)
  BY <1>2 DEF Kept, Rests
<1>8. ASSUME NEW u \in B PROVE r.handler[u] = "sending"
  BY <1>2, <1>3 DEF Kept
<1>9. r \in Kept(B, Q)
  BY <1>2, <1>6, <1>7, <1>8 DEF Kept
<1> QED BY <1>9, DrainKeeps DEF completeTask, r

\* Only the execution of an accepted dispatch is released.
LEMMA ReleaseKeeps ==
  ASSUME NEW B \in SUBSET Tasks, NEW Q \in SUBSET Tasks, NEW s \in Kept(B, Q), NEW t \in Tasks
  PROVE  /\ releaseDispatched(s, t) \in Kept(B, Q)
         /\ Drained(s) => Drained(releaseDispatched(s, t))
<1>1. CASE s.handler[t] = "accepted"
  <2>1. t \notin B
    BY <1>1 DEF Kept
  <2> QED BY <1>1, <2>1, CompleteKeeps DEF releaseDispatched
<1>2. CASE s.handler[t] # "accepted"
  BY <1>2 DEF releaseDispatched
<1> QED BY <1>1, <1>2

\* An entry of the tracker is dropped or marked as retried, or made for a task that
\* does not rest.
LEMMA TrackedKeeps ==
  ASSUME NEW B \in SUBSET Tasks, NEW Q \in SUBSET Tasks, NEW s \in Kept(B, Q), NEW t \in Tasks,
         NEW w \in {"none", "pending", "retried"}, w = "pending" => t \notin Q
  PROVE  /\ [s EXCEPT !.tracked[t] = w] \in Kept(B, Q)
         /\ Drained(s) => Drained([s EXCEPT !.tracked[t] = w])
<1> DEFINE r == [s EXCEPT !.tracked[t] = w]
<1>1. s \in States
  BY DEF Kept
<1>2. /\ r \in States /\ r.queue = s.queue /\ r.running = s.running /\ r.handler = s.handler
      /\ r.due = s.due /\ r.tracked = [s.tracked EXCEPT ![t] = w]
  BY <1>1 DEF States
<1> HIDE DEF r
<1>3. Sound(r) /\ \A u \in B : r.handler[u] = "sending"
  BY <1>2 DEF Kept, Sound
<1>4. ASSUME NEW u \in Q PROVE Rests(r, u)
  BY <1>1, <1>2 DEF Kept, Rests, States
<1>5. Drained(s) => Drained(r)
  BY <1>2 DEF Drained
<1> QED BY <1>2, <1>3, <1>4, <1>5 DEF Kept, r

\* One entry of a rescan that found the runtime dead.
LEMMA InterruptedKeeps ==
  ASSUME NEW B \in SUBSET Tasks, NEW Q \in SUBSET Tasks, NEW s \in Kept(B, Q), NEW t \in Tasks,
         Drained(s)
  PROVE  Interrupted(s, t) \in Kept(B, Q) /\ Drained(Interrupted(s, t))
<1>1. s \in States /\ s.tracked[t] \in {"none", "pending", "retried"}
  BY DEF Kept, States
<1>2. CASE s.tracked[t] = "none"
  BY <1>2 DEF Interrupted
<1>3. CASE s.tracked[t] = "pending"
  <2> DEFINE a == [s EXCEPT !.tracked[t] = "retried"]  b == releaseDispatched(a, t)
  <2>1. a \in Kept(B, Q) /\ Drained(a)
    BY TrackedKeeps
  <2> HIDE DEF a
  <2>2. b \in Kept(B, Q) /\ Drained(b)
    BY <2>1, ReleaseKeeps
  <2> HIDE DEF b
  <2>3. t \in Tasks \ Q
    BY <1>3 DEF Kept, Rests
  <2>4. fireTask(b, t, TRUE) \in Kept(B, Q) /\ Drained(fireTask(b, t, TRUE))
    BY <2>2, <2>3, FireKeeps
  <2>5. Interrupted(s, t) = fireTask(b, t, TRUE)
    BY <1>3 DEF Interrupted, a, b
  <2> QED BY <2>4, <2>5
<1>4. CASE s.tracked[t] = "retried"
  <2> DEFINE a == [s EXCEPT !.tracked[t] = "none"]
  <2>1. a \in Kept(B, Q) /\ Drained(a)
    BY TrackedKeeps
  <2>2. Interrupted(s, t) = releaseDispatched(a, t)
    BY <1>4 DEF Interrupted
  <2> HIDE DEF a
  <2> QED BY <2>1, <2>2, ReleaseKeeps
<1> QED BY <1>1, <1>2, <1>3, <1>4

-----------------------------------------------------------------------------
(* From the variables to a state and back                                  *)

\* The two halves of TypeOK: what the callbacks compute, and the rest.
DaemonType ==
  /\ due \in [Tasks -> Due]
  /\ queue \in Seq(Tasks) /\ Len(queue) = Cardinality(Queued)
  /\ running \subseteq Tasks /\ Cardinality(running) <= MaxConcurrent
  /\ handler \in [Tasks -> Handlers]
  /\ running = {t \in Tasks : handler[t] # "idle"}
  /\ tracked \in [Tasks -> {"none", "pending", "retried"}]
  /\ catchups \in [Tasks -> 0 .. 1]

\* The other half: the clocks' timers, the pipes and the runtime.
RestType ==
  /\ enabled \subseteq Tasks
  /\ booting \subseteq Tasks
  /\ armed \subseteq Tasks
  /\ scan \subseteq Tasks
  /\ sweeping \in BOOLEAN
  /\ frames \subseteq Frame
  /\ up \in BOOLEAN
  /\ desk \in [Tasks -> {"none", "starting", "running"}]
  /\ faults \in 0 .. MaxFaults

\* A request or its answer under way is the only one of the one execution that
\* waits for it: without this, an acceptance could revive an execution that is over.
Asks == {"dispatch", "accept", "reject"}
AsksAreAwaited ==
  /\ \A f \in frames : f.type \in Asks => handler[f.task] = "sending"
  /\ \A f, g \in frames : f.type \in Asks /\ g.type \in Asks /\ f.task = g.task => f = g

\* The inductive invariant of the daemon.
DaemonInv == TypeOK /\ NoIdleSlotWithQueue /\ AsksAreAwaited

\* The tasks whose execution waits for an answer, and the one-shots that rest.
Waiting == {t \in Tasks : handler[t] = "sending"}
Resting == {t \in OneShot : Rests(Now, t)}

\* Counting a queue's tasks finds out whether one is queued twice.
LEMMA QueuedOnce ==
  ASSUME NEW q \in Seq(Tasks)
  PROVE  Len(q) = Cardinality(ToSet(q)) <=> \A i, j \in 1 .. Len(q) : q[i] = q[j] => i = j
<1>1. /\ Len(q) \in Nat /\ q \in Surjection(1 .. Len(q), ToSet(q))
      /\ \A T : q \in Injection(1 .. Len(q), T) =>
           \A i, j \in 1 .. Len(q) : q[i] = q[j] => i = j
      /\ (\A i, j \in 1 .. Len(q) : q[i] = q[j] => i = j) =>
           q \in Injection(1 .. Len(q), ToSet(q))
  BY DEF ToSet, Surjection, Injection, IsInjective
<1>2. IsFiniteSet(1 .. Len(q)) /\ Cardinality(1 .. Len(q)) = Len(q)
  <2>1. ASSUME NEW n \in Nat PROVE IsFiniteSet(1 .. n) /\ Cardinality(1 .. n) = n
    BY FS_Interval
  <2> QED BY <1>1, <2>1
<1>3. Cardinality(ToSet(q)) = Cardinality(1 .. Len(q)) <=> q \in Injection(1 .. Len(q), ToSet(q))
  BY <1>1, <1>2, FS_Surjection
<1> QED BY <1>1, <1>2, <1>3

\* The list of a set holds its elements.
LEMMA ListOfTasks ==
  ASSUME NEW S \in SUBSET Tasks
  PROVE  /\ Len(SetToSeq(S)) \in Nat
         /\ \A i \in 1 .. Len(SetToSeq(S)) : SetToSeq(S)[i] \in S
<1>1. IsFiniteSet(S) /\ Cardinality(S) \in Nat /\ ExistsBijection(1 .. Cardinality(S), S)
  BY DaemonAssumption, FS_Subset, FS_CardinalityType
<1>2. \E f \in [1 .. Cardinality(S) -> S] : IsInjective(f)
  BY <1>1 DEF ExistsBijection, Bijection, Injection
<1>3. SetToSeq(S) \in [1 .. Cardinality(S) -> S]
  BY <1>2 DEF SetToSeq
<1> QED BY <1>1, <1>3

\* The variables as a state.
LEMMA NowIsKept ==
  ASSUME DaemonType
  PROVE  /\ Now \in Kept(Waiting, Resting) /\ Waiting \in SUBSET Tasks /\ Resting \in SUBSET Tasks
         /\ NoIdleSlotWithQueue <=> Drained(Now)
<1>1. Now \in States
  BY DEF DaemonType, Now, States
<1>2. Sound(Now)
  BY QueuedOnce DEF DaemonType, Now, Sound, Queued
<1>3. \A u \in Waiting : Now.handler[u] = "sending"
  BY DEF Now, Waiting
<1>4. Waiting \in SUBSET Tasks /\ Resting \in SUBSET Tasks
  BY DaemonAssumption DEF Waiting, Resting
<1>5. NoIdleSlotWithQueue <=> Drained(Now)
  BY DEF NoIdleSlotWithQueue, Drained, Now
<1>6. \A u \in Resting : Rests(Now, u)
  BY DEF Resting
<1> QED BY <1>1, <1>2, <1>3, <1>4, <1>5, <1>6 DEF Kept

\* A state as the variables.
LEMMA BecomeKeeps ==
  ASSUME NEW B \in SUBSET Tasks, NEW Q \in SUBSET Tasks, NEW s \in Kept(B, Q), Become(s)
  PROVE  /\ DaemonType'
         /\ \A u \in B : handler'[u] = "sending"
         /\ \A u \in Q : u \notin running' /\ u \notin Queued'
         /\ Drained(s) => NoIdleSlotWithQueue'
<1>1. /\ due' = s.due /\ queue' = s.queue /\ running' = s.running
      /\ handler' = s.handler /\ tracked' = s.tracked /\ catchups' = s.catchups
  BY DEF Become
<1>2. s \in States /\ Sound(s)
  BY DEF Kept
<1>3. DaemonType'
  <2>1. queue' \in Seq(Tasks) /\ Len(queue') = Cardinality(Queued')
    BY <1>1, <1>2, QueuedOnce DEF States, Sound, Queued
  <2> QED BY <1>1, <1>2, <2>1 DEF States, Sound, DaemonType
<1>4. \A u \in B : handler'[u] = "sending"
  BY <1>1 DEF Kept
<1>5. ASSUME NEW u \in Q PROVE u \notin running' /\ u \notin Queued'
  BY <1>1, <1>2 DEF Kept, Rests, Queued, ToSet, States
<1>6. Drained(s) => NoIdleSlotWithQueue'
  BY <1>1 DEF Drained, NoIdleSlotWithQueue
<1> QED BY <1>3, <1>4, <1>5, <1>6

-----------------------------------------------------------------------------
(* One step                                                                *)

\* What every step keeps.
Keeps == DaemonInv' /\ \A u \in Resting : u \notin running' /\ u \notin Queued'

\* The parts a step is checked by.
LEMMA StepParts ==
  ASSUME DaemonType', RestType', NoIdleSlotWithQueue', AsksAreAwaited',
         \A u \in Resting : u \notin running' /\ u \notin Queued'
  PROVE  Keeps
BY DEF Keeps, DaemonInv, TypeOK, DaemonType, RestType

\* The steps of the runtime and of the world: the daemon does not move.
LEMMA RuntimeSteps ==
  ASSUME DaemonInv,
         \/ rescan \/ ensureRuntime \/ runtimeStops \/ runtimeDies
         \/ \E t \in Tasks : handleTaskDispatch(t) \/ endRun(t) \/ setEnabled(t)
         \/ \E f \in frames : frameLost(f)
  PROVE  Keeps
<1> USE DEF DaemonInv
<1>1. UNCHANGED daemon
  BY DEF rescan, ensureRuntime, runtimeStops, runtimeDies, RuntimeGone, handleTaskDispatch,
         endRun, setEnabled, frameLost
<1>2. DaemonType' /\ NoIdleSlotWithQueue'
  BY <1>1 DEF daemon, TypeOK, DaemonType, NoIdleSlotWithQueue, Queued
<1>3. \A u \in Resting : u \notin running' /\ u \notin Queued'
  BY <1>1 DEF daemon, Resting, Rests, Now, Queued, ToSet, TypeOK
<1>4. handler' = handler /\ handler \in [Tasks -> Handlers]
  BY <1>1 DEF daemon, TypeOK
<1>5. CASE rescan \/ ensureRuntime
  BY <1>2, <1>3, <1>4, <1>5, StepParts DEF rescan, ensureRuntime, RestType, TypeOK, AsksAreAwaited
<1>6. ASSUME NEW aborts, aborts \subseteq Frame, \A f \in aborts : f.type = "abort",
             RuntimeGone(aborts)
      PROVE  Keeps
  <2>1. /\ \A f \in frames' : f \in aborts \/ f \in frames
        /\ UNCHANGED <<enabled, booting, armed, scan, sweeping>>
        /\ up' = FALSE /\ desk' = [u \in Tasks |-> "none"]
        /\ faults < MaxFaults /\ faults' = faults + 1
    BY <1>6 DEF RuntimeGone
  <2>2. frames' \subseteq Frame /\ faults' \in 0 .. MaxFaults
    BY <1>6, <2>1, DaemonAssumption DEF TypeOK
  <2>3. RestType'
    BY <2>1, <2>2 DEF TypeOK, RestType
  <2>4. AsksAreAwaited'
    BY <1>4, <1>6, <2>1 DEF AsksAreAwaited, Asks
  <2> QED BY <1>2, <1>3, <2>3, <2>4, StepParts
<1>7. CASE runtimeStops \/ runtimeDies
  <2> DEFINE stopped == [type : {"abort"}, task : Busy]
  <2>1. stopped \subseteq Frame /\ \A f \in stopped : f.type = "abort"
    BY DEF Frame, Busy
  <2>2. RuntimeGone(stopped) => Keeps
    <3> HIDE DEF stopped
    <3> QED BY <1>6, <2>1
  <2>3. RuntimeGone({}) => Keeps
    BY <1>6
  <2> QED BY <1>7, <2>2, <2>3 DEF runtimeStops, runtimeDies
<1>8. ASSUME NEW t \in Tasks, handleTaskDispatch(t) PROVE Keeps
  <2>1. PICK f \in frames, answer \in {"accept", "reject"} :
          /\ f.task = t /\ f.type \in {"dispatch", "unread"}
          /\ desk' = IF answer = "accept" THEN [desk EXCEPT ![t] = "starting"] ELSE desk
          /\ frames' = (frames \ {f}) \cup
               (IF f.type = "dispatch" THEN {[type |-> answer, task |-> t]} ELSE {})
    BY <1>8 DEF handleTaskDispatch
  <2>2. RestType'
    BY <1>8, <2>1 DEF handleTaskDispatch, RestType, TypeOK, Frame
  <2>3. AsksAreAwaited'
    <3>1. CASE f.type = "dispatch"
      BY <1>4, <2>1, <3>1 DEF AsksAreAwaited, Asks
    <3>2. CASE f.type # "dispatch"
      BY <1>4, <2>1, <3>2 DEF AsksAreAwaited, Asks
    <3> QED BY <3>1, <3>2
  <2> QED BY <1>2, <1>3, <2>2, <2>3, StepParts
<1>9. ASSUME NEW t \in Tasks, endRun(t) PROVE Keeps
  <2>1. RestType' /\ AsksAreAwaited'
    BY <1>4, <1>9, DaemonAssumption DEF endRun, RestType, TypeOK, AsksAreAwaited, Asks, Frame
  <2> QED BY <1>2, <1>3, <2>1, StepParts
<1>10. ASSUME NEW t \in Tasks, setEnabled(t) PROVE Keeps
  <2>1. RestType' /\ AsksAreAwaited'
    BY <1>4, <1>10, DaemonAssumption DEF setEnabled, RestType, TypeOK, AsksAreAwaited
  <2> QED BY <1>2, <1>3, <2>1, StepParts
<1>11. CASE \E f \in frames : frameLost(f)
  <2>1. RestType' /\ AsksAreAwaited'
    BY <1>4, <1>11, DaemonAssumption DEF frameLost, RestType, TypeOK, AsksAreAwaited
  <2> QED BY <1>2, <1>3, <2>1, StepParts
<1> QED BY <1>5, <1>7, <1>8, <1>9, <1>10, <1>11

\* Time, and the runtime or the worker that fires a task: only nextRunAt moves in
\* the daemon's tables.
LEMMA ClockSteps ==
  ASSUME DaemonInv, NEW t \in Tasks, Tick(t) \/ fireScheduledTask(t) \/ workerFires(t)
  PROVE  Keeps
<1> USE DEF DaemonInv
<1>1. UNCHANGED <<queue, running, handler, tracked, catchups>>
      /\ UNCHANGED <<enabled, armed, scan, sweeping, frames, up, faults>>
  BY DEF Tick, fireScheduledTask, workerFires, rest
<1>2. /\ due' \in [Tasks -> Due] /\ desk' \in [Tasks -> {"none", "starting", "running"}]
      /\ booting' \subseteq Tasks
  BY DEF TypeOK, Tick, fireScheduledTask, workerFires, Advance, Due, rest
<1>3. DaemonType' /\ NoIdleSlotWithQueue' /\ AsksAreAwaited' /\ RestType'
  BY <1>1, <1>2 DEF TypeOK, DaemonType, RestType, NoIdleSlotWithQueue, Queued, AsksAreAwaited
<1>4. \A u \in Resting : u \notin running' /\ u \notin Queued'
  BY <1>1 DEF Resting, Rests, Now, Queued, ToSet, TypeOK
<1> QED BY <1>3, <1>4, StepParts

\* A callback that leaves the frames alone and everyone who waits for an answer
\* waiting.
LEMMA Callback ==
  ASSUME DaemonInv, NEW s \in Kept(Waiting, Resting), Drained(s), Become(s),
         frames' = frames, RestType'
  PROVE  Keeps
<1>1. Waiting \in SUBSET Tasks /\ Resting \in SUBSET Tasks
  BY DaemonAssumption DEF Waiting, Resting
<1>2. /\ DaemonType' /\ NoIdleSlotWithQueue'
      /\ \A u \in Waiting : handler'[u] = "sending"
      /\ \A u \in Resting : u \notin running' /\ u \notin Queued'
  BY <1>1, BecomeKeeps
<1>3. AsksAreAwaited'
  BY <1>2 DEF DaemonInv, TypeOK, AsksAreAwaited, Waiting, Frame
<1> QED BY <1>2, <1>3, StepParts

\* timer
LEMMA TimerStep ==
  ASSUME DaemonInv, NEW t \in Tasks, timer(t)
  PROVE  Keeps
<1>1. DaemonType /\ NoIdleSlotWithQueue
  BY DEF DaemonInv, TypeOK, DaemonType
<1>2. t \in Tasks \ Resting
  BY DEF timer, Resting, Rests, Now
<1>3. /\ fireTask(Now, t, FALSE) \in Kept(Waiting, Resting)
      /\ Drained(fireTask(Now, t, FALSE))
  BY <1>1, <1>2, NowIsKept, FireKeeps
<1>4. Become(fireTask(Now, t, FALSE)) /\ frames' = frames
  BY DEF timer
<1>5. RestType'
  BY DEF timer, DaemonInv, TypeOK, RestType
<1> QED BY <1>3, <1>4, <1>5, Callback

\* The startup catch-up fires overdue tasks only; a task that rests is not overdue.
LEMMA CatchupStep ==
  ASSUME DaemonInv, startupCatchup
  PROVE  Keeps
<1> DEFINE overdue == {t \in enabled : due[t] \in {"now", "late", "stale"}}
<1> DEFINE q == SetToSeq(overdue)
<1> DEFINE K == {s \in Kept(Waiting, Resting) : Drained(s)}
<1> DEFINE I == [i \in 0 .. Len(q) |-> K]
<1>1. DaemonType /\ NoIdleSlotWithQueue /\ enabled \subseteq Tasks
  BY DEF DaemonInv, TypeOK, DaemonType
<1>2. /\ Now \in K /\ Waiting \in SUBSET Tasks /\ Resting \in SUBSET Tasks
  BY <1>1, NowIsKept
<1>3. overdue \in SUBSET Tasks /\ \A t \in overdue : t \in Tasks \ Resting
  BY <1>1 DEF Resting, Rests, Now
<1>4. Len(q) \in Nat /\ \A i \in 1 .. Len(q) : q[i] \in Tasks \ Resting
  <2> HIDE DEF overdue
  <2> QED BY <1>3, ListOfTasks
<1>5. ASSUME NEW s \in K, NEW t \in Tasks \ Resting PROVE fireDue(s, t) \in K
  BY <1>2, FireKeeps DEF fireDue
<1>6. /\ Now \in I[0]
      /\ \A i \in 1 .. Len(q) : \A a \in I[i - 1] : fireDue(a, q[i]) \in I[i]
  <2> HIDE DEF q, K
  <2>1. \A i \in 0 .. Len(q) : I[i] = K
    OBVIOUS
  <2>2. Now \in I[0]
    BY <1>2, <1>4, <2>1
  <2>3. ASSUME NEW i \in 1 .. Len(q), NEW a \in I[i - 1] PROVE fireDue(a, q[i]) \in I[i]
    <3>1. i - 1 \in 0 .. Len(q) /\ i \in 0 .. Len(q)
      BY <1>4
    <3>2. I[i - 1] = K /\ I[i] = K
      BY <2>1, <3>1
    <3> HIDE DEF I
    <3> QED BY <1>4, <1>5, <3>2
  <2> QED BY <2>2, <2>3
<1>7. Loop(fireDue, Now, q) \in I[Len(q)]
  <2> HIDE DEF q, I
  <2> QED BY <1>4, <1>6, SweepLoop, Zenon
<1>8. PICK s : s = Loop(fireDue, Now, q)
  OBVIOUS
<1>9. I[Len(q)] = K
  <2> HIDE DEF q, K
  <2> QED BY <1>4
<1>10. s \in K
  <2> HIDE DEF q, I
  <2> QED BY <1>7, <1>8, <1>9, Zenon
<1>11. Become(s) /\ frames' = frames
  BY <1>8, Zenon DEF startupCatchup
<1>12. RestType'
  BY DEF startupCatchup, DaemonInv, TypeOK, RestType
<1> HIDE DEF q, I
<1> QED BY <1>10, <1>11, <1>12, Callback

\* A rescan that finds the runtime dead releases the slots of the dispatches it
\* lost and retries each of them once.
LEMMA RescanStep ==
  ASSUME DaemonInv, rescanProbed
  PROVE  Keeps
<1> DEFINE q == SetToSeq(scan)
<1> DEFINE K == {s \in Kept(Waiting, Resting) : Drained(s)}
<1> DEFINE I == [i \in 0 .. Len(q) |-> K]
<1>1. DaemonType /\ NoIdleSlotWithQueue /\ scan \in SUBSET Tasks
  BY DEF DaemonInv, TypeOK, DaemonType
<1>2. /\ Now \in K /\ Waiting \in SUBSET Tasks /\ Resting \in SUBSET Tasks
  BY <1>1, NowIsKept
<1>3. RestType' /\ frames' = frames
  BY DaemonAssumption
  DEF rescanProbed, ProbeMissesRuntime, DaemonInv, TypeOK, RestType, NoScan
<1>4. CASE UNCHANGED daemon
  <2>1. Become(Now)
    BY <1>4 DEF daemon, Become, Now
  <2> QED BY <1>2, <1>3, <2>1, Callback
<1>5. CASE Become(Loop(Interrupted, Now, q))
  <2>1. Len(q) \in Nat /\ \A i \in 1 .. Len(q) : q[i] \in Tasks
    BY <1>1, ListOfTasks
  <2>2. ASSUME NEW s \in K, NEW t \in Tasks PROVE Interrupted(s, t) \in K
    BY <1>2, InterruptedKeeps
  <2>3. /\ Now \in I[0]
        /\ \A i \in 1 .. Len(q) : \A a \in I[i - 1] : Interrupted(a, q[i]) \in I[i]
    <3> HIDE DEF q, K
    <3>1. \A i \in 0 .. Len(q) : I[i] = K
      OBVIOUS
    <3>2. Now \in I[0]
      BY <1>2, <2>1, <3>1
    <3>3. ASSUME NEW i \in 1 .. Len(q), NEW a \in I[i - 1] PROVE Interrupted(a, q[i]) \in I[i]
      <4>1. i - 1 \in 0 .. Len(q) /\ i \in 0 .. Len(q)
        BY <2>1
      <4>2. I[i - 1] = K /\ I[i] = K
        BY <3>1, <4>1
      <4> HIDE DEF I
      <4> QED BY <2>1, <2>2, <4>2
    <3> QED BY <3>2, <3>3
  <2>4. Loop(Interrupted, Now, q) \in I[Len(q)]
    <3> HIDE DEF q, I
    <3> QED BY <2>1, <2>3, RescanLoop, Zenon
  <2>5. PICK s : s = Loop(Interrupted, Now, q)
    OBVIOUS
  <2>6. I[Len(q)] = K
    <3> HIDE DEF q, K
    <3> QED BY <2>1
  <2>7. s \in K
    <3> HIDE DEF q, I
    <3> QED BY <2>4, <2>5, <2>6, Zenon
  <2>8. Become(s)
    BY <1>5, <2>5, Zenon
  <2> HIDE DEF q, I
  <2> QED BY <1>3, <2>7, <2>8, Callback
<1> QED BY <1>4, <1>5, Zenon DEF rescanProbed

\* workerExits
LEMMA WorkerStep ==
  ASSUME DaemonInv, NEW t \in Tasks, workerExits(t)
  PROVE  Keeps
<1>1. DaemonType /\ NoIdleSlotWithQueue
  BY DEF DaemonInv, TypeOK, DaemonType
<1>2. t \in Tasks \ Waiting
  BY DEF workerExits, Waiting
<1>3. completeTask(Now, t) \in Kept(Waiting, Resting) /\ Drained(completeTask(Now, t))
  BY <1>1, <1>2, NowIsKept, CompleteKeeps
<1>4. Become(completeTask(Now, t)) /\ frames' = frames
  BY DEF workerExits
<1>5. RestType'
  BY DEF workerExits, DaemonInv, TypeOK, RestType
<1> QED BY <1>3, <1>4, <1>5, Callback

\* A callback that takes frames away and answers for at most one execution.
LEMMA FrameCallback ==
  ASSUME DaemonInv, NEW t \in Tasks, NEW B \in SUBSET Tasks, Waiting \ {t} \subseteq B,
         NEW s \in Kept(B, Resting), Drained(s), Become(s), RestType',
         \A f \in frames' : f.type \in Asks => f \in frames,
         t \in B \/ \A f \in frames' : f.type \in Asks => f.task # t
  PROVE  Keeps
<1>1. Resting \in SUBSET Tasks
  BY DaemonAssumption DEF Resting
<1>2. /\ DaemonType' /\ NoIdleSlotWithQueue'
      /\ \A u \in B : handler'[u] = "sending"
      /\ \A u \in Resting : u \notin running' /\ u \notin Queued'
  BY <1>1, BecomeKeeps
<1>3. AsksAreAwaited'
  <2>1. ASSUME NEW f \in frames', f.type \in Asks PROVE handler'[f.task] = "sending"
    <3>1. f \in frames /\ f.task \in Waiting
      BY <2>1 DEF DaemonInv, TypeOK, AsksAreAwaited, Waiting, Frame
    <3> QED BY <1>2, <2>1, <3>1
  <2>2. ASSUME NEW f \in frames', NEW g \in frames', f.type \in Asks, g.type \in Asks,
               f.task = g.task
        PROVE  f = g
    BY <2>2 DEF DaemonInv, AsksAreAwaited
  <2> QED BY <2>1, <2>2 DEF AsksAreAwaited
<1> QED BY <1>2, <1>3, StepParts

\* onFrame: a completion or an abort names the task, so it may release an execution
\* that is not its own; the slot is offered to the queue all the same.
LEMMA OnFrameStep ==
  ASSUME DaemonInv, NEW t \in Tasks, onFrame(t)
  PROVE  Keeps
<1>1. DaemonType /\ NoIdleSlotWithQueue
  BY DEF DaemonInv, TypeOK, DaemonType
<1> DEFINE a == [Now EXCEPT !.tracked[t] = "none"]  r == releaseDispatched(a, t)
<1>2. a \in Kept(Waiting, Resting) /\ Drained(a)
  BY <1>1, NowIsKept, TrackedKeeps
<1>3. r \in Kept(Waiting, Resting) /\ Drained(r)
  <2> HIDE DEF a
  <2> QED BY <1>1, <1>2, NowIsKept, ReleaseKeeps
<1>4. PICK f \in frames : frames' = frames \ {f}
  BY DEF onFrame
<1>5. Become(r)
  BY DEF onFrame
<1>6. RestType'
  BY <1>4 DEF onFrame, DaemonInv, TypeOK, RestType
<1>7. Waiting \in SUBSET Tasks /\ \A g \in frames' : g \in frames
  BY <1>1, <1>4, NowIsKept
<1>8. t \in Waiting \/ \A g \in frames' : g.type \in Asks => g.task # t
  BY <1>7 DEF DaemonInv, TypeOK, AsksAreAwaited, Waiting, Frame
<1> HIDE DEF r
<1> QED BY <1>3, <1>5, <1>6, <1>7, <1>8, FrameCallback

\* An execution under way moves on and keeps its slot.
LEMMA MoveKeeps ==
  ASSUME NEW B \in SUBSET Tasks, NEW Q \in SUBSET Tasks, NEW s \in Kept(B, Q), NEW t \in Tasks,
         s.handler[t] # "idle", NEW h \in Handlers \ {"idle"}
  PROVE  /\ [s EXCEPT !.handler[t] = h] \in Kept(B \ {t}, Q)
         /\ h = "sending" => [s EXCEPT !.handler[t] = h] \in Kept(B \cup {t}, Q)
         /\ Drained(s) => Drained([s EXCEPT !.handler[t] = h])
         /\ t \in Tasks \ Q
<1> DEFINE r == [s EXCEPT !.handler[t] = h]
<1>1. s \in States /\ Sound(s)
  BY DEF Kept
<1>2. /\ r \in States /\ r.queue = s.queue /\ r.running = s.running
      /\ r.handler = [s.handler EXCEPT ![t] = h] /\ r.tracked = s.tracked /\ r.due = s.due
  BY <1>1 DEF States
<1> HIDE DEF r
<1>3. s.handler \in [Tasks -> Handlers] /\ s.running = {u \in Tasks : s.handler[u] # "idle"}
  BY <1>1 DEF States, Sound
<1>4. r.running = {u \in Tasks : r.handler[u] # "idle"}
  BY <1>2, <1>3
<1>5. Sound(r)
  BY <1>1, <1>2, <1>4 DEF Sound
<1>6. \A u \in Q : Rests(r, u)
  BY <1>2 DEF Kept, Rests
<1>7. /\ \A u \in B \ {t} : r.handler[u] = "sending"
      /\ h = "sending" => \A u \in B \cup {t} : r.handler[u] = "sending"
  BY <1>2, <1>3 DEF Kept
<1>8. t \notin Q
  BY <1>3 DEF Kept, Rests
<1>9. Drained(s) => Drained(r)
  BY <1>2 DEF Drained
<1> QED BY <1>2, <1>5, <1>6, <1>7, <1>8, <1>9 DEF Kept, r

\* spawnWorker takes an execution over.
LEMMA SpawnKeeps ==
  ASSUME NEW B \in SUBSET Tasks, NEW Q \in SUBSET Tasks, NEW s \in Kept(B, Q), NEW t \in Tasks,
         s.handler[t] # "idle", Drained(s)
  PROVE  spawnWorker(s, t) \in Kept(B \ {t}, Q) /\ Drained(spawnWorker(s, t))
<1>1. "worker" \in Handlers \ {"idle"}
  BY DEF Handlers
<1> QED BY <1>1, MoveKeeps, Zenon DEF spawnWorker

\* probed: the request is sent by an execution that had none under way.
LEMMA ProbedStep ==
  ASSUME DaemonInv, NEW t \in Tasks, probed(t)
  PROVE  Keeps
<1>1. DaemonType /\ NoIdleSlotWithQueue
  BY DEF DaemonInv, TypeOK, DaemonType
<1>2. /\ Now \in Kept(Waiting, Resting) /\ Drained(Now) /\ Now.handler[t] # "idle"
      /\ Waiting \in SUBSET Tasks /\ Resting \in SUBSET Tasks /\ t \notin Waiting
  BY <1>1, NowIsKept DEF probed, Now, Waiting
<1> DEFINE sent == [Now EXCEPT !.handler[t] = "sending", !.tracked[t] = "pending"]
<1>3. CASE /\ Become(sent) /\ frames' = frames \cup {[type |-> "dispatch", task |-> t]}
           /\ UNCHANGED <<booting, faults>>
  <2> DEFINE a == [Now EXCEPT !.handler[t] = "sending"]  f == [type |-> "dispatch", task |-> t]
  <2> DEFINE r == [a EXCEPT !.tracked[t] = "pending"]
  <2>1. a \in Kept(Waiting \cup {t}, Resting) /\ Drained(a) /\ t \in Tasks \ Resting
    <3>1. "sending" \in Handlers \ {"idle"}
      BY DEF Handlers
    <3> QED BY <1>2, <3>1, MoveKeeps, Zenon
  <2>2. Become(r)
    BY <1>3 DEF Now
  <2> HIDE DEF a
  <2>3. r \in Kept(Waiting \cup {t}, Resting) /\ Drained(r)
    BY <1>2, <2>1, TrackedKeeps
  <2> HIDE DEF r
  <2>4. frames' = frames \cup {f}
    BY <1>3
  <2>5. RestType'
    BY <1>3, <2>4 DEF probed, DaemonInv, TypeOK, RestType, Frame
  <2>6. /\ DaemonType' /\ NoIdleSlotWithQueue'
        /\ \A u \in Waiting \cup {t} : handler'[u] = "sending"
        /\ \A u \in Resting : u \notin running' /\ u \notin Queued'
    BY <1>2, <2>2, <2>3, BecomeKeeps
  <2>7. \A g \in frames : g.type \in Asks => g.task \in Waiting
    BY DEF DaemonInv, TypeOK, AsksAreAwaited, Waiting, Frame
  <2>8. AsksAreAwaited'
    BY <1>2, <2>4, <2>6, <2>7 DEF DaemonInv, AsksAreAwaited
  <2> QED BY <2>5, <2>6, <2>8, StepParts
<1>4. CASE /\ ProbeMissesRuntime /\ Become(spawnWorker(Now, t)) /\ frames' = frames
           /\ booting' = booting \cup {t}
  <2>1. spawnWorker(Now, t) \in Kept(Waiting, Resting) /\ Drained(spawnWorker(Now, t))
    <3>1. Waiting \ {t} = Waiting
      BY <1>2
    <3> QED BY <1>2, <3>1, SpawnKeeps
  <2>2. Become(spawnWorker(Now, t)) /\ frames' = frames
    BY <1>4
  <2>3. RestType'
    BY <1>4, DaemonAssumption DEF probed, ProbeMissesRuntime, DaemonInv, TypeOK, RestType
  <2> QED BY <2>1, <2>2, <2>3, Callback
<1> QED BY <1>3, <1>4 DEF probed

\* answered: an acceptance keeps the slot, a refusal gives it back.
LEMMA AnsweredStep ==
  ASSUME DaemonInv, NEW t \in Tasks, answered(t)
  PROVE  Keeps
<1>1. DaemonType /\ NoIdleSlotWithQueue
  BY DEF DaemonInv, TypeOK, DaemonType
<1>2. PICK f \in frames :
        /\ f.task = t /\ f.type \in {"accept", "reject"}
        /\ Become(IF f.type = "accept"
                    THEN [Now EXCEPT !.handler[t] = "accepted"]
                    ELSE completeTask([Now EXCEPT !.tracked[t] = "none"], t))
        /\ frames' = frames \ {f}
        /\ UNCHANGED <<enabled, booting, armed, scan, sweeping, up, desk, faults>>
  BY DEF answered
<1>3. /\ Now \in Kept(Waiting, Resting) /\ Drained(Now)
      /\ Waiting \in SUBSET Tasks /\ Resting \in SUBSET Tasks
  BY <1>1, NowIsKept
<1>4. Now.handler[t] = "sending"
  BY <1>2 DEF DaemonInv, AsksAreAwaited, Asks, Now
<1>5. RestType'
  BY <1>2 DEF DaemonInv, TypeOK, RestType
<1>6. /\ \A g \in frames' : g \in frames
      /\ \A g \in frames' : g.type \in Asks => g.task # t
  BY <1>2 DEF DaemonInv, AsksAreAwaited, Asks
<1> DEFINE B == Waiting \ {t}
<1>7. ASSUME NEW s \in Kept(B, Resting), Drained(s), Become(s) PROVE Keeps
  <2>1. B \in SUBSET Tasks /\ Waiting \ {t} \subseteq B
    BY <1>3
  <2> HIDE DEF B
  <2> QED BY <1>5, <1>6, <1>7, <2>1, FrameCallback
<1>8. CASE f.type = "accept"
  <2> DEFINE r == [Now EXCEPT !.handler[t] = "accepted"]
  <2>1. r \in Kept(B, Resting) /\ Drained(r)
    BY <1>3, <1>4, MoveKeeps DEF Handlers
  <2>2. Become(r)
    BY <1>2, <1>8
  <2> HIDE DEF r, B
  <2> QED BY <1>7, <2>1, <2>2
<1>9. CASE f.type = "reject"
  <2> DEFINE a == [Now EXCEPT !.tracked[t] = "none"]  r == completeTask(a, t)
  <2>1. a \in Kept(Waiting, Resting)
    BY <1>3, TrackedKeeps
  <2> HIDE DEF a
  <2>2. a \in Kept(B, Resting) /\ B \in SUBSET Tasks /\ t \in Tasks \ B
    BY <1>3, <2>1 DEF Kept
  <2>3. r \in Kept(B, Resting) /\ Drained(r)
    <3> HIDE DEF B
    <3> QED BY <1>3, <2>2, CompleteKeeps
  <2>4. Become(r)
    BY <1>2, <1>9 DEF a
  <2> HIDE DEF r, B
  <2> QED BY <1>7, <2>3, <2>4
<1> QED BY <1>2, <1>8, <1>9

\* unanswered: the worker takes over, and the answer, should it still come, is not
\* for anyone.
LEMMA UnansweredStep ==
  ASSUME DaemonInv, NEW t \in Tasks, unanswered(t)
  PROVE  Keeps
<1>1. DaemonType /\ NoIdleSlotWithQueue
  BY DEF DaemonInv, TypeOK, DaemonType
<1> DEFINE late == {f \in frames : f.task = t /\ f.type \in Asks}
<1> DEFINE a == [Now EXCEPT !.tracked[t] = "none"]  r == spawnWorker(a, t)
<1> DEFINE B == Waiting \ {t}
<1>2. /\ handler[t] = "sending" /\ Become(r)
      /\ frames' = (frames \ late) \cup
           {[f EXCEPT !.type = "unread"] : f \in {g \in late : g.type = "dispatch"}}
      /\ UNCHANGED <<enabled, armed, scan, sweeping, up, desk>> /\ booting' = booting \cup {t}
      /\ faults' = faults \/ (faults < MaxFaults /\ faults' = faults + 1)
  BY DEF unanswered, Asks
<1>3. /\ Now \in Kept(Waiting, Resting) /\ Drained(Now)
      /\ Waiting \in SUBSET Tasks /\ Resting \in SUBSET Tasks
  BY <1>1, NowIsKept
<1>4. a \in Kept(Waiting, Resting) /\ Drained(a)
  BY <1>3, TrackedKeeps
<1>5. a.handler[t] # "idle"
  BY <1>2 DEF Now
<1>6. r \in Kept(B, Resting) /\ Drained(r)
  <2> HIDE DEF a
  <2> QED BY <1>3, <1>4, <1>5, SpawnKeeps
<1> HIDE DEF r, a
<1>7. ASSUME NEW f \in frames' PROVE f \in Frame /\ (f.type \in Asks => f \in frames /\ f.task # t)
  <2>1. CASE f \in frames \ late
    BY <2>1 DEF DaemonInv, TypeOK
  <2>2. CASE f \notin frames \ late
    <3>1. PICK g \in late : f = [g EXCEPT !.type = "unread"]
      BY <1>2, <2>2
    <3>2. g \in Frame
      BY DEF DaemonInv, TypeOK
    <3> QED BY <3>1, <3>2 DEF Frame, Asks
  <2> QED BY <2>1, <2>2
<1>8. RestType'
  <2>1. frames' \subseteq Frame /\ faults' \in 0 .. MaxFaults
    BY <1>2, <1>7, DaemonAssumption DEF DaemonInv, TypeOK
  <2> QED BY <1>2, <2>1 DEF DaemonInv, TypeOK, RestType
<1>9. B \in SUBSET Tasks /\ Waiting \ {t} \subseteq B
  BY <1>3
<1> HIDE DEF B
<1> QED BY <1>2, <1>6, <1>7, <1>8, <1>9, FrameCallback

\* daemonDies: the queue survives, and the new daemon drains it at once.
LEMMA DaemonDiesStep ==
  ASSUME DaemonInv, daemonDies
  PROVE  Keeps
<1> DEFINE s == [due |-> due, queue |-> queue, running |-> {},
       handler |-> [t \in Tasks |-> "idle"], tracked |-> [t \in Tasks |-> "none"],
       catchups |-> [t \in Tasks |-> 0]]
<1>1. DaemonType
  BY DEF DaemonInv, TypeOK, DaemonType
<1>2. s \in States
  BY <1>1 DEF DaemonType, States, Handlers
<1>3. Sound(s)
  <2>1. Cardinality({}) = 0
    BY FS_EmptySet
  <2> QED BY <1>1, <2>1, QueuedOnce, DaemonAssumption DEF DaemonType, Sound, Queued
<1>4. ASSUME NEW u \in Resting PROVE Rests(s, u)
  BY DaemonAssumption DEF Resting, Rests, Now
<1>5. s \in Kept({}, Resting) /\ Resting \in SUBSET Tasks
  BY <1>2, <1>3, <1>4, DaemonAssumption DEF Kept, Resting
<1>6. Become(drainQueue(s))
  BY DEF daemonDies
<1> HIDE DEF s
<1>7. drainQueue(s) \in Kept({}, Resting) /\ Drained(drainQueue(s))
  BY <1>5, DrainKeeps
<1>8. /\ DaemonType' /\ NoIdleSlotWithQueue'
      /\ \A u \in Resting : u \notin running' /\ u \notin Queued'
  BY <1>5, <1>6, <1>7, BecomeKeeps
<1>9. /\ frames' = {[f EXCEPT !.type = "unread"] :
                      f \in {g \in frames : g.type \in {"dispatch", "unread"}}}
      /\ armed' = {t \in Tasks : due[t] # "none"} /\ scan' = {} /\ sweeping' = TRUE
      /\ UNCHANGED <<enabled, booting, up, desk>> /\ faults < MaxFaults /\ faults' = faults + 1
  BY DEF daemonDies, NoScan
<1>10. ASSUME NEW f \in frames' PROVE f \in Frame /\ f.type = "unread"
  <2>1. PICK g \in frames : f = [g EXCEPT !.type = "unread"]
    BY <1>9
  <2>2. g \in Frame
    BY DEF DaemonInv, TypeOK
  <2> QED BY <2>1, <2>2 DEF Frame
<1>11. RestType'
  <2>1. frames' \subseteq Frame /\ faults' \in 0 .. MaxFaults
    BY <1>9, <1>10, DaemonAssumption DEF DaemonInv, TypeOK
  <2> QED BY <1>9, <2>1 DEF DaemonInv, TypeOK, RestType
<1>12. AsksAreAwaited'
  BY <1>10 DEF AsksAreAwaited, Asks
<1> QED BY <1>8, <1>11, <1>12, StepParts

\* Nothing is queued, running or under way at the start.
LEMMA InitDaemon == Init => DaemonInv
<1> SUFFICES ASSUME Init PROVE DaemonInv
  OBVIOUS
<1>1. queue \in Seq(Tasks) /\ Len(queue) = 0
  BY DEF Init
<1>2. Len(queue) = Cardinality(Queued)
  <2>1. \A i, j \in 1 .. Len(queue) : queue[i] = queue[j] => i = j
    BY <1>1
  <2> QED BY <1>1, <2>1, QueuedOnce DEF Queued
<1>3. running = {t \in Tasks : handler[t] # "idle"} /\ running \subseteq Tasks
  BY DEF Init
<1>4. Cardinality(running) <= MaxConcurrent /\ faults \in 0 .. MaxFaults
  BY FS_EmptySet, DaemonAssumption DEF Init
<1>5. /\ due \in [Tasks -> Due] /\ handler \in [Tasks -> Handlers]
      /\ tracked \in [Tasks -> {"none", "pending", "retried"}] /\ catchups \in [Tasks -> 0 .. 1]
      /\ desk \in [Tasks -> {"none", "starting", "running"}]
  BY DEF Init, Due, Handlers
<1>6. /\ enabled \subseteq Tasks /\ booting \subseteq Tasks /\ armed \subseteq Tasks /\ scan \subseteq Tasks
      /\ sweeping \in BOOLEAN /\ frames \subseteq Frame /\ up \in BOOLEAN
  BY DEF Init, NoScan
<1>7. TypeOK
  BY <1>1, <1>2, <1>3, <1>4, <1>5, <1>6 DEF TypeOK
<1>8. NoIdleSlotWithQueue /\ AsksAreAwaited
  BY DEF Init, NoIdleSlotWithQueue, AsksAreAwaited
<1> QED BY <1>7, <1>8 DEF DaemonInv

\* Every step, one action at a time.
LEMMA NextKeeps ==
  ASSUME DaemonInv, Next
  PROVE  Keeps
<1>1. ASSUME NEW t \in Tasks,
             \/ Tick(t) \/ timer(t) \/ probed(t) \/ answered(t) \/ unanswered(t)
             \/ workerFires(t) \/ workerExits(t) \/ onFrame(t) \/ setEnabled(t)
             \/ handleTaskDispatch(t) \/ fireScheduledTask(t) \/ endRun(t)
      PROVE  Keeps
  BY <1>1, ClockSteps, TimerStep, ProbedStep, AnsweredStep, UnansweredStep, WorkerStep,
     OnFrameStep, RuntimeSteps
<1>2. CASE startupCatchup
  BY <1>2, CatchupStep
<1>3. CASE rescanProbed
  BY <1>3, RescanStep
<1>4. CASE daemonDies
  BY <1>4, DaemonDiesStep
<1>5. CASE rescan \/ ensureRuntime \/ runtimeStops \/ runtimeDies \/ \E f \in frames : frameLost(f)
  BY <1>5, RuntimeSteps
<1> QED BY <1>1, <1>2, <1>3, <1>4, <1>5 DEF Next

\* A step that changes nothing.
LEMMA StutterKeeps ==
  ASSUME DaemonInv, UNCHANGED vars
  PROVE  DaemonInv'
BY DEF DaemonInv, TypeOK, NoIdleSlotWithQueue, AsksAreAwaited, Queued, vars, daemon, rest

\* DaemonInv always holds.
LEMMA DaemonIsSound == Spec => []DaemonInv
<1>1. DaemonInv /\ [Next]_vars => DaemonInv'
  BY NextKeeps, StutterKeeps DEF Keeps
<1> QED BY InitDaemon, <1>1, PTL DEF Spec

\* The daemon's tables are well formed whatever the interleaving of timers, frames,
\* crashes and edits: no task is queued twice, TaskConcurrencyManager never holds
\* more slots than taskMaxConcurrent, and a slot is held exactly while an execution
\* of its task is under way.
THEOREM DaemonTypeCorrect == Spec => []TypeOK
<1>1. DaemonInv => TypeOK
  BY DEF DaemonInv
<1> QED BY DaemonIsSound, <1>1, PTL

\* No queued task waits beside a free slot, for any number of tasks and slots:
\* every callback of the daemon that frees a slot drains the queue, and the drain
\* stops only at a full house or an empty queue.
THEOREM SlotsServeTheQueue == Spec => []NoIdleSlotWithQueue
<1>1. DaemonInv => NoIdleSlotWithQueue
  BY DEF DaemonInv
<1> QED BY DaemonIsSound, <1>1, PTL

\* A one-shot task that has fired is taken up again only as the retry of a dispatch
\* whose runtime was found dead, whatever fires, drains, sweeps or restarts.
THEOREM OneShotsStayFired == Spec => OneShotsFireOnce
<1> DEFINE A == \A t \in OneShot :
                  /\ due[t] = "none" /\ t \notin running \cup Queued
                  /\ t \in running' \cup Queued'
                  => tracked[t] = "pending"
<1>1. DaemonInv /\ [Next]_vars => [A]_vars
  <2> SUFFICES ASSUME DaemonInv, Next, NEW t \in OneShot,
                      due[t] = "none", t \notin running \cup Queued,
                      t \in running' \cup Queued', tracked[t] # "pending"
               PROVE  FALSE
    OBVIOUS
  <2>1. t \in Resting
    BY DEF Resting, Rests, Now, Queued, ToSet, DaemonInv, TypeOK
  <2> QED BY <2>1, NextKeeps DEF Keeps
<1>2. DaemonInv /\ [Next]_vars => DaemonInv'
  BY NextKeeps, StutterKeeps DEF Keeps
<1>3. OneShotsFireOnce <=> [][A]_vars
  BY PTL DEF OneShotsFireOnce
<1> HIDE DEF A
<1> QED BY InitDaemon, <1>1, <1>2, <1>3, PTL DEF Spec
=============================================================================
