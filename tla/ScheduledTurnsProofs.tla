------------------------ MODULE ScheduledTurnsProofs ------------------------
(***************************************************************************)
(* Proofs about ScheduledTurns, for any ids, policies, batch size, caps    *)
(* and times: the type invariant, that no timer disappears, that a fired   *)
(* turn that writes commits once, and that a live scope's wake stands.     *)
(***************************************************************************)
EXTENDS ScheduledTurns, FiniteSetTheorems, TLAPS

\* Every set of numbers that is not empty has a least one.
LEMMA NatMin ==
  ASSUME NEW T \in SUBSET Nat, T # {}
  PROVE  \E x \in T : \A y \in T : x <= y
<1> DEFINE R == {p \in Nat \X Nat : p[1] < p[2]}
<1>1. IsWellFoundedOn(R, Nat)
  BY NatLessThanWellFounded DEF OpToRel
<1>2. PICK x \in T : \A y \in T : <<y, x>> \notin R
  <2> HIDE DEF R
  <2> QED BY <1>1, WFMin
<1>3. \A y \in T : y \in Nat /\ x \in Nat /\ ~(y < x)
  BY <1>2
<1>4. \A y \in T : x <= y
  BY <1>3
<1> QED BY <1>4

(***************************************************************************)
(* The queue and the alarm.                                                *)
(***************************************************************************)

LEMMA Times ==
  /\ Never \in Nat /\ MaxClock < Never /\ Due \subseteq Nat
  /\ \A t \in Due : t < Never
BY ScheduleAssumption DEF Never, Due

QueueType == [Id -> Due \union {Never}]

\* The next wake is a time, and no entry of the future is before it.
LEMMA NextAfter ==
  ASSUME NEW q \in QueueType, clock \in 0..MaxClock
  PROVE  /\ nextScheduledAfter(q) \in Nat
         /\ nextScheduledAfter(q) <= Never
         /\ \A i \in Id : q[i] > clock => nextScheduledAfter(q) <= q[i]
<1> DEFINE T == {t \in Due \union {Never} :
                   t > clock /\ (t = Never \/ \E i \in Id : q[i] = t)}
<1>0. Never > clock
  BY Times, ScheduleAssumption
<1>1. Never \in T /\ T \in SUBSET Nat
  BY <1>0, Times
<1>2. PICK t \in T : \A u \in T : t <= u
  <2> HIDE DEF T
  <2> QED
    BY <1>1, NatMin
<1>3. \A i \in Id : q[i] > clock => q[i] \in T
  BY DEF QueueType
<1>4. /\ t > clock
      /\ t = Never \/ \E i \in Id : q[i] = t
      /\ \A i \in Id : q[i] > clock => t <= q[i]
  BY <1>2, <1>3
<1>5. /\ nextScheduledAfter(q) \in Due \union {Never}
      /\ \A i \in Id : q[i] > clock => nextScheduledAfter(q) <= q[i]
  BY <1>2, <1>4 DEF nextScheduledAfter
<1>6. \A u \in Due \union {Never} : u \in Nat /\ u <= Never
  BY Times
<1> HIDE DEF T
<1> QED
  BY <1>5, <1>6

\* The storage alarm is no later than the scheduled wake, which is a time.
SharedAlarm(w) ==
  /\ w \in Wake
  /\ w.storage <= w.alarms["scheduled"] /\ w.alarms["scheduled"] <= Never

\* The scheduled wake is no later than any entry of the future.
Covers(w, q) == \A i \in Id : q[i] > clock => w.alarms["scheduled"] <= q[i]

LEMMA SetAlarm ==
  ASSUME NEW w \in Wake, NEW a \in Alarm, NEW at \in Nat
  PROVE  /\ setAlarm(w, a, at) \in Wake
         /\ setAlarm(w, a, at).storage <= setAlarm(w, a, at).alarms["scheduled"]
         /\ setAlarm(w, a, at).alarms["scheduled"]
              = IF a = "scheduled" THEN at ELSE w.alarms["scheduled"]
<1> DEFINE f == [w.alarms EXCEPT ![a] = at]
           m == IF f["scheduled"] <= f["outbox"] THEN f["scheduled"] ELSE f["outbox"]
<1>1. w.alarms \in [Alarm -> Nat] /\ w.armed \in BOOLEAN
  BY DEF Wake
<1>2. /\ f \in [Alarm -> Nat]
      /\ f["scheduled"] = IF a = "scheduled" THEN at ELSE w.alarms["scheduled"]
  BY <1>1 DEF Alarm
<1>3. f["scheduled"] \in Nat /\ f["outbox"] \in Nat
  BY <1>2 DEF Alarm
<1>4. m \in Nat /\ m <= f["scheduled"]
  BY <1>3
<1>5. setAlarm(w, a, at) = [w EXCEPT !.alarms = f, !.storage = m]
  BY DEF setAlarm
<1> HIDE DEF f, m
<1>6. /\ setAlarm(w, a, at) \in Wake
      /\ setAlarm(w, a, at).alarms = f
      /\ setAlarm(w, a, at).storage = m
  BY <1>2, <1>4, <1>5 DEF Wake
<1> QED
  BY <1>2, <1>4, <1>6

LEMMA OutboxAlarm ==
  ASSUME NEW w \in Wake, NEW at \in Nat
  PROVE  /\ setAlarm(w, "outbox", at) \in Wake
         /\ setAlarm(w, "outbox", at).storage
              <= setAlarm(w, "outbox", at).alarms["scheduled"]
         /\ setAlarm(w, "outbox", at).alarms["scheduled"] = w.alarms["scheduled"]
<1>1. "outbox" \in Alarm /\ "outbox" # "scheduled"
  BY DEF Alarm
<1> QED
  BY <1>1, SetAlarm

LEMMA RetryTime ==
  ASSUME NEW rows \in SUBSET Row, rows # {}, clock \in Nat
  PROVE  outboxNextRetryAt(rows) \in Nat
<1> DEFINE N == {r.n : r \in rows}
<1>1. N \in SUBSET Nat /\ N # {}
  BY DEF Row
<1>2. \E x \in N : \A y \in N : x <= y
  <2> HIDE DEF N
  <2> QED
    BY <1>1, NatMin
<1>3. PICK r \in rows : \A s \in rows : r.n <= s.n
  BY <1>2
<1>4. r \in first(rows) /\ first(rows) \subseteq Row
  BY <1>3 DEF first
<1>5. (CHOOSE s \in first(rows) : TRUE) \in Row
  BY <1>4
<1> QED
  BY <1>5 DEF outboxNextRetryAt, Row

\* The outbox wake leaves the scheduled one alone.
LEMMA ArmOutbox ==
  ASSUME NEW w \in Wake, NEW rows \in SUBSET Row, clock \in Nat
  PROVE  LET v == armOutboxRetryAlarm(w, rows)
         IN  /\ v \in Wake
             /\ v.alarms["scheduled"] = w.alarms["scheduled"]
             /\ \/ v.storage <= v.alarms["scheduled"]
                \/ v.storage = w.storage
<1> DEFINE u == [w EXCEPT !.armed = TRUE]
           d == [w EXCEPT !.armed = FALSE]
<1>1. u \in Wake /\ d \in Wake /\ u.alarms = w.alarms /\ d.alarms = w.alarms
  BY DEF Wake
<1>2. CASE rows # {}
  <2>1. outboxNextRetryAt(rows) \in Nat
    BY <1>2, RetryTime
  <2>2. armOutboxRetryAlarm(w, rows) = setAlarm(u, "outbox", outboxNextRetryAt(rows))
    BY <1>2 DEF armOutboxRetryAlarm
  <2> HIDE DEF u
  <2> QED
    BY <1>1, <2>1, <2>2, OutboxAlarm
<1>3. CASE rows = {} /\ w.armed
  <2>1. armOutboxRetryAlarm(w, rows) = setAlarm(d, "outbox", Never)
    BY <1>3 DEF armOutboxRetryAlarm
  <2> HIDE DEF d
  <2> QED
    BY <1>1, <2>1, Times, OutboxAlarm
<1>4. CASE rows = {} /\ ~w.armed
  BY <1>4 DEF armOutboxRetryAlarm
<1> QED
  BY <1>2, <1>3, <1>4

LEMMA ArmShared ==
  ASSUME NEW w, SharedAlarm(w), NEW rows \in SUBSET Row, NEW q, clock \in Nat
  PROVE  /\ SharedAlarm(armOutboxRetryAlarm(w, rows))
         /\ Covers(w, q) => Covers(armOutboxRetryAlarm(w, rows), q)
<1>1. w \in Wake
  BY DEF SharedAlarm
<1> DEFINE v == armOutboxRetryAlarm(w, rows)
<1>2. /\ v \in Wake
      /\ v.alarms["scheduled"] = w.alarms["scheduled"]
      /\ v.storage <= v.alarms["scheduled"] \/ v.storage = w.storage
  BY <1>1, ArmOutbox
<1> HIDE DEF v
<1>3. SharedAlarm(v)
  BY <1>2 DEF SharedAlarm
<1>4. Covers(w, q) => Covers(v, q)
  BY <1>2 DEF Covers
<1> QED
  BY <1>3, <1>4 DEF v

\* Re-arming covers the queue, whatever the wake was before.
LEMMA Rearm ==
  ASSUME NEW w \in Wake, NEW q \in QueueType, NEW rows \in SUBSET Row,
         NEW dueNow \in BOOLEAN, clock \in 0..MaxClock
  PROVE  /\ SharedAlarm(rearmAlarm(w, q, rows, dueNow))
         /\ Covers(rearmAlarm(w, q, rows, dueNow), q)
<1> DEFINE at == IF dueNow THEN clock ELSE nextScheduledAfter(q)
           u == setAlarm(w, "scheduled", at)
<1>0. clock \in Nat /\ clock <= Never
  BY Times, ScheduleAssumption
<1>1. at \in Nat /\ at <= Never /\ \A i \in Id : q[i] > clock => at <= q[i]
  <2>1. \A i \in Id : q[i] \in Nat
    BY Times DEF QueueType
  <2> QED
    BY <1>0, <2>1, NextAfter
<1>2. /\ u \in Wake /\ u.storage <= u.alarms["scheduled"]
      /\ u.alarms["scheduled"] = at
  <2> HIDE DEF at
  <2> QED
    BY <1>1, SetAlarm DEF Alarm
<1>3. SharedAlarm(u) /\ Covers(u, q)
  <2> HIDE DEF at, u
  <2> QED
    BY <1>1, <1>2 DEF SharedAlarm, Covers
<1>4. rearmAlarm(w, q, rows, dueNow) = armOutboxRetryAlarm(u, rows)
  BY DEF rearmAlarm
<1> HIDE DEF u
<1> QED
  BY <1>0, <1>3, <1>4, ArmShared

\* Loading the sequencer covers the queue, and keeps it covered.
LEMMA HydrateWakes ==
  ASSUME NEW w, SharedAlarm(w), NEW q \in QueueType, NEW rows \in SUBSET Row,
         hydrated => Covers(w, q), clock \in 0..MaxClock
  PROVE  SharedAlarm(hydrate(w, q, rows)) /\ Covers(hydrate(w, q, rows), q)
<1>1. CASE hydrated
  BY <1>1 DEF hydrate
<1>2. CASE ~hydrated /\ pending(q) = {}
  <2>1. \A i \in Id : q[i] = Never
    BY <1>2 DEF pending
  <2>2. Covers(w, q)
    BY <2>1 DEF Covers, SharedAlarm
  <2> QED
    BY <1>2, <2>2 DEF hydrate
<1>3. CASE ~hydrated /\ pending(q) # {}
  <2>1. w \in Wake /\ hasScheduledDue(q) \in BOOLEAN
    BY DEF SharedAlarm, hasScheduledDue
  <2>2. hydrate(w, q, rows) = rearmAlarm(w, q, rows, hasScheduledDue(q))
    BY <1>3 DEF hydrate
  <2> QED
    BY <2>1, <2>2, Rearm
<1> QED
  BY <1>1, <1>2, <1>3

LEMMA HydrateTyped ==
  ASSUME NEW w \in Wake, NEW q \in QueueType, NEW rows \in SUBSET Row,
         clock \in 0..MaxClock
  PROVE  hydrate(w, q, rows) \in Wake
<1>1. hasScheduledDue(q) \in BOOLEAN
  BY DEF hasScheduledDue
<1>2. rearmAlarm(w, q, rows, hasScheduledDue(q)) \in Wake
  BY <1>1, Rearm DEF SharedAlarm
<1> QED
  BY <1>2 DEF hydrate

(***************************************************************************)
(* What a turn does to the queue, and what the alarm takes from it.        *)
(***************************************************************************)

\* An entry that was in the queue and is still owed is still in the queue.
LEMMA StaysArmed ==
  ASSUME NEW k \in FireKey, queue[k.id] = k.at,
         k \notin atQueue(queue) \ atQueue(queue')
  PROVE  queue'[k.id] = k.at
<1>1. k.id \in Id /\ k.at \in Due /\ k.at # Never
  BY Times DEF FireKey
<1>2. k \in atQueue(queue)
  <2>1. k = [id |-> k.id, at |-> queue[k.id]]
    BY DEF FireKey
  <2>2. k.id \in pending(queue)
    BY <1>1 DEF pending
  <2> QED
    BY <2>1, <2>2 DEF atQueue
<1>3. PICK i \in pending(queue') : k = [id |-> i, at |-> queue'[i]]
  BY <1>2 DEF atQueue
<1> QED
  BY <1>3

\* A turn arms at a due time, and an entry that stays owed stays where it was.
LEMMA EffectsFacts ==
  ASSUME TypeOK, NEW dropped, NEW recycles, NEW armed \in SUBSET Id, NEW at,
         Effects(dropped, recycles, armed, at)
  PROVE  /\ queue' \in QueueType /\ owed' \subseteq FireKey
         /\ armings' \in 0..MaxArmings
         /\ \A k \in owed' : queue'[k.id] = k.at \/ (k \in owed /\ queue[k.id] # k.at)
<1>1. /\ at \in Due /\ queue' = applied(dropped, armed, at)
      /\ queue \in QueueType
  BY DEF Effects, TypeOK, QueueType
<1>2. queue' \in QueueType
  BY <1>1 DEF applied, QueueType
<1>3. IsFiniteSet(armed) /\ Cardinality(armed) \in Nat
  BY ScheduleAssumption, FS_Subset, FS_CardinalityType
<1>4. armings' \in 0..MaxArmings
  BY <1>3, ScheduleAssumption DEF Effects, TypeOK
<1>5. {[id |-> i, at |-> at] : i \in armed} \subseteq FireKey
  BY <1>1 DEF FireKey
<1>6. owed' \subseteq FireKey
  BY <1>5 DEF Effects, TypeOK
<1>7. ASSUME NEW k \in owed', ~(k \in owed /\ queue[k.id] # k.at)
      PROVE  queue'[k.id] = k.at
  <2>1. k \in FireKey /\ k.id \in Id /\ k.at \in Due
    BY <1>6 DEF FireKey
  <2>2. CASE k \in {[id |-> i, at |-> at] : i \in armed}
    BY <1>1, <2>2 DEF applied
  <2>3. CASE k \in owed /\ k \notin atQueue(queue) \ atQueue(queue')
    BY <1>7, <2>1, <2>3, StaysArmed
  <2> QED
    BY <2>2, <2>3 DEF Effects
<1> QED
  BY <1>2, <1>4, <1>6, <1>7

LEMMA ScheduleFacts ==
  ASSUME TypeOK, NEW i \in Id, NEW at \in Due, Schedule(i, at)
  PROVE  /\ queue' \in QueueType /\ owed' \subseteq FireKey
         /\ armings' \in 0..MaxArmings
         /\ \A k \in owed' : queue'[k.id] = k.at \/ (k \in owed /\ queue[k.id] # k.at)
<1>1. queue \in QueueType /\ queue' = [queue EXCEPT ![i] = at]
  BY DEF Schedule, TypeOK, QueueType
<1>2. queue' \in QueueType
  BY <1>1 DEF QueueType
<1>3. armings' \in 0..MaxArmings
  BY ScheduleAssumption DEF Schedule, TypeOK
<1>4. owed' \subseteq FireKey
  BY DEF Schedule, TypeOK, FireKey
<1>5. ASSUME NEW k \in owed', ~(k \in owed /\ queue[k.id] # k.at)
      PROVE  queue'[k.id] = k.at
  <2>1. k \in FireKey /\ k.id \in Id /\ k.at \in Due
    BY <1>4 DEF FireKey
  <2>2. CASE k = [id |-> i, at |-> at]
    BY <1>1, <2>2 DEF QueueType
  <2>3. CASE k \in owed /\ k \notin atQueue(queue) \ atQueue(queue')
    BY <1>5, <2>1, <2>3, StaysArmed
  <2> QED
    BY <2>2, <2>3 DEF Schedule
<1> QED
  BY <1>2, <1>3, <1>4, <1>5

\* The rows of a batch are numbered apart, above what was dispatched before.
LEMMA DispatchFacts ==
  ASSUME TypeOK, NEW due \in SUBSET Id, \A i \in due : queue[i] <= clock
  PROVE  /\ Cardinality(due) \in Nat
         /\ dispatched(due) \subseteq Row
         /\ \A r \in dispatched(due) :
              dispatches < r.n /\ r.n <= dispatches + Cardinality(due)
         /\ \A r, s \in dispatched(due) : r.n = s.n => r = s
         /\ \A i \in due : \E r \in dispatched(due) : key(r) = [id |-> i, at |-> queue[i]]
<1> DEFINE front(i) == earlier(queue, i) \intersect due
           row(i) == [id |-> i, at |-> queue[i],
                      n |-> dispatches + 1 + Cardinality(front(i)),
                      attempts |-> 0, next |-> clock]
<1>1. /\ queue \in [Id -> Due \union {Never}] /\ clock \in 0..MaxClock
      /\ dispatches \in Nat
  BY DEF TypeOK
<1>2. IsFiniteSet(due) /\ Cardinality(due) \in Nat
  BY ScheduleAssumption, FS_Subset, FS_CardinalityType
<1>3. \A i \in Id : queue[i] \in Nat /\ i \in Nat
  BY <1>1, Times, ScheduleAssumption
<1>4. ASSUME NEW i \in due
      PROVE  /\ IsFiniteSet(front(i)) /\ Cardinality(front(i)) \in Nat
             /\ Cardinality(front(i)) < Cardinality(due)
  <2>1. front(i) \in SUBSET due
    OBVIOUS
  <2>2. i \notin front(i)
    BY <1>3 DEF earlier, before
  <2>3. front(i) # due
    BY <2>2
  <2> HIDE DEF front
  <2>4. IsFiniteSet(front(i)) /\ Cardinality(front(i)) \in Nat
    BY <1>2, <2>1, FS_Subset, FS_CardinalityType
  <2> QED
    BY <1>2, <2>1, <2>3, <2>4, FS_Subset
<1>5. ASSUME NEW i \in due, NEW j \in due, before(queue, i, j)
      PROVE  Cardinality(front(i)) < Cardinality(front(j))
  <2>1. front(i) \subseteq front(j)
    <3> SUFFICES ASSUME NEW k \in front(i) PROVE k \in front(j)
      OBVIOUS
    <3>1. k \in Id /\ k \in due /\ before(queue, k, i)
      BY DEF earlier
    <3>2. before(queue, k, j)
      BY <1>3, <1>5, <3>1 DEF before
    <3> QED
      BY <3>1, <3>2 DEF earlier
  <2>2. i \in front(j) /\ i \notin front(i)
    BY <1>3, <1>5 DEF earlier, before
  <2>3. front(i) # front(j) /\ front(i) \in SUBSET front(j)
    BY <2>1, <2>2
  <2>4. /\ IsFiniteSet(front(j)) /\ Cardinality(front(j)) \in Nat
        /\ Cardinality(front(i)) \in Nat
    BY <1>4
  <2> HIDE DEF front
  <2> QED
    BY <2>3, <2>4, FS_Subset
<1>6. dispatched(due) = {row(i) : i \in due}
  BY DEF dispatched
<1>7. ASSUME NEW i \in due
      PROVE  /\ row(i) \in Row
             /\ dispatches < row(i).n /\ row(i).n <= dispatches + Cardinality(due)
             /\ key(row(i)) = [id |-> i, at |-> queue[i]]
  <2>1. queue[i] \in Due
    BY <1>1, Times, ScheduleAssumption
  <2>2. Cardinality(front(i)) \in Nat /\ Cardinality(front(i)) < Cardinality(due)
    BY <1>4
  <2>3. 0 \in 0..(MaxAttempts - 1) /\ clock \in Nat
    BY <1>1, ScheduleAssumption
  <2> HIDE DEF front
  <2> QED
    BY <1>1, <1>2, <2>1, <2>2, <2>3 DEF Row, key
<1>8. ASSUME NEW i \in due, NEW j \in due, row(i).n = row(j).n
      PROVE  i = j
  <2>1. before(queue, i, j) \/ before(queue, j, i) \/ i = j
    BY <1>3 DEF before
  <2>2. Cardinality(front(i)) = Cardinality(front(j))
    <3>1. Cardinality(front(i)) \in Nat /\ Cardinality(front(j)) \in Nat
      BY <1>4
    <3> HIDE DEF front
    <3> QED
      BY <1>1, <1>8, <3>1
  <2>3. Cardinality(front(i)) \in Nat /\ Cardinality(front(j)) \in Nat
    BY <1>4
  <2> HIDE DEF front
  <2> QED
    BY <1>5, <2>1, <2>2, <2>3
<1> HIDE DEF row
<1> QED
  BY <1>2, <1>6, <1>7, <1>8

(***************************************************************************)
(* The type invariant.                                                     *)
(***************************************************************************)

LEMMA Typed ==
  ASSUME TypeOK
  PROVE  /\ queue \in QueueType /\ outbox \in SUBSET Row /\ wake \in Wake
         /\ clock \in 0..MaxClock /\ clock \in Nat
BY ScheduleAssumption DEF TypeOK, QueueType

LEMMA DueNow == ASSUME NEW q PROVE hasScheduledDue(q) \in BOOLEAN
BY DEF hasScheduledDue

LEMMA RequestsTyped ==
  ASSUME TypeOK, Requests
  PROVE  TypeOK'
<1>1. ASSUME NEW dropped \in SUBSET Id, NEW armed \in SUBSET Id, NEW at \in Due,
             NEW recycles \in BOOLEAN, NEW attached \in BOOLEAN,
             Commit(dropped, recycles, armed, at, attached)
      PROVE  TypeOK'
  <2>1. /\ queue' \in QueueType /\ owed' \subseteq FireKey
        /\ armings' \in 0..MaxArmings
    BY <1>1, EffectsFacts DEF Commit
  <2>2. wake' \in Wake
    BY <1>1, <2>1, Typed, DueNow, Rearm DEF Commit, SharedAlarm
  <2> QED
    BY <1>1, <2>1, <2>2 DEF Commit, TypeOK, QueueType, outcomes
<1>2. ASSUME NEW i \in Id, NEW at \in Due, Schedule(i, at)
      PROVE  TypeOK'
  <2>1. /\ queue' \in QueueType /\ owed' \subseteq FireKey
        /\ armings' \in 0..MaxArmings
    BY <1>2, ScheduleFacts
  <2>2. wake' \in Wake
    BY <1>2, <2>1, Typed, Rearm DEF Schedule, SharedAlarm
  <2> QED
    BY <1>2, <2>1, <2>2 DEF Schedule, TypeOK, QueueType, outcomes
<1>3. CASE AdoptAudience
  <2>1. hydrate(wake, queue, outbox) \in Wake
    BY Typed, HydrateTyped
  <2>2. wake' \in Wake
    BY <1>3, <2>1, Typed, ArmOutbox DEF AdoptAudience
  <2>3. audience' \in BOOLEAN /\ hydrated' \in BOOLEAN
    BY <1>3 DEF AdoptAudience, TypeOK
  <2> QED
    BY <1>3, <2>2, <2>3 DEF AdoptAudience, TypeOK, entries, outcomes
<1>4. CASE Hydrate
  <2>1. wake' \in Wake
    BY <1>4, Typed, HydrateTyped DEF Hydrate
  <2> QED
    BY <1>4, <2>1 DEF Hydrate, TypeOK, entries, outcomes
<1>5. CASE SubscribePlanner
  <2>1. setAlarm(wake, "scheduled", clock) \in Wake
    BY Typed, SetAlarm DEF Alarm
  <2>2. wake' \in Wake
    BY <1>5, <2>1, Typed DEF SubscribePlanner
  <2> QED
    BY <1>5, <2>2 DEF SubscribePlanner, TypeOK, entries, outcomes
<1> QED
  BY <1>1, <1>2, <1>3, <1>4, <1>5 DEF Requests

\* What the alarm moves, and what it leaves.
LEMMA AlarmFacts ==
  ASSUME TypeOK, AlarmFires
  PROVE  \E moved \in SUBSET Id, w \in Wake, more \in BOOLEAN :
           /\ \A i \in moved : queue[i] <= clock
           /\ queue' = popped(moved)
           /\ outbox' = outbox \union dispatched(moved)
           /\ dispatches' = dispatches + Cardinality(moved)
           /\ wake' = rearmAlarm(w, queue', outbox', more)
<1> DEFINE due == deliverableDue(queue, Batch)
           moved == IF planner THEN due ELSE {}
           w == hydrate([wake EXCEPT !.storage = Never], queue, outbox)
           more == moreDueNow(due, queue')
<1>1. moved \in SUBSET Id /\ \A i \in moved : queue[i] <= clock
  BY DEF deliverableDue, peekDue
<1>2. [wake EXCEPT !.storage = Never] \in Wake
  BY Typed, Times DEF Wake
<1>3. w \in Wake
  BY <1>2, Typed, HydrateTyped
<1>4. more \in BOOLEAN
  BY DEF moreDueNow
<1>5. /\ queue' = popped(moved)
      /\ outbox' = outbox \union dispatched(moved)
      /\ dispatches' = dispatches + Cardinality(moved)
      /\ wake' = rearmAlarm(w, queue', outbox', more)
  BY DEF AlarmFires
<1> HIDE DEF moved, w, more
<1> QED
  BY <1>1, <1>3, <1>4, <1>5

LEMMA AlarmTyped ==
  ASSUME TypeOK, AlarmFires
  PROVE  TypeOK'
<1>1. PICK moved \in SUBSET Id, w \in Wake, more \in BOOLEAN :
           /\ \A i \in moved : queue[i] <= clock
           /\ queue' = popped(moved)
           /\ outbox' = outbox \union dispatched(moved)
           /\ dispatches' = dispatches + Cardinality(moved)
           /\ wake' = rearmAlarm(w, queue', outbox', more)
  BY AlarmFacts
<1>2. queue' \in QueueType
  BY <1>1, Typed DEF popped, QueueType
<1>3. dispatches' \in Nat /\ outbox' \in SUBSET Row
  BY <1>1, DispatchFacts DEF TypeOK
<1>4. wake' \in Wake
  BY <1>1, <1>2, <1>3, Typed, Rearm DEF SharedAlarm
<1> QED
  BY <1>2, <1>3, <1>4 DEF AlarmFires, TypeOK, QueueType, outcomes

LEMMA RunFacts ==
  ASSUME TypeOK, NEW k \in FireKey, NEW outcome \in Outcome,
         NEW armed \in SUBSET Id, NEW at \in Due, Run(k, outcome, armed, at)
  PROVE  /\ queue' \in QueueType /\ owed' \subseteq FireKey
         /\ armings' \in 0..MaxArmings
         /\ replies' \in [FireKey -> Outcome \union {"none"}]
         /\ fired' \subseteq FireKey /\ twice' \subseteq FireKey
         /\ wake' \in Wake
<1>1. /\ queue' \in QueueType /\ owed' \subseteq FireKey
      /\ armings' \in 0..MaxArmings
  BY EffectsFacts DEF Run
<1>2. replies' \in [FireKey -> Outcome \union {"none"}]
  BY DEF Run, recorded, TypeOK
<1>3. fired' \subseteq FireKey /\ twice' \subseteq FireKey
  BY DEF Run, TypeOK
<1>4. hydrate(wake, queue, outbox) \in Wake
  BY Typed, HydrateTyped
<1>5. rearmAlarm(wake, queue', outbox, hasScheduledDue(queue')) \in Wake
  BY <1>1, Typed, DueNow, Rearm DEF SharedAlarm
<1>6. wake' \in Wake
  BY <1>4, <1>5 DEF Run
<1> QED
  BY <1>1, <1>2, <1>3, <1>6

LEMMA RowKey == ASSUME NEW r \in Row PROVE key(r) \in FireKey
BY DEF Row, key, FireKey

\* A failed delivery leaves a row that has attempts left, or none.
LEMMA FailedRow ==
  ASSUME TypeOK, NEW r \in Row
  PROVE  failed(r) \subseteq Row
<1> DEFINE again == [r EXCEPT !.attempts = r.attempts + 1, !.next = clock + Backoff]
<1>1. ASSUME ~(r.attempts + 1 >= MaxAttempts)
      PROVE  again \in Row
  <2>1. r.attempts + 1 \in 0..(MaxAttempts - 1)
    BY <1>1, ScheduleAssumption DEF Row
  <2>2. clock + Backoff \in Nat
    BY Typed, ScheduleAssumption
  <2> QED
    BY <2>1, <2>2 DEF Row
<1>2. failed(r) \subseteq {s \in outbox : s.n # r.n} \union
                          (IF r.attempts + 1 >= MaxAttempts THEN {} ELSE {again})
  BY DEF failed
<1> HIDE DEF again
<1> QED
  BY <1>1, <1>2, Typed

LEMMA DeliveryTyped ==
  ASSUME TypeOK, Delivery
  PROVE  TypeOK'
<1>0. drain \in Drain /\ drain.row \subseteq Row
  BY DEF TypeOK, Drain
<1>1. CASE StartDrain
  <2>1. wake' \in Wake
    BY <1>1, Typed, ArmOutbox DEF StartDrain
  <2>2. drain' \in Drain /\ (drain'.row = {} <=> drain'.state = "idle")
    <3>1. PICK r \in outbox : \/ drain' = [row |-> {r}, state |-> "called"]
                              \/ drain' = drain
      BY <1>1 DEF StartDrain, first
    <3> QED
      BY <3>1 DEF TypeOK, Drain
  <2> QED
    BY <1>1, <2>1, <2>2 DEF StartDrain, TypeOK, entries, outcomes
<1>2. ASSUME NEW outcome \in Outcome, NEW armed \in SUBSET Id, NEW at \in Due,
             RunAwaited(outcome, armed, at)
      PROVE  TypeOK'
  <2>1. PICK r \in drain.row : Run(key(r), outcome, armed, at)
    BY <1>2 DEF RunAwaited
  <2>2. key(r) \in FireKey
    BY <1>0, RowKey
  <2>3. drain' \in Drain /\ (drain'.row = {} <=> drain'.state = "idle")
    BY <1>0, <1>2, <2>1 DEF RunAwaited, Drain, Outcome
  <2> QED
    BY <1>2, <2>1, <2>2, <2>3, RunFacts DEF RunAwaited, Run, TypeOK, QueueType
<1>3. ASSUME NEW outcome \in Outcome, NEW armed \in SUBSET Id, NEW at \in Due,
             NEW k \in late, RunLate(k, outcome, armed, at)
      PROVE  TypeOK'
  <2>1. k \in FireKey /\ late' \subseteq FireKey
    BY <1>3 DEF RunLate, TypeOK
  <2> QED
    BY <1>3, <2>1, RunFacts DEF RunLate, Run, TypeOK, QueueType
<1>4. Idle \in Drain /\ (Idle.row = {} <=> Idle.state = "idle")
  BY DEF Idle, Drain
<1>5. CASE Answered
  <2>1. outbox' \in SUBSET Row /\ failures' \subseteq FireKey
    BY <1>0, <1>5, RowKey DEF Answered, TypeOK
  <2>2. wake' \in Wake
    BY <1>5, <2>1, Typed, ArmOutbox DEF Answered
  <2> QED
    BY <1>4, <1>5, <2>1, <2>2 DEF Answered, TypeOK, entries, outcomes
<1>6. CASE Unanswered
  <2>1. PICK r \in drain.row :
          /\ late' = late \union {key(r)} \/ late' = late
          /\ failures' = failures \union {key(r)} \/ failures' = failures
          /\ outbox' = failed(r)
    BY <1>6 DEF Unanswered
  <2>2. r \in Row /\ key(r) \in FireKey
    BY <1>0, RowKey
  <2>3. late' \subseteq FireKey /\ failures' \subseteq FireKey
    BY <2>1, <2>2 DEF TypeOK
  <2>4. failed(r) \subseteq Row
    BY <2>2, Typed, FailedRow
  <2>5. wake' \in Wake
    BY <1>6, <2>1, <2>4, Typed, ArmOutbox DEF Unanswered
  <2> QED
    BY <1>4, <1>6, <2>1, <2>3, <2>4, <2>5 DEF Unanswered, TypeOK, entries
<1> QED
  BY <1>1, <1>2, <1>3, <1>5, <1>6 DEF Delivery

LEMMA InitTyped == ASSUME Init PROVE TypeOK
<1>1. wake \in Wake
  BY Times DEF Init, Wake, Asleep
<1>2. queue \in [Id -> Due \union {Never}]
  BY DEF Init
<1>3. drain \in Drain /\ (drain.row = {} <=> drain.state = "idle")
  BY DEF Init, Idle, Drain
<1>4. replies \in [FireKey -> Outcome \union {"none"}]
  BY DEF Init
<1>5. /\ clock \in 0..MaxClock /\ dispatches \in Nat
      /\ armings \in 0..MaxArmings /\ evictions \in 0..MaxEvictions
  BY ScheduleAssumption DEF Init
<1>6. audience \in BOOLEAN /\ planner \in BOOLEAN /\ hydrated \in BOOLEAN
  BY DEF Init
<1>7. /\ outbox \subseteq Row /\ late \subseteq FireKey /\ failures \subseteq FireKey
      /\ fired \subseteq FireKey /\ twice \subseteq FireKey /\ owed \subseteq FireKey
  BY DEF Init
<1> QED
  BY <1>1, <1>2, <1>3, <1>4, <1>5, <1>6, <1>7 DEF TypeOK

\* Every variable keeps its type: in particular the alarm is always set to a
\* time, and a row is never retried past its attempts.
THEOREM ScheduledTypeCorrect == Spec => []TypeOK
<1>1. Init => TypeOK
  BY InitTyped
<1>2. TypeOK /\ [Next]_vars => TypeOK'
  <2> SUFFICES ASSUME TypeOK, [Next]_vars PROVE TypeOK'
    OBVIOUS
  <2>1. CASE UNCHANGED vars
    BY <2>1 DEF TypeOK, vars
  <2>2. CASE Tick
    <3>1. clock' \in 0..MaxClock
      BY <2>2, ScheduleAssumption DEF Tick, TypeOK
    <3> QED
      BY <2>2, <3>1 DEF Tick, TypeOK, entries, outcomes
  <2>3. CASE Evict
    <3>1. wake' \in Wake
      BY <2>3, Typed, Times DEF Evict, Wake, Asleep
    <3>2. late' \subseteq FireKey
      BY <2>3, RowKey DEF Evict, TypeOK, Drain
    <3>3. evictions' \in 0..MaxEvictions
      BY <2>3, ScheduleAssumption DEF Evict, TypeOK
    <3>4. Idle \in Drain /\ (Idle.row = {} <=> Idle.state = "idle")
      BY DEF Idle, Drain
    <3> QED
      BY <2>3, <3>1, <3>2, <3>3, <3>4 DEF Evict, TypeOK, entries
  <2> QED
    BY <2>1, <2>2, <2>3, RequestsTyped, AlarmTyped, DeliveryTyped DEF Next
<1> QED
  BY <1>1, <1>2, PTL DEF Spec

(***************************************************************************)
(* The inductive invariant.                                                *)
(***************************************************************************)

\* A row's number is its own, so that writing back one row touches no other.
NumberedRows ==
  /\ \A r \in outbox : r.n <= dispatches
  /\ \A r, s \in outbox : r.n = s.n => r = s

\* The drain awaits one row of the table, and an accepted one took effect.
Awaited ==
  /\ drain.row \subseteq outbox
  /\ \A r, s \in drain.row : r = s
  /\ drain.state = "accepted" => \A r \in drain.row : key(r) \in fired

\* What took effect and writes is recorded, and what is recorded took effect.
Recorded ==
  \A k \in FireKey :
    /\ replies[k] = "accepted" => k \in fired
    /\ k \in fired /\ k.id \notin Speech => replies[k] = "accepted"

\* A live isolate's scheduled wake covers the queue, and the storage alarm it.
Awake == SharedAlarm(wake) /\ (hydrated => Covers(wake, queue))

TimerInv ==
  TypeOK /\ NumberedRows /\ Awaited /\ Recorded /\ Awake
    /\ NoTimerVanishes /\ CommittedOnce

LEMMA RequestsKeep ==
  ASSUME TimerInv, TypeOK', Requests
  PROVE  TimerInv'
<1>0. TypeOK /\ SharedAlarm(wake)
  BY DEF TimerInv, Awake
<1>1. \/ UNCHANGED <<queue, owed>>
      \/ \A k \in owed' : queue'[k.id] = k.at \/ (k \in owed /\ queue[k.id] # k.at)
  <2>1. ASSUME NEW dropped \in SUBSET Id, NEW armed \in SUBSET Id, NEW at \in Due,
               NEW recycles \in BOOLEAN, NEW attached \in BOOLEAN,
               Commit(dropped, recycles, armed, at, attached)
        PROVE  \A k \in owed' : queue'[k.id] = k.at \/ (k \in owed /\ queue[k.id] # k.at)
    BY <1>0, <2>1, EffectsFacts DEF Commit
  <2>2. ASSUME NEW i \in Id, NEW at \in Due, Schedule(i, at)
        PROVE  \A k \in owed' : queue'[k.id] = k.at \/ (k \in owed /\ queue[k.id] # k.at)
    BY <1>0, <2>2, ScheduleFacts
  <2>3. CASE AdoptAudience \/ Hydrate \/ SubscribePlanner
    BY <2>3 DEF AdoptAudience, Hydrate, SubscribePlanner, entries
  <2> QED
    BY <2>1, <2>2, <2>3 DEF Requests
<1>2. UNCHANGED <<outbox, dispatches, drain, replies, failures, fired, twice, clock>>
  BY DEF Requests, Commit, Schedule, AdoptAudience, Hydrate, SubscribePlanner, outcomes
<1>3. NoTimerVanishes'
  BY <1>1, <1>2 DEF TimerInv, NoTimerVanishes
<1>4. Awake'
  <2>0. /\ queue' \in QueueType /\ clock \in 0..MaxClock /\ clock \in Nat
        /\ outbox \in SUBSET Row /\ wake \in Wake /\ queue \in QueueType
    BY <1>0, Typed DEF TypeOK, QueueType
  <2>1. CASE \E more \in BOOLEAN : wake' = rearmAlarm(wake, queue', outbox, more)
    BY <1>2, <2>0, <2>1, Rearm DEF Awake, Covers
  <2>2. CASE AdoptAudience
    <3>1. /\ SharedAlarm(hydrate(wake, queue, outbox))
          /\ Covers(hydrate(wake, queue, outbox), queue)
      BY <1>0, <2>0, HydrateWakes DEF TimerInv, Awake
    <3>2. SharedAlarm(wake') /\ Covers(wake', queue)
      BY <2>0, <2>2, <3>1, ArmShared DEF AdoptAudience
    <3> QED
      BY <1>2, <2>2, <3>2 DEF Awake, Covers, AdoptAudience, entries
  <2>3. CASE Hydrate
    <3>1. /\ SharedAlarm(hydrate(wake, queue, outbox))
          /\ Covers(hydrate(wake, queue, outbox), queue)
      BY <1>0, <2>0, HydrateWakes DEF TimerInv, Awake
    <3> QED
      BY <1>2, <2>3, <3>1 DEF Awake, Covers, Hydrate, entries
  <2>4. CASE SubscribePlanner
    <3> DEFINE w == setAlarm(wake, "scheduled", clock)
    <3>1. /\ w \in Wake /\ w.storage <= w.alarms["scheduled"]
          /\ w.alarms["scheduled"] = clock
      BY <2>0, SetAlarm DEF Alarm
    <3>2. clock <= Never /\ \A i \in Id : queue[i] > clock => clock <= queue[i]
      <4>1. clock <= Never
        BY <2>0, Times, ScheduleAssumption
      <4>2. \A i \in Id : queue[i] \in Nat
        BY <2>0, Times DEF QueueType
      <4> QED
        BY <2>0, <4>1, <4>2
    <3> HIDE DEF w
    <3>3. SharedAlarm(w) /\ Covers(w, queue)
      BY <3>1, <3>2 DEF SharedAlarm, Covers
    <3>4. wake' = w \/ wake' = wake
      BY <2>4 DEF SubscribePlanner, w
    <3> QED
      BY <1>2, <2>4, <3>3, <3>4 DEF Awake, Covers, SubscribePlanner, entries, TimerInv
  <2> QED
    BY <2>1, <2>2, <2>3, <2>4, DueNow DEF Requests, Commit, Schedule
<1> QED
  BY <1>2, <1>3, <1>4 DEF TimerInv, NumberedRows, Awaited, Recorded, CommittedOnce

LEMMA AlarmKeeps ==
  ASSUME TimerInv, TypeOK', AlarmFires
  PROVE  TimerInv'
<1>0. TypeOK
  BY DEF TimerInv
<1>1. PICK moved \in SUBSET Id, w \in Wake, more \in BOOLEAN :
           /\ \A i \in moved : queue[i] <= clock
           /\ queue' = popped(moved)
           /\ outbox' = outbox \union dispatched(moved)
           /\ dispatches' = dispatches + Cardinality(moved)
           /\ wake' = rearmAlarm(w, queue', outbox', more)
  BY <1>0, AlarmFacts
<1>2. UNCHANGED <<clock, owed, drain, late, replies, fired, twice, failures>>
  BY DEF AlarmFires, outcomes
<1> DEFINE rows == dispatched(moved)
<1>3. /\ Cardinality(moved) \in Nat /\ rows \subseteq Row
      /\ \A r \in rows : dispatches < r.n /\ r.n <= dispatches + Cardinality(moved)
      /\ \A r, s \in rows : r.n = s.n => r = s
      /\ \A i \in moved : \E r \in rows : key(r) = [id |-> i, at |-> queue[i]]
  BY <1>0, <1>1, DispatchFacts
<1>4. dispatches \in Nat /\ outbox \subseteq Row
  BY <1>0 DEF TypeOK
<1> HIDE DEF rows
<1>5. NumberedRows'
  <2>1. \A r \in outbox : r.n <= dispatches /\ r.n \in Nat
    BY <1>4 DEF TimerInv, NumberedRows, Row
  <2>2. \A r \in rows : r.n \in Nat
    BY <1>3 DEF Row
  <2>3. outbox' = outbox \union rows
    BY <1>1 DEF rows
  <2>4. \A r \in outbox' : r.n <= dispatches'
    BY <1>1, <1>3, <1>4, <2>1, <2>2, <2>3
  <2>5. \A r, s \in outbox' : r.n = s.n => r = s
    BY <1>3, <1>4, <2>1, <2>2, <2>3 DEF TimerInv, NumberedRows
  <2> QED
    BY <2>4, <2>5 DEF NumberedRows
<1>6. Awaited'
  BY <1>1, <1>2 DEF TimerInv, Awaited
<1>7. Awake'
  <2>1. queue' \in QueueType /\ outbox' \in SUBSET Row /\ clock \in 0..MaxClock
    BY <1>0 DEF TypeOK, QueueType
  <2> QED
    BY <1>1, <1>2, <2>1, Rearm DEF Awake, Covers
<1>8. NoTimerVanishes'
  <2> SUFFICES ASSUME NEW k \in owed
               PROVE  \/ queue'[k.id] = k.at
                      \/ \E r \in outbox' : key(r) = k
                      \/ k \in fired
                      \/ k \in failures
    BY <1>2 DEF NoTimerVanishes
  <2>1. k \in FireKey /\ k.id \in Id
    BY <1>0 DEF TypeOK, FireKey
  <2>2. CASE queue[k.id] = k.at /\ k.id \in moved
    <3>1. k = [id |-> k.id, at |-> queue[k.id]]
      BY <2>1, <2>2 DEF FireKey
    <3>2. \E r \in rows : key(r) = k
      BY <1>3, <2>2, <3>1
    <3> QED
      BY <1>1, <3>2 DEF rows
  <2>3. CASE queue[k.id] = k.at /\ k.id \notin moved
    BY <1>1, <2>1, <2>3 DEF popped
  <2>4. CASE queue[k.id] # k.at
    BY <1>1, <2>4 DEF TimerInv, NoTimerVanishes
  <2> QED
    BY <2>2, <2>3, <2>4
<1> QED
  BY <1>2, <1>5, <1>6, <1>7, <1>8 DEF TimerInv, Recorded, CommittedOnce

\* Running a turn: its effect is recorded, or speaks only.
LEMMA RunKeeps ==
  ASSUME TimerInv, TypeOK', NEW k \in FireKey, NEW outcome \in Outcome,
         NEW armed \in SUBSET Id, NEW at \in Due, Run(k, outcome, armed, at)
  PROVE  /\ NumberedRows' /\ Recorded' /\ Awake' /\ NoTimerVanishes' /\ CommittedOnce'
         /\ outcome = "accepted" => k \in fired'
         /\ fired \subseteq fired' /\ outbox' = outbox
<1>0. TypeOK
  BY DEF TimerInv
<1>1. /\ UNCHANGED <<clock, outbox, dispatches, failures>> /\ fired \subseteq fired'
      /\ \A x \in fired' : x \in fired \/ (x = k /\ TakesEffect(k, outcome))
  BY DEF Run
<1>2. NumberedRows'
  BY <1>1 DEF TimerInv, NumberedRows
<1>3. NoTimerVanishes'
  <2>1. \A x \in owed' : queue'[x.id] = x.at \/ (x \in owed /\ queue[x.id] # x.at)
    BY <1>0, EffectsFacts DEF Run
  <2> QED
    BY <1>1, <2>1 DEF TimerInv, NoTimerVanishes
<1>4. replies \in [FireKey -> Outcome \union {"none"}]
  BY <1>0 DEF TypeOK
<1>5. outcome = "accepted" => k \in fired'
  BY <1>1, <1>4 DEF TimerInv, Recorded, Run, Verdict, TakesEffect
<1>6. Recorded'
  <2> SUFFICES ASSUME NEW x \in FireKey
               PROVE  /\ replies'[x] = "accepted" => x \in fired'
                      /\ x \in fired' /\ x.id \notin Speech => replies'[x] = "accepted"
    BY DEF Recorded
  <2>1. CASE x # k
    <3>1. replies'[x] = replies[x]
      BY <1>4, <2>1 DEF Run, recorded
    <3> QED
      BY <1>1, <2>1, <3>1 DEF TimerInv, Recorded
  <2>2. CASE x = k
    <3>1. \/ replies'[k] = outcome /\ (outcome = "rejected" \/ outcome = "accepted")
          \/ /\ replies'[k] = replies[k]
             /\ outcome # "rejected" /\ (outcome = "accepted" => k.id \in Speech)
      BY <1>4 DEF Run, recorded, Outcome
    <3> QED
      BY <1>1, <1>4, <1>5, <2>2, <3>1
      DEF TimerInv, Recorded, Run, Verdict, TakesEffect, Outcome
  <2> QED
    BY <2>1, <2>2
<1>7. CommittedOnce'
  <2>1. \A x \in twice' : x \in twice \/ (x = k /\ k \in fired /\ replies[k] = "none")
    BY DEF Run, TakesEffect
  <2>2. k \in fired /\ replies[k] = "none" => k.id \in Speech
    BY DEF TimerInv, Recorded
  <2> QED
    BY <2>1, <2>2 DEF TimerInv, CommittedOnce
<1>8. Awake'
  <2>1. /\ queue' \in QueueType /\ outbox \in SUBSET Row /\ clock \in 0..MaxClock
        /\ queue \in QueueType /\ wake \in Wake
    BY <1>0, Typed DEF TypeOK, QueueType
  <2>2. CASE outcome = "rejected"
    <3>1. /\ SharedAlarm(hydrate(wake, queue, outbox))
          /\ Covers(hydrate(wake, queue, outbox), queue)
      BY <2>1, HydrateWakes DEF TimerInv, Awake
    <3>2. queue' = queue
      <4>1. armed = {}
        BY <2>2 DEF Run, TakesEffect
      <4> QED
        BY <2>1, <4>1 DEF Run, Effects, applied, QueueType
    <3> QED
      BY <1>1, <2>2, <3>1, <3>2 DEF Run, Awake, Covers
  <2>3. CASE outcome # "rejected"
    BY <1>1, <2>1, <2>3, DueNow, Rearm DEF Run, Awake, Covers
  <2> QED
    BY <2>2, <2>3
<1> QED
  BY <1>1, <1>2, <1>3, <1>5, <1>6, <1>7, <1>8

\* A drain that re-arms only the outbox wake.
LEMMA DrainWakes ==
  ASSUME TimerInv, TypeOK', UNCHANGED <<clock, queue, hydrated>>,
         NEW rows \in SUBSET Row,
         wake' = armOutboxRetryAlarm(wake, rows) \/ wake' = wake
  PROVE  Awake'
<1>1. clock \in Nat /\ SharedAlarm(wake) /\ (hydrated => Covers(wake, queue))
  BY Typed DEF TimerInv, Awake
<1>2. SharedAlarm(wake') /\ (hydrated => Covers(wake', queue))
  BY <1>1, ArmShared
<1> QED
  BY <1>2 DEF Awake, Covers

LEMMA DeliveryKeeps ==
  ASSUME TimerInv, TypeOK', Delivery
  PROVE  TimerInv'
<1>0. TypeOK /\ outbox \in SUBSET Row /\ drain.row \subseteq outbox
  BY DEF TimerInv, Awaited, TypeOK
<1>1. CASE StartDrain
  <2>1. Awake'
    BY <1>0, <1>1, DrainWakes DEF StartDrain, entries
  <2>2. Awaited'
    <3>1. PICK r \in outbox : \/ drain' = [row |-> {r}, state |-> "called"]
                              \/ drain' = drain
      BY <1>1 DEF StartDrain, first
    <3> QED
      BY <1>1, <3>1 DEF StartDrain, outcomes, TimerInv, Awaited
  <2> QED
    BY <1>1, <2>1, <2>2 DEF StartDrain, entries, outcomes, TimerInv, NumberedRows,
         Recorded, NoTimerVanishes, CommittedOnce
<1>2. ASSUME NEW outcome \in Outcome, NEW armed \in SUBSET Id, NEW at \in Due,
             RunAwaited(outcome, armed, at)
      PROVE  TimerInv'
  <2>1. PICK r \in drain.row : Run(key(r), outcome, armed, at)
    BY <1>2 DEF RunAwaited
  <2>2. key(r) \in FireKey
    BY <1>0, RowKey
  <2>3. /\ NumberedRows' /\ Recorded' /\ Awake' /\ NoTimerVanishes' /\ CommittedOnce'
        /\ outcome = "accepted" => key(r) \in fired'
        /\ outbox' = outbox
    BY <2>1, <2>2, RunKeeps
  <2>4. Awaited'
    <3>1. drain'.row = drain.row /\ drain'.state = outcome
      BY <1>0, <1>2 DEF RunAwaited, TypeOK, Drain
    <3>2. \A x, y \in drain.row : x = y
      BY DEF TimerInv, Awaited
    <3> QED
      BY <1>0, <2>1, <2>3, <3>1, <3>2 DEF Awaited
  <2> QED
    BY <2>3, <2>4 DEF TimerInv
<1>3. ASSUME NEW outcome \in Outcome, NEW armed \in SUBSET Id, NEW at \in Due,
             NEW k \in late, RunLate(k, outcome, armed, at)
      PROVE  TimerInv'
  <2>1. k \in FireKey
    BY <1>0, <1>3 DEF TypeOK
  <2>2. /\ NumberedRows' /\ Recorded' /\ Awake' /\ NoTimerVanishes' /\ CommittedOnce'
        /\ fired \subseteq fired' /\ outbox' = outbox
    BY <1>3, <2>1, RunKeeps DEF RunLate
  <2>3. Awaited'
    BY <1>3, <2>2 DEF RunLate, TimerInv, Awaited
  <2> QED
    BY <2>2, <2>3 DEF TimerInv
<1>4. CASE Answered
  <2>1. PICK r \in drain.row :
          /\ failures' = IF drain.state = "accepted" THEN failures
                         ELSE failures \union {key(r)}
          /\ outbox' = {s \in outbox : s.n # r.n}
    BY <1>4 DEF Answered
  <2>2. /\ r \in outbox /\ \A s \in outbox : s.n = r.n => s = r
        /\ drain.state = "accepted" => key(r) \in fired
    BY <1>0 DEF TimerInv, NumberedRows, Awaited
  <2>3. UNCHANGED <<clock, queue, owed, hydrated, dispatches, replies, fired, twice>>
    BY <1>4 DEF Answered, entries, outcomes
  <2>4. NoTimerVanishes'
    BY <2>1, <2>2, <2>3 DEF TimerInv, NoTimerVanishes
  <2>5. NumberedRows'
    BY <2>1, <2>3 DEF TimerInv, NumberedRows
  <2>6. Awaited'
    BY <1>4 DEF Answered, Awaited, Idle
  <2>7. Awake'
    <3>1. outbox' \in SUBSET Row
      BY DEF TypeOK
    <3> QED
      BY <1>4, <2>3, <3>1, DrainWakes DEF Answered
  <2> QED
    BY <2>3, <2>4, <2>5, <2>6, <2>7 DEF TimerInv, Recorded, CommittedOnce
<1>5. CASE Unanswered
  <2>1. PICK r \in drain.row :
          /\ failures' = IF r.attempts + 1 >= MaxAttempts THEN failures \union {key(r)}
                         ELSE failures
          /\ outbox' = failed(r)
    BY <1>5 DEF Unanswered
  <2>2. r \in outbox /\ r \in Row /\ \A s \in outbox : s.n = r.n => s = r
    BY <1>0 DEF TimerInv, NumberedRows
  <2>3. UNCHANGED <<clock, queue, owed, hydrated, dispatches, replies, fired, twice>>
    BY <1>5 DEF Unanswered, entries
  <2> DEFINE again == [r EXCEPT !.attempts = r.attempts + 1, !.next = clock + Backoff]
  <2>4. again.n = r.n /\ key(again) = key(r)
    BY <2>2 DEF Row, key
  <2>5. /\ outbox' = {s \in outbox : s.n # r.n} \union
                       (IF r.attempts + 1 >= MaxAttempts THEN {} ELSE {again})
    BY <2>1 DEF failed
  <2> HIDE DEF again
  <2>6. NoTimerVanishes'
    BY <2>1, <2>2, <2>3, <2>4, <2>5 DEF TimerInv, NoTimerVanishes
  <2>7. NumberedRows'
    BY <2>2, <2>3, <2>4, <2>5 DEF TimerInv, NumberedRows
  <2>8. Awaited'
    BY <1>5 DEF Unanswered, Awaited, Idle
  <2>9. Awake'
    <3>1. outbox' \in SUBSET Row
      BY DEF TypeOK
    <3> QED
      BY <1>5, <2>3, <3>1, DrainWakes DEF Unanswered
  <2> QED
    BY <2>3, <2>6, <2>7, <2>8, <2>9 DEF TimerInv, Recorded, CommittedOnce
<1> QED
  BY <1>1, <1>2, <1>3, <1>4, <1>5 DEF Delivery

\* The invariant of the timers holds in every reachable state.
THEOREM TimersKept == Spec => []TimerInv
<1>1. Init => TimerInv
  <2> SUFFICES ASSUME Init, TypeOK PROVE TimerInv
    BY InitTyped
  <2>1. SharedAlarm(wake)
    BY Times DEF Init, SharedAlarm, Asleep, Alarm, TypeOK
  <2>2. Recorded
    BY DEF Init, Recorded
  <2>3. Awaited
    BY DEF Init, Awaited, Idle
  <2>4. NumberedRows /\ NoTimerVanishes /\ CommittedOnce /\ ~hydrated
    BY DEF Init, NumberedRows, NoTimerVanishes, CommittedOnce
  <2> QED
    BY <2>1, <2>2, <2>3, <2>4 DEF TimerInv, Awake
<1>2. TimerInv /\ TypeOK' /\ [Next]_vars => TimerInv'
  <2> SUFFICES ASSUME TimerInv, TypeOK', [Next]_vars PROVE TimerInv'
    OBVIOUS
  <2>0. TypeOK
    BY DEF TimerInv
  <2>1. CASE UNCHANGED vars
    BY <2>1 DEF TimerInv, vars, NumberedRows, Awaited, Recorded, Awake, Covers,
         NoTimerVanishes, CommittedOnce
  <2>2. CASE Tick
    <3>1. Awake'
      <4>1. /\ clock' = clock + 1 /\ clock \in Nat
            /\ UNCHANGED <<queue, wake, hydrated>>
            /\ \A i \in Id : queue[i] \in Nat
        BY <2>0, <2>2, Typed, Times DEF Tick, entries, QueueType
      <4>2. Covers(wake, queue) => Covers(wake, queue)'
        BY <4>1 DEF Covers
      <4> QED
        BY <4>1, <4>2 DEF Awake, TimerInv
    <3> QED
      BY <2>2, <3>1 DEF Tick, entries, outcomes, TimerInv, NumberedRows, Awaited,
           Recorded, NoTimerVanishes, CommittedOnce
  <2>3. CASE Evict
    <3>1. Awake'
      <4>1. /\ wake'.alarms["scheduled"] = Never /\ wake'.storage = wake.storage
            /\ ~hydrated' /\ wake' \in Wake
        BY <2>0, <2>3, Typed DEF Evict, Wake, Asleep, Alarm, TypeOK
      <4>2. wake.storage <= Never
        BY Typed, Times DEF TimerInv, Awake, SharedAlarm, Wake, Alarm
      <4> QED
        BY <4>1, <4>2, Times DEF Awake, SharedAlarm
    <3>2. Awaited'
      BY <2>3 DEF Evict, Awaited, Idle
    <3> QED
      BY <2>3, <3>1, <3>2 DEF Evict, entries, TimerInv, NumberedRows,
           Recorded, NoTimerVanishes, CommittedOnce
  <2> QED
    BY <2>1, <2>2, <2>3, RequestsKeep, AlarmKeeps, DeliveryKeeps DEF Next
<1> QED
  BY <1>1, <1>2, ScheduledTypeCorrect, PTL DEF Spec

\* What a turn armed and nobody cancelled or replaced in the queue is in the
\* queue or the outbox, took effect or is in the failure record.
THEOREM TimersNeverVanish == Spec => []NoTimerVanishes
<1>1. TimerInv => NoTimerVanishes
  BY DEF TimerInv
<1> QED
  BY <1>1, TimersKept, PTL

\* A fired turn that writes takes effect once per due time, however often the
\* outbox delivers it and however late an earlier call runs.
THEOREM FiredTurnsCommitOnce == Spec => []CommittedOnce
<1>1. TimerInv => CommittedOnce
  BY DEF TimerInv
<1> QED
  BY <1>1, TimersKept, PTL

\* A live isolate's storage alarm is no later than any entry of the future,
\* although the outbox sets and clears the same alarm.
THEOREM LiveScopeAlwaysWakes == Spec => []LiveScopeWakes
<1>1. TimerInv => LiveScopeWakes
  <2> SUFFICES ASSUME TimerInv, hydrated, NEW i \in pending(queue), queue[i] > clock
               PROVE  wake.storage <= queue[i]
    BY DEF LiveScopeWakes
  <2>1. /\ i \in Id /\ wake \in Wake /\ queue[i] \in Nat
        /\ wake.storage <= wake.alarms["scheduled"]
        /\ wake.alarms["scheduled"] <= queue[i]
    BY Typed, Times DEF TimerInv, Awake, SharedAlarm, Covers, pending, QueueType
  <2> QED
    BY <2>1 DEF Wake, Alarm
<1> QED
  BY <1>1, TimersKept, PTL
=============================================================================
