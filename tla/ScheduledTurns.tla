--------------------------- MODULE ScheduledTurns ---------------------------
(***************************************************************************)
(* Scheduled turns of one scope: the durable queue a committed turn arms   *)
(* (class ScopeSequencer of src/net/scope.ts), the alarm that moves due    *)
(* entries to the outbox (alarm() of src/worker/net/scope-do.ts), the      *)
(* planner gateway that runs them (planScheduled of                        *)
(* src/worker/net/gateway-do.ts), and the storage alarm several wakes      *)
(* share (WorkerdHost.setAlarm of src/worker/net/workerd-host.ts).         *)
(*                                                                         *)
(* Nobody waits for a scheduled turn.  Whatever loses it, fires it twice   *)
(* or leaves it without a wake is noticed by nobody, and the isolate that  *)
(* holds half of the alarm state in memory may be evicted at any point.    *)
(*                                                                         *)
(* What is abstracted:                                                     *)
(*   - Time is a small number; Never is later than every time.  An entry   *)
(*     is its id and its due time; queue[i] = Never: id i is not armed.    *)
(*   - What a turn arms has passed the checks of scheduleEffectsError on   *)
(*     provenance, policy, lead time and target; the cap per scope is      *)
(*     modelled.  The lead time counts from the clock the turn was planned *)
(*     at, at most CommitDelay before it commits.                          *)
(*   - A drain delivers one row of the planner's lane.  Batches, yielding  *)
(*     to submits and the other lanes are those of OutboxDrain.            *)
(*   - The scope keeps the replies it records: they outlive a row's        *)
(*     retries (ten minutes against about one).  The rules that drop them  *)
(*     are those of ScopeSequencer.                                        *)
(*   - The wakes for live frames and for session expiry are left out: they *)
(*     may only run the alarm handler early.                               *)
(*   - A fired turn commits at this scope; its verb may arm its own id     *)
(*     again there.                                                        *)
(***************************************************************************)
EXTENDS Integers, FiniteSets

CONSTANTS
  Id,             \* schedule ids, numbers in the order of their names
  WhileActive,    \* the ids whose idle_policy is while_active, not always
  Speech,         \* the ids whose verb says something and writes nothing
  Batch,          \* SCHEDULED_BATCH_PER_ALARM
  MaxPerScope,    \* SCHEDULE_MAX_PER_SCOPE
  MaxAttempts,    \* maxAttempts of Outbox
  Backoff,        \* OUTBOX_BACKOFF_MS
  CommitDelay,    \* how long before its commit a turn may have been planned
  Routed,         \* whether the route /net/schedule is used
  MaxClock, MaxArmings, MaxEvictions       \* bounds

ASSUME ScheduleAssumption ==
  /\ Id \subseteq Nat /\ IsFiniteSet(Id)
  /\ WhileActive \subseteq Id /\ Speech \subseteq Id
  /\ Batch \in Nat \ {0} /\ MaxPerScope \in Nat /\ MaxAttempts \in Nat \ {0}
  /\ Backoff \in Nat /\ CommitDelay \in Nat /\ Routed \in BOOLEAN
  /\ MaxClock \in Nat /\ MaxArmings \in Nat /\ MaxEvictions \in Nat

VARIABLES
  clock,      \* host.now()
  queue,      \* net_scope_scheduled: the due time of each id
  outbox,     \* the pending /plan-scheduled rows of net_scope_outbox
  dispatches, \* net_scope_sched_dispatch
  audience,   \* whether session_subscribers of the scope's space has a session
  planner,    \* whether a planner-role subscriber is registered
  wake,       \* WorkerdHost.alarms, outboxAlarmArmed and the storage alarm
  hydrated,   \* whether this isolate has loaded the sequencer
  drain,      \* the row this isolate's drain awaits an answer for
  late,       \* fire keys of calls nobody awaits that may still run
  replies,    \* the replies the scope has recorded under a fire key
  failures,   \* net_scope_sched_failure (all of it; the table keeps a tail)
  fired,      \* fire keys whose turn took effect
  twice,      \* those whose turn took effect again
  owed,       \* entries armed and neither cancelled nor replaced in the queue
  armings, evictions

entries == <<queue, owed, armings>>
outcomes == <<late, replies, fired, twice>>
vars == <<clock, queue, outbox, dispatches, audience, planner, wake, hydrated,
          drain, late, replies, failures, fired, twice, owed, armings,
          evictions>>

Never == MaxClock + Backoff + 1
Due == 1..MaxClock

\* sched:<id>:<at_logical_time>, the idempotency key of a fired turn.
FireKey == [id : Id, at : Due]

\* A row of the planner's lane: its turn, its place and its retry state.
Row == [id : Id, at : Due, n : Nat, attempts : 0..(MaxAttempts - 1), next : Nat]

key(r) == [id |-> r.id, at |-> r.at]

Outcome == {"accepted", "errored", "rejected"}
Idle == [row |-> {}, state |-> "idle"]

Drain == [row : SUBSET Row, state : {"idle", "called"} \union Outcome]

Alarm == {"scheduled", "outbox"}
Wake == [alarms : [Alarm -> Nat], armed : BOOLEAN, storage : Nat]
Asleep == [a \in Alarm |-> Never]

TypeOK ==
  /\ clock \in 0..MaxClock
  /\ queue \in [Id -> Due \union {Never}]
  /\ outbox \subseteq Row
  /\ dispatches \in Nat
  /\ audience \in BOOLEAN /\ planner \in BOOLEAN /\ hydrated \in BOOLEAN
  /\ wake \in Wake
  /\ drain \in Drain /\ (drain.row = {} <=> drain.state = "idle")
  /\ late \subseteq FireKey
  /\ replies \in [FireKey -> Outcome \union {"none"}]
  /\ failures \subseteq FireKey /\ fired \subseteq FireKey
  /\ twice \subseteq FireKey /\ owed \subseteq FireKey
  /\ armings \in 0..MaxArmings /\ evictions \in 0..MaxEvictions

----------------------------------------------------------------------------
(* The queue.                                                              *)

pending(q) == {i \in Id : q[i] # Never}

hasScheduledDue(q) == \E i \in Id : q[i] <= clock

\* ORDER BY due_at, id.
before(q, i, j) == q[i] < q[j] \/ (q[i] = q[j] /\ i < j)

earlier(q, i) == {j \in Id : before(q, j, i)}

\* The first `limit` entries due, in firing order.
peekDue(q, limit) ==
  {i \in Id : q[i] <= clock /\ Cardinality(earlier(q, i)) < limit}

\* A while_active entry waits for an audience.
deliverableDue(q, limit) ==
  {i \in peekDue(q, limit) : audience \/ i \notin WhileActive}

\* The earliest due time strictly after now, or Never.
nextScheduledAfter(q) ==
  CHOOSE t \in Due \union {Never} :
    /\ t > clock
    /\ t = Never \/ \E i \in Id : q[i] = t
    /\ \A i \in Id : q[i] > clock => t <= q[i]

----------------------------------------------------------------------------
(* The one alarm of the Durable Object.                                    *)

\* WorkerdHost.setAlarm: the storage alarm is the earliest of the keys this
\* isolate has set; with none left it is deleted.
setAlarm_last(w, a, at) ==
  [w EXCEPT !.alarms = [w.alarms EXCEPT ![a] = at], !.storage = at]

setAlarm(w, a, at) ==
  LET alarms == [w.alarms EXCEPT ![a] = at]
  IN  [w EXCEPT !.alarms = alarms,
                !.storage = IF alarms["scheduled"] <= alarms["outbox"]
                            THEN alarms["scheduled"]
                            ELSE alarms["outbox"]]

\* The head of the lane: what is behind it may not go first.
first(rows) == {r \in rows : \A s \in rows : r.n <= s.n}

outboxNextRetryAt(rows) ==
  LET head == CHOOSE r \in first(rows) : TRUE
  IN  IF head.next < clock THEN clock ELSE head.next

\* The wake for the outbox is cleared only by an isolate that has set it.
armOutboxRetryAlarm(w, rows) ==
  IF rows # {} THEN setAlarm([w EXCEPT !.armed = TRUE], "outbox", outboxNextRetryAt(rows))
  ELSE IF w.armed THEN setAlarm([w EXCEPT !.armed = FALSE], "outbox", Never)
  ELSE w

rearmAlarm(w, q, rows, dueNow) ==
  armOutboxRetryAlarm(
    setAlarm(w, "scheduled", IF dueNow THEN clock ELSE nextScheduledAfter(q)), rows)

\* ensureSequencer: a cold isolate derives the wake from the queue.
hydrate(w, q, rows) ==
  IF hydrated \/ pending(q) = {} THEN w
  ELSE rearmAlarm(w, q, rows, hasScheduledDue(q))

----------------------------------------------------------------------------
(* Turns that arm and cancel.                                              *)

Init ==
  /\ clock = 0
  /\ queue = [i \in Id |-> Never]
  /\ outbox = {} /\ dispatches = 0
  /\ audience \in BOOLEAN /\ planner = FALSE
  /\ wake = [alarms |-> Asleep, armed |-> FALSE, storage |-> Never]
  /\ hydrated = FALSE
  /\ drain = Idle
  /\ late = {}
  /\ replies = [k \in FireKey |-> "none"]
  /\ failures = {} /\ fired = {} /\ twice = {} /\ owed = {}
  /\ armings = 0 /\ evictions = 0

Tick ==
  /\ clock < MaxClock
  /\ clock' = clock + 1
  /\ UNCHANGED <<entries, outbox, dispatches, audience, planner, wake, hydrated,
                 drain, outcomes, failures, evictions>>

\* A turn drops ids, cancelling them or recycling their objects, and arms others.
\* The cap counts what a cancellation frees and not what a recycle frees.
armable(dropped, recycles, armed) ==
  /\ armed \intersect dropped = {}
  /\ armed # {} =>
       Cardinality((pending(queue) \union armed) \ (IF recycles THEN {} ELSE dropped))
         <= MaxPerScope

\* The queue after the turn: drops first, then upserts by id.
applied(dropped, armed, at) ==
  [i \in Id |-> IF i \in armed THEN at
                ELSE IF i \in dropped THEN Never
                ELSE queue[i]]

atQueue(q) == {[id |-> i, at |-> q[i]] : i \in pending(q)}

\* What the turn does to the queue, and what is owed afterwards.
Effects(dropped, recycles, armed, at) ==
  /\ at \in Due /\ (armed # {} => at > clock - CommitDelay)
  /\ armings + Cardinality(armed) <= MaxArmings
  /\ armable(dropped, recycles, armed)
  /\ queue' = applied(dropped, armed, at)
  /\ owed' = (owed \ (atQueue(queue) \ atQueue(queue')))
               \union {[id |-> i, at |-> at] : i \in armed}
  /\ armings' = armings + Cardinality(armed)

\* /net/submit, accepted: any acceptance re-arms, also for what is overdue.
Commit(dropped, recycles, armed, at, attached) ==
  /\ Effects(dropped, recycles, armed, at)
  /\ audience' = attached
  /\ hydrated' = TRUE
  /\ wake' = rearmAlarm(wake, queue', outbox, hasScheduledDue(queue'))
  /\ UNCHANGED <<clock, outbox, dispatches, planner, drain, outcomes, failures,
                 evictions>>

\* /net/schedule parks one turn of the future and re-arms for the future only.
Schedule(i, at) ==
  /\ Routed /\ at \in Due /\ at > clock /\ armings < MaxArmings
  /\ queue' = [queue EXCEPT ![i] = at]
  /\ owed' = (owed \ (atQueue(queue) \ atQueue(queue'))) \union {[id |-> i, at |-> at]}
  /\ armings' = armings + 1
  /\ hydrated' = TRUE
  /\ wake' = rearmAlarm(wake, queue', outbox, FALSE)
  /\ UNCHANGED <<clock, outbox, dispatches, audience, planner, drain, outcomes,
                 failures, evictions>>

\* A session cell of the space that rides in from another scope (/net/adopt)
\* hydrates and re-arms only for the outbox.
AdoptAudience ==
  /\ audience' = ~audience
  /\ hydrated' = TRUE
  /\ wake' = armOutboxRetryAlarm(hydrate(wake, queue, outbox), outbox)
  /\ UNCHANGED <<clock, entries, outbox, dispatches, planner, drain, outcomes,
                 failures, evictions>>

\* Any other request that loads the sequencer.
Hydrate ==
  /\ ~hydrated
  /\ hydrated' = TRUE
  /\ wake' = hydrate(wake, queue, outbox)
  /\ UNCHANGED <<clock, entries, outbox, dispatches, audience, planner, drain,
                 outcomes, failures, evictions>>

\* /net/subscribe with the planner role wakes for what is parked; it does not
\* load the sequencer.
SubscribePlanner ==
  /\ planner' = TRUE
  /\ wake' = IF hasScheduledDue(queue) THEN setAlarm(wake, "scheduled", clock) ELSE wake
  /\ UNCHANGED <<clock, entries, outbox, dispatches, audience, hydrated, drain,
                 outcomes, failures, evictions>>

----------------------------------------------------------------------------
(* The alarm.                                                              *)

\* dueTurns with onlyIds: an entry that is due and not deliverable stays.
popped_allDue(due) == [i \in Id |-> IF i \in peekDue(queue, Batch) THEN Never ELSE queue[i]]

popped(due) == [i \in Id |-> IF i \in due THEN Never ELSE queue[i]]

\* One outbox row per entry, numbered in firing order.
dispatched(due) ==
  {[id |-> i, at |-> queue[i],
    n |-> dispatches + 1 + Cardinality(earlier(queue, i) \intersect due),
    attempts |-> 0, next |-> clock] : i \in due}

\* A batch that left due entries wakes again now.
moreDueNow_never(due, q) == FALSE

moreDueNow(due, q) == planner /\ due # {} /\ hasScheduledDue(q)

\* alarm(): entries change family in one transaction, or stay parked.
AlarmFires ==
  /\ wake.storage <= clock
  /\ hydrated' = TRUE
  /\ LET due == deliverableDue(queue, Batch)
         moved == IF planner THEN due ELSE {}
         awake == hydrate([wake EXCEPT !.storage = Never], queue, outbox)
     IN  /\ queue' = popped(moved)
         /\ outbox' = outbox \union dispatched(moved)
         /\ dispatches' = dispatches + Cardinality(moved)
         /\ wake' = rearmAlarm(awake, queue', outbox', moreDueNow(due, queue'))
  /\ UNCHANGED <<clock, owed, armings, audience, planner, drain, outcomes,
                 failures, evictions>>

----------------------------------------------------------------------------
(* Delivery to the planner.                                                *)

\* A drain, deferred by any request or by the alarm: it calls the planner with
\* the head of the lane, or finds the head inside its backoff and re-arms.
StartDrain ==
  /\ drain = Idle /\ outbox # {}
  /\ \E r \in first(outbox) :
       \/ /\ r.next <= clock
          /\ drain' = [row |-> {r}, state |-> "called"]
          /\ wake' = wake
       \/ /\ r.next > clock
          /\ drain' = drain
          /\ wake' = armOutboxRetryAlarm(wake, outbox)
  /\ UNCHANGED <<clock, entries, outbox, dispatches, audience, planner, hydrated,
                 outcomes, failures, evictions>>

\* The planner runs the turn under its fire key and submits it here.  A recorded
\* reply is replayed.  A turn that writes is recorded; one that only speaks, or
\* whose verb raises, commits nothing and is not; a terminal verdict is.
Verdict(k, outcome) ==
  IF replies[k] # "none" THEN outcome = replies[k]
  ELSE outcome \in Outcome

TakesEffect(k, outcome) == outcome = "accepted" /\ replies[k] = "none"

recorded_never(k, outcome) == replies

recorded(k, outcome) ==
  IF outcome = "rejected" \/ (outcome = "accepted" /\ k.id \notin Speech)
  THEN [replies EXCEPT ![k] = outcome]
  ELSE replies

\* A fired turn may arm its own id again (a chain).
Run(k, outcome, armed, at) ==
  /\ Verdict(k, outcome)
  /\ armed \subseteq {k.id}
  /\ armed # {} => TakesEffect(k, outcome) /\ k.id \notin Speech
  /\ Effects({}, FALSE, armed, at)
  /\ replies' = recorded(k, outcome)
  /\ fired' = IF TakesEffect(k, outcome) THEN fired \union {k} ELSE fired
  /\ twice' = IF TakesEffect(k, outcome) /\ k \in fired THEN twice \union {k} ELSE twice
  /\ hydrated' = TRUE
  /\ wake' = IF outcome = "rejected" THEN hydrate(wake, queue, outbox)
             ELSE rearmAlarm(wake, queue', outbox, hasScheduledDue(queue'))
  /\ UNCHANGED <<clock, outbox, dispatches, audience, planner, failures, evictions>>

RunAwaited(outcome, armed, at) ==
  /\ drain.state = "called"
  /\ \E r \in drain.row : Run(key(r), outcome, armed, at)
  /\ drain' = [drain EXCEPT !.state = outcome]
  /\ late' = late

RunLate(k, outcome, armed, at) ==
  /\ k \in late
  /\ Run(k, outcome, armed, at)
  /\ late' = late \ {k}
  /\ drain' = drain

\* The answer arrives: one transaction records the failure, if it is one, and
\* deletes the row.
Answered ==
  /\ drain.state \in Outcome
  /\ \E r \in drain.row :
       /\ failures' = IF drain.state = "accepted" THEN failures
                      ELSE failures \union {key(r)}
       /\ outbox' = {s \in outbox : s.n # r.n}
  /\ drain' = Idle
  /\ wake' = armOutboxRetryAlarm(wake, outbox')
  /\ UNCHANGED <<clock, entries, dispatches, audience, planner, hydrated, outcomes,
                 evictions>>

\* The call fails or its reply is lost; an unreached planner may still run it.
\* The row waits out its backoff, or is abandoned with a failure record.
failed_late(r) ==
  {s \in outbox : s.n # r.n} \union
    (IF r.attempts + 1 > MaxAttempts THEN {}
     ELSE {[r EXCEPT !.attempts = r.attempts + 1, !.next = clock + Backoff]})

failed(r) ==
  {s \in outbox : s.n # r.n} \union
    (IF r.attempts + 1 >= MaxAttempts THEN {}
     ELSE {[r EXCEPT !.attempts = r.attempts + 1, !.next = clock + Backoff]})

Unanswered ==
  /\ drain # Idle
  /\ \E r \in drain.row :
       /\ \/ drain.state = "called" /\ late' = late \union {key(r)}
          \/ late' = late
       /\ failures' = IF r.attempts + 1 >= MaxAttempts THEN failures \union {key(r)}
                      ELSE failures
       /\ outbox' = failed(r)
  /\ drain' = Idle
  /\ wake' = armOutboxRetryAlarm(wake, outbox')
  /\ UNCHANGED <<clock, entries, dispatches, audience, planner, hydrated, replies,
                 fired, twice, evictions>>

\* The isolate is evicted: its alarm keys and its drain are gone, the storage
\* alarm and the rows are not.
Evict ==
  /\ evictions < MaxEvictions
  /\ evictions' = evictions + 1
  /\ hydrated' = FALSE
  /\ wake' = [wake EXCEPT !.alarms = Asleep, !.armed = FALSE]
  /\ drain' = Idle
  /\ late' = IF drain.state = "called" THEN late \union {key(r) : r \in drain.row}
             ELSE late
  /\ UNCHANGED <<clock, entries, outbox, dispatches, audience, planner, replies,
                 failures, fired, twice>>

Requests ==
  \/ \E dropped, armed \in SUBSET Id, at \in Due, recycles, attached \in BOOLEAN :
       Commit(dropped, recycles, armed, at, attached)
  \/ \E i \in Id, at \in Due : Schedule(i, at)
  \/ AdoptAudience
  \/ Hydrate
  \/ SubscribePlanner

Delivery ==
  \/ StartDrain
  \/ \E outcome \in Outcome, armed \in SUBSET Id, at \in Due :
       \/ RunAwaited(outcome, armed, at)
       \/ \E k \in late : RunLate(k, outcome, armed, at)
  \/ Answered
  \/ Unanswered

Next == Tick \/ Requests \/ AlarmFires \/ Delivery \/ Evict

Spec == Init /\ [][Next]_vars

\* The platform fires a storage alarm that is due, and time passes.
FairSpec == Spec /\ WF_vars(AlarmFires) /\ WF_vars(Tick)

----------------------------------------------------------------------------
(* Properties.                                                             *)

\* A timer never disappears: what a committed turn armed, and nobody cancelled
\* or replaced while it was in the queue, is in the queue or in the outbox, has
\* taken effect, or is in the failure record, through parking, batches,
\* evictions between a delivery and its write-back, and abandonment.
NoTimerVanishes ==
  \A k \in owed :
    \/ queue[k.id] = k.at
    \/ \E r \in outbox : key(r) = k
    \/ k \in fired
    \/ k \in failures

\* A fired turn that writes takes effect once per due time, although the outbox
\* delivers it again after a lost reply, a timeout or an eviction, while an
\* earlier call may still be running (the reply recorded under its fire key).
CommittedOnce == \A k \in twice : k.id \in Speech

\* While its isolate lives, a scope with a turn to run later has a storage alarm
\* no later than that turn, whatever the outbox wake that shares the alarm does.
LiveScopeWakes ==
  hydrated => \A i \in pending(queue) : queue[i] > clock => wake.storage <= queue[i]

\* A due entry of an attended scope whose isolate lives and has its wake set
\* leaves the queue, however many entries are due before it and whatever is
\* armed in between, or the audience leaves.
DueTurnsDispatch ==
  \A i \in Id :
    (/\ queue[i] <= clock /\ audience /\ planner /\ hydrated
     /\ wake.alarms["scheduled"] # Never)
    ~> (queue[i] > clock \/ ~audience \/ ~hydrated)

\* "A pending entry survives DO eviction and fires via the scope alarm": a scope
\* with a turn to run later has some storage alarm, evicted or not.
EvictedScopeWakes ==
  \A i \in pending(queue) : queue[i] > clock => wake.storage # Never

\* "always - fires with nobody watching": a due entry that needs no audience
\* leaves the queue once a planner is registered.
AlwaysFires ==
  \A i \in Id \ WhileActive :
    (queue[i] <= clock /\ planner /\ hydrated) ~> (queue[i] > clock \/ ~hydrated)

\* "Fired exactly once".
FiredOnce == twice = {}
=============================================================================
