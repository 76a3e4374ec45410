---------------------------- MODULE OutboxDrain ----------------------------
(***************************************************************************)
(* A scope's durable outbox and the drain that empties it (class           *)
(* NetScopeDO of src/worker/net/scope-do.ts, class Outbox of               *)
(* src/net/outbox.ts).  A commit leaves one row per destination; the rows  *)
(* of a destination are a lane and go out in order, with retries, backoff  *)
(* and abandonment.  Nobody waits for a delivery, so the Durable Object's  *)
(* single alarm is what keeps rows from waiting for ever: every step must  *)
(* leave it armed, at every point where the isolate may die.               *)
(*                                                                         *)
(* What is abstracted:                                                     *)
(*   - A lane stands for a (route, destination) pair; lanes are numbered   *)
(*     in the order in which a pass visits them, routes from 1 = /fanout.  *)
(*   - A row is its position in the lane (delivery_seq).                   *)
(*   - Times are what is left until them: 0 is due now.                    *)
(*   - The alarm's other keys (scheduled turns, session reaping, live      *)
(*     frames) may run the handler at any time.  An isolate knows only the *)
(*     keys it has set itself (the map of workerd-host.ts).  Whoever sets  *)
(*     one of the others either sets the outbox key in the same step or    *)
(*     sets it to now, except a seed of session cells (SeedSessions).      *)
(*   - The storage writes and the alarm of one uninterrupted step are      *)
(*     kept or lost together (the platform's output gate).                 *)
(*   - The receivers of the row-by-row routes are modelled like the        *)
(*     gateway: what is at or below the mark is a no-op.                   *)
(*   - OUTBOX_PASSES_PER_DRAIN is 1: a drain is one pass, and the flag     *)
(*     enqueuedWhileDraining decides nothing.                              *)
(***************************************************************************)
EXTENDS Integers, FiniteSets, FiniteSetsExt

CONSTANTS
  Lane,           \* numbers, in the order of their destinations
  RouteOf(_),     \* the route of a lane
  Routes,         \* how many routes; the first delivers a lane in one batch
  RowsPerLane,    \* OUTBOX_ROWS_PER_LANE
  LanesPerPass,   \* OUTBOX_LANES_PER_PASS
  MaxAttempts,    \* maxAttempts of Outbox
  Backoff(_),     \* OUTBOX_BACKOFF_MS
  MaxBackoff,
  MaxRows, MaxTotal,         \* bounds: the rows of a lane, and of all lanes
  MaxSubmits, MaxCrashes

ASSUME OutboxAssumption ==
  /\ Lane \subseteq Nat
  /\ Routes \in Nat /\ RowsPerLane \in Nat \ {0} /\ LanesPerPass \in Nat \ {0}
  /\ MaxAttempts \in Nat \ {0}
  /\ MaxBackoff \in Nat /\ MaxRows \in Nat /\ MaxTotal \in Nat /\ MaxSubmits \in Nat
  /\ MaxCrashes \in Nat
  /\ \A l \in Lane : RouteOf(l) \in 1..Routes
  /\ \A a \in 1..MaxAttempts : Backoff(a) \in 0..MaxBackoff

VARIABLES
  rows,       \* net_scope_outbox: the pending rows
  lanes,      \* net_scope_outbox_lane: the directory of lanes
  abandoned,  \* rows given up (all of them; the table keeps a bounded tail)
  next,       \* net_scope_subscribers.delivery_seq: rows ever put in a lane
  alarm,      \* the stored alarm
  submits,    \* submitsInFlight
  deferred,   \* outboxWakeDeferredForSubmit
  armed,      \* outboxAlarmArmed: the isolate has set the outbox key
  wake,       \* history: whether the stored alarm is still the outbox's
  route,      \* the route whose lanes are out, 0 when nothing drains
  flight,     \* the lanes of that route
  late,       \* lanes of later routes whose head was not due when the pass began
  wire,       \* requests sent: any of them may still arrive, or arrive again
  seen,       \* what each destination has received
  crashes     \* how often the isolate has died

stored == <<rows, lanes, abandoned, next>>
drain == <<route, flight, late>>
receivers == <<seen, crashes>>
vars == <<rows, lanes, abandoned, next, alarm, submits, deferred, armed, wake,
          route, flight, late, wire, seen, crashes>>

None == -1
Position == 1..MaxRows
Wakes == {"kept", "overwritten", "orphaned"}

Row == [lane : Lane, n : Position, attempts : 0..(MaxAttempts - 1),
        wait : 0..MaxBackoff]

\* A lane in a pass: the rows it read, the deliverable prefix, the rows of the
\* request that is out and those already acknowledged or failed.
Flight == [selected : SUBSET Position, prefix : SUBSET Position,
           out : SUBSET Position, acked : SUBSET Position,
           failed : SUBSET Position, yielded : BOOLEAN]

\* A lane that takes no part has read no row.
Grounded == [selected |-> {}, prefix |-> {}, out |-> {}, acked |-> {},
             failed |-> {}, yielded |-> FALSE]
NoFlight == [l \in Lane |-> Grounded]

Message == [lane : Lane, rows : SUBSET Position]

TypeOK ==
  /\ rows \subseteq Row /\ lanes \subseteq Lane
  /\ abandoned \subseteq Lane \X Position
  /\ next \in [Lane -> 0..MaxRows]
  /\ alarm \in {None} \cup 0..MaxBackoff
  /\ submits \in 0..MaxSubmits /\ deferred \in BOOLEAN /\ armed \in BOOLEAN
  /\ wake \in Wakes
  /\ route \in 0..Routes /\ flight \in [Lane -> Flight]
  /\ late \subseteq Lane /\ wire \subseteq Message
  /\ seen \in [Lane -> [high : 0..MaxRows, got : SUBSET Position,
                        skipped : SUBSET Position]]
  /\ crashes \in 0..MaxCrashes

(***************************************************************************)
(* Reading the table: R is its pending rows, D the directory.              *)
(***************************************************************************)
pending(R, l) == {r \in R : r.lane = l}

outboxLaneHead(R, l) ==
  CHOOSE r \in pending(R, l) : \A s \in pending(R, l) : r.n <= s.n

\* Faulty variant: only heads in their backoff window are waited for.
outboxNextRetryAt_futureOnly(R, D) ==
  LET heads == {outboxLaneHead(R, l).wait : l \in {k \in D : pending(R, k) # {}}} \ {0}
  IN  IF heads = {} THEN None ELSE Min(heads)

\* The first time at which the head of some listed lane is due.
outboxNextRetryAt(R, D) ==
  LET heads == {outboxLaneHead(R, l).wait : l \in {k \in D : pending(R, k) # {}}}
  IN  IF heads = {} THEN None ELSE Min(heads)

headWaits(R, l) == pending(R, l) # {} /\ outboxLaneHead(R, l).wait > 0

\* The lanes of route q with a due head; those of X were not due when the
\* pass began, and it goes by that time (dueAt).
dueHeads(R, D, X, q) ==
  {l \in D \ X : RouteOf(l) = q /\ pending(R, l) # {} /\ ~headWaits(R, l)}

\* Whether a pass over route q gets as far as lane l.
reached(R, D, X, q, l) ==
  Cardinality({k \in dueHeads(R, D, X, q) : k < l}) < LanesPerPass

dueLanes(R, D, X, q) == {l \in dueHeads(R, D, X, q) : reached(R, D, X, q, l)}

\* The directory after a pass over routes qs has delisted lanes without rows.
swept(R, D, X, qs) ==
  {l \in D : ~(/\ RouteOf(l) \in qs /\ pending(R, l) = {}
               /\ reached(R, D, X, RouteOf(l), l))}

positions(R, l) == {r.n : r \in pending(R, l)}

selectedRows(R, l) ==
  {r \in pending(R, l) :
     Cardinality({n \in positions(R, l) : n < r.n}) < RowsPerLane}

\* Nothing behind a row in its backoff window may leave.
deliverable(R, l) ==
  {r.n : r \in {s \in selectedRows(R, l) :
                  \A t \in selectedRows(R, l) : t.n <= s.n => t.wait = 0}}

Batched(l) == RouteOf(l) = 1

launch(R, l) ==
  LET prefix == deliverable(R, l)
  IN  [selected |-> {r.n : r \in selectedRows(R, l)}, prefix |-> prefix,
       out |-> IF Batched(l) THEN prefix ELSE {Min(prefix)},
       acked |-> {}, failed |-> {}, yielded |-> FALSE]

(***************************************************************************)
(* Parts of a step.                                                        *)
(***************************************************************************)

\* Set the stored alarm from what this step leaves in the table; clear it
\* only when this isolate had set it.
armOutboxRetryAlarm ==
  LET at == outboxNextRetryAt(rows', lanes')
  IN  /\ alarm' = IF at # None THEN at ELSE IF armed THEN None ELSE alarm
      /\ armed' = (at # None)
      /\ wake' = "kept"

Room(L) ==
  /\ \A l \in L : next[l] < MaxRows
  /\ MapThenSumSet(LAMBDA l : next[l], Lane) + Cardinality(L) <= MaxTotal

\* persistOutboxRow: one new row in each lane of L.
newRows(L) ==
  {[lane |-> l, n |-> next[l] + 1, attempts |-> 0, wait |-> 0] : l \in L}

Enqueued(L) ==
  /\ Room(L)
  /\ rows' = rows \cup newRows(L)
  /\ next' = [l \in Lane |-> IF l \in L THEN next[l] + 1 ELSE next[l]]
  /\ UNCHANGED abandoned

requests(f) ==
  {[lane |-> l, rows |-> f[l].out] : l \in {k \in Lane : f[k].out # {}}}

\* The requests that this step sends get on the wire.
Send == wire' = wire \cup requests(flight')

\* The pass from route q on, over the rows R, the directory D and the lanes X
\* that are too late for it: give way to a submit, or send what is due on the
\* first route that has anything due.  The flag d says whether a lane has
\* already given way; the lanes of L are listed by the rest of the step.
drainOutboxPass(q, R, D, X, d, L) ==
  LET due == {p \in q..Routes : dueLanes(R, D, X, p) # {}}
  IN  \/ /\ q <= Routes /\ submits > 0
         /\ route' = 0 /\ flight' = NoFlight /\ late' = {}
         /\ lanes' = D \cup L
         /\ deferred' = TRUE
      \/ /\ q > Routes \/ (submits = 0 /\ due = {})
         /\ route' = 0 /\ flight' = NoFlight /\ late' = {}
         /\ lanes' = swept(R, D, X, q..Routes) \cup L
         /\ deferred' = (d /\ submits > 0)
      \/ /\ submits = 0 /\ due # {}
         /\ route' = Min(due)
         /\ flight' = [l \in Lane |-> IF l \in dueLanes(R, D, X, route')
                                        THEN launch(R, l) ELSE Grounded]
         /\ late' = {l \in X : RouteOf(l) > route'}
         /\ lanes' = swept(R, D, X, q..route') \cup L
         /\ deferred' = d

\* A drain starts with a pass over all routes.
drainOutbox(R, D, L) ==
  drainOutboxPass(1, R, D, {l \in D : headWaits(R, l)}, deferred, L)

\* The finally of drainOutbox: when the drain is over, arm the alarm, unless
\* it gave way to a submit that is still running.
drainEnds ==
  IF route' = 0 /\ ~deferred'
    THEN armOutboxRetryAlarm
    ELSE UNCHANGED <<alarm, armed, wake>>

(***************************************************************************)
(* Requests to the scope.                                                  *)
(***************************************************************************)

\* A submit arrives and its body is awaited.
StartSubmit ==
  /\ submits < MaxSubmits
  /\ submits' = submits + 1
  /\ UNCHANGED <<stored, alarm, deferred, armed, wake, drain, wire, receivers>>

\* finishSubmit: the last submit takes over the wake that was left to it.
finishSubmit ==
  /\ submits' = submits - 1
  /\ deferred' = (deferred /\ submits' > 0)

\* It commits, with a row for each lane of L, or is refused; either way the
\* handler arms the alarm before it counts itself out.
SubmitReplies(L) ==
  /\ submits > 0
  /\ Enqueued(L)
  /\ lanes' = lanes \cup L
  /\ armOutboxRetryAlarm
  /\ finishSubmit
  /\ UNCHANGED <<drain, wire, receivers>>

\* It throws before that.
SubmitThrows ==
  /\ submits > 0
  /\ UNCHANGED stored
  /\ finishSubmit
  /\ IF deferred /\ ~deferred' THEN armOutboxRetryAlarm
                               ELSE UNCHANGED <<alarm, armed, wake>>
  /\ UNCHANGED <<drain, wire, receivers>>

\* An adoption, a relation event or an operator repair; with no lane in L, a
\* step that only re-arms: the sequencer is loaded, or a turn is scheduled.
Enqueue(L) ==
  /\ Enqueued(L)
  /\ lanes' = lanes \cup L
  /\ armOutboxRetryAlarm
  /\ UNCHANGED <<submits, deferred, drain, wire, receivers>>

\* Any other request starts a drain when rows are pending.
Kick ==
  /\ rows # {} /\ route = 0
  /\ UNCHANGED <<rows, abandoned, next>>
  /\ drainOutbox(rows, lanes, {})
  /\ drainEnds
  /\ Send
  /\ UNCHANGED <<submits, receivers>>

\* A seed of session cells sets their key to the next expiry, or clears it
\* when none is ahead (None).  With rows pending, on an isolate that has not
\* set the outbox key, this overwrites the stored alarm; otherwise it is another
\* wake.  The drain that the request kicked is still there.
SeedSessions(expiry) ==
  /\ rows # {} /\ ~armed
  /\ route # 0 \/ deferred
  /\ alarm' = expiry
  /\ wake' = "overwritten"
  /\ UNCHANGED <<stored, submits, deferred, armed, drain, wire, receivers>>

(***************************************************************************)
(* The alarm handler: start a drain, then enqueue for the sessions it      *)
(* reaps and the turns that are due (the lanes of L), start a drain for    *)
(* those if the first one is over, and re-arm.  It is one step: the        *)
(* platform repeats a handler that dies.                                   *)
(***************************************************************************)

\* The rows enqueued by the handler find a drain under way, start one of their
\* own, or (L = {}) there is only the drain that the handler began with.
Handler(L) ==
  LET quiet == submits = 0 /\ rows # {}
      sends == quiet /\ \E q \in 1..Routes : dueLanes(rows, lanes, {}, q) # {}
      begun == IF quiet THEN swept(rows, lanes, {}, 1..Routes) ELSE lanes
  IN  /\ Enqueued(L)
      /\ \/ /\ route # 0 \/ rows' = {}
            /\ lanes' = lanes \cup L
            /\ UNCHANGED <<drain, deferred>>
         \/ /\ route = 0 /\ sends
            /\ drainOutbox(rows, lanes, L)
         \/ /\ route = 0 /\ ~sends /\ rows' # {}
            /\ drainOutbox(rows', begun \cup L, {})
      /\ Send
      /\ UNCHANGED <<submits, receivers>>

\* Faulty variant: a drain that gave way to a submit leaves the alarm to it.
AlarmFires_leavesYielded(L) ==
  /\ alarm = 0
  /\ Handler(L)
  /\ IF deferred' THEN alarm' = None /\ UNCHANGED armed
                  ELSE alarm' = outboxNextRetryAt(rows', lanes') /\ armed' = (alarm' # None)
  /\ wake' = "kept"

AlarmFires(L) ==
  /\ alarm = 0
  /\ Handler(L)
  /\ alarm' = outboxNextRetryAt(rows', lanes')
  /\ armed' = (alarm' # None)
  /\ wake' = "kept"

\* The handler runs for another key of the alarm.
OtherWake(L) ==
  /\ Handler(L)
  /\ armOutboxRetryAlarm

(***************************************************************************)
(* Delivery.                                                               *)
(***************************************************************************)

\* Faulty variant: a row that was passed over takes effect when it comes late.
receive_outOfOrder(v, ns) ==
  LET top == Max(ns \cup {v.high})
  IN  [high |-> top, got |-> v.got \cup ns, skipped |-> v.skipped \cup (((v.high + 1)..top) \ ns)]

\* A destination applies rows in order; a position it has passed is a no-op,
\* and one that is passed over is named (reportFanoutGap).
receive(v, ns) ==
  LET top == Max(ns \cup {v.high})
  IN  [high |-> top,
       got |-> v.got \cup {n \in ns : n > v.high},
       skipped |-> v.skipped \cup (((v.high + 1)..top) \ ns)]

\* The lane after its request was acknowledged: a batch is done, a row is
\* followed by the next one, unless the lane gives way to a submit.
acknowledged(l, f) ==
  LET acked == f.acked \cup f.out
      left == f.prefix \ acked
      yields == ~Batched(l) /\ submits > 0
  IN  [f EXCEPT !.acked = acked,
                !.out = IF left = {} \/ yields THEN {} ELSE {Min(left)},
                !.yielded = left # {} /\ yields]

\* The request arrives and is acknowledged.
Ack(l) ==
  LET m == [lane |-> l, rows |-> flight[l].out]
  IN  /\ m.rows # {}
      /\ seen' = [seen EXCEPT ![l] = receive(@, m.rows)]
      /\ flight' = [flight EXCEPT ![l] = acknowledged(l, @)]
      /\ Send
      /\ UNCHANGED <<stored, alarm, submits, deferred, armed, wake, route, late, crashes>>

\* Faulty variant: the lane goes on behind a row that failed.
Fail_goesOn(l) ==
  LET f == flight[l]
      failed == f.failed \cup f.out
      left == f.prefix \ (f.acked \cup failed)
  IN  /\ f.out # {}
      /\ flight' = [flight EXCEPT ![l] =
           [f EXCEPT !.out = IF left = {} THEN {} ELSE {Min(left)}, !.failed = failed]]
      /\ Send
      /\ UNCHANGED <<stored, alarm, submits, deferred, armed, wake, route, late, receivers>>

\* The rpc fails or times out, whether or not the request arrives.  A batch of
\* several rows falls back to one row at a time, and fails as a whole.
Fail(l) ==
  LET f == flight[l]
  IN  /\ f.out # {}
      /\ flight' = [flight EXCEPT ![l] =
           IF Cardinality(f.out) > 1
             THEN [f EXCEPT !.out = {Min(f.prefix)}]
             ELSE [f EXCEPT !.out = {},
                            !.failed = IF Batched(l) THEN f.prefix ELSE f.out]]
      /\ Send
      /\ UNCHANGED <<stored, alarm, submits, deferred, armed, wake, route, late, receivers>>

\* Faulty variant: whatever has not failed counts as delivered.
delivered_unlessFailed(l) == flight[l].prefix \ flight[l].failed

\* A batch is delivered as a whole, a row by its own acknowledgement.
delivered(l) ==
  IF Batched(l) /\ flight[l].acked # flight[l].prefix THEN {} ELSE flight[l].acked

\* Faulty variant: one attempt too many.
abandons_late(r) == r.attempts + 1 > MaxAttempts

abandons(r) == r.attempts + 1 >= MaxAttempts

\* Faulty variant: a failed attempt is not counted.
retried_uncounted(r, elapsed) ==
  [r EXCEPT !.wait = Max({0, Backoff(r.attempts + 1) - elapsed})]

retried(r, elapsed) ==
  [r EXCEPT !.attempts = @ + 1,
            !.wait = Max({0, Backoff(r.attempts + 1) - elapsed})]

\* Faulty variant: emptiness is judged by the rows the pass had read.
emptied_unguarded(R) ==
  {l \in Lane : flight[l].selected # {} /\ delivered(l) = flight[l].selected}

\* Lanes to delist: all that was read was delivered, and nothing is pending now.
emptied(R) ==
  {l \in Lane : /\ flight[l].selected # {}
                /\ delivered(l) = flight[l].selected
                /\ pending(R, l) = {}}

\* Every lane of the route has settled: delete what was delivered, date or
\* abandon what failed, delist emptied lanes, and go on with the pass.
FinishRoute(elapsed) ==
  LET gone == {r \in rows : r.n \in delivered(r.lane)}
      failed == {r \in rows : r.n \in flight[r.lane].failed}
      lost == {r \in failed : abandons(r)}
  IN  /\ route # 0
      /\ requests(flight) = {}
      /\ rows' = (rows \ (gone \cup failed))
                   \cup {retried(r, elapsed) : r \in failed \ lost}
      /\ abandoned' = abandoned \cup {<<r.lane, r.n>> : r \in lost}
      /\ drainOutboxPass(route + 1, rows', lanes \ emptied(rows'), late,
                         deferred \/ \E l \in Lane : flight[l].yielded, {})
      /\ drainEnds
      /\ Send
      /\ UNCHANGED <<next, submits, receivers>>

(***************************************************************************)
(* The environment.                                                        *)
(***************************************************************************)

\* A request arrives late, in part or without its reply being heard.
Arrive(m, ns) ==
  /\ ns # {} /\ \A a \in ns, b \in m.rows \ ns : a < b
  /\ seen' = [seen EXCEPT ![m.lane] = receive(@, ns)]
  /\ UNCHANGED <<stored, alarm, submits, deferred, armed, wake, drain, wire,
                 crashes>>

\* The isolate dies; storage, the alarm included, survives.
Crash ==
  /\ crashes < MaxCrashes
  /\ crashes' = crashes + 1
  /\ submits' = 0 /\ deferred' = FALSE /\ armed' = FALSE
  /\ route' = 0 /\ flight' = NoFlight /\ late' = {}
  /\ wake' = IF wake = "overwritten" THEN "orphaned" ELSE wake
  /\ UNCHANGED <<stored, alarm, wire, seen>>

less(t) == IF t > 0 THEN t - 1 ELSE t

Tick ==
  /\ alarm > 0 \/ \E r \in rows : r.wait > 0
  /\ alarm' = less(alarm)
  /\ rows' = {[r EXCEPT !.wait = less(@)] : r \in rows}
  /\ UNCHANGED <<lanes, abandoned, next, submits, deferred, armed, wake, route,
                 flight, late, wire, receivers>>

Init ==
  /\ rows = {} /\ lanes = {} /\ abandoned = {}
  /\ next = [l \in Lane |-> 0]
  /\ alarm = None
  /\ submits = 0 /\ deferred = FALSE /\ armed = FALSE /\ wake = "kept"
  /\ route = 0 /\ flight = NoFlight /\ late = {}
  /\ wire = {}
  /\ seen = [l \in Lane |-> [high |-> 0, got |-> {}, skipped |-> {}]]
  /\ crashes = 0

Next ==
  \/ StartSubmit \/ SubmitThrows
  \/ \E L \in SUBSET Lane :
       SubmitReplies(L) \/ Enqueue(L) \/ AlarmFires(L) \/ OtherWake(L)
  \/ Kick
  \/ \E expiry \in {None, MaxBackoff} : SeedSessions(expiry)
  \/ \E l \in Lane : Ack(l) \/ Fail(l)
  \/ \E elapsed \in 0..MaxBackoff : FinishRoute(elapsed)
  \/ \E m \in wire : \E ns \in SUBSET m.rows : Arrive(m, ns)
  \/ Crash
  \/ Tick

Spec == Init /\ [][Next]_vars

\* A submit is answered or its request ends, a due alarm fires, an rpc is
\* answered or times out, a settled pass is written back, and time passes.
Fairness ==
  /\ WF_vars(SubmitThrows \/ \E L \in SUBSET Lane : SubmitReplies(L))
  /\ WF_vars(\E L \in SUBSET Lane : AlarmFires(L))
  /\ \A l \in Lane : WF_vars(Ack(l) \/ Fail(l))
  /\ WF_vars(\E elapsed \in 0..MaxBackoff : FinishRoute(elapsed))
  /\ WF_vars(Tick)

FairSpec == Spec /\ Fairness

(***************************************************************************)
(* What the outbox promises.                                               *)
(***************************************************************************)

\* Delivery is in order and nothing is lost silently: a destination passes
\* over a position only when the sender has abandoned its row, and has
\* received every other position up to its mark (the lane prefix, the halt on
\* a failure, the sequence gate of the receiver).
NoSilentGap ==
  \A l \in Lane : \A n \in 1..seen[l].high :
    \/ n \in seen[l].got
    \/ n \in seen[l].skipped /\ <<l, n>> \in abandoned

\* A crash strands nothing, with one exception: while a row is pending its
\* lane is listed and the stored alarm fires no later than the lane's head is
\* due, at every point of a drain, an alarm, a retry or a submit.  A seed of
\* session cells may overwrite the alarm only while a drain, or the submit it
\* gave way to, is there to set it again; the wake is lost when the isolate
\* dies before that (armOutboxRetryAlarm, the guarded delisting of
\* drainOutboxPass, armSessionReapAlarm).
WakeStands ==
  \A r \in rows :
    /\ r.lane \in lanes
    /\ \/ alarm # None /\ alarm <= outboxLaneHead(rows, r.lane).wait
       \/ wake = "overwritten" /\ (route # 0 \/ deferred)
       \/ wake = "orphaned"

\* A row that is not pending was received or is recorded as abandoned: no
\* write-back deletes what its destination never applied.
DeletedOnlyIfReceived ==
  \A l \in Lane : \A n \in 1..next[l] :
    \/ \E r \in rows : r.lane = l /\ r.n = n
    \/ n \in seen[l].got \/ <<l, n>> \in abandoned

Queues == INSTANCE OutboxLanes WITH
            sent    <- next,
            waiting <- [l \in Lane |-> positions(rows, l)],
            got     <- [l \in Lane |-> seen[l].got],
            lost    <- [l \in Lane |-> {n \in Position : <<l, n>> \in abandoned}]

\* Through lost, late, partial and repeated requests, write-backs, retries and
\* crashes, every lane is a queue: a row takes effect at its destination once,
\* after every earlier one that ever does, and leaves the table only then or
\* given up (drainOutboxPass, applyRelayedFanout).
ImplementsLanes == Queues!Spec

\* No row stays pending for ever: once submits leave the scope alone, it is
\* delivered or abandoned, with no request but the alarm to start a drain and
\* whatever crashed before, unless a crash lost an overwritten wake for good
\* (the finally of drainOutbox, finishSubmit, alarm).
RowsSettle ==
  <>[](submits = 0) /\ []<>(wake # "orphaned" \/ alarm # None) =>
    \A l \in Lane, n \in Position : []<>(\A r \in rows : r.lane # l \/ r.n # n)

\* "delay, never loss" (the comment on the alarm keys in workerd-host.ts): when
\* nothing that runs is about to set the alarm, pending rows have one.
WakeNeverLost ==
  rows # {} => alarm # None \/ route # 0 \/ deferred

\* "A yielded drain MUST NOT re-arm a due-now alarm while the submit remains in
\* flight" (spec/protocol/coherence.md, on commits outranking delivery).
YieldedDrainArmsNothing ==
  [][(\E L \in SUBSET Lane : AlarmFires(L)) /\ deferred'
       => alarm' # 0]_vars
=============================================================================
