# A TLA+ verification of woah's commit protocol

woah is a distributed, programmable virtual world. Its durable state is cut into
*scopes*; each scope is a Cloudflare Durable Object that owns a set of cells and
orders every change to them. *Gateway* Durable Objects hold derived copies of the
cells, run a player's turn against those copies, and submit the resulting
transcript to the scope that owns the turn. A browser *feed* shows a player what
happens. This directory models that protocol (the "net" layer: `src/net`,
`src/worker/net` and `src/client/net-feed.ts`), checks the models with TLC on small
instances and proves their main properties with TLAPS.

## 1. The system

| Component | State | Operations | Talks to | Correct when | Modelled in |
|---|---|---|---|---|---|
| Scope sequencer (`net/scope.ts`) | cells, head (seq, hash, generation), recovery tail, recorded replies, relation rows, scheduled turns; all of it also in SQLite | submit, adopt, seed, activate, operator repairs, session reap, relate, schedule | its shell | a commit equals running its turn at the head; a key is decided once; what is promised to a retry is kept; tables stay bounded | ScopeSequencer, partly CrossScope and ScheduledTurns |
| Scope shell (`worker/net/scope-do.ts`) | the sequencer (or none), outbox rows, subscribers, high-water marks, one alarm | HTTP handlers, alarm, drain | gateways, scopes | memory never runs ahead of storage; every delivery leaves in order and eventually | ScopeSequencer, OutboxDrain, CrossScope, ScheduledTurns |
| Outbox (`net/outbox.ts`, scope shell) | rows per lane, attempts, backoff, lane directory | enqueue, drain, retry, abandon | gateways, scopes | lanes are in order, no wake is lost | OutboxDrain over OutboxLanes |
| Gateway turn loop (`worker/net/gateway-do.ts`) | pins, turn queue | turn, retry, resend | scopes, clients | a retry reaches the scope that recorded its outcome; every turn settles | RetryRouting; its ordering repair in OutlineEdges |
| Gateway views (`worker/net/gateway-do.ts`) | cell copies, heads, complete heads, floors, KV seeds | fanout, pulls, repairs, seed | scopes, KV | a view certified complete is the authority's state at that head | CompleteView |
| Riders (`/net/attest`, `/net/adopt`, `/net/relate`) | priors, residue, marks per sender | attest, adopt, relate, expedite | scopes | a foreign write takes effect once, in order, never over a newer value | CrossScope, OwnerEffects |
| Scheduled turns (`net/scope.ts`, `worker/net/workerd-host.ts`) | due queue, dispatch rows, alarm keys | arm, cancel, alarm, dispatch, retry | gateways | a timer is never lost and commits once | ScheduledTurns |
| Ordered edges and ranks (`core/fractional-rank.ts`, `core/ordered-edge.ts`, `net/ordered-edges.ts`) | one edge cell per item | add, move, reorder, remove | planner, sequencer | concurrent edits are list operations; no list runs out of ranks | OutlineEdges, OutlineForest |
| Browser feed (`client/net-feed.ts`) | session, socket, timer, pending turns, echo guards | open, turn, reconnect, receive | gateway | an observation is shown once; turns settle; the feed stays connected | NetFeed |
| Sessions, guests, identity; planner; world runtime; MCP bridge; local server; worker entry points; user interface | | | | | no, see section 8 |

What is hard to test here: a reply lost after the decision was made; a lease that
ends between a check and its use; the isolate evicted between memory and storage;
quotas reached by unrelated traffic; a stale view that is still good enough to
commit and one that is not; a message that overtakes another; a wake that nobody
sets; two clocks. `PROJECT.json` lists each hazard at its line, with the properties
aimed at it.

## 2. Modules

| Module | Models | Extends or instantiates |
|---|---|---|
| `ScopeSequencer` | one scope's sequencer and its transaction boundary | |
| `RetryRouting` | a gateway shard's pins and turn loop, with the scopes' recorded outcomes and two kinds of clocks | |
| `OutboxLanes` | abstract: a queue of numbered rows per destination | |
| `OutboxDrain` | a scope's outbox, its drain and its alarm, with the receivers | `OutboxLanes` by refinement |
| `CompleteView` | a gateway's copy of one scope and its certificate | |
| `OwnerEffects` | abstract: what a scope promises for foreign writes | |
| `CrossScope` | attestation, riders and relation facts over two durable lanes | `OwnerEffects` by refinement |
| `ScheduledTurns` | timers, the shared alarm, dispatch and redelivery | |
| `NetFeed` | the browser feed | |
| `OutlineForest` | abstract: a forest of child lists | |
| `OutlineEdges` | fractional ranks and the outliner's verbs | `OutlineForest` by refinement |
| `MC...` | parameters and symmetry for TLC | the module they are named after |
| `...Proofs` | theorems | the module they are named after |

Definitions keep the names of the code. A definition whose name ends in a suffix
such as `_noLookup` is a faulty variant of the one that follows it; it is used
only to show that the properties notice the fault.

### ScopeSequencer

`mem` and `durable` are the sequencer's four record families (cells, head, tail,
replies) in memory and in SQLite. `submit` is split by its outcome:

| Action | Code path of `submit` |
|---|---|
| `Replay`, `Conflict` | an unexpired outcome is recorded under the key: returned, or `idempotency_conflict` when both fingerprints are present and differ; another actor's payload is withheld |
| `RefuseUnrecorded` | `retry_capacity` and the retryable verdicts, which leave no record |
| `RejectTerminal` | `reject` with a terminal reason: recorded, stamped, pruned |
| `DirectRead` | a direct turn without effects: no head moves, and a client-keyed one leaves a receipt |
| `Commit` | cells, head, tail entry, reply and pruning in one transaction |
| `CommitAborts` | the transaction throws and `discardSeqOnThrow` drops the sequencer |

`Verdict` keeps the order of the checks. `pruneReplies` is the code's four rules:
expiry, the exemption of guaranteed rows, the two quotas, payload shedding. The
other writers are `Adopt` (compare-and-swap per cell, blind without a prior),
`OrderedRepair` (the operator repairs and the session reap, which differ only in
the cells they choose), `RelationEvent`, `Seed` and `OperatorActivationWrite`,
which move the generation but not the sequence number. `Evict` and `Hydrate` are a
cold start; `ServeClosure` gives a gateway a full closure with its head, the only
views a compacted submit may be planned on.

Abstractions: a cell's version is the digest of its value, so a version is the
value; the hash of a head is a digest of one linear history, so inside a scope it
is determined by `seq`; a turn is a *request*: reads, writes and an output that
depends on the reads (`RequestAssumption`). That assumption is the one thing taken
from the planner, and it is why Serializable needs the read check at all. Rows
written by releases before leases or fingerprints existed are left out.

### RetryRouting

A turn slot is idle, planning or waiting for a submit. `Arrive` is the admission
(`admitRetryClass`, before planning); uses of one key may overlap, in two slots or with
submits of an earlier use still on the wire. `RepairPlan` is a round that only repaired the
view, `FollowPin` and `PinScope` the two branches after a plan, each followed by
the submit or by another round; `PinRefused` is the second capacity check. `Sent` puts a
submit on the wire, which holds `MaxWire` of them: one more is lost at once.
`TransportFails` is a lost or timed-out rpc: one resend, then the error surfaces.
`TurnEnds` is any other exit, the isolate's death included: its submits stay on the
wire. `Replay`, `Unrecorded` and `Record` are the scope's side; the reply may be lost
in each. `EvictReply` is what ScopeSequencer allows: only rows without a guarantee
go before their lease. `Tick` moves any set of clocks that keeps them within
`Skew`. Planning is a free choice of scope at each attempt, which is the worst
case for routing.

### OutboxLanes and OutboxDrain

`OutboxLanes` has no requests, timers or crashes: a commit puts a row into some lanes
(`Enqueue`), a destination takes rows of one lane (`Deliver`), ascending, above all it
has, and passing over none that was not given up; rows leave the queues taken or given
up (`Settle`). A row that was given up may still arrive if nothing later has, because
its last request may be on the wire. `OutboxDrain` is the code. `sent` is
`next`, `waiting` the positions of `rows`, `got` what took effect at the receivers and
`lost` the `abandoned` rows, so an enqueue by any path is an `Enqueue`, an arrival a
`Deliver` of the rows above the mark, a write-back a `Settle`, and all else a stutter.

`rows` and `lanes` are the two tables, `alarm` the stored alarm (as time left),
`submits`, `deferred` and `armed` the shell's flags `submitsInFlight`,
`outboxWakeDeferredForSubmit` and `outboxAlarmArmed`; all but the tables and the alarm
die with the isolate (`Crash`). A pass is split where the code awaits: `route` is the
route whose lanes are out, `flight` what each lane read, sent and heard. `Kick` and
the alarm handler start a drain; `Ack` and `Fail` are the answers to one rpc,
including the fallback of a batch to single rows; `FinishRoute` is the write-back
transaction and the rest of the pass up to the next await. A pass goes by the time at
which it began, so `late` keeps the lanes that were not due then. `wire` holds every
request sent: it may arrive late, in part (a batch is applied row by row) or again.

The storage alarm is one for all kinds of wakes, and an isolate computes it from the
kinds it has set itself. `OtherWake` is the handler running for another kind; whoever
sets one of those sets the outbox's in the same step, or the alarm to now, with one
exception: `SeedSessions`, a `/net/seed` with session cells, sets or clears the
session's wake and nothing else. On an isolate that has not set the outbox's, this
moves or clears the stored alarm of rows that are due, while the drain that the same
request kicked awaits its rpcs. The history variable `wake` says whether the stored
alarm is the outbox's own (`kept`), was overwritten by a seed (`overwritten`), or was
overwritten when the isolate died (`orphaned`).

Abstractions: a row is its position in its lane; a drain is one pass
(`OUTBOX_PASSES_PER_DRAIN` is 1); the alarm handler, which awaits the live queue
first, is one step, because the platform repeats a handler that dies; the live
announcement of failed scheduled turns at the end of a write-back is left out.

### CompleteView

`log` is the scope, one entry per generation; `view`, `seen` and `floors` are the
gateway's stored cells, fanout high-water and per-key floors; `cert` and `hint` are
`completeHeads` and `planningHeads`, which die with the isolate (`Evict`). Each
path by which cells reach the view is an action with its own guard:
`InstallComplete` (full pull, KV seed), `InstallPart` (touched, targeted),
`InstallRefresh`, `InstallExact`, `InstallResidue` (another scope's copy) and
`receiveFanout`, which moves the certificate only when it continues it. Answers are
in `flights` and land in any order or never. `TurnAccepted` is a turn that leaves
out its reads because certificate and planning head agree, and that the scope admits
on its base alone. The ghost fields `from` and `doubtful` of a certificate name the
exceptions of CertifiedReadsCurrent; the code keeps neither.

### OwnerEffects and CrossScope

`OwnerEffects` has no messages: a ride is accepted by another scope and later settled
at the owner in one step, at most once, in its scope's order, applied exactly to the
cells whose value is still what the turn read. `CrossScope` is the code: `Plan` and
`Replan` (view, attestation), `Submit` (`captureRiderPriors`, outbox rows, residue),
`SendRow`, `Acknowledged`, `Abandon` (two lanes per sender), the expedited presence
batch, and the owner's `Adopt` and `Relate` with their marks, beside `OwnerCommit`.
The refinement maps the owner's cells to `cells`, the undelivered rows and requests
above the mark to `rides`, and the adopt marks to `settled`.

Two things the model makes visible without a property: an expedited body carries only
the observations addressed to relation owners, so a mark it moves also covers the
rest; and a ride that writes a cell it did not read takes its prior from the sender's
residue, so a stale residue conflicts until something refreshes it
(`coherence.md` 239-243 describes the residue as a cache).

### ScheduledTurns

`queue` is the due time of every id, `outbox` the dispatch rows, `wake` the one
storage alarm together with the per-isolate keys and flag that compute it
(`WorkerdHost.setAlarm`). `Commit` arms, replaces, cancels and recycles; `Schedule`
is the `/net/schedule` route, which re-arms the alarm without looking at what is due
now; `AdoptAudience`, `SubscribePlanner` and `Hydrate` are the other requests that
re-arm. `AlarmFires` is the handler: take the batch, pop and enqueue in one
transaction, re-arm. `StartDrain`, `RunAwaited`, `RunLate`, `Answered` and
`Unanswered` are delivery, where a call nobody waits for any more may still run.
`Evict` drops the isolate's half of the alarm state.

### NetFeed

An action is the code between two awaits. `attempts` holds every `open()` or
`connectSocket()` call that awaits a reply, `turns` every `turn()` call: over the
socket, then over REST with the same key, then over REST under a re-minted session.
`feed` is the session, socket, timer and re-mint state. `handleObservationsFrame`
keeps the code's order: high-water, echo guards, held frames. The server side
(`Execute`, `Ride`, `PeerCommit`, `Expire`) is external and modelled from how the
client uses it. Two chains may attach a socket each, and the first is then leaked; a
replayed reply that lost its observations still records its echo id, so a frame that
comes later is dropped. Neither contradicts a property the code states.

### OutlineForest and OutlineEdges

`OutlineForest` is a forest whose edits are list operations at an index.
`OutlineEdges` is the code: one edge cell per item with a parent and a fractional
rank, orderings fetched one by one (`Fetch`), a verb planned from them (`Plan`:
`addItem`, `moveItem`, `reorderItem`, `removeItem`, each with the reads of its own), and
a commit that compares every ordering and cell (`Commit`, `Mismatch`). All rank
operations are operators over digit sequences of any base. A reordering is, in the
forest, the move that stays with its parent. The refinement maps the
sorted children of each parent to `children` and the items ever added to `used`.

## 3. Runs

| Run | Question | Result |
|---|---|---|
| `retention` | quotas, leases, aborts, cold starts, several actors and requests per key against the idempotency promises | holds |
| `serial` | stale, mixed, rebased and compacted views against every writer | holds |
| `routing` | overlapping uses of two keys racing for the pins; two leases, skewed clocks, delayed and resent submits; every turn settles | holds |
| `class_race` | no guaranteed outcome behind a transient pin, when uses of a key overlap | violated |
| `delivery` | a batched lane and two row-by-row lanes through a bounded pass, submits, failures, an overwritten alarm and two crashes | holds |
| `certificate` | every path into the view, in any order, against compacted turns | holds |
| `rides` | two senders and an owner under loss, duplication and abandonment | holds |
| `overtaken` | the outbox converges the owner's relations | violated |
| `timers` | timers with batches, a shared alarm, lost answers and an eviction | holds |
| `feed` | a browser feed over expiring sessions, broken and half-open sockets | holds |
| `unheard` | another player's frame is shown | violated |
| `outline` | two players editing an outline of three items | holds |

The properties:

* **OneOutcomePerKey**, **GuaranteedOutcomeRetained**: after an outcome under a
  client's key, nothing of that key is executed or decided differently until the
  lease ends, and its row is in storage all that time.
* **TailRepliesRetained**: commits inside the recovery tail keep their replies.
* **RetentionBound**: rows are bounded by both quotas plus the guarantee capacity.
* **ReplayAnswersItsRequest**: a replay returns a durable decision, for its own
  request, with a payload only for its own actor.
* **Serializable**, **RetainedBaseWindow**: a commit equals running the turn on the
  authority's state; the admissible bases are exactly the tail window.
* **PinCoversOutcome**, **DecidedOnce**: an outcome recorded while its pin had an
  outcome lease plus twice the skew to run is routed to until it expires, and no
  scope decides its key again through a live pin meanwhile.
* **PinsBounded**: the capacities hold across racing turns, although the check at the
  admission and the insert are apart.
* **EveryTurnSettles**: no turn keeps its slot for ever.
* **NoSilentGap**: a destination has every position up to its mark except the
  abandoned ones.
* **ImplementsLanes**: the drain implements `OutboxLanes`. A row takes effect once and
  in order, and none leaves the table before it was received or abandoned
  (DeletedOnlyIfReceived, which is proved on its own as well).
* **WakeStands**: whenever a row is pending its lane is listed and the stored alarm
  is no later than its head, so that a crash at any point strands nothing; or a seed of
  session cells has overwritten the alarm, and then a drain, or the submit it gave way
  to, is there to set it again, until the isolate dies.
* **RowsSettle**: once submits stop, every row is delivered or abandoned, whatever
  crashed before, unless a crash lost an overwritten alarm and nothing sets one again.
* **CertifiedReadsCurrent**: a turn accepted without its reads saw the authority's
  cells, outside the four named exceptions.
* **ImplementsOwnerEffects**: the exchange of riders implements `OwnerEffects`.
  **NoRidePassedOver**, **OneEventPerFact**: the mark passes over no live row, and a
  fact makes one event.
* **NoTimerVanishes**, **CommittedOnce**: an armed timer is somewhere until it is
  settled; its writes commit once.
* **LiveScopeWakes**, **DueTurnsDispatch**: a living scope has its wake in time, and
  a due and deliverable timer is dispatched.
* **ShownOnce**, **HeldFramesReleased**: a turn's observations are shown once, and
  frames held for it are released however it ends.
* **StandsUnlessSuperseded**, **TurnsSettle**: the feed keeps a socket, a timer or an
  attempt unless superseded; every turn settles.
* **ImplementsForest**, **AskedSlot**, **EverySlotOpen**: edits are list operations,
  land at the index asked for in the list of the commit, and leave a rank for every
  slot without renumbering.

Bounds. Every quota is at its smallest interesting value (0 or 1), so that four
outcomes overflow every one of them; a lease of one unit and two clock values give
before, at and after the end of a lease; `MaxSeq` of 3 with a tail of 1 gives a base
inside, at the edge of and beyond the window; two cells and two values are enough
for a lost update and for a mixed view. `routing` explores two slices of the states
(`InstantOrAlone`): two overlapping turns at one instant, over a key that only
guaranteed uses have and one that both classes have, with one slot for a guarantee; and
one turn slot and one key through time, where a turn may begin
while two submits of earlier ones are on the wire (`MaxWire`) and `MaxClock` reaches past
the end of the pin. The constraint cuts off arrivals and ticks, of which no fairness is
assumed, and plans for other scopes than one, so that a turn can always go on inside it and
EveryTurnSettles is checked on whole behaviours.
In `delivery`, two rows in a lane give a batch, its fallback and a row enqueued behind
one in flight; one lane per pass leaves lanes behind; two attempts give a retry and an
abandonment; one submit and two crashes can each fall at any point of a drain, and a
seed wherever the outbox's wake is not set. After a seed or the second crash the lanes
take one row less (`MCBounds`).
In `certificate`, three generations give an image, a fanout that continues it and one
that does not, two flights an overtaking; a second key adds only independent copies
of one key's history. In `rides`, two turns of two senders give a duplicate behind a
newer delivery and a conflict between senders; the second cell is a definition cell,
which refuses a whole ride. In `timers`, a batch of one with two ids leaves a due
timer behind, two clock units give early and late, two attempts a redelivery and a
failure. In `feed`, two mints and two chains give a re-mint during a ticket, `Cap` of
1 an overflowing echo guard. In `outline`, base 4 has every branch of the rank
algorithm within a few insertions, and five commits on three items nest, reorder,
conflict and lengthen keys. Bounds named `Max...` limit the runs only; the proofs
hold for any value of them.
Symmetry is used for keys, senders, items and players, in runs without
liveness.

Faulty variants. For every property of a passing run, `PROJECT.json` names a
variant of the code (a dropped guard, a missing reset, a swapped order) under which
TLC finds the property violated.

Fairness. `routing`: a turn that can take its next step takes it (the event loop runs
what is queued, planning is finite), and a submit without an answer times out (`rpc`
aborts). Nothing is assumed of the network, the scopes or the clocks.
`delivery`: a submit ends, a due alarm fires, an rpc is answered or times out, a
settled pass is written back and time passes. No other request and no arrival is
assumed; RowsSettle assumes that submits eventually stop, because a drain gives way to
every one of them, and that a lost alarm does not stay lost for ever, because nothing but
another request would set it. `timers`: the platform fires a due alarm, and time passes; nothing
is assumed of any request or answer. `feed`: a browser timer fires, a fetch ends with
a reply or an error, and a mint is answered or fails. The other runs are safety only
and allow every process to stop, which is why `rides`, `outline`, `timers` and `feed`
do not check for deadlock: their bounded behaviours end.

## 4. Findings

Three statements of the repository are refuted by a run:

1. `overtaken`. `coherence.md` 1231, "the durable outbox converges the owner
   asynchronously": the expedited presence batch of a later commit moves the owner's
   `/relate` mark past a pending row of an earlier one, which is then dropped as a
   duplicate. The rider lane has no expedited path, which is why NoRidePassedOver
   holds there.
2. `unheard`. `net-feed.ts` 62 and 1044: the `(scope, seq)` guard is for gateways that
   send no echo id, but it applies to every frame, and a direct turn accepted without
   a commit records the current head. Another player's frame at that head is dropped.
3. `class_race`. `coherence.md` 366 and `mcp.md` 728 say that the retry class of a key is
   immutable and that a reuse with a guarantee is refused before planning. The class is
   compared with the pin at the admission only. When a guaranteed use is admitted while
   a transient use of its key is still being planned, the transient one pins the key,
   the guaranteed one follows that pin, and its outcome is recorded behind a route that
   expires sooner and may be evicted.

Other statements are kept as definitions without a run; TLC refutes each of them
when it is put in place of the property it names here:

* `DocumentedRetentionBound` (comment on `pruneReplies`): leaves out the guaranteed
  rows that its own rule exempts. RetentionBound holds.
* `OutcomeNeverOutlivesPin` (comment on `GATEWAY_PIN_LEASE_MS`, `mcp.md` M4.2): the pin
  is dated at the first submit and never renewed, so a retry that commits late
  outlives it. PinCoversOutcome holds.
* `WakeNeverLost` (`workerd-host.ts` 164-173, "delay, never loss"): the outbox's alarm is
  stored and the isolate dies; the next one kicks a drain, a seed whose session cells
  have no expiry ahead clears the alarm, and this isolate dies too. The rows then wait for
  unrelated traffic. With an expiry ahead it is a delay, as the comment says. WakeStands
  holds.
* `YieldedDrainArmsNothing` (`coherence.md` 468): the drain complies, but the alarm
  handler that started it ends in `rearmAlarm`. The same re-arm is what makes
  WakeStands true.
* `CompactedReadsCurrent` (comment on `completeHeads`, "exact at one authority head"):
  not after a seed or an activation, which move the generation without a fanout; nor
  for a key that a late refresh, another scope's residue or an older repair below an
  exact read's fence has written. CertifiedReadsCurrent holds.
* `AlwaysFires` (`coherence.md` 2020, `scheduling.md` 219): `deliverableDue` takes its
  batch before it filters the parked entries, so a batch of overdue `while_active`
  entries without an audience starves an overdue `always` entry.
* `FiredOnce` (`coherence.md` CO16.5): a turn that only speaks leaves no record and
  speaks again when it is redelivered. CommittedOnce holds.
* `EvictedScopeWakes` (`coherence.md` 508): after an eviction the keys of the alarm are
  gone, and a wake consumed for one kind is not set again for another before the
  sequencer is loaded. LiveScopeWakes holds.
* `ReconnectForLife` (`net-feed.ts` 352): an attempt that finds its session replaced
  ends silently, and it may have been the last. StandsUnlessSuperseded holds.

## 5. Proofs

All theorems hold for every value of the constants that satisfies the named
assumptions (`SequencerAssumption`, `RequestAssumption`, `RoutingAssumption` and their
like), which TLC evaluates in the runs. No property below is inductive alone.

`ScopeSequencerProofs`. `IdempotencyInv` adds to the types `Coherent` (an up sequencer
equals storage), `Numbered` (numbers only grow), `ProtectedKept` (every outcome that
is guaranteed or in the tail window and unexpired has its row) and `RowsDecided`. That
a key is decided once needs the row of the first decision, which needs every prune to
have kept it, which needs memory and storage to agree across aborts. From it:
OneOutcomePerKey, GuaranteedOutcomeRetained, TailRepliesRetained and
ReplayAnswersItsRequest. `RetentionInv` gives RetentionBound: a quota says "fewer than
K newer rows", which bounds a set only if the rows are told apart by what it
compares, so the invariant says that outcome numbers are distinct, and sequence
numbers among commits, and bounds each of the four classes of rows; the guarantees are
bounded by the capacity gate, which counts only live ones, because a record also
prunes the expired. `LogInv` (a closure whose head equals the current one equals the
current cells; the tail is the newest suffix) gives RetainedBaseWindow and
Serializable.

`RetryRoutingProofs`. `OnePin` (one live pin per key), `ClocksClose` and
`OutcomesCovered` (an outcome recorded ahead has a pin that expires late enough for
every clock) give PinCoversOutcome and DecidedOnce. `CountInv` gives PinsBounded:
only `PinScope` adds a pin, after a check and a trim in the same step. None of them
assumes that uses of a key do not overlap.

`OutboxDrainProofs`. `OutboxInv` is `TypeOK`, the tables (`Numbered`,
DeletedOnlyIfReceived), `InFlight` (what a lane is sending was read from the table, in
order from its head), `Heard` (a destination has what it acknowledged), `OnWire` (a request, late
or repeated, has no gap that its receiver could skip), NoSilentGap and `HeadsAwaited`
(the lane of every pending row is listed, and while `wake` is `kept` an alarm is set no
later than the wait of that lane's first row). A late duplicate is harmless
only because of `OnWire`, and a write-back deletes only what `Heard` covers. From it:
NoSilentGap and DeletedOnlyIfReceived, in every state of a pass. WakeStands needs one
more invariant, `Tended`: while `wake` is `overwritten` a drain is running or is owed by
a submit, since a drain that ends, and a submit that ends with one owed to it, set the
alarm or find nothing pending.
`LanesAreQueues` is the refinement, `Spec => ImplementsLanes`. Every step is shown to be
one step of the queues or a stutter: an arrival is in order because what a destination
has is at or below its mark, and complete because NoSilentGap holds after it; a
write-back gives up only rows that were waiting, and deletes others only as
DeletedOnlyIfReceived allows. It needs one more invariant, `Asked`: a request on the
wire, however old, names only positions that were handed out.

`CompleteViewProofs`. `CertifiedViewFresh`: under a certificate every undoubted cell of
the view is the authority's at the certified head, and answers in flight are no newer
than the log. From it CertifiedReadsCurrent.

`CrossScopeProofs`. `RideInv` is `TypeOK`, `Numbered`, `Observed` (a prior is what the
turn read, or nothing was read), `InLaneOrder`, `Marked` (no handled
delivery is above its mark) and the properties. `InLaneOrder` and `Marked` are what make a duplicate
behind the mark harmless. It gives NoRidePassedOver, OneEventPerFact, and the
refinement: `RidesImplementOwnerEffects` proves `Spec => Effects!Spec`, with `Submit`
as `Accept`, `Adopt` as `Settle`, `OwnerCommit` as `OwnerWrites`, and every send,
acknowledgement, loss and repetition as a stutter.

`ScheduledTurnsProofs`. `TimerInv` is `TypeOK`, `NumberedRows`, `Awaited` (the row a
drain waits for is in the table), `Recorded` (what took effect with writes has its
reply), `Awake` (keys, flag and storage alarm agree while the isolate lives),
NoTimerVanishes and CommittedOnce. It gives NoTimerVanishes, CommittedOnce and
LiveScopeWakes.

`NetFeedProofs`. `FeedInv` is `TypeOK` and six parts: a turn that was not posted left
nothing at the server (`Unsent`); a frame comes from a run of its turn (`FramesFollowRuns`);
the server logged a turn once per scope (`LoggedOnce`); a frame is held only for a
pending turn (`HeldForPending`); a turn that is not done has shown nothing
(`QuietUntilDone`); and what was shown once is remembered by a guard or cannot come
again, unless a full guard has dropped it (`EmittedOnce`). From it:
ShownOnce. HeldFramesReleased and StandsUnlessSuperseded are proved step by step from
the types and from where a turn and a chain can end.

`OutlineEdgesProofs`. `RankBetweenFits`: for every base above two and all valid ranks in
order, `rankBetween` returns a valid rank strictly between them, at most one digit
longer than the longer neighbour. On top of it come lists: a set of rows has at most one
strictly ascending listing, so the ordering that `orderedChildren` chooses is that
listing, and a row put into a slot, taken out, or appended behind the last one gives
the listing of the new set. `OutlineInv` says that the edges are `sound` (every parent
has its listing, attached items hang from the root or from an attached item, no set of
items is closed under parents), that the item of an add in flight is fresh and asked for
once, and that a transcript is what its verb planned from the orderings and the cells
that it attests (`plans`). A commit finds all of these current and so is an edit of
sound edges. What keeps moves free of cycles is the set of cells a move attests: it
holds the new parent and the parents of its members and not the item, and if it is
current the new parent is not below the item. A reordering reads no such cells and needs
none: in sound edges an item's own parent is never below it (`ParentNotBelow`). From it: EverySlotOpen, AskedSlot and
the refinement, `OutlineIsForest`, with a commit as `Add`, `Move` or `Delete` and
calls, fetches, plans and mismatches as stutters.

Inductions. The library's induction theorems cannot be instantiated here; where an
argument runs along a sequence (the first digit that differs, a listing compared with
another, keys appended one by one), it is made about the least number at which a claim
would fail, which exists by well-foundedness (`NatMin`).

Only model-checked: liveness (EveryTurnSettles, RowsSettle, DueTurnsDispatch,
TurnsSettle), which is beyond the prover. Every other property of the passing runs is a
theorem.

## 6. Plan

Done, in the order of the first plan: ScopeSequencer, RetryRouting,
OutboxDrain over OutboxLanes,
CompleteView, CrossScope over OwnerEffects, ScheduledTurns, NetFeed, OutlineEdges over
OutlineForest, and their proofs.

Worth doing next:

1. Sessions and guests: mint, touch, reap and claim as a module over the sequencer.
2. The scope of RetryRouting as an abstraction of ScopeSequencer, by refinement.
3. Relation rows and topology: derivation from cells, and rebuilding after a reseed.

## 7. Running

In this directory, `tlc -config <module>_<run>.cfg <module>` for each configuration,
for example `tlc -config MCScopeSequencer_retention.cfg MCScopeSequencer`; and `tlapm`
on each module whose name ends in `Proofs`. Each run takes
about three minutes at most on two cores, the proofs about a quarter of an hour together.

## 8. Not modelled

* The world runtime (`core/world.ts`, the virtual machine, the compiler, the catalogs):
  a sequential interpreter with an unbounded input space; it is what a request's
  `Output` stands for. It is most of the repository's lines, so that the modelled
  share of the whole is small.
* Transcripts and the planner, for the same reason: a transcript is its reads, its
  writes and its fate.
* Sessions, guests and identity as state machines of their own; their cells are cells
  of ScopeSequencer, and NetFeed meets an expired session.
* Topology, rosters and presentation data; undo, multi-container orderings, the silent
  detach of a raw recycle and the attempt budget in OutlineEdges.
* In NetFeed the read cache, the backoff delay and runtimes without WebSocket; in
  ScheduledTurns handles and per-actor quotas; in CrossScope more than one owner.
* The MCP bridge, local server, worker entry points, metrics, authentication and the
  user interface: translation, I/O and rendering without state that the modelled parts
  share.
* Formatting, logging, byte caps and rows written by older releases. Authorization
  appears as a request's fault, not as a policy.
