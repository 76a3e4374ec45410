---------------------------- MODULE RetryRouting ----------------------------
(***************************************************************************)
(* How a gateway shard (class NetGatewayDO of src/worker/net/gateway-do.ts)*)
(* routes the retries of one idempotency key.  Planning a turn again may   *)
(* select another scope, so the first submit of a key pins the key to its  *)
(* scope and every later one follows the pin: only that scope can hold the *)
(* recorded outcome.  Whether a retry runs twice is then a race between    *)
(* two leases kept by different Durable Objects on different clocks.       *)
(*                                                                         *)
(* What is abstracted:                                                     *)
(*   - Planning is the choice of a scope: any scope, at every attempt.     *)
(*   - The head fetch and the attestations between pinning and submitting  *)
(*     are part of the time a submit is in flight.                         *)
(*   - Requests of a slot that are alike in everything count as one.       *)
(*   - A scope is what ScopeSequencer shows it to be: it answers a key     *)
(*     from its unexpired record, keeps a guaranteed record for its lease  *)
(*     and may drop any other one.                                         *)
(***************************************************************************)
EXTENDS Integers, FiniteSets

CONSTANTS
  Scope,
  Key,
  Classes(_),              \* the retry classes the uses of a key may ask for
  Turn,                    \* turn slots: requests in progress on the shard
  Gateway,                 \* names the gateway's clock
  PinLease,                \* GATEWAY_PIN_LEASE_MS
  ReplyLease,              \* IDEMPOTENCY_LEASE_MS
  GuaranteedPinCapacity,   \* GATEWAY_GUARANTEED_PIN_CAPACITY
  TransientPinCapacity,    \* GATEWAY_TRANSIENT_PIN_CAPACITY
  MaxTurnAttempts,         \* MAX_TURN_ATTEMPTS
  Skew,                    \* how far a scope's clock is from the gateway's
  MaxFlight,               \* how long an rpc may take, either way
  MaxWire, MaxClock        \* bounds: submits on the wire, and time

ASSUME RoutingAssumption ==
  /\ PinLease \in Nat /\ ReplyLease \in Nat
  /\ GuaranteedPinCapacity \in Nat /\ TransientPinCapacity \in Nat
  /\ MaxTurnAttempts \in Nat \ {0}
  /\ Skew \in Nat /\ MaxFlight \in Nat /\ MaxWire \in Nat /\ MaxClock \in Nat
  /\ Gateway \notin Scope
  /\ \A k \in Key : Classes(k) \subseteq BOOLEAN

VARIABLES
  pins,     \* rows of net_gateway_pin
  turn,     \* the turns in progress
  wire,     \* submits on their way to a scope
  replies,  \* the scopes' recorded outcomes
  clock     \* what the gateway and each scope read from Date.now()

vars == <<pins, turn, wire, replies, clock>>

Time == 0..MaxClock

Pin == [key : Key, scope : Scope, expires : 0..(MaxClock + PinLease),
        guaranteed : BOOLEAN]

\* A submit: copy 2 is the resend after a transport failure.
Message == [turn : Turn, copy : {1, 2}, key : Key, retry : BOOLEAN,
            plan : Scope, target : Scope, sent : Time]

\* Guaranteed is the retry class under which the outcome was recorded; ahead
\* (history) says that its pin then had a whole outcome lease left to run.
Recorded == [key : Key, scope : Scope, status : {"accepted", "rejected"},
             guaranteed : BOOLEAN, at : Time, ahead : BOOLEAN]

Idle == [phase |-> "idle"]
Planning == [phase : {"planning"}, key : Key, retry : BOOLEAN,
             attempt : 1..MaxTurnAttempts]
Waiting == [phase : {"waiting"}, key : Key, retry : BOOLEAN,
            attempt : 1..MaxTurnAttempts, submit : Message]

TypeOK ==
  /\ pins \subseteq Pin
  /\ turn \in [Turn -> {Idle} \cup Planning \cup Waiting]
  /\ wire \subseteq Message
  /\ replies \subseteq Recorded
  /\ clock \in [Scope \cup {Gateway} -> Time]

(***************************************************************************)
(* The pin table.                                                          *)
(***************************************************************************)
now == clock[Gateway]

livePins == {p \in pins : p.expires > now}

pinRecord(k) == {p \in livePins : p.key = k}

guaranteedPins == {p \in livePins : p.guaranteed}

pinsFull == Cardinality(guaranteedPins) >= GuaranteedPinCapacity

\* Faulty variant: trimming by count spares no class.
trimmed_anyClass ==
  IF Cardinality(livePins) <= TransientPinCapacity
    THEN {livePins}
    ELSE {kept \in SUBSET livePins : Cardinality(kept) = TransientPinCapacity}

\* What pinScope may leave of the table before it inserts: expired rows are
\* deleted, and transient rows beyond their capacity, the oldest first.
trimmed ==
  LET transient == {p \in livePins : ~p.guaranteed}
  IN  IF Cardinality(transient) <= TransientPinCapacity
        THEN {livePins}
        ELSE {guaranteedPins \cup kept : kept \in
               {K \in SUBSET transient :
                  /\ Cardinality(K) = TransientPinCapacity
                  /\ \A p \in K, q \in transient \ K : p.expires >= q.expires}}

NewPin(k, s, retry) ==
  [key |-> k, scope |-> s, expires |-> now + PinLease, guaranteed |-> retry]

(***************************************************************************)
(* A turn at the gateway.                                                  *)
(***************************************************************************)

\* A retry-safe use is refused on a transient pin, and when the table is full.
admitRetryClass(k, retry) ==
  retry => IF pinRecord(k) = {} THEN ~pinsFull
                                ELSE \A p \in pinRecord(k) : p.guaranteed

\* A client's first call, its retry, or a call under a minted key.  Submits of
\* the slot's earlier turns may still be in flight.
Arrive(t, k, retry) ==
  /\ turn[t] = Idle
  /\ admitRetryClass(k, retry)
  /\ turn' = [turn EXCEPT ![t] = [phase |-> "planning", key |-> k,
                                  retry |-> retry, attempt |-> 1]]
  /\ UNCHANGED <<pins, wire, replies, clock>>

\* Faulty variant: one round too many.
nextAttempt_offByOne(u) ==
  IF u.attempt <= MaxTurnAttempts
    THEN [phase |-> "planning", key |-> u.key, retry |-> u.retry,
          attempt |-> u.attempt + 1]
    ELSE Idle

\* Faulty variant: rounds are not counted.
nextAttempt_uncounted(u) ==
  [phase |-> "planning", key |-> u.key, retry |-> u.retry, attempt |-> 1]

\* The turn after a round that settled nothing: another plan, or E_BUDGET.
nextAttempt(u) ==
  IF u.attempt < MaxTurnAttempts
    THEN [phase |-> "planning", key |-> u.key, retry |-> u.retry,
          attempt |-> u.attempt + 1]
    ELSE Idle

\* Planning misses state, repairs the view and goes round.
RepairPlan(t) ==
  /\ turn[t].phase = "planning"
  /\ turn' = [turn EXCEPT ![t] = nextAttempt(@)]
  /\ UNCHANGED <<pins, wire, replies, clock>>

\* A submit gets on the wire; beyond the bound the network drops it at once.
Sent(m) ==
  wire' = IF Cardinality(wire) < MaxWire THEN wire \cup {m} ELSE wire

\* What follows the pin: the submit leaves, or the plan is dropped after a
\* local mismatch or an oversized envelope.
submitOrReplan(t, plan, target) ==
  LET u == turn[t]
      m == [turn |-> t, copy |-> 1, key |-> u.key, retry |-> u.retry,
            plan |-> plan, target |-> target, sent |-> now]
  IN  \/ /\ turn' = [turn EXCEPT ![t] = [phase |-> "waiting", key |-> u.key,
                                         retry |-> u.retry,
                                         attempt |-> u.attempt, submit |-> m]]
         /\ Sent(m)
      \/ /\ turn' = [turn EXCEPT ![t] = nextAttempt(@)]
         /\ UNCHANGED wire

\* The key is pinned: its scope overrides what the plan selected.
FollowPin(t, plan) ==
  /\ turn[t].phase = "planning"
  /\ \E p \in pinRecord(turn[t].key) : submitOrReplan(t, plan, p.scope)
  /\ UNCHANGED <<pins, replies, clock>>

\* Faulty variant: only the admission checks the capacity.
PinScope_noRecheck(t, plan) ==
  LET u == turn[t]
  IN  /\ u.phase = "planning"
      /\ pinRecord(u.key) = {}
      /\ \E rows \in trimmed : pins' = rows \cup {NewPin(u.key, plan, u.retry)}
      /\ submitOrReplan(t, plan, plan)
      /\ UNCHANGED <<replies, clock>>

\* Faulty variant: the last writer of a pin wins.
PinScope_lastWriterWins(t, plan) ==
  LET u == turn[t]
  IN  /\ u.phase = "planning"
      /\ ~(u.retry /\ pinsFull /\ pinRecord(u.key) = {})
      /\ \E rows \in trimmed :
           pins' = (rows \ pinRecord(u.key)) \cup {NewPin(u.key, plan, u.retry)}
      /\ submitOrReplan(t, plan, plan)
      /\ UNCHANGED <<replies, clock>>

\* The key is not pinned: pin it to the selected scope, before the submit
\* leaves.  The capacity check of a guarantee is repeated here.
PinScope(t, plan) ==
  LET u == turn[t]
  IN  /\ u.phase = "planning"
      /\ pinRecord(u.key) = {}
      /\ ~(u.retry /\ pinsFull)
      /\ \E rows \in trimmed : pins' = rows \cup {NewPin(u.key, plan, u.retry)}
      /\ submitOrReplan(t, plan, plan)
      /\ UNCHANGED <<replies, clock>>

\* E_RETRY_CAPACITY at the insert: another turn took the last slot.
PinRefused(t) ==
  LET u == turn[t]
  IN  /\ u.phase = "planning"
      /\ pinRecord(u.key) = {}
      /\ u.retry /\ pinsFull
      /\ pins' \in trimmed
      /\ turn' = [turn EXCEPT ![t] = Idle]
      /\ UNCHANGED <<wire, replies, clock>>

\* The transport fails, whether or not the scope has decided.  One resend of
\* the same submit disambiguates; a second failure surfaces.
TransportFails(t) ==
  LET u == turn[t]
      again == [u.submit EXCEPT !.copy = 2, !.sent = now]
  IN  /\ u.phase = "waiting"
      /\ IF u.submit.copy = 1
           THEN /\ Sent(again)
                /\ turn' = [turn EXCEPT ![t].submit = again]
           ELSE /\ turn' = [turn EXCEPT ![t] = Idle]
                /\ UNCHANGED wire
      /\ UNCHANGED <<pins, replies, clock>>

\* The turn ends early: the repair deadline, a terminal planning error, or
\* the isolate is gone.  Its submits stay in flight.
TurnEnds(t) ==
  /\ turn[t] # Idle
  /\ turn' = [turn EXCEPT ![t] = Idle]
  /\ UNCHANGED <<pins, wire, replies, clock>>

(***************************************************************************)
(* A submit at its scope.                                                  *)
(***************************************************************************)
live(r) == clock[r.scope] < r.at + ReplyLease

recordedReply(k, s) == {r \in replies : r.key = k /\ r.scope = s /\ live(r)}

\* The reply reaches the turn that waits for this submit, or is lost.
answered(m, u) ==
  /\ wire' = wire \ {m}
  /\ \/ UNCHANGED turn
     \/ /\ turn[m.turn].phase = "waiting" /\ turn[m.turn].submit = m
        /\ turn' = [turn EXCEPT ![m.turn] = u]

\* The scope has an outcome for the key: it is returned.
Replay(m) ==
  /\ recordedReply(m.key, m.target) # {}
  /\ answered(m, Idle)
  /\ UNCHANGED <<pins, replies, clock>>

\* Nothing is recorded: a retryable verdict, and the turn is planned again;
\* retry_capacity, or a read that asked for no receipt, and the turn ends.
Unrecorded(m) ==
  /\ recordedReply(m.key, m.target) = {}
  /\ \/ m.plan = m.target /\ answered(m, nextAttempt(turn[m.turn]))
     \/ m.retry /\ answered(m, Idle)
     \/ ~m.retry /\ m.plan = m.target /\ answered(m, Idle)
  /\ UNCHANGED <<pins, replies, clock>>

\* A pin that will outlive an outcome recorded now, on any clocks.
PinnedAhead(k, s) ==
  \E p \in pinRecord(k) : /\ p.scope = s /\ p.guaranteed
                          /\ now + ReplyLease + 2 * Skew <= p.expires

\* Faulty variant: the recorded reply is not looked up.
Record_noLookup(m, status) ==
  /\ status = "accepted" => m.plan = m.target
  /\ replies' = {r \in replies : live(r)} \cup
       {[key |-> m.key, scope |-> m.target, status |-> status,
         guaranteed |-> m.retry, at |-> clock[m.target],
         ahead |-> PinnedAhead(m.key, m.target)]}
  /\ answered(m, Idle)
  /\ UNCHANGED <<pins, clock>>

\* A terminal outcome is recorded: accepted, or rejected.  A transcript planned
\* for another scope than the pinned one is rejected (scope_mismatch).
Record(m, status) ==
  /\ recordedReply(m.key, m.target) = {}
  /\ status = "accepted" => m.plan = m.target
  /\ replies' = {r \in replies : live(r)} \cup
       {[key |-> m.key, scope |-> m.target, status |-> status,
         guaranteed |-> m.retry, at |-> clock[m.target],
         ahead |-> PinnedAhead(m.key, m.target)]}
  /\ answered(m, Idle)
  /\ UNCHANGED <<pins, clock>>

\* The scope's quotas drop a row that carries no guarantee.
EvictReply(r) ==
  /\ r \in replies /\ ~r.guaranteed
  /\ replies' = replies \ {r}
  /\ UNCHANGED <<pins, turn, wire, clock>>

\* The network drops a submit.
Lose(m) ==
  /\ m \in wire
  /\ wire' = wire \ {m}
  /\ UNCHANGED <<pins, turn, replies, clock>>

\* Time passes for some of the clocks; none strays further than Skew.  A
\* submit is gone after MaxFlight, and its turn waits no longer.
Tick(moved) ==
  /\ \A c \in moved : clock[c] < MaxClock
  /\ clock' = [c \in Scope \cup {Gateway} |->
                 IF c \in moved THEN clock[c] + 1 ELSE clock[c]]
  /\ \A s \in Scope : /\ clock'[Gateway] - clock'[s] <= Skew
                      /\ clock'[s] - clock'[Gateway] <= Skew
  /\ \A t \in Turn : turn[t].phase = "waiting" =>
                       clock'[Gateway] <= turn[t].submit.sent + MaxFlight
  /\ wire' = {m \in wire : clock'[Gateway] <= m.sent + MaxFlight}
  /\ UNCHANGED <<pins, turn, replies>>

Init ==
  /\ pins = {}
  /\ turn = [t \in Turn |-> Idle]
  /\ wire = {}
  /\ replies = {}
  /\ clock = [c \in Scope \cup {Gateway} |-> 0]

Next ==
  \/ \E t \in Turn :
       \/ \E k \in Key : \E retry \in Classes(k) : Arrive(t, k, retry)
       \/ RepairPlan(t)
       \/ \E plan \in Scope : FollowPin(t, plan) \/ PinScope(t, plan)
       \/ PinRefused(t)
       \/ TransportFails(t)
       \/ TurnEnds(t)
  \/ \E m \in wire :
       \/ Replay(m) \/ Unrecorded(m) \/ Lose(m)
       \/ \E status \in {"accepted", "rejected"} : Record(m, status)
  \/ \E r \in replies : EvictReply(r)
  \/ \E moved \in SUBSET (Scope \cup {Gateway}) : Tick(moved)

Spec == Init /\ [][Next]_vars

\* The event loop runs every admitted turn, and an rpc that gets no answer
\* times out.  Nothing is assumed of the network, the scopes or the clocks.
Fairness ==
  \A t \in Turn :
    /\ WF_vars(\/ RepairPlan(t) \/ PinRefused(t)
               \/ \E plan \in Scope : FollowPin(t, plan) \/ PinScope(t, plan))
    /\ WF_vars(TransportFails(t))

FairSpec == Spec /\ Fairness

(***************************************************************************)
(* What the two leases give a client.                                      *)
(***************************************************************************)

\* An outcome recorded while its pin had an outcome lease and the skew of the
\* clocks left to run is covered by the pin: until the outcome expires on its
\* scope's clock, the gateway routes the key back to that scope.
PinCoversOutcome ==
  \A r \in replies :
    r.guaranteed /\ r.ahead /\ live(r) =>
      \E p \in pinRecord(r.key) : p.scope = r.scope /\ p.guaranteed

\* A key is decided once across all scopes: while a covered guaranteed outcome
\* is unexpired, no submit of the key that follows a live pin is decided again,
\* at that scope or another, whatever was planned, lost, resent or delayed.
DecidedOnce ==
  [][\A r \in replies' \ replies :
       (\E p \in pinRecord(r.key) : p.scope = r.scope) =>
         ~ \E q \in replies :
             q.key = r.key /\ q.guaranteed /\ q.ahead /\ live(q)]_vars

\* The table stays within its capacities although the admission check and the
\* insert of one turn are separated by its planning; transient rows are
\* trimmed before an insert and may exceed theirs by one.
PinsBounded ==
  /\ Cardinality(guaranteedPins) <= GuaranteedPinCapacity
  /\ Cardinality({p \in livePins : ~p.guaranteed}) <= TransientPinCapacity + 1

\* No guaranteed outcome is recorded behind a transient pin, as "a guaranteed
\* outcome recorded behind it is unprotected in exactly the way this section
\* forbids" (spec/protocol/coherence.md, on the immutable retry class of a key;
\* admitRetryClass looks at the pin before the turn is planned).
GuaranteeHasItsPin ==
  [][\A r \in replies' \ replies :
       r.guaranteed => \A p \in pinRecord(r.key) : p.guaranteed]_vars

\* "a recorded outcome must never outlive the pin that routes its retry back
\* to it" (the comment on GATEWAY_PIN_LEASE_MS).
OutcomeNeverOutlivesPin ==
  \A r \in replies :
    r.guaranteed /\ live(r) => \E p \in pinRecord(r.key) : p.scope = r.scope

\* Every turn settles: each round is counted, and a submit that is never
\* answered times out, is resent once and surfaces.
EveryTurnSettles ==
  \A t \in Turn : turn[t] # Idle ~> turn[t] = Idle
=============================================================================
