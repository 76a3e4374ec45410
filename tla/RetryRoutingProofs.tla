------------------------- MODULE RetryRoutingProofs -------------------------
(***************************************************************************)
(* Proofs about RetryRouting, for every set of scopes, keys and turns, all *)
(* leases and capacities, and any bound on the skew of the clocks.         *)
(***************************************************************************)
EXTENDS RetryRouting, FiniteSetTheorems, TLAPS

USE DEF Time

(***************************************************************************)
(* Type correctness.                                                       *)
(***************************************************************************)

\* A planning turn is a Planning record and a waiting one a Waiting record:
\* the phase field tells the three shapes apart.
LEMMA PhaseShape ==
  ASSUME TypeOK, NEW t \in Turn
  PROVE  /\ turn[t].phase = "planning" => turn[t] \in Planning
         /\ turn[t].phase = "waiting" => turn[t] \in Waiting
  BY DEF TypeOK, Planning, Waiting, Idle

\* The next round of a turn is a legal turn state (nextAttempt).
LEMMA NextAttemptType ==
  ASSUME NEW u \in Planning \cup Waiting
  PROVE  nextAttempt(u) \in {Idle} \cup Planning
<1>1. u.key \in Key /\ u.retry \in BOOLEAN /\ u.attempt \in 1..MaxTurnAttempts
  BY DEF Planning, Waiting
<1>2. CASE u.attempt < MaxTurnAttempts
  <2>1. u.attempt + 1 \in 1..MaxTurnAttempts
    BY <1>1, <1>2, RoutingAssumption
  <2> QED BY <1>1, <1>2, <2>1 DEF nextAttempt, Planning
<1>3. CASE ~(u.attempt < MaxTurnAttempts)
  BY <1>3 DEF nextAttempt
<1> QED BY <1>2, <1>3

\* Trimming keeps only live pins and every live guaranteed one (pinScope).
LEMMA TrimmedKeeps ==
  ASSUME NEW rows \in trimmed
  PROVE  rows \subseteq livePins /\ guaranteedPins \subseteq rows
<1> DEFINE transient == {p \in livePins : ~p.guaranteed}
<1>1. CASE Cardinality(transient) <= TransientPinCapacity
  BY <1>1 DEF trimmed, guaranteedPins
<1>2. CASE ~(Cardinality(transient) <= TransientPinCapacity)
  <2>1. PICK K \in SUBSET transient : rows = guaranteedPins \cup K
    BY <1>2 DEF trimmed
  <2> QED BY <2>1 DEF guaranteedPins
<1> QED BY <1>1, <1>2

LEMMA ClockType ==
  ASSUME TypeOK
  PROVE  now \in 0..MaxClock /\ \A s \in Scope : clock[s] \in 0..MaxClock
  BY DEF TypeOK, now

\* What leaves for a scope is a well-formed submit (submitOrReplan).
LEMMA SubmitType ==
  ASSUME TypeOK, NEW t \in Turn, NEW plan \in Scope, NEW target \in Scope,
         turn[t].phase = "planning", submitOrReplan(t, plan, target)
  PROVE  /\ wire' \subseteq Message
         /\ turn' \in [Turn -> {Idle} \cup Planning \cup Waiting]
<1> DEFINE u == turn[t]
           m == [turn |-> t, copy |-> 1, key |-> u.key, retry |-> u.retry,
                 plan |-> plan, target |-> target, sent |-> now]
           w == [phase |-> "waiting", key |-> u.key, retry |-> u.retry,
                 attempt |-> u.attempt, submit |-> m]
<1>1. u \in Planning
  BY PhaseShape
<1>2. m \in Message
  BY <1>1, ClockType DEF Planning, Message
<1>3. w \in Waiting
  BY <1>1, <1>2 DEF Planning, Waiting
<1>4. nextAttempt(u) \in {Idle} \cup Planning
  BY <1>1, NextAttemptType
<1> HIDE DEF m, w
<1>5. \/ turn' = [turn EXCEPT ![t] = w] /\ wire' \subseteq wire \cup {m}
      \/ turn' = [turn EXCEPT ![t] = nextAttempt(u)] /\ wire' = wire
  BY DEF submitOrReplan, Sent, m, w
<1> QED BY <1>2, <1>3, <1>4, <1>5 DEF TypeOK

\* An answer leaves the turns and the wire well-formed (answered).
LEMMA AnsweredType ==
  ASSUME TypeOK, NEW m \in wire, NEW u,
         turn[m.turn].phase = "waiting" => u \in {Idle} \cup Planning,
         answered(m, u)
  PROVE  /\ wire' \subseteq Message
         /\ turn' \in [Turn -> {Idle} \cup Planning \cup Waiting]
<1>1. wire' \subseteq Message
  BY DEF answered, TypeOK
<1>2. m.turn \in Turn
  BY DEF TypeOK, Message
<1>3. CASE turn' = turn
  BY <1>1, <1>3 DEF TypeOK
<1>4. CASE turn[m.turn].phase = "waiting" /\ turn' = [turn EXCEPT ![m.turn] = u]
  BY <1>1, <1>2, <1>4 DEF TypeOK
<1> QED BY <1>3, <1>4 DEF answered

LEMMA PinTypeKept ==
  ASSUME TypeOK, NEW rows \in trimmed
  PROVE  rows \subseteq Pin
  BY TrimmedKeeps DEF TypeOK, livePins

\* Init and every step of Next leave a well-typed state.
LEMMA TypeInit == Init => TypeOK
  BY RoutingAssumption DEF Init, TypeOK, Idle

LEMMA TypeStep == TypeOK /\ [Next]_vars => TypeOK'
<1> SUFFICES ASSUME TypeOK, [Next]_vars PROVE TypeOK'
  OBVIOUS
<1> USE DEF TypeOK
<1>1. ASSUME NEW t \in Turn, NEW k \in Key, NEW retry \in Classes(k), Arrive(t, k, retry)
      PROVE TypeOK'
  <2>1. retry \in BOOLEAN
    BY RoutingAssumption, <1>1
  <2>2. [phase |-> "planning", key |-> k, retry |-> retry, attempt |-> 1] \in Planning
    BY <2>1, RoutingAssumption DEF Planning
  <2> QED BY <1>1, <2>2 DEF Arrive
<1>2. ASSUME NEW t \in Turn, RepairPlan(t) PROVE TypeOK'
  <2>1. nextAttempt(turn[t]) \in {Idle} \cup Planning
    BY <1>2, PhaseShape, NextAttemptType DEF RepairPlan
  <2> QED BY <1>2, <2>1 DEF RepairPlan
<1>3. ASSUME NEW t \in Turn, NEW plan \in Scope, FollowPin(t, plan) PROVE TypeOK'
  <2>1. PICK p \in pinRecord(turn[t].key) : submitOrReplan(t, plan, p.scope)
    BY <1>3 DEF FollowPin
  <2>2. p.scope \in Scope
    BY DEF pinRecord, livePins, Pin
  <2> QED BY <1>3, <2>1, <2>2, SubmitType DEF FollowPin
<1>4. ASSUME NEW t \in Turn, NEW plan \in Scope, PinScope(t, plan) PROVE TypeOK'
  <2>1. turn[t] \in Planning
    BY <1>4, PhaseShape DEF PinScope
  <2>2. NewPin(turn[t].key, plan, turn[t].retry) \in Pin
    BY <2>1, ClockType, RoutingAssumption DEF NewPin, Pin, Planning
  <2>3. pins' \subseteq Pin
    BY <1>4, <2>2, PinTypeKept DEF PinScope
  <2>4. /\ wire' \subseteq Message
        /\ turn' \in [Turn -> {Idle} \cup Planning \cup Waiting]
    BY <1>4, SubmitType DEF PinScope
  <2> QED BY <1>4, <2>3, <2>4 DEF PinScope
<1>5. ASSUME NEW t \in Turn, PinRefused(t) PROVE TypeOK'
  BY <1>5, PinTypeKept DEF PinRefused
<1>6. ASSUME NEW t \in Turn, TransportFails(t) PROVE TypeOK'
  <2> DEFINE again == [turn[t].submit EXCEPT !.copy = 2, !.sent = now]
  <2>1. turn[t] \in Waiting
    BY <1>6, PhaseShape DEF TransportFails
  <2>2. again \in Message
    BY <2>1, ClockType DEF Waiting, Message
  <2>3. [turn[t] EXCEPT !.submit = again] \in Waiting
    BY <2>1, <2>2 DEF Waiting
  <2> HIDE DEF again
  <2>4. \/ wire' \subseteq wire \cup {again} /\ turn' = [turn EXCEPT ![t].submit = again]
        \/ wire' = wire /\ turn' = [turn EXCEPT ![t] = Idle]
    BY <1>6 DEF TransportFails, Sent, again
  <2>5. CASE wire' \subseteq wire \cup {again} /\ turn' = [turn EXCEPT ![t].submit = again]
    <3>1. turn' = [turn EXCEPT ![t] = [turn[t] EXCEPT !.submit = again]]
      BY <2>5
    <3> QED BY <1>6, <2>2, <2>3, <2>5, <3>1 DEF TransportFails
  <2>6. CASE wire' = wire /\ turn' = [turn EXCEPT ![t] = Idle]
    BY <1>6, <2>6 DEF TransportFails
  <2> QED BY <2>4, <2>5, <2>6
<1>7. ASSUME NEW t \in Turn, TurnEnds(t) PROVE TypeOK'
  BY <1>7 DEF TurnEnds
<1>8. ASSUME NEW m \in wire, Replay(m) PROVE TypeOK'
  BY <1>8, AnsweredType DEF Replay
<1>9. ASSUME NEW m \in wire, Unrecorded(m) PROVE TypeOK'
  <2>1. m.turn \in Turn
    BY DEF Message
  <2>2. turn[m.turn].phase = "waiting" => nextAttempt(turn[m.turn]) \in {Idle} \cup Planning
    BY <2>1, PhaseShape, NextAttemptType
  <2>3. answered(m, nextAttempt(turn[m.turn])) \/ answered(m, Idle)
    BY <1>9 DEF Unrecorded
  <2>4. /\ wire' \subseteq Message
        /\ turn' \in [Turn -> {Idle} \cup Planning \cup Waiting]
    BY <2>2, <2>3, AnsweredType
  <2> QED BY <1>9, <2>4 DEF Unrecorded
<1>10. ASSUME NEW m \in wire, NEW status \in {"accepted", "rejected"}, Record(m, status)
       PROVE TypeOK'
  <2> DEFINE row == [key |-> m.key, scope |-> m.target, status |-> status,
                     guaranteed |-> m.retry, at |-> clock[m.target],
                     ahead |-> PinnedAhead(m.key, m.target)]
  <2>1. m \in Message
    OBVIOUS
  <2>2. PinnedAhead(m.key, m.target) \in BOOLEAN
    BY DEF PinnedAhead
  <2>3. row \in Recorded
    BY <2>1, <2>2, ClockType DEF Message, Recorded
  <2> HIDE DEF row
  <2>4. replies' = {r \in replies : live(r)} \cup {row}
    BY <1>10 DEF Record, row
  <2>5. /\ wire' \subseteq Message
        /\ turn' \in [Turn -> {Idle} \cup Planning \cup Waiting]
    BY <1>10, AnsweredType DEF Record
  <2> QED BY <1>10, <2>3, <2>4, <2>5 DEF Record
<1>11. ASSUME NEW m \in wire, Lose(m) PROVE TypeOK'
  BY <1>11 DEF Lose
<1>12. ASSUME NEW r \in replies, EvictReply(r) PROVE TypeOK'
  BY <1>12 DEF EvictReply
<1>13. ASSUME NEW moved \in SUBSET (Scope \cup {Gateway}), Tick(moved) PROVE TypeOK'
  <2>1. \A c \in Scope \cup {Gateway} : clock'[c] \in Time
    BY <1>13, RoutingAssumption DEF Tick
  <2>2. clock' \in [Scope \cup {Gateway} -> Time]
    BY <1>13, <2>1 DEF Tick
  <2> QED BY <1>13, <2>2 DEF Tick
<1>14. CASE UNCHANGED vars
  BY <1>14 DEF vars
<1> QED
  BY <1>1, <1>2, <1>3, <1>4, <1>5, <1>6, <1>7, <1>8, <1>9, <1>10, <1>11, <1>12,
     <1>13, <1>14 DEF Next

\* Every reachable state is well-typed: no turn exceeds its rounds, and no pin
\* outlives its lease.
THEOREM RoutingTypeCorrect == Spec => []TypeOK
  BY TypeInit, TypeStep, PTL DEF Spec

(***************************************************************************)
(* The inductive invariant.  PinCoversOutcome is not inductive: that the   *)
(* pin outlives the outcome has to be said as an inequality between the    *)
(* two expiry times, which are on different clocks.                        *)
(***************************************************************************)

\* A key has at most one live pin.
OnePin == \A p, q \in livePins : p.key = q.key => p = q

\* The clocks stay within Skew of each other.
ClocksClose ==
  \A s \in Scope : clock[Gateway] - clock[s] <= Skew /\ clock[s] - clock[Gateway] <= Skew

\* While a covered outcome lives, its pin is in the table and expires late
\* enough for every gateway clock within Skew of the scope's.
Covered(r) ==
  \E p \in pins : /\ p.key = r.key /\ p.scope = r.scope /\ p.guaranteed
                  /\ r.at + ReplyLease + Skew <= p.expires

OutcomesCovered ==
  \A r \in replies : r.guaranteed /\ r.ahead /\ live(r) => Covered(r)

RoutingInv == OnePin /\ ClocksClose /\ OutcomesCovered

\* The pin of a live covered outcome is live on the gateway's clock.
LEMMA CoverIsLive ==
  ASSUME TypeOK, ClocksClose, NEW r \in replies, live(r), NEW p \in pins,
         r.at + ReplyLease + Skew <= p.expires
  PROVE  p \in livePins
<1>1. /\ now \in Nat /\ clock[r.scope] \in Nat /\ r.at \in Nat
      /\ p.expires \in Nat /\ ReplyLease \in Nat /\ Skew \in Nat
  BY ClockType, RoutingAssumption DEF TypeOK, Recorded, Pin
<1>2. now - clock[r.scope] <= Skew
  BY DEF ClocksClose, TypeOK, Recorded, now
<1>3. clock[r.scope] < r.at + ReplyLease
  BY DEF live
<1>4. p.expires > now
  BY <1>1, <1>2, <1>3
<1> QED BY <1>4 DEF livePins

\* Covered outcomes are routed to their scope.
LEMMA CoverIsRoute ==
  ASSUME TypeOK, ClocksClose, OutcomesCovered
  PROVE  PinCoversOutcome
<1> SUFFICES ASSUME NEW r \in replies, r.guaranteed, r.ahead, live(r)
             PROVE  \E p \in pinRecord(r.key) : p.scope = r.scope /\ p.guaranteed
  BY DEF PinCoversOutcome
<1>1. PICK p \in pins : /\ p.key = r.key /\ p.scope = r.scope /\ p.guaranteed
                        /\ r.at + ReplyLease + Skew <= p.expires
  BY DEF OutcomesCovered, Covered
<1>2. p \in livePins
  BY <1>1, CoverIsLive
<1> QED BY <1>1, <1>2 DEF pinRecord

\* A step that keeps the clocks, every live guaranteed pin, and adds at most
\* one pin, of a key that had none, preserves the invariant.
LEMMA PinTableStep ==
  ASSUME TypeOK, RoutingInv, UNCHANGED <<replies, clock>>,
         guaranteedPins \subseteq pins',
         NEW k, NEW n,
         pins' \subseteq livePins \cup {n},
         n \in pins' /\ n \notin livePins => n.key = k /\ pinRecord(k) = {}
  PROVE  RoutingInv'
<1>1. OnePin'
  <2> SUFFICES ASSUME NEW p \in livePins', NEW q \in livePins', p.key = q.key
               PROVE  p = q
    BY DEF OnePin
  <2>1. p \in pins' /\ q \in pins'
    BY DEF livePins
  <2>2. p \in livePins \/ p = n
    BY <2>1
  <2>3. q \in livePins \/ q = n
    BY <2>1
  <2>4. CASE p \in livePins /\ q \in livePins
    BY <2>4 DEF RoutingInv, OnePin
  <2>5. CASE p \in livePins /\ q = n /\ n \notin livePins
    BY <2>1, <2>5 DEF pinRecord
  <2>6. CASE q \in livePins /\ p = n /\ n \notin livePins
    BY <2>1, <2>6 DEF pinRecord
  <2> QED BY <2>2, <2>3, <2>4, <2>5, <2>6
<1>2. ClocksClose'
  BY DEF RoutingInv, ClocksClose
<1>3. OutcomesCovered'
  <2> SUFFICES ASSUME NEW r \in replies, r.guaranteed, r.ahead, live(r)
               PROVE  Covered(r)'
    BY DEF OutcomesCovered, live
  <2>1. PICK p \in pins : /\ p.key = r.key /\ p.scope = r.scope /\ p.guaranteed
                          /\ r.at + ReplyLease + Skew <= p.expires
    BY DEF RoutingInv, OutcomesCovered, Covered
  <2>2. p \in guaranteedPins
    BY <2>1, CoverIsLive DEF RoutingInv, guaranteedPins
  <2> QED BY <2>1, <2>2 DEF Covered
<1> QED BY <1>1, <1>2, <1>3 DEF RoutingInv

\* A step that leaves pins and clocks alone and records nothing preserves it.
LEMMA QuietStep ==
  ASSUME RoutingInv, UNCHANGED <<pins, clock>>, replies' \subseteq replies
  PROVE  RoutingInv'
  BY DEF RoutingInv, OnePin, ClocksClose, OutcomesCovered, Covered, livePins, now, live

\* Recording an outcome preserves it: when the pin is ahead by a lease and
\* twice the skew on the gateway's clock, it is ahead on the scope's (Record).
LEMMA RecordStep ==
  ASSUME TypeOK, RoutingInv, NEW m \in wire, NEW status, Record(m, status)
  PROVE  RoutingInv'
<1> DEFINE row == [key |-> m.key, scope |-> m.target, status |-> status,
                   guaranteed |-> m.retry, at |-> clock[m.target],
                   ahead |-> PinnedAhead(m.key, m.target)]
<1>1. OnePin' /\ ClocksClose'
  BY DEF Record, RoutingInv, OnePin, ClocksClose, livePins, now
<1>2. OutcomesCovered'
  <2> SUFFICES ASSUME NEW r \in replies', r.guaranteed, r.ahead, live(r)'
               PROVE  Covered(r)'
    BY DEF OutcomesCovered
  <2>1. pins' = pins /\ clock' = clock
    BY DEF Record
  <2>2. r \in replies \/ r = row
    BY DEF Record
  <2>3. CASE r \in replies
    BY <2>1, <2>3 DEF RoutingInv, OutcomesCovered, Covered, live
  <2>4. CASE r = row
    <3>1. /\ r.key = m.key /\ r.scope = m.target /\ r.at = clock[m.target]
          /\ PinnedAhead(m.key, m.target)
      BY <2>4
    <3>2. PICK p \in pinRecord(m.key) :
            /\ p.scope = m.target /\ p.guaranteed
            /\ now + ReplyLease + 2 * Skew <= p.expires
      BY <3>1 DEF PinnedAhead
    <3>3. p \in pins /\ p.key = m.key
      BY DEF pinRecord, livePins
    <3>4. m.target \in Scope
      BY DEF TypeOK, Message
    <3>5. clock[m.target] - now <= Skew
      BY <3>4 DEF RoutingInv, ClocksClose, now
    <3>6. /\ now \in Nat /\ clock[m.target] \in Nat /\ p.expires \in Nat
          /\ ReplyLease \in Nat /\ Skew \in Nat
      BY <3>3, <3>4, ClockType, RoutingAssumption DEF TypeOK, Pin
    <3>7. clock[m.target] + ReplyLease + Skew <= p.expires
      BY <3>2, <3>5, <3>6
    <3> QED BY <2>1, <3>1, <3>2, <3>3, <3>7 DEF Covered
  <2> QED BY <2>2, <2>3, <2>4
<1> QED BY <1>1, <1>2 DEF RoutingInv

\* Clocks only advance: a live outcome was live before, a live pin too (Tick).
LEMMA TickStep ==
  ASSUME TypeOK, RoutingInv, NEW moved \in SUBSET (Scope \cup {Gateway}), Tick(moved)
  PROVE  RoutingInv'
<1>1. \A c \in Scope \cup {Gateway} : clock[c] <= clock'[c]
  BY DEF Tick, TypeOK
<1>2. livePins' \subseteq livePins
  <2> SUFFICES ASSUME NEW p \in livePins' PROVE p \in livePins
    OBVIOUS
  <2>1. p \in pins /\ p.expires > clock'[Gateway]
    BY DEF livePins, now, Tick
  <2>2. p.expires \in Nat /\ clock[Gateway] \in Nat /\ clock'[Gateway] \in Nat
    BY <2>1, RoutingAssumption DEF TypeOK, Pin, Tick
  <2>3. p.expires > clock[Gateway]
    BY <1>1, <2>1, <2>2
  <2> QED BY <2>1, <2>3 DEF livePins, now
<1>3. OnePin'
  BY <1>2 DEF RoutingInv, OnePin
<1>4. ClocksClose'
  BY DEF Tick, ClocksClose
<1>5. OutcomesCovered'
  <2> SUFFICES ASSUME NEW r \in replies, r.guaranteed, r.ahead, live(r)'
               PROVE  Covered(r)'
    BY DEF OutcomesCovered, Tick
  <2>1. /\ r.scope \in Scope /\ r.at \in Nat /\ ReplyLease \in Nat
        /\ clock[r.scope] \in Nat /\ clock'[r.scope] \in Nat
    BY RoutingAssumption DEF TypeOK, Recorded, Tick
  <2>2. live(r)
    BY <1>1, <2>1 DEF live
  <2> QED BY <2>2 DEF RoutingInv, OutcomesCovered, Covered, Tick
<1> QED BY <1>3, <1>4, <1>5 DEF RoutingInv

LEMMA RoutingInit == Init => RoutingInv
  BY RoutingAssumption DEF Init, RoutingInv, OnePin, ClocksClose, OutcomesCovered, livePins

\* Every step of Next preserves the invariant.
LEMMA RoutingStep == TypeOK /\ RoutingInv /\ [Next]_vars => RoutingInv'
<1> SUFFICES ASSUME TypeOK, RoutingInv, [Next]_vars PROVE RoutingInv'
  OBVIOUS
<1>1. ASSUME NEW t \in Turn, NEW k \in Key, NEW retry \in Classes(k), Arrive(t, k, retry)
      PROVE RoutingInv'
  BY <1>1, QuietStep DEF Arrive
<1>2. ASSUME NEW t \in Turn, RepairPlan(t) PROVE RoutingInv'
  BY <1>2, QuietStep DEF RepairPlan
<1>3. ASSUME NEW t \in Turn, NEW plan \in Scope, FollowPin(t, plan) PROVE RoutingInv'
  BY <1>3, QuietStep DEF FollowPin
<1>4. ASSUME NEW t \in Turn, NEW plan \in Scope, PinScope(t, plan) PROVE RoutingInv'
  <2> DEFINE n == NewPin(turn[t].key, plan, turn[t].retry)
  <2>1. PICK rows \in trimmed : pins' = rows \cup {n}
    BY <1>4 DEF PinScope
  <2>2. rows \subseteq livePins /\ guaranteedPins \subseteq rows
    BY TrimmedKeeps
  <2>3. n.key = turn[t].key /\ pinRecord(turn[t].key) = {}
    BY <1>4 DEF PinScope, NewPin
  <2>4. UNCHANGED <<replies, clock>>
    BY <1>4 DEF PinScope
  <2> HIDE DEF n
  <2> QED BY <2>1, <2>2, <2>3, <2>4, PinTableStep
<1>5. ASSUME NEW t \in Turn, PinRefused(t) PROVE RoutingInv'
  <2>1. pins' \in trimmed
    BY <1>5 DEF PinRefused
  <2>2. pins' \subseteq livePins /\ guaranteedPins \subseteq pins'
    BY <2>1, TrimmedKeeps
  <2>3. UNCHANGED <<replies, clock>>
    BY <1>5 DEF PinRefused
  <2>4. /\ pins' \subseteq livePins \cup {Idle}
        /\ Idle \in pins' /\ Idle \notin livePins =>
             Idle.key = Idle /\ pinRecord(Idle) = {}
    BY <2>2
  <2> QED BY <2>2, <2>3, <2>4, PinTableStep
<1>6. ASSUME NEW t \in Turn, TransportFails(t) PROVE RoutingInv'
  BY <1>6, QuietStep DEF TransportFails
<1>7. ASSUME NEW t \in Turn, TurnEnds(t) PROVE RoutingInv'
  BY <1>7, QuietStep DEF TurnEnds
<1>8. ASSUME NEW m \in wire, Replay(m) PROVE RoutingInv'
  BY <1>8, QuietStep DEF Replay
<1>9. ASSUME NEW m \in wire, Unrecorded(m) PROVE RoutingInv'
  BY <1>9, QuietStep DEF Unrecorded
<1>10. ASSUME NEW m \in wire, NEW status \in {"accepted", "rejected"}, Record(m, status)
       PROVE RoutingInv'
  BY <1>10, RecordStep
<1>11. ASSUME NEW m \in wire, Lose(m) PROVE RoutingInv'
  BY <1>11, QuietStep DEF Lose
<1>12. ASSUME NEW r \in replies, EvictReply(r) PROVE RoutingInv'
  BY <1>12, QuietStep DEF EvictReply
<1>13. ASSUME NEW moved \in SUBSET (Scope \cup {Gateway}), Tick(moved) PROVE RoutingInv'
  BY <1>13, TickStep
<1>14. CASE UNCHANGED vars
  BY <1>14, QuietStep DEF vars
<1> QED
  BY <1>1, <1>2, <1>3, <1>4, <1>5, <1>6, <1>7, <1>8, <1>9, <1>10, <1>11, <1>12,
     <1>13, <1>14 DEF Next

\* The invariant holds in every reachable state.
THEOREM RoutingInvariant == Spec => [](TypeOK /\ RoutingInv)
<1>1. Init => TypeOK /\ RoutingInv
  BY TypeInit, RoutingInit
<1>2. TypeOK /\ RoutingInv /\ [Next]_vars => (TypeOK /\ RoutingInv)'
  BY TypeStep, RoutingStep
<1> QED BY <1>1, <1>2, PTL DEF Spec

\* A pin with an outcome lease and the skew left to run outlives the outcome
\* recorded behind it: the retry of a guaranteed key finds its way back.
THEOREM PinOutlivesOutcome == Spec => []PinCoversOutcome
<1>1. TypeOK /\ RoutingInv => PinCoversOutcome
  BY CoverIsRoute DEF RoutingInv
<1> QED BY <1>1, RoutingInvariant, PTL

\* Across all scopes, a key with a covered guaranteed outcome is not decided
\* again by a submit that follows a live pin, for every set of scopes and any
\* number of concurrent turns, resends, losses and delays.
THEOREM DecidedOnceAcrossScopes == Spec => DecidedOnce
<1> DEFINE Step ==
      \A r \in replies' \ replies :
        (\E p \in pinRecord(r.key) : p.scope = r.scope) =>
          ~ \E q \in replies : q.key = r.key /\ q.guaranteed /\ q.ahead /\ live(q)
<1>1. TypeOK /\ RoutingInv /\ [Next]_vars => [Step]_vars
  <2> SUFFICES ASSUME TypeOK, RoutingInv, [Next]_vars,
                      NEW r \in replies' \ replies,
                      NEW p \in pinRecord(r.key), p.scope = r.scope,
                      NEW q \in replies, q.key = r.key, q.guaranteed, q.ahead, live(q)
               PROVE  FALSE
    OBVIOUS
  <2>1. PICK m \in wire, status \in {"accepted", "rejected"} : Record(m, status)
    BY DEF Next, Arrive, RepairPlan, FollowPin, PinScope, PinRefused, TransportFails,
           TurnEnds, Replay, Unrecorded, Lose, EvictReply, Tick, vars
  <2>2. r.key = m.key /\ r.scope = m.target
    BY <2>1 DEF Record
  <2>3. PICK o \in pinRecord(q.key) : o.scope = q.scope
    BY CoverIsRoute DEF RoutingInv, PinCoversOutcome
  <2>4. o = p
    BY <2>3 DEF RoutingInv, OnePin, pinRecord
  <2>5. q \in recordedReply(m.key, m.target)
    BY <2>2, <2>3, <2>4 DEF recordedReply
  <2> QED BY <2>1, <2>5 DEF Record
<1>2. (Spec => [](TypeOK /\ RoutingInv)) /\ Spec => [][Step]_vars
  BY <1>1, PTL DEF Spec
<1>3. Spec => [][Step]_vars
  BY <1>2, RoutingInvariant
<1> QED BY <1>3 DEF DecidedOnce

(***************************************************************************)
(* Capacities.  That the table is finite is part of the invariant.         *)
(***************************************************************************)
transientPins == {p \in livePins : ~p.guaranteed}

CountInv == IsFiniteSet(pins) /\ PinsBounded

\* A finite set within n, and one more element.
LEMMA OneMore ==
  ASSUME NEW S, IsFiniteSet(S), NEW n \in Nat, Cardinality(S) <= n, NEW x,
         NEW T \in SUBSET (S \cup {x})
  PROVE  IsFiniteSet(T) /\ Cardinality(T) <= n + 1
<1>1. /\ IsFiniteSet(S \cup {x}) /\ Cardinality(S) \in Nat
      /\ Cardinality(S \cup {x}) \in {Cardinality(S), Cardinality(S) + 1}
  BY FS_AddElement, FS_CardinalityType
<1>2. IsFiniteSet(T) /\ Cardinality(T) <= Cardinality(S \cup {x}) /\ Cardinality(T) \in Nat
  BY <1>1, FS_Subset, FS_CardinalityType
<1> QED BY <1>1, <1>2

\* A part of a finite set has no more elements than the set.
LEMMA Within ==
  ASSUME NEW S, IsFiniteSet(S), NEW n \in Nat, Cardinality(S) <= n, NEW T \in SUBSET S
  PROVE  IsFiniteSet(T) /\ Cardinality(T) <= n
<1>1. Cardinality(S) \in Nat
  BY FS_CardinalityType
<1>2. IsFiniteSet(T) /\ Cardinality(T) <= Cardinality(S) /\ Cardinality(T) \in Nat
  BY FS_Subset, FS_CardinalityType
<1> QED BY <1>1, <1>2

\* The parts of the pin table that are counted are finite.
LEMMA PinsFinite ==
  ASSUME IsFiniteSet(pins)
  PROVE  IsFiniteSet(livePins) /\ IsFiniteSet(guaranteedPins) /\ IsFiniteSet(transientPins)
<1>1. livePins \subseteq pins /\ guaranteedPins \subseteq pins /\ transientPins \subseteq pins
  BY DEF livePins, guaranteedPins, transientPins
<1> QED BY <1>1, FS_Subset

\* Trimming leaves transient pins within their capacity (pinScope).
LEMMA TrimmedCounts ==
  ASSUME IsFiniteSet(pins), NEW rows \in trimmed
  PROVE  /\ IsFiniteSet(rows)
         /\ Cardinality({p \in rows : ~p.guaranteed}) <= TransientPinCapacity
<1>0. IsFiniteSet(rows)
  BY PinsFinite, TrimmedKeeps, FS_Subset
<1>1. CASE Cardinality(transientPins) <= TransientPinCapacity
  <2>1. rows = livePins
    BY <1>1 DEF trimmed, transientPins
  <2> QED BY <1>0, <1>1, <2>1 DEF transientPins
<1>2. CASE ~(Cardinality(transientPins) <= TransientPinCapacity)
  <2>1. PICK K \in SUBSET transientPins :
          rows = guaranteedPins \cup K /\ Cardinality(K) = TransientPinCapacity
    BY <1>2 DEF trimmed, transientPins
  <2>2. {p \in rows : ~p.guaranteed} = K
    BY <2>1 DEF transientPins, guaranteedPins
  <2>3. TransientPinCapacity <= TransientPinCapacity
    BY RoutingAssumption
  <2> QED BY <1>0, <2>1, <2>2, <2>3
<1> QED BY <1>1, <1>2

\* Pins only go, or expire.
LEMMA CountDown ==
  ASSUME CountInv, pins' \subseteq pins, livePins' \subseteq livePins
  PROVE  CountInv'
<1>1. IsFiniteSet(pins')
  BY FS_Subset DEF CountInv
<1>2. IsFiniteSet(guaranteedPins) /\ IsFiniteSet(transientPins)
  BY PinsFinite DEF CountInv
<1>3. /\ Cardinality(guaranteedPins) <= GuaranteedPinCapacity
      /\ Cardinality(transientPins) <= TransientPinCapacity + 1
  BY DEF CountInv, PinsBounded, transientPins
<1>4. guaranteedPins' \subseteq guaranteedPins /\ transientPins' \subseteq transientPins
  BY DEF guaranteedPins, transientPins
<1>5. TransientPinCapacity + 1 \in Nat /\ GuaranteedPinCapacity \in Nat
  BY RoutingAssumption
<1>6. Cardinality(guaranteedPins') <= GuaranteedPinCapacity
  BY <1>2, <1>3, <1>4, <1>5, Within
<1>7. Cardinality(transientPins') <= TransientPinCapacity + 1
  BY <1>2, <1>3, <1>4, <1>5, Within
<1> QED BY <1>1, <1>6, <1>7 DEF CountInv, PinsBounded, transientPins

\* The empty pin table is within its capacities.
LEMMA CountInit == Init => CountInv
<1> SUFFICES ASSUME Init PROVE CountInv
  OBVIOUS
<1>1. guaranteedPins = {} /\ {p \in livePins : ~p.guaranteed} = {}
  BY DEF Init, guaranteedPins, livePins
<1>2. Cardinality({}) = 0 /\ IsFiniteSet({})
  BY FS_EmptySet
<1> QED BY <1>1, <1>2, RoutingAssumption DEF Init, CountInv, PinsBounded

\* The insert: the guarantee's capacity is checked again, transient rows were
\* trimmed (pinScope).
LEMMA CountPinned ==
  ASSUME CountInv, NEW t \in Turn, NEW plan \in Scope, PinScope(t, plan)
  PROVE  CountInv'
<1> DEFINE n == NewPin(turn[t].key, plan, turn[t].retry)
<1>1. PICK rows \in trimmed : pins' = rows \cup {n}
  BY DEF PinScope
<1>2. ~(turn[t].retry /\ pinsFull) /\ now' = now
  BY DEF PinScope, now
<1>3. n.guaranteed = turn[t].retry
  BY DEF NewPin
<1>4. rows \subseteq livePins /\ IsFiniteSet(rows)
      /\ Cardinality({p \in rows : ~p.guaranteed}) <= TransientPinCapacity
  BY TrimmedKeeps, TrimmedCounts DEF CountInv
<1> HIDE DEF n
<1>5. IsFiniteSet(pins')
  BY <1>1, <1>4, FS_AddElement
<1>6. /\ IsFiniteSet(guaranteedPins) /\ Cardinality(guaranteedPins) \in Nat
      /\ Cardinality(guaranteedPins) <= GuaranteedPinCapacity /\ GuaranteedPinCapacity \in Nat
  BY PinsFinite, FS_CardinalityType, RoutingAssumption DEF CountInv, PinsBounded
<1>7. Cardinality(guaranteedPins') <= GuaranteedPinCapacity
  <2>1. CASE turn[t].retry
    <3>1. Cardinality(guaranteedPins) <= GuaranteedPinCapacity - 1
          /\ GuaranteedPinCapacity - 1 \in Nat
      BY <1>2, <1>6, <2>1 DEF pinsFull
    <3>2. guaranteedPins' \subseteq guaranteedPins \cup {n}
      BY <1>1, <1>4 DEF guaranteedPins, livePins
    <3>3. Cardinality(guaranteedPins') <= (GuaranteedPinCapacity - 1) + 1
      BY <1>6, <3>1, <3>2, OneMore
    <3> QED BY <1>6, <3>3
  <2>2. CASE ~turn[t].retry
    <3>1. guaranteedPins' \subseteq guaranteedPins
      BY <1>1, <1>3, <1>4, <2>2 DEF guaranteedPins, livePins
    <3> QED BY <1>6, <3>1, Within
  <2> QED BY <2>1, <2>2
<1>8. Cardinality(transientPins') <= TransientPinCapacity + 1
  <2> DEFINE U == {p \in rows : ~p.guaranteed}
  <2>1. IsFiniteSet(U) /\ Cardinality(U) <= TransientPinCapacity /\ TransientPinCapacity \in Nat
    BY <1>4, FS_Subset, RoutingAssumption
  <2>2. transientPins' \subseteq U \cup {n}
    BY <1>1 DEF transientPins, livePins
  <2> HIDE DEF U
  <2> QED BY <2>1, <2>2, OneMore
<1> QED BY <1>5, <1>7, <1>8 DEF CountInv, PinsBounded, transientPins

\* Every step keeps it: only PinScope adds a pin, after the capacity check and the trim.
LEMMA CountStep == TypeOK /\ CountInv /\ [Next]_vars => CountInv'
<1> SUFFICES ASSUME TypeOK, CountInv, [Next]_vars PROVE CountInv'
  OBVIOUS
<1>1. ASSUME NEW t \in Turn, NEW plan \in Scope, PinScope(t, plan) PROVE CountInv'
  BY <1>1, CountPinned
<1>2. ASSUME NEW t \in Turn, PinRefused(t) PROVE CountInv'
  <2>1. pins' \subseteq livePins /\ now' = now
    BY <1>2, TrimmedKeeps DEF PinRefused, now
  <2>2. pins' \subseteq pins /\ livePins' \subseteq livePins
    BY <2>1 DEF livePins
  <2> QED BY <2>2, CountDown
<1>3. ASSUME NEW moved \in SUBSET (Scope \cup {Gateway}), Tick(moved) PROVE CountInv'
  <2>1. pins' = pins /\ now \in Nat /\ now' \in {now, now + 1}
    BY <1>3, ClockType DEF Tick, now
  <2>2. \A p \in pins : p.expires \in Nat
    BY RoutingAssumption DEF TypeOK, Pin
  <2>3. livePins' \subseteq livePins
    BY <2>1, <2>2 DEF livePins
  <2> QED BY <2>1, <2>3, CountDown
<1>4. CASE pins' = pins /\ clock' = clock
  <2>1. livePins' = livePins
    BY <1>4 DEF livePins, now
  <2> QED BY <1>4, <2>1, CountDown
<1> QED
  BY <1>1, <1>2, <1>3, <1>4 DEF Next, Arrive, RepairPlan, FollowPin, TransportFails,
     TurnEnds, Replay, Unrecorded, Record, Lose, EvictReply, vars

\* Racing turns never exceed the capacities of the pin table, for any number
\* of turns, keys and scopes: the check at the insert is what makes it so
\* (pinScope of gateway-do.ts).
THEOREM PinsStayBounded == Spec => []PinsBounded
<1>1. Init => TypeOK /\ CountInv
  BY TypeInit, CountInit
<1>2. TypeOK /\ CountInv /\ [Next]_vars => (TypeOK /\ CountInv)'
  BY TypeStep, CountStep
<1>3. CountInv => PinsBounded
  BY DEF CountInv
<1> QED BY <1>1, <1>2, <1>3, PTL DEF Spec
=============================================================================
