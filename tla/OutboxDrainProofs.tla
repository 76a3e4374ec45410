-------------------------- MODULE OutboxDrainProofs --------------------------
(***************************************************************************)
(* The safety of the outbox, for any lanes, routes, budgets and backoff:   *)
(* in-order delivery without silent gaps, no premature deletion, a wake    *)
(* that stands until a seed of sessions overwrites it, and every lane a    *)
(* queue (OutboxLanes).                                                    *)
(***************************************************************************)
EXTENDS OutboxDrain, FiniteSetTheorems, TLAPS

\* Every set of numbers that is not empty has a least one.
LEMMA NatMin ==
  ASSUME NEW T \in SUBSET Nat, T # {}
  PROVE  \E x \in T : \A y \in T : x <= y
<1> DEFINE R == {p \in Nat \X Nat : p[1] < p[2]}
<1>1. IsWellFoundedOn(R, Nat)
  BY NatLessThanWellFounded DEF OpToRel
<1>2. PICK x \in T : \A y \in T : <<y, x>> \notin R
  <2> HIDE DEF R
  <2> QED BY <1>1, WFMin
<1>3. \A y \in T : y \in Nat /\ x \in Nat /\ ~(y < x)
  BY <1>2
<1>4. \A y \in T : x <= y
  BY <1>3
<1> QED BY <1>4

(***************************************************************************)
(* The inductive invariant.                                                *)
(***************************************************************************)

\* A position is pending once at most, was handed out, and is not also
\* abandoned.
Numbered ==
  /\ \A r, s \in rows : r.lane = s.lane /\ r.n = s.n => r = s
  /\ \A r \in rows : r.n <= next[r.lane]
  /\ \A l \in Lane, n \in Position : <<l, n>> \in abandoned => n <= next[l]
  /\ \A r \in rows : <<r.lane, r.n>> \notin abandoned

\* What a lane has out, heard or lost is in the prefix that it read; the
\* prefix is pending, due, and has no pending row below it.
Tracks(f, l) ==
  /\ f.out \subseteq f.prefix /\ f.acked \subseteq f.prefix /\ f.failed \subseteq f.prefix
  /\ \A n \in f.prefix : \E r \in rows : r.lane = l /\ r.n = n
  /\ \A n \in f.prefix : \A r \in rows :
       r.lane = l /\ r.n <= n => r.n \in f.prefix /\ r.wait = 0

InFlight == \A l \in Lane : Tracks(flight[l], l)

\* A destination has what it acknowledged, all of it at or below its mark.
Heard ==
  \A l \in Lane :
    /\ flight[l].acked \subseteq seen[l].got
    /\ \A n \in seen[l].got : n <= seen[l].high

\* A request out is on the wire; below a row of a request, every position is
\* in the request, received or abandoned.
Covered(m) ==
  \A k \in m.rows : \A j \in 1..k :
    j \in m.rows \/ j \in seen[m.lane].got \/ <<m.lane, j>> \in abandoned

OnWire ==
  /\ requests(flight) \subseteq wire
  /\ \A m \in wire : Covered(m)

\* WakeStands while nothing has overwritten the alarm, for whatever row is first
\* in its lane.
HeadsAwaited ==
  \A r \in rows :
    /\ r.lane \in lanes
    /\ wake = "kept" =>
         /\ alarm # None
         /\ (\A s \in rows : s.lane = r.lane => r.n <= s.n) => alarm <= r.wait

Store == Numbered /\ DeletedOnlyIfReceived

OutboxInv ==
  TypeOK /\ Store /\ InFlight /\ Heard /\ OnWire /\ NoSilentGap /\ HeadsAwaited

(***************************************************************************)
(* Least and greatest positions.                                           *)
(***************************************************************************)

\* Min of a nonempty set of naturals is its least element.
LEMMA MinFacts ==
  ASSUME NEW T \in SUBSET Nat, T # {}
  PROVE  Min(T) \in T /\ \A y \in T : Min(T) <= y
<1>1. \E x \in T : \A y \in T : x <= y
  BY NatMin
<1> QED
  BY <1>1 DEF Min

\* Max of a nonempty finite set of naturals is its greatest element.
LEMMA MaxFacts ==
  ASSUME NEW N \in Nat, NEW T \in SUBSET (0..N), T # {}
  PROVE  Max(T) \in T /\ \A y \in T : y <= Max(T)
<1> DEFINE U == {N - x : x \in T}
<1>1. U \in SUBSET Nat /\ U # {}
  <2>1. \A x \in T : N - x \in Nat
    OBVIOUS
  <2> QED
    BY <2>1, Zenon
<1>2. PICK u \in U : \A v \in U : u <= v
  BY <1>1, NatMin
<1>3. PICK x \in T : u = N - x
  OBVIOUS
<1>4. \A y \in T : x >= y
  <2> TAKE y \in T
  <2>1. u <= N - y
    BY <1>2
  <2> QED
    BY <1>3, <2>1
<1>5. \E z \in T : \A y \in T : z >= y
  BY <1>4
<1>6. Max(T) \in T /\ \A y \in T : Max(T) >= y
  BY <1>5 DEF Max
<1> QED
  BY <1>6

\* A lane with pending rows has a head, and the head is its first row.
LEMMA HeadFacts ==
  ASSUME NEW R \in SUBSET Row, NEW l \in Lane, pending(R, l) # {}
  PROVE  /\ outboxLaneHead(R, l) \in pending(R, l)
         /\ \A s \in pending(R, l) : outboxLaneHead(R, l).n <= s.n
<1> DEFINE T == {r.n : r \in pending(R, l)}
<1>1. \A r \in pending(R, l) : r \in Row /\ r.n \in Nat
  BY OutboxAssumption DEF pending, Row, Position
<1>2. T \in SUBSET Nat /\ T # {}
  BY <1>1
<1>3. PICK x \in T : \A y \in T : x <= y
  BY <1>2, NatMin
<1>4. PICK r \in pending(R, l) : x = r.n
  OBVIOUS
<1>5. \A s \in pending(R, l) : r.n <= s.n
  BY <1>3, <1>4
<1> QED
  BY <1>5 DEF outboxLaneHead

\* What a lane launches: its prefix is pending and due, leaves no pending row
\* below it, and the request begins with it.
Launched(f, R, l) ==
  /\ f.out \subseteq f.prefix /\ f.acked = {} /\ f.failed = {}
  /\ \A n \in f.prefix : \E r \in R : r.lane = l /\ r.n = n
  /\ \A n \in f.prefix : \A r \in R :
       r.lane = l /\ r.n <= n => r.n \in f.prefix /\ r.wait = 0
  /\ \A k \in f.out : \A j \in f.prefix : j <= k => j \in f.out

\* What a pass reads for the lanes of a route: rows of the table, from a head that is due.
LEMMA LaunchFacts ==
  ASSUME NEW R \in SUBSET Row, NEW l \in Lane,
         \A r, s \in R : r.lane = s.lane /\ r.n = s.n => r = s,
         pending(R, l) # {}, ~headWaits(R, l)
  PROVE  launch(R, l) \in Flight /\ Launched(launch(R, l), R, l)
<1> DEFINE h == outboxLaneHead(R, l)
           P == deliverable(R, l)
           below(k) == {n \in positions(R, l) : n < k}
<1>0. \A r \in R : r.lane \in Lane /\ r.n \in Position /\ r.n \in Nat /\ r.wait \in Nat
  BY OutboxAssumption DEF Row, Position
<1>1. h \in R /\ h.lane = l /\ \A s \in pending(R, l) : h.n <= s.n
  BY HeadFacts DEF pending
<1>2. h.wait = 0
  BY <1>0, <1>1 DEF headWaits
<1>3. positions(R, l) \subseteq Position
  BY <1>0 DEF positions, pending
<1>4. \A k : IsFiniteSet(below(k)) /\ Cardinality(below(k)) \in Nat
  <2>1. IsFiniteSet(Position)
    BY FS_Interval, OutboxAssumption DEF Position
  <2> QED
    BY <1>3, <2>1, FS_Subset, FS_CardinalityType
<1>5. ASSUME NEW s \in selectedRows(R, l), NEW r \in pending(R, l), r.n <= s.n
      PROVE  r \in selectedRows(R, l)
  <2>1. s \in pending(R, l) /\ Cardinality(below(s.n)) < RowsPerLane
    BY DEF selectedRows
  <2>2. below(r.n) \subseteq below(s.n)
    <3>1. \A n \in positions(R, l) : n \in Nat
      BY <1>3, OutboxAssumption DEF Position
    <3>2. r.n \in Nat /\ s.n \in Nat
      BY <1>0, <2>1 DEF pending
    <3> QED
      BY <1>5, <3>1, <3>2
  <2>3. Cardinality(below(r.n)) <= Cardinality(below(s.n))
    BY <1>4, <2>2, FS_Subset
  <2>4. Cardinality(below(r.n)) < RowsPerLane
    <3>1. Cardinality(below(r.n)) \in Nat /\ Cardinality(below(s.n)) \in Nat
      BY <1>4
    <3> HIDE DEF below
    <3> QED
      BY <2>1, <2>3, <3>1, OutboxAssumption
  <2> QED
    BY <2>4 DEF selectedRows
<1>6. h \in selectedRows(R, l)
  <2>1. below(h.n) = {}
    <3>1. \A n \in positions(R, l) : h.n <= n /\ n \in Nat
      BY <1>0, <1>1 DEF positions, pending
    <3> QED
      BY <1>0, <1>1, <3>1
  <2>2. Cardinality(below(h.n)) < RowsPerLane
    <3>1. Cardinality({}) = 0
      BY FS_EmptySet
    <3>2. 0 < RowsPerLane
      BY OutboxAssumption
    <3> HIDE DEF below
    <3> QED
      BY <2>1, <3>1, <3>2
  <2> QED
    BY <1>1, <2>2 DEF selectedRows, pending
<1>7. selectedRows(R, l) \subseteq pending(R, l)
  BY DEF selectedRows
<1>8. h.n \in P
  <2>1. \A t \in selectedRows(R, l) : t.n <= h.n => t.wait = 0
    <3> TAKE t \in selectedRows(R, l)
    <3> HAVE t.n <= h.n
    <3>1. t \in R /\ t.lane = l /\ h.n <= t.n
      BY <1>1, <1>7 DEF pending
    <3>2. t.n = h.n
      BY <1>0, <1>1, <3>1
    <3> QED
      BY <1>1, <1>2, <3>1, <3>2
  <2> QED
    BY <1>6, <2>1 DEF deliverable
<1>9. \A n \in P : \E r \in R : r.lane = l /\ r.n = n
  BY <1>7 DEF deliverable, pending
<1>10. ASSUME NEW n \in P, NEW r \in R, r.lane = l, r.n <= n
       PROVE  r.n \in P /\ r.wait = 0
  <2>1. PICK s \in selectedRows(R, l) :
          n = s.n /\ \A t \in selectedRows(R, l) : t.n <= s.n => t.wait = 0
    BY DEF deliverable
  <2>2. r \in selectedRows(R, l)
    BY <1>5, <1>10, <2>1 DEF pending
  <2>3. r.wait = 0
    BY <1>10, <2>1, <2>2
  <2>4. \A t \in selectedRows(R, l) : t.n <= r.n => t.wait = 0
    <3> TAKE t \in selectedRows(R, l)
    <3> HAVE t.n <= r.n
    <3>1. t.n \in Nat /\ r.n \in Nat /\ s.n \in Nat
      BY <1>0, <1>7 DEF pending
    <3>2. t.n <= s.n
      BY <1>10, <2>1, <3>1
    <3> QED
      BY <2>1, <3>2
  <2> QED
    BY <2>2, <2>3, <2>4 DEF deliverable
<1>11. P \subseteq Position /\ P \in SUBSET Nat /\ P # {}
  BY <1>0, <1>8, <1>9, ZenonT(30)
<1>12. Min(P) \in P /\ \A y \in P : Min(P) <= y
  BY <1>11, MinFacts
<1>13. {r.n : r \in selectedRows(R, l)} \subseteq Position
  BY <1>0, <1>7 DEF pending
<1> DEFINE f == launch(R, l)
           O == IF Batched(l) THEN P ELSE {Min(P)}
           G == {r.n : r \in selectedRows(R, l)}
<1>14. f = [selected |-> G, prefix |-> P, out |-> O, acked |-> {}, failed |-> {},
            yielded |-> FALSE]
  BY Zenon DEF launch
<1>15. O \subseteq P /\ O # {} /\ \A k \in O : \A j \in P : j <= k => j \in O
  BY <1>11, <1>12
<1> HIDE DEF P, O, G
<1>16. f.prefix = P /\ f.out = O /\ f.acked = {} /\ f.failed = {}
  BY <1>14
<1>17. f \in Flight
  BY <1>11, <1>13, <1>14, <1>15 DEF Flight, G
<1> HIDE DEF f
<1> QED
  BY <1>9, <1>10, <1>15, <1>16, <1>17 DEF f, Launched
(***************************************************************************)
(* Parts of a step.                                                        *)
(***************************************************************************)

\* The wake computed from a table whose lanes are all listed is no later than
\* any head.
LEMMA WakeFacts ==
  ASSUME NEW R \in SUBSET Row, NEW D \in SUBSET Lane,
         \A r, s \in R : r.lane = s.lane /\ r.n = s.n => r = s,
         \A r \in R : r.lane \in D
  PROVE  LET at == outboxNextRetryAt(R, D)
         IN  /\ at \in {None} \cup 0..MaxBackoff
             /\ \A r \in R : at # None
             /\ \A r \in R : (\A s \in R : s.lane = r.lane => r.n <= s.n) => at <= r.wait
<1> DEFINE H == {outboxLaneHead(R, l).wait : l \in {k \in D : pending(R, k) # {}}}
           at == outboxNextRetryAt(R, D)
<1>0. \A r \in R : r.lane \in Lane /\ r.n \in Nat /\ r.wait \in 0..MaxBackoff /\ r.wait \in Nat
  BY OutboxAssumption DEF Row, Position
<1>1. \A l \in D : pending(R, l) # {} =>
        outboxLaneHead(R, l) \in R /\ outboxLaneHead(R, l).lane = l
        /\ \A s \in R : s.lane = l => outboxLaneHead(R, l).n <= s.n
  BY HeadFacts DEF pending
<1>2. H \in SUBSET Nat /\ H \subseteq 0..MaxBackoff
  BY <1>0, <1>1
<1>3. H # {} => Min(H) \in H /\ \A y \in H : Min(H) <= y
  BY <1>2, MinFacts
<1>4. at = IF H = {} THEN None ELSE Min(H)
  BY DEF outboxNextRetryAt
<1>5. ASSUME NEW r \in R
      PROVE  /\ H # {}
             /\ (\A s \in R : s.lane = r.lane => r.n <= s.n) => r.wait \in H
  <2>1. r.lane \in D /\ pending(R, r.lane) # {}
    BY DEF pending
  <2>2. outboxLaneHead(R, r.lane).wait \in H
    BY <2>1
  <2>3. (\A s \in R : s.lane = r.lane => r.n <= s.n) => outboxLaneHead(R, r.lane) = r
    BY <1>0, <1>1, <2>1
  <2> QED
    BY <2>2, <2>3
<1> HIDE DEF H, at
<1>6. \A r \in R : at # None
  <2>1. \A r \in R : H # {}
    BY <1>5, Zenon
  <2>2. \A h \in H : h # None
    BY <1>2 DEF None
  <2> QED
    BY <1>3, <1>4, <2>1, <2>2
<1>7. at \in {None} \cup 0..MaxBackoff
  BY <1>2, <1>3, <1>4
<1>8. \A r \in R : (\A s \in R : s.lane = r.lane => r.n <= s.n) => at <= r.wait
  <2> TAKE r \in R
  <2> HAVE \A s \in R : s.lane = r.lane => r.n <= s.n
  <2>1. r.wait \in H
    BY <1>5
  <2> QED
    BY <1>3, <1>4, <2>1
<1> QED
  BY <1>6, <1>7, <1>8 DEF at

\* Every lane takes no part in the route or launches from the rows R.
Launching(R) ==
  \A l \in Lane : \/ flight'[l] = Grounded
                  \/ /\ flight'[l] = launch(R, l)
                     /\ pending(R, l) # {} /\ ~headWaits(R, l)

\* What a pass leaves: it delists only lanes without rows, and a lane of the
\* route it stops at either takes no part or launches.
Passed(R, D, L) ==
  /\ route' \in 0..Routes /\ late' \subseteq Lane /\ deferred' \in BOOLEAN
  /\ lanes' \subseteq Lane /\ L \subseteq lanes'
  /\ \A l \in D : pending(R, l) # {} => l \in lanes'
  /\ flight' \in [Lane -> Flight] /\ Launching(R)

LEMMA PassFacts ==
  ASSUME NEW R \in SUBSET Row, NEW D \in SUBSET Lane, NEW X \in SUBSET Lane,
         NEW L \in SUBSET Lane, NEW q \in Nat \ {0}, NEW d \in BOOLEAN,
         \A r, s \in R : r.lane = s.lane /\ r.n = s.n => r = s,
         drainOutboxPass(q, R, D, X, d, L)
  PROVE  Passed(R, D, L)
<1> USE DEF Launching, Passed
<1> DEFINE due == {p \in q..Routes : dueLanes(R, D, X, p) # {}}
<1>0. Routes \in Nat
  BY OutboxAssumption
<1>1. \A qs : swept(R, D, X, qs) \subseteq D /\ \A l \in D : pending(R, l) # {} => l \in swept(R, D, X, qs)
  BY DEF swept
<1>2. Grounded \in Flight
  BY DEF Grounded, Flight
<1>3. NoFlight \in [Lane -> Flight] /\ \A l \in Lane : NoFlight[l] = Grounded
  BY <1>2 DEF NoFlight
<1>4. \A p : \A l \in dueLanes(R, D, X, p) :
        l \in Lane /\ pending(R, l) # {} /\ ~headWaits(R, l)
  BY DEF dueLanes, dueHeads
<1>5. \A p : \A l \in dueLanes(R, D, X, p) : launch(R, l) \in Flight
  <2> TAKE p
  <2> TAKE l \in dueLanes(R, D, X, p)
  <2>1. l \in Lane /\ pending(R, l) # {} /\ ~headWaits(R, l)
    BY <1>4
  <2> QED
    BY <2>1, LaunchFacts, Zenon
<1>6. due # {} => Min(due) \in due
  <2>1. due \in SUBSET Nat
    BY <1>0
  <2> QED
    BY <2>1, MinFacts
<1>7. CASE q <= Routes /\ submits > 0 /\ route' = 0 /\ flight' = NoFlight /\ late' = {}
           /\ lanes' = D \cup L /\ deferred' = TRUE
  <2>1. route' \in 0..Routes
    BY <1>0, <1>7
  <2> QED
    BY <1>3, <1>7, <2>1, Zenon
<1>8. CASE /\ route' = 0 /\ flight' = NoFlight /\ late' = {}
           /\ lanes' = swept(R, D, X, q..Routes) \cup L
           /\ deferred' = (d /\ submits > 0)
  <2>1. deferred' \in BOOLEAN
    BY <1>8, Zenon
  <2> QED
    BY <1>0, <1>1, <1>3, <1>8, <2>1
<1>9. CASE /\ submits = 0 /\ due # {}
           /\ route' = Min(due)
           /\ flight' = [l \in Lane |-> IF l \in dueLanes(R, D, X, route')
                                          THEN launch(R, l) ELSE Grounded]
           /\ late' = {l \in X : RouteOf(l) > route'}
           /\ lanes' = swept(R, D, X, q..route') \cup L
           /\ deferred' = d
  <2>1. route' \in 0..Routes
    BY <1>0, <1>6, <1>9
  <2>2. late' \subseteq Lane /\ deferred' \in BOOLEAN
    BY <1>9
  <2>3. lanes' \subseteq Lane /\ L \subseteq lanes' /\ \A l \in D : pending(R, l) # {} => l \in lanes'
    BY <1>1, <1>9
  <2>4. \A l \in Lane : \/ l \in dueLanes(R, D, X, route') /\ flight'[l] = launch(R, l)
                        \/ flight'[l] = Grounded
    BY <1>9, Zenon
  <2>5. flight' \in [Lane -> Flight]
    BY <1>2, <1>5, <1>9
  <2> QED
    BY <1>4, <2>1, <2>2, <2>3, <2>4, <2>5
<1> HIDE DEF due
<1> QED
  BY <1>7, <1>8, <1>9, Zenon DEF drainOutboxPass, due
\* The types of what arming writes.
ArmType ==
  alarm \in {None} \cup 0..MaxBackoff /\ armed \in BOOLEAN /\ wake \in Wakes

\* Arming leaves the wake right, whatever it was.
LEMMA ArmFacts ==
  ASSUME rows' \in SUBSET Row, lanes' \in SUBSET Lane, Numbered',
         \A r \in rows' : r.lane \in lanes',
         alarm \in {None} \cup 0..MaxBackoff,
         \/ armOutboxRetryAlarm
         \/ /\ alarm' = outboxNextRetryAt(rows', lanes') /\ armed' = (alarm' # None)
            /\ wake' = "kept"
  PROVE  ArmType' /\ HeadsAwaited'
<1> DEFINE at == outboxNextRetryAt(rows', lanes')
<1>1. \A r, s \in rows' : r.lane = s.lane /\ r.n = s.n => r = s
  BY DEF Numbered
<1>2. /\ at \in {None} \cup 0..MaxBackoff
      /\ \A r \in rows' : at # None
      /\ \A r \in rows' : (\A s \in rows' : s.lane = r.lane => r.n <= s.n) => at <= r.wait
  BY <1>1, WakeFacts, Zenon
<1>3. /\ armed' = (at # None) /\ wake' = "kept"
      /\ alarm' = at \/ (at = None /\ alarm' \in {None, alarm})
  BY DEF armOutboxRetryAlarm
<1> HIDE DEF at
<1>4. armed' \in BOOLEAN
  BY <1>3, Zenon
<1>5. alarm' \in {None} \cup 0..MaxBackoff
  BY <1>2, <1>3
<1>6. \A r \in rows' : alarm' = at
  BY <1>2, <1>3
<1> QED
  <2>1. HeadsAwaited'
    BY <1>2, <1>6, Zenon DEF HeadsAwaited
  <2>2. wake' \in Wakes
    BY <1>3 DEF Wakes
  <2> QED
    BY <1>4, <1>5, <2>1, <2>2 DEF ArmType

\* New rows go behind the rows of their lanes.
LEMMA EnqueueFacts ==
  ASSUME TypeOK, Store, NEW L \in SUBSET Lane, Enqueued(L), seen' = seen
  PROVE  /\ rows' \in SUBSET Row /\ next' \in [Lane -> 0..MaxRows]
         /\ abandoned' = abandoned
         /\ Store'
         /\ rows \subseteq rows'
         /\ \A r \in rows' : r \in rows \/ r.lane \in L
         /\ \A r \in rows', s \in rows : r.lane = s.lane => r \in rows \/ s.n < r.n
<1>0. /\ rows \in SUBSET Row /\ next \in [Lane -> 0..MaxRows] /\ MaxRows \in Nat
      /\ MaxAttempts \in Nat \ {0} /\ MaxBackoff \in Nat
      /\ abandoned \subseteq Lane \X Position
  BY OutboxAssumption DEF TypeOK
<1>1. /\ \A l \in L : next[l] < MaxRows
      /\ rows' = rows \cup newRows(L)
      /\ next' = [l \in Lane |-> IF l \in L THEN next[l] + 1 ELSE next[l]]
      /\ abandoned' = abandoned
  BY DEF Enqueued, Room
<1>2. \A l \in L : /\ next[l] + 1 \in Position
                   /\ [lane |-> l, n |-> next[l] + 1, attempts |-> 0, wait |-> 0] \in Row
  BY <1>0, <1>1 DEF Row, Position
<1>3. \A r \in newRows(L) : r \in Row /\ r.lane \in L /\ r.n = next[r.lane] + 1
  BY <1>2 DEF newRows
<1>4. \A l \in L : \E r \in newRows(L) : r.lane = l /\ r.n = next[l] + 1
  <2> TAKE l \in L
  <2> DEFINE x == [lane |-> l, n |-> next[l] + 1, attempts |-> 0, wait |-> 0]
  <2>1. x \in newRows(L) /\ x.lane = l /\ x.n = next[l] + 1
    BY DEF newRows
  <2> QED
    BY <2>1
<1>5. \A r, s \in newRows(L) : r.lane = s.lane => r = s
  BY DEF newRows
<1>6. next' \in [Lane -> 0..MaxRows]
  BY <1>0, <1>1
<1>7. \A l \in Lane : /\ next[l] \in Nat /\ next'[l] \in Nat
                      /\ next'[l] = IF l \in L THEN next[l] + 1 ELSE next[l]
  BY <1>0, <1>1
<1>8. \A r \in rows' : r \in Row /\ r.lane \in Lane /\ r.n \in Nat
  BY <1>0, <1>1, <1>3 DEF Row, Position
<1>9. \A r \in rows : r.n <= next[r.lane] /\ <<r.lane, r.n>> \notin abandoned
  BY DEF Store, Numbered
<1>n. \A r \in newRows(L) :
        /\ r.lane \in Lane /\ r.n \in Nat /\ next[r.lane] \in Nat
        /\ r.n = next[r.lane] + 1 /\ r.n = next'[r.lane]
  <2> TAKE r \in newRows(L)
  <2>1. r.lane \in L /\ r.n = next[r.lane] + 1
    BY <1>3
  <2>2. next[r.lane] \in Nat /\ next'[r.lane] = next[r.lane] + 1
    BY <1>7, <2>1
  <2> QED
    BY <2>1, <2>2
<1>o. \A r \in rows : /\ r.lane \in Lane /\ r.n \in Nat /\ next[r.lane] \in Nat
                     /\ r.n <= next[r.lane] /\ r.n <= next'[r.lane]
  <2> TAKE r \in rows
  <2>1. r.lane \in Lane /\ r.n \in Nat
    BY <1>1, <1>8
  <2>2. next[r.lane] \in Nat /\ next'[r.lane] \in {next[r.lane], next[r.lane] + 1}
    BY <1>7, <2>1
  <2>3. r.n <= next[r.lane]
    BY <1>9
  <2> QED
    BY <2>1, <2>2, <2>3
<1>p. \A s \in rows, r \in newRows(L) : r.lane = s.lane => s.n < r.n
  <2> TAKE s \in rows, r \in newRows(L)
  <2> HAVE r.lane = s.lane
  <2>1. s.n <= next[r.lane] /\ r.n = next[r.lane] + 1 /\ s.n \in Nat /\ next[r.lane] \in Nat
    BY <1>n, <1>o
  <2> QED
    BY <2>1
<1>10. Numbered'
  <2>1. \A r, s \in rows' : r.lane = s.lane /\ r.n = s.n => r = s
    <3>1. \A r \in rows, s \in newRows(L) : r.lane = s.lane => r.n # s.n
      BY <1>n, <1>o, <1>p
    <3> QED
      BY <1>1, <1>5, <3>1 DEF Store, Numbered
  <2>2. \A r \in rows' : r.n <= next'[r.lane]
    <3>1. \A r \in newRows(L) : r.n <= next'[r.lane]
      BY <1>n
    <3> QED
      BY <1>1, <1>o, <3>1
  <2>3. \A l \in Lane, n \in Position : <<l, n>> \in abandoned => n <= next'[l]
    <3>1. \A l \in Lane, n \in Position : <<l, n>> \in abandoned => n <= next[l]
      BY DEF Store, Numbered
    <3> QED
      BY <1>0, <1>7, <3>1 DEF Position
  <2>4. \A r \in rows' : <<r.lane, r.n>> \notin abandoned
    <3>1. \A l \in Lane, n \in Position : <<l, n>> \in abandoned => n <= next[l]
      BY DEF Store, Numbered
    <3>2. \A r \in newRows(L) : r.lane \in Lane /\ r.n \in Position /\ ~(r.n <= next[r.lane])
      <4>1. \A r \in newRows(L) : r.n \in Position
        BY <1>3 DEF Row
      <4> QED
        BY <1>n, <4>1
    <3> QED
      BY <1>1, <1>9, <3>1, <3>2
  <2> QED
    BY <1>1, <2>1, <2>2, <2>3, <2>4 DEF Numbered
<1>11. DeletedOnlyIfReceived'
  <2> SUFFICES ASSUME NEW l \in Lane, NEW n \in 1..(next'[l])
               PROVE  \/ \E r \in rows' : r.lane = l /\ r.n = n
                      \/ n \in seen[l].got \/ <<l, n>> \in abandoned
    BY <1>1 DEF DeletedOnlyIfReceived
  <2>1. n \in 1..next[l] \/ (l \in L /\ n = next[l] + 1)
    BY <1>7
  <2>2. CASE n \in 1..next[l]
    BY <1>1, <2>2 DEF Store, DeletedOnlyIfReceived
  <2>3. CASE l \in L /\ n = next[l] + 1
    BY <1>1, <1>4, <2>3
  <2> QED
    BY <2>1, <2>2, <2>3
<1>12. \A r \in rows', s \in rows : r.lane = s.lane => r \in rows \/ s.n < r.n
  BY <1>1, <1>p
<1> QED
  BY <1>1, <1>3, <1>6, <1>8, <1>10, <1>11, <1>12 DEF Store

\* The step leaves the rows R in the table, and puts others only behind them.
Written(R) ==
  /\ \A r, s \in R : r.lane = s.lane /\ r.n = s.n => r = s
  /\ rows' \in SUBSET Row /\ R \subseteq rows' /\ Store'
  /\ \A r \in rows', s \in R : r.lane = s.lane => r \in R \/ s.n < r.n
  /\ next' \in [Lane -> 0..MaxRows]
  /\ abandoned \subseteq abandoned' /\ abandoned' \subseteq Lane \X Position

\* A pass over the rows R sends what is first in its lanes.
LEMMA LaunchedFacts ==
  ASSUME TypeOK, Heard, OnWire, NoSilentGap,
         NEW R \in SUBSET Row, Written(R), Launching(R),
         flight' \in [Lane -> Flight], seen' = seen, Send
  PROVE  InFlight' /\ Heard' /\ OnWire' /\ NoSilentGap' /\ wire' \subseteq Message
<1> USE DEF Written
<1>0. \A r \in rows' : r.lane \in Lane /\ r.n \in Position /\ r.n \in Nat
  BY OutboxAssumption DEF Row, Position
<1>1. ASSUME NEW l \in Lane
      PROVE  Launched(flight'[l], R, l)
  <2>1. CASE flight'[l] = Grounded
    BY <2>1 DEF Grounded, Launched
  <2>2. CASE flight'[l] = launch(R, l) /\ pending(R, l) # {} /\ ~headWaits(R, l)
    BY <2>2, LaunchFacts, Zenon
  <2> QED
    BY <2>1, <2>2 DEF Launching
<1>2. ASSUME NEW l \in Lane
      PROVE  /\ \A n \in flight'[l].prefix : \E r \in rows' : r.lane = l /\ r.n = n
             /\ \A n \in flight'[l].prefix : \A r \in rows' :
                  r.lane = l /\ r.n <= n => r.n \in flight'[l].prefix /\ r.wait = 0
  <2>1. \A n \in flight'[l].prefix : \E r \in rows' : r.lane = l /\ r.n = n
    BY <1>1 DEF Launched
  <2>2. ASSUME NEW n \in flight'[l].prefix, NEW r \in rows', r.lane = l, r.n <= n
        PROVE  r \in R
    <3>1. PICK s \in R : s.lane = l /\ s.n = n
      BY <1>1 DEF Launched
    <3>2. ~(s.n < r.n)
      BY <1>0, <2>2, <3>1
    <3> QED
      BY <2>2, <3>1, <3>2
  <2> QED
    BY <1>1, <2>1, <2>2 DEF Launched
<1>3. InFlight'
  BY <1>1, <1>2 DEF InFlight, Tracks, Launched
<1>4. Heard'
  BY <1>1 DEF Heard, Launched
<1>5. \A l \in Lane : flight'[l].out \subseteq Position
  BY DEF Flight
<1>6. wire' = wire \cup requests(flight')
  BY DEF Send
<1>7. \A m \in requests(flight') : \E l \in Lane : m = [lane |-> l, rows |-> flight'[l].out]
  BY DEF requests
<1>8. wire' \subseteq Message
  BY <1>5, <1>6, <1>7 DEF TypeOK, Message
<1>9. \A m \in wire : Covered(m)'
  BY DEF OnWire, Covered
<1>10. ASSUME NEW l \in Lane, NEW k \in flight'[l].out, NEW j \in 1..k
       PROVE  j \in flight'[l].out \/ j \in seen[l].got \/ <<l, j>> \in abandoned'
  <2>1. k \in flight'[l].prefix
    BY <1>1 DEF Launched
  <2>2. PICK r \in rows' : r.lane = l /\ r.n = k
    BY <1>2, <2>1
  <2>3. k \in Nat /\ j \in Nat /\ j <= k
    BY <1>0, <2>2
  <2>4. k <= next'[l]
    BY <2>2 DEF Store, Numbered
  <2>5. j \in 1..(next'[l])
    BY <2>3, <2>4
  <2>6. CASE \E s \in rows' : s.lane = l /\ s.n = j
    <3>1. j \in flight'[l].prefix
      BY <1>2, <2>1, <2>3, <2>6
    <3> QED
      BY <1>1, <2>3, <3>1 DEF Launched
  <2>7. CASE ~ \E s \in rows' : s.lane = l /\ s.n = j
    BY <2>5, <2>7 DEF Store, DeletedOnlyIfReceived
  <2> QED
    BY <2>6, <2>7
<1>11. \A m \in requests(flight') : Covered(m)'
  <2> TAKE m \in requests(flight')
  <2>1. PICK l \in Lane : m = [lane |-> l, rows |-> flight'[l].out]
    BY <1>7
  <2>2. m.lane = l /\ m.rows = flight'[l].out
    BY <2>1
  <2> QED
    BY <1>10, <2>2 DEF Covered
<1>12. OnWire'
  BY <1>6, <1>9, <1>11 DEF OnWire
<1>13. NoSilentGap'
  BY DEF NoSilentGap
<1> QED
  BY <1>3, <1>4, <1>8, <1>12, <1>13
\* A destination that applies rows whose predecessors it has, or which were
\* abandoned, passes over nothing else.
LEMMA ReceiveFacts ==
  ASSUME TypeOK, NoSilentGap,
         \A k \in Lane : \A n \in seen[k].got : n <= seen[k].high,
         NEW l \in Lane, NEW ns \in SUBSET Position, ns # {},
         \A k \in ns : \A j \in 1..k : j \in ns \/ j \in seen[l].got \/ <<l, j>> \in abandoned,
         seen' = [seen EXCEPT ![l] = receive(@, ns)], abandoned' = abandoned
  PROVE  /\ seen' \in [Lane -> [high : 0..MaxRows, got : SUBSET Position,
                                skipped : SUBSET Position]]
         /\ \A k \in Lane : seen[k].got \subseteq seen'[k].got
         /\ \A k \in Lane : \A n \in seen'[k].got : n <= seen'[k].high
         /\ NoSilentGap'
         /\ \A n \in ns : n \in seen'[l].got \/ <<l, n>> \in abandoned
<1> DEFINE v == seen[l]
           T == ns \cup {v.high}
           w == [high |-> Max(T), got |-> v.got \cup {n \in ns : n > v.high},
                 skipped |-> v.skipped \cup (((v.high + 1)..Max(T)) \ ns)]
<1>0. MaxRows \in Nat /\ Position \subseteq 0..MaxRows /\ Position \subseteq Nat
  BY OutboxAssumption DEF Position
<1>1. /\ seen \in [Lane -> [high : 0..MaxRows, got : SUBSET Position, skipped : SUBSET Position]]
      /\ v.high \in 0..MaxRows /\ v.got \subseteq Position /\ v.skipped \subseteq Position
  BY DEF TypeOK
<1>2. T \in SUBSET (0..MaxRows) /\ T # {}
  BY <1>0, <1>1
<1>3. Max(T) \in T /\ \A y \in T : y <= Max(T)
  BY <1>0, <1>2, MaxFacts
<1>4. w = receive(v, ns)
  BY DEF receive
<1>5. seen' = [seen EXCEPT ![l] = w]
  BY <1>4
<1>6. seen'[l] = w /\ \A k \in Lane : k # l => seen'[k] = seen[k]
  BY <1>1, <1>5
<1> DEFINE top == Max(T)
<1>7. top \in 0..MaxRows /\ top \in T /\ v.high <= top /\ \A n \in ns : n <= top
  BY <1>2, <1>3
<1> HIDE DEF T, top
<1>8. w.high = top /\ w.got = v.got \cup {n \in ns : n > v.high}
      /\ w.skipped = v.skipped \cup (((v.high + 1)..top) \ ns)
  BY DEF top
<1> HIDE DEF w, v
<1>9. w \in [high : 0..MaxRows, got : SUBSET Position, skipped : SUBSET Position]
  <2>1. ((v.high + 1)..top) \subseteq Position
    BY <1>0, <1>1, <1>7 DEF Position
  <2>2. w.got \subseteq Position /\ w.skipped \subseteq Position
    BY <1>1, <1>8, <2>1
  <2> QED
    BY <1>7, <1>8, <2>2 DEF w, top
<1>10. seen' \in [Lane -> [high : 0..MaxRows, got : SUBSET Position, skipped : SUBSET Position]]
  BY <1>1, <1>5, <1>9
<1>11. \A k \in Lane : seen[k].got \subseteq seen'[k].got
  BY <1>6, <1>8 DEF v
<1>12. \A n \in w.got : n <= w.high
  <2> TAKE n \in w.got
  <2>1. CASE n \in ns
    BY <1>7, <1>8, <2>1
  <2>2. CASE n \in v.got
    <3>1. n <= v.high /\ n \in Nat
      BY <1>0, <1>1, <2>2 DEF v
    <3> QED
      BY <1>1, <1>7, <1>8, <3>1
  <2> QED
    BY <1>8, <2>1, <2>2
<1>13. \A k \in Lane : \A n \in seen'[k].got : n <= seen'[k].high
  BY <1>6, <1>12
<1>14. \A n \in 1..v.high : n \in v.got \/ (n \in v.skipped /\ <<l, n>> \in abandoned)
  BY DEF NoSilentGap, v
<1>15. ASSUME NEW n \in 1..top
       PROVE  n \in w.got \/ (n \in w.skipped /\ <<l, n>> \in abandoned)
  <2>1. CASE n <= v.high
    <3>1. n \in 1..v.high
      BY <1>1, <1>7, <2>1
    <3> QED
      BY <1>8, <1>14, <3>1
  <2>2. CASE ~(n <= v.high)
    <3>1. n > v.high /\ n \in (v.high + 1)..top
      BY <1>1, <1>7, <2>2
    <3>2. CASE n \in ns
      BY <1>8, <3>1, <3>2
    <3>3. CASE n \notin ns
      <4>1. top \in ns
        BY <1>1, <1>7, <3>1 DEF T
      <4>2. n \in v.got \/ <<l, n>> \in abandoned
        BY <3>3, <4>1 DEF v
      <4>3. n \notin v.got
        BY <2>2 DEF v
      <4> QED
        BY <1>8, <3>1, <3>3, <4>2, <4>3
    <3> QED
      BY <3>2, <3>3
  <2> QED
    BY <2>1, <2>2
<1>16. NoSilentGap'
  <2> SUFFICES ASSUME NEW k \in Lane, NEW n \in 1..(seen'[k].high)
               PROVE  n \in seen'[k].got \/ (n \in seen'[k].skipped /\ <<k, n>> \in abandoned)
    BY DEF NoSilentGap
  <2>1. CASE k = l
    BY <1>6, <1>8, <1>15, <2>1
  <2>2. CASE k # l
    BY <1>6, <2>2 DEF NoSilentGap
  <2> QED
    BY <2>1, <2>2
<1>17. \A n \in ns : n \in seen'[l].got \/ <<l, n>> \in abandoned
  <2> TAKE n \in ns
  <2>1. n \in 1..top
    BY <1>0, <1>7 DEF Position
  <2>2. n > v.high => n \in w.got
    BY <1>8
  <2>3. ~(n > v.high) => n \in 1..v.high
    BY <1>1, <1>7, <2>1
  <2> QED
    BY <1>6, <1>8, <1>14, <2>2, <2>3
<1> QED
  BY <1>10, <1>11, <1>13, <1>16, <1>17

\* The write-back of a route: a row that leaves the table was acknowledged or
\* is abandoned, no position changes, and the alarm was due if anything did
\* and nothing had overwritten it.
LEMMA WriteBackFacts ==
  ASSUME OutboxInv, NEW elapsed \in 0..MaxBackoff, FinishRoute(elapsed)
  PROVE  /\ rows' \in SUBSET Row
         /\ abandoned \subseteq abandoned' /\ abandoned' \subseteq Lane \X Position
         /\ Store'
         /\ \A r \in rows' : \E s \in rows : s.lane = r.lane /\ s.n = r.n
         /\ \A p \in abandoned' : p \in abandoned \/ \E r \in rows : p = <<r.lane, r.n>>
         /\ alarm # 0 /\ wake = "kept" => rows' = rows
<1> DEFINE gone == {r \in rows : r.n \in delivered(r.lane)}
           failed == {r \in rows : r.n \in flight[r.lane].failed}
           lost == {r \in failed : abandons(r)}
           redone == {retried(r, elapsed) : r \in failed \ lost}
<1>0. /\ MaxBackoff \in Nat /\ MaxAttempts \in Nat \ {0} /\ MaxRows \in Nat
      /\ \A a \in 1..MaxAttempts : Backoff(a) \in 0..MaxBackoff
  BY OutboxAssumption
<1>1. /\ rows' = (rows \ (gone \cup failed)) \cup redone
      /\ abandoned' = abandoned \cup {<<r.lane, r.n>> : r \in lost}
      /\ next' = next /\ seen' = seen
  BY DEF FinishRoute, receivers
<1>2. /\ rows \in SUBSET Row /\ abandoned \subseteq Lane \X Position
      /\ \A l \in Lane : flight[l] \in Flight
  BY DEF OutboxInv, TypeOK
<1>3. \A r \in rows : /\ r.lane \in Lane /\ r.n \in Position /\ r.n \in Nat
                      /\ r.attempts \in 0..(MaxAttempts - 1) /\ r.wait \in 0..MaxBackoff
  BY <1>0, <1>2 DEF Row, Position
<1>4. ASSUME NEW r \in rows, ~abandons(r)
      PROVE  LET s == retried(r, elapsed)
             IN  s \in Row /\ s.lane = r.lane /\ s.n = r.n
  <2> DEFINE b == Backoff(r.attempts + 1)
  <2>1. r.attempts + 1 \in 1..(MaxAttempts - 1)
    BY <1>0, <1>3, <1>4 DEF abandons
  <2>2. b \in 0..MaxBackoff
    BY <1>0, <2>1
  <2> HIDE DEF b
  <2>3. Max({0, b - elapsed}) \in 0..MaxBackoff
    <3>1. b - elapsed \in Int /\ b - elapsed <= MaxBackoff
      BY <1>0, <2>2
    <3>2. \E x \in {0, b - elapsed} : \A y \in {0, b - elapsed} : x >= y
      BY <3>1
    <3>3. Max({0, b - elapsed}) \in {0, b - elapsed} /\ Max({0, b - elapsed}) >= 0
      BY <3>2 DEF Max
    <3> QED
      BY <1>0, <3>1, <3>3
  <2> DEFINE x == Max({0, b - elapsed})
  <2>x. x \in 0..MaxBackoff
    BY <2>3
  <2> HIDE DEF x
  <2>4. [r EXCEPT !.attempts = @ + 1, !.wait = x] \in Row
    <3>1. r \in Row /\ r.attempts + 1 \in 0..(MaxAttempts - 1)
      BY <1>0, <1>2, <2>1
    <3> QED
      BY <2>x, <3>1 DEF Row
  <2>5. retried(r, elapsed) = [r EXCEPT !.attempts = @ + 1, !.wait = x]
    BY DEF retried, x, b
  <2> QED
    BY <1>2, <2>4, <2>5 DEF Row
<1>5. \A s \in redone : \E r \in failed \ lost :
        r \in rows /\ ~abandons(r) /\ s = retried(r, elapsed)
        /\ s \in Row /\ s.lane = r.lane /\ s.n = r.n
  BY <1>4
<1>6. rows' \in SUBSET Row
  BY <1>1, <1>2, <1>5
<1>7. \A r \in rows' : \/ r \in rows /\ r \notin failed
                       \/ \E s \in failed \ lost : /\ s \in rows /\ r = retried(s, elapsed)
                                                   /\ s.lane = r.lane /\ s.n = r.n
  BY <1>1, <1>5
<1>8. \A r, s \in rows : r.lane = s.lane /\ r.n = s.n => r = s
  BY DEF OutboxInv, Store, Numbered
<1>9. lost \subseteq rows
  OBVIOUS
<1>10. abandoned' \subseteq Lane \X Position
  BY <1>1, <1>2, <1>3, <1>9
<1> HIDE DEF gone, lost, failed, redone
<1>12. Numbered'
  <2>1. \A r, s \in rows' : r.lane = s.lane /\ r.n = s.n => r = s
    BY <1>7, <1>8
  <2>2. \A r \in rows' : r.n <= next[r.lane]
    BY <1>7 DEF OutboxInv, Store, Numbered
  <2>3. \A l \in Lane, n \in Position : <<l, n>> \in abandoned' => n <= next[l]
    <3>1. \A l \in Lane, n \in Position : <<l, n>> \in abandoned => n <= next[l]
      BY DEF OutboxInv, Store, Numbered
    <3>2. \A r \in rows : r.n <= next[r.lane]
      BY DEF OutboxInv, Store, Numbered
    <3> QED
      BY <1>1, <1>9, <3>1, <3>2
  <2>4. ASSUME NEW r \in rows', <<r.lane, r.n>> \in abandoned'
        PROVE  FALSE
    <3>1. PICK s \in rows : s.lane = r.lane /\ s.n = r.n /\ (s \notin failed \/ s \notin lost)
      BY <1>7
    <3>2. s \notin lost
      BY <3>1 DEF lost
    <3>3. <<s.lane, s.n>> \notin abandoned
      BY DEF OutboxInv, Store, Numbered
    <3>4. PICK t \in lost : <<t.lane, t.n>> = <<r.lane, r.n>>
      BY <1>1, <2>4, <3>1, <3>3
    <3>5. t = s
      BY <1>8, <1>9, <3>1, <3>4
    <3> QED
      BY <3>2, <3>5
  <2> QED
    BY <1>1, <2>1, <2>2, <2>3, <2>4 DEF Numbered
<1>13. DeletedOnlyIfReceived'
  <2> SUFFICES ASSUME NEW l \in Lane, NEW n \in 1..next[l]
               PROVE  \/ \E r \in rows' : r.lane = l /\ r.n = n
                      \/ n \in seen[l].got \/ <<l, n>> \in abandoned'
    BY <1>1 DEF DeletedOnlyIfReceived
  <2>1. CASE n \in seen[l].got \/ <<l, n>> \in abandoned
    BY <1>1, <2>1
  <2>2. CASE \E r \in rows : r.lane = l /\ r.n = n
    <3>1. PICK r \in rows : r.lane = l /\ r.n = n
      BY <2>2
    <3>2. CASE r \in gone
      <4>1. n \in flight[l].acked
        BY <3>1, <3>2 DEF gone, delivered
      <4> QED
        BY <4>1 DEF OutboxInv, Heard
    <3>3. CASE r \in lost
      BY <1>1, <3>1, <3>3
    <3>4. CASE r \in failed \ lost
      <4>1. ~abandons(r)
        BY <3>4 DEF lost
      <4>2. retried(r, elapsed).lane = l /\ retried(r, elapsed).n = n
        BY <1>4, <3>1, <4>1
      <4>3. retried(r, elapsed) \in rows'
        BY <1>1, <3>4 DEF redone
      <4> QED
        BY <4>2, <4>3
    <3>5. CASE r \notin gone /\ r \notin failed
      BY <1>1, <3>1, <3>5
    <3> QED
      BY <3>2, <3>3, <3>4, <3>5
  <2> QED
    BY <2>1, <2>2 DEF OutboxInv, Store, DeletedOnlyIfReceived
<1>14. \A r \in rows' : \E s \in rows : s.lane = r.lane /\ s.n = r.n
  BY <1>7
<1>17. \A p \in abandoned' : p \in abandoned \/ \E r \in rows : p = <<r.lane, r.n>>
  BY <1>1, <1>9
<1>15. ASSUME NEW r \in rows, r \in gone \/ r \in failed, wake = "kept"
       PROVE  alarm = 0
  <2> DEFINE l == r.lane
             h == outboxLaneHead(rows, l)
  <2>1. l \in Lane /\ pending(rows, l) # {}
    BY <1>3 DEF pending
  <2>2. h \in rows /\ h.lane = l /\ \A s \in rows : s.lane = l => h.n <= s.n
    BY <1>2, <2>1, HeadFacts DEF pending
  <2>3. r.n \in flight[l].prefix
    BY <1>15, <2>1 DEF gone, failed, delivered, OutboxInv, InFlight, Tracks
  <2>4. h.wait = 0
    BY <2>1, <2>2, <2>3 DEF OutboxInv, InFlight, Tracks
  <2>5. alarm # None /\ alarm <= 0
    BY <1>15, <2>2, <2>4 DEF OutboxInv, HeadsAwaited
  <2> QED
    BY <1>0, <2>5 DEF OutboxInv, TypeOK
<1>16. alarm # 0 /\ wake = "kept" => rows' = rows
  <2> HAVE alarm # 0 /\ wake = "kept"
  <2>1. gone = {} /\ failed = {}
    <3>1. gone \subseteq rows /\ failed \subseteq rows
      BY DEF gone, failed
    <3> QED
      BY <1>15, <3>1
  <2>2. redone = {}
    BY <2>1 DEF redone
  <2> QED
    BY <1>1, <2>1, <2>2
<1> QED
  BY <1>1, <1>6, <1>10, <1>12, <1>13, <1>14, <1>16, <1>17 DEF Store
(***************************************************************************)
(* The invariant is inductive.                                             *)
(***************************************************************************)

\* Rows put behind those of a lane do not disturb what it has out.
LEMMA InFlightKept ==
  ASSUME TypeOK, InFlight, flight' = flight,
         rows \subseteq rows', rows' \in SUBSET Row,
         \A r \in rows', s \in rows : r.lane = s.lane => r \in rows \/ s.n < r.n
  PROVE  InFlight'
<1>0. \A r \in rows' : r.n \in Nat
  BY OutboxAssumption DEF Row, Position
<1> SUFFICES ASSUME NEW l \in Lane PROVE Tracks(flight[l], l)'
  BY DEF InFlight
<1>1. Tracks(flight[l], l)
  BY DEF InFlight
<1>2. ASSUME NEW n \in flight[l].prefix, NEW r \in rows', r.lane = l, r.n <= n
      PROVE  r \in rows
  <2>1. PICK s \in rows : s.lane = l /\ s.n = n
    BY <1>1 DEF Tracks
  <2>2. ~(s.n < r.n)
    BY <1>0, <1>2, <2>1
  <2> QED
    BY <1>2, <2>1, <2>2
<1> QED
  BY <1>1, <1>2 DEF Tracks

\* Nothing that the invariant speaks of but the counters of submits changes.
LEMMA QuietKept ==
  ASSUME OutboxInv, UNCHANGED <<stored, drain, wire, seen>>
  PROVE  Store' /\ InFlight' /\ Heard' /\ OnWire' /\ NoSilentGap'
<1>1. Store'
  BY DEF OutboxInv, Store, Numbered, DeletedOnlyIfReceived, stored
<1>2. InFlight'
  BY DEF OutboxInv, InFlight, Tracks, stored, drain
<1>3. Heard' /\ NoSilentGap'
  BY DEF OutboxInv, Heard, NoSilentGap, stored, drain
<1>4. OnWire'
  BY DEF OutboxInv, OnWire, Covered, requests, stored, drain
<1> QED
  BY <1>1, <1>2, <1>3, <1>4

\* While the table stands still, so does a wake that is not armed anew.
LEMMA WakeKept ==
  ASSUME HeadsAwaited, rows' = rows, alarm' = alarm, wake' = wake,
         \A r \in rows : r.lane \in lanes'
  PROVE  HeadsAwaited'
BY DEF HeadsAwaited

\* A submit that begins or ends touches only the flags and, at its end, the wake.
LEMMA SubmitKeeps ==
  ASSUME OutboxInv, StartSubmit \/ SubmitThrows
  PROVE  OutboxInv'
<1>1. Store' /\ InFlight' /\ Heard' /\ OnWire' /\ NoSilentGap'
  BY QuietKept DEF StartSubmit, SubmitThrows, receivers
<1>2. /\ rows' = rows /\ lanes' = lanes /\ abandoned' = abandoned /\ next' = next
      /\ route' = route /\ flight' = flight /\ late' = late /\ wire' = wire
      /\ seen' = seen /\ crashes' = crashes
  BY DEF StartSubmit, SubmitThrows, stored, drain, receivers
<1>3. submits' \in 0..MaxSubmits
  BY OutboxAssumption DEF OutboxInv, TypeOK, StartSubmit, SubmitThrows, finishSubmit
<1>4. deferred' \in BOOLEAN
  <2>1. deferred \in BOOLEAN
    BY DEF OutboxInv, TypeOK
  <2> QED
    BY <2>1, Zenon DEF StartSubmit, SubmitThrows, finishSubmit
<1>5. \A r \in rows : r.lane \in lanes
  BY DEF OutboxInv, HeadsAwaited
<1>6. ArmType' /\ HeadsAwaited'
  <2>1. CASE armOutboxRetryAlarm
    <3>1. rows' \in SUBSET Row /\ lanes' \in SUBSET Lane /\ alarm \in {None} \cup 0..MaxBackoff
      BY <1>2 DEF OutboxInv, TypeOK
    <3>2. Numbered'
      BY <1>1 DEF Store
    <3> QED
      BY <1>2, <1>5, <2>1, <3>1, <3>2, ArmFacts
  <2>2. CASE UNCHANGED <<alarm, armed, wake>>
    <3>1. HeadsAwaited'
      BY <1>2, <1>5, <2>2, WakeKept DEF OutboxInv
    <3> QED
      BY <2>2, <3>1 DEF OutboxInv, TypeOK, ArmType
  <2> QED
    BY <2>1, <2>2 DEF StartSubmit, SubmitThrows
<1>7. TypeOK'
  BY <1>2, <1>3, <1>4, <1>6 DEF OutboxInv, TypeOK, ArmType
<1> QED
  BY <1>1, <1>6, <1>7 DEF OutboxInv

\* An enqueue appends behind the lane and arms no later than before.
LEMMA EnqueueKeeps ==
  ASSUME OutboxInv, NEW L \in SUBSET Lane, SubmitReplies(L) \/ Enqueue(L)
  PROVE  OutboxInv'
<1>0. TypeOK /\ Store /\ InFlight
  BY DEF OutboxInv
<1>1. /\ Enqueued(L) /\ lanes' = lanes \cup L /\ armOutboxRetryAlarm
      /\ route' = route /\ flight' = flight /\ late' = late /\ wire' = wire
      /\ seen' = seen /\ crashes' = crashes
  BY DEF SubmitReplies, Enqueue, drain, receivers
<1>2. /\ rows' \in SUBSET Row /\ next' \in [Lane -> 0..MaxRows]
      /\ abandoned' = abandoned /\ Store' /\ rows \subseteq rows'
      /\ \A r \in rows' : r \in rows \/ r.lane \in L
      /\ \A r \in rows', s \in rows : r.lane = s.lane => r \in rows \/ s.n < r.n
  BY <1>0, <1>1, EnqueueFacts
<1>3. InFlight'
  BY <1>0, <1>1, <1>2, InFlightKept
<1>4. Heard' /\ NoSilentGap'
  BY <1>1, <1>2 DEF OutboxInv, Heard, NoSilentGap
<1>5. OnWire'
  BY <1>1, <1>2 DEF OutboxInv, OnWire, Covered, requests
<1>6. submits' \in 0..MaxSubmits
  BY OutboxAssumption DEF OutboxInv, TypeOK, SubmitReplies, Enqueue, finishSubmit
<1>7. deferred' \in BOOLEAN
  <2>1. deferred \in BOOLEAN
    BY DEF OutboxInv, TypeOK
  <2> QED
    BY <2>1, Zenon DEF SubmitReplies, Enqueue, finishSubmit
<1>8. lanes' \in SUBSET Lane /\ \A r \in rows' : r.lane \in lanes'
  BY <1>1, <1>2 DEF OutboxInv, TypeOK, HeadsAwaited
<1>9. ArmType' /\ HeadsAwaited'
  BY <1>1, <1>2, <1>8, ArmFacts DEF OutboxInv, TypeOK, Store
<1>10. TypeOK'
  BY <1>1, <1>2, <1>6, <1>7, <1>8, <1>9 DEF OutboxInv, TypeOK, ArmType
<1> QED
  BY <1>2, <1>3, <1>4, <1>5, <1>9, <1>10 DEF OutboxInv
\* The lanes of the table are listed before the pass, or by the step.
Listed(R, D, L) ==
  \A r \in rows' : r.lane \in L \/ (r.lane \in D /\ pending(R, r.lane) # {})

\* The step arms the alarm, or the table stands or the alarm is due.
Rearmed ==
  \/ armOutboxRetryAlarm
  \/ /\ alarm' = outboxNextRetryAt(rows', lanes') /\ armed' = (alarm' # None)
     /\ wake' = "kept"
  \/ UNCHANGED <<alarm, armed, wake>> /\ (alarm # 0 /\ wake = "kept" => rows' = rows)

\* A step that runs a pass over R and has written the table.
LEMMA PassKeeps ==
  ASSUME OutboxInv,
         NEW R \in SUBSET Row, NEW D \in SUBSET Lane, NEW X \in SUBSET Lane,
         NEW L \in SUBSET Lane, NEW q \in Nat \ {0}, NEW d \in BOOLEAN,
         drainOutboxPass(q, R, D, X, d, L), Send,
         Written(R), Listed(R, D, L), Rearmed,
         UNCHANGED <<submits, receivers>>
  PROVE  OutboxInv'
<1>0. TypeOK /\ Heard /\ OnWire /\ NoSilentGap /\ HeadsAwaited
  BY DEF OutboxInv
<1>1. /\ route' \in 0..Routes /\ late' \subseteq Lane /\ deferred' \in BOOLEAN
      /\ lanes' \subseteq Lane /\ L \subseteq lanes'
      /\ \A l \in D : pending(R, l) # {} => l \in lanes'
      /\ flight' \in [Lane -> Flight] /\ Launching(R)
  <2>1. \A r, s \in R : r.lane = s.lane /\ r.n = s.n => r = s
    BY DEF Written
  <2>2. Passed(R, D, L)
    BY <2>1, PassFacts, Zenon
  <2> QED
    BY <2>2, Zenon DEF Passed
<1>2. seen' = seen /\ crashes' = crashes /\ submits' = submits
  BY DEF receivers
<1>3. InFlight' /\ Heard' /\ OnWire' /\ NoSilentGap' /\ wire' \subseteq Message
  BY <1>0, <1>1, <1>2, LaunchedFacts, Zenon
<1>4. \A r \in rows' : r.lane \in lanes'
  BY <1>1 DEF Listed
<1>5. ArmType' /\ HeadsAwaited'
  <2>1. CASE \/ armOutboxRetryAlarm
             \/ /\ alarm' = outboxNextRetryAt(rows', lanes') /\ armed' = (alarm' # None)
                /\ wake' = "kept"
    <3>1. lanes' \in SUBSET Lane /\ Numbered' /\ alarm \in {None} \cup 0..MaxBackoff
          /\ rows' \in SUBSET Row
      BY <1>0, <1>1 DEF TypeOK, Store, Written
    <3> QED
      BY <1>4, <2>1, <3>1, ArmFacts, Zenon
  <2>2. CASE UNCHANGED <<alarm, armed, wake>> /\ (alarm # 0 /\ wake = "kept" => rows' = rows)
    <3>0. ArmType'
      BY <1>0, <2>2 DEF TypeOK, ArmType
    <3>1. CASE alarm # 0 /\ wake = "kept"
      BY <1>0, <1>4, <2>2, <3>0, <3>1, WakeKept
    <3>2. CASE wake # "kept"
      BY <1>4, <2>2, <3>0, <3>2 DEF HeadsAwaited
    <3>3. CASE alarm = 0
      <4>1. \A r \in rows' : r.wait \in Nat
        BY OutboxAssumption DEF Row, Written
      <4>2. HeadsAwaited'
        BY <1>4, <2>2, <3>3, <4>1 DEF HeadsAwaited, None
      <4> QED
        BY <3>0, <4>2
    <3> QED
      BY <3>1, <3>3, <3>2
  <2> QED
    BY <2>1, <2>2 DEF Rearmed
<1>6. TypeOK'
  BY <1>0, <1>1, <1>2, <1>3, <1>5 DEF TypeOK, Written, ArmType
<1> QED
  BY <1>3, <1>5, <1>6 DEF OutboxInv, Written

\* A kick starts a pass, or defers to the submit in flight.
LEMMA KickKeeps ==
  ASSUME OutboxInv, Kick
  PROVE  OutboxInv'
<1> DEFINE X == {l \in lanes : headWaits(rows, l)}
<1>1. /\ rows' = rows /\ abandoned' = abandoned /\ next' = next
      /\ drainOutboxPass(1, rows, lanes, X, deferred, {})
      /\ drainEnds /\ Send /\ UNCHANGED <<submits, receivers>>
  BY DEF Kick, drainOutbox
<1>2. /\ rows \in SUBSET Row /\ lanes \in SUBSET Lane /\ X \in SUBSET Lane
      /\ deferred \in BOOLEAN /\ next \in [Lane -> 0..MaxRows]
      /\ abandoned \subseteq Lane \X Position
  BY DEF OutboxInv, TypeOK
<1>3. \A r, s \in rows : r.lane = s.lane /\ r.n = s.n => r = s
  BY DEF OutboxInv, Store, Numbered
<1>4. \A r \in rows : r.lane \in lanes /\ pending(rows, r.lane) # {}
  BY DEF OutboxInv, HeadsAwaited, pending
<1>5. Store'
  BY <1>1 DEF OutboxInv, Store, Numbered, DeletedOnlyIfReceived, receivers
<1>6. Rearmed
  BY <1>1 DEF drainEnds, Rearmed
<1>7. Written(rows) /\ Listed(rows, lanes, {})
  BY <1>1, <1>2, <1>3, <1>4, <1>5 DEF Written, Listed
<1>8. 1 \in Nat \ {0} /\ {} \in SUBSET Lane
  OBVIOUS
<1> HIDE DEF X
<1> QED
  BY <1>1, <1>2, <1>6, <1>7, <1>8, PassKeeps, Zenon

\* The alarm handler: the consumed alarm is replaced before the handler's step ends.
LEMMA HandlerKeeps ==
  ASSUME OutboxInv, NEW L \in SUBSET Lane, AlarmFires(L) \/ OtherWake(L)
  PROVE  OutboxInv'
<1> DEFINE quiet == submits = 0 /\ rows # {}
           sends == quiet /\ \E q \in 1..Routes : dueLanes(rows, lanes, {}, q) # {}
           begun == IF quiet THEN swept(rows, lanes, {}, 1..Routes) ELSE lanes
<1>0. TypeOK /\ Store /\ InFlight
  BY DEF OutboxInv
<1>1. \/ armOutboxRetryAlarm
      \/ /\ alarm' = outboxNextRetryAt(rows', lanes') /\ armed' = (alarm' # None)
         /\ wake' = "kept"
  BY DEF AlarmFires, OtherWake
<1>2. Enqueued(L) /\ Send /\ UNCHANGED <<submits, receivers>>
  BY DEF AlarmFires, OtherWake, Handler
<1>3. seen' = seen /\ crashes' = crashes /\ submits' = submits
  BY <1>2 DEF receivers
<1>4. /\ rows' \in SUBSET Row /\ next' \in [Lane -> 0..MaxRows]
      /\ abandoned' = abandoned /\ Store' /\ rows \subseteq rows'
      /\ \A r \in rows' : r \in rows \/ r.lane \in L
      /\ \A r \in rows', s \in rows : r.lane = s.lane => r \in rows \/ s.n < r.n
  BY <1>0, <1>2, <1>3, EnqueueFacts
<1>5. /\ rows \in SUBSET Row /\ lanes \in SUBSET Lane /\ deferred \in BOOLEAN
      /\ abandoned \subseteq Lane \X Position /\ abandoned \subseteq abandoned'
      /\ abandoned' \subseteq Lane \X Position
  BY <1>0, <1>4 DEF TypeOK
<1>6. \A r \in rows : r.lane \in lanes /\ pending(rows, r.lane) # {}
  BY DEF OutboxInv, HeadsAwaited, pending
<1>7. CASE lanes' = lanes \cup L /\ UNCHANGED <<drain, deferred>>
  <2>1. InFlight'
    BY <1>0, <1>4, <1>7, InFlightKept DEF drain
  <2>2. Heard' /\ NoSilentGap'
    BY <1>3, <1>4, <1>7 DEF OutboxInv, Heard, NoSilentGap, drain
  <2>3. wire' = wire
    BY <1>2, <1>7 DEF OutboxInv, OnWire, Send, drain
  <2>4. OnWire'
    BY <1>3, <1>4, <1>7, <2>3 DEF OutboxInv, OnWire, Covered, requests, drain
  <2>5. lanes' \in SUBSET Lane /\ \A r \in rows' : r.lane \in lanes'
    BY <1>4, <1>5, <1>6, <1>7
  <2>6. ArmType' /\ HeadsAwaited'
    <3>1. Numbered' /\ alarm \in {None} \cup 0..MaxBackoff
      BY <1>0, <1>4 DEF TypeOK, Store
    <3> QED
      BY <1>1, <1>4, <2>5, <3>1, ArmFacts, Zenon
  <2>7. TypeOK'
    BY <1>0, <1>3, <1>4, <1>7, <2>3, <2>5, <2>6 DEF TypeOK, drain, ArmType
  <2> QED
    BY <1>4, <2>1, <2>2, <2>4, <2>6, <2>7 DEF OutboxInv
<1>8. CASE drainOutbox(rows, lanes, L)
  <2> DEFINE X == {l \in lanes : headWaits(rows, l)}
  <2>1. drainOutboxPass(1, rows, lanes, X, deferred, L)
    BY <1>8 DEF drainOutbox
  <2>2. X \in SUBSET Lane /\ 1 \in Nat \ {0}
    BY <1>5
  <2>3. \A r, s \in rows : r.lane = s.lane /\ r.n = s.n => r = s
    BY <1>0 DEF Store, Numbered
  <2>4. Written(rows) /\ Listed(rows, lanes, L) /\ Rearmed
    BY <1>1, <1>4, <1>5, <1>6, <2>3 DEF Written, Listed, Rearmed
  <2> HIDE DEF X
  <2> QED
    BY <1>2, <1>5, <2>1, <2>2, <2>4, PassKeeps, Zenon
<1>9. CASE drainOutbox(rows', begun \cup L, {})
  <2> DEFINE D == begun \cup L
             X == {l \in D : headWaits(rows', l)}
  <2>1. drainOutboxPass(1, rows', D, X, deferred, {})
    BY <1>9 DEF drainOutbox
  <2>2. begun \subseteq Lane /\ \A r \in rows : r.lane \in begun
    BY <1>5, <1>6 DEF swept
  <2>3. D \in SUBSET Lane /\ X \in SUBSET Lane /\ 1 \in Nat \ {0} /\ {} \in SUBSET Lane
    BY <2>2
  <2>4. \A r, s \in rows' : r.lane = s.lane /\ r.n = s.n => r = s
    BY <1>4 DEF Store, Numbered
  <2>5. Listed(rows', D, {})
    BY <1>4, <2>2 DEF pending, Listed
  <2> HIDE DEF D, X
  <2>6. Written(rows') /\ Rearmed
    BY <1>1, <1>4, <1>5, <2>4 DEF Written, Rearmed
  <2> QED
    BY <1>2, <1>4, <1>5, <2>1, <2>3, <2>5, <2>6, PassKeeps, Zenon
<1> QED
  BY <1>7, <1>8, <1>9 DEF AlarmFires, OtherWake, Handler

\* The write-back removes what was heard and starts the next route.
LEMMA FinishRouteKeeps ==
  ASSUME OutboxInv, NEW elapsed \in 0..MaxBackoff, FinishRoute(elapsed)
  PROVE  OutboxInv'
<1> DEFINE D == lanes \ emptied(rows')
           d == deferred \/ \E l \in Lane : flight[l].yielded
<1>1. /\ rows' \in SUBSET Row
      /\ abandoned \subseteq abandoned' /\ abandoned' \subseteq Lane \X Position
      /\ Store'
      /\ \A r \in rows' : \E s \in rows : s.lane = r.lane
      /\ alarm # 0 /\ wake = "kept" => rows' = rows
  BY WriteBackFacts
<1>2. /\ route # 0 /\ next' = next
      /\ drainOutboxPass(route + 1, rows', D, late, d, {})
      /\ drainEnds /\ Send /\ UNCHANGED <<submits, receivers>>
  BY DEF FinishRoute
<1>3. D \in SUBSET Lane /\ late \in SUBSET Lane /\ {} \in SUBSET Lane
  BY DEF OutboxInv, TypeOK
<1>4. route + 1 \in Nat \ {0} /\ next' \in [Lane -> 0..MaxRows]
  BY <1>2, OutboxAssumption DEF OutboxInv, TypeOK
<1>5. d \in BOOLEAN
  <2>1. deferred \in BOOLEAN
    BY DEF OutboxInv, TypeOK
  <2> QED
    BY <2>1, Zenon
<1>6. \A r, s \in rows' : r.lane = s.lane /\ r.n = s.n => r = s
  BY <1>1 DEF Store, Numbered
<1>7. Listed(rows', D, {})
  BY <1>1 DEF OutboxInv, HeadsAwaited, pending, emptied, Listed
<1>8. Rearmed
  BY <1>1, <1>2 DEF drainEnds, Rearmed
<1>9. Written(rows')
  BY <1>1, <1>4, <1>6 DEF Written
<1> HIDE DEF D, d
<1> QED
  BY <1>1, <1>2, <1>3, <1>4, <1>5, <1>7, <1>8, <1>9, PassKeeps, Zenon
\* A lane hears of its request and sends the next: the rows of its prefix
\* below what it sends are out too, or received.
LEMMA SentFacts ==
  ASSUME OutboxInv, UNCHANGED stored, NEW l \in Lane, NEW g \in Flight,
         flight' = [flight EXCEPT ![l] = g],
         g.prefix = flight[l].prefix,
         g.out \subseteq g.prefix, g.acked \subseteq g.prefix, g.failed \subseteq g.prefix,
         \A k \in Lane : seen[k].got \subseteq seen'[k].got,
         \A k \in g.out : \A j \in g.prefix : j <= k => j \in g.out \/ j \in seen'[l].got,
         Send
  PROVE  /\ Store' /\ InFlight' /\ OnWire'
         /\ wire' \subseteq Message /\ flight' \in [Lane -> Flight]
<1>0. rows' = rows /\ lanes' = lanes /\ abandoned' = abandoned /\ next' = next
  BY DEF stored
<1>1. /\ rows \in SUBSET Row /\ flight \in [Lane -> Flight] /\ wire \subseteq Message
      /\ next \in [Lane -> 0..MaxRows]
  BY DEF OutboxInv, TypeOK
<1>2. Store'
  BY <1>0 DEF OutboxInv, Store, Numbered, DeletedOnlyIfReceived
<1>3. flight' \in [Lane -> Flight]
  BY <1>1
<1>4. flight'[l] = g /\ \A k \in Lane : k # l => flight'[k] = flight[k]
  BY <1>1
<1>5. Tracks(flight[l], l)
  BY DEF OutboxInv, InFlight
<1>6. InFlight'
  <2>1. Tracks(g, l)
    BY <1>5 DEF Tracks
  <2>2. \A k \in Lane : Tracks(flight'[k], k)
    BY <1>4, <2>1 DEF OutboxInv, InFlight
  <2> QED
    BY <1>0, <2>2 DEF InFlight, Tracks
<1>7. ASSUME NEW k \in g.out, NEW j \in 1..k
      PROVE  j \in g.out \/ j \in seen'[l].got \/ <<l, j>> \in abandoned
  <2>1. k \in flight[l].prefix
    OBVIOUS
  <2>2. PICK r \in rows : r.lane = l /\ r.n = k
    BY <1>5, <2>1 DEF Tracks
  <2>3. k \in Nat /\ j \in Nat /\ j <= k /\ k <= next[l]
    <3>1. r.n \in Nat
      BY <1>1, OutboxAssumption DEF Row, Position
    <3>2. r.n <= next[r.lane]
      BY DEF OutboxInv, Store, Numbered
    <3> QED
      BY <2>2, <3>1, <3>2
  <2>4. next[l] \in Nat
    BY <1>1, OutboxAssumption
  <2>5. j \in 1..next[l]
    BY <2>3, <2>4
  <2>6. CASE \E s \in rows : s.lane = l /\ s.n = j
    <3>1. j \in g.prefix
      BY <1>5, <2>1, <2>3, <2>6 DEF Tracks
    <3> QED
      BY <2>3, <3>1
  <2>7. CASE ~ \E s \in rows : s.lane = l /\ s.n = j
    BY <2>5, <2>7 DEF OutboxInv, Store, DeletedOnlyIfReceived
  <2> QED
    BY <2>6, <2>7
<1>8. wire' = wire \cup requests(flight')
  BY DEF Send
<1>9. \A m \in wire : m.lane \in Lane /\ Covered(m)'
  BY <1>0, <1>1 DEF OutboxInv, OnWire, Covered, Message
<1>10. \A m \in requests(flight') : m \in wire \/ m = [lane |-> l, rows |-> g.out]
  <2> TAKE m \in requests(flight')
  <2>1. PICK k \in Lane : flight'[k].out # {} /\ m = [lane |-> k, rows |-> flight'[k].out]
    BY DEF requests
  <2>2. CASE k = l
    BY <1>4, <2>1, <2>2
  <2>3. CASE k # l
    <3>1. m \in requests(flight)
      BY <1>4, <2>1, <2>3 DEF requests
    <3> QED
      BY <3>1 DEF OutboxInv, OnWire
  <2> QED
    BY <2>2, <2>3
<1> DEFINE m == [lane |-> l, rows |-> g.out]
<1>11. m \in Message /\ m.lane = l /\ m.rows = g.out
  BY DEF Message, Flight
<1> HIDE DEF m
<1>12. Covered(m)'
  BY <1>0, <1>7, <1>11 DEF Covered
<1>13. \A x \in wire' : Covered(x)'
  BY <1>8, <1>9, <1>10, <1>12 DEF m
<1>14. OnWire'
  BY <1>8, <1>13 DEF OnWire
<1>15. wire' \subseteq Message
  BY <1>1, <1>8, <1>10, <1>11 DEF m
<1> QED
  BY <1>2, <1>3, <1>6, <1>14, <1>15

\* An answer heard is one the receiver gave.
LEMMA AckKeeps ==
  ASSUME OutboxInv, NEW l \in Lane, Ack(l)
  PROVE  OutboxInv'
<1> DEFINE f == flight[l]
           A == f.acked \cup f.out
           rest == f.prefix \ A
           yields == ~Batched(l) /\ submits > 0
           o == IF rest = {} \/ yields THEN {} ELSE {Min(rest)}
           y == rest # {} /\ yields
           g == [f EXCEPT !.acked = A, !.out = o, !.yielded = y]
<1>0. TypeOK /\ NoSilentGap
  BY DEF OutboxInv
<1>1. /\ f.out # {}
      /\ seen' = [seen EXCEPT ![l] = receive(@, f.out)]
      /\ flight' = [flight EXCEPT ![l] = acknowledged(l, @)]
      /\ Send /\ UNCHANGED stored
      /\ UNCHANGED <<alarm, submits, deferred, armed, wake, route, late, crashes>>
  BY DEF Ack
<1>2. flight' = [flight EXCEPT ![l] = g]
  BY <1>1 DEF acknowledged
<1>3. f \in Flight /\ Tracks(f, l) /\ f.out \subseteq Position /\ f.prefix \subseteq Position
  BY DEF OutboxInv, TypeOK, InFlight, Flight
<1>4. \A k \in f.out : \A j \in 1..k : j \in f.out \/ j \in seen[l].got \/ <<l, j>> \in abandoned
  <2> DEFINE m == [lane |-> l, rows |-> f.out]
  <2>1. m \in wire
    BY <1>1 DEF OutboxInv, OnWire, requests
  <2>2. Covered(m) /\ m.lane = l /\ m.rows = f.out
    BY <2>1 DEF OutboxInv, OnWire
  <2> QED
    BY <2>2 DEF Covered
<1>5. \A k \in Lane : \A n \in seen[k].got : n <= seen[k].high
  BY DEF OutboxInv, Heard
<1>6. abandoned' = abandoned
  BY <1>1 DEF stored
<1> HIDE DEF f
<1>7. /\ seen' \in [Lane -> [high : 0..MaxRows, got : SUBSET Position,
                             skipped : SUBSET Position]]
      /\ \A k \in Lane : seen[k].got \subseteq seen'[k].got
      /\ \A k \in Lane : \A n \in seen'[k].got : n <= seen'[k].high
      /\ NoSilentGap'
      /\ \A n \in f.out : n \in seen'[l].got \/ <<l, n>> \in abandoned
  <2>1. f.out \in SUBSET Position
    BY <1>3
  <2> QED
    BY <1>0, <1>1, <1>4, <1>5, <1>6, <2>1, ReceiveFacts
<1>8. f.out \subseteq seen'[l].got
  <2>1. \A n \in f.out : \E r \in rows : r.lane = l /\ r.n = n
    BY <1>3 DEF Tracks
  <2>2. \A r \in rows : <<r.lane, r.n>> \notin abandoned
    BY DEF OutboxInv, Store, Numbered
  <2> QED
    BY <1>7, <2>1, <2>2, ZenonT(30)
<1>9. A \subseteq seen'[l].got /\ A \subseteq f.prefix
  <2>1. f.acked \subseteq seen[l].got
    BY DEF OutboxInv, Heard, f
  <2> QED
    BY <1>3, <1>7, <1>8, <2>1 DEF Tracks
<1>10. rest \in SUBSET Nat /\ (rest # {} => Min(rest) \in rest /\ \A z \in rest : Min(rest) <= z)
  <2>1. rest \in SUBSET Nat
    BY <1>3, OutboxAssumption DEF Position
  <2> QED
    BY <2>1, MinFacts
<1>11. o \subseteq rest /\ \A k \in o : \A j \in rest : j <= k => j \in o
  BY <1>10
<1>12. A \subseteq Position /\ o \subseteq Position /\ y \in BOOLEAN
  <2>1. y \in BOOLEAN
    BY Zenon
  <2> QED
    BY <1>3, <1>9, <1>11, <2>1
<1> HIDE DEF A, o, y
<1>13. g \in Flight /\ g.prefix = f.prefix /\ g.out = o /\ g.acked = A /\ g.failed = f.failed
  BY <1>3, <1>12 DEF Flight
<1> HIDE DEF g
<1>14. \A k \in g.out : \A j \in g.prefix : j <= k => j \in g.out \/ j \in seen'[l].got
  BY <1>9, <1>11, <1>13
<1>15. g.out \subseteq g.prefix /\ g.acked \subseteq g.prefix /\ g.failed \subseteq g.prefix
  BY <1>3, <1>9, <1>11, <1>13 DEF Tracks
<1>16. /\ Store' /\ InFlight' /\ OnWire'
       /\ wire' \subseteq Message /\ flight' \in [Lane -> Flight]
  <2>1. g.prefix = flight[l].prefix
    BY <1>13 DEF f
  <2> QED
    BY <1>1, <1>2, <1>7, <1>13, <1>14, <1>15, <2>1, SentFacts
<1>17. Heard'
  <2>1. flight'[l] = g /\ \A k \in Lane : k # l => flight'[k] = flight[k]
    BY <1>0, <1>2 DEF TypeOK
  <2>2. \A k \in Lane : flight'[k].acked \subseteq seen'[k].got
    BY <1>7, <1>9, <1>13, <2>1 DEF OutboxInv, Heard
  <2> QED
    BY <1>7, <2>2 DEF Heard
<1>18. HeadsAwaited'
  BY <1>1 DEF OutboxInv, HeadsAwaited, stored
<1>19. TypeOK'
  BY <1>0, <1>1, <1>7, <1>16 DEF TypeOK, stored
<1> QED
  BY <1>7, <1>16, <1>17, <1>18, <1>19 DEF OutboxInv

\* A failed rpc falls back to single rows or ends the lane's turn.
LEMMA FailKeeps ==
  ASSUME OutboxInv, NEW l \in Lane, Fail(l)
  PROVE  OutboxInv'
<1> DEFINE f == flight[l]
           g == IF Cardinality(f.out) > 1
                  THEN [f EXCEPT !.out = {Min(f.prefix)}]
                  ELSE [f EXCEPT !.out = {}, !.failed = IF Batched(l) THEN f.prefix ELSE f.out]
<1>1. /\ f.out # {}
      /\ flight' = [flight EXCEPT ![l] = g]
      /\ Send /\ UNCHANGED stored
      /\ UNCHANGED <<alarm, submits, deferred, armed, wake, route, late>>
      /\ seen' = seen /\ crashes' = crashes
  BY DEF Fail, receivers
<1>2. f \in Flight /\ Tracks(f, l) /\ f.prefix \subseteq Position
  BY DEF OutboxInv, TypeOK, InFlight, Flight
<1>3. Min(f.prefix) \in f.prefix /\ \A z \in f.prefix : Min(f.prefix) <= z
  <2>1. f.prefix \in SUBSET Nat /\ f.prefix # {}
    BY <1>1, <1>2, OutboxAssumption DEF Position, Tracks
  <2> QED
    BY <2>1, MinFacts
<1> DEFINE low == Min(f.prefix)
<1>4. low \in f.prefix /\ low \in Position /\ \A z \in f.prefix : z <= low => z = low
  BY <1>2, <1>3, OutboxAssumption DEF Position
<1> HIDE DEF f, low
<1>5. /\ g \in Flight /\ g.prefix = f.prefix /\ g.acked = f.acked
      /\ g.out \subseteq {low} /\ g.failed \subseteq f.prefix
  <2>1. CASE Cardinality(f.out) > 1
    <3>1. g = [f EXCEPT !.out = {low}]
      BY <2>1 DEF low
    <3> QED
      BY <1>2, <1>4, <3>1 DEF Flight, Tracks
  <2>2. CASE ~(Cardinality(f.out) > 1)
    <3> DEFINE x == IF Batched(l) THEN f.prefix ELSE f.out
    <3>1. x \subseteq f.prefix
      BY <1>2 DEF Tracks
    <3>2. g = [f EXCEPT !.out = {}, !.failed = x]
      BY <2>2
    <3> HIDE DEF x, g
    <3> QED
      BY <1>2, <3>1, <3>2 DEF Flight, Tracks
  <2> QED
    BY <2>1, <2>2
<1> HIDE DEF g
<1>6. g.out \subseteq g.prefix /\ g.acked \subseteq g.prefix /\ g.failed \subseteq g.prefix
  BY <1>2, <1>4, <1>5 DEF Tracks
<1>7. \A k \in g.out : \A j \in g.prefix : j <= k => j \in g.out \/ j \in seen'[l].got
  BY <1>4, <1>5
<1>8. /\ Store' /\ InFlight' /\ OnWire'
      /\ wire' \subseteq Message /\ flight' \in [Lane -> Flight]
  <2>1. g.prefix = flight[l].prefix
    BY <1>5 DEF f
  <2> QED
    BY <1>1, <1>5, <1>6, <1>7, <2>1, SentFacts
<1>9. Heard' /\ NoSilentGap'
  <2>1. flight'[l] = g /\ \A k \in Lane : k # l => flight'[k] = flight[k]
    BY <1>1 DEF OutboxInv, TypeOK
  <2> QED
    BY <1>1, <1>5, <2>1 DEF OutboxInv, Heard, NoSilentGap, stored, f
<1>10. HeadsAwaited'
  BY <1>1 DEF OutboxInv, HeadsAwaited, stored
<1>11. TypeOK'
  BY <1>1, <1>8 DEF OutboxInv, TypeOK, stored
<1> QED
  BY <1>8, <1>9, <1>10, <1>11 DEF OutboxInv
\* A request, however late or repeated, moves the receiver's mark without a gap.
LEMMA ArriveKeeps ==
  ASSUME OutboxInv, NEW m \in wire, NEW ns \in SUBSET m.rows, Arrive(m, ns)
  PROVE  OutboxInv'
<1>0. TypeOK /\ NoSilentGap
  BY DEF OutboxInv
<1>1. /\ ns # {} /\ (\A a \in ns, b \in m.rows \ ns : a < b)
      /\ seen' = [seen EXCEPT ![m.lane] = receive(@, ns)]
      /\ UNCHANGED <<stored, drain, wire>>
      /\ UNCHANGED <<alarm, submits, deferred, armed, wake, crashes>>
  BY DEF Arrive
<1>2. m.lane \in Lane /\ m.rows \subseteq Position /\ ns \in SUBSET Position
  BY <1>0 DEF TypeOK, Message
<1>3. \A k \in ns : \A j \in 1..k :
        j \in ns \/ j \in seen[m.lane].got \/ <<m.lane, j>> \in abandoned
  <2> TAKE k \in ns
  <2> TAKE j \in 1..k
  <2>1. j \in m.rows \/ j \in seen[m.lane].got \/ <<m.lane, j>> \in abandoned
    BY DEF OutboxInv, OnWire, Covered
  <2>2. k \in Nat /\ ~(k < j)
    BY <1>2, OutboxAssumption DEF Position
  <2> QED
    BY <1>1, <2>1, <2>2
<1>4. \A k \in Lane : \A n \in seen[k].got : n <= seen[k].high
  BY DEF OutboxInv, Heard
<1>5. /\ rows' = rows /\ lanes' = lanes /\ abandoned' = abandoned /\ next' = next
      /\ route' = route /\ flight' = flight /\ late' = late /\ wire' = wire
  BY <1>1 DEF stored, drain
<1>6. /\ seen' \in [Lane -> [high : 0..MaxRows, got : SUBSET Position,
                             skipped : SUBSET Position]]
      /\ \A k \in Lane : seen[k].got \subseteq seen'[k].got
      /\ \A k \in Lane : \A n \in seen'[k].got : n <= seen'[k].high
      /\ NoSilentGap'
  BY <1>0, <1>1, <1>2, <1>3, <1>4, <1>5, ReceiveFacts
<1>7. Store'
  BY <1>5, <1>6 DEF OutboxInv, Store, Numbered, DeletedOnlyIfReceived
<1>8. InFlight' /\ HeadsAwaited'
  BY <1>1, <1>5 DEF OutboxInv, InFlight, Tracks, HeadsAwaited
<1>9. Heard'
  BY <1>5, <1>6 DEF OutboxInv, Heard
<1>10. OnWire'
  <2>1. \A x \in wire : x.lane \in Lane /\ Covered(x)
    BY <1>0 DEF OutboxInv, OnWire, TypeOK, Message
  <2>2. \A x \in wire : Covered(x)'
    BY <1>5, <1>6, <2>1 DEF Covered
  <2> QED
    BY <1>5, <2>2 DEF OutboxInv, OnWire, requests
<1>11. TypeOK'
  BY <1>0, <1>1, <1>5, <1>6 DEF TypeOK
<1> QED
  BY <1>6, <1>7, <1>8, <1>9, <1>10, <1>11 DEF OutboxInv

\* An eviction loses memory only; the table, the lanes and the alarm stand.
LEMMA CrashKeeps ==
  ASSUME OutboxInv, Crash
  PROVE  OutboxInv'
<1>1. /\ rows' = rows /\ lanes' = lanes /\ abandoned' = abandoned /\ next' = next
      /\ alarm' = alarm /\ wire' = wire /\ seen' = seen
      /\ route' = 0 /\ flight' = NoFlight /\ late' = {}
      /\ submits' = 0 /\ deferred' = FALSE /\ armed' = FALSE
      /\ crashes < MaxCrashes /\ crashes' = crashes + 1
      /\ wake' = IF wake = "overwritten" THEN "orphaned" ELSE wake
  BY DEF Crash, stored
<1>2. Grounded \in Flight
  BY DEF Grounded, Flight
<1>3. flight' \in [Lane -> Flight] /\ \A l \in Lane : flight'[l] = Grounded
  BY <1>1, <1>2 DEF NoFlight
<1>4. \A l \in Lane : /\ flight'[l].prefix = {} /\ flight'[l].out = {}
                      /\ flight'[l].acked = {} /\ flight'[l].failed = {}
  BY <1>3 DEF Grounded
<1>5. InFlight'
  BY <1>4 DEF InFlight, Tracks
<1>6. Heard' /\ Store' /\ NoSilentGap' /\ HeadsAwaited'
  <2>1. wake' = "kept" => wake = "kept"
    BY <1>1
  <2> QED
    BY <1>1, <1>4, <2>1 DEF OutboxInv, Heard, Store, Numbered, DeletedOnlyIfReceived,
                            NoSilentGap, HeadsAwaited
<1>7. requests(flight') = {}
  BY <1>4 DEF requests
<1>8. OnWire'
  BY <1>1, <1>7 DEF OutboxInv, OnWire, Covered
<1>9. TypeOK'
  <2>1. TypeOK
    BY DEF OutboxInv
  <2>2. route' \in 0..Routes /\ submits' \in 0..MaxSubmits /\ crashes' \in 0..MaxCrashes
    BY <1>1, <2>1, OutboxAssumption DEF TypeOK
  <2>3. deferred' \in BOOLEAN /\ armed' \in BOOLEAN /\ wake' \in Wakes /\ late' \subseteq Lane
    BY <1>1, <2>1 DEF TypeOK, Wakes
  <2>4. /\ rows' \subseteq Row /\ lanes' \subseteq Lane /\ abandoned' \subseteq Lane \X Position
        /\ next' \in [Lane -> 0..MaxRows] /\ alarm' \in {None} \cup 0..MaxBackoff
        /\ wire' \subseteq Message
        /\ seen' \in [Lane -> [high : 0..MaxRows, got : SUBSET Position,
                              skipped : SUBSET Position]]
    BY <1>1, <2>1, Zenon DEF TypeOK
  <2> QED
    BY <1>3, <2>2, <2>3, <2>4, Zenon DEF TypeOK
<1> QED
  BY <1>5, <1>6, <1>8, <1>9 DEF OutboxInv

\* Time moves the alarm and every head's delay together.
LEMMA TickKeeps ==
  ASSUME OutboxInv, Tick
  PROVE  OutboxInv'
<1> DEFINE aged(r) == [r EXCEPT !.wait = less(@)]
<1>0. MaxBackoff \in Nat /\ MaxRows \in Nat
  BY OutboxAssumption
<1>1. /\ alarm' = less(alarm) /\ rows' = {aged(r) : r \in rows}
      /\ lanes' = lanes /\ abandoned' = abandoned /\ next' = next
      /\ submits' = submits /\ deferred' = deferred /\ armed' = armed /\ wake' = wake
      /\ route' = route /\ flight' = flight /\ late' = late /\ wire' = wire
      /\ seen' = seen /\ crashes' = crashes
  BY DEF Tick, receivers
<1>2. rows \in SUBSET Row /\ alarm \in {None} \cup 0..MaxBackoff
  BY DEF OutboxInv, TypeOK
<1>3. \A r \in rows : /\ aged(r) \in Row /\ aged(r).lane = r.lane /\ aged(r).n = r.n
                      /\ aged(r).wait = less(r.wait) /\ r.wait \in Nat
  BY <1>0, <1>2 DEF Row, less
<1> HIDE DEF aged
<1>4. rows' \in SUBSET Row
  BY <1>1, <1>3
<1>5. /\ \A r \in rows' : \E s \in rows : r = aged(s)
      /\ \A s \in rows : aged(s) \in rows'
  BY <1>1
<1>6. alarm' \in {None} \cup 0..MaxBackoff
  BY <1>0, <1>1, <1>2 DEF less, None
<1>7. Numbered'
  <2>1. Numbered
    BY DEF OutboxInv, Store
  <2>2. \A r, s \in rows' : r.lane = s.lane /\ r.n = s.n => r = s
    BY <1>3, <1>5, <2>1 DEF Numbered
  <2>3. \A r \in rows' : r.n <= next[r.lane] /\ <<r.lane, r.n>> \notin abandoned
    <3> TAKE r \in rows'
    <3>1. PICK s \in rows : r.lane = s.lane /\ r.n = s.n
      BY <1>3, <1>5
    <3>2. s.n <= next[s.lane] /\ <<s.lane, s.n>> \notin abandoned
      BY <2>1 DEF Numbered
    <3> QED
      BY <3>1, <3>2
  <2> QED
    BY <1>1, <2>1, <2>2, <2>3 DEF Numbered
<1>8. DeletedOnlyIfReceived'
  <2> SUFFICES ASSUME NEW l \in Lane, NEW n \in 1..next[l]
               PROVE  \/ \E r \in rows' : r.lane = l /\ r.n = n
                      \/ n \in seen[l].got \/ <<l, n>> \in abandoned
    BY <1>1 DEF DeletedOnlyIfReceived
  <2>1. \/ \E r \in rows : r.lane = l /\ r.n = n
        \/ n \in seen[l].got \/ <<l, n>> \in abandoned
    BY DEF OutboxInv, Store, DeletedOnlyIfReceived
  <2>2. ASSUME NEW r \in rows, r.lane = l, r.n = n
        PROVE  \E s \in rows' : s.lane = l /\ s.n = n
    BY <1>3, <1>5, <2>2
  <2> QED
    BY <2>1, <2>2
<1>9. InFlight'
  <2>1. \A r \in rows : r.wait = 0 => aged(r).wait = 0
    BY <1>3 DEF less
  <2> SUFFICES ASSUME NEW l \in Lane PROVE Tracks(flight[l], l)'
    BY <1>1 DEF InFlight
  <2>2. Tracks(flight[l], l)
    BY DEF OutboxInv, InFlight
  <2>3. \A n \in flight[l].prefix : \E r \in rows' : r.lane = l /\ r.n = n
    BY <1>3, <1>5, <2>2 DEF Tracks
  <2>4. \A n \in flight[l].prefix : \A r \in rows' :
          r.lane = l /\ r.n <= n => r.n \in flight[l].prefix /\ r.wait = 0
    BY <1>3, <1>5, <2>1, <2>2 DEF Tracks
  <2> QED
    BY <1>1, <2>2, <2>3, <2>4 DEF Tracks
<1>10. Heard' /\ NoSilentGap'
  BY <1>1 DEF OutboxInv, Heard, NoSilentGap
<1>11. OnWire'
  BY <1>1 DEF OutboxInv, OnWire, Covered, requests
<1>12. HeadsAwaited'
  <2> SUFFICES ASSUME NEW r \in rows'
               PROVE  /\ r.lane \in lanes
                      /\ wake = "kept" =>
                           /\ alarm' # None
                           /\ (\A s \in rows' : s.lane = r.lane => r.n <= s.n) => alarm' <= r.wait
    BY <1>1 DEF HeadsAwaited
  <2>1. PICK t \in rows : r = aged(t)
    BY <1>5
  <2>2. r.lane = t.lane /\ r.n = t.n /\ r.wait = less(t.wait) /\ t.wait \in Nat
    BY <1>3, <2>1
  <2>3. t.lane \in lanes
    BY DEF OutboxInv, HeadsAwaited
  <2> SUFFICES ASSUME wake = "kept"
               PROVE  /\ alarm' # None
                      /\ (\A s \in rows' : s.lane = r.lane => r.n <= s.n) => alarm' <= r.wait
    BY <2>2, <2>3
  <2>4. alarm # None
    BY DEF OutboxInv, HeadsAwaited
  <2>5. alarm \in Nat
    BY <1>0, <1>2, <2>4
  <2>6. alarm' # None
    BY <1>1, <2>5 DEF less, None
  <2>7. ASSUME \A s \in rows' : s.lane = r.lane => r.n <= s.n
        PROVE  alarm' <= r.wait
    <3>1. \A s \in rows : s.lane = t.lane => t.n <= s.n
      BY <1>3, <1>5, <2>2, <2>7
    <3>2. alarm <= t.wait
      BY <3>1 DEF OutboxInv, HeadsAwaited
    <3> QED
      BY <1>1, <2>2, <2>5, <3>2 DEF less
  <2> QED
    BY <2>6, <2>7
<1>13. TypeOK'
  BY <1>1, <1>4, <1>6 DEF OutboxInv, TypeOK
<1> QED
  BY <1>7, <1>8, <1>9, <1>10, <1>11, <1>12, <1>13 DEF OutboxInv, Store

\* The empty outbox satisfies the invariant.
LEMMA InvInit ==
  Init => OutboxInv
<1> SUFFICES ASSUME Init PROVE OutboxInv
  OBVIOUS
<1> USE DEF Init
<1>1. Grounded \in Flight
  BY DEF Grounded, Flight
<1>2. flight \in [Lane -> Flight] /\ \A l \in Lane : flight[l] = Grounded
  BY <1>1 DEF NoFlight
<1>3. \A l \in Lane : /\ flight[l].prefix = {} /\ flight[l].out = {}
                      /\ flight[l].acked = {} /\ flight[l].failed = {}
  BY <1>2 DEF Grounded
<1>4. TypeOK
  <2>1. /\ 0 \in 0..MaxRows /\ 0 \in 0..MaxSubmits /\ 0 \in 0..Routes /\ 0 \in 0..MaxCrashes
    BY OutboxAssumption
  <2>2. /\ next \in [Lane -> 0..MaxRows] /\ submits \in 0..MaxSubmits
        /\ route \in 0..Routes /\ crashes \in 0..MaxCrashes
        /\ alarm \in {None} \cup 0..MaxBackoff
    BY <2>1
  <2>3. seen \in [Lane -> [high : 0..MaxRows, got : SUBSET Position, skipped : SUBSET Position]]
    BY <2>1
  <2>4. /\ rows \subseteq Row /\ lanes \subseteq Lane /\ abandoned \subseteq Lane \X Position
        /\ late \subseteq Lane /\ wire \subseteq Message
        /\ deferred \in BOOLEAN /\ armed \in BOOLEAN /\ wake \in Wakes
    BY DEF Wakes
  <2> QED
    BY <1>2, <2>2, <2>3, <2>4, Zenon DEF TypeOK
<1>5. Store
  BY DEF Store, Numbered, DeletedOnlyIfReceived
<1>6. InFlight /\ HeadsAwaited
  BY <1>3 DEF InFlight, Tracks, HeadsAwaited
<1>7. \A l \in Lane : seen[l].high = 0 /\ seen[l].got = {}
  OBVIOUS
<1>8. Heard /\ NoSilentGap
  BY <1>3, <1>7 DEF Heard, NoSilentGap
<1>9. requests(flight) = {}
  BY <1>3 DEF requests
<1>10. OnWire
  BY <1>9 DEF OnWire
<1> QED
  BY <1>4, <1>5, <1>6, <1>8, <1>10 DEF OutboxInv

\* A seed overwrites the alarm and leaves the table, the drain and the wire.
LEMMA SeedKeeps ==
  ASSUME OutboxInv, NEW expiry \in {None, MaxBackoff}, SeedSessions(expiry)
  PROVE  OutboxInv'
<1>1. /\ UNCHANGED <<stored, drain, wire, receivers>> /\ UNCHANGED <<submits, deferred, armed>>
      /\ alarm' = expiry /\ wake' = "overwritten"
  BY DEF SeedSessions
<1>2. Store' /\ InFlight' /\ Heard' /\ OnWire' /\ NoSilentGap'
  BY <1>1, QuietKept DEF receivers
<1>3. HeadsAwaited'
  BY <1>1 DEF OutboxInv, HeadsAwaited, stored
<1>4. alarm' \in {None} \cup 0..MaxBackoff /\ wake' \in Wakes
  BY <1>1, OutboxAssumption DEF Wakes
<1>5. TypeOK'
  BY <1>1, <1>4 DEF OutboxInv, TypeOK, stored, drain, receivers
<1> QED
  BY <1>2, <1>3, <1>5 DEF OutboxInv

\* Every step keeps it, one lemma per action.
LEMMA InvNext ==
  OutboxInv /\ [Next]_vars => OutboxInv'
<1> SUFFICES ASSUME OutboxInv, [Next]_vars PROVE OutboxInv'
  OBVIOUS
<1>1. CASE StartSubmit \/ SubmitThrows
  BY <1>1, SubmitKeeps
<1>2. ASSUME NEW L \in SUBSET Lane, SubmitReplies(L) \/ Enqueue(L)
      PROVE  OutboxInv'
  BY <1>2, EnqueueKeeps
<1>3. ASSUME NEW L \in SUBSET Lane, AlarmFires(L) \/ OtherWake(L)
      PROVE  OutboxInv'
  BY <1>3, HandlerKeeps
<1>4. CASE Kick
  BY <1>4, KickKeeps
<1>5. ASSUME NEW l \in Lane, Ack(l)
      PROVE  OutboxInv'
  BY <1>5, AckKeeps
<1>6. ASSUME NEW l \in Lane, Fail(l)
      PROVE  OutboxInv'
  BY <1>6, FailKeeps
<1>7. ASSUME NEW elapsed \in 0..MaxBackoff, FinishRoute(elapsed)
      PROVE  OutboxInv'
  BY <1>7, FinishRouteKeeps
<1>8. ASSUME NEW m \in wire, NEW ns \in SUBSET m.rows, Arrive(m, ns)
      PROVE  OutboxInv'
  BY <1>8, ArriveKeeps
<1>9. CASE Crash
  BY <1>9, CrashKeeps
<1>10. CASE Tick
  BY <1>10, TickKeeps
<1>11. ASSUME NEW expiry \in {None, MaxBackoff}, SeedSessions(expiry)
       PROVE  OutboxInv'
  BY <1>11, SeedKeeps
<1>12. CASE UNCHANGED vars
  <2>1. /\ UNCHANGED <<stored, drain, wire, seen>>
        /\ UNCHANGED <<alarm, submits, deferred, armed, wake, crashes>>
    BY <1>12 DEF vars, stored, drain
  <2>2. Store' /\ InFlight' /\ Heard' /\ OnWire' /\ NoSilentGap'
    BY <2>1, QuietKept
  <2>3. TypeOK' /\ HeadsAwaited'
    BY <2>1 DEF OutboxInv, TypeOK, HeadsAwaited, stored, drain
  <2> QED
    BY <2>2, <2>3 DEF OutboxInv
<1> QED
  BY <1>1, <1>2, <1>3, <1>4, <1>5, <1>6, <1>7, <1>8, <1>9, <1>10, <1>11, <1>12, Zenon DEF Next

(***************************************************************************)
(* An overwritten alarm is set again.                                      *)
(***************************************************************************)

\* Who will set the alarm that a seed has overwritten is still there.
Tended == wake = "overwritten" => route # 0 \/ deferred

\* A drain that ends arms the alarm or leaves it to a submit; a submit that was
\* left the alarm sets it when it ends.
LEMMA StaysTended ==
  ASSUME OutboxInv, Tended, [Next]_vars
  PROVE  Tended'
<1>1. ASSUME armOutboxRetryAlarm \/ wake' = "kept"
      PROVE  Tended'
  BY <1>1 DEF armOutboxRetryAlarm, Tended
<1>2. ASSUME wake' = wake, route' = route, deferred' = deferred
      PROVE  Tended'
  BY <1>2 DEF Tended
<1>3. ASSUME drainEnds
      PROVE  Tended'
  BY <1>1, <1>3 DEF drainEnds, Tended
<1>4. CASE StartSubmit
  BY <1>2, <1>4 DEF StartSubmit, drain
<1>5. CASE SubmitThrows
  <2>1. CASE armOutboxRetryAlarm
    BY <1>1, <2>1
  <2>2. CASE ~(deferred /\ ~deferred') /\ wake' = wake
    <3>1. deferred' = (deferred /\ submits' > 0) /\ route' = route
      BY <1>5 DEF SubmitThrows, finishSubmit, drain
    <3> QED
      BY <2>2, <3>1 DEF Tended
  <2> QED
    BY <1>5, <2>1, <2>2 DEF SubmitThrows
<1>6. ASSUME NEW L \in SUBSET Lane, SubmitReplies(L) \/ Enqueue(L) \/ AlarmFires(L) \/ OtherWake(L)
      PROVE  Tended'
  BY <1>1, <1>6 DEF SubmitReplies, Enqueue, AlarmFires, OtherWake
<1>7. CASE Kick
  BY <1>3, <1>7 DEF Kick
<1>8. ASSUME NEW expiry \in {None, MaxBackoff}, SeedSessions(expiry)
      PROVE  Tended'
  BY <1>8 DEF SeedSessions, drain, Tended
<1>9. ASSUME NEW l \in Lane, Ack(l) \/ Fail(l)
      PROVE  Tended'
  BY <1>2, <1>9 DEF Ack, Fail
<1>10. ASSUME NEW elapsed \in 0..MaxBackoff, FinishRoute(elapsed)
       PROVE  Tended'
  BY <1>3, <1>10 DEF FinishRoute
<1>11. ASSUME NEW m \in wire, NEW ns \in SUBSET m.rows, Arrive(m, ns)
       PROVE  Tended'
  BY <1>2, <1>11 DEF Arrive, drain
<1>12. CASE Crash
  BY <1>12 DEF Crash, Tended
<1>13. CASE Tick \/ UNCHANGED vars
  BY <1>2, <1>13 DEF Tick, vars
<1> QED
  BY <1>4, <1>5, <1>6, <1>7, <1>8, <1>9, <1>10, <1>11, <1>12, <1>13, Zenon DEF Next

(***************************************************************************)
(* Every lane is a queue.                                                  *)
(***************************************************************************)

\* A request asks only for rows that its lane was given.
Asked == \A m \in wire : \A n \in m.rows : n <= next[m.lane]

\* Positions are handed out upwards, and what a step puts on the wire is out.
Grows ==
  /\ \A l \in Lane : next[l] <= next'[l]
  /\ wire' \subseteq wire \cup requests(flight')

\* What a lane has out is pending, so it was given to the lane.
LEMMA AskedKept ==
  ASSUME OutboxInv', Asked, TypeOK, Grows
  PROVE  Asked'
<1>1. /\ next \in [Lane -> 0..MaxRows] /\ next' \in [Lane -> 0..MaxRows] /\ MaxRows \in Nat
      /\ wire \subseteq Message
      /\ \A m \in wire : m.lane \in Lane /\ m.rows \subseteq Position
      /\ Position \subseteq Nat
  BY OutboxAssumption DEF OutboxInv, TypeOK, Message, Position
<1> SUFFICES ASSUME NEW m \in wire', NEW n \in m.rows
             PROVE  n <= next'[m.lane]
  BY DEF Asked
<1>2. CASE m \in wire
  <2>1. m.lane \in Lane /\ n \in Nat
    BY <1>1, <1>2
  <2>2. next[m.lane] \in Nat /\ next'[m.lane] \in Nat /\ next[m.lane] <= next'[m.lane]
    BY <1>1, <2>1 DEF Grows
  <2>3. n <= next[m.lane]
    BY <1>2 DEF Asked
  <2> QED
    BY <2>1, <2>2, <2>3
<1>3. CASE m \in requests(flight')
  <2>1. m.lane \in Lane /\ m.rows = flight'[m.lane].out
    BY <1>3 DEF requests
  <2>2. n \in flight'[m.lane].prefix
    BY <2>1 DEF OutboxInv, InFlight, Tracks
  <2>3. \E r \in rows' : r.lane = m.lane /\ r.n = n
    BY <2>1, <2>2 DEF OutboxInv, InFlight, Tracks
  <2> QED
    BY <2>3 DEF OutboxInv, Store, Numbered
<1> QED
  BY <1>2, <1>3 DEF Grows

\* The rows that a step enqueues are what Enqueue puts into the queues.
LEMMA EnqueuedIsEnqueue ==
  ASSUME TypeOK, NEW L \in SUBSET Lane, Enqueued(L), seen' = seen
  PROVE  Queues!Enqueue(L)
<1>1. /\ rows' = rows \cup newRows(L) /\ abandoned' = abandoned
      /\ next' = [l \in Lane |-> IF l \in L THEN next[l] + 1 ELSE next[l]]
  BY DEF Enqueued
<1>2. ASSUME NEW l \in Lane
      PROVE  positions(rows', l) = IF l \in L THEN positions(rows, l) \cup {next[l] + 1}
                                              ELSE positions(rows, l)
  <2>1. pending(rows', l) = pending(rows, l) \cup pending(newRows(L), l)
    BY <1>1 DEF pending
  <2>2. positions(rows', l) = positions(rows, l) \cup positions(newRows(L), l)
    BY <2>1 DEF positions
  <2>3. \A r \in newRows(L) : r.lane \in L /\ r.n = next[r.lane] + 1
    BY DEF newRows
  <2>4. l \notin L => positions(newRows(L), l) = {}
    BY <2>3 DEF positions, pending
  <2>5. ASSUME l \in L PROVE positions(newRows(L), l) = {next[l] + 1}
    <3> DEFINE x == [lane |-> l, n |-> next[l] + 1, attempts |-> 0, wait |-> 0]
    <3>1. x \in newRows(L) /\ x.lane = l /\ x.n = next[l] + 1
      BY <2>5 DEF newRows
    <3>2. \A r \in pending(newRows(L), l) : r.n = next[l] + 1
      BY <2>3 DEF pending
    <3>3. x \in pending(newRows(L), l)
      BY <3>1 DEF pending
    <3> HIDE DEF x
    <3> QED
      BY <3>1, <3>2, <3>3 DEF positions
  <2> QED
    BY <2>2, <2>4, <2>5
<1>3. /\ [l \in Lane |-> positions(rows', l)]
           = [l \in Lane |-> IF l \in L THEN [k \in Lane |-> positions(rows, k)][l] \cup {next[l] + 1}
                                        ELSE [k \in Lane |-> positions(rows, k)][l]]
  BY <1>2
<1> QED
  BY <1>1, <1>3 DEF Queues!Enqueue

\* What a destination takes from a request is one delivery of its queue.
LEMMA ReceivedIsDeliver ==
  ASSUME OutboxInv, OutboxInv', NEW l \in Lane, NEW ns \in SUBSET Position,
         \A n \in ns : n <= next[l],
         seen' = [seen EXCEPT ![l] = receive(@, ns)],
         rows' = rows, next' = next, abandoned' = abandoned
  PROVE  \E fresh \in SUBSET (1 .. next[l]) : Queues!Deliver(l, fresh)
<1> DEFINE fresh == {n \in ns : n > seen[l].high}
<1>1. /\ seen \in [Lane -> [high : 0..MaxRows, got : SUBSET Position, skipped : SUBSET Position]]
      /\ next \in [Lane -> 0..MaxRows] /\ MaxRows \in Nat
  BY OutboxAssumption DEF OutboxInv, TypeOK
<1>2. fresh \in SUBSET (1 .. next[l])
  <2>1. next[l] \in Nat
    BY <1>1
  <2>2. \A n \in ns : n \in 1 .. next[l]
    BY <1>1, <2>1 DEF Position
  <2> QED
    BY <2>2
<1>3. /\ seen'[l].got = seen[l].got \cup fresh
      /\ \A k \in Lane : k # l => seen'[k].got = seen[k].got
  BY <1>1 DEF receive
<1> HIDE DEF fresh
<1>4. ASSUME NEW n \in fresh, NEW k \in seen[l].got
      PROVE  k < n
  <2>1. n \in Nat /\ n > seen[l].high /\ seen[l].high \in Nat /\ k \in Nat
    BY <1>1, OutboxAssumption DEF fresh, Position
  <2>2. k <= seen[l].high
    BY DEF OutboxInv, Heard
  <2> QED
    BY <2>1, <2>2
<1>5. ASSUME NEW n \in fresh, NEW j \in 1 .. n
      PROVE  j \in seen[l].got \cup fresh \cup {p \in Position : <<l, p>> \in abandoned}
  <2>1. n \in Position /\ n <= seen'[l].high
    BY <1>3 DEF fresh, OutboxInv, Heard
  <2>2. seen'[l].high \in Nat
    BY <1>1 DEF OutboxInv, TypeOK
  <2>3. j \in 1 .. seen'[l].high /\ j \in Position
    BY <1>1, <2>1, <2>2 DEF Position
  <2>4. j \in seen'[l].got \/ <<l, j>> \in abandoned'
    BY <2>3 DEF OutboxInv, NoSilentGap
  <2> QED
    BY <1>3, <2>3, <2>4
<1>6. [k \in Lane |-> seen'[k].got]
        = [[k \in Lane |-> seen[k].got] EXCEPT ![l] = @ \cup fresh]
  BY <1>3
<1>7. [k \in Lane |-> positions(rows', k)] = [k \in Lane |-> positions(rows, k)]
  OBVIOUS
<1>8. Queues!Deliver(l, fresh)
  BY <1>4, <1>5, <1>6, <1>7 DEF Queues!Deliver
<1> QED
  BY <1>2, <1>8 DEF Queues!Deliver

\* A write-back takes rows out of their queues, delivered or given up.
LEMMA WriteBackIsSettle ==
  ASSUME OutboxInv, OutboxInv', NEW elapsed \in 0..MaxBackoff, FinishRoute(elapsed)
  PROVE  Queues!Settle
<1> DEFINE given(A, l) == {n \in Position : <<l, n>> \in A}
<1>1. /\ abandoned \subseteq abandoned'
      /\ \A r \in rows' : \E s \in rows : s.lane = r.lane /\ s.n = r.n
      /\ \A p \in abandoned' : p \in abandoned \/ \E r \in rows : p = <<r.lane, r.n>>
  BY WriteBackFacts
<1>2. next' = next /\ seen' = seen
  BY DEF FinishRoute, receivers
<1>3. rows \in SUBSET Row /\ next \in [Lane -> 0..MaxRows] /\ MaxRows \in Nat
  BY OutboxAssumption DEF OutboxInv, TypeOK
<1>4. ASSUME NEW l \in Lane
      PROVE  /\ positions(rows', l) \subseteq positions(rows, l)
             /\ given(abandoned, l) \subseteq given(abandoned', l)
             /\ given(abandoned', l) \subseteq given(abandoned, l) \cup positions(rows, l)
             /\ positions(rows, l) \ positions(rows', l) \subseteq seen[l].got \cup given(abandoned', l)
             /\ positions(rows', l) \cap given(abandoned', l) = {}
  <2>1. positions(rows', l) \subseteq positions(rows, l)
    BY <1>1 DEF positions, pending
  <2>2. given(abandoned, l) \subseteq given(abandoned', l)
    BY <1>1
  <2>3. given(abandoned', l) \subseteq given(abandoned, l) \cup positions(rows, l)
    BY <1>1 DEF positions, pending
  <2>4. ASSUME NEW n \in positions(rows, l), n \notin positions(rows', l)
        PROVE  n \in seen[l].got \cup given(abandoned', l)
    <3>1. PICK r \in rows : r.lane = l /\ r.n = n
      BY DEF positions, pending
    <3>2. n \in Position /\ n <= next[l]
      BY <1>3, <3>1 DEF Row, OutboxInv, Store, Numbered
    <3>3. n \in 1 .. next'[l]
      BY <1>2, <1>3, <3>2 DEF Position
    <3>4. ~ \E s \in rows' : s.lane = l /\ s.n = n
      BY <2>4 DEF positions, pending
    <3> QED
      BY <1>2, <3>2, <3>3, <3>4 DEF OutboxInv, Store, DeletedOnlyIfReceived
  <2>5. positions(rows', l) \cap given(abandoned', l) = {}
    BY DEF positions, pending, OutboxInv, Store, Numbered
  <2> HIDE DEF given
  <2> QED
    BY <2>1, <2>2, <2>3, <2>4, <2>5
<1> QED
  BY <1>2, <1>4 DEF Queues!Settle

\* A step that moves no position, mark or counter is invisible to the queues.
Unmoved ==
  /\ next' = next /\ abandoned' = abandoned /\ seen' = seen
  /\ \A l \in Lane : positions(rows', l) = positions(rows, l)

\* One step of the queues, or none.
QueueStep == [Queues!Next]_(Queues!vars)

LEMMA UnmovedStutters ==
  ASSUME Unmoved
  PROVE  QueueStep
<1>1. [l \in Lane |-> positions(rows', l)] = [l \in Lane |-> positions(rows, l)]
  BY DEF Unmoved
<1> QED
  BY <1>1 DEF Unmoved, QueueStep, Queues!vars

LEMMA EnqueuedSteps ==
  ASSUME TypeOK, NEW L \in SUBSET Lane, Enqueued(L), seen' = seen
  PROVE  QueueStep /\ \A l \in Lane : next[l] <= next'[l]
<1>1. Queues!Enqueue(L)
  BY EnqueuedIsEnqueue
<1>2. Queues!Next
  BY <1>1 DEF Queues!Next, Queues!Enqueue
<1>3. next \in [Lane -> 0..MaxRows] /\ MaxRows \in Nat
  BY OutboxAssumption DEF TypeOK
<1>4. \A l \in Lane : next[l] <= next'[l]
  BY <1>3 DEF Enqueued
<1> QED
  BY <1>2, <1>4 DEF QueueStep

LEMMA ReceivedSteps ==
  ASSUME OutboxInv, OutboxInv', Asked, NEW m \in wire, NEW ns \in SUBSET m.rows,
         seen' = [seen EXCEPT ![m.lane] = receive(@, ns)],
         rows' = rows, next' = next, abandoned' = abandoned
  PROVE  QueueStep
<1>1. m.lane \in Lane /\ ns \in SUBSET Position
  BY DEF OutboxInv, TypeOK, Message
<1>2. \A n \in ns : n <= next[m.lane]
  BY DEF Asked
<1>3. \E fresh \in SUBSET (1 .. next[m.lane]) : Queues!Deliver(m.lane, fresh)
  BY <1>1, <1>2, ReceivedIsDeliver
<1>4. Queues!Next
  BY <1>1, <1>3 DEF Queues!Next, Queues!Deliver
<1> QED
  BY <1>4 DEF QueueStep

\* Every step of the outbox is a step of the queues or changes nothing they see.
LEMMA StepsAreQueueSteps ==
  ASSUME OutboxInv, OutboxInv', Asked, [Next]_vars
  PROVE  Grows /\ QueueStep
<1>1. next \in [Lane -> 0..MaxRows] /\ \A l \in Lane : next[l] \in Nat /\ next[l] <= next[l]
  BY OutboxAssumption DEF OutboxInv, TypeOK
<1>2. ASSUME Unmoved, wire' \subseteq wire \cup requests(flight')
      PROVE  Grows /\ QueueStep
  BY <1>1, <1>2, UnmovedStutters DEF Grows, Unmoved
<1>3. ASSUME NEW L \in SUBSET Lane, Enqueued(L), seen' = seen,
             wire' \subseteq wire \cup requests(flight')
      PROVE  Grows /\ QueueStep
  <2>1. TypeOK
    BY DEF OutboxInv
  <2> QED
    BY <1>3, <2>1, EnqueuedSteps DEF Grows
<1>4. rows' = rows => \A l \in Lane : positions(rows', l) = positions(rows, l)
  OBVIOUS
<1>5. CASE StartSubmit \/ SubmitThrows
  <2>1. rows' = rows /\ next' = next /\ abandoned' = abandoned /\ seen' = seen /\ wire' = wire
    BY <1>5 DEF StartSubmit, SubmitThrows, stored, receivers
  <2> QED
    BY <1>2, <1>4, <2>1 DEF Unmoved
<1>6. ASSUME NEW L \in SUBSET Lane, SubmitReplies(L) \/ Enqueue(L)
      PROVE  Grows /\ QueueStep
  <2>1. Enqueued(L) /\ seen' = seen /\ wire' = wire
    BY <1>6 DEF SubmitReplies, Enqueue, receivers
  <2> QED
    BY <1>3, <2>1
<1>7. ASSUME NEW L \in SUBSET Lane, AlarmFires(L) \/ OtherWake(L)
      PROVE  Grows /\ QueueStep
  <2>1. Enqueued(L) /\ seen' = seen /\ wire' = wire \cup requests(flight')
    <3>1. Handler(L)
      BY <1>7 DEF AlarmFires, OtherWake
    <3> QED
      BY <3>1 DEF Handler, receivers, Send
  <2> QED
    BY <1>3, <2>1
<1>8. CASE Kick
  <2>1. /\ rows' = rows /\ next' = next /\ abandoned' = abandoned /\ seen' = seen
        /\ wire' = wire \cup requests(flight')
    BY <1>8 DEF Kick, Send, receivers
  <2> QED
    BY <1>2, <1>4, <2>1 DEF Unmoved
<1>9. ASSUME NEW l \in Lane, Ack(l)
      PROVE  Grows /\ QueueStep
  <2> DEFINE m == [lane |-> l, rows |-> flight[l].out]
  <2>1. /\ m.rows # {} /\ m.lane = l
        /\ seen' = [seen EXCEPT ![l] = receive(@, m.rows)]
        /\ rows' = rows /\ next' = next /\ abandoned' = abandoned
        /\ wire' = wire \cup requests(flight')
    BY <1>9 DEF Ack, Send, stored
  <2>2. m \in wire
    BY <2>1 DEF OutboxInv, OnWire, requests
  <2> HIDE DEF m
  <2>3. QueueStep
    BY <2>1, <2>2, ReceivedSteps
  <2> QED
    BY <1>1, <2>1, <2>3 DEF Grows
<1>10. ASSUME NEW l \in Lane, Fail(l)
       PROVE  Grows /\ QueueStep
  <2>1. /\ rows' = rows /\ next' = next /\ abandoned' = abandoned /\ seen' = seen
        /\ wire' = wire \cup requests(flight')
    BY <1>10 DEF Fail, Send, stored, receivers
  <2> QED
    BY <1>2, <1>4, <2>1 DEF Unmoved
<1>11. ASSUME NEW elapsed \in 0..MaxBackoff, FinishRoute(elapsed)
       PROVE  Grows /\ QueueStep
  <2>1. Queues!Settle
    BY <1>11, WriteBackIsSettle
  <2>2. next' = next /\ wire' = wire \cup requests(flight')
    BY <1>11 DEF FinishRoute, Send
  <2> QED
    BY <1>1, <2>1, <2>2 DEF Grows, QueueStep, Queues!Next
<1>12. ASSUME NEW m \in wire, NEW ns \in SUBSET m.rows, Arrive(m, ns)
       PROVE  Grows /\ QueueStep
  <2>1. /\ seen' = [seen EXCEPT ![m.lane] = receive(@, ns)]
        /\ rows' = rows /\ next' = next /\ abandoned' = abandoned /\ wire' = wire
    BY <1>12 DEF Arrive, stored
  <2> QED
    BY <1>1, <2>1, ReceivedSteps DEF Grows
<1>13. CASE Crash \/ UNCHANGED vars
  <2>1. rows' = rows /\ next' = next /\ abandoned' = abandoned /\ seen' = seen /\ wire' = wire
    BY <1>13 DEF Crash, stored, vars
  <2> QED
    BY <1>2, <1>4, <2>1 DEF Unmoved
<1>14. ASSUME NEW expiry \in {None, MaxBackoff}, SeedSessions(expiry)
       PROVE  Grows /\ QueueStep
  <2>1. rows' = rows /\ next' = next /\ abandoned' = abandoned /\ seen' = seen /\ wire' = wire
    BY <1>14 DEF SeedSessions, stored, receivers
  <2> QED
    BY <1>2, <1>4, <2>1 DEF Unmoved
<1>15. CASE Tick
  <2> DEFINE aged(r) == [r EXCEPT !.wait = less(@)]
  <2>1. /\ rows' = {aged(r) : r \in rows}
        /\ next' = next /\ abandoned' = abandoned /\ seen' = seen /\ wire' = wire
    BY <1>15 DEF Tick, receivers
  <2>2. \A r \in rows : aged(r).lane = r.lane /\ aged(r).n = r.n
    BY DEF OutboxInv, TypeOK, Row
  <2> HIDE DEF aged
  <2>3. ASSUME NEW l \in Lane
        PROVE  positions(rows', l) = positions(rows, l)
    <3>1. \A n : (\E r \in rows' : r.lane = l /\ r.n = n) <=> (\E r \in rows : r.lane = l /\ r.n = n)
      BY <2>1, <2>2
    <3> QED
      BY <3>1 DEF positions, pending
  <2> QED
    BY <1>2, <2>1, <2>3 DEF Unmoved
<1> QED
  BY <1>5, <1>6, <1>7, <1>8, <1>9, <1>10, <1>11, <1>12, <1>13, <1>14, <1>15, Zenon DEF Next

(***************************************************************************)
(* The theorems.                                                           *)
(***************************************************************************)

\* The outbox invariant holds at every point of every drain, alarm, submit and
\* crash (drainOutboxPass, alarm and handleSubmit of scope-do.ts).
THEOREM OutboxSafe == Spec => []OutboxInv
<1>1. Init => OutboxInv
  BY InvInit
<1>2. OutboxInv /\ [Next]_vars => OutboxInv'
  BY InvNext
<1> QED
  BY <1>1, <1>2, PTL DEF Spec

\* The tables, the alarm, the drain and the requests keep their types.
THEOREM OutboxTypeCorrect == Spec => []TypeOK
<1>1. OutboxInv => TypeOK
  BY DEF OutboxInv
<1> QED
  BY <1>1, OutboxSafe, PTL

\* Whatever is lost, late or repeated, a destination passes over a position
\* only when the sender has abandoned its row (the lane prefix of
\* drainOutboxPass and the halt on the first failure).
THEOREM DeliveredInOrder == Spec => []NoSilentGap
<1>1. OutboxInv => NoSilentGap
  BY DEF OutboxInv
<1> QED
  BY <1>1, OutboxSafe, PTL

\* No write-back deletes a row that its destination never applied, unless the
\* row is recorded as abandoned (the write-back of drainOutboxPass).
THEOREM NothingLost == Spec => []DeletedOnlyIfReceived
<1>1. OutboxInv => DeletedOnlyIfReceived
  BY DEF OutboxInv, Store
<1> QED
  BY <1>1, OutboxSafe, PTL

\* While a row is pending its lane is listed, and the stored alarm is no later
\* than the lane's head, wherever the isolate dies, or a seed of session cells
\* has overwritten the alarm.  As long as that isolate lives, a drain, or the
\* submit it gave way to, is there to set the alarm again
\* (armOutboxRetryAlarm, the finally of drainOutbox, armSessionReapAlarm).
THEOREM WakeAlwaysStands == Spec => []WakeStands
<1>1. OutboxInv /\ Tended => WakeStands
  <2> SUFFICES ASSUME OutboxInv, Tended, NEW r \in rows
               PROVE  /\ r.lane \in lanes
                      /\ \/ alarm # None /\ alarm <= outboxLaneHead(rows, r.lane).wait
                         \/ wake = "overwritten" /\ (route # 0 \/ deferred)
                         \/ wake = "orphaned"
    BY DEF WakeStands
  <2>1. r.lane \in lanes
    BY DEF OutboxInv, HeadsAwaited
  <2>2. wake \in {"kept", "overwritten", "orphaned"}
    BY DEF OutboxInv, TypeOK, Wakes
  <2>3. ASSUME wake = "kept"
        PROVE  alarm # None /\ alarm <= outboxLaneHead(rows, r.lane).wait
    <3> DEFINE h == outboxLaneHead(rows, r.lane)
    <3>1. rows \in SUBSET Row /\ r.lane \in Lane /\ pending(rows, r.lane) # {}
      BY DEF OutboxInv, TypeOK, Row, pending
    <3>2. h \in rows /\ h.lane = r.lane /\ \A s \in rows : s.lane = r.lane => h.n <= s.n
      BY <3>1, HeadFacts DEF pending
    <3> HIDE DEF h
    <3>3. alarm # None /\ alarm <= h.wait
      BY <2>3, <3>2 DEF OutboxInv, HeadsAwaited
    <3> QED
      BY <3>3 DEF h
  <2> QED
    BY <2>1, <2>2, <2>3 DEF Tended
<1>2. Init => Tended
  BY DEF Init, Tended
<1>3. OutboxInv /\ Tended /\ [Next]_vars => Tended'
  BY StaysTended
<1> QED
  BY <1>1, <1>2, <1>3, OutboxSafe, PTL DEF Spec

\* Through lost, late, partial and repeated requests, write-backs, retries and
\* crashes every lane is a queue: a row takes effect once, in order, and leaves
\* the table received or given up (drainOutboxPass, applyRelayedFanout).
THEOREM LanesAreQueues == Spec => ImplementsLanes
<1>1. Init => Queues!Init /\ Asked
  BY DEF Init, Queues!Init, Asked, positions, pending
<1>2. OutboxInv /\ OutboxInv' /\ Asked /\ [Next]_vars => Asked'
  BY AskedKept, StepsAreQueueSteps DEF OutboxInv
<1>3. OutboxInv /\ OutboxInv' /\ Asked /\ [Next]_vars => [Queues!Next]_(Queues!vars)
  BY StepsAreQueueSteps DEF QueueStep
<1> QED
  BY <1>1, <1>2, <1>3, OutboxSafe, PTL DEF Spec, ImplementsLanes, Queues!Spec
=============================================================================
