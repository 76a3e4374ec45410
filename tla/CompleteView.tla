---------------------------- MODULE CompleteView ----------------------------
(***************************************************************************)
(* The gateway's derived view of one scope and the certificate that lets   *)
(* its planner leave out read proofs (class NetGatewayDO of                *)
(* src/worker/net/gateway-do.ts).                                          *)
(*                                                                         *)
(* A gateway caches a scope's cells.  After a full pull completeHeads      *)
(* names the head at which the cache is exact, and contiguous fanout moves *)
(* it on.  A turn planned when the certificate equals the planning head    *)
(* submits no reads of the scope's cells: the scope admits it when its     *)
(* base is exactly the current head.  Such a turn is serializable only if  *)
(* the cache it was planned on was the authority's state.                  *)
(*                                                                         *)
(* What is abstracted:                                                     *)
(*   - The scope is its log: one entry per mutation, indexed by            *)
(*     generation, with the head's sequence number and the cells after it. *)
(*     The hash of a head is determined by its sequence number.            *)
(*   - A cell's value is the generation that wrote it; a value that        *)
(*     another scope committed for a cell of this one (a rider) is the     *)
(*     negated number of the ride.                                         *)
(*   - A transfer is what /closure, /head or the KV seed answered: a kind, *)
(*     the generation at which the scope answered and the keys it holds.   *)
(*     Replies arrive in any order, late, or never.                        *)
(*   - Fanout bodies arrive in any order, repeatedly or never (the outbox  *)
(*     abandons rows); a gateway may read any KV seed ever written.        *)
(*   - A turn without read proofs is planned and submitted in one step:    *)
(*     its reads are fixed when it is planned, and a base that is not the  *)
(*     head then never becomes it.  Turns with read proofs are in          *)
(*     ScopeSequencer.                                                     *)
(***************************************************************************)
EXTENDS Integers, Sequences, FiniteSets

CONSTANTS
  Key,             \* the cells the scope owns
  Kinds,           \* the kinds of transfer that are exercised
  MaxGeneration, MaxFlights, MaxRides      \* bounds

AllKinds == {"full", "seed", "touched", "targeted", "refresh", "exact", "head"}

ASSUME ViewAssumption ==
  /\ Kinds \subseteq AllKinds
  /\ MaxGeneration \in Nat \ {0} /\ MaxFlights \in Nat /\ MaxRides \in Nat

VARIABLES
  log,        \* the scope: log[g] is its state at generation g
  rides,      \* rides[n] is the key that another scope wrote in ride n
  adopted,    \* the rides the scope has adopted or refused
  view,       \* net_gateway_cell: the cached cells of the scope
  seen,       \* the scope's fanout high-water
  floors,     \* cellAuthorityFloors: 0 when a key has none
  kv,         \* the generations of the seeds in KV
  cert,       \* completeHeads
  hint,       \* planningHeads
  flights     \* answers on their way to the gateway

scope == <<log, rides, adopted>>
durable == <<view, seen, floors, kv>>
vars == <<log, rides, adopted, view, seen, floors, kv, cert, hint, flights>>

Generation == 1..MaxGeneration
Value == (0..MaxGeneration) \cup {-n : n \in 1..MaxRides}
Cells == [Key -> Value]
ScopeHead == [seq : 0..MaxGeneration, generation : Generation]
NoHead == [seq |-> 0, generation |-> 0]

Entry == [seq : 0..MaxGeneration, cells : Cells, touched : SUBSET Key]
Transfer == [kind : AllKinds, generation : Generation, keys : SUBSET Key]

\* A certificate names a head.  The model also notes the generation of the
\* image it started from and the keys installed since that are not known to be
\* as new as the certificate; the code keeps neither.
Certificate == [head : ScopeHead, from : Generation, doubtful : SUBSET Key]
NoCertificate == [head |-> NoHead, from |-> 0, doubtful |-> {}]

TypeOK ==
  /\ log \in Seq(Entry) /\ Len(log) \in Generation
  /\ rides \in Seq(Key) /\ Len(rides) <= MaxRides
  /\ adopted \subseteq 1..Len(rides)
  /\ view \in Cells
  /\ seen \in 0..MaxGeneration
  /\ floors \in [Key -> 0..MaxGeneration]
  /\ kv \subseteq Generation
  /\ cert \in Certificate \cup {NoCertificate}
  /\ hint \in ScopeHead \cup {NoHead}
  /\ flights \subseteq Transfer

(***************************************************************************)
(* The scope.                                                              *)
(***************************************************************************)
generation == Len(log)

\* Faulty variant: a head names the generation after it.
headAt_offByOne(g) == [seq |-> log[g].seq, generation |-> g + 1]

headAt(g) == [seq |-> log[g].seq, generation |-> g]
head == headAt(generation)
cellsAt(g) == log[g].cells

\* cells with the keys of K replaced by their values in image.
installed(cells, image, K) == [k \in Key |-> IF k \in K THEN image[k] ELSE cells[k]]

Mutate(seq, image, K) ==
  /\ generation < MaxGeneration
  /\ log' = Append(log, [seq |-> seq, touched |-> K,
                         cells |-> installed(cellsAt(generation), image, K)])

written == [k \in Key |-> generation + 1]

\* A turn of any gateway commits and its fanout goes out.
Commit(K) ==
  /\ Mutate(head.seq + 1, written, K)
  /\ UNCHANGED <<rides, adopted, durable, cert, hint, flights>>

\* Writes that move the generation and not the sequence number, and have no
\* fanout: the activation cell at any time, a seed before the first commit.
OperatorActivationWrite(k) ==
  /\ Mutate(head.seq, written, {k})
  /\ UNCHANGED <<rides, adopted, durable, cert, hint, flights>>

Seed(K) ==
  /\ head.seq = 0
  /\ Mutate(0, written, K)
  /\ UNCHANGED <<rides, adopted, durable, cert, hint, flights>>

\* Another scope commits a turn that also writes cell k of this scope.
Ride(k) ==
  /\ Len(rides) < MaxRides
  /\ rides' = Append(rides, k)
  /\ UNCHANGED <<log, adopted, durable, cert, hint, flights>>

\* The ride is delivered to the scope, which adopts its value or refuses it.
Adopt(n) ==
  /\ n \notin adopted
  /\ adopted' = adopted \cup {n}
  /\ \/ Mutate(head.seq + 1, [k \in Key |-> -n], {rides[n]})
     \/ UNCHANGED log
  /\ UNCHANGED <<rides, durable, cert, hint, flights>>

(***************************************************************************)
(* Requests of the gateway.                                                *)
(***************************************************************************)

\* The scope answers a request of the gateway from its current state.
Answer(t) ==
  /\ t.kind \in Kinds /\ Cardinality(flights) < MaxFlights
  /\ flights' = flights \cup {t}

transfer(kind, K) == [kind |-> kind, generation |-> generation, keys |-> K]

\* /head, and /closure for every cell.
FetchWhole(kind) ==
  /\ kind \in {"head", "full"}
  /\ Answer(transfer(kind, Key))
  /\ UNCHANGED <<scope, durable, cert, hint>>

\* /closure for some keys: the warm fill after an accepted turn, a targeted
\* pull, a view repair, an exact client read.
FetchKeys(kind, K) ==
  /\ kind \in {"touched", "targeted", "refresh", "exact"}
  /\ K # {}
  /\ Answer(transfer(kind, K))
  /\ UNCHANGED <<scope, durable, cert, hint>>

\* A KV seed is trusted when its head has the live sequence number and hash.
FetchSeed(g) ==
  /\ log[g].seq = head.seq
  /\ Answer([kind |-> "seed", generation |-> g, keys |-> Key])
  /\ UNCHANGED <<scope, durable, cert, hint>>

(***************************************************************************)
(* Installing an answer t.                                                 *)
(***************************************************************************)
Lands(t) == flights' = flights \ {t}

image(t) == cellsAt(t.generation)

installTransferredCells(t) == view' = installed(view, image(t), t.keys)

raised(old, t) == IF log[t.generation].seq > old THEN log[t.generation].seq ELSE old

advanceSeen(t) == seen' = raised(seen, t)

\* The keys of t that a fence keeps from later fanout, although t is older.
fenced(t) == {k \in t.keys : floors[k] > log[t.generation].seq}

\* The keys of t, when t is older than the certificate.
outdated(t) == IF t.generation < cert.head.generation THEN t.keys ELSE {}

doubting(K) ==
  IF cert = NoCertificate THEN cert ELSE [cert EXCEPT !.doubtful = @ \cup K]

\* reseedFromScope, and pull with a KV seed: the exact image and a certificate
\* for its head.  A fence that an exact read left above the head stays.
InstallComplete(t) ==
  /\ t.kind \in {"full", "seed"}
  /\ Lands(t)
  /\ installTransferredCells(t)
  /\ advanceSeen(t)
  /\ cert' = [head |-> headAt(t.generation), from |-> t.generation,
              doubtful |-> fenced(t)]
  /\ kv' = IF t.kind = "full" THEN kv \cup {t.generation} ELSE kv
  /\ UNCHANGED <<scope, floors, hint>>

\* installTouched, and installTargeted with its high-water: no certificate.
InstallPart(t) ==
  /\ t.kind \in {"touched", "targeted"}
  /\ Lands(t)
  /\ installTransferredCells(t)
  /\ IF t.kind = "targeted" THEN advanceSeen(t) ELSE UNCHANGED seen
  /\ cert' = NoCertificate
  /\ UNCHANGED <<scope, floors, kv, hint>>

\* refreshCells, and a presentation probe: the certificate is left alone.
InstallRefresh(t) ==
  /\ t.kind = "refresh"
  /\ Lands(t)
  /\ installTransferredCells(t)
  /\ cert' = doubting(outdated(t) \cup fenced(t))
  /\ UNCHANGED <<scope, seen, floors, kv, hint>>

racedFanout(t) == seen > log[t.generation].seq

\* An exact client read is refused when fanout has overtaken it; otherwise it
\* is installed and fences its keys.
InstallExact(t) ==
  /\ t.kind = "exact"
  /\ Lands(t)
  /\ IF racedFanout(t)
       THEN UNCHANGED <<view, floors, cert>>
       ELSE /\ installTransferredCells(t)
            /\ floors' = [k \in Key |-> IF k \in t.keys THEN raised(floors[k], t)
                                                         ELSE floors[k]]
            /\ cert' = doubting(fenced(t) \cup
                                IF log[t.generation].seq = cert.head.seq
                                  THEN outdated(t) ELSE {})
  /\ UNCHANGED <<scope, seen, kv, hint>>

\* The other scope's fanout or closure carries its copy of a ridden cell.
InstallResidue(n) ==
  /\ view' = [view EXCEPT ![rides[n]] = -n]
  /\ cert' = doubting({rides[n]})
  /\ UNCHANGED <<scope, seen, floors, kv, hint, flights>>

(***************************************************************************)
(* Fanout.                                                                 *)
(***************************************************************************)

\* Generation g moved the sequence number, so that it was fanned out.
sequenced(g) == g > 1 /\ log[g].seq > log[g - 1].seq

\* Faulty variant: any newer body moves the certificate.
continues_anyNewer(g) == cert # NoCertificate /\ log[g].seq > cert.head.seq

\* The body continues the certificate.
continues(g) == cert # NoCertificate /\ log[g].seq = cert.head.seq + 1

\* Fenced keys are filtered; the body still moves the marks.
receiveFanout(g) ==
  LET seq == log[g].seq
      passed == {k \in log[g].touched : floors[k] < seq}
  IN  /\ sequenced(g) /\ seq > seen
      /\ view' = installed(view, cellsAt(g), passed)
      /\ floors' = [k \in Key |-> IF k \in passed THEN 0 ELSE floors[k]]
      /\ seen' = seq
      /\ hint' = NoHead
      /\ cert' = IF continues(g) THEN [cert EXCEPT !.head = headAt(g)] ELSE NoCertificate
      /\ UNCHANGED <<scope, kv, flights>>

(***************************************************************************)
(* Turns.                                                                  *)
(***************************************************************************)
rememberPlanningHead(t) ==
  /\ t.kind = "head"
  /\ Lands(t)
  /\ hint' = headAt(t.generation)
  /\ UNCHANGED <<scope, durable, cert>>

\* The certificate names the planning head.
compactOwnedReads == cert # NoCertificate /\ cert.head = hint

\* A turn is planned on the view without read proofs, and its base is the
\* planning head.  The scope admits it on that base alone, and the reply drops
\* the planning head.
TurnAccepted(K) ==
  /\ compactOwnedReads /\ hint = head
  /\ Mutate(head.seq + 1, written, K)
  /\ hint' = NoHead
  /\ UNCHANGED <<rides, adopted, durable, cert, flights>>

\* stale_head: the planning head is dropped; a head and the whole scope are
\* fetched again.
TurnRefused ==
  /\ compactOwnedReads /\ hint # head
  /\ hint' = NoHead
  /\ UNCHANGED <<scope, durable, cert, flights>>

\* The gateway is evicted: what it stored survives.
Evict ==
  /\ cert' = NoCertificate /\ hint' = NoHead
  /\ flights' = {}
  /\ UNCHANGED <<scope, durable>>

Init ==
  /\ log = <<[seq |-> 0, cells |-> [k \in Key |-> 0], touched |-> {}]>>
  /\ rides = <<>> /\ adopted = {}
  /\ view = [k \in Key |-> 0]
  /\ seen = 0
  /\ floors = [k \in Key |-> 0]
  /\ kv = {}
  /\ cert = NoCertificate
  /\ hint = NoHead
  /\ flights = {}

Next ==
  \/ \E K \in SUBSET Key : Commit(K) \/ Seed(K) \/ TurnAccepted(K)
  \/ \E k \in Key : OperatorActivationWrite(k) \/ Ride(k)
  \/ \E n \in 1..Len(rides) : Adopt(n) \/ InstallResidue(n)
  \/ \E kind \in {"head", "full"} : FetchWhole(kind)
  \/ \E kind \in {"touched", "targeted", "refresh", "exact"}, K \in SUBSET Key :
       FetchKeys(kind, K)
  \/ \E g \in kv : FetchSeed(g)
  \/ \E t \in flights :
       \/ InstallComplete(t) \/ InstallPart(t) \/ InstallRefresh(t)
       \/ InstallExact(t) \/ rememberPlanningHead(t)
  \/ \E g \in 1..Len(log) : receiveFanout(g)
  \/ TurnRefused
  \/ Evict

Spec == Init /\ [][Next]_vars

(***************************************************************************)
(* What the certificate promises.                                          *)
(***************************************************************************)

\* Some mutation after generation a and up to b left the sequence number.
Regenerated(a, b) == \E g \in (a + 1)..b : log[g].seq = log[g - 1].seq

\* A turn without read proofs that the scope would admit now was planned on
\* the scope's current cells, through late, lost and repeated transfers and
\* fanout, KV seeds and evictions, with four exceptions: a seed or activation
\* since the certificate's image, and the keys that a late view repair, a copy
\* held by another scope or an exact read's fence has made doubtful
\* (completeHeads, receiveFanout, baseIsExactCurrent).
CertifiedReadsCurrent ==
  compactOwnedReads /\ hint = head /\ ~Regenerated(cert.from, generation)
    => \A k \in Key \ cert.doubtful : view[k] = cellsAt(generation)[k]

\* "Whole-scope derived copies, exact at one authority head" (the comment on
\* completeHeads): the same without the exceptions.
CompactedReadsCurrent ==
  compactOwnedReads /\ hint = head => view = cellsAt(generation)
=============================================================================
