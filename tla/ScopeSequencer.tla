--------------------------- MODULE ScopeSequencer ---------------------------
(***************************************************************************)
(* One scope's sequencer (class ScopeSequencer of src/net/scope.ts): the   *)
(* only writer of the scope's cells.  It orders the submits of every       *)
(* gateway, validates each against the authority's current cells, and      *)
(* records the outcome under the submit's idempotency key so that a retry  *)
(* is answered instead of executed again.                                  *)
(*                                                                         *)
(* What is abstracted:                                                     *)
(*   - A cell's version is the digest of its value, so a version IS the    *)
(*     value here; "absent" is one more value.                             *)
(*   - head.hash is a rolling digest over one linear history, so within    *)
(*     one scope (seq, hash) is determined by seq and hash is left out.    *)
(*   - A turn is a request: the cells it reads, the cells it writes and    *)
(*     what it writes as a function of what it read.  It is a parameter,   *)
(*     so that what is proved here holds of every program.                 *)
(*   - Everything one durable transaction covers is one step; the          *)
(*     transaction either commits or throws.                               *)
(***************************************************************************)
EXTENDS Integers, FiniteSets

CONSTANTS
  Cell,               \* the cells this scope owns
  Value,              \* their contents, "absent" included
  Key,                \* idempotency keys
  Request,            \* request fingerprints: actor, target, verb, args, route
  Actor,
  ActorOf(_),         \* the actor of a request
  Reads(_),           \* the cells a request's transcript reads
  Writes(_),          \* the cells it writes
  Output(_, _),       \* what it writes, as a function of the state it ran on
  IsDirect(_),        \* the request takes the direct route
  Fault(_),           \* why the authority refuses it for good, if it does
  ActivationCell,     \* the cell /net/activate writes
  Retries,            \* whether submits may carry retry_receipt
  Stamped,            \* whether submits may carry a request fingerprint
  OwnEpoch,           \* submits may or may not be stamped with this epoch
  BaseGenerations,    \* generations an ordinary submit's base may carry
  TailLimit, ReplyLimit, ReceiptLimit,
  GuaranteedOutcomeCapacity, RetainedPayloadCap,
  Lease,              \* IDEMPOTENCY_LEASE_MS
  MaxSeq, MaxGeneration, MaxClock, MaxOutcomes, MaxSnapshots  \* bounds

ASSUME SequencerAssumption ==
  /\ TailLimit \in Nat /\ ReplyLimit \in Nat /\ ReceiptLimit \in Nat
  /\ GuaranteedOutcomeCapacity \in Nat /\ RetainedPayloadCap \in Nat
  /\ Lease \in Nat
  /\ MaxSeq \in Nat /\ MaxGeneration \in Nat /\ MaxClock \in Nat
  /\ MaxOutcomes \in Nat /\ MaxSnapshots \in Nat
  /\ ActivationCell \in Cell
  /\ Retries \subseteq BOOLEAN /\ Stamped \subseteq BOOLEAN
  /\ OwnEpoch \subseteq BOOLEAN
  /\ BaseGenerations \subseteq Int

Faults == {"none", "unauthorized", "incomplete_transcript",
           "write_unauthorized", "post_state_mismatch"}

State == [Cell -> Value]

\* A request reads and writes cells of this scope, and what it writes depends
\* only on the cells it reads: a transcript records every read.
ASSUME RequestAssumption ==
  \A q \in Request :
    /\ ActorOf(q) \in Actor
    /\ Fault(q) \in Faults
    /\ IsDirect(q) \in BOOLEAN
    /\ Reads(q) \subseteq Cell /\ Writes(q) \subseteq Cell
    /\ \A s \in State : Output(q, s) \in [Writes(q) -> Value]
    /\ \A s, t \in State :
         (\A c \in Reads(q) : s[c] = t[c]) => Output(q, s) = Output(q, t)

VARIABLES
  mem,        \* the sequencer in memory: cells, head, tail, recorded replies
  durable,    \* the same families as SQLite holds them
  up,         \* a sequencer is hydrated (scope-do's this.seq # null)
  now,        \* the scope's clock
  snapshots,  \* full closures the gateways hold, each with its head
  outcomes,   \* history: every outcome that was decided and recorded
  decided,    \* history: how many outcomes so far
  answer      \* history: the recorded outcome the last step replayed, if any

vars == <<mem, durable, up, now, snapshots, outcomes, decided, answer>>

ScopeHead == [seq : 0..MaxSeq, generation : 0..MaxGeneration]

\* An older gateway sends a base without the generation field.
NoGeneration == -1
Base == [seq : 0..MaxSeq, generation : BaseGenerations]

(***************************************************************************)
(* A recorded reply (a row of net_scope_reply).  n names the outcome the   *)
(* row records; a row is inserted when its outcome is decided, so n is     *)
(* also the insertion order that the Map and SQLite's rowid share.         *)
(***************************************************************************)
Reply == [key : Key, request : Request, stamped : BOOLEAN,
          status : {"accepted", "rejected"}, seq : 0..MaxSeq,
          receipt : BOOLEAN, guaranteed : BOOLEAN, payload : BOOLEAN,
          at : 0..MaxClock, n : 1..MaxOutcomes]

Authority == [cells : State, head : ScopeHead, tail : SUBSET (1..MaxSeq),
              replies : SUBSET Reply]

Snapshot == [head : ScopeHead, cells : State]

Outcome == [n : 1..MaxOutcomes, key : Key, request : Request,
            status : {"committed", "read", "rejected"}, seq : 0..MaxSeq,
            guaranteed : BOOLEAN, at : 0..MaxClock]

NoAnswer == [n |-> 0]
Answer == {NoAnswer} \cup
          [n : 1..MaxOutcomes, key : Key, request : Request,
           stamped : BOOLEAN, shown : BOOLEAN]

TypeOK ==
  /\ mem \in Authority /\ durable \in Authority
  /\ up \in BOOLEAN
  /\ now \in 0..MaxClock
  /\ snapshots \subseteq Snapshot
  /\ outcomes \subseteq Outcome
  /\ decided \in 0..MaxOutcomes
  /\ answer \in Answer

(***************************************************************************)
(* A submit.  An ordinary submit may carry any base and reads recorded     *)
(* from any mixture of old and new cells: a gateway's view is repaired     *)
(* cell by cell.  A submit whose owned reads are compacted was planned on  *)
(* one full closure and carries that closure's head as its base.           *)
(***************************************************************************)
Submit(bases, views, compacted) ==
  [key : Key, request : Request, retry : Retries, stamped : Stamped,
   current : OwnEpoch, base : bases, view : views, compacted : {compacted}]

Submits ==
  Submit(Base, State, FALSE) \cup
  UNION {Submit({s.head}, {s.cells}, TRUE) : s \in snapshots}

(***************************************************************************)
(* Retention.                                                              *)
(***************************************************************************)
replyExpired(r, t) == r.at + Lease <= t

guaranteedOutcomes(replies, t) ==
  {r \in replies : r.guaranteed /\ ~replyExpired(r, t)}

isNonAdvancingReply(r) == r.status = "rejected" \/ r.receipt

\* Rule 2, non-advancing rows: a FIFO of ReceiptLimit rows.
overReceiptLimit(rows) ==
  {r \in rows : Cardinality({s \in rows : s.n > r.n}) >= ReceiptLimit}

\* Faulty variant: the recovery-tail window is not honoured.
overReplyLimit_noWindow(rows, seq) ==
  {r \in rows : Cardinality({s \in rows : s.seq >= r.seq}) > ReplyLimit}

\* Rule 2, advancing rows: oldest first down to ReplyLimit, but never inside
\* the recovery-tail window.
overReplyLimit(rows, seq) ==
  {r \in rows : /\ r.seq <= seq - TailLimit
                /\ Cardinality({s \in rows : s.seq >= r.seq}) > ReplyLimit}

\* Faulty variant: the quotas also evict guaranteed outcomes.
retainedReplies_noGuarantee(replies, seq, t) ==
  LET live == {r \in replies : ~replyExpired(r, t)}
      nonAdvancing == {r \in live : isNonAdvancingReply(r)}
  IN  live \ (overReceiptLimit(nonAdvancing)
              \cup overReplyLimit(live \ nonAdvancing, seq))

\* Rules 0 to 2: the rows a prune keeps.
retainedReplies(replies, seq, t) ==
  LET live == {r \in replies : ~replyExpired(r, t)}
      evictable == {r \in live : ~r.guaranteed}
      nonAdvancing == {r \in evictable : isNonAdvancingReply(r)}
      advancing == evictable \ nonAdvancing
  IN  live \ (overReceiptLimit(nonAdvancing) \cup overReplyLimit(advancing, seq))

\* Rule 3: only the newest RetainedPayloadCap rows keep their payload.
shedPayloads(rows) ==
  LET carrying == {r \in rows : r.status = "accepted" /\ r.payload}
      shed == {r \in carrying :
                 Cardinality({s \in carrying : s.n > r.n}) >= RetainedPayloadCap}
  IN  (rows \ shed) \cup {[r EXCEPT !.payload = FALSE] : r \in shed}

pruneReplies(replies, seq, t) == shedPayloads(retainedReplies(replies, seq, t))

\* recordReply: stamp the lease, insert, and prune in the same step.
recordReply(replies, row, seq) ==
  pruneReplies(replies \cup {row}, seq, now)

\* Faulty variant: a lookup sweeps every row, one clock unit early.
dropExpired_sweepsAll(replies, k) ==
  {r \in replies : r.at + Lease > now + 1}

\* recordedReply: the row of a key, dropped when it is found expired.
recordedReply(replies, k) ==
  {r \in replies : r.key = k /\ ~replyExpired(r, now)}

dropExpired(replies, k) ==
  {r \in replies : ~(r.key = k /\ replyExpired(r, now))}

(***************************************************************************)
(* Validation.                                                             *)
(***************************************************************************)
\* Faulty variant: the generation is not compared.
baseIsExactCurrent_seqOnly(b) == b.seq = mem.head.seq

baseIsExactCurrent(b) == b = mem.head

baseIsCurrentOrRetained(b) ==
  \/ /\ b.seq = mem.head.seq
     /\ b.generation \in {NoGeneration, mem.head.generation}
  \/ /\ b.seq < mem.head.seq
     /\ b.seq \in mem.tail \/ b.seq + 1 \in mem.tail

baseAdmitted(p) ==
  IF p.compacted THEN baseIsExactCurrent(p.base)
                 ELSE baseIsCurrentOrRetained(p.base)

\* The reads the transcript carries: a compacted one carries none.
mismatchedReads(p) ==
  IF p.compacted THEN {}
                 ELSE {c \in Reads(p.request) : p.view[c] # mem.cells[c]}

\* The checks of submit, in the code's order; the first that fails decides.
\* Fault stands for the checks that do not depend on this scope's cells.
Verdict(p) ==
  IF Fault(p.request) = "unauthorized" THEN "unauthorized"
  ELSE IF ~p.current THEN "stale_epoch"
  ELSE IF Fault(p.request) = "incomplete_transcript" THEN "incomplete_transcript"
  ELSE IF ~baseAdmitted(p) THEN "stale_head"
  ELSE IF mismatchedReads(p) # {} THEN "read_version_mismatch"
  ELSE IF Fault(p.request) = "none" THEN "accepted"
  ELSE Fault(p.request)

RETRYABLE_VERDICTS ==
  {"stale_epoch", "stale_head", "read_version_mismatch", "post_state_mismatch"}

\* Faulty variant: one guarantee too many.
atCapacity_offByOne(p) ==
  /\ p.retry
  /\ Cardinality(guaranteedOutcomes(mem.replies, now)) > GuaranteedOutcomeCapacity

atCapacity(p) ==
  /\ p.retry
  /\ Cardinality(guaranteedOutcomes(mem.replies, now)) >= GuaranteedOutcomeCapacity

\* No unexpired outcome answers the key and the capacity gate is passed.
Admitted(p) == recordedReply(mem.replies, p.key) = {} /\ ~atCapacity(p)

(***************************************************************************)
(* State updates.                                                          *)
(***************************************************************************)
apply(cells, written) ==
  [c \in Cell |-> IF c \in DOMAIN written THEN written[c] ELSE cells[c]]

nextHead(h) == [seq |-> h.seq + 1, generation |-> h.generation + 1]

\* Faulty variant: one entry too many.
appendTail_offByOne(tail, seq) ==
  LET grown == tail \cup {seq}
  IN  {s \in grown : Cardinality({t \in grown : t > s}) <= TailLimit}

\* The newest TailLimit entries.
appendTail(tail, seq) ==
  LET grown == tail \cup {seq}
  IN  {s \in grown : Cardinality({t \in grown : t > s}) < TailLimit}

\* The authority after an event that consumes a sequence number.
advanced(m, written) ==
  [cells |-> apply(m.cells, written), head |-> nextHead(m.head),
   tail |-> appendTail(m.tail, m.head.seq + 1), replies |-> m.replies]

\* The authority after a write outside the log: only the generation moves.
regenerated(m, written) ==
  [cells |-> apply(m.cells, written),
   head |-> [seq |-> m.head.seq, generation |-> m.head.generation + 1],
   tail |-> m.tail, replies |-> m.replies]

\* One durable transaction that commits: memory and storage move together.
Persist(m) == mem' = m /\ durable' = m /\ UNCHANGED up

CanAdvance == mem.head.seq < MaxSeq /\ mem.head.generation < MaxGeneration

Decide(p, status, seq) ==
  /\ decided < MaxOutcomes
  /\ decided' = decided + 1
  /\ outcomes' = outcomes \cup
       {[n |-> decided + 1, key |-> p.key, request |-> p.request,
         status |-> status, seq |-> seq, guaranteed |-> p.retry, at |-> now]}

ReplyRow(p, status, seq, receipt) ==
  [key |-> p.key, request |-> p.request, stamped |-> p.stamped,
   status |-> status, seq |-> seq, receipt |-> receipt,
   guaranteed |-> p.retry, payload |-> status = "accepted",
   at |-> now, n |-> decided + 1]

(***************************************************************************)
(* Submit, split by its outcome.                                           *)
(***************************************************************************)

\* The key already answered this request: the recorded outcome is returned
\* and nothing runs.  Another actor's payload is withheld.
Replay(p) ==
  /\ up
  /\ \E r \in recordedReply(mem.replies, p.key) :
       /\ ~(r.stamped /\ p.stamped /\ r.request # p.request)
       /\ answer' = [n |-> r.n, key |-> p.key, request |-> p.request,
                     stamped |-> r.stamped /\ p.stamped,
                     shown |-> /\ r.payload
                               /\ ActorOf(r.request) = ActorOf(p.request)]
  /\ UNCHANGED <<mem, durable, up, now, snapshots, outcomes, decided>>

\* The key answered another request: idempotency_conflict, and the record
\* stands.
Conflict(p) ==
  /\ up
  /\ \E r \in recordedReply(mem.replies, p.key) :
       r.stamped /\ p.stamped /\ r.request # p.request
  /\ answer' = NoAnswer
  /\ UNCHANGED <<mem, durable, up, now, snapshots, outcomes, decided>>

\* A refusal that records nothing: retry_capacity or a retryable verdict.
\* Looking the key up has already dropped its expired row.
RefuseUnrecorded(p) ==
  /\ up
  /\ recordedReply(mem.replies, p.key) = {}
  /\ atCapacity(p) \/ Verdict(p) \in RETRYABLE_VERDICTS
  /\ Persist([mem EXCEPT !.replies = dropExpired(@, p.key)])
  /\ answer' = NoAnswer
  /\ UNCHANGED <<now, snapshots, outcomes, decided>>

\* A terminal verdict is recorded under the key, so that replays agree.
RejectTerminal(p) ==
  LET kept == dropExpired(mem.replies, p.key)
      row == ReplyRow(p, "rejected", mem.head.seq, FALSE)
  IN  /\ up
      /\ Admitted(p)
      /\ Verdict(p) \notin RETRYABLE_VERDICTS \cup {"accepted"}
      /\ Decide(p, "rejected", mem.head.seq)
      /\ Persist([mem EXCEPT !.replies = recordReply(kept, row, mem.head.seq)])
      /\ answer' = NoAnswer
      /\ UNCHANGED <<now, snapshots>>

\* A direct turn with no effect is a validated read: no head moves, and only
\* a client-keyed one leaves a receipt.
pureDirectRead(p) == IsDirect(p.request) /\ Writes(p.request) = {}

DirectRead(p) ==
  LET kept == dropExpired(mem.replies, p.key)
      row == ReplyRow(p, "accepted", mem.head.seq, TRUE)
  IN  /\ up
      /\ Admitted(p) /\ Verdict(p) = "accepted" /\ pureDirectRead(p)
      /\ IF p.retry
           THEN /\ Decide(p, "read", mem.head.seq)
                /\ Persist([mem EXCEPT !.replies = recordReply(kept, row, mem.head.seq)])
           ELSE /\ Persist([mem EXCEPT !.replies = kept])
                /\ UNCHANGED <<outcomes, decided>>
      /\ answer' = NoAnswer
      /\ UNCHANGED <<now, snapshots>>

\* What an accepting submit makes of the authority: the transcript's writes,
\* the next head, a tail entry and the recorded reply, in one transaction.
Committed(p) ==
  LET kept == dropExpired(mem.replies, p.key)
      row == ReplyRow(p, "accepted", mem.head.seq + 1, FALSE)
  IN  [advanced(mem, Output(p.request, p.view)) EXCEPT
         !.replies = recordReply(kept, row, mem.head.seq + 1)]

Accepts(p) == Admitted(p) /\ Verdict(p) = "accepted" /\ ~pureDirectRead(p)

Commit(p) ==
  /\ up
  /\ CanAdvance
  /\ Accepts(p)
  /\ Decide(p, "committed", mem.head.seq + 1)
  /\ Persist(Committed(p))
  /\ answer' = NoAnswer
  /\ UNCHANGED <<now, snapshots>>

\* Faulty variant: the sequencer survives the throw, ahead of storage.
CommitAborts_keepsMemory(p) ==
  /\ up
  /\ CanAdvance
  /\ Accepts(p)
  /\ decided < MaxOutcomes
  /\ mem' = Committed(p)
  /\ answer' = NoAnswer
  /\ UNCHANGED <<durable, up, now, snapshots, outcomes, decided>>

\* The transaction throws after memory has moved: scope-do's
\* discardSeqOnThrow drops the sequencer, and the caller gets an error.
CommitAborts(p) ==
  /\ up
  /\ CanAdvance
  /\ Accepts(p)
  /\ up' = FALSE
  /\ answer' = NoAnswer
  /\ UNCHANGED <<mem, durable, now, snapshots, outcomes, decided>>

(***************************************************************************)
(* The scope's other writers.                                              *)
(***************************************************************************)

\* Rider cells another scope committed: a compare-and-swap per cell, and the
\* owner's value wins.  Cells outside claimed carry no prior and apply blind.
Adopt(rider, claimed, prior) ==
  LET applied == {c \in DOMAIN rider : c \in claimed => prior[c] = mem.cells[c]}
  IN  /\ up
      /\ CanAdvance
      /\ applied # {}
      /\ Persist(advanced(mem, [c \in applied |-> rider[c]]))
      /\ answer' = NoAnswer
      /\ UNCHANGED <<now, snapshots, outcomes, decided>>

\* An ordered repair by the operator (definitions, seed properties, account
\* state, verb slots, credentials) or a session reap: a no-op unless some
\* cell changes, else one event of the scope's log.
OrderedRepair(fixed) ==
  LET changed == {c \in DOMAIN fixed : fixed[c] # mem.cells[c]}
  IN  /\ up
      /\ CanAdvance
      /\ changed # {}
      /\ Persist(advanced(mem, [c \in changed |-> fixed[c]]))
      /\ answer' = NoAnswer
      /\ UNCHANGED <<now, snapshots, outcomes, decided>>

\* A relation event from another scope advances the head and no cell.
RelationEvent ==
  /\ up
  /\ CanAdvance
  /\ Persist(advanced(mem, [c \in {} |-> mem.cells[c]]))
  /\ answer' = NoAnswer
  /\ UNCHANGED <<now, snapshots, outcomes, decided>>

\* Seeding is refused once the scope has committed.  Like activation it moves
\* the generation and not the sequence number.
Seed(seeded) ==
  /\ up
  /\ mem.head.seq = 0
  /\ mem.head.generation < MaxGeneration
  /\ Persist(regenerated(mem, seeded))
  /\ answer' = NoAnswer
  /\ UNCHANGED <<now, snapshots, outcomes, decided>>

OperatorActivationWrite(v) ==
  /\ up
  /\ mem.head.generation < MaxGeneration
  /\ Persist(regenerated(mem, [c \in {ActivationCell} |-> v]))
  /\ answer' = NoAnswer
  /\ UNCHANGED <<now, snapshots, outcomes, decided>>

(***************************************************************************)
(* The environment.                                                        *)
(***************************************************************************)

\* A gateway pulls the scope's full closure with its head.
ServeClosure ==
  /\ up
  /\ Cardinality(snapshots) < MaxSnapshots
  /\ snapshots' = snapshots \cup {[head |-> mem.head, cells |-> mem.cells]}
  /\ answer' = NoAnswer
  /\ UNCHANGED <<mem, durable, up, now, outcomes, decided>>

\* The isolate is evicted or crashes between requests.
Evict ==
  /\ up
  /\ up' = FALSE
  /\ answer' = NoAnswer
  /\ UNCHANGED <<mem, durable, now, snapshots, outcomes, decided>>

\* The next request hydrates the sequencer from the durable store.
Hydrate ==
  /\ ~up
  /\ mem' = durable
  /\ up' = TRUE
  /\ UNCHANGED <<durable, now, snapshots, outcomes, decided, answer>>

Tick ==
  /\ now < MaxClock
  /\ now' = now + 1
  /\ answer' = NoAnswer
  /\ UNCHANGED <<mem, durable, up, snapshots, outcomes, decided>>

\* Faulty variant: a fresh head without a generation.
Genesis_noGeneration(cells) ==
  [cells |-> cells, head |-> [seq |-> 0, generation |-> NoGeneration],
   tail |-> {}, replies |-> {}]

Genesis(cells) ==
  [cells |-> cells, head |-> [seq |-> 0, generation |-> 0],
   tail |-> {}, replies |-> {}]

Init ==
  /\ \E cells \in State : mem = Genesis(cells)
  /\ durable = mem
  /\ up = TRUE
  /\ now = 0
  /\ snapshots = {}
  /\ outcomes = {}
  /\ decided = 0
  /\ answer = NoAnswer

PartialState == UNION {[S -> Value] : S \in SUBSET Cell}

Next ==
  \/ \E p \in Submits :
       \/ Replay(p) \/ Conflict(p) \/ RefuseUnrecorded(p)
       \/ RejectTerminal(p) \/ DirectRead(p) \/ Commit(p) \/ CommitAborts(p)
  \/ \E rider \in PartialState : \E claimed \in SUBSET Cell : \E prior \in State :
       Adopt(rider, claimed, prior)
  \/ \E fixed \in PartialState : OrderedRepair(fixed)
  \/ RelationEvent
  \/ \E seeded \in PartialState : Seed(seeded)
  \/ \E v \in Value : OperatorActivationWrite(v)
  \/ ServeClosure
  \/ Evict
  \/ Hydrate
  \/ Tick

Spec == Init /\ [][Next]_vars

(***************************************************************************)
(* What the sequencer promises.                                            *)
(***************************************************************************)

\* A client-chosen key is decided once per lease: after an outcome recorded
\* under retry_receipt, no submit of that key is executed, or refused with a
\* different terminal verdict, until the outcome's lease has run out.
\* (submit's recorded-reply lookup, the capacity gate and prune rule 1.)
OneOutcomePerKey ==
  \A o1, o2 \in outcomes :
    o1.key = o2.key /\ o1.guaranteed /\ o1.n < o2.n => o1.at + Lease <= o2.at

\* No quota, payload shedding, abort or rehydration loses a guaranteed
\* outcome while its lease runs (pruneReplies rule 1, discardSeqOnThrow).
GuaranteedOutcomeRetained ==
  \A o \in outcomes :
    o.guaranteed /\ now < o.at + Lease =>
      \E r \in durable.replies : r.key = o.key /\ r.n = o.n

\* Recovery-tail replay finds its replies: a commit whose seq the retained
\* tail still covers keeps its reply, guaranteed or not, for its lease.
TailRepliesRetained ==
  \A o \in outcomes :
    /\ o.status = "committed"
    /\ o.seq > durable.head.seq - TailLimit
    /\ now < o.at + Lease
    => \E r \in durable.replies : r.key = o.key /\ r.n = o.n

\* A replay hands back an outcome that was durably decided under its key, and
\* under its own request when both sides carry a fingerprint; a payload is
\* shown only to the actor whose turn produced it.
ReplayAnswersItsRequest ==
  answer.n # 0 =>
    \E o \in outcomes :
      /\ o.n = answer.n /\ o.key = answer.key
      /\ answer.stamped => o.request = answer.request
      /\ answer.shown => /\ o.status # "rejected"
                         /\ ActorOf(o.request) = ActorOf(answer.request)

\* Every commit is the turn run on the authority's state at that point of the
\* log, however stale the view it was planned on: a retained-head rebase and
\* a compacted read set lose no update (baseIsCurrentOrRetained,
\* baseIsExactCurrent, the read-version check, the generation counter).
Serializable ==
  [][\A o \in outcomes' \ outcomes :
       o.status = "committed" =>
         durable'.cells = apply(durable.cells, Output(o.request, durable.cells))]_vars

MaxOf(a, b) == IF a >= b THEN a ELSE b

\* The reply table is bounded: the two quotas of rule 2 plus the guarantees
\* the capacity gate admitted, and at most RetainedPayloadCap payloads.
RetentionBound ==
  /\ Cardinality(durable.replies) <=
       MaxOf(ReplyLimit, TailLimit) + ReceiptLimit + GuaranteedOutcomeCapacity
  /\ Cardinality({r \in durable.replies : r.payload}) <= RetainedPayloadCap

\* The bound the comment on pruneReplies gives: "Resulting per-scope bound:
\* max(replyLimit, tailLimit) + receiptLimit rows".
DocumentedRetentionBound ==
  Cardinality(durable.replies) <= MaxOf(ReplyLimit, TailLimit) + ReceiptLimit

\* The retained bases are exactly the last TailLimit heads and the one before
\* them: the two hash proofs of a tail entry leave no gap and admit no more.
RetainedBaseWindow ==
  \A s \in 0..durable.head.seq :
    (s \in durable.tail \/ s + 1 \in durable.tail \/ s = durable.head.seq)
      <=> s >= durable.head.seq - TailLimit
=============================================================================
