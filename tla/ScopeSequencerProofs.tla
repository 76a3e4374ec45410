------------------------ MODULE ScopeSequencerProofs ------------------------
(***************************************************************************)
(* What the sequencer promises, for every program, every quota and lease,  *)
(* and any number of keys, commits and outcomes.                           *)
(***************************************************************************)
EXTENDS ScopeSequencer, FiniteSetTheorems, TLAPS

\* Every set of numbers that is not empty has a least one.
LEMMA NatMin ==
  ASSUME NEW T \in SUBSET Nat, T # {}
  PROVE  \E x \in T : \A y \in T : x <= y
<1> DEFINE R == {p \in Nat \X Nat : p[1] < p[2]}
<1>1. IsWellFoundedOn(R, Nat)
  BY NatLessThanWellFounded DEF OpToRel
<1>2. PICK x \in T : \A y \in T : <<y, x>> \notin R
  <2> HIDE DEF R
  <2> QED BY <1>1, WFMin
<1>3. \A y \in T : y \in Nat /\ x \in Nat /\ ~(y < x)
  BY <1>2
<1>4. \A y \in T : x <= y
  BY <1>3
<1> QED BY <1>4

(***************************************************************************)
(* The shape of a submit.                                                  *)
(***************************************************************************)
SubmitType ==
  [key : Key, request : Request, retry : BOOLEAN, stamped : BOOLEAN,
   current : BOOLEAN, base : [seq : Int, generation : Int], view : State,
   compacted : BOOLEAN]

\* Every submit is well formed, and a compacted one carries the head and the
\* cells of one closure the scope served.
LEMMA SubmitShape ==
  ASSUME TypeOK, NEW p \in Submits
  PROVE  /\ p \in SubmitType
         /\ p.compacted => \E s \in snapshots : p.base = s.head /\ p.view = s.cells
<1>1. CASE p \in Submit(Base, State, FALSE)
  <2>1. ASSUME NEW b \in Base PROVE b \in [seq : Int, generation : Int]
    <3>1. b.generation \in BaseGenerations /\ b.seq \in 0..MaxSeq
      BY DEF Base
    <3>2. BaseGenerations \subseteq Int
      BY SequencerAssumption
    <3>3. MaxSeq \in Int
      BY SequencerAssumption
    <3>4. b.seq \in Int
      BY <3>1, <3>3
    <3>5. b.generation \in Int
      BY <3>1, <3>2
    <3> QED
      BY <3>4, <3>5 DEF Base
  <2> QED
    BY <1>1, <2>1, SequencerAssumption DEF Submit, SubmitType
<1>2. ASSUME NEW s \in snapshots, p \in Submit({s.head}, {s.cells}, TRUE)
      PROVE  p \in SubmitType /\ p.base = s.head /\ p.view = s.cells
  <2>1. s.head \in [seq : Int, generation : Int] /\ s.cells \in State
    BY SequencerAssumption DEF TypeOK, Snapshot, ScopeHead
  <2> QED
    BY <1>2, <2>1, SequencerAssumption DEF Submit, SubmitType
<1>3. p \in Submit(Base, State, FALSE) => ~p.compacted
  BY DEF Submit
<1> QED
  BY <1>1, <1>2, <1>3 DEF Submits

(***************************************************************************)
(* Retention.                                                              *)
(***************************************************************************)

\* Two forms of one row: a prune may take the payload and nothing else.
SameRow(r, s) ==
  /\ r.key = s.key /\ r.request = s.request /\ r.stamped = s.stamped
  /\ r.status = s.status /\ r.seq = s.seq /\ r.receipt = s.receipt
  /\ r.guaranteed = s.guaranteed /\ r.at = s.at /\ r.n = s.n

\* The rows no quota may evict: guaranteed, or a commit in the tail window.
Protected(r, seq) ==
  r.guaranteed \/ (~isNonAdvancingReply(r) /\ r.seq > seq - TailLimit)

\* Shedding payloads loses no row, makes up none, and adds no payload.
LEMMA ShedKeepsRows ==
  ASSUME NEW rows, rows \subseteq Reply
  PROVE  /\ shedPayloads(rows) \subseteq Reply
         /\ \A r \in rows : \E s \in shedPayloads(rows) : SameRow(r, s)
         /\ \A s \in shedPayloads(rows) :
              \E r \in rows : SameRow(r, s) /\ (s.payload => r.payload)
<1> DEFINE carrying == {r \in rows : r.status = "accepted" /\ r.payload}
           shed == {r \in carrying :
                 Cardinality({s \in carrying : s.n > r.n}) >= RetainedPayloadCap}
           bare(r) == [r EXCEPT !.payload = FALSE]
<1>1. shedPayloads(rows) = (rows \ shed) \cup {bare(r) : r \in shed}
  BY DEF shedPayloads
<1>2. shed \subseteq rows
  OBVIOUS
<1>3. \A r \in Reply : bare(r) \in Reply /\ SameRow(r, bare(r)) /\ ~bare(r).payload
  BY DEF Reply, SameRow
<1>4. \A r \in Reply : SameRow(r, r)
  BY DEF SameRow
<1> HIDE DEF carrying, shed, bare
<1> QED
  BY <1>1, <1>2, <1>3, <1>4

\* A prune keeps every unexpired protected row and makes up none.
LEMMA PruneKeepsProtected ==
  ASSUME NEW replies, replies \subseteq Reply, NEW seq \in Int, NEW t \in Int
  PROVE  /\ pruneReplies(replies, seq, t) \subseteq Reply
         /\ \A r \in replies :
              ~replyExpired(r, t) /\ Protected(r, seq) =>
                \E s \in pruneReplies(replies, seq, t) : SameRow(r, s)
         /\ \A s \in pruneReplies(replies, seq, t) :
              \E r \in replies : SameRow(r, s) /\ (s.payload => r.payload)
<1> DEFINE live == {r \in replies : ~replyExpired(r, t)}
           evictable == {r \in live : ~r.guaranteed}
           nonAdvancing == {r \in evictable : isNonAdvancingReply(r)}
           advancing == evictable \ nonAdvancing
           kept == retainedReplies(replies, seq, t)
<1>1. kept = live \ (overReceiptLimit(nonAdvancing) \cup overReplyLimit(advancing, seq))
  BY DEF retainedReplies
<1>2. kept \subseteq replies
  BY <1>1
<1>3. \A r \in replies : ~replyExpired(r, t) /\ Protected(r, seq) => r \in kept
  <2> SUFFICES ASSUME NEW r \in replies, ~replyExpired(r, t), Protected(r, seq)
               PROVE  r \in kept
    OBVIOUS
  <2>1. r \notin overReceiptLimit(nonAdvancing)
    BY DEF overReceiptLimit, Protected
  <2>2. r.seq \in Int
    BY DEF Reply
  <2>3. r \notin overReplyLimit(advancing, seq)
    BY <2>2, SequencerAssumption DEF overReplyLimit, Protected
  <2> QED
    BY <1>1, <2>1, <2>3
<1> HIDE DEF kept, live, evictable, nonAdvancing, advancing
<1>4. pruneReplies(replies, seq, t) = shedPayloads(kept)
  BY DEF pruneReplies, kept
<1> QED
  BY <1>2, <1>3, <1>4, ShedKeepsRows

(***************************************************************************)
(* The updates, typed.                                                     *)
(***************************************************************************)

\* An event of the log changes the written cells, the head and the tail.
LEMMA AdvancedShape ==
  ASSUME NEW m \in Authority, m.head.seq < MaxSeq, m.head.generation < MaxGeneration,
         NEW S \in SUBSET Cell, NEW written \in [S -> Value]
  PROVE  /\ advanced(m, written) \in Authority
         /\ advanced(m, written).cells = apply(m.cells, written)
         /\ advanced(m, written).head = [seq |-> m.head.seq + 1,
                                        generation |-> m.head.generation + 1]
         /\ advanced(m, written).tail = appendTail(m.tail, m.head.seq + 1)
         /\ advanced(m, written).replies = m.replies
<1>1. apply(m.cells, written) \in State
  BY DEF Authority, apply, State
<1>2. nextHead(m.head) \in ScopeHead /\ m.head.seq + 1 \in 1..MaxSeq
  BY SequencerAssumption DEF Authority, ScopeHead, nextHead
<1>3. appendTail(m.tail, m.head.seq + 1) \in SUBSET (1..MaxSeq)
  BY <1>2 DEF Authority, appendTail
<1> QED
  BY <1>1, <1>2, <1>3 DEF advanced, Authority, nextHead

\* A decided outcome and the row that records it are well typed.
LEMMA DecideType ==
  ASSUME TypeOK, NEW p \in SubmitType,
         NEW status \in {"committed", "read", "rejected"}, NEW seq \in 0..MaxSeq,
         Decide(p, status, seq)
  PROVE  outcomes' \subseteq Outcome /\ decided' \in 0..MaxOutcomes
BY SequencerAssumption DEF TypeOK, Decide, Outcome, SubmitType

LEMMA RowType ==
  ASSUME TypeOK, NEW p \in SubmitType, decided < MaxOutcomes,
         NEW status \in {"accepted", "rejected"}, NEW seq \in 0..MaxSeq,
         NEW receipt \in BOOLEAN
  PROVE  ReplyRow(p, status, seq, receipt) \in Reply
<1>1. decided + 1 \in 1..MaxOutcomes
  BY SequencerAssumption DEF TypeOK
<1>2. (status = "accepted") \in BOOLEAN
  OBVIOUS
<1> QED
  BY <1>1, <1>2 DEF TypeOK, ReplyRow, Reply, SubmitType

\* Looking a key up, and recording a row, leave a set of rows.
LEMMA RecordType ==
  ASSUME TypeOK, NEW k, NEW seq \in Int, NEW row \in Reply
  PROVE  /\ dropExpired(mem.replies, k) \subseteq Reply
         /\ recordReply(dropExpired(mem.replies, k), row, seq) \subseteq Reply
<1>1. mem.replies \subseteq Reply /\ now \in Int
  BY DEF TypeOK, Authority
<1>2. dropExpired(mem.replies, k) \subseteq Reply
  BY <1>1 DEF dropExpired
<1> QED
  BY <1>1, <1>2, PruneKeepsProtected DEF recordReply

\* A request's output is a partial state.
LEMMA OutputType ==
  ASSUME NEW p \in SubmitType
  PROVE  /\ Writes(p.request) \in SUBSET Cell
         /\ Output(p.request, p.view) \in [Writes(p.request) -> Value]
BY RequestAssumption DEF SubmitType

\* What a commit makes of the authority, field by field.
LEMMA CommittedShape ==
  ASSUME TypeOK, CanAdvance, decided < MaxOutcomes, NEW p \in SubmitType
  PROVE  /\ Committed(p) \in Authority
         /\ Committed(p).cells = apply(mem.cells, Output(p.request, p.view))
         /\ Committed(p).head = [seq |-> mem.head.seq + 1,
                                generation |-> mem.head.generation + 1]
         /\ Committed(p).tail = appendTail(mem.tail, mem.head.seq + 1)
         /\ Committed(p).replies =
              recordReply(dropExpired(mem.replies, p.key),
                          ReplyRow(p, "accepted", mem.head.seq + 1, FALSE),
                          mem.head.seq + 1)
<1> DEFINE A == advanced(mem, Output(p.request, p.view))
           R == recordReply(dropExpired(mem.replies, p.key),
                            ReplyRow(p, "accepted", mem.head.seq + 1, FALSE),
                            mem.head.seq + 1)
<1>1. mem \in Authority /\ mem.head.seq < MaxSeq /\ mem.head.generation < MaxGeneration
  BY DEF TypeOK, CanAdvance
<1>2. /\ A \in Authority
      /\ A.cells = apply(mem.cells, Output(p.request, p.view))
      /\ A.head = [seq |-> mem.head.seq + 1, generation |-> mem.head.generation + 1]
      /\ A.tail = appendTail(mem.tail, mem.head.seq + 1)
  BY <1>1, OutputType, AdvancedShape
<1>3. mem.head.seq + 1 \in 0..MaxSeq
  BY <1>1, SequencerAssumption DEF Authority, ScopeHead
<1>4. R \subseteq Reply
  <2>1. ReplyRow(p, "accepted", mem.head.seq + 1, FALSE) \in Reply
    BY <1>3, RowType
  <2>2. mem.head.seq + 1 \in Int
    BY <1>3
  <2> HIDE DEF A
  <2> QED
    BY <2>1, <2>2, RecordType, Zenon
<1>5. Committed(p) = [A EXCEPT !.replies = R]
  BY DEF Committed
<1> HIDE DEF A, R
<1> QED
  BY <1>2, <1>4, <1>5 DEF Authority, R

(***************************************************************************)
(* Type correctness.                                                       *)
(***************************************************************************)

\* A transaction that commits a well-typed authority keeps mem, durable and
\* up well typed.
LEMMA PersistType ==
  ASSUME TypeOK, NEW m \in Authority, Persist(m)
  PROVE  mem' \in Authority /\ durable' \in Authority /\ up' \in BOOLEAN
BY DEF TypeOK, Persist

\* Replacing the replies of the authority keeps its type.
LEMMA RepliesType ==
  ASSUME TypeOK, NEW rows, rows \subseteq Reply
  PROVE  /\ [mem EXCEPT !.replies = rows] \in Authority
         /\ [mem EXCEPT !.replies = rows].cells = mem.cells
         /\ [mem EXCEPT !.replies = rows].head = mem.head
         /\ [mem EXCEPT !.replies = rows].tail = mem.tail
         /\ [mem EXCEPT !.replies = rows].replies = rows
BY DEF TypeOK, Authority

\* A write outside the log moves the generation and the cells only.
LEMMA RegeneratedShape ==
  ASSUME TypeOK, mem.head.generation < MaxGeneration,
         NEW S \in SUBSET Cell, NEW written \in [S -> Value]
  PROVE  /\ regenerated(mem, written) \in Authority
         /\ regenerated(mem, written).cells = apply(mem.cells, written)
         /\ regenerated(mem, written).head =
              [seq |-> mem.head.seq, generation |-> mem.head.generation + 1]
         /\ regenerated(mem, written).tail = mem.tail
         /\ regenerated(mem, written).replies = mem.replies
<1>1. apply(mem.cells, written) \in State
  BY DEF TypeOK, Authority, apply, State
<1>2. [seq |-> mem.head.seq, generation |-> mem.head.generation + 1] \in ScopeHead
  BY SequencerAssumption DEF TypeOK, Authority, ScopeHead
<1> QED
  BY <1>1, <1>2 DEF TypeOK, Authority, regenerated

(***************************************************************************)
(* The scope's other writers all take one of two forms: an event of the    *)
(* log, or a write that only moves the generation.  Replies stay.          *)
(***************************************************************************)
WritesBesideTurns ==
  \E S \in SUBSET Cell : \E written \in [S -> Value] :
    \/ CanAdvance /\ Persist(advanced(mem, written))
    \/ mem.head.generation < MaxGeneration /\ Persist(regenerated(mem, written))

OtherWriter ==
  \/ \E rider \in PartialState : \E claimed \in SUBSET Cell : \E prior \in State :
       Adopt(rider, claimed, prior)
  \/ \E fixed \in PartialState : OrderedRepair(fixed)
  \/ RelationEvent
  \/ \E seeded \in PartialState : Seed(seeded)
  \/ \E v \in Value : OperatorActivationWrite(v)

\* Every writer beside the turns is of one of the two forms.
LEMMA OtherWriterShape ==
  ASSUME OtherWriter
  PROVE  /\ WritesBesideTurns
         /\ up
         /\ answer' = NoAnswer
         /\ UNCHANGED <<now, snapshots, outcomes, decided>>
<1>1. ASSUME NEW rider \in PartialState, NEW claimed \in SUBSET Cell, NEW prior \in State,
             Adopt(rider, claimed, prior)
      PROVE  WritesBesideTurns
  <2> DEFINE applied == {c \in DOMAIN rider : c \in claimed => prior[c] = mem.cells[c]}
             written == [c \in applied |-> rider[c]]
  <2>1. PICK S \in SUBSET Cell : rider \in [S -> Value]
    BY DEF PartialState
  <2>2. applied \in SUBSET Cell /\ written \in [applied -> Value]
    BY <2>1
  <2>3. CanAdvance /\ Persist(advanced(mem, written))
    BY <1>1 DEF Adopt
  <2> HIDE DEF applied, written
  <2> QED
    BY <2>2, <2>3 DEF WritesBesideTurns
<1>2. ASSUME NEW fixed \in PartialState, OrderedRepair(fixed)
      PROVE  WritesBesideTurns
  <2> DEFINE changed == {c \in DOMAIN fixed : fixed[c] # mem.cells[c]}
             written == [c \in changed |-> fixed[c]]
  <2>1. PICK S \in SUBSET Cell : fixed \in [S -> Value]
    BY DEF PartialState
  <2>2. changed \in SUBSET Cell /\ written \in [changed -> Value]
    BY <2>1
  <2>3. CanAdvance /\ Persist(advanced(mem, written))
    BY <1>2 DEF OrderedRepair
  <2> HIDE DEF changed, written
  <2> QED
    BY <2>2, <2>3 DEF WritesBesideTurns
<1>3. ASSUME RelationEvent PROVE WritesBesideTurns
  <2> DEFINE written == [c \in {} |-> mem.cells[c]]
  <2>1. {} \in SUBSET Cell /\ written \in [{} -> Value]
    OBVIOUS
  <2>2. CanAdvance /\ Persist(advanced(mem, written))
    BY <1>3 DEF RelationEvent
  <2> HIDE DEF written
  <2> QED
    BY <2>1, <2>2 DEF WritesBesideTurns
<1>4. ASSUME NEW seeded \in PartialState, Seed(seeded) PROVE WritesBesideTurns
  BY <1>4 DEF Seed, PartialState, WritesBesideTurns
<1>5. ASSUME NEW v \in Value, OperatorActivationWrite(v) PROVE WritesBesideTurns
  <2> DEFINE written == [c \in {ActivationCell} |-> v]
  <2>1. {ActivationCell} \in SUBSET Cell /\ written \in [{ActivationCell} -> Value]
    BY SequencerAssumption
  <2>2. mem.head.generation < MaxGeneration /\ Persist(regenerated(mem, written))
    BY <1>5 DEF OperatorActivationWrite
  <2> HIDE DEF written
  <2> QED
    BY <2>1, <2>2 DEF WritesBesideTurns
<1>6. WritesBesideTurns
  BY <1>1, <1>2, <1>3, <1>4, <1>5 DEF OtherWriter
<1> QED
  BY <1>6 DEF OtherWriter, Adopt, OrderedRepair, RelationEvent, Seed, OperatorActivationWrite

\* The state always has its type: bounded heads, tails inside the log, rows
\* and outcomes of known keys (every operation of class ScopeSequencer).
THEOREM TypeCorrect == Spec => []TypeOK
<1>1. Init => TypeOK
  <2> SUFFICES ASSUME Init PROVE TypeOK
    OBVIOUS
  <2>1. PICK cells \in State : mem = Genesis(cells)
    BY DEF Init
  <2>2. [seq |-> 0, generation |-> 0] \in ScopeHead
    BY SequencerAssumption DEF ScopeHead
  <2>3. mem \in Authority
    BY <2>1, <2>2 DEF Genesis, Authority
  <2>4. now \in 0..MaxClock /\ decided \in 0..MaxOutcomes
    BY SequencerAssumption DEF Init
  <2> QED
    BY <2>3, <2>4 DEF Init, TypeOK, Answer
<1>2. TypeOK /\ [Next]_vars => TypeOK'
  <2> SUFFICES ASSUME TypeOK, [Next]_vars PROVE TypeOK'
    OBVIOUS
  <2>1. ASSUME NEW p \in Submits, Replay(p) PROVE TypeOK'
    <3>1. p \in SubmitType
      BY SubmitShape
    <3>2. PICK r \in recordedReply(mem.replies, p.key) :
            answer' = [n |-> r.n, key |-> p.key, request |-> p.request,
                       stamped |-> r.stamped /\ p.stamped,
                       shown |-> /\ r.payload
                                 /\ ActorOf(r.request) = ActorOf(p.request)]
      BY <2>1 DEF Replay
    <3>3. r \in Reply
      BY <3>2 DEF recordedReply, TypeOK, Authority
    <3>4. /\ r.n \in 1..MaxOutcomes /\ p.key \in Key /\ p.request \in Request
          /\ (r.stamped /\ p.stamped) \in BOOLEAN
          /\ (r.payload /\ ActorOf(r.request) = ActorOf(p.request)) \in BOOLEAN
      BY <3>1, <3>3 DEF Reply, SubmitType
    <3>5. answer' \in Answer
      BY <3>2, <3>4 DEF Answer
    <3> QED
      BY <2>1, <3>5 DEF Replay, TypeOK
  <2>2. ASSUME NEW p \in Submits, Conflict(p) PROVE TypeOK'
    BY <2>2 DEF Conflict, TypeOK, Answer
  <2>3. ASSUME NEW p \in Submits, RefuseUnrecorded(p) PROVE TypeOK'
    <3>1. dropExpired(mem.replies, p.key) \subseteq Reply
      BY DEF dropExpired, TypeOK, Authority
    <3>2. mem' \in Authority /\ durable' \in Authority /\ up' \in BOOLEAN
      BY <2>3, <3>1, RepliesType, PersistType DEF RefuseUnrecorded
    <3> QED
      BY <2>3, <3>2 DEF RefuseUnrecorded, TypeOK, Answer
  <2>4. ASSUME NEW p \in Submits, RejectTerminal(p) PROVE TypeOK'
    <3> DEFINE kept == dropExpired(mem.replies, p.key)
               row == ReplyRow(p, "rejected", mem.head.seq, FALSE)
    <3>1. p \in SubmitType /\ decided < MaxOutcomes /\ Decide(p, "rejected", mem.head.seq)
      BY <2>4, SubmitShape DEF RejectTerminal, Decide
    <3>2. mem.head.seq \in 0..MaxSeq /\ mem.head.seq \in Int
      BY DEF TypeOK, Authority, ScopeHead
    <3>3. row \in Reply
      BY <3>1, <3>2, RowType
    <3>4. recordReply(kept, row, mem.head.seq) \subseteq Reply
      BY <3>2, <3>3, RecordType
    <3>5. Persist([mem EXCEPT !.replies = recordReply(kept, row, mem.head.seq)])
      BY <2>4 DEF RejectTerminal
    <3>6. mem' \in Authority /\ durable' \in Authority /\ up' \in BOOLEAN
      BY <3>4, <3>5, RepliesType, PersistType
    <3>7. outcomes' \subseteq Outcome /\ decided' \in 0..MaxOutcomes
      BY <3>1, <3>2, DecideType
    <3> QED
      BY <2>4, <3>6, <3>7 DEF RejectTerminal, TypeOK, Answer
  <2>5. ASSUME NEW p \in Submits, DirectRead(p) PROVE TypeOK'
    <3> DEFINE kept == dropExpired(mem.replies, p.key)
               row == ReplyRow(p, "accepted", mem.head.seq, TRUE)
    <3>1. p \in SubmitType
      BY SubmitShape
    <3>2. mem.head.seq \in 0..MaxSeq /\ mem.head.seq \in Int
      BY DEF TypeOK, Authority, ScopeHead
    <3>3. CASE p.retry
      <4>1. decided < MaxOutcomes /\ Decide(p, "read", mem.head.seq)
        BY <2>5, <3>3 DEF DirectRead, Decide
      <4>2. row \in Reply
        BY <3>1, <3>2, <4>1, RowType
      <4>3. recordReply(kept, row, mem.head.seq) \subseteq Reply
        BY <3>2, <4>2, RecordType
      <4>4. Persist([mem EXCEPT !.replies = recordReply(kept, row, mem.head.seq)])
        BY <2>5, <3>3 DEF DirectRead
      <4>5. mem' \in Authority /\ durable' \in Authority /\ up' \in BOOLEAN
        BY <4>3, <4>4, RepliesType, PersistType
      <4>6. outcomes' \subseteq Outcome /\ decided' \in 0..MaxOutcomes
        BY <3>1, <3>2, <4>1, DecideType
      <4> QED
        BY <2>5, <4>5, <4>6 DEF DirectRead, TypeOK, Answer
    <3>4. CASE ~p.retry
      <4>1. kept \subseteq Reply
        BY DEF dropExpired, TypeOK, Authority
      <4>2. Persist([mem EXCEPT !.replies = kept]) /\ UNCHANGED <<outcomes, decided>>
        BY <2>5, <3>4 DEF DirectRead
      <4>3. mem' \in Authority /\ durable' \in Authority /\ up' \in BOOLEAN
        BY <4>1, <4>2, RepliesType, PersistType
      <4> QED
        BY <2>5, <4>2, <4>3 DEF DirectRead, TypeOK, Answer
    <3> QED
      BY <3>3, <3>4
  <2>6. ASSUME NEW p \in Submits, Commit(p) PROVE TypeOK'
    <3>1. /\ p \in SubmitType /\ CanAdvance /\ decided < MaxOutcomes
          /\ Decide(p, "committed", mem.head.seq + 1) /\ Persist(Committed(p))
      BY <2>6, SubmitShape DEF Commit, Decide
    <3>2. mem.head.seq + 1 \in 0..MaxSeq
      BY <3>1, SequencerAssumption DEF CanAdvance, TypeOK, Authority, ScopeHead
    <3>3. mem' \in Authority /\ durable' \in Authority /\ up' \in BOOLEAN
      BY <3>1, CommittedShape, PersistType
    <3>4. outcomes' \subseteq Outcome /\ decided' \in 0..MaxOutcomes
      BY <3>1, <3>2, DecideType
    <3> QED
      BY <2>6, <3>3, <3>4 DEF Commit, TypeOK, Answer
  <2>7. ASSUME NEW p \in Submits, CommitAborts(p) PROVE TypeOK'
    BY <2>7 DEF CommitAborts, TypeOK, Answer
  <2>8. ASSUME OtherWriter PROVE TypeOK'
    <3>1. PICK S \in SUBSET Cell : \E written \in [S -> Value] :
            \/ CanAdvance /\ Persist(advanced(mem, written))
            \/ mem.head.generation < MaxGeneration /\ Persist(regenerated(mem, written))
      BY <2>8, OtherWriterShape DEF WritesBesideTurns
    <3>2. mem' \in Authority /\ durable' \in Authority /\ up' \in BOOLEAN
      BY <3>1, AdvancedShape, RegeneratedShape, PersistType DEF CanAdvance, TypeOK
    <3> QED
      BY <2>8, <3>2, OtherWriterShape DEF TypeOK, Answer
  <2>9. ASSUME ServeClosure PROVE TypeOK'
    <3>1. snapshots' \subseteq Snapshot
      BY <2>9 DEF ServeClosure, TypeOK, Snapshot, Authority
    <3> QED
      BY <2>9, <3>1 DEF ServeClosure, TypeOK, Answer
  <2>10. ASSUME Evict \/ Hydrate PROVE TypeOK'
    BY <2>10 DEF Evict, Hydrate, TypeOK, Answer
  <2>11. ASSUME Tick PROVE TypeOK'
    <3>1. now' \in 0..MaxClock
      BY <2>11, SequencerAssumption DEF Tick, TypeOK
    <3> QED
      BY <2>11, <3>1 DEF Tick, TypeOK, Answer
  <2>12. ASSUME UNCHANGED vars PROVE TypeOK'
    BY <2>12 DEF vars, TypeOK
  <2> QED
    BY <2>1, <2>2, <2>3, <2>4, <2>5, <2>6, <2>7, <2>8, <2>9, <2>10, <2>11, <2>12
       DEF Next, OtherWriter
<1> QED
  BY <1>1, <1>2, PTL DEF Spec

(***************************************************************************)
(* Idempotency.  Every step has one of four shapes as far as the replies   *)
(* and the outcomes are concerned: it records an outcome, it only looks a  *)
(* key up, it leaves the replies alone, or it leaves all storage alone.    *)
(***************************************************************************)
RecordsAs(p, st, rst, seq, receipt) ==
  /\ Admitted(p)
  /\ Decide(p, st, seq)
  /\ durable'.replies = recordReply(dropExpired(mem.replies, p.key),
                                    ReplyRow(p, rst, seq, receipt), seq)
  /\ durable'.head.seq = seq /\ seq >= mem.head.seq
  /\ st = "committed" => rst = "accepted" /\ receipt = FALSE
  /\ st = "rejected" => rst = "rejected"
  /\ rst = "accepted" /\ receipt = FALSE => seq > mem.head.seq

Records ==
  \E p \in SubmitType, st \in {"committed", "read", "rejected"},
     rst \in {"accepted", "rejected"}, seq \in 0..MaxSeq, receipt \in BOOLEAN :
    RecordsAs(p, st, rst, seq, receipt)

LooksUp ==
  /\ \E k \in Key : durable'.replies = dropExpired(mem.replies, k)
  /\ durable'.head.seq = mem.head.seq
  /\ UNCHANGED <<outcomes, decided>>

KeepsReplies ==
  /\ durable'.replies = mem.replies
  /\ durable'.head.seq >= mem.head.seq
  /\ UNCHANGED <<outcomes, decided>>

\* Every submit and every other writer moves memory and storage together and
\* has one of the first three shapes.
LEMMA WriterShape ==
  ASSUME TypeOK,
         \/ \E p \in Submits : RefuseUnrecorded(p) \/ RejectTerminal(p)
                                \/ DirectRead(p) \/ Commit(p)
         \/ OtherWriter
  PROVE  /\ up /\ up' /\ mem' = durable' /\ now' = now /\ answer' = NoAnswer
         /\ Records \/ LooksUp \/ KeepsReplies
<1>0. mem.head.seq \in 0..MaxSeq /\ mem.head.seq \in Int /\ mem.replies \subseteq Reply
  BY DEF TypeOK, Authority, ScopeHead
<1>1. ASSUME NEW p \in Submits, RefuseUnrecorded(p)
      PROVE  /\ up /\ up' /\ mem' = durable' /\ now' = now /\ answer' = NoAnswer
             /\ LooksUp
  <2>1. p.key \in Key
    BY SubmitShape DEF SubmitType
  <2>2. dropExpired(mem.replies, p.key) \subseteq Reply
    BY <1>0 DEF dropExpired
  <2> QED
    BY <1>1, <2>1, <2>2, RepliesType DEF RefuseUnrecorded, LooksUp, Persist
<1>2. ASSUME NEW p \in Submits, RejectTerminal(p)
      PROVE  /\ up /\ up' /\ mem' = durable' /\ now' = now /\ answer' = NoAnswer
             /\ Records
  <2> DEFINE R == recordReply(dropExpired(mem.replies, p.key),
                              ReplyRow(p, "rejected", mem.head.seq, FALSE), mem.head.seq)
  <2>1. /\ p \in SubmitType /\ Admitted(p) /\ decided < MaxOutcomes
        /\ Decide(p, "rejected", mem.head.seq)
        /\ durable' = [mem EXCEPT !.replies = R]
    BY <1>2, SubmitShape DEF Persist, RejectTerminal, Decide
  <2>2. ReplyRow(p, "rejected", mem.head.seq, FALSE) \in Reply
    BY <1>0, <2>1, RowType
  <2>3. R \subseteq Reply
    BY <1>0, <2>2, RecordType
  <2>4. durable'.replies = R /\ durable'.head.seq = mem.head.seq
    BY <2>1, <2>3, RepliesType
  <2>5. RecordsAs(p, "rejected", "rejected", mem.head.seq, FALSE)
    BY <1>0, <2>1, <2>4 DEF RecordsAs
  <2>6. Records
    BY <1>0, <2>1, <2>5 DEF Records
  <2> QED
    BY <1>2, <2>6 DEF Persist, RejectTerminal
<1>3. ASSUME NEW p \in Submits, DirectRead(p)
      PROVE  /\ up /\ up' /\ mem' = durable' /\ now' = now /\ answer' = NoAnswer
             /\ Records \/ LooksUp
  <2> DEFINE K == dropExpired(mem.replies, p.key)
             R == recordReply(K, ReplyRow(p, "accepted", mem.head.seq, TRUE), mem.head.seq)
  <2>1. p \in SubmitType /\ p.key \in Key
    BY SubmitShape DEF SubmitType
  <2>2. CASE p.retry
    <3>1. /\ Admitted(p) /\ decided < MaxOutcomes /\ Decide(p, "read", mem.head.seq)
          /\ durable' = [mem EXCEPT !.replies = R]
      BY <1>3, <2>2 DEF Persist, DirectRead, Decide
    <3>2. ReplyRow(p, "accepted", mem.head.seq, TRUE) \in Reply
      BY <1>0, <2>1, <3>1, RowType
    <3>3. R \subseteq Reply
      BY <1>0, <3>2, RecordType
    <3>4. durable'.replies = R /\ durable'.head.seq = mem.head.seq
      BY <3>1, <3>3, RepliesType
    <3>5. RecordsAs(p, "read", "accepted", mem.head.seq, TRUE)
      BY <1>0, <3>1, <3>4 DEF RecordsAs
    <3>6. Records
      BY <1>0, <2>1, <3>5 DEF Records
    <3> QED
      BY <1>3, <3>6, <2>2 DEF Persist, DirectRead
  <2>3. CASE ~p.retry
    <3>1. durable' = [mem EXCEPT !.replies = K] /\ UNCHANGED <<outcomes, decided>>
      BY <1>3, <2>3 DEF Persist, DirectRead
    <3>2. K \subseteq Reply
      BY <1>0 DEF dropExpired
    <3>3. LooksUp
      BY <2>1, <3>1, <3>2, RepliesType DEF LooksUp
    <3> QED
      BY <1>3, <3>3, <2>3 DEF Persist, DirectRead
  <2> QED
    BY <2>2, <2>3
<1>4. ASSUME NEW p \in Submits, Commit(p)
      PROVE  /\ up /\ up' /\ mem' = durable' /\ now' = now /\ answer' = NoAnswer
             /\ Records
  <2>1. /\ p \in SubmitType /\ Admitted(p) /\ CanAdvance /\ decided < MaxOutcomes
        /\ Decide(p, "committed", mem.head.seq + 1) /\ durable' = Committed(p)
    BY <1>4, SubmitShape DEF Persist, Commit, Accepts, Decide
  <2>2. mem.head.seq + 1 \in 0..MaxSeq /\ mem.head.seq + 1 >= mem.head.seq
        /\ mem.head.seq + 1 > mem.head.seq
    BY <1>0, <2>1, SequencerAssumption DEF CanAdvance
  <2>3. /\ durable'.head.seq = mem.head.seq + 1
        /\ durable'.replies = recordReply(dropExpired(mem.replies, p.key),
                          ReplyRow(p, "accepted", mem.head.seq + 1, FALSE),
                          mem.head.seq + 1)
    <3>1. durable'.head = [seq |-> mem.head.seq + 1, generation |-> mem.head.generation + 1]
      BY <2>1, CommittedShape, Zenon
    <3>2. durable'.head.seq = mem.head.seq + 1
      BY <3>1
    <3> QED
      BY <2>1, <3>2, CommittedShape, Zenon
  <2>4. RecordsAs(p, "committed", "accepted", mem.head.seq + 1, FALSE)
    BY <2>1, <2>2, <2>3 DEF RecordsAs
  <2>5. Records
    BY <2>1, <2>2, <2>4 DEF Records
  <2> QED
    BY <1>4, <2>5 DEF Persist, Commit
<1>5. ASSUME OtherWriter
      PROVE  /\ up /\ up' /\ mem' = durable' /\ now' = now /\ answer' = NoAnswer
             /\ KeepsReplies
  <2>0. PICK S \in SUBSET Cell : \E written \in [S -> Value] :
          \/ CanAdvance /\ Persist(advanced(mem, written))
          \/ mem.head.generation < MaxGeneration /\ Persist(regenerated(mem, written))
    BY <1>5, OtherWriterShape DEF WritesBesideTurns
  <2>1. PICK written \in [S -> Value] :
          \/ CanAdvance /\ Persist(advanced(mem, written))
          \/ mem.head.generation < MaxGeneration /\ Persist(regenerated(mem, written))
    BY <2>0
  <2>2. CASE CanAdvance /\ Persist(advanced(mem, written))
    <3>1. mem \in Authority /\ mem.head.seq < MaxSeq /\ mem.head.generation < MaxGeneration
      BY <2>2 DEF TypeOK, CanAdvance
    <3>2. /\ durable'.replies = mem.replies
          /\ durable'.head = [seq |-> mem.head.seq + 1,
                              generation |-> mem.head.generation + 1]
      BY <2>2, <3>1, AdvancedShape, Zenon DEF Persist
    <3>3. mem' = durable' /\ up' = up
      BY <2>2 DEF Persist
    <3> QED
      BY <1>0, <1>5, <3>2, <3>3, OtherWriterShape DEF KeepsReplies
  <2>3. CASE mem.head.generation < MaxGeneration /\ Persist(regenerated(mem, written))
    <3>1. /\ durable'.replies = mem.replies
          /\ durable'.head = [seq |-> mem.head.seq, generation |-> mem.head.generation + 1]
      BY <2>3, RegeneratedShape, Zenon DEF Persist
    <3>2. mem' = durable' /\ up' = up
      BY <2>3 DEF Persist
    <3> QED
      BY <1>0, <1>5, <3>1, <3>2, OtherWriterShape DEF KeepsReplies
  <2> QED
    BY <2>1, <2>2, <2>3
<1> QED
  BY <1>1, <1>2, <1>3, <1>4, <1>5

(***************************************************************************)
(* The inductive invariant behind the idempotency promises.                *)
(***************************************************************************)

\* Memory never runs ahead of storage (discardSeqOnThrow, hydration).
Coherent == up => mem = durable

\* Outcomes are numbered in the order of their decision.
Numbered == \A o \in outcomes : o.n <= decided /\ o.at <= now

\* A row that records outcome o, and stays advancing when o is a commit.
RecordOf(r, o) ==
  /\ r.key = o.key /\ r.n = o.n /\ r.at = o.at
  /\ r.guaranteed = o.guaranteed /\ r.seq = o.seq
  /\ o.status = "committed" => ~isNonAdvancingReply(r)

\* What a quota may not take has a row.
ProtectedKept ==
  \A o \in outcomes :
    /\ now < o.at + Lease
    /\ \/ o.guaranteed
       \/ o.status = "committed" /\ o.seq > durable.head.seq - TailLimit
    => \E r \in durable.replies : RecordOf(r, o)

\* A row stands for an outcome that was decided.
RowIsOutcome(r, o) ==
  /\ o.n = r.n /\ o.key = r.key /\ o.request = r.request
  /\ r.payload => o.status # "rejected"

RowsDecided == \A r \in durable.replies : \E o \in outcomes : RowIsOutcome(r, o)

IdempotencyInv ==
  /\ TypeOK /\ Coherent /\ Numbered /\ ProtectedKept /\ RowsDecided
  /\ OneOutcomePerKey /\ ReplayAnswersItsRequest

\* Recording an outcome keeps the invariant: the new row survives its own
\* prune, and the rows that may not be lost survive with it.
LEMMA RecordKeepsInv ==
  ASSUME IdempotencyInv, TypeOK', up, up', mem' = durable', now' = now,
         answer' = NoAnswer, Records
  PROVE  IdempotencyInv'
<1>1. PICK p \in SubmitType, st \in {"committed", "read", "rejected"},
           rst \in {"accepted", "rejected"}, seq \in 0..MaxSeq, receipt \in BOOLEAN :
        RecordsAs(p, st, rst, seq, receipt)
  BY DEF Records
<1> DEFINE row == ReplyRow(p, rst, seq, receipt)
           kept == dropExpired(durable.replies, p.key)
           o == [n |-> decided + 1, key |-> p.key, request |-> p.request,
                 status |-> st, seq |-> seq, guaranteed |-> p.retry, at |-> now]
<1>2. mem = durable
  BY DEF IdempotencyInv, Coherent
<1>3. /\ recordedReply(durable.replies, p.key) = {}
      /\ decided < MaxOutcomes /\ decided' = decided + 1
      /\ outcomes' = outcomes \cup {o}
      /\ durable'.replies = pruneReplies(kept \cup {row}, seq, now)
      /\ durable'.head.seq = seq /\ seq >= durable.head.seq
      /\ st = "committed" => rst = "accepted" /\ receipt = FALSE
      /\ st = "rejected" => rst = "rejected"
  BY <1>1, <1>2 DEF RecordsAs, Admitted, Decide, recordReply
<1>4. /\ durable.replies \subseteq Reply /\ now \in Int /\ decided \in Int
      /\ outcomes \subseteq Outcome /\ outcomes' \subseteq Outcome
      /\ durable.head.seq \in Int /\ seq \in Int /\ Lease \in Nat /\ TailLimit \in Nat
  BY SequencerAssumption DEF IdempotencyInv, TypeOK, Authority, ScopeHead
<1>5. row \in Reply
  BY <1>3, RowType DEF IdempotencyInv
<1>6. kept \cup {row} \subseteq Reply
  BY <1>4, <1>5 DEF dropExpired
<1>7. \A r \in kept \cup {row} :
        ~replyExpired(r, now) /\ Protected(r, seq) =>
          \E s \in durable'.replies : SameRow(r, s)
  <2> DEFINE all == kept \cup {row}
  <2>1. all \subseteq Reply /\ durable'.replies = pruneReplies(all, seq, now)
    BY <1>3, <1>6
  <2> HIDE DEF all
  <2>2. \A r \in all : ~replyExpired(r, now) /\ Protected(r, seq) =>
          \E s \in pruneReplies(all, seq, now) : SameRow(r, s)
    BY <1>4, <2>1, PruneKeepsProtected, Zenon
  <2> QED
    BY <2>1, <2>2, Zenon DEF all
<1>8. \A s \in durable'.replies :
        \E r \in kept \cup {row} : SameRow(r, s) /\ (s.payload => r.payload)
  BY <1>3, <1>4, <1>6, PruneKeepsProtected
<1>9. Coherent' /\ ReplayAnswersItsRequest'
  BY DEF Coherent, ReplayAnswersItsRequest, NoAnswer
<1>10. Numbered'
  BY <1>3, <1>4 DEF IdempotencyInv, Numbered, Outcome
<1>11. ProtectedKept'
  <2> SUFFICES ASSUME NEW x \in outcomes', now < x.at + Lease,
                      \/ x.guaranteed
                      \/ x.status = "committed" /\ x.seq > seq - TailLimit
               PROVE  \E s \in durable'.replies : RecordOf(s, x)
    BY <1>3 DEF ProtectedKept
  <2>1. ASSUME NEW r \in kept \cup {row}, RecordOf(r, x)
        PROVE  \E s \in durable'.replies : RecordOf(s, x)
    <3>1. ~replyExpired(r, now)
      BY <1>4, <1>6, <2>1 DEF replyExpired, RecordOf, Reply, Outcome
    <3>2. Protected(r, seq)
      BY <1>4, <1>6, <2>1 DEF Protected, RecordOf
    <3>3. PICK s \in durable'.replies : SameRow(r, s)
      BY <1>7, <2>1, <3>1, <3>2
    <3> QED
      BY <2>1, <3>3 DEF SameRow, RecordOf, isNonAdvancingReply
  <2>2. CASE x \in outcomes
    <3>1. x.status = "committed" /\ x.seq > seq - TailLimit
            => x.seq > durable.head.seq - TailLimit
      BY <1>3, <1>4, <2>2 DEF Outcome
    <3>2. PICK r \in durable.replies : RecordOf(r, x)
      BY <2>2, <3>1 DEF IdempotencyInv, ProtectedKept
    <3>3. r \in kept
      BY <1>4, <3>2, <2>2 DEF dropExpired, replyExpired, RecordOf, Reply, Outcome
    <3> QED
      BY <2>1, <3>2, <3>3
  <2>3. CASE x = o
    <3>1. RecordOf(row, o)
      BY <1>3 DEF RecordOf, ReplyRow, isNonAdvancingReply
    <3> QED
      BY <2>1, <2>3, <3>1
  <2> QED
    BY <1>3, <2>2, <2>3
<1>12. RowsDecided'
  <2> SUFFICES ASSUME NEW s \in durable'.replies
               PROVE  \E x \in outcomes' : RowIsOutcome(s, x)
    BY DEF RowsDecided
  <2>1. PICK r \in kept \cup {row} : SameRow(r, s) /\ (s.payload => r.payload)
    BY <1>8
  <2>2. \E x \in outcomes' : RowIsOutcome(r, x)
    <3>1. CASE r \in kept
      BY <1>3, <3>1 DEF IdempotencyInv, RowsDecided, dropExpired
    <3>2. CASE r = row
      <4>1. row.payload => rst = "accepted"
        BY Zenon DEF ReplyRow
      <4>2. row.payload => o.status # "rejected"
        BY <1>3, <4>1
      <4>3. o.n = row.n /\ o.key = row.key /\ o.request = row.request
        BY DEF ReplyRow
      <4> QED
        BY <1>3, <3>2, <4>2, <4>3 DEF RowIsOutcome
    <3> QED
      BY <2>1, <3>1, <3>2
  <2> QED
    BY <2>1, <2>2 DEF SameRow, RowIsOutcome
<1>13. OneOutcomePerKey'
  <2> SUFFICES ASSUME NEW o1 \in outcomes', NEW o2 \in outcomes',
                      o1.key = o2.key, o1.guaranteed, o1.n < o2.n
               PROVE  o1.at + Lease <= o2.at
    BY DEF OneOutcomePerKey
  <2>1. CASE o1 \in outcomes /\ o2 \in outcomes
    BY <2>1 DEF IdempotencyInv, OneOutcomePerKey
  <2>2. CASE o1 = o
    BY <1>3, <1>4, <2>2 DEF IdempotencyInv, Numbered, Outcome
  <2>3. CASE o1 \in outcomes /\ o2 = o
    <3>1. SUFFICES ASSUME now < o1.at + Lease PROVE FALSE
      BY <1>4, <2>3 DEF Outcome
    <3>2. PICK r \in durable.replies : RecordOf(r, o1)
      BY <2>3, <3>1 DEF IdempotencyInv, ProtectedKept
    <3>3. ~replyExpired(r, now)
      BY <1>4, <2>3, <3>1, <3>2 DEF replyExpired, RecordOf, Reply, Outcome
    <3>4. r.key = p.key
      BY <2>3, <3>2 DEF RecordOf
    <3> QED
      BY <1>3, <3>2, <3>3, <3>4 DEF recordedReply
  <2> QED
    BY <1>3, <2>1, <2>2, <2>3
<1> QED
  BY <1>9, <1>10, <1>11, <1>12, <1>13 DEF IdempotencyInv

\* So does a step that drops an expired row, or that touches no row.
LEMMA NoRecordKeepsInv ==
  ASSUME IdempotencyInv, TypeOK', up, up', mem' = durable', now' = now,
         answer' = NoAnswer, LooksUp \/ KeepsReplies
  PROVE  IdempotencyInv'
<1>1. mem = durable
  BY DEF IdempotencyInv, Coherent
<1>2. /\ durable.replies \subseteq Reply /\ now \in Int /\ outcomes \subseteq Outcome
      /\ durable.head.seq \in Int /\ durable'.head.seq \in Int
      /\ Lease \in Nat /\ TailLimit \in Nat
  BY SequencerAssumption DEF IdempotencyInv, TypeOK, Authority, ScopeHead
<1>3. /\ outcomes' = outcomes /\ decided' = decided
      /\ durable'.head.seq >= durable.head.seq
      /\ durable'.replies \subseteq durable.replies
      /\ \A r \in durable.replies : ~replyExpired(r, now) => r \in durable'.replies
  BY <1>1, <1>2 DEF LooksUp, KeepsReplies, dropExpired
<1>4. ProtectedKept'
  <2> SUFFICES ASSUME NEW x \in outcomes, now < x.at + Lease,
                      \/ x.guaranteed
                      \/ x.status = "committed" /\ x.seq > durable'.head.seq - TailLimit
               PROVE  \E s \in durable'.replies : RecordOf(s, x)
    BY <1>3 DEF ProtectedKept
  <2>1. x.status = "committed" /\ x.seq > durable'.head.seq - TailLimit
          => x.seq > durable.head.seq - TailLimit
    BY <1>2, <1>3 DEF Outcome
  <2>2. PICK r \in durable.replies : RecordOf(r, x)
    BY <2>1 DEF IdempotencyInv, ProtectedKept
  <2>3. ~replyExpired(r, now)
    BY <1>2, <2>2 DEF replyExpired, RecordOf, Reply, Outcome
  <2> QED
    BY <1>3, <2>2, <2>3
<1>5. RowsDecided'
  BY <1>3 DEF IdempotencyInv, RowsDecided
<1>6. Coherent' /\ ReplayAnswersItsRequest'
  BY DEF Coherent, ReplayAnswersItsRequest, NoAnswer
<1>7. Numbered' /\ OneOutcomePerKey'
  BY <1>3 DEF IdempotencyInv, Numbered, OneOutcomePerKey
<1> QED
  BY <1>4, <1>5, <1>6, <1>7 DEF IdempotencyInv

\* A replayed answer names the outcome of the row it came from.
LEMMA ReplayKeepsInv ==
  ASSUME IdempotencyInv, TypeOK', NEW p \in Submits, Replay(p)
  PROVE  IdempotencyInv'
<1>1. PICK r \in recordedReply(mem.replies, p.key) :
        /\ ~(r.stamped /\ p.stamped /\ r.request # p.request)
        /\ answer' = [n |-> r.n, key |-> p.key, request |-> p.request,
                      stamped |-> r.stamped /\ p.stamped,
                      shown |-> /\ r.payload
                                /\ ActorOf(r.request) = ActorOf(p.request)]
  BY DEF Replay
<1>2. r \in durable.replies /\ r.key = p.key
  BY DEF Replay, recordedReply, IdempotencyInv, Coherent
<1>3. PICK o \in outcomes : RowIsOutcome(r, o)
  BY <1>2 DEF IdempotencyInv, RowsDecided
<1>4. /\ answer'.n = r.n /\ answer'.key = p.key /\ answer'.request = p.request
      /\ answer'.stamped => r.stamped /\ p.stamped
      /\ answer'.shown => r.payload /\ ActorOf(r.request) = ActorOf(p.request)
  BY <1>1, Zenon
<1>5. /\ o.n = answer'.n /\ o.key = answer'.key
      /\ answer'.stamped => o.request = answer'.request
      /\ answer'.shown => /\ o.status # "rejected"
                          /\ ActorOf(o.request) = ActorOf(answer'.request)
  BY <1>1, <1>2, <1>3, <1>4, Zenon DEF RowIsOutcome
<1>6. UNCHANGED <<mem, durable, up, now, outcomes, decided>>
  BY DEF Replay
<1>7. ReplayAnswersItsRequest'
  BY <1>5, <1>6 DEF ReplayAnswersItsRequest
<1>8. /\ Coherent' /\ Numbered' /\ ProtectedKept' /\ RowsDecided' /\ OneOutcomePerKey'
  BY <1>6 DEF IdempotencyInv, Coherent, Numbered, ProtectedKept, RowsDecided, OneOutcomePerKey
<1> QED
  BY <1>7, <1>8 DEF IdempotencyInv

\* Steps that leave storage and outcomes alone: conflicts, aborts, closures,
\* evictions, hydrations and the clock.
LEMMA QuietKeepsInv ==
  ASSUME IdempotencyInv, TypeOK', UNCHANGED <<durable, outcomes, decided>>, now' >= now,
         up' => mem' = durable', answer' \in {answer, NoAnswer}
  PROVE  IdempotencyInv'
<1>1. now \in Int /\ now' \in Int /\ outcomes \subseteq Outcome /\ Lease \in Nat
  BY SequencerAssumption DEF IdempotencyInv, TypeOK
<1>2. Coherent' /\ RowsDecided' /\ OneOutcomePerKey'
  BY DEF IdempotencyInv, Coherent, RowsDecided, OneOutcomePerKey
<1>3. Numbered'
  BY <1>1 DEF IdempotencyInv, Numbered, Outcome
<1>4. ProtectedKept'
  <2>1. \A o \in outcomes : now' < o.at + Lease => now < o.at + Lease
    BY <1>1 DEF Outcome
  <2> QED
    BY <2>1 DEF IdempotencyInv, ProtectedKept
<1>5. ReplayAnswersItsRequest'
  BY DEF IdempotencyInv, ReplayAnswersItsRequest, NoAnswer
<1> QED
  BY <1>2, <1>3, <1>4, <1>5 DEF IdempotencyInv

\* The idempotency invariant holds throughout.
THEOREM IdempotencyInvariant == Spec => []IdempotencyInv
<1>1. Init => IdempotencyInv
  <2> SUFFICES ASSUME Init PROVE IdempotencyInv
    OBVIOUS
  <2>1. TypeOK
    <3>1. PICK cells \in State : mem = Genesis(cells)
      BY DEF Init
    <3>2. [seq |-> 0, generation |-> 0] \in ScopeHead
      BY SequencerAssumption DEF ScopeHead
    <3>3. mem \in Authority
      BY <3>1, <3>2 DEF Genesis, Authority
    <3>4. now \in 0..MaxClock /\ decided \in 0..MaxOutcomes
      BY SequencerAssumption DEF Init
    <3> QED
      BY <3>3, <3>4 DEF Init, TypeOK, Answer
  <2>2. durable.replies = {}
    BY DEF Init, Genesis
  <2> QED
    BY <2>1, <2>2 DEF Init, IdempotencyInv, Coherent, Numbered, ProtectedKept,
       RowsDecided, OneOutcomePerKey, ReplayAnswersItsRequest, NoAnswer
<1>2. IdempotencyInv /\ TypeOK' /\ [Next]_vars => IdempotencyInv'
  <2> SUFFICES ASSUME IdempotencyInv, TypeOK', [Next]_vars PROVE IdempotencyInv'
    OBVIOUS
  <2>0. TypeOK /\ now \in Int
    BY DEF IdempotencyInv, TypeOK
  <2>1. ASSUME NEW p \in Submits, Replay(p) PROVE IdempotencyInv'
    BY <2>1, ReplayKeepsInv
  <2>2. ASSUME NEW p \in Submits, Conflict(p) PROVE IdempotencyInv'
    BY <2>0, <2>2, QuietKeepsInv DEF Conflict, IdempotencyInv, Coherent
  <2>3. ASSUME NEW p \in Submits,
               RefuseUnrecorded(p) \/ RejectTerminal(p) \/ DirectRead(p) \/ Commit(p)
        PROVE  IdempotencyInv'
    BY <2>0, <2>3, WriterShape, RecordKeepsInv, NoRecordKeepsInv
  <2>4. ASSUME NEW p \in Submits, CommitAborts(p) PROVE IdempotencyInv'
    BY <2>0, <2>4, QuietKeepsInv DEF CommitAborts
  <2>5. ASSUME OtherWriter PROVE IdempotencyInv'
    BY <2>0, <2>5, WriterShape, RecordKeepsInv, NoRecordKeepsInv
  <2>6. ASSUME ServeClosure PROVE IdempotencyInv'
    BY <2>0, <2>6, QuietKeepsInv DEF ServeClosure, IdempotencyInv, Coherent
  <2>7. ASSUME Evict PROVE IdempotencyInv'
    BY <2>0, <2>7, QuietKeepsInv DEF Evict
  <2>8. ASSUME Hydrate PROVE IdempotencyInv'
    BY <2>0, <2>8, QuietKeepsInv DEF Hydrate
  <2>9. ASSUME Tick PROVE IdempotencyInv'
    BY <2>0, <2>9, QuietKeepsInv DEF Tick, IdempotencyInv, Coherent
  <2>10. ASSUME UNCHANGED vars PROVE IdempotencyInv'
    BY <2>0, <2>10, QuietKeepsInv DEF vars, IdempotencyInv, Coherent
  <2> QED
    BY <2>1, <2>2, <2>3, <2>4, <2>5, <2>6, <2>7, <2>8, <2>9, <2>10 DEF Next, OtherWriter
<1> QED
  BY <1>1, <1>2, TypeCorrect, PTL DEF Spec

\* A client-chosen key is decided at most once per lease.
THEOREM KeyDecidedOnce == Spec => []OneOutcomePerKey
<1>1. IdempotencyInv => OneOutcomePerKey
  BY DEF IdempotencyInv
<1> QED
  BY <1>1, IdempotencyInvariant, PTL

\* A guaranteed outcome keeps its row for its whole lease, whatever the
\* quotas, through aborts and rehydrations.
THEOREM GuaranteeKept == Spec => []GuaranteedOutcomeRetained
<1>1. IdempotencyInv => GuaranteedOutcomeRetained
  BY DEF IdempotencyInv, ProtectedKept, GuaranteedOutcomeRetained, RecordOf
<1> QED
  BY <1>1, IdempotencyInvariant, PTL

\* A commit inside the recovery-tail window keeps its row for its lease.
THEOREM TailWindowKept == Spec => []TailRepliesRetained
<1>1. IdempotencyInv => TailRepliesRetained
  BY DEF IdempotencyInv, ProtectedKept, TailRepliesRetained, RecordOf
<1> QED
  BY <1>1, IdempotencyInvariant, PTL

\* A replay answers with an outcome decided under its key and request, and
\* shows no other actor's payload.
THEOREM ReplayFaithful == Spec => []ReplayAnswersItsRequest
<1>1. IdempotencyInv => ReplayAnswersItsRequest
  BY DEF IdempotencyInv
<1> QED
  BY <1>1, IdempotencyInvariant, PTL

(***************************************************************************)
(* The bound on the reply table.  A quota is stated as "fewer than K newer *)
(* rows", so the bound needs the rows to be told apart by what the quota   *)
(* compares: outcome numbers, and sequence numbers among commits.          *)
(***************************************************************************)

\* Members with fewer than K others above them number at most K.
LEMMA FewAbove ==
  ASSUME NEW R, IsFiniteSet(R), NEW f \in [R -> Nat],
         \A r, s \in R : f[r] = f[s] => r = s,
         NEW K \in Nat, NEW T \in SUBSET R,
         \A t \in T : Cardinality({s \in R : f[s] > f[t]}) < K
  PROVE  IsFiniteSet(T) /\ Cardinality(T) <= K
<1>0. IsFiniteSet(T) /\ Cardinality(T) \in Nat
  BY FS_Subset, FS_CardinalityType
<1>1. CASE T = {}
  BY <1>0, <1>1, FS_EmptySet
<1>2. CASE T # {}
  <2> DEFINE V == {f[t] : t \in T}
  <2>1. V \in SUBSET Nat /\ V # {}
    BY <1>2
  <2>2. \E x \in V : \A y \in V : x <= y
    BY <2>1, NatMin
  <2>3. PICK t \in T : \A u \in T : f[t] <= f[u]
    BY <2>2
  <2> DEFINE above == {s \in R : f[s] > f[t]}
  <2>4. T \ {t} \in SUBSET above
    <3>1. \A u \in T : f[u] \in Nat /\ u \in R
      OBVIOUS
    <3> QED
      BY <2>3, <3>1
  <2>5. IsFiniteSet(above) /\ Cardinality(above) \in Nat /\ Cardinality(above) < K
    <3>1. above \in SUBSET R
      OBVIOUS
    <3> QED
      BY <3>1, FS_Subset, FS_CardinalityType
  <2> HIDE DEF above
  <2>6. Cardinality(T \ {t}) <= Cardinality(above)
    BY <2>4, <2>5, FS_Subset
  <2>7. Cardinality(T \ {t}) = Cardinality(T) - 1
    BY <1>0, FS_RemoveElement
  <2> QED
    BY <1>0, <2>5, <2>6, <2>7
<1> QED
  BY <1>1, <1>2

\* An image has no more members than what it is an image of.
LEMMA ImageCount ==
  ASSUME NEW A, IsFiniteSet(A), NEW h, NEW B, \A b \in B : \E a \in A : b = h[a]
  PROVE  IsFiniteSet(B) /\ Cardinality(B) <= Cardinality(A)
<1> DEFINE g == [a \in A |-> h[a]]
           I == {h[a] : a \in A}
<1>1. g \in Surjection(A, I)
  BY DEF Surjection
<1>2. B \in SUBSET I
  OBVIOUS
<1> HIDE DEF g, I
<1>3. IsFiniteSet(I) /\ Cardinality(I) <= Cardinality(A)
  BY <1>1, FS_Surjection
<1>4. IsFiniteSet(B) /\ Cardinality(B) <= Cardinality(I)
  BY <1>2, <1>3, FS_Subset
<1> QED
  BY <1>3, <1>4, FS_CardinalityType

\* The quota on commits is the larger of ReplyLimit and the tail window.
LEMMA CommitQuota ==
  ASSUME NEW R, R \subseteq Reply, IsFiniteSet(R), NEW seq \in Int,
         \A r, s \in R : r.seq = s.seq => r = s,
         \A r \in R : r.seq <= seq
  PROVE  Cardinality(R \ overReplyLimit(R, seq)) <= MaxOf(ReplyLimit, TailLimit)
<1> DEFINE T == R \ overReplyLimit(R, seq)
           V == {t.seq : t \in T}
<1>0. /\ T \in SUBSET R /\ IsFiniteSet(T) /\ Cardinality(T) \in Nat
      /\ ReplyLimit \in Nat /\ TailLimit \in Nat
  BY FS_Subset, FS_CardinalityType, SequencerAssumption
<1>1. \A r \in R : r.seq \in Nat
  BY DEF Reply
<1>2. CASE T = {}
  BY <1>0, <1>2, FS_EmptySet DEF MaxOf
<1>3. CASE T # {}
  <2>1. V \in SUBSET Nat /\ V # {}
    BY <1>0, <1>1, <1>3
  <2>2. \E x \in V : \A y \in V : x <= y
    BY <2>1, NatMin
  <2>3. PICK t \in T : \A u \in T : t.seq <= u.seq
    BY <2>2
  <2> DEFINE newer == {s \in R : s.seq >= t.seq}
  <2>4. T \in SUBSET newer /\ newer \in SUBSET R
    BY <1>0, <1>1, <2>3
  <2>5. IsFiniteSet(newer) /\ Cardinality(newer) \in Nat
    BY <2>4, FS_Subset, FS_CardinalityType
  <2>6. t.seq > seq - TailLimit \/ Cardinality(newer) <= ReplyLimit
    <3>1. ~(t.seq <= seq - TailLimit /\ Cardinality(newer) > ReplyLimit)
      BY <1>0 DEF overReplyLimit
    <3>2. t.seq \in Nat
      BY <1>0, <1>1
    <3> QED
      BY <1>0, <2>5, <3>1, <3>2
  <2>7. CASE Cardinality(newer) <= ReplyLimit
    <3>1. Cardinality(T) <= Cardinality(newer)
      BY <2>4, <2>5, FS_Subset
    <3> HIDE DEF newer
    <3> QED
      BY <1>0, <2>5, <2>7, <3>1 DEF MaxOf
  <2>8. CASE t.seq > seq - TailLimit
    <3> DEFINE W == (seq - TailLimit + 1)..seq
               f == [u \in T |-> u.seq]
    <3>1. \A u \in T : u.seq \in W
      BY <1>0, <1>1, <2>3, <2>8
    <3>2. f \in Injection(T, W)
      BY <1>0, <3>1 DEF Injection, IsInjective
    <3>3. IsFiniteSet(W) /\ Cardinality(W) = TailLimit
      <4>1. seq - TailLimit + 1 \in Int
        BY <1>0
      <4>2. IsFiniteSet(W) /\ Cardinality(W) =
              IF seq - TailLimit + 1 > seq THEN 0 ELSE seq - (seq - TailLimit + 1) + 1
        BY <4>1, FS_Interval
      <4> QED
        BY <1>0, <4>2
    <3> HIDE DEF W, f, T
    <3>4. Cardinality(T) <= TailLimit
      BY <3>2, <3>3, FS_Injection
    <3> QED
      BY <1>0, <3>4 DEF MaxOf, T
  <2> QED
    BY <2>6, <2>7, <2>8
<1> QED
  BY <1>2, <1>3

guaranteedRows(R) == {r \in R : r.guaranteed}
receiptRows(R) == {r \in R : ~r.guaranteed /\ isNonAdvancingReply(r)}
commitRows(R) == {r \in R : ~r.guaranteed /\ ~isNonAdvancingReply(r)}
payloadRows(R) == {r \in R : r.payload}

\* Rows are told apart by their outcome, and commits by their place in the log.
RowsDistinct(R, seq) ==
  /\ IsFiniteSet(R)
  /\ \A r, s \in R : r.n = s.n => r = s
  /\ \A r \in R : r.payload => r.status = "accepted"
  /\ \A r \in R : ~isNonAdvancingReply(r) => r.seq <= seq
  /\ \A r, s \in R :
       ~isNonAdvancingReply(r) /\ ~isNonAdvancingReply(s) /\ r.seq = s.seq => r = s

WithinQuotas(R) ==
  /\ Cardinality(guaranteedRows(R)) <= GuaranteedOutcomeCapacity
  /\ Cardinality(receiptRows(R)) <= ReceiptLimit
  /\ Cardinality(commitRows(R)) <= MaxOf(ReplyLimit, TailLimit)
  /\ Cardinality(payloadRows(R)) <= RetainedPayloadCap

\* Rows that go away leave the rest within the quotas.
LEMMA FewerRows ==
  ASSUME NEW R, NEW Q \in SUBSET R, NEW seq \in Int, NEW top \in Int, seq <= top,
         R \subseteq Reply, RowsDistinct(R, seq), WithinQuotas(R)
  PROVE  RowsDistinct(Q, top) /\ WithinQuotas(Q)
<1>0. IsFiniteSet(R) /\ IsFiniteSet(Q)
  BY FS_Subset DEF RowsDistinct
<1>1. \A A, B : B \in SUBSET A /\ A \in SUBSET R =>
        /\ Cardinality(B) <= Cardinality(A)
        /\ Cardinality(B) \in Nat /\ Cardinality(A) \in Nat
  BY <1>0, FS_Subset, FS_CardinalityType
<1>2. \A r \in Q : r.seq \in Int
  BY DEF Reply
<1>3. RowsDistinct(Q, top)
  BY <1>0, <1>2 DEF RowsDistinct
<1>4. /\ guaranteedRows(Q) \in SUBSET guaranteedRows(R) /\ guaranteedRows(R) \in SUBSET R
      /\ receiptRows(Q) \in SUBSET receiptRows(R) /\ receiptRows(R) \in SUBSET R
      /\ commitRows(Q) \in SUBSET commitRows(R) /\ commitRows(R) \in SUBSET R
      /\ payloadRows(Q) \in SUBSET payloadRows(R) /\ payloadRows(R) \in SUBSET R
  BY DEF guaranteedRows, receiptRows, commitRows, payloadRows
<1>5. /\ GuaranteedOutcomeCapacity \in Nat /\ ReceiptLimit \in Nat
      /\ MaxOf(ReplyLimit, TailLimit) \in Nat /\ RetainedPayloadCap \in Nat
  BY SequencerAssumption DEF MaxOf
<1>6. /\ Cardinality(guaranteedRows(Q)) <= Cardinality(guaranteedRows(R))
      /\ Cardinality(receiptRows(Q)) <= Cardinality(receiptRows(R))
      /\ Cardinality(commitRows(Q)) <= Cardinality(commitRows(R))
      /\ Cardinality(payloadRows(Q)) <= Cardinality(payloadRows(R))
      /\ Cardinality(guaranteedRows(Q)) \in Nat /\ Cardinality(guaranteedRows(R)) \in Nat
      /\ Cardinality(receiptRows(Q)) \in Nat /\ Cardinality(receiptRows(R)) \in Nat
      /\ Cardinality(commitRows(Q)) \in Nat /\ Cardinality(commitRows(R)) \in Nat
      /\ Cardinality(payloadRows(Q)) \in Nat /\ Cardinality(payloadRows(R)) \in Nat
  BY <1>1, <1>4, Zenon
<1> QED
  BY <1>3, <1>5, <1>6 DEF WithinQuotas

\* A prune puts the table within its quotas, whatever it was given, as long as
\* the capacity gate has bounded the live guarantees.
LEMMA PruneCounts ==
  ASSUME NEW R, R \subseteq Reply, NEW seq \in Int, NEW t \in Int, RowsDistinct(R, seq),
         Cardinality(guaranteedOutcomes(R, t)) <= GuaranteedOutcomeCapacity
  PROVE  /\ RowsDistinct(pruneReplies(R, seq, t), seq)
         /\ WithinQuotas(pruneReplies(R, seq, t))
<1> DEFINE live == {r \in R : ~replyExpired(r, t)}
           evictable == {r \in live : ~r.guaranteed}
           nonAdvancing == {r \in evictable : isNonAdvancingReply(r)}
           advancing == evictable \ nonAdvancing
           kept == retainedReplies(R, seq, t)
           carrying == {r \in kept : r.status = "accepted" /\ r.payload}
           shed == {r \in carrying :
                      Cardinality({s \in carrying : s.n > r.n}) >= RetainedPayloadCap}
           h == [r \in kept |-> IF r \in shed THEN [r EXCEPT !.payload = FALSE] ELSE r]
           Q == pruneReplies(R, seq, t)
<1>1. kept = live \ (overReceiptLimit(nonAdvancing) \cup overReplyLimit(advancing, seq))
  BY DEF retainedReplies
<1>2. kept \subseteq R /\ kept \subseteq live /\ shed \subseteq kept /\ carrying \subseteq kept
  BY <1>1
<1>3. Q = (kept \ shed) \cup {[r EXCEPT !.payload = FALSE] : r \in shed}
  BY DEF pruneReplies, shedPayloads
<1>4. \A r \in Reply : r.n \in Nat /\ r.seq \in Nat
  BY DEF Reply
<1>5. /\ ReceiptLimit \in Nat /\ RetainedPayloadCap \in Nat
      /\ GuaranteedOutcomeCapacity \in Nat /\ MaxOf(ReplyLimit, TailLimit) \in Nat
  BY SequencerAssumption DEF MaxOf
<1>6. Cardinality(guaranteedRows(kept)) <= GuaranteedOutcomeCapacity
  <2>1. guaranteedRows(kept) \in SUBSET guaranteedOutcomes(R, t)
    BY <1>2 DEF guaranteedRows, guaranteedOutcomes
  <2>2. guaranteedOutcomes(R, t) \in SUBSET R
    BY DEF guaranteedOutcomes
  <2>3. /\ IsFiniteSet(guaranteedOutcomes(R, t))
        /\ Cardinality(guaranteedOutcomes(R, t)) \in Nat
    BY <2>2, FS_Subset, FS_CardinalityType DEF RowsDistinct
  <2>4. /\ Cardinality(guaranteedRows(kept)) <= Cardinality(guaranteedOutcomes(R, t))
        /\ Cardinality(guaranteedRows(kept)) \in Nat
    BY <2>1, <2>3, FS_Subset, FS_CardinalityType
  <2> QED
    BY <1>5, <2>3, <2>4
<1>7. Cardinality(receiptRows(kept)) <= ReceiptLimit
  <2> DEFINE f == [r \in nonAdvancing |-> r.n]
  <2>1. nonAdvancing \in SUBSET R /\ IsFiniteSet(nonAdvancing)
    BY FS_Subset DEF RowsDistinct
  <2>2. f \in [nonAdvancing -> Nat]
    BY <1>4
  <2>3. \A r, s \in nonAdvancing : f[r] = f[s] => r = s
    BY <2>1 DEF RowsDistinct
  <2>4. receiptRows(kept) \in SUBSET nonAdvancing
    BY <1>2 DEF receiptRows
  <2>5. ASSUME NEW u \in receiptRows(kept)
        PROVE  Cardinality({s \in nonAdvancing : f[s] > f[u]}) < ReceiptLimit
    <3>1. u \in nonAdvancing /\ u \notin overReceiptLimit(nonAdvancing)
      BY <1>1, <2>4, <2>5 DEF receiptRows
    <3>2. ~(Cardinality({s \in nonAdvancing : s.n > u.n}) >= ReceiptLimit)
      BY <3>1 DEF overReceiptLimit
    <3>3. {s \in nonAdvancing : f[s] > f[u]} = {s \in nonAdvancing : s.n > u.n}
      BY <3>1
    <3>4. {s \in nonAdvancing : s.n > u.n} \in SUBSET nonAdvancing
      OBVIOUS
    <3>5. Cardinality({s \in nonAdvancing : s.n > u.n}) \in Nat
      BY <2>1, <3>4, FS_Subset, FS_CardinalityType
    <3> DEFINE c == Cardinality({s \in nonAdvancing : s.n > u.n})
    <3>6. c \in Nat /\ ~(c >= ReceiptLimit)
      BY <3>2, <3>5
    <3> HIDE DEF c
    <3>7. c < ReceiptLimit
      BY <1>5, <3>6
    <3> QED
      BY <3>3, <3>7, Zenon DEF c
  <2> HIDE DEF f, nonAdvancing, kept
  <2> QED
    BY <1>5, <2>1, <2>2, <2>3, <2>4, <2>5, FewAbove
<1>8. Cardinality(commitRows(kept)) <= MaxOf(ReplyLimit, TailLimit)
  <2>1. advancing \in SUBSET R /\ IsFiniteSet(advancing) /\ advancing \subseteq Reply
    BY FS_Subset DEF RowsDistinct
  <2>2. \A r \in advancing : ~isNonAdvancingReply(r)
    OBVIOUS
  <2>3. \A r, s \in advancing : r.seq = s.seq => r = s
    BY <2>1, <2>2 DEF RowsDistinct
  <2>4. \A r \in advancing : r.seq <= seq
    BY <2>1, <2>2 DEF RowsDistinct
  <2>5. commitRows(kept) \in SUBSET (advancing \ overReplyLimit(advancing, seq))
    BY <1>1 DEF commitRows
  <2> HIDE DEF advancing, kept
  <2>6. Cardinality(advancing \ overReplyLimit(advancing, seq)) <= MaxOf(ReplyLimit, TailLimit)
    BY <2>1, <2>3, <2>4, CommitQuota
  <2>7. IsFiniteSet(advancing \ overReplyLimit(advancing, seq))
    BY <2>1, FS_Difference
  <2>8. /\ Cardinality(commitRows(kept)) <= Cardinality(advancing \ overReplyLimit(advancing, seq))
        /\ Cardinality(commitRows(kept)) \in Nat
        /\ Cardinality(advancing \ overReplyLimit(advancing, seq)) \in Nat
    BY <2>5, <2>7, FS_Subset, FS_CardinalityType
  <2> QED
    BY <1>5, <2>6, <2>8
<1>9. Cardinality(carrying \ shed) <= RetainedPayloadCap
  <2> DEFINE f == [r \in carrying |-> r.n]
  <2>1. carrying \in SUBSET R /\ IsFiniteSet(carrying)
    BY <1>2, FS_Subset DEF RowsDistinct
  <2>2. f \in [carrying -> Nat]
    BY <1>4, <2>1
  <2>3. \A r, s \in carrying : f[r] = f[s] => r = s
    BY <2>1 DEF RowsDistinct
  <2>4. ASSUME NEW u \in carrying \ shed
        PROVE  Cardinality({s \in carrying : f[s] > f[u]}) < RetainedPayloadCap
    <3>1. ~(Cardinality({s \in carrying : s.n > u.n}) >= RetainedPayloadCap)
      BY <2>4
    <3>2. {s \in carrying : f[s] > f[u]} = {s \in carrying : s.n > u.n}
      BY <2>4
    <3>3. {s \in carrying : s.n > u.n} \in SUBSET carrying
      OBVIOUS
    <3>4. Cardinality({s \in carrying : s.n > u.n}) \in Nat
      BY <2>1, <3>3, FS_Subset, FS_CardinalityType
    <3> DEFINE c == Cardinality({s \in carrying : s.n > u.n})
    <3>5. c \in Nat /\ ~(c >= RetainedPayloadCap)
      BY <3>1, <3>4
    <3> HIDE DEF c
    <3>6. c < RetainedPayloadCap
      BY <1>5, <3>5
    <3> QED
      BY <3>2, <3>6, Zenon DEF c
  <2>5. carrying \ shed \in SUBSET carrying
    OBVIOUS
  <2> HIDE DEF f, carrying, shed
  <2> QED
    BY <1>5, <2>1, <2>2, <2>3, <2>4, <2>5, FewAbove
<1>10. /\ \A r \in kept : SameRow(r, h[r]) /\ (h[r].payload => r \notin shed /\ h[r] = r)
       /\ \A q \in Q : \E r \in kept : q = h[r]
  <2>1. \A r \in Reply : LET b == [r EXCEPT !.payload = FALSE]
                         IN  SameRow(r, b) /\ ~b.payload /\ SameRow(r, r)
    BY DEF Reply, SameRow
  <2>2. \A r \in kept : h[r] = IF r \in shed THEN [r EXCEPT !.payload = FALSE] ELSE r
    OBVIOUS
  <2> HIDE DEF h, shed, kept, Q
  <2> QED
    BY <1>2, <1>3, <2>1, <2>2
<1> HIDE DEF h, Q, shed, carrying, live, kept, advancing, nonAdvancing, evictable
<1>11. IsFiniteSet(kept) /\ RowsDistinct(kept, seq)
  <2>1. IsFiniteSet(kept)
    BY <1>2, FS_Subset DEF RowsDistinct
  <2> QED
    BY <1>2, <2>1 DEF RowsDistinct
<1>12. RowsDistinct(Q, seq)
  <2>1. IsFiniteSet(Q)
    BY <1>10, <1>11, ImageCount
  <2>2. \A q1, q2 \in Q : q1.n = q2.n => q1 = q2
    BY <1>10, <1>11 DEF RowsDistinct, SameRow
  <2>3. \A q \in Q : q.payload => q.status = "accepted"
    BY <1>10, <1>11 DEF RowsDistinct, SameRow
  <2>4. \A q \in Q : ~isNonAdvancingReply(q) => q.seq <= seq
    BY <1>10, <1>11 DEF RowsDistinct, SameRow, isNonAdvancingReply
  <2>5. ASSUME NEW q1 \in Q, NEW q2 \in Q, ~isNonAdvancingReply(q1),
               ~isNonAdvancingReply(q2), q1.seq = q2.seq
        PROVE  q1 = q2
    <3>1. PICK r1 \in kept : q1 = h[r1]
      BY <1>10
    <3>2. PICK r2 \in kept : q2 = h[r2]
      BY <1>10
    <3>3. ~isNonAdvancingReply(r1) /\ ~isNonAdvancingReply(r2) /\ r1.seq = r2.seq
      BY <1>10, <2>5, <3>1, <3>2 DEF SameRow, isNonAdvancingReply
    <3> QED
      BY <1>11, <3>1, <3>2, <3>3 DEF RowsDistinct
  <2> QED
    BY <2>1, <2>2, <2>3, <2>4, <2>5 DEF RowsDistinct
<1>13. \A K, L : K \in SUBSET kept /\ (\A q \in L : \E r \in K : q = h[r]) =>
         /\ Cardinality(L) <= Cardinality(K)
         /\ Cardinality(L) \in Nat /\ Cardinality(K) \in Nat
  BY <1>11, FS_Subset, ImageCount, FS_CardinalityType
<1>14. /\ guaranteedRows(kept) \in SUBSET kept
       /\ \A q \in guaranteedRows(Q) : \E r \in guaranteedRows(kept) : q = h[r]
       /\ receiptRows(kept) \in SUBSET kept
       /\ \A q \in receiptRows(Q) : \E r \in receiptRows(kept) : q = h[r]
       /\ commitRows(kept) \in SUBSET kept
       /\ \A q \in commitRows(Q) : \E r \in commitRows(kept) : q = h[r]
  BY <1>10 DEF guaranteedRows, receiptRows, commitRows, SameRow, isNonAdvancingReply
<1>15. /\ Cardinality(guaranteedRows(Q)) <= Cardinality(guaranteedRows(kept))
       /\ Cardinality(receiptRows(Q)) <= Cardinality(receiptRows(kept))
       /\ Cardinality(commitRows(Q)) <= Cardinality(commitRows(kept))
       /\ Cardinality(guaranteedRows(Q)) \in Nat /\ Cardinality(guaranteedRows(kept)) \in Nat
       /\ Cardinality(receiptRows(Q)) \in Nat /\ Cardinality(receiptRows(kept)) \in Nat
       /\ Cardinality(commitRows(Q)) \in Nat /\ Cardinality(commitRows(kept)) \in Nat
  BY <1>13, <1>14, Zenon
<1>16. Cardinality(payloadRows(Q)) <= RetainedPayloadCap
  <2>1. payloadRows(Q) \in SUBSET (carrying \ shed)
    <3>1. ASSUME NEW q \in payloadRows(Q) PROVE q \in carrying \ shed
      <4>1. PICK r \in kept : q = h[r]
        BY <1>10 DEF payloadRows
      <4>2. r \notin shed /\ q = r /\ q.payload
        BY <1>10, <4>1 DEF payloadRows
      <4>3. q.status = "accepted"
        BY <1>11, <4>1, <4>2 DEF RowsDistinct
      <4> QED
        BY <4>1, <4>2, <4>3 DEF carrying
    <3> QED
      BY <3>1
  <2>2. carrying \ shed \in SUBSET kept
    BY <1>2
  <2>3. IsFiniteSet(carrying \ shed) /\ Cardinality(carrying \ shed) \in Nat
    BY <1>11, <2>2, FS_Subset, FS_CardinalityType
  <2>4. /\ Cardinality(payloadRows(Q)) <= Cardinality(carrying \ shed)
        /\ Cardinality(payloadRows(Q)) \in Nat
    BY <2>1, <2>3, FS_Subset, FS_CardinalityType
  <2> QED
    BY <1>5, <1>9, <2>3, <2>4
<1>17. WithinQuotas(Q)
  BY <1>5, <1>6, <1>7, <1>8, <1>15, <1>16 DEF WithinQuotas
<1> QED
  BY <1>12, <1>17 DEF Q

\* The invariant behind the bound: the table is within each quota, and its rows
\* stay distinct because numbers and heads only grow.
RetentionInv ==
  /\ RowsDistinct(durable.replies, durable.head.seq)
  /\ WithinQuotas(durable.replies)
  /\ \A r \in durable.replies : r.n <= decided

\* Recording an outcome: the new row is the newest, a new commit is beyond the
\* head, and a new guarantee passed the capacity gate.
LEMMA RecordKeepsBound ==
  ASSUME IdempotencyInv, RetentionInv, up, now' = now, Records
  PROVE  RetentionInv'
<1>1. PICK p \in SubmitType, st \in {"committed", "read", "rejected"},
           rst \in {"accepted", "rejected"}, seq \in 0..MaxSeq, receipt \in BOOLEAN :
        RecordsAs(p, st, rst, seq, receipt)
  BY DEF Records
<1> DEFINE row == ReplyRow(p, rst, seq, receipt)
           old == durable.replies
           kept == dropExpired(old, p.key)
           all == kept \cup {row}
<1>2. mem = durable
  BY DEF IdempotencyInv, Coherent
<1>3. /\ ~atCapacity(p)
      /\ decided < MaxOutcomes /\ decided' = decided + 1
      /\ durable'.replies = pruneReplies(all, seq, now)
      /\ durable'.head.seq = seq /\ seq >= durable.head.seq
      /\ rst = "accepted" /\ receipt = FALSE => seq > durable.head.seq
  BY <1>1, <1>2 DEF RecordsAs, Admitted, Decide, recordReply
<1>4. /\ old \subseteq Reply /\ now \in Int /\ decided \in Int /\ seq \in Int
      /\ durable.head.seq \in Int /\ GuaranteedOutcomeCapacity \in Nat
  BY SequencerAssumption DEF IdempotencyInv, TypeOK, Authority, ScopeHead
<1>5. row \in Reply
  BY <1>3, RowType DEF IdempotencyInv
<1>6. kept \in SUBSET old /\ all \subseteq Reply
  BY <1>4, <1>5 DEF dropExpired
<1>7. /\ row.n = decided + 1 /\ row.seq = seq /\ row.guaranteed = p.retry
      /\ row.status = rst /\ row.receipt = receipt
  BY DEF ReplyRow
<1>8. row.payload => row.status = "accepted"
  BY Zenon DEF ReplyRow
<1>9. /\ RowsDistinct(kept, durable.head.seq) /\ WithinQuotas(kept)
      /\ \A r \in kept : r.n <= decided /\ r.n \in Int /\ r.seq \in Int
  <2>1. \A r \in kept : r.n <= decided /\ r.n \in Int /\ r.seq \in Int
    BY <1>4, <1>6 DEF RetentionInv, Reply
  <2>2. RowsDistinct(kept, durable.head.seq) /\ WithinQuotas(kept)
    <3>1. kept \in SUBSET old /\ durable.head.seq <= durable.head.seq
      BY <1>4, <1>6
    <3>2. RowsDistinct(old, durable.head.seq) /\ WithinQuotas(old)
      BY DEF RetentionInv
    <3> HIDE DEF kept, old
    <3> QED
      BY <1>4, <3>1, <3>2, FewerRows
  <2> QED
    BY <2>1, <2>2
<1>10. ~isNonAdvancingReply(row) => seq > durable.head.seq
  BY <1>3, <1>7 DEF isNonAdvancingReply
<1> HIDE DEF row, kept
<1>11. RowsDistinct(all, seq)
  <2>1. IsFiniteSet(all)
    BY <1>9, FS_AddElement DEF RowsDistinct
  <2>2. \A r \in kept : r.n # row.n
    BY <1>4, <1>7, <1>9
  <2>3. \A r, s \in all : r.n = s.n => r = s
    BY <1>9, <2>2 DEF RowsDistinct
  <2>4. \A r \in all : r.payload => r.status = "accepted"
    BY <1>8, <1>9 DEF RowsDistinct
  <2>5. \A r \in all : ~isNonAdvancingReply(r) => r.seq <= seq
    BY <1>3, <1>4, <1>7, <1>9 DEF RowsDistinct
  <2>6. \A r \in kept : ~isNonAdvancingReply(r) /\ ~isNonAdvancingReply(row) => r.seq # row.seq
    BY <1>4, <1>7, <1>9, <1>10 DEF RowsDistinct
  <2>7. \A r, s \in all :
          ~isNonAdvancingReply(r) /\ ~isNonAdvancingReply(s) /\ r.seq = s.seq => r = s
    BY <1>9, <2>6 DEF RowsDistinct
  <2> QED
    BY <2>1, <2>3, <2>4, <2>5, <2>7 DEF RowsDistinct
<1>12. Cardinality(guaranteedOutcomes(all, now)) <= GuaranteedOutcomeCapacity
  <2> DEFINE G == guaranteedOutcomes(all, now)
             L == guaranteedOutcomes(old, now)
             K == guaranteedRows(kept)
  <2>1. /\ IsFiniteSet(old) /\ L \in SUBSET old /\ K \in SUBSET old
    BY <1>6 DEF RetentionInv, RowsDistinct, guaranteedOutcomes, guaranteedRows
  <2>2. IsFiniteSet(L) /\ Cardinality(L) \in Nat /\ IsFiniteSet(K) /\ Cardinality(K) \in Nat
    BY <2>1, FS_Subset, FS_CardinalityType
  <2>3. CASE p.retry
    <3>1. ~(Cardinality(L) >= GuaranteedOutcomeCapacity)
      BY <1>2, <1>3, <2>3 DEF atCapacity
    <3>2. G \in SUBSET (L \cup {row})
      BY <1>6 DEF guaranteedOutcomes
    <3> HIDE DEF G, L
    <3>3. /\ IsFiniteSet(L \cup {row}) /\ Cardinality(L \cup {row}) \in Nat
          /\ Cardinality(L \cup {row}) <= Cardinality(L) + 1
      <4>1. /\ IsFiniteSet(L \cup {row})
            /\ Cardinality(L \cup {row}) =
                 IF row \in L THEN Cardinality(L) ELSE Cardinality(L) + 1
        BY <2>2, FS_AddElement
      <4>2. Cardinality(L \cup {row}) \in Nat
        BY <4>1, FS_CardinalityType
      <4> QED
        BY <2>2, <4>1, <4>2
    <3>4. Cardinality(G) <= Cardinality(L \cup {row}) /\ Cardinality(G) \in Nat
      BY <3>2, <3>3, FS_Subset, FS_CardinalityType
    <3>5. Cardinality(G) <= GuaranteedOutcomeCapacity
      BY <1>4, <2>2, <3>1, <3>3, <3>4
    <3> QED
      BY <3>5 DEF G
  <2>4. CASE ~p.retry
    <3>1. G \in SUBSET K
      BY <1>7, <2>4 DEF guaranteedOutcomes, guaranteedRows
    <3>2. Cardinality(K) <= GuaranteedOutcomeCapacity
      BY <1>9 DEF WithinQuotas
    <3> HIDE DEF G, K
    <3>3. Cardinality(G) <= Cardinality(K) /\ Cardinality(G) \in Nat
      BY <2>2, <3>1, FS_Subset, FS_CardinalityType
    <3>4. Cardinality(G) <= GuaranteedOutcomeCapacity
      BY <1>4, <2>2, <3>2, <3>3
    <3> QED
      BY <3>4 DEF G
  <2>5. p.retry \in BOOLEAN
    BY DEF SubmitType
  <2> QED
    BY <2>3, <2>4, <2>5
<1> HIDE DEF all
<1>13. RowsDistinct(durable'.replies, seq) /\ WithinQuotas(durable'.replies)
  BY <1>3, <1>4, <1>6, <1>11, <1>12, PruneCounts
<1>14. \A s \in durable'.replies : s.n <= decided'
  <2> SUFFICES ASSUME NEW s \in durable'.replies PROVE s.n <= decided'
    OBVIOUS
  <2>1. PICK r \in all : SameRow(r, s)
    BY <1>3, <1>4, <1>6, PruneKeepsProtected
  <2>2. r \in kept \/ r = row
    BY DEF all
  <2> QED
    BY <1>3, <1>4, <1>7, <1>9, <2>1, <2>2 DEF SameRow
<1> QED
  BY <1>3, <1>13, <1>14 DEF RetentionInv

\* Any other step only drops rows, and the head and the count never go back.
LEMMA NoRecordKeepsBound ==
  ASSUME IdempotencyInv, TypeOK', RetentionInv, decided' = decided,
         durable'.replies \subseteq durable.replies, durable'.head.seq >= durable.head.seq
  PROVE  RetentionInv'
<1>1. /\ durable.replies \subseteq Reply /\ durable.head.seq \in Int /\ durable'.head.seq \in Int
  BY SequencerAssumption DEF IdempotencyInv, TypeOK, Authority, ScopeHead
<1>2. RowsDistinct(durable'.replies, durable'.head.seq) /\ WithinQuotas(durable'.replies)
  BY <1>1, FewerRows DEF RetentionInv
<1> QED
  BY <1>2 DEF RetentionInv

\* The quotas, with the guarantees on top, are what the table can hold.
LEMMA QuotasBound ==
  ASSUME RetentionInv
  PROVE  RetentionBound
<1> DEFINE R == durable.replies
           A == guaranteedRows(R)
           B == receiptRows(R)
           C == commitRows(R)
<1>1. IsFiniteSet(R) /\ A \in SUBSET R /\ B \in SUBSET R /\ C \in SUBSET R
  BY DEF RetentionInv, RowsDistinct, guaranteedRows, receiptRows, commitRows
<1>2. R = (A \cup B) \cup C
  BY DEF guaranteedRows, receiptRows, commitRows
<1>3. /\ Cardinality(A) <= GuaranteedOutcomeCapacity /\ Cardinality(B) <= ReceiptLimit
      /\ Cardinality(C) <= MaxOf(ReplyLimit, TailLimit)
      /\ Cardinality({r \in R : r.payload}) <= RetainedPayloadCap
  BY DEF RetentionInv, WithinQuotas, payloadRows
<1>4. /\ GuaranteedOutcomeCapacity \in Nat /\ ReceiptLimit \in Nat
      /\ MaxOf(ReplyLimit, TailLimit) \in Nat
  BY SequencerAssumption DEF MaxOf
<1> HIDE DEF A, B, C
<1>5. /\ IsFiniteSet(A) /\ IsFiniteSet(B) /\ IsFiniteSet(C)
      /\ Cardinality(A) \in Nat /\ Cardinality(B) \in Nat /\ Cardinality(C) \in Nat
  BY <1>1, FS_Subset, FS_CardinalityType
<1>6. /\ IsFiniteSet(A \cup B) /\ Cardinality(A \cup B) \in Nat
      /\ Cardinality(A \cup B) <= Cardinality(A) + Cardinality(B)
  <2>1. IsFiniteSet(A \cap B) /\ Cardinality(A \cap B) \in Nat
    BY <1>5, FS_Intersection, FS_CardinalityType
  <2>2. /\ IsFiniteSet(A \cup B)
        /\ Cardinality(A \cup B) = Cardinality(A) + Cardinality(B) - Cardinality(A \cap B)
    BY <1>5, FS_Union
  <2> QED
    BY <1>5, <2>1, <2>2, FS_CardinalityType
<1>7. Cardinality((A \cup B) \cup C) <= Cardinality(A \cup B) + Cardinality(C)
  <2> DEFINE D == A \cup B
  <2> HIDE DEF D
  <2>0. IsFiniteSet(D) /\ Cardinality(D) \in Nat
    BY <1>6 DEF D
  <2>1. IsFiniteSet(D \cap C) /\ Cardinality(D \cap C) \in Nat
    BY <1>5, FS_Intersection, FS_CardinalityType
  <2>2. Cardinality(D \cup C) = Cardinality(D) + Cardinality(C) - Cardinality(D \cap C)
    BY <1>5, <2>0, FS_Union
  <2>3. Cardinality(D \cup C) <= Cardinality(D) + Cardinality(C)
    BY <1>5, <2>0, <2>1, <2>2
  <2> QED
    BY <2>3 DEF D
<1>8. Cardinality(R) \in Nat
  BY <1>1, FS_CardinalityType
<1>9. Cardinality(R) <= MaxOf(ReplyLimit, TailLimit) + ReceiptLimit + GuaranteedOutcomeCapacity
  <2>1. Cardinality(R) <= Cardinality(A \cup B) + Cardinality(C)
    BY <1>2, <1>7
  <2> HIDE DEF R
  <2> QED
    BY <1>3, <1>4, <1>5, <1>6, <1>8, <2>1
<1> QED
  BY <1>3, <1>9 DEF RetentionBound

\* The reply table never holds more than both quotas and the guarantees, nor
\* more payloads than their cap, whatever keys, leases and clocks do
\* (pruneReplies, and the retry_capacity gate of submit).
THEOREM RetentionBounded == Spec => []RetentionBound
<1>1. Init => RetentionInv
  <2> SUFFICES ASSUME Init PROVE RetentionInv
    OBVIOUS
  <2>1. durable.replies = {} /\ Cardinality({}) = 0 /\ IsFiniteSet({})
    BY FS_EmptySet DEF Init, Genesis
  <2>2. /\ guaranteedRows({}) = {} /\ receiptRows({}) = {} /\ commitRows({}) = {}
        /\ payloadRows({}) = {}
    BY DEF guaranteedRows, receiptRows, commitRows, payloadRows
  <2>3. WithinQuotas({})
    BY <2>1, <2>2, SequencerAssumption DEF WithinQuotas, MaxOf
  <2> QED
    BY <2>1, <2>3 DEF RetentionInv, RowsDistinct
<1>2. IdempotencyInv /\ RetentionInv /\ TypeOK' /\ [Next]_vars => RetentionInv'
  <2> SUFFICES ASSUME IdempotencyInv, RetentionInv, TypeOK', [Next]_vars PROVE RetentionInv'
    OBVIOUS
  <2>0. TypeOK /\ durable.head.seq \in Int
    BY DEF IdempotencyInv, TypeOK, Authority, ScopeHead
  <2>1. ASSUME \/ \E p \in Submits : RefuseUnrecorded(p) \/ RejectTerminal(p)
                                      \/ DirectRead(p) \/ Commit(p)
               \/ OtherWriter
        PROVE  RetentionInv'
    <3>1. up /\ now' = now /\ (Records \/ LooksUp \/ KeepsReplies)
      BY <2>0, <2>1, WriterShape
    <3>2. mem = durable
      BY <3>1 DEF IdempotencyInv, Coherent
    <3>3. CASE Records
      BY <3>1, <3>3, RecordKeepsBound
    <3>4. CASE LooksUp
      <4>1. /\ durable'.replies \subseteq durable.replies /\ decided' = decided
            /\ durable'.head.seq >= durable.head.seq
        BY <2>0, <3>2, <3>4 DEF LooksUp, dropExpired
      <4> QED
        BY <4>1, NoRecordKeepsBound
    <3>5. CASE KeepsReplies
      <4>1. /\ durable'.replies \subseteq durable.replies /\ decided' = decided
            /\ durable'.head.seq >= durable.head.seq
        BY <2>0, <3>2, <3>5 DEF KeepsReplies
      <4> QED
        BY <4>1, NoRecordKeepsBound
    <3> QED
      BY <3>1, <3>3, <3>4, <3>5
  <2>2. ASSUME \/ \E p \in Submits : Replay(p) \/ Conflict(p) \/ CommitAborts(p)
               \/ ServeClosure \/ Evict \/ Hydrate \/ Tick \/ UNCHANGED vars
        PROVE  RetentionInv'
    <3>1. UNCHANGED <<durable, decided>>
      BY <2>2 DEF Replay, Conflict, CommitAborts, ServeClosure, Evict, Hydrate, Tick, vars
    <3> QED
      BY <3>1 DEF RetentionInv
  <2> QED
    BY <2>1, <2>2 DEF Next, OtherWriter
<1> QED
  BY <1>1, <1>2, QuotasBound, IdempotencyInvariant, TypeCorrect, PTL DEF Spec

(***************************************************************************)
(* Serializability and the retained bases.                                 *)
(***************************************************************************)

\* A closure a gateway holds is no newer than the authority, and one with the
\* authority's own head has its cells: no write leaves the generation alone.
SnapshotsExact ==
  \A s \in snapshots :
    /\ s.head.generation <= durable.head.generation
    /\ s.head = durable.head => s.cells = durable.cells

\* The tail holds exactly the newest TailLimit entries of the log.
TailIsSuffix ==
  durable.tail = {i \in 1..durable.head.seq : i > durable.head.seq - TailLimit}

LogInv == TypeOK /\ Coherent /\ SnapshotsExact /\ TailIsSuffix

\* Appending to a tail that is the newest suffix gives the newest suffix.
LEMMA AppendKeepsSuffix ==
  ASSUME NEW seq \in Nat
  PROVE  appendTail({i \in 1..seq : i > seq - TailLimit}, seq + 1)
           = {i \in 1..(seq + 1) : i > seq + 1 - TailLimit}
<1> DEFINE grown == {i \in 1..seq : i > seq - TailLimit} \cup {seq + 1}
<1>0. TailLimit \in Nat
  BY SequencerAssumption
<1>1. ASSUME NEW s \in grown
      PROVE  Cardinality({t \in grown : t > s}) = seq + 1 - s
  <2>1. s \in 1..(seq + 1)
    BY <1>0
  <2>2. {t \in grown : t > s} = (s + 1)..(seq + 1)
    BY <1>0, <2>1
  <2>3. Cardinality((s + 1)..(seq + 1)) = IF s + 1 > seq + 1 THEN 0 ELSE (seq + 1) - (s + 1) + 1
    BY <2>1, FS_Interval
  <2>4. (IF s + 1 > seq + 1 THEN 0 ELSE (seq + 1) - (s + 1) + 1) = seq + 1 - s
    BY <2>1
  <2> HIDE DEF grown
  <2> QED
    BY <2>2, <2>3, <2>4
<1>2. appendTail({i \in 1..seq : i > seq - TailLimit}, seq + 1)
        = {s \in grown : Cardinality({t \in grown : t > s}) < TailLimit}
  BY DEF appendTail
<1>3. {s \in grown : Cardinality({t \in grown : t > s}) < TailLimit}
        = {s \in grown : seq + 1 - s < TailLimit}
  <2> HIDE DEF grown
  <2> QED
    BY <1>1
<1>4. {s \in grown : seq + 1 - s < TailLimit}
        = {i \in 1..(seq + 1) : i > seq + 1 - TailLimit}
  BY <1>0
<1> QED
  BY <1>2, <1>3, <1>4

\* An event of the log, or a write beside it, keeps the log's invariant: the
\* generation moves past every closure already served.
LEMMA MovedHeadKeepsLog ==
  ASSUME LogInv, TypeOK', up, up', mem' = durable', snapshots' = snapshots,
         durable'.head.generation = mem.head.generation + 1,
         \/ /\ durable'.head.seq = mem.head.seq + 1
            /\ durable'.tail = appendTail(mem.tail, mem.head.seq + 1)
         \/ /\ durable'.head.seq = mem.head.seq
            /\ durable'.tail = mem.tail
  PROVE  LogInv'
<1>1. mem = durable
  BY DEF LogInv, Coherent
<1>2. /\ durable.head.seq \in Nat /\ durable.head.generation \in Int
      /\ \A s \in snapshots : s.head.generation \in Int
  BY DEF LogInv, TypeOK, Authority, ScopeHead, Snapshot
<1>3. SnapshotsExact'
  <2> SUFFICES ASSUME NEW s \in snapshots
               PROVE  /\ s.head.generation <= durable'.head.generation
                      /\ s.head # durable'.head
    BY DEF SnapshotsExact
  <2>1. s.head.generation <= durable.head.generation
    BY DEF LogInv, SnapshotsExact
  <2>2. s.head.generation < durable'.head.generation
    BY <1>1, <1>2, <2>1
  <2> QED
    BY <1>1, <1>2, <2>2
<1>4. TailIsSuffix'
  <2> DEFINE old == {i \in 1..durable.head.seq : i > durable.head.seq - TailLimit}
  <2>1. durable.tail = old
    BY DEF LogInv, TailIsSuffix
  <2>2. CASE /\ durable'.head.seq = durable.head.seq + 1
             /\ durable'.tail = appendTail(durable.tail, durable.head.seq + 1)
    <3>1. durable'.tail = appendTail(old, durable.head.seq + 1)
      BY <2>1, <2>2
    <3>2. durable'.tail = {i \in 1..(durable.head.seq + 1) :
                             i > durable.head.seq + 1 - TailLimit}
      BY <1>2, <3>1, AppendKeepsSuffix, Zenon
    <3> QED
      BY <1>2, <2>2, <3>2, SequencerAssumption DEF TailIsSuffix
  <2>3. CASE durable'.head.seq = durable.head.seq /\ durable'.tail = durable.tail
    BY <2>1, <2>3 DEF TailIsSuffix
  <2> QED
    BY <1>1, <2>2, <2>3
<1> QED
  BY <1>3, <1>4 DEF LogInv, Coherent

\* A step that moves neither head nor cells nor tail keeps it too.
LEMMA SameLogKeepsLog ==
  ASSUME LogInv, TypeOK', up' => mem' = durable',
         durable'.cells = durable.cells, durable'.head = durable.head,
         durable'.tail = durable.tail,
         \/ snapshots' = snapshots
         \/ snapshots' = snapshots \cup {[head |-> durable.head, cells |-> durable.cells]}
  PROVE  LogInv'
<1>1. durable.head.generation \in Int
  BY DEF LogInv, TypeOK, Authority, ScopeHead
<1>2. SnapshotsExact'
  BY <1>1 DEF LogInv, SnapshotsExact
<1>3. TailIsSuffix'
  BY DEF LogInv, TailIsSuffix
<1> QED
  BY <1>2, <1>3 DEF LogInv, Coherent

\* Closures are exact for their head and the tail is the log's newest suffix.
THEOREM LogInvariant == Spec => []LogInv
<1>1. Init /\ TypeOK => LogInv
  <2> SUFFICES ASSUME Init, TypeOK PROVE LogInv
    OBVIOUS
  <2>1. durable.head = [seq |-> 0, generation |-> 0] /\ durable.tail = {}
    BY DEF Init, Genesis
  <2>2. TailIsSuffix
    BY <2>1 DEF TailIsSuffix
  <2> QED
    BY <2>2 DEF Init, LogInv, Coherent, SnapshotsExact
<1>2. LogInv /\ TypeOK' /\ [Next]_vars => LogInv'
  <2> SUFFICES ASSUME LogInv, TypeOK', [Next]_vars PROVE LogInv'
    OBVIOUS
  <2>0. TypeOK /\ mem.replies \subseteq Reply /\ (up => mem = durable)
    BY DEF LogInv, Coherent, TypeOK, Authority
  <2>a. ASSUME up, NEW rows, rows \subseteq Reply, Persist([mem EXCEPT !.replies = rows]),
               snapshots' = snapshots
        PROVE  LogInv'
    <3>1. /\ durable'.cells = mem.cells /\ durable'.head = mem.head
          /\ durable'.tail = mem.tail /\ mem' = durable'
      BY <2>0, <2>a, RepliesType DEF Persist
    <3> QED
      BY <2>0, <2>a, <3>1, SameLogKeepsLog
  <2>1. ASSUME NEW p \in Submits, Replay(p) \/ Conflict(p) \/ CommitAborts(p)
        PROVE  LogInv'
    BY <2>0, <2>1, SameLogKeepsLog DEF Replay, Conflict, CommitAborts
  <2>2. ASSUME NEW p \in Submits, RefuseUnrecorded(p) PROVE LogInv'
    <3>1. dropExpired(mem.replies, p.key) \subseteq Reply
      BY <2>0 DEF dropExpired
    <3> QED
      BY <2>2, <2>a, <3>1 DEF RefuseUnrecorded
  <2>3. ASSUME NEW p \in Submits, RejectTerminal(p) PROVE LogInv'
    <3> DEFINE R == recordReply(dropExpired(mem.replies, p.key),
                                ReplyRow(p, "rejected", mem.head.seq, FALSE), mem.head.seq)
    <3>1. p \in SubmitType /\ decided < MaxOutcomes
      BY <2>0, <2>3, SubmitShape DEF RejectTerminal, Decide
    <3>2. mem.head.seq \in 0..MaxSeq /\ mem.head.seq \in Int
      BY <2>0 DEF TypeOK, Authority, ScopeHead
    <3>3. ReplyRow(p, "rejected", mem.head.seq, FALSE) \in Reply
      BY <2>0, <3>1, <3>2, RowType
    <3>4. R \subseteq Reply
      BY <2>0, <3>2, <3>3, RecordType
    <3>5. up /\ Persist([mem EXCEPT !.replies = R]) /\ snapshots' = snapshots
      BY <2>3 DEF RejectTerminal
    <3> QED
      BY <2>a, <3>4, <3>5
  <2>4. ASSUME NEW p \in Submits, DirectRead(p) PROVE LogInv'
    <3> DEFINE K == dropExpired(mem.replies, p.key)
               R == recordReply(K, ReplyRow(p, "accepted", mem.head.seq, TRUE), mem.head.seq)
    <3>1. p \in SubmitType
      BY <2>0, SubmitShape
    <3>2. mem.head.seq \in 0..MaxSeq /\ mem.head.seq \in Int
      BY <2>0 DEF TypeOK, Authority, ScopeHead
    <3>3. CASE p.retry
      <4>1. /\ up /\ decided < MaxOutcomes /\ snapshots' = snapshots
            /\ Persist([mem EXCEPT !.replies = R])
        BY <2>4, <3>3 DEF DirectRead, Decide
      <4>2. ReplyRow(p, "accepted", mem.head.seq, TRUE) \in Reply
        BY <2>0, <3>1, <3>2, <4>1, RowType
      <4>3. R \subseteq Reply
        BY <2>0, <3>2, <4>2, RecordType
      <4> QED
        BY <2>a, <4>1, <4>3
    <3>4. CASE ~p.retry
      <4>1. up /\ Persist([mem EXCEPT !.replies = K]) /\ snapshots' = snapshots
        BY <2>4, <3>4 DEF DirectRead
      <4>2. K \subseteq Reply
        BY <2>0 DEF dropExpired
      <4> QED
        BY <2>a, <4>1, <4>2
    <3> QED
      BY <3>3, <3>4
  <2>5. ASSUME NEW p \in Submits, Commit(p) PROVE LogInv'
    <3>1. /\ p \in SubmitType /\ CanAdvance /\ decided < MaxOutcomes /\ up /\ up'
          /\ durable' = Committed(p) /\ mem' = durable' /\ snapshots' = snapshots
      BY <2>0, <2>5, SubmitShape DEF Commit, Decide, Persist
    <3>2. /\ durable'.head = [seq |-> mem.head.seq + 1,
                              generation |-> mem.head.generation + 1]
          /\ durable'.tail = appendTail(mem.tail, mem.head.seq + 1)
      BY <2>0, <3>1, CommittedShape, Zenon
    <3>3. /\ durable'.head.seq = mem.head.seq + 1
          /\ durable'.head.generation = mem.head.generation + 1
      BY <3>2
    <3> QED
      BY <3>1, <3>2, <3>3, MovedHeadKeepsLog
  <2>6. ASSUME OtherWriter PROVE LogInv'
    <3>0. up /\ snapshots' = snapshots
      BY <2>6, OtherWriterShape
    <3>1. PICK S \in SUBSET Cell : \E written \in [S -> Value] :
            \/ CanAdvance /\ Persist(advanced(mem, written))
            \/ mem.head.generation < MaxGeneration /\ Persist(regenerated(mem, written))
      BY <2>6, OtherWriterShape DEF WritesBesideTurns
    <3>2. PICK written \in [S -> Value] :
            \/ CanAdvance /\ Persist(advanced(mem, written))
            \/ mem.head.generation < MaxGeneration /\ Persist(regenerated(mem, written))
      BY <3>1
    <3>3. CASE CanAdvance /\ Persist(advanced(mem, written))
      <4>1. mem \in Authority /\ mem.head.seq < MaxSeq /\ mem.head.generation < MaxGeneration
        BY <2>0, <3>3 DEF TypeOK, CanAdvance
      <4>2. /\ durable'.head = [seq |-> mem.head.seq + 1,
                                generation |-> mem.head.generation + 1]
            /\ durable'.tail = appendTail(mem.tail, mem.head.seq + 1)
            /\ mem' = durable' /\ up' = up
        BY <3>3, <4>1, AdvancedShape, Zenon DEF Persist
      <4>3. /\ durable'.head.seq = mem.head.seq + 1
            /\ durable'.head.generation = mem.head.generation + 1
        BY <4>2
      <4> QED
        BY <3>0, <4>2, <4>3, MovedHeadKeepsLog
    <3>4. CASE mem.head.generation < MaxGeneration /\ Persist(regenerated(mem, written))
      <4>1. /\ durable'.head = [seq |-> mem.head.seq, generation |-> mem.head.generation + 1]
            /\ durable'.tail = mem.tail
            /\ mem' = durable' /\ up' = up
        BY <2>0, <3>4, RegeneratedShape, Zenon DEF Persist
      <4>2. /\ durable'.head.seq = mem.head.seq
            /\ durable'.head.generation = mem.head.generation + 1
        BY <4>1
      <4> QED
        BY <3>0, <4>1, <4>2, MovedHeadKeepsLog
    <3> QED
      BY <3>2, <3>3, <3>4
  <2>7. ASSUME ServeClosure PROVE LogInv'
    BY <2>0, <2>7, SameLogKeepsLog DEF ServeClosure
  <2>8. ASSUME Evict \/ Hydrate \/ Tick PROVE LogInv'
    BY <2>0, <2>8, SameLogKeepsLog DEF Evict, Hydrate, Tick
  <2>9. ASSUME UNCHANGED vars PROVE LogInv'
    BY <2>0, <2>9, SameLogKeepsLog DEF vars
  <2> QED
    BY <2>1, <2>2, <2>3, <2>4, <2>5, <2>6, <2>7, <2>8, <2>9 DEF Next, OtherWriter
<1> QED
  BY <1>1, <1>2, TypeCorrect, PTL DEF Spec

\* A base is retained exactly when it is one of the last TailLimit + 1 heads.
THEOREM RetainedBases == Spec => []RetainedBaseWindow
<1>1. LogInv => RetainedBaseWindow
  BY SequencerAssumption DEF LogInv, TailIsSuffix, RetainedBaseWindow, TypeOK, Authority, ScopeHead
<1> QED
  BY <1>1, LogInvariant, PTL

\* Commits are serial: each is its turn run on the authority's own state.
THEOREM CommitsSerializable == Spec => Serializable
<1> DEFINE SerialStep ==
      \A o \in outcomes' \ outcomes :
        o.status = "committed" =>
          durable'.cells = apply(durable.cells, Output(o.request, durable.cells))
<1>1. LogInv /\ [Next]_vars => SerialStep
  <2> SUFFICES ASSUME LogInv, [Next]_vars, NEW o \in outcomes' \ outcomes,
                      o.status = "committed"
               PROVE  durable'.cells = apply(durable.cells, Output(o.request, durable.cells))
    OBVIOUS
  <2>0. TypeOK /\ (up => mem = durable)
    BY DEF LogInv, Coherent
  <2>1. ASSUME NEW p \in Submits, Commit(p)
        PROVE  durable'.cells = apply(durable.cells, Output(o.request, durable.cells))
    <3>1. /\ p \in SubmitType /\ CanAdvance /\ decided < MaxOutcomes /\ mem = durable
          /\ durable' = Committed(p) /\ Accepts(p) /\ o.request = p.request
      BY <2>0, <2>1, SubmitShape DEF Commit, Decide, Persist
    <3>2. durable'.cells = apply(durable.cells, Output(p.request, p.view))
      BY <2>0, <3>1, CommittedShape, Zenon
    <3>3. Verdict(p) = "accepted"
      BY <3>1 DEF Accepts
    <3>4. baseAdmitted(p) /\ mismatchedReads(p) = {}
      <4>1. Fault(p.request) \in Faults
        BY <3>1, RequestAssumption DEF SubmitType
      <4> QED
        BY <3>3, <4>1 DEF Verdict, Faults
    <3>5. \A c \in Reads(p.request) : p.view[c] = durable.cells[c]
      <4>1. CASE p.compacted
        <5>1. PICK s \in snapshots : p.base = s.head /\ p.view = s.cells
          BY <2>0, <4>1, SubmitShape
        <5>2. s.head = durable.head
          BY <3>1, <3>4, <4>1, <5>1 DEF baseAdmitted, baseIsExactCurrent
        <5> QED
          BY <5>1, <5>2 DEF LogInv, SnapshotsExact
      <4>2. CASE ~p.compacted
        BY <3>1, <3>4, <4>2 DEF mismatchedReads
      <4> QED
        BY <4>1, <4>2
    <3>6. p.request \in Request /\ p.view \in State /\ durable.cells \in State
      BY <2>0, <3>1 DEF SubmitType, TypeOK, Authority
    <3>7. Output(p.request, p.view) = Output(p.request, durable.cells)
      BY <3>5, <3>6, RequestAssumption
    <3> QED
      BY <3>1, <3>2, <3>7
  <2>2. ASSUME NEW p \in Submits, RejectTerminal(p) \/ DirectRead(p) PROVE FALSE
    BY <2>2 DEF RejectTerminal, DirectRead, Decide
  <2>3. ASSUME \/ \E p \in Submits : Replay(p) \/ Conflict(p) \/ RefuseUnrecorded(p)
                                     \/ CommitAborts(p)
               \/ OtherWriter \/ ServeClosure \/ Evict \/ Hydrate \/ Tick \/ UNCHANGED vars
        PROVE  FALSE
    BY <2>3, OtherWriterShape DEF Replay, Conflict, RefuseUnrecorded, CommitAborts,
       ServeClosure, Evict, Hydrate, Tick, vars
  <2> QED
    BY <2>1, <2>2, <2>3 DEF Next, OtherWriter
<1>2. SerialStep => [SerialStep]_vars
  OBVIOUS
<1> QED
  BY <1>1, LogInvariant, PTL DEF Spec, Serializable
=============================================================================
