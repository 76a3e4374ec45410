-------------------------- MODULE CrossScopeProofs --------------------------
(***************************************************************************)
(* Proofs about CrossScope, for any senders, cells and versions: the type  *)
(* invariant, the two statements about the marks, and that rides implement *)
(* OwnerEffects.                                                           *)
(***************************************************************************)
EXTENDS CrossScope, FiniteSetTheorems, TLAPS

(***************************************************************************)
(* The type invariant.                                                     *)
(***************************************************************************)

\* What a planned turn looks like.
LEMMA PlanTyped ==
  ASSUME TypeOK, NEW s \in Sender, NEW p \in Shape,
         NEW r \in Over(p.reads), NEW w \in Over(p.writes),
         Plan(s, r, w, p.parts) \/ Replan(s, r, w, p.parts)
  PROVE  TypeOK'
<1>1. r \in Image /\ w \in Image
  BY DEF Over
<1>2. p.parts \in SUBSET Relation
  BY CrossScopeAssumption
<1>3. \A k \in Cell : store[k] \in Version
  BY DEF TypeOK
<1>4. [k \in Cell |-> IF r[k] = None THEN None ELSE store[k]] \in Image
  BY <1>3 DEF Image
<1>5. \E x \in Turn : turn' = [turn EXCEPT ![s] = x]
  <2>1. CASE Plan(s, r, w, p.parts)
    <3>1. [reads |-> r, writes |-> w, parts |-> p.parts,
           attested |-> [k \in Cell |-> IF r[k] = None THEN None ELSE store[k]]] \in Turn
      BY <1>1, <1>2, <1>4 DEF Turn
    <3> QED
      BY <2>1, <3>1 DEF Plan
  <2>2. CASE Replan(s, r, w, p.parts)
    <3>1. [reads |-> r, writes |-> w, parts |-> p.parts, attested |-> r] \in Turn
      BY <1>1, <1>2 DEF Turn
    <3> QED
      BY <2>2, <3>1 DEF Replan
  <2> QED
    BY <2>1, <2>2
<1>6. turn' \in [Sender -> Turn]
  BY <1>5 DEF TypeOK
<1> QED
  BY <1>6 DEF TypeOK, Plan, Replan, owner, sender, adoptLane, relateLane

LEMMA SubmitTyped ==
  ASSUME TypeOK, NEW s \in Sender, Submit(s)
  PROVE  TypeOK'
<1> DEFINE t == turn[s]
<1>1. t \in Turn /\ seq[s] \in 0..MaxSeq /\ seq[s] < MaxSeq /\ residue[s] \in Image
  BY DEF TypeOK, Submit
<1>2. nextSeq(s) \in Number
  BY <1>1, CrossScopeAssumption DEF nextSeq, Number
<1>3. captureRiderPriors(s, t) \in Image
  BY <1>1 DEF captureRiderPriors, Image, Turn
<1>4. residueAfter(s, t) \in Image
  BY <1>1 DEF residueAfter, Image, Turn
<1> DEFINE adoption == [from |-> s, seq |-> nextSeq(s), reads |-> t.reads,
                        writes |-> t.writes, priors |-> captureRiderPriors(s, t)]
           fact == [from |-> s, seq |-> nextSeq(s), parts |-> t.parts]
<1>5. adoption \in Adoption /\ fact \in RelationFact
  BY <1>1, <1>2, <1>3 DEF Adoption, RelationFact, Turn
<1>6. expedited(fact) \subseteq RelationFact
  BY <1>5 DEF expedited, RelationFact
<1>7. NoTurn \in Turn
  BY DEF NoTurn, Turn, Nothing, Image
<1>8. /\ seq' \in [Sender -> 0..MaxSeq] /\ residue' \in [Sender -> Image]
      /\ turn' \in [Sender -> Turn]
  BY <1>1, <1>4, <1>7, CrossScopeAssumption DEF Submit, TypeOK
<1>9. /\ adoptRows' \subseteq Adoption /\ relateRows' \subseteq RelationFact
      /\ owed' \subseteq RelationFact /\ relateWire' \subseteq RelationFact
  BY <1>5, <1>6 DEF Submit, TypeOK
<1> QED
  BY <1>8, <1>9 DEF TypeOK, Submit, owner

LEMMA LanesTyped ==
  ASSUME TypeOK, SendRow \/ Acknowledged \/ Abandon
  PROVE  TypeOK'
<1>1. CASE SendRow
  BY <1>1 DEF SendRow, Send, TypeOK, owner, sender, adoptLane, relateLane
<1>2. CASE Acknowledged
  BY <1>2 DEF Acknowledged, TypeOK, owner, sender, adoptLane, relateLane
<1>3. CASE Abandon
  <2>1. /\ adoptRows' \subseteq Adoption /\ relateRows' \subseteq RelationFact
        /\ abandoned' \subseteq Route \X Sender \X Number
    BY <1>3 DEF Abandon, TypeOK, adoptLane, relateLane, Adoption, RelationFact, Route
  <2> QED
    BY <1>3, <2>1 DEF Abandon, TypeOK, owner, sender, adoptLane, relateLane
<1> QED
  BY <1>1, <1>2, <1>3

LEMMA OwnerTyped ==
  ASSUME TypeOK,
         \/ \E k \in Cell, v \in Version : OwnerCommit(k, v)
         \/ \E m \in adoptWire : Adopt(m)
         \/ \E m \in relateWire : Relate(m)
  PROVE  TypeOK'
<1>1. ASSUME NEW k \in Cell, NEW v \in Version, OwnerCommit(k, v)
      PROVE  TypeOK'
  BY <1>1, CrossScopeAssumption DEF OwnerCommit, TypeOK, sender, adoptLane, relateLane
<1>2. ASSUME NEW m \in adoptWire, Adopt(m)
      PROVE  TypeOK'
  <2>1. m \in Adoption
    BY <1>2 DEF TypeOK
  <2>2. accepted(m) \subseteq Cell
    BY DEF accepted
  <2>3. \A k \in accepted(m) : m.writes[k] \in Version
    BY <2>1, <2>2 DEF accepted, Adoption, Image
  <2>4. store' \in [Cell -> Version]
    BY <1>2, <2>3 DEF Adopt, TypeOK
  <2>5. handled' \subseteq Handled
    BY <1>2, <2>1, <2>2 DEF Adopt, TypeOK, Handled, Adoption, Route
  <2>6. adopted' \in [Sender -> 0..MaxSeq] /\ head' \in Nat
    BY <1>2, <2>1 DEF Adopt, TypeOK, Adoption, Number
  <2> QED
    BY <1>2, <2>4, <2>5, <2>6 DEF Adopt, TypeOK, sender, adoptLane, relateLane
<1>3. ASSUME NEW m \in relateWire, Relate(m)
      PROVE  TypeOK'
  <2>1. m \in RelationFact
    BY <1>3 DEF TypeOK
  <2>2. handled' \subseteq Handled
    BY <1>3, <2>1 DEF Relate, TypeOK, Handled, RelationFact, Route
  <2>3. related' \in [Sender -> 0..MaxSeq] /\ head' \in Nat
    BY <1>3, <2>1 DEF Relate, TypeOK, RelationFact, Number
  <2> QED
    BY <1>3, <2>2, <2>3 DEF Relate, TypeOK, sender, adoptLane, relateLane
<1> QED
  BY <1>1, <1>2, <1>3

\* Every variable keeps its type through planning, accepting, delivering and
\* adopting.
THEOREM CrossScopeTypeCorrect == Spec => []TypeOK
<1>1. Init => TypeOK
  BY CrossScopeAssumption
  DEF Init, TypeOK, Image, Nothing, NoTurn, Turn
<1>2. TypeOK /\ [Next]_vars => TypeOK'
  <2> SUFFICES ASSUME TypeOK, [Next]_vars PROVE TypeOK'
    OBVIOUS
  <2>1. CASE UNCHANGED vars
    BY <2>1 DEF TypeOK, vars
  <2>2. CASE \E s \in Sender, p \in Shape :
               \E r \in Over(p.reads), w \in Over(p.writes) :
                 Plan(s, r, w, p.parts) \/ Replan(s, r, w, p.parts)
    BY <2>2, PlanTyped
  <2>3. CASE \E s \in Sender : Submit(s)
    BY <2>3, SubmitTyped
  <2>4. CASE SendRow \/ Acknowledged \/ Abandon
    BY <2>4, LanesTyped
  <2>5. CASE \/ \E k \in Cell, v \in Version : OwnerCommit(k, v)
             \/ \E m \in adoptWire : Adopt(m)
             \/ \E m \in relateWire : Relate(m)
    BY <2>5, OwnerTyped
  <2> QED
    BY <2>1, <2>2, <2>3, <2>4, <2>5 DEF Next
<1> QED
  BY <1>1, <1>2, PTL DEF Spec

(***************************************************************************)
(* Numbers and marks.                                                      *)
(***************************************************************************)

\* What makes rides and marks fit together: rows and requests are numbered up
\* to the head of their sender and no mark is beyond it; a ride carries what
\* its turn read as what it observed; what is on its way is no newer than what
\* is still to be sent; and what was processed is at or below the mark.
Numbered ==
  /\ \A m \in adoptRows \cup adoptWire : m.seq <= seq[m.from]
  /\ \A m \in relateRows \cup relateWire : m.seq <= seq[m.from]
  /\ \A s \in Sender : adopted[s] <= seq[s] /\ related[s] <= seq[s]
Observed ==
  \A m \in adoptRows \cup adoptWire : \A k \in Cell :
    m.writes[k] # None /\ m.reads[k] # None => m.priors[k] = m.reads[k]
InLaneOrder ==
  \A m \in adoptWire, q \in adoptRows : m.from = q.from => m.seq <= q.seq
Marked ==
  /\ IsFiniteSet(handled)
  /\ \A h \in handled :
       /\ h.route = "/adopt" => h.seq <= adopted[h.from]
       /\ h.route = "/relate" => h.seq <= related[h.from]

RideInv ==
  TypeOK /\ Numbered /\ Observed /\ InLaneOrder /\ Marked
    /\ NoRidePassedOver /\ OneEventPerFact

Event(h) == h.route = "/relate" \/ h.applied # {}

\* A delivery above its mark was not processed before.
LEMMA OneMoreEvent ==
  ASSUME IsFiniteSet(handled), NEW e, e \notin handled,
         handled' = handled \cup {e}
  PROVE  /\ IsFiniteSet(handled')
         /\ Cardinality({h \in handled' : h.route = "/relate" \/ h.applied # {}})
              = Cardinality({h \in handled : h.route = "/relate" \/ h.applied # {}})
                  + (IF e.route = "/relate" \/ e.applied # {} THEN 1 ELSE 0)
         /\ Cardinality({h \in handled : h.route = "/relate" \/ h.applied # {}}) \in Nat
<1> DEFINE S == {h \in handled : Event(h)}
           T == {h \in handled' : Event(h)}
<1>1. IsFiniteSet(handled')
  BY FS_AddElement
<1>2. IsFiniteSet(S) /\ Cardinality(S) \in Nat
  BY FS_Subset, FS_CardinalityType
<1>3. e \notin S
  OBVIOUS
<1>4. CASE Event(e)
  <2>1. T = S \cup {e}
    BY <1>4
  <2>2. Cardinality(T) = Cardinality(S) + 1
    BY <1>2, <1>3, <2>1, FS_AddElement
  <2> QED
    BY <1>1, <1>2, <1>4, <2>2 DEF Event
<1>5. CASE ~Event(e)
  <2>1. T = S
    BY <1>5
  <2>2. Cardinality(T) = Cardinality(S) + 0
    BY <1>2, <2>1
  <2> QED
    BY <1>1, <1>2, <1>5, <2>2 DEF Event
<1> QED
  BY <1>4, <1>5

LEMMA RideInvInit == Init => RideInv
<1> SUFFICES ASSUME Init PROVE RideInv
  OBVIOUS
<1>1. TypeOK
  BY CrossScopeAssumption
  DEF Init, TypeOK, Image, Nothing, NoTurn, Turn
<1>2. IsFiniteSet({}) /\ Cardinality({}) = 0
  BY FS_EmptySet
<1>3. {h \in handled : h.route = "/relate" \/ h.applied # {}} = {}
  BY DEF Init
<1>4. OneEventPerFact
  BY <1>2, <1>3 DEF Init, OneEventPerFact
<1> QED
  BY <1>1, <1>2, <1>4
  DEF Init, RideInv, Numbered, Observed, InLaneOrder, Marked, NoRidePassedOver

\* A step that leaves the owner's records, the rides and the numbers alone.
LEMMA RideInvPlan ==
  ASSUME RideInv,
         UNCHANGED <<owner, sender, adoptLane, relateLane, abandoned>>
  PROVE  Numbered' /\ Observed' /\ InLaneOrder' /\ Marked'
           /\ NoRidePassedOver' /\ OneEventPerFact'
BY DEF RideInv, Numbered, Observed, InLaneOrder, Marked, NoRidePassedOver,
       OneEventPerFact, owner, sender, adoptLane, relateLane

LEMMA RideInvSubmit ==
  ASSUME RideInv, TypeOK', NEW s \in Sender, Submit(s)
  PROVE  Numbered' /\ Observed' /\ InLaneOrder' /\ Marked'
           /\ NoRidePassedOver' /\ OneEventPerFact'
<1> DEFINE t == turn[s]
           adoption == [from |-> s, seq |-> nextSeq(s), reads |-> t.reads,
                        writes |-> t.writes, priors |-> captureRiderPriors(s, t)]
           fact == [from |-> s, seq |-> nextSeq(s), parts |-> t.parts]
<1>1. /\ adoptRows' \subseteq adoptRows \cup {adoption} /\ adoptWire' = adoptWire
      /\ relateRows' \subseteq relateRows \cup {fact}
      /\ relateWire' = relateWire \cup expedited(fact)
      /\ seq' = [seq EXCEPT ![s] = @ + 1]
      /\ UNCHANGED owner
  BY DEF Submit
<1>2. \A f \in expedited(fact) : f.from = s /\ f.seq = nextSeq(s)
  BY DEF expedited
<1>3. /\ seq \in [Sender -> 0..MaxSeq] /\ seq' \in [Sender -> 0..MaxSeq]
      /\ adoptRows \subseteq Adoption /\ adoptWire \subseteq Adoption
      /\ relateRows \subseteq RelationFact /\ relateWire \subseteq RelationFact
      /\ adopted \in [Sender -> 0..MaxSeq] /\ related \in [Sender -> 0..MaxSeq]
  BY DEF RideInv, TypeOK
<1>4. nextSeq(s) = seq'[s] /\ nextSeq(s) > seq[s] /\ nextSeq(s) \in Nat
  BY <1>1, <1>3, CrossScopeAssumption DEF nextSeq
<1>5. \A x \in Sender : seq[x] <= seq'[x] /\ seq[x] \in Nat /\ seq'[x] \in Nat
  BY <1>1, <1>3, CrossScopeAssumption
<1>6. Numbered'
  <2>1. \A m \in adoptRows' \cup adoptWire' : m.seq <= seq'[m.from]
    <3> TAKE m \in adoptRows' \cup adoptWire'
    <3>1. CASE m \in adoptRows \cup adoptWire
      BY <3>1, <1>3, <1>5, CrossScopeAssumption DEF RideInv, Numbered, Adoption, Number
    <3>2. CASE m = adoption
      BY <3>2, <1>4
    <3> QED
      BY <1>1, <3>1, <3>2
  <2>2. \A m \in relateRows' \cup relateWire' : m.seq <= seq'[m.from]
    <3> TAKE m \in relateRows' \cup relateWire'
    <3>1. CASE m \in relateRows \cup relateWire
      BY <3>1, <1>3, <1>5, CrossScopeAssumption DEF RideInv, Numbered, RelationFact, Number
    <3>2. CASE m.from = s /\ m.seq = nextSeq(s)
      BY <3>2, <1>4
    <3> QED
      BY <1>1, <1>2, <3>1, <3>2
  <2>3. \A x \in Sender : adopted'[x] <= seq'[x] /\ related'[x] <= seq'[x]
    BY <1>1, <1>3, <1>5, CrossScopeAssumption DEF RideInv, Numbered, owner
  <2> QED
    BY <2>1, <2>2, <2>3 DEF Numbered
<1>7. Observed'
  <2>1. \A k \in Cell : t.writes[k] # None /\ t.reads[k] # None
                          => captureRiderPriors(s, t)[k] = t.reads[k]
    BY DEF Submit, validated, captureRiderPriors
  <2> QED
    BY <1>1, <2>1 DEF Observed, RideInv
<1>8. InLaneOrder'
  <2> SUFFICES ASSUME NEW m \in adoptWire', NEW q \in adoptRows', m.from = q.from
               PROVE  m.seq <= q.seq
    BY DEF InLaneOrder
  <2>1. CASE q \in adoptRows
    BY <2>1, <1>1 DEF RideInv, InLaneOrder
  <2>2. CASE q = adoption
    <3>1. m.seq \in Nat /\ m.seq <= seq[s]
      BY <2>2, <1>1, <1>3 DEF RideInv, Numbered, Adoption, Number
    <3> QED
      BY <2>2, <3>1, <1>4, <1>5
  <2> QED
    BY <1>1, <2>1, <2>2
<1>9. NoRidePassedOver'
  <2> SUFFICES ASSUME NEW m \in adoptRows', m.seq <= adopted'[m.from]
               PROVE  \E h \in handled' : h.route = "/adopt" /\ h.from = m.from /\ h.seq = m.seq
    BY DEF NoRidePassedOver
  <2>1. CASE m \in adoptRows
    BY <2>1, <1>1 DEF RideInv, NoRidePassedOver, owner
  <2>2. CASE m = adoption
    <3>1. adopted[s] <= seq[s] /\ adopted[s] \in Nat
      BY <1>3, CrossScopeAssumption DEF RideInv, Numbered
    <3> QED
      BY <2>2, <3>1, <1>1, <1>4, <1>5 DEF owner
  <2> QED
    BY <1>1, <2>1, <2>2
<1>10. Marked' /\ OneEventPerFact'
  BY <1>1 DEF RideInv, Marked, OneEventPerFact, owner
<1> QED
  BY <1>6, <1>7, <1>8, <1>9, <1>10

LEMMA RideInvLanes ==
  ASSUME RideInv, SendRow \/ Acknowledged \/ Abandon
  PROVE  Numbered' /\ Observed' /\ InLaneOrder' /\ Marked'
           /\ NoRidePassedOver' /\ OneEventPerFact'
<1>1. /\ adoptRows' \subseteq adoptRows /\ adoptWire' \subseteq adoptRows \cup adoptWire
      /\ relateRows' \subseteq relateRows /\ relateWire' \subseteq relateRows \cup relateWire
      /\ UNCHANGED <<owner, sender>>
  BY DEF SendRow, Send, Acknowledged, Abandon, adoptLane, relateLane
<1>2. \A m \in adoptWire' : \/ m \in adoptWire
                             \/ \A q \in adoptRows : q.from = m.from => m.seq <= q.seq
  BY DEF SendRow, Send, Acknowledged, Abandon, adoptLane, relateLane, firstInLane
<1>3. Numbered' /\ Observed'
  BY <1>1 DEF RideInv, Numbered, Observed, owner, sender
<1>4. InLaneOrder'
  BY <1>1, <1>2 DEF RideInv, InLaneOrder
<1>5. NoRidePassedOver' /\ Marked' /\ OneEventPerFact'
  BY <1>1 DEF RideInv, NoRidePassedOver, Marked, OneEventPerFact, owner
<1> QED
  BY <1>3, <1>4, <1>5

LEMMA RideInvOwnerCommit ==
  ASSUME RideInv, NEW k \in Cell, NEW v \in Version, OwnerCommit(k, v)
  PROVE  Numbered' /\ Observed' /\ InLaneOrder' /\ Marked'
           /\ NoRidePassedOver' /\ OneEventPerFact'
<1>1. UNCHANGED <<adopted, related, handled, sender, adoptLane, relateLane>>
  BY DEF OwnerCommit
<1>2. OneEventPerFact'
  <2> DEFINE n == Cardinality({h \in handled : h.route = "/relate" \/ h.applied # {}})
  <2>1. n \in Nat /\ commits \in Nat
    <3>1. IsFiniteSet({h \in handled : h.route = "/relate" \/ h.applied # {}})
      BY FS_Subset DEF RideInv, Marked
    <3> QED
      BY <3>1, FS_CardinalityType, CrossScopeAssumption DEF RideInv, TypeOK
  <2>2. head = commits + n /\ head' = head + 1 /\ commits' = commits + 1
    BY DEF RideInv, OneEventPerFact, OwnerCommit
  <2> HIDE DEF n
  <2>3. head' = commits' + n
    BY <2>1, <2>2
  <2> QED
    BY <1>1, <2>3 DEF OneEventPerFact, n
<1> QED
  BY <1>1, <1>2
  DEF RideInv, Numbered, Observed, InLaneOrder, Marked, NoRidePassedOver,
      sender, adoptLane, relateLane

LEMMA RideInvAdopt ==
  ASSUME RideInv, NEW m \in adoptWire, Adopt(m)
  PROVE  Numbered' /\ Observed' /\ InLaneOrder' /\ Marked'
           /\ NoRidePassedOver' /\ OneEventPerFact'
<1> DEFINE e == [route |-> "/adopt", from |-> m.from, seq |-> m.seq,
                 applied |-> accepted(m), parts |-> {}]
<1>1. /\ m \in Adoption /\ m.from \in Sender /\ m.seq \in Nat /\ m.seq <= seq[m.from]
      /\ adopted[m.from] \in Nat /\ m.seq > adopted[m.from]
  BY CrossScopeAssumption
  DEF RideInv, TypeOK, Adoption, Numbered, Adopt, fresh, Number
<1>2. /\ UNCHANGED <<commits, related, sender, adoptLane, relateLane>>
      /\ adopted' = [adopted EXCEPT ![m.from] = m.seq]
      /\ handled' = handled \cup {e}
      /\ head' = IF accepted(m) = {} THEN head ELSE head + 1
  BY DEF Adopt
<1>3. adopted \in [Sender -> 0..MaxSeq] /\ handled \subseteq Handled
  BY DEF RideInv, TypeOK
<1>4. e \notin handled
  BY <1>1 DEF RideInv, Marked
<1>5. Numbered'
  BY <1>1, <1>2, <1>3 DEF RideInv, Numbered, sender, adoptLane, relateLane
<1>6. Observed' /\ InLaneOrder'
  BY <1>2 DEF RideInv, Observed, InLaneOrder, adoptLane
<1>7. Marked'
  <2>1. IsFiniteSet(handled')
    BY <1>2, <1>4, OneMoreEvent DEF RideInv, Marked
  <2>2. ASSUME NEW h \in handled' 
        PROVE  /\ h.route = "/adopt" => h.seq <= adopted'[h.from]
               /\ h.route = "/relate" => h.seq <= related'[h.from]
    <3>1. CASE h = e
      BY <3>1, <1>1, <1>2, <1>3
    <3>2. CASE h \in handled
      <4>1. h.from \in Sender /\ h.seq \in Nat
        BY <3>2, <1>3 DEF Handled, Number
      <4>2. adopted[h.from] <= adopted'[h.from] /\ adopted[h.from] \in Nat
              /\ adopted'[h.from] \in Nat
        BY <4>1, <1>1, <1>2, <1>3, CrossScopeAssumption
      <4> QED
        BY <3>2, <4>1, <4>2, <1>2 DEF RideInv, Marked
    <3> QED
      BY <1>2, <3>1, <3>2
  <2> QED
    BY <2>1, <2>2 DEF Marked
<1>8. NoRidePassedOver'
  <2> SUFFICES ASSUME NEW q \in adoptRows', q.seq <= adopted'[q.from]
               PROVE  \E h \in handled' : h.route = "/adopt" /\ h.from = q.from /\ h.seq = q.seq
    BY DEF NoRidePassedOver
  <2>1. q \in adoptRows /\ q \in Adoption
    BY <1>2 DEF adoptLane, RideInv, TypeOK
  <2>2. CASE q.from # m.from
    BY <2>1, <2>2, <1>2, <1>3 DEF RideInv, NoRidePassedOver, Adoption
  <2>3. CASE q.from = m.from
    <3>1. m.seq <= q.seq /\ q.seq <= m.seq /\ q.seq \in Nat
      BY <2>1, <2>3, <1>1, <1>2, <1>3 DEF RideInv, InLaneOrder, Adoption, Number
    <3>2. q.seq = m.seq
      BY <3>1, <1>1
    <3>3. e \in handled' /\ e.route = "/adopt" /\ e.from = m.from /\ e.seq = m.seq
      BY <1>2
    <3> QED
      BY <2>3, <3>2, <3>3
  <2> QED
    BY <2>2, <2>3
<1>9. OneEventPerFact'
  <2> DEFINE n == Cardinality({h \in handled : h.route = "/relate" \/ h.applied # {}})
             w == Cardinality({h \in handled' : h.route = "/relate" \/ h.applied # {}})
  <2>1. n \in Nat /\ w = n + (IF e.route = "/relate" \/ e.applied # {} THEN 1 ELSE 0)
    BY <1>2, <1>4, OneMoreEvent DEF RideInv, Marked
  <2>2. head = commits + n /\ commits \in Nat
    BY CrossScopeAssumption DEF RideInv, OneEventPerFact, TypeOK
  <2>3. e.route # "/relate" /\ e.applied = accepted(m)
    OBVIOUS
  <2> HIDE DEF n, w, e
  <2>4. head' = commits' + w
    BY <2>1, <2>2, <2>3, <1>2
  <2> QED
    BY <2>4 DEF OneEventPerFact, w
<1> QED
  BY <1>5, <1>6, <1>7, <1>8, <1>9

LEMMA RideInvRelate ==
  ASSUME RideInv, NEW m \in relateWire, Relate(m)
  PROVE  Numbered' /\ Observed' /\ InLaneOrder' /\ Marked'
           /\ NoRidePassedOver' /\ OneEventPerFact'
<1> DEFINE e == [route |-> "/relate", from |-> m.from, seq |-> m.seq,
                 applied |-> {}, parts |-> m.parts]
<1>1. /\ m \in RelationFact /\ m.from \in Sender /\ m.seq \in Nat /\ m.seq <= seq[m.from]
      /\ related[m.from] \in Nat /\ m.seq > related[m.from]
  BY CrossScopeAssumption
  DEF RideInv, TypeOK, RelationFact, Numbered, Relate, fresh, Number
<1>2. /\ UNCHANGED <<commits, adopted, sender, adoptLane, relateLane>>
      /\ related' = [related EXCEPT ![m.from] = m.seq]
      /\ handled' = handled \cup {e}
      /\ head' = head + 1
  BY DEF Relate
<1>3. related \in [Sender -> 0..MaxSeq] /\ handled \subseteq Handled
  BY DEF RideInv, TypeOK
<1>4. e \notin handled
  BY <1>1 DEF RideInv, Marked
<1>5. Numbered'
  BY <1>1, <1>2, <1>3 DEF RideInv, Numbered, sender, adoptLane, relateLane
<1>6. Observed' /\ InLaneOrder'
  BY <1>2 DEF RideInv, Observed, InLaneOrder, adoptLane
<1>7. Marked'
  <2>1. IsFiniteSet(handled')
    BY <1>2, <1>4, OneMoreEvent DEF RideInv, Marked
  <2>2. ASSUME NEW h \in handled'
        PROVE  /\ h.route = "/adopt" => h.seq <= adopted'[h.from]
               /\ h.route = "/relate" => h.seq <= related'[h.from]
    <3>1. CASE h = e
      BY <3>1, <1>1, <1>2, <1>3
    <3>2. CASE h \in handled
      <4>1. h.from \in Sender /\ h.seq \in Nat
        BY <3>2, <1>3 DEF Handled, Number
      <4>2. related[h.from] <= related'[h.from] /\ related[h.from] \in Nat
              /\ related'[h.from] \in Nat
        BY <4>1, <1>1, <1>2, <1>3, CrossScopeAssumption
      <4> QED
        BY <3>2, <4>1, <4>2, <1>2 DEF RideInv, Marked
    <3> QED
      BY <1>2, <3>1, <3>2
  <2> QED
    BY <2>1, <2>2 DEF Marked
<1>8. NoRidePassedOver'
  BY <1>2 DEF RideInv, NoRidePassedOver, adoptLane
<1>9. OneEventPerFact'
  <2> DEFINE n == Cardinality({h \in handled : h.route = "/relate" \/ h.applied # {}})
             w == Cardinality({h \in handled' : h.route = "/relate" \/ h.applied # {}})
  <2>1. n \in Nat /\ w = n + (IF e.route = "/relate" \/ e.applied # {} THEN 1 ELSE 0)
    BY <1>2, <1>4, OneMoreEvent DEF RideInv, Marked
  <2>2. head = commits + n /\ commits \in Nat
    BY CrossScopeAssumption DEF RideInv, OneEventPerFact, TypeOK
  <2>3. e.route = "/relate"
    OBVIOUS
  <2> HIDE DEF n, w, e
  <2>4. head' = commits' + w
    BY <2>1, <2>2, <2>3, <1>2
  <2> QED
    BY <2>4 DEF OneEventPerFact, w
<1> QED
  BY <1>5, <1>6, <1>7, <1>8, <1>9

LEMMA RideInvStep == RideInv /\ TypeOK' /\ [Next]_vars => RideInv'
<1> SUFFICES ASSUME RideInv, TypeOK', [Next]_vars
             PROVE  Numbered' /\ Observed' /\ InLaneOrder' /\ Marked'
                      /\ NoRidePassedOver' /\ OneEventPerFact'
  BY DEF RideInv
<1>1. CASE UNCHANGED vars
  BY <1>1, RideInvPlan DEF vars, owner, sender, adoptLane, relateLane
<1>2. ASSUME NEW s \in Sender, NEW p \in Shape,
             NEW r \in Over(p.reads), NEW w \in Over(p.writes),
             Plan(s, r, w, p.parts) \/ Replan(s, r, w, p.parts)
      PROVE  UNCHANGED <<owner, sender, adoptLane, relateLane, abandoned>>
  BY <1>2 DEF Plan, Replan
<1>3. CASE \E s \in Sender : Submit(s)
  BY <1>3, RideInvSubmit
<1>4. CASE SendRow \/ Acknowledged \/ Abandon
  BY <1>4, RideInvLanes
<1>5. CASE \E k \in Cell, v \in Version : OwnerCommit(k, v)
  BY <1>5, RideInvOwnerCommit
<1>6. CASE \E m \in adoptWire : Adopt(m)
  BY <1>6, RideInvAdopt
<1>7. CASE \E m \in relateWire : Relate(m)
  BY <1>7, RideInvRelate
<1> QED
  BY <1>1, <1>2, <1>3, <1>4, <1>5, <1>6, <1>7, RideInvPlan DEF Next

LEMMA RideInvInvariant == Spec => []RideInv
BY RideInvInit, RideInvStep, CrossScopeTypeCorrect, PTL DEF Spec

\* The mark of a sender passes over no ride that is still in its outbox
\* (NoRidePassedOver), for any number of scopes, turns and lost requests.
THEOREM RidesInOrder == Spec => []NoRidePassedOver
<1>1. RideInv => NoRidePassedOver
  BY DEF RideInv
<1> QED
  BY <1>1, RideInvInvariant, PTL

\* However often a delivery is repeated, the owner's head moves once for it
\* (OneEventPerFact).
THEOREM EventsOnce == Spec => []OneEventPerFact
<1>1. RideInv => OneEventPerFact
  BY DEF RideInv
<1> QED
  BY <1>1, RideInvInvariant, PTL

(***************************************************************************)
(* Rides implement OwnerEffects.                                           *)
(***************************************************************************)

\* The rides that are open do not depend on which of the two holds the row.
LEMMA SameRides ==
  ASSUME adoptRows' \cup adoptWire' = adoptRows \cup adoptWire, adopted' = adopted
  PROVE  openRides' = openRides
BY DEF openRides, ride

LEMMA AcceptRide ==
  ASSUME RideInv, NEW s \in Sender, Submit(s)
  PROVE  Effects!Next \/ UNCHANGED <<store, openRides, adopted>>
<1> DEFINE t == turn[s]
           adoption == [from |-> s, seq |-> nextSeq(s), reads |-> t.reads,
                        writes |-> t.writes, priors |-> captureRiderPriors(s, t)]
           r == [from |-> s, seq |-> nextSeq(s), reads |-> t.reads, writes |-> t.writes]
<1>1. UNCHANGED <<store, adopted, adoptWire>>
  BY DEF Submit, owner
<1>2. CASE t.writes = Nothing
  <2>1. adoptRows' = adoptRows
    BY <1>2 DEF Submit
  <2> QED
    BY <1>1, <2>1, SameRides
<1>3. CASE t.writes # Nothing
  <2>1. adoptRows' = adoptRows \cup {adoption}
    BY <1>3 DEF Submit
  <2>2. /\ adopted[s] \in Nat /\ seq[s] \in Nat /\ adopted[s] <= seq[s]
        /\ nextSeq(s) = seq[s] + 1
    BY CrossScopeAssumption DEF RideInv, TypeOK, Numbered, nextSeq
  <2>3. ride(adoption) = r /\ adoption.from = s /\ adoption.seq = nextSeq(s)
    BY DEF ride
  <2>4. openRides' = openRides \cup {r}
    <3> HIDE DEF adoption, r
    <3>1. adoption.seq > adopted[adoption.from]
      BY <2>2, <2>3
    <3>2. {q \in adoptRows' \cup adoptWire' : q.seq > adopted'[q.from]}
            = {q \in adoptRows \cup adoptWire : q.seq > adopted[q.from]} \cup {adoption}
      BY <1>1, <2>1, <3>1
    <3> QED
      BY <2>3, <3>2 DEF openRides, ride
  <2>5. r \in Effects!Ride
    BY <2>2 DEF Effects!Ride, Effects!Image, RideInv, TypeOK, Turn, Image
  <2>6. \A q \in openRides : q.from = s => q.seq < nextSeq(s)
    BY <2>2 DEF openRides, ride, RideInv, Numbered, TypeOK, Adoption, Number
  <2>7. Effects!Accept(r)
    BY <1>1, <2>2, <2>4, <2>5, <2>6 DEF Effects!Accept
  <2>8. r \in openRides'
    BY <2>4
  <2> QED
    BY <2>7, <2>8 DEF Effects!Next
<1> QED
  BY <1>2, <1>3

LEMMA SettleRide ==
  ASSUME RideInv, NEW m \in adoptWire, Adopt(m)
  PROVE  Effects!Next
<1> DEFINE A == IF catalogMutation(m) THEN {}
                ELSE {k \in Cell : /\ m.writes[k] # None
                                   /\ m.priors[k] # None => m.priors[k] = store[k]}
<1>1. /\ m \in Adoption /\ m.from \in Sender /\ m.seq \in Nat
      /\ m.seq > adopted[m.from] /\ adopted \in [Sender -> 0..MaxSeq]
      /\ adopted' = [adopted EXCEPT ![m.from] = m.seq]
      /\ UNCHANGED <<adoptRows, adoptWire>>
  BY CrossScopeAssumption DEF RideInv, TypeOK, Adoption, Adopt, fresh, Number, adoptLane
<1>2. ride(m) \in openRides
  BY <1>1 DEF openRides
<1>3. openRides' = {q \in openRides : q.from = ride(m).from => q.seq > ride(m).seq}
  <2>1. adoptRows \cup adoptWire \subseteq Adoption
    BY DEF RideInv, TypeOK
  <2>2. \A q \in adoptRows \cup adoptWire :
          q.seq > adopted'[q.from]
            <=> q.seq > adopted[q.from] /\ (q.from = m.from => q.seq > m.seq)
    BY <1>1, <2>1, CrossScopeAssumption DEF Adoption, Number
  <2> QED
    BY <1>1, <2>2 DEF openRides, ride
<1>4. \A k \in Cell : m.writes[k] # None /\ m.reads[k] # None => m.priors[k] = m.reads[k]
  BY DEF RideInv, Observed
<1>5. A = {} \/ Effects!Fits(ride(m), A)
  BY <1>4 DEF Effects!Fits, ride
<1>6. store' = [k \in Cell |-> IF k \in A THEN ride(m).writes[k] ELSE store[k]]
  <2>1. store \in [Cell -> Version]
    BY DEF RideInv, TypeOK
  <2>2. \A k \in Cell : (IF k \in accepted(m) THEN m.writes[k] ELSE store[k])
                         = (IF k \in A THEN m.writes[k] ELSE store[k])
    BY <2>1 DEF accepted
  <2> QED
    BY <2>2 DEF Adopt, ride
<1>7. A \in SUBSET Cell
  OBVIOUS
<1>8. Effects!Settle(ride(m))
  <2> HIDE DEF A
  <2> QED
    BY <1>1, <1>2, <1>3, <1>5, <1>6, <1>7 DEF Effects!Settle, ride
<1> QED
  BY <1>2, <1>8 DEF Effects!Next

\* Every behaviour of the outbox, the gateway and the owner is one in which
\* rides take effect once, in order and never over a value their turn did not
\* read (ImplementsOwnerEffects; captureRiderPriors and adopt).
THEOREM RidesImplementOwnerEffects == Spec => ImplementsOwnerEffects
<1>1. Init => Effects!Init
  BY DEF Init, Effects!Init, openRides
<1>2. RideInv /\ [Next]_vars => [Effects!Next]_(Effects!vars)
  <2> SUFFICES ASSUME RideInv, [Next]_vars
               PROVE  Effects!Next \/ UNCHANGED <<store, openRides, adopted>>
    BY DEF Effects!vars
  <2>1. CASE UNCHANGED vars
    BY <2>1, SameRides DEF vars
  <2>2. CASE \E s \in Sender, p \in Shape :
               \E r \in Over(p.reads), w \in Over(p.writes) :
                 Plan(s, r, w, p.parts) \/ Replan(s, r, w, p.parts)
    BY <2>2, SameRides DEF Plan, Replan, owner, adoptLane
  <2>3. CASE \E s \in Sender : Submit(s)
    BY <2>3, AcceptRide
  <2>4. CASE SendRow \/ Acknowledged \/ Abandon
    <3>1. adoptRows' \cup adoptWire' = adoptRows \cup adoptWire /\ UNCHANGED owner
      BY <2>4 DEF SendRow, Send, Acknowledged, Abandon, adoptLane, relateLane
    <3> QED
      BY <3>1, SameRides DEF owner
  <2>5. CASE \E k \in Cell, v \in Version : OwnerCommit(k, v)
    <3>1. UNCHANGED <<adopted, adoptRows, adoptWire>> /\ store' \in [Cell -> Version]
      BY <2>5 DEF OwnerCommit, adoptLane, RideInv, TypeOK
    <3> QED
      BY <3>1, SameRides DEF Effects!Next, Effects!OwnerWrites
  <2>6. CASE \E m \in adoptWire : Adopt(m)
    BY <2>6, SettleRide
  <2>7. CASE \E m \in relateWire : Relate(m)
    BY <2>7, SameRides DEF Relate, adoptLane
  <2> QED
    BY <2>1, <2>2, <2>3, <2>4, <2>5, <2>6, <2>7 DEF Next
<1> QED
  BY <1>1, <1>2, RideInvInvariant, PTL DEF Spec, ImplementsOwnerEffects, Effects!Spec
=============================================================================
