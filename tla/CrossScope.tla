----------------------------- MODULE CrossScope -----------------------------
(***************************************************************************)
(* Turns that commit at one scope and change state owned by another: rider *)
(* cells (/adopt) and relation rows with their announcements (/relate).    *)
(*                                                                         *)
(* A gateway plans a turn on its derived view, has the owner attest what   *)
(* the turn read there, and submits it to the committing scope, a Sender.  *)
(* The accepting transaction leaves outbox rows for the owner, numbered by *)
(* the sender's head; the owner applies a row once, above a high-water per *)
(* route and sender.  The gateway delivers presence changes itself too,    *)
(* ahead of the outbox (expediteForeignRelations).                         *)
(*                                                                         *)
(* What is abstracted:                                                     *)
(*   - One owner.  Its fanout to subscribers is its event count (head).    *)
(*   - A version is the content address of a value: equal versions are     *)
(*     equal values.  Absent is the version of a cell that is not there.   *)
(*   - The view a turn is planned on may be of any age; planning and the   *)
(*     attestation of its reads are one step.                              *)
(*   - A relation fact is the kinds of what it carries: rows of the        *)
(*     contents and presence families with their announcements, and        *)
(*     observations the gateway addressed to the owner by index.  Each     *)
(*     changes something at the owner.                                     *)
(*   - A lane sends its first pending row; acknowledgement and abandonment *)
(*     are those of OutboxDrain.  A request that was sent may arrive late, *)
(*     again or never.  All of it is durable: a crash only repeats a send. *)
(*   - Turns that touch nothing of the owner's only leave holes in the     *)
(*     senders' numbers.                                                   *)
(***************************************************************************)
EXTENDS Integers, FiniteSets

CONSTANTS
  Sender,        \* the committing scopes
  Cell,          \* the owner's cells that ride
  Definition,    \* those that only a catalog epoch may change
  Version, Absent, None,
  Shape,         \* what turns read and write of the owner's, and relate to it
  MaxSeq, MaxTurns, MaxCommits, MaxAbandoned      \* bounds

Relation == {"contents", "presence", "observation"}

ASSUME CrossScopeAssumption ==
  /\ Definition \subseteq Cell
  /\ Absent \in Version /\ None \notin Version
  /\ Shape \subseteq [reads : SUBSET Cell, writes : SUBSET Cell, parts : SUBSET Relation]
  /\ \A p \in Shape : p.writes # {} \/ p.parts # {}
  /\ MaxSeq \in Nat /\ MaxTurns \in Nat /\ MaxCommits \in Nat /\ MaxAbandoned \in Nat

VARIABLES
  store,        \* the owner's cells
  commits,      \* how many commits of its own the owner has made
  head,         \* the owner's head
  adopted, related,          \* net_scope_adopted, net_scope_related
  handled,      \* the deliveries the owner has processed, and what they did
  seq,          \* the head of each sender
  residue,      \* the senders' copies of ridden cells
  turn,         \* the turn a gateway has planned for each sender
  adoptRows, relateRows,     \* the senders' outbox rows
  adoptWire, relateWire,     \* requests sent to the owner
  abandoned,    \* rows given up
  owed          \* the relation facts of accepted turns

owner == <<store, commits, head, adopted, related, handled>>
sender == <<seq, residue, owed>>
adoptLane == <<adoptRows, adoptWire>>
relateLane == <<relateRows, relateWire>>
vars == <<store, commits, head, adopted, related, handled, seq, residue, turn,
          adoptRows, relateRows, adoptWire, relateWire, abandoned, owed>>

Number == 1..MaxSeq
Image == [Cell -> Version \cup {None}]
Nothing == [k \in Cell |-> None]
Route == {"/adopt", "/relate"}

\* What the turn read is not in the body; it is kept to say what a ride may do.
Adoption == [from : Sender, seq : Number, reads : Image, writes : Image,
             priors : Image]
RelationFact == [from : Sender, seq : Number, parts : SUBSET Relation]
Turn == [reads : Image, attested : Image, writes : Image,
         parts : SUBSET Relation]
Handled == [route : Route, from : Sender, seq : Number,
            applied : SUBSET Cell, parts : SUBSET Relation]

NoTurn == [reads |-> Nothing, attested |-> Nothing, writes |-> Nothing,
           parts |-> {}]

TypeOK ==
  /\ store \in [Cell -> Version]
  /\ commits \in 0..MaxCommits /\ head \in Nat
  /\ adopted \in [Sender -> 0..MaxSeq] /\ related \in [Sender -> 0..MaxSeq]
  /\ handled \subseteq Handled
  /\ seq \in [Sender -> 0..MaxSeq] /\ residue \in [Sender -> Image]
  /\ turn \in [Sender -> Turn]
  /\ adoptRows \subseteq Adoption /\ adoptWire \subseteq Adoption
  /\ relateRows \subseteq RelationFact /\ relateWire \subseteq RelationFact
  /\ abandoned \subseteq Route \X Sender \X Number
  /\ owed \subseteq RelationFact

(***************************************************************************)
(* The gateway.                                                            *)
(***************************************************************************)

\* foreignAttestationMismatches, and step 7 of submit: what the turn read is
\* what the owner attested.
validated(t) ==
  \A k \in Cell : t.reads[k] # None => t.attested[k] = t.reads[k]

\* The images that say something of just the cells of D.
Over(D) == {f \in Image : \A k \in Cell : f[k] # None <=> k \in D}

\* How many turns there have been.
turns == Cardinality({n \in Sender \X Number : n[2] <= seq[n[1]]})
           + Cardinality({s \in Sender : turn[s] # NoTurn})

\* The turn reads r, writes w and carries the relation fact p; the owner
\* attests its current versions of what it read.
Plan(s, r, w, p) ==
  /\ ~validated(turn[s]) \/ (turn[s] = NoTurn /\ turns < MaxTurns)
  /\ turn' = [turn EXCEPT ![s] =
       [reads |-> r, writes |-> w, parts |-> p,
        attested |-> [k \in Cell |-> IF r[k] = None THEN None ELSE store[k]]]]
  /\ UNCHANGED <<owner, sender, adoptLane, relateLane, abandoned>>

\* A mismatch found before the submit: the turn is planned again, and the
\* attestation is used again where it covers the new reads (canReuse).
Replan(s, r, w, p) ==
  /\ ~validated(turn[s])
  /\ \A k \in Cell : r[k] # None => turn[s].attested[k] = r[k]
  /\ turn' = [turn EXCEPT ![s] =
       [reads |-> r, writes |-> w, parts |-> p, attested |-> r]]
  /\ UNCHANGED <<owner, sender, adoptLane, relateLane, abandoned>>

\* expediteForeignRelations: a batch with presence rows goes to the owner at
\* once, with the announcements of its rows.
expedited(f) ==
  IF "presence" \in f.parts THEN {[f EXCEPT !.parts = @ \ {"observation"}]} ELSE {}

(***************************************************************************)
(* The committing scope.                                                   *)
(***************************************************************************)

\* Faulty variant: the scope's own copy comes before the attestation.
captureRiderPriors_residueFirst(s, t) ==
  [k \in Cell |-> IF t.writes[k] = None THEN None
                  ELSE IF residue[s][k] # None THEN residue[s][k] ELSE t.attested[k]]

\* What the turn observed of each cell it rides with: the attested version, or
\* this scope's copy from an earlier ride, or nothing.
captureRiderPriors(s, t) ==
  [k \in Cell |-> IF t.writes[k] = None THEN None
                  ELSE IF t.attested[k] # None THEN t.attested[k] ELSE residue[s][k]]

\* The scope's copies after the commit; it keeps none of a removed cell.
residueAfter(s, t) ==
  [k \in Cell |-> IF t.writes[k] = None THEN residue[s][k]
                  ELSE IF t.writes[k] = Absent THEN None ELSE t.writes[k]]

\* Faulty variant: rows are numbered by the head before the commit.
nextSeq_before(s) == seq[s]

nextSeq(s) == seq[s] + 1

\* The scope accepts the turn; enqueueDeliveries leaves the rows in the same
\* transaction, and the gateway hears the reply and expedites.
Submit(s) ==
  LET t == turn[s]
      adoption == [from |-> s, seq |-> nextSeq(s), reads |-> t.reads,
                   writes |-> t.writes, priors |-> captureRiderPriors(s, t)]
      fact == [from |-> s, seq |-> nextSeq(s), parts |-> t.parts]
  IN  /\ t # NoTurn /\ validated(t)
      /\ seq[s] < MaxSeq
      /\ seq' = [seq EXCEPT ![s] = @ + 1]
      /\ residue' = [residue EXCEPT ![s] = residueAfter(s, t)]
      /\ turn' = [turn EXCEPT ![s] = NoTurn]
      /\ adoptRows' = adoptRows \cup (IF t.writes = Nothing THEN {} ELSE {adoption})
      /\ relateRows' = relateRows \cup (IF t.parts = {} THEN {} ELSE {fact})
      /\ owed' = owed \cup (IF t.parts = {} THEN {} ELSE {fact})
      /\ relateWire' = relateWire \cup expedited(fact)
      /\ UNCHANGED <<owner, adoptWire, abandoned>>

\* Faulty variant: the rows of a lane leave in any order.
firstInLane_any(rows, m) == m \in rows

firstInLane(rows, m) ==
  m \in rows /\ \A q \in rows : q.from = m.from => m.seq <= q.seq

Send ==
  \/ \E m \in adoptRows :
       /\ firstInLane(adoptRows, m)
       /\ adoptWire' = adoptWire \cup {m}
       /\ UNCHANGED <<adoptRows, relateLane>>
  \/ \E m \in relateRows :
       /\ firstInLane(relateRows, m)
       /\ relateWire' = relateWire \cup {m}
       /\ UNCHANGED <<relateRows, adoptLane>>

SendRow ==
  /\ Send
  /\ UNCHANGED <<owner, sender, turn, abandoned>>

\* The owner has answered: the row is deleted.
Acknowledged ==
  /\ \/ \E m \in adoptRows \cap adoptWire :
          /\ m.seq <= adopted[m.from]
          /\ adoptRows' = adoptRows \ {m}
          /\ UNCHANGED <<adoptWire, relateLane>>
     \/ \E m \in relateRows \cap relateWire :
          /\ m.seq <= related[m.from]
          /\ relateRows' = relateRows \ {m}
          /\ UNCHANGED <<relateWire, adoptLane>>
  /\ UNCHANGED <<owner, sender, turn, abandoned>>

\* The first row of a lane has failed too often.
Abandon ==
  /\ Cardinality(abandoned) < MaxAbandoned
  /\ \/ \E m \in adoptRows \cap adoptWire :
          /\ firstInLane(adoptRows, m)
          /\ adoptRows' = adoptRows \ {m}
          /\ abandoned' = abandoned \cup {<<"/adopt", m.from, m.seq>>}
          /\ UNCHANGED <<adoptWire, relateLane>>
     \/ \E m \in relateRows \cap relateWire :
          /\ firstInLane(relateRows, m)
          /\ relateRows' = relateRows \ {m}
          /\ abandoned' = abandoned \cup {<<"/relate", m.from, m.seq>>}
          /\ UNCHANGED <<relateWire, adoptLane>>
  /\ UNCHANGED <<owner, sender, turn>>

(***************************************************************************)
(* The owner.                                                              *)
(***************************************************************************)

\* A turn of the owner's own.
OwnerCommit(k, v) ==
  /\ commits < MaxCommits
  /\ store' = [store EXCEPT ![k] = v]
  /\ commits' = commits + 1 /\ head' = head + 1
  /\ UNCHANGED <<adopted, related, handled, sender, turn, adoptLane,
                 relateLane, abandoned>>

\* Faulty variant: the last delivery of a sender is processed again.
fresh_repeats(m, last) == m.seq >= last[m.from]

fresh(m, last) == m.seq > last[m.from]

\* Definition cells are refused, with everything that came with them.
catalogMutation(m) == \E k \in Definition : m.writes[k] # None

\* The cells a ride is applied to: what it observed still stands, or it
\* observed nothing.  Deleting what is not there does nothing.
accepted(m) ==
  IF catalogMutation(m) THEN {}
  ELSE {k \in Cell : /\ m.writes[k] # None
                     /\ m.priors[k] # None => m.priors[k] = store[k]
                     /\ m.writes[k] = Absent => store[k] # Absent}

\* adopt, of the shell and of the sequencer: one transaction.  The mark moves
\* whatever becomes of the ride.
Adopt(m) ==
  /\ m \in adoptWire /\ fresh(m, adopted)
  /\ store' = [k \in Cell |-> IF k \in accepted(m) THEN m.writes[k] ELSE store[k]]
  /\ head' = IF accepted(m) = {} THEN head ELSE head + 1
  /\ adopted' = [adopted EXCEPT ![m.from] = m.seq]
  /\ handled' = handled \cup {[route |-> "/adopt", from |-> m.from, seq |-> m.seq,
                               applied |-> accepted(m), parts |-> {}]}
  /\ UNCHANGED <<commits, related, sender, turn, adoptLane, relateLane, abandoned>>

\* relate, and applyForeignRelationDeltas: one owner event per fact.
Relate(m) ==
  /\ m \in relateWire /\ fresh(m, related)
  /\ head' = head + 1
  /\ related' = [related EXCEPT ![m.from] = m.seq]
  /\ handled' = handled \cup {[route |-> "/relate", from |-> m.from, seq |-> m.seq,
                               applied |-> {}, parts |-> m.parts]}
  /\ UNCHANGED <<store, commits, adopted, sender, turn, adoptLane, relateLane,
                 abandoned>>

Init ==
  /\ store \in [Cell -> Version]
  /\ commits = 0 /\ head = 0
  /\ adopted = [s \in Sender |-> 0] /\ related = [s \in Sender |-> 0]
  /\ handled = {}
  /\ seq = [s \in Sender |-> 0]
  /\ residue = [s \in Sender |-> Nothing]
  /\ turn = [s \in Sender |-> NoTurn]
  /\ adoptRows = {} /\ relateRows = {} /\ adoptWire = {} /\ relateWire = {}
  /\ abandoned = {} /\ owed = {}

Next ==
  \/ \E s \in Sender, p \in Shape : \E r \in Over(p.reads), w \in Over(p.writes) :
       Plan(s, r, w, p.parts) \/ Replan(s, r, w, p.parts)
  \/ \E s \in Sender : Submit(s)
  \/ SendRow \/ Acknowledged \/ Abandon
  \/ \E k \in Cell, v \in Version : OwnerCommit(k, v)
  \/ \E m \in adoptWire : Adopt(m)
  \/ \E m \in relateWire : Relate(m)

Spec == Init /\ [][Next]_vars

(***************************************************************************)
(* What riding with another scope's commit promises.                       *)
(***************************************************************************)

\* A ride that a turn of this sender left and the owner has not processed.
ride(m) == [from |-> m.from, seq |-> m.seq, reads |-> m.reads, writes |-> m.writes]
openRides ==
  {ride(m) : m \in {q \in adoptRows \cup adoptWire : q.seq > adopted[q.from]}}

Effects == INSTANCE OwnerEffects
             WITH cells <- store, rides <- openRides, settled <- adopted

\* Over lost, late, repeated and reordered requests, stale attestations, stale
\* copies and abandoned rows, rides behave as if each took effect at the owner
\* in one step, at most once, in the order of its sender, and never over a
\* value other than the one its turn read (captureRiderPriors, adopt).
ImplementsOwnerEffects == Effects!Spec

\* Whatever is delivered twice, the owner's head moves once for each fact that
\* changed something, so subscribers hear of it once (the high-waters).
OneEventPerFact ==
  head = commits + Cardinality({h \in handled : h.route = "/relate" \/ h.applied # {}})

\* The mark passes over no ride that is still to be delivered: one that was
\* not processed has been abandoned (lane order, the single sender per number).
NoRidePassedOver ==
  \A m \in adoptRows : m.seq <= adopted[m.from] =>
    \E h \in handled : h.route = "/adopt" /\ h.from = m.from /\ h.seq = m.seq

\* "the durable outbox converges the owner asynchronously"
\* (spec/protocol/coherence.md, on a failed relation expedite): once the mark
\* has passed a relation fact, the owner has recorded the whole of it, unless
\* its row was abandoned.
RelationFactsArrive ==
  \A f \in owed : f.seq <= related[f.from] =>
    \/ \E h \in handled : /\ h.route = "/relate" /\ h.from = f.from
                          /\ h.seq = f.seq /\ f.parts \subseteq h.parts
    \/ <<"/relate", f.from, f.seq>> \in abandoned
=============================================================================
