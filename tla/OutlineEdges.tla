----------------------------- MODULE OutlineEdges -----------------------------
(***************************************************************************)
(* Ordered edges: one cell per item holds its parent and a fractional rank *)
(* among its siblings (core/fractional-rank.ts, core/ordered-edge.ts,      *)
(* net/ordered-edges.ts), edited by the outliner's verbs.                  *)
(*                                                                         *)
(* A turn is planned at a gateway from orderings it fetched from the owner *)
(* at different moments and from cells, and submitted later.  The owner    *)
(* commits it when every ordering and every cell it read is unchanged, and *)
(* else has it planned again (scope.ts, step 7b).  Nobody ever renumbers.  *)
(*                                                                         *)
(* A rank is a sequence of digits below Base (62 in the code); comparing   *)
(* two keys as strings is comparing the sequences lexicographically.       *)
(* Locations and cells are read at the moment of planning; a staler read  *)
(* is refused or equal at the commit, as a plan that aged is.              *)
(* Left out: undo, the silent detach of a raw recycle, orderings of        *)
(* several containers in one turn, authorization.                          *)
(***************************************************************************)
EXTENDS Integers, Sequences, SequencesExt, FiniteSets, FiniteSetsExt

CONSTANTS
  Item,        \* outline items, each created at most once
  Root,        \* the null parent
  Actor,       \* players with a turn in flight
  Base,        \* number of digits
  MaxCommits   \* bound on committed edits

ASSUME EdgesAssumption ==
  /\ Base \in Nat /\ Base > 2 /\ Root \notin Item
  /\ IsFiniteSet(Item) /\ IsFiniteSet(Actor) /\ MaxCommits \in Nat

VARIABLES
  edge,      \* the authority's edge cell of each item
  born,      \* items that were ever added
  turn,      \* the call each actor has in flight
  fetched,   \* the orderings fetched for it
  plan,      \* its planned transcript, once there is one
  commits

vars == <<edge, born, turn, fetched, plan, commits>>

Holder == Item \cup {Root}
Detached == [parent |-> Root, rank |-> <<>>]
NoCall == [op |-> "none", item |-> Root, parent |-> Root, index |-> 0]
Unfetched == <<[child |-> Root, rank |-> <<>>]>>
NoPlan == [writes |-> <<>>, located |-> {}, cells |-> <<>>]

(***************************************************************************)
(* Ranks                                                                   *)
(***************************************************************************)
Rank == Seq(0 .. Base - 1)

isValidRank(a) == a # <<>> /\ a \in Rank /\ Last(a) # 0

\* Plain string order.
sortsBefore(a, b) ==
  \/ \E k \in DOMAIN a \cap DOMAIN b : a[k] < b[k] /\ \A j \in 1 .. k - 1 : a[j] = b[j]
  \/ IsStrictPrefix(a, b)

\* A key as a fraction: the digits past its end are zero.
digitAt(a, k) == IF k <= Len(a) THEN a[k] ELSE 0

digits(a, n) == [k \in 1 .. n |-> digitAt(a, k)]

\* Math.round((x + y) / 2)
middle(x, y) == (x + y + 1) \div 2

\* Keep the digits of a from position k on until one leaves room below Base.
above(a, k) ==
  LET j == Min({n \in k .. k + Len(a) : Base - digitAt(a, n) > 1})
  IN  Append(digits(a, j - 1), middle(digitAt(a, j), Base))

\* The shared run of a and b, then one digit between theirs, or b's digit when
\* b goes on, or a's digit and something above a's tail.
midpoint(a, b) ==
  LET k == Min({n \in 1 .. Len(b) : digitAt(a, n) # b[n]})
  IN  IF b[k] - digitAt(a, k) > 1
      THEN Append(digits(b, k - 1), middle(digitAt(a, k), b[k]))
      ELSE IF k < Len(b) THEN digits(b, k)
      ELSE above(a, k + 1)

rankAfter_offByOne(a) ==
  IF Last(a) + 1 <= Base THEN Append(Front(a), Last(a) + 1)
  ELSE Append(a, Base \div 2)

rankAfter(a) ==
  IF Last(a) + 1 < Base THEN Append(Front(a), Last(a) + 1)
  ELSE Append(a, Base \div 2)

rankBefore_downToZero(b) ==
  IF Last(b) > 0 THEN Append(Front(b), Last(b) - 1)
  ELSE Front(b) \o <<0, Base \div 2>>

rankBefore(b) ==
  IF Last(b) > 1 THEN Append(Front(b), Last(b) - 1)
  ELSE Front(b) \o <<0, Base \div 2>>

\* <<>> stands for null on either side.
rankBetween(a, b) ==
  CASE b = <<>> /\ a = <<>> -> <<middle(0, Base)>>
    [] b = <<>> /\ a # <<>> -> rankAfter(a)
    [] b # <<>> /\ a = <<>> -> rankBefore(b)
    [] OTHER -> midpoint(a, b)

(***************************************************************************)
(* Orderings                                                               *)
(***************************************************************************)
attached(i) == edge[i].rank # <<>>

kids(p) == {i \in Item : attached(i) /\ edge[i].parent = p}

rowsOf(p) == {[child |-> i, rank |-> edge[i].rank] : i \in kids(p)}

\* s lists the rows of R, each once, in rank order.
lists(s, R) ==
  /\ {s[k] : k \in DOMAIN s} = R
  /\ \A j, k \in DOMAIN s : j < k => s[j] # s[k] /\ ~sortsBefore(s[k].rank, s[j].rank)

inOrder(R) == CHOOSE s \in [1 .. Cardinality(R) -> R] : lists(s, R)

\* orderedChildren: the rows of a parent in rank order; their content is the
\* version that a turn attests.
orderedChildren(p) == inOrder(rowsOf(p))

without_keeps(rows, i) == rows

without(rows, i) == RemoveFirstMatch(rows, LAMBDA r : r.child = i)

\* orderedNeighborsFromRows: the keys on the two sides of a slot, and the key
\* that the slot gets.
before(rows, k) == IF k > 0 THEN rows[k].rank ELSE <<>>
after(rows, k) == IF k < Len(rows) THEN rows[k + 1].rank ELSE <<>>
slotRank(rows, k) == rankBetween(before(rows, k), after(rows, k))

\* The position of a child in the list; the first one when the list, fetched
\* before the child's edge was read, does not have it.
indexOf(rows, i) == Max({1} \cup {k \in DOMAIN rows : rows[k].child = i})

(***************************************************************************)
(* The verbs, planned from the fetched orderings and the cells             *)
(***************************************************************************)
\* p and its ancestors, as the cycle guard of move_item walks them: the items
\* in every set that holds p and the parents of its members.
lineage(p) ==
  {j \in Item : \A S \in SUBSET Item :
     (p \in S \cup {Root} /\ \A x \in S : edge[x].parent \in S \cup {Root}) => j \in S}

\* The orderings a call reads.
needs(c) == CASE c.op = "add"     -> {c.parent}
              [] c.op = "move"    -> {c.parent, edge[c.item].parent}
              [] c.op = "reorder" -> {edge[c.item].parent}
              [] c.op = "remove"  -> {c.item, edge[c.item].parent}

\* A transcript: the edges it writes, and the locations and the edge cells it
\* read.  It also attests every ordering that was fetched for the call.
transcript(writes, located, cells) ==
  [writes |-> writes, located |-> located \ {Root}, cells |-> [i \in cells |-> edge[i]]]

one(i, p, r) == [j \in {i} |-> [parent |-> p, rank |-> r]]

\* A parent has to be in this outliner.
usable(p) == p = Root \/ attached(p)

addItem(c, rows) ==
  IF usable(c.parent) /\ c.index <= Len(rows[c.parent])
  THEN transcript(one(c.item, c.parent, slotRank(rows[c.parent], c.index)),
                  {c.parent}, {})
  ELSE NoPlan

\* move_item: the slot is counted without the item itself, and an unchanged slot
\* is no edit.
moveItem(c, rows) ==
  LET from == edge[c.item].parent
      rest == without(rows[c.parent], c.item)
  IN  IF /\ attached(c.item) /\ usable(c.parent) /\ c.item \notin lineage(c.parent)
         /\ c.index <= Len(rest)
         /\ from = c.parent => indexOf(rows[from], c.item) # c.index + 1
      THEN transcript(one(c.item, c.parent, slotRank(rest, c.index)),
                      {c.item, c.parent}, {c.item} \cup lineage(c.parent))
      ELSE NoPlan

\* reorder_item: a slot in the list of the item's own parent, which is not read
\* itself.
reorderItem(c, rows) ==
  LET from == edge[c.item].parent
      rest == without(rows[from], c.item)
  IN  IF attached(c.item) /\ c.index <= Len(rest) /\ indexOf(rows[from], c.item) # c.index + 1
      THEN transcript(one(c.item, from, slotRank(rest, c.index)), {c.item}, {c.item})
      ELSE NoPlan

\* The ranks of n rows appended one by one to a list that ends in rank `last`.
appended(last, n) ==
  LET key[m \in 0 .. n] == IF m = 0 THEN last ELSE rankBetween(key[m - 1], <<>>)
  IN  key

\* _detach_item: the children are appended to the parent's list one by one.
detach(i, from, rows) ==
  LET moved == rows[i]
      key == appended(before(rows[from], Len(rows[from])), Len(moved))
  IN  [j \in {i} \cup {moved[n].child : n \in DOMAIN moved} |->
         IF j = i THEN Detached ELSE [parent |-> from, rank |-> key[indexOf(moved, j)]]]

removeItem(c, rows) ==
  IF attached(c.item)
  THEN transcript(detach(c.item, edge[c.item].parent, rows), {c.item}, {c.item})
  ELSE NoPlan

planned(c, rows) == CASE c.op = "add"     -> addItem(c, rows)
                      [] c.op = "move"    -> moveItem(c, rows)
                      [] c.op = "reorder" -> reorderItem(c, rows)
                      [] c.op = "remove"  -> removeItem(c, rows)

(***************************************************************************)
(* Steps                                                                   *)
(***************************************************************************)
Init ==
  /\ edge = [i \in Item |-> Detached] /\ born = {}
  /\ turn = [a \in Actor |-> NoCall]
  /\ fetched = [a \in Actor |-> [p \in Holder |-> Unfetched]]
  /\ plan = [a \in Actor |-> NoPlan]
  /\ commits = 0

known == born \cup {turn[a].item : a \in Actor}
slots(p) == 0 .. Cardinality(kids(p))
inFlight == {a \in Actor : turn[a] # NoCall}

\* What a player can ask for, looking at the outline.
Calls ==
  (UNION {[op : {"add"}, item : Item \ known, parent : {p}, index : slots(p)]
            \cup [op : {"move"}, item : {i \in Item : attached(i)}, parent : {p}, index : slots(p)] :
          p \in {p \in Holder : usable(p)}})
    \cup (UNION {[op : {"reorder"}, item : {i}, parent : {Root}, index : slots(edge[i].parent)] :
                 i \in {i \in Item : attached(i)}})
    \cup [op : {"remove"}, item : {i \in Item : attached(i)}, parent : {Root}, index : {0}]

\* A player calls a verb.  The object an add creates has a fresh id.
Call(a) ==
  /\ turn[a] = NoCall /\ commits + Cardinality(inFlight) < MaxCommits
  /\ \E c \in Calls : turn' = [turn EXCEPT ![a] = c]
  /\ UNCHANGED <<edge, born, fetched, plan, commits>>

\* The plan misses an ordering: it is fetched from the owner, and planning
\* starts over with it.
Fetch(a, p) ==
  /\ turn[a] # NoCall /\ plan[a] = NoPlan
  /\ p \in needs(turn[a]) /\ fetched[a][p] = Unfetched
  /\ fetched' = [fetched EXCEPT ![a][p] = orderedChildren(p)]
  /\ UNCHANGED <<edge, born, turn, plan, commits>>

resolved(a) ==
  /\ turn' = [turn EXCEPT ![a] = NoCall]
  /\ fetched' = [fetched EXCEPT ![a] = [p \in Holder |-> Unfetched]]

\* The verb runs to its end: a transcript to submit, or an error or nothing
\* to do.
Plan(a) ==
  /\ turn[a] # NoCall /\ plan[a] = NoPlan
  /\ \A p \in needs(turn[a]) : fetched[a][p] # Unfetched
  /\ LET t == planned(turn[a], fetched[a])
     IN  \/ t = NoPlan /\ resolved(a) /\ UNCHANGED plan
         \/ t # NoPlan /\ plan' = [plan EXCEPT ![a] = t] /\ UNCHANGED <<turn, fetched>>
  /\ UNCHANGED <<edge, born, commits>>

cellsCurrent_cellsOnly(t) == \A i \in DOMAIN t.cells : edge[i] = t.cells[i]

cellsCurrent(t) ==
  /\ \A i \in t.located : attached(i)
  /\ \A i \in DOMAIN t.cells : edge[i] = t.cells[i]

orderingConflicts_skipped(a) == {}

\* The orderings of a call that are no longer the authority's.
orderingConflicts(a) ==
  {p \in Holder : fetched[a][p] # Unfetched /\ fetched[a][p] # orderedChildren(p)}

\* submit: every read is compared with the authority's state at the head.
Commit(a) ==
  /\ plan[a] # NoPlan /\ cellsCurrent(plan[a]) /\ orderingConflicts(a) = {}
  /\ edge' = [i \in Item |-> IF i \in DOMAIN plan[a].writes THEN plan[a].writes[i] ELSE edge[i]]
  /\ born' = born \cup DOMAIN plan[a].writes
  /\ plan' = [plan EXCEPT ![a] = NoPlan] /\ resolved(a)
  /\ commits' = commits + 1

\* read_version_mismatch: the verb is planned again.  Cells are compared
\* first; of the orderings only the conflicting ones are fetched again.
Mismatch(a) ==
  /\ plan[a] # NoPlan /\ plan' = [plan EXCEPT ![a] = NoPlan]
  /\ \/ ~cellsCurrent(plan[a]) /\ UNCHANGED fetched
     \/ /\ cellsCurrent(plan[a]) /\ orderingConflicts(a) # {}
        /\ fetched' = [fetched EXCEPT ![a] =
             [p \in Holder |-> IF p \in orderingConflicts(a) THEN Unfetched ELSE @[p]]]
  /\ UNCHANGED <<edge, born, turn, commits>>

Next == \E a \in Actor :
          Call(a) \/ Plan(a) \/ Commit(a) \/ Mismatch(a) \/ \E p \in Holder : Fetch(a, p)

Spec == Init /\ [][Next]_vars

(***************************************************************************)
(* Properties                                                              *)
(***************************************************************************)
\* The shape of the state: stored ranks are keys over the digit alphabet, with
\* no digit past its end, and a call in flight knows what it fetched.
TypeOK ==
  /\ \A i \in Item : edge[i].parent \in Holder /\ edge[i].rank \in Rank
  /\ born \subseteq Item /\ commits \in 0 .. MaxCommits
  /\ \A a \in Actor :
       /\ turn[a] \in [op : {"none", "add", "move", "reorder", "remove"}, item : Holder,
                       parent : Holder, index : 0 .. Cardinality(Item)]
       /\ turn[a] = NoCall => plan[a] = NoPlan

\* A key for the slot between a and b, where <<>> is no neighbour.
fits(key, a, b) ==
  /\ isValidRank(key)
  /\ a # <<>> => sortsBefore(a, key)
  /\ b # <<>> => sortsBefore(key, b)
  /\ Len(key) <= 1 + Len(a) \/ Len(key) <= 1 + Len(b)

\* Whatever the order in which concurrent edits commit, the siblings' ranks
\* ascend strictly, and there is a key for every slot of every list: strictly
\* between its two neighbours, comparison-safe, and at most one digit longer than
\* the longer of them, so that an insert writes one key and never renumbers.
EverySlotOpen ==
  \A p \in Holder :
    LET rows == orderedChildren(p)
    IN  /\ \A k \in 1 .. Len(rows) - 1 : sortsBefore(rows[k].rank, rows[k + 1].rank)
        /\ \A k \in 0 .. Len(rows) : fits(slotRank(rows, k), before(rows, k), after(rows, k))

childList(p) == LET rows == orderedChildren(p) IN [k \in DOMAIN rows |-> rows[k].child]

Forest == INSTANCE OutlineForest WITH
            children <- [p \in Holder |-> childList(p)],
            used     <- born

\* Concurrent adds, moves, reorderings and removals, each planned from orderings
\* and cells read at different moments, take effect as single list operations,
\* one after the other: no item is lost, doubled, orphaned under a removed
\* parent, or moved below itself.
ImplementsForest == Forest!Spec

\* The list that a call puts its item into.
target(c) == IF c.op = "reorder" THEN edge[c.item].parent ELSE c.parent

\* An item that is added, moved or reordered ends at the index its player asked
\* for, in the list as it is at the commit and not as it was when the rank was chosen.
AskedSlot ==
  [][\A a \in Actor : \A c \in {turn[a]} : \A p \in {target(c)} :
       edge' # edge /\ c.op \in {"add", "move", "reorder"} /\ turn'[a] = NoCall =>
         \E k \in DOMAIN childList(p)' :
           k = c.index + 1 /\ childList(p)'[k] = c.item]_vars

=============================================================================
