---------------------------- MODULE OutlineForest ----------------------------
(***************************************************************************)
(* What the ordered-edge index promises an outliner: a forest in which     *)
(* every parent has one list of children, and an edit is a list operation  *)
(* at an index, taken atomically.                                          *)
(***************************************************************************)
EXTENDS Naturals, Sequences, SequencesExt

CONSTANTS Item, Root

VARIABLES
  children,   \* the list of each parent's children
  used        \* the items that were ever added

vars == <<children, used>>

Holder == Item \cup {Root}

holds(p, i) == \E k \in DOMAIN children[p] : children[p][k] = i

present(i) == \E p \in Holder : holds(p, i)

Init == children = [p \in Holder |-> <<>>] /\ used = {}

\* The items at or below i: those that every set closed under children holds.
below(i) ==
  {j \in Item : \A S \in SUBSET Item :
     (i \in S /\ \A p \in S, c \in Item : holds(p, c) => c \in S) => j \in S}

Add(i, p, k) ==
  /\ i \notin used /\ used' = used \cup {i}
  /\ p = Root \/ present(p)
  /\ children' = [children EXCEPT ![p] = InsertAt(@, k + 1, i)]

\* Taken out of its list, then put at index k of the list that is left.
Move(i, p, k) ==
  /\ present(i) /\ (p = Root \/ (present(p) /\ p \notin below(i)))
  /\ LET rest == [q \in Holder |-> RemoveFirst(children[q], i)]
     IN  /\ k <= Len(rest[p])
         /\ children' = [rest EXCEPT ![p] = InsertAt(@, k + 1, i)]
  /\ UNCHANGED used

\* The children of a removed item go to the end of its parent's list.
Delete(i) ==
  /\ \E p \in Holder :
       /\ holds(p, i)
       /\ children' = [children EXCEPT ![p] = RemoveFirst(@, i) \o children[i], ![i] = <<>>]
  /\ UNCHANGED used

\* An edit that would change nothing is none.
Next ==
  /\ children' # children
  /\ \E i \in Item :
       \/ Delete(i)
       \/ \E p \in Holder : \E k \in 0 .. Len(children[p]) : Add(i, p, k) \/ Move(i, p, k)

Spec == Init /\ [][Next]_vars
=============================================================================
