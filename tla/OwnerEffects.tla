---------------------------- MODULE OwnerEffects ----------------------------
(***************************************************************************)
(* What a scope promises for the cells it owns when turns committed by     *)
(* other scopes write them (the rider rules of scope.ts and scope-do.ts).  *)
(*                                                                         *)
(* A ride is one accepted turn of another scope, with what it read of the  *)
(* owner's cells and what it wrote to them.  It takes effect at once and   *)
(* at most once, after the earlier rides of its scope; it never replaces a *)
(* value other than the one it read; and it is applied where that value    *)
(* still stands, unless the owner refuses the whole ride.  There are no    *)
(* messages here: CrossScope implements this with an outbox, retries and   *)
(* duplicates.                                                             *)
(***************************************************************************)
EXTENDS Integers

CONSTANTS
  Sender, Cell, Version, Absent,
  None      \* not read, not written

VARIABLES
  cells,      \* the owner's cells
  rides,      \* accepted elsewhere, not yet settled
  settled     \* the last ride of each scope that was settled

vars == <<cells, rides, settled>>

Image == [Cell -> Version \cup {None}]
Ride == [from : Sender, seq : Nat \ {0}, reads : Image, writes : Image]

Init ==
  /\ cells \in [Cell -> Version]
  /\ rides = {}
  /\ settled = [s \in Sender |-> 0]

\* The owner's own commits.
OwnerWrites ==
  /\ cells' \in [Cell -> Version]
  /\ UNCHANGED <<rides, settled>>

Accept(r) ==
  /\ r \in Ride
  /\ r.seq > settled[r.from]
  /\ \A q \in rides : q.from = r.from => q.seq < r.seq
  /\ rides' = rides \cup {r}
  /\ UNCHANGED <<cells, settled>>

\* The cells to which r may be applied as a whole: those it wrote, the ones it
\* also read exactly where they still are what it read.
Fits(r, A) ==
  \A k \in Cell :
    /\ k \in A => r.writes[k] # None
    /\ r.writes[k] # None /\ r.reads[k] # None
         => (k \in A <=> cells[k] = r.reads[k])

Settle(r) ==
  /\ r \in rides
  /\ rides' = {q \in rides : q.from = r.from => q.seq > r.seq}
  /\ settled' = [settled EXCEPT ![r.from] = r.seq]
  /\ \E A \in SUBSET Cell :
       /\ A = {} \/ Fits(r, A)
       /\ cells' = [k \in Cell |-> IF k \in A THEN r.writes[k] ELSE cells[k]]

Next ==
  \/ OwnerWrites
  \/ \E r \in rides' : Accept(r)
  \/ \E r \in rides : Settle(r)

Spec == Init /\ [][Next]_vars
=============================================================================
