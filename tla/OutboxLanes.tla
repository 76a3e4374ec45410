---------------------------- MODULE OutboxLanes ----------------------------
(***************************************************************************)
(* What the outbox promises to the destinations of a scope: every lane is  *)
(* a queue of numbered rows.  A row waits until its destination has it or  *)
(* it is given up, and only then leaves the queue; a destination takes     *)
(* rows in ascending order, each once, and passes over none that was not   *)
(* given up.  There are no requests, timers or crashes here: OutboxDrain   *)
(* implements this with all of them.                                       *)
(***************************************************************************)
EXTENDS Naturals

CONSTANT Lane

VARIABLES
  sent,      \* how many rows each lane was given
  waiting,   \* the rows in the queue
  got,       \* the rows that took effect at the destination
  lost       \* the rows given up

vars == <<sent, waiting, got, lost>>

Init ==
  /\ sent = [l \in Lane |-> 0]
  /\ waiting = [l \in Lane |-> {}] /\ got = [l \in Lane |-> {}] /\ lost = [l \in Lane |-> {}]

\* A commit puts one row into each lane of L.
Enqueue(L) ==
  /\ sent' = [l \in Lane |-> IF l \in L THEN sent[l] + 1 ELSE sent[l]]
  /\ waiting' = [l \in Lane |-> IF l \in L THEN waiting[l] \cup {sent[l] + 1} ELSE waiting[l]]
  /\ UNCHANGED <<got, lost>>

\* A row that was given up may still arrive, when nothing later has.
Deliver(l, ns) ==
  /\ \A n \in ns : /\ \A k \in got[l] : k < n
                   /\ \A j \in 1 .. n : j \in got[l] \cup ns \cup lost[l]
  /\ got' = [got EXCEPT ![l] = @ \cup ns]
  /\ UNCHANGED <<sent, waiting, lost>>

\* Rows leave the queues: taken by their destination, or given up.
Settle ==
  /\ DOMAIN waiting' = Lane /\ DOMAIN lost' = Lane
  /\ \A l \in Lane :
       /\ waiting'[l] \subseteq waiting[l]
       /\ lost[l] \subseteq lost'[l] /\ lost'[l] \subseteq lost[l] \cup waiting[l]
       /\ waiting[l] \ waiting'[l] \subseteq got[l] \cup lost'[l]
       /\ waiting'[l] \cap lost'[l] = {}
  /\ UNCHANGED <<sent, got>>

Next ==
  \/ \E L \in SUBSET Lane : Enqueue(L)
  \/ \E l \in Lane : \E ns \in SUBSET (1 .. sent[l]) : Deliver(l, ns)
  \/ Settle

Spec == Init /\ [][Next]_vars
=============================================================================
