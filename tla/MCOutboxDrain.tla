--------------------------- MODULE MCOutboxDrain ---------------------------
(***************************************************************************)
(* Lanes and backoff for model-checking OutboxDrain.                       *)
(***************************************************************************)
EXTENDS OutboxDrain

\* Lane 1 is batched (/fanout), every other lane goes row by row (/adopt).
MCRouteOf(l) == IF l = 1 THEN 1 ELSE 2

MCBackoff(a) == 1

\* Overwritten alarms and the last crash are explored with one row less.
MCBounds ==
  (crashes < MaxCrashes /\ wake = "kept")
    \/ MapThenSumSet(LAMBDA l : next[l], Lane) < MaxTotal
=============================================================================
