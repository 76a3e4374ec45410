---------------------------- MODULE MCOutlineEdges ----------------------------
(***************************************************************************)
(* OutlineEdges with interchangeable items and players.  Everything that   *)
(* is checked is a safety property, so the symmetry loses no violation.    *)
(***************************************************************************)
EXTENDS OutlineEdges

Interchangeable == Permutations(Item) \cup Permutations(Actor)
=============================================================================
