---------------------------- MODULE MCCrossScope ----------------------------
(***************************************************************************)
(* Instances of CrossScope.                                                *)
(***************************************************************************)
EXTENDS CrossScope, TLC

CONSTANTS k1, k2

\* Turns that write one cell, read or not, with a presence change or without; and
\* one that writes that cell and a definition cell.
Riding ==
  {[reads |-> r, writes |-> {k1}, parts |-> p] :
     r \in {{}, {k1}}, p \in {{}, {"presence"}}}
  \cup {[reads |-> {}, writes |-> {k1, k2}, parts |-> {}]}

\* Turns that move a thing or an actor in the owner's rooms.
Relating ==
  {[reads |-> {}, writes |-> {}, parts |-> {p}] : p \in {"contents", "presence"}}

\* No property tells the committing scopes apart.
Symmetry == Permutations(Sender)
=============================================================================
