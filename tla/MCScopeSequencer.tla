-------------------------- MODULE MCScopeSequencer --------------------------
(***************************************************************************)
(* Requests for model-checking ScopeSequencer.                             *)
(***************************************************************************)
EXTENDS ScopeSequencer, TLC

KeySymmetry == Permutations(Key)

MCNoGeneration == {NoGeneration}
MCAllGenerations == NoGeneration..MaxGeneration

\* "bump" increments a, "copy_ab" and "copy_ba" read one cell and write the
\* other, "look" only reads, "say" is a read of another actor, and the rest
\* are refused at one of the places the code refuses a turn whatever the
\* scope's cells hold.
MCActorOf(q) == IF q = "say" THEN "guest" ELSE "wizard"

MCReads(q) == IF q = "copy_ba" THEN {"b"} ELSE {"a"}

MCWrites(q) ==
  CASE q \in {"bump", "copy_ba", "diverged"} -> {"a"}
    [] q = "copy_ab" -> {"b"}
    [] OTHER -> {}

MCOutput(q, s) ==
  CASE q \in {"bump", "diverged"} -> [c \in {"a"} |-> (s["a"] + 1) % Cardinality(Value)]
    [] q = "copy_ab" -> [c \in {"b"} |-> (s["a"] + 1) % Cardinality(Value)]
    [] q = "copy_ba" -> [c \in {"a"} |-> s["b"]]
    [] OTHER -> [c \in {} |-> 0]

MCIsDirect(q) == q \in {"look", "say"}

MCFault(q) ==
  CASE q = "forbidden" -> "write_unauthorized"
    [] q = "unsigned" -> "unauthorized"
    [] q = "truncated" -> "incomplete_transcript"
    [] q = "diverged" -> "post_state_mismatch"
    [] OTHER -> "none"
=============================================================================
