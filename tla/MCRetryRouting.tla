--------------------------- MODULE MCRetryRouting ---------------------------
(***************************************************************************)
(* Retry classes and bounds for model-checking RetryRouting.               *)
(***************************************************************************)
EXTENDS RetryRouting

MCAnyClass(k) == BOOLEAN

MCTurn == CHOOSE t \in Turn : TRUE
MCKey == CHOOSE k \in Key : TRUE
MCScope == CHOOSE s \in Scope : TRUE

MCClasses(k) == IF k = MCKey THEN {TRUE} ELSE BOOLEAN

\* Every turn and key, but all at one instant.
Instant ==
  /\ \A c \in DOMAIN clock : clock[c] = 0
  /\ \A x \in pins \cup replies : x.scope = MCScope
  /\ \A m \in wire : m.plan = MCScope /\ m.target = MCScope

\* One turn slot and one key, but through all of the time there is.
Alone ==
  /\ \A t \in Turn \ {MCTurn} : turn[t] = Idle
  /\ \A m \in wire : m.turn = MCTurn /\ m.key = MCKey
  /\ turn[MCTurn] # Idle => turn[MCTurn].key = MCKey
  /\ \A x \in pins \cup replies : x.key = MCKey
  /\ \A s \in Scope \ {MCScope} : clock[s] = now

InstantOrAlone == Instant \/ Alone
=============================================================================
