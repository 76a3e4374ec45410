------------------------------- MODULE NetFeed -------------------------------
(***************************************************************************)
(* The browser feed client (src/client/net-feed.ts): one NetFeed object,   *)
(* its session and its WebSocket, the turns it has submitted and the       *)
(* observation frames pushed to it.                                        *)
(*                                                                         *)
(* JavaScript runs one callback at a time, so an action is the code        *)
(* between two awaits; what interleaves are the replies, timers and socket *)
(* events.  Every in-flight connectSocket() or open() call is one entry of *)
(* `attempts`; every turn() call is one entry of `turns`.  A turn posts    *)
(* over the socket, then over REST with the same idempotency key, then     *)
(* (when its session is gone) over REST again under a re-minted session.   *)
(*                                                                         *)
(* The authority's side is external: a request that reaches it runs at     *)
(* most once (CO2.5), a repeat is answered with the recorded reply, whose  *)
(* observations may have been dropped.  A turn commits at Home and may be  *)
(* carried into other scopes; a pure direct turn is accepted at Home's     *)
(* current head without a commit.  Frames of a scope arrive in commit      *)
(* order, any of them may be lost or pushed again.                         *)
(*                                                                         *)
(* Left out: the backoff delay and the attempt number it is computed from; *)
(* the read cache; a runtime without WebSocket.                            *)
(***************************************************************************)
EXTENDS Integers, Sequences, SequencesExt, FiniteSets

CONSTANTS
  Turns,       \* client turns, each the call of turn() with a fresh key
  Scopes,      \* the scopes whose observations the session may receive
  Home,        \* the scope that sequences this client's turns
  Shared,      \* the scopes in which other actors commit
  MaxSeq,      \* bound on commits per scope
  MaxMints,    \* bound on sessions the server hands out
  Chains,      \* bound on connection chains alive at once (one per open())
  Cap          \* SELF_SETTLED_CAP, the size of both echo guards

ASSUME FeedAssumption ==
  /\ Home \in Scopes /\ Shared \subseteq Scopes
  /\ MaxSeq \in Nat /\ MaxMints \in Nat \ {0} /\ Chains \in Nat /\ Cap \in Nat
  /\ "peer" \notin Turns

VARIABLES
  adopted,         \* whether the session was adopted from the identity door
  feed,            \* session, connection, socket, timer and re-mint state
  attempts,        \* connectSocket()/open() calls awaiting a reply
  turns,           \* how far each turn() call has come
  frameSeen,       \* per-scope frame high-water
  selfSettled,     \* (scope, seq) pairs of own turns, oldest first
  settledEchoIds,  \* settled own turns, oldest first
  pendingSelfFrames, \* frames held back for a pending turn
  mints, dead,     \* server: sessions minted, and those no longer valid
  asked, ran,      \* server: requests received, and how each turn ran
  live,            \* live frames of direct turns still on the way
  log,             \* server: the commits of each scope
  shown,           \* how often a turn's observations in a scope were emitted
  peerShown        \* per scope, the peer commits that were emitted

feedVars == <<frameSeen, selfSettled, settledEchoIds, pendingSelfFrames, shown>>
serverVars == <<mints, dead, asked, ran, live, log>>
vars == <<adopted, feed, attempts, turns, feedVars, serverVars, peerShown>>

None == 0
Peer == "peer"
Idle == [step |-> "idle", session |-> None]
Session == 0 .. MaxMints
Requests == {"ws", "rest", "retry"}
Waiting == {"ws", "deaf"}          \* a turn with a waiter in wsInFlight
Pending == Waiting \cup {"rest", "mint", "retry", "throws"}

TypeOK ==
  /\ adopted \in BOOLEAN
  /\ feed \in [session : Session, connection : {"idle", "connecting", "open", "closed"},
               socket : {"none", "connecting", "open"}, timer : BOOLEAN,
               suppressed : BOOLEAN, failed : BOOLEAN, remints : 0 .. 1, minting : BOOLEAN]
  /\ attempts \in [1 .. Chains -> [step : {"idle", "open", "ticket", "mint"}, session : Session]]
  /\ turns \in [Turns -> [step : Pending \cup {"new", "done"}, session : Session]]
  /\ frameSeen \in [Scopes -> 0 .. MaxSeq]
  /\ selfSettled \in Seq(Scopes \X (0 .. MaxSeq)) /\ Len(selfSettled) <= Cap
  /\ settledEchoIds \in Seq(Turns) /\ Len(settledEchoIds) <= Cap
  /\ pendingSelfFrames \in [Turns -> SUBSET Scopes]
  /\ mints \in Session /\ dead \subseteq 1 .. mints
  /\ asked \in [Turns -> SUBSET Requests]
  /\ ran \in [Turns -> [by : Requests \cup {"none"}, seq : 0 .. MaxSeq, direct : BOOLEAN]]
  /\ live \subseteq Turns
  /\ log \in [Scopes -> Seq(Turns \cup {Peer})]
  /\ \A s \in Scopes : Len(log[s]) <= MaxSeq
  /\ shown \in [Turns -> [Scopes -> Nat]]
  /\ peerShown \in [Scopes -> SUBSET (1 .. MaxSeq)]

Init ==
  /\ adopted \in BOOLEAN
  /\ feed = [session |-> None, connection |-> "idle", socket |-> "none", timer |-> FALSE,
             suppressed |-> FALSE, failed |-> FALSE, remints |-> 0, minting |-> FALSE]
  /\ attempts = [c \in 1 .. Chains |-> Idle]
  /\ turns = [t \in Turns |-> [step |-> "new", session |-> None]]
  /\ frameSeen = [s \in Scopes |-> 0]
  /\ selfSettled = <<>> /\ settledEchoIds = <<>>
  /\ pendingSelfFrames = [t \in Turns |-> {}]
  /\ mints = (IF adopted THEN 1 ELSE 0) /\ dead = {}
  /\ asked = [t \in Turns |-> {}]
  /\ ran = [t \in Turns |-> [by |-> "none", seq |-> 0, direct |-> FALSE]]
  /\ live = {}
  /\ log = [s \in Scopes |-> <<>>]
  /\ shown = [t \in Turns |-> [s \in Scopes |-> 0]]
  /\ peerShown = [s \in Scopes |-> {}]

(***************************************************************************)
(* Observations: the two bounded guards and the frames held back           *)
(***************************************************************************)
holds(q, x) == \E i \in DOMAIN q : q[i] = x

\* recordSelfSettled and recordSettledEchoId: the newest last, the oldest evicted.
remember_unbounded(q, x) == Append(RemoveFirst(q, x), x)

remember(q, x) ==
  LET kept == Append(RemoveFirst(q, x), x)
  IN  IF Len(kept) > Cap THEN Tail(kept) ELSE kept

emit(t, where) == [shown EXCEPT ![t] = [s \in Scopes |-> @[s] + (IF s \in where THEN 1 ELSE 0)]]

\* What the reply of a turn that ran carries: all of its observations.
carried(t) == IF ran[t].direct THEN {Home} ELSE Scopes

\* emitBufferedSelfFrames: a turn that did not settle releases what was held back.
Release_drops(t) ==
  /\ pendingSelfFrames' = [pendingSelfFrames EXCEPT ![t] = {}]
  /\ UNCHANGED <<shown, settledEchoIds, selfSettled, frameSeen>>

Release(t) ==
  /\ shown' = emit(t, pendingSelfFrames[t])
  /\ settledEchoIds' = IF pendingSelfFrames[t] = {} THEN settledEchoIds
                       ELSE remember(settledEchoIds, t)
  /\ pendingSelfFrames' = [pendingSelfFrames EXCEPT ![t] = {}]
  /\ UNCHANGED <<selfSettled, frameSeen>>

\* settleTurn of an accepted reply: a full reply wins over what was held back.
Accept_pairOnly(t, body) ==
  /\ shown' = emit(t, IF body = "full" THEN carried(t) ELSE pendingSelfFrames[t])
  /\ selfSettled' = remember(selfSettled, <<Home, ran[t].seq>>)
  /\ pendingSelfFrames' = [pendingSelfFrames EXCEPT ![t] = {}]
  /\ UNCHANGED <<frameSeen, settledEchoIds>>

Accept(t, body) ==
  /\ shown' = emit(t, IF body = "full" THEN carried(t) ELSE pendingSelfFrames[t])
  /\ settledEchoIds' = remember(settledEchoIds, t)
  /\ selfSettled' = remember(selfSettled, <<Home, ran[t].seq>>)
  /\ pendingSelfFrames' = [pendingSelfFrames EXCEPT ![t] = {}]
  /\ UNCHANGED frameSeen

(***************************************************************************)
(* The connection                                                          *)
(***************************************************************************)
scheduleReconnect_onceOpened(f) ==
  IF f.suppressed \/ f.timer \/ f.connection # "open" THEN f
  ELSE [f EXCEPT !.timer = TRUE, !.connection = "connecting"]

scheduleReconnect(f) ==
  IF f.suppressed \/ f.timer THEN f
  ELSE [f EXCEPT !.timer = TRUE, !.connection = "connecting"]

stopped(f) == [f EXCEPT !.suppressed = TRUE, !.timer = FALSE,
                        !.socket = "none", !.connection = "closed"]

terminate(f) == [stopped(f) EXCEPT !.failed = TRUE]

posted(step, s) == [step |-> step, session |-> s]

done == [step |-> "done", session |-> None]

\* Every awaited turn_result is given up: its turn is posted over REST.
failInFlightTurns(s) ==
  [t \in Turns |-> IF turns[t].step \in Waiting THEN posted("rest", s) ELSE turns[t]]

\* The requests the turns have posted by the end of a step reach the gateway.
Posts == asked' = [t \in Turns |-> asked[t] \cup ({turns'[t].step} \cap Requests)]

\* A chain ends, or awaits a reply about session s.
chain(c, step, s) == [attempts EXCEPT ![c] = [step |-> step, session |-> s]]

\* connectSocket() up to its await, called by chain c in feed state f.
connectSocket(c, f) ==
  IF f.session = None \/ f.suppressed
  THEN feed' = f /\ attempts' = [attempts EXCEPT ![c] = Idle] /\ turns' = turns
  ELSE /\ feed' = [f EXCEPT !.socket = "none", !.connection = "connecting"]
       /\ attempts' = chain(c, "ticket", f.session)
       /\ turns' = IF f.socket = "none" THEN turns ELSE failInFlightTurns(f.session)

superseded(c) == feed.session # attempts[c].session \/ feed.suppressed

\* The slot a new call takes.
Free(c) == attempts[c] = Idle /\ \A d \in 1 .. c - 1 : attempts[d] # Idle

alive == Cardinality({c \in 1 .. Chains : attempts[c] # Idle})
         + (IF feed.timer THEN 1 ELSE 0) + (IF feed.socket # "none" THEN 1 ELSE 0)

\* open(): the consumer's deliberate (re)start.
Open(c) ==
  /\ Free(c) /\ alive < Chains
  /\ LET f == [feed EXCEPT !.suppressed = FALSE, !.failed = FALSE, !.remints = 0]
     IN  IF adopted
         THEN connectSocket(c, [f EXCEPT !.session = 1])
         ELSE feed' = f /\ attempts' = chain(c, "open", None) /\ turns' = turns
  /\ Posts
  /\ UNCHANGED <<adopted, feedVars, mints, dead, ran, live, log, peerShown>>

OpenAnswered(c) ==
  /\ attempts[c].step = "open"
  /\ \/ /\ mints < MaxMints /\ mints' = mints + 1
        /\ connectSocket(c, [feed EXCEPT !.session = mints + 1])
     \/ attempts' = [attempts EXCEPT ![c] = Idle] /\ UNCHANGED <<feed, turns, mints>>
  /\ Posts
  /\ UNCHANGED <<adopted, feedVars, dead, ran, live, log, peerShown>>

\* The ticket came: abandon the attempt if it was superseded, else construct
\* the socket; attachSocket overwrites one that another chain attached.
TicketIssued(c) ==
  /\ attempts[c].step = "ticket" /\ attempts[c].session \notin dead
  /\ attempts' = [attempts EXCEPT ![c] = Idle]
  /\ IF superseded(c) THEN UNCHANGED <<feed, turns>>
     ELSE \/ /\ feed' = [feed EXCEPT !.socket = "connecting"]
             /\ turns' = [t \in Turns |-> IF turns[t].step = "ws"
                                          THEN [turns[t] EXCEPT !.step = "deaf"] ELSE turns[t]]
          \/ feed' = scheduleReconnect(feed) /\ turns' = turns
  /\ UNCHANGED <<adopted, feedVars, serverVars, peerShown>>

\* The ticket request failed for a reason other than the session.
TicketLost(c) ==
  /\ attempts[c].step = "ticket"
  /\ attempts' = [attempts EXCEPT ![c] = Idle]
  /\ feed' = IF superseded(c) THEN feed ELSE scheduleReconnect(feed)
  /\ UNCHANGED <<adopted, turns, feedVars, serverVars, peerShown>>

exhausted == adopted \/ (~feed.minting /\ feed.remints = 1)

\* remintSession: join the mint in flight or start one.
minting(f) == IF f.minting THEN f ELSE [f EXCEPT !.minting = TRUE, !.remints = 1]

\* E_NOSESSION for the ticket: re-mint the session, or give up for good.
TicketRefused(c) ==
  /\ attempts[c].step = "ticket" /\ attempts[c].session \in dead
  /\ \/ /\ superseded(c)
        /\ attempts' = [attempts EXCEPT ![c] = Idle] /\ UNCHANGED <<feed, turns>>
     \/ /\ ~superseded(c) /\ exhausted
        /\ attempts' = [attempts EXCEPT ![c] = Idle]
        /\ feed' = terminate(feed) /\ turns' = failInFlightTurns(feed.session)
     \/ /\ ~superseded(c) /\ ~exhausted
        /\ attempts' = chain(c, "mint", None)
        /\ feed' = minting(feed) /\ turns' = turns
  /\ Posts
  /\ UNCHANGED <<adopted, feedVars, mints, dead, ran, live, log, peerShown>>

\* The re-mint succeeded: its turns post again, its chains connect again.
MintAnswered ==
  /\ feed.minting /\ mints < MaxMints /\ mints' = mints + 1
  /\ LET s == mints + 1
         f == [feed EXCEPT !.minting = FALSE, !.session = s, !.failed = FALSE]
         back == {c \in 1 .. Chains : attempts[c].step = "mint" /\ ~feed.suppressed}
     IN  /\ feed' = IF back = {} THEN f
                    ELSE [f EXCEPT !.socket = "none", !.connection = "connecting"]
         /\ attempts' = [c \in 1 .. Chains |->
                           IF c \in back THEN [step |-> "ticket", session |-> s]
                           ELSE IF attempts[c].step = "mint" THEN Idle ELSE attempts[c]]
         /\ turns' = [t \in Turns |->
                        IF turns[t].step = "mint" THEN posted("retry", s)
                        ELSE IF back # {} THEN failInFlightTurns(s)[t] ELSE turns[t]]
  /\ Posts
  /\ UNCHANGED <<adopted, feedVars, dead, ran, live, log, peerShown>>

\* The re-mint failed: its chains terminate the feed, its turns throw (Throws).
MintFailed ==
  /\ feed.minting
  /\ LET quits == \E c \in 1 .. Chains : attempts[c].step = "mint"
         f == [feed EXCEPT !.minting = FALSE]
     IN  /\ feed' = IF quits THEN terminate(f) ELSE f
         /\ attempts' = [c \in 1 .. Chains |->
                           IF attempts[c].step = "mint" THEN Idle ELSE attempts[c]]
         /\ turns' = [t \in Turns |->
                        IF turns[t].step = "mint" THEN posted("throws", None)
                        ELSE IF quits THEN failInFlightTurns(feed.session)[t] ELSE turns[t]]
  /\ Posts
  /\ UNCHANGED <<adopted, feedVars, mints, dead, ran, live, log, peerShown>>

\* The backoff timer of scheduleReconnect fires.
ReconnectTimer(c) ==
  /\ feed.timer /\ Free(c)
  /\ connectSocket(c, [feed EXCEPT !.timer = FALSE])
  /\ Posts
  /\ UNCHANGED <<adopted, feedVars, mints, dead, ran, live, log, peerShown>>

\* socket.onopen
SocketOpens ==
  /\ feed.socket = "connecting"
  /\ feed' = [feed EXCEPT !.socket = "open", !.connection = "open", !.remints = 0]
  /\ UNCHANGED <<adopted, attempts, turns, feedVars, serverVars, peerShown>>

\* socket.onclose
SocketCloses ==
  /\ feed.socket # "none"
  /\ feed' = scheduleReconnect([feed EXCEPT !.socket = "none"])
  /\ turns' = failInFlightTurns(feed.session)
  /\ Posts
  /\ UNCHANGED <<adopted, attempts, feedVars, mints, dead, ran, live, log, peerShown>>

\* close(): the user's stop.
Close ==
  /\ feed' = stopped(feed)
  /\ turns' = failInFlightTurns(feed.session)
  /\ Posts
  /\ UNCHANGED <<adopted, attempts, feedVars, mints, dead, ran, live, log, peerShown>>

(***************************************************************************)
(* Turns                                                                   *)
(***************************************************************************)
\* turn(): over an open socket, else (a send on a socket that has not opened
\* throws) over REST.
turn(t) ==
  /\ turns[t].step = "new" /\ feed.session # None
  /\ turns' = [turns EXCEPT ![t] = posted(IF feed.connection = "open" /\ feed.socket = "open"
                                          THEN "ws" ELSE "rest", feed.session)]
  /\ Posts
  /\ UNCHANGED <<adopted, feed, attempts, feedVars, mints, dead, ran, live, log, peerShown>>

\* The wait for turn_result is bounded: a half-open socket never answers.
TurnTimeout_attachedOnly(t) ==
  /\ turns[t].step = "ws"
  /\ turns' = [turns EXCEPT ![t] = posted("rest", feed.session)]
  /\ Posts
  /\ UNCHANGED <<adopted, feed, attempts, feedVars, mints, dead, ran, live, log, peerShown>>

TurnTimeout(t) ==
  /\ turns[t].step \in Waiting
  /\ turns' = [turns EXCEPT ![t] = posted("rest", feed.session)]
  /\ Posts
  /\ UNCHANGED <<adopted, feed, attempts, feedVars, mints, dead, ran, live, log, peerShown>>

\* The request r that turn t awaits is answered: the turn it ran, in full; a
\* turn that another request ran, in full or without its observations; or
\* (this request ran nothing) a rejection or an error.  A turn_result needs
\* the socket it was sent on.
Reply(t, r) ==
  /\ turns[t].step = r /\ (r = "ws" => feed.socket = "open")
  /\ feed' = [feed EXCEPT !.remints = 0]
  /\ turns' = [turns EXCEPT ![t] = done]
  /\ \/ ran[t].by # "none" /\ Accept(t, "full") /\ asked' = asked
     \/ ran[t].by \notin {"none", r} /\ Accept(t, "empty") /\ asked' = asked
     \/ ran[t].by # r /\ Release(t) /\ asked' = [asked EXCEPT ![t] = @ \ {r}]
  /\ UNCHANGED <<adopted, attempts, mints, dead, ran, live, log, peerShown>>

\* E_NOSESSION for a REST turn: re-mint once and post again.
RestRefused(t) ==
  /\ turns[t].step = "rest" /\ turns[t].session \in dead /\ ran[t].by # "rest"
  /\ asked' = [asked EXCEPT ![t] = @ \ {"rest"}]
  /\ IF exhausted
     THEN feed' = feed /\ turns' = [turns EXCEPT ![t] = done] /\ Release(t)
     ELSE /\ feed' = minting(feed)
          /\ turns' = [turns EXCEPT ![t] = posted("mint", None)]
          /\ UNCHANGED feedVars
  /\ UNCHANGED <<adopted, attempts, mints, dead, ran, live, log, peerShown>>

\* The POST failed, or the re-mint it waited for did: turn() throws.
Throws(t) ==
  /\ turns[t].step \in {"rest", "retry", "throws"}
  /\ turns' = [turns EXCEPT ![t] = done]
  /\ Release(t)
  /\ UNCHANGED <<adopted, feed, attempts, serverVars, peerShown>>

(***************************************************************************)
(* Frames                                                                  *)
(***************************************************************************)
pending(t) == turns[t].step \in Pending

own(s, n) == log[s][n] \in Turns

\* handleObservationsFrame: the high-water, then the echo guards, then the peers.
handleObservationsFrame(s, n) ==
  /\ feed.socket = "open" /\ n \in DOMAIN log[s] /\ n > frameSeen[s]
  /\ frameSeen' = [frameSeen EXCEPT ![s] = n]
  /\ \/ /\ own(s, n) /\ holds(settledEchoIds, log[s][n])
        /\ UNCHANGED <<selfSettled, pendingSelfFrames, shown, peerShown>>
     \/ /\ own(s, n) /\ ~holds(settledEchoIds, log[s][n]) /\ pending(log[s][n])
        /\ selfSettled' = remember(selfSettled, <<s, n>>)
        /\ pendingSelfFrames' = [pendingSelfFrames EXCEPT ![log[s][n]] = @ \cup {s}]
        /\ UNCHANGED <<shown, peerShown>>
     \/ /\ own(s, n) => ~holds(settledEchoIds, log[s][n]) /\ ~pending(log[s][n])
        /\ IF holds(selfSettled, <<s, n>>) THEN UNCHANGED <<shown, peerShown>>
           ELSE IF own(s, n) THEN shown' = emit(log[s][n], {s}) /\ UNCHANGED peerShown
           ELSE peerShown' = [peerShown EXCEPT ![s] = @ \cup {n}] /\ UNCHANGED shown
        /\ UNCHANGED <<selfSettled, pendingSelfFrames>>
  /\ UNCHANGED <<adopted, feed, attempts, turns, settledEchoIds, serverVars>>

\* handleLiveObservationsFrame, for a direct turn of our own; it may be lost.
handleLiveObservationsFrame(t) ==
  /\ t \in live /\ live' = live \ {t}
  /\ shown' = IF feed.socket # "open" \/ holds(settledEchoIds, t) \/ pending(t) THEN shown
              ELSE emit(t, {Home})
  /\ UNCHANGED <<adopted, feed, attempts, turns, frameSeen, selfSettled, settledEchoIds,
                 pendingSelfFrames, mints, dead, asked, ran, log, peerShown>>

(***************************************************************************)
(* The gateway and the authorities (external)                              *)
(***************************************************************************)
\* Home's authority runs the turn of a request once: a commit, or a pure read.
Execute(t) ==
  /\ ran[t].by = "none"
  /\ \E r \in asked[t] :
       \/ /\ Len(log[Home]) < MaxSeq
          /\ log' = [log EXCEPT ![Home] = Append(@, t)]
          /\ ran' = [ran EXCEPT ![t] = [by |-> r, seq |-> Len(log[Home]) + 1, direct |-> FALSE]]
          /\ live' = live
       \/ /\ ran' = [ran EXCEPT ![t] = [by |-> r, seq |-> Len(log[Home]), direct |-> TRUE]]
          /\ live' = live \cup {t} /\ log' = log
  /\ UNCHANGED <<adopted, feed, attempts, turns, feedVars, mints, dead, asked, peerShown>>

\* The turn's observations reach another scope.
Ride(t, s) ==
  /\ s # Home /\ ran[t].by # "none" /\ ~ran[t].direct
  /\ Len(log[s]) < MaxSeq /\ ~holds(log[s], t)
  /\ log' = [log EXCEPT ![s] = Append(@, t)]
  /\ UNCHANGED <<adopted, feed, attempts, turns, feedVars, mints, dead, asked, ran, live, peerShown>>

\* Another actor's turn commits.
PeerCommit(s) ==
  /\ Len(log[s]) < MaxSeq
  /\ log' = [log EXCEPT ![s] = Append(@, Peer)]
  /\ UNCHANGED <<adopted, feed, attempts, turns, feedVars, mints, dead, asked, ran, live, peerShown>>

\* A session expires, or closeSession() releases it.
Expire(s) ==
  /\ s \in 1 .. mints /\ s \notin dead
  /\ dead' = dead \cup {s}
  /\ UNCHANGED <<adopted, feed, attempts, turns, feedVars, mints, asked, ran, live, log, peerShown>>

Connection ==
  \/ \E c \in 1 .. Chains : \/ Open(c) \/ OpenAnswered(c) \/ TicketIssued(c) \/ TicketLost(c)
                            \/ TicketRefused(c) \/ ReconnectTimer(c)
  \/ MintAnswered \/ MintFailed \/ SocketOpens \/ SocketCloses \/ Close

TurnStep(t) == \/ turn(t) \/ TurnTimeout(t) \/ RestRefused(t) \/ Throws(t)
               \/ \E r \in Requests : Reply(t, r)

Frames == \/ \E s \in Scopes : \E n \in 1 .. MaxSeq : handleObservationsFrame(s, n)
          \/ \E t \in Turns : handleLiveObservationsFrame(t)

Server == \/ \E t \in Turns : Execute(t) \/ \E s \in Scopes : Ride(t, s)
          \/ \E s \in Shared : PeerCommit(s)
          \/ \E s \in Session : Expire(s)

Next == Connection \/ (\E t \in Turns : TurnStep(t)) \/ Frames \/ Server

Spec == Init /\ [][Next]_vars

\* The browser's timer fires, and a fetch ends with a reply or an error.
Fairness ==
  /\ \A t \in Turns : /\ WF_vars(TurnTimeout(t))
                      /\ WF_vars(RestRefused(t) \/ Throws(t) \/ Reply(t, "rest") \/ Reply(t, "retry"))
  /\ WF_vars(MintAnswered \/ MintFailed)

FairSpec == Spec /\ Fairness

(***************************************************************************)
(* Properties                                                              *)
(***************************************************************************)
\* An own turn's observations are emitted at most once per scope, whether its
\* reply, its replayed reply, a frame that beat the reply or one that came
\* after it carries them (settleTurn, handleObservationsFrame), for as long
\* as the bounded guard remembers the turn.
ShownOnce ==
  \A t \in Turns, s \in Scopes :
    shown[t][s] > 1 => ~holds(settledEchoIds, t) /\ Len(settledEchoIds) = Cap

\* A frame held back for a pending turn is emitted when the turn ends, however
\* it ends: accepted in full, replayed without its observations, rejected or
\* thrown (settleTurn, and turn()'s finally).
HeldFramesReleased ==
  [][\A t \in Turns : pending(t) /\ turns'[t].step = "done" =>
       /\ pendingSelfFrames'[t] = {}
       /\ \A s \in pendingSelfFrames[t] : shown'[t][s] >= 1]_vars

\* A feed that is not stopped never loses its last socket, timer and attempt
\* but in two ways: open() itself throws, or the last attempt finds the
\* session replaced since it asked for its ticket (connectSocket,
\* scheduleReconnect, onclose).
StandsUnlessSuperseded ==
  [][alive > 0 /\ ~feed'.suppressed /\ alive' = 0 =>
       \E c \in 1 .. Chains : \/ attempts[c].step = "open"
                              \/ attempts[c].step = "ticket" /\ superseded(c)]_vars

\* Every submitted turn leaves the echo overlay: the socket may stay half
\* open, the session may expire, the credential may be revoked (turn()).
TurnsSettle == \A t \in Turns : pending(t) ~> turns[t].step = "done"

\* A peer's committed frame that passes the high-water is emitted
\* (handleObservationsFrame): the (scope, seq) guard is for gateways that
\* send no echo_id.
PeerFramesShown ==
  \A s \in Scopes :
    frameSeen[s] > 0 /\ ~own(s, frameSeen[s]) => frameSeen[s] \in peerShown[s]

\* "Reconnect-with-backoff runs for the feed's lifetime" (open()): a feed that
\* is not stopped loses its last socket, timer and attempt only if open() throws.
\* Refuted when a REST turn re-mints the session of a chain that awaits its ticket.
ReconnectForLife ==
  [][alive > 0 /\ ~feed'.suppressed /\ alive' = 0 =>
       \E c \in 1 .. Chains : attempts[c].step = "open"]_vars
=============================================================================
