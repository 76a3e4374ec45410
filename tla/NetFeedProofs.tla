---------------------------- MODULE NetFeedProofs ----------------------------
(***************************************************************************)
(* The browser feed client, for any turns, scopes, sessions, connection    *)
(* chains and guard size: an own turn's observations are emitted once per  *)
(* scope while the guard remembers the turn, what was held back for a turn *)
(* is emitted when the turn ends, and the feed keeps a way to reconnect.   *)
(***************************************************************************)
EXTENDS NetFeed, FiniteSetTheorems, SequenceTheorems, TLAPS

(***************************************************************************)
(* The inductive invariant.                                                *)
(***************************************************************************)

\* A turn that was not submitted reached no authority.
Unsent ==
  \A t \in Turns : turns[t].step = "new" => asked[t] = {} /\ ran[t].by = "none"

\* A turn has frames only once it ran; a pure read has a live frame and no
\* commit, any other turn has no live frame.
FramesFollowRuns ==
  \A t \in Turns :
    /\ t \in live => ran[t].by # "none" /\ ran[t].direct
    /\ \A s \in Scopes : holds(log[s], t) => ran[t].by # "none" /\ ~ran[t].direct

\* A turn is committed at most once in a scope.
LoggedOnce ==
  \A s \in Scopes : \A i, j \in DOMAIN log[s] :
    log[s][i] \in Turns /\ log[s][i] = log[s][j] => i = j

\* Only frames of a pending turn are held back.
HeldForPending ==
  \A t \in Turns : \A s \in pendingSelfFrames[t] : pending(t) /\ holds(log[s], t)

\* Nothing was emitted for a turn that has not ended, and no guard knows it.
QuietUntilDone ==
  \A t \in Turns : turns[t].step # "done" =>
    ~holds(settledEchoIds, t) /\ \A s \in Scopes : shown[t][s] = 0

\* No frame of t in s is still to come.
spent(t, s) ==
  /\ ran[t].by # "none" /\ t \notin live
  /\ ran[t].direct \/ \E n \in DOMAIN log[s] : n <= frameSeen[s] /\ log[s][n] = t

\* What was emitted once is remembered or cannot come again, unless a full
\* guard has forgotten the turn.
EmittedOnce ==
  \A t \in Turns, s \in Scopes :
    \/ shown[t][s] = 0
    \/ shown[t][s] = 1 /\ (holds(settledEchoIds, t) \/ spent(t, s))
    \/ ~holds(settledEchoIds, t) /\ Len(settledEchoIds) = Cap

FeedInv == /\ TypeOK /\ Unsent /\ FramesFollowRuns /\ LoggedOnce
           /\ HeldForPending /\ QuietUntilDone /\ EmittedOnce

\* Whoever waits for the connection has a session to connect with.
SessionKnown ==
  /\ feed.timer \/ feed.socket # "none" => feed.session # None
  /\ \A c \in 1 .. Chains : attempts[c].step = "ticket" => attempts[c].session # None


(***************************************************************************)
(* The bounded guards.                                                     *)
(***************************************************************************)

\* Every set of numbers that is not empty has a least one.
LEMMA NatMin ==
  ASSUME NEW T \in SUBSET Nat, T # {}
  PROVE  \E x \in T : \A y \in T : x <= y
<1> DEFINE R == {p \in Nat \X Nat : p[1] < p[2]}
<1>1. IsWellFoundedOn(R, Nat)
  BY NatLessThanWellFounded DEF OpToRel
<1>2. PICK x \in T : \A y \in T : <<y, x>> \notin R
  <2> HIDE DEF R
  <2> QED BY <1>1, WFMin
<1>3. \A y \in T : y \in Nat /\ x \in Nat /\ ~(y < x)
  BY <1>2
<1>4. \A y \in T : x <= y
  BY <1>3
<1> QED BY <1>4

\* A stretch of a sequence.
LEMMA Slice ==
  ASSUME NEW S, NEW q \in Seq(S), NEW m \in Nat, NEW n \in Nat,
         1 <= m, m <= n + 1, n <= Len(q)
  PROVE  /\ SubSeq(q, m, n) \in Seq(S) /\ Len(SubSeq(q, m, n)) = n + 1 - m
         /\ \A i \in 1 .. n + 1 - m : SubSeq(q, m, n)[i] = q[m + i - 1]
<1> DEFINE l == Len(q)
<1>1. l \in Nat /\ \A i \in 1 .. l : q[i] \in S
  BY LenProperties, ElementOfSeq
<1>2. n <= l
  OBVIOUS
<1> HIDE DEF l
<1>3. \A i \in m .. n : q[i] \in S
  BY <1>1, <1>2
<1>4. /\ SubSeq(q, m, n) \in Seq(S)
      /\ Len(SubSeq(q, m, n)) = IF m <= n THEN n - m + 1 ELSE 0
      /\ \A i \in 1 .. n - m + 1 : SubSeq(q, m, n)[i] = q[m + i - 1]
  BY <1>3, SubSeqProperties
<1>5. Len(SubSeq(q, m, n)) = n + 1 - m
  BY <1>4
<1>6. n - m + 1 = n + 1 - m
  OBVIOUS
<1> QED BY <1>4, <1>5, <1>6

\* Taking an element out leaves a sequence that is no longer.
LEMMA RemoveFacts ==
  ASSUME NEW S, NEW q \in Seq(S), NEW x
  PROVE  /\ RemoveFirst(q, x) \in Seq(S) /\ Len(RemoveFirst(q, x)) <= Len(q)
         /\ ~holds(q, x) => RemoveFirst(q, x) = q
<1>1. Len(q) \in Nat /\ DOMAIN q = 1 .. Len(q)
  BY LenProperties
<1>2. CASE \E i \in 1 .. Len(q) : q[i] = x
  <2> DEFINE I == {i \in 1 .. Len(q) : q[i] = x}
             k == SelectInSeq(q, LAMBDA v : v = x)
  <2>1. I # {} /\ k = Min(I)
    BY <1>2 DEF SelectInSeq
  <2>2. k \in 1 .. Len(q)
    <3>1. I \in SUBSET Nat /\ I \in SUBSET (1 .. Len(q))
      BY <1>1
    <3> HIDE DEF I, k
    <3>2. \E m \in I : \A n \in I : m <= n
      BY <2>1, <3>1, NatMin
    <3>3. Min(I) \in I
      BY <3>2 DEF Min
    <3> QED BY <2>1, <3>1, <3>3
  <2> HIDE DEF k
  <2>3. RemoveFirst(q, x) = SubSeq(q, 1, k - 1) \o SubSeq(q, k + 1, Len(q))
    BY <1>2 DEF RemoveFirst, RemoveAt, k
  <2> DEFINE l == Len(q)
             u == SubSeq(q, 1, k - 1)
             v == SubSeq(q, k + 1, l)
  <2>4. u \in Seq(S) /\ Len(u) = k - 1 /\ v \in Seq(S) /\ Len(v) = l - k
    <3>1. l \in Nat /\ k \in 1 .. l
      BY <1>1, <2>2
    <3>2. u \in Seq(S) /\ Len(u) = k - 1 + 1 - 1
      <4>1. k - 1 \in Nat /\ 1 <= k - 1 + 1 /\ k - 1 <= Len(q)
        BY <1>1, <2>2
      <4> QED BY <4>1, Slice
    <3>3. v \in Seq(S) /\ Len(v) = l + 1 - (k + 1)
      <4>1. k + 1 \in Nat /\ 1 <= k + 1 /\ k + 1 <= Len(q) + 1
        BY <1>1, <2>2
      <4> QED BY <1>1, <4>1, Slice
    <3> HIDE DEF u, v, l
    <3> QED BY <3>1, <3>2, <3>3
  <2>5. holds(q, x)
    BY <1>1, <1>2 DEF holds
  <2> HIDE DEF u, v, l
  <2>6. u \o v \in Seq(S) /\ Len(u \o v) = k - 1 + (l - k)
    <3>1. u \in Seq(S) /\ v \in Seq(S)
      BY <2>4
    <3>2. u \o v \in Seq(S) /\ Len(u \o v) = Len(u) + Len(v)
      BY <3>1, ConcatProperties
    <3> QED BY <2>4, <3>2, Zenon
  <2>7. k - 1 + (l - k) <= l
    BY <1>1, <2>2 DEF l
  <2> QED BY <2>3, <2>5, <2>6, <2>7 DEF u, v, l
<1>3. CASE ~ \E i \in 1 .. Len(q) : q[i] = x
  BY <1>1, <1>3 DEF RemoveFirst
<1> QED BY <1>2, <1>3

\* Remembering x: the guard stays within its size, forgets nothing unless it
\* is full, and is full for good.
LEMMA RememberFacts ==
  ASSUME NEW S, NEW q \in Seq(S), NEW x \in S, Len(q) <= Cap
  PROVE  /\ remember(q, x) \in Seq(S) /\ Len(remember(q, x)) <= Cap
         /\ ~holds(q, x) =>
              /\ \A y : holds(remember(q, x), y) => holds(q, y) \/ y = x
              /\ \A y : holds(q, y) \/ y = x => holds(remember(q, x), y) \/ Len(remember(q, x)) = Cap
              /\ Len(q) = Cap => Len(remember(q, x)) = Cap
<1> DEFINE z == RemoveFirst(q, x)
           kept == Append(z, x)
           r == remember(q, x)
<1>1. z \in Seq(S) /\ Len(z) <= Len(q) /\ (~holds(q, x) => z = q)
  BY RemoveFacts
<1>2. Cap \in Nat /\ Len(q) \in Nat /\ Len(z) \in Nat
  BY <1>1, FeedAssumption, LenProperties
<1>3. r = IF Len(kept) > Cap THEN Tail(kept) ELSE kept
  BY DEF remember
<1> HIDE DEF z, r
<1>4. kept \in Seq(S) /\ kept # <<>> /\ Len(kept) = Len(z) + 1
      /\ \A i \in 1 .. Len(z) + 1 : kept[i] = IF i <= Len(z) THEN z[i] ELSE x
  BY <1>1, AppendProperties
<1>5. Tail(kept) \in Seq(S) /\ Len(Tail(kept)) = Len(z)
      /\ \A i \in 1 .. Len(z) : Tail(kept)[i] = kept[i + 1]
  <2> HIDE DEF kept
  <2> QED BY <1>2, <1>4, HeadTailProperties
<1> HIDE DEF kept
<1>6. r \in Seq(S) /\ Len(r) <= Cap
  BY <1>1, <1>2, <1>3, <1>4, <1>5
<1>7. ASSUME ~holds(q, x)
      PROVE  /\ \A y : holds(r, y) => holds(q, y) \/ y = x
             /\ \A y : holds(q, y) \/ y = x => holds(r, y) \/ Len(r) = Cap
             /\ Len(q) = Cap => Len(r) = Cap
  <2>1. z = q /\ DOMAIN q = 1 .. Len(q) /\ DOMAIN r = 1 .. Len(r)
    BY <1>1, <1>6, <1>7, LenProperties
  <2>2. CASE Len(kept) > Cap
    <3>1. Len(q) = Cap /\ r = Tail(kept) /\ Len(r) = Cap
      BY <1>2, <1>3, <1>4, <1>5, <2>1, <2>2
    <3>2. \A i \in 1 .. Len(r) : r[i] = IF i + 1 <= Len(q) THEN q[i + 1] ELSE x
      <4>1. \A i \in 1 .. Len(q) : r[i] = kept[i + 1]
        BY <1>5, <2>1, <3>1
      <4>2. \A i \in 1 .. Len(q) : i + 1 \in 1 .. Len(q) + 1
        BY <1>2
      <4>3. \A i \in 1 .. Len(q) + 1 : kept[i] = IF i <= Len(q) THEN q[i] ELSE x
        BY <1>4, <2>1
      <4>4. \A i \in 1 .. Len(q) : r[i] = IF i + 1 <= Len(q) THEN q[i + 1] ELSE x
        BY <4>1, <4>2, <4>3
      <4>5. Len(r) = Len(q)
        BY <1>5, <2>1, <3>1
      <4> QED BY <4>4, <4>5
    <3>3. ASSUME NEW y, holds(r, y), y # x
          PROVE  holds(q, y)
      <4>1. PICK i \in 1 .. Len(r) : r[i] = y
        BY <2>1, <3>3 DEF holds
      <4>2. q[i + 1] = y /\ i + 1 \in 1 .. Len(q)
        BY <1>2, <3>1, <3>2, <3>3, <4>1
      <4> QED BY <2>1, <4>2 DEF holds
    <3> QED BY <3>1, <3>3
  <2>3. CASE ~(Len(kept) > Cap)
    <3>1. r = kept /\ Len(r) = Len(q) + 1 /\ Len(q) # Cap
      <4>1. r = kept /\ Len(kept) = Len(q) + 1
        BY <1>3, <1>4, <2>1, <2>3
      <4>2. ~(Len(q) + 1 > Cap)
        BY <2>3, <4>1
      <4> QED BY <1>2, <4>1, <4>2
    <3>2. \A i \in 1 .. Len(q) + 1 : r[i] = IF i <= Len(q) THEN q[i] ELSE x
      BY <1>4, <2>1, <3>1
    <3>3. \A y : holds(r, y) => holds(q, y) \/ y = x
      BY <1>2, <2>1, <3>1, <3>2 DEF holds
    <3>4. \A y : holds(q, y) \/ y = x => holds(r, y)
      BY <1>2, <2>1, <3>1, <3>2 DEF holds
    <3> QED BY <3>1, <3>3, <3>4
  <2> QED BY <2>2, <2>3
<1> QED BY <1>6, <1>7 DEF r

\* Emitting a turn's observations counts them in the scopes they are of.
LEMMA EmitFacts ==
  ASSUME shown \in [Turns -> [Scopes -> Nat]], NEW t \in Turns, NEW W
  PROVE  /\ emit(t, W) \in [Turns -> [Scopes -> Nat]]
         /\ \A u \in Turns : u # t => emit(t, W)[u] = shown[u]
         /\ \A s \in Scopes : s \in W => emit(t, W)[t][s] = shown[t][s] + 1
         /\ \A s \in Scopes : s \notin W => emit(t, W)[t][s] = shown[t][s]
<1>1. \A s \in Scopes : shown[t][s] + (IF s \in W THEN 1 ELSE 0) \in Nat
  OBVIOUS
<1> QED BY <1>1 DEF emit

(***************************************************************************)
(* Types.                                                                  *)
(***************************************************************************)
FeedType ==
  [session : Session, connection : {"idle", "connecting", "open", "closed"},
   socket : {"none", "connecting", "open"}, timer : BOOLEAN,
   suppressed : BOOLEAN, failed : BOOLEAN, remints : 0 .. 1, minting : BOOLEAN]

AttemptsType == [1 .. Chains -> [step : {"idle", "open", "ticket", "mint"}, session : Session]]

TurnsType == [Turns -> [step : Pending \cup {"new", "done"}, session : Session]]

\* The client's half of the state: connection, chains, turns and requests.
ClientType ==
  /\ feed \in FeedType /\ attempts \in AttemptsType /\ turns \in TurnsType
  /\ asked \in [Turns -> SUBSET Requests]

\* The guards and the frames.
GuardType ==
  /\ frameSeen \in [Scopes -> 0 .. MaxSeq]
  /\ selfSettled \in Seq(Scopes \X (0 .. MaxSeq)) /\ Len(selfSettled) <= Cap
  /\ settledEchoIds \in Seq(Turns) /\ Len(settledEchoIds) <= Cap
  /\ pendingSelfFrames \in [Turns -> SUBSET Scopes]
  /\ shown \in [Turns -> [Scopes -> Nat]]

\* The server's half.
ServerType ==
  /\ adopted \in BOOLEAN
  /\ mints \in Session /\ dead \subseteq 1 .. mints
  /\ ran \in [Turns -> [by : Requests \cup {"none"}, seq : 0 .. MaxSeq, direct : BOOLEAN]]
  /\ live \subseteq Turns
  /\ log \in [Scopes -> Seq(Turns \cup {Peer})]
  /\ \A s \in Scopes : Len(log[s]) <= MaxSeq
  /\ peerShown \in [Scopes -> SUBSET (1 .. MaxSeq)]

\* TypeOK, in three parts.
LEMMA TypeParts == TypeOK <=> ClientType /\ GuardType /\ ServerType
BY DEF TypeOK, ClientType, GuardType, ServerType, FeedType, AttemptsType, TurnsType

LEMMA NextTypeParts == ClientType' /\ GuardType' /\ ServerType' => TypeOK'
BY DEF TypeOK, ClientType, GuardType, ServerType, FeedType, AttemptsType, TurnsType

LEMMA Sessions ==
  /\ None \in Session /\ 1 \in Session /\ 0 .. MaxMints = Session
  /\ \A m \in Session : m < MaxMints => m + 1 \in Session
BY FeedAssumption DEF None, Session

LEMMA FeedOps ==
  ASSUME NEW f \in FeedType
  PROVE  /\ scheduleReconnect(f) \in FeedType /\ stopped(f) \in FeedType
         /\ terminate(f) \in FeedType /\ minting(f) \in FeedType
<1>1. scheduleReconnect(f) \in FeedType
  BY DEF scheduleReconnect, FeedType
<1>2. stopped(f) \in FeedType
  BY DEF stopped, FeedType
<1>3. terminate(f) \in FeedType
  BY <1>2 DEF terminate, FeedType
<1>4. minting(f) \in FeedType
  <2>1. CASE f.minting
    BY <2>1 DEF minting
  <2>2. CASE ~f.minting
    <3> DEFINE g == [f EXCEPT !.remints = 1]
    <3>1. g \in FeedType
      BY DEF FeedType
    <3>2. minting(f) = [g EXCEPT !.minting = TRUE]
      BY <2>2 DEF minting, FeedType
    <3> HIDE DEF g
    <3> QED BY <3>1, <3>2 DEF FeedType
  <2> QED BY <2>1, <2>2
<1> QED BY <1>1, <1>2, <1>3, <1>4

LEMMA FailType ==
  ASSUME turns \in TurnsType, NEW s \in Session
  PROVE  failInFlightTurns(s) \in TurnsType
BY DEF failInFlightTurns, posted, TurnsType, Pending, Waiting

LEMMA PostsType ==
  ASSUME ClientType, turns' \in TurnsType, Posts
  PROVE  asked' \in [Turns -> SUBSET Requests]
BY DEF ClientType, Posts

LEMMA PostedType ==
  ASSUME turns \in TurnsType, NEW t \in Turns, NEW s \in Session,
         NEW step \in Pending
  PROVE  /\ [turns EXCEPT ![t] = posted(step, s)] \in TurnsType
         /\ [turns EXCEPT ![t] = done] \in TurnsType
<1>1. None \in Session
  BY Sessions
<1> QED BY <1>1 DEF TurnsType, posted, done

LEMMA ChainType ==
  ASSUME attempts \in AttemptsType, NEW c \in 1 .. Chains, NEW s \in Session,
         NEW step \in {"idle", "open", "ticket", "mint"}
  PROVE  /\ chain(c, step, s) \in AttemptsType
         /\ [attempts EXCEPT ![c] = Idle] \in AttemptsType
<1>1. None \in Session
  BY Sessions
<1> QED BY <1>1 DEF AttemptsType, chain, Idle

LEMMA ConnectType ==
  ASSUME ClientType, NEW c \in 1 .. Chains, NEW f \in FeedType, connectSocket(c, f)
  PROVE  feed' \in FeedType /\ attempts' \in AttemptsType /\ turns' \in TurnsType
<1>0. attempts \in AttemptsType /\ turns \in TurnsType /\ f.session \in Session
  BY DEF ClientType, FeedType
<1>1. CASE f.session = None \/ f.suppressed
  BY <1>0, <1>1, ChainType DEF connectSocket
<1>2. CASE ~(f.session = None \/ f.suppressed)
  <2>1. feed' \in FeedType
    BY <1>2 DEF connectSocket, FeedType
  <2>2. attempts' \in AttemptsType
    BY <1>0, <1>2, ChainType DEF connectSocket
  <2>3. turns' \in TurnsType
    BY <1>0, <1>2, FailType DEF connectSocket
  <2> QED BY <2>1, <2>2, <2>3
<1> QED BY <1>1, <1>2

\* Accept and Release keep the guards well formed.
LEMMA SettleType ==
  ASSUME TypeOK, NEW t \in Turns, Release(t) \/ \E body \in {"full", "empty"} : Accept(t, body)
  PROVE  GuardType'
<1>0. GuardType /\ ServerType /\ Home \in Scopes
  BY TypeParts, FeedAssumption
<1>1. /\ settledEchoIds \in Seq(Turns) /\ Len(settledEchoIds) <= Cap
      /\ remember(settledEchoIds, t) \in Seq(Turns) /\ Len(remember(settledEchoIds, t)) <= Cap
  BY <1>0, RememberFacts DEF GuardType
<1>2. \A W : emit(t, W) \in [Turns -> [Scopes -> Nat]]
  BY <1>0, EmitFacts DEF GuardType
<1>3. pendingSelfFrames \in [Turns -> SUBSET Scopes]
  BY <1>0 DEF GuardType
<1>4. <<Home, ran[t].seq>> \in Scopes \X (0 .. MaxSeq)
  BY <1>0 DEF ServerType
<1>5. /\ remember(selfSettled, <<Home, ran[t].seq>>) \in Seq(Scopes \X (0 .. MaxSeq))
      /\ Len(remember(selfSettled, <<Home, ran[t].seq>>)) <= Cap
  BY <1>0, <1>4, RememberFacts DEF GuardType
<1>6. CASE Release(t)
  BY <1>0, <1>1, <1>2, <1>3, <1>6 DEF Release, GuardType
<1>7. ASSUME NEW body \in {"full", "empty"}, Accept(t, body) PROVE GuardType'
  BY <1>0, <1>1, <1>2, <1>3, <1>5, <1>7 DEF Accept, GuardType
<1> QED BY <1>6, <1>7

\* Every step of a connection keeps the client's half well formed.
LEMMA ConnectionType ==
  ASSUME TypeOK, Connection
  PROVE  ClientType'
<1>0. /\ ClientType /\ ServerType /\ feed \in FeedType /\ attempts \in AttemptsType
      /\ turns \in TurnsType /\ mints \in Session /\ feed.session \in Session
  <2>1. ClientType /\ ServerType
    BY TypeParts
  <2> QED BY <2>1 DEF ClientType, ServerType, FeedType
<1>1. ASSUME feed' \in FeedType, attempts' \in AttemptsType, turns' \in TurnsType, Posts
      PROVE  ClientType'
  BY <1>0, <1>1, PostsType DEF ClientType
<1>2. ASSUME NEW c \in 1 .. Chains, Open(c) PROVE ClientType'
  <2> DEFINE f == [feed EXCEPT !.suppressed = FALSE, !.failed = FALSE, !.remints = 0]
             g == [f EXCEPT !.session = 1]
  <2>1. f \in FeedType
    <3> DEFINE h == [feed EXCEPT !.remints = 0]
    <3>1. h \in FeedType
      BY <1>0 DEF FeedType
    <3>2. f = [h EXCEPT !.suppressed = FALSE, !.failed = FALSE]
      BY <1>0 DEF FeedType
    <3> HIDE DEF h, f
    <3> QED BY <3>1, <3>2 DEF FeedType
  <2>2. g \in FeedType
    <3> HIDE DEF f
    <3> QED BY <2>1, Sessions DEF FeedType
  <2>3. CASE adopted
    <3>1. connectSocket(c, g) /\ Posts
      BY <1>2, <2>3 DEF Open
    <3> HIDE DEF g
    <3> QED BY <1>0, <1>1, <2>2, <3>1, ConnectType
  <2>4. CASE ~adopted
    <3>1. feed' = f /\ attempts' = chain(c, "open", None) /\ turns' = turns /\ Posts
      BY <1>2, <2>4 DEF Open
    <3> HIDE DEF f
    <3> QED BY <1>0, <1>1, <2>1, <3>1, ChainType, Sessions
  <2> QED BY <2>3, <2>4
<1>3. ASSUME NEW c \in 1 .. Chains, OpenAnswered(c) PROVE ClientType'
  <2> DEFINE g == [feed EXCEPT !.session = mints + 1]
  <2>1. CASE mints < MaxMints /\ connectSocket(c, g)
    <3>1. g \in FeedType
      BY <1>0, <2>1, Sessions DEF FeedType
    <3>2. Posts
      BY <1>3 DEF OpenAnswered
    <3> HIDE DEF g
    <3> QED BY <1>0, <1>1, <2>1, <3>1, <3>2, ConnectType
  <2>2. CASE attempts' = [attempts EXCEPT ![c] = Idle] /\ UNCHANGED <<feed, turns, mints>>
    BY <1>0, <1>1, <1>3, <2>2, ChainType, Sessions DEF OpenAnswered
  <2> QED BY <1>3, <2>1, <2>2 DEF OpenAnswered
<1>4. ASSUME NEW c \in 1 .. Chains, TicketIssued(c) PROVE ClientType'
  <2>1. attempts' \in AttemptsType /\ asked' = asked
    BY <1>0, <1>4, ChainType, Sessions DEF TicketIssued, serverVars
  <2>2. [feed EXCEPT !.socket = "connecting"] \in FeedType /\ scheduleReconnect(feed) \in FeedType
    BY <1>0, FeedOps DEF FeedType
  <2>3. feed' \in FeedType
    BY <1>0, <1>4, <2>2 DEF TicketIssued
  <2>4. [t \in Turns |-> IF turns[t].step = "ws"
                         THEN [turns[t] EXCEPT !.step = "deaf"] ELSE turns[t]] \in TurnsType
    BY <1>0 DEF TurnsType, Pending, Waiting
  <2>5. turns' \in TurnsType
    BY <1>0, <1>4, <2>4 DEF TicketIssued
  <2> QED BY <1>0, <2>1, <2>3, <2>5 DEF ClientType
<1>5. ASSUME NEW c \in 1 .. Chains, TicketLost(c) PROVE ClientType'
  BY <1>0, <1>5, ChainType, Sessions, FeedOps DEF TicketLost, ClientType, serverVars
<1>6. ASSUME NEW c \in 1 .. Chains, TicketRefused(c) PROVE ClientType'
  <2>1. [attempts EXCEPT ![c] = Idle] \in AttemptsType /\ chain(c, "mint", None) \in AttemptsType
    BY <1>0, ChainType, Sessions
  <2>2. terminate(feed) \in FeedType /\ minting(feed) \in FeedType
    BY <1>0, FeedOps
  <2>3. failInFlightTurns(feed.session) \in TurnsType
    BY <1>0, FailType
  <2>4. feed' \in FeedType /\ attempts' \in AttemptsType /\ turns' \in TurnsType /\ Posts
    BY <1>0, <1>6, <2>1, <2>2, <2>3 DEF TicketRefused
  <2> QED BY <1>1, <2>4
<1>7. ASSUME NEW c \in 1 .. Chains, ReconnectTimer(c) PROVE ClientType'
  <2> DEFINE g == [feed EXCEPT !.timer = FALSE]
  <2>1. g \in FeedType
    BY <1>0 DEF FeedType
  <2>2. connectSocket(c, g) /\ Posts
    BY <1>7 DEF ReconnectTimer
  <2> HIDE DEF g
  <2> QED BY <1>0, <1>1, <2>1, <2>2, ConnectType
<1>8. CASE MintAnswered
  <2> DEFINE s == mints + 1
             f == [feed EXCEPT !.minting = FALSE, !.session = s, !.failed = FALSE]
             g == [f EXCEPT !.socket = "none", !.connection = "connecting"]
  <2>1. s \in Session
    BY <1>0, <1>8, Sessions DEF MintAnswered
  <2> HIDE DEF s
  <2>2. f \in FeedType
    BY <1>0, <2>1 DEF FeedType
  <2>3. g \in FeedType
    <3> HIDE DEF f
    <3> QED BY <2>2 DEF FeedType
  <2>4. feed' \in FeedType
    <3>1. feed' = f \/ feed' = g
      BY <1>8 DEF MintAnswered, s
    <3> QED BY <2>2, <2>3, <3>1
  <2>5. attempts' \in AttemptsType
    <3>1. Idle \in [step : {"idle", "open", "ticket", "mint"}, session : Session]
          /\ [step |-> "ticket", session |-> s] \in [step : {"idle", "open", "ticket", "mint"}, session : Session]
      BY <2>1, Sessions DEF Idle
    <3>2. DOMAIN attempts' = 1 .. Chains /\ attempts' = [c \in 1 .. Chains |-> attempts'[c]]
          /\ \A c \in 1 .. Chains : attempts'[c] \in {[step |-> "ticket", session |-> s], Idle, attempts[c]}
      BY <1>8 DEF MintAnswered, s
    <3> QED BY <1>0, <3>1, <3>2 DEF AttemptsType
  <2>6. turns' \in TurnsType
    <3>1. posted("retry", s) \in [step : Pending \cup {"new", "done"}, session : Session]
      BY <2>1 DEF posted, Pending
    <3>2. failInFlightTurns(s) \in TurnsType
      BY <1>0, <2>1, FailType
    <3>3. turns' = [t \in Turns |-> turns'[t]]
          /\ \A t \in Turns : turns'[t] \in {posted("retry", s), failInFlightTurns(s)[t], turns[t]}
      BY <1>8 DEF MintAnswered, s
    <3> QED BY <1>0, <3>1, <3>2, <3>3 DEF TurnsType
  <2>7. Posts
    BY <1>8 DEF MintAnswered
  <2> QED BY <1>1, <2>4, <2>5, <2>6, <2>7
<1>9. CASE MintFailed
  <2> DEFINE f == [feed EXCEPT !.minting = FALSE]
  <2>1. f \in FeedType
    BY <1>0 DEF FeedType
  <2>2. feed' \in FeedType
    <3>1. feed' = f \/ feed' = terminate(f)
      BY <1>9 DEF MintFailed
    <3> HIDE DEF f
    <3> QED BY <2>1, <3>1, FeedOps
  <2>3. attempts' \in AttemptsType
    <3>1. Idle \in [step : {"idle", "open", "ticket", "mint"}, session : Session]
      BY Sessions DEF Idle
    <3>2. attempts' = [c \in 1 .. Chains |-> attempts'[c]]
          /\ \A c \in 1 .. Chains : attempts'[c] \in {Idle, attempts[c]}
      BY <1>9 DEF MintFailed
    <3> QED BY <1>0, <3>1, <3>2 DEF AttemptsType
  <2>4. turns' \in TurnsType
    <3>1. posted("throws", None) \in [step : Pending \cup {"new", "done"}, session : Session]
      BY Sessions DEF posted, Pending
    <3>2. failInFlightTurns(feed.session) \in TurnsType
      BY <1>0, FailType
    <3>3. turns' = [t \in Turns |-> turns'[t]]
          /\ \A t \in Turns : turns'[t] \in {posted("throws", None), failInFlightTurns(feed.session)[t], turns[t]}
      BY <1>9 DEF MintFailed
    <3> QED BY <1>0, <3>1, <3>2, <3>3 DEF TurnsType
  <2>5. Posts
    BY <1>9 DEF MintFailed
  <2> QED BY <1>1, <2>2, <2>3, <2>4, <2>5
<1>10. CASE SocketOpens
  <2> DEFINE h == [feed EXCEPT !.remints = 0]
  <2>1. h \in FeedType
    BY <1>0 DEF FeedType
  <2>2. feed' = [h EXCEPT !.socket = "open", !.connection = "open"]
    BY <1>0, <1>10 DEF SocketOpens, FeedType
  <2> HIDE DEF h
  <2>3. feed' \in FeedType
    BY <2>1, <2>2 DEF FeedType
  <2> QED BY <1>0, <1>10, <2>3 DEF SocketOpens, ClientType, serverVars
<1>11. CASE SocketCloses
  <2>1. [feed EXCEPT !.socket = "none"] \in FeedType
    BY <1>0 DEF FeedType
  <2>2. feed' \in FeedType /\ turns' \in TurnsType /\ attempts' = attempts /\ Posts
    BY <1>0, <1>11, <2>1, FeedOps, FailType DEF SocketCloses
  <2> QED BY <1>0, <1>1, <2>2
<1>12. CASE Close
  <2>1. feed' \in FeedType /\ turns' \in TurnsType /\ attempts' = attempts /\ Posts
    BY <1>0, <1>12, FeedOps, FailType DEF Close
  <2> QED BY <1>0, <1>1, <2>1
<1> QED BY <1>2, <1>3, <1>4, <1>5, <1>6, <1>7, <1>8, <1>9, <1>10, <1>11, <1>12 DEF Connection

\* Connection steps leave the guards alone, and of the server's half change
\* only the sessions.
LEMMA ConnectionFrame ==
  ASSUME TypeOK, Connection
  PROVE  /\ UNCHANGED <<adopted, feedVars, dead, ran, live, log, peerShown>>
         /\ mints' \in Session /\ mints <= mints'
<1>0. mints \in Session /\ mints \in Nat /\ Session \subseteq Nat
  BY FeedAssumption DEF TypeOK, Session
<1>1. mints' = mints \/ (mints < MaxMints /\ mints' = mints + 1)
  BY DEF Connection, Open, OpenAnswered, TicketIssued, TicketLost, TicketRefused,
         ReconnectTimer, MintAnswered, MintFailed, SocketOpens, SocketCloses, Close, serverVars
<1>2. UNCHANGED <<adopted, feedVars, dead, ran, live, log, peerShown>>
  BY DEF Connection, Open, OpenAnswered, TicketIssued, TicketLost, TicketRefused,
         ReconnectTimer, MintAnswered, MintFailed, SocketOpens, SocketCloses, Close, serverVars
<1> QED BY <1>0, <1>1, <1>2, Sessions

\* Every step of a turn keeps the client's half well formed.
LEMMA TurnStepType ==
  ASSUME TypeOK, NEW t \in Turns, TurnStep(t)
  PROVE  ClientType' /\ GuardType' /\ UNCHANGED <<adopted, mints, dead, ran, live, log, peerShown>>
<1>0. /\ ClientType /\ GuardType /\ feed \in FeedType /\ attempts \in AttemptsType
      /\ turns \in TurnsType /\ feed.session \in Session /\ asked \in [Turns -> SUBSET Requests]
  <2>1. ClientType /\ GuardType
    BY TypeParts
  <2> QED BY <2>1 DEF ClientType, FeedType
<1>1. \A step \in Pending, s \in Session :
        /\ [turns EXCEPT ![t] = posted(step, s)] \in TurnsType
        /\ [turns EXCEPT ![t] = done] \in TurnsType
  BY <1>0, PostedType
<1>2. {"ws", "rest", "mint"} \subseteq Pending /\ None \in Session
  BY Sessions DEF Pending, Waiting
<1>3. ASSUME UNCHANGED feedVars PROVE GuardType'
  BY <1>0, <1>3 DEF GuardType, feedVars
<1>4. CASE turn(t) \/ TurnTimeout(t)
  <2>1. turns' \in TurnsType
    BY <1>0, <1>1, <1>2, <1>4 DEF turn, TurnTimeout
  <2>2. /\ Posts /\ feed' = feed /\ attempts' = attempts
        /\ UNCHANGED <<adopted, feedVars, mints, dead, ran, live, log, peerShown>>
    BY <1>4 DEF turn, TurnTimeout
  <2>3. asked' \in [Turns -> SUBSET Requests]
    BY <1>0, <2>1, <2>2, PostsType
  <2> QED BY <1>0, <1>3, <2>1, <2>2, <2>3 DEF ClientType
<1>5. CASE Throws(t)
  <2>1. turns' \in TurnsType /\ asked' = asked /\ feed' = feed /\ attempts' = attempts
        /\ UNCHANGED <<adopted, mints, dead, ran, live, log, peerShown>>
    BY <1>1, <1>2, <1>5 DEF Throws, serverVars
  <2>2. GuardType'
    BY <1>5, SettleType DEF Throws
  <2> QED BY <1>0, <2>1, <2>2 DEF ClientType
<1>6. CASE RestRefused(t)
  <2>1. asked' \in [Turns -> SUBSET Requests] /\ attempts' = attempts
        /\ UNCHANGED <<adopted, mints, dead, ran, live, log, peerShown>>
    BY <1>0, <1>6 DEF RestRefused
  <2>2. feed' \in FeedType /\ turns' \in TurnsType
    BY <1>0, <1>1, <1>2, <1>6, FeedOps DEF RestRefused
  <2>3. GuardType'
    <3>1. Release(t) \/ UNCHANGED feedVars
      BY <1>6 DEF RestRefused
    <3> QED BY <1>3, <3>1, SettleType
  <2> QED BY <1>0, <2>1, <2>2, <2>3 DEF ClientType
<1>7. ASSUME NEW r \in Requests, Reply(t, r)
      PROVE  ClientType' /\ GuardType' /\ UNCHANGED <<adopted, mints, dead, ran, live, log, peerShown>>
  <2>1. Release(t) \/ Accept(t, "full") \/ Accept(t, "empty")
    BY <1>7 DEF Reply
  <2>2. GuardType'
    BY <2>1, SettleType
  <2>3. feed' \in FeedType
    BY <1>0, <1>7 DEF Reply, FeedType
  <2>4. asked' \in [Turns -> SUBSET Requests]
    BY <1>0, <1>7 DEF Reply
  <2>5. turns' \in TurnsType /\ attempts' = attempts
        /\ UNCHANGED <<adopted, mints, dead, ran, live, log, peerShown>>
    BY <1>1, <1>2, <1>7 DEF Reply
  <2> QED BY <1>0, <2>2, <2>3, <2>4, <2>5 DEF ClientType
<1> QED BY <1>4, <1>5, <1>6, <1>7 DEF TurnStep

\* A frame changes the guards only, and what was emitted.
LEMMA FrameType ==
  ASSUME TypeOK, Frames
  PROVE  TypeOK'
<1>0. ClientType /\ GuardType /\ ServerType
  BY TypeParts
<1>1. ASSUME NEW s \in Scopes, NEW n \in 1 .. MaxSeq, handleObservationsFrame(s, n)
      PROVE  TypeOK'
  <2>1. MaxSeq \in Nat /\ n \in 0 .. MaxSeq
    BY FeedAssumption
  <2>2. ClientType'
    BY <1>0, <1>1 DEF handleObservationsFrame, ClientType, serverVars
  <2>3. frameSeen' \in [Scopes -> 0 .. MaxSeq] /\ settledEchoIds' = settledEchoIds
    BY <1>0, <1>1, <2>1 DEF handleObservationsFrame, GuardType
  <2>4. selfSettled' \in Seq(Scopes \X (0 .. MaxSeq)) /\ Len(selfSettled') <= Cap
    <3>1. selfSettled' = selfSettled \/ selfSettled' = remember(selfSettled, <<s, n>>)
      BY <1>1 DEF handleObservationsFrame
    <3>2. <<s, n>> \in Scopes \X (0 .. MaxSeq)
      BY <2>1
    <3>3. /\ remember(selfSettled, <<s, n>>) \in Seq(Scopes \X (0 .. MaxSeq))
          /\ Len(remember(selfSettled, <<s, n>>)) <= Cap
      <4>1. selfSettled \in Seq(Scopes \X (0 .. MaxSeq)) /\ Len(selfSettled) <= Cap
        BY <1>0 DEF GuardType
      <4> QED BY <3>2, <4>1, RememberFacts
    <3> QED BY <1>0, <3>1, <3>3 DEF GuardType
  <2>5. pendingSelfFrames' \in [Turns -> SUBSET Scopes]
    <3>1. \/ pendingSelfFrames' = pendingSelfFrames
          \/ /\ log[s][n] \in Turns
             /\ pendingSelfFrames' = [pendingSelfFrames EXCEPT ![log[s][n]] = @ \cup {s}]
      BY <1>1 DEF handleObservationsFrame, own
    <3>2. pendingSelfFrames \in [Turns -> SUBSET Scopes]
      BY <1>0 DEF GuardType
    <3>3. ASSUME NEW u \in Turns
          PROVE  [pendingSelfFrames EXCEPT ![u] = @ \cup {s}] \in [Turns -> SUBSET Scopes]
      <4>1. pendingSelfFrames[u] \cup {s} \in SUBSET Scopes
        BY <3>2
      <4> QED BY <3>2, <4>1
    <3> QED BY <3>1, <3>2, <3>3
  <2>6. shown' \in [Turns -> [Scopes -> Nat]]
    <3>1. shown' = shown \/ (log[s][n] \in Turns /\ shown' = emit(log[s][n], {s}))
      BY <1>1 DEF handleObservationsFrame, own
    <3> QED BY <1>0, <3>1, EmitFacts DEF GuardType
  <2>7. ServerType'
    BY <1>0, <1>1 DEF handleObservationsFrame, ServerType, serverVars
  <2>8. GuardType'
    BY <1>0, <2>3, <2>4, <2>5, <2>6 DEF GuardType
  <2> QED BY <2>2, <2>7, <2>8, NextTypeParts
<1>2. ASSUME NEW t \in Turns, handleLiveObservationsFrame(t)
      PROVE  TypeOK'
  <2>1. shown' \in [Turns -> [Scopes -> Nat]]
    BY <1>0, <1>2, EmitFacts DEF handleLiveObservationsFrame, GuardType
  <2>2. GuardType'
    BY <1>0, <1>2, <2>1 DEF handleLiveObservationsFrame, GuardType
  <2>3. ClientType'
    BY <1>0, <1>2 DEF handleLiveObservationsFrame, ClientType
  <2>4. ServerType'
    BY <1>0, <1>2 DEF handleLiveObservationsFrame, ServerType
  <2> QED BY <2>2, <2>3, <2>4, NextTypeParts
<1> QED BY <1>1, <1>2 DEF Frames

\* A server step changes the server's half only.
LEMMA ServerStepType ==
  ASSUME TypeOK, Server
  PROVE  ServerType' /\ UNCHANGED <<adopted, feed, attempts, turns, feedVars, mints, asked, peerShown>>
<1>0. ServerType /\ ClientType /\ Home \in Scopes /\ Shared \subseteq Scopes /\ MaxSeq \in Nat
  BY TypeParts, FeedAssumption
<1>1. ASSUME NEW s \in Scopes, NEW x \in Turns \cup {Peer}, Len(log[s]) < MaxSeq
      PROVE  /\ [log EXCEPT ![s] = Append(@, x)] \in [Scopes -> Seq(Turns \cup {Peer})]
             /\ \A u \in Scopes : Len([log EXCEPT ![s] = Append(@, x)][u]) <= MaxSeq
             /\ Len(log[s]) \in 0 .. MaxSeq /\ Len(log[s]) + 1 \in 0 .. MaxSeq
  <2>1. log[s] \in Seq(Turns \cup {Peer}) /\ Len(log[s]) \in Nat
    BY <1>0, LenProperties DEF ServerType
  <2>2. /\ Append(log[s], x) \in Seq(Turns \cup {Peer})
        /\ Len(Append(log[s], x)) = Len(log[s]) + 1
    BY <2>1, AppendProperties
  <2>3. Len(log[s]) + 1 <= MaxSeq
    BY <1>0, <1>1, <2>1
  <2> DEFINE e == Append(log[s], x)
  <2> HIDE DEF e
  <2>4. e \in Seq(Turns \cup {Peer}) /\ Len(e) <= MaxSeq
    BY <2>2, <2>3 DEF e
  <2>5. [log EXCEPT ![s] = e] \in [Scopes -> Seq(Turns \cup {Peer})]
        /\ \A u \in Scopes : Len([log EXCEPT ![s] = e][u]) <= MaxSeq
    BY <1>0, <2>4 DEF ServerType
  <2> QED BY <1>0, <2>1, <2>3, <2>5 DEF e
<1>2. ASSUME NEW t \in Turns, Execute(t)
      PROVE  ServerType' /\ UNCHANGED <<adopted, feed, attempts, turns, feedVars, mints, asked, peerShown>>
  <2>1. PICK r \in asked[t] :
          \/ /\ Len(log[Home]) < MaxSeq
             /\ log' = [log EXCEPT ![Home] = Append(@, t)]
             /\ ran' = [ran EXCEPT ![t] = [by |-> r, seq |-> Len(log[Home]) + 1, direct |-> FALSE]]
             /\ live' = live
          \/ /\ ran' = [ran EXCEPT ![t] = [by |-> r, seq |-> Len(log[Home]), direct |-> TRUE]]
             /\ live' = live \cup {t} /\ log' = log
    BY <1>2 DEF Execute
  <2>2. r \in Requests
    BY <1>0, <2>1 DEF ClientType
  <2>3. UNCHANGED <<adopted, feed, attempts, turns, feedVars, mints, dead, asked, peerShown>>
    BY <1>2 DEF Execute
  <2>4. Len(log[Home]) \in 0 .. MaxSeq
    BY <1>0, LenProperties DEF ServerType
  <2>5. CASE Len(log[Home]) < MaxSeq
             /\ log' = [log EXCEPT ![Home] = Append(@, t)]
             /\ ran' = [ran EXCEPT ![t] = [by |-> r, seq |-> Len(log[Home]) + 1, direct |-> FALSE]]
             /\ live' = live
    <3>1. log' \in [Scopes -> Seq(Turns \cup {Peer})] /\ (\A u \in Scopes : Len(log'[u]) <= MaxSeq)
          /\ Len(log[Home]) + 1 \in 0 .. MaxSeq
      BY <1>0, <1>1, <2>5
    <3>2. ran' \in [Turns -> [by : Requests \cup {"none"}, seq : 0 .. MaxSeq, direct : BOOLEAN]]
      BY <1>0, <2>2, <2>5, <3>1 DEF ServerType
    <3> QED BY <1>0, <2>3, <2>5, <3>1, <3>2 DEF ServerType
  <2>6. CASE ran' = [ran EXCEPT ![t] = [by |-> r, seq |-> Len(log[Home]), direct |-> TRUE]]
             /\ live' = live \cup {t} /\ log' = log
    <3>1. ran' \in [Turns -> [by : Requests \cup {"none"}, seq : 0 .. MaxSeq, direct : BOOLEAN]]
      BY <1>0, <2>2, <2>4, <2>6 DEF ServerType
    <3> QED BY <1>0, <2>3, <2>6, <3>1 DEF ServerType
  <2> QED BY <2>1, <2>3, <2>5, <2>6
<1>3. ASSUME NEW s \in Scopes, NEW x \in Turns \cup {Peer}, Len(log[s]) < MaxSeq,
             log' = [log EXCEPT ![s] = Append(@, x)],
             UNCHANGED <<adopted, feed, attempts, turns, feedVars, mints, dead, asked, ran, live, peerShown>>
      PROVE  ServerType'
  <2>1. log' \in [Scopes -> Seq(Turns \cup {Peer})] /\ (\A u \in Scopes : Len(log'[u]) <= MaxSeq)
    BY <1>1, <1>3
  <2> QED BY <1>0, <1>3, <2>1 DEF ServerType
<1>4. ASSUME NEW t \in Turns, NEW s \in Scopes, Ride(t, s)
      PROVE  ServerType' /\ UNCHANGED <<adopted, feed, attempts, turns, feedVars, mints, asked, peerShown>>
  BY <1>3, <1>4 DEF Ride
<1>5. ASSUME NEW s \in Shared, PeerCommit(s)
      PROVE  ServerType' /\ UNCHANGED <<adopted, feed, attempts, turns, feedVars, mints, asked, peerShown>>
  BY <1>0, <1>3, <1>5 DEF PeerCommit
<1>6. ASSUME NEW s \in Session, Expire(s)
      PROVE  ServerType' /\ UNCHANGED <<adopted, feed, attempts, turns, feedVars, mints, asked, peerShown>>
  BY <1>0, <1>6 DEF Expire, ServerType
<1> QED BY <1>2, <1>4, <1>5, <1>6 DEF Server

LEMMA TypeInit == Init => TypeOK
<1> SUFFICES ASSUME Init PROVE TypeOK
  OBVIOUS
<1>0. /\ None \in Session /\ 1 \in Session /\ MaxSeq \in Nat /\ Cap \in Nat /\ 0 \in Session
      /\ 0 \in 0 .. MaxSeq /\ 0 \in 0 .. 1
  BY Sessions, FeedAssumption DEF None
<1>1. ClientType
  BY <1>0 DEF Init, ClientType, FeedType, AttemptsType, TurnsType, Idle
<1>2. GuardType
  <2>1. <<>> \in Seq(Scopes \X (0 .. MaxSeq)) /\ <<>> \in Seq(Turns) /\ Len(<<>>) = 0 /\ 0 <= Cap
    BY <1>0, EmptySeq
  <2> QED BY <1>0, <2>1 DEF Init, GuardType
<1>3. ServerType
  <2>1. <<>> \in Seq(Turns \cup {Peer}) /\ Len(<<>>) = 0 /\ 0 <= MaxSeq
    BY <1>0, EmptySeq
  <2> QED BY <1>0, <2>1 DEF Init, ServerType
<1> QED BY <1>1, <1>2, <1>3, TypeParts

LEMMA TypeStep == TypeOK /\ [Next]_vars => TypeOK'
<1> SUFFICES ASSUME TypeOK, [Next]_vars PROVE TypeOK'
  OBVIOUS
<1>0. ClientType /\ GuardType /\ ServerType
  BY TypeParts
<1>1. CASE Connection
  <2>1. /\ UNCHANGED <<adopted, feedVars, dead, ran, live, log, peerShown>>
        /\ mints' \in Session /\ mints <= mints'
    BY <1>1, ConnectionFrame
  <2>2. ClientType'
    BY <1>1, ConnectionType
  <2>3. GuardType'
    BY <1>0, <2>1 DEF GuardType, feedVars
  <2>4. dead' \subseteq 1 .. mints'
    <3>1. mints \in Nat /\ mints' \in Nat /\ dead \subseteq 1 .. mints
      BY <1>0, <2>1, FeedAssumption DEF ServerType, Session
    <3> QED BY <2>1, <3>1
  <2>5. ServerType'
    BY <1>0, <2>1, <2>4 DEF ServerType
  <2> QED BY <2>2, <2>3, <2>5, NextTypeParts
<1>2. ASSUME NEW t \in Turns, TurnStep(t) PROVE TypeOK'
  <2>1. ClientType' /\ GuardType' /\ UNCHANGED <<adopted, mints, dead, ran, live, log, peerShown>>
    BY <1>2, TurnStepType
  <2>2. ServerType'
    BY <1>0, <2>1 DEF ServerType
  <2> QED BY <2>1, <2>2, NextTypeParts
<1>3. CASE Frames
  BY <1>3, FrameType
<1>4. CASE Server
  <2>1. ServerType' /\ UNCHANGED <<adopted, feed, attempts, turns, feedVars, mints, asked, peerShown>>
    BY <1>4, ServerStepType
  <2>2. ClientType' /\ GuardType'
    BY <1>0, <2>1 DEF ClientType, GuardType, feedVars
  <2> QED BY <2>1, <2>2, NextTypeParts
<1>5. CASE UNCHANGED vars
  <2>1. ClientType' /\ GuardType' /\ ServerType'
    BY <1>0, <1>5 DEF ClientType, GuardType, ServerType, vars, feedVars, serverVars
  <2> QED BY <2>1, NextTypeParts
<1> QED BY <1>1, <1>2, <1>3, <1>4, <1>5 DEF Next

\* Every variable keeps its type, for any number of turns, scopes, sessions
\* and chains; in particular both guards stay within their size.
THEOREM FeedTypeCorrect == Spec => []TypeOK
BY TypeInit, TypeStep, PTL DEF Spec

(***************************************************************************)
(* Observations are emitted once.                                          *)
(***************************************************************************)
Parts == Unsent /\ FramesFollowRuns /\ LoggedOnce /\ HeldForPending /\ QuietUntilDone /\ EmittedOnce

\* Steps of turns that are submitted, posted again or give up on an answer
\* touch neither guards nor frames, and end no turn.
LEMMA MovesKeepParts ==
  ASSUME FeedInv, UNCHANGED <<feedVars, ran, live, log>>,
         \A t \in Turns : \/ turns'[t].step = turns[t].step
                          \/ turns[t].step # "done" /\ turns'[t].step \in Pending,
         \A t \in Turns : turns'[t].step = "new" => asked'[t] = asked[t]
  PROVE  Parts'
<1>0. "new" \notin Pending /\ "done" \notin Pending
  BY DEF Pending, Waiting
<1>1. Unsent'
  BY <1>0 DEF FeedInv, Unsent
<1>2. FramesFollowRuns'
  BY DEF FeedInv, FramesFollowRuns, holds
<1>3. LoggedOnce'
  BY DEF FeedInv, LoggedOnce
<1>4. HeldForPending'
  BY DEF FeedInv, HeldForPending, holds, pending, feedVars
<1>5. QuietUntilDone'
  BY <1>0 DEF FeedInv, QuietUntilDone, holds, feedVars
<1>6. EmittedOnce'
  BY DEF FeedInv, EmittedOnce, spent, holds, feedVars
<1> QED BY <1>1, <1>2, <1>3, <1>4, <1>5, <1>6 DEF Parts

\* A turn that ends, with a reply or without.
LEMMA SettleKeepsParts ==
  ASSUME FeedInv, NEW t \in Turns, pending(t),
         Release(t) \/ \E body \in {"full", "empty"} : Accept(t, body),
         turns' = [turns EXCEPT ![t] = done], UNCHANGED <<ran, live, log>>,
         \A u \in Turns : u # t => asked'[u] = asked[u]
  PROVE  Parts'
<1> DEFINE q == settledEchoIds
           r == remember(q, t)
<1>0. /\ TypeOK /\ shown \in [Turns -> [Scopes -> Nat]] /\ turns \in TurnsType
      /\ pendingSelfFrames \in [Turns -> SUBSET Scopes] /\ q \in Seq(Turns) /\ Len(q) <= Cap
  BY DEF FeedInv, TypeOK, TurnsType
<1>1. turns[t].step # "done" /\ turns[t].step # "new"
  BY DEF pending, Pending, Waiting
<1>2. ~holds(q, t) /\ \A s \in Scopes : shown[t][s] = 0
  BY <1>1 DEF FeedInv, QuietUntilDone
<1>3. /\ \A y : holds(r, y) => holds(q, y) \/ y = t
      /\ \A y : holds(q, y) \/ y = t => holds(r, y) \/ Len(r) = Cap
      /\ Len(q) = Cap => Len(r) = Cap
  BY <1>0, <1>2, RememberFacts
<1>4. /\ frameSeen' = frameSeen
      /\ pendingSelfFrames' = [pendingSelfFrames EXCEPT ![t] = {}]
      /\ \E W \in SUBSET Scopes : /\ shown' = emit(t, W)
                                  /\ settledEchoIds' = r \/ (W = {} /\ settledEchoIds' = q)
  <2>1. \A body : Accept(t, body) =>
          \E W \in SUBSET Scopes : shown' = emit(t, W) /\ settledEchoIds' = r
    <3>1. carried(t) \in SUBSET Scopes /\ pendingSelfFrames[t] \in SUBSET Scopes
      BY <1>0, FeedAssumption DEF carried
    <3> QED BY <3>1 DEF Accept
  <2>2. ASSUME Release(t)
        PROVE  /\ shown' = emit(t, pendingSelfFrames[t])
               /\ settledEchoIds' = r \/ (pendingSelfFrames[t] = {} /\ settledEchoIds' = q)
    <3>1. /\ shown' = emit(t, pendingSelfFrames[t])
          /\ settledEchoIds' = IF pendingSelfFrames[t] = {} THEN q ELSE r
      BY <2>2, Zenon DEF Release
    <3> QED BY <3>1, Zenon
  <2>3. pendingSelfFrames[t] \in SUBSET Scopes
    BY <1>0
  <2>4. frameSeen' = frameSeen /\ pendingSelfFrames' = [pendingSelfFrames EXCEPT ![t] = {}]
    BY DEF Release, Accept
  <2> HIDE DEF r, q
  <2>5. CASE Release(t)
    BY <2>2, <2>3, <2>4, <2>5, Zenon
  <2>6. CASE \E body \in {"full", "empty"} : Accept(t, body)
    BY <2>1, <2>4, <2>6
  <2> QED BY <2>5, <2>6
<1>5. PICK W \in SUBSET Scopes : /\ shown' = emit(t, W)
                                 /\ settledEchoIds' = r \/ (W = {} /\ settledEchoIds' = q)
  BY <1>4
<1>6. /\ \A u \in Turns : u # t => shown'[u] = shown[u]
      /\ \A s \in Scopes : s \in W => shown'[t][s] = 1
      /\ \A s \in Scopes : s \notin W => shown'[t][s] = 0
  <2>1. /\ \A u \in Turns : u # t => emit(t, W)[u] = shown[u]
        /\ \A s \in Scopes : s \in W => emit(t, W)[t][s] = shown[t][s] + 1
        /\ \A s \in Scopes : s \notin W => emit(t, W)[t][s] = shown[t][s]
    BY <1>0, EmitFacts
  <2> QED BY <1>2, <1>5, <2>1
<1>7. turns'[t].step = "done" /\ \A u \in Turns : u # t => turns'[u] = turns[u]
  BY <1>0 DEF done, TurnsType
<1>8. Unsent'
  BY <1>7 DEF FeedInv, Unsent
<1>9. FramesFollowRuns' /\ LoggedOnce'
  BY DEF FeedInv, FramesFollowRuns, LoggedOnce, holds
<1>10. HeldForPending'
  <2>1. pendingSelfFrames'[t] = {} /\ \A u \in Turns : u # t => pendingSelfFrames'[u] = pendingSelfFrames[u]
    BY <1>0, <1>4
  <2> QED BY <1>7, <2>1 DEF FeedInv, HeldForPending, holds, pending
<1>11. \A u \in Turns : u # t /\ holds(settledEchoIds', u) => holds(q, u)
  BY <1>3, <1>5
<1>12. QuietUntilDone'
  <2> SUFFICES ASSUME NEW u \in Turns, turns'[u].step # "done"
               PROVE  ~holds(settledEchoIds', u) /\ \A s \in Scopes : shown'[u][s] = 0
    BY DEF QuietUntilDone, holds
  <2>1. u # t
    BY <1>7
  <2>2. turns[u].step # "done"
    BY <1>7, <2>1
  <2>3. ~holds(q, u) /\ \A s \in Scopes : shown[u][s] = 0
    BY <2>2 DEF FeedInv, QuietUntilDone
  <2> QED BY <1>6, <1>11, <2>1, <2>3
<1>13. EmittedOnce'
  <2> SUFFICES ASSUME NEW u \in Turns, NEW s \in Scopes
               PROVE  \/ shown'[u][s] = 0
                      \/ shown'[u][s] = 1 /\ (holds(settledEchoIds', u) \/ spent(u, s)')
                      \/ ~holds(settledEchoIds', u) /\ Len(settledEchoIds') = Cap
    BY DEF EmittedOnce, holds
  <2>1. CASE u = t
    <3>1. CASE s \in W
      <4>1. settledEchoIds' = r /\ shown'[u][s] = 1
        BY <1>5, <1>6, <2>1, <3>1
      <4> QED BY <1>3, <2>1, <4>1
    <3>2. CASE s \notin W
      BY <1>6, <2>1, <3>2
    <3> QED BY <3>1, <3>2
  <2>2. CASE u # t
    <3>1. \/ shown[u][s] = 0
          \/ shown[u][s] = 1 /\ (holds(q, u) \/ spent(u, s))
          \/ ~holds(q, u) /\ Len(q) = Cap
      BY DEF FeedInv, EmittedOnce
    <3>2. shown'[u][s] = shown[u][s]
      BY <1>6, <2>2
    <3>3. spent(u, s) => spent(u, s)'
      BY <1>4 DEF spent
    <3>4. holds(q, u) => holds(settledEchoIds', u) \/ Len(settledEchoIds') = Cap
      BY <1>3, <1>5
    <3>5. Len(q) = Cap => Len(settledEchoIds') = Cap
      BY <1>3, <1>5
    <3> QED BY <1>11, <2>2, <3>1, <3>2, <3>3, <3>4, <3>5
  <2> QED BY <2>1, <2>2
<1> QED BY <1>8, <1>9, <1>10, <1>12, <1>13 DEF Parts

\* Positions in a log are numbers.
LEMMA LogPositions ==
  ASSUME FeedInv, NEW s \in Scopes
  PROVE  /\ log[s] \in Seq(Turns \cup {Peer}) /\ Len(log[s]) \in Nat
         /\ DOMAIN log[s] = 1 .. Len(log[s]) /\ DOMAIN log[s] \subseteq Nat
<1>1. log[s] \in Seq(Turns \cup {Peer})
  BY DEF FeedInv, TypeOK
<1>2. Len(log[s]) \in Nat /\ DOMAIN log[s] = 1 .. Len(log[s])
  BY <1>1, LenProperties
<1> QED BY <1>1, <1>2

\* A committed frame: its turn, if it is an own one, has run and was
\* submitted, and the frame is the turn's only one in its scope.
LEMMA FrameKeepsParts ==
  ASSUME FeedInv, NEW s \in Scopes, NEW n \in 1 .. MaxSeq, handleObservationsFrame(s, n)
  PROVE  Parts'
<1> DEFINE x == log[s][n]
<1>0. /\ TypeOK /\ shown \in [Turns -> [Scopes -> Nat]] /\ frameSeen \in [Scopes -> 0 .. MaxSeq]
      /\ pendingSelfFrames \in [Turns -> SUBSET Scopes] /\ turns \in TurnsType
  BY DEF FeedInv, TypeOK, TurnsType
<1>1. /\ n \in DOMAIN log[s] /\ n > frameSeen[s] /\ frameSeen' = [frameSeen EXCEPT ![s] = n]
      /\ UNCHANGED <<turns, settledEchoIds, asked, ran, live, log>>
  BY DEF handleObservationsFrame, serverVars
<1>2. \A u \in Scopes : frameSeen'[u] \in Nat /\ frameSeen[u] \in Nat /\ frameSeen[u] <= frameSeen'[u]
  BY <1>0, <1>1
<1>3. \/ /\ pendingSelfFrames' = pendingSelfFrames /\ shown' = shown
      \/ /\ x \in Turns /\ pending(x) /\ shown' = shown
         /\ pendingSelfFrames' = [pendingSelfFrames EXCEPT ![x] = @ \cup {s}]
      \/ /\ x \in Turns /\ ~pending(x) /\ ~holds(settledEchoIds, x) /\ shown' = emit(x, {s})
         /\ pendingSelfFrames' = pendingSelfFrames
  BY DEF handleObservationsFrame, own
<1>4. Unsent' /\ FramesFollowRuns' /\ LoggedOnce'
  BY <1>1 DEF FeedInv, Unsent, FramesFollowRuns, LoggedOnce, holds
<1>5. holds(log[s], x)
  BY <1>1 DEF holds
<1>6. HeldForPending'
  <2>1. \A t \in Turns : pendingSelfFrames'[t] = pendingSelfFrames[t] \/
          (t = x /\ pending(t) /\ pendingSelfFrames'[t] = pendingSelfFrames[t] \cup {s})
    BY <1>0, <1>3
  <2>2. \A t \in Turns : \A u \in pendingSelfFrames'[t] : pending(t) /\ holds(log[u], t)
    BY <1>5, <2>1 DEF FeedInv, HeldForPending
  <2> QED BY <1>1, <2>2 DEF HeldForPending, pending, holds
<1>7. ASSUME x \in Turns, ~pending(x), ~holds(settledEchoIds, x), shown' = emit(x, {s})
      PROVE  QuietUntilDone' /\ EmittedOnce'
  <2>1. /\ ran[x].by # "none" /\ ~ran[x].direct /\ x \notin live
    BY <1>5, <1>7 DEF FeedInv, FramesFollowRuns
  <2>2. turns[x].step = "done"
    <3>1. turns[x].step # "new"
      BY <1>7, <2>1 DEF FeedInv, Unsent
    <3> QED BY <1>0, <1>7, <3>1 DEF pending, TurnsType
  <2>3. /\ \A u \in Turns : u # x => shown'[u] = shown[u]
        /\ shown'[x][s] = shown[x][s] + 1
        /\ \A u \in Scopes : u # s => shown'[x][u] = shown[x][u]
    <3> HIDE DEF x
    <3>1. /\ \A u \in Turns : u # x => emit(x, {s})[u] = shown[u]
          /\ \A u \in Scopes : u \in {s} => emit(x, {s})[x][u] = shown[x][u] + 1
          /\ \A u \in Scopes : u \notin {s} => emit(x, {s})[x][u] = shown[x][u]
      BY <1>0, <1>7, EmitFacts
    <3> QED BY <1>7, <3>1
  <2>4. QuietUntilDone'
    BY <1>1, <2>2, <2>3 DEF FeedInv, QuietUntilDone, holds
  <2>5. spent(x, s)'
    <3>1. frameSeen'[s] = n
      BY <1>0, <1>1
    <3> QED BY <1>1, <2>1, <3>1 DEF spent
  <2>6. ~spent(x, s)
    <3> SUFFICES ASSUME NEW m \in DOMAIN log[s], m <= frameSeen[s], log[s][m] = x PROVE FALSE
      BY <2>1 DEF spent
    <3>1. m = n
      BY <1>1, <1>7 DEF FeedInv, LoggedOnce
    <3> QED BY <1>1, <1>2, <3>1
  <2>7. EmittedOnce'
    <3> SUFFICES ASSUME NEW t \in Turns, NEW u \in Scopes
                 PROVE  \/ shown'[t][u] = 0
                        \/ shown'[t][u] = 1 /\ (holds(settledEchoIds', t) \/ spent(t, u)')
                        \/ ~holds(settledEchoIds', t) /\ Len(settledEchoIds') = Cap
      BY DEF EmittedOnce, holds
    <3>1. \/ shown[t][u] = 0
          \/ shown[t][u] = 1 /\ (holds(settledEchoIds, t) \/ spent(t, u))
          \/ ~holds(settledEchoIds, t) /\ Len(settledEchoIds) = Cap
      BY DEF FeedInv, EmittedOnce
    <3>2. CASE t = x /\ u = s
      BY <1>1, <1>7, <2>3, <2>5, <2>6, <3>1, <3>2
    <3>3. CASE ~(t = x /\ u = s)
      <4>1. shown'[t][u] = shown[t][u]
        BY <2>3, <3>3
      <4>2. spent(t, u) => spent(t, u)'
        BY <1>1, <1>2, LogPositions DEF spent
      <4> QED BY <1>1, <3>1, <4>1, <4>2
    <3> QED BY <3>2, <3>3
  <2> QED BY <2>4, <2>7
<1>8. ASSUME shown' = shown PROVE QuietUntilDone' /\ EmittedOnce'
  <2>1. \A t \in Turns, u \in Scopes : spent(t, u) => spent(t, u)'
    BY <1>1, <1>2, LogPositions DEF spent
  <2>2. EmittedOnce'
    BY <1>1, <1>8, <2>1 DEF FeedInv, EmittedOnce, holds
  <2> QED BY <1>1, <1>8, <2>2 DEF FeedInv, QuietUntilDone, holds
<1> QED BY <1>3, <1>4, <1>6, <1>7, <1>8 DEF Parts

\* The live frame of a pure read: it is the only frame the turn will ever have.
LEMMA LiveFrameKeepsParts ==
  ASSUME FeedInv, NEW t \in Turns, handleLiveObservationsFrame(t)
  PROVE  Parts'
<1>0. shown \in [Turns -> [Scopes -> Nat]] /\ turns \in TurnsType /\ Home \in Scopes
  BY FeedAssumption DEF FeedInv, TypeOK, TurnsType
<1>1. /\ t \in live /\ live' = live \ {t}
      /\ UNCHANGED <<turns, frameSeen, settledEchoIds, pendingSelfFrames, asked, ran, log>>
  BY DEF handleLiveObservationsFrame
<1>2. Unsent' /\ FramesFollowRuns' /\ LoggedOnce' /\ HeldForPending'
  BY <1>1 DEF FeedInv, Unsent, FramesFollowRuns, LoggedOnce, HeldForPending, holds, pending
<1>3. \A u \in Turns, s \in Scopes : spent(u, s) => spent(u, s)'
  BY <1>1 DEF spent
<1>4. CASE shown' = shown
  <2>1. EmittedOnce'
    BY <1>1, <1>3, <1>4 DEF FeedInv, EmittedOnce, holds
  <2> QED BY <1>1, <1>2, <1>4, <2>1 DEF FeedInv, QuietUntilDone, holds, Parts
<1>5. CASE ~holds(settledEchoIds, t) /\ ~pending(t) /\ shown' = emit(t, {Home})
  <2>1. ran[t].by # "none" /\ ran[t].direct
    BY <1>1 DEF FeedInv, FramesFollowRuns
  <2>2. turns[t].step = "done"
    <3>1. turns[t].step # "new"
      BY <2>1 DEF FeedInv, Unsent
    <3> QED BY <1>0, <1>5, <3>1 DEF pending, TurnsType
  <2>3. /\ \A u \in Turns : u # t => shown'[u] = shown[u]
        /\ shown'[t][Home] = shown[t][Home] + 1
        /\ \A s \in Scopes : s # Home => shown'[t][s] = shown[t][s]
    BY <1>0, <1>5, EmitFacts
  <2>4. QuietUntilDone'
    BY <1>1, <2>2, <2>3 DEF FeedInv, QuietUntilDone, holds
  <2>5. \A s \in Scopes : ~spent(t, s) /\ spent(t, s)'
    BY <1>1, <2>1 DEF spent
  <2>6. EmittedOnce'
    <3> SUFFICES ASSUME NEW u \in Turns, NEW s \in Scopes
                 PROVE  \/ shown'[u][s] = 0
                        \/ shown'[u][s] = 1 /\ (holds(settledEchoIds', u) \/ spent(u, s)')
                        \/ ~holds(settledEchoIds', u) /\ Len(settledEchoIds') = Cap
      BY DEF EmittedOnce, holds
    <3>1. \/ shown[u][s] = 0
          \/ shown[u][s] = 1 /\ (holds(settledEchoIds, u) \/ spent(u, s))
          \/ ~holds(settledEchoIds, u) /\ Len(settledEchoIds) = Cap
      BY DEF FeedInv, EmittedOnce
    <3>2. CASE u = t /\ s = Home
      BY <1>1, <1>5, <2>3, <2>5, <3>1, <3>2
    <3>3. CASE ~(u = t /\ s = Home)
      <4>1. shown'[u][s] = shown[u][s]
        BY <2>3, <3>3
      <4> QED BY <1>1, <1>3, <3>1, <4>1
    <3> QED BY <3>2, <3>3
  <2> QED BY <1>2, <2>4, <2>6 DEF Parts
<1> QED BY <1>4, <1>5 DEF handleLiveObservationsFrame

\* The log of s grew by the entry x.
Grew(s, x) ==
  /\ \A u \in Scopes : DOMAIN log[u] \subseteq DOMAIN log'[u]
                       /\ \A i \in DOMAIN log[u] : log'[u][i] = log[u][i]
  /\ \A u \in Scopes : \A i \in DOMAIN log'[u] :
       i \in DOMAIN log[u] \/ (u = s /\ i = Len(log[s]) + 1 /\ log'[u][i] = x)
  /\ Len(log[s]) + 1 \notin DOMAIN log[s]

LEMMA LogGrows ==
  ASSUME FeedInv, NEW s \in Scopes, NEW x \in Turns \cup {Peer},
         log' = [log EXCEPT ![s] = Append(@, x)]
  PROVE  Grew(s, x)
<1> DEFINE q == log[s]
           l == Len(q)
           e == Append(q, x)
<1>1. q \in Seq(Turns \cup {Peer}) /\ l \in Nat /\ DOMAIN q = 1 .. l
  BY LogPositions
<1>2. e \in Seq(Turns \cup {Peer}) /\ Len(e) = l + 1
      /\ \A i \in 1 .. l + 1 : e[i] = IF i <= l THEN q[i] ELSE x
  <2> HIDE DEF q
  <2> QED BY <1>1, AppendProperties
<1>3. DOMAIN e = 1 .. l + 1
  <2> HIDE DEF e
  <2> QED BY <1>2, LenProperties
<1>4. log \in [Scopes -> Seq(Turns \cup {Peer})]
  BY DEF FeedInv, TypeOK
<1>5. log'[s] = e /\ \A u \in Scopes : u # s => log'[u] = log[u]
  BY <1>4
<1> HIDE DEF e, l
<1>6. DOMAIN q \subseteq DOMAIN e /\ (\A i \in DOMAIN q : e[i] = q[i])
      /\ (\A i \in DOMAIN e : i \in DOMAIN q \/ (i = l + 1 /\ e[i] = x)) /\ l + 1 \notin DOMAIN q
  <2> HIDE DEF q
  <2> QED BY <1>1, <1>2, <1>3
<1> QED BY <1>5, <1>6 DEF l, Grew

\* A commit that adds an entry for a turn that has run with writes and is not
\* yet in that log, or for another actor.
LEMMA CommitKeepsParts ==
  ASSUME FeedInv, NEW s \in Scopes, NEW x \in Turns \cup {Peer},
         log' = [log EXCEPT ![s] = Append(@, x)], x \in Turns => ~holds(log[s], x),
         UNCHANGED <<turns, feedVars, asked, live>>,
         \A t \in Turns : ran[t].by # "none" => ran'[t] = ran[t],
         \A t \in Turns : turns[t].step = "new" => ran'[t] = ran[t],
         x \in Turns => ran'[x].by # "none" /\ ~ran'[x].direct
  PROVE  Parts'
<1>0. Peer \notin Turns
  BY FeedAssumption DEF Peer
<1>1. Grew(s, x)
  BY LogGrows
<1>2. \A u \in Scopes, t \in Turns : holds(log'[u], t) => holds(log[u], t) \/ (u = s /\ t = x)
  BY <1>1 DEF holds
<1>3. \A u \in Scopes, t \in Turns : holds(log[u], t) => holds(log'[u], t)
  BY <1>1 DEF holds, Grew
<1>4. Unsent'
  BY DEF FeedInv, Unsent
<1>5. FramesFollowRuns'
  <2> SUFFICES ASSUME NEW t \in Turns
               PROVE  /\ t \in live => ran'[t].by # "none" /\ ran'[t].direct
                      /\ \A u \in Scopes : holds(log'[u], t) => ran'[t].by # "none" /\ ~ran'[t].direct
    BY DEF FramesFollowRuns, holds
  <2> QED BY <1>2 DEF FeedInv, FramesFollowRuns
<1>6. LoggedOnce'
  <2> SUFFICES ASSUME NEW u \in Scopes, NEW i \in DOMAIN log'[u], NEW j \in DOMAIN log'[u],
                      log'[u][i] \in Turns, log'[u][i] = log'[u][j]
               PROVE  i = j
    BY DEF LoggedOnce
  <2>1. CASE i \in DOMAIN log[u] /\ j \in DOMAIN log[u]
    BY <1>1, <2>1 DEF FeedInv, LoggedOnce, Grew
  <2>2. CASE ~(i \in DOMAIN log[u] /\ j \in DOMAIN log[u])
    <3>1. u = s /\ log'[u][i] = x /\ x \in Turns
      BY <1>1, <2>2 DEF Grew
    <3>2. i \notin DOMAIN log[u] /\ j \notin DOMAIN log[u]
      BY <1>1, <3>1 DEF holds, Grew
    <3> QED BY <1>1, <3>2 DEF Grew
  <2> QED BY <2>1, <2>2
<1>7. HeldForPending'
  <2>1. \A t \in Turns : \A u \in pendingSelfFrames[t] : u \in Scopes
    BY DEF FeedInv, TypeOK
  <2>2. \A t \in Turns : \A u \in pendingSelfFrames[t] : pending(t) /\ holds(log'[u], t)
    BY <1>3, <2>1 DEF FeedInv, HeldForPending
  <2> QED BY <2>2 DEF HeldForPending, pending, holds, feedVars
<1>8. QuietUntilDone'
  BY DEF FeedInv, QuietUntilDone, holds, feedVars
<1>9. \A t \in Turns, u \in Scopes : spent(t, u) => spent(t, u)'
  BY <1>1 DEF spent, feedVars, Grew
<1>10. EmittedOnce'
  BY <1>9 DEF FeedInv, EmittedOnce, holds, feedVars
<1> QED BY <1>4, <1>5, <1>6, <1>7, <1>8, <1>10 DEF Parts

\* What the authorities do.
LEMMA ServerKeepsParts ==
  ASSUME FeedInv, Server
  PROVE  Parts'
<1>0. TypeOK /\ ran \in [Turns -> [by : Requests \cup {"none"}, seq : 0 .. MaxSeq, direct : BOOLEAN]]
      /\ asked \in [Turns -> SUBSET Requests] /\ Home \in Scopes /\ Shared \subseteq Scopes
  BY FeedAssumption DEF FeedInv, TypeOK
<1>1. ASSUME NEW t \in Turns, Execute(t) PROVE Parts'
  <2>1. PICK r \in asked[t] :
          \/ /\ log' = [log EXCEPT ![Home] = Append(@, t)]
             /\ ran' = [ran EXCEPT ![t] = [by |-> r, seq |-> Len(log[Home]) + 1, direct |-> FALSE]]
             /\ live' = live
          \/ /\ ran' = [ran EXCEPT ![t] = [by |-> r, seq |-> Len(log[Home]), direct |-> TRUE]]
             /\ live' = live \cup {t} /\ log' = log
    BY <1>1 DEF Execute
  <2>2. /\ UNCHANGED <<turns, feedVars, asked>> /\ ran[t].by = "none"
        /\ r # "none" /\ turns[t].step # "new"
    <3>1. r \in Requests /\ asked[t] # {}
      BY <1>0, <2>1
    <3>2. turns[t].step # "new"
      BY <3>1 DEF FeedInv, Unsent
    <3> QED BY <1>1, <3>1, <3>2 DEF Execute, Requests
  <2>3. \A u \in Turns : u # t => ran'[u] = ran[u]
    BY <1>0, <2>1
  <2>4. /\ \A u \in Turns : ran[u].by # "none" => ran'[u] = ran[u]
        /\ \A u \in Turns : turns[u].step = "new" => ran'[u] = ran[u]
    BY <2>2, <2>3
  <2>5. \A u \in Scopes : ~holds(log[u], t)
    BY <2>2 DEF FeedInv, FramesFollowRuns
  <2>6. CASE /\ log' = [log EXCEPT ![Home] = Append(@, t)]
             /\ ran' = [ran EXCEPT ![t] = [by |-> r, seq |-> Len(log[Home]) + 1, direct |-> FALSE]]
             /\ live' = live
    <3>1. ran'[t].by # "none" /\ ~ran'[t].direct
      BY <1>0, <2>2, <2>6
    <3> QED BY <1>0, <2>2, <2>4, <2>5, <2>6, <3>1, CommitKeepsParts
  <2>7. CASE /\ ran' = [ran EXCEPT ![t] = [by |-> r, seq |-> Len(log[Home]), direct |-> TRUE]]
             /\ live' = live \cup {t} /\ log' = log
    <3>1. ran'[t].by # "none" /\ ran'[t].direct
      BY <1>0, <2>2, <2>7
    <3>2. Unsent'
      BY <2>2, <2>4 DEF FeedInv, Unsent
    <3>3. FramesFollowRuns'
      BY <2>3, <2>5, <2>7, <3>1 DEF FeedInv, FramesFollowRuns, holds
    <3>4. LoggedOnce' /\ HeldForPending' /\ QuietUntilDone'
      BY <2>2, <2>7 DEF FeedInv, LoggedOnce, HeldForPending, QuietUntilDone, holds, pending, feedVars
    <3>5. \A u \in Turns, s \in Scopes : spent(u, s) => spent(u, s)'
      BY <2>2, <2>3, <2>7 DEF spent, feedVars
    <3>6. EmittedOnce'
      BY <2>2, <3>5 DEF FeedInv, EmittedOnce, holds, feedVars
    <3> QED BY <3>2, <3>3, <3>4, <3>6 DEF Parts
  <2> QED BY <2>1, <2>6, <2>7
<1>2. ASSUME NEW t \in Turns, NEW s \in Scopes, Ride(t, s) PROVE Parts'
  BY <1>2, CommitKeepsParts DEF Ride
<1>3. ASSUME NEW s \in Shared, PeerCommit(s) PROVE Parts'
  <2>1. Peer \notin Turns /\ Peer \in Turns \cup {Peer} /\ s \in Scopes
    BY <1>0, FeedAssumption DEF Peer
  <2> QED BY <1>3, <2>1, CommitKeepsParts DEF PeerCommit
<1>4. ASSUME NEW s \in Session, Expire(s) PROVE Parts'
  <2>1. UNCHANGED <<turns, feedVars, asked, ran, live, log>>
    BY <1>4 DEF Expire
  <2> QED BY <2>1, MovesKeepParts
<1> QED BY <1>1, <1>2, <1>3, <1>4 DEF Server

\* What the connection does to turns: some waiting ones are posted again.
LEMMA ConnectionMoves ==
  ASSUME TypeOK, Connection, NEW t \in Turns
  PROVE  /\ turns'[t].step = turns[t].step \/ (turns[t].step # "done" /\ turns'[t].step \in Pending)
         /\ turns'[t].step = "new" => asked'[t] = asked[t]
<1>0. turns \in TurnsType
  BY DEF TypeOK, TurnsType
<1>1. \A s : \/ failInFlightTurns(s)[t].step = turns[t].step
             \/ turns[t].step # "done" /\ failInFlightTurns(s)[t].step \in Pending
  BY DEF failInFlightTurns, posted, Pending, Waiting
<1>2. turns'[t].step = turns[t].step \/ (turns[t].step # "done" /\ turns'[t].step \in Pending)
  <2>1. \A c, f : connectSocket(c, f) => turns' = turns \/ \E s : turns' = failInFlightTurns(s)
    BY DEF connectSocket
  <2>2. \A c : Open(c) \/ OpenAnswered(c) \/ ReconnectTimer(c) =>
          turns' = turns \/ \E s : turns' = failInFlightTurns(s)
    BY <2>1 DEF Open, OpenAnswered, ReconnectTimer
  <2>3. \A c : TicketLost(c) \/ TicketRefused(c) =>
          turns' = turns \/ \E s : turns' = failInFlightTurns(s)
    BY DEF TicketLost, TicketRefused
  <2>4. SocketOpens \/ SocketCloses \/ Close => turns' = turns \/ \E s : turns' = failInFlightTurns(s)
    BY DEF SocketOpens, SocketCloses, Close
  <2>5. ASSUME NEW c \in 1 .. Chains, TicketIssued(c)
        PROVE  turns'[t].step = turns[t].step \/ (turns[t].step # "done" /\ turns'[t].step \in Pending)
    <3>1. turns' = turns \/ turns' = [u \in Turns |-> IF turns[u].step = "ws"
                                     THEN [turns[u] EXCEPT !.step = "deaf"] ELSE turns[u]]
      BY <2>5 DEF TicketIssued
    <3> QED BY <1>0, <3>1 DEF TurnsType, Pending, Waiting
  <2>6. CASE MintAnswered \/ MintFailed
    <3>1. \/ turns'[t] = turns[t] \/ \E s : turns'[t] = failInFlightTurns(s)[t]
          \/ turns[t].step = "mint" /\ \E s : turns'[t] = posted("retry", s) \/ turns'[t] = posted("throws", s)
      BY <2>6 DEF MintAnswered, MintFailed
    <3>2. \A s : posted("retry", s).step \in Pending /\ posted("throws", s).step \in Pending
      BY DEF posted, Pending
    <3> QED BY <1>1, <3>1, <3>2
  <2> QED BY <1>1, <2>2, <2>3, <2>4, <2>5, <2>6 DEF Connection
<1>3. ASSUME turns'[t].step = "new" PROVE asked'[t] = asked[t]
  <2>1. Posts \/ asked' = asked
    BY DEF Connection, Open, OpenAnswered, TicketIssued, TicketLost, TicketRefused,
           ReconnectTimer, MintAnswered, MintFailed, SocketOpens, SocketCloses, Close, serverVars
  <2> QED BY <1>3, <2>1 DEF Posts, Requests
<1> QED BY <1>2, <1>3

\* What a turn does: it moves on, or it ends and settles.
LEMMA TurnKeepsParts ==
  ASSUME FeedInv, NEW t \in Turns, TurnStep(t)
  PROVE  Parts'
<1>0. TypeOK /\ turns \in TurnsType /\ asked \in [Turns -> SUBSET Requests]
  BY DEF FeedInv, TypeOK, TurnsType
<1>1. CASE turn(t) \/ TurnTimeout(t)
  <2>1. /\ UNCHANGED <<feedVars, ran, live, log>> /\ Posts
        /\ \E step \in Pending : \E s : turns' = [turns EXCEPT ![t] = posted(step, s)]
        /\ turns[t].step # "done"
    <3>1. "ws" \in Pending /\ "rest" \in Pending /\ "done" \notin Waiting
      BY DEF Pending, Waiting
    <3> QED BY <1>1, <3>1 DEF turn, TurnTimeout
  <2>2. \A u \in Turns : \/ turns'[u].step = turns[u].step
                         \/ turns[u].step # "done" /\ turns'[u].step \in Pending
    BY <1>0, <2>1 DEF posted, TurnsType
  <2>3. \A u \in Turns : turns'[u].step = "new" => asked'[u] = asked[u]
    BY <2>1 DEF Posts, Requests
  <2> QED BY <2>1, <2>2, <2>3, MovesKeepParts
<1>2. ASSUME NEW step, turns[t].step = step, step \in {"ws", "rest", "retry", "throws"},
             Release(t) \/ \E body \in {"full", "empty"} : Accept(t, body),
             turns' = [turns EXCEPT ![t] = done], UNCHANGED <<ran, live, log>>,
             \A u \in Turns : u # t => asked'[u] = asked[u]
      PROVE  Parts'
  <2>1. pending(t)
    BY <1>2 DEF pending, Pending, Waiting
  <2> QED BY <1>2, <2>1, SettleKeepsParts
<1>3. CASE Throws(t)
  BY <1>2, <1>3 DEF Throws, serverVars
<1>4. CASE RestRefused(t)
  <2>0. /\ turns[t].step = "rest" /\ UNCHANGED <<ran, live, log>>
        /\ asked' = [asked EXCEPT ![t] = @ \ {"rest"}]
        /\ \/ turns' = [turns EXCEPT ![t] = done] /\ Release(t)
           \/ turns' = [turns EXCEPT ![t] = posted("mint", None)] /\ UNCHANGED feedVars
    BY <1>4 DEF RestRefused
  <2>1. \A u \in Turns : u # t => asked'[u] = asked[u]
    BY <1>0, <2>0
  <2>2. CASE turns' = [turns EXCEPT ![t] = done] /\ Release(t)
    BY <1>2, <2>0, <2>1, <2>2
  <2>3. CASE turns' = [turns EXCEPT ![t] = posted("mint", None)] /\ UNCHANGED feedVars
    <3>1. /\ \A u \in Turns : \/ turns'[u].step = turns[u].step
                              \/ turns[u].step # "done" /\ turns'[u].step \in Pending
          /\ \A u \in Turns : turns'[u].step = "new" => asked'[u] = asked[u]
      <4>1. turns'[t].step = "mint" /\ "mint" \in Pending /\ "mint" # "new"
        BY <1>0, <2>3 DEF posted, TurnsType, Pending
      <4>2. \A u \in Turns : u # t => turns'[u] = turns[u]
        BY <1>0, <2>3 DEF TurnsType
      <4> QED BY <2>0, <2>1, <4>1, <4>2
    <3> QED BY <2>0, <2>3, <3>1, MovesKeepParts
  <2> QED BY <2>0, <2>2, <2>3
<1>5. ASSUME NEW r \in Requests, Reply(t, r) PROVE Parts'
  <2>1. r \in {"ws", "rest", "retry", "throws"}
    BY DEF Requests
  <2>2. \A u \in Turns : u # t => asked'[u] = asked[u]
    BY <1>0, <1>5 DEF Reply
  <2>3. Release(t) \/ \E body \in {"full", "empty"} : Accept(t, body)
    BY <1>5 DEF Reply
  <2>4. turns[t].step = r /\ turns' = [turns EXCEPT ![t] = done] /\ UNCHANGED <<ran, live, log>>
    BY <1>5 DEF Reply
  <2> QED BY <1>2, <2>1, <2>2, <2>3, <2>4
<1> QED BY <1>1, <1>3, <1>4, <1>5 DEF TurnStep

LEMMA FeedInit == Init => FeedInv
<1> SUFFICES ASSUME Init PROVE FeedInv
  OBVIOUS
<1>1. TypeOK
  BY TypeInit
<1>2. \A x : ~holds(<<>>, x)
  BY DEF holds
<1>3. Unsent /\ FramesFollowRuns /\ LoggedOnce /\ HeldForPending
  BY <1>2 DEF Init, Unsent, FramesFollowRuns, LoggedOnce, HeldForPending
<1>4. QuietUntilDone /\ EmittedOnce
  BY <1>2 DEF Init, QuietUntilDone, EmittedOnce
<1> QED BY <1>1, <1>3, <1>4 DEF FeedInv

LEMMA FeedStep == FeedInv /\ [Next]_vars => FeedInv'
<1> SUFFICES ASSUME FeedInv, [Next]_vars PROVE FeedInv'
  OBVIOUS
<1>0. TypeOK /\ TypeOK'
  BY TypeStep DEF FeedInv
<1>1. CASE Connection
  <2>1. UNCHANGED <<feedVars, ran, live, log>>
    BY <1>0, <1>1, ConnectionFrame
  <2>2. \A t \in Turns :
          /\ turns'[t].step = turns[t].step \/ (turns[t].step # "done" /\ turns'[t].step \in Pending)
          /\ turns'[t].step = "new" => asked'[t] = asked[t]
    BY <1>0, <1>1, ConnectionMoves
  <2>3. Parts'
    BY <2>1, <2>2, MovesKeepParts
  <2> QED BY <1>0, <2>3 DEF FeedInv, Parts
<1>2. ASSUME NEW t \in Turns, TurnStep(t) PROVE FeedInv'
  BY <1>0, <1>2, TurnKeepsParts DEF FeedInv, Parts
<1>3. CASE Frames
  BY <1>0, <1>3, FrameKeepsParts, LiveFrameKeepsParts DEF Frames, FeedInv, Parts
<1>4. CASE Server
  BY <1>0, <1>4, ServerKeepsParts DEF FeedInv, Parts
<1>5. CASE UNCHANGED vars
  <2>1. Parts'
    BY <1>5, MovesKeepParts DEF vars, serverVars
  <2> QED BY <1>0, <2>1 DEF FeedInv, Parts
<1> QED BY <1>1, <1>2, <1>3, <1>4, <1>5 DEF Next

\* The client's echo guards, for every interleaving of replies, timeouts,
\* frames and reconnects: what a turn left on the way is known to one of them,
\* or cannot come again.
THEOREM EchoInvariant == Spec => []FeedInv
BY FeedInit, FeedStep, PTL DEF Spec

\* ShownOnce: an own turn's observations are emitted at most once per scope,
\* for as long as the bounded guard remembers the turn.
THEOREM ObservationsOnce == Spec => []ShownOnce
<1>1. FeedInv => ShownOnce
  <2> SUFFICES ASSUME FeedInv, NEW t \in Turns, NEW s \in Scopes, shown[t][s] > 1
               PROVE  ~holds(settledEchoIds, t) /\ Len(settledEchoIds) = Cap
    BY DEF ShownOnce
  <2> QED BY DEF FeedInv, EmittedOnce
<1> QED BY <1>1, EchoInvariant, PTL

(***************************************************************************)
(* What is held back is released.                                          *)
(***************************************************************************)

\* A settling turn emits everything that was held back for it: a full reply
\* carries every scope whose frame was held, since that turn wrote.
LEMMA SettleReleases ==
  ASSUME FeedInv, NEW t \in Turns,
         Release(t) \/ \E body \in {"full", "empty"} : Accept(t, body)
  PROVE  /\ pendingSelfFrames'[t] = {}
         /\ \A s \in pendingSelfFrames[t] : shown'[t][s] >= 1
<1>0. /\ shown \in [Turns -> [Scopes -> Nat]]
      /\ pendingSelfFrames \in [Turns -> SUBSET Scopes]
  BY DEF FeedInv, TypeOK
<1>1. pendingSelfFrames'[t] = {}
  BY <1>0 DEF Release, Accept
<1>2. \E W : shown' = emit(t, W) /\ pendingSelfFrames[t] \subseteq W
  <2>1. pendingSelfFrames[t] \subseteq carried(t)
    BY <1>0 DEF FeedInv, HeldForPending, FramesFollowRuns, carried
  <2>2. CASE Release(t)
    BY <2>2 DEF Release
  <2>3. ASSUME NEW body \in {"full", "empty"}, Accept(t, body)
        PROVE  \E W : shown' = emit(t, W) /\ pendingSelfFrames[t] \subseteq W
    BY <2>1, <2>3 DEF Accept
  <2> QED BY <2>2, <2>3
<1>3. PICK W : shown' = emit(t, W) /\ pendingSelfFrames[t] \subseteq W
  BY <1>2
<1>4. ASSUME NEW s \in pendingSelfFrames[t] PROVE shown'[t][s] >= 1
  <2>1. s \in Scopes /\ s \in W /\ shown[t][s] \in Nat
    BY <1>0, <1>3
  <2>2. shown'[t][s] = shown[t][s] + 1
    BY <1>0, <1>3, <2>1, EmitFacts
  <2> QED BY <2>1, <2>2
<1> QED BY <1>1, <1>4

\* The step that ends a pending turn is one of its own, and settles it.
LEMMA EndSettles ==
  ASSUME FeedInv, [Next]_vars, NEW t \in Turns, pending(t), turns'[t].step = "done"
  PROVE  Release(t) \/ \E body \in {"full", "empty"} : Accept(t, body)
<1>0. TypeOK /\ turns \in TurnsType /\ turns[t].step # "done" /\ "done" \notin Pending
  BY DEF FeedInv, TypeOK, TurnsType, pending, Pending, Waiting
<1>1. CASE Connection
  BY <1>0, <1>1, ConnectionMoves
<1>2. ASSUME NEW u \in Turns, TurnStep(u)
      PROVE  Release(t) \/ \E body \in {"full", "empty"} : Accept(t, body)
  <2>1. u = t
    <3>1. \E v : turns' = [turns EXCEPT ![u] = v]
      BY <1>2 DEF TurnStep, turn, TurnTimeout, RestRefused, Throws, Reply
    <3> QED BY <1>0, <3>1 DEF TurnsType
  <2>2. CASE turn(t) \/ TurnTimeout(t)
    <3>1. turns'[t].step = "ws" \/ turns'[t].step = "rest"
      BY <1>0, <2>2 DEF turn, TurnTimeout, posted, TurnsType
    <3> QED BY <3>1
  <2>3. CASE RestRefused(t)
    <3>1. Release(t) \/ turns'[t].step = "mint"
      BY <1>0, <2>3 DEF RestRefused, posted, TurnsType
    <3> QED BY <3>1
  <2>4. CASE Throws(t)
    BY <2>4 DEF Throws
  <2>5. CASE \E r \in Requests : Reply(t, r)
    BY <2>5 DEF Reply
  <2> QED BY <1>2, <2>1, <2>2, <2>3, <2>4, <2>5 DEF TurnStep
<1>3. CASE Frames
  BY <1>0, <1>3 DEF Frames, handleObservationsFrame, handleLiveObservationsFrame
<1>4. CASE Server
  BY <1>0, <1>4 DEF Server, Execute, Ride, PeerCommit, Expire
<1>5. CASE UNCHANGED vars
  BY <1>0, <1>5 DEF vars
<1> QED BY <1>1, <1>2, <1>3, <1>4, <1>5 DEF Next

\* HeldFramesReleased: a frame held back for a pending turn is emitted when the
\* turn ends, however it ends (settleTurn, and turn()'s finally).
THEOREM HeldFramesAreReleased == Spec => HeldFramesReleased
<1>1. FeedInv /\ [Next]_vars =>
        [\A t \in Turns : pending(t) /\ turns'[t].step = "done" =>
           /\ pendingSelfFrames'[t] = {}
           /\ \A s \in pendingSelfFrames[t] : shown'[t][s] >= 1]_vars
  <2> SUFFICES ASSUME FeedInv, [Next]_vars, NEW t \in Turns, pending(t), turns'[t].step = "done"
               PROVE  /\ pendingSelfFrames'[t] = {}
                      /\ \A s \in pendingSelfFrames[t] : shown'[t][s] >= 1
    OBVIOUS
  <2> QED BY EndSettles, SettleReleases
<1> QED BY <1>1, EchoInvariant, PTL DEF Spec, HeldFramesReleased

(***************************************************************************)
(* The feed keeps trying to connect.                                       *)
(***************************************************************************)

\* There is a call in flight, a timer or a socket.
standing == (\E c \in 1 .. Chains : attempts[c] # Idle) \/ feed.timer \/ feed.socket # "none"

\* `alive` counts what stands.
aliveCounts == (alive > 0 <=> standing) /\ (alive = 0 <=> ~standing)

LEMMA AliveStands == TypeOK => aliveCounts
<1> SUFFICES ASSUME TypeOK PROVE (alive > 0 <=> standing) /\ (alive = 0 <=> ~standing)
  BY DEF aliveCounts
<1> DEFINE S == {c \in 1 .. Chains : attempts[c] # Idle}
           n == Cardinality(S)
<1>1. IsFiniteSet(S)
  <2>1. IsFiniteSet(1 .. Chains) /\ S \subseteq 1 .. Chains
    BY FeedAssumption, FS_Interval
  <2> QED BY <2>1, FS_Subset
<1>2. n \in Nat /\ (n = 0 <=> S = {})
  BY <1>1, FS_CardinalityType, FS_EmptySet
<1>3. S = {} <=> ~\E c \in 1 .. Chains : attempts[c] # Idle
  OBVIOUS
<1>4. alive = n + (IF feed.timer THEN 1 ELSE 0) + (IF feed.socket # "none" THEN 1 ELSE 0)
  BY DEF alive
<1>5. standing <=> S # {} \/ feed.timer \/ feed.socket # "none"
  BY <1>3 DEF standing
<1> HIDE DEF n, S
<1> QED BY <1>2, <1>4, <1>5

LEMMA AliveStandsNext == TypeOK' => aliveCounts'
BY AliveStands, PTL

LEMMA SessionStep ==
  ASSUME TypeOK, SessionKnown, [Next]_vars
  PROVE  SessionKnown'
<1>0. /\ feed \in FeedType /\ attempts \in AttemptsType /\ mints \in Nat /\ mints + 1 # None
      /\ 1 # None /\ turns \in TurnsType
  <2>1. mints \in Nat
    BY FeedAssumption DEF TypeOK, Session
  <2>2. mints + 1 # None /\ 1 # None
    BY <2>1 DEF None
  <2> QED BY <2>1, <2>2 DEF TypeOK, FeedType, AttemptsType, TurnsType
<1> DEFINE known(f, at) == /\ f.timer \/ f.socket # "none" => f.session # None
                           /\ \A c \in 1 .. Chains : at[c].step = "ticket" => at[c].session # None
<1>1. known(feed, attempts)
  BY DEF SessionKnown
<1>2. ASSUME NEW c \in 1 .. Chains, NEW f \in FeedType, connectSocket(c, f),
             f.timer \/ f.socket # "none" => f.session # None
      PROVE  known(feed', attempts')
  <2>1. CASE f.session = None \/ f.suppressed
    <3>1. feed' = f /\ attempts' = [attempts EXCEPT ![c] = Idle]
      BY <1>2, <2>1 DEF connectSocket
    <3> QED BY <1>0, <1>1, <1>2, <3>1 DEF AttemptsType, Idle
  <2>2. CASE ~(f.session = None \/ f.suppressed)
    <3>1. /\ feed' = [f EXCEPT !.socket = "none", !.connection = "connecting"]
          /\ attempts' = [attempts EXCEPT ![c] = [step |-> "ticket", session |-> f.session]]
      BY <1>2, <2>2 DEF connectSocket, chain
    <3>2. feed'.session = f.session
      BY <1>2, <3>1 DEF FeedType
    <3> QED BY <1>0, <1>1, <2>2, <3>1, <3>2 DEF AttemptsType
  <2> QED BY <2>1, <2>2
<1>3. ASSUME NEW c \in 1 .. Chains, Open(c) PROVE known(feed', attempts')
  <2> DEFINE f == [feed EXCEPT !.suppressed = FALSE, !.failed = FALSE, !.remints = 0]
             g == [f EXCEPT !.session = 1]
  <2>1. f \in FeedType /\ f.timer = feed.timer /\ f.socket = feed.socket /\ f.session = feed.session
    <3>1. 0 \in 0 .. 1
      OBVIOUS
    <3> QED BY <1>0, <3>1 DEF FeedType
  <2>2. CASE adopted
    <3>1. g \in FeedType /\ g.session = 1
      <4> HIDE DEF f
      <4> QED BY <2>1, Sessions DEF FeedType
    <3>2. connectSocket(c, g)
      BY <1>3, <2>2 DEF Open
    <3> HIDE DEF g
    <3> QED BY <1>0, <1>2, <3>1, <3>2
  <2>3. CASE ~adopted
    <3>1. feed' = f /\ attempts' = [attempts EXCEPT ![c] = [step |-> "open", session |-> None]]
      BY <1>3, <2>3 DEF Open, chain
    <3> HIDE DEF f
    <3> QED BY <1>0, <1>1, <2>1, <3>1 DEF AttemptsType
  <2> QED BY <2>2, <2>3
<1>4. ASSUME NEW c \in 1 .. Chains, OpenAnswered(c) PROVE known(feed', attempts')
  <2> DEFINE g == [feed EXCEPT !.session = mints + 1]
  <2>1. CASE mints < MaxMints /\ connectSocket(c, g)
    <3>1. mints + 1 \in Session
      BY <2>1, Sessions DEF TypeOK
    <3>2. g \in FeedType /\ g.session = mints + 1
      BY <1>0, <3>1 DEF FeedType
    <3> HIDE DEF g
    <3> QED BY <1>0, <1>2, <2>1, <3>2
  <2>2. CASE attempts' = [attempts EXCEPT ![c] = Idle] /\ feed' = feed
    BY <1>0, <1>1, <2>2 DEF AttemptsType, Idle
  <2> QED BY <1>4, <2>1, <2>2 DEF OpenAnswered
<1>5. \A f \in FeedType : /\ scheduleReconnect(f).session = f.session
                          /\ terminate(f).session = f.session /\ stopped(f).session = f.session
                          /\ minting(f).session = f.session
  BY DEF scheduleReconnect, terminate, stopped, minting, FeedType
<1>6. ASSUME NEW c \in 1 .. Chains, TicketIssued(c) \/ TicketLost(c) \/ TicketRefused(c)
      PROVE  known(feed', attempts')
  <2>1. attempts[c].step = "ticket" /\ attempts[c].session # None
    BY <1>1, <1>6 DEF TicketIssued, TicketLost, TicketRefused
  <2>2. attempts' = [attempts EXCEPT ![c] = Idle]
        \/ attempts' = [attempts EXCEPT ![c] = [step |-> "mint", session |-> None]]
    BY <1>6 DEF TicketIssued, TicketLost, TicketRefused, chain
  <2>3. \A d \in 1 .. Chains : attempts'[d].step = "ticket" => attempts'[d].session # None
    <3> DEFINE parked == [step |-> "mint", session |-> None]
    <3>1. parked.step # "ticket" /\ Idle.step # "ticket"
      BY DEF Idle
    <3> HIDE DEF parked
    <3>2. \A d \in 1 .. Chains : attempts'[d] = attempts[d] \/ attempts'[d] = parked \/ attempts'[d] = Idle
      BY <1>0, <2>2 DEF AttemptsType, parked
    <3> QED BY <1>1, <3>1, <3>2
  <2>4. superseded(c) \/ feed.session # None
    BY <2>1 DEF superseded
  <2>5. CASE superseded(c)
    <3>1. feed' = feed
      BY <1>6, <2>5 DEF TicketIssued, TicketLost, TicketRefused
    <3> QED BY <1>1, <2>3, <3>1
  <2>6. CASE ~superseded(c)
    <3>1. feed'.session = feed.session
      <4>1. \/ feed' = [feed EXCEPT !.socket = "connecting"] \/ feed' = scheduleReconnect(feed)
            \/ feed' = terminate(feed) \/ feed' = minting(feed)
        BY <1>6, <2>6 DEF TicketIssued, TicketLost, TicketRefused
      <4> QED BY <1>0, <1>5, <4>1 DEF FeedType
    <3> QED BY <2>3, <2>4, <2>6, <3>1
  <2> QED BY <2>5, <2>6
<1>7. CASE MintAnswered
  <2>1. feed'.session = mints + 1
    BY <1>0, <1>7 DEF MintAnswered, FeedType
  <2>2. \A c \in 1 .. Chains : \/ attempts'[c] = [step |-> "ticket", session |-> mints + 1]
                               \/ attempts'[c] = Idle \/ attempts'[c] = attempts[c]
    BY <1>7 DEF MintAnswered
  <2>3. \A c \in 1 .. Chains : attempts'[c].step = "ticket" => attempts'[c].session # None
    BY <1>0, <1>1, <2>2 DEF Idle
  <2> QED BY <1>0, <2>1, <2>3 DEF SessionKnown
<1>8. CASE MintFailed
  <2> DEFINE f == [feed EXCEPT !.minting = FALSE]
  <2>1. f \in FeedType /\ f.session = feed.session /\ f.timer = feed.timer /\ f.socket = feed.socket
    BY <1>0 DEF FeedType
  <2>2. feed' = terminate(f) \/ feed' = f
    BY <1>8 DEF MintFailed
  <2>3. terminate(f).timer = FALSE /\ terminate(f).socket = "none"
    <3> HIDE DEF f
    <3> QED BY <2>1 DEF terminate, stopped, FeedType
  <2>4. feed'.timer \/ feed'.socket # "none" => feed'.session # None
    <3> HIDE DEF f
    <3> QED BY <1>1, <2>1, <2>2, <2>3
  <2>5. \A c \in 1 .. Chains : attempts'[c] = Idle \/ attempts'[c] = attempts[c]
    BY <1>8 DEF MintFailed
  <2>6. \A c \in 1 .. Chains : attempts'[c].step = "ticket" => attempts'[c].session # None
    BY <1>1, <2>5 DEF Idle
  <2> QED BY <2>4, <2>6 DEF SessionKnown
<1>9. ASSUME NEW c \in 1 .. Chains, ReconnectTimer(c) PROVE known(feed', attempts')
  <2> DEFINE f == [feed EXCEPT !.timer = FALSE]
  <2>1. f \in FeedType /\ f.socket = feed.socket /\ f.session = feed.session
    BY <1>0 DEF FeedType
  <2>2. connectSocket(c, f) /\ feed.timer
    BY <1>9 DEF ReconnectTimer
  <2> HIDE DEF f
  <2> QED BY <1>1, <1>2, <2>1, <2>2
<1>10. CASE SocketOpens \/ SocketCloses \/ Close
  <2>1. attempts' = attempts
    BY <1>10 DEF SocketOpens, SocketCloses, Close
  <2>2. feed'.timer \/ feed'.socket # "none" => feed'.session # None
    <3>1. CASE SocketOpens
      BY <1>0, <1>1, <3>1 DEF SocketOpens, FeedType
    <3>2. CASE SocketCloses
      <4>1. [feed EXCEPT !.socket = "none"] \in FeedType
        BY <1>0 DEF FeedType
      <4>2. feed'.session = feed.session
        BY <1>0, <1>5, <3>2, <4>1 DEF SocketCloses, FeedType
      <4> QED BY <1>1, <3>2, <4>2 DEF SocketCloses
    <3>3. CASE Close
      BY <1>0, <3>3 DEF Close, stopped, FeedType
    <3> QED BY <1>10, <3>1, <3>2, <3>3
  <2> QED BY <1>1, <2>1, <2>2 DEF SessionKnown
<1>11. CASE Connection
  BY <1>3, <1>4, <1>6, <1>7, <1>8, <1>9, <1>10, <1>11 DEF Connection, SessionKnown
<1>12. ASSUME NEW t \in Turns, TurnStep(t) PROVE known(feed', attempts')
  <2>1. attempts' = attempts /\ (feed' = feed \/ feed' = [feed EXCEPT !.remints = 0] \/ feed' = minting(feed))
    BY <1>12 DEF TurnStep, turn, TurnTimeout, RestRefused, Throws, Reply
  <2>2. feed'.session = feed.session /\ feed'.timer = feed.timer /\ feed'.socket = feed.socket
    BY <1>0, <2>1 DEF minting, FeedType
  <2> QED BY <1>1, <2>1, <2>2
<1>13. CASE Frames \/ Server \/ UNCHANGED vars
  <2>1. feed' = feed /\ attempts' = attempts
    BY <1>13 DEF Frames, handleObservationsFrame, handleLiveObservationsFrame,
                 Server, Execute, Ride, PeerCommit, Expire, vars
  <2> QED BY <1>1, <2>1 DEF SessionKnown
<1> QED BY <1>11, <1>12, <1>13 DEF Next, SessionKnown

\* A step that leaves nothing standing stops the feed, ends an open() that
\* threw, or abandons an attempt whose session was replaced.
LEMMA StandsStep ==
  ASSUME TypeOK, SessionKnown, [Next]_vars, standing, ~feed'.suppressed, ~standing'
  PROVE  \E c \in 1 .. Chains : \/ attempts[c].step = "open"
                                \/ attempts[c].step = "ticket" /\ superseded(c)
<1> DEFINE Goal == \E c \in 1 .. Chains : \/ attempts[c].step = "open"
                                          \/ attempts[c].step = "ticket" /\ superseded(c)
<1>0. /\ feed \in FeedType /\ attempts \in AttemptsType
      /\ (\A c \in 1 .. Chains : attempts'[c] = Idle) /\ ~feed'.timer /\ feed'.socket = "none"
  BY DEF TypeOK, FeedType, AttemptsType, standing
<1>1. \A f \in FeedType :
        /\ scheduleReconnect(f).timer \/ scheduleReconnect(f).suppressed
        /\ terminate(f).suppressed /\ stopped(f).suppressed
  BY DEF scheduleReconnect, terminate, stopped, FeedType
<1>2. ASSUME NEW c \in 1 .. Chains, NEW f \in FeedType, connectSocket(c, f), f.session # None
      PROVE  FALSE
  <2>1. CASE f.suppressed
    BY <1>2, <2>1 DEF connectSocket
  <2>2. CASE ~f.suppressed
    <3>1. attempts' = chain(c, "ticket", f.session)
      BY <1>2, <2>2 DEF connectSocket
    <3>2. attempts'[c] = [step |-> "ticket", session |-> f.session]
      BY <1>0, <3>1 DEF chain, AttemptsType
    <3>3. attempts'[c].step = "ticket"
      BY <3>2
    <3> QED BY <1>0, <3>3 DEF Idle
  <2> QED BY <2>1, <2>2
<1>3. ASSUME NEW c \in 1 .. Chains, Open(c) PROVE FALSE
  <2> DEFINE f == [feed EXCEPT !.suppressed = FALSE, !.failed = FALSE, !.remints = 0]
             g == [f EXCEPT !.session = 1]
  <2>1. f \in FeedType
    <3>1. 0 \in 0 .. 1
      OBVIOUS
    <3> QED BY <1>0, <3>1 DEF FeedType
  <2>2. CASE adopted
    <3>1. g \in FeedType /\ g.session = 1 /\ 1 # None
      <4> HIDE DEF f
      <4> QED BY <2>1, Sessions DEF FeedType, None
    <3>2. connectSocket(c, g)
      BY <1>3, <2>2 DEF Open
    <3> HIDE DEF g
    <3> QED BY <1>2, <3>1, <3>2
  <2>3. CASE ~adopted
    <3>1. attempts' = chain(c, "open", None)
      BY <1>3, <2>3 DEF Open
    <3>2. attempts'[c] = [step |-> "open", session |-> None]
      BY <1>0, <3>1 DEF chain, AttemptsType
    <3>3. attempts'[c].step = "open"
      BY <3>2
    <3> QED BY <1>0, <3>3 DEF Idle
  <2> QED BY <2>2, <2>3
<1>4. ASSUME NEW c \in 1 .. Chains, OpenAnswered(c) PROVE Goal
  BY <1>4 DEF OpenAnswered
<1>5. ASSUME NEW c \in 1 .. Chains, TicketIssued(c) \/ TicketLost(c) \/ TicketRefused(c)
      PROVE  Goal
  <2>1. attempts[c].step = "ticket"
    BY <1>5 DEF TicketIssued, TicketLost, TicketRefused
  <2>2. ASSUME ~superseded(c) PROVE FALSE
    <3>1. CASE feed' = [feed EXCEPT !.socket = "connecting"]
      BY <1>0, <3>1 DEF FeedType
    <3>2. CASE feed' = scheduleReconnect(feed) \/ feed' = terminate(feed)
      BY <1>0, <1>1, <3>2
    <3>3. CASE attempts' = chain(c, "mint", None)
      <4>1. attempts'[c].step = "mint"
        BY <1>0, <3>3 DEF chain, AttemptsType
      <4> QED BY <1>0, <4>1 DEF Idle
    <3> QED BY <1>5, <2>2, <3>1, <3>2, <3>3 DEF TicketIssued, TicketLost, TicketRefused
  <2> QED BY <2>1, <2>2
<1>6. ASSUME feed'.timer = feed.timer, feed'.socket = feed.socket,
             \A c \in 1 .. Chains : attempts[c] # Idle => attempts'[c] # Idle
      PROVE  FALSE
  BY <1>0, <1>6 DEF standing
<1>7. CASE MintAnswered
  <2> DEFINE f == [feed EXCEPT !.minting = FALSE, !.session = mints + 1, !.failed = FALSE]
             back == {c \in 1 .. Chains : attempts[c].step = "mint" /\ ~feed.suppressed}
  <2>1. CASE back # {}
    <3>1. PICK c \in 1 .. Chains : c \in back
      BY <2>1
    <3>2. attempts'[c].step = "ticket"
      BY <1>7, <3>1 DEF MintAnswered
    <3> QED BY <1>0, <3>2 DEF Idle
  <2>2. CASE back = {}
    <3>1. feed' = f
      BY <1>7, <2>2 DEF MintAnswered
    <3>2. feed'.timer = feed.timer /\ feed'.socket = feed.socket /\ feed'.suppressed = feed.suppressed
      BY <1>0, <3>1 DEF FeedType
    <3>3. \A c \in 1 .. Chains : attempts[c].step # "mint"
      BY <2>2, <3>2
    <3>4. \A c \in 1 .. Chains : attempts'[c] = attempts[c]
      BY <1>7, <2>2, <3>3 DEF MintAnswered
    <3> QED BY <1>6, <3>2, <3>4
  <2> QED BY <2>1, <2>2
<1>8. CASE MintFailed
  <2> DEFINE f == [feed EXCEPT !.minting = FALSE]
  <2>0. f \in FeedType /\ f.timer = feed.timer /\ f.socket = feed.socket
    BY <1>0 DEF FeedType
  <2>1. CASE \E c \in 1 .. Chains : attempts[c].step = "mint"
    <3>1. feed' = terminate(f)
      BY <1>8, <2>1 DEF MintFailed
    <3> HIDE DEF f
    <3> QED BY <1>1, <2>0, <3>1
  <2>2. CASE ~\E c \in 1 .. Chains : attempts[c].step = "mint"
    <3>1. feed' = f
      BY <1>8, <2>2 DEF MintFailed
    <3>2. \A c \in 1 .. Chains : attempts'[c] = attempts[c]
      BY <1>8, <2>2 DEF MintFailed
    <3> HIDE DEF f
    <3> QED BY <1>6, <2>0, <3>1, <3>2
  <2> QED BY <2>1, <2>2
<1>9. ASSUME NEW c \in 1 .. Chains, ReconnectTimer(c) PROVE FALSE
  <2> DEFINE f == [feed EXCEPT !.timer = FALSE]
  <2>1. f \in FeedType /\ f.session = feed.session
    BY <1>0 DEF FeedType
  <2>2. connectSocket(c, f) /\ feed.session # None
    BY <1>9 DEF ReconnectTimer, SessionKnown
  <2> HIDE DEF f
  <2> QED BY <1>2, <2>1, <2>2
<1>10. CASE SocketOpens
  BY <1>0, <1>10 DEF SocketOpens, FeedType
<1>11. CASE SocketCloses
  <2>1. [feed EXCEPT !.socket = "none"] \in FeedType
    BY <1>0 DEF FeedType
  <2> QED BY <1>0, <1>1, <1>11, <2>1 DEF SocketCloses
<1>12. CASE Close
  BY <1>0, <1>1, <1>12 DEF Close
<1>13. CASE Connection
  BY <1>3, <1>4, <1>5, <1>7, <1>8, <1>9, <1>10, <1>11, <1>12, <1>13 DEF Connection
<1>14. ASSUME NEW t \in Turns, TurnStep(t) PROVE FALSE
  <2>1. attempts' = attempts /\ (feed' = feed \/ feed' = [feed EXCEPT !.remints = 0] \/ feed' = minting(feed))
    BY <1>14 DEF TurnStep, turn, TurnTimeout, RestRefused, Throws, Reply
  <2>2. feed'.timer = feed.timer /\ feed'.socket = feed.socket
    BY <1>0, <2>1 DEF minting, FeedType
  <2> QED BY <1>6, <2>1, <2>2
<1>15. CASE Frames \/ Server \/ UNCHANGED vars
  <2>1. feed' = feed /\ attempts' = attempts
    BY <1>15 DEF Frames, handleObservationsFrame, handleLiveObservationsFrame,
                 Server, Execute, Ride, PeerCommit, Expire, vars
  <2> QED BY <1>6, <2>1
<1> QED BY <1>13, <1>14, <1>15 DEF Next

\* StandsUnlessSuperseded: a feed that is not stopped keeps a socket, a timer
\* or an attempt, but for open() throwing and for a ticket whose session was
\* replaced while it was awaited (connectSocket, scheduleReconnect, onclose).
THEOREM FeedStands == Spec => StandsUnlessSuperseded
<1>1. Init => TypeOK /\ SessionKnown
  BY TypeInit DEF Init, SessionKnown, Idle
<1>2. TypeOK /\ SessionKnown /\ [Next]_vars => (TypeOK /\ SessionKnown)'
  BY TypeStep, SessionStep
<1>3. TypeOK /\ SessionKnown /\ [Next]_vars =>
        [alive > 0 /\ ~feed'.suppressed /\ alive' = 0 =>
           \E c \in 1 .. Chains : \/ attempts[c].step = "open"
                                  \/ attempts[c].step = "ticket" /\ superseded(c)]_vars
  <2> SUFFICES ASSUME TypeOK, SessionKnown, [Next]_vars, alive > 0, ~feed'.suppressed, alive' = 0
               PROVE  \E c \in 1 .. Chains : \/ attempts[c].step = "open"
                                             \/ attempts[c].step = "ticket" /\ superseded(c)
    OBVIOUS
  <2>1. standing
    BY AliveStands DEF aliveCounts
  <2>2. ~standing'
    BY TypeStep, AliveStandsNext DEF aliveCounts
  <2> QED BY <2>1, <2>2, StandsStep
<1> QED BY <1>1, <1>2, <1>3, PTL DEF Spec, StandsUnlessSuperseded

=============================================================================
