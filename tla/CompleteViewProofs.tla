------------------------- MODULE CompleteViewProofs -------------------------
(***************************************************************************)
(* Proofs about CompleteView.  The inductive invariant says that a cached  *)
(* cell under a certificate is a value the scope had at the certificate's  *)
(* generation or later, and not before the fence of the cell.              *)
(***************************************************************************)
EXTENDS CompleteView, TLAPS

\* The log: one mutation moves the sequence number by at most one and changes
\* only the cells it touches.
LogOK ==
  /\ log[1].seq = 0
  /\ \A g \in 2..Len(log) :
       /\ log[g].seq \in {log[g - 1].seq, log[g - 1].seq + 1}
       /\ \A k \in Key \ log[g].touched : log[g].cells[k] = log[g - 1].cells[k]
  /\ \A g \in 1..Len(log) : log[g].seq < g
  /\ \A g, h \in 1..Len(log) : g <= h => log[g].seq <= log[h].seq

\* Heads and transfers name generations of the log.
ReferencesOK ==
  /\ kv \subseteq 1..Len(log)
  /\ \A t \in flights : /\ t.generation <= Len(log)
                        /\ t.kind \in {"full", "seed"} => t.keys = Key
  /\ hint # NoHead => hint.generation <= Len(log) /\ hint = headAt(hint.generation)
  /\ cert # NoCertificate =>
       /\ cert.head.generation <= Len(log)
       /\ cert.head = headAt(cert.head.generation)
       /\ cert.from <= cert.head.generation
       /\ cert.head.seq <= seen

\* Cell k is as new as the certificate and as its fence.
FreshAt(k) ==
  \E g \in 1..Len(log) : /\ cert.head.generation <= g
                         /\ view[k] = cellsAt(g)[k]
                         /\ floors[k] <= log[g].seq

CertifiedFresh ==
  cert # NoCertificate /\ ~Regenerated(cert.from, cert.head.generation)
    => \A k \in Key \ cert.doubtful : FreshAt(k)

Inv == TypeOK /\ LogOK /\ ReferencesOK /\ CertifiedFresh

(***************************************************************************)
(* A mutation of the scope.                                                *)
(***************************************************************************)

\* What a mutation does to the log.
LEMMA MutateFacts ==
  ASSUME Inv, NEW seq, NEW im \in Cells, NEW K \in SUBSET Key,
         seq \in {head.seq, head.seq + 1},
         Mutate(seq, im, K)
  PROVE  /\ log' \in Seq(Entry) /\ Len(log') = Len(log) + 1 /\ Len(log') \in Generation
         /\ \A g \in 1..Len(log) : log'[g] = log[g]
         /\ LogOK'
<1> DEFINE e == [seq |-> seq, touched |-> K,
                 cells |-> installed(cellsAt(generation), im, K)]
<1>0. /\ log \in Seq(Entry) /\ Len(log) \in 1..MaxGeneration /\ Len(log) < MaxGeneration
      /\ MaxGeneration \in Nat
  BY ViewAssumption DEF Inv, TypeOK, Generation, Mutate, generation
<1>1. log[Len(log)] \in Entry
  BY <1>0
<1>2. log[Len(log)].seq \in 0..MaxGeneration /\ log[Len(log)].seq < Len(log)
  BY <1>0, <1>1 DEF Inv, LogOK, Entry
<1>3. seq \in 0..MaxGeneration /\ seq <= Len(log)
      /\ seq \in {log[Len(log)].seq, log[Len(log)].seq + 1}
  BY <1>0, <1>2 DEF head, headAt, generation
<1>4. e.cells \in Cells
  BY <1>1 DEF installed, cellsAt, generation, Cells, Entry
<1>5. e \in Entry
  BY <1>3, <1>4 DEF Entry
<1>6. /\ log' = Append(log, e)
  BY DEF Mutate
<1>7. /\ log' \in Seq(Entry) /\ Len(log') = Len(log) + 1
      /\ \A g \in 1..Len(log) : log'[g] = log[g]
      /\ log'[Len(log) + 1] = e
  BY <1>0, <1>5, <1>6
<1>8. /\ e.seq = seq /\ e.touched = K
      /\ \A k \in Key \ K : e.cells[k] = log[Len(log)].cells[k]
  BY DEF installed, cellsAt, generation
<1> HIDE DEF e
<1>9. \A g \in 1..Len(log) : log[g].seq \in Int
  <2> TAKE g \in 1..Len(log)
  <2>1. log[g] \in Entry
    BY <1>0
  <2> QED  BY <2>1 DEF Entry
<1>10. LogOK'
  <2>1. log'[1].seq = 0
    BY <1>0, <1>7 DEF Inv, LogOK
  <2>2. ASSUME NEW g \in 2..Len(log')
        PROVE /\ log'[g].seq \in {log'[g - 1].seq, log'[g - 1].seq + 1}
              /\ \A k \in Key \ log'[g].touched : log'[g].cells[k] = log'[g - 1].cells[k]
    <3>1. CASE g <= Len(log)
      <4>1. log'[g] = log[g] /\ log'[g - 1] = log[g - 1]
        BY <1>0, <1>7, <3>1
      <4> QED  BY <1>0, <3>1, <4>1 DEF Inv, LogOK
    <3>2. CASE g = Len(log) + 1
      <4>1. log'[g] = e /\ log'[g - 1] = log[Len(log)]
        BY <1>0, <1>7, <3>2
      <4> QED  BY <1>3, <1>8, <4>1
    <3> QED  BY <1>0, <1>7, <3>1, <3>2
  <2>3. ASSUME NEW g \in 1..Len(log')
        PROVE  log'[g].seq < g
    <3>1. CASE g <= Len(log)
      BY <1>0, <1>7, <3>1 DEF Inv, LogOK
    <3>2. CASE g = Len(log) + 1
      BY <1>0, <1>3, <1>7, <1>8, <3>2
    <3> QED  BY <1>0, <1>7, <3>1, <3>2
  <2>4. ASSUME NEW g \in 1..Len(log'), NEW h \in 1..Len(log'), g <= h
        PROVE  log'[g].seq <= log'[h].seq
    <3>1. CASE h <= Len(log)
      BY <1>0, <1>7, <2>4, <3>1 DEF Inv, LogOK
    <3>2. CASE h = Len(log) + 1 /\ g <= Len(log)
      <4>1. log[g].seq <= log[Len(log)].seq
        BY <1>0, <3>2 DEF Inv, LogOK
      <4> QED  BY <1>0, <1>2, <1>3, <1>7, <1>8, <1>9, <3>2, <4>1
    <3>3. CASE h = Len(log) + 1 /\ g = Len(log) + 1
      BY <1>0, <1>3, <1>7, <1>8, <3>3
    <3> QED  BY <1>0, <1>7, <2>4, <3>1, <3>2, <3>3
  <2> QED  BY <2>1, <2>2, <2>3, <2>4 DEF LogOK
<1> QED  BY <1>0, <1>7, <1>10 DEF Generation

\* A mutation alone keeps the invariant.
LEMMA MutatePreserves ==
  ASSUME Inv, NEW seq, NEW im \in Cells, NEW K \in SUBSET Key,
         seq \in {head.seq, head.seq + 1},
         Mutate(seq, im, K),
         UNCHANGED <<durable, cert, flights>>,
         rides' = rides, adopted' \subseteq 1..Len(rides),
         hint' \in {hint, NoHead}
  PROVE  Inv'
<1>1. /\ log' \in Seq(Entry) /\ Len(log') = Len(log) + 1 /\ Len(log') \in Generation
      /\ \A g \in 1..Len(log) : log'[g] = log[g]
      /\ LogOK'
  BY MutateFacts
<1>0. Len(log) \in Nat /\ MaxGeneration \in Nat
  BY ViewAssumption DEF Inv, TypeOK, Generation
<1>2. TypeOK'
  BY <1>1 DEF Inv, TypeOK, durable
<1>3. ReferencesOK'
  <2>1. \A g \in 1..Len(log) : headAt(g)' = headAt(g)
    BY <1>1 DEF headAt
  <2>2. kv' \subseteq 1..Len(log')
    BY <1>0, <1>1 DEF Inv, ReferencesOK, durable
  <2>3. \A t \in flights' : t.generation <= Len(log') /\ (t.kind \in {"full", "seed"} => t.keys = Key)
    BY <1>0, <1>1 DEF Inv, ReferencesOK, TypeOK, Transfer, Generation
  <2>4. ASSUME hint' # NoHead
        PROVE  hint'.generation <= Len(log') /\ hint' = headAt(hint.generation)'
    <3>1. hint' = hint /\ hint \in ScopeHead /\ hint # NoHead
      BY <2>4 DEF Inv, TypeOK
    <3>2. hint.generation \in 1..Len(log) /\ hint = headAt(hint.generation)
      BY <3>1, <1>0 DEF Inv, ReferencesOK, ScopeHead, Generation
    <3> QED  BY <1>0, <1>1, <2>1, <3>1, <3>2
  <2>5. ASSUME cert # NoCertificate
        PROVE  /\ cert.head.generation <= Len(log')
               /\ cert.head = headAt(cert.head.generation)'
               /\ cert.from <= cert.head.generation
               /\ cert.head.seq <= seen
    <3>1. cert.head.generation \in 1..Len(log)
      BY <1>0, <2>5 DEF Inv, ReferencesOK, TypeOK, Certificate, ScopeHead, Generation
    <3> QED  BY <1>0, <1>1, <2>1, <2>5, <3>1 DEF Inv, ReferencesOK
  <2>6. cert' = cert /\ seen' = seen
    BY DEF durable
  <2>7. hint' # NoHead => hint'.generation = hint.generation
    OBVIOUS
  <2> QED  BY <2>2, <2>3, <2>4, <2>5, <2>6, <2>7 DEF ReferencesOK, headAt
<1>4. CertifiedFresh'
  <2> SUFFICES ASSUME cert # NoCertificate,
                      ~Regenerated(cert.from, cert.head.generation)',
                      NEW k \in Key \ cert.doubtful
               PROVE  FreshAt(k)'
    BY DEF CertifiedFresh, durable
  <2>1. /\ cert.head.generation \in 1..Len(log) /\ cert.from \in 1..Len(log)
    BY <1>0 DEF Inv, ReferencesOK, TypeOK, Certificate, ScopeHead, Generation
  <2>2. ~Regenerated(cert.from, cert.head.generation)
    <3> SUFFICES ASSUME NEW g \in (cert.from + 1)..cert.head.generation,
                        log[g].seq = log[g - 1].seq
                 PROVE  FALSE
      BY DEF Regenerated
    <3>1. log'[g] = log[g] /\ log'[g - 1] = log[g - 1]
      BY <1>0, <1>1, <2>1
    <3> QED  BY <3>1 DEF Regenerated, durable
  <2>3. PICK g \in 1..Len(log) : /\ cert.head.generation <= g
                                 /\ view[k] = cellsAt(g)[k]
                                 /\ floors[k] <= log[g].seq
    BY <2>2 DEF Inv, CertifiedFresh, FreshAt
  <2>4. log'[g] = log[g] /\ g \in 1..Len(log')
    BY <1>0, <1>1
  <2> QED  BY <2>3, <2>4 DEF FreshAt, cellsAt, durable
<1> QED  BY <1>1, <1>2, <1>3, <1>4 DEF Inv

(***************************************************************************)
(* Steps of the gateway: the log does not change.                          *)
(***************************************************************************)

\* A generation of the log is an entry, and a head names it.
LEMMA EntryFacts ==
  ASSUME Inv, NEW g \in 1..Len(log)
  PROVE  /\ Len(log) \in Nat /\ Len(log) <= MaxGeneration /\ MaxGeneration \in Nat
         /\ g \in Generation
         /\ log[g].seq \in 0..MaxGeneration /\ log[g].seq \in Nat
         /\ log[g].cells \in Cells /\ log[g].touched \subseteq Key
         /\ headAt(g) \in ScopeHead /\ headAt(g) # NoHead
         /\ headAt(g).generation = g /\ headAt(g).seq = log[g].seq
<1>1. /\ log \in Seq(Entry) /\ Len(log) \in 1..MaxGeneration /\ MaxGeneration \in Nat
  BY ViewAssumption DEF Inv, TypeOK, Generation
<1>2. log[g] \in Entry
  BY <1>1
<1>3. g \in Generation /\ log[g].seq \in 0..MaxGeneration
  BY <1>1, <1>2 DEF Generation, Entry
<1>4. headAt(g) \in ScopeHead /\ headAt(g) # NoHead
  BY <1>3 DEF headAt, ScopeHead, NoHead, Generation
<1> QED  BY <1>1, <1>2, <1>3, <1>4 DEF Entry, headAt

\* A certificate names a generation of the log.
LEMMA CertificateFacts ==
  ASSUME Inv, cert # NoCertificate
  PROVE  /\ cert \in Certificate
         /\ cert.head.generation \in 1..Len(log)
         /\ cert.from \in 1..cert.head.generation
         /\ cert.head = headAt(cert.head.generation)
         /\ cert.head.seq = log[cert.head.generation].seq
         /\ cert.head.seq <= seen
         /\ cert.doubtful \subseteq Key
<1>1. Len(log) \in Nat
  BY DEF Inv, TypeOK, Generation
<1>2. /\ cert \in Certificate
  BY DEF Inv, TypeOK
<1>3. /\ cert.head.generation \in Nat \ {0} /\ cert.from \in Nat \ {0} /\ cert.doubtful \subseteq Key
  BY <1>2 DEF Certificate, ScopeHead, Generation
<1> QED  BY <1>1, <1>2, <1>3 DEF Inv, ReferencesOK, headAt

\* A transfer names a generation of the log.
LEMMA TransferFacts ==
  ASSUME Inv, NEW t \in flights
  PROVE  /\ t.generation \in 1..Len(log) /\ t.keys \subseteq Key
         /\ flights \ {t} \subseteq Transfer
<1>1. Len(log) \in Nat
  BY DEF Inv, TypeOK, Generation
<1>2. t \in Transfer /\ flights \subseteq Transfer
  BY DEF Inv, TypeOK
<1>3. t.generation \in Nat \ {0} /\ t.keys \subseteq Key
  BY <1>2 DEF Transfer, Generation
<1> QED  BY <1>1, <1>2, <1>3 DEF Inv, ReferencesOK

\* A step that leaves the log keeps what is true of it.
LEMMA SameLog ==
  ASSUME Inv, UNCHANGED log
  PROVE  /\ LogOK'
         /\ \A g : headAt(g)' = headAt(g) /\ cellsAt(g)' = cellsAt(g)
         /\ \A a, b : Regenerated(a, b)' <=> Regenerated(a, b)
<1> QED  BY DEF Inv, LogOK, headAt, cellsAt, Regenerated

\* The cells after an installation are cells.
LEMMA InstalledType ==
  ASSUME NEW c \in Cells, NEW d \in Cells, NEW K
  PROVE  /\ installed(c, d, K) \in Cells
         /\ \A k \in Key : installed(c, d, K)[k] = IF k \in K THEN d[k] ELSE c[k]
<1> QED  BY DEF installed, Cells

\* A gateway step that keeps the certificate, or adds doubts to it, keeps the
\* invariant when every key without doubt is as new as before.
LEMMA GatewayStep ==
  ASSUME Inv, UNCHANGED <<log, rides, adopted>>,
         view' \in Cells, seen' \in 0..MaxGeneration, seen' >= seen,
         floors' \in [Key -> 0..MaxGeneration],
         kv' \subseteq 1..Len(log), flights' \subseteq flights,
         hint' \in {hint, NoHead},
         NEW K \in SUBSET Key, cert' \in {NoCertificate, doubting(K)},
         \A k \in Key \ K : cert # NoCertificate /\ k \notin cert.doubtful
                              /\ FreshAt(k) => FreshAt(k)'
  PROVE  Inv'
<1>0. /\ Len(log) \in Nat /\ MaxGeneration \in Nat /\ Len(log) <= MaxGeneration /\ seen \in Nat
  BY ViewAssumption DEF Inv, TypeOK, Generation
<1>1. LogOK' /\ (\A g : headAt(g)' = headAt(g)) /\ (\A a, b : Regenerated(a, b)' <=> Regenerated(a, b))
  BY SameLog
<1>2. CASE cert' = NoCertificate
  <2>1. TypeOK'
    BY <1>0, <1>2 DEF Inv, TypeOK, Generation
  <2>2. ReferencesOK'
    BY <1>1, <1>2 DEF Inv, ReferencesOK
  <2>3. CertifiedFresh'
    BY <1>2 DEF CertifiedFresh
  <2> QED  BY <1>1, <2>1, <2>2, <2>3 DEF Inv
<1>3. CASE cert # NoCertificate /\ cert' = [cert EXCEPT !.doubtful = @ \cup K]
  <2>0. /\ cert \in Certificate /\ cert.head.seq <= seen /\ cert.head.seq \in Nat
    BY <1>3, CertificateFacts DEF Certificate, ScopeHead
  <2>1. /\ cert' \in Certificate /\ cert'.head = cert.head /\ cert'.from = cert.from
        /\ cert'.doubtful = cert.doubtful \cup K
    BY <1>3, <2>0 DEF Certificate
  <2>2. TypeOK'
    BY <1>0, <2>1 DEF Inv, TypeOK, Generation
  <2>3. ReferencesOK'
    <3>1. cert'.head.seq <= seen'
      BY <1>0, <2>0, <2>1
    <3>2. /\ cert'.head.generation <= Len(log) /\ cert'.head = headAt(cert'.head.generation)
          /\ cert'.from <= cert'.head.generation
      BY <1>3, <2>1 DEF Inv, ReferencesOK
    <3> QED  BY <1>1, <3>1, <3>2 DEF Inv, ReferencesOK
  <2>4. CertifiedFresh'
    <3> SUFFICES ASSUME ~Regenerated(cert.from, cert.head.generation)',
                        NEW k \in Key \ cert'.doubtful
                 PROVE  FreshAt(k)'
      BY DEF CertifiedFresh
    <3>1. ~Regenerated(cert.from, cert.head.generation)
      BY <2>1 DEF Regenerated
    <3>2. k \in Key \ K /\ k \notin cert.doubtful
      BY <2>1
    <3> QED  BY <1>3, <3>1, <3>2 DEF Inv, CertifiedFresh
  <2> QED  BY <1>1, <2>2, <2>3, <2>4 DEF Inv
<1> QED  BY <1>2, <1>3 DEF doubting

\* A key that the gateway leaves alone stays as new as it was.
LEMMA StaysFresh ==
  ASSUME Inv, UNCHANGED log, NEW k \in Key,
         cert # NoCertificate, cert'.head = cert.head,
         view'[k] = view[k], floors'[k] = floors[k], FreshAt(k)
  PROVE  FreshAt(k)'
<1> QED  BY SameLog DEF FreshAt

LEMMA CompletePreserves ==
  ASSUME Inv, NEW t \in flights, InstallComplete(t)
  PROVE  Inv'
<1> DEFINE g == t.generation
<1>1. g \in 1..Len(log) /\ t.keys = Key /\ flights \ {t} \subseteq Transfer
  BY TransferFacts DEF InstallComplete, Inv, ReferencesOK
<1>2. /\ Len(log) \in Nat /\ MaxGeneration \in Nat /\ Len(log) <= MaxGeneration
      /\ g \in Generation /\ log[g].seq \in 0..MaxGeneration /\ log[g].cells \in Cells
      /\ headAt(g) \in ScopeHead /\ headAt(g).generation = g /\ headAt(g).seq = log[g].seq
  BY <1>1, EntryFacts
<1>3. LogOK' /\ (\A h : headAt(h)' = headAt(h)) /\ (\A h : cellsAt(h)' = cellsAt(h))
  BY SameLog DEF InstallComplete, scope
<1>4. view' = log[g].cells
  BY <1>1, <1>2 DEF InstallComplete, installTransferredCells, installed, image, cellsAt, Cells
<1>5. seen' \in 0..MaxGeneration /\ log[g].seq <= seen'
  BY <1>2 DEF InstallComplete, advanceSeen, raised, Inv, TypeOK
<1>6. /\ cert' \in Certificate /\ cert' # NoCertificate
      /\ cert'.head = headAt(g) /\ cert'.from = g
      /\ cert'.doubtful = {k \in Key : floors[k] > log[g].seq}
  BY <1>1, <1>2 DEF InstallComplete, Certificate, NoCertificate, NoHead, fenced, Generation
<1>7. kv' \subseteq 1..Len(log) /\ kv' \subseteq Generation
  BY <1>1, <1>2 DEF InstallComplete, Inv, ReferencesOK, Generation
<1>8. TypeOK'
  BY <1>1, <1>2, <1>4, <1>5, <1>6, <1>7 DEF InstallComplete, Inv, TypeOK, scope, Lands
<1>9. ReferencesOK'
  <2>1. \A u \in flights' : u \in flights
    BY DEF InstallComplete, Lands
  <2> QED  BY <1>1, <1>2, <1>3, <1>5, <1>6, <1>7, <2>1
           DEF InstallComplete, Inv, ReferencesOK, scope, Generation
<1>10. CertifiedFresh'
  <2> SUFFICES ASSUME NEW k \in Key \ cert'.doubtful
               PROVE  FreshAt(k)'
    BY DEF CertifiedFresh
  <2>1. floors[k] <= log[g].seq
    BY <1>2, <1>6 DEF Inv, TypeOK
  <2>2. /\ floors' = floors /\ log' = log
    BY DEF InstallComplete, scope
  <2> QED  BY <1>1, <1>2, <1>3, <1>4, <1>6, <2>1, <2>2 DEF FreshAt, cellsAt
<1> QED  BY <1>3, <1>8, <1>9, <1>10 DEF Inv

LEMMA PartPreserves ==
  ASSUME Inv, NEW t \in flights, InstallPart(t)
  PROVE  Inv'
<1>1. t.generation \in 1..Len(log) /\ t.keys \subseteq Key
  BY TransferFacts
<1>2. /\ log[t.generation].seq \in 0..MaxGeneration /\ log[t.generation].cells \in Cells
      /\ MaxGeneration \in Nat
  BY <1>1, EntryFacts
<1>3. view' \in Cells
  BY <1>2, InstalledType DEF InstallPart, installTransferredCells, image, cellsAt, Inv, TypeOK
<1>4. seen' \in 0..MaxGeneration /\ seen' >= seen
  BY <1>2 DEF InstallPart, advanceSeen, raised, Inv, TypeOK
<1>5. /\ UNCHANGED <<log, rides, adopted>> /\ floors' = floors /\ kv' = kv
      /\ flights' \subseteq flights /\ hint' = hint /\ cert' = NoCertificate
  BY DEF InstallPart, scope, Lands
<1>6. /\ floors \in [Key -> 0..MaxGeneration] /\ kv \subseteq 1..Len(log)
  BY DEF Inv, TypeOK, ReferencesOK
<1> QED  BY <1>3, <1>4, <1>5, <1>6, GatewayStep

LEMMA RefreshPreserves ==
  ASSUME Inv, NEW t \in flights, InstallRefresh(t)
  PROVE  Inv'
<1> DEFINE g == t.generation
           K == outdated(t) \cup fenced(t)
<1>1. g \in 1..Len(log) /\ t.keys \subseteq Key
  BY TransferFacts
<1>2. /\ log[g].seq \in 0..MaxGeneration /\ log[g].cells \in Cells /\ g \in Nat
      /\ MaxGeneration \in Nat
  BY <1>1, EntryFacts
<1>3. view' \in Cells /\ \A k \in Key : view'[k] = IF k \in t.keys THEN log[g].cells[k] ELSE view[k]
  BY <1>2, InstalledType DEF InstallRefresh, installTransferredCells, image, cellsAt, Inv, TypeOK
<1>5. /\ UNCHANGED <<log, rides, adopted>> /\ floors' = floors /\ kv' = kv /\ seen' = seen
      /\ flights' \subseteq flights /\ hint' = hint /\ cert' = doubting(K)
  BY DEF InstallRefresh, scope, Lands
<1>6. /\ floors \in [Key -> 0..MaxGeneration] /\ kv \subseteq 1..Len(log)
      /\ seen \in 0..MaxGeneration
  BY DEF Inv, TypeOK, ReferencesOK
<1>7. K \in SUBSET Key
  BY <1>1 DEF outdated, fenced
<1>8. ASSUME NEW k \in Key \ K, cert # NoCertificate, k \notin cert.doubtful, FreshAt(k)
      PROVE  FreshAt(k)'
  <2>0. cert'.head = cert.head /\ cert.head.generation \in 1..Len(log)
    BY <1>5, <1>8, CertificateFacts DEF doubting, Certificate
  <2>1. CASE k \notin t.keys
    BY <1>3, <1>5, <1>8, <2>0, <2>1, StaysFresh
  <2>2. CASE k \in t.keys
    <3>1. cert.head.generation <= g /\ floors[k] <= log[g].seq
      BY <1>2, <1>6, <1>8, <2>0, <2>2 DEF outdated, fenced
    <3>2. view'[k] = log[g].cells[k]
      BY <1>3, <2>2
    <3> QED  BY <1>1, <1>5, <2>0, <3>1, <3>2 DEF FreshAt, cellsAt
  <2> QED  BY <2>1, <2>2
<1> HIDE DEF K
<1>9. seen' >= seen
  BY <1>2, <1>5, <1>6
<1> QED  BY <1>3, <1>5, <1>6, <1>7, <1>8, <1>9, GatewayStep

LEMMA ExactPreserves ==
  ASSUME Inv, NEW t \in flights, InstallExact(t)
  PROVE  Inv'
<1> DEFINE g == t.generation
           late == IF log[g].seq = cert.head.seq THEN outdated(t) ELSE {}
           K == fenced(t) \cup late
<1>1. g \in 1..Len(log) /\ t.keys \subseteq Key
  BY TransferFacts
<1>2. /\ log[g].seq \in 0..MaxGeneration /\ log[g].cells \in Cells /\ g \in Nat
      /\ MaxGeneration \in Nat /\ Len(log) \in Nat
  BY <1>1, EntryFacts
<1>5. /\ UNCHANGED <<log, rides, adopted>> /\ kv' = kv /\ seen' = seen
      /\ flights' \subseteq flights /\ hint' = hint
  BY DEF InstallExact, scope, Lands
<1>6. /\ floors \in [Key -> 0..MaxGeneration] /\ kv \subseteq 1..Len(log)
      /\ seen \in 0..MaxGeneration /\ view \in Cells /\ seen >= seen
  BY <1>2 DEF Inv, TypeOK, ReferencesOK
<1>7. K \in SUBSET Key
  BY <1>1 DEF outdated, fenced
<1>8. CASE racedFanout(t)
  <2>1. view' = view /\ floors' = floors /\ cert' = cert
    BY <1>8 DEF InstallExact
  <2>2. TypeOK'
    BY <1>5, <2>1 DEF Inv, TypeOK
  <2>3. LogOK' /\ (\A h : headAt(h)' = headAt(h)) /\ (\A a, b : Regenerated(a, b)' <=> Regenerated(a, b))
    BY <1>5, SameLog
  <2>4. ReferencesOK'
    BY <1>5, <2>1, <2>3 DEF Inv, ReferencesOK
  <2>5. CertifiedFresh'
    BY <1>5, <2>1 DEF Inv, CertifiedFresh, FreshAt, Regenerated, cellsAt
  <2> QED  BY <2>2, <2>3, <2>4, <2>5 DEF Inv
<1>9. CASE ~racedFanout(t)
  <2>1. view' \in Cells /\ \A k \in Key : view'[k] = IF k \in t.keys THEN log[g].cells[k] ELSE view[k]
    BY <1>2, <1>6, <1>9, InstalledType DEF InstallExact, installTransferredCells, image, cellsAt
  <2>2. floors' \in [Key -> 0..MaxGeneration]
    BY <1>2, <1>6, <1>9 DEF InstallExact, raised
  <2>3. \A k \in Key : floors'[k] = IF k \in t.keys /\ log[g].seq > floors[k]
                                      THEN log[g].seq ELSE floors[k]
    BY <1>9 DEF InstallExact, raised
  <2>4. cert' = doubting(K)
    BY <1>9 DEF InstallExact
  <2>5. ASSUME NEW k \in Key \ K, cert # NoCertificate, k \notin cert.doubtful, FreshAt(k)
        PROVE  FreshAt(k)'
    <3>0. /\ cert'.head = cert.head /\ cert.head.generation \in 1..Len(log)
          /\ cert.head.seq = log[cert.head.generation].seq /\ cert.head.seq <= seen
      BY <2>4, <2>5, CertificateFacts DEF doubting, Certificate
    <3>1. CASE k \notin t.keys
      <4>1. view'[k] = view[k] /\ floors'[k] = floors[k]
        BY <2>1, <2>3, <3>1
      <4> QED  BY <1>5, <2>5, <3>0, <4>1, StaysFresh
    <3>2. CASE k \in t.keys
      <4>1. floors'[k] <= log[g].seq
        BY <1>2, <1>6, <2>3, <2>5, <3>2 DEF fenced
      <4>2. seen <= log[g].seq
        BY <1>2, <1>6, <1>9 DEF racedFanout
      <4>3. cert.head.generation <= g
        <5> SUFFICES ASSUME g < cert.head.generation PROVE FALSE
          BY <1>2, <3>0
        <5>1. log[g].seq <= log[cert.head.generation].seq
          BY <1>1, <1>2, <3>0 DEF Inv, LogOK
        <5>2. log[cert.head.generation].seq \in Nat
          BY <3>0, EntryFacts
        <5>3. log[g].seq = cert.head.seq
          BY <1>2, <1>6, <3>0, <4>2, <5>1, <5>2, SMTT(30)
        <5> QED  BY <2>5, <3>2, <5>3 DEF outdated
      <4>4. view'[k] = log[g].cells[k]
        BY <2>1, <3>2
      <4> QED  BY <1>1, <1>5, <3>0, <4>1, <4>3, <4>4 DEF FreshAt, cellsAt
    <3> QED  BY <3>1, <3>2
  <2> HIDE DEF K
  <2> QED  BY <1>5, <1>6, <1>7, <2>1, <2>2, <2>4, <2>5, GatewayStep
<1> QED  BY <1>8, <1>9

LEMMA ResiduePreserves ==
  ASSUME Inv, NEW n \in 1..Len(rides), InstallResidue(n)
  PROVE  Inv'
<1>0. MaxRides \in Nat /\ MaxGeneration \in Nat
  BY ViewAssumption
<1>1. rides \in Seq(Key) /\ Len(rides) <= MaxRides /\ view \in Cells
  BY DEF Inv, TypeOK
<1>2. rides[n] \in Key /\ n \in 1..MaxRides
  BY <1>0, <1>1
<1>3. -n \in Value
  BY <1>2 DEF Value
<1>4. view' \in Cells /\ \A k \in Key \ {rides[n]} : view'[k] = view[k]
  BY <1>1, <1>2, <1>3 DEF InstallResidue, Cells
<1>5. /\ UNCHANGED <<log, rides, adopted>> /\ floors' = floors /\ kv' = kv /\ seen' = seen
      /\ flights' \subseteq flights /\ hint' = hint /\ cert' = doubting({rides[n]})
  BY DEF InstallResidue, scope
<1>6. /\ floors \in [Key -> 0..MaxGeneration] /\ kv \subseteq 1..Len(log)
      /\ seen \in 0..MaxGeneration /\ seen >= seen
  BY <1>0 DEF Inv, TypeOK, ReferencesOK
<1>7. ASSUME NEW k \in Key \ {rides[n]}, cert # NoCertificate, k \notin cert.doubtful, FreshAt(k)
      PROVE  FreshAt(k)'
  <2>1. cert'.head = cert.head
    BY <1>5, <1>7, CertificateFacts DEF doubting, Certificate
  <2> QED  BY <1>4, <1>5, <1>7, <2>1, StaysFresh
<1>8. {rides[n]} \in SUBSET Key
  BY <1>2
<1> QED  BY <1>4, <1>5, <1>6, <1>7, <1>8, GatewayStep

\* A body that continues a certificate of an image without regenerations is
\* the very next generation, and touched whatever changed since.
LEMMA FanoutPreserves ==
  ASSUME Inv, NEW g \in 1..Len(log), receiveFanout(g)
  PROVE  Inv'
<1> DEFINE c == cert.head.generation
           passed == {k \in log[g].touched : floors[k] < log[g].seq}
<1>1. /\ Len(log) \in Nat /\ MaxGeneration \in Nat /\ Len(log) <= MaxGeneration
      /\ log[g].seq \in 0..MaxGeneration /\ log[g].cells \in Cells /\ log[g].touched \subseteq Key
      /\ headAt(g) \in ScopeHead /\ headAt(g).generation = g /\ headAt(g).seq = log[g].seq
  BY EntryFacts
<1>2. /\ UNCHANGED <<log, rides, adopted>> /\ kv' = kv /\ flights' = flights
      /\ hint' = NoHead /\ seen' = log[g].seq /\ log[g].seq > seen
      /\ g > 1 /\ log[g].seq > log[g - 1].seq
      /\ view' = installed(view, cellsAt(g), passed)
      /\ floors' = [k \in Key |-> IF k \in passed THEN 0 ELSE floors[k]]
  BY DEF receiveFanout, sequenced, scope
<1>3. /\ floors \in [Key -> 0..MaxGeneration] /\ kv \subseteq 1..Len(log)
      /\ seen \in 0..MaxGeneration /\ view \in Cells
  BY DEF Inv, TypeOK, ReferencesOK
<1>4. view' \in Cells /\ \A k \in Key : view'[k] = IF k \in passed THEN log[g].cells[k] ELSE view[k]
  BY <1>1, <1>2, <1>3, InstalledType DEF cellsAt
<1>5. floors' \in [Key -> 0..MaxGeneration] /\ seen' \in 0..MaxGeneration /\ seen' >= seen
  BY <1>1, <1>2, <1>3
<1>6. CASE ~continues(g)
  <2>1. cert' = NoCertificate
    BY <1>6 DEF receiveFanout
  <2>2. \A k \in Key \ Key : cert # NoCertificate /\ k \notin cert.doubtful /\ FreshAt(k) => FreshAt(k)'
    OBVIOUS
  <2> QED  BY <1>2, <1>3, <1>4, <1>5, <2>1, <2>2, GatewayStep
<1>7. CASE continues(g)
  <2>1. /\ cert # NoCertificate /\ log[g].seq = cert.head.seq + 1
        /\ cert' = [cert EXCEPT !.head = headAt(g)]
    BY <1>7 DEF receiveFanout, continues
  <2>2. /\ cert \in Certificate /\ c \in 1..Len(log) /\ cert.from \in 1..c
        /\ cert.head.seq = log[c].seq
    BY <2>1, CertificateFacts
  <2>3. /\ cert' \in Certificate /\ cert'.head = headAt(g) /\ cert'.from = cert.from
        /\ cert'.doubtful = cert.doubtful
    BY <1>1, <2>1, <2>2 DEF Certificate
  <2>4. log[c].seq \in Nat /\ log[g].seq = log[c].seq + 1
    BY <2>1, <2>2, EntryFacts
  <2>5. c < g
    <3> SUFFICES ASSUME g <= c PROVE FALSE
      BY <2>2
    <3>1. log[g].seq <= log[c].seq
      BY <2>2 DEF Inv, LogOK
    <3> QED  BY <1>1, <2>4, <3>1
  <2>6. TypeOK'
    BY <1>2, <1>4, <1>5, <2>3 DEF Inv, TypeOK
  <2>7. LogOK' /\ (\A h : headAt(h)' = headAt(h))
    BY <1>2, SameLog
  <2>8. ReferencesOK'
    <3>1. cert'.head.generation = g /\ cert'.head.seq <= seen' /\ cert'.from <= g
      BY <1>1, <1>2, <2>2, <2>3, <2>5
    <3> QED  BY <1>1, <1>2, <2>3, <2>7, <3>1 DEF Inv, ReferencesOK
  <2>9. CertifiedFresh'
    <3> SUFFICES ASSUME ~Regenerated(cert.from, cert.head.generation)',
                        NEW k \in Key, k \notin cert.doubtful
                 PROVE  FreshAt(k)'
      BY <2>3 DEF CertifiedFresh
    <3>1. \A h \in (cert.from + 1)..g : log[h].seq # log[h - 1].seq
      BY <1>1, <1>2, <2>3 DEF Regenerated
    <3>2. ~Regenerated(cert.from, c)
      BY <2>2, <2>5, <3>1 DEF Regenerated
    <3>3. PICK h \in 1..Len(log) : c <= h /\ view[k] = cellsAt(h)[k] /\ floors[k] <= log[h].seq
      BY <2>1, <3>2 DEF Inv, CertifiedFresh, FreshAt
    <3>4. log[h].seq \in Nat
      BY EntryFacts
    <3>5. cert'.head.generation = g /\ log' = log
      BY <1>1, <1>2, <2>3
    <3>6. CASE k \in passed
      <4>1. view'[k] = log[g].cells[k] /\ floors'[k] = 0
        BY <1>2, <1>4, <3>6
      <4> QED  BY <1>1, <3>5, <4>1 DEF FreshAt, cellsAt
    <3>7. CASE k \notin passed
      <4>1. view'[k] = view[k] /\ floors'[k] = floors[k]
        BY <1>2, <1>4, <3>7
      <4>2. CASE g <= h
        BY <1>1, <3>3, <3>5, <4>1, <4>2 DEF FreshAt, cellsAt
      <4>3. CASE h < g
        <5>1. log[h].seq <= log[g - 1].seq
          BY <1>2, <4>3 DEF Inv, LogOK
        <5>2. log[g - 1].seq \in Nat
          BY <1>2, EntryFacts
        <5>3. k \notin log[g].touched
          BY <1>1, <1>2, <1>3, <3>3, <3>4, <3>7, <5>1, <5>2, SMTT(30)
        <5>4. g = c + 1
          <6> SUFFICES ASSUME c + 1 < g PROVE FALSE
            BY <2>2, <2>5
          <6>0. c + 1 \in 1..Len(log) /\ c + 1 <= g - 1 /\ g - 1 \in 1..Len(log)
            BY <1>1, <1>2, <2>2
          <6>a. \A i, j \in 1..Len(log) : i <= j => log[i].seq <= log[j].seq
            BY DEF Inv, LogOK
          <6>b. c <= c + 1
            BY <2>2
          <6>1. /\ log[c].seq <= log[c + 1].seq /\ log[c + 1].seq <= log[g - 1].seq
            BY <2>2, <6>0, <6>a, <6>b
          <6>2. log[c + 1].seq \in Nat
            BY <6>0, EntryFacts
          <6>3. log[g - 1].seq < log[c].seq + 1
            BY <1>2, <2>4
          <6>4. log[c + 1].seq = log[c].seq
            BY <2>4, <5>2, <6>1, <6>2, <6>3, SMTT(30)
          <6>5. c + 1 \in (cert.from + 1)..g /\ (c + 1) - 1 = c
            BY <2>2, <6>0, SMTT(30)
          <6> QED  BY <3>1, <6>4, <6>5
        <5>5. h = c
          BY <2>2, <3>3, <4>3, <5>4
        <5>6. log[g].cells[k] = log[c].cells[k]
          <6>1. g \in 2..Len(log) /\ g - 1 = c
            BY <1>1, <1>2, <2>2, <5>4
          <6>2. log[g].cells[k] = log[g - 1].cells[k]
            BY <5>3, <6>1 DEF Inv, LogOK
          <6> QED  BY <6>1, <6>2
        <5>7. floors[k] <= log[g].seq
          BY <1>1, <1>3, <2>4, <3>3, <5>5
        <5> QED  BY <1>1, <3>3, <3>5, <4>1, <5>5, <5>6, <5>7 DEF FreshAt, cellsAt
      <4> QED  BY <1>1, <4>2, <4>3
    <3> QED  BY <3>6, <3>7
  <2> QED  BY <2>6, <2>7, <2>8, <2>9 DEF Inv
<1> QED  BY <1>6, <1>7

(***************************************************************************)
(* The theorems.                                                           *)
(***************************************************************************)
LEMMA InvInit == Init => Inv
<1> SUFFICES ASSUME Init PROVE Inv
  OBVIOUS
<1>0. MaxGeneration \in Nat \ {0} /\ MaxRides \in Nat
  BY ViewAssumption
<1> DEFINE e == [seq |-> 0, cells |-> [k \in Key |-> 0], touched |-> {}]
<1>1. [k \in Key |-> 0] \in Cells
  BY <1>0 DEF Cells, Value
<1>2. e \in Entry
  BY <1>0, <1>1 DEF Entry
<1>3. log = <<e>> /\ log \in Seq(Entry) /\ Len(log) = 1 /\ log[1] = e
  BY <1>2 DEF Init
<1>4. e.seq = 0
  OBVIOUS
<1> HIDE DEF e
<1>5. TypeOK
  <2>1. rides = <<>> /\ rides \in Seq(Key) /\ Len(rides) = 0
    BY DEF Init
  <2> QED  BY <1>0, <1>1, <1>3, <2>1 DEF Init, TypeOK, Generation
<1>6. LogOK
  BY <1>3, <1>4 DEF LogOK
<1>7. ReferencesOK /\ CertifiedFresh
  BY DEF Init, ReferencesOK, CertifiedFresh
<1> QED  BY <1>5, <1>6, <1>7 DEF Inv

LEMMA InvStep == Inv /\ [Next]_vars => Inv'
<1> SUFFICES ASSUME Inv, [Next]_vars PROVE Inv'
  OBVIOUS
<1>0. /\ MaxGeneration \in Nat /\ MaxRides \in Nat /\ MaxFlights \in Nat
      /\ Len(log) \in 1..MaxGeneration /\ adopted \subseteq 1..Len(rides)
      /\ rides \in Seq(Key) /\ Len(rides) <= MaxRides
      /\ seen \in 0..MaxGeneration /\ seen >= seen
  BY ViewAssumption DEF Inv, TypeOK, Generation
<1>1. head \in ScopeHead /\ head.seq \in Nat /\ head.generation = Len(log) /\ head # NoHead
      /\ head = headAt(Len(log))
  <2>1. Len(log) \in 1..Len(log)
    BY <1>0
  <2> QED  BY <2>1, EntryFacts DEF head, generation
<1>2. generation < MaxGeneration => written \in Cells
  BY <1>0 DEF written, Cells, Value, generation
<1>3. ASSUME NEW K \in SUBSET Key, Commit(K) PROVE Inv'
  BY <1>0, <1>2, <1>3, MutatePreserves DEF Commit, Mutate
<1>4. ASSUME NEW K \in SUBSET Key, Seed(K) PROVE Inv'
  BY <1>0, <1>2, <1>4, MutatePreserves DEF Seed, Mutate
<1>5. ASSUME NEW K \in SUBSET Key, TurnAccepted(K) PROVE Inv'
  BY <1>0, <1>2, <1>5, MutatePreserves DEF TurnAccepted, Mutate
<1>6. ASSUME NEW k \in Key, OperatorActivationWrite(k) PROVE Inv'
  BY <1>0, <1>2, <1>6, MutatePreserves, ZenonT(30) DEF OperatorActivationWrite, Mutate
<1>7. ASSUME UNCHANGED <<log, view, floors, cert>>,
             seen' = seen, kv' = kv, rides' \in Seq(Key), Len(rides') <= MaxRides,
             adopted' \subseteq 1..Len(rides'),
             \A t \in flights' : t \in Transfer /\ t.generation <= Len(log)
                                 /\ (t.kind \in {"full", "seed"} => t.keys = Key),
             \/ hint' \in {hint, NoHead}
             \/ \E g \in 1..Len(log) : hint' = headAt(g)
      PROVE  Inv'
  <2>1. LogOK' /\ (\A h : headAt(h)' = headAt(h)) /\ (\A h : cellsAt(h)' = cellsAt(h))
    BY <1>7, SameLog
  <2>2. /\ hint' \in ScopeHead \cup {NoHead}
        /\ hint' # NoHead => hint'.generation <= Len(log) /\ hint' = headAt(hint'.generation)
    <3>1. CASE hint' \in {hint, NoHead}
      BY <3>1 DEF Inv, TypeOK, ReferencesOK
    <3>2. CASE \E g \in 1..Len(log) : hint' = headAt(g)
      BY <1>0, <3>2, EntryFacts
    <3> QED  BY <1>7, <3>1, <3>2
  <2>3. TypeOK'
    BY <1>7, <2>2 DEF Inv, TypeOK
  <2>4. ReferencesOK'
    BY <1>7, <2>1, <2>2 DEF Inv, ReferencesOK
  <2>5. CertifiedFresh'
    BY <1>7 DEF Inv, CertifiedFresh, FreshAt, Regenerated, cellsAt
  <2> QED  BY <2>1, <2>3, <2>4, <2>5 DEF Inv
<1>8. \A t \in flights : t \in Transfer /\ t.generation <= Len(log)
                         /\ (t.kind \in {"full", "seed"} => t.keys = Key)
  BY DEF Inv, TypeOK, ReferencesOK
<1>9. ASSUME NEW k \in Key, Ride(k) PROVE Inv'
  <2>1. rides' \in Seq(Key) /\ Len(rides') = Len(rides) + 1 /\ Len(rides') <= MaxRides
    BY <1>0, <1>9 DEF Ride
  <2> QED  BY <1>0, <1>7, <1>8, <1>9, <2>1 DEF Ride, durable
<1>10. ASSUME NEW n \in 1..Len(rides), Adopt(n) PROVE Inv'
  <2>1. adopted' \subseteq 1..Len(rides) /\ rides' = rides
    BY <1>0, <1>10 DEF Adopt
  <2>2. CASE UNCHANGED log
    BY <1>0, <1>7, <1>8, <1>10, <2>1, <2>2 DEF Adopt, durable
  <2>3. CASE Mutate(head.seq + 1, [k \in Key |-> -n], {rides[n]})
    <3>1. [k \in Key |-> -n] \in Cells /\ {rides[n]} \in SUBSET Key
      BY <1>0 DEF Cells, Value
    <3> QED  BY <1>10, <2>1, <2>3, <3>1, MutatePreserves DEF Adopt
  <2> QED  BY <1>10, <2>2, <2>3 DEF Adopt
<1>11. ASSUME NEW kind \in {"head", "full"}, FetchWhole(kind) PROVE Inv'
  <2>1. /\ transfer(kind, Key) \in Transfer /\ transfer(kind, Key).generation = Len(log)
        /\ transfer(kind, Key).keys = Key
    BY <1>0 DEF transfer, Transfer, AllKinds, Generation, generation
  <2> QED  BY <1>0, <1>7, <1>8, <1>11, <2>1 DEF FetchWhole, Answer, scope, durable
<1>12. ASSUME NEW kind \in {"touched", "targeted", "refresh", "exact"}, NEW K \in SUBSET Key,
              FetchKeys(kind, K)
       PROVE  Inv'
  <2>1. /\ transfer(kind, K) \in Transfer /\ transfer(kind, K).generation = Len(log)
        /\ transfer(kind, K).kind \notin {"full", "seed"}
    BY <1>0 DEF transfer, Transfer, AllKinds, Generation, generation
  <2> QED  BY <1>0, <1>7, <1>8, <1>12, <2>1 DEF FetchKeys, Answer, scope, durable
<1>13. ASSUME NEW g \in kv, FetchSeed(g) PROVE Inv'
  <2> DEFINE t == [kind |-> "seed", generation |-> g, keys |-> Key]
  <2>1. g \in 1..Len(log) /\ g \in Generation
    BY DEF Inv, ReferencesOK, TypeOK
  <2>2. t \in Transfer /\ t.generation <= Len(log) /\ t.keys = Key
    BY <1>0, <2>1 DEF Transfer, AllKinds
  <2>3. flights' = flights \cup {t}
    BY <1>13 DEF FetchSeed, Answer
  <2> HIDE DEF t
  <2> QED  BY <1>0, <1>7, <1>8, <1>13, <2>2, <2>3 DEF FetchSeed, scope, durable
<1>14. ASSUME NEW t \in flights, rememberPlanningHead(t) PROVE Inv'
  <2>1. t.generation \in 1..Len(log)
    BY TransferFacts
  <2> QED  BY <1>0, <1>7, <1>8, <1>14, <2>1 DEF rememberPlanningHead, Lands, scope, durable
<1>15. ASSUME TurnRefused PROVE Inv'
  BY <1>0, <1>7, <1>8, <1>15 DEF TurnRefused, scope, durable
<1>16. ASSUME Evict PROVE Inv'
  <2>1. kv \subseteq 1..Len(log) /\ view \in Cells /\ floors \in [Key -> 0..MaxGeneration]
    BY DEF Inv, TypeOK, ReferencesOK
  <2>2. \A k \in Key \ Key : cert # NoCertificate /\ k \notin cert.doubtful /\ FreshAt(k) => FreshAt(k)'
    OBVIOUS
  <2> QED  BY <1>0, <1>16, <2>1, <2>2, GatewayStep DEF Evict, scope, durable
<1>17. ASSUME UNCHANGED vars PROVE Inv'
  BY <1>0, <1>7, <1>8, <1>17 DEF vars
<1> QED
  BY <1>3, <1>4, <1>5, <1>6, <1>9, <1>10, <1>11, <1>12, <1>13, <1>14, <1>15, <1>16, <1>17,
     CompletePreserves, PartPreserves, RefreshPreserves, ExactPreserves, ResiduePreserves,
     FanoutPreserves DEF Next

\* The gateway's cache of a scope, its marks and its certificate keep their
\* types (class NetGatewayDO).
THEOREM ViewTypeCorrect == Spec => []TypeOK
<1>1. Inv => TypeOK
  BY DEF Inv
<1> QED  BY <1>1, InvInit, InvStep, PTL DEF Spec

\* Under a certificate, a cached cell without doubt is never older than the
\* certificate's head (receiveFanout, reseedFromScope, refreshCells).
THEOREM CertifiedViewFresh == Spec => []CertifiedFresh
<1>1. Inv => CertifiedFresh
  BY DEF Inv
<1> QED  BY <1>1, InvInit, InvStep, PTL DEF Spec

\* For any number of cells, generations and transfers, a turn admitted without
\* read proofs was planned on the scope's current cells, with the exceptions
\* CertifiedReadsCurrent names (compactOwnedReads, baseIsExactCurrent).
THEOREM CompactedTurnsCurrent == Spec => []CertifiedReadsCurrent
<1>1. Inv => CertifiedReadsCurrent
  <2> SUFFICES ASSUME Inv, compactOwnedReads, hint = head,
                      ~Regenerated(cert.from, generation),
                      NEW k \in Key \ cert.doubtful
               PROVE  view[k] = cellsAt(generation)[k]
    BY DEF CertifiedReadsCurrent
  <2>1. cert # NoCertificate /\ cert.head = head
    BY DEF compactOwnedReads
  <2>2. Len(log) \in Nat /\ cert.head.generation = Len(log)
    BY <2>1 DEF head, headAt, generation, Inv, TypeOK, Generation
  <2>3. PICK g \in 1..Len(log) : cert.head.generation <= g /\ view[k] = cellsAt(g)[k]
    BY <2>1, <2>2 DEF Inv, CertifiedFresh, FreshAt, generation
  <2> QED  BY <2>2, <2>3 DEF generation
<1> QED  BY <1>1, InvInit, InvStep, PTL DEF Spec
=============================================================================
