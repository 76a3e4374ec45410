-------------------------- MODULE OutlineEdgesProofs --------------------------
(***************************************************************************)
(* The outline, for every base, every finite set of items and any players. *)
(*                                                                         *)
(*  1. Keys: rankBetween makes a comparison-safe key strictly between its  *)
(*     neighbours (RankBetweenFits).                                       *)
(*  2. Lists: the rows of a parent have one strictly ascending listing,    *)
(*     which orderedChildren chooses; a row put into a slot, taken out, or *)
(*     appended gives the listing of the rows that result.                 *)
(*  3. Edges: writing the cells of an add, a move or a removal keeps every *)
(*     list, and keeps items below the root and free of cycles (sound).    *)
(*  4. The state: a transcript is what its verb planned from the orderings *)
(*     and the cells that it attests (plans), so that a commit, which      *)
(*     finds all of them current, is step 3 on the authority's edges       *)
(*     (OutlineInvariant).                                                 *)
(*  5. What follows: the properties of the runs, and the refinement.       *)
(***************************************************************************)
EXTENDS OutlineEdges, FiniteSetTheorems, SequenceTheorems, TLAPS

\* Every set of numbers that is not empty has a least one.
LEMMA NatMin ==
  ASSUME NEW T \in SUBSET Nat, T # {}
  PROVE  \E x \in T : \A y \in T : x <= y
<1> DEFINE R == {p \in Nat \X Nat : p[1] < p[2]}
<1>1. IsWellFoundedOn(R, Nat)
  BY NatLessThanWellFounded DEF OpToRel
<1>2. PICK x \in T : \A y \in T : <<y, x>> \notin R
  <2> HIDE DEF R
  <2> QED BY <1>1, WFMin
<1>3. \A y \in T : y \in Nat /\ x \in Nat /\ ~(y < x)
  BY <1>2
<1>4. \A y \in T : x <= y
  BY <1>3
<1> QED BY <1>4

\* The order of keys, position by position: the first digit that differs
\* decides, and else the shorter key comes first.
LEMMA OrderIsLexicographic ==
  ASSUME NEW a \in Rank, NEW b \in Rank
  PROVE  sortsBefore(a, b) <=>
           \/ \E k \in 1 .. Len(a) : k <= Len(b) /\ a[k] < b[k] /\ \A j \in 1 .. k - 1 : a[j] = b[j]
           \/ Len(a) < Len(b) /\ \A j \in 1 .. Len(a) : a[j] = b[j]
<1>1. Len(a) \in Nat /\ Len(b) \in Nat /\ DOMAIN a = 1 .. Len(a) /\ DOMAIN b = 1 .. Len(b)
  BY DEF Rank
<1>2. IsStrictPrefix(a, b) <=> Len(a) < Len(b) /\ \A j \in 1 .. Len(a) : a[j] = b[j]
  <2>1. IsStrictPrefix(a, b) => Len(a) < Len(b) /\ \A j \in 1 .. Len(a) : a[j] = b[j]
    BY <1>1 DEF IsStrictPrefix, IsPrefix, Rank
  <2>2. ASSUME Len(a) < Len(b), \A j \in 1 .. Len(a) : a[j] = b[j]
        PROVE  IsStrictPrefix(a, b)
    BY <1>1, <2>2 DEF IsStrictPrefix, IsPrefix, Rank
  <2> QED BY <2>1, <2>2
<1> QED BY <1>1, <1>2 DEF sortsBefore

\* A key with a smaller digit at the first difference sorts first.
LEMMA SmallerDigit ==
  ASSUME NEW a \in Rank, NEW b \in Rank, NEW k \in 1 .. Len(a),
         k <= Len(b), a[k] < b[k], \A j \in 1 .. k - 1 : a[j] = b[j]
  PROVE  sortsBefore(a, b)
BY OrderIsLexicographic

\* A proper prefix sorts before the key it begins.
LEMMA ShorterKey ==
  ASSUME NEW a \in Rank, NEW b \in Rank, Len(a) < Len(b), \A j \in 1 .. Len(a) : a[j] = b[j]
  PROVE  sortsBefore(a, b)
BY OrderIsLexicographic

\* A key is its front and its last digit, which is not zero.
LEMMA KeyParts ==
  ASSUME NEW a \in Rank, isValidRank(a)
  PROVE  /\ Base \in Nat /\ Base > 2
         /\ Len(a) \in Nat \ {0} /\ Last(a) = a[Len(a)] /\ a[Len(a)] \in 1 .. Base - 1
         /\ Front(a) \in Rank /\ Len(Front(a)) = Len(a) - 1
         /\ \A j \in 1 .. Len(a) - 1 : Front(a)[j] = a[j]
<1>1. Base \in Nat /\ Base > 2
  BY EdgesAssumption
<1>2. Len(a) \in Nat \ {0}
  BY EmptySeq DEF isValidRank, Rank
<1>3. Last(a) = a[Len(a)] /\ a[Len(a)] \in 1 .. Base - 1
  BY <1>1, <1>2 DEF isValidRank, Rank, Last
<1>4. \A j \in 1 .. Len(a) - 1 : a[j] \in 0 .. Base - 1
  <2>1. \A j \in 1 .. Len(a) : a[j] \in 0 .. Base - 1
    BY ElementOfSeq DEF Rank
  <2> QED BY <1>2, <2>1
<1>5. /\ Front(a) \in Rank /\ Len(Front(a)) = Len(a) - 1
      /\ \A j \in 1 .. Len(a) - 1 : Front(a)[j] = a[j]
  <2>1. 1 \in Int /\ Len(a) - 1 \in Int
    BY <1>2
  <2> DEFINE f == SubSeq(a, 1, Len(a) - 1)
  <2>2. /\ f \in Seq(0 .. Base - 1)
        /\ Len(f) = IF 1 <= Len(a) - 1 THEN Len(a) - 1 - 1 + 1 ELSE 0
        /\ \A j \in 1 .. Len(a) - 1 - 1 + 1 : f[j] = a[1 + j - 1]
    BY <1>4, <2>1, SubSeqProperties
  <2> HIDE DEF f
  <2>3. f \in Rank /\ Len(f) = Len(a) - 1
    <3>1. f \in Rank
      BY <2>2 DEF Rank
    <3>2. Len(f) = Len(a) - 1
      <4>1. CASE 1 <= Len(a) - 1
        BY <1>2, <2>2, <4>1
      <4>2. CASE ~(1 <= Len(a) - 1)
        <5>1. Len(a) = 1
          <6> DEFINE n == Len(a)
          <6>1. n \in Nat /\ n # 0 /\ ~(1 <= n - 1)
            BY <1>2, <4>2
          <6> HIDE DEF n
          <6>2. n = 1
            BY <6>1
          <6> QED BY <6>2 DEF n
        <5>2. Len(f) = 0
          BY <2>2, <4>2
        <5> QED BY <5>1, <5>2
      <4> QED BY <4>1, <4>2
    <3> QED BY <3>1, <3>2
  <2>4. ASSUME NEW j \in 1 .. Len(a) - 1
        PROVE  f[j] = a[j]
    <3>1. j \in 1 .. Len(a) - 1 - 1 + 1 /\ 1 + j - 1 = j
      BY <1>2
    <3> QED BY <2>2, <3>1
  <2> QED BY <2>3, <2>4 DEF Front, f
<1> QED BY <1>1, <1>2, <1>3, <1>5

\* Incrementing the last digit, or appending one when it is the highest.
LEMMA AfterFits ==
  ASSUME NEW a \in Rank, isValidRank(a)
  PROVE  fits(rankAfter(a), a, <<>>)
<1>1. /\ Len(a) \in Nat \ {0} /\ Last(a) = a[Len(a)] /\ a[Len(a)] \in 1 .. Base - 1
      /\ Front(a) \in Rank /\ Len(Front(a)) = Len(a) - 1
      /\ \A j \in 1 .. Len(a) - 1 : Front(a)[j] = a[j]
  BY KeyParts
<1>2. Base \in Nat /\ Base > 2
  BY KeyParts
<1>3. CASE Last(a) + 1 < Base
  <2> DEFINE r == Append(Front(a), Last(a) + 1)
  <2>1. r \in Rank /\ Len(r) = Len(a) /\ r[Len(a)] = a[Len(a)] + 1
        /\ \A j \in 1 .. Len(a) - 1 : r[j] = a[j]
    <3>1. Front(a) \in Seq(0 .. Base - 1) /\ Last(a) + 1 \in 0 .. Base - 1 /\ Len(a) - 1 + 1 = Len(a)
      BY <1>1, <1>2, <1>3 DEF Rank
    <3>2. /\ r \in Seq(0 .. Base - 1) /\ Len(r) = Len(a) - 1 + 1
          /\ \A j \in 1 .. Len(a) - 1 + 1 : r[j] = IF j <= Len(a) - 1 THEN Front(a)[j] ELSE Last(a) + 1
      BY <1>1, <3>1, AppendProperties
    <3> HIDE DEF r
    <3> QED BY <1>1, <3>1, <3>2 DEF Rank
  <2>2. sortsBefore(a, r)
    <3> HIDE DEF r
    <3>1. Len(a) \in 1 .. Len(a) /\ Len(a) <= Len(r) /\ a[Len(a)] < r[Len(a)]
          /\ \A j \in 1 .. Len(a) - 1 : a[j] = r[j]
      BY <2>1, <1>1
    <3> QED BY <2>1, <3>1, SmallerDigit
  <2>3. isValidRank(r)
    <3> HIDE DEF r
    <3> QED BY <2>1, <1>1, <1>2 DEF isValidRank, Last, Rank
  <2> QED BY <2>1, <2>2, <2>3, <1>3, <1>1 DEF fits, rankAfter
<1>4. CASE ~(Last(a) + 1 < Base)
  <2> DEFINE r == Append(a, Base \div 2)
  <2>1. r \in Rank /\ Len(r) = Len(a) + 1 /\ r[Len(a) + 1] = Base \div 2
        /\ \A j \in 1 .. Len(a) : r[j] = a[j]
    BY <1>1, <1>2 DEF Rank
  <2>2. sortsBefore(a, r)
    <3> HIDE DEF r
    <3>1. Len(a) < Len(r) /\ \A j \in 1 .. Len(a) : a[j] = r[j]
      BY <2>1, <1>1
    <3> QED BY <2>1, <3>1, ShorterKey
  <2>3. isValidRank(r)
    <3> HIDE DEF r
    <3> QED BY <2>1, <1>1, <1>2 DEF isValidRank, Last, Rank
  <2> QED BY <2>1, <2>2, <2>3, <1>4, <1>1 DEF fits, rankAfter
<1> QED BY <1>3, <1>4

\* Decrementing the last digit, or going below it when it is the lowest.
LEMMA BeforeFits ==
  ASSUME NEW b \in Rank, isValidRank(b)
  PROVE  fits(rankBefore(b), <<>>, b)
<1>1. /\ Len(b) \in Nat \ {0} /\ Last(b) = b[Len(b)] /\ b[Len(b)] \in 1 .. Base - 1
      /\ Front(b) \in Rank /\ Len(Front(b)) = Len(b) - 1
      /\ \A j \in 1 .. Len(b) - 1 : Front(b)[j] = b[j]
  BY KeyParts
<1>2. Base \in Nat /\ Base > 2
  BY KeyParts
<1>3. CASE Last(b) > 1
  <2> DEFINE r == Append(Front(b), Last(b) - 1)
  <2>1. r \in Rank /\ Len(r) = Len(b) /\ r[Len(b)] = b[Len(b)] - 1
        /\ \A j \in 1 .. Len(b) - 1 : r[j] = b[j]
    BY <1>1, <1>2, <1>3 DEF Rank
  <2>2. sortsBefore(r, b)
    <3> HIDE DEF r
    <3>1. Len(b) \in 1 .. Len(r) /\ Len(b) <= Len(b) /\ r[Len(b)] < b[Len(b)]
          /\ \A j \in 1 .. Len(b) - 1 : r[j] = b[j]
      BY <2>1, <1>1
    <3> QED BY <2>1, <3>1, SmallerDigit
  <2>3. isValidRank(r)
    <3> HIDE DEF r
    <3> QED BY <2>1, <1>1, <1>2, <1>3 DEF isValidRank, Last, Rank
  <2> QED BY <2>1, <2>2, <2>3, <1>3, <1>1 DEF fits, rankBefore
<1>4. CASE ~(Last(b) > 1)
  <2> DEFINE r == Front(b) \o <<0, Base \div 2>>
  <2>1. r \in Rank /\ Len(r) = Len(b) + 1 /\ r[Len(b)] = 0 /\ r[Len(b) + 1] = Base \div 2
        /\ \A j \in 1 .. Len(b) - 1 : r[j] = b[j]
    BY <1>1, <1>2 DEF Rank
  <2>2. sortsBefore(r, b)
    <3> HIDE DEF r
    <3>1. Len(b) \in 1 .. Len(r) /\ Len(b) <= Len(b) /\ r[Len(b)] < b[Len(b)]
          /\ \A j \in 1 .. Len(b) - 1 : r[j] = b[j]
      BY <2>1, <1>1
    <3> QED BY <2>1, <3>1, SmallerDigit
  <2>3. isValidRank(r)
    <3> HIDE DEF r
    <3> QED BY <2>1, <1>1, <1>2 DEF isValidRank, Last, Rank
  <2> QED BY <2>1, <2>2, <2>3, <1>4, <1>1 DEF fits, rankBefore
<1> QED BY <1>3, <1>4

\* The least position in a set of positions.
LEMMA FirstPosition ==
  ASSUME NEW T \in SUBSET Nat, T # {}
  PROVE  Min(T) \in T /\ \A n \in T : Min(T) <= n
<1>1. \E x \in T : \A y \in T : x <= y
  BY NatMin
<1> QED BY <1>1 DEF Min

\* The digits of a key, which go on as zeros.
LEMMA Digits ==
  ASSUME NEW a \in Rank, NEW n \in Nat
  PROVE  /\ digits(a, n) \in Rank /\ Len(digits(a, n)) = n
         /\ \A k \in 1 .. n : digits(a, n)[k] = digitAt(a, k)
<1>1. \A k \in 1 .. n : digitAt(a, k) \in 0 .. Base - 1
  <2>1. Base \in Nat /\ Base > 2 /\ Len(a) \in Nat
    BY EdgesAssumption DEF Rank
  <2>2. \A k \in 1 .. Len(a) : a[k] \in 0 .. Base - 1
    BY ElementOfSeq DEF Rank
  <2> QED BY <2>1, <2>2 DEF digitAt
<1> QED BY <1>1 DEF digits, Rank

\* A digit after the first n digits of a key.
LEMMA DigitsThen ==
  ASSUME NEW a \in Rank, NEW n \in Nat, NEW d \in 1 .. Base - 1
  PROVE  LET r == Append(digits(a, n), d)
         IN  /\ r \in Rank /\ isValidRank(r) /\ Len(r) = n + 1 /\ r[n + 1] = d
             /\ \A k \in 1 .. n : r[k] = digitAt(a, k)
<1> DEFINE f == digits(a, n)
           r == Append(f, d)
<1>1. f \in Rank /\ Len(f) = n /\ \A k \in 1 .. n : f[k] = digitAt(a, k)
  BY Digits
<1>2. d \in 0 .. Base - 1 /\ d # 0
  BY EdgesAssumption
<1> HIDE DEF f
<1>3. r \in Rank /\ Len(r) = n + 1 /\ r[n + 1] = d /\ \A k \in 1 .. n : r[k] = f[k]
  BY <1>1, <1>2 DEF Rank
<1> HIDE DEF r
<1>4. isValidRank(r)
  BY <1>2, <1>3 DEF isValidRank, Last, Rank
<1> QED BY <1>1, <1>3, <1>4 DEF r, f

\* A key comes before one that has its digits up to some position and a higher
\* one there, even past its end.
LEMMA HigherDigit ==
  ASSUME NEW a \in Rank, NEW r \in Rank, NEW k \in 1 .. Len(r),
         digitAt(a, k) < r[k], \A j \in 1 .. k - 1 : digitAt(a, j) = r[j]
  PROVE  sortsBefore(a, r)
<1>1. Len(a) \in Nat /\ Len(r) \in Nat
  BY DEF Rank
<1>2. CASE k <= Len(a)
  <2>1. \A j \in 1 .. k - 1 : a[j] = r[j]
    BY <1>1, <1>2 DEF digitAt
  <2>2. k \in 1 .. Len(a) /\ k <= Len(r) /\ a[k] < r[k]
    BY <1>1, <1>2 DEF digitAt
  <2> QED BY <2>1, <2>2, SmallerDigit
<1>3. CASE ~(k <= Len(a))
  <2>1. Len(a) < Len(r) /\ \A j \in 1 .. Len(a) : a[j] = r[j]
    BY <1>1, <1>3 DEF digitAt
  <2> QED BY <2>1, ShorterKey
<1> QED BY <1>2, <1>3

\* Between two digits with room, there is their middle.
LEMMA MiddleDigit ==
  ASSUME NEW x \in Nat, NEW y \in Nat, y - x > 1
  PROVE  middle(x, y) \in Nat /\ x < middle(x, y) /\ middle(x, y) < y
BY DEF middle

\* The digits from some position on, kept until one leaves room above it.
LEMMA AboveFits ==
  ASSUME NEW a \in Rank, NEW k \in Nat \ {0}
  PROVE  LET r == above(a, k)
         IN  /\ r \in Rank /\ isValidRank(r) /\ sortsBefore(a, r)
             /\ k <= Len(r) /\ \A i \in 1 .. k - 1 : r[i] = digitAt(a, i)
             /\ Len(r) <= 1 + Len(a) \/ Len(r) <= k
<1> DEFINE T == {n \in k .. k + Len(a) : Base - digitAt(a, n) > 1}
           j == Min(T)
           r == above(a, k)
<1>1. Base \in Nat /\ Base > 2 /\ Len(a) \in Nat /\ k \in Nat /\ k >= 1
  BY EdgesAssumption DEF Rank
<1>2. \A n \in Nat : n > Len(a) /\ n >= k /\ n <= k + Len(a) => n \in T
  BY <1>1 DEF digitAt
<1>3. T \in SUBSET Nat /\ T # {}
  <2>1. k + Len(a) \in T
    BY <1>1, <1>2
  <2> QED BY <1>1, <2>1
<1>4. j \in T /\ \A n \in T : j <= n
  <2> HIDE DEF T
  <2> QED BY <1>3, FirstPosition
<1>5. j \in Nat /\ k <= j /\ Base - digitAt(a, j) > 1
  <2> HIDE DEF j
  <2> QED BY <1>1, <1>4
<1>6. j <= 1 + Len(a) \/ j <= k
  <2>1. CASE k <= Len(a)
    <3>1. Len(a) + 1 \in T
      BY <1>1, <1>2, <2>1
    <3> QED BY <1>4, <3>1
  <2>2. CASE ~(k <= Len(a))
    <3>1. k \in T
      BY <1>1, <1>2, <2>2
    <3> QED BY <1>4, <3>1
  <2> QED BY <2>1, <2>2
<1> HIDE DEF T, j
<1>7. digitAt(a, j) \in 0 .. Base - 1
  <2>1. digits(a, j) \in Rank /\ Len(digits(a, j)) = j /\ digits(a, j)[j] = digitAt(a, j)
    BY <1>1, <1>5, Digits
  <2> QED BY <1>1, <1>5, <2>1, ElementOfSeq DEF Rank
<1> DEFINE d == middle(digitAt(a, j), Base)
<1>8. d \in 1 .. Base - 1 /\ digitAt(a, j) < d
  <2>1. digitAt(a, j) \in Nat /\ Base \in Nat /\ Base - digitAt(a, j) > 1
    BY <1>1, <1>5, <1>7
  <2>2. d \in Nat /\ digitAt(a, j) < d /\ d < Base
    BY <2>1, MiddleDigit
  <2> HIDE DEF d
  <2> QED BY <2>1, <2>2
<1>9. r = Append(digits(a, j - 1), d)
  BY DEF above, j, T
<1> HIDE DEF d, r
<1>10. /\ r \in Rank /\ isValidRank(r) /\ Len(r) = j /\ r[j] = d
       /\ \A i \in 1 .. j - 1 : r[i] = digitAt(a, i)
  <2>1. j - 1 \in Nat /\ j - 1 + 1 = j
    BY <1>1, <1>5
  <2> QED BY <1>8, <1>9, <2>1, DigitsThen
<1>11. sortsBefore(a, r)
  BY <1>1, <1>5, <1>8, <1>10, HigherDigit
<1>12. k <= Len(r) /\ \A i \in 1 .. k - 1 : r[i] = digitAt(a, i)
  BY <1>1, <1>5, <1>10
<1> QED BY <1>6, <1>10, <1>11, <1>12 DEF r

\* The three ways out of midpoint's loop, once the shared digits are copied.
LEMMA BetweenFits ==
  ASSUME NEW a \in Rank, NEW b \in Rank, isValidRank(b),
         NEW k \in 1 .. Len(b), digitAt(a, k) < b[k],
         \A i \in 1 .. k - 1 : digitAt(a, i) = b[i]
  PROVE  fits(midpoint(a, b), a, b)
<1> DEFINE x == digitAt(a, k)
           r == midpoint(a, b)
<1>1. /\ Base \in Nat /\ Base > 2 /\ Len(a) \in Nat /\ Len(b) \in Nat
      /\ k \in Nat /\ k >= 1 /\ k <= Len(b)
  BY EdgesAssumption DEF Rank
<1>2. \A n \in 1 .. Len(b) : b[n] \in 0 .. Base - 1
  BY ElementOfSeq DEF Rank
<1>3. x \in 0 .. Base - 1
  <2>1. digits(a, k) \in Rank /\ Len(digits(a, k)) = k /\ digits(a, k)[k] = x
    BY <1>1, Digits
  <2> QED BY <1>1, <2>1, ElementOfSeq DEF Rank
<1>4. Min({n \in 1 .. Len(b) : digitAt(a, n) # b[n]}) = k
  <2> DEFINE T == {n \in 1 .. Len(b) : digitAt(a, n) # b[n]}
  <2>1. k \in T /\ \A n \in T : k <= n
    BY <1>1, <1>2, <1>3
  <2>2. T \in SUBSET Nat /\ T # {}
    BY <2>1
  <2> HIDE DEF T
  <2>3. Min(T) \in T /\ \A n \in T : Min(T) <= n
    BY <2>2, FirstPosition
  <2>4. Min(T) = k
    <3>1. k <= Min(T) /\ Min(T) <= k /\ Min(T) \in Nat /\ k \in Nat
      BY <1>1, <2>1, <2>2, <2>3
    <3> QED BY <3>1
  <2> QED BY <2>4 DEF T
<1>5. \A i \in 1 .. k - 1 : digitAt(b, i) = b[i]
  BY <1>1 DEF digitAt
<1>6. CASE b[k] - x > 1
  <2> DEFINE d == middle(x, b[k])
  <2>1. d \in 1 .. Base - 1 /\ x < d /\ d < b[k]
    BY <1>1, <1>2, <1>3, <1>6, MiddleDigit
  <2>2. r = Append(digits(b, k - 1), d)
    BY <1>4, <1>6 DEF midpoint
  <2> HIDE DEF d, r
  <2>3. /\ r \in Rank /\ isValidRank(r) /\ Len(r) = k /\ r[k] = d
        /\ \A i \in 1 .. k - 1 : r[i] = b[i]
    <3>1. k - 1 \in Nat /\ k - 1 + 1 = k
      BY <1>1
    <3> QED BY <1>5, <2>1, <2>2, <3>1, DigitsThen
  <2>4. sortsBefore(a, r)
    <3>1. k \in 1 .. Len(r) /\ digitAt(a, k) < r[k]
      BY <1>1, <2>1, <2>3
    <3>2. \A i \in 1 .. k - 1 : digitAt(a, i) = r[i]
      BY <2>3
    <3> QED BY <2>3, <3>1, <3>2, HigherDigit
  <2>5. sortsBefore(r, b)
    BY <1>1, <2>1, <2>3, SmallerDigit
  <2> QED BY <1>1, <2>3, <2>4, <2>5 DEF fits, r
<1>7. CASE ~(b[k] - x > 1) /\ k < Len(b)
  <2>1. r = digits(b, k)
    BY <1>4, <1>7 DEF midpoint
  <2> HIDE DEF r
  <2>2. r \in Rank /\ Len(r) = k /\ \A i \in 1 .. k : r[i] = b[i]
    <3>1. \A i \in 1 .. k : digitAt(b, i) = b[i]
      BY <1>1 DEF digitAt
    <3> QED BY <1>1, <2>1, <3>1, Digits
  <2>3. r[k] = b[k] /\ b[k] # 0
    BY <1>1, <1>2, <1>3, <2>2
  <2>4. isValidRank(r)
    BY <1>1, <2>2, <2>3 DEF isValidRank, Last, Rank
  <2>5. sortsBefore(a, r)
    BY <1>1, <2>2, <2>3, HigherDigit
  <2>6. sortsBefore(r, b)
    BY <1>1, <1>7, <2>2, ShorterKey
  <2> QED BY <1>1, <2>2, <2>4, <2>5, <2>6 DEF fits, r
<1>8. CASE ~(b[k] - x > 1) /\ ~(k < Len(b))
  <2>1. r = above(a, k + 1)
    BY <1>4, <1>8 DEF midpoint
  <2>2. k + 1 \in Nat \ {0} /\ k + 1 - 1 = k
    BY <1>1
  <2> HIDE DEF r
  <2>3. /\ r \in Rank /\ isValidRank(r) /\ sortsBefore(a, r)
        /\ k + 1 <= Len(r) /\ (\A i \in 1 .. k : r[i] = digitAt(a, i))
        /\ (Len(r) <= 1 + Len(a) \/ Len(r) <= k + 1)
    BY <2>1, <2>2, AboveFits
  <2>4. sortsBefore(r, b)
    <3>1. Len(r) \in Nat
      BY <2>3 DEF Rank
    <3>2. k \in 1 .. Len(r) /\ k <= Len(b) /\ r[k] < b[k] /\ \A i \in 1 .. k - 1 : r[i] = b[i]
      BY <1>1, <2>3, <3>1
    <3> QED BY <2>3, <3>2, SmallerDigit
  <2>5. Len(r) <= 1 + Len(a) \/ Len(r) <= 1 + Len(b)
    <3>1. Len(r) \in Nat
      BY <2>3 DEF Rank
    <3> QED BY <1>1, <1>8, <2>3, <3>1
  <2> QED BY <2>3, <2>4, <2>5 DEF fits, r
<1> QED BY <1>6, <1>7, <1>8

\* Two ordered keys have a key between them.
LEMMA MidpointFits ==
  ASSUME NEW a \in Rank, NEW b \in Rank, isValidRank(a), isValidRank(b), sortsBefore(a, b)
  PROVE  fits(midpoint(a, b), a, b)
<1>1. /\ Base \in Nat /\ Base > 2 /\ Len(a) \in Nat /\ Len(b) \in Nat /\ Len(b) >= 1
      /\ b[Len(b)] # 0
  <2>1. Len(a) \in Nat \ {0} /\ Base \in Nat /\ Base > 2
    BY KeyParts
  <2>2. Len(b) \in Nat \ {0} /\ b[Len(b)] \in 1 .. Base - 1
    BY KeyParts
  <2> QED BY <2>1, <2>2
<1>2. \A n \in 1 .. Len(b) : b[n] \in 0 .. Base - 1
  BY ElementOfSeq DEF Rank
<1>3. \A n \in 1 .. Len(a) : a[n] \in 0 .. Base - 1
  BY ElementOfSeq DEF Rank
<1>4. CASE \E n \in 1 .. Len(a) : n <= Len(b) /\ a[n] < b[n] /\ \A i \in 1 .. n - 1 : a[i] = b[i]
  <2>1. PICK n \in 1 .. Len(a) : n <= Len(b) /\ a[n] < b[n] /\ \A i \in 1 .. n - 1 : a[i] = b[i]
    BY <1>4
  <2>2. n \in 1 .. Len(b) /\ digitAt(a, n) < b[n] /\ digitAt(a, n) # b[n]
    BY <1>1, <1>2, <1>3, <2>1 DEF digitAt
  <2>3. \A i \in 1 .. n - 1 : digitAt(a, i) = b[i]
    BY <1>1, <2>1 DEF digitAt
  <2> QED BY <2>2, <2>3, BetweenFits
<1>5. CASE Len(a) < Len(b) /\ \A i \in 1 .. Len(a) : a[i] = b[i]
  <2> DEFINE T == {n \in 1 .. Len(b) : digitAt(a, n) # b[n]}
  <2>1. Len(b) \in T
    BY <1>1, <1>5 DEF digitAt
  <2>2. PICK n \in T : \A i \in T : n <= i
    <3>1. T \in SUBSET Nat /\ T # {}
      BY <2>1
    <3> HIDE DEF T
    <3> QED BY <3>1, NatMin
  <2>3. \A i \in 1 .. n - 1 : digitAt(a, i) = b[i]
    BY <1>1, <2>2
  <2>4. ~(n <= Len(a))
    BY <1>1, <1>5, <2>2 DEF digitAt
  <2>5. digitAt(a, n) < b[n]
    BY <1>1, <1>2, <2>2, <2>4 DEF digitAt
  <2> QED BY <2>2, <2>3, <2>5, BetweenFits
<1> QED BY <1>4, <1>5, OrderIsLexicographic

\* The key that rankBetween makes fits every slot between two stored keys, before
\* the first and after the last: it is a valid key, it sorts strictly between its
\* neighbours, and it is at most one digit longer than the longer one.  This is
\* what fractional-rank.ts promises its callers, for every base and every length.
THEOREM RankBetweenFits ==
  ASSUME NEW a \in Rank, NEW b \in Rank,
         a # <<>> => isValidRank(a), b # <<>> => isValidRank(b),
         a # <<>> /\ b # <<>> => sortsBefore(a, b)
  PROVE  fits(rankBetween(a, b), a, b)
<1>1. CASE a = <<>> /\ b = <<>>
  <2>1. rankBetween(a, b) = <<middle(0, Base)>>
    BY <1>1 DEF rankBetween
  <2>2. middle(0, Base) \in 1 .. Base - 1
    BY EdgesAssumption, MiddleDigit
  <2> DEFINE r == <<middle(0, Base)>>
  <2>3. r \in Rank /\ Len(r) = 1 /\ r[1] = middle(0, Base)
    BY <2>2, EdgesAssumption DEF Rank
  <2> HIDE DEF r
  <2>4. isValidRank(r)
    <3>1. r # <<>>
      BY <2>3, EmptySeq
    <3>2. Last(r) # 0
      BY <2>2, <2>3 DEF Last
    <3> QED BY <2>3, <3>1, <3>2 DEF isValidRank
  <2>5. Len(r) <= 1 + Len(a)
    BY <1>1, <2>3, EmptySeq
  <2>6. rankBetween(a, b) = r
    BY <2>1 DEF r
  <2> QED BY <1>1, <2>4, <2>5, <2>6 DEF fits
<1>2. CASE a # <<>> /\ b = <<>>
  BY <1>2, AfterFits DEF rankBetween
<1>3. CASE a = <<>> /\ b # <<>>
  BY <1>3, BeforeFits DEF rankBetween
<1>4. CASE a # <<>> /\ b # <<>>
  BY <1>4, MidpointFits DEF rankBetween
<1> QED BY <1>1, <1>2, <1>3, <1>4

(***************************************************************************)
(* Lists of rows.                                                          *)
(***************************************************************************)

\* A row of an ordering.
Row == [child : Item, rank : {r \in Rank : isValidRank(r)}]

\* Strictly ascending ranks, and no child twice.
ascending(s) ==
  \A j, k \in DOMAIN s : j < k => s[j].child # s[k].child /\ sortsBefore(s[j].rank, s[k].rank)

Listing == {s \in Seq(Row) : ascending(s)}

\* A stretch of a sequence.
LEMMA Slice ==
  ASSUME NEW S, NEW q \in Seq(S), NEW m \in Nat, NEW n \in Nat,
         1 <= m, m <= n + 1, n <= Len(q)
  PROVE  /\ SubSeq(q, m, n) \in Seq(S) /\ Len(SubSeq(q, m, n)) = n + 1 - m
         /\ \A i \in 1 .. n + 1 - m : SubSeq(q, m, n)[i] = q[m + i - 1]
<1> DEFINE l == Len(q)
<1>1. l \in Nat /\ \A i \in 1 .. l : q[i] \in S
  BY LenProperties, ElementOfSeq
<1>2. n <= l
  OBVIOUS
<1> HIDE DEF l
<1>3. \A i \in m .. n : q[i] \in S
  BY <1>1, <1>2
<1>4. /\ SubSeq(q, m, n) \in Seq(S)
      /\ Len(SubSeq(q, m, n)) = IF m <= n THEN n - m + 1 ELSE 0
      /\ \A i \in 1 .. n - m + 1 : SubSeq(q, m, n)[i] = q[m + i - 1]
  BY <1>3, SubSeqProperties
<1>5. Len(SubSeq(q, m, n)) = n + 1 - m
  BY <1>4
<1>6. n - m + 1 = n + 1 - m
  OBVIOUS
<1> QED BY <1>4, <1>5, <1>6

\* The elements of a sequence.
entries(s) == {s[k] : k \in DOMAIN s}

\* The key order is a strict order: nothing is before itself.
LEMMA NotBeforeItself ==
  ASSUME NEW a \in Rank
  PROVE  ~sortsBefore(a, a)
<1>1. Len(a) \in Nat /\ \A k \in 1 .. Len(a) : a[k] \in 0 .. Base - 1
  <2>1. Len(a) \in Nat
    BY LenProperties DEF Rank
  <2>2. \A k \in 1 .. Len(a) : a[k] \in 0 .. Base - 1
    BY ElementOfSeq DEF Rank
  <2> QED BY <2>1, <2>2
<1>2. \A k \in 1 .. Len(a) : ~(a[k] < a[k])
  BY <1>1, EdgesAssumption
<1> QED BY <1>1, <1>2, OrderIsLexicographic

LEMMA Transitive ==
  ASSUME NEW a \in Rank, NEW b \in Rank, NEW c \in Rank, sortsBefore(a, b), sortsBefore(b, c)
  PROVE  sortsBefore(a, c)
<1> DEFINE la == Len(a)
           lb == Len(b)
           lc == Len(c)
           differ(x, lx, y, ly, k) == k \in 1 .. lx /\ k <= ly /\ x[k] < y[k] /\ \A j \in 1 .. k - 1 : x[j] = y[j]
           begins(x, lx, y, ly) == lx < ly /\ \A j \in 1 .. lx : x[j] = y[j]
<1>1. /\ la \in Nat /\ lb \in Nat /\ lc \in Nat /\ Base \in Nat
      /\ \A k \in 1 .. la : a[k] \in 0 .. Base - 1
      /\ \A k \in 1 .. lb : b[k] \in 0 .. Base - 1
      /\ \A k \in 1 .. lc : c[k] \in 0 .. Base - 1
  <2>1. \A x \in Rank : Len(x) \in Nat /\ \A k \in 1 .. Len(x) : x[k] \in 0 .. Base - 1
    BY LenProperties, ElementOfSeq DEF Rank
  <2> QED BY <2>1, EdgesAssumption
<1>2. (\E k : differ(a, la, b, lb, k)) \/ begins(a, la, b, lb)
  BY OrderIsLexicographic
<1>3. (\E k : differ(b, lb, c, lc, k)) \/ begins(b, lb, c, lc)
  BY OrderIsLexicographic
<1>4. (\E k : differ(a, la, c, lc, k)) \/ begins(a, la, c, lc) => sortsBefore(a, c)
  BY OrderIsLexicographic
<1> HIDE DEF la, lb, lc
<1>5. ASSUME NEW k, NEW m, differ(a, la, b, lb, k), differ(b, lb, c, lc, m)
      PROVE  \E n : differ(a, la, c, lc, n)
  <2>1. CASE k < m
    <3>1. differ(a, la, c, lc, k)
      BY <1>1, <1>5, <2>1
    <3> QED BY <3>1
  <2>2. CASE m < k
    <3>1. differ(a, la, c, lc, m)
      BY <1>1, <1>5, <2>2
    <3> QED BY <3>1
  <2>3. CASE m = k
    <3>1. differ(a, la, c, lc, m)
      BY <1>1, <1>5, <2>3
    <3> QED BY <3>1
  <2> QED BY <1>1, <1>5, <2>1, <2>2, <2>3
<1>6. ASSUME NEW k, differ(a, la, b, lb, k), begins(b, lb, c, lc)
      PROVE  differ(a, la, c, lc, k)
  BY <1>1, <1>6
<1>7. ASSUME NEW m, begins(a, la, b, lb), differ(b, lb, c, lc, m)
      PROVE  differ(a, la, c, lc, m) \/ begins(a, la, c, lc)
  <2>1. CASE m <= la
    BY <1>1, <1>7, <2>1
  <2>2. CASE ~(m <= la)
    BY <1>1, <1>7, <2>2
  <2> QED BY <2>1, <2>2
<1>8. ASSUME begins(a, la, b, lb), begins(b, lb, c, lc) PROVE begins(a, la, c, lc)
  BY <1>1, <1>8
<1> HIDE DEF differ, begins
<1> QED BY <1>2, <1>3, <1>4, <1>5, <1>6, <1>7, <1>8

\* An element put at position k + 1.
LEMMA InsertFacts ==
  ASSUME NEW S, NEW q \in Seq(S), NEW x \in S, NEW k \in 0 .. Len(q), NEW m, m = k + 1
  PROVE  /\ InsertAt(q, m, x) \in Seq(S) /\ Len(InsertAt(q, m, x)) = Len(q) + 1
         /\ \A i \in 1 .. Len(q) + 1 :
              InsertAt(q, m, x)[i] = IF i <= k THEN q[i] ELSE IF i = k + 1 THEN x ELSE q[i - 1]
<1> DEFINE l == Len(q)
           u == SubSeq(q, 1, k)
           v == SubSeq(q, k + 1, l)
           w == u \o <<x>>
<1>1. l \in Nat /\ k \in Nat /\ k <= l
  BY LenProperties
<1>2. InsertAt(q, m, x) = w \o v
  <2>1. m - 1 = k
    BY <1>1
  <2>2. InsertAt(q, m, x) = (SubSeq(q, 1, m - 1) \o <<x>>) \o SubSeq(q, m, Len(q))
    BY DEF InsertAt
  <2> QED BY <2>1, <2>2
<1>3. u \in Seq(S) /\ Len(u) = k /\ \A i \in 1 .. k : u[i] = q[i]
  <2>1. 1 \in Nat /\ 1 <= 1 /\ 1 <= k + 1 /\ k <= l /\ k + 1 - 1 = k
        /\ \A i \in 1 .. k : 1 + i - 1 = i
    BY <1>1
  <2> QED BY <1>1, <2>1, Slice
<1>4. v \in Seq(S) /\ Len(v) = l - k /\ \A i \in 1 .. l - k : v[i] = q[k + i]
  <2>1. k + 1 \in Nat /\ 1 <= k + 1 /\ k + 1 <= l + 1 /\ l <= l /\ l + 1 - (k + 1) = l - k
        /\ \A i \in 1 .. l - k : k + 1 + i - 1 = k + i
    BY <1>1
  <2>2. /\ v \in Seq(S) /\ Len(v) = l + 1 - (k + 1)
        /\ \A i \in 1 .. l + 1 - (k + 1) : v[i] = q[k + 1 + i - 1]
    BY <1>1, <2>1, Slice
  <2> HIDE DEF v, l
  <2> QED BY <2>1, <2>2
<1> HIDE DEF u, v, l
<1>5. w \in Seq(S) /\ Len(w) = k + 1 /\ \A i \in 1 .. k + 1 : w[i] = IF i <= k THEN u[i] ELSE x
  <2>1. <<x>> \in Seq(S) /\ Len(<<x>>) = 1 /\ <<x>>[1] = x
    OBVIOUS
  <2>2. /\ w \in Seq(S) /\ Len(w) = k + 1
        /\ \A i \in 1 .. k + 1 : w[i] = IF i <= k THEN u[i] ELSE <<x>>[i - k]
    BY <1>3, <2>1, ConcatProperties
  <2>3. \A i \in 1 .. k + 1 : ~(i <= k) => i - k = 1
    BY <1>1
  <2> HIDE DEF w
  <2> QED BY <2>1, <2>2, <2>3
<1> HIDE DEF w
<1>6. /\ w \o v \in Seq(S) /\ Len(w \o v) = k + 1 + (l - k)
      /\ \A i \in 1 .. k + 1 + (l - k) : (w \o v)[i] = IF i <= k + 1 THEN w[i] ELSE v[i - (k + 1)]
  <2>1. /\ w \o v \in Seq(S) /\ Len(w \o v) = Len(w) + Len(v)
        /\ \A i \in 1 .. Len(w) + Len(v) : (w \o v)[i] = IF i <= Len(w) THEN w[i] ELSE v[i - Len(w)]
    BY <1>4, <1>5, ConcatProperties
  <2>2. Len(w) + Len(v) = k + 1 + (l - k)
    BY <1>4, <1>5
  <2> QED BY <1>5, <2>1, <2>2
<1> DEFINE r == w \o v
<1>7. r \in Seq(S) /\ Len(r) = l + 1
  <2>1. k + 1 + (l - k) = l + 1
    BY <1>1
  <2> QED BY <1>6, <2>1
<1>8. ASSUME NEW i \in 1 .. l + 1
      PROVE  r[i] = IF i <= k THEN q[i] ELSE IF i = k + 1 THEN x ELSE q[i - 1]
  <2>1. r[i] = IF i <= k + 1 THEN w[i] ELSE v[i - (k + 1)]
    <3>1. i \in 1 .. k + 1 + (l - k)
      BY <1>1
    <3> QED BY <1>6, <3>1
  <2> HIDE DEF r
  <2>2. CASE i <= k
    <3>1. i \in 1 .. k /\ i \in 1 .. k + 1 /\ i <= k + 1
      BY <1>1, <2>2
    <3> QED BY <1>3, <1>5, <2>1, <2>2, <3>1
  <2>3. CASE i = k + 1
    <3>1. i \in 1 .. k + 1 /\ i <= k + 1 /\ ~(i <= k)
      BY <1>1, <2>3
    <3> QED BY <1>5, <2>1, <2>3, <3>1
  <2>4. CASE i > k + 1
    <3>1. i - (k + 1) \in 1 .. l - k /\ k + (i - (k + 1)) = i - 1 /\ ~(i <= k + 1) /\ ~(i <= k) /\ i # k + 1
      BY <1>1, <2>4
    <3> QED BY <1>4, <2>1, <3>1
  <2> QED BY <1>1, <2>2, <2>3, <2>4
<1>9. InsertAt(q, m, x) = r
  BY <1>2
<1> HIDE DEF r
<1> QED BY <1>7, <1>8, <1>9 DEF l

\* The element at position k taken out.
LEMMA DropFacts ==
  ASSUME NEW S, NEW q \in Seq(S), NEW k \in 1 .. Len(q)
  PROVE  /\ RemoveAt(q, k) \in Seq(S) /\ Len(RemoveAt(q, k)) = Len(q) - 1
         /\ \A i \in 1 .. Len(q) - 1 : RemoveAt(q, k)[i] = IF i < k THEN q[i] ELSE q[i + 1]
<1> DEFINE l == Len(q)
           u == SubSeq(q, 1, k - 1)
           v == SubSeq(q, k + 1, l)
<1>1. l \in Nat /\ k \in Nat /\ 1 <= k /\ k <= l
  BY LenProperties
<1>2. RemoveAt(q, k) = u \o v
  BY DEF RemoveAt
<1>3. u \in Seq(S) /\ Len(u) = k - 1 /\ \A i \in 1 .. k - 1 : u[i] = q[i]
  <2>1. 1 \in Nat /\ k - 1 \in Nat /\ 1 <= 1 /\ 1 <= k - 1 + 1 /\ k - 1 <= l /\ k - 1 + 1 - 1 = k - 1
        /\ \A i \in 1 .. k - 1 : 1 + i - 1 = i
    BY <1>1
  <2>2. /\ u \in Seq(S) /\ Len(u) = k - 1 + 1 - 1
        /\ \A i \in 1 .. k - 1 + 1 - 1 : u[i] = q[1 + i - 1]
    BY <1>1, <2>1, Slice
  <2> HIDE DEF u, l
  <2> QED BY <2>1, <2>2
<1>4. v \in Seq(S) /\ Len(v) = l - k /\ \A i \in 1 .. l - k : v[i] = q[k + i]
  <2>1. k + 1 \in Nat /\ 1 <= k + 1 /\ k + 1 <= l + 1 /\ l <= l /\ l + 1 - (k + 1) = l - k
        /\ \A i \in 1 .. l - k : k + 1 + i - 1 = k + i
    BY <1>1
  <2>2. /\ v \in Seq(S) /\ Len(v) = l + 1 - (k + 1)
        /\ \A i \in 1 .. l + 1 - (k + 1) : v[i] = q[k + 1 + i - 1]
    BY <1>1, <2>1, Slice
  <2> HIDE DEF v, l
  <2> QED BY <2>1, <2>2
<1> HIDE DEF u, v, l
<1>5. /\ u \o v \in Seq(S) /\ Len(u \o v) = (k - 1) + (l - k)
      /\ \A i \in 1 .. (k - 1) + (l - k) : (u \o v)[i] = IF i <= k - 1 THEN u[i] ELSE v[i - (k - 1)]
  BY <1>3, <1>4, ConcatProperties
<1> DEFINE r == u \o v
<1>6. r \in Seq(S) /\ Len(r) = l - 1
  <2>1. (k - 1) + (l - k) = l - 1
    BY <1>1
  <2> QED BY <1>5, <2>1
<1>7. ASSUME NEW i \in 1 .. l - 1
      PROVE  r[i] = IF i < k THEN q[i] ELSE q[i + 1]
  <2>1. r[i] = IF i <= k - 1 THEN u[i] ELSE v[i - (k - 1)]
    <3>1. i \in 1 .. (k - 1) + (l - k)
      BY <1>1
    <3> QED BY <1>5, <3>1
  <2> HIDE DEF r
  <2>2. CASE i < k
    <3>1. i \in 1 .. k - 1 /\ i <= k - 1
      BY <1>1, <2>2
    <3> QED BY <1>3, <2>1, <2>2, <3>1
  <2>3. CASE ~(i < k)
    <3>1. i - (k - 1) \in 1 .. l - k /\ k + (i - (k - 1)) = i + 1 /\ ~(i <= k - 1)
      BY <1>1, <2>3
    <3> QED BY <1>4, <2>1, <2>3, <3>1
  <2> QED BY <2>2, <2>3
<1> HIDE DEF r
<1> QED BY <1>2, <1>6, <1>7 DEF r, l

\* RemoveFirst and `without` take out the only occurrence, if there is one.
LEMMA RemoveFirstFacts ==
  ASSUME NEW S, NEW q \in Seq(S), NEW x
  PROVE  /\ (\A k \in 1 .. Len(q) : q[k] # x) => RemoveFirst(q, x) = q
         /\ \A k \in 1 .. Len(q) : q[k] = x /\ (\A j \in 1 .. Len(q) : q[j] = x => j = k)
              => RemoveFirst(q, x) = RemoveAt(q, k)
<1>1. (\A k \in 1 .. Len(q) : q[k] # x) => RemoveFirst(q, x) = q
  BY DEF RemoveFirst
<1>2. ASSUME NEW k \in 1 .. Len(q), q[k] = x, \A j \in 1 .. Len(q) : q[j] = x => j = k
      PROVE  RemoveFirst(q, x) = RemoveAt(q, k)
  <2> DEFINE I == {i \in 1 .. Len(q) : q[i] = x}
  <2>1. I = {k} /\ k \in Nat
    BY <1>2
  <2>2. Min(I) = k
    <3>1. {k} \in SUBSET Nat /\ {k} # {}
      BY <2>1
    <3>2. Min({k}) \in {k}
      BY <3>1, FirstPosition
    <3> QED BY <2>1, <3>2
  <2>3. SelectInSeq(q, LAMBDA v : v = x) = k
    BY <1>2, <2>2 DEF SelectInSeq
  <2> QED BY <1>2, <2>3 DEF RemoveFirst
<1> QED BY <1>1, <1>2

LEMMA WithoutFacts ==
  ASSUME NEW S, NEW q \in Seq(S), NEW x
  PROVE  /\ (\A k \in 1 .. Len(q) : q[k].child # x) => without(q, x) = q
         /\ \A k \in 1 .. Len(q) : q[k].child = x /\ (\A j \in 1 .. Len(q) : q[j].child = x => j = k)
              => without(q, x) = RemoveAt(q, k)
<1>1. (\A k \in 1 .. Len(q) : q[k].child # x) => without(q, x) = q
  BY DEF without, RemoveFirstMatch
<1>2. ASSUME NEW k \in 1 .. Len(q), q[k].child = x, \A j \in 1 .. Len(q) : q[j].child = x => j = k
      PROVE  without(q, x) = RemoveAt(q, k)
  <2> DEFINE I == {i \in 1 .. Len(q) : q[i].child = x}
  <2>1. I = {k} /\ k \in Nat
    BY <1>2
  <2>2. Min(I) = k
    <3>1. {k} \in SUBSET Nat /\ {k} # {}
      BY <2>1
    <3>2. Min({k}) \in {k}
      BY <3>1, FirstPosition
    <3> QED BY <2>1, <3>2
  <2>3. SelectInSeq(q, LAMBDA v : v.child = x) = k
    BY <1>2, <2>2 DEF SelectInSeq
  <2> QED BY <1>2, <2>3 DEF without, RemoveFirstMatch
<1> QED BY <1>1, <1>2

\* The children of a list of rows.
childrenOf(s) == [k \in DOMAIN s |-> s[k].child]

\* A listing, as a function on its positions.
LEMMA ListingFacts ==
  ASSUME NEW s \in Listing
  PROVE  /\ s \in Seq(Row) /\ Len(s) \in Nat /\ DOMAIN s = 1 .. Len(s)
         /\ \A k \in 1 .. Len(s) : s[k] \in Row /\ s[k].child \in Item /\ s[k].rank \in Rank
                                   /\ isValidRank(s[k].rank)
         /\ \A j, k \in 1 .. Len(s) : j < k =>
              s[j].child # s[k].child /\ sortsBefore(s[j].rank, s[k].rank)
         /\ \A j, k \in 1 .. Len(s) : s[j].child = s[k].child => j = k
         /\ childrenOf(s) \in Seq(Item) /\ Len(childrenOf(s)) = Len(s)
         /\ \A k \in 1 .. Len(s) : childrenOf(s)[k] = s[k].child
<1>1. s \in Seq(Row) /\ ascending(s)
  BY DEF Listing
<1>2. Len(s) \in Nat /\ DOMAIN s = 1 .. Len(s)
  BY <1>1, LenProperties
<1>3. \A k \in 1 .. Len(s) : s[k] \in Row
  BY <1>1, ElementOfSeq
<1>4. \A k \in 1 .. Len(s) : s[k].child \in Item /\ s[k].rank \in Rank /\ isValidRank(s[k].rank)
  BY <1>3 DEF Row
<1>5. \A j, k \in 1 .. Len(s) : j < k =>
        s[j].child # s[k].child /\ sortsBefore(s[j].rank, s[k].rank)
  BY <1>1, <1>2 DEF ascending
<1>6. \A j, k \in 1 .. Len(s) : s[j].child = s[k].child => j = k
  <2> DEFINE l == Len(s)
  <2>1. l \in Nat /\ \A j, k \in 1 .. l : j < k => s[j].child # s[k].child
    BY <1>2, <1>5
  <2> HIDE DEF l
  <2>2. \A j, k \in 1 .. l : j # k => j < k \/ k < j
    BY <2>1
  <2>3. \A j, k \in 1 .. l : s[j].child = s[k].child => j = k
    BY <2>1, <2>2
  <2> QED BY <2>3 DEF l
<1>7. /\ childrenOf(s) \in Seq(Item) /\ Len(childrenOf(s)) = Len(s)
      /\ \A k \in 1 .. Len(s) : childrenOf(s)[k] = s[k].child
  <2>1. childrenOf(s) = [k \in 1 .. Len(s) |-> s[k].child]
    BY <1>2 DEF childrenOf
  <2> QED BY <1>2, <1>4, <2>1
<1> QED BY <1>1, <1>2, <1>3, <1>4, <1>5, <1>6, <1>7

\* What makes a sequence of rows a listing.
LEMMA IsListing ==
  ASSUME NEW s \in Seq(Row),
         \A j, k \in 1 .. Len(s) : j < k =>
           s[j].child # s[k].child /\ sortsBefore(s[j].rank, s[k].rank)
  PROVE  s \in Listing
BY LenProperties DEF Listing, ascending

\* A set of rows has one listing, and inOrder chooses it.
LEMMA OnlyListing ==
  ASSUME NEW R, NEW s \in Listing, entries(s) = R
  PROVE  inOrder(R) = s
<1> DEFINE n == Len(s)
<1>0. /\ s \in Seq(Row) /\ n \in Nat /\ DOMAIN s = 1 .. n
      /\ \A k \in 1 .. n : s[k].rank \in Rank
      /\ \A j, k \in 1 .. n : j < k => s[j].child # s[k].child /\ sortsBefore(s[j].rank, s[k].rank)
      /\ \A j, k \in 1 .. n : s[j].child = s[k].child => j = k
  BY ListingFacts
<1>1. s \in [1 .. n -> R] /\ R = {s[k] : k \in 1 .. n}
  <2>1. R = {s[k] : k \in 1 .. n}
    BY <1>0 DEF entries
  <2>2. s = [k \in 1 .. n |-> s[k]]
    BY <1>0, LenProperties
  <2> QED BY <2>1, <2>2
<1> HIDE DEF n
<1>2. Cardinality(R) = n
  <2>1. \A j, k \in 1 .. n : s[j] = s[k] => j = k
    BY <1>0
  <2>2. s \in Bijection(1 .. n, R)
    BY <1>1, <2>1 DEF Bijection, Injection, Surjection, IsInjective
  <2>3. ExistsBijection(1 .. n, R)
    BY <2>2 DEF ExistsBijection
  <2> QED BY <1>0, <2>3, FS_CountingElements
<1>3. lists(s, R)
  <2>1. {s[k] : k \in DOMAIN s} = R
    BY <1>0, <1>1
  <2>2. ASSUME NEW j \in 1 .. n, NEW k \in 1 .. n, j < k
        PROVE  s[j] # s[k] /\ ~sortsBefore(s[k].rank, s[j].rank)
    <3>1. s[j].child # s[k].child /\ sortsBefore(s[j].rank, s[k].rank)
          /\ s[j].rank \in Rank /\ s[k].rank \in Rank
      BY <1>0, <2>2
    <3>2. ~sortsBefore(s[k].rank, s[j].rank)
      BY <3>1, Transitive, NotBeforeItself
    <3> QED BY <3>1, <3>2
  <2> QED BY <1>0, <2>1, <2>2 DEF lists
<1>4. ASSUME NEW t \in [1 .. n -> R], lists(t, R)
      PROVE  t = s
  <2> DEFINE D == {k \in 1 .. n : t[k] # s[k]}
  <2>0. /\ {t[k] : k \in 1 .. n} = R
        /\ \A j, k \in 1 .. n : j < k => t[j] # t[k] /\ ~sortsBefore(t[k].rank, t[j].rank)
    BY <1>4 DEF lists
  <2>1. ASSUME D # {} PROVE FALSE
    <3>1. D \in SUBSET Nat
      BY <1>0
    <3>2. PICK k \in D : \A m \in D : k <= m
      BY <2>1, <3>1, NatMin
    <3>3. k \in 1 .. n /\ t[k] # s[k] /\ \A m \in 1 .. n : m < k => t[m] = s[m]
      BY <1>0, <3>2
    <3>4. PICK j \in 1 .. n : t[k] = s[j]
      BY <1>1, <3>3
    <3>5. PICK l \in 1 .. n : s[k] = t[l]
      BY <1>1, <2>0, <3>3
    <3>6. k < j
      <4>1. ~(j < k)
        BY <2>0, <3>3, <3>4
      <4>2. j # k
        BY <3>3, <3>4
      <4> QED BY <1>0, <3>3, <4>1, <4>2
    <3>7. k < l
      <4>1. ~(l < k)
        <5> SUFFICES ASSUME l < k PROVE FALSE
          OBVIOUS
        <5>1. s[l] = s[k]
          BY <3>3, <3>5
        <5> QED BY <1>0, <3>3, <5>1
      <4>2. l # k
        BY <3>3, <3>5
      <4> QED BY <1>0, <3>3, <4>1, <4>2
    <3>8. sortsBefore(t[l].rank, t[k].rank)
      BY <1>0, <3>3, <3>4, <3>5, <3>6
    <3> QED BY <2>0, <3>3, <3>7, <3>8
  <2>2. \A k \in 1 .. n : t[k] = s[k]
    BY <2>1
  <2>3. t = [k \in 1 .. n |-> t[k]] /\ s = [k \in 1 .. n |-> s[k]]
    BY <1>1
  <2> QED BY <2>2, <2>3
<1>5. \E t \in [1 .. n -> R] : lists(t, R)
  BY <1>1, <1>3
<1>6. inOrder(R) = CHOOSE t \in [1 .. n -> R] : lists(t, R)
  BY <1>2 DEF inOrder
<1>7. inOrder(R) \in [1 .. n -> R] /\ lists(inOrder(R), R)
  BY <1>5, <1>6
<1> QED BY <1>4, <1>7

\* A slot of a listing gets a key between its neighbours (orderedNeighborsFromRows).
LEMMA SlotFits ==
  ASSUME NEW s \in Listing, NEW k \in 0 .. Len(s)
  PROVE  /\ fits(slotRank(s, k), before(s, k), after(s, k))
         /\ slotRank(s, k) \in Rank
<1> DEFINE n == Len(s)
           a == before(s, k)
           b == after(s, k)
<1>0. /\ n \in Nat /\ k \in Nat /\ k <= n
      /\ \A j \in 1 .. n : s[j].rank \in Rank /\ isValidRank(s[j].rank)
      /\ \A i, j \in 1 .. n : i < j => sortsBefore(s[i].rank, s[j].rank)
  BY ListingFacts
<1>1. <<>> \in Rank
  BY DEF Rank
<1>2. a \in Rank /\ (a # <<>> => k \in 1 .. n /\ a = s[k].rank /\ isValidRank(a))
  BY <1>0, <1>1 DEF before
<1>3. b \in Rank /\ (b # <<>> => k + 1 \in 1 .. n /\ b = s[k + 1].rank /\ isValidRank(b))
  BY <1>0, <1>1 DEF after
<1>4. a # <<>> /\ b # <<>> => sortsBefore(a, b)
  <2>1. k < k + 1
    BY <1>0
  <2> HIDE DEF n, a, b
  <2> QED BY <1>0, <1>2, <1>3, <2>1
<1> HIDE DEF a, b
<1>5. fits(rankBetween(a, b), a, b)
  BY <1>2, <1>3, <1>4, RankBetweenFits
<1>6. slotRank(s, k) = rankBetween(a, b)
  BY DEF slotRank, a, b
<1>7. rankBetween(a, b) \in Rank
  BY <1>5 DEF fits, isValidRank
<1> QED BY <1>5, <1>6, <1>7 DEF a, b

\* Every entry up to the slot is before its key, every later one after it.
LEMMA SlotOrder ==
  ASSUME NEW s \in Listing, NEW k \in 0 .. Len(s), NEW r \in Rank,
         fits(r, before(s, k), after(s, k))
  PROVE  /\ \A i \in 1 .. Len(s) : i <= k => sortsBefore(s[i].rank, r)
         /\ \A i \in 1 .. Len(s) : k < i => sortsBefore(r, s[i].rank)
<1> DEFINE n == Len(s)
<1>0. /\ n \in Nat /\ k \in Nat /\ k <= n
      /\ \A j \in 1 .. n : s[j].rank \in Rank /\ s[j].rank # <<>>
      /\ \A i, j \in 1 .. n : i < j => sortsBefore(s[i].rank, s[j].rank)
  BY ListingFacts DEF isValidRank
<1>1. k \in 1 .. n => sortsBefore(s[k].rank, r)
  BY <1>0 DEF fits, before
<1>2. k + 1 \in 1 .. n => sortsBefore(r, s[k + 1].rank)
  BY <1>0 DEF fits, after
<1> HIDE DEF n
<1>3. ASSUME NEW i \in 1 .. n, i <= k PROVE sortsBefore(s[i].rank, r)
  <2>1. k \in 1 .. n /\ (i = k \/ i < k)
    BY <1>0, <1>3
  <2> QED BY <1>0, <1>1, <2>1, Transitive
<1>4. ASSUME NEW i \in 1 .. n, k < i PROVE sortsBefore(r, s[i].rank)
  <2>1. k + 1 \in 1 .. n /\ (i = k + 1 \/ k + 1 < i)
    BY <1>0, <1>4
  <2> QED BY <1>0, <1>2, <2>1, Transitive
<1> QED BY <1>3, <1>4 DEF n

\* A row put into a slot of a listing.
LEMMA ListingInsert ==
  ASSUME NEW s \in Listing, NEW k \in 0 .. Len(s), NEW row \in Row, NEW m, m = k + 1,
         \A j \in 1 .. Len(s) : s[j].child # row.child,
         fits(row.rank, before(s, k), after(s, k))
  PROVE  /\ InsertAt(s, m, row) \in Listing
         /\ entries(InsertAt(s, m, row)) = entries(s) \cup {row}
         /\ childrenOf(InsertAt(s, m, row)) = InsertAt(childrenOf(s), m, row.child)
<1> DEFINE n == Len(s)
           t == InsertAt(s, m, row)
           c == childrenOf(s)
           d == InsertAt(c, m, row.child)
<1>row. row.child \in Item /\ row.rank \in Rank
  BY DEF Row
<1>0. /\ s \in Seq(Row) /\ n \in Nat /\ k \in Nat /\ k <= n /\ DOMAIN s = 1 .. n
      /\ row.child \in Item /\ row.rank \in Rank
      /\ \A j \in 1 .. n : s[j].rank \in Rank /\ s[j].child # row.child
      /\ \A i, j \in 1 .. n : i < j => s[i].child # s[j].child /\ sortsBefore(s[i].rank, s[j].rank)
      /\ c \in Seq(Item) /\ Len(c) = n /\ \A j \in 1 .. n : c[j] = s[j].child
  <2>1. k \in Nat /\ k <= n
    BY ListingFacts
  <2>2. s \in Seq(Row) /\ n \in Nat /\ DOMAIN s = 1 .. n /\ \A j \in 1 .. n : s[j].rank \in Rank
    BY ListingFacts
  <2>3. \A i, j \in 1 .. n : i < j => s[i].child # s[j].child /\ sortsBefore(s[i].rank, s[j].rank)
    BY ListingFacts
  <2>4. c \in Seq(Item) /\ Len(c) = n /\ \A j \in 1 .. n : c[j] = s[j].child
    BY ListingFacts
  <2> HIDE DEF c
  <2> QED BY <1>row, <2>1, <2>2, <2>3, <2>4
<1>1. /\ t \in Seq(Row) /\ Len(t) = n + 1
      /\ \A i \in 1 .. n + 1 : t[i] = IF i <= k THEN s[i] ELSE IF i = k + 1 THEN row ELSE s[i - 1]
  <2>1. s \in Seq(Row)
    BY <1>0
  <2> HIDE DEF c, d
  <2> QED BY <2>1, InsertFacts
<1>2. /\ d \in Seq(Item) /\ Len(d) = n + 1
      /\ \A i \in 1 .. n + 1 : d[i] = IF i <= k THEN c[i] ELSE IF i = k + 1 THEN row.child ELSE c[i - 1]
  <2> DEFINE x == row.child
  <2>1. c \in Seq(Item) /\ k \in 0 .. Len(c) /\ x \in Item /\ Len(c) = n
    BY <1>0
  <2> HIDE DEF c, d, x, n, t
  <2>2. \A q \in Seq(Item), y \in Item : k \in 0 .. Len(q) =>
          /\ InsertAt(q, m, y) \in Seq(Item) /\ Len(InsertAt(q, m, y)) = Len(q) + 1
          /\ \A i \in 1 .. Len(q) + 1 :
               InsertAt(q, m, y)[i] = IF i <= k THEN q[i] ELSE IF i = k + 1 THEN y ELSE q[i - 1]
    BY InsertFacts
  <2>3. d = InsertAt(c, m, x)
    BY DEF x, d
  <2> HIDE DEF d
  <2> QED BY <2>1, <2>2, <2>3 DEF x
<1>3. /\ \A i \in 1 .. n : i <= k => sortsBefore(s[i].rank, row.rank)
      /\ \A i \in 1 .. n : k < i => sortsBefore(row.rank, s[i].rank)
  BY <1>0, SlotOrder
<1>4. DOMAIN t = 1 .. n + 1
  BY <1>1, LenProperties
<1> HIDE DEF t, n, c, d
<1>5. ASSUME NEW i \in 1 .. n + 1, NEW j \in 1 .. n + 1, i < j
      PROVE  t[i].child # t[j].child /\ sortsBefore(t[i].rank, t[j].rank)
  <2>1. CASE j <= k
    <3>1. i \in 1 .. n /\ j \in 1 .. n /\ t[i] = s[i] /\ t[j] = s[j]
      BY <1>0, <1>1, <1>5, <2>1
    <3> QED BY <1>0, <1>5, <3>1
  <2>2. CASE j = k + 1
    <3>1. i \in 1 .. n /\ i <= k /\ t[i] = s[i] /\ t[j] = row
      BY <1>0, <1>1, <1>5, <2>2
    <3> QED BY <1>0, <1>3, <3>1
  <2>3. CASE k + 1 < j /\ i <= k
    <3>1. i \in 1 .. n /\ j - 1 \in 1 .. n /\ i < j - 1 /\ t[i] = s[i] /\ t[j] = s[j - 1]
      BY <1>0, <1>1, <1>5, <2>3
    <3> QED BY <1>0, <3>1
  <2>4. CASE k + 1 < j /\ i = k + 1
    <3>1. j - 1 \in 1 .. n /\ k < j - 1 /\ t[i] = row /\ t[j] = s[j - 1]
      BY <1>0, <1>1, <1>5, <2>4
    <3> QED BY <1>0, <1>3, <3>1
  <2>5. CASE k + 1 < j /\ k + 1 < i
    <3>1. i - 1 \in 1 .. n /\ j - 1 \in 1 .. n /\ i - 1 < j - 1 /\ t[i] = s[i - 1] /\ t[j] = s[j - 1]
      BY <1>0, <1>1, <1>5, <2>5
    <3> QED BY <1>0, <3>1
  <2>6. (j <= k \/ j = k + 1 \/ k + 1 < j) /\ (i <= k \/ i = k + 1 \/ k + 1 < i)
    BY <1>0
  <2> QED BY <2>1, <2>2, <2>3, <2>4, <2>5, <2>6
<1>6. t \in Listing
  BY <1>1, <1>5, IsListing
<1>7. entries(t) = entries(s) \cup {row}
  <2>1. ASSUME NEW i \in 1 .. n + 1 PROVE t[i] \in entries(s) \cup {row}
    <3>1. t[i] = row \/ \E j \in 1 .. n : t[i] = s[j]
      <4>1. CASE i <= k
        BY <1>0, <1>1, <4>1
      <4>2. CASE k + 1 < i
        <5>1. i - 1 \in 1 .. n
          BY <1>0, <4>2
        <5>2. t[i] = s[i - 1]
          BY <1>0, <1>1, <4>2
        <5> QED BY <5>1, <5>2
      <4>3. CASE i = k + 1
        BY <1>0, <1>1, <4>3
      <4> QED BY <1>0, <4>1, <4>2, <4>3
    <3> QED BY <1>0, <3>1 DEF entries
  <2>2. ASSUME NEW i \in 1 .. n PROVE s[i] \in entries(t)
    <3>1. CASE i <= k
      <4>1. i \in 1 .. n + 1 /\ t[i] = s[i]
        BY <1>0, <1>1, <3>1
      <4> QED BY <1>4, <4>1 DEF entries
    <3>2. CASE k < i
      <4>1. i + 1 \in 1 .. n + 1 /\ ~(i + 1 <= k) /\ i + 1 # k + 1 /\ i + 1 - 1 = i
        BY <1>0, <3>2
      <4>2. t[i + 1] = s[i]
        BY <1>1, <4>1
      <4> QED BY <1>4, <4>1, <4>2 DEF entries
    <3> QED BY <1>0, <3>1, <3>2
  <2>3. row \in entries(t)
    <3>1. k + 1 \in 1 .. n + 1 /\ ~(k + 1 <= k)
      BY <1>0
    <3>2. t[k + 1] = row
      BY <1>1, <3>1
    <3> QED BY <1>4, <3>1, <3>2 DEF entries
  <2> QED BY <1>0, <1>4, <2>1, <2>2, <2>3 DEF entries
<1>8. childrenOf(t) = d
  <2>1. /\ childrenOf(t) \in Seq(Item) /\ Len(childrenOf(t)) = n + 1
        /\ \A i \in 1 .. n + 1 : childrenOf(t)[i] = t[i].child
    BY <1>1, <1>6, ListingFacts
  <2>2. ASSUME NEW i \in 1 .. n + 1 PROVE t[i].child = d[i]
    <3>1. CASE i <= k
      <4>1. i \in 1 .. n
        BY <1>0, <3>1
      <4> QED BY <1>0, <1>1, <1>2, <3>1, <4>1
    <3>2. CASE i = k + 1
      <4>1. ~(i <= k)
        BY <1>0, <3>2
      <4> QED BY <1>1, <1>2, <3>2, <4>1
    <3>3. CASE k + 1 < i
      <4>1. i - 1 \in 1 .. n /\ ~(i <= k) /\ i # k + 1
        BY <1>0, <3>3
      <4> QED BY <1>0, <1>1, <1>2, <4>1
    <3> QED BY <1>0, <3>1, <3>2, <3>3
  <2> QED BY <1>2, <2>1, <2>2, SeqEqual
<1> QED BY <1>6, <1>7, <1>8 DEF t, c, d

\* A row taken out of a listing.
LEMMA ListingDrop ==
  ASSUME NEW s \in Listing, NEW k \in 1 .. Len(s)
  PROVE  /\ RemoveAt(s, k) \in Listing /\ Len(RemoveAt(s, k)) = Len(s) - 1
         /\ entries(RemoveAt(s, k)) = entries(s) \ {s[k]}
         /\ childrenOf(RemoveAt(s, k)) = RemoveAt(childrenOf(s), k)
<1> DEFINE n == Len(s)
           t == RemoveAt(s, k)
           c == childrenOf(s)
           d == RemoveAt(c, k)
<1>0. /\ s \in Seq(Row) /\ n \in Nat /\ k \in Nat /\ 1 <= k /\ k <= n /\ DOMAIN s = 1 .. n
      /\ \A i, j \in 1 .. n : i < j => s[i].child # s[j].child /\ sortsBefore(s[i].rank, s[j].rank)
      /\ \A i, j \in 1 .. n : s[i].child = s[j].child => i = j
      /\ c \in Seq(Item) /\ Len(c) = n /\ \A j \in 1 .. n : c[j] = s[j].child
  BY ListingFacts
<1>1. /\ t \in Seq(Row) /\ Len(t) = n - 1
      /\ \A i \in 1 .. n - 1 : t[i] = IF i < k THEN s[i] ELSE s[i + 1]
  BY <1>0, DropFacts
<1>2. /\ d \in Seq(Item) /\ Len(d) = n - 1
      /\ \A i \in 1 .. n - 1 : d[i] = IF i < k THEN c[i] ELSE c[i + 1]
  <2>1. c \in Seq(Item) /\ k \in 1 .. Len(c) /\ Len(c) = n
    BY <1>0
  <2> HIDE DEF c, n, t
  <2>2. /\ RemoveAt(c, k) \in Seq(Item) /\ Len(RemoveAt(c, k)) = Len(c) - 1
        /\ \A i \in 1 .. Len(c) - 1 : RemoveAt(c, k)[i] = IF i < k THEN c[i] ELSE c[i + 1]
    BY <2>1, DropFacts
  <2>3. d = RemoveAt(c, k)
    OBVIOUS
  <2> HIDE DEF d
  <2> QED BY <2>1, <2>2, <2>3
<1>3. DOMAIN t = 1 .. n - 1
  BY <1>1, LenProperties
<1> HIDE DEF t, n, c, d
<1>4. ASSUME NEW i \in 1 .. n - 1, NEW j \in 1 .. n - 1, i < j
      PROVE  t[i].child # t[j].child /\ sortsBefore(t[i].rank, t[j].rank)
  <2>1. CASE j < k
    <3>1. i \in 1 .. n /\ j \in 1 .. n /\ t[i] = s[i] /\ t[j] = s[j]
      BY <1>0, <1>1, <1>4, <2>1
    <3> QED BY <1>0, <1>4, <3>1
  <2>2. CASE ~(j < k) /\ i < k
    <3>1. i \in 1 .. n /\ j + 1 \in 1 .. n /\ i < j + 1 /\ t[i] = s[i] /\ t[j] = s[j + 1]
      BY <1>0, <1>1, <1>4, <2>2
    <3> QED BY <1>0, <3>1
  <2>3. CASE ~(j < k) /\ ~(i < k)
    <3>1. i + 1 \in 1 .. n /\ j + 1 \in 1 .. n /\ i + 1 < j + 1 /\ t[i] = s[i + 1] /\ t[j] = s[j + 1]
      BY <1>0, <1>1, <1>4, <2>3
    <3> QED BY <1>0, <3>1
  <2> QED BY <2>1, <2>2, <2>3
<1>5. t \in Listing
  BY <1>1, <1>4, IsListing
<1>6. entries(t) = entries(s) \ {s[k]}
  <2>1. ASSUME NEW i \in 1 .. n - 1 PROVE t[i] \in entries(s) /\ t[i] # s[k]
    <3>1. PICK j \in 1 .. n : t[i] = s[j] /\ j # k
      <4>1. CASE i < k
        <5>1. i \in 1 .. n /\ i # k /\ t[i] = s[i]
          BY <1>0, <1>1, <4>1
        <5> QED BY <5>1
      <4>2. CASE ~(i < k)
        <5>1. i + 1 \in 1 .. n /\ i + 1 # k /\ t[i] = s[i + 1]
          BY <1>0, <1>1, <4>2
        <5> QED BY <5>1
      <4> QED BY <4>1, <4>2
    <3>2. s[j] # s[k]
      BY <1>0, <3>1
    <3> QED BY <1>0, <3>1, <3>2 DEF entries
  <2>2. ASSUME NEW i \in 1 .. n, s[i] # s[k] PROVE s[i] \in entries(t)
    <3>1. CASE i < k
      <4>1. i \in 1 .. n - 1 /\ t[i] = s[i]
        BY <1>0, <1>1, <3>1
      <4> QED BY <1>3, <4>1 DEF entries
    <3>2. CASE k < i
      <4>1. i - 1 \in 1 .. n - 1 /\ ~(i - 1 < k) /\ i - 1 + 1 = i
        BY <1>0, <3>2
      <4>2. t[i - 1] = s[i]
        BY <1>1, <4>1
      <4> QED BY <1>3, <4>1, <4>2 DEF entries
    <3>3. i # k
      BY <2>2
    <3> QED BY <1>0, <3>1, <3>2, <3>3
  <2> QED BY <1>0, <1>3, <2>1, <2>2 DEF entries
<1>7. childrenOf(t) = d
  <2>1. /\ childrenOf(t) \in Seq(Item) /\ Len(childrenOf(t)) = n - 1
        /\ \A i \in 1 .. n - 1 : childrenOf(t)[i] = t[i].child
    BY <1>1, <1>5, ListingFacts
  <2>2. ASSUME NEW i \in 1 .. n - 1 PROVE t[i].child = d[i]
    <3>1. CASE i < k
      <4>1. i \in 1 .. n
        BY <1>0, <3>1
      <4> QED BY <1>0, <1>1, <1>2, <3>1, <4>1
    <3>2. CASE ~(i < k)
      <4>1. i + 1 \in 1 .. n
        BY <1>0, <3>2
      <4> QED BY <1>0, <1>1, <1>2, <3>2, <4>1
    <3> QED BY <3>1, <3>2
  <2> QED BY <1>2, <2>1, <2>2, SeqEqual
<1> QED BY <1>1, <1>5, <1>6, <1>7 DEF t, c, d, n

\* A listing followed by one whose children are others and whose keys are higher.
LEMMA ListingConcat ==
  ASSUME NEW s \in Listing, NEW m \in Listing,
         \A i \in 1 .. Len(s), j \in 1 .. Len(m) :
           s[i].child # m[j].child /\ sortsBefore(s[i].rank, m[j].rank)
  PROVE  /\ s \o m \in Listing /\ entries(s \o m) = entries(s) \cup entries(m)
         /\ childrenOf(s \o m) = childrenOf(s) \o childrenOf(m)
<1> DEFINE l == Len(s)
           n == Len(m)
           t == s \o m
           c == childrenOf(s)
           d == childrenOf(m)
           e == c \o d
<1>1. /\ s \in Seq(Row) /\ l \in Nat /\ DOMAIN s = 1 .. l
      /\ \A i, j \in 1 .. l : i < j => s[i].child # s[j].child /\ sortsBefore(s[i].rank, s[j].rank)
      /\ c \in Seq(Item) /\ Len(c) = l /\ \A j \in 1 .. l : c[j] = s[j].child
  BY ListingFacts
<1>2. /\ m \in Seq(Row) /\ n \in Nat /\ DOMAIN m = 1 .. n
      /\ \A i, j \in 1 .. n : i < j => m[i].child # m[j].child /\ sortsBefore(m[i].rank, m[j].rank)
      /\ d \in Seq(Item) /\ Len(d) = n /\ \A j \in 1 .. n : d[j] = m[j].child
  BY ListingFacts
<1>3. \A i \in 1 .. l, j \in 1 .. n : s[i].child # m[j].child /\ sortsBefore(s[i].rank, m[j].rank)
  OBVIOUS
<1>4. /\ t \in Seq(Row) /\ Len(t) = l + n
      /\ \A i \in 1 .. l + n : t[i] = IF i <= l THEN s[i] ELSE m[i - l]
  <2> HIDE DEF c, d, e
  <2> QED BY <1>1, <1>2, ConcatProperties
<1>5. /\ e \in Seq(Item) /\ Len(e) = l + n
      /\ \A i \in 1 .. l + n : e[i] = IF i <= l THEN c[i] ELSE d[i - l]
  <2> HIDE DEF c, d, t
  <2>0. \A q, r \in Seq(Item) :
          /\ q \o r \in Seq(Item) /\ Len(q \o r) = Len(q) + Len(r)
          /\ \A i \in 1 .. Len(q) + Len(r) : (q \o r)[i] = IF i <= Len(q) THEN q[i] ELSE r[i - Len(q)]
    BY ConcatProperties
  <2>1. /\ e \in Seq(Item) /\ Len(e) = Len(c) + Len(d)
        /\ \A i \in 1 .. Len(c) + Len(d) : e[i] = IF i <= Len(c) THEN c[i] ELSE d[i - Len(c)]
    BY <1>1, <1>2, <2>0
  <2> HIDE DEF e, l, n
  <2> QED BY <1>1, <1>2, <2>1
<1>6. DOMAIN t = 1 .. l + n
  BY <1>4, LenProperties
<1> HIDE DEF t, l, n, c, d, e
<1>7. ASSUME NEW i \in 1 .. l + n, NEW j \in 1 .. l + n, i < j
      PROVE  t[i].child # t[j].child /\ sortsBefore(t[i].rank, t[j].rank)
  <2>1. CASE j <= l
    <3>1. i \in 1 .. l /\ j \in 1 .. l /\ t[i] = s[i] /\ t[j] = s[j]
      BY <1>1, <1>2, <1>4, <1>7, <2>1
    <3> QED BY <1>1, <1>7, <3>1
  <2>2. CASE l < j /\ i <= l
    <3>1. i \in 1 .. l /\ j - l \in 1 .. n /\ t[i] = s[i] /\ t[j] = m[j - l]
      BY <1>1, <1>2, <1>4, <2>2
    <3> QED BY <1>3, <3>1
  <2>3. CASE l < i
    <3>1. i - l \in 1 .. n /\ j - l \in 1 .. n /\ i - l < j - l /\ t[i] = m[i - l] /\ t[j] = m[j - l]
      BY <1>1, <1>2, <1>4, <1>7, <2>3
    <3> QED BY <1>2, <3>1
  <2>4. i \in Int /\ j \in Int /\ l \in Int
    BY <1>1
  <2> QED BY <2>1, <2>2, <2>3, <2>4
<1>8. t \in Listing
  BY <1>4, <1>7, IsListing
<1>9. entries(t) = entries(s) \cup entries(m)
  <2>1. ASSUME NEW i \in 1 .. l + n PROVE t[i] \in entries(s) \cup entries(m)
    <3>1. CASE i <= l
      <4>1. i \in 1 .. l /\ t[i] = s[i]
        BY <1>1, <1>4, <3>1
      <4> QED BY <1>1, <4>1 DEF entries
    <3>2. CASE l < i
      <4>1. i - l \in 1 .. n /\ t[i] = m[i - l]
        BY <1>1, <1>2, <1>4, <3>2
      <4> QED BY <1>2, <4>1 DEF entries
    <3>3. i \in Int /\ l \in Int
      BY <1>1
    <3> QED BY <3>1, <3>2, <3>3
  <2>2. ASSUME NEW i \in 1 .. l PROVE s[i] \in entries(t)
    <3>1. i \in 1 .. l + n /\ t[i] = s[i]
      BY <1>1, <1>2, <1>4
    <3> QED BY <1>6, <3>1 DEF entries
  <2>3. ASSUME NEW i \in 1 .. n PROVE m[i] \in entries(t)
    <3> DEFINE j == i + l
    <3>1. j \in 1 .. l + n /\ ~(j <= l) /\ j - l = i
      BY <1>1, <1>2
    <3> HIDE DEF j
    <3>2. t[j] = m[i]
      BY <1>4, <3>1
    <3> QED BY <1>6, <3>1, <3>2 DEF entries
  <2>4. entries(t) = {t[i] : i \in 1 .. l + n} /\ entries(s) = {s[i] : i \in 1 .. l}
        /\ entries(m) = {m[i] : i \in 1 .. n}
    BY <1>1, <1>2, <1>6 DEF entries
  <2> QED BY <2>1, <2>2, <2>3, <2>4
<1>10. childrenOf(t) = e
  <2>1. /\ childrenOf(t) \in Seq(Item) /\ Len(childrenOf(t)) = l + n
        /\ \A i \in 1 .. l + n : childrenOf(t)[i] = t[i].child
    BY <1>4, <1>8, ListingFacts
  <2>2. ASSUME NEW i \in 1 .. l + n PROVE t[i].child = e[i]
    <3>1. CASE i <= l
      <4>1. i \in 1 .. l
        BY <1>1, <3>1
      <4> QED BY <1>1, <1>4, <1>5, <3>1, <4>1
    <3>2. CASE l < i
      <4>1. i - l \in 1 .. n /\ ~(i <= l)
        BY <1>1, <1>2, <3>2
      <4> QED BY <1>2, <1>4, <1>5, <4>1
    <3>3. i \in Int /\ l \in Int
      BY <1>1
    <3> QED BY <3>1, <3>2, <3>3
  <2> QED BY <1>5, <2>1, <2>2, SeqEqual
<1> QED BY <1>8, <1>9, <1>10 DEF t, c, d, e

\* A child of a listing is at its index.
LEMMA IndexOfChild ==
  ASSUME NEW s \in Listing, NEW k \in 1 .. Len(s)
  PROVE  indexOf(s, s[k].child) = k
<1> DEFINE T == {1} \cup {j \in DOMAIN s : s[j].child = s[k].child}
<1>1. DOMAIN s = 1 .. Len(s) /\ \A j \in 1 .. Len(s) : s[j].child = s[k].child => j = k
  BY ListingFacts
<1>2. T = {1, k} /\ k \in Nat /\ k >= 1
  BY <1>1
<1> HIDE DEF T
<1>3. Max(T) = k
  <2>1. \A x \in T : (\A y \in T : x >= y) <=> x = k
    BY <1>2
  <2> QED BY <1>2, <2>1 DEF Max
<1> QED BY <1>3 DEF indexOf, T

\* The recursion that defines the appended keys has a solution, by induction on
\* its length: the least length without one would extend the solution before it.
LEMMA AppendedIsDefined ==
  ASSUME NEW last, NEW n \in Nat
  PROVE  appended(last, n) = [m \in 0 .. n |->
           IF m = 0 THEN last ELSE rankBetween(appended(last, n)[m - 1], <<>>)]
<1> DEFINE keys(f, l) == f = [m \in 0 .. l |-> IF m = 0 THEN last ELSE rankBetween(f[m - 1], <<>>)]
           T == {l \in Nat : ~\E f : keys(f, l)}
<1>1. ASSUME T # {} PROVE FALSE
  <2>1. T \in SUBSET Nat
    OBVIOUS
  <2>2. PICK l \in T : \A j \in T : l <= j
    <3> HIDE DEF T
    <3> QED BY <1>1, <2>1, NatMin
  <2>3. l \in Nat /\ ~\E f : keys(f, l)
    BY <2>2
  <2>4. CASE l = 0
    <3> DEFINE g == [m \in 0 .. 0 |-> last]
    <3>1. keys(g, 0)
      OBVIOUS
    <3> HIDE DEF keys
    <3> QED BY <2>3, <2>4, <3>1
  <2>5. CASE l # 0
    <3>1. l - 1 \in Nat /\ ~(l <= l - 1)
      BY <2>3, <2>5
    <3>2. PICK f : keys(f, l - 1)
      <4> HIDE DEF keys
      <4> QED BY <2>2, <3>1
    <3> DEFINE g == [m \in 0 .. l |-> IF m = 0 THEN last ELSE rankBetween(f[m - 1], <<>>)]
    <3>3. \A m \in 0 .. l - 1 : f[m] = g[m]
      BY <2>3, <3>1, <3>2
    <3>4. \A m \in 0 .. l : m # 0 => f[m - 1] = g[m - 1]
      <4>1. \A m \in 0 .. l : m # 0 => m - 1 \in 0 .. l - 1
        BY <2>3
      <4> HIDE DEF g, keys
      <4> QED BY <3>3, <4>1
    <3>5. \A m \in 0 .. l : g[m] = IF m = 0 THEN last ELSE rankBetween(g[m - 1], <<>>)
      <4>1. \A m \in 0 .. l : g[m] = IF m = 0 THEN last ELSE rankBetween(f[m - 1], <<>>)
        OBVIOUS
      <4> HIDE DEF g, keys
      <4> QED BY <3>4, <4>1
    <3>6. g = [m \in 0 .. l |-> g[m]]
      OBVIOUS
    <3> HIDE DEF g
    <3>7. keys(g, l)
      BY <3>5, <3>6
    <3> HIDE DEF keys
    <3> QED BY <2>3, <3>7
  <2> QED BY <2>4, <2>5
<1>2. \E f : keys(f, n)
  BY <1>1
<1>3. appended(last, n) = CHOOSE f : keys(f, n)
  BY DEF appended
<1>4. keys(appended(last, n), n)
  <2> HIDE DEF keys
  <2> QED BY <1>2, <1>3
<1> QED BY <1>4

\* The keys of rows appended one by one: each is comparison-safe and after the
\* ones before it.
LEMMA AppendedKeys ==
  ASSUME NEW last \in Rank, last # <<>> => isValidRank(last), NEW n \in Nat
  PROVE  /\ appended(last, n)[0] = last
         /\ \A m \in 1 .. n : appended(last, n)[m] \in Rank /\ isValidRank(appended(last, n)[m])
         /\ \A i \in 0 .. n, j \in 1 .. n : i < j /\ appended(last, n)[i] # <<>> =>
              sortsBefore(appended(last, n)[i], appended(last, n)[j])
<1> DEFINE key == appended(last, n)
<1>1. key[0] = last /\ \A m \in 1 .. n : key[m] = rankBetween(key[m - 1], <<>>)
  <2>1. key = [m \in 0 .. n |-> IF m = 0 THEN last ELSE rankBetween(key[m - 1], <<>>)]
    BY AppendedIsDefined
  <2> HIDE DEF key
  <2>2. \A m \in 0 .. n : key[m] = IF m = 0 THEN last ELSE rankBetween(key[m - 1], <<>>)
    BY <2>1
  <2>3. 0 \in 0 .. n /\ \A m \in 1 .. n : m \in 0 .. n /\ m # 0
    OBVIOUS
  <2> QED BY <2>2, <2>3
<1> HIDE DEF key
<1>2. <<>> \in Rank
  BY DEF Rank
<1> DEFINE good(m) == key[m] \in Rank /\ isValidRank(key[m])
<1>3. ASSUME NEW a \in Rank, a # <<>> => isValidRank(a)
      PROVE  LET r == rankBetween(a, <<>>)
             IN  r \in Rank /\ isValidRank(r) /\ (a # <<>> => sortsBefore(a, r))
  <2>1. fits(rankBetween(a, <<>>), a, <<>>)
    BY <1>2, <1>3, RankBetweenFits
  <2> QED BY <2>1 DEF fits, isValidRank
<1>4. \A m \in 1 .. n : good(m)
  <2> DEFINE T == {m \in 1 .. n : ~good(m)}
  <2>1. ASSUME T # {} PROVE FALSE
    <3>1. T \in SUBSET Nat
      OBVIOUS
    <3>2. PICK m \in T : \A j \in T : m <= j
      <4> HIDE DEF T
      <4> QED BY <2>1, <3>1, NatMin
    <3>3. m \in 1 .. n /\ ~good(m) /\ \A j \in 1 .. n : ~(m <= j) => good(j)
      BY <3>2
    <3> HIDE DEF good
    <3>4. key[m - 1] \in Rank /\ (key[m - 1] # <<>> => isValidRank(key[m - 1]))
      <4>1. CASE m = 1
        <5>1. m - 1 = 0
          BY <4>1
        <5> QED BY <1>1, <5>1
      <4>2. CASE m # 1
        <5>1. m - 1 \in 1 .. n /\ ~(m <= m - 1)
          BY <3>3, <4>2
        <5>2. good(m - 1)
          BY <3>3, <5>1
        <5> QED BY <5>2 DEF good
      <4> QED BY <4>1, <4>2
    <3>5. good(m)
      <4> DEFINE a == key[m - 1]
      <4>1. key[m] = rankBetween(a, <<>>)
        BY <1>1, <3>3
      <4>2. a \in Rank /\ (a # <<>> => isValidRank(a))
        BY <3>4
      <4> HIDE DEF a
      <4> QED BY <1>3, <4>1, <4>2 DEF good
    <3> QED BY <3>3, <3>5
  <2> QED BY <2>1
<1>5. ASSUME NEW m \in 1 .. n
      PROVE  m - 1 \in 0 .. n /\ (key[m - 1] # <<>> => sortsBefore(key[m - 1], key[m]))
  <2> DEFINE a == key[m - 1]
  <2>1. m - 1 \in 0 .. n /\ (m - 1 = 0 \/ m - 1 \in 1 .. n)
    OBVIOUS
  <2>2. a \in Rank /\ (a # <<>> => isValidRank(a))
    BY <1>1, <1>4, <2>1
  <2>3. key[m] = rankBetween(a, <<>>)
    BY <1>1
  <2> HIDE DEF a
  <2>4. a # <<>> => sortsBefore(a, key[m])
    BY <1>3, <2>2, <2>3
  <2> QED BY <2>1, <2>4 DEF a
<1>6. ASSUME NEW i \in 0 .. n, key[i] # <<>>
      PROVE  \A j \in 1 .. n : i < j => sortsBefore(key[i], key[j])
  <2> DEFINE T == {j \in 1 .. n : i < j /\ ~sortsBefore(key[i], key[j])}
  <2>1. ASSUME T # {} PROVE FALSE
    <3>1. T \in SUBSET Nat
      OBVIOUS
    <3>2. PICK j \in T : \A m \in T : j <= m
      <4> HIDE DEF T
      <4> QED BY <2>1, <3>1, NatMin
    <3>3. /\ j \in 1 .. n /\ i < j /\ ~sortsBefore(key[i], key[j])
          /\ \A m \in 1 .. n : i < m /\ ~(j <= m) => sortsBefore(key[i], key[m])
      BY <3>2
    <3> HIDE DEF T, good
    <3> DEFINE p == j - 1
    <3>4. p = i \/ (p \in 1 .. n /\ i < p /\ ~(j <= p))
      BY <3>3
    <3>5. key[p] # <<>> => sortsBefore(key[p], key[j])
      BY <1>5, <3>3
    <3> HIDE DEF p
    <3>6. CASE p = i
      BY <1>6, <3>3, <3>5, <3>6
    <3>7. CASE p \in 1 .. n /\ i < p /\ ~(j <= p)
      <4>1. sortsBefore(key[i], key[p])
        BY <3>3, <3>7
      <4>2. key[p] \in Rank /\ key[p] # <<>> /\ key[j] \in Rank
        BY <1>4, <3>3, <3>7 DEF good, isValidRank
      <4>3. key[i] \in Rank
        <5>1. i = 0 \/ i \in 1 .. n
          OBVIOUS
        <5> QED BY <1>1, <1>4, <5>1 DEF good
      <4> QED BY <3>3, <3>5, <4>1, <4>2, <4>3, Transitive
    <3> QED BY <3>4, <3>6, <3>7
  <2> QED BY <2>1
<1> QED BY <1>1, <1>4, <1>6 DEF key

\* The rows of a removed item's children, with the keys they get behind the rows
\* of its parent.
LEMMA AppendedRows ==
  ASSUME NEW s \in Listing, NEW m \in Listing
  PROVE  LET key == appended(before(s, Len(s)), Len(m))
             u == [j \in 1 .. Len(m) |-> [child |-> m[j].child, rank |-> key[j]]]
         IN  /\ u \in Listing /\ Len(u) = Len(m) /\ childrenOf(u) = childrenOf(m)
             /\ entries(u) = {[child |-> m[j].child, rank |-> key[j]] : j \in 1 .. Len(m)}
             /\ \A i \in 1 .. Len(s), j \in 1 .. Len(m) : sortsBefore(s[i].rank, u[j].rank)
<1> DEFINE last == before(s, Len(s))
           l == Len(s)
           n == Len(m)
           key == appended(last, n)
           u == [j \in 1 .. n |-> [child |-> m[j].child, rank |-> key[j]]]
<1>1. /\ l \in Nat /\ \A i \in 1 .. l : s[i].rank \in Rank /\ isValidRank(s[i].rank)
      /\ \A i, j \in 1 .. l : i < j => sortsBefore(s[i].rank, s[j].rank)
  BY ListingFacts
<1>2. /\ n \in Nat /\ \A j \in 1 .. n : m[j].child \in Item
      /\ \A i, j \in 1 .. n : i < j => m[i].child # m[j].child
      /\ childrenOf(m) \in Seq(Item) /\ Len(childrenOf(m)) = n
      /\ \A j \in 1 .. n : childrenOf(m)[j] = m[j].child
  BY ListingFacts
<1>3. last = IF l > 0 THEN s[l].rank ELSE <<>>
  BY DEF before
<1>4. last \in Rank /\ (last # <<>> => isValidRank(last))
  <2>1. <<>> \in Rank
    BY DEF Rank
  <2> HIDE DEF last, l
  <2> QED BY <1>1, <1>3, <2>1
<1> HIDE DEF last, l, n
<1>5. /\ key[0] = last
      /\ \A j \in 1 .. n : key[j] \in Rank /\ isValidRank(key[j])
      /\ \A i \in 0 .. n, j \in 1 .. n : i < j /\ key[i] # <<>> => sortsBefore(key[i], key[j])
  BY <1>2, <1>4, AppendedKeys
<1> HIDE DEF key
<1>6. \A j \in 1 .. n : u[j] = [child |-> m[j].child, rank |-> key[j]]
  OBVIOUS
<1>c. \A j \in 1 .. n : u[j].child = m[j].child /\ u[j].rank = key[j]
  <2> SUFFICES ASSUME NEW j \in 1 .. n
               PROVE  u[j].child = m[j].child /\ u[j].rank = key[j]
    OBVIOUS
  <2> DEFINE x == m[j].child
             y == key[j]
  <2>1. u[j] = [child |-> x, rank |-> y]
    BY <1>6
  <2> HIDE DEF x, y, u
  <2>2. u[j].child = x /\ u[j].rank = y
    BY <2>1
  <2> QED BY <2>2 DEF x, y
<1>7. u \in Seq(Row) /\ Len(u) = n /\ DOMAIN u = 1 .. n
  <2>1. \A j \in 1 .. n : [child |-> m[j].child, rank |-> key[j]] \in Row
    BY <1>2, <1>5 DEF Row
  <2> QED BY <1>2, <2>1
<1> HIDE DEF u
<1>8. ASSUME NEW i \in 1 .. n, NEW j \in 1 .. n, i < j
      PROVE  u[i].child # u[j].child /\ sortsBefore(u[i].rank, u[j].rank)
  <2>1. u[i].child = m[i].child /\ u[j].child = m[j].child /\ u[i].rank = key[i] /\ u[j].rank = key[j]
    BY <1>c
  <2>2. i \in 0 .. n /\ key[i] # <<>>
    BY <1>5 DEF isValidRank
  <2> QED BY <1>2, <1>5, <1>8, <2>1, <2>2
<1>9. u \in Listing
  BY <1>7, <1>8, IsListing
<1>10. childrenOf(u) = childrenOf(m)
  <2>1. /\ childrenOf(u) \in Seq(Item) /\ Len(childrenOf(u)) = n
        /\ \A i \in 1 .. n : childrenOf(u)[i] = u[i].child
    BY <1>7, <1>9, ListingFacts
  <2>2. \A i \in 1 .. n : u[i].child = m[i].child
    BY <1>c
  <2> QED BY <1>2, <2>1, <2>2, SeqEqual
<1>11. entries(u) = {[child |-> m[j].child, rank |-> key[j]] : j \in 1 .. n}
  BY <1>6, <1>7 DEF entries
<1>12. ASSUME NEW i \in 1 .. l, NEW j \in 1 .. n
       PROVE  sortsBefore(s[i].rank, u[j].rank)
  <2>1. l \in 1 .. l /\ last = s[l].rank /\ (i = l \/ i < l)
    BY <1>1, <1>3
  <2>2. last # <<>> /\ last \in Rank
    BY <1>1, <2>1 DEF isValidRank
  <2>3. 0 \in 0 .. n /\ 0 < j
    BY <1>2
  <2>4. sortsBefore(last, key[j]) /\ key[j] \in Rank
    BY <1>5, <2>2, <2>3
  <2>5. u[j].rank = key[j]
    BY <1>c
  <2>6. sortsBefore(s[i].rank, key[j])
    BY <1>1, <2>1, <2>2, <2>4, Transitive
  <2> QED BY <2>5, <2>6
<1> QED BY <1>7, <1>9, <1>10, <1>11, <1>12 DEF last, l, n, key, u

\* The place of a child in a listing, as an element of its entries.
LEMMA EntryAt ==
  ASSUME NEW s \in Listing, NEW row
  PROVE  row \in entries(s) <=> \E k \in 1 .. Len(s) : row = s[k]
<1>1. DOMAIN s = 1 .. Len(s)
  BY ListingFacts
<1> QED BY <1>1 DEF entries

\* A child taken out of a listing, as the verbs and as the lists of children see
\* it.
LEMMA ListingWithout ==
  ASSUME NEW s \in Listing, NEW i \in Item
  PROVE  /\ without(s, i) \in Listing
         /\ entries(without(s, i)) = {row \in entries(s) : row.child # i}
         /\ childrenOf(without(s, i)) = RemoveFirst(childrenOf(s), i)
<1> DEFINE n == Len(s)
           c == childrenOf(s)
<1>1. /\ s \in Seq(Row) /\ n \in Nat /\ DOMAIN s = 1 .. n
      /\ \A j, k \in 1 .. n : s[j].child = s[k].child => j = k
      /\ c \in Seq(Item) /\ Len(c) = n /\ \A j \in 1 .. n : c[j] = s[j].child
  BY ListingFacts
<1>2. entries(s) = {s[k] : k \in 1 .. n}
  BY <1>1 DEF entries
<1> HIDE DEF n, c
<1>3. CASE \A k \in 1 .. n : s[k].child # i
  <2>1. without(s, i) = s
    BY <1>1, <1>3, WithoutFacts DEF n
  <2>2. RemoveFirst(c, i) = c
    <3>1. \A k \in 1 .. Len(c) : c[k] # i
      BY <1>1, <1>3
    <3> QED BY <1>1, <3>1, RemoveFirstFacts
  <2>3. entries(s) = {row \in entries(s) : row.child # i}
    BY <1>2, <1>3
  <2> QED BY <2>1, <2>2, <2>3 DEF c
<1>4. CASE \E k \in 1 .. n : s[k].child = i
  <2>1. PICK k \in 1 .. n : s[k].child = i
    BY <1>4
  <2>2. \A j \in 1 .. n : s[j].child = i <=> j = k
    BY <1>1, <2>1
  <2>3. without(s, i) = RemoveAt(s, k)
    BY <1>1, <2>2, WithoutFacts DEF n
  <2>4. RemoveFirst(c, i) = RemoveAt(c, k)
    <3>1. k \in 1 .. Len(c) /\ c[k] = i /\ \A j \in 1 .. Len(c) : c[j] = i => j = k
      BY <1>1, <2>2
    <3> QED BY <1>1, <3>1, RemoveFirstFacts
  <2>5. /\ RemoveAt(s, k) \in Listing /\ entries(RemoveAt(s, k)) = entries(s) \ {s[k]}
        /\ childrenOf(RemoveAt(s, k)) = RemoveAt(c, k)
    BY ListingDrop DEF n, c
  <2>6. entries(s) \ {s[k]} = {row \in entries(s) : row.child # i}
    BY <1>2, <2>2
  <2> QED BY <2>3, <2>4, <2>5, <2>6 DEF c
<1> QED BY <1>3, <1>4

(***************************************************************************)
(* The edges and the lists they stand for.                                 *)
(***************************************************************************)

\* The rows of a parent, by the edges e.
rowsIn(e, p) == {[child |-> i, rank |-> e[i].rank] : i \in {j \in Item : e[j].rank # <<>> /\ e[j].parent = p}}

\* Edges whose attached items have comparison-safe ranks, and their lists.
Edges == [Item -> {x \in [parent : Holder, rank : Rank] : x.rank # <<>> => isValidRank(x.rank)}]

listed(e, p) == inOrder(rowsIn(e, p)) \in Listing /\ entries(inOrder(rowsIn(e, p))) = rowsIn(e, p)

\* An item is in the list of its parent.
LEMMA RowOf ==
  ASSUME NEW e \in Edges, NEW p \in Holder, NEW row
  PROVE  row \in rowsIn(e, p) <=>
           /\ row.child \in Item /\ row = [child |-> row.child, rank |-> e[row.child].rank]
           /\ e[row.child].rank # <<>> /\ e[row.child].parent = p
BY DEF rowsIn

\* An item taken off its list.
LEMMA EdgeDetached ==
  ASSUME NEW e \in Edges, NEW i \in Item, NEW p \in Holder, listed(e, p),
         NEW d, d = [j \in Item |-> IF j = i THEN Detached ELSE e[j]]
  PROVE  /\ d \in Edges /\ listed(d, p)
         /\ inOrder(rowsIn(d, p)) = without(inOrder(rowsIn(e, p)), i)
<1>1. d \in Edges
  <2>1. <<>> \in Rank
    BY DEF Rank
  <2>2. Detached \in [parent : Holder, rank : Rank] /\ Detached.rank = <<>>
    BY <2>1 DEF Detached, Holder
  <2> HIDE DEF Detached
  <2> QED BY <2>2 DEF Edges
<1>2. rowsIn(d, p) = {row \in rowsIn(e, p) : row.child # i}
  <2>1. \A j \in Item : j # i => d[j] = e[j]
    OBVIOUS
  <2>2. d[i].rank = <<>>
    BY DEF Detached
  <2>3. ASSUME NEW row PROVE row \in rowsIn(d, p) <=> row \in rowsIn(e, p) /\ row.child # i
    <3>1. row \in rowsIn(d, p) => row.child # i
      BY <1>1, <2>2, RowOf
    <3>2. row.child # i => (row \in rowsIn(d, p) <=> row \in rowsIn(e, p))
      BY <1>1, <2>1, RowOf
    <3> QED BY <3>1, <3>2
  <2> QED BY <2>3
<1> DEFINE s == inOrder(rowsIn(e, p))
<1>3. s \in Listing /\ entries(s) = rowsIn(e, p)
  BY DEF listed
<1> HIDE DEF s
<1>4. without(s, i) \in Listing /\ entries(without(s, i)) = rowsIn(d, p)
  BY <1>2, <1>3, ListingWithout
<1>5. inOrder(rowsIn(d, p)) = without(s, i)
  BY <1>4, OnlyListing
<1> QED BY <1>1, <1>4, <1>5 DEF s, listed

\* A detached item put into a slot of a list.
LEMMA EdgePlaced ==
  ASSUME NEW e \in Edges, NEW i \in Item, e[i].rank = <<>>, NEW p \in Holder, listed(e, p),
         NEW k \in 0 .. Len(inOrder(rowsIn(e, p))), NEW m, m = k + 1,
         NEW d, d = [j \in Item |-> IF j = i
                                    THEN [parent |-> p, rank |-> slotRank(inOrder(rowsIn(e, p)), k)]
                                    ELSE e[j]]
  PROVE  /\ d \in Edges /\ d[i].rank # <<>> /\ listed(d, p)
         /\ childrenOf(inOrder(rowsIn(d, p))) = InsertAt(childrenOf(inOrder(rowsIn(e, p))), m, i)
         /\ \A q \in Holder : q # p => rowsIn(d, q) = rowsIn(e, q)
<1> DEFINE s == inOrder(rowsIn(e, p))
           r == slotRank(s, k)
           new == [child |-> i, rank |-> r]
<1>1. s \in Listing /\ entries(s) = rowsIn(e, p) /\ k \in 0 .. Len(s)
  BY DEF listed
<1>2. d = [j \in Item |-> IF j = i THEN [parent |-> p, rank |-> r] ELSE e[j]]
  OBVIOUS
<1> HIDE DEF s, r
<1>3. fits(r, before(s, k), after(s, k)) /\ r \in Rank /\ isValidRank(r) /\ r # <<>>
  BY <1>1, SlotFits DEF r, fits, isValidRank
<1>4. new \in Row /\ new.child = i /\ new.rank = r
  BY <1>3 DEF Row
<1>5. d[i].rank = r /\ d[i].parent = p /\ \A j \in Item : j # i => d[j] = e[j]
  BY <1>2
<1>6. d \in Edges
  <2> DEFINE x == [parent |-> p, rank |-> r]
  <2>1. x \in [parent : Holder, rank : Rank] /\ x.rank = r
    BY <1>3
  <2>2. d = [j \in Item |-> IF j = i THEN x ELSE e[j]]
    BY <1>2
  <2> HIDE DEF x
  <2> QED BY <1>3, <2>1, <2>2 DEF Edges
<1>7. \A j \in 1 .. Len(s) : s[j].child # new.child
  <2> SUFFICES ASSUME NEW j \in 1 .. Len(s) PROVE s[j].child # i
    BY <1>4
  <2>1. s[j] \in rowsIn(e, p)
    BY <1>1, EntryAt
  <2> QED BY <2>1, RowOf
<1>8. \A q \in Holder : q # p => rowsIn(d, q) = rowsIn(e, q)
  <2> SUFFICES ASSUME NEW q \in Holder, q # p, NEW row
               PROVE  row \in rowsIn(d, q) <=> row \in rowsIn(e, q)
    OBVIOUS
  <2>1. row.child = i => row \notin rowsIn(d, q) /\ row \notin rowsIn(e, q)
    BY <1>5, <1>6, RowOf
  <2>2. row.child # i => (row \in rowsIn(d, q) <=> row \in rowsIn(e, q))
    BY <1>5, <1>6, RowOf
  <2> QED BY <2>1, <2>2
<1>9. rowsIn(d, p) = rowsIn(e, p) \cup {new}
  <2>1. ASSUME NEW row PROVE row \in rowsIn(d, p) <=> row \in rowsIn(e, p) \/ row = new
    <3>1. CASE row.child = i
      <4>1. row \notin rowsIn(e, p)
        BY <3>1, RowOf
      <4>2. row \in rowsIn(d, p) <=> row = [child |-> i, rank |-> d[i].rank]
        BY <1>3, <1>5, <1>6, <3>1, RowOf
      <4> QED BY <1>5, <4>1, <4>2
    <3>2. CASE row.child # i
      <4>1. row # new
        BY <1>4, <3>2
      <4>2. row \in rowsIn(d, p) <=> row \in rowsIn(e, p)
        BY <1>5, <1>6, <3>2, RowOf
      <4> QED BY <4>1, <4>2
    <3> QED BY <3>1, <3>2
  <2> QED BY <2>1
<1> HIDE DEF new
<1> DEFINE t == InsertAt(s, m, new)
<1>10. /\ t \in Listing /\ entries(t) = entries(s) \cup {new}
       /\ childrenOf(t) = InsertAt(childrenOf(s), m, new.child)
  BY <1>1, <1>3, <1>4, <1>7, ListingInsert
<1> HIDE DEF t
<1>11. inOrder(rowsIn(d, p)) = t
  BY <1>1, <1>9, <1>10, OnlyListing
<1>12. listed(d, p)
  BY <1>1, <1>9, <1>10, <1>11 DEF listed
<1>13. d[i].rank # <<>>
  BY <1>3, <1>5
<1> QED BY <1>4, <1>6, <1>8, <1>10, <1>11, <1>12, <1>13 DEF s

\* The empty list.
LEMMA NoRows ==
  /\ <<>> \in Listing /\ entries(<<>>) = {} /\ childrenOf(<<>>) = <<>> /\ inOrder({}) = <<>>
<1>1. <<>> \in Seq(Row) /\ Len(<<>>) = 0
  OBVIOUS
<1>2. <<>> \in Listing
  <2>1. \A j, k \in 1 .. Len(<<>>) : FALSE
    BY <1>1
  <2> QED BY <1>1, <2>1, IsListing
<1>3. entries(<<>>) = {}
  BY DEF entries
<1>4. inOrder({}) = <<>>
  BY <1>2, <1>3, OnlyListing
<1>5. childrenOf(<<>>) = <<>>
  <2>1. childrenOf(<<>>) \in Seq(Item) /\ Len(childrenOf(<<>>)) = 0
    BY <1>1, <1>2, ListingFacts
  <2> QED BY <2>1, EmptySeq
<1> QED BY <1>2, <1>3, <1>4, <1>5

\* The items in the list of i, and the edges once the writes w are stored.
kidsIn(e, i) == {j \in Item : e[j].rank # <<>> /\ e[j].parent = i}

written(e, w) == [j \in Item |-> IF j \in DOMAIN w THEN w[j] ELSE e[j]]

\* The edges d are e with i taken out of the list of `from`, and the children of i
\* put behind that list.
takesOut(e, i, from, w, d) ==
  /\ DOMAIN w = {i} \cup kidsIn(e, i)
  /\ d \in Edges /\ d[i] = Detached
  /\ \A j \in kidsIn(e, i) : d[j].rank # <<>> /\ d[j].parent = from
  /\ \A j \in Item : j # i /\ j \notin kidsIn(e, i) => d[j] = e[j]
  /\ listed(d, from) /\ listed(d, i)
  /\ childrenOf(inOrder(rowsIn(d, from))) =
       RemoveFirst(childrenOf(inOrder(rowsIn(e, from))), i) \o childrenOf(inOrder(rowsIn(e, i)))
  /\ childrenOf(inOrder(rowsIn(d, i))) = <<>>
  /\ \A q \in Holder : q # from /\ q # i => rowsIn(d, q) = rowsIn(e, q)

\* An item taken out with its children put behind the list it was in
\* (_detach_item).
LEMMA EdgesRemoved ==
  ASSUME NEW e \in Edges, NEW i \in Item, e[i].rank # <<>>, NEW from \in Holder,
         e[i].parent = from, from # i, listed(e, from), listed(e, i),
         NEW rows, rows[from] = inOrder(rowsIn(e, from)), rows[i] = inOrder(rowsIn(e, i)),
         NEW w, w = detach(i, from, rows),
         NEW d, d = written(e, w)
  PROVE  takesOut(e, i, from, w, d)
<1> DEFINE kid(j) == j \in Item /\ e[j].rank # <<>> /\ e[j].parent = i
           s == inOrder(rowsIn(e, from))
           m == inOrder(rowsIn(e, i))
           l == Len(s)
           n == Len(m)
           key == appended(before(s, l), n)
           u == [j \in 1 .. n |-> [child |-> m[j].child, rank |-> key[j]]]
           v == without(s, i)
<1>1. s \in Listing /\ entries(s) = rowsIn(e, from) /\ m \in Listing /\ entries(m) = rowsIn(e, i)
  BY DEF listed
<1>s. rows[from] = s /\ rows[i] = m
  OBVIOUS
<1>d. d = [j \in Item |-> IF j \in DOMAIN w THEN w[j] ELSE e[j]]
  BY DEF written
<1> HIDE DEF s, m
<1>2. /\ u \in Listing /\ Len(u) = n /\ childrenOf(u) = childrenOf(m)
      /\ \A a \in 1 .. l, j \in 1 .. n : sortsBefore(s[a].rank, u[j].rank)
  BY <1>1, AppendedRows
<1>3. /\ v \in Listing /\ entries(v) = {row \in rowsIn(e, from) : row.child # i}
      /\ childrenOf(v) = RemoveFirst(childrenOf(s), i)
  BY <1>1, ListingWithout
<1>4. /\ n \in Nat /\ DOMAIN m = 1 .. n
      /\ \A j \in 1 .. n : m[j].child \in Item
  BY <1>1, ListingFacts
<1>5. \A j \in Item : kid(j) <=> \E a \in 1 .. n : m[a].child = j
  <2>1. ASSUME NEW a \in 1 .. n PROVE kid(m[a].child)
    <3>1. m[a] \in rowsIn(e, i)
      BY <1>1, EntryAt
    <3> QED BY <3>1, RowOf DEF Holder
  <2>2. ASSUME NEW j \in Item, kid(j) PROVE \E a \in 1 .. n : m[a].child = j
    <3> DEFINE row == [child |-> j, rank |-> e[j].rank]
    <3>1. row.child = j /\ row = [child |-> j, rank |-> e[j].rank]
      OBVIOUS
    <3> HIDE DEF row
    <3>2. row \in rowsIn(e, i)
      BY <2>2, <3>1, RowOf DEF Holder
    <3>3. PICK a \in 1 .. n : row = m[a]
      BY <1>1, <3>2, EntryAt
    <3> QED BY <3>1, <3>3
  <2> QED BY <2>1, <2>2
<1>6. ~kid(i)
  OBVIOUS
<1>7. DOMAIN w = {i} \cup {j \in Item : kid(j)}
  <2>1. DOMAIN w = {i} \cup {m[a].child : a \in 1 .. n}
    BY <1>s, <1>4 DEF detach
  <2> HIDE DEF kid
  <2> QED BY <1>4, <1>5, <2>1
<1>8. w[i] = Detached
  BY <1>7, <1>s DEF detach
<1>9. ASSUME NEW a \in 1 .. n
      PROVE  /\ kid(m[a].child) /\ m[a].child # i
             /\ w[m[a].child] = [parent |-> from, rank |-> key[a]]
  <2> DEFINE j == m[a].child
  <2>1. kid(j) /\ j # i /\ j \in Item
    <3> HIDE DEF kid
    <3> QED BY <1>4, <1>5, <1>6
  <2>2. indexOf(m, j) = a
    BY <1>1, IndexOfChild
  <2>3. j \in DOMAIN w
    <3> HIDE DEF j, kid
    <3> QED BY <1>7, <2>1
  <2>4. w = [x \in DOMAIN w |-> IF x = i THEN Detached ELSE [parent |-> from, rank |-> key[indexOf(m, x)]]]
    BY <1>s DEF detach
  <2> HIDE DEF j, key, kid
  <2>5. w[j] = [parent |-> from, rank |-> key[indexOf(m, j)]]
    BY <2>1, <2>3, <2>4
  <2> QED BY <2>1, <2>2, <2>5 DEF j
<1>10. /\ \A j \in 1 .. n : u[j] = [child |-> m[j].child, rank |-> key[j]]
       /\ \A j \in 1 .. n : u[j].child = m[j].child
       /\ \A j \in 1 .. n : u[j].rank = key[j]
       /\ \A j \in 1 .. n : key[j] \in Rank /\ isValidRank(key[j]) /\ key[j] # <<>>
  <2>1. \A j \in 1 .. n : u[j] = [child |-> m[j].child, rank |-> key[j]]
    OBVIOUS
  <2>2. ASSUME NEW j \in 1 .. n PROVE u[j].child = m[j].child /\ u[j].rank = key[j]
    <3> DEFINE x == m[j].child
               y == key[j]
    <3>1. u[j] = [child |-> x, rank |-> y]
      BY <2>1
    <3> HIDE DEF x, y, u
    <3>2. u[j].child = x /\ u[j].rank = y
      BY <3>1
    <3> QED BY <3>2 DEF x, y
  <2> HIDE DEF u, key
  <2>3. \A j \in 1 .. n : u[j].rank \in Rank /\ isValidRank(u[j].rank)
    BY <1>2, ListingFacts
  <2> QED BY <2>1, <2>2, <2>3 DEF isValidRank
<1> HIDE DEF l, n, key, u, v
<1>11. d[i] = Detached
  BY <1>d, <1>7, <1>8
<1>12. ASSUME NEW a \in 1 .. n
       PROVE  d[m[a].child] = [parent |-> from, rank |-> key[a]]
  <2>1. m[a].child \in DOMAIN w /\ m[a].child \in Item
    <3> HIDE DEF kid
    <3> QED BY <1>4, <1>7, <1>9
  <2> QED BY <1>d, <1>9, <2>1
<1>13. \A j \in Item : j # i /\ ~kid(j) => d[j] = e[j]
  <2> HIDE DEF kid
  <2> QED BY <1>d, <1>7
<1>14. \A j \in Item : kid(j) => \E a \in 1 .. n : j = m[a].child /\ d[j] = [parent |-> from, rank |-> key[a]]
  <2> HIDE DEF kid
  <2> QED BY <1>5, <1>12
<1>15. ASSUME NEW j \in Item, kid(j)
       PROVE  d[j].rank # <<>> /\ d[j].parent = from
  <2> HIDE DEF kid
  <2>1. PICK a \in 1 .. n : d[j] = [parent |-> from, rank |-> key[a]]
    BY <1>14, <1>15
  <2>2. key[a] # <<>>
    BY <1>10
  <2> QED BY <2>1, <2>2
<1>16. d \in Edges
  <2>1. ASSUME NEW j \in Item
        PROVE  d[j] \in [parent : Holder, rank : Rank] /\ (d[j].rank # <<>> => isValidRank(d[j].rank))
    <3>1. CASE j = i
      <4>1. <<>> \in Rank
        BY DEF Rank
      <4>2. Detached \in [parent : Holder, rank : Rank] /\ Detached.rank = <<>>
        BY <4>1 DEF Detached, Holder
      <4> QED BY <1>11, <3>1, <4>2
    <3>2. CASE kid(j)
      <4> HIDE DEF kid
      <4>1. PICK a \in 1 .. n : d[j] = [parent |-> from, rank |-> key[a]]
        BY <1>14, <3>2
      <4>2. key[a] \in Rank /\ isValidRank(key[a])
        BY <1>10
      <4> QED BY <4>1, <4>2
    <3>3. CASE j # i /\ ~kid(j)
      <4> HIDE DEF kid
      <4> QED BY <1>13, <3>3 DEF Edges
    <3> QED BY <3>1, <3>2, <3>3
  <2>2. d = [j \in Item |-> d[j]]
    BY <1>d
  <2> HIDE DEF kid
  <2> QED BY <2>1, <2>2 DEF Edges
<1>17. /\ v \o u \in Listing /\ entries(v \o u) = entries(v) \cup entries(u)
       /\ childrenOf(v \o u) = childrenOf(v) \o childrenOf(u)
  <2>1. ASSUME NEW a \in 1 .. Len(v), NEW j \in 1 .. Len(u)
        PROVE  v[a].child # u[j].child /\ sortsBefore(v[a].rank, u[j].rank)
    <3>1. v[a] \in rowsIn(e, from)
      BY <1>3, EntryAt
    <3>2. PICK b \in 1 .. l : v[a] = s[b]
      BY <1>1, <3>1, EntryAt DEF l
    <3>3. j \in 1 .. n /\ sortsBefore(v[a].rank, u[j].rank)
      BY <1>2, <3>2
    <3>4. e[v[a].child].parent = from
      BY <3>1, RowOf
    <3>5. e[u[j].child].parent = i
      BY <1>9, <1>10, <3>3
    <3> QED BY <3>3, <3>4, <3>5
  <2> QED BY <1>2, <1>3, <2>1, ListingConcat
<1>18. rowsIn(d, from) = entries(v) \cup entries(u)
  <2> SUFFICES ASSUME NEW row
               PROVE  row \in rowsIn(d, from) <=> row \in entries(v) \/ row \in entries(u)
    OBVIOUS
  <2>1. row \in entries(u) => \E a \in 1 .. n : row = u[a] /\ row.child = m[a].child /\ row.rank = key[a]
    BY <1>2, <1>10, EntryAt
  <2>2. row \in entries(u) => kid(row.child) /\ row.child # i
    <3> HIDE DEF kid
    <3> QED BY <1>9, <2>1
  <2>3. row \in entries(v) => ~kid(row.child) /\ row.child # i /\ row \in rowsIn(e, from)
    BY <1>3, RowOf
  <2>4. CASE row.child = i
    <3>1. row \notin rowsIn(d, from)
      BY <1>11, <1>16, <2>4, RowOf DEF Detached
    <3> QED BY <2>2, <2>3, <2>4, <3>1
  <2>5. CASE kid(row.child)
    <3>1. PICK a \in 1 .. n : row.child = m[a].child /\ d[row.child] = [parent |-> from, rank |-> key[a]]
      BY <1>14, <2>5
    <3>2. row \in rowsIn(d, from) <=> row = [child |-> row.child, rank |-> key[a]]
      <4>1. d[row.child].rank = key[a] /\ d[row.child].parent = from /\ key[a] # <<>> /\ row.child \in Item
        BY <1>10, <2>5, <3>1
      <4> HIDE DEF kid
      <4>2. row \in rowsIn(d, from) <=> row = [child |-> row.child, rank |-> d[row.child].rank]
        BY <1>16, <4>1, RowOf
      <4> QED BY <4>1, <4>2
    <3>3. row \in entries(u) <=> row = u[a]
      <4>1. row = u[a] => row \in entries(u)
        BY <1>2, EntryAt
      <4>2. row \in entries(u) => row = u[a]
        <5> SUFFICES ASSUME row \in entries(u) PROVE row = u[a]
          OBVIOUS
        <5>1. PICK b \in 1 .. n : row = u[b] /\ row.child = m[b].child
          BY <2>1
        <5>2. a = b
          BY <1>1, <3>1, <5>1, ListingFacts DEF n
        <5> QED BY <5>1, <5>2
      <4> QED BY <4>1, <4>2
    <3>4. u[a] = [child |-> row.child, rank |-> key[a]]
      BY <1>10, <3>1
    <3>5. row \notin entries(v)
      BY <2>3, <2>5
    <3> QED BY <3>2, <3>3, <3>4, <3>5
  <2>6. CASE row.child # i /\ ~kid(row.child)
    <3> HIDE DEF kid
    <3>1. row \in rowsIn(d, from) <=> row \in rowsIn(e, from)
      BY <1>13, <1>16, <2>6, RowOf
    <3>2. row \in entries(v) <=> row \in rowsIn(e, from)
      BY <1>3, <2>6
    <3> QED BY <2>2, <2>6, <3>1, <3>2
  <2> QED BY <2>4, <2>5, <2>6
<1>19. inOrder(rowsIn(d, from)) = v \o u
  BY <1>17, <1>18, OnlyListing
<1>20. rowsIn(d, i) = {}
  <2> SUFFICES ASSUME NEW row \in rowsIn(d, i) PROVE FALSE
    OBVIOUS
  <2>1. row.child \in Item /\ d[row.child].rank # <<>> /\ d[row.child].parent = i
    BY <1>16, RowOf DEF Holder
  <2>2. CASE row.child = i
    BY <1>11, <2>1, <2>2 DEF Detached
  <2>3. CASE kid(row.child)
    <3> HIDE DEF kid
    <3> QED BY <1>15, <2>1, <2>3
  <2>4. CASE row.child # i /\ ~kid(row.child)
    <3>1. d[row.child] = e[row.child]
      BY <1>13, <2>1, <2>4
    <3> QED BY <2>1, <2>4, <3>1
  <2> QED BY <2>2, <2>3, <2>4
<1>21. inOrder(rowsIn(d, i)) = <<>> /\ listed(d, i)
  BY <1>20, NoRows DEF listed
<1>22. listed(d, from)
  BY <1>17, <1>18, <1>19 DEF listed
<1>23. ASSUME NEW q \in Holder, q # from, q # i
       PROVE  rowsIn(d, q) = rowsIn(e, q)
  <2> SUFFICES ASSUME NEW row
               PROVE  row \in rowsIn(d, q) <=> row \in rowsIn(e, q)
    OBVIOUS
  <2>1. CASE row.child = i
    BY <1>11, <1>16, <1>23, <2>1, RowOf DEF Detached
  <2>2. CASE kid(row.child)
    <3>1. row \notin rowsIn(e, q)
      BY <1>23, <2>2, RowOf
    <3>2. row \notin rowsIn(d, q)
      <4>1. d[row.child].parent = from
        BY <1>15, <2>2
      <4> QED BY <1>16, <1>23, <4>1, RowOf
    <3> QED BY <3>1, <3>2
  <2>3. CASE row.child # i /\ ~kid(row.child)
    <3> HIDE DEF kid
    <3> QED BY <1>13, <1>16, <2>3, RowOf
  <2> QED BY <2>1, <2>2, <2>3
<1>24. childrenOf(v \o u) = RemoveFirst(childrenOf(s), i) \o childrenOf(m)
  BY <1>2, <1>3, <1>17
<1>25. \A j : kid(j) <=> j \in kidsIn(e, i)
  BY DEF kidsIn
<1>26. DOMAIN w = {i} \cup kidsIn(e, i)
  BY <1>7 DEF kidsIn
<1> HIDE DEF kid
<1>27. /\ \A j \in kidsIn(e, i) : d[j].rank # <<>> /\ d[j].parent = from
       /\ \A j \in Item : j # i /\ j \notin kidsIn(e, i) => d[j] = e[j]
  BY <1>13, <1>15, <1>25 DEF kidsIn
<1> QED BY <1>11, <1>16, <1>19, <1>21, <1>22, <1>23, <1>24, <1>26, <1>27, NoRows DEF s, m, takesOut

\* An attached item is in a list of the root or of an attached item.
rooted(e) ==
  \A i \in Item : IF e[i].rank # <<>> THEN e[i].parent = Root \/ e[e[i].parent].rank # <<>>
                                      ELSE e[i].parent = Root

\* No item is below itself: every set of items has a member with its parent
\* outside.
acyclic(e) == \A S \in SUBSET Item : S # {} => \E x \in S : e[x].parent \notin S

sound(e) == e \in Edges /\ rooted(e) /\ acyclic(e) /\ \A q \in Holder : listed(e, q)

childrenAt(e, q) == childrenOf(inOrder(rowsIn(e, q)))

\* An item is added under the root or under an attached item.
LEMMA EdgesAdd ==
  ASSUME NEW e, sound(e), NEW i \in Item, e[i].rank = <<>>,
         NEW p \in Holder, p = Root \/ e[p].rank # <<>>,
         NEW k \in 0 .. Len(inOrder(rowsIn(e, p))), NEW m, m = k + 1,
         NEW d, d = [j \in Item |-> IF j = i
                                    THEN [parent |-> p, rank |-> slotRank(inOrder(rowsIn(e, p)), k)]
                                    ELSE e[j]]
  PROVE  /\ sound(d) /\ d[i].rank # <<>>
         /\ \A q \in Holder : childrenAt(d, q) = IF q = p THEN InsertAt(childrenAt(e, p), m, i)
                                                          ELSE childrenAt(e, q)
<1>1. e \in Edges /\ rooted(e) /\ acyclic(e) /\ \A q \in Holder : listed(e, q)
  BY DEF sound
<1>2. /\ d \in Edges /\ d[i].rank # <<>> /\ listed(d, p)
      /\ childrenAt(d, p) = InsertAt(childrenAt(e, p), m, i)
      /\ \A q \in Holder : q # p => rowsIn(d, q) = rowsIn(e, q)
  BY <1>1, EdgePlaced DEF childrenAt
<1>3. d[i].parent = p /\ \A j \in Item : j # i => d[j] = e[j]
  OBVIOUS
<1>4. Root \notin Item /\ p # i
  BY EdgesAssumption
<1>5. \A j \in Item : e[j].parent # i
  <2> SUFFICES ASSUME NEW j \in Item, e[j].parent = i PROVE FALSE
    OBVIOUS
  <2>1. e[j].rank # <<>>
    BY <1>1, <1>4 DEF rooted
  <2> QED BY <1>1, <1>4, <2>1 DEF rooted
<1>6. rooted(d)
  <2>1. ASSUME NEW j \in Item, j # i, e[j].rank # <<>>
        PROVE  d[j].parent = Root \/ d[d[j].parent].rank # <<>>
    <3>1. d[j].parent = e[j].parent /\ e[j].parent \in Holder /\ e[j].parent # i
      BY <1>1, <1>3, <1>5, <2>1 DEF Edges
    <3>2. e[j].parent = Root \/ e[e[j].parent].rank # <<>>
      BY <1>1, <2>1 DEF rooted
    <3>3. e[j].parent # Root => d[e[j].parent] = e[e[j].parent]
      BY <1>3, <3>1 DEF Holder
    <3> QED BY <3>1, <3>2, <3>3
  <2>2. p = Root \/ d[p].rank # <<>>
    BY <1>3, <1>4 DEF Holder
  <2>3. \A j \in Item : j # i /\ e[j].rank = <<>> => d[j].parent = Root
    BY <1>1, <1>3 DEF rooted
  <2> QED BY <1>2, <1>3, <2>1, <2>2, <2>3 DEF rooted
<1>7. acyclic(d)
  <2> SUFFICES ASSUME NEW S \in SUBSET Item, S # {} PROVE \E x \in S : d[x].parent \notin S
    BY DEF acyclic
  <2>1. CASE S = {i}
    BY <1>3, <1>4, <2>1
  <2>2. CASE S # {i}
    <3>1. S \ {i} # {} /\ S \ {i} \in SUBSET Item
      BY <2>2
    <3>2. PICK x \in S \ {i} : e[x].parent \notin S \ {i}
      BY <1>1, <3>1 DEF acyclic
    <3>3. d[x].parent = e[x].parent /\ e[x].parent # i
      BY <1>3, <1>5, <3>2
    <3> QED BY <3>2, <3>3
  <2> QED BY <2>1, <2>2
<1>8. ASSUME NEW q \in Holder
      PROVE  listed(d, q) /\ (q # p => childrenAt(d, q) = childrenAt(e, q))
  BY <1>1, <1>2 DEF listed, childrenAt
<1> QED BY <1>2, <1>6, <1>7, <1>8 DEF sound

\* An item is moved under the root or under an attached item, which is in a set of
\* items that holds the parents of its members and not the item.
LEMMA EdgesMove ==
  ASSUME NEW e, sound(e), NEW i \in Item, e[i].rank # <<>>,
         NEW p \in Holder, p = Root \/ e[p].rank # <<>>,
         NEW L \in SUBSET Item, i \notin L, p \in L \cup {Root},
         \A x \in L : e[x].parent \in L \cup {Root},
         NEW k \in 0 .. Len(without(inOrder(rowsIn(e, p)), i)), NEW m, m = k + 1,
         NEW d, d = [j \in Item |-> IF j = i
                       THEN [parent |-> p, rank |-> slotRank(without(inOrder(rowsIn(e, p)), i), k)]
                       ELSE e[j]]
  PROVE  /\ sound(d) /\ d[i].rank # <<>>
         /\ \A q \in Holder :
              childrenAt(d, q) = IF q = p THEN InsertAt(RemoveFirst(childrenAt(e, p), i), m, i)
                                          ELSE RemoveFirst(childrenAt(e, q), i)
<1> DEFINE f == [j \in Item |-> IF j = i THEN Detached ELSE e[j]]
<1>1. e \in Edges /\ rooted(e) /\ acyclic(e) /\ \A q \in Holder : listed(e, q)
  BY DEF sound
<1>2. f[i] = Detached /\ \A j \in Item : j # i => f[j] = e[j]
  OBVIOUS
<1>3. d = [j \in Item |-> IF j = i
             THEN [parent |-> p, rank |-> slotRank(without(inOrder(rowsIn(e, p)), i), k)]
             ELSE f[j]]
  BY <1>2
<1>4. f = [j \in Item |-> IF j = i THEN Detached ELSE e[j]]
  OBVIOUS
<1> HIDE DEF f
<1>5. ASSUME NEW q \in Holder
      PROVE  /\ f \in Edges /\ listed(f, q)
             /\ inOrder(rowsIn(f, q)) = without(inOrder(rowsIn(e, q)), i)
             /\ childrenAt(f, q) = RemoveFirst(childrenAt(e, q), i)
  <2>1. /\ f \in Edges /\ listed(f, q)
        /\ inOrder(rowsIn(f, q)) = without(inOrder(rowsIn(e, q)), i)
    BY <1>1, <1>4, EdgeDetached
  <2>2. inOrder(rowsIn(e, q)) \in Listing
    BY <1>1 DEF listed
  <2>3. childrenOf(without(inOrder(rowsIn(e, q)), i)) = RemoveFirst(childrenOf(inOrder(rowsIn(e, q))), i)
    BY <2>2, ListingWithout
  <2> QED BY <2>1, <2>3 DEF childrenAt
<1>6. /\ d \in Edges /\ d[i].rank # <<>> /\ listed(d, p)
      /\ childrenAt(d, p) = InsertAt(childrenAt(f, p), m, i)
      /\ \A q \in Holder : q # p => rowsIn(d, q) = rowsIn(f, q)
  <2>1. f \in Edges /\ listed(f, p) /\ f[i].rank = <<>>
    BY <1>2, <1>5 DEF Detached
  <2>2. inOrder(rowsIn(f, p)) = without(inOrder(rowsIn(e, p)), i)
    BY <1>5
  <2>3. k \in 0 .. Len(inOrder(rowsIn(f, p)))
    BY <2>2
  <2>4. d = [j \in Item |-> IF j = i THEN [parent |-> p, rank |-> slotRank(inOrder(rowsIn(f, p)), k)]
                                     ELSE f[j]]
    BY <1>3, <2>2
  <2> QED BY <2>1, <2>3, <2>4, EdgePlaced DEF childrenAt
<1>7. d[i].parent = p /\ \A j \in Item : j # i => d[j] = e[j]
  OBVIOUS
<1>8. Root \notin Item /\ p # i
  BY EdgesAssumption
<1>9. rooted(d)
  <2>1. ASSUME NEW j \in Item, j # i, e[j].rank # <<>>
        PROVE  d[j].parent = Root \/ d[d[j].parent].rank # <<>>
    <3>1. d[j].parent = e[j].parent /\ e[j].parent \in Holder
      BY <1>1, <1>7, <2>1 DEF Edges
    <3>2. e[j].parent = Root \/ e[e[j].parent].rank # <<>>
      BY <1>1, <2>1 DEF rooted
    <3>3. e[j].parent # Root /\ e[j].parent # i => d[e[j].parent] = e[e[j].parent]
      BY <1>7, <3>1 DEF Holder
    <3> QED BY <1>6, <3>1, <3>2, <3>3
  <2>2. p = Root \/ d[p].rank # <<>>
    BY <1>7, <1>8 DEF Holder
  <2>3. \A j \in Item : j # i /\ e[j].rank = <<>> => d[j].parent = Root
    BY <1>1, <1>7 DEF rooted
  <2> QED BY <1>6, <1>7, <2>1, <2>2, <2>3 DEF rooted
<1>10. acyclic(d)
  <2> SUFFICES ASSUME NEW S \in SUBSET Item, S # {} PROVE \E x \in S : d[x].parent \notin S
    BY DEF acyclic
  <2>1. CASE S \cap L # {}
    <3>1. PICK x \in S \cap L : e[x].parent \notin S \cap L
      BY <1>1, <2>1 DEF acyclic
    <3>2. d[x].parent = e[x].parent /\ e[x].parent \in L \cup {Root}
      BY <1>7, <3>1
    <3> QED BY <1>8, <3>1, <3>2
  <2>2. CASE S \cap L = {} /\ i \in S
    BY <1>7, <1>8, <2>2
  <2>3. CASE i \notin S
    <3>1. PICK x \in S : e[x].parent \notin S
      BY <1>1 DEF acyclic
    <3> QED BY <1>7, <2>3, <3>1
  <2> QED BY <2>1, <2>2, <2>3
<1>11. ASSUME NEW q \in Holder
       PROVE  listed(d, q) /\ (q # p => childrenAt(d, q) = childrenAt(f, q))
  BY <1>5, <1>6 DEF listed, childrenAt
<1> QED BY <1>5, <1>6, <1>9, <1>10, <1>11 DEF sound

\* The edges d are e with i removed from the list of `from`.
removal(e, i, from, w, d) ==
  /\ sound(d) /\ d[i] = Detached /\ from \in Holder /\ from # i
  /\ DOMAIN w = {i} \cup kidsIn(e, i)
  /\ \A j \in Item : j # i => (d[j].rank # <<>> <=> e[j].rank # <<>>)
  /\ \A q \in Holder :
       childrenAt(d, q) = CASE q = from -> RemoveFirst(childrenAt(e, from), i) \o childrenAt(e, i)
                            [] q = i    -> <<>>
                            [] OTHER    -> childrenAt(e, q)

\* An attached item is removed, and its children stay with its parent.
LEMMA EdgesRemove ==
  ASSUME NEW e, sound(e), NEW i \in Item, e[i].rank # <<>>, NEW from, from = e[i].parent,
         NEW rows, rows[from] = inOrder(rowsIn(e, from)), rows[i] = inOrder(rowsIn(e, i)),
         NEW w, w = detach(i, from, rows),
         NEW d, d = written(e, w)
  PROVE  removal(e, i, from, w, d)
<1> DEFINE kid(j) == j \in kidsIn(e, i)
<1>1. e \in Edges /\ rooted(e) /\ acyclic(e) /\ \A q \in Holder : listed(e, q)
  BY DEF sound
<1>2. Root \notin Item /\ from \in Holder /\ i \in Holder
  BY <1>1, EdgesAssumption DEF Edges, Holder
<1>3. from # i
  <2>1. \E x \in {i} : e[x].parent \notin {i}
    BY <1>1 DEF acyclic
  <2> QED BY <2>1
<1>4. /\ DOMAIN w = {i} \cup kidsIn(e, i)
      /\ d \in Edges /\ d[i] = Detached
      /\ \A j \in kidsIn(e, i) : d[j].rank # <<>> /\ d[j].parent = from
      /\ \A j \in Item : j # i /\ j \notin kidsIn(e, i) => d[j] = e[j]
      /\ listed(d, from) /\ listed(d, i)
      /\ childrenAt(d, from) = RemoveFirst(childrenAt(e, from), i) \o childrenAt(e, i)
      /\ childrenAt(d, i) = <<>>
      /\ \A q \in Holder : q # from /\ q # i => rowsIn(d, q) = rowsIn(e, q)
  <2>1. listed(e, from) /\ listed(e, i)
    BY <1>1, <1>2
  <2>2. e \in Edges
    BY <1>1
  <2>3. e[i].parent = from /\ from \in Holder
    BY <1>2
  <2>4. takesOut(e, i, from, w, d)
    BY <1>3, <2>1, <2>2, <2>3, EdgesRemoved
  <2> QED BY <2>4 DEF childrenAt, takesOut
<1>5. d[i].parent = Root /\ d[i].rank = <<>>
  BY <1>4 DEF Detached
<1>6. ASSUME NEW j \in Item, j # i
      PROVE  d[j].rank # <<>> <=> e[j].rank # <<>>
  <2>1. CASE kid(j)
    BY <1>4, <2>1 DEF kidsIn
  <2>2. CASE ~kid(j)
    BY <1>4, <1>6, <2>2
  <2> QED BY <2>1, <2>2
<1>7. from = Root \/ (from \in Item /\ from # i /\ e[from].rank # <<>>)
  BY <1>1, <1>2, <1>3 DEF rooted, Holder
<1>8. rooted(d)
  <2>1. ASSUME NEW j \in Item, j # i, d[j].rank # <<>>
        PROVE  d[j].parent = Root \/ d[d[j].parent].rank # <<>>
    <3>1. CASE kid(j)
      BY <1>4, <1>6, <1>7, <3>1
    <3>2. CASE ~kid(j)
      <4>1. d[j] = e[j] /\ e[j].parent # i /\ e[j].parent \in Holder
        BY <1>1, <1>4, <2>1, <3>2 DEF Edges, kidsIn
      <4>2. e[j].parent = Root \/ (e[j].parent \in Item /\ e[e[j].parent].rank # <<>>)
        BY <1>1, <2>1, <4>1 DEF rooted, Holder
      <4> HIDE DEF kid
      <4> QED BY <1>6, <4>1, <4>2
    <3> QED BY <3>1, <3>2
  <2>2. ASSUME NEW j \in Item, j # i, ~(d[j].rank # <<>>)
        PROVE  d[j].parent = Root
    <3>1. ~kid(j) /\ e[j].rank = <<>>
      BY <1>6, <2>2 DEF kidsIn
    <3>2. d[j] = e[j]
      BY <1>4, <2>2, <3>1
    <3> QED BY <1>1, <3>1, <3>2 DEF rooted
  <2> QED BY <1>5, <2>1, <2>2 DEF rooted
<1>9. acyclic(d)
  <2> SUFFICES ASSUME NEW S \in SUBSET Item, S # {} PROVE \E x \in S : d[x].parent \notin S
    BY DEF acyclic
  <2>1. CASE i \in S
    BY <1>2, <1>5, <2>1
  <2>2. CASE i \notin S /\ \A j \in S : ~kid(j)
    <3>1. PICK x \in S : e[x].parent \notin S
      BY <1>1 DEF acyclic
    <3>2. d[x] = e[x]
      BY <1>4, <2>2, <3>1
    <3> QED BY <3>1, <3>2
  <2>3. CASE i \notin S /\ \E j \in S : kid(j)
    <3>1. PICK j \in S : kid(j)
      BY <2>3
    <3>2. S \cup {i} \in SUBSET Item /\ S \cup {i} # {}
      OBVIOUS
    <3>3. PICK x \in S \cup {i} : e[x].parent \notin S \cup {i}
      BY <1>1, <3>2 DEF acyclic
    <3>4. CASE x = i
      <4>1. d[j].parent = from
        BY <1>4, <3>1
      <4> QED BY <3>1, <3>3, <3>4, <4>1
    <3>5. CASE x # i
      <4>1. ~kid(x) /\ x \in S
        BY <3>3, <3>5 DEF kidsIn
      <4>2. d[x] = e[x]
        BY <1>4, <3>5, <4>1
      <4> QED BY <3>3, <4>1, <4>2
    <3> QED BY <3>4, <3>5
  <2> QED BY <2>1, <2>2, <2>3
<1>10. ASSUME NEW q \in Holder
       PROVE  listed(d, q) /\ (q # from /\ q # i => childrenAt(d, q) = childrenAt(e, q))
  <2>1. q # from /\ q # i => rowsIn(d, q) = rowsIn(e, q)
    BY <1>4
  <2> QED BY <1>1, <1>4, <2>1 DEF listed, childrenAt
<1> HIDE DEF kid
<1> QED BY <1>2, <1>3, <1>4, <1>6, <1>8, <1>9, <1>10 DEF sound, removal

(***************************************************************************)
(* The invariant.                                                          *)
(***************************************************************************)

\* Attached items were added.
EdgesWellFormed ==
  /\ sound(edge) /\ born \subseteq Item
  /\ \A i \in Item : edge[i].rank # <<>> => i \in born

CallType == [op : {"none", "add", "move", "reorder", "remove"}, item : Holder, parent : Holder,
             index : 0 .. Cardinality(Item)]

\* Items of adds in flight are fresh, each for one player.
CallsWellFormed ==
  /\ turn \in [Actor -> CallType]
  /\ \A a \in Actor :
       /\ turn[a] = NoCall \/ (turn[a].op # "none" /\ turn[a].item \in Item)
       /\ turn[a].op = "add" =>
            turn[a].item \notin born /\ \A b \in Actor : b # a => turn[b].item # turn[a].item
       /\ turn[a].op \in {"move", "reorder", "remove"} => turn[a].item \in born

FetchedWellFormed == fetched \in [Actor -> [Holder -> {Unfetched} \cup Listing]]

\* What a planned transcript is, in terms of the call, the orderings fetched
\* for it and the cells it read.  A move read a set L of cells that holds the
\* new parent and the parents of its members, and not the item itself.
ancestors(L, c, t) ==
  /\ DOMAIN t.cells = {c.item} \cup L /\ c.item \notin L /\ c.parent \in L \cup {Root}
  /\ \A x \in L : t.cells[x].parent \in L \cup {Root}

plansAdd(t, c, rows) ==
  /\ rows[c.parent] # Unfetched /\ c.index <= Len(rows[c.parent])
  /\ t.writes = one(c.item, c.parent, slotRank(rows[c.parent], c.index))
  /\ t.located = {c.parent} \ {Root}

plansMove(t, c, rows) ==
  /\ rows[c.parent] # Unfetched /\ c.index <= Len(without(rows[c.parent], c.item))
  /\ t.writes = one(c.item, c.parent, slotRank(without(rows[c.parent], c.item), c.index))
  /\ t.located = {c.item, c.parent} \ {Root}
  /\ \E L \in SUBSET Item : ancestors(L, c, t)

plansReorder(t, c, rows) ==
  LET from == t.cells[c.item].parent
  IN  /\ c.item \in DOMAIN t.cells /\ from \in Holder
      /\ rows[from] # Unfetched /\ c.index <= Len(without(rows[from], c.item))
      /\ t.writes = one(c.item, from, slotRank(without(rows[from], c.item), c.index))
      /\ t.located = {c.item}

plansRemove(t, c, rows) ==
  /\ c.item \in DOMAIN t.cells /\ t.cells[c.item].parent \in Holder
  /\ rows[t.cells[c.item].parent] # Unfetched /\ rows[c.item] # Unfetched
  /\ t.writes = detach(c.item, t.cells[c.item].parent, rows)
  /\ t.located = {c.item}

plans(t, c, rows) ==
  /\ c # NoCall
  /\ c.op = "add" => plansAdd(t, c, rows)
  /\ c.op = "move" => plansMove(t, c, rows)
  /\ c.op = "reorder" => plansReorder(t, c, rows)
  /\ c.op = "remove" => plansRemove(t, c, rows)

PlansWellFormed ==
  /\ plan = [a \in Actor |-> plan[a]]
  /\ \A a \in Actor : plan[a] # NoPlan => plans(plan[a], turn[a], fetched[a])

\* The bound on commits leaves room for the calls in flight.
Bounded == commits \in Nat /\ commits + Cardinality(inFlight) <= MaxCommits

OutlineInv ==
  EdgesWellFormed /\ CallsWellFormed /\ FetchedWellFormed /\ PlansWellFormed /\ Bounded

\* The lists of the state are the lists of its edges.
LEMMA StateLists ==
  ASSUME NEW p
  PROVE  /\ orderedChildren(p) = inOrder(rowsIn(edge, p)) /\ orderedChildren(p)' = inOrder(rowsIn(edge', p))
         /\ childList(p) = childrenAt(edge, p) /\ childList(p)' = childrenAt(edge', p)
         /\ kids(p) = kidsIn(edge, p)
<1>1. rowsOf(p) = rowsIn(edge, p) /\ rowsOf(p)' = rowsIn(edge', p)
  BY DEF rowsOf, rowsIn, kids, attached
<1>2. orderedChildren(p) = inOrder(rowsIn(edge, p)) /\ orderedChildren(p)' = inOrder(rowsIn(edge', p))
  BY <1>1 DEF orderedChildren
<1>3. childList(p) = childrenAt(edge, p)
  BY <1>2 DEF childList, childrenAt, childrenOf
<1>4. childList(p)' = childrenAt(edge', p)
  BY <1>2 DEF childList, childrenAt, childrenOf
<1> QED BY <1>2, <1>3, <1>4 DEF kids, kidsIn, attached

\* What the cycle guard of a move walked holds the new parent, and with an item
\* its parent.
LEMMA LineageIsClosed ==
  ASSUME edge \in Edges, NEW p \in Holder
  PROVE  /\ lineage(p) \in SUBSET Item /\ p \in lineage(p) \cup {Root}
         /\ \A x \in lineage(p) : edge[x].parent \in lineage(p) \cup {Root}
<1>1. \A x \in Item : edge[x].parent \in Holder
  BY DEF Edges
<1>2. p # Root => p \in lineage(p)
  BY DEF lineage, Holder
<1>3. ASSUME NEW x \in lineage(p), edge[x].parent # Root
      PROVE  edge[x].parent \in lineage(p)
  <2>1. x \in Item /\ edge[x].parent \in Item
    BY <1>1, <1>3 DEF lineage, Holder
  <2>2. ASSUME NEW S \in SUBSET Item, p \in S \cup {Root}, \A y \in S : edge[y].parent \in S \cup {Root}
        PROVE  edge[x].parent \in S
    <3>1. x \in S
      BY <2>2 DEF lineage
    <3> QED BY <1>3, <2>2, <3>1
  <2> QED BY <2>1, <2>2 DEF lineage
<1> QED BY <1>2, <1>3 DEF lineage

\* What a verb plans, once it has the orderings it reads.
LEMMA PlanFollows ==
  ASSUME EdgesWellFormed, CallsWellFormed, NEW a \in Actor, turn[a] # NoCall,
         \A p \in needs(turn[a]) : fetched[a][p] # Unfetched,
         NEW t, t = planned(turn[a], fetched[a]), t # NoPlan
  PROVE  plans(t, turn[a], fetched[a])
<1> DEFINE c == turn[a]
           rows == fetched[a]
<1>1. c \in CallType /\ c # NoCall /\ c.op \in {"add", "move", "reorder", "remove"} /\ c.item \in Item /\ c.parent \in Holder
  BY DEF CallsWellFormed, CallType
<1>2. edge \in Edges
  BY DEF EdgesWellFormed, sound
<1>3. \A p \in needs(c) : rows[p] # Unfetched
  OBVIOUS
<1>4. t = planned(c, rows)
  OBVIOUS
<1> HIDE DEF c, rows
<1>5. ASSUME c.op = "add"
      PROVE  plansAdd(t, c, rows)
  <2>1. t = addItem(c, rows)
    BY <1>4, <1>5 DEF planned
  <2>2. t = transcript(one(c.item, c.parent, slotRank(rows[c.parent], c.index)), {c.parent}, {})
        /\ c.index <= Len(rows[c.parent])
    BY <2>1 DEF addItem
  <2>3. t.writes = one(c.item, c.parent, slotRank(rows[c.parent], c.index)) /\ t.located = {c.parent} \ {Root}
    BY <2>2 DEF transcript
  <2>4. rows[c.parent] # Unfetched
    BY <1>3, <1>5 DEF needs
  <2> QED BY <2>2, <2>3, <2>4 DEF plansAdd
<1>6. ASSUME c.op = "move"
      PROVE  plansMove(t, c, rows)
  <2> DEFINE L == lineage(c.parent)
             rest == without(rows[c.parent], c.item)
  <2>1. t = moveItem(c, rows)
    BY <1>4, <1>6 DEF planned
  <2>2. /\ t = transcript(one(c.item, c.parent, slotRank(rest, c.index)), {c.item, c.parent}, {c.item} \cup L)
        /\ c.index <= Len(rest) /\ c.item \notin L
    BY <2>1 DEF moveItem
  <2> HIDE DEF L, rest
  <2>3. /\ t.writes = one(c.item, c.parent, slotRank(rest, c.index))
        /\ t.located = {c.item, c.parent} \ {Root}
        /\ t.cells = [x \in {c.item} \cup L |-> edge[x]]
    BY <2>2 DEF transcript
  <2>4. L \in SUBSET Item /\ c.parent \in L \cup {Root} /\ \A x \in L : edge[x].parent \in L \cup {Root}
    BY <1>1, <1>2, LineageIsClosed DEF L
  <2>5. ancestors(L, c, t)
    <3>1. DOMAIN t.cells = {c.item} \cup L
      BY <2>3
    <3>2. \A x \in L : t.cells[x] = edge[x]
      BY <2>3
    <3> QED BY <2>2, <2>4, <3>1, <3>2 DEF ancestors
  <2>6. rows[c.parent] # Unfetched
    BY <1>3, <1>6 DEF needs
  <2> QED BY <2>2, <2>3, <2>4, <2>5, <2>6 DEF plansMove, rest
<1>7. ASSUME c.op = "remove"
      PROVE  plansRemove(t, c, rows)
  <2> DEFINE from == edge[c.item].parent
  <2>1. t = removeItem(c, rows)
    BY <1>4, <1>7 DEF planned
  <2>2. t = transcript(detach(c.item, from, rows), {c.item}, {c.item})
    BY <2>1 DEF removeItem
  <2>3. /\ t.writes = detach(c.item, from, rows) /\ t.located = {c.item} \ {Root}
        /\ t.cells = [x \in {c.item} |-> edge[x]]
    BY <2>2 DEF transcript
  <2>4. rows[from] # Unfetched /\ rows[c.item] # Unfetched
    BY <1>3, <1>7 DEF needs
  <2>5. from \in Holder /\ c.item # Root
    BY <1>1, <1>2, EdgesAssumption DEF Edges
  <2>6. c.item \in DOMAIN t.cells /\ t.cells[c.item] = edge[c.item]
    BY <2>3
  <2>7. t.located = {c.item}
    BY <2>3, <2>5
  <2>8. t.cells[c.item].parent = from
    BY <2>6
  <2> HIDE DEF from
  <2> QED BY <2>3, <2>4, <2>5, <2>6, <2>7, <2>8 DEF plansRemove
<1>8. ASSUME c.op = "reorder"
      PROVE  plansReorder(t, c, rows)
  <2> DEFINE from == edge[c.item].parent
             rest == without(rows[from], c.item)
  <2>1. t = reorderItem(c, rows)
    BY <1>4, <1>8 DEF planned
  <2>2. /\ t = transcript(one(c.item, from, slotRank(rest, c.index)), {c.item}, {c.item})
        /\ c.index <= Len(rest)
    BY <2>1 DEF reorderItem
  <2> HIDE DEF rest
  <2>3. /\ t.writes = one(c.item, from, slotRank(rest, c.index)) /\ t.located = {c.item} \ {Root}
        /\ t.cells = [x \in {c.item} |-> edge[x]]
    BY <2>2 DEF transcript
  <2>4. rows[from] # Unfetched
    BY <1>3, <1>8 DEF needs
  <2>5. from \in Holder /\ c.item # Root
    BY <1>1, <1>2, EdgesAssumption DEF Edges
  <2>6. c.item \in DOMAIN t.cells /\ t.cells[c.item].parent = from
    BY <2>3
  <2>7. t.located = {c.item}
    BY <2>3, <2>5
  <2> HIDE DEF from
  <2> QED BY <2>2, <2>3, <2>4, <2>5, <2>6, <2>7 DEF plansReorder, rest
<1> QED BY <1>1, <1>5, <1>6, <1>7, <1>8 DEF plans, c, rows

\* What a commit does to the edges, by verb.
edited(e, d, w) == sound(d) /\ \A j \in Item : d[j].rank # <<>> => e[j].rank # <<>> \/ j \in DOMAIN w

addEffect(e, d, c, w) ==
  /\ DOMAIN w = {c.item} /\ d[c.item].rank # <<>> /\ e[c.item].rank = <<>>
  /\ c.parent = Root \/ e[c.parent].rank # <<>>
  /\ c.index <= Len(childrenAt(e, c.parent))
  /\ \A m \in Nat : m = c.index + 1 => \A q \in Holder :
       childrenAt(d, q) = IF q = c.parent THEN InsertAt(childrenAt(e, q), m, c.item)
                                          ELSE childrenAt(e, q)

moveEffect(e, d, c, w) ==
  /\ DOMAIN w = {c.item} /\ d[c.item].rank # <<>> /\ e[c.item].rank # <<>>
  /\ c.parent = Root \/ e[c.parent].rank # <<>>
  /\ c.index <= Len(RemoveFirst(childrenAt(e, c.parent), c.item))
  /\ \E L \in SUBSET Item : /\ c.item \notin L /\ c.parent \in L \cup {Root}
                            /\ \A x \in L : e[x].parent \in L \cup {Root}
  /\ \A m \in Nat : m = c.index + 1 => \A q \in Holder :
       childrenAt(d, q) = IF q = c.parent THEN InsertAt(RemoveFirst(childrenAt(e, q), c.item), m, c.item)
                                          ELSE RemoveFirst(childrenAt(e, q), c.item)

\* A reordering is the move that stays with its parent.
inPlace(e, c) == [c EXCEPT !.parent = e[c.item].parent]

reorderEffect(e, d, c, w) == inPlace(e, c) \in CallType /\ moveEffect(e, d, inPlace(e, c), w)

removeEffect(e, d, c, w) ==
  /\ DOMAIN w = {c.item} \cup kidsIn(e, c.item) /\ d[c.item].rank = <<>> /\ e[c.item].rank # <<>>
  /\ e[c.item].parent \in Holder /\ e[c.item].parent # c.item
  /\ \A q \in Holder :
       childrenAt(d, q) = CASE q = e[c.item].parent ->
                                 RemoveFirst(childrenAt(e, q), c.item) \o childrenAt(e, c.item)
                            [] q = c.item -> <<>>
                            [] OTHER      -> childrenAt(e, q)

\* The edges after a commit, and the order of its rows, by the verb of the call.
LEMMA AddCommits ==
  ASSUME NEW e, sound(e), NEW c \in CallType, c.item \in Item, e[c.item].rank = <<>>,
         NEW t, NEW rows, plansAdd(t, c, rows),
         rows[c.parent] = inOrder(rowsIn(e, c.parent)),
         \A x \in t.located : e[x].rank # <<>>,
         NEW d, d = written(e, t.writes)
  PROVE  edited(e, d, t.writes) /\ addEffect(e, d, c, t.writes)
<1> DEFINE i == c.item
           p == c.parent
           k == c.index
           s == inOrder(rowsIn(e, p))
           x == [parent |-> p, rank |-> slotRank(s, k)]
           w == t.writes
<1>1. i \in Item /\ p \in Holder /\ k \in Nat
  BY DEF CallType
<1>2. k <= Len(s) /\ w = one(i, p, slotRank(s, k)) /\ t.located = {p} \ {Root}
  BY DEF plansAdd
<1>3. DOMAIN w = {i} /\ w[i] = x
  BY <1>2 DEF one
<1>4. p = Root \/ e[p].rank # <<>>
  BY <1>2
<1>5. s \in Listing /\ Len(s) \in Nat
  BY <1>1, ListingFacts DEF sound, listed
<1>6. k \in 0 .. Len(s)
  BY <1>1, <1>2, <1>5
<1> HIDE DEF w
<1>7. d = written(e, w)
  BY DEF w
<1>8. d = [j \in Item |-> IF j = i THEN x ELSE e[j]]
  BY <1>3, <1>7 DEF written
<1>9. d = [j \in Item |-> IF j = i THEN [parent |-> p, rank |-> slotRank(inOrder(rowsIn(e, p)), k)] ELSE e[j]]
  BY <1>8
<1>10. ASSUME NEW m, m = k + 1
       PROVE  /\ sound(d) /\ d[i].rank # <<>>
              /\ \A q \in Holder : childrenAt(d, q) = IF q = p THEN InsertAt(childrenAt(e, p), m, i)
                                                               ELSE childrenAt(e, q)
  <2>1. e[i].rank = <<>> /\ k \in 0 .. Len(inOrder(rowsIn(e, p)))
    BY <1>6
  <2> HIDE DEF i, p, k, x, s
  <2> QED BY <1>1, <1>4, <1>9, <1>10, <2>1, EdgesAdd
<1>11. sound(d) /\ d[i].rank # <<>>
  BY <1>10
<1>12. \A j \in Item : d[j].rank # <<>> => e[j].rank # <<>> \/ j \in DOMAIN w
  BY <1>3, <1>8
<1>13. Len(childrenAt(e, p)) = Len(s)
  BY <1>5, ListingFacts DEF childrenAt
<1>14. \A m \in Nat : m = k + 1 => \A q \in Holder :
         childrenAt(d, q) = IF q = p THEN InsertAt(childrenAt(e, q), m, i) ELSE childrenAt(e, q)
  BY <1>10
<1>15. e[i].rank = <<>> /\ k <= Len(childrenAt(e, p))
  BY <1>2, <1>13
<1> HIDE DEF x, s
<1> QED BY <1>3, <1>4, <1>11, <1>12, <1>14, <1>15 DEF edited, addEffect, w

LEMMA MoveCommits ==
  ASSUME NEW e, sound(e), NEW c \in CallType, c.item \in Item,
         NEW t, NEW rows, plansMove(t, c, rows),
         rows[c.parent] = inOrder(rowsIn(e, c.parent)),
         \A x \in t.located : e[x].rank # <<>>,
         \A x \in DOMAIN t.cells : e[x] = t.cells[x],
         NEW d, d = written(e, t.writes)
  PROVE  edited(e, d, t.writes) /\ moveEffect(e, d, c, t.writes)
<1> DEFINE i == c.item
           p == c.parent
           k == c.index
           s == inOrder(rowsIn(e, p))
           rest == without(s, i)
           x == [parent |-> p, rank |-> slotRank(rest, k)]
           w == t.writes
<1>1. i \in Item /\ p \in Holder /\ k \in Nat /\ Root \notin Item
  BY EdgesAssumption DEF CallType
<1>2. k <= Len(rest) /\ w = one(i, p, slotRank(rest, k)) /\ t.located = {i, p} \ {Root}
  BY DEF plansMove
<1>3. DOMAIN w = {i} /\ w[i] = x
  BY <1>2 DEF one
<1>4. (p = Root \/ e[p].rank # <<>>) /\ e[i].rank # <<>>
  BY <1>1, <1>2
<1>5. s \in Listing
  BY <1>1 DEF sound, listed
<1>6. /\ rest \in Listing /\ Len(rest) \in Nat
      /\ childrenOf(rest) = RemoveFirst(childrenOf(s), i) /\ Len(childrenOf(rest)) = Len(rest)
  <2>1. rest \in Listing /\ childrenOf(rest) = RemoveFirst(childrenOf(s), i)
    BY <1>1, <1>5, ListingWithout
  <2> HIDE DEF rest, s, i
  <2> QED BY <2>1, ListingFacts
<1>7. k \in 0 .. Len(rest)
  BY <1>1, <1>2, <1>6
<1>8. PICK L \in SUBSET Item : ancestors(L, c, t)
  BY DEF plansMove
<1>9. i \notin L /\ p \in L \cup {Root} /\ \A y \in L : e[y].parent \in L \cup {Root}
  BY <1>8 DEF ancestors
<1> HIDE DEF w
<1>10. d = written(e, w)
  BY DEF w
<1>11. d = [j \in Item |-> IF j = i THEN x ELSE e[j]]
  BY <1>3, <1>10 DEF written
<1>12. d = [j \in Item |-> IF j = i
             THEN [parent |-> p, rank |-> slotRank(without(inOrder(rowsIn(e, p)), i), k)] ELSE e[j]]
  BY <1>11
<1>13. ASSUME NEW m, m = k + 1
       PROVE  /\ sound(d) /\ d[i].rank # <<>>
              /\ \A q \in Holder :
                   childrenAt(d, q) = IF q = p THEN InsertAt(RemoveFirst(childrenAt(e, p), i), m, i)
                                               ELSE RemoveFirst(childrenAt(e, q), i)
  <2>1. k \in 0 .. Len(without(inOrder(rowsIn(e, p)), i))
    BY <1>7
  <2>2. e[i].rank # <<>> /\ (p = Root \/ e[p].rank # <<>>)
    BY <1>4
  <2> HIDE DEF i, p, k, x, s, rest
  <2> QED BY <1>1, <1>9, <1>12, <1>13, <2>1, <2>2, EdgesMove
<1>14. sound(d) /\ d[i].rank # <<>>
  BY <1>13
<1>15. \A j \in Item : d[j].rank # <<>> => e[j].rank # <<>> \/ j \in DOMAIN w
  BY <1>3, <1>11
<1>16. \A m \in Nat : m = k + 1 => \A q \in Holder :
         childrenAt(d, q) = IF q = p THEN InsertAt(RemoveFirst(childrenAt(e, q), i), m, i)
                                     ELSE RemoveFirst(childrenAt(e, q), i)
  BY <1>13
<1>17. k <= Len(RemoveFirst(childrenAt(e, p), i))
  BY <1>2, <1>6 DEF childrenAt
<1> HIDE DEF x, s, rest
<1> QED BY <1>3, <1>4, <1>9, <1>14, <1>15, <1>16, <1>17 DEF edited, moveEffect, w

\* The parent of an item is in a set of items that holds the parents of its
\* members and not the item: those that have no path up to it.
LEMMA ParentNotBelow ==
  ASSUME NEW e, sound(e), NEW i \in Item
  PROVE  \E L \in SUBSET Item : /\ i \notin L /\ e[i].parent \in L \cup {Root}
                                /\ \A x \in L : e[x].parent \in L \cup {Root}
<1> DEFINE clear(L) == i \notin L /\ \A x \in L : e[x].parent \in L \cup {Root}
           C == {x \in Item : \E L \in SUBSET Item : x \in L /\ clear(L)}
           S == Item \ C
<1>1. e \in Edges /\ acyclic(e) /\ \A x \in Item : e[x].parent \in Item \cup {Root}
  BY DEF sound, Edges, Holder
<1>2. clear(C)
  <2>1. i \notin C
    OBVIOUS
  <2>2. ASSUME NEW x \in C, e[x].parent # Root
        PROVE  e[x].parent \in C
    <3>1. PICK L \in SUBSET Item : x \in L /\ clear(L)
      OBVIOUS
    <3>2. e[x].parent \in L
      BY <2>2, <3>1
    <3> QED BY <3>1, <3>2
  <2> HIDE DEF C
  <2> QED BY <2>1, <2>2
<1>3. ASSUME NEW x \in S, x # i
      PROVE  e[x].parent \in S
  <2> SUFFICES ASSUME e[x].parent \notin S PROVE FALSE
    OBVIOUS
  <2>1. x \in Item /\ x \notin C /\ e[x].parent \in C \cup {Root}
    BY <1>1
  <2>2. clear(C \cup {x}) /\ C \cup {x} \in SUBSET Item
    BY <1>2, <1>3, <2>1
  <2> QED BY <2>1, <2>2
<1>4. i \in S /\ S \in SUBSET Item /\ C \in SUBSET Item
  BY <1>2
<1> HIDE DEF C
<1>5. PICK x \in S : e[x].parent \notin S
  BY <1>1, <1>4 DEF acyclic
<1>6. x = i
  BY <1>3, <1>5
<1>7. e[i].parent \in C \cup {Root}
  BY <1>1, <1>5, <1>6
<1> QED BY <1>2, <1>4, <1>7

LEMMA ReorderCommits ==
  ASSUME NEW e, sound(e), NEW c \in CallType, c.item \in Item,
         NEW t, NEW rows, plansReorder(t, c, rows),
         \A p \in Holder : rows[p] # Unfetched => rows[p] = inOrder(rowsIn(e, p)),
         \A x \in t.located : e[x].rank # <<>>,
         \A x \in DOMAIN t.cells : e[x] = t.cells[x],
         NEW d, d = written(e, t.writes)
  PROVE  edited(e, d, t.writes) /\ reorderEffect(e, d, c, t.writes)
<1> DEFINE i == c.item
           p == e[i].parent
           m == inPlace(e, c)
<1>1. /\ p \in Holder /\ rows[p] # Unfetched /\ c.index <= Len(without(rows[p], i))
      /\ t.writes = one(i, p, slotRank(without(rows[p], i), c.index)) /\ e[i].rank # <<>>
  BY DEF plansReorder
<1>2. rows[p] = inOrder(rowsIn(e, p))
  BY <1>1
<1>3. p = Root \/ e[p].rank # <<>>
  BY <1>1 DEF sound, rooted
<1>4. m \in CallType /\ m.item = i /\ m.parent = p /\ m.index = c.index
  BY <1>1 DEF inPlace, CallType
<1>5. PICK L \in SUBSET Item : /\ i \notin L /\ p \in L \cup {Root}
                               /\ \A x \in L : e[x].parent \in L \cup {Root}
  BY ParentNotBelow
<1> HIDE DEF m, p
<1>6. PICK u : u = [writes |-> t.writes, located |-> {i, p} \ {Root}, cells |-> [x \in {i} \cup L |-> e[x]]]
  OBVIOUS
<1>7. /\ u.writes = t.writes /\ u.located = {i, p} \ {Root}
      /\ DOMAIN u.cells = {i} \cup L /\ \A x \in {i} \cup L : u.cells[x] = e[x]
  BY <1>6
<1>8. ancestors(L, m, u)
  BY <1>4, <1>5, <1>7 DEF ancestors
<1>9. plansMove(u, m, rows)
  BY <1>1, <1>4, <1>7, <1>8 DEF plansMove
<1>10. \A x \in u.located : e[x].rank # <<>>
  BY <1>1, <1>3, <1>7
<1>11. (\A x \in DOMAIN u.cells : e[x] = u.cells[x]) /\ d = written(e, u.writes)
  BY <1>7
<1>12. edited(e, d, u.writes) /\ moveEffect(e, d, m, u.writes)
  BY <1>2, <1>4, <1>9, <1>10, <1>11, MoveCommits
<1> QED BY <1>4, <1>7, <1>12 DEF reorderEffect, m

LEMMA RemoveCommits ==
  ASSUME NEW e, sound(e), NEW c \in CallType, c.item \in Item,
         NEW t, NEW rows, plansRemove(t, c, rows),
         \A p \in Holder : rows[p] # Unfetched => rows[p] = inOrder(rowsIn(e, p)),
         \A x \in t.located : e[x].rank # <<>>,
         \A x \in DOMAIN t.cells : e[x] = t.cells[x],
         NEW d, d = written(e, t.writes)
  PROVE  edited(e, d, t.writes) /\ removeEffect(e, d, c, t.writes)
<1> DEFINE i == c.item
           from == e[i].parent
           w == t.writes
<1>1. i \in Item /\ i \in Holder
  BY DEF Holder
<1>2. /\ t.cells[i] = e[i] /\ from \in Holder /\ rows[from] # Unfetched /\ rows[i] # Unfetched
      /\ w = detach(i, from, rows) /\ t.located = {i}
  BY DEF plansRemove
<1>3. rows[from] = inOrder(rowsIn(e, from)) /\ rows[i] = inOrder(rowsIn(e, i)) /\ e[i].rank # <<>>
  BY <1>1, <1>2
<1>4. d = written(e, w)
  OBVIOUS
<1>5. from = e[i].parent
  OBVIOUS
<1> HIDE DEF i, w, from
<1>6. /\ sound(d) /\ d[i] = Detached /\ from \in Holder /\ from # i
      /\ DOMAIN w = {i} \cup kidsIn(e, i)
      /\ \A j \in Item : j # i => (d[j].rank # <<>> <=> e[j].rank # <<>>)
      /\ \A q \in Holder :
           childrenAt(d, q) = CASE q = from -> RemoveFirst(childrenAt(e, from), i) \o childrenAt(e, i)
                                [] q = i    -> <<>>
                                [] OTHER    -> childrenAt(e, q)
  <2>1. removal(e, i, from, w, d)
    BY <1>1, <1>2, <1>3, <1>4, <1>5, EdgesRemove
  <2> QED BY <2>1 DEF removal
<1>7. d[i].rank = <<>>
  BY <1>6 DEF Detached
<1>8. \A j \in Item : d[j].rank # <<>> => e[j].rank # <<>>
  BY <1>6, <1>7
<1>9. edited(e, d, w)
  BY <1>6, <1>8 DEF edited
<1>10. removeEffect(e, d, c, w)
  BY <1>3, <1>6, <1>7 DEF removeEffect, i, from
<1> QED BY <1>9, <1>10 DEF w

\* A commit edits the edges as the verb of the call says: what the transcript
\* read is current, so its writes apply to the lists they were planned from.
LEMMA CommitEdits ==
  ASSUME OutlineInv, NEW a \in Actor, Commit(a)
  PROVE  /\ turn[a] \in CallType /\ turn[a].item \in Item /\ turn[a].op \in {"add", "move", "reorder", "remove"}
         /\ born' = born \cup DOMAIN plan[a].writes
         /\ edited(edge, edge', plan[a].writes)
         /\ turn[a].op = "add" => addEffect(edge, edge', turn[a], plan[a].writes)
         /\ turn[a].op = "move" => moveEffect(edge, edge', turn[a], plan[a].writes)
         /\ turn[a].op = "reorder" => reorderEffect(edge, edge', turn[a], plan[a].writes)
         /\ turn[a].op = "remove" => removeEffect(edge, edge', turn[a], plan[a].writes)
<1> DEFINE c == turn[a]
           t == plan[a]
           rows == fetched[a]
           e == edge
           d == edge'
<1>1. sound(e) /\ \A i \in Item : e[i].rank # <<>> => i \in born
  BY DEF OutlineInv, EdgesWellFormed
<1>2. plans(t, c, rows)
  BY DEF OutlineInv, PlansWellFormed, Commit
<1>3. /\ c \in CallType /\ c.item \in Item /\ c.op \in {"add", "move", "reorder", "remove"}
      /\ c.parent \in Holder /\ (c.op = "add" => c.item \notin born)
  BY <1>2 DEF OutlineInv, CallsWellFormed, CallType, plans
<1>4. d = written(e, t.writes) /\ born' = born \cup DOMAIN t.writes
  BY DEF Commit, written
<1>5. /\ \A x \in t.located : e[x].rank # <<>>
      /\ \A x \in DOMAIN t.cells : e[x] = t.cells[x]
  BY DEF Commit, cellsCurrent, attached
<1>6. \A p \in Holder : rows[p] # Unfetched => rows[p] = inOrder(rowsIn(e, p))
  BY StateLists DEF Commit, orderingConflicts
<1> HIDE DEF c, t, rows, e, d
<1>7. ASSUME c.op = "add"
      PROVE  edited(e, d, t.writes) /\ addEffect(e, d, c, t.writes)
  <2>1. plansAdd(t, c, rows)
    BY <1>2, <1>7 DEF plans
  <2>2. rows[c.parent] = inOrder(rowsIn(e, c.parent))
    BY <1>3, <1>6, <2>1 DEF plansAdd
  <2>3. e[c.item].rank = <<>>
    BY <1>1, <1>3, <1>7
  <2> QED BY <1>1, <1>3, <1>4, <1>5, <2>1, <2>2, <2>3, AddCommits
<1>8. ASSUME c.op = "move"
      PROVE  edited(e, d, t.writes) /\ moveEffect(e, d, c, t.writes)
  <2>1. plansMove(t, c, rows)
    BY <1>2, <1>8 DEF plans
  <2>2. rows[c.parent] = inOrder(rowsIn(e, c.parent))
    BY <1>3, <1>6, <2>1 DEF plansMove
  <2> QED BY <1>1, <1>3, <1>4, <1>5, <2>1, <2>2, MoveCommits
<1>9. ASSUME c.op = "remove"
      PROVE  edited(e, d, t.writes) /\ removeEffect(e, d, c, t.writes)
  <2>1. plansRemove(t, c, rows)
    BY <1>2, <1>9 DEF plans
  <2> QED BY <1>1, <1>3, <1>4, <1>5, <1>6, <2>1, RemoveCommits
<1>10. ASSUME c.op = "reorder"
       PROVE  edited(e, d, t.writes) /\ reorderEffect(e, d, c, t.writes)
  <2>1. plansReorder(t, c, rows)
    BY <1>2, <1>10 DEF plans
  <2> QED BY <1>1, <1>3, <1>4, <1>5, <1>6, <2>1, ReorderCommits
<1>11. edited(e, d, t.writes)
  BY <1>3, <1>7, <1>8, <1>9, <1>10
<1> QED BY <1>3, <1>4, <1>7, <1>8, <1>9, <1>10, <1>11 DEF c, t, e, d

\* The items a commit writes: an item that was not there, for an add, and else
\* only items that were.
LEMMA CommitWrites ==
  ASSUME OutlineInv, NEW a \in Actor, Commit(a)
  PROVE  /\ DOMAIN plan[a].writes \subseteq Item
         /\ DOMAIN plan[a].writes \subseteq born \cup {turn[a].item}
         /\ turn[a].op # "add" => DOMAIN plan[a].writes \subseteq born
<1>1. \A i \in Item : edge[i].rank # <<>> => i \in born
  BY DEF OutlineInv, EdgesWellFormed
<1>2. /\ turn[a].item \in Item /\ turn[a].op \in {"add", "move", "reorder", "remove"}
      /\ turn[a].op = "add" => addEffect(edge, edge', turn[a], plan[a].writes)
      /\ turn[a].op = "move" => moveEffect(edge, edge', turn[a], plan[a].writes)
      /\ turn[a].op = "reorder" => reorderEffect(edge, edge', turn[a], plan[a].writes)
      /\ turn[a].op = "remove" => removeEffect(edge, edge', turn[a], plan[a].writes)
  BY CommitEdits
<1>3. CASE turn[a].op = "add"
  BY <1>2, <1>3 DEF addEffect
<1>4. CASE turn[a].op = "move"
  BY <1>1, <1>2, <1>4 DEF moveEffect
<1>5. CASE turn[a].op = "remove"
  BY <1>1, <1>2, <1>5 DEF removeEffect, kidsIn
<1>6. CASE turn[a].op = "reorder"
  <2>1. inPlace(edge, turn[a]).item = turn[a].item
    BY DEF inPlace
  <2>2. DOMAIN plan[a].writes = {turn[a].item} /\ edge[turn[a].item].rank # <<>>
    BY <1>2, <1>6, <2>1 DEF reorderEffect, moveEffect
  <2> QED BY <1>1, <1>2, <2>2
<1> QED BY <1>2, <1>3, <1>4, <1>5, <1>6

\* A call that a player can make.
LEMMA CallFacts ==
  ASSUME EdgesWellFormed, NEW c \in Calls
  PROVE  /\ c \in CallType /\ c.op \in {"add", "move", "reorder", "remove"} /\ c.item \in Item
         /\ c.op = "add" => c.item \notin known
         /\ c.op # "add" => c.item \in born
<1> DEFINE adds(p) == [op : {"add"}, item : Item \ known, parent : {p}, index : slots(p)]
           moves(p) == [op : {"move"}, item : {i \in Item : attached(i)}, parent : {p}, index : slots(p)]
           reorders(i) == [op : {"reorder"}, item : {i}, parent : {Root}, index : slots(edge[i].parent)]
           removes == [op : {"remove"}, item : {i \in Item : attached(i)}, parent : {Root}, index : {0}]
<1>1. \A p : slots(p) \subseteq 0 .. Cardinality(Item)
  <2> SUFFICES ASSUME NEW p PROVE slots(p) \subseteq 0 .. Cardinality(Item)
    OBVIOUS
  <2>1. IsFiniteSet(Item) /\ kids(p) \subseteq Item
    BY EdgesAssumption DEF kids
  <2>2. Cardinality(kids(p)) <= Cardinality(Item) /\ Cardinality(Item) \in Nat /\ Cardinality(kids(p)) \in Nat
    BY <2>1, FS_Subset, FS_CardinalityType
  <2> QED BY <2>2 DEF slots
<1>2. \A i \in Item : attached(i) => i \in born
  BY DEF EdgesWellFormed, attached
<1>3. \/ \E p \in Holder : c \in adds(p) \/ c \in moves(p)
      \/ \E i \in Item : attached(i) /\ c \in reorders(i)
      \/ c \in removes
  <2>1. Calls = (UNION {adds(p) \cup moves(p) : p \in {p \in Holder : usable(p)}})
                  \cup (UNION {reorders(i) : i \in {i \in Item : attached(i)}}) \cup removes
    BY DEF Calls
  <2> HIDE DEF adds, moves, reorders, removes
  <2> QED BY <2>1
<1>4. ASSUME NEW p \in Holder, c \in adds(p)
      PROVE  c \in CallType /\ c.op = "add" /\ c.item \in Item /\ c.item \notin known
  BY <1>1, <1>4 DEF CallType, Holder
<1>5. ASSUME NEW p \in Holder, c \in moves(p)
      PROVE  c \in CallType /\ c.op = "move" /\ c.item \in Item /\ c.item \in born
  BY <1>1, <1>2, <1>5 DEF CallType, Holder
<1>6. ASSUME c \in removes
      PROVE  c \in CallType /\ c.op = "remove" /\ c.item \in Item /\ c.item \in born
  <2>1. 0 \in 0 .. Cardinality(Item)
    BY EdgesAssumption, FS_CardinalityType
  <2> QED BY <1>2, <1>6, <2>1 DEF CallType, Holder
<1>7. ASSUME NEW i \in Item, attached(i), c \in reorders(i)
      PROVE  c \in CallType /\ c.op = "reorder" /\ c.item \in Item /\ c.item \in born
  BY <1>1, <1>2, <1>7 DEF CallType, Holder
<1> HIDE DEF adds, moves, reorders, removes
<1> QED BY <1>3, <1>4, <1>5, <1>6, <1>7

\* One call more, or one fewer, is in flight.
LEMMA InFlightCounts ==
  ASSUME NEW a \in Actor
  PROVE  /\ Cardinality(inFlight) \in Nat /\ Cardinality(inFlight') \in Nat
         /\ inFlight' \subseteq inFlight \cup {a} => Cardinality(inFlight') <= Cardinality(inFlight) + 1
         /\ inFlight' \subseteq inFlight => Cardinality(inFlight') <= Cardinality(inFlight)
         /\ a \in inFlight /\ inFlight' \subseteq inFlight \ {a} =>
              Cardinality(inFlight') + 1 <= Cardinality(inFlight)
<1>1. IsFiniteSet(Actor) /\ inFlight \subseteq Actor /\ inFlight' \subseteq Actor
  BY EdgesAssumption DEF inFlight
<1> DEFINE S == inFlight
           T == inFlight'
<1>2. IsFiniteSet(S) /\ IsFiniteSet(T)
  BY <1>1, FS_Subset
<1> HIDE DEF S, T
<1>3. Cardinality(S) \in Nat /\ Cardinality(T) \in Nat
  BY <1>2, FS_CardinalityType
<1>4. ASSUME T \subseteq S \cup {a} PROVE Cardinality(T) <= Cardinality(S) + 1
  <2>1. IsFiniteSet(S \cup {a}) /\ (Cardinality(S \cup {a}) = Cardinality(S) \/ Cardinality(S \cup {a}) = Cardinality(S) + 1)
    BY <1>2, FS_AddElement
  <2>2. Cardinality(T) <= Cardinality(S \cup {a})
    BY <1>4, <2>1, FS_Subset
  <2> QED BY <1>3, <2>1, <2>2
<1>5. T \subseteq S => Cardinality(T) <= Cardinality(S)
  BY <1>2, FS_Subset
<1>6. ASSUME a \in S, T \subseteq S \ {a} PROVE Cardinality(T) + 1 <= Cardinality(S)
  <2>1. IsFiniteSet(S \ {a}) /\ Cardinality(S \ {a}) = Cardinality(S) - 1
    BY <1>2, <1>6, FS_RemoveElement
  <2>2. Cardinality(T) <= Cardinality(S \ {a})
    BY <1>6, <2>1, FS_Subset
  <2> QED BY <1>3, <2>1, <2>2
<1> QED BY <1>3, <1>4, <1>5, <1>6 DEF S, T

\* The call types of a resolved turn.
LEMMA NoCallType == NoCall \in CallType /\ NoCall.op = "none" /\ NoCall.item = Root
<1>1. 0 \in 0 .. Cardinality(Item)
  BY EdgesAssumption, FS_CardinalityType
<1> QED BY <1>1 DEF NoCall, CallType, Holder

LEMMA InvCall ==
  ASSUME OutlineInv, NEW a \in Actor, Call(a)
  PROVE  OutlineInv'
<1>1. PICK c \in Calls : turn' = [turn EXCEPT ![a] = c]
  BY DEF Call
<1>2. UNCHANGED <<edge, born, fetched, plan, commits>> /\ turn[a] = NoCall
      /\ commits + Cardinality(inFlight) < MaxCommits
  BY DEF Call
<1>3. EdgesWellFormed /\ CallsWellFormed /\ FetchedWellFormed /\ PlansWellFormed /\ Bounded
  BY DEF OutlineInv
<1>4. /\ c \in CallType /\ c.op \in {"add", "move", "reorder", "remove"} /\ c.item \in Item
      /\ c.op = "add" => c.item \notin known
      /\ c.op # "add" => c.item \in born
  BY <1>3, CallFacts
<1>5. turn \in [Actor -> CallType] /\ turn'[a] = c /\ \A b \in Actor : b # a => turn'[b] = turn[b]
  BY <1>1, <1>3 DEF CallsWellFormed
<1>6. EdgesWellFormed' /\ FetchedWellFormed'
  BY <1>2, <1>3 DEF EdgesWellFormed, FetchedWellFormed
<1>7. CallsWellFormed'
  <2>1. turn' \in [Actor -> CallType]
    BY <1>1, <1>4, <1>5
  <2>2. ASSUME NEW b \in Actor
        PROVE  /\ turn'[b] = NoCall \/ (turn'[b].op # "none" /\ turn'[b].item \in Item)
               /\ turn'[b].op \in {"move", "reorder", "remove"} => turn'[b].item \in born
    BY <1>3, <1>4, <1>5 DEF CallsWellFormed
  <2>3. ASSUME NEW b \in Actor, turn'[b].op = "add"
        PROVE  turn'[b].item \notin born /\ \A x \in Actor : x # b => turn'[x].item # turn'[b].item
    <3>1. CASE b = a
      <4>1. c.item \notin born /\ \A x \in Actor : turn[x].item # c.item
        BY <1>4, <1>5, <2>3, <3>1 DEF known
      <4> QED BY <1>5, <3>1, <4>1
    <3>2. CASE b # a
      <4>1. /\ turn[b].item \notin born /\ turn[b].op = "add"
            /\ \A x \in Actor : x # b => turn[x].item # turn[b].item
        BY <1>3, <1>5, <2>3, <3>2 DEF CallsWellFormed
      <4>2. c.item # turn[b].item
        BY <1>4, <4>1 DEF known
      <4> QED BY <1>5, <3>2, <4>1, <4>2
    <3> QED BY <3>1, <3>2
  <2> QED BY <1>2, <2>1, <2>2, <2>3 DEF CallsWellFormed
<1>8. PlansWellFormed'
  <2>1. ASSUME NEW b \in Actor, plan[b] # NoPlan
        PROVE  plans(plan[b], turn'[b], fetched[b])
    <3>1. plans(plan[b], turn[b], fetched[b])
      BY <1>3, <2>1 DEF PlansWellFormed
    <3>2. b # a
      BY <1>2, <3>1 DEF plans
    <3> QED BY <1>5, <3>1, <3>2
  <2>2. plan = [b \in Actor |-> plan[b]]
    BY <1>3 DEF PlansWellFormed
  <2> QED BY <1>2, <2>1, <2>2 DEF PlansWellFormed
<1>9. Bounded'
  <2>1. inFlight' \subseteq inFlight \cup {a}
    BY <1>5 DEF inFlight
  <2>2. Cardinality(inFlight') <= Cardinality(inFlight) + 1 /\ Cardinality(inFlight) \in Nat /\ Cardinality(inFlight') \in Nat
    BY <2>1, InFlightCounts
  <2>3. commits \in Nat /\ commits' = commits /\ MaxCommits \in Nat
    BY <1>2, <1>3, EdgesAssumption DEF Bounded
  <2>4. commits + Cardinality(inFlight') <= MaxCommits
    BY <1>2, <2>2, <2>3
  <2> QED BY <2>3, <2>4 DEF Bounded
<1> QED BY <1>6, <1>7, <1>8, <1>9 DEF OutlineInv

LEMMA InvFetch ==
  ASSUME OutlineInv, NEW a \in Actor, NEW p \in Holder, Fetch(a, p)
  PROVE  OutlineInv'
<1>1. UNCHANGED <<edge, born, turn, plan, commits>> /\ plan[a] = NoPlan
      /\ fetched' = [fetched EXCEPT ![a][p] = orderedChildren(p)]
  BY DEF Fetch
<1>2. EdgesWellFormed /\ CallsWellFormed /\ FetchedWellFormed /\ PlansWellFormed /\ Bounded
  BY DEF OutlineInv
<1>3. orderedChildren(p) \in Listing
  BY <1>2, StateLists DEF EdgesWellFormed, sound, listed
<1>4. fetched' \in [Actor -> [Holder -> {Unfetched} \cup Listing]]
      /\ \A b \in Actor : b # a => fetched'[b] = fetched[b]
  BY <1>1, <1>2, <1>3 DEF FetchedWellFormed
<1>5. PlansWellFormed'
  BY <1>1, <1>2, <1>4 DEF PlansWellFormed
<1>6. EdgesWellFormed' /\ CallsWellFormed' /\ Bounded'
  BY <1>1, <1>2 DEF EdgesWellFormed, CallsWellFormed, Bounded, inFlight
<1> QED BY <1>4, <1>5, <1>6 DEF OutlineInv, FetchedWellFormed

\* A resolved turn leaves nothing of its call.
LEMMA Resolved ==
  ASSUME CallsWellFormed, FetchedWellFormed, NEW a \in Actor, resolved(a)
  PROVE  /\ turn' \in [Actor -> CallType] /\ turn'[a] = NoCall
         /\ \A b \in Actor : b # a => turn'[b] = turn[b] /\ fetched'[b] = fetched[b]
         /\ fetched' \in [Actor -> [Holder -> {Unfetched} \cup Listing]]
         /\ turn[a] # NoCall => Cardinality(inFlight') + 1 <= Cardinality(inFlight)
<1>1. turn' = [turn EXCEPT ![a] = NoCall]
      /\ fetched' = [fetched EXCEPT ![a] = [p \in Holder |-> Unfetched]]
  BY DEF resolved
<1>2. turn \in [Actor -> CallType] /\ fetched \in [Actor -> [Holder -> {Unfetched} \cup Listing]]
  BY DEF CallsWellFormed, FetchedWellFormed
<1>3. turn' \in [Actor -> CallType] /\ turn'[a] = NoCall /\ \A b \in Actor : b # a => turn'[b] = turn[b]
  BY <1>1, <1>2, NoCallType
<1>4. /\ fetched' \in [Actor -> [Holder -> {Unfetched} \cup Listing]]
      /\ \A b \in Actor : b # a => fetched'[b] = fetched[b]
  <2>1. [p \in Holder |-> Unfetched] \in [Holder -> {Unfetched} \cup Listing]
    OBVIOUS
  <2> QED BY <1>1, <1>2, <2>1
<1>5. ASSUME turn[a] # NoCall
      PROVE  Cardinality(inFlight') + 1 <= Cardinality(inFlight)
  <2>1. a \in inFlight /\ inFlight' \subseteq inFlight \ {a}
    BY <1>3, <1>5 DEF inFlight
  <2> QED BY <2>1, InFlightCounts
<1> QED BY <1>3, <1>4, <1>5

\* A turn that ends leaves the calls of the others well-formed, when the items
\* added meanwhile are not theirs.
LEMMA OthersCalls ==
  ASSUME CallsWellFormed, NEW a \in Actor, turn' \in [Actor -> CallType], turn'[a] = NoCall,
         \A b \in Actor : b # a => turn'[b] = turn[b],
         born \subseteq born',
         \A b \in Actor : b # a /\ turn[b].op = "add" => turn[b].item \notin born'
  PROVE  CallsWellFormed'
<1>1. ASSUME NEW b \in Actor
      PROVE  /\ turn'[b] = NoCall \/ (turn'[b].op # "none" /\ turn'[b].item \in Item)
             /\ turn'[b].op \in {"move", "reorder", "remove"} => turn'[b].item \in born'
  <2>1. CASE b = a
    BY <2>1, NoCallType
  <2>2. CASE b # a
    BY <2>2 DEF CallsWellFormed
  <2> QED BY <2>1, <2>2
<1>2. ASSUME NEW b \in Actor, turn'[b].op = "add"
      PROVE  turn'[b].item \notin born' /\ \A x \in Actor : x # b => turn'[x].item # turn'[b].item
  <2>1. b # a /\ turn'[b] = turn[b]
    BY <1>2, NoCallType
  <2>2. /\ turn[b].item \notin born' /\ turn[b].item \in Item
        /\ \A x \in Actor : x # b => turn[x].item # turn[b].item
    BY <1>2, <2>1, NoCallType DEF CallsWellFormed
  <2>3. turn'[a].item # turn[b].item
    BY <2>2, NoCallType, EdgesAssumption
  <2> QED BY <2>1, <2>2, <2>3
<1> QED BY <1>1, <1>2 DEF CallsWellFormed

LEMMA InvPlan ==
  ASSUME OutlineInv, NEW a \in Actor, Plan(a)
  PROVE  OutlineInv'
<1> DEFINE t == planned(turn[a], fetched[a])
<1>1. /\ UNCHANGED <<edge, born, commits>> /\ turn[a] # NoCall /\ plan[a] = NoPlan
      /\ \A p \in needs(turn[a]) : fetched[a][p] # Unfetched
  BY DEF Plan
<1>2. \/ t = NoPlan /\ resolved(a) /\ UNCHANGED plan
      \/ t # NoPlan /\ plan' = [plan EXCEPT ![a] = t] /\ UNCHANGED <<turn, fetched>>
  BY DEF Plan
<1>3. EdgesWellFormed /\ CallsWellFormed /\ FetchedWellFormed /\ PlansWellFormed /\ Bounded
  BY DEF OutlineInv
<1>4. EdgesWellFormed'
  BY <1>1, <1>3 DEF EdgesWellFormed
<1>5. t # NoPlan => plans(t, turn[a], fetched[a])
  BY <1>1, <1>3, PlanFollows
<1> HIDE DEF t
<1>6. CASE t = NoPlan /\ resolved(a) /\ UNCHANGED plan
  <2>1. /\ turn' \in [Actor -> CallType] /\ turn'[a] = NoCall
        /\ \A b \in Actor : b # a => turn'[b] = turn[b] /\ fetched'[b] = fetched[b]
        /\ fetched' \in [Actor -> [Holder -> {Unfetched} \cup Listing]]
        /\ Cardinality(inFlight') + 1 <= Cardinality(inFlight)
    BY <1>1, <1>3, <1>6, Resolved
  <2>2. CallsWellFormed'
    <3>1. \A b \in Actor : b # a /\ turn[b].op = "add" => turn[b].item \notin born'
      BY <1>1, <1>3 DEF CallsWellFormed
    <3>2. born \subseteq born'
      BY <1>1
    <3> QED BY <1>3, <2>1, <3>1, <3>2, OthersCalls
  <2>3. PlansWellFormed'
    <3>1. ASSUME NEW b \in Actor, plan[b] # NoPlan
          PROVE  plans(plan[b], turn'[b], fetched'[b])
      <4>1. b # a /\ plans(plan[b], turn[b], fetched[b])
        BY <1>1, <1>3, <3>1 DEF PlansWellFormed
      <4> QED BY <2>1, <4>1
    <3>2. plan = [b \in Actor |-> plan[b]]
      BY <1>3 DEF PlansWellFormed
    <3> QED BY <1>6, <3>1, <3>2 DEF PlansWellFormed
  <2>4. Bounded'
    <3>1. Cardinality(inFlight) \in Nat /\ Cardinality(inFlight') \in Nat
      BY InFlightCounts
    <3>2. commits \in Nat /\ commits' = commits /\ MaxCommits \in Nat
          /\ commits + Cardinality(inFlight) <= MaxCommits
      BY <1>1, <1>3, EdgesAssumption DEF Bounded
    <3>3. commits + Cardinality(inFlight') <= MaxCommits
      BY <2>1, <3>1, <3>2
    <3> QED BY <3>2, <3>3 DEF Bounded
  <2> QED BY <1>4, <2>1, <2>2, <2>3, <2>4 DEF OutlineInv, FetchedWellFormed
<1>7. CASE t # NoPlan /\ plan' = [plan EXCEPT ![a] = t] /\ UNCHANGED <<turn, fetched>>
  <2>1. CallsWellFormed' /\ FetchedWellFormed' /\ Bounded'
    BY <1>1, <1>3, <1>7 DEF CallsWellFormed, FetchedWellFormed, Bounded, inFlight
  <2>2. plan' = [b \in Actor |-> plan'[b]] /\ plan'[a] = t /\ \A b \in Actor : b # a => plan'[b] = plan[b]
    BY <1>3, <1>7 DEF PlansWellFormed
  <2>3. ASSUME NEW b \in Actor, plan'[b] # NoPlan
        PROVE  plans(plan'[b], turn[b], fetched[b])
    <3>1. CASE b = a
      BY <1>5, <1>7, <2>2, <3>1
    <3>2. CASE b # a
      BY <1>3, <2>2, <2>3, <3>2 DEF PlansWellFormed
    <3> QED BY <3>1, <3>2
  <2>4. PlansWellFormed'
    BY <1>7, <2>2, <2>3 DEF PlansWellFormed
  <2> QED BY <1>4, <2>1, <2>4 DEF OutlineInv
<1> QED BY <1>2, <1>6, <1>7

LEMMA InvMismatch ==
  ASSUME OutlineInv, NEW a \in Actor, Mismatch(a)
  PROVE  OutlineInv'
<1>1. UNCHANGED <<edge, born, turn, commits>> /\ plan' = [plan EXCEPT ![a] = NoPlan]
      /\ (UNCHANGED fetched \/ fetched' = [fetched EXCEPT ![a] =
             [p \in Holder |-> IF p \in orderingConflicts(a) THEN Unfetched ELSE @[p]]])
  BY DEF Mismatch
<1>2. EdgesWellFormed /\ CallsWellFormed /\ FetchedWellFormed /\ PlansWellFormed /\ Bounded
  BY DEF OutlineInv
<1>3. fetched' \in [Actor -> [Holder -> {Unfetched} \cup Listing]]
      /\ \A b \in Actor : b # a => fetched'[b] = fetched[b]
  <2> DEFINE kept == [p \in Holder |-> IF p \in orderingConflicts(a) THEN Unfetched ELSE fetched[a][p]]
  <2>1. fetched \in [Actor -> [Holder -> {Unfetched} \cup Listing]]
    BY <1>2 DEF FetchedWellFormed
  <2>2. kept \in [Holder -> {Unfetched} \cup Listing]
    BY <2>1
  <2>3. UNCHANGED fetched \/ fetched' = [fetched EXCEPT ![a] = kept]
    BY <1>1
  <2> HIDE DEF kept
  <2> QED BY <2>1, <2>2, <2>3
<1>4. PlansWellFormed'
  <2>1. plan' = [b \in Actor |-> plan'[b]] /\ plan'[a] = NoPlan /\ \A b \in Actor : b # a => plan'[b] = plan[b]
    BY <1>1, <1>2 DEF PlansWellFormed
  <2> QED BY <1>1, <1>2, <1>3, <2>1 DEF PlansWellFormed
<1>5. EdgesWellFormed' /\ CallsWellFormed' /\ Bounded'
  BY <1>1, <1>2 DEF EdgesWellFormed, CallsWellFormed, Bounded, inFlight
<1> QED BY <1>3, <1>4, <1>5 DEF OutlineInv, FetchedWellFormed

LEMMA InvCommit ==
  ASSUME OutlineInv, NEW a \in Actor, Commit(a)
  PROVE  OutlineInv'
<1> DEFINE w == plan[a].writes
<1>1. EdgesWellFormed /\ CallsWellFormed /\ FetchedWellFormed /\ PlansWellFormed /\ Bounded
  BY DEF OutlineInv
<1>2. /\ plan' = [plan EXCEPT ![a] = NoPlan] /\ resolved(a) /\ commits' = commits + 1
      /\ plan[a] # NoPlan /\ turn[a] # NoCall
  BY <1>1 DEF Commit, PlansWellFormed, plans
<1>3. /\ turn[a].item \in Item /\ turn[a].op \in {"add", "move", "reorder", "remove"}
      /\ born' = born \cup DOMAIN w /\ edited(edge, edge', w)
  BY CommitEdits
<1>4. /\ DOMAIN w \subseteq Item /\ DOMAIN w \subseteq born \cup {turn[a].item}
      /\ turn[a].op # "add" => DOMAIN w \subseteq born
  BY CommitWrites
<1> HIDE DEF w
<1>5. EdgesWellFormed'
  <2>1. sound(edge') /\ born' \subseteq Item
    BY <1>1, <1>3, <1>4 DEF EdgesWellFormed, edited
  <2>2. \A i \in Item : edge'[i].rank # <<>> => i \in born'
    BY <1>1, <1>3 DEF EdgesWellFormed, edited
  <2> QED BY <2>1, <2>2 DEF EdgesWellFormed
<1>6. /\ turn' \in [Actor -> CallType] /\ turn'[a] = NoCall
      /\ \A b \in Actor : b # a => turn'[b] = turn[b] /\ fetched'[b] = fetched[b]
      /\ fetched' \in [Actor -> [Holder -> {Unfetched} \cup Listing]]
      /\ Cardinality(inFlight') + 1 <= Cardinality(inFlight)
  BY <1>1, <1>2, Resolved
<1>7. CallsWellFormed'
  <2>1. ASSUME NEW b \in Actor, b # a, turn[b].op = "add"
        PROVE  turn[b].item \notin born'
    BY <1>1, <1>3, <1>4, <2>1 DEF CallsWellFormed
  <2>2. born \subseteq born'
    BY <1>3
  <2> QED BY <1>1, <1>6, <2>1, <2>2, OthersCalls
<1>8. PlansWellFormed'
  <2>1. plan' = [b \in Actor |-> plan'[b]] /\ plan'[a] = NoPlan /\ \A b \in Actor : b # a => plan'[b] = plan[b]
    BY <1>1, <1>2 DEF PlansWellFormed
  <2> QED BY <1>1, <1>6, <2>1 DEF PlansWellFormed
<1>9. Bounded'
  <2>1. Cardinality(inFlight) \in Nat /\ Cardinality(inFlight') \in Nat
    BY InFlightCounts
  <2>2. commits \in Nat /\ MaxCommits \in Nat /\ commits + Cardinality(inFlight) <= MaxCommits
    BY <1>1, EdgesAssumption DEF Bounded
  <2>3. commits + 1 + Cardinality(inFlight') <= MaxCommits /\ commits + 1 \in Nat
    BY <1>6, <2>1, <2>2
  <2> QED BY <1>2, <2>3 DEF Bounded
<1> QED BY <1>5, <1>6, <1>7, <1>8, <1>9 DEF OutlineInv, FetchedWellFormed

LEMMA InvInit == Init => OutlineInv
<1> SUFFICES ASSUME Init PROVE OutlineInv
  OBVIOUS
<1>1. /\ edge = [i \in Item |-> Detached] /\ born = {} /\ commits = 0
      /\ turn = [a \in Actor |-> NoCall] /\ plan = [a \in Actor |-> NoPlan]
      /\ fetched = [a \in Actor |-> [p \in Holder |-> Unfetched]]
  BY DEF Init
<1>2. \A i \in Item : edge[i].rank = <<>> /\ edge[i].parent = Root
  BY <1>1 DEF Detached
<1>3. sound(edge)
  <2>1. edge \in Edges
    <3>1. <<>> \in Rank
      BY DEF Rank
    <3>2. Detached \in [parent : Holder, rank : Rank] /\ Detached.rank = <<>>
      BY <3>1 DEF Detached, Holder
    <3> HIDE DEF Detached
    <3> QED BY <1>1, <3>2 DEF Edges
  <2>2. rooted(edge)
    BY <1>2 DEF rooted
  <2>3. acyclic(edge)
    BY <1>2, EdgesAssumption DEF acyclic
  <2>4. \A q \in Holder : listed(edge, q)
    <3> SUFFICES ASSUME NEW q \in Holder PROVE listed(edge, q)
      OBVIOUS
    <3>1. rowsIn(edge, q) = {}
      BY <1>2 DEF rowsIn
    <3> QED BY <3>1, NoRows DEF listed
  <2> QED BY <2>1, <2>2, <2>3, <2>4 DEF sound
<1>4. EdgesWellFormed
  BY <1>1, <1>2, <1>3 DEF EdgesWellFormed
<1>5. CallsWellFormed
  BY <1>1, NoCallType DEF CallsWellFormed
<1>6. FetchedWellFormed
  BY <1>1 DEF FetchedWellFormed
<1>7. PlansWellFormed
  BY <1>1 DEF PlansWellFormed
<1>8. Bounded
  <2>1. inFlight = {}
    BY <1>1 DEF inFlight
  <2>2. Cardinality(inFlight) = 0
    BY <2>1, FS_EmptySet
  <2> QED BY <1>1, <2>2, EdgesAssumption DEF Bounded
<1> QED BY <1>4, <1>5, <1>6, <1>7, <1>8 DEF OutlineInv

LEMMA InvStep == OutlineInv /\ [Next]_vars => OutlineInv'
<1> SUFFICES ASSUME OutlineInv, [Next]_vars PROVE OutlineInv'
  OBVIOUS
<1>1. ASSUME NEW a \in Actor, Call(a) PROVE OutlineInv'
  BY <1>1, InvCall
<1>2. ASSUME NEW a \in Actor, Plan(a) PROVE OutlineInv'
  BY <1>2, InvPlan
<1>3. ASSUME NEW a \in Actor, Commit(a) PROVE OutlineInv'
  BY <1>3, InvCommit
<1>4. ASSUME NEW a \in Actor, Mismatch(a) PROVE OutlineInv'
  BY <1>4, InvMismatch
<1>5. ASSUME NEW a \in Actor, NEW p \in Holder, Fetch(a, p) PROVE OutlineInv'
  BY <1>5, InvFetch
<1>6. CASE UNCHANGED vars
  BY <1>6 DEF vars, OutlineInv, EdgesWellFormed, CallsWellFormed, FetchedWellFormed, PlansWellFormed,
              Bounded, inFlight
<1> QED BY <1>1, <1>2, <1>3, <1>4, <1>5, <1>6 DEF Next

THEOREM OutlineInvariant == Spec => []OutlineInv
BY InvInit, InvStep, PTL DEF Spec

\* The list of a parent has the items whose edges name it, and what is left of
\* it without an item is a list of items.
LEMMA ChildrenFacts ==
  ASSUME NEW e, sound(e), NEW p \in Holder, NEW i \in Item
  PROVE  /\ childrenAt(e, p) \in Seq(Item) /\ Len(childrenAt(e, p)) \in Nat
         /\ RemoveFirst(childrenAt(e, p), i) \in Seq(Item)
         /\ Len(RemoveFirst(childrenAt(e, p), i)) \in Nat
         /\ Len(RemoveFirst(childrenAt(e, p), i)) <= Len(childrenAt(e, p))
         /\ i \in kidsIn(e, p) <=> \E k \in DOMAIN childrenAt(e, p) : childrenAt(e, p)[k] = i
<1> DEFINE s == inOrder(rowsIn(e, p))
           c == childrenAt(e, p)
<1>1. s \in Listing /\ entries(s) = rowsIn(e, p) /\ e \in Edges
  BY DEF sound, listed
<1>2. c = childrenOf(s)
  BY DEF childrenAt
<1> HIDE DEF s, c
<1>3. /\ s \in Seq(Row) /\ Len(s) \in Nat /\ DOMAIN s = 1 .. Len(s)
      /\ c \in Seq(Item) /\ Len(c) = Len(s) /\ DOMAIN c = 1 .. Len(s)
      /\ \A k \in 1 .. Len(s) : c[k] = s[k].child
      /\ \A j, k \in 1 .. Len(s) : s[j].child = s[k].child => j = k
  BY <1>1, <1>2, ListingFacts, LenProperties
<1>4. without(s, i) \in Listing /\ childrenOf(without(s, i)) = RemoveFirst(c, i)
  BY <1>1, <1>2, ListingWithout
<1>5. RemoveFirst(c, i) \in Seq(Item) /\ Len(RemoveFirst(c, i)) \in Nat
  <2>1. \A t \in Listing : childrenOf(t) \in Seq(Item)
    BY ListingFacts
  <2> QED BY <1>4, <2>1, LenProperties
<1>6. Len(RemoveFirst(c, i)) <= Len(c)
  <2>1. CASE \A k \in 1 .. Len(c) : c[k] # i
    BY <1>3, <2>1, RemoveFirstFacts
  <2>2. CASE \E k \in 1 .. Len(c) : c[k] = i
    <3>1. PICK k \in 1 .. Len(c) : c[k] = i
      BY <2>2
    <3>2. \A j \in 1 .. Len(c) : c[j] = i => j = k
      BY <1>3, <3>1
    <3>3. RemoveFirst(c, i) = RemoveAt(c, k)
      BY <1>3, <3>1, <3>2, RemoveFirstFacts
    <3>4. Len(RemoveAt(c, k)) = Len(c) - 1
      <4>1. \A q \in Seq(Item) : \A j \in 1 .. Len(q) : Len(RemoveAt(q, j)) = Len(q) - 1
        BY DropFacts
      <4>2. c \in Seq(Item) /\ k \in 1 .. Len(c)
        BY <1>3
      <4> QED BY <4>1, <4>2
    <3> QED BY <1>3, <3>3, <3>4
  <2> QED BY <2>1, <2>2
<1>7. i \in kidsIn(e, p) <=> [child |-> i, rank |-> e[i].rank] \in rowsIn(e, p)
  BY <1>1 DEF rowsIn, kidsIn
<1>8. [child |-> i, rank |-> e[i].rank] \in rowsIn(e, p) <=> \E k \in 1 .. Len(s) : s[k].child = i
  <2>1. \A row \in rowsIn(e, p) : row = [child |-> row.child, rank |-> e[row.child].rank]
    BY <1>1 DEF rowsIn
  <2> QED BY <1>1, <1>3, <2>1 DEF entries
<1> QED BY <1>3, <1>5, <1>6, <1>7, <1>8 DEF c

\* A turn that is over and had an effect on the edges was committed.
LEMMA OnlyCommits ==
  ASSUME [Next]_vars
  PROVE  UNCHANGED <<edge, born>> \/ \E b \in Actor : Commit(b)
BY DEF Next, vars, Call, Plan, Mismatch, Fetch

\* Every stored edge has a parent and a key over the digit alphabet, and every
\* call in flight has its shape (TypeOK; the cells of core/ordered-edge.ts).
THEOREM OutlineTypeCorrect == Spec => []TypeOK
<1>1. OutlineInv => TypeOK
  <2> SUFFICES ASSUME OutlineInv PROVE TypeOK
    OBVIOUS
  <2>1. \A i \in Item : edge[i].parent \in Holder /\ edge[i].rank \in Rank
    BY DEF OutlineInv, EdgesWellFormed, sound, Edges
  <2>2. born \subseteq Item
    BY DEF OutlineInv, EdgesWellFormed
  <2>3. commits \in 0 .. MaxCommits
    <3>1. Cardinality(inFlight) \in Nat
      <4>1. inFlight \subseteq Actor
        BY DEF inFlight
      <4> QED BY <4>1, EdgesAssumption, FS_Subset, FS_CardinalityType
    <3> QED BY <3>1, EdgesAssumption DEF OutlineInv, Bounded
  <2>4. \A a \in Actor : turn[a] \in CallType
    BY DEF OutlineInv, CallsWellFormed
  <2>5. \A a \in Actor : turn[a] = NoCall => plan[a] = NoPlan
    BY DEF OutlineInv, PlansWellFormed, plans
  <2> QED BY <2>1, <2>2, <2>3, <2>4, <2>5 DEF TypeOK, CallType
<1> QED BY <1>1, OutlineInvariant, PTL

\* Whatever the order of concurrent edits, siblings ascend strictly and every
\* slot has a key between its neighbours (EverySlotOpen; rankBetween and
\* orderedNeighborsFromRows never have to renumber).
THEOREM SlotsOpen == Spec => []EverySlotOpen
<1>1. OutlineInv => EverySlotOpen
  <2> SUFFICES ASSUME OutlineInv, NEW p \in Holder, NEW s, s = orderedChildren(p)
               PROVE  /\ \A k \in 1 .. Len(s) - 1 : sortsBefore(s[k].rank, s[k + 1].rank)
                      /\ \A k \in 0 .. Len(s) : fits(slotRank(s, k), before(s, k), after(s, k))
    BY DEF EverySlotOpen
  <2>1. s \in Listing
    BY StateLists DEF OutlineInv, EdgesWellFormed, sound, listed
  <2>2. \A k \in 0 .. Len(s) : fits(slotRank(s, k), before(s, k), after(s, k))
    BY <2>1, SlotFits
  <2>3. /\ Len(s) \in Nat
        /\ \A j, k \in 1 .. Len(s) : j < k => sortsBefore(s[j].rank, s[k].rank)
    BY <2>1, ListingFacts
  <2>4. ASSUME NEW k \in 1 .. Len(s) - 1
        PROVE  sortsBefore(s[k].rank, s[k + 1].rank)
    <3>1. k \in 1 .. Len(s) /\ k + 1 \in 1 .. Len(s) /\ k < k + 1
      BY <2>3
    <3> QED BY <2>3, <3>1
  <2> QED BY <2>2, <2>4
<1> QED BY <1>1, OutlineInvariant, PTL

\* An item added, moved or reordered stands, at the commit, at the index that its player
\* asked for (AskedSlot; the versions a transcript attests are compared at the
\* head, so the slot its rank was chosen for is still the slot).
THEOREM AskedSlots == Spec => AskedSlot
<1> DEFINE Stands(a, c, p) ==
      edge' # edge /\ c.op \in {"add", "move", "reorder"} /\ turn'[a] = NoCall =>
        \E k \in DOMAIN childList(p)' :
          k = c.index + 1 /\ childList(p)'[k] = c.item
<1>1. ASSUME OutlineInv, [Next]_vars, NEW a \in Actor, NEW c, c = turn[a], NEW p, p = target(c)
      PROVE  Stands(a, c, p)
  <2> SUFFICES ASSUME edge' # edge, c.op \in {"add", "move", "reorder"}, turn'[a] = NoCall
               PROVE  \E k \in DOMAIN childrenAt(edge', p) :
                        k = c.index + 1 /\ childrenAt(edge', p)[k] = c.item
    BY StateLists
  <2>1. PICK b \in Actor : Commit(b)
    BY <1>1, OnlyCommits
  <2>2. b = a
    <3>1. turn' = [turn EXCEPT ![b] = NoCall] /\ turn \in [Actor -> CallType]
      BY <1>1, <2>1 DEF Commit, resolved, OutlineInv, CallsWellFormed
    <3>2. turn[a] # NoCall
      BY <1>1, NoCallType
    <3> QED BY <3>1, <3>2
  <2> DEFINE w == plan[a].writes
             old == childrenAt(edge, p)
             new == childrenAt(edge', p)
             rest == RemoveFirst(old, c.item)
             mv == IF c.op = "reorder" THEN inPlace(edge, c) ELSE c
  <2>3. /\ mv \in CallType /\ mv.item = c.item /\ mv.parent = p /\ mv.index = c.index /\ c.item \in Item
        /\ c.op = "add" => addEffect(edge, edge', mv, w)
        /\ c.op \in {"move", "reorder"} => moveEffect(edge, edge', mv, w)
    <3>1. /\ c \in CallType /\ c.item \in Item
          /\ c.op = "add" => addEffect(edge, edge', c, w)
          /\ c.op = "move" => moveEffect(edge, edge', c, w)
          /\ c.op = "reorder" => reorderEffect(edge, edge', c, w)
      BY <1>1, <2>1, <2>2, CommitEdits
    <3> HIDE DEF w
    <3>2. CASE c.op = "reorder"
      <4>1. mv = inPlace(edge, c) /\ p = edge[c.item].parent
        BY <1>1, <3>2 DEF target
      <4>2. /\ inPlace(edge, c).item = c.item /\ inPlace(edge, c).parent = edge[c.item].parent
            /\ inPlace(edge, c).index = c.index
        BY <3>1 DEF inPlace, CallType
      <4>3. inPlace(edge, c) \in CallType /\ moveEffect(edge, edge', inPlace(edge, c), w)
        BY <3>1, <3>2 DEF reorderEffect
      <4> HIDE DEF mv
      <4> QED BY <3>1, <3>2, <4>1, <4>2, <4>3
    <3>3. CASE c.op # "reorder"
      BY <1>1, <3>1, <3>3 DEF target
    <3> QED BY <3>2, <3>3
  <2> HIDE DEF mv
  <2>4. p \in Holder /\ c.index \in Nat
    BY <2>3 DEF CallType
  <2>5. /\ old \in Seq(Item) /\ Len(old) \in Nat /\ rest \in Seq(Item) /\ Len(rest) \in Nat
    BY <1>1, <2>3, <2>4, ChildrenFacts DEF OutlineInv, EdgesWellFormed
  <2>6. PICK m \in Nat : m = c.index + 1
    BY <2>4
  <2>7. \E q \in Seq(Item) : c.index \in 0 .. Len(q) /\ new = InsertAt(q, m, c.item)
    <3>1. CASE c.op = "add"
      <4>1. c.index <= Len(old) /\ new = InsertAt(old, m, c.item)
        BY <2>3, <2>4, <2>6, <3>1 DEF addEffect
      <4> HIDE DEF old, new, rest
      <4> QED BY <2>4, <2>5, <4>1
    <3>2. CASE c.op \in {"move", "reorder"}
      <4>1. c.index <= Len(rest) /\ new = InsertAt(rest, m, c.item)
        BY <2>3, <2>4, <2>6, <3>2 DEF moveEffect
      <4> HIDE DEF old, new, rest
      <4> QED BY <2>4, <2>5, <4>1
    <3> QED BY <3>1, <3>2
  <2> HIDE DEF old, new, rest
  <2>8. PICK q \in Seq(Item) : c.index \in 0 .. Len(q) /\ new = InsertAt(q, m, c.item)
    BY <2>7
  <2>9. /\ new \in Seq(Item) /\ Len(new) = Len(q) + 1 /\ Len(q) \in Nat
        /\ \A i \in 1 .. Len(q) + 1 :
             new[i] = IF i <= c.index THEN q[i] ELSE IF i = c.index + 1 THEN c.item ELSE q[i - 1]
    <3>1. \A x \in Item : \A k \in 0 .. Len(q) : \A n : n = k + 1 =>
            /\ InsertAt(q, n, x) \in Seq(Item) /\ Len(InsertAt(q, n, x)) = Len(q) + 1
            /\ \A i \in 1 .. Len(q) + 1 :
                 InsertAt(q, n, x)[i] = IF i <= k THEN q[i] ELSE IF i = k + 1 THEN x ELSE q[i - 1]
      BY InsertFacts
    <3>2. Len(q) \in Nat
      BY LenProperties
    <3>3. /\ InsertAt(q, m, c.item) \in Seq(Item) /\ Len(InsertAt(q, m, c.item)) = Len(q) + 1
          /\ \A i \in 1 .. Len(q) + 1 :
               InsertAt(q, m, c.item)[i] = IF i <= c.index THEN q[i]
                                           ELSE IF i = c.index + 1 THEN c.item ELSE q[i - 1]
      BY <2>3, <2>6, <2>8, <3>1
    <3> QED BY <2>8, <3>2, <3>3
  <2>10. DOMAIN new = 1 .. Len(q) + 1
    BY <2>9, LenProperties
  <2>11. m \in 1 .. Len(q) + 1 /\ new[m] = c.item
    BY <2>4, <2>6, <2>8, <2>9
  <2> QED BY <2>6, <2>10, <2>11 DEF new
<1>2. OutlineInv /\ [Next]_vars =>
        \A a \in Actor : \A c \in {turn[a]} : \A p \in {target(c)} : Stands(a, c, p)
  BY <1>1
<1> QED BY <1>2, OutlineInvariant, PTL DEF Spec, AskedSlot

\* The state of the forest that the edges e stand for: an item is held by the
\* parent that its edge names.
LEMMA HeldAt ==
  ASSUME OutlineInv
  PROVE  /\ \A p \in Holder, i \in Item : Forest!holds(p, i) <=> i \in kidsIn(edge, p)
         /\ \A p \in Holder : p # Root => (Forest!present(p) <=> edge[p].rank # <<>>)
<1>1. sound(edge) /\ edge \in Edges
  BY DEF OutlineInv, EdgesWellFormed, sound
<1>2. ASSUME NEW p \in Holder, NEW i \in Item
      PROVE  Forest!holds(p, i) <=> i \in kidsIn(edge, p)
  <2>1. i \in kidsIn(edge, p) <=> \E k \in DOMAIN childrenAt(edge, p) : childrenAt(edge, p)[k] = i
    BY <1>1, <1>2, ChildrenFacts
  <2>2. childList(p) = childrenAt(edge, p)
    BY StateLists
  <2>3. Forest!holds(p, i) <=> \E k \in DOMAIN childList(p) : childList(p)[k] = i
    BY <1>2 DEF Forest!holds
  <2> QED BY <2>1, <2>2, <2>3
<1>3. ASSUME NEW p \in Holder, p # Root
      PROVE  Forest!present(p) <=> edge[p].rank # <<>>
  <2>1. p \in Item
    BY <1>3 DEF Holder
  <2>2. Forest!present(p) <=> \E q \in Holder : Forest!holds(q, p)
    BY DEF Forest!present, Forest!Holder, Holder
  <2>3. Forest!present(p) <=> \E q \in Holder : p \in kidsIn(edge, q)
    BY <1>2, <2>1, <2>2
  <2>4. edge[p].parent \in Holder
    BY <1>1, <2>1 DEF Edges
  <2> QED BY <2>1, <2>3, <2>4 DEF kidsIn
<1> QED BY <1>2, <1>3

\* The list operations of the forest are those of the edges.
LEMMA SameOperations ==
  /\ \A s, k, x : Forest!InsertAt(s, k, x) = InsertAt(s, k, x)
  /\ \A s, x : Forest!RemoveFirst(s, x) = RemoveFirst(s, x)
<1>1. \A s, k, x : Forest!InsertAt(s, k, x) = InsertAt(s, k, x)
  BY DEF Forest!InsertAt, InsertAt
<1>2. ASSUME NEW s, NEW x PROVE Forest!RemoveFirst(s, x) = RemoveFirst(s, x)
  <2>1. Forest!SelectInSeq(s, LAMBDA v : v = x) = SelectInSeq(s, LAMBDA v : v = x)
    BY DEF Forest!SelectInSeq, SelectInSeq, Forest!Min, Min
  <2>2. \A k : Forest!RemoveAt(s, k) = RemoveAt(s, k)
    BY DEF Forest!RemoveAt, RemoveAt
  <2> QED BY <2>1, <2>2 DEF Forest!RemoveFirst, RemoveFirst
<1> QED BY <1>1, <1>2

\* The lists of the forest, before and after a step.
kidLists(e) == [q \in Holder |-> childrenAt(e, q)]

\* A committed add is an Add of the forest at the index of the call.
LEMMA ForestAdds ==
  ASSUME OutlineInv, NEW c \in CallType, c.item \in Item, c.item \notin born, NEW w,
         addEffect(edge, edge', c, w), born' = born \cup DOMAIN w
  PROVE  Forest!Next
<1> DEFINE i == c.item
           p == c.parent
           k == c.index
           old == kidLists(edge)
           new == kidLists(edge')
<1>1. p \in Holder /\ k \in Nat /\ i \in Item /\ sound(edge)
  BY DEF CallType, OutlineInv, EdgesWellFormed
<1>2. PICK m \in Nat : m = k + 1
  BY <1>1
<1>3. /\ DOMAIN w = {i} /\ k <= Len(childrenAt(edge, p)) /\ (p = Root \/ edge[p].rank # <<>>)
      /\ \A q \in Holder : childrenAt(edge', q) = IF q = p THEN InsertAt(childrenAt(edge, q), m, i)
                                                           ELSE childrenAt(edge, q)
  BY <1>2 DEF addEffect
<1>4. childrenAt(edge, p) \in Seq(Item) /\ Len(childrenAt(edge, p)) \in Nat
  BY <1>1, ChildrenFacts
<1>5. new = [old EXCEPT ![p] = InsertAt(@, k + 1, i)]
  <2>1. new = [old EXCEPT ![p] = InsertAt(@, m, i)]
    BY <1>1, <1>3 DEF kidLists
  <2> QED BY <1>2, <2>1
<1>6. new # old
  <2>1. \A q \in Seq(Item) : \A x \in Item : \A j \in 0 .. Len(q) : \A n : n = j + 1 =>
          Len(InsertAt(q, n, x)) = Len(q) + 1
    BY InsertFacts
  <2>2. k \in 0 .. Len(childrenAt(edge, p))
    BY <1>1, <1>3, <1>4
  <2>3. Len(InsertAt(childrenAt(edge, p), m, i)) = Len(childrenAt(edge, p)) + 1
    BY <1>1, <1>2, <1>4, <2>1, <2>2
  <2>4. new[p] = InsertAt(childrenAt(edge, p), m, i) /\ old[p] = childrenAt(edge, p)
    BY <1>1, <1>3 DEF kidLists
  <2> HIDE DEF new, old
  <2> QED BY <1>4, <2>3, <2>4
<1>7. k \in 0 .. Len(old[p]) /\ Holder = Forest!Holder
  BY <1>1, <1>3, <1>4 DEF kidLists, Holder, Forest!Holder
<1>8. p = Root \/ Forest!present(p)
  BY <1>1, <1>3, HeldAt
<1>9. /\ [q \in Holder |-> childList(q)] = old /\ [q \in Holder |-> childList(q)'] = new
  BY StateLists DEF kidLists
<1>10. i \notin born /\ born' = born \cup {i}
  BY <1>3
<1> HIDE DEF i, p, k, old, new
<1>11. Forest!Add(i, p, k)
  BY <1>5, <1>8, <1>9, <1>10, SameOperations DEF Forest!Add
<1> QED BY <1>1, <1>6, <1>7, <1>9, <1>11 DEF Forest!Next

\* A committed move is a Move, or changes nothing: the cells it read show that the
\* new parent is not below the item.
LEMMA ForestMoves ==
  ASSUME OutlineInv, NEW c \in CallType, c.item \in Item, c.item \in born, NEW w,
         moveEffect(edge, edge', c, w), born' = born \cup DOMAIN w
  PROVE  [Forest!Next]_(Forest!vars)
<1> DEFINE i == c.item
           p == c.parent
           k == c.index
           old == kidLists(edge)
           new == kidLists(edge')
           rest == [q \in Holder |-> RemoveFirst(old[q], i)]
<1>1. p \in Holder /\ k \in Nat /\ i \in Item /\ sound(edge) /\ Root \notin Item /\ i # Root
  BY EdgesAssumption DEF CallType, OutlineInv, EdgesWellFormed
<1>2. PICK m \in Nat : m = k + 1
  BY <1>1
<1>3. /\ DOMAIN w = {i} /\ edge[i].rank # <<>> /\ (p = Root \/ edge[p].rank # <<>>)
      /\ k <= Len(RemoveFirst(childrenAt(edge, p), i))
      /\ \A q \in Holder :
           childrenAt(edge', q) = IF q = p THEN InsertAt(RemoveFirst(childrenAt(edge, q), i), m, i)
                                           ELSE RemoveFirst(childrenAt(edge, q), i)
  BY <1>2 DEF moveEffect
<1>4. PICK L \in SUBSET Item : /\ i \notin L /\ p \in L \cup {Root}
                               /\ \A x \in L : edge[x].parent \in L \cup {Root}
  BY DEF moveEffect
<1>5. /\ Len(childrenAt(edge, p)) \in Nat
      /\ Len(RemoveFirst(childrenAt(edge, p), i)) \in Nat
      /\ Len(RemoveFirst(childrenAt(edge, p), i)) <= Len(childrenAt(edge, p))
  BY <1>1, ChildrenFacts
<1>6. new = [rest EXCEPT ![p] = InsertAt(@, k + 1, i)]
  <2>1. new = [rest EXCEPT ![p] = InsertAt(@, m, i)]
    BY <1>1, <1>3 DEF kidLists
  <2> QED BY <1>2, <2>1
<1>7. k \in 0 .. Len(old[p]) /\ k <= Len(rest[p]) /\ Holder = Forest!Holder
  BY <1>1, <1>3, <1>5 DEF kidLists, Holder, Forest!Holder
<1>8. Forest!present(i) /\ (p = Root \/ Forest!present(p))
  BY <1>1, <1>3, HeldAt DEF Holder
<1>9. p \notin Forest!below(i)
  <2> SUFFICES ASSUME p \in Forest!below(i) PROVE FALSE
    OBVIOUS
  <2> DEFINE S == Item \ L
  <2>1. p \in Item /\ \A T \in SUBSET Item :
          (i \in T /\ \A x \in T, y \in Item : Forest!holds(x, y) => y \in T) => p \in T
    BY DEF Forest!below
  <2>2. ASSUME NEW x \in S, NEW y \in Item, Forest!holds(x, y)
        PROVE  y \in S
    <3>1. y \in kidsIn(edge, x)
      BY <2>2, HeldAt DEF Holder
    <3>2. edge[y].parent = x
      BY <3>1 DEF kidsIn
    <3> QED BY <1>1, <1>4, <2>2, <3>2
  <2>3. i \in S /\ S \in SUBSET Item
    BY <1>1, <1>4
  <2>4. p \notin S
    BY <1>1, <1>4, <2>1
  <2> HIDE DEF S
  <2> QED BY <2>1, <2>2, <2>3, <2>4
<1>10. /\ [q \in Holder |-> childList(q)] = old /\ [q \in Holder |-> childList(q)'] = new
  BY StateLists DEF kidLists
<1>11. born' = born
  BY <1>3
<1> HIDE DEF i, p, k, old, new, rest
<1>12. Forest!Move(i, p, k)
  BY <1>6, <1>7, <1>8, <1>9, <1>10, <1>11, SameOperations DEF Forest!Move, rest
<1>13. CASE new = old
  BY <1>10, <1>11, <1>13 DEF Forest!vars
<1>14. CASE new # old
  BY <1>1, <1>7, <1>10, <1>12, <1>14 DEF Forest!Next
<1> QED BY <1>13, <1>14

\* A committed removal is a Delete.
LEMMA ForestRemoves ==
  ASSUME OutlineInv, NEW c \in CallType, c.item \in Item, NEW w, DOMAIN w \subseteq born,
         removeEffect(edge, edge', c, w), born' = born \cup DOMAIN w
  PROVE  [Forest!Next]_(Forest!vars)
<1> DEFINE i == c.item
           p == edge[i].parent
           old == kidLists(edge)
           new == kidLists(edge')
<1>1. i \in Item /\ i \in Holder
  BY DEF Holder
<1>2. /\ edge[i].rank # <<>> /\ p \in Holder /\ p # i
      /\ \A q \in Holder :
           childrenAt(edge', q) = CASE q = p -> RemoveFirst(childrenAt(edge, q), i) \o childrenAt(edge, i)
                                    [] q = i -> <<>>
                                    [] OTHER -> childrenAt(edge, q)
  BY DEF removeEffect
<1>3. new = [old EXCEPT ![p] = RemoveFirst(@, i) \o old[i], ![i] = <<>>]
  <2>1. \A q \in Holder : new[q] = IF q = p THEN RemoveFirst(old[q], i) \o old[i]
                                            ELSE IF q = i THEN <<>> ELSE old[q]
    BY <1>1, <1>2 DEF kidLists
  <2>2. new = [q \in Holder |-> new[q]] /\ old = [q \in Holder |-> old[q]]
    BY DEF kidLists
  <2> HIDE DEF p, i, old, new
  <2> QED BY <1>1, <1>2, <2>1, <2>2
<1>4. Forest!holds(p, i)
  BY <1>1, <1>2, HeldAt DEF kidsIn
<1>5. /\ [q \in Holder |-> childList(q)] = old /\ [q \in Holder |-> childList(q)'] = new
  BY StateLists DEF kidLists
<1>6. born' = born /\ Holder = Forest!Holder
  BY DEF Holder, Forest!Holder
<1> HIDE DEF p, i, old, new
<1>7. Forest!Delete(i)
  BY <1>2, <1>3, <1>4, <1>5, <1>6, SameOperations DEF Forest!Delete
<1>8. CASE new = old
  BY <1>5, <1>6, <1>8 DEF Forest!vars
<1>9. CASE new # old
  BY <1>1, <1>5, <1>7, <1>9 DEF Forest!Next
<1> QED BY <1>8, <1>9

\* Every run of the verbs, with the fetches, the plans and the submits of
\* several players interleaved, is a run of the forest (ImplementsForest; each
\* commit of submit is one list operation, everything else stutters).
THEOREM OutlineIsForest == Spec => ImplementsForest
<1>1. Init => Forest!Init
  <2> SUFFICES ASSUME Init PROVE Forest!Init
    OBVIOUS
  <2>1. \A i \in Item : edge[i].rank = <<>>
    BY DEF Init, Detached
  <2>2. ASSUME NEW q \in Holder PROVE childList(q) = <<>>
    <3>1. rowsIn(edge, q) = {}
      BY <2>1 DEF rowsIn
    <3>2. childrenAt(edge, q) = <<>>
      BY <3>1, NoRows DEF childrenAt
    <3> QED BY <3>2, StateLists
  <2>3. [q \in Holder |-> childList(q)] = [q \in Holder |-> <<>>] /\ born = {}
    BY <2>2 DEF Init
  <2> QED BY <2>3 DEF Forest!Init, Forest!Holder, Holder
<1>2. OutlineInv /\ [Next]_vars => [Forest!Next]_(Forest!vars)
  <2> SUFFICES ASSUME OutlineInv, [Next]_vars PROVE [Forest!Next]_(Forest!vars)
    OBVIOUS
  <2>1. CASE UNCHANGED <<edge, born>>
    <3>1. \A q : childList(q) = childrenAt(edge, q) /\ childList(q)' = childrenAt(edge', q)
      BY StateLists
    <3>2. [q \in Holder |-> childList(q)] = [q \in Holder |-> childList(q)']
      BY <2>1, <3>1
    <3> QED BY <2>1, <3>2 DEF Forest!vars
  <2>2. ASSUME NEW a \in Actor, Commit(a)
        PROVE  [Forest!Next]_(Forest!vars)
    <3> DEFINE w == plan[a].writes
    <3>1. PICK c : c = turn[a]
      OBVIOUS
    <3>2. /\ c \in CallType /\ c.item \in Item /\ c.op \in {"add", "move", "reorder", "remove"}
          /\ born' = born \cup DOMAIN w
          /\ c.op = "add" => addEffect(edge, edge', c, w)
          /\ c.op = "move" => moveEffect(edge, edge', c, w)
          /\ c.op = "reorder" => reorderEffect(edge, edge', c, w)
          /\ c.op = "remove" => removeEffect(edge, edge', c, w)
      BY <2>2, <3>1, CommitEdits
    <3>3. c.op # "add" => DOMAIN w \subseteq born
      BY <2>2, <3>1, CommitWrites
    <3>4. (c.op = "add" => c.item \notin born) /\ (c.op \in {"move", "reorder"} => c.item \in born)
      BY <2>2, <3>1 DEF OutlineInv, CallsWellFormed
    <3> HIDE DEF w
    <3>5. CASE c.op = "add"
      BY <3>2, <3>4, <3>5, ForestAdds
    <3>6. CASE c.op = "move"
      BY <3>2, <3>4, <3>6, ForestMoves
    <3>7. CASE c.op = "remove"
      <4>1. DOMAIN w \subseteq born
        BY <3>3, <3>7
      <4> QED BY <3>2, <3>7, <4>1, ForestRemoves
    <3>8. CASE c.op = "reorder"
      <4>1. PICK x : x = inPlace(edge, c)
        OBVIOUS
      <4>2. x \in CallType /\ x.item = c.item /\ moveEffect(edge, edge', x, w)
        BY <3>2, <3>8, <4>1 DEF reorderEffect, inPlace
      <4> QED BY <3>2, <3>4, <3>8, <4>2, ForestMoves
    <3> QED BY <3>2, <3>5, <3>6, <3>7, <3>8
  <2> QED BY <2>1, <2>2, OnlyCommits
<1> QED BY <1>1, <1>2, OutlineInvariant, PTL DEF Spec, ImplementsForest, Forest!Spec

=============================================================================
