---------------------------- MODULE OrderLemmas ----------------------------
(***************************************************************************)
(* Facts about sets of numbers that the proofs of several components need: *)
(* least members, the k-th lowest member of a set, numbers that go round;  *)
(* and about parts of sequences.                                           *)
(***************************************************************************)
EXTENDS Integers, FiniteSetTheorems, SequenceTheorems, WellFoundedInduction, TLAPS

----------------------------------------------------------------------------
(* Least and greatest members.                                             *)

\* A set of naturals that is not empty has a least member.
LEMMA LeastNat ==
  ASSUME NEW S \in SUBSET Nat, S # {}
  PROVE  \E x \in S : \A y \in S : x <= y
<1>1. PICK x \in S : \A y \in S : ~(<<y, x>> \in OpToRel(<, Nat))
  BY NatLessThanWellFounded, WFMin
<1>2. \A y \in S : ~(y < x)
  BY <1>1 DEF OpToRel
<1> QED BY <1>2

\* A statement about the rounds of a loop holds of all when it holds of the
\* first and each round keeps it: no round is the least of which it does not.
Fails(n, G) == {j \in 0..n : ~G[j]}

LEMMA RoundByRound ==
  ASSUME NEW n \in Nat, NEW G \in [0..n -> BOOLEAN], G[0],
         \A j \in 1..n : G[j-1] => G[j]
  PROVE  \A j \in 0..n : G[j]
<1> SUFFICES ASSUME Fails(n, G) # {} PROVE FALSE
  BY DEF Fails
<1>1. Fails(n, G) \in SUBSET Nat
  BY DEF Fails
<1>2. PICK j \in Fails(n, G) : \A i \in Fails(n, G) : j <= i
  BY <1>1, LeastNat
<1>3. j \in 0..n /\ ~G[j]
  BY DEF Fails
<1>4. j # 0
  BY <1>3
<1>5. j \in 1..n /\ j - 1 \in 0..n /\ ~(j <= j - 1)
  BY <1>3, <1>4
<1>6. j - 1 \notin Fails(n, G)
  BY <1>2, <1>5
<1>7. G[j-1]
  BY <1>5, <1>6 DEF Fails
<1> QED BY <1>3, <1>5, <1>7

\* A set of integers that is bounded and not empty has a greatest member.
LEMMA GreatestInt ==
  ASSUME NEW S \in SUBSET Int, S # {}, NEW k \in Int, \A x \in S : x <= k
  PROVE  \E x \in S : \A y \in S : y <= x
<1> DEFINE T == {k - x : x \in S}
<1>1. T \in SUBSET Nat /\ T # {}
  <2>1. \A x \in S : k - x \in Nat
    OBVIOUS
  <2> QED BY <2>1
<1>2. PICK t \in T : \A y \in T : t <= y
  BY <1>1, LeastNat
<1>3. PICK x \in S : t = k - x
  OBVIOUS
<1>4. ASSUME NEW y \in S PROVE y <= x
  <2>1. k - y \in T
    OBVIOUS
  <2> HIDE DEF T
  <2>2. t <= k - y
    BY <1>2, <2>1
  <2>3. x \in Int /\ y \in Int
    OBVIOUS
  <2> QED BY <1>3, <2>2, <2>3
<1> QED BY <1>4

----------------------------------------------------------------------------
(* The members of a finite set of naturals by their rank.                  *)

Lower(S, p) == {q \in S : q < p}

\* How many are lower is a number, and no more than there are.
LEMMA LowerType ==
  ASSUME NEW n \in Nat, NEW S \in SUBSET (0..n), NEW p
  PROVE  /\ IsFiniteSet(S) /\ Cardinality(S) \in Nat
         /\ IsFiniteSet(Lower(S, p))
         /\ Cardinality(Lower(S, p)) \in Nat
         /\ Cardinality(Lower(S, p)) <= Cardinality(S)
<1>1. IsFiniteSet(0..n)
  BY FS_Interval
<1>2. IsFiniteSet(S)
  BY <1>1, FS_Subset
<1>3. Lower(S, p) \in SUBSET S
  BY DEF Lower
<1> QED BY <1>2, <1>3, FS_Subset, FS_CardinalityType

\* A member that is higher has more below it.
LEMMA RankOrders ==
  ASSUME NEW n \in Nat, NEW S \in SUBSET (0..n), NEW p \in S, NEW q \in S, p < q
  PROVE  Cardinality(Lower(S, p)) < Cardinality(Lower(S, q))
<1>1. /\ Lower(S, p) \in SUBSET Lower(S, q)
      /\ p \in Lower(S, q) /\ p \notin Lower(S, p)
  <2>1. \A x \in S : x < p => x < q
    OBVIOUS
  <2>2. ~(p < p)
    OBVIOUS
  <2> QED BY <2>1, <2>2 DEF Lower
<1>2. Lower(S, p) # Lower(S, q)
  BY <1>1
<1>3. /\ IsFiniteSet(Lower(S, q))
      /\ Cardinality(Lower(S, p)) \in Nat /\ Cardinality(Lower(S, q)) \in Nat
  BY LowerType
<1>4. /\ Cardinality(Lower(S, p)) <= Cardinality(Lower(S, q))
      /\ Cardinality(Lower(S, p)) # Cardinality(Lower(S, q))
  BY <1>1, <1>2, <1>3, FS_Subset
<1> QED BY <1>3, <1>4

\* There is a member of every rank below the cardinality.
LEMMA RankExists ==
  ASSUME NEW n \in Nat, NEW S \in SUBSET (0..n), NEW k \in Nat, k < Cardinality(S)
  PROVE  \E p \in S : Cardinality(Lower(S, p)) = k
<1>1. /\ IsFiniteSet(S) /\ Cardinality(S) \in Nat
      /\ \A p : Cardinality(Lower(S, p)) \in Nat /\ IsFiniteSet(Lower(S, p))
  BY LowerType
<1>2. \A p : Lower(S, p) \in SUBSET S
  BY DEF Lower
<1>3. S \in SUBSET Int /\ n \in Int /\ \A q \in S : q <= n
  OBVIOUS
<1>4. \E p \in S : Cardinality(Lower(S, p)) >= k
  <2>1. S # {}
    BY FS_EmptySet
  <2>2. PICK m \in S : \A q \in S : q <= m
    BY <1>3, <2>1, GreatestInt
  <2>3. Lower(S, m) = S \ {m}
    <3>1. \A q \in S : q < m <=> q # m
      BY <2>2, <1>3
    <3> QED BY <3>1 DEF Lower
  <2>4. Cardinality(Lower(S, m)) = Cardinality(S) - 1
    BY <2>2, <2>3, <1>1, FS_RemoveElement
  <2> QED BY <2>2, <2>4, <1>1
<1>5. PICK p \in S : /\ Cardinality(Lower(S, p)) >= k
                     /\ \A q \in S : Cardinality(Lower(S, q)) >= k => p <= q
  <2> DEFINE R == {q \in S : Cardinality(Lower(S, q)) >= k}
  <2>1. R # {}
    BY <1>4
  <2>2. R \in SUBSET Nat
    <3>1. \A q \in S : q \in Nat
      OBVIOUS
    <3> QED BY <3>1
  <2> QED BY <2>1, <2>2, LeastNat
<1>6. ASSUME Cardinality(Lower(S, p)) # k PROVE FALSE
  <2>1. Cardinality(Lower(S, p)) > k
    BY <1>1, <1>5, <1>6
  <2>2. Lower(S, p) # {}
    BY <2>1, <1>1, FS_EmptySet
  <2>3. PICK m \in Lower(S, p) : \A q \in Lower(S, p) : q <= m
    <3>1. Lower(S, p) \in SUBSET Int /\ \A q \in Lower(S, p) : q <= n
      BY <1>2, <1>3
    <3> QED BY <1>3, <2>2, <3>1, GreatestInt
  <2>4. m \in S /\ m < p
    BY DEF Lower
  <2>5. Lower(S, m) = Lower(S, p) \ {m}
    <3>1. \A q \in S : q < m <=> (q < p /\ q # m)
      BY <2>3, <2>4, <1>3 DEF Lower
    <3> QED BY <3>1 DEF Lower
  <2>6. Cardinality(Lower(S, m)) = Cardinality(Lower(S, p)) - 1
    BY <2>3, <2>5, <1>1, FS_RemoveElement
  <2>7. Cardinality(Lower(S, m)) >= k
    BY <2>1, <2>6, <1>1
  <2> QED BY <2>4, <2>7, <1>3, <1>5
<1> QED BY <1>6

----------------------------------------------------------------------------
(* Numbers that go round.                                                  *)

\* A remainder is known by what it leaves.
LEMMA ModOf ==
  ASSUME NEW T \in Nat \ {0}, NEW q \in Int, NEW x \in 0..T-1
  PROVE  (q * T + x) % T = x
<1>1. PICK n \in Int : n = q * T + x
  OBVIOUS
<1>2. PICK p \in Int, y \in 0..T-1 : n = p * T + y /\ n % T = y
  <2>1. n = (n \div T) * T + (n % T) /\ n \div T \in Int /\ n % T \in 0..T-1
    OBVIOUS
  <2> QED BY <2>1
<1>3. PICK d \in Int : d = p - q
  OBVIOUS
<1>4. d * T = x - y
  <2>1. p = q + d
    BY <1>3
  <2>2. (q + d) * T = q * T + d * T
    OBVIOUS
  <2>3. p * T = q * T + d * T
    BY <2>1, <2>2
  <2> QED BY <1>1, <1>2, <2>3
<1>5. d >= 1 => d * T >= T
  OBVIOUS
<1>6. d <= -1 => d * T <= -T
  OBVIOUS
<1>7. d = 0
  BY <1>4, <1>5, <1>6
<1> QED BY <1>1, <1>2, <1>4, <1>7

\* One that has gone round at most once in either direction.
LEMMA ModWraps ==
  ASSUME NEW n \in Nat \ {0}, NEW x \in Int, -n <= x, x < 2 * n
  PROVE  /\ x % n \in 0..n-1
         /\ x < 0 => x % n = x + n
         /\ 0 <= x /\ x < n => x % n = x
         /\ n <= x => x % n = x - n
OBVIOUS

\* Two that are less than a round apart are different.
LEMMA ModDiffers ==
  ASSUME NEW n \in Nat \ {0}, NEW x \in Int, NEW y \in Int,
         -n <= x, x < y, y < x + n, y < 2 * n
  PROVE  x % n # y % n
<1>1. /\ -n <= y /\ x < 2 * n
  OBVIOUS
<1>2. /\ x < 0 => x % n = x + n
      /\ 0 <= x /\ x < n => x % n = x
      /\ n <= x => x % n = x - n
  BY <1>1, ModWraps
<1>3. /\ y < 0 => y % n = y + n
      /\ 0 <= y /\ y < n => y % n = y
      /\ n <= y => y % n = y - n
  BY <1>1, ModWraps
<1>4. x % n \in Int /\ y % n \in Int
  OBVIOUS
<1> QED BY <1>2, <1>3, <1>4

\* A round more makes no difference.
LEMMA ModSame ==
  ASSUME NEW n \in Nat \ {0}, NEW x \in Int, 0 <= x, x < 2 * n
  PROVE  (x - n) % n = x % n
<1>1. x - n \in Int /\ -n <= x - n /\ x - n < 2 * n /\ x - n < n /\ -n <= x
  OBVIOUS
<1>2. /\ x < n => x % n = x
      /\ n <= x => x % n = x - n
  BY <1>1, ModWraps
<1>3. /\ x - n < 0 => (x - n) % n = (x - n) + n
      /\ 0 <= x - n => (x - n) % n = x - n
  BY <1>1, ModWraps
<1> QED BY <1>2, <1>3
\* The places of a ring of m are numbered from its start h.
LEMMA PlaceAt ==
  ASSUME NEW m \in Nat \ {0}, NEW h \in 0..m-1, NEW i \in 0..m
  PROVE  /\ (h + i) % m \in 0..m-1
         /\ h + i < m => (h + i) % m = h + i
         /\ m <= h + i => (h + i) % m = h + i - m
<1>1. PICK x \in Int : x = h + i
  OBVIOUS
<1>2. -m <= x /\ 0 <= x /\ x < 2 * m
  BY <1>1
<1>3. /\ x % m \in 0..m-1
      /\ x < m => x % m = x
      /\ m <= x => x % m = x - m
  BY <1>2, ModWraps
<1> QED BY <1>1, <1>3

LEMMA NumberOf ==
  ASSUME NEW m \in Nat \ {0}, NEW h \in 0..m-1, NEW e \in 0..m-1
  PROVE  /\ (e - h) % m \in 0..m-1
         /\ h <= e => (e - h) % m = e - h
         /\ e < h => (e - h) % m = e - h + m
<1>1. PICK x \in Int : x = e - h
  OBVIOUS
<1>2. -m <= x /\ x < m /\ x < 2 * m
  BY <1>1
<1>3. /\ x % m \in 0..m-1
      /\ 0 <= x => x % m = x
      /\ x < 0 => x % m = x + m
  BY <1>2, ModWraps
<1>4. (h <= e <=> 0 <= x) /\ (e < h <=> x < 0)
  BY <1>1
<1> QED BY <1>1, <1>3, <1>4

\* The place with a number, and the number of a place.
LEMMA PlaceNumber ==
  ASSUME NEW m \in Nat \ {0}, NEW h \in 0..m-1, NEW i \in 0..m-1
  PROVE  (((h + i) % m) - h) % m = i
<1> i \in 0..m
  OBVIOUS
<1>1. PICK e \in 0..m-1 : e = (h + i) % m
  BY PlaceAt
<1>2. /\ h + i < m => e = h + i
      /\ m <= h + i => e = h + i - m
  BY <1>1, PlaceAt
<1>3. /\ h <= e => (e - h) % m = e - h
      /\ e < h => (e - h) % m = e - h + m
  BY NumberOf
<1>4. (e - h) % m = i
  BY <1>2, <1>3
<1> QED BY <1>1, <1>4

LEMMA NumberPlace ==
  ASSUME NEW m \in Nat \ {0}, NEW h \in 0..m-1, NEW e \in 0..m-1
  PROVE  (h + ((e - h) % m)) % m = e
<1>1. PICK i \in 0..m-1 : i = (e - h) % m
  BY NumberOf
<1>2. /\ h <= e => i = e - h
      /\ e < h => i = e - h + m
  BY <1>1, NumberOf
<1> i \in 0..m
  OBVIOUS
<1>3. /\ h + i < m => (h + i) % m = h + i
      /\ m <= h + i => (h + i) % m = h + i - m
  BY PlaceAt
<1>4. (h + i) % m = e
  BY <1>2, <1>3
<1> QED BY <1>1, <1>4

\* The first c places, by their numbers.
LEMMA FirstPlaces ==
  ASSUME NEW m \in Nat \ {0}, NEW h \in 0..m-1, NEW c \in 0..m
  PROVE  {(h + i) % m : i \in 0..c-1} = {e \in 0..m-1 : (e - h) % m < c}
<1>1. ASSUME NEW i \in 0..c-1
      PROVE  (h + i) % m \in 0..m-1 /\ (((h + i) % m) - h) % m < c
  <2>1. i \in 0..m-1 /\ i < c /\ i \in 0..m
    OBVIOUS
  <2> QED BY <2>1, PlaceAt, PlaceNumber
<1>2. ASSUME NEW e \in 0..m-1, (e - h) % m < c
      PROVE  \E i \in 0..c-1 : e = (h + i) % m
  <2>1. (e - h) % m \in 0..m-1
    BY NumberOf
  <2>2. PICK i \in 0..m-1 : i = (e - h) % m
    BY <2>1
  <2>3. i \in 0..c-1
    BY <1>2, <2>2
  <2>4. e = (h + i) % m
    BY <2>2, NumberPlace
  <2> QED BY <2>3, <2>4
<1> QED BY <1>1, <1>2

\* Counted from a start that is g further on.
LEMMA NumberFrom ==
  ASSUME NEW m \in Nat \ {0}, NEW h \in 0..m-1, NEW g \in 0..m, NEW e \in 0..m-1
  PROVE  /\ g <= (e - h) % m => (e - ((h + g) % m)) % m = ((e - h) % m) - g
         /\ (e - h) % m < g => (e - ((h + g) % m)) % m = ((e - h) % m) - g + m
<1>1. PICK i \in 0..m-1 : i = (e - h) % m
  BY NumberOf
<1>2. PICK k \in 0..m-1 : k = (h + g) % m
  BY PlaceAt
<1>3. /\ h <= e => i = e - h
      /\ e < h => i = e - h + m
  BY <1>1, NumberOf
<1>4. /\ h + g < m => k = h + g
      /\ m <= h + g => k = h + g - m
  BY <1>2, PlaceAt
<1>5. /\ k <= e => (e - k) % m = e - k
      /\ e < k => (e - k) % m = e - k + m
  BY NumberOf
<1>6. /\ g <= i => (e - k) % m = i - g
      /\ i < g => (e - k) % m = i - g + m
  <2>1. PICK j \in 0..m-1 : j = (e - k) % m
    BY NumberOf
  <2>2. /\ k <= e => j = e - k
        /\ e < k => j = e - k + m
    BY <2>1, <1>5
  <2>3. /\ g <= i => j = i - g
        /\ i < g => j = i - g + m
    <3>1. CASE h + g < m
      BY <1>3, <1>4, <2>2, <3>1
    <3>2. CASE m <= h + g
      BY <1>3, <1>4, <2>2, <3>2
    <3>3. h + g < m \/ m <= h + g
      OBVIOUS
    <3> QED BY <3>1, <3>2, <3>3
  <2> QED BY <2>1, <2>3
<1> QED BY <1>1, <1>2, <1>6

\* How many places there are among the first c.
LEMMA HowManyPlaces ==
  ASSUME NEW m \in Nat \ {0}, NEW h \in 0..m-1, NEW c \in 0..m
  PROVE  /\ IsFiniteSet({(h + i) % m : i \in 0..c-1})
         /\ Cardinality({(h + i) % m : i \in 0..c-1}) = c
<1> DEFINE I == 0..c-1
           P == {(h + i) % m : i \in I}
           f == [i \in I |-> (h + i) % m]
<1>1. IsFiniteSet(I) /\ Cardinality(I) = c
  <2>1. c - 1 \in Int /\ 0 \in Int /\ (c - 1) - 0 + 1 = c /\ (c > 0 => 0 <= c - 1)
    OBVIOUS
  <2>2. CASE c = 0
    BY <2>2, FS_EmptySet
  <2>3. CASE c # 0
    BY <2>1, <2>3, FS_Interval
  <2> QED BY <2>2, <2>3
<1>2. \A i, j \in I : (h + i) % m = (h + j) % m => i = j
  <2> TAKE i \in I, j \in I
  <2>1. i \in 0..m-1 /\ j \in 0..m-1
    OBVIOUS
  <2> QED BY <2>1, PlaceNumber
<1>3. f \in Bijection(I, P)
  BY <1>2 DEF Bijection, Injection, Surjection, IsInjective
<1> HIDE DEF I, P, f
<1>4. IsFiniteSet(P) /\ Cardinality(P) = c
  BY <1>1, <1>3, FS_Bijection DEF ExistsBijection
<1> QED BY <1>4 DEF P, I

----------------------------------------------------------------------------
(* Sequences.                                                              *)

LEMMA Joined ==
  ASSUME NEW X, NEW s \in Seq(X), NEW t \in Seq(X),
         NEW a \in Nat, NEW b \in Nat, a = Len(s), b = Len(t)
  PROVE  /\ s \o t \in Seq(X) /\ Len(s \o t) = a + b
         /\ \A i \in 1..a : (s \o t)[i] = s[i]
         /\ \A j \in 1..b : (s \o t)[a + j] = t[j]
<1>1. s \o t \in Seq(X) /\ Len(s \o t) = a + b
  BY ConcatProperties
<1>2. \A i \in 1..a+b : (s \o t)[i] = IF i <= a THEN s[i] ELSE t[i - a]
  BY ConcatProperties
<1>3. \A i \in 1..a : i \in 1..a+b /\ i <= a
  OBVIOUS
<1>4. \A j \in 1..b : a + j \in 1..a+b /\ ~(a + j <= a) /\ a + j - a = j
  OBVIOUS
<1> QED BY <1>1, <1>2, <1>3, <1>4

\* What is left of a sequence without its first n members, and these.
LEMMA Parted ==
  ASSUME NEW X, NEW s \in Seq(X), NEW a \in Nat, a = Len(s), NEW n \in 0..a
  PROVE  /\ SubSeq(s, n + 1, a) \in Seq(X) /\ Len(SubSeq(s, n + 1, a)) = a - n
         /\ \A i \in 1..a-n : SubSeq(s, n + 1, a)[i] = s[n + i]
         /\ SubSeq(s, 1, n) \in Seq(X) /\ Len(SubSeq(s, 1, n)) = n
         /\ \A i \in 1..n : SubSeq(s, 1, n)[i] = s[i]
<1>1. \A i \in 1..a : s[i] \in X
  BY ElementOfSeq
<1> QED BY <1>1

\* Where the members of a sequence are when the one at place p has been removed.
LosesOne(S, L, n, p, R) ==
  R \in Seq(S) /\ Len(R) = n - 1 /\ \A i \in 1..n-1 : R[i] = L[IF i < p THEN i ELSE i + 1]

LEMMA Shortened ==
  ASSUME NEW S, NEW L \in Seq(S), NEW n \in Nat, n = Len(L), NEW p \in 1..n,
         NEW R, R = SubSeq(L, 1, p - 1) \o SubSeq(L, p + 1, Len(L))
  PROVE  LosesOne(S, L, n, p, R)
<1>1. PICK a \in Nat, b \in Nat : a = p - 1 /\ b = n - p
  <2>1. p - 1 \in Nat /\ n - p \in Nat
    OBVIOUS
  <2> QED BY <2>1
<1>2. /\ SubSeq(L, 1, a) \in Seq(S) /\ Len(SubSeq(L, 1, a)) = a
      /\ \A i \in 1..a : SubSeq(L, 1, a)[i] = L[i]
  <2>1. a \in 0..n
    BY <1>1
  <2> QED BY <2>1, Parted
<1>3. /\ SubSeq(L, p + 1, n) \in Seq(S) /\ Len(SubSeq(L, p + 1, n)) = b
      /\ \A i \in 1..b : SubSeq(L, p + 1, n)[i] = L[p + i]
  <2>1. p \in 0..n
    OBVIOUS
  <2> QED BY <1>1, <2>1, Parted
<1>4. PICK u \in Seq(S), v \in Seq(S) : u = SubSeq(L, 1, a) /\ v = SubSeq(L, p + 1, n)
  BY <1>2, <1>3
<1>5. SubSeq(L, 1, p - 1) \o SubSeq(L, p + 1, Len(L)) = u \o v
  BY <1>1, <1>4
<1>6. a = Len(u) /\ b = Len(v)
  BY <1>2, <1>3, <1>4
<1>7. /\ u \o v \in Seq(S) /\ Len(u \o v) = a + b
      /\ \A i \in 1..a : (u \o v)[i] = u[i]
      /\ \A i \in 1..b : (u \o v)[a + i] = v[i]
  <2>1. u \o v \in Seq(S) /\ Len(u \o v) = a + b
    BY <1>6, Joined
  <2>2. \A i \in 1..a : (u \o v)[i] = u[i]
    BY <1>6, Joined
  <2>3. \A i \in 1..b : (u \o v)[a + i] = v[i]
    BY <1>6, Joined
  <2> QED BY <2>1, <2>2, <2>3
<1>8. ASSUME NEW i \in 1..n-1 PROVE (u \o v)[i] = L[IF i < p THEN i ELSE i + 1]
  <2>1. CASE i < p
    <3>1. i \in 1..a
      BY <1>1, <2>1
    <3>2. (u \o v)[i] = u[i] /\ u[i] = L[i]
      BY <1>2, <1>4, <1>7, <3>1
    <3> QED BY <2>1, <3>2
  <2>2. CASE ~(i < p)
    <3>1. PICK j \in 1..b : j = i - a /\ i = a + j /\ i + 1 = p + j
      <4>1. i - a \in 1..b /\ i = a + (i - a) /\ i + 1 = p + (i - a)
        BY <1>1, <2>2
      <4> QED BY <4>1
    <3>2. (u \o v)[i] = v[j] /\ v[j] = L[p + j]
      BY <1>3, <1>4, <1>7, <3>1
    <3> QED BY <2>2, <3>1, <3>2
  <2> QED BY <2>1, <2>2
<1>9. a + b = n - 1
  BY <1>1
<1>10. R = u \o v
  BY <1>5
<1> QED BY <1>7, <1>8, <1>9, <1>10 DEF LosesOne
=============================================================================
