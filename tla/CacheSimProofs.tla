--------------------------- MODULE CacheSimProofs ---------------------------
(***************************************************************************)
(* The caches of one simulator: the inductive invariant behind Inclusive,  *)
(* DirtyKept and PrefetchBalance, for every configuration, line, page and  *)
(* address size; and, from Ranked on, of the simulator with its sweep      *)
(* beside the simulators of the variants: the invariant behind SweepExact. *)
(***************************************************************************)
EXTENDS CacheSim, OrderLemmas

----------------------------------------------------------------------------
(* One set: a sequence of lines, each address in it once.                  *)

Line == [la : Nat, dirty : BOOLEAN, pf : BOOLEAN]

Distinct(L)  == \A i, j \in DOMAIN L : L[i].la = L[j].la => i = j
Elems(L)     == {L[i] : i \in DOMAIN L}
SetOK(L, w)  == L \in Seq(Line) /\ Len(L) <= w /\ Distinct(L)
OnePlace(L, P) == P = {} \/ \E p \in DOMAIN L : P = {p}

\* Where the members of a set are when the one at place p has been removed.
LEMMA RemovedAt ==
  ASSUME NEW L \in Seq(Line), NEW n \in Nat, n = Len(L), NEW p \in 1..n
  PROVE  /\ RemoveAt(L, p) \in Seq(Line) /\ Len(RemoveAt(L, p)) = n - 1
         /\ \A i \in 1..n-1 : RemoveAt(L, p)[i] = L[IF i < p THEN i ELSE i + 1]
<1>1. PICK R : R = RemoveAt(L, p)
  OBVIOUS
<1>2. R = SubSeq(L, 1, p - 1) \o SubSeq(L, p + 1, Len(L))
  BY <1>1 DEF RemoveAt
<1>3. LosesOne(Line, L, n, p, R)
  BY <1>2, Shortened
<1> QED BY <1>1, <1>3 DEF LosesOne

\* What is left of a set without one place or none.
LEMMA WithoutIs ==
  ASSUME NEW w \in Nat, NEW L, SetOK(L, w), NEW P, OnePlace(L, P)
  PROVE  /\ Without(L, P) \in Seq(Line) /\ Distinct(Without(L, P))
         /\ Elems(Without(L, P)) = Elems(L) \ Lines(L, P)
         /\ Len(Without(L, P)) = IF P = {} THEN Len(L) ELSE Len(L) - 1
<1>1. L \in Seq(Line) /\ Distinct(L)
  BY DEF SetOK
<1>2. PICK n \in Nat : n = Len(L)
  BY <1>1, LenProperties
<1>3. DOMAIN L = 1..n
  BY <1>1, <1>2, LenProperties
<1>4. CASE P = {}
  <2>1. Without(L, P) = L /\ Lines(L, P) = {}
    BY <1>4 DEF Without, Lines
  <2> QED BY <1>1, <1>4, <2>1
<1>5. CASE P # {}
  <2>1. PICK p \in 1..n : P = {p}
    BY <1>3, <1>5 DEF OnePlace
  <2>2. Without(L, P) = RemoveAt(L, p)
    <3>1. (CHOOSE i \in P : TRUE) = p
      BY <2>1
    <3> QED BY <1>5, <3>1 DEF Without
  <2> DEFINE R == RemoveAt(L, p)
  <2>3. /\ R \in Seq(Line) /\ Len(R) = n - 1
        /\ \A i \in 1..n-1 : R[i] = L[IF i < p THEN i ELSE i + 1]
    BY <1>1, <1>2, RemovedAt
  <2> HIDE DEF R
  <2>4. DOMAIN R = 1..n-1
    BY <2>3, LenProperties
  <2>5. \A i \in 1..n-1 : (IF i < p THEN i ELSE i + 1) \in (1..n) \ {p}
    OBVIOUS
  <2>6. \A i, j \in 1..n-1 : (IF i < p THEN i ELSE i + 1) = (IF j < p THEN j ELSE j + 1) => i = j
    OBVIOUS
  <2>7. Distinct(R)
    <3> SUFFICES ASSUME NEW i \in 1..n-1, NEW j \in 1..n-1, R[i].la = R[j].la PROVE i = j
      BY <2>4 DEF Distinct
    <3>1. PICK k \in 1..n : k = IF i < p THEN i ELSE i + 1
      BY <2>5
    <3>2. PICK q \in 1..n : q = IF j < p THEN j ELSE j + 1
      BY <2>5
    <3>3. L[k].la = L[q].la
      BY <2>3, <3>1, <3>2
    <3>4. k = q
      BY <1>1, <1>3, <3>3 DEF Distinct
    <3> QED BY <2>6, <3>1, <3>2, <3>4
  <2>8. Elems(R) = Elems(L) \ {L[p]}
    <3>1. ASSUME NEW x \in Elems(R) PROVE x \in Elems(L) \ {L[p]}
      <4>1. PICK i \in 1..n-1 : x = R[i]
        BY <2>4 DEF Elems
      <4>2. PICK k \in (1..n) \ {p} : x = L[k]
        BY <2>3, <2>5, <4>1
      <4>3. x # L[p]
        BY <1>1, <1>3, <4>2 DEF Distinct
      <4> QED BY <1>3, <4>2, <4>3 DEF Elems
    <3>2. ASSUME NEW x \in Elems(L), x # L[p] PROVE x \in Elems(R)
      <4>1. PICK k \in 1..n : x = L[k]
        BY <1>3 DEF Elems
      <4>2. k # p
        BY <3>2, <4>1
      <4>3. PICK i \in 1..n-1 : k = IF i < p THEN i ELSE i + 1
        <5>1. CASE k < p
          <6>1. k \in 1..n-1
            BY <5>1
          <6> QED BY <5>1, <6>1
        <5>2. CASE p < k
          <6>1. k - 1 \in 1..n-1 /\ ~(k - 1 < p) /\ (k - 1) + 1 = k
            BY <5>2
          <6> QED BY <6>1
        <5> QED BY <4>2, <5>1, <5>2
      <4>4. x = R[i]
        BY <2>3, <4>1, <4>3
      <4> QED BY <2>4, <4>4 DEF Elems
    <3> QED BY <3>1, <3>2
  <2>9. Lines(L, P) = {L[p]}
    BY <2>1 DEF Lines
  <2> QED BY <1>2, <1>5, <2>2, <2>3, <2>7, <2>8, <2>9 DEF R
<1> QED BY <1>4, <1>5
\* The line that an access puts in front of the set L.
NewLine(L, la, write, as_prefetch, demand) ==
  [la    |-> la,
   dirty |-> write \/ \E x \in Lines(L, At(L, la)) : x.dirty,
   pf    |-> IF At(L, la) = {} THEN as_prefetch ELSE ~demand /\ \E x \in Lines(L, At(L, la)) : x.pf]

\* The place that an access gives up.
GivesUp(L, la, ways) == IF At(L, la) = {} THEN Victim(L, ways) ELSE {}

LEMMA Places ==
  ASSUME NEW w \in Nat \ {0}, NEW L, SetOK(L, w), NEW la \in Nat
  PROVE  /\ OnePlace(L, At(L, la)) /\ OnePlace(L, GivesUp(L, la, w))
         /\ OnePlace(L, At(L, la) \cup GivesUp(L, la, w))
         /\ Len(L) = w => At(L, la) \cup GivesUp(L, la, w) # {}
         /\ GivesUp(L, la, w) # {} => At(L, la) = {}
         /\ \A i \in DOMAIN L : L[i].la = la => i \in At(L, la)
<1>1. /\ L \in Seq(Line) /\ Distinct(L) /\ Len(L) <= w
  BY DEF SetOK
<1>2. PICK n \in Nat : n = Len(L)
  BY <1>1, LenProperties
<1>3. DOMAIN L = 1..n
  BY <1>1, <1>2, LenProperties
<1>4. OnePlace(L, At(L, la))
  <2>1. ASSUME NEW i \in At(L, la) PROVE At(L, la) = {i} /\ i \in DOMAIN L
    BY <1>1 DEF At, Distinct
  <2> QED BY <2>1 DEF OnePlace
<1>5. GivesUp(L, la, w) = {} \/ (GivesUp(L, la, w) = {n} /\ At(L, la) = {} /\ n \in 1..n)
  BY <1>2 DEF GivesUp, Victim
<1>6. OnePlace(L, GivesUp(L, la, w))
  BY <1>3, <1>5 DEF OnePlace
<1>7. OnePlace(L, At(L, la) \cup GivesUp(L, la, w))
  <2>1. CASE GivesUp(L, la, w) = {}
    <3>1. At(L, la) \cup GivesUp(L, la, w) = At(L, la)
      BY <2>1
    <3> QED BY <1>4, <3>1
  <2>2. CASE GivesUp(L, la, w) # {}
    <3>1. At(L, la) \cup GivesUp(L, la, w) = GivesUp(L, la, w)
      BY <1>5, <2>2
    <3> QED BY <1>6, <3>1
  <2> QED BY <2>1, <2>2
<1>8. Len(L) = w => At(L, la) \cup GivesUp(L, la, w) # {}
  BY DEF GivesUp, Victim
<1>9. \A i \in DOMAIN L : L[i].la = la => i \in At(L, la)
  BY DEF At
<1> QED BY <1>4, <1>5, <1>6, <1>7, <1>8, <1>9

\* A line put in front of a set that has no other of its address.
LEMMA InFront ==
  ASSUME NEW w \in Nat, NEW L, SetOK(L, w), Len(L) < w, NEW x \in Line,
         \A y \in Elems(L) : y.la # x.la
  PROVE  SetOK(<<x>> \o L, w) /\ Elems(<<x>> \o L) = Elems(L) \cup {x}
<1>1. L \in Seq(Line) /\ Distinct(L)
  BY DEF SetOK
<1>2. PICK n \in Nat : n = Len(L)
  BY <1>1, LenProperties
<1>3. PICK u \in Seq(Line) : u = <<x>> /\ Len(u) = 1 /\ u[1] = x
  <2>1. <<x>> \in Seq(Line) /\ Len(<<x>>) = 1 /\ <<x>>[1] = x
    OBVIOUS
  <2> QED BY <2>1
<1> DEFINE R == u \o L
<1>4. R \in Seq(Line) /\ Len(R) = 1 + n
  BY <1>1, <1>2, <1>3, Joined
<1>5. \A i \in 1..1 : R[i] = u[i]
  BY <1>1, <1>2, <1>3, Joined
<1>6. \A i \in 1..n : R[1 + i] = L[i]
  BY <1>1, <1>2, <1>3, Joined
<1> HIDE DEF R
<1>7. DOMAIN R = 1..n+1 /\ DOMAIN L = 1..n
  <2>1. DOMAIN R = 1..Len(R)
    BY <1>4, LenProperties
  <2> QED BY <1>1, <1>2, <1>4, <2>1, LenProperties
<1>8. R[1] = x
  BY <1>3, <1>5
<1>9. \A i \in 2..n+1 : i - 1 \in 1..n /\ R[i] = L[i-1]
  <2> TAKE i \in 2..n+1
  <2>1. PICK j \in 1..n : j = i - 1 /\ i = 1 + j
    OBVIOUS
  <2> QED BY <1>6, <2>1
<1>10. \A i \in 2..n+1 : R[i] \in Elems(L)
  BY <1>7, <1>9 DEF Elems
<1>11. Distinct(R)
  <2> SUFFICES ASSUME NEW i \in 1..n+1, NEW j \in 1..n+1, R[i].la = R[j].la PROVE i = j
    BY <1>7 DEF Distinct
  <2>1. CASE i = 1 /\ j # 1
    BY <1>8, <1>10, <2>1
  <2>2. CASE j = 1 /\ i # 1
    BY <1>8, <1>10, <2>2
  <2>3. CASE i # 1 /\ j # 1
    <3>1. /\ i - 1 \in 1..n /\ R[i] = L[i-1]
          /\ j - 1 \in 1..n /\ R[j] = L[j-1]
      BY <1>9, <2>3
    <3>2. i - 1 = j - 1
      BY <1>1, <1>7, <3>1 DEF Distinct
    <3> QED BY <3>2
  <2> QED BY <2>1, <2>2, <2>3
<1>12. Elems(R) = Elems(L) \cup {x}
  <2>1. ASSUME NEW y \in Elems(R) PROVE y \in Elems(L) \cup {x}
    <3>1. PICK i \in 1..n+1 : y = R[i]
      BY <1>7 DEF Elems
    <3> QED BY <1>8, <1>10, <3>1
  <2>2. ASSUME NEW y \in Elems(L) PROVE y \in Elems(R)
    <3>1. PICK i \in 1..n : y = L[i]
      BY <1>7 DEF Elems
    <3>2. 1 + i \in 1..n+1 /\ R[1 + i] = y
      BY <1>6, <3>1
    <3> QED BY <1>7, <3>2 DEF Elems
  <2>3. x \in Elems(R)
    BY <1>7, <1>8 DEF Elems
  <2> QED BY <2>1, <2>2, <2>3
<1>13. Len(R) <= w
  BY <1>2, <1>4
<1> QED BY <1>3, <1>4, <1>11, <1>12, <1>13 DEF R, SetOK

\* One access to one set.
LEMMA FrontIs ==
  ASSUME NEW w \in Nat \ {0}, NEW L, SetOK(L, w), NEW la \in Nat,
         NEW write \in BOOLEAN, NEW pre \in BOOLEAN, NEW demand \in BOOLEAN,
         NEW R, R = MoveToFront(L, la, At(L, la), GivesUp(L, la, w), write, pre, demand)
  PROVE  /\ SetOK(R, w) /\ NewLine(L, la, write, pre, demand) \in Line
         /\ Elems(R) = (Elems(L) \ (Lines(L, At(L, la)) \cup Lines(L, GivesUp(L, la, w))))
                         \cup {NewLine(L, la, write, pre, demand)}
<1> DEFINE P == At(L, la) \cup GivesUp(L, la, w)
           x == NewLine(L, la, write, pre, demand)
           W == Without(L, P)
<1>1. x \in Line /\ x.la = la
  BY DEF NewLine, Line
<1>2. R = <<x>> \o W
  BY DEF MoveToFront, NewLine
<1>3. OnePlace(L, P)
  BY Places
<1> HIDE DEF P, x, W
<1>4. /\ W \in Seq(Line) /\ Distinct(W) /\ Elems(W) = Elems(L) \ Lines(L, P)
      /\ Len(W) = IF P = {} THEN Len(L) ELSE Len(L) - 1
  BY <1>3, WithoutIs DEF W
<1>5. Lines(L, P) = Lines(L, At(L, la)) \cup Lines(L, GivesUp(L, la, w))
  BY DEF P, Lines
<1>6. Len(W) < w
  <2>1. Len(L) \in Nat /\ Len(L) <= w
    BY LenProperties DEF SetOK
  <2>2. Len(L) = w => P # {}
    BY Places DEF P
  <2> QED BY <1>4, <2>1, <2>2
<1>7. \A y \in Elems(W) : y.la # x.la
  <2> TAKE y \in Elems(W)
  <2>1. PICK i \in DOMAIN L : y = L[i]
    BY <1>4 DEF Elems
  <2>2. y \notin Lines(L, P)
    BY <1>4
  <2>3. i \notin P
    BY <2>1, <2>2 DEF Lines
  <2>4. i \notin At(L, la)
    BY <2>3 DEF P
  <2> QED BY <1>1, <2>1, <2>4, Places
<1>8. SetOK(W, w)
  BY <1>4, <1>6, LenProperties DEF SetOK
<1>9. SetOK(<<x>> \o W, w) /\ Elems(<<x>> \o W) = Elems(W) \cup {x}
  BY <1>1, <1>6, <1>7, <1>8, InFront
<1> QED BY <1>1, <1>2, <1>4, <1>5, <1>9 DEF x
----------------------------------------------------------------------------
(* One cache: a function from set numbers to sets.                         *)

CacheOK(c, w) ==
  /\ w \in Nat /\ (enabled(c) => w # 0)
  /\ \E n \in Nat : c \in [0..n-1 -> Seq(Line)]
  /\ \A s \in DOMAIN c : SetOK(c[s], w) /\ \A x \in Elems(c[s]) : setof(c, x.la) = s

LEMMA ColdOK ==
  ASSUME NEW n \in Nat, NEW w \in Nat, n # 0 => w # 0
  PROVE  CacheOK(Cold(n), w) /\ LinesOf(Cold(n)) = {}
<1>1. <<>> \in Seq(Line) /\ Len(<<>>) = 0 /\ DOMAIN <<>> = {}
  OBVIOUS
<1>2. SetOK(<<>>, w) /\ Elems(<<>>) = {}
  BY <1>1 DEF SetOK, Distinct, Elems
<1>3. Cold(n) \in [0..n-1 -> Seq(Line)]
  BY <1>1 DEF Cold
<1>4. \A s \in DOMAIN Cold(n) : Cold(n)[s] = <<>>
  BY DEF Cold
<1>5. enabled(Cold(n)) => n # 0
  <2>1. n = 0 => 0..n-1 = {}
    OBVIOUS
  <2> QED BY <1>3, <2>1 DEF enabled
<1>6. LinesOf(Cold(n)) = {}
  BY <1>1, <1>4 DEF LinesOf
<1> QED BY <1>2, <1>3, <1>4, <1>5, <1>6 DEF CacheOK

LEMMA SetOfIn ==
  ASSUME NEW w, NEW c, CacheOK(c, w), enabled(c), NEW la \in Nat
  PROVE  setof(c, la) \in DOMAIN c
<1>1. PICK n \in Nat : c \in [0..n-1 -> Seq(Line)]
  BY DEF CacheOK
<1>2. DOMAIN c = 0..n-1 /\ n # 0
  BY <1>1 DEF enabled
<1>3. Cardinality(0..n-1) = n
  <2>1. 0 \in Int /\ n - 1 \in Int /\ ~(0 > n - 1) /\ n - 1 - 0 + 1 = n
    BY <1>2
  <2> QED BY <2>1, FS_Interval
<1>4. la % n \in 0..n-1
  BY <1>2
<1> QED BY <1>2, <1>3, <1>4 DEF setof

LEMMA LinesAre ==
  ASSUME NEW c, NEW x
  PROVE  x \in LinesOf(c) <=> \E s \in DOMAIN c : x \in Elems(c[s])
BY DEF LinesOf, Elems

\* A line is in one set only, its own, and no other has its address.
LEMMA OneLine ==
  ASSUME NEW w, NEW c, CacheOK(c, w)
  PROVE  /\ LinesOf(c) \in SUBSET Line
         /\ \A s \in DOMAIN c : \A x \in LinesOf(c) : setof(c, x.la) = s <=> x \in Elems(c[s])
         /\ \A x, y \in LinesOf(c) : x.la = y.la => x = y
<1>1. ASSUME NEW x \in LinesOf(c)
      PROVE  /\ x \in Line /\ setof(c, x.la) \in DOMAIN c
             /\ \A s \in DOMAIN c : setof(c, x.la) = s <=> x \in Elems(c[s])
  <2>1. PICK s \in DOMAIN c : x \in Elems(c[s])
    BY LinesAre
  <2>2. setof(c, x.la) = s
    BY <2>1 DEF CacheOK
  <2>3. x \in Line
    <3>1. PICK L \in Seq(Line) : L = c[s]
      BY DEF CacheOK, SetOK
    <3>2. PICK i \in DOMAIN L : x = L[i]
      BY <2>1, <3>1 DEF Elems
    <3>3. DOMAIN L = 1..Len(L)
      BY LenProperties
    <3> QED BY <3>2, <3>3, ElementOfSeq
  <2>4. \A q \in DOMAIN c : x \in Elems(c[q]) => setof(c, x.la) = q
    BY DEF CacheOK
  <2> QED BY <2>1, <2>2, <2>3, <2>4
<1>2. ASSUME NEW x \in LinesOf(c), NEW y \in LinesOf(c), x.la = y.la PROVE x = y
  <2>1. PICK s \in DOMAIN c : s = setof(c, x.la)
    BY <1>1
  <2>2. x \in Elems(c[s]) /\ y \in Elems(c[s])
    BY <1>1, <1>2, <2>1
  <2>3. Distinct(c[s])
    BY DEF CacheOK, SetOK
  <2>4. PICK i \in DOMAIN c[s], j \in DOMAIN c[s] : x = c[s][i] /\ y = c[s][j]
    BY <2>2 DEF Elems
  <2> QED BY <1>2, <2>3, <2>4 DEF Distinct
<1> QED BY <1>1, <1>2

\* What is found in its set is what the cache has of an address.
LEMMA FoundIs ==
  ASSUME NEW w, NEW c, CacheOK(c, w), NEW la \in Nat
  PROVE  Found(c, la) = {x \in LinesOf(c) : x.la = la}
<1>1. CASE enabled(c)
  <2>1. PICK s \in DOMAIN c : s = setof(c, la)
    BY <1>1, SetOfIn
  <2>2. Found(c, la) = Lines(c[s], At(c[s], la))
    BY <1>1, <2>1 DEF Found
  <2>3. \A x : x \in Found(c, la) <=> x \in Elems(c[s]) /\ x.la = la
    BY <2>2 DEF Lines, At, Elems
  <2>4. \A x : x \in Elems(c[s]) => x \in LinesOf(c)
    BY LinesAre
  <2>5. \A x \in LinesOf(c) : x.la = la => x \in Elems(c[s])
    BY <2>1, OneLine
  <2> QED BY <2>3, <2>4, <2>5
<1>2. CASE ~enabled(c)
  <2>1. LinesOf(c) = {}
    BY <1>2, LinesAre DEF enabled
  <2> QED BY <1>2, <2>1 DEF Found
<1> QED BY <1>1, <1>2

\* A cache in which one set is replaced by another that is in order.
InPlace(R, c, s, w) == SetOK(R, w) /\ \A x \in Elems(R) : setof(c, x.la) = s
Replaced(c, w, s, R, d) ==
  /\ CacheOK(d, w) /\ DOMAIN d = DOMAIN c
  /\ LinesOf(d) = (LinesOf(c) \ Elems(c[s])) \cup Elems(R)

LEMMA SetReplaced ==
  ASSUME NEW w, NEW c, CacheOK(c, w), NEW s \in DOMAIN c, NEW R, InPlace(R, c, s, w),
         NEW d, d = [c EXCEPT ![s] = R]
  PROVE  Replaced(c, w, s, R, d)
<1>0. SetOK(R, w) /\ \A x \in Elems(R) : setof(c, x.la) = s
  BY DEF InPlace
<1>1. PICK n \in Nat : c \in [0..n-1 -> Seq(Line)]
  BY DEF CacheOK
<1>2. R \in Seq(Line)
  BY <1>0 DEF SetOK
<1>3. d \in [0..n-1 -> Seq(Line)] /\ DOMAIN d = DOMAIN c
  BY <1>1, <1>2
<1>4. d[s] = R /\ \A q \in DOMAIN c : q # s => d[q] = c[q]
  BY <1>1
<1>5. \A la : setof(d, la) = setof(c, la)
  BY <1>3 DEF setof
<1>6. CacheOK(d, w)
  <2>1. \A q \in DOMAIN d : SetOK(d[q], w) /\ \A x \in Elems(d[q]) : setof(d, x.la) = q
    BY <1>0, <1>3, <1>4, <1>5 DEF CacheOK
  <2>2. enabled(d) <=> enabled(c)
    BY <1>3 DEF enabled
  <2> QED BY <1>3, <2>1, <2>2 DEF CacheOK
<1>7. ASSUME NEW x PROVE x \in LinesOf(d) <=> (x \in LinesOf(c) /\ x \notin Elems(c[s])) \/ x \in Elems(R)
  <2>1. ASSUME x \in LinesOf(d) PROVE (x \in LinesOf(c) /\ x \notin Elems(c[s])) \/ x \in Elems(R)
    <3>1. PICK q \in DOMAIN d : x \in Elems(d[q])
      BY <2>1, LinesAre
    <3>2. CASE q = s
      BY <1>4, <3>1, <3>2
    <3>3. CASE q # s
      <4>1. x \in Elems(c[q]) /\ q \in DOMAIN c
        BY <1>3, <1>4, <3>1, <3>3
      <4>2. x \in LinesOf(c)
        BY <4>1, LinesAre
      <4>3. x \notin Elems(c[s])
        BY <3>3, <4>1, <4>2, OneLine
      <4> QED BY <4>2, <4>3
    <3> QED BY <3>2, <3>3
  <2>2. ASSUME x \in LinesOf(c), x \notin Elems(c[s]) PROVE x \in LinesOf(d)
    <3>1. PICK q \in DOMAIN c : x \in Elems(c[q])
      BY <2>2, LinesAre
    <3>2. x \in Elems(d[q]) /\ q \in DOMAIN d
      BY <1>3, <1>4, <2>2, <3>1
    <3> QED BY <3>2, LinesAre
  <2>3. ASSUME x \in Elems(R) PROVE x \in LinesOf(d)
    <3>1. x \in Elems(d[s]) /\ s \in DOMAIN d
      BY <1>3, <1>4, <2>3
    <3> QED BY <3>1, LinesAre
  <2> QED BY <2>1, <2>2, <2>3
<1> QED BY <1>3, <1>6, <1>7 DEF Replaced
\* The lines of a cache after an access.
LinesAfter(c, w, la, write, pre, demand, r) ==
  /\ CacheOK(r.c, w) /\ DOMAIN r.c = DOMAIN c
  /\ r.hit <=> Found(c, la) # {}
  /\ r.out = {} \/ \E v \in LinesOf(c) : r.out = {v} /\ v.la # la
  /\ r.hit => r.out = {}
  /\ r.used <=> demand /\ \E x \in Found(c, la) : x.pf
  /\ \E x \in Line :
       /\ x.la = la /\ (x.dirty <=> write \/ \E y \in Found(c, la) : y.dirty)
       /\ x.pf <=> IF Found(c, la) = {} THEN pre ELSE ~demand /\ \E y \in Found(c, la) : y.pf
       /\ LinesOf(r.c) = (LinesOf(c) \ (Found(c, la) \cup r.out)) \cup {x}

LEMMA AccessLines ==
  ASSUME NEW w, NEW c, CacheOK(c, w), enabled(c), NEW la \in Nat,
         NEW write \in BOOLEAN, NEW pre \in BOOLEAN, NEW demand \in BOOLEAN,
         NEW r, r = access(c, w, la, write, pre, demand)
  PROVE  LinesAfter(c, w, la, write, pre, demand, r)
<1>1. PICK s \in DOMAIN c : s = setof(c, la)
  BY SetOfIn
<1>2. PICK L : L = c[s] /\ SetOK(L, w)
  BY DEF CacheOK
<1>3. w \in Nat \ {0}
  BY DEF CacheOK
<1> DEFINE R == MoveToFront(L, la, At(L, la), GivesUp(L, la, w), write, pre, demand)
           x == NewLine(L, la, write, pre, demand)
           out == Lines(L, GivesUp(L, la, w))
<1>4. /\ r.c = [c EXCEPT ![s] = R] /\ r.out = out
      /\ r.hit <=> At(L, la) # {}
      /\ r.used <=> demand /\ \E y \in Lines(L, At(L, la)) : y.pf
  BY <1>1, <1>2 DEF access, GivesUp
<1>5. Found(c, la) = Lines(L, At(L, la))
  BY <1>1, <1>2 DEF Found
<1>6. /\ x.la = la /\ (x.dirty <=> write \/ \E y \in Found(c, la) : y.dirty)
      /\ x.pf <=> IF Found(c, la) = {} THEN pre ELSE ~demand /\ \E y \in Found(c, la) : y.pf
  <2>1. At(L, la) = {} <=> Lines(L, At(L, la)) = {}
    BY DEF Lines
  <2> QED BY <1>5, <2>1 DEF NewLine
<1>7. out = {} \/ \E v \in LinesOf(c) : out = {v} /\ v.la # la
  <2>1. CASE GivesUp(L, la, w) = {}
    BY <2>1 DEF Lines
  <2>2. CASE GivesUp(L, la, w) # {}
    <3>1. PICK p \in DOMAIN L : GivesUp(L, la, w) = {p}
      BY <1>2, <1>3, <2>2, Places DEF OnePlace
    <3>2. out = {L[p]}
      BY <3>1 DEF Lines
    <3>3. At(L, la) = {}
      BY <1>2, <1>3, <2>2, Places
    <3>4. L[p].la # la
      BY <3>3 DEF At
    <3>5. L[p] \in LinesOf(c)
      BY <1>2, LinesAre DEF Elems
    <3> QED BY <3>2, <3>4, <3>5
  <2> QED BY <2>1, <2>2
<1>8. At(L, la) # {} => out = {}
  BY DEF GivesUp, Lines
<1> HIDE DEF R, x, out
<1>9. /\ SetOK(R, w) /\ x \in Line
      /\ Elems(R) = (Elems(L) \ (Lines(L, At(L, la)) \cup out)) \cup {x}
  BY <1>2, <1>3, FrontIs DEF R, x, out
<1>10. \A y \in Elems(R) : setof(c, y.la) = s
  BY <1>1, <1>2, <1>6, <1>9 DEF CacheOK
<1>11. /\ CacheOK(r.c, w) /\ DOMAIN r.c = DOMAIN c
       /\ LinesOf(r.c) = (LinesOf(c) \ Elems(L)) \cup Elems(R)
  <2>1. InPlace(R, c, s, w)
    BY <1>9, <1>10 DEF InPlace
  <2>2. PICK d : d = r.c
    OBVIOUS
  <2>3. Replaced(c, w, s, R, d)
    BY <1>4, <2>1, <2>2, SetReplaced
  <2> QED BY <1>2, <2>2, <2>3 DEF Replaced
<1>12. LinesOf(r.c) = (LinesOf(c) \ (Found(c, la) \cup r.out)) \cup {x}
  <2>1. Found(c, la) \cup r.out \subseteq Elems(L)
    <3>1. OnePlace(L, GivesUp(L, la, w))
      BY <1>2, <1>3, Places
    <3>2. GivesUp(L, la, w) \subseteq DOMAIN L /\ At(L, la) \subseteq DOMAIN L
      BY <3>1 DEF OnePlace, At
    <3> QED BY <1>4, <1>5, <3>2 DEF out, Lines, Elems
  <2>2. Elems(L) \subseteq LinesOf(c)
    BY <1>2, LinesAre
  <2> QED BY <1>4, <1>5, <1>9, <1>11, <2>1, <2>2
<1>13. r.hit <=> Found(c, la) # {}
  <2>1. Lines(L, At(L, la)) # {} <=> At(L, la) # {}
    BY DEF Lines
  <2> QED BY <1>4, <1>5, <2>1
<1>14. r.hit => r.out = {}
  BY <1>4, <1>8
<1>15. r.used <=> demand /\ \E y \in Found(c, la) : y.pf
  BY <1>4, <1>5
<1> QED BY <1>4, <1>6, <1>7, <1>9, <1>11, <1>12, <1>13, <1>14, <1>15 DEF LinesAfter

\* And after a line has been taken out.
LEMMA InvalidateLines ==
  ASSUME NEW w, NEW c, CacheOK(c, w), NEW la \in Nat
  PROVE  /\ CacheOK(invalidate(c, la), w) /\ DOMAIN invalidate(c, la) = DOMAIN c
         /\ LinesOf(invalidate(c, la)) = LinesOf(c) \ Found(c, la)
<1>1. CASE Found(c, la) = {}
  BY <1>1 DEF invalidate, probe
<1>2. CASE Found(c, la) # {}
  <2>1. enabled(c)
    BY <1>2 DEF Found
  <2>2. PICK s \in DOMAIN c : s = setof(c, la)
    BY <2>1, SetOfIn
  <2>3. PICK L : L = c[s] /\ SetOK(L, w)
    BY DEF CacheOK
  <2> DEFINE R == Without(L, At(L, la))
  <2>4. invalidate(c, la) = [c EXCEPT ![s] = R]
    BY <1>2, <2>2, <2>3 DEF invalidate, probe
  <2>5. Found(c, la) = Lines(L, At(L, la))
    BY <2>1, <2>2, <2>3 DEF Found
  <2>6. w \in Nat \ {0} /\ w \in Nat
    BY <2>1 DEF CacheOK
  <2>7. OnePlace(L, At(L, la))
    BY <2>3, <2>6, Places
  <2> HIDE DEF R
  <2>8. /\ R \in Seq(Line) /\ Distinct(R) /\ Elems(R) = Elems(L) \ Lines(L, At(L, la))
        /\ Len(R) = IF At(L, la) = {} THEN Len(L) ELSE Len(L) - 1
    BY <2>3, <2>6, <2>7, WithoutIs DEF R
  <2>9. SetOK(R, w)
    <3>1. Len(L) \in Nat /\ Len(L) <= w
      BY <2>3, LenProperties DEF SetOK
    <3> QED BY <2>6, <2>8, <3>1 DEF SetOK
  <2>10. \A y \in Elems(R) : setof(c, y.la) = s
    BY <2>3, <2>8 DEF CacheOK
  <2>11. PICK d : d = invalidate(c, la)
    OBVIOUS
  <2>12. /\ CacheOK(d, w) /\ DOMAIN d = DOMAIN c
         /\ LinesOf(d) = (LinesOf(c) \ Elems(L)) \cup Elems(R)
    <3>1. InPlace(R, c, s, w)
      BY <2>9, <2>10 DEF InPlace
    <3>2. Replaced(c, w, s, R, d)
      BY <2>4, <2>11, <3>1, SetReplaced
    <3> QED BY <2>3, <3>2 DEF Replaced
  <2>13. Elems(L) \subseteq LinesOf(c)
    BY <2>3, LinesAre
  <2>14. Found(c, la) \subseteq Elems(L)
    BY <2>5 DEF Lines, Elems, At
  <2> QED BY <2>5, <2>8, <2>11, <2>12, <2>13, <2>14
<1> QED BY <1>1, <1>2
----------------------------------------------------------------------------
(* What a cache holds, by addresses.                                       *)

Held(c)    == {x.la : x \in LinesOf(c)}
DirtyIn(c) == {x.la : x \in {y \in LinesOf(c) : y.dirty}}
Marked(c)  == {x \in LinesOf(c) : x.pf}
Flags(c)   == Cardinality(Marked(c))
Bit(b)     == IF b THEN 1 ELSE 0

LasOf(out)   == {v.la : v \in out}
DirtyOut(out) == {v.la : v \in {y \in out : y.dirty}}
PfOut(out)   == \E v \in out : v.pf

BuiltAs(c, g) == CacheOK(c, g.ways) /\ DOMAIN c = 0..g.sets-1 /\ IsFiniteSet(LinesOf(c))

\* One member more and one less.
LEMMA Exchanged ==
  ASSUME NEW S, IsFiniteSet(S), NEW y, NEW x, x \notin S \ {y}, NEW p \in BOOLEAN, NEW q \in BOOLEAN,
         q <=> y \in S, NEW T, T = (S \ {y}) \cup (IF p THEN {x} ELSE {})
  PROVE  IsFiniteSet(T) /\ Cardinality(T) = Cardinality(S) - Bit(q) + Bit(p)
<1>1. PICK U : U = S \ {y}
  OBVIOUS
<1>2. Cardinality(S) \in Nat
  BY FS_CardinalityType
<1>3. IsFiniteSet(U) /\ Cardinality(U) = IF y \in S THEN Cardinality(S) - 1 ELSE Cardinality(S)
  BY <1>1, FS_RemoveElement
<1>4. Cardinality(U) = Cardinality(S) - Bit(q)
  <2>1. CASE q
    BY <1>2, <1>3, <2>1 DEF Bit
  <2>2. CASE ~q
    BY <1>2, <1>3, <2>2 DEF Bit
  <2> QED BY <2>1, <2>2
<1>5. Cardinality(U) \in Nat
  BY <1>3, FS_CardinalityType
<1>6. CASE p
  <2>1. T = U \cup {x} /\ x \notin U
    BY <1>1, <1>6
  <2>2. IsFiniteSet(T) /\ Cardinality(T) = Cardinality(U) + 1
    BY <1>3, <2>1, FS_AddElement
  <2>3. Bit(p) = 1
    BY <1>6 DEF Bit
  <2> QED BY <1>4, <2>2, <2>3
<1>7. CASE ~p
  <2>1. T = U /\ Bit(p) = 0
    BY <1>1, <1>7 DEF Bit
  <2>2. PICK k \in Nat : k = Cardinality(U) /\ k = Cardinality(S) - Bit(q)
    BY <1>4, <1>5
  <2>3. k = k + 0
    OBVIOUS
  <2> QED BY <1>3, <2>1, <2>2, <2>3
<1> QED BY <1>6, <1>7

Accessed(c, g, la, write, pre, demand, r) ==
  /\ BuiltAs(r.c, g)
  /\ r.hit <=> la \in Held(c)
  /\ r.out = {} \/ \E v \in Line : r.out = {v} /\ v.la # la
  /\ r.hit => r.out = {}
  /\ r.hit \in BOOLEAN /\ r.used \in BOOLEAN
  /\ Held(r.c) = (Held(c) \ LasOf(r.out)) \cup {la}
  /\ DirtyIn(r.c) = (DirtyIn(c) \ LasOf(r.out)) \cup (IF write THEN {la} ELSE {})
  /\ DirtyIn(c) \cap LasOf(r.out) = DirtyOut(r.out)
  /\ Flags(c) \in Nat /\ Flags(r.c) \in Nat
  /\ Flags(r.c) = Flags(c) - Bit(r.used) - Bit(PfOut(r.out)) + Bit(~r.hit /\ pre)
LEMMA AccessIs ==
  ASSUME NEW g, NEW c, BuiltAs(c, g), enabled(c), NEW la \in Nat,
         NEW write \in BOOLEAN, NEW pre \in BOOLEAN, NEW demand \in BOOLEAN,
         NEW r, r = access(c, g.ways, la, write, pre, demand)
  PROVE  Accessed(c, g, la, write, pre, demand, r)
<1> DEFINE F == Found(c, la)
<1>1. CacheOK(c, g.ways) /\ IsFiniteSet(LinesOf(c)) /\ DOMAIN c = 0..g.sets-1
  BY DEF BuiltAs
<1>2. F = {x \in LinesOf(c) : x.la = la}
  BY <1>1, FoundIs
<1>3. /\ LinesOf(c) \in SUBSET Line
      /\ \A x, y \in LinesOf(c) : x.la = y.la => x = y
  BY <1>1, OneLine
<1>0. LinesAfter(c, g.ways, la, write, pre, demand, r)
  BY <1>1, AccessLines
<1>4. /\ CacheOK(r.c, g.ways) /\ DOMAIN r.c = DOMAIN c
  BY <1>0 DEF LinesAfter
<1>5. /\ r.hit <=> F # {}
      /\ r.out = {} \/ \E v \in LinesOf(c) : r.out = {v} /\ v.la # la
      /\ r.hit => r.out = {}
      /\ r.used <=> demand /\ \E y \in F : y.pf
  BY <1>0 DEF LinesAfter
<1>6. PICK x \in Line :
        /\ x.la = la /\ (x.dirty <=> write \/ \E y \in F : y.dirty)
        /\ x.pf <=> IF F = {} THEN pre ELSE ~demand /\ \E y \in F : y.pf
        /\ LinesOf(r.c) = (LinesOf(c) \ (F \cup r.out)) \cup {x}
  BY <1>0 DEF LinesAfter
<1>7. r.hit \in BOOLEAN /\ r.used \in BOOLEAN
  BY DEF access
<1> HIDE DEF F
<1>8. BuiltAs(r.c, g)
  <2>1. IsFiniteSet(LinesOf(c) \ (F \cup r.out))
    BY <1>1, FS_Difference
  <2>2. IsFiniteSet(LinesOf(r.c))
    BY <1>6, <2>1, FS_AddElement
  <2> QED BY <1>1, <1>4, <2>2 DEF BuiltAs
<1>9. r.hit <=> la \in Held(c)
  BY <1>2, <1>5 DEF Held
<1>10. r.out = {} \/ \E v \in Line : r.out = {v} /\ v.la # la
  BY <1>3, <1>5
<1>11. ASSUME NEW y \in LinesOf(c) PROVE y \in r.out <=> y.la \in LasOf(r.out)
  BY <1>3, <1>5 DEF LasOf
<1>12. Held(r.c) = (Held(c) \ LasOf(r.out)) \cup {la}
  <2>1. ASSUME NEW y \in LinesOf(r.c) PROVE y.la \in (Held(c) \ LasOf(r.out)) \cup {la}
    BY <1>2, <1>6, <1>11 DEF Held
  <2>2. ASSUME NEW y \in LinesOf(c), y.la \notin LasOf(r.out) PROVE y.la \in Held(r.c)
    BY <1>2, <1>6, <1>11, <2>2 DEF Held
  <2>3. la \in Held(r.c)
    BY <1>6 DEF Held
  <2> QED BY <2>1, <2>2, <2>3 DEF Held
<1>13. DirtyIn(r.c) = (DirtyIn(c) \ LasOf(r.out)) \cup (IF write THEN {la} ELSE {})
  <2>1. ASSUME NEW y \in LinesOf(r.c), y.dirty
        PROVE  y.la \in (DirtyIn(c) \ LasOf(r.out)) \cup (IF write THEN {la} ELSE {})
    <3>1. CASE y = x /\ ~write
      <4>1. PICK z \in F : z.dirty
        BY <1>6, <2>1, <3>1
      <4>2. z \in LinesOf(c) /\ z.la = la
        BY <1>2
      <4>3. la \notin LasOf(r.out)
        BY <1>5 DEF LasOf
      <4> QED BY <1>6, <3>1, <4>1, <4>2, <4>3 DEF DirtyIn
    <3>2. CASE y = x /\ write
      BY <1>6, <3>2
    <3>3. CASE y # x
      <4>1. y \in LinesOf(c) /\ y \notin r.out
        BY <1>6, <3>3
      <4> QED BY <1>11, <2>1, <4>1 DEF DirtyIn
    <3> QED BY <3>1, <3>2, <3>3
  <2>2. ASSUME NEW y \in LinesOf(c), y.dirty, y.la \notin LasOf(r.out) PROVE y.la \in DirtyIn(r.c)
    <3>1. CASE y \in F
      <4>1. x.dirty /\ y.la = x.la
        BY <1>2, <1>6, <2>2, <3>1
      <4>2. x \in LinesOf(r.c)
        BY <1>6
      <4> QED BY <4>1, <4>2 DEF DirtyIn
    <3>2. CASE y \notin F
      <4>1. y \in LinesOf(r.c)
        BY <1>6, <1>11, <2>2, <3>2
      <4> QED BY <2>2, <4>1 DEF DirtyIn
    <3> QED BY <3>1, <3>2
  <2>3. write => la \in DirtyIn(r.c)
    <3>1. x \in LinesOf(r.c) /\ x.la = la /\ (write => x.dirty)
      BY <1>6
    <3> QED BY <3>1 DEF DirtyIn
  <2>4. DirtyIn(r.c) \subseteq (DirtyIn(c) \ LasOf(r.out)) \cup (IF write THEN {la} ELSE {})
    BY <2>1 DEF DirtyIn
  <2>5. \A a \in DirtyIn(c) : a \notin LasOf(r.out) => a \in DirtyIn(r.c)
    <3> SUFFICES ASSUME NEW a \in DirtyIn(c), a \notin LasOf(r.out) PROVE a \in DirtyIn(r.c)
      OBVIOUS
    <3>1. PICK y \in LinesOf(c) : y.dirty /\ a = y.la
      BY DEF DirtyIn
    <3> QED BY <2>2, <3>1
  <2> QED BY <2>3, <2>4, <2>5
<1>14. DirtyIn(c) \cap LasOf(r.out) = DirtyOut(r.out)
  <2>1. ASSUME NEW a \in DirtyIn(c), a \in LasOf(r.out) PROVE a \in DirtyOut(r.out)
    <3>1. PICK y \in LinesOf(c) : y.dirty /\ a = y.la
      BY DEF DirtyIn
    <3>2. y \in r.out
      BY <1>11, <2>1, <3>1
    <3> QED BY <3>1, <3>2 DEF DirtyOut
  <2>2. ASSUME NEW v \in r.out, v.dirty PROVE v.la \in DirtyIn(c) /\ v.la \in LasOf(r.out)
    <3>1. v \in LinesOf(c)
      BY <1>5
    <3> QED BY <2>2, <3>1 DEF DirtyIn, LasOf
  <2> QED BY <2>1, <2>2 DEF DirtyOut
<1>15. /\ Flags(c) \in Nat /\ Flags(r.c) \in Nat
       /\ Flags(r.c) = Flags(c) - Bit(r.used) - Bit(PfOut(r.out)) + Bit(~r.hit /\ pre)
  <2>1. IsFiniteSet(Marked(c)) /\ Flags(c) \in Nat
    <3>1. Marked(c) \in SUBSET LinesOf(c)
      BY DEF Marked
    <3>2. IsFiniteSet(Marked(c))
      BY <1>1, <3>1, FS_Subset
    <3> QED BY <3>2, FS_CardinalityType DEF Flags
  <2>2. Marked(r.c) = (Marked(c) \ (F \cup r.out)) \cup (IF x.pf THEN {x} ELSE {})
    BY <1>6 DEF Marked
  <2>3. x.pf \in BOOLEAN
    BY DEF Line
  <2>4. CASE F # {}
    <3>1. PICK y \in F : F = {y}
      BY <1>2, <1>3, <2>4
    <3>2. r.out = {} /\ r.hit
      BY <1>5, <2>4
    <3>3. y \in Line /\ y \in LinesOf(c) /\ y.la = la /\ y.pf \in BOOLEAN
      BY <1>2, <1>3 DEF Line
    <3>4. y.pf <=> y \in Marked(c)
      BY <3>3 DEF Marked
    <3>5. x \notin Marked(c) \ {y}
      BY <1>3, <1>6, <3>3 DEF Marked
    <3>6. Marked(r.c) = (Marked(c) \ {y}) \cup (IF x.pf THEN {x} ELSE {})
      BY <2>2, <3>1, <3>2
    <3>7. IsFiniteSet(Marked(r.c)) /\ Flags(r.c) = Flags(c) - Bit(y.pf) + Bit(x.pf)
      BY <2>1, <2>3, <3>3, <3>4, <3>5, <3>6, Exchanged DEF Flags
    <3>8. (r.used <=> demand /\ y.pf) /\ (x.pf <=> ~demand /\ y.pf)
      BY <1>5, <1>6, <2>4, <3>1
    <3>9. ~PfOut(r.out) /\ ~(~r.hit /\ pre)
      BY <3>2 DEF PfOut
    <3>10. Bit(PfOut(r.out)) = 0 /\ Bit(~r.hit /\ pre) = 0
      BY <3>9 DEF Bit
    <3>11. Bit(y.pf) - Bit(x.pf) = Bit(r.used) /\ Bit(y.pf) \in Int /\ Bit(x.pf) \in Int /\ Bit(r.used) \in Int
      BY <3>8 DEF Bit
    <3> QED BY <2>1, <3>7, <3>10, <3>11, FS_CardinalityType DEF Flags
  <2>5. CASE F = {}
    <3>1. x.pf <=> pre
      BY <1>6, <2>5
    <3>2. ~r.used /\ ~r.hit
      BY <1>5, <2>5
    <3>3. x \notin LinesOf(c)
      BY <1>2, <1>6, <2>5
    <3>4. PICK y : /\ Marked(c) \ {y} = Marked(c) \ r.out /\ y = y
                   /\ PfOut(r.out) <=> y \in Marked(c)
      <4>1. CASE r.out = {}
        <5>1. Marked(c) \ {x} = Marked(c) \ r.out /\ x \notin Marked(c) /\ ~PfOut(r.out)
          BY <3>3, <4>1 DEF Marked, PfOut
        <5> QED BY <5>1
      <4>2. CASE r.out # {}
        <5>1. PICK v \in LinesOf(c) : r.out = {v}
          BY <1>5, <4>2
        <5>2. PfOut(r.out) <=> v \in Marked(c)
          BY <5>1 DEF Marked, PfOut
        <5> QED BY <5>1, <5>2
      <4> QED BY <4>1, <4>2
    <3>5. x \notin Marked(c) \ {y}
      BY <3>3 DEF Marked
    <3>6. Marked(r.c) = (Marked(c) \ {y}) \cup (IF x.pf THEN {x} ELSE {})
      BY <2>2, <2>5, <3>4
    <3>7. PICK q \in BOOLEAN : q = PfOut(r.out) /\ (q <=> y \in Marked(c))
      BY <3>4 DEF PfOut
    <3>8. IsFiniteSet(Marked(r.c)) /\ Flags(r.c) = Flags(c) - Bit(q) + Bit(x.pf)
      BY <2>1, <2>3, <3>5, <3>6, <3>7, Exchanged DEF Flags
    <3>9. Bit(r.used) = 0 /\ Bit(x.pf) = Bit(~r.hit /\ pre) /\ Bit(x.pf) \in Int /\ Bit(q) \in Int
      BY <3>1, <3>2 DEF Bit
    <3>10. Flags(r.c) \in Nat
      BY <3>8, FS_CardinalityType DEF Flags
    <3>11. Flags(c) - Bit(q) = Flags(c) - Bit(r.used) - Bit(q)
      BY <2>1, <3>9
    <3> QED BY <2>1, <3>7, <3>8, <3>9, <3>10, <3>11
  <2> QED BY <2>4, <2>5
<1> QED BY <1>5, <1>7, <1>8, <1>9, <1>10, <1>12, <1>13, <1>14, <1>15 DEF Accessed
\* What is asked of a cache.
LEMMA AskedOf ==
  ASSUME NEW g, NEW c, BuiltAs(c, g), NEW la \in Nat
  PROVE  /\ probe(c, la) <=> la \in Held(c)
         /\ (\E x \in Found(c, la) : x.dirty) <=> la \in DirtyIn(c)
<1>1. Found(c, la) = {x \in LinesOf(c) : x.la = la}
  BY FoundIs DEF BuiltAs
<1>2. probe(c, la) <=> la \in Held(c)
  BY <1>1 DEF probe, Held
<1>3. (\E x \in Found(c, la) : x.dirty) <=> la \in DirtyIn(c)
  BY <1>1 DEF DirtyIn
<1> QED BY <1>2, <1>3

LEMMA InvalidateIs ==
  ASSUME NEW g, NEW c, BuiltAs(c, g), NEW la \in Nat, NEW d, d = invalidate(c, la)
  PROVE  /\ BuiltAs(d, g)
         /\ Held(d) = Held(c) \ {la} /\ DirtyIn(d) = DirtyIn(c) \ {la}
<1>1. CacheOK(c, g.ways) /\ IsFiniteSet(LinesOf(c)) /\ DOMAIN c = 0..g.sets-1
  BY DEF BuiltAs
<1>2. Found(c, la) = {x \in LinesOf(c) : x.la = la}
  BY <1>1, FoundIs
<1>3. CacheOK(d, g.ways) /\ DOMAIN d = DOMAIN c /\ LinesOf(d) = LinesOf(c) \ Found(c, la)
  BY <1>1, InvalidateLines
<1>4. BuiltAs(d, g)
  <2>1. IsFiniteSet(LinesOf(d))
    BY <1>1, <1>3, FS_Difference
  <2> QED BY <1>1, <1>3, <2>1 DEF BuiltAs
<1>5. \A x : x \in LinesOf(d) <=> x \in LinesOf(c) /\ x.la # la
  BY <1>2, <1>3
<1>6. Held(d) = Held(c) \ {la}
  BY <1>5 DEF Held
<1>7. DirtyIn(d) = DirtyIn(c) \ {la}
  BY <1>5 DEF DirtyIn
<1> QED BY <1>4, <1>6, <1>7

LEMMA ColdIs ==
  ASSUME NEW g \in Geometries
  PROVE  /\ BuiltAs(Cold(g.sets), g) /\ Held(Cold(g.sets)) = {}
         /\ DirtyIn(Cold(g.sets)) = {} /\ Flags(Cold(g.sets)) = 0
<1>1. g.sets \in Nat /\ g.ways \in Nat /\ (g.sets # 0 => g.ways # 0)
  BY DEF Geometries
<1>2. CacheOK(Cold(g.sets), g.ways) /\ LinesOf(Cold(g.sets)) = {}
  BY <1>1, ColdOK
<1>3. BuiltAs(Cold(g.sets), g)
  BY <1>2, FS_EmptySet DEF BuiltAs, Cold
<1>4. Held(Cold(g.sets)) = {} /\ DirtyIn(Cold(g.sets)) = {} /\ Marked(Cold(g.sets)) = {}
  BY <1>2 DEF Held, DirtyIn, Marked
<1> QED BY <1>3, <1>4, FS_EmptySet DEF Flags

\* How many are flagged is a number.
LEMMA FlagsType ==
  ASSUME NEW g, NEW c, BuiltAs(c, g)
  PROVE  Flags(c) \in Nat
<1>1. Marked(c) \in SUBSET LinesOf(c)
  BY DEF Marked
<1>2. IsFiniteSet(Marked(c))
  BY <1>1, FS_Subset DEF BuiltAs
<1> QED BY <1>2, FS_CardinalityType DEF Flags
----------------------------------------------------------------------------
(* One simulator.  Tracks says of it that its caches are in order, that    *)
(* the L1s hold nothing but what the L2 and A hold if that is inclusive,   *)
(* and that k more lines have been prefetched than used, given up or are   *)
(* flagged in the L2.                                                      *)

Fields == {"l1i", "l1d", "l2", "l3", "itlb", "dtlb", "tbl", "rec", "pf_gap", "dram", "hits", "sw_hit"}

\* n is a simulator and has the fields F of m.
Shaped(m) == m = [f \in Fields |-> m[f]]
Untouched(m, n, F) == Shaped(n) /\ \A f \in F : n[f] = m[f]

Entry == [key : Nat, last : Nat, stride : Int, conf : 0..3]
TableOK(tbl) == \A i \in DOMAIN tbl : tbl[i] \in Entry

SimOK(c, m) ==
  /\ m = [f \in Fields |-> m[f]]
  /\ BuiltAs(m.l1i, c.l1i) /\ BuiltAs(m.l1d, c.l1d) /\ BuiltAs(m.l2, c.l2) /\ BuiltAs(m.l3, c.l3)
  /\ m.pf_gap \in Int /\ TableOK(m.tbl)

InL1s(m) == Held(m.l1d) \cup Held(m.l1i)

Tracks(c, m, A, k) ==
  /\ SimOK(c, m)
  /\ enabled(m.l2) /\ c.inclusive => InL1s(m) \subseteq Held(m.l2) \cup A
  /\ enabled(m.l2) => m.pf_gap = Flags(m.l2) + k

\* Where the newest data of a line can be.
Safe(m) == DirtyIn(m.l1d) \cup DirtyIn(m.l2) \cup DirtyIn(m.l3) \cup m.dram

ConfigOK(c) ==
  /\ {c.l1i, c.l1d, c.l2, c.l3} \subseteq Geometries
  /\ c.inclusive \in BOOLEAN /\ c.pf \in Prefetchers

\* What only the counters or the TLBs notice.
SameCaches(m, n) ==
  /\ n = [f \in Fields |-> n[f]]
  /\ n.l1i = m.l1i /\ n.l1d = m.l1d /\ n.l2 = m.l2 /\ n.l3 = m.l3
  /\ n.pf_gap = m.pf_gap /\ n.tbl = m.tbl /\ n.dram = m.dram

LEMMA SameTracks ==
  ASSUME NEW c, NEW m, NEW A, NEW k, Tracks(c, m, A, k), NEW n, SameCaches(m, n)
  PROVE  Tracks(c, n, A, k) /\ Safe(n) = Safe(m)
BY DEF Tracks, SimOK, SameCaches, InL1s, Safe

LEMMA Uncounted ==
  ASSUME NEW c, NEW m, SimOK(c, m), NEW level, NEW la, NEW demand \in BOOLEAN, NEW hit \in BOOLEAN
  PROVE  /\ SameCaches(m, sweep_on(c, m, level, la, demand))
         /\ SameCaches(m, Counted(m, level, hit))
<1>1. m = [f \in Fields |-> m[f]]
  BY DEF SimOK
<1>2. SameCaches(m, m)
  BY <1>1 DEF SameCaches
<1>3. \A x, y : SameCaches(m, [m EXCEPT !.rec = x, !.sw_hit = y])
  BY <1>1 DEF SameCaches, Fields
<1>4. \A x : SameCaches(m, [m EXCEPT !.hits = x])
  BY <1>1 DEF SameCaches, Fields
<1>5. SameCaches(m, sweep_on(c, m, level, la, demand))
  BY <1>2, <1>3 DEF sweep_on, Swept
<1>6. SameCaches(m, Counted(m, level, hit))
  BY <1>2, <1>4 DEF Counted
<1> QED BY <1>5, <1>6
\* Less may be missing in the L2 than is.
LEMMA Weaker ==
  ASSUME NEW c, NEW m, NEW A, NEW B, A \subseteq B, NEW k, Tracks(c, m, A, k)
  PROVE  Tracks(c, m, B, k)
BY DEF Tracks

\* A cache that is on stays on.
LEMMA StaysOn ==
  ASSUME NEW c, NEW m, SimOK(c, m), NEW n, SimOK(c, n)
  PROVE  /\ enabled(n.l1d) <=> enabled(m.l1d)
         /\ enabled(n.l2) <=> enabled(m.l2)
         /\ enabled(n.l3) <=> enabled(m.l3)
BY DEF SimOK, BuiltAs, enabled

\* What happens behind the L2 keeps what the L2 and the L1s hold.
LEMMA L3Is ==
  ASSUME NEW c, NEW m, NEW A, NEW k, Tracks(c, m, A, k), enabled(m.l3),
         NEW la \in Nat, NEW write \in BOOLEAN, NEW demand \in BOOLEAN,
         NEW n, n = L3Access(c, m, la, write, demand)
  PROVE  /\ Tracks(c, n, A, k) /\ n.l2 = m.l2
         /\ Safe(m) \subseteq Safe(n) /\ (write => la \in Safe(n))
<1>1. PICK r : r = access(m.l3, c.l3.ways, la, write, FALSE, demand)
  OBVIOUS
<1>2. SimOK(c, m) /\ BuiltAs(m.l3, c.l3) /\ m = [f \in Fields |-> m[f]]
  BY DEF Tracks, SimOK
<1>3. Accessed(m.l3, c.l3, la, write, FALSE, demand, r)
  BY <1>1, <1>2, AccessIs
<1>4. n = [[m EXCEPT !.l3 = r.c] EXCEPT !.dram = @ \cup DirtyOut(r.out)]
  BY <1>1 DEF L3Access, l3_evict, DirtyOut
<1>5. /\ n = [f \in Fields |-> n[f]]
      /\ n.l1i = m.l1i /\ n.l1d = m.l1d /\ n.l2 = m.l2 /\ n.l3 = r.c
      /\ n.pf_gap = m.pf_gap /\ n.tbl = m.tbl /\ n.dram = m.dram \cup DirtyOut(r.out)
  BY <1>2, <1>4 DEF Fields
<1>6. Tracks(c, n, A, k)
  BY <1>3, <1>5 DEF Tracks, SimOK, InL1s, Accessed
<1>7. Safe(m) \subseteq Safe(n) /\ (write => la \in Safe(n))
  <2>1. /\ DirtyIn(r.c) = (DirtyIn(m.l3) \ LasOf(r.out)) \cup (IF write THEN {la} ELSE {})
        /\ DirtyIn(m.l3) \cap LasOf(r.out) = DirtyOut(r.out)
    BY <1>3 DEF Accessed
  <2> QED BY <1>5, <2>1 DEF Safe
<1> QED BY <1>5, <1>6, <1>7

LEMMA BelowIs ==
  ASSUME NEW c, NEW m, NEW A, NEW k, Tracks(c, m, A, k), NEW la \in Nat,
         NEW n, n = Below(c, m, la)
  PROVE  Tracks(c, n, A, k) /\ n.l2 = m.l2 /\ Safe(m) \subseteq Safe(n) /\ la \in Safe(n)
<1>1. CASE enabled(m.l3)
  <2>1. n = L3Access(c, m, la, TRUE, FALSE)
    BY <1>1 DEF Below
  <2>2. PICK w \in BOOLEAN, d \in BOOLEAN : w = TRUE /\ d = FALSE
    OBVIOUS
  <2>3. n = L3Access(c, m, la, w, d)
    BY <2>1, <2>2
  <2>4. /\ Tracks(c, n, A, k) /\ n.l2 = m.l2
        /\ Safe(m) \subseteq Safe(n) /\ (w => la \in Safe(n))
    BY <1>1, <2>3, L3Is
  <2> QED BY <2>2, <2>4
<1>2. CASE ~enabled(m.l3)
  <2>1. n = [m EXCEPT !.dram = @ \cup {la}] /\ m = [f \in Fields |-> m[f]]
    BY <1>2 DEF Below, Tracks, SimOK
  <2>2. /\ n = [f \in Fields |-> n[f]]
        /\ n.l1i = m.l1i /\ n.l1d = m.l1d /\ n.l2 = m.l2 /\ n.l3 = m.l3
        /\ n.pf_gap = m.pf_gap /\ n.tbl = m.tbl /\ n.dram = m.dram \cup {la}
    BY <2>1 DEF Fields
  <2>3. Tracks(c, n, A, k)
    BY <2>2 DEF Tracks, SimOK, InL1s
  <2> QED BY <2>2, <2>3 DEF Safe
<1> QED BY <1>1, <1>2

\* A line that the L2 has given up: the copies above it, the flag and the data.
LEMMA GivenUpIs ==
  ASSUME NEW c, ConfigOK(c), NEW m, NEW v \in Line, NEW A, NEW k \in Int,
         Tracks(c, m, A \cup {v.la}, k), NEW n, n = GivenUp(c, m, v)
  PROVE  /\ Tracks(c, n, A, k - Bit(v.pf)) /\ n.l2 = m.l2
         /\ Safe(m) \subseteq Safe(n) /\ (v.dirty => v.la \in Safe(n))
<1>1. v.la \in Nat /\ v.pf \in BOOLEAN /\ v.dirty \in BOOLEAN /\ c.inclusive \in BOOLEAN
  BY DEF Line, ConfigOK
<1>2. PICK la \in Nat : la = v.la
  BY <1>1
<1>3. SimOK(c, m) /\ m = [f \in Fields |-> m[f]] /\ BuiltAs(m.l1d, c.l1d) /\ BuiltAs(m.l1i, c.l1i)
  BY DEF Tracks, SimOK
<1>4. PICK p : p = BackInvalidated(c, m, la)
  OBVIOUS
<1>5. PICK q : q = Unflagged(p, v.pf)
  OBVIOUS
<1>6. n = WrittenBack(c, q, la, NewestDirty(c, m, v))
  BY <1>2, <1>4, <1>5 DEF GivenUp
<1>7. /\ p = [f \in Fields |-> p[f]] /\ BuiltAs(p.l1d, c.l1d) /\ BuiltAs(p.l1i, c.l1i)
      /\ p.l2 = m.l2 /\ p.l3 = m.l3 /\ p.pf_gap = m.pf_gap /\ p.tbl = m.tbl /\ p.dram = m.dram
      /\ c.inclusive => InL1s(p) = InL1s(m) \ {la} /\ DirtyIn(p.l1d) = DirtyIn(m.l1d) \ {la}
      /\ ~c.inclusive => p = m
  <2>1. CASE c.inclusive
    <3>1. PICK d, e : d = invalidate(m.l1d, la) /\ e = invalidate(m.l1i, la)
      OBVIOUS
    <3>2. BuiltAs(d, c.l1d) /\ Held(d) = Held(m.l1d) \ {la} /\ DirtyIn(d) = DirtyIn(m.l1d) \ {la}
      BY <1>3, <3>1, InvalidateIs
    <3>3. BuiltAs(e, c.l1i) /\ Held(e) = Held(m.l1i) \ {la}
      BY <1>3, <3>1, InvalidateIs
    <3>4. p = [m EXCEPT !.l1d = d, !.l1i = e]
      BY <1>4, <2>1, <3>1 DEF BackInvalidated
    <3>5. /\ p = [f \in Fields |-> p[f]] /\ p.l1d = d /\ p.l1i = e
          /\ p.l2 = m.l2 /\ p.l3 = m.l3 /\ p.pf_gap = m.pf_gap /\ p.tbl = m.tbl /\ p.dram = m.dram
      BY <1>3, <3>4 DEF Fields
    <3> QED BY <2>1, <3>2, <3>3, <3>5 DEF InL1s
  <2>2. CASE ~c.inclusive
    BY <1>3, <1>4, <2>2 DEF BackInvalidated
  <2> QED BY <2>1, <2>2
<1>8. /\ q = [f \in Fields |-> q[f]]
      /\ q.l1i = p.l1i /\ q.l1d = p.l1d /\ q.l2 = p.l2 /\ q.l3 = p.l3
      /\ q.tbl = p.tbl /\ q.dram = p.dram /\ q.pf_gap = p.pf_gap - Bit(v.pf)
  BY <1>5, <1>7 DEF Unflagged, Fields, Bit
<1>9. Tracks(c, q, A, k - Bit(v.pf))
  <2>1. SimOK(c, q)
    <3>1. q.pf_gap \in Int
      BY <1>3, <1>7, <1>8 DEF SimOK, Bit
    <3> QED BY <1>3, <1>7, <1>8, <3>1 DEF SimOK
  <2>2. enabled(q.l2) /\ c.inclusive => InL1s(q) \subseteq Held(q.l2) \cup A
    <3> SUFFICES ASSUME enabled(q.l2), c.inclusive PROVE InL1s(q) \subseteq Held(q.l2) \cup A
      OBVIOUS
    <3>1. InL1s(m) \subseteq Held(m.l2) \cup (A \cup {la})
      BY <1>2, <1>7, <1>8 DEF Tracks
    <3>2. InL1s(q) = InL1s(m) \ {la}
      BY <1>7, <1>8 DEF InL1s
    <3> QED BY <1>7, <1>8, <3>1, <3>2
  <2>3. enabled(q.l2) => q.pf_gap = Flags(q.l2) + (k - Bit(v.pf))
    <3> SUFFICES ASSUME enabled(m.l2) PROVE q.pf_gap = Flags(q.l2) + (k - Bit(v.pf))
      BY <1>7, <1>8
    <3>1. m.pf_gap = Flags(m.l2) + k
      BY DEF Tracks
    <3>2. PICK b \in Int, h \in Int : b = Bit(v.pf) /\ h = Flags(m.l2)
      <4>1. Flags(m.l2) \in Nat /\ Bit(v.pf) \in Int
        BY <1>3, FlagsType DEF SimOK, Bit
      <4> QED BY <4>1
    <3> QED BY <1>7, <1>8, <3>1, <3>2
  <2> QED BY <2>1, <2>2, <2>3 DEF Tracks
<1>10. NewestDirty(c, m, v) <=> v.dirty \/ (c.inclusive /\ la \in DirtyIn(m.l1d))
  <2>1. (\E x \in Found(m.l1d, la) : x.dirty) <=> la \in DirtyIn(m.l1d)
    BY <1>3, AskedOf
  <2> QED BY <1>2, <2>1 DEF NewestDirty
<1>11. Safe(m) \subseteq Safe(q) \cup (IF NewestDirty(c, m, v) THEN {la} ELSE {})
  <2>1. CASE c.inclusive
    <3>1. DirtyIn(q.l1d) = DirtyIn(m.l1d) \ {la}
      BY <1>7, <1>8, <2>1
    <3> QED BY <1>7, <1>8, <1>10, <2>1, <3>1 DEF Safe
  <2>2. CASE ~c.inclusive
    BY <1>7, <1>8, <2>2 DEF Safe
  <2> QED BY <2>1, <2>2
<1>12. CASE NewestDirty(c, m, v)
  <2>1. n = Below(c, q, la)
    BY <1>6, <1>12 DEF WrittenBack
  <2>2. Tracks(c, n, A, k - Bit(v.pf)) /\ n.l2 = q.l2 /\ Safe(q) \subseteq Safe(n) /\ la \in Safe(n)
    BY <1>9, <2>1, BelowIs
  <2> QED BY <1>2, <1>7, <1>8, <1>11, <2>2
<1>13. CASE ~NewestDirty(c, m, v)
  <2>1. n = q /\ ~v.dirty
    BY <1>6, <1>10, <1>13 DEF WrittenBack
  <2> QED BY <1>7, <1>8, <1>9, <1>11, <1>13, <2>1
<1> QED BY <1>12, <1>13
\* What a cache gives up is one line or nothing.
OneOut(out) == out = {} \/ \E v \in Line : out = {v}

LEMMA EvictIs ==
  ASSUME NEW c, ConfigOK(c), NEW m, NEW out, OneOut(out), NEW A, NEW k \in Int,
         Tracks(c, m, A \cup LasOf(out), k), NEW n, n = l2_evict(c, m, out)
  PROVE  /\ Tracks(c, n, A, k - Bit(PfOut(out))) /\ n.l2 = m.l2
         /\ Safe(m) \subseteq Safe(n) /\ DirtyOut(out) \subseteq Safe(n)
<1>1. CASE out = {}
  <2>1. n = m /\ A \cup LasOf(out) = A /\ DirtyOut(out) = {} /\ ~PfOut(out)
    BY <1>1 DEF l2_evict, LasOf, DirtyOut, PfOut
  <2>2. k - Bit(PfOut(out)) = k
    BY <2>1 DEF Bit
  <2> QED BY <2>1, <2>2
<1>2. CASE out # {}
  <2>1. PICK v \in Line : out = {v}
    BY <1>2 DEF OneOut
  <2>2. n = GivenUp(c, m, v)
    <3>1. (CHOOSE x \in out : TRUE) = v
      BY <2>1
    <3> QED BY <1>2, <3>1 DEF l2_evict
  <2>3. LasOf(out) = {v.la} /\ DirtyOut(out) = IF v.dirty THEN {v.la} ELSE {}
    BY <2>1 DEF LasOf, DirtyOut
  <2>4. Bit(PfOut(out)) = Bit(v.pf)
    BY <2>1 DEF PfOut, Bit
  <2>5. /\ Tracks(c, n, A, k - Bit(v.pf)) /\ n.l2 = m.l2
        /\ Safe(m) \subseteq Safe(n) /\ (v.dirty => v.la \in Safe(n))
    BY <2>2, <2>3, GivenUpIs
  <2> QED BY <2>3, <2>4, <2>5
<1> QED BY <1>1, <1>2

\* An access to the L2, before what it gives up has gone.
AtL2(c, m, la, write, pre, demand, r, n, A, k) ==
  /\ Accessed(m.l2, c.l2, la, write, pre, demand, r)
  /\ OneOut(r.out)
  /\ Tracks(c, n, (A \ {la}) \cup LasOf(r.out), k + Bit(r.used) + Bit(PfOut(r.out)) - Bit(~r.hit /\ pre))
  /\ Safe(m) \subseteq Safe(n) \cup DirtyOut(r.out)
  /\ write => la \in Safe(n)

LEMMA AtL2Is ==
  ASSUME NEW c, ConfigOK(c), NEW m, NEW A, NEW k \in Int, Tracks(c, m, A, k), enabled(m.l2),
         NEW la \in Nat, NEW write \in BOOLEAN, NEW pre \in BOOLEAN, NEW demand \in BOOLEAN,
         NEW r, r = access(m.l2, c.l2.ways, la, write, pre, demand),
         NEW d \in BOOLEAN, NEW n, n = sweep_on(c, [m EXCEPT !.l2 = r.c], "l2", la, d)
  PROVE  AtL2(c, m, la, write, pre, demand, r, n, A, k)
<1>1. SimOK(c, m) /\ BuiltAs(m.l2, c.l2) /\ m = [f \in Fields |-> m[f]] /\ m.pf_gap \in Int
  BY DEF Tracks, SimOK
<1>2. Accessed(m.l2, c.l2, la, write, pre, demand, r)
  BY <1>1, AccessIs
<1>3. PICK p : p = [m EXCEPT !.l2 = r.c]
  OBVIOUS
<1>4. /\ p = [f \in Fields |-> p[f]]
      /\ p.l1i = m.l1i /\ p.l1d = m.l1d /\ p.l2 = r.c /\ p.l3 = m.l3
      /\ p.pf_gap = m.pf_gap /\ p.tbl = m.tbl /\ p.dram = m.dram
  BY <1>1, <1>3 DEF Fields
<1>5. SimOK(c, p)
  BY <1>1, <1>2, <1>4 DEF SimOK, Accessed
<1>6. enabled(p.l2)
  BY <1>1, <1>5, StaysOn
<1>7. c.inclusive => InL1s(p) \subseteq Held(p.l2) \cup ((A \ {la}) \cup LasOf(r.out))
  <2> SUFFICES ASSUME c.inclusive PROVE InL1s(p) \subseteq Held(p.l2) \cup ((A \ {la}) \cup LasOf(r.out))
    OBVIOUS
  <2>1. InL1s(m) \subseteq Held(m.l2) \cup A
    BY DEF Tracks
  <2>2. Held(r.c) = (Held(m.l2) \ LasOf(r.out)) \cup {la}
    BY <1>2 DEF Accessed
  <2>3. InL1s(p) = InL1s(m)
    BY <1>4 DEF InL1s
  <2> QED BY <1>4, <2>1, <2>2, <2>3
<1>8. p.pf_gap = Flags(p.l2) + (k + Bit(r.used) + Bit(PfOut(r.out)) - Bit(~r.hit /\ pre))
  <2>1. m.pf_gap = Flags(m.l2) + k
    BY DEF Tracks
  <2>2. /\ Flags(m.l2) \in Nat /\ Flags(r.c) \in Nat
        /\ Flags(r.c) = Flags(m.l2) - Bit(r.used) - Bit(PfOut(r.out)) + Bit(~r.hit /\ pre)
    BY <1>2 DEF Accessed
  <2>3. PICK x \in Int, y \in Int, z \in Int :
          x = Bit(r.used) /\ y = Bit(PfOut(r.out)) /\ z = Bit(~r.hit /\ pre)
    <3>1. Bit(r.used) \in Int /\ Bit(PfOut(r.out)) \in Int /\ Bit(~r.hit /\ pre) \in Int
      BY DEF Bit
    <3> QED BY <3>1
  <2>4. PICK h \in Int, j \in Int, e \in Int : h = Flags(m.l2) /\ j = Flags(r.c) /\ e = m.pf_gap
    <3>1. Flags(m.l2) \in Int /\ Flags(r.c) \in Int /\ m.pf_gap \in Int
      BY <1>1, <2>2
    <3> QED BY <3>1, Zenon
  <2>5. j = h - x - y + z /\ e = h + k
    BY <2>1, <2>2, <2>3, <2>4
  <2>6. e = j + (k + x + y - z)
    BY <2>5
  <2> QED BY <1>4, <2>3, <2>4, <2>6
<1>9. Tracks(c, p, (A \ {la}) \cup LasOf(r.out), k + Bit(r.used) + Bit(PfOut(r.out)) - Bit(~r.hit /\ pre))
  BY <1>5, <1>7, <1>8 DEF Tracks
<1>10. /\ Safe(m) \subseteq Safe(p) \cup DirtyOut(r.out)
       /\ write => la \in Safe(p)
  <2>1. /\ DirtyIn(r.c) = (DirtyIn(m.l2) \ LasOf(r.out)) \cup (IF write THEN {la} ELSE {})
        /\ DirtyIn(m.l2) \cap LasOf(r.out) = DirtyOut(r.out)
    BY <1>2 DEF Accessed
  <2> QED BY <1>4, <2>1 DEF Safe
<1>11. SameCaches(p, n)
  BY <1>3, <1>5, Uncounted
<1>12. Safe(n) = Safe(p) /\ Tracks(c, n, (A \ {la}) \cup LasOf(r.out), k + Bit(r.used) + Bit(PfOut(r.out)) - Bit(~r.hit /\ pre))
  BY <1>9, <1>11, SameTracks
<1>13. OneOut(r.out)
  BY <1>2 DEF OneOut, Accessed
<1> QED BY <1>2, <1>10, <1>12, <1>13 DEF AtL2

\* A line put into the L2 from above or by the prefetcher.
LEMMA InsertIs ==
  ASSUME NEW c, ConfigOK(c), NEW m, NEW A, NEW k \in Int, Tracks(c, m, A, k),
         NEW la \in Nat, NEW dirty \in BOOLEAN, NEW as_pf \in BOOLEAN, as_pf => la \notin Held(m.l2),
         NEW n, n = l2_insert(c, m, la, dirty, as_pf)
  PROVE  /\ Tracks(c, n, A, k - Bit(as_pf))
         /\ Safe(m) \subseteq Safe(n) /\ (dirty => la \in Safe(n))
<1>1. CASE ~enabled(m.l2)
  <2>1. SimOK(c, m) /\ m = [f \in Fields |-> m[f]]
    BY DEF Tracks, SimOK
  <2>2. n = IF dirty THEN [m EXCEPT !.dram = @ \cup {la}] ELSE m
    BY <1>1 DEF l2_insert
  <2>3. /\ n = [f \in Fields |-> n[f]]
        /\ n.l1i = m.l1i /\ n.l1d = m.l1d /\ n.l2 = m.l2 /\ n.l3 = m.l3
        /\ n.pf_gap = m.pf_gap /\ n.tbl = m.tbl
        /\ n.dram = m.dram \cup (IF dirty THEN {la} ELSE {})
    BY <2>1, <2>2 DEF Fields
  <2>4. SimOK(c, n)
    BY <2>1, <2>3 DEF SimOK
  <2>5. Tracks(c, n, A, k - Bit(as_pf))
    BY <1>1, <2>3, <2>4 DEF Tracks
  <2> QED BY <2>3, <2>5 DEF Safe
<1>2. CASE enabled(m.l2)
  <2>1. PICK d \in BOOLEAN : d = FALSE
    OBVIOUS
  <2>2. PICK r : r = access(m.l2, c.l2.ways, la, dirty, as_pf, d)
    OBVIOUS
  <2>3. PICK p : p = sweep_on(c, [m EXCEPT !.l2 = r.c], "l2", la, d)
    OBVIOUS
  <2>4. n = l2_evict(c, p, r.out)
    BY <1>2, <2>1, <2>2, <2>3 DEF l2_insert
  <2>5. AtL2(c, m, la, dirty, as_pf, d, r, p, A, k)
    BY <1>2, <2>2, <2>3, AtL2Is
  <2>6. r.hit <=> la \in Held(m.l2)
    BY <2>5 DEF AtL2, Accessed
  <2>7. ~r.used
    BY <2>1, <2>2 DEF access
  <2>8. Bit(r.used) = 0 /\ Bit(~r.hit /\ as_pf) = Bit(as_pf)
    BY <2>6, <2>7 DEF Bit
  <2>9. PICK x \in Int, y \in Int, j \in Int :
          x = Bit(as_pf) /\ y = Bit(PfOut(r.out)) /\ j = k + y - x
    <3>1. Bit(as_pf) \in Int /\ Bit(PfOut(r.out)) \in Int
      BY DEF Bit
    <3>2. k + Bit(PfOut(r.out)) - Bit(as_pf) \in Int
      BY <3>1
    <3> QED BY <3>1, <3>2
  <2>10. k + Bit(r.used) + Bit(PfOut(r.out)) - Bit(~r.hit /\ as_pf) = j
    BY <2>8, <2>9
  <2>11. Tracks(c, p, (A \ {la}) \cup LasOf(r.out), j) /\ OneOut(r.out)
    BY <2>5, <2>10 DEF AtL2
  <2>12. /\ Tracks(c, n, A \ {la}, j - Bit(PfOut(r.out)))
         /\ Safe(p) \subseteq Safe(n) /\ DirtyOut(r.out) \subseteq Safe(n)
    BY <2>4, <2>11, EvictIs
  <2>13. j - Bit(PfOut(r.out)) = k - Bit(as_pf)
    BY <2>9
  <2>14. Tracks(c, n, A, k - Bit(as_pf))
    <3>1. A \ {la} \subseteq A
      OBVIOUS
    <3> QED BY <2>12, <2>13, <3>1, Weaker
  <2>15. Safe(m) \subseteq Safe(p) \cup DirtyOut(r.out) /\ (dirty => la \in Safe(p))
    BY <2>5 DEF AtL2
  <2> QED BY <2>12, <2>14, <2>15
<1> QED BY <1>1, <1>2
\* Behind an L1 miss.
LEMMA MissL2Is ==
  ASSUME NEW c, NEW m, NEW A, NEW k, Tracks(c, m, A, k), NEW la \in Nat,
         NEW n, n = MissL2(c, m, la).m
  PROVE  Tracks(c, n, A, k) /\ Safe(m) \subseteq Safe(n)
<1>1. CASE enabled(m.l3)
  <2>1. PICK w \in BOOLEAN, d \in BOOLEAN : w = FALSE /\ d = TRUE
    OBVIOUS
  <2>2. n = L3Access(c, m, la, w, d)
    BY <1>1, <2>1 DEF MissL2
  <2>3. Tracks(c, n, A, k) /\ Safe(m) \subseteq Safe(n)
    BY <1>1, <2>2, L3Is
  <2> QED BY <2>3
<1>2. CASE ~enabled(m.l3)
  BY <1>2 DEF MissL2
<1> QED BY <1>1, <1>2

\* The line that was missing in the L1 is in an inclusive L2 afterwards, and
\* the L1 has lost nothing else that it needs.
LEMMA MissL1Is ==
  ASSUME NEW c, ConfigOK(c), NEW m, NEW k \in Int, NEW la \in Nat, Tracks(c, m, {la}, k),
         NEW n, n = MissL1(c, m, la).m
  PROVE  Tracks(c, n, {}, k) /\ Safe(m) \subseteq Safe(n)
<1>1. CASE ~enabled(m.l2)
  <2>1. n = MissL2(c, m, la).m
    BY <1>1 DEF MissL1
  <2>2. Tracks(c, n, {la}, k) /\ Safe(m) \subseteq Safe(n)
    BY <2>1, MissL2Is
  <2>3. ~enabled(n.l2)
    BY <1>1, <2>2, StaysOn DEF Tracks
  <2> QED BY <2>2, <2>3 DEF Tracks
<1>2. CASE enabled(m.l2)
  <2>1. PICK w \in BOOLEAN, pre \in BOOLEAN, d \in BOOLEAN : w = FALSE /\ pre = FALSE /\ d = TRUE
    OBVIOUS
  <2>2. PICK r : r = access(m.l2, c.l2.ways, la, w, pre, d)
    OBVIOUS
  <2>3. PICK p : p = sweep_on(c, [m EXCEPT !.l2 = r.c], "l2", la, d)
    OBVIOUS
  <2>4. PICK q : q = Counted(p, "l2", r.hit)
    OBVIOUS
  <2>5. PICK s : s = l2_evict(c, q, r.out)
    OBVIOUS
  <2>6. PICK t : t = Unflagged(s, r.used)
    OBVIOUS
  <2>7. n = Refilled(c, t, la, r).m
    <3>1. MissL1(c, m, la) = InL2(c, p, la, r)
      BY <1>2, <2>1, <2>2, <2>3 DEF MissL1
    <3>2. InL2(c, p, la, r) = Refilled(c, t, la, r)
      BY <2>4, <2>5, <2>6 DEF InL2
    <3> QED BY <3>1, <3>2
  <2>8. AtL2(c, m, la, w, pre, d, r, p, {la}, k)
    BY <1>2, <2>2, <2>3, AtL2Is
  <2>9. r.hit \in BOOLEAN /\ r.used \in BOOLEAN /\ OneOut(r.out)
    BY <2>8 DEF AtL2, Accessed
  <2>10. PICK x \in Int, y \in Int, i \in Int, j \in Int :
           x = Bit(r.used) /\ y = Bit(PfOut(r.out)) /\ i = k + x /\ j = i + y
    <3>1. PICK x \in Int, y \in Int : x = Bit(r.used) /\ y = Bit(PfOut(r.out))
      <4>1. Bit(r.used) \in Int /\ Bit(PfOut(r.out)) \in Int
        BY DEF Bit
      <4> QED BY <4>1
    <3>2. k + x \in Int /\ (k + x) + y \in Int
      OBVIOUS
    <3> QED BY <3>1, <3>2
  <2>11. k + Bit(r.used) + Bit(PfOut(r.out)) - Bit(~r.hit /\ pre) = j
    <3>1. Bit(~r.hit /\ pre) = 0
      BY <2>1 DEF Bit
    <3> QED BY <2>10, <3>1
  <2>12. Tracks(c, p, LasOf(r.out), j)
    <3>1. ({la} \ {la}) \cup LasOf(r.out) = LasOf(r.out)
      OBVIOUS
    <3> QED BY <2>8, <2>11, <3>1 DEF AtL2
  <2>13. Tracks(c, q, LasOf(r.out), j) /\ Safe(q) = Safe(p)
    <3>1. SameCaches(p, q)
      BY <2>4, <2>9, <2>12, Uncounted DEF Tracks
    <3> QED BY <2>12, <3>1, SameTracks
  <2>14. /\ Tracks(c, s, {}, j - Bit(PfOut(r.out)))
         /\ Safe(q) \subseteq Safe(s) /\ DirtyOut(r.out) \subseteq Safe(s)
    <3>1. PICK none, out : none = {} /\ out = r.out
      OBVIOUS
    <3>2. Tracks(c, q, none \cup LasOf(out), j)
      <4>1. none \cup LasOf(r.out) = LasOf(r.out)
        BY <3>1
      <4> QED BY <2>13, <3>1, <4>1
    <3>3. OneOut(out) /\ s = l2_evict(c, q, out)
      BY <2>5, <2>9, <3>1
    <3>4. Tracks(c, s, none, j - Bit(PfOut(out))) /\ s.l2 = q.l2
      BY <3>2, <3>3, EvictIs
    <3>5. Safe(q) \subseteq Safe(s) /\ DirtyOut(out) \subseteq Safe(s)
      BY <3>2, <3>3, EvictIs
    <3> QED BY <3>1, <3>4, <3>5
  <2>15. j - Bit(PfOut(r.out)) = i
    BY <2>10
  <2>16. Tracks(c, t, {}, k) /\ Safe(t) = Safe(s)
    <3>1. Tracks(c, s, {}, i) /\ SimOK(c, s) /\ s = [f \in Fields |-> s[f]] /\ s.pf_gap \in Int
      BY <2>14, <2>15 DEF Tracks, SimOK
    <3>2. /\ t = [f \in Fields |-> t[f]]
          /\ t.l1i = s.l1i /\ t.l1d = s.l1d /\ t.l2 = s.l2 /\ t.l3 = s.l3
          /\ t.tbl = s.tbl /\ t.dram = s.dram /\ t.pf_gap = s.pf_gap - x
      BY <2>6, <2>9, <2>10, <3>1 DEF Unflagged, Fields, Bit
    <3>3. SimOK(c, t)
      <4>1. t.pf_gap \in Int
        BY <3>1, <3>2
      <4> QED BY <3>1, <3>2, <4>1 DEF SimOK
    <3>4. enabled(t.l2) => t.pf_gap = Flags(t.l2) + k
      <4> SUFFICES ASSUME enabled(s.l2) PROVE t.pf_gap = Flags(t.l2) + k
        BY <3>2
      <4>1. s.pf_gap = Flags(s.l2) + i
        BY <3>1 DEF Tracks
      <4>2. Flags(s.l2) \in Nat
        BY <3>1, FlagsType DEF SimOK
      <4> QED BY <2>10, <3>2, <4>1, <4>2
    <3> QED BY <3>1, <3>2, <3>3, <3>4 DEF Tracks, InL1s, Safe
  <2>17. Safe(m) \subseteq Safe(t)
    <3>1. Safe(m) \subseteq Safe(p) \cup DirtyOut(r.out)
      BY <2>8 DEF AtL2
    <3> QED BY <2>13, <2>14, <2>16, <3>1
  <2>18. CASE r.hit
    <3>1. n = t
      BY <2>7, <2>18 DEF Refilled
    <3> QED BY <2>16, <2>17, <3>1
  <2>19. CASE ~r.hit
    <3>1. n = MissL2(c, t, la).m
      BY <2>7, <2>19 DEF Refilled
    <3>2. Tracks(c, n, {}, k) /\ Safe(t) \subseteq Safe(n)
      BY <2>16, <3>1, MissL2Is
    <3> QED BY <2>17, <3>2
  <2> QED BY <2>18, <2>19
<1> QED BY <1>1, <1>2

\* The line that an L1 gives up, and its data.
LEMMA L1VictimIs ==
  ASSUME NEW c, ConfigOK(c), NEW m, NEW k \in Int, Tracks(c, m, {}, k),
         NEW out, OneOut(out), NEW n, n = L1Victim(c, m, out)
  PROVE  Tracks(c, n, {}, k) /\ Safe(m) \subseteq Safe(n) /\ DirtyOut(out) \subseteq Safe(n)
<1>1. CASE \E x \in out : x.dirty
  <2>1. PICK v \in Line : out = {v} /\ v.dirty
    BY <1>1 DEF OneOut
  <2>2. (CHOOSE x \in out : TRUE) = v /\ v.la \in Nat
    BY <2>1 DEF Line
  <2>3. PICK w \in BOOLEAN, p \in BOOLEAN : w = TRUE /\ p = FALSE
    OBVIOUS
  <2>4. n = l2_insert(c, m, v.la, w, p)
    BY <1>1, <2>2, <2>3 DEF L1Victim
  <2>5. /\ Tracks(c, n, {}, k - Bit(p))
        /\ Safe(m) \subseteq Safe(n) /\ (w => v.la \in Safe(n))
    BY <2>2, <2>3, <2>4, InsertIs
  <2>6. k - Bit(p) = k
    BY <2>3 DEF Bit
  <2>7. DirtyOut(out) = {v.la}
    BY <2>1 DEF DirtyOut
  <2> QED BY <2>3, <2>5, <2>6, <2>7
<1>2. CASE ~\E x \in out : x.dirty
  <2>1. n = m /\ DirtyOut(out) = {}
    BY <1>2 DEF L1Victim, DirtyOut
  <2> QED BY <2>1
<1> QED BY <1>1, <1>2
\* An access to an L1, before what it gives up has gone.
AtL1(c, m, l1, la, write, r, p, k) ==
  /\ OneOut(r.out)
  /\ Tracks(c, p, {la}, k)
  /\ r.hit => Tracks(c, p, {}, k) /\ r.out = {}
  /\ Safe(m) \subseteq Safe(p) \cup DirtyOut(r.out)
  /\ write /\ l1 = "l1d" /\ enabled(m.l1d) => la \in Safe(p)

LEMMA AtL1Is ==
  ASSUME NEW c, NEW m, NEW k \in Int, Tracks(c, m, {}, k), NEW l1 \in {"l1i", "l1d"},
         NEW la \in Nat, NEW write \in BOOLEAN, NEW r,
         r = IF enabled(m[l1]) THEN access(m[l1], c[l1].ways, la, write, FALSE, TRUE)
             ELSE [c |-> m[l1], hit |-> FALSE, out |-> {}, used |-> FALSE],
         NEW p, p = [m EXCEPT ![l1] = r.c]
  PROVE  AtL1(c, m, l1, la, write, r, p, k)
<1>1. SimOK(c, m) /\ m = [f \in Fields |-> m[f]] /\ BuiltAs(m[l1], c[l1])
  BY DEF Tracks, SimOK
<1>2. CASE ~enabled(m[l1])
  <2>1. r.c = m[l1] /\ ~r.hit /\ r.out = {}
    BY <1>2
  <2>2. p = m
    BY <1>1, <2>1 DEF Fields
  <2>3. {} \subseteq {la}
    OBVIOUS
  <2>4. Tracks(c, p, {la}, k)
    BY <2>2, <2>3, Weaker
  <2>5. ~(l1 = "l1d" /\ enabled(m.l1d))
    BY <1>2
  <2> QED BY <2>1, <2>2, <2>4, <2>5 DEF AtL1, OneOut
<1>3. CASE enabled(m[l1])
  <2>1. PICK pre \in BOOLEAN, d \in BOOLEAN : pre = FALSE /\ d = TRUE
    OBVIOUS
  <2>2. PICK g, e : g = c[l1] /\ e = m[l1]
    OBVIOUS
  <2>3. r = access(e, g.ways, la, write, pre, d) /\ BuiltAs(e, g) /\ enabled(e)
    BY <1>1, <1>3, <2>1, <2>2
  <2>4. Accessed(e, g, la, write, pre, d, r)
    BY <2>3, AccessIs
  <2>5. /\ BuiltAs(r.c, g) /\ (r.hit <=> la \in Held(e)) /\ OneOut(r.out) /\ (r.hit => r.out = {})
        /\ Held(r.c) = (Held(e) \ LasOf(r.out)) \cup {la}
        /\ DirtyIn(r.c) = (DirtyIn(e) \ LasOf(r.out)) \cup (IF write THEN {la} ELSE {})
        /\ DirtyIn(e) \cap LasOf(r.out) = DirtyOut(r.out)
    BY <2>4 DEF Accessed, OneOut
  <2>6. /\ p = [f \in Fields |-> p[f]]
        /\ p.l2 = m.l2 /\ p.l3 = m.l3 /\ p.pf_gap = m.pf_gap /\ p.tbl = m.tbl /\ p.dram = m.dram
        /\ l1 = "l1d" => p.l1d = r.c /\ p.l1i = m.l1i /\ e = m.l1d /\ g = c.l1d
        /\ l1 = "l1i" => p.l1i = r.c /\ p.l1d = m.l1d /\ e = m.l1i /\ g = c.l1i
    BY <1>1, <2>2 DEF Fields
  <2>7. SimOK(c, p)
    BY <1>1, <2>5, <2>6 DEF SimOK
  <2>8. InL1s(p) \subseteq InL1s(m) \cup {la}
    BY <2>5, <2>6 DEF InL1s
  <2>9. r.hit => InL1s(p) \subseteq InL1s(m)
    <3>1. r.hit => LasOf(r.out) = {} /\ la \in Held(e)
      BY <2>5 DEF LasOf
    <3>2. r.hit => Held(r.c) = Held(e)
      <4>1. Held(r.c) = (Held(e) \ LasOf(r.out)) \cup {la}
        BY <2>5
      <4> QED BY <3>1, <4>1
    <3> QED BY <2>6, <3>2 DEF InL1s
  <2>10. Tracks(c, p, {la}, k)
    BY <2>6, <2>7, <2>8 DEF Tracks
  <2>11. r.hit => Tracks(c, p, {}, k)
    BY <2>6, <2>7, <2>9 DEF Tracks
  <2>12. Safe(m) \subseteq Safe(p) \cup DirtyOut(r.out)
    BY <2>5, <2>6 DEF Safe
  <2>13. write /\ l1 = "l1d" => la \in Safe(p)
    BY <2>5, <2>6 DEF Safe
  <2> QED BY <2>5, <2>10, <2>11, <2>12, <2>13 DEF AtL1
<1> QED BY <1>2, <1>3

\* One line of an access.
LineDone(c, m, k, la, store, ifetch, n) ==
  /\ Tracks(c, n, {}, k) /\ Safe(m) \subseteq Safe(n)
  /\ store /\ ~ifetch /\ enabled(m.l1d) => la \in Safe(n)

LEMMA LineIs ==
  ASSUME NEW c, ConfigOK(c), NEW m, NEW k \in Int, Tracks(c, m, {}, k), NEW la \in Nat,
         NEW store \in BOOLEAN, NEW ifetch \in BOOLEAN,
         NEW n, n = access_line(c, m, la, store, ifetch).m
  PROVE  LineDone(c, m, k, la, store, ifetch, n)
<1>1. PICK l1 \in {"l1i", "l1d"} : l1 = L1Of(ifetch)
  BY DEF L1Of
<1>2. PICK write \in BOOLEAN : write = (store /\ ~ifetch)
  OBVIOUS
<1>3. write => l1 = "l1d"
  BY <1>1, <1>2 DEF L1Of
<1>4. PICK d \in BOOLEAN : d = TRUE
  OBVIOUS
<1>5. PICK m1 : m1 = sweep_on(c, m, l1, la, d)
  OBVIOUS
<1>6. SimOK(c, m)
  BY DEF Tracks
<1>7. Tracks(c, m1, {}, k) /\ Safe(m1) = Safe(m) /\ m1.l1d = m.l1d
  <2>1. SameCaches(m, m1)
    BY <1>5, <1>6, Uncounted
  <2> QED BY <2>1, SameTracks DEF SameCaches
<1>8. PICK r : r = IF enabled(m1[l1]) THEN access(m1[l1], c[l1].ways, la, write, FALSE, TRUE)
                   ELSE [c |-> m1[l1], hit |-> FALSE, out |-> {}, used |-> FALSE]
  OBVIOUS
<1>9. n = InL1(c, m1, l1, la, r).m
  BY <1>1, <1>2, <1>4, <1>5, <1>8 DEF access_line, AccessL1
<1>10. PICK p : p = [m1 EXCEPT ![l1] = r.c]
  OBVIOUS
<1>11. AtL1(c, m1, l1, la, write, r, p, k)
  BY <1>7, <1>8, <1>10, AtL1Is
<1>12. CASE r.hit
  <2>1. n = Counted(p, l1, TRUE)
    BY <1>9, <1>10, <1>12 DEF InL1
  <2>2. Tracks(c, p, {}, k) /\ r.out = {}
    BY <1>11, <1>12 DEF AtL1
  <2>3. SameCaches(p, n)
    <3>1. PICK h \in BOOLEAN : h = TRUE
      OBVIOUS
    <3>2. n = Counted(p, l1, h) /\ SimOK(c, p)
      BY <2>1, <2>2, <3>1 DEF Tracks
    <3> QED BY <3>2, Uncounted
  <2>4. Tracks(c, n, {}, k) /\ Safe(n) = Safe(p)
    BY <2>2, <2>3, SameTracks
  <2>5. Safe(m1) \subseteq Safe(p) /\ (write /\ enabled(m.l1d) => la \in Safe(p))
    BY <1>3, <1>7, <1>11, <2>2 DEF AtL1, DirtyOut
  <2> QED BY <1>2, <1>7, <2>4, <2>5 DEF LineDone
<1>13. CASE ~r.hit
  <2>1. PICK q : q = MissL1(c, p, la).m
    OBVIOUS
  <2>2. n = L1Victim(c, q, r.out)
    BY <1>9, <1>10, <1>13, <2>1 DEF InL1, MissL1, MissL2, InL2, Refilled
  <2>3. Tracks(c, p, {la}, k) /\ OneOut(r.out)
    BY <1>11 DEF AtL1
  <2>4. Tracks(c, q, {}, k) /\ Safe(p) \subseteq Safe(q)
    BY <2>1, <2>3, MissL1Is
  <2>5. Tracks(c, n, {}, k) /\ Safe(q) \subseteq Safe(n) /\ DirtyOut(r.out) \subseteq Safe(n)
    BY <2>2, <2>3, <2>4, L1VictimIs
  <2>6. Safe(m1) \subseteq Safe(p) \cup DirtyOut(r.out) /\ (write /\ enabled(m.l1d) => la \in Safe(p))
    BY <1>3, <1>7, <1>11 DEF AtL1
  <2> QED BY <1>2, <1>7, <2>4, <2>5, <2>6 DEF LineDone
<1> QED BY <1>12, <1>13
\* A prefetch counts one more and puts in a line that is flagged.
LEMMA PrefetchIs ==
  ASSUME NEW c, ConfigOK(c), NEW m, NEW k \in Int, Tracks(c, m, {}, k),
         NEW addr \in Nat, NEW n, n = issue_prefetch(c, m, addr)
  PROVE  Tracks(c, n, {}, k) /\ Safe(m) \subseteq Safe(n)
<1>1. PICK la \in Nat : la = lineof(addr)
  <2>1. line_size \in Nat \ {0}
    BY CacheAssumption
  <2>2. lineof(addr) \in Nat
    BY <2>1 DEF lineof
  <2> QED BY <2>2
<1>2. CASE Redundant(m, la)
  BY <1>1, <1>2 DEF issue_prefetch
<1>3. CASE ~Redundant(m, la)
  <2>1. PICK p : p = [m EXCEPT !.pf_gap = @ + 1]
    OBVIOUS
  <2>2. PICK w \in BOOLEAN, y \in BOOLEAN : w = FALSE /\ y = TRUE
    OBVIOUS
  <2>3. PICK q : q = IF enabled(p.l3) THEN L3Access(c, p, la, w, w) ELSE p
    OBVIOUS
  <2>4. n = l2_insert(c, q, la, w, y)
    <3>1. p.l3 = m.l3
      BY <2>1 DEF Tracks, SimOK, Fields
    <3> QED BY <1>1, <1>3, <2>1, <2>2, <2>3, <3>1 DEF issue_prefetch
  <2>5. SimOK(c, m) /\ m = [f \in Fields |-> m[f]] /\ m.pf_gap \in Int
    BY DEF Tracks, SimOK
  <2>6. /\ p = [f \in Fields |-> p[f]]
        /\ p.l1i = m.l1i /\ p.l1d = m.l1d /\ p.l2 = m.l2 /\ p.l3 = m.l3
        /\ p.tbl = m.tbl /\ p.dram = m.dram /\ p.pf_gap = m.pf_gap + 1
    BY <2>1, <2>5 DEF Fields
  <2>7. Tracks(c, p, {}, k + 1) /\ Safe(p) = Safe(m)
    <3>1. SimOK(c, p)
      <4>1. p.pf_gap \in Int
        BY <2>5, <2>6
      <4> QED BY <2>5, <2>6, <4>1 DEF SimOK
    <3>2. enabled(p.l2) => p.pf_gap = Flags(p.l2) + (k + 1)
      <4> SUFFICES ASSUME enabled(m.l2) PROVE p.pf_gap = Flags(p.l2) + (k + 1)
        BY <2>6
      <4>1. m.pf_gap = Flags(m.l2) + k
        BY DEF Tracks
      <4>2. Flags(m.l2) \in Nat
        BY <2>5, FlagsType DEF SimOK
      <4> QED BY <2>6, <4>1, <4>2
    <3> QED BY <2>6, <3>1, <3>2 DEF Tracks, InL1s, Safe
  <2>8. Tracks(c, q, {}, k + 1) /\ q.l2 = p.l2 /\ Safe(p) \subseteq Safe(q)
    <3>1. CASE enabled(p.l3)
      <4>1. q = L3Access(c, p, la, w, w)
        BY <2>3, <3>1
      <4>2. PICK j : j = k + 1
        OBVIOUS
      <4>3. Tracks(c, q, {}, j) /\ q.l2 = p.l2 /\ Safe(p) \subseteq Safe(q)
        BY <2>7, <3>1, <4>1, <4>2, L3Is
      <4> QED BY <4>2, <4>3
    <3>2. CASE ~enabled(p.l3)
      BY <2>3, <2>7, <3>2
    <3> QED BY <3>1, <3>2
  <2>9. la \notin Held(q.l2)
    <3>1. ~probe(m.l2, la) /\ BuiltAs(m.l2, c.l2)
      BY <1>3, <2>5 DEF Redundant, SimOK
    <3>2. la \notin Held(m.l2)
      BY <3>1, AskedOf
    <3> QED BY <2>6, <2>8, <3>2
  <2>10. PICK j \in Int : j = k + 1
    OBVIOUS
  <2>11. Tracks(c, q, {}, j)
    BY <2>8, <2>10
  <2>12. Tracks(c, n, {}, j - Bit(y)) /\ Safe(q) \subseteq Safe(n)
    BY <2>4, <2>9, <2>11, InsertIs
  <2>13. j - Bit(y) = k
    <3>1. Bit(y) = 1
      BY <2>2 DEF Bit
    <3> QED BY <2>10, <3>1
  <2> QED BY <2>7, <2>8, <2>12, <2>13
<1> QED BY <1>2, <1>3
----------------------------------------------------------------------------
(* The loops of an access: over its pages, its lines and what it           *)
(* prefetches.                                                             *)

Advance(l, k, x) ==
  IF l.over = "pages" THEN Translate(l.c, x, l.tlb, l.first + k - 1)
  ELSE IF l.over = "lines" THEN Look(l.c, x, l.first + k - 1, l.a)
  ELSE issue_prefetch(l.c, x, l.out[k])

Loop(f, n, l, b) == f = [k \in 0..n |-> IF k = 0 THEN b ELSE Advance(l, k, f[k-1])]

\* Every loop can be counted through: the function of its rounds exists.
LEMMA LoopExists == ASSUME NEW l, NEW b PROVE \A n \in Nat : \E f : Loop(f, n, l, b)
<1> DEFINE S == {n \in Nat : \A f : ~Loop(f, n, l, b)}
<1> SUFFICES ASSUME S # {} PROVE FALSE
  OBVIOUS
<1>1. PICK m \in S : \A n \in S : m <= n
  <2>1. S \in SUBSET Nat
    OBVIOUS
  <2> QED BY <2>1, LeastNat
<1>2. CASE m = 0
  <2> DEFINE f == [k \in 0..0 |-> b]
  <2>1. Loop(f, 0, l, b)
    BY DEF Loop
  <2> QED BY <1>2, <2>1
<1>3. CASE m # 0
  <2>1. m - 1 \in Nat /\ m - 1 \notin S
    BY <1>1, <1>3
  <2>2. PICK g : Loop(g, m - 1, l, b)
    BY <2>1
  <2> DEFINE f == [k \in 0..m |-> IF k = m THEN Advance(l, m, g[m-1]) ELSE g[k]]
  <2>3. /\ DOMAIN g = 0..m-1
        /\ \A k \in 0..m-1 : g[k] = IF k = 0 THEN b ELSE Advance(l, k, g[k-1])
    BY <2>2 DEF Loop
  <2>4. ASSUME NEW k \in 0..m PROVE f[k] = IF k = 0 THEN b ELSE Advance(l, k, f[k-1])
    <3>1. CASE k = m
      <4>1. f[k-1] = g[m-1] /\ f[k] = Advance(l, m, g[m-1])
        BY <1>3, <3>1
      <4> QED BY <4>1, <3>1, <1>3
    <3>2. CASE k # m /\ k # 0
      <4>1. k \in 0..m-1 /\ k - 1 \in 0..m /\ k - 1 # m
        BY <3>2
      <4>2. f[k] = g[k] /\ f[k-1] = g[k-1]
        BY <4>1, <3>2
      <4> QED BY <4>1, <4>2, <2>3, <3>2
    <3>3. CASE k = 0
      <4>1. f[k] = g[0] /\ 0 \in 0..m-1
        BY <3>3, <1>3
      <4> QED BY <4>1, <2>3, <3>3
    <3> QED BY <3>1, <3>2, <3>3
  <2>5. f = [k \in 0..m |-> IF k = 0 THEN b ELSE Advance(l, k, f[k-1])]
    <3>1. DOMAIN f = 0..m /\ f = [k \in 0..m |-> f[k]]
      OBVIOUS
    <3> HIDE DEF f
    <3> QED BY <3>1, <2>4
  <2>6. Loop(f, m, l, b)
    <3> HIDE DEF f
    <3> QED BY <2>5 DEF Loop
  <2> QED BY <2>6
<1> QED BY <1>2, <1>3

\* The lines or pages of an access.
LEMMA Units ==
  ASSUME NEW a \in Accesses, NEW unit \in Nat \ {0}
  PROVE  /\ Lowest(a, unit) \in Nat /\ Highest(a, unit) \in Nat
         /\ Lowest(a, unit) <= Highest(a, unit) /\ Highest(a, unit) <= Top \div unit
<1>1. a.va \in Nat /\ a.size \in Nat \ {0} /\ a.va + a.size <= Top /\ Top \in Nat
  BY CacheAssumption DEF Accesses
<1>2. PICK x \in Nat, y \in Nat : x = a.va /\ y = a.va + a.size - 1 /\ x <= y /\ y <= Top
  <2>1. a.va + a.size - 1 \in Nat /\ a.va <= a.va + a.size - 1 /\ a.va + a.size - 1 <= Top
    BY <1>1
  <2> QED BY <1>1, <2>1
<1>3. \A i, j \in Nat : i <= j => i \div unit \in Nat /\ i \div unit <= j \div unit
  OBVIOUS
<1>4. x \div unit \in Nat /\ y \div unit \in Nat /\ x \div unit <= y \div unit /\ y \div unit <= Top \div unit
  BY <1>1, <1>2, <1>3
<1> QED BY <1>2, <1>4 DEF Lowest, Highest

\* A TLB keeps to itself.
BesideTlbs == Fields \ {"itlb", "dtlb"}

LEMMA TranslatedIs ==
  ASSUME NEW c, NEW m, Shaped(m), NEW a \in Accesses,
         NEW tlb \in {"itlb", "dtlb"}, NEW r, r = Translated(c, m, tlb, a)
  PROVE  Untouched(m, r.m, BesideTlbs)
<1>1. page_size \in Nat \ {0}
  BY CacheAssumption
<1>2. PICK first \in Nat, n \in Nat :
        first = Lowest(a, page_size) /\ n = Highest(a, page_size) - first + 1
  <2>1. /\ Lowest(a, page_size) \in Nat /\ Highest(a, page_size) \in Nat
        /\ Lowest(a, page_size) <= Highest(a, page_size)
    BY <1>1, Units
  <2>2. Highest(a, page_size) - Lowest(a, page_size) + 1 \in Nat
    BY <2>1
  <2> QED BY <2>1, <2>2
<1>3. PICK l : l = [over |-> "pages", c |-> c, tlb |-> tlb, first |-> first]
  OBVIOUS
<1>4. PICK b : b = [m |-> m, miss |-> FALSE]
  OBVIOUS
<1>5. \A f : Loop(f, n, l, b) <=>
        f = [j \in 0..n |-> IF j = 0 THEN [m |-> m, miss |-> FALSE]
                            ELSE Translate(c, f[j-1], tlb, first + j - 1)]
  BY <1>3, <1>4 DEF Loop, Advance
<1>6. PICK f : Loop(f, n, l, b) /\ r = f[n]
  <2> DEFINE P(f) == f = [j \in 0..n |-> IF j = 0 THEN [m |-> m, miss |-> FALSE]
                                         ELSE Translate(c, f[j-1], tlb, first + j - 1)]
  <2>1. \E f : P(f)
    BY <1>5, LoopExists
  <2>2. P(CHOOSE f : P(f))
    BY <2>1
  <2>3. r = (CHOOSE f : P(f))[n]
    BY <1>2 DEF Translated
  <2> QED BY <1>5, <2>2, <2>3
<1>7. f[0] = b /\ \A j \in 1..n : f[j] = Translate(c, f[j-1], tlb, first + j - 1)
  <2>1. \A j \in 1..n : j \in 0..n /\ j # 0
    OBVIOUS
  <2>2. \A j, x : Advance(l, j, x) = Translate(c, x, tlb, first + j - 1)
    BY <1>3 DEF Advance
  <2> QED BY <1>6, <2>1, <2>2 DEF Loop
<1> DEFINE G == [j \in 0..n |-> Untouched(m, f[j].m, BesideTlbs)]
<1>8. Untouched(m, m, BesideTlbs)
  BY DEF Untouched
<1>9. G[0]
  BY <1>4, <1>7, <1>8
<1>10. ASSUME NEW j \in 1..n, G[j-1] PROVE G[j]
  <2>1. j - 1 \in 0..n /\ j \in 0..n
    OBVIOUS
  <2>2. PICK t, p : t = f[j-1] /\ p = first + j - 1
    OBVIOUS
  <2>3. f[j] = Translate(c, t, tlb, p)
    BY <1>7, <2>2
  <2>4. PICK e : Translate(c, t, tlb, p).m = [t.m EXCEPT ![tlb] = e]
    BY DEF Translate
  <2>5. Untouched(m, t.m, BesideTlbs)
    BY <1>10, <2>1, <2>2
  <2>6. Untouched(m, [t.m EXCEPT ![tlb] = e], BesideTlbs)
    BY <2>5 DEF Untouched, Shaped, Fields, BesideTlbs
  <2> QED BY <2>1, <2>3, <2>4, <2>6
<1>11. G \in [0..n -> BOOLEAN]
  BY DEF Untouched
<1> HIDE DEF G
<1>12. G[n]
  <2>1. \A j \in 0..n : G[j]
    BY <1>9, <1>10, <1>11, RoundByRound
  <2> QED BY <2>1
<1> QED BY <1>6, <1>12 DEF G
\* The simulator when the pages of the access are translated.
Pages(c, m, a) ==
  LET tlb == IF a.ifetch THEN "itlb" ELSE "dtlb"
  IN IF enabled(m[tlb]) THEN Translated(c, m, tlb, a).m ELSE m

LEMMA PagesAre ==
  ASSUME NEW c, NEW m, Shaped(m), NEW a \in Accesses
  PROVE  Untouched(m, Pages(c, m, a), BesideTlbs)
<1>1. PICK tlb \in {"itlb", "dtlb"} : tlb = IF a.ifetch THEN "itlb" ELSE "dtlb"
  OBVIOUS
<1>2. CASE enabled(m[tlb])
  <2>1. Pages(c, m, a) = Translated(c, m, tlb, a).m
    BY <1>1, <1>2 DEF Pages
  <2> QED BY <2>1, TranslatedIs
<1>3. CASE ~enabled(m[tlb])
  <2>1. Pages(c, m, a) = m
    BY <1>1, <1>3 DEF Pages
  <2> QED BY <2>1 DEF Untouched
<1> QED BY <1>2, <1>3

LEMMA PagesSame ==
  ASSUME NEW c, NEW m, NEW k, Tracks(c, m, {}, k), NEW a \in Accesses
  PROVE  SameCaches(m, Pages(c, m, a))
<1>1. Untouched(m, Pages(c, m, a), BesideTlbs)
  BY PagesAre DEF Tracks, SimOK, Shaped
<1> QED BY <1>1 DEF Untouched, Shaped, BesideTlbs, Fields, SameCaches

LEMMA InParts ==
  ASSUME NEW c, NEW m, NEW a, NEW p, p = Pages(c, m, a), NEW q, q = Looked(c, p, a).m
  PROVE  SimAccess(c, m, a).m = Prefetched(c, q, a)
BY DEF SimAccess, Overlay, Pages

\* The lines of an access, and where the newest data of those stored to is.
LookedTo(c, m, a, k, n, best) ==
  /\ Tracks(c, best.m, {}, k) /\ Safe(m) \subseteq Safe(best.m)
  /\ a.store /\ ~a.ifetch /\ enabled(m.l1d) =>
       \A i \in 0..n-1 : Lowest(a, line_size) + i \in Safe(best.m)

LEMMA LookIs ==
  ASSUME NEW c, ConfigOK(c), NEW m, SimOK(c, m), NEW k \in Int, NEW a \in Accesses,
         NEW n \in Nat, NEW best, LookedTo(c, m, a, k, n, best),
         NEW next, next = Look(c, best, Lowest(a, line_size) + n, a)
  PROVE  LookedTo(c, m, a, k, n + 1, next)
<1>1. a.store \in BOOLEAN /\ a.ifetch \in BOOLEAN
  BY DEF Accesses
<1>2. line_size \in Nat \ {0}
  BY CacheAssumption
<1>3. PICK la \in Nat : la = Lowest(a, line_size) + n
  <2>1. Lowest(a, line_size) \in Nat
    BY <1>2, Units
  <2> QED BY <2>1
<1>4. next.m = access_line(c, best.m, la, a.store, a.ifetch).m
  BY <1>3 DEF Look, Slower
<1>5. Tracks(c, best.m, {}, k) /\ Safe(m) \subseteq Safe(best.m)
  BY DEF LookedTo
<1>6. PICK x, y : x = best.m /\ y = next.m
  OBVIOUS
<1>7. PICK store \in BOOLEAN, ifetch \in BOOLEAN : store = a.store /\ ifetch = a.ifetch
  BY <1>1
<1>8. /\ Tracks(c, y, {}, k) /\ Safe(x) \subseteq Safe(y)
      /\ store /\ ~ifetch /\ enabled(x.l1d) => la \in Safe(y)
  <2>1. Tracks(c, x, {}, k) /\ y = access_line(c, x, la, store, ifetch).m
    BY <1>4, <1>5, <1>6, <1>7
  <2>2. LineDone(c, x, k, la, store, ifetch, y)
    BY <2>1, LineIs
  <2> QED BY <2>2 DEF LineDone
<1>9. enabled(x.l1d) <=> enabled(m.l1d)
  BY <1>5, <1>6, StaysOn DEF Tracks
<1>10. ASSUME a.store, ~a.ifetch, enabled(m.l1d), NEW i \in 0..(n+1)-1
       PROVE  Lowest(a, line_size) + i \in Safe(y)
  <2>1. i \in 0..n-1 \/ i = n
    OBVIOUS
  <2>2. CASE i = n
    BY <1>3, <1>7, <1>8, <1>9, <1>10, <2>2
  <2>3. CASE i \in 0..n-1
    <3>1. Lowest(a, line_size) + i \in Safe(x)
      BY <1>6, <1>10, <2>3 DEF LookedTo
    <3> QED BY <1>8, <3>1
  <2> QED BY <2>1, <2>2, <2>3
<1>11. Safe(m) \subseteq Safe(y)
  BY <1>5, <1>6, <1>8
<1> QED BY <1>6, <1>8, <1>10, <1>11 DEF LookedTo

LEMMA LookedIs ==
  ASSUME NEW c, ConfigOK(c), NEW m, NEW k \in Int, Tracks(c, m, {}, k),
         NEW a \in Accesses, NEW r, r = Looked(c, m, a)
  PROVE  /\ Tracks(c, r.m, {}, k) /\ Safe(m) \subseteq Safe(r.m)
         /\ a.store /\ ~a.ifetch /\ enabled(m.l1d) =>
              Lowest(a, line_size)..Highest(a, line_size) \subseteq Safe(r.m)
<1>1. line_size \in Nat \ {0}
  BY CacheAssumption
<1>2. PICK first \in Nat, last \in Nat, n \in Nat :
        first = Lowest(a, line_size) /\ last = Highest(a, line_size) /\ n = last - first + 1
  <2>1. /\ Lowest(a, line_size) \in Nat /\ Highest(a, line_size) \in Nat
        /\ Lowest(a, line_size) <= Highest(a, line_size)
    BY <1>1, Units
  <2>2. Highest(a, line_size) - Lowest(a, line_size) + 1 \in Nat
    BY <2>1
  <2> QED BY <2>1, <2>2
<1>3. PICK l : l = [over |-> "lines", c |-> c, a |-> a, first |-> first]
  OBVIOUS
<1>4. PICK b : b = [level |-> -1, pf_hit |-> FALSE, m |-> m]
  OBVIOUS
<1>5. \A f : Loop(f, n, l, b) <=>
        f = [j \in 0..n |-> IF j = 0 THEN [level |-> -1, pf_hit |-> FALSE, m |-> m]
                            ELSE Look(c, f[j-1], first + j - 1, a)]
  BY <1>3, <1>4 DEF Loop, Advance
<1>6. PICK f : Loop(f, n, l, b) /\ r = f[n]
  <2> DEFINE P(f) == f = [j \in 0..n |-> IF j = 0 THEN [level |-> -1, pf_hit |-> FALSE, m |-> m]
                                         ELSE Look(c, f[j-1], first + j - 1, a)]
  <2>1. \E f : P(f)
    BY <1>5, LoopExists
  <2>2. P(CHOOSE f : P(f))
    BY <2>1
  <2>3. r = (CHOOSE f : P(f))[n]
    BY <1>2 DEF Looked
  <2> QED BY <1>5, <2>2, <2>3
<1>7. f[0] = b /\ \A j \in 1..n : f[j] = Look(c, f[j-1], first + j - 1, a)
  <2>1. \A j \in 1..n : j \in 0..n /\ j # 0
    OBVIOUS
  <2>2. \A j, x : Advance(l, j, x) = Look(c, x, first + j - 1, a)
    BY <1>3 DEF Advance
  <2> QED BY <1>6, <2>1, <2>2 DEF Loop
<1> DEFINE G == [j \in 0..n |-> LookedTo(c, m, a, k, j, f[j])]
<1>8. SimOK(c, m)
  BY DEF Tracks
<1>9. G[0]
  BY <1>4, <1>7 DEF LookedTo
<1>10. ASSUME NEW j \in 1..n, G[j-1] PROVE G[j]
  <2>1. PICK i \in Nat : i = j - 1 /\ i \in 0..n /\ j = i + 1 /\ first + i = first + j - 1
    <3>1. j - 1 \in Nat /\ j - 1 \in 0..n /\ j = (j - 1) + 1 /\ first + (j - 1) = first + j - 1
      OBVIOUS
    <3> QED BY <3>1
  <2>2. LookedTo(c, m, a, k, i, f[i])
    BY <1>10, <2>1
  <2>3. f[j] = Look(c, f[i], Lowest(a, line_size) + i, a)
    BY <1>2, <1>7, <2>1
  <2>4. LookedTo(c, m, a, k, i + 1, f[j])
    BY <1>8, <2>2, <2>3, LookIs
  <2> QED BY <2>1, <2>4
<1>11. G \in [0..n -> BOOLEAN]
  BY DEF LookedTo
<1> HIDE DEF G
<1>12. LookedTo(c, m, a, k, n, r)
  <2>1. \A j \in 0..n : G[j]
    BY <1>9, <1>10, <1>11, RoundByRound
  <2>2. G[n]
    BY <2>1
  <2> QED BY <1>6, <2>2 DEF G
<1>13. \A x \in first..last : x - first \in 0..n-1 /\ x = first + (x - first)
  BY <1>2
<1> QED BY <1>2, <1>12, <1>13 DEF LookedTo

\* What prefetches keep.
NoneLost(c, m, k, x) == Tracks(c, x, {}, k) /\ Safe(m) \subseteq Safe(x)

LEMMA IssuedIs ==
  ASSUME NEW c, ConfigOK(c), NEW m, NEW k \in Int, Tracks(c, m, {}, k),
         NEW out \in Seq(Nat), NEW r, r = Issued(c, m, out)
  PROVE  Tracks(c, r, {}, k) /\ Safe(m) \subseteq Safe(r)
<1>1. PICK n \in Nat : n = Len(out)
  BY LenProperties
<1>2. PICK l : l = [over |-> "prefetches", c |-> c, out |-> out]
  OBVIOUS
<1>3. \A f : Loop(f, n, l, m) <=>
        f = [j \in 0..n |-> IF j = 0 THEN m ELSE issue_prefetch(c, f[j-1], out[j])]
  BY <1>2 DEF Loop, Advance
<1>4. PICK f : Loop(f, n, l, m) /\ r = f[n]
  <2> DEFINE P(f) == f = [j \in 0..n |-> IF j = 0 THEN m ELSE issue_prefetch(c, f[j-1], out[j])]
  <2>1. \E f : P(f)
    BY <1>3, LoopExists
  <2>2. P(CHOOSE f : P(f))
    BY <2>1
  <2>3. r = (CHOOSE f : P(f))[n]
    BY <1>1 DEF Issued
  <2> QED BY <1>3, <2>2, <2>3
<1>5. f[0] = m /\ \A j \in 1..n : f[j] = issue_prefetch(c, f[j-1], out[j])
  <2>1. \A j \in 1..n : j \in 0..n /\ j # 0
    OBVIOUS
  <2>2. \A j, x : Advance(l, j, x) = issue_prefetch(c, x, out[j])
    BY <1>2 DEF Advance
  <2> QED BY <1>4, <2>1, <2>2 DEF Loop
<1> DEFINE G == [j \in 0..n |-> NoneLost(c, m, k, f[j])]
<1>6. G[0]
  <2>1. NoneLost(c, m, k, f[0])
    BY <1>5 DEF NoneLost
  <2> QED BY <2>1
<1>7. ASSUME NEW j \in 1..n, G[j-1] PROVE G[j]
  <2>1. j - 1 \in 0..n /\ j \in 0..n /\ out[j] \in Nat
    BY <1>1, ElementOfSeq
  <2>2. PICK x, y : x = f[j-1] /\ y = f[j]
    OBVIOUS
  <2> DEFINE addr == out[j]
  <2>3. NoneLost(c, m, k, x)
    BY <1>7, <2>1, <2>2
  <2>4. y = issue_prefetch(c, x, addr)
    BY <1>5, <2>2
  <2>5. Tracks(c, x, {}, k) /\ Safe(m) \subseteq Safe(x) /\ addr \in Nat
    BY <2>1, <2>3 DEF NoneLost
  <2> HIDE DEF addr
  <2>6. Tracks(c, y, {}, k) /\ Safe(x) \subseteq Safe(y)
    BY <2>4, <2>5, PrefetchIs
  <2>7. NoneLost(c, m, k, y)
    BY <2>5, <2>6 DEF NoneLost
  <2> QED BY <2>1, <2>2, <2>7
<1>8. G \in [0..n -> BOOLEAN]
  BY DEF NoneLost
<1> HIDE DEF G
<1>9. G[n]
  <2>1. \A j \in 0..n : G[j]
    BY <1>6, <1>7, <1>8, RoundByRound
  <2> QED BY <2>1
<1>10. NoneLost(c, m, k, r)
  BY <1>4, <1>9 DEF G
<1> QED BY <1>10 DEF NoneLost
----------------------------------------------------------------------------
(* A whole access.                                                         *)

\* Training keeps the table in order and proposes addresses.
LEMMA UpdateIs ==
  ASSUME NEW c, ConfigOK(c), NEW tbl, TableOK(tbl), NEW key \in Nat, NEW addr \in Nat,
         NEW u, u = update(c, tbl, key, addr)
  PROVE  TableOK(u.tbl) /\ u.out \in Seq(Nat)
<1>1. PICK s : s = Slot(c, key)
  OBVIOUS
<1>2. PICK e : e = {tbl[i] : i \in DOMAIN tbl \cap {s}}
  OBVIOUS
<1>3. PICK x : x = Trained(e, key, addr)
  OBVIOUS
<1>4. \A y \in e : y \in Entry
  BY <1>2 DEF TableOK
<1>5. x \in Entry
  <2>1. CASE e = {} \/ \E y \in e : y.key # key
    <3>1. x = [key |-> key, last |-> addr, stride |-> 0, conf |-> 0]
      BY <1>3, <2>1 DEF Trained
    <3> QED BY <3>1 DEF Entry
  <2>2. CASE ~(e = {} \/ \E y \in e : y.key # key)
    <3>1. PICK y \in e : y = CHOOSE z \in e : TRUE
      BY <2>2
    <3>2. y \in Entry /\ y.last \in Nat /\ y.conf \in 0..3
      BY <1>4 DEF Entry
    <3>3. PICK d \in Int : d = addr - y.last
      BY <3>2
    <3>4. PICK v \in 0..3 : v = IF y.conf < 3 THEN y.conf + 1 ELSE y.conf
      <4>1. (IF y.conf < 3 THEN y.conf + 1 ELSE y.conf) \in 0..3
        BY <3>2
      <4> QED BY <4>1
    <3>5. x = IF d = 0 THEN y
              ELSE IF d = y.stride
                THEN [y EXCEPT !.last = addr, !.conf = v]
                ELSE [y EXCEPT !.last = addr, !.conf = 0, !.stride = d]
      BY <1>3, <2>2, <3>1, <3>3, <3>4 DEF Trained
    <3>6. [y EXCEPT !.last = addr, !.conf = v] \in Entry
      BY <3>2 DEF Entry
    <3>7. [y EXCEPT !.last = addr, !.conf = 0, !.stride = d] \in Entry
      <4>1. PICK z \in 0..3 : z = 0
        OBVIOUS
      <4>2. PICK h \in Entry : h = [y EXCEPT !.last = addr]
        BY <3>2 DEF Entry
      <4>3. PICK i \in Entry : i = [h EXCEPT !.conf = z]
        BY <4>2 DEF Entry
      <4>4. [i EXCEPT !.stride = d] \in Entry
        BY <4>3 DEF Entry
      <4> QED BY <4>1, <4>2, <4>3, <4>4
    <3> QED BY <3>2, <3>5, <3>6, <3>7
  <2> QED BY <2>1, <2>2
<1>6. u.tbl = [i \in DOMAIN tbl \cup {s} |-> IF i = s THEN x ELSE tbl[i]]
  BY <1>1, <1>2, <1>3 DEF update
<1>7. TableOK(u.tbl)
  BY <1>5, <1>6 DEF TableOK
<1>8. PICK n \in Nat, dist \in Nat, t \in Nat \ {0}, d \in Int :
        n = c.pf.degree /\ dist = c.pf.distance /\ t = Top /\ d = x.stride
  BY <1>5, CacheAssumption DEF ConfigOK, Prefetchers, Entry
<1>9. u.out = <<>> \/ u.out = [j \in 1..n |-> (addr + d * (dist + j - 1)) % t]
  BY <1>1, <1>2, <1>3, <1>8 DEF update
<1>10. ASSUME NEW j \in 1..n PROVE (addr + d * (dist + j - 1)) % t \in Nat
  <2>1. PICK i \in Int : i = dist + j - 1
    OBVIOUS
  <2>2. PICK y \in Int : y = addr + d * i
    <3>1. d * i \in Int
      OBVIOUS
    <3> QED BY <3>1
  <2>3. y % t \in Nat
    OBVIOUS
  <2> QED BY <2>1, <2>2, <2>3
<1>11. u.out \in Seq(Nat)
  <2>1. <<>> \in Seq(Nat)
    OBVIOUS
  <2>2. [j \in 1..n |-> (addr + d * (dist + j - 1)) % t] \in Seq(Nat)
    <3> DEFINE f == [j \in 1..n |-> (addr + d * (dist + j - 1)) % t]
    <3>1. f \in [1..n -> Nat]
      BY <1>10
    <3> HIDE DEF f
    <3> QED BY <3>1
  <2> QED BY <1>9, <2>1, <2>2
<1> QED BY <1>7, <1>11

LEMMA PrefetchedIs ==
  ASSUME NEW c, ConfigOK(c), NEW m, NEW k \in Int, Tracks(c, m, {}, k), NEW a \in Accesses,
         NEW n, n = Prefetched(c, m, a)
  PROVE  Tracks(c, n, {}, k) /\ Safe(m) \subseteq Safe(n)
<1>1. CASE c.pf.entries = 0 \/ a.ifetch
  BY <1>1 DEF Prefetched
<1>2. CASE ~(c.pf.entries = 0 \/ a.ifetch)
  <2>2. PICK addr \in Nat : addr = a.va
    BY DEF Accesses
  <2>1. PICK key \in Nat : key = IF c.pf.by_pc /\ a.pc # {} THEN CHOOSE pc \in a.pc : TRUE ELSE a.va \div page_size
    <3>1. page_size \in Nat \ {0}
      BY CacheAssumption
    <3>2. a.va \div page_size \in Nat
      BY <2>2, <3>1
    <3>3. a.pc # {} => (CHOOSE pc \in a.pc : TRUE) \in Nat
      BY DEF Accesses
    <3> QED BY <3>2, <3>3
  <2>3. PICK u : u = update(c, m.tbl, key, addr)
    OBVIOUS
  <2>4. PICK p, out : p = [m EXCEPT !.tbl = u.tbl] /\ out = u.out
    OBVIOUS
  <2>5. n = Issued(c, p, out)
    BY <1>2, <2>1, <2>2, <2>3, <2>4 DEF Prefetched
  <2>6. SimOK(c, m) /\ m = [f \in Fields |-> m[f]] /\ TableOK(m.tbl)
    BY DEF Tracks, SimOK
  <2>7. TableOK(u.tbl) /\ out \in Seq(Nat)
    BY <2>3, <2>4, <2>6, UpdateIs
  <2>8. /\ p = [f \in Fields |-> p[f]]
        /\ p.l1i = m.l1i /\ p.l1d = m.l1d /\ p.l2 = m.l2 /\ p.l3 = m.l3
        /\ p.pf_gap = m.pf_gap /\ p.tbl = u.tbl /\ p.dram = m.dram
    BY <2>4, <2>6 DEF Fields
  <2>9. Tracks(c, p, {}, k) /\ Safe(p) = Safe(m)
    BY <2>6, <2>7, <2>8 DEF Tracks, SimOK, InL1s, Safe
  <2>10. Tracks(c, n, {}, k) /\ Safe(p) \subseteq Safe(n)
    BY <2>5, <2>7, <2>9, IssuedIs
  <2> QED BY <2>9, <2>10
<1> QED BY <1>1, <1>2

\* The lines that an access stores to.
News(m, a) ==
  IF a.store /\ ~a.ifetch /\ enabled(m.l1d) THEN Lowest(a, line_size)..Highest(a, line_size) ELSE {}

LEMMA SimAccessIs ==
  ASSUME NEW c, ConfigOK(c), NEW m, NEW k \in Int, Tracks(c, m, {}, k), NEW a \in Accesses,
         NEW r, r = SimAccess(c, m, a)
  PROVE  Tracks(c, r.m, {}, k) /\ Safe(m) \cup News(m, a) \subseteq Safe(r.m)
<1>1. PICK p : p = Pages(c, m, a)
  OBVIOUS
<1>2. Tracks(c, p, {}, k) /\ Safe(p) = Safe(m) /\ p.l1d = m.l1d
  <2>1. SameCaches(m, p)
    BY <1>1, PagesSame
  <2> QED BY <2>1, SameTracks DEF SameCaches
<1>3. PICK l : l = Looked(c, p, a)
  OBVIOUS
<1>4. PICK q : q = l.m
  OBVIOUS
<1>5. r.m = Prefetched(c, q, a)
  BY <1>1, <1>3, <1>4, InParts
<1>6. Tracks(c, q, {}, k) /\ Safe(p) \subseteq Safe(q) /\ News(m, a) \subseteq Safe(q)
  <2>1. /\ Tracks(c, l.m, {}, k) /\ Safe(p) \subseteq Safe(l.m)
        /\ a.store /\ ~a.ifetch /\ enabled(p.l1d) =>
             Lowest(a, line_size)..Highest(a, line_size) \subseteq Safe(l.m)
    BY <1>2, <1>3, LookedIs
  <2> QED BY <1>2, <1>4, <2>1 DEF News
<1>7. PICK n : n = r.m
  OBVIOUS
<1>8. Tracks(c, n, {}, k) /\ Safe(q) \subseteq Safe(n)
  BY <1>5, <1>6, <1>7, PrefetchedIs
<1> QED BY <1>2, <1>6, <1>7, <1>8
----------------------------------------------------------------------------
(* The specification.                                                      *)

\* The inductive invariant: at the end of an access nothing that an L1 holds
\* is missing in an inclusive L2, every prefetched line is accounted for, and
\* each line that is owed is dirty in some cache.
CachesInv ==
  /\ cfg \in Configs
  /\ Tracks(cfg, sim, {}, 0)
  /\ owed \subseteq Dirty(sim)
  /\ owed \subseteq 0..Top \div line_size

LEMMA ConfigIs == ASSUME NEW c \in Configs PROVE ConfigOK(c) /\ c.stream \subseteq Accesses
BY CacheAssumption DEF ConfigOK, Configurations

LEMMA SafeIs == ASSUME NEW m PROVE Safe(m) = Dirty(m) \cup m.dram
<1>1. Dirty(m) = DirtyIn(m.l1d) \cup DirtyIn(m.l2) \cup DirtyIn(m.l3)
  BY DEF Dirty, DirtyIn
<1> QED BY <1>1 DEF Safe

\* Before the first access.
LEMMA OffTracks ==
  ASSUME NEW c, ConfigOK(c), NEW m, m = Off(c)
  PROVE  Tracks(c, m, {}, 0)
<1>1. /\ c.l1i \in Geometries /\ c.l1d \in Geometries /\ c.l2 \in Geometries /\ c.l3 \in Geometries
  BY DEF ConfigOK
<1>2. /\ m = [f \in Fields |-> m[f]]
      /\ m.l1i = Cold(c.l1i.sets) /\ m.l1d = Cold(c.l1d.sets)
      /\ m.l2 = Cold(c.l2.sets) /\ m.l3 = Cold(c.l3.sets)
      /\ m.tbl = <<>> /\ m.pf_gap = 0
  BY DEF Off, Fields
<1>3. TableOK(m.tbl)
  BY <1>2 DEF TableOK
<1>4. BuiltAs(m.l1i, c.l1i) /\ Held(m.l1i) = {}
  BY <1>1, <1>2, ColdIs
<1>5. BuiltAs(m.l1d, c.l1d) /\ Held(m.l1d) = {}
  BY <1>1, <1>2, ColdIs
<1>6. BuiltAs(m.l2, c.l2) /\ Flags(m.l2) = 0
  BY <1>1, <1>2, ColdIs
<1>7. BuiltAs(m.l3, c.l3)
  BY <1>1, <1>2, ColdIs
<1>8. SimOK(c, m)
  BY <1>2, <1>3, <1>4, <1>5, <1>6, <1>7 DEF SimOK
<1>9. InL1s(m) = {}
  BY <1>4, <1>5 DEF InL1s
<1>10. m.pf_gap = Flags(m.l2) + 0
  <2>1. Flags(m.l2) + 0 = 0
    BY <1>6
  <2> QED BY <1>2, <2>1
<1> QED BY <1>8, <1>9, <1>10 DEF Tracks

LEMMA CachesInit == Init => CachesInv
<1> SUFFICES ASSUME Init PROVE CachesInv
  OBVIOUS
<1>1. cfg \in Configs /\ sim = Off(cfg) /\ owed = {}
  BY DEF Init
<1>2. Tracks(cfg, sim, {}, 0)
  BY <1>1, ConfigIs, OffTracks
<1> QED BY <1>1, <1>2 DEF CachesInv

\* What the comparison takes away is not seen by the caches.
LEMMA SettledTracks ==
  ASSUME NEW c, NEW m, NEW k, Tracks(c, m, {}, k), NEW s, s = Settled(m)
  PROVE  Tracks(c, s, {}, k) /\ Dirty(s) = Dirty(m)
<1>1. SimOK(c, m) /\ m = [f \in Fields |-> m[f]]
  BY DEF Tracks, SimOK
<1>2. /\ s = [f \in Fields |-> s[f]]
      /\ s.l1i = m.l1i /\ s.l1d = m.l1d /\ s.l2 = m.l2 /\ s.l3 = m.l3
      /\ s.pf_gap = m.pf_gap /\ s.tbl = m.tbl
  BY <1>1 DEF Settled, Fields
<1> QED BY <1>1, <1>2 DEF Tracks, SimOK, InL1s, Dirty

LEMMA CachesNext == CachesInv /\ [Next]_vars => CachesInv'
<1> SUFFICES ASSUME CachesInv, [Next]_vars PROVE CachesInv'
  OBVIOUS
<1>1. CASE UNCHANGED vars
  BY <1>1 DEF vars, CachesInv
<1>2. CASE Next
  <2>1. PICK a \in cfg.stream : Access(a)
    BY <1>2 DEF Next
  <2>2. cfg \in Configs /\ Tracks(cfg, sim, {}, 0) /\ owed \subseteq Dirty(sim)
        /\ owed \subseteq 0..Top \div line_size
    BY DEF CachesInv
  <2>3. ConfigOK(cfg) /\ a \in Accesses
    BY <2>2, ConfigIs
  <2>4. PICK r : r = SimAccess(cfg, sim, a)
    OBVIOUS
  <2>5. PICK m : m = r.m
    OBVIOUS
  <2>6. Tracks(cfg, m, {}, 0) /\ Safe(sim) \cup News(sim, a) \subseteq Safe(m)
    <3>1. PICK z \in Int : z = 0
      OBVIOUS
    <3>2. Tracks(cfg, sim, {}, z)
      BY <2>2, <3>1
    <3>3. Tracks(cfg, r.m, {}, z) /\ Safe(sim) \cup News(sim, a) \subseteq Safe(r.m)
      BY <2>3, <2>4, <3>2, SimAccessIs
    <3> QED BY <2>5, <3>1, <3>3
  <2>7. /\ sim' = Settled(m) /\ cfg' = cfg
        /\ owed' = (owed \cup News(sim, a)) \ (m.dram \ Dirty(m))
    BY <2>1, <2>4, <2>5 DEF Access, Compared, News
  <2>8. PICK s : s = Settled(m)
    OBVIOUS
  <2>9. Tracks(cfg, s, {}, 0) /\ Dirty(s) = Dirty(m)
    BY <2>6, <2>8, SettledTracks
  <2>10. owed \subseteq Safe(sim)
    BY <2>2, SafeIs
  <2>11. owed' \subseteq Dirty(m)
    <3>1. Safe(m) = Dirty(m) \cup m.dram
      BY SafeIs
    <3> QED BY <2>6, <2>7, <2>10, <3>1
  <2>12. News(sim, a) \subseteq 0..Top \div line_size
    <3>1. line_size \in Nat \ {0} /\ Top \in Nat
      BY CacheAssumption
    <3>2. PICK x \in Nat, y \in Nat, t \in Nat :
            x = Lowest(a, line_size) /\ y = Highest(a, line_size) /\ t = Top \div line_size /\ y <= t
      <4>1. /\ Lowest(a, line_size) \in Nat /\ Highest(a, line_size) \in Nat
            /\ Highest(a, line_size) <= Top \div line_size
        BY <2>3, <3>1, Units
      <4>2. Top \div line_size \in Nat
        BY <3>1
      <4> QED BY <4>1, <4>2
    <3>3. x..y \subseteq 0..t
      BY <3>2
    <3> QED BY <3>2, <3>3 DEF News
  <2> QED BY <2>2, <2>7, <2>8, <2>9, <2>11, <2>12 DEF CachesInv
<1> QED BY <1>1, <1>2

THEOREM CachesInOrder == Spec => []CachesInv
BY CachesInit, CachesNext, PTL DEF Spec

\* A cache that is in order is well formed.
LEMMA BuiltWell ==
  ASSUME NEW g, NEW c, BuiltAs(c, g), NEW s \in DOMAIN c
  PROVE  /\ Len(c[s]) <= g.ways
         /\ \A i, j \in DOMAIN c[s] : setof(c, c[s][i].la) = s /\ (c[s][i].la = c[s][j].la => i = j)
<1>1. SetOK(c[s], g.ways) /\ \A x \in Elems(c[s]) : setof(c, x.la) = s
  BY DEF BuiltAs, CacheOK
<1> QED BY <1>1 DEF SetOK, Distinct, Elems

\* With an inclusive L2 no L1 holds a line that the L2 has given up, in the
\* same access or before; no cache holds a line twice or in another's set.
THEOREM NothingOutside == Spec => []Inclusive
<1>1. CachesInv => Inclusive
  <2> SUFFICES ASSUME CachesInv PROVE Inclusive
    OBVIOUS
  <2>1. cfg \in Configs /\ SimOK(cfg, sim) /\ owed \subseteq 0..Top \div line_size
    BY DEF CachesInv, Tracks
  <2>2. WellFormed(sim)
    <3>1. \A n \in Caches : BuiltAs(sim[n], cfg[n])
      BY <2>1 DEF SimOK, Caches
    <3> QED BY <3>1, BuiltWell DEF WellFormed
  <2>3. ASSUME cfg.inclusive, enabled(sim.l2), NEW x \in LinesOf(sim.l1d) \cup LinesOf(sim.l1i)
        PROVE  probe(sim.l2, x.la)
    <3>1. x.la \in InL1s(sim)
      BY DEF InL1s, Held
    <3>2. x.la \in Held(sim.l2)
      BY <2>3, <3>1 DEF CachesInv, Tracks
    <3>3. BuiltAs(sim.l2, cfg.l2)
      BY <2>1 DEF SimOK
    <3>4. x.la \in Nat
      <4>1. PICK y \in LinesOf(sim.l2) : y.la = x.la
        BY <3>2 DEF Held
      <4>2. y \in Line
        BY <3>3, OneLine DEF BuiltAs
      <4> QED BY <4>1, <4>2 DEF Line
    <3> QED BY <3>2, <3>3, <3>4, AskedOf
  <2> QED BY <2>1, <2>2, <2>3 DEF Inclusive, TypeOK
<1> QED BY <1>1, CachesInOrder, PTL

\* No eviction, back-invalidation, refill or prefetch loses the last dirty
\* copy of a line that was stored to through the L1D.
THEOREM NewDataKept == Spec => []DirtyKept
<1>1. CachesInv => DirtyKept
  BY DEF CachesInv, DirtyKept
<1> QED BY <1>1, CachesInOrder, PTL

\* Every prefetched line is used, given up, or flagged in the L2: each once.
THEOREM PrefetchesAccounted == Spec => []PrefetchBalance
<1>1. CachesInv => PrefetchBalance
  <2> SUFFICES ASSUME CachesInv, enabled(sim.l2)
               PROVE  sim.pf_gap = Cardinality({x \in LinesOf(sim.l2) : x.pf})
    BY DEF PrefetchBalance
  <2>1. sim.pf_gap = Flags(sim.l2) + 0 /\ BuiltAs(sim.l2, cfg.l2)
    BY DEF CachesInv, Tracks, SimOK
  <2>2. Flags(sim.l2) \in Nat
    BY <2>1, FlagsType
  <2> QED BY <2>1, <2>2 DEF Flags, Marked
<1> QED BY <1>1, CachesInOrder, PTL
----------------------------------------------------------------------------
(* The list of the sweep: each line in it once, the most recent first.     *)

Ranked(rec)       == rec \in Seq(Nat) /\ \A i, j \in DOMAIN rec : rec[i] = rec[j] => i = j
Listed(rec)       == {rec[i] : i \in DOMAIN rec}
Before(rec, y, z) == \E i, j \in DOMAIN rec : i < j /\ rec[i] = y /\ rec[j] = z

\* What Newer has, when la is in the list.
LEMMA NewerIs ==
  ASSUME NEW rec, Ranked(rec), NEW z \in Listed(rec), NEW n
  PROVE  \A y : y \in Newer(rec, z, n) <=> Before(rec, y, z) /\ y % n = z % n
<1>1. PICK q \in DOMAIN rec : rec[q] = z
  BY DEF Listed
<1>2. \A p : p \in Place(rec, z) <=> p = q
  BY <1>1 DEF Place, Ranked
<1> TAKE y
<1>3. ASSUME y \in Newer(rec, z, n) PROVE Before(rec, y, z) /\ y % n = z % n
  <2>1. PICK i \in Group(rec, z, n) : y = rec[i] /\ \A p \in Place(rec, z) : i < p
    BY <1>3 DEF Newer
  <2>2. i \in DOMAIN rec /\ rec[i] % n = z % n /\ i < q
    BY <1>2, <2>1 DEF Group
  <2> QED BY <1>1, <2>1, <2>2 DEF Before
<1>4. ASSUME Before(rec, y, z), y % n = z % n PROVE y \in Newer(rec, z, n)
  <2>1. PICK i, j \in DOMAIN rec : i < j /\ rec[i] = y /\ rec[j] = z
    BY <1>4 DEF Before
  <2>2. j = q
    BY <1>1, <2>1 DEF Ranked
  <2>3. i \in Group(rec, z, n)
    BY <1>4, <2>1 DEF Group
  <2>4. \A p \in Place(rec, z) : i < p
    BY <1>2, <2>1, <2>2
  <2> QED BY <2>1, <2>3, <2>4 DEF Newer
<1> QED BY <1>3, <1>4

\* Before is a strict order of the listed lines.
LEMMA BeforeOrders ==
  ASSUME NEW rec, Ranked(rec)
  PROVE  /\ \A y, z : Before(rec, y, z) => y \in Listed(rec) /\ z \in Listed(rec) /\ y # z /\ ~Before(rec, z, y)
         /\ \A x, y, z : Before(rec, x, y) /\ Before(rec, y, z) => Before(rec, x, z)
         /\ \A y, z \in Listed(rec) : y # z => Before(rec, y, z) \/ Before(rec, z, y)
<1>1. DOMAIN rec \in SUBSET Nat
  BY DEF Ranked
<1>2. ASSUME NEW y, NEW z, Before(rec, y, z)
      PROVE  y \in Listed(rec) /\ z \in Listed(rec) /\ y # z /\ ~Before(rec, z, y)
  <2>1. PICK i, j \in DOMAIN rec : i < j /\ rec[i] = y /\ rec[j] = z
    BY <1>2 DEF Before
  <2>2. \A k \in DOMAIN rec : (rec[k] = y => k = i) /\ (rec[k] = z => k = j)
    BY <2>1 DEF Ranked
  <2>3. i # j /\ ~(j < i)
    BY <1>1, <2>1
  <2> QED BY <2>1, <2>2, <2>3 DEF Before, Listed
<1>3. ASSUME NEW x, NEW y, NEW z, Before(rec, x, y), Before(rec, y, z) PROVE Before(rec, x, z)
  <2>1. PICK i, j \in DOMAIN rec : i < j /\ rec[i] = x /\ rec[j] = y
    BY <1>3 DEF Before
  <2>2. PICK k, l \in DOMAIN rec : k < l /\ rec[k] = y /\ rec[l] = z
    BY <1>3 DEF Before
  <2>3. j = k
    BY <2>1, <2>2 DEF Ranked
  <2>4. i < l
    BY <1>1, <2>1, <2>2, <2>3
  <2> QED BY <2>1, <2>2, <2>4 DEF Before
<1>4. ASSUME NEW y \in Listed(rec), NEW z \in Listed(rec), y # z PROVE Before(rec, y, z) \/ Before(rec, z, y)
  <2>1. PICK i, j \in DOMAIN rec : rec[i] = y /\ rec[j] = z
    BY DEF Listed
  <2>2. i < j \/ j < i
    BY <1>1, <1>4, <2>1
  <2> QED BY <2>1, <2>2 DEF Before
<1> QED BY <1>2, <1>3, <1>4

RemovedTo(L, n, p, R) ==
  R \in Seq(Nat) /\ Len(R) = n - 1 /\ \A i \in 1..n-1 : R[i] = L[IF i < p THEN i ELSE i + 1]

LEMMA Removal ==
  ASSUME NEW L \in Seq(Nat), NEW n \in Nat, n = Len(L), NEW p \in 1..n, NEW R, R = RemoveAt(L, p)
  PROVE  RemovedTo(L, n, p, R)
<1>1. R = SubSeq(L, 1, p - 1) \o SubSeq(L, p + 1, Len(L))
  BY DEF RemoveAt
<1>2. LosesOne(Nat, L, n, p, R)
  BY <1>1, Shortened
<1> QED BY <1>2, Zenon DEF LosesOne, RemovedTo

\* The list without one line.
Less(rec, x, w) ==
  /\ Ranked(w) /\ Listed(w) = Listed(rec) \ {x}
  /\ \A y, z : Before(w, y, z) <=> y # x /\ z # x /\ Before(rec, y, z)

LEMMA LessOne ==
  ASSUME NEW rec, Ranked(rec), NEW q \in DOMAIN rec, NEW w, w = RemoveAt(rec, q)
  PROVE  Less(rec, rec[q], w)
<1>1. PICK n \in Nat : n = Len(rec) /\ DOMAIN rec = 1..n
  BY LenProperties DEF Ranked
<1>2. rec \in Seq(Nat) /\ q \in 1..n
  BY <1>1 DEF Ranked
<1>3. /\ w \in Seq(Nat) /\ Len(w) = n - 1
      /\ \A i \in 1..n-1 : w[i] = rec[IF i < q THEN i ELSE i + 1]
  <2>1. RemovedTo(rec, n, q, w)
    BY <1>1, <1>2, Removal
  <2> QED BY <2>1 DEF RemovedTo
<1>4. DOMAIN w = 1..n-1
  BY <1>3, LenProperties
<1> DEFINE at(i) == IF i < q THEN i ELSE i + 1
<1>5. /\ \A i \in 1..n-1 : at(i) \in (1..n) \ {q} /\ w[i] = rec[at(i)]
      /\ \A i, j \in 1..n-1 : (i < j <=> at(i) < at(j)) /\ (at(i) = at(j) => i = j)
      /\ \A k \in (1..n) \ {q} : \E i \in 1..n-1 : at(i) = k
  <2>1. \A i \in 1..n-1 : at(i) \in (1..n) \ {q} /\ w[i] = rec[at(i)]
    <3>1. \A i \in 1..n-1 : at(i) \in (1..n) \ {q}
      BY <1>2
    <3> QED BY <1>3, <3>1
  <2>2. \A i, j \in 1..n-1 : (i < j <=> at(i) < at(j)) /\ (at(i) = at(j) => i = j)
    BY <1>1
  <2>3. ASSUME NEW k \in (1..n) \ {q} PROVE \E i \in 1..n-1 : at(i) = k
    <3>1. CASE k < q
      <4>1. k \in 1..n-1 /\ at(k) = k
        BY <1>1, <3>1
      <4> QED BY <4>1
    <3>2. CASE ~(k < q)
      <4>1. PICK i \in 1..n-1 : i = k - 1
        BY <1>1, <3>2
      <4>2. at(i) = k
        BY <1>1, <3>2, <4>1
      <4> QED BY <4>2
    <3> QED BY <3>1, <3>2
  <2> QED BY <2>1, <2>2, <2>3
<1> HIDE DEF at
<1>6. Ranked(w)
  <2>1. ASSUME NEW i \in 1..n-1, NEW j \in 1..n-1, w[i] = w[j] PROVE i = j
    <3>1. PICK k, l \in 1..n : k = at(i) /\ l = at(j) /\ rec[k] = rec[l]
      BY <1>5, <2>1
    <3>2. k = l
      BY <1>1, <3>1 DEF Ranked
    <3> QED BY <1>5, <3>1, <3>2
  <2> QED BY <1>3, <1>4, <2>1 DEF Ranked
<1>7. Listed(w) = Listed(rec) \ {rec[q]}
  <2>1. ASSUME NEW y \in Listed(w) PROVE y \in Listed(rec) /\ y # rec[q]
    <3>1. PICK i \in 1..n-1 : y = w[i]
      BY <1>4 DEF Listed
    <3>2. PICK k \in (1..n) \ {q} : y = rec[k]
      BY <1>5, <3>1
    <3> QED BY <1>1, <3>2 DEF Listed, Ranked
  <2>2. ASSUME NEW y \in Listed(rec), y # rec[q] PROVE y \in Listed(w)
    <3>1. PICK k \in (1..n) \ {q} : y = rec[k]
      BY <1>1, <2>2 DEF Listed
    <3>2. PICK i \in 1..n-1 : y = w[i]
      BY <1>5, <3>1
    <3> QED BY <1>4, <3>2 DEF Listed
  <2> QED BY <2>1, <2>2
<1>8. ASSUME NEW y, NEW z PROVE Before(w, y, z) <=> y # rec[q] /\ z # rec[q] /\ Before(rec, y, z)
  <2>1. ASSUME Before(w, y, z) PROVE y # rec[q] /\ z # rec[q] /\ Before(rec, y, z)
    <3>1. PICK i, j \in 1..n-1 : i < j /\ w[i] = y /\ w[j] = z
      BY <1>4, <2>1 DEF Before
    <3>2. at(i) \in (1..n) \ {q} /\ at(j) \in (1..n) \ {q} /\ at(i) < at(j) /\ rec[at(i)] = y /\ rec[at(j)] = z
      BY <1>5, <3>1
    <3>3. y # rec[q] /\ z # rec[q]
      BY <1>1, <3>2 DEF Ranked
    <3> QED BY <1>1, <3>2, <3>3 DEF Before
  <2>2. ASSUME y # rec[q], z # rec[q], Before(rec, y, z) PROVE Before(w, y, z)
    <3>1. PICK k, l \in 1..n : k < l /\ rec[k] = y /\ rec[l] = z
      BY <1>1, <2>2 DEF Before
    <3>2. k # q /\ l # q
      BY <2>2, <3>1
    <3>3. PICK i, j \in 1..n-1 : at(i) = k /\ at(j) = l
      BY <1>5, <3>1, <3>2
    <3>4. i < j /\ w[i] = y /\ w[j] = z
      BY <1>5, <3>1, <3>3
    <3> QED BY <1>4, <3>4 DEF Before
  <2> QED BY <2>1, <2>2
<1> QED BY <1>6, <1>7, <1>8 DEF Less

LEMMA LessNone ==
  ASSUME NEW rec, Ranked(rec), NEW x, x \notin Listed(rec)
  PROVE  Less(rec, x, rec)
<1>1. \A y, z : Before(rec, y, z) => y # x /\ z # x
  BY DEF Before, Listed
<1> QED BY <1>1 DEF Less

\* The list with a new line in front.
Fronted(w, la, new) ==
  /\ Ranked(new) /\ Listed(new) = Listed(w) \cup {la}
  /\ \A y, z : Before(new, y, z) <=> Before(w, y, z) \/ (y = la /\ z \in Listed(w))

LEMMA FrontOf ==
  ASSUME NEW w, Ranked(w), NEW la \in Nat, la \notin Listed(w), NEW new, new = <<la>> \o w
  PROVE  Fronted(w, la, new)
<1>1. PICK n \in Nat : n = Len(w) /\ DOMAIN w = 1..n
  BY LenProperties DEF Ranked
<1>2. w \in Seq(Nat)
  BY DEF Ranked
<1>3. /\ new \in Seq(Nat) /\ Len(new) = n + 1 /\ new[1] = la
      /\ \A i \in 1..n : new[i + 1] = w[i]
  BY <1>1, <1>2
<1>4. DOMAIN new = 1..n+1
  BY <1>3, LenProperties
<1>5. \A k \in 1..n+1 : k = 1 \/ \E i \in 1..n : k = i + 1
  <2> TAKE k \in 1..n+1
  <2>1. k # 1 => k - 1 \in 1..n /\ k = (k - 1) + 1
    OBVIOUS
  <2> QED BY <2>1
<1>6. \A i \in 1..n : w[i] # la /\ w[i] \in Listed(w) /\ i + 1 \in 1..n+1
  BY <1>1 DEF Listed
<1>7. Listed(new) = Listed(w) \cup {la}
  <2>1. ASSUME NEW y \in Listed(new) PROVE y \in Listed(w) \cup {la}
    <3>1. PICK k \in 1..n+1 : y = new[k]
      BY <1>4, <2>1 DEF Listed
    <3> QED BY <1>3, <1>5, <1>6, <3>1
  <2>2. la \in Listed(new)
    <3>1. 1 \in 1..n+1
      OBVIOUS
    <3> QED BY <1>3, <1>4, <3>1 DEF Listed
  <2>3. ASSUME NEW y \in Listed(w) PROVE y \in Listed(new)
    <3>1. PICK i \in 1..n : y = w[i]
      BY <1>1, <2>3 DEF Listed
    <3>2. PICK k \in 1..n+1 : k = i + 1
      BY <1>6
    <3> QED BY <1>3, <1>4, <3>1, <3>2 DEF Listed
  <2> QED BY <2>1, <2>2, <2>3
<1>8. ASSUME NEW i \in 1..n+1, NEW j \in 1..n+1, new[i] = new[j] PROVE i = j
  <2>1. i = 1 \/ \E a \in 1..n : i = a + 1
    BY <1>5
  <2>2. j = 1 \/ \E b \in 1..n : j = b + 1
    BY <1>5
  <2>3. CASE i = 1 \/ j = 1
    BY <1>3, <1>6, <1>8, <2>1, <2>2, <2>3
  <2>4. CASE i # 1 /\ j # 1
    <3>1. PICK a, b \in 1..n : i = a + 1 /\ j = b + 1
      BY <2>1, <2>2, <2>4
    <3>2. w[a] = w[b]
      BY <1>3, <1>8, <3>1
    <3> QED BY <1>1, <3>1, <3>2 DEF Ranked
  <2> QED BY <2>3, <2>4
<1>9. ASSUME NEW y, NEW z PROVE Before(new, y, z) <=> Before(w, y, z) \/ (y = la /\ z \in Listed(w))
  <2>1. ASSUME Before(new, y, z) PROVE Before(w, y, z) \/ (y = la /\ z \in Listed(w))
    <3>1. PICK i, j \in 1..n+1 : i < j /\ new[i] = y /\ new[j] = z
      BY <1>4, <2>1 DEF Before
    <3>2. PICK b \in 1..n : j = b + 1
      BY <1>5, <3>1
    <3>3. z = w[b] /\ z \in Listed(w)
      BY <1>3, <1>6, <3>1, <3>2
    <3>4. CASE i = 1
      BY <1>3, <3>1, <3>3, <3>4
    <3>5. CASE i # 1
      <4>1. PICK a \in 1..n : i = a + 1
        BY <1>5, <3>5
      <4>2. y = w[a] /\ a < b
        BY <1>3, <3>1, <3>2, <4>1
      <4> QED BY <1>1, <3>3, <4>2 DEF Before
    <3> QED BY <3>4, <3>5
  <2>2. ASSUME Before(w, y, z) PROVE Before(new, y, z)
    <3>1. PICK a, b \in 1..n : a < b /\ w[a] = y /\ w[b] = z
      BY <1>1, <2>2 DEF Before
    <3>2. PICK i, j \in 1..n+1 : i = a + 1 /\ j = b + 1
      BY <1>6
    <3>3. i < j /\ new[i] = y /\ new[j] = z
      BY <1>3, <3>1, <3>2
    <3> QED BY <1>4, <3>3 DEF Before
  <2>3. ASSUME y = la, z \in Listed(w) PROVE Before(new, y, z)
    <3>1. PICK b \in 1..n : z = w[b]
      BY <1>1, <2>3 DEF Listed
    <3>2. PICK i, j \in 1..n+1 : i = 1 /\ j = b + 1
      BY <1>6
    <3>3. i < j /\ new[i] = y /\ new[j] = z
      BY <1>3, <2>3, <3>1, <3>2
    <3> QED BY <1>4, <3>3 DEF Before
  <2> QED BY <2>1, <2>2, <2>3
<1> QED BY <1>3, <1>4, <1>7, <1>8, <1>9 DEF Ranked, Fronted
----------------------------------------------------------------------------
(* Numbers of sets that divide one another.                                *)

NoMost(m) == \E S : S \in SUBSET Nat /\ IsFiniteSet(S) /\ S # {} /\ Cardinality(S) = m
                    /\ ~\E x \in S : \A y \in S : x >= y

LEMMA MostOf ==
  ASSUME NEW S \in SUBSET Nat, IsFiniteSet(S), S # {}
  PROVE  Max(S) \in S /\ \A y \in S : Max(S) >= y
<1>1. \E x \in S : \A y \in S : x >= y
  <2> SUFFICES ASSUME ~\E x \in S : \A y \in S : x >= y PROVE FALSE
    OBVIOUS
  <2> DEFINE N == {m \in Nat : NoMost(m)}
  <2>1. N \in SUBSET Nat /\ N # {}
    <3>1. Cardinality(S) \in Nat /\ NoMost(Cardinality(S))
      BY FS_CardinalityType DEF NoMost
    <3> QED BY <3>1
  <2>2. PICK m \in N : \A k \in N : m <= k
    BY <2>1, LeastNat
  <2>3. m \in Nat /\ NoMost(m)
    BY <2>2
  <2>4. PICK T : /\ T \in SUBSET Nat /\ IsFiniteSet(T) /\ T # {} /\ Cardinality(T) = m
                 /\ ~\E x \in T : \A y \in T : x >= y
    BY <2>3 DEF NoMost
  <2>5. PICK x \in T : TRUE
    BY <2>4
  <2>6. PICK U : U = T \ {x}
    OBVIOUS
  <2>7. IsFiniteSet(U) /\ Cardinality(U) = m - 1 /\ U \in SUBSET Nat /\ Cardinality(U) \in Nat
    BY <2>4, <2>5, <2>6, FS_RemoveElement, FS_CardinalityType
  <2>8. U # {}
    <3>1. U = {} => T = {x}
      BY <2>5, <2>6
    <3> QED BY <2>4, <3>1
  <2>9. m - 1 \notin N
    BY <2>2, <2>3
  <2>10. ~NoMost(m - 1)
    BY <2>3, <2>7, <2>9
  <2>11. PICK z \in U : \A y \in U : z >= y
    BY <2>7, <2>8, <2>10 DEF NoMost
  <2>12. \A y \in T : y \in U \/ y = x
    BY <2>6
  <2>13. z \in T /\ z \in Nat /\ x \in Nat
    BY <2>4, <2>5, <2>6
  <2>14. CASE x >= z
    BY <2>4, <2>5, <2>11, <2>12, <2>13, <2>14
  <2>15. CASE z >= x
    BY <2>4, <2>5, <2>11, <2>12, <2>13, <2>15
  <2> QED BY <2>13, <2>14, <2>15
<1> QED BY <1>1 DEF Max

\* What divides leaves the rest of a rest.
LEMMA RestOfRest ==
  ASSUME NEW n \in Nat \ {0}, NEW F \in Nat \ {0}, F % n = 0, NEW x \in Nat
  PROVE  x % n = (x % F) % n
<1>1. PICK k \in Nat : F = k * n
  <2>1. PICK k \in Nat : k = F \div n
    OBVIOUS
  <2>2. F = n * k + (F % n)
    BY <2>1
  <2>3. F = k * n
    BY <2>2
  <2> QED BY <2>3
<1>2. PICK a \in Nat, d \in Nat, r \in Nat : d = F * a /\ x = d + r /\ r = x % F
  <2>1. PICK a \in Nat, r \in Nat : a = x \div F /\ r = x % F
    OBVIOUS
  <2>2. PICK d \in Nat : d = F * a
    OBVIOUS
  <2>3. x = d + r
    BY <2>1, <2>2
  <2> QED BY <2>1, <2>2, <2>3
<1>3. PICK b \in Nat, e \in Nat, s \in 0..n-1 : e = n * b /\ r = e + s /\ s = r % n
  <2>1. PICK b \in Nat, s \in 0..n-1 : b = r \div n /\ s = r % n
    OBVIOUS
  <2>2. PICK e \in Nat : e = n * b
    OBVIOUS
  <2>3. r = e + s
    BY <2>1, <2>2
  <2> QED BY <2>1, <2>2, <2>3
<1>4. x = (k * a + b) * n + s
  <2>1. PICK c \in Nat : c = k * a
    OBVIOUS
  <2>2. d = c * n
    BY <1>1, <1>2, <2>1
  <2>3. (c + b) * n = d + e
    BY <1>3, <2>2
  <2>4. x = d + r /\ r = e + s
    BY <1>2, <1>3
  <2>5. x = (d + e) + s
    BY <2>4
  <2> QED BY <2>1, <2>3, <2>5
<1>5. PICK q \in Int : q = k * a + b
  OBVIOUS
<1>6. (q * n + s) % n = s
  BY ModOf
<1> QED BY <1>2, <1>3, <1>4, <1>5, <1>6
----------------------------------------------------------------------------
(* One more access to the list: la comes to the front, for which x goes.   *)

Swaps(rec, la, x, new) ==
  /\ Ranked(new) /\ la \notin Listed(rec) \ {x}
  /\ Listed(new) = (Listed(rec) \ {x}) \cup {la}
  /\ \A y, z : Before(new, y, z) <=>
       (y # x /\ z # x /\ Before(rec, y, z)) \/ (y = la /\ z \in Listed(rec) \ {x})

LEMMA Swapped ==
  ASSUME NEW rec, NEW x, NEW w, Less(rec, x, w), NEW la \in Nat, la \notin Listed(w),
         NEW new, new = <<la>> \o w
  PROVE  Swaps(rec, la, x, new)
<1>1. /\ Ranked(w) /\ Listed(w) = Listed(rec) \ {x}
      /\ \A y, z : Before(w, y, z) <=> y # x /\ z # x /\ Before(rec, y, z)
  BY DEF Less
<1>2. Fronted(w, la, new)
  BY <1>1, FrontOf
<1> QED BY <1>1, <1>2 DEF Swaps, Fronted

LEMMA ListedFinite ==
  ASSUME NEW rec, Ranked(rec)
  PROVE  IsFiniteSet(Listed(rec)) /\ Listed(rec) \in SUBSET Nat
<1>1. PICK n \in Nat : n = Len(rec) /\ DOMAIN rec = 1..n
  BY LenProperties DEF Ranked
<1>2. PICK f, S, T : f = rec /\ S = 1..n /\ T = Listed(rec)
  OBVIOUS
<1>3. rec \in Seq(Nat)
  BY DEF Ranked
<1>4. rec = [i \in 1..n |-> rec[i]] /\ \A i \in 1..n : rec[i] \in Nat
  BY <1>1, <1>3, LenProperties, ElementOfSeq
<1>5. f \in Surjection(S, T)
  BY <1>1, <1>2, <1>4 DEF Surjection, Listed
<1>6. IsFiniteSet(S)
  BY <1>2, FS_Interval
<1>7. IsFiniteSet(T)
  BY <1>5, <1>6, FS_Surjection
<1>8. T \in SUBSET Nat
  BY <1>1, <1>2, <1>4 DEF Listed
<1> QED BY <1>2, <1>7, <1>8

\* How many lines are newer than one of the list.
LEMMA NewerFinite ==
  ASSUME NEW rec, Ranked(rec), NEW z \in Listed(rec), NEW n
  PROVE  IsFiniteSet(Newer(rec, z, n)) /\ Cardinality(Newer(rec, z, n)) \in Nat
<1>1. \A y : y \in Newer(rec, z, n) => y \in Listed(rec)
  BY NewerIs, BeforeOrders
<1>2. Newer(rec, z, n) \in SUBSET Listed(rec)
  BY <1>1
<1>3. IsFiniteSet(Newer(rec, z, n))
  BY <1>2, ListedFinite, FS_Subset
<1> QED BY <1>3, FS_CardinalityType

\* What is newer has fewer that are newer still.
LEMMA NewerFewer ==
  ASSUME NEW rec, Ranked(rec), NEW z \in Listed(rec), NEW n, NEW y \in Newer(rec, z, n)
  PROVE  Cardinality(Newer(rec, y, n)) < Cardinality(Newer(rec, z, n))
<1>1. y \in Listed(rec) /\ Before(rec, y, z) /\ y % n = z % n
  BY NewerIs, BeforeOrders
<1>2. PICK S, T : S = Newer(rec, y, n) /\ T = Newer(rec, z, n)
  OBVIOUS
<1>3. \A x : x \in S => x \in T
  BY <1>1, <1>2, NewerIs, BeforeOrders
<1>4. y \notin S
  BY <1>1, <1>2, NewerIs, BeforeOrders
<1>5. y \in T
  BY <1>2
<1>6. IsFiniteSet(S) /\ Cardinality(S) \in Nat /\ IsFiniteSet(T) /\ Cardinality(T) \in Nat
  BY <1>1, <1>2, NewerFinite
<1>7. PICK U : U = T \ {y}
  OBVIOUS
<1>8. IsFiniteSet(U) /\ Cardinality(U) = Cardinality(T) - 1
  BY <1>5, <1>6, <1>7, FS_RemoveElement
<1>9. S \in SUBSET U
  BY <1>3, <1>4, <1>7
<1>10. Cardinality(S) <= Cardinality(U)
  BY <1>8, <1>9, FS_Subset
<1> QED BY <1>2, <1>6, <1>8, <1>10

\* One of two lines of a set is the newer one.
LEMMA NewerTotal ==
  ASSUME NEW rec, Ranked(rec), NEW y \in Listed(rec), NEW z \in Listed(rec), y # z,
         NEW n, y % n = z % n
  PROVE  y \in Newer(rec, z, n) \/ z \in Newer(rec, y, n)
BY NewerIs, BeforeOrders

\* The number of newer lines after an access to la.
LEMMA CountAfter ==
  ASSUME NEW rec, Ranked(rec), NEW la, NEW x, NEW new, Swaps(rec, la, x, new), NEW n,
         x % n = la % n, NEW y \in Listed(new), y # la, NEW S, S = Newer(rec, y, n), NEW T, T = Newer(new, y, n)
  PROVE  /\ y \in Listed(rec) /\ y # x
         /\ y % n # la % n => T = S
         /\ y % n = la % n => Cardinality(T) = IF x \in S THEN Cardinality(S) ELSE Cardinality(S) + 1
<1>1. /\ Ranked(new) /\ la \notin Listed(rec) \ {x}
      /\ Listed(new) = (Listed(rec) \ {x}) \cup {la}
      /\ \A u, v : Before(new, u, v) <=>
           (u # x /\ v # x /\ Before(rec, u, v)) \/ (u = la /\ v \in Listed(rec) \ {x})
  BY DEF Swaps
<1>2. y \in Listed(rec) /\ y # x
  BY <1>1
<1>3. \A u : u \in S <=> Before(rec, u, y) /\ u % n = y % n
  BY <1>2, NewerIs
<1>4. \A u : u \in T <=> Before(new, u, y) /\ u % n = y % n
  BY <1>1, NewerIs
<1>5. ASSUME y % n # la % n PROVE T = S
  BY <1>1, <1>2, <1>3, <1>4, <1>5
<1>6. ASSUME y % n = la % n PROVE Cardinality(T) = IF x \in S THEN Cardinality(S) ELSE Cardinality(S) + 1
  <2>1. PICK U : U = S \ {x}
    OBVIOUS
  <2>2. IsFiniteSet(S) /\ Cardinality(S) \in Nat
    BY <1>2, NewerFinite
  <2>3. IsFiniteSet(U) /\ Cardinality(U) = IF x \in S THEN Cardinality(S) - 1 ELSE Cardinality(S)
    BY <2>1, <2>2, FS_RemoveElement
  <2>4. la \notin U
    BY <1>1, <1>3, <2>1, BeforeOrders
  <2>5. T = U \cup {la}
    BY <1>1, <1>2, <1>3, <1>4, <1>6, <2>1
  <2>6. Cardinality(T) = Cardinality(U) + 1
    BY <2>3, <2>4, <2>5, FS_AddElement
  <2> QED BY <2>2, <2>3, <2>6
<1> QED BY <1>2, <1>5, <1>6
\* The finest of the variants tells at least as many sets apart as each.
LEMMA FineSets ==
  ASSUME NEW geos, Sweepable(geos), NEW g \in geos
  PROVE  /\ fine_sets(geos) \in Nat \ {0} /\ max_ways(geos) \in Nat \ {0}
         /\ g.sets \in Nat \ {0} /\ g.ways \in Nat \ {0} /\ g.ways <= max_ways(geos)
         /\ \A x, y \in Nat : x % fine_sets(geos) = y % fine_sets(geos) => x % g.sets = y % g.sets
<1>1. /\ IsFiniteSet(geos)
      /\ \A h \in geos : h.sets \in Nat \ {0} /\ h.ways \in Nat \ {0}
      /\ \A h, k \in geos : h.sets % k.sets = 0 \/ k.sets % h.sets = 0
  BY DEF Sweepable, Geometries
<1>2. PICK S, T : S = {h.sets : h \in geos} /\ T = {h.ways : h \in geos}
  OBVIOUS
<1>3. IsFiniteSet(S)
  <2>1. PICK f : f = [h \in geos |-> h.sets]
    OBVIOUS
  <2>2. f \in Surjection(geos, S)
    BY <1>2, <2>1 DEF Surjection
  <2> QED BY <1>1, <2>2, FS_Surjection
<1>4. IsFiniteSet(T)
  <2>1. PICK f : f = [h \in geos |-> h.ways]
    OBVIOUS
  <2>2. f \in Surjection(geos, T)
    BY <1>2, <2>1 DEF Surjection
  <2> QED BY <1>1, <2>2, FS_Surjection
<1>5. PICK P, Q : P = S \cup {1} /\ Q = T \cup {1}
  OBVIOUS
<1>6. IsFiniteSet(P) /\ IsFiniteSet(Q)
  BY <1>3, <1>4, <1>5, FS_AddElement
<1>7. P \in SUBSET Nat /\ P # {} /\ Q \in SUBSET Nat /\ Q # {}
  BY <1>1, <1>2, <1>5
<1>8. Max(P) \in P /\ \A y \in P : Max(P) >= y
  BY <1>6, <1>7, MostOf
<1>9. Max(Q) \in Q /\ \A y \in Q : Max(Q) >= y
  BY <1>6, <1>7, MostOf
<1>10. {1} \cup {h.sets : h \in geos} = P /\ {1} \cup {h.ways : h \in geos} = Q
  BY <1>2, <1>5
<1>11. fine_sets(geos) = Max(P) /\ max_ways(geos) = Max(Q)
  BY <1>10 DEF fine_sets, max_ways
<1>12. PICK F, W, n : F = Max(P) /\ W = Max(Q) /\ n = g.sets
  OBVIOUS
<1>13. /\ F \in Nat \ {0} /\ n \in Nat \ {0} /\ n <= F
       /\ F = 1 \/ F % n = 0 \/ n % F = 0
  BY <1>1, <1>2, <1>5, <1>7, <1>8, <1>12
<1>14. W \in Nat \ {0} /\ g.ways <= W
  <2>1. W \in Nat /\ W >= 1 /\ g.ways \in Q
    BY <1>2, <1>5, <1>7, <1>9, <1>12
  <2>2. W >= g.ways
    BY <1>9, <1>12, <2>1
  <2> QED BY <1>1, <2>1, <2>2
<1>15. F % n = 0
  <2>1. CASE F = 1
    <3>1. n = 1
      BY <1>13, <2>1
    <3> QED BY <2>1, <3>1
  <2>2. CASE n % F = 0
    <3>1. n < F => n % F = n
      BY <1>13
    <3>2. n = F
      BY <1>13, <2>2, <3>1
    <3> QED BY <2>2, <3>2
  <2> QED BY <1>13, <2>1, <2>2
<1>16. \A x, y \in Nat : x % F = y % F => x % n = y % n
  <2> SUFFICES ASSUME NEW x \in Nat, NEW y \in Nat, x % F = y % F PROVE x % n = y % n
    OBVIOUS
  <2>1. x % n = (x % F) % n /\ y % n = (y % F) % n
    BY <1>13, <1>15, RestOfRest
  <2> QED BY <2>1
<1> QED BY <1>1, <1>11, <1>12, <1>13, <1>14, <1>16

\* A full list has given up its oldest line.
Gone(rec, la, x, F, W) ==
  /\ la \notin Listed(rec) /\ x \in Listed(rec) /\ x % F = la % F
  /\ \A y \in Listed(rec) : y % F = la % F /\ y # x => Before(rec, y, x)
  /\ Cardinality({y \in Listed(rec) : y % F = la % F}) >= W

Touched(rec, la, x, F, W, new) == Swaps(rec, la, x, new) /\ (x = la \/ Gone(rec, la, x, F, W))

LEMMA OldestGone ==
  ASSUME NEW rec, Ranked(rec), NEW la \in Nat, Place(rec, la) = {}, NEW F \in Nat \ {0}, NEW W \in Nat \ {0},
         ~(Cardinality(Group(rec, la, F)) < W), NEW q, q = Max(Group(rec, la, F))
  PROVE  q \in DOMAIN rec /\ Gone(rec, la, rec[q], F, W)
<1>1. PICK n \in Nat : n = Len(rec) /\ DOMAIN rec = 1..n
  BY LenProperties DEF Ranked
<1>2. PICK S : S = Group(rec, la, F)
  OBVIOUS
<1>3. \A i : i \in S <=> i \in 1..n /\ rec[i] % F = la % F
  BY <1>1, <1>2 DEF Group
<1>4. IsFiniteSet(S) /\ S \in SUBSET Nat /\ Cardinality(S) \in Nat
  <2>1. S \in SUBSET (1..n)
    BY <1>3
  <2>2. IsFiniteSet(1..n)
    BY FS_Interval
  <2>3. IsFiniteSet(S)
    BY <2>1, <2>2, FS_Subset
  <2> QED BY <2>1, <2>3, FS_CardinalityType
<1>5. S # {}
  <2>1. Cardinality(S) # 0
    BY <1>2, <1>4
  <2> QED BY <2>1, FS_EmptySet
<1>6. q \in S /\ \A i \in S : q >= i
  BY <1>2, <1>4, <1>5, MostOf
<1>7. la \notin Listed(rec)
  BY DEF Place, Listed
<1>8. PICK T : T = {y \in Listed(rec) : y % F = la % F}
  OBVIOUS
<1>9. Cardinality(T) = Cardinality(S)
  <2>1. PICK f : f = [i \in S |-> rec[i]]
    OBVIOUS
  <2>2. f \in [S -> T] /\ (\A i, j \in S : f[i] = f[j] => i = j) /\ \A y \in T : \E i \in S : f[i] = y
    <3>1. \A i \in S : f[i] \in T
      BY <1>1, <1>3, <1>8, <2>1 DEF Listed
    <3>2. \A i, j \in S : f[i] = f[j] => i = j
      BY <1>1, <1>3, <2>1 DEF Ranked
    <3>3. \A y \in T : \E i \in S : f[i] = y
      BY <1>1, <1>3, <1>8, <2>1 DEF Listed
    <3> QED BY <2>1, <3>1, <3>2, <3>3
  <2>3. f \in Bijection(S, T)
    BY <2>2 DEF Bijection, Injection, Surjection, IsInjective
  <2> QED BY <1>4, <2>3, FS_Bijection DEF ExistsBijection
<1>10. Cardinality(T) >= W
  BY <1>2, <1>4, <1>9
<1>11. ASSUME NEW y \in Listed(rec), y % F = la % F, y # rec[q] PROVE Before(rec, y, rec[q])
  <2>1. PICK i \in 1..n : y = rec[i]
    BY <1>1 DEF Listed
  <2>2. i \in S /\ q \in 1..n
    BY <1>3, <1>6, <1>11, <2>1
  <2>3. i < q
    BY <1>6, <1>11, <2>1, <2>2
  <2> QED BY <1>1, <2>1, <2>2, <2>3 DEF Before
<1>12. q \in DOMAIN rec /\ rec[q] \in Listed(rec) /\ rec[q] % F = la % F
  BY <1>1, <1>3, <1>6 DEF Listed
<1> QED BY <1>7, <1>8, <1>10, <1>11, <1>12 DEF Gone

LEMMA TouchIs ==
  ASSUME NEW rec, Ranked(rec), NEW la \in Nat, NEW geos, NEW F \in Nat \ {0}, NEW W \in Nat \ {0},
         F = fine_sets(geos), W = max_ways(geos), NEW new, new = Touch(rec, la, geos)
  PROVE  \E x : Touched(rec, la, x, F, W, new)
<1>1. PICK w : w = Kept(rec, la, geos)
  OBVIOUS
<1>2. new = <<la>> \o Without(w, Place(w, la))
  BY <1>1 DEF Touch
<1>3. CASE Place(rec, la) # {}
  <2>1. w = rec
    BY <1>1, <1>3 DEF Kept
  <2>2. PICK q \in DOMAIN rec : rec[q] = la /\ Place(rec, la) = {q}
    BY <1>3 DEF Place, Ranked
  <2>3. PICK v : v = RemoveAt(rec, q)
    OBVIOUS
  <2>4. (CHOOSE i \in Place(rec, la) : TRUE) = q
    BY <2>2
  <2>5. Without(w, Place(w, la)) = v
    BY <1>3, <2>1, <2>3, <2>4 DEF Without
  <2>6. Less(rec, la, v)
    BY <2>2, <2>3, LessOne
  <2>7. la \notin Listed(v)
    BY <2>6 DEF Less
  <2>8. Swaps(rec, la, la, new)
    BY <1>2, <2>5, <2>6, <2>7, Swapped
  <2> QED BY <2>8 DEF Touched
<1>4. CASE Place(rec, la) = {}
  <2>1. la \notin Listed(rec)
    BY <1>4 DEF Place, Listed
  <2>2. CASE Cardinality(Group(rec, la, F)) < W
    <3>1. w = rec
      BY <1>1, <2>2 DEF Kept
    <3>2. new = <<la>> \o rec
      BY <1>2, <1>4, <3>1 DEF Without
    <3>3. Less(rec, la, rec)
      BY <2>1, LessNone
    <3>4. Swaps(rec, la, la, new)
      BY <2>1, <3>2, <3>3, Swapped
    <3> QED BY <3>4 DEF Touched
  <2>3. CASE ~(Cardinality(Group(rec, la, F)) < W)
    <3>1. PICK q : q = Max(Group(rec, la, F))
      OBVIOUS
    <3>2. w = RemoveAt(rec, q)
      BY <1>1, <1>4, <2>3, <3>1 DEF Kept
    <3>3. q \in DOMAIN rec /\ Gone(rec, la, rec[q], F, W)
      BY <1>4, <2>3, <3>1, OldestGone
    <3>4. Less(rec, rec[q], w)
      BY <3>2, <3>3, LessOne
    <3>5. la \notin Listed(w)
      BY <2>1, <3>4 DEF Less
    <3>6. Place(w, la) = {}
      BY <3>5 DEF Place, Listed
    <3>7. new = <<la>> \o w
      BY <1>2, <3>6 DEF Without
    <3>8. Swaps(rec, la, rec[q], new)
      BY <3>4, <3>5, <3>7, Swapped
    <3> QED BY <3>3, <3>8 DEF Touched
  <2> QED BY <2>2, <2>3
<1> QED BY <1>3, <1>4

\* What an access means for one geometry: the line that goes, if another than
\* the one touched goes, is in its set and was about to be forgotten.
Moves(rec, la, x, new, g) ==
  /\ Swaps(rec, la, x, new) /\ x % g.sets = la % g.sets
  /\ x = la \/ (la \notin Listed(rec) /\ x \in Listed(rec) /\ Count(rec, x, g) >= g.ways - 1)

LEMMA TouchMoves ==
  ASSUME NEW rec, Ranked(rec), NEW la \in Nat, NEW geos, Sweepable(geos),
         NEW new, new = Touch(rec, la, geos)
  PROVE  geos # {} => \E x : \A g \in geos : Moves(rec, la, x, new, g)
<1> SUFFICES ASSUME geos # {} PROVE \E x : \A g \in geos : Moves(rec, la, x, new, g)
  OBVIOUS
<1>1. PICK F \in Nat \ {0}, W \in Nat \ {0} : F = fine_sets(geos) /\ W = max_ways(geos)
  BY FineSets
<1>2. PICK x : Touched(rec, la, x, F, W, new)
  BY <1>1, TouchIs
<1>3. Swaps(rec, la, x, new)
  BY <1>2 DEF Touched
<1>4. ASSUME NEW g \in geos PROVE Moves(rec, la, x, new, g)
  <2>1. /\ g.sets \in Nat \ {0} /\ g.ways \in Nat \ {0} /\ g.ways <= W
        /\ \A y, z \in Nat : y % F = z % F => y % g.sets = z % g.sets
    BY <1>1, FineSets
  <2>2. CASE x = la
    BY <1>3, <2>2 DEF Moves
  <2>3. CASE x # la
    <3>1. /\ la \notin Listed(rec) /\ x \in Listed(rec) /\ x % F = la % F
          /\ \A y \in Listed(rec) : y % F = la % F /\ y # x => Before(rec, y, x)
      BY <1>2, <2>3 DEF Touched, Gone
    <3>2. PICK T : T = {y \in Listed(rec) : y % F = la % F} /\ Cardinality(T) >= W
      BY <1>2, <2>3 DEF Touched, Gone
    <3>3. Listed(rec) \in SUBSET Nat /\ IsFiniteSet(Listed(rec))
      BY ListedFinite
    <3>4. T \in SUBSET Listed(rec)
      BY <3>2
    <3>5. IsFiniteSet(T)
      BY <3>3, <3>4, FS_Subset
    <3>6. PICK U : U = T \ {x}
      OBVIOUS
    <3>7. x \in T
      BY <3>1, <3>2
    <3>8. IsFiniteSet(U) /\ Cardinality(U) = Cardinality(T) - 1
      BY <3>5, <3>6, <3>7, FS_RemoveElement
    <3>9. PICK V : V = Newer(rec, x, g.sets)
      OBVIOUS
    <3>10. \A y \in U : y \in V
      <4> TAKE y \in U
      <4>1. y \in Listed(rec) /\ y % F = x % F /\ Before(rec, y, x) /\ y \in Nat /\ x \in Nat
        BY <3>1, <3>2, <3>3, <3>6
      <4>2. y % g.sets = x % g.sets
        BY <2>1, <4>1
      <4> QED BY <3>1, <3>9, <4>1, <4>2, NewerIs
    <3>11. IsFiniteSet(V) /\ Cardinality(V) \in Nat
      BY <3>1, <3>9, NewerFinite
    <3>12. U \in SUBSET V
      BY <3>10
    <3>13. Cardinality(U) <= Cardinality(V)
      BY <3>11, <3>12, FS_Subset
    <3>14. PICK t \in Nat, u \in Nat, v \in Nat : t = Cardinality(T) /\ u = Cardinality(U) /\ v = Cardinality(V)
      BY <3>5, <3>8, <3>11, FS_CardinalityType
    <3>15. v >= g.ways - 1
      BY <2>1, <3>2, <3>8, <3>13, <3>14
    <3>16. x % g.sets = la % g.sets
      BY <2>1, <3>1, <3>3
    <3> QED BY <1>3, <3>1, <3>9, <3>14, <3>15, <3>16 DEF Moves, Count
  <2> QED BY <2>2, <2>3
<1> QED BY <1>4
----------------------------------------------------------------------------
(* A set of a cache and the list: the set has the lines of the list that   *)
(* share it and have fewer newer ones than the cache has ways, in order.   *)

Shortlist(rec, l, s, g) ==
  /\ Ranked(l)
  /\ \A y : y \in Listed(l) <=> y \in Listed(rec) /\ y % g.sets = s /\ Count(rec, y, g) < g.ways
  /\ \A y, z : Before(l, y, z) => Before(rec, y, z)

CountIn(rec, y, g, k) == k \in Nat /\ Count(rec, y, g) = k

LEMMA CountNat ==
  ASSUME NEW rec, Ranked(rec), NEW g, NEW y \in Listed(rec)
  PROVE  \E k : CountIn(rec, y, g, k)
<1>1. Count(rec, y, g) \in Nat
  BY NewerFinite DEF Count
<1> QED BY <1>1 DEF CountIn

\* Its lines are as far from the front as they have newer ones.
LEMMA Positions ==
  ASSUME NEW rec, Ranked(rec), NEW g, g.ways \in Nat, NEW s, NEW l, Shortlist(rec, l, s, g),
         NEW i \in DOMAIN l
  PROVE  i \in Nat /\ Count(rec, l[i], g) = i - 1
<1>1. /\ Ranked(l)
      /\ \A y : y \in Listed(l) <=> y \in Listed(rec) /\ y % g.sets = s /\ Count(rec, y, g) < g.ways
      /\ \A y, z : Before(l, y, z) => Before(rec, y, z)
  BY DEF Shortlist
<1>2. PICK n \in Nat : n = Len(l) /\ DOMAIN l = 1..n
  BY <1>1, LenProperties DEF Ranked
<1>3. PICK z : z = l[i]
  OBVIOUS
<1>4. z \in Listed(l) /\ z \in Listed(rec) /\ z % g.sets = s /\ Count(rec, z, g) < g.ways
  BY <1>1, <1>3 DEF Listed
<1>5. PICK S, T : S = 1..i-1 /\ T = Newer(rec, z, g.sets)
  OBVIOUS
<1>6. i \in 1..n
  BY <1>2
<1>7. IsFiniteSet(S) /\ Cardinality(S) = i - 1
  <2>1. /\ 1 \in Int /\ i - 1 \in Int
        /\ (IF 1 > i - 1 THEN 0 ELSE (i - 1) - 1 + 1) = i - 1
    BY <1>6
  <2>2. IsFiniteSet(1..i-1) /\ Cardinality(1..i-1) = IF 1 > i - 1 THEN 0 ELSE (i - 1) - 1 + 1
    BY <2>1, FS_Interval
  <2> QED BY <1>5, <2>1, <2>2
<1>8. ASSUME NEW y \in T PROVE \E j \in S : l[j] = y
  <2>1. y \in Listed(rec) /\ Before(rec, y, z) /\ y % g.sets = s
    BY <1>4, <1>5, NewerIs, BeforeOrders
  <2>2. Count(rec, y, g) < Count(rec, z, g)
    BY <1>4, <1>5, NewerFewer DEF Count
  <2>3. PICK a, b : CountIn(rec, y, g, a) /\ CountIn(rec, z, g, b)
    BY <1>4, <2>1, CountNat
  <2>4. Count(rec, y, g) < g.ways
    BY <1>4, <2>2, <2>3 DEF CountIn
  <2>5. y \in Listed(l)
    BY <1>1, <2>1, <2>4
  <2>6. PICK j \in 1..n : l[j] = y
    BY <1>2, <2>5 DEF Listed
  <2>7. ~(i < j)
    <3>1. i < j => Before(l, z, y)
      BY <1>2, <1>3, <2>6 DEF Before
    <3>2. ~Before(rec, z, y)
      BY <2>1, BeforeOrders
    <3> QED BY <1>1, <3>1, <3>2
  <2>8. i # j
    BY <1>3, <2>1, <2>6, BeforeOrders
  <2>9. j \in S
    BY <1>5, <1>6, <2>7, <2>8
  <2> QED BY <2>6, <2>9
<1>9. ASSUME NEW j \in S PROVE j \in DOMAIN l /\ l[j] \in T
  <2>1. j \in 1..n /\ j < i
    BY <1>5, <1>6
  <2>2. Before(l, l[j], z)
    BY <1>2, <1>3, <2>1 DEF Before
  <2>3. Before(rec, l[j], z) /\ l[j] \in Listed(l)
    BY <1>1, <1>2, <2>1, <2>2 DEF Listed
  <2>4. l[j] % g.sets = z % g.sets
    BY <1>1, <1>4, <2>3
  <2> QED BY <1>2, <1>4, <1>5, <2>1, <2>3, <2>4, NewerIs
<1>10. PICK f : f = [j \in S |-> l[j]]
  OBVIOUS
<1>11. \A j, k \in S : f[j] = f[k] => j = k
  BY <1>1, <1>9, <1>10 DEF Ranked
<1>12. f \in Bijection(S, T)
  <2>1. f \in [S -> T] /\ \A y \in T : \E j \in S : f[j] = y
    BY <1>8, <1>9, <1>10
  <2> QED BY <1>11, <2>1 DEF Bijection, Injection, Surjection, IsInjective
<1>13. Cardinality(T) = Cardinality(S)
  BY <1>7, <1>12, FS_Bijection DEF ExistsBijection
<1> QED BY <1>3, <1>5, <1>6, <1>7, <1>13 DEF Count

\* A set that the line is not in.
LEMMA OtherShortlist ==
  ASSUME NEW rec, Ranked(rec), NEW la, NEW x, NEW new, NEW g, Moves(rec, la, x, new, g),
         NEW s, la % g.sets # s, NEW l, Shortlist(rec, l, s, g)
  PROVE  Shortlist(new, l, s, g)
<1>1. Swaps(rec, la, x, new) /\ x % g.sets = la % g.sets
  BY DEF Moves
<1>2. /\ Ranked(new) /\ Listed(new) = (Listed(rec) \ {x}) \cup {la}
      /\ \A y, z : y # x /\ z # x /\ Before(rec, y, z) => Before(new, y, z)
  BY <1>1 DEF Swaps
<1>3. /\ Ranked(l)
      /\ \A y : y \in Listed(l) <=> y \in Listed(rec) /\ y % g.sets = s /\ Count(rec, y, g) < g.ways
      /\ \A y, z : Before(l, y, z) => Before(rec, y, z)
  BY DEF Shortlist
<1>4. ASSUME NEW y, y % g.sets = s PROVE y \in Listed(new) <=> y \in Listed(rec)
  BY <1>1, <1>2, <1>4
<1>5. ASSUME NEW y \in Listed(new), y % g.sets = s PROVE Count(new, y, g) = Count(rec, y, g)
  <2>1. y # la
    BY <1>5
  <2>2. PICK n : n = g.sets
    OBVIOUS
  <2>3. PICK S, T : S = Newer(rec, y, n) /\ T = Newer(new, y, n)
    OBVIOUS
  <2>4. x % n = la % n /\ y % n # la % n
    BY <1>1, <1>5, <2>2
  <2>5. T = S
    BY <1>1, <2>1, <2>3, <2>4, CountAfter
  <2> QED BY <2>2, <2>3, <2>5 DEF Count
<1>6. \A y : y \in Listed(l) <=> y \in Listed(new) /\ y % g.sets = s /\ Count(new, y, g) < g.ways
  BY <1>3, <1>4, <1>5
<1>7. ASSUME NEW y, NEW z, Before(l, y, z) PROVE Before(new, y, z)
  <2>1. y \in Listed(l) /\ z \in Listed(l)
    BY <1>3, <1>7, BeforeOrders
  <2>2. y # x /\ z # x
    BY <1>1, <1>3, <2>1
  <2> QED BY <1>2, <1>3, <1>7, <2>2
<1> QED BY <1>3, <1>6, <1>7 DEF Shortlist

\* The set that the line is in, and what an LRU of w ways does to it.
Renewed(l, la, v, k, w) ==
  /\ Swaps(l, la, v, k) /\ Len(l) <= w
  /\ la \in Listed(l) => v = la
  /\ la \notin Listed(l) /\ Len(l) = w => w \in DOMAIN l /\ v = l[w]
  /\ la \notin Listed(l) /\ Len(l) # w => v = la

\* Where a line has to be not to go.
Stays(rec, v, y, g) == y # v <=> Count(rec, y, g) < g.ways - 1

LEMMA LastGoes ==
  ASSUME NEW rec, Ranked(rec), NEW la, NEW g, g.ways \in Nat \ {0}, NEW s, NEW l, Shortlist(rec, l, s, g),
         NEW v, NEW k, Renewed(l, la, v, k, g.ways), la \notin Listed(l), NEW y \in Listed(l)
  PROVE  Stays(rec, v, y, g)
<1>1. PICK n \in Nat : n = Len(l) /\ DOMAIN l = 1..n
  BY LenProperties DEF Shortlist, Ranked
<1>2. PICK i \in 1..n : y = l[i]
  BY <1>1 DEF Listed
<1>3. PICK w \in Nat \ {0} : w = g.ways /\ n <= w
  BY <1>1 DEF Renewed
<1>4. Count(rec, y, g) = i - 1
  BY <1>1, <1>2, Positions
<1>5. CASE n = w
  <2>1. v = l[w] /\ w \in 1..n
    BY <1>1, <1>3, <1>5 DEF Renewed
  <2>2. y = v <=> i = w
    BY <1>1, <1>2, <2>1 DEF Shortlist, Ranked
  <2>3. i # w <=> i - 1 < w - 1
    BY <1>5
  <2> QED BY <1>3, <1>4, <2>2, <2>3 DEF Stays
<1>6. CASE n # w
  <2>1. v = la
    BY <1>1, <1>3, <1>6 DEF Renewed
  <2>2. i - 1 < w - 1
    BY <1>3, <1>6
  <2> QED BY <1>3, <1>4, <2>1, <2>2 DEF Stays
<1> QED BY <1>5, <1>6

LEMMA OneMore ==
  ASSUME NEW rec, Ranked(rec), NEW la, NEW x, NEW new, NEW g, Moves(rec, la, x, new, g),
         NEW y \in Listed(new), y # la
  PROVE  /\ y \in Listed(rec) /\ y # x
         /\ y % g.sets = la % g.sets =>
              /\ x \in Newer(rec, y, g.sets) => Count(new, y, g) = Count(rec, y, g)
              /\ x \notin Newer(rec, y, g.sets) => Count(new, y, g) = Count(rec, y, g) + 1
<1>1. Swaps(rec, la, x, new) /\ x % g.sets = la % g.sets
  BY DEF Moves
<1>2. PICK n : n = g.sets
  OBVIOUS
<1>3. PICK S, T : S = Newer(rec, y, n) /\ T = Newer(new, y, n)
  OBVIOUS
<1>4. x % n = la % n
  BY <1>1, <1>2
<1>5. /\ y \in Listed(rec) /\ y # x
      /\ y % n = la % n => Cardinality(T) = IF x \in S THEN Cardinality(S) ELSE Cardinality(S) + 1
  BY <1>1, <1>3, <1>4, CountAfter
<1> QED BY <1>2, <1>3, <1>5 DEF Count

LEMMA OwnShortlist ==
  ASSUME NEW rec, Ranked(rec), NEW la \in Nat, NEW x, NEW new, NEW g, Moves(rec, la, x, new, g),
         g.ways \in Nat \ {0}, NEW s, la % g.sets = s, NEW l, Shortlist(rec, l, s, g),
         NEW v, NEW k, Renewed(l, la, v, k, g.ways)
  PROVE  Shortlist(new, k, s, g) /\ (la \in Listed(l) <=> SweepHit(rec, la, g))
<1>1. /\ Swaps(rec, la, x, new) /\ x % g.sets = la % g.sets
      /\ x = la \/ (la \notin Listed(rec) /\ x \in Listed(rec) /\ Count(rec, x, g) >= g.ways - 1)
  BY DEF Moves
<1>2. /\ Ranked(new) /\ la \notin Listed(rec) \ {x} /\ Listed(new) = (Listed(rec) \ {x}) \cup {la}
      /\ \A y, z : Before(new, y, z) <=>
           (y # x /\ z # x /\ Before(rec, y, z)) \/ (y = la /\ z \in Listed(rec) \ {x})
  BY <1>1 DEF Swaps
<1>3. /\ \A y : y \in Listed(l) <=> y \in Listed(rec) /\ y % g.sets = s /\ Count(rec, y, g) < g.ways
      /\ \A y, z : Before(l, y, z) => Before(rec, y, z)
  BY DEF Shortlist
<1>4. /\ Ranked(k) /\ la \notin Listed(l) \ {v} /\ Listed(k) = (Listed(l) \ {v}) \cup {la}
      /\ \A y, z : Before(k, y, z) <=>
           (y # v /\ z # v /\ Before(l, y, z)) \/ (y = la /\ z \in Listed(l) \ {v})
  BY DEF Renewed, Swaps
<1>5. la \in Listed(l) <=> SweepHit(rec, la, g)
  <2>1. Place(rec, la) # {} <=> la \in Listed(rec)
    BY DEF Place, Listed
  <2> QED BY <1>3, <2>1 DEF SweepHit
<1>6. ASSUME NEW y \in Listed(rec), y # x, y # la, y % g.sets = s
      PROVE  y \in Listed(l) \ {v} <=> Count(new, y, g) < g.ways
  <2>1. y \in Listed(new)
    BY <1>2, <1>6
  <2>2. /\ x \in Newer(rec, y, g.sets) => Count(new, y, g) = Count(rec, y, g)
        /\ x \notin Newer(rec, y, g.sets) => Count(new, y, g) = Count(rec, y, g) + 1
    BY <1>6, <2>1, OneMore
  <2>3. PICK c : CountIn(rec, y, g, c)
    BY <1>6, CountNat
  <2>4. PICK w \in Nat \ {0} : w = g.ways
    OBVIOUS
  <2>5. CASE la \in Listed(l)
    <3>1. v = la /\ x = la /\ la \in Listed(rec)
      BY <1>1, <1>3, <2>5 DEF Renewed
    <3>2. PICK a : CountIn(rec, la, g, a)
      BY <3>1, CountNat
    <3>3. a < w
      BY <1>3, <2>4, <2>5, <3>2 DEF CountIn
    <3>4. la \notin Newer(rec, y, g.sets) => c < a
      <4>1. la \notin Newer(rec, y, g.sets) => y \in Newer(rec, la, g.sets)
        BY <1>6, <3>1, NewerTotal
      <4>2. y \in Newer(rec, la, g.sets) => Count(rec, y, g) < Count(rec, la, g)
        BY <3>1, NewerFewer DEF Count
      <4> QED BY <2>3, <3>2, <4>1, <4>2 DEF CountIn
    <3>5. CASE la \in Newer(rec, y, g.sets)
      BY <1>3, <1>6, <2>2, <3>1, <3>5
    <3>6. CASE la \notin Newer(rec, y, g.sets)
      <4>1. Count(new, y, g) = c + 1 /\ Count(rec, y, g) = c /\ c \in Nat
        BY <2>2, <2>3, <3>1, <3>6 DEF CountIn
      <4>2. c < w /\ c + 1 < w
        BY <3>2, <3>3, <3>4, <3>6, <4>1 DEF CountIn
      <4> QED BY <1>3, <1>6, <2>4, <3>1, <4>1, <4>2
    <3> QED BY <3>5, <3>6
  <2>6. CASE la \notin Listed(l)
    <3>1. y \in Listed(l) \ {v} <=> c < w - 1
      <4>1. CASE y \in Listed(l)
        <5>1. Stays(rec, v, y, g)
          BY <2>6, <4>1, LastGoes
        <5> QED BY <2>3, <2>4, <4>1, <5>1 DEF CountIn, Stays
      <4>2. CASE y \notin Listed(l)
        <5>1. ~(c < w)
          BY <1>3, <1>6, <2>3, <2>4, <4>2 DEF CountIn
        <5> QED BY <2>3, <2>4, <4>2, <5>1 DEF CountIn
      <4> QED BY <4>1, <4>2
    <3>2. CASE x \in Newer(rec, y, g.sets)
      <4>1. x \in Listed(rec)
        BY <1>6, <3>2, NewerIs, BeforeOrders
      <4>2. Count(rec, x, g) < Count(rec, y, g)
        BY <1>6, <3>2, NewerFewer DEF Count
      <4>3. PICK d : CountIn(rec, x, g, d)
        BY <4>1, CountNat
      <4>4. d >= w - 1
        <5>1. CASE x = la
          <6>1. ~(d < w)
            BY <1>1, <1>3, <2>4, <2>6, <4>1, <4>3, <5>1 DEF CountIn
          <6> QED BY <2>4, <4>3, <6>1 DEF CountIn
        <5>2. CASE x # la
          BY <1>1, <2>4, <4>3, <5>2 DEF CountIn
        <5> QED BY <5>1, <5>2
      <4>5. d < c /\ d \in Nat /\ c \in Nat
        BY <2>3, <4>2, <4>3 DEF CountIn
      <4>6. ~(c < w) /\ ~(c < w - 1)
        BY <4>4, <4>5
      <4>7. Count(new, y, g) = c
        BY <2>2, <2>3, <3>2 DEF CountIn
      <4> QED BY <2>4, <3>1, <4>6, <4>7
    <3>3. CASE x \notin Newer(rec, y, g.sets)
      <4>1. Count(new, y, g) = c + 1 /\ c \in Nat
        BY <2>2, <2>3, <3>3 DEF CountIn
      <4>2. c < w - 1 <=> c + 1 < w
        BY <4>1
      <4> QED BY <2>4, <3>1, <4>1, <4>2
    <3> QED BY <3>2, <3>3
  <2> QED BY <2>5, <2>6
<1>7. x \in Listed(l) /\ x # la => x = v
  <2> SUFFICES ASSUME x \in Listed(l), x # la PROVE x = v
    OBVIOUS
  <2>1. la \notin Listed(l) /\ x \in Listed(rec) /\ Count(rec, x, g) >= g.ways - 1
    BY <1>1, <1>3
  <2>2. Stays(rec, v, x, g)
    BY <2>1, LastGoes
  <2>3. PICK d : CountIn(rec, x, g, d)
    BY <2>1, CountNat
  <2> QED BY <2>1, <2>2, <2>3 DEF CountIn, Stays
<1>8. Count(new, la, g) < g.ways
  <2>1. la \in Listed(new)
    BY <1>2
  <2>2. \A y : ~Before(new, y, la)
    BY <1>2, BeforeOrders
  <2>3. PICK T : T = Newer(new, la, g.sets)
    OBVIOUS
  <2>4. T = {}
    BY <1>2, <2>1, <2>2, <2>3, NewerIs
  <2>5. Count(new, la, g) = 0
    BY <2>3, <2>4, FS_EmptySet DEF Count
  <2> QED BY <2>5
<1>9. ASSUME NEW y PROVE y \in Listed(k) <=> y \in Listed(new) /\ y % g.sets = s /\ Count(new, y, g) < g.ways
  <2>1. CASE y = la
    BY <1>2, <1>4, <1>8, <2>1
  <2>2. CASE y # la /\ y = x
    BY <1>2, <1>4, <1>7, <2>2
  <2>3. CASE y # la /\ y # x
    <3>1. y \in Listed(k) <=> y \in Listed(l) \ {v}
      BY <1>4, <2>3
    <3>2. y \in Listed(new) <=> y \in Listed(rec)
      BY <1>2, <2>3
    <3> QED BY <1>3, <1>6, <2>3, <3>1, <3>2
  <2> QED BY <2>1, <2>2, <2>3
<1>10. ASSUME NEW y, NEW z, Before(k, y, z) PROVE Before(new, y, z)
  <2>1. ASSUME NEW u \in Listed(l), u # v PROVE u # x
    <3>1. u = x => x = la
      BY <1>7, <2>1
    <3>2. u # la
      BY <1>4, <2>1
    <3> QED BY <3>1, <3>2
  <2>2. CASE y # v /\ z # v /\ Before(l, y, z)
    <3>1. y \in Listed(l) /\ z \in Listed(l)
      BY <2>2, BeforeOrders DEF Shortlist
    <3>2. y # x /\ z # x
      BY <2>1, <2>2, <3>1
    <3> QED BY <1>2, <1>3, <2>2, <3>2
  <2>3. CASE y = la /\ z \in Listed(l) \ {v}
    <3>1. z # x /\ z \in Listed(rec)
      BY <1>3, <2>1, <2>3
    <3> QED BY <1>2, <2>3, <3>1
  <2> QED BY <1>4, <1>10, <2>2, <2>3
<1> QED BY <1>4, <1>5, <1>9, <1>10 DEF Shortlist
----------------------------------------------------------------------------
(* A cache of a variant's geometry follows the list.                       *)

LasIn(L) == [i \in DOMAIN L |-> L[i].la]

LEMMA LasInIs ==
  ASSUME NEW L \in Seq(Line), Distinct(L)
  PROVE  /\ Ranked(LasIn(L)) /\ Len(LasIn(L)) = Len(L) /\ DOMAIN LasIn(L) = DOMAIN L
         /\ \A i \in DOMAIN L : LasIn(L)[i] = L[i].la
<1>1. PICK n \in Nat : n = Len(L) /\ DOMAIN L = 1..n
  BY LenProperties
<1>2. \A i \in 1..n : L[i] \in Line /\ L[i].la \in Nat
  <2>1. \A i \in 1..n : L[i] \in Line
    BY <1>1, ElementOfSeq
  <2> QED BY <2>1 DEF Line
<1>3. LasIn(L) = [i \in 1..n |-> L[i].la]
  BY <1>1 DEF LasIn
<1>4. LasIn(L) \in Seq(Nat) /\ Len(LasIn(L)) = n /\ DOMAIN LasIn(L) = 1..n
  BY <1>2, <1>3
<1>5. \A i \in 1..n : LasIn(L)[i] = L[i].la
  BY <1>3
<1> QED BY <1>1, <1>4, <1>5 DEF Ranked, Distinct

LEMMA SameSeq ==
  ASSUME NEW u \in Seq(Nat), NEW v \in Seq(Nat), NEW n \in Nat, Len(u) = n, Len(v) = n,
         \A i \in 1..n : u[i] = v[i]
  PROVE  u = v
<1>1. u = [i \in 1..n |-> u[i]] /\ v = [i \in 1..n |-> v[i]]
  BY LenProperties
<1> QED BY <1>1

LEMMA LasInFront ==
  ASSUME NEW L \in Seq(Line), NEW x \in Line, Distinct(L), NEW R, R = <<x>> \o L, Distinct(R)
  PROVE  LasIn(R) = <<x.la>> \o LasIn(L)
<1>1. PICK n \in Nat : n = Len(L) /\ DOMAIN L = 1..n
  BY LenProperties
<1>2. R \in Seq(Line) /\ Len(R) = n + 1 /\ R[1] = x /\ \A i \in 1..n : R[i + 1] = L[i]
  BY <1>1
<1>3. DOMAIN R = 1..n+1
  BY <1>2, LenProperties
<1>4. PICK u, l, a : u = LasIn(R) /\ l = LasIn(L) /\ a = x.la
  OBVIOUS
<1>5. u \in Seq(Nat) /\ Len(u) = n + 1 /\ \A i \in 1..n+1 : u[i] = R[i].la
  BY <1>2, <1>3, <1>4, LasInIs DEF Ranked
<1>6. l \in Seq(Nat) /\ Len(l) = n /\ (\A i \in 1..n : l[i] = L[i].la) /\ a \in Nat
  BY <1>1, <1>4, LasInIs DEF Ranked, Line
<1>7. PICK v : v = <<a>> \o l
  OBVIOUS
<1>8. v \in Seq(Nat) /\ Len(v) = n + 1 /\ v[1] = a /\ \A i \in 1..n : v[i + 1] = l[i]
  <2>1. l \in Seq(Nat) /\ Len(l) = n /\ a \in Nat
    BY <1>6
  <2> QED BY <1>7, <2>1
<1>9. \A i \in 1..n+1 : u[i] = v[i]
  <2> TAKE i \in 1..n+1
  <2>1. CASE i = 1
    BY <1>2, <1>4, <1>5, <1>8, <2>1
  <2>2. CASE i # 1
    <3>1. PICK j \in 1..n : i = j + 1
      <4>1. i - 1 \in 1..n /\ i = (i - 1) + 1
        BY <2>2
      <4> QED BY <4>1
    <3> QED BY <1>2, <1>5, <1>6, <1>8, <3>1
  <2> QED BY <2>1, <2>2
<1>10. u = v
  <2>1. n + 1 \in Nat
    OBVIOUS
  <2> QED BY <1>5, <1>8, <1>9, <2>1, SameSeq
<1> QED BY <1>4, <1>7, <1>10

LEMMA LasInWithout ==
  ASSUME NEW L \in Seq(Line), Distinct(L), NEW p \in DOMAIN L, NEW R, R = RemoveAt(L, p), Distinct(R)
  PROVE  LasIn(R) = RemoveAt(LasIn(L), p)
<1>1. PICK n \in Nat : n = Len(L) /\ DOMAIN L = 1..n
  BY LenProperties
<1>2. R \in Seq(Line) /\ Len(R) = n - 1 /\ \A i \in 1..n-1 : R[i] = L[IF i < p THEN i ELSE i + 1]
  BY <1>1, RemovedAt
<1>3. DOMAIN R = 1..n-1
  BY <1>2, LenProperties
<1>4. PICK u, l, v : u = LasIn(R) /\ l = LasIn(L) /\ v = RemoveAt(l, p)
  OBVIOUS
<1>5. u \in Seq(Nat) /\ Len(u) = n - 1 /\ \A i \in 1..n-1 : u[i] = R[i].la
  BY <1>2, <1>3, <1>4, LasInIs DEF Ranked
<1>6. l \in Seq(Nat) /\ Len(l) = n /\ \A i \in 1..n : l[i] = L[i].la
  BY <1>1, <1>4, LasInIs DEF Ranked
<1>7. v \in Seq(Nat) /\ Len(v) = n - 1 /\ \A i \in 1..n-1 : v[i] = l[IF i < p THEN i ELSE i + 1]
  <2>1. RemovedTo(l, n, p, v)
    BY <1>1, <1>4, <1>6, Removal
  <2> QED BY <2>1 DEF RemovedTo
<1>8. \A i \in 1..n-1 : u[i] = v[i]
  <2> TAKE i \in 1..n-1
  <2>1. PICK j \in 1..n : j = IF i < p THEN i ELSE i + 1
    OBVIOUS
  <2> QED BY <1>2, <1>5, <1>6, <1>7, <2>1
<1>9. n - 1 \in Nat
  BY <1>1
<1>10. u = v
  BY <1>5, <1>7, <1>8, <1>9, SameSeq
<1> QED BY <1>4, <1>10

LEMMA SetRenewed ==
  ASSUME NEW w \in Nat \ {0}, NEW L, SetOK(L, w), NEW la \in Nat,
         NEW write \in BOOLEAN, NEW pre \in BOOLEAN, NEW demand \in BOOLEAN,
         NEW R, R = MoveToFront(L, la, At(L, la), GivesUp(L, la, w), write, pre, demand)
  PROVE  \E v : Renewed(LasIn(L), la, v, LasIn(R), w)
<1>1. PICK P : P = At(L, la) \cup GivesUp(L, la, w)
  OBVIOUS
<1>2. PICK x : x = NewLine(L, la, write, pre, demand)
  OBVIOUS
<1>3. PICK W : W = Without(L, P)
  OBVIOUS
<1>4. R = <<x>> \o W /\ x.la = la
  BY <1>1, <1>2, <1>3 DEF MoveToFront, NewLine
<1>5. SetOK(R, w) /\ x \in Line
  BY <1>2, FrontIs
<1>6. OnePlace(L, P)
  BY <1>1, Places
<1>7. W \in Seq(Line) /\ Distinct(W)
  BY <1>3, <1>6, WithoutIs
<1>8. L \in Seq(Line) /\ Distinct(L) /\ Len(L) <= w
  BY DEF SetOK
<1>9. PICK l, k, u : l = LasIn(L) /\ k = LasIn(R) /\ u = LasIn(W)
  OBVIOUS
<1>10. k = <<la>> \o u
  BY <1>4, <1>5, <1>7, <1>9, LasInFront DEF SetOK
<1>11. /\ Ranked(l) /\ Len(l) = Len(L) /\ DOMAIN l = DOMAIN L
       /\ \A i \in DOMAIN L : l[i] = L[i].la
  BY <1>8, <1>9, LasInIs
<1>12. \A i : i \in At(L, la) <=> i \in DOMAIN l /\ l[i] = la
  BY <1>11 DEF At
<1>13. la \in Listed(l) <=> At(L, la) # {}
  BY <1>12 DEF Listed
<1>14. CASE P = {}
  <2>1. W = L /\ la \notin Listed(l)
    BY <1>1, <1>3, <1>13, <1>14 DEF Without
  <2>2. Less(l, la, u)
    BY <1>9, <1>11, <2>1, LessNone
  <2>3. Swaps(l, la, la, k)
    BY <1>9, <1>10, <2>1, <2>2, Swapped
  <2>4. Len(l) # w
    BY <1>1, <1>11, <1>14, Places
  <2> QED BY <1>8, <1>9, <1>11, <2>1, <2>3, <2>4 DEF Renewed
<1>15. CASE P # {}
  <2>1. PICK p \in DOMAIN L : P = {p}
    BY <1>6, <1>15 DEF OnePlace
  <2>2. W = RemoveAt(L, p)
    <3>1. (CHOOSE i \in P : TRUE) = p
      BY <2>1
    <3> QED BY <1>3, <1>15, <3>1 DEF Without
  <2>3. u = RemoveAt(l, p)
    BY <1>7, <1>8, <1>9, <2>2, LasInWithout
  <2>4. Less(l, l[p], u)
    BY <1>11, <2>1, <2>3, LessOne
  <2>5. la \in Listed(l) => l[p] = la
    <3> SUFFICES ASSUME At(L, la) # {} PROVE l[p] = la
      BY <1>13
    <3>1. p \in At(L, la)
      BY <1>1, <2>1
    <3> QED BY <1>12, <3>1
  <2>6. la \notin Listed(u)
    BY <2>4, <2>5 DEF Less
  <2>7. Swaps(l, la, l[p], k)
    BY <1>10, <2>4, <2>6, Swapped
  <2>8. la \notin Listed(l) => Len(l) = w /\ p = w
    <3> SUFFICES ASSUME At(L, la) = {} PROVE Len(l) = w /\ p = w
      BY <1>13
    <3>1. Victim(L, w) = {p}
      BY <1>1, <2>1 DEF GivesUp
    <3> QED BY <1>11, <3>1 DEF Victim
  <2> QED BY <1>8, <1>9, <1>11, <2>1, <2>5, <2>7, <2>8 DEF Renewed
<1> QED BY <1>14, <1>15

Follows(rec, c, g) == \A s \in DOMAIN c : Shortlist(rec, LasIn(c[s]), s, g)

\* An access to the cache and to the list: the one hits where the other says so.
LEMMA FollowsOn ==
  ASSUME NEW g, g.sets \in Nat \ {0}, NEW c, BuiltAs(c, g), NEW rec, Ranked(rec), Follows(rec, c, g),
         NEW la \in Nat, NEW x, NEW new, Moves(rec, la, x, new, g),
         NEW write \in BOOLEAN, NEW pre \in BOOLEAN, NEW demand \in BOOLEAN,
         NEW r, r = access(c, g.ways, la, write, pre, demand)
  PROVE  Follows(new, r.c, g) /\ r.hit = SweepHit(rec, la, g)
<1>1. DOMAIN c = 0..g.sets-1 /\ CacheOK(c, g.ways)
  BY DEF BuiltAs
<1>2. Cardinality(0..g.sets-1) = g.sets
  <2>1. PICK n \in Nat \ {0} : n = g.sets
    OBVIOUS
  <2>2. 0 \in Int /\ n - 1 \in Int /\ ~(0 > n - 1) /\ n - 1 - 0 + 1 = n
    OBVIOUS
  <2>3. Cardinality(0..n-1) = n
    BY <2>2, FS_Interval
  <2> QED BY <2>1, <2>3
<1>3. PICK s : s = la % g.sets
  OBVIOUS
<1>4. setof(c, la) = s /\ s \in DOMAIN c
  <2>1. la % g.sets \in 0..g.sets-1
    OBVIOUS
  <2> QED BY <1>1, <1>2, <1>3, <2>1 DEF setof
<1>5. PICK L : L = c[s] /\ SetOK(L, g.ways)
  BY <1>1, <1>4 DEF CacheOK
<1>6. g.ways \in Nat \ {0}
  BY <1>1, <1>4 DEF CacheOK, enabled
<1>7. PICK R : R = MoveToFront(L, la, At(L, la), GivesUp(L, la, g.ways), write, pre, demand)
  OBVIOUS
<1>8. r.c = [c EXCEPT ![s] = R] /\ r.hit = (At(L, la) # {})
  BY <1>4, <1>5, <1>7 DEF access, GivesUp
<1>9. PICK v : Renewed(LasIn(L), la, v, LasIn(R), g.ways)
  BY <1>5, <1>6, <1>7, SetRenewed
<1>10. Shortlist(rec, LasIn(L), s, g)
  BY <1>4, <1>5 DEF Follows
<1>11. Shortlist(new, LasIn(R), s, g) /\ (la \in Listed(LasIn(L)) <=> SweepHit(rec, la, g))
  <2>1. PICK l, k, w : l = LasIn(L) /\ k = LasIn(R) /\ w = g.ways
    OBVIOUS
  <2>2. Shortlist(rec, l, s, g) /\ Renewed(l, la, v, k, g.ways)
    BY <1>9, <1>10, <2>1
  <2>3. Shortlist(new, k, s, g) /\ (la \in Listed(l) <=> SweepHit(rec, la, g))
    BY <1>3, <1>6, <2>2, OwnShortlist
  <2> QED BY <2>1, <2>3
<1>12. la \in Listed(LasIn(L)) <=> At(L, la) # {}
  BY DEF Listed, LasIn, At
<1>13. \A t \in DOMAIN c : r.c[t] = IF t = s THEN R ELSE c[t]
  <2>1. PICK n \in Nat : c \in [0..n-1 -> Seq(Line)]
    BY <1>1 DEF CacheOK
  <2> QED BY <1>8, <2>1
<1>14. DOMAIN r.c = DOMAIN c
  BY <1>8
<1>15. ASSUME NEW t \in DOMAIN c, t # s PROVE Shortlist(new, LasIn(c[t]), t, g)
  <2>1. PICK l : l = LasIn(c[t]) /\ Shortlist(rec, l, t, g)
    BY DEF Follows
  <2>2. la % g.sets # t
    BY <1>3, <1>15
  <2>3. Shortlist(new, l, t, g)
    BY <2>1, <2>2, OtherShortlist
  <2> QED BY <2>1, <2>3
<1>16. r.hit = SweepHit(rec, la, g)
  <2>1. SweepHit(rec, la, g) \in BOOLEAN
    BY DEF SweepHit
  <2> QED BY <1>8, <1>11, <1>12, <2>1
<1> QED BY <1>11, <1>13, <1>14, <1>15, <1>16 DEF Follows

LEMMA ColdFollows ==
  ASSUME NEW g \in Geometries
  PROVE  Follows(<<>>, Cold(g.sets), g)
<1>1. Ranked(<<>>) /\ Listed(<<>>) = {} /\ \A y, z : ~Before(<<>>, y, z)
  BY DEF Ranked, Listed, Before
<1>2. LasIn(<<>>) = <<>>
  BY DEF LasIn
<1>3. \A s \in DOMAIN Cold(g.sets) : Cold(g.sets)[s] = <<>>
  BY DEF Cold
<1> QED BY <1>1, <1>2, <1>3 DEF Follows, Shortlist
----------------------------------------------------------------------------
(* What the steps of an access leave alone, with no inclusive L2.          *)

\* Above the L3.
Upper == {"l1i", "l1d", "l2", "rec", "hits", "sw_hit"}

LEMMA UntouchedOn ==
  ASSUME NEW F, NEW m, NEW n, Untouched(m, n, F), NEW p, Untouched(n, p, F)
  PROVE  Untouched(m, p, F)
BY DEF Untouched

LEMMA L3Keeps ==
  ASSUME NEW c, NEW m, Shaped(m), NEW la, NEW write, NEW demand, NEW n, n = L3Access(c, m, la, write, demand)
  PROVE  Untouched(m, n, Upper)
<1>1. PICK r : r = access(m.l3, c.l3.ways, la, write, FALSE, demand)
  OBVIOUS
<1>2. PICK p : p = [m EXCEPT !.l3 = r.c]
  OBVIOUS
<1>3. PICK d : n = [p EXCEPT !.dram = d]
  BY <1>1, <1>2 DEF L3Access, l3_evict
<1>4. Untouched(m, p, Upper)
  BY <1>2 DEF Untouched, Shaped, Fields, Upper
<1>5. Untouched(p, n, Upper)
  BY <1>3, <1>4 DEF Untouched, Shaped, Fields, Upper
<1> QED BY <1>4, <1>5, UntouchedOn

LEMMA GivenUpKeeps ==
  ASSUME NEW c, ~c.inclusive, NEW m, Shaped(m), NEW out, NEW n, n = l2_evict(c, m, out)
  PROVE  Untouched(m, n, Upper)
<1>1. CASE out = {}
  BY <1>1 DEF l2_evict, Untouched
<1>2. CASE out # {}
  <2>1. PICK v : v = CHOOSE x \in out : TRUE
    OBVIOUS
  <2>2. PICK q : q = Unflagged(m, v.pf)
    OBVIOUS
  <2>3. n = WrittenBack(c, q, v.la, NewestDirty(c, m, v))
    BY <1>2, <2>1, <2>2 DEF l2_evict, GivenUp, BackInvalidated
  <2>4. Untouched(m, q, Upper)
    BY <2>2 DEF Unflagged, Untouched, Shaped, Fields, Upper
  <2>5. Shaped(q)
    BY <2>4 DEF Untouched
  <2>6. Untouched(q, n, Upper)
    <3>1. CASE n = q
      BY <2>5, <3>1 DEF Untouched
    <3>2. CASE n # q
      <4>1. n = Below(c, q, v.la)
        BY <2>3, <3>2 DEF WrittenBack
      <4>2. CASE enabled(q.l3)
        <5>1. n = L3Access(c, q, v.la, TRUE, FALSE)
          BY <4>1, <4>2 DEF Below
        <5> QED BY <2>5, <5>1, L3Keeps
      <4>3. CASE ~enabled(q.l3)
        <5>1. PICK d : n = [q EXCEPT !.dram = d]
          BY <4>1, <4>3 DEF Below
        <5> QED BY <2>5, <5>1 DEF Untouched, Shaped, Fields, Upper
      <4> QED BY <4>2, <4>3
    <3> QED BY <3>1, <3>2
  <2> QED BY <2>4, <2>6, UntouchedOn
<1> QED BY <1>1, <1>2

LEMMA MissL2Keeps ==
  ASSUME NEW c, NEW m, Shaped(m), NEW la, NEW n, n = MissL2(c, m, la).m
  PROVE  Untouched(m, n, Upper)
<1>1. CASE enabled(m.l3)
  <2>1. n = L3Access(c, m, la, FALSE, TRUE)
    BY <1>1 DEF MissL2
  <2> QED BY <2>1, L3Keeps
<1>2. CASE ~enabled(m.l3)
  BY <1>2 DEF MissL2, Untouched
<1> QED BY <1>1, <1>2

\* After the L2 has answered: the L1s and the list stay as they are.
LEMMA AnswerKeeps ==
  ASSUME NEW c, ~c.inclusive, NEW m, Shaped(m), NEW la, NEW r, NEW n, n = InL2(c, m, la, r).m,
         NEW p, p = Counted(m, "l2", r.hit)
  PROVE  Untouched(p, n, Upper)
<1>1. Shaped(p)
  BY DEF Counted, Shaped, Fields
<1>2. PICK q : q = l2_evict(c, p, r.out)
  OBVIOUS
<1>3. Untouched(p, q, Upper)
  BY <1>1, <1>2, GivenUpKeeps
<1>4. PICK s : s = Unflagged(q, r.used)
  OBVIOUS
<1>5. Untouched(q, s, Upper)
  BY <1>3, <1>4 DEF Unflagged, Untouched, Shaped, Fields, Upper
<1>6. n = Refilled(c, s, la, r).m
  BY <1>2, <1>4 DEF InL2
<1>7. Untouched(s, n, Upper)
  <2>1. Shaped(s)
    BY <1>5 DEF Untouched
  <2>2. CASE r.hit
    BY <1>6, <2>1, <2>2 DEF Refilled, Untouched
  <2>3. CASE ~r.hit
    <3>1. n = MissL2(c, s, la).m
      BY <1>6, <2>3 DEF Refilled
    <3> QED BY <2>1, <3>1, MissL2Keeps
  <2> QED BY <2>2, <2>3
<1>8. Untouched(p, s, Upper)
  BY <1>3, <1>5, UntouchedOn
<1> QED BY <1>7, <1>8, UntouchedOn

\* And when no sweep listens to the L2.
Sound(m) == Shaped(m) /\ m.hits \in [Levels -> Nat]
Quiet(c) == ~c.inclusive /\ c.sweep.level # "l2"

Aside(m, n) ==
  /\ Sound(n) /\ Untouched(m, n, {"l1i", "l1d", "rec", "sw_hit"})
  /\ \A l \in {"l1i", "l1d"} : n.hits[l] = m.hits[l]

LEMMA AsideOn ==
  ASSUME NEW m, NEW n, Aside(m, n), NEW p, Aside(n, p)
  PROVE  Aside(m, p)
BY DEF Aside, Untouched

LEMMA UpperAside ==
  ASSUME NEW m, Sound(m), NEW n, Untouched(m, n, Upper)
  PROVE  Aside(m, n)
BY DEF Aside, Untouched, Upper, Sound

LEMMA InsertAside ==
  ASSUME NEW c, Quiet(c), NEW m, Sound(m), NEW la, NEW dirty, NEW as_pf,
         NEW n, n = l2_insert(c, m, la, dirty, as_pf)
  PROVE  Aside(m, n)
<1>1. CASE ~enabled(m.l2)
  <2>1. CASE dirty
    <3>1. PICK d : n = [m EXCEPT !.dram = d]
      BY <1>1, <2>1 DEF l2_insert
    <3>2. Untouched(m, n, Upper)
      BY <3>1 DEF Untouched, Shaped, Fields, Upper, Sound
    <3> QED BY <3>2, UpperAside
  <2>2. CASE ~dirty
    BY <1>1, <2>2 DEF l2_insert, Aside, Untouched, Sound
  <2> QED BY <2>1, <2>2
<1>2. CASE enabled(m.l2)
  <2>1. PICK r : r = access(m.l2, c.l2.ways, la, dirty, as_pf, FALSE)
    OBVIOUS
  <2>2. PICK p : p = [m EXCEPT !.l2 = r.c]
    OBVIOUS
  <2>3. n = l2_evict(c, p, r.out)
    BY <1>2, <2>1, <2>2 DEF l2_insert, sweep_on, Quiet
  <2>4. Aside(m, p) /\ Shaped(p)
    BY <2>2 DEF Aside, Sound, Untouched, Shaped, Fields
  <2>5. Untouched(p, n, Upper)
    BY <2>3, <2>4, GivenUpKeeps DEF Quiet
  <2>6. Aside(p, n)
    BY <2>4, <2>5, UpperAside DEF Aside
  <2> QED BY <2>4, <2>6, AsideOn
<1> QED BY <1>1, <1>2

LEMMA MissAside ==
  ASSUME NEW c, Quiet(c), NEW m, Sound(m), NEW la, NEW n, n = MissL1(c, m, la).m
  PROVE  Aside(m, n)
<1>1. CASE ~enabled(m.l2)
  <2>1. n = MissL2(c, m, la).m
    BY <1>1 DEF MissL1
  <2>2. Untouched(m, n, Upper)
    BY <2>1, MissL2Keeps DEF Sound
  <2> QED BY <2>2, UpperAside
<1>2. CASE enabled(m.l2)
  <2>1. PICK r : r = access(m.l2, c.l2.ways, la, FALSE, FALSE, TRUE)
    OBVIOUS
  <2>2. PICK p : p = [m EXCEPT !.l2 = r.c]
    OBVIOUS
  <2>3. n = InL2(c, p, la, r).m
    BY <1>2, <2>1, <2>2 DEF MissL1, sweep_on, Quiet
  <2>4. Aside(m, p) /\ Sound(p) /\ Shaped(p)
    BY <2>2 DEF Aside, Sound, Untouched, Shaped, Fields
  <2>5. PICK q : q = Counted(p, "l2", r.hit)
    OBVIOUS
  <2>6. Aside(p, q)
    <3>1. CASE r.hit
      <4>1. q = [p EXCEPT !.hits = [p.hits EXCEPT !["l2"] = p.hits["l2"] + 1]]
        BY <2>5, <3>1 DEF Counted
      <4>2. PICK h : h = [p.hits EXCEPT !["l2"] = p.hits["l2"] + 1]
        OBVIOUS
      <4>3. p.hits \in [Levels -> Nat]
        BY <2>4 DEF Sound
      <4>4. h \in [Levels -> Nat] /\ h["l1i"] = p.hits["l1i"] /\ h["l1d"] = p.hits["l1d"]
        BY <4>2, <4>3 DEF Levels
      <4>5. /\ Shaped(q) /\ q.hits = h
            /\ \A f \in Fields \ {"hits"} : q[f] = p[f]
        BY <2>4, <4>1, <4>2 DEF Shaped, Fields
      <4>6. Untouched(p, q, {"l1i", "l1d", "rec", "sw_hit"})
        BY <4>5 DEF Untouched, Fields
      <4>7. \A l \in {"l1i", "l1d"} : q.hits[l] = p.hits[l]
        BY <4>4, <4>5
      <4> QED BY <4>4, <4>5, <4>6, <4>7 DEF Aside, Sound
    <3>2. CASE ~r.hit
      BY <2>4, <2>5, <3>2 DEF Counted, Aside, Untouched, Sound
    <3> QED BY <3>1, <3>2
  <2>7. Untouched(q, n, Upper)
    BY <2>3, <2>4, <2>5, AnswerKeeps DEF Quiet
  <2>8. Aside(q, n)
    BY <2>6, <2>7, UpperAside DEF Aside
  <2>9. Aside(m, q)
    BY <2>4, <2>6, AsideOn
  <2> QED BY <2>8, <2>9, AsideOn
<1> QED BY <1>1, <1>2

LEMMA PrefetchAside ==
  ASSUME NEW c, Quiet(c), NEW m, Sound(m), NEW addr, NEW n, n = issue_prefetch(c, m, addr)
  PROVE  Aside(m, n)
<1>1. PICK la : la = lineof(addr)
  OBVIOUS
<1>2. CASE Redundant(m, la)
  BY <1>1, <1>2 DEF issue_prefetch, Aside, Untouched, Sound
<1>3. CASE ~Redundant(m, la)
  <2>1. PICK p : p = [m EXCEPT !.pf_gap = @ + 1]
    OBVIOUS
  <2>2. PICK q : q = IF enabled(m.l3) THEN L3Access(c, p, la, FALSE, FALSE) ELSE p
    OBVIOUS
  <2>3. n = l2_insert(c, q, la, FALSE, TRUE)
    BY <1>1, <1>3, <2>1, <2>2 DEF issue_prefetch
  <2>4. Untouched(m, p, Upper) /\ Shaped(p)
    BY <2>1 DEF Untouched, Shaped, Fields, Upper, Sound
  <2>5. Untouched(p, q, Upper)
    <3>1. CASE enabled(m.l3)
      <4>1. q = L3Access(c, p, la, FALSE, FALSE)
        BY <2>2, <3>1
      <4> QED BY <2>4, <4>1, L3Keeps
    <3>2. CASE ~enabled(m.l3)
      BY <2>2, <2>4, <3>2 DEF Untouched
    <3> QED BY <3>1, <3>2
  <2>6. Aside(m, q)
    BY <2>4, <2>5, UntouchedOn, UpperAside
  <2>7. Aside(q, n)
    <3>1. Sound(q)
      BY <2>6 DEF Aside
    <3>2. PICK no, yes : no = FALSE /\ yes = TRUE
      OBVIOUS
    <3>3. n = l2_insert(c, q, la, no, yes)
      BY <2>3, <3>2
    <3> QED BY <3>1, <3>3, InsertAside
  <2> QED BY <2>6, <2>7, AsideOn
<1> QED BY <1>2, <1>3

\* What one line of an access does to the L1s, the list and their counts.
Listened(c, m, n, l1, la) ==
  /\ c.sweep.level = l1 =>
       /\ n.rec = Touch(m.rec, la, c.sweep.geos)
       /\ n.sw_hit = [g \in DOMAIN m.sw_hit |-> m.sw_hit[g] + IF SweepHit(m.rec, la, g) THEN 1 ELSE 0]
  /\ c.sweep.level # l1 => n.rec = m.rec /\ n.sw_hit = m.sw_hit

Looks(c, m, n, l1, la, write) ==
  /\ \A l \in {"l1i", "l1d"} \ {l1} : n[l] = m[l] /\ n.hits[l] = m.hits[l]
  /\ enabled(m[l1]) => \E r :
       /\ r = access(m[l1], c[l1].ways, la, write, FALSE, TRUE)
       /\ n[l1] = r.c /\ n.hits[l1] = m.hits[l1] + IF r.hit THEN 1 ELSE 0

LEMMA LineApart ==
  ASSUME NEW c, Quiet(c), NEW m, Sound(m), NEW la, NEW store, NEW ifetch \in BOOLEAN,
         NEW l1 \in {"l1i", "l1d"}, l1 = L1Of(ifetch), NEW write, write = (store /\ ~ifetch),
         NEW n, n = access_line(c, m, la, store, ifetch).m
  PROVE  Sound(n) /\ Listened(c, m, n, l1, la) /\ Looks(c, m, n, l1, la, write)
<1>1. PICK m1 : m1 = sweep_on(c, m, l1, la, TRUE)
  OBVIOUS
<1>2. /\ Sound(m1) /\ Listened(c, m, m1, l1, la)
      /\ m1.l1i = m.l1i /\ m1.l1d = m.l1d /\ m1.hits = m.hits
  <2>1. CASE c.sweep.level = l1
    <3>1. PICK x, y : /\ x = Touch(m.rec, la, c.sweep.geos)
                      /\ y = [g \in DOMAIN m.sw_hit |-> m.sw_hit[g] + IF SweepHit(m.rec, la, g) THEN 1 ELSE 0]
      OBVIOUS
    <3>2. m1 = [m EXCEPT !.rec = x, !.sw_hit = y]
      BY <1>1, <2>1, <3>1 DEF sweep_on, Swept
    <3>3. /\ Shaped(m1) /\ m1.rec = x /\ m1.sw_hit = y
          /\ m1.l1i = m.l1i /\ m1.l1d = m.l1d /\ m1.hits = m.hits
      BY <3>2 DEF Sound, Shaped, Fields
    <3> QED BY <2>1, <3>1, <3>3 DEF Listened, Sound
  <2>2. CASE c.sweep.level # l1
    BY <1>1, <2>2 DEF sweep_on, Listened
  <2> QED BY <2>1, <2>2
<1>3. PICK r : r = IF enabled(m1[l1]) THEN access(m1[l1], c[l1].ways, la, write, FALSE, TRUE)
                   ELSE [c |-> m1[l1], hit |-> FALSE, out |-> {}, used |-> FALSE]
  OBVIOUS
<1>4. n = InL1(c, m1, l1, la, r).m
  BY <1>1, <1>3 DEF access_line, AccessL1
<1>5. PICK p : p = [m1 EXCEPT ![l1] = r.c]
  OBVIOUS
<1>6. /\ Sound(p) /\ p.rec = m1.rec /\ p.sw_hit = m1.sw_hit /\ p.hits = m1.hits
      /\ p[l1] = r.c /\ \A l \in {"l1i", "l1d"} \ {l1} : p[l] = m1[l]
  BY <1>2, <1>5 DEF Sound, Shaped, Fields
<1>7. CASE r.hit
  <2>1. n = Counted(p, l1, TRUE)
    BY <1>4, <1>5, <1>7 DEF InL1
  <2>2. PICK h : h = [p.hits EXCEPT ![l1] = @ + 1]
    OBVIOUS
  <2>3. n = [p EXCEPT !.hits = h]
    BY <2>1, <2>2 DEF Counted
  <2>4. h \in [Levels -> Nat] /\ h[l1] = p.hits[l1] + 1 /\ \A l \in Levels \ {l1} : h[l] = p.hits[l]
    BY <1>6, <2>2 DEF Sound, Levels
  <2>5. /\ Shaped(n) /\ n.rec = p.rec /\ n.sw_hit = p.sw_hit /\ n.hits = h
        /\ n.l1i = p.l1i /\ n.l1d = p.l1d
    BY <1>6, <2>3 DEF Sound, Shaped, Fields
  <2>6. Sound(n)
    BY <2>4, <2>5 DEF Sound
  <2>7. Listened(c, m, n, l1, la)
    BY <1>2, <1>6, <2>5 DEF Listened
  <2>8. \A l \in {"l1i", "l1d"} \ {l1} : n[l] = m[l] /\ n.hits[l] = m.hits[l]
    BY <1>2, <1>6, <2>4, <2>5 DEF Levels
  <2>9. n[l1] = r.c /\ n.hits[l1] = m.hits[l1] + 1
    BY <1>2, <1>6, <2>4, <2>5
  <2>10. enabled(m[l1]) => r = access(m[l1], c[l1].ways, la, write, FALSE, TRUE)
    BY <1>2, <1>3
  <2> QED BY <1>7, <2>6, <2>7, <2>8, <2>9, <2>10 DEF Looks
<1>8. CASE ~r.hit
  <2>1. PICK q : q = MissL1(c, p, la).m
    OBVIOUS
  <2>2. n = L1Victim(c, q, r.out)
    BY <1>4, <1>5, <1>8, <2>1 DEF InL1, MissL1, MissL2, InL2, Refilled
  <2>3. Aside(p, q)
    BY <1>6, <2>1, MissAside
  <2>4. Aside(q, n)
    <3>1. Sound(q)
      BY <2>3 DEF Aside
    <3>2. CASE \E x \in r.out : x.dirty
      <4>1. PICK v, yes, no : v = (CHOOSE x \in r.out : TRUE).la /\ yes = TRUE /\ no = FALSE
        OBVIOUS
      <4>2. n = l2_insert(c, q, v, yes, no)
        BY <2>2, <3>2, <4>1 DEF L1Victim
      <4> QED BY <3>1, <4>2, InsertAside
    <3>3. CASE ~\E x \in r.out : x.dirty
      <4>1. n = q
        BY <2>2, <3>3 DEF L1Victim
      <4> QED BY <3>1, <4>1 DEF Aside, Untouched, Sound
    <3> QED BY <3>2, <3>3
  <2>5. Aside(p, n)
    BY <2>3, <2>4, AsideOn
  <2>6. /\ Sound(n) /\ n.rec = p.rec /\ n.sw_hit = p.sw_hit /\ n.l1i = p.l1i /\ n.l1d = p.l1d
        /\ n.hits["l1i"] = p.hits["l1i"] /\ n.hits["l1d"] = p.hits["l1d"]
    BY <2>5 DEF Aside, Untouched
  <2>7. Listened(c, m, n, l1, la)
    BY <1>2, <1>6, <2>6 DEF Listened
  <2>8. \A l \in {"l1i", "l1d"} \ {l1} : n[l] = m[l] /\ n.hits[l] = m.hits[l]
    BY <1>2, <1>6, <2>6
  <2>9. n[l1] = r.c /\ n.hits[l1] = m.hits[l1]
    BY <1>2, <1>6, <2>6
  <2>10. enabled(m[l1]) => r = access(m[l1], c[l1].ways, la, write, FALSE, TRUE)
    BY <1>2, <1>3
  <2>11. m.hits[l1] \in Nat
    BY DEF Sound, Levels
  <2>12. m.hits[l1] + 0 = m.hits[l1]
    BY <2>11
  <2> QED BY <1>8, <2>6, <2>7, <2>8, <2>9, <2>10, <2>12 DEF Looks
<1> QED BY <1>7, <1>8
----------------------------------------------------------------------------
(* The simulator with the sweep beside that of one variant.                *)

\* A cache that has sets is on.
LEMMA BuiltOn ==
  ASSUME NEW g, g.sets \in Nat \ {0}, NEW c, BuiltAs(c, g)
  PROVE  enabled(c)
<1>1. PICK n \in Nat \ {0} : n = g.sets
  OBVIOUS
<1>2. 0 \in 0..n-1
  BY <1>1
<1>3. DOMAIN c = 0..n-1
  BY <1>1 DEF BuiltAs
<1> QED BY <1>2, <1>3 DEF enabled

Followed(rec, la, g, new, r) ==
  Ranked(new) /\ BuiltAs(r.c, g) /\ Follows(new, r.c, g) /\ r.hit = SweepHit(rec, la, g)

LEMMA FollowsTouch ==
  ASSUME NEW geos, Sweepable(geos), NEW g \in geos, NEW c, BuiltAs(c, g),
         NEW rec, Ranked(rec), Follows(rec, c, g), NEW la \in Nat, NEW new, new = Touch(rec, la, geos),
         NEW write \in BOOLEAN, NEW pre \in BOOLEAN, NEW demand \in BOOLEAN,
         NEW r, r = access(c, g.ways, la, write, pre, demand)
  PROVE  Followed(rec, la, g, new, r)
<1>1. PICK x : \A h \in geos : Moves(rec, la, x, new, h)
  BY TouchMoves
<1>2. Moves(rec, la, x, new, g)
  BY <1>1
<1>3. Ranked(new)
  BY <1>2 DEF Moves, Swaps
<1>4. g.sets \in Nat \ {0}
  BY FineSets
<1>5. Follows(new, r.c, g) /\ r.hit = SweepHit(rec, la, g)
  BY <1>2, <1>4, FollowsOn
<1>6. enabled(c)
  BY <1>4, BuiltOn
<1>7. Accessed(c, g, la, write, pre, demand, r)
  BY <1>6, AccessIs
<1> QED BY <1>3, <1>5, <1>7 DEF Followed, Accessed

\* e is c with the variant g in place of the level that is swept.
Varies(c, g, e) ==
  /\ ConfigOK(c) /\ ConfigOK(e) /\ g \in c.sweep.geos /\ Sweepable(c.sweep.geos)
  /\ c.sweep.level \in Levels /\ e.sweep.level = "none" /\ ~c.inclusive /\ ~e.inclusive
  /\ e[c.sweep.level] = g /\ \A l \in Levels \ {c.sweep.level} : e[l] = c[l]
  /\ c.sweep.level = "l2" => c.pf.entries = 0 /\ e.pf.entries = 0

\* The variant's own cache follows the list and its hits are the sweep's; what
\* feeds an L2 that is swept is the same in both.
Fits(c, g, m, o) ==
  /\ Sound(m) /\ Sound(o) /\ Ranked(m.rec) /\ m.sw_hit \in [c.sweep.geos -> Nat]
  /\ BuiltAs(o[c.sweep.level], g) /\ Follows(m.rec, o[c.sweep.level], g)
  /\ m.sw_hit[g] = o.hits[c.sweep.level]
  /\ c.sweep.level = "l2" =>
       /\ enabled(m.l2) /\ m.l1i = o.l1i /\ m.l1d = o.l1d
       /\ BuiltAs(m.l1i, c.l1i) /\ BuiltAs(m.l1d, c.l1d)

\* One line of an access, when an L1 is swept.
LEMMA LineFitsL1 ==
  ASSUME NEW c, NEW g, NEW e, Varies(c, g, e), c.sweep.level # "l2", NEW m, NEW o, Fits(c, g, m, o),
         NEW la \in Nat, NEW store \in BOOLEAN, NEW ifetch \in BOOLEAN,
         NEW m2, m2 = access_line(c, m, la, store, ifetch).m,
         NEW o2, o2 = access_line(e, o, la, store, ifetch).m
  PROVE  Fits(c, g, m2, o2)
<1>1. PICK l1 \in {"l1i", "l1d"} : l1 = L1Of(ifetch)
  BY DEF L1Of
<1>2. PICK write \in BOOLEAN : write = (store /\ ~ifetch)
  OBVIOUS
<1>3. PICK lv \in {"l1i", "l1d"} : lv = c.sweep.level
  BY DEF Varies, Levels
<1>4. Sound(m2) /\ Listened(c, m, m2, l1, la)
  BY <1>1, <1>2, LineApart DEF Varies, Quiet, Fits
<1>5. Sound(o2) /\ Looks(e, o, o2, l1, la, write)
  BY <1>1, <1>2, LineApart DEF Varies, Quiet, Fits
<1>6. /\ Sound(m) /\ Sound(o) /\ Ranked(m.rec) /\ m.sw_hit \in [c.sweep.geos -> Nat]
      /\ BuiltAs(o[lv], g) /\ Follows(m.rec, o[lv], g) /\ m.sw_hit[g] = o.hits[lv]
  BY <1>3 DEF Fits
<1>7. g \in c.sweep.geos /\ Sweepable(c.sweep.geos) /\ e[lv] = g
  BY <1>3 DEF Varies
<1>8. CASE lv = l1
  <2>1. PICK geos : geos = c.sweep.geos
    OBVIOUS
  <2>2. /\ m2.rec = Touch(m.rec, la, geos)
        /\ m2.sw_hit = [h \in DOMAIN m.sw_hit |-> m.sw_hit[h] + IF SweepHit(m.rec, la, h) THEN 1 ELSE 0]
    BY <1>3, <1>4, <1>8, <2>1 DEF Listened
  <2>3. enabled(o[lv])
    <3>1. g.sets \in Nat \ {0}
      BY <1>7, FineSets
    <3> QED BY <1>6, <3>1, BuiltOn
  <2>4. PICK no \in BOOLEAN, yes \in BOOLEAN : no = FALSE /\ yes = TRUE
    OBVIOUS
  <2>5. PICK r : r = access(o[lv], g.ways, la, write, no, yes) /\ o2[lv] = r.c
                 /\ o2.hits[lv] = o.hits[lv] + IF r.hit THEN 1 ELSE 0
    BY <1>5, <1>7, <1>8, <2>3, <2>4 DEF Looks
  <2>6. PICK k, rec, new : k = o[lv] /\ rec = m.rec /\ new = m2.rec
    OBVIOUS
  <2>7. Followed(rec, la, g, new, r)
    <3>1. Sweepable(geos) /\ g \in geos
      BY <1>7, <2>1
    <3>2. BuiltAs(k, g) /\ Ranked(rec) /\ Follows(rec, k, g)
      BY <1>6, <2>6
    <3>3. new = Touch(rec, la, geos) /\ r = access(k, g.ways, la, write, no, yes)
      BY <2>2, <2>5, <2>6
    <3> QED BY <3>1, <3>2, <3>3, FollowsTouch
  <2>8. Ranked(m2.rec) /\ BuiltAs(o2[lv], g) /\ Follows(m2.rec, o2[lv], g) /\ r.hit = SweepHit(m.rec, la, g)
    BY <2>5, <2>6, <2>7 DEF Followed
  <2>9. m2.sw_hit \in [geos -> Nat] /\ m2.sw_hit[g] = m.sw_hit[g] + IF SweepHit(m.rec, la, g) THEN 1 ELSE 0
    BY <1>6, <1>7, <2>1, <2>2
  <2>10. m2.sw_hit[g] = o2.hits[lv]
    BY <1>6, <2>5, <2>8, <2>9
  <2> QED BY <1>3, <1>4, <1>5, <2>1, <2>8, <2>9, <2>10 DEF Fits
<1>9. CASE lv # l1
  <2>1. m2.rec = m.rec /\ m2.sw_hit = m.sw_hit
    BY <1>3, <1>4, <1>9 DEF Listened
  <2>2. o2[lv] = o[lv] /\ o2.hits[lv] = o.hits[lv]
    BY <1>5, <1>9 DEF Looks
  <2> QED BY <1>3, <1>4, <1>5, <1>6, <2>1, <2>2 DEF Fits
<1> QED BY <1>8, <1>9

\* What is behind the L2 is of no concern.
LEMMA FitsUpper ==
  ASSUME NEW c, NEW g, NEW m, NEW o, Fits(c, g, m, o), c.sweep.level \in Levels,
         NEW m2, Untouched(m, m2, Upper), NEW o2, Untouched(o, o2, Upper)
  PROVE  Fits(c, g, m2, o2)
<1>1. PICK lv \in Levels : lv = c.sweep.level
  OBVIOUS
<1>2. /\ Shaped(m2) /\ m2.l1i = m.l1i /\ m2.l1d = m.l1d /\ m2.l2 = m.l2
      /\ m2.rec = m.rec /\ m2.hits = m.hits /\ m2.sw_hit = m.sw_hit
  BY DEF Untouched, Upper
<1>3. /\ Shaped(o2) /\ o2.l1i = o.l1i /\ o2.l1d = o.l1d /\ o2[lv] = o[lv] /\ o2.hits = o.hits
  BY DEF Untouched, Upper, Levels
<1> QED BY <1>1, <1>2, <1>3 DEF Fits, Sound

\* The sweep of the L2 after the line la has come to it, b: the variant has hit
\* and has not yet counted it.
Owing(c, g, m, o, b) ==
  /\ Sound(m) /\ Sound(o) /\ Ranked(m.rec) /\ m.sw_hit \in [c.sweep.geos -> Nat]
  /\ BuiltAs(o.l2, g) /\ Follows(m.rec, o.l2, g)
  /\ m.sw_hit[g] = o.hits["l2"] + IF b THEN 1 ELSE 0
  /\ enabled(m.l2) /\ m.l1i = o.l1i /\ m.l1d = o.l1d
  /\ BuiltAs(m.l1i, c.l1i) /\ BuiltAs(m.l1d, c.l1d)

LEMMA L2Fed ==
  ASSUME NEW c, NEW g, NEW e, Varies(c, g, e), c.sweep.level = "l2", NEW m, NEW o, Fits(c, g, m, o),
         NEW la \in Nat, NEW write \in BOOLEAN, NEW pre \in BOOLEAN, NEW demand \in BOOLEAN,
         NEW r, r = access(m.l2, c.l2.ways, la, write, pre, demand),
         NEW s, s = access(o.l2, e.l2.ways, la, write, pre, demand),
         NEW p, p = [m EXCEPT !.l2 = r.c], NEW q, q = [o EXCEPT !.l2 = s.c],
         NEW m2, m2 = sweep_on(c, p, "l2", la, demand),
         NEW o2, o2 = sweep_on(e, q, "l2", la, demand), NEW b, b = (demand /\ s.hit)
  PROVE  Owing(c, g, m2, o2, b)
<1>1. /\ Sound(m) /\ Sound(o) /\ Ranked(m.rec) /\ m.sw_hit \in [c.sweep.geos -> Nat]
      /\ BuiltAs(o.l2, g) /\ Follows(m.rec, o.l2, g) /\ m.sw_hit[g] = o.hits["l2"]
      /\ enabled(m.l2) /\ m.l1i = o.l1i /\ m.l1d = o.l1d
      /\ BuiltAs(m.l1i, c.l1i) /\ BuiltAs(m.l1d, c.l1d)
  BY DEF Fits
<1>2. g \in c.sweep.geos /\ Sweepable(c.sweep.geos) /\ e.l2 = g /\ e.sweep.level # "l2"
  BY DEF Varies
<1>3. PICK geos : geos = c.sweep.geos
  OBVIOUS
<1>4. PICK x, y : /\ x = Touch(m.rec, la, geos)
                  /\ y = [h \in DOMAIN m.sw_hit |->
                            m.sw_hit[h] + IF demand /\ SweepHit(m.rec, la, h) THEN 1 ELSE 0]
  OBVIOUS
<1>5. /\ Shaped(p) /\ p.rec = m.rec /\ p.sw_hit = m.sw_hit /\ p.hits = m.hits
      /\ p.l1i = m.l1i /\ p.l1d = m.l1d /\ p.l2 = r.c
  BY <1>1 DEF Sound, Shaped, Fields
<1>6. m2 = [p EXCEPT !.rec = x, !.sw_hit = y]
  BY <1>3, <1>4, <1>5 DEF sweep_on, Swept
<1>7. /\ Shaped(m2) /\ m2.rec = x /\ m2.sw_hit = y /\ m2.hits = m.hits
      /\ m2.l1i = m.l1i /\ m2.l1d = m.l1d /\ m2.l2 = r.c
  BY <1>5, <1>6 DEF Shaped, Fields
<1>8. o2 = [o EXCEPT !.l2 = s.c]
  BY <1>2 DEF sweep_on
<1>9. /\ Shaped(o2) /\ o2.l2 = s.c /\ o2.hits = o.hits /\ o2.l1i = o.l1i /\ o2.l1d = o.l1d
  BY <1>1, <1>8 DEF Sound, Shaped, Fields
<1>10. PICK k, rec, w : k = o.l2 /\ rec = m.rec /\ w = g.ways
  OBVIOUS
<1>11. Followed(rec, la, g, x, s)
  <2>1. Sweepable(geos) /\ g \in geos
    BY <1>2, <1>3
  <2>2. BuiltAs(k, g) /\ Ranked(rec) /\ Follows(rec, k, g)
    BY <1>1, <1>10
  <2>3. x = Touch(rec, la, geos) /\ s = access(k, g.ways, la, write, pre, demand)
    BY <1>2, <1>4, <1>10
  <2> QED BY <2>1, <2>2, <2>3, FollowsTouch
<1>12. Ranked(x) /\ BuiltAs(s.c, g) /\ Follows(x, s.c, g) /\ s.hit = SweepHit(m.rec, la, g)
  BY <1>10, <1>11 DEF Followed
<1>13. y \in [geos -> Nat] /\ y[g] = m.sw_hit[g] + IF demand /\ SweepHit(m.rec, la, g) THEN 1 ELSE 0
  BY <1>1, <1>2, <1>3, <1>4
<1>14. enabled(r.c)
  <2>1. DOMAIN r.c = DOMAIN m.l2
    BY DEF access
  <2> QED BY <1>1, <2>1 DEF enabled
<1>15. y[g] = o.hits["l2"] + IF b THEN 1 ELSE 0
  BY <1>1, <1>12, <1>13
<1> QED BY <1>1, <1>3, <1>7, <1>9, <1>12, <1>13, <1>14, <1>15 DEF Owing, Sound

LEMMA InsertFits ==
  ASSUME NEW c, NEW g, NEW e, Varies(c, g, e), c.sweep.level = "l2", NEW m, NEW o, Fits(c, g, m, o),
         NEW la \in Nat, NEW dirty \in BOOLEAN, NEW pre \in BOOLEAN,
         NEW m2, m2 = l2_insert(c, m, la, dirty, pre),
         NEW o2, o2 = l2_insert(e, o, la, dirty, pre)
  PROVE  Fits(c, g, m2, o2)
<1>1. enabled(m.l2) /\ enabled(o.l2)
  <2>1. g.sets \in Nat \ {0}
    BY FineSets DEF Varies
  <2>2. BuiltAs(o.l2, g)
    BY DEF Fits
  <2> QED BY <2>1, <2>2, BuiltOn DEF Fits
<1>2. PICK no \in BOOLEAN : no = FALSE
  OBVIOUS
<1>3. PICK r, s : /\ r = access(m.l2, c.l2.ways, la, dirty, pre, no)
                  /\ s = access(o.l2, e.l2.ways, la, dirty, pre, no)
  OBVIOUS
<1>4. PICK x, y : x = [m EXCEPT !.l2 = r.c] /\ y = [o EXCEPT !.l2 = s.c]
  OBVIOUS
<1>5. PICK p, q : p = sweep_on(c, x, "l2", la, no) /\ q = sweep_on(e, y, "l2", la, no)
  OBVIOUS
<1>6. PICK b : b = (no /\ s.hit)
  OBVIOUS
<1>7. m2 = l2_evict(c, p, r.out) /\ o2 = l2_evict(e, q, s.out)
  BY <1>1, <1>2, <1>3, <1>4, <1>5 DEF l2_insert
<1>8. Owing(c, g, p, q, b)
  BY <1>3, <1>4, <1>5, <1>6, L2Fed
<1>9. /\ Sound(p) /\ Sound(q) /\ Ranked(p.rec) /\ p.sw_hit \in [c.sweep.geos -> Nat]
      /\ BuiltAs(q.l2, g) /\ Follows(p.rec, q.l2, g)
      /\ p.sw_hit[g] = q.hits["l2"] + IF b THEN 1 ELSE 0
      /\ enabled(p.l2) /\ p.l1i = q.l1i /\ p.l1d = q.l1d
      /\ BuiltAs(p.l1i, c.l1i) /\ BuiltAs(p.l1d, c.l1d)
  BY <1>8 DEF Owing
<1>10. p.sw_hit[g] = q.hits["l2"]
  <2>1. q.hits["l2"] \in Nat
    BY <1>9 DEF Sound, Levels
  <2>2. p.sw_hit[g] = q.hits["l2"] + 0
    BY <1>2, <1>9, <1>6
  <2> QED BY <2>1, <2>2
<1>11. Fits(c, g, p, q)
  BY <1>9, <1>10 DEF Fits
<1>12. Untouched(p, m2, Upper) /\ Untouched(q, o2, Upper)
  <2>1. Shaped(p) /\ Shaped(q) /\ ~c.inclusive /\ ~e.inclusive
    BY <1>9 DEF Sound, Varies
  <2> QED BY <1>7, <2>1, GivenUpKeeps
<1> QED BY <1>11, <1>12, FitsUpper DEF Varies

Counts(m, n, hit) ==
  /\ n.l1i = m.l1i /\ n.l1d = m.l1d /\ n.l2 = m.l2 /\ n.rec = m.rec /\ n.sw_hit = m.sw_hit
  /\ n.hits["l2"] = m.hits["l2"] + IF hit THEN 1 ELSE 0

LEMMA CountedIs ==
  ASSUME NEW m, Sound(m), NEW hit, NEW n, n = Counted(m, "l2", hit)
  PROVE  Sound(n) /\ Counts(m, n, hit)
<1>1. m.hits \in [Levels -> Nat] /\ Shaped(m)
  BY DEF Sound
<1>2. CASE hit
  <2>1. PICK h : h = [m.hits EXCEPT !["l2"] = @ + 1]
    OBVIOUS
  <2>2. n = [m EXCEPT !.hits = h]
    BY <1>2, <2>1 DEF Counted
  <2>3. h \in [Levels -> Nat] /\ h["l2"] = m.hits["l2"] + 1
    BY <1>1, <2>1 DEF Levels
  <2> QED BY <1>1, <1>2, <2>2, <2>3 DEF Sound, Shaped, Fields, Counts
<1>3. CASE ~hit
  <2>1. n = m
    BY <1>3 DEF Counted
  <2>2. m.hits["l2"] \in Nat
    BY <1>1 DEF Levels
  <2>3. m.hits["l2"] + 0 = m.hits["l2"]
    BY <2>2
  <2> QED BY <1>3, <2>1, <2>3 DEF Counts
<1> QED BY <1>2, <1>3

LEMMA MissFits ==
  ASSUME NEW c, NEW g, NEW e, Varies(c, g, e), c.sweep.level = "l2", NEW m, NEW o, Fits(c, g, m, o),
         NEW la \in Nat, NEW m2, m2 = MissL1(c, m, la).m, NEW o2, o2 = MissL1(e, o, la).m
  PROVE  Fits(c, g, m2, o2)
<1>1. enabled(m.l2) /\ enabled(o.l2)
  <2>1. g.sets \in Nat \ {0}
    BY FineSets DEF Varies
  <2>2. BuiltAs(o.l2, g)
    BY DEF Fits
  <2> QED BY <2>1, <2>2, BuiltOn DEF Fits
<1>2. PICK no \in BOOLEAN, yes \in BOOLEAN : no = FALSE /\ yes = TRUE
  OBVIOUS
<1>3. PICK r, s : /\ r = access(m.l2, c.l2.ways, la, no, no, yes)
                  /\ s = access(o.l2, e.l2.ways, la, no, no, yes)
  OBVIOUS
<1>4. PICK x, y : x = [m EXCEPT !.l2 = r.c] /\ y = [o EXCEPT !.l2 = s.c]
  OBVIOUS
<1>5. PICK p, q : p = sweep_on(c, x, "l2", la, yes) /\ q = sweep_on(e, y, "l2", la, yes)
  OBVIOUS
<1>6. PICK b : b = (yes /\ s.hit)
  OBVIOUS
<1>7. m2 = InL2(c, p, la, r).m /\ o2 = InL2(e, q, la, s).m
  BY <1>1, <1>2, <1>3, <1>4, <1>5 DEF MissL1
<1>8. Owing(c, g, p, q, b)
  BY <1>3, <1>4, <1>5, <1>6, L2Fed
<1>9. /\ Sound(p) /\ Sound(q) /\ Ranked(p.rec) /\ p.sw_hit \in [c.sweep.geos -> Nat]
      /\ BuiltAs(q.l2, g) /\ Follows(p.rec, q.l2, g)
      /\ p.sw_hit[g] = q.hits["l2"] + IF b THEN 1 ELSE 0
      /\ enabled(p.l2) /\ p.l1i = q.l1i /\ p.l1d = q.l1d
      /\ BuiltAs(p.l1i, c.l1i) /\ BuiltAs(p.l1d, c.l1d)
  BY <1>8 DEF Owing
<1>10. PICK p2, q2 : p2 = Counted(p, "l2", r.hit) /\ q2 = Counted(q, "l2", s.hit)
  OBVIOUS
<1>11. Sound(p2) /\ Counts(p, p2, r.hit) /\ Sound(q2) /\ Counts(q, q2, s.hit)
  <2>1. Sound(p) /\ Sound(q)
    BY <1>9
  <2>2. PICK i, j : i = r.hit /\ j = s.hit
    OBVIOUS
  <2>3. p2 = Counted(p, "l2", i) /\ q2 = Counted(q, "l2", j)
    BY <1>10, <2>2
  <2> QED BY <2>1, <2>2, <2>3, CountedIs
<1>12. /\ p2.rec = p.rec /\ p2.sw_hit = p.sw_hit
       /\ p2.l1i = p.l1i /\ p2.l1d = p.l1d /\ p2.l2 = p.l2
       /\ q2.l1i = q.l1i /\ q2.l1d = q.l1d /\ q2.l2 = q.l2
       /\ q2.hits["l2"] = q.hits["l2"] + IF s.hit THEN 1 ELSE 0
  BY <1>11 DEF Counts
<1>13. p2.sw_hit[g] = q2.hits["l2"]
  <2>1. p.sw_hit[g] = q.hits["l2"] + IF s.hit THEN 1 ELSE 0
    BY <1>2, <1>9, <1>6
  <2> QED BY <1>12, <2>1
<1>14. Fits(c, g, p2, q2)
  BY <1>9, <1>11, <1>12, <1>13 DEF Fits
<1>15. Untouched(p2, m2, Upper) /\ Untouched(q2, o2, Upper)
  <2>1. Shaped(p) /\ Shaped(q) /\ ~c.inclusive /\ ~e.inclusive
    BY <1>9 DEF Sound, Varies
  <2> QED BY <1>7, <1>10, <2>1, AnswerKeeps
<1> QED BY <1>14, <1>15, FitsUpper DEF Varies

\* One line of an access, when the L2 is swept.
LEMMA LineFitsL2 ==
  ASSUME NEW c, NEW g, NEW e, Varies(c, g, e), c.sweep.level = "l2", NEW m, NEW o, Fits(c, g, m, o),
         NEW la \in Nat, NEW store \in BOOLEAN, NEW ifetch \in BOOLEAN,
         NEW m2, m2 = access_line(c, m, la, store, ifetch).m,
         NEW o2, o2 = access_line(e, o, la, store, ifetch).m
  PROVE  Fits(c, g, m2, o2)
<1>1. PICK l1 \in {"l1i", "l1d"} : l1 = L1Of(ifetch)
  BY DEF L1Of
<1>2. PICK write \in BOOLEAN, no \in BOOLEAN, yes \in BOOLEAN :
        write = (store /\ ~ifetch) /\ no = FALSE /\ yes = TRUE
  OBVIOUS
<1>3. /\ Sound(m) /\ Sound(o) /\ Ranked(m.rec) /\ m.sw_hit \in [c.sweep.geos -> Nat]
      /\ BuiltAs(o.l2, g) /\ Follows(m.rec, o.l2, g) /\ m.sw_hit[g] = o.hits["l2"]
      /\ enabled(m.l2) /\ m.l1i = o.l1i /\ m.l1d = o.l1d
      /\ BuiltAs(m.l1i, c.l1i) /\ BuiltAs(m.l1d, c.l1d)
  BY DEF Fits
<1>4. PICK k, h : /\ k = m[l1] /\ k = o[l1] /\ h = c[l1] /\ h = e[l1] /\ BuiltAs(k, h)
  BY <1>3 DEF Varies, Levels
<1>5. PICK r : r = IF enabled(k) THEN access(k, h.ways, la, write, no, yes)
                   ELSE [c |-> k, hit |-> FALSE, out |-> {}, used |-> FALSE]
  OBVIOUS
<1>6. m2 = InL1(c, m, l1, la, r).m /\ o2 = InL1(e, o, l1, la, r).m
  BY <1>1, <1>2, <1>4, <1>5 DEF access_line, AccessL1, sweep_on, Varies
<1>7. BuiltAs(r.c, h) /\ (r.out = {} \/ \E v \in Line : r.out = {v})
  <2>1. CASE enabled(k)
    <3>1. r = access(k, h.ways, la, write, no, yes)
      BY <1>5, <2>1
    <3>2. Accessed(k, h, la, write, no, yes, r)
      BY <1>4, <2>1, <3>1, AccessIs
    <3> QED BY <3>2 DEF Accessed
  <2>2. CASE ~enabled(k)
    BY <1>4, <1>5, <2>2
  <2> QED BY <2>1, <2>2
<1>8. PICK x : x = r.c
  OBVIOUS
<1>9. PICK p, q : p = [m EXCEPT ![l1] = x] /\ q = [o EXCEPT ![l1] = x]
  OBVIOUS
<1>10. /\ Sound(p) /\ p.rec = m.rec /\ p.sw_hit = m.sw_hit /\ p.hits = m.hits /\ p.l2 = m.l2
       /\ p[l1] = x /\ \A l \in {"l1i", "l1d"} \ {l1} : p[l] = m[l]
  BY <1>3, <1>9 DEF Sound, Shaped, Fields
<1>11. /\ Sound(q) /\ q.hits = o.hits /\ q.l2 = o.l2
       /\ q[l1] = x /\ \A l \in {"l1i", "l1d"} \ {l1} : q[l] = o[l]
  BY <1>3, <1>9 DEF Sound, Shaped, Fields
<1>12. /\ p.l1i = q.l1i /\ p.l1d = q.l1d
       /\ BuiltAs(p.l1i, c.l1i) /\ BuiltAs(p.l1d, c.l1d)
  BY <1>3, <1>4, <1>7, <1>8, <1>10, <1>11
<1>13. Fits(c, g, p, q)
  BY <1>3, <1>10, <1>11, <1>12 DEF Fits
<1>14. CASE r.hit
  <2>1. m2 = Counted(p, l1, TRUE) /\ o2 = Counted(q, l1, TRUE)
    BY <1>6, <1>8, <1>9, <1>14 DEF InL1
  <2>2. PICK i, j : i = [p.hits EXCEPT ![l1] = @ + 1] /\ j = [q.hits EXCEPT ![l1] = @ + 1]
    OBVIOUS
  <2>3. m2 = [p EXCEPT !.hits = i] /\ o2 = [q EXCEPT !.hits = j]
    BY <2>1, <2>2 DEF Counted
  <2>4. i \in [Levels -> Nat]
    BY <1>10, <2>2 DEF Sound, Levels
  <2>5. j \in [Levels -> Nat] /\ j["l2"] = q.hits["l2"]
    BY <1>11, <2>2 DEF Sound, Levels
  <2>6. /\ Shaped(m2) /\ m2.hits = i /\ m2.rec = p.rec /\ m2.sw_hit = p.sw_hit
        /\ m2.l1i = p.l1i /\ m2.l1d = p.l1d /\ m2.l2 = p.l2
    BY <1>10, <2>3 DEF Sound, Shaped, Fields
  <2>7. /\ Shaped(o2) /\ o2.hits = j /\ o2.l1i = q.l1i /\ o2.l1d = q.l1d /\ o2.l2 = q.l2
    BY <1>11, <2>3 DEF Sound, Shaped, Fields
  <2>8. Sound(m2) /\ Sound(o2)
    BY <2>4, <2>5, <2>6, <2>7 DEF Sound
  <2> QED BY <1>3, <1>10, <1>11, <1>12, <2>5, <2>6, <2>7, <2>8 DEF Fits
<1>15. CASE ~r.hit
  <2>1. PICK p2, q2 : p2 = MissL1(c, p, la).m /\ q2 = MissL1(e, q, la).m
    OBVIOUS
  <2>2. m2 = L1Victim(c, p2, r.out)
    BY <1>6, <1>8, <1>9, <1>15, <2>1 DEF InL1, MissL1, MissL2, InL2, Refilled
  <2>3. o2 = L1Victim(e, q2, r.out)
    BY <1>6, <1>8, <1>9, <1>15, <2>1 DEF InL1, MissL1, MissL2, InL2, Refilled
  <2>4. Fits(c, g, p2, q2)
    BY <1>13, <2>1, MissFits
  <2>5. CASE \E y \in r.out : y.dirty
    <3>1. PICK v : v = (CHOOSE y \in r.out : TRUE).la
      OBVIOUS
    <3>2. v \in Nat
      BY <1>7, <2>5, <3>1 DEF Line
    <3>3. m2 = l2_insert(c, p2, v, yes, no) /\ o2 = l2_insert(e, q2, v, yes, no)
      BY <1>2, <2>2, <2>3, <2>5, <3>1 DEF L1Victim
    <3> QED BY <2>4, <3>2, <3>3, InsertFits
  <2>6. CASE ~\E y \in r.out : y.dirty
    BY <2>2, <2>3, <2>4, <2>6 DEF L1Victim
  <2> QED BY <2>5, <2>6
<1> QED BY <1>14, <1>15

LEMMA LineFits ==
  ASSUME NEW c, NEW g, NEW e, Varies(c, g, e), NEW m, NEW o, Fits(c, g, m, o),
         NEW la \in Nat, NEW store \in BOOLEAN, NEW ifetch \in BOOLEAN,
         NEW m2, m2 = access_line(c, m, la, store, ifetch).m,
         NEW o2, o2 = access_line(e, o, la, store, ifetch).m
  PROVE  Fits(c, g, m2, o2)
BY LineFitsL1, LineFitsL2

\* f: the rounds of the loop over the n lines from first on.
RoundsOf(c, m, a, first, n, f) ==
  /\ f[0].m = m
  /\ \A j \in 1..n : f[j].m = access_line(c, f[j-1].m, first + j - 1, a.store, a.ifetch).m

LEMMA RoundsExist ==
  ASSUME NEW c, NEW m, NEW a, NEW first \in Nat, NEW n \in Nat, first = Lowest(a, line_size),
         n = Highest(a, line_size) - first + 1, NEW m2, m2 = Looked(c, m, a).m
  PROVE  \E f : RoundsOf(c, m, a, first, n, f) /\ m2 = f[n].m
<1>1. PICK l : l = [over |-> "lines", c |-> c, a |-> a, first |-> first]
  OBVIOUS
<1>2. PICK b : b = [level |-> -1, pf_hit |-> FALSE, m |-> m]
  OBVIOUS
<1>3. \A f : Loop(f, n, l, b) <=>
        f = [j \in 0..n |-> IF j = 0 THEN [level |-> -1, pf_hit |-> FALSE, m |-> m]
                            ELSE Look(c, f[j-1], first + j - 1, a)]
  BY <1>1, <1>2 DEF Loop, Advance
<1>4. PICK f : Loop(f, n, l, b) /\ Looked(c, m, a) = f[n]
  <2> DEFINE P(f) == f = [j \in 0..n |-> IF j = 0 THEN [level |-> -1, pf_hit |-> FALSE, m |-> m]
                                         ELSE Look(c, f[j-1], first + j - 1, a)]
  <2>1. \E f : P(f)
    BY <1>3, LoopExists
  <2>2. P(CHOOSE f : P(f))
    BY <2>1
  <2>3. Looked(c, m, a) = (CHOOSE f : P(f))[n]
    BY DEF Looked
  <2> QED BY <1>3, <2>2, <2>3
<1>5. f[0] = b /\ \A j \in 1..n : f[j] = Look(c, f[j-1], first + j - 1, a)
  <2>1. \A j \in 1..n : j \in 0..n /\ j # 0
    OBVIOUS
  <2>2. \A j, x : Advance(l, j, x) = Look(c, x, first + j - 1, a)
    BY <1>1 DEF Advance
  <2> QED BY <1>4, <2>1, <2>2 DEF Loop
<1>6. \A best, la : Look(c, best, la, a).m = access_line(c, best.m, la, a.store, a.ifetch).m
  BY DEF Look, Slower
<1>7. RoundsOf(c, m, a, first, n, f)
  <2>1. f[0].m = m
    BY <1>2, <1>5
  <2> QED BY <1>5, <1>6, <2>1 DEF RoundsOf
<1> QED BY <1>4, <1>7

\* All lines of an access.
LEMMA LookedFits ==
  ASSUME NEW c, NEW g, NEW e, Varies(c, g, e), NEW m, NEW o, Fits(c, g, m, o), NEW a \in Accesses,
         NEW m2, m2 = Looked(c, m, a).m, NEW o2, o2 = Looked(e, o, a).m
  PROVE  Fits(c, g, m2, o2)
<1>1. line_size \in Nat \ {0}
  BY CacheAssumption
<1>2. PICK first \in Nat, n \in Nat :
        first = Lowest(a, line_size) /\ n = Highest(a, line_size) - first + 1
  <2>1. /\ Lowest(a, line_size) \in Nat /\ Highest(a, line_size) \in Nat
        /\ Lowest(a, line_size) <= Highest(a, line_size)
    BY <1>1, Units
  <2>2. Highest(a, line_size) - Lowest(a, line_size) + 1 \in Nat
    BY <2>1
  <2> QED BY <2>1, <2>2
<1>3. PICK f : RoundsOf(c, m, a, first, n, f) /\ m2 = f[n].m
  BY <1>2, RoundsExist
<1>4. PICK h : RoundsOf(e, o, a, first, n, h) /\ o2 = h[n].m
  BY <1>2, RoundsExist
<1>5. PICK store \in BOOLEAN, ifetch \in BOOLEAN : store = a.store /\ ifetch = a.ifetch
  BY DEF Accesses
<1> DEFINE G == [j \in 0..n |-> Fits(c, g, f[j].m, h[j].m)]
<1>6. G[0]
  <2>1. Fits(c, g, f[0].m, h[0].m)
    BY <1>3, <1>4 DEF RoundsOf
  <2> QED BY <2>1
<1>7. ASSUME NEW j \in 1..n, G[j-1] PROVE G[j]
  <2>1. j - 1 \in 0..n /\ j \in 0..n /\ first + j - 1 \in Nat
    OBVIOUS
  <2>2. PICK la \in Nat : la = first + j - 1
    BY <2>1
  <2>3. PICK x, y, x2, y2 : x = f[j-1].m /\ y = h[j-1].m /\ x2 = f[j].m /\ y2 = h[j].m
    OBVIOUS
  <2>4. Fits(c, g, x, y)
    BY <1>7, <2>1, <2>3
  <2>5. x2 = access_line(c, x, la, store, ifetch).m
    BY <1>3, <1>5, <2>2, <2>3 DEF RoundsOf
  <2>6. y2 = access_line(e, y, la, store, ifetch).m
    BY <1>4, <1>5, <2>2, <2>3 DEF RoundsOf
  <2>7. Fits(c, g, x2, y2)
    BY <2>4, <2>5, <2>6, LineFits
  <2> QED BY <2>1, <2>3, <2>7
<1>8. G \in [0..n -> BOOLEAN]
  BY DEF Fits
<1> HIDE DEF G
<1>9. G[n]
  <2>1. \A j \in 0..n : G[j]
    BY <1>6, <1>7, <1>8, RoundByRound
  <2> QED BY <2>1
<1> QED BY <1>3, <1>4, <1>9 DEF G

\* All prefetches of an access, and the training.
LEMMA IssuedAside ==
  ASSUME NEW c, Quiet(c), NEW m, Sound(m), NEW out \in Seq(Nat), NEW r, r = Issued(c, m, out)
  PROVE  Aside(m, r)
<1>1. PICK n \in Nat : n = Len(out)
  BY LenProperties
<1>2. PICK l : l = [over |-> "prefetches", c |-> c, out |-> out]
  OBVIOUS
<1>3. \A f : Loop(f, n, l, m) <=>
        f = [j \in 0..n |-> IF j = 0 THEN m ELSE issue_prefetch(c, f[j-1], out[j])]
  BY <1>2 DEF Loop, Advance
<1>4. PICK f : Loop(f, n, l, m) /\ r = f[n]
  <2> DEFINE P(f) == f = [j \in 0..n |-> IF j = 0 THEN m ELSE issue_prefetch(c, f[j-1], out[j])]
  <2>1. \E f : P(f)
    BY <1>3, LoopExists
  <2>2. P(CHOOSE f : P(f))
    BY <2>1
  <2>3. r = (CHOOSE f : P(f))[n]
    BY <1>1 DEF Issued
  <2> QED BY <1>3, <2>2, <2>3
<1>5. f[0] = m /\ \A j \in 1..n : f[j] = issue_prefetch(c, f[j-1], out[j])
  <2>1. \A j \in 1..n : j \in 0..n /\ j # 0
    OBVIOUS
  <2>2. \A j, x : Advance(l, j, x) = issue_prefetch(c, x, out[j])
    BY <1>2 DEF Advance
  <2> QED BY <1>4, <2>1, <2>2 DEF Loop
<1> DEFINE G == [j \in 0..n |-> Aside(m, f[j])]
<1>6. G[0]
  <2>1. Aside(m, f[0])
    BY <1>5 DEF Aside, Untouched, Sound
  <2> QED BY <2>1
<1>7. ASSUME NEW j \in 1..n, G[j-1] PROVE G[j]
  <2>1. j - 1 \in 0..n /\ j \in 0..n
    OBVIOUS
  <2>2. PICK x, y, addr : x = f[j-1] /\ y = f[j] /\ addr = out[j]
    OBVIOUS
  <2>3. Aside(m, x)
    BY <1>7, <2>1, <2>2
  <2>4. Sound(x)
    BY <2>3 DEF Aside
  <2>5. y = issue_prefetch(c, x, addr)
    BY <1>5, <2>2
  <2>6. Aside(x, y)
    BY <2>4, <2>5, PrefetchAside
  <2>7. Aside(m, y)
    BY <2>3, <2>6, AsideOn
  <2> QED BY <2>1, <2>2, <2>7
<1>8. G \in [0..n -> BOOLEAN]
  BY DEF Aside, Untouched
<1> HIDE DEF G
<1>9. G[n]
  <2>1. \A j \in 0..n : G[j]
    BY <1>6, <1>7, <1>8, RoundByRound
  <2> QED BY <2>1
<1> QED BY <1>4, <1>9 DEF G

LEMMA PrefetchedAside ==
  ASSUME NEW c, ConfigOK(c), Quiet(c), NEW m, Sound(m), TableOK(m.tbl), NEW a \in Accesses,
         NEW n, n = Prefetched(c, m, a)
  PROVE  Aside(m, n)
<1>1. CASE c.pf.entries = 0 \/ a.ifetch
  BY <1>1 DEF Prefetched, Aside, Untouched, Sound
<1>2. CASE ~(c.pf.entries = 0 \/ a.ifetch)
  <2>1. PICK addr \in Nat : addr = a.va
    BY DEF Accesses
  <2>2. PICK key \in Nat : key = IF c.pf.by_pc /\ a.pc # {} THEN CHOOSE pc \in a.pc : TRUE ELSE a.va \div page_size
    <3>1. page_size \in Nat \ {0}
      BY CacheAssumption
    <3>2. a.va \div page_size \in Nat
      BY <2>1, <3>1
    <3>3. a.pc # {} => (CHOOSE pc \in a.pc : TRUE) \in Nat
      BY DEF Accesses
    <3> QED BY <3>2, <3>3
  <2>3. PICK u : u = update(c, m.tbl, key, addr)
    OBVIOUS
  <2>4. PICK p, out : p = [m EXCEPT !.tbl = u.tbl] /\ out = u.out
    OBVIOUS
  <2>5. n = Issued(c, p, out)
    BY <1>2, <2>1, <2>2, <2>3, <2>4 DEF Prefetched
  <2>6. out \in Seq(Nat)
    BY <2>3, <2>4, UpdateIs
  <2>7. Untouched(m, p, Upper)
    BY <2>4 DEF Sound, Untouched, Shaped, Fields, Upper
  <2>8. Aside(m, p)
    BY <2>7, UpperAside
  <2>9. Aside(p, n)
    <3>1. Sound(p)
      BY <2>8 DEF Aside
    <3> QED BY <2>5, <2>6, <3>1, IssuedAside
  <2> QED BY <2>8, <2>9, AsideOn
<1> QED BY <1>1, <1>2

LEMMA AsideFits ==
  ASSUME NEW c, NEW g, NEW m, NEW o, Fits(c, g, m, o), c.sweep.level \in Levels \ {"l2"},
         NEW m2, Aside(m, m2), NEW o2, Aside(o, o2)
  PROVE  Fits(c, g, m2, o2)
<1>1. PICK lv \in {"l1i", "l1d"} : lv = c.sweep.level
  BY DEF Levels
<1>2. Sound(m2) /\ m2.rec = m.rec /\ m2.sw_hit = m.sw_hit
  BY DEF Aside, Untouched
<1>3. Sound(o2) /\ o2[lv] = o[lv] /\ o2.hits[lv] = o.hits[lv]
  BY DEF Aside, Untouched
<1> QED BY <1>1, <1>2, <1>3 DEF Fits

LEMMA PrefetchedFits ==
  ASSUME NEW c, NEW g, NEW e, Varies(c, g, e), NEW m, NEW o, Fits(c, g, m, o),
         TableOK(m.tbl), TableOK(o.tbl), NEW a \in Accesses,
         NEW m2, m2 = Prefetched(c, m, a), NEW o2, o2 = Prefetched(e, o, a)
  PROVE  Fits(c, g, m2, o2)
<1>1. CASE c.sweep.level = "l2"
  <2>1. m2 = m /\ o2 = o
    BY <1>1 DEF Varies, Prefetched
  <2> QED BY <2>1
<1>2. CASE c.sweep.level # "l2"
  <2>1. /\ ConfigOK(c) /\ Quiet(c) /\ ConfigOK(e) /\ Quiet(e) /\ c.sweep.level \in Levels \ {"l2"}
    BY <1>2 DEF Varies, Quiet
  <2>2. Sound(m) /\ Sound(o)
    BY DEF Fits
  <2>3. Aside(m, m2) /\ Aside(o, o2)
    BY <2>1, <2>2, PrefetchedAside
  <2> QED BY <2>1, <2>3, AsideFits
<1> QED BY <1>1, <1>2

\* A whole access, seen by both.
LEMMA SimFits ==
  ASSUME NEW c, NEW g, NEW e, Varies(c, g, e), NEW m, NEW o, Fits(c, g, m, o),
         NEW k \in Int, Tracks(c, m, {}, k), NEW h \in Int, Tracks(e, o, {}, h), NEW a \in Accesses,
         NEW m2, m2 = SimAccess(c, m, a).m, NEW o2, o2 = SimAccess(e, o, a).m
  PROVE  Fits(c, g, m2, o2)
<1>1. PICK p, q : p = Pages(c, m, a) /\ q = Pages(e, o, a)
  OBVIOUS
<1>2. Fits(c, g, p, q)
  <2>1. Shaped(m) /\ Shaped(o)
    BY DEF Fits, Sound
  <2>2. Untouched(m, p, BesideTlbs) /\ Untouched(o, q, BesideTlbs)
    BY <1>1, <2>1, PagesAre
  <2>3. Upper \subseteq BesideTlbs
    BY DEF Upper, BesideTlbs, Fields
  <2>4. Untouched(m, p, Upper) /\ Untouched(o, q, Upper)
    BY <2>2, <2>3 DEF Untouched
  <2> QED BY <2>4, FitsUpper DEF Varies
<1>3. PICK x, y : x = Looked(c, p, a) /\ y = Looked(e, q, a)
  OBVIOUS
<1>4. PICK v, w : v = x.m /\ w = y.m
  OBVIOUS
<1>5. Fits(c, g, v, w)
  BY <1>2, <1>3, <1>4, LookedFits
<1>6. TableOK(v.tbl)
  <2>1. Tracks(c, p, {}, k)
    BY <1>1, PagesSame, SameTracks
  <2>2. Tracks(c, x.m, {}, k)
    BY <1>3, <2>1, LookedIs DEF Varies
  <2> QED BY <1>4, <2>2 DEF Tracks, SimOK
<1>7. TableOK(w.tbl)
  <2>1. Tracks(e, q, {}, h)
    BY <1>1, PagesSame, SameTracks
  <2>2. Tracks(e, y.m, {}, h)
    BY <1>3, <2>1, LookedIs DEF Varies
  <2> QED BY <1>4, <2>2 DEF Tracks, SimOK
<1>8. m2 = Prefetched(c, v, a) /\ o2 = Prefetched(e, w, a)
  BY <1>1, <1>3, <1>4, InParts
<1> QED BY <1>5, <1>6, <1>7, <1>8, PrefetchedFits
----------------------------------------------------------------------------
(* The comparison, from one access to the next.                            *)

LEMMA SingleVaries ==
  ASSUME NEW c \in Configs, NEW g \in c.sweep.geos, ~c.inclusive, c.sweep.level = "l2" => c.pf.entries = 0,
         NEW e, e = Single(c, g)
  PROVE  Varies(c, g, e)
<1>1. /\ c \in Configurations /\ ConfigOK(c)
  BY CacheAssumption, ConfigIs
<1>2. c.sweep.level \in Levels /\ Sweepable(c.sweep.geos)
  BY <1>1 DEF Configurations, Sweeps, NoSweep
<1>3. PICK lv \in Levels : lv = c.sweep.level
  BY <1>2
<1>4. PICK v : v = [c EXCEPT ![lv] = g]
  OBVIOUS
<1>5. /\ v[lv] = g /\ \A l \in {"l1i", "l1d", "l2", "l3"} \ {lv} : v[l] = c[l]
      /\ v.inclusive = c.inclusive /\ v.pf = c.pf
      /\ v = [f \in DOMAIN c |-> v[f]]
  BY <1>1, <1>3, <1>4 DEF Configurations, Levels
<1>6. e = [v EXCEPT !.sweep = NoSweep]
  BY <1>3, <1>4 DEF Single
<1>7. /\ \A l \in {"l1i", "l1d", "l2", "l3"} : e[l] = v[l]
      /\ e.inclusive = v.inclusive /\ e.pf = v.pf /\ e.sweep = NoSweep
  BY <1>1, <1>5, <1>6 DEF Configurations
<1>8. g \in Geometries
  BY <1>2 DEF Sweepable
<1>9. ConfigOK(e)
  BY <1>1, <1>3, <1>5, <1>7, <1>8 DEF ConfigOK, Levels
<1>10. e[lv] = g /\ \A l \in Levels \ {lv} : e[l] = c[l]
  BY <1>3, <1>5, <1>7 DEF Levels
<1> QED BY <1>1, <1>2, <1>3, <1>5, <1>7, <1>9, <1>10 DEF Varies, NoSweep

LEMMA OffFits ==
  ASSUME NEW c, NEW g, NEW e, Varies(c, g, e), c.sweep.level = "l2" => c.l2.sets > 0,
         NEW m, m = Off(c), NEW o, o = Off(e)
  PROVE  Fits(c, g, m, o)
<1>1. PICK lv \in Levels : lv = c.sweep.level
  BY DEF Varies
<1>2. /\ Shaped(m) /\ m.rec = <<>> /\ m.sw_hit = [h \in c.sweep.geos |-> 0] /\ m.hits = [l \in Levels |-> 0]
      /\ m.l1i = Cold(c.l1i.sets) /\ m.l1d = Cold(c.l1d.sets) /\ m.l2 = Cold(c.l2.sets)
  BY DEF Off, Shaped, Fields
<1>3. /\ Shaped(o) /\ o.hits = [l \in Levels |-> 0]
      /\ o.l1i = Cold(e.l1i.sets) /\ o.l1d = Cold(e.l1d.sets) /\ o.l2 = Cold(e.l2.sets)
  BY DEF Off, Shaped, Fields
<1>4. o[lv] = Cold(g.sets)
  BY <1>1, <1>3 DEF Varies, Levels
<1>5. g \in Geometries /\ g \in c.sweep.geos
  BY DEF Varies, Sweepable
<1>6. BuiltAs(o[lv], g) /\ Follows(m.rec, o[lv], g)
  BY <1>2, <1>4, <1>5, ColdIs, ColdFollows
<1>7. Ranked(m.rec)
  BY <1>2 DEF Ranked
<1>8. Sound(m) /\ Sound(o) /\ m.sw_hit \in [c.sweep.geos -> Nat] /\ m.sw_hit[g] = o.hits[lv]
  BY <1>1, <1>2, <1>3, <1>5 DEF Sound
<1>9. ASSUME lv = "l2"
      PROVE  /\ enabled(m.l2) /\ m.l1i = o.l1i /\ m.l1d = o.l1d
             /\ BuiltAs(m.l1i, c.l1i) /\ BuiltAs(m.l1d, c.l1d)
  <2>1. c.l1i \in Geometries /\ c.l1d \in Geometries /\ c.l2 \in Geometries
    BY DEF Varies, ConfigOK
  <2>2. BuiltAs(m.l1i, c.l1i) /\ BuiltAs(m.l1d, c.l1d) /\ BuiltAs(m.l2, c.l2)
    BY <1>2, <2>1, ColdIs
  <2>3. c.l2.sets \in Nat \ {0}
    BY <1>1, <1>9, <2>1 DEF Geometries
  <2>4. e.l1i = c.l1i /\ e.l1d = c.l1d
    BY <1>1, <1>9 DEF Varies, Levels
  <2> QED BY <1>2, <1>3, <2>2, <2>3, <2>4, BuiltOn
<1> QED BY <1>1, <1>6, <1>7, <1>8, <1>9 DEF Fits

LEMMA SettledFits ==
  ASSUME NEW c, NEW g, c.sweep.level \in Levels, g \in c.sweep.geos, NEW m, NEW o, Fits(c, g, m, o),
         NEW s, s = Settled(m), NEW t, t = Settled(o)
  PROVE  Fits(c, g, s, t)
<1>1. PICK lv \in Levels : lv = c.sweep.level
  OBVIOUS
<1>2. /\ Sound(m) /\ Sound(o) /\ m.sw_hit \in [c.sweep.geos -> Nat]
  BY DEF Fits
<1>3. /\ Shaped(s) /\ s.hits = [l \in Levels |-> 0] /\ s.sw_hit = [h \in DOMAIN m.sw_hit |-> 0]
      /\ s.rec = m.rec /\ s.l1i = m.l1i /\ s.l1d = m.l1d /\ s.l2 = m.l2
  BY <1>2 DEF Settled, Sound, Shaped, Fields
<1>4. /\ Shaped(t) /\ t.hits = [l \in Levels |-> 0]
      /\ t.l1i = o.l1i /\ t.l1d = o.l1d /\ t.l2 = o.l2
  BY <1>2 DEF Settled, Sound, Shaped, Fields
<1>5. Sound(s) /\ Sound(t) /\ s.sw_hit \in [c.sweep.geos -> Nat] /\ s.sw_hit[g] = t.hits[lv]
  BY <1>1, <1>2, <1>3, <1>4 DEF Sound
<1>6. t[lv] = o[lv]
  BY <1>1, <1>4 DEF Levels
<1> QED BY <1>1, <1>3, <1>4, <1>5, <1>6 DEF Fits

\* The inductive invariant: when the variants can be told apart, each variant's
\* run is in step with the sweep and they have counted the same hits.
InStep(c, g, m, o, n) == n = 0 /\ Tracks(Single(c, g), o, {}, 0) /\ Fits(c, g, m, o)

SweepInv ==
  /\ CachesInv
  /\ DOMAIN own = cfg.sweep.geos /\ DOMAIN lag = cfg.sweep.geos
  /\ Separable => \A g \in cfg.sweep.geos : InStep(cfg, g, sim, own[g], lag[g])

LEMMA SweepInit == Init => SweepInv
<1> SUFFICES ASSUME Init PROVE SweepInv
  OBVIOUS
<1>1. CachesInv
  BY CachesInit
<1>2. PICK c, m : c = cfg /\ m = sim
  OBVIOUS
<1>3. /\ c \in Configs /\ m = Off(c)
      /\ own = [g \in c.sweep.geos |-> Off(Single(c, g))] /\ lag = [g \in c.sweep.geos |-> 0]
  BY <1>2 DEF Init
<1>4. ASSUME Separable, NEW g \in c.sweep.geos PROVE InStep(c, g, m, own[g], lag[g])
  <2>1. ~c.inclusive /\ (c.sweep.level = "l2" => c.pf.entries = 0 /\ c.l2.sets > 0)
    BY <1>2, <1>4 DEF Separable
  <2>2. PICK e, o : e = Single(c, g) /\ o = Off(e)
    OBVIOUS
  <2>3. own[g] = o /\ lag[g] = 0
    BY <1>3, <2>2
  <2>4. Varies(c, g, e)
    BY <1>3, <2>1, <2>2, SingleVaries
  <2>5. Fits(c, g, m, o)
    BY <1>3, <2>1, <2>2, <2>4, OffFits
  <2>6. Tracks(e, o, {}, 0)
    BY <2>2, <2>4, OffTracks DEF Varies
  <2> QED BY <2>2, <2>3, <2>5, <2>6 DEF InStep
<1> QED BY <1>1, <1>2, <1>3, <1>4 DEF SweepInv

\* One access, seen by the simulator and a variant.
LEMMA StaysInStep ==
  ASSUME NEW c \in Configs, ~c.inclusive, c.sweep.level = "l2" => c.pf.entries = 0,
         NEW g \in c.sweep.geos, NEW m, Tracks(c, m, {}, 0), NEW o, NEW n, InStep(c, g, m, o, n),
         NEW a \in Accesses, NEW m2, m2 = SimAccess(c, m, a).m,
         NEW o2, o2 = SimAccess(Single(c, g), o, a).m, NEW d, d = o2.hits[c.sweep.level],
         NEW s, s = Settled(m2), NEW t, t = Settled(o2)
  PROVE  InStep(c, g, s, t, n + m2.sw_hit[g] - d)
<1>1. PICK e : e = Single(c, g)
  OBVIOUS
<1>2. PICK z \in Int : z = 0
  OBVIOUS
<1>3. Varies(c, g, e)
  BY <1>1, SingleVaries
<1>4. n = 0 /\ Tracks(e, o, {}, z) /\ Fits(c, g, m, o) /\ Tracks(c, m, {}, z)
  BY <1>1, <1>2 DEF InStep
<1>5. Fits(c, g, m2, o2)
  BY <1>1, <1>3, <1>4, SimFits
<1>6. Tracks(e, o2, {}, z)
  <2>1. PICK r : r = SimAccess(e, o, a)
    OBVIOUS
  <2>2. Tracks(e, r.m, {}, z)
    BY <1>3, <1>4, <2>1, SimAccessIs DEF Varies
  <2> QED BY <1>1, <2>1, <2>2
<1>7. Fits(c, g, s, t)
  BY <1>3, <1>5, SettledFits DEF Varies
<1>8. Tracks(e, t, {}, z)
  BY <1>6, SettledTracks
<1>9. n + m2.sw_hit[g] - d = 0
  <2>1. m2.sw_hit \in [c.sweep.geos -> Nat] /\ m2.sw_hit[g] = d
    BY <1>5 DEF Fits
  <2>2. m2.sw_hit[g] \in Nat
    BY <2>1
  <2> QED BY <1>4, <2>1, <2>2
<1> QED BY <1>1, <1>7, <1>8, <1>9, <1>2 DEF InStep

LEMMA SweepNext == SweepInv /\ [Next]_vars => SweepInv'
<1> SUFFICES ASSUME SweepInv, [Next]_vars PROVE SweepInv'
  OBVIOUS
<1>1. CachesInv'
  BY CachesNext DEF SweepInv
<1>2. CASE UNCHANGED vars
  BY <1>1, <1>2 DEF vars, SweepInv, Separable
<1>3. CASE Next
  <2>1. PICK a \in cfg.stream : Access(a)
    BY <1>3 DEF Next
  <2>2. cfg \in Configs /\ Tracks(cfg, sim, {}, 0)
    BY DEF SweepInv, CachesInv
  <2>3. a \in Accesses
    BY <2>1, <2>2, ConfigIs
  <2>4. DOMAIN own = cfg.sweep.geos /\ DOMAIN lag = cfg.sweep.geos
    BY DEF SweepInv
  <2>5. PICK m2 : m2 = SimAccess(cfg, sim, a).m
    OBVIOUS
  <2>6. PICK o : o = [g \in cfg.sweep.geos |-> SimAccess(Single(cfg, g), own[g], a).m]
    OBVIOUS
  <2>7. /\ sim' = Settled(m2) /\ cfg' = cfg
        /\ own' = [g \in cfg.sweep.geos |-> Settled(o[g])]
        /\ lag' = [g \in cfg.sweep.geos |-> lag[g] + m2.sw_hit[g] - o[g].hits[cfg.sweep.level]]
    BY <2>1, <2>4, <2>5, <2>6 DEF Access, Compared
  <2>8. ASSUME Separable, NEW g \in cfg.sweep.geos PROVE InStep(cfg, g, sim', own'[g], lag'[g])
    <3>1. ~cfg.inclusive /\ (cfg.sweep.level = "l2" => cfg.pf.entries = 0)
      BY <2>8 DEF Separable
    <3>2. InStep(cfg, g, sim, own[g], lag[g])
      BY <2>8 DEF SweepInv
    <3>3. PICK x, n, y, d, s, t :
            /\ x = own[g] /\ n = lag[g] /\ y = o[g] /\ d = y.hits[cfg.sweep.level]
            /\ s = Settled(m2) /\ t = Settled(y)
      OBVIOUS
    <3>4. y = SimAccess(Single(cfg, g), x, a).m
      BY <2>6, <3>3
    <3>5. InStep(cfg, g, s, t, n + m2.sw_hit[g] - d)
      BY <2>2, <2>3, <2>5, <3>1, <3>2, <3>3, <3>4, StaysInStep
    <3>6. sim' = s /\ own'[g] = t /\ lag'[g] = n + m2.sw_hit[g] - d
      BY <2>7, <3>3
    <3> QED BY <3>5, <3>6
  <2>9. Separable' => Separable
    BY <2>7 DEF Separable
  <2>10. DOMAIN own' = cfg.sweep.geos /\ DOMAIN lag' = cfg.sweep.geos
    BY <2>7
  <2> QED BY <1>1, <2>7, <2>8, <2>9, <2>10 DEF SweepInv
<1> QED BY <1>2, <1>3

\* The single scan counts for every variant exactly the hits that a run of its
\* own with that geometry has.
THEOREM SweepStaysExact == Spec => []SweepExact
<1>1. SweepInv => SweepExact
  BY DEF SweepInv, SweepExact, InStep
<1> QED BY <1>1, SweepInit, SweepNext, PTL DEF Spec
============================================================================
