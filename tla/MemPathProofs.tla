---------------------------- MODULE MemPathProofs ----------------------------
(***************************************************************************)
(* Theorems about MemPath, for every size of queue, line, buffer and reorder *)
(* buffer, every program and every order of requests.                      *)
(***************************************************************************)
EXTENDS MemPath, OrderLemmas, SequenceTheorems

----------------------------------------------------------------------------
(* The inductive invariant.                                                *)

RobIx      == 0..ROB_N-1
LdIx       == 0..ld_max-1
StIx       == 0..st_max-1
StreamUop  == [class : {"load", "store", "amo", "other"}, ev : MemEvent]
MemUop     == [class : {"load", "store", "amo"}, rob : RobIx, ev : MemEvent,
               at : {"waiting", "asked", "answered"}]
LdEntry    == [rob : RobIx, ar : BOOLEAN, st : BOOLEAN, blk : BOOLEAN, dn : BOOLEAN,
               wid : StIx, ev : MemEvent]
StEntry    == [rob : RobIx, ar : BOOLEAN, st : BOOLEAN, noacc : BOOLEAN, dn : BOOLEAN]
Miss       == [cnt : Nat, rob : RobIx, ldq : LdIx, dead : BOOLEAN]
LineAccess == [q : {"ld", "st"}, idx : Nat, rob : RobIx]

\* The kinds of the variables.
Typed ==
  /\ stream \in Streams /\ pc \in 0..Len(stream)-1
  /\ dq \in Seq(StreamUop) /\ Len(dq) <= DQ_N
  /\ win \in Seq(MemUop) /\ tail \in RobIx
  /\ r_req \in Seq(RobIx) /\ pq \in Seq(RobIx)
  /\ ldq \in [DOMAIN ldq -> LdEntry] /\ stq \in [DOMAIN stq -> StEntry]
  /\ ms \in [DOMAIN ms -> Miss] /\ DOMAIN ms \subseteq 0..MSHR_N-1
  /\ hl \in [0..HD-1 -> SUBSET LineAccess]

\* Each queue is one ring of its size.
Rings ==
  /\ ld_head \in LdIx /\ ld_tail \in LdIx /\ ld_cnt \in 0..ld_max
  /\ st_head \in StIx /\ st_tail \in StIx /\ st_cnt \in 0..st_max
  /\ RingExact(ldq, ld_head, ld_tail, ld_cnt, ld_max)
  /\ RingExact(stq, st_head, st_tail, st_cnt, st_max)

\* Two accesses at most leave the line at a time.
LineFits == \A s \in 0..HD-1 : IsFiniteSet(hl[s]) /\ Cardinality(hl[s]) <= 2

\* The window's entries go round the reorder buffer once, up to tail.
Ahead(k) == (win[k].rob - tail) % ROB_N
WindowOrder == \A i, k \in Live : i < k => Ahead(i) < Ahead(k)

\* The entries that are not done are those of the uops that are not answered.
Open(k) == win[k].at # "answered"
LdMatched ==
  /\ \A e \in DOMAIN ldq : ~ldq[e].dn =>
       \E k \in Live : /\ win[k].rob = ldq[e].rob /\ IsLoad(win[k].class) /\ Open(k)
                       /\ win[k].ev = ldq[e].ev
                       /\ ldq[e].ar => win[k].at = "asked"
  /\ \A k \in Live : IsLoad(win[k].class) /\ Open(k) =>
       \E e \in DOMAIN ldq : ~ldq[e].dn /\ ldq[e].rob = win[k].rob
  /\ \A e, f \in DOMAIN ldq :
       ~ldq[e].dn /\ ~ldq[f].dn /\ ldq[e].rob = ldq[f].rob => e = f
StMatched ==
  /\ \A e \in DOMAIN stq : ~stq[e].dn =>
       /\ ~stq[e].noacc
       /\ \E k \in Live : /\ win[k].rob = stq[e].rob /\ win[k].class = "store" /\ Open(k)
                          /\ stq[e].ar => win[k].at = "asked"
  /\ \A k \in Live : win[k].class = "store" /\ Open(k) =>
       \E e \in DOMAIN stq : ~stq[e].dn /\ stq[e].rob = win[k].rob
  /\ \A e, f \in DOMAIN stq :
       ~stq[e].dn /\ ~stq[f].dn /\ stq[e].rob = stq[f].rob => e = f

\* A request is on its way, in the buffer or noted in the queues.
Noted ==
  {ldq[e].rob : e \in {d \in DOMAIN ldq : ldq[d].ar /\ ~ldq[d].dn}}
    \cup {stq[e].rob : e \in {d \in DOMAIN stq : stq[d].ar /\ ~stq[d].dn}}
AskedRobs == {win[k].rob : k \in {j \in Live : win[j].at = "asked"}}
RequestPlaces ==
  /\ AskedRobs = ToSet(r_req) \cup ToSet(pq) \cup Noted
  /\ ToSet(r_req) \cap ToSet(pq) = {} /\ ToSet(r_req) \cap Noted = {}
  /\ ToSet(pq) \cap Noted = {}
  /\ IsInjective(r_req) /\ IsInjective(pq)

\* The buffer takes a burst that be_eu sent while the buffer was empty.
BufferFits ==
  /\ Len(r_req) <= W /\ Len(pq) <= PQN
  /\ r_req # <<>> => Len(pq) <= W

\* An access under way is that of a started entry that is not done ...
Runs(q, e) == e \in DOMAIN q /\ q[e].st /\ ~q[e].dn
LiveMiss   == {m \in DOMAIN ms : ~ms[m].dead}
Owned ==
  /\ \A s \in 0..HD-1 : \A x \in hl[s] :
       /\ x.q = "ld" => Runs(ldq, x.idx) /\ ldq[x.idx].rob = x.rob
       /\ x.q = "st" => Runs(stq, x.idx) /\ stq[x.idx].rob = x.rob
  /\ \A m \in LiveMiss : Runs(ldq, ms[m].ldq) /\ ldq[ms[m].ldq].rob = ms[m].rob

\* ... in one place ...
OnePlace ==
  /\ \A s, t \in 0..HD-1 : \A x \in hl[s], y \in hl[t] : x.q = y.q /\ x.idx = y.idx => s = t
  /\ \A m, n \in LiveMiss : ms[m].ldq = ms[n].ldq => m = n
  /\ \A s \in 0..HD-1 : \A x \in hl[s], m \in LiveMiss : x.q = "ld" => x.idx # ms[m].ldq

\* ... and every such entry has one; only entries that have been asked start.
Running ==
  /\ \A e \in DOMAIN ldq : Runs(ldq, e) =>
       /\ ldq[e].ar
       /\ \/ \E s \in 0..HD-1 : \E x \in hl[s] : x.q = "ld" /\ x.idx = e
          \/ \E m \in LiveMiss : ms[m].ldq = e
  /\ \A e \in DOMAIN stq : Runs(stq, e) =>
       /\ stq[e].ar
       /\ \E s \in 0..HD-1 : \E x \in hl[s] : x.q = "st" /\ x.idx = e

\* A load that waits has not begun, and all up to the store it waits for are older.
Blocked ==
  \A e \in DOMAIN ldq : ldq[e].blk =>
    /\ ~ldq[e].st /\ ~ldq[e].dn /\ ldq[e].wid \in DOMAIN stq
    /\ \A s \in DOMAIN stq, i, k \in Live :
         /\ (s - st_head) % st_max <= (ldq[e].wid - st_head) % st_max /\ ~stq[s].dn
         /\ win[i].rob = ldq[e].rob /\ win[k].rob = stq[s].rob
         => k < i

EventsFollow == me = Events(dq)

IInv ==
  /\ Typed /\ Rings /\ LineFits /\ WindowOrder /\ LdMatched /\ StMatched
  /\ RequestPlaces /\ BufferFits /\ Owned /\ OnePlace /\ Running /\ Blocked
  /\ EventsFollow
----------------------------------------------------------------------------
(* Sizes, and the members of a set by rank.                                *)

LEMMA Sizes ==
  /\ ld_max \in Nat \ {0} /\ st_max \in Nat \ {0}
  /\ ROB_N \in Nat \ {0} /\ MSHR_N \in Nat \ {0} /\ HD \in Nat \ {0} /\ W \in Nat \ {0}
BY LsuAssumption, MemPathAssumption DEF ld_max, st_max

\* At most one member has a rank, and every rank up to the size has one.
LEMMA NthOne ==
  ASSUME NEW n \in Nat, NEW S \in SUBSET (0..n), NEW k,
         NEW e \in Nth(S, k), NEW f \in Nth(S, k)
  PROVE  e = f
<1>1. e \in S /\ f \in S /\ e \in Int /\ f \in Int
  BY DEF Nth
<1>2. Cardinality(Lower(S, e)) = k - 1 /\ Cardinality(Lower(S, f)) = k - 1
  BY DEF Nth, Lower
<1>3. Cardinality(Lower(S, e)) \in Nat /\ Cardinality(Lower(S, f)) \in Nat
  BY LowerType
<1>4. ASSUME e < f PROVE FALSE
  <2>1. Cardinality(Lower(S, e)) < Cardinality(Lower(S, f))
    BY <1>1, <1>4, RankOrders
  <2> QED BY <1>2, <1>3, <2>1
<1>5. ASSUME f < e PROVE FALSE
  <2>1. Cardinality(Lower(S, f)) < Cardinality(Lower(S, e))
    BY <1>1, <1>5, RankOrders
  <2> QED BY <1>2, <1>3, <2>1
<1> QED BY <1>1, <1>4, <1>5

LEMMA NthSome ==
  ASSUME NEW n \in Nat, NEW S \in SUBSET (0..n), NEW k \in Nat, k < Cardinality(S)
  PROVE  \E e \in S : e \in Nth(S, 1 + k)
<1>1. PICK e \in S : Cardinality(Lower(S, e)) = k
  BY RankExists
<1>2. 1 + k - 1 = k
  OBVIOUS
<1> QED BY <1>1, <1>2 DEF Nth, Lower

\* The rank of a member is a number up to the size.
LEMMA RankInRange ==
  ASSUME NEW n \in Nat, NEW S \in SUBSET (0..n), NEW e \in S
  PROVE  Cardinality(Lower(S, e)) \in 0..Cardinality(S)-1
<1>1. /\ IsFiniteSet(S) /\ Cardinality(S) \in Nat
      /\ IsFiniteSet(Lower(S, e)) /\ Cardinality(Lower(S, e)) \in Nat
      /\ Cardinality(Lower(S, e)) <= Cardinality(S)
  BY LowerType
<1>2. Lower(S, e) \in SUBSET S /\ e \notin Lower(S, e)
  BY DEF Lower
<1>3. Lower(S, e) # S
  BY <1>2
<1>4. Cardinality(Lower(S, e)) # Cardinality(S)
  BY <1>1, <1>2, <1>3, FS_Subset
<1> QED BY <1>1, <1>4

LEMMA NthRange ==
  ASSUME NEW n \in Nat, NEW S \in SUBSET (0..n), NEW k \in Int, NEW e \in Nth(S, k)
  PROVE  e \in S /\ k \in 1..Cardinality(S)
<1>1. e \in S /\ Cardinality(Lower(S, e)) = k - 1
  BY DEF Nth, Lower
<1>2. k - 1 \in 0..Cardinality(S)-1
  BY <1>1, RankInRange
<1>3. Cardinality(S) \in Nat
  BY LowerType
<1> QED BY <1>1, <1>2, <1>3

----------------------------------------------------------------------------
(* The elements at some positions of a sequence.                           *)

LEMMA KeptAt ==
  ASSUME NEW s, NEW n \in Nat, NEW S \in SUBSET (1..n), NEW i \in S
  PROVE  /\ 1 + Cardinality(Lower(S, i)) \in 1..Cardinality(S)
         /\ Kept(s, S)[1 + Cardinality(Lower(S, i))] = s[i]
<1>1. S \in SUBSET (0..n)
  OBVIOUS
<1>2. /\ Cardinality(Lower(S, i)) \in 0..Cardinality(S)-1
      /\ Cardinality(S) \in Nat
  BY <1>1, RankInRange, LowerType
<1>3. PICK r \in Nat : r = Cardinality(Lower(S, i))
  BY <1>2
<1>4. 1 + r \in 1..Cardinality(S)
  BY <1>2, <1>3
<1>5. i \in Nth(S, 1 + r)
  BY <1>3 DEF Nth, Lower
<1>6. (CHOOSE j \in Nth(S, 1 + r) : TRUE) = i
  BY <1>1, <1>5, NthOne
<1>7. Kept(s, S)[1 + r] = s[CHOOSE j \in Nth(S, 1 + r) : TRUE]
  BY <1>4 DEF Kept
<1> QED BY <1>3, <1>4, <1>6, <1>7

LEMMA KeptFrom ==
  ASSUME NEW s, NEW n \in Nat, NEW S \in SUBSET (1..n), NEW k \in 1..Cardinality(S)
  PROVE  \E i \in S : k = 1 + Cardinality(Lower(S, i)) /\ Kept(s, S)[k] = s[i]
<1>1. S \in SUBSET (0..n)
  OBVIOUS
<1>2. Cardinality(S) \in Nat
  BY <1>1, LowerType
<1>3. PICK r \in Nat : k = 1 + r /\ r < Cardinality(S)
  <2>1. k - 1 \in Nat /\ k = 1 + (k - 1) /\ k - 1 < Cardinality(S)
    BY <1>2
  <2> QED BY <2>1
<1>4. PICK i \in S : Cardinality(Lower(S, i)) = r
  BY <1>1, <1>3, RankExists
<1>5. Kept(s, S)[1 + Cardinality(Lower(S, i))] = s[i]
  BY KeptAt
<1> QED BY <1>3, <1>4, <1>5

LEMMA SubsetSize ==
  ASSUME NEW n \in Nat, NEW S \in SUBSET (1..n)
  PROVE  IsFiniteSet(S) /\ Cardinality(S) \in 0..n
<1>1. S \in SUBSET (0..n)
  OBVIOUS
<1>2. Cardinality(S) \in Nat /\ IsFiniteSet(S)
  BY <1>1, LowerType
<1>3. IsFiniteSet(1..n) /\ Cardinality(1..n) = n
  <2>1. CASE n = 0
    BY <2>1, FS_EmptySet
  <2>2. CASE n # 0
    BY <2>2, FS_Interval
  <2> QED BY <2>1, <2>2
<1>4. Cardinality(S) <= n
  BY <1>3, FS_Subset
<1> QED BY <1>2, <1>4

LEMMA KeptType ==
  ASSUME NEW Elem, NEW s, NEW n \in Nat, NEW S \in SUBSET (1..n), \A i \in S : s[i] \in Elem
  PROVE  Kept(s, S) \in Seq(Elem)
<1>1. Cardinality(S) \in Nat
  BY SubsetSize
<1>2. ASSUME NEW k \in 1..Cardinality(S) PROVE Kept(s, S)[k] \in Elem
  <2>1. PICK i \in S : Kept(s, S)[k] = s[i]
    BY KeptFrom
  <2> QED BY <2>1
<1>3. Kept(s, S) = [k \in 1..Cardinality(S) |-> Kept(s, S)[k]]
  BY DEF Kept
<1> HIDE DEF Kept
<1>4. Kept(s, S) \in [1..Cardinality(S) -> Elem]
  BY <1>2, <1>3
<1> QED BY <1>1, <1>4, IsASeq

LEMMA KeptLen ==
  ASSUME NEW s, NEW n \in Nat, NEW S \in SUBSET (1..n), NEW m \in Nat, m = Cardinality(S)
  PROVE  Len(Kept(s, S)) = m
<1> DEFINE Elem == {s[i] : i \in S}
<1>1. Kept(s, S) \in Seq(Elem)
  <2>1. \A i \in S : s[i] \in Elem
    OBVIOUS
  <2> HIDE DEF Elem
  <2> QED BY <2>1, KeptType
<1>2. DOMAIN Kept(s, S) = 1..m
  BY DEF Kept
<1> HIDE DEF Elem
<1> QED BY <1>1, <1>2, LenProperties
LEMMA ShiftedSet ==
  ASSUME NEW n \in Nat, NEW a \in Nat, NEW T \in SUBSET (1..n)
  PROVE  /\ IsFiniteSet({a + i : i \in T})
         /\ Cardinality({a + i : i \in T}) = Cardinality(T)
<1> DEFINE P == {a + i : i \in T}
           g == [i \in T |-> a + i]
<1>1. T \in SUBSET (0..n)
  OBVIOUS
<1>2. IsFiniteSet(T)
  BY <1>1, LowerType
<1>3. \A i, j \in T : a + i = a + j => i = j
  OBVIOUS
<1>4. g \in Bijection(T, P)
  BY <1>3 DEF Bijection, Injection, Surjection, IsInjective
<1> HIDE DEF P, g
<1>5. IsFiniteSet(P) /\ Cardinality(P) = Cardinality(T)
  BY <1>2, <1>4, FS_Bijection DEF ExistsBijection
<1> QED BY <1>5 DEF P

\* Positions of two sequences, one behind the other.
Parts(S, a, T) == S \cup {a + i : i \in T}

LEMMA TwoParts ==
  ASSUME NEW a \in Nat, NEW b \in Nat, NEW S \in SUBSET (1..a), NEW T \in SUBSET (1..b)
  PROVE  /\ Parts(S, a, T) \in SUBSET (1..a+b)
         /\ Cardinality(S) \in Nat /\ Cardinality(T) \in Nat
         /\ Cardinality(Parts(S, a, T)) = Cardinality(S) + Cardinality(T)
<1> DEFINE P == {a + i : i \in T}
<1>1. S \in SUBSET (0..a) /\ T \in SUBSET (0..b)
  OBVIOUS
<1>2. IsFiniteSet(S) /\ Cardinality(S) \in Nat /\ IsFiniteSet(T) /\ Cardinality(T) \in Nat
  BY <1>1, LowerType
<1>3. IsFiniteSet(P) /\ Cardinality(P) = Cardinality(T)
  BY ShiftedSet
<1>4. S \cap P = {}
  <2>1. \A i \in T : a + i > a
    OBVIOUS
  <2>2. \A i \in S : i <= a
    OBVIOUS
  <2> QED BY <2>1, <2>2
<1>5. P \in SUBSET (1..a+b) /\ S \in SUBSET (1..a+b)
  OBVIOUS
<1> HIDE DEF P
<1>6. Parts(S, a, T) = S \cup P
  BY DEF P, Parts
<1>7. Cardinality(S \cup P) = Cardinality(S) + Cardinality(P) - Cardinality(S \cap P)
  BY <1>2, <1>3, FS_Union
<1>8. Cardinality(S \cap P) = 0
  BY <1>4, FS_EmptySet
<1>9. PICK x \in Nat, y \in Nat : x = Cardinality(S) /\ y = Cardinality(T)
  BY <1>2
<1>10. Cardinality(Parts(S, a, T)) = x + y
  BY <1>3, <1>6, <1>7, <1>8, <1>9
<1>11. Parts(S, a, T) \in SUBSET (1..a+b)
  BY <1>5, <1>6
<1> QED BY <1>9, <1>10, <1>11

LEMMA LowerInParts ==
  ASSUME NEW a \in Nat, NEW b \in Nat, NEW S \in SUBSET (1..a), NEW T \in SUBSET (1..b)
  PROVE  /\ \A i \in S : Cardinality(Lower(Parts(S, a, T), i)) = Cardinality(Lower(S, i))
         /\ \A j \in T : Cardinality(Lower(Parts(S, a, T), a + j))
                            = Cardinality(S) + Cardinality(Lower(T, j))
<1> DEFINE U == Parts(S, a, T)
<1>1. ASSUME NEW i \in S
      PROVE  Cardinality(Lower(U, i)) = Cardinality(Lower(S, i))
  <2>1. \A j \in T : ~(a + j < i)
    OBVIOUS
  <2>2. Lower(U, i) = Lower(S, i)
    BY <2>1 DEF Lower, Parts
  <2> QED BY <2>2
<1>2. ASSUME NEW j \in T
      PROVE  Cardinality(Lower(U, a + j)) = Cardinality(S) + Cardinality(Lower(T, j))
  <2>1. Lower(T, j) \in SUBSET (1..b)
    BY DEF Lower
  <2>2. \A i \in S : i < a + j
    OBVIOUS
  <2>3. \A i \in T : a + i < a + j <=> i < j
    OBVIOUS
  <2>4. Lower(U, a + j) = Parts(S, a, Lower(T, j))
    BY <2>2, <2>3 DEF Lower, Parts
  <2>5. Cardinality(Parts(S, a, Lower(T, j))) = Cardinality(S) + Cardinality(Lower(T, j))
    BY <2>1, TwoParts
  <2> QED BY <2>4, <2>5
<1> QED BY <1>1, <1>2

LEMMA KeptConcat ==
  ASSUME NEW X, NEW s \in Seq(X), NEW t \in Seq(X),
         NEW S \in SUBSET (1..Len(s)), NEW T \in SUBSET (1..Len(t))
  PROVE  Kept(s \o t, Parts(S, Len(s), T)) = Kept(s, S) \o Kept(t, T)
<1> DEFINE U == Parts(S, Len(s), T)
<1>1. PICK a \in Nat, b \in Nat : a = Len(s) /\ b = Len(t)
  BY LenProperties
<1>2. S \in SUBSET (1..a) /\ T \in SUBSET (1..b) /\ U = Parts(S, a, T)
  BY <1>1
<1> HIDE DEF U
<1>3. PICK p \in Nat, r \in Nat : p = Cardinality(S) /\ r = Cardinality(T)
  BY <1>2, TwoParts
<1> DEFINE u == s \o t
<1>0. PICK c \in Nat : c = a + b
  OBVIOUS
<1>4. U \in SUBSET (1..a+b) /\ U \in SUBSET (1..c) /\ Cardinality(U) = p + r
  BY <1>2, <1>3, <1>0, TwoParts
<1>5. /\ u \in Seq(X) /\ Len(u) = a + b
      /\ \A i \in 1..a : u[i] = s[i]
      /\ \A j \in 1..b : u[a + j] = t[j]
  <2>1. u \in Seq(X) /\ Len(u) = a + b
    BY <1>1, ConcatProperties
  <2>2. \A i \in 1..a : u[i] = s[i]
    BY <1>1, ConcatProperties
  <2>3. ASSUME NEW j \in 1..b PROVE u[a + j] = t[j]
    <3>1. a + j \in 1..a+b /\ ~(a + j <= a) /\ a + j - a = j
      OBVIOUS
    <3>2. a + j \in 1..Len(s)+Len(t) /\ ~(a + j <= Len(s)) /\ a + j - Len(s) = j
      BY <1>1, <3>1
    <3> QED BY <3>2, ConcatProperties
  <2> QED BY <2>1, <2>2, <2>3
<1> HIDE DEF u
<1>6. /\ Kept(s, S) \in Seq(X) /\ Len(Kept(s, S)) = p
      /\ Kept(t, T) \in Seq(X) /\ Len(Kept(t, T)) = r
  <2>1. (\A i \in S : s[i] \in X) /\ (\A i \in T : t[i] \in X)
    BY ElementOfSeq
  <2>2. Kept(s, S) \in Seq(X) /\ Kept(t, T) \in Seq(X)
    BY <1>1, <1>2, <2>1, KeptType
  <2> QED BY <1>1, <1>2, <1>3, <2>2, KeptLen
<1> DEFINE KS == Kept(s, S)
           KT == Kept(t, T)
           KU == Kept(u, U)
<1> HIDE DEF u
<1>7. KU \in Seq(X) /\ Len(KU) = p + r
  <2>2. \A i \in U : u[i] \in X
    BY <1>4, <1>5, ElementOfSeq
  <2>3. U \in SUBSET (1..c)
    BY <1>4
  <2>4. PICK z \in Nat : z = p + r /\ z = Cardinality(U)
    BY <1>4
  <2>5. Kept(u, U) \in Seq(X)
    BY <1>0, <2>2, <2>3, KeptType
  <2>6. Len(Kept(u, U)) = z
    BY <1>0, <2>3, <2>4, KeptLen
  <2> QED BY <2>4, <2>5, <2>6 DEF KU
<1> HIDE DEF KS, KT, KU
<1>8. /\ KS \o KT \in Seq(X) /\ Len(KS \o KT) = p + r
      /\ \A i \in 1..p : (KS \o KT)[i] = KS[i]
      /\ \A j \in 1..r : (KS \o KT)[p + j] = KT[j]
  <2>1. KS \in Seq(X) /\ Len(KS) = p /\ KT \in Seq(X) /\ Len(KT) = r
    BY <1>6 DEF KS, KT
  <2>2. KS \o KT \in Seq(X) /\ Len(KS \o KT) = p + r
    BY <2>1, ConcatProperties
  <2>4. ASSUME NEW i \in 1..p PROVE (KS \o KT)[i] = KS[i]
    <3>1. i \in 1..Len(KS)+Len(KT) /\ i <= Len(KS)
      BY <2>1
    <3> QED BY <2>1, <3>1, ConcatProperties
  <2>3. ASSUME NEW j \in 1..r PROVE (KS \o KT)[p + j] = KT[j]
    <3>1. p + j \in 1..p+r /\ ~(p + j <= p) /\ p + j - p = j
      OBVIOUS
    <3>2. p + j \in 1..Len(KS)+Len(KT) /\ ~(p + j <= Len(KS)) /\ p + j - Len(KS) = j
      BY <2>1, <3>1
    <3> QED BY <2>1, <3>2, ConcatProperties
  <2> QED BY <2>2, <2>3, <2>4
<1>11. /\ \A i \in S : Cardinality(Lower(U, i)) = Cardinality(Lower(S, i))
       /\ \A j \in T : Cardinality(Lower(U, a + j)) = Cardinality(S) + Cardinality(Lower(T, j))
  <2>1. S \in SUBSET (1..a) /\ T \in SUBSET (1..b)
    BY <1>2
  <2>2. /\ \A i \in S : Cardinality(Lower(Parts(S, a, T), i)) = Cardinality(Lower(S, i))
        /\ \A j \in T : Cardinality(Lower(Parts(S, a, T), a + j))
                           = Cardinality(S) + Cardinality(Lower(T, j))
    BY <2>1, LowerInParts
  <2> QED BY <1>2, <2>2
<1>9. ASSUME NEW k \in 1..p+r PROVE KU[k] = (KS \o KT)[k]
  <2>1. PICK i \in U : k = 1 + Cardinality(Lower(U, i)) /\ KU[k] = u[i]
    <3>1. k \in 1..Cardinality(U) /\ U \in SUBSET (1..c)
      BY <1>4
    <3>2. \E i \in U : k = 1 + Cardinality(Lower(U, i)) /\ Kept(u, U)[k] = u[i]
      BY <3>1, KeptFrom
    <3> QED BY <3>2 DEF KU
  <2>2. CASE i \in S
    <3>1. k = 1 + Cardinality(Lower(S, i))
      BY <1>11, <2>1, <2>2
    <3>2. k \in 1..p /\ KS[k] = s[i]
      <4>1. /\ 1 + Cardinality(Lower(S, i)) \in 1..Cardinality(S)
            /\ Kept(s, S)[1 + Cardinality(Lower(S, i))] = s[i]
        BY <1>2, <2>2, KeptAt
      <4> QED BY <1>3, <3>1, <4>1 DEF KS
    <3>3. i \in 1..a
      BY <1>2, <2>2
    <3> QED BY <1>5, <1>8, <2>1, <3>2, <3>3
  <2>3. CASE i \notin S
    <3>1. PICK j \in T : i = a + j
      BY <1>2, <2>3 DEF Parts
    <3>2. Cardinality(Lower(U, i)) = p + Cardinality(Lower(T, j))
      BY <1>3, <1>11, <3>1
    <3>3. 1 + Cardinality(Lower(T, j)) \in 1..r /\ KT[1 + Cardinality(Lower(T, j))] = t[j]
      BY <1>2, <1>3, KeptAt DEF KT
    <3>4. PICK h \in 1..r : h = 1 + Cardinality(Lower(T, j))
      BY <3>3
    <3>5. k = p + h
      <4>1. T \in SUBSET (0..b)
        BY <1>2
      <4>2. PICK lw \in Nat : lw = Cardinality(Lower(T, j))
        BY <4>1, LowerType
      <4> QED BY <2>1, <3>2, <3>4, <4>2
    <3>6. j \in 1..b
      BY <1>2
    <3>7. u[i] = t[j]
      BY <1>5, <3>1, <3>6
    <3>8. (KS \o KT)[p + h] = KT[h]
      BY <1>8
    <3> QED BY <2>1, <3>3, <3>4, <3>5, <3>7, <3>8
  <2> QED BY <2>2, <2>3
<1>10. KU = KS \o KT
  BY <1>7, <1>8, <1>9, SeqEqual
<1> QED BY <1>10 DEF KU, KS, KT, U, u
----------------------------------------------------------------------------
(* Queues that lose elements at one end and win some at the other.         *)

LEMMA TakeDrop ==
  ASSUME NEW X, NEW s \in Seq(X), NEW k \in 0..Len(s)
  PROVE  /\ SubSeq(s, 1, k) \in Seq(X) /\ Len(SubSeq(s, 1, k)) = k
         /\ \A i \in 1..k : SubSeq(s, 1, k)[i] = s[i]
         /\ SubSeq(s, k + 1, Len(s)) \in Seq(X) /\ Len(SubSeq(s, k + 1, Len(s))) = Len(s) - k
         /\ \A i \in 1..Len(s)-k : SubSeq(s, k + 1, Len(s))[i] = s[k + i]
         /\ s = SubSeq(s, 1, k) \o SubSeq(s, k + 1, Len(s))
<1>1. PICK n \in Nat : n = Len(s)
  BY LenProperties
<1>2. k \in Int /\ n \in Int /\ k + 1 \in Int /\ 1 \in Int
  BY <1>1
<1>3. \A i \in 1..n : s[i] \in X
  BY <1>1, ElementOfSeq
<1>4. (\A i \in 1..k : s[i] \in X) /\ (\A i \in k+1..n : s[i] \in X)
  BY <1>1, <1>3
<1>5. /\ SubSeq(s, 1, k) \in Seq(X) /\ Len(SubSeq(s, 1, k)) = k
      /\ \A i \in 1..k : SubSeq(s, 1, k)[i] = s[i]
  <2>1. /\ SubSeq(s, 1, k) \in Seq(X)
        /\ Len(SubSeq(s, 1, k)) = IF 1 <= k THEN k - 1 + 1 ELSE 0
        /\ \A i \in 1..k-1+1 : SubSeq(s, 1, k)[i] = s[1 + i - 1]
    BY <1>2, <1>4, SubSeqProperties
  <2>2. k - 1 + 1 = k /\ (~(1 <= k) => k = 0) /\ \A i \in 1..k : 1 + i - 1 = i
    BY <1>1
  <2> QED BY <2>1, <2>2
<1>6. /\ SubSeq(s, k + 1, n) \in Seq(X) /\ Len(SubSeq(s, k + 1, n)) = n - k
      /\ \A i \in 1..n-k : SubSeq(s, k + 1, n)[i] = s[k + i]
  <2>1. PICK h \in Int : h = k + 1
    BY <1>2
  <2>2. /\ SubSeq(s, h, n) \in Seq(X)
        /\ Len(SubSeq(s, h, n)) = IF h <= n THEN n - h + 1 ELSE 0
        /\ \A i \in 1..n-h+1 : SubSeq(s, h, n)[i] = s[h + i - 1]
    BY <1>2, <1>4, <2>1, SubSeqProperties
  <2>3. n - h + 1 = n - k /\ (~(h <= n) => n - k = 0) /\ \A i \in 1..n-k : h + i - 1 = k + i
    BY <1>1, <2>1
  <2> QED BY <2>1, <2>2, <2>3
<1>7. s = SubSeq(s, 1, k) \o SubSeq(s, k + 1, n)
  <2>1. k \in 1-1..n /\ n \in k..n /\ 1 \in 1..n+1
    BY <1>1
  <2>2. SubSeq(s, 1, k) \o SubSeq(s, k + 1, n) = SubSeq(s, 1, n)
    BY <1>1, <2>1, ConcatAdjacentSubSeq
  <2>3. SubSeq(s, 1, n) = s
    BY <1>1, SubSeqFull
  <2> QED BY <2>2, <2>3
<1> QED BY <1>1, <1>5, <1>6, <1>7

LEMMA DropFirst ==
  ASSUME NEW X, NEW s \in Seq(X), NEW t \in Seq(X),
         NEW a \in Nat, NEW b \in Nat, a = Len(s), b = Len(t),
         NEW p \in Nat, NEW q \in Nat, p = a + 1, q = a + b
  PROVE  SubSeq(s \o t, p, q) = t
<1> DEFINE u == s \o t
           v == SubSeq(u, a + 1, a + b)
<1>1. PICK c \in Nat : c = a + b
  OBVIOUS
<1>2. /\ u \in Seq(X) /\ Len(u) = c
      /\ \A j \in 1..b : u[a + j] = t[j]
  BY <1>1, Joined
<1> HIDE DEF u
<1>3. a \in 0..Len(u)
  BY <1>1, <1>2
<1>4. /\ v \in Seq(X) /\ Len(v) = c - a
      /\ \A i \in 1..c-a : v[i] = u[a + i]
  BY <1>1, <1>2, <1>3, TakeDrop
<1> HIDE DEF v
<1>5. v \in Seq(X) /\ Len(v) = b /\ \A i \in 1..b : v[i] = t[i]
  <2>1. c - a = b
    BY <1>1
  <2> QED BY <1>2, <1>4, <2>1
<1>6. v = t
  BY <1>5, SeqEqual
<1> QED BY <1>6 DEF u, v

----------------------------------------------------------------------------
(* The lanes of a bundle.                                                  *)

MemAt(us) == {j \in DOMAIN us : IsMem(us[j].class)}
LdAt(us)  == {j \in DOMAIN us : IsLoad(us[j].class)}
StAt(us)  == {j \in DOMAIN us : IsStore(us[j].class)}

\* How many of some lanes there are up to lane j.
UpTo(S, j) == {i \in 1..j : i \in S}

LEMMA CountUpTo ==
  ASSUME NEW n \in Nat, NEW S \in SUBSET (1..n), NEW j \in 0..n
  PROVE  /\ Cardinality(UpTo(S, j)) \in 0..j
         /\ j \in S => Cardinality(UpTo(S, j)) = 1 + Cardinality(Lower(S, j))
         /\ j = n => UpTo(S, j) = S
<1> DEFINE U == {i \in 1..j : i \in S}
<1> UpTo(S, j) = U
  BY DEF UpTo
<1>1. U \in SUBSET (1..j)
  OBVIOUS
<1>2. Cardinality(U) \in 0..j
  <2> HIDE DEF U
  <2> QED BY <1>1, SubsetSize
<1>3. ASSUME j \in S PROVE Cardinality(U) = 1 + Cardinality(Lower(S, j))
  <2>1. U = Lower(S, j) \cup {j} /\ j \notin Lower(S, j)
    <3>1. \A i \in S : i \in 1..j <=> i < j \/ i = j
      BY <1>3
    <3>2. ~(j < j)
      OBVIOUS
    <3> QED BY <1>3, <3>1, <3>2 DEF Lower
  <2>2. S \in SUBSET (0..n)
    OBVIOUS
  <2>3. IsFiniteSet(Lower(S, j)) /\ Cardinality(Lower(S, j)) \in Nat
    BY <2>2, LowerType
  <2> HIDE DEF U
  <2>4. Cardinality(U) = Cardinality(Lower(S, j)) + 1
    BY <2>1, <2>3, FS_AddElement
  <2> QED BY <2>3, <2>4
<1>4. j = n => U = S
  OBVIOUS
<1> QED BY <1>2, <1>3, <1>4
----------------------------------------------------------------------------
(* The memory events of a sequence of uops.                                *)

LEMMA OnlyMemType ==
  ASSUME NEW X, NEW us \in Seq(X), NEW m \in Nat, m = Cardinality(MemAt(us))
  PROVE  /\ MemAt(us) \in SUBSET (1..Len(us)) /\ Len(us) \in Nat /\ m <= Len(us)
         /\ OnlyMem(us) = Kept(us, MemAt(us))
         /\ OnlyMem(us) \in Seq(X) /\ Len(OnlyMem(us)) = m
<1>1. Len(us) \in Nat /\ DOMAIN us = 1..Len(us) /\ \A i \in 1..Len(us) : us[i] \in X
  BY LenProperties, ElementOfSeq
<1>2. MemAt(us) \in SUBSET (1..Len(us))
  BY <1>1 DEF MemAt
<1>3. OnlyMem(us) = Kept(us, MemAt(us))
  BY DEF OnlyMem, MemAt
<1>4. \A i \in MemAt(us) : us[i] \in X
  BY <1>1, <1>2
<1>5. Kept(us, MemAt(us)) \in Seq(X)
  BY <1>1, <1>2, <1>4, KeptType
<1>6. Len(Kept(us, MemAt(us))) = m
  BY <1>1, <1>2, KeptLen
<1>7. m <= Len(us)
  BY <1>1, <1>2, SubsetSize
<1> QED BY <1>1, <1>2, <1>3, <1>5, <1>6, <1>7

LEMMA MemAtFinite ==
  ASSUME NEW X, NEW us \in Seq(X)
  PROVE  Cardinality(MemAt(us)) \in Nat
<1>1. Len(us) \in Nat /\ DOMAIN us = 1..Len(us)
  BY LenProperties
<1>2. MemAt(us) \in SUBSET (1..Len(us))
  BY <1>1 DEF MemAt
<1> QED BY <1>1, <1>2, SubsetSize

LEMMA OnlyMemConcat ==
  ASSUME NEW X, NEW us \in Seq(X), NEW vs \in Seq(X)
  PROVE  OnlyMem(us \o vs) = OnlyMem(us) \o OnlyMem(vs)
<1> DEFINE ws == us \o vs
<1>1. PICK a \in Nat, b \in Nat : a = Len(us) /\ b = Len(vs)
  BY LenProperties
<1>2. /\ ws \in Seq(X) /\ Len(ws) = a + b
      /\ \A i \in 1..a : ws[i] = us[i]
      /\ \A j \in 1..b : ws[a + j] = vs[j]
  BY <1>1, Joined
<1> HIDE DEF ws
<1>3. DOMAIN us = 1..a /\ DOMAIN vs = 1..b /\ DOMAIN ws = 1..a+b
  BY <1>1, <1>2, LenProperties
<1>4. MemAt(us) \in SUBSET (1..a) /\ MemAt(vs) \in SUBSET (1..b)
  BY <1>3 DEF MemAt
<1>5. MemAt(ws) = Parts(MemAt(us), a, MemAt(vs))
  <2>1. ASSUME NEW i \in MemAt(ws) PROVE i \in Parts(MemAt(us), a, MemAt(vs))
    <3>1. i \in 1..a+b /\ IsMem(ws[i].class)
      BY <1>3 DEF MemAt
    <3>2. CASE i \in 1..a
      <4>1. i \in MemAt(us)
        BY <1>2, <1>3, <3>1, <3>2 DEF MemAt
      <4> QED BY <4>1 DEF Parts
    <3>3. CASE i \notin 1..a
      <4>1. PICK j \in 1..b : i = a + j
        <5>1. i - a \in 1..b /\ i = a + (i - a)
          BY <3>1, <3>3
        <5> QED BY <5>1
      <4>2. j \in MemAt(vs)
        BY <1>2, <1>3, <3>1, <4>1 DEF MemAt
      <4> QED BY <4>1, <4>2 DEF Parts
    <3> QED BY <3>2, <3>3
  <2>2. ASSUME NEW i \in MemAt(us) PROVE i \in MemAt(ws)
    <3>1. i \in 1..a /\ IsMem(us[i].class) /\ i \in 1..a+b
      BY <1>3 DEF MemAt
    <3> QED BY <1>2, <1>3, <3>1 DEF MemAt
  <2>3. ASSUME NEW j \in MemAt(vs) PROVE a + j \in MemAt(ws)
    <3>1. j \in 1..b /\ IsMem(vs[j].class) /\ a + j \in 1..a+b
      BY <1>3 DEF MemAt
    <3> QED BY <1>2, <1>3, <3>1 DEF MemAt
  <2> QED BY <2>1, <2>2, <2>3 DEF Parts
<1>6. Kept(us \o vs, Parts(MemAt(us), Len(us), MemAt(vs))) = Kept(us, MemAt(us)) \o Kept(vs, MemAt(vs))
  BY <1>1, <1>4, KeptConcat
<1>7. /\ OnlyMem(ws) = Kept(ws, MemAt(ws))
      /\ OnlyMem(us) = Kept(us, MemAt(us))
      /\ OnlyMem(vs) = Kept(vs, MemAt(vs))
  BY DEF OnlyMem, MemAt
<1> QED BY <1>1, <1>5, <1>6, <1>7 DEF ws

LEMMA EventsType ==
  ASSUME NEW us \in Seq(StreamUop)
  PROVE  /\ Events(us) \in Seq(MemEvent)
         /\ Len(Events(us)) = Len(OnlyMem(us)) /\ Len(OnlyMem(us)) \in Nat
         /\ \A j \in 1..Len(OnlyMem(us)) : Events(us)[j] = OnlyMem(us)[j].ev
<1>1. PICK m \in Nat : m = Cardinality(MemAt(us))
  BY MemAtFinite
<1>2. OnlyMem(us) \in Seq(StreamUop) /\ Len(OnlyMem(us)) = m
  BY <1>1, OnlyMemType
<1>3. \A j \in 1..m : OnlyMem(us)[j].ev \in MemEvent
  <2>1. \A j \in 1..m : OnlyMem(us)[j] \in StreamUop
    BY <1>2, ElementOfSeq
  <2> QED BY <2>1 DEF StreamUop
<1>4. Events(us) = [j \in 1..m |-> OnlyMem(us)[j].ev]
  BY <1>2 DEF Events
<1>5. Events(us) \in Seq(MemEvent)
  <2>1. Events(us) \in [1..m -> MemEvent]
    BY <1>3, <1>4
  <2> QED BY <2>1, IsASeq
<1>6. DOMAIN Events(us) = 1..m
  BY <1>4
<1>7. Len(Events(us)) = m
  BY <1>5, <1>6, LenProperties
<1> QED BY <1>2, <1>4, <1>5, <1>7

LEMMA EventsConcat ==
  ASSUME NEW us \in Seq(StreamUop), NEW vs \in Seq(StreamUop)
  PROVE  Events(us \o vs) = Events(us) \o Events(vs)
<1> DEFINE ws == us \o vs
           A == OnlyMem(us)
           B == OnlyMem(vs)
           C == OnlyMem(ws)
           E == Events(us)
           F == Events(vs)
<1>1. ws \in Seq(StreamUop)
  BY ConcatProperties
<1>2. C = A \o B
  BY OnlyMemConcat
<1>3. /\ A \in Seq(StreamUop) /\ B \in Seq(StreamUop)
  <2>1. PICK m \in Nat, n \in Nat : m = Cardinality(MemAt(us)) /\ n = Cardinality(MemAt(vs))
    BY MemAtFinite
  <2> QED BY <2>1, OnlyMemType
<1>4. PICK a \in Nat, b \in Nat : a = Len(A) /\ b = Len(B)
  BY <1>3, LenProperties
<1>5. /\ Len(A \o B) = a + b
      /\ \A i \in 1..a : (A \o B)[i] = A[i]
      /\ \A j \in 1..b : (A \o B)[a + j] = B[j]
  BY <1>3, <1>4, Joined
<1>6. /\ Events(ws) \in Seq(MemEvent) /\ Len(Events(ws)) = a + b
      /\ \A j \in 1..a+b : Events(ws)[j] = C[j].ev
      /\ E \in Seq(MemEvent) /\ Len(E) = a /\ \A j \in 1..a : E[j] = A[j].ev
      /\ F \in Seq(MemEvent) /\ Len(F) = b /\ \A j \in 1..b : F[j] = B[j].ev
  <2>1. /\ Events(ws) \in Seq(MemEvent) /\ Len(Events(ws)) = Len(C)
        /\ \A j \in 1..Len(C) : Events(ws)[j] = C[j].ev
    BY <1>1, EventsType
  <2>2. /\ E \in Seq(MemEvent) /\ Len(E) = Len(A)
        /\ \A j \in 1..Len(A) : E[j] = A[j].ev
    BY EventsType
  <2>3. /\ F \in Seq(MemEvent) /\ Len(F) = Len(B)
        /\ \A j \in 1..Len(B) : F[j] = B[j].ev
    BY EventsType
  <2>4. Len(C) = a + b
    BY <1>2, <1>5
  <2> HIDE DEF A, B, C, E, F, ws
  <2> QED BY <1>4, <2>1, <2>2, <2>3, <2>4
<1> HIDE DEF A, B, C, E, F, ws
<1>7. /\ E \o F \in Seq(MemEvent) /\ Len(E \o F) = a + b
      /\ \A i \in 1..a : (E \o F)[i] = E[i]
      /\ \A j \in 1..b : (E \o F)[a + j] = F[j]
  <2>1. E \in Seq(MemEvent) /\ F \in Seq(MemEvent) /\ a = Len(E) /\ b = Len(F)
    BY <1>6
  <2> QED BY <2>1, Joined
<1>8. ASSUME NEW k \in 1..a+b PROVE Events(ws)[k] = (E \o F)[k]
  <2>1. CASE k \in 1..a
    <3>1. Events(ws)[k] = C[k].ev
      BY <1>6
    <3>2. C[k] = A[k]
      BY <1>2, <1>5, <2>1
    <3>3. (E \o F)[k] = E[k] /\ E[k] = A[k].ev
      BY <1>6, <1>7, <2>1
    <3> QED BY <3>1, <3>2, <3>3
  <2>2. CASE k \notin 1..a
    <3>1. PICK j \in 1..b : k = a + j
      <4>1. k - a \in 1..b /\ k = a + (k - a)
        BY <2>2
      <4> QED BY <4>1
    <3>2. Events(ws)[k] = C[a + j].ev
      BY <1>6, <3>1
    <3>3. C[a + j] = B[j]
      BY <1>2, <1>5
    <3>4. (E \o F)[a + j] = F[j] /\ F[j] = B[j].ev
      BY <1>6, <1>7
    <3> QED BY <3>1, <3>2, <3>3, <3>4
  <2> QED BY <2>1, <2>2
<1>9. Events(ws) = E \o F
  BY <1>6, <1>7, <1>8, SeqEqual
<1> QED BY <1>9 DEF E, F, ws
----------------------------------------------------------------------------
(* The bundle that is dispatched, and the events it takes with it.         *)

DsUop == [class : {"load", "store", "amo", "other"}, rob : RobIx, ev : MemEvent]

LEMMA StreamType ==
  ASSUME Typed
  PROVE  stream \in Seq(StreamUop) /\ Len(stream) \in Nat \ {0}
<1>1. stream \in Seq(StreamUop) /\ stream # <<>>
  BY MemPathAssumption DEF Typed, StreamUop
<1>2. Len(stream) \in Nat /\ Len(stream) # 0
  BY <1>1, EmptySeq, LenProperties
<1> QED BY <1>1, <1>2

LEMMA FetchedType ==
  ASSUME Typed, NEW f \in Nat
  PROVE  /\ Fetched(f) \in Seq(StreamUop) /\ Len(Fetched(f)) = f
         /\ (pc + f) % Len(stream) \in 0..Len(stream)-1
<1>1. PICK m \in Nat \ {0} : m = Len(stream)
  BY StreamType
<1>2. stream \in Seq(StreamUop) /\ \A i \in 1..m : stream[i] \in StreamUop
  BY <1>1, StreamType, ElementOfSeq
<1>3. pc \in 0..m-1
  BY <1>1 DEF Typed
<1>4. \A j \in 1..f : 1 + ((pc + j - 1) % m) \in 1..m
  BY <1>3
<1>5. Fetched(f) \in [1..f -> StreamUop]
  BY <1>1, <1>2, <1>4 DEF Fetched
<1>6. Fetched(f) \in Seq(StreamUop)
  BY <1>5, IsASeq
<1>7. DOMAIN Fetched(f) = 1..f
  BY DEF Fetched
<1>8. Len(Fetched(f)) = f
  BY <1>6, <1>7, LenProperties
<1>9. (pc + f) % m \in 0..m-1
  BY <1>3
<1> QED BY <1>1, <1>6, <1>8, <1>9

LEMMA DispatchRoom ==
  ASSUME Typed, Rings, NEW k \in Dispatchable
  PROVE  /\ k \in Nat /\ Len(dq) \in Nat /\ k <= Len(dq) /\ k <= W
         /\ k <= ld_max - ld_cnt /\ k <= st_max - st_cnt
         /\ k <= RobRoom /\ RobRoom \in 0..ROB_N
<1>1. PICK d \in Nat : d = Len(dq)
  BY LenProperties DEF Typed
<1>2. RobRoom \in 0..ROB_N
  <2>1. CASE win = <<>>
    BY <2>1, Sizes DEF RobRoom
  <2>2. CASE win # <<>>
    <3>1. win[1].rob \in RobIx
      <4>1. Len(win) \in Nat /\ Len(win) # 0
        BY <2>2, EmptySeq, LenProperties DEF Typed
      <4>2. win[1] \in MemUop
        BY <4>1, ElementOfSeq DEF Typed
      <4> QED BY <4>2 DEF MemUop
    <3>2. (win[1].rob - tail) % ROB_N \in 0..ROB_N-1
      BY <3>1, Sizes, NumberOf DEF Typed, RobIx
    <3>3. \A x \in 0..ROB_N-1 : x \in 0..ROB_N
      BY Sizes
    <3> QED BY <2>2, <3>2, <3>3 DEF RobRoom
  <2> QED BY <2>1, <2>2
<1>3. PICK a \in Int, b \in Int, w \in Nat : a = ld_max - ld_cnt /\ b = st_max - st_cnt /\ w = W
  BY Sizes DEF Rings
<1>4. PICK r \in Nat : r = RobRoom
  BY <1>2, Sizes
<1>5. k \in 0..AtMost(AtMost(d, AtMost(w, AtMost(a, b))), r)
  BY <1>1, <1>3, <1>4 DEF Dispatchable, lsq_nfree
<1>6. k \in Nat /\ k <= d /\ k <= w /\ k <= a /\ k <= b /\ k <= r
  BY <1>5 DEF AtMost
<1> QED BY <1>1, <1>2, <1>3, <1>4, <1>6

LEMMA BundleType ==
  ASSUME Typed, Rings, NEW k \in Dispatchable
  PROVE  /\ Bundle(k) \in Seq(DsUop) /\ Len(Bundle(k)) = k /\ DOMAIN Bundle(k) = 1..k
         /\ \A j \in 1..k : /\ Bundle(k)[j] \in DsUop
                            /\ dq[j] \in StreamUop /\ Bundle(k)[j].class = dq[j].class
                            /\ Bundle(k)[j].ev = dq[j].ev
                            /\ Bundle(k)[j].rob = (tail + j - 1) % ROB_N
<1>1. k \in Nat /\ k <= Len(dq) /\ Len(dq) \in Nat
  BY DispatchRoom
<1>2. Bundle(k) = [j \in 1..k |-> [class |-> dq[j].class, rob |-> (tail + j - 1) % ROB_N, ev |-> dq[j].ev]]
  BY DEF Bundle
<1>3. ASSUME NEW j \in 1..k
      PROVE  /\ dq[j] \in StreamUop
             /\ [class |-> dq[j].class, rob |-> (tail + j - 1) % ROB_N, ev |-> dq[j].ev] \in DsUop
  <2>1. j \in 1..Len(dq)
    BY <1>1
  <2>2. dq[j] \in StreamUop
    BY <2>1, ElementOfSeq DEF Typed
  <2>3. (tail + j - 1) % ROB_N \in RobIx
    <3>1. tail \in Int /\ j \in Int /\ ROB_N \in Nat \ {0}
      BY <1>1, Sizes DEF Typed, RobIx
    <3> QED BY <3>1 DEF RobIx
  <2>4. dq[j].class \in {"load", "store", "amo", "other"} /\ dq[j].ev \in MemEvent
    BY <2>2 DEF StreamUop
  <2>5. \A c \in {"load", "store", "amo", "other"}, r \in RobIx, v \in MemEvent :
          [class |-> c, rob |-> r, ev |-> v] \in DsUop
    BY DEF DsUop
  <2> QED BY <2>2, <2>3, <2>4, <2>5
<1>4. Bundle(k) \in [1..k -> DsUop] /\ DOMAIN Bundle(k) = 1..k
  BY <1>2, <1>3
<1>5. Bundle(k) \in Seq(DsUop)
  BY <1>1, <1>4, IsASeq
<1>6. Len(Bundle(k)) = k
  BY <1>1, <1>4, <1>5, LenProperties
<1>7. \A j \in 1..k : Bundle(k)[j] = [class |-> dq[j].class, rob |-> (tail + j - 1) % ROB_N, ev |-> dq[j].ev]
  BY <1>2
<1> QED BY <1>3, <1>4, <1>5, <1>6, <1>7
\* The memory uops of a bundle, and how many are up to lane j.
LEMMA MemOfBundle ==
  ASSUME Typed, Rings, NEW k \in Dispatchable
  PROVE  /\ MemAt(Bundle(k)) = MemAt(SubSeq(dq, 1, k))
         /\ MemAt(Bundle(k)) = {i \in 1..k : IsMem(dq[i].class)}
         /\ \A j \in 1..k : MemLanes(Bundle(k), j) = Cardinality(UpTo(MemAt(Bundle(k)), j))
         /\ MemLanes(Bundle(k), k) = Cardinality(MemAt(Bundle(k)))
<1>1. k \in Nat /\ k \in 0..Len(dq) /\ Len(dq) \in Nat
  BY DispatchRoom
<1>2. /\ Len(SubSeq(dq, 1, k)) = k /\ \A i \in 1..k : SubSeq(dq, 1, k)[i] = dq[i]
      /\ SubSeq(dq, 1, k) \in Seq(StreamUop)
  BY <1>1, TakeDrop DEF Typed
<1>3. DOMAIN SubSeq(dq, 1, k) = 1..k
  BY <1>2, LenProperties
<1>4. DOMAIN Bundle(k) = 1..k /\ \A i \in 1..k : Bundle(k)[i].class = dq[i].class
  BY BundleType
<1>5. /\ MemAt(SubSeq(dq, 1, k)) = {i \in 1..k : IsMem(dq[i].class)}
      /\ MemAt(Bundle(k)) = {i \in 1..k : IsMem(dq[i].class)}
  BY <1>2, <1>3, <1>4 DEF MemAt
<1>6. ASSUME NEW j \in 1..k
      PROVE  MemLanes(Bundle(k), j) = Cardinality(UpTo(MemAt(Bundle(k)), j))
  <2>1. \A i \in 1..j : i \in 1..k
    BY <1>1
  <2>2. {i \in 1..j : IsMem(Bundle(k)[i].class)} = UpTo(MemAt(Bundle(k)), j)
    BY <1>4, <1>5, <2>1 DEF UpTo
  <2> QED BY <2>2 DEF MemLanes
<1>7. MemLanes(Bundle(k), k) = Cardinality(MemAt(Bundle(k)))
  <2>1. {i \in 1..k : IsMem(Bundle(k)[i].class)} = MemAt(Bundle(k))
    BY <1>4, <1>5
  <2> QED BY <2>1 DEF MemLanes
<1> QED BY <1>5, <1>6, <1>7

\* Dispatch takes the events of its memory uops, and fetch has room for its own.
LEMMA EventsStep ==
  ASSUME Typed, Rings, EventsFollow, NEW k \in Dispatchable, NEW f \in Fetchable(k),
         NEW guess, NEW send, NEW n, Cycle(k, f, guess, send, n)
  PROVE  /\ dq' \in Seq(StreamUop) /\ Len(dq') <= DQ_N
         /\ EventsFollow' /\ Len(me') <= MQN
<1> DEFINE head == SubSeq(dq, 1, k)
           rest == SubSeq(dq, k + 1, Len(dq))
           new  == Fetched(f)
           m    == MemLanes(Bundle(k), k)
           left == SubSeq(me, AtMost(m, Len(me)) + 1, Len(me))
           ev   == Events(new)
<1>1. k \in Nat /\ k \in 0..Len(dq) /\ Len(dq) \in Nat /\ dq \in Seq(StreamUop) /\ Len(dq) <= DQ_N
  BY DispatchRoom DEF Typed
<1>2. f \in Nat /\ f <= DQ_N - Len(dq) + k
  <2>1. PICK d \in Nat : d = Len(dq)
    BY <1>1
  <2>2. f \in 0..AtMost(W, DQ_N - d + k)
    BY <2>1 DEF Fetchable
  <2>3. W \in Nat /\ DQ_N \in Nat
    BY MemPathAssumption, LsuAssumption
  <2>4. f \in Nat /\ f <= DQ_N - d + k
    BY <1>1, <2>1, <2>2, <2>3 DEF AtMost
  <2> QED BY <2>1, <2>4
<1>3. /\ head \in Seq(StreamUop) /\ rest \in Seq(StreamUop) /\ dq = head \o rest
      /\ Len(rest) = Len(dq) - k
  BY <1>1, TakeDrop
<1>4. new \in Seq(StreamUop) /\ Len(new) = f
  BY <1>2, FetchedType
<1>5. dq' = rest \o new
  BY DEF Cycle
<1>6. me' = left \o SubSeq(ev, 1, AtMost(Len(ev), MQN - Len(left)))
  <2>1. Len(Bundle(k)) = k
    BY BundleType
  <2> QED BY <2>1 DEF Cycle, LsuCycle
<1> HIDE DEF head, rest, new
<1>7. dq' \in Seq(StreamUop) /\ Len(dq') <= DQ_N
  <2>1. PICK d \in Nat, r \in Nat : d = Len(dq) /\ r = Len(rest)
    BY <1>1, <1>3, LenProperties
  <2>2. Len(rest \o new) = r + f /\ rest \o new \in Seq(StreamUop)
    BY <1>3, <1>4, <1>2, <2>1, Joined
  <2>3. r + f <= DQ_N
    BY <1>1, <1>2, <1>3, <2>1, MemPathAssumption
  <2> QED BY <1>5, <2>2, <2>3
<1>8. PICK a \in Nat, b \in Nat, c \in Nat :
        a = Len(Events(head)) /\ b = Len(Events(rest)) /\ c = Len(ev)
  BY <1>3, <1>4, EventsType, LenProperties
<1>9. me = Events(head) \o Events(rest) /\ Len(me) = a + b
  <2>1. me = Events(head) \o Events(rest)
    BY <1>3, EventsConcat DEF EventsFollow
  <2>2. Len(Events(head) \o Events(rest)) = a + b
    BY <1>3, <1>8, EventsType, Joined
  <2> QED BY <2>1, <2>2
<1>10. m = a
  <2>1. PICK h \in Nat : h = Cardinality(MemAt(head))
    BY <1>3, MemAtFinite
  <2>2. Len(OnlyMem(head)) = h
    BY <1>3, <2>1, OnlyMemType
  <2>3. a = h
    BY <1>3, <1>8, <2>2, EventsType
  <2>4. m = h
    BY <2>1, MemOfBundle DEF head
  <2> QED BY <2>3, <2>4
<1>11. left = Events(rest)
  <2>1. AtMost(m, Len(me)) = a
    BY <1>9, <1>10 DEF AtMost
  <2>4. Events(head) \in Seq(MemEvent) /\ Events(rest) \in Seq(MemEvent)
    BY <1>3, EventsType
  <2>5. PICK p \in Nat, q \in Nat : p = a + 1 /\ q = a + b
    OBVIOUS
  <2>6. ASSUME NEW x \in Seq(MemEvent), NEW y \in Seq(MemEvent), a = Len(x), b = Len(y)
        PROVE  SubSeq(x \o y, p, q) = y
    BY <2>5, <2>6, DropFirst
  <2>2. SubSeq(Events(head) \o Events(rest), p, q) = Events(rest)
    BY <1>8, <2>4, <2>6
  <2>3. left = SubSeq(Events(head) \o Events(rest), p, q)
    BY <1>9, <2>1, <2>5
  <2> QED BY <2>2, <2>3
<1>12. Events(rest \o new) = Events(rest) \o ev
  BY <1>3, <1>4, EventsConcat
<1> HIDE DEF left, ev, m
<1>13. b + c <= MQN
  <2>1. Len(Events(rest) \o ev) = b + c
    BY <1>3, <1>4, <1>8, EventsType, Joined DEF ev
  <2>2. PICK e \in Nat, o \in Nat : e = Cardinality(MemAt(rest \o new)) /\ o = Len(rest \o new)
    BY <1>5, <1>7, MemAtFinite, LenProperties
  <2>3. Len(OnlyMem(rest \o new)) = e /\ e <= o
    BY <1>5, <1>7, <2>2, OnlyMemType
  <2>4. Len(Events(rest \o new)) = e
    BY <1>5, <1>7, <2>3, EventsType
  <2>5. e = b + c
    BY <1>12, <2>1, <2>4
  <2>6. o <= DQ_N
    BY <1>5, <1>7, <2>2
  <2>7. MQN \in Nat /\ DQ_N \in Nat /\ MQN >= DQ_N
    BY MemPathAssumption, LsuAssumption
  <2> QED BY <2>3, <2>5, <2>6, <2>7
<1>14. me' = Events(rest) \o ev
  <2>1. ev \in Seq(MemEvent)
    BY <1>4, EventsType DEF ev
  <2>2. AtMost(Len(ev), MQN - Len(left)) = c
    <3>1. MQN \in Nat
      BY LsuAssumption
    <3> QED BY <1>8, <1>11, <1>13, <3>1 DEF AtMost
  <2>3. SubSeq(ev, 1, c) = ev
    BY <1>8, <2>1, SubSeqFull
  <2> QED BY <1>6, <1>11, <2>2, <2>3
<1>15. Len(me') <= MQN
  <2>1. Len(Events(rest) \o ev) = b + c
    BY <1>3, <1>4, <1>8, EventsType, Joined DEF ev
  <2> QED BY <1>13, <1>14, <2>1
<1>16. EventsFollow'
  <2>1. me' = Events(dq')
    BY <1>5, <1>12, <1>14
  <2> QED BY <2>1 DEF EventsFollow, Events, OnlyMem, Kept, Nth
<1> QED BY <1>7, <1>15, <1>16
----------------------------------------------------------------------------
(* Rings that lose entries at the old end and win some at the other.       *)

\* The first c places of a ring of m that starts at h.
Places(h, c, m) == {(h + i) % m : i \in 0..c-1}

\* The done entries that leave are the first ones of the ring.
LEMMA DrainedFirst ==
  ASSUME NEW q, NEW m \in Nat \ {0}, NEW h \in 0..m-1, NEW c \in 0..m,
         DOMAIN q = Places(h, c, m)
  PROVE  \E g \in 0..c : /\ Drained(q, h, m) = Places(h, g, m)
                         /\ \A e \in Drained(q, h, m) : e \in DOMAIN q /\ q[e].dn
<1> DEFINE N(e) == (e - h) % m
           Done(e) == q[e].dn
<1>1. DOMAIN q = {e \in 0..m-1 : N(e) < c}
  <2>1. Places(h, c, m) = {e \in 0..m-1 : (e - h) % m < c}
    BY FirstPlaces DEF Places
  <2> QED BY <2>1
<1>2. \A e \in 0..m-1 : N(e) \in 0..m-1
  BY NumberOf
<1>3. \A e, f \in 0..m-1 : N(e) = N(f) => e = f
  <2>1. \A e \in 0..m-1 : (h + N(e)) % m = e
    BY NumberPlace
  <2> QED BY <2>1
<1>4. Drained(q, h, m) = {i \in DOMAIN q : N(i) < 2 /\ \A j \in DOMAIN q : N(j) <= N(i) => Done(j)}
  BY DEF Drained
<1>5. \A i \in 0..m-1 : (h + i) % m \in 0..m-1 /\ N((h + i) % m) = i
  <2> TAKE i \in 0..m-1
  <2>1. i \in 0..m
    OBVIOUS
  <2> QED BY <2>1, PlaceAt, PlaceNumber
<1>6. \A g \in 0..c : Places(h, g, m) = {e \in 0..m-1 : N(e) < g}
  <2> TAKE g \in 0..c
  <2>1. g \in 0..m
    OBVIOUS
  <2> QED BY <2>1, FirstPlaces DEF Places
<1> DEFINE P0 == (h + 0) % m
           P1 == (h + 1) % m
<1>7. 0 < c => P0 \in DOMAIN q /\ N(P0) = 0
  <2>1. 0 \in 0..m-1
    OBVIOUS
  <2> QED BY <1>1, <1>5, <2>1
<1>8. 1 < c => P1 \in DOMAIN q /\ N(P1) = 1
  <2>1. 1 < c => 1 \in 0..m-1
    OBVIOUS
  <2> QED BY <1>1, <1>5, <2>1
<1> HIDE DEF P0, P1, N, Done
<1>9. \A e \in DOMAIN q : e \in 0..m-1 /\ N(e) \in Nat /\ N(e) < c
  BY <1>1, <1>2
<1>10. \E g \in 0..c : Drained(q, h, m) = {e \in 0..m-1 : N(e) < g}
  <2>1. CASE c = 0 \/ (0 < c /\ ~Done(P0))
    <3>1. Drained(q, h, m) = {}
      BY <1>4, <1>7, <1>9, <2>1
    <3>2. {e \in 0..m-1 : N(e) < 0} = {}
      BY <1>2
    <3>3. 0 \in 0..c
      OBVIOUS
    <3> QED BY <3>1, <3>2, <3>3
  <2>2. CASE 0 < c /\ Done(P0) /\ (c = 1 \/ ~Done(P1))
    <3>1. \A e \in DOMAIN q : N(e) = 0 => e = P0
      BY <1>3, <1>7, <1>9, <2>2
    <3>2. ASSUME NEW e \in Drained(q, h, m) PROVE e \in 0..m-1 /\ N(e) < 1
      <4>1. e \in DOMAIN q /\ N(e) < 2 /\ \A j \in DOMAIN q : N(j) <= N(e) => Done(j)
        BY <1>4
      <4>2. CASE c = 1
        BY <1>9, <4>1, <4>2
      <4>3. CASE 1 < c
        <5>1. ~(1 <= N(e))
          <6>1. P1 \in DOMAIN q /\ N(P1) = 1 /\ ~Done(P1)
            BY <1>8, <2>2, <4>3
          <6>2. N(P1) <= N(e) => Done(P1)
            BY <4>1, <6>1
          <6> QED BY <6>1, <6>2
        <5>2. N(e) \in Nat
          BY <1>9, <4>1
        <5>3. e \in 0..m-1
          BY <1>9, <4>1
        <5> QED BY <5>1, <5>2, <5>3
      <4> QED BY <2>2, <4>2, <4>3
    <3>3. ASSUME NEW e \in 0..m-1, N(e) < 1 PROVE e \in Drained(q, h, m)
      <4>0. PICK x \in Nat : x = N(e)
        BY <1>2
      <4>1. e \in DOMAIN q /\ N(e) = 0
        <5>1. x = 0 /\ x < c
          BY <2>2, <3>3, <4>0
        <5> QED BY <1>1, <4>0, <5>1
      <4>2. ASSUME NEW j \in DOMAIN q, N(j) <= N(e) PROVE N(j) = 0
        <5>1. PICK y \in Nat : y = N(j)
          BY <1>9
        <5> QED BY <4>1, <4>2, <5>1
      <4>3. \A j \in DOMAIN q : N(j) <= N(e) => Done(j)
        BY <2>2, <3>1, <4>2
      <4>4. N(e) < 2
        BY <4>1
      <4> QED BY <1>4, <4>1, <4>3, <4>4
    <3>4. 1 \in 0..c
      BY <2>2
    <3> QED BY <3>2, <3>3, <3>4
  <2>3. CASE 1 < c /\ Done(P0) /\ Done(P1)
    <3>1. \A e \in DOMAIN q : (N(e) = 0 => e = P0) /\ (N(e) = 1 => e = P1)
      BY <1>3, <1>7, <1>8, <1>9, <2>3
    <3>2. ASSUME NEW e \in Drained(q, h, m) PROVE e \in 0..m-1 /\ N(e) < 2
      BY <1>4, <1>9
    <3>3. ASSUME NEW e \in 0..m-1, N(e) < 2 PROVE e \in Drained(q, h, m)
      <4>1. e \in DOMAIN q
        <5>1. N(e) \in 0..m-1
          BY <1>2
        <5>2. N(e) < c
          BY <5>1, <2>3, <3>3
        <5> QED BY <1>1, <5>2
      <4>2. ASSUME NEW j \in DOMAIN q, N(j) <= N(e) PROVE N(j) = 0 \/ N(j) = 1
        <5>1. PICK y \in Nat, x \in Nat : y = N(j) /\ x = N(e)
          BY <1>9, <4>1
        <5> QED BY <3>3, <4>2, <5>1
      <4>3. \A j \in DOMAIN q : N(j) <= N(e) => Done(j)
        BY <2>3, <3>1, <4>2
      <4> QED BY <1>4, <3>3, <4>1, <4>3
    <3>4. 2 \in 0..c
      BY <2>3
    <3> QED BY <3>2, <3>3, <3>4
  <2>4. c = 0 \/ 0 < c
    OBVIOUS
  <2>5. c = 1 \/ 1 < c \/ c = 0
    OBVIOUS
  <2> QED BY <2>1, <2>2, <2>3, <2>4, <2>5
<1>11. \A e \in Drained(q, h, m) : e \in DOMAIN q /\ q[e].dn
  <2> TAKE e \in Drained(q, h, m)
  <2>1. e \in DOMAIN q /\ \A j \in DOMAIN q : N(j) <= N(e) => Done(j)
    BY <1>4
  <2>2. N(e) <= N(e)
    BY <1>9, <2>1
  <2> QED BY <2>1, <2>2 DEF Done
<1>12. PICK g \in 0..c : Drained(q, h, m) = {e \in 0..m-1 : N(e) < g}
  BY <1>10
<1>13. Drained(q, h, m) = Places(h, g, m)
  BY <1>6, <1>12
<1> QED BY <1>11, <1>13

\* g entries leave and t are added: the rest and the new ones are one ring.
GoesOn(h, c, g, end, t, m) ==
  /\ (h + g) % m \in 0..m-1 /\ (end + t) % m \in 0..m-1 /\ end \in 0..m-1
  /\ Places(end, t, m) \cap Places(h, c, m) = {}
  /\ (Places(h, c, m) \ Places(h, g, m)) \cup Places(end, t, m)
        = Places((h + g) % m, c - g + t, m)
  /\ (end + t) % m = (((h + g) % m) + (c - g + t)) % m

LEMMA RingStep ==
  ASSUME NEW m \in Nat \ {0}, NEW h \in 0..m-1, NEW c \in 0..m, NEW g \in 0..c,
         NEW t \in Nat, t <= m - c,
         NEW end, end = (h + c) % m
  PROVE  GoesOn(h, c, g, end, t, m)
<1> DEFINE N(e) == (e - h) % m
           D == Places(h, c, m)
           G == Places(h, g, m)
           T == Places(end, t, m)
<1>0. PICK d \in Nat : d = c - g + t /\ d \in 0..m
  OBVIOUS
<1>1. g \in 0..m /\ t \in 0..m
  OBVIOUS
<1>2. PICK k \in 0..m-1 : k = (h + g) % m
  BY <1>1, PlaceAt
<1>3. end \in 0..m-1
  BY PlaceAt
<1>4. (end + t) % m \in 0..m-1
  BY <1>1, <1>3, PlaceAt
<1>5. /\ D = {e \in 0..m-1 : N(e) < c}
      /\ G = {e \in 0..m-1 : N(e) < g}
  BY <1>1, FirstPlaces DEF Places
<1>6. \A e \in 0..m-1 : N(e) \in 0..m-1
  BY NumberOf
<1>7. T = {e \in 0..m-1 : c <= N(e) /\ N(e) < c + t}
  <2>1. T = {e \in 0..m-1 : (e - end) % m < t}
    BY <1>1, <1>3, FirstPlaces DEF Places
  <2>2. ASSUME NEW e \in 0..m-1
        PROVE  (e - end) % m < t <=> c <= N(e) /\ N(e) < c + t
    <3>1. PICK i \in 0..m-1 : i = N(e)
      BY <1>6
    <3>0. /\ c <= (e - h) % m => (e - ((h + c) % m)) % m = ((e - h) % m) - c
          /\ (e - h) % m < c => (e - ((h + c) % m)) % m = ((e - h) % m) - c + m
      BY NumberFrom
    <3>2. /\ c <= N(e) => (e - end) % m = N(e) - c
          /\ N(e) < c => (e - end) % m = N(e) - c + m
      BY <3>0, Zenon
    <3> HIDE DEF N
    <3>3. CASE c <= i
      <4>1. (e - end) % m = i - c
        BY <3>1, <3>2, <3>3
      <4> QED BY <3>1, <3>3, <4>1
    <3>4. CASE i < c
      <4>1. (e - end) % m = i - c + m
        BY <3>1, <3>2, <3>4
      <4> QED BY <3>1, <3>4, <4>1
    <3> QED BY <3>3, <3>4
  <2> QED BY <2>1, <2>2
<1>8. Places(k, d, m) = {e \in 0..m-1 : g <= N(e) /\ N(e) < c + t}
  <2>1. Places(k, d, m) = {e \in 0..m-1 : (e - k) % m < d}
    BY <1>0, FirstPlaces DEF Places
  <2>2. ASSUME NEW e \in 0..m-1
        PROVE  (e - k) % m < d <=> g <= N(e) /\ N(e) < c + t
    <3>1. PICK i \in 0..m-1 : i = N(e)
      BY <1>6
    <3>0. /\ g <= (e - h) % m => (e - ((h + g) % m)) % m = ((e - h) % m) - g
          /\ (e - h) % m < g => (e - ((h + g) % m)) % m = ((e - h) % m) - g + m
      BY <1>1, NumberFrom
    <3>2. /\ g <= N(e) => (e - k) % m = N(e) - g
          /\ N(e) < g => (e - k) % m = N(e) - g + m
      BY <1>2, <3>0, Zenon
    <3> HIDE DEF N
    <3>3. CASE g <= i
      <4>1. (e - k) % m = i - g
        BY <3>1, <3>2, <3>3
      <4> QED BY <1>0, <3>1, <3>3, <4>1
    <3>4. CASE i < g
      <4>1. (e - k) % m = i - g + m
        BY <3>1, <3>2, <3>4
      <4> QED BY <1>0, <3>1, <3>4, <4>1
    <3> QED BY <3>3, <3>4
  <2> QED BY <2>1, <2>2
<1> HIDE DEF N, D, G, T
<1>9. T \cap D = {}
  <2>1. ASSUME NEW e \in 0..m-1, N(e) < c, c <= N(e) PROVE FALSE
    <3>1. PICK x \in Nat : x = N(e)
      BY <1>6
    <3> QED BY <2>1, <3>1
  <2> QED BY <1>5, <1>7, <2>1
<1>10. (D \ G) \cup T = Places(k, d, m)
  <2>1. \A e \in 0..m-1 : (N(e) < c /\ ~(N(e) < g)) \/ (c <= N(e) /\ N(e) < c + t)
                             <=> g <= N(e) /\ N(e) < c + t
    BY <1>6
  <2> QED BY <1>5, <1>7, <1>8, <2>1
<1>11. (end + t) % m = (k + d) % m
  <2>1. /\ h + c < m => end = h + c
        /\ m <= h + c => end = h + c - m
    BY PlaceAt
  <2>2. /\ h + g < m => k = h + g
        /\ m <= h + g => k = h + g - m
    BY <1>1, <1>2, PlaceAt
  <2>0. PICK z \in 0..m-1 : z = end
    BY <1>3
  <2>8. z + t \in Int /\ k + d \in Int
    OBVIOUS
  <2>3. PICK x \in Int, y \in Int : x = z + t /\ y = k + d
    BY <2>8
  <2>4. (x < m => (end + t) % m = x) /\ (m <= x => (end + t) % m = x - m)
    <3>1. /\ z + t < m => (z + t) % m = z + t
          /\ m <= z + t => (z + t) % m = z + t - m
      BY <1>1, PlaceAt
    <3>2. /\ x < m => (z + t) % m = x
          /\ m <= x => (z + t) % m = x - m
      BY <2>3, <3>1
    <3> QED BY <2>0, <3>2
  <2>5. (y < m => (k + d) % m = y) /\ (m <= y => (k + d) % m = y - m)
    <3>1. /\ k + d < m => (k + d) % m = k + d
          /\ m <= k + d => (k + d) % m = k + d - m
      BY <1>0, <1>2, PlaceAt
    <3> QED BY <2>3, <3>1
  <2>6. x = y \/ x + m = y \/ x = y + m
    <3>1. end = h + c \/ end = h + c - m
      BY <2>1
    <3>2. k = h + g \/ k = h + g - m
      BY <2>2
    <3>3. z = h + c \/ z = h + c - m
      BY <2>0, <3>1
    <3> QED BY <1>0, <2>3, <3>2, <3>3
  <2>7. x \in 0..2*m-1 /\ y \in 0..2*m-1
    BY <1>0, <1>1, <1>2, <1>3, <2>3
  <2> QED BY <2>4, <2>5, <2>6, <2>7
<1> QED BY <1>0, <1>2, <1>3, <1>4, <1>9, <1>10, <1>11 DEF D, G, T, GoesOn
----------------------------------------------------------------------------
(* What a cycle does to the queues.                                        *)

\* Lanes that each take the next place of a ring.
PlaceOf(S, end, m, j) == (end + Cardinality(Lower(S, j))) % m
PlacesOf(S, end, m)   == {PlaceOf(S, end, m, j) : j \in S}
Allots(S, end, t, m)  ==
  /\ PlacesOf(S, end, m) = Places(end, t, m)
  /\ \A i, j \in S : PlaceOf(S, end, m, i) = PlaceOf(S, end, m, j) => i = j

LEMMA LanePlaces ==
  ASSUME NEW n \in Nat, NEW S \in SUBSET (1..n), NEW m \in Nat \ {0}, NEW end \in 0..m-1,
         NEW t \in Nat, t = Cardinality(S), t <= m
  PROVE  Allots(S, end, t, m)
<1> DEFINE R(j) == Cardinality(Lower(S, j))
<1>1. S \in SUBSET (0..n)
  OBVIOUS
<1>2. \A j \in S : R(j) \in 0..t-1
  BY <1>1, RankInRange
<1>3. \A i \in 0..t-1 : \E j \in S : R(j) = i
  <2> TAKE i \in 0..t-1
  <2>1. i \in Nat /\ i < Cardinality(S)
    OBVIOUS
  <2> QED BY <1>1, <2>1, RankExists
<1>4. \A i, j \in S : R(i) = R(j) => i = j
  <2> TAKE i \in S, j \in S
  <2>1. i \in Int /\ j \in Int
    OBVIOUS
  <2>2. i < j => R(i) < R(j)
    BY <1>1, RankOrders
  <2>3. j < i => R(j) < R(i)
    BY <1>1, RankOrders
  <2>4. R(i) \in Int /\ R(j) \in Int
    BY <1>2
  <2> QED BY <2>1, <2>2, <2>3, <2>4
<1>5. \A i, j \in 0..t-1 : (end + i) % m = (end + j) % m => i = j
  <2> TAKE i \in 0..t-1, j \in 0..t-1
  <2>1. i \in 0..m-1 /\ j \in 0..m-1
    OBVIOUS
  <2>2. (((end + i) % m) - end) % m = i /\ (((end + j) % m) - end) % m = j
    BY <2>1, PlaceNumber
  <2> QED BY <2>2
<1> HIDE DEF R
<1>6. {(end + R(j)) % m : j \in S} = {(end + i) % m : i \in 0..t-1}
  BY <1>2, <1>3
<1>7. \A i, j \in S : (end + R(i)) % m = (end + R(j)) % m => i = j
  BY <1>2, <1>4, <1>5
<1> QED BY <1>6, <1>7 DEF Allots, PlaceOf, PlacesOf, Places, R

LdPlace(ds, j) == PlaceOf(LdAt(ds), ld_tail, ld_max, j)
NewLdAt(ds)    == {LdPlace(ds, j) : j \in LdAt(ds)}
LdStays        == DOMAIN ldq \ LdGone
StPlace(ds, j) == PlaceOf(StAt(ds), st_tail, st_max, j)
NewStAt(ds)    == {StPlace(ds, j) : j \in StAt(ds)}
StStays        == DOMAIN stq \ StGone
Begun(q)       == {a.idx : a \in {b \in Started : b.q = q}}

\* The entries that drain.
LEMMA LdDrains ==
  ASSUME Rings
  PROVE  \E g \in 0..ld_cnt : /\ LdGone = Places(ld_head, g, ld_max)
                              /\ Cardinality(LdGone) = g
                              /\ \A e \in LdGone : e \in DOMAIN ldq /\ ldq[e].dn
<1>1. ld_max \in Nat \ {0} /\ ld_head \in 0..ld_max-1 /\ ld_cnt \in 0..ld_max
  BY Sizes DEF Rings, LdIx
<1>2. DOMAIN ldq = Places(ld_head, ld_cnt, ld_max)
  BY DEF Rings, RingExact, Places
<1>3. PICK g \in 0..ld_cnt :
         /\ Drained(ldq, ld_head, ld_max) = Places(ld_head, g, ld_max)
         /\ \A e \in Drained(ldq, ld_head, ld_max) : e \in DOMAIN ldq /\ ldq[e].dn
  BY <1>1, <1>2, DrainedFirst
<1>4. g \in 0..ld_max
  BY <1>1
<1>5. Cardinality(Places(ld_head, g, ld_max)) = g
  BY <1>1, <1>4, HowManyPlaces DEF Places
<1> QED BY <1>3, <1>5 DEF LdGone

\* The dispatched lanes all find room.
LEMMA LdRoom ==
  ASSUME Typed, Rings, NEW k \in Dispatchable, NEW j \in 0..k
  PROVE  /\ LdTaken(Bundle(k), j) = LdLanes(Bundle(k), j)
         /\ LdLanes(Bundle(k), j) = Cardinality(UpTo(LdAt(Bundle(k)), j))
         /\ LdAt(Bundle(k)) \in SUBSET (1..k)
         /\ LdLanes(Bundle(k), j) \in 0..j
         /\ j \in LdAt(Bundle(k)) =>
              LdLanes(Bundle(k), j) = 1 + Cardinality(Lower(LdAt(Bundle(k)), j))
<1>1. k \in Nat /\ k <= ld_max - ld_cnt
  BY DispatchRoom
<1>2. DOMAIN Bundle(k) = 1..k
  BY BundleType
<1>3. LdAt(Bundle(k)) \in SUBSET (1..k)
  BY <1>2 DEF LdAt
<1>4. {i \in 1..j : IsLoad(Bundle(k)[i].class)} = UpTo(LdAt(Bundle(k)), j)
  <2>1. \A i \in 1..j : i \in 1..k
    BY <1>1
  <2> QED BY <1>2, <2>1 DEF LdAt, UpTo
<1>5. LdLanes(Bundle(k), j) = Cardinality(UpTo(LdAt(Bundle(k)), j))
  BY <1>4 DEF LdLanes
<1>6. /\ Cardinality(UpTo(LdAt(Bundle(k)), j)) \in 0..j
      /\ j \in LdAt(Bundle(k)) => Cardinality(UpTo(LdAt(Bundle(k)), j))
                                    = 1 + Cardinality(Lower(LdAt(Bundle(k)), j))
  BY <1>1, <1>3, CountUpTo
<1>7. PICK g \in 0..ld_cnt : Cardinality(LdGone) = g
  BY LdDrains
<1>8. PICK l \in Nat : l = LdLanes(Bundle(k), j) /\ l <= k
  BY <1>1, <1>5, <1>6
<1>9. l <= ld_max - LdLeft
  <2>1. ld_cnt \in Nat /\ ld_max \in Nat
    BY Sizes DEF Rings
  <2> QED BY <1>1, <1>7, <1>8, <2>1 DEF LdLeft
<1>10. LdTaken(Bundle(k), j) = l
  <2>1. PICK z \in Int : z = ld_max - LdLeft
    <3>1. ld_cnt \in Nat /\ ld_max \in Nat
      BY Sizes DEF Rings
    <3> QED BY <1>7, <3>1 DEF LdLeft
  <2> QED BY <1>8, <1>9, <2>1 DEF LdTaken, AtMost
<1> QED BY <1>3, <1>5, <1>6, <1>8, <1>10

\* Each lane takes the next place.
LEMMA LdLaneOf ==
  ASSUME Typed, Rings, NEW k \in Dispatchable
  PROVE  /\ \A e : LdLane(Bundle(k), e) = {j \in LdAt(Bundle(k)) : e = LdPlace(Bundle(k), j)}
         /\ \A j \in LdAt(Bundle(k)) : LdPlace(Bundle(k), j) \in LdIx
         /\ {e \in LdIx : LdLane(Bundle(k), e) # {}} = NewLdAt(Bundle(k))
<1> DEFINE ds == Bundle(k)
<1>1. k \in Nat /\ Len(ds) = k /\ DOMAIN ds = 1..k
  BY DispatchRoom, BundleType
<1>2. ld_tail \in 0..ld_max-1 /\ ld_max \in Nat \ {0}
  BY Sizes DEF Rings, LdIx
<1>3. LdAt(ds) = {j \in 1..k : IsLoad(ds[j].class)}
  BY <1>1 DEF LdAt
<1>4. ASSUME NEW j \in LdAt(ds)
      PROVE  /\ LdTaken(ds, j) = LdLanes(ds, j)
             /\ (ld_tail + LdLanes(ds, j) - 1) % ld_max = LdPlace(ds, j)
             /\ LdPlace(ds, j) \in LdIx
  <2>1. j \in 0..k
    BY <1>1, <1>3
  <2>2. LdTaken(ds, j) = LdLanes(ds, j) /\ LdLanes(ds, j) \in 0..j
        /\ LdLanes(ds, j) = 1 + Cardinality(Lower(LdAt(ds), j))
    BY <2>1, LdRoom
  <2>3. LdAt(ds) \in SUBSET (0..k)
    BY <1>1, <1>3
  <2>4. PICK r \in Nat : r = Cardinality(Lower(LdAt(ds), j))
    BY <1>1, <2>3, LowerType
  <2>5. ld_tail + LdLanes(ds, j) - 1 = ld_tail + r
    BY <1>2, <2>2, <2>4
  <2>6. (ld_tail + r) % ld_max \in 0..ld_max-1
    BY <1>2
  <2> QED BY <2>2, <2>4, <2>5, <2>6 DEF LdPlace, PlaceOf, LdIx
<1>5. \A e : LdLane(ds, e) = {j \in 1..k : /\ IsLoad(ds[j].class) /\ LdTaken(ds, j) = LdLanes(ds, j)
                                          /\ e = (ld_tail + LdLanes(ds, j) - 1) % ld_max}
  BY <1>1 DEF LdLane
<1> HIDE DEF ds
<1>6. \A e : LdLane(ds, e) = {j \in LdAt(ds) : e = LdPlace(ds, j)}
  BY <1>3, <1>4, <1>5
<1>7. {e \in LdIx : LdLane(ds, e) # {}} = NewLdAt(ds)
  BY <1>4, <1>6 DEF NewLdAt
<1> QED BY <1>4, <1>6, <1>7 DEF ds

LEMMA LdNext ==
  ASSUME Typed, Rings, NEW k \in Dispatchable, NEW f, NEW guess, NEW send, NEW n,
         Cycle(k, f, guess, send, n)
  PROVE  /\ DOMAIN ldq' = LdStays \cup NewLdAt(Bundle(k))
         /\ NewLdAt(Bundle(k)) \cap DOMAIN ldq = {}
         /\ \A i, j \in LdAt(Bundle(k)) : LdPlace(Bundle(k), i) = LdPlace(Bundle(k), j) => i = j
         /\ \A j \in LdAt(Bundle(k)) :
              ldq'[LdPlace(Bundle(k), j)] = NewLoad(Bundle(k), j, guess)
         /\ \A e \in LdStays : ldq'[e] = [Ld(e) EXCEPT !.st = @ \/ e \in Begun("ld")]
<1> DEFINE ds == Bundle(k)
           N == {e \in 0..ld_max-1 : LdLane(ds, e) # {}}
<1>1. ldq' = [e \in (DOMAIN ldq \ LdGone) \cup N |->
                IF e \in N THEN NewLoad(ds, CHOOSE j \in LdLane(ds, e) : TRUE, guess)
                ELSE [Ld(e) EXCEPT !.st = @ \/ e \in Begun("ld")]]
  BY DEF Cycle, LsuCycle, Begun
<1>2. N = NewLdAt(ds)
  BY LdLaneOf DEF LdIx
<1> HIDE DEF N
<1>3. k \in Nat /\ k <= ld_max - ld_cnt
  BY DispatchRoom
<1>4. /\ ld_max \in Nat \ {0} /\ ld_head \in 0..ld_max-1 /\ ld_cnt \in 0..ld_max
      /\ ld_tail \in 0..ld_max-1 /\ ld_tail = (ld_head + ld_cnt) % ld_max
      /\ DOMAIN ldq = Places(ld_head, ld_cnt, ld_max)
  BY Sizes DEF Rings, LdIx, RingExact, Places
<1>5. LdAt(ds) \in SUBSET (1..k)
  <2>1. k \in 0..k
    BY <1>3
  <2> QED BY <2>1, LdRoom
<1>6. PICK t \in Nat : t = Cardinality(LdAt(ds)) /\ t <= k
  BY <1>3, <1>5, SubsetSize
<1>7. t <= ld_max - ld_cnt /\ t <= ld_max
  BY <1>3, <1>4, <1>6
<1>8. /\ NewLdAt(ds) = Places(ld_tail, t, ld_max)
      /\ \A i, j \in LdAt(ds) : LdPlace(ds, i) = LdPlace(ds, j) => i = j
  <2> HIDE DEF ds
  <2>1. Allots(LdAt(ds), ld_tail, t, ld_max)
    BY <1>3, <1>4, <1>5, <1>6, <1>7, LanePlaces
  <2> QED BY <2>1 DEF Allots, NewLdAt, LdPlace, PlacesOf
<1>9. NewLdAt(ds) \cap DOMAIN ldq = {}
  <2>1. PICK g \in 0..ld_cnt : g = 0
    BY <1>4
  <2>2. GoesOn(ld_head, ld_cnt, g, ld_tail, t, ld_max)
    BY <1>4, <1>7, RingStep
  <2> HIDE DEF ds
  <2> QED BY <1>4, <1>8, <2>2 DEF GoesOn
<1>10. ASSUME NEW j \in LdAt(ds) PROVE ldq'[LdPlace(ds, j)] = NewLoad(ds, j, guess)
  <2>1. LdPlace(ds, j) \in N
    BY <1>2 DEF NewLdAt
  <2>2. LdLane(ds, LdPlace(ds, j)) = {j}
    BY <1>8, LdLaneOf
  <2>3. (CHOOSE i \in LdLane(ds, LdPlace(ds, j)) : TRUE) = j
    BY <2>2
  <2> QED BY <1>1, <2>1, <2>3
<1>11. ASSUME NEW e \in LdStays PROVE ldq'[e] = [Ld(e) EXCEPT !.st = @ \/ e \in Begun("ld")]
  <2>1. e \in DOMAIN ldq /\ e \notin N
    BY <1>2, <1>9 DEF LdStays
  <2> HIDE DEF ds
  <2> QED BY <1>1, <2>1 DEF LdStays
<1>12. DOMAIN ldq' = LdStays \cup NewLdAt(ds)
  BY <1>1, <1>2 DEF LdStays
<1> QED BY <1>8, <1>9, <1>10, <1>11, <1>12
\* The same for the store queue.
LEMMA StDrains ==
  ASSUME Rings
  PROVE  \E g \in 0..st_cnt : /\ StGone = Places(st_head, g, st_max)
                              /\ Cardinality(StGone) = g
                              /\ \A e \in StGone : e \in DOMAIN stq /\ stq[e].dn
<1>1. st_max \in Nat \ {0} /\ st_head \in 0..st_max-1 /\ st_cnt \in 0..st_max
  BY Sizes DEF Rings, StIx
<1>2. DOMAIN stq = Places(st_head, st_cnt, st_max)
  BY DEF Rings, RingExact, Places
<1>3. PICK g \in 0..st_cnt :
         /\ Drained(stq, st_head, st_max) = Places(st_head, g, st_max)
         /\ \A e \in Drained(stq, st_head, st_max) : e \in DOMAIN stq /\ stq[e].dn
  BY <1>1, <1>2, DrainedFirst
<1>4. g \in 0..st_max
  BY <1>1
<1>5. Cardinality(Places(st_head, g, st_max)) = g
  BY <1>1, <1>4, HowManyPlaces DEF Places
<1> QED BY <1>3, <1>5 DEF StGone

LEMMA StRoom ==
  ASSUME Typed, Rings, NEW k \in Dispatchable, NEW j \in 0..k
  PROVE  /\ StTaken(Bundle(k), j) = StLanes(Bundle(k), j)
         /\ StLanes(Bundle(k), j) = Cardinality(UpTo(StAt(Bundle(k)), j))
         /\ StAt(Bundle(k)) \in SUBSET (1..k)
         /\ StLanes(Bundle(k), j) \in 0..j
         /\ j \in StAt(Bundle(k)) =>
              StLanes(Bundle(k), j) = 1 + Cardinality(Lower(StAt(Bundle(k)), j))
<1>1. k \in Nat /\ k <= st_max - st_cnt
  BY DispatchRoom
<1>2. DOMAIN Bundle(k) = 1..k
  BY BundleType
<1>3. StAt(Bundle(k)) \in SUBSET (1..k)
  BY <1>2 DEF StAt
<1>4. {i \in 1..j : IsStore(Bundle(k)[i].class)} = UpTo(StAt(Bundle(k)), j)
  <2>1. \A i \in 1..j : i \in 1..k
    BY <1>1
  <2> QED BY <1>2, <2>1 DEF StAt, UpTo
<1>5. StLanes(Bundle(k), j) = Cardinality(UpTo(StAt(Bundle(k)), j))
  BY <1>4 DEF StLanes
<1>6. /\ Cardinality(UpTo(StAt(Bundle(k)), j)) \in 0..j
      /\ j \in StAt(Bundle(k)) => Cardinality(UpTo(StAt(Bundle(k)), j))
                                    = 1 + Cardinality(Lower(StAt(Bundle(k)), j))
  BY <1>1, <1>3, CountUpTo
<1>7. PICK g \in 0..st_cnt : Cardinality(StGone) = g
  BY StDrains
<1>8. PICK l \in Nat : l = StLanes(Bundle(k), j) /\ l <= k
  BY <1>1, <1>5, <1>6
<1>9. l <= st_max - StLeft
  <2>1. st_cnt \in Nat /\ st_max \in Nat
    BY Sizes DEF Rings
  <2> QED BY <1>1, <1>7, <1>8, <2>1 DEF StLeft
<1>10. StTaken(Bundle(k), j) = l
  <2>1. PICK z \in Int : z = st_max - StLeft
    <3>1. st_cnt \in Nat /\ st_max \in Nat
      BY Sizes DEF Rings
    <3> QED BY <1>7, <3>1 DEF StLeft
  <2> QED BY <1>8, <1>9, <2>1 DEF StTaken, AtMost
<1> QED BY <1>3, <1>5, <1>6, <1>8, <1>10

LEMMA StLaneOf ==
  ASSUME Typed, Rings, NEW k \in Dispatchable
  PROVE  /\ \A e : StLane(Bundle(k), e) = {j \in StAt(Bundle(k)) : e = StPlace(Bundle(k), j)}
         /\ \A j \in StAt(Bundle(k)) : StPlace(Bundle(k), j) \in StIx
         /\ {e \in StIx : StLane(Bundle(k), e) # {}} = NewStAt(Bundle(k))
<1> DEFINE ds == Bundle(k)
<1>1. k \in Nat /\ Len(ds) = k /\ DOMAIN ds = 1..k
  BY DispatchRoom, BundleType
<1>2. st_tail \in 0..st_max-1 /\ st_max \in Nat \ {0}
  BY Sizes DEF Rings, StIx
<1>3. StAt(ds) = {j \in 1..k : IsStore(ds[j].class)}
  BY <1>1 DEF StAt
<1>4. ASSUME NEW j \in StAt(ds)
      PROVE  /\ StTaken(ds, j) = StLanes(ds, j)
             /\ (st_tail + StLanes(ds, j) - 1) % st_max = StPlace(ds, j)
             /\ StPlace(ds, j) \in StIx
  <2>1. j \in 0..k
    BY <1>1, <1>3
  <2>2. StTaken(ds, j) = StLanes(ds, j) /\ StLanes(ds, j) \in 0..j
        /\ StLanes(ds, j) = 1 + Cardinality(Lower(StAt(ds), j))
    BY <2>1, StRoom
  <2>3. StAt(ds) \in SUBSET (0..k)
    BY <1>1, <1>3
  <2>4. PICK r \in Nat : r = Cardinality(Lower(StAt(ds), j))
    BY <1>1, <2>3, LowerType
  <2>5. st_tail + StLanes(ds, j) - 1 = st_tail + r
    BY <1>2, <2>2, <2>4
  <2>6. (st_tail + r) % st_max \in 0..st_max-1
    BY <1>2
  <2> QED BY <2>2, <2>4, <2>5, <2>6 DEF StPlace, PlaceOf, StIx
<1>5. \A e : StLane(ds, e) = {j \in 1..k : /\ IsStore(ds[j].class) /\ StTaken(ds, j) = StLanes(ds, j)
                                          /\ e = (st_tail + StLanes(ds, j) - 1) % st_max}
  BY <1>1 DEF StLane
<1> HIDE DEF ds
<1>6. \A e : StLane(ds, e) = {j \in StAt(ds) : e = StPlace(ds, j)}
  BY <1>3, <1>4, <1>5
<1>7. {e \in StIx : StLane(ds, e) # {}} = NewStAt(ds)
  BY <1>4, <1>6 DEF NewStAt
<1> QED BY <1>4, <1>6, <1>7 DEF ds

LEMMA StNext ==
  ASSUME Typed, Rings, NEW k \in Dispatchable, NEW f, NEW guess, NEW send, NEW n,
         Cycle(k, f, guess, send, n)
  PROVE  /\ DOMAIN stq' = StStays \cup NewStAt(Bundle(k))
         /\ NewStAt(Bundle(k)) \cap DOMAIN stq = {}
         /\ \A i, j \in StAt(Bundle(k)) : StPlace(Bundle(k), i) = StPlace(Bundle(k), j) => i = j
         /\ \A j \in StAt(Bundle(k)) :
              stq'[StPlace(Bundle(k), j)] = NewStore(Bundle(k), j)
         /\ \A e \in StStays : stq'[e] = [St(e) EXCEPT !.st = @ \/ e \in Begun("st")]
<1> DEFINE ds == Bundle(k)
           N == {e \in 0..st_max-1 : StLane(ds, e) # {}}
<1>1. stq' = [e \in (DOMAIN stq \ StGone) \cup N |->
                IF e \in N THEN NewStore(ds, CHOOSE j \in StLane(ds, e) : TRUE)
                ELSE [St(e) EXCEPT !.st = @ \/ e \in Begun("st")]]
  BY DEF Cycle, LsuCycle, Begun
<1>2. N = NewStAt(ds)
  BY StLaneOf DEF StIx
<1> HIDE DEF N
<1>3. k \in Nat /\ k <= st_max - st_cnt
  BY DispatchRoom
<1>4. /\ st_max \in Nat \ {0} /\ st_head \in 0..st_max-1 /\ st_cnt \in 0..st_max
      /\ st_tail \in 0..st_max-1 /\ st_tail = (st_head + st_cnt) % st_max
      /\ DOMAIN stq = Places(st_head, st_cnt, st_max)
  BY Sizes DEF Rings, StIx, RingExact, Places
<1>5. StAt(ds) \in SUBSET (1..k)
  <2>1. k \in 0..k
    BY <1>3
  <2> QED BY <2>1, StRoom
<1>6. PICK t \in Nat : t = Cardinality(StAt(ds)) /\ t <= k
  BY <1>3, <1>5, SubsetSize
<1>7. t <= st_max - st_cnt /\ t <= st_max
  BY <1>3, <1>4, <1>6
<1>8. /\ NewStAt(ds) = Places(st_tail, t, st_max)
      /\ \A i, j \in StAt(ds) : StPlace(ds, i) = StPlace(ds, j) => i = j
  <2> HIDE DEF ds
  <2>1. Allots(StAt(ds), st_tail, t, st_max)
    BY <1>3, <1>4, <1>5, <1>6, <1>7, LanePlaces
  <2> QED BY <2>1 DEF Allots, NewStAt, StPlace, PlacesOf
<1>9. NewStAt(ds) \cap DOMAIN stq = {}
  <2>1. PICK g \in 0..st_cnt : g = 0
    BY <1>4
  <2>2. GoesOn(st_head, st_cnt, g, st_tail, t, st_max)
    BY <1>4, <1>7, RingStep
  <2> HIDE DEF ds
  <2> QED BY <1>4, <1>8, <2>2 DEF GoesOn
<1>10. ASSUME NEW j \in StAt(ds) PROVE stq'[StPlace(ds, j)] = NewStore(ds, j)
  <2>1. StPlace(ds, j) \in N
    BY <1>2 DEF NewStAt
  <2>2. StLane(ds, StPlace(ds, j)) = {j}
    BY <1>8, StLaneOf
  <2>3. (CHOOSE i \in StLane(ds, StPlace(ds, j)) : TRUE) = j
    BY <2>2
  <2> QED BY <1>1, <2>1, <2>3
<1>11. ASSUME NEW e \in StStays PROVE stq'[e] = [St(e) EXCEPT !.st = @ \/ e \in Begun("st")]
  <2>1. e \in DOMAIN stq /\ e \notin N
    BY <1>2, <1>9 DEF StStays
  <2> HIDE DEF ds
  <2> QED BY <1>1, <2>1 DEF StStays
<1>12. DOMAIN stq' = StStays \cup NewStAt(ds)
  BY <1>1, <1>2 DEF StStays
<1> QED BY <1>8, <1>9, <1>10, <1>11, <1>12

LEMMA RingsNext ==
  ASSUME Typed, Rings, NEW k \in Dispatchable, NEW f, NEW guess, NEW send, NEW n,
         Cycle(k, f, guess, send, n)
  PROVE  Rings'
<1>1. k \in Nat /\ k <= ld_max - ld_cnt /\ k <= st_max - st_cnt /\ k \in 0..k
  BY DispatchRoom
<1> DEFINE ds == Bundle(k)
<1>2. Len(ds) = k
  BY BundleType
<1>3. /\ ld_head' \in LdIx /\ ld_tail' \in LdIx /\ ld_cnt' \in 0..ld_max
      /\ RingExact(ldq', ld_head', ld_tail', ld_cnt', ld_max)
  <2>1. /\ ld_max \in Nat \ {0} /\ ld_head \in 0..ld_max-1 /\ ld_cnt \in 0..ld_max
        /\ ld_tail \in 0..ld_max-1 /\ ld_tail = (ld_head + ld_cnt) % ld_max
        /\ DOMAIN ldq = Places(ld_head, ld_cnt, ld_max)
    BY Sizes DEF Rings, LdIx, RingExact, Places
  <2>2. PICK g \in 0..ld_cnt : /\ LdGone = Places(ld_head, g, ld_max)
                              /\ Cardinality(LdGone) = g
    BY LdDrains
  <2>3. /\ LdAt(ds) \in SUBSET (1..k)
        /\ LdTaken(ds, k) = LdLanes(ds, k)
        /\ LdLanes(ds, k) = Cardinality(UpTo(LdAt(ds), k))
    BY <1>1, LdRoom
  <2>4. UpTo(LdAt(ds), k) = LdAt(ds)
    BY <2>3 DEF UpTo
  <2>5. PICK t \in Nat : t = Cardinality(LdAt(ds)) /\ t <= k
    BY <1>1, <2>3, SubsetSize
  <2>6. t <= ld_max - ld_cnt /\ t <= ld_max
    BY <1>1, <2>1, <2>5
  <2>7. NewLdAt(ds) = Places(ld_tail, t, ld_max)
    <3> HIDE DEF ds
    <3>1. Allots(LdAt(ds), ld_tail, t, ld_max)
      BY <1>1, <2>1, <2>3, <2>5, <2>6, LanePlaces
    <3> QED BY <3>1 DEF Allots, NewLdAt, LdPlace, PlacesOf
  <2>8. /\ ld_head' = (ld_head + g) % ld_max
        /\ ld_tail' = (ld_tail + t) % ld_max
        /\ ld_cnt' = ld_cnt - g + t
    <3>1. /\ ld_head' = (ld_head + Cardinality(LdGone)) % ld_max
          /\ ld_tail' = (ld_tail + LdTaken(ds, Len(ds))) % ld_max
          /\ ld_cnt' = ld_cnt - Cardinality(LdGone) + LdTaken(ds, Len(ds))
      BY DEF Cycle, LsuCycle, LdLeft
    <3> HIDE DEF ds
    <3> QED BY <1>2, <2>2, <2>3, <2>4, <2>5, <3>1
  <2>9. DOMAIN ldq' = (DOMAIN ldq \ LdGone) \cup NewLdAt(ds)
    BY LdNext DEF LdStays
  <2> HIDE DEF ds
  <2>10. /\ (ld_head + g) % ld_max \in 0..ld_max-1 /\ (ld_tail + t) % ld_max \in 0..ld_max-1
         /\ (DOMAIN ldq \ LdGone) \cup NewLdAt(ds)
               = Places((ld_head + g) % ld_max, ld_cnt - g + t, ld_max)
         /\ (ld_tail + t) % ld_max = (((ld_head + g) % ld_max) + (ld_cnt - g + t)) % ld_max
    <3>1. t <= ld_max - ld_cnt
      BY <2>6
    <3>2. GoesOn(ld_head, ld_cnt, g, ld_tail, t, ld_max)
      BY <2>1, <3>1, RingStep
    <3> QED BY <2>1, <2>2, <2>7, <3>2 DEF GoesOn
  <2>11. ld_cnt - g + t \in 0..ld_max
    BY <2>1, <2>6
  <2> QED BY <2>8, <2>9, <2>10, <2>11 DEF RingExact, LdIx, Places
<1>4. /\ st_head' \in StIx /\ st_tail' \in StIx /\ st_cnt' \in 0..st_max
      /\ RingExact(stq', st_head', st_tail', st_cnt', st_max)
  <2>1. /\ st_max \in Nat \ {0} /\ st_head \in 0..st_max-1 /\ st_cnt \in 0..st_max
        /\ st_tail \in 0..st_max-1 /\ st_tail = (st_head + st_cnt) % st_max
        /\ DOMAIN stq = Places(st_head, st_cnt, st_max)
    BY Sizes DEF Rings, StIx, RingExact, Places
  <2>2. PICK g \in 0..st_cnt : /\ StGone = Places(st_head, g, st_max)
                              /\ Cardinality(StGone) = g
    BY StDrains
  <2>3. /\ StAt(ds) \in SUBSET (1..k)
        /\ StTaken(ds, k) = StLanes(ds, k)
        /\ StLanes(ds, k) = Cardinality(UpTo(StAt(ds), k))
    BY <1>1, StRoom
  <2>4. UpTo(StAt(ds), k) = StAt(ds)
    BY <2>3 DEF UpTo
  <2>5. PICK t \in Nat : t = Cardinality(StAt(ds)) /\ t <= k
    BY <1>1, <2>3, SubsetSize
  <2>6. t <= st_max - st_cnt /\ t <= st_max
    BY <1>1, <2>1, <2>5
  <2>7. NewStAt(ds) = Places(st_tail, t, st_max)
    <3> HIDE DEF ds
    <3>1. Allots(StAt(ds), st_tail, t, st_max)
      BY <1>1, <2>1, <2>3, <2>5, <2>6, LanePlaces
    <3> QED BY <3>1 DEF Allots, NewStAt, StPlace, PlacesOf
  <2>8. /\ st_head' = (st_head + g) % st_max
        /\ st_tail' = (st_tail + t) % st_max
        /\ st_cnt' = st_cnt - g + t
    <3>1. /\ st_head' = (st_head + Cardinality(StGone)) % st_max
          /\ st_tail' = (st_tail + StTaken(ds, Len(ds))) % st_max
          /\ st_cnt' = st_cnt - Cardinality(StGone) + StTaken(ds, Len(ds))
      BY DEF Cycle, LsuCycle, StLeft
    <3> HIDE DEF ds
    <3> QED BY <1>2, <2>2, <2>3, <2>4, <2>5, <3>1
  <2>9. DOMAIN stq' = (DOMAIN stq \ StGone) \cup NewStAt(ds)
    BY StNext DEF StStays
  <2> HIDE DEF ds
  <2>10. /\ (st_head + g) % st_max \in 0..st_max-1 /\ (st_tail + t) % st_max \in 0..st_max-1
         /\ (DOMAIN stq \ StGone) \cup NewStAt(ds)
               = Places((st_head + g) % st_max, st_cnt - g + t, st_max)
         /\ (st_tail + t) % st_max = (((st_head + g) % st_max) + (st_cnt - g + t)) % st_max
    <3>1. t <= st_max - st_cnt
      BY <2>6
    <3>2. GoesOn(st_head, st_cnt, g, st_tail, t, st_max)
      BY <2>1, <3>1, RingStep
    <3> QED BY <2>1, <2>2, <2>7, <3>2 DEF GoesOn
  <2>11. st_cnt - g + t \in 0..st_max
    BY <2>1, <2>6
  <2> QED BY <2>8, <2>9, <2>10, <2>11 DEF RingExact, StIx, Places
<1> QED BY <1>3, <1>4 DEF Rings, LdIx, StIx, ld_max, st_max
----------------------------------------------------------------------------
(* The fields of the entries after a cycle.                                *)

LEMMA LdFields ==
  ASSUME Typed, NEW e \in DOMAIN ldq
  PROVE  /\ ldq[e] \in LdEntry
         /\ Ld(e).rob = ldq[e].rob /\ Ld(e).ev = ldq[e].ev /\ Ld(e).wid = ldq[e].wid
         /\ Ld(e).st = ldq[e].st
         /\ Ld(e).blk <=> ldq[e].blk /\ ldq[e].wid \notin StGone
         /\ Ld(e).dn <=> ldq[e].dn \/ e \in LineDone("ld") \/ \E m \in Reported : ms[m].ldq = e
         /\ Ld(e).ar <=> ldq[e].ar \/ ldq[e].rob \in Popped
         /\ Ld(e) \in LdEntry
         /\ [Ld(e) EXCEPT !.st = @ \/ e \in Begun("ld")] \in LdEntry
         /\ [Ld(e) EXCEPT !.st = @ \/ e \in Begun("ld")].st <=> ldq[e].st \/ e \in Begun("ld")
         /\ \A g \in {"rob", "ev", "wid", "blk", "dn", "ar"} :
              [Ld(e) EXCEPT !.st = @ \/ e \in Begun("ld")][g] = Ld(e)[g]
<1>1. ldq[e] \in LdEntry
  BY DEF Typed
<1>2. PICK b \in BOOLEAN : b <=> ldq[e].blk /\ ldq[e].wid \notin StGone
  <2>1. (ldq[e].blk /\ ldq[e].wid \notin StGone) \in BOOLEAN
    OBVIOUS
  <2> QED BY <2>1, Zenon
<1>3. PICK d \in BOOLEAN : d <=> ldq[e].dn \/ e \in LineDone("ld") \/ \E m \in Reported : ms[m].ldq = e
  OBVIOUS
<1>4. PICK a \in BOOLEAN : a <=> ldq[e].ar \/ ldq[e].rob \in Popped
  OBVIOUS
<1>5. PICK t \in BOOLEAN : t <=> ldq[e].st \/ e \in Begun("ld")
  OBVIOUS
<1>6. Ld(e) = [ldq[e] EXCEPT !.blk = b, !.dn = d, !.ar = a]
  <2>1. /\ (ldq[e].blk /\ ldq[e].wid \notin StGone) = b
        /\ (ldq[e].dn \/ e \in LineDone("ld") \/ \E m \in Reported : ms[m].ldq = e) = d
        /\ (ldq[e].ar \/ ldq[e].rob \in Popped) = a
    <3>1. (ldq[e].blk /\ ldq[e].wid \notin StGone) = b
      BY <1>2
    <3>2. (ldq[e].dn \/ e \in LineDone("ld") \/ \E m \in Reported : ms[m].ldq = e) = d
      BY <1>3
    <3>3. (ldq[e].ar \/ ldq[e].rob \in Popped) = a
      BY <1>4
    <3> QED BY <3>1, <3>2, <3>3
  <2> QED BY <2>1, Zenon DEF Ld
<1> HIDE DEF LdEntry
<1>7. /\ Ld(e) \in LdEntry
      /\ Ld(e).rob = ldq[e].rob /\ Ld(e).ev = ldq[e].ev /\ Ld(e).wid = ldq[e].wid
      /\ Ld(e).st = ldq[e].st /\ Ld(e).blk = b /\ Ld(e).dn = d /\ Ld(e).ar = a
  BY <1>1, <1>6 DEF LdEntry
<1> DEFINE x == Ld(e)
           y == [x EXCEPT !.st = t]
<1>8. [Ld(e) EXCEPT !.st = @ \/ e \in Begun("ld")] = y
  <2>1. (Ld(e).st \/ e \in Begun("ld")) = t
    BY <1>5, <1>7
  <2> QED BY <2>1, Zenon
<1> HIDE DEF x
<1>9. /\ y \in LdEntry /\ y.st = t
      /\ \A g \in {"rob", "ev", "wid", "blk", "dn", "ar"} : y[g] = x[g]
  <2>1. x \in LdEntry
    BY <1>7 DEF x
  <2> QED BY <2>1 DEF LdEntry
<1> HIDE DEF y
<1>10. /\ [Ld(e) EXCEPT !.st = @ \/ e \in Begun("ld")] \in LdEntry
       /\ [Ld(e) EXCEPT !.st = @ \/ e \in Begun("ld")].st <=> ldq[e].st \/ e \in Begun("ld")
  BY <1>5, <1>8, <1>9
<1>11. \A g \in {"rob", "ev", "wid", "blk", "dn", "ar"} :
              [Ld(e) EXCEPT !.st = @ \/ e \in Begun("ld")][g] = Ld(e)[g]
  BY <1>8, <1>9 DEF x
<1>12. Ld(e).blk <=> ldq[e].blk /\ ldq[e].wid \notin StGone
  BY <1>2, <1>7
<1>13. Ld(e).dn <=> ldq[e].dn \/ e \in LineDone("ld") \/ \E m \in Reported : ms[m].ldq = e
  BY <1>3, <1>7
<1>14. Ld(e).ar <=> ldq[e].ar \/ ldq[e].rob \in Popped
  BY <1>4, <1>7
<1> QED BY <1>1, <1>7, <1>10, <1>11, <1>12, <1>13, <1>14
LEMMA StFields ==
  ASSUME Typed, NEW e \in DOMAIN stq
  PROVE  /\ stq[e] \in StEntry
         /\ St(e).rob = stq[e].rob /\ St(e).noacc = stq[e].noacc
         /\ St(e).st = stq[e].st
         /\ St(e).dn <=> stq[e].dn \/ e \in LineDone("st")
         /\ St(e).ar <=> stq[e].ar \/ stq[e].rob \in Popped
         /\ St(e) \in StEntry
         /\ [St(e) EXCEPT !.st = @ \/ e \in Begun("st")] \in StEntry
         /\ [St(e) EXCEPT !.st = @ \/ e \in Begun("st")].st <=> stq[e].st \/ e \in Begun("st")
         /\ \A g \in {"rob", "noacc", "dn", "ar"} :
              [St(e) EXCEPT !.st = @ \/ e \in Begun("st")][g] = St(e)[g]
<1>1. stq[e] \in StEntry
  BY DEF Typed
<1>3. PICK d \in BOOLEAN : d <=> stq[e].dn \/ e \in LineDone("st")
  OBVIOUS
<1>4. PICK a \in BOOLEAN : a <=> stq[e].ar \/ stq[e].rob \in Popped
  OBVIOUS
<1>5. PICK t \in BOOLEAN : t <=> stq[e].st \/ e \in Begun("st")
  OBVIOUS
<1>6. St(e) = [stq[e] EXCEPT !.dn = d, !.ar = a]
  <2>1. /\ (stq[e].dn \/ e \in LineDone("st")) = d
        /\ (stq[e].ar \/ stq[e].rob \in Popped) = a
    <3>2. (stq[e].dn \/ e \in LineDone("st")) = d
      BY <1>3
    <3>3. (stq[e].ar \/ stq[e].rob \in Popped) = a
      BY <1>4
    <3> QED BY <3>2, <3>3
  <2> QED BY <2>1, Zenon DEF St
<1> HIDE DEF StEntry
<1>7. /\ St(e) \in StEntry
      /\ St(e).rob = stq[e].rob /\ St(e).noacc = stq[e].noacc
      /\ St(e).st = stq[e].st /\ St(e).dn = d /\ St(e).ar = a
  BY <1>1, <1>6 DEF StEntry
<1> DEFINE x == St(e)
           y == [x EXCEPT !.st = t]
<1>8. [St(e) EXCEPT !.st = @ \/ e \in Begun("st")] = y
  <2>1. (St(e).st \/ e \in Begun("st")) = t
    BY <1>5, <1>7
  <2> QED BY <2>1, Zenon
<1> HIDE DEF x
<1>9. /\ y \in StEntry /\ y.st = t
      /\ \A g \in {"rob", "noacc", "dn", "ar"} : y[g] = x[g]
  <2>1. x \in StEntry
    BY <1>7 DEF x
  <2> QED BY <2>1 DEF StEntry
<1> HIDE DEF y
<1>10. /\ [St(e) EXCEPT !.st = @ \/ e \in Begun("st")] \in StEntry
       /\ [St(e) EXCEPT !.st = @ \/ e \in Begun("st")].st <=> stq[e].st \/ e \in Begun("st")
  BY <1>5, <1>8, <1>9
<1>11. \A g \in {"rob", "noacc", "dn", "ar"} :
              [St(e) EXCEPT !.st = @ \/ e \in Begun("st")][g] = St(e)[g]
  BY <1>8, <1>9 DEF x
<1>13. St(e).dn <=> stq[e].dn \/ e \in LineDone("st")
  BY <1>3, <1>7
<1>14. St(e).ar <=> stq[e].ar \/ stq[e].rob \in Popped
  BY <1>4, <1>7
<1> QED BY <1>1, <1>7, <1>10, <1>11, <1>13, <1>14

\* Entry e, which does not drain, after the cycle.
LdAfter(e, x) ==
  /\ x \in LdEntry
  /\ x.rob = ldq[e].rob /\ x.ev = ldq[e].ev /\ x.wid = ldq[e].wid
  /\ x.st <=> ldq[e].st \/ e \in Begun("ld")
  /\ x.blk <=> ldq[e].blk /\ ldq[e].wid \notin StGone
  /\ x.dn <=> ldq[e].dn \/ e \in LineDone("ld") \/ \E m \in Reported : ms[m].ldq = e
  /\ x.ar <=> ldq[e].ar \/ ldq[e].rob \in Popped
StAfter(e, x) ==
  /\ x \in StEntry
  /\ x.rob = stq[e].rob /\ x.noacc = stq[e].noacc
  /\ x.st <=> stq[e].st \/ e \in Begun("st")
  /\ x.dn <=> stq[e].dn \/ e \in LineDone("st")
  /\ x.ar <=> stq[e].ar \/ stq[e].rob \in Popped

LEMMA LdStep ==
  ASSUME Typed, Rings, NEW k \in Dispatchable, NEW f, NEW guess, NEW send, NEW n,
         Cycle(k, f, guess, send, n), NEW e \in LdStays
  PROVE  e \in DOMAIN ldq /\ LdAfter(e, ldq'[e])
<1>1. e \in DOMAIN ldq
  BY DEF LdStays
<1>2. ldq'[e] = [Ld(e) EXCEPT !.st = @ \/ e \in Begun("ld")]
  BY LdNext
<1> DEFINE x == [Ld(e) EXCEPT !.st = @ \/ e \in Begun("ld")]
<1>3. /\ x \in LdEntry
      /\ x.st <=> ldq[e].st \/ e \in Begun("ld")
      /\ \A g \in {"rob", "ev", "wid", "blk", "dn", "ar"} : x[g] = Ld(e)[g]
  BY <1>1, LdFields
<1> HIDE DEF x
<1>4. x.rob = Ld(e).rob /\ x.ev = Ld(e).ev /\ x.wid = Ld(e).wid
      /\ x.blk = Ld(e).blk /\ x.dn = Ld(e).dn /\ x.ar = Ld(e).ar
  BY <1>3
<1>5. /\ Ld(e).rob = ldq[e].rob /\ Ld(e).ev = ldq[e].ev /\ Ld(e).wid = ldq[e].wid
      /\ Ld(e).blk <=> ldq[e].blk /\ ldq[e].wid \notin StGone
      /\ Ld(e).dn <=> ldq[e].dn \/ e \in LineDone("ld") \/ \E m \in Reported : ms[m].ldq = e
      /\ Ld(e).ar <=> ldq[e].ar \/ ldq[e].rob \in Popped
  BY <1>1, LdFields
<1>6. LdAfter(e, x)
  BY <1>3, <1>4, <1>5 DEF LdAfter
<1> QED BY <1>1, <1>2, <1>6 DEF x

LEMMA StStep ==
  ASSUME Typed, Rings, NEW k \in Dispatchable, NEW f, NEW guess, NEW send, NEW n,
         Cycle(k, f, guess, send, n), NEW e \in StStays
  PROVE  e \in DOMAIN stq /\ StAfter(e, stq'[e])
<1>1. e \in DOMAIN stq
  BY DEF StStays
<1>2. stq'[e] = [St(e) EXCEPT !.st = @ \/ e \in Begun("st")]
  BY StNext
<1> DEFINE x == [St(e) EXCEPT !.st = @ \/ e \in Begun("st")]
<1>3. /\ x \in StEntry
      /\ x.st <=> stq[e].st \/ e \in Begun("st")
      /\ \A g \in {"rob", "noacc", "dn", "ar"} : x[g] = St(e)[g]
  BY <1>1, StFields
<1> HIDE DEF x
<1>4. x.rob = St(e).rob /\ x.noacc = St(e).noacc /\ x.dn = St(e).dn /\ x.ar = St(e).ar
  BY <1>3
<1>5. /\ St(e).rob = stq[e].rob /\ St(e).noacc = stq[e].noacc
      /\ St(e).dn <=> stq[e].dn \/ e \in LineDone("st")
      /\ St(e).ar <=> stq[e].ar \/ stq[e].rob \in Popped
  BY <1>1, StFields
<1>6. StAfter(e, x)
  BY <1>3, <1>4, <1>5 DEF StAfter
<1> QED BY <1>1, <1>2, <1>6 DEF x

\* A memory uop takes its own event from the queue.
LEMMA OwnEvent ==
  ASSUME Typed, Rings, EventsFollow, NEW k \in Dispatchable, NEW j \in MemAt(Bundle(k))
  PROVE  EventOf(Bundle(k), j) = dq[j].ev /\ j \in 1..k /\ dq[j].ev \in MemEvent
<1> DEFINE head == SubSeq(dq, 1, k)
           rest == SubSeq(dq, k + 1, Len(dq))
           M    == MemAt(head)
<1>1. k \in Nat /\ k \in 0..Len(dq) /\ Len(dq) \in Nat /\ dq \in Seq(StreamUop)
  BY DispatchRoom DEF Typed
<1>2. /\ head \in Seq(StreamUop) /\ rest \in Seq(StreamUop) /\ dq = head \o rest
      /\ Len(head) = k /\ \A i \in 1..k : head[i] = dq[i]
  <2>1. head \in Seq(StreamUop) /\ Len(head) = k
    BY <1>1, TakeDrop
  <2>2. rest \in Seq(StreamUop)
    BY <1>1, TakeDrop
  <2>3. dq = head \o rest
    BY <1>1, TakeDrop
  <2>4. \A i \in 1..k : head[i] = dq[i]
    BY <1>1, TakeDrop
  <2> HIDE DEF head, rest
  <2> QED BY <2>1, <2>2, <2>3, <2>4
<1>3. /\ MemAt(Bundle(k)) = M /\ M = {i \in 1..k : IsMem(dq[i].class)}
      /\ \A i \in 1..k : MemLanes(Bundle(k), i) = Cardinality(UpTo(MemAt(Bundle(k)), i))
  BY MemOfBundle
<1>4. j \in 1..k /\ j \in M /\ M \in SUBSET (1..k)
  BY <1>3
<1> HIDE DEF head, rest, M
<1>5. MemLanes(Bundle(k), j) = 1 + Cardinality(Lower(M, j))
  <2>1. Cardinality(UpTo(M, j)) = 1 + Cardinality(Lower(M, j))
    <3>1. j \in 0..k
      BY <1>4
    <3>2. /\ Cardinality(UpTo(M, j)) \in 0..j
          /\ j \in M => Cardinality(UpTo(M, j)) = 1 + Cardinality(Lower(M, j))
      BY <1>1, <1>4, <3>1, CountUpTo
    <3> QED BY <1>4, <3>2
  <2> QED BY <1>3, <1>4, <2>1
<1>6. PICK r \in Nat : r = MemLanes(Bundle(k), j) /\ r \in 1..Cardinality(M) /\ Kept(head, M)[r] = head[j]
  <2>1. /\ 1 + Cardinality(Lower(M, j)) \in 1..Cardinality(M)
        /\ Kept(head, M)[1 + Cardinality(Lower(M, j))] = head[j]
    BY <1>1, <1>4, KeptAt
  <2> QED BY <1>5, <2>1
<1>7. PICK c \in Nat : c = Cardinality(M)
  BY <1>2, MemAtFinite DEF M
<1>8. OnlyMem(head) = Kept(head, M) /\ Len(OnlyMem(head)) = c
  BY <1>2, <1>7, OnlyMemType DEF M
<1>9. /\ Events(head) \in Seq(MemEvent) /\ Len(Events(head)) = c
      /\ Events(head)[r] = dq[j].ev
  <2>1. \A i \in 1..c : Events(head)[i] = OnlyMem(head)[i].ev
    BY <1>2, <1>8, EventsType
  <2>2. OnlyMem(head)[r] = dq[j]
    BY <1>2, <1>4, <1>6, <1>8
  <2> QED BY <1>2, <1>6, <1>7, <1>8, <2>1, <2>2, EventsType
<1>10. PICK d \in Nat : d = Len(Events(rest))
  BY <1>2, EventsType, LenProperties
<1>11. /\ me = Events(head) \o Events(rest) /\ Len(me) = c + d
       /\ \A i \in 1..c : me[i] = Events(head)[i]
  <2>1. me = Events(head) \o Events(rest)
    BY <1>2, EventsConcat DEF EventsFollow
  <2>2. ASSUME NEW x \in Seq(MemEvent), NEW y \in Seq(MemEvent), c = Len(x), d = Len(y)
        PROVE  Len(x \o y) = c + d /\ \A i \in 1..c : (x \o y)[i] = x[i]
    BY <2>2, Joined
  <2>3. Events(rest) \in Seq(MemEvent)
    BY <1>2, EventsType
  <2>4. Events(head) \in Seq(MemEvent) /\ c = Len(Events(head)) /\ d = Len(Events(rest))
    BY <1>9, <1>10
  <2>5. /\ Len(Events(head) \o Events(rest)) = c + d
        /\ \A i \in 1..c : (Events(head) \o Events(rest))[i] = Events(head)[i]
    BY <2>2, <2>3, <2>4
  <2> QED BY <2>1, <2>5
<1>12. r <= Len(me) /\ me[r] = dq[j].ev
  BY <1>6, <1>7, <1>9, <1>11
<1>13. dq[j].ev \in MemEvent
  <2>1. dq[j] \in StreamUop
    BY <1>4, BundleType
  <2> QED BY <2>1 DEF StreamUop
<1> QED BY <1>4, <1>6, <1>12, <1>13 DEF EventOf
----------------------------------------------------------------------------
(* The accesses that start.                                                *)

LdServed(a) == a.q = "ld" /\ a.idx \in LdWants /\ a.rob = ldq[a.idx].rob /\ a.ev = ldq[a.idx].ev
StServed(a) == a.q = "st" /\ a.idx \in StWants /\ a.rob = stq[a.idx].rob
                 /\ a.ev = [miss |-> FALSE, lat |-> ST_LAT]
Ports == Port(1) \cup Port(2)

LEMMA WantsTyped ==
  ASSUME Rings
  PROVE  /\ LdWants \in SUBSET (0..ld_max) /\ StWants \in SUBSET (0..st_max)
         /\ LdWants \in SUBSET LdStays /\ StWants \in SUBSET StStays
         /\ LdStays \in SUBSET LdIx /\ StStays \in SUBSET StIx
         /\ DOMAIN ldq \in SUBSET LdIx /\ DOMAIN stq \in SUBSET StIx
<1>1. /\ ld_max \in Nat \ {0} /\ ld_head \in 0..ld_max-1 /\ ld_cnt \in 0..ld_max
      /\ st_max \in Nat \ {0} /\ st_head \in 0..st_max-1 /\ st_cnt \in 0..st_max
  BY Sizes DEF Rings, LdIx, StIx
<1>2. DOMAIN ldq \in SUBSET LdIx
  <2>1. DOMAIN ldq = {(ld_head + i) % ld_max : i \in 0..ld_cnt-1}
    BY DEF Rings, RingExact
  <2>2. \A i \in 0..ld_cnt-1 : (ld_head + i) % ld_max \in 0..ld_max-1
    BY <1>1
  <2> QED BY <2>1, <2>2 DEF LdIx
<1>3. DOMAIN stq \in SUBSET StIx
  <2>1. DOMAIN stq = {(st_head + i) % st_max : i \in 0..st_cnt-1}
    BY DEF Rings, RingExact
  <2>2. \A i \in 0..st_cnt-1 : (st_head + i) % st_max \in 0..st_max-1
    BY <1>1
  <2> QED BY <2>1, <2>2 DEF StIx
<1>4. LdWants \in SUBSET LdStays /\ StWants \in SUBSET StStays
  BY DEF LdWants, StWants, LdStays, StStays
<1>5. LdStays \in SUBSET LdIx /\ StStays \in SUBSET StIx
  BY <1>2, <1>3 DEF LdStays, StStays
<1>6. LdIx \in SUBSET (0..ld_max) /\ StIx \in SUBSET (0..st_max)
  BY <1>1 DEF LdIx, StIx
<1> QED BY <1>2, <1>3, <1>4, <1>5, <1>6

\* Every access on a port is one that an entry wants.
LEMMA PortsServe ==
  ASSUME NEW a \in Ports
  PROVE  /\ a.port \in {1, 2} /\ a \in Port(a.port)
         /\ LdServed(a) \/ StServed(a)
<1>1. ASSUME NEW k \in {1, 2}, a \in Port(k)
      PROVE  a.port = k /\ (LdServed(a) \/ StServed(a))
  <2>1. CASE a \in {LdAccess(e, k) : e \in Nth(LdWants, k)}
    <3>1. PICK e \in Nth(LdWants, k) : a = LdAccess(e, k)
      BY <2>1
    <3>2. e \in LdWants
      BY DEF Nth
    <3>3. a.q = "ld" /\ a.idx = e /\ a.port = k /\ a.rob = ldq[e].rob /\ a.ev = ldq[e].ev
      BY <3>1 DEF LdAccess
    <3> QED BY <3>2, <3>3 DEF LdServed
  <2>2. CASE a \in {StAccess(e, k) : e \in Nth(StWants, k - Cardinality(LdWants))}
    <3>1. PICK e \in Nth(StWants, k - Cardinality(LdWants)) : a = StAccess(e, k)
      BY <2>2
    <3>2. e \in StWants
      BY DEF Nth
    <3>3. a.q = "st" /\ a.idx = e /\ a.port = k /\ a.rob = stq[e].rob
          /\ a.ev = [miss |-> FALSE, lat |-> ST_LAT]
      BY <3>1 DEF StAccess
    <3> QED BY <3>2, <3>3 DEF StServed
  <2> QED BY <1>1, <2>1, <2>2 DEF Port
<1> QED BY <1>1 DEF Ports

\* Each port has one, and no entry has both.
LEMMA PortsApart ==
  ASSUME Rings, NEW a \in Ports, NEW b \in Ports,
         a.port = b.port \/ (a.q = b.q /\ a.idx = b.idx)
  PROVE  a = b
<1>1. LdWants \in SUBSET (0..ld_max) /\ StWants \in SUBSET (0..st_max)
      /\ ld_max \in Nat /\ st_max \in Nat
  BY WantsTyped, Sizes
<1>2. PICK l \in Nat : l = Cardinality(LdWants)
  BY <1>1, LowerType
<1> DEFINE P(x) == \/ x.q = "ld" /\ x.idx \in Nth(LdWants, x.port) /\ x = LdAccess(x.idx, x.port)
                   \/ x.q = "st" /\ x.idx \in Nth(StWants, x.port - l) /\ x = StAccess(x.idx, x.port)
<1>3. ASSUME NEW x \in Ports PROVE P(x) /\ x.port \in {1, 2}
  <2>1. x.port \in {1, 2} /\ x \in Port(x.port)
    BY PortsServe
  <2>2. PICK k \in {1, 2} : k = x.port
    BY <2>1
  <2>3. CASE x \in {LdAccess(e, k) : e \in Nth(LdWants, k)}
    <3>1. PICK e \in Nth(LdWants, k) : x = LdAccess(e, k)
      BY <2>3
    <3>2. x.q = "ld" /\ x.idx = e
      BY <3>1 DEF LdAccess
    <3> QED BY <2>2, <3>1, <3>2
  <2>4. CASE x \in {StAccess(e, k) : e \in Nth(StWants, k - Cardinality(LdWants))}
    <3>1. PICK e \in Nth(StWants, k - Cardinality(LdWants)) : x = StAccess(e, k)
      BY <2>4
    <3>2. x.q = "st" /\ x.idx = e
      BY <3>1 DEF StAccess
    <3> QED BY <1>2, <2>2, <3>1, <3>2
  <2> QED BY <2>1, <2>2, <2>3, <2>4 DEF Port
<1>4. P(a) /\ P(b) /\ a.port \in {1, 2} /\ b.port \in {1, 2}
  BY <1>3
<1> DEFINE p == a.port
           r == b.port
<1>5. CASE a.q = "ld" /\ b.q = "ld"
  <2>1. a.idx \in Nth(LdWants, p) /\ b.idx \in Nth(LdWants, r)
        /\ a = LdAccess(a.idx, p) /\ b = LdAccess(b.idx, r)
    BY <1>4, <1>5
  <2> HIDE DEF p, r
  <2>2. p = r => a.idx = b.idx
    BY <1>1, <2>1, NthOne
  <2>3. a.idx = b.idx => p - 1 = r - 1
    BY <2>1 DEF Nth
  <2>4. p \in Int /\ r \in Int
    BY <1>4 DEF p, r
  <2>5. p = r /\ a.idx = b.idx
    BY <1>5, <2>2, <2>3, <2>4 DEF p, r
  <2> QED BY <2>1, <2>5
<1>6. CASE a.q = "st" /\ b.q = "st"
  <2>1. a.idx \in Nth(StWants, p - l) /\ b.idx \in Nth(StWants, r - l)
        /\ a = StAccess(a.idx, p) /\ b = StAccess(b.idx, r)
    BY <1>4, <1>6
  <2> HIDE DEF p, r
  <2>4. p \in Int /\ r \in Int
    BY <1>4 DEF p, r
  <2>0. PICK x \in Int, y \in Int : x = p - l /\ y = r - l
    BY <1>2, <2>4
  <2>2. x = y => a.idx = b.idx
    BY <1>1, <2>0, <2>1, NthOne
  <2>3. a.idx = b.idx => x - 1 = y - 1
    BY <2>0, <2>1 DEF Nth
  <2>5. p = r /\ a.idx = b.idx
    BY <1>2, <1>6, <2>0, <2>2, <2>3, <2>4 DEF p, r
  <2> QED BY <2>1, <2>5
<1>7. ASSUME NEW x \in Ports, NEW y \in Ports, x.q = "ld", y.q = "st", x.port = y.port PROVE FALSE
  <2>1. P(x) /\ P(y) /\ x.port \in {1, 2} /\ y.port \in {1, 2}
    BY <1>3
  <2>2. x.idx \in Nth(LdWants, x.port) /\ y.idx \in Nth(StWants, x.port - l)
    BY <1>7, <2>1
  <2>3. PICK k \in Int : k = x.port
    BY <2>1
  <2>4. k \in 1..l
    BY <1>1, <1>2, <2>2, <2>3, NthRange
  <2>5. PICK z \in Int : z = k - l
    BY <2>3
  <2>6. z \in 1..Cardinality(StWants)
    BY <1>1, <2>2, <2>3, <2>5, NthRange
  <2>7. Cardinality(StWants) \in Nat
    BY <1>1, LowerType
  <2> QED BY <2>4, <2>5, <2>6, <2>7
<1>8. (a.q = "ld" \/ a.q = "st") /\ (b.q = "ld" \/ b.q = "st")
  BY <1>4
<1> HIDE DEF P
<1>9. CASE a.q # b.q
  <2>1. a.port = b.port
    BY <1>9
  <2> QED BY <1>7, <1>8, <1>9, <2>1
<1> QED BY <1>5, <1>6, <1>8, <1>9
\* Those before an access are one at most.
LEMMA SizeOne ==
  ASSUME NEW S, \A x, y \in S : x = y
  PROVE  /\ IsFiniteSet(S) /\ Cardinality(S) \in {0, 1}
         /\ S = {} <=> Cardinality(S) = 0
<1>1. CASE S = {}
  BY <1>1, FS_EmptySet
<1>2. CASE S # {}
  <2>1. PICK x \in S : S = {x}
    BY <1>2
  <2>2. IsFiniteSet(S) /\ Cardinality(S) = 1
    BY <2>1, FS_Singleton
  <2> QED BY <1>2, <2>2
<1> QED BY <1>1, <1>2

Before(a) == {b \in Ports : b.port < a.port}

LEMMA StartedOf ==
  /\ Started \in SUBSET Ports
  /\ \A a \in Started : Starts(a, Before(a))
<1>1. Started = {a \in Ports : Starts(a, {b \in Ports : b.port < a.port})}
  BY DEF Started, Starting, Ports
<1> QED BY <1>1 DEF Before

LEMMA BeforeOne ==
  ASSUME Rings, NEW a \in Ports, NEW S \in SUBSET Before(a)
  PROVE  /\ IsFiniteSet(S) /\ Cardinality(S) \in {0, 1}
         /\ S = {} <=> Cardinality(S) = 0
         /\ a.port = 1 => S = {}
<1>1. \A b \in Before(a) : b \in Ports /\ b.port = 1 /\ a.port # 1
  <2> TAKE b \in Before(a)
  <2>1. b \in Ports /\ b.port < a.port
    BY DEF Before
  <2>2. a.port \in {1, 2} /\ b.port \in {1, 2}
    BY <2>1, PortsServe
  <2> QED BY <2>1, <2>2
<1>2. \A x, y \in S : x = y
  <2> TAKE x \in S, y \in S
  <2>1. x \in Before(a) /\ y \in Before(a)
    OBVIOUS
  <2>2. x \in Ports /\ y \in Ports /\ x.port = y.port
    BY <1>1, <2>1
  <2> QED BY <2>2, PortsApart
<1>3. a.port = 1 => S = {}
  BY <1>1
<1> QED BY <1>2, <1>3, SizeOne

\* The misses that start before an access, and its miss register.
MissesBefore(a) == {b \in Started : b.ev.miss /\ b.port < a.port}

LEMMA MissInOf ==
  ASSUME NEW m
  PROVE  MissIn(Started, m) = {a \in Started : a.ev.miss /\ m \in Nth(MsFree, 1 + Cardinality(MissesBefore(a)))}
BY DEF MissIn, MissesBefore

LEMMA MissesBeforeOf ==
  ASSUME Rings, NEW a \in Started
  PROVE  /\ a \in Ports /\ MissesBefore(a) \in SUBSET Before(a)
         /\ Cardinality(MissesBefore(a)) \in {0, 1}
         /\ MissesBefore(a) = {} <=> Cardinality(MissesBefore(a)) = 0
<1>1. a \in Ports
  BY StartedOf
<1>2. MissesBefore(a) \in SUBSET Before(a)
  BY StartedOf DEF MissesBefore, Before
<1> QED BY <1>1, <1>2, BeforeOne

LEMMA MissOnly ==
  ASSUME Rings, NEW m, NEW a \in MissIn(Started, m)
  PROVE  /\ a \in Started /\ a.ev.miss /\ m \in MsFree
         /\ MissIn(Started, m) = {a}
<1>1. \A b \in MissIn(Started, m) :
        b \in Started /\ b.ev.miss /\ m \in Nth(MsFree, 1 + Cardinality(MissesBefore(b)))
  BY MissInOf
<1>2. m \in MsFree
  BY <1>1 DEF Nth
<1>3. ASSUME NEW x \in MissIn(Started, m), NEW y \in MissIn(Started, m), x.port < y.port
      PROVE  FALSE
  <2>1. x \in MissesBefore(y)
    BY <1>1, <1>3 DEF MissesBefore
  <2>2. PICK i \in {0, 1} : i = Cardinality(MissesBefore(x))
    BY <1>1, MissesBeforeOf
  <2>3. PICK j \in {0, 1} : j = Cardinality(MissesBefore(y))
    BY <1>1, MissesBeforeOf
  <2>4. j = 1
    BY <1>1, <2>1, <2>3, MissesBeforeOf
  <2>5. (1 + i) - 1 = (1 + j) - 1
    <3>1. m \in Nth(MsFree, 1 + i) /\ m \in Nth(MsFree, 1 + j)
      BY <1>1, <2>2, <2>3
    <3> QED BY <3>1 DEF Nth
  <2>6. i = 1
    BY <2>4, <2>5
  <2>7. x.port # 1 /\ x.port \in {1, 2} /\ y.port \in {1, 2}
    <3>1. x \in Started /\ y \in Started
      BY <1>1
    <3>2. x \in Ports /\ y \in Ports /\ MissesBefore(x) \in SUBSET Before(x) /\ MissesBefore(x) # {}
      <4>1. x \in Ports /\ y \in Ports
        BY <3>1, MissesBeforeOf
      <4>2. MissesBefore(x) \in SUBSET Before(x)
        BY <3>1, MissesBeforeOf
      <4>3. MissesBefore(x) = {} <=> Cardinality(MissesBefore(x)) = 0
        BY <3>1, MissesBeforeOf
      <4>4. MissesBefore(x) # {}
        BY <2>2, <2>6, <4>3
      <4> QED BY <4>1, <4>2, <4>4
    <3>3. x.port # 1
      BY <3>2, BeforeOne
    <3> QED BY <3>2, <3>3, PortsServe
  <2> QED BY <1>3, <2>7
<1>4. ASSUME NEW b \in MissIn(Started, m) PROVE a = b
  <2>1. a \in Ports /\ b \in Ports
    BY <1>1, StartedOf
  <2>2. a.port \in {1, 2} /\ b.port \in {1, 2}
    BY <2>1, PortsServe
  <2>3. ~(a.port < b.port) /\ ~(b.port < a.port)
    BY <1>3
  <2>4. a.port = b.port
    BY <2>2, <2>3
  <2> QED BY <2>1, <2>4, PortsApart
<1> QED BY <1>1, <1>2, <1>4

LEMMA MsFreeType == MsFree \in SUBSET (0..MSHR_N-1) /\ MsFree \in SUBSET (0..MSHR_N) /\ MSHR_N \in Nat
<1>1. MSHR_N \in Nat /\ MsFree \in SUBSET (0..MSHR_N-1)
  BY Sizes DEF MsFree
<1> QED BY <1>1

\* A miss gets one register.
LEMMA MissRegister ==
  ASSUME Rings, NEW a \in Started, a.ev.miss
  PROVE  /\ \E m \in MsFree : a \in MissIn(Started, m)
         /\ \A m, n : a \in MissIn(Started, m) /\ a \in MissIn(Started, n) => m = n
<1> DEFINE S == {b \in Before(a) : b.ev.miss}
<1>1. Starts(a, Before(a)) /\ a \in Ports
  BY StartedOf
<1>2. Cardinality(MsFree) > Cardinality(S)
  BY <1>1 DEF Starts
<1>3. /\ IsFiniteSet(S) /\ Cardinality(S) \in {0, 1}
      /\ S = {} <=> Cardinality(S) = 0
  <2>1. S \in SUBSET Before(a)
    OBVIOUS
  <2> HIDE DEF S
  <2> QED BY <1>1, <2>1, BeforeOne
<1>4. PICK r \in Nat : r = Cardinality(MissesBefore(a)) /\ r \in {0, 1}
  BY MissesBeforeOf
<1>5. r <= Cardinality(S)
  <2>1. MissesBefore(a) \in SUBSET S
    BY MissesBeforeOf DEF MissesBefore
  <2>2. S = {} => MissesBefore(a) = {}
    BY <2>1
  <2> HIDE DEF S
  <2> QED BY <1>3, <1>4, <2>2, MissesBeforeOf
<1> HIDE DEF S
<1>6. Cardinality(MsFree) \in Nat
  BY MsFreeType, LowerType
<1>7. r < Cardinality(MsFree)
  BY <1>2, <1>3, <1>4, <1>5, <1>6
<1>8. \E m \in MsFree : m \in Nth(MsFree, 1 + r)
  BY <1>7, MsFreeType, NthSome
<1>9. \E m \in MsFree : a \in MissIn(Started, m)
  BY <1>4, <1>8, MissInOf
<1>10. ASSUME NEW m, NEW n, a \in MissIn(Started, m), a \in MissIn(Started, n) PROVE m = n
  <2>1. m \in Nth(MsFree, 1 + r) /\ n \in Nth(MsFree, 1 + r)
    BY <1>4, <1>10, MissInOf
  <2> QED BY <2>1, MsFreeType, NthOne
<1> QED BY <1>9, <1>10
\* The kinds of an access that starts.
LEMMA StartedType ==
  ASSUME Typed, Rings, NEW a \in Started
  PROVE  /\ a \in Ports /\ a.q \in {"ld", "st"} /\ a.idx \in Nat /\ a.rob \in RobIx /\ a.ev \in MemEvent
         /\ LdServed(a) \/ StServed(a)
         /\ a.ev.miss => LdServed(a)
         /\ LdServed(a) => a.idx \in LdIx
         /\ Stage(a.ev.lat) \in 0..HD-1
<1>1. a \in Ports /\ (LdServed(a) \/ StServed(a))
  BY StartedOf, PortsServe
<1>2. ASSUME LdServed(a)
      PROVE  /\ a.q = "ld" /\ a.idx \in LdIx /\ a.idx \in Nat /\ a.rob \in RobIx /\ a.ev \in MemEvent
  <2>1. a.idx \in LdWants /\ a.rob = ldq[a.idx].rob /\ a.ev = ldq[a.idx].ev /\ a.q = "ld"
    BY <1>2 DEF LdServed
  <2>2. a.idx \in DOMAIN ldq /\ a.idx \in LdIx
    BY <2>1, WantsTyped DEF LdStays
  <2>3. ldq[a.idx] \in LdEntry
    BY <2>2 DEF Typed
  <2>4. ldq[a.idx].rob \in RobIx /\ ldq[a.idx].ev \in MemEvent
    BY <2>3 DEF LdEntry
  <2>5. a.idx \in Nat
    BY <2>2, Sizes DEF LdIx
  <2> QED BY <2>1, <2>2, <2>4, <2>5
<1>3. ASSUME StServed(a)
      PROVE  /\ a.q = "st" /\ a.idx \in Nat /\ a.rob \in RobIx /\ a.ev \in MemEvent /\ ~a.ev.miss
             /\ ~LdServed(a)
  <2>1. a.idx \in StWants /\ a.rob = stq[a.idx].rob /\ a.ev = [miss |-> FALSE, lat |-> ST_LAT] /\ a.q = "st"
    BY <1>3 DEF StServed
  <2>2. a.idx \in DOMAIN stq /\ a.idx \in StIx
    BY <2>1, WantsTyped DEF StStays
  <2>3. stq[a.idx] \in StEntry
    BY <2>2 DEF Typed
  <2>4. stq[a.idx].rob \in RobIx
    BY <2>3 DEF StEntry
  <2>5. a.idx \in Nat
    BY <2>2, Sizes DEF StIx
  <2>6. a.ev \in MemEvent /\ ~a.ev.miss
    BY <2>1, LsuAssumption DEF MemEvent
  <2>7. ~LdServed(a)
    BY <2>1 DEF LdServed
  <2> QED BY <2>1, <2>4, <2>5, <2>6, <2>7
<1>4. a.ev.lat \in Nat
  BY <1>1, <1>2, <1>3 DEF MemEvent
<1>5. Stage(a.ev.lat) \in 0..HD-1
  <2>1. PICK l \in Nat, h \in Nat \ {0} : l = a.ev.lat /\ h = HD
    BY <1>4, Sizes
  <2>2. (IF l = 0 THEN 0 ELSE IF l > h THEN h - 1 ELSE l - 1) \in 0..h-1
    OBVIOUS
  <2> QED BY <2>1, <2>2 DEF Stage
<1> QED BY <1>1, <1>2, <1>3, <1>5

\* The miss registers after a cycle.
MsStay  == DOMAIN ms \ MsFreed
MsTaken == {m \in 0..MSHR_N-1 : MissIn(Started, m) # {}}
MsOf(a, flushed) == [cnt |-> a.ev.lat, rob |-> a.rob, ldq |-> a.idx, dead |-> flushed]

LEMMA MsNextOf ==
  ASSUME Typed, Rings, NEW flushed \in BOOLEAN
  PROVE  /\ DOMAIN MsNext(Started, flushed) = MsStay \cup MsTaken
         /\ MsStay \cap MsTaken = {}
         /\ \A m \in MsStay :
              MsNext(Started, flushed)[m] =
                [ms[m] EXCEPT !.cnt = IF @ > 0 THEN @ - 1 ELSE 0, !.dead = @ \/ flushed]
         /\ \A a, m : a \in MissIn(Started, m) =>
              m \in MsTaken /\ MsNext(Started, flushed)[m] = MsOf(a, flushed)
<1> DEFINE N == MsNext(Started, flushed)
<1>1. N = [m \in MsStay \cup MsTaken |->
             IF MissIn(Started, m) # {}
               THEN LET a == CHOOSE a \in MissIn(Started, m) : TRUE
                    IN [cnt |-> a.ev.lat, rob |-> a.rob, ldq |-> a.idx, dead |-> flushed]
               ELSE [ms[m] EXCEPT !.cnt = IF @ > 0 THEN @ - 1 ELSE 0, !.dead = @ \/ flushed]]
  BY DEF MsNext, MsStay, MsTaken
<1> HIDE DEF N
<1>2. ASSUME NEW a, NEW m, a \in MissIn(Started, m)
      PROVE  m \in MsTaken /\ N[m] = MsOf(a, flushed)
  <2>1. m \in MsFree /\ MissIn(Started, m) = {a}
    BY <1>2, MissOnly
  <2>2. m \in 0..MSHR_N-1
    BY <2>1, MsFreeType
  <2>3. m \in MsTaken
    BY <2>1, <2>2 DEF MsTaken
  <2>4. (CHOOSE x \in MissIn(Started, m) : TRUE) = a
    BY <2>1
  <2>5. N[m] = LET x == CHOOSE x \in MissIn(Started, m) : TRUE
               IN [cnt |-> x.ev.lat, rob |-> x.rob, ldq |-> x.idx, dead |-> flushed]
    BY <1>1, <2>1, <2>3
  <2> QED BY <2>3, <2>4, <2>5 DEF MsOf
<1>3. ASSUME NEW m \in MsStay PROVE MissIn(Started, m) = {}
  <2>1. ASSUME NEW a \in MissIn(Started, m) PROVE FALSE
    <3>1. m \in MsFree
      BY MissOnly
    <3> QED BY <3>1 DEF MsFree, MsStay
  <2> QED BY <2>1
<1>4. MsStay \cap MsTaken = {}
  BY <1>3 DEF MsTaken
<1>5. \A m \in MsStay :
        N[m] = [ms[m] EXCEPT !.cnt = IF @ > 0 THEN @ - 1 ELSE 0, !.dead = @ \/ flushed]
  BY <1>1, <1>3
<1>6. DOMAIN N = MsStay \cup MsTaken
  BY <1>1
<1> QED BY <1>2, <1>4, <1>5, <1>6 DEF N

\* Register m after the cycle: the one that counts on, or that of a new miss.
MsAfter(m, x, flushed) ==
  x.rob = ms[m].rob /\ x.ldq = ms[m].ldq /\ (x.dead <=> ms[m].dead \/ flushed)

LEMMA MsKept ==
  ASSUME Typed, Rings, NEW flushed \in BOOLEAN, NEW m \in MsStay
  PROVE  /\ m \in DOMAIN MsNext(Started, flushed) /\ m \in DOMAIN ms
         /\ MsNext(Started, flushed)[m] \in Miss
         /\ MsAfter(m, MsNext(Started, flushed)[m], flushed)
<1>1. m \in DOMAIN ms /\ ms[m] \in Miss
  BY DEF Typed, MsStay
<1>2. PICK c \in Nat : c = IF ms[m].cnt > 0 THEN ms[m].cnt - 1 ELSE 0
  <2>1. PICK x \in Nat : x = ms[m].cnt
    BY <1>1 DEF Miss
  <2>2. (IF x > 0 THEN x - 1 ELSE 0) \in Nat
    OBVIOUS
  <2> QED BY <2>1, <2>2
<1>3. PICK d \in BOOLEAN : d <=> ms[m].dead \/ flushed
  OBVIOUS
<1>4. MsNext(Started, flushed)[m] = [ms[m] EXCEPT !.cnt = c, !.dead = d]
  <2>1. (ms[m].dead \/ flushed) = d
    BY <1>1, <1>3 DEF Miss
  <2>2. MsNext(Started, flushed)[m] =
                [ms[m] EXCEPT !.cnt = IF @ > 0 THEN @ - 1 ELSE 0, !.dead = @ \/ flushed]
    BY MsNextOf
  <2> QED BY <1>2, <2>1, <2>2, Zenon
<1>5. /\ [ms[m] EXCEPT !.cnt = c, !.dead = d] \in Miss
      /\ [ms[m] EXCEPT !.cnt = c, !.dead = d].rob = ms[m].rob
      /\ [ms[m] EXCEPT !.cnt = c, !.dead = d].ldq = ms[m].ldq
      /\ [ms[m] EXCEPT !.cnt = c, !.dead = d].dead = d
  BY <1>1 DEF Miss
<1>6. m \in DOMAIN MsNext(Started, flushed)
  BY MsNextOf
<1> HIDE DEF Miss
<1>7. MsAfter(m, MsNext(Started, flushed)[m], flushed)
  BY <1>3, <1>4, <1>5 DEF MsAfter
<1> QED BY <1>1, <1>4, <1>5, <1>6, <1>7

LEMMA MsNew ==
  ASSUME Typed, Rings, NEW flushed \in BOOLEAN, NEW m \in MsTaken
  PROVE  \E a \in Started : /\ a \in MissIn(Started, m) /\ a.ev.miss /\ LdServed(a)
                            /\ MsNext(Started, flushed)[m] = MsOf(a, flushed)
                            /\ MsOf(a, flushed) \in Miss
<1>1. PICK a : a \in MissIn(Started, m)
  BY DEF MsTaken
<1>2. a \in Started /\ a.ev.miss
  BY <1>1, MissOnly
<1>3. MsNext(Started, flushed)[m] = MsOf(a, flushed)
  BY <1>1, MsNextOf
<1>4. LdServed(a) /\ a.idx \in LdIx /\ a.rob \in RobIx /\ a.ev \in MemEvent
  BY <1>2, StartedType
<1>5. MsOf(a, flushed) \in Miss
  BY <1>4 DEF MsOf, Miss, MemEvent
<1> QED BY <1>1, <1>2, <1>3, <1>4, <1>5

LEMMA MsTyped ==
  ASSUME Typed, Rings, NEW flushed \in BOOLEAN
  PROVE  /\ MsNext(Started, flushed) \in [DOMAIN MsNext(Started, flushed) -> Miss]
         /\ DOMAIN MsNext(Started, flushed) \subseteq 0..MSHR_N-1
<1> DEFINE N == MsNext(Started, flushed)
<1>1. DOMAIN N = MsStay \cup MsTaken
  BY MsNextOf
<1>2. ASSUME NEW m \in DOMAIN N PROVE N[m] \in Miss
  BY <1>1, MsKept, MsNew
<1>3. N = [m \in DOMAIN N |-> N[m]]
  BY DEF MsNext
<1>4. DOMAIN N \subseteq 0..MSHR_N-1
  BY <1>1 DEF MsStay, MsTaken, Typed
<1> HIDE DEF N
<1>5. N \in [DOMAIN N -> Miss]
  BY <1>2, <1>3
<1> QED BY <1>4, <1>5 DEF N
\* The delay line after a cycle.
HitsAt(s)  == {b \in Started : ~b.ev.miss /\ Stage(b.ev.lat) = s}
Entered(a) == [q |-> a.q, idx |-> a.idx, rob |-> a.rob]
LineNext   == [s \in 0..HD-1 |-> Shifted(s) \cup {Entered(a) : a \in HitsAt(s)}]

LEMMA ShiftedType ==
  ASSUME Typed, LineFits, NEW s \in 0..HD-1
  PROVE  /\ Shifted(s) \in SUBSET LineAccess
         /\ IsFiniteSet(Shifted(s)) /\ Cardinality(Shifted(s)) \in 0..2
<1>1. CASE s < HD - 1
  <2>1. s + 1 \in 0..HD-1
    BY <1>1, Sizes
  <2>2. Shifted(s) = hl[s + 1]
    BY <1>1 DEF Shifted
  <2>3. hl[s + 1] \in SUBSET LineAccess
    BY <2>1 DEF Typed
  <2>4. IsFiniteSet(hl[s + 1]) /\ Cardinality(hl[s + 1]) <= 2
    BY <2>1 DEF LineFits
  <2>5. Cardinality(hl[s + 1]) \in Nat
    BY <2>4, FS_CardinalityType
  <2> QED BY <2>2, <2>3, <2>4, <2>5
<1>2. CASE ~(s < HD - 1)
  <2>1. Shifted(s) = {}
    BY <1>2 DEF Shifted
  <2> QED BY <2>1, FS_EmptySet
<1> QED BY <1>1, <1>2

LEMMA HitsFit ==
  ASSUME Typed, Rings, NEW s, NEW a \in HitsAt(s), NEW c \in Nat, c = Cardinality(Shifted(s))
  PROVE  /\ c < 2 /\ a \in Ports
         /\ \A b \in HitsAt(s) : b.port < a.port => c = 0
<1>1. a \in Started /\ ~a.ev.miss /\ Stage(a.ev.lat) = s /\ a \in Ports
  BY StartedOf DEF HitsAt
<1> DEFINE S == {b \in Before(a) : ~b.ev.miss /\ Stage(b.ev.lat) = Stage(a.ev.lat)}
<1>2. c + Cardinality(S) < 2
  <2>1. Starts(a, Before(a))
    BY <1>1, StartedOf
  <2>2. Cardinality(Shifted(Stage(a.ev.lat))) + Cardinality(S) < 2
    BY <1>1, <2>1 DEF Starts
  <2> QED BY <1>1, <2>2
<1>3. Cardinality(S) \in {0, 1} /\ (S = {} <=> Cardinality(S) = 0)
  <2>1. S \in SUBSET Before(a)
    OBVIOUS
  <2> HIDE DEF S
  <2> QED BY <1>1, <2>1, BeforeOne
<1>4. ASSUME NEW b \in HitsAt(s), b.port < a.port PROVE c = 0
  <2>1. b \in S
    BY <1>1, <1>4, StartedOf DEF HitsAt, Before
  <2> HIDE DEF S
  <2> QED BY <1>2, <1>3, <2>1
<1> HIDE DEF S
<1> QED BY <1>1, <1>2, <1>3, <1>4

LEMMA LineNextFits ==
  ASSUME Typed, Rings, LineFits, NEW s \in 0..HD-1
  PROVE  /\ LineNext[s] \in SUBSET LineAccess
         /\ IsFiniteSet(LineNext[s]) /\ Cardinality(LineNext[s]) <= 2
<1> DEFINE S == Shifted(s)
           H == HitsAt(s)
<1>1. LineNext[s] = S \cup {Entered(a) : a \in H}
  BY DEF LineNext
<1>2. S \in SUBSET LineAccess /\ IsFiniteSet(S)
  BY ShiftedType
<1>3. PICK c \in Nat : c = Cardinality(S) /\ c <= 2
  BY ShiftedType
<1>4. \A a \in H : c < 2 /\ a \in Ports /\ \A b \in H : b.port < a.port => c = 0
  BY <1>3, HitsFit
<1>5. \A a \in H : Entered(a) \in LineAccess
  <2> TAKE a \in H
  <2>1. a \in Started
    BY DEF HitsAt
  <2>2. a.q \in {"ld", "st"} /\ a.idx \in Nat /\ a.rob \in RobIx
    BY <2>1, StartedType
  <2> QED BY <2>2 DEF Entered, LineAccess
<1>6. LineNext[s] \in SUBSET LineAccess
  BY <1>1, <1>2, <1>5
<1>7. \A a, b \in H : a.port = b.port => a = b
  BY <1>4, PortsApart
<1>8. \A a \in H : a.port \in {1, 2}
  BY <1>4, PortsServe
<1> HIDE DEF S, H
<1>9. CASE H = {}
  <2>1. LineNext[s] = S
    BY <1>1, <1>9
  <2> QED BY <1>2, <1>3, <1>6, <2>1
<1>10. CASE \E a \in H : H = {a}
  <2>1. PICK a \in H : H = {a}
    BY <1>10
  <2>2. LineNext[s] = S \cup {Entered(a)}
    BY <1>1, <2>1
  <2>3. c < 2
    BY <1>4
  <2>4. /\ IsFiniteSet(S \cup {Entered(a)})
        /\ Cardinality(S \cup {Entered(a)}) = c \/ Cardinality(S \cup {Entered(a)}) = c + 1
    BY <1>2, <1>3, FS_AddElement
  <2> QED BY <1>6, <2>2, <2>3, <2>4
<1>11. CASE \E a, b \in H : a # b
  <2>1. PICK a \in H, b \in H : a.port = 1 /\ b.port = 2
    <3>1. PICK a \in H, b \in H : a # b
      BY <1>11
    <3>2. a.port # b.port
      BY <1>7, <3>1
    <3> QED BY <1>8, <3>2
  <2>2. H = {a, b}
    BY <1>7, <1>8, <2>1
  <2>3. c = 0
    BY <1>4, <2>1
  <2>4. S = {}
    BY <1>2, <1>3, <2>3, FS_EmptySet
  <2>5. LineNext[s] = {Entered(a)} \cup {Entered(b)}
    BY <1>1, <2>2, <2>4
  <2>6. IsFiniteSet({Entered(a)}) /\ Cardinality({Entered(a)}) = 1
    BY FS_Singleton
  <2>7. /\ IsFiniteSet({Entered(a)} \cup {Entered(b)})
        /\ Cardinality({Entered(a)} \cup {Entered(b)}) \in {1, 1 + 1}
    BY <2>6, FS_AddElement
  <2> QED BY <1>6, <2>5, <2>7
<1> QED BY <1>9, <1>10, <1>11
\* The entries that dispatch adds.
LdFresh(k, j, guess, x) ==
  /\ x \in LdEntry
  /\ x.rob = (tail + j - 1) % ROB_N /\ x.ev = dq[j].ev
  /\ ~x.ar /\ ~x.st /\ ~x.dn
  /\ x.blk => StLeft + StTaken(Bundle(k), j) # 0
  /\ x.wid = (st_tail + StTaken(Bundle(k), j) - 1) % st_max
StFresh(j, x) ==
  /\ x \in StEntry
  /\ x.rob = (tail + j - 1) % ROB_N
  /\ ~x.ar /\ ~x.st
  /\ x.dn <=> dq[j].class = "amo"
  /\ x.noacc <=> dq[j].class = "amo"

LEMMA LdAdded ==
  ASSUME Typed, Rings, EventsFollow, NEW k \in Dispatchable, NEW f, NEW guess, NEW send, NEW n,
         Cycle(k, f, guess, send, n), NEW j \in LdAt(Bundle(k))
  PROVE  /\ j \in 1..k /\ IsLoad(dq[j].class) /\ LdPlace(Bundle(k), j) \in DOMAIN ldq'
         /\ LdFresh(k, j, guess, ldq'[LdPlace(Bundle(k), j)])
<1> DEFINE ds == Bundle(k)
           x == NewLoad(ds, j, guess)
<1>1. /\ LdPlace(ds, j) \in DOMAIN ldq'
      /\ ldq'[LdPlace(ds, j)] = x
  <2>1. DOMAIN ldq' = LdStays \cup NewLdAt(ds)
    BY LdNext
  <2>2. \A i \in LdAt(ds) : ldq'[LdPlace(ds, i)] = NewLoad(ds, i, guess)
    BY LdNext
  <2>3. j \in LdAt(ds)
    OBVIOUS
  <2> HIDE DEF ds, x
  <2>4. LdPlace(ds, j) \in NewLdAt(ds)
    BY <2>3, Zenon DEF NewLdAt
  <2>5. ldq'[LdPlace(ds, j)] = NewLoad(ds, j, guess)
    BY <2>2, <2>3, Zenon
  <2> QED BY <2>1, <2>4, <2>5 DEF x
<1>2. DOMAIN ds = 1..k /\ \A i \in 1..k : ds[i].class = dq[i].class /\ ds[i].rob = (tail + i - 1) % ROB_N
  BY BundleType
<1>3. j \in 1..k /\ IsLoad(dq[j].class) /\ j \in MemAt(ds)
  BY <1>2 DEF LdAt, MemAt, IsLoad, IsMem
<1>4. EventOf(ds, j) = dq[j].ev /\ dq[j].ev \in MemEvent
  BY <1>3, OwnEvent
<1>5. StTaken(ds, j) \in Nat
  <2>1. j \in 0..k /\ k \in Nat
    BY <1>3, DispatchRoom
  <2>2. StTaken(ds, j) = StLanes(ds, j) /\ StLanes(ds, j) \in 0..j
    BY <2>1, StRoom
  <2> QED BY <2>1, <2>2
<1> HIDE DEF ds
<1>6. /\ x.rob = (tail + j - 1) % ROB_N /\ x.ev = dq[j].ev
      /\ x.ar = FALSE /\ x.st = FALSE /\ x.dn = FALSE
      /\ x.blk = (j \in guess /\ StLeft + StTaken(ds, j) # 0)
      /\ x.wid = (st_tail + StTaken(ds, j) - 1) % st_max
      /\ x = [rob |-> x.rob, ar |-> x.ar, st |-> x.st, dn |-> x.dn, ev |-> x.ev,
              blk |-> x.blk, wid |-> x.wid]
  BY <1>2, <1>3, <1>4, Zenon DEF NewLoad
<1> HIDE DEF x
<1>7. x.rob \in RobIx
  <2>1. k \in Nat
    BY DispatchRoom
  <2>2. PICK m \in Nat \ {0}, i \in Nat, t \in Nat : m = ROB_N /\ i = j /\ t = tail
    BY <1>3, <2>1, Sizes DEF Typed, RobIx
  <2>3. (t + i - 1) % m \in 0..m-1
    OBVIOUS
  <2> QED BY <1>6, <2>2, <2>3 DEF RobIx
<1>8. x.wid \in StIx
  BY <1>5, <1>6, Sizes DEF Rings, StIx
<1>9. x.blk \in BOOLEAN /\ (x.blk => StLeft + StTaken(ds, j) # 0)
  BY <1>6
<1>10. x.ar \in BOOLEAN /\ x.st \in BOOLEAN /\ x.dn \in BOOLEAN /\ x.ev \in MemEvent
  BY <1>4, <1>6
<1>11. x \in LdEntry
  <2>1. [rob |-> x.rob, ar |-> x.ar, st |-> x.st, dn |-> x.dn, ev |-> x.ev,
              blk |-> x.blk, wid |-> x.wid] \in LdEntry
    BY <1>7, <1>8, <1>9, <1>10 DEF LdEntry
  <2>2. x = [rob |-> x.rob, ar |-> x.ar, st |-> x.st, dn |-> x.dn, ev |-> x.ev,
              blk |-> x.blk, wid |-> x.wid]
    BY <1>6
  <2> QED BY <2>1, <2>2
<1>12. LdFresh(k, j, guess, x)
  BY <1>6, <1>9, <1>11 DEF LdFresh, ds
<1> QED BY <1>1, <1>3, <1>12 DEF ds

LEMMA StAdded ==
  ASSUME Typed, Rings, NEW k \in Dispatchable, NEW f, NEW guess, NEW send, NEW n,
         Cycle(k, f, guess, send, n), NEW j \in StAt(Bundle(k))
  PROVE  /\ j \in 1..k /\ IsStore(dq[j].class) /\ StPlace(Bundle(k), j) \in DOMAIN stq'
         /\ StFresh(j, stq'[StPlace(Bundle(k), j)])
<1> DEFINE ds == Bundle(k)
           x == NewStore(ds, j)
<1>1. /\ StPlace(ds, j) \in DOMAIN stq'
      /\ stq'[StPlace(ds, j)] = x
  <2>1. DOMAIN stq' = StStays \cup NewStAt(ds)
    BY StNext
  <2>2. \A i \in StAt(ds) : stq'[StPlace(ds, i)] = NewStore(ds, i)
    BY StNext
  <2>3. j \in StAt(ds)
    OBVIOUS
  <2> HIDE DEF ds, x
  <2>4. StPlace(ds, j) \in NewStAt(ds)
    BY <2>3, Zenon DEF NewStAt
  <2>5. stq'[StPlace(ds, j)] = NewStore(ds, j)
    BY <2>2, <2>3, Zenon
  <2> QED BY <2>1, <2>4, <2>5 DEF x
<1>2. DOMAIN ds = 1..k /\ \A i \in 1..k : ds[i].class = dq[i].class /\ ds[i].rob = (tail + i - 1) % ROB_N
  BY BundleType
<1>3. j \in 1..k /\ IsStore(dq[j].class)
  BY <1>2 DEF StAt
<1> HIDE DEF ds
<1>6. /\ x.rob = (tail + j - 1) % ROB_N
      /\ x.ar = FALSE /\ x.st = FALSE
      /\ x.dn = (dq[j].class = "amo") /\ x.noacc = (dq[j].class = "amo")
      /\ x = [rob |-> x.rob, ar |-> x.ar, st |-> x.st, noacc |-> x.noacc, dn |-> x.dn]
  BY <1>2, <1>3, Zenon DEF NewStore
<1> HIDE DEF x
<1>7. x.rob \in RobIx
  <2>1. k \in Nat
    BY DispatchRoom
  <2>2. PICK m \in Nat \ {0}, i \in Nat, t \in Nat : m = ROB_N /\ i = j /\ t = tail
    BY <1>3, <2>1, Sizes DEF Typed, RobIx
  <2>3. (t + i - 1) % m \in 0..m-1
    OBVIOUS
  <2> QED BY <1>6, <2>2, <2>3 DEF RobIx
<1>10. x.ar \in BOOLEAN /\ x.st \in BOOLEAN /\ x.dn \in BOOLEAN /\ x.noacc \in BOOLEAN
  BY <1>6
<1>11. x \in StEntry
  <2>1. [rob |-> x.rob, ar |-> x.ar, st |-> x.st, noacc |-> x.noacc, dn |-> x.dn] \in StEntry
    BY <1>7, <1>10 DEF StEntry
  <2>2. x = [rob |-> x.rob, ar |-> x.ar, st |-> x.st, noacc |-> x.noacc, dn |-> x.dn]
    BY <1>6
  <2> QED BY <2>1, <2>2
<1>12. StFresh(j, x)
  <2>1. (x.dn <=> dq[j].class = "amo") /\ (x.noacc <=> dq[j].class = "amo") /\ ~x.ar /\ ~x.st
    BY <1>6
  <2> QED BY <1>6, <1>11, <2>1 DEF StFresh
<1> QED BY <1>1, <1>3, <1>12 DEF ds

\* Every entry after a cycle was there before or belongs to a lane.
LEMMA LdOrigin ==
  ASSUME Typed, Rings, EventsFollow, NEW k \in Dispatchable, NEW f, NEW guess, NEW send, NEW n,
         Cycle(k, f, guess, send, n), NEW e \in DOMAIN ldq'
  PROVE  \/ e \in LdStays /\ e \in DOMAIN ldq /\ LdAfter(e, ldq'[e])
         \/ \E j \in LdAt(Bundle(k)) : e = LdPlace(Bundle(k), j) /\ LdFresh(k, j, guess, ldq'[e])
<1>1. e \in LdStays \/ e \in NewLdAt(Bundle(k))
  BY LdNext
<1>2. CASE e \in LdStays
  BY <1>2, LdStep
<1>3. CASE e \in NewLdAt(Bundle(k))
  <2>1. PICK j \in LdAt(Bundle(k)) : e = LdPlace(Bundle(k), j)
    BY <1>3 DEF NewLdAt
  <2>2. LdFresh(k, j, guess, ldq'[LdPlace(Bundle(k), j)])
    BY LdAdded
  <2> QED BY <2>1, <2>2
<1> QED BY <1>1, <1>2, <1>3

LEMMA StOrigin ==
  ASSUME Typed, Rings, NEW k \in Dispatchable, NEW f, NEW guess, NEW send, NEW n,
         Cycle(k, f, guess, send, n), NEW e \in DOMAIN stq'
  PROVE  \/ e \in StStays /\ e \in DOMAIN stq /\ StAfter(e, stq'[e])
         \/ \E j \in StAt(Bundle(k)) : e = StPlace(Bundle(k), j) /\ StFresh(j, stq'[e])
<1>1. e \in StStays \/ e \in NewStAt(Bundle(k))
  BY StNext
<1>2. CASE e \in StStays
  BY <1>2, StStep
<1>3. CASE e \in NewStAt(Bundle(k))
  <2>1. PICK j \in StAt(Bundle(k)) : e = StPlace(Bundle(k), j)
    BY <1>3 DEF NewStAt
  <2>2. StFresh(j, stq'[StPlace(Bundle(k), j)])
    BY StAdded
  <2> QED BY <2>1, <2>2
<1> QED BY <1>1, <1>2, <1>3
----------------------------------------------------------------------------
(* An access stays in its place until it is done.                          *)

LEMMA LineMoves ==
  ASSUME NEW k, NEW f, NEW guess, NEW send, NEW n, Cycle(k, f, guess, send, n)
  PROVE  hl' = LineNext /\ ms' = MsNext(Started, FALSE)
<1>1. /\ hl' = [s \in 0..HD-1 |->
                 Shifted(s) \cup {[q |-> a.q, idx |-> a.idx, rob |-> a.rob] :
                    a \in {b \in Started : ~b.ev.miss /\ Stage(b.ev.lat) = s}}]
      /\ ms' = MsNext(Started, FALSE)
  BY DEF Cycle, LsuCycle
<1> QED BY <1>1, Zenon DEF LineNext, HitsAt, Entered

\* Where a slot of the next line comes from.
LEMMA LineOrigin ==
  ASSUME NEW s \in 0..HD-1, NEW x \in LineNext[s]
  PROVE  \/ s + 1 \in 0..HD-1 /\ x \in hl[s + 1]
         \/ \E a \in Started : /\ ~a.ev.miss /\ Stage(a.ev.lat) = s
                               /\ x.q = a.q /\ x.idx = a.idx /\ x.rob = a.rob
<1>1. x \in Shifted(s) \/ \E a \in HitsAt(s) : x = Entered(a)
  BY DEF LineNext
<1>2. CASE x \in Shifted(s)
  <2>1. s < HD - 1 /\ x \in hl[s + 1]
    BY <1>2 DEF Shifted
  <2>2. s + 1 \in 0..HD-1
    BY <2>1, Sizes
  <2> QED BY <2>1, <2>2
<1>3. CASE \E a \in HitsAt(s) : x = Entered(a)
  BY <1>3 DEF HitsAt, Entered
<1> QED BY <1>1, <1>2, <1>3

\* A store or load under way that is not done now is still under way.
LEMMA LdGoesOn ==
  ASSUME Typed, Rings, NEW k \in Dispatchable, NEW f, NEW guess, NEW send, NEW n,
         Cycle(k, f, guess, send, n),
         NEW e, Runs(ldq, e), e \notin LineDone("ld"), \A m \in Reported : ms[m].ldq # e
  PROVE  e \in LdStays /\ Runs(ldq', e) /\ ldq'[e].rob = ldq[e].rob
<1>1. e \in DOMAIN ldq /\ ldq[e].st /\ ~ldq[e].dn
  BY DEF Runs
<1>2. e \in LdStays
  BY <1>1, LdDrains DEF LdStays
<1>3. LdAfter(e, ldq'[e])
  BY <1>2, LdStep
<1>4. e \in DOMAIN ldq'
  BY <1>2, LdNext
<1>5. ldq'[e].st /\ ~ldq'[e].dn /\ ldq'[e].rob = ldq[e].rob
  BY <1>1, <1>3 DEF LdAfter
<1> QED BY <1>2, <1>4, <1>5 DEF Runs

LEMMA StGoesOn ==
  ASSUME Typed, Rings, NEW k \in Dispatchable, NEW f, NEW guess, NEW send, NEW n,
         Cycle(k, f, guess, send, n),
         NEW e, Runs(stq, e), e \notin LineDone("st")
  PROVE  e \in StStays /\ Runs(stq', e) /\ stq'[e].rob = stq[e].rob
<1>1. e \in DOMAIN stq /\ stq[e].st /\ ~stq[e].dn
  BY DEF Runs
<1>2. e \in StStays
  BY <1>1, StDrains DEF StStays
<1>3. StAfter(e, stq'[e])
  BY <1>2, StStep
<1>4. e \in DOMAIN stq'
  BY <1>2, StNext
<1>5. stq'[e].st /\ ~stq'[e].dn /\ stq'[e].rob = stq[e].rob
  BY <1>1, <1>3 DEF StAfter
<1> QED BY <1>2, <1>4, <1>5 DEF Runs

\* One that starts was not under way.
LEMMA LdStarts ==
  ASSUME Typed, Rings, NEW k \in Dispatchable, NEW f, NEW guess, NEW send, NEW n,
         Cycle(k, f, guess, send, n), NEW a \in Started, LdServed(a)
  PROVE  /\ ~Runs(ldq, a.idx) /\ Runs(ldq', a.idx) /\ ldq'[a.idx].rob = a.rob
         /\ ldq'[a.idx].ar /\ a.idx \in LdStays /\ (~ldq[a.idx].blk \/ ldq[a.idx].wid \in StGone)
<1> DEFINE e == a.idx
<1>1. e \in LdWants /\ a.q = "ld" /\ a.rob = ldq[e].rob
  BY DEF LdServed
<1>2. e \in LdStays /\ e \in DOMAIN ldq
  BY <1>1, WantsTyped DEF LdStays
<1>3. Ld(e).ar /\ ~Ld(e).st /\ ~Ld(e).blk /\ ~Ld(e).dn
  BY <1>1 DEF LdWants
<1>4. e \in Begun("ld")
  BY <1>1 DEF Begun
<1>5. LdAfter(e, ldq'[e])
  BY <1>2, LdStep
<1>6. e \in DOMAIN ldq'
  BY <1>2, LdNext
<1>7. /\ Ld(e).st = ldq[e].st
      /\ Ld(e).blk <=> ldq[e].blk /\ ldq[e].wid \notin StGone
      /\ Ld(e).dn <=> ldq[e].dn \/ e \in LineDone("ld") \/ \E m \in Reported : ms[m].ldq = e
      /\ Ld(e).ar <=> ldq[e].ar \/ ldq[e].rob \in Popped
  BY <1>2, LdFields
<1> HIDE DEF e
<1>8. ldq'[e].st /\ ~ldq'[e].dn /\ ldq'[e].ar /\ ldq'[e].rob = ldq[e].rob
  BY <1>3, <1>4, <1>5, <1>7 DEF LdAfter
<1>9. ~Runs(ldq, e)
  BY <1>3, <1>7 DEF Runs
<1>10. Runs(ldq', e)
  BY <1>6, <1>8 DEF Runs
<1>11. ~ldq[e].blk \/ ldq[e].wid \in StGone
  BY <1>3, <1>7
<1> QED BY <1>1, <1>2, <1>8, <1>9, <1>10, <1>11 DEF e

LEMMA StStarts ==
  ASSUME Typed, Rings, NEW k \in Dispatchable, NEW f, NEW guess, NEW send, NEW n,
         Cycle(k, f, guess, send, n), NEW a \in Started, StServed(a)
  PROVE  /\ ~Runs(stq, a.idx) /\ Runs(stq', a.idx) /\ stq'[a.idx].rob = a.rob
         /\ stq'[a.idx].ar /\ a.idx \in StStays
<1> DEFINE e == a.idx
<1>1. e \in StWants /\ a.q = "st" /\ a.rob = stq[e].rob
  BY DEF StServed
<1>2. e \in StStays /\ e \in DOMAIN stq
  BY <1>1, WantsTyped DEF StStays
<1>3. St(e).ar /\ ~St(e).st /\ ~St(e).dn
  BY <1>1 DEF StWants
<1>4. e \in Begun("st")
  BY <1>1 DEF Begun
<1>5. StAfter(e, stq'[e])
  BY <1>2, StStep
<1>6. e \in DOMAIN stq'
  BY <1>2, StNext
<1>7. /\ St(e).st = stq[e].st
      /\ St(e).dn <=> stq[e].dn \/ e \in LineDone("st")
      /\ St(e).ar <=> stq[e].ar \/ stq[e].rob \in Popped
  BY <1>2, StFields
<1> HIDE DEF e
<1>8. stq'[e].st /\ ~stq'[e].dn /\ stq'[e].ar /\ stq'[e].rob = stq[e].rob
  BY <1>3, <1>4, <1>5, <1>7 DEF StAfter
<1>9. ~Runs(stq, e)
  BY <1>3, <1>7 DEF Runs
<1>10. Runs(stq', e)
  BY <1>6, <1>8 DEF Runs
<1> QED BY <1>1, <1>2, <1>8, <1>9, <1>10 DEF e
\* The four places of an access under way, before the cycle.
LEMMA PlacesBefore ==
  ASSUME Typed, Owned, OnePlace
  PROVE  /\ \A s \in 0..HD-1 : \A x \in hl[s] : s # 0 =>
              /\ x.q = "ld" => /\ x.idx \notin LineDone("ld")
                               /\ \A m \in Reported : ms[m].ldq # x.idx
              /\ x.q = "st" => x.idx \notin LineDone("st")
         /\ \A m \in LiveMiss : m \notin Reported =>
              /\ ms[m].ldq \notin LineDone("ld")
              /\ \A n \in Reported : ms[n].ldq # ms[m].ldq
         /\ Reported \in SUBSET LiveMiss /\ MsStay = DOMAIN ms \ MsFreed
         /\ \A m \in LiveMiss : m \in MsFreed <=> m \in Reported
<1>1. Reported \in SUBSET LiveMiss /\ \A m \in LiveMiss : m \in MsFreed <=> m \in Reported
  BY DEF Reported, LiveDue, Due, LiveMiss, MsFreed
<1>2. 0 \in 0..HD-1
  BY Sizes
<1>3. ASSUME NEW s \in 0..HD-1, NEW x \in hl[s], s # 0
      PROVE  /\ x.q = "ld" => /\ x.idx \notin LineDone("ld")
                              /\ \A m \in Reported : ms[m].ldq # x.idx
             /\ x.q = "st" => x.idx \notin LineDone("st")
  <2>1. ASSUME NEW q, x.q = q, x.idx \in LineDone(q) PROVE FALSE
    <3>1. PICK y \in hl[0] : y.q = q /\ y.idx = x.idx
      BY <2>1 DEF LineDone
    <3> QED BY <1>2, <1>3, <2>1, <3>1 DEF OnePlace
  <2>2. ASSUME NEW m \in Reported, x.q = "ld", ms[m].ldq = x.idx PROVE FALSE
    BY <1>1, <2>2 DEF OnePlace
  <2> QED BY <2>1, <2>2
<1>4. ASSUME NEW m \in LiveMiss, m \notin Reported
      PROVE  /\ ms[m].ldq \notin LineDone("ld")
             /\ \A n \in Reported : ms[n].ldq # ms[m].ldq
  <2>1. ASSUME ms[m].ldq \in LineDone("ld") PROVE FALSE
    <3>1. PICK y \in hl[0] : y.q = "ld" /\ y.idx = ms[m].ldq
      BY <2>1 DEF LineDone
    <3> QED BY <1>2, <3>1 DEF OnePlace
  <2>2. ASSUME NEW n \in Reported, ms[n].ldq = ms[m].ldq PROVE FALSE
    BY <1>1, <1>4, <2>2 DEF OnePlace
  <2> QED BY <2>1, <2>2
<1> QED BY <1>1, <1>3, <1>4 DEF MsStay

\* The live misses after a cycle.
LEMMA MissOrigin ==
  ASSUME Typed, Rings, NEW m \in DOMAIN MsNext(Started, FALSE), ~MsNext(Started, FALSE)[m].dead
  PROVE  \/ /\ m \in MsStay /\ m \in LiveMiss /\ m \notin Reported
            /\ MsNext(Started, FALSE)[m].ldq = ms[m].ldq /\ MsNext(Started, FALSE)[m].rob = ms[m].rob
         \/ \E a \in Started : /\ a \in MissIn(Started, m) /\ a.ev.miss /\ LdServed(a)
                               /\ MsNext(Started, FALSE)[m].ldq = a.idx
                               /\ MsNext(Started, FALSE)[m].rob = a.rob
<1>1. m \in MsStay \/ m \in MsTaken
  BY MsNextOf
<1>2. CASE m \in MsStay
  <2>1. m \in DOMAIN ms /\ MsAfter(m, MsNext(Started, FALSE)[m], FALSE)
    BY <1>2, MsKept
  <2>2. m \in LiveMiss
    <3>1. MsNext(Started, FALSE)[m].dead <=> ms[m].dead \/ FALSE
      BY <2>1 DEF MsAfter
    <3>2. ~ms[m].dead
      BY <3>1
    <3> QED BY <2>1, <3>2 DEF LiveMiss
  <2>3. m \notin Reported
    BY <1>2 DEF MsStay, MsFreed
  <2> QED BY <1>2, <2>1, <2>2, <2>3 DEF MsAfter
<1>3. CASE m \in MsTaken
  <2>1. PICK a \in Started : /\ a \in MissIn(Started, m) /\ a.ev.miss /\ LdServed(a)
                             /\ MsNext(Started, FALSE)[m] = MsOf(a, FALSE)
    BY <1>3, MsNew
  <2>2. MsOf(a, FALSE).ldq = a.idx /\ MsOf(a, FALSE).rob = a.rob
    BY DEF MsOf
  <2>3. MsNext(Started, FALSE)[m].ldq = a.idx /\ MsNext(Started, FALSE)[m].rob = a.rob
    BY <2>1, <2>2
  <2> QED BY <2>1, <2>3
<1> QED BY <1>1, <1>2, <1>3

LEMMA OwnedNext ==
  ASSUME Typed, Rings, Owned, OnePlace,
         NEW k \in Dispatchable, NEW f, NEW guess, NEW send, NEW n,
         Cycle(k, f, guess, send, n)
  PROVE  Owned'
<1>1. hl' = LineNext /\ ms' = MsNext(Started, FALSE)
  BY LineMoves
<1>2. ASSUME NEW s \in 0..HD-1, NEW x \in LineNext[s]
      PROVE  /\ x.q = "ld" => Runs(ldq', x.idx) /\ ldq'[x.idx].rob = x.rob
             /\ x.q = "st" => Runs(stq', x.idx) /\ stq'[x.idx].rob = x.rob
  <2>1. CASE s + 1 \in 0..HD-1 /\ x \in hl[s + 1]
    <3>1. s + 1 # 0
      OBVIOUS
    <3>2. PICK t \in 0..HD-1 : t = s + 1 /\ x \in hl[t]
      BY <2>1
    <3>3. CASE x.q = "ld"
      <4>1. Runs(ldq, x.idx) /\ ldq[x.idx].rob = x.rob
        BY <3>2, <3>3 DEF Owned
      <4>2. x.idx \notin LineDone("ld") /\ \A m \in Reported : ms[m].ldq # x.idx
        BY <3>1, <3>2, <3>3, PlacesBefore
      <4>3. Runs(ldq', x.idx) /\ ldq'[x.idx].rob = ldq[x.idx].rob
        BY <4>1, <4>2, LdGoesOn
      <4> QED BY <3>3, <4>1, <4>3
    <3>4. CASE x.q = "st"
      <4>1. Runs(stq, x.idx) /\ stq[x.idx].rob = x.rob
        BY <3>2, <3>4 DEF Owned
      <4>2. x.idx \notin LineDone("st")
        BY <3>1, <3>2, <3>4, PlacesBefore
      <4>3. Runs(stq', x.idx) /\ stq'[x.idx].rob = stq[x.idx].rob
        BY <4>1, <4>2, StGoesOn
      <4> QED BY <3>4, <4>1, <4>3
    <3> QED BY <3>3, <3>4
  <2>2. ASSUME NEW a \in Started, x.q = a.q, x.idx = a.idx, x.rob = a.rob
        PROVE  /\ x.q = "ld" => Runs(ldq', x.idx) /\ ldq'[x.idx].rob = x.rob
               /\ x.q = "st" => Runs(stq', x.idx) /\ stq'[x.idx].rob = x.rob
    <3>1. LdServed(a) \/ StServed(a)
      BY StartedType
    <3>2. CASE LdServed(a)
      <4>1. Runs(ldq', a.idx) /\ ldq'[a.idx].rob = a.rob
        BY <3>2, LdStarts
      <4>2. a.q = "ld"
        BY <3>2 DEF LdServed
      <4> QED BY <2>2, <4>1, <4>2
    <3>3. CASE StServed(a)
      <4>1. Runs(stq', a.idx) /\ stq'[a.idx].rob = a.rob
        BY <3>3, StStarts
      <4>2. a.q = "st"
        BY <3>3 DEF StServed
      <4> QED BY <2>2, <4>1, <4>2
    <3> QED BY <3>1, <3>2, <3>3
  <2> QED BY <2>1, <2>2, LineOrigin
<1> DEFINE N == MsNext(Started, FALSE)
<1>3. ASSUME NEW m \in DOMAIN N, ~N[m].dead
      PROVE  Runs(ldq', N[m].ldq) /\ ldq'[N[m].ldq].rob = N[m].rob
  <2>1. CASE m \in LiveMiss /\ m \notin Reported /\ N[m].ldq = ms[m].ldq /\ N[m].rob = ms[m].rob
    <3>1. Runs(ldq, ms[m].ldq) /\ ldq[ms[m].ldq].rob = ms[m].rob
      BY <2>1 DEF Owned
    <3>2. ms[m].ldq \notin LineDone("ld") /\ \A i \in Reported : ms[i].ldq # ms[m].ldq
      BY <2>1, PlacesBefore
    <3>3. Runs(ldq', ms[m].ldq) /\ ldq'[ms[m].ldq].rob = ldq[ms[m].ldq].rob
      BY <3>1, <3>2, LdGoesOn
    <3> QED BY <2>1, <3>1, <3>3
  <2>2. ASSUME NEW a \in Started, LdServed(a), N[m].ldq = a.idx, N[m].rob = a.rob
        PROVE  Runs(ldq', N[m].ldq) /\ ldq'[N[m].ldq].rob = N[m].rob
    BY <2>2, LdStarts
  <2> QED BY <1>3, <2>1, <2>2, MissOrigin
<1> HIDE DEF N
<1>4. \A s \in 0..HD-1 : \A x \in hl'[s] :
        /\ x.q = "ld" => Runs(ldq', x.idx) /\ ldq'[x.idx].rob = x.rob
        /\ x.q = "st" => Runs(stq', x.idx) /\ stq'[x.idx].rob = x.rob
  BY <1>1, <1>2
<1>5. \A m \in {i \in DOMAIN ms' : ~ms'[i].dead} : Runs(ldq', ms'[m].ldq) /\ ldq'[ms'[m].ldq].rob = ms'[m].rob
  BY <1>1, <1>3 DEF N
<1> QED BY <1>4, <1>5 DEF Owned, LiveMiss, Runs
\* An access that moves on in the line is that of a running entry, one that
\* starts is not: they never meet.
LEMMA OnePlaceNext ==
  ASSUME Typed, Rings, Owned, OnePlace,
         NEW k \in Dispatchable, NEW f, NEW guess, NEW send, NEW n,
         Cycle(k, f, guess, send, n)
  PROVE  OnePlace'
<1> DEFINE N == MsNext(Started, FALSE)
           NLive == {m \in DOMAIN N : ~N[m].dead}
<1>1. hl' = LineNext /\ ms' = N
  BY LineMoves
<1>2. ASSUME NEW a \in Started
      PROVE  /\ a \in Ports
             /\ a.q = "ld" => LdServed(a) /\ ~Runs(ldq, a.idx)
             /\ a.q = "st" => StServed(a) /\ ~Runs(stq, a.idx)
             /\ a.q \in {"ld", "st"}
  <2>1. a \in Ports /\ (LdServed(a) \/ StServed(a))
    BY StartedType
  <2>2. CASE LdServed(a)
    <3>1. ~Runs(ldq, a.idx) /\ a.q = "ld"
      BY <2>2, LdStarts DEF LdServed
    <3> QED BY <2>1, <2>2, <3>1
  <2>3. CASE StServed(a)
    <3>1. ~Runs(stq, a.idx) /\ a.q = "st"
      BY <2>3, StStarts DEF StServed
    <3> QED BY <2>1, <2>3, <3>1
  <2> QED BY <2>1, <2>2, <2>3
<1>3. ASSUME NEW s \in 0..HD-1, NEW x \in hl[s], NEW a \in Started, x.q = a.q, x.idx = a.idx
      PROVE  FALSE
  BY <1>2, <1>3 DEF Owned
<1>4. ASSUME NEW m \in LiveMiss, NEW a \in Started, LdServed(a), ms[m].ldq = a.idx
      PROVE  FALSE
  <2>1. a.q = "ld"
    BY <1>4 DEF LdServed
  <2> QED BY <1>2, <1>4, <2>1 DEF Owned
<1>5. ASSUME NEW a \in Started, NEW b \in Started, a.q = b.q, a.idx = b.idx PROVE a = b
  BY <1>2, <1>5, PortsApart
<1>6. ASSUME NEW s \in 0..HD-1, NEW t \in 0..HD-1, NEW x \in LineNext[s], NEW y \in LineNext[t],
             x.q = y.q, x.idx = y.idx
      PROVE  s = t
  <2>1. CASE s + 1 \in 0..HD-1 /\ x \in hl[s + 1]
    <3>1. CASE t + 1 \in 0..HD-1 /\ y \in hl[t + 1]
      <4>1. PICK u \in 0..HD-1, v \in 0..HD-1 : u = s + 1 /\ v = t + 1 /\ x \in hl[u] /\ y \in hl[v]
        BY <2>1, <3>1
      <4>2. u = v
        BY <1>6, <4>1 DEF OnePlace
      <4> QED BY <4>1, <4>2
    <3>2. ASSUME NEW b \in Started, y.q = b.q, y.idx = b.idx PROVE FALSE
      BY <1>3, <1>6, <2>1, <3>2
    <3> QED BY <3>1, <3>2, LineOrigin
  <2>2. ASSUME NEW a \in Started, Stage(a.ev.lat) = s, x.q = a.q, x.idx = a.idx PROVE s = t
    <3>1. ASSUME t + 1 \in 0..HD-1, y \in hl[t + 1] PROVE FALSE
      BY <1>3, <1>6, <2>2, <3>1
    <3>2. ASSUME NEW b \in Started, Stage(b.ev.lat) = t, y.q = b.q, y.idx = b.idx PROVE s = t
      <4>1. a = b
        BY <1>5, <1>6, <2>2, <3>2
      <4> QED BY <2>2, <3>2, <4>1
    <3> QED BY <3>1, <3>2, LineOrigin
  <2> QED BY <2>1, <2>2, LineOrigin
<1>7. ASSUME NEW m \in DOMAIN N, NEW i \in DOMAIN N, ~N[m].dead, ~N[i].dead, N[m].ldq = N[i].ldq
      PROVE  m = i
  <2>1. CASE m \in LiveMiss /\ N[m].ldq = ms[m].ldq
    <3>1. CASE i \in LiveMiss /\ N[i].ldq = ms[i].ldq
      <4>1. ms[m].ldq = ms[i].ldq
        BY <1>7, <2>1, <3>1
      <4> QED BY <2>1, <3>1, <4>1 DEF OnePlace
    <3>2. ASSUME NEW b \in Started, LdServed(b), N[i].ldq = b.idx PROVE FALSE
      <4>1. ms[m].ldq = b.idx
        BY <1>7, <2>1, <3>2
      <4> QED BY <1>4, <2>1, <3>2, <4>1
    <3> QED BY <1>7, <3>1, <3>2, MissOrigin
  <2>2. ASSUME NEW a \in Started, LdServed(a), a \in MissIn(Started, m), a.ev.miss, N[m].ldq = a.idx
        PROVE  m = i
    <3>1. ASSUME i \in LiveMiss, N[i].ldq = ms[i].ldq PROVE FALSE
      <4>1. ms[i].ldq = a.idx
        BY <1>7, <2>2, <3>1
      <4> QED BY <1>4, <2>2, <3>1, <4>1
    <3>2. ASSUME NEW b \in Started, LdServed(b), b \in MissIn(Started, i), N[i].ldq = b.idx
          PROVE  m = i
      <4>1. a.q = "ld" /\ b.q = "ld"
        BY <2>2, <3>2 DEF LdServed
      <4>2. a = b
        BY <1>5, <1>7, <2>2, <3>2, <4>1
      <4> QED BY <2>2, <3>2, <4>2, MissRegister
    <3> QED BY <1>7, <3>1, <3>2, MissOrigin
  <2> QED BY <1>7, <2>1, <2>2, MissOrigin
<1>8. ASSUME NEW s \in 0..HD-1, NEW x \in LineNext[s], NEW m \in DOMAIN N, ~N[m].dead,
             x.q = "ld", x.idx = N[m].ldq
      PROVE  FALSE
  <2>1. CASE s + 1 \in 0..HD-1 /\ x \in hl[s + 1]
    <3>1. PICK u \in 0..HD-1 : u = s + 1 /\ x \in hl[u]
      BY <2>1
    <3>2. ASSUME m \in LiveMiss, N[m].ldq = ms[m].ldq PROVE FALSE
      <4>1. x.idx = ms[m].ldq
        BY <1>8, <3>2
      <4> QED BY <1>8, <3>1, <3>2, <4>1 DEF OnePlace
    <3>3. ASSUME NEW b \in Started, LdServed(b), N[m].ldq = b.idx PROVE FALSE
      <4>1. b.q = "ld"
        BY <3>3 DEF LdServed
      <4> QED BY <1>3, <1>8, <3>1, <3>3, <4>1
    <3> QED BY <1>8, <3>2, <3>3, MissOrigin
  <2>2. ASSUME NEW a \in Started, ~a.ev.miss, x.q = a.q, x.idx = a.idx PROVE FALSE
    <3>1. a.q = "ld" /\ LdServed(a)
      BY <1>2, <1>8, <2>2
    <3>2. ASSUME m \in LiveMiss, N[m].ldq = ms[m].ldq PROVE FALSE
      <4>1. ms[m].ldq = a.idx
        BY <1>8, <2>2, <3>2
      <4> QED BY <1>4, <3>1, <3>2, <4>1
    <3>3. ASSUME NEW b \in Started, LdServed(b), b.ev.miss, N[m].ldq = b.idx PROVE FALSE
      <4>1. b.q = "ld"
        BY <3>3 DEF LdServed
      <4>2. a = b
        BY <1>5, <1>8, <2>2, <3>1, <3>3, <4>1
      <4> QED BY <2>2, <3>3, <4>2
    <3> QED BY <1>8, <3>2, <3>3, MissOrigin
  <2> QED BY <2>1, <2>2, LineOrigin
<1> HIDE DEF N
<1>9. /\ \A s, t \in 0..HD-1 : \A x \in hl'[s], y \in hl'[t] : x.q = y.q /\ x.idx = y.idx => s = t
  BY <1>1, <1>6
<1>10. \A m, i \in {j \in DOMAIN ms' : ~ms'[j].dead} : ms'[m].ldq = ms'[i].ldq => m = i
  BY <1>1, <1>7 DEF N
<1>11. \A s \in 0..HD-1 : \A x \in hl'[s], m \in {j \in DOMAIN ms' : ~ms'[j].dead} :
         x.q = "ld" => x.idx # ms'[m].ldq
  BY <1>1, <1>8 DEF N
<1> QED BY <1>9, <1>10, <1>11 DEF OnePlace, LiveMiss
LEMMA LineKeeps ==
  ASSUME NEW s \in 0..HD-1, s # 0, NEW x \in hl[s]
  PROVE  \E t \in 0..HD-1 : x \in LineNext[t]
<1>1. PICK t \in 0..HD-1 : s = t + 1 /\ t < HD - 1
  <2>1. s - 1 \in 0..HD-1 /\ s = (s - 1) + 1 /\ s - 1 < HD - 1
    BY Sizes
  <2> QED BY <2>1
<1>2. x \in Shifted(t)
  BY <1>1 DEF Shifted
<1> QED BY <1>2 DEF LineNext

LEMMA LineEnters ==
  ASSUME Typed, Rings, NEW a \in Started, ~a.ev.miss
  PROVE  \E t \in 0..HD-1 : \E x \in LineNext[t] : x.q = a.q /\ x.idx = a.idx
<1>1. Stage(a.ev.lat) \in 0..HD-1
  BY StartedType
<1>2. a \in HitsAt(Stage(a.ev.lat))
  BY DEF HitsAt
<1>3. Entered(a) \in LineNext[Stage(a.ev.lat)]
  BY <1>1, <1>2 DEF LineNext
<1>4. Entered(a).q = a.q /\ Entered(a).idx = a.idx
  BY DEF Entered
<1> QED BY <1>1, <1>3, <1>4

LEMMA MissEnters ==
  ASSUME Typed, Rings, NEW a \in Started, a.ev.miss
  PROVE  \E m \in DOMAIN MsNext(Started, FALSE) :
           ~MsNext(Started, FALSE)[m].dead /\ MsNext(Started, FALSE)[m].ldq = a.idx
<1>1. PICK m \in MsFree : a \in MissIn(Started, m)
  BY MissRegister
<1>2. m \in DOMAIN MsNext(Started, FALSE) /\ MsNext(Started, FALSE)[m] = MsOf(a, FALSE)
  BY <1>1, MsNextOf
<1>3. MsOf(a, FALSE).dead = FALSE /\ MsOf(a, FALSE).ldq = a.idx
  BY DEF MsOf
<1> QED BY <1>2, <1>3

LEMMA MissKeeps ==
  ASSUME Typed, Rings, Owned, OnePlace, NEW m \in LiveMiss, m \notin Reported
  PROVE  /\ m \in DOMAIN MsNext(Started, FALSE)
         /\ ~MsNext(Started, FALSE)[m].dead /\ MsNext(Started, FALSE)[m].ldq = ms[m].ldq
<1>1. m \in MsStay
  BY PlacesBefore DEF LiveMiss
<1>2. m \in DOMAIN MsNext(Started, FALSE) /\ MsAfter(m, MsNext(Started, FALSE)[m], FALSE)
  BY <1>1, MsKept
<1>3. ~ms[m].dead
  BY DEF LiveMiss
<1> QED BY <1>2, <1>3 DEF MsAfter

LEMMA RunningNext ==
  ASSUME Typed, Rings, EventsFollow, Owned, OnePlace, Running,
         NEW k \in Dispatchable, NEW f, NEW guess, NEW send, NEW n,
         Cycle(k, f, guess, send, n)
  PROVE  Running'
<1> DEFINE N == MsNext(Started, FALSE)
<1>1. hl' = LineNext /\ ms' = N
  BY LineMoves
<1>2. ASSUME NEW e \in DOMAIN ldq', Runs(ldq', e)
      PROVE  /\ ldq'[e].ar
             /\ \/ \E s \in 0..HD-1 : \E x \in LineNext[s] : x.q = "ld" /\ x.idx = e
                \/ \E m \in DOMAIN N : ~N[m].dead /\ N[m].ldq = e
  <2>1. ldq'[e].st /\ ~ldq'[e].dn
    BY <1>2 DEF Runs
  <2>2. CASE e \in DOMAIN ldq /\ LdAfter(e, ldq'[e])
    <3>1. /\ ldq[e].st \/ e \in Begun("ld")
          /\ ~ldq[e].dn /\ e \notin LineDone("ld") /\ \A m \in Reported : ms[m].ldq # e
          /\ ldq[e].ar => ldq'[e].ar
      BY <2>1, <2>2 DEF LdAfter
    <3>2. CASE ldq[e].st
      <4>1. Runs(ldq, e)
        BY <2>2, <3>1, <3>2 DEF Runs
      <4>2. ldq'[e].ar
        BY <2>2, <3>1, <4>1 DEF Running
      <4>3. ASSUME NEW s \in 0..HD-1, NEW x \in hl[s], x.q = "ld", x.idx = e
            PROVE  \E t \in 0..HD-1 : \E y \in LineNext[t] : y.q = "ld" /\ y.idx = e
        <5>1. s # 0
          BY <3>1, <4>3 DEF LineDone
        <5>2. PICK t \in 0..HD-1 : x \in LineNext[t]
          BY <5>1, LineKeeps
        <5> QED BY <4>3, <5>2
      <4>4. ASSUME NEW m \in LiveMiss, ms[m].ldq = e
            PROVE  \E i \in DOMAIN N : ~N[i].dead /\ N[i].ldq = e
        <5>1. m \notin Reported
          BY <3>1, <4>4
        <5> QED BY <4>4, <5>1, MissKeeps
      <4> QED BY <2>2, <4>1, <4>2, <4>3, <4>4 DEF Running
    <3>3. CASE e \in Begun("ld")
      <4>1. PICK a \in Started : a.q = "ld" /\ a.idx = e
        BY <3>3 DEF Begun
      <4>2. LdServed(a)
        BY <4>1, StartedType DEF StServed
      <4>3. ldq'[e].ar
        BY <4>1, <4>2, LdStarts
      <4>4. CASE a.ev.miss
        BY <4>1, <4>3, <4>4, MissEnters
      <4>5. CASE ~a.ev.miss
        BY <4>1, <4>3, <4>5, LineEnters
      <4> QED BY <4>4, <4>5
    <3> QED BY <3>1, <3>2, <3>3
  <2>3. ASSUME NEW j, LdFresh(k, j, guess, ldq'[e]) PROVE FALSE
    BY <2>1, <2>3 DEF LdFresh
  <2> QED BY <2>2, <2>3, LdOrigin
<1>3. ASSUME NEW e \in DOMAIN stq', Runs(stq', e)
      PROVE  /\ stq'[e].ar
             /\ \E s \in 0..HD-1 : \E x \in LineNext[s] : x.q = "st" /\ x.idx = e
  <2>1. stq'[e].st /\ ~stq'[e].dn
    BY <1>3 DEF Runs
  <2>2. CASE e \in DOMAIN stq /\ StAfter(e, stq'[e])
    <3>1. /\ stq[e].st \/ e \in Begun("st")
          /\ ~stq[e].dn /\ e \notin LineDone("st")
          /\ stq[e].ar => stq'[e].ar
      BY <2>1, <2>2 DEF StAfter
    <3>2. CASE stq[e].st
      <4>1. Runs(stq, e)
        BY <2>2, <3>1, <3>2 DEF Runs
      <4>2. stq'[e].ar
        BY <2>2, <3>1, <4>1 DEF Running
      <4>3. ASSUME NEW s \in 0..HD-1, NEW x \in hl[s], x.q = "st", x.idx = e
            PROVE  \E t \in 0..HD-1 : \E y \in LineNext[t] : y.q = "st" /\ y.idx = e
        <5>1. s # 0
          BY <3>1, <4>3 DEF LineDone
        <5>2. PICK t \in 0..HD-1 : x \in LineNext[t]
          BY <5>1, LineKeeps
        <5> QED BY <4>3, <5>2
      <4> QED BY <2>2, <4>1, <4>2, <4>3 DEF Running
    <3>3. CASE e \in Begun("st")
      <4>1. PICK a \in Started : a.q = "st" /\ a.idx = e
        BY <3>3 DEF Begun
      <4>2. StServed(a) /\ ~a.ev.miss
        BY <4>1, StartedType DEF LdServed
      <4>3. stq'[e].ar
        BY <4>1, <4>2, StStarts
      <4> QED BY <4>1, <4>2, <4>3, LineEnters
    <3> QED BY <3>1, <3>2, <3>3
  <2>3. ASSUME NEW j, StFresh(j, stq'[e]) PROVE FALSE
    BY <2>1, <2>3 DEF StFresh
  <2> QED BY <2>2, <2>3, StOrigin
<1> HIDE DEF N
<1>4. \A e \in DOMAIN ldq' : Runs(ldq', e) =>
        /\ ldq'[e].ar
        /\ \/ \E s \in 0..HD-1 : \E x \in hl'[s] : x.q = "ld" /\ x.idx = e
           \/ \E m \in {i \in DOMAIN ms' : ~ms'[i].dead} : ms'[m].ldq = e
  BY <1>1, <1>2 DEF N
<1>5. \A e \in DOMAIN stq' : Runs(stq', e) =>
        /\ stq'[e].ar
        /\ \E s \in 0..HD-1 : \E x \in hl'[s] : x.q = "st" /\ x.idx = e
  BY <1>1, <1>3
<1> QED BY <1>4, <1>5 DEF Running, LiveMiss, Runs
(* One access for each running entry.                                      *)

LEMMA AccessesOf ==
  ASSUME NEW q, NEW e
  PROVE  /\ \A z \in Accesses(q, e) :
              \/ \E s \in 0..HD-1 : \E x \in hl[s] : x.q = q /\ x.idx = e /\ z = <<"line", s, x>>
              \/ q = "ld" /\ \E m \in LiveMiss : ms[m].ldq = e /\ z = <<"miss", m, ms[m]>>
         /\ \A s \in 0..HD-1 : \A x \in hl[s] :
              x.q = q /\ x.idx = e => <<"line", s, x>> \in Accesses(q, e)
         /\ \A m \in LiveMiss : q = "ld" /\ ms[m].ldq = e => <<"miss", m, ms[m]>> \in Accesses(q, e)
BY DEF Accesses, LiveMiss

LEMMA LineAccessEq ==
  ASSUME NEW x \in LineAccess, NEW y \in LineAccess, x.q = y.q, x.idx = y.idx, x.rob = y.rob
  PROVE  x = y
<1>1. x = [q |-> x.q, idx |-> x.idx, rob |-> x.rob] /\ y = [q |-> y.q, idx |-> y.idx, rob |-> y.rob]
  BY DEF LineAccess
<1> QED BY <1>1

LEMMA LdAccesses ==
  ASSUME Typed, Owned, OnePlace, Running, NEW e
  PROVE  /\ \A y, z \in Accesses("ld", e) : y = z
         /\ Accesses("ld", e) # {} <=> Runs(ldq, e)
         /\ \A z \in Accesses("ld", e) : z[3].rob = ldq[e].rob
<1>1. ASSUME NEW z \in Accesses("ld", e)
      PROVE  \/ \E s \in 0..HD-1 : \E x \in hl[s] : /\ x.q = "ld" /\ x.idx = e /\ z = <<"line", s, x>>
                                                    /\ x.rob = ldq[e].rob /\ Runs(ldq, e)
             \/ \E m \in LiveMiss : /\ ms[m].ldq = e /\ z = <<"miss", m, ms[m]>>
                                    /\ ms[m].rob = ldq[e].rob /\ Runs(ldq, e)
  <2>1. CASE \E s \in 0..HD-1 : \E x \in hl[s] : x.q = "ld" /\ x.idx = e /\ z = <<"line", s, x>>
    BY <2>1 DEF Owned
  <2>2. CASE \E m \in LiveMiss : ms[m].ldq = e /\ z = <<"miss", m, ms[m]>>
    BY <2>2 DEF Owned
  <2> QED BY <2>1, <2>2, AccessesOf
<1>2. ASSUME NEW y \in Accesses("ld", e), NEW z \in Accesses("ld", e) PROVE y = z
  <2>1. ASSUME NEW s \in 0..HD-1, NEW x \in hl[s], x.q = "ld", x.idx = e, y = <<"line", s, x>>,
               x.rob = ldq[e].rob
        PROVE  y = z
    <3>1. ASSUME NEW t \in 0..HD-1, NEW w \in hl[t], w.q = "ld", w.idx = e, z = <<"line", t, w>>,
                 w.rob = ldq[e].rob
          PROVE  y = z
      <4>1. s = t
        BY <2>1, <3>1 DEF OnePlace
      <4>2. x \in LineAccess /\ w \in LineAccess
        BY DEF Typed
      <4>3. x = w
        BY <2>1, <3>1, <4>2, LineAccessEq
      <4> QED BY <2>1, <3>1, <4>1, <4>3
    <3>2. ASSUME NEW m \in LiveMiss, ms[m].ldq = e PROVE FALSE
      BY <2>1, <3>2 DEF OnePlace
    <3> QED BY <1>1, <3>1, <3>2
  <2>2. ASSUME NEW m \in LiveMiss, ms[m].ldq = e, y = <<"miss", m, ms[m]>> PROVE y = z
    <3>1. ASSUME NEW t \in 0..HD-1, NEW w \in hl[t], w.q = "ld", w.idx = e PROVE FALSE
      BY <2>2, <3>1 DEF OnePlace
    <3>2. ASSUME NEW i \in LiveMiss, ms[i].ldq = e, z = <<"miss", i, ms[i]>> PROVE y = z
      <4>1. m = i
        BY <2>2, <3>2 DEF OnePlace
      <4> QED BY <2>2, <3>2, <4>1
    <3> QED BY <1>1, <3>1, <3>2
  <2> QED BY <1>1, <2>1, <2>2
<1>3. ASSUME Runs(ldq, e) PROVE Accesses("ld", e) # {}
  <2>1. e \in DOMAIN ldq
    BY <1>3 DEF Runs
  <2>2. \/ \E s \in 0..HD-1 : \E x \in hl[s] : x.q = "ld" /\ x.idx = e
        \/ \E m \in LiveMiss : ms[m].ldq = e
    BY <1>3, <2>1 DEF Running
  <2>3. CASE \E s \in 0..HD-1 : \E x \in hl[s] : x.q = "ld" /\ x.idx = e
    <3>1. PICK s \in 0..HD-1 : \E x \in hl[s] : x.q = "ld" /\ x.idx = e
      BY <2>3
    <3>2. PICK x \in hl[s] : x.q = "ld" /\ x.idx = e
      BY <3>1
    <3> QED BY <3>2, AccessesOf
  <2>4. CASE \E m \in LiveMiss : ms[m].ldq = e
    <3>1. PICK m \in LiveMiss : ms[m].ldq = e
      BY <2>4
    <3> QED BY <3>1, AccessesOf
  <2> QED BY <2>2, <2>3, <2>4
<1>4. ASSUME NEW z \in Accesses("ld", e) PROVE z[3].rob = ldq[e].rob
  BY <1>1
<1>5. ASSUME Accesses("ld", e) # {} PROVE Runs(ldq, e)
  <2>1. PICK z \in Accesses("ld", e) : TRUE
    BY <1>5
  <2> QED BY <1>1, <2>1
<1> QED BY <1>2, <1>3, <1>4, <1>5

LEMMA StAccesses ==
  ASSUME Typed, Owned, OnePlace, Running, NEW e
  PROVE  /\ \A y, z \in Accesses("st", e) : y = z
         /\ Accesses("st", e) # {} <=> Runs(stq, e)
         /\ \A z \in Accesses("st", e) : z[3].rob = stq[e].rob
<1>1. ASSUME NEW z \in Accesses("st", e)
      PROVE  \E s \in 0..HD-1 : \E x \in hl[s] : /\ x.q = "st" /\ x.idx = e /\ z = <<"line", s, x>>
                                                 /\ x.rob = stq[e].rob /\ Runs(stq, e)
  BY AccessesOf DEF Owned
<1>2. ASSUME NEW y \in Accesses("st", e), NEW z \in Accesses("st", e) PROVE y = z
  <2>1. PICK s \in 0..HD-1 : \E x \in hl[s] :
               x.q = "st" /\ x.idx = e /\ y = <<"line", s, x>> /\ x.rob = stq[e].rob
    BY <1>1
  <2>2. PICK x \in hl[s] : x.q = "st" /\ x.idx = e /\ y = <<"line", s, x>> /\ x.rob = stq[e].rob
    BY <2>1
  <2>3. PICK t \in 0..HD-1 : \E w \in hl[t] :
               w.q = "st" /\ w.idx = e /\ z = <<"line", t, w>> /\ w.rob = stq[e].rob
    BY <1>1
  <2>4. PICK w \in hl[t] : w.q = "st" /\ w.idx = e /\ z = <<"line", t, w>> /\ w.rob = stq[e].rob
    BY <2>3
  <2>5. s = t
    BY <2>2, <2>4 DEF OnePlace
  <2>6. x \in LineAccess /\ w \in LineAccess
    BY DEF Typed
  <2>7. x = w
    BY <2>2, <2>4, <2>6, LineAccessEq
  <2> QED BY <2>2, <2>4, <2>5, <2>7
<1>3. ASSUME Runs(stq, e) PROVE Accesses("st", e) # {}
  <2>1. e \in DOMAIN stq
    BY <1>3 DEF Runs
  <2>2. \E s \in 0..HD-1 : \E x \in hl[s] : x.q = "st" /\ x.idx = e
    BY <1>3, <2>1 DEF Running
  <2> QED BY <2>2, AccessesOf
<1>4. ASSUME NEW z \in Accesses("st", e) PROVE z[3].rob = stq[e].rob
  BY <1>1
<1>5. ASSUME Accesses("st", e) # {} PROVE Runs(stq, e)
  <2>1. PICK z \in Accesses("st", e) : TRUE
    BY <1>5
  <2> QED BY <1>1, <2>1
<1> QED BY <1>2, <1>3, <1>4, <1>5

LEMMA OneOf ==
  ASSUME NEW S, \A y, z \in S : y = z, NEW b \in BOOLEAN, S # {} <=> b
  PROVE  Cardinality(S) = IF b THEN 1 ELSE 0
<1>1. CASE S = {}
  BY <1>1, FS_EmptySet
<1>2. CASE S # {}
  <2>1. PICK z \in S : TRUE
    BY <1>2
  <2>2. S = {z}
    BY <2>1
  <2>3. Cardinality(S) = 1
    BY <2>2, FS_Singleton
  <2> QED BY <1>2, <2>3
<1> QED BY <1>1, <1>2

LEMMA OneAccessHolds ==
  ASSUME Typed, Owned, OnePlace, Running
  PROVE  OneAccess
<1>1. ASSUME NEW e \in LdIx
      PROVE  Cardinality(Accesses("ld", e)) = IF e \in DOMAIN ldq /\ ldq[e].st /\ ~ldq[e].dn THEN 1 ELSE 0
  <2>1. Runs(ldq, e) \in BOOLEAN
    BY DEF Runs
  <2>2. Cardinality(Accesses("ld", e)) = IF Runs(ldq, e) THEN 1 ELSE 0
    BY <2>1, LdAccesses, OneOf
  <2> QED BY <2>2 DEF Runs
<1>2. ASSUME NEW e \in StIx
      PROVE  Cardinality(Accesses("st", e)) = IF e \in DOMAIN stq /\ stq[e].st /\ ~stq[e].dn THEN 1 ELSE 0
  <2>1. Runs(stq, e) \in BOOLEAN
    BY DEF Runs
  <2>2. Cardinality(Accesses("st", e)) = IF Runs(stq, e) THEN 1 ELSE 0
    BY <2>1, StAccesses, OneOf
  <2> QED BY <2>2 DEF Runs
<1>3. \A e \in DOMAIN ldq : \A a \in Accesses("ld", e) : a[3].rob = ldq[e].rob
  BY LdAccesses
<1>4. \A e \in DOMAIN stq : \A a \in Accesses("st", e) : a[3].rob = stq[e].rob
  BY StAccesses
<1> QED BY <1>1, <1>2, <1>3, <1>4 DEF OneAccess, LdIx, StIx
----------------------------------------------------------------------------
(* The window: what be_eu has asked, and who is retired and dispatched.    *)

LEMMA MovedFields ==
  ASSUME NEW u \in MemUop, NEW send
  PROVE  /\ Moved(u, send) \in MemUop
         /\ Moved(u, send).class = u.class /\ Moved(u, send).rob = u.rob /\ Moved(u, send).ev = u.ev
         /\ Moved(u, send).at = IF u.rob \in Answers THEN "answered"
                                ELSE IF u.rob \in ToSet(send) THEN "asked" ELSE u.at
<1>1. PICK a \in {"waiting", "asked", "answered"} :
        a = IF u.rob \in Answers THEN "answered" ELSE IF u.rob \in ToSet(send) THEN "asked" ELSE u.at
  <2>1. u.at \in {"waiting", "asked", "answered"}
    BY DEF MemUop
  <2> QED BY <2>1
<1>2. Moved(u, send) = [u EXCEPT !.at = a]
  BY <1>1 DEF Moved
<1>3. u = [class |-> u.class, rob |-> u.rob, ev |-> u.ev, at |-> u.at]
  BY DEF MemUop
<1>4. [u EXCEPT !.at = a] = [class |-> u.class, rob |-> u.rob, ev |-> u.ev, at |-> a]
  BY <1>3
<1>5. u.class \in {"load", "store", "amo"} /\ u.rob \in RobIx /\ u.ev \in MemEvent
  BY DEF MemUop
<1> QED BY <1>1, <1>2, <1>4, <1>5 DEF MemUop

LEMMA WinTyped ==
  ASSUME Typed
  PROVE  /\ Len(win) \in Nat /\ \A i \in Live : win[i] \in MemUop /\ win[i].rob \in RobIx
         /\ WaitingAt \in SUBSET (1..Len(win)) /\ Waiting \in SUBSET RobIx
<1>1. Len(win) \in Nat /\ \A i \in Live : win[i] \in MemUop
  BY LenProperties, ElementOfSeq DEF Typed, Live
<1>2. \A u \in MemUop : u.rob \in RobIx
  BY DEF MemUop
<1>3. WaitingAt \in SUBSET (1..Len(win))
  BY DEF WaitingAt, Live
<1>4. Waiting \in SUBSET RobIx
  BY <1>1, <1>2, <1>3 DEF Waiting, Live
<1>5. \A i \in Live : win[i] \in MemUop /\ win[i].rob \in RobIx
  BY <1>1, <1>2
<1> QED BY <1>1, <1>3, <1>4, <1>5

\* Two uops of the window have two entries.
LEMMA WinApart ==
  ASSUME Typed, WindowOrder, NEW i \in Live, NEW j \in Live, win[i].rob = win[j].rob
  PROVE  i = j
<1>1. i \in Int /\ j \in Int /\ win[i].rob \in RobIx
  BY WinTyped DEF Live
<1>2. Ahead(i) = Ahead(j) /\ Ahead(i) \in Int
  <2>4. tail \in Int /\ ROB_N \in Nat \ {0} /\ win[i].rob \in Int
    <3>1. tail \in RobIx
      BY DEF Typed
    <3>2. ROB_N \in Nat \ {0}
      BY Sizes
    <3> QED BY <1>1, <3>1, <3>2 DEF RobIx
  <2>1. PICK t, m, r : t = tail /\ m = ROB_N /\ r = win[i].rob
    OBVIOUS
  <2>2. (r - t) % m \in Int
    <3>1. t \in Int /\ m \in Nat \ {0} /\ r \in Int
      BY <2>1, <2>4
    <3> QED BY <3>1
  <2>3. Ahead(i) = (r - t) % m /\ Ahead(j) = (r - t) % m
    BY <2>1 DEF Ahead
  <2> QED BY <2>2, <2>3
<1>3. ~(i < j)
  BY <1>2 DEF WindowOrder
<1>4. ~(j < i)
  BY <1>2 DEF WindowOrder
<1> QED BY <1>1, <1>3, <1>4

\* What be_eu may send: each entry of a ready uop once, when the unit is ready.
LEMMA SendType ==
  ASSUME Typed, WindowOrder, NEW send \in Requests
  PROVE  /\ send \in Seq(RobIx) /\ Len(send) <= W /\ IsInjective(send)
         /\ ToSet(send) \in SUBSET Waiting
         /\ send # <<>> => pq = <<>>
<1>1. CASE ~lsu_ready
  <2>1. send = <<>>
    BY <1>1 DEF Requests
  <2> QED BY <2>1, Sizes DEF ToSet, IsInjective
<1>2. CASE lsu_ready /\ AnyOrder
  <2>1. send \in BoundedSeq(Waiting, W) /\ IsInjective(send)
    BY <1>2 DEF Requests
  <2>2. PICK m \in 0..W : send \in [1..m -> Waiting]
    BY <2>1 DEF BoundedSeq, SeqOf
  <2>3. m \in Nat /\ m <= W
    BY Sizes
  <2>4. send \in Seq(Waiting) /\ Len(send) = m
    <3>1. send \in Seq(Waiting)
      BY <2>2, <2>3, IsASeq
    <3> QED BY <2>2, <2>3, <3>1, LenProperties
  <2>5. send \in Seq(RobIx)
    <3>1. send \in [1..m -> RobIx]
      BY <2>2, WinTyped
    <3> QED BY <2>3, <3>1, IsASeq
  <2>6. ToSet(send) \in SUBSET Waiting
    BY <2>2 DEF ToSet
  <2> QED BY <1>2, <2>1, <2>3, <2>4, <2>5, <2>6 DEF lsu_ready
<1>3. CASE lsu_ready /\ ~AnyOrder
  <2>1. PICK c \in Nat : c = Cardinality(WaitingAt)
    BY WinTyped, SubsetSize
  <2>2. ASSUME NEW i \in 1..c
        PROVE  /\ InOrder[i] \in Waiting
               /\ \A j \in 1..c : InOrder[i] = InOrder[j] => i = j
    <3>1. ASSUME NEW j \in 1..c
          PROVE  \E h \in WaitingAt : j = 1 + Cardinality(Lower(WaitingAt, h)) /\ InOrder[j] = win[h].rob
      <4>1. PICK h \in WaitingAt : j = 1 + Cardinality(Lower(WaitingAt, h)) /\ Kept(win, WaitingAt)[j] = win[h]
        BY <2>1, WinTyped, KeptFrom
      <4>2. InOrder[j] = Kept(win, WaitingAt)[j].rob
        BY <2>1 DEF InOrder
      <4> QED BY <4>1, <4>2
    <3>2. PICK h \in WaitingAt : i = 1 + Cardinality(Lower(WaitingAt, h)) /\ InOrder[i] = win[h].rob
      BY <3>1
    <3>3. InOrder[i] \in Waiting
      BY <3>2 DEF Waiting
    <3>4. ASSUME NEW j \in 1..c, InOrder[i] = InOrder[j] PROVE i = j
      <4>1. PICK g \in WaitingAt : j = 1 + Cardinality(Lower(WaitingAt, g)) /\ InOrder[j] = win[g].rob
        BY <3>1
      <4>2. g = h
        BY <3>2, <3>4, <4>1, WinApart, WinTyped DEF Live
      <4> QED BY <3>2, <4>1, <4>2
    <3> QED BY <3>3, <3>4
  <2>3. InOrder \in Seq(Waiting) /\ Len(InOrder) = c /\ InOrder \in Seq(RobIx)
    <3>1. InOrder = [i \in 1..c |-> InOrder[i]]
      BY <2>1 DEF InOrder
    <3>2. InOrder \in [1..c -> Waiting] /\ InOrder \in [1..c -> RobIx]
      BY <2>2, <3>1, WinTyped
    <3>3. InOrder \in Seq(Waiting) /\ InOrder \in Seq(RobIx)
      BY <3>2, IsASeq
    <3> QED BY <3>2, <3>3, LenProperties
  <2>4. PICK m \in 0..AtMost(W, Len(InOrder)) : send = SubSeq(InOrder, 1, m)
    BY <1>3 DEF Requests
  <2>5. m \in Nat /\ m <= W /\ m \in 0..c
    BY <2>3, <2>4, Sizes DEF AtMost
  <2>6. send \in Seq(RobIx) /\ Len(send) = m /\ \A i \in 1..m : send[i] = InOrder[i]
    BY <2>3, <2>4, <2>5, TakeDrop
  <2>7. DOMAIN send = 1..m /\ \A i \in 1..m : i \in 1..c
    BY <2>5, <2>6, LenProperties
  <2>8. IsInjective(send)
    BY <2>2, <2>6, <2>7 DEF IsInjective
  <2>9. ToSet(send) \in SUBSET Waiting
    BY <2>2, <2>6, <2>7 DEF ToSet
  <2> QED BY <1>3, <2>5, <2>6, <2>8, <2>9 DEF lsu_ready
<1> QED BY <1>1, <1>2, <1>3
NewUop(j) == [class |-> dq[j].class, rob |-> (tail + j - 1) % ROB_N, ev |-> dq[j].ev, at |-> "waiting"]
NewPlace(k, n, j) == (Len(win) - n) + (1 + Cardinality(Lower(MemAt(Bundle(k)), j)))

\* Retirement takes answered uops from the old end, dispatch adds its memory uops.
LEMMA WinNext ==
  ASSUME Typed, Rings, NEW k \in Dispatchable, NEW f, NEW guess, NEW send, NEW n \in Retirable,
         Cycle(k, f, guess, send, n)
  PROVE  /\ win' \in Seq(MemUop)
         /\ n \in Nat /\ n <= Len(win) /\ \A i \in 1..n : win[i].at = "answered"
         /\ \A h \in Live : h > n =>
              \E i \in 1..Len(win') : h = n + i /\ win'[i] = Moved(win[h], send)
         /\ \A j \in MemAt(Bundle(k)) :
              \E i \in 1..Len(win') : i = NewPlace(k, n, j) /\ win'[i] = NewUop(j)
         /\ \A i \in 1..Len(win') :
              \/ \E h \in Live : h = n + i /\ win'[i] = Moved(win[h], send)
              \/ \E j \in MemAt(Bundle(k)) : i = NewPlace(k, n, j) /\ win'[i] = NewUop(j)
<1> DEFINE ds == Bundle(k)
           S  == MemAt(ds)
           Of(u) == [class |-> u.class, rob |-> u.rob, ev |-> u.ev, at |-> "waiting"]
           A  == [i \in 1..Len(win) - n |-> Moved(win[n + i], send)]
           B  == [j \in 1..Len(OnlyMem(ds)) |->
                    [class |-> OnlyMem(ds)[j].class, rob |-> OnlyMem(ds)[j].rob,
                     ev |-> OnlyMem(ds)[j].ev, at |-> "waiting"]]
<1>1. n \in Nat /\ n <= Len(win) /\ \A i \in 1..n : win[i].at = "answered"
  <2>1. Len(win) \in Nat /\ W \in Nat
    BY WinTyped, Sizes
  <2>2. n \in 0..AtMost(W, Len(win)) /\ \A i \in 1..n : win[i].at = "answered"
    BY DEF Retirable
  <2> QED BY <2>1, <2>2 DEF AtMost
<1>2. PICK a \in Nat : a = Len(win) - n
  BY <1>1, WinTyped
<1>3. win' = A \o B
  BY DEF Cycle
<1>4. ASSUME NEW i \in 1..a
      PROVE  n + i \in Live /\ A[i] = Moved(win[n + i], send) /\ A[i] \in MemUop
  <2>1. n + i \in Live
    BY <1>1, <1>2, WinTyped DEF Live
  <2>2. A[i] = Moved(win[n + i], send)
    BY <1>2
  <2>3. Moved(win[n + i], send) \in MemUop
    BY <2>1, WinTyped, MovedFields
  <2> QED BY <2>1, <2>2, <2>3
<1>5. A \in Seq(MemUop) /\ Len(A) = a
  <2>1. A = [i \in 1..a |-> A[i]]
    BY <1>2
  <2> HIDE DEF A
  <2>2. A \in [1..a -> MemUop]
    BY <1>4, <2>1
  <2>3. A \in Seq(MemUop)
    BY <2>2, IsASeq
  <2> QED BY <2>2, <2>3, LenProperties
<1>6. ds \in Seq(DsUop) /\ Len(ds) = k /\ DOMAIN ds = 1..k /\ k \in Nat
  BY BundleType, DispatchRoom
<1>7. PICK m \in Nat : m = Cardinality(S)
  BY <1>6, MemAtFinite
<1>8. /\ S \in SUBSET (1..k) /\ OnlyMem(ds) = Kept(ds, S) /\ Len(OnlyMem(ds)) = m
  BY <1>6, <1>7, OnlyMemType
<1>9. ASSUME NEW j \in S
      PROVE  NewUop(j) \in MemUop /\ NewUop(j) = Of(ds[j])
  <2>1. j \in 1..k /\ IsMem(ds[j].class)
    BY <1>8 DEF MemAt
  <2>2. /\ ds[j] \in DsUop /\ ds[j].class = dq[j].class /\ ds[j].ev = dq[j].ev
        /\ ds[j].rob = (tail + j - 1) % ROB_N
    BY <2>1, BundleType
  <2>3. NewUop(j) = Of(ds[j])
    BY <2>2 DEF NewUop
  <2>4. ds[j].class \in {"load", "store", "amo"} /\ ds[j].rob \in RobIx /\ ds[j].ev \in MemEvent
    BY <2>1, <2>2 DEF DsUop, IsMem
  <2> QED BY <2>3, <2>4 DEF MemUop
<1>10. ASSUME NEW r \in 1..m
       PROVE  \E j \in S : r = 1 + Cardinality(Lower(S, j)) /\ B[r] = NewUop(j)
  <2>0. r \in 1..Cardinality(S)
    BY <1>7
  <2>4. \E j \in S : r = 1 + Cardinality(Lower(S, j)) /\ Kept(ds, S)[r] = ds[j]
    <3> HIDE DEF S, ds
    <3> QED BY <1>6, <1>8, <2>0, KeptFrom
  <2>1. PICK j \in S : r = 1 + Cardinality(Lower(S, j)) /\ Kept(ds, S)[r] = ds[j]
    BY <2>4
  <2>2. OnlyMem(ds)[r] = ds[j]
    BY <1>8, <2>1
  <2>3. B[r] = Of(ds[j])
    BY <1>8, <2>2
  <2> QED BY <1>9, <2>1, <2>3
<1>11. ASSUME NEW j \in S
       PROVE  \E r \in 1..m : r = 1 + Cardinality(Lower(S, j)) /\ B[r] = NewUop(j)
  <2>1. PICK r \in 1..m : r = 1 + Cardinality(Lower(S, j)) /\ Kept(ds, S)[r] = ds[j]
    BY <1>6, <1>7, <1>8, KeptAt
  <2>2. OnlyMem(ds)[r] = ds[j]
    BY <1>8, <2>1
  <2>3. B[r] = Of(ds[j])
    BY <1>8, <2>2
  <2> QED BY <1>9, <2>1, <2>3
<1>12. B \in Seq(MemUop) /\ Len(B) = m
  <2>1. B = [r \in 1..m |-> B[r]]
    BY <1>8
  <2> HIDE DEF B, S
  <2>2. \A r \in 1..m : B[r] \in MemUop
    BY <1>9, <1>10
  <2>3. B \in [1..m -> MemUop]
    BY <2>1, <2>2
  <2>4. B \in Seq(MemUop)
    BY <2>3, IsASeq
  <2> QED BY <2>3, <2>4, LenProperties
<1> HIDE DEF A, B, S, Of
<1>13. /\ win' \in Seq(MemUop) /\ Len(win') = a + m
       /\ \A i \in 1..a : win'[i] = A[i]
       /\ \A r \in 1..m : win'[a + r] = B[r]
  <2>1. ASSUME NEW s \in Seq(MemUop), NEW t \in Seq(MemUop), a = Len(s), m = Len(t)
        PROVE  /\ s \o t \in Seq(MemUop) /\ Len(s \o t) = a + m
               /\ \A i \in 1..a : (s \o t)[i] = s[i]
               /\ \A r \in 1..m : (s \o t)[a + r] = t[r]
    BY <2>1, Joined
  <2>2. a = Len(A) /\ m = Len(B) /\ A \in Seq(MemUop) /\ B \in Seq(MemUop)
    BY <1>5, <1>12
  <2>3. /\ A \o B \in Seq(MemUop) /\ Len(A \o B) = a + m
        /\ \A i \in 1..a : (A \o B)[i] = A[i]
        /\ \A r \in 1..m : (A \o B)[a + r] = B[r]
    BY <2>1, <2>2
  <2> QED BY <1>3, <2>3
<1>14. ASSUME NEW h \in Live, h > n
       PROVE  \E i \in 1..Len(win') : h = n + i /\ win'[i] = Moved(win[h], send)
  <2>1. PICK i \in 1..a : h = n + i
    <3>1. h - n \in 1..a /\ h = n + (h - n)
      BY <1>1, <1>2, <1>14, WinTyped DEF Live
    <3> QED BY <3>1
  <2>2. win'[i] = Moved(win[h], send)
    BY <1>4, <1>13, <2>1
  <2>3. i \in 1..Len(win')
    BY <1>13
  <2> QED BY <2>1, <2>2, <2>3
<1>15. ASSUME NEW j \in S
       PROVE  \E i \in 1..Len(win') : i = NewPlace(k, n, j) /\ win'[i] = NewUop(j)
  <2>1. PICK r \in 1..m : r = 1 + Cardinality(Lower(S, j)) /\ B[r] = NewUop(j)
    BY <1>11
  <2>2. a + r \in 1..Len(win') /\ win'[a + r] = NewUop(j)
    BY <1>13, <2>1
  <2>3. NewPlace(k, n, j) = a + r
    BY <1>2, <2>1 DEF NewPlace, S
  <2> QED BY <2>2, <2>3
<1>16. ASSUME NEW i \in 1..Len(win')
       PROVE  \/ \E h \in Live : h = n + i /\ win'[i] = Moved(win[h], send)
              \/ \E j \in S : i = NewPlace(k, n, j) /\ win'[i] = NewUop(j)
  <2>1. CASE i <= a
    <3>1. i \in 1..a
      BY <1>13, <2>1
    <3> QED BY <1>4, <1>13, <3>1
  <2>2. CASE i > a
    <3>1. PICK r \in 1..m : i = a + r
      <4>1. i - a \in 1..m /\ i = a + (i - a)
        BY <1>13, <2>2
      <4> QED BY <4>1
    <3>2. PICK j \in S : r = 1 + Cardinality(Lower(S, j)) /\ B[r] = NewUop(j)
      BY <1>10
    <3>3. win'[i] = NewUop(j)
      BY <1>13, <3>1, <3>2
    <3>4. NewPlace(k, n, j) = a + r
      BY <1>2, <3>2 DEF NewPlace, S
    <3> QED BY <3>1, <3>3, <3>4
  <2> QED BY <2>1, <2>2
<1> QED BY <1>1, <1>13, <1>14, <1>15, <1>16 DEF S
----------------------------------------------------------------------------
(* Who is answered: entries that run, each by its own access.              *)

IsOpen(q, e) == e \in DOMAIN q /\ ~q[e].dn

LEMMA AnswersOf ==
  ASSUME Typed, Owned, NEW r \in Answers
  PROVE  \/ \E e \in LineDone("ld") : Runs(ldq, e) /\ ldq[e].rob = r
         \/ \E e \in LineDone("st") : Runs(stq, e) /\ stq[e].rob = r
         \/ \E m \in Reported : Runs(ldq, ms[m].ldq) /\ ldq[ms[m].ldq].rob = r
<1>1. Reported \in SUBSET LiveMiss
  BY DEF Reported, LiveDue, Due, LiveMiss
<1>2. 0 \in 0..HD-1
  BY Sizes
<1>3. CASE \E x \in hl[0] : r = x.rob
  <2>1. PICK x \in hl[0] : r = x.rob
    BY <1>3
  <2>2. x.q \in {"ld", "st"}
    <3>1. hl[0] \in SUBSET LineAccess
      BY <1>2 DEF Typed
    <3>2. x \in LineAccess
      BY <3>1
    <3> QED BY <3>2 DEF LineAccess
  <2>3. x.idx \in LineDone(x.q)
    BY DEF LineDone
  <2> QED BY <1>2, <2>1, <2>2, <2>3 DEF Owned
<1>4. CASE \E m \in Reported : r = ms[m].rob
  BY <1>1, <1>4 DEF Owned
<1> QED BY <1>3, <1>4 DEF Answers

LEMMA AnswerFrom ==
  ASSUME Typed, Owned
  PROVE  /\ \A e \in LineDone("ld") : Runs(ldq, e) /\ ldq[e].rob \in Answers
         /\ \A e \in LineDone("st") : Runs(stq, e) /\ stq[e].rob \in Answers
         /\ \A m \in Reported : Runs(ldq, ms[m].ldq) /\ ldq[ms[m].ldq].rob \in Answers
<1>1. Reported \in SUBSET LiveMiss
  BY DEF Reported, LiveDue, Due, LiveMiss
<1>2. 0 \in 0..HD-1
  BY Sizes
<1>3. ASSUME NEW e \in LineDone("ld") PROVE Runs(ldq, e) /\ ldq[e].rob \in Answers
  <2>1. PICK x \in hl[0] : x.q = "ld" /\ x.idx = e
    BY <1>3 DEF LineDone
  <2>2. x.rob \in Answers
    BY DEF Answers
  <2> QED BY <1>2, <2>1, <2>2 DEF Owned
<1>4. ASSUME NEW e \in LineDone("st") PROVE Runs(stq, e) /\ stq[e].rob \in Answers
  <2>1. PICK x \in hl[0] : x.q = "st" /\ x.idx = e
    BY <1>4 DEF LineDone
  <2>2. x.rob \in Answers
    BY DEF Answers
  <2> QED BY <1>2, <2>1, <2>2 DEF Owned
<1>5. ASSUME NEW m \in Reported PROVE Runs(ldq, ms[m].ldq) /\ ldq[ms[m].ldq].rob \in Answers
  <2>1. ms[m].rob \in Answers
    BY DEF Answers
  <2> QED BY <1>1, <2>1 DEF Owned
<1> QED BY <1>3, <1>4, <1>5

\* An open load and an open store belong to two uops.
LEMMA KindsApart ==
  ASSUME Typed, WindowOrder, LdMatched, StMatched,
         NEW e, NEW s, IsOpen(ldq, e), IsOpen(stq, s), ldq[e].rob = stq[s].rob
  PROVE  FALSE
<1>1. PICK i \in Live : win[i].rob = ldq[e].rob /\ IsLoad(win[i].class)
  BY DEF IsOpen, LdMatched
<1>2. PICK j \in Live : win[j].rob = stq[s].rob /\ win[j].class = "store"
  BY DEF IsOpen, StMatched
<1>3. i = j
  BY <1>1, <1>2, WinApart
<1> QED BY <1>1, <1>2, <1>3 DEF IsLoad

LEMMA LdAnswered ==
  ASSUME Typed, WindowOrder, LdMatched, StMatched, Owned, NEW e, IsOpen(ldq, e)
  PROVE  ldq[e].rob \in Answers <=> e \in LineDone("ld") \/ \E m \in Reported : ms[m].ldq = e
<1>1. ASSUME e \in LineDone("ld") \/ \E m \in Reported : ms[m].ldq = e
      PROVE  ldq[e].rob \in Answers
  BY <1>1, AnswerFrom
<1>2. ASSUME ldq[e].rob \in Answers
      PROVE  e \in LineDone("ld") \/ \E m \in Reported : ms[m].ldq = e
  <2>1. ASSUME NEW d, Runs(ldq, d), ldq[d].rob = ldq[e].rob PROVE d = e
    BY <2>1 DEF Runs, IsOpen, LdMatched
  <2>2. ASSUME NEW s, Runs(stq, s), stq[s].rob = ldq[e].rob PROVE FALSE
    BY <2>2, KindsApart DEF Runs, IsOpen
  <2>3. \/ \E d \in LineDone("ld") : Runs(ldq, d) /\ ldq[d].rob = ldq[e].rob
        \/ \E d \in LineDone("st") : Runs(stq, d) /\ stq[d].rob = ldq[e].rob
        \/ \E m \in Reported : Runs(ldq, ms[m].ldq) /\ ldq[ms[m].ldq].rob = ldq[e].rob
    BY <1>2, AnswersOf
  <2> QED BY <2>1, <2>2, <2>3
<1> QED BY <1>1, <1>2

LEMMA StAnswered ==
  ASSUME Typed, WindowOrder, LdMatched, StMatched, Owned, NEW e, IsOpen(stq, e)
  PROVE  stq[e].rob \in Answers <=> e \in LineDone("st")
<1>1. ASSUME e \in LineDone("st") PROVE stq[e].rob \in Answers
  BY <1>1, AnswerFrom
<1>2. ASSUME stq[e].rob \in Answers PROVE e \in LineDone("st")
  <2>1. ASSUME NEW d, Runs(stq, d), stq[d].rob = stq[e].rob PROVE d = e
    BY <2>1 DEF Runs, IsOpen, StMatched
  <2>2. ASSUME NEW s, Runs(ldq, s), ldq[s].rob = stq[e].rob PROVE FALSE
    BY <2>2, KindsApart DEF Runs, IsOpen
  <2>3. \/ \E d \in LineDone("ld") : Runs(ldq, d) /\ ldq[d].rob = stq[e].rob
        \/ \E d \in LineDone("st") : Runs(stq, d) /\ stq[d].rob = stq[e].rob
        \/ \E m \in Reported : Runs(ldq, ms[m].ldq) /\ ldq[ms[m].ldq].rob = stq[e].rob
    BY <1>2, AnswersOf
  <2> QED BY <2>1, <2>2, <2>3
<1> QED BY <1>1, <1>2

\* An answer is for a request that was noted.
LEMMA AnswersNoted ==
  ASSUME Typed, Owned, Running
  PROVE  Answers \in SUBSET Noted
<1>1. ASSUME NEW e, Runs(ldq, e) PROVE ldq[e].rob \in Noted
  <2>1. e \in {d \in DOMAIN ldq : ldq[d].ar /\ ~ldq[d].dn}
    BY <1>1 DEF Runs, Running
  <2> QED BY <2>1 DEF Noted
<1>2. ASSUME NEW e, Runs(stq, e) PROVE stq[e].rob \in Noted
  <2>1. e \in {d \in DOMAIN stq : stq[d].ar /\ ~stq[d].dn}
    BY <1>2 DEF Runs, Running
  <2> QED BY <2>1 DEF Noted
<1> QED BY <1>1, <1>2, AnswersOf

\* The entries that are open after a cycle: those that were and are not
\* answered, and the new ones.
LEMMA LdOpenStays ==
  ASSUME Typed, Rings, WindowOrder, LdMatched, StMatched, Owned,
         NEW k \in Dispatchable, NEW f, NEW guess, NEW send, NEW n,
         Cycle(k, f, guess, send, n),
         NEW e, IsOpen(ldq, e), ldq[e].rob \notin Answers
  PROVE  IsOpen(ldq', e) /\ LdAfter(e, ldq'[e])
<1>1. e \notin LdGone
  BY LdDrains DEF IsOpen
<1>2. e \in LdStays
  BY <1>1 DEF LdStays, IsOpen
<1>3. LdAfter(e, ldq'[e]) /\ e \in DOMAIN ldq'
  BY <1>2, LdStep, LdNext
<1>4. ~ldq'[e].dn
  BY <1>3, LdAnswered DEF LdAfter, IsOpen
<1> QED BY <1>3, <1>4 DEF IsOpen

LEMMA StOpenStays ==
  ASSUME Typed, Rings, WindowOrder, LdMatched, StMatched, Owned,
         NEW k \in Dispatchable, NEW f, NEW guess, NEW send, NEW n,
         Cycle(k, f, guess, send, n),
         NEW e, IsOpen(stq, e), stq[e].rob \notin Answers
  PROVE  IsOpen(stq', e) /\ StAfter(e, stq'[e])
<1>1. e \notin StGone
  BY StDrains DEF IsOpen
<1>2. e \in StStays
  BY <1>1 DEF StStays, IsOpen
<1>3. StAfter(e, stq'[e]) /\ e \in DOMAIN stq'
  BY <1>2, StStep, StNext
<1>4. ~stq'[e].dn
  BY <1>3, StAnswered DEF StAfter, IsOpen
<1> QED BY <1>3, <1>4 DEF IsOpen

LEMMA LdOpenOrigin ==
  ASSUME Typed, Rings, WindowOrder, LdMatched, StMatched, Owned, EventsFollow,
         NEW k \in Dispatchable, NEW f, NEW guess, NEW send, NEW n,
         Cycle(k, f, guess, send, n),
         NEW e, IsOpen(ldq', e)
  PROVE  \/ IsOpen(ldq, e) /\ ldq[e].rob \notin Answers /\ LdAfter(e, ldq'[e])
         \/ \E j \in LdAt(Bundle(k)) : e = LdPlace(Bundle(k), j) /\ LdFresh(k, j, guess, ldq'[e])
<1>1. e \in DOMAIN ldq' /\ ~ldq'[e].dn
  BY DEF IsOpen
<1>2. CASE e \in DOMAIN ldq /\ LdAfter(e, ldq'[e])
  <2>1. ~ldq[e].dn /\ e \notin LineDone("ld") /\ \A m \in Reported : ms[m].ldq # e
    BY <1>1, <1>2 DEF LdAfter
  <2>2. IsOpen(ldq, e)
    BY <1>2, <2>1 DEF IsOpen
  <2> QED BY <1>2, <2>1, <2>2, LdAnswered
<1> QED BY <1>1, <1>2, LdOrigin

LEMMA StOpenOrigin ==
  ASSUME Typed, Rings, WindowOrder, LdMatched, StMatched, Owned,
         NEW k \in Dispatchable, NEW f, NEW guess, NEW send, NEW n,
         Cycle(k, f, guess, send, n),
         NEW e, IsOpen(stq', e)
  PROVE  \/ IsOpen(stq, e) /\ stq[e].rob \notin Answers /\ StAfter(e, stq'[e])
         \/ \E j \in StAt(Bundle(k)) : e = StPlace(Bundle(k), j) /\ StFresh(j, stq'[e])
<1>1. e \in DOMAIN stq' /\ ~stq'[e].dn
  BY DEF IsOpen
<1>2. CASE e \in DOMAIN stq /\ StAfter(e, stq'[e])
  <2>1. ~stq[e].dn /\ e \notin LineDone("st")
    BY <1>1, <1>2 DEF StAfter
  <2>2. IsOpen(stq, e)
    BY <1>2, <2>1 DEF IsOpen
  <2> QED BY <1>2, <2>1, <2>2, StAnswered
<1> QED BY <1>1, <1>2, StOrigin
----------------------------------------------------------------------------
(* The window's order: its entries from tail on.                           *)

LEMMA RoomAhead ==
  ASSUME Typed, Rings, WindowOrder, NEW k \in Dispatchable, NEW h \in Live
  PROVE  Ahead(h) \in 0..ROB_N-1 /\ k <= Ahead(h) /\ Ahead(h) = (win[h].rob - tail) % ROB_N
<1>1. h \in Nat /\ 1 \in Live /\ 1 <= h /\ win # <<>>
  <2>1. PICK d \in Nat : d = Len(win)
    BY WinTyped
  <2>2. h \in 1..d
    BY <2>1 DEF Live
  <2>3. 1 \in 1..d
    BY <2>2
  <2>4. win # <<>>
    BY <2>1, <2>3
  <2> QED BY <2>1, <2>2, <2>3, <2>4 DEF Live
<1>2. \A i \in Live : Ahead(i) \in 0..ROB_N-1
  <2>1. ASSUME NEW i \in Live PROVE Ahead(i) \in 0..ROB_N-1
    <3>1. win[i].rob \in 0..ROB_N-1 /\ tail \in 0..ROB_N-1
      BY WinTyped DEF RobIx, Typed
    <3>2. (win[i].rob - tail) % ROB_N \in 0..ROB_N-1
      BY <3>1, Sizes, NumberOf
    <3> QED BY <3>2 DEF Ahead
  <2> QED BY <2>1
<1>3. RobRoom = Ahead(1)
  BY <1>1 DEF RobRoom, Ahead
<1>4. k <= RobRoom /\ k \in Nat
  BY DispatchRoom
<1>5. Ahead(1) <= Ahead(h)
  <2>1. CASE h = 1
    BY <1>2, <2>1
  <2>2. CASE h # 1
    <3>1. 1 < h
      BY <1>1, <2>2
    <3>2. Ahead(1) < Ahead(h)
      BY <1>1, <3>1 DEF WindowOrder
    <3> QED BY <1>1, <1>2, <3>2
  <2> QED BY <2>1, <2>2
<1>6. PICK a \in 0..ROB_N-1, b \in 0..ROB_N-1 : a = Ahead(1) /\ b = Ahead(h)
  BY <1>1, <1>2
<1>7. k <= b
  BY <1>3, <1>4, <1>5, <1>6
<1> QED BY <1>6, <1>7 DEF Ahead

\* The entries of a bundle are the next ones, in its order.
LEMMA FreshRob ==
  ASSUME Typed, Rings, NEW k \in Dispatchable, NEW j \in 1..k
  PROVE  /\ (tail + j - 1) % ROB_N \in RobIx
         /\ (((tail + j - 1) % ROB_N) - tail) % ROB_N = j - 1
         /\ j - 1 \in 0..ROB_N-1 /\ j - 1 < k
<1>1. k \in Nat /\ k <= ROB_N /\ j \in Nat
  BY DispatchRoom, Sizes
<1>2. PICK i \in 0..ROB_N-1 : i = j - 1 /\ i < k
  <2>1. j - 1 \in 0..ROB_N-1 /\ j - 1 < k
    BY <1>1, Sizes
  <2> QED BY <2>1
<1>3. tail \in 0..ROB_N-1
  BY DEF Typed, RobIx
<1>4. tail + j - 1 = tail + i
  BY <1>1, <1>2, <1>3
<1>5. (tail + i) % ROB_N \in 0..ROB_N-1 /\ (((tail + i) % ROB_N) - tail) % ROB_N = i
  <2>1. i \in 0..ROB_N
    BY Sizes
  <2> QED BY <1>2, <1>3, <2>1, Sizes, PlaceAt, PlaceNumber
<1> QED BY <1>2, <1>4, <1>5 DEF RobIx

LEMMA FreshApart ==
  ASSUME Typed, Rings, WindowOrder, NEW k \in Dispatchable, NEW j \in 1..k
  PROVE  /\ \A h \in Live : win[h].rob # (tail + j - 1) % ROB_N
         /\ \A i \in 1..k : (tail + i - 1) % ROB_N = (tail + j - 1) % ROB_N => i = j
<1>1. PICK x \in RobIx : x = (tail + j - 1) % ROB_N /\ (x - tail) % ROB_N = j - 1 /\ j - 1 < k
  BY FreshRob
<1>2. k \in Nat
  BY DispatchRoom
<1>3. ASSUME NEW h \in Live, win[h].rob = x PROVE FALSE
  BY <1>1, <1>2, <1>3, RoomAhead
<1>4. ASSUME NEW i \in 1..k, (tail + i - 1) % ROB_N = x PROVE i = j
  <2>1. (x - tail) % ROB_N = i - 1
    BY <1>4, FreshRob
  <2> QED BY <1>1, <1>2, <2>1
<1> QED BY <1>1, <1>3, <1>4

LEMMA AheadNext ==
  ASSUME Typed, Rings, NEW k \in Dispatchable, NEW x \in RobIx, NEW a \in 0..ROB_N-1,
         a = (x - tail) % ROB_N
  PROVE  /\ (tail + k) % ROB_N \in RobIx
         /\ k <= a => (x - ((tail + k) % ROB_N)) % ROB_N = a - k
         /\ a < k => (x - ((tail + k) % ROB_N)) % ROB_N = a - k + ROB_N
<1>1. k \in 0..ROB_N /\ tail \in 0..ROB_N-1 /\ x \in 0..ROB_N-1
  <2>1. k \in 0..ROB_N
    BY DispatchRoom, Sizes
  <2> QED BY <2>1 DEF Typed, RobIx
<1>2. /\ k <= (x - tail) % ROB_N => (x - ((tail + k) % ROB_N)) % ROB_N = ((x - tail) % ROB_N) - k
      /\ (x - tail) % ROB_N < k =>
           (x - ((tail + k) % ROB_N)) % ROB_N = ((x - tail) % ROB_N) - k + ROB_N
  BY <1>1, Sizes, NumberFrom
<1>3. (tail + k) % ROB_N \in 0..ROB_N-1
  BY <1>1, Sizes, PlaceAt
<1> QED BY <1>2, <1>3 DEF RobIx

\* Two lanes of a bundle come into the window in their order.
LEMMA NewPlaces ==
  ASSUME Typed, Rings, NEW k \in Dispatchable, NEW n \in Retirable,
         NEW i \in MemAt(Bundle(k)), NEW j \in MemAt(Bundle(k))
  PROVE  /\ i < j <=> NewPlace(k, n, i) < NewPlace(k, n, j)
         /\ NewPlace(k, n, i) \in Int /\ NewPlace(k, n, i) > Len(win) - n
         /\ i \in 1..k /\ j \in 1..k
<1> DEFINE S == MemAt(Bundle(k))
<1>1. S \in SUBSET (0..k) /\ S \in SUBSET (1..k) /\ k \in Nat
  <2>1. S = {l \in 1..k : IsMem(dq[l].class)}
    BY MemOfBundle
  <2>2. k \in Nat
    BY DispatchRoom
  <2> HIDE DEF S
  <2>3. S \in SUBSET (1..k)
    BY <2>1
  <2> QED BY <2>2, <2>3
<1>2. i \in S /\ j \in S
  OBVIOUS
<1>3. PICK a \in Nat, b \in Nat : a = Cardinality(Lower(S, i)) /\ b = Cardinality(Lower(S, j))
  BY <1>1, LowerType
<1>4. i < j => a < b
  BY <1>1, <1>2, <1>3, RankOrders
<1>5. j < i => b < a
  BY <1>1, <1>2, <1>3, RankOrders
<1>6. i = j => a = b
  BY <1>3
<1>7. i \in Int /\ j \in Int
  BY <1>1
<1>8. i < j <=> a < b
  BY <1>3, <1>4, <1>5, <1>6, <1>7
<1>9. PICK d \in Int : d = Len(win) - n
  <2>1. Len(win) \in Nat /\ W \in Nat
    BY WinTyped, Sizes
  <2>2. n \in Int
    BY <2>1 DEF Retirable, AtMost
  <2>3. Len(win) - n \in Int
    BY <2>1, <2>2
  <2> QED BY <2>3
<1>10. NewPlace(k, n, i) = d + (1 + a) /\ NewPlace(k, n, j) = d + (1 + b)
  BY <1>3, <1>9 DEF NewPlace
<1>11. i \in 1..k /\ j \in 1..k
  BY <1>1, <1>2
<1>12. /\ a < b <=> d + (1 + a) < d + (1 + b)
       /\ d + (1 + a) \in Int /\ d + (1 + a) > d
  OBVIOUS
<1> HIDE DEF S
<1>13. i < j <=> NewPlace(k, n, i) < NewPlace(k, n, j)
  BY <1>8, <1>10, <1>12
<1>14. NewPlace(k, n, i) \in Int /\ NewPlace(k, n, i) > Len(win) - n
  BY <1>9, <1>10, <1>12
<1> QED BY <1>11, <1>13, <1>14

LEMMA WindowNext ==
  ASSUME Typed, Rings, WindowOrder, NEW k \in Dispatchable, NEW f, NEW guess, NEW send,
         NEW n \in Retirable, Cycle(k, f, guess, send, n)
  PROVE  WindowOrder' /\ tail' \in RobIx
<1> DEFINE Num(i) == (win'[i].rob - tail') % ROB_N
<1>1. tail' = (tail + k) % ROB_N
  BY DEF Cycle
<1>2. k \in Nat /\ n \in Nat /\ Len(win) \in Nat /\ ROB_N \in Nat
  BY DispatchRoom, WinNext, WinTyped, Sizes
<1>3. ASSUME NEW i \in 1..Len(win'), NEW h \in Live, win'[i] = Moved(win[h], send)
      PROVE  Num(i) = Ahead(h) - k /\ Ahead(h) \in 0..ROB_N-1 /\ k <= Ahead(h)
  <2>1. win'[i].rob = win[h].rob /\ win[h].rob \in RobIx
    BY <1>3, WinTyped, MovedFields
  <2>2. PICK a \in 0..ROB_N-1 : a = Ahead(h) /\ a = (win[h].rob - tail) % ROB_N /\ k <= a
    BY RoomAhead
  <2>3. Num(i) = a - k
    BY <1>1, <2>1, <2>2, AheadNext
  <2> QED BY <2>2, <2>3
<1>4. ASSUME NEW i \in 1..Len(win'), NEW j \in MemAt(Bundle(k)), win'[i] = NewUop(j)
      PROVE  Num(i) = j - 1 - k + ROB_N /\ j \in 1..k
  <2>1. j \in 1..k
    BY NewPlaces
  <2>2. PICK x \in RobIx : x = (tail + j - 1) % ROB_N /\ (x - tail) % ROB_N = j - 1 /\ j - 1 < k /\ j - 1 \in 0..ROB_N-1
    BY <2>1, FreshRob
  <2>3. PICK a \in 0..ROB_N-1 : a = j - 1
    BY <2>2
  <2>4. (x - ((tail + k) % ROB_N)) % ROB_N = a - k + ROB_N
    BY <2>2, <2>3, AheadNext
  <2>5. win'[i].rob = x
    BY <1>4, <2>2 DEF NewUop
  <2> QED BY <1>1, <2>1, <2>3, <2>4, <2>5
<1>5. ASSUME NEW i \in 1..Len(win'), NEW j \in 1..Len(win'), i < j
      PROVE  Num(i) < Num(j)
  <2> HIDE DEF Num
  <2>1. ASSUME NEW h \in Live, h = n + i, win'[i] = Moved(win[h], send) PROVE Num(i) < Num(j)
    <3>1. ASSUME NEW g \in Live, g = n + j, win'[j] = Moved(win[g], send) PROVE Num(i) < Num(j)
      <4>1. h < g
        BY <1>2, <1>5, <2>1, <3>1 DEF Live
      <4>2. Ahead(h) < Ahead(g)
        BY <4>1 DEF WindowOrder
      <4> QED BY <1>2, <1>3, <2>1, <3>1, <4>2
    <3>2. ASSUME NEW g \in MemAt(Bundle(k)), win'[j] = NewUop(g) PROVE Num(i) < Num(j)
      <4>1. Num(i) = Ahead(h) - k /\ Ahead(h) \in 0..ROB_N-1
        BY <1>3, <2>1
      <4>2. Num(j) = g - 1 - k + ROB_N /\ g \in 1..k
        BY <1>4, <3>2
      <4> QED BY <1>2, <4>1, <4>2
    <3> QED BY <3>1, <3>2, WinNext
  <2>2. ASSUME NEW h \in MemAt(Bundle(k)), i = NewPlace(k, n, h), win'[i] = NewUop(h)
        PROVE  Num(i) < Num(j)
    <3>1. ASSUME NEW g \in Live, g = n + j PROVE FALSE
      <4>1. i > Len(win) - n
        BY <2>2, NewPlaces
      <4> QED BY <1>2, <1>5, <3>1, <4>1 DEF Live
    <3>2. ASSUME NEW g \in MemAt(Bundle(k)), j = NewPlace(k, n, g), win'[j] = NewUop(g)
          PROVE  Num(i) < Num(j)
      <4>1. h < g
        BY <1>5, <2>2, <3>2, NewPlaces
      <4>2. Num(i) = h - 1 - k + ROB_N /\ h \in 1..k
        BY <1>4, <2>2
      <4>3. Num(j) = g - 1 - k + ROB_N /\ g \in 1..k
        BY <1>4, <3>2
      <4> QED BY <1>2, <4>1, <4>2, <4>3
    <3> QED BY <3>1, <3>2, WinNext
  <2> QED BY <2>1, <2>2, WinNext
<1>6. tail' \in RobIx
  <2>1. (tail + k) % ROB_N \in 0..ROB_N-1
    <3>1. k \in 0..ROB_N
      BY DispatchRoom, Sizes
    <3>2. tail \in 0..ROB_N-1
      BY DEF Typed, RobIx
    <3> QED BY <3>1, <3>2, Sizes, PlaceAt
  <2> QED BY <1>1, <2>1 DEF RobIx
<1>7. \A i, j \in 1..Len(win') : i < j => (win'[i].rob - tail') % ROB_N < (win'[j].rob - tail') % ROB_N
  BY <1>5
<1> QED BY <1>6, <1>7 DEF WindowOrder, Ahead, Live
----------------------------------------------------------------------------
(* The open entries are those of the uops that are not answered.           *)

UopAfter(h, u, send) ==
  /\ u.class = win[h].class /\ u.rob = win[h].rob /\ u.ev = win[h].ev
  /\ u.at = IF win[h].rob \in ToSet(send) THEN "asked" ELSE win[h].at

\* Only waiting uops are asked.
LEMMA SentWait ==
  ASSUME Typed, WindowOrder, NEW send \in Requests, NEW h \in Live, win[h].rob \in ToSet(send)
  PROVE  win[h].at = "waiting"
<1>1. win[h].rob \in Waiting
  BY SendType
<1>2. PICK g \in WaitingAt : win[g].rob = win[h].rob
  BY <1>1 DEF Waiting
<1>3. g \in Live /\ win[g].at = "waiting"
  BY DEF WaitingAt
<1>4. g = h
  BY <1>2, <1>3, WinApart
<1> QED BY <1>3, <1>4

LEMMA UopStays ==
  ASSUME Typed, Rings, WindowOrder, NEW k \in Dispatchable, NEW f, NEW guess,
         NEW send \in Requests, NEW n \in Retirable, Cycle(k, f, guess, send, n),
         NEW h \in Live, Open(h), win[h].rob \notin Answers
  PROVE  \E i \in 1..Len(win') : h = n + i /\ UopAfter(h, win'[i], send)
<1>1. h > n
  <2>1. h \in Nat /\ n \in Nat /\ h >= 1
    BY WinNext, WinTyped DEF Live
  <2>2. h \notin 1..n
    BY WinNext DEF Open
  <2> QED BY <2>1, <2>2
<1>2. PICK i \in 1..Len(win') : h = n + i /\ win'[i] = Moved(win[h], send)
  BY <1>1, WinNext
<1>3. UopAfter(h, win'[i], send)
  BY <1>2, WinTyped, MovedFields DEF UopAfter
<1> QED BY <1>2, <1>3

LEMMA UopOrigin ==
  ASSUME Typed, Rings, WindowOrder, NEW k \in Dispatchable, NEW f, NEW guess,
         NEW send \in Requests, NEW n \in Retirable, Cycle(k, f, guess, send, n),
         NEW i \in 1..Len(win'), win'[i].at # "answered"
  PROVE  \/ \E h \in Live : /\ h = n + i /\ Open(h) /\ win[h].rob \notin Answers
                            /\ UopAfter(h, win'[i], send)
         \/ \E j \in MemAt(Bundle(k)) : i = NewPlace(k, n, j) /\ win'[i] = NewUop(j)
<1>1. ASSUME NEW h \in Live, h = n + i, win'[i] = Moved(win[h], send)
      PROVE  /\ Open(h) /\ win[h].rob \notin Answers
             /\ UopAfter(h, win'[i], send)
  <2>1. /\ win'[i].class = win[h].class /\ win'[i].rob = win[h].rob /\ win'[i].ev = win[h].ev
        /\ win'[i].at = IF win[h].rob \in Answers THEN "answered"
                        ELSE IF win[h].rob \in ToSet(send) THEN "asked" ELSE win[h].at
    BY <1>1, WinTyped, MovedFields
  <2>2. win[h].rob \notin Answers
    BY <2>1
  <2>3. Open(h)
    BY <2>1, <2>2, SentWait DEF Open
  <2> QED BY <2>1, <2>2, <2>3 DEF UopAfter
<1> QED BY <1>1, WinNext

LEMMA MemLanesAre ==
  ASSUME Typed, Rings, NEW k \in Dispatchable
  PROVE  /\ \A j : j \in MemAt(Bundle(k)) <=> j \in 1..k /\ IsMem(dq[j].class)
         /\ \A j : j \in LdAt(Bundle(k)) <=> j \in 1..k /\ IsLoad(dq[j].class)
         /\ \A j : j \in StAt(Bundle(k)) <=> j \in 1..k /\ IsStore(dq[j].class)
         /\ \A j \in LdAt(Bundle(k)) : j \in MemAt(Bundle(k))
         /\ \A j \in StAt(Bundle(k)) : j \in MemAt(Bundle(k))
<1>1. DOMAIN Bundle(k) = 1..k /\ \A j \in 1..k : Bundle(k)[j].class = dq[j].class
  BY BundleType
<1>2. \A c : (IsLoad(c) => IsMem(c)) /\ (IsStore(c) => IsMem(c))
  BY DEF IsLoad, IsStore, IsMem
<1>3. /\ \A j : j \in MemAt(Bundle(k)) <=> j \in 1..k /\ IsMem(dq[j].class)
      /\ \A j : j \in LdAt(Bundle(k)) <=> j \in 1..k /\ IsLoad(dq[j].class)
      /\ \A j : j \in StAt(Bundle(k)) <=> j \in 1..k /\ IsStore(dq[j].class)
  BY <1>1 DEF MemAt, LdAt, StAt
<1> QED BY <1>2, <1>3

LEMMA NewUopFields ==
  ASSUME NEW j
  PROVE  /\ NewUop(j).class = dq[j].class /\ NewUop(j).rob = (tail + j - 1) % ROB_N
         /\ NewUop(j).ev = dq[j].ev /\ NewUop(j).at = "waiting"
BY DEF NewUop

LEMMA LdMatchedNext ==
  ASSUME Typed, Rings, WindowOrder, LdMatched, StMatched, RequestPlaces, Owned, EventsFollow,
         NEW k \in Dispatchable, NEW f, NEW guess,
         NEW send \in Requests, NEW n \in Retirable, Cycle(k, f, guess, send, n)
  PROVE  LdMatched'
<1>1. ASSUME NEW e, IsOpen(ldq', e)
      PROVE  \E i \in 1..Len(win') : /\ win'[i].rob = ldq'[e].rob /\ IsLoad(win'[i].class)
                                     /\ win'[i].at # "answered" /\ win'[i].ev = ldq'[e].ev
                                     /\ ldq'[e].ar => win'[i].at = "asked"
  <2>1. CASE IsOpen(ldq, e) /\ ldq[e].rob \notin Answers /\ LdAfter(e, ldq'[e])
    <3>1. PICK h \in Live : /\ win[h].rob = ldq[e].rob /\ IsLoad(win[h].class) /\ Open(h)
                            /\ win[h].ev = ldq[e].ev
                            /\ ldq[e].ar => win[h].at = "asked"
      BY <2>1 DEF LdMatched, IsOpen
    <3>2. PICK i \in 1..Len(win') : UopAfter(h, win'[i], send)
      BY <2>1, <3>1, UopStays
    <3>3. ASSUME ldq'[e].ar PROVE win[h].at = "asked"
      <4>1. CASE ldq[e].ar
        BY <3>1, <4>1
      <4>2. CASE ldq[e].rob \in Popped
        <5>1. ldq[e].rob \in AskedRobs
          <6>1. Len(pq) \in Nat /\ DOMAIN pq = 1..Len(pq)
            BY LenProperties DEF Typed
          <6>2. Popped \in SUBSET ToSet(pq)
            BY <6>1 DEF Popped, ToSet, AtMost
          <6> QED BY <4>2, <6>2 DEF RequestPlaces
        <5>2. PICK g \in Live : win[g].at = "asked" /\ win[g].rob = ldq[e].rob
          BY <5>1 DEF AskedRobs
        <5>3. g = h
          BY <3>1, <5>2, WinApart
        <5> QED BY <5>2, <5>3
      <4> QED BY <2>1, <3>3, <4>1, <4>2 DEF LdAfter
    <3>4. /\ win'[i].rob = ldq'[e].rob /\ IsLoad(win'[i].class) /\ win'[i].ev = ldq'[e].ev
      BY <2>1, <3>1, <3>2 DEF UopAfter, LdAfter
    <3>5. win'[i].at # "answered"
      BY <3>1, <3>2 DEF UopAfter, Open
    <3>6. ldq'[e].ar => win'[i].at = "asked"
      BY <3>2, <3>3 DEF UopAfter
    <3> QED BY <3>4, <3>5, <3>6
  <2>2. ASSUME NEW j \in LdAt(Bundle(k)), LdFresh(k, j, guess, ldq'[e])
        PROVE  \E i \in 1..Len(win') : /\ win'[i].rob = ldq'[e].rob /\ IsLoad(win'[i].class)
                                       /\ win'[i].at # "answered" /\ win'[i].ev = ldq'[e].ev
                                       /\ ldq'[e].ar => win'[i].at = "asked"
    <3>1. j \in MemAt(Bundle(k)) /\ IsLoad(dq[j].class)
      BY MemLanesAre
    <3>2. PICK i \in 1..Len(win') : win'[i] = NewUop(j)
      BY <3>1, WinNext
    <3>3. /\ win'[i].rob = ldq'[e].rob /\ IsLoad(win'[i].class) /\ win'[i].ev = ldq'[e].ev
          /\ win'[i].at # "answered"
      BY <2>2, <3>1, <3>2, NewUopFields DEF LdFresh
    <3> QED BY <2>2, <3>3 DEF LdFresh
  <2> QED BY <1>1, <2>1, <2>2, LdOpenOrigin
<1>2. ASSUME NEW i \in 1..Len(win'), IsLoad(win'[i].class), win'[i].at # "answered"
      PROVE  \E e : IsOpen(ldq', e) /\ ldq'[e].rob = win'[i].rob
  <2>1. ASSUME NEW h \in Live, Open(h), win[h].rob \notin Answers, UopAfter(h, win'[i], send)
        PROVE  \E e : IsOpen(ldq', e) /\ ldq'[e].rob = win'[i].rob
    <3>1. IsLoad(win[h].class) /\ win'[i].rob = win[h].rob
      BY <1>2, <2>1 DEF UopAfter
    <3>2. PICK e \in DOMAIN ldq : ~ldq[e].dn /\ ldq[e].rob = win[h].rob
      BY <2>1, <3>1 DEF LdMatched
    <3>3. IsOpen(ldq', e) /\ LdAfter(e, ldq'[e])
      BY <2>1, <3>2, LdOpenStays DEF IsOpen
    <3> QED BY <3>1, <3>2, <3>3 DEF LdAfter
  <2>2. ASSUME NEW j \in MemAt(Bundle(k)), win'[i] = NewUop(j)
        PROVE  \E e : IsOpen(ldq', e) /\ ldq'[e].rob = win'[i].rob
    <3>1. j \in LdAt(Bundle(k))
      BY <1>2, <2>2, MemLanesAre, NewUopFields
    <3>2. /\ LdPlace(Bundle(k), j) \in DOMAIN ldq'
          /\ LdFresh(k, j, guess, ldq'[LdPlace(Bundle(k), j)])
      BY <3>1, LdAdded
    <3>3. IsOpen(ldq', LdPlace(Bundle(k), j))
      BY <3>2 DEF IsOpen, LdFresh
    <3>4. ldq'[LdPlace(Bundle(k), j)].rob = win'[i].rob
      BY <2>2, <3>2, NewUopFields DEF LdFresh
    <3> QED BY <3>3, <3>4
  <2> QED BY <1>2, <2>1, <2>2, UopOrigin
<1>3. ASSUME NEW e, NEW d, IsOpen(ldq', e), IsOpen(ldq', d), ldq'[e].rob = ldq'[d].rob
      PROVE  e = d
  <2>1. ASSUME NEW x, NEW y, IsOpen(ldq, x), LdAfter(x, ldq'[x]),
               NEW j \in LdAt(Bundle(k)), LdFresh(k, j, guess, ldq'[y]), ldq'[x].rob = ldq'[y].rob
        PROVE  FALSE
    <3>1. PICK h \in Live : win[h].rob = ldq[x].rob
      BY <2>1 DEF LdMatched, IsOpen
    <3>2. j \in 1..k
      BY MemLanesAre
    <3>3. win[h].rob = (tail + j - 1) % ROB_N
      BY <2>1, <3>1 DEF LdAfter, LdFresh
    <3> QED BY <3>2, <3>3, FreshApart
  <2>2. CASE IsOpen(ldq, e) /\ LdAfter(e, ldq'[e])
    <3>1. CASE IsOpen(ldq, d) /\ LdAfter(d, ldq'[d])
      BY <1>3, <2>2, <3>1 DEF LdAfter, IsOpen, LdMatched
    <3>2. ASSUME NEW j \in LdAt(Bundle(k)), LdFresh(k, j, guess, ldq'[d]) PROVE FALSE
      BY <1>3, <2>1, <2>2, <3>2
    <3> QED BY <1>3, <3>1, <3>2, LdOpenOrigin
  <2>3. ASSUME NEW j \in LdAt(Bundle(k)), e = LdPlace(Bundle(k), j), LdFresh(k, j, guess, ldq'[e])
        PROVE  e = d
    <3>1. ASSUME IsOpen(ldq, d), LdAfter(d, ldq'[d]) PROVE FALSE
      <4>1. ldq'[d].rob = ldq'[e].rob
        BY <1>3
      <4> QED BY <2>1, <2>3, <3>1, <4>1
    <3>2. ASSUME NEW i \in LdAt(Bundle(k)), d = LdPlace(Bundle(k), i), LdFresh(k, i, guess, ldq'[d])
          PROVE  e = d
      <4>1. i \in 1..k /\ j \in 1..k
        BY MemLanesAre
      <4>2. (tail + i - 1) % ROB_N = (tail + j - 1) % ROB_N
        BY <1>3, <2>3, <3>2 DEF LdFresh
      <4>3. i = j
        BY <4>1, <4>2, FreshApart
      <4> QED BY <2>3, <3>2, <4>3
    <3> QED BY <1>3, <3>1, <3>2, LdOpenOrigin
  <2> QED BY <1>3, <2>2, <2>3, LdOpenOrigin
<1>4. \A e \in DOMAIN ldq' : ~ldq'[e].dn =>
        \E i \in 1..Len(win') : /\ win'[i].rob = ldq'[e].rob /\ IsLoad(win'[i].class)
                                /\ win'[i].at # "answered" /\ win'[i].ev = ldq'[e].ev
                                /\ ldq'[e].ar => win'[i].at = "asked"
  BY <1>1 DEF IsOpen
<1>5. \A i \in 1..Len(win') : IsLoad(win'[i].class) /\ win'[i].at # "answered" =>
        \E e \in DOMAIN ldq' : ~ldq'[e].dn /\ ldq'[e].rob = win'[i].rob
  BY <1>2 DEF IsOpen
<1>6. \A e, d \in DOMAIN ldq' : ~ldq'[e].dn /\ ~ldq'[d].dn /\ ldq'[e].rob = ldq'[d].rob => e = d
  BY <1>3 DEF IsOpen
<1> QED BY <1>4, <1>5, <1>6 DEF LdMatched, Open, Live, IsLoad
LEMMA StMatchedNext ==
  ASSUME Typed, Rings, WindowOrder, LdMatched, StMatched, RequestPlaces, Owned,
         NEW k \in Dispatchable, NEW f, NEW guess,
         NEW send \in Requests, NEW n \in Retirable, Cycle(k, f, guess, send, n)
  PROVE  StMatched'
<1>1. ASSUME NEW e, IsOpen(stq', e)
      PROVE  /\ ~stq'[e].noacc
             /\ \E i \in 1..Len(win') : /\ win'[i].rob = stq'[e].rob /\ win'[i].class = "store"
                                        /\ win'[i].at # "answered"
                                        /\ stq'[e].ar => win'[i].at = "asked"
  <2>1. CASE IsOpen(stq, e) /\ stq[e].rob \notin Answers /\ StAfter(e, stq'[e])
    <3>1. PICK h \in Live : /\ win[h].rob = stq[e].rob /\ win[h].class = "store" /\ Open(h)
                            /\ stq[e].ar => win[h].at = "asked"
      BY <2>1 DEF StMatched, IsOpen
    <3>2. PICK i \in 1..Len(win') : UopAfter(h, win'[i], send)
      BY <2>1, <3>1, UopStays
    <3>3. ASSUME stq'[e].ar PROVE win[h].at = "asked"
      <4>1. CASE stq[e].ar
        BY <3>1, <4>1
      <4>2. CASE stq[e].rob \in Popped
        <5>1. stq[e].rob \in AskedRobs
          <6>1. Len(pq) \in Nat /\ DOMAIN pq = 1..Len(pq)
            BY LenProperties DEF Typed
          <6>2. Popped \in SUBSET ToSet(pq)
            BY <6>1 DEF Popped, ToSet, AtMost
          <6> QED BY <4>2, <6>2 DEF RequestPlaces
        <5>2. PICK g \in Live : win[g].at = "asked" /\ win[g].rob = stq[e].rob
          BY <5>1 DEF AskedRobs
        <5>3. g = h
          BY <3>1, <5>2, WinApart
        <5> QED BY <5>2, <5>3
      <4> QED BY <2>1, <3>3, <4>1, <4>2 DEF StAfter
    <3>4. win'[i].rob = stq'[e].rob /\ win'[i].class = "store"
      BY <2>1, <3>1, <3>2 DEF UopAfter, StAfter
    <3>5. win'[i].at # "answered"
      BY <3>1, <3>2 DEF UopAfter, Open
    <3>6. stq'[e].ar => win'[i].at = "asked"
      BY <3>2, <3>3 DEF UopAfter
    <3>7. ~stq'[e].noacc
      BY <2>1 DEF StMatched, IsOpen, StAfter
    <3> QED BY <3>4, <3>5, <3>6, <3>7
  <2>2. ASSUME NEW j \in StAt(Bundle(k)), StFresh(j, stq'[e])
        PROVE  /\ ~stq'[e].noacc
               /\ \E i \in 1..Len(win') : /\ win'[i].rob = stq'[e].rob /\ win'[i].class = "store"
                                          /\ win'[i].at # "answered"
                                          /\ stq'[e].ar => win'[i].at = "asked"
    <3>1. j \in MemAt(Bundle(k)) /\ IsStore(dq[j].class)
      BY MemLanesAre
    <3>2. PICK i \in 1..Len(win') : win'[i] = NewUop(j)
      BY <3>1, WinNext
    <3>3. ~stq'[e].noacc /\ ~stq'[e].ar /\ dq[j].class = "store"
      BY <1>1, <2>2, <3>1 DEF StFresh, IsOpen, IsStore
    <3>4. /\ win'[i].rob = stq'[e].rob /\ win'[i].class = "store" /\ win'[i].at # "answered"
      BY <2>2, <3>2, <3>3, NewUopFields DEF StFresh
    <3> QED BY <3>3, <3>4
  <2> QED BY <1>1, <2>1, <2>2, StOpenOrigin
<1>2. ASSUME NEW i \in 1..Len(win'), win'[i].class = "store", win'[i].at # "answered"
      PROVE  \E e : IsOpen(stq', e) /\ stq'[e].rob = win'[i].rob
  <2>1. ASSUME NEW h \in Live, Open(h), win[h].rob \notin Answers, UopAfter(h, win'[i], send)
        PROVE  \E e : IsOpen(stq', e) /\ stq'[e].rob = win'[i].rob
    <3>1. win[h].class = "store" /\ win'[i].rob = win[h].rob
      BY <1>2, <2>1 DEF UopAfter
    <3>2. PICK e \in DOMAIN stq : ~stq[e].dn /\ stq[e].rob = win[h].rob
      BY <2>1, <3>1 DEF StMatched
    <3>3. IsOpen(stq', e) /\ StAfter(e, stq'[e])
      BY <2>1, <3>2, StOpenStays DEF IsOpen
    <3> QED BY <3>1, <3>2, <3>3 DEF StAfter
  <2>2. ASSUME NEW j \in MemAt(Bundle(k)), win'[i] = NewUop(j)
        PROVE  \E e : IsOpen(stq', e) /\ stq'[e].rob = win'[i].rob
    <3>1. dq[j].class = "store"
      BY <1>2, <2>2, NewUopFields
    <3>2. j \in StAt(Bundle(k))
      BY <3>1, MemLanesAre DEF IsStore
    <3>3. /\ StPlace(Bundle(k), j) \in DOMAIN stq'
          /\ StFresh(j, stq'[StPlace(Bundle(k), j)])
      BY <3>2, StAdded
    <3>4. IsOpen(stq', StPlace(Bundle(k), j))
      BY <3>1, <3>3 DEF IsOpen, StFresh
    <3>5. stq'[StPlace(Bundle(k), j)].rob = win'[i].rob
      BY <2>2, <3>3, NewUopFields DEF StFresh
    <3> QED BY <3>4, <3>5
  <2> QED BY <1>2, <2>1, <2>2, UopOrigin
<1>3. ASSUME NEW e, NEW d, IsOpen(stq', e), IsOpen(stq', d), stq'[e].rob = stq'[d].rob
      PROVE  e = d
  <2>1. ASSUME NEW x, NEW y, IsOpen(stq, x), StAfter(x, stq'[x]),
               NEW j \in StAt(Bundle(k)), StFresh(j, stq'[y]), stq'[x].rob = stq'[y].rob
        PROVE  FALSE
    <3>1. PICK h \in Live : win[h].rob = stq[x].rob
      BY <2>1 DEF StMatched, IsOpen
    <3>2. j \in 1..k
      BY MemLanesAre
    <3>3. win[h].rob = (tail + j - 1) % ROB_N
      BY <2>1, <3>1 DEF StAfter, StFresh
    <3> QED BY <3>2, <3>3, FreshApart
  <2>2. CASE IsOpen(stq, e) /\ StAfter(e, stq'[e])
    <3>1. CASE IsOpen(stq, d) /\ StAfter(d, stq'[d])
      BY <1>3, <2>2, <3>1 DEF StAfter, IsOpen, StMatched
    <3>2. ASSUME NEW j \in StAt(Bundle(k)), StFresh(j, stq'[d]) PROVE FALSE
      BY <1>3, <2>1, <2>2, <3>2
    <3> QED BY <1>3, <3>1, <3>2, StOpenOrigin
  <2>3. ASSUME NEW j \in StAt(Bundle(k)), e = StPlace(Bundle(k), j), StFresh(j, stq'[e])
        PROVE  e = d
    <3>1. ASSUME IsOpen(stq, d), StAfter(d, stq'[d]) PROVE FALSE
      <4>1. stq'[d].rob = stq'[e].rob
        BY <1>3
      <4> QED BY <2>1, <2>3, <3>1, <4>1
    <3>2. ASSUME NEW i \in StAt(Bundle(k)), d = StPlace(Bundle(k), i), StFresh(i, stq'[d])
          PROVE  e = d
      <4>1. i \in 1..k /\ j \in 1..k
        BY MemLanesAre
      <4>2. (tail + i - 1) % ROB_N = (tail + j - 1) % ROB_N
        BY <1>3, <2>3, <3>2 DEF StFresh
      <4>3. i = j
        BY <4>1, <4>2, FreshApart
      <4> QED BY <2>3, <3>2, <4>3
    <3> QED BY <1>3, <3>1, <3>2, StOpenOrigin
  <2> QED BY <1>3, <2>2, <2>3, StOpenOrigin
<1>4. \A e \in DOMAIN stq' : ~stq'[e].dn =>
        /\ ~stq'[e].noacc
        /\ \E i \in 1..Len(win') : /\ win'[i].rob = stq'[e].rob /\ win'[i].class = "store"
                                   /\ win'[i].at # "answered"
                                   /\ stq'[e].ar => win'[i].at = "asked"
  BY <1>1 DEF IsOpen
<1>5. \A i \in 1..Len(win') : win'[i].class = "store" /\ win'[i].at # "answered" =>
        \E e \in DOMAIN stq' : ~stq'[e].dn /\ stq'[e].rob = win'[i].rob
  BY <1>2 DEF IsOpen
<1>6. \A e, d \in DOMAIN stq' : ~stq'[e].dn /\ ~stq'[d].dn /\ stq'[e].rob = stq'[d].rob => e = d
  BY <1>3 DEF IsOpen
<1> QED BY <1>4, <1>5, <1>6 DEF StMatched, Open, Live
----------------------------------------------------------------------------
(* The request buffer.                                                     *)

LEMMA BothParts ==
  ASSUME NEW X, NEW s \in Seq(X), NEW t \in Seq(X)
  PROVE  /\ ToSet(s \o t) = ToSet(s) \cup ToSet(t)
         /\ IsInjective(s) /\ IsInjective(t) /\ ToSet(s) \cap ToSet(t) = {} => IsInjective(s \o t)
<1> DEFINE u == s \o t
<1>1. PICK a \in Nat, b \in Nat : /\ a = Len(s) /\ b = Len(t)
                                  /\ DOMAIN s = 1..a /\ DOMAIN t = 1..b
  BY LenProperties
<1>2. /\ u \in Seq(X) /\ Len(u) = a + b
      /\ \A i \in 1..a : u[i] = s[i]
      /\ \A j \in 1..b : u[a + j] = t[j]
  BY <1>1, Joined
<1> HIDE DEF u
<1>3. DOMAIN u = 1..a+b
  BY <1>2, LenProperties
<1>4. ASSUME NEW i \in 1..a+b
      PROVE  i \in 1..a \/ \E j \in 1..b : i = a + j
  <2>1. CASE i <= a
    BY <2>1
  <2>2. CASE i > a
    <3>1. i - a \in 1..b /\ i = a + (i - a)
      BY <2>2
    <3> QED BY <3>1
  <2> QED BY <2>1, <2>2
<1>5. \A i \in 1..a : i \in 1..a+b
  OBVIOUS
<1>6. \A j \in 1..b : a + j \in 1..a+b
  OBVIOUS
<1>7. ToSet(u) = ToSet(s) \cup ToSet(t)
  <2>1. ASSUME NEW x \in ToSet(u) PROVE x \in ToSet(s) \cup ToSet(t)
    <3>1. PICK i \in 1..a+b : x = u[i]
      BY <1>3 DEF ToSet
    <3>2. CASE i \in 1..a
      <4>1. x = s[i] /\ i \in DOMAIN s
        BY <1>1, <1>2, <3>1, <3>2
      <4> QED BY <4>1 DEF ToSet
    <3>3. ASSUME NEW j \in 1..b, i = a + j PROVE x \in ToSet(t)
      <4>1. x = t[j] /\ j \in DOMAIN t
        BY <1>1, <1>2, <3>1, <3>3
      <4> QED BY <4>1 DEF ToSet
    <3> QED BY <1>4, <3>2, <3>3
  <2>2. ASSUME NEW x \in ToSet(s) PROVE x \in ToSet(u)
    BY <1>1, <1>2, <1>3, <1>5 DEF ToSet
  <2>3. ASSUME NEW x \in ToSet(t) PROVE x \in ToSet(u)
    <3>1. PICK j \in 1..b : x = t[j]
      BY <1>1 DEF ToSet
    <3>2. x = u[a + j] /\ a + j \in DOMAIN u
      BY <1>2, <1>3, <1>6, <3>1
    <3> QED BY <3>2 DEF ToSet
  <2> QED BY <2>1, <2>2, <2>3
<1>8. ASSUME IsInjective(s), IsInjective(t), ToSet(s) \cap ToSet(t) = {} PROVE IsInjective(u)
  <2>1. ASSUME NEW i \in 1..a+b, NEW j \in 1..a+b, u[i] = u[j] PROVE i = j
    <3>1. CASE i \in 1..a /\ j \in 1..a
      BY <1>1, <1>2, <1>8, <2>1, <3>1 DEF IsInjective
    <3>2. ASSUME NEW x \in 1..a, NEW y \in 1..b, u[x] = u[a + y] PROVE FALSE
      <4>1. s[x] = t[y]
        BY <1>2, <3>2
      <4>2. s[x] \in ToSet(s) /\ t[y] \in ToSet(t)
        BY <1>1 DEF ToSet
      <4> QED BY <1>8, <4>1, <4>2
    <3>3. ASSUME NEW x \in 1..b, NEW y \in 1..b, i = a + x, j = a + y PROVE i = j
      <4>1. t[x] = t[y]
        BY <1>2, <2>1, <3>3
      <4> QED BY <1>1, <1>8, <3>3, <4>1 DEF IsInjective
    <3> QED BY <1>4, <2>1, <3>1, <3>2, <3>3
  <2> QED BY <1>3, <2>1 DEF IsInjective
<1> QED BY <1>7, <1>8 DEF u

PqRest == SubSeq(pq, AtMost(2, Len(pq)) + 1, Len(pq))

LEMMA PqParts ==
  ASSUME Typed, RequestPlaces
  PROVE  /\ PqRest \in Seq(RobIx) /\ Len(PqRest) = Len(pq) - AtMost(2, Len(pq))
         /\ ToSet(pq) = Popped \cup ToSet(PqRest) /\ Popped \cap ToSet(PqRest) = {}
         /\ IsInjective(PqRest)
<1>1. PICK c \in Nat : c = Len(pq) /\ DOMAIN pq = 1..c /\ pq \in Seq(RobIx)
  BY LenProperties DEF Typed
<1>2. PICK g \in 0..c : g = AtMost(2, c)
  <2>1. AtMost(2, c) \in 0..c
    BY DEF AtMost
  <2> QED BY <2>1
<1>3. /\ PqRest \in Seq(RobIx) /\ Len(PqRest) = c - g
      /\ \A i \in 1..c-g : PqRest[i] = pq[g + i]
  BY <1>1, <1>2, TakeDrop DEF PqRest
<1>4. DOMAIN PqRest = 1..c-g
  BY <1>3, LenProperties
<1>5. Popped = {pq[i] : i \in 1..g}
  BY <1>1, <1>2 DEF Popped
<1>6. \A i, j \in 1..c : pq[i] = pq[j] => i = j
  BY <1>1 DEF RequestPlaces, IsInjective
<1>7. \A i \in 1..c-g : g + i \in 1..c
  BY <1>2
<1>8. ASSUME NEW x \in ToSet(pq) PROVE x \in Popped \cup ToSet(PqRest)
  <2>1. PICK i \in 1..c : x = pq[i]
    BY <1>1 DEF ToSet
  <2>2. CASE i <= g
    <3>1. i \in 1..g
      BY <1>2, <2>2
    <3> QED BY <1>5, <2>1, <3>1
  <2>3. CASE i > g
    <3>1. i - g \in 1..c-g /\ g + (i - g) = i
      BY <1>2, <2>3
    <3>2. x = PqRest[i - g]
      BY <1>3, <2>1, <3>1
    <3> QED BY <1>4, <3>1, <3>2 DEF ToSet
  <2> QED BY <1>2, <2>2, <2>3
<1>9. Popped \in SUBSET ToSet(pq)
  BY <1>1, <1>2, <1>5 DEF ToSet
<1>10. ASSUME NEW x \in ToSet(PqRest)
       PROVE  \E i \in 1..c : x = pq[i] /\ i > g
  <2>1. PICK i \in 1..c-g : x = PqRest[i]
    BY <1>4 DEF ToSet
  <2>2. x = pq[g + i] /\ g + i \in 1..c /\ g + i > g
    BY <1>2, <1>3, <1>7, <2>1
  <2> QED BY <2>2
<1>11. ToSet(PqRest) \in SUBSET ToSet(pq)
  BY <1>1, <1>10 DEF ToSet
<1>12. Popped \cap ToSet(PqRest) = {}
  <2>1. ASSUME NEW x \in Popped, x \in ToSet(PqRest) PROVE FALSE
    <3>1. PICK i \in 1..g : x = pq[i]
      BY <1>5
    <3>2. PICK j \in 1..c : x = pq[j] /\ j > g
      BY <1>10, <2>1
    <3>3. i \in 1..c /\ i <= g
      BY <1>2
    <3>4. i = j
      BY <1>6, <3>1, <3>2, <3>3
    <3> QED BY <1>2, <3>2, <3>3, <3>4
  <2> QED BY <2>1
<1>13. IsInjective(PqRest)
  <2>1. ASSUME NEW i \in 1..c-g, NEW j \in 1..c-g, PqRest[i] = PqRest[j] PROVE i = j
    <3>1. pq[g + i] = pq[g + j] /\ g + i \in 1..c /\ g + j \in 1..c
      BY <1>3, <1>7, <2>1
    <3>2. g + i = g + j
      BY <1>6, <3>1
    <3> QED BY <1>2, <3>2
  <2> QED BY <1>4, <2>1 DEF IsInjective
<1> QED BY <1>1, <1>2, <1>3, <1>8, <1>9, <1>11, <1>12, <1>13

\* The buffer takes every request.
LEMMA BufferTakes ==
  ASSUME Typed, RequestPlaces, BufferFits
  PROVE  /\ Buffered(r_req) \in Seq(RobIx) /\ Len(Buffered(r_req)) <= PQN
         /\ ToSet(Buffered(r_req)) = ToSet(PqRest) \cup ToSet(r_req)
         /\ IsInjective(Buffered(r_req))
         /\ pq = <<>> => Len(Buffered(r_req)) <= W
<1>1. PICK c \in Nat, d \in Nat : c = Len(pq) /\ d = Len(r_req) /\ r_req \in Seq(RobIx)
  BY LenProperties DEF Typed
<1>2. PICK r \in Nat : r = Len(PqRest) /\ r = c - AtMost(2, c) /\ PqRest \in Seq(RobIx)
  BY <1>1, PqParts, LenProperties
<1>3. W \in Nat \ {0} /\ PQN \in Nat /\ PQN >= W /\ PQN >= 2 * W - 2
  BY LsuAssumption, MemPathAssumption
<1>4. d <= W /\ c <= PQN
  BY <1>1 DEF BufferFits
<1>5. d # 0 => c <= W
  <2>1. CASE r_req = <<>>
    <3>1. d = 0
      BY <1>1, <2>1
    <3> QED BY <3>1
  <2>2. CASE r_req # <<>>
    BY <1>1, <2>2 DEF BufferFits
  <2> QED BY <2>1, <2>2
<1>6. d <= PQN - r /\ r + d <= PQN
  <2>1. CASE d = 0
    BY <1>2, <1>3, <1>4, <2>1 DEF AtMost
  <2>2. CASE d # 0
    <3>1. c <= W
      BY <1>5, <2>2
    <3>2. CASE c <= 2
      BY <1>2, <1>3, <1>4, <3>2 DEF AtMost
    <3>3. CASE c > 2
      <4>1. r = c - 2
        BY <1>2, <3>3 DEF AtMost
      <4> QED BY <1>3, <1>4, <3>1, <4>1
    <3> QED BY <3>2, <3>3
  <2> QED BY <2>1, <2>2
<1>7. AtMost(d, PQN - r) = d
  BY <1>2, <1>3, <1>6 DEF AtMost
<1>8. SubSeq(r_req, 1, d) = r_req
  BY <1>1, SubSeqFull
<1>9. Buffered(r_req) = PqRest \o r_req
  BY <1>1, <1>2, <1>7, <1>8 DEF Buffered, PqRest
<1>10. PqRest \o r_req \in Seq(RobIx) /\ Len(PqRest \o r_req) = r + d
  <2>1. ASSUME NEW x \in Seq(RobIx), NEW y \in Seq(RobIx), r = Len(x), d = Len(y)
        PROVE  x \o y \in Seq(RobIx) /\ Len(x \o y) = r + d
    BY <2>1, Joined
  <2> QED BY <1>1, <1>2, <2>1
<1>11. ToSet(PqRest) \cap ToSet(r_req) = {}
  BY PqParts DEF RequestPlaces
<1>12. /\ ToSet(PqRest \o r_req) = ToSet(PqRest) \cup ToSet(r_req)
       /\ IsInjective(PqRest \o r_req)
  <2>1. IsInjective(PqRest) /\ IsInjective(r_req)
    BY PqParts DEF RequestPlaces
  <2> QED BY <1>1, <1>2, <1>11, <2>1, BothParts
<1>13. ASSUME pq = <<>> PROVE r + d <= W
  <2>1. c = 0
    BY <1>1, <1>13
  <2>2. r = 0
    BY <1>2, <2>1 DEF AtMost
  <2> QED BY <1>4, <2>2
<1> QED BY <1>6, <1>9, <1>10, <1>12, <1>13
\* The requests that the queues p and q have noted, and those asked by the uops of w.
NotedIn(p, q) ==
  {p[e].rob : e \in {d \in DOMAIN p : p[d].ar /\ ~p[d].dn}}
    \cup {q[e].rob : e \in {d \in DOMAIN q : q[d].ar /\ ~q[d].dn}}
AskedIn(w) == {w[k].rob : k \in {j \in 1..Len(w) : w[j].at = "asked"}}

LEMMA NotedInOf ==
  ASSUME NEW p, NEW q, NEW r
  PROVE  r \in NotedIn(p, q) <=> \/ \E e : IsOpen(p, e) /\ p[e].ar /\ p[e].rob = r
                                 \/ \E e : IsOpen(q, e) /\ q[e].ar /\ q[e].rob = r
BY DEF NotedIn, IsOpen

LEMMA AskedInOf ==
  ASSUME NEW w, NEW r
  PROVE  r \in AskedIn(w) <=> \E k \in 1..Len(w) : w[k].at = "asked" /\ w[k].rob = r
BY DEF AskedIn

LEMMA Places3 ==
  /\ Noted = NotedIn(ldq, stq) /\ AskedRobs = AskedIn(win)
  /\ Noted' = NotedIn(ldq', stq') /\ AskedRobs' = AskedIn(win')
BY DEF Noted, NotedIn, AskedRobs, AskedIn, Live

LEMMA PoppedAsked ==
  ASSUME Typed, RequestPlaces
  PROVE  Popped \in SUBSET ToSet(pq) /\ ToSet(pq) \in SUBSET AskedRobs
         /\ ToSet(r_req) \in SUBSET AskedRobs /\ Noted \in SUBSET AskedRobs
BY PqParts DEF RequestPlaces

LEMMA NotedNext ==
  ASSUME Typed, Rings, WindowOrder, LdMatched, StMatched, RequestPlaces, Owned, EventsFollow,
         NEW k \in Dispatchable, NEW f, NEW guess, NEW send, NEW n, Cycle(k, f, guess, send, n)
  PROVE  NotedIn(ldq', stq') = (Noted \cup Popped) \ Answers
<1>1. ASSUME NEW r \in NotedIn(ldq', stq') PROVE r \in (Noted \cup Popped) \ Answers
  <2>1. ASSUME NEW e, IsOpen(ldq', e), ldq'[e].ar, ldq'[e].rob = r
        PROVE  r \in (Noted \cup Popped) \ Answers
    <3>1. CASE IsOpen(ldq, e) /\ ldq[e].rob \notin Answers /\ LdAfter(e, ldq'[e])
      <4>1. r = ldq[e].rob /\ r \notin Answers /\ (ldq[e].ar \/ r \in Popped)
        BY <2>1, <3>1 DEF LdAfter
      <4> QED BY <3>1, <4>1, NotedInOf, Places3
    <3>2. ASSUME NEW j, LdFresh(k, j, guess, ldq'[e]) PROVE FALSE
      BY <2>1, <3>2 DEF LdFresh
    <3> QED BY <2>1, <3>1, <3>2, LdOpenOrigin
  <2>2. ASSUME NEW e, IsOpen(stq', e), stq'[e].ar, stq'[e].rob = r
        PROVE  r \in (Noted \cup Popped) \ Answers
    <3>1. CASE IsOpen(stq, e) /\ stq[e].rob \notin Answers /\ StAfter(e, stq'[e])
      <4>1. r = stq[e].rob /\ r \notin Answers /\ (stq[e].ar \/ r \in Popped)
        BY <2>2, <3>1 DEF StAfter
      <4> QED BY <3>1, <4>1, NotedInOf, Places3
    <3>2. ASSUME NEW j, StFresh(j, stq'[e]) PROVE FALSE
      BY <2>2, <3>2 DEF StFresh
    <3> QED BY <2>2, <3>1, <3>2, StOpenOrigin
  <2> QED BY <2>1, <2>2, NotedInOf
<1>2. ASSUME NEW e, IsOpen(ldq, e), ldq[e].rob \notin Answers, ldq[e].ar \/ ldq[e].rob \in Popped
      PROVE  ldq[e].rob \in NotedIn(ldq', stq')
  <2>1. IsOpen(ldq', e) /\ LdAfter(e, ldq'[e])
    BY <1>2, LdOpenStays
  <2>2. ldq'[e].ar /\ ldq'[e].rob = ldq[e].rob
    BY <1>2, <2>1 DEF LdAfter
  <2> QED BY <2>1, <2>2, NotedInOf
<1>3. ASSUME NEW e, IsOpen(stq, e), stq[e].rob \notin Answers, stq[e].ar \/ stq[e].rob \in Popped
      PROVE  stq[e].rob \in NotedIn(ldq', stq')
  <2>1. IsOpen(stq', e) /\ StAfter(e, stq'[e])
    BY <1>3, StOpenStays
  <2>2. stq'[e].ar /\ stq'[e].rob = stq[e].rob
    BY <1>3, <2>1 DEF StAfter
  <2> QED BY <2>1, <2>2, NotedInOf
<1>4. ASSUME NEW r \in Noted, r \notin Answers PROVE r \in NotedIn(ldq', stq')
  BY <1>2, <1>3, <1>4, NotedInOf, Places3
<1>5. ASSUME NEW r \in Popped, r \notin Answers PROVE r \in NotedIn(ldq', stq')
  <2>1. PICK h \in Live : win[h].at = "asked" /\ win[h].rob = r
    BY PoppedAsked DEF AskedRobs
  <2>2. win[h].class \in {"load", "store", "amo"} /\ Open(h)
    BY <2>1, WinTyped DEF MemUop, Open
  <2>3. CASE IsLoad(win[h].class)
    <3>1. PICK e : IsOpen(ldq, e) /\ ldq[e].rob = r
      BY <2>1, <2>2, <2>3 DEF LdMatched, IsOpen
    <3> QED BY <1>2, <1>5, <3>1
  <2>4. CASE win[h].class = "store"
    <3>1. PICK e : IsOpen(stq, e) /\ stq[e].rob = r
      BY <2>1, <2>2, <2>4 DEF StMatched, IsOpen
    <3> QED BY <1>3, <1>5, <3>1
  <2> QED BY <2>2, <2>3, <2>4 DEF IsLoad
<1> QED BY <1>1, <1>4, <1>5

LEMMA AskedNext ==
  ASSUME Typed, Rings, WindowOrder, Owned, Running, RequestPlaces,
         NEW k \in Dispatchable, NEW f, NEW guess,
         NEW send \in Requests, NEW n \in Retirable, Cycle(k, f, guess, send, n)
  PROVE  /\ AskedIn(win') = (AskedRobs \ Answers) \cup ToSet(send)
         /\ ToSet(send) \cap AskedRobs = {}
<1>1. Answers \in SUBSET AskedRobs
  BY AnswersNoted, PoppedAsked
<1>2. \A r : r \in AskedRobs <=> \E h \in Live : win[h].at = "asked" /\ win[h].rob = r
  BY DEF AskedRobs
<1>3. ASSUME NEW r \in ToSet(send)
      PROVE  \E h \in Live : win[h].at = "waiting" /\ win[h].rob = r
  <2>1. r \in Waiting
    BY SendType
  <2>2. PICK h \in WaitingAt : win[h].rob = r
    BY <2>1 DEF Waiting
  <2> QED BY <2>2 DEF WaitingAt
<1>4. ToSet(send) \cap AskedRobs = {}
  <2>1. ASSUME NEW r \in ToSet(send), r \in AskedRobs PROVE FALSE
    <3>1. PICK g \in Live : win[g].at = "asked" /\ win[g].rob = r
      BY <1>2, <2>1
    <3>2. win[g].at = "waiting"
      BY <2>1, <3>1, SentWait
    <3> QED BY <3>1, <3>2
  <2> QED BY <2>1
<1>5. ASSUME NEW r \in AskedIn(win') PROVE r \in (AskedRobs \ Answers) \cup ToSet(send)
  <2>0. \E i \in 1..Len(win') : win'[i].at = "asked" /\ win'[i].rob = r
    BY AskedInOf
  <2>1. PICK i \in 1..Len(win') : win'[i].at = "asked" /\ win'[i].rob = r
    BY <2>0
  <2>2. ASSUME NEW h \in Live, win[h].rob \notin Answers, UopAfter(h, win'[i], send)
        PROVE  r \in (AskedRobs \ Answers) \cup ToSet(send)
    <3>1. win[h].rob = r /\ (r \in ToSet(send) \/ win[h].at = "asked")
      BY <2>1, <2>2 DEF UopAfter
    <3> QED BY <1>2, <2>2, <3>1
  <2>3. ASSUME NEW j, win'[i] = NewUop(j) PROVE FALSE
    BY <2>1, <2>3, NewUopFields
  <2>4. win'[i].at # "answered"
    BY <2>1
  <2>6. \/ \E h \in Live : /\ h = n + i /\ Open(h) /\ win[h].rob \notin Answers
                           /\ UopAfter(h, win'[i], send)
        \/ \E j \in MemAt(Bundle(k)) : i = NewPlace(k, n, j) /\ win'[i] = NewUop(j)
    BY <2>4, UopOrigin
  <2>5. \/ \E h \in Live : win[h].rob \notin Answers /\ UopAfter(h, win'[i], send)
        \/ \E j : win'[i] = NewUop(j)
    BY <2>6
  <2> QED BY <2>2, <2>3, <2>5
<1>6. ASSUME NEW h \in Live, win[h].rob \notin Answers,
             win[h].at = "asked" \/ (win[h].at = "waiting" /\ win[h].rob \in ToSet(send))
      PROVE  win[h].rob \in AskedIn(win')
  <2>1. Open(h)
    BY <1>6 DEF Open
  <2>2. PICK i \in 1..Len(win') : UopAfter(h, win'[i], send)
    BY <1>6, <2>1, UopStays
  <2>3. win'[i].at = "asked" /\ win'[i].rob = win[h].rob
    BY <1>6, <2>2 DEF UopAfter
  <2> QED BY <2>3, AskedInOf
<1>7. ASSUME NEW r \in AskedRobs, r \notin Answers PROVE r \in AskedIn(win')
  BY <1>2, <1>6, <1>7
<1>8. ASSUME NEW r \in ToSet(send) PROVE r \in AskedIn(win')
  <2>1. PICK h \in Live : win[h].at = "waiting" /\ win[h].rob = r
    BY <1>3
  <2>2. r \notin Answers
    BY <1>1, <1>4
  <2> QED BY <1>6, <2>1, <2>2
<1> QED BY <1>4, <1>5, <1>7, <1>8

LEMMA RequestPlacesNext ==
  ASSUME Typed, Rings, WindowOrder, LdMatched, StMatched, RequestPlaces, BufferFits, Owned, Running,
         EventsFollow, NEW k \in Dispatchable, NEW f, NEW guess,
         NEW send \in Requests, NEW n \in Retirable, Cycle(k, f, guess, send, n)
  PROVE  RequestPlaces' /\ BufferFits' /\ Answers \in SUBSET Pending
         /\ Pending' = (Pending \ Answers) \cup ToSet(r_req)
         /\ r_req' \in Seq(RobIx) /\ pq' \in Seq(RobIx)
<1>1. r_req' = send /\ pq' = Buffered(r_req)
  BY DEF Cycle, LsuCycle
<1>2. Noted' = (Noted \cup Popped) \ Answers
  BY NotedNext, Places3
<1>3. AskedRobs' = (AskedRobs \ Answers) \cup ToSet(send) /\ ToSet(send) \cap AskedRobs = {}
  BY AskedNext, Places3
<1>4. ToSet(pq') = ToSet(PqRest) \cup ToSet(r_req) /\ IsInjective(pq') /\ Len(pq') <= PQN
      /\ pq' \in Seq(RobIx) /\ (pq = <<>> => Len(pq') <= W)
  BY <1>1, BufferTakes
<1>5. ToSet(pq) = Popped \cup ToSet(PqRest) /\ Popped \cap ToSet(PqRest) = {}
  BY PqParts
<1>6. Answers \in SUBSET Noted
  BY AnswersNoted
<1>7. /\ AskedRobs = ToSet(r_req) \cup ToSet(pq) \cup Noted
      /\ ToSet(r_req) \cap ToSet(pq) = {} /\ ToSet(r_req) \cap Noted = {}
      /\ ToSet(pq) \cap Noted = {}
  BY DEF RequestPlaces
<1>8. send \in Seq(RobIx) /\ Len(send) <= W /\ IsInjective(send) /\ (send # <<>> => pq = <<>>)
  BY SendType
<1>9. AskedRobs' = ToSet(r_req') \cup ToSet(pq') \cup Noted'
  BY <1>1, <1>2, <1>3, <1>4, <1>5, <1>6, <1>7
<1>10. /\ ToSet(r_req') \cap ToSet(pq') = {} /\ ToSet(r_req') \cap Noted' = {}
       /\ ToSet(pq') \cap Noted' = {}
  BY <1>1, <1>2, <1>3, <1>4, <1>5, <1>6, <1>7
<1>11. RequestPlaces'
  BY <1>1, <1>4, <1>8, <1>9, <1>10 DEF RequestPlaces, IsInjective, ToSet
<1>12. BufferFits'
  BY <1>1, <1>4, <1>8 DEF BufferFits
<1>13. Pending = ToSet(pq) \cup Noted /\ Pending' = ToSet(pq') \cup Noted'
  BY DEF Pending, Noted, ToSet
<1>14. Pending' = (Pending \ Answers) \cup ToSet(r_req) /\ Answers \in SUBSET Pending
  BY <1>2, <1>4, <1>5, <1>6, <1>7, <1>13
<1> QED BY <1>1, <1>4, <1>8, <1>11, <1>12, <1>14
----------------------------------------------------------------------------
(* Numbers in the store queue, before and after a cycle.                   *)

NextHead == (st_head + Cardinality(StGone)) % st_max

LEMMA StHeads ==
  ASSUME Rings
  PROVE  /\ NextHead \in 0..st_max-1 /\ StLeft \in 0..st_cnt /\ st_cnt \in 0..st_max
         /\ st_head \in 0..st_max-1 /\ st_max \in Nat \ {0}
         /\ \A s \in DOMAIN stq : s \in 0..st_max-1 /\ (s - st_head) % st_max \in 0..st_max-1
         /\ \A s \in StStays :
              /\ (s - NextHead) % st_max = ((s - st_head) % st_max) - (st_cnt - StLeft)
              /\ (s - NextHead) % st_max < StLeft
<1>1. /\ st_max \in Nat \ {0} /\ st_head \in 0..st_max-1 /\ st_cnt \in 0..st_max
      /\ DOMAIN stq = Places(st_head, st_cnt, st_max)
  BY Sizes DEF Rings, StIx, RingExact, Places
<1>2. PICK g \in 0..st_cnt : StGone = Places(st_head, g, st_max) /\ Cardinality(StGone) = g
  BY StDrains
<1>3. g \in 0..st_max
  BY <1>1
<1>4. /\ Places(st_head, st_cnt, st_max) = {e \in 0..st_max-1 : (e - st_head) % st_max < st_cnt}
      /\ Places(st_head, g, st_max) = {e \in 0..st_max-1 : (e - st_head) % st_max < g}
  BY <1>1, <1>3, FirstPlaces DEF Places
<1>5. NextHead = (st_head + g) % st_max /\ NextHead \in 0..st_max-1
  BY <1>1, <1>2, <1>3, PlaceAt DEF NextHead
<1>6. StLeft = st_cnt - g /\ StLeft \in 0..st_cnt
  BY <1>1, <1>2 DEF StLeft
<1>7. ASSUME NEW s \in DOMAIN stq PROVE s \in 0..st_max-1 /\ (s - st_head) % st_max \in 0..st_max-1
  <2>1. s \in 0..st_max-1
    BY <1>1, <1>4
  <2> QED BY <1>1, <2>1, NumberOf
<1>8. ASSUME NEW s \in StStays
      PROVE  /\ (s - NextHead) % st_max = ((s - st_head) % st_max) - (st_cnt - StLeft)
             /\ (s - NextHead) % st_max < StLeft
  <2>1. s \in DOMAIN stq /\ s \notin StGone
    BY DEF StStays
  <2>2. PICK a \in 0..st_max-1 : a = (s - st_head) % st_max
    BY <1>7, <2>1
  <2>3. s \in 0..st_max-1 /\ a < st_cnt /\ g <= a
    BY <1>1, <1>2, <1>4, <1>7, <2>1, <2>2
  <2>4. (s - ((st_head + g) % st_max)) % st_max = a - g
    BY <1>1, <1>3, <2>2, <2>3, NumberFrom
  <2> QED BY <1>1, <1>5, <1>6, <2>2, <2>3, <2>4
<1> QED BY <1>1, <1>5, <1>6, <1>7, <1>8

\* The places behind the end, counted from the next head.
LEMMA StEnd ==
  ASSUME Rings, NEW y \in Nat, y <= st_max - st_cnt
  PROVE  (st_tail + y) % st_max = (NextHead + (StLeft + y)) % st_max
<1>1. /\ st_max \in Nat \ {0} /\ st_head \in 0..st_max-1 /\ st_cnt \in 0..st_max
      /\ st_tail = (st_head + st_cnt) % st_max
  BY Sizes DEF Rings, StIx, RingExact
<1>2. PICK g \in 0..st_cnt : Cardinality(StGone) = g
  BY StDrains
<1>3. GoesOn(st_head, st_cnt, g, st_tail, y, st_max)
  BY <1>1, RingStep
<1>4. (st_tail + y) % st_max = (((st_head + g) % st_max) + (st_cnt - g + y)) % st_max
  BY <1>3 DEF GoesOn
<1> QED BY <1>2, <1>4 DEF NextHead, StLeft

LEMMA PlaceBefore ==
  ASSUME NEW m \in Nat \ {0}, NEW h \in 0..m-1, NEW y \in 1..m, NEW z, z = (h + y) % m
  PROVE  (z - 1) % m = (h + (y - 1)) % m
<1>1. /\ h + y < m => (h + y) % m = h + y
      /\ m <= h + y => (h + y) % m = h + y - m
  <2>1. y \in 0..m
    OBVIOUS
  <2> QED BY <2>1, PlaceAt
<1>2. PICK x \in 0..m : x = y - 1
  <2>1. y - 1 \in 0..m
    OBVIOUS
  <2> QED BY <2>1
<1>3. /\ h + x < m => (h + x) % m = h + x
      /\ m <= h + x => (h + x) % m = h + x - m
  BY PlaceAt
<1>4. CASE h + y < m
  <2>1. z = h + y /\ z - 1 = h + x /\ (h + x) % m = h + x
    BY <1>1, <1>2, <1>3, <1>4
  <2> QED BY <1>2, <2>1
<1>5. CASE h + y = m
  <2>1. z = 0 /\ h + x = m - 1 /\ (h + x) % m = m - 1
    BY <1>1, <1>2, <1>3, <1>5
  <2>2. z - 1 = -1
    BY <2>1
  <2>3. (-1) % m = m - 1
    <3>1. -1 \in Int /\ -m <= -1 /\ -1 < 2 * m /\ -1 < 0
      OBVIOUS
    <3>2. (-1) % m = -1 + m
      BY <3>1, ModWraps
    <3> QED BY <3>2
  <2> QED BY <1>2, <2>1, <2>2, <2>3
<1>6. CASE h + y > m
  <2>1. z = h + y - m /\ (h + x) % m = h + x - m /\ z - 1 = h + x - m
    BY <1>1, <1>2, <1>3, <1>6
  <2>2. PICK w \in 0..m-1 : w = z - 1
    <3>1. z - 1 \in 0..m-1
      BY <1>2, <1>6, <2>1
    <3> QED BY <3>1
  <2>3. w % m = w
    <3>1. w \in Int /\ -m <= w /\ w < 2 * m /\ 0 <= w /\ w < m
      OBVIOUS
    <3> QED BY <3>1, ModWraps
  <2> QED BY <1>2, <2>1, <2>2, <2>3
<1> QED BY <1>4, <1>5, <1>6
\* The store that a fresh load waits for is the last one of those queued and
\* of the lanes up to its own.
LEMMA WaitsFor ==
  ASSUME Typed, Rings, NEW k \in Dispatchable, NEW j \in 1..k,
         StLeft + StTaken(Bundle(k), j) # 0
  PROVE  \E x \in 0..st_max-1 :
           /\ x = StLeft + StLanes(Bundle(k), j) - 1
           /\ (st_tail + StTaken(Bundle(k), j) - 1) % st_max = (NextHead + x) % st_max
           /\ (((st_tail + StTaken(Bundle(k), j) - 1) % st_max) - NextHead) % st_max = x
<1>1. /\ st_max \in Nat \ {0} /\ st_cnt \in 0..st_max /\ NextHead \in 0..st_max-1
      /\ StLeft \in 0..st_cnt
  BY StHeads
<1>2. PICK a \in Nat : a = StLeft
  BY <1>1
<1>3. st_tail \in 0..st_max-1
  BY Sizes DEF Rings, StIx
<1>4. k \in Nat /\ k <= st_max - st_cnt
  BY DispatchRoom
<1>5. PICK t \in Nat : t = StLanes(Bundle(k), j) /\ StTaken(Bundle(k), j) = t /\ t <= j
  <2>1. j \in 0..k
    BY <1>4
  <2> QED BY <2>1, StRoom
<1>6. PICK x \in 0..st_max-1 : x = a + t - 1
  <2>1. a + t - 1 \in 0..st_max-1
    BY <1>1, <1>2, <1>4, <1>5
  <2> QED BY <2>1
<1>7. (st_tail + t - 1) % st_max = (NextHead + x) % st_max
  <2>1. CASE t = 0
    <3>1. st_tail = (st_tail + 0) % st_max
      <4>1. 0 \in 0..st_max
        BY <1>1
      <4>2. st_tail + 0 < st_max => (st_tail + 0) % st_max = st_tail + 0
        BY <1>1, <1>3, <4>1, PlaceAt
      <4> QED BY <1>1, <1>3, <4>2
    <3>2. (st_tail + 0) % st_max = (NextHead + (a + 0)) % st_max
      <4>1. 0 \in Nat /\ 0 <= st_max - st_cnt
        BY <1>1
      <4> QED BY <1>2, <4>1, StEnd
    <3>3. a \in 1..st_max /\ a + 0 = a /\ a - 1 = x
      BY <1>1, <1>2, <1>6, <2>1
    <3>4. st_tail = (NextHead + a) % st_max
      BY <3>1, <3>2, <3>3
    <3>5. (st_tail - 1) % st_max = (NextHead + (a - 1)) % st_max
      BY <1>1, <3>3, <3>4, PlaceBefore
    <3>6. st_tail + t - 1 = st_tail - 1
      BY <1>3, <2>1
    <3> QED BY <3>3, <3>5, <3>6
  <2>2. CASE t # 0
    <3>1. PICK y \in Nat : y = t - 1 /\ y <= st_max - st_cnt
      <4>1. t - 1 \in Nat /\ t - 1 <= st_max - st_cnt
        BY <1>1, <1>4, <1>5, <2>2
      <4> QED BY <4>1
    <3>2. (st_tail + y) % st_max = (NextHead + (a + y)) % st_max
      BY <1>2, <3>1, StEnd
    <3>3. a + y = x /\ st_tail + t - 1 = st_tail + y
      BY <1>3, <1>6, <3>1
    <3> QED BY <3>2, <3>3
  <2> QED BY <2>1, <2>2
<1>8. (((NextHead + x) % st_max) - NextHead) % st_max = x
  BY <1>1, PlaceNumber
<1> QED BY <1>2, <1>5, <1>6, <1>7, <1>8

LEMMA StPlaceNumber ==
  ASSUME Typed, Rings, NEW k \in Dispatchable, NEW j \in StAt(Bundle(k))
  PROVE  /\ (StPlace(Bundle(k), j) - NextHead) % st_max
              = StLeft + Cardinality(Lower(StAt(Bundle(k)), j))
         /\ Cardinality(Lower(StAt(Bundle(k)), j)) \in Nat
<1>1. /\ st_max \in Nat \ {0} /\ st_cnt \in 0..st_max /\ NextHead \in 0..st_max-1
      /\ StLeft \in 0..st_cnt
  BY StHeads
<1>2. PICK a \in Nat : a = StLeft
  BY <1>1
<1>3. k \in Nat /\ k <= st_max - st_cnt /\ j \in 1..k
  BY DispatchRoom, MemLanesAre
<1>4. PICK t \in Nat : t = StLanes(Bundle(k), j) /\ t <= j /\ t = 1 + Cardinality(Lower(StAt(Bundle(k)), j))
  <2>1. j \in 0..k
    BY <1>3
  <2> QED BY <2>1, StRoom
<1>5. PICK y \in Nat : y = Cardinality(Lower(StAt(Bundle(k)), j))
  <2>1. StAt(Bundle(k)) \in SUBSET (0..k)
    <3>1. \A i \in StAt(Bundle(k)) : i \in 1..k
      BY MemLanesAre
    <3>2. \A i \in 1..k : i \in 0..k
      BY <1>3
    <3> QED BY <3>1, <3>2
  <2> QED BY <1>3, <2>1, LowerType
<1>6. t = 1 + y /\ y <= st_max - st_cnt
  BY <1>1, <1>3, <1>4, <1>5
<1>7. StPlace(Bundle(k), j) = (st_tail + y) % st_max
  BY <1>5 DEF StPlace, PlaceOf
<1>8. (st_tail + y) % st_max = (NextHead + (a + y)) % st_max
  BY <1>2, <1>6, StEnd
<1>9. PICK x \in 0..st_max-1 : x = a + y
  <2>1. a + y \in 0..st_max-1
    BY <1>1, <1>2, <1>3, <1>4, <1>6
  <2> QED BY <2>1
<1>10. (((NextHead + x) % st_max) - NextHead) % st_max = x
  BY <1>1, PlaceNumber
<1> QED BY <1>2, <1>5, <1>7, <1>8, <1>9, <1>10

\* Where the uop of an entry is, after the cycle: an older one moves up, a new
\* one has the place of its lane.
LEMMA RobOld ==
  ASSUME Typed, Rings, WindowOrder, NEW k \in Dispatchable, NEW f, NEW guess,
         NEW send \in Requests, NEW n \in Retirable, Cycle(k, f, guess, send, n),
         NEW i \in 1..Len(win'), NEW h \in Live, win'[i].rob = win[h].rob
  PROVE  h = n + i
<1>1. ASSUME NEW g \in Live, g = n + i, win'[i] = Moved(win[g], send) PROVE h = n + i
  <2>1. win'[i].rob = win[g].rob
    BY <1>1, WinTyped, MovedFields
  <2>2. g = h
    BY <2>1, WinApart
  <2> QED BY <1>1, <2>2
<1>2. ASSUME NEW j \in MemAt(Bundle(k)), win'[i] = NewUop(j) PROVE FALSE
  <2>1. j \in 1..k
    BY MemLanesAre
  <2>2. win[h].rob = (tail + j - 1) % ROB_N
    BY <1>2, NewUopFields
  <2> QED BY <2>1, <2>2, FreshApart
<1> QED BY <1>1, <1>2, WinNext

LEMMA RobNew ==
  ASSUME Typed, Rings, WindowOrder, NEW k \in Dispatchable, NEW f, NEW guess,
         NEW send \in Requests, NEW n \in Retirable, Cycle(k, f, guess, send, n),
         NEW i \in 1..Len(win'), NEW j \in MemAt(Bundle(k)),
         win'[i].rob = (tail + j - 1) % ROB_N
  PROVE  i = NewPlace(k, n, j)
<1>1. j \in 1..k
  BY MemLanesAre
<1>2. ASSUME NEW g \in Live, g = n + i, win'[i] = Moved(win[g], send) PROVE FALSE
  <2>1. win'[i].rob = win[g].rob
    BY <1>2, WinTyped, MovedFields
  <2>2. win[g].rob = (tail + j - 1) % ROB_N
    BY <2>1
  <2> QED BY <1>1, <2>2, FreshApart
<1>3. ASSUME NEW l \in MemAt(Bundle(k)), i = NewPlace(k, n, l), win'[i] = NewUop(l)
      PROVE  i = NewPlace(k, n, j)
  <2>1. l \in 1..k
    BY MemLanesAre
  <2>2. (tail + l - 1) % ROB_N = (tail + j - 1) % ROB_N
    BY <1>3, NewUopFields
  <2>3. l = j
    BY <1>1, <2>1, <2>2, FreshApart
  <2> QED BY <1>3, <2>3
<1> QED BY <1>2, <1>3, WinNext

\* A store that is queued stays older than a waiting load; what comes after the
\* store waited for has a higher number.
LEMMA BlockedNext ==
  ASSUME Typed, Rings, WindowOrder, LdMatched, StMatched, Owned, Blocked, EventsFollow,
         NEW k \in Dispatchable, NEW f, NEW guess,
         NEW send \in Requests, NEW n \in Retirable, Cycle(k, f, guess, send, n)
  PROVE  Blocked'
<1> DEFINE Num(s) == (s - NextHead) % st_max
<1>1. st_head' = NextHead
  BY DEF Cycle, LsuCycle, NextHead
<1>2. n \in Nat /\ Len(win) \in Nat /\ k \in Nat /\ StLeft \in Nat /\ st_cnt \in Nat
  BY WinNext, WinTyped, DispatchRoom, StHeads
<1>3. DOMAIN stq' = StStays \cup NewStAt(Bundle(k))
  BY StNext
<1>4. ASSUME NEW e \in DOMAIN ldq', ldq'[e].blk, e \in DOMAIN ldq, e \in LdStays, LdAfter(e, ldq'[e])
      PROVE  /\ ~ldq'[e].st /\ ~ldq'[e].dn /\ ldq'[e].wid \in DOMAIN stq'
             /\ \A s \in DOMAIN stq', i, q \in 1..Len(win') :
                  /\ Num(s) <= Num(ldq'[e].wid) /\ ~stq'[s].dn
                  /\ win'[i].rob = ldq'[e].rob /\ win'[q].rob = stq'[s].rob
                  => q < i
  <2>1. ldq[e].blk /\ ldq[e].wid \notin StGone /\ ldq'[e].wid = ldq[e].wid /\ ldq'[e].rob = ldq[e].rob
    BY <1>4 DEF LdAfter
  <2>2. ~ldq[e].st /\ ~ldq[e].dn /\ ldq[e].wid \in DOMAIN stq
    BY <1>4, <2>1 DEF Blocked
  <2>3. e \notin Begun("ld")
    <3>1. ASSUME NEW a \in Started, a.q = "ld", a.idx = e PROVE FALSE
      <4>1. LdServed(a)
        BY <3>1, StartedType DEF StServed
      <4>2. ~ldq[e].blk \/ ldq[e].wid \in StGone
        BY <3>1, <4>1, LdStarts
      <4> QED BY <2>1, <4>2
    <3> QED BY <3>1 DEF Begun
  <2>4. ~Runs(ldq, e)
    BY <2>2 DEF Runs
  <2>5. e \notin LineDone("ld") /\ \A m \in Reported : ms[m].ldq # e
    BY <2>4, AnswerFrom
  <2>6. ~ldq'[e].st /\ ~ldq'[e].dn
    BY <1>4, <2>2, <2>3, <2>5 DEF LdAfter
  <2>7. ldq[e].wid \in StStays
    BY <2>1, <2>2 DEF StStays
  <2>8. ASSUME NEW s \in DOMAIN stq', NEW i \in 1..Len(win'), NEW q \in 1..Len(win'),
               Num(s) <= Num(ldq[e].wid), ~stq'[s].dn,
               win'[i].rob = ldq[e].rob, win'[q].rob = stq'[s].rob
        PROVE  q < i
    <3>1. PICK h \in Live : win[h].rob = ldq[e].rob
      BY <1>4, <2>2 DEF LdMatched
    <3>2. h = n + i
      BY <2>8, <3>1, RobOld
    <3>3. CASE IsOpen(stq, s) /\ StAfter(s, stq'[s])
      <4>1. PICK g \in Live : win[g].rob = stq[s].rob
        BY <3>3 DEF StMatched, IsOpen
      <4>2. g = n + q
        <5>1. win'[q].rob = win[g].rob
          BY <2>8, <3>3, <4>1 DEF StAfter
        <5> QED BY <5>1, RobOld
      <4>3. s \in StStays /\ s \in DOMAIN stq /\ ~stq[s].dn
        BY <3>3, StDrains DEF IsOpen, StStays
      <4>4. (s - st_head) % st_max <= (ldq[e].wid - st_head) % st_max
        <5>1. PICK x \in Int, y \in Int : x = (s - st_head) % st_max /\ y = (ldq[e].wid - st_head) % st_max
          <6>1. /\ (s - st_head) % st_max \in 0..st_max-1
                /\ (ldq[e].wid - st_head) % st_max \in 0..st_max-1
            BY <2>2, <4>3, StHeads
          <6>2. st_max \in Nat
            BY StHeads
          <6> QED BY <6>1, <6>2
        <5>2. Num(s) = x - (st_cnt - StLeft) /\ Num(ldq[e].wid) = y - (st_cnt - StLeft)
          BY <2>7, <4>3, <5>1, StHeads
        <5>3. x <= y
          BY <1>2, <2>8, <5>2
        <5> QED BY <5>1, <5>3
      <4>5. g < h
        BY <1>4, <2>1, <3>1, <4>1, <4>3, <4>4 DEF Blocked
      <4> QED BY <1>2, <3>2, <4>2, <4>5
    <3>4. ASSUME NEW j \in StAt(Bundle(k)), s = StPlace(Bundle(k), j) PROVE FALSE
      <4>1. PICK y \in Nat : Num(s) = StLeft + y
        BY <3>4, StPlaceNumber
      <4>2. Num(ldq[e].wid) < StLeft
        BY <2>7, StHeads
      <4>3. Num(ldq[e].wid) \in Int
        <5>1. /\ st_max \in Nat \ {0} /\ NextHead \in Int /\ ldq[e].wid \in Int
          BY <2>2, StHeads
        <5> QED BY <5>1
      <4> QED BY <1>2, <2>8, <4>1, <4>2, <4>3
    <3>5. IsOpen(stq', s)
      BY <2>8 DEF IsOpen
    <3> QED BY <3>3, <3>4, <3>5, StOpenOrigin
  <2>9. ldq[e].wid \in DOMAIN stq'
    BY <1>3, <2>7
  <2> QED BY <2>1, <2>6, <2>8, <2>9
<1>5. ASSUME NEW e \in DOMAIN ldq', ldq'[e].blk,
             NEW j \in LdAt(Bundle(k)), LdFresh(k, j, guess, ldq'[e])
      PROVE  /\ ~ldq'[e].st /\ ~ldq'[e].dn /\ ldq'[e].wid \in DOMAIN stq'
             /\ \A s \in DOMAIN stq', i, q \in 1..Len(win') :
                  /\ Num(s) <= Num(ldq'[e].wid) /\ ~stq'[s].dn
                  /\ win'[i].rob = ldq'[e].rob /\ win'[q].rob = stq'[s].rob
                  => q < i
  <2>1. /\ ~ldq'[e].st /\ ~ldq'[e].dn /\ ldq'[e].rob = (tail + j - 1) % ROB_N
        /\ StLeft + StTaken(Bundle(k), j) # 0
        /\ ldq'[e].wid = (st_tail + StTaken(Bundle(k), j) - 1) % st_max
    BY <1>5 DEF LdFresh
  <2>2. j \in 1..k /\ j \in MemAt(Bundle(k)) /\ IsLoad(dq[j].class)
    BY MemLanesAre
  <2>3. PICK x \in 0..st_max-1 : /\ x = StLeft + StLanes(Bundle(k), j) - 1
                                 /\ ldq'[e].wid = (NextHead + x) % st_max
                                 /\ Num(ldq'[e].wid) = x
    BY <2>1, <2>2, WaitsFor
  <2>4. PICK t \in Nat : t = StLanes(Bundle(k), j) /\ t = Cardinality(UpTo(StAt(Bundle(k)), j))
    <3>1. j \in 0..k
      BY <1>2, <2>2
    <3> QED BY <3>1, StRoom
  <2>5. ldq'[e].wid \in DOMAIN stq'
    <3>1. st_cnt' = StLeft + StLanes(Bundle(k), k)
      <4>1. st_cnt' = StLeft + StTaken(Bundle(k), Len(Bundle(k)))
        BY DEF Cycle, LsuCycle
      <4>2. Len(Bundle(k)) = k /\ k \in 0..k
        BY <1>2, BundleType
      <4> QED BY <4>1, <4>2, StRoom
    <3>2. PICK c \in Nat : c = StLanes(Bundle(k), k) /\ t <= c
      <4>1. StLanes(Bundle(k), k) \in 0..k /\ StLanes(Bundle(k), k) = Cardinality(UpTo(StAt(Bundle(k)), k))
        BY <1>2, StRoom
      <4>2. UpTo(StAt(Bundle(k)), j) \in SUBSET UpTo(StAt(Bundle(k)), k)
        BY <1>2, <2>2 DEF UpTo
      <4>3. IsFiniteSet(UpTo(StAt(Bundle(k)), k))
        <5>1. UpTo(StAt(Bundle(k)), k) \in SUBSET (1..k)
          BY DEF UpTo
        <5> QED BY <1>2, <5>1, SubsetSize
      <4>4. Cardinality(UpTo(StAt(Bundle(k)), j)) <= Cardinality(UpTo(StAt(Bundle(k)), k))
        BY <4>2, <4>3, FS_Subset
      <4> QED BY <1>2, <2>4, <4>1, <4>4
    <3>3. x \in 0..st_cnt'-1
      BY <1>2, <2>3, <2>4, <3>1, <3>2
    <3>4. DOMAIN stq' = {(st_head' + i) % st_max : i \in 0..st_cnt'-1}
      BY RingsNext DEF Rings, RingExact, st_max
    <3> QED BY <1>1, <2>3, <3>3, <3>4
  <2>6. ASSUME NEW s \in DOMAIN stq', NEW i \in 1..Len(win'), NEW q \in 1..Len(win'),
               Num(s) <= x, ~stq'[s].dn,
               win'[i].rob = ldq'[e].rob, win'[q].rob = stq'[s].rob
        PROVE  q < i
    <3>1. i = NewPlace(k, n, j)
      <4>1. win'[i].rob = (tail + j - 1) % ROB_N
        BY <2>1, <2>6
      <4> QED BY <2>2, <4>1, RobNew
    <3>2. CASE IsOpen(stq, s) /\ StAfter(s, stq'[s])
      <4>1. PICK g \in Live : win[g].rob = stq[s].rob
        BY <3>2 DEF StMatched, IsOpen
      <4>2. g = n + q
        <5>1. win'[q].rob = win[g].rob
          BY <2>6, <3>2, <4>1 DEF StAfter
        <5> QED BY <5>1, RobOld
      <4>3. NewPlace(k, n, j) > Len(win) - n
        BY <2>2, NewPlaces
      <4> QED BY <1>2, <3>1, <4>2, <4>3 DEF Live
    <3>3. ASSUME NEW d \in StAt(Bundle(k)), s = StPlace(Bundle(k), d), StFresh(d, stq'[s])
          PROVE  q < i
      <4>1. PICK y \in Nat : y = Cardinality(Lower(StAt(Bundle(k)), d)) /\ Num(s) = StLeft + y
        BY <3>3, StPlaceNumber
      <4>2. y < t
        BY <1>2, <2>3, <2>4, <2>6, <4>1
      <4>3. d \in 1..k /\ d \in MemAt(Bundle(k)) /\ IsStore(dq[d].class)
        BY MemLanesAre
      <4>4. ~(j < d)
        <5>1. ASSUME j < d PROVE FALSE
          <6>1. UpTo(StAt(Bundle(k)), j) \in SUBSET Lower(StAt(Bundle(k)), d)
            <7>1. \A z \in 1..j : z < d
              BY <2>2, <4>3, <5>1
            <7> QED BY <7>1 DEF UpTo, Lower
          <6>2. IsFiniteSet(Lower(StAt(Bundle(k)), d))
            <7>1. Lower(StAt(Bundle(k)), d) \in SUBSET (1..k)
              BY MemLanesAre DEF Lower
            <7> QED BY <1>2, <7>1, SubsetSize
          <6>3. Cardinality(UpTo(StAt(Bundle(k)), j)) <= Cardinality(Lower(StAt(Bundle(k)), d))
            BY <6>1, <6>2, FS_Subset
          <6> QED BY <2>4, <4>1, <4>2, <6>3
        <5> QED BY <5>1
      <4>5. d # j
        <5>1. ASSUME d = j PROVE FALSE
          <6>1. dq[d].class = "amo"
            BY <2>2, <4>3, <5>1 DEF IsLoad, IsStore
          <6> QED BY <2>6, <3>3, <6>1 DEF StFresh
        <5> QED BY <5>1
      <4>6. d < j
        BY <2>2, <4>3, <4>4, <4>5
      <4>7. NewPlace(k, n, d) < NewPlace(k, n, j)
        BY <2>2, <4>3, <4>6, NewPlaces
      <4>8. q = NewPlace(k, n, d)
        <5>1. win'[q].rob = (tail + d - 1) % ROB_N
          BY <2>6, <3>3 DEF StFresh
        <5> QED BY <4>3, <5>1, RobNew
      <4> QED BY <3>1, <4>7, <4>8
    <3>4. IsOpen(stq', s)
      BY <2>6 DEF IsOpen
    <3> QED BY <3>2, <3>3, <3>4, StOpenOrigin
  <2> QED BY <2>1, <2>3, <2>5, <2>6
<1>6. \A e \in DOMAIN ldq' : ldq'[e].blk =>
        /\ ~ldq'[e].st /\ ~ldq'[e].dn /\ ldq'[e].wid \in DOMAIN stq'
        /\ \A s \in DOMAIN stq', i, q \in 1..Len(win') :
             /\ Num(s) <= Num(ldq'[e].wid) /\ ~stq'[s].dn
             /\ win'[i].rob = ldq'[e].rob /\ win'[q].rob = stq'[s].rob
             => q < i
  <2> HIDE DEF Num
  <2> QED BY <1>4, <1>5, LdOrigin
<1> QED BY <1>1, <1>6 DEF Blocked, Live, st_max
----------------------------------------------------------------------------
(* The invariant from its parts.                                           *)

LEMMA QueuesTyped ==
  ASSUME Typed, Rings, EventsFollow, NEW k \in Dispatchable, NEW f, NEW guess, NEW send, NEW n,
         Cycle(k, f, guess, send, n)
  PROVE  ldq' \in [DOMAIN ldq' -> LdEntry] /\ stq' \in [DOMAIN stq' -> StEntry]
<1>1. ASSUME NEW e \in DOMAIN ldq' PROVE ldq'[e] \in LdEntry
  <2>1. LdAfter(e, ldq'[e]) \/ \E j \in LdAt(Bundle(k)) : LdFresh(k, j, guess, ldq'[e])
    BY LdOrigin
  <2>2. LdAfter(e, ldq'[e]) => ldq'[e] \in LdEntry
    BY DEF LdAfter
  <2>3. ASSUME NEW j, LdFresh(k, j, guess, ldq'[e]) PROVE ldq'[e] \in LdEntry
    BY <2>3 DEF LdFresh
  <2> QED BY <2>1, <2>2, <2>3
<1>2. ASSUME NEW e \in DOMAIN stq' PROVE stq'[e] \in StEntry
  <2>1. StAfter(e, stq'[e]) \/ \E j \in StAt(Bundle(k)) : StFresh(j, stq'[e])
    BY StOrigin
  <2>2. StAfter(e, stq'[e]) => stq'[e] \in StEntry
    BY DEF StAfter
  <2>3. ASSUME NEW j, StFresh(j, stq'[e]) PROVE stq'[e] \in StEntry
    BY <2>3 DEF StFresh
  <2> QED BY <2>1, <2>2, <2>3
<1> LsuCycle(Bundle(k), guess, r_req, Events(Fetched(f)))
  BY DEF Cycle
<1>3. ldq' = [e \in DOMAIN ldq' |-> ldq'[e]]
  BY DEF LsuCycle
<1>4. stq' = [e \in DOMAIN stq' |-> stq'[e]]
  BY DEF LsuCycle
<1> QED BY <1>1, <1>2, <1>3, <1>4

LEMMA LineTyped ==
  ASSUME Typed, Rings, LineFits, NEW k, NEW f, NEW guess, NEW send, NEW n,
         Cycle(k, f, guess, send, n)
  PROVE  /\ hl' \in [0..HD-1 -> SUBSET LineAccess] /\ LineFits'
         /\ ms' \in [DOMAIN ms' -> Miss] /\ DOMAIN ms' \subseteq 0..MSHR_N-1
<1>1. hl' = LineNext /\ ms' = MsNext(Started, FALSE)
  BY LineMoves
<1>2. \A s \in 0..HD-1 : LineNext[s] \in SUBSET LineAccess
  BY LineNextFits
<1>3. \A s \in 0..HD-1 : IsFiniteSet(LineNext[s]) /\ Cardinality(LineNext[s]) <= 2
  BY LineNextFits
<1>4. LineNext = [s \in 0..HD-1 |-> LineNext[s]]
  BY DEF LineNext
<1>5. LineNext \in [0..HD-1 -> SUBSET LineAccess]
  BY <1>2, <1>4
<1>6. LineFits'
  BY <1>1, <1>3 DEF LineFits
<1>7. /\ MsNext(Started, FALSE) \in [DOMAIN MsNext(Started, FALSE) -> Miss]
      /\ DOMAIN MsNext(Started, FALSE) \subseteq 0..MSHR_N-1
  BY MsTyped
<1> QED BY <1>1, <1>5, <1>6, <1>7

LEMMA TypedNext ==
  ASSUME Typed, Rings, LineFits, WindowOrder, LdMatched, StMatched, RequestPlaces, BufferFits,
         Owned, Running, EventsFollow,
         NEW k \in Dispatchable, NEW f \in Fetchable(k), NEW guess,
         NEW send \in Requests, NEW n \in Retirable, Cycle(k, f, guess, send, n)
  PROVE  Typed'
<1>1. stream' = stream /\ stream \in Streams
  BY DEF Cycle, Typed
<1>2. pc' \in 0..Len(stream)-1
  <2>1. f \in Nat
    BY DEF Fetchable
  <2>2. pc' = (pc + f) % Len(stream)
    BY DEF Cycle
  <2> QED BY <2>1, <2>2, FetchedType
<1>3. dq' \in Seq(StreamUop) /\ Len(dq') <= DQ_N
  BY EventsStep
<1>4. win' \in Seq(MemUop)
  BY WinNext
<1>5. tail' \in RobIx
  BY WindowNext
<1>6. r_req' \in Seq(RobIx) /\ pq' \in Seq(RobIx)
  BY RequestPlacesNext
<1>7. ldq' \in [DOMAIN ldq' -> LdEntry] /\ stq' \in [DOMAIN stq' -> StEntry]
  BY QueuesTyped
<1>8. /\ hl' \in [0..HD-1 -> SUBSET LineAccess]
      /\ ms' \in [DOMAIN ms' -> Miss] /\ DOMAIN ms' \subseteq 0..MSHR_N-1
  BY LineTyped
<1>9. /\ RobIx' = RobIx /\ StreamUop' = StreamUop /\ MemUop' = MemUop /\ LineAccess' = LineAccess
  BY DEF RobIx, StreamUop, MemUop, LineAccess
<1>10. LdEntry' = LdEntry /\ StEntry' = StEntry /\ Miss' = Miss
  BY DEF LdEntry, StEntry, Miss, RobIx, StIx, LdIx, ld_max, st_max
<1> QED BY <1>1, <1>2, <1>3, <1>4, <1>5, <1>6, <1>7, <1>8, <1>9, <1>10 DEF Typed
LEMMA CycleInv ==
  ASSUME IInv, NEW k \in Dispatchable, NEW f \in Fetchable(k), NEW guess \in SUBSET Conflicts(k),
         NEW send \in Requests, NEW n \in Retirable, Cycle(k, f, guess, send, n)
  PROVE  IInv'
<1>1. /\ Typed /\ Rings /\ LineFits /\ WindowOrder /\ LdMatched /\ StMatched
      /\ RequestPlaces /\ BufferFits /\ Owned /\ OnePlace /\ Running /\ Blocked /\ EventsFollow
  BY DEF IInv
<1>2. Typed'
  BY <1>1, TypedNext
<1>3. Rings'
  BY <1>1, RingsNext
<1>4. LineFits'
  BY <1>1, LineTyped
<1>5. WindowOrder'
  BY <1>1, WindowNext
<1>6. LdMatched'
  BY <1>1, LdMatchedNext
<1>7. StMatched'
  BY <1>1, StMatchedNext
<1>8. RequestPlaces' /\ BufferFits'
  BY <1>1, RequestPlacesNext
<1>9. Owned'
  BY <1>1, OwnedNext
<1>10. OnePlace'
  BY <1>1, OnePlaceNext
<1>11. Running'
  BY <1>1, RunningNext
<1>12. Blocked'
  BY <1>1, BlockedNext
<1>13. EventsFollow'
  BY <1>1, EventsStep
<1> QED BY <1>2, <1>3, <1>4, <1>5, <1>6, <1>7, <1>8, <1>9, <1>10, <1>11, <1>12, <1>13 DEF IInv

\* What holds when all but the miss registers is empty.
Emptied ==
  /\ stream \in Streams /\ pc = 0 /\ dq = <<>> /\ win = <<>> /\ tail = 0 /\ r_req = <<>>
  /\ ldq = <<>> /\ ld_head = 0 /\ ld_tail = 0 /\ ld_cnt = 0
  /\ stq = <<>> /\ st_head = 0 /\ st_tail = 0 /\ st_cnt = 0
  /\ hl = [s \in 0..HD-1 |-> {}] /\ pq = <<>> /\ me = <<>>
  /\ ms \in [DOMAIN ms -> Miss] /\ DOMAIN ms \subseteq 0..MSHR_N-1
  /\ \A m \in DOMAIN ms : ms[m].dead

LEMMA EmptiedInv == Emptied => IInv /\ Pending = {}
<1> SUFFICES ASSUME Emptied PROVE IInv /\ Pending = {}
  OBVIOUS
<1>0. /\ ld_max \in Nat \ {0} /\ st_max \in Nat \ {0} /\ ROB_N \in Nat \ {0} /\ HD \in Nat \ {0}
      /\ W \in Nat \ {0} /\ PQN \in Nat /\ DQ_N \in Nat
  BY Sizes, LsuAssumption, MemPathAssumption
<1>1. /\ DOMAIN ldq = {} /\ DOMAIN stq = {} /\ Len(win) = 0 /\ Len(dq) = 0
      /\ Live = {} /\ LiveMiss = {} /\ ToSet(r_req) = {} /\ ToSet(pq) = {}
      /\ \A s \in 0..HD-1 : hl[s] = {}
  BY DEF Emptied, Live, LiveMiss, ToSet
<1>2. Noted = {} /\ AskedRobs = {} /\ Pending = {}
  BY <1>1 DEF Noted, AskedRobs, Pending
<1>3. Typed
  <2>1. stream \in Seq(StreamUop) /\ stream # <<>>
    BY MemPathAssumption DEF Emptied, StreamUop
  <2>2. 0 \in 0..Len(stream)-1
    BY <2>1
  <2>3. ldq \in [DOMAIN ldq -> LdEntry] /\ stq \in [DOMAIN stq -> StEntry]
    BY <1>1 DEF Emptied
  <2>4. hl \in [0..HD-1 -> SUBSET LineAccess]
    BY DEF Emptied
  <2>5. 0 \in RobIx
    BY <1>0 DEF RobIx
  <2>6. dq \in Seq(StreamUop) /\ win \in Seq(MemUop) /\ r_req \in Seq(RobIx) /\ pq \in Seq(RobIx)
    BY DEF Emptied
  <2> QED BY <1>0, <1>1, <2>2, <2>3, <2>4, <2>5, <2>6 DEF Typed, Emptied
<1>4. Rings
  <2>1. \A m \in Nat \ {0} : (0 + 0) % m = 0 /\ 0 \in 0..m-1 /\ 0 \in 0..m
    OBVIOUS
  <2>2. \A m \in Nat \ {0} : {(0 + i) % m : i \in 0..0-1} = {}
    OBVIOUS
  <2> QED BY <1>0, <1>1, <2>1, <2>2 DEF Rings, RingExact, Emptied, LdIx, StIx
<1>5. LineFits
  <2>1. IsFiniteSet({}) /\ Cardinality({}) <= 2
    BY FS_EmptySet
  <2> QED BY <1>1, <2>1 DEF LineFits
<1>6. WindowOrder /\ LdMatched /\ StMatched
  BY <1>1 DEF WindowOrder, LdMatched, StMatched
<1>7. RequestPlaces
  BY <1>1, <1>2 DEF RequestPlaces, Emptied, IsInjective
<1>8. BufferFits
  BY <1>0 DEF BufferFits, Emptied
<1>9. Owned /\ OnePlace /\ Running /\ Blocked
  BY <1>1 DEF Owned, OnePlace, Running, Blocked
<1>10. EventsFollow
  <2>1. dq \in Seq(StreamUop)
    BY <1>3 DEF Typed
  <2>2. Events(dq) = <<>>
    <3>1. MemAt(dq) = {}
      BY DEF MemAt, Emptied
    <3>2. Cardinality(MemAt(dq)) = 0
      BY <3>1, FS_EmptySet
    <3>3. Len(OnlyMem(dq)) = 0
      BY <2>1, <3>2, OnlyMemType
    <3>4. Events(dq) \in Seq(MemEvent) /\ Len(Events(dq)) = Len(OnlyMem(dq))
      BY <2>1, EventsType
    <3> QED BY <3>3, <3>4
  <2> QED BY <2>2 DEF EventsFollow, Emptied
<1> QED BY <1>2, <1>3, <1>4, <1>5, <1>6, <1>7, <1>8, <1>9, <1>10 DEF IInv

LEMMA InitInv == Init => IInv /\ Pending = {}
<1>1. Init => Emptied
  BY DEF Init, LsuInit, Emptied
<1> QED BY <1>1, EmptiedInv

LEMMA FlushInv == ASSUME IInv, Flush PROVE IInv' /\ Pending' = {}
<1>1. Typed /\ Rings
  BY DEF IInv
<1>2. ms' = MsNext(Started, TRUE)
  BY DEF Flush, LsuFlush
<1>3. /\ MsNext(Started, TRUE) \in [DOMAIN MsNext(Started, TRUE) -> Miss]
      /\ DOMAIN MsNext(Started, TRUE) \subseteq 0..MSHR_N-1
  BY <1>1, MsTyped
<1>4. ASSUME NEW m \in DOMAIN MsNext(Started, TRUE) PROVE MsNext(Started, TRUE)[m].dead
  <2>1. m \in MsStay \/ m \in MsTaken
    BY <1>1, MsNextOf
  <2>2. CASE m \in MsStay
    <3>1. MsAfter(m, MsNext(Started, TRUE)[m], TRUE)
      BY <1>1, <2>2, MsKept
    <3> QED BY <3>1 DEF MsAfter
  <2>3. CASE m \in MsTaken
    <3>1. PICK a \in Started : MsNext(Started, TRUE)[m] = MsOf(a, TRUE)
      BY <1>1, <2>3, MsNew
    <3>2. MsOf(a, TRUE).dead
      BY DEF MsOf
    <3> QED BY <3>1, <3>2
  <2> QED BY <2>1, <2>2, <2>3
<1>5. Miss' = Miss
  BY DEF Miss, RobIx, LdIx, ld_max
<1>6. stream \in Streams
  BY <1>1 DEF Typed
<1>7. Emptied'
  BY <1>2, <1>3, <1>4, <1>5, <1>6 DEF Emptied, Flush, LsuFlush
<1>8. (Emptied => IInv /\ Pending = {})'
  BY EmptiedInv, PTL
<1> QED BY <1>7, <1>8

LEMMA NextInv == IInv /\ [Next]_vars => IInv'
<1> SUFFICES ASSUME IInv, [Next]_vars PROVE IInv'
  OBVIOUS
<1>1. CASE Clock
  <2>1. PICK k \in Dispatchable, send \in Requests, n \in Retirable :
          \E f \in Fetchable(k), guess \in SUBSET Conflicts(k) : Cycle(k, f, guess, send, n)
    BY <1>1 DEF Clock
  <2>2. PICK f \in Fetchable(k), guess \in SUBSET Conflicts(k) : Cycle(k, f, guess, send, n)
    BY <2>1
  <2> QED BY <2>2, CycleInv
<1>2. CASE Flush
  BY <1>2, FlushInv
<1>3. CASE UNCHANGED vars
  <2>0. /\ UNCHANGED <<stream, pc, dq, win, tail, r_req>> /\ UNCHANGED <<ms, hl, pq, me>>
        /\ UNCHANGED <<ldq, ld_head, ld_tail, ld_cnt>> /\ UNCHANGED <<stq, st_head, st_tail, st_cnt>>
    BY <1>3 DEF vars, lsuVars, queueVars
  <2>1. Typed'
    BY <2>0 DEF IInv, Typed, RobIx, StreamUop, MemUop, LdEntry, StEntry, Miss, LineAccess, LdIx, StIx,
                ld_max, st_max
  <2>2. Rings'
    BY <2>0 DEF IInv, Rings, LdIx, StIx, ld_max, st_max, RingExact
  <2>3. LineFits' /\ BufferFits'
    BY <2>0 DEF IInv, LineFits, BufferFits
  <2>4. WindowOrder'
    BY <2>0 DEF IInv, WindowOrder, Ahead, Live
  <2>5. LdMatched' /\ StMatched'
    BY <2>0 DEF IInv, LdMatched, StMatched, Live, Open
  <2>6. RequestPlaces'
    <3>1. AskedRobs' = AskedRobs
      BY <2>0 DEF AskedRobs, Live
    <3>2. Noted' = Noted
      BY <2>0 DEF Noted
    <3>3. UNCHANGED <<r_req, pq>>
      BY <2>0
    <3> QED BY <3>1, <3>2, <3>3 DEF IInv, RequestPlaces
  <2>7. Owned' /\ OnePlace' /\ Running'
    BY <2>0 DEF IInv, Owned, OnePlace, Running, Runs, LiveMiss
  <2>8. Blocked'
    BY <2>0 DEF IInv, Blocked, Live, st_max
  <2>9. EventsFollow'
    BY <2>0 DEF IInv, EventsFollow
  <2> QED BY <2>1, <2>2, <2>3, <2>4, <2>5, <2>6, <2>7, <2>8, <2>9 DEF IInv
<1> QED BY <1>1, <1>2, <1>3 DEF Next
----------------------------------------------------------------------------
(* What the invariant says of the unit.                                    *)

LEMMA QueuesExactHolds == ASSUME IInv PROVE QueuesExact
<1>1. Typed /\ Rings /\ LineFits /\ BufferFits /\ EventsFollow
  BY DEF IInv
<1>2. DOMAIN ldq \subseteq 0..ld_max-1 /\ DOMAIN stq \subseteq 0..st_max-1
  BY <1>1, WantsTyped DEF LdIx, StIx
<1>3. \A e \in DOMAIN ldq : ldq[e].rob \in 0..ROB_N-1 /\ ldq[e].wid \in 0..st_max-1
  BY <1>1 DEF Typed, LdEntry, RobIx, StIx
<1>4. \A e \in DOMAIN stq : stq[e].rob \in 0..ROB_N-1
  BY <1>1 DEF Typed, StEntry, RobIx
<1>5. DOMAIN ms \subseteq 0..MSHR_N-1 /\ \A m \in DOMAIN ms : ms[m].ldq \in 0..ld_max-1
  BY <1>1 DEF Typed, Miss, LdIx
<1>6. Len(pq) <= PQN /\ Len(dq) <= DQ_N
  BY <1>1 DEF BufferFits, Typed
<1>7. Len(me) <= MQN
  <2>1. dq \in Seq(StreamUop)
    BY <1>1 DEF Typed
  <2>2. PICK m \in Nat : m = Cardinality(MemAt(dq))
    BY <2>1, MemAtFinite
  <2>3. m <= Len(dq) /\ Len(OnlyMem(dq)) = m /\ Len(dq) \in Nat
    BY <2>1, <2>2, OnlyMemType
  <2>4. Len(me) = m
    BY <1>1, <2>1, <2>3, EventsType DEF EventsFollow
  <2> QED BY <1>6, <2>3, <2>4, MemPathAssumption, LsuAssumption
<1>8. \A s \in 0..HD-1 : Cardinality(hl[s]) <= 2
  BY <1>1 DEF LineFits
<1>9. /\ ld_head \in 0..ld_max-1 /\ ld_tail \in 0..ld_max-1 /\ ld_cnt \in 0..ld_max
      /\ st_head \in 0..st_max-1 /\ st_tail \in 0..st_max-1 /\ st_cnt \in 0..st_max
  BY <1>1 DEF Rings, LdIx, StIx
<1>10. TypeOK
  BY <1>2, <1>3, <1>4, <1>5, <1>6, <1>7, <1>8, <1>9 DEF TypeOK
<1> QED BY <1>1, <1>10 DEF QueuesExact, Rings

LEMMA EventsAlignedHolds == ASSUME IInv PROVE EventsAligned
<1>1. Typed /\ WindowOrder /\ LdMatched /\ EventsFollow
  BY DEF IInv
<1>2. ASSUME NEW e \in DOMAIN ldq, NEW k \in Live, ldq[e].rob = win[k].rob, ~ldq[e].dn
      PROVE  ldq[e].ev = win[k].ev
  <2>1. PICK h \in Live : win[h].rob = ldq[e].rob /\ win[h].ev = ldq[e].ev
    BY <1>1, <1>2 DEF LdMatched
  <2>2. win[h].rob = win[k].rob
    BY <1>2, <2>1
  <2>3. h = k
    BY <1>1, <2>2, WinApart
  <2> QED BY <2>1, <2>3
<1> QED BY <1>1, <1>2 DEF EventsAligned, EventsFollow

LEMMA PendingIs == Pending = ToSet(pq) \cup Noted
BY DEF Pending, Noted

LEMMA RequestsKeptHolds == ASSUME IInv PROVE RequestsKept
<1>1. /\ AskedRobs = ToSet(r_req) \cup ToSet(pq) \cup Noted
      /\ ToSet(r_req) \cap ToSet(pq) = {} /\ ToSet(r_req) \cap Noted = {}
  BY DEF IInv, RequestPlaces
<1>2. AskedRobs = ToSet(r_req) \cup Pending /\ ToSet(r_req) \cap Pending = {}
  BY <1>1, PendingIs
<1> QED BY <1>2 DEF RequestsKept, AskedRobs

LEMMA BlockedByOlderHolds == ASSUME IInv PROVE BlockedByOlder
BY DEF IInv, Blocked, BlockedByOlder

----------------------------------------------------------------------------
(* The theorems.                                                           *)

\* IInv holds in every reachable state: the queues are rings, the open entries
\* and the unanswered memory uops of the window are the same, and a request or
\* an access is in one place (the always block of lsu_q.v).
THEOREM MemPathInvariance == Spec => []IInv
<1>1. Init => IInv
  BY InitInv
<1>2. IInv /\ [Next]_vars => IInv'
  BY NextInv
<1> QED BY <1>1, <1>2, PTL DEF Spec

\* The heads, tails, counts and valid bits of both queues stay those of one
\* ring, and no buffer overflows, whatever drains and is allocated in a cycle
\* (lsu_q.v steps 1, 2 and 10).
THEOREM QueuesStayExact == Spec => []QueuesExact
<1>1. IInv => QueuesExact
  BY QueuesExactHolds
<1> QED BY <1>1, MemPathInvariance, PTL

\* A load that is not done has the memory event of its own instruction: the
\* queue of events, filled at fetch and popped at dispatch, never slips.
THEOREM LoadsHaveTheirEvents == Spec => []EventsAligned
<1>1. IInv => EventsAligned
  BY EventsAlignedHolds
<1> QED BY <1>1, MemPathInvariance, PTL

\* A started entry that is not done has one access, in the delay line or in a
\* live miss register, under its own reorder-buffer entry, and no other entry
\* has any: it is answered once, and nothing flushed is answered.
THEOREM AccessesInOnePlace == Spec => []OneAccess
<1>1. IInv => OneAccess
  BY OneAccessHolds DEF IInv
<1> QED BY <1>1, MemPathInvariance, PTL

\* What be_eu has asked for and has not got is on its way, in the buffer or
\* noted in a queue entry: the buffer refuses nothing, and each lookup finds
\* the entry (lsu_q.v steps 7 and 9).
THEOREM NoRequestIsLost == Spec => []RequestsKept
<1>1. IInv => RequestsKept
  BY RequestsKeptHolds
<1> QED BY <1>1, MemPathInvariance, PTL

\* A load only ever waits for a store that is queued and for older work: the
\* waits cannot form a cycle.
THEOREM WaitsForOlder == Spec => []BlockedByOlder
<1>1. IInv => BlockedByOlder
  BY BlockedByOlderHolds
<1> QED BY <1>1, MemPathInvariance, PTL

\* The unit implements MemoryPort under the mapping of Pending: each clock edge
\* takes the requests sent and answers some of those it had, a flush forgets all.
THEOREM UnitServesRequests == Spec => ServesRequests
<1>1. Init => Promise!Init
  BY InitInv DEF Promise!Init
<1>2. ASSUME IInv, [Next]_vars
      PROVE  [Promise!Serve(ToSet(r_req), Answers) \/ (LsuFlush /\ Promise!Flush)]_vars
  <2>1. CASE Clock
    <3>1. PICK k \in Dispatchable, send \in Requests, n \in Retirable :
            \E f \in Fetchable(k), guess \in SUBSET Conflicts(k) : Cycle(k, f, guess, send, n)
      BY <2>1 DEF Clock
    <3>2. PICK f \in Fetchable(k), guess \in SUBSET Conflicts(k) : Cycle(k, f, guess, send, n)
      BY <3>1
    <3>3. /\ Typed /\ Rings /\ WindowOrder /\ LdMatched /\ StMatched /\ RequestPlaces /\ BufferFits
          /\ Owned /\ Running /\ EventsFollow
      BY <1>2 DEF IInv
    <3>4. Answers \in SUBSET Pending /\ Pending' = (Pending \ Answers) \cup ToSet(r_req)
      BY <3>2, <3>3, RequestPlacesNext
    <3> QED BY <3>4 DEF Promise!Serve
  <2>2. CASE Flush
    <3>1. Pending' = {}
      BY <1>2, <2>2, FlushInv
    <3>2. LsuFlush
      BY <2>2 DEF Flush
    <3> QED BY <3>1, <3>2 DEF Promise!Flush
  <2>3. CASE UNCHANGED vars
    BY <2>3
  <2> QED BY <1>2, <2>1, <2>2, <2>3 DEF Next
<1> QED BY <1>1, <1>2, MemPathInvariance, PTL DEF Spec, ServesRequests
============================================================================
