-------------------------- MODULE CommitPathProofs --------------------------
(***************************************************************************)
(* The commit path, for every number of lanes, entries and registers.      *)
(* First the accounting: IInv, that every physical register and every     *)
(* entry of the ring is in one place.  Then program order: every live uop  *)
(* reads the register of its program-order producer, the speculative table *)
(* is the committed one with the live writers applied, and the path        *)
(* implements InOrderWindow; IInv is part of both of its invariants.       *)
(***************************************************************************)
EXTENDS CommitPath, OrderLemmas, SequenceTheorems

----------------------------------------------------------------------------
(* Greatest elements.                                                      *)

\* Max is the greatest member of a set of integers that is bounded and not empty.
LEMMA GreatestBounded ==
  ASSUME NEW S \in SUBSET Int, S # {}, NEW k \in Int, \A x \in S : x <= k
  PROVE  /\ Max(S) \in S
         /\ \A x \in S : x <= Max(S)
<1>1. \E x \in S : \A y \in S : x >= y
  <2>1. PICK x \in S : \A y \in S : y <= x
    BY GreatestInt
  <2> QED BY <2>1
<1> QED BY <1>1 DEF Max

\* The greatest member of S below a bound, or the default z below them all.
LEMMA GreatestOr ==
  ASSUME NEW z \in Int, NEW k \in Int, z <= k, 
         NEW S \in SUBSET Int, \A x \in S : z < x /\ x <= k
  PROVE  /\ Max({z} \cup S) \in {z} \cup S
         /\ \A x \in S : x <= Max({z} \cup S)
         /\ Max({z} \cup S) = z <=> S = {}
<1> DEFINE Z == {z} \cup S
<1>1. Max(Z) \in Z /\ \A x \in Z : x <= Max(Z)
  <2>1. Z \in SUBSET Int /\ Z # {} /\ \A x \in Z : x <= k
    OBVIOUS
  <2> HIDE DEF Z
  <2> QED BY <2>1, GreatestBounded
<1>2. Max(Z) \in Int
  BY <1>1
<1> QED BY <1>1, <1>2

----------------------------------------------------------------------------
(* The free-list picks.                                                    *)

\* The k-th lowest free register exists while fewer than k are below it.
LEMMA PickProperty ==
  ASSUME fl \in SUBSET Phys, NEW k \in Nat, k < Cardinality(Free)
  PROVE  Pick(k) \in Free /\ Rank(Pick(k)) = k
<1>1. Free \in SUBSET (0..PRF_N) /\ PRF_N \in Nat
  BY IfcAssumption DEF Free, Phys
<1>2. PICK p \in Free : Cardinality(Lower(Free, p)) = k
  BY <1>1, RankExists
<1>3. \A q : Rank(q) = Cardinality(Lower(Free, q))
  BY DEF Rank, Lower
<1> QED BY <1>2, <1>3 DEF Pick

----------------------------------------------------------------------------
(* Rename: the lanes of a bundle.                                          *)

\* The last writer of a register before a lane is an earlier lane of the bundle
\* that writes it, and no lane between the two does.
LEMMA LastWriterProperty ==
  ASSUME NEW b, NEW j \in Nat \ {0}, NEW a
  PROVE  /\ LastWriter(b, j, a) \in 0..j-1
         /\ LastWriter(b, j, a) # 0 =>
              NeedsPhys(b[LastWriter(b, j, a)]) /\ b[LastWriter(b, j, a)].d = a
         /\ \A i \in 1..j-1 :
              NeedsPhys(b[i]) /\ b[i].d = a => i <= LastWriter(b, j, a)
<1> DEFINE S == {i \in 1..j-1 : NeedsPhys(b[i]) /\ b[i].d = a}
<1> DEFINE k == j - 1
<1>1. S \in SUBSET Int /\ 0 \in Int /\ k \in Int /\ 0 <= k
  OBVIOUS
<1>2. \A x \in S : 0 < x /\ x <= k
  OBVIOUS
<1>3. /\ Max({0} \cup S) \in {0} \cup S
      /\ \A x \in S : x <= Max({0} \cup S)
  <2> HIDE DEF S, k
  <2> DEFINE z == 0
  <2>1. z \in Int /\ z <= k /\ \A x \in S : z < x /\ x <= k
    BY <1>1, <1>2
  <2>2. z = 0
    OBVIOUS
  <2> HIDE DEF z
  <2>3. /\ Max({z} \cup S) \in {z} \cup S
        /\ \A x \in S : x <= Max({z} \cup S)
    BY <1>1, <2>1, GreatestOr
  <2> QED BY <2>2, <2>3
<1>4. LastWriter(b, j, a) = Max({0} \cup S)
  BY DEF LastWriter
<1> DEFINE l == LastWriter(b, j, a)
<1>5. l \in {0} \cup S /\ \A x \in S : x <= l
  BY <1>3, <1>4
<1> HIDE DEF l
<1>6. l \in 0..j-1 /\ (l # 0 => l \in S)
  BY <1>5
<1> QED BY <1>5, <1>6 DEF l

\* Lanes that need a register get free ones, and different lanes different ones.
LEMMA NewRegProperty ==
  ASSUME fl \in SUBSET Phys, NEW b, NEW m \in Nat, m <= Cardinality(Free)
  PROVE  /\ \A j \in 1..m : NewReg(b, j) \in Free
         /\ \A i, j \in 1..m : NeedsPhys(b[i]) /\ NeedsPhys(b[j]) /\ i # j =>
              NewReg(b, i) # NewReg(b, j)
<1> DEFINE Before(j) == {i \in 1..j-1 : NeedsPhys(b[i])}
<1>1. ASSUME NEW j \in 1..m
      PROVE  /\ IsFiniteSet(Before(j)) 
             /\ Slot(b, j) \in Nat
             /\ Slot(b, j) = Cardinality(Before(j))
             /\ Slot(b, j) <= j - 1
  <2>1. Before(j) \in SUBSET (1..j-1)
    OBVIOUS
  <2>2. IsFiniteSet(1..j-1) /\ Cardinality(1..j-1) = j - 1
    BY FS_Interval
  <2>3. Slot(b, j) = Cardinality(Before(j))
    BY DEF Slot
  <2> HIDE DEF Before
  <2> QED BY <2>1, <2>2, <2>3, FS_Subset, FS_CardinalityType
<1>2. Cardinality(Free) \in Nat
  <2>1. IsFiniteSet(Phys)
    BY FS_Interval, IfcAssumption DEF Phys
  <2>2. Free \in SUBSET Phys
    BY DEF Free
  <2> QED BY <2>1, <2>2, FS_Subset, FS_CardinalityType
<1>3. \A j \in 1..m : Slot(b, j) \in Nat /\ Slot(b, j) < Cardinality(Free)
  <2> SUFFICES ASSUME NEW j \in 1..m
               PROVE  Slot(b, j) \in Nat /\ Slot(b, j) < Cardinality(Free)
    OBVIOUS
  <2>1. Slot(b, j) \in Nat /\ Slot(b, j) <= j - 1
    BY <1>1
  <2> QED BY <2>1, <1>2
<1>4. \A j \in 1..m : NewReg(b, j) \in Free /\ Rank(NewReg(b, j)) = Slot(b, j)
  BY <1>3, PickProperty DEF NewReg
<1>5. ASSUME NEW i \in 1..m, NEW j \in 1..m, NeedsPhys(b[i]), i < j
      PROVE  Slot(b, i) # Slot(b, j)
  <2>1. Before(i) \in SUBSET Before(j)
    BY <1>5
  <2>2. Before(i) # Before(j)
    <3>1. i \in Before(j) /\ i \notin Before(i)
      BY <1>5
    <3> QED BY <3>1
  <2> HIDE DEF Before
  <2>3. Cardinality(Before(i)) # Cardinality(Before(j))
    BY <2>1, <2>2, <1>1, FS_Subset
  <2> QED BY <2>3, <1>1
<1>6. \A i, j \in 1..m : NeedsPhys(b[i]) /\ NeedsPhys(b[j]) /\ i # j =>
         Slot(b, i) # Slot(b, j)
  BY <1>5
<1> QED BY <1>4, <1>6

----------------------------------------------------------------------------
(* Rename: the retirements of a cycle.                                     *)

\* Of the retirements that write a register the last is the one that stays.
LEMMA LastCommitProperty ==
  ASSUME NEW c, NEW j \in Nat \ {0}, NEW a
  PROVE  /\ LastCommit(c, j, a) \in 0..j-1
         /\ LastCommit(c, j, a) # 0 =>
              Writes(c, LastCommit(c, j, a)) /\ c[LastCommit(c, j, a)].arf = a
         /\ \A i \in 1..j-1 :
              Writes(c, i) /\ c[i].arf = a => i <= LastCommit(c, j, a)
<1> DEFINE S == {i \in 1..j-1 : Writes(c, i) /\ c[i].arf = a}
<1> DEFINE k == j - 1
<1>1. S \in SUBSET Int /\ 0 \in Int /\ k \in Int /\ 0 <= k
  OBVIOUS
<1>2. \A x \in S : 0 < x /\ x <= k
  OBVIOUS
<1>3. /\ Max({0} \cup S) \in {0} \cup S
      /\ \A x \in S : x <= Max({0} \cup S)
  <2> HIDE DEF S, k
  <2> DEFINE z == 0
  <2>1. z \in Int /\ z <= k /\ \A x \in S : z < x /\ x <= k
    BY <1>1, <1>2
  <2>2. z = 0
    OBVIOUS
  <2> HIDE DEF z
  <2>3. /\ Max({z} \cup S) \in {z} \cup S
        /\ \A x \in S : x <= Max({z} \cup S)
    BY <1>1, <2>1, GreatestOr
  <2> QED BY <2>2, <2>3
<1>4. LastCommit(c, j, a) = Max({0} \cup S)
  BY DEF LastCommit
<1> DEFINE l == LastCommit(c, j, a)
<1>5. l \in {0} \cup S /\ \A x \in S : x <= l
  BY <1>3, <1>4
<1> HIDE DEF l
<1>6. l \in 0..j-1 /\ (l # 0 => l \in S)
  BY <1>5
<1> QED BY <1>5, <1>6 DEF l

\* A cycle's retirements move registers between the three places they can be
\* in without losing or sharing one: what was committed or is retired now is
\* afterwards either committed or freed, and not both.
LEMMA CommitMoves ==
  ASSUME crat \in [Arf -> Phys], crat[0] = 0,
         \A x, y \in Arf : x # y => crat[x] # crat[y],
         NEW c \in Seq(Commit),
         \A i, j \in Writers(c) : i # j => c[i].prf # c[j].prf,
         \A j \in Writers(c), x \in Arf : c[j].prf # crat[x]
  PROVE  LET New == {crat_nxt(c)[a] : a \in Arf \ {0}}
         IN  /\ crat_nxt(c) \in [Arf -> Phys]
             /\ crat_nxt(c)[0] = 0
             /\ \A x, y \in Arf : x # y => crat_nxt(c)[x] # crat_nxt(c)[y]
             /\ Freed(c) \cap New = {}
             /\ Freed(c) \cup New = Committed \cup Used(c)
<1> DEFINE N == Len(c)
           L(a) == LastCommit(c, N + 1, a)
           New == {crat_nxt(c)[a] : a \in Arf \ {0}}
<1>1. /\ N \in Nat
      /\ 0 \in Arf
      /\ Writers(c) = {j \in 1..N : Writes(c, j)}
      /\ \A j \in 1..N : c[j].arf \in Arf /\ c[j].prf \in Phys
  BY IfcAssumption DEF Writers, Commit, Arf
<1>2. ASSUME NEW a \in Arf \ {0}
      PROVE  /\ L(a) \in 0..N
             /\ L(a) = 0 => crat_nxt(c)[a] = crat[a]
             /\ L(a) # 0 => /\ L(a) \in Writers(c) /\ c[L(a)].arf = a
                            /\ crat_nxt(c)[a] = c[L(a)].prf
             /\ \A i \in Writers(c) : c[i].arf = a => i <= L(a) /\ L(a) # 0
  <2>1. crat_nxt(c)[a] = CommittedMap(c, N + 1, a)
    BY DEF crat_nxt
  <2> QED BY <2>1, <1>1, LastCommitProperty DEF CommittedMap
<1>3. crat_nxt(c)[0] = 0
  BY <1>1 DEF crat_nxt
<1> HIDE DEF L, N
<1>4. crat_nxt(c) \in [Arf -> Phys]
  <2>1. \A a \in Arf : crat_nxt(c)[a] \in Phys
    BY <1>1, <1>2, <1>3 DEF Writers
  <2> QED BY <2>1 DEF crat_nxt
<1>5. \A x, y \in Arf : x # y => crat_nxt(c)[x] # crat_nxt(c)[y]
  <2>1. ASSUME NEW x \in Arf \ {0}, NEW y \in Arf \ {0}, x # y
        PROVE  crat_nxt(c)[x] # crat_nxt(c)[y]
    BY <2>1, <1>2
  <2>2. ASSUME NEW x \in Arf \ {0} PROVE crat_nxt(c)[x] # 0
    BY <1>1, <1>2
  <2> QED BY <2>1, <2>2, <1>3
\* The value a retirement frees: the mapping its writer replaces.
<1>6. ASSUME NEW j \in Writers(c)
      PROVE  LET a == c[j].arf
                 i == LastCommit(c, j, a)
             IN  /\ a \in Arf \ {0}
                 /\ i = 0 => CommittedMap(c, j, a) = crat[a]
                 /\ i # 0 => /\ i \in Writers(c) /\ c[i].arf = a /\ i < j
                             /\ CommittedMap(c, j, a) = c[i].prf
                 /\ CommittedMap(c, j, a) # 0
                 /\ \A h \in Writers(c) : h < j /\ c[h].arf = a => h <= i /\ i # 0
  BY <1>1, LastCommitProperty DEF CommittedMap, Writes, Writers
<1>7. Freed(c) = {CommittedMap(c, j, c[j].arf) : j \in Writers(c)}
  BY <1>6 DEF Freed
<1>8. Freed(c) \cap New = {}
  <2> SUFFICES ASSUME NEW j \in Writers(c), NEW b \in Arf \ {0},
                      CommittedMap(c, j, c[j].arf) = crat_nxt(c)[b]
               PROVE  FALSE
    BY <1>7
  <2>1. j \in Nat
    BY <1>1
  <2>2. CASE LastCommit(c, j, c[j].arf) = 0
    BY <2>1, <2>2, <1>1, <1>2, <1>6
  <2>3. CASE LastCommit(c, j, c[j].arf) # 0
    BY <2>1, <2>3, <1>1, <1>2, <1>6
  <2> QED BY <2>2, <2>3
<1>9. Freed(c) \cup New \subseteq Committed \cup Used(c)
  BY <1>1, <1>2, <1>6, <1>7 DEF Committed, Used
<1>10. Committed \subseteq Freed(c) \cup New
  <2> SUFFICES ASSUME NEW a \in Arf \ {0} PROVE crat[a] \in Freed(c) \cup New
    BY DEF Committed
  <2>1. CASE L(a) = 0
    BY <2>1, <1>2
  <2>2. CASE L(a) # 0
    <3> DEFINE S == {i \in Writers(c) : c[i].arf = a}
    <3>1. S \in SUBSET Nat /\ S # {}
      BY <2>2, <1>1, <1>2
    <3>2. PICK j \in S : \A i \in S : j <= i
      BY <3>1, LeastNat
    <3>3. LastCommit(c, j, a) = 0
      BY <3>2, <1>6, <1>1
    <3> QED BY <3>2, <3>3, <1>6, <1>7
  <2> QED BY <2>1, <2>2
<1>11. Used(c) \subseteq Freed(c) \cup New
  <2> SUFFICES ASSUME NEW i \in Writers(c) PROVE c[i].prf \in Freed(c) \cup New
    BY DEF Used
  <2> DEFINE a == c[i].arf
  <2>0. a \in Arf \ {0} /\ i \in Nat
    BY <1>1, <1>6
  <2>1. CASE L(a) = i
    BY <2>0, <2>1, <1>2
  <2>2. CASE L(a) # i
    <3> DEFINE S == {j \in Writers(c) : c[j].arf = a /\ i < j}
    <3>1. S \in SUBSET Nat /\ S # {}
      BY <2>0, <2>2, <1>1, <1>2
    <3>2. PICK j \in S : \A h \in S : j <= h
      BY <3>1, LeastNat
    <3>3. LastCommit(c, j, a) = i
      BY <2>0, <3>2, <1>6, <1>1
    <3> QED BY <2>0, <3>2, <3>3, <1>6, <1>7
  <2> QED BY <2>1, <2>2
<1> QED BY <1>3, <1>4, <1>5, <1>8, <1>9, <1>10, <1>11

----------------------------------------------------------------------------
(* The ring.                                                               *)

Ring == /\ rob_head \in 0..cfg_rob_entries-1
        /\ rob_tail \in 0..cfg_rob_entries-1
        /\ rob_cnt \in 0..cfg_rob_entries

\* The commit scan retires a prefix of the window, if any.
LEMMA CommitScan ==
  ASSUME rob_cnt \in Nat
  PROVE  /\ n_cmt \in 0..W
         /\ n_cmt <= rob_cnt
         /\ \A k \in 0..n_cmt-1 : Retires(k)
<1> DEFINE S == {n \in 0..W : n < W => ~Retires(n)}
<1>1. S \in SUBSET Nat /\ S # {}
  <2>1. W \in S
    BY IfcAssumption
  <2> QED BY <2>1
<1>2. PICK n \in S : \A m \in S : n <= m
  BY <1>1, LeastNat
<1>3. /\ n \in 0..W
      /\ \A k \in 0..n-1 : Retires(k)
      /\ n < W => ~Retires(n)
  BY <1>2, IfcAssumption
<1>4. /\ n_cmt \in 0..W
      /\ \A k \in 0..n_cmt-1 : Retires(k)
  BY <1>3 DEF n_cmt
<1>5. n_cmt <= rob_cnt
  <2>1. CASE n_cmt = 0
    BY <2>1
  <2>2. CASE n_cmt # 0
    <3>1. Retires(n_cmt - 1)
      BY <2>2, <1>4
    <3> QED BY <3>1, <1>4, IfcAssumption DEF Retires, Committable
  <2> QED BY <2>1, <2>2
<1> QED BY <1>4, <1>5

Retired  == {At(k) : k \in 0..n_cmt-1}
Entry(j) == Wrap(rob_tail + j - 1)

\* A cycle moves the window: the retired entries leave at its old end and one
\* entry outside it is taken for each dispatched uop.
LEMMA WindowMoves ==
  ASSUME Ring, RingExact,
         NEW ds, Len(ds) \in Nat, Len(ds) <= cfg_rob_entries - rob_cnt,
         NEW wb, RobCycle(ds, wb)
  PROVE  /\ Ring'
         /\ rob_tail' = Wrap(rob_head' + rob_cnt')
         /\ Retired \subseteq Window
         /\ Window \subseteq RobIx
         /\ \A j \in 1..Len(ds) : Entry(j) \in RobIx \ Window
         /\ \A i, j \in 1..Len(ds) : i # j => Entry(i) # Entry(j)
         /\ Window' = (Window \ Retired) \cup {Entry(j) : j \in 1..Len(ds)}
<1> DEFINE n == Len(ds)
<1>0. /\ cfg_rob_entries \in Nat \ {0}
      /\ cfg_rob_entries <= ROB_N
      /\ ROB_N \in Nat
      /\ n_cmt \in Nat /\ n_cmt <= rob_cnt
      /\ rob_cnt \in Nat /\ rob_cnt <= cfg_rob_entries
      /\ rob_cnt + n <= cfg_rob_entries
  BY CommitScan, IfcAssumption DEF Ring
<1>1. /\ rob_head' = At(n_cmt)
      /\ rob_cnt' = rob_cnt + n - n_cmt
      /\ rob_tail' = Wrap(rob_tail + n)
      /\ rob_tail = Wrap(rob_head + rob_cnt)
  BY DEF RobCycle, RingExact
<1>2. Ring'
  BY <1>0, <1>1 DEF Ring, At, Wrap
<1>3. rob_tail' = Wrap(rob_head' + rob_cnt')
  BY <1>0, <1>1 DEF Ring, At, Wrap
<1>4. Retired \subseteq Window
  BY <1>0 DEF Retired, Window
<1>5. Window \subseteq RobIx
  BY <1>0 DEF Window, RobIx, At, Ring, Wrap
<1>6. \A j \in 1..n : Entry(j) = At(rob_cnt + j - 1)
  BY <1>0, <1>1 DEF Entry, At, Ring, Wrap
<1>7. ASSUME NEW j \in 1..n PROVE Entry(j) \in RobIx \ Window
  <2>1. Entry(j) \in RobIx
    BY <1>0, <1>1 DEF Entry, RobIx, Ring, Wrap
  <2>2. ASSUME NEW k \in 0..rob_cnt-1 PROVE At(k) # At(rob_cnt + j - 1)
    BY <1>0 DEF At, Ring, Wrap
  <2> QED BY <2>1, <2>2, <1>6 DEF Window
<1>8. \A i, j \in 1..n : i # j => Entry(i) # Entry(j)
  <2> SUFFICES ASSUME NEW i \in 1..n, NEW j \in 1..n, i # j
               PROVE  At(rob_cnt + i - 1) # At(rob_cnt + j - 1)
    BY <1>6
  <2> QED BY <1>0 DEF At, Ring, Wrap
<1>9. Window' = {At(k) : k \in n_cmt..rob_cnt+n-1}
  <2>1. \A k \in 0..rob_cnt'-1 : At(k)' = At(n_cmt + k)
    BY <1>0, <1>1 DEF At, Ring, Wrap
  <2>2. Window' = {At(n_cmt + k) : k \in 0..rob_cnt'-1}
    BY <2>1 DEF Window
  <2>3. \A k \in n_cmt..rob_cnt+n-1 : k - n_cmt \in 0..rob_cnt'-1 /\ n_cmt + (k - n_cmt) = k
    BY <1>0, <1>1
  <2>4. \A k \in 0..rob_cnt'-1 : n_cmt + k \in n_cmt..rob_cnt+n-1
    BY <1>0, <1>1
  <2> QED BY <2>2, <2>3, <2>4
<1>10. Window \ Retired = {At(k) : k \in n_cmt..rob_cnt-1}
  <2>1. \A k \in n_cmt..rob_cnt-1, h \in 0..n_cmt-1 : At(k) # At(h)
    BY <1>0 DEF At, Ring, Wrap
  <2>2. \A k \in 0..rob_cnt-1 : k \in n_cmt..rob_cnt-1 \/ k \in 0..n_cmt-1
    BY <1>0
  <2>3. \A k \in n_cmt..rob_cnt-1 : k \in 0..rob_cnt-1
    BY <1>0
  <2> QED BY <2>1, <2>2, <2>3 DEF Window, Retired
<1>11. {Entry(j) : j \in 1..n} = {At(k) : k \in rob_cnt..rob_cnt+n-1}
  <2>1. \A k \in rob_cnt..rob_cnt+n-1 : k - rob_cnt + 1 \in 1..n
                                         /\ rob_cnt + (k - rob_cnt + 1) - 1 = k
    BY <1>0
  <2>2. \A j \in 1..n : rob_cnt + j - 1 \in rob_cnt..rob_cnt+n-1
    BY <1>0
  <2> QED BY <2>1, <2>2, <1>6
<1>12. \A k : k \in n_cmt..rob_cnt+n-1 <=>
                k \in n_cmt..rob_cnt-1 \/ k \in rob_cnt..rob_cnt+n-1
  BY <1>0
<1>13. Window' = (Window \ Retired) \cup {Entry(j) : j \in 1..n}
  BY <1>9, <1>10, <1>11, <1>12
<1> QED BY <1>2, <1>3, <1>4, <1>5, <1>7, <1>8, <1>13

\* What the entries hold after the cycle.
LEMMA EntriesMove ==
  ASSUME Ring, RingExact,
         NEW ds, Len(ds) \in Nat, Len(ds) <= cfg_rob_entries - rob_cnt,
         NEW wb, RobCycle(ds, wb)
  PROVE  /\ \A i \in Window \ Retired : rob_ent'[i] = rob_ent[i]
         /\ \A j \in 1..Len(ds) : rob_ent'[Entry(j)] = ds[j]
         /\ \A i \in RobIx : \/ rob_ent'[i] \in {rob_ent[i], NoUop}
                             \/ \E j \in 1..Len(ds) : rob_ent'[i] = ds[j]
         /\ {i \in RobIx : rob_v'[i]} = Window'
<1> DEFINE n == Len(ds)
<1>1. ASSUME NEW i
      PROVE  /\ LaneOf(i, n) \in 0..n
             /\ LaneOf(i, n) # 0 => Entry(LaneOf(i, n)) = i
             /\ \A j \in 1..n : Entry(j) = i => LaneOf(i, n) # 0
  <2> DEFINE S == {j \in 1..n : Wrap(rob_tail + j - 1) = i}
  <2>1. S \in SUBSET Int /\ 0 \in Int /\ n \in Int /\ 0 <= n
        /\ \A x \in S : 0 < x /\ x <= n
    OBVIOUS
  <2>2. Max({0} \cup S) \in {0} \cup S /\ (Max({0} \cup S) = 0 <=> S = {})
    <3> HIDE DEF S
    <3> QED BY <2>1, GreatestOr
  <2>3. LaneOf(i, n) = Max({0} \cup S) /\ S = {j \in 1..n : Entry(j) = i}
    BY DEF LaneOf, Entry
  <2>4. LaneOf(i, n) \in {0} \cup S /\ (LaneOf(i, n) = 0 <=> S = {})
    <3> HIDE DEF S
    <3> QED BY <2>2, <2>3
  <2>5. LaneOf(i, n) # 0 => LaneOf(i, n) \in 1..n /\ Entry(LaneOf(i, n)) = i
    BY <2>3, <2>4
  <2>6. \A j \in 1..n : Entry(j) = i => LaneOf(i, n) # 0
    BY <2>3, <2>4
  <2>7. LaneOf(i, n) \in 0..n
    BY <2>3, <2>4
  <2> QED BY <2>5, <2>6, <2>7
<1>2. /\ Retired \subseteq Window
      /\ Window \subseteq RobIx
      /\ \A j \in 1..n : Entry(j) \in RobIx \ Window
      /\ \A i, j \in 1..n : i # j => Entry(i) # Entry(j)
      /\ Window' = (Window \ Retired) \cup {Entry(j) : j \in 1..n}
  BY WindowMoves
<1>3. \A i \in Window : LaneOf(i, n) = 0
  BY <1>1, <1>2
<1>4. \A j \in 1..n : LaneOf(Entry(j), n) = j
  BY <1>1, <1>2
<1>5. \A i \in RobIx :
        /\ rob_ent'[i] = IF LaneOf(i, n) # 0 THEN ds[LaneOf(i, n)]
                         ELSE IF i \in Retired THEN NoUop ELSE rob_ent[i]
        /\ rob_v'[i] = (LaneOf(i, n) # 0 \/ (rob_v[i] /\ i \notin Retired))
  BY DEF RobCycle, Retired
<1>6. \A i \in Window \ Retired : rob_ent'[i] = rob_ent[i]
  BY <1>2, <1>3, <1>5
<1>7. \A j \in 1..n : rob_ent'[Entry(j)] = ds[j]
  BY <1>2, <1>4, <1>5
<1>8. \A i \in RobIx : \/ rob_ent'[i] \in {rob_ent[i], NoUop}
                       \/ \E j \in 1..n : rob_ent'[i] = ds[j]
  BY <1>1, <1>5
<1>9. \A i \in RobIx : rob_v'[i] <=> i \in Window'
  <2>1. \A i \in RobIx : rob_v[i] <=> i \in Window
    BY DEF RingExact
  <2>2. \A i \in RobIx : LaneOf(i, n) # 0 <=> \E j \in 1..n : Entry(j) = i
    BY <1>1
  <2> QED BY <2>1, <2>2, <1>2, <1>5
<1>10. {i \in RobIx : rob_v'[i]} = Window'
  BY <1>9, <1>2
<1> QED BY <1>6, <1>7, <1>8, <1>10

----------------------------------------------------------------------------
(* The composition.                                                        *)

\* The uops presented to rename are the front of the decode queue.
LEMMA PresentedProperty ==
  ASSUME dq \in Seq(Duop)
  PROVE  /\ Presented \in Seq(Duop)
         /\ Len(Presented) = AtMost(Len(dq), W)
         /\ Len(Presented) \in Nat
         /\ \A j \in 1..Len(Presented) : Presented[j] \in Duop
<1>1. Len(dq) \in Nat /\ W \in Nat
  BY IfcAssumption
<1>2. AtMost(Len(dq), W) \in 0..Len(dq)
  BY <1>1 DEF AtMost
<1>3. Presented \in Seq(Duop) /\ Len(Presented) = AtMost(Len(dq), W)
  BY <1>1, <1>2 DEF Presented
<1> QED BY <1>1, <1>2, <1>3

\* The free list is a finite set: registers can be counted before they are offered.
LEMMA FreeCardinality ==
  ASSUME fl \in SUBSET Phys
  PROVE  Cardinality(Free) \in Nat
<1>1. IsFiniteSet(Phys)
  BY FS_Interval, IfcAssumption DEF Phys
<1>2. Free \in SUBSET Phys
  BY DEF Free
<1> QED BY <1>1, <1>2, FS_Subset, FS_CardinalityType

\* The partial-accept protocol: the number of uops that fetch drops from its
\* queue, that rename maps and that dispatch allocates are one number, though
\* each stage computes it from its own side; and it fits every resource.
LEMMA StagesAgree ==
  ASSUME TypeOK, NEW room \in 0..W
  PROVE  /\ n_sent(room) = n_out(room)
         /\ n_sent(room) = RnAccepts(room)
         /\ n_sent(room) \in 0..Len(Presented)
         /\ n_sent(room) <= Cardinality(Free)
         /\ n_sent(room) <= cfg_rob_entries - rob_cnt
<1>1. /\ Len(Presented) \in Nat
      /\ Cardinality(Free) \in Nat
      /\ W \in Nat
      /\ cfg_rob_entries \in Nat
      /\ rob_cnt \in 0..cfg_rob_entries
      /\ room \in Nat
  BY PresentedProperty, FreeCardinality, IfcAssumption DEF TypeOK
<1>2. rn_nready(room) \in Nat /\ rn_nready(room) <= cfg_rob_entries - rob_cnt
  BY <1>1 DEF rn_nready, rob_nfree, AtMost
<1> QED BY <1>1, <1>2 DEF n_sent, n_out, RnAccepts, n_xfer, n_ok, de_nready,
                          n_free, AtMost

\* Renaming an accepted lane yields a well-formed uop.
LEMMA RenamedType ==
  ASSUME TypeOK, NEW room \in 0..W, NEW j \in 1..n_sent(room)
  PROVE  /\ Renamed(Presented, j) \in Ruop
         /\ Renamed(Presented, j).dv => Renamed(Presented, j).arf # 0
         /\ Renamed(Presented, j).dv <=> NeedsPhys(Presented[j])
         /\ Renamed(Presented, j).dv =>
              Renamed(Presented, j).prf = NewReg(Presented, j)
<1> DEFINE b == Presented
           m == n_sent(room)
<1>1. b[j] \in Duop /\ m \in Nat /\ m <= Cardinality(Free) /\ j \in 1..m
  BY StagesAgree, PresentedProperty DEF TypeOK
<1>2. fl \in SUBSET Phys /\ rat \in [Arf -> Phys] /\ 0 \in Phys
  BY IfcAssumption DEF TypeOK, Phys
<1>3. \A i \in 1..m : NewReg(b, i) \in Phys
  <2> HIDE DEF m, b
  <2> QED BY <1>1, <1>2, NewRegProperty DEF Free
<1>4. Lookup(b, j, b[j].s) \in Phys
  <2>1. b[j].s \in Arf
    BY <1>1 DEF Duop
  <2>2. LastWriter(b, j, b[j].s) \in 0..j-1
    BY <1>1, LastWriterProperty
  <2> QED BY <2>1, <2>2, <1>1, <1>2, <1>3 DEF Lookup
<1>5. /\ b[j].wp \in BOOLEAN /\ b[j].dv \in BOOLEAN
      /\ b[j].d \in Arf /\ b[j].s \in Arf
  BY <1>1 DEF Duop
<1>6. NeedsPhys(b[j]) \in BOOLEAN
  BY <1>5 DEF NeedsPhys
<1>7. Renamed(b, j) \in Ruop
  BY <1>1, <1>2, <1>3, <1>4, <1>5, <1>6 DEF Renamed, Ruop
<1> QED BY <1>7 DEF Renamed, NeedsPhys

\* The retirements of a cycle, seen from the entries they come from.
LEMMA CommitsProperty ==
  ASSUME TypeOK, HoldersWrite
  PROVE  /\ Commits \in Seq(Commit)
         /\ Len(Commits) = n_cmt
         /\ Writers(Commits) = {k \in 1..n_cmt : rob_ent[At(k-1)].dv}
         /\ \A k \in 1..n_cmt : Commits[k].prf = rob_ent[At(k-1)].prf
         /\ \A k \in 1..n_cmt : At(k-1) \in Window
         /\ Used(Commits) = {rob_ent[i].prf : i \in Retired \cap LiveWriters}
<1>0. /\ rob_cnt \in 0..cfg_rob_entries /\ rob_head \in 0..cfg_rob_entries-1
      /\ cfg_rob_entries \in Nat /\ cfg_rob_entries <= ROB_N /\ ROB_N \in Nat
      /\ n_cmt \in Nat /\ n_cmt <= rob_cnt
      /\ rob_ent \in [RobIx -> Ruop]
  BY CommitScan, IfcAssumption DEF TypeOK
<1>1. \A k \in 1..n_cmt : At(k-1) \in Window /\ At(k-1) \in Retired
                           /\ At(k-1) \in RobIx
  <2> SUFFICES ASSUME NEW k \in 1..n_cmt
               PROVE  At(k-1) \in Window /\ At(k-1) \in Retired /\ At(k-1) \in RobIx
    OBVIOUS
  <2>1. k-1 \in 0..n_cmt-1 /\ k-1 \in 0..rob_cnt-1
    BY <1>0
  <2>2. At(k-1) \in RobIx
    BY <1>0, <2>1 DEF At, Wrap, RobIx
  <2> QED BY <2>1, <2>2 DEF Window, Retired
<1>2. \A k \in 1..n_cmt : rob_ent[At(k-1)] \in Ruop
  BY <1>0, <1>1
<1>3. /\ Len(Commits) = n_cmt
      /\ \A k \in 1..n_cmt : Commits[k] = [dv  |-> rob_ent[At(k-1)].dv,
                                           arf |-> rob_ent[At(k-1)].arf,
                                           prf |-> rob_ent[At(k-1)].prf]
  BY <1>0 DEF Commits
<1>4. \A k \in 1..n_cmt : Commits[k] \in Commit
  BY <1>2, <1>3 DEF Commit, Ruop
<1>5. Commits \in Seq(Commit)
  BY <1>0, <1>4, <1>3 DEF Commits
<1>6. Writers(Commits) = {k \in 1..n_cmt : rob_ent[At(k-1)].dv}
  BY <1>1, <1>2, <1>3 DEF Writers, Writes, HoldersWrite
<1>7. Retired = {At(k-1) : k \in 1..n_cmt}
  <2>1. \A k \in 0..n_cmt-1 : k+1 \in 1..n_cmt /\ At(k) = At((k+1)-1)
    BY <1>0
  <2>2. \A k \in 1..n_cmt : k-1 \in 0..n_cmt-1
    BY <1>0
  <2> QED BY <2>1, <2>2 DEF Retired
<1>8. Used(Commits) = {rob_ent[i].prf : i \in Retired \cap LiveWriters}
  <2>1. ASSUME NEW k \in Writers(Commits)
        PROVE  /\ At(k-1) \in Retired \cap LiveWriters
               /\ Commits[k].prf = rob_ent[At(k-1)].prf
    BY <1>1, <1>3, <1>6 DEF LiveWriters
  <2>2. ASSUME NEW i \in Retired \cap LiveWriters
        PROVE  \E k \in Writers(Commits) : rob_ent[i].prf = Commits[k].prf
    BY <1>3, <1>6, <1>7 DEF LiveWriters
  <2> QED BY <2>1, <2>2 DEF Used
<1> QED BY <1>1, <1>3, <1>5, <1>6, <1>8

\* What the retirements of a cycle do to the committed state, whether or not
\* the cycle flushes.
LEMMA CommittedMoves ==
  ASSUME IInv
  PROVE  LET New == {crat_nxt(Commits)[a] : a \in Arf \ {0}}
         IN  /\ crat_nxt(Commits) \in [Arf -> Phys]
             /\ crat_nxt(Commits)[0] = 0
             /\ \A x, y \in Arf : x # y => crat_nxt(Commits)[x] # crat_nxt(Commits)[y]
             /\ Freed(Commits) \cap New = {}
             /\ Freed(Commits) \cup New = Committed \cup Used(Commits)
             /\ Committed \cup Used(Commits) \subseteq Phys \ {0}
             /\ cfl_nxt(Commits) = (Phys \ {0}) \ New
             /\ Used(Commits) \subseteq InFlight
<1> DEFINE c == Commits
           New == {crat_nxt(c)[a] : a \in Arf \ {0}}
<1>1. /\ crat \in [Arf -> Phys] /\ crat[0] = 0 /\ 0 \in Arf
      /\ \A x, y \in Arf : x # y => crat[x] # crat[y]
      /\ rob_ent \in [RobIx -> Ruop]
      /\ Window \subseteq RobIx
  BY IfcAssumption DEF IInv, TypeOK, NoAliasing, RingExact, Arf
<1>2. /\ c \in Seq(Commit)
      /\ Writers(c) = {k \in 1..n_cmt : rob_ent[At(k-1)].dv}
      /\ \A k \in 1..n_cmt : c[k].prf = rob_ent[At(k-1)].prf /\ At(k-1) \in Window
      /\ Used(c) = {rob_ent[i].prf : i \in Retired \cap LiveWriters}
  BY CommitsProperty DEF IInv
<1>3. \A i, j \in Writers(c) : i # j => c[i].prf # c[j].prf
  <2> SUFFICES ASSUME NEW i \in Writers(c), NEW j \in Writers(c), i # j
               PROVE  At(i-1) # At(j-1)
    BY <1>2 DEF IInv, NoAliasing, LiveWriters
  <2>1. /\ n_cmt \in Nat /\ n_cmt <= rob_cnt /\ rob_cnt \in 0..cfg_rob_entries
        /\ rob_head \in 0..cfg_rob_entries-1 /\ cfg_rob_entries \in Nat
        /\ i \in 1..n_cmt /\ j \in 1..n_cmt
    BY <1>2, CommitScan, IfcAssumption DEF IInv, TypeOK
  <2> QED BY <2>1 DEF At, Wrap
<1>4. \A j \in Writers(c), x \in Arf : c[j].prf # crat[x]
  <2> SUFFICES ASSUME NEW j \in Writers(c) PROVE c[j].prf \in InFlight
    BY DEF IInv, NoAliasing
  <2> QED BY <1>2 DEF InFlight, LiveWriters
<1>5. /\ crat_nxt(c) \in [Arf -> Phys]
      /\ crat_nxt(c)[0] = 0
      /\ \A x, y \in Arf : x # y => crat_nxt(c)[x] # crat_nxt(c)[y]
      /\ Freed(c) \cap New = {}
      /\ Freed(c) \cup New = Committed \cup Used(c)
  <2> HIDE DEF c
  <2> QED BY <1>1, <1>2, <1>3, <1>4, CommitMoves
<1>6. Used(c) \subseteq InFlight
  BY <1>2 DEF InFlight
<1>7. InFlight \subseteq Phys \ {0}
  <2>1. \A i \in LiveWriters : rob_ent[i].prf \in Phys
    BY <1>1 DEF LiveWriters, Ruop
  <2>2. 0 \notin InFlight
    BY <1>1 DEF IInv, NoAliasing
  <2> QED BY <2>1, <2>2 DEF InFlight
<1>8. Committed \subseteq Phys \ {0}
  BY <1>1 DEF Committed
<1>9. cfl_nxt(c) = (Phys \ {0}) \ New
  <2>1. cfl = (Phys \ {0}) \ Committed
    BY DEF IInv, CommittedFreeListExact
  <2> HIDE DEF New, c
  <2> QED BY <2>1, <1>5, <1>6, <1>7, <1>8 DEF cfl_nxt
<1> QED BY <1>5, <1>6, <1>7, <1>8, <1>9

\* A flush restores a state in which the only registers in use are committed.
LEMMA FlushPreserves ==
  ASSUME IInv, Flush
  PROVE  IInv'
<1> DEFINE New == {crat_nxt(Commits)[a] : a \in Arf \ {0}}
<1>1. /\ crat' = crat_nxt(Commits) /\ rat' = crat_nxt(Commits)
      /\ cfl' = cfl_nxt(Commits) /\ fl' = cfl_nxt(Commits)
      /\ rob_v' = [i \in RobIx |-> FALSE] /\ rob_done' = [i \in RobIx |-> FALSE]
      /\ rob_ent' = [i \in RobIx |-> NoUop]
      /\ rob_head' = 0 /\ rob_cnt' = 0 /\ rob_tail' = 0
      /\ dq' = <<>>
  BY DEF Flush, RenameFlush, RobFlush
<1>2. /\ crat' \in [Arf -> Phys] /\ crat'[0] = 0
      /\ \A x, y \in Arf : x # y => crat'[x] # crat'[y]
      /\ cfl' = (Phys \ {0}) \ New
      /\ fl' = cfl' /\ rat' = crat'
  BY <1>1, CommittedMoves
<1>3. Window' = {} /\ LiveWriters' = {} /\ InFlight' = {}
  <2>1. Window' = {}
    BY <1>1 DEF Window
  <2>2. LiveWriters' = {}
    BY <2>1 DEF LiveWriters
  <2> QED BY <2>1, <2>2 DEF InFlight
<1>4. Committed' = New
  BY <1>1 DEF Committed
<1>5. TypeOK'
  <2>1. NoUop \in Ruop
    BY IfcAssumption DEF NoUop, Ruop, Arf, Phys
  <2>2. /\ rob_v' \in [RobIx -> BOOLEAN] /\ rob_done' \in [RobIx -> BOOLEAN]
        /\ rob_ent' \in [RobIx -> Ruop]
    BY <1>1, <2>1
  <2>3. /\ rob_head' \in 0..cfg_rob_entries-1 /\ rob_tail' \in 0..cfg_rob_entries-1
        /\ rob_cnt' \in 0..cfg_rob_entries
    BY <1>1, IfcAssumption
  <2>4. dq' \in Seq(Duop) /\ Len(dq') <= DQ_N
    BY <1>1, IfcAssumption
  <2>5. fl' \subseteq Phys /\ cfl' \subseteq Phys
    BY <1>2
  <2> QED BY <1>2, <2>2, <2>3, <2>4, <2>5 DEF TypeOK
<1>6. RingExact'
  <2>1. rob_tail' = Wrap(rob_head' + rob_cnt')
    BY <1>1, IfcAssumption DEF Wrap
  <2>2. {i \in RobIx : rob_v'[i]} = {}
    BY <1>1
  <2> QED BY <2>1, <2>2, <1>3 DEF RingExact, Wrap
<1>7. HoldersWrite' /\ NoAliasing'
  BY <1>2, <1>3 DEF HoldersWrite, NoAliasing
<1>8. FreeListExact' /\ CommittedFreeListExact'
  BY <1>2, <1>3, <1>4 DEF FreeListExact, CommittedFreeListExact
<1> QED BY <1>5, <1>6, <1>7, <1>8 DEF IInv

\* What a cycle without flush does to the ring, the live writers and the
\* registers they hold.
LEMMA AdvanceMoves ==
  ASSUME IInv, NEW room \in 0..W, NEW wb, NEW f, Advance(room, wb, f)
  PROVE  LET b == Presented
             m == n_sent(room)
             Stay == LiveWriters \ Retired
             Taken == {j \in 1..m : NeedsPhys(b[j])}
         IN  /\ Ring' /\ RingExact'
             /\ Window' \subseteq RobIx
             /\ LiveWriters' = Stay \cup {Entry(j) : j \in Taken}
             /\ \A i \in Stay : rob_ent'[i] = rob_ent[i] /\ i \notin {Entry(j) : j \in Taken}
             /\ \A j \in Taken : rob_ent'[Entry(j)].prf = NewReg(b, j)
             /\ \A i, j \in Taken : i # j => NewReg(b, i) # NewReg(b, j)
             /\ \A j \in Taken : NewReg(b, j) \in Free
             /\ HoldersWrite'
             /\ rob_ent' \in [RobIx -> Ruop]
             /\ Alloc(b, m) = {NewReg(b, j) : j \in Taken}
<1> DEFINE b == Presented
           m == n_sent(room)
           ds == Dispatched(room)
           Stay == LiveWriters \ Retired
           Taken == {j \in 1..m : NeedsPhys(b[j])}
<1>1. /\ TypeOK /\ Ring /\ RingExact /\ HoldersWrite
      /\ RobCycle(ds, wb)
      /\ fl \in SUBSET Phys
  BY DEF IInv, TypeOK, Ring, Advance
<1>2. /\ m \in Nat
      /\ m <= Cardinality(Free)
      /\ m <= cfg_rob_entries - rob_cnt
  BY <1>1, StagesAgree, PresentedProperty DEF TypeOK
<1>3. Len(ds) = m /\ \A j \in 1..m : ds[j] = Renamed(b, j)
  BY <1>2 DEF Dispatched
<1>4. \A j \in 1..m : /\ ds[j] \in Ruop
                      /\ ds[j].dv => ds[j].arf # 0
                      /\ ds[j].dv <=> NeedsPhys(b[j])
                      /\ ds[j].dv => ds[j].prf = NewReg(b, j)
  BY <1>1, <1>3, RenamedType
<1> HIDE DEF b, m, ds
<1>5. /\ Ring'
      /\ rob_tail' = Wrap(rob_head' + rob_cnt')
      /\ Retired \subseteq Window
      /\ Window \subseteq RobIx
      /\ \A j \in 1..m : Entry(j) \in RobIx \ Window
      /\ \A i, j \in 1..m : i # j => Entry(i) # Entry(j)
      /\ Window' = (Window \ Retired) \cup {Entry(j) : j \in 1..m}
  BY <1>1, <1>2, <1>3, WindowMoves
<1>6. /\ \A i \in Window \ Retired : rob_ent'[i] = rob_ent[i]
      /\ \A j \in 1..m : rob_ent'[Entry(j)] = ds[j]
      /\ \A i \in RobIx : \/ rob_ent'[i] \in {rob_ent[i], NoUop}
                          \/ \E j \in 1..m : rob_ent'[i] = ds[j]
      /\ {i \in RobIx : rob_v'[i]} = Window'
  BY <1>1, <1>2, <1>3, EntriesMove
<1>7. RingExact'
  BY <1>5, <1>6 DEF RingExact, Wrap
<1>8. Window' \subseteq RobIx
  BY <1>5
<1>9. rob_ent' \in [RobIx -> Ruop]
  <2>1. NoUop \in Ruop
    BY IfcAssumption DEF NoUop, Ruop, Arf, Phys
  <2>2. \A i \in RobIx : rob_ent'[i] \in Ruop
    BY <2>1, <1>1, <1>4, <1>6 DEF TypeOK
  <2> QED BY <2>2, <1>1 DEF RobCycle
<1>10. LiveWriters' = Stay \cup {Entry(j) : j \in Taken}
  <2>1. LiveWriters' = {i \in Window' : rob_ent'[i].dv}
    BY DEF LiveWriters
  <2>2. \A i \in Window \ Retired : rob_ent'[i].dv <=> i \in Stay
    BY <1>6 DEF LiveWriters
  <2>3. \A j \in 1..m : rob_ent'[Entry(j)].dv <=> NeedsPhys(b[j])
    BY <1>4, <1>6
  <2>4. Stay \subseteq Window \ Retired
    BY DEF LiveWriters
  <2> QED BY <2>1, <2>2, <2>3, <2>4, <1>5
<1>11. ASSUME NEW i \in Stay
       PROVE  rob_ent'[i] = rob_ent[i] /\ i \notin {Entry(j) : j \in Taken}
  BY <1>5, <1>6 DEF LiveWriters
<1>12. \A j \in Taken : rob_ent'[Entry(j)].prf = NewReg(b, j)
  BY <1>4, <1>6
<1>13. /\ \A i, j \in Taken : i # j => NewReg(b, i) # NewReg(b, j)
       /\ \A j \in Taken : NewReg(b, j) \in Free
  BY <1>1, <1>2, NewRegProperty
<1>14. HoldersWrite'
  <2>1. \A i \in LiveWriters' : rob_ent'[i].arf # 0
    <3>1. \A i \in Stay : rob_ent'[i].arf # 0
      BY <1>1, <1>11 DEF HoldersWrite, LiveWriters
    <3>2. \A j \in Taken : rob_ent'[Entry(j)].arf # 0
      BY <1>4, <1>6
    <3> QED BY <3>1, <3>2, <1>10
  <2> QED BY <2>1 DEF HoldersWrite, LiveWriters
<1>15. Alloc(b, m) = {NewReg(b, j) : j \in Taken}
  BY DEF Alloc
<1> QED BY <1>5, <1>7, <1>8, <1>9, <1>10, <1>11, <1>12, <1>13, <1>14, <1>15
        DEF b, m

\* After a cycle without flush every register of the stages has its kind.
LEMMA AdvanceTypes ==
  ASSUME IInv, NEW room \in 0..W, NEW wb, NEW f \in Fetchable(room),
         Advance(room, wb, f)
  PROVE  TypeOK'
<1> DEFINE b == Presented
           m == n_sent(room)
<1>1. TypeOK /\ fl \in SUBSET Phys
  BY DEF IInv, TypeOK
<1>2. m \in Nat /\ m \in 0..Len(b) /\ m <= Cardinality(Free) /\ n_out(room) = m
      /\ RnAccepts(room) = m
  BY <1>1, StagesAgree, PresentedProperty DEF TypeOK
<1>3. /\ rob_ent' \in [RobIx -> Ruop]
      /\ Ring'
      /\ Alloc(b, m) \subseteq Free
  BY AdvanceMoves
<1>4. /\ crat' \in [Arf -> Phys]
      /\ Freed(Commits) \subseteq Phys
      /\ cfl' \subseteq Phys
  BY CommittedMoves DEF Advance, RenameCycle
<1>5. fl' \subseteq Phys
  BY <1>1, <1>4 DEF Advance, RenameCycle
<1>6. rat' \in [Arf -> Phys]
  <2> SUFFICES ASSUME NEW a \in Arf
               PROVE  Lookup(b, m + 1, a) \in Phys /\ rat[0] \in Phys
    BY <1>2 DEF Advance, RenameCycle
  <2>1. \A i \in 1..m : NewReg(b, i) \in Phys
    <3> HIDE DEF b, m
    <3> QED BY <1>1, <1>2, NewRegProperty DEF Free
  <2>2. LastWriter(b, m + 1, a) \in 0..m
    <3> HIDE DEF b, m
    <3>1. m + 1 \in Nat \ {0} /\ (m + 1) - 1 = m
      BY <1>2
    <3> QED BY <3>1, LastWriterProperty
  <2>3. rat \in [Arf -> Phys] /\ 0 \in Arf
    BY <1>1, IfcAssumption DEF TypeOK, Arf
  <2> HIDE DEF b, m
  <2> QED BY <2>1, <2>2, <2>3, <1>2 DEF Lookup
<1>7. rob_v' \in [RobIx -> BOOLEAN] /\ rob_done' \in [RobIx -> BOOLEAN]
  <2>1. \A i, n : (LaneOf(i, n) # 0) \in BOOLEAN
    OBVIOUS
  <2> QED BY <1>1 DEF Advance, RobCycle, TypeOK
<1>8. dq' \in Seq(Duop) /\ Len(dq') <= DQ_N
  <2>1. /\ dq \in Seq(Duop) /\ Len(dq) \in Nat /\ Len(dq) <= DQ_N
        /\ DQ_N \in Nat /\ W \in Nat
        /\ m <= Len(dq)
    <3>1. Len(b) = AtMost(Len(dq), W)
      BY <1>1, PresentedProperty DEF TypeOK
    <3> QED BY <3>1, <1>1, <1>2, IfcAssumption DEF TypeOK, AtMost
  <2>2. PICK k \in 0..AtMost(DQ_N - Len(dq) + m, W) : f \in [1..k -> Uops]
    BY <1>2 DEF Fetchable
  <2>3. k \in Nat /\ k <= DQ_N - Len(dq) + m
    BY <2>1, <1>2, <2>2 DEF AtMost
  <2>4. f \in Seq(Duop) /\ Len(f) = k
    <3>1. f \in [1..k -> Duop]
      BY <2>2, UopsAssumption
    <3> QED BY <3>1, <2>3
  <2> DEFINE rest == SubSeq(dq, m + 1, Len(dq))
  <2>5. rest \in Seq(Duop) /\ Len(rest) = Len(dq) - m
    <3>1. PICK a, c : a = Len(dq) /\ c = m /\ a \in Nat /\ c \in 0..a
      <4>1. m \in 0..Len(dq)
        BY <2>1, <1>2
      <4> QED BY <2>1, <4>1
    <3>2. SubSeq(dq, c + 1, a) \in Seq(Duop) /\ Len(SubSeq(dq, c + 1, a)) = a - c
      BY <2>1, <3>1, Parted
    <3> QED BY <3>1, <3>2
  <2>6. dq' = rest \o f
    BY <1>2 DEF Advance
  <2>7. rest \o f \in Seq(Duop) /\ Len(rest \o f) = Len(dq) - m + k
    <3> HIDE DEF rest
    <3>1. Len(rest) \in Nat /\ Len(f) \in Nat
      BY <2>4, <2>5
    <3>2. rest \o f \in Seq(Duop) /\ Len(rest \o f) = Len(rest) + Len(f)
      BY <2>4, <2>5, ConcatProperties
    <3> QED BY <2>4, <2>5, <3>2
  <2> HIDE DEF rest
  <2>8. Len(dq) \in Nat /\ m \in Nat /\ DQ_N \in Nat
    BY <2>1, <1>2, IfcAssumption DEF TypeOK
  <2>9. Len(dq) - m + k <= DQ_N
    BY <2>3, <2>8
  <2> QED BY <2>6, <2>7, <2>9
<1> QED BY <1>3, <1>4, <1>5, <1>6, <1>7, <1>8 DEF TypeOK, Ring

\* A cycle without flush preserves the inductive invariant.
LEMMA AdvancePreserves ==
  ASSUME IInv, NEW room \in 0..W, NEW wb, NEW f \in Fetchable(room),
         Advance(room, wb, f)
  PROVE  IInv'
<1> DEFINE c == Commits
           b == Presented
           m == n_sent(room)
           New == {crat_nxt(c)[a] : a \in Arf \ {0}}
           Stay == LiveWriters \ Retired
           Held == {rob_ent[i].prf : i \in Stay}
           Taken == {j \in 1..m : NeedsPhys(b[j])}
<1>1. /\ crat' = crat_nxt(c) /\ cfl' = cfl_nxt(c)
      /\ fl' = (fl \ Alloc(b, m)) \cup Freed(c)
  BY StagesAgree DEF Advance, RenameCycle, IInv
<1>2. /\ crat' \in [Arf -> Phys] /\ crat'[0] = 0
      /\ \A x, y \in Arf : x # y => crat'[x] # crat'[y]
      /\ Freed(c) \cap New = {}
      /\ Freed(c) \cup New = Committed \cup Used(c)
      /\ Committed \cup Used(c) \subseteq Phys \ {0}
      /\ cfl' = (Phys \ {0}) \ New
      /\ Used(c) \subseteq InFlight
  BY <1>1, CommittedMoves
<1>3. Committed' = New
  BY <1>1 DEF Committed
<1>4. /\ RingExact' /\ HoldersWrite'
      /\ LiveWriters' = Stay \cup {Entry(j) : j \in Taken}
      /\ \A i \in Stay : rob_ent'[i] = rob_ent[i]
      /\ \A j \in Taken : rob_ent'[Entry(j)].prf = NewReg(b, j)
      /\ \A i, j \in Taken : i # j => NewReg(b, i) # NewReg(b, j)
      /\ \A j \in Taken : NewReg(b, j) \in Free
      /\ Alloc(b, m) = {NewReg(b, j) : j \in Taken}
  BY AdvanceMoves
<1>5. Used(c) = {rob_ent[i].prf : i \in Retired \cap LiveWriters}
  BY CommitsProperty DEF IInv
<1> HIDE DEF c, b, m
<1>6. /\ InFlight = Used(c) \cup Held
      /\ Used(c) \cap Held = {}
  <2>1. InFlight = Used(c) \cup Held
    BY <1>5 DEF InFlight
  <2>2. Used(c) \cap Held = {}
    BY <1>5 DEF IInv, NoAliasing
  <2> QED BY <2>1, <2>2
<1>7. InFlight' = Held \cup Alloc(b, m)
  <2>1. InFlight' = {rob_ent'[i].prf : i \in LiveWriters'}
    BY DEF InFlight
  <2>2. \A i \in Stay : rob_ent'[i].prf = rob_ent[i].prf
    BY <1>4
  <2> QED BY <2>1, <2>2, <1>4
<1>8. /\ Alloc(b, m) \subseteq fl \ {0}
      /\ fl = (Phys \ {0}) \ (Committed \cup InFlight)
      /\ InFlight \cap {crat[a] : a \in Arf} = {}
  BY <1>4 DEF Free, IInv, FreeListExact, NoAliasing
<1>9. Held \cap Committed = {} /\ 0 \notin Held /\ Held \subseteq Phys
  <2>1. 0 \in Arf /\ crat[0] = 0
    BY IfcAssumption DEF Arf, IInv, NoAliasing
  <2>2. Committed \subseteq {crat[a] : a \in Arf}
    BY DEF Committed
  <2>3. Held \subseteq Phys
    <3>1. \A i \in Stay : rob_ent[i] \in Ruop
      BY DEF LiveWriters, IInv, TypeOK, RingExact
    <3> QED BY <3>1 DEF Ruop
  <2> QED BY <2>1, <2>2, <2>3, <1>6, <1>8
<1>10. FreeListExact'
  <2>1. fl' = (Phys \ {0}) \ (New \cup Held \cup Alloc(b, m))
    <3> HIDE DEF New, Held, Stay, Taken
    <3> QED BY <1>1, <1>2, <1>6, <1>8, <1>9
  <2> QED BY <2>1, <1>3, <1>7 DEF FreeListExact
<1>11. CommittedFreeListExact'
  BY <1>2, <1>3 DEF CommittedFreeListExact
<1>12. NoAliasing'
  <2>1. ASSUME NEW i \in LiveWriters', NEW j \in LiveWriters', i # j
        PROVE  rob_ent'[i].prf # rob_ent'[j].prf
    <3>1. \A x, y \in Stay : x # y => rob_ent'[x].prf # rob_ent'[y].prf
      BY <1>4 DEF IInv, NoAliasing
    <3>2. \A x, y \in Taken : x # y => rob_ent'[Entry(x)].prf # rob_ent'[Entry(y)].prf
      BY <1>4
    <3>3. \A x \in Stay, y \in Taken : rob_ent'[x].prf # rob_ent'[Entry(y)].prf
      <4>1. \A x \in Stay : rob_ent'[x].prf \in InFlight
        BY <1>4 DEF InFlight
      <4>2. \A y \in Taken : rob_ent'[Entry(y)].prf \notin InFlight
        BY <1>4, <1>8
      <4> QED BY <4>1, <4>2
    <3> QED BY <2>1, <3>1, <3>2, <3>3, <1>4
  <2>2. InFlight' \cap {crat'[a] : a \in Arf} = {}
    <3>1. {crat'[a] : a \in Arf} = New \cup {0}
      BY <1>1, <1>2, IfcAssumption DEF Arf
    <3> HIDE DEF New, Held, Stay, Taken
    <3> QED BY <3>1, <1>2, <1>6, <1>7, <1>8, <1>9
  <2> QED BY <2>1, <2>2, <1>2 DEF NoAliasing
<1>13. TypeOK'
  BY AdvanceTypes
<1> QED BY <1>4, <1>10, <1>11, <1>12, <1>13 DEF IInv

\* Reset establishes the inductive invariant.
LEMMA InitEstablishes == Init => IInv
<1> SUFFICES ASSUME Init PROVE IInv
  OBVIOUS
<1>1. /\ rat = [a \in Arf |-> a] /\ crat = [a \in Arf |-> a]
      /\ fl = Phys \ Arf /\ cfl = Phys \ Arf
      /\ rob_v = [i \in RobIx |-> FALSE] /\ rob_done = [i \in RobIx |-> FALSE]
      /\ rob_ent = [i \in RobIx |-> NoUop]
      /\ rob_head = 0 /\ rob_cnt = 0 /\ rob_tail = 0 /\ dq = <<>>
  BY DEF Init, RenameInit, RobInit
<1>2. Window = {} /\ LiveWriters = {} /\ InFlight = {}
  <2>1. Window = {}
    BY <1>1 DEF Window
  <2>2. LiveWriters = {}
    BY <2>1 DEF LiveWriters
  <2> QED BY <2>1, <2>2 DEF InFlight
<1>3. Committed = Arf \ {0} /\ 0 \in Arf /\ Arf \subseteq Phys
  BY <1>1, IfcAssumption DEF Committed, Arf, Phys
<1>4. TypeOK
  <2>1. NoUop \in Ruop
    BY IfcAssumption DEF NoUop, Ruop, Arf, Phys
  <2> QED BY <1>1, <1>3, <2>1, IfcAssumption DEF TypeOK
<1>5. RingExact
  BY <1>1, <1>2, IfcAssumption DEF RingExact, Wrap
<1>6. HoldersWrite /\ NoAliasing
  BY <1>1, <1>2, <1>3 DEF HoldersWrite, NoAliasing
<1>7. FreeListExact /\ CommittedFreeListExact
  BY <1>1, <1>2, <1>3 DEF FreeListExact, CommittedFreeListExact
<1> QED BY <1>4, <1>5, <1>6, <1>7 DEF IInv

\* A step that changes nothing preserves the inductive invariant.
LEMMA StutterPreserves ==
  ASSUME IInv, UNCHANGED vars
  PROVE  IInv'
<1>1. /\ rat' = rat /\ fl' = fl /\ crat' = crat /\ cfl' = cfl /\ dq' = dq
      /\ rob_v' = rob_v /\ rob_done' = rob_done /\ rob_ent' = rob_ent
      /\ rob_head' = rob_head /\ rob_cnt' = rob_cnt /\ rob_tail' = rob_tail
  BY DEF vars, renameVars, robVars
<1>2. Window' = Window
  BY <1>1 DEF Window, At
<1>3. LiveWriters' = LiveWriters /\ InFlight' = InFlight /\ Committed' = Committed
  BY <1>1, <1>2 DEF LiveWriters, InFlight, Committed
<1> QED BY <1>1, <1>2, <1>3
        DEF IInv, TypeOK, RingExact, HoldersWrite, NoAliasing, FreeListExact,
            CommittedFreeListExact, Wrap

\* The inductive invariant: the ring of two modules stays one ring, and the
\* accounting of physical registers stays exact through partial accepts,
\* retirements of several uops at once and flushes.
THEOREM Invariance == Spec => []IInv
<1>1. IInv /\ [Next]_vars => IInv'
  <2> SUFFICES ASSUME IInv, [Next]_vars PROVE IInv'
    OBVIOUS
  <2>1. ASSUME NEW room \in 0..W, NEW wb \in Writebacks, NEW f \in Fetchable(room),
               Advance(room, wb, f)
        PROVE  IInv'
    BY <2>1, AdvancePreserves
  <2>2. CASE Flush
    BY <2>2, FlushPreserves
  <2>3. CASE UNCHANGED vars
    BY <2>3, StutterPreserves
  <2> QED BY <2>1, <2>2, <2>3 DEF Next
<1> QED BY <1>1, InitEstablishes, PTL DEF Spec

\* Every register of the commit path holds a value of its width, always.
THEOREM TypeCorrect == Spec => []TypeOK
BY Invariance, PTL DEF IInv

\* be_rob and be_dispatch never disagree on which entries are in use.
THEOREM RingStaysExact == Spec => []RingExact
BY Invariance, PTL DEF IInv

\* No physical register leaks or is handed out twice, for every number of
\* lanes, entries and registers.
THEOREM FreeListStaysExact == Spec => []FreeListExact
BY Invariance, PTL DEF IInv

\* What a flush restores is always exactly the free list of the retired state.
THEOREM CommittedFreeListStaysExact == Spec => []CommittedFreeListExact
BY Invariance, PTL DEF IInv

\* Live uops and architectural registers never share a physical register.
THEOREM NeverAliases == Spec => []NoAliasing
BY Invariance, PTL DEF IInv

----------------------------------------------------------------------------
(* The mapping that a window e of uops and a table t give a register a, as *)
(* the uop at place k sees it.                                             *)

WritesAt(e, m, a)    == e[m].dv /\ e[m].arf = a
Youngest(e, k, a)    == Max({-1} \cup {m \in 0..k-1 : WritesAt(e, m, a)})
Mapping(e, t, k, a)  ==
  IF Youngest(e, k, a) = -1 THEN t[a] ELSE e[Youngest(e, k, a)].prf

\* The youngest writer below k is a writer that no other below k is younger than.
LEMMA YoungestProperty ==
  ASSUME NEW e, NEW k \in Nat, NEW a
  PROVE  /\ Youngest(e, k, a) \in -1..k-1
         /\ Youngest(e, k, a) # -1 => WritesAt(e, Youngest(e, k, a), a)
         /\ \A m \in 0..k-1 : WritesAt(e, m, a) => m <= Youngest(e, k, a)
<1> DEFINE z == -1
           S == {m \in 0..k-1 : WritesAt(e, m, a)}
<1>1. z \in Int /\ k \in Int /\ z <= k /\ S \in SUBSET Int
  OBVIOUS
<1>2. \A x \in S : z < x /\ x <= k
  OBVIOUS
<1>3. /\ z = -1
      /\ \A m : m \in S <=> m \in 0..k-1 /\ WritesAt(e, m, a)
  OBVIOUS
<1>4. Youngest(e, k, a) = Max({z} \cup S)
  BY DEF Youngest
<1> HIDE DEF z, S
<1>5. /\ Max({z} \cup S) \in {z} \cup S
      /\ \A x \in S : x <= Max({z} \cup S)
  BY <1>1, <1>2, GreatestOr
<1> QED BY <1>3, <1>4, <1>5

\* A writer that no other below k is younger than decides the mapping.
LEMMA MappingOfWriter ==
  ASSUME NEW e, NEW t, NEW k \in Nat, NEW a, NEW y \in 0..k-1,
         WritesAt(e, y, a), \A m \in y+1..k-1 : ~WritesAt(e, m, a)
  PROVE  Mapping(e, t, k, a) = e[y].prf
<1> DEFINE u == Youngest(e, k, a)
<1>1. /\ u \in -1..k-1
      /\ u # -1 => WritesAt(e, u, a)
      /\ \A m \in 0..k-1 : WritesAt(e, m, a) => m <= u
  BY YoungestProperty
<1>2. u # -1 => Mapping(e, t, k, a) = e[u].prf
  BY DEF Mapping
<1> HIDE DEF u
<1>3. u = y
  BY <1>1
<1> QED BY <1>2, <1>3

\* Without a writer below k the table does.
LEMMA MappingOfNone ==
  ASSUME NEW e, NEW t, NEW k \in Nat, NEW a, \A m \in 0..k-1 : ~WritesAt(e, m, a)
  PROVE  Mapping(e, t, k, a) = t[a]
<1> DEFINE u == Youngest(e, k, a)
<1>1. u \in -1..k-1 /\ (u # -1 => WritesAt(e, u, a))
  BY YoungestProperty
<1>2. u = -1 => Mapping(e, t, k, a) = t[a]
  BY DEF Mapping
<1> HIDE DEF u
<1> QED BY <1>1, <1>2

\* Two windows that agree below k give the same mapping there.
LEMMA MappingAgrees ==
  ASSUME NEW e, NEW g, NEW t, NEW k \in Nat, NEW a,
         \A m \in 0..k-1 : e[m] = g[m]
  PROVE  Mapping(e, t, k, a) = Mapping(g, t, k, a)
<1> DEFINE u == Youngest(e, k, a)
<1>1. /\ u \in -1..k-1
      /\ u # -1 => WritesAt(e, u, a)
      /\ \A m \in 0..k-1 : WritesAt(e, m, a) => m <= u
  BY YoungestProperty
<1>2. /\ u = -1 => Mapping(e, t, k, a) = t[a]
      /\ u # -1 => Mapping(e, t, k, a) = e[u].prf
  BY DEF Mapping
<1> HIDE DEF u
<1>3. \A m \in 0..k-1 : WritesAt(e, m, a) <=> WritesAt(g, m, a)
  BY DEF WritesAt
<1>4. CASE u = -1
  <2>1. \A m \in 0..k-1 : ~WritesAt(g, m, a)
    BY <1>1, <1>3, <1>4
  <2> QED BY <2>1, <1>2, <1>4, MappingOfWriter, MappingOfNone
<1>5. CASE u # -1
  <2>1. /\ u \in 0..k-1 /\ WritesAt(g, u, a)
        /\ \A m \in u+1..k-1 : ~WritesAt(g, m, a)
    BY <1>1, <1>3, <1>5
  <2>2. Mapping(g, t, k, a) = g[u].prf
    BY <2>1, MappingOfWriter, MappingOfNone
  <2> QED BY <2>1, <2>2, <1>2, <1>5
<1> QED BY <1>4, <1>5

\* Retiring the oldest n uops into the table changes no younger uop's mapping.
LEMMA MappingShifts ==
  ASSUME NEW e, NEW g, NEW t, NEW v, NEW n \in Nat, NEW k \in Nat, NEW a,
         \A m \in 0..k-1 : g[m] = e[n + m],
         v[a] = Mapping(e, t, n, a)
  PROVE  Mapping(g, v, k, a) = Mapping(e, t, n + k, a)
<1> DEFINE u == Youngest(g, k, a)
           w == Youngest(e, n, a)
<1>1. /\ u \in -1..k-1
      /\ u # -1 => WritesAt(g, u, a)
      /\ \A m \in 0..k-1 : WritesAt(g, m, a) => m <= u
  BY YoungestProperty
<1>2. /\ u = -1 => Mapping(g, v, k, a) = v[a]
      /\ u # -1 => Mapping(g, v, k, a) = g[u].prf
  BY DEF Mapping
<1>3. /\ w \in -1..n-1
      /\ w # -1 => WritesAt(e, w, a)
      /\ \A m \in 0..n-1 : WritesAt(e, m, a) => m <= w
  BY YoungestProperty
<1>4. /\ w = -1 => Mapping(e, t, n, a) = t[a]
      /\ w # -1 => Mapping(e, t, n, a) = e[w].prf
  BY DEF Mapping
<1> HIDE DEF u, w
<1>5. \A m \in 0..k-1 : WritesAt(g, m, a) <=> WritesAt(e, n + m, a)
  BY DEF WritesAt
<1>6. \A m \in n..n+k-1 : m - n \in 0..k-1 /\ n + (m - n) = m
  OBVIOUS
<1>7. \A m \in n..n+k-1 : WritesAt(e, m, a) => m - n <= u
  BY <1>1, <1>5, <1>6
<1>8. CASE u # -1
  <2>1. /\ n + u \in 0..n+k-1 /\ WritesAt(e, n + u, a)
        /\ \A m \in (n + u)+1..(n + k)-1 : ~WritesAt(e, m, a)
    BY <1>1, <1>5, <1>7, <1>8
  <2>2. Mapping(e, t, n + k, a) = e[n + u].prf
    BY <2>1, MappingOfWriter, MappingOfNone
  <2> QED BY <2>2, <1>1, <1>2, <1>8
<1>9. CASE u = -1
  <2>1. \A m \in n..n+k-1 : ~WritesAt(e, m, a)
    BY <1>1, <1>7, <1>9
  <2>2. CASE w = -1
    <3>1. \A m \in 0..(n + k)-1 : ~WritesAt(e, m, a)
      BY <2>1, <2>2, <1>3
    <3>2. Mapping(e, t, n + k, a) = t[a]
      BY <3>1, MappingOfWriter, MappingOfNone
    <3> QED BY <3>2, <2>2, <1>2, <1>4, <1>9
  <2>3. CASE w # -1
    <3>1. /\ w \in 0..(n + k)-1 /\ WritesAt(e, w, a)
          /\ \A m \in w+1..(n + k)-1 : ~WritesAt(e, m, a)
      BY <2>1, <2>3, <1>3
    <3>2. Mapping(e, t, n + k, a) = e[w].prf
      BY <3>1, MappingOfWriter, MappingOfNone
    <3> QED BY <3>2, <2>3, <1>2, <1>4, <1>9
  <2> QED BY <2>2, <2>3
<1> QED BY <1>8, <1>9

----------------------------------------------------------------------------
(* The window of the reorder buffer, oldest uop first.                     *)

Live == [k \in 0..rob_cnt-1 |-> rob_ent[At(k)]]

\* YoungestWriter and MappingAt over a ring ent with its head at h.
RingYoungest(ent, h, k, a) ==
  Max({-1} \cup {m \in 0..k-1 :
                   ent[Wrap(h + m)].dv /\ ent[Wrap(h + m)].arf = a})
RingMapping(ent, h, t, k, a) ==
  IF RingYoungest(ent, h, k, a) = -1 THEN t[a]
                                     ELSE ent[Wrap(h + RingYoungest(ent, h, k, a))].prf

\* A ring read from its head is the window, wherever the search starts.
LEMMA RingMappingProperty ==
  ASSUME NEW ent, NEW h, NEW t, NEW r \in Nat, NEW e,
         \A k \in 0..r-1 : e[k] = ent[Wrap(h + k)]
  PROVE  /\ \A k \in 0..r-1 : \A a : RingMapping(ent, h, t, k, a) = Mapping(e, t, k, a)
         /\ \A a : RingMapping(ent, h, t, r, a) = Mapping(e, t, r, a)
<1>1. ASSUME NEW k \in 0..r, NEW a
      PROVE  RingMapping(ent, h, t, k, a) = Mapping(e, t, k, a)
  <2>1. \A m \in 0..k-1 : m \in 0..r-1
    OBVIOUS
  <2>2. \A m \in 0..k-1 : WritesAt(e, m, a) <=>
                          ent[Wrap(h + m)].dv /\ ent[Wrap(h + m)].arf = a
    BY <2>1 DEF WritesAt
  <2>3. RingYoungest(ent, h, k, a) = Youngest(e, k, a)
    BY <2>2 DEF RingYoungest, Youngest
  <2>4. Youngest(e, k, a) \in -1..k-1
    BY YoungestProperty
  <2> QED BY <2>1, <2>3, <2>4 DEF RingMapping, Mapping
<1>2. r \in 0..r /\ \A k \in 0..r-1 : k \in 0..r
  OBVIOUS
<1> QED BY <1>1, <1>2

\* What the two invariants say of the window, before a step and after.
LEMMA LiveMapping ==
  ASSUME rob_cnt \in Nat, NEW q \in Nat, rob_cnt' = q
  PROVE  /\ RatPrecise <=> \A a \in Arf : rat[a] = Mapping(Live, crat, rob_cnt, a)
         /\ SourcesPrecise <=>
              \A k \in 0..rob_cnt-1 :
                Live[k].src = Mapping(Live, crat, k, Live[k].s)
         /\ RatPrecise' <=>
              \A a \in Arf : rat'[a] = Mapping(Live', crat', q, a)
         /\ SourcesPrecise' <=>
              \A k \in 0..q-1 :
                Live'[k].src = Mapping(Live', crat', k, Live'[k].s)
<1>1. /\ RatPrecise <=>
           \A a \in Arf : rat[a] = RingMapping(rob_ent, rob_head, crat, rob_cnt, a)
      /\ RatPrecise' <=>
           \A a \in Arf : rat'[a] = RingMapping(rob_ent', rob_head', crat', rob_cnt', a)
  BY DEF RatPrecise, MappingAt, YoungestWriter, At, RingMapping, RingYoungest
<1>2. /\ SourcesPrecise <=>
           \A k \in 0..rob_cnt-1 :
             rob_ent[Wrap(rob_head + k)].src
               = RingMapping(rob_ent, rob_head, crat, k, rob_ent[Wrap(rob_head + k)].s)
      /\ SourcesPrecise' <=>
           \A k \in 0..rob_cnt'-1 :
             rob_ent'[Wrap(rob_head' + k)].src
               = RingMapping(rob_ent', rob_head', crat', k,
                             rob_ent'[Wrap(rob_head' + k)].s)
  BY DEF SourcesPrecise, MappingAt, YoungestWriter, At, RingMapping, RingYoungest
<1>3. /\ Live = [k \in 0..rob_cnt-1 |-> rob_ent[Wrap(rob_head + k)]]
      /\ Live' = [k \in 0..rob_cnt'-1 |-> rob_ent'[Wrap(rob_head' + k)]]
  BY DEF Live, At
<1>4. \A k \in 0..rob_cnt-1 : Live[k] = rob_ent[Wrap(rob_head + k)]
  BY <1>3
<1>5. \A k \in 0..q-1 : Live'[k] = rob_ent'[Wrap(rob_head' + k)]
  BY <1>3
<1>6. /\ \A a : RingMapping(rob_ent, rob_head, crat, rob_cnt, a)
                  = Mapping(Live, crat, rob_cnt, a)
      /\ \A k \in 0..rob_cnt-1 : \A a :
           RingMapping(rob_ent, rob_head, crat, k, a) = Mapping(Live, crat, k, a)
  BY <1>4, RingMappingProperty
<1>7. /\ \A a : RingMapping(rob_ent', rob_head', crat', q, a)
                  = Mapping(Live', crat', q, a)
      /\ \A k \in 0..q-1 : \A a :
           RingMapping(rob_ent', rob_head', crat', k, a) = Mapping(Live', crat', k, a)
  BY <1>5, RingMappingProperty
<1> QED BY <1>1, <1>2, <1>4, <1>5, <1>6, <1>7

\* A cycle without flush drops the retired uops from the window and appends
\* the renamed ones; the others only change their place.
LEMMA LiveMoves ==
  ASSUME IInv, NEW room \in 0..W, NEW wb, NEW f, Advance(room, wb, f)
  PROVE  LET n == n_cmt
             m == n_sent(room)
         IN  /\ n \in 0..rob_cnt /\ m \in Nat
             /\ rob_cnt' = rob_cnt + m - n
             /\ \A k \in 0..rob_cnt'-1 :
                  /\ n + k < rob_cnt => Live'[k] = Live[n + k]
                  /\ n + k >= rob_cnt =>
                       Live'[k] = Renamed(Presented, (n + k) - rob_cnt + 1)
<1> DEFINE n == n_cmt
           r == rob_cnt
           m == n_sent(room)
           ds == Dispatched(room)
<1>1. /\ TypeOK /\ Ring /\ RingExact /\ RobCycle(ds, wb)
  BY DEF IInv, TypeOK, Ring, Advance
<1>2. /\ m \in Nat /\ m <= cfg_rob_entries - r
      /\ n \in 0..r /\ r \in 0..cfg_rob_entries /\ cfg_rob_entries \in Nat
      /\ rob_head \in 0..cfg_rob_entries-1
      /\ rob_tail = Wrap(rob_head + r)
  BY <1>1, StagesAgree, PresentedProperty, CommitScan, IfcAssumption
     DEF TypeOK, RingExact
<1>3. Len(ds) = m /\ \A j \in 1..m : ds[j] = Renamed(Presented, j)
  BY <1>2 DEF Dispatched
<1>4. /\ rob_cnt' = r + m - n
      /\ rob_head' = At(n)
  BY <1>1, <1>3 DEF RobCycle
<1> HIDE DEF m, n, ds
<1>5. /\ \A i \in Window \ Retired : rob_ent'[i] = rob_ent[i]
      /\ \A j \in 1..m : rob_ent'[Entry(j)] = ds[j]
  BY <1>1, <1>2, <1>3, EntriesMove
<1>6. ASSUME NEW k \in 0..rob_cnt'-1
      PROVE  Live'[k] = rob_ent'[At(n + k)]
  <2>1. Live'[k] = rob_ent'[Wrap(rob_head' + k)]
    BY DEF Live, At
  <2>2. Wrap(rob_head' + k) = At(n + k)
    BY <1>2, <1>4 DEF At, Wrap
  <2> QED BY <2>1, <2>2
<1>7. ASSUME NEW k \in 0..rob_cnt'-1, n + k < r
      PROVE  Live'[k] = Live[n + k]
  <2>1. At(n + k) \in Window \ Retired
    <3>1. \A h \in 0..n-1 : At(n + k) # At(h)
      BY <1>2, <1>7 DEF At, Wrap
    <3>2. n + k \in 0..r-1
      BY <1>2, <1>7
    <3> QED BY <3>1, <3>2 DEF Window, Retired, n
  <2>2. Live[n + k] = rob_ent[At(n + k)]
    BY <1>2, <1>7 DEF Live
  <2> QED BY <2>1, <2>2, <1>5, <1>6
<1>8. ASSUME NEW k \in 0..rob_cnt'-1, n + k >= r
      PROVE  Live'[k] = Renamed(Presented, (n + k) - r + 1)
  <2>1. (n + k) - r + 1 \in 1..m
    BY <1>2, <1>4, <1>8
  <2>2. Entry((n + k) - r + 1) = At(n + k)
    BY <1>2, <1>4, <1>8 DEF Entry, At, Wrap
  <2> QED BY <2>1, <2>2, <1>3, <1>5, <1>6
<1> QED BY <1>2, <1>4, <1>7, <1>8 DEF m, n

----------------------------------------------------------------------------
(* What the stages compute, as mappings of windows.                        *)

\* Rename's bypass: the mapping lane k+1 sees is the one the k earlier lanes
\* of the bundle, taken as a window, give over the speculative table.
LEMMA BundleMapping ==
  ASSUME NEW b, NEW g, NEW k \in Nat, NEW a,
         \A x \in 0..k-1 : g[x] = Renamed(b, x + 1)
  PROVE  Mapping(g, rat, k, a) = Lookup(b, k + 1, a)
<1> DEFINE l == LastWriter(b, k + 1, a)
<1>1. /\ l \in 0..k
      /\ l # 0 => NeedsPhys(b[l]) /\ b[l].d = a
      /\ \A i \in 1..k : NeedsPhys(b[i]) /\ b[i].d = a => i <= l
  <2>1. k + 1 \in Nat \ {0} /\ (k + 1) - 1 = k
    OBVIOUS
  <2> QED BY <2>1, LastWriterProperty
<1>2. Lookup(b, k + 1, a) = IF l = 0 THEN rat[a] ELSE NewReg(b, l)
  BY DEF Lookup
<1> HIDE DEF l
<1>3. \A x \in 0..k-1 : /\ x + 1 \in 1..k
                        /\ WritesAt(g, x, a) <=> NeedsPhys(b[x+1]) /\ b[x+1].d = a
                        /\ NeedsPhys(b[x+1]) => g[x].prf = NewReg(b, x + 1)
  <2> SUFFICES ASSUME NEW x \in 0..k-1
               PROVE  /\ x + 1 \in 1..k
                      /\ WritesAt(g, x, a) <=> NeedsPhys(b[x+1]) /\ b[x+1].d = a
                      /\ NeedsPhys(b[x+1]) => g[x].prf = NewReg(b, x + 1)
    OBVIOUS
  <2>1. /\ g[x].dv <=> NeedsPhys(b[x+1])
        /\ g[x].arf = b[x+1].d
        /\ NeedsPhys(b[x+1]) => g[x].prf = NewReg(b, x + 1)
    <3>1. g[x] = Renamed(b, x + 1)
      OBVIOUS
    <3>2. Renamed(b, x + 1).dv <=> NeedsPhys(b[x+1])
      BY DEF Renamed, NeedsPhys
    <3>3. /\ Renamed(b, x + 1).arf = b[x+1].d
          /\ NeedsPhys(b[x+1]) => Renamed(b, x + 1).prf = NewReg(b, x + 1)
      BY DEF Renamed
    <3> QED BY <3>1, <3>2, <3>3, Zenon
  <2>2. WritesAt(g, x, a) <=> NeedsPhys(b[x+1]) /\ b[x+1].d = a
    BY <2>1, Zenon DEF WritesAt
  <2>3. x + 1 \in 1..k
    OBVIOUS
  <2> QED BY <2>1, <2>2, <2>3
<1>4. CASE l = 0
  <2>1. \A x \in 0..k-1 : ~WritesAt(g, x, a)
    BY <1>1, <1>3, <1>4
  <2> QED BY <2>1, <1>2, <1>4, MappingOfNone
<1>5. CASE l # 0
  <2>1. l - 1 \in 0..k-1 /\ (l - 1) + 1 = l
    BY <1>1, <1>5
  <2>2. WritesAt(g, l - 1, a) /\ g[l-1].prf = NewReg(b, l)
    BY <2>1, <1>1, <1>3, <1>5
  <2>3. \A x \in (l-1)+1..k-1 : ~WritesAt(g, x, a)
    BY <2>1, <1>1, <1>3
  <2> QED BY <2>1, <2>2, <2>3, <1>2, <1>5, MappingOfWriter
<1> QED BY <1>4, <1>5

\* Nothing in flight writes x0.
LEMMA ZeroMapping ==
  ASSUME NEW e, NEW t, NEW k \in Nat, \A x \in 0..k-1 : e[x].dv => e[x].arf # 0
  PROVE  Mapping(e, t, k, 0) = t[0]
<1>1. \A x \in 0..k-1 : ~WritesAt(e, x, 0)
  BY DEF WritesAt
<1> QED BY <1>1, MappingOfNone

\* The table retirement leaves is the mapping the oldest uop left must see.
LEMMA CommittedMapping ==
  ASSUME IInv
  PROVE  \A a \in Arf : crat_nxt(Commits)[a] = Mapping(Live, crat, n_cmt, a)
<1> DEFINE n == n_cmt
           c == Commits
<1>1. /\ TypeOK /\ HoldersWrite /\ crat[0] = 0 
      /\ rob_cnt \in Nat /\ n \in 0..rob_cnt
  <2>1. rob_cnt \in Nat
    BY IfcAssumption DEF IInv, TypeOK
  <2> QED BY <2>1, CommitScan DEF IInv, NoAliasing
<1>2. \A x \in 0..rob_cnt-1 : /\ Live[x] = rob_ent[At(x)]
                              /\ Live[x].dv => Live[x].arf # 0
  BY <1>1 DEF Live, HoldersWrite, Window
<1>3. Len(c) = n /\ \A i \in 1..n : /\ i - 1 \in 0..n-1
                                    /\ Writes(c, i) <=> Live[i-1].dv
                                    /\ c[i].arf = Live[i-1].arf
                                    /\ c[i].prf = Live[i-1].prf
  <2>1. /\ Len(c) = n
        /\ \A i \in 1..n : Writes(c, i) <=> rob_ent[At(i-1)].dv
        /\ \A i \in 1..n : c[i].prf = rob_ent[At(i-1)].prf
    BY <1>1, CommitsProperty DEF Writers
  <2>2. \A i \in 1..n : c[i].arf = rob_ent[At(i-1)].arf
    BY <1>1 DEF Commits
  <2>3. \A i \in 1..n : i - 1 \in 0..n-1 /\ Live[i-1] = rob_ent[At(i-1)]
    BY <1>1, <1>2
  <2> HIDE DEF c, n
  <2> QED BY <2>1, <2>2, <2>3, Zenon
<1> HIDE DEF c, n
<1>4. ASSUME NEW a \in Arf \ {0}
      PROVE  crat_nxt(c)[a] = Mapping(Live, crat, n, a)
  <2> DEFINE l == LastCommit(c, n + 1, a)
  <2>1. /\ l \in 0..n
        /\ l # 0 => Writes(c, l) /\ c[l].arf = a
        /\ \A i \in 1..n : Writes(c, i) /\ c[i].arf = a => i <= l
    <3>1. n + 1 \in Nat \ {0} /\ (n + 1) - 1 = n
      BY <1>1
    <3> QED BY <3>1, LastCommitProperty
  <2>2. crat_nxt(c)[a] = IF l = 0 THEN crat[a] ELSE c[l].prf
    BY <1>3 DEF crat_nxt, CommittedMap
  <2> HIDE DEF l
  <2>3. \A i \in 1..n : Writes(c, i) /\ c[i].arf = a <=> WritesAt(Live, i - 1, a)
    BY <1>3, Zenon DEF WritesAt
  <2>4. \A x \in 0..n-1 : x + 1 \in 1..n /\ (x + 1) - 1 = x
    BY <1>1
  <2>5. \A x \in 0..n-1 : WritesAt(Live, x, a) => x + 1 <= l
    BY <2>1, <2>3, <2>4
  <2>6. CASE l = 0
    <3>1. \A x \in 0..n-1 : ~WritesAt(Live, x, a)
      BY <1>1, <2>5, <2>6
    <3> QED BY <3>1, <2>2, <2>6, <1>1, MappingOfNone
  <2>7. CASE l # 0
    <3>1. l - 1 \in 0..n-1 /\ WritesAt(Live, l - 1, a) /\ c[l].prf = Live[l-1].prf
      BY <1>1, <1>3, <2>1, <2>3, <2>7
    <3>2. \A x \in (l-1)+1..n-1 : ~WritesAt(Live, x, a)
      BY <1>1, <2>1, <2>5
    <3> QED BY <3>1, <3>2, <2>2, <2>7, <1>1, MappingOfWriter
  <2> QED BY <2>6, <2>7
<1>5. crat_nxt(c)[0] = Mapping(Live, crat, n, 0)
  <2>1. \A x \in 0..n-1 : Live[x].dv => Live[x].arf # 0
    BY <1>1, <1>2
  <2>2. crat_nxt(c)[0] = 0
    BY IfcAssumption DEF crat_nxt, Arf
  <2> QED BY <2>1, <2>2, <1>1, ZeroMapping
<1> QED BY <1>4, <1>5 DEF c, n

----------------------------------------------------------------------------
(* Producers: RatPrecise and SourcesPrecise.                               *)

PInv == IInv /\ RatPrecise /\ SourcesPrecise

\* A cycle without flush: the older part of the extended window keeps its
\* mappings because retirement applies what it takes away, the new part gets
\* them from rename because the speculative table is the window's.
LEMMA AdvanceKeepsProducers ==
  ASSUME PInv, NEW room \in 0..W, NEW wb, NEW f, Advance(room, wb, f)
  PROVE  RatPrecise' /\ SourcesPrecise'
<1> DEFINE n == n_cmt
           r == rob_cnt
           m == n_sent(room)
           b == Presented
           e == [k \in 0..r+m-1 |-> IF k < r THEN Live[k] ELSE Renamed(b, k - r + 1)]
<1>1. /\ n \in 0..r /\ m \in Nat /\ r \in Nat
      /\ rob_cnt' = r + m - n
      /\ \A k \in 0..rob_cnt'-1 :
           /\ n + k < r => Live'[k] = Live[n + k]
           /\ n + k >= r => Live'[k] = Renamed(b, (n + k) - r + 1)
  <2>1. r \in Nat
    BY IfcAssumption DEF PInv, IInv, TypeOK
  <2> QED BY <2>1, LiveMoves DEF PInv
<1>2. /\ crat' = crat_nxt(Commits)
      /\ rat' = [a \in Arf |-> IF a = 0 THEN rat[0] ELSE Lookup(b, m + 1, a)]
      /\ \A a \in Arf : crat'[a] = Mapping(Live, crat, n, a)
  BY StagesAgree, CommittedMapping DEF PInv, IInv, Advance, RenameCycle
<1> DEFINE q == r + m - n
<1>3. /\ q \in Nat /\ rob_cnt' = q
      /\ RatPrecise <=> \A a \in Arf : rat[a] = Mapping(Live, crat, r, a)
      /\ SourcesPrecise <=>
           \A k \in 0..r-1 : Live[k].src = Mapping(Live, crat, k, Live[k].s)
      /\ RatPrecise' <=> \A a \in Arf : rat'[a] = Mapping(Live', crat', q, a)
      /\ SourcesPrecise' <=>
           \A k \in 0..q-1 : Live'[k].src = Mapping(Live', crat', k, Live'[k].s)
  <2>1. q \in Nat /\ rob_cnt' = q
    BY <1>1
  <2> HIDE DEF q
  <2> QED BY <2>1, <1>1, LiveMapping
<1>3a. \A k \in 0..r+m-1 : e[k].s \in Arf
  <2> SUFFICES ASSUME NEW k \in 0..r+m-1 PROVE e[k].s \in Arf
    OBVIOUS
  <2>1. CASE k < r
    <3>1. k \in 0..r-1
      BY <1>1, <2>1
    <3>2. e[k] = rob_ent[At(k)] /\ At(k) \in Window
      BY <3>1, <2>1 DEF Live, Window
    <3>3. Window \subseteq RobIx /\ rob_ent \in [RobIx -> Ruop]
      BY DEF PInv, IInv, TypeOK, RingExact
    <3> QED BY <3>2, <3>3 DEF Ruop
  <2>2. CASE ~(k < r)
    <3>1. k - r + 1 \in 1..m
      BY <1>1, <2>2
    <3>2. e[k] = Renamed(b, k - r + 1)
      BY <2>2
    <3>3. Renamed(b, k - r + 1) \in Ruop
      BY <3>1, RenamedType DEF PInv, IInv
    <3> QED BY <3>2, <3>3 DEF Ruop
  <2> QED BY <2>1, <2>2
<1>4. /\ \A a \in Arf : rat[a] = Mapping(Live, crat, r, a)
      /\ \A k \in 0..r-1 : Live[k].src = Mapping(Live, crat, k, Live[k].s)
  BY <1>3 DEF PInv
<1> HIDE DEF n, m, b
\* The extended window, of which the next state's window is the end.
<1>5. /\ \A k \in 0..r-1 : e[k] = Live[k]
      /\ \A k \in 0..m-1 : e[r+k] = Renamed(b, k + 1)
      /\ \A k \in 0..q-1 : n + k \in 0..r+m-1 /\ Live'[k] = e[n+k]
  <2>1. \A k \in 0..r-1 : e[k] = Live[k]
    BY <1>1
  <2>2. \A k \in 0..m-1 : e[r+k] = Renamed(b, k + 1)
    <3> SUFFICES ASSUME NEW k \in 0..m-1 PROVE e[r+k] = Renamed(b, k + 1)
      OBVIOUS
    <3>1. r + k \in 0..r+m-1 /\ ~(r + k < r) /\ (r + k) - r + 1 = k + 1
      BY <1>1
    <3>2. e[r+k] = Renamed(b, (r + k) - r + 1)
      BY <3>1
    <3> QED BY <3>1, <3>2
  <2>3. \A x \in 0..r+m-1 :
          e[x] = IF x < r THEN Live[x] ELSE Renamed(b, x - r + 1)
    OBVIOUS
  <2>4. ASSUME NEW k \in 0..q-1
        PROVE  n + k \in 0..r+m-1 /\ Live'[k] = e[n+k]
    <3>1. n + k \in 0..r+m-1
      <4>1. n \in 0..r /\ m \in Nat /\ r \in Nat
        BY <1>1
      <4> QED BY <4>1
    <3>2. e[n+k] = IF n + k < r THEN Live[n+k] ELSE Renamed(b, (n + k) - r + 1)
      <4> HIDE DEF e
      <4> QED BY <3>1, <2>3, Zenon
    <3> HIDE DEF e
    <3>3. (n + k < r => Live'[k] = Live[n+k])
          /\ (n + k >= r => Live'[k] = Renamed(b, (n + k) - r + 1))
      BY <1>1
    <3>4. n + k < r \/ n + k >= r
      BY <1>1
    <3> QED BY <3>1, <3>2, <3>3, <3>4, <1>1
  <2> QED BY <2>1, <2>2, <2>4
<1> HIDE DEF e
<1>6. ASSUME NEW k \in 0..r, NEW a
      PROVE  Mapping(e, crat, k, a) = Mapping(Live, crat, k, a)
  <2>1. \A x \in 0..k-1 : e[x] = Live[x]
    BY <1>1, <1>5
  <2> QED BY <2>1, <1>1, MappingAgrees
<1>7. ASSUME NEW k \in 0..q, NEW a \in Arf
      PROVE  Mapping(Live', crat', k, a) = Mapping(e, crat, n + k, a)
  <2>1. \A x \in 0..k-1 : Live'[x] = e[n+x]
    BY <1>1, <1>5
  <2>2. crat'[a] = Mapping(e, crat, n, a)
    BY <1>1, <1>2, <1>6
  <2> QED BY <2>1, <2>2, <1>1, MappingShifts
<1>8. ASSUME NEW k \in 0..m, NEW a \in Arf
      PROVE  Mapping(e, crat, r + k, a) = Lookup(b, k + 1, a)
  <2> DEFINE g == [x \in 0..m-1 |-> Renamed(b, x + 1)]
  <2>1. \A x \in 0..k-1 : g[x] = Renamed(b, x + 1) /\ g[x] = e[r+x]
    <3>1. \A x \in 0..k-1 : x \in 0..m-1
      BY <1>1
    <3> QED BY <3>1, <1>5
  <2> HIDE DEF g
  <2>2. rat[a] = Mapping(e, crat, r, a)
    BY <1>1, <1>4, <1>6
  <2>3. Mapping(g, rat, k, a) = Mapping(e, crat, r + k, a)
    BY <2>1, <2>2, <1>1, MappingShifts
  <2>4. Mapping(g, rat, k, a) = Lookup(b, k + 1, a)
    BY <2>1, <1>1, BundleMapping
  <2> QED BY <2>3, <2>4
<1>9. RatPrecise'
  <2> SUFFICES ASSUME NEW a \in Arf PROVE rat'[a] = Mapping(Live', crat', q, a)
    BY <1>3
  <2>1. rat'[a] = Lookup(b, m + 1, a)
    <3>1. Lookup(b, m + 1, 0) = rat[0]
      <4>1. m + 1 \in Nat \ {0}
        BY <1>1
      <4>2. LastWriter(b, m + 1, 0) = 0
        BY <4>1, LastWriterProperty DEF NeedsPhys
      <4> QED BY <4>2 DEF Lookup
    <3> QED BY <3>1, <1>2 DEF m, b
  <2>2. Mapping(Live', crat', q, a) = Mapping(e, crat, r + m, a)
    <3>1. q \in 0..q /\ n + q = r + m
      BY <1>1, <1>3
    <3> QED BY <3>1, <1>7
  <2>3. m \in 0..m
    BY <1>1
  <2> QED BY <2>1, <2>2, <2>3, <1>8
<1>10. SourcesPrecise'
  <2> SUFFICES ASSUME NEW k \in 0..q-1
               PROVE  Live'[k].src = Mapping(Live', crat', k, Live'[k].s)
    BY <1>3
  <2> DEFINE s == Live'[k].s
  <2>1. s \in Arf
    BY <1>3a, <1>5
  <2>2. Mapping(Live', crat', k, s) = Mapping(e, crat, n + k, s)
    <3>1. k \in 0..q
      BY <1>3
    <3> QED BY <2>1, <3>1, <1>7
  <2>3. CASE n + k < r
    <3>1. n + k \in 0..r-1 /\ n + k \in 0..r
      BY <1>1, <1>3, <2>3
    <3>2. Live'[k] = Live[n+k]
      BY <3>1, <1>5
    <3> QED BY <3>1, <3>2, <2>2, <1>4, <1>6
  <2>4. CASE n + k >= r
    <3> DEFINE j == n + k - r
    <3>1. j \in 0..m-1 /\ j \in 0..m /\ r + j = n + k
      BY <1>1, <1>3, <2>4
    <3> HIDE DEF j
    <3>2. Live'[k] = Renamed(b, j + 1)
      BY <3>1, <1>5
    <3>3. Live'[k].src = Lookup(b, j + 1, s)
      BY <3>2 DEF Renamed
    <3> QED BY <3>1, <3>3, <2>1, <2>2, <1>8
  <2>5. n + k < r \/ n + k >= r
    BY <1>1, <1>3
  <2> QED BY <2>3, <2>4, <2>5
<1> QED BY <1>9, <1>10

\* A flush leaves no uop and the committed table as the speculative one.
LEMMA FlushKeepsProducers ==
  ASSUME PInv, Flush
  PROVE  RatPrecise' /\ SourcesPrecise'
<1> DEFINE q == 0
<1>1. rob_cnt' = q /\ rat' = crat' /\ q \in Nat /\ rob_cnt \in Nat
  BY IfcAssumption DEF Flush, RenameFlush, RobFlush, PInv, IInv, TypeOK
<1>2. \A a \in Arf : Mapping(Live', crat', q, a) = crat'[a]
  <2>1. \A a : \A x \in 0..q-1 : ~WritesAt(Live', x, a)
    OBVIOUS
  <2> HIDE DEF q
  <2> QED BY <2>1, <1>1, MappingOfNone
<1>3. \A k \in 0..q-1 : FALSE
  OBVIOUS
<1> HIDE DEF q
<1>4. /\ RatPrecise' <=> \A a \in Arf : rat'[a] = Mapping(Live', crat', q, a)
      /\ SourcesPrecise' <=>
           \A k \in 0..q-1 : Live'[k].src = Mapping(Live', crat', k, Live'[k].s)
  BY <1>1, LiveMapping
<1>5. RatPrecise'
  BY <1>1, <1>2, <1>4
<1>6. SourcesPrecise'
  BY <1>3, <1>4
<1> QED BY <1>5, <1>6

\* Reset establishes both.
LEMMA InitProducers == Init => PInv
<1> SUFFICES ASSUME Init PROVE PInv
  OBVIOUS
<1>1. rob_cnt = 0 /\ rat = crat
  BY DEF Init, RenameInit, RobInit
<1>2. RatPrecise
  <2> SUFFICES ASSUME NEW a \in Arf PROVE MappingAt(0, a) = crat[a]
    BY <1>1 DEF RatPrecise
  <2> DEFINE S == {m \in 0..0-1 : rob_ent[At(m)].dv /\ rob_ent[At(m)].arf = a}
             z == -1
  <2>1. S = {} /\ z = -1 /\ YoungestWriter(0, a) = Max({z} \cup S)
    BY DEF YoungestWriter
  <2>2. z \in Int /\ 0 \in Int /\ z <= 0
    OBVIOUS
  <2> HIDE DEF S, z
  <2>3. Max({z} \cup S) \in {z} \cup S
    <3>1. S \in SUBSET Int /\ \A x \in S : z < x /\ x <= 0
      BY <2>1
    <3> QED BY <2>2, <3>1, GreatestOr
  <2> QED BY <2>1, <2>3 DEF MappingAt
<1>3. SourcesPrecise
  BY <1>1 DEF SourcesPrecise
<1> QED BY <1>2, <1>3, InitEstablishes DEF PInv

\* A step that changes nothing preserves both.
LEMMA StutterKeepsProducers ==
  ASSUME PInv, UNCHANGED vars
  PROVE  RatPrecise' /\ SourcesPrecise'
<1> DEFINE q == rob_cnt
<1>1. /\ rat' = rat /\ crat' = crat /\ rob_ent' = rob_ent
      /\ rob_head' = rob_head /\ rob_cnt' = q /\ q \in Nat
  BY IfcAssumption DEF vars, renameVars, robVars, PInv, IInv, TypeOK
<1>2. Live' = Live
  BY <1>1 DEF Live, At
<1>3. /\ RatPrecise <=> \A a \in Arf : rat[a] = Mapping(Live, crat, q, a)
      /\ SourcesPrecise <=>
           \A k \in 0..q-1 : Live[k].src = Mapping(Live, crat, k, Live[k].s)
      /\ RatPrecise' <=> \A a \in Arf : rat'[a] = Mapping(Live', crat', q, a)
      /\ SourcesPrecise' <=>
           \A k \in 0..q-1 : Live'[k].src = Mapping(Live', crat', k, Live'[k].s)
  BY <1>1, LiveMapping
<1> HIDE DEF q
<1> QED BY <1>1, <1>2, <1>3 DEF PInv

\* The producers' invariant: the exact speculative table is what makes the
\* sources of the next bundle exact, and the accounting of registers keeps x0
\* out of the retirements that both depend on.
THEOREM ProducersInvariance == Spec => []PInv
<1>1. PInv /\ [Next]_vars => PInv'
  <2> SUFFICES ASSUME PInv, [Next]_vars PROVE PInv'
    OBVIOUS
  <2>1. ASSUME NEW room \in 0..W, NEW wb \in Writebacks, NEW f \in Fetchable(room),
               Advance(room, wb, f)
        PROVE  PInv'
    BY <2>1, AdvancePreserves, AdvanceKeepsProducers DEF PInv
  <2>2. CASE Flush
    BY <2>2, FlushPreserves, FlushKeepsProducers DEF PInv
  <2>3. CASE UNCHANGED vars
    BY <2>3, StutterPreserves, StutterKeepsProducers DEF PInv
  <2> QED BY <2>1, <2>2, <2>3 DEF Next
<1> QED BY <1>1, InitProducers, PTL DEF Spec

\* Rename's speculative table is always the committed one with the live
\* writers of the reorder buffer applied in program order.
THEOREM RatStaysPrecise == Spec => []RatPrecise
BY ProducersInvariance, PTL DEF PInv

\* Every live uop reads the physical register of its program-order producer,
\* for every width, ring and number of registers.
THEOREM SourcesStayPrecise == Spec => []SourcesPrecise
BY ProducersInvariance, PTL DEF PInv

----------------------------------------------------------------------------
(* Refinement: the path implements InOrderWindow.                          *)

\* The window of the abstract specification: reorder buffer, then decode queue.
Order == [i \in 1..rob_cnt + Len(dq) |->
            IF i <= rob_cnt THEN ShownRob(rob_ent[At(i-1)])
                            ELSE ShownDq(dq[i - rob_cnt])]

\* A uop on the wrong path has none on the correct path behind it.
WrongPathStays ==
  \A i, j \in 1..Len(Order) : i < j /\ Order[i].wp => Order[j].wp

Shows == [wp : BOOLEAN, d : Arf, s : Arf]

\* The same window, of r uops of a reorder buffer e and a decode queue d.
WindowOf(r, e, d) ==
  [i \in 1..r + Len(d) |-> IF i <= r THEN ShownRob(e[i-1]) ELSE ShownDq(d[i-r])]

\* What a window shows, place by place.
LEMMA WindowOfProperty ==
  ASSUME NEW r \in Nat, NEW d \in Seq(Duop), NEW e, \A x \in 0..r-1 : e[x] \in Ruop
  PROVE  /\ WindowOf(r, e, d) \in Seq(Shows)
         /\ Len(WindowOf(r, e, d)) = r + Len(d)
         /\ \A x \in 0..r-1 : WindowOf(r, e, d)[x+1] = ShownRob(e[x])
         /\ \A x \in 1..Len(d) : WindowOf(r, e, d)[r+x] = ShownDq(d[x])
<1> DEFINE N == r + Len(d)
           w == WindowOf(r, e, d)
<1>1. N \in Nat /\ Len(d) \in Nat /\ \A x \in 1..Len(d) : d[x] \in Duop
  OBVIOUS
<1>2. w = [i \in 1..N |-> IF i <= r THEN ShownRob(e[i-1]) ELSE ShownDq(d[i-r])]
  BY DEF WindowOf
<1>3. \A i \in 1..N : w[i] = IF i <= r THEN ShownRob(e[i-1]) ELSE ShownDq(d[i-r])
  BY <1>2
<1> HIDE DEF w, N
<1>4. \A x \in 0..r-1 : w[x+1] = ShownRob(e[x])
  <2> SUFFICES ASSUME NEW x \in 0..r-1 PROVE w[x+1] = ShownRob(e[x])
    OBVIOUS
  <2>1. x + 1 \in 1..N /\ x + 1 <= r /\ (x + 1) - 1 = x
    BY <1>1 DEF N
  <2> QED BY <2>1, <1>3
<1>5. \A x \in 1..Len(d) : w[r+x] = ShownDq(d[x])
  <2> SUFFICES ASSUME NEW x \in 1..Len(d) PROVE w[r+x] = ShownDq(d[x])
    OBVIOUS
  <2>1. r + x \in 1..N /\ ~(r + x <= r) /\ (r + x) - r = x
    BY <1>1 DEF N
  <2> QED BY <2>1, <1>3
<1>6. ASSUME NEW i \in 1..N PROVE w[i] \in Shows
  <2>1. CASE i <= r
    <3>1. i - 1 \in 0..r-1 /\ (i - 1) + 1 = i
      BY <1>1, <2>1
    <3>2. w[i] = ShownRob(e[i-1]) /\ e[i-1] \in Ruop
      BY <3>1, <1>4
    <3> QED BY <3>2, IfcAssumption DEF ShownRob, Shown, Shows, Ruop, Arf
  <2>2. CASE ~(i <= r)
    <3>1. i - r \in 1..Len(d) /\ r + (i - r) = i
      BY <1>1, <2>2 DEF N
    <3>2. w[i] = ShownDq(d[i-r]) /\ d[i-r] \in Duop
      BY <3>1, <1>1, <1>5
    <3> QED BY <3>2, IfcAssumption DEF ShownDq, Shown, Shows, Duop, NeedsPhys, Arf
  <2> QED BY <2>1, <2>2
<1>7. w \in [1..N -> Shows]
  BY <1>2, <1>6
<1>8. w \in Seq(Shows) /\ Len(w) = N
  BY <1>1, <1>7
<1> QED BY <1>4, <1>5, <1>8 DEF w, N

\* The entries of the window are renamed uops, and its places are entries.
LEMMA LiveType ==
  ASSUME IInv
  PROVE  /\ rob_cnt \in Nat
         /\ \A x \in 0..rob_cnt-1 : /\ Live[x] \in Ruop
                                    /\ Live[x] = rob_ent[At(x)]
                                    /\ At(x) \in Window
<1>1. rob_cnt \in Nat /\ Window \subseteq RobIx /\ rob_ent \in [RobIx -> Ruop]
  BY IfcAssumption DEF IInv, TypeOK, RingExact
<1>2. \A x \in 0..rob_cnt-1 : Live[x] = rob_ent[At(x)] /\ At(x) \in Window
  BY DEF Live, Window
<1> QED BY <1>1, <1>2

\* The refinement mapping is the window of the two queues.
LEMMA OrderIsWindow ==
  ASSUME NEW q \in Nat, rob_cnt' = q, rob_cnt \in Nat
  PROVE  Order = WindowOf(rob_cnt, Live, dq) /\ Order' = WindowOf(q, Live', dq')
<1>1. \A i \in 1..rob_cnt + Len(dq) : i <= rob_cnt => Live[i-1] = rob_ent[At(i-1)]
  BY DEF Live
<1>2. Order = WindowOf(rob_cnt, Live, dq)
  BY <1>1 DEF Order, WindowOf
<1>3. Live' = [k \in 0..rob_cnt'-1 |-> rob_ent'[Wrap(rob_head' + k)]]
  BY DEF Live, At
<1>4. \A i \in 1..q + Len(dq') : i <= q =>
         Live'[i-1] = rob_ent'[Wrap(rob_head' + (i - 1))]
  BY <1>3
<1>5. Order' = [i \in 1..rob_cnt' + Len(dq') |->
                  IF i <= rob_cnt' THEN ShownRob(rob_ent'[Wrap(rob_head' + (i - 1))])
                                   ELSE ShownDq(dq'[i - rob_cnt'])]
  BY DEF Order, At
<1>6. Order' = WindowOf(q, Live', dq')
  BY <1>4, <1>5 DEF WindowOf
<1> QED BY <1>2, <1>6

Moved(d, m, f) == SubSeq(d, m + 1, Len(d)) \o f

MovedTo(new, d, m, f) ==
  /\ Len(new) = (Len(d) - m) + Len(f)
  /\ \A x \in 1..Len(d)-m : new[x] = d[m+x]
  /\ \A x \in 1..Len(f) : new[(Len(d)-m)+x] = f[x]

\* A queue that loses its first m members and gains those of f.
LEMMA QueueMoves ==
  ASSUME NEW T, NEW d \in Seq(T), NEW f \in Seq(T), NEW m \in 0..Len(d)
  PROVE  /\ Moved(d, m, f) \in Seq(T)
         /\ MovedTo(Moved(d, m, f), d, m, f)
<1> DEFINE D == Len(d)
           F == Len(f)
           rest == SubSeq(d, m + 1, D)
<1>1. D \in Nat /\ F \in Nat /\ m \in 0..D /\ m + 1 \in Int
  OBVIOUS
<1>2. \A i \in m+1..D : d[i] \in T
  OBVIOUS
<1> HIDE DEF D
<1>3. /\ rest \in Seq(T)
      /\ Len(rest) = IF m + 1 <= D THEN D - (m + 1) + 1 ELSE 0
      /\ \A i \in 1..D-(m+1)+1 : rest[i] = d[(m+1)+i-1]
  BY <1>1, <1>2, SubSeqProperties
<1> HIDE DEF rest
<1>4. Len(rest) = D - m
  BY <1>1, <1>3
<1>5. \A x \in 1..D-m : rest[x] = d[m+x]
  <2> SUFFICES ASSUME NEW x \in 1..D-m PROVE rest[x] = d[m+x]
    OBVIOUS
  <2>1. x \in 1..D-(m+1)+1 /\ (m+1)+x-1 = m+x
    BY <1>1
  <2>2. rest[x] = d[(m+1)+x-1]
    BY <2>1, <1>3
  <2> QED BY <2>1, <2>2
<1>6. /\ rest \o f \in Seq(T)
      /\ Len(rest \o f) = Len(rest) + F
      /\ \A i \in 1..Len(rest)+F : (rest \o f)[i] =
           IF i <= Len(rest) THEN rest[i] ELSE f[i - Len(rest)]
  BY <1>3, ConcatProperties
<1>7. \A x \in 1..D-m : (rest \o f)[x] = d[m+x]
  BY <1>1, <1>4, <1>5, <1>6
<1>8. \A x \in 1..F : (rest \o f)[(D-m)+x] = f[x]
  <2> SUFFICES ASSUME NEW x \in 1..F PROVE (rest \o f)[(D-m)+x] = f[x]
    OBVIOUS
  <2>1. /\ (D-m)+x \in 1..Len(rest)+F
        /\ ~((D-m)+x <= Len(rest))
        /\ ((D-m)+x) - Len(rest) = x
    BY <1>1, <1>4
  <2> QED BY <2>1, <1>6
<1>9. Moved(d, m, f) = rest \o f
  BY DEF Moved, rest, D
<1> QED BY <1>4, <1>6, <1>7, <1>8, <1>9 DEF D, MovedTo

\* What fetch delivers is a sequence of decoded uops.
LEMMA FetchType ==
  ASSUME TypeOK, NEW room \in 0..W, NEW f \in Fetchable(room)
  PROVE  f \in Seq(Duop)
<1>1. /\ Len(dq) \in Nat /\ DQ_N \in Nat /\ W \in Nat
      /\ n_out(room) \in Nat /\ Len(dq) <= DQ_N
  BY StagesAgree, IfcAssumption DEF TypeOK
<1>2. PICK k \in 0..AtMost(DQ_N - Len(dq) + n_out(room), W) : f \in [1..k -> Uops]
  BY DEF Fetchable
<1>3. k \in Nat
  BY <1>1, <1>2 DEF AtMost
<1>4. f \in [1..k -> Duop]
  BY <1>2, UopsAssumption
<1> QED BY <1>3, <1>4

\* A cycle without flush drops the retired uops at the old end of the window
\* and appends what fetch delivered: the uops that move from the decode queue
\* to the reorder buffer keep their place.
LEMMA OrderMoves ==
  ASSUME IInv, NEW room \in 0..W, NEW wb, NEW f \in Fetchable(room),
         Advance(room, wb, f)
  PROVE  LET n == n_cmt
             N == Len(Order)
         IN  /\ n \in 0..N /\ Len(f) \in Nat
             /\ Order \in Seq(Shows) /\ Order' \in Seq(Shows)
             /\ N \in Nat /\ Len(Order') = N - n + Len(f)
             /\ \A i \in 1..N-n : Order'[i] = Order[n+i]
             /\ \A x \in 1..Len(f) : Order'[N-n+x] = ShownDq(f[x])
<1> DEFINE n == n_cmt
           r == rob_cnt
           m == n_sent(room)
           b == Presented
           D == Len(dq)
           F == Len(f)
           q == r + m - n
<1>1. /\ n \in 0..r /\ m \in Nat /\ r \in Nat
      /\ rob_cnt' = r + m - n
      /\ \A k \in 0..rob_cnt'-1 :
           /\ n + k < r => Live'[k] = Live[n + k]
           /\ n + k >= r => Live'[k] = Renamed(b, (n + k) - r + 1)
  BY LiveType, LiveMoves
<1>2. /\ dq \in Seq(Duop) /\ f \in Seq(Duop) /\ D \in Nat /\ F \in Nat
      /\ m <= D
      /\ dq' = SubSeq(dq, m + 1, D) \o f
      /\ \A j \in 1..m : b[j] = dq[j] /\ Renamed(b, j) \in Ruop
  <2>1. dq \in Seq(Duop) /\ D \in Nat /\ W \in Nat
    BY IfcAssumption DEF IInv, TypeOK
  <2>2. f \in Seq(Duop) /\ F \in Nat
    BY FetchType DEF IInv
  <2>3. m = n_out(room) /\ m \in 0..Len(b) /\ Len(b) = AtMost(D, W)
    BY StagesAgree, PresentedProperty DEF IInv, TypeOK
  <2>4. AtMost(D, W) \in 0..D
    BY <2>1 DEF AtMost
  <2>5. \A j \in 1..m : b[j] = dq[j]
    BY <2>1, <2>3, <2>4 DEF Presented
  <2>6. \A j \in 1..m : Renamed(b, j) \in Ruop
    BY RenamedType DEF IInv
  <2>7. m <= D
    BY <2>1, <2>3, <2>4
  <2>8. dq' = SubSeq(dq, m + 1, D) \o f
    BY <2>3 DEF Advance
  <2> QED BY <2>1, <2>2, <2>5, <2>6, <2>7, <2>8
<1>2a. /\ n \in Nat /\ n <= r /\ m \in Nat /\ r \in Nat /\ D \in Nat /\ F \in Nat
       /\ m <= D /\ q = r + m - n
  BY <1>1, <1>2
<1> HIDE DEF n, m, b
<1>3. /\ dq' \in Seq(Duop) /\ Len(dq') = (D - m) + F
      /\ \A x \in 1..D-m : dq'[x] = dq[m+x]
      /\ \A x \in 1..F : dq'[(D-m)+x] = f[x]
  <2> DEFINE new == Moved(dq, m, f)
  <2>1. m \in 0..D /\ dq \in Seq(Duop) /\ f \in Seq(Duop)
    BY <1>1, <1>2
  <2>2. new \in Seq(Duop) /\ MovedTo(new, dq, m, f)
    BY <2>1, QueueMoves
  <2>3. dq' = new
    BY <1>2 DEF Moved
  <2> HIDE DEF new
  <2> QED BY <2>2, <2>3 DEF MovedTo
<1>4. \A x \in 0..r-1 : Live[x] \in Ruop
  BY LiveType
<1>5. /\ q \in Nat /\ rob_cnt' = q
      /\ \A k \in 0..q-1 : \/ n + k \in 0..r-1 /\ Live'[k] = Live[n+k]
                           \/ /\ n + k - r + 1 \in 1..m /\ n + k >= r
                              /\ Live'[k] = Renamed(b, n + k - r + 1)
  <2>1. n \in 0..r /\ m \in Nat /\ r \in Nat /\ rob_cnt' = q /\ q \in Nat
    BY <1>1
  <2>2. \A k \in 0..q-1 : /\ n + k < r => Live'[k] = Live[n + k]
                          /\ n + k >= r => Live'[k] = Renamed(b, (n + k) - r + 1)
    BY <1>1
  <2>3. \A k \in 0..q-1 : /\ n + k < r => n + k \in 0..r-1
                          /\ n + k >= r => n + k - r + 1 \in 1..m
                          /\ n + k < r \/ n + k >= r
                          /\ n + k - r + 1 = (n + k) - r + 1
    BY <2>1
  <2> HIDE DEF q
  <2> QED BY <2>1, <2>2, <2>3
<1>6. \A k \in 0..q-1 : Live'[k] \in Ruop
  <2> SUFFICES ASSUME NEW k \in 0..q-1 PROVE Live'[k] \in Ruop
    OBVIOUS
  <2> HIDE DEF q
  <2> QED BY <1>2, <1>4, <1>5
<1>7. /\ Order = WindowOf(r, Live, dq) /\ Order' = WindowOf(q, Live', dq')
  BY <1>1, <1>5, OrderIsWindow
<1>8. /\ Order \in Seq(Shows) /\ Len(Order) = r + D
      /\ \A x \in 0..r-1 : Order[x+1] = ShownRob(Live[x])
      /\ \A x \in 1..D : Order[r+x] = ShownDq(dq[x])
  <2> DEFINE w == WindowOf(r, Live, dq)
  <2>1. r \in Nat /\ dq \in Seq(Duop)
    BY <1>1, <1>2
  <2>2. /\ w \in Seq(Shows) /\ Len(w) = r + D
        /\ \A x \in 0..r-1 : w[x+1] = ShownRob(Live[x])
        /\ \A x \in 1..D : w[r+x] = ShownDq(dq[x])
    BY <2>1, <1>4, WindowOfProperty
  <2> HIDE DEF w
  <2> QED BY <2>2, <1>7 DEF w
<1>9. /\ Order' \in Seq(Shows) /\ Len(Order') = q + Len(dq')
      /\ \A x \in 0..q-1 : Order'[x+1] = ShownRob(Live'[x])
      /\ \A x \in 1..Len(dq') : Order'[q+x] = ShownDq(dq'[x])
  <2> DEFINE w == WindowOf(q, Live', dq')
  <2>1. q \in Nat /\ dq' \in Seq(Duop)
    BY <1>3, <1>5
  <2> HIDE DEF q
  <2>2. /\ w \in Seq(Shows) /\ Len(w) = q + Len(dq')
        /\ \A x \in 0..q-1 : w[x+1] = ShownRob(Live'[x])
        /\ \A x \in 1..Len(dq') : w[q+x] = ShownDq(dq'[x])
    BY <2>1, <1>6, WindowOfProperty
  <2> HIDE DEF w
  <2> QED BY <2>2, <1>7 DEF w
<1> DEFINE N == r + D
<1>10. /\ Len(Order) = N /\ N \in Nat /\ n \in 0..N
       /\ Len(Order') = N - n + F
  BY <1>1, <1>2, <1>3, <1>8, <1>9
<1>11. ASSUME NEW i \in 1..N-n PROVE Order'[i] = Order[n+i]
  <2>1. CASE i <= q
    <3>1. i - 1 \in 0..q-1 /\ (i - 1) + 1 = i
      BY <1>5, <2>1
    <3>2. Order'[i] = ShownRob(Live'[i-1])
      BY <3>1, <1>9
    <3>3. CASE n + (i - 1) \in 0..r-1 /\ Live'[i-1] = Live[n+(i-1)]
      <4>1. (n + (i - 1)) + 1 = n + i
        BY <1>1
      <4>2. Order[n+i] = ShownRob(Live[n+(i-1)])
        BY <4>1, <3>3, <1>8
      <4> QED BY <4>2, <3>2, <3>3
    <3>4. ASSUME NEW j \in 1..m, j = n + (i - 1) - r + 1, n + (i - 1) >= r,
                 Live'[i-1] = Renamed(b, j)
          PROVE  Order'[i] = Order[n+i]
      <4>1. r + j = n + i /\ j \in 1..D
        BY <1>1, <1>2, <3>4
      <4>2. Order[n+i] = ShownDq(dq[j])
        BY <4>1, <1>8
      <4>3. ShownRob(Renamed(b, j)) = ShownDq(b[j])
        BY DEF ShownRob, ShownDq, Shown, Renamed
      <4> QED BY <4>2, <4>3, <3>2, <3>4, <1>2
    <3> QED BY <3>1, <3>3, <3>4, <1>5
  <2>2. CASE ~(i <= q)
    <3> DEFINE x == i - q
    <3>1. /\ x \in 1..D-m /\ x \in 1..(D-m)+F /\ q + x = i
          /\ m + x \in 1..D /\ r + (m + x) = n + i
      BY <1>2a, <2>2
    <3> HIDE DEF x, q
    <3>2. Order'[i] = ShownDq(dq'[x])
      BY <3>1, <1>3, <1>9
    <3>3. Order[n+i] = ShownDq(dq[m+x])
      BY <3>1, <1>8
    <3> QED BY <3>1, <3>2, <3>3, <1>3
  <2> QED BY <2>1, <2>2
<1>12. ASSUME NEW x \in 1..F PROVE Order'[N-n+x] = ShownDq(f[x])
  <2>1. /\ (D-m)+x \in 1..(D-m)+F
        /\ q + ((D-m)+x) = N-n+x
    BY <1>2a
  <2> HIDE DEF q
  <2>2. Order'[N-n+x] = ShownDq(dq'[(D-m)+x])
    BY <2>1, <1>3, <1>9
  <2> QED BY <2>2, <1>3
<1> HIDE DEF N
<1> QED BY <1>2, <1>8, <1>9, <1>10, <1>11, <1>12 DEF n

OInv == IInv /\ WrongPathStays

\* What the window shows of the two queues, and that retirement only takes
\* uops of the correct path.
LEMMA OrderProperty ==
  ASSUME IInv
  PROVE  /\ Order \in Seq(Shows)
         /\ rob_cnt \in Nat /\ Len(dq) \in Nat /\ Len(Order) = rob_cnt + Len(dq)
         /\ \A x \in 0..rob_cnt-1 : Order[x+1].wp = rob_ent[At(x)].wp
         /\ \A x \in 1..Len(dq) : Order[rob_cnt+x].wp = dq[x].wp
         /\ n_cmt \in 0..rob_cnt
         /\ \A i \in 1..n_cmt : ~Order[i].wp
<1>1. /\ rob_cnt \in Nat /\ dq \in Seq(Duop)
      /\ \A x \in 0..rob_cnt-1 : Live[x] \in Ruop /\ Live[x] = rob_ent[At(x)]
  BY LiveType DEF IInv, TypeOK
<1>2. Order = WindowOf(rob_cnt, Live, dq)
  <2>1. \A i \in 1..rob_cnt + Len(dq) : i <= rob_cnt => Live[i-1] = rob_ent[At(i-1)]
    BY <1>1 DEF Live
  <2> QED BY <2>1 DEF Order, WindowOf
<1> DEFINE w == WindowOf(rob_cnt, Live, dq)
<1>3. /\ w \in Seq(Shows) /\ Len(w) = rob_cnt + Len(dq)
      /\ \A x \in 0..rob_cnt-1 : w[x+1] = ShownRob(Live[x])
      /\ \A x \in 1..Len(dq) : w[rob_cnt+x] = ShownDq(dq[x])
  BY <1>1, WindowOfProperty
<1> HIDE DEF w
<1>4. /\ \A u : ShownRob(u).wp = u.wp
      /\ \A u : ShownDq(u).wp = u.wp
  BY DEF ShownRob, ShownDq, Shown
<1>5. /\ \A x \in 0..rob_cnt-1 : Order[x+1].wp = rob_ent[At(x)].wp
      /\ \A x \in 1..Len(dq) : Order[rob_cnt+x].wp = dq[x].wp
  BY <1>1, <1>2, <1>3, <1>4, Zenon DEF w
<1>6. n_cmt \in 0..rob_cnt /\ \A k \in 0..n_cmt-1 : Retires(k)
  BY <1>1, CommitScan
<1>7. ASSUME NEW i \in 1..n_cmt PROVE ~Order[i].wp
  <2>1. i - 1 \in 0..n_cmt-1 /\ i - 1 \in 0..rob_cnt-1 /\ (i - 1) + 1 = i
    BY <1>1, <1>6
  <2>2. ~rob_ent[At(i-1)].wp
    BY <2>1, <1>6 DEF Retires
  <2>3. Order[(i-1)+1].wp = rob_ent[At(i-1)].wp
    BY <2>1, <1>5
  <2> QED BY <2>1, <2>2, <2>3
<1>8. Len(dq) \in Nat
  BY <1>1
<1> QED BY <1>1, <1>2, <1>3, <1>5, <1>6, <1>7, <1>8 DEF w

\* A cycle without flush is a cycle of the abstract specification.
LEMMA AdvanceRefines ==
  ASSUME IInv, NEW room \in 0..W, NEW wb, NEW f \in Fetchable(room),
         Advance(room, wb, f)
  PROVE  Program!Cycle
<1> DEFINE n == n_cmt
           N == Len(Order)
<1>1. /\ n \in 0..N /\ Len(f) \in Nat /\ N \in Nat
      /\ Order \in Seq(Shows) /\ Order' \in Seq(Shows)
      /\ Len(Order') = (N - n) + Len(f)
      /\ \A i \in 1..N-n : Order'[i] = Order[n+i]
  BY OrderMoves
<1>2. \A i \in 1..n : ~Order[i].wp
  BY OrderProperty
<1> HIDE DEF n, N
<1>3. SubSeq(Order', 1, N - n) = SubSeq(Order, n + 1, N)
  <2> DEFINE a == SubSeq(Order', 1, N - n)
             b == SubSeq(Order, n + 1, N)
  <2>1. /\ a \in Seq(Shows) /\ Len(a) = N - n
        /\ \A i \in 1..N-n : a[i] = Order'[i]
    <3>1. 1 \in Int /\ N - n \in Int /\ \A i \in 1..N-n : Order'[i] \in Shows
      BY <1>1
    <3>2. /\ a \in Seq(Shows)
          /\ Len(a) = IF 1 <= N - n THEN (N - n) - 1 + 1 ELSE 0
          /\ \A i \in 1..(N-n)-1+1 : a[i] = Order'[1+i-1]
      BY <3>1, SubSeqProperties
    <3> HIDE DEF a
    <3>3. \A i \in 1..N-n : i \in 1..(N-n)-1+1 /\ 1+i-1 = i
      BY <1>1
    <3>4. Len(a) = N - n
      BY <3>2, <1>1
    <3> QED BY <3>2, <3>3, <3>4
  <2>2. /\ b \in Seq(Shows) /\ Len(b) = N - n
        /\ \A i \in 1..N-n : b[i] = Order[n+i]
    <3>1. n + 1 \in Int /\ N \in Int /\ \A i \in n+1..N : Order[i] \in Shows
      BY <1>1 DEF N
    <3>2. /\ b \in Seq(Shows)
          /\ Len(b) = IF n + 1 <= N THEN N - (n + 1) + 1 ELSE 0
          /\ \A i \in 1..N-(n+1)+1 : b[i] = Order[(n+1)+i-1]
      BY <3>1, SubSeqProperties
    <3> HIDE DEF b
    <3>3. \A i \in 1..N-n : i \in 1..N-(n+1)+1 /\ (n+1)+i-1 = n+i
      BY <1>1
    <3>4. Len(b) = N - n
      BY <3>2, <1>1
    <3> QED BY <3>2, <3>3, <3>4
  <2> HIDE DEF a, b
  <2>3. \A i \in 1..Len(a) : a[i] = b[i]
    BY <2>1, <2>2, <1>1
  <2>4. a = b
    BY <2>1, <2>2, <2>3, SeqEqual
  <2> QED BY <2>4 DEF a, b
<1>4. \E k \in 0..Len(Order) :
        /\ \A i \in 1..k : ~Order[i].wp
        /\ \E m \in 0..Len(Order') :
             /\ m = Len(Order) - k
             /\ SubSeq(Order', 1, m) = SubSeq(Order, k + 1, Len(Order))
        /\ Order' \in Seq(Shows)
  <2>1. N - n \in 0..Len(Order')
    BY <1>1
  <2>2. /\ n \in 0..N
        /\ \A i \in 1..n : ~Order[i].wp
        /\ \E m \in 0..Len(Order') :
             /\ m = N - n
             /\ SubSeq(Order', 1, m) = SubSeq(Order, n + 1, N)
        /\ Order' \in Seq(Shows)
    BY <1>1, <1>2, <1>3, <2>1
  <2> QED BY <2>2 DEF N
<1> QED BY <1>4 DEF Program!Cycle, Program!Correct, Order, Shows

\* A uop of the window that is on the wrong path is one in flight.
LEMMA ShownInFlight ==
  ASSUME IInv, NEW i \in 1..Len(Order), Order[i].wp
  PROVE  WrongPathInFlight
<1>1. /\ rob_cnt \in Nat /\ Len(dq) \in Nat /\ Len(Order) = rob_cnt + Len(dq)
      /\ \A x \in 0..rob_cnt-1 : Order[x+1].wp = rob_ent[At(x)].wp
      /\ \A x \in 1..Len(dq) : Order[rob_cnt+x].wp = dq[x].wp
  BY OrderProperty
<1>2. CASE i <= rob_cnt
  <2>1. i - 1 \in 0..rob_cnt-1 /\ (i - 1) + 1 = i
    BY <1>1, <1>2
  <2>2. rob_ent[At(i-1)].wp /\ At(i-1) \in Window
    <3>1. Order[(i-1)+1].wp = rob_ent[At(i-1)].wp
      BY <2>1, <1>1
    <3>2. At(i-1) \in Window
      BY <2>1 DEF Window
    <3> QED BY <2>1, <3>1, <3>2
  <2> QED BY <2>2 DEF WrongPathInFlight
<1>3. CASE ~(i <= rob_cnt)
  <2>1. i - rob_cnt \in 1..Len(dq) /\ rob_cnt + (i - rob_cnt) = i
    BY <1>1, <1>3
  <2>2. Order[rob_cnt+(i-rob_cnt)].wp = dq[i-rob_cnt].wp
    BY <2>1, <1>1
  <2> QED BY <2>1, <2>2 DEF WrongPathInFlight
<1> QED BY <1>2, <1>3

\* Fetch stays on the wrong path, so the window does.
LEMMA AdvanceKeepsWrongPath ==
  ASSUME OInv, NEW room \in 0..W, NEW wb, NEW f \in Fetchable(room),
         Advance(room, wb, f)
  PROVE  WrongPathStays'
<1> DEFINE n == n_cmt
           N == Len(Order)
           F == Len(f)
           M == (N - n) + F
<1>1. /\ n \in 0..N /\ F \in Nat /\ N \in Nat
      /\ Len(Order') = M
      /\ \A i \in 1..N-n : Order'[i] = Order[n+i]
      /\ \A x \in 1..F : Order'[(N-n)+x] = ShownDq(f[x])
  BY OrderMoves DEF OInv
<1>2. /\ WrongPathInFlight => \A x \in 1..F : f[x].wp
      /\ \A x, y \in 1..F : x < y /\ f[x].wp => f[y].wp
  BY DEF Advance, Deliverable
<1>3. \A i, j \in 1..N : i < j /\ Order[i].wp => Order[j].wp
  BY DEF OInv, WrongPathStays
<1>4. \A i \in 1..N : Order[i].wp => WrongPathInFlight
  BY ShownInFlight DEF OInv
<1> HIDE DEF n, N, F
<1>5. /\ \A i \in 1..N-n : n + i \in 1..N /\ Order'[i].wp = Order[n+i].wp
      /\ \A x \in 1..F : Order'[(N-n)+x].wp = f[x].wp
  <2>1. \A i \in 1..N-n : n + i \in 1..N /\ Order'[i].wp = Order[n+i].wp
    BY <1>1
  <2>2. \A u : ShownDq(u).wp = u.wp
    BY DEF ShownDq, Shown
  <2> QED BY <2>1, <2>2, <1>1
<1>6. ASSUME NEW i \in 1..M, NEW j \in 1..M, i < j, Order'[i].wp
      PROVE  Order'[j].wp
  <2>0. n \in 0..N /\ F \in Nat /\ N \in Nat
    BY <1>1
  <2>1. CASE j <= N - n
    <3>1. i \in 1..N-n /\ j \in 1..N-n /\ n + i < n + j
      BY <2>0, <2>1, <1>6
    <3>2. Order[n+i].wp
      BY <3>1, <1>5, <1>6
    <3>3. Order[n+j].wp
      BY <3>1, <3>2, <1>3, <1>5
    <3> QED BY <3>1, <3>3, <1>5
  <2>2. CASE ~(j <= N - n)
    <3> DEFINE y == j - (N - n)
    <3>1. y \in 1..F /\ (N-n) + y = j
      BY <2>0, <2>2
    <3> HIDE DEF y
    <3>2. f[y].wp
      <4>1. CASE i <= N - n
        <5>1. i \in 1..N-n
          BY <2>0, <4>1
        <5>2. n + i \in 1..N /\ Order[n+i].wp
          BY <5>1, <1>5, <1>6
        <5> QED BY <5>2, <3>1, <1>2, <1>4
      <4>2. CASE ~(i <= N - n)
        <5> DEFINE x == i - (N - n)
        <5>1. x \in 1..F /\ (N-n) + x = i /\ x < y
          BY <2>0, <4>2, <1>6 DEF y
        <5> HIDE DEF x
        <5>2. f[x].wp
          BY <5>1, <1>5, <1>6
        <5> QED BY <5>1, <5>2, <3>1, <1>2
      <4> QED BY <4>1, <4>2
    <3> QED BY <3>1, <3>2, <1>5
  <2> QED BY <2>1, <2>2
<1>7. Len(Order') = M
  BY <1>1
<1> HIDE DEF M
<1> QED BY <1>6, <1>7 DEF WrongPathStays

\* An empty path shows an empty window, before a step and after.
LEMMA EmptyOrder ==
  /\ rob_cnt = 0 /\ dq = <<>> => Order = <<>> /\ WrongPathStays
  /\ rob_cnt' = 0 /\ dq' = <<>> => Order' = <<>> /\ WrongPathStays'
<1>1. rob_cnt = 0 /\ dq = <<>> => Order = <<>>
  BY DEF Order
<1>2. rob_cnt' = 0 /\ dq' = <<>> => Order' = <<>>
  BY DEF Order
<1>3. Order = <<>> => WrongPathStays
  BY DEF WrongPathStays
<1>4. Order' = <<>> => WrongPathStays'
  BY DEF WrongPathStays
<1> QED BY <1>1, <1>2, <1>3, <1>4

\* A flush is a flush of the abstract specification: what it discards begins
\* with the wrong-path uop the scan met, so all of it is on the wrong path.
LEMMA FlushRefines ==
  ASSUME OInv, Flush
  PROVE  Program!Flush
<1> DEFINE n == n_cmt
           N == Len(Order)
<1>1. /\ rob_cnt \in Nat /\ Len(dq) \in Nat /\ N = rob_cnt + Len(dq)
      /\ \A x \in 0..rob_cnt-1 : Order[x+1].wp = rob_ent[At(x)].wp
      /\ n \in 0..rob_cnt
      /\ \A i \in 1..n : ~Order[i].wp
  BY OrderProperty DEF OInv
<1>2. n < rob_cnt /\ rob_ent[At(n)].wp
  BY DEF Flush, do_flush, Committable
<1>3. \A i, j \in 1..N : i < j /\ Order[i].wp => Order[j].wp
  BY DEF OInv, WrongPathStays
<1>4. Order' = <<>>
  BY EmptyOrder DEF Flush, RobFlush
<1> HIDE DEF n, N
<1>5. n \in 0..rob_cnt-1 /\ n \in 0..N-1 /\ n + 1 \in 1..N
  BY <1>1, <1>2
<1>6. Order[n+1].wp
  BY <1>1, <1>2, <1>5
<1>7. \A i \in n+1..N : Order[i].wp
  <2> SUFFICES ASSUME NEW i \in n+1..N PROVE Order[i].wp
    OBVIOUS
  <2>1. i \in 1..N /\ (n + 1 < i \/ i = n + 1)
    BY <1>1, <1>5
  <2> QED BY <2>1, <1>3, <1>5, <1>6
<1>8. \E k \in 0..Len(Order)-1 :
        /\ \A i \in 1..k : ~Order[i].wp
        /\ \A i \in k+1..Len(Order) : Order[i].wp
        /\ Order' = <<>>
  BY <1>1, <1>4, <1>5, <1>7 DEF N
<1> QED BY <1>8 DEF Program!Flush, Program!Correct, Order

\* The invariant of the refinement holds at every step.
THEOREM OrderInvariance == Spec => []OInv
<1>1. Init => OInv
  BY InitEstablishes, EmptyOrder DEF OInv, Init, RobInit
<1>2. OInv /\ [Next]_vars => OInv'
  <2> SUFFICES ASSUME OInv, [Next]_vars PROVE OInv'
    OBVIOUS
  <2>1. ASSUME NEW room \in 0..W, NEW wb \in Writebacks, NEW f \in Fetchable(room),
               Advance(room, wb, f)
        PROVE  OInv'
    BY <2>1, AdvancePreserves, AdvanceKeepsWrongPath DEF OInv
  <2>2. CASE Flush
    BY <2>2, FlushPreserves, EmptyOrder DEF OInv, Flush, RobFlush
  <2>3. CASE UNCHANGED vars
    <3>1. Order' = Order
      BY <2>3 DEF Order, At, vars, renameVars, robVars
    <3> QED BY <2>3, <3>1, StutterPreserves DEF OInv, WrongPathStays
  <2> QED BY <2>1, <2>2, <2>3 DEF Next
<1> QED BY <1>1, <1>2, PTL DEF Spec

\* Reorder buffer and decode queue are one window in program order: whatever
\* the stages accept in part, retire together or flush, no uop is lost,
\* duplicated, reordered or retired off the wrong path.
THEOREM PathKeepsProgramOrder == Spec => KeepsProgramOrder
<1>1. Init => Program!Init
  <2>1. Init => Order = <<>>
    BY EmptyOrder DEF Init, RobInit
  <2> QED BY <2>1 DEF Program!Init, Order
<1>2. OInv /\ [Next]_vars => [Program!Cycle \/ Program!Flush]_Order
  <2> SUFFICES ASSUME OInv, [Next]_vars
               PROVE  Program!Cycle \/ Program!Flush \/ Order' = Order
    OBVIOUS
  <2>1. ASSUME NEW room \in 0..W, NEW wb \in Writebacks, NEW f \in Fetchable(room),
               Advance(room, wb, f)
        PROVE  Program!Cycle
    BY <2>1, AdvanceRefines DEF OInv
  <2>2. CASE Flush
    BY <2>2, FlushRefines
  <2>3. CASE UNCHANGED vars
    BY <2>3 DEF Order, At, vars, renameVars, robVars
  <2> QED BY <2>1, <2>2, <2>3 DEF Next
<1>3. Program!Spec <=> Program!Init /\ [][Program!Cycle \/ Program!Flush]_Order
  BY DEF Program!Spec, Order
<1> QED BY <1>1, <1>2, <1>3, OrderInvariance, PTL DEF Spec, KeepsProgramOrder
=============================================================================
