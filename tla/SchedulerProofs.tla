-------------------------- MODULE SchedulerProofs --------------------------
(***************************************************************************)
(* Where a uop is, first part: the inductive invariant behind InOnePlace.   *)
(* When a uop is issued, second part: the one behind WakeupExact,          *)
(* LatencyKept, OldestFirst and the refinement of DataflowOrder.  Both for *)
(* every number of lanes, slots and entries, every issue width and every   *)
(* set of streams.                                                         *)
(***************************************************************************)
EXTENDS Scheduler, OrderLemmas, SequenceTheorems

----------------------------------------------------------------------------
(* Selection.                                                              *)

Rounds(f, n) ==
  f = [k \in 0..n |-> IF k = 0 THEN {} ELSE f[k-1] \cup Oldest(Eligible(f[k-1], prf_rdy))]

\* The rounds of a cycle can be counted: the function that Selected names exists.
LEMMA RoundsExist == \A n \in Nat : \E f : Rounds(f, n)
<1> DEFINE S == {n \in Nat : \A f : ~Rounds(f, n)}
<1> SUFFICES ASSUME S # {} PROVE FALSE
  OBVIOUS
<1>1. PICK m \in S : \A n \in S : m <= n
  <2>1. S \in SUBSET Nat
    OBVIOUS
  <2> QED BY <2>1, LeastNat
<1>2. CASE m = 0
  <2> DEFINE f == [k \in 0..0 |-> {}]
  <2>1. Rounds(f, 0)
    BY DEF Rounds
  <2> QED BY <1>2, <2>1
<1>3. CASE m # 0
  <2>1. m - 1 \in Nat /\ m - 1 \notin S
    BY <1>1, <1>3
  <2>2. PICK g : Rounds(g, m - 1)
    BY <2>1
  <2> DEFINE f == [k \in 0..m |-> IF k = m THEN g[m-1] \cup Oldest(Eligible(g[m-1], prf_rdy)) ELSE g[k]]
  <2>3. /\ DOMAIN g = 0..m-1
        /\ \A k \in 0..m-1 : g[k] = IF k = 0 THEN {} ELSE g[k-1] \cup Oldest(Eligible(g[k-1], prf_rdy))
    BY <2>2 DEF Rounds
  <2>4. ASSUME NEW k \in 0..m
        PROVE  f[k] = IF k = 0 THEN {} ELSE f[k-1] \cup Oldest(Eligible(f[k-1], prf_rdy))
    <3>1. CASE k = m
      <4>1. f[k-1] = g[m-1] /\ f[k] = g[m-1] \cup Oldest(Eligible(g[m-1], prf_rdy))
        BY <1>3, <3>1
      <4> QED BY <4>1, <3>1, <1>3
    <3>2. CASE k # m /\ k # 0
      <4>1. k \in 0..m-1 /\ k - 1 \in 0..m /\ k - 1 # m
        BY <3>2
      <4>2. f[k] = g[k] /\ f[k-1] = g[k-1]
        BY <4>1, <3>2
      <4> QED BY <4>1, <4>2, <2>3, <3>2
    <3>3. CASE k = 0
      <4>1. f[k] = g[0] /\ 0 \in 0..m-1
        BY <3>3, <1>3
      <4> QED BY <4>1, <2>3, <3>3
    <3> QED BY <3>1, <3>2, <3>3
  <2>5. f = [k \in 0..m |-> IF k = 0 THEN {} ELSE f[k-1] \cup Oldest(Eligible(f[k-1], prf_rdy))]
    <3>1. DOMAIN f = 0..m /\ f = [k \in 0..m |-> f[k]]
      OBVIOUS
    <3> HIDE DEF f
    <3> QED BY <3>1, <2>4
  <2>6. Rounds(f, m)
    <3> HIDE DEF f
    <3> QED BY <2>5 DEF Rounds
  <2> QED BY <2>6
<1> QED BY <1>2, <1>3

\* What is selected is what the rounds have gathered.
LEMMA SelectedRounds ==
  \E f : Rounds(f, cfg_issue_width) /\ Selected(prf_rdy) = f[cfg_issue_width]
<1>1. cfg_issue_width \in Nat
  BY ExecIfcAssumption
<1>2. \E f : Rounds(f, cfg_issue_width)
  BY <1>1, RoundsExist
<1>3. Rounds(CHOOSE f : Rounds(f, cfg_issue_width), cfg_issue_width)
  BY <1>2
<1>4. Selected(prf_rdy) = (CHOOSE f : Rounds(f, cfg_issue_width))[cfg_issue_width]
  BY DEF Selected, Rounds
<1> QED BY <1>3, <1>4

\* Only what is ready is selected.
LEMMA SelectedReady == Selected(prf_rdy) \subseteq Ready(prf_rdy)
<1>1. PICK f : Rounds(f, cfg_issue_width) /\ Selected(prf_rdy) = f[cfg_issue_width]
  BY SelectedRounds
<1>2. cfg_issue_width \in Nat
  BY ExecIfcAssumption
<1>3. \A k \in 0..cfg_issue_width :
        f[k] = IF k = 0 THEN {} ELSE f[k-1] \cup Oldest(Eligible(f[k-1], prf_rdy))
  BY <1>1 DEF Rounds
<1>4. \A T : Oldest(Eligible(T, prf_rdy)) \subseteq Ready(prf_rdy)
  BY DEF Oldest, Eligible
<1> DEFINE S == {k \in 0..cfg_issue_width : ~(f[k] \subseteq Ready(prf_rdy))}
<1>5. S = {}
  <2> SUFFICES ASSUME S # {} PROVE FALSE
    OBVIOUS
  <2>1. PICK m \in S : \A n \in S : m <= n
    <3>1. S \in SUBSET Nat
      BY <1>2
    <3> QED BY <3>1, LeastNat
  <2>2. m # 0
    <3>2. 0 \in 0..cfg_issue_width
      BY <1>2
    <3>1. f[0] = {}
      BY <1>3, <3>2, Zenon
    <3> QED BY <2>1, <3>1, <3>2
  <2>4. m - 1 \in 0..cfg_issue_width /\ m - 1 < m /\ m \in Nat
    BY <2>1, <2>2, <1>2
  <2>5. m - 1 \notin S
    <3> HIDE DEF S
    <3>1. \A n \in S : n \in Nat
      BY <1>2 DEF S
    <3> QED BY <2>1, <2>4, <3>1
  <2>3. f[m-1] \subseteq Ready(prf_rdy)
    BY <2>4, <2>5
  <2> QED BY <2>1, <2>2, <2>3, <1>3, <1>4
<1> QED BY <1>1, <1>2, <1>5

----------------------------------------------------------------------------
(* The queue.                                                              *)

\* Slots that are given away in a cycle are free, and different ones.
LEMMA FreeSlots ==
  ASSUME NEW sel, NEW n \in Nat, n <= Cardinality(Avail(sel))
  PROVE  /\ \A j \in 1..n : FreeSlot(j, sel) \in Avail(sel)
         /\ \A i, j \in 1..n : FreeSlot(i, sel) = FreeSlot(j, sel) => i = j
<1>1. Avail(sel) \in SUBSET (0..cfg_iq_entries) /\ cfg_iq_entries \in Nat
  BY ExecIfcAssumption DEF Avail
<1>2. ASSUME NEW j \in 1..n
      PROVE  /\ FreeSlot(j, sel) \in Avail(sel)
             /\ Cardinality(Lower(Avail(sel), FreeSlot(j, sel))) = j - 1
  <2>1. Cardinality(Avail(sel)) \in Nat
    BY <1>1, LowerType
  <2>2. j - 1 \in Nat /\ j - 1 < Cardinality(Avail(sel))
    BY <2>1
  <2>3. \E p \in Avail(sel) : Cardinality(Lower(Avail(sel), p)) = j - 1
    BY <1>1, <2>2, RankExists
  <2> QED BY <2>3 DEF FreeSlot, Lower
<1>3. \A i, j \in 1..n : FreeSlot(i, sel) = FreeSlot(j, sel) => i = j
  <2> SUFFICES ASSUME NEW i \in 1..n, NEW j \in 1..n, FreeSlot(i, sel) = FreeSlot(j, sel)
               PROVE  i = j
    OBVIOUS
  <2>1. i - 1 = j - 1
    BY <1>2
  <2> QED BY <2>1
<1> QED BY <1>2, <1>3

IqRec == [u : Uop, rob : RobIx, pend : SUBSET Phys, seq : 0..SeqMod-1]
Kept  == DOMAIN iq \ Selected(prf_rdy)
Given(j) == FreeSlot(j, Selected(prf_rdy))
NewAge(j) == (seq_ctr + j - 1) % SeqMod
NewSlot(ds, rob, j) ==
  [u |-> ds[j], rob |-> rob[j], pend |-> Pend(ds[j], ds, prf_rdy), seq |-> NewAge(j)]

\* What the queue holds after a cycle: the slots that are not selected, with
\* fewer sources pending, and the new uops in other slots, one each.
LEMMA QueueMoves ==
  ASSUME DOMAIN iq \subseteq 0..cfg_iq_entries-1, \A i \in DOMAIN iq : iq[i] \in IqRec,
         NEW ds, NEW rob, Len(ds) \in Nat, Len(ds) <= iq_nfree(prf_rdy),
         IqCycle(ds, rob, prf_rdy)
  PROVE  /\ DOMAIN iq' = Kept \cup {Given(j) : j \in 1..Len(ds)}
         /\ \A j \in 1..Len(ds) : Given(j) \in (0..cfg_iq_entries-1) \ Kept
         /\ \A i, j \in 1..Len(ds) : Given(i) = Given(j) => i = j
         /\ \A i \in Kept : /\ iq'[i].u = iq[i].u /\ iq'[i].rob = iq[i].rob
                            /\ iq'[i].seq = iq[i].seq
                            /\ iq'[i].pend = iq[i].pend \ EffReady(prf_rdy)
                            /\ iq'[i] \in IqRec
         /\ \A j \in 1..Len(ds) : iq'[Given(j)] = NewSlot(ds, rob, j)
<1> DEFINE sel == Selected(prf_rdy)
<1> DEFINE n == Len(ds)
<1>1. /\ \A j \in 1..n : Given(j) \in Avail(sel)
      /\ \A i, j \in 1..n : Given(i) = Given(j) => i = j
  <2>1. Cardinality(Avail(sel)) \in Nat
    <3>1. Avail(sel) \in SUBSET (0..cfg_iq_entries) /\ cfg_iq_entries \in Nat
      BY ExecIfcAssumption DEF Avail
    <3> QED BY <3>1, LowerType
  <2>2. n <= Cardinality(Avail(sel))
    BY <2>1, ExecIfcAssumption DEF iq_nfree, AtMost
  <2> QED BY <2>2, FreeSlots DEF Given
<1>2. \A j \in 1..n : Given(j) \in (0..cfg_iq_entries-1) \ Kept
  BY <1>1 DEF Avail, Kept
<1>3. \A i : /\ (\E j \in 1..n : Given(j) = i)
                  => LaneFor(i, n, sel) \in 1..n /\ Given(LaneFor(i, n, sel)) = i
             /\ ~(\E j \in 1..n : Given(j) = i) => LaneFor(i, n, sel) = 0
  BY DEF LaneFor, Given
<1>4. /\ \A i \in Kept : LaneFor(i, n, sel) = 0
      /\ \A j \in 1..n : LaneFor(Given(j), n, sel) = j
  BY <1>1, <1>2, <1>3
<1>5. /\ DOMAIN iq' = Kept \cup {Given(j) : j \in 1..n}
      /\ \A i \in DOMAIN iq' :
           iq'[i] = LET j == LaneFor(i, n, sel) IN
                    IF j = 0 THEN [iq[i] EXCEPT !.pend = @ \ EffReady(prf_rdy)]
                    ELSE NewSlot(ds, rob, j)
  BY DEF IqCycle, Kept, Given, NewSlot, NewAge
<1>6. ASSUME NEW j \in 1..n
      PROVE  iq'[Given(j)] = NewSlot(ds, rob, j)
  <2>1. Given(j) \in DOMAIN iq' /\ LaneFor(Given(j), n, sel) = j /\ j # 0
    BY <1>4, <1>5
  <2> QED BY <1>5, <2>1
<1>7. ASSUME NEW i \in Kept
      PROVE  iq'[i] = [iq[i] EXCEPT !.pend = @ \ EffReady(prf_rdy)]
  <2>1. i \in DOMAIN iq' /\ LaneFor(i, n, sel) = 0
    BY <1>4, <1>5
  <2> QED BY <1>5, <2>1
<1>8. ASSUME NEW i \in Kept
      PROVE  /\ iq'[i].u = iq[i].u /\ iq'[i].rob = iq[i].rob
             /\ iq'[i].seq = iq[i].seq
             /\ iq'[i].pend = iq[i].pend \ EffReady(prf_rdy)
             /\ iq'[i] \in IqRec
  <2>1. iq[i] \in IqRec
    BY DEF Kept
  <2>2. iq[i].pend \ EffReady(prf_rdy) \in SUBSET Phys
    BY <2>1 DEF IqRec
  <2>3. /\ iq[i] = [u |-> iq[i].u, rob |-> iq[i].rob, pend |-> iq[i].pend, seq |-> iq[i].seq]
        /\ iq[i].u \in Uop /\ iq[i].rob \in RobIx /\ iq[i].seq \in 0..SeqMod-1
    BY <2>1 DEF IqRec
  <2>4. iq'[i] = [u |-> iq[i].u, rob |-> iq[i].rob, pend |-> iq[i].pend \ EffReady(prf_rdy),
                  seq |-> iq[i].seq]
    BY <1>7, <2>3
  <2> QED BY <2>2, <2>3, <2>4 DEF IqRec
<1> QED BY <1>1, <1>2, <1>5, <1>6, <1>8

----------------------------------------------------------------------------
(* The pool.                                                               *)

EuRec == [wt : BOOLEAN, dst : Phys \cup {NoReg}, cnt : 0..LAT_MAX]

\* An entry of the pool one clock edge later, and one that is filled.
Counted(i, lsu_done) ==
  [eu[i] EXCEPT !.wt  = @ /\ i \notin lsu_done,
                !.cnt = IF ~eu[i].wt /\ @ > 0 THEN @ - 1 ELSE @]
Filled(u) == [wt |-> IsMem(u), dst |-> u.dst, cnt |-> Countdown(u.lat)]

\* A uop that may be written back in the cycle it is issued.
Quick(u) == ~IsMem(u) /\ u.lat <= 1

\* Where the entries of the pool and the uops issued go in a cycle, if no uop
\* is issued to an entry in use and no two to the same: those that are picked
\* to the reorder buffer, all others to the pool.
LEMMA PoolMoves ==
  ASSUME NEW iss, NEW lsu_ready \in BOOLEAN, NEW lsu_done, EuCycle(iss, lsu_ready, lsu_done),
         \A i \in DOMAIN eu : eu[i] \in EuRec,
         \A e \in iss : e.rob \notin DOMAIN eu,
         \A e, f \in iss : e.rob = f.rob => e = f
  PROVE  /\ r_wb' \subseteq DOMAIN eu \cup Robs(iss)
         /\ DOMAIN eu' = (DOMAIN eu \cup Robs(iss)) \ r_wb'
         /\ \A i \in DOMAIN eu : i \notin r_wb' => eu'[i] = Counted(i, lsu_done)
         /\ \A i \in DOMAIN eu : i \in r_wb' /\ eu[i].wt => i \in lsu_done
         /\ \A i \in DOMAIN eu : i \in r_wb' /\ ~eu[i].wt => eu[i].cnt = 0
         /\ \A e \in iss : e.rob \notin r_wb' => eu'[e.rob] = Filled(e.u)
         /\ \A e \in iss : e.rob \in r_wb' => Quick(e.u)
<1> DEFINE picked == Picked(iss, lsu_done)
<1> DEFINE enter  == {e \in iss : EntersPool(e, picked)}
<1> DEFINE stay   == (DOMAIN eu \ picked) \ Robs(iss)
<1>1. r_wb' = picked
  BY DEF EuCycle
<1>2. picked \subseteq Finished(iss, lsu_done)
  BY DEF Picked, First
<1>3. \A e : e \in Now(iss) <=> e \in iss /\ ~IsMem(e.u) /\ e.u.lat <= 1
  BY DEF Now
<1>4. \A r : r \in Robs(iss) <=> \E e \in iss : e.rob = r
  BY DEF Robs
<1>5. \A r : r \in Robs(Now(iss)) <=> \E e \in Now(iss) : e.rob = r
  BY DEF Robs
<1>6. Finished(iss, lsu_done) \subseteq DOMAIN eu \cup Robs(iss)
  BY <1>3, <1>4, <1>5 DEF Finished
<1>7. ASSUME NEW i \in DOMAIN eu \cap picked
      PROVE  (eu[i].wt => i \in lsu_done) /\ (~eu[i].wt => eu[i].cnt = 0)
  <2>1. i \notin Robs(Now(iss))
    BY <1>3, <1>5
  <2> QED BY <2>1, <1>2 DEF Finished
<1>8. ASSUME NEW e \in iss, e.rob \in picked
      PROVE  Quick(e.u)
  <2>1. e.rob \in Robs(Now(iss))
    BY <1>2, <1>8 DEF Finished
  <2>2. PICK f \in Now(iss) : f.rob = e.rob
    BY <2>1, <1>5
  <2>3. f = e
    BY <2>2, <1>3
  <2> QED BY <2>2, <2>3, <1>3 DEF Quick
<1>9. \A e \in iss : e \in enter <=> e.rob \notin picked
  <2> SUFFICES ASSUME NEW e \in iss PROVE EntersPool(e, picked) <=> e.rob \notin picked
    OBVIOUS
  <2>1. Now({e}) = {} <=> IsMem(e.u) \/ ~(e.u.lat <= 1)
    BY DEF Now
  <2> QED BY <2>1, <1>8 DEF EntersPool, Quick
<1>10. Robs(enter) = Robs(iss) \ picked
  <2>1. \A r : r \in Robs(enter) <=> \E e \in enter : e.rob = r
    BY DEF Robs
  <2> QED BY <2>1, <1>4, <1>9
<1>11. stay = DOMAIN eu \ picked
  BY <1>4
<1>12. eu' = [i \in stay \cup Robs(enter) |->
                 IF i \in stay
                   THEN Counted(i, lsu_done)
                   ELSE Filled((CHOOSE e \in enter : e.rob = i).u)]
  BY DEF EuCycle, Counted, Filled
<1>13. \A i \in DOMAIN eu : i \notin picked => eu'[i] = Counted(i, lsu_done)
  <2> HIDE DEF picked, enter, stay
  <2> QED BY <1>11, <1>12
<1>14. ASSUME NEW e \in iss, e.rob \notin picked
       PROVE  eu'[e.rob] = Filled(e.u)
  <2>1. e \in enter /\ e.rob \in Robs(enter) /\ e.rob \notin stay
    BY <1>4, <1>9, <1>10, <1>14
  <2>2. (CHOOSE f \in enter : f.rob = e.rob) = e
    BY <2>1
  <2> HIDE DEF picked, enter, stay
  <2> QED BY <1>12, <2>1, <2>2
<1>15. DOMAIN eu' = (DOMAIN eu \cup Robs(iss)) \ picked
  <2>1. DOMAIN eu' = stay \cup Robs(enter)
    <3> HIDE DEF picked, enter, stay
    <3> QED BY <1>12
  <2> QED BY <2>1, <1>10, <1>11
<1> QED BY <1>1, <1>2, <1>6, <1>7, <1>8, <1>13, <1>14, <1>15
----------------------------------------------------------------------------
(* The window.                                                             *)

WinRec == [u : Uop, rob : RobIx, done : BOOLEAN, t : 0..LAT_MAX]

\* The live uops are numbered in the ring that ends at tail.
Numbered ==
  /\ win \in Seq(WinRec)
  /\ \A k \in Live : win[k].rob = (tail + k - 1 - Len(win)) % cfg_rob_entries

LEMMA RetireScan ==
  ASSUME Len(win) \in Nat
  PROVE  /\ n_cmt \in 0..Len(win)
         /\ \A k \in 1..n_cmt : win[k].done
<1> DEFINE m == AtMost(Len(win), W)
<1>1. m \in Nat /\ m <= Len(win)
  BY ExecIfcAssumption DEF AtMost
<1> HIDE DEF m
<1> DEFINE S == {n \in 0..m : n < m => ~win[n + 1].done}
<1>2. PICK n \in S : \A x \in S : n <= x
  <2>1. m \in S
    BY <1>1
  <2>2. S \in SUBSET Nat
    BY <1>1
  <2> HIDE DEF S
  <2> QED BY <2>1, <2>2, LeastNat
<1>3. ASSUME NEW k \in 1..n PROVE win[k].done
  <2>1. k - 1 \in 0..m /\ k - 1 < n /\ k - 1 < m /\ (k - 1) + 1 = k
    BY <1>1
  <2>2. k - 1 \notin S
    <3>1. \A x \in S : n <= x
      BY <1>2
    <3> HIDE DEF S
    <3>2. ~(n <= k - 1)
      BY <1>1, <1>2, <2>1 DEF S
    <3> QED BY <3>1, <3>2
  <2> QED BY <2>1, <2>2
<1>4. n \in 0..m /\ (\A k \in 1..n : win[k].done) /\ (n < m => ~win[n + 1].done)
  BY <1>3
<1>5. n_cmt \in 0..m /\ \A k \in 1..n_cmt : win[k].done
  BY <1>4 DEF n_cmt, m
<1> QED BY <1>1, <1>5

\* A live uop keeps what it is, is done when its writeback is seen, and counts.
LEMMA AgedProperty ==
  ASSUME NEW e \in WinRec, NEW iss
  PROVE  /\ Aged(e, iss) \in WinRec
         /\ Aged(e, iss).u = e.u /\ Aged(e, iss).rob = e.rob
         /\ Aged(e, iss).done <=> (e.done \/ e.rob \in r_wb)
         /\ Aged(e, iss).t = IF e.rob \in Robs(iss) THEN 1
                             ELSE IF e.t > 0 /\ e.t < e.u.lat THEN e.t + 1 ELSE e.t
<1> DEFINE d == e.done \/ e.rob \in r_wb
<1> DEFINE t == IF e.rob \in Robs(iss) THEN 1
                ELSE IF e.t > 0 /\ e.t < e.u.lat THEN e.t + 1 ELSE e.t
<1>1. /\ e = [u |-> e.u, rob |-> e.rob, done |-> e.done, t |-> e.t]
      /\ e.u \in Uop /\ e.rob \in RobIx /\ e.done \in BOOLEAN /\ e.t \in 0..LAT_MAX
  BY DEF WinRec
<1>2. Aged(e, iss) = [e EXCEPT !.done = d, !.t = t]
  BY DEF Aged
<1>3. t \in 0..LAT_MAX
  <2>1. e.u.lat \in 0..LAT_MAX
    BY <1>1 DEF Uop
  <2> QED BY <1>1, <2>1, ExecIfcAssumption
<1>4. d \in BOOLEAN
  BY <1>1
<1> HIDE DEF d, t
<1>5. Aged(e, iss) = [u |-> e.u, rob |-> e.rob, done |-> d, t |-> t]
  BY <1>1, <1>2
<1>6. Aged(e, iss) \in WinRec
  BY <1>1, <1>3, <1>4, <1>5 DEF WinRec
<1>7. /\ Aged(e, iss).u = e.u /\ Aged(e, iss).rob = e.rob
      /\ Aged(e, iss).done = d /\ Aged(e, iss).t = t
  BY <1>5
<1>8. Aged(e, iss).done <=> (e.done \/ e.rob \in r_wb)
  BY <1>7, Zenon DEF d
<1> QED BY <1>6, <1>7, <1>8 DEF t

\* What dispatch takes: no more than there is room for, and with destinations
\* that nobody names.
LEMMA BundleProperty ==
  ASSUME TypeOK, win \in Seq(WinRec), NEW ds \in Bundles
  PROVE  /\ Len(ds) \in Nat /\ ds \in Seq(Uop)
         /\ Len(ds) <= iq_nfree(prf_rdy)
         /\ Len(win) + Len(ds) <= cfg_rob_entries
         /\ \A j \in 1..Len(ds) : ds[j] \in Uop /\ ds[j].dst \notin ds[j].src
         /\ \A j \in 1..Len(ds) : Dst(ds[j]) \cap Named(ds, j - 1) = {}
<1> DEFINE room == AtMost(iq_nfree(prf_rdy), cfg_rob_entries - Len(win))
<1>1. PICK k \in 0..room : ds = Upcoming(k)
  BY DEF Bundles
<1>2. \A j \in 1..Len(ds) : Dst(ds[j]) \cap Named(ds, j - 1) = {}
  BY DEF Bundles
<1>3. Len(win) \in Nat /\ cfg_rob_entries \in Nat
  BY ExecIfcAssumption
<1>4. iq_nfree(prf_rdy) \in Nat
  <2>1. Avail(Selected(prf_rdy)) \in SUBSET (0..cfg_iq_entries) /\ cfg_iq_entries \in Nat
    BY ExecIfcAssumption DEF Avail
  <2>2. Cardinality(Avail(Selected(prf_rdy))) \in Nat
    BY <2>1, LowerType
  <2> QED BY <2>2, ExecIfcAssumption DEF iq_nfree, AtMost
<1>5. k \in Nat /\ k <= iq_nfree(prf_rdy) /\ Len(win) + k <= cfg_rob_entries
  BY <1>3, <1>4 DEF AtMost
<1>6. /\ stream \in Streams /\ pc \in 0..Len(stream)-1
  BY DEF TypeOK
<1>7. /\ stream \in Seq(Uop) /\ Len(stream) \in Nat \ {0}
      /\ \A i \in 1..Len(stream) : stream[i] \in Uop /\ stream[i].dst \notin stream[i].src
  <2>1. /\ stream \in Seq(Uop) /\ stream # <<>>
        /\ \A i \in DOMAIN stream : stream[i].dst \notin stream[i].src
    BY <1>6, StreamsAssumption
  <2>2. Len(stream) \in Nat /\ Len(stream) # 0 /\ DOMAIN stream = 1..Len(stream)
    BY <2>1, EmptySeq
  <2> QED BY <2>1, <2>2
<1>8. ASSUME NEW j \in 1..k
      PROVE  ds[j] \in Uop /\ ds[j].dst \notin ds[j].src
  <2> DEFINE i == 1 + ((pc + j - 1) % Len(stream))
  <2>1. pc + j - 1 \in Int
    BY <1>5, <1>6, <1>7
  <2>2. (pc + j - 1) % Len(stream) \in 0..Len(stream)-1
    BY <2>1, <1>7
  <2>3. i \in 1..Len(stream)
    BY <2>2, <1>7
  <2>4. ds[j] = stream[i]
    BY <1>1 DEF Upcoming
  <2> QED BY <2>3, <2>4, <1>7
<1>9. ds \in Seq(Uop) /\ Len(ds) = k
  BY <1>1, <1>5, <1>8 DEF Upcoming
<1> QED BY <1>2, <1>5, <1>8, <1>9

\* A cycle moves the window: finished uops retire, the others are aged, and the
\* new ones take entries that nobody has.
LEMMA WindowMoves ==
  ASSUME TypeOK, Numbered,
         NEW ds \in Bundles, NEW lsu_ready, NEW lsu_done, Cycle(ds, lsu_ready, lsu_done)
  PROVE  /\ Len(win') = (Len(win) - n_cmt) + Len(ds)
         /\ \A k \in 1..Len(win)-n_cmt : win'[k] = Aged(win[n_cmt + k], Issued(prf_rdy))
         /\ \A j \in 1..Len(ds) :
              win'[(Len(win) - n_cmt) + j] = [u |-> ds[j], rob |-> Entry(j), done |-> FALSE, t |-> 0]
         /\ \A j \in 1..Len(ds) : Entry(j) \in RobIx
         /\ \A j \in 1..Len(ds), k \in Live : Entry(j) # win[k].rob
         /\ \A i, j \in 1..Len(ds) : Entry(i) = Entry(j) => i = j
         /\ Numbered' /\ Len(win') <= cfg_rob_entries /\ tail' \in 0..cfg_rob_entries-1
<1>0. /\ Len(win) \in Nat /\ n_cmt \in 0..Len(win) /\ Len(ds) \in Nat
      /\ Len(win) + Len(ds) <= cfg_rob_entries
      /\ \A j \in 1..Len(ds) : ds[j] \in Uop
  BY BundleProperty, RetireScan DEF Numbered
<1> PICK n \in Nat : n = Len(ds)
  BY <1>0
<1> PICK m \in Nat : m = Len(win)
  BY <1>0
<1> PICK c \in 0..m : c = n_cmt
  BY <1>0
<1>q. m - c \in Nat
  OBVIOUS
<1> PICK q \in Nat : q = m - c
  BY <1>q
<1> DEFINE C == cfg_rob_entries
<1> DEFINE old == [k \in 1..q |-> Aged(win[c + k], Issued(prf_rdy))]
<1> DEFINE new == [j \in 1..n |-> [u |-> ds[j], rob |-> Entry(j), done |-> FALSE, t |-> 0]]
<1>1. /\ m + n <= C
      /\ C \in Nat \ {0} /\ C <= ROB_N /\ ROB_N \in Nat
      /\ tail \in 0..C-1
      /\ \A j \in 1..n : ds[j] \in Uop
  <2>1. tail \in 0..C-1
    BY DEF TypeOK
  <2>2. C \in Nat \ {0} /\ C <= ROB_N /\ ROB_N \in Nat
    BY ExecIfcAssumption
  <2>3. Len(win) = m /\ Len(ds) = n
    OBVIOUS
  <2> QED BY <1>0, <2>1, <2>2, <2>3
<1>2. win' = old \o new /\ tail' = Entry(n + 1)
  <2>1. win' = [k \in 1..Len(win) - n_cmt |-> Aged(win[n_cmt + k], Issued(prf_rdy))]
                 \o [j \in 1..Len(ds) |-> [u |-> ds[j], rob |-> Entry(j), done |-> FALSE, t |-> 0]]
    BY DEF Cycle
  <2>2. tail' = Entry(Len(ds) + 1)
    BY DEF Cycle
  <2>3. Len(win) - n_cmt = q /\ n_cmt = c /\ Len(ds) = n
    OBVIOUS
  <2> QED BY <2>1, <2>2, <2>3
<1>3. \A k \in Live : win[k] \in WinRec
  BY DEF Numbered, Live
<1>4. \A j \in 1..n+1 : Entry(j) \in 0..C-1
  <2>1. \A j \in 1..n+1 : tail + j - 1 \in Int
    BY <1>1
  <2> QED BY <1>1, <2>1 DEF Entry
<1>5. \A j \in 1..n : Entry(j) \in RobIx
  BY <1>1, <1>4 DEF RobIx
<1>6. ASSUME NEW k \in 1..q
      PROVE  Aged(win[c + k], Issued(prf_rdy)) \in WinRec /\ win[c + k].rob = Aged(win[c + k], Issued(prf_rdy)).rob
  <2>1. c + k \in Live
    BY <1>1 DEF Live
  <2> QED BY <2>1, <1>3, AgedProperty
<1>7. ASSUME NEW j \in 1..n
      PROVE  [u |-> ds[j], rob |-> Entry(j), done |-> FALSE, t |-> 0] \in WinRec
  BY <1>1, <1>5, ExecIfcAssumption DEF WinRec
<1>8. old \in Seq(WinRec) /\ Len(old) = q
  BY <1>6
<1>9. new \in Seq(WinRec) /\ Len(new) = n
  BY <1>1, <1>7
<1>10. /\ win' \in Seq(WinRec) /\ Len(win') = q + n
       /\ \A k \in 1..q : win'[k] = old[k]
       /\ \A j \in 1..n : win'[q + j] = new[j]
  <2> HIDE DEF old, new
  <2>2. /\ win' \in Seq(WinRec) /\ Len(win') = Len(old) + Len(new)
        /\ \A i \in 1..Len(old)+Len(new) :
             win'[i] = IF i <= Len(old) THEN old[i] ELSE new[i - Len(old)]
    BY <1>2, <1>8, <1>9, ConcatProperties
  <2>1. \A k \in 1..q : k \in 1..q+n /\ k <= q
    OBVIOUS
  <2>3. \A k \in 1..q : win'[k] = old[k]
    BY <2>1, <2>2, <1>8, <1>9
  <2>4. \A j \in 1..n : q + j \in 1..q+n /\ ~(q + j <= q) /\ (q + j) - q = j
    OBVIOUS
  <2> QED BY <2>2, <2>3, <2>4, <1>8, <1>9
<1>11. \A k \in Live : win[k].rob = (tail + k - 1 - m) % C
  BY DEF Numbered
<1>12. \A j \in 1..n, k \in Live : Entry(j) # win[k].rob
  <2> SUFFICES ASSUME NEW j \in 1..n, NEW k \in 1..m
               PROVE  (tail + j - 1) % C # (tail + k - 1 - m) % C
    BY <1>11 DEF Entry, Live
  <2>1. /\ tail + j - 1 \in Int /\ tail + k - 1 - m \in Int
        /\ -C <= tail + k - 1 - m /\ tail + k - 1 - m < tail + j - 1
        /\ tail + j - 1 < (tail + k - 1 - m) + C /\ tail + j - 1 < 2 * C
    BY <1>1
  <2> QED BY <2>1, <1>1, ModDiffers
<1>13. \A i, j \in 1..n : Entry(i) = Entry(j) => i = j
  <2> SUFFICES ASSUME NEW i \in 1..n, NEW j \in 1..n, i < j
               PROVE  (tail + i - 1) % C # (tail + j - 1) % C
    BY DEF Entry
  <2>1. /\ tail + i - 1 \in Int /\ tail + j - 1 \in Int
        /\ -C <= tail + i - 1 /\ tail + i - 1 < tail + j - 1
        /\ tail + j - 1 < (tail + i - 1) + C /\ tail + j - 1 < 2 * C
    BY <1>1
  <2> QED BY <2>1, <1>1, ModDiffers
<1>14. tail' \in 0..C-1 /\ Len(win') <= C
  BY <1>1, <1>2, <1>4, <1>10
<1>15. Numbered'
  <2> SUFFICES ASSUME NEW k \in 1..Len(win')
               PROVE  win'[k].rob = (tail' + k - 1 - Len(win')) % C
    BY <1>10 DEF Numbered, Live
  <2> DEFINE x == tail + k - 1 - q
  <2>1. x \in Int /\ -C <= x /\ x < 2 * C /\ k \in 1..q+n
    BY <1>1, <1>10
  <2>2. (tail' + k - 1 - Len(win')) % C = x % C
    <3> DEFINE y == tail + n
    <3>1. y \in Int /\ 0 <= y /\ y < 2 * C /\ -C <= y
      BY <1>1
    <3>2. tail' = y % C
      <4>1. tail + (n + 1) - 1 = y
        BY <1>1
      <4> QED BY <1>2, <4>1 DEF Entry
    <3>3. PICK w \in Int : w = y % C
      BY <1>1, <3>1
    <3>4. tail' + k - 1 - Len(win') = w + k - 1 - (q + n)
      BY <1>10, <3>2, <3>3
    <3>5. CASE y < C
      <4>1. w = y
        BY <1>1, <3>1, <3>3, <3>5, ModWraps
      <4>2. w + k - 1 - (q + n) = x
        BY <4>1, <1>1, <2>1
      <4> QED BY <3>4, <4>2
    <3>6. CASE C <= y
      <4>1. w = y - C
        BY <1>1, <3>1, <3>3, <3>6, ModWraps
      <4>2. w + k - 1 - (q + n) = x - C
        BY <4>1, <1>1, <2>1
      <4>3. 0 <= x
        BY <1>1, <2>1, <3>6
      <4>4. (x - C) % C = x % C
        BY <4>3, <1>1, <2>1, ModSame
      <4> QED BY <3>4, <4>2, <4>4
    <3> QED BY <3>1, <3>5, <3>6, <1>1
  <2>3. CASE k <= q
    <3>1. win'[k].rob = win[c + k].rob /\ c + k \in Live
      BY <1>1, <1>6, <1>10, <2>1, <2>3 DEF Live
    <3>2. win[c + k].rob = (tail + (c + k) - 1 - m) % C
      BY <1>11, <3>1
    <3>3. tail + (c + k) - 1 - m = x
      BY <1>1, <2>1
    <3> QED BY <3>1, <3>2, <3>3, <2>2
  <2>4. CASE k > q
    <3> DEFINE j == k - q
    <3>1. j \in 1..n /\ q + j = k
      BY <1>1, <2>1, <2>4
    <3>2. win'[k].rob = Entry(j)
      <4> HIDE DEF j
      <4>1. new[j] = [u |-> ds[j], rob |-> Entry(j), done |-> FALSE, t |-> 0]
        BY <3>1
      <4>2. win'[q + j] = new[j]
        BY <3>1, <1>10
      <4> QED BY <3>1, <4>1, <4>2
    <3>3. tail + j - 1 = x
      BY <1>1, <2>1
    <3> QED BY <3>2, <3>3, <2>2 DEF Entry
  <2> QED BY <2>3, <2>4, <1>1, <2>1
<1> QED BY <1>5, <1>10, <1>12, <1>13, <1>14, <1>15
----------------------------------------------------------------------------
(* The inductive invariant.                                                *)

QueueRobs  == {iq[i].rob : i \in DOMAIN iq}
UndoneRobs == {win[k].rob : k \in {j \in Live : ~win[j].done}}
Waiting    == {i \in DOMAIN eu : eu[i].wt}

\* The live uops that are not done are those of the queue, of the pool and of
\* the registered writebacks, without overlap, and the queue holds each once;
\* those that wait for memory have one request each.
Placed ==
  /\ UndoneRobs = QueueRobs \cup DOMAIN eu \cup r_wb
  /\ QueueRobs \cap (DOMAIN eu \cup r_wb) = {} /\ DOMAIN eu \cap r_wb = {}
  /\ \A i, j \in DOMAIN iq : iq[i].rob = iq[j].rob => i = j
  /\ \A i \in DOMAIN iq : \E k \in Live : win[k].rob = iq[i].rob /\ win[k].u = iq[i].u
  /\ Waiting = rq_pend \cup r_req \cup lsu
  /\ rq_pend \cap r_req = {} /\ rq_pend \cap lsu = {} /\ r_req \cap lsu = {}

IInv == TypeOK /\ Numbered /\ Placed

\* Two live uops have different entries.
LEMMA DifferentEntries ==
  ASSUME TypeOK, Numbered, NEW h \in Live, NEW k \in Live, win[h].rob = win[k].rob
  PROVE  h = k
<1> DEFINE C == cfg_rob_entries
<1> DEFINE m == Len(win)
<1>1. /\ C \in Nat \ {0} /\ m \in Nat /\ m <= C /\ tail \in 0..C-1
      /\ h \in 1..m /\ k \in 1..m
  BY ExecIfcAssumption DEF TypeOK, Numbered, Live
<1>2. ASSUME NEW x \in Live, NEW y \in Live, x < y PROVE win[x].rob # win[y].rob
  <2>1. /\ tail + x - 1 - m \in Int /\ tail + y - 1 - m \in Int
        /\ -C <= tail + x - 1 - m /\ tail + x - 1 - m < tail + y - 1 - m
        /\ tail + y - 1 - m < (tail + x - 1 - m) + C
        /\ tail + y - 1 - m < 2 * C
    BY <1>1, <1>2 DEF Live
  <2>2. (tail + x - 1 - m) % C # (tail + y - 1 - m) % C
    BY <1>1, <2>1, ModDiffers
  <2> QED BY <2>2 DEF Numbered
<1> QED BY <1>1, <1>2

\* A uop that is issued was in the queue and nowhere else, and is issued once.
LEMMA IssuedProperty ==
  ASSUME TypeOK, Placed
  PROVE  /\ \A e \in Issued(prf_rdy) : /\ e.u \in Uop /\ e.rob \in RobIx
                                       /\ e.rob \in QueueRobs /\ e.rob \notin DOMAIN eu
         /\ \A e, f \in Issued(prf_rdy) : e.rob = f.rob => e = f
         /\ Robs(Issued(prf_rdy)) = {iq[i].rob : i \in Selected(prf_rdy)}
         /\ \A i \in Selected(prf_rdy) :
              i \in DOMAIN iq /\ [u |-> iq[i].u, rob |-> iq[i].rob] \in Issued(prf_rdy)
<1>1. \A i \in Selected(prf_rdy) : i \in DOMAIN iq
  BY SelectedReady DEF Ready
<1>2. \A e : e \in Issued(prf_rdy) <=>
         \E i \in Selected(prf_rdy) : e = [u |-> iq[i].u, rob |-> iq[i].rob]
  BY DEF Issued
<1>3. \A i \in DOMAIN iq : iq[i].u \in Uop /\ iq[i].rob \in RobIx
  BY DEF TypeOK
<1>4. \A i \in DOMAIN iq : iq[i].rob \in QueueRobs
  BY DEF QueueRobs
<1>5. \A i, j \in DOMAIN iq : iq[i].rob = iq[j].rob => i = j
  BY DEF Placed
<1>6. QueueRobs \cap DOMAIN eu = {}
  BY DEF Placed
<1>7. ASSUME NEW e \in Issued(prf_rdy)
      PROVE  e.u \in Uop /\ e.rob \in RobIx /\ e.rob \in QueueRobs /\ e.rob \notin DOMAIN eu
  <2>1. PICK i \in Selected(prf_rdy) : e = [u |-> iq[i].u, rob |-> iq[i].rob]
    BY <1>2
  <2>2. i \in DOMAIN iq /\ e.u = iq[i].u /\ e.rob = iq[i].rob
    BY <1>1, <2>1
  <2> QED BY <2>2, <1>3, <1>4, <1>6
<1>8. ASSUME NEW e \in Issued(prf_rdy), NEW f \in Issued(prf_rdy), e.rob = f.rob
      PROVE  e = f
  <2>1. PICK i \in Selected(prf_rdy) : e = [u |-> iq[i].u, rob |-> iq[i].rob]
    BY <1>2
  <2>2. PICK j \in Selected(prf_rdy) : f = [u |-> iq[j].u, rob |-> iq[j].rob]
    BY <1>2
  <2>3. i \in DOMAIN iq /\ j \in DOMAIN iq /\ iq[i].rob = iq[j].rob
    BY <1>1, <1>8, <2>1, <2>2
  <2>4. i = j
    BY <1>5, <2>3
  <2> QED BY <2>1, <2>2, <2>4
<1>9. Robs(Issued(prf_rdy)) = {iq[i].rob : i \in Selected(prf_rdy)}
  <2>1. \A i \in Selected(prf_rdy) : [u |-> iq[i].u, rob |-> iq[i].rob] \in Issued(prf_rdy)
    BY <1>2
  <2>2. \A e \in Issued(prf_rdy) : \E i \in Selected(prf_rdy) : e.rob = iq[i].rob
    BY <1>2
  <2>3. \A i \in Selected(prf_rdy) : \E e \in Issued(prf_rdy) : e.rob = iq[i].rob
    BY <2>1
  <2> QED BY <2>2, <2>3 DEF Robs
<1> QED BY <1>1, <1>2, <1>7, <1>8, <1>9

\* The facts about a cycle that the invariant needs of every component.
LEMMA CycleMoves ==
  ASSUME IInv, NEW ds \in Bundles, NEW lsu_ready \in BOOLEAN, NEW lsu_done \in Answers,
         Cycle(ds, lsu_ready, lsu_done)
  PROVE  LET I == Robs(Issued(prf_rdy))
             N == {Entry(j) : j \in 1..Len(ds)}
         IN /\ I \subseteq QueueRobs
            /\ QueueRobs' = (QueueRobs \ I) \cup N
            /\ r_wb' \subseteq DOMAIN eu \cup I
            /\ DOMAIN eu' = (DOMAIN eu \cup I) \ r_wb'
            /\ UndoneRobs' = (UndoneRobs \ r_wb) \cup N
            /\ N \cap {win[k].rob : k \in Live} = {}
<1> DEFINE I == Robs(Issued(prf_rdy))
<1> DEFINE N == {Entry(j) : j \in 1..Len(ds)}
<1> DEFINE n == Len(ds)
<1> DEFINE rob == [j \in 1..n |-> Entry(j)]
<1>1. TypeOK /\ Numbered /\ Placed
  BY DEF IInv
<1>2. /\ Len(ds) \in Nat /\ Len(ds) <= iq_nfree(prf_rdy)
  BY <1>1, BundleProperty DEF Numbered
<1>3. /\ IqCycle(ds, rob, prf_rdy)
      /\ EuCycle(Issued(prf_rdy), lsu_ready, lsu_done)
  BY DEF Cycle
<1>4. /\ I = {iq[i].rob : i \in Selected(prf_rdy)}
      /\ \A i \in Selected(prf_rdy) : i \in DOMAIN iq
      /\ \A e \in Issued(prf_rdy) : e.rob \notin DOMAIN eu
      /\ \A e, f \in Issued(prf_rdy) : e.rob = f.rob => e = f
  BY <1>1, IssuedProperty
<1>5. I \subseteq QueueRobs
  BY <1>4 DEF QueueRobs
<1>6. QueueRobs' = (QueueRobs \ I) \cup N
  <2>1. /\ DOMAIN iq \subseteq 0..cfg_iq_entries-1 /\ \A i \in DOMAIN iq : iq[i] \in IqRec
    BY <1>1 DEF TypeOK, IqRec
  <2>2. /\ DOMAIN iq' = Kept \cup {Given(j) : j \in 1..n}
        /\ \A i \in Kept : iq'[i].rob = iq[i].rob
        /\ \A j \in 1..n : iq'[Given(j)] = NewSlot(ds, rob, j)
    BY <1>2, <1>3, <2>1, QueueMoves
  <2>3. ASSUME NEW j \in 1..n PROVE iq'[Given(j)].rob = Entry(j)
    <3>1. rob[j] = Entry(j)
      OBVIOUS
    <3> HIDE DEF rob
    <3>2. iq'[Given(j)] = NewSlot(ds, rob, j)
      BY <2>2
    <3>3. NewSlot(ds, rob, j).rob = rob[j]
      BY DEF NewSlot
    <3> QED BY <3>1, <3>2, <3>3
  <2>4. QueueRobs' = {iq[i].rob : i \in Kept} \cup N
    <3>1. QueueRobs' = {iq'[i].rob : i \in DOMAIN iq'}
      BY DEF QueueRobs
    <3> QED BY <2>2, <2>3, <3>1
  <2>5. {iq[i].rob : i \in Kept} = QueueRobs \ I
    <3>1. \A i, j \in DOMAIN iq : iq[i].rob = iq[j].rob => i = j
      BY <1>1 DEF Placed
    <3> QED BY <3>1, <1>4 DEF Kept, QueueRobs
  <2> QED BY <2>4, <2>5
<1>7. /\ r_wb' \subseteq DOMAIN eu \cup I
      /\ DOMAIN eu' = (DOMAIN eu \cup I) \ r_wb'
  <2>1. \A i \in DOMAIN eu : eu[i] \in EuRec
    BY <1>1 DEF TypeOK, EuRec
  <2> QED BY <1>3, <1>4, <2>1, PoolMoves
<1>8. /\ Len(win') = (Len(win) - n_cmt) + n
      /\ \A k \in 1..Len(win)-n_cmt : win'[k] = Aged(win[n_cmt + k], Issued(prf_rdy))
      /\ \A j \in 1..n :
           win'[(Len(win) - n_cmt) + j] = [u |-> ds[j], rob |-> Entry(j), done |-> FALSE, t |-> 0]
      /\ \A j \in 1..n, k \in Live : Entry(j) # win[k].rob
  BY <1>1, WindowMoves
<1>9. UndoneRobs' = (UndoneRobs \ r_wb) \cup N
  <2>1. /\ Len(win) \in Nat /\ n_cmt \in 0..Len(win) /\ n \in Nat
        /\ \A k \in 1..n_cmt : win[k].done
    BY <1>1, <1>2, RetireScan DEF Numbered
  <2>2. PICK c \in Nat : c = n_cmt
    BY <2>1
  <2>3. PICK m \in Nat : m = Len(win)
    BY <2>1
  <2>4. m - c \in Nat
    BY <2>1, <2>2, <2>3
  <2>5. PICK q \in Nat : q = m - c
    BY <2>4
  <2>6. ASSUME NEW k \in 1..q
        PROVE  /\ c + k \in Live
               /\ win'[k].rob = win[c + k].rob
               /\ win'[k].done <=> (win[c + k].done \/ win[c + k].rob \in r_wb)
    <3>1. c + k \in Live
      BY <2>2, <2>3, <2>5 DEF Live
    <3>2. win[c + k] \in WinRec
      BY <1>1, <3>1 DEF Numbered, Live
    <3>3. win'[k] = Aged(win[c + k], Issued(prf_rdy))
      BY <1>8, <2>2, <2>3, <2>5
    <3> QED BY <3>1, <3>2, <3>3, AgedProperty
  <2>7. ASSUME NEW j \in 1..n PROVE win'[q + j].rob = Entry(j) /\ ~win'[q + j].done
    <3>1. win'[q + j] = [u |-> ds[j], rob |-> Entry(j), done |-> FALSE, t |-> 0]
      BY <1>8, <2>2, <2>3, <2>5
    <3> QED BY <3>1
  <2>8. \A k \in 1..Len(win') : k \in 1..q \/ (k - q \in 1..n /\ q + (k - q) = k)
    BY <1>8, <2>1, <2>2, <2>3, <2>5
  <2>9. /\ \A k \in 1..q : k \in 1..Len(win')
        /\ \A j \in 1..n : q + j \in 1..Len(win')
    BY <1>8, <2>1, <2>2, <2>3, <2>5
  <2>10. \A k \in Live : ~win[k].done => k - c \in 1..q /\ c + (k - c) = k
    BY <2>1, <2>2, <2>3, <2>5 DEF Live
  <2>11. UndoneRobs' = {win'[k].rob : k \in {j \in 1..Len(win') : ~win'[j].done}}
    BY DEF UndoneRobs, Live
  <2>12. ASSUME NEW r \in UndoneRobs' PROVE r \in (UndoneRobs \ r_wb) \cup N
    <3>1. PICK k \in 1..Len(win') : ~win'[k].done /\ r = win'[k].rob
      BY <2>11
    <3>2. CASE k \in 1..q
      <4>1. c + k \in Live /\ ~win[c + k].done /\ r = win[c + k].rob /\ r \notin r_wb
        BY <2>6, <3>1, <3>2
      <4> QED BY <4>1 DEF UndoneRobs
    <3>3. CASE k - q \in 1..n /\ q + (k - q) = k
      BY <2>7, <3>1, <3>3
    <3> QED BY <2>8, <3>2, <3>3
  <2>13. ASSUME NEW r \in UndoneRobs, r \notin r_wb PROVE r \in UndoneRobs'
    <3>1. PICK k \in Live : ~win[k].done /\ r = win[k].rob
      BY DEF UndoneRobs
    <3>2. PICK h \in 1..q : c + h = k
      BY <2>10, <3>1
    <3>3. h \in 1..Len(win') /\ win'[h].rob = r /\ ~win'[h].done
      BY <2>6, <2>9, <2>13, <3>1, <3>2
    <3> QED BY <2>11, <3>3
  <2>14. ASSUME NEW j \in 1..n PROVE Entry(j) \in UndoneRobs'
    BY <2>7, <2>9, <2>11
  <2> QED BY <2>12, <2>13, <2>14
<1>10. N \cap {win[k].rob : k \in Live} = {}
  BY <1>8
<1> QED BY <1>5, <1>6, <1>7, <1>9, <1>10

\* Each uop that is not done stays in one place, or moves to one other.
LEMMA CycleKeepsPlaces ==
  ASSUME IInv, NEW ds \in Bundles, NEW lsu_ready \in BOOLEAN, NEW lsu_done \in Answers,
         Cycle(ds, lsu_ready, lsu_done)
  PROVE  /\ UndoneRobs' = QueueRobs' \cup DOMAIN eu' \cup r_wb'
         /\ QueueRobs' \cap (DOMAIN eu' \cup r_wb') = {}
         /\ DOMAIN eu' \cap r_wb' = {}
<1> DEFINE I == Robs(Issued(prf_rdy))
<1> DEFINE N == {Entry(j) : j \in 1..Len(ds)}
<1>1. /\ I \subseteq QueueRobs
      /\ QueueRobs' = (QueueRobs \ I) \cup N
      /\ r_wb' \subseteq DOMAIN eu \cup I
      /\ DOMAIN eu' = (DOMAIN eu \cup I) \ r_wb'
      /\ UndoneRobs' = (UndoneRobs \ r_wb) \cup N
      /\ N \cap {win[k].rob : k \in Live} = {}
  BY CycleMoves
<1>2. UndoneRobs \subseteq {win[k].rob : k \in Live}
  BY DEF UndoneRobs
<1>3. /\ UndoneRobs = QueueRobs \cup DOMAIN eu \cup r_wb
      /\ QueueRobs \cap (DOMAIN eu \cup r_wb) = {} /\ DOMAIN eu \cap r_wb = {}
  BY DEF IInv, Placed
<1> HIDE DEF I, N
<1> QED BY <1>1, <1>2, <1>3

\* The queue still holds each uop once, as the window has it.
LEMMA CycleKeepsQueue ==
  ASSUME IInv, NEW ds \in Bundles, NEW lsu_ready \in BOOLEAN, NEW lsu_done \in Answers,
         Cycle(ds, lsu_ready, lsu_done)
  PROVE  /\ \A i, j \in DOMAIN iq' : iq'[i].rob = iq'[j].rob => i = j
         /\ \A i \in DOMAIN iq' : \E k \in 1..Len(win') : win'[k].rob = iq'[i].rob /\ win'[k].u = iq'[i].u
         /\ DOMAIN iq' \subseteq 0..cfg_iq_entries-1
         /\ \A i \in DOMAIN iq' : iq'[i] \in IqRec
<1> DEFINE n == Len(ds)
<1> DEFINE rob == [j \in 1..n |-> Entry(j)]
<1>1. TypeOK /\ Numbered /\ Placed
  BY DEF IInv
<1>2. /\ n \in Nat /\ n <= iq_nfree(prf_rdy) /\ \A j \in 1..n : ds[j] \in Uop
  BY <1>1, BundleProperty DEF Numbered
<1>3. IqCycle(ds, rob, prf_rdy)
  BY DEF Cycle
<1>4. /\ DOMAIN iq \subseteq 0..cfg_iq_entries-1 /\ \A i \in DOMAIN iq : iq[i] \in IqRec
  BY <1>1 DEF TypeOK, IqRec
<1>5. /\ DOMAIN iq' = Kept \cup {Given(j) : j \in 1..n}
      /\ \A j \in 1..n : Given(j) \in (0..cfg_iq_entries-1) \ Kept
      /\ \A i \in Kept : iq'[i].u = iq[i].u /\ iq'[i].rob = iq[i].rob /\ iq'[i] \in IqRec
      /\ \A j \in 1..n : iq'[Given(j)] = NewSlot(ds, rob, j)
  BY <1>2, <1>3, <1>4, QueueMoves
<1>6. ASSUME NEW j \in 1..n
      PROVE  /\ iq'[Given(j)].u = ds[j] /\ iq'[Given(j)].rob = Entry(j)
             /\ NewSlot(ds, rob, j) = [u |-> ds[j], rob |-> Entry(j), pend |-> Pend(ds[j], ds, prf_rdy),
                                       seq |-> NewAge(j)]
  <2>1. iq'[Given(j)] = NewSlot(ds, rob, j)
    BY <1>5
  <2>2. rob[j] = Entry(j)
    OBVIOUS
  <2> HIDE DEF rob
  <2>3. NewSlot(ds, rob, j) = [u |-> ds[j], rob |-> Entry(j), pend |-> Pend(ds[j], ds, prf_rdy),
                               seq |-> NewAge(j)]
    BY <2>2 DEF NewSlot
  <2> QED BY <2>1, <2>3
<1>7. /\ \A k \in 1..Len(win)-n_cmt : win'[k] = Aged(win[n_cmt + k], Issued(prf_rdy))
      /\ \A j \in 1..n :
           win'[(Len(win) - n_cmt) + j] = [u |-> ds[j], rob |-> Entry(j), done |-> FALSE, t |-> 0]
      /\ Len(win') = (Len(win) - n_cmt) + n
      /\ \A j \in 1..n : Entry(j) \in RobIx
      /\ \A j \in 1..n, k \in Live : Entry(j) # win[k].rob
      /\ \A i, j \in 1..n : Entry(i) = Entry(j) => i = j
  BY <1>1, WindowMoves
<1>8. /\ \A i, j \in DOMAIN iq : iq[i].rob = iq[j].rob => i = j
      /\ \A i \in DOMAIN iq : \E k \in Live : win[k].rob = iq[i].rob /\ win[k].u = iq[i].u
  BY <1>1 DEF Placed
<1>9. Kept \subseteq DOMAIN iq
  BY DEF Kept
<1>10. ASSUME NEW i \in DOMAIN iq', NEW h \in DOMAIN iq', iq'[i].rob = iq'[h].rob
       PROVE  i = h
  <2>1. ASSUME NEW x \in Kept, NEW j \in 1..n PROVE iq'[x].rob # iq'[Given(j)].rob
    <3>1. PICK k \in Live : win[k].rob = iq[x].rob
      BY <1>8, <1>9
    <3>2. iq'[x].rob = win[k].rob
      BY <3>1, <1>5
    <3>3. iq'[Given(j)].rob = Entry(j)
      BY <1>6
    <3>4. Entry(j) # win[k].rob
      BY <1>7
    <3> QED BY <3>2, <3>3, <3>4
  <2>2. CASE i \in Kept /\ h \in Kept
    BY <1>5, <1>8, <1>9, <1>10, <2>2
  <2>3. CASE i \notin Kept /\ h \notin Kept
    <3>1. PICK a \in 1..n : i = Given(a)
      BY <1>5, <2>3
    <3>2. PICK b \in 1..n : h = Given(b)
      BY <1>5, <2>3
    <3>3. Entry(a) = Entry(b)
      BY <1>6, <1>10, <3>1, <3>2
    <3> QED BY <1>7, <3>1, <3>2, <3>3
  <2> QED BY <1>5, <1>10, <2>1, <2>2, <2>3
<1>11. ASSUME NEW i \in DOMAIN iq'
       PROVE  \E k \in 1..Len(win') : win'[k].rob = iq'[i].rob /\ win'[k].u = iq'[i].u
  <2>0. /\ Len(win) \in Nat /\ n_cmt \in 0..Len(win) /\ \A k \in 1..n_cmt : win[k].done
    BY <1>1, RetireScan DEF Numbered
  <2>1. CASE i \in Kept
    <3>1. PICK k \in Live : win[k].rob = iq[i].rob /\ win[k].u = iq[i].u
      BY <1>8, <1>9, <2>1
    <3>2. ~win[k].done
      <4>1. iq[i].rob \in UndoneRobs
        BY <1>1, <1>9, <2>1 DEF Placed, QueueRobs
      <4>2. PICK h \in Live : ~win[h].done /\ win[h].rob = iq[i].rob
        BY <4>1 DEF UndoneRobs
      <4>3. h = k
        BY <1>1, <3>1, <4>2, DifferentEntries
      <4> QED BY <4>2, <4>3
    <3>3. k - n_cmt \in 1..Len(win)-n_cmt /\ n_cmt + (k - n_cmt) = k
      BY <2>0, <3>1, <3>2 DEF Live
    <3>4. win'[k - n_cmt] = Aged(win[k], Issued(prf_rdy))
      BY <1>7, <3>3
    <3>5. win[k] \in WinRec
      BY <1>1 DEF Numbered, Live
    <3>6. win'[k - n_cmt].rob = iq'[i].rob /\ win'[k - n_cmt].u = iq'[i].u
      BY <1>5, <2>1, <3>1, <3>4, <3>5, AgedProperty
    <3>7. k - n_cmt \in 1..Len(win')
      BY <1>2, <1>7, <2>0, <3>3
    <3> QED BY <3>6, <3>7
  <2>2. CASE i \notin Kept
    <3>1. PICK j \in 1..n : i = Given(j)
      BY <1>5, <2>2
    <3>2. win'[(Len(win) - n_cmt) + j] = [u |-> ds[j], rob |-> Entry(j), done |-> FALSE, t |-> 0]
      BY <1>7
    <3>3. (Len(win) - n_cmt) + j \in 1..Len(win')
      BY <1>2, <1>7, <2>0
    <3>4. iq'[i].u = ds[j] /\ iq'[i].rob = Entry(j)
      BY <1>6, <3>1
    <3> QED BY <3>2, <3>3, <3>4
  <2> QED BY <2>1, <2>2
<1>12. DOMAIN iq' \subseteq 0..cfg_iq_entries-1
  BY <1>4, <1>5, <1>9
<1>13. ASSUME NEW i \in DOMAIN iq' PROVE iq'[i] \in IqRec
  <2>1. CASE i \in Kept
    BY <1>5, <2>1
  <2>2. CASE i \notin Kept
    <3>1. PICK j \in 1..n : i = Given(j)
      BY <1>5, <2>2
    <3>2. /\ ds[j] \in Uop /\ Entry(j) \in RobIx
          /\ Pend(ds[j], ds, prf_rdy) \in SUBSET Phys
      BY <1>2, <1>7 DEF Pend, Uop
    <3>3. NewAge(j) \in 0..SeqMod-1
      <4>1. SeqMod \in Nat \ {0} /\ seq_ctr \in Int
        BY <1>1, ExecIfcAssumption DEF SeqMod, TypeOK
      <4>2. seq_ctr + j - 1 \in Int
        BY <1>2, <4>1
      <4> QED BY <4>1, <4>2 DEF NewAge
    <3>4. iq'[i] = [u |-> ds[j], rob |-> Entry(j), pend |-> Pend(ds[j], ds, prf_rdy), seq |-> NewAge(j)]
      BY <1>5, <1>6, <3>1
    <3> QED BY <3>2, <3>3, <3>4 DEF IqRec
  <2> QED BY <2>1, <2>2
<1> QED BY <1>10, <1>11, <1>12, <1>13

\* What becomes of an entry of the pool.
LEMMA CountedProperty ==
  ASSUME NEW i \in DOMAIN eu, eu[i] \in EuRec, NEW lsu_done
  PROVE  /\ Counted(i, lsu_done) \in EuRec
         /\ Counted(i, lsu_done).wt <=> (eu[i].wt /\ i \notin lsu_done)
         /\ Counted(i, lsu_done).dst = eu[i].dst
         /\ Counted(i, lsu_done).cnt = IF ~eu[i].wt /\ eu[i].cnt > 0 THEN eu[i].cnt - 1 ELSE eu[i].cnt
<1> DEFINE w == eu[i].wt /\ i \notin lsu_done
<1> DEFINE c == IF ~eu[i].wt /\ eu[i].cnt > 0 THEN eu[i].cnt - 1 ELSE eu[i].cnt
<1>1. /\ eu[i] = [wt |-> eu[i].wt, dst |-> eu[i].dst, cnt |-> eu[i].cnt]
      /\ eu[i].wt \in BOOLEAN /\ eu[i].dst \in Phys \cup {NoReg} /\ eu[i].cnt \in 0..LAT_MAX
  BY DEF EuRec
<1>2. Counted(i, lsu_done) = [eu[i] EXCEPT !.wt = w, !.cnt = c]
  BY DEF Counted
<1>3. c \in 0..LAT_MAX
  BY <1>1, ExecIfcAssumption
<1>4. w \in BOOLEAN
  BY <1>1
<1> HIDE DEF w, c
<1>5. Counted(i, lsu_done) = [wt |-> w, dst |-> eu[i].dst, cnt |-> c]
  BY <1>1, <1>2
<1>6. Counted(i, lsu_done) \in EuRec
  BY <1>1, <1>3, <1>4, <1>5 DEF EuRec
<1>7. /\ Counted(i, lsu_done).wt = w /\ Counted(i, lsu_done).dst = eu[i].dst
      /\ Counted(i, lsu_done).cnt = c
  BY <1>5
<1>8. Counted(i, lsu_done).wt <=> (eu[i].wt /\ i \notin lsu_done)
  BY <1>7, Zenon DEF w
<1> QED BY <1>6, <1>7, <1>8 DEF c

LEMMA FilledProperty ==
  ASSUME NEW u \in Uop
  PROVE  /\ Filled(u) \in EuRec
         /\ Filled(u).wt <=> IsMem(u)
         /\ Filled(u).dst = u.dst
         /\ Filled(u).cnt = Countdown(u.lat)
<1>1. u.dst \in Phys \cup {NoReg} /\ u.lat \in 0..LAT_MAX
  BY DEF Uop
<1>2. Countdown(u.lat) \in 0..LAT_MAX
  BY <1>1, ExecIfcAssumption DEF Countdown
<1>3. IsMem(u) \in BOOLEAN
  BY DEF IsMem
<1>4. Filled(u) \in EuRec
  BY <1>1, <1>2, <1>3 DEF Filled, EuRec
<1>5. Filled(u).wt = IsMem(u) /\ Filled(u).dst = u.dst /\ Filled(u).cnt = Countdown(u.lat)
  BY DEF Filled
<1> QED BY <1>4, <1>5

\* The pool keeps its types.
LEMMA CyclePool ==
  ASSUME IInv, NEW ds \in Bundles, NEW lsu_ready \in BOOLEAN, NEW lsu_done \in Answers,
         Cycle(ds, lsu_ready, lsu_done)
  PROVE  /\ DOMAIN eu' \subseteq RobIx
         /\ \A i \in DOMAIN eu' : eu'[i] \in EuRec
         /\ r_wb' \subseteq RobIx
         /\ Waiting' = (Waiting \ lsu_done) \cup Robs({e \in Issued(prf_rdy) : IsMem(e.u)})
<1> DEFINE iss == Issued(prf_rdy)
<1> DEFINE M == Robs({e \in iss : IsMem(e.u)})
<1>1. TypeOK /\ Placed
  BY DEF IInv
<1>2. /\ \A e \in iss : e.u \in Uop /\ e.rob \in RobIx /\ e.rob \notin DOMAIN eu
      /\ \A e, f \in iss : e.rob = f.rob => e = f
  BY <1>1, IssuedProperty
<1>3. EuCycle(iss, lsu_ready, lsu_done)
  BY DEF Cycle
<1>4. /\ DOMAIN eu \subseteq RobIx /\ \A i \in DOMAIN eu : eu[i] \in EuRec
  BY <1>1 DEF TypeOK, EuRec
<1>5. /\ r_wb' \subseteq DOMAIN eu \cup Robs(iss)
      /\ DOMAIN eu' = (DOMAIN eu \cup Robs(iss)) \ r_wb'
      /\ \A i \in DOMAIN eu : i \notin r_wb' => eu'[i] = Counted(i, lsu_done)
      /\ \A i \in DOMAIN eu : i \in r_wb' /\ eu[i].wt => i \in lsu_done
      /\ \A e \in iss : e.rob \notin r_wb' => eu'[e.rob] = Filled(e.u)
      /\ \A e \in iss : e.rob \in r_wb' => Quick(e.u)
  <2> HIDE DEF iss
  <2>1. \A e \in iss : e.rob \notin DOMAIN eu
    BY <1>2
  <2>2. \A e, f \in iss : e.rob = f.rob => e = f
    BY <1>2
  <2>3. \A i \in DOMAIN eu : eu[i] \in EuRec
    BY <1>4
  <2> QED BY <2>1, <2>2, <2>3, <1>3, PoolMoves
<1>6. \A r : r \in Robs(iss) <=> \E e \in iss : e.rob = r
  BY DEF Robs
<1>7. \A r : r \in M <=> \E e \in iss : e.rob = r /\ IsMem(e.u)
  BY DEF Robs
<1> HIDE DEF iss, M
<1>8. Robs(iss) \subseteq RobIx
  BY <1>2, <1>6
<1>9. ASSUME NEW i \in DOMAIN eu'
      PROVE  /\ eu'[i] \in EuRec
             /\ eu'[i].wt <=> i \in (Waiting \ lsu_done) \cup M
  <2>1. CASE i \in DOMAIN eu
    <3>1. i \notin r_wb' /\ i \notin M
      BY <1>2, <1>5, <1>7, <2>1
    <3>2. eu'[i] = Counted(i, lsu_done)
      BY <1>5, <2>1, <3>1
    <3>3. eu'[i] \in EuRec /\ (eu'[i].wt <=> (eu[i].wt /\ i \notin lsu_done))
      BY <1>4, <2>1, <3>2, CountedProperty
    <3> QED BY <2>1, <3>1, <3>3 DEF Waiting
  <2>2. CASE i \notin DOMAIN eu
    <3>1. i \in Robs(iss) /\ i \notin r_wb'
      BY <1>5, <2>2
    <3>2. PICK e \in iss : e.rob = i
      BY <1>6, <3>1
    <3>3. eu'[i] = Filled(e.u) /\ e.u \in Uop
      BY <1>2, <1>5, <3>1, <3>2
    <3>4. eu'[i] \in EuRec /\ (eu'[i].wt <=> IsMem(e.u))
      BY <3>3, FilledProperty
    <3>5. i \in M <=> IsMem(e.u)
      BY <1>2, <1>7, <3>2
    <3> QED BY <2>2, <3>4, <3>5 DEF Waiting
  <2> QED BY <2>1, <2>2
<1>10. (Waiting \ lsu_done) \cup M \subseteq DOMAIN eu'
  <2>1. \A i \in Waiting \ lsu_done : i \in DOMAIN eu'
    BY <1>5 DEF Waiting
  <2>2. \A i \in M : i \in DOMAIN eu'
    BY <1>2, <1>5, <1>6, <1>7 DEF Quick
  <2> QED BY <2>1, <2>2
<1>11. Waiting' = (Waiting \ lsu_done) \cup M
  <2>1. Waiting' = {i \in DOMAIN eu' : eu'[i].wt}
    BY DEF Waiting
  <2> QED BY <2>1, <1>9, <1>10
<1> QED BY <1>4, <1>5, <1>8, <1>9, <1>11 DEF M, iss

\* Each access that waits keeps one request.
LEMMA CycleKeepsRequests ==
  ASSUME IInv, NEW ds \in Bundles, NEW lsu_ready \in BOOLEAN, NEW lsu_done \in Answers,
         Cycle(ds, lsu_ready, lsu_done)
  PROVE  /\ Waiting' = rq_pend' \cup r_req' \cup lsu'
         /\ rq_pend' \cap r_req' = {} /\ rq_pend' \cap lsu' = {} /\ r_req' \cap lsu' = {}
         /\ rq_pend' \subseteq RobIx /\ r_req' \subseteq RobIx /\ lsu' \subseteq RobIx
<1> DEFINE M == Robs({e \in Issued(prf_rdy) : IsMem(e.u)})
<1>1. /\ rq_pend' = (rq_pend \cup M) \ Sent(lsu_ready)
      /\ r_req' = Sent(lsu_ready) /\ lsu' = (lsu \ lsu_done) \cup r_req
  BY DEF Cycle, EuCycle
<1>2. Sent(lsu_ready) \subseteq rq_pend
  BY DEF Sent, First
<1>3. lsu_done \subseteq lsu
  BY DEF Answers
<1>4. Waiting' = (Waiting \ lsu_done) \cup M
  BY CyclePool
<1>5. /\ Waiting = rq_pend \cup r_req \cup lsu
      /\ rq_pend \cap r_req = {} /\ rq_pend \cap lsu = {} /\ r_req \cap lsu = {}
      /\ rq_pend \subseteq RobIx /\ r_req \subseteq RobIx /\ lsu \subseteq RobIx
  BY DEF IInv, Placed, TypeOK
<1>6. M \cap Waiting = {} /\ M \subseteq RobIx
  <2>1. \A e \in Issued(prf_rdy) : e.rob \in RobIx /\ e.rob \notin DOMAIN eu
    BY IssuedProperty DEF IInv
  <2>2. \A r \in M : \E e \in Issued(prf_rdy) : e.rob = r
    BY DEF Robs
  <2> QED BY <2>1, <2>2 DEF Waiting
<1> HIDE DEF M
<1> QED BY <1>1, <1>2, <1>3, <1>4, <1>5, <1>6

\* The registers that have no story of their own keep their ranges.
LEMMA CycleTypes ==
  ASSUME IInv, NEW ds \in Bundles, NEW lsu_ready \in BOOLEAN, NEW lsu_done \in Answers,
         Cycle(ds, lsu_ready, lsu_done)
  PROVE  /\ seq_ctr' \in 0..SeqMod-1 /\ wait_m' \subseteq Phys
         /\ rr' \in RobIx /\ prf_rdy' \subseteq Phys
         /\ stream' \in Streams /\ pc' \in 0..Len(stream')-1
<1>1. TypeOK /\ Numbered
  BY DEF IInv
<1>2. Len(ds) \in Nat
  BY <1>1, BundleProperty DEF Numbered
<1>3. \A S : Dsts(S) \subseteq Phys
  BY DEF Dsts, Dst
<1>4. seq_ctr' \in 0..SeqMod-1
  <2>1. seq_ctr' = (seq_ctr + Len(ds)) % SeqMod
    BY DEF Cycle, IqCycle
  <2>2. SeqMod \in Nat \ {0} /\ seq_ctr + Len(ds) \in Int
    BY <1>1, <1>2, ExecIfcAssumption DEF SeqMod, TypeOK
  <2> QED BY <2>1, <2>2
<1>5. wait_m' \subseteq Phys
  <2>1. wait_m' = (wait_m \ Dsts({iq[i].u : i \in Selected(prf_rdy)}))
                     \cup Dsts({ds[j] : j \in 1..Len(ds)})
    BY DEF Cycle, IqCycle
  <2> QED BY <1>1, <1>3, <2>1 DEF TypeOK
<1>6. rr' \in RobIx
  <2>1. rr' = (rr + 1) % ROB_N
    BY DEF Cycle, EuCycle
  <2>2. ROB_N \in Nat \ {0} /\ rr + 1 \in Int
    BY <1>1, ExecIfcAssumption DEF TypeOK, RobIx
  <2> QED BY <2>1, <2>2 DEF RobIx
<1>7. prf_rdy' \subseteq Phys
  <2> DEFINE iss == Issued(prf_rdy)
  <2>1. prf_rdy' = (prf_rdy \cup UNION {WrittenBy(i, iss) : i \in Picked(iss, lsu_done)}) \ Cleared(iss)
    BY DEF Cycle, EuCycle
  <2>2. \A i : WrittenBy(i, iss) \subseteq Phys
    BY DEF WrittenBy, Dst
  <2> QED BY <1>1, <2>1, <2>2 DEF TypeOK
<1>8. stream' \in Streams /\ pc' \in 0..Len(stream')-1
  <2>1. stream' = stream /\ pc' = (pc + Len(ds)) % Len(stream)
    BY DEF Cycle
  <2>2. stream \in Streams /\ pc \in 0..Len(stream)-1
    BY <1>1 DEF TypeOK
  <2>3. Len(stream) \in Nat \ {0}
    <3>1. stream \in Seq(Uop) /\ stream # <<>>
      BY <2>2, StreamsAssumption
    <3> QED BY <3>1, EmptySeq
  <2>4. pc + Len(ds) \in Int
    BY <1>2, <2>2
  <2> QED BY <2>1, <2>2, <2>3, <2>4
<1> QED BY <1>4, <1>5, <1>6, <1>7, <1>8

LEMMA CyclePreserves ==
  ASSUME IInv, NEW ds \in Bundles, NEW lsu_ready \in BOOLEAN, NEW lsu_done \in Answers,
         Cycle(ds, lsu_ready, lsu_done)
  PROVE  IInv'
<1>1. /\ Numbered' /\ Len(win') <= cfg_rob_entries /\ tail' \in 0..cfg_rob_entries-1
  BY WindowMoves DEF IInv
<1>2. \A k \in 1..Len(win') : win'[k] \in WinRec
  BY <1>1 DEF Numbered
<1>3. /\ \A i, j \in DOMAIN iq' : iq'[i].rob = iq'[j].rob => i = j
      /\ \A i \in DOMAIN iq' : \E k \in 1..Len(win') : win'[k].rob = iq'[i].rob /\ win'[k].u = iq'[i].u
      /\ DOMAIN iq' \subseteq 0..cfg_iq_entries-1
      /\ \A i \in DOMAIN iq' : iq'[i] \in IqRec
  BY CycleKeepsQueue
<1>4. /\ DOMAIN eu' \subseteq RobIx
      /\ \A i \in DOMAIN eu' : eu'[i] \in EuRec
      /\ r_wb' \subseteq RobIx
  BY CyclePool
<1>5. /\ Waiting' = rq_pend' \cup r_req' \cup lsu'
      /\ rq_pend' \cap r_req' = {} /\ rq_pend' \cap lsu' = {} /\ r_req' \cap lsu' = {}
      /\ rq_pend' \subseteq RobIx /\ r_req' \subseteq RobIx /\ lsu' \subseteq RobIx
  BY CycleKeepsRequests
<1>6. /\ UndoneRobs' = QueueRobs' \cup DOMAIN eu' \cup r_wb'
      /\ QueueRobs' \cap (DOMAIN eu' \cup r_wb') = {}
      /\ DOMAIN eu' \cap r_wb' = {}
  BY CycleKeepsPlaces
<1>7. /\ seq_ctr' \in 0..SeqMod-1 /\ wait_m' \subseteq Phys
      /\ rr' \in RobIx /\ prf_rdy' \subseteq Phys
      /\ stream' \in Streams /\ pc' \in 0..Len(stream')-1
  BY CycleTypes
<1>8. TypeOK'
  BY <1>1, <1>2, <1>3, <1>4, <1>5, <1>7 DEF TypeOK, Live, IqRec, EuRec, WinRec
<1>9. Placed'
  BY <1>3, <1>5, <1>6 DEF Placed, Live
<1> QED BY <1>1, <1>8, <1>9 DEF IInv

\* The empty pipeline.
Empty ==
  /\ iq = <<>> /\ seq_ctr = 0 /\ wait_m = {}
  /\ eu = <<>> /\ rq_pend = {} /\ rr = 0 /\ prf_rdy = Phys /\ r_wb = {} /\ r_req = {}
  /\ stream \in Streams /\ pc = 0 /\ win = <<>> /\ tail = 0 /\ lsu = {}

LEMMA EmptyIsFine == Empty => IInv
<1> SUFFICES ASSUME Empty PROVE IInv
  OBVIOUS
<1>1. /\ iq = <<>> /\ eu = <<>> /\ win = <<>> /\ stream \in Streams
      /\ r_wb = {} /\ rq_pend = {} /\ r_req = {} /\ lsu = {} /\ wait_m = {}
      /\ seq_ctr = 0 /\ rr = 0 /\ pc = 0 /\ tail = 0 /\ prf_rdy = Phys
  BY DEF Empty
<1>2. DOMAIN iq = {} /\ DOMAIN eu = {} /\ Live = {} /\ Len(win) = 0
  BY <1>1 DEF Live
<1>3. win \in Seq(WinRec)
  BY <1>1
<1>4. Numbered
  BY <1>2, <1>3 DEF Numbered
<1>5. UndoneRobs = {} /\ QueueRobs = {} /\ Waiting = {}
  BY <1>2 DEF UndoneRobs, QueueRobs, Waiting
<1>6. Placed
  BY <1>1, <1>2, <1>5 DEF Placed
<1>7. /\ 0 \in RobIx /\ 0 \in 0..SeqMod-1 /\ 0 \in 0..cfg_rob_entries-1 /\ 0 <= cfg_rob_entries
  BY ExecIfcAssumption DEF RobIx, SeqMod
<1>8. 0 \in 0..Len(stream)-1
  <2>1. stream \in Seq(Uop) /\ stream # <<>>
    BY <1>1, StreamsAssumption
  <2>2. Len(stream) \in Nat \ {0}
    BY <2>1, EmptySeq
  <2> QED BY <2>2
<1>9. TypeOK
  BY <1>1, <1>2, <1>7, <1>8 DEF TypeOK
<1> QED BY <1>4, <1>6, <1>9 DEF IInv

LEMMA EmptyNext == (Empty => IInv)'
BY EmptyIsFine, PTL

LEMMA FlushPreserves ==
  ASSUME IInv, Flush
  PROVE  IInv'
<1>1. Empty'
  BY DEF IInv, TypeOK, Flush, IqFlush, EuFlush, Empty
<1> QED BY <1>1, EmptyNext

LEMMA StutterPreserves ==
  ASSUME IInv, UNCHANGED vars
  PROVE  IInv'
<1>1. /\ iq' = iq /\ seq_ctr' = seq_ctr /\ wait_m' = wait_m
      /\ eu' = eu /\ rq_pend' = rq_pend /\ rr' = rr /\ prf_rdy' = prf_rdy
      /\ r_wb' = r_wb /\ r_req' = r_req
      /\ stream' = stream /\ pc' = pc /\ win' = win /\ tail' = tail /\ lsu' = lsu
  BY DEF vars, iqVars, euVars
<1>2. TypeOK'
  BY <1>1 DEF IInv, TypeOK, Live
<1>3. Numbered'
  BY <1>1 DEF IInv, Numbered, Live
<1>4. Live' = Live /\ QueueRobs' = QueueRobs
  BY <1>1 DEF Live, QueueRobs
<1>5. UndoneRobs' = UndoneRobs /\ Waiting' = Waiting
  BY <1>1, <1>4 DEF UndoneRobs, Waiting
<1>6. Placed'
  BY <1>1, <1>4, <1>5 DEF IInv, Placed
<1> QED BY <1>2, <1>3, <1>6 DEF IInv

\* The inductive invariant holds in every reachable state.
THEOREM SchedulerInvariance == Spec => []IInv
<1>1. Init => IInv
  <2>1. Init => Empty
    BY DEF Init, IqInit, EuInit, Empty
  <2> QED BY <2>1, EmptyIsFine
<1>2. IInv /\ [Next]_vars => IInv'
  <2> SUFFICES ASSUME IInv, [Next]_vars PROVE IInv'
    OBVIOUS
  <2>1. CASE Flush
    BY <2>1, FlushPreserves
  <2>2. CASE UNCHANGED vars
    BY <2>2, StutterPreserves
  <2>3. ASSUME NEW ds \in Bundles, NEW lsu_ready \in BOOLEAN, NEW lsu_done \in Answers,
               Cycle(ds, lsu_ready, lsu_done)
        PROVE  IInv'
    BY <2>3, CyclePreserves
  <2> QED BY <2>1, <2>2, <2>3 DEF Next
<1> QED BY <1>1, <1>2, PTL DEF Spec

----------------------------------------------------------------------------
(* What it says.                                                           *)

Count(S, E, B, r) == Cardinality(S) + Cardinality({r} \cap E) + Cardinality({r} \cap B)

\* Nothing is counted as none, and one as one.
LEMMA CountPlaces ==
  ASSUME NEW S, NEW E, NEW B, NEW r
  PROVE  /\ S = {} /\ r \notin E /\ r \notin B => Count(S, E, B, r) = 0
         /\ (\E i : S = {i}) /\ r \notin E /\ r \notin B => Count(S, E, B, r) = 1
         /\ S = {} /\ r \in E /\ r \notin B => Count(S, E, B, r) = 1
         /\ S = {} /\ r \notin E /\ r \in B => Count(S, E, B, r) = 1
<1>1. Cardinality({}) = 0 /\ \A i : Cardinality({i}) = 1
  BY FS_EmptySet, FS_Singleton
<1>2. /\ r \in E => Cardinality({r} \cap E) = 1
      /\ r \notin E => Cardinality({r} \cap E) = 0
  <2>1. r \in E => {r} \cap E = {r}
    OBVIOUS
  <2>2. r \notin E => {r} \cap E = {}
    OBVIOUS
  <2> QED BY <1>1, <2>1, <2>2
<1>3. /\ r \in B => Cardinality({r} \cap B) = 1
      /\ r \notin B => Cardinality({r} \cap B) = 0
  <2>1. r \in B => {r} \cap B = {r}
    OBVIOUS
  <2>2. r \notin B => {r} \cap B = {}
    OBVIOUS
  <2> QED BY <1>1, <2>1, <2>2
<1>4. (\E i : S = {i}) => Cardinality(S) = 1
  BY <1>1
<1>5. S = {} => Cardinality(S) = 0
  BY <1>1
<1> DEFINE a == Cardinality(S)
<1> DEFINE b == Cardinality({r} \cap E)
<1> DEFINE c == Cardinality({r} \cap B)
<1>6. Count(S, E, B, r) = a + b + c
  BY DEF Count
<1> HIDE DEF a, b, c
<1> QED BY <1>2, <1>3, <1>4, <1>5, <1>6 DEF a, b, c

LEMMA InvariantPlaces == IInv => InOnePlace
<1> SUFFICES ASSUME IInv PROVE InOnePlace
  OBVIOUS
<1>1. TypeOK /\ Numbered /\ Placed
  BY DEF IInv
<1>3. ASSUME NEW r
      PROVE  /\ r \in QueueRobs => \E i : InIq(r) = {i}
             /\ r \notin QueueRobs => InIq(r) = {}
             /\ Places(r) = Count(InIq(r), DOMAIN eu, r_wb, r)
  <2>1. Places(r) = Count(InIq(r), DOMAIN eu, r_wb, r)
    BY DEF Places, Count
  <2>2. ASSUME r \in QueueRobs PROVE \E i : InIq(r) = {i}
    <3>1. PICK i \in DOMAIN iq : iq[i].rob = r
      BY <2>2 DEF QueueRobs
    <3>2. \A j \in DOMAIN iq : iq[j].rob = r => j = i
      BY <1>1, <3>1 DEF Placed
    <3>3. InIq(r) = {i}
      BY <3>1, <3>2 DEF InIq
    <3> QED BY <3>3
  <2>3. ASSUME r \notin QueueRobs PROVE InIq(r) = {}
    BY <2>3 DEF InIq, QueueRobs
  <2> QED BY <2>1, <2>2, <2>3
<1>4. /\ UndoneRobs = QueueRobs \cup DOMAIN eu \cup r_wb
      /\ QueueRobs \cap (DOMAIN eu \cup r_wb) = {} /\ DOMAIN eu \cap r_wb = {}
  BY <1>1 DEF Placed
<1>5. ASSUME NEW r \in UndoneRobs PROVE Places(r) = 1
  <2>1. CASE r \in QueueRobs
    <3>1. (\E i : InIq(r) = {i}) /\ r \notin DOMAIN eu /\ r \notin r_wb
      BY <1>3, <1>4, <2>1
    <3>2. Count(InIq(r), DOMAIN eu, r_wb, r) = 1
      BY <3>1, CountPlaces
    <3> QED BY <1>3, <3>2
  <2>2. CASE r \notin QueueRobs
    <3>1. InIq(r) = {}
      BY <1>3, <2>2
    <3>3. (r \in DOMAIN eu /\ r \notin r_wb) \/ (r \notin DOMAIN eu /\ r \in r_wb)
      BY <1>4, <2>2
    <3>2. Count(InIq(r), DOMAIN eu, r_wb, r) = 1
      BY <3>1, <3>3, CountPlaces
    <3> QED BY <1>3, <3>2
  <2> QED BY <2>1, <2>2
<1>6. ASSUME NEW r, r \notin UndoneRobs PROVE Places(r) = 0
  <2>1. InIq(r) = {} /\ r \notin DOMAIN eu /\ r \notin r_wb
    BY <1>3, <1>4, <1>6
  <2>2. Count(InIq(r), DOMAIN eu, r_wb, r) = 0
    BY <2>1, CountPlaces
  <2> QED BY <1>3, <2>2
<1>7. ASSUME NEW k \in Live
      PROVE  Places(win[k].rob) = IF win[k].done THEN 0 ELSE 1
  <2>1. CASE win[k].done
    <3>1. win[k].rob \notin UndoneRobs
      <4> SUFFICES ASSUME win[k].rob \in UndoneRobs PROVE FALSE
        OBVIOUS
      <4>1. PICK h \in Live : ~win[h].done /\ win[h].rob = win[k].rob
        BY DEF UndoneRobs
      <4>2. h = k
        BY <1>1, <4>1, DifferentEntries
      <4> QED BY <2>1, <4>1, <4>2
    <3> QED BY <1>6, <2>1, <3>1
  <2>2. CASE ~win[k].done
    <3>1. win[k].rob \in UndoneRobs
      BY <2>2 DEF UndoneRobs
    <3> QED BY <1>5, <2>2, <3>1
  <2> QED BY <2>1, <2>2
<1>8. ASSUME NEW r \in RobIx \ {win[k].rob : k \in Live} PROVE Places(r) = 0
  <2>1. r \notin UndoneRobs
    BY DEF UndoneRobs
  <2> QED BY <1>6, <2>1
<1> QED BY <1>1, <1>7, <1>8 DEF InOnePlace, Placed, Waiting

\* No uop is dropped, executed twice or written back twice: a live one is in the
\* queue, in the pool, on its way to the reorder buffer or done, and an access
\* that waits has one request (be_iq.v, be_eu.v and the wiring of top.v).
THEOREM OnePlaceEach == Spec => []InOnePlace
BY SchedulerInvariance, InvariantPlaces, PTL
----------------------------------------------------------------------------
(* Second part: the invariant.                                             *)

\* A destination is a register that no older live uop, nor the uop itself,
\* reads or writes.
FreshDsts ==
  /\ \A k \in Live : win[k].u.dst \notin win[k].u.src
  /\ \A j, k \in Live : j < k => win[k].u.dst \notin win[j].u.src \cup Dst(win[j].u)

\* A live uop is not started as long as it is in the queue.
Started == \A k \in Live : win[k].t = 0 <=> win[k].rob \in QueueRobs

\* The queue blocks the destinations it holds, the pool those it holds of uops
\* that take longer than a cycle.
Scoreboard ==
  /\ \A p \in Phys : p \in wait_m <=> \E i \in DOMAIN iq : iq[i].u.dst = p
  /\ \A k \in Live : win[k].rob \in DOMAIN eu =>
       /\ eu[win[k].rob].dst = win[k].u.dst
       /\ eu[win[k].rob].wt => IsMem(win[k].u)
  /\ \A p \in Phys : p \notin prf_rdy <=>
       \E k \in Live : win[k].u.dst = p /\ win[k].rob \in DOMAIN eu /\ ~Quick(win[k].u)

\* A source that a slot no longer waits for is ready, and stays so.
PendExact ==
  \A i \in DOMAIN iq : /\ iq[i].pend \subseteq iq[i].u.src
                       /\ iq[i].u.src \ iq[i].pend \subseteq EffReady(prf_rdy)

\* What a uop has waited and what it still counts make up its latency.
Latency ==
  \A k \in Live : ~IsMem(win[k].u) /\ win[k].u.lat >= 2 /\ win[k].t > 0 =>
    IF win[k].rob \in DOMAIN eu
      THEN win[k].t + eu[win[k].rob].cnt >= win[k].u.lat - 1
      ELSE win[k].t >= win[k].u.lat

\* The age of a slot is the place of its uop in the window, counted from the end.
Ages ==
  \A i \in DOMAIN iq, k \in Live :
    iq[i].rob = win[k].rob => iq[i].seq = (seq_ctr + k - 1 - Len(win)) % SeqMod

OInv ==
  /\ IInv /\ FreshDsts /\ Started /\ Scoreboard /\ PendExact /\ Latency /\ Ages

----------------------------------------------------------------------------
(* The moves of a cycle, as these proofs use them.                         *)

\* The window: c uops retire, q go on, n are new.
Shift(c, q, n, ds) ==
  /\ n = Len(ds) /\ Len(win) = c + q /\ Len(win') = q + n /\ c = n_cmt
  /\ \A k \in 1..c : win[k].done
  /\ \A k \in 1..q :
       /\ c + k \in Live /\ win[c + k] \in WinRec
       /\ win'[k].u = win[c + k].u /\ win'[k].rob = win[c + k].rob
       /\ win'[k].done <=> (win[c + k].done \/ win[c + k].rob \in r_wb)
       /\ win'[k].t = Aged(win[c + k], Issued(prf_rdy)).t
  /\ \A j \in 1..n :
       /\ win'[q + j].u = ds[j] /\ win'[q + j].rob = Entry(j)
       /\ ~win'[q + j].done /\ win'[q + j].t = 0

LEMMA CycleWindow ==
  ASSUME IInv, NEW ds \in Bundles, NEW lsu_ready \in BOOLEAN, NEW lsu_done \in Answers,
         Cycle(ds, lsu_ready, lsu_done)
  PROVE  \E c, q, n \in Nat : Shift(c, q, n, ds)
<1>1. TypeOK /\ Numbered /\ Placed
  BY DEF IInv
<1>2. Len(ds) \in Nat
  BY <1>1, BundleProperty DEF Numbered
<1>3. /\ Len(win) \in Nat /\ n_cmt \in 0..Len(win) /\ \A k \in 1..n_cmt : win[k].done
  BY <1>1, RetireScan DEF Numbered
<1>4. /\ Len(win') = (Len(win) - n_cmt) + Len(ds)
      /\ \A k \in 1..Len(win)-n_cmt : win'[k] = Aged(win[n_cmt + k], Issued(prf_rdy))
      /\ \A j \in 1..Len(ds) :
           win'[(Len(win) - n_cmt) + j] = [u |-> ds[j], rob |-> Entry(j), done |-> FALSE, t |-> 0]
  BY <1>1, WindowMoves
<1> PICK n \in Nat : n = Len(ds)
  BY <1>2
<1> PICK m \in Nat : m = Len(win)
  BY <1>3
<1> PICK c \in 0..m : c = n_cmt
  BY <1>3
<1>5. m - c \in Nat /\ c \in Nat
  OBVIOUS
<1> PICK q \in Nat : q = m - c
  BY <1>5
<1>6. Len(win) = c + q /\ Len(win') = q + n
  BY <1>4
<1>7. ASSUME NEW k \in 1..q
      PROVE  /\ c + k \in Live /\ win[c + k] \in WinRec
             /\ win'[k].u = win[c + k].u /\ win'[k].rob = win[c + k].rob
             /\ win'[k].done <=> (win[c + k].done \/ win[c + k].rob \in r_wb)
             /\ win'[k].t = Aged(win[c + k], Issued(prf_rdy)).t
  <2>1. c + k \in Live
    BY DEF Live
  <2>2. win[c + k] \in WinRec
    BY <1>1, <2>1 DEF Numbered, Live
  <2>3. win'[k] = Aged(win[c + k], Issued(prf_rdy))
    BY <1>4
  <2> QED BY <2>1, <2>2, <2>3, AgedProperty
<1>8. ASSUME NEW j \in 1..n
      PROVE  /\ win'[q + j].u = ds[j] /\ win'[q + j].rob = Entry(j)
             /\ ~win'[q + j].done /\ win'[q + j].t = 0
  <2>1. win'[q + j] = [u |-> ds[j], rob |-> Entry(j), done |-> FALSE, t |-> 0]
    BY <1>4
  <2> QED BY <2>1
<1>9. /\ n = Len(ds) /\ Len(win) = c + q /\ Len(win') = q + n /\ c = n_cmt
      /\ \A k \in 1..c : win[k].done
  BY <1>3, <1>6
<1>10. c \in Nat /\ q \in Nat /\ n \in Nat
  BY <1>5
<1>11. Shift(c, q, n, ds)
  BY <1>7, <1>8, <1>9 DEF Shift
<1> QED BY <1>10, <1>11

\* The queue: what is kept forgets the sources that are ready, what is new is
\* the uops dispatched, and both are where the window has them.
LEMMA CycleQueue ==
  ASSUME IInv, NEW ds \in Bundles, NEW lsu_ready \in BOOLEAN, NEW lsu_done \in Answers,
         Cycle(ds, lsu_ready, lsu_done)
  PROVE  /\ DOMAIN iq' = Kept \cup {Given(j) : j \in 1..Len(ds)}
         /\ \A i \in Kept : /\ i \in DOMAIN iq /\ i \notin Selected(prf_rdy) /\ i \in DOMAIN iq'
                            /\ iq'[i].u = iq[i].u /\ iq'[i].rob = iq[i].rob
                            /\ iq'[i].seq = iq[i].seq
                            /\ iq'[i].pend = iq[i].pend \ EffReady(prf_rdy)
         /\ \A j \in 1..Len(ds) : /\ Given(j) \in DOMAIN iq'
                                  /\ iq'[Given(j)].u = ds[j] /\ iq'[Given(j)].rob = Entry(j)
                                  /\ iq'[Given(j)].seq = NewAge(j)
                                  /\ iq'[Given(j)].pend = Pend(ds[j], ds, prf_rdy)
<1> DEFINE n == Len(ds)
<1> DEFINE rob == [j \in 1..n |-> Entry(j)]
<1>1. TypeOK /\ Numbered /\ Placed
  BY DEF IInv
<1>2. n \in Nat /\ n <= iq_nfree(prf_rdy)
  BY <1>1, BundleProperty DEF Numbered
<1>3. IqCycle(ds, rob, prf_rdy)
  BY DEF Cycle
<1>4. /\ DOMAIN iq \subseteq 0..cfg_iq_entries-1 /\ \A i \in DOMAIN iq : iq[i] \in IqRec
  BY <1>1 DEF TypeOK, IqRec
<1>5. /\ DOMAIN iq' = Kept \cup {Given(j) : j \in 1..n}
      /\ \A i \in Kept : /\ iq'[i].u = iq[i].u /\ iq'[i].rob = iq[i].rob
                         /\ iq'[i].seq = iq[i].seq
                         /\ iq'[i].pend = iq[i].pend \ EffReady(prf_rdy)
      /\ \A j \in 1..n : iq'[Given(j)] = NewSlot(ds, rob, j)
  BY <1>2, <1>3, <1>4, QueueMoves
<1>6. ASSUME NEW j \in 1..n
      PROVE  /\ iq'[Given(j)].u = ds[j] /\ iq'[Given(j)].rob = Entry(j)
             /\ iq'[Given(j)].seq = NewAge(j)
             /\ iq'[Given(j)].pend = Pend(ds[j], ds, prf_rdy)
  <2>1. iq'[Given(j)] = NewSlot(ds, rob, j)
    BY <1>5
  <2>2. rob[j] = Entry(j)
    OBVIOUS
  <2> HIDE DEF rob
  <2>3. NewSlot(ds, rob, j) = [u |-> ds[j], rob |-> Entry(j), pend |-> Pend(ds[j], ds, prf_rdy),
                               seq |-> NewAge(j)]
    BY <2>2 DEF NewSlot
  <2> QED BY <2>1, <2>3
<1>7. \A i \in Kept : i \in DOMAIN iq /\ i \notin Selected(prf_rdy)
  BY DEF Kept
<1> QED BY <1>5, <1>6, <1>7

\* The pool.
LEMMA CycleEu ==
  ASSUME IInv, NEW ds \in Bundles, NEW lsu_ready \in BOOLEAN, NEW lsu_done \in Answers,
         Cycle(ds, lsu_ready, lsu_done)
  PROVE  LET iss == Issued(prf_rdy) IN
         /\ r_wb' \subseteq DOMAIN eu \cup Robs(iss)
         /\ DOMAIN eu' = (DOMAIN eu \cup Robs(iss)) \ r_wb'
         /\ \A i \in DOMAIN eu : i \notin r_wb' =>
              /\ eu'[i].dst = eu[i].dst
              /\ eu'[i].wt => eu[i].wt
              /\ eu'[i].cnt = Counted(i, lsu_done).cnt
         /\ \A i \in DOMAIN eu : i \in r_wb' /\ ~eu[i].wt => eu[i].cnt = 0
         /\ \A e \in iss : /\ e.rob \notin DOMAIN eu /\ e.u \in Uop
                           /\ e.rob \notin r_wb' =>
                                /\ eu'[e.rob].dst = e.u.dst
                                /\ eu'[e.rob].wt <=> IsMem(e.u)
                                /\ eu'[e.rob].cnt = Countdown(e.u.lat)
                           /\ e.rob \in r_wb' => Quick(e.u)
         /\ \A e, f \in iss : e.rob = f.rob => e = f
<1> DEFINE iss == Issued(prf_rdy)
<1>1. TypeOK /\ Placed
  BY DEF IInv
<1>2. /\ \A e \in iss : e.u \in Uop /\ e.rob \notin DOMAIN eu
      /\ \A e, f \in iss : e.rob = f.rob => e = f
  BY <1>1, IssuedProperty
<1>3. EuCycle(iss, lsu_ready, lsu_done)
  BY DEF Cycle
<1>4. \A i \in DOMAIN eu : eu[i] \in EuRec
  BY <1>1 DEF TypeOK, EuRec
<1>5. /\ r_wb' \subseteq DOMAIN eu \cup Robs(iss)
      /\ DOMAIN eu' = (DOMAIN eu \cup Robs(iss)) \ r_wb'
      /\ \A i \in DOMAIN eu : i \notin r_wb' => eu'[i] = Counted(i, lsu_done)
      /\ \A e \in iss : e.rob \notin r_wb' => eu'[e.rob] = Filled(e.u)
      /\ \A e \in iss : e.rob \in r_wb' => Quick(e.u)
      /\ \A i \in DOMAIN eu : i \in r_wb' /\ ~eu[i].wt => eu[i].cnt = 0
  <2> HIDE DEF iss
  <2>1. \A e \in iss : e.rob \notin DOMAIN eu
    BY <1>2
  <2>2. \A e, f \in iss : e.rob = f.rob => e = f
    BY <1>2
  <2>3. \A i \in DOMAIN eu : eu[i] \in EuRec
    BY <1>4
  <2>4. \A i \in DOMAIN eu : i \in r_wb' /\ ~eu[i].wt => eu[i].cnt = 0
    BY <2>1, <2>2, <2>3, <1>3, PoolMoves
  <2>5. /\ r_wb' \subseteq DOMAIN eu \cup Robs(iss)
        /\ DOMAIN eu' = (DOMAIN eu \cup Robs(iss)) \ r_wb'
        /\ \A i \in DOMAIN eu : i \notin r_wb' => eu'[i] = Counted(i, lsu_done)
        /\ \A i \in DOMAIN eu : i \in r_wb' /\ eu[i].wt => i \in lsu_done
        /\ \A e \in iss : e.rob \notin r_wb' => eu'[e.rob] = Filled(e.u)
        /\ \A e \in iss : e.rob \in r_wb' => Quick(e.u)
    BY <2>1, <2>2, <2>3, <1>3, PoolMoves
  <2> QED BY <2>4, <2>5
<1>6. ASSUME NEW i \in DOMAIN eu, i \notin r_wb'
      PROVE  /\ eu'[i].dst = eu[i].dst /\ (eu'[i].wt => eu[i].wt)
             /\ eu'[i].cnt = Counted(i, lsu_done).cnt
  <2>1. eu'[i] = Counted(i, lsu_done) /\ eu[i] \in EuRec
    BY <1>4, <1>5, <1>6
  <2> QED BY <2>1, CountedProperty
<1>7. ASSUME NEW e \in iss, e.rob \notin r_wb'
      PROVE  /\ eu'[e.rob].dst = e.u.dst /\ (eu'[e.rob].wt <=> IsMem(e.u))
             /\ eu'[e.rob].cnt = Countdown(e.u.lat)
  <2>1. eu'[e.rob] = Filled(e.u) /\ e.u \in Uop
    BY <1>2, <1>5, <1>7
  <2> QED BY <2>1, FilledProperty
<1> QED BY <1>2, <1>5, <1>6, <1>7

----------------------------------------------------------------------------
(* What the invariants say of a state.                                     *)

LEMMA LiveUop ==
  ASSUME IInv, NEW k \in Live
  PROVE  /\ Len(win) \in Nat /\ k \in 1..Len(win) /\ win[k] \in WinRec
         /\ win[k].u \in Uop /\ win[k].u.lat \in Nat /\ win[k].t \in Nat
         /\ win[k].u.dst \in Phys \cup {NoReg} /\ win[k].u.src \subseteq Phys
         /\ win[k].done \in BOOLEAN
<1>1. Len(win) \in Nat /\ k \in 1..Len(win) /\ win[k] \in WinRec
  BY DEF IInv, Numbered, Live
<1>2. win[k].u \in Uop /\ win[k].t \in 0..LAT_MAX /\ win[k].done \in BOOLEAN
  BY <1>1 DEF WinRec
<1>3. win[k].u.lat \in 0..LAT_MAX /\ win[k].u.dst \in Phys \cup {NoReg} /\ win[k].u.src \in SUBSET Phys
  BY <1>2 DEF Uop
<1> QED BY <1>1, <1>2, <1>3

\* A register has one live writer.
LEMMA UniqueWriter ==
  ASSUME IInv, FreshDsts, NEW h \in Live, NEW k \in Live,
         win[h].u.dst = win[k].u.dst, win[k].u.dst \in Phys
  PROVE  h = k
<1>1. ASSUME NEW x \in Live, NEW y \in Live, x < y, win[y].u.dst \in Phys
      PROVE  win[x].u.dst # win[y].u.dst
  <2>1. win[y].u.dst \notin Dst(win[x].u)
    BY <1>1 DEF FreshDsts
  <2> QED BY <1>1, <2>1 DEF Dst
<1>2. h \in Int /\ k \in Int
  BY LiveUop
<1> QED BY <1>1, <1>2

\* A slot of the queue and the uop that it holds.
LEMMA HeldUop ==
  ASSUME IInv, NEW i \in DOMAIN iq
  PROVE  \E k \in Live : /\ win[k].rob = iq[i].rob /\ win[k].u = iq[i].u /\ ~win[k].done
                         /\ win[k].rob \in QueueRobs /\ win[k].rob \notin DOMAIN eu
                         /\ win[k].rob \notin r_wb
<1>1. iq[i].rob \in QueueRobs
  BY DEF QueueRobs
<1>2. PICK k \in Live : win[k].rob = iq[i].rob /\ win[k].u = iq[i].u
  BY DEF IInv, Placed
<1>3. PICK h \in Live : win[h].rob = iq[i].rob /\ ~win[h].done
  BY <1>1 DEF IInv, Placed, UndoneRobs
<1>4. h = k
  BY <1>2, <1>3, DifferentEntries DEF IInv
<1>5. win[k].rob \notin DOMAIN eu /\ win[k].rob \notin r_wb
  BY <1>1, <1>2 DEF IInv, Placed
<1> QED BY <1>1, <1>2, <1>3, <1>4, <1>5

\* The entry of a uop in the queue, in the pool or written back is not done.
LEMMA PlacedUop ==
  ASSUME IInv
  PROVE  /\ \A k \in Live :
              win[k].rob \in QueueRobs \cup DOMAIN eu \cup r_wb <=> ~win[k].done
         /\ \A r \in QueueRobs \cup DOMAIN eu \cup r_wb : \E k \in Live : win[k].rob = r
         /\ \A r \in QueueRobs : r \notin DOMAIN eu \cup r_wb
         /\ \A r \in DOMAIN eu : r \notin r_wb
<1>1. /\ UndoneRobs = QueueRobs \cup DOMAIN eu \cup r_wb
      /\ QueueRobs \cap (DOMAIN eu \cup r_wb) = {} /\ DOMAIN eu \cap r_wb = {}
  BY DEF IInv, Placed
<1>2. ASSUME NEW k \in Live PROVE win[k].rob \in UndoneRobs <=> ~win[k].done
  <2>1. ASSUME win[k].rob \in UndoneRobs PROVE ~win[k].done
    <3>1. PICK h \in Live : ~win[h].done /\ win[h].rob = win[k].rob
      BY <2>1 DEF UndoneRobs
    <3>2. h = k
      BY <3>1, DifferentEntries DEF IInv
    <3> QED BY <3>1, <3>2
  <2>2. ASSUME ~win[k].done PROVE win[k].rob \in UndoneRobs
    BY <2>2 DEF UndoneRobs
  <2> QED BY <2>1, <2>2
<1>3. \A r \in UndoneRobs : \E k \in Live : win[k].rob = r
  BY DEF UndoneRobs
<1> QED BY <1>1, <1>2, <1>3

LEMMA NamedUops ==
  ASSUME NEW ds, NEW h, NEW i \in 1..h
  PROVE  ds[i].src \cup Dst(ds[i]) \subseteq Named(ds, h)
<1> DEFINE T == {ds[j].src \cup Dst(ds[j]) : j \in 1..h}
<1>1. ds[i].src \cup Dst(ds[i]) \in T
  OBVIOUS
<1>2. \A x \in UNION T : x \in Named(ds, h)
  BY DEF Named
<1>3. \A x \in ds[i].src \cup Dst(ds[i]) : x \in UNION T
  BY <1>1
<1> HIDE DEF T
<1> QED BY <1>2, <1>3

\* What is dispatched writes registers that nobody names.
LEMMA BundleFresh ==
  ASSUME IInv, NEW ds \in Bundles, NEW j \in 1..Len(ds)
  PROVE  /\ ds[j].dst \notin ds[j].src /\ ds[j].src \subseteq Phys
         /\ \A k \in Live : ds[j].dst \notin win[k].u.src \cup Dst(win[k].u)
         /\ \A i \in 1..j-1 : ds[j].dst \notin ds[i].src \cup Dst(ds[i])
<1>1. /\ Len(ds) \in Nat
      /\ \A h \in 1..Len(ds) : ds[h] \in Uop /\ ds[h].dst \notin ds[h].src
      /\ \A h \in 1..Len(ds) : Dst(ds[h]) \cap Named(ds, h - 1) = {}
  BY BundleProperty DEF IInv, Numbered
<1>2. \A h \in 1..Len(ds) : ds[h].src \subseteq Phys
  BY <1>1 DEF Uop
<1>3. \A u : ds[j].dst \in Dst(u) => ds[j].dst \in Dst(ds[j])
  BY DEF Dst
<1>4. ASSUME NEW k \in Live PROVE ds[j].dst \notin win[k].u.src \cup Dst(win[k].u)
  <2>1. win[k].u.src \cup Dst(win[k].u) \subseteq Named(ds, j - 1)
    BY DEF Named, Live
  <2>2. win[k].u.src \subseteq Phys
    BY LiveUop
  <2>3. ds[j].dst \in Phys => ds[j].dst \in Dst(ds[j])
    BY DEF Dst
  <2>4. Dst(win[k].u) \subseteq Phys
    BY DEF Dst
  <2> QED BY <1>1, <2>1, <2>2, <2>3, <2>4
<1>5. ASSUME NEW i \in 1..j-1 PROVE ds[j].dst \notin ds[i].src \cup Dst(ds[i])
  <2>1. ds[i].src \cup Dst(ds[i]) \subseteq Named(ds, j - 1)
    BY NamedUops
  <2>2. ds[i].src \subseteq Phys
    <3>1. i \in 1..Len(ds)
      BY <1>1
    <3> QED BY <1>2, <3>1
  <2>3. ds[j].dst \in Phys => ds[j].dst \in Dst(ds[j])
    BY DEF Dst
  <2>4. Dst(ds[i]) \subseteq Phys
    BY DEF Dst
  <2> QED BY <1>1, <2>1, <2>2, <2>3, <2>4
<1> QED BY <1>1, <1>2, <1>4, <1>5

\* A uop that is issued is one of the window, taken from a slot of the queue.
LEMMA IssuedUop ==
  ASSUME IInv, NEW e \in Issued(prf_rdy)
  PROVE  \E i \in Selected(prf_rdy), k \in Live :
           /\ i \in DOMAIN iq /\ iq[i].u = e.u /\ iq[i].rob = e.rob
           /\ win[k].u = e.u /\ win[k].rob = e.rob /\ ~win[k].done
           /\ win[k].rob \in QueueRobs /\ win[k].rob \notin DOMAIN eu
<1>1. PICK i \in Selected(prf_rdy) : e = [u |-> iq[i].u, rob |-> iq[i].rob]
  BY DEF Issued
<1>2. i \in DOMAIN iq
  <2>1. i \in Ready(prf_rdy)
    BY SelectedReady
  <2> QED BY <2>1 DEF Ready
<1>3. iq[i].u = e.u /\ iq[i].rob = e.rob
  BY <1>1
<1> QED BY <1>2, <1>3, HeldUop

----------------------------------------------------------------------------
(* A cycle keeps each part of the invariant.                               *)

LEMMA CycleKeepsFresh ==
  ASSUME IInv, FreshDsts, NEW ds \in Bundles, NEW lsu_ready \in BOOLEAN,
         NEW lsu_done \in Answers, Cycle(ds, lsu_ready, lsu_done)
  PROVE  FreshDsts'
<1> PICK c \in Nat, q \in Nat, n \in Nat : Shift(c, q, n, ds)
  BY CycleWindow
<1>1. /\ n = Len(ds) /\ Len(win') = q + n
      /\ \A k \in 1..q : c + k \in Live /\ win'[k].u = win[c + k].u
      /\ \A j \in 1..n : win'[q + j].u = ds[j]
  BY DEF Shift
<1>2. \A k \in 1..q+n : k \in 1..q \/ \E j \in 1..n : k = q + j
  <2> SUFFICES ASSUME NEW k \in 1..q+n, k \notin 1..q PROVE \E j \in 1..n : k = q + j
    OBVIOUS
  <2>1. k - q \in 1..n /\ k = q + (k - q)
    OBVIOUS
  <2> QED BY <2>1
<1>3. /\ \A j \in 1..n : ds[j].dst \notin ds[j].src
      /\ \A j \in 1..n, k \in Live : ds[j].dst \notin win[k].u.src \cup Dst(win[k].u)
      /\ \A j \in 1..n : \A i \in 1..j-1 : ds[j].dst \notin ds[i].src \cup Dst(ds[i])
  BY <1>1, BundleFresh
<1>4. /\ \A k \in Live : win[k].u.dst \notin win[k].u.src
      /\ \A j, k \in Live : j < k => win[k].u.dst \notin win[j].u.src \cup Dst(win[j].u)
  BY DEF FreshDsts
<1>5. ASSUME NEW k \in 1..q+n PROVE win'[k].u.dst \notin win'[k].u.src
  <2>1. CASE k \in 1..q
    <3>1. c + k \in Live /\ win'[k].u = win[c + k].u
      BY <1>1, <2>1
    <3>2. win[c + k].u.dst \notin win[c + k].u.src
      BY <1>4, <3>1
    <3> QED BY <3>1, <3>2
  <2>2. CASE k \notin 1..q
    <3>1. PICK j \in 1..n : k = q + j
      BY <1>2, <2>2
    <3>2. win'[k].u = ds[j] /\ ds[j].dst \notin ds[j].src
      BY <1>1, <1>3, <3>1
    <3> QED BY <3>2
  <2> QED BY <2>1, <2>2
<1>6. ASSUME NEW h \in 1..q+n, NEW k \in 1..q+n, h < k
      PROVE  win'[k].u.dst \notin win'[h].u.src \cup Dst(win'[h].u)
  <2>1. CASE k \in 1..q
    <3>1. h \in 1..q /\ c + h < c + k
      BY <1>6, <2>1
    <3> QED BY <1>1, <1>4, <2>1, <3>1
  <2>2. CASE k \notin 1..q
    <3>1. PICK j \in 1..n : k = q + j
      BY <1>2, <2>2
    <3>2. CASE h \in 1..q
      BY <1>1, <1>3, <3>1, <3>2
    <3>3. CASE h \notin 1..q
      <4>1. PICK i \in 1..n : h = q + i
        BY <1>2, <3>3
      <4>2. i \in 1..j-1
        BY <1>6, <3>1, <4>1
      <4>3. win'[k].u = ds[j] /\ win'[h].u = ds[i]
        BY <1>1, <3>1, <4>1
      <4> QED BY <1>3, <4>2, <4>3
    <3> QED BY <3>2, <3>3
  <2> QED BY <2>1, <2>2
<1> QED BY <1>1, <1>5, <1>6 DEF FreshDsts, Live

LEMMA CycleKeepsStarted ==
  ASSUME IInv, Started, NEW ds \in Bundles, NEW lsu_ready \in BOOLEAN,
         NEW lsu_done \in Answers, Cycle(ds, lsu_ready, lsu_done)
  PROVE  Started'
<1> DEFINE I == Robs(Issued(prf_rdy))
<1> DEFINE N == {Entry(j) : j \in 1..Len(ds)}
<1> PICK c \in Nat, q \in Nat, n \in Nat : Shift(c, q, n, ds)
  BY CycleWindow
<1>1. /\ n = Len(ds) /\ Len(win') = q + n
      /\ \A k \in 1..q : /\ c + k \in Live /\ win[c + k] \in WinRec
                         /\ win'[k].rob = win[c + k].rob
                         /\ win'[k].t = Aged(win[c + k], Issued(prf_rdy)).t
      /\ \A j \in 1..n : win'[q + j].rob = Entry(j) /\ win'[q + j].t = 0
  BY DEF Shift
<1>2. /\ I \subseteq QueueRobs /\ QueueRobs' = (QueueRobs \ I) \cup N
      /\ \A k \in Live : win[k].rob \notin N
  <2>1. N \cap {win[k].rob : k \in Live} = {}
    BY CycleMoves
  <2>2. I \subseteq QueueRobs /\ QueueRobs' = (QueueRobs \ I) \cup N
    BY CycleMoves
  <2> QED BY <2>1, <2>2
<1>3. ASSUME NEW k \in 1..q PROVE win'[k].t = 0 <=> win'[k].rob \in QueueRobs'
  <2>1. win[c + k].t \in Nat /\ win[c + k].u.lat \in Nat
    BY <1>1, LiveUop
  <2>2. win[c + k].t = 0 <=> win[c + k].rob \in QueueRobs
    BY <1>1 DEF Started
  <2>3. win'[k].t = IF win[c + k].rob \in I THEN 1
                    ELSE IF win[c + k].t > 0 /\ win[c + k].t < win[c + k].u.lat
                         THEN win[c + k].t + 1 ELSE win[c + k].t
    BY <1>1, AgedProperty
  <2>4. win'[k].t = 0 <=> (win[c + k].t = 0 /\ win[c + k].rob \notin I)
    <3> HIDE DEF I
    <3> QED BY <2>1, <2>3
  <2>5. win'[k].rob = win[c + k].rob /\ win[c + k].rob \notin N
    BY <1>1, <1>2
  <2> HIDE DEF I, N
  <2> QED BY <1>2, <2>2, <2>4, <2>5
<1>4. ASSUME NEW k \in 1..q+n, k \notin 1..q PROVE win'[k].t = 0 /\ win'[k].rob \in QueueRobs'
  <2>1. k - q \in 1..n /\ k = q + (k - q)
    BY <1>4
  <2>2. PICK j \in 1..n : k = q + j
    BY <2>1
  <2>3. Entry(j) \in N
    BY <1>1
  <2> HIDE DEF N
  <2> QED BY <1>1, <1>2, <2>2, <2>3
<1>5. \A k \in 1..q+n : win'[k].t = 0 <=> win'[k].rob \in QueueRobs'
  BY <1>3, <1>4
<1> QED BY <1>1, <1>5 DEF Started, Live
\* What the queue blocks: the destinations that leave are not those that stay.
LEMMA CycleKeepsWait ==
  ASSUME IInv, FreshDsts, Scoreboard, NEW ds \in Bundles, NEW lsu_ready \in BOOLEAN,
         NEW lsu_done \in Answers, Cycle(ds, lsu_ready, lsu_done)
  PROVE  \A p \in Phys : p \in wait_m' <=> \E i \in DOMAIN iq' : iq'[i].u.dst = p
<1> DEFINE out == {iq[i].u : i \in Selected(prf_rdy)}
<1> DEFINE in  == {ds[j] : j \in 1..Len(ds)}
<1>1. wait_m' = (wait_m \ Dsts(out)) \cup Dsts(in)
  BY DEF Cycle, IqCycle
<1>2. \A S, p : p \in Phys => (p \in Dsts(S) <=> \E u \in S : u.dst = p)
  BY DEF Dsts, Dst
<1>3. /\ DOMAIN iq' = Kept \cup {Given(j) : j \in 1..Len(ds)}
      /\ \A i \in Kept : i \in DOMAIN iq /\ i \notin Selected(prf_rdy) /\ iq'[i].u = iq[i].u
      /\ \A j \in 1..Len(ds) : iq'[Given(j)].u = ds[j]
  BY CycleQueue
<1>4. \A i \in Selected(prf_rdy) : i \in DOMAIN iq
  BY SelectedReady DEF Ready
<1>5. \A i \in DOMAIN iq : i \in Kept \/ i \in Selected(prf_rdy)
  BY DEF Kept
<1>6. ASSUME NEW i \in DOMAIN iq, NEW h \in DOMAIN iq, iq[i].u.dst = iq[h].u.dst, iq[i].u.dst \in Phys
      PROVE  i = h
  <2>1. PICK k \in Live : win[k].rob = iq[i].rob /\ win[k].u = iq[i].u
    BY HeldUop
  <2>2. PICK l \in Live : win[l].rob = iq[h].rob /\ win[l].u = iq[h].u
    BY HeldUop
  <2>3. k = l
    BY <1>6, <2>1, <2>2, UniqueWriter
  <2> QED BY <2>1, <2>2, <2>3 DEF IInv, Placed
<1>7. \A p \in Phys : p \in wait_m <=> \E i \in DOMAIN iq : iq[i].u.dst = p
  BY DEF Scoreboard
<1>8. \A p \in Phys : p \in Dsts(out) <=> \E i \in Selected(prf_rdy) : iq[i].u.dst = p
  BY <1>2
<1>9. \A p \in Phys : p \in Dsts(in) <=> \E j \in 1..Len(ds) : ds[j].dst = p
  BY <1>2
<1> HIDE DEF out, in
<1>10. ASSUME NEW p \in Phys
       PROVE  p \in wait_m' <=> \E i \in DOMAIN iq' : iq'[i].u.dst = p
  <2>1. ASSUME p \in wait_m' PROVE \E i \in DOMAIN iq' : iq'[i].u.dst = p
    <3>1. CASE p \in Dsts(in)
      BY <1>3, <1>9, <3>1
    <3>2. CASE p \in wait_m /\ p \notin Dsts(out)
      <4>1. PICK i \in DOMAIN iq : iq[i].u.dst = p
        BY <1>7, <3>2
      <4>2. i \in Kept
        BY <1>5, <1>8, <3>2, <4>1
      <4> QED BY <1>3, <4>1, <4>2
    <3> QED BY <1>1, <2>1, <3>1, <3>2
  <2>2. ASSUME NEW i \in DOMAIN iq', iq'[i].u.dst = p PROVE p \in wait_m'
    <3>1. CASE i \in Kept
      <4>1. i \in DOMAIN iq /\ i \notin Selected(prf_rdy) /\ iq[i].u.dst = p
        BY <1>3, <2>2, <3>1
      <4>2. p \in wait_m
        BY <1>7, <4>1
      <4>3. p \notin Dsts(out)
        BY <1>4, <1>6, <1>8, <4>1
      <4> QED BY <1>1, <4>2, <4>3
    <3>2. CASE i \notin Kept
      <4>1. PICK j \in 1..Len(ds) : i = Given(j)
        BY <1>3, <3>2
      <4>2. ds[j].dst = p
        BY <1>3, <2>2, <4>1
      <4> QED BY <1>1, <1>9, <4>2
    <3> QED BY <3>1, <3>2
  <2> QED BY <2>1, <2>2
<1> QED BY <1>10

\* The pool knows what it has to write.
LEMMA CycleKeepsTargets ==
  ASSUME IInv, Scoreboard, NEW ds \in Bundles, NEW lsu_ready \in BOOLEAN,
         NEW lsu_done \in Answers, Cycle(ds, lsu_ready, lsu_done)
  PROVE  \A k \in 1..Len(win') : win'[k].rob \in DOMAIN eu' =>
           /\ eu'[win'[k].rob].dst = win'[k].u.dst
           /\ eu'[win'[k].rob].wt => IsMem(win'[k].u)
<1> DEFINE iss == Issued(prf_rdy)
<1> PICK c \in Nat, q \in Nat, n \in Nat : Shift(c, q, n, ds)
  BY CycleWindow
<1>1. /\ n = Len(ds) /\ Len(win') = q + n
      /\ \A k \in 1..q : c + k \in Live /\ win'[k].u = win[c + k].u /\ win'[k].rob = win[c + k].rob
      /\ \A j \in 1..n : win'[q + j].rob = Entry(j)
  BY DEF Shift
<1>2. /\ DOMAIN eu' = (DOMAIN eu \cup Robs(iss)) \ r_wb'
      /\ \A i \in DOMAIN eu : i \notin r_wb' => /\ eu'[i].dst = eu[i].dst
                                                /\ eu'[i].wt => eu[i].wt
      /\ \A e \in iss : e.rob \notin r_wb' => /\ eu'[e.rob].dst = e.u.dst
                                              /\ eu'[e.rob].wt <=> IsMem(e.u)
  BY CycleEu
<1>3. \A r \in Robs(iss) : \E e \in iss : e.rob = r
  BY DEF Robs
<1>4. ASSUME NEW k \in 1..Len(win'), win'[k].rob \in DOMAIN eu'
      PROVE  \E h \in Live : win'[k].u = win[h].u /\ win'[k].rob = win[h].rob
  <2>1. CASE k \in 1..q
    BY <1>1, <2>1
  <2>2. CASE k \notin 1..q
    <3>1. k - q \in 1..n /\ k = q + (k - q)
      BY <1>1, <2>2
    <3>2. PICK j \in 1..n : k = q + j
      BY <3>1
    <3>3. win'[k].rob = Entry(j)
      BY <1>1, <3>2
    <3>4. \A h \in Live : Entry(j) # win[h].rob
      BY <1>1, WindowMoves DEF IInv
    <3>5. Entry(j) \in DOMAIN eu \cup Robs(iss)
      BY <1>2, <1>4, <3>3
    <3>6. Robs(iss) \subseteq QueueRobs
      BY CycleMoves
    <3>7. \E h \in Live : win[h].rob = Entry(j)
      BY <3>5, <3>6, PlacedUop
    <3> QED BY <3>4, <3>7
  <2> QED BY <2>1, <2>2
<1>5. ASSUME NEW k \in 1..Len(win'), win'[k].rob \in DOMAIN eu'
      PROVE  /\ eu'[win'[k].rob].dst = win'[k].u.dst
             /\ eu'[win'[k].rob].wt => IsMem(win'[k].u)
  <2>1. PICK h \in Live : win'[k].u = win[h].u /\ win'[k].rob = win[h].rob
    BY <1>4, <1>5
  <2>2. CASE win[h].rob \in DOMAIN eu
    <3>1. win[h].rob \notin r_wb'
      BY <1>2, <1>5, <2>1
    <3>2. /\ eu[win[h].rob].dst = win[h].u.dst
          /\ eu[win[h].rob].wt => IsMem(win[h].u)
      BY <2>2 DEF Scoreboard
    <3> QED BY <1>2, <2>1, <2>2, <3>1, <3>2
  <2>3. CASE win[h].rob \notin DOMAIN eu
    <3>1. win[h].rob \in Robs(iss) /\ win[h].rob \notin r_wb'
      BY <1>2, <1>5, <2>1, <2>3
    <3>2. PICK e \in iss : e.rob = win[h].rob
      BY <1>3, <3>1
    <3>3. PICK l \in Live : win[l].u = e.u /\ win[l].rob = e.rob
      BY <3>2, IssuedUop
    <3>4. l = h
      BY <3>2, <3>3, DifferentEntries DEF IInv
    <3> QED BY <1>2, <2>1, <3>1, <3>2, <3>3, <3>4
  <2> QED BY <2>2, <2>3
<1> QED BY <1>5
\* The destination that a writeback makes ready is that of the uop of its entry.
LEMMA WrittenUop ==
  ASSUME IInv, Scoreboard, NEW lsu_done, NEW r \in Picked(Issued(prf_rdy), lsu_done),
         NEW p \in WrittenBy(r, Issued(prf_rdy))
  PROVE  p \in Phys /\ \E k \in Live : win[k].rob = r /\ win[k].u.dst = p
<1> DEFINE iss == Issued(prf_rdy)
<1> DEFINE now == {e \in Now(iss) : e.rob = r}
<1>1. CASE now # {}
  <2>1. PICK e \in now : p \in Dst(e.u)
    BY <1>1 DEF WrittenBy
  <2>2. e \in iss /\ e.rob = r
    BY DEF Now
  <2>3. PICK k \in Live : win[k].u = e.u /\ win[k].rob = e.rob
    BY <2>2, IssuedUop
  <2> QED BY <2>1, <2>2, <2>3 DEF Dst
<1>2. CASE now = {}
  <2>1. r \in DOMAIN eu /\ p = eu[r].dst /\ p \in Phys
    BY <1>2 DEF WrittenBy
  <2>2. PICK k \in Live : win[k].rob = r
    BY <2>1, PlacedUop
  <2>3. eu[r].dst = win[k].u.dst
    BY <2>1, <2>2 DEF Scoreboard
  <2> QED BY <2>1, <2>2, <2>3
<1> QED BY <1>1, <1>2

\* What is cleared is what uops that take longer than a cycle will write.
LEMMA ClearedUop ==
  ASSUME IInv, NEW p \in Phys
  PROVE  p \in Cleared(Issued(prf_rdy)) <=>
           \E e \in Issued(prf_rdy) : e.u.dst = p /\ ~Quick(e.u)
<1>1. \A e \in Issued(prf_rdy) : e.u.lat \in Nat
  <2>1. \A e \in Issued(prf_rdy) : e.u \in Uop
    BY IssuedProperty DEF IInv
  <2>2. \A u \in Uop : u.lat \in Nat
    BY ExecIfcAssumption DEF Uop
  <2> QED BY <2>1, <2>2
<1>2. \A e \in Issued(prf_rdy) : ~Quick(e.u) <=> (IsMem(e.u) \/ e.u.lat >= 2)
  BY <1>1 DEF Quick
<1>3. p \in Cleared(Issued(prf_rdy)) <=>
        \E e \in Issued(prf_rdy) : (IsMem(e.u) \/ e.u.lat >= 2) /\ p \in Dst(e.u)
  BY DEF Cleared
<1> QED BY <1>2, <1>3 DEF Dst

\* The scoreboard: a register is missing while the pool holds its writer.
LEMMA CycleKeepsReady ==
  ASSUME IInv, FreshDsts, Scoreboard, NEW ds \in Bundles, NEW lsu_ready \in BOOLEAN,
         NEW lsu_done \in Answers, Cycle(ds, lsu_ready, lsu_done)
  PROVE  \A p \in Phys : p \notin prf_rdy' <=>
           \E k \in 1..Len(win') :
             win'[k].u.dst = p /\ win'[k].rob \in DOMAIN eu' /\ ~Quick(win'[k].u)
<1> DEFINE iss == Issued(prf_rdy)
<1> DEFINE picked == Picked(iss, lsu_done)
<1> PICK c \in Nat, q \in Nat, n \in Nat : Shift(c, q, n, ds)
  BY CycleWindow
<1>1. /\ n = Len(ds) /\ Len(win) = c + q /\ Len(win') = q + n
      /\ \A k \in 1..c : win[k].done
      /\ \A k \in 1..q : c + k \in Live /\ win'[k].u = win[c + k].u /\ win'[k].rob = win[c + k].rob
      /\ \A j \in 1..n : win'[q + j].rob = Entry(j)
  BY DEF Shift
<1>2. /\ r_wb' = picked
      /\ prf_rdy' = (prf_rdy \cup UNION {WrittenBy(r, iss) : r \in picked}) \ Cleared(iss)
  BY DEF Cycle, EuCycle
<1>3. /\ r_wb' \subseteq DOMAIN eu \cup Robs(iss)
      /\ DOMAIN eu' = (DOMAIN eu \cup Robs(iss)) \ r_wb'
      /\ \A e \in iss : e.rob \notin DOMAIN eu /\ (e.rob \in r_wb' => Quick(e.u))
  BY CycleEu
<1>4. \A r : r \in Robs(iss) <=> \E e \in iss : e.rob = r
  BY DEF Robs
<1>5. \A p \in Phys : p \in Cleared(iss) <=> \E e \in iss : e.u.dst = p /\ ~Quick(e.u)
  BY ClearedUop
<1>6. \A p : p \in UNION {WrittenBy(r, iss) : r \in picked} <=>
               \E r \in picked : p \in WrittenBy(r, iss)
  OBVIOUS
<1>7. \A p \in Phys : p \notin prf_rdy <=>
        \E k \in Live : win[k].u.dst = p /\ win[k].rob \in DOMAIN eu /\ ~Quick(win[k].u)
  BY DEF Scoreboard
<1>8. \A h, k \in Live : win[h].u.dst = win[k].u.dst /\ win[k].u.dst \in Phys => h = k
  BY UniqueWriter
<1>9. ASSUME NEW r \in picked, NEW p \in WrittenBy(r, iss)
      PROVE  \E k \in Live : win[k].rob = r /\ win[k].u.dst = p
  BY WrittenUop
\* A live uop that is in the pool afterwards is where it was in the window.
<1>10. ASSUME NEW h \in Live, win[h].rob \in DOMAIN eu'
       PROVE  \E k \in 1..Len(win') : win'[k].u = win[h].u /\ win'[k].rob = win[h].rob
  <2>1. Robs(iss) \subseteq QueueRobs
    BY CycleMoves
  <2>2. ~win[h].done
    BY <1>3, <1>10, <2>1, PlacedUop
  <2>3. h - c \in 1..q /\ c + (h - c) = h
    BY <1>1, <2>2 DEF Live
  <2>4. PICK k \in 1..q : c + k = h
    BY <2>3
  <2>5. k \in 1..Len(win')
    BY <1>1
  <2> QED BY <1>1, <2>4, <2>5
<1>11. ASSUME NEW k \in 1..Len(win'), win'[k].rob \in DOMAIN eu'
       PROVE  \E h \in Live : win'[k].u = win[h].u /\ win'[k].rob = win[h].rob
  <2>1. CASE k \in 1..q
    BY <1>1, <2>1
  <2>2. CASE k \notin 1..q
    <3>1. k - q \in 1..n /\ k = q + (k - q)
      BY <1>1, <2>2
    <3>2. PICK j \in 1..n : k = q + j
      BY <3>1
    <3>3. win'[k].rob = Entry(j)
      BY <1>1, <3>2
    <3>4. \A h \in Live : Entry(j) # win[h].rob
      BY <1>1, WindowMoves DEF IInv
    <3>5. Entry(j) \in DOMAIN eu \cup Robs(iss)
      BY <1>3, <1>11, <3>3
    <3>6. Robs(iss) \subseteq QueueRobs
      BY CycleMoves
    <3>7. \E h \in Live : win[h].rob = Entry(j)
      BY <3>5, <3>6, PlacedUop
    <3> QED BY <3>4, <3>7
  <2> QED BY <2>1, <2>2
<1> HIDE DEF iss, picked
<1>12. ASSUME NEW p \in Phys, p \notin prf_rdy'
       PROVE  \E k \in 1..Len(win') :
                win'[k].u.dst = p /\ win'[k].rob \in DOMAIN eu' /\ ~Quick(win'[k].u)
  <2>1. \E h \in Live : win[h].u.dst = p /\ win[h].rob \in DOMAIN eu' /\ ~Quick(win[h].u)
    <3>1. CASE p \in Cleared(iss)
      <4>1. PICK e \in iss : e.u.dst = p /\ ~Quick(e.u)
        BY <1>5, <3>1
      <4>2. PICK h \in Live : win[h].u = e.u /\ win[h].rob = e.rob
        BY <4>1, IssuedUop DEF iss
      <4>3. e.rob \in DOMAIN eu'
        BY <1>3, <1>4, <4>1
      <4> QED BY <4>1, <4>2, <4>3
    <3>2. CASE p \notin prf_rdy /\ \A r \in picked : p \notin WrittenBy(r, iss)
      <4>1. PICK h \in Live : win[h].u.dst = p /\ win[h].rob \in DOMAIN eu /\ ~Quick(win[h].u)
        BY <1>7, <3>2
      <4>2. win[h].rob \notin picked
        <5> SUFFICES ASSUME win[h].rob \in picked PROVE FALSE
          OBVIOUS
        <5>1. {e \in Now(iss) : e.rob = win[h].rob} = {}
          BY <1>3, <4>1 DEF Now
        <5>2. eu[win[h].rob].dst = p
          BY <4>1 DEF Scoreboard
        <5>3. p \in WrittenBy(win[h].rob, iss)
          BY <4>1, <5>1, <5>2 DEF WrittenBy
        <5> QED BY <3>2, <5>3
      <4> QED BY <1>2, <1>3, <4>1, <4>2
    <3> QED BY <1>2, <1>6, <1>12, <3>1, <3>2
  <2> QED BY <1>10, <2>1
<1>13. ASSUME NEW p \in Phys, NEW k \in 1..Len(win'),
              win'[k].u.dst = p, win'[k].rob \in DOMAIN eu', ~Quick(win'[k].u)
       PROVE  p \notin prf_rdy'
  <2>1. PICK h \in Live : win'[k].u = win[h].u /\ win'[k].rob = win[h].rob
    BY <1>11, <1>13
  <2>2. win[h].u.dst = p /\ win[h].rob \in DOMAIN eu' /\ ~Quick(win[h].u)
    BY <1>13, <2>1
  <2>3. CASE win[h].rob \in DOMAIN eu
    <3>1. p \notin prf_rdy
      BY <1>7, <2>2, <2>3
    <3>2. ASSUME NEW r \in picked, p \in WrittenBy(r, iss) PROVE FALSE
      <4>1. PICK l \in Live : win[l].rob = r /\ win[l].u.dst = p
        BY <1>9, <3>2
      <4>2. l = h
        BY <1>8, <2>2, <4>1
      <4> QED BY <1>2, <1>3, <2>2, <4>1, <4>2
    <3> QED BY <1>2, <1>6, <3>1, <3>2
  <2>4. CASE win[h].rob \notin DOMAIN eu
    <3>1. PICK e \in iss : e.rob = win[h].rob
      BY <1>3, <1>4, <2>2, <2>4
    <3>2. PICK l \in Live : win[l].u = e.u /\ win[l].rob = e.rob
      BY <3>1, IssuedUop DEF iss
    <3>3. l = h
      BY <3>1, <3>2, DifferentEntries DEF IInv
    <3>4. p \in Cleared(iss)
      BY <1>5, <2>2, <3>1, <3>2, <3>3
    <3> QED BY <1>2, <3>4
  <2> QED BY <2>3, <2>4
<1> QED BY <1>12, <1>13
\* A register that is ready stays ready until somebody new is to write it.
LEMMA ReadyStays ==
  ASSUME IInv, Scoreboard, NEW ds \in Bundles, NEW lsu_ready \in BOOLEAN,
         NEW lsu_done \in Answers, Cycle(ds, lsu_ready, lsu_done),
         NEW p \in EffReady(prf_rdy), p \notin Dsts({ds[j] : j \in 1..Len(ds)})
  PROVE  p \in EffReady(prf_rdy)'
<1> DEFINE iss == Issued(prf_rdy)
<1>1. p \in prf_rdy /\ p \notin wait_m /\ p \in Phys
  BY DEF EffReady, IInv, TypeOK
<1>2. p \notin Cleared(iss)
  <2> SUFFICES ASSUME p \in Cleared(iss) PROVE FALSE
    OBVIOUS
  <2>1. PICK e \in iss : e.u.dst = p
    BY <1>1, ClearedUop
  <2>2. PICK i \in DOMAIN iq : iq[i].u = e.u
    BY <2>1, IssuedUop
  <2> QED BY <1>1, <2>1, <2>2 DEF Scoreboard
<1>3. prf_rdy' = (prf_rdy \cup UNION {WrittenBy(r, iss) : r \in Picked(iss, lsu_done)}) \ Cleared(iss)
  BY DEF Cycle, EuCycle
<1>4. wait_m' = (wait_m \ Dsts({iq[i].u : i \in Selected(prf_rdy)})) \cup Dsts({ds[j] : j \in 1..Len(ds)})
  BY DEF Cycle, IqCycle
<1>5. EffReady(prf_rdy)' = prf_rdy' \ wait_m'
  BY DEF EffReady
<1> HIDE DEF iss
<1> QED BY <1>1, <1>2, <1>3, <1>4, <1>5

\* What a slot waits for.
LEMMA CycleKeepsPend ==
  ASSUME IInv, Scoreboard, PendExact, NEW ds \in Bundles, NEW lsu_ready \in BOOLEAN,
         NEW lsu_done \in Answers, Cycle(ds, lsu_ready, lsu_done)
  PROVE  PendExact'
<1> DEFINE in == Dsts({ds[j] : j \in 1..Len(ds)})
<1>1. /\ DOMAIN iq' = Kept \cup {Given(j) : j \in 1..Len(ds)}
      /\ \A i \in Kept : /\ i \in DOMAIN iq /\ iq'[i].u = iq[i].u
                         /\ iq'[i].pend = iq[i].pend \ EffReady(prf_rdy)
      /\ \A j \in 1..Len(ds) : /\ iq'[Given(j)].u = ds[j]
                               /\ iq'[Given(j)].pend = Pend(ds[j], ds, prf_rdy)
  BY CycleQueue
<1>2. \A p \in EffReady(prf_rdy) \ in : p \in EffReady(prf_rdy)'
  BY ReadyStays
<1>3. ASSUME NEW i \in Kept, NEW p \in iq[i].u.src PROVE p \notin in
  <2>1. i \in DOMAIN iq
    BY <1>1
  <2>2. PICK k \in Live : win[k].u = iq[i].u
    BY <2>1, HeldUop
  <2>3. \A j \in 1..Len(ds) : ds[j].dst # p
    BY <2>2, BundleFresh
  <2> QED BY <2>3 DEF Dsts, Dst
<1> DEFINE R == EffReady(prf_rdy)
<1> DEFINE X == EffReady(prf_rdy)'
<1>4. ASSUME NEW i \in Kept
      PROVE  iq'[i].pend \subseteq iq'[i].u.src /\ iq'[i].u.src \ iq'[i].pend \subseteq X
  <2>1. i \in DOMAIN iq /\ iq'[i].u = iq[i].u /\ iq'[i].pend = iq[i].pend \ R
    BY <1>1
  <2>2. iq[i].pend \subseteq iq[i].u.src /\ iq[i].u.src \ iq[i].pend \subseteq R
    BY <2>1 DEF PendExact
  <2> HIDE DEF R, X, in
  <2>3. \A p \in iq[i].u.src \cap R : p \in X
    BY <1>2, <1>3 DEF R, X
  <2> QED BY <2>1, <2>2, <2>3
<1>5. ASSUME NEW j \in 1..Len(ds)
      PROVE  /\ iq'[Given(j)].pend \subseteq iq'[Given(j)].u.src
             /\ iq'[Given(j)].u.src \ iq'[Given(j)].pend \subseteq X
  <2>1. iq'[Given(j)].u = ds[j] /\ iq'[Given(j)].pend = ds[j].src \ (R \ in)
    BY <1>1 DEF Pend
  <2> HIDE DEF R, X, in
  <2>2. \A p \in R \ in : p \in X
    BY <1>2 DEF R, X
  <2> QED BY <2>1, <2>2
<1> HIDE DEF X
<1>6. \A i \in DOMAIN iq' : iq'[i].pend \subseteq iq'[i].u.src /\ iq'[i].u.src \ iq'[i].pend \subseteq X
  BY <1>1, <1>4, <1>5
<1> QED BY <1>6 DEF PendExact, X

\* The count of a uop in the pool, and how long it is there.
LEMMA CycleKeepsLatency ==
  ASSUME IInv, Started, Scoreboard, Latency, NEW ds \in Bundles, NEW lsu_ready \in BOOLEAN,
         NEW lsu_done \in Answers, Cycle(ds, lsu_ready, lsu_done)
  PROVE  Latency'
<1> DEFINE iss == Issued(prf_rdy)
<1> PICK c \in Nat, q \in Nat, n \in Nat : Shift(c, q, n, ds)
  BY CycleWindow
<1>1. /\ n = Len(ds) /\ Len(win') = q + n
      /\ \A k \in 1..q : /\ c + k \in Live /\ win[c + k] \in WinRec
                         /\ win'[k].u = win[c + k].u /\ win'[k].rob = win[c + k].rob
                         /\ win'[k].t = Aged(win[c + k], iss).t
      /\ \A j \in 1..n : win'[q + j].t = 0
  BY DEF Shift
<1>2. /\ DOMAIN eu' = (DOMAIN eu \cup Robs(iss)) \ r_wb'
      /\ \A i \in DOMAIN eu : i \notin r_wb' => eu'[i].cnt = Counted(i, lsu_done).cnt
      /\ \A i \in DOMAIN eu : i \in r_wb' /\ ~eu[i].wt => eu[i].cnt = 0
      /\ \A e \in iss : /\ e.rob \notin DOMAIN eu
                        /\ e.rob \notin r_wb' => eu'[e.rob].cnt = Countdown(e.u.lat)
                        /\ e.rob \in r_wb' => Quick(e.u)
  BY CycleEu
<1>3. \A r : r \in Robs(iss) <=> \E e \in iss : e.rob = r
  BY DEF Robs
<1>4. \A i \in DOMAIN eu : eu[i] \in EuRec /\ eu[i].cnt \in Nat
  <2>1. \A i \in DOMAIN eu : eu[i] \in EuRec
    BY DEF IInv, TypeOK, EuRec
  <2>2. \A e \in EuRec : e.cnt \in Nat
    BY ExecIfcAssumption DEF EuRec
  <2> QED BY <2>1, <2>2
<1> HIDE DEF iss
<1>5. ASSUME NEW k \in 1..q, ~IsMem(win'[k].u), win'[k].u.lat >= 2, win'[k].t > 0
      PROVE  IF win'[k].rob \in DOMAIN eu'
               THEN win'[k].t + eu'[win'[k].rob].cnt >= win'[k].u.lat - 1
               ELSE win'[k].t >= win'[k].u.lat
  <2>1. /\ c + k \in Live /\ win[c + k] \in WinRec
        /\ win'[k].u = win[c + k].u /\ win'[k].rob = win[c + k].rob
        /\ win'[k].t = Aged(win[c + k], iss).t
    BY <1>1
  <2>2. PICK r : r = win[c + k].rob
    OBVIOUS
  <2>3. PICK t \in Nat : t = win[c + k].t
    BY <2>1, LiveUop
  <2>4. PICK lat \in Nat : lat = win[c + k].u.lat
    BY <2>1, LiveUop
  <2>5. lat >= 2 /\ ~IsMem(win[c + k].u)
    BY <1>5, <2>1, <2>4
  <2>6. win'[k].t = IF r \in Robs(iss) THEN 1 ELSE IF t > 0 /\ t < lat THEN t + 1 ELSE t
    BY <2>1, <2>2, <2>3, <2>4, AgedProperty
  <2>7. t > 0 => IF r \in DOMAIN eu THEN t + eu[r].cnt >= lat - 1 ELSE t >= lat
    BY <2>1, <2>2, <2>3, <2>4, <2>5 DEF Latency
  <2>8. CASE r \in Robs(iss)
    <3>1. PICK e \in iss : e.rob = r
      BY <1>3, <2>8
    <3>2. PICK h \in Live : win[h].u = e.u /\ win[h].rob = e.rob
      BY <3>1, IssuedUop DEF iss
    <3>3. e.u = win[c + k].u
      BY <2>1, <2>2, <3>1, <3>2, DifferentEntries DEF IInv
    <3>4. ~Quick(e.u)
      BY <2>4, <2>5, <3>3 DEF Quick
    <3>5. r \notin r_wb' /\ r \in DOMAIN eu'
      BY <1>2, <2>8, <3>1, <3>4
    <3>6. eu'[r].cnt = lat - 2
      BY <1>2, <2>4, <2>5, <3>1, <3>3, <3>5 DEF Countdown
    <3>7. win'[k].t = 1
      BY <2>6, <2>8
    <3>8. 1 + (lat - 2) >= lat - 1
      OBVIOUS
    <3> QED BY <2>1, <2>2, <2>4, <3>5, <3>6, <3>7, <3>8
  <2>9. CASE r \notin Robs(iss)
    <3>1. t > 0
      BY <1>5, <2>6, <2>9
    <3>2. PICK x \in Nat : x = IF t < lat THEN t + 1 ELSE t
      OBVIOUS
    <3>3. win'[k].t = x
      BY <2>6, <2>9, <3>1, <3>2
    <3>4. CASE r \in DOMAIN eu /\ r \notin r_wb'
      <4>1. PICK z \in Nat : z = eu[r].cnt
        BY <1>4, <3>4
      <4>2. eu'[r].cnt = Counted(r, lsu_done).cnt
        BY <1>2, <3>4
      <4>3. Counted(r, lsu_done).cnt = IF ~eu[r].wt /\ z > 0 THEN z - 1 ELSE z
        BY <1>4, <3>4, <4>1, CountedProperty
      <4>4. PICK y \in Nat : y = IF ~eu[r].wt /\ z > 0 THEN z - 1 ELSE z
        <5>1. (IF ~eu[r].wt /\ z > 0 THEN z - 1 ELSE z) \in Nat
          OBVIOUS
        <5> QED BY <5>1
      <4>5. t + z >= lat - 1
        BY <2>7, <3>1, <3>4, <4>1
      <4>6. y >= z - 1
        BY <4>4
      <4>7. x + y >= lat - 1
        BY <3>2, <4>5, <4>6
      <4>8. eu'[r].cnt = y /\ r \in DOMAIN eu'
        BY <1>2, <3>4, <4>2, <4>3, <4>4
      <4> QED BY <2>1, <2>2, <2>4, <3>3, <4>7, <4>8
    <3>5. CASE r \in DOMAIN eu /\ r \in r_wb'
      <4>1. ~eu[r].wt
        BY <2>1, <2>2, <2>5, <3>5 DEF Scoreboard
      <4>2. eu[r].cnt = 0
        BY <1>2, <3>5, <4>1
      <4>3. t >= lat - 1
        BY <2>7, <3>1, <3>5, <4>2
      <4>4. x >= lat
        BY <3>2, <4>3
      <4>5. r \notin DOMAIN eu'
        BY <1>2, <3>5
      <4> QED BY <2>1, <2>2, <2>4, <3>3, <4>4, <4>5
    <3>6. CASE r \notin DOMAIN eu
      <4>1. x >= lat
        BY <2>7, <3>1, <3>2, <3>6
      <4>2. r \notin DOMAIN eu'
        BY <1>2, <2>9, <3>6
      <4> QED BY <2>1, <2>2, <2>4, <3>3, <4>1, <4>2
    <3> QED BY <3>4, <3>5, <3>6
  <2> QED BY <2>8, <2>9
<1>6. ASSUME NEW k \in 1..q+n, k \notin 1..q PROVE ~(win'[k].t > 0)
  <2>1. k - q \in 1..n /\ k = q + (k - q)
    BY <1>6
  <2>2. win'[k].t = 0
    BY <1>1, <2>1
  <2> QED BY <2>2
<1> QED BY <1>1, <1>5, <1>6 DEF Latency, Live
\* Counting from a number that has gone round is counting from before.
LEMMA RoundMoves ==
  ASSUME NEW r \in Nat \ {0}, NEW s \in 0..2*r-1, NEW n \in 0..r, NEW d \in Int, -r <= d, d <= 0
  PROVE  (((s + n) % (2 * r)) + d) % (2 * r) = ((s + n) + d) % (2 * r)
<1> PICK N \in Nat \ {0} : N = 2 * r
  OBVIOUS
<1> PICK y \in Nat : y = s + n
  OBVIOUS
<1> PICK x \in Int : x = y + d
  OBVIOUS
<1>1. y < 2 * N /\ -N <= y /\ x < 2 * N
  OBVIOUS
<1>2. PICK w : w = y % N
  OBVIOUS
<1>5. /\ y < N => y % N = y
      /\ N <= y => y % N = y - N
  <2>1. y \in Int /\ 0 <= y
    OBVIOUS
  <2> QED BY <1>1, <2>1, ModWraps
<1>3. CASE y < N
  <2>1. w = y
    BY <1>2, <1>3, <1>5
  <2> QED BY <1>2, <2>1
<1>4. CASE N <= y
  <2>1. w = y - N
    BY <1>2, <1>4, <1>5
  <2>2. w + d = x - N /\ 0 <= x
    BY <2>1, <1>4
  <2>3. (x - N) % N = x % N
    BY <1>1, <2>2, ModSame
  <2> QED BY <1>2, <2>2, <2>3
<1> QED BY <1>3, <1>4

\* The ages.
LEMMA CycleKeepsAges ==
  ASSUME IInv, Ages, NEW ds \in Bundles, NEW lsu_ready \in BOOLEAN,
         NEW lsu_done \in Answers, Cycle(ds, lsu_ready, lsu_done)
  PROVE  Ages'
<1> PICK c \in Nat, q \in Nat, n \in Nat : Shift(c, q, n, ds)
  BY CycleWindow
<1>1. /\ n = Len(ds) /\ Len(win) = c + q /\ Len(win') = q + n
      /\ \A k \in 1..c : win[k].done
      /\ \A k \in 1..q : c + k \in Live /\ win'[k].rob = win[c + k].rob
      /\ \A j \in 1..n : win'[q + j].rob = Entry(j)
  BY DEF Shift
<1>2. /\ DOMAIN iq' = Kept \cup {Given(j) : j \in 1..n}
      /\ \A i \in Kept : /\ i \in DOMAIN iq /\ iq'[i].rob = iq[i].rob
                         /\ iq'[i].seq = iq[i].seq
      /\ \A j \in 1..n : iq'[Given(j)].rob = Entry(j) /\ iq'[Given(j)].seq = NewAge(j)
  BY <1>1, CycleQueue
<1>3. seq_ctr' = (seq_ctr + n) % SeqMod
  BY <1>1 DEF Cycle, IqCycle
<1>4. /\ ROB_N \in Nat \ {0} /\ SeqMod = 2 * ROB_N /\ seq_ctr \in 0..2*ROB_N-1
      /\ c + q + n <= ROB_N
  <2>1. c + q + n <= cfg_rob_entries
    BY <1>1, BundleProperty DEF IInv, Numbered
  <2>2. cfg_rob_entries <= ROB_N /\ ROB_N \in Nat \ {0} /\ cfg_rob_entries \in Nat
    BY ExecIfcAssumption
  <2> QED BY <2>1, <2>2 DEF SeqMod, IInv, TypeOK
<1>5. /\ \A j \in 1..n, k \in Live : Entry(j) # win[k].rob
      /\ \A i, j \in 1..n : Entry(i) = Entry(j) => i = j
  BY <1>1, WindowMoves DEF IInv
<1> PICK s \in 0..2*ROB_N-1 : s = seq_ctr
  BY <1>4
<1> PICK z : z = seq_ctr'
  OBVIOUS
<1>6. ASSUME NEW k \in 1..q+n
      PROVE  (z + k - 1 - (q + n)) % SeqMod = (s + k - 1 - q) % SeqMod
  <2> PICK d \in Int : d = k - 1 - (q + n)
    OBVIOUS
  <2>1. -ROB_N <= d /\ d <= 0 /\ n \in 0..ROB_N
    BY <1>4
  <2>2. (((s + n) % (2 * ROB_N)) + d) % (2 * ROB_N) = ((s + n) + d) % (2 * ROB_N)
    BY <1>4, <2>1, RoundMoves
  <2>3. (s + n) + d = s + k - 1 - q
    BY <1>4
  <2>4. z = (s + n) % (2 * ROB_N) /\ z \in Int
    BY <1>3, <1>4
  <2>5. z + k - 1 - (q + n) = z + d
    BY <2>4
  <2> QED BY <1>4, <2>2, <2>3, <2>4, <2>5
<1>7. ASSUME NEW i \in Kept, NEW k \in 1..q+n, iq'[i].rob = win'[k].rob
      PROVE  iq'[i].seq = (s + k - 1 - q) % SeqMod
  <2>1. i \in DOMAIN iq /\ iq'[i].rob = iq[i].rob /\ iq'[i].seq = iq[i].seq
    BY <1>2
  <2>2. PICK h \in Live : win[h].rob = iq[i].rob
    BY <2>1, HeldUop
  <2>3. k \in 1..q
    <3> SUFFICES ASSUME k \notin 1..q PROVE FALSE
      OBVIOUS
    <3>1. k - q \in 1..n /\ k = q + (k - q)
      OBVIOUS
    <3>2. win'[k].rob = Entry(k - q)
      BY <1>1, <3>1
    <3> QED BY <1>5, <1>7, <2>1, <2>2, <3>1, <3>2
  <2>7. c + k \in Live /\ win[c + k].rob = win[h].rob
    BY <1>1, <1>7, <2>1, <2>2, <2>3
  <2>4. h = c + k
    BY <2>7, DifferentEntries DEF IInv
  <2>5. iq[i].seq = (s + h - 1 - (c + q)) % SeqMod
    BY <1>1, <2>1, <2>2 DEF Ages
  <2>6. s + h - 1 - (c + q) = s + k - 1 - q
    BY <2>4
  <2> QED BY <2>1, <2>5, <2>6
<1>8. ASSUME NEW j \in 1..n, NEW k \in 1..q+n, iq'[Given(j)].rob = win'[k].rob
      PROVE  iq'[Given(j)].seq = (s + k - 1 - q) % SeqMod
  <2>1. Entry(j) = win'[k].rob
    BY <1>2, <1>8
  <2>2. k \notin 1..q
    <3> SUFFICES ASSUME k \in 1..q PROVE FALSE
      OBVIOUS
    <3>1. c + k \in Live /\ win[c + k].rob = Entry(j)
      BY <1>1, <2>1
    <3> QED BY <1>5, <3>1
  <2>3. k - q \in 1..n /\ k = q + (k - q)
    BY <2>2
  <2>4. k = q + j
    <3> PICK i \in 1..n : k = q + i
      BY <2>3
    <3>1. Entry(i) = Entry(j)
      BY <1>1, <2>1
    <3>2. i = j
      BY <1>5, <3>1
    <3> QED BY <3>2
  <2>5. s + k - 1 - q = s + j - 1
    BY <2>4
  <2> QED BY <1>2, <2>5 DEF NewAge
<1>9. ASSUME NEW i \in DOMAIN iq', NEW k \in 1..q+n, iq'[i].rob = win'[k].rob
      PROVE  iq'[i].seq = (z + k - 1 - (q + n)) % SeqMod
  <2>1. iq'[i].seq = (s + k - 1 - q) % SeqMod
    BY <1>2, <1>7, <1>8, <1>9
  <2> QED BY <1>6, <2>1
<1>10. \A i \in DOMAIN iq', k \in 1..Len(win') : iq'[i].rob = win'[k].rob =>
         iq'[i].seq = (seq_ctr' + k - 1 - Len(win')) % SeqMod
  BY <1>1, <1>9
<1> QED BY <1>10 DEF Ages, Live, SeqMod
LEMMA CycleKeepsOrder ==
  ASSUME OInv, NEW ds \in Bundles, NEW lsu_ready \in BOOLEAN, NEW lsu_done \in Answers,
         Cycle(ds, lsu_ready, lsu_done)
  PROVE  OInv'
<1>1. IInv /\ FreshDsts /\ Started /\ Scoreboard /\ PendExact /\ Latency /\ Ages
  BY DEF OInv
<1>2. IInv'
  BY <1>1, CyclePreserves
<1>3. FreshDsts' /\ Started'
  BY <1>1, CycleKeepsFresh, CycleKeepsStarted
<1>4. Scoreboard'
  <2>1. \A p \in Phys : p \in wait_m' <=> \E i \in DOMAIN iq' : iq'[i].u.dst = p
    BY <1>1, CycleKeepsWait
  <2>2. \A k \in 1..Len(win') : win'[k].rob \in DOMAIN eu' =>
          /\ eu'[win'[k].rob].dst = win'[k].u.dst
          /\ eu'[win'[k].rob].wt => IsMem(win'[k].u)
    BY <1>1, CycleKeepsTargets
  <2>3. \A p \in Phys : p \notin prf_rdy' <=>
          \E k \in 1..Len(win') :
            win'[k].u.dst = p /\ win'[k].rob \in DOMAIN eu' /\ ~Quick(win'[k].u)
    BY <1>1, CycleKeepsReady
  <2> QED BY <2>1, <2>2, <2>3 DEF Scoreboard, Live
<1>5. PendExact'
  BY <1>1, CycleKeepsPend
<1>6. Latency' /\ Ages'
  BY <1>1, CycleKeepsLatency, CycleKeepsAges
<1> QED BY <1>2, <1>3, <1>4, <1>5, <1>6 DEF OInv

LEMMA EmptyIsOrdered == Empty => OInv
<1> SUFFICES ASSUME Empty PROVE OInv
  OBVIOUS
<1>1. IInv
  BY EmptyIsFine
<1>2. /\ Live = {} /\ DOMAIN iq = {} /\ DOMAIN eu = {} /\ wait_m = {} /\ prf_rdy = Phys
  BY DEF Empty, Live
<1>3. FreshDsts /\ Started /\ PendExact /\ Latency /\ Ages
  BY <1>2 DEF FreshDsts, Started, PendExact, Latency, Ages
<1>4. Scoreboard
  BY <1>2 DEF Scoreboard
<1> QED BY <1>1, <1>3, <1>4 DEF OInv

LEMMA EmptyOrderedNext == (Empty => OInv)'
BY EmptyIsOrdered, PTL

\* The inductive invariant holds in every reachable state.
THEOREM SchedulerOrder == Spec => []OInv
<1>1. Init => OInv
  <2>1. Init => Empty
    BY DEF Init, IqInit, EuInit, Empty
  <2> QED BY <2>1, EmptyIsOrdered
<1>2. OInv /\ [Next]_vars => OInv'
  <2> SUFFICES ASSUME OInv, [Next]_vars PROVE OInv'
    OBVIOUS
  <2>1. CASE Flush
    <3>1. Empty'
      BY <2>1 DEF OInv, IInv, TypeOK, Flush, IqFlush, EuFlush, Empty
    <3> QED BY <3>1, EmptyOrderedNext
  <2>2. CASE UNCHANGED vars
    <3>1. /\ iq' = iq /\ seq_ctr' = seq_ctr /\ wait_m' = wait_m
          /\ eu' = eu /\ prf_rdy' = prf_rdy /\ win' = win
      BY <2>2 DEF vars, iqVars, euVars
    <3>2. Live' = Live /\ QueueRobs' = QueueRobs
      BY <3>1 DEF Live, QueueRobs
    <3>3. IInv'
      BY <2>2, StutterPreserves DEF OInv
    <3>4. FreshDsts' /\ Started'
      BY <3>1, <3>2 DEF OInv, FreshDsts, Started
    <3>5. Scoreboard'
      BY <3>1, <3>2 DEF OInv, Scoreboard
    <3>6. PendExact'
      BY <3>1 DEF OInv, PendExact, EffReady
    <3>7. Latency' /\ Ages'
      BY <3>1, <3>2 DEF OInv, Latency, Ages
    <3> QED BY <3>3, <3>4, <3>5, <3>6, <3>7 DEF OInv
  <2>3. ASSUME NEW ds \in Bundles, NEW lsu_ready \in BOOLEAN, NEW lsu_done \in Answers,
               Cycle(ds, lsu_ready, lsu_done)
        PROVE  OInv'
    BY <2>3, CycleKeepsOrder
  <2> QED BY <2>1, <2>2, <2>3 DEF Next
<1> QED BY <1>1, <1>2, PTL DEF Spec

----------------------------------------------------------------------------
(* Wakeup.                                                                 *)

\* A register is ready when no live uop that is to write it is still in the
\* queue, or in the pool for longer than a cycle: when its writer has produced.
LEMMA ReadyMeansProduced ==
  ASSUME OInv, NEW p \in Phys
  PROVE  p \in EffReady(prf_rdy) <=> \A j \in Live : win[j].u.dst = p => Produced(j)
<1>1. IInv /\ Started /\ Scoreboard
  BY DEF OInv
<1>2. \A j \in Live : Produced(j) <=>
        /\ win[j].rob \notin QueueRobs
        /\ ~(win[j].rob \in DOMAIN eu /\ ~Quick(win[j].u))
  <2> SUFFICES ASSUME NEW j \in Live
               PROVE  Produced(j) <=> /\ win[j].rob \notin QueueRobs
                                      /\ ~(win[j].rob \in DOMAIN eu /\ ~Quick(win[j].u))
    OBVIOUS
  <2>1. win[j].t \in Nat
    BY <1>1, LiveUop
  <2>2. win[j].t > 0 <=> win[j].rob \notin QueueRobs
    BY <1>1, <2>1 DEF Started
  <2> QED BY <2>2 DEF Produced, Quick
<1>3. p \in wait_m <=> \E j \in Live : win[j].u.dst = p /\ win[j].rob \in QueueRobs
  <2>1. ASSUME p \in wait_m PROVE \E j \in Live : win[j].u.dst = p /\ win[j].rob \in QueueRobs
    <3>1. PICK i \in DOMAIN iq : iq[i].u.dst = p
      BY <1>1, <2>1 DEF Scoreboard
    <3> QED BY <1>1, <3>1, HeldUop
  <2>2. ASSUME NEW j \in Live, win[j].u.dst = p, win[j].rob \in QueueRobs PROVE p \in wait_m
    <3>1. PICK i \in DOMAIN iq : iq[i].rob = win[j].rob
      BY <2>2 DEF QueueRobs
    <3>2. PICK k \in Live : win[k].rob = iq[i].rob /\ win[k].u = iq[i].u
      BY <1>1, HeldUop
    <3>3. k = j
      BY <1>1, <3>1, <3>2, DifferentEntries DEF IInv
    <3> QED BY <1>1, <2>2, <3>2, <3>3 DEF Scoreboard
  <2> QED BY <2>1, <2>2
<1>4. p \notin prf_rdy <=>
        \E j \in Live : win[j].u.dst = p /\ win[j].rob \in DOMAIN eu /\ ~Quick(win[j].u)
  BY <1>1 DEF Scoreboard
<1>5. p \in EffReady(prf_rdy) <=> p \in prf_rdy /\ p \notin wait_m
  BY DEF EffReady
<1> QED BY <1>2, <1>3, <1>4, <1>5

\* The uop a live uop depends on for a register is the live writer of it.
LEMMA ProducerIsWriter ==
  ASSUME OInv, NEW k \in Live, NEW p \in win[k].u.src, NEW j \in Live
  PROVE  j \in ProducerOf(k, p) <=> win[j].u.dst = p
<1>1. IInv /\ FreshDsts
  BY DEF OInv
<1>2. p \in Phys /\ Len(win) \in Nat /\ k \in 1..Len(win) /\ j \in 1..Len(win)
  BY <1>1, LiveUop
<1>3. ASSUME j \in ProducerOf(k, p) PROVE win[j].u.dst = p
  BY <1>3 DEF ProducerOf
<1>4. ASSUME win[j].u.dst = p PROVE j \in ProducerOf(k, p)
  <2>1. j # k /\ ~(k < j)
    BY <1>1, <1>4 DEF FreshDsts
  <2>2. j \in 1..k-1
    BY <1>2, <2>1
  <2>3. ASSUME NEW i \in j+1..k-1 PROVE win[i].u.dst # p
    <3>1. i \in Live /\ i # j
      BY <1>2 DEF Live
    <3> QED BY <1>1, <1>2, <1>4, <3>1, UniqueWriter
  <2> QED BY <1>4, <2>2, <2>3 DEF ProducerOf
<1> QED BY <1>3, <1>4

LEMMA OrderWakes == OInv => WakeupExact
<1> SUFFICES ASSUME OInv PROVE WakeupExact
  OBVIOUS
<1>1. IInv /\ PendExact
  BY DEF OInv
<1>2. ASSUME NEW k \in Live, NEW i \in InIq(win[k].rob)
      PROVE  i \in Ready(prf_rdy) <=>
               \A s \in win[k].u.src : \A j \in ProducerOf(k, s) : Produced(j)
  <2>1. i \in DOMAIN iq /\ iq[i].rob = win[k].rob
    BY DEF InIq
  <2>2. iq[i].u = win[k].u
    <3>1. PICK h \in Live : win[h].rob = iq[i].rob /\ win[h].u = iq[i].u
      BY <1>1, <2>1, HeldUop
    <3>2. h = k
      BY <1>1, <2>1, <3>1, DifferentEntries DEF IInv
    <3> QED BY <3>1, <3>2
  <2>3. i \in Ready(prf_rdy) <=> \A s \in win[k].u.src : s \in EffReady(prf_rdy)
    <3>1. i \in Ready(prf_rdy) <=> iq[i].pend \subseteq EffReady(prf_rdy)
      BY <2>1 DEF Ready
    <3>2. /\ iq[i].pend \subseteq win[k].u.src
          /\ win[k].u.src \ iq[i].pend \subseteq EffReady(prf_rdy)
      BY <1>1, <2>1, <2>2 DEF PendExact
    <3> QED BY <3>1, <3>2
  <2>4. ASSUME NEW s \in win[k].u.src
        PROVE  s \in EffReady(prf_rdy) <=> \A j \in ProducerOf(k, s) : Produced(j)
    <3>1. s \in Phys
      BY <1>1, LiveUop
    <3>2. s \in EffReady(prf_rdy) <=> \A j \in Live : win[j].u.dst = s => Produced(j)
      BY <3>1, ReadyMeansProduced
    <3>3. \A j \in Live : j \in ProducerOf(k, s) <=> win[j].u.dst = s
      BY ProducerIsWriter
    <3>4. \A j \in ProducerOf(k, s) : j \in Live
      <4>1. Len(win) \in Nat /\ k \in 1..Len(win)
        BY <1>1, LiveUop
      <4> QED BY <4>1 DEF ProducerOf, Live
    <3> QED BY <3>2, <3>3, <3>4
  <2> QED BY <2>3, <2>4
<1>3. ASSUME NEW p \in Phys \ Named(<<>>, 0) PROVE p \in EffReady(prf_rdy)
  <2>1. ASSUME NEW j \in Live PROVE win[j].u.dst # p
    <3>1. win[j].u.src \cup Dst(win[j].u) \subseteq Named(<<>>, 0)
      BY DEF Named, Live
    <3> QED BY <3>1 DEF Dst
  <2> QED BY <2>1, ReadyMeansProduced
<1> QED BY <1>2, <1>3 DEF WakeupExact

\* The queue takes a uop for ready exactly when all its values have been
\* produced: the pending bits, the blocked destinations and the ready mask of
\* be_iq.v and be_eu.v together neither wake too early nor forget to wake.
THEOREM WakesExactly == Spec => []WakeupExact
BY SchedulerOrder, OrderWakes, PTL

\* A uop whose slot is selected.
LEMMA SelectedUop ==
  ASSUME OInv, NEW k \in Live, InIq(win[k].rob) \cap Selected(prf_rdy) # {}
  PROVE  \A s \in win[k].u.src : \A j \in ProducerOf(k, s) : j \in Live /\ Produced(j)
<1>1. PICK i \in InIq(win[k].rob) : i \in Selected(prf_rdy)
  OBVIOUS
<1>2. i \in Ready(prf_rdy)
  BY <1>1, SelectedReady
<1>3. \A s \in win[k].u.src : \A j \in ProducerOf(k, s) : Produced(j)
  BY <1>1, <1>2, OrderWakes DEF WakeupExact
<1>4. \A s : \A j \in ProducerOf(k, s) : j \in Live
  <2>1. Len(win) \in Nat /\ k \in 1..Len(win)
    BY LiveUop DEF OInv
  <2> QED BY <2>1 DEF ProducerOf, Live
<1> QED BY <1>3, <1>4

LEMMA OrderWaits == OInv => LatencyKept
<1> SUFFICES ASSUME OInv PROVE LatencyKept
  OBVIOUS
<1>1. IInv /\ Started /\ Latency
  BY DEF OInv
<1>2. ASSUME NEW k \in Live, InIq(win[k].rob) \cap Selected(prf_rdy) # {},
             NEW s \in win[k].u.src, NEW j \in ProducerOf(k, s)
      PROVE  /\ win[j].t > 0
             /\ IF IsMem(win[j].u)
                  THEN win[j].rob \notin rq_pend \cup r_req \cup lsu
                  ELSE win[j].t >= win[j].u.lat
  <2>1. j \in Live /\ Produced(j)
    BY <1>2, SelectedUop
  <2>2. win[j].t > 0 /\ win[j].t \in Nat /\ win[j].u.lat \in Nat
    BY <1>1, <2>1, LiveUop DEF Produced
  <2>3. CASE IsMem(win[j].u)
    <3>1. win[j].rob \notin DOMAIN eu
      BY <2>1, <2>3 DEF Produced
    <3>2. win[j].rob \notin rq_pend \cup r_req \cup lsu
      BY <1>1, <3>1 DEF IInv, Placed, Waiting
    <3> QED BY <2>2, <2>3, <3>2
  <2>4. CASE ~IsMem(win[j].u)
    <3>1. CASE win[j].u.lat <= 1
      BY <2>2, <2>4, <3>1
    <3>2. CASE win[j].u.lat >= 2
      <4>1. win[j].rob \notin DOMAIN eu
        BY <2>1, <2>2, <3>2 DEF Produced
      <4>2. win[j].t >= win[j].u.lat
        BY <1>1, <2>1, <2>2, <2>4, <3>2, <4>1 DEF Latency
      <4> QED BY <2>2, <2>4, <4>2
    <3> QED BY <2>2, <3>1, <3>2
  <2> QED BY <2>3, <2>4
<1> QED BY <1>2 DEF LatencyKept

\* No uop is issued before its producers' latencies, or the answers of the
\* load/store unit, have passed (the countdown of be_eu.v).
THEOREM LatencyIsKept == Spec => []LatencyKept
BY SchedulerOrder, OrderWaits, PTL
----------------------------------------------------------------------------
(* The refinement of DataflowOrder.                                        *)

LEMMA ProgressEntry ==
  ASSUME NEW k \in Live
  PROVE  /\ Progress[k].dst = win[k].u.dst /\ Progress[k].src = win[k].u.src
         /\ Progress[k].st = Status(k)
BY DEF Progress

LEMMA ProgressEntryNext ==
  \A k \in 1..Len(win') :
    /\ Progress'[k].dst = win'[k].u.dst /\ Progress'[k].src = win'[k].u.src
    /\ Progress'[k].st = Status(k)'
BY DEF Progress, Live

\* The window that the abstract specification sees is as long as the real one.
LEMMA ProgressLength ==
  /\ Len(win) \in Nat => Len(Progress) = Len(win)
  /\ Len(win') \in Nat => Len(Progress') = Len(win')
<1>1. ASSUME Len(win) \in Nat PROVE Len(Progress) = Len(win)
  BY <1>1 DEF Progress, Live
<1>2. ASSUME Len(win') \in Nat PROVE Len(Progress') = Len(win')
  BY <1>2 DEF Progress, Live
<1> QED BY <1>1, <1>2

\* A uop that is issued may start.
LEMMA IssuedMayStart ==
  ASSUME OInv, NEW k \in Live, win[k].rob \in Robs(Issued(prf_rdy))
  PROVE  Dataflow!MayStart(k)
<1>1. IInv
  BY DEF OInv
<1>2. PICK e \in Issued(prf_rdy) : e.rob = win[k].rob
  BY DEF Robs
<1>3. PICK i \in Selected(prf_rdy) : i \in DOMAIN iq /\ iq[i].rob = win[k].rob
  BY <1>1, <1>2, IssuedUop
<1>4. InIq(win[k].rob) \cap Selected(prf_rdy) # {}
  BY <1>3 DEF InIq
<1>5. \A s \in win[k].u.src : \A j \in ProducerOf(k, s) : j \in Live /\ Produced(j)
  BY <1>4, SelectedUop
<1>6. ASSUME NEW s \in Progress[k].src, NEW j \in Dataflow!Producer(k, s)
      PROVE  Progress[j].st \in {"produced", "finished"}
  <2>1. s \in win[k].u.src
    BY ProgressEntry
  <2>2. Len(win) \in Nat /\ k \in 1..Len(win)
    BY <1>1, LiveUop
  <2>3. j \in Live /\ Progress[j].dst = s
    BY <2>2 DEF Dataflow!Producer, Live
  <2>4. win[j].u.dst = s
    BY <2>3, ProgressEntry
  <2>5. j \in ProducerOf(k, s)
    BY <2>1, <2>3, <2>4, ProducerIsWriter
  <2>6. win[j].t > 0 /\ Produced(j) /\ win[j].t \in Nat
    BY <1>1, <1>5, <2>1, <2>3, <2>5, LiveUop DEF Produced
  <2>7. Status(j) \in {"produced", "finished"}
    BY <2>6 DEF Status
  <2> QED BY <2>3, <2>7, ProgressEntry
<1> QED BY <1>6 DEF Dataflow!MayStart

\* What becomes of a uop in a cycle is a move of the abstract specification.
LEMMA CycleMovesOn ==
  ASSUME OInv, NEW ds \in Bundles, NEW lsu_ready \in BOOLEAN, NEW lsu_done \in Answers,
         Cycle(ds, lsu_ready, lsu_done),
         NEW h \in Live, NEW k \in 1..Len(win'),
         win'[k].u = win[h].u, win'[k].rob = win[h].rob,
         win'[k].done <=> (win[h].done \/ win[h].rob \in r_wb),
         win'[k].t = Aged(win[h], Issued(prf_rdy)).t
  PROVE  Progress'[k].st \in Dataflow!Moves(h)
<1> DEFINE I == Robs(Issued(prf_rdy))
<1>1. IInv /\ Started
  BY DEF OInv
<1>2. /\ win[h] \in WinRec /\ win[h].t \in Nat /\ win[h].u.lat \in Nat
  BY <1>1, LiveUop
<1>3. /\ I \subseteq QueueRobs /\ DOMAIN eu' = (DOMAIN eu \cup I) \ r_wb'
  BY <1>1, CycleMoves
<1>4. /\ win[h].rob \in QueueRobs \cup DOMAIN eu \cup r_wb <=> ~win[h].done
      /\ win[h].rob \in QueueRobs => win[h].rob \notin DOMAIN eu /\ win[h].rob \notin r_wb
      /\ win[h].rob \in DOMAIN eu => win[h].rob \notin r_wb
  BY <1>1, PlacedUop
<1>5. win[h].t = 0 <=> win[h].rob \in QueueRobs
  BY <1>1 DEF Started
<1>6. win'[k].t = IF win[h].rob \in I THEN 1
                  ELSE IF win[h].t > 0 /\ win[h].t < win[h].u.lat THEN win[h].t + 1 ELSE win[h].t
  BY <1>2, AgedProperty
<1>7. Status(k)' = IF win'[k].done THEN "finished"
                   ELSE IF win'[k].t = 0 THEN "waiting"
                   ELSE IF Produced(k)' THEN "produced" ELSE "executing"
  BY DEF Status
<1>8. Produced(k)' <=> win'[k].t > 0 /\ (Quick(win[h].u) \/ win[h].rob \notin DOMAIN eu')
  BY DEF Produced, Quick
<1>9. Produced(h) <=> win[h].t > 0 /\ (Quick(win[h].u) \/ win[h].rob \notin DOMAIN eu)
  BY DEF Produced, Quick
<1>10. win'[k].t = 0 <=> (win[h].t = 0 /\ win[h].rob \notin I)
  <2> HIDE DEF I
  <2> QED BY <1>2, <1>6
<1>11. win'[k].t > 0 <=> win'[k].t # 0
  <2> HIDE DEF I
  <2> QED BY <1>2, <1>6
<1>12. win[h].t > 0 <=> win[h].t # 0
  BY <1>2
<1>13. Progress[h].st = Status(h) /\ Progress'[k].st = Status(k)'
  BY ProgressEntry, ProgressEntryNext
<1>14. win[h].rob \in I => Dataflow!MayStart(h)
  BY IssuedMayStart
<1> HIDE DEF I
<1>15. CASE win[h].done
  <2>1. Status(h) = "finished" /\ Status(k)' = "finished"
    BY <1>7, <1>15 DEF Status
  <2> QED BY <1>13, <2>1 DEF Dataflow!Moves
<1>16. CASE ~win[h].done /\ win[h].t = 0 /\ win[h].rob \notin I
  <2>1. Status(h) = "waiting"
    BY <1>16 DEF Status
  <2>2. Status(k)' = "waiting"
    BY <1>4, <1>5, <1>7, <1>10, <1>16
  <2> QED BY <1>13, <2>1, <2>2 DEF Dataflow!Moves
<1>17. CASE ~win[h].done /\ win[h].t = 0 /\ win[h].rob \in I
  <2>1. Status(h) = "waiting"
    BY <1>17 DEF Status
  <2>2. Status(k)' \in {"executing", "produced"}
    BY <1>4, <1>5, <1>7, <1>10, <1>17
  <2> QED BY <1>13, <1>14, <1>17, <2>1, <2>2 DEF Dataflow!Moves
<1>18. CASE ~win[h].done /\ win[h].t # 0 /\ ~Produced(h)
  <2>1. Status(h) = "executing"
    BY <1>18 DEF Status
  <2>2. win[h].rob \in DOMAIN eu
    BY <1>9, <1>12, <1>18
  <2>3. Status(k)' \in {"executing", "produced"}
    BY <1>4, <1>7, <1>10, <1>18, <2>2
  <2> QED BY <1>13, <2>1, <2>3 DEF Dataflow!Moves
<1>19. CASE ~win[h].done /\ win[h].t # 0 /\ Produced(h)
  <2>1. Status(h) = "produced"
    BY <1>19 DEF Status
  <2>2. win[h].rob \notin I
    BY <1>3, <1>5, <1>19
  <2>3. Produced(k)'
    BY <1>3, <1>8, <1>9, <1>10, <1>11, <1>19, <2>2
  <2>4. Status(k)' \in {"produced", "finished"}
    BY <1>7, <1>10, <1>19, <2>3
  <2> QED BY <1>13, <2>1, <2>4 DEF Dataflow!Moves
<1> QED BY <1>15, <1>16, <1>17, <1>18, <1>19

LEMMA CycleRefines ==
  ASSUME OInv, NEW ds \in Bundles, NEW lsu_ready \in BOOLEAN, NEW lsu_done \in Answers,
         Cycle(ds, lsu_ready, lsu_done)
  PROVE  Dataflow!Step
<1>1. IInv
  BY DEF OInv
<1> PICK c \in Nat, q \in Nat, n \in Nat : Shift(c, q, n, ds)
  BY <1>1, CycleWindow
<1>2. /\ Len(win) = c + q /\ Len(win') = q + n
      /\ \A k \in 1..c : win[k].done
      /\ \A k \in 1..q :
           /\ c + k \in Live
           /\ win'[k].u = win[c + k].u /\ win'[k].rob = win[c + k].rob
           /\ win'[k].done <=> (win[c + k].done \/ win[c + k].rob \in r_wb)
           /\ win'[k].t = Aged(win[c + k], Issued(prf_rdy)).t
      /\ \A j \in 1..n : ~win'[q + j].done /\ win'[q + j].t = 0
  BY DEF Shift
<1>3. Len(Progress) = c + q /\ Len(Progress') = q + n
  BY <1>2, ProgressLength
<1>4. \A i \in 1..c : Progress[i].st = "finished"
  <2> SUFFICES ASSUME NEW i \in 1..c PROVE Progress[i].st = "finished"
    OBVIOUS
  <2>1. i \in Live /\ win[i].done
    BY <1>2 DEF Live
  <2> QED BY <2>1, ProgressEntry DEF Status
<1>5. ASSUME NEW i \in 1..q
      PROVE  /\ Progress'[i].dst = Progress[c+i].dst /\ Progress'[i].src = Progress[c+i].src
             /\ Progress'[i].st \in Dataflow!Moves(c + i)
  <2>1. i \in 1..Len(win') /\ c + i \in Live
    BY <1>2
  <2>2. Progress'[i].st \in Dataflow!Moves(c + i)
    BY <1>2, <2>1, CycleMovesOn
  <2>3. /\ Progress'[i].dst = win'[i].u.dst /\ Progress'[i].src = win'[i].u.src
        /\ Progress[c+i].dst = win[c+i].u.dst /\ Progress[c+i].src = win[c+i].u.src
    BY <2>1, ProgressEntry, ProgressEntryNext
  <2>4. win'[i].u = win[c + i].u
    BY <1>2
  <2> QED BY <2>2, <2>3, <2>4
<1>6. ASSUME NEW i \in q+1..q+n PROVE Progress'[i].st = "waiting"
  <2>1. i - q \in 1..n /\ i = q + (i - q) /\ i \in 1..Len(win')
    BY <1>2
  <2>2. ~win'[i].done /\ win'[i].t = 0
    <3> PICK j \in 1..n : i = q + j
      BY <2>1
    <3> QED BY <1>2
  <2>3. Status(i)' = "waiting"
    BY <2>2 DEF Status
  <2> QED BY <2>1, <2>3, ProgressEntryNext
<1>7. c \in 0..Len(Progress) /\ Len(Progress) - c = q
  BY <1>3
<1> DEFINE Advances(m) ==
      /\ \A i \in 1..m : Progress[i].st = "finished"
      /\ Len(Progress') >= Len(Progress) - m
      /\ \A i \in 1..Len(Progress) - m :
           /\ Progress'[i].dst = Progress[m+i].dst /\ Progress'[i].src = Progress[m+i].src
           /\ Progress'[i].st \in Dataflow!Moves(m + i)
      /\ \A i \in (Len(Progress) - m)+1..Len(Progress') : Progress'[i].st = "waiting"
<1>8. Advances(c)
  BY <1>3, <1>4, <1>5, <1>6, <1>7
<1>9. Dataflow!Step <=> \E m \in 0..Len(Progress) : Advances(m)
  BY DEF Dataflow!Step
<1> HIDE DEF Advances
<1> QED BY <1>7, <1>8, <1>9

\* However uops overtake each other, each starts after those it depends on have
\* produced their values, then executes, produces, is finished, and retires in
\* order: the scheduler implements DataflowOrder.
THEOREM SchedulerKeepsDataflow == Spec => KeepsDataflow
<1>0. win = <<>> => Progress = <<>>
  BY DEF Progress, Live
<1>1. Init => Dataflow!Init
  BY <1>0 DEF Init, Dataflow!Init
<1>2. OInv /\ [Next]_vars => [Dataflow!Step \/ Dataflow!Flush]_Progress
  <2> SUFFICES ASSUME OInv, [Next]_vars
               PROVE  Dataflow!Step \/ Dataflow!Flush \/ Progress' = Progress
    OBVIOUS
  <2>1. ASSUME NEW ds \in Bundles, NEW lsu_ready \in BOOLEAN, NEW lsu_done \in Answers,
               Cycle(ds, lsu_ready, lsu_done)
        PROVE  Dataflow!Step
    BY <2>1, CycleRefines
  <2>2. CASE Flush
    <3>1. win' = <<>>
      BY <2>2 DEF Flush
    <3>2. Progress' = <<>>
      BY <3>1 DEF Progress, Live
    <3> QED BY <3>2 DEF Dataflow!Flush
  <2>3. CASE UNCHANGED vars
    <3>1. win' = win /\ eu' = eu
      BY <2>3 DEF vars, euVars
    <3> QED BY <3>1 DEF Progress, Live, Status, Produced
  <2> QED BY <2>1, <2>2, <2>3 DEF Next
<1>3. Dataflow!Spec <=> Dataflow!Init /\ [][Dataflow!Step \/ Dataflow!Flush]_Progress
  BY DEF Dataflow!Spec
<1> QED BY <1>1, <1>2, <1>3, SchedulerOrder, PTL DEF Spec, KeepsDataflow
----------------------------------------------------------------------------
(* Selection by age.                                                       *)

\* Of two ages the top bit of the difference tells the older, although they go
\* round: no two live uops are half a round apart.
LEMMA AgesTell ==
  ASSUME NEW r \in Nat \ {0}, NEW x \in Int, NEW y \in Int,
         -(2 * r) <= x, x < 2 * (2 * r), -(2 * r) <= y, y < 2 * (2 * r),
         x - y < r, y - x < r
  PROVE  ((x % (2 * r)) - (y % (2 * r))) % (2 * r) >= r <=> x < y
<1> PICK N \in Nat \ {0} : N = 2 * r
  OBVIOUS
<1>1. /\ x % N \in 0..N-1
      /\ x < 0 => x % N = x + N
      /\ 0 <= x /\ x < N => x % N = x
      /\ N <= x => x % N = x - N
  BY ModWraps
<1>2. /\ y % N \in 0..N-1
      /\ y < 0 => y % N = y + N
      /\ 0 <= y /\ y < N => y % N = y
      /\ N <= y => y % N = y - N
  BY ModWraps
<1> PICK a \in 0..N-1 : a = x % N
  BY <1>1
<1> PICK b \in 0..N-1 : b = y % N
  BY <1>2
<1> PICK d \in Int : d = a - b
  OBVIOUS
<1>3. -N <= d /\ d < N /\ d < 2 * N
  OBVIOUS
<1>4. /\ d % N \in 0..N-1
      /\ d < 0 => d % N = d + N
      /\ 0 <= d => d % N = d
  BY <1>3, ModWraps
<1> PICK e \in 0..N-1 : e = d % N
  BY <1>4
<1>5. d = x - y \/ d = (x - y) + N \/ d = (x - y) - N
  BY <1>1, <1>2
<1>6. e = d \/ e = d + N
  BY <1>4
<1>7. e >= r <=> x < y
  BY <1>5, <1>6
<1> QED BY <1>7

\* The older slot is the one whose uop comes first in the window.
LEMMA OlderExact ==
  ASSUME OInv, NEW i \in DOMAIN iq, NEW j \in DOMAIN iq, NEW h \in Live, NEW k \in Live,
         iq[i].rob = win[h].rob, iq[j].rob = win[k].rob
  PROVE  Older(iq[i].seq, iq[j].seq) <=> h < k
<1>1. IInv /\ Ages
  BY DEF OInv
<1>2. /\ ROB_N \in Nat \ {0} /\ SeqMod = 2 * ROB_N /\ seq_ctr \in 0..2*ROB_N-1
      /\ Len(win) \in Nat /\ Len(win) <= ROB_N /\ h \in 1..Len(win) /\ k \in 1..Len(win)
  <2>1. Len(win) \in Nat /\ h \in 1..Len(win) /\ k \in 1..Len(win)
    BY <1>1, LiveUop
  <2>2. Len(win) <= cfg_rob_entries
    BY <1>1 DEF IInv, TypeOK
  <2>3. cfg_rob_entries \in 1..ROB_N /\ ROB_N \in Nat \ {0}
    BY ExecIfcAssumption
  <2>4. SeqMod = 2 * ROB_N /\ seq_ctr \in 0..2*ROB_N-1
    BY <1>1 DEF SeqMod, IInv, TypeOK
  <2> QED BY <2>1, <2>2, <2>3, <2>4
<1> PICK m \in Nat : m = Len(win)
  BY <1>2
<1> PICK s \in Int : s = seq_ctr
  BY <1>2
<1> PICK a \in Int : a = h /\ 1 <= a /\ a <= m
  BY <1>2
<1> PICK b \in Int : b = k /\ 1 <= b /\ b <= m
  BY <1>2
<1>6. s + a - 1 - m \in Int /\ s + b - 1 - m \in Int
  OBVIOUS
<1> PICK x \in Int : x = s + a - 1 - m
  BY <1>6
<1> PICK y \in Int : y = s + b - 1 - m
  BY <1>6
<1>3. iq[i].seq = x % (2 * ROB_N) /\ iq[j].seq = y % (2 * ROB_N)
  BY <1>1, <1>2 DEF Ages
<1>4. /\ -(2 * ROB_N) <= x /\ x < 2 * (2 * ROB_N) /\ -(2 * ROB_N) <= y /\ y < 2 * (2 * ROB_N)
      /\ x - y < ROB_N /\ y - x < ROB_N /\ (x < y <=> h < k)
  <2> PICK r \in Nat : r = ROB_N /\ m <= r /\ 0 <= s /\ s < 2 * r
    BY <1>2
  <2>1. x - y = a - b /\ a - b < m /\ b - a < m
    OBVIOUS
  <2>2. x - y < r /\ y - x < r
    BY <2>1
  <2>3. -(2 * r) <= x /\ x < 2 * (2 * r) /\ -(2 * r) <= y /\ y < 2 * (2 * r)
    OBVIOUS
  <2>4. x < y <=> a < b
    BY <2>1
  <2> QED BY <2>2, <2>3, <2>4
<1>5. ((x % (2 * ROB_N)) - (y % (2 * ROB_N))) % (2 * ROB_N) >= ROB_N <=> x < y
  BY <1>2, <1>4, AgesTell
<1> QED BY <1>2, <1>3, <1>4, <1>5 DEF Older

\* A set of slots has one oldest.
LEMMA OldestExists ==
  ASSUME OInv, NEW T \in SUBSET DOMAIN iq, T # {}
  PROVE  \E i \in T : Oldest(T) = {i}
<1>1. IInv
  BY DEF OInv
<1>2. Len(win) \in Nat
  BY <1>1 DEF IInv, Numbered
<1> DEFINE P == {k \in Live : \E i \in T : iq[i].rob = win[k].rob}
<1>3. \A i \in T : \E k \in Live : iq[i].rob = win[k].rob
  BY <1>1, HeldUop
<1>4. PICK m \in P : \A k \in P : m <= k
  <2>1. P # {}
    BY <1>3
  <2>2. \A k \in P : k \in Nat
    BY <1>2 DEF Live
  <2>3. P \in SUBSET Nat
    BY <2>2
  <2> HIDE DEF P
  <2> QED BY <2>1, <2>3, LeastNat
<1>5. PICK i \in T : iq[i].rob = win[m].rob
  OBVIOUS
<1>6. ASSUME NEW j \in T \ {i} PROVE Older(iq[i].seq, iq[j].seq) /\ ~Older(iq[j].seq, iq[i].seq)
  <2>1. PICK k \in Live : iq[j].rob = win[k].rob
    BY <1>3
  <2>2. k # m
    BY <1>1, <1>5, <2>1 DEF IInv, Placed
  <2>3. m <= k /\ m \in 1..Len(win) /\ k \in 1..Len(win)
    BY <1>4, <2>1 DEF Live
  <2>4. m < k /\ ~(k < m)
    BY <1>2, <2>2, <2>3
  <2> QED BY <1>5, <2>1, <2>4, OlderExact
<1>7. Oldest(T) = {i}
  BY <1>6 DEF Oldest
<1> QED BY <1>7

\* What a cycle's selection may hold after any round.
Limited(T) ==
  /\ T \subseteq Ready(prf_rdy)
  /\ \A x, y \in OfClass("div", T) : x = y
  /\ Cardinality(OfClass("mul", T)) <= 2

\* The slot holds an uop that is older than live uop k.
Before(x, k) == x \in DOMAIN iq /\ \E m \in 1..k-1 : iq[x].rob = win[m].rob

Ahead(k, T) == {m \in 1..k-1 : InIq(win[m].rob) \cap T # {}}

\* Why slot i, which holds live uop k and is ready, is not among the T of r rounds.
PassedOver(i, k, T, r) ==
  \/ Cardinality(Ahead(k, T)) = r /\ \A x \in T : Before(x, k)
  \/ iq[i].u.class = "div" /\ \E x \in OfClass("div", T) : Before(x, k)
  \/ iq[i].u.class = "mul" /\ \E x, y \in OfClass("mul", T) : x # y /\ Before(x, k) /\ Before(y, k)

\* The slots of the queue are finitely many.
LEMMA FewSlots ==
  ASSUME IInv, NEW T, T \subseteq Ready(prf_rdy)
  PROVE  /\ T \subseteq DOMAIN iq /\ IsFiniteSet(T) /\ Cardinality(T) \in Nat
         /\ \A c : IsFiniteSet(OfClass(c, T)) /\ Cardinality(OfClass(c, T)) \in Nat
<1>1. T \subseteq DOMAIN iq
  BY DEF Ready
<1>2. T \in SUBSET (0..cfg_iq_entries) /\ cfg_iq_entries \in Nat
  <2>1. DOMAIN iq \subseteq 0..cfg_iq_entries-1 /\ cfg_iq_entries \in Nat
    BY ExecIfcAssumption DEF IInv, TypeOK
  <2> QED BY <1>1, <2>1
<1>3. IsFiniteSet(T) /\ Cardinality(T) \in Nat
  BY <1>2, LowerType
<1>4. ASSUME NEW c PROVE IsFiniteSet(OfClass(c, T)) /\ Cardinality(OfClass(c, T)) \in Nat
  <2>1. OfClass(c, T) \in SUBSET T
    BY DEF OfClass
  <2> QED BY <1>3, <2>1, FS_Subset, FS_CardinalityType
<1> QED BY <1>1, <1>3, <1>4

\* A round picks nothing, or the oldest that the limits allow.
LEMMA RoundPicks ==
  ASSUME OInv, NEW T, Limited(T)
  PROVE  \/ Eligible(T, prf_rdy) = {} /\ Oldest(Eligible(T, prf_rdy)) = {}
         \/ \E x \in Eligible(T, prf_rdy) :
              /\ Oldest(Eligible(T, prf_rdy)) = {x}
              /\ x \in Ready(prf_rdy) /\ x \notin T /\ x \in DOMAIN iq
              /\ iq[x].u.class = "div" => OfClass("div", T) = {}
              /\ iq[x].u.class = "mul" => Cardinality(OfClass("mul", T)) < 2
              /\ \A i \in Eligible(T, prf_rdy) \ {x} : Older(iq[x].seq, iq[i].seq)
<1>1. Eligible(T, prf_rdy) \in SUBSET DOMAIN iq
  BY DEF Eligible, Ready
<1>2. CASE Eligible(T, prf_rdy) = {}
  BY <1>2 DEF Oldest
<1>3. CASE Eligible(T, prf_rdy) # {}
  <2>1. PICK x \in Eligible(T, prf_rdy) : Oldest(Eligible(T, prf_rdy)) = {x}
    BY <1>1, <1>3, OldestExists
  <2>2. x \in Oldest(Eligible(T, prf_rdy))
    BY <2>1
  <2>3. \A i \in Eligible(T, prf_rdy) \ {x} : Older(iq[x].seq, iq[i].seq)
    BY <2>2 DEF Oldest
  <2>4. /\ x \in Ready(prf_rdy) /\ x \notin T
        /\ iq[x].u.class = "div" => OfClass("div", T) = {}
        /\ iq[x].u.class = "mul" => Cardinality(OfClass("mul", T)) < 2
    BY DEF Eligible
  <2> QED BY <1>1, <2>1, <2>3, <2>4
<1> QED BY <1>2, <1>3

LEMMA RoundLimited ==
  ASSUME OInv, NEW T, Limited(T)
  PROVE  Limited(T \cup Oldest(Eligible(T, prf_rdy)))
<1>1. CASE Oldest(Eligible(T, prf_rdy)) = {}
  <2>1. T \cup Oldest(Eligible(T, prf_rdy)) = T
    BY <1>1
  <2> QED BY <2>1
<1>2. ASSUME NEW x \in Eligible(T, prf_rdy), Oldest(Eligible(T, prf_rdy)) = {x},
             x \in Ready(prf_rdy), x \notin T,
             iq[x].u.class = "div" => OfClass("div", T) = {},
             iq[x].u.class = "mul" => Cardinality(OfClass("mul", T)) < 2
      PROVE  Limited(T \cup Oldest(Eligible(T, prf_rdy)))
  <2> DEFINE S == T \cup {x}
  <2>1. T \cup Oldest(Eligible(T, prf_rdy)) = S
    BY <1>2
  <2>2. /\ T \subseteq Ready(prf_rdy)
        /\ \A a, b \in OfClass("div", T) : a = b
        /\ Cardinality(OfClass("mul", T)) <= 2
        /\ IsFiniteSet(OfClass("mul", T)) /\ Cardinality(OfClass("mul", T)) \in Nat
    BY FewSlots DEF Limited, OInv
  <2>3. \A c : OfClass(c, S) = IF iq[x].u.class = c THEN OfClass(c, T) \cup {x} ELSE OfClass(c, T)
    BY DEF OfClass
  <2>4. S \subseteq Ready(prf_rdy)
    BY <1>2, <2>2
  <2>5. ASSUME NEW a \in OfClass("div", S), NEW b \in OfClass("div", S) PROVE a = b
    <3>1. CASE iq[x].u.class = "div"
      <4>1. OfClass("div", S) = {x}
        BY <1>2, <2>3, <3>1
      <4> QED BY <4>1
    <3>2. CASE iq[x].u.class # "div"
      BY <2>2, <2>3, <3>2
    <3> QED BY <3>1, <3>2
  <2>6. Cardinality(OfClass("mul", S)) <= 2
    <3>1. CASE iq[x].u.class = "mul"
      <4>1. x \notin OfClass("mul", T)
        BY <1>2 DEF OfClass
      <4>2. Cardinality(OfClass("mul", T) \cup {x}) = Cardinality(OfClass("mul", T)) + 1
        BY <2>2, <4>1, FS_AddElement
      <4>3. OfClass("mul", S) = OfClass("mul", T) \cup {x}
        BY <2>3, <3>1
      <4> PICK z \in Nat : z = Cardinality(OfClass("mul", T))
        BY <2>2
      <4>4. z < 2
        BY <1>2, <3>1
      <4>5. Cardinality(OfClass("mul", S)) = z + 1
        BY <4>2, <4>3
      <4> QED BY <4>4, <4>5
    <3>2. CASE iq[x].u.class # "mul"
      BY <2>2, <2>3, <3>2
    <3> QED BY <3>1, <3>2
  <2> HIDE DEF S
  <2> QED BY <2>1, <2>4, <2>5, <2>6 DEF Limited
<1> QED BY <1>1, <1>2, RoundPicks
LEMMA PairCardinality ==
  ASSUME NEW a, NEW b, a # b
  PROVE  IsFiniteSet({a, b}) /\ Cardinality({a, b}) = 2
<1>1. IsFiniteSet({a}) /\ Cardinality({a}) = 1
  BY FS_Singleton
<1>2. IsFiniteSet({a} \cup {b}) /\ Cardinality({a} \cup {b}) = Cardinality({a}) + 1
  BY <1>1, FS_AddElement
<1>3. {a} \cup {b} = {a, b}
  OBVIOUS
<1> QED BY <1>1, <1>2, <1>3

\* Two or more have two that differ, and no more than two have no third.
LEMMA TwoMembers ==
  ASSUME NEW S, IsFiniteSet(S), ~(Cardinality(S) < 2)
  PROVE  \E x, y \in S : x # y
<1> SUFFICES ASSUME \A x, y \in S : x = y PROVE FALSE
  OBVIOUS
<1>1. S = {} \/ \E x : S = {x}
  OBVIOUS
<1>2. Cardinality(S) = 0 \/ Cardinality(S) = 1
  BY <1>1, FS_EmptySet, FS_Singleton
<1> QED BY <1>2

LEMMA TwoMembersOnly ==
  ASSUME NEW S, IsFiniteSet(S), Cardinality(S) <= 2, NEW x \in S, NEW y \in S, x # y
  PROVE  S = {x, y}
<1>1. {x, y} \in SUBSET S
  OBVIOUS
<1>2. Cardinality({x, y}) = 2
  BY PairCardinality
<1>3. Cardinality(S) \in Nat
  BY FS_CardinalityType
<1>4. Cardinality({x, y}) <= Cardinality(S) /\ (Cardinality({x, y}) = Cardinality(S) => {x, y} = S)
  BY <1>1, FS_Subset
<1> QED BY <1>2, <1>3, <1>4

\* The slot of a live uop holds that uop.
LEMMA SlotUop ==
  ASSUME IInv, NEW i \in DOMAIN iq, NEW k \in Live, iq[i].rob = win[k].rob
  PROVE  iq[i].u = win[k].u
<1>1. PICK h \in Live : win[h].rob = iq[i].rob /\ win[h].u = iq[i].u
  BY HeldUop
<1>2. h = k
  BY <1>1, DifferentEntries DEF IInv
<1> QED BY <1>1, <1>2

\* A round picks an uop that is older than one it passes over, unless a limit
\* has taken that one out of the race.
LEMMA RoundPasses ==
  ASSUME OInv, NEW k \in Live, NEW i \in InIq(win[k].rob), i \in Ready(prf_rdy),
         NEW T, Limited(T), NEW r \in Nat, PassedOver(i, k, T, r),
         i \notin T \cup Oldest(Eligible(T, prf_rdy))
  PROVE  PassedOver(i, k, T \cup Oldest(Eligible(T, prf_rdy)), r + 1)
<1> DEFINE N == T \cup Oldest(Eligible(T, prf_rdy))
<1>1. IInv
  BY DEF OInv
<1>2. \A c : OfClass(c, T) \subseteq OfClass(c, N)
  BY DEF OfClass
<1>3. CASE iq[i].u.class = "div" /\ \E x \in OfClass("div", T) : Before(x, k)
  <2>1. \E x \in OfClass("div", N) : Before(x, k)
    BY <1>2, <1>3
  <2> HIDE DEF N
  <2>2. PassedOver(i, k, N, r + 1)
    BY <1>3, <2>1 DEF PassedOver
  <2> QED BY <2>2 DEF N
<1>4. CASE /\ iq[i].u.class = "mul"
           /\ \E x, y \in OfClass("mul", T) : x # y /\ Before(x, k) /\ Before(y, k)
  <2>1. \E x, y \in OfClass("mul", N) : x # y /\ Before(x, k) /\ Before(y, k)
    BY <1>2, <1>4
  <2> HIDE DEF N
  <2>2. PassedOver(i, k, N, r + 1)
    BY <1>4, <2>1 DEF PassedOver
  <2> QED BY <2>2 DEF N
<1>5. CASE Cardinality(Ahead(k, T)) = r /\ \A x \in T : Before(x, k)
  <2>0. i \in DOMAIN iq /\ iq[i].rob = win[k].rob
    BY DEF InIq
  <2>1. CASE i \in Eligible(T, prf_rdy)
    <3>1. PICK x \in Eligible(T, prf_rdy) :
            /\ Oldest(Eligible(T, prf_rdy)) = {x} /\ x \in DOMAIN iq /\ x \notin T
            /\ \A h \in Eligible(T, prf_rdy) \ {x} : Older(iq[x].seq, iq[h].seq)
      BY <2>1, RoundPicks
    <3>2. N = T \cup {x} /\ x # i
      BY <3>1
    <3>3. PICK m \in Live : iq[x].rob = win[m].rob
      BY <1>1, <3>1, HeldUop
    <3>4. m < k
      <4>1. Older(iq[x].seq, iq[i].seq)
        BY <2>1, <3>1, <3>2
      <4> QED BY <2>0, <3>1, <3>3, <4>1, OlderExact
    <3>5. m \in 1..k-1
      BY <1>1, <3>4, LiveUop
    <3>6. Before(x, k)
      BY <3>1, <3>3, <3>5 DEF Before
    <3>7. InIq(win[m].rob) = {x}
      BY <1>1, <3>1, <3>3 DEF InIq, IInv, Placed
    <3>8. m \notin Ahead(k, T)
      BY <3>1, <3>7 DEF Ahead
    <3>9. Ahead(k, N) = Ahead(k, T) \cup {m}
      <4>1. \A h \in 1..k-1 : h = m \/ x \notin InIq(win[h].rob)
        <5>1. \A h \in 1..k-1 : h \in Live
          BY <1>1, LiveUop DEF Live
        <5> QED BY <1>1, <3>3, <5>1, DifferentEntries DEF InIq, IInv
      <4>2. \A h \in 1..k-1 : InIq(win[h].rob) \cap N # {} <=>
              (InIq(win[h].rob) \cap T # {} \/ x \in InIq(win[h].rob))
        BY <3>2
      <4>3. x \in InIq(win[m].rob)
        BY <3>7
      <4> QED BY <3>5, <4>1, <4>2, <4>3 DEF Ahead
    <3>10. IsFiniteSet(Ahead(k, T))
      <4>1. k \in Int
        BY <1>1, LiveUop
      <4>2. IsFiniteSet(1..k-1) /\ Ahead(k, T) \in SUBSET (1..k-1)
        BY <4>1, FS_Interval DEF Ahead
      <4> QED BY <4>2, FS_Subset
    <3>11. Cardinality(Ahead(k, N)) = r + 1
      BY <1>5, <3>8, <3>9, <3>10, FS_AddElement
    <3>12. \A y \in N : Before(y, k)
      BY <1>5, <3>2, <3>6
    <3> HIDE DEF N
    <3>13. PassedOver(i, k, N, r + 1)
      BY <3>11, <3>12 DEF PassedOver
    <3> QED BY <3>13 DEF N
  <2>2. CASE i \notin Eligible(T, prf_rdy)
    <3>1. \/ iq[i].u.class = "div" /\ OfClass("div", T) # {}
          \/ iq[i].u.class = "mul" /\ ~(Cardinality(OfClass("mul", T)) < 2)
      BY <2>2 DEF Eligible
    <3>2. \A c : \A x \in OfClass(c, T) : Before(x, k)
      BY <1>5 DEF OfClass
    <3>3. CASE iq[i].u.class = "div" /\ OfClass("div", T) # {}
      <4>1. \E x \in OfClass("div", N) : Before(x, k)
        BY <1>2, <3>2, <3>3
      <4> HIDE DEF N
      <4>2. PassedOver(i, k, N, r + 1)
        BY <3>3, <4>1 DEF PassedOver
      <4> QED BY <4>2 DEF N
    <3>4. CASE iq[i].u.class = "mul" /\ ~(Cardinality(OfClass("mul", T)) < 2)
      <4>1. IsFiniteSet(OfClass("mul", T)) /\ Cardinality(OfClass("mul", T)) \in Nat
        BY <1>1, FewSlots DEF Limited
      <4>2. \E x, y \in OfClass("mul", T) : x # y
        BY <3>4, <4>1, TwoMembers
      <4>3. \E x, y \in OfClass("mul", N) : x # y /\ Before(x, k) /\ Before(y, k)
        BY <1>2, <3>2, <4>2
      <4> HIDE DEF N
      <4>4. PassedOver(i, k, N, r + 1)
        BY <3>4, <4>3 DEF PassedOver
      <4> QED BY <4>4 DEF N
    <3> QED BY <3>1, <3>3, <3>4
  <2> QED BY <2>1, <2>2
<1> QED BY <1>3, <1>4, <1>5 DEF PassedOver

\* The state of the selection after the last round.
LEMMA SelectionEnds ==
  ASSUME OInv
  PROVE  /\ Limited(Selected(prf_rdy))
         /\ \A k \in Live : \A i \in InIq(win[k].rob) :
              i \in Ready(prf_rdy) /\ i \notin Selected(prf_rdy) =>
                PassedOver(i, k, Selected(prf_rdy), cfg_issue_width)
<1>1. PICK f : Rounds(f, cfg_issue_width) /\ Selected(prf_rdy) = f[cfg_issue_width]
  BY SelectedRounds
<1> PICK w \in Nat : w = cfg_issue_width
  BY ExecIfcAssumption
<1>2. \A r \in 0..w :
        f[r] = IF r = 0 THEN {} ELSE f[r-1] \cup Oldest(Eligible(f[r-1], prf_rdy))
  BY <1>1 DEF Rounds
<1> DEFINE Good(r) ==
      /\ Limited(f[r])
      /\ \A k \in Live : \A i \in InIq(win[k].rob) :
           i \in Ready(prf_rdy) /\ i \notin f[r] => PassedOver(i, k, f[r], r)
<1>3. Good(0)
  <2>1. f[0] = {}
    <3>1. 0 \in 0..w
      OBVIOUS
    <3> QED BY <1>2, <3>1, Zenon
  <2>2. Cardinality({}) = 0
    BY FS_EmptySet
  <2>3. \A c : OfClass(c, {}) = {}
    BY DEF OfClass
  <2>4. Limited({})
    <3>1. Cardinality(OfClass("mul", {})) <= 2
      BY <2>2, <2>3
    <3> QED BY <2>3, <3>1 DEF Limited
  <2>5. \A k : Ahead(k, {}) = {}
    BY DEF Ahead
  <2>6. \A i, k : PassedOver(i, k, {}, 0)
    BY <2>2, <2>5 DEF PassedOver
  <2> QED BY <2>1, <2>4, <2>6
<1>4. ASSUME NEW r \in Nat, r + 1 <= w, Good(r) PROVE Good(r + 1)
  <2>1. r + 1 \in 0..w /\ r + 1 # 0 /\ (r + 1) - 1 = r
    BY <1>4
  <2>2. f[r+1] = f[r] \cup Oldest(Eligible(f[r], prf_rdy))
    BY <1>2, <2>1
  <2>3. PICK T : T = f[r]
    OBVIOUS
  <2>4. PICK N : N = f[r+1]
    OBVIOUS
  <2>5. N = T \cup Oldest(Eligible(T, prf_rdy)) /\ Limited(T)
    BY <1>4, <2>2, <2>3, <2>4
  <2>6. Limited(N)
    BY <2>5, RoundLimited
  <2>7. ASSUME NEW k \in Live, NEW i \in InIq(win[k].rob), i \in Ready(prf_rdy), i \notin N
        PROVE  PassedOver(i, k, N, r + 1)
    <3>1. PassedOver(i, k, T, r)
      BY <1>4, <2>3, <2>5, <2>7
    <3>2. i \notin T \cup Oldest(Eligible(T, prf_rdy))
      BY <2>5, <2>7
    <3>3. PassedOver(i, k, T \cup Oldest(Eligible(T, prf_rdy)), r + 1)
      BY <2>5, <2>7, <3>1, <3>2, RoundPasses
    <3> QED BY <2>5, <3>3
  <2> QED BY <2>4, <2>6, <2>7
<1> HIDE DEF Good
<1> DEFINE S == {r \in 0..w : ~Good(r)}
<1>5. S = {}
  <2> SUFFICES ASSUME S # {} PROVE FALSE
    OBVIOUS
  <2>1. PICK m \in S : \A n \in S : m <= n
    <3>1. S \in SUBSET Nat
      OBVIOUS
    <3> QED BY <3>1, LeastNat
  <2>2. m # 0
    BY <1>3, <2>1
  <2>3. m - 1 \in Nat /\ m - 1 \in 0..w /\ (m - 1) + 1 = m /\ m <= w /\ ~(m <= m - 1)
    BY <2>1, <2>2
  <2>4. m - 1 \notin S
    <3> HIDE DEF S
    <3> QED BY <2>1, <2>3
  <2>5. Good(m - 1)
    BY <2>3, <2>4
  <2>6. Good((m - 1) + 1)
    BY <1>4, <2>3, <2>5
  <2> QED BY <2>1, <2>3, <2>6
<1>6. Good(w)
  <2>1. w \in 0..w /\ w \notin S
    BY <1>5
  <2> QED BY <2>1
<1> QED BY <1>1, <1>6 DEF Good

LEMMA OrderSelects == OInv => OldestFirst
<1> SUFFICES ASSUME OInv PROVE OldestFirst
  OBVIOUS
<1>1. IInv
  BY DEF OInv
<1> DEFINE sel == Selected(prf_rdy)
<1>2. /\ Limited(sel)
      /\ \A k \in Live : \A i \in InIq(win[k].rob) :
           i \in Ready(prf_rdy) /\ i \notin sel => PassedOver(i, k, sel, cfg_issue_width)
  BY SelectionEnds
<1> DEFINE rivals(k) == {m \in Ahead(k, sel) : win[m].u.class = win[k].u.class}
<1>3. ASSUME NEW k \in Live, NEW i \in InIq(win[k].rob) \cap (Ready(prf_rdy) \ sel)
      PROVE  \/ Cardinality(Ahead(k, sel)) = cfg_issue_width
             \/ win[k].u.class = "div" /\ Cardinality(rivals(k)) = 1
             \/ win[k].u.class = "mul" /\ Cardinality(rivals(k)) = 2
  <2>1. PassedOver(i, k, sel, cfg_issue_width)
    BY <1>2
  <2>2. iq[i].u = win[k].u
    BY <1>1, SlotUop DEF InIq
  <2>3. ASSUME NEW x \in sel, Before(x, k)
        PROVE  \E m \in Ahead(k, sel) : iq[x].rob = win[m].rob /\ iq[x].u = win[m].u
    <3>1. PICK m \in 1..k-1 : iq[x].rob = win[m].rob /\ x \in DOMAIN iq
      BY <2>3 DEF Before
    <3>2. m \in Live
      BY <1>1, LiveUop DEF Live
    <3>3. iq[x].u = win[m].u
      BY <1>1, <3>1, <3>2, SlotUop
    <3>4. m \in Ahead(k, sel)
      BY <3>1 DEF Ahead, InIq
    <3> QED BY <3>1, <3>3, <3>4
  <2>4. ASSUME NEW m \in Ahead(k, sel)
        PROVE  m \in Live /\ \E x \in sel : x \in DOMAIN iq /\ iq[x].rob = win[m].rob /\ iq[x].u = win[m].u
    <3>1. m \in 1..k-1 /\ InIq(win[m].rob) \cap sel # {}
      BY DEF Ahead
    <3>2. PICK x \in sel : x \in InIq(win[m].rob)
      BY <3>1
    <3>3. m \in Live
      BY <1>1, <3>1, LiveUop DEF Live
    <3>4. x \in DOMAIN iq /\ iq[x].rob = win[m].rob
      BY <3>2 DEF InIq
    <3>5. iq[x].u = win[m].u
      BY <1>1, <3>3, <3>4, SlotUop
    <3> QED BY <3>3, <3>4, <3>5
  <2>5. \A c : \A x : x \in OfClass(c, sel) <=> x \in sel /\ iq[x].u.class = c
    BY DEF OfClass
  <2>6. \A h \in Live, m \in Live : win[h].rob = win[m].rob => h = m
    BY <1>1, DifferentEntries DEF IInv
  <2>7. \A m : m \in rivals(k) <=> m \in Ahead(k, sel) /\ win[m].u.class = win[k].u.class
    OBVIOUS
  <2> HIDE DEF sel, rivals
  <2>8. CASE win[k].u.class = "div" /\ \E x \in OfClass("div", sel) : Before(x, k)
    <3>1. PICK x \in OfClass("div", sel) : Before(x, k)
      BY <2>8
    <3>2. PICK m \in Ahead(k, sel) : iq[x].rob = win[m].rob /\ iq[x].u = win[m].u
      BY <2>3, <2>5, <3>1
    <3>3. m \in rivals(k)
      BY <2>5, <2>7, <2>8, <3>1, <3>2
    <3>4. ASSUME NEW h \in rivals(k) PROVE h = m
      <4>1. PICK y \in sel : y \in DOMAIN iq /\ iq[y].rob = win[h].rob /\ iq[y].u = win[h].u
        BY <2>4, <2>7
      <4>2. y \in OfClass("div", sel)
        BY <2>5, <2>7, <2>8, <4>1
      <4>3. y = x
        BY <1>2, <3>1, <4>2 DEF Limited
      <4> QED BY <2>4, <2>6, <2>7, <3>2, <4>1, <4>3
    <3>5. rivals(k) = {m}
      BY <3>3, <3>4
    <3>6. Cardinality(rivals(k)) = 1
      BY <3>5, FS_Singleton
    <3> QED BY <2>8, <3>6
  <2>9. CASE /\ win[k].u.class = "mul"
             /\ \E x, y \in OfClass("mul", sel) : x # y /\ Before(x, k) /\ Before(y, k)
    <3>1. PICK x \in OfClass("mul", sel), y \in OfClass("mul", sel) :
            x # y /\ Before(x, k) /\ Before(y, k)
      BY <2>9
    <3>2. PICK m \in Ahead(k, sel) : iq[x].rob = win[m].rob /\ iq[x].u = win[m].u
      BY <2>3, <2>5, <3>1
    <3>3. PICK l \in Ahead(k, sel) : iq[y].rob = win[l].rob /\ iq[y].u = win[l].u
      BY <2>3, <2>5, <3>1
    <3>4. x \in DOMAIN iq /\ y \in DOMAIN iq
      BY <3>1 DEF Before
    <3>5. m # l
      BY <1>1, <3>1, <3>2, <3>3, <3>4 DEF IInv, Placed
    <3>6. m \in rivals(k) /\ l \in rivals(k)
      BY <2>5, <2>7, <2>9, <3>1, <3>2, <3>3
    <3>7. OfClass("mul", sel) = {x, y}
      <4>1. /\ IsFiniteSet(OfClass("mul", sel)) /\ Cardinality(OfClass("mul", sel)) <= 2
        BY <1>1, <1>2, FewSlots DEF Limited
      <4> QED BY <3>1, <4>1, TwoMembersOnly
    <3>8. ASSUME NEW h \in rivals(k) PROVE h = m \/ h = l
      <4>1. PICK z \in sel : z \in DOMAIN iq /\ iq[z].rob = win[h].rob /\ iq[z].u = win[h].u
        BY <2>4, <2>7
      <4>2. z \in OfClass("mul", sel)
        BY <2>5, <2>7, <2>9, <4>1
      <4>3. z = x \/ z = y
        BY <3>7, <4>2
      <4>4. h \in Live /\ m \in Live /\ l \in Live
        BY <2>4, <2>7
      <4> QED BY <2>6, <3>2, <3>3, <4>1, <4>3, <4>4
    <3>9. rivals(k) = {m, l}
      BY <3>6, <3>8
    <3>10. Cardinality({m, l}) = 2
      BY <3>5, PairCardinality
    <3>11. Cardinality(rivals(k)) = 2
      BY <3>9, <3>10, Zenon
    <3> QED BY <2>9, <3>11
  <2>10. CASE Cardinality(Ahead(k, sel)) = cfg_issue_width
    BY <2>10
  <2> QED BY <2>1, <2>2, <2>8, <2>9, <2>10 DEF PassedOver
<1>4. \A k : Ahead(k, sel) = {m \in 1..k-1 : InIq(win[m].rob) \cap sel # {}}
  BY DEF Ahead
<1> QED BY <1>3, <1>4 DEF OldestFirst

\* A ready uop is passed over only for older ones, that take the whole width or
\* the whole of its unit, however the age numbers of be_iq.v go round.
THEOREM OldestGoFirst == Spec => []OldestFirst
BY SchedulerOrder, OrderSelects, PTL
============================================================================
