------------------------------ MODULE PoolProofs ------------------------------
(***************************************************************************)
(* The pool keeps its inductive invariant, for every number of workers and *)
(* jobs, and implements the abstract pool.                                 *)
(***************************************************************************)
EXTENDS Pool, FiniteSetTheorems, TLAPS

\* What is left of a deque when its owner takes from the bottom.
LEMMA FrontFacts ==
  ASSUME NEW S, NEW s \in Seq(S), s # <<>>
  PROVE  /\ Front(s) \in Seq(S) /\ Len(s) \in Nat \ {0} /\ Len(Front(s)) = Len(s) - 1
         /\ \A x \in 1..Len(s)-1 : Front(s)[x] = s[x]
         /\ Last(s) = s[Len(s)] /\ Last(s) \in S
<1> DEFINE m == Len(s)
<1>1. m \in Nat \ {0} /\ s \in [1..m -> S]
  OBVIOUS
<1>2. Front(s) = [x \in 1..m-1 |-> s[x]]
  <2>1. Front(s) = SubSeq(s, 1, m - 1)
    BY DEF Front
  <2>2. SubSeq(s, 1, m - 1) = [x \in 1..m-1 |-> s[x]]
    BY <1>1
  <2> QED BY <2>1, <2>2
<1>3. Front(s) \in Seq(S) /\ Len(Front(s)) = m - 1
  BY <1>1, <1>2
<1>4. Last(s) = s[m]
  BY DEF Last
<1> QED BY <1>1, <1>2, <1>3, <1>4

\* What is left of a deque when a thief takes from the top.
LEMMA TailFacts ==
  ASSUME NEW S, NEW s \in Seq(S), s # <<>>
  PROVE  /\ Tail(s) \in Seq(S) /\ Len(s) \in Nat \ {0} /\ Len(Tail(s)) = Len(s) - 1
         /\ \A x \in 1..Len(s)-1 : Tail(s)[x] = s[x+1]
         /\ Head(s) = s[1] /\ Head(s) \in S
OBVIOUS

\* The thief's victim is a worker.
LEMMA VictimType ==
  ASSUME TypeOK, NEW w \in Workers, k[w] < N
  PROVE  Victim(w) \in Workers
<1>1. N \in Nat \ {0} /\ k[w] \in 0..N /\ w \in 0..N-1
  BY PoolAssumption DEF TypeOK, Workers
<1> QED BY <1>1 DEF Victim, Workers

----------------------------------------------------------------------------
\* Between runs nobody is inside the gate.
LEMMA OutsideRun ==
  ASSUME IInv, ~InRun
  PROVE  /\ \A w \in Workers : ~Inside(w) /\ ~Holding(w) /\ mygen[w] = generation
         /\ n_active = 0
<1>1. Owing = {}
  BY DEF IInv, ActiveExact
<1>2. n_active = 0
  BY <1>1, FS_EmptySet DEF IInv, ActiveExact
<1> QED BY <1>1, <1>2 DEF Owing, Inside, Holding

\* A worker that moves on without touching a job, the gate's counts or the
\* caller changes nothing the invariant speaks of but its own place.
LEMMA PlainStep ==
  ASSUME IInv, NEW w \in Workers, NEW p \in {"gate", "asleep", "pop", "steal", "exit"},
         wpc' = [wpc EXCEPT ![w] = p],
         ~Holding(w),
         UNCHANGED <<dq, n_active, generation, shutdown, idx, callerVars, finished>>,
         mygen' \in [Workers -> Nat],
         \A v \in Workers : v # w => mygen'[v] = mygen[v],
         generation - mygen'[w] \in 0..1,
         k' \in [Workers -> 0..N],
         Owing' = Owing,
         p = "steal" => dq[w] = <<>>,
         p \in {"pop", "steal"} => mygen'[w] = generation
  PROVE  IInv'
<1> USE DEF callerVars
<1>1. TypeOK'
  BY DEF IInv, TypeOK
<1>2. \A v \in Workers : (Holding(v))' = Holding(v)
  BY DEF Holding, IInv, TypeOK
<1>3. NoJobTwice'
  BY <1>2 DEF IInv, NoJobTwice
<1>4. NoJobLost'
  BY <1>2 DEF IInv, NoJobLost
<1>5. ActiveExact'
  BY DEF IInv, ActiveExact, InRun
<1>6. EmptyBehind'
  BY DEF IInv, EmptyBehind, TypeOK
<1>7. CallerKnows'
  <2>1. \A v \in Workers : (Inside(v) => mygen[v] = generation)'
    BY DEF IInv, CallerKnows, Inside, TypeOK
  <2> QED BY <1>2, <2>1 DEF IInv, CallerKnows
<1>8. ReturnsWhenDone'
  BY DEF IInv, ReturnsWhenDone
<1> QED BY <1>1, <1>3, <1>4, <1>5, <1>6, <1>7, <1>8 DEF IInv

----------------------------------------------------------------------------
\* A job that was in the deque of u.
CameFrom(u, x) == \E z \in 1..Len(dq[u]) : x = dq[u][z]

\* Taking a job from one end of a deque (d = 0: the youngest, d = 1: the
\* oldest) moves that job, and no other, from the deque into a hand.
LEMMA TakeMoves ==
  ASSUME IInv, NEW w \in Workers, NEW v \in Workers, NEW d \in {0, 1},
         NEW r \in Seq(0..n-1), NEW p \in 1..Len(dq[v]),
         p = (IF d = 0 THEN Len(dq[v]) ELSE 1),
         Len(r) = Len(dq[v]) - 1,
         \A x \in 1..Len(r) : r[x] = dq[v][x + d],
         wpc[w] \in {"pop", "steal"},
         wpc' = [wpc EXCEPT ![w] = "work"],
         idx' = [idx EXCEPT ![w] = dq[v][p]],
         dq'  = [dq EXCEPT ![v] = r],
         UNCHANGED <<gateVars, mygen, k, callerVars, finished>>
  PROVE  IInv'
<1> USE DEF gateVars, callerVars
<1> DEFINE j == dq[v][p]
<1>1. \A u \in Workers : dq[u] \in Seq(0..n-1) /\ Len(dq[u]) \in Nat
  BY DEF IInv, TypeOK
<1>2. j \in 0..pushed-1 /\ j \in 0..n-1
  <2>1. j \in 0..pushed-1
    BY DEF IInv, CallerKnows
  <2> QED BY <2>1 DEF IInv, TypeOK
<1>3. /\ dq' \in [Workers -> Seq(0..n-1)] /\ dq'[v] = r
      /\ \A u \in Workers : u # v => dq'[u] = dq[u]
  BY DEF IInv, TypeOK
<1>4. \A u \in Workers : \A x \in 1..Len(dq'[u]) :
        /\ \E y \in 1..Len(dq[u]) : dq'[u][x] = dq[u][y] /\ (u = v => y = x + d)
        /\ dq'[u][x] # j
  <2> TAKE u \in Workers
  <2> TAKE x \in 1..Len(dq'[u])
  <2>1. CASE u = v
    <3>1. x + d \in 1..Len(dq[v]) /\ x + d # p /\ dq'[u][x] = dq[v][x + d]
      <4>1. Len(dq[v]) \in Nat /\ x \in 1..Len(r) /\ dq'[u] = r
        BY <1>1, <1>3, <2>1
      <4>2. CASE d = 0
        BY <4>1, <4>2
      <4>3. CASE d = 1
        BY <4>1, <4>3
      <4> QED BY <4>2, <4>3
    <3>2. dq[v][x + d] # dq[v][p]
      BY <3>1 DEF IInv, NoJobTwice
    <3> QED BY <2>1, <3>1, <3>2
  <2>2. CASE u # v
    <3>1. dq'[u] = dq[u]
      BY <1>3, <2>2
    <3>2. dq[u][x] # dq[v][p]
      BY <2>2, <3>1 DEF IInv, NoJobTwice
    <3> QED BY <2>2, <3>1, <3>2
  <2> QED BY <2>1, <2>2
<1>24. \A u \in Workers : \A x \in 1..Len(dq'[u]) : CameFrom(u, dq'[u][x])
  <2> TAKE u \in Workers
  <2> TAKE x \in 1..Len(dq'[u])
  <2>1. PICK y \in 1..Len(dq[u]) : dq'[u][x] = dq[u][y]
    BY <1>4, SMT
  <2>2. PICK g : g = dq'[u][x] /\ g = dq[u][y]
    BY <2>1
  <2> QED BY <2>2 DEF CameFrom
<1>5. \A u \in Workers : \A y \in 1..Len(dq[u]) :
        dq[u][y] = j \/ \E x \in 1..Len(dq'[u]) : dq'[u][x] = dq[u][y]
  <2> TAKE u \in Workers
  <2> TAKE y \in 1..Len(dq[u])
  <2>1. CASE u = v /\ y # p
    <3>1. y - d \in 1..Len(r) /\ r[y - d] = dq[v][y]
      BY <1>1, <2>1
    <3> QED BY <1>3, <2>1, <3>1
  <2>2. CASE u # v
    BY <1>3, <2>2
  <2> QED BY <2>1, <2>2
<1>6. /\ Holding(w)' /\ ~Holding(w) /\ idx'[w] = j
      /\ \A u \in Workers : u # w => (Holding(u)' <=> Holding(u)) /\ idx'[u] = idx[u]
      /\ \A u \in Workers : Inside(u)' <=> Inside(u)
  BY DEF Holding, Inside, IInv, TypeOK
<1>7. j \notin finished /\ \A u \in Workers : Holding(u) => idx[u] # j
  BY DEF IInv, NoJobTwice
<1>8. TypeOK'
  <2>1. wpc' \in [Workers -> {"gate", "asleep", "pop", "steal", "work", "exit"}]
    BY DEF IInv, TypeOK
  <2>2. idx' \in [Workers -> Nat]
    <3>1. j \in Nat
      BY <1>2 DEF IInv, TypeOK
    <3> QED BY <3>1 DEF IInv, TypeOK
  <2> QED BY <1>3, <2>1, <2>2 DEF IInv, TypeOK
<1>9. NoJobTwice'
  <2>1. ASSUME NEW u \in Workers, NEW x \in 1..Len(dq'[u]), NEW y \in 1..Len(dq'[u]),
               dq'[u][x] = dq'[u][y]
        PROVE  x = y
    <3>1. CASE u = v
      <4>1. /\ x + d \in 1..Len(dq[v]) /\ y + d \in 1..Len(dq[v])
            /\ dq[v][x + d] = dq[v][y + d]
        <5>1. Len(dq[v]) \in Nat /\ x \in 1..Len(r) /\ y \in 1..Len(r) /\ r[x] = r[y]
          BY <1>1, <1>3, <2>1, <3>1
        <5>2. CASE d = 0
          BY <5>1, <5>2
        <5>3. CASE d = 1
          BY <5>1, <5>3
        <5> QED BY <5>2, <5>3
      <4>2. x + d = y + d
        BY <4>1 DEF IInv, NoJobTwice
      <4> QED BY <1>1, <1>3, <3>1, <4>2
    <3>2. CASE u # v
      BY <1>3, <2>1, <3>2 DEF IInv, NoJobTwice
    <3> QED BY <3>1, <3>2
  <2>2. ASSUME NEW u \in Workers, NEW t \in Workers, u # t,
               NEW x \in 1..Len(dq'[u]), NEW y \in 1..Len(dq'[t])
        PROVE  dq'[u][x] # dq'[t][y]
    <3>1. CameFrom(u, dq'[u][x]) /\ CameFrom(t, dq'[t][y])
      BY <1>24
    <3>2. PICK x0 \in 1..Len(dq[u]) : dq'[u][x] = dq[u][x0]
      BY <3>1, Zenon DEF CameFrom
    <3>3. PICK y0 \in 1..Len(dq[t]) : dq'[t][y] = dq[t][y0]
      BY <3>1, Zenon DEF CameFrom
    <3> QED BY <2>2, <3>2, <3>3 DEF IInv, NoJobTwice
  <2>3. \A u, t \in Workers : (Holding(u) /\ Holding(t) /\ idx[u] = idx[t])' => u = t
    BY <1>6, <1>7 DEF IInv, NoJobTwice
  <2>4. \A u \in Workers : \A x \in 1..Len(dq'[u]) : dq'[u][x] \notin finished'
    BY <1>4 DEF IInv, NoJobTwice
  <2>5. \A u \in Workers : Holding(u)' => idx'[u] \notin finished'
    BY <1>6, <1>7 DEF IInv, NoJobTwice
  <2>6. \A u, t \in Workers : Holding(t)' => \A x \in 1..Len(dq'[u]) : dq'[u][x] # idx'[t]
    <3> SUFFICES ASSUME NEW u \in Workers, NEW t \in Workers, Holding(t)',
                        NEW x \in 1..Len(dq'[u])
                 PROVE  dq'[u][x] # idx'[t]
      OBVIOUS
    <3>1. PICK x0 \in 1..Len(dq[u]) : dq'[u][x] = dq[u][x0]
      BY <1>4
    <3> QED BY <1>4, <1>6, <3>1 DEF IInv, NoJobTwice
  <2> QED BY <2>1, <2>2, <2>3, <2>4, <2>5, <2>6 DEF NoJobTwice
<1>10. NoJobLost'
  <2> SUFFICES ASSUME NEW i \in 0..pushed-1
               PROVE  \/ i \in finished
                      \/ \E u \in Workers : wpc'[u] = "work" /\ idx'[u] = i
                      \/ \E u \in Workers : \E x \in 1..Len(dq'[u]) : dq'[u][x] = i
    BY DEF NoJobLost, Holding
  <2>1. CASE i \in finished
    BY <2>1
  <2>2. CASE \E u \in Workers : Holding(u) /\ idx[u] = i
    BY <1>6, <2>2 DEF Holding
  <2>3. CASE \E u \in Workers : \E x \in 1..Len(dq[u]) : dq[u][x] = i
    BY <1>5, <1>6, <2>3 DEF Holding
  <2> QED BY <2>1, <2>2, <2>3 DEF IInv, NoJobLost
<1>11. ActiveExact'
  <2>1. Owing' = Owing
    BY <1>6 DEF Owing
  <2> QED BY <2>1 DEF IInv, ActiveExact, InRun
<1>12. EmptyBehind'
  <2>1. w \in Owing /\ Owing' = Owing
    BY <1>6 DEF Owing, Inside
  <2>2. v # w => ~(wpc[v] = "steal" \/ (mpc # "push" /\ v \notin Owing))
    BY <1>1 DEF IInv, EmptyBehind
  <2>3. \A u \in Workers : u # w => wpc'[u] = wpc[u]
    BY DEF IInv, TypeOK
  <2>4. wpc'[w] # "steal"
    BY DEF IInv, TypeOK
  <2> QED BY <1>3, <2>1, <2>2, <2>3, <2>4 DEF IInv, EmptyBehind
<1>13. CallerKnows'
  <2>1. \A u \in Workers : \A x \in 1..Len(dq'[u]) : dq'[u][x] \in 0..pushed-1
    BY <1>4 DEF IInv, CallerKnows
  <2>2. \A u \in Workers : Holding(u)' => idx'[u] \in 0..pushed-1
    BY <1>2, <1>6 DEF IInv, CallerKnows
  <2> QED BY <1>6, <2>1, <2>2 DEF IInv, CallerKnows
<1>14. ReturnsWhenDone'
  BY DEF IInv, ReturnsWhenDone
<1> QED BY <1>8, <1>9, <1>10, <1>11, <1>12, <1>13, <1>14 DEF IInv

----------------------------------------------------------------------------
\* There are N workers, and the owing ones can be counted.
LEMMA OwingFinite ==
  /\ IsFiniteSet(Workers) /\ Cardinality(Workers) = N
  /\ IsFiniteSet(Owing)
<1>1. IsFiniteSet(Workers) /\ Cardinality(Workers) = N
  BY PoolAssumption, FS_Interval DEF Workers
<1> QED BY <1>1, FS_Subset DEF Owing

\* With every deque empty and no job dealt out and not done, the parts of the
\* invariant that speak of jobs hold.
LEMMA NoJobsAtAll ==
  ASSUME \A w \in Workers : dq[w] = <<>> /\ ~Holding(w)
  PROVE  NoJobTwice /\ (NoJobLost <=> 0..pushed-1 \subseteq finished) /\ EmptyBehind
BY DEF NoJobTwice, NoJobLost, EmptyBehind

----------------------------------------------------------------------------
\* The initial state satisfies the invariant.
LEMMA InitEstablishes == Init => IInv
<1> SUFFICES ASSUME Init PROVE IInv
  OBVIOUS
<1>1. \A w \in Workers : dq[w] = <<>> /\ ~Holding(w) /\ ~Inside(w)
  BY DEF Init, Holding, Inside
<1>2. TypeOK
  <2>1. dq \in [Workers -> Seq(0..n-1)]
    <3>1. <<>> \in Seq(0..n-1)
      OBVIOUS
    <3> QED BY <3>1 DEF Init
  <2>2. n_active \in 0..N /\ k \in [Workers -> 0..N] /\ idx \in [Workers -> Nat]
    BY PoolAssumption DEF Init
  <2>3. /\ mygen \in [Workers -> Nat] /\ \A w \in Workers : generation - mygen[w] \in 0..1
        /\ wpc \in [Workers -> {"gate", "asleep", "pop", "steal", "work", "exit"}]
    BY DEF Init
  <2>4. generation \in 0..MaxRuns /\ n \in Nat /\ pushed \in 0..n
    BY PoolAssumption DEF Init
  <2>5. /\ shutdown \in BOOLEAN /\ finished \subseteq 0..n-1
        /\ mpc \in {"idle", "push", "asleep", "check", "join", "gone"}
    BY DEF Init
  <2> QED BY <2>1, <2>2, <2>3, <2>4, <2>5 DEF TypeOK
<1>3. NoJobTwice /\ NoJobLost /\ EmptyBehind
  <2>1. 0..pushed-1 \subseteq finished
    BY DEF Init
  <2> QED BY <1>1, <2>1, NoJobsAtAll
<1>4. ActiveExact
  <2>1. Owing = {}
    BY <1>1 DEF Init, Owing
  <2> QED BY <2>1, FS_EmptySet DEF Init, ActiveExact
<1>5. CallerKnows
  BY <1>1 DEF Init, CallerKnows
<1>6. ReturnsWhenDone
  BY DEF Init, ReturnsWhenDone
<1> QED BY <1>2, <1>3, <1>4, <1>5, <1>6 DEF IInv

\* A worker's job is done: it passes from a hand to finished.
LEMMA WorkPreserves ==
  ASSUME IInv, NEW w \in Workers, Work(w)
  PROVE  IInv'
<1> USE DEF gateVars, callerVars
<1>1. Holding(w) /\ Inside(w) /\ InRun
  <2>1. Holding(w) /\ Inside(w)
    BY DEF Work, At, Holding, Inside
  <2> QED BY <2>1, OutsideRun
<1>2. /\ \A u \in Workers : Inside(u)' <=> Inside(u)
      /\ \A u \in Workers : Holding(u)' <=> (Holding(u) /\ u # w)
      /\ \A u \in Workers : wpc'[u] = "steal" <=> wpc[u] = "steal"
  BY DEF Work, At, IInv, TypeOK, Inside, Holding
<1>3. idx[w] \in 0..n-1
  <2>1. idx[w] \in 0..pushed-1
    BY <1>1 DEF IInv, CallerKnows
  <2> QED BY <2>1 DEF IInv, TypeOK
<1>4. TypeOK'
  BY <1>3 DEF IInv, TypeOK, Work, At
<1>5. NoJobTwice'
  BY <1>1, <1>2 DEF IInv, NoJobTwice, Work
<1>6. NoJobLost'
  <2> SUFFICES ASSUME NEW i \in 0..pushed-1
               PROVE  \/ i \in finished'
                      \/ \E u \in Workers : wpc'[u] = "work" /\ idx[u] = i
                      \/ \E u \in Workers : \E x \in 1..Len(dq[u]) : dq[u][x] = i
    BY DEF NoJobLost, Holding, Work
  <2> QED BY <1>2 DEF IInv, NoJobLost, Holding, Work
<1>7. ActiveExact'
  <2>1. Owing' = Owing
    BY <1>2 DEF Owing, Work
  <2> QED BY <2>1 DEF IInv, ActiveExact, InRun, Work
<1>8. EmptyBehind'
  <2>1. Owing' = Owing
    BY <1>2 DEF Owing, Work
  <2> QED BY <1>2, <2>1 DEF IInv, EmptyBehind, Work
<1>9. CallerKnows'
  BY <1>1, <1>2 DEF IInv, CallerKnows, InRun, Work
<1>10. ReturnsWhenDone'
  BY <1>1 DEF IInv, ReturnsWhenDone, InRun, Work
<1> QED BY <1>4, <1>5, <1>6, <1>7, <1>8, <1>9, <1>10 DEF IInv

\* A worker reports the run finished: it owes nothing any more, and its own
\* deque is empty.
LEMMA LeavePreserves ==
  ASSUME IInv, NEW w \in Workers, Leave(w)
  PROVE  IInv'
<1> USE DEF gateVars
<1>1. wpc[w] = "steal" /\ Inside(w) /\ InRun /\ mygen[w] = generation /\ dq[w] = <<>>
  <2>1. wpc[w] = "steal" /\ Inside(w)
    BY DEF Leave, At, Inside
  <2> QED BY <2>1, OutsideRun DEF IInv, EmptyBehind, CallerKnows
<1>2. /\ \A u \in Workers : Inside(u)' <=> (Inside(u) /\ u # w)
      /\ \A u \in Workers : Holding(u)' <=> Holding(u)
      /\ \A u \in Workers : wpc'[u] = "steal" => wpc[u] = "steal"
  BY <1>1 DEF Leave, At, IInv, TypeOK, Inside, Holding
<1>3. InRun' /\ mpc' # "push" /\ mpc # "push"
  BY <1>1 DEF InRun, Leave
<1>4. w \in Owing /\ Owing' = Owing \ {w}
  BY <1>1, <1>2 DEF Owing, Leave
<1>5. n_active' = Cardinality(Owing') /\ n_active' \in 0..N
  <2>1. Cardinality(Owing \ {w}) = Cardinality(Owing) - 1
    BY <1>4, OwingFinite, FS_RemoveElement
  <2>2. IsFiniteSet(Owing \ {w})
    BY OwingFinite, FS_RemoveElement
  <2>3. Cardinality(Owing \ {w}) \in Nat
    BY <2>2, FS_CardinalityType
  <2> QED BY <1>4, <2>1, <2>3, PoolAssumption DEF IInv, ActiveExact, TypeOK, Leave
<1>6. TypeOK'
  <2>1. mpc' \in {"idle", "push", "asleep", "check", "join", "gone"}
    BY <1>3 DEF InRun
  <2> QED BY <1>5, <2>1 DEF IInv, TypeOK, Leave, At
<1>7. NoJobTwice'
  BY <1>2 DEF IInv, NoJobTwice, Leave
<1>8. NoJobLost'
  BY <1>2 DEF IInv, NoJobLost, Leave
<1>9. ActiveExact'
  BY <1>3, <1>5 DEF ActiveExact
<1>10. EmptyBehind'
  BY <1>1, <1>2, <1>3, <1>4 DEF IInv, EmptyBehind, Leave
<1>11. CallerKnows'
  <2>1. ~(mpc \in {"join", "gone"}) /\ ~(mpc' \in {"join", "gone"})
    BY <1>1, <1>3 DEF InRun
  <2> QED BY <1>2, <1>3, <2>1 DEF IInv, CallerKnows, Leave
<1>12. ReturnsWhenDone'
  BY <1>3 DEF ReturnsWhenDone, InRun
<1> QED BY <1>6, <1>7, <1>8, <1>9, <1>10, <1>11, <1>12 DEF IInv

----------------------------------------------------------------------------
\* Between runs every deque is empty.
LEMMA OutsideEmpty ==
  ASSUME IInv, ~InRun, mpc # "push"
  PROVE  \A w \in Workers : dq[w] = <<>>
<1>1. Owing = {}
  BY DEF IInv, ActiveExact
<1> QED BY <1>1 DEF IInv, EmptyBehind

\* A new run begins with nothing left of the last.
LEMMA RunPreserves ==
  ASSUME IInv, NEW m \in Runs, Run(m)
  PROVE  IInv'
<1> USE DEF gateVars, workerVars
<1>1. mpc = "idle" /\ ~InRun
  BY DEF Run, InRun
<1>2. \A w \in Workers : dq[w] = <<>> /\ ~Holding(w) /\ ~Inside(w)
  BY <1>1, OutsideRun, OutsideEmpty
<1>3. \A w \in Workers : dq'[w] = <<>> /\ ~Holding(w)' /\ ~Inside(w)'
  BY <1>2 DEF Run, Holding, Inside
<1>4. TypeOK'
  <2>1. dq' \in [Workers -> Seq(0..n'-1)]
    <3>1. <<>> \in Seq(0..n'-1) /\ DOMAIN dq = Workers
      BY DEF IInv, TypeOK
    <3>2. dq' = [w \in Workers |-> dq'[w]]
      BY <3>1 DEF Run, IInv, TypeOK
    <3> QED BY <1>3, <3>1, <3>2
  <2>2. n' \in Nat /\ pushed' \in 0..n'
    BY PoolAssumption DEF Run
  <2> QED BY <2>1, <2>2 DEF IInv, TypeOK, Run
<1>5. NoJobTwice' /\ NoJobLost' /\ EmptyBehind'
  <2>1. 0..pushed'-1 = {}
    BY DEF Run
  <2> QED BY <1>3, <2>1 DEF NoJobTwice, NoJobLost, EmptyBehind
<1>6. ActiveExact'
  <2>1. Owing' = Owing
    BY DEF Owing, Inside, Run
  <2> QED BY <1>1, <2>1 DEF IInv, ActiveExact, Run
<1>7. CallerKnows'
  BY <1>3 DEF IInv, CallerKnows, Run
<1>8. ReturnsWhenDone'
  BY DEF ReturnsWhenDone, Run
<1> QED BY <1>4, <1>5, <1>6, <1>7, <1>8 DEF IInv

\* A job dealt out is the largest yet: it is in no deque already.
LEMMA PushPreserves ==
  ASSUME IInv, Push
  PROVE  IInv'
<1> USE DEF gateVars, workerVars
<1> DEFINE v == pushed % N
<1>1. /\ mpc = "push" /\ mpc' = "push" /\ ~InRun /\ finished = {} /\ finished' = {}
      /\ pushed \in Nat /\ pushed' = pushed + 1 /\ n \in Nat /\ pushed \in 0..n-1
  BY DEF Push, InRun, IInv, CallerKnows, TypeOK
<1>2. v \in Workers
  BY <1>1, PoolAssumption DEF Workers
<1>3. \A w \in Workers : ~Holding(w) /\ ~Inside(w)
  BY <1>1, OutsideRun
<1>4. \A w \in Workers : ~Holding(w)' /\ ~Inside(w)'
  BY <1>3 DEF Push, Holding, Inside
<1>5. \A w \in Workers : dq[w] \in Seq(0..n-1) /\ Len(dq[w]) \in Nat
  BY DEF IInv, TypeOK
<1>6. /\ dq'[v] = Append(dq[v], pushed)
      /\ \A w \in Workers : w # v => dq'[w] = dq[w]
  BY <1>2 DEF Push, IInv, TypeOK
<1>7. /\ Len(dq'[v]) = Len(dq[v]) + 1 /\ dq'[v][Len(dq[v]) + 1] = pushed
      /\ \A x \in 1..Len(dq[v]) : dq'[v][x] = dq[v][x]
  BY <1>2, <1>5, <1>6
<1>8. \A w \in Workers : \A x \in 1..Len(dq[w]) : dq[w][x] \in 0..pushed-1
  BY DEF IInv, CallerKnows
<1>9. \A w \in Workers : \A x \in 1..Len(dq'[w]) :
        \/ x \in 1..Len(dq[w]) /\ dq'[w][x] = dq[w][x]
        \/ w = v /\ x = Len(dq[v]) + 1 /\ dq'[w][x] = pushed
  <2> SUFFICES ASSUME NEW w \in Workers, NEW x \in 1..Len(dq'[w])
               PROVE  \/ x \in 1..Len(dq[w]) /\ dq'[w][x] = dq[w][x]
                      \/ w = v /\ x = Len(dq[v]) + 1 /\ dq'[w][x] = pushed
    OBVIOUS
  <2>1. CASE w = v
    BY <1>5, <1>7, <2>1
  <2>2. CASE w # v
    BY <1>6, <2>2
  <2> QED BY <2>1, <2>2
<1>10. TypeOK'
  <2>1. Append(dq[v], pushed) \in Seq(0..n-1)
    BY <1>1, <1>2, <1>5
  <2>2. dq' \in [Workers -> Seq(0..n-1)]
    BY <2>1 DEF Push, IInv, TypeOK
  <2> QED BY <1>1, <2>2 DEF IInv, TypeOK, Push
<1>11. NoJobTwice'
  <2>1. ASSUME NEW w \in Workers, NEW x \in 1..Len(dq'[w]), NEW y \in 1..Len(dq'[w]),
               dq'[w][x] = dq'[w][y]
        PROVE  x = y
    <3>1. CASE dq'[w][x] = pushed
      <4>1. ~(x \in 1..Len(dq[w]) /\ dq'[w][x] = dq[w][x])
        BY <1>1, <1>8, <3>1
      <4>2. ~(y \in 1..Len(dq[w]) /\ dq'[w][y] = dq[w][y])
        BY <1>1, <1>8, <2>1, <3>1
      <4> QED BY <1>9, <4>1, <4>2
    <3>2. CASE dq'[w][x] # pushed
      BY <1>9, <2>1, <3>2 DEF IInv, NoJobTwice
    <3> QED BY <3>1, <3>2
  <2>2. ASSUME NEW w \in Workers, NEW u \in Workers, w # u,
               NEW x \in 1..Len(dq'[w]), NEW y \in 1..Len(dq'[u])
        PROVE  dq'[w][x] # dq'[u][y]
    <3>1. CASE w # v /\ u # v
      BY <1>6, <2>2, <3>1 DEF IInv, NoJobTwice
    <3>2. CASE w = v /\ u # v
      <4>1. y \in 1..Len(dq[u]) /\ dq'[u][y] = dq[u][y] /\ dq[u][y] # pushed
        BY <1>1, <1>6, <1>8, <3>2
      <4> QED BY <1>9, <2>2, <4>1 DEF IInv, NoJobTwice
    <3>3. CASE w # v /\ u = v
      <4>1. x \in 1..Len(dq[w]) /\ dq'[w][x] = dq[w][x] /\ dq[w][x] # pushed
        BY <1>1, <1>6, <1>8, <3>3
      <4> QED BY <1>9, <2>2, <4>1 DEF IInv, NoJobTwice
    <3> QED BY <2>2, <3>1, <3>2, <3>3
  <2> QED BY <1>1, <1>4, <2>1, <2>2 DEF NoJobTwice
<1>12. NoJobLost'
  <2> SUFFICES ASSUME NEW i \in 0..pushed'-1
               PROVE  \E w \in Workers : \E x \in 1..Len(dq'[w]) : dq'[w][x] = i
    BY DEF NoJobLost
  <2>1. CASE i = pushed
    BY <1>2, <1>5, <1>7, <2>1
  <2>2. CASE i # pushed
    <3>1. PICK w \in Workers : \E x \in 1..Len(dq[w]) : dq[w][x] = i
      BY <1>1, <1>3, <2>2 DEF IInv, NoJobLost
    <3>2. PICK x \in 1..Len(dq[w]) : dq[w][x] = i
      BY <3>1
    <3>3. x \in 1..Len(dq'[w]) /\ dq'[w][x] = i
      BY <1>5, <1>6, <1>7, <3>2
    <3> QED BY <3>3
  <2> QED BY <2>1, <2>2
<1>13. ActiveExact'
  <2>1. Owing' = Owing
    BY DEF Owing, Inside, Push
  <2> QED BY <1>1, <2>1 DEF IInv, ActiveExact, InRun, Push
<1>14. EmptyBehind'
  BY <1>1, <1>4 DEF EmptyBehind, Inside
<1>15. CallerKnows'
  <2>1. \A w \in Workers : \A x \in 1..Len(dq'[w]) : dq'[w][x] \in 0..pushed'-1
    BY <1>1, <1>8, <1>9
  <2> QED BY <1>1, <1>4, <2>1 DEF IInv, CallerKnows, Push
<1>16. ReturnsWhenDone'
  BY <1>1 DEF ReturnsWhenDone
<1> QED BY <1>10, <1>11, <1>12, <1>13, <1>14, <1>15, <1>16 DEF IInv

\* The gate opens: every worker now owes a report.
LEMMA StartPreserves ==
  ASSUME IInv, Start
  PROVE  IInv'
<1> USE DEF gateVars
<1>1. /\ mpc = "push" /\ mpc' = "asleep" /\ pushed = n /\ ~InRun /\ InRun'
      /\ generation' = generation + 1 /\ n_active' = N
  BY DEF Start, InRun
<1>2. \A w \in Workers : ~Holding(w) /\ ~Inside(w) /\ mygen[w] = generation
  BY <1>1, OutsideRun
<1>3. /\ wpc' \in [Workers -> {"gate", "asleep", "pop", "steal", "work", "exit"}]
      /\ \A w \in Workers : ~Holding(w)' /\ ~Inside(w)' /\ wpc'[w] # "steal"
  BY <1>2 DEF Start, Broadcast, Holding, Inside, IInv, TypeOK
<1>4. generation \in Nat /\ generation' \in 0..MaxRuns
  BY <1>1, PoolAssumption DEF IInv, TypeOK, CallerKnows
<1>5. \A w \in Workers : generation' - mygen'[w] = 1
  BY <1>1, <1>2, <1>4 DEF Start
<1>6. TypeOK'
  BY <1>1, <1>3, <1>4, <1>5, PoolAssumption DEF IInv, TypeOK, Start
<1>7. NoJobTwice'
  BY <1>3 DEF IInv, NoJobTwice, Start
<1>8. NoJobLost'
  BY <1>2 DEF IInv, NoJobLost, Start
<1>9. Owing' = Workers
  BY <1>1, <1>2, <1>4 DEF Owing, Start
<1>10. ActiveExact'
  BY <1>1, <1>9, OwingFinite DEF ActiveExact
<1>11. EmptyBehind'
  BY <1>3, <1>9 DEF EmptyBehind
<1>12. CallerKnows'
  BY <1>1, <1>3 DEF IInv, CallerKnows, Start
<1>13. ReturnsWhenDone'
  BY <1>1 DEF ReturnsWhenDone
<1> QED BY <1>6, <1>7, <1>8, <1>10, <1>11, <1>12, <1>13 DEF IInv

\* With nobody owing, every job of the run has been done.
LEMMA NobodyOwes ==
  ASSUME IInv, InRun, n_active = 0
  PROVE  /\ finished = 0..n-1 /\ Owing = {}
         /\ \A w \in Workers : ~Holding(w) /\ dq[w] = <<>>
<1>1. Owing = {}
  BY OwingFinite, FS_EmptySet DEF IInv, ActiveExact
<1>2. \A w \in Workers : ~Holding(w) /\ dq[w] = <<>>
  BY <1>1 DEF Owing, Inside, Holding, IInv, EmptyBehind, InRun
<1>3. 0..n-1 \subseteq finished
  BY <1>2 DEF IInv, NoJobLost, CallerKnows, InRun
<1> QED BY <1>1, <1>2, <1>3 DEF IInv, TypeOK

\* The caller believes n_active, and may.
LEMMA CheckPreserves ==
  ASSUME IInv, Check
  PROVE  IInv'
<1> USE DEF gateVars, workerVars
<1>1. InRun /\ mpc = "check" /\ mpc' = (IF n_active > 0 THEN "asleep" ELSE "idle")
  BY DEF Check, InRun
<1>2. ~InRun' => mpc' = "idle" /\ finished = 0..n-1 /\ Owing = {}
  <2> SUFFICES ASSUME ~InRun'
               PROVE  mpc' = "idle" /\ finished = 0..n-1 /\ Owing = {}
    OBVIOUS
  <2>1. n_active = 0 /\ mpc' = "idle"
    BY <1>1 DEF InRun, IInv, TypeOK
  <2> QED BY <1>1, <2>1, NobodyOwes
<1>3. Owing' = Owing
  BY DEF Owing, Inside, Check
<1>4. TypeOK'
  BY <1>1 DEF IInv, TypeOK, Check
<1>5. NoJobTwice' /\ NoJobLost'
  BY DEF IInv, NoJobTwice, NoJobLost, Holding, Check
<1>6. ActiveExact'
  BY <1>2, <1>3 DEF IInv, ActiveExact, Check
<1>7. EmptyBehind'
  BY <1>1, <1>3 DEF IInv, EmptyBehind, Check
<1>8. CallerKnows'
  BY <1>1 DEF IInv, CallerKnows, Holding, Inside, Check
<1>9. ReturnsWhenDone'
  BY <1>1, <1>2 DEF ReturnsWhenDone, InRun, Check
<1> QED BY <1>4, <1>5, <1>6, <1>7, <1>8, <1>9 DEF IInv

\* The caller's other steps move it on, and wake whoever sleeps at the gate,
\* without touching a job.
LEMMA CallerMoves ==
  ASSUME IInv, SpuriousCaller \/ Destroy \/ Join
  PROVE  IInv'
<1> USE DEF gateVars, workerVars
<1>1. /\ UNCHANGED <<dq, generation, n_active, mygen, k, idx, n, pushed, finished>>
      /\ mpc # "push" /\ mpc' # "push" /\ mpc' # "idle"
      /\ mpc' \in {"check", "join", "gone"}
      /\ InRun' <=> InRun
      /\ mpc' \in {"join", "gone"} => mpc \in {"idle", "join"}
  BY DEF SpuriousCaller, Destroy, Join, InRun
<1>2. /\ wpc' \in [Workers -> {"gate", "asleep", "pop", "steal", "work", "exit"}]
      /\ \A w \in Workers : /\ Holding(w)' <=> Holding(w)
                            /\ Inside(w)' <=> Inside(w)
                            /\ wpc'[w] = "steal" <=> wpc[w] = "steal"
  BY DEF SpuriousCaller, Destroy, Join, Broadcast, Holding, Inside, IInv, TypeOK
<1>3. shutdown' \in BOOLEAN /\ (shutdown' <=> mpc' \in {"join", "gone"})
  <2>1. CASE SpuriousCaller
    <3>1. shutdown' = shutdown /\ ~(mpc \in {"join", "gone"}) /\ ~(mpc' \in {"join", "gone"})
      BY <2>1 DEF SpuriousCaller
    <3> QED BY <3>1 DEF IInv, TypeOK, CallerKnows
  <2>2. CASE Destroy
    BY <2>2 DEF Destroy
  <2>3. CASE Join
    <3>1. shutdown' = shutdown /\ mpc \in {"join", "gone"} /\ mpc' \in {"join", "gone"}
      BY <2>3 DEF Join
    <3> QED BY <3>1 DEF IInv, TypeOK, CallerKnows
  <2> QED BY <2>1, <2>2, <2>3
<1>4. Owing' = Owing
  BY <1>1, <1>2 DEF Owing
<1>5. TypeOK'
  BY <1>1, <1>2, <1>3 DEF IInv, TypeOK
<1>6. NoJobTwice' /\ NoJobLost'
  BY <1>1, <1>2 DEF IInv, NoJobTwice, NoJobLost
<1>7. ActiveExact' /\ EmptyBehind'
  BY <1>1, <1>2, <1>4 DEF IInv, ActiveExact, EmptyBehind
<1>8. CallerKnows'
  BY <1>1, <1>2, <1>3 DEF IInv, CallerKnows
<1>9. ReturnsWhenDone'
  BY <1>1 DEF IInv, ReturnsWhenDone
<1> QED BY <1>5, <1>6, <1>7, <1>8, <1>9 DEF IInv

----------------------------------------------------------------------------
\* The steps in which a worker only moves on.
LEMMA MovesOnPreserves ==
  ASSUME IInv, NEW w \in Workers,
         \/ PassGate(w) \/ Exit(w) \/ Sleep(w) \/ PopNone(w) \/ StealNone(w)
         \/ SpuriousWorker(w)
  PROVE  IInv'
<1> USE DEF gateVars, callerVars
<1>1. CASE PassGate(w)
  <2>1. /\ generation \in Nat /\ mygen' \in [Workers -> Nat] /\ mygen'[w] = generation
        /\ \A v \in Workers : v # w => mygen'[v] = mygen[v]
    BY <1>1, PoolAssumption DEF PassGate, IInv, TypeOK
  <2>2. Owing' = Owing
    BY <1>1, <2>1 DEF Owing, Inside, PassGate, At, IInv, TypeOK
  <2>3. wpc' = [wpc EXCEPT ![w] = "pop"] /\ ~Holding(w)
    BY <1>1 DEF PassGate, At, Holding
  <2>4. UNCHANGED <<dq, gateVars, k, idx, callerVars, finished>> /\ k' \in [Workers -> 0..N]
    BY <1>1 DEF PassGate, IInv, TypeOK
  <2>5. generation - mygen'[w] \in 0..1
    BY <2>1
  <2> QED BY <2>1, <2>2, <2>3, <2>4, <2>5, PlainStep
<1>2. CASE Exit(w) \/ Sleep(w) \/ SpuriousWorker(w)
  <2>1. PICK p \in {"gate", "asleep", "exit"} :
          wpc[w] \in {"gate", "asleep"} /\ wpc' = [wpc EXCEPT ![w] = p]
    BY <1>2 DEF Exit, Sleep, SpuriousWorker, At
  <2>2. UNCHANGED <<dq, gateVars, mygen, k, idx, callerVars, finished>>
    BY <1>2 DEF Exit, Sleep, SpuriousWorker
  <2>3. Owing' = Owing /\ ~Holding(w)
    BY <2>1, <2>2 DEF Owing, Inside, Holding, IInv, TypeOK
  <2> QED BY <2>1, <2>2, <2>3, PlainStep DEF IInv, TypeOK
<1>3. CASE PopNone(w) \/ StealNone(w)
  <2>1. /\ wpc[w] \in {"pop", "steal"} /\ wpc' = [wpc EXCEPT ![w] = "steal"]
        /\ dq[w] = <<>> /\ ~Holding(w) /\ mygen[w] = generation
    BY <1>3 DEF PopNone, StealNone, At, Holding, Inside, IInv, TypeOK, EmptyBehind, CallerKnows
  <2>2. UNCHANGED <<dq, gateVars, mygen, idx, callerVars, finished>>
    BY <1>3 DEF PopNone, StealNone
  <2>3. k' \in [Workers -> 0..N]
    <3>1. 1 \in 0..N /\ (k[w] < N => k[w] + 1 \in 0..N)
      BY PoolAssumption DEF IInv, TypeOK
    <3> QED BY <1>3, <3>1 DEF PopNone, StealNone, IInv, TypeOK
  <2>4. Owing' = Owing
    BY <2>1, <2>2 DEF Owing, Inside, IInv, TypeOK
  <2> QED BY <2>1, <2>2, <2>3, <2>4, PlainStep DEF IInv, TypeOK
<1> QED BY <1>1, <1>2, <1>3

\* The steps in which a worker takes a job, its own or another's.
LEMMA TakePreserves ==
  ASSUME IInv, NEW w \in Workers, Pop(w) \/ Steal(w)
  PROVE  IInv'
<1>1. CASE Pop(w)
  <2>1. dq[w] \in Seq(0..n-1) /\ dq[w] # <<>>
    BY <1>1 DEF Pop, IInv, TypeOK
  <2> DEFINE r == Front(dq[w])
  <2>2. /\ r \in Seq(0..n-1) /\ Len(dq[w]) \in 1..Len(dq[w]) /\ Len(r) = Len(dq[w]) - 1
        /\ \A x \in 1..Len(r) : r[x] = dq[w][x + 0]
        /\ Last(dq[w]) = dq[w][Len(dq[w])]
    <3>1. /\ r \in Seq(0..n-1) /\ Len(dq[w]) \in Nat \ {0} /\ Len(r) = Len(dq[w]) - 1
          /\ \A x \in 1..Len(dq[w])-1 : r[x] = dq[w][x]
          /\ Last(dq[w]) = dq[w][Len(dq[w])]
      BY <2>1, FrontFacts
    <3> HIDE DEF r
    <3> QED BY <3>1
  <2>3. /\ wpc[w] \in {"pop", "steal"} /\ wpc' = [wpc EXCEPT ![w] = "work"]
        /\ idx' = [idx EXCEPT ![w] = dq[w][Len(dq[w])]] /\ dq' = [dq EXCEPT ![w] = r]
        /\ UNCHANGED <<gateVars, mygen, k, callerVars, finished>>
    BY <1>1, <2>2 DEF Pop, At
  <2> HIDE DEF r
  <2> QED BY <2>2, <2>3, TakeMoves
<1>2. CASE Steal(w)
  <2>0. PICK v \in Workers : v = Victim(w)
    BY <1>2, VictimType DEF Steal, IInv
  <2> DEFINE r == Tail(dq[v])
  <2>1. dq[v] \in Seq(0..n-1) /\ dq[v] # <<>>
    BY <1>2, <2>0 DEF Steal, IInv, TypeOK
  <2>2. /\ r \in Seq(0..n-1) /\ 1 \in 1..Len(dq[v]) /\ Len(r) = Len(dq[v]) - 1
        /\ \A x \in 1..Len(r) : r[x] = dq[v][x + 1]
        /\ Head(dq[v]) = dq[v][1]
    <3>1. /\ r \in Seq(0..n-1) /\ Len(dq[v]) \in Nat \ {0} /\ Len(r) = Len(dq[v]) - 1
          /\ \A x \in 1..Len(dq[v])-1 : r[x] = dq[v][x+1]
          /\ Head(dq[v]) = dq[v][1]
      BY <2>1, TailFacts
    <3> HIDE DEF r
    <3> QED BY <3>1
  <2>3. /\ wpc[w] \in {"pop", "steal"} /\ wpc' = [wpc EXCEPT ![w] = "work"]
        /\ idx' = [idx EXCEPT ![w] = dq[v][1]] /\ dq' = [dq EXCEPT ![v] = r]
        /\ UNCHANGED <<gateVars, mygen, k, callerVars, finished>>
    BY <1>2, <2>0, <2>2 DEF Steal, At
  <2>4. 1 \in {0, 1} /\ 1 = (IF 1 = 0 THEN Len(dq[v]) ELSE 1)
    OBVIOUS
  <2> HIDE DEF r
  <2> QED BY <2>2, <2>3, <2>4, TakeMoves
<1> QED BY <1>1, <1>2

\* Every step of the specification preserves the invariant.
LEMMA NextPreserves == IInv /\ [Next]_vars => IInv'
<1> SUFFICES ASSUME IInv, [Next]_vars PROVE IInv'
  OBVIOUS
<1>1. ASSUME NEW w \in Workers, WorkerStep(w) \/ SpuriousWorker(w)
      PROVE  IInv'
  BY <1>1, MovesOnPreserves, TakePreserves, WorkPreserves, LeavePreserves DEF WorkerStep
<1>2. ASSUME NEW m \in Runs, Run(m)
      PROVE  IInv'
  BY <1>2, RunPreserves
<1>3. CASE CallerStep \/ SpuriousCaller \/ Destroy
  BY <1>3, PushPreserves, StartPreserves, CheckPreserves, CallerMoves DEF CallerStep
<1>4. CASE Gone \/ UNCHANGED vars
  <2>1. UNCHANGED vars
    BY <1>4 DEF Gone
  <2> USE DEF vars, gateVars, workerVars, callerVars
  <2>2. TypeOK' /\ ActiveExact' /\ EmptyBehind'
    BY <2>1 DEF IInv, TypeOK, ActiveExact, EmptyBehind, Owing, Inside, InRun
  <2>3. NoJobTwice' /\ NoJobLost' /\ ReturnsWhenDone'
    BY <2>1 DEF IInv, NoJobTwice, NoJobLost, ReturnsWhenDone, Holding
  <2>4. CallerKnows'
    BY <2>1 DEF IInv, CallerKnows, Inside, Holding
  <2> QED BY <2>2, <2>3, <2>4 DEF IInv
<1> QED BY <1>1, <1>2, <1>3, <1>4 DEF Next

----------------------------------------------------------------------------
\* In every reachable state of a pool of any size, deques, hands, the done jobs
\* and n_active agree (worker_main, bstm_pool_run).
THEOREM PoolInvariance == Spec => []IInv
<1> QED BY InitEstablishes, NextPreserves, PTL DEF Spec

\* The pool's variables keep their kinds.
THEOREM PoolTypes == Spec => []TypeOK
<1>1. IInv => TypeOK
  BY DEF IInv
<1> QED BY <1>1, PoolInvariance, PTL

\* However owners, thieves and the caller interleave, no job is taken twice
\* and none is dropped.
THEOREM JobsOnce == Spec => []EachJobOnce
<1>1. IInv => EachJobOnce
  BY DEF IInv, EachJobOnce
<1> QED BY <1>1, PoolInvariance, PTL

\* bstm_pool_run returns after the last job of the run and not before.
THEOREM ReturnsAfterLast == Spec => []ReturnsWhenDone
<1>1. IInv => ReturnsWhenDone
  BY DEF IInv
<1> QED BY <1>1, PoolInvariance, PTL

\* No worker is past the gate while the caller writes p->batches, p->fn and
\* p->ctx without holding it.
THEOREM CallerWritesAlone == Spec => []NobodyInside
<1>1. IInv => NobodyInside
  BY OutsideRun DEF NobodyInside, InRun
<1> QED BY <1>1, PoolInvariance, PTL

----------------------------------------------------------------------------
\* A step that keeps the done jobs and the hands is a stutter for the caller,
\* when it leaves the call it is in alone.
LEMMA QuietStep ==
  ASSUME UNCHANGED <<n, finished>>, Running' = Running,
         \/ mpc' = mpc
         \/ {mpc, mpc'} \subseteq {"push", "asleep", "check"}
         \/ {mpc, mpc'} \subseteq {"join", "gone"}
  PROVE  UNCHANGED Promise!vars
BY DEF Promise!vars

\* Whoever changes neither its job nor whether it holds one leaves the hands
\* as they were.
LEMMA SameHands ==
  ASSUME idx' = idx, \A w \in Workers : Holding(w)' <=> Holding(w)
  PROVE  Running' = Running
BY DEF Running, Holding

\* Taking a job, by its owner or a thief, is the abstract Take.
LEMMA TakeImplements ==
  ASSUME IInv, NEW w \in Workers, Pop(w) \/ Steal(w)
  PROVE  Promise!Next
<1>1. InRun \/ mpc = "push"
  <2>1. Inside(w)
    BY DEF Pop, Steal, At, Inside
  <2> QED BY <2>1, OutsideRun
<1>2. PICK v \in Workers : \E x \in 1..Len(dq[v]) :
        idx' = [idx EXCEPT ![w] = dq[v][x]] /\ dq[v][x] \in 0..n-1
  <2>1. CASE Pop(w)
    <3>1. dq[w] \in Seq(0..n-1) /\ dq[w] # <<>>
      BY <2>1 DEF Pop, IInv, TypeOK
    <3>2. Len(dq[w]) \in 1..Len(dq[w]) /\ Last(dq[w]) = dq[w][Len(dq[w])]
          /\ Last(dq[w]) \in 0..n-1
      <4>1. Len(dq[w]) \in Nat \ {0} /\ Last(dq[w]) = dq[w][Len(dq[w])]
            /\ Last(dq[w]) \in 0..n-1
        BY <3>1, FrontFacts
      <4> QED BY <4>1
    <3> QED BY <2>1, <3>2 DEF Pop
  <2>2. CASE Steal(w)
    <3>0. PICK v \in Workers : v = Victim(w)
      BY <2>2, VictimType DEF Steal, IInv
    <3>1. dq[v] \in Seq(0..n-1) /\ dq[v] # <<>>
      BY <2>2, <3>0 DEF Steal, IInv, TypeOK
    <3>2. 1 \in 1..Len(dq[v]) /\ Head(dq[v]) = dq[v][1] /\ Head(dq[v]) \in 0..n-1
      <4>1. Len(dq[v]) \in Nat \ {0} /\ Head(dq[v]) = dq[v][1] /\ Head(dq[v]) \in 0..n-1
        BY <3>1, TailFacts
      <4> QED BY <4>1
    <3> QED BY <2>2, <3>0, <3>2 DEF Steal
  <2> QED BY <2>1, <2>2
<1>3. PICK x \in 1..Len(dq[v]) :
        idx' = [idx EXCEPT ![w] = dq[v][x]] /\ dq[v][x] \in 0..n-1
  BY <1>2
<1>4. PICK j \in 0..n-1 : j = dq[v][x]
  BY <1>3
<1>5. j \notin finished /\ j \notin Running
  BY <1>4 DEF IInv, NoJobTwice, Running
<1>6. Running' = Running \cup {j}
  <2>1. /\ Holding(w)' /\ ~Holding(w) /\ idx'[w] = j
        /\ \A u \in Workers : u # w => (Holding(u)' <=> Holding(u)) /\ idx'[u] = idx[u]
    BY <1>3, <1>4 DEF Pop, Steal, At, Holding, IInv, TypeOK
  <2> QED BY <2>1 DEF Running, Holding
<1>7. UNCHANGED <<mpc, n, finished>>
  BY DEF Pop, Steal, callerVars
<1> DEFINE waiting == (0..n-1) \ (finished \cup Running)
<1>8. j \in waiting /\ waiting' = waiting \ {j}
  BY <1>5, <1>6, <1>7
<1>9. Promise!Take(j)
  BY <1>1, <1>5, <1>6, <1>7, <1>8 DEF Promise!Take, InRun
<1> QED BY <1>8, <1>9 DEF Promise!Next

\* The return of fn is the abstract Finish.
LEMMA WorkImplements ==
  ASSUME IInv, NEW w \in Workers, Work(w)
  PROVE  Promise!Next
<1>1. PICK j : j = idx[w]
  OBVIOUS
<1>2. Holding(w) /\ (InRun \/ mpc = "push")
  <2>1. Holding(w) /\ Inside(w)
    BY DEF Work, At, Inside, Holding
  <2> QED BY <2>1, OutsideRun
<1>3. UNCHANGED <<mpc, n, idx>> /\ finished' = finished \cup {j}
  BY <1>1 DEF Work, callerVars
<1>4. j \in Running /\ Running' = Running \ {j}
  <2>1. \A u \in Workers : Holding(u)' <=> (Holding(u) /\ u # w)
    BY DEF Work, At, Holding, IInv, TypeOK
  <2>2. \A u \in Workers : Holding(u) /\ u # w => idx[u] # j
    BY <1>1, <1>2 DEF IInv, NoJobTwice
  <2> QED BY <1>1, <1>2, <1>3, <2>1, <2>2 DEF Running, Holding
<1>5. ((0..n-1) \ (finished \cup Running))' = (0..n-1) \ (finished \cup Running)
  BY <1>3, <1>4
<1>6. Promise!Finish(j)
  BY <1>2, <1>3, <1>4, <1>5 DEF Promise!Finish, InRun
<1> QED BY <1>4, <1>6 DEF Promise!Next

\* Every step of the pool is a step of the abstract pool, or a stutter.
LEMMA StepImplements == IInv /\ [Next]_vars => [Promise!Next]_(Promise!vars)
<1> SUFFICES ASSUME IInv, [Next]_vars PROVE Promise!Next \/ UNCHANGED Promise!vars
  OBVIOUS
<1> USE DEF gateVars, workerVars, callerVars
<1>1. ASSUME NEW w \in Workers, Pop(w) \/ Steal(w) \/ Work(w)
      PROVE  Promise!Next
  BY <1>1, TakeImplements, WorkImplements
<1>2. ASSUME NEW w \in Workers,
             \/ PassGate(w) \/ Exit(w) \/ Sleep(w) \/ PopNone(w) \/ StealNone(w)
             \/ Leave(w) \/ SpuriousWorker(w)
      PROVE  UNCHANGED Promise!vars
  <2>1. UNCHANGED <<n, finished, idx>>
    BY <1>2 DEF PassGate, Exit, Sleep, PopNone, StealNone, Leave, SpuriousWorker
  <2>2. \A u \in Workers : Holding(u)' <=> Holding(u)
    BY <1>2 DEF PassGate, Exit, Sleep, PopNone, StealNone, Leave, SpuriousWorker, At,
                Holding, IInv, TypeOK
  <2>3. mpc' = mpc \/ {mpc, mpc'} \subseteq {"push", "asleep", "check"}
    BY <1>2 DEF PassGate, Exit, Sleep, PopNone, StealNone, Leave, SpuriousWorker
  <2>4. Running' = Running
    BY <2>1, <2>2, SameHands
  <2> QED BY <2>1, <2>3, <2>4, QuietStep
<1>3. ASSUME NEW m \in Runs, Run(m)
      PROVE  Promise!Next
  <2>1. \A w \in Workers : ~Holding(w)
    BY <1>3, OutsideRun DEF Run, InRun
  <2>2. Running = {} /\ Running' = {}
    BY <1>3, <2>1 DEF Running, Run, Holding
  <2>3. Promise!Submit(m)
    BY <1>3, <2>2 DEF Promise!Submit, Run
  <2> QED BY <2>3 DEF Promise!Next
<1>4. CASE Push \/ Start \/ SpuriousCaller \/ Join \/ Gone \/ UNCHANGED vars
             \/ (Check /\ n_active > 0)
  <2>1. UNCHANGED <<n, finished, idx>>
    BY <1>4 DEF Push, Start, SpuriousCaller, Join, Gone, vars, Check
  <2>2. \A u \in Workers : Holding(u)' <=> Holding(u)
    BY <1>4 DEF Push, Start, SpuriousCaller, Join, Gone, vars, Check, Broadcast, Holding
  <2>3. \/ mpc' = mpc
        \/ {mpc, mpc'} \subseteq {"push", "asleep", "check"}
        \/ {mpc, mpc'} \subseteq {"join", "gone"}
    BY <1>4 DEF Push, Start, SpuriousCaller, Join, Gone, vars, Check
  <2>4. Running' = Running
    BY <2>1, <2>2, SameHands
  <2> QED BY <2>1, <2>3, <2>4, QuietStep
<1>5. CASE Check /\ ~(n_active > 0)
  <2>1. InRun /\ n_active = 0
    BY <1>5 DEF Check, InRun, IInv, TypeOK
  <2>2. \A w \in Workers : ~Holding(w)
    BY <2>1, NobodyOwes
  <2>3. Running = {} /\ Running' = {} /\ finished = 0..n-1
    BY <1>5, <2>1, <2>2, NobodyOwes DEF Running, Check, Holding
  <2>4. Promise!Return
    BY <1>5, <2>3 DEF Promise!Return, Check
  <2> QED BY <2>4 DEF Promise!Next
<1>6. CASE Destroy
  <2>1. Running' = Running
    <3>1. \A u \in Workers : Holding(u)' <=> Holding(u)
      BY <1>6 DEF Destroy, Broadcast, Holding
    <3> QED BY <1>6, <3>1, SameHands DEF Destroy
  <2>2. Promise!Close
    BY <1>6, <2>1 DEF Promise!Close, Destroy
  <2> QED BY <2>2 DEF Promise!Next
<1> QED BY <1>1, <1>2, <1>3, <1>4, <1>5, <1>6 DEF Next, WorkerStep, CallerStep

\* bstm_pool_run does every job of its run exactly once and returns after the
\* last, whatever the owners, thieves and wakeups do: the pool implements the
\* abstract one.
THEOREM PoolImplements == Spec => KeepsPromise
<1>1. Init => Promise!Init
  BY DEF Init, Promise!Init, Running, Holding
<1> QED BY <1>1, PoolInvariance, StepImplements, PTL DEF Spec, KeepsPromise, Promise!Spec
=============================================================================
