-------------------------- MODULE ShadowFetchProofs --------------------------
(***************************************************************************)
(* Theorems about ShadowFetch, for every program, window, staging depth,   *)
(* decode queue and fetch width.  Every uop on its way has a number, by    *)
(* its place: the oldest in flight follows the record retired last.  Up to *)
(* the resume point a number is the record's own; from there on it counts  *)
(* through the shadow of the branch taken last.                            *)
(***************************************************************************)
EXTENDS ShadowFetch, OrderLemmas, SequenceTheorems

----------------------------------------------------------------------------
(* The inductive invariant.                                                *)

Position == [rec : Nat, fe : Nat]
Staged   == [rec : Nat, fe : Nat, off : Nat, sh : BOOLEAN]
Cursor   == [rec : Nat, fe : Nat, off : Nat, sv : Position]
Lane     ==
  [cur : Cursor, stage : Seq(Staged), eof : BOOLEAN,
   fstate : {"CORRECT", "SHADOW", "STARVED"},
   last_br_fe : Nat, branch : Nat, hi_resume : Nat, resolved : Nat,
   n_enter : Nat, n_leave : Nat, n_nobranch : Nat, n_resolved : Nat,
   cp_consumed : Nat, wp_consumed : Nat, br_consumed : Position, last_deliv : Position]

\* fe_idx of a cursor: it has passed the starts of the blocks up to r.
Passed(r) == 1 + Cardinality(NewBlocks(1, r))

\* The record to resume at, and what number k is before and from there on.
ResumeOf(l) == IF l.cur.off > 0 THEN l.cur.sv.rec ELSE l.cur.rec
Numbered(l, e, k) ==
  IF k < ResumeOf(l)
  THEN e.off = 0 /\ e.rec = k /\ e.fe = BlockOf(k)
  ELSE e.off = k - ResumeOf(l) + 1 /\ e.rec = l.branch

\* The records staged in lane l have the numbers after b.
StageNumbered(l, b) == \A i \in 1..Len(l.stage) : Numbered(l, l.stage[i], b + i)

\* The branch entered last: it has a shadow, and its block is remembered.
BranchKept(l) ==
  \/ l.branch = 0 /\ l.last_br_fe = 0 /\ l.hi_resume = 0
  \/ /\ l.branch \in 1..n_records /\ Shadow(l.branch) # <<>>
     /\ l.last_br_fe = BlockOf(l.branch) /\ l.hi_resume = l.branch + 1

\* A lane that reads the correct path, and one that is in a shadow.
OnCorrect(l, b) ==
  /\ l.fstate = "CORRECT" /\ l.cur.off = 0 /\ l.cur.rec = b + Len(l.stage) + 1
  /\ l.cur.rec <= n_records + 1 /\ l.cur.fe = Passed(l.cur.rec)
  /\ \A i \in 1..Len(l.stage) : l.stage[i].sh <=> Shadow(l.stage[i].rec) # <<>>
  /\ l.branch <= b /\ l.resolved = l.last_br_fe
  /\ l.eof => l.cur.rec = n_records + 1
  /\ l.n_enter = l.n_leave

InShadow(l, b) ==
  /\ l.fstate # "CORRECT" /\ l.branch # 0
  /\ l.cur.rec = l.branch
  /\ l.cur.sv.rec = l.branch + 1 /\ l.cur.sv.fe = Passed(l.branch + 1)
  /\ l.cur.off > 0 /\ l.cur.off + l.branch = b + Len(l.stage) + 1
  /\ l.cur.off <= Len(Shadow(l.branch)) + 1
  /\ l.n_enter = l.n_leave + 1

Consumed(l, b) ==
  l.cp_consumed = IF b < ResumeOf(l) THEN b ELSE ResumeOf(l) - 1

\* A lane of which b numbers have been delivered.
LaneInv(l, b) ==
  /\ l \in Lane /\ Len(l.stage) <= M
  /\ StageNumbered(l, b) /\ BranchKept(l) /\ Consumed(l, b)
  /\ OnCorrect(l, b) \/ InShadow(l, b)

\* The number delivered last, and whether the next one begins a block.
Base == retired + Len(Delivered)
Begins(l, k) ==
  IF k < ResumeOf(l) \/ l.fstate = "CORRECT"
  THEN k = 1 \/ trace.rec[k-1].blkend
  ELSE k = ResumeOf(l) \/ Shadow(l.branch)[k - ResumeOf(l)]

InFlight(l) == \A i \in 1..Len(Delivered) : Numbered(l, Delivered[i], retired + i)

Queues ==
  /\ trace \in Traces
  /\ be \in Seq(Staged) /\ dq \in Seq(Staged) /\ retired \in Nat
  /\ Len(be) <= BE_N /\ Len(dq) <= DQ_N
  /\ bub \in 0..3 /\ blk_seen \in BOOLEAN /\ shadow \in BOOLEAN
  /\ done \in BOOLEAN /\ left \in BOOLEAN

\* The lane is in a shadow, or the model thinks that it is and no branch was
\* found; the latter is for good.
Astray(l)  == l.fstate # "CORRECT" \/ l.n_nobranch > 0
NoTwice(l) == l.n_nobranch = 0 \/ (l.n_nobranch = 1 /\ l.fstate = "CORRECT")

\* What has been retired is of the correct path.
RetiredCorrect == retired < ResumeOf(lane)

IInv ==
  /\ Queues /\ LaneInv(lane, Base) /\ InFlight(lane) /\ RetiredCorrect
  /\ shadow <=> Astray(lane)
  /\ NoTwice(lane)
  /\ blk_seen \/ Begins(lane, Base + 1)
  /\ done => LaneDone(lane)
  /\ left => done
----------------------------------------------------------------------------
(* Least, greatest, and how many.                                          *)

LEMMA MinTwo ==
  ASSUME NEW a \in Int, NEW b \in Int
  PROVE  Min({a, b}) = IF a <= b THEN a ELSE b
BY DEF Min

\* A finite set of naturals that is not empty has its least member.
LEMMA MinOf ==
  ASSUME NEW S \in SUBSET Nat, S # {}
  PROVE  Min(S) \in S /\ \A x \in S : Min(S) <= x
<1>1. \E x \in S : \A y \in S : x <= y
  BY LeastNat
<1> QED BY <1>1 DEF Min

\* And one with an upper bound its greatest.
LEMMA MaxOf ==
  ASSUME NEW S \in SUBSET Int, NEW k \in S, \A x \in S : x <= k
  PROVE  Max(S) = k
<1>1. Max(S) \in S /\ \A x \in S : x <= Max(S)
  BY DEF Max
<1>2. Max(S) \in Int /\ k \in Int /\ Max(S) <= k /\ k <= Max(S)
  BY <1>1
<1> QED BY <1>2

LEMMA HowMany ==
  ASSUME NEW n \in Nat
  PROVE  IsFiniteSet(1..n) /\ Cardinality(1..n) = n
<1>1. 1 \in Int /\ n \in Int
  OBVIOUS
<1> QED BY <1>1, FS_Interval

\* Of the first n numbers those up to m.
LEMMA Prefix ==
  ASSUME NEW n \in Nat, NEW m \in Nat
  PROVE  Cardinality({i \in 1..n : i <= m}) = IF m <= n THEN m ELSE n
<1> DEFINE S == {i \in 1..n : i <= m}
<1>1. CASE m <= n
  <2>1. S = 1..m
    BY <1>1
  <2> QED BY <1>1, <2>1, HowMany
<1>2. CASE ~(m <= n)
  <2>1. S = 1..n
    BY <1>2
  <2>2. Cardinality(S) = n
    BY <2>1, HowMany
  <2> QED BY <1>2, <2>2
<1> QED BY <1>1, <1>2

----------------------------------------------------------------------------
(* Programs: records and the numbers of their blocks.                      *)

LEMMA ProgramTyped ==
  ASSUME trace \in Traces
  PROVE  /\ n_records \in Nat /\ DOMAIN trace.rec = 1..n_records
         /\ \A r \in 1..n_records :
              /\ Shadow(r) \in Seq(BOOLEAN) /\ trace.rec[r].blkend \in BOOLEAN
              /\ BlockOf(r) \in DOMAIN trace.fe /\ BlockOf(r) \in Nat \ {0}
              /\ Shadow(r) # <<>> => trace.rec[r].blkend
<1>1. /\ trace.rec \in Seq([blkend : BOOLEAN, shadow : Seq(BOOLEAN)])
      /\ trace.fe \in Seq(FeEvent)
      /\ \A r \in DOMAIN trace.rec :
           /\ BlockIn(trace, r) \in DOMAIN trace.fe
           /\ trace.rec[r].shadow # <<>> => trace.rec[r].blkend
  BY TraceAssumption
<1>2. n_records \in Nat /\ DOMAIN trace.rec = 1..n_records
  BY <1>1, LenProperties DEF n_records
<1>3. ASSUME NEW r \in 1..n_records
      PROVE  trace.rec[r] \in [blkend : BOOLEAN, shadow : Seq(BOOLEAN)]
  BY <1>1, <1>2, ElementOfSeq DEF n_records
<1>4. DOMAIN trace.fe \subseteq Nat \ {0}
  BY <1>1, LenProperties
<1> QED BY <1>1, <1>2, <1>3, <1>4 DEF Shadow, BlockOf

LEMMA EventTyped ==
  ASSUME trace \in Traces, NEW r \in 1..n_records
  PROVE  trace.fe[BlockOf(r)].bubbles \in 0..3
<1>1. trace.fe \in Seq(FeEvent) /\ BlockOf(r) \in DOMAIN trace.fe
  BY TraceAssumption, ProgramTyped
<1>2. trace.fe[BlockOf(r)] \in FeEvent
  BY <1>1, ElementOfSeq, LenProperties
<1> QED BY <1>2 DEF FeEvent

\* The starts of blocks among the records from a to b are finitely many.
LEMMA NewBlocksFinite ==
  ASSUME NEW a \in Nat, NEW b \in Nat
  PROVE  IsFiniteSet(NewBlocks(a, b)) /\ Cardinality(NewBlocks(a, b)) \in Nat
<1>1. IsFiniteSet(a..b) /\ NewBlocks(a, b) \in SUBSET (a..b)
  BY FS_Interval DEF NewBlocks
<1>2. IsFiniteSet(NewBlocks(a, b))
  BY <1>1, FS_Subset
<1> QED BY <1>2, FS_CardinalityType

LEMMA PassedType ==
  ASSUME NEW r \in Nat
  PROVE  Passed(r) \in Nat
BY NewBlocksFinite DEF Passed

\* A cursor that advances has passed what it had and what it comes by.
LEMMA PassedAdds ==
  ASSUME NEW r \in Nat, NEW n \in Nat
  PROVE  Passed(r + n) = Passed(r) + Cardinality(NewBlocks(r + 1, r + n))
<1> DEFINE S == NewBlocks(1, r)
           T == NewBlocks(r + 1, r + n)
<1>1. S \cup T = NewBlocks(1, r + n) /\ S \cap T = {}
  BY DEF NewBlocks
<1>2. /\ IsFiniteSet(S) /\ Cardinality(S) \in Nat
      /\ IsFiniteSet(T) /\ Cardinality(T) \in Nat
  <2>1. 1 \in Nat /\ r + 1 \in Nat /\ r + n \in Nat
    OBVIOUS
  <2> QED BY <2>1, NewBlocksFinite
<1>3. Cardinality(S \cap T) = 0
  BY <1>1, FS_EmptySet
<1>4. Cardinality(S \cup T) = Cardinality(S) + Cardinality(T) - Cardinality(S \cap T)
  BY <1>2, FS_Union
<1> HIDE DEF S, T
<1>5. Cardinality(S \cup T) = Cardinality(S) + Cardinality(T)
  BY <1>2, <1>3, <1>4
<1>6. Cardinality(NewBlocks(1, r + n)) = Cardinality(S) + Cardinality(T)
  BY <1>1, <1>5
<1>7. Passed(r + n) = 1 + (Cardinality(S) + Cardinality(T)) /\ Passed(r) = 1 + Cardinality(S)
  BY <1>6 DEF Passed, S
<1>8. Passed(r + n) = Passed(r) + Cardinality(T)
  BY <1>2, <1>7
<1> QED BY <1>8 DEF T

\* A record's block is the number of starts up to it.
LEMMA PassedIsBlock ==
  ASSUME trace \in Traces, NEW r \in 1..n_records
  PROVE  Passed(r) = BlockOf(r)
<1> DEFINE S == {q \in 1..r-1 : trace.rec[q].blkend}
           T == NewBlocks(1, r)
           f == [q \in S |-> q + 1]
<1>1. n_records \in Nat
  BY ProgramTyped
<1>2. S \in SUBSET (1..r-1) /\ IsFiniteSet(1..r-1)
  BY <1>1, FS_Interval
<1>3. IsFiniteSet(S)
  BY <1>2, FS_Subset
<1>4. \A p \in T : p - 1 \in S /\ p = (p - 1) + 1
  BY <1>1 DEF NewBlocks
<1>5. \A q \in S : q + 1 \in T
  BY <1>1 DEF NewBlocks
<1>6. \A p \in T : \E q \in S : f[q] = p
  BY <1>4
<1>7. f \in [S -> T] /\ \A p, q \in S : f[p] = f[q] => p = q
  BY <1>5
<1>8. f \in Bijection(S, T)
  BY <1>6, <1>7 DEF Bijection, Injection, Surjection, IsInjective
<1> HIDE DEF S, T, f
<1>9. Cardinality(T) = Cardinality(S)
  BY <1>3, <1>8, FS_Bijection DEF ExistsBijection
<1> QED BY <1>9 DEF Passed, BlockOf, BlockIn, S, T

\* Behind the end of a block the numbers are greater.
LEMMA BlockGrows ==
  ASSUME trace \in Traces, NEW q \in 1..n_records, NEW r \in 1..n_records,
         q < r, trace.rec[q].blkend
  PROVE  BlockOf(q) < BlockOf(r)
<1> DEFINE T == NewBlocks(q + 1, q + (r - q))
<1>1. n_records \in Nat
  BY ProgramTyped
<1>2. q + 1 \in T
  BY <1>1 DEF NewBlocks
<1>3. IsFiniteSet(T) /\ Cardinality(T) \in Nat
  <2>1. q + 1 \in Nat /\ q + (r - q) \in Nat
    BY <1>1
  <2> QED BY <2>1, NewBlocksFinite
<1> HIDE DEF T
<1>4. Cardinality(T) # 0
  BY <1>2, <1>3, FS_EmptySet
<1>5. r - q \in Nat /\ q + (r - q) = r /\ q \in Nat
  BY <1>1
<1>6. Passed(r) = Passed(q) + Cardinality(T)
  BY <1>5, PassedAdds DEF T
<1>7. Passed(q) = BlockOf(q) /\ Passed(r) = BlockOf(r) /\ Passed(q) \in Nat
  BY <1>5, PassedIsBlock, PassedType
<1> QED BY <1>3, <1>4, <1>6, <1>7

\* Up to the end of a block they are the same.
LEMMA BlockSame ==
  ASSUME trace \in Traces, NEW q \in 1..n_records, NEW r \in 1..n_records, q <= r,
         \A j \in q..r-1 : ~trace.rec[j].blkend
  PROVE  BlockOf(q) = BlockOf(r)
<1>1. n_records \in Nat
  BY ProgramTyped
<1>2. PICK n \in Nat : n = r - q /\ q + n = r /\ q \in Nat /\ r \in Nat
  BY <1>1
<1>3. NewBlocks(q + 1, q + n) = {}
  <2>1. \A p \in q+1..r : p - 1 \in q..r-1
    BY <1>2
  <2> QED BY <1>2, <2>1 DEF NewBlocks
<1>4. Passed(q + n) = Passed(q) + 0
  <2>1. Passed(q + n) = Passed(q) + Cardinality(NewBlocks(q + 1, q + n))
    BY <1>2, PassedAdds
  <2> QED BY <1>3, <2>1, FS_EmptySet
<1>5. Passed(q) = BlockOf(q) /\ Passed(r) = BlockOf(r) /\ Passed(q) \in Nat
  BY <1>2, PassedIsBlock, PassedType
<1> QED BY <1>2, <1>4, <1>5
----------------------------------------------------------------------------
(* Cursors and what is staged of them.                                     *)

\* What gathering, taking and turning leave as it is.
Books(l) ==
  <<l.branch, l.last_br_fe, l.hi_resume, l.resolved, l.n_enter, l.n_leave,
    l.n_nobranch, l.n_resolved>>

LEMMA AdvanceTyped ==
  ASSUME NEW c \in Cursor, NEW n \in Nat
  PROVE  Advance(c, n) \in Cursor
<1>1. c.rec \in Nat /\ c.fe \in Nat /\ c.off \in Nat /\ c.sv \in Position
  BY DEF Cursor
<1>2. CASE c.off > 0
  <2>1. Advance(c, n) = [c EXCEPT !.off = c.off + n]
    BY <1>2 DEF Advance
  <2>2. c.off + n \in Nat
    BY <1>1
  <2> HIDE DEF Position
  <2> QED BY <2>1, <2>2 DEF Cursor
<1>3. CASE ~(c.off > 0)
  <2> DEFINE k == Cardinality(NewBlocks(c.rec + 1, c.rec + n))
  <2>1. c.rec + 1 \in Nat /\ c.rec + n \in Nat
    BY <1>1
  <2>2. k \in Nat
    BY <2>1, NewBlocksFinite
  <2>3. Advance(c, n) = [c EXCEPT !.rec = c.rec + n, !.fe = c.fe + k]
    BY <1>3 DEF Advance
  <2> HIDE DEF k
  <2>4. c.fe + k \in Nat
    BY <1>1, <2>2
  <2> QED BY <2>1, <2>3, <2>4 DEF Cursor
<1> QED BY <1>2, <1>3

LEMMA EntryTyped ==
  ASSUME NEW c \in Cursor
  PROVE  Entry(c) \in Staged
BY DEF Cursor, Entry, Staged

\* On the correct path a cursor passes records and the starts of their blocks.
LEMMA AdvanceCorrect ==
  ASSUME NEW c \in Cursor, NEW n \in Nat, c.off = 0, c.fe = Passed(c.rec)
  PROVE  /\ Advance(c, n).rec = c.rec + n /\ Advance(c, n).off = 0
         /\ Advance(c, n).fe = Passed(c.rec + n)
<1> DEFINE k == Cardinality(NewBlocks(c.rec + 1, c.rec + n))
<1>1. c.rec \in Nat /\ c.fe \in Nat
  BY DEF Cursor
<1>2. Advance(c, n) = [c EXCEPT !.rec = c.rec + n, !.fe = c.fe + k]
  BY DEF Advance
<1>3. Passed(c.rec + n) = c.fe + k
  BY <1>1, PassedAdds
<1> HIDE DEF k
<1> QED BY <1>2, <1>3 DEF Cursor

\* In a shadow it only counts.
LEMMA AdvanceWrong ==
  ASSUME NEW c \in Cursor, NEW n \in Nat, c.off > 0
  PROVE  /\ Advance(c, n).rec = c.rec /\ Advance(c, n).off = c.off + n
         /\ Advance(c, n).fe = c.fe /\ Advance(c, n).sv = c.sv
BY DEF Advance, Cursor

----------------------------------------------------------------------------
(* Gathering.                                                              *)

\* How many records a lane gathers.
Gathered(l) == Min({M - Len(l.stage), Left(l.cur)})
Dry(l)      == Len(l.stage) + Gathered(l) < M
NewlyStaged(l) == [i \in 1..Gathered(l) |-> Entry(Advance(l.cur, i - 1))]

LEMMA LaneFields ==
  ASSUME NEW l \in Lane
  PROVE  /\ l.cur \in Cursor /\ l.stage \in Seq(Staged) /\ l.eof \in BOOLEAN
         /\ l.fstate \in {"CORRECT", "SHADOW", "STARVED"}
         /\ l.last_br_fe \in Nat /\ l.branch \in Nat /\ l.hi_resume \in Nat
         /\ l.resolved \in Nat /\ l.n_enter \in Nat /\ l.n_leave \in Nat
         /\ l.n_nobranch \in Nat /\ l.n_resolved \in Nat /\ l.cp_consumed \in Nat
         /\ l.br_consumed \in Position /\ l.last_deliv \in Position
<1> HIDE DEF Cursor, Staged, Position
<1> QED BY DEF Lane

\* A lane that has new records and has moved on is a lane.
LEMMA LaneWith ==
  ASSUME NEW l \in Lane, NEW st \in Seq(Staged), NEW c \in Cursor,
         NEW fs \in {"CORRECT", "SHADOW", "STARVED"}, NEW e \in BOOLEAN,
         NEW n, n = [l EXCEPT !.stage = st, !.cur = c, !.fstate = fs, !.eof = e]
  PROVE  n \in Lane
<1> USE DEF Lane
<1> HIDE DEF Cursor, Staged, Position
<1>1. /\ l.last_br_fe \in Nat /\ l.branch \in Nat /\ l.hi_resume \in Nat
      /\ l.resolved \in Nat /\ l.n_enter \in Nat /\ l.n_leave \in Nat
      /\ l.n_nobranch \in Nat /\ l.n_resolved \in Nat /\ l.cp_consumed \in Nat
      /\ l.wp_consumed \in Nat /\ l.br_consumed \in Position /\ l.last_deliv \in Position
  OBVIOUS
<1>2. n = [cur |-> c, stage |-> st, eof |-> e, fstate |-> fs,
           last_br_fe |-> l.last_br_fe, branch |-> l.branch, hi_resume |-> l.hi_resume,
           resolved |-> l.resolved, n_enter |-> l.n_enter, n_leave |-> l.n_leave,
           n_nobranch |-> l.n_nobranch, n_resolved |-> l.n_resolved,
           cp_consumed |-> l.cp_consumed, wp_consumed |-> l.wp_consumed,
           br_consumed |-> l.br_consumed, last_deliv |-> l.last_deliv]
  OBVIOUS
<1> QED BY <1>1, <1>2

LEMMA GatherFields ==
  ASSUME NEW l \in Lane, Gathered(l) \in Nat
  PROVE  /\ Gather(l) \in Lane
         /\ Gather(l).stage = l.stage \o NewlyStaged(l)
         /\ Gather(l).cur = Advance(l.cur, Gathered(l))
         /\ Gather(l).fstate = IF Dry(l) /\ l.fstate = "SHADOW" THEN "STARVED" ELSE l.fstate
         /\ Gather(l).eof <=> l.eof \/ (Dry(l) /\ l.fstate = "CORRECT")
         /\ Books(Gather(l)) = Books(l) /\ Gather(l).cp_consumed = l.cp_consumed
<1>1. /\ l.cur \in Cursor /\ l.stage \in Seq(Staged) /\ l.eof \in BOOLEAN
      /\ l.fstate \in {"CORRECT", "SHADOW", "STARVED"}
  BY LaneFields
<1> DEFINE st == l.stage \o NewlyStaged(l)
           c  == Advance(l.cur, Gathered(l))
           fs == IF Dry(l) /\ l.fstate = "SHADOW" THEN "STARVED" ELSE l.fstate
           e  == l.eof \/ (Dry(l) /\ l.fstate = "CORRECT")
<1>2. c \in Cursor /\ fs \in {"CORRECT", "SHADOW", "STARVED"} /\ e \in BOOLEAN
  BY <1>1, AdvanceTyped
<1>3. st \in Seq(Staged)
  <2>1. \A i \in 1..Gathered(l) : NewlyStaged(l)[i] \in Staged
    <3> TAKE i \in 1..Gathered(l)
    <3>1. i - 1 \in Nat
      OBVIOUS
    <3> QED BY <1>1, <3>1, AdvanceTyped, EntryTyped DEF NewlyStaged
  <2>2. NewlyStaged(l) \in Seq(Staged)
    BY <2>1, IsASeq DEF NewlyStaged
  <2> QED BY <1>1, <2>2, ConcatProperties
<1>4. Gather(l) = [l EXCEPT !.stage = st, !.cur = c, !.fstate = fs, !.eof = e]
  <2> HIDE DEF Cursor, Staged, Position, Advance, Entry, Left
  <2> QED BY DEF Gather, Stocked, Gathered, Dry, NewlyStaged, Lane
<1> HIDE DEF st, c, fs, e, Cursor, Staged, Position
<1>5. Gather(l) \in Lane
  BY <1>2, <1>3, <1>4, LaneWith
<1>6. /\ Gather(l).stage = st /\ Gather(l).cur = c
      /\ Gather(l).fstate = fs /\ Gather(l).eof = e
      /\ Gather(l).cp_consumed = l.cp_consumed
  BY <1>4 DEF Lane
<1>7. Books(Gather(l)) = Books(l)
  BY <1>4 DEF Lane, Books
<1> QED BY <1>5, <1>6, <1>7 DEF st, c, fs, e
\* There are so many records, all of them, or as many as there is room for.
LEMMA GatheredIs ==
  ASSUME NEW l \in Lane, Len(l.stage) <= M, Left(l.cur) \in Nat
  PROVE  /\ Gathered(l) \in Nat /\ Gathered(l) <= Left(l.cur)
         /\ Len(l.stage) + Gathered(l) <= M
         /\ Dry(l) => Gathered(l) = Left(l.cur)
<1>1. PICK s \in Nat, k \in Nat, m \in Nat : s = Len(l.stage) /\ k = Left(l.cur) /\ m = M
  BY LaneFields, LenProperties, RefillAssumption
<1>2. Gathered(l) = IF m - s <= k THEN m - s ELSE k
  BY <1>1, MinTwo DEF Gathered
<1>3. s <= m
  BY <1>1
<1> QED BY <1>1, <1>2, <1>3 DEF Dry

LEMMA LaneLeft ==
  ASSUME trace \in Traces, NEW l \in Lane, NEW b \in Nat,
         BranchKept(l), OnCorrect(l, b) \/ InShadow(l, b)
  PROVE  /\ l.cur.off = 0 \/ l.cur.off > 0
         /\ Left(l.cur) \in Nat
         /\ l.fstate = "CORRECT" => OnCorrect(l, b) /\ Left(l.cur) = n_records - l.cur.rec + 1
         /\ l.fstate # "CORRECT" =>
              InShadow(l, b) /\ Left(l.cur) = Len(Shadow(l.branch)) - l.cur.off + 1
<1>1. l.cur.rec \in Nat /\ l.cur.off \in Nat /\ n_records \in Nat
  BY LaneFields, ProgramTyped DEF Cursor
<1>2. CASE OnCorrect(l, b)
  BY <1>1, <1>2 DEF OnCorrect, InShadow, Left
<1>3. CASE InShadow(l, b)
  <2>1. l.branch \in 1..n_records
    BY <1>3 DEF InShadow, BranchKept
  <2>2. Len(Shadow(l.branch)) \in Nat
    BY <2>1, ProgramTyped, LenProperties
  <2> QED BY <1>1, <1>3, <2>1, <2>2 DEF OnCorrect, InShadow, Left
<1> QED BY <1>2, <1>3

\* What is newly staged, at place i behind what is there.
LEMMA StageGrows ==
  ASSUME NEW l \in Lane, Gathered(l) \in Nat, NEW s \in Nat, s = Len(l.stage),
         NEW n \in Nat, n = Gathered(l)
  PROVE  /\ Len(Gather(l).stage) = s + n
         /\ \A i \in 1..s : Gather(l).stage[i] = l.stage[i]
         /\ \A i \in 1..n : Gather(l).stage[s + i] = Entry(Advance(l.cur, i - 1))
<1>1. l.stage \in Seq(Staged) /\ l.cur \in Cursor
  BY LaneFields
<1>2. NewlyStaged(l) \in Seq(Staged) /\ Len(NewlyStaged(l)) = n
  <2>1. \A i \in 1..n : NewlyStaged(l)[i] \in Staged
    <3> TAKE i \in 1..n
    <3>1. i - 1 \in Nat
      OBVIOUS
    <3> QED BY <1>1, <3>1, AdvanceTyped, EntryTyped DEF NewlyStaged
  <2>2. NewlyStaged(l) \in Seq(Staged)
    BY <2>1, IsASeq DEF NewlyStaged
  <2>3. DOMAIN NewlyStaged(l) = 1..n
    BY DEF NewlyStaged
  <2>4. Len(NewlyStaged(l)) = n
    BY <2>2, <2>3, LenProperties
  <2> QED BY <2>2, <2>4
<1>3. Gather(l).stage = l.stage \o NewlyStaged(l)
  BY GatherFields
<1>4. n = Len(NewlyStaged(l))
  BY <1>2
<1>5. /\ Len(l.stage \o NewlyStaged(l)) = s + n
      /\ \A i \in 1..s : (l.stage \o NewlyStaged(l))[i] = l.stage[i]
      /\ \A i \in 1..n : (l.stage \o NewlyStaged(l))[s + i] = NewlyStaged(l)[i]
  <2>1. PICK u \in Seq(Staged), v \in Seq(Staged) : u = l.stage /\ v = NewlyStaged(l)
    BY <1>1, <1>2
  <2>2. s = Len(u) /\ n = Len(v)
    BY <1>4, <2>1
  <2>3. /\ Len(u \o v) = s + n
        /\ \A i \in 1..s : (u \o v)[i] = u[i]
        /\ \A i \in 1..n : (u \o v)[s + i] = v[i]
    BY <2>2, Joined
  <2> QED BY <2>1, <2>3
<1>6. \A i \in 1..n : NewlyStaged(l)[i] = Entry(Advance(l.cur, i - 1))
  BY DEF NewlyStaged
<1> QED BY <1>3, <1>5, <1>6

LEMMA GatherOnCorrect ==
  ASSUME trace \in Traces, NEW l \in Lane, NEW b \in Nat,
         LaneInv(l, b), l.fstate = "CORRECT"
  PROVE  /\ LaneInv(Gather(l), b) /\ Gather(l).fstate = "CORRECT"
         /\ ResumeOf(l) <= ResumeOf(Gather(l))
         /\ ResumeOf(l) = b + Len(l.stage) + 1
<1> DEFINE g == Gather(l)
<1>1. OnCorrect(l, b) /\ Left(l.cur) \in Nat /\ Left(l.cur) = n_records - l.cur.rec + 1
  BY LaneLeft DEF LaneInv
<1>2. PICK s \in Nat, n \in Nat, N \in Nat : s = Len(l.stage) /\ n = Gathered(l) /\ N = n_records
  BY <1>1, GatheredIs, LaneFields, LenProperties, ProgramTyped DEF LaneInv
<1>3. /\ n <= Left(l.cur) /\ s + n <= M /\ (Dry(l) => n = Left(l.cur))
  BY <1>1, <1>2, GatheredIs DEF LaneInv
<1>4. /\ g \in Lane /\ g.cur = Advance(l.cur, n) /\ g.fstate = "CORRECT"
      /\ g.eof <=> l.eof \/ Dry(l)
      /\ Books(g) = Books(l) /\ g.cp_consumed = l.cp_consumed
  BY <1>2, GatherFields
<1>5. /\ Len(g.stage) = s + n
      /\ \A i \in 1..s : g.stage[i] = l.stage[i]
      /\ \A i \in 1..n : g.stage[s + i] = Entry(Advance(l.cur, i - 1))
  BY <1>2, StageGrows
<1>6. /\ l.cur \in Cursor /\ l.cur.off = 0 /\ l.cur.rec \in Nat /\ l.cur.rec = b + s + 1
      /\ l.cur.rec <= N + 1 /\ l.cur.fe = Passed(l.cur.rec)
      /\ l.eof => l.cur.rec = N + 1
  BY <1>1, <1>2, LaneFields DEF OnCorrect, Cursor
<1>7. b + s + n + 1 <= N + 1 /\ (Dry(l) => b + s + n + 1 = N + 1)
  <2>1. PICK k \in Int : k = Left(l.cur)
    BY <1>1
  <2>2. k = N - (b + s + 1) + 1 /\ n <= k /\ (Dry(l) => n = k)
    BY <1>1, <1>2, <1>3, <1>6, <2>1
  <2> QED BY <2>2
<1>8. /\ g.cur.off = 0 /\ g.cur.rec = b + s + n + 1 /\ g.cur.fe = Passed(g.cur.rec)
  <2>1. l.cur.rec + n = b + s + n + 1
    BY <1>6
  <2> QED BY <1>4, <1>6, <2>1, AdvanceCorrect
<1>9. ResumeOf(l) = b + s + 1 /\ ResumeOf(g) = b + s + n + 1
  BY <1>6, <1>8 DEF ResumeOf
<1> HIDE DEF g
<1>10. ASSUME NEW i \in 1..n
       PROVE  /\ g.stage[s + i].off = 0 /\ g.stage[s + i].rec = b + s + i
              /\ g.stage[s + i].fe = BlockOf(b + s + i)
              /\ g.stage[s + i].sh <=> Shadow(b + s + i) # <<>>
  <2>1. i - 1 \in Nat /\ b + s + i \in 1..N /\ l.cur.rec + (i - 1) = b + s + i
    BY <1>6, <1>7
  <2> DEFINE c == Advance(l.cur, i - 1)
  <2>2. c.rec = b + s + i /\ c.off = 0 /\ c.fe = Passed(b + s + i)
    BY <1>6, <2>1, AdvanceCorrect
  <2>3. c.fe = BlockOf(b + s + i)
    BY <1>2, <2>1, <2>2, PassedIsBlock
  <2>4. g.stage[s + i] = Entry(c)
    BY <1>5
  <2> HIDE DEF c
  <2>5. /\ g.stage[s + i].off = 0 /\ g.stage[s + i].rec = b + s + i
        /\ g.stage[s + i].fe = BlockOf(b + s + i)
    BY <2>2, <2>3, <2>4 DEF Entry
  <2>6. g.stage[s + i].sh = (Shadow(b + s + i) # <<>>)
    BY <2>2, <2>4 DEF Entry
  <2> QED BY <2>5, <2>6
<1>11. \A i \in 1..s+n : i \in 1..s \/ (i - s \in 1..n /\ i = s + (i - s))
  OBVIOUS
<1>12. StageNumbered(g, b)
  <2> SUFFICES ASSUME NEW i \in 1..s+n PROVE Numbered(g, g.stage[i], b + i)
    BY <1>5 DEF StageNumbered
  <2>1. b + i < b + s + n + 1
    OBVIOUS
  <2>2. CASE i \in 1..s
    <3>1. Numbered(l, l.stage[i], b + i) /\ b + i < b + s + 1
      BY <1>2, <2>2 DEF LaneInv, StageNumbered
    <3> QED BY <1>5, <1>9, <2>1, <2>2, <3>1 DEF Numbered
  <2>3. CASE i - s \in 1..n
    <3>1. PICK j \in 1..n : i = s + j
      BY <2>3
    <3>2. b + i = b + s + j
      BY <3>1
    <3> QED BY <1>9, <1>10, <2>1, <3>1, <3>2 DEF Numbered
  <2> QED BY <1>11, <2>2, <2>3
<1>13. \A i \in 1..s+n : g.stage[i].sh <=> Shadow(g.stage[i].rec) # <<>>
  <2> TAKE i \in 1..s+n
  <2>1. CASE i \in 1..s
    BY <1>1, <1>2, <1>5, <2>1 DEF OnCorrect
  <2>2. CASE i - s \in 1..n
    <3>1. PICK j \in 1..n : i = s + j
      BY <2>2
    <3> QED BY <1>10, <3>1
  <2> QED BY <1>11, <2>1, <2>2
<1>14. BranchKept(g) /\ g.branch <= b /\ g.resolved = g.last_br_fe /\ g.n_enter = g.n_leave
  BY <1>1, <1>4 DEF LaneInv, BranchKept, OnCorrect, Books
<1>15. Consumed(g, b)
  <2>1. b < b + s + 1 /\ b < b + s + n + 1
    OBVIOUS
  <2> QED BY <1>4, <1>9, <2>1 DEF LaneInv, Consumed
<1>16. OnCorrect(g, b)
  <2>1. b + Len(g.stage) + 1 = b + s + n + 1
    BY <1>5
  <2>2. g.eof => g.cur.rec = n_records + 1
    <3>1. CASE Dry(l)
      BY <1>2, <1>7, <1>8, <3>1
    <3>2. CASE l.eof
      BY <1>2, <1>6, <1>7, <1>8, <3>2
    <3> QED BY <1>4, <3>1, <3>2
  <2>3. g.cur.rec <= n_records + 1
    BY <1>2, <1>7, <1>8
  <2>4. \A i \in 1..Len(g.stage) : g.stage[i].sh <=> Shadow(g.stage[i].rec) # <<>>
    BY <1>5, <1>13
  <2> QED BY <1>4, <1>8, <1>14, <2>1, <2>2, <2>3, <2>4 DEF OnCorrect
<1>17. LaneInv(g, b)
  BY <1>3, <1>4, <1>5, <1>12, <1>14, <1>15, <1>16 DEF LaneInv
<1>18. b + s + 1 <= b + s + n + 1
  OBVIOUS
<1> QED BY <1>2, <1>4, <1>9, <1>17, <1>18 DEF g
LEMMA GatherInShadow ==
  ASSUME trace \in Traces, NEW l \in Lane, NEW b \in Nat,
         LaneInv(l, b), l.fstate # "CORRECT"
  PROVE  /\ LaneInv(Gather(l), b) /\ Gather(l).fstate # "CORRECT"
         /\ ResumeOf(Gather(l)) = ResumeOf(l)
         /\ ResumeOf(l) = l.branch + 1 /\ Gather(l).branch = l.branch
<1> DEFINE g == Gather(l)
<1>1. /\ InShadow(l, b) /\ Left(l.cur) \in Nat
      /\ Left(l.cur) = Len(Shadow(l.branch)) - l.cur.off + 1
  BY LaneLeft DEF LaneInv
<1>2. l.branch \in 1..n_records /\ l.branch \in Nat
  BY <1>1, LaneFields DEF LaneInv, BranchKept, InShadow
<1>3. PICK s \in Nat, n \in Nat, h \in Nat, r \in Nat :
        s = Len(l.stage) /\ n = Gathered(l) /\ h = Len(Shadow(l.branch)) /\ r = l.branch
  BY <1>1, <1>2, GatheredIs, LaneFields, LenProperties, ProgramTyped DEF LaneInv
<1>4. /\ n <= Left(l.cur) /\ s + n <= M
  BY <1>1, <1>3, GatheredIs DEF LaneInv
<1>5. /\ g \in Lane /\ g.cur = Advance(l.cur, n) /\ g.fstate # "CORRECT"
      /\ Books(g) = Books(l) /\ g.cp_consumed = l.cp_consumed
  BY <1>3, GatherFields
<1>6. /\ Len(g.stage) = s + n
      /\ \A i \in 1..s : g.stage[i] = l.stage[i]
      /\ \A i \in 1..n : g.stage[s + i] = Entry(Advance(l.cur, i - 1))
  BY <1>3, StageGrows
<1>7. PICK o \in Nat : o = l.cur.off
  BY LaneFields DEF Cursor
<1>8. /\ l.cur \in Cursor /\ l.cur.rec = r /\ o > 0 /\ o + r = b + s + 1 /\ o + n <= h + 1
      /\ l.cur.sv.rec = r + 1 /\ l.cur.sv.fe = Passed(r + 1)
  <2>1. o + n <= h + 1
    <3>1. PICK k \in Int : k = Left(l.cur)
      BY <1>1
    <3>2. k = h - o + 1 /\ n <= k
      BY <1>1, <1>3, <1>4, <1>7, <3>1
    <3> QED BY <3>2
  <2> QED BY <1>1, <1>3, <1>7, <2>1, LaneFields DEF InShadow
<1>9. /\ g.cur.off = o + n /\ g.cur.rec = r /\ g.cur.sv = l.cur.sv
  <2>1. l.cur \in Cursor /\ l.cur.off > 0
    BY <1>7, <1>8
  <2>2. /\ Advance(l.cur, n).rec = l.cur.rec /\ Advance(l.cur, n).off = l.cur.off + n
        /\ Advance(l.cur, n).sv = l.cur.sv
    BY <2>1, AdvanceWrong
  <2> QED BY <1>5, <1>7, <1>8, <2>2
<1>10. ResumeOf(l) = r + 1 /\ ResumeOf(g) = r + 1
  BY <1>7, <1>8, <1>9 DEF ResumeOf
<1>11. /\ g.branch = r /\ l.branch = r /\ g.n_enter = l.n_enter /\ g.n_leave = l.n_leave
       /\ g.last_br_fe = l.last_br_fe /\ g.hi_resume = l.hi_resume
  BY <1>3, <1>5 DEF Books
<1> HIDE DEF g
<1>12. ASSUME NEW i \in 1..n
       PROVE  g.stage[s + i].off = b + s + i - (r + 1) + 1 /\ g.stage[s + i].rec = r
  <2>1. i - 1 \in Nat /\ o + (i - 1) = b + s + i - (r + 1) + 1
    BY <1>8
  <2> DEFINE c == Advance(l.cur, i - 1)
  <2>2. c.rec = r /\ c.off = o + (i - 1)
    BY <1>7, <1>8, <2>1, AdvanceWrong
  <2>3. g.stage[s + i] = Entry(c)
    BY <1>6
  <2> HIDE DEF c
  <2> QED BY <2>1, <2>2, <2>3 DEF Entry
<1>13. \A i \in 1..s+n : i \in 1..s \/ (i - s \in 1..n /\ i = s + (i - s))
  OBVIOUS
<1>14. StageNumbered(g, b)
  <2> SUFFICES ASSUME NEW i \in 1..s+n PROVE Numbered(g, g.stage[i], b + i)
    BY <1>6 DEF StageNumbered
  <2>1. CASE i \in 1..s
    <3>1. Numbered(l, l.stage[i], b + i)
      BY <1>3, <2>1 DEF LaneInv, StageNumbered
    <3> QED BY <1>6, <1>10, <1>11, <2>1, <3>1 DEF Numbered
  <2>2. CASE i - s \in 1..n
    <3>1. PICK j \in 1..n : i = s + j
      BY <2>2
    <3>2. b + i = b + s + j /\ ~(b + s + j < r + 1)
      BY <1>8, <3>1
    <3> QED BY <1>10, <1>11, <1>12, <3>1, <3>2 DEF Numbered
  <2> QED BY <1>13, <2>1, <2>2
<1>15. BranchKept(g)
  BY <1>11 DEF LaneInv, BranchKept
<1>16. Consumed(g, b)
  BY <1>5, <1>10 DEF LaneInv, Consumed
<1>17. InShadow(g, b)
  <2>0. o + n + r = b + (s + n) + 1 /\ o + n > 0
    BY <1>8
  <2>1. o + n + r = b + Len(g.stage) + 1 /\ o + n > 0
    BY <1>6, <2>0
  <2>2. l.n_enter = l.n_leave + 1 /\ l.branch # 0
    BY <1>1 DEF InShadow
  <2> QED BY <1>3, <1>5, <1>8, <1>9, <1>11, <2>1, <2>2 DEF InShadow
<1>18. LaneInv(g, b)
  BY <1>4, <1>5, <1>6, <1>14, <1>15, <1>16, <1>17 DEF LaneInv
<1> QED BY <1>5, <1>10, <1>11, <1>18 DEF g

\* What is true of a number stays true when the resume point moves on.
KeepsNumbers(l, g, b) ==
  /\ \A e : \A k \in 1..b : Numbered(l, e, k) => Numbered(g, e, k)
  /\ Begins(l, b + 1) => Begins(g, b + 1)
  /\ g.fstate = "CORRECT" <=> l.fstate = "CORRECT"
  /\ ResumeOf(l) <= ResumeOf(g)

LEMMA ResumeType ==
  ASSUME NEW l \in Lane
  PROVE  ResumeOf(l) \in Nat
BY LaneFields DEF ResumeOf, Cursor, Position

\* Gathering keeps a lane's invariant, its books and the numbers.
LEMMA GatherKeeps ==
  ASSUME trace \in Traces, NEW l \in Lane, NEW b \in Nat, LaneInv(l, b)
  PROVE  /\ LaneInv(Gather(l), b) /\ Books(Gather(l)) = Books(l)
         /\ KeepsNumbers(l, Gather(l), b)
         /\ Len(l.stage) <= Len(Gather(l).stage)
         /\ \A i \in 1..Len(l.stage) : Gather(l).stage[i] = l.stage[i]
         /\ l.cur.off > 0 => ResumeOf(Gather(l)) = ResumeOf(l)
<1> DEFINE g == Gather(l)
<1>1. Left(l.cur) \in Nat /\ Gathered(l) \in Nat
  BY LaneLeft, GatheredIs DEF LaneInv
<1>2. PICK s \in Nat, n \in Nat : s = Len(l.stage) /\ n = Gathered(l)
  BY <1>1, LaneFields, LenProperties
<1>3. Books(g) = Books(l) /\ g.branch = l.branch
  BY <1>1, GatherFields DEF Books
<1>4. Len(g.stage) = s + n /\ \A i \in 1..s : g.stage[i] = l.stage[i]
  BY <1>2, StageGrows
<1>5. s <= s + n
  OBVIOUS
<1>6. PICK R \in Nat, Q \in Nat : R = ResumeOf(l) /\ Q = ResumeOf(g)
  BY <1>1, GatherFields, ResumeType
<1>7. LaneInv(g, b) /\ KeepsNumbers(l, g, b) /\ (l.cur.off > 0 => Q = R)
  <2>1. CASE l.fstate = "CORRECT"
    <3>1. LaneInv(g, b) /\ g.fstate = "CORRECT" /\ R <= Q /\ R = b + s + 1
      BY <1>2, <1>6, <2>1, GatherOnCorrect
    <3> HIDE DEF g
    <3>2. \A k \in 1..b : k < R /\ k < Q
      BY <3>1
    <3>3. \A e : \A k \in 1..b : Numbered(l, e, k) => Numbered(g, e, k)
      BY <1>6, <3>2 DEF Numbered
    <3>4. Begins(l, b + 1) => Begins(g, b + 1)
      BY <2>1, <3>1 DEF Begins
    <3>5. l.cur.off = 0
      BY <2>1, LaneLeft DEF LaneInv, OnCorrect
    <3> QED BY <1>6, <2>1, <3>1, <3>3, <3>4, <3>5 DEF KeepsNumbers
  <2>2. CASE l.fstate # "CORRECT"
    <3>1. LaneInv(g, b) /\ g.fstate # "CORRECT" /\ ResumeOf(g) = ResumeOf(l)
      BY <2>2, GatherInShadow
    <3> HIDE DEF g
    <3>2. \A e : \A k \in 1..b : Numbered(l, e, k) => Numbered(g, e, k)
      BY <1>3, <3>1 DEF Numbered
    <3>3. Begins(l, b + 1) => Begins(g, b + 1)
      BY <1>3, <2>2, <3>1 DEF Begins
    <3> QED BY <1>6, <2>2, <3>1, <3>2, <3>3 DEF KeepsNumbers
  <2> QED BY <2>1, <2>2
<1> QED BY <1>2, <1>3, <1>4, <1>5, <1>6, <1>7 DEF g
----------------------------------------------------------------------------
(* Taking.                                                                 *)

CorrectIn(l, n) == {i \in 1..n : ~OnWrongPath(l.stage[i])}
BranchesIn(l, n) == {i \in CorrectIn(l, n) : l.stage[i].sh}

\* The position of the last of some staged records.
LEMMA LastPosIs ==
  ASSUME NEW s \in Seq(Staged), NEW S \in SUBSET (1..Len(s))
  PROVE  /\ LastPos(s, S) \in Position
         /\ \A m \in S : (\A i \in S : i <= m) => LastPos(s, S) = Pos(s[m])
<1>1. PICK a \in Nat : a = Len(s) /\ S \in SUBSET (1..a)
  BY LenProperties
<1>2. CASE S = {}
  BY <1>2 DEF LastPos, Nowhere, Position
<1>3. CASE S # {}
  <2>1. S \in SUBSET Int /\ S # {} /\ a \in Int /\ \A x \in S : x <= a
    BY <1>1, <1>3
  <2>2. \E m \in S : \A x \in S : x <= m
    BY <2>1, GreatestInt
  <2>20. PICK m \in S : \A x \in S : x <= m
    BY <2>2
  <2>3. Max(S) = m
    BY <2>1, <2>20, MaxOf
  <2>4. s[m] \in Staged
    BY ElementOfSeq
  <2>5. LastPos(s, S) = Pos(s[m])
    BY <1>3, <2>3 DEF LastPos
  <2>6. Pos(s[m]) \in Position
    BY <2>4 DEF Pos, Position, Staged
  <2>7. ASSUME NEW k \in S, \A i \in S : i <= k
        PROVE  k = m
    <3>1. k \in Int /\ m \in Int /\ k <= m /\ m <= k
      BY <2>1, <2>20, <2>7
    <3> QED BY <3>1
  <2> QED BY <2>5, <2>6, <2>7
<1> QED BY <1>2, <1>3

AsManyAs(take, s) == IF take <= s THEN take ELSE s

LEMMA TakenFields ==
  ASSUME NEW l \in Lane, NEW take \in Nat, NEW s \in Nat, s = Len(l.stage),
         NEW n \in Nat, n = AsManyAs(take, s)
  PROVE  /\ Taken(l, take) \in Lane
         /\ Taken(l, take).stage = SubSeq(l.stage, n + 1, s)
         /\ Taken(l, take).cur = l.cur /\ Taken(l, take).eof = l.eof
         /\ Taken(l, take).fstate = l.fstate
         /\ Books(Taken(l, take)) = Books(l)
         /\ Taken(l, take).cp_consumed = l.cp_consumed + Cardinality(CorrectIn(l, n))
         /\ Taken(l, take).last_deliv = LastPos(l.stage, CorrectIn(l, n))
         /\ Taken(l, take).br_consumed = LastPos(l.stage, BranchesIn(l, n))
<1>1. /\ l.stage \in Seq(Staged) /\ l.cp_consumed \in Nat /\ l.wp_consumed \in Nat
  BY LaneFields DEF Lane
<1>2. Min({take, Len(l.stage)}) = n
  BY MinTwo DEF AsManyAs
<1>3. n <= s /\ n \in 0..s
  BY DEF AsManyAs
<1>4. CorrectIn(l, n) \in SUBSET (1..n) /\ BranchesIn(l, n) \in SUBSET (1..n)
  BY DEF CorrectIn, BranchesIn
<1>5. CorrectIn(l, n) \in SUBSET (1..Len(l.stage)) /\ BranchesIn(l, n) \in SUBSET (1..Len(l.stage))
  BY <1>3, <1>4
<1> DEFINE k  == Cardinality(CorrectIn(l, n))
           st == SubSeq(l.stage, n + 1, s)
           ld == LastPos(l.stage, CorrectIn(l, n))
           bc == LastPos(l.stage, BranchesIn(l, n))
<1>6. k \in Nat /\ k <= n
  <2>1. IsFiniteSet(1..n) /\ Cardinality(1..n) = n
    BY HowMany
  <2>2. IsFiniteSet(CorrectIn(l, n)) /\ Cardinality(CorrectIn(l, n)) <= Cardinality(1..n)
    BY <1>4, <2>1, FS_Subset
  <2> QED BY <2>1, <2>2, FS_CardinalityType
<1>7. st \in Seq(Staged) /\ ld \in Position /\ bc \in Position
  BY <1>1, <1>3, <1>5, Parted, LastPosIs
<1>8. Taken(l, take) =
        [l EXCEPT !.stage = st, !.cp_consumed = l.cp_consumed + k,
                  !.wp_consumed = l.wp_consumed + n - k, !.last_deliv = ld, !.br_consumed = bc]
  BY <1>2 DEF Taken, CorrectIn, BranchesIn
<1>9. l.cp_consumed + k \in Nat /\ l.wp_consumed + n - k \in Nat
  BY <1>1, <1>6
<1> HIDE DEF k, st, ld, bc, Cursor, Staged, Position
<1>10. Taken(l, take) \in Lane
  <2>1. PICK S \in Seq(Staged), D \in Position, B \in Position :
          S = st /\ D = ld /\ B = bc
    BY <1>7
  <2>2. PICK c \in Nat, w \in Nat : c = l.cp_consumed + k /\ w = l.wp_consumed + n - k
    BY <1>9
  <2>3. [l EXCEPT !.stage = S, !.cp_consumed = c, !.wp_consumed = w,
                  !.last_deliv = D, !.br_consumed = B] \in Lane
    BY DEF Lane
  <2> QED BY <1>8, <2>1, <2>2, <2>3
<1>11. /\ Taken(l, take).stage = st /\ Taken(l, take).cur = l.cur
       /\ Taken(l, take).eof = l.eof /\ Taken(l, take).fstate = l.fstate
       /\ Taken(l, take).cp_consumed = l.cp_consumed + k
       /\ Taken(l, take).last_deliv = ld /\ Taken(l, take).br_consumed = bc
  BY <1>8 DEF Lane
<1>12. Books(Taken(l, take)) = Books(l)
  BY <1>8 DEF Lane, Books
<1> QED BY <1>10, <1>11, <1>12 DEF k, st, ld, bc

\* How many of the first n staged records are of the correct path.
LEMMA CorrectCount ==
  ASSUME NEW l \in Lane, NEW b \in Nat, StageNumbered(l, b),
         NEW n \in Nat, n <= Len(l.stage), NEW R \in Nat, R = ResumeOf(l)
  PROVE  /\ CorrectIn(l, n) = {i \in 1..n : b + i < R}
         /\ b < R => Cardinality(CorrectIn(l, n)) = IF b + n < R THEN n ELSE R - 1 - b
         /\ ~(b < R) => Cardinality(CorrectIn(l, n)) = 0
<1>1. ASSUME NEW i \in 1..n
      PROVE  OnWrongPath(l.stage[i]) <=> ~(b + i < R)
  <2>1. i \in 1..Len(l.stage)
    BY LaneFields, LenProperties
  <2>2. Numbered(l, l.stage[i], b + i)
    BY <2>1 DEF StageNumbered
  <2>3. CASE b + i < R
    <3>1. l.stage[i].off = 0
      BY <2>2, <2>3 DEF Numbered
    <3> QED BY <2>3, <3>1 DEF OnWrongPath
  <2>4. CASE ~(b + i < R)
    <3>1. l.stage[i].off = b + i - R + 1
      BY <2>2, <2>4 DEF Numbered
    <3>2. b + i - R + 1 > 0
      BY <2>4
    <3> QED BY <2>4, <3>1, <3>2 DEF OnWrongPath
  <2> QED BY <2>3, <2>4
<1>2. CorrectIn(l, n) = {i \in 1..n : b + i < R}
  BY <1>1 DEF CorrectIn
<1>3. ASSUME b < R
      PROVE  Cardinality(CorrectIn(l, n)) = IF b + n < R THEN n ELSE R - 1 - b
  <2>1. PICK m \in Nat : m = R - 1 - b
    BY <1>3
  <2>2. CorrectIn(l, n) = {i \in 1..n : i <= m}
    BY <1>2, <2>1
  <2>3. Cardinality(CorrectIn(l, n)) = IF m <= n THEN m ELSE n
    BY <2>2, Prefix
  <2>4. b + n < R <=> n <= m
    BY <2>1
  <2> QED BY <2>1, <2>3, <2>4
<1>4. ASSUME ~(b < R)
      PROVE  Cardinality(CorrectIn(l, n)) = 0
  <2>1. CorrectIn(l, n) = {}
    BY <1>2, <1>4
  <2> QED BY <2>1, FS_EmptySet
<1> QED BY <1>2, <1>3, <1>4

\* What has been taken has been delivered.
LEMMA TakenKeeps ==
  ASSUME trace \in Traces, NEW l \in Lane, NEW b \in Nat, LaneInv(l, b),
         NEW take \in Nat, NEW s \in Nat, s = Len(l.stage),
         NEW n \in Nat, n = AsManyAs(take, s)
  PROVE  /\ LaneInv(Taken(l, take), b + n) /\ ResumeOf(Taken(l, take)) = ResumeOf(l)
         /\ Len(Taken(l, take).stage) = s - n
         /\ \A i \in 1..s-n : Taken(l, take).stage[i] = l.stage[n + i]
<1> DEFINE t == Taken(l, take)
<1>1. /\ t \in Lane /\ t.stage = SubSeq(l.stage, n + 1, s)
      /\ t.cur = l.cur /\ t.eof = l.eof /\ t.fstate = l.fstate
      /\ Books(t) = Books(l)
      /\ t.cp_consumed = l.cp_consumed + Cardinality(CorrectIn(l, n))
  BY TakenFields
<1> HIDE DEF t
<1>2. n <= s /\ n \in 0..s /\ l.stage \in Seq(Staged)
  BY LaneFields DEF AsManyAs
<1>3. Len(t.stage) = s - n /\ \A i \in 1..s-n : t.stage[i] = l.stage[n + i]
  <2>1. /\ Len(SubSeq(l.stage, n + 1, s)) = s - n
        /\ \A i \in 1..s-n : SubSeq(l.stage, n + 1, s)[i] = l.stage[n + i]
    <3>1. PICK q \in Seq(Staged) : q = l.stage
      BY <1>2
    <3>2. s = Len(q) /\ n \in 0..s
      BY <1>2, <3>1
    <3>3. /\ Len(SubSeq(q, n + 1, s)) = s - n
          /\ \A i \in 1..s-n : SubSeq(q, n + 1, s)[i] = q[n + i]
      BY <3>2, Parted
    <3> QED BY <3>1, <3>3
  <2> QED BY <1>1, <2>1
<1>4. PICK R \in Nat : R = ResumeOf(l)
  BY ResumeType
<1>5. ResumeOf(t) = R
  BY <1>1, <1>4 DEF ResumeOf
<1>6. /\ t.branch = l.branch /\ t.last_br_fe = l.last_br_fe /\ t.hi_resume = l.hi_resume
      /\ t.resolved = l.resolved /\ t.n_enter = l.n_enter /\ t.n_leave = l.n_leave
  BY <1>1 DEF Books
<1>7. StageNumbered(t, b + n)
  <2> SUFFICES ASSUME NEW i \in 1..s-n PROVE Numbered(t, t.stage[i], b + n + i)
    BY <1>3 DEF StageNumbered
  <2>1. n + i \in 1..s /\ b + (n + i) = b + n + i
    BY <1>2
  <2>2. Numbered(l, l.stage[n + i], b + n + i)
    BY <2>1 DEF LaneInv, StageNumbered
  <2> QED BY <1>3, <1>4, <1>5, <1>6, <2>2 DEF Numbered
<1>8. BranchKept(t)
  BY <1>6 DEF LaneInv, BranchKept
<1>9. Consumed(t, b + n)
  <2>1. StageNumbered(l, b) /\ Consumed(l, b)
    BY DEF LaneInv
  <2>2. CASE b < R
    <3>1. Cardinality(CorrectIn(l, n)) = IF b + n < R THEN n ELSE R - 1 - b
      BY <1>2, <1>4, <2>1, <2>2, CorrectCount
    <3>2. l.cp_consumed = b
      BY <1>4, <2>1, <2>2 DEF Consumed
    <3>3. t.cp_consumed = IF b + n < R THEN b + n ELSE R - 1
      BY <1>1, <3>1, <3>2
    <3> QED BY <1>5, <3>3 DEF Consumed
  <2>3. CASE ~(b < R)
    <3>1. Cardinality(CorrectIn(l, n)) = 0
      BY <1>2, <1>4, <2>1, <2>3, CorrectCount
    <3>2. l.cp_consumed = R - 1 /\ ~(b + n < R)
      BY <1>4, <2>1, <2>3 DEF Consumed
    <3>3. t.cp_consumed = R - 1
      BY <1>1, <3>1, <3>2
    <3> QED BY <1>5, <3>2, <3>3 DEF Consumed
  <2> QED BY <2>2, <2>3
<1>10. PICK x \in Nat : x = Len(t.stage) /\ x = s - n
  BY <1>2, <1>3
<1>100. b + n + x + 1 = b + s + 1
  <2>1. n + x = s
    BY <1>10
  <2>2. b + n + x = b + (n + x)
    OBVIOUS
  <2> QED BY <2>1, <2>2
<1>11. ASSUME OnCorrect(l, b)
       PROVE  OnCorrect(t, b + n)
  <2>1. \A i \in 1..s : l.stage[i].sh <=> Shadow(l.stage[i].rec) # <<>>
    BY <1>11 DEF OnCorrect
  <2>2. \A i \in 1..Len(t.stage) : t.stage[i].sh <=> Shadow(t.stage[i].rec) # <<>>
    <3> TAKE i \in 1..Len(t.stage)
    <3>1. i \in 1..s-n /\ n + i \in 1..s
      BY <1>2, <1>3
    <3> QED BY <1>3, <2>1, <3>1
  <2>3. t.branch <= b + n
    <3>1. l.branch \in Nat /\ l.branch <= b
      BY <1>11, LaneFields DEF OnCorrect
    <3> QED BY <1>6, <3>1
  <2>4. b + n + x + 1 = b + s + 1
    BY <1>100
  <2>5. b + n + Len(t.stage) + 1 = b + Len(l.stage) + 1
    BY <1>10, <2>4
  <2> QED BY <1>1, <1>6, <1>11, <2>2, <2>3, <2>5 DEF OnCorrect
<1>12. ASSUME InShadow(l, b)
       PROVE  InShadow(t, b + n)
  <2>1. PICK o \in Nat, r \in Nat : o = l.cur.off /\ r = l.branch
    BY LaneFields DEF Cursor
  <2>2. o + r = b + s + 1
    BY <1>12, <2>1 DEF InShadow
  <2>3. b + n + x + 1 = b + s + 1
    BY <1>100
  <2>4. t.cur.off + t.branch = b + n + Len(t.stage) + 1
    BY <1>1, <1>6, <1>10, <2>1, <2>2, <2>3
  <2> QED BY <1>1, <1>6, <1>12, <2>4 DEF InShadow
<1>13. Len(t.stage) <= M
  <2>1. PICK m \in Nat : m = M
    BY RefillAssumption
  <2>2. s <= m
    BY <2>1 DEF LaneInv
  <2> QED BY <1>10, <2>1, <2>2
<1>14. LaneInv(t, b + n)
  BY <1>1, <1>7, <1>8, <1>9, <1>11, <1>12, <1>13 DEF LaneInv
<1> QED BY <1>3, <1>4, <1>5, <1>14 DEF t
----------------------------------------------------------------------------
(* Entering a shadow.                                                      *)

\* What do_enter makes of lane l at the branch r.
Entered(l, e, r) ==
  /\ e \in Lane /\ e.fstate = "SHADOW"
  /\ e.branch = r /\ e.last_br_fe = BlockOf(r) /\ e.hi_resume = r + 1
  /\ e.cur.rec = r /\ e.cur.off = 1
  /\ e.cur.sv.rec = r + 1 /\ e.cur.sv.fe = Passed(r + 1)
  /\ e.n_enter = l.n_enter + 1 /\ e.n_leave = l.n_leave
  /\ e.n_nobranch = l.n_nobranch /\ e.n_resolved = l.n_resolved
  /\ e.cp_consumed = l.cp_consumed

LEMMA DoEnterIs ==
  ASSUME trace \in Traces, NEW l \in Lane, NEW r \in 1..n_records, NEW br, NEW after,
         br = [rec |-> r, fe |-> BlockOf(r)], after \in {Nowhere, br}
  PROVE  Entered(l, DoEnter(l, br, after), r) /\ DoEnter(l, br, after).stage = l.stage
<1> DEFINE c0 == [rec |-> br.rec, fe |-> br.fe, off |-> 0, sv |-> Nowhere]
           c  == EnterShadow(c0)
           d  == DoEnter(l, br, after)
<1>1. r \in Nat /\ r > 0 /\ BlockOf(r) \in Nat /\ Passed(r) = BlockOf(r) /\ 1 \in Nat
  BY ProgramTyped, PassedIsBlock
<1>2. c0 \in Cursor /\ c0.rec = r /\ c0.fe = Passed(c0.rec) /\ c0.off = 0
  BY <1>1 DEF Cursor, Nowhere, Position
<1>3. Advance(c0, 1).rec = r + 1 /\ Advance(c0, 1).fe = Passed(r + 1)
  <2> HIDE DEF c0
  <2> QED BY <1>1, <1>2, AdvanceCorrect
<1>4. c = [c0 EXCEPT !.off = 1, !.sv = [rec |-> r + 1, fe |-> Passed(r + 1)]]
  BY <1>3 DEF EnterShadow
<1>5. Passed(r + 1) \in Nat
  BY <1>1, PassedType
<1>6. [rec |-> r + 1, fe |-> Passed(r + 1)] \in Position
  BY <1>1, <1>5 DEF Position
<1>7. /\ c \in Cursor /\ c.rec = r /\ c.off = 1
      /\ c.sv.rec = r + 1 /\ c.sv.fe = Passed(r + 1)
  <2>1. PICK p \in Position : p = [rec |-> r + 1, fe |-> Passed(r + 1)]
                              /\ p.rec = r + 1 /\ p.fe = Passed(r + 1)
    BY <1>6
  <2> HIDE DEF c0, c, Position
  <2>2. c = [c0 EXCEPT !.off = 1, !.sv = p]
    BY <1>4, <2>1
  <2>3. c \in Cursor /\ c.rec = c0.rec /\ c.off = 1 /\ c.sv = p
    BY <1>2, <2>2 DEF Cursor
  <2> QED BY <1>2, <2>1, <2>3
<1> HIDE DEF c
<1>8. ~(after # Nowhere /\ after.rec + 1 > c.sv.rec)
  BY <1>1, <1>7
<1>9. d = [l EXCEPT !.cur = c, !.last_br_fe = br.fe, !.branch = br.rec,
                    !.hi_resume = c.sv.rec, !.fstate = "SHADOW", !.n_enter = @ + 1]
  BY <1>8 DEF DoEnter, c
<1>10. l.n_enter \in Nat
  BY LaneFields
<1>11. PICK k \in Nat : k = l.n_enter + 1
  BY <1>10
<1>12. d = [l EXCEPT !.cur = c, !.last_br_fe = BlockOf(r), !.branch = r,
                     !.hi_resume = r + 1, !.fstate = "SHADOW", !.n_enter = k]
  BY <1>7, <1>9, <1>11
<1>13. r + 1 \in Nat
  BY <1>1
<1> HIDE DEF d, Cursor, Staged, Position
<1>14. d \in Lane
  BY <1>1, <1>7, <1>12, <1>13 DEF Lane
<1>15. /\ d.fstate = "SHADOW" /\ d.branch = r /\ d.last_br_fe = BlockOf(r)
       /\ d.hi_resume = r + 1 /\ d.cur = c /\ d.n_enter = k /\ d.n_leave = l.n_leave
       /\ d.n_nobranch = l.n_nobranch /\ d.n_resolved = l.n_resolved
       /\ d.cp_consumed = l.cp_consumed /\ d.stage = l.stage
  BY <1>12 DEF Lane
<1> QED BY <1>7, <1>11, <1>14, <1>15 DEF Entered, d

LEMMA EnteredStage ==
  ASSUME NEW l \in Lane, NEW d, NEW r, Entered(l, d, r), NEW u \in Seq(Staged)
  PROVE  Entered(l, [d EXCEPT !.stage = u], r) /\ [d EXCEPT !.stage = u].stage = u
<1> DEFINE e == [d EXCEPT !.stage = u]
<1>1. d \in Lane
  BY DEF Entered
<1> HIDE DEF Cursor, Staged, Position
<1>2. e \in Lane
  BY <1>1 DEF Lane
<1>3. /\ e.fstate = d.fstate /\ e.branch = d.branch /\ e.last_br_fe = d.last_br_fe
      /\ e.hi_resume = d.hi_resume /\ e.cur = d.cur /\ e.n_enter = d.n_enter
      /\ e.n_leave = d.n_leave /\ e.n_nobranch = d.n_nobranch
      /\ e.n_resolved = d.n_resolved /\ e.cp_consumed = d.cp_consumed /\ e.stage = u
  BY <1>1 DEF Lane
<1> HIDE DEF e
<1> QED BY <1>2, <1>3 DEF Entered, e

\* The staged records after that are those up to the branch.
LEMMA EnteredKeeps ==
  ASSUME trace \in Traces, NEW l \in Lane, NEW b \in Nat,
         LaneInv(l, b), l.fstate = "CORRECT",
         NEW r \in 1..n_records, Shadow(r) # <<>>, l.branch < r,
         NEW e, Entered(l, e, r), NEW i \in Nat, b + i = r, i <= Len(l.stage),
         Len(e.stage) = i,
         \A j \in 1..i : /\ e.stage[j].off = 0 /\ e.stage[j].rec = b + j
                         /\ e.stage[j].fe = BlockOf(b + j)
  PROVE  /\ LaneInv(e, b) /\ b < ResumeOf(e)
         /\ \A x : \A k \in 1..b : Numbered(l, x, k) => Numbered(e, x, k)
         /\ Begins(l, b + 1) => Begins(e, b + 1)
<1>1. OnCorrect(l, b)
  BY LaneLeft DEF LaneInv
<1>2. r \in Nat /\ Len(Shadow(r)) \in Nat
  BY ProgramTyped, LenProperties
<1>3. ResumeOf(e) = r + 1
  BY DEF ResumeOf, Entered
<1>4. PICK s \in Nat : s = Len(l.stage)
  BY LaneFields, LenProperties
<1>5. ResumeOf(l) = b + s + 1
  BY <1>1, <1>4 DEF OnCorrect, ResumeOf
<1>6. b < r + 1 /\ b < b + s + 1
  BY <1>2
<1>7. e \in Lane /\ e.branch = r /\ e.fstate # "CORRECT"
  BY DEF Entered
<1>8. Len(e.stage) <= M
  <2>1. PICK m \in Nat : m = M
    BY RefillAssumption
  <2>2. s <= m
    BY <1>4, <2>1 DEF LaneInv
  <2>3. i <= s
    BY <1>4
  <2> QED BY <2>1, <2>2, <2>3
<1>9. StageNumbered(e, b)
  <2> SUFFICES ASSUME NEW j \in 1..i PROVE Numbered(e, e.stage[j], b + j)
    BY DEF StageNumbered
  <2>1. b + j < r + 1
    OBVIOUS
  <2> QED BY <1>3, <2>1 DEF Numbered
<1>10. BranchKept(e)
  BY DEF BranchKept, Entered
<1>11. Consumed(e, b)
  <2>1. l.cp_consumed = b
    BY <1>5, <1>6 DEF LaneInv, Consumed
  <2>2. e.cp_consumed = b
    BY <2>1 DEF Entered
  <2> QED BY <1>3, <1>6, <2>2 DEF Consumed
<1>12. InShadow(e, b)
  <2>1. 1 + r = b + Len(e.stage) + 1 /\ 1 > 0 /\ 1 <= Len(Shadow(r)) + 1 /\ r # 0
    BY <1>2
  <2>2. e.n_enter = e.n_leave + 1
    BY <1>1 DEF Entered, OnCorrect
  <2> QED BY <1>7, <2>1, <2>2 DEF InShadow, Entered
<1>13. LaneInv(e, b)
  BY <1>7, <1>8, <1>9, <1>10, <1>11, <1>12 DEF LaneInv
<1>14. \A x : \A k \in 1..b : Numbered(l, x, k) => Numbered(e, x, k)
  <2> TAKE x
  <2> TAKE k \in 1..b
  <2>1. k < r + 1 /\ k < b + s + 1
    BY <1>6
  <2> QED BY <1>3, <1>5, <2>1 DEF Numbered
<1>15. Begins(l, b + 1) => Begins(e, b + 1)
  <2>1. b + 1 < r + 1 \/ b + 1 = r + 1
    OBVIOUS
  <2> QED BY <1>3, <1>7, <2>1 DEF Begins
<1> QED BY <1>3, <1>6, <1>13, <1>14, <1>15

\* The block of what is staged first is not the one that was resolved last.
LEMMA NotResolved ==
  ASSUME trace \in Traces, NEW l \in Lane, NEW b \in Nat,
         LaneInv(l, b), l.fstate = "CORRECT", l.stage # <<>>
  PROVE  l.stage[1].fe # l.resolved
<1>1. OnCorrect(l, b)
  BY LaneLeft DEF LaneInv
<1>2. PICK s \in Nat : s = Len(l.stage) /\ s > 0
  BY LaneFields, LenProperties, EmptySeq
<1>3. PICK N \in Nat : N = n_records
  BY ProgramTyped
<1>4. b + s + 1 <= N + 1 /\ l.cur.off = 0 /\ l.cur.rec = b + s + 1
  BY <1>1, <1>2, <1>3 DEF OnCorrect
<1>5. b + 1 \in 1..N /\ b + 1 < b + s + 1
  BY <1>2, <1>4
<1>6. l.stage[1].fe = BlockOf(b + 1)
  <2>1. Numbered(l, l.stage[1], b + 1)
    BY <1>2 DEF LaneInv, StageNumbered
  <2>2. ResumeOf(l) = b + s + 1
    BY <1>4 DEF ResumeOf
  <2> QED BY <1>5, <2>1, <2>2 DEF Numbered
<1>7. BranchKept(l) /\ l.resolved = l.last_br_fe /\ l.branch <= b
  BY <1>1 DEF LaneInv, OnCorrect
<1>8. CASE l.last_br_fe = 0
  BY <1>3, <1>5, <1>6, <1>7, <1>8, ProgramTyped
<1>9. CASE /\ l.branch \in 1..n_records /\ Shadow(l.branch) # <<>>
           /\ l.last_br_fe = BlockOf(l.branch)
  <2>1. PICK r \in 1..N : r = l.branch
    BY <1>3, <1>9
  <2>2. trace.rec[r].blkend /\ r < b + 1
    BY <1>3, <1>7, <1>9, <2>1, ProgramTyped
  <2>3. BlockOf(r) < BlockOf(b + 1)
    BY <1>3, <1>5, <2>1, <2>2, BlockGrows
  <2>4. BlockOf(r) \in Nat /\ BlockOf(b + 1) \in Nat
    BY <1>3, <1>5, <2>1, ProgramTyped
  <2> QED BY <1>6, <1>7, <1>9, <2>1, <2>3, <2>4
<1> QED BY <1>7, <1>8, <1>9 DEF BranchKept
\* What the runtime remembers to have consumed is the record delivered last,
\* or nothing when this has no shadow.
HasBranch(l, b) ==
  IF Shadow(b) = <<>> THEN l.br_consumed = Nowhere
  ELSE /\ b \in 1..n_records /\ l.branch < b
       /\ l.br_consumed = [rec |-> b, fe |-> BlockOf(b)] /\ l.last_deliv = l.br_consumed

\* A branch has been entered, the one delivered last or a later one.
Turned(l, e, b) ==
  /\ LaneInv(e, b) /\ b < ResumeOf(e) /\ e.fstate = "SHADOW"
  /\ \A x : \A k \in 1..b : Numbered(l, x, k) => Numbered(e, x, k)
  /\ Begins(l, b + 1) => Begins(e, b + 1)
  /\ l.branch < e.branch /\ l.hi_resume < e.hi_resume /\ b <= e.branch
  /\ e.n_enter = l.n_enter + 1 /\ e.n_leave = l.n_leave
  /\ e.n_nobranch = l.n_nobranch /\ e.n_resolved = l.n_resolved

LEMMA TurnedAt ==
  ASSUME NEW l \in Lane, NEW b \in Nat, BranchKept(l), NEW r \in Nat, l.branch < r,
         b <= r, NEW e, Entered(l, e, r), LaneInv(e, b), b < ResumeOf(e),
         \A x : \A k \in 1..b : Numbered(l, x, k) => Numbered(e, x, k),
         Begins(l, b + 1) => Begins(e, b + 1)
  PROVE  Turned(l, e, b)
<1>1. l.branch \in Nat /\ (l.hi_resume = 0 \/ l.hi_resume = l.branch + 1)
  BY LaneFields DEF BranchKept
<1>2. l.hi_resume < r + 1
  BY <1>1
<1> QED BY <1>2 DEF Turned, Entered

\* lane_enter_shadow, for a branch that is staged.
LEMMA EnterStaged ==
  ASSUME trace \in Traces, NEW l \in Lane, NEW b \in Nat,
         LaneInv(l, b), l.fstate = "CORRECT", StagedBranches(l) # {}
  PROVE  Turned(l, Enter(l), b)
<1>1. OnCorrect(l, b)
  BY LaneLeft DEF LaneInv
<1>2. PICK s \in Nat, N \in Nat : s = Len(l.stage) /\ N = n_records
  BY LaneFields, LenProperties, ProgramTyped
<1>3. b + s + 1 <= N + 1 /\ l.cur.off = 0 /\ l.cur.rec = b + s + 1
  BY <1>1, <1>2 DEF OnCorrect
<1>4. StagedBranches(l) \in SUBSET Nat
  BY <1>2 DEF StagedBranches
<1>5. PICK i \in 1..s : i = Min(StagedBranches(l)) /\ i \in StagedBranches(l)
  BY <1>2, <1>4, MinOf DEF StagedBranches
<1>6. ResumeOf(l) = b + s + 1
  BY <1>3 DEF ResumeOf
<1>7. \A j \in 1..s : /\ l.stage[j].off = 0 /\ l.stage[j].rec = b + j
                      /\ l.stage[j].fe = BlockOf(b + j)
  <2> TAKE j \in 1..s
  <2>1. Numbered(l, l.stage[j], b + j)
    BY <1>2 DEF LaneInv, StageNumbered
  <2>2. b + j < b + s + 1
    OBVIOUS
  <2> QED BY <1>6, <2>1, <2>2 DEF Numbered
<1>8. PICK r \in 1..N : r = b + i
  BY <1>3
<1>9. Shadow(r) # <<>>
  <2>1. l.stage[i].sh
    BY <1>5 DEF StagedBranches
  <2>2. Shadow(l.stage[i].rec) # <<>>
    BY <1>1, <1>2, <2>1 DEF OnCorrect
  <2> QED BY <1>7, <1>8, <2>2
<1>10. l.branch < r
  <2>1. l.branch \in Nat /\ l.branch <= b
    BY <1>1, LaneFields DEF OnCorrect
  <2> QED BY <1>8, <2>1
<1> DEFINE br == Pos(l.stage[i])
           d  == DoEnter(l, br, Nowhere)
           u  == [SubSeq(l.stage, 1, i) EXCEPT ![i].sh = FALSE]
           e  == [d EXCEPT !.stage = u]
<1>11. br = [rec |-> r, fe |-> BlockOf(r)]
  BY <1>7, <1>8 DEF Pos
<1>12. Entered(l, d, r) /\ d.stage = l.stage
  <2> HIDE DEF br
  <2> QED BY <1>2, <1>11, DoEnterIs
<1>13. /\ SubSeq(l.stage, 1, i) \in Seq(Staged) /\ Len(SubSeq(l.stage, 1, i)) = i
       /\ \A j \in 1..i : SubSeq(l.stage, 1, i)[j] = l.stage[j]
  <2>1. PICK q \in Seq(Staged) : q = l.stage
    BY LaneFields
  <2>2. s = Len(q) /\ i \in 0..s
    BY <1>2, <2>1
  <2>3. /\ SubSeq(q, 1, i) \in Seq(Staged) /\ Len(SubSeq(q, 1, i)) = i
        /\ \A j \in 1..i : SubSeq(q, 1, i)[j] = q[j]
    BY <2>2, Parted
  <2> QED BY <2>1, <2>3
<1>14. /\ u \in Seq(Staged) /\ Len(u) = i
       /\ \A j \in 1..i : /\ u[j].off = l.stage[j].off /\ u[j].rec = l.stage[j].rec
                          /\ u[j].fe = l.stage[j].fe
  <2>1. PICK v \in Seq(Staged) : v = SubSeq(l.stage, 1, i)
    BY <1>13
  <2>2. Len(v) = i /\ (\A j \in 1..i : v[j] = l.stage[j]) /\ u = [v EXCEPT ![i].sh = FALSE]
    BY <1>13, <2>1
  <2>3. \A j \in 1..i : v[j] \in Staged
    BY <2>2, ElementOfSeq
  <2>30. PICK y \in Staged : y = v[i]
    BY <2>3
  <2>31. LET x == [y EXCEPT !.sh = FALSE]
         IN  x \in Staged /\ x.off = y.off /\ x.rec = y.rec /\ x.fe = y.fe
    BY DEF Staged
  <2>4. PICK x \in Staged : x = [v[i] EXCEPT !.sh = FALSE]
                            /\ x.off = v[i].off /\ x.rec = v[i].rec /\ x.fe = v[i].fe
    BY <2>30, <2>31
  <2>5. u = [v EXCEPT ![i] = x]
    BY <2>2, <2>4
  <2>6. DOMAIN v = 1..i /\ i \in 1..Len(v)
    BY <2>2, LenProperties
  <2> HIDE DEF u
  <2>7. u \in Seq(Staged) /\ Len(u) = i
    <3> HIDE DEF Staged
    <3>1. u \in Seq(Staged) /\ Len(u) = Len(v)
      BY <2>5, <2>6, ExceptSeq
    <3> QED BY <2>2, <3>1
  <2>8. \A j \in 1..i : u[j] = IF j = i THEN x ELSE v[j]
    BY <2>5, <2>6
  <2> QED BY <2>2, <2>4, <2>7, <2>8
<1> HIDE DEF u, d, br
<1>15. Entered(l, e, r) /\ e.stage = u
  BY <1>12, <1>14, EnteredStage
<1>16. Enter(l) = e
  <2>1. ~(l.stage # <<>> /\ l.stage[1].fe = l.resolved)
    BY NotResolved
  <2>2. Enter(l) = [d EXCEPT !.stage = [SubSeq(@, 1, i) EXCEPT ![i].sh = FALSE]]
    BY <1>5, <2>1 DEF Enter, d, br
  <2> QED BY <1>12, <2>2 DEF u
<1> HIDE DEF e
<1>17. b + i = r /\ i <= Len(l.stage) /\ Len(e.stage) = i /\ i \in Nat
  BY <1>2, <1>8, <1>14, <1>15
<1>18. \A j \in 1..i : /\ e.stage[j].off = 0 /\ e.stage[j].rec = b + j
                       /\ e.stage[j].fe = BlockOf(b + j)
  <2> TAKE j \in 1..i
  <2>1. j \in 1..s
    OBVIOUS
  <2> QED BY <1>7, <1>14, <1>15, <2>1
<1>19. /\ LaneInv(e, b) /\ b < ResumeOf(e)
       /\ \A x : \A k \in 1..b : Numbered(l, x, k) => Numbered(e, x, k)
       /\ Begins(l, b + 1) => Begins(e, b + 1)
  <2>1. r \in 1..n_records /\ Shadow(r) # <<>> /\ l.branch < r /\ Entered(l, e, r)
    BY <1>2, <1>9, <1>10, <1>15
  <2> QED BY <1>17, <1>18, <2>1, EnteredKeeps
<1>20. BranchKept(l) /\ r \in Nat /\ b <= r
  BY <1>8 DEF LaneInv
<1> QED BY <1>10, <1>15, <1>16, <1>19, <1>20, TurnedAt

\* And for the branch that has been consumed.
LEMMA EnterConsumed ==
  ASSUME trace \in Traces, NEW l \in Lane, NEW b \in Nat,
         LaneInv(l, b), l.fstate = "CORRECT", StagedBranches(l) = {},
         HasBranch(l, b), Shadow(b) # <<>>
  PROVE  Turned(l, Enter(l), b)
<1>1. /\ b \in 1..n_records /\ Shadow(b) # <<>> /\ l.branch < b
      /\ l.br_consumed = [rec |-> b, fe |-> BlockOf(b)] /\ l.last_deliv = l.br_consumed
  BY DEF HasBranch
<1> DEFINE d == DoEnter(l, l.br_consumed, l.last_deliv)
           e == [d EXCEPT !.stage = <<>>]
<1>2. Entered(l, d, b)
  <2>1. PICK r \in 1..n_records : r = b
    BY <1>1
  <2>10. PICK br : br = l.br_consumed
    OBVIOUS
  <2>2. br = [rec |-> r, fe |-> BlockOf(r)] /\ l.last_deliv \in {Nowhere, br}
    BY <1>1, <2>1, <2>10
  <2>3. Entered(l, DoEnter(l, br, l.last_deliv), r)
    BY <2>2, DoEnterIs
  <2> QED BY <2>1, <2>10, <2>3
<1> HIDE DEF d
<1>3. <<>> \in Seq(Staged) /\ Len(<<>>) = 0
  BY EmptySeq
<1>4. Entered(l, e, b) /\ e.stage = <<>>
  BY <1>2, <1>3, EnteredStage
<1>5. Enter(l) = e
  <2>1. l.br_consumed # Nowhere
    BY <1>1 DEF Nowhere
  <2>2. ~(l.stage # <<>> /\ l.stage[1].fe = l.resolved)
    BY NotResolved
  <2> QED BY <2>1, <2>2 DEF Enter, d
<1> HIDE DEF e
<1>6. /\ b + 0 = b /\ 0 <= Len(l.stage) /\ Len(e.stage) = 0 /\ 0 \in Nat
      /\ \A j \in 1..0 : /\ e.stage[j].off = 0 /\ e.stage[j].rec = b + j
                         /\ e.stage[j].fe = BlockOf(b + j)
  BY <1>1, <1>3, <1>4, LaneFields, LenProperties
<1>7. /\ LaneInv(e, b) /\ b < ResumeOf(e)
      /\ \A x : \A k \in 1..b : Numbered(l, x, k) => Numbered(e, x, k)
      /\ Begins(l, b + 1) => Begins(e, b + 1)
  BY <1>1, <1>4, <1>6, EnteredKeeps
<1>8. BranchKept(l) /\ b <= b
  BY DEF LaneInv
<1> QED BY <1>1, <1>4, <1>5, <1>7, <1>8, TurnedAt

\* Nothing has been entered: the redirect is dropped.
Stays(l, e, b) ==
  /\ LaneInv(e, b) /\ e.fstate = "CORRECT"
  /\ ResumeOf(e) = ResumeOf(l) /\ e.branch = l.branch
  /\ e.n_enter = l.n_enter /\ e.n_leave = l.n_leave /\ e.n_resolved = l.n_resolved
  /\ e.n_nobranch = l.n_nobranch + 1

LEMMA EnterNone ==
  ASSUME trace \in Traces, NEW l \in Lane, NEW b \in Nat,
         LaneInv(l, b), l.fstate = "CORRECT", StagedBranches(l) = {},
         HasBranch(l, b), Shadow(b) = <<>>
  PROVE  Stays(l, Enter(l), b)
<1> DEFINE e == [l EXCEPT !.n_nobranch = @ + 1]
<1>1. Enter(l) = e
  <2>1. l.br_consumed = Nowhere
    BY DEF HasBranch
  <2>2. ~(l.stage # <<>> /\ l.stage[1].fe = l.resolved)
    BY NotResolved
  <2> QED BY <2>1, <2>2 DEF Enter
<1>2. PICK k \in Nat : k = l.n_nobranch + 1
  BY LaneFields
<1>3. e = [l EXCEPT !.n_nobranch = k]
  BY <1>2
<1> HIDE DEF e
<1>4. e \in Lane
  <2> HIDE DEF Cursor, Staged, Position
  <2> QED BY <1>3 DEF Lane
<1>5. /\ e.cur = l.cur /\ e.stage = l.stage /\ e.eof = l.eof /\ e.fstate = l.fstate
      /\ e.last_br_fe = l.last_br_fe /\ e.branch = l.branch /\ e.hi_resume = l.hi_resume
      /\ e.resolved = l.resolved /\ e.n_enter = l.n_enter /\ e.n_leave = l.n_leave
      /\ e.n_nobranch = k /\ e.n_resolved = l.n_resolved /\ e.cp_consumed = l.cp_consumed
  <2> HIDE DEF Cursor, Staged, Position
  <2> QED BY <1>3 DEF Lane
<1>6. ResumeOf(e) = ResumeOf(l)
  BY <1>5 DEF ResumeOf
<1>7. StageNumbered(e, b) /\ BranchKept(e) /\ Consumed(e, b)
  BY <1>5, <1>6 DEF LaneInv, StageNumbered, Numbered, BranchKept, Consumed
<1>8. OnCorrect(e, b)
  <2>1. OnCorrect(l, b)
    BY LaneLeft DEF LaneInv
  <2> QED BY <1>5, <2>1 DEF OnCorrect
<1>9. LaneInv(e, b)
  BY <1>4, <1>5, <1>7, <1>8 DEF LaneInv
<1> QED BY <1>1, <1>2, <1>5, <1>6, <1>9 DEF Stays
----------------------------------------------------------------------------
(* Leaving it.                                                             *)

LEMMA MinIs ==
  ASSUME NEW S \in SUBSET Int, NEW k \in S, \A x \in S : k <= x
  PROVE  Min(S) = k
<1>0. \E m \in S : \A x \in S : m <= x
  OBVIOUS
<1>1. Min(S) \in S /\ \A x \in S : Min(S) <= x
  BY <1>0 DEF Min
<1>2. Min(S) \in Int /\ k \in Int /\ Min(S) <= k /\ k <= Min(S)
  BY <1>1
<1> QED BY <1>2

\* When all that is staged is of the wrong path, nothing of it is kept.
LEMMA NothingKept ==
  ASSUME NEW s \in Seq(Staged), \A i \in 1..Len(s) : OnWrongPath(s[i])
  PROVE  CorrectPrefix(s) = <<>>
<1> DEFINE S == {Len(s) + 1} \cup {i \in DOMAIN s : OnWrongPath(s[i])}
<1>1. PICK a \in Nat : a = Len(s) /\ DOMAIN s = 1..a
  BY LenProperties
<1>2. S \in SUBSET Int /\ \A x \in S : 1 <= x
  BY <1>1
<1>3. 1 \in S
  <2>1. CASE a = 0
    BY <1>1, <2>1
  <2>2. CASE a > 0
    BY <1>1, <2>2
  <2> QED BY <2>1, <2>2
<1> HIDE DEF S
<1>4. Min(S) = 1
  BY <1>2, <1>3, MinIs
<1>5. SubSeq(s, 1, 0) = <<>>
  <2>1. 1 \in Int /\ 0 \in Int /\ 0 < 1
    OBVIOUS
  <2> QED BY <2>1, SubSeqEmpty
<1>6. CorrectPrefix(s) = SubSeq(s, 1, Min(S) - 1)
  BY DEF CorrectPrefix, S
<1>7. Min(S) - 1 = 0
  BY <1>4
<1> QED BY <1>5, <1>6, <1>7

\* lane_leave_shadow, when the flush has taken all but the correct path: the
\* branch is then what was retired last.
LEMMA LeaveKeeps ==
  ASSUME trace \in Traces, NEW l \in Lane, NEW b \in Nat,
         LaneInv(l, b), l.fstate # "CORRECT", NEW r \in Nat, r = l.branch, r <= b
  PROVE  /\ LaneInv(Leave(l), r) /\ ResumeOf(Leave(l)) = r + 1
         /\ Leave(l).fstate = "CORRECT" /\ Leave(l).branch = r
         /\ Leave(l).n_enter = l.n_enter /\ Leave(l).n_leave = l.n_leave + 1
         /\ Leave(l).n_nobranch = l.n_nobranch /\ Leave(l).n_resolved = l.n_resolved
         /\ Begins(Leave(l), r + 1)
<1>1. InShadow(l, b)
  BY LaneLeft DEF LaneInv
<1>2. /\ r \in 1..n_records /\ Shadow(r) # <<>> /\ trace.rec[r].blkend
      /\ l.last_br_fe = BlockOf(r) /\ l.hi_resume = r + 1 /\ n_records \in Nat
  BY <1>1, ProgramTyped DEF LaneInv, BranchKept, InShadow
<1>3. /\ l.cur \in Cursor /\ l.cur.rec = r /\ l.cur.off > 0
      /\ l.cur.sv.rec = r + 1 /\ l.cur.sv.fe = Passed(r + 1)
  BY <1>1, LaneFields DEF InShadow
<1>4. ResumeOf(l) = r + 1
  BY <1>3 DEF ResumeOf
<1>5. CorrectPrefix(l.stage) = <<>>
  <2>1. l.stage \in Seq(Staged)
    BY LaneFields
  <2>2. \A i \in 1..Len(l.stage) : OnWrongPath(l.stage[i])
    <3> TAKE i \in 1..Len(l.stage)
    <3>1. i \in Nat /\ i > 0
      BY <2>1, LenProperties
    <3>2. Numbered(l, l.stage[i], b + i)
      BY DEF LaneInv, StageNumbered
    <3>3. ~(b + i < r + 1) /\ b + i - (r + 1) + 1 > 0
      BY <3>1
    <3>4. l.stage[i].off = b + i - (r + 1) + 1
      BY <1>4, <3>2, <3>3 DEF Numbered
    <3> QED BY <3>3, <3>4 DEF OnWrongPath
  <2> QED BY <2>1, <2>2, NothingKept
<1> DEFINE v == Leave(l)
           c == LeaveShadow(l.cur)
<1>6. /\ c \in Cursor /\ c.rec = r + 1 /\ c.off = 0 /\ c.fe = Passed(r + 1)
  <2>1. PICK p \in Nat, q \in Nat : p = r + 1 /\ q = Passed(r + 1)
    BY PassedType
  <2>2. c = [l.cur EXCEPT !.rec = p, !.fe = q, !.off = 0]
    BY <1>3, <2>1 DEF LeaveShadow
  <2> HIDE DEF c, Position
  <2>3. c \in Cursor /\ c.rec = p /\ c.fe = q /\ c.off = 0
    BY <1>3, <2>2 DEF Cursor
  <2> QED BY <2>1, <2>3
<1>7. PICK k \in Nat : k = l.n_leave + 1
  BY LaneFields
<1> HIDE DEF c
<1>8. v = [l EXCEPT !.stage = <<>>, !.resolved = l.last_br_fe, !.cur = c,
                    !.fstate = "CORRECT", !.n_leave = k, !.eof = FALSE]
  BY <1>5, <1>7 DEF Leave, c
<1> HIDE DEF v
<1>9. v \in Lane
  <2>1. <<>> \in Seq(Staged) /\ l.last_br_fe \in Nat
    BY EmptySeq, LaneFields
  <2> HIDE DEF Cursor, Staged, Position
  <2> QED BY <1>6, <1>7, <1>8, <2>1 DEF Lane
<1>10. /\ v.stage = <<>> /\ v.resolved = l.last_br_fe /\ v.cur = c
       /\ v.fstate = "CORRECT" /\ v.n_leave = k /\ v.eof = FALSE
       /\ v.branch = l.branch /\ v.last_br_fe = l.last_br_fe /\ v.hi_resume = l.hi_resume
       /\ v.n_enter = l.n_enter /\ v.n_nobranch = l.n_nobranch
       /\ v.n_resolved = l.n_resolved /\ v.cp_consumed = l.cp_consumed
  <2> HIDE DEF Cursor, Staged, Position
  <2> QED BY <1>8 DEF Lane
<1>11. Len(v.stage) = 0 /\ Len(v.stage) <= M
  <2>1. PICK m \in Nat : m = M
    BY RefillAssumption
  <2> QED BY <1>10, <2>1, EmptySeq
<1>12. ResumeOf(v) = r + 1
  BY <1>6, <1>10 DEF ResumeOf
<1>13. StageNumbered(v, r)
  BY <1>11 DEF StageNumbered
<1>14. BranchKept(v)
  BY <1>2, <1>10 DEF BranchKept
<1>15. Consumed(v, r)
  <2>1. l.cp_consumed = r
    <3>1. ~(b < r + 1) \/ b = r
      OBVIOUS
    <3> QED BY <1>4, <3>1 DEF LaneInv, Consumed
  <2> QED BY <1>10, <1>12, <2>1 DEF Consumed
<1>16. OnCorrect(v, r)
  <2>1. r + 1 = r + Len(v.stage) + 1 /\ r + 1 <= n_records + 1
    BY <1>2, <1>11
  <2>2. v.n_enter = v.n_leave
    BY <1>1, <1>7, <1>10 DEF InShadow
  <2>3. \A i \in 1..Len(v.stage) : v.stage[i].sh <=> Shadow(v.stage[i].rec) # <<>>
    BY <1>11
  <2> QED BY <1>6, <1>10, <2>1, <2>2, <2>3 DEF OnCorrect
<1>17. LaneInv(v, r)
  BY <1>9, <1>11, <1>13, <1>14, <1>15, <1>16 DEF LaneInv
<1>18. Begins(v, r + 1)
  <2>1. (r + 1) - 1 = r
    OBVIOUS
  <2> QED BY <1>2, <1>10, <2>1 DEF Begins
<1> QED BY <1>7, <1>10, <1>12, <1>17, <1>18 DEF v
----------------------------------------------------------------------------
(* The start, and a cycle's window.                                        *)

LEMMA InitEstablishes == Init => IInv
<1> SUFFICES ASSUME Init PROVE IInv
  OBVIOUS
<1> DEFINE l0 == [cur |-> CurInit, stage |-> <<>>, eof |-> FALSE, fstate |-> "CORRECT",
                  last_br_fe |-> 0, branch |-> 0, hi_resume |-> 0, resolved |-> 0,
                  n_enter |-> 0, n_leave |-> 0, n_nobranch |-> 0, n_resolved |-> 0,
                  cp_consumed |-> 0, wp_consumed |-> 0,
                  br_consumed |-> Nowhere, last_deliv |-> Nowhere]
<1>1. /\ trace \in Traces /\ lane = Gather(l0) /\ be = <<>> /\ dq = <<>> /\ retired = 0
      /\ bub = 0 /\ blk_seen = FALSE /\ shadow = FALSE /\ done = FALSE /\ left = FALSE
  BY DEF Init, RefillInit, FrontInit
<1>2. <<>> \in Seq(Staged) /\ Len(<<>>) = 0
  BY EmptySeq
<1>3. Delivered = <<>>
  <2>1. <<>> \o <<>> = <<>>
    BY <1>2, ConcatEmptySeq
  <2> QED BY <1>1, <2>1 DEF Delivered
<1>4. Base = 0
  BY <1>1, <1>2, <1>3 DEF Base
<1>5. CurInit \in Cursor /\ CurInit.rec = 1 /\ CurInit.off = 0 /\ CurInit.fe = 1
  BY DEF CurInit, Cursor, Position
<1>6. Passed(1) = 1
  <2>1. n_records \in Nat
    BY <1>1, ProgramTyped
  <2>2. NewBlocks(1, 1) = {}
    BY <2>1 DEF NewBlocks
  <2> QED BY <2>2, FS_EmptySet DEF Passed
<1>7. /\ l0.cur = CurInit /\ l0.stage = <<>> /\ l0.eof = FALSE /\ l0.fstate = "CORRECT"
      /\ l0.last_br_fe = 0 /\ l0.branch = 0 /\ l0.hi_resume = 0 /\ l0.resolved = 0
      /\ l0.n_enter = 0 /\ l0.n_leave = 0 /\ l0.n_nobranch = 0 /\ l0.cp_consumed = 0
  OBVIOUS
<1>8. l0 \in Lane
  <2>1. Nowhere \in Position
    BY DEF Nowhere, Position
  <2> HIDE DEF Cursor, Staged, Position
  <2> QED BY <1>2, <1>5, <2>1 DEF Lane
<1> HIDE DEF l0
<1>9. ResumeOf(l0) = 1
  BY <1>5, <1>7 DEF ResumeOf
<1>10. LaneInv(l0, 0)
  <2>1. Len(l0.stage) = 0 /\ Len(l0.stage) <= M
    <3>1. PICK m \in Nat : m = M
      BY RefillAssumption
    <3> QED BY <1>2, <1>7, <3>1
  <2>2. StageNumbered(l0, 0)
    BY <2>1 DEF StageNumbered
  <2>3. BranchKept(l0) /\ Consumed(l0, 0)
    BY <1>7, <1>9 DEF BranchKept, Consumed
  <2>4. 1 = 0 + Len(l0.stage) + 1 /\ 1 <= n_records + 1
    BY <1>1, <2>1, ProgramTyped
  <2>5. \A i \in 1..Len(l0.stage) : l0.stage[i].sh <=> Shadow(l0.stage[i].rec) # <<>>
    BY <2>1
  <2>6. OnCorrect(l0, 0)
    BY <1>5, <1>6, <1>7, <2>4, <2>5 DEF OnCorrect
  <2> QED BY <1>8, <2>1, <2>2, <2>3, <2>6 DEF LaneInv
<1>11. Begins(l0, 0 + 1)
  BY <1>7 DEF Begins
<1>12. LaneInv(lane, 0) /\ KeepsNumbers(l0, lane, 0) /\ Books(lane) = Books(l0)
  BY <1>1, <1>8, <1>10, GatherKeeps
<1>13. lane.fstate = "CORRECT" /\ Begins(lane, 0 + 1) /\ 1 <= ResumeOf(lane)
  BY <1>7, <1>9, <1>11, <1>12 DEF KeepsNumbers
<1>14. Queues
  <2>1. PICK m \in Nat, p \in Nat : m = BE_N /\ p = DQ_N
    BY BackAssumption, FrontAssumption
  <2>2. Len(be) <= BE_N /\ Len(dq) <= DQ_N
    BY <1>1, <1>2, <2>1
  <2>3. bub \in 0..3 /\ retired \in Nat
    BY <1>1
  <2>4. blk_seen \in BOOLEAN /\ shadow \in BOOLEAN /\ done \in BOOLEAN /\ left \in BOOLEAN
    BY <1>1
  <2> QED BY <1>1, <1>2, <2>2, <2>3, <2>4 DEF Queues
<1>15. InFlight(lane)
  BY <1>2, <1>3 DEF InFlight
<1>16. RetiredCorrect
  <2>1. PICK R \in Nat : R = ResumeOf(lane)
    BY <1>12, ResumeType DEF LaneInv
  <2> QED BY <1>1, <1>13, <2>1 DEF RetiredCorrect
<1>17. NoTwice(lane) /\ (shadow <=> Astray(lane))
  <2>1. lane.n_nobranch = 0
    BY <1>7, <1>12 DEF Books
  <2> QED BY <1>1, <1>13, <2>1 DEF NoTwice, Astray
<1> QED BY <1>1, <1>4, <1>12, <1>13, <1>14, <1>15, <1>16, <1>17 DEF IInv

\* The lane whose window is shown: gathered, or as it was.
LEMMA WindowKeeps ==
  ASSUME IInv
  PROVE  LET l == Window(lane) IN
         /\ LaneInv(l, Base) /\ Books(l) = Books(lane) /\ KeepsNumbers(lane, l, Base)
         /\ lane.eof => l = lane
         /\ Len(lane.stage) <= Len(l.stage)
         /\ \A i \in 1..Len(lane.stage) : l.stage[i] = lane.stage[i]
         /\ lane.cur.off > 0 => ResumeOf(l) = ResumeOf(lane)
<1>1. /\ trace \in Traces /\ LaneInv(lane, Base) /\ lane \in Lane
  BY DEF IInv, Queues, LaneInv
<1>2. Base \in Nat
  <2>1. Delivered \in Seq(Staged)
    BY ConcatProperties DEF IInv, Queues, Delivered
  <2>2. PICK d \in Nat, r \in Nat : d = Len(Delivered) /\ r = retired
    BY <2>1, LenProperties DEF IInv, Queues
  <2> QED BY <2>2 DEF Base
<1>3. KeepsNumbers(lane, lane, Base)
  <2>1. PICK R \in Nat : R = ResumeOf(lane)
    BY <1>1, ResumeType
  <2> QED BY <2>1 DEF KeepsNumbers
<1>4. PICK s \in Nat : s = Len(lane.stage)
  BY <1>1, LaneFields, LenProperties
<1>5. CASE Window(lane) = lane
  BY <1>1, <1>3, <1>4, <1>5
<1>6. CASE Window(lane) = Gather(lane) /\ ~lane.eof
  BY <1>1, <1>2, <1>6, GatherKeeps
<1> QED BY <1>5, <1>6 DEF Window
----------------------------------------------------------------------------
(* What the front end takes of the window.                                 *)

LEMMA PresentedTyped ==
  ASSUME Queues, NEW room \in 0..W
  PROVE  n_out(room) \in Nat /\ n_out(room) <= Len(dq) /\ n_out(room) <= room
<1>1. PICK d \in Nat, w \in Nat : d = Len(dq) /\ w = W
  BY LenProperties, RefillAssumption DEF Queues
<1>2. n_pres = IF d <= w THEN d ELSE w
  BY <1>1, MinTwo DEF n_pres
<1>3. PICK p \in Nat : p = n_pres /\ p <= d
  BY <1>2
<1>4. n_out(room) = IF p <= room THEN p ELSE room
  BY <1>1, <1>3, MinTwo DEF n_out
<1> QED BY <1>1, <1>3, <1>4

LEMMA BlockLength ==
  ASSUME NEW win \in Seq(Staged)
  PROVE  /\ n_blk(win) \in Nat
         /\ \A i \in 1..Len(win) : BlkEnd(win[i]) => n_blk(win) <= i
         /\ n_blk(win) <= W => n_blk(win) \in 1..Len(win) /\ BlkEnd(win[n_blk(win)])
<1> DEFINE E == {i \in 1..Len(win) : BlkEnd(win[i])}
           S == {W + 1} \cup E
<1>1. PICK w \in Nat, a \in Nat : w = W /\ a = Len(win)
  BY LenProperties, RefillAssumption
<1>2. S \in SUBSET Nat /\ S # {}
  BY <1>1
<1>3. Min(S) \in S /\ \A x \in S : Min(S) <= x
  <2> HIDE DEF S
  <2> QED BY <1>2, MinOf
<1>4. n_blk(win) = Min(S)
  BY DEF n_blk
<1>5. PICK m \in Nat : m = Min(S)
  <2> HIDE DEF S
  <2> QED BY <1>2, <1>3
<1>6. m \in S /\ \A x \in S : m <= x
  BY <1>3, <1>5
<1>7. m <= w => m \in E
  BY <1>1, <1>6
<1> HIDE DEF S
<1>8. \A i \in E : m <= i
  BY <1>6 DEF S
<1> QED BY <1>1, <1>4, <1>5, <1>7, <1>8

LEMMA TakenTyped ==
  ASSUME Queues, NEW win \in Seq(Staged), NEW room \in 0..W
  PROVE  /\ n_in(win, room) \in Nat
         /\ n_in(win, room) <= Len(win) /\ n_in(win, room) <= n_blk(win)
         /\ n_in(win, room) <= W
         /\ (Len(dq) - n_out(room)) + n_in(win, room) <= DQ_N
<1>1. PICK w \in Nat, a \in Nat, d \in Nat, o \in Nat, q \in Nat, f \in Nat, b \in Nat :
        /\ w = W /\ a = Len(win) /\ d = Len(dq) /\ o = n_out(room) /\ q = DQ_N
        /\ f = cfg_fetch_width /\ b = n_blk(win)
  <2>1. Len(win) \in Nat /\ Len(dq) \in Nat
    BY LenProperties DEF Queues
  <2>2. W \in Nat /\ DQ_N \in Nat /\ cfg_fetch_width \in Nat
    BY RefillAssumption, FrontAssumption
  <2>3. n_out(room) \in Nat
    BY PresentedTyped
  <2>4. n_blk(win) \in Nat
    BY BlockLength
  <2> QED BY <2>1, <2>2, <2>3, <2>4
<1>2. o <= d /\ d <= q /\ f <= w
  BY <1>1, PresentedTyped, FrontAssumption DEF Queues
<1>3. PICK r \in Nat : r = q - (d - o)
  BY <1>2
<1>4. n_space(room) = IF w <= r THEN w ELSE r
  BY <1>1, <1>3, MinTwo DEF n_space
<1>5. PICK p \in Nat : p = n_space(room) /\ p <= r
  BY <1>4
<1>6. CASE eff_bub(win) # 0
  <2>1. n_in(win, room) = 0
    BY <1>6 DEF n_in
  <2> QED BY <1>1, <1>2, <2>1
<1>7. CASE eff_bub(win) = 0
  <2> DEFINE S == {a, b, f, p}
  <2>1. S \in SUBSET Nat /\ S # {}
    OBVIOUS
  <2>2. Min(S) \in S /\ \A x \in S : Min(S) <= x
    <3> HIDE DEF S
    <3> QED BY <2>1, MinOf
  <2>3. PICK n \in Nat : n = Min(S) /\ n <= a /\ n <= b /\ n <= f /\ n <= p
    BY <2>2
  <2>4. n_in(win, room) = n
    BY <1>1, <1>5, <1>7, <2>3 DEF n_in
  <2>5. n <= w /\ (d - o) + n <= q
    BY <1>2, <1>3, <1>5, <2>3
  <2> QED BY <1>1, <2>3, <2>4, <2>5
<1> QED BY <1>6, <1>7

\* When the end of a block is taken, it is taken last.
LEMMA EndTaken ==
  ASSUME Queues, NEW win \in Seq(Staged), NEW room \in 0..W, blk_end_taken(win, room),
         NEW n \in Nat, n = n_in(win, room)
  PROVE  n \in 1..Len(win) /\ BlkEnd(win[n]) /\ \A i \in 1..n-1 : ~BlkEnd(win[i])
<1>1. PICK a \in Nat, b \in Nat, w \in Nat : a = Len(win) /\ b = n_blk(win) /\ w = W
  BY LenProperties, BlockLength, RefillAssumption
<1>2. n # 0 /\ n >= b /\ n <= b /\ n <= a /\ n <= w
  BY <1>1, TakenTyped DEF blk_end_taken
<1>3. n = b
  BY <1>2
<1>4. BlkEnd(win[n])
  BY <1>1, <1>2, <1>3, BlockLength
<1>5. \A i \in 1..n-1 : ~BlkEnd(win[i])
  <2> TAKE i \in 1..n-1
  <2>1. i \in 1..a /\ ~(b <= i)
    BY <1>2, <1>3
  <2> QED BY <1>1, <2>1, BlockLength
<1> QED BY <1>1, <1>2, <1>4, <1>5
----------------------------------------------------------------------------
(* A cycle: what is shown, what comes and what goes.                       *)

LEMMA ShownIs ==
  ASSUME NEW l \in Lane
  PROVE  /\ Shown(l) \in Seq(Staged) /\ Len(Shown(l)) \in Nat
         /\ Len(Shown(l)) <= Len(l.stage)
         /\ \A i \in 1..Len(Shown(l)) : Shown(l)[i] = l.stage[i]
<1>1. PICK s \in Seq(Staged) : s = l.stage
  BY LaneFields
<1>2. PICK a \in Nat, w \in Nat : a = Len(s) /\ w = W
  BY LenProperties, RefillAssumption
<1>3. PICK n \in 0..a : n = Min({w, a})
  BY MinTwo
<1>4. Shown(l) = SubSeq(s, 1, n)
  BY <1>1, <1>2, <1>3 DEF Shown
<1>5. /\ SubSeq(s, 1, n) \in Seq(Staged) /\ Len(SubSeq(s, 1, n)) = n
      /\ \A i \in 1..n : SubSeq(s, 1, n)[i] = s[i]
  BY <1>2, Parted
<1> QED BY <1>1, <1>2, <1>4, <1>5

\* What the back end holds when the k oldest uops have retired and o have come
\* to it, and the decode queue when those have gone and n have come from win.
Behind(k, o)       == SubSeq(be, k + 1, Len(be)) \o SubSeq(dq, 1, o)
Fetched(win, o, n) == SubSeq(dq, o + 1, Len(dq)) \o SubSeq(win, 1, n)

\* What is in flight moves up by k, behind m uops those taken from win come.
MovesUp(B, D, win, a, c, k, o, n, m) ==
  /\ B \in Seq(Staged) /\ Len(B) = (a - k) + o
  /\ D \in Seq(Staged) /\ Len(D) = (c - o) + n
  /\ B \o D \in Seq(Staged) /\ Len(B \o D) = m + n
  /\ \A i \in 1..m : (B \o D)[i] = Delivered[k+i]
  /\ \A j \in 1..n : (B \o D)[m+j] = win[j]

LEMMA FlightMoves ==
  ASSUME Queues, NEW win \in Seq(Staged),
         NEW a \in Nat, a = Len(be), NEW c \in Nat, c = Len(dq),
         NEW w \in Nat, w = Len(win),
         NEW k \in 0..a, NEW o \in 0..c, NEW n \in 0..w,
         NEW B, B = Behind(k, o), NEW D, D = Fetched(win, o, n),
         NEW m \in Nat, m = (a + c) - k
  PROVE  MovesUp(B, D, win, a, c, k, o, n, m)
<1>3. be \in Seq(Staged) /\ dq \in Seq(Staged)
  BY DEF Queues
<1>4. /\ \A i \in 1..a : Delivered[i] = be[i]
      /\ \A j \in 1..c : Delivered[a+j] = dq[j]
  <2>1. /\ \A i \in 1..a : (be \o dq)[i] = be[i]
        /\ \A j \in 1..c : (be \o dq)[a+j] = dq[j]
    BY <1>3, Joined
  <2> QED BY <2>1 DEF Delivered
<1>5. PICK x \in Seq(Staged), y \in Seq(Staged), u \in Seq(Staged), v \in Seq(Staged) :
        /\ x = SubSeq(be, k + 1, a) /\ y = SubSeq(dq, 1, o)
        /\ u = SubSeq(dq, o + 1, c) /\ v = SubSeq(win, 1, n)
  <2>1. SubSeq(be, k + 1, a) \in Seq(Staged)
    BY <1>3, Parted
  <2>2. SubSeq(dq, 1, o) \in Seq(Staged) /\ SubSeq(dq, o + 1, c) \in Seq(Staged)
    BY <1>3, Parted
  <2>3. SubSeq(win, 1, n) \in Seq(Staged)
    BY Parted
  <2> QED BY <2>1, <2>2, <2>3
<1>6. PICK e \in Nat, f \in Nat : e = a - k /\ f = c - o
  <2>1. a - k \in Nat /\ c - o \in Nat
    OBVIOUS
  <2> QED BY <2>1
<1>7. e = Len(x) /\ \A i \in 1..e : x[i] = be[k+i]
  BY <1>3, <1>5, <1>6, Parted
<1>8. o = Len(y) /\ \A i \in 1..o : y[i] = dq[i]
  BY <1>3, <1>5, Parted
<1>9. f = Len(u) /\ \A i \in 1..f : u[i] = dq[o+i]
  BY <1>3, <1>5, <1>6, Parted
<1>10. n = Len(v) /\ \A i \in 1..n : v[i] = win[i]
  BY <1>5, Parted
<1>11. /\ B \in Seq(Staged) /\ Len(B) = e + o
       /\ \A i \in 1..e : B[i] = x[i]
       /\ \A j \in 1..o : B[e+j] = y[j]
  <2>1. B = x \o y
    BY <1>5 DEF Behind
  <2>2. e = Len(x) /\ o = Len(y) /\ o \in Nat
    BY <1>7, <1>8
  <2> QED BY <2>1, <2>2, Joined
<1>12. /\ D \in Seq(Staged) /\ Len(D) = f + n
       /\ \A i \in 1..f : D[i] = u[i]
       /\ \A j \in 1..n : D[f+j] = v[j]
  <2>1. D = u \o v
    BY <1>5 DEF Fetched
  <2>2. f = Len(u) /\ n = Len(v) /\ n \in Nat
    BY <1>9, <1>10
  <2> QED BY <2>1, <2>2, Joined
<1>13. PICK p \in Nat, q \in Nat : p = e + o /\ q = f + n
  OBVIOUS
<1>14. /\ B \o D \in Seq(Staged) /\ Len(B \o D) = p + q
       /\ \A i \in 1..p : (B \o D)[i] = B[i]
       /\ \A j \in 1..q : (B \o D)[p+j] = D[j]
  <2>1. p = Len(B) /\ q = Len(D) /\ B \in Seq(Staged) /\ D \in Seq(Staged)
    BY <1>11, <1>12, <1>13
  <2> QED BY <2>1, Joined
<1>15. \A i \in 1..m : (B \o D)[i] = Delivered[k+i]
  <2> TAKE i \in 1..m
  <2>1. i \in Nat /\ i >= 1 /\ m = e + c
    BY <1>6
  <2>2. CASE i <= e
    <3>1. k + i \in 1..a /\ i \in 1..p /\ i \in 1..e
      BY <1>6, <1>13, <2>1, <2>2
    <3>2. (B \o D)[i] = B[i] /\ B[i] = x[i]
      BY <1>11, <1>14, <3>1
    <3>3. x[i] = be[k+i] /\ be[k+i] = Delivered[k+i]
      BY <1>4, <1>7, <3>1
    <3> QED BY <3>2, <3>3
  <2>3. CASE e < i /\ i <= p
    <3>1. PICK j \in 1..o : i = e + j /\ k + i = a + j /\ j \in 1..c
      <4>1. i - e \in 1..o /\ i = e + (i - e) /\ k + i = a + (i - e) /\ i - e \in 1..c
        BY <1>6, <1>13, <2>1, <2>3
      <4> QED BY <4>1
    <3>2. (B \o D)[i] = B[e+j]
      <4>1. i \in 1..p
        BY <2>1, <2>3
      <4> QED BY <1>14, <3>1, <4>1
    <3>3. (B \o D)[i] = dq[j] /\ Delivered[k+i] = dq[j]
      BY <1>4, <1>8, <1>11, <3>1, <3>2
    <3> QED BY <3>3
  <2>4. CASE p < i
    <3>1. PICK j \in 1..f : i = p + j /\ k + i = a + (o + j) /\ o + j \in 1..c /\ j \in 1..q
      <4>1. PICK j \in Nat : j = i - p /\ j > 0
        BY <2>1, <2>4
      <4>2. i = p + j /\ j <= f
        BY <1>6, <1>13, <2>1, <4>1
      <4>3. k + i = a + (o + j)
        BY <1>6, <1>13, <2>1, <4>2
      <4>4. j \in 1..f
        BY <4>1, <4>2
      <4>5. o + j \in 1..c
        BY <1>6, <4>1, <4>2
      <4>6. j \in 1..q
        BY <1>13, <4>1, <4>2
      <4> QED BY <4>2, <4>3, <4>4, <4>5, <4>6
    <3>2. (B \o D)[i] = D[j]
      BY <1>14, <3>1
    <3>3. (B \o D)[i] = dq[o+j] /\ Delivered[k+i] = dq[o+j]
      BY <1>4, <1>9, <1>12, <3>1, <3>2
    <3> QED BY <3>3
  <2>5. i <= e \/ (e < i /\ i <= p) \/ p < i
    BY <2>1
  <2> QED BY <2>2, <2>3, <2>4, <2>5
<1>16. \A j \in 1..n : (B \o D)[m+j] = win[j]
  <2> TAKE j \in 1..n
  <2>1. m + j = p + (f + j) /\ f + j \in 1..q
    BY <1>6, <1>13
  <2>2. (B \o D)[m+j] = D[f+j]
    BY <1>14, <2>1
  <2> QED BY <1>10, <1>12, <2>2
<1>17. /\ Len(B) = (a - k) + o /\ Len(D) = (c - o) + n
       /\ p + q = m + n
  <2>1. e + o = (a - k) + o /\ f + n = (c - o) + n /\ p + q = m + n
    BY <1>6, <1>13
  <2> QED BY <1>11, <1>12, <2>1
<1>18. Len(B \o D) = m + n
  BY <1>14, <1>17
<1> QED BY <1>11, <1>12, <1>14, <1>15, <1>16, <1>17, <1>18 DEF MovesUp
\* What retires is of the correct path, so that the last record retired has
\* its own number.
LEMMA RetiresUpTo ==
  ASSUME IInv, NEW k \in Nat, k <= Len(be), Retirable(k), Retire(k),
         NEW r \in Nat, r = retired, NEW R \in Nat, R = ResumeOf(lane)
  PROVE  retired' = r + k /\ r + k < R
<1>1. be \in Seq(Staged) /\ dq \in Seq(Staged) /\ r < R
  BY DEF IInv, Queues, RetiredCorrect
<1>2. PICK a \in Nat, c \in Nat : a = Len(be) /\ c = Len(dq)
  <2>1. Len(be) \in Nat /\ Len(dq) \in Nat
    BY <1>1, LenProperties
  <2> QED BY <2>1
<1>3. CASE k = 0
  BY <1>1, <1>3 DEF Retire
<1>4. CASE k > 0
  <2>1. k \in 1..a /\ k \in 1..k
    BY <1>2, <1>4
  <2>2. PICK x \in Staged : x = be[k]
    BY <1>1, <1>2, <2>1, ElementOfSeq
  <2>3. Delivered[k] = be[k] /\ Len(Delivered) = a + c
    BY <1>1, <1>2, <2>1, Joined DEF Delivered
  <2>4. k \in 1..Len(Delivered)
    <3>1. k \in 1..a+c
      BY <2>1
    <3> QED BY <2>3, <3>1
  <2>5. Numbered(lane, x, r + k)
    BY <2>2, <2>3, <2>4 DEF IInv, InFlight
  <2>6. ~(x.off > 0)
    BY <2>1, <2>2 DEF Retirable, OnWrongPath
  <2>7. r + k < R
    <3>1. SUFFICES ASSUME ~(r + k < R) PROVE FALSE
      OBVIOUS
    <3>2. x.off = r + k - R + 1
      BY <2>5, <3>1 DEF Numbered
    <3> QED BY <2>6, <3>1, <3>2
  <2>8. x.rec = r + k
    BY <2>5, <2>7 DEF Numbered
  <2> QED BY <1>4, <2>2, <2>7, <2>8 DEF Retire
<1> QED BY <1>3, <1>4

\* What is staged while the lane reads the correct path.
LEMMA StagedCorrect ==
  ASSUME trace \in Traces, NEW l \in Lane, NEW b \in Nat, LaneInv(l, b),
         l.fstate = "CORRECT", NEW i \in 1..Len(l.stage)
  PROVE  /\ b + i \in 1..n_records
         /\ l.stage[i].off = 0 /\ l.stage[i].rec = b + i /\ l.stage[i].fe = BlockOf(b + i)
         /\ l.stage[i].sh <=> Shadow(b + i) # <<>>
<1>1. OnCorrect(l, b)
  BY LaneLeft DEF LaneInv
<1>2. PICK s \in Nat, c \in Nat, m \in Nat :
        s = Len(l.stage) /\ c = l.cur.rec /\ m = n_records
  <2>1. Len(l.stage) \in Nat
    BY LaneFields, LenProperties
  <2>2. l.cur.rec \in Nat
    BY LaneFields DEF Cursor
  <2>3. n_records \in Nat
    BY ProgramTyped
  <2> QED BY <2>1, <2>2, <2>3
<1>3. i \in 1..s /\ c = b + s + 1 /\ c <= m + 1 /\ ResumeOf(l) = c
  BY <1>1, <1>2 DEF OnCorrect, ResumeOf
<1>4. b + i < c /\ b + i \in 1..m
  BY <1>3
<1>5. Numbered(l, l.stage[i], b + i)
  BY DEF LaneInv, StageNumbered
<1>6. l.stage[i].off = 0 /\ l.stage[i].rec = b + i /\ l.stage[i].fe = BlockOf(b + i)
  BY <1>3, <1>4, <1>5 DEF Numbered
<1>7. l.stage[i].sh <=> Shadow(l.stage[i].rec) # <<>>
  BY <1>1 DEF OnCorrect
<1> QED BY <1>2, <1>4, <1>6, <1>7

\* Behind the end of a block a block begins.
LEMMA EndBegins ==
  ASSUME trace \in Traces, NEW l \in Lane, NEW b \in Nat, LaneInv(l, b),
         NEW n \in Nat, n \in 1..Len(l.stage), BlkEnd(l.stage[n])
  PROVE  Begins(l, b + n + 1)
<1>1. PICK R \in Nat : R = ResumeOf(l)
  BY ResumeType
<1>2. PICK k \in Nat : k = b + n /\ k > 0 /\ b + n + 1 = k + 1
  BY LaneFields, LenProperties
<1>3. Numbered(l, l.stage[n], k)
  BY <1>2 DEF LaneInv, StageNumbered
<1>4. (k + 1) - 1 = k
  BY <1>2
<1>5. CASE k < R
  <2>1. trace.rec[k].blkend
    BY <1>1, <1>3, <1>5 DEF Numbered, BlkEnd, OnWrongPath
  <2>2. k + 1 < R \/ k + 1 = R
    BY <1>5
  <2> QED BY <1>1, <1>2, <1>4, <2>1, <2>2 DEF Begins
<1>6. CASE ~(k < R)
  <2>1. l.stage[n].off = k - R + 1 /\ l.stage[n].rec = l.branch
    BY <1>1, <1>3, <1>6 DEF Numbered
  <2>2. k - R + 1 > 0 /\ (k + 1) - R = k - R + 1
    BY <1>6
  <2>3. Shadow(l.branch)[(k + 1) - R]
    BY <2>1, <2>2 DEF BlkEnd, OnWrongPath
  <2>4. l.fstate # "CORRECT"
    <3>1. SUFFICES ASSUME l.fstate = "CORRECT" PROVE FALSE
      OBVIOUS
    <3>2. l.stage[n].off = 0
      BY <3>1, StagedCorrect
    <3> QED BY <2>1, <2>2, <3>2
  <2>5. ~(k + 1 < R)
    BY <1>6
  <2> QED BY <1>1, <1>2, <2>3, <2>4, <2>5 DEF Begins
<1> QED BY <1>5, <1>6
\* When the end of a mispredicted block is taken, its branch is at hand if it
\* has a shadow, and no other has been taken with it.
LEMMA TakesBranch ==
  ASSUME Queues, NEW l \in Lane, NEW b \in Nat, LaneInv(l, b),
         l.fstate = "CORRECT", NEW win \in Seq(Staged), win = Shown(l),
         NEW room \in 0..W, mis_now(win, room),
         NEW n \in Nat, n = n_in(win, room), NEW t, t = Taken(l, n)
  PROVE  HasBranch(t, b + n)
<1>1. trace \in Traces
  BY DEF Queues
<1>2. n \in 1..Len(win) /\ BlkEnd(win[n]) /\ \A i \in 1..n-1 : ~BlkEnd(win[i])
  BY EndTaken DEF mis_now
<1>3. PICK s \in Nat, p \in Nat : s = Len(l.stage) /\ p = Len(win)
  <2>1. Len(l.stage) \in Nat /\ Len(win) \in Nat
    BY LaneFields, LenProperties
  <2> QED BY <2>1
<1>4. p <= s /\ n \in 1..p /\ n \in 1..s
  BY <1>2, <1>3, ShownIs
<1>5. \A i \in 1..n : /\ b + i \in 1..n_records /\ win[i] = l.stage[i]
                      /\ l.stage[i].off = 0 /\ l.stage[i].rec = b + i
                      /\ l.stage[i].fe = BlockOf(b + i)
                      /\ l.stage[i].sh <=> Shadow(b + i) # <<>>
  <2> TAKE i \in 1..n
  <2>1. i \in 1..Len(l.stage) /\ i \in 1..Len(win)
    BY <1>3, <1>4
  <2> QED BY <1>1, <2>1, StagedCorrect, ShownIs
<1>6. \A i \in 1..n : BlkEnd(win[i]) = trace.rec[b+i].blkend
  <2> TAKE i \in 1..n
  <2>1. win[i].off = 0 /\ win[i].rec = b + i
    BY <1>5
  <2>2. ~OnWrongPath(win[i])
    BY <2>1 DEF OnWrongPath
  <2> QED BY <2>1, <2>2 DEF BlkEnd
<1>7. PICK q \in Nat, r \in Nat : q = b + 1 /\ r = b + n /\ q <= r
  <2>1. b + 1 \in Nat /\ b + n \in Nat /\ b + 1 <= b + n
    BY <1>4
  <2> QED BY <2>1
<1>8. 1 \in 1..n /\ n \in 1..n
  BY <1>4
<1>9. q \in 1..n_records /\ r \in 1..n_records
  BY <1>5, <1>7, <1>8
<1>10. \A i \in 1..n-1 : Shadow(b + i) = <<>>
  <2> TAKE i \in 1..n-1
  <2>1. i \in 1..n
    BY <1>4
  <2> QED BY <1>1, <1>2, <1>5, <1>6, <2>1, ProgramTyped
<1>11. n \in CorrectIn(l, n)
  BY <1>5, <1>8 DEF CorrectIn, OnWrongPath
<1>12. Shadow(r) # <<>> => n \in BranchesIn(l, n)
  BY <1>5, <1>7, <1>8, <1>11 DEF BranchesIn
<1>13. Shadow(r) = <<>> => BranchesIn(l, n) = {}
  <2> SUFFICES ASSUME Shadow(r) = <<>>, NEW i \in BranchesIn(l, n) PROVE FALSE
    OBVIOUS
  <2>1. i \in 1..n /\ l.stage[i].sh
    BY DEF BranchesIn, CorrectIn
  <2>2. Shadow(b + i) # <<>>
    BY <1>5, <2>1
  <2>3. i \in 1..n-1 \/ i = n
    BY <1>4, <2>1
  <2> QED BY <1>7, <1>10, <2>2, <2>3
<1>15. Pos(l.stage[n]) = [rec |-> r, fe |-> BlockOf(r)]
  BY <1>5, <1>7, <1>8 DEF Pos
<1>16. PICK u \in Seq(Staged) : u = l.stage
  BY LaneFields
<1>17. /\ CorrectIn(l, n) \in SUBSET (1..Len(u)) /\ BranchesIn(l, n) \in SUBSET (1..Len(u))
       /\ \A i \in CorrectIn(l, n) : i <= n
       /\ \A i \in BranchesIn(l, n) : i <= n
  <2>1. 1..n \subseteq 1..Len(u)
    BY <1>3, <1>4, <1>16
  <2> QED BY <2>1 DEF CorrectIn, BranchesIn
<1>18. /\ LastPos(u, CorrectIn(l, n)) = Pos(u[n])
       /\ Shadow(r) # <<>> => LastPos(u, BranchesIn(l, n)) = Pos(u[n])
       /\ Shadow(r) = <<>> => LastPos(u, BranchesIn(l, n)) = Nowhere
  <2>1. LastPos(u, CorrectIn(l, n)) = Pos(u[n])
    BY <1>11, <1>17, LastPosIs
  <2>2. Shadow(r) # <<>> => LastPos(u, BranchesIn(l, n)) = Pos(u[n])
    BY <1>12, <1>17, LastPosIs
  <2>3. Shadow(r) = <<>> => LastPos(u, BranchesIn(l, n)) = Nowhere
    BY <1>13 DEF LastPos
  <2> QED BY <2>1, <2>2, <2>3
<1>19. n = AsManyAs(n, s)
  BY <1>4 DEF AsManyAs
<1>20. /\ Books(t) = Books(l)
       /\ t.last_deliv = LastPos(u, CorrectIn(l, n))
       /\ t.br_consumed = LastPos(u, BranchesIn(l, n))
  BY <1>3, <1>16, <1>19, TakenFields
<1>21. IF Shadow(r) = <<>> THEN t.br_consumed = Nowhere
       ELSE t.br_consumed = [rec |-> r, fe |-> BlockOf(r)] /\ t.last_deliv = t.br_consumed
  BY <1>15, <1>16, <1>18, <1>20
<1>22. t.branch < r
  <2>1. PICK m \in Nat : m = l.branch
    BY LaneFields
  <2>2. m <= b
    BY <1>1, <2>1, LaneLeft DEF LaneInv, OnCorrect
  <2>3. t.branch = m
    BY <1>20, <2>1 DEF Books
  <2> QED BY <1>4, <1>7, <2>2, <2>3
<1> QED BY <1>7, <1>9, <1>21, <1>22 DEF HasBranch

----------------------------------------------------------------------------
(* The invariant of the next state, said of the values it has.             *)

PassedIn(t, r) == 1 + Cardinality({q \in 1..r : q \in 2..Len(t.rec) /\ t.rec[q-1].blkend})

LEMMA PassedIs == \A r : Passed(r) = PassedIn(trace, r)
BY DEF Passed, PassedIn, NewBlocks, n_records

LEMMA PassedNext == \A r : Passed(r)' = PassedIn(trace', r)
BY DEF Passed, PassedIn, NewBlocks, n_records

LEMMA LaneNext ==
  ASSUME trace' = trace, NEW g, g = lane', NEW c, c = Base', LaneInv(g, c)
  PROVE  LaneInv(lane, Base)'
<1>1. \A r : Passed(r)' = Passed(r)
  BY PassedIs, PassedNext
<1>2. StageNumbered(lane, Base)'
  BY DEF LaneInv, StageNumbered, Numbered, ResumeOf, BlockOf
<1>3. BranchKept(lane)'
  BY DEF LaneInv, BranchKept, n_records, Shadow, BlockOf
<1>4. Consumed(lane, Base)'
  BY DEF LaneInv, Consumed, ResumeOf
<1>5. OnCorrect(g, c) => OnCorrect(lane, Base)'
  BY <1>1 DEF OnCorrect, n_records, Shadow
<1>6. InShadow(g, c) => InShadow(lane, Base)'
  BY <1>1 DEF InShadow, Shadow
<1> QED BY <1>2, <1>3, <1>4, <1>5, <1>6 DEF LaneInv
\* What lane g and what is in flight, D behind record r, are to each other.
Fits(g, D, r, c) ==
  /\ LaneInv(g, c) /\ r < ResumeOf(g)
  /\ \A i \in 1..Len(D) : Numbered(g, D[i], r + i)

LEMMA InvariantNext ==
  ASSUME trace' = trace, Queues', NEW g, g = lane', NEW D, D = Delivered',
         NEW r, r = retired', NEW c, c = Base', Fits(g, D, r, c),
         shadow' = Astray(g), NoTwice(g), blk_seen' \/ Begins(g, c + 1),
         done' => LaneDone(g), left' => done'
  PROVE  IInv'
<1>1. LaneInv(lane, Base)'
  BY LaneNext DEF Fits
<1>2. InFlight(lane)'
  BY DEF Fits, InFlight, Numbered, ResumeOf, BlockOf
<1>3. RetiredCorrect'
  BY DEF Fits, RetiredCorrect, ResumeOf
<1>4. (shadow <=> Astray(lane))' /\ NoTwice(lane)'
  <2>1. Astray(lane)' = Astray(g) /\ NoTwice(lane)' = NoTwice(g)
    BY DEF Astray, NoTwice
  <2> QED BY <2>1, Zenon
<1>5. (blk_seen \/ Begins(lane, Base + 1))'
  <2>1. Begins(g, c + 1) => Begins(lane, Base + 1)'
    BY DEF Begins, ResumeOf, Shadow
  <2> QED BY <2>1
<1>6. (done => LaneDone(lane))'
  BY DEF LaneDone
<1> QED BY <1>1, <1>2, <1>3, <1>4, <1>5, <1>6 DEF IInv

\* The records there are, and where the lane goes on.
LEMMA ResumeBound ==
  ASSUME trace \in Traces, NEW l \in Lane, NEW b \in Nat, LaneInv(l, b)
  PROVE  /\ ResumeOf(l) \in 1..n_records+1
         /\ l.fstate = "CORRECT" => ResumeOf(l) = b + Len(l.stage) + 1
         /\ l.fstate # "CORRECT" => ResumeOf(l) = l.branch + 1 /\ l.branch \in 1..n_records
<1>1. PICK m \in Nat, R \in Nat, s \in Nat : m = n_records /\ R = ResumeOf(l) /\ s = Len(l.stage)
  <2>1. n_records \in Nat /\ ResumeOf(l) \in Nat /\ Len(l.stage) \in Nat
    BY ProgramTyped, ResumeType, LaneFields, LenProperties
  <2> QED BY <2>1
<1>2. CASE l.fstate = "CORRECT"
  <2>1. OnCorrect(l, b)
    BY <1>2, LaneLeft DEF LaneInv
  <2>2. R = b + s + 1 /\ R <= m + 1
    BY <1>1, <2>1 DEF OnCorrect, ResumeOf
  <2>3. R \in 1..m+1
    BY <2>2
  <2> QED BY <1>1, <1>2, <2>2, <2>3
<1>3. CASE l.fstate # "CORRECT"
  <2>1. InShadow(l, b)
    BY <1>3, LaneLeft DEF LaneInv
  <2>2. l.branch \in 1..n_records
    BY <2>1 DEF LaneInv, BranchKept, InShadow
  <2>3. ResumeOf(l) = l.branch + 1
    BY <2>1 DEF InShadow, ResumeOf
  <2>4. ResumeOf(l) \in 1..n_records+1
    <3>1. PICK p \in 1..m : p = l.branch
      BY <1>1, <2>2
    <3>2. p + 1 \in 1..m+1
      OBVIOUS
    <3> QED BY <1>1, <2>3, <3>1, <3>2
  <2> QED BY <1>3, <2>2, <2>3, <2>4
<1> QED BY <1>2, <1>3

\* A numbered uop is a record of the program or of the branch's shadow.
LEMMA NumberedTyped ==
  ASSUME trace \in Traces, NEW l \in Lane, NEW b \in Nat, LaneInv(l, b),
         NEW k \in Nat, k > 0, k <= b + Len(l.stage),
         NEW x \in Staged, Numbered(l, x, k), NEW R \in Nat, R = ResumeOf(l)
  PROVE  /\ x.rec \in 1..n_records
         /\ OnWrongPath(x) <=> ~(k < R)
         /\ k < R => k \in 1..n_records /\ x.rec = k /\ x.fe = BlockOf(k)
         /\ ~(k < R) => x.rec = l.branch /\ x.off = k - R + 1 /\ l.fstate # "CORRECT"
<1>1. PICK m \in Nat, s \in Nat : m = n_records /\ s = Len(l.stage)
  <2>1. n_records \in Nat /\ Len(l.stage) \in Nat
    BY ProgramTyped, LaneFields, LenProperties
  <2> QED BY <2>1
<1>2. R \in 1..m+1 /\ (l.fstate = "CORRECT" => R = b + s + 1)
  BY <1>1, ResumeBound
<1>3. CASE k < R
  <2>1. x.off = 0 /\ x.rec = k /\ x.fe = BlockOf(k)
    BY <1>3 DEF Numbered
  <2>2. k \in 1..m
    BY <1>2, <1>3
  <2> QED BY <1>1, <1>3, <2>1, <2>2 DEF OnWrongPath
<1>4. CASE ~(k < R)
  <2>1. x.off = k - R + 1 /\ x.rec = l.branch
    BY <1>4 DEF Numbered
  <2>2. k - R + 1 > 0
    BY <1>4
  <2>3. l.fstate # "CORRECT"
    BY <1>1, <1>2, <1>4
  <2>4. l.branch \in 1..n_records
    BY <2>3, ResumeBound
  <2> QED BY <1>4, <2>1, <2>2, <2>3, <2>4 DEF OnWrongPath
<1> QED BY <1>3, <1>4

\* The bubbles of what is staged.
LEMMA StagedBubbles ==
  ASSUME trace \in Traces, NEW l \in Lane, NEW b \in Nat, LaneInv(l, b),
         NEW i \in 1..Len(l.stage)
  PROVE  Event(l.stage[i]).bubbles \in 0..3
<1>1. PICK s \in Nat, R \in Nat : s = Len(l.stage) /\ R = ResumeOf(l)
  <2>1. Len(l.stage) \in Nat /\ ResumeOf(l) \in Nat
    BY ResumeType, LaneFields, LenProperties
  <2> QED BY <2>1
<1>2. PICK x \in Staged : x = l.stage[i]
  BY LaneFields, ElementOfSeq
<1>3. PICK k \in Nat : k = b + i /\ k > 0 /\ k <= b + s
  <2>1. b + i \in Nat /\ b + i > 0 /\ b + i <= b + s
    BY <1>1
  <2> QED BY <2>1
<1>4. Numbered(l, x, k)
  BY <1>2, <1>3 DEF LaneInv, StageNumbered
<1>5. /\ OnWrongPath(x) <=> ~(k < R)
      /\ k < R => k \in 1..n_records /\ x.fe = BlockOf(k)
  BY <1>1, <1>3, <1>4, NumberedTyped
<1>6. CASE OnWrongPath(x)
  <2>1. WrongEvent \in FeEvent
    BY TraceAssumption
  <2> QED BY <1>2, <1>6, <2>1 DEF Event, FeEvent
<1>7. CASE ~OnWrongPath(x)
  BY <1>2, <1>5, <1>7, EventTyped DEF Event
<1> QED BY <1>6, <1>7
----------------------------------------------------------------------------
(* A cycle.                                                                *)

\* What a cycle does, l being the lane whose window is shown and n the number
\* of records taken of it.
CycleIs(room, k, l, win, n) ==
  /\ l = Window(lane) /\ win = Shown(l) /\ n = n_in(win, room)
  /\ room <= BE_N - Len(be) /\ Retirable(k) /\ Retire(k)
  /\ be' = Behind(k, n_out(room)) /\ dq' = Fetched(win, n_out(room), n)
  /\ FrontCycle(win, room)
  /\ \E t \in {Taken(l, IF done THEN 0 ELSE n)} :
        lane' = IF mis_now(win, room) /\ ~done THEN Redirected(t, TRUE) ELSE t
  /\ Checked /\ UNCHANGED trace

LEMMA CycleUnfolds ==
  ASSUME NEW k, NEW room, Cycle(room, k)
  PROVE  \E l, win, n : CycleIs(room, k, l, win, n)
<1>1. PICK l : l = Window(lane)
  OBVIOUS
<1>2. PICK win : win = Shown(l)
  OBVIOUS
<1>3. PICK n : n = n_in(win, room)
  OBVIOUS
<1>4. CycleIs(room, k, l, win, n)
  BY <1>1, <1>2, <1>3 DEF Cycle, CycleIs, FrontCycle, Behind, Fetched
<1> QED BY <1>4

LEMMA CycleTyped ==
  ASSUME IInv, NEW k \in 0..Len(be), NEW room \in 0..W, NEW l, NEW win, NEW n,
         CycleIs(room, k, l, win, n)
  PROVE  /\ l \in Lane /\ LaneInv(l, Base) /\ win \in Seq(Staged) /\ Base \in Nat
         /\ n \in Nat /\ n <= Len(win) /\ n <= Len(l.stage)
         /\ \A i \in 1..n : win[i] = l.stage[i]
         /\ Queues /\ retired \in Nat /\ ResumeOf(lane) \in Nat
<1>1. Queues /\ LaneInv(lane, Base)
  BY DEF IInv
<1>2. l \in Lane /\ LaneInv(l, Base)
  BY WindowKeeps DEF CycleIs, LaneInv
<1>3. PICK p \in Nat, s \in Nat : p = Len(win) /\ s = Len(l.stage)
  <2>1. Len(win) \in Nat /\ Len(l.stage) \in Nat
    BY <1>2, ShownIs, LaneFields, LenProperties DEF CycleIs
  <2> QED BY <2>1
<1>4. win \in Seq(Staged) /\ p <= s /\ \A i \in 1..p : win[i] = l.stage[i]
  BY <1>2, <1>3, ShownIs DEF CycleIs
<1>5. n \in Nat /\ n <= p
  BY <1>1, <1>3, <1>4, TakenTyped DEF CycleIs
<1>6. Base \in Nat
  <2>1. Delivered \in Seq(Staged)
    BY <1>1, ConcatProperties DEF Queues, Delivered
  <2>2. PICK d \in Nat, r \in Nat : d = Len(Delivered) /\ r = retired
    BY <1>1, <2>1, LenProperties DEF Queues
  <2> QED BY <2>2 DEF Base
<1>7. retired \in Nat /\ ResumeOf(lane) \in Nat
  BY <1>1, ResumeType DEF Queues, LaneInv
<1>8. n <= s /\ \A i \in 1..n : i \in 1..p
  BY <1>3, <1>4, <1>5
<1> QED BY <1>1, <1>2, <1>3, <1>4, <1>5, <1>6, <1>7, <1>8

\* The queues, and what is in flight, D behind record r: m uops of those there
\* were and the n taken.
Flies(D, r, k, win, n, m) ==
  /\ r + m = Base /\ Len(D) = m + n /\ k + m = Len(Delivered)
  /\ \A i \in 1..m : D[i] = Delivered[k+i]
  /\ \A j \in 1..n : D[m+j] = win[j]

LEMMA CycleFlight ==
  ASSUME IInv, NEW k \in 0..Len(be), NEW room \in 0..W, NEW l, NEW win, NEW n,
         CycleIs(room, k, l, win, n)
  PROVE  /\ be' \in Seq(Staged) /\ dq' \in Seq(Staged) /\ Len(be') <= BE_N /\ Len(dq') <= DQ_N
         /\ Delivered' \in Seq(Staged)
         /\ \E m \in Nat : Flies(Delivered', retired', k, win, n, m)
         /\ Len(dq') \in Nat /\ n <= Len(dq')
         /\ Delivered' = be' \o dq' /\ Len(Delivered') = Len(be') + Len(dq')
         /\ retired' = retired + k /\ retired' \in Nat /\ retired' < ResumeOf(lane)
<1>1. /\ l \in Lane /\ win \in Seq(Staged) /\ n \in Nat /\ n <= Len(win)
      /\ Queues /\ retired \in Nat /\ ResumeOf(lane) \in Nat
  BY CycleTyped
<1>2. PICK a \in Nat, c \in Nat, w \in Nat : a = Len(be) /\ c = Len(dq) /\ w = Len(win)
  <2>1. Len(be) \in Nat /\ Len(dq) \in Nat /\ Len(win) \in Nat
    BY <1>1, LenProperties DEF Queues
  <2> QED BY <2>1
<1>3. PICK o \in Nat : o = n_out(room) /\ o <= c /\ o <= room
  BY <1>1, <1>2, PresentedTyped
<1>4. k \in 0..a /\ o \in 0..c /\ n \in 0..w
  BY <1>1, <1>2, <1>3
<1>5. PICK m \in Nat : m = (a + c) - k
  <2>1. (a + c) - k \in Nat
    BY <1>4
  <2> QED BY <2>1
<1>6. PICK B, D : B = be' /\ D = dq'
  OBVIOUS
<1>7. B = Behind(k, o) /\ D = Fetched(win, o, n)
  BY <1>3, <1>6 DEF CycleIs
<1>8. /\ B \in Seq(Staged) /\ Len(B) = (a - k) + o
      /\ D \in Seq(Staged) /\ Len(D) = (c - o) + n
      /\ B \o D \in Seq(Staged) /\ Len(B \o D) = m + n
      /\ \A i \in 1..m : (B \o D)[i] = Delivered[k+i]
      /\ \A j \in 1..n : (B \o D)[m+j] = win[j]
  <2>1. PICK v \in Seq(Staged) : v = win
    BY <1>1
  <2>2. a = Len(be) /\ c = Len(dq) /\ w = Len(v) /\ Queues
    BY <1>1, <1>2, <2>1
  <2>3. D = Fetched(v, o, n)
    BY <1>7, <2>1
  <2>4. MovesUp(B, D, v, a, c, k, o, n, m)
    BY <1>4, <1>5, <1>7, <2>2, <2>3, FlightMoves
  <2> QED BY <2>1, <2>4 DEF MovesUp
<1>9. Delivered' = B \o D
  BY <1>6 DEF Delivered
<1>10. Len(B) <= BE_N
  <2>1. PICK e \in Nat : e = BE_N /\ room + a <= e
    BY <1>2, <1>4, BackAssumption DEF CycleIs
  <2>2. (a - k) + o <= e
    BY <1>3, <1>4, <2>1
  <2> QED BY <1>8, <2>1, <2>2
<1>11. Len(D) <= DQ_N
  <2>1. (Len(dq) - n_out(room)) + n_in(win, room) <= DQ_N
    BY <1>1, TakenTyped
  <2> QED BY <1>2, <1>3, <1>8, <2>1 DEF CycleIs
<1>17. Len(dq') \in Nat /\ n <= Len(dq') /\ Len(Delivered') = Len(be') + Len(dq')
  <2>1. (a - k) + o \in Nat /\ (c - o) + n \in Nat /\ n <= (c - o) + n
        /\ m + n = ((a - k) + o) + ((c - o) + n)
    BY <1>3, <1>4, <1>5
  <2> QED BY <1>6, <1>8, <1>9, <2>1
<1>12. PICK r \in Nat, R \in Nat : r = retired /\ R = ResumeOf(lane)
  BY <1>1
<1>13. retired' = r + k /\ r + k < R
  <2>1. k \in Nat /\ k <= Len(be) /\ Retirable(k) /\ Retire(k)
    BY <1>2, <1>4 DEF CycleIs
  <2> QED BY <1>12, <2>1, RetiresUpTo
<1>14. Base = r + (a + c) /\ Len(Delivered) = a + c
  <2>1. Len(Delivered) = a + c
    BY <1>1, <1>2, Joined DEF Queues, Delivered
  <2> QED BY <1>12, <2>1 DEF Base
<1>15. (r + k) + m = r + (a + c) /\ k + m = a + c /\ r + k \in Nat
  BY <1>4, <1>5
<1>16. Flies(Delivered', retired', k, win, n, m)
  <2>1. Flies(B \o D, r + k, k, win, n, m)
    BY <1>8, <1>14, <1>15 DEF Flies
  <2> QED BY <1>9, <1>13, <2>1
<1> QED BY <1>6, <1>8, <1>9, <1>10, <1>11, <1>12, <1>13, <1>15, <1>16, <1>17
\* What the cycle has taken fits what is in flight, before a redirect.
LEMMA CycleTakes ==
  ASSUME IInv, NEW k \in 0..Len(be), NEW room \in 0..W, NEW l, NEW win, NEW n,
         CycleIs(room, k, l, win, n), NEW t, t = Taken(l, n),
         NEW D, D = Delivered', NEW r, r = retired', NEW c, c = Base + n
  PROVE  /\ Fits(t, D, r, c) /\ c = Base' /\ c \in Nat /\ Books(t) = Books(lane)
         /\ t.fstate = "CORRECT" <=> lane.fstate = "CORRECT"
         /\ blk_seen' \/ Begins(t, c + 1)
         /\ mis_now(win, room) => t.fstate = "CORRECT" /\ HasBranch(t, c)
         /\ done => n = 0 /\ LaneDone(t)
<1>1. /\ l \in Lane /\ LaneInv(l, Base) /\ win \in Seq(Staged) /\ Base \in Nat
      /\ n \in Nat /\ n <= Len(win) /\ n <= Len(l.stage)
      /\ \A i \in 1..n : win[i] = l.stage[i]
      /\ Queues
  BY CycleTyped
<1>2. trace \in Traces /\ n = n_in(win, room) /\ win = Shown(l) /\ l = Window(lane)
  BY <1>1 DEF Queues, CycleIs
<1>3. PICK b \in Nat : b = Base
  BY <1>1
<1>4. PICK s \in Nat, p \in Nat : s = Len(l.stage) /\ p = Len(win)
  <2>1. Len(l.stage) \in Nat /\ Len(win) \in Nat
    BY <1>1, LaneFields, LenProperties
  <2> QED BY <2>1
<1>5. n = AsManyAs(n, s)
  BY <1>1, <1>4 DEF AsManyAs
<1>6. /\ LaneInv(t, b + n) /\ ResumeOf(t) = ResumeOf(l)
      /\ Len(t.stage) = s - n
  BY <1>1, <1>2, <1>3, <1>4, <1>5, TakenKeeps
<1>7. Books(t) = Books(l) /\ t.fstate = l.fstate /\ t.eof = l.eof
  BY <1>1, <1>4, <1>5, TakenFields
<1>8. t.branch = l.branch
  BY <1>7 DEF Books
<1>9. /\ Books(l) = Books(lane) /\ KeepsNumbers(lane, l, Base)
      /\ lane.eof => l = lane
  BY <1>2, WindowKeeps
<1>10. \A x, q : Numbered(l, x, q) => Numbered(t, x, q)
  BY <1>6, <1>8 DEF Numbered
<1>11. \A q : Begins(l, q) => Begins(t, q)
  BY <1>6, <1>7, <1>8 DEF Begins
<1>12. PICK m \in Nat :
         /\ r + m = b /\ Len(D) = m + n /\ k + m = Len(Delivered)
         /\ \A i \in 1..m : D[i] = Delivered[k+i]
         /\ \A j \in 1..n : D[m+j] = win[j]
  <2>1. PICK m \in Nat : Flies(D, r, k, win, n, m)
    BY CycleFlight
  <2> QED BY <1>3, <2>1 DEF Flies
<1>13. r = retired + k /\ r \in Nat /\ retired \in Nat /\ k \in Nat /\ r < ResumeOf(lane)
  <2>1. r = retired + k /\ r \in Nat /\ r < ResumeOf(lane)
    BY CycleFlight
  <2> QED BY <1>1, <2>1 DEF Queues
<1>14. c = Base' /\ c \in Nat /\ c = b + n
  BY <1>1, <1>3, <1>12, <1>13 DEF Base
<1>15. \A i \in 1..Len(D) : Numbered(t, D[i], r + i)
  <2> TAKE i \in 1..Len(D)
  <2>1. i \in 1..m+n
    BY <1>12
  <2>2. CASE i <= m
    <3>1. PICK q \in 1..Len(Delivered) : q = k + i /\ retired + q = r + i
      <4>1. k + i \in 1..k+m /\ retired + (k + i) = (retired + k) + i
        BY <1>13, <2>1, <2>2
      <4> QED BY <1>12, <1>13, <4>1
    <3>2. Numbered(lane, D[i], r + i)
      <4>1. D[i] = Delivered[q]
        BY <1>12, <2>1, <2>2, <3>1
      <4> QED BY <3>1, <4>1 DEF IInv, InFlight
    <3>3. PICK z \in 1..b : z = r + i
      <4>1. r + i \in 1..b
        BY <1>12, <1>13, <2>1, <2>2
      <4> QED BY <4>1
    <3>4. Numbered(l, D[i], z)
      BY <1>3, <1>9, <3>2, <3>3 DEF KeepsNumbers
    <3> QED BY <1>10, <3>3, <3>4
  <2>3. CASE m < i
    <3>1. PICK j \in 1..n : i = m + j /\ r + i = b + j
      <4>1. i - m \in 1..n /\ i = m + (i - m) /\ r + i = b + (i - m)
        BY <1>1, <1>12, <1>13, <2>1, <2>3
      <4> QED BY <4>1
    <3>2. j \in 1..Len(l.stage)
      BY <1>1, <1>4
    <3>3. D[i] = l.stage[j]
      BY <1>1, <1>12, <3>1
    <3>4. Numbered(l, l.stage[j], b + j)
      BY <1>1, <1>3, <3>2 DEF LaneInv, StageNumbered
    <3> QED BY <1>10, <3>1, <3>3, <3>4
  <2>4. i <= m \/ m < i
    BY <2>1
  <2> QED BY <2>2, <2>3, <2>4
<1>16. Fits(t, D, r, c)
  <2>1. PICK R \in Nat, Q \in Nat : R = ResumeOf(lane) /\ Q = ResumeOf(l)
    BY <1>1, ResumeType DEF IInv, LaneInv
  <2>2. r < R /\ R <= Q
    BY <1>9, <1>13, <2>1 DEF KeepsNumbers
  <2>3. r < Q
    BY <1>13, <2>2
  <2> QED BY <1>6, <1>14, <1>15, <2>1, <2>3 DEF Fits
<1>17. t.fstate = "CORRECT" <=> lane.fstate = "CORRECT"
  BY <1>7, <1>9 DEF KeepsNumbers
<1>18. blk_seen' \/ Begins(t, c + 1)
  <2>1. CASE blk_end_taken(win, room)
    <3>1. n \in 1..Len(win) /\ BlkEnd(win[n])
      BY <1>1, <1>2, <2>1, EndTaken
    <3>2. n \in 1..Len(l.stage) /\ BlkEnd(l.stage[n])
      <4>1. n \in 1..n /\ n \in 1..s
        BY <1>1, <1>4, <3>1
      <4> QED BY <1>1, <1>4, <3>1, <4>1
    <3>3. Begins(l, b + n + 1)
      BY <1>1, <1>2, <1>3, <3>2, EndBegins
    <3> QED BY <1>11, <1>14, <3>3
  <2>2. CASE ~blk_seen /\ win = <<>>
    <3>1. n = 0
      <4>1. Len(win) = 0
        BY <2>2, EmptySeq
      <4> QED BY <1>1, <4>1
    <3>2. Begins(l, Base + 1)
      BY <1>9, <2>2 DEF IInv, KeepsNumbers
    <3>3. c + 1 = Base + 1
      BY <1>3, <1>14, <3>1
    <3> QED BY <1>11, <3>2, <3>3
  <2>3. blk_seen' = (~blk_end_taken(win, room) /\ (blk_seen \/ win # <<>>))
    BY DEF CycleIs, FrontCycle
  <2> QED BY <2>1, <2>2, <2>3
<1>19. ASSUME mis_now(win, room)
       PROVE  t.fstate = "CORRECT" /\ HasBranch(t, c)
  <2>1. lane.fstate = "CORRECT"
    BY <1>19 DEF IInv, mis_now, Astray
  <2>2. l.fstate = "CORRECT"
    BY <1>7, <1>17, <2>1
  <2>3. HasBranch(t, b + n)
    BY <1>1, <1>2, <1>3, <1>19, <2>2, TakesBranch
  <2> QED BY <1>7, <1>14, <2>2, <2>3
<1>20. ASSUME done
       PROVE  n = 0 /\ LaneDone(t)
  <2>1. lane.eof /\ lane.stage = <<>> /\ lane.fstate = "CORRECT"
    BY <1>20 DEF IInv, LaneDone
  <2>2. l = lane /\ s = 0
    BY <1>4, <1>9, <2>1, EmptySeq
  <2>3. n = 0
    BY <1>1, <1>4, <2>2
  <2>4. t.stage = <<>>
    <3>1. t.stage \in Seq(Staged) /\ Len(t.stage) = 0
      BY <1>6, <2>2, <2>3, LaneFields DEF LaneInv
    <3> QED BY <3>1, EmptySeq
  <2> QED BY <1>7, <2>1, <2>2, <2>3, <2>4 DEF LaneDone
<1> QED BY <1>7, <1>9, <1>14, <1>16, <1>17, <1>18, <1>19, <1>20
\* A redirect: what is in flight keeps its numbers, and the lane does not turn
\* back.  It stays where it is when the branch taken last has no shadow.
Into(t, g, c) ==
  /\ g.fstate # "CORRECT" /\ g.n_nobranch = t.n_nobranch
  /\ t.branch < g.branch /\ t.hi_resume < g.hi_resume /\ c <= g.branch
DropsIt(t, g, c) ==
  /\ g.fstate = "CORRECT" /\ g.n_nobranch = t.n_nobranch + 1
  /\ g.n_enter = t.n_enter /\ Shadow(c) = <<>>
SentOff(t, g, D, r, c) ==
  /\ Fits(g, D, r, c)
  /\ Begins(t, c + 1) => Begins(g, c + 1)
  /\ g.n_resolved = t.n_resolved /\ g.n_leave = t.n_leave
  /\ Into(t, g, c) \/ DropsIt(t, g, c)

LEMMA RedirectDropped ==
  ASSUME trace \in Traces, NEW t, NEW D, NEW r \in Nat, NEW d \in Nat, d = Len(D),
         NEW c \in Nat, c = r + d, Fits(t, D, r, c),
         t.fstate = "CORRECT", HasBranch(t, c), NEW g, g = Redirected(t, TRUE),
         StagedBranches(t) = {}, Shadow(c) = <<>>
  PROVE  SentOff(t, g, D, r, c)
<1>1. t \in Lane /\ LaneInv(t, c)
  BY DEF Fits, LaneInv
<1>2. PICK e : e = Enter(t)
  OBVIOUS
<1>3. Stays(t, e, c)
  BY <1>1, <1>2, EnterNone
<1>4. e \in Lane /\ LaneInv(e, c) /\ e.fstate = "CORRECT"
  BY <1>3 DEF Stays, LaneInv
<1>5. g = Gather(e)
  BY <1>2 DEF Redirected
<1>6. LaneInv(g, c) /\ Books(g) = Books(e) /\ KeepsNumbers(e, g, c)
  BY <1>4, <1>5, GatherKeeps
<1>7. \A i \in 1..Len(D) : Numbered(g, D[i], r + i)
  <2> TAKE i \in 1..Len(D)
  <2>1. PICK q \in 1..c : q = r + i
    <3>1. r + i \in 1..c
      OBVIOUS
    <3> QED BY <3>1
  <2>2. Numbered(t, D[i], q)
    BY <2>1 DEF Fits
  <2>3. Numbered(e, D[i], q)
    BY <1>3, <2>2 DEF Stays, Numbered
  <2>4. Numbered(g, D[i], q)
    BY <1>6, <2>3 DEF KeepsNumbers
  <2> QED BY <2>1, <2>4
<1>8. r < ResumeOf(g)
  <2>1. PICK R \in Nat, Q \in Nat : R = ResumeOf(e) /\ Q = ResumeOf(g)
    BY <1>4, <1>6, ResumeType DEF LaneInv
  <2>2. r < R /\ R <= Q
    BY <1>3, <1>6, <2>1 DEF Fits, Stays, KeepsNumbers
  <2>3. r < Q
    BY <2>2
  <2> QED BY <2>1, <2>3
<1>9. Begins(t, c + 1) => Begins(g, c + 1)
  <2>1. Begins(t, c + 1) => Begins(e, c + 1)
    BY <1>3 DEF Stays, Begins
  <2> QED BY <1>6, <2>1 DEF KeepsNumbers
<1>10. g.fstate = "CORRECT"
  BY <1>4, <1>6 DEF KeepsNumbers
<1>11. /\ g.n_enter = t.n_enter /\ g.n_leave = t.n_leave
       /\ g.n_nobranch = t.n_nobranch + 1 /\ g.n_resolved = t.n_resolved
  BY <1>3, <1>6 DEF Books, Stays
<1> QED BY <1>6, <1>7, <1>8, <1>9, <1>10, <1>11 DEF Fits, SentOff, DropsIt

LEMMA RedirectFits ==
  ASSUME trace \in Traces, NEW t, NEW D, NEW r \in Nat, NEW d \in Nat, d = Len(D),
         NEW c \in Nat, c = r + d, Fits(t, D, r, c),
         t.fstate = "CORRECT", HasBranch(t, c), NEW g, g = Redirected(t, TRUE),
         StagedBranches(t) # {} \/ Shadow(c) # <<>>
  PROVE  SentOff(t, g, D, r, c)
<1>1. t \in Lane /\ LaneInv(t, c)
  BY DEF Fits, LaneInv
<1>2. PICK e : e = Enter(t)
  OBVIOUS
<1>3. Turned(t, e, c)
  <2>1. CASE StagedBranches(t) = {}
    BY <1>1, <1>2, <2>1, EnterConsumed
  <2>2. CASE StagedBranches(t) # {}
    BY <1>1, <1>2, <2>2, EnterStaged
  <2> QED BY <2>1, <2>2
<1>4. e \in Lane /\ LaneInv(e, c) /\ e.fstate = "SHADOW"
  BY <1>3 DEF Turned, LaneInv
<1>5. g = Gather(e)
  BY <1>2 DEF Redirected
<1>6. LaneInv(g, c) /\ Books(g) = Books(e) /\ KeepsNumbers(e, g, c)
  BY <1>4, <1>5, GatherKeeps
<1>7. \A i \in 1..Len(D) : Numbered(g, D[i], r + i)
  <2> TAKE i \in 1..Len(D)
  <2>1. PICK q \in 1..c : q = r + i
    <3>1. r + i \in 1..c
      OBVIOUS
    <3> QED BY <3>1
  <2>2. Numbered(t, D[i], q)
    BY <2>1 DEF Fits
  <2>3. Numbered(e, D[i], q)
    BY <1>3, <2>2 DEF Turned
  <2>4. Numbered(g, D[i], q)
    BY <1>6, <2>3 DEF KeepsNumbers
  <2> QED BY <2>1, <2>4
<1>8. r < ResumeOf(g)
  <2>1. PICK R \in Nat, Q \in Nat : R = ResumeOf(e) /\ Q = ResumeOf(g)
    BY <1>4, <1>6, ResumeType DEF LaneInv
  <2>2. c < R /\ R <= Q
    BY <1>3, <1>6, <2>1 DEF Turned, KeepsNumbers
  <2>3. r < Q
    BY <2>2
  <2> QED BY <2>1, <2>3
<1>9. Begins(t, c + 1) => Begins(g, c + 1)
  BY <1>3, <1>6 DEF Turned, KeepsNumbers
<1>10. g.fstate # "CORRECT"
  BY <1>4, <1>6 DEF KeepsNumbers
<1>11. /\ g.branch = e.branch /\ g.hi_resume = e.hi_resume /\ g.n_leave = e.n_leave
       /\ g.n_nobranch = e.n_nobranch /\ g.n_resolved = e.n_resolved
  BY <1>6 DEF Books
<1>12. /\ t.branch < e.branch /\ t.hi_resume < e.hi_resume /\ c <= e.branch
       /\ e.n_nobranch = t.n_nobranch /\ e.n_resolved = t.n_resolved /\ e.n_leave = t.n_leave
  BY <1>3 DEF Turned
<1> QED BY <1>6, <1>7, <1>8, <1>9, <1>10, <1>11, <1>12 DEF Fits, SentOff, Into

\* What NeverTurnsBack says of a step.
Onward ==
  /\ lane'.n_enter > lane.n_enter =>
       /\ lane'.branch > lane.branch
       /\ lane'.hi_resume > lane.hi_resume
       /\ lane'.branch >= LastFetched'
  /\ lane'.n_nobranch > lane.n_nobranch => Shadow(LastFetched)' = <<>>
  /\ lane'.n_leave > lane.n_leave => retired' = lane.branch
  /\ lane'.n_resolved = lane.n_resolved

\* When the end of a mispredicted block has been taken, it is what came last.
LEMMA TakenLast ==
  ASSUME IInv, NEW k \in 0..Len(be), NEW room \in 0..W, NEW l, NEW win, NEW n,
         CycleIs(room, k, l, win, n), NEW t, t = Taken(l, n), mis_now(win, room),
         NEW c, c = Base + n
  PROVE  LastFetched' = c
<1>1. PICK D, r : D = Delivered' /\ r = retired'
  OBVIOUS
<1>2. /\ Fits(t, D, r, c) /\ c = Base' /\ c \in Nat
      /\ t.fstate = "CORRECT"
  BY <1>1, CycleTakes
<1>3. /\ be' \in Seq(Staged) /\ dq' \in Seq(Staged) /\ D \in Seq(Staged) /\ r \in Nat
      /\ n <= Len(dq') /\ D = be' \o dq' /\ Len(D) = Len(be') + Len(dq')
  BY <1>1, CycleFlight
<1>4. n \in Nat /\ n # 0 /\ trace \in Traces
  BY CycleTyped DEF mis_now, blk_end_taken, CycleIs, Queues
<1>5. PICK B \in Seq(Staged), Q \in Seq(Staged) : B = be' /\ Q = dq'
  BY <1>3
<1>6. PICK p \in Nat, q \in Nat : p = Len(B) /\ q = Len(Q) /\ q > 0
  <2>1. Len(B) \in Nat /\ Len(Q) \in Nat
    BY LenProperties
  <2> QED BY <1>3, <1>4, <1>5, <2>1
<1>7. PICK d \in 1..Len(D) : d = p + q /\ c = r + d
  <2>1. Len(D) = p + q /\ p + q \in 1..p+q
    BY <1>3, <1>5, <1>6
  <2>2. c = r + (p + q)
    BY <1>1, <1>2, <2>1 DEF Base
  <2> QED BY <2>1, <2>2
<1>8. D[d] = Q[q]
  <2>1. q \in 1..q
    BY <1>6
  <2>2. (B \o Q)[p+q] = Q[q]
    BY <1>6, <2>1, Joined
  <2> QED BY <1>3, <1>5, <1>7, <2>2
<1>9. D[d].rec = c
  <2>1. Numbered(t, D[d], c)
    BY <1>2, <1>7 DEF Fits
  <2>2. t \in Lane /\ LaneInv(t, c)
    BY <1>2 DEF Fits, LaneInv
  <2>3. PICK s \in Nat : s = Len(t.stage)
    BY <2>2, LaneFields, LenProperties
  <2>4. ResumeOf(t) = c + s + 1
    BY <1>2, <1>4, <2>2, <2>3, ResumeBound
  <2>5. c < c + s + 1
    BY <1>2
  <2> QED BY <2>1, <2>4, <2>5 DEF Numbered
<1> QED BY <1>5, <1>6, <1>8, <1>9 DEF LastFetched

LEMMA CycleBubbles ==
  ASSUME IInv, NEW k \in 0..Len(be), NEW room \in 0..W, NEW l, NEW win, NEW n,
         CycleIs(room, k, l, win, n)
  PROVE  bub' \in 0..3
<1>1. /\ l \in Lane /\ LaneInv(l, Base) /\ win \in Seq(Staged) /\ Base \in Nat /\ Queues
  BY CycleTyped
<1>2. trace \in Traces /\ win = Shown(l) /\ bub \in 0..3
  BY <1>1 DEF Queues, CycleIs
<1>3. eff_bub(win) \in 0..3
  <2>1. CASE ~blk_seen /\ win # <<>>
    <3>1. Len(win) \in Nat /\ Len(win) # 0
      BY <1>1, <2>1, LenProperties, EmptySeq
    <3>2. 1 \in 1..Len(win)
      BY <3>1
    <3>3. win[1] = l.stage[1] /\ Len(win) <= Len(l.stage)
      BY <1>1, <1>2, <3>2, ShownIs
    <3>4. 1 \in 1..Len(l.stage)
      <4>1. Len(l.stage) \in Nat
        BY <1>1, LaneFields, LenProperties
      <4> QED BY <3>1, <3>3, <4>1
    <3>5. Event(l.stage[1]).bubbles \in 0..3
      BY <1>1, <1>2, <3>4, StagedBubbles
    <3> QED BY <2>1, <3>3, <3>5 DEF eff_bub
  <2>2. CASE ~(~blk_seen /\ win # <<>>)
    BY <1>2, <2>2 DEF eff_bub
  <2> QED BY <2>1, <2>2
<1>4. PICK x \in 0..3 : x = eff_bub(win)
  BY <1>3
<1>5. bub' = IF x # 0 THEN x - 1 ELSE 0
  BY <1>4 DEF CycleIs, FrontCycle
<1> QED BY <1>5
\* The check at the end of a turn of the loop.
LEMMA CheckedIs ==
  ASSUME Queues, Checked, left => done
  PROVE  /\ done' \in BOOLEAN /\ left' \in BOOLEAN
         /\ done' => done \/ LaneDone(lane')
         /\ left' => done'
<1>1. done \in BOOLEAN /\ left \in BOOLEAN
  BY DEF Queues
<1>2. CASE UNCHANGED loopVars
  <2>1. done' = done /\ left' = left
    BY <1>2 DEF loopVars
  <2> QED BY <1>1, <2>1, Zenon
<1>3. ASSUME NEW others_done \in BOOLEAN,
             done' = (done \/ LaneDone(lane') \/ m_done), left' = (done' /\ others_done)
      PROVE  /\ done' \in BOOLEAN /\ left' \in BOOLEAN
             /\ done' => done \/ LaneDone(lane')
             /\ left' => done'
  BY <1>3, Zenon DEF m_done
<1> QED BY <1>2, <1>3 DEF Checked

LEMMA CycleKeeps ==
  ASSUME IInv, NEW k \in 0..Len(be), NEW room \in 0..W, Cycle(room, k)
  PROVE  IInv' /\ Onward
<1>1. PICK l, win, n : CycleIs(room, k, l, win, n)
  BY CycleUnfolds
<1>2. PICK t : t = Taken(l, n)
  OBVIOUS
<1>3. PICK D, r, c, g : D = Delivered' /\ r = retired' /\ c = Base + n /\ g = lane'
  OBVIOUS
<1>4. /\ Fits(t, D, r, c) /\ c = Base' /\ c \in Nat /\ Books(t) = Books(lane)
      /\ t.fstate = "CORRECT" <=> lane.fstate = "CORRECT"
      /\ blk_seen' \/ Begins(t, c + 1)
      /\ mis_now(win, room) => t.fstate = "CORRECT" /\ HasBranch(t, c)
      /\ done => n = 0 /\ LaneDone(t)
  BY <1>1, <1>2, <1>3, CycleTakes
<1>5. /\ be' \in Seq(Staged) /\ dq' \in Seq(Staged) /\ Len(be') <= BE_N /\ Len(dq') <= DQ_N
      /\ D \in Seq(Staged) /\ r \in Nat
  BY <1>1, <1>3, CycleFlight
<1>6. trace \in Traces /\ trace' = trace /\ Queues
  BY <1>1 DEF IInv, Queues, CycleIs
<1>7. PICK d \in Nat : d = Len(D) /\ c = r + d
  <2>1. Len(D) \in Nat
    BY <1>5, LenProperties
  <2> QED BY <1>3, <1>4, <2>1 DEF Base
<1>8. mis_now(win, room) => ~done
  BY <1>1, <1>4 DEF mis_now, blk_end_taken, CycleIs
<1>9. g = IF mis_now(win, room) THEN Redirected(t, TRUE) ELSE t
  BY <1>1, <1>2, <1>3, <1>4, <1>8 DEF CycleIs
<1>10. Queues'
  <2>1. bub' \in 0..3
    BY <1>1, CycleBubbles
  <2>2. /\ blk_seen' = (~blk_end_taken(win, room) /\ (blk_seen \/ win # <<>>))
        /\ shadow' = (shadow \/ mis_now(win, room))
    BY <1>1 DEF CycleIs, FrontCycle
  <2>3. blk_seen' \in BOOLEAN /\ shadow' \in BOOLEAN
    BY <2>2, Zenon
  <2>4. done' \in BOOLEAN /\ left' \in BOOLEAN
    BY <1>1, <1>6, CheckedIs DEF CycleIs, IInv
  <2>5. trace' \in Traces /\ retired' \in Nat
    BY <1>3, <1>5, <1>6
  <2> QED BY <1>5, <2>1, <2>3, <2>4, <2>5 DEF Queues
<1>11. (done' => done \/ LaneDone(g)) /\ (left' => done')
  BY <1>1, <1>3, <1>6, CheckedIs DEF CycleIs, IInv
<1>12. shadow' = (shadow \/ mis_now(win, room))
  BY <1>1 DEF CycleIs, FrontCycle
<1>13. shadow = Astray(lane) /\ NoTwice(lane)
  <2>1. shadow \in BOOLEAN /\ (shadow <=> Astray(lane)) /\ Astray(lane) \in BOOLEAN
    BY DEF IInv, Queues, Astray
  <2> QED BY <2>1 DEF IInv
<1>20. /\ t.branch = lane.branch /\ t.hi_resume = lane.hi_resume
       /\ t.n_enter = lane.n_enter /\ t.n_leave = lane.n_leave
       /\ t.n_nobranch = lane.n_nobranch /\ t.n_resolved = lane.n_resolved
  BY <1>4 DEF Books
<1>21. lane.n_enter \in Nat /\ lane.n_leave \in Nat /\ lane.n_nobranch \in Nat
  BY LaneFields DEF IInv, LaneInv
<1>22. ~(lane.n_enter > lane.n_enter) /\ ~(lane.n_leave > lane.n_leave)
       /\ ~(lane.n_nobranch > lane.n_nobranch)
  BY <1>21
<1>14. CASE ~mis_now(win, room)
  <2>1. g = t
    BY <1>9, <1>14
  <2>2. shadow' = Astray(g) /\ NoTwice(g)
    <3>1. shadow' = shadow
      BY <1>6, <1>12, <1>14, Zenon DEF Queues
    <3>2. Astray(t) = Astray(lane)
      BY <1>4, <1>20 DEF Astray
    <3>3. NoTwice(t)
      BY <1>4, <1>13, <1>20 DEF NoTwice
    <3> QED BY <1>13, <2>1, <3>1, <3>2, <3>3
  <2>3. done' => LaneDone(g)
    BY <1>4, <1>11, <2>1
  <2>4. Fits(g, D, r, c) /\ (blk_seen' \/ Begins(g, c + 1))
    BY <1>4, <2>1
  <2>5. IInv'
    BY <1>3, <1>4, <1>6, <1>10, <1>11, <2>2, <2>3, <2>4, InvariantNext
  <2>6. Onward
    BY <1>3, <1>20, <1>22, <2>1 DEF Onward
  <2> QED BY <2>5, <2>6
<1>15. CASE mis_now(win, room)
  <2>1. g = Redirected(t, TRUE) /\ t.fstate = "CORRECT" /\ HasBranch(t, c)
    BY <1>4, <1>9, <1>15
  <2>2. /\ Fits(g, D, r, c)
        /\ Begins(t, c + 1) => Begins(g, c + 1)
        /\ g.n_resolved = t.n_resolved /\ g.n_leave = t.n_leave
        /\ Into(t, g, c) \/ DropsIt(t, g, c)
    <3>1. Fits(t, D, r, c) /\ c \in Nat /\ r \in Nat /\ trace \in Traces
      BY <1>4, <1>5, <1>6
    <3>2. SentOff(t, g, D, r, c)
      <4>1. CASE StagedBranches(t) = {} /\ Shadow(c) = <<>>
        BY <1>7, <2>1, <3>1, <4>1, RedirectDropped
      <4>2. CASE StagedBranches(t) # {} \/ Shadow(c) # <<>>
        BY <1>7, <2>1, <3>1, <4>2, RedirectFits
      <4> QED BY <4>1, <4>2
    <3> QED BY <3>2 DEF SentOff
  <2>8. lane.n_nobranch = 0
    <3>1. ~Astray(lane)
      BY <1>13, <1>15 DEF mis_now
    <3> QED BY <1>21, <3>1 DEF Astray
  <2>3. shadow' = Astray(g) /\ NoTwice(g)
    <3>1. shadow' = TRUE
      BY <1>12, <1>15, Zenon
    <3>2. (Astray(g) = TRUE) /\ NoTwice(g)
      <4>1. CASE Into(t, g, c)
        BY <1>20, <2>8, <4>1 DEF Into, Astray, NoTwice
      <4>2. CASE DropsIt(t, g, c)
        <5>1. g.n_nobranch = 1
          BY <1>20, <2>8, <4>2 DEF DropsIt
        <5> QED BY <4>2, <5>1 DEF DropsIt, Astray, NoTwice
      <4> QED BY <2>2, <4>1, <4>2
    <3> QED BY <3>1, <3>2
  <2>4. done' => LaneDone(g)
    BY <1>8, <1>11, <1>15
  <2>5. blk_seen' \/ Begins(g, c + 1)
    BY <1>4, <2>2
  <2>6. IInv'
    BY <1>3, <1>4, <1>6, <1>10, <1>11, <2>2, <2>3, <2>4, <2>5, InvariantNext
  <2>7. Onward
    <3>1. LastFetched' = c
      BY <1>1, <1>2, <1>3, <1>15, TakenLast
    <3>2. g.n_leave = lane.n_leave /\ g.n_resolved = lane.n_resolved
      BY <1>20, <2>2
    <3>3. CASE Into(t, g, c)
      <4>1. PICK x \in Nat, y \in Nat, u \in Nat, z \in Nat :
              x = lane.branch /\ y = lane.hi_resume /\ u = g.branch /\ z = g.hi_resume
        <5>1. lane \in Lane /\ g \in Lane
          BY <2>2 DEF IInv, LaneInv, Fits
        <5> QED BY <5>1, LaneFields
      <4>2. x < u /\ y < z /\ c <= u /\ g.n_nobranch = lane.n_nobranch
        BY <1>20, <3>3, <4>1 DEF Into
      <4>3. u > x /\ z > y /\ u >= c
        BY <1>4, <4>2
      <4> QED BY <1>3, <1>22, <3>1, <3>2, <4>1, <4>2, <4>3 DEF Onward
    <3>4. CASE DropsIt(t, g, c)
      <4>1. g.n_enter = lane.n_enter /\ Shadow(c) = <<>>
        BY <1>20, <3>4 DEF DropsIt
      <4>2. Shadow(LastFetched)' = <<>>
        BY <1>6, <3>1, <4>1 DEF Shadow
      <4> QED BY <1>3, <1>22, <3>2, <4>1, <4>2 DEF Onward
    <3> QED BY <2>2, <3>3, <3>4
  <2> QED BY <2>6, <2>7
<1> QED BY <1>14, <1>15
----------------------------------------------------------------------------
(* A flush.                                                                *)

\* The commit scan has got to a wrong-path uop: all before the branch's
\* shadow has retired, and what is left is of the wrong path.
LEMMA FlushedAtBranch ==
  ASSUME IInv, NEW k \in 0..Len(be), k < Len(be), Retirable(k), OnWrongPath(be[k+1]),
         Retire(k)
  PROVE  /\ lane.fstate # "CORRECT" /\ lane.n_nobranch = 0
         /\ lane.branch = retired' /\ retired' \in Nat
         /\ retired' = retired + k /\ retired' <= Base /\ ~done
<1>1. Queues /\ LaneInv(lane, Base) /\ lane \in Lane /\ trace \in Traces
  BY DEF IInv, Queues, LaneInv
<1>2. be \in Seq(Staged) /\ dq \in Seq(Staged)
  BY <1>1 DEF Queues
<1>3. PICK a \in Nat, c \in Nat, r \in Nat, R \in Nat, s \in Nat :
        /\ a = Len(be) /\ c = Len(dq) /\ r = retired /\ R = ResumeOf(lane)
        /\ s = Len(lane.stage)
  <2>1. Len(be) \in Nat /\ Len(dq) \in Nat /\ Len(lane.stage) \in Nat
    BY <1>1, <1>2, LaneFields, LenProperties
  <2>2. retired \in Nat /\ ResumeOf(lane) \in Nat
    BY <1>1, ResumeType DEF Queues
  <2> QED BY <2>1, <2>2
<1>4. k \in Nat /\ k < a
  BY <1>3
<1>5. retired' = r + k /\ r + k < R
  <2>1. k <= Len(be)
    BY <1>3, <1>4
  <2> QED BY <1>3, <1>4, <2>1, RetiresUpTo
<1>6. Len(Delivered) = a + c /\ \A i \in 1..a : Delivered[i] = be[i]
  BY <1>2, <1>3, Joined DEF Delivered
<1>7. PICK b \in Nat : b = Base /\ b = r + (a + c)
  <2>1. r + (a + c) \in Nat
    OBVIOUS
  <2> QED BY <1>3, <1>6, <2>1 DEF Base
<1>8. PICK j \in 1..a : j = k + 1
  <2>1. k + 1 \in 1..a
    BY <1>4
  <2> QED BY <2>1
<1>9. PICK x \in Staged : x = be[j] /\ OnWrongPath(x)
  BY <1>2, <1>3, <1>8, ElementOfSeq
<1>10. PICK q \in Nat : q = r + j /\ q > 0 /\ q <= b + s
  <2>1. r + j \in Nat /\ r + j > 0 /\ r + j <= b + s
    BY <1>7
  <2> QED BY <2>1
<1>11. Numbered(lane, x, q)
  <2>1. j \in 1..Len(Delivered)
    <3>1. j \in 1..a+c
      OBVIOUS
    <3> QED BY <1>6, <3>1
  <2> QED BY <1>3, <1>6, <1>9, <1>10, <2>1 DEF IInv, InFlight
<1>12. ~(q < R) /\ lane.fstate # "CORRECT"
  <2>1. LaneInv(lane, b)
    BY <1>1, <1>7
  <2>2. PICK l \in Lane : l = lane
    BY <1>1
  <2>3. /\ trace \in Traces /\ LaneInv(l, b) /\ q > 0 /\ q <= b + Len(l.stage)
        /\ Numbered(l, x, q) /\ R = ResumeOf(l)
    BY <1>1, <1>3, <1>10, <1>11, <2>1, <2>2
  <2>4. OnWrongPath(x) <=> ~(q < R)
    BY <2>3, NumberedTyped
  <2>5. ~(q < R) => l.fstate # "CORRECT"
    BY <2>3, NumberedTyped
  <2> QED BY <1>9, <2>2, <2>4, <2>5
<1>13. R = r + k + 1
  BY <1>4, <1>5, <1>8, <1>10, <1>12
<1>14. lane.branch = r + k
  <2>1. PICK p \in Nat : p = lane.branch
    BY <1>1, LaneFields
  <2>2. R = p + 1
    BY <1>1, <1>3, <1>7, <1>12, <2>1, ResumeBound
  <2> QED BY <1>4, <1>13, <2>1, <2>2
<1>15. ~done /\ lane.n_nobranch = 0
  BY <1>12 DEF IInv, LaneDone, NoTwice
<1>16. r + k <= b /\ r + k \in Nat
  BY <1>4, <1>7
<1> QED BY <1>3, <1>5, <1>7, <1>12, <1>14, <1>15, <1>16

LEMMA FlushKeeps ==
  ASSUME IInv, NEW k \in 0..Len(be), Flush(k)
  PROVE  IInv' /\ Onward
<1>1. /\ be' = <<>> /\ FrontFlush /\ Checked /\ trace' = trace
      /\ \E t \in {Taken(Window(lane), 0)} : lane' = IF done THEN t ELSE Redirected(t, FALSE)
  BY DEF Flush
<1>2. PICK r \in Nat : r = retired'
  BY FlushedAtBranch DEF Flush
<1>3. /\ lane.fstate # "CORRECT" /\ lane.n_nobranch = 0
      /\ lane.branch = r /\ r <= Base /\ ~done
  BY <1>2, FlushedAtBranch DEF Flush
<1>4. Queues /\ trace \in Traces /\ lane \in Lane
  BY DEF IInv, Queues, LaneInv
<1>5. PICK b \in Nat : b = Base
  <2>1. Delivered \in Seq(Staged)
    BY <1>4, ConcatProperties DEF Queues, Delivered
  <2>2. PICK d \in Nat, q \in Nat : d = Len(Delivered) /\ q = retired
    BY <1>4, <2>1, LenProperties DEF Queues
  <2> QED BY <2>2 DEF Base
<1>6. PICK l : l = Window(lane)
  OBVIOUS
<1>7. LaneInv(l, b) /\ Books(l) = Books(lane) /\ KeepsNumbers(lane, l, Base) /\ l \in Lane
  BY <1>5, <1>6, WindowKeeps DEF LaneInv
<1>8. PICK s \in Nat : s = Len(l.stage)
  BY <1>7, LaneFields, LenProperties
<1>9. PICK t : t = Taken(l, 0)
  OBVIOUS
<1>10. 0 = AsManyAs(0, s)
  BY DEF AsManyAs
<1>11. LaneInv(t, b) /\ Books(t) = Books(l) /\ t.fstate = l.fstate
  <2>1. LaneInv(t, b + 0)
    BY <1>4, <1>7, <1>8, <1>9, <1>10, TakenKeeps
  <2>2. b + 0 = b
    OBVIOUS
  <2> QED BY <1>7, <1>8, <1>9, <1>10, <2>1, <2>2, TakenFields
<1>12. t \in Lane /\ t.fstate # "CORRECT" /\ t.branch = r
  BY <1>3, <1>7, <1>11 DEF KeepsNumbers, Books, LaneInv
<1>13. PICK v : v = Leave(t)
  OBVIOUS
<1>14. /\ LaneInv(v, r) /\ ResumeOf(v) = r + 1 /\ v.fstate = "CORRECT"
       /\ v.n_enter = t.n_enter /\ v.n_leave = t.n_leave + 1
       /\ v.n_nobranch = t.n_nobranch /\ v.n_resolved = t.n_resolved
       /\ Begins(v, r + 1)
  <2>1. r <= b
    BY <1>3, <1>5
  <2> QED BY <1>4, <1>11, <1>12, <1>13, <2>1, LeaveKeeps
<1>15. PICK g : g = lane'
  OBVIOUS
<1>16. g = Gather(v)
  BY <1>1, <1>3, <1>6, <1>9, <1>13, <1>15 DEF Redirected
<1>17. v \in Lane
  BY <1>14 DEF LaneInv
<1>18. LaneInv(g, r) /\ Books(g) = Books(v) /\ KeepsNumbers(v, g, r)
  BY <1>4, <1>14, <1>16, <1>17, GatherKeeps
<1>19. g.fstate = "CORRECT" /\ Begins(g, r + 1) /\ r < ResumeOf(g)
  <2>1. PICK R \in Nat : R = ResumeOf(g)
    BY <1>18, ResumeType DEF LaneInv
  <2>2. r + 1 <= R
    BY <1>14, <1>18, <2>1 DEF KeepsNumbers
  <2>3. r < R
    BY <2>2
  <2> QED BY <1>14, <1>18, <2>1, <2>3 DEF KeepsNumbers
<1>20. Len(<<>>) = 0 /\ <<>> \in Seq(Staged)
  BY EmptySeq
<1>21. PICK D : D = Delivered' /\ D = <<>>
  <2>1. dq' = <<>>
    BY <1>1 DEF FrontFlush
  <2>2. <<>> \o <<>> = <<>>
    BY <1>20, ConcatEmptySeq
  <2> QED BY <1>1, <2>1, <2>2 DEF Delivered
<1>22. Base' = r
  <2>1. Base' = r + 0
    BY <1>2, <1>20, <1>21 DEF Base
  <2>2. r + 0 = r
    OBVIOUS
  <2> QED BY <2>1, <2>2
<1>23. Fits(g, D, r, r)
  <2>1. \A i \in 1..Len(D) : Numbered(g, D[i], r + i)
    BY <1>20, <1>21
  <2> QED BY <1>18, <1>19, <2>1 DEF Fits
<1>24. Queues'
  <2>1. dq' = <<>> /\ bub' = 0 /\ blk_seen' = FALSE /\ shadow' = FALSE
    BY <1>1 DEF FrontFlush
  <2>2. Len(be') <= BE_N /\ Len(dq') <= DQ_N
    <3>1. PICK m \in Nat, p \in Nat : m = BE_N /\ p = DQ_N
      BY BackAssumption, FrontAssumption
    <3> QED BY <1>1, <1>20, <2>1, <3>1
  <2>3. done' \in BOOLEAN /\ left' \in BOOLEAN
    BY <1>1, <1>4, CheckedIs DEF IInv
  <2>4. bub' \in 0..3
    BY <2>1
  <2> QED BY <1>1, <1>2, <1>4, <1>20, <2>1, <2>2, <2>3, <2>4 DEF Queues
<1>29. /\ g.n_enter = lane.n_enter /\ g.n_nobranch = lane.n_nobranch
       /\ g.n_resolved = lane.n_resolved
  BY <1>7, <1>11, <1>14, <1>18 DEF Books
<1>25. shadow' = Astray(g) /\ NoTwice(g)
  <2>1. shadow' = FALSE
    BY <1>1 DEF FrontFlush
  <2>2. (Astray(g) = FALSE) /\ NoTwice(g)
    BY <1>3, <1>19, <1>29 DEF Astray, NoTwice
  <2> QED BY <2>1, <2>2
<1>26. (done' => LaneDone(g)) /\ (left' => done')
  BY <1>1, <1>3, <1>4, <1>15, CheckedIs DEF IInv
<1>27. IInv'
  BY <1>1, <1>2, <1>15, <1>19, <1>21, <1>22, <1>23, <1>24, <1>25, <1>26, InvariantNext
<1>28. Onward
  <2>1. lane.n_enter \in Nat /\ lane.n_nobranch \in Nat
    BY <1>4, LaneFields
  <2>2. ~(lane.n_enter > lane.n_enter) /\ ~(lane.n_nobranch > lane.n_nobranch)
    BY <2>1
  <2>3. retired' = lane.branch
    BY <1>2, <1>3
  <2> QED BY <1>15, <1>29, <2>2, <2>3 DEF Onward
<1> QED BY <1>27, <1>28

----------------------------------------------------------------------------
(* The invariant and the action property.                                  *)

LEMMA StepKeeps == IInv /\ [Next]_vars => IInv' /\ (Onward \/ UNCHANGED vars)
<1> SUFFICES ASSUME IInv, [Next]_vars PROVE IInv' /\ (Onward \/ UNCHANGED vars)
  OBVIOUS
<1>1. ASSUME NEW k \in 0..Len(be), Flush(k)
      PROVE  IInv' /\ Onward
  BY <1>1, FlushKeeps
<1>2. ASSUME NEW k \in 0..Len(be), NEW room \in 0..W, Cycle(room, k)
      PROVE  IInv' /\ Onward
  BY <1>2, CycleKeeps
<1>3. ASSUME UNCHANGED vars
      PROVE  IInv'
  <2>1. /\ trace' = trace /\ lane' = lane /\ be' = be /\ dq' = dq /\ retired' = retired
        /\ bub' = bub /\ blk_seen' = blk_seen /\ shadow' = shadow
        /\ done' = done /\ left' = left
    BY <1>3 DEF vars, frontVars, backVars, loopVars
  <2>2. Delivered' = Delivered
    BY <2>1 DEF Delivered
  <2>3. Base' = Base
    BY <2>1, <2>2 DEF Base
  <2>4. Queues'
    BY <2>1 DEF IInv, Queues
  <2>5. Fits(lane, Delivered, retired, Base)
    BY DEF IInv, Fits, InFlight, RetiredCorrect
  <2>6. shadow' = Astray(lane) /\ NoTwice(lane)
    <3>1. shadow \in BOOLEAN /\ (shadow <=> Astray(lane)) /\ Astray(lane) \in BOOLEAN
      BY DEF IInv, Queues, Astray
    <3> QED BY <2>1, <3>1 DEF IInv
  <2>7. blk_seen' \/ Begins(lane, Base + 1)
    BY <2>1 DEF IInv
  <2>8. (done' => LaneDone(lane)) /\ (left' => done')
    BY <2>1 DEF IInv
  <2> QED BY <2>1, <2>2, <2>3, <2>4, <2>5, <2>6, <2>7, <2>8, InvariantNext
<1> QED BY <1>1, <1>2, <1>3 DEF Next

\* The inductive invariant holds of every program, for every window, staging
\* depth, queue and fetch width.
THEOREM ShadowInvariance == Spec => []IInv
BY InitEstablishes, StepKeeps, PTL DEF Spec

\* A redirect enters the shadow of a later branch than any before it (the
\* assertions of do_enter), of the one fetched last or one behind it; it is
\* dropped only for a branch whose shadow is empty.  The lane goes back when
\* that branch has retired and nothing behind it, so that no redirect is asked
\* for a second time.
THEOREM ShadowNeverTurnsBack == Spec => NeverTurnsBack
<1>1. NeverTurnsBack <=> [][Onward]_vars
  BY DEF NeverTurnsBack, Onward
<1>2. IInv /\ [Next]_vars => [Onward]_vars
  BY StepKeeps
<1> QED BY <1>1, <1>2, ShadowInvariance, PTL DEF Spec
----------------------------------------------------------------------------
(* What the invariant says of the uops between the trace and retirement.   *)

\* N of them, the first A of the correct path.
Parts(A, N) ==
  /\ N = Len(Pipe) /\ Pipe \in Seq(Staged)
  /\ N = Len(be) + Len(dq) + Len(lane.stage) /\ Base = retired + Len(be) + Len(dq)
  /\ A <= N /\ retired + A + 1 = ResumeOf(lane)
  /\ lane.fstate = "CORRECT" => A = N
  /\ \A i \in 1..N : Numbered(lane, Pipe[i], retired + i)

LEMMA PartsExist ==
  ASSUME IInv
  PROVE  \E A, N \in Nat : Parts(A, N)
<1>1. Queues /\ LaneInv(lane, Base) /\ lane \in Lane /\ trace \in Traces
  BY DEF IInv, Queues, LaneInv
<1>2. be \in Seq(Staged) /\ dq \in Seq(Staged) /\ lane.stage \in Seq(Staged)
  BY <1>1, LaneFields DEF Queues
<1>3. PICK a \in Nat, c \in Nat, s \in Nat, r \in Nat, R \in Nat :
        /\ a = Len(be) /\ c = Len(dq) /\ s = Len(lane.stage) /\ r = retired
        /\ R = ResumeOf(lane)
  <2>1. Len(be) \in Nat /\ Len(dq) \in Nat /\ Len(lane.stage) \in Nat
    BY <1>2, LenProperties
  <2>2. retired \in Nat /\ ResumeOf(lane) \in Nat
    BY <1>1, ResumeType DEF Queues
  <2> QED BY <2>1, <2>2
<1>4. PICK d \in Nat, N \in Nat : d = a + c /\ N = d + s
  <2>1. a + c \in Nat /\ (a + c) + s \in Nat
    OBVIOUS
  <2> QED BY <2>1
<1>5. Delivered \in Seq(Staged) /\ d = Len(Delivered)
  BY <1>2, <1>3, <1>4, Joined DEF Delivered
<1>6. PICK v \in Seq(Staged), w \in Seq(Staged) : v = Delivered /\ w = lane.stage
  BY <1>2, <1>5
<1>7. /\ Pipe \in Seq(Staged) /\ Len(Pipe) = d + s
      /\ \A i \in 1..d : Pipe[i] = v[i]
      /\ \A j \in 1..s : Pipe[d+j] = w[j]
  <2>1. Pipe = v \o w
    BY <1>6 DEF Pipe, Delivered
  <2>2. d = Len(v) /\ s = Len(w)
    BY <1>3, <1>5, <1>6
  <2> QED BY <2>1, <2>2, Joined
<1>8. PICK b \in Nat : b = Base /\ b = r + d
  <2>1. r + d \in Nat
    OBVIOUS
  <2> QED BY <1>3, <1>5, <2>1 DEF Base
<1>9. \A i \in 1..N : Numbered(lane, Pipe[i], retired + i)
  <2> TAKE i \in 1..N
  <2>1. CASE i <= d
    <3>1. i \in 1..d /\ i \in 1..Len(Delivered)
      BY <1>5, <2>1
    <3>2. Numbered(lane, Delivered[i], retired + i)
      BY <3>1 DEF IInv, InFlight
    <3> QED BY <1>6, <1>7, <3>1, <3>2
  <2>2. CASE d < i
    <3>1. PICK j \in 1..s : i = d + j /\ b + j = r + i
      <4>1. i - d \in 1..s /\ i = d + (i - d) /\ b + (i - d) = r + i
        BY <1>4, <1>8, <2>2
      <4> QED BY <4>1
    <3>2. Numbered(lane, lane.stage[j], b + j)
      BY <1>1, <1>3, <1>8, <3>1 DEF LaneInv, StageNumbered
    <3> QED BY <1>3, <1>6, <1>7, <3>1, <3>2
  <2>3. i <= d \/ d < i
    BY <1>4
  <2> QED BY <2>1, <2>2, <2>3
<1>10. r < R
  BY <1>3 DEF IInv, RetiredCorrect
<1>11. R <= b + s + 1 /\ (lane.fstate = "CORRECT" => R = b + s + 1)
  <2>1. CASE lane.fstate = "CORRECT"
    <3>1. LaneInv(lane, b)
      BY <1>1, <1>8
    <3>2. ResumeOf(lane) = b + Len(lane.stage) + 1
      BY <1>1, <2>1, <3>1, ResumeBound
    <3>3. R = b + s + 1
      BY <1>3, <3>2
    <3> QED BY <2>1, <3>3
  <2>2. CASE lane.fstate # "CORRECT"
    <3>1. InShadow(lane, b)
      BY <1>1, <1>8, <2>2, LaneLeft DEF LaneInv
    <3>2. PICK p \in Nat, o \in Nat : p = lane.branch /\ o = lane.cur.off
      <4>1. lane.branch \in Nat /\ lane.cur.off \in Nat
        BY <1>1, LaneFields DEF Cursor
      <4> QED BY <4>1
    <3>3. o > 0 /\ o + p = b + s + 1 /\ R = p + 1
      BY <1>3, <3>1, <3>2 DEF InShadow, ResumeOf
    <3> QED BY <2>2, <3>3
  <2> QED BY <2>1, <2>2
<1>12. PICK A \in Nat : r + A + 1 = R
  <2>1. (R - r) - 1 \in Nat /\ r + ((R - r) - 1) + 1 = R
    BY <1>10
  <2> QED BY <2>1
<1>13. A <= N /\ (lane.fstate = "CORRECT" => A = N)
  BY <1>4, <1>8, <1>11, <1>12
<1>14. Parts(A, N)
  <2>1. N = (a + c) + s /\ b = (r + a) + c
    BY <1>4, <1>8
  <2> QED BY <1>3, <1>4, <1>7, <1>8, <1>9, <1>12, <1>13, <2>1 DEF Parts
<1> QED BY <1>14

\* What they are, one by one.
LEMMA PartsAre ==
  ASSUME IInv, NEW A \in Nat, NEW N \in Nat, Parts(A, N), NEW i \in 1..N
  PROVE  /\ Pipe[i].rec \in 1..n_records /\ Pipe[i].off \in Nat
         /\ OnWrongPath(Pipe[i]) <=> A < i
         /\ i <= A => Pipe[i].rec = retired + i /\ Pipe[i].fe = BlockOf(Pipe[i].rec)
         /\ A < i => Pipe[i].rec = lane.branch /\ Pipe[i].off = i - A
<1>1. Queues /\ LaneInv(lane, Base) /\ lane \in Lane /\ trace \in Traces
  BY DEF IInv, Queues, LaneInv
<1>2. PICK a \in Nat, c \in Nat, s \in Nat, r \in Nat, R \in Nat :
        /\ a = Len(be) /\ c = Len(dq) /\ s = Len(lane.stage) /\ r = retired
        /\ R = ResumeOf(lane)
  <2>1. Len(be) \in Nat /\ Len(dq) \in Nat
    BY <1>1, LenProperties DEF Queues
  <2>2. Len(lane.stage) \in Nat
    BY <1>1, LaneFields, LenProperties
  <2>3. retired \in Nat /\ ResumeOf(lane) \in Nat
    BY <1>1, ResumeType DEF Queues
  <2> QED BY <2>1, <2>2, <2>3
<1>3. PICK b \in Nat : b = Base /\ b = r + a + c
  <2>1. r + a + c \in Nat
    OBVIOUS
  <2> QED BY <1>2, <2>1 DEF Parts
<1>4. N = a + c + s /\ r + A + 1 = R
  BY <1>2 DEF Parts
<1>5. PICK x \in Staged : x = Pipe[i]
  BY ElementOfSeq DEF Parts
<1>6. PICK q \in Nat : q = r + i /\ q > 0 /\ q <= b + s
  <2>1. r + i \in Nat /\ r + i > 0 /\ r + i <= b + s
    BY <1>3, <1>4
  <2> QED BY <2>1
<1>7. Numbered(lane, x, q)
  BY <1>2, <1>5, <1>6 DEF Parts
<1>8. /\ x.rec \in 1..n_records
      /\ OnWrongPath(x) <=> ~(q < R)
      /\ q < R => x.rec = q /\ x.fe = BlockOf(q)
      /\ ~(q < R) => x.rec = lane.branch /\ x.off = q - R + 1
  <2>1. LaneInv(lane, b)
    BY <1>1, <1>3
  <2> QED BY <1>1, <1>2, <1>6, <1>7, <2>1, NumberedTyped
<1>9. (q < R <=> i <= A) /\ (~(q < R) => A < i) /\ (A < i => ~(q < R) /\ (q - R) + 1 = i - A)
  BY <1>4, <1>6
<1>10. x.off \in Nat
  BY DEF Staged
<1> QED BY <1>2, <1>5, <1>6, <1>8, <1>9, <1>10
LEMMA PathsAre ==
  ASSUME IInv, NEW A \in Nat, NEW N \in Nat, Parts(A, N)
  PROVE  /\ DOMAIN Pipe = 1..N /\ Correct = 1..A /\ Wrong = A+1..N
         /\ Cardinality(Correct) = A
         /\ \A i \in 1..A : UpTo(Correct, i) = i
         /\ \A i \in A+1..N : UpTo(Wrong, i) = i - A
<1>1. A <= N
  BY DEF Parts
<1>2. DOMAIN Pipe = 1..N
  BY LenProperties DEF Parts
<1>3. \A i \in 1..N : OnWrongPath(Pipe[i]) <=> A < i
  BY PartsAre
<1>4. Correct = 1..A
  <2>1. Correct = {i \in 1..N : ~(A < i)}
    BY <1>2, <1>3 DEF Correct
  <2> QED BY <1>1, <2>1
<1>5. Wrong = A+1..N
  <2>1. Wrong = (1..N) \ (1..A)
    BY <1>2, <1>4 DEF Wrong
  <2> QED BY <1>1, <2>1
<1>6. Cardinality(Correct) = A
  BY <1>4, HowMany
<1>7. ASSUME NEW i \in 1..A
      PROVE  UpTo(Correct, i) = i
  <2>1. UpTo(Correct, i) = Cardinality({j \in 1..A : j <= i})
    BY <1>4 DEF UpTo
  <2>2. i \in Nat /\ i <= A
    OBVIOUS
  <2>3. Cardinality({j \in 1..A : j <= i}) = i
    BY <2>2, Prefix
  <2> QED BY <2>1, <2>3
<1>8. ASSUME NEW i \in A+1..N
      PROVE  UpTo(Wrong, i) = i - A
  <2>1. {j \in A+1..N : j <= i} = A+1..i
    OBVIOUS
  <2>2. UpTo(Wrong, i) = Cardinality(A+1..i)
    BY <1>5, <2>1 DEF UpTo
  <2>3. PICK f \in Int, t \in Int : f = A + 1 /\ t = i /\ ~(f > t) /\ (t - f) + 1 = i - A
    <3>1. A + 1 \in Int /\ i \in Int /\ ~(A + 1 > i) /\ (i - (A + 1)) + 1 = i - A
      OBVIOUS
    <3> QED BY <3>1
  <2>4. Cardinality(f..t) = (t - f) + 1
    BY <2>3, FS_Interval
  <2> QED BY <2>2, <2>3, <2>4
<1> QED BY <1>2, <1>4, <1>5, <1>6, <1>7, <1>8

LEMMA InvIsContiguous == IInv => TraceContiguous
<1> SUFFICES ASSUME IInv PROVE TraceContiguous
  OBVIOUS
<1>1. PICK A \in Nat, N \in Nat : Parts(A, N)
  BY PartsExist
<1>2. \A i \in Correct : Pipe[i].rec = retired + UpTo(Correct, i)
  <2> TAKE i \in Correct
  <2>1. i \in 1..A /\ UpTo(Correct, i) = i
    BY <1>1, PathsAre
  <2>2. i \in 1..N /\ i <= A
    <3>1. A <= N
      BY <1>1 DEF Parts
    <3> QED BY <2>1, <3>1
  <2> QED BY <1>1, <2>1, <2>2, PartsAre
<1>3. Resume = retired + Cardinality(Correct) + 1
  BY <1>1, PathsAre DEF Resume, Parts, ResumeOf
<1> QED BY <1>2, <1>3 DEF TraceContiguous

LEMMA InvIsExact == IInv => BlockExact
<1> SUFFICES ASSUME IInv PROVE BlockExact
  OBVIOUS
<1>1. PICK A \in Nat, N \in Nat : Parts(A, N)
  BY PartsExist
<1>2. \A i \in Correct : Pipe[i].fe = BlockOf(Pipe[i].rec)
  <2> TAKE i \in Correct
  <2>1. i \in 1..A
    BY <1>1, PathsAre
  <2>2. i \in 1..N /\ i <= A
    <3>1. A <= N
      BY <1>1 DEF Parts
    <3> QED BY <2>1, <3>1
  <2> QED BY <1>1, <2>2, PartsAre
<1> DEFINE head == IF lane.stage # <<>> THEN lane.stage[1]
                   ELSE [rec |-> lane.cur.rec, fe |-> lane.cur.fe, off |-> lane.cur.off]
           first == IF OnWrongPath(head)
                    THEN head.off = 1 \/ Shadow(head.rec)[head.off - 1]
                    ELSE head.rec = 1 \/ trace.rec[head.rec - 1].blkend
<1>3. ASSUME ~blk_seen
      PROVE  first
  <2>1. Queues /\ LaneInv(lane, Base) /\ lane \in Lane /\ trace \in Traces
    BY DEF IInv, Queues, LaneInv
  <2>2. PICK b \in Nat, R \in Nat, s \in Nat : b = Base /\ R = ResumeOf(lane) /\ s = Len(lane.stage)
    <3>1. Delivered \in Seq(Staged)
      BY <2>1, ConcatProperties DEF Queues, Delivered
    <3>2. PICK d \in Nat, q \in Nat : d = Len(Delivered) /\ q = retired
      BY <2>1, <3>1, LenProperties DEF Queues
    <3>3. Base \in Nat
      BY <3>2 DEF Base
    <3>4. ResumeOf(lane) \in Nat /\ Len(lane.stage) \in Nat
      BY <2>1, ResumeType, LaneFields, LenProperties
    <3> QED BY <3>3, <3>4
  <2>3. LaneInv(lane, b) /\ Begins(lane, b + 1)
    BY <1>3, <2>1, <2>2 DEF IInv
  <2>4. PICK k \in Nat : k = b + 1 /\ k - 1 = b
    OBVIOUS
  <2>5. Begins(lane, k)
    BY <2>3, <2>4
  <2>6. CASE lane.stage # <<>>
    <3>1. s # 0 /\ 1 \in 1..s
      BY <2>1, <2>2, <2>6, LaneFields, EmptySeq
    <3>2. PICK x \in Staged : x = lane.stage[1]
      BY <2>1, <2>2, <3>1, LaneFields, ElementOfSeq
    <3>3. head = x
      BY <2>6, <3>2
    <3>4. Numbered(lane, x, k)
      BY <2>2, <2>3, <2>4, <3>1, <3>2 DEF LaneInv, StageNumbered
    <3>5. k > 0 /\ k <= b + s
      BY <2>4, <3>1
    <3>6. /\ OnWrongPath(x) <=> ~(k < R)
          /\ k < R => x.rec = k
          /\ ~(k < R) => x.rec = lane.branch /\ x.off = k - R + 1 /\ lane.fstate # "CORRECT"
      BY <2>1, <2>2, <2>3, <3>4, <3>5, NumberedTyped
    <3> HIDE DEF head
    <3>7. CASE k < R
      BY <2>2, <2>5, <3>3, <3>6, <3>7 DEF Begins
    <3>8. CASE ~(k < R)
      <4>1. x.off = 1 \/ Shadow(x.rec)[x.off - 1]
        <5>1. k = R \/ Shadow(lane.branch)[k - R]
          BY <2>2, <2>5, <3>6, <3>8 DEF Begins
        <5>2. k = R => x.off = 1
          BY <3>6, <3>8
        <5>3. x.off - 1 = k - R
          BY <3>6, <3>8
        <5> QED BY <3>6, <3>8, <5>1, <5>2, <5>3
      <4> QED BY <3>3, <3>6, <3>8, <4>1
    <3> QED BY <3>7, <3>8
  <2>7. CASE lane.stage = <<>>
    <3>1. s = 0
      BY <2>2, <2>7, EmptySeq
    <3>2. head = [rec |-> lane.cur.rec, fe |-> lane.cur.fe, off |-> lane.cur.off]
      BY <2>7
    <3>3. head.rec = lane.cur.rec /\ head.off = lane.cur.off
      BY <3>2
    <3> HIDE DEF head
    <3>4. CASE lane.fstate = "CORRECT"
      <4>1. OnCorrect(lane, b)
        BY <2>1, <2>3, <3>4, LaneLeft DEF LaneInv
      <4>2. lane.cur.off = 0 /\ lane.cur.rec = k
        <5>1. b + s + 1 = k
          BY <2>4, <3>1
        <5> QED BY <2>2, <4>1, <5>1 DEF OnCorrect
      <4>3. ~OnWrongPath(head) /\ head.rec = k
        BY <3>3, <4>2 DEF OnWrongPath
      <4> QED BY <2>5, <3>4, <4>3 DEF Begins
    <3>5. CASE lane.fstate # "CORRECT"
      <4>1. InShadow(lane, b)
        BY <2>1, <2>3, <3>5, LaneLeft DEF LaneInv
      <4>2. PICK o \in Nat, p \in Nat : o = lane.cur.off /\ p = lane.branch
        <5>1. lane.cur.off \in Nat /\ lane.branch \in Nat
          BY <2>1, LaneFields DEF Cursor
        <5> QED BY <5>1
      <4>3. o > 0 /\ o + p = k /\ R = p + 1 /\ lane.cur.rec = p
        <5>1. o > 0 /\ o + p = b + s + 1 /\ R = p + 1 /\ lane.cur.rec = p
          BY <2>2, <4>1, <4>2 DEF InShadow, ResumeOf
        <5> QED BY <2>4, <3>1, <5>1
      <4>4. ~(k < R) /\ k - R = o - 1 /\ (k = R => o = 1)
        BY <4>3
      <4>5. k = R \/ Shadow(p)[k - R]
        BY <2>2, <2>5, <3>5, <4>2, <4>4 DEF Begins
      <4>6. o = 1 \/ Shadow(p)[o - 1]
        BY <4>4, <4>5
      <4>7. head.off = o /\ head.rec = p /\ OnWrongPath(head)
        BY <3>3, <4>2, <4>3 DEF OnWrongPath
      <4> QED BY <4>6, <4>7
    <3> QED BY <3>4, <3>5
  <2> QED BY <2>6, <2>7
<1> HIDE DEF first
<1>4. blk_seen \in BOOLEAN /\ (~blk_seen => first)
  BY <1>3 DEF IInv, Queues
<1> QED BY <1>2, <1>4 DEF BlockExact, first
LEMMA InvIsAgreed == IInv => PathsAgree
<1> SUFFICES ASSUME IInv PROVE PathsAgree
  OBVIOUS
<1>1. PICK A \in Nat, N \in Nat : Parts(A, N)
  BY PartsExist
<1>2. /\ shadow <=> lane.fstate # "CORRECT" \/ lane.n_nobranch > 0
      /\ lane.n_nobranch > 0 => lane.n_nobranch = 1 /\ lane.fstate = "CORRECT"
  BY DEF IInv, Astray, NoTwice
<1>3. \A i \in 1..Len(Pipe)-1 : OnWrongPath(Pipe[i]) => OnWrongPath(Pipe[i+1])
  <2> TAKE i \in 1..Len(Pipe)-1
  <2>1. i \in 1..N /\ i + 1 \in 1..N /\ (A < i => A < i + 1)
    <3>1. N = Len(Pipe)
      BY <1>1 DEF Parts
    <3> QED BY <3>1
  <2>2. OnWrongPath(Pipe[i]) <=> A < i
    BY <1>1, <2>1, PartsAre
  <2>3. OnWrongPath(Pipe[i+1]) <=> A < i + 1
    BY <1>1, <2>1, PartsAre
  <2> QED BY <2>1, <2>2, <2>3
<1>4. \A i \in Wrong : Pipe[i].rec = lane.branch /\ Pipe[i].off = UpTo(Wrong, i)
  <2> TAKE i \in Wrong
  <2>1. i \in A+1..N /\ UpTo(Wrong, i) = i - A
    BY <1>1, PathsAre
  <2>2. i \in 1..N /\ A < i
    BY <2>1
  <2>3. Pipe[i].rec = lane.branch /\ Pipe[i].off = i - A
    BY <1>1, <2>2, PartsAre
  <2> QED BY <2>1, <2>3
<1> QED BY <1>2, <1>3, <1>4, Zenon DEF PathsAgree

LEMMA InvIsTyped == IInv => TypeOK
<1> SUFFICES ASSUME IInv PROVE TypeOK
  OBVIOUS
<1>1. PICK A \in Nat, N \in Nat : Parts(A, N)
  BY PartsExist
<1>2. Queues /\ LaneInv(lane, Base) /\ lane \in Lane /\ trace \in Traces
  BY DEF IInv, Queues, LaneInv
<1>3. \A i \in DOMAIN Pipe : Pipe[i].rec \in 1..n_records /\ Pipe[i].off \in Nat
  <2> TAKE i \in DOMAIN Pipe
  <2>1. i \in 1..N
    BY <1>1, PathsAre
  <2> QED BY <1>1, <2>1, PartsAre
<1>4. retired \in 0..n_records
  <2>1. PICK b \in Nat : b = Base
    <3>1. Delivered \in Seq(Staged)
      BY <1>2, ConcatProperties DEF Queues, Delivered
    <3>2. PICK d \in Nat, q \in Nat : d = Len(Delivered) /\ q = retired
      BY <1>2, <3>1, LenProperties DEF Queues
    <3> QED BY <3>2 DEF Base
  <2>2. PICK r \in Nat, R \in Nat, m \in Nat : r = retired /\ R = ResumeOf(lane) /\ m = n_records
    <3>1. retired \in Nat /\ ResumeOf(lane) \in Nat /\ n_records \in Nat
      BY <1>2, ResumeType, ProgramTyped DEF Queues
    <3> QED BY <3>1
  <2>3. r < R
    BY <2>2 DEF IInv, RetiredCorrect
  <2>4. R \in 1..m+1
    BY <1>2, <2>1, <2>2, ResumeBound
  <2>5. r \in 0..m
    BY <2>3, <2>4
  <2> QED BY <2>2, <2>5
<1>5. Len(lane.stage) <= M /\ Len(dq) <= DQ_N /\ Len(be) <= BE_N
  BY <1>2 DEF LaneInv, Queues
<1>6. lane.fstate \in {"CORRECT", "SHADOW", "STARVED"} /\ lane.eof \in BOOLEAN
  BY <1>2, LaneFields
<1>7. bub \in 0..3
  BY <1>2 DEF Queues
<1>8. blk_seen \in BOOLEAN /\ shadow \in BOOLEAN /\ done \in BOOLEAN /\ left \in BOOLEAN
  BY <1>2, Zenon DEF Queues
<1> QED BY <1>3, <1>4, <1>5, <1>6, <1>7, <1>8, Zenon DEF TypeOK

LEMMA InvIsBalanced == IInv => LedgerBalanced
<1> SUFFICES ASSUME IInv PROVE LedgerBalanced
  OBVIOUS
<1>1. PICK A \in Nat, N \in Nat : Parts(A, N)
  BY PartsExist
<1>2. Queues /\ LaneInv(lane, Base) /\ lane \in Lane /\ trace \in Traces
  BY DEF IInv, Queues, LaneInv
<1>3. PICK a \in Nat, c \in Nat, s \in Nat, r \in Nat :
        a = Len(be) /\ c = Len(dq) /\ s = Len(lane.stage) /\ r = retired
  <2>1. Len(be) \in Nat /\ Len(dq) \in Nat
    BY <1>2, LenProperties DEF Queues
  <2>2. Len(lane.stage) \in Nat /\ retired \in Nat
    BY <1>2, LaneFields, LenProperties DEF Queues
  <2> QED BY <2>1, <2>2
<1>4. PICK b \in Nat : b = Base /\ b = r + a + c
  <2>1. r + a + c \in Nat
    OBVIOUS
  <2> QED BY <1>1, <1>3, <2>1 DEF Parts
<1>5. LaneInv(lane, b)
  BY <1>2, <1>4
<1>6. lane.n_enter = lane.n_leave + IF lane.fstate = "CORRECT" THEN 0 ELSE 1
  <2>1. PICK x \in Nat, y \in Nat : x = lane.n_enter /\ y = lane.n_leave
    <3>1. lane.n_enter \in Nat /\ lane.n_leave \in Nat
      BY <1>2, LaneFields
    <3> QED BY <3>1
  <2>2. CASE lane.fstate = "CORRECT"
    <3>1. x = y
      BY <1>2, <1>5, <2>1, <2>2, LaneLeft DEF LaneInv, OnCorrect
    <3> QED BY <2>1, <2>2, <3>1
  <2>3. CASE lane.fstate # "CORRECT"
    <3>1. x = y + 1
      BY <1>2, <1>5, <2>1, <2>3, LaneLeft DEF LaneInv, InShadow
    <3> QED BY <2>1, <2>3, <3>1
  <2> QED BY <2>2, <2>3
<1>7. ASSUME LaneDone(lane)
      PROVE  lane.cp_consumed = n_records /\ n_records = b
  <2>1. lane.eof /\ lane.stage = <<>> /\ lane.fstate = "CORRECT"
    BY <1>7 DEF LaneDone
  <2>2. OnCorrect(lane, b)
    BY <1>2, <1>5, <2>1, LaneLeft DEF LaneInv
  <2>3. s = 0
    BY <1>3, <2>1, EmptySeq
  <2>4. PICK m \in Nat, R \in Nat : m = n_records /\ R = lane.cur.rec
    <3>1. n_records \in Nat /\ lane.cur.rec \in Nat
      BY <1>2, ProgramTyped, LaneFields DEF Cursor
    <3> QED BY <3>1
  <2>5. R = b + s + 1 /\ R = m + 1 /\ ResumeOf(lane) = R
    BY <1>3, <2>1, <2>2, <2>4 DEF OnCorrect, ResumeOf
  <2>6. m = b /\ b < R
    BY <2>3, <2>5
  <2>7. lane.cp_consumed = b
    BY <1>5, <2>5, <2>6 DEF LaneInv, Consumed
  <2> QED BY <2>4, <2>6, <2>7
<1>8. ASSUME done
      PROVE  LaneDone(lane) /\ Wrong = {} /\ n_records - retired = Len(be) + Len(dq)
  <2>1. LaneDone(lane)
    BY <1>8 DEF IInv
  <2>2. lane.fstate = "CORRECT"
    BY <2>1 DEF LaneDone
  <2>4. Wrong = {}
    <3>1. A = N
      BY <1>1, <2>2 DEF Parts
    <3>2. Wrong = A+1..N
      BY <1>1, PathsAre
    <3> QED BY <3>1, <3>2
  <2>5. n_records - retired = Len(be) + Len(dq)
    <3>1. b - r = a + c
      BY <1>4
    <3> QED BY <1>3, <1>7, <2>1, <3>1
  <2> QED BY <2>1, <2>4, <2>5
<1>9. done \in BOOLEAN /\ (left => done)
  BY <1>2 DEF IInv, Queues
<1> QED BY <1>6, <1>7, <1>8, <1>9, InvIsTyped, Zenon DEF LedgerBalanced
\* Every record of the correct path is delivered exactly once and in order,
\* through every shadow entered and every flush, and the cursor resumes right
\* behind the last of them.
THEOREM ShadowContiguous == Spec => []TraceContiguous
BY ShadowInvariance, InvIsContiguous, PTL

\* Each record is staged with its own block's event, and the bubbles of a block
\* are looked at before its first record alone, on either path.
THEOREM ShadowBlockExact == Spec => []BlockExact
BY ShadowInvariance, InvIsExact, PTL

\* shadow_q and fstate agree after every cycle, until the one redirect that is
\* dropped, and behind the correct path come the records of one branch's shadow,
\* from its first on.
THEOREM ShadowPathsAgree == Spec => []PathsAgree
BY ShadowInvariance, InvIsAgreed, PTL

\* Types, the ledger of bstm_refill_check, and that a lane recognised as done
\* is done for good: to mask it changes nothing.
THEOREM ShadowLedgerBalanced == Spec => []LedgerBalanced
BY ShadowInvariance, InvIsBalanced, PTL

----------------------------------------------------------------------------
(* Decode queue and back end are a window in program order.                *)

LEMMA CycleRefines ==
  ASSUME IInv, NEW k \in 0..Len(be), NEW room \in 0..W, Cycle(room, k)
  PROVE  Program!Cycle
<1>1. PICK l, win, n : CycleIs(room, k, l, win, n)
  BY CycleUnfolds
<1>2. PICK D, r : D = Delivered' /\ r = retired'
  OBVIOUS
<1>3. D \in Seq(Staged)
  BY <1>1, <1>2, CycleFlight
<1>4. PICK m \in Nat : Flies(D, r, k, win, n, m)
  BY <1>1, <1>2, CycleFlight
<1>5. /\ Queues /\ n \in Nat
  BY <1>1, CycleTyped
<1>6. be \in Seq(Staged) /\ dq \in Seq(Staged)
  BY <1>5 DEF Queues
<1>7. PICK a \in Nat, c \in Nat, d \in Nat :
        a = Len(be) /\ c = Len(dq) /\ d = Len(Delivered) /\ d = a + c /\ k \in 0..a
  <2>1. PICK a \in Nat, c \in Nat : a = Len(be) /\ c = Len(dq)
    <3>1. Len(be) \in Nat /\ Len(dq) \in Nat
      BY <1>6, LenProperties
    <3> QED BY <3>1
  <2>2. Len(Delivered) = a + c
    BY <1>6, <2>1, Joined DEF Delivered
  <2>3. k \in 0..a /\ a + c \in Nat
    BY <2>1
  <2> QED BY <2>1, <2>2, <2>3
<1>8. Delivered \in Seq(Staged) /\ \A i \in 1..a : Delivered[i] = be[i]
  BY <1>6, <1>7, Joined DEF Delivered
<1>9. Program!Correct(k)
  <2>1. Retirable(k)
    BY <1>1 DEF CycleIs
  <2>2. \A i \in 1..k : ~OnWrongPath(Delivered[i])
    <3> TAKE i \in 1..k
    <3>1. i \in 1..a
      BY <1>7
    <3> QED BY <1>8, <2>1, <3>1 DEF Retirable
  <2> QED BY <2>2 DEF Program!Correct
<1>10. /\ k + m = d /\ Len(D) = m + n /\ \A i \in 1..m : D[i] = Delivered[k+i]
  BY <1>4, <1>7 DEF Flies
<1>11. SubSeq(D, 1, m) = SubSeq(Delivered, k + 1, d)
  <2>1. PICK x \in Seq(Staged), e \in Nat : x = D /\ e = Len(x) /\ m \in 0..e
    <3>1. m + n \in Nat /\ m \in 0..m+n
      BY <1>5
    <3> QED BY <1>3, <1>10, <3>1
  <2>2. PICK u \in Seq(Staged) : u = Delivered /\ d = Len(u) /\ k \in 0..d
    <3>1. k \in 0..d
      BY <1>7
    <3> QED BY <1>7, <1>8, <3>1
  <2>3. /\ SubSeq(x, 1, m) \in Seq(Staged) /\ Len(SubSeq(x, 1, m)) = m
        /\ \A i \in 1..m : SubSeq(x, 1, m)[i] = x[i]
    BY <2>1, Parted
  <2>4. /\ SubSeq(u, k + 1, d) \in Seq(Staged) /\ Len(SubSeq(u, k + 1, d)) = d - k
        /\ \A i \in 1..d-k : SubSeq(u, k + 1, d)[i] = u[k+i]
    BY <2>2, Parted
  <2>5. d - k = m
    BY <1>7, <1>10
  <2>6. \A i \in 1..m : SubSeq(x, 1, m)[i] = SubSeq(u, k + 1, d)[i]
    BY <1>10, <2>1, <2>2, <2>3, <2>4, <2>5
  <2>7. SubSeq(x, 1, m) = SubSeq(u, k + 1, d)
    <3> DEFINE y == SubSeq(x, 1, m)
               z == SubSeq(u, k + 1, d)
    <3>1. y \in Seq(Staged) /\ z \in Seq(Staged) /\ Len(y) = Len(z)
      BY <2>3, <2>4, <2>5
    <3>2. \A i \in 1..Len(y) : y[i] = z[i]
      BY <2>3, <2>6
    <3> HIDE DEF y, z
    <3>3. y = z
      BY <3>1, <3>2, SeqEqual
    <3> QED BY <3>3 DEF y, z
  <2> QED BY <2>1, <2>2, <2>7
<1>12. k \in 0..Len(Delivered) /\ m = Len(Delivered) - k /\ m \in 0..Len(D)
  <2>1. k \in 0..d /\ m = d - k /\ m \in 0..m+n
    BY <1>5, <1>7, <1>10
  <2> QED BY <1>7, <1>10, <2>1
<1>13. SubSeq(D, 1, m) = SubSeq(Delivered, k + 1, Len(Delivered))
  BY <1>7, <1>11
<1>14. Delivered' \in Seq([rec : Nat, fe : Nat, off : Nat, sh : BOOLEAN])
  BY <1>2, <1>3 DEF Staged
<1> QED BY <1>2, <1>9, <1>12, <1>13, <1>14 DEF Program!Cycle

LEMMA FlushRefines ==
  ASSUME IInv, NEW k \in 0..Len(be), Flush(k)
  PROVE  Program!Flush
<1>1. /\ k < Len(be) /\ Retirable(k) /\ OnWrongPath(be[k+1]) /\ Retire(k)
      /\ be' = <<>> /\ dq' = <<>>
  BY DEF Flush, FrontFlush
<1>2. PICK A \in Nat, N \in Nat : Parts(A, N)
  BY PartsExist
<1>3. be \in Seq(Staged) /\ dq \in Seq(Staged) /\ lane.stage \in Seq(Staged)
  BY LaneFields DEF IInv, Queues, LaneInv
<1>4. PICK a \in Nat, c \in Nat, s \in Nat :
        a = Len(be) /\ c = Len(dq) /\ s = Len(lane.stage)
  <2>1. Len(be) \in Nat /\ Len(dq) \in Nat /\ Len(lane.stage) \in Nat
    BY <1>3, LenProperties
  <2> QED BY <2>1
<1>5. PICK d \in Nat : d = a + c
  <2>1. a + c \in Nat
    OBVIOUS
  <2> QED BY <2>1
<1>6. /\ Delivered \in Seq(Staged) /\ Len(Delivered) = d
      /\ \A i \in 1..a : Delivered[i] = be[i]
  BY <1>3, <1>4, <1>5, Joined DEF Delivered
<1>7. \A i \in 1..d : Pipe[i] = Delivered[i]
  <2>1. PICK u \in Seq(Staged), v \in Seq(Staged) : u = Delivered /\ v = lane.stage
    BY <1>3, <1>6
  <2>2. Pipe = u \o v /\ d = Len(u) /\ s = Len(v)
    BY <1>4, <1>6, <2>1 DEF Pipe, Delivered
  <2> QED BY <2>1, <2>2, Joined
<1>8. N = (a + c) + s /\ d <= N /\ k \in 0..a /\ k < a
  <2>1. N = a + c + s
    BY <1>2, <1>4 DEF Parts
  <2>2. k \in 0..a /\ k < a
    BY <1>1, <1>4
  <2>3. N = (a + c) + s /\ d <= N
    BY <1>5, <2>1
  <2> QED BY <2>2, <2>3
<1>9. A < k + 1
  <2>1. PICK j \in 1..a : j = k + 1
    <3>1. k + 1 \in 1..a
      BY <1>8
    <3> QED BY <3>1
  <2>2. j \in 1..d /\ j \in 1..N
    BY <1>5, <1>8
  <2>3. OnWrongPath(Pipe[j])
    BY <1>1, <1>6, <1>7, <2>1, <2>2
  <2>4. A < j
    BY <1>2, <2>2, <2>3, PartsAre
  <2> QED BY <2>1, <2>4
<1>10. \A i \in k+1..d : OnWrongPath(Delivered[i])
  <2> TAKE i \in k+1..d
  <2>1. i \in 1..N /\ i \in 1..d /\ A < i
    BY <1>5, <1>8, <1>9
  <2>2. OnWrongPath(Pipe[i])
    BY <1>2, <2>1, PartsAre
  <2> QED BY <1>7, <2>1, <2>2
<1>11. Program!Correct(k)
  <2>1. \A i \in 1..k : ~OnWrongPath(Delivered[i])
    <3> TAKE i \in 1..k
    <3>1. i \in 1..a
      BY <1>8
    <3> QED BY <1>1, <1>6, <3>1 DEF Retirable
  <2> QED BY <2>1 DEF Program!Correct
<1>12. Delivered' = <<>>
  <2>1. <<>> \o <<>> = <<>>
    BY EmptySeq, ConcatEmptySeq
  <2> QED BY <1>1, <2>1 DEF Delivered
<1>13. k \in 0..Len(Delivered)-1
  <2>1. k \in 0..d-1
    BY <1>5, <1>8
  <2> QED BY <1>6, <2>1
<1>14. \A i \in k+1..Len(Delivered) : OnWrongPath(Delivered[i])
  BY <1>6, <1>10
<1> QED BY <1>11, <1>12, <1>13, <1>14 DEF Program!Flush

\* Decode queue and back end together keep InOrderWindow's promise: nothing is
\* lost, duplicated or reordered, only correct-path uops retire and a flush
\* discards only wrong-path ones.
THEOREM ShadowKeepsProgramOrder == Spec => KeepsProgramOrder
<1>1. Init => Program!Init
  <2>1. <<>> \o <<>> = <<>>
    BY EmptySeq, ConcatEmptySeq
  <2> QED BY <2>1 DEF Init, FrontInit, Delivered, Program!Init
<1>2. IInv /\ [Next]_vars => [Program!Cycle \/ Program!Flush]_Delivered
  <2> SUFFICES ASSUME IInv, [Next]_vars
               PROVE  Program!Cycle \/ Program!Flush \/ Delivered' = Delivered
    OBVIOUS
  <2>1. ASSUME NEW k \in 0..Len(be), NEW room \in 0..W, Cycle(room, k)
        PROVE  Program!Cycle
    BY <2>1, CycleRefines
  <2>2. ASSUME NEW k \in 0..Len(be), Flush(k)
        PROVE  Program!Flush
    BY <2>2, FlushRefines
  <2>3. CASE UNCHANGED vars
    BY <2>3 DEF Delivered, vars, frontVars, backVars, loopVars
  <2> QED BY <2>1, <2>2, <2>3 DEF Next
<1>3. Program!Spec <=> Program!Init /\ [][Program!Cycle \/ Program!Flush]_Delivered
  BY DEF Program!Spec
<1> QED BY <1>1, <1>2, <1>3, ShadowInvariance, PTL DEF Spec, KeepsProgramOrder
============================================================================
