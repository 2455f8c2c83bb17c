-------------------------------- MODULE Tage --------------------------------
(***************************************************************************)
(* The direction predictor of preprocess/frontend/predictors.hpp: a table   *)
(* of counters and tables that are tagged and indexed with folds of the     *)
(* history.  A word is the set of the bits that are set in it, so that an   *)
(* exclusive or is a symmetric difference.  A predictor is a record t.      *)
(***************************************************************************)
EXTENDS Integers, Sequences, FiniteSets, FiniteSetsExt

CONSTANTS
  HIST_N,     \* bits of the history register
  Tables,     \* the tagged tables: records of hist, idx, tag, cmax, umax
  bim_bits, bim_max,
  use_alt_on_na, useful_reset_period

ASSUME TageAssumption ==
  /\ {HIST_N, bim_max} \subseteq Nat \ {0} /\ {bim_bits, useful_reset_period} \subseteq Nat
  /\ use_alt_on_na \in BOOLEAN
  /\ \A i \in DOMAIN Tables :
       /\ Tables[i].hist \in 1..HIST_N - 1
       /\ Tables[i].idx \in Nat \ {0} /\ Tables[i].tag \in Nat \ {0, 1}

Tagged == DOMAIN Tables

Sym(a, b)    == (a \ b) \cup (b \ a)
Bits(n)      == {i \in 0..15 : (n \div 2^i) % 2 = 1}
Clamp(v, lo, hi) == IF v < lo THEN lo ELSE IF v > hi THEN hi ELSE v

\* HistReg, the newest bit first.
bit(h, i)      == i < Len(h) /\ h[i + 1]
Pushed(h, dir) == SubSeq(<<dir>> \o h, 1, Clamp(Len(h) + 1, 0, HIST_N))
----------------------------------------------------------------------------
\* Mutant: the bit that leaves the fold is taken one place too early.
FoldUpdateEarly(f, h, olen, tlen) ==
  LET in  == {b + 1 : b \in f} \cup (IF bit(h, 0) THEN {0} ELSE {})
      out == Sym(in, IF bit(h, olen - 1) THEN {olen % tlen} ELSE {})
      x   == Sym(out, {b - tlen : b \in {c \in out : c >= tlen}})
  IN {b \in x : b < tlen}

\* Folded::update, after the push.
FoldUpdate(f, h, olen, tlen) ==
  LET in  == {b + 1 : b \in f} \cup (IF bit(h, 0) THEN {0} ELSE {})
      out == Sym(in, IF bit(h, olen) THEN {olen % tlen} ELSE {})
      x   == Sym(out, {b - tlen : b \in {c \in out : c >= tlen}})
  IN {b \in x : b < tlen}

\* The widths of the three folds of a table.
Widths(i) == <<Tables[i].idx, Tables[i].tag, Tables[i].tag - 1>>

TageInit ==
  [hist |-> <<>>,
   fold |-> [i \in Tagged |-> <<{}, {}, {}>>],
   bim  |-> [k \in SUBSET (0..bim_bits-1) |-> (bim_max + 1) \div 2],
   tab  |-> [i \in Tagged |-> [k \in SUBSET (0..Tables[i].idx-1) |-> [ctr |-> 0, tag |-> {}, u |-> 0]]],
   use_alt |-> 8, tick |-> 0]

push_history(t, dir) ==
  LET h == Pushed(t.hist, dir)
  IN [t EXCEPT !.hist = h,
               !.fold = [i \in Tagged |-> [w \in 1..3 |->
                           FoldUpdate(@[i][w], h, Tables[i].hist, Widths(i)[w])]]]

\* Tage::restore; the whole predictor stands for what Tage::save keeps of it.
restore(t, s) == [t EXCEPT !.hist = s.hist, !.fold = s.fold]
----------------------------------------------------------------------------
bim_index(pc) == Bits(pc \div 2) \cap 0..bim_bits-1

\* Tage::index and Tage::tag.
Index(t, i, pc) ==
  LET sh == Clamp(Tables[i].idx - (i - 1), 1, 15)
  IN Sym(Sym(Bits(pc \div 2), Bits((pc \div 2) \div 2^sh)), t.fold[i][1]) \cap 0..Tables[i].idx-1
Tag(t, i, pc) ==
  Sym(Sym(Bits(pc \div 2), t.fold[i][2]), {b + 1 : b \in t.fold[i][3]}) \cap 0..Tables[i].tag-1

Entry(t, i, pc) == t.tab[i][Index(t, i, pc)]
Weak(e)         == e.ctr \in {0, -1}
Newly(e)        == Weak(e) /\ e.u = 0

\* The direction that table i gives, 0 being the table without tags.
DirOf(t, i, pc) ==
  IF i = 0 THEN t.bim[bim_index(pc)] >= (bim_max + 1) \div 2 ELSE Entry(t, i, pc).ctr >= 0

\* The provider may be too new to be believed.
Provided(t, pc, prov, alt) ==
  LET use == use_alt_on_na /\ prov > 0 /\ t.use_alt >= 8 /\ Newly(Entry(t, prov, pc))
  IN [provider |-> prov, altprov |-> alt, alt_taken |-> DirOf(t, alt, pc),
      taken |-> DirOf(t, IF use THEN alt ELSE prov, pc)]

\* Tage::predict: of the tables that know the branch, the longest and the next.
tage_predict(t, pc) ==
  LET hits == {i \in Tagged : Entry(t, i, pc).tag = Tag(t, i, pc)}
      prov == Max(hits \cup {0})
  IN Provided(t, pc, prov, Max({i \in hits : i < prov} \cup {0}))

ctr_update(c, taken, lo, hi) == Clamp(IF taken THEN c + 1 ELSE c - 1, lo, hi)

\* Table i counts the outcome.
Trained(t, i, pc, taken) ==
  IF i = 0
    THEN [t EXCEPT !.bim[bim_index(pc)] = ctr_update(@, taken, 0, bim_max)]
    ELSE [t EXCEPT !.tab[i][Index(t, i, pc)].ctr = ctr_update(@, taken, -Tables[i].cmax - 1, Tables[i].cmax)]

\* Where the provider, which says own, and what stands behind it differ, two
\* counters keep which of them was right.
Weighed(t, pc, taken, p, own) ==
  IF own = p.alt_taken THEN t
  ELSE [t EXCEPT !.use_alt = IF Newly(Entry(t, p.provider, pc))
                               THEN Clamp(@ + IF p.alt_taken = taken THEN 1 ELSE -1, 0, 15) ELSE @,
                 !.tab[p.provider][Index(t, p.provider, pc)].u =
                    Clamp(@ + IF own = taken THEN 1 ELSE -1, 0, Tables[p.provider].umax)]

TrainedIf(also, t, i, pc, taken) == IF also THEN Trained(t, i, pc, taken) ELSE t

\* The counters of the provider, and of what stands behind it while it is new.
Credited(t, pc, taken, p) ==
  IF p.provider = 0 THEN Trained(t, 0, pc, taken)
  ELSE TrainedIf(Newly(Entry(t, p.provider, pc)),
                 Trained(Weighed(t, pc, taken, p, DirOf(t, p.provider, pc)), p.provider, pc, taken),
                 p.altprov, pc, taken)

\* The branch takes its entry of table j.
TakenIn(t, pc, taken, j) ==
  [t EXCEPT !.tab[j][Index(t, j, pc)] = [ctr |-> IF taken THEN 0 ELSE -1, tag |-> Tag(t, j, pc), u |-> 0]]

\* After a misprediction a longer table takes the branch in, or all of them
\* age.  lucky: the random number prefers the second table that could.
Allocated(t, pc, taken, p, lucky) ==
  LET longer == {j \in Tagged : j > p.provider}
      free   == {j \in longer : Entry(t, j, pc).u = 0}
      first  == Min(free)
      j == IF first + 1 \in free /\ lucky THEN first + 1 ELSE first
  IN IF p.taken = taken \/ longer = {} THEN t
     ELSE IF free = {}
       THEN [t EXCEPT !.tab = [i \in Tagged |->
               IF i \in longer THEN [@[i] EXCEPT ![Index(t, i, pc)].u = @ - 1] ELSE @[i]]]
       ELSE TakenIn(t, pc, taken, j)

\* Each period one bit of every useful counter is cleared, in turns.
Aged(t) ==
  LET n    == t.tick + 1
      odd  == (n \div useful_reset_period) % 2 = 1
      less(u) == IF odd THEN u - (u % 2) ELSE u - (2 * ((u \div 2) % 2))
  IN IF useful_reset_period > 0 /\ n % useful_reset_period = 0
       THEN [t EXCEPT !.tick = n % (2 * useful_reset_period),
                      !.tab = [i \in Tagged |-> [k \in DOMAIN @[i] |-> [@[i][k] EXCEPT !.u = less(@)]]]]
       ELSE [t EXCEPT !.tick = n]

\* p: what was predicted.
Learning(t, pc, taken, p, lucky) == Aged(Allocated(Credited(t, pc, taken, p), pc, taken, p, lucky))

\* Tage::update, for a conditional branch.
tage_update(t, pc, taken, lucky) == Learning(t, pc, taken, tage_predict(t, pc), lucky)

\* The fold of a history, from its definition.
FoldOf(h, olen, tlen) ==
  {b \in 0..tlen-1 :
     Cardinality({i \in 0..olen-1 : i % tlen = b /\ bit(h, i)}) % 2 = 1}
=============================================================================
