------------------------------ MODULE CacheSim ------------------------------
(***************************************************************************)
(* The cache simulator of preprocess/cachesim/cachesim.cpp, one access at a *)
(* time.  A simulator is a record m of its caches, its stride table and the *)
(* list of its sweep; the counters of Stats are kept as the differences that *)
(* the properties compare.  c is its configuration.                         *)
(***************************************************************************)
EXTENDS StackSim

CONSTANTS
  Configs,     \* the configurations, see Off for their fields, each with
               \* the accesses that its stream is made of
  line_size, page_size,
  Top          \* addresses wrap here

Levels  == {"l1i", "l1d", "l2"}
NoSweep == [level |-> "none", geos |-> {}]

\* A cache that is on has ways; their number is kept in a byte (Cache::cnt).
Geometries == {g \in [sets : Nat, ways : 0..255] : g.sets > 0 => g.ways > 0}

\* The variants of a sweep: their numbers of sets are powers of two, so one
\* divides the other.
Sweepable(geos) ==
  /\ IsFiniteSet(geos) /\ geos \subseteq Geometries
  /\ \A g, h \in geos : g.sets > 0 /\ (g.sets % h.sets = 0 \/ h.sets % g.sets = 0)

Sweeps == {NoSweep} \cup [level : Levels, geos : {gs \in SUBSET Geometries : Sweepable(gs)}]

Prefetchers == [entries : Nat, degree : Nat, distance : Nat, min_conf : Nat, by_pc : BOOLEAN]
Accesses ==
  {a \in [va : Nat, size : Nat \ {0}, store : BOOLEAN, ifetch : BOOLEAN, pc : SUBSET Nat] :
     a.va + a.size <= Top}

Configurations ==
  [l1i : Geometries, l1d : Geometries, l2 : Geometries, l3 : Geometries,
   itlb : 0..255, dtlb : 0..255, inclusive : BOOLEAN, pf : Prefetchers,
   sweep : Sweeps, stream : SUBSET Accesses]

ASSUME CacheAssumption ==
  {line_size, page_size, Top} \subseteq Nat \ {0} /\ Configs \subseteq Configurations

VARIABLES
  cfg,   \* the configuration
  sim,   \* the simulator
  own,   \* for each variant of the sweep, a simulator of that geometry
  owed,  \* lines stored to through the L1D and not yet written to memory
  lag,   \* for each variant, hits the sweep counted less hits of its own run
  mem    \* the overlay byte of the last access

vars == <<cfg, sim, own, owed, lag, mem>>

\* A simulator before the first access.
Off(c) ==
  [l1i |-> Cold(c.l1i.sets), l1d |-> Cold(c.l1d.sets),
   l2  |-> Cold(c.l2.sets),  l3  |-> Cold(c.l3.sets),
   itlb |-> Cold(IF c.itlb > 0 THEN 1 ELSE 0), dtlb |-> Cold(IF c.dtlb > 0 THEN 1 ELSE 0),
   tbl |-> <<>>, rec |-> <<>>,
   pf_gap |-> 0, dram |-> {}, hits |-> [l \in Levels |-> 0], sw_hit |-> [g \in c.sweep.geos |-> 0]]

\* The configuration that a variant of the sweep stands for.
Single(c, g) == [[c EXCEPT ![c.sweep.level] = g] EXCEPT !.sweep = NoSweep]

lineof(a) == a \div line_size
----------------------------------------------------------------------------
Counted(m, level, hit) == IF hit THEN [m EXCEPT !.hits[level] = @ + 1] ELSE m

\* sweep.access
Swept(c, m, la, demand) ==
  [m EXCEPT !.rec = Touch(m.rec, la, c.sweep.geos),
            !.sw_hit = [g \in DOMAIN @ |->
              @[g] + IF demand /\ SweepHit(m.rec, la, g) THEN 1 ELSE 0]]

sweep_on(c, m, level, la, demand) == IF c.sweep.level = level THEN Swept(c, m, la, demand) ELSE m

l3_evict(m, out) == [m EXCEPT !.dram = @ \cup {x.la : x \in {y \in out : y.dirty}}]

L3Access(c, m, la, write, demand) ==
  LET r == access(m.l3, c.l3.ways, la, write, FALSE, demand) IN l3_evict([m EXCEPT !.l3 = r.c], r.out)

\* A dirty line goes below the L2.
Below(c, m, la) == IF enabled(m.l3) THEN L3Access(c, m, la, TRUE, FALSE) ELSE [m EXCEPT !.dram = @ \cup {la}]

\* Mutant: the L2 forgets the L1s when it evicts.
BackInvalidatedNothing(c, m, la) == m

BackInvalidated(c, m, la) ==
  IF c.inclusive THEN [m EXCEPT !.l1d = invalidate(@, la), !.l1i = invalidate(@, la)] ELSE m

\* Mutant: the L1's copy is dropped without a look at it.
NewestDirtyOfL2(c, m, v) == v.dirty

NewestDirty(c, m, v) == v.dirty \/ (c.inclusive /\ \E x \in Found(m.l1d, v.la) : x.dirty)

\* A prefetched line was used or is gone.
Unflagged(m, pf) == [m EXCEPT !.pf_gap = @ - IF pf THEN 1 ELSE 0]

WrittenBack(c, m, la, dirty) == IF dirty THEN Below(c, m, la) ELSE m

GivenUp(c, m, v) ==
  WrittenBack(c, Unflagged(BackInvalidated(c, m, v.la), v.pf), v.la, NewestDirty(c, m, v))

l2_evict(c, m, out) == IF out = {} THEN m ELSE GivenUp(c, m, CHOOSE x \in out : TRUE)

l2_insert(c, m, la, dirty, as_pf) ==
  IF ~enabled(m.l2)
    THEN IF dirty THEN [m EXCEPT !.dram = @ \cup {la}] ELSE m
    ELSE LET r == access(m.l2, c.l2.ways, la, dirty, as_pf, FALSE)
         IN l2_evict(c, sweep_on(c, [m EXCEPT !.l2 = r.c], "l2", la, FALSE), r.out)

\* Mutant: only the L1D is asked.
RedundantInL1(m, la) == probe(m.l1d, la)

Redundant(m, la) == probe(m.l1d, la) \/ probe(m.l2, la)

issue_prefetch(c, m, addr) ==
  LET la == lineof(addr)
      m1 == [m EXCEPT !.pf_gap = @ + 1]
      m2 == IF enabled(m.l3) THEN L3Access(c, m1, la, FALSE, FALSE) ELSE m1
  IN IF Redundant(m, la) THEN m ELSE l2_insert(c, m2, la, FALSE, TRUE)
----------------------------------------------------------------------------
\* The L1 that an access goes to.
L1Of(ifetch) == IF ifetch THEN "l1i" ELSE "l1d"

\* Behind an L1 miss: the level that had the line, whether it was a first use
\* of a prefetched line, and the caches.
MissL2(c, m, la) ==
  IF enabled(m.l3)
    THEN [level |-> IF probe(m.l3, la) THEN 2 ELSE 3, pf_hit |-> FALSE,
          m |-> L3Access(c, m, la, FALSE, TRUE)]
    ELSE [level |-> 3, pf_hit |-> FALSE, m |-> m]

\* r: what the L2 answered.
Refilled(c, m, la, r) ==
  IF r.hit THEN [level |-> 1, pf_hit |-> r.used, m |-> m] ELSE MissL2(c, m, la)
InL2(c, m, la, r) ==
  Refilled(c, Unflagged(l2_evict(c, Counted(m, "l2", r.hit), r.out), r.used), la, r)

MissL1(c, m, la) ==
  IF ~enabled(m.l2) THEN MissL2(c, m, la)
  ELSE LET r == access(m.l2, c.l2.ways, la, FALSE, FALSE, TRUE)
       IN InL2(c, sweep_on(c, [m EXCEPT !.l2 = r.c], "l2", la, TRUE), la, r)

\* The line that the L1 has given up goes to the L2 when the refill is over.
L1Victim(c, m, out) ==
  IF \E x \in out : x.dirty THEN l2_insert(c, m, (CHOOSE x \in out : TRUE).la, TRUE, FALSE) ELSE m

InL1(c, m, l1, la, r) ==
  IF r.hit THEN [level |-> 0, pf_hit |-> FALSE, m |-> Counted([m EXCEPT ![l1] = r.c], l1, TRUE)]
  ELSE [MissL1(c, [m EXCEPT ![l1] = r.c], la) EXCEPT !.m = L1Victim(c, @, r.out)]

AccessL1(c, m, l1, la, write) ==
  InL1(c, m, l1, la,
       IF enabled(m[l1]) THEN access(m[l1], c[l1].ways, la, write, FALSE, TRUE)
       ELSE [c |-> m[l1], hit |-> FALSE, out |-> {}, used |-> FALSE])

access_line(c, m, la, store, ifetch) ==
  AccessL1(c, sweep_on(c, m, L1Of(ifetch), la, TRUE), L1Of(ifetch), la, store /\ ~ifetch)

\* StridePF::mix, of which only the collisions matter.
Slot(c, key) == key % c.pf.entries

\* The entry after training.
Trained(e, key, addr) ==
  IF e = {} \/ \E x \in e : x.key # key THEN [key |-> key, last |-> addr, stride |-> 0, conf |-> 0]
  ELSE LET x == CHOOSE y \in e : TRUE
           d == addr - x.last
       IN IF d = 0 THEN x
          ELSE IF d = x.stride
            THEN [x EXCEPT !.last = addr, !.conf = IF @ < 3 THEN @ + 1 ELSE @]
            ELSE [x EXCEPT !.last = addr, !.conf = 0, !.stride = d]

\* StridePF::update: the table and the addresses to prefetch.
update(c, tbl, key, addr) ==
  LET s == Slot(c, key)
      e == {tbl[i] : i \in DOMAIN tbl \cap {s}}
      x == Trained(e, key, addr)
  IN [tbl |-> [i \in DOMAIN tbl \cup {s} |-> IF i = s THEN x ELSE tbl[i]],
      out |-> IF e # {x} /\ x.conf >= c.pf.min_conf /\ x.stride # 0
                THEN [k \in 1..c.pf.degree |->
                        (addr + x.stride * (c.pf.distance + k - 1)) % Top]
                ELSE <<>>]

\* The pages or lines of an access.
Lowest(a, unit) == a.va \div unit
Highest(a, unit)  == (a.va + a.size - 1) \div unit

\* One lookup more: the TLB after it, and whether a page was missing so far.
Translate(c, t, tlb, p) ==
  LET r == access(t.m[tlb], c[tlb], p, FALSE, FALSE, TRUE)
  IN [m |-> [t.m EXCEPT ![tlb] = r.c], miss |-> t.miss \/ ~r.hit]

Translated(c, m, tlb, a) ==
  LET first == Lowest(a, page_size)
      n     == Highest(a, page_size) - first + 1
      after[k \in 0..n] ==
        IF k = 0 THEN [m |-> m, miss |-> FALSE]
        ELSE Translate(c, after[k-1], tlb, first + k - 1)
  IN after[n]

\* One line more: the caches after it, and the slowest answer so far.
Slower(r, best) ==
  LET worst == IF r.level > best.level THEN r ELSE best
  IN [level |-> worst.level, pf_hit |-> worst.pf_hit, m |-> r.m]
Look(c, best, la, a) == Slower(access_line(c, best.m, la, a.store, a.ifetch), best)

Looked(c, m, a) ==
  LET first == Lowest(a, line_size)
      n     == Highest(a, line_size) - first + 1
      after[k \in 0..n] ==
        IF k = 0 THEN [level |-> -1, pf_hit |-> FALSE, m |-> m]
        ELSE Look(c, after[k-1], first + k - 1, a)
  IN after[n]

Issued(c, m, out) ==
  LET after[k \in 0..Len(out)] == IF k = 0 THEN m ELSE issue_prefetch(c, after[k-1], out[k])
  IN after[Len(out)]

\* Only data accesses train.
Prefetched(c, m, a) ==
  LET key == IF c.pf.by_pc /\ a.pc # {} THEN CHOOSE pc \in a.pc : TRUE ELSE a.va \div page_size
      t   == update(c, m.tbl, key, a.va)
  IN IF c.pf.entries = 0 \/ a.ifetch THEN m ELSE Issued(c, [m EXCEPT !.tbl = t.tbl], t.out)

\* l: what the caches answered, miss: whether a TLB had to look elsewhere.
Overlay(c, l, a, miss) ==
  [m |-> Prefetched(c, l.m, a), byte |-> [level |-> l.level, pf |-> l.pf_hit, tlb |-> miss]]

\* Sim::access: the simulator after access a, and its overlay byte.
SimAccess(c, m, a) ==
  LET tlb == IF a.ifetch THEN "itlb" ELSE "dtlb"
      t   == IF enabled(m[tlb]) THEN Translated(c, m, tlb, a)
             ELSE [m |-> m, miss |-> FALSE]
  IN Overlay(c, Looked(c, t.m, a), a, t.miss)

Dirty(m) == {x.la : x \in {y \in LinesOf(m.l1d) \cup LinesOf(m.l2) \cup LinesOf(m.l3) : y.dirty}}

\* What the comparison takes from an access is not kept.
Settled(m) == [m EXCEPT !.dram = {}, !.hits = [l \in Levels |-> 0], !.sw_hit = [g \in DOMAIN @ |-> 0]]
----------------------------------------------------------------------------
Init ==
  /\ cfg \in Configs
  /\ sim = Off(cfg)
  /\ own = [g \in cfg.sweep.geos |-> Off(Single(cfg, g))]
  /\ owed = {} /\ lag = [g \in cfg.sweep.geos |-> 0]
  /\ mem = <<>>

\* r: what the simulator did, o: what those of the variants did.
Compared(a, r, o) ==
  LET news == IF a.store /\ ~a.ifetch /\ enabled(sim.l1d)
                THEN Lowest(a, line_size)..Highest(a, line_size) ELSE {}
  IN /\ sim' = Settled(r.m)
     /\ own' = [g \in DOMAIN own |-> Settled(o[g])]
     /\ lag' = [g \in DOMAIN lag |-> lag[g] + r.m.sw_hit[g] - o[g].hits[cfg.sweep.level]]
     /\ owed' = (owed \cup news) \ (r.m.dram \ Dirty(r.m))
     /\ mem' = <<r.byte>>
     /\ UNCHANGED cfg

Access(a) ==
  Compared(a, SimAccess(cfg, sim, a), [g \in DOMAIN own |-> SimAccess(Single(cfg, g), own[g], a).m])

Next == \E a \in cfg.stream : Access(a)

Spec == Init /\ [][Next]_vars
----------------------------------------------------------------------------
\* The geometry a cache of the simulator was built with.
Caches == {"l1i", "l1d", "l2", "l3"}

WellFormed(m) ==
  \A n \in Caches : \A s \in DOMAIN m[n] :
    /\ Len(m[n][s]) <= cfg[n].ways
    /\ \A i, j \in DOMAIN m[n][s] : setof(m[n], m[n][s][i].la) = s /\ (m[n][s][i].la = m[n][s][j].la => i = j)

TypeOK == cfg \in Configs /\ WellFormed(sim) /\ owed \subseteq 0..Top \div line_size

\* With an inclusive L2 no L1 holds a line that the L2 has given up, whatever
\* demand misses, write-backs and prefetches push out in the same access, and
\* each cache holds a line once and in its own set.
Inclusive ==
  /\ TypeOK
  /\ cfg.inclusive /\ enabled(sim.l2) =>
       \A x \in LinesOf(sim.l1d) \cup LinesOf(sim.l1i) : probe(sim.l2, x.la)

\* A line stored to stays dirty in some cache until it has been written to memory:
\* no eviction, back-invalidation or refill loses its last dirty copy.  Without
\* an L1D a store reaches the other levels as a read, and nothing is owed.
DirtyKept == owed \subseteq Dirty(sim)

\* A prefetched line is accounted for once: used, evicted unused, or still
\* flagged in the L2, through hits, write-backs and evictions of it.
PrefetchBalance ==
  enabled(sim.l2) => sim.pf_gap = Cardinality({x \in LinesOf(sim.l2) : x.pf})

\* The single scan counts for each variant the hits that a run of its own
\* with that geometry would: under the conditions that README.md section 5
\* states, that is with a fixed L1, without an inclusive L2 and, for sweeps
\* of the L2, without prefetches and with an L2 to feed the sweep.
Separable ==
  ~cfg.inclusive /\ (cfg.sweep.level = "l2" => cfg.pf.entries = 0 /\ cfg.l2.sets > 0)
SweepExact == Separable => \A g \in DOMAIN lag : lag[g] = 0
=============================================================================
