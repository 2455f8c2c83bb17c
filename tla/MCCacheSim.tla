----------------------------- MODULE MCCacheSim -----------------------------
EXTENDS CacheSim

Geo(s, w) == [sets |-> s, ways |-> w]
None      == Geo(0, 0)
NoPf      == [entries |-> 0, degree |-> 0, distance |-> 0, min_conf |-> 0, by_pc |-> FALSE]
Pf(d, by) == [entries |-> 1, degree |-> d, distance |-> 1, min_conf |-> 1, by_pc |-> by]

Cfg(l1i, l1d, l2, l3, inclusive, tlb, pf, stream) ==
  [l1i |-> l1i, l1d |-> l1d, l2 |-> l2, l3 |-> l3, inclusive |-> inclusive,
   itlb |-> tlb, dtlb |-> tlb, pf |-> pf, stream |-> stream, sweep |-> NoSweep]

Sweeping(c, level, geos) == [c EXCEPT !.sweep = [level |-> level, geos |-> geos]]

\* Line and page sizes of two and four, eight addresses.
Acc(va, n, s, i, pc) == [va |-> va, size |-> n, store |-> s, ifetch |-> i, pc |-> pc]
Loads  == {Acc(va, 1, FALSE, FALSE, {}) : va \in {0, 2, 4, 6}}
Stores == {Acc(va, 1, TRUE, FALSE, {}) : va \in {0, 2, 4, 6}}
Split  == {Acc(3, 2, TRUE, FALSE, {})}
Fetch  == {Acc(va, 1, FALSE, TRUE, {}) : va \in {0, 4}}
Two(s) == {Acc(va, 1, FALSE, FALSE, {pc}) : va \in {0, 2, 4, 6}, pc \in {0, 1}} \cup s
All    == Loads \cup Stores \cup Split \cup Fetch

Hierarchies ==
  { Cfg(Geo(1, 1), Geo(1, 2), Geo(2, 1), Geo(1, 2), TRUE,  0, NoPf, All),
    Cfg(Geo(1, 1), Geo(1, 2), Geo(1, 2), None,      FALSE, 0, Pf(1, FALSE), All),
    Cfg(None, Geo(2, 1), Geo(2, 1), Geo(2, 1),      TRUE,  0, Pf(2, TRUE), Two(Split)),
    Cfg(None, Geo(2, 1), None, Geo(1, 2),           TRUE,  1, NoPf, All) }

L2Sweeps == {Sweeping(Cfg(None, Geo(1, 1), Geo(1, 2), None, FALSE, 0, NoPf, Loads \cup Stores \cup Split), "l2", gs) :
               gs \in {{Geo(1, 2), Geo(2, 2)}, {Geo(1, 1), Geo(2, 1)}}}
L1Sweeps == {Sweeping(Cfg(None, Geo(1, 1), Geo(1, 2), None, FALSE, 0, Pf(1, FALSE), Loads \cup Split), "l1d",
               {Geo(1, 1), Geo(2, 1), Geo(2, 2)})}
Both == Hierarchies \cup L2Sweeps \cup L1Sweeps
=============================================================================
