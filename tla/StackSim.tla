------------------------------ MODULE StackSim ------------------------------
(***************************************************************************)
(* The single-scan sweep of preprocess/cachesim/cachesim.cpp: one pass over *)
(* an access stream counts the hits of several cache geometries.  The code *)
(* keeps, for each set of the geometry with the most sets, a list of lines  *)
(* with time stamps that fall along the list.  Stamps are only compared, so *)
(* all lists together are one sequence, the most recent line first.         *)
(***************************************************************************)
EXTENDS Lru

\* A geometry is a record of sets and ways.
fine_sets(geos) == Max({1} \cup {g.sets : g \in geos})
max_ways(geos)  == Max({1} \cup {g.ways : g \in geos})

\* The positions in rec of the lines that share la's set among n sets.
Group(rec, la, n) == {i \in DOMAIN rec : rec[i] % n = la % n}
Place(rec, la)    == {i \in DOMAIN rec : rec[i] = la}

\* The lines that share la's set among n sets and were touched after la was.
Newer(rec, la, n) == {rec[i] : i \in {j \in Group(rec, la, n) : \A p \in Place(rec, la) : j < p}}
Count(rec, la, g) == Cardinality(Newer(rec, la, g.sets))

\* Whether the access to la hits in geometry g.
SweepHit(rec, la, g) == Place(rec, la) # {} /\ Count(rec, la, g) < g.ways

\* Mutant: a list keeps as many lines as the smallest geometry has ways.
KeptShort(rec, la, geos) ==
  LET mine == Group(rec, la, fine_sets(geos))
  IN IF Place(rec, la) # {} \/ Cardinality(mine) < Min({g.ways : g \in geos}) THEN rec
     ELSE RemoveAt(rec, Max(mine))

\* What is left when a list that is full loses its oldest line to la.
Kept(rec, la, geos) ==
  LET mine == Group(rec, la, fine_sets(geos))
  IN IF Place(rec, la) # {} \/ Cardinality(mine) < max_ways(geos) THEN rec
     ELSE RemoveAt(rec, Max(mine))

\* The line moves to the front, whether or not the access counts.
Touch(rec, la, geos) ==
  LET kept == Kept(rec, la, geos) IN <<la>> \o Without(kept, Place(kept, la))
=============================================================================
