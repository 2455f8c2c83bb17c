-------------------------------- MODULE Lru --------------------------------
(***************************************************************************)
(* The set-associative LRU cache of preprocess/cachesim/cachesim.cpp.  A   *)
(* cache is a function from set numbers to the lines of the set, the most  *)
(* recently used first; a cache that is switched off has no sets.          *)
(***************************************************************************)
EXTENDS Integers, FiniteSets, SequencesExt

Cold(sets) == [s \in 0..sets-1 |-> <<>>]
enabled(c) == DOMAIN c # {}

setof(c, la) == la % Cardinality(DOMAIN c)
LinesOf(c)   == UNION {{c[s][i] : i \in DOMAIN c[s]} : s \in DOMAIN c}

\* Places in a set, of which there is one or none, and the lines there.
At(L, la)     == {i \in DOMAIN L : L[i].la = la}
Lines(L, P)   == {L[i] : i \in P}
Without(L, P) == IF P = {} THEN L ELSE RemoveAt(L, CHOOSE i \in P : TRUE)

\* A line is looked for in its own set only.
Found(c, la) == IF enabled(c) THEN LET L == c[setof(c, la)] IN Lines(L, At(L, la)) ELSE {}
probe(c, la) == Found(c, la) # {}

\* The place that a full set gives up for a new line.
Victim(L, ways) == IF Len(L) = ways THEN {Len(L)} ELSE {}

\* The line becomes the most recent of L: what was at the place old, or a new
\* one for which the place out is given up.
MoveToFront(L, la, old, out, write, as_prefetch, demand) ==
  <<[la    |-> la,
     dirty |-> write \/ \E x \in Lines(L, old) : x.dirty,
     pf    |-> IF old = {} THEN as_prefetch ELSE ~demand /\ \E x \in Lines(L, old) : x.pf]>>
    \o Without(L, old \cup out)

\* used: a demand access found a prefetched line that nobody had used.
access(c, ways, la, write, as_prefetch, demand) ==
  LET L   == c[setof(c, la)]
      old == At(L, la)
      out == IF old = {} THEN Victim(L, ways) ELSE {}
  IN [c    |-> [c EXCEPT ![setof(c, la)] = MoveToFront(L, la, old, out, write, as_prefetch, demand)],
      hit  |-> old # {},
      out  |-> Lines(L, out),
      used |-> demand /\ \E x \in Lines(L, old) : x.pf]

invalidate(c, la) ==
  IF probe(c, la) THEN [c EXCEPT ![setof(c, la)] = Without(@, At(@, la))] ELSE c
=============================================================================
