------------------------------- MODULE Rename -------------------------------
(***************************************************************************)
(* model/ooo/rename/rn_rename.v: the speculative and the committed register*)
(* alias table (rat, crat) and free list (fl, cfl).  The operators are the *)
(* module's combinational outputs for a bundle b of decoded uops offered in*)
(* program order; the actions are its two clock edges, without and with    *)
(* flush.                                                                  *)
(***************************************************************************)
EXTENDS Ifc

VARIABLES
  rat,    \* rat_q: architectural register -> physical register, speculative
  fl,     \* fl_q: the physical registers free for allocation
  crat,   \* crat_q: rat as of the last retirement
  cfl     \* cfl_q: the free list a flush restores

renameVars == <<rat, fl, crat, cfl>>

----------------------------------------------------------------------------
\* nd0..nd3: x0 gets no physical register.
NeedsPhys(u) == u.dv /\ u.d # 0

\* sl0..sl3: which of this cycle's picks lane j takes.
Slot(b, j) == Cardinality({i \in 1..j-1 : NeedsPhys(b[i])})

\* m0..m3, fl_pick: the pick number k is the k-th lowest free register, with
\* physical register 0 kept for x0.
Free == fl \ {0}
Rank(p) == Cardinality({q \in Free : q < p})
Pick(k) == CHOOSE p \in Free : Rank(p) = k

NewReg(b, j) == Pick(Slot(b, j))

\* The last lane before j that writes a, or 0.
LastWriter(b, j, a) ==
  Max({0} \cup {i \in 1..j-1 : NeedsPhys(b[i]) /\ b[i].d = a})

\* Mutant: no bypass inside the bundle.
LookupWithoutBypass(b, j, a) == rat[a]

\* The mapping of a that lane j sees: earlier lanes of the bundle first.
Lookup(b, j, a) ==
  IF LastWriter(b, j, a) = 0 THEN rat[a] ELSE NewReg(b, LastWriter(b, j, a))

\* A uop without a destination gets no register; nothing reads its prf.
Renamed(b, j) ==
  [wp |-> b[j].wp, dv |-> NeedsPhys(b[j]), arf |-> b[j].d,
   prf |-> IF NeedsPhys(b[j]) THEN NewReg(b, j) ELSE 0,
   s |-> b[j].s, src |-> Lookup(b, j, b[j].s)]

\* Mutants: bundles are taken whole or not at all; rename forgets its own limit
\* when it answers fetch.
n_freeAllOrNothing == IF Cardinality(Free) >= W THEN W ELSE 0
de_nreadyOfDispatch(rn_nready) == rn_nready

\* Partial accept: how many uops rename can map, how many it offers, and how
\* many it tells fetch it takes.
n_free               == AtMost(Cardinality(Free), W)
n_ok(b)              == AtMost(Len(b), n_free)
n_xfer(b, rn_nready) == AtMost(n_ok(b), rn_nready)
de_nready(rn_nready) == AtMost(n_free, rn_nready)

Alloc(b, n) == {NewReg(b, j) : j \in {i \in 1..n : NeedsPhys(b[i])}}

----------------------------------------------------------------------------
\* cv0..cv3: a retirement that changes the committed table.
Writes(c, j) == c[j].dv /\ c[j].arf # 0

LastCommit(c, j, a) ==
  Max({0} \cup {i \in 1..j-1 : Writes(c, i) /\ c[i].arf = a})

\* The committed mapping of a after the first j-1 retirements of this cycle.
CommittedMap(c, j, a) ==
  IF LastCommit(c, j, a) = 0 THEN crat[a] ELSE c[LastCommit(c, j, a)].prf

Writers(c) == {j \in 1..Len(c) : Writes(c, j)}

\* Mutant: two retirements of one register in a cycle free the same mapping.
FreedWithoutForwarding(c) == {crat[c[j].arf] : j \in Writers(c)} \ {0}

\* free_mask and cuse_mask: a retirement frees the mapping it replaces.
Freed(c) == {CommittedMap(c, j, c[j].arf) : j \in Writers(c)} \ {0}
Used(c)  == {c[j].prf : j \in Writers(c)}

crat_nxt(c) ==
  [a \in Arf |-> IF a = 0 THEN 0 ELSE CommittedMap(c, Len(c) + 1, a)]

cfl_nxt(c) == (cfl \ Used(c)) \cup Freed(c)

----------------------------------------------------------------------------
RenameInit ==
  /\ rat  = [a \in Arf |-> a]
  /\ crat = [a \in Arf |-> a]
  /\ fl   = Phys \ Arf
  /\ cfl  = Phys \ Arf

\* A clock edge without flush: the first n uops of b are renamed and the
\* retirements c are applied.
RenameCycle(b, n, c) ==
  /\ rat'  = [a \in Arf |-> IF a = 0 THEN rat[0] ELSE Lookup(b, n + 1, a)]
  /\ fl'   = (fl \ Alloc(b, n)) \cup Freed(c)
  /\ crat' = crat_nxt(c)
  /\ cfl'  = cfl_nxt(c)

\* Mutant: a flush restores the table as it was before this cycle's retirements.
RenameFlushOldTable(c) ==
  /\ crat' = crat_nxt(c) /\ cfl' = cfl_nxt(c)
  /\ rat'  = crat        /\ fl'  = cfl_nxt(c)

\* A clock edge with flush: the speculative state becomes the committed one,
\* the retirements of this cycle included.
RenameFlush(c) ==
  /\ crat' = crat_nxt(c)
  /\ cfl'  = cfl_nxt(c)
  /\ rat'  = crat_nxt(c)
  /\ fl'   = cfl_nxt(c)
=============================================================================
