----------------------------- MODULE CommitPath -----------------------------
(***************************************************************************)
(* The in-order path of the pipeline as model/ooo/top.v wires it: fe_front's*)
(* decode queue, rename, dispatch and the reorder buffer.  One step is one *)
(* clock edge of all four.  Rename and dispatch keep no uop of their own:  *)
(* within a cycle a uop goes from the decode queue to the reorder buffer.  *)
(*                                                                         *)
(* The stages around the path are inputs: the uops fetched this cycle, the *)
(* room the issue queue and the load/store queues offer, and the entries   *)
(* the execution units write back.                                         *)
(***************************************************************************)
EXTENDS Rename, Rob

CONSTANT Uops    \* the decoded uops the fetch side may deliver

ASSUME UopsAssumption == Uops \subseteq Duop

VARIABLE dq      \* dq_q[0 .. dq_cnt_q-1]: decoded uops waiting for rename

vars == <<renameVars, robVars, dq>>

----------------------------------------------------------------------------
\* de_valid, de_duop: the oldest W uops of the decode queue are presented.
Presented == SubSeq(dq, 1, AtMost(Len(dq), W))

\* The uops each of the three stages takes this cycle, each by its own rule.
n_out(room)  == AtMost(Len(Presented), de_nready(rn_nready(room)))
n_sent(room) == AtMost(n_ok(Presented), rn_nready(room))
RnAccepts(room) == n_xfer(Presented, rn_nready(room))

\* What dispatch hands to the reorder buffer: the first n_sent renamed uops.
Dispatched(room) == [j \in 1..n_sent(room) |-> Renamed(Presented, j)]

\* Once the fetch side is on the wrong path it stays there until a flush.
WrongPathInFlight ==
  (\E i \in 1..Len(dq) : dq[i].wp) \/ (\E i \in Window : rob_ent[i].wp)

Deliverable(f) ==
  /\ WrongPathInFlight => \A i \in 1..Len(f) : f[i].wp
  /\ \A i, j \in 1..Len(f) : i < j /\ f[i].wp => f[j].wp

\* The fetched bundles the decode queue has space for this cycle.
Fetchable(room) ==
  UNION {[1..k -> Uops] : k \in 0..AtMost(DQ_N - Len(dq) + n_out(room), W)}

\* The entries the execution units may write back: dispatched in an earlier
\* cycle, not yet done, at most one per writeback port.
InExecution == {i \in Window : ~rob_done[i]}
Writebacks  == {wb \in SUBSET InExecution : Cardinality(wb) <= W}

----------------------------------------------------------------------------
Init == RenameInit /\ RobInit /\ dq = <<>>

\* A cycle without flush.
Advance(room, wb, f) ==
  /\ ~do_flush
  /\ Deliverable(f)
  /\ dq' = SubSeq(dq, n_out(room) + 1, Len(dq)) \o f
  /\ RenameCycle(Presented, RnAccepts(room), Commits)
  /\ RobCycle(Dispatched(room), wb)

\* A cycle in which the commit scan reaches a finished wrong-path uop.
Flush ==
  /\ do_flush
  /\ dq' = <<>>
  /\ RenameFlush(Commits)
  /\ RobFlush

Next ==
  \/ \E room \in 0..W : \E wb \in Writebacks, f \in Fetchable(room) :
       Advance(room, wb, f)
  \/ Flush

Spec == Init /\ [][Next]_vars

\* What the stages around the path owe it: a clock that keeps ticking, room
\* for dispatch again and again, and the oldest uop's writeback in the end.
DispatchOffersRoom ==
  \E room \in 1..W : \E wb \in Writebacks, f \in Fetchable(room) :
    Advance(room, wb, f)
OldestWrittenBack ==
  \E room \in 0..W : \E wb \in Writebacks, f \in Fetchable(room) :
    rob_head \in wb /\ Advance(room, wb, f)

LiveSpec ==
  Spec /\ WF_vars(DispatchOffersRoom) /\ WF_vars(OldestWrittenBack) /\ WF_vars(Flush)
----------------------------------------------------------------------------
\* Every register holds a value of its width, and the ring is inside the
\* configured part of the arrays.
TypeOK ==
  /\ rat \in [Arf -> Phys] /\ crat \in [Arf -> Phys]
  /\ fl \subseteq Phys /\ cfl \subseteq Phys
  /\ rob_v \in [RobIx -> BOOLEAN] /\ rob_done \in [RobIx -> BOOLEAN]
  /\ rob_ent \in [RobIx -> Ruop]
  /\ rob_head \in 0..cfg_rob_entries-1 /\ rob_tail \in 0..cfg_rob_entries-1
  /\ rob_cnt \in 0..cfg_rob_entries
  /\ dq \in Seq(Duop) /\ Len(dq) <= DQ_N

\* be_rob's head, count and valid bits and be_dispatch's tail, kept in two
\* modules, always describe one ring: dispatch never allocates an entry that
\* is in use and no retired entry stays valid.
RingExact ==
  /\ rob_tail = Wrap(rob_head + rob_cnt)
  /\ {i \in RobIx : rob_v[i]} = Window

LiveWriters == {i \in Window : rob_ent[i].dv}
InFlight    == {rob_ent[i].prf : i \in LiveWriters}
Committed   == {crat[a] : a \in Arf \ {0}}

\* No physical register is lost or handed out twice, whatever was accepted in
\* part, retired together or flushed: each one other than 0 is free, or is
\* the committed mapping of an architectural register, or belongs to a live
\* uop, and never two of these.
FreeListExact == fl = (Phys \ {0}) \ (Committed \cup InFlight)

\* The free list a flush would restore is exactly what retirement left free.
CommittedFreeListExact == cfl = (Phys \ {0}) \ Committed

\* Two live uops, two architectural registers, or one of each never share a
\* physical register, and none of them holds physical register 0.
NoAliasing ==
  /\ \A i, j \in LiveWriters : i # j => rob_ent[i].prf # rob_ent[j].prf
  /\ \A a, b \in Arf : a # b => crat[a] # crat[b]
  /\ InFlight \cap {crat[a] : a \in Arf} = {}
  /\ crat[0] = 0

\* The mapping of a as the uop k places after the head must see it: the
\* youngest older live writer of a, else the committed mapping.
YoungestWriter(k, a) ==
  Max({-1} \cup {m \in 0..k-1 : rob_ent[At(m)].dv /\ rob_ent[At(m)].arf = a})
MappingAt(k, a) ==
  IF YoungestWriter(k, a) = -1 THEN crat[a]
                               ELSE rob_ent[At(YoungestWriter(k, a))].prf

\* The speculative table is the committed one with the live writers applied
\* in program order, so that a flush loses exactly the discarded writers.
RatPrecise == \A a \in Arf : rat[a] = MappingAt(rob_cnt, a)

\* Each live uop reads the physical register of its program-order producer,
\* through any mix of in-bundle bypass, earlier bundles and retirement, and
\* that register is not reused while the uop can still read it.
SourcesPrecise ==
  \A k \in 0..rob_cnt-1 :
    rob_ent[At(k)].src = MappingAt(k, rob_ent[At(k)].s)

\* Only a uop that writes an architectural register other than x0 holds a
\* physical register: retirement frees by the architectural number, so one
\* held for x0 would never come back.
HoldersWrite == \A i \in Window : rob_ent[i].dv => rob_ent[i].arf # 0

\* The inductive invariant behind the accounting of physical registers.
IInv ==
  /\ TypeOK
  /\ RingExact
  /\ HoldersWrite
  /\ NoAliasing
  /\ FreeListExact
  /\ CommittedFreeListExact

\* The path never wedges, even with a single physical register to spare: while
\* it holds a uop, some cycle retires one or flushes.
NeverStuck == (rob_cnt > 0 \/ dq # <<>>) ~> (n_cmt > 0 \/ do_flush)

----------------------------------------------------------------------------
\* What the window of the abstract specification shows of a uop.
Shown(wp, dv, arf, s) == [wp |-> wp, d |-> IF dv THEN arf ELSE 0, s |-> s]

ShownRob(e) == Shown(e.wp, e.dv, e.arf, e.s)
ShownDq(u)  == Shown(u.wp, NeedsPhys(u), u.d, u.s)

Program == INSTANCE InOrderWindow WITH
  Uop         <- [wp : BOOLEAN, d : Arf, s : Arf],
  OnWrongPath <- LAMBDA u : u.wp,
  window      <- [i \in 1..rob_cnt + Len(dq) |->
                    IF i <= rob_cnt THEN ShownRob(rob_ent[At(i-1)])
                                    ELSE ShownDq(dq[i - rob_cnt])]

\* The partial-accept protocol between fetch, rename and dispatch, the ring
\* and the flush together keep program order: reorder buffer and decode queue
\* are one window whose uops are neither lost, duplicated nor reordered, and
\* only correct-path uops retire.
KeepsProgramOrder == Program!Spec
=============================================================================
