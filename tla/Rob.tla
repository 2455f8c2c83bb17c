--------------------------------- MODULE Rob ---------------------------------
(***************************************************************************)
(* model/ooo/backend/be_rob.v and be_dispatch.v: the reorder buffer, a ring *)
(* of cfg_rob_entries entries whose head and count be_rob keeps and whose   *)
(* tail be_dispatch keeps.  The payload registers of an entry whose rob_v   *)
(* is 0 hold stale bits that nothing reads; the model holds NoUop there.    *)
(***************************************************************************)
EXTENDS Ifc

VARIABLES
  rob_v,       \* entry in use
  rob_done,    \* entry has been written back (stale in a free entry)
  rob_ent,     \* rob_wp, rob_dv, rob_a, rob_d and, for the source register,
               \* the copy of the uop that the issue queue holds
  rob_head,    \* oldest entry
  rob_cnt,     \* entries in use
  rob_tail     \* be_dispatch's next entry to allocate

robVars == <<rob_v, rob_done, rob_ent, rob_head, rob_cnt, rob_tail>>

NoUop == [wp |-> FALSE, dv |-> FALSE, arf |-> 0, prf |-> 0, s |-> 0, src |-> 0]

\* A ring index moved past the last configured entry starts over at 0.
Wrap(i) == IF i >= cfg_rob_entries THEN i - cfg_rob_entries ELSE i

\* The entry k places after the head.
At(k) == Wrap(rob_head + k)

\* The entries of the ring that are in use, oldest first.
Window == {At(k) : k \in 0..rob_cnt-1}

\* Mutant: the scan is bounded by the valid bits alone, which a ring smaller
\* than the commit width shows twice.
CommittableAnyCount(k) ==
  /\ k < cfg_commit_width
  /\ rob_v[At(k)] /\ rob_done[At(k)]

\* The commit scan of one cycle looks at the entry k places after the head.
Committable(k) ==
  /\ k < cfg_commit_width
  /\ k < rob_cnt
  /\ rob_v[At(k)] /\ rob_done[At(k)]

Retires(k) == Committable(k) /\ ~rob_ent[At(k)].wp

\* The scan retires correct-path uops until the first entry it cannot retire.
n_cmt ==
  CHOOSE n \in 0..W : (\A k \in 0..n-1 : Retires(k)) /\ (n < W => ~Retires(n))

\* It stops with a flush when that entry is a finished wrong-path uop.
do_flush == n_cmt < W /\ Committable(n_cmt) /\ rob_ent[At(n_cmt)].wp

\* The retirements of this cycle as the rename stage sees them.
Commits ==
  [k \in 1..n_cmt |-> LET e == rob_ent[At(k-1)] IN
                      [dv |-> e.dv, arf |-> e.arf, prf |-> e.prf]]

\* Room be_rob reports, and the uops be_dispatch takes when the issue queue
\* and the load/store queues together have room for `room'.
rob_nfree == AtMost(cfg_rob_entries - rob_cnt, W)
rn_nready(room) == IF do_flush THEN 0 ELSE AtMost(rob_nfree, room)

----------------------------------------------------------------------------
RobInit ==
  /\ rob_v    = [i \in RobIx |-> FALSE]
  /\ rob_done = [i \in RobIx |-> FALSE]
  /\ rob_ent  = [i \in RobIx |-> NoUop]
  /\ rob_head = 0 /\ rob_cnt = 0 /\ rob_tail = 0

\* The lane of a dispatched bundle of n uops that goes to entry i, or 0.
LaneOf(i, n) == Max({0} \cup {j \in 1..n : Wrap(rob_tail + j - 1) = i})

\* A clock edge without flush: retire, mark the entries wb as written back,
\* and allocate an entry for each uop of ds.
RobCycle(ds, wb) ==
  LET n == Len(ds)
      retired == {At(k) : k \in 0..n_cmt-1}
  IN /\ rob_head' = At(n_cmt)
     /\ rob_cnt'  = rob_cnt + n - n_cmt
     /\ rob_tail' = Wrap(rob_tail + n)
     /\ rob_v'    = [i \in RobIx |-> LaneOf(i, n) # 0 \/ (rob_v[i] /\ i \notin retired)]
     /\ rob_done' = [i \in RobIx |-> LaneOf(i, n) = 0 /\ (rob_done[i] \/ i \in wb)]
     /\ rob_ent'  = [i \in RobIx |-> IF LaneOf(i, n) # 0 THEN ds[LaneOf(i, n)]
                                     ELSE IF i \in retired THEN NoUop ELSE rob_ent[i]]

\* A clock edge with flush empties the ring.
RobFlush == 
  /\ rob_v'    = [i \in RobIx |-> FALSE]
  /\ rob_done' = [i \in RobIx |-> FALSE]
  /\ rob_ent'  = [i \in RobIx |-> NoUop]
  /\ rob_head' = 0 /\ rob_cnt' = 0 /\ rob_tail' = 0
=============================================================================
