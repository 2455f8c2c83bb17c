-------------------------------- MODULE Refill --------------------------------
(***************************************************************************)
(* lib/runtime/refill.c: one lane of the runtime's side of fetch.  Records  *)
(* are gathered ahead into a staging queue, shown to the model W at a time, *)
(* and consumed as it says; a redirect takes the lane into the shadow of a  *)
(* branch or, at the flush, back to the correct path.                       *)
(***************************************************************************)
EXTENDS Trace, FiniteSetsExt, SequencesExt

CONSTANTS
  W,    \* BSTM_W: records shown per cycle
  M     \* BSTM_REFILL_M: staging depth

ASSUME RefillAssumption == W \in Nat \ {0} /\ M \in Nat /\ M >= 2 * W

VARIABLE lane   \* bstm_lane_t

Nowhere == [rec |-> 0, fe |-> 0]
Pos(e)  == [rec |-> e.rec, fe |-> e.fe]

\* decode_entry: what is staged of the record at cursor c.
Entry(c) ==
  [rec |-> c.rec, fe |-> c.fe, off |-> c.off, sh |-> c.off = 0 /\ Shadow(c.rec) # <<>>]

Stocked(l, n) ==
  [l EXCEPT !.stage = @ \o [i \in 1..n |-> Entry(Advance(l.cur, i - 1))],
            !.cur   = Advance(@, n)]

\* Mutant: at the end of a shadow the lane goes back by itself.
GatherReturns(l) ==
  LET n   == Min({M - Len(l.stage), Left(l.cur)})
      dry == Len(l.stage) + n < M
      g   == Stocked(l, n)
  IN  [g EXCEPT !.fstate = "CORRECT", !.cur = IF dry THEN LeaveShadow(@) ELSE @,
                !.eof    = @ \/ (dry /\ l.fstate = "CORRECT")]

\* bstm_refill_gather: up to M records, as far as there are any.
Gather(l) ==
  LET n   == Min({M - Len(l.stage), Left(l.cur)})
      dry == Len(l.stage) + n < M
  IN  [Stocked(l, n) EXCEPT
         !.fstate = IF dry /\ @ = "SHADOW" THEN "STARVED" ELSE @,
         !.eof    = @ \/ (dry /\ l.fstate = "CORRECT")]

RefillInit ==
  lane = Gather([cur |-> CurInit, stage |-> <<>>, eof |-> FALSE, fstate |-> "CORRECT",
                 last_br_fe |-> 0, branch |-> 0, hi_resume |-> 0, resolved |-> 0,
                 n_enter |-> 0, n_leave |-> 0, n_nobranch |-> 0, n_resolved |-> 0,
                 cp_consumed |-> 0, wp_consumed |-> 0,
                 br_consumed |-> Nowhere, last_deliv |-> Nowhere])

\* bstm_refill_window: stock up when fewer than W are left, and show them.
Window(l) == IF Len(l.stage) < W /\ ~l.eof THEN Gather(l) ELSE l
Shown(l)  == SubSeq(l.stage, 1, Min({W, Len(l.stage)}))

----------------------------------------------------------------------------
\* do_enter: into the shadow of the branch at br, to resume after it or, when
\* more has been delivered, after the last record delivered.
DoEnter(l, br, after) ==
  LET c    == EnterShadow([rec |-> br.rec, fe |-> br.fe, off |-> 0, sv |-> Nowhere])
      next == Advance([rec |-> after.rec, fe |-> after.fe, off |-> 0, sv |-> Nowhere], 1)
      cur  == IF after # Nowhere /\ after.rec + 1 > c.sv.rec
              THEN [c EXCEPT !.sv = [rec |-> next.rec, fe |-> next.fe]] ELSE c
  IN  [l EXCEPT !.cur = cur, !.last_br_fe = br.fe, !.branch = br.rec,
                !.hi_resume = cur.sv.rec, !.fstate = "SHADOW", !.n_enter = @ + 1]

StagedBranches(l) == {i \in 1..Len(l.stage) : l.stage[i].sh}

\* Mutant: the staged records after the branch are kept.
EnterKeepsStage(l) ==
  IF l.fstate # "CORRECT" THEN l
  ELSE IF l.stage # <<>> /\ l.stage[1].fe = l.resolved
    THEN [l EXCEPT !.n_resolved = @ + 1]
  ELSE IF StagedBranches(l) # {} THEN
    LET i == Min(StagedBranches(l))
    IN  [DoEnter(l, Pos(l.stage[i]), Nowhere) EXCEPT !.stage[i].sh = FALSE]
  ELSE IF l.br_consumed # Nowhere THEN
    [DoEnter(l, l.br_consumed, l.last_deliv) EXCEPT !.stage = <<>>]
  ELSE [l EXCEPT !.n_nobranch = @ + 1]

\* lane_enter_shadow: of the first staged branch with a shadow, else of the
\* one consumed this cycle.
Enter(l) ==
  IF l.fstate # "CORRECT" THEN l
  ELSE IF l.stage # <<>> /\ l.stage[1].fe = l.resolved
    THEN [l EXCEPT !.n_resolved = @ + 1]
  ELSE IF StagedBranches(l) # {} THEN
    LET i == Min(StagedBranches(l))
    IN  [DoEnter(l, Pos(l.stage[i]), Nowhere)
          EXCEPT !.stage = [SubSeq(@, 1, i) EXCEPT ![i].sh = FALSE]]
  ELSE IF l.br_consumed # Nowhere THEN
    [DoEnter(l, l.br_consumed, l.last_deliv) EXCEPT !.stage = <<>>]
  ELSE [l EXCEPT !.n_nobranch = @ + 1]

\* The staged records before the first one of a wrong path.
CorrectPrefix(stage) ==
  SubSeq(stage, 1, Min({Len(stage) + 1} \cup {i \in DOMAIN stage : OnWrongPath(stage[i])}) - 1)

\* Mutant: a starved lane does not hear the flush.
LeaveUnlessStarved(l) ==
  IF l.fstate # "SHADOW" THEN l
  ELSE [l EXCEPT !.stage = CorrectPrefix(@),
                 !.resolved = l.last_br_fe, !.cur = LeaveShadow(@),
                 !.fstate = "CORRECT", !.n_leave = @ + 1, !.eof = FALSE]

\* lane_leave_shadow: the wrong-path end of the staging queue goes, and the
\* cursor with it.
Leave(l) ==
  IF l.fstate = "CORRECT" THEN l
  ELSE [l EXCEPT !.stage = CorrectPrefix(@),
                 !.resolved = l.last_br_fe, !.cur = LeaveShadow(@),
                 !.fstate = "CORRECT", !.n_leave = @ + 1, !.eof = FALSE]

\* The position of the last of the records s[i], i in S.
LastPos(s, S) == IF S = {} THEN Nowhere ELSE Pos(s[Max(S)])

\* bstm_refill_consume, the first part: what the model took is accounted for.
Taken(l, take) ==
  LET n  == Min({take, Len(l.stage)})
      cp == {i \in 1..n : ~OnWrongPath(l.stage[i])}
      br == {i \in cp : l.stage[i].sh}
  IN  [l EXCEPT !.stage = SubSeq(@, n + 1, Len(@)),
                !.cp_consumed = @ + Cardinality(cp),
                !.wp_consumed = @ + n - Cardinality(cp),
                !.last_deliv  = LastPos(l.stage, cp), !.br_consumed = LastPos(l.stage, br)]

\* bstm_refill_consume, the second part: a redirect is obeyed, and what is
\* staged is made up again.
Redirected(l, redir_shadow) == Gather(IF redir_shadow THEN Enter(l) ELSE Leave(l))

----------------------------------------------------------------------------
\* Mutant: a lane waiting in a shadow counts as done.
LaneDoneAnywhere(l) == l.eof /\ l.stage = <<>>

\* bstm_refill_done_mask.
LaneDone(l) == l.eof /\ l.stage = <<>> /\ l.fstate = "CORRECT"
=============================================================================
