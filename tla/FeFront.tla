------------------------------- MODULE FeFront -------------------------------
(***************************************************************************)
(* model/ooo/frontend/fe_front.v: the front end takes records of one fetch  *)
(* block at a time from the window it is shown into the decode queue, waits *)
(* out the block's bubbles first, and asks for the wrong path when the end  *)
(* of a block with a mispredicted direction is taken.                       *)
(***************************************************************************)
EXTENDS Refill

CONSTANTS
  DQ_N,            \* decode-queue entries
  cfg_fetch_width  \* records taken per cycle at most

ASSUME FrontAssumption == DQ_N \in Nat \ {0} /\ cfg_fetch_width \in 1..W

VARIABLES
  dq,         \* dq_q, dq_cnt_q: the decode queue
  bub,        \* bub_q: bubbles still to wait out
  blk_seen,   \* blk_seen_q: the event of the block being taken is known
  shadow      \* shadow_q: fetch has been sent down the wrong path

frontVars == <<dq, bub, blk_seen, shadow>>

FrontInit == dq = <<>> /\ bub = 0 /\ blk_seen = FALSE /\ shadow = FALSE

n_pres      == Min({Len(dq), W})
n_out(room) == Min({n_pres, room})

eff_bub(win) == IF ~blk_seen /\ win # <<>> THEN Event(win[1]).bubbles ELSE bub

\* The length of the block's rest in the window, W + 1 when its end is beyond.
n_blk(win) == Min({W + 1} \cup {i \in 1..Len(win) : BlkEnd(win[i])})

n_space(room) == Min({W, DQ_N - (Len(dq) - n_out(room))})

n_in(win, room) ==
  IF eff_bub(win) # 0 THEN 0
  ELSE Min({Len(win), n_blk(win), cfg_fetch_width, n_space(room)})

blk_end_taken(win, room) == n_in(win, room) # 0 /\ n_in(win, room) >= n_blk(win)

mis_now(win, room) ==
  /\ blk_end_taken(win, room)
  /\ Event(win[1]).redirect /\ ~Event(win[1]).dir_ok
  /\ ~shadow

\* Mutant: what was presented and not accepted is not kept.
FrontCycleAllOrNothing(win, room) ==
  /\ dq' = SubSeq(dq, (IF n_out(room) > 0 THEN n_pres ELSE 0) + 1, Len(dq))
             \o SubSeq(win, 1, n_in(win, room))
  /\ bub' = IF eff_bub(win) # 0 THEN eff_bub(win) - 1 ELSE 0
  /\ blk_seen' = (~blk_end_taken(win, room) /\ (blk_seen \/ win # <<>>))
  /\ shadow' = (shadow \/ mis_now(win, room))

\* A clock edge without a flush.
FrontCycle(win, room) ==
  /\ dq' = SubSeq(dq, n_out(room) + 1, Len(dq)) \o SubSeq(win, 1, n_in(win, room))
  /\ bub' = IF eff_bub(win) # 0 THEN eff_bub(win) - 1 ELSE 0
  /\ blk_seen' = (~blk_end_taken(win, room) /\ (blk_seen \/ win # <<>>))
  /\ shadow' = (shadow \/ mis_now(win, room))

\* A clock edge with one.
FrontFlush == dq' = <<>> /\ bub' = 0 /\ blk_seen' = FALSE /\ shadow' = FALSE
=============================================================================
