------------------------------ MODULE FrontEnd ------------------------------
(***************************************************************************)
(* The front-end simulator of preprocess/frontend/frontend_sim.cpp, one      *)
(* fetch block at a time: prediction in three stages, the wrong path behind  *)
(* a misprediction, and the update with what really happened.  A simulator   *)
(* is a record s of its predictors, the blocks it has met and the lengths    *)
(* of instructions it has learned; c is its configuration.                   *)
(***************************************************************************)
EXTENDS Tage, Predictors

CONSTANTS
  fe_fetch_width, ilen_bytes, max_blk_instr,
  learn_call_len

ASSUME FrontEndAssumption ==
  /\ {fe_fetch_width, ilen_bytes} \subseteq Nat \ {0}
  /\ max_blk_instr >= fe_fetch_width
  /\ learn_call_len \in BOOLEAN

\* D: wrongpath_depth; wp_out: where wrong-path bytes go.
FrontEndOptions ==
  [D : Nat, wp_out : {"inline", "separate", "none"},
   btb_dir_hint : BOOLEAN, wp_train_btb : BOOLEAN, wp_train_tage : BOOLEAN]

Start ==
  [ubtb |-> <<>>, btb |-> [i \in 0..btb_sets-1 |-> <<>>], ras |-> RasInit, tage |-> TageInit,
   smap |-> <<>>, ilen |-> <<>>]

\* f with f[x] = v.
Put(f, x, v) == [y \in DOMAIN f \cup {x} |-> IF y = x THEN v ELSE f[y]]
----------------------------------------------------------------------------
(* BlockReader: the rows of the trace from row on, up to the end of a block. *)

BlockLast(rows, row) ==
  Min({i \in row..Len(rows) :
         rows[i].is_block_end \/ rows[i].taken \/ i - row + 1 >= max_blk_instr \/ i = Len(rows)})

\* The first branches of a block, and the one that was taken.
Slots(brs) ==
  [i \in 1..FE_MAX_SLOTS |->
     IF i > Len(brs) THEN NoBranch
     ELSE [pc |-> brs[i].pc, type |-> brs[i].type, target |-> {brs[i].target} \ {0}]]
TakenSlot(brs) == Max({i \in DOMAIN brs : i <= FE_MAX_SLOTS /\ brs[i].taken} \cup {0})

\* mine: the rows of the block, brs: its branches.
Observed(mine, brs) ==
  LET z    == mine[Len(mine)]
      step == IF Len(mine) > 1 THEN z.pc - mine[Len(mine) - 1].pc ELSE 0
  IN [pc |-> mine[1].pc, last_pc |-> z.pc, n_instr |-> Len(mine), taken |-> z.taken,
      next_pc |-> z.next_pc, has_next |-> z.next_pc # 0,
      ilen_guess |-> IF step \in 1..8 THEN step ELSE ilen_bytes,
      obs |-> [n_br |-> Len(brs), br |-> Slots(brs), taken_idx |-> TakenSlot(brs),
               complete |-> ~z.taken, fallthru |-> {}]]

\* The branches of the rows, as they are read.
Branches(mine) ==
  LET read[j \in 0..Len(mine)] ==
        IF j = 0 THEN <<>> ELSE IF mine[j].type = "none" THEN read[j-1] ELSE Append(read[j-1], mine[j])
  IN read[Len(mine)]

read_raw(rows, row) ==
  LET mine == SubSeq(rows, row, BlockLast(rows, row)) IN Observed(mine, Branches(mine))

TargetOf(br) == IF br.target = {} THEN 0 ELSE CHOOSE t \in br.target : TRUE

\* Mutant: the guessed end of a block that was left early is believed.
fix_fallthruBelieved(b) ==
  [b EXCEPT !.obs.fallthru =
     {IF ~b.taken /\ b.has_next THEN b.next_pc ELSE b.last_pc + b.ilen_guess}]

\* Only a block that was not left by a branch shows where it ends.
fix_fallthru(b) ==
  [b EXCEPT !.obs.fallthru = IF ~b.taken /\ b.has_next THEN {b.next_pc} ELSE {}]

\* Where the block ends as far as the simulator can tell.
Fallthru(s, b) ==
  IF ~b.taken /\ b.has_next THEN b.next_pc
  ELSE b.last_pc + IF b.last_pc \in DOMAIN s.ilen THEN s.ilen[b.last_pc] ELSE b.ilen_guess

actual_next(s, b) ==
  IF b.has_next THEN b.next_pc
  ELSE IF b.taken /\ b.obs.taken_idx > 0 THEN TargetOf(b.obs.br[b.obs.taken_idx])
  ELSE Fallthru(s, b)
----------------------------------------------------------------------------
(* Prediction. *)

Straight(fall) == [taken |-> FALSE, next |-> fall, idx |-> 0, type |-> "none", fall |-> fall]

\* The first of the branches tk of entry x decides.
Flow(s, x, tk, fall) ==
  IF tk = {} THEN Straight(fall)
  ELSE LET b == x.br[Min(tk)]
       IN [taken |-> TRUE, next |-> IF b.type = "ret" THEN peek(s.ras) ELSE TargetOf(b),
           idx |-> Min(tk), type |-> b.type, fall |-> fall]

\* The branches of the entry that are predicted taken.
PredictedTaken(s, x, use_tage) ==
  {i \in DOMAIN x.br :
     /\ valid(x.br[i])
     /\ \/ uncond(x.br[i].type)
        \/ use_tage /\ tage_predict(s.tage, x.br[i].pc).taken
        \/ ~use_tage /\ x.hint[i] >= 2}

eval(s, entry, use_tage, seqfall) ==
  IF entry = {} THEN Straight(seqfall)
  ELSE LET x == CHOOSE y \in entry : TRUE
       IN Flow(s, x, PredictedTaken(s, x, use_tage),
               IF x.fallthru = {} THEN seqfall ELSE CHOOSE a \in x.fallthru : TRUE)

Same(a, b) == a.taken = b.taken /\ a.next = b.next

\* A prediction from those of the three stages.
Staged(pc, hit, s1, s2, s3) ==
  [ubtb_hit |-> hit, btb_override |-> ~Same(s2, s1), pc |-> pc,
   bubbles |-> IF ~Same(s3, s2) THEN 2 ELSE IF ~Same(s2, s1) THEN 1 ELSE 0] @@ s3

\* The prediction for the block at pc, and the simulator that has made it.
\* btb_dir_hint is read from the configuration and used nowhere.
predict(s, pc) ==
  LET seqfall == pc + fe_fetch_width * ilen_bytes
      ue  == ubtb_lookup(s.ubtb, pc)
      be  == btb_lookup(s.btb, pc)
  IN [s |-> [s EXCEPT !.ubtb = ubtb_touched(@, pc), !.btb = btb_touched(@, pc)],
      p |-> Staged(pc, ue # {}, eval(s, ue, FALSE, seqfall),
                   eval(s, be, FALSE, seqfall), eval(s, be, TRUE, seqfall))]

\* The history and the stack follow the prediction.
Followed(s, p) ==
  [s EXCEPT !.tage = IF p.taken /\ p.type = "cond" THEN push_history(@, TRUE) ELSE @,
            !.ras  = IF p.type = "call" THEN ras_push(@, p.fall, p.pc)
                     ELSE IF p.type = "ret" THEN ras_pop(@) ELSE @]

FeByte(p, dir_ok, tgt_ok, wrongpath) ==
  [bubbles |-> p.bubbles, ubtb_hit |-> p.ubtb_hit, btb_override |-> p.btb_override,
   dir_ok |-> dir_ok, tgt_ok |-> tgt_ok, wrongpath |-> wrongpath,
   redirect |-> ~wrongpath /\ ~(dir_ok /\ tgt_ok)]
----------------------------------------------------------------------------
(* The wrong path. *)

\* The branches of an observation that were executed.
Executed(o) == {i \in 1..IF o.taken_idx > 0 THEN o.taken_idx ELSE Least(o.n_br, FE_MAX_SLOTS) : valid(o.br[i])}

\* One branch more, which trains if it was executed and has a direction.
Taught(s, o, i, lucky) ==
  IF i \in Executed(o) /\ o.br[i].type = "cond"
    THEN [s EXCEPT !.tage = tage_update(@, o.br[i].pc, o.taken_idx = i, o.br[i].pc \in lucky)] ELSE s

TrainedOn(s, o, lucky) ==
  LET after[i \in 0..FE_MAX_SLOTS] == IF i = 0 THEN s ELSE Taught(after[i-1], o, i, lucky)
  IN after[FE_MAX_SLOTS]

Allocating(s, pc, o) == [s EXCEPT !.ubtb = ubtb_update(@, pc, o), !.btb = btb_update(@, pc, o)]

\* One block of the wrong path, at pc, with prediction r.
WrongBlock(c, r, pc, bytes, lucky) ==
  LET known == pc \in DOMAIN r.s.smap
      o     == r.s.smap[pc]
      a_taken == known /\ o.taken_idx > 0
      a_next  == IF ~known THEN pc + fe_fetch_width * ilen_bytes
                 ELSE IF a_taken THEN TargetOf(o.br[o.taken_idx])
                 ELSE IF o.fallthru = {} THEN 0 ELSE CHOOSE a \in o.fallthru : TRUE
      s1 == IF known /\ c.wp_train_tage THEN TrainedOn(r.s, o, lucky) ELSE r.s
      s2 == IF known /\ c.wp_train_btb THEN Allocating(s1, pc, o) ELSE s1
  IN [s |-> Followed(s2, r.p), pc |-> r.p.next,
      bytes |-> Append(bytes, FeByte(r.p, r.p.taken = a_taken, r.p.next = a_next, TRUE))]

\* w holds the simulator, the next address and the bytes so far.
wrongpath_block(c, w, lucky) == WrongBlock(c, predict(w.s, w.pc), w.pc, w.bytes, lucky)

\* Mutant: the stack is left as the wrong path made it.
UndoneHistory(s, saved) == [s EXCEPT !.tage = restore(@, saved.tage)]

\* The saved history and stack come back; what the buffers took in stays.
Undone(s, saved) == [s EXCEPT !.tage = restore(@, saved.tage), !.ras = saved.ras]

Returning(w, saved) == [s |-> Undone(w.s, saved), bytes |-> w.bytes]

\* The simulator back from D wrong blocks behind prediction p, and their bytes.
WrongPath(c, s, p, lucky) ==
  LET after[d \in 0..c.D] ==
        IF d = 0 THEN [s |-> Followed(s, p), pc |-> p.next, bytes |-> <<>>]
        ELSE wrongpath_block(c, after[d-1], lucky)
  IN Returning(after[c.D], s)
----------------------------------------------------------------------------
(* The update. *)

\* Mutant: a length is taken from a branch that left the block.
LearnedEnd(s, b) ==
  IF b.obs.n_br > 0 /\ b.has_next /\ b.next_pc - b.last_pc \in 1..8
    THEN [s EXCEPT !.ilen = Put(@, b.last_pc, b.next_pc - b.last_pc)] ELSE s

\* The length of the last instruction, from where the block went on.
Learned(s, b) ==
  IF b.obs.n_br > 0 /\ ~b.taken /\ b.has_next /\ b.next_pc - b.last_pc \in 1..8
    THEN [s EXCEPT !.ilen = Put(@, b.last_pc, b.next_pc - b.last_pc)] ELSE s

Called(s, pc) ==
  [s EXCEPT !.ras = ras_push(@, pc + IF pc \in DOMAIN s.ilen THEN s.ilen[pc] ELSE ilen_bytes, pc)]

\* A return shows the length of its call.
Returned(s, act) ==
  LET s1 == [s EXCEPT !.ras = ras_pop(@)]
      e  == {x \in Popped(s.ras) : x.addr # act /\ act - x.call_pc \in 1..8}
  IN IF learn_call_len /\ e # {}
       THEN LET x == CHOOSE y \in e : TRUE IN [s1 EXCEPT !.ilen = Put(@, x.call_pc, act - x.call_pc)]
       ELSE s1

Resolved(s, br, taken, act, lucky) ==
  CASE br.type = "cond" -> [s EXCEPT !.tage = push_history(tage_update(@, br.pc, taken, br.pc \in lucky), taken)]
    [] br.type = "call" -> Called(s, br.pc)
    [] br.type = "ret"  -> Returned(s, act)
    [] OTHER -> s

\* One branch more, if it was executed.
ResolvedAt(s, b, i, act, lucky) ==
  IF i \in Executed(b.obs) THEN Resolved(s, b.obs.br[i], b.obs.taken_idx = i, act, lucky) ELSE s

resolve(s, b, lucky) ==
  LET act == actual_next(s, b)
      s1  == Allocating(Learned(s, b), b.pc, b.obs)
      after[i \in 0..FE_MAX_SLOTS] == IF i = 0 THEN s1 ELSE ResolvedAt(after[i-1], b, i, act, lucky)
  IN after[FE_MAX_SLOTS]

merge_static(d, o) ==
  LET seen == Least(o.n_br, FE_MAX_SLOTS)
  IN [d EXCEPT !.br = [i \in 1..FE_MAX_SLOTS |->
                         IF i <= seen THEN o.br[i] ELSE IF o.complete THEN NoBranch ELSE @[i]],
               !.n_br = IF o.complete \/ o.n_br > @ THEN o.n_br ELSE @,
               !.taken_idx = o.taken_idx,
               !.fallthru = IF o.fallthru # {} THEN o.fallthru ELSE @]

\* The block is remembered for wrong paths that come to it.
Noted(s, b) ==
  [s EXCEPT !.smap = Put(@, b.pc, merge_static(IF b.pc \in DOMAIN @ THEN @[b.pc] ELSE NoObs, b.obs))]

\* Block b is over and its byte is fb; w is what the wrong path left.
BlockOver(w, b, fb, lucky) ==
  [s |-> Noted(resolve(w.s, b, lucky), b), byte |-> fb, wp |-> w.bytes]

\* What was predicted is compared with block b.
Judged(c, s, r, b, lucky) ==
  LET fb == FeByte(r.p, r.p.taken = b.taken, r.p.next = actual_next(s, b), FALSE)
  IN BlockOver(IF fb.redirect /\ c.D > 0 THEN WrongPath(c, r.s, r.p, lucky) ELSE [s |-> r.s, bytes |-> <<>>],
               b, fb, lucky)

\* FrontendSim::run for one block: the simulator, its byte and the bytes of
\* the wrong path.
RunBlock(c, s, raw, lucky) == Judged(c, s, predict(s, raw.pc), fix_fallthru(raw), lucky)

\* emit and emit_wp: the two files after a block.
Emitted(c, fe, r) == fe \o <<r.byte>> \o IF c.wp_out = "inline" THEN r.wp ELSE <<>>
EmittedWp(c, wp, r) == IF c.wp_out = "separate" THEN wp \o r.wp ELSE wp
=============================================================================
