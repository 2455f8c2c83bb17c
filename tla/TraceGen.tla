------------------------------ MODULE TraceGen ------------------------------
(***************************************************************************)
(* The trace generator of preprocess/spike/bstf_gen.cc and the checker of    *)
(* its files, bstf_check.cc.  The generator reads the log of retired         *)
(* instructions one behind, cuts it into fetch blocks and, in its second     *)
(* run, walks the wrong path behind every block that the front end marked.   *)
(* A generator is a record g of its counters and files.  What an instruction *)
(* computes is not modelled: w chooses what the walk would have computed.    *)
(***************************************************************************)
EXTENDS Integers, Sequences, FiniteSets, SequencesExt, FiniteSetsExt

CONSTANTS
  fetch_width, line_bytes, split_line,
  shadow_k, shadow_blocks

ASSUME TraceGenAssumption ==
  /\ {fetch_width, line_bytes, shadow_k, shadow_blocks} \subseteq Nat \ {0}
  /\ split_line \in BOOLEAN

\* An instruction d of a program: d.len bytes of a kind, with the addresses
\* that it can go to; d.has_target when the target is in the instruction.  A
\* jalr that links is a call and has not.
Ctrl(d)   == d.kind \in {"cond", "jal", "jalr", "ret", "call"}
Direct(d) == Ctrl(d) /\ d.has_target
Mem(d)    == d.kind \in {"ld", "st"}
target(d) == CHOOSE a \in d.to : TRUE
Line(a)   == a \div line_bytes

GenInit ==
  [rec |-> <<>>, rows |-> <<>>, pend |-> <<>>, blk |-> <<>>, n_fe |-> 0,
   n_mem |-> 0, mem_rows |-> 0, blk_mem |-> 0, n_ifetch |-> 0,
   refs |-> <<>>, shadow |-> <<>>, memwp |-> <<>>, cpu |-> 0, finished |-> FALSE]

Record(kind, be, fed, memd) ==
  [class |-> kind, is_block_end |-> be, fe_index_delta |-> fed, mem_index_delta |-> memd, shadow |-> <<>>]

\* A block that has grown to n instructions from start and goes on at next.
BlockEnds(d, pc, start, n, next, taken) ==
  \/ Ctrl(d) /\ taken
  \/ n >= fetch_width
  \/ next # pc + d.len
  \/ split_line /\ Line(next) # Line(start)
----------------------------------------------------------------------------
(* The wrong path. *)

\* Where the wrong path behind a block starts, if that can be told.
WrongSide(prog, blk, d, pc, taken) ==
  LET conds == {i \in DOMAIN blk : prog[blk[i]].kind = "cond"}
  IN CASE d.kind = "cond" -> IF taken THEN {pc + d.len} ELSE {target(d)}
       [] d.kind # "cond" /\ Direct(d) -> {pc + d.len}
       [] Ctrl(d) /\ ~Direct(d) -> {}
       [] OTHER -> IF conds = {} THEN {} ELSE {target(prog[blk[Max(conds)]])}

WalkNext(d, pc, w) ==
  CASE d.kind = "cond" -> IF w.dir THEN target(d) ELSE pc + d.len
    [] d.kind # "cond" /\ Direct(d) -> target(d)
    [] Ctrl(d) /\ ~Direct(d) -> w.to
    [] OTHER -> pc + d.len

\* One instruction of the walk x.  It stops where nothing is mapped and at
\* what the engine does not execute.
Walked(prog, w, x) ==
  LET d     == prog[x.pc]
      next  == WalkNext(d, x.pc, w)
      start == IF x.inblk = 0 THEN x.pc ELSE x.start
      be    == \/ BlockEnds(d, x.pc, start, x.inblk + 1, next, next # x.pc + d.len)
               \/ Len(x.recs) + 1 >= shadow_k
      acc   == Mem(d) /\ ~w.fault
      r     == Record(d.kind, be, IF x.inblk = 0 THEN 1 ELSE 0, IF acc /\ x.mem # <<>> THEN 1 ELSE 0)
  IN IF x.stop \/ x.nblk >= shadow_blocks THEN x
     ELSE IF x.pc \notin DOMAIN prog THEN [x EXCEPT !.stop = TRUE]
     ELSE IF d.kind = "sys" THEN [x EXCEPT !.stop = TRUE]
     ELSE [pc |-> next, start |-> start, stop |-> FALSE,
           nblk |-> x.nblk + IF be THEN 1 ELSE 0, inblk |-> IF be THEN 0 ELSE x.inblk + 1,
           recs |-> Append(x.recs, r),
           mem |-> IF acc THEN Append(x.mem, [at |-> Len(x.recs), st |-> d.kind = "st"]) ELSE x.mem]

Walk(prog, w, from) ==
  FoldLeft(LAMBDA x, i : Walked(prog, w, x),
           [pc |-> from, start |-> from, stop |-> FALSE, nblk |-> 0, inblk |-> 0, recs |-> <<>>, mem |-> <<>>],
           [i \in 1..shadow_k |-> i])

\* Where the predicted target cannot be known: filler of full blocks.
Degenerate ==
  [i \in 1..shadow_k |->
     Record("alu", i % fetch_width = 0 \/ i = shadow_k, IF (i - 1) % fetch_width = 0 THEN 1 ELSE 0, 0)]

Pad == Record("nop", FALSE, 0, 0)

Shadowed(g, from, recs, mem) ==
  [g EXCEPT !.shadow = @ \o recs \o [i \in 1..shadow_k - Len(recs) |-> Pad],
            !.memwp = @ \o [i \in DOMAIN mem |->
                              [idx |-> Len(g.shadow) + mem[i].at, st |-> mem[i].st, after |-> g.n_mem]],
            !.refs = Append(@, [rec |-> Len(g.rec), len |-> Len(recs), cpu |-> g.cpu, from |-> from])]

gen_shadow(g, prog, d, pc, taken, w) ==
  LET from == WrongSide(prog, g.blk, d, pc, taken)
      x    == IF from = {} THEN [recs |-> Degenerate, mem |-> <<>>]
              ELSE Walk(prog, w, CHOOSE a \in from : TRUE)
  IN Shadowed(g, from, x.recs, x.mem)
----------------------------------------------------------------------------
(* The right path. *)

flush_block(g, end_pc) ==
  [g EXCEPT !.rows = @ \o g.pend, !.pend = <<>>, !.blk = <<>>, !.n_fe = @ + 1,
            !.mem_rows = @ + g.blk_mem, !.blk_mem = 0,
            !.n_ifetch = @ + Line(end_pc - 1) - Line(g.blk[1]) + 1]

\* Mutant: every access moves the index of .mem on.
MemDeltaAlways(g, d) == IF Mem(d) THEN 1 ELSE 0

\* Only the second and later accesses do: the first one is index 0.
MemDelta(g, d) == IF Mem(d) /\ g.n_mem > 0 THEN 1 ELSE 0

\* fe: the bytes of the front end, none in the first run.
emit(g, prog, pc, next, last, fe, w) ==
  LET d     == prog[pc]
      taken == Ctrl(d) /\ (next # pc + d.len \/ d.kind # "cond")
      blk   == Append(g.blk, pc)
      be    == BlockEnds(d, pc, blk[1], Len(blk), next, taken) \/ last
      row   == [pc |-> pc, type |-> IF Ctrl(d) THEN d.kind ELSE "none", taken |-> taken,
                target |-> IF Direct(d) THEN target(d) ELSE IF Ctrl(d) THEN next ELSE 0,
                is_block_end |-> be, next_pc |-> IF last THEN 0 ELSE next]
      g1 == [g EXCEPT !.blk = blk, !.pend = Append(@, row),
                      !.rec = Append(@, Record(d.kind, be, IF g.blk = <<>> THEN 1 ELSE 0, MemDelta(g, d))),
                      !.n_mem = @ + IF Mem(d) THEN 1 ELSE 0, !.blk_mem = @ + IF Mem(d) THEN 1 ELSE 0]
      marked == g.n_fe < Len(fe) /\ fe[g.n_fe + 1].redirect
  IN IF ~be THEN g1
     ELSE flush_block(IF marked THEN gen_shadow(g1, prog, d, pc, taken, w) ELSE g1, pc + d.len)

\* What stops the trace at its record n for pc.
Stops(o, n, pc) == (o.count > 0 /\ n >= o.count) \/ pc = o.stop_pc

\* Mutant: the instruction just logged is executed before the shadow is made.
headerEager(g, prog, log, k, o, fe, w) ==
  LET g0   == [g EXCEPT !.cpu = k - 1]
      last == Stops(o, Len(g.rec) + 1, log[k - 2])
  IN IF k < 3 THEN g0
     ELSE [emit(g0, prog, log[k - 2], log[k - 1], last, fe, w) EXCEPT !.finished = last]

\* The k-th instruction of the log appears: the one before it is complete, so
\* the one before that can be written.
header(g, prog, log, k, o, fe, w) ==
  LET last == Stops(o, Len(g.rec) + 1, log[k - 2])
      g1   == IF k < 3 THEN g
              ELSE [emit(g, prog, log[k - 2], log[k - 1], last, fe, w) EXCEPT !.finished = last]
  IN [g1 EXCEPT !.cpu = k - 1]

\* The log is at its end.
drain(g, prog, log, fe, w) ==
  LET n  == Len(log)
      g1 == IF n >= 2 THEN emit(g, prog, log[n - 1], log[n], FALSE, fe, w) ELSE g
  IN IF g.finished \/ n = 0 THEN g
     ELSE emit(g1, prog, log[n], log[n] + prog[log[n]].len, TRUE, fe, w)

\* The records when the references to the shadows have been patched in.
Patched(g) ==
  [i \in DOMAIN g.rec |->
     [g.rec[i] EXCEPT !.shadow =
        SelectSeq([k \in DOMAIN g.refs |-> [at |-> (k - 1) * shadow_k, len |-> g.refs[k].len, of |-> g.refs[k].rec]],
                  LAMBDA r : r.of = i)]]
----------------------------------------------------------------------------
(* bstf_check.cc *)

Sum(f, S) == FoldSet(LAMBDA i, n : f[i] + n, 0, S)
Fed(rec)  == [i \in DOMAIN rec |-> rec[i].fe_index_delta]
Memd(rec) == [i \in DOMAIN rec |-> rec[i].mem_index_delta]

MemClass(r) == r.class \in {"ld", "st"}

\* CONTRACT G4: the index of record i, and what it must come to.
G4(delta, i)  == Sum(delta, 1..i) - delta[1]
Reaches(delta, used, n) ==
  /\ \A i \in used : G4(delta, i) < n
  /\ Max({G4(delta, i) : i \in used} \cup {0}) = Max({n - 1, 0})
  /\ G4(delta, Len(delta)) = Max({n - 1, 0})

RecordsAccepted(rec, g) ==
  /\ Sum(Fed(rec), DOMAIN rec) = g.n_fe
  /\ Reaches(Fed(rec), DOMAIN rec, g.n_fe)
  /\ Reaches(Memd(rec), {i \in DOMAIN rec : MemClass(rec[i])}, g.n_mem)
  /\ \A i \in DOMAIN rec : rec[i].mem_index_delta > 0 => MemClass(rec[i])
  /\ Cardinality({i \in DOMAIN rec : MemClass(rec[i])}) = g.n_mem
  /\ Cardinality({i \in DOMAIN rec : rec[i].is_block_end}) = g.n_fe

\* CONTRACT G5: shadow k is at k strides, and nothing but padding follows it.
ShadowsAccepted(rec, g) ==
  LET with  == SelectSeq([i \in DOMAIN rec |-> rec[i].shadow], LAMBDA s : s # <<>>)
      ofs   == [k \in DOMAIN with |-> with[k][1]]
      n     == Len(g.shadow)
      K     == n \div Len(with)
  IN IF n = 0 THEN with = <<>>
     ELSE /\ with # <<>> /\ n = K * Len(with)
          /\ \A k \in DOMAIN ofs :
               /\ ofs[k].at = (k - 1) * K /\ ofs[k].len <= K
               /\ \A j \in ofs[k].len + 1..K : g.shadow[ofs[k].at + j] = Pad
          /\ \A i \in DOMAIN g.memwp :
               /\ g.memwp[i].idx < n /\ MemClass(g.shadow[g.memwp[i].idx + 1])
               /\ (g.shadow[g.memwp[i].idx + 1].class = "st") = g.memwp[i].st
               /\ i > 1 => g.memwp[i].idx >= g.memwp[i - 1].idx

RowsAccepted(rec, g) ==
  /\ Len(g.rows) = Len(rec)
  /\ \A i \in 1..Len(g.rows) - 1 : g.rows[i].next_pc = g.rows[i + 1].pc
  /\ g.rows[Len(g.rows)].next_pc = 0
  /\ g.mem_rows = g.n_mem /\ g.n_ifetch >= g.n_fe

Accepted(g) == LET rec == Patched(g) IN RecordsAccepted(rec, g) /\ ShadowsAccepted(rec, g) /\ RowsAccepted(rec, g)
=============================================================================
