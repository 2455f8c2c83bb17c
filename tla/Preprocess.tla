----------------------------- MODULE Preprocess -----------------------------
(***************************************************************************)
(* The way of a trace through the tools of preprocess/: the generator reads  *)
(* the log of a program and writes records and rows, the front-end simulator *)
(* reads the rows and writes one byte per fetch block, and the generator     *)
(* runs again over the same log with these bytes to add the wrong paths.     *)
(***************************************************************************)
EXTENDS FrontEnd, TraceGen

CONSTANTS
  Cases,   \* what a run is about: a program, the options of the tools, and
           \* what data and random numbers would decide, see PreprocessAssumption
  LogMax   \* retired instructions in a log

ASSUME PreprocessAssumption ==
  /\ LogMax \in Nat \ {0}
  /\ max_blk_instr >= fetch_width
  /\ fetch_width <= FE_MAX_SLOTS
  /\ \A k \in Cases :
       /\ DOMAIN k.prog \subseteq Nat \ {0} /\ \A pc \in DOMAIN k.prog : k.prog[pc].len \in Nat
       /\ k.fe \in FrontEndOptions /\ k.lucky \subseteq DOMAIN k.prog
       /\ k.o.count \in Nat /\ {k.w.dir, k.w.fault} \subseteq BOOLEAN

VARIABLES
  case,    \* an element of Cases
  phase,   \* "log", "front", "again" or "done"
  log,     \* addresses of the retired instructions
  gen,     \* the generator of this run
  rows,    \* the rows of the first run
  at,      \* the next row, or the next instruction of the log
  sim,     \* the front-end simulator
  twin,    \* one that never leaves the right path
  fe, wp   \* the bytes of the two files

vars == <<case, phase, log, gen, rows, at, sim, twin, fe, wp>>

prog == case.prog
----------------------------------------------------------------------------
\* The calls that are open after one more instruction of program p.
Through(p, open, pc) ==
  CASE p[pc].kind = "call" -> Append(open, pc)
    [] p[pc].kind = "ret" /\ open # <<>> -> Front(open)
    [] OTHER -> open

\* The calls that are open after these instructions, the last one last.
OpenAfter(p, pcs) ==
  LET open[i \in 0..Len(pcs)] == IF i = 0 THEN <<>> ELSE Through(p, open[i-1], pcs[i])
  IN open[Len(pcs)]
Open(pcs) == OpenAfter(prog, pcs)

\* Where the program can go on: external, the program under Spike.
Successors(pcs) ==
  LET pc   == Last(pcs)
      d    == prog[pc]
      seq  == pc + d.len
      open == Open(pcs)
  IN DOMAIN prog \cap
     CASE d.kind = "cond" -> {seq} \cup d.to
       [] d.kind = "ret"  -> IF Open(Front(pcs)) = <<>> THEN {}
                             ELSE LET call == Last(Open(Front(pcs))) IN {call + prog[call].len}
       [] d.kind \in {"jal", "jalr", "call"} -> d.to
       [] d.kind = "sys"  -> IF d.to = {} THEN {seq} ELSE d.to
       [] OTHER -> {seq}

Init ==
  /\ case \in Cases
  /\ phase = "log" /\ log = <<>> /\ gen = GenInit
  /\ rows = <<>> /\ at = 1
  /\ sim = Start /\ twin = Start
  /\ fe = <<>> /\ wp = <<>>

\* Spike retires an instruction into the pipe of the first run.
Retire(pc) ==
  /\ phase = "log" /\ ~gen.finished /\ Len(log) < LogMax
  /\ pc \in IF log = <<>> THEN {Min(DOMAIN prog)} ELSE Successors(log)
  /\ log' = Append(log, pc)
  /\ gen' = header(gen, prog, log', Len(log'), case.o, <<>>, case.w)
  /\ UNCHANGED <<case, phase, rows, at, sim, twin, fe, wp>>

\* The first run ends with its log or with what stopped it.
LogEnds ==
  /\ phase = "log"
  /\ gen.finished \/ Len(log) = LogMax \/ (log # <<>> /\ Successors(log) = {})
  /\ gen' = drain(gen, prog, log, <<>>, case.w)
  /\ rows' = gen'.rows /\ phase' = "front"
  /\ UNCHANGED <<case, log, at, sim, twin, fe, wp>>

\* r: what the simulator makes of it, t: what the one without wrong paths does.
RanBlock(raw, r, t) ==
  /\ at' = at + raw.n_instr
  /\ sim' = r.s /\ twin' = t.s
  /\ fe' = Emitted(case.fe, fe, r) /\ wp' = EmittedWp(case.fe, wp, r)
  /\ UNCHANGED <<case, phase, log, gen, rows>>

\* The front end takes the next block.
Block ==
  /\ phase = "front" /\ at <= Len(rows)
  /\ LET raw == read_raw(rows, at)
     IN RanBlock(raw, RunBlock(case.fe, sim, raw, case.lucky),
                 RunBlock([case.fe EXCEPT !.D = 0], twin, raw, case.lucky))

FrontEnds ==
  /\ phase = "front" /\ at > Len(rows)
  /\ phase' = "again" /\ gen' = GenInit /\ at' = 1
  /\ UNCHANGED <<case, log, rows, sim, twin, fe, wp>>

\* The second run over the same log.
Again ==
  /\ phase = "again" /\ ~gen.finished /\ at <= Len(log)
  /\ gen' = header(gen, prog, SubSeq(log, 1, at), at, case.o, fe, case.w)
  /\ at' = at + 1
  /\ UNCHANGED <<case, phase, log, rows, sim, twin, fe, wp>>

AgainEnds ==
  /\ phase = "again" /\ (gen.finished \/ at > Len(log))
  /\ gen' = drain(gen, prog, log, fe, case.w)
  /\ phase' = "done"
  /\ UNCHANGED <<case, log, rows, at, sim, twin, fe, wp>>

Next == (\E pc \in DOMAIN prog : Retire(pc)) \/ LogEnds \/ Block \/ FrontEnds \/ Again \/ AgainEnds

Spec == Init /\ [][Next]_vars
----------------------------------------------------------------------------
(* What the front end knows. *)

TypeOK ==
  /\ phase \in {"log", "front", "again", "done"}
  /\ Len(sim.ubtb) <= ubtb_entries /\ \A i \in DOMAIN sim.btb : Len(sim.btb[i]) <= btb_ways
  /\ sim.ras.cnt \in 0..ras_depth /\ sim.ras.top \in 0..ras_depth-1
  /\ sim.tage.use_alt \in 0..15 /\ Len(sim.tage.hist) <= HIST_N

\* The rows that the front end has processed.
Past == SubSeq(rows, 1, IF phase = "front" THEN at - 1 ELSE Len(rows))

\* The wrong path leaves no trace in the history, its folds, the return stack
\* or the learned lengths, and none in the direction counters unless they are
\* configured to train there (README.md section 5 of the front end): all of
\* them are those of a simulator that never left the right path.
NothingLeftBehind ==
  /\ sim.ras = twin.ras /\ sim.ilen = twin.ilen
  /\ sim.tage.hist = twin.tage.hist /\ sim.tage.fold = twin.tage.fold
  /\ ~case.fe.wp_train_tage => sim.tage = twin.tage

\* The conditional branches among the first p rows, and how many of them row q
\* and what followed it have.
Conds(rs, p)  == {r \in 1..p : rs[r].type = "cond"}
Age(rs, p, q) == Cardinality({r \in Conds(rs, p) : q <= r})

\* h holds their outcomes, the last one first, as far as it has room.
Recalls(rs, p, h) ==
  /\ Len(h) = Least(Cardinality(Conds(rs, p)), HIST_N)
  /\ \A q \in Conds(rs, p) : Age(rs, p, q) <= HIST_N => h[Age(rs, p, q)] = rs[q].taken

\* Each fold is the fold of the whole history.
FoldsRight ==
  \A i \in Tagged : \A w \in 1..3 :
    sim.tage.fold[i][w] = FoldOf(sim.tage.hist, Tables[i].hist, Widths(i)[w])

\* The history holds the outcomes of the conditional branches that were
\* executed, the last HIST_N of them, and the folds that are updated bit by bit
\* are its folds.
FoldsExact == TypeOK /\ Recalls(rows, Len(Past), sim.tage.hist) /\ FoldsRight

\* The instructions of the block at pc when no conditional branch is taken.
Stays(d) == ~Ctrl(d) \/ d.kind = "cond"
Onward(pc) == IF prog[pc].kind = "sys" /\ prog[pc].to # {} THEN target(prog[pc]) ELSE pc + prog[pc].len
BlockAt(pc) ==
  FoldLeft(LAMBDA b, i :
             IF b.end \/ b.next \notin DOMAIN prog THEN b
             ELSE LET d == prog[b.next]
                  IN [pcs  |-> Append(b.pcs, b.next), next |-> Onward(b.next),
                      end  |-> BlockEnds(d, b.next, pc, Len(b.pcs) + 1, Onward(b.next), ~Stays(d))],
           [pcs |-> <<>>, next |-> pc, end |-> FALSE], [i \in 1..fetch_width |-> i])

\* What an entry of the second buffer says of its block is so: its branches
\* are the first ones of the block, with their types and direct targets, its
\* end is where the block goes on, and once that is known no branch of the
\* block is missing.  Blocks left early, wrong paths and evictions
\* do not spoil it.  The first buffer may alias and is not meant.
Truthful(x, pc) ==
  LET b   == BlockAt(pc)
      brs == SelectSeq(b.pcs, LAMBDA p : Ctrl(prog[p]))
  IN /\ \A i \in DOMAIN x.br : valid(x.br[i]) =>
          /\ i <= Len(brs) /\ x.br[i].pc = brs[i] /\ x.br[i].type = prog[brs[i]].kind
          /\ Direct(prog[brs[i]]) => x.br[i].target = prog[brs[i]].to
     /\ x.fallthru # {} =>
          /\ x.fallthru = {b.next}
          /\ \A i \in DOMAIN x.br : i <= Len(brs) => valid(x.br[i])

BtbTruthful ==
  phase = "front" /\ at <= Len(rows) =>
    \A i \in DOMAIN sim.btb : \A n \in DOMAIN sim.btb[i] :
      Truthful(sim.btb[i][n], 2 * (sim.btb[i][n].tag * btb_sets + i))

\* What the simulator has learned of the length of an instruction is its length,
\* or for a trap how far its handler is.  It is asked of a simulator that has
\* rows to come: the row behind the last return of a trace is made up
\* (bstf_gen.cc:908), and what it shows of the call is not so.
LengthsRight ==
  phase = "front" /\ at <= Len(rows) =>
    \A pc \in DOMAIN sim.ilen :
      \/ sim.ilen[pc] = prog[pc].len
      \/ prog[pc].kind = "sys" /\ pc + sim.ilen[pc] \in prog[pc].to

\* The return stack holds the calls that are open, the last ones if there have been
\* more than it has room for, and the lengths that it goes by are right.
CallsAndLengths ==
  LET pcs  == [i \in DOMAIN Past |-> Past[i].pc]
      open == Open(pcs)
      ras  == RasEntries(sim.ras)
      skip == Len(open) - Len(ras)
  IN /\ LengthsRight
     /\ skip >= 0
     /\ skip > 0 => \E n \in DOMAIN pcs : Len(Open(SubSeq(pcs, 1, n))) > ras_depth
     /\ \A i \in DOMAIN ras :
          /\ ras[i].call_pc = open[skip + i]
          /\ ras[i].addr - ras[i].call_pc \in {prog[ras[i].call_pc].len, ilen_bytes}
----------------------------------------------------------------------------
(* What the files say of each other. *)

Redirects == SelectSeq([i \in DOMAIN fe |-> i], LAMBDA i : fe[i].redirect)
Ends      == SelectSeq([i \in DOMAIN gen.rec |-> i], LAMBDA i : gen.rec[i].is_block_end)

\* The blocks of a shadow never run past the wrong-path bytes of it.
Fits(k) == Sum(Fed(gen.shadow), (k - 1) * shadow_k + 1..k * shadow_k) <= shadow_blocks

\* Every fetch block has its byte; the k-th redirect has the k-th shadow, at
\* the last record of its block, and the k-th share of the wrong-path bytes;
\* the shadow starts off the right path, from the state behind its block.
\* When wrong-path bytes are written into the same file (frontend_sim.cpp:
\* 48-53) this is given up.
Aligned ==
  phase = "done" /\ case.fe.wp_out # "inline" =>
    /\ Len(fe) = gen.n_fe /\ gen.rows = rows
    /\ Len(gen.refs) = Len(Redirects)
    /\ \A k \in DOMAIN gen.refs :
         LET r == gen.refs[k].rec
         IN /\ r = Ends[Redirects[k]]
            /\ r < Len(rows) => gen.refs[k].cpu = r
            /\ r < Len(rows) /\ rows[r].type # "none" => gen.refs[k].from # {rows[r + 1].pc}
            /\ shadow_k <= shadow_blocks * fetch_width => Fits(k)
    /\ Len(wp) = IF case.fe.wp_out = "separate" THEN case.fe.D * Len(gen.refs) ELSE 0

\* bstf_check accepts what the two runs have written, and what the first run
\* wrote without shadows.
CheckerAccepts == (phase = "done" \/ (phase = "front" /\ at = 1)) => Accepted(gen)
=============================================================================
