---------------------------- MODULE MCPreprocess ----------------------------
EXTENDS Preprocess

J(len, kind, to) ==
  [len |-> len, kind |-> kind, to |-> to, has_target |-> kind \in {"cond", "jal", "call"}]
I(len, kind)  == J(len, kind, {})
Jalr(len, to) == [J(len, "call", to) EXCEPT !.has_target = FALSE]

\* Two branches and a load in a loop.
Loop == 2 :> I(2, "ld") @@ 4 :> J(2, "cond", {10}) @@ 6 :> I(4, "alu")
        @@ 10 :> J(4, "cond", {2}) @@ 14 :> J(2, "jal", {2})

\* Calls of two lengths, and an indirect one from within.
Calls == 2 :> I(2, "alu") @@ 4 :> J(4, "call", {20}) @@ 8 :> J(2, "call", {30}) @@ 10 :> J(2, "jal", {2})
         @@ 20 :> I(4, "st") @@ 24 :> Jalr(2, {30, 32}) @@ 26 :> I(2, "ret")
         @@ 30 :> I(2, "ld") @@ 32 :> I(2, "ret")

\* A recursion that goes deeper than the return stack.
Deep == 2 :> J(4, "call", {8}) @@ 6 :> J(2, "jal", {2}) @@ 8 :> J(2, "cond", {14})
        @@ 10 :> J(2, "call", {8}) @@ 12 :> I(2, "alu") @@ 14 :> I(2, "ret")

\* A jump with two targets.
Switch == 2 :> J(2, "jalr", {6, 12}) @@ 6 :> I(4, "st") @@ 10 :> J(2, "jal", {2})
          @@ 12 :> I(2, "ld") @@ 14 :> J(4, "cond", {2}) @@ 18 :> J(2, "jal", {6})

\* A trap and the return from its handler.
Trap == 2 :> J(2, "cond", {6}) @@ 4 :> J(2, "sys", {20}) @@ 6 :> I(2, "sys") @@ 8 :> J(4, "jal", {2})
        @@ 20 :> I(2, "ld") @@ 22 :> J(2, "sys", {6})

\* A trap to a handler that is near, and a return that ends the program.
Exit == 2 :> J(2, "cond", {14}) @@ 4 :> J(2, "sys", {8}) @@ 8 :> J(4, "call", {14}) @@ 14 :> I(2, "ret")

\* More branches in a block than an entry or an observation holds.
Dense == 2 :> J(2, "cond", {8}) @@ 4 :> J(2, "cond", {8}) @@ 6 :> J(2, "cond", {2})
         @@ 8 :> I(2, "alu") @@ 10 :> J(2, "jal", {2})

Opt(count, stop_pc) == [count |-> count, stop_pc |-> stop_pc]
Fe(D, out, btb, tage) ==
  [D |-> D, wp_out |-> out, btb_dir_hint |-> TRUE, wp_train_btb |-> btb, wp_train_tage |-> tage]
NoHint(f) == [f EXCEPT !.btb_dir_hint = FALSE]
Data(dir, to, fault) == [dir |-> dir, to |-> to, fault |-> fault]

Case(p, o, f, w, l) == [prog |-> p, o |-> o, fe |-> f, w |-> w, lucky |-> l]

MCCases ==
  { Case(Loop,   Opt(0, 0),  Fe(2, "separate", FALSE, FALSE), Data(TRUE, 2, FALSE),  {10}),
    Case(Loop,   Opt(8, 0),  NoHint(Fe(2, "inline", TRUE, TRUE)), Data(FALSE, 2, FALSE), {4}),
    Case(Calls,  Opt(0, 0),  Fe(2, "separate", TRUE, FALSE),  Data(TRUE, 8, FALSE),  {}),
    Case(Calls,  Opt(0, 10), Fe(1, "none", FALSE, FALSE),     Data(TRUE, 26, TRUE),  {}),
    Case(Deep,   Opt(0, 0),  Fe(2, "separate", TRUE, TRUE),   Data(FALSE, 12, FALSE), {8}),
    Case(Deep,   Opt(0, 14), Fe(1, "inline", FALSE, FALSE),   Data(TRUE, 6, FALSE),  {}),
    Case(Switch, Opt(0, 0),  Fe(2, "separate", TRUE, FALSE),  Data(TRUE, 6, FALSE),  {}),
    Case(Switch, Opt(6, 0),  Fe(0, "none", FALSE, FALSE),     Data(FALSE, 12, TRUE), {14}),
    Case(Dense,  Opt(0, 0),  Fe(2, "separate", TRUE, FALSE),  Data(FALSE, 2, FALSE), {2, 6}),
    Case(Dense,  Opt(11, 0), Fe(1, "separate", FALSE, TRUE),  Data(TRUE, 8, FALSE),  {}),
    Case(Trap,   Opt(0, 0),  Fe(1, "separate", TRUE, TRUE),   Data(FALSE, 2, FALSE), {}),
    Case(Exit,   Opt(0, 0),  Fe(1, "separate", TRUE, TRUE),   Data(FALSE, 8, FALSE), {}) }

MCTables == <<[hist |-> 2, idx |-> 1, tag |-> 2, cmax |-> 1, umax |-> 3],
              [hist |-> 3, idx |-> 2, tag |-> 2, cmax |-> 3, umax |-> 1]>>
=============================================================================
