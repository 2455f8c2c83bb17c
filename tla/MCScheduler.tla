---- MODULE MCScheduler ----
EXTENDS Scheduler

Kind(c, l, dv) == [class |-> c, lat |-> l, dv |-> dv]
Alu   == Kind("alu", 1, TRUE)
Mul   == Kind("mul", 3, TRUE)
Div   == Kind("div", 2, TRUE)
Load  == Kind("mem", 1, TRUE)
Store == Kind("mem", 3, FALSE)

\* Uop i of a stream writes register i and reads the registers deps[i].
Stream(kinds, deps) ==
  [i \in DOMAIN kinds |->
     [class |-> kinds[i].class, lat |-> kinds[i].lat,
      dst |-> IF kinds[i].dv THEN i ELSE NoReg, src |-> deps[i]]]

Diamond == <<{}, {1}, {1}, {2, 3}>>
Fan     == <<{}, {1}, {1}, {1}>>
Free    == <<{}, {}, {}, {}>>
Pairs   == <<{3}, {}, {2}, {1}>>

\* Every mix of one-cycle, three-cycle and memory uops, in two shapes, and a
\* one-cycle uop that competes with two answers for the two ports.
Mixes == {Stream(ks, d) : ks \in [1..4 -> {Alu, Mul, Load}], d \in {Diamond, Pairs}}
           \cup {Stream(<<Load, Load, Alu, Alu>>, Free)}

\* Stores and divides that are ready together, and multiplies that become so
\* when a load is answered.
Contended ==
  { Stream(<<Div, Store, Div, Load>>, Free),
    Stream(<<Load, Mul, Mul, Mul>>, Fan) }
====
