---- MODULE MCMemPath ----
EXTENDS MemPath

Event(m, l) == [miss |-> m, lat |-> l]
Hit         == Event(FALSE, 1)
Load(m, l)  == [class |-> "load", ev |-> Event(m, l)]
Amo         == [class |-> "amo", ev |-> Event(TRUE, 1)]
Store       == [class |-> "store", ev |-> Hit]
Other       == [class |-> "other", ev |-> Hit]

\* Every alternation of two kinds of uop.
Kinds        == {Load(TRUE, 2), Load(FALSE, 1), Amo, Store, Other}
Alternations == [1..2 -> Kinds] \ {<<Other, Other>>}

\* A miss that a store and a hit follow; misses that want the same register.
Few == {<<Load(TRUE, 1), Store, Load(FALSE, 1)>>, <<Amo>>}

\* Nothing but hits.
Hits == {<<Load(FALSE, 1)>>}
====
