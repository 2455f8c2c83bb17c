---------------------------- MODULE MCShadowFetch ----------------------------
EXTENDS ShadowFetch

\* A wrong-path block asks for a redirect too, which must not be heeded.
RedirectAgain == [bubbles |-> 0, redirect |-> TRUE, dir_ok |-> FALSE]

\* Fetch blocks: correctly predicted, with a mispredicted direction, whose
\* shadow may be empty, or with a mispredicted target, which has a shadow that
\* the front end never asks for.
Good ==
  [ev |-> [bubbles |-> 0, redirect |-> FALSE, dir_ok |-> TRUE], shadow |-> <<>>]
Direction(bubbles, s) ==
  [ev |-> [bubbles |-> bubbles, redirect |-> TRUE, dir_ok |-> FALSE], shadow |-> s]
Target(s) ==
  [ev |-> [bubbles |-> 1, redirect |-> TRUE, dir_ok |-> TRUE], shadow |-> s]

Short == <<FALSE>>
Long  == <<FALSE, TRUE, FALSE, FALSE, TRUE>>

Kinds  == {Good, Direction(0, Short), Direction(1, Long), Direction(0, <<>>), Target(Long)}
Blocks == [len : 1..2, kind : Kinds]

Records(b) ==
  [i \in 1..b.len |-> [blkend |-> i = b.len,
                       shadow |-> IF i = b.len THEN b.kind.shadow ELSE <<>>]]
Recorded(bs) ==
  [rec |-> FlattenSeq([i \in DOMAIN bs |-> Records(bs[i])]),
   fe  |-> [i \in DOMAIN bs |-> bs[i].kind.ev]]

\* Every program of three blocks.
ThreeBlocks == {Recorded(bs) : bs \in [1..3 -> Blocks]}

\* Two mispredicted branches, one after the other.
TwoBranches == {Recorded([i \in 1..2 |-> [len |-> 1, kind |-> Direction(0, Short)]])}
=============================================================================
