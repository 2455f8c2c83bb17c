----------------------------- MODULE Predictors -----------------------------
(***************************************************************************)
(* The target predictors of preprocess/frontend/predictors.hpp: entries     *)
(* that describe a fetch block, the two buffers that hold them, and the      *)
(* stack of return addresses.  Only the order of use matters of the clocks,  *)
(* so a buffer's set is the sequence of its entries, the last used first.    *)
(***************************************************************************)
EXTENDS Integers, Sequences, FiniteSets, SequencesExt

CONSTANTS
  FE_MAX_SLOTS,              \* branches that an entry or an observation can hold
  ubtb_entries, ubtb_slots,
  ubtb_tags,                 \* tags of the uBTB; its hash only matters by collisions
  btb_sets, btb_ways, btb_slots,
  ras_depth

ASSUME PredictorsAssumption ==
  /\ {FE_MAX_SLOTS, ubtb_entries, ubtb_tags, btb_sets, btb_ways, ras_depth} \subseteq Nat \ {0}
  /\ ubtb_slots \in 1..FE_MAX_SLOTS /\ btb_slots \in 1..FE_MAX_SLOTS

Least(a, b) == IF a < b THEN a ELSE b

uncond(type) == type \notin {"cond", "none"}

\* A branch of a block, and a block as one execution saw it.  taken_idx is 0
\* when no branch was taken; a valid target or fall-through is a set of one.
NoBranch == [pc |-> 0, type |-> "none", target |-> {}]
NoObs    == [n_br |-> 0, br |-> [i \in 1..FE_MAX_SLOTS |-> NoBranch],
             taken_idx |-> 0, complete |-> FALSE, fallthru |-> {}]
valid(b) == b.type # "none"

NewEntry(tag, slots) ==
  [tag |-> tag, br |-> [i \in 1..slots |-> NoBranch], hint |-> [i \in 1..slots |-> 2], fallthru |-> {}]

\* An entry after an execution of its block.  Only what was seen is replaced;
\* a block that ran to its end has no further branches.
ftb_apply(x, o) ==
  LET n       == Len(x.br)
      seen    == Least(o.n_br, n)
      last    == IF o.taken_idx > 0 THEN o.taken_idx ELSE seen
      new(i)  == ~valid(x.br[i]) \/ x.br[i].pc # o.br[i].pc
      slot(i) ==
        IF i <= seen
          THEN IF o.br[i].target = {} /\ ~new(i) THEN [o.br[i] EXCEPT !.target = x.br[i].target] ELSE o.br[i]
          ELSE IF o.complete THEN NoBranch ELSE x.br[i]
      start(i) == IF i > seen \/ ~new(i) THEN x.hint[i] ELSE IF o.taken_idx = i THEN 2 ELSE 1
      hint(i)  == IF i > last THEN start(i)
                  ELSE IF uncond(slot(i).type) THEN 3
                  ELSE IF o.taken_idx = i THEN Least(start(i) + 1, 3)
                  ELSE IF start(i) > 0 THEN start(i) - 1 ELSE 0
  IN [x EXCEPT !.br = [i \in 1..n |-> slot(i)],
               !.hint = [i \in 1..n |-> hint(i)],
               !.fallthru = IF o.fallthru # {} THEN o.fallthru ELSE @]
----------------------------------------------------------------------------
\* One fully associative set: the places of a tag, of which there is one or
\* none, the entry there, and the set after its use.
Places(L, tag) == {i \in DOMAIN L : L[i].tag = tag}
Without(L, P)  == IF P = {} THEN L ELSE RemoveAt(L, CHOOSE i \in P : TRUE)
With(L, tag)   == {L[i] : i \in Places(L, tag)}
Used(L, tag) ==
  IF Places(L, tag) = {} THEN L ELSE <<L[CHOOSE i \in Places(L, tag) : TRUE]>> \o Without(L, Places(L, tag))

\* The place that is given up for a tag: its own, if need be the last one.
Victim(L, ways, tag) ==
  IF Places(L, tag) = {} /\ Len(L) = ways THEN {ways} ELSE Places(L, tag)

\* A new entry takes a free place or that of the entry used longest ago.
Updated(L, ways, slots, tag, o) ==
  LET old == With(L, tag)
      x   == IF old = {} THEN NewEntry(tag, slots) ELSE CHOOSE y \in old : TRUE
  IN <<ftb_apply(x, o)>> \o Without(L, Victim(L, ways, tag))

hash(pc)  == (pc \div 2) % ubtb_tags
btb_index(pc) == (pc \div 2) % btb_sets
btb_tag(pc)   == (pc \div 2) \div btb_sets

ubtb_lookup(u, pc)    == With(u, hash(pc))
ubtb_touched(u, pc)   == Used(u, hash(pc))
ubtb_update(u, pc, o) == Updated(u, ubtb_entries, ubtb_slots, hash(pc), o)

btb_lookup(b, pc)    == With(b[btb_index(pc)], btb_tag(pc))
btb_touched(b, pc)   == [b EXCEPT ![btb_index(pc)] = Used(@, btb_tag(pc))]
btb_update(b, pc, o) == [b EXCEPT ![btb_index(pc)] = Updated(@, btb_ways, btb_slots, btb_tag(pc), o)]
----------------------------------------------------------------------------
\* The return address stack is a ring that overwrites its oldest entry.
RasInit == [s |-> [i \in 0..ras_depth-1 |-> [addr |-> 0, call_pc |-> 0]], top |-> 0, cnt |-> 0]

Below(r) == (r.top + ras_depth - 1) % ras_depth

peek(r) == IF r.cnt > 0 THEN r.s[Below(r)].addr ELSE 0

ras_push(r, addr, call_pc) ==
  [s   |-> [r.s EXCEPT ![r.top] = [addr |-> addr, call_pc |-> call_pc]],
   top |-> (r.top + 1) % ras_depth, cnt |-> Least(r.cnt + 1, ras_depth)]

ras_pop(r) == IF r.cnt = 0 THEN r ELSE [r EXCEPT !.top = Below(r), !.cnt = @ - 1]

\* What a pop returns, as a set.
Popped(r) == IF r.cnt = 0 THEN {} ELSE {r.s[Below(r)]}

\* The entries of the ring, the oldest first.
RasEntries(r) == [i \in 1..r.cnt |-> r.s[(r.top + ras_depth - r.cnt + i - 1) % ras_depth]]
=============================================================================
