-------------------------------- MODULE Ifc --------------------------------
(***************************************************************************)
(* The sizes and signal types the pipeline stages share                    *)
(* (model/ooo/common/ifc.vh and the cfg_* inputs of model/ooo/top.v).      *)
(* A decoded uop keeps what the stages of the commit path decide on: its   *)
(* wrong-path bit, its destination and one source register (DUOP_S1 and    *)
(* DUOP_S2 go through two copies of the same logic).                       *)
(***************************************************************************)
EXTENDS Integers, FiniteSets, Sequences, FiniteSetsExt

CONSTANTS
  W,                  \* `W: lanes of every bundle
  ROB_N,              \* `ROB_N: reorder-buffer entries built
  PRF_N,              \* `PRF_N: physical registers
  ARF_N,              \* rn_rename's ARF_N: architectural registers
  DQ_N,               \* fe_front's DQ_N: decode-queue entries
  cfg_rob_entries,    \* reorder-buffer entries in use
  cfg_commit_width    \* retirements per cycle

ASSUME IfcAssumption ==
  /\ W \in Nat \ {0}
  /\ ROB_N \in Nat \ {0}
  /\ DQ_N \in Nat \ {0}
  /\ ARF_N \in Nat \ {0}
  /\ PRF_N \in Nat /\ ARF_N < PRF_N
  /\ cfg_rob_entries \in 1..ROB_N
  /\ cfg_commit_width \in 1..W

Arf   == 0..ARF_N-1
Phys  == 0..PRF_N-1
RobIx == 0..ROB_N-1

\* A decoded uop: wrong-path bit, destination valid, destination, source.
Duop == [wp : BOOLEAN, dv : BOOLEAN, d : Arf, s : Arf]

\* A renamed uop: dv now says that a physical register was allocated.
Ruop == [wp : BOOLEAN, dv : BOOLEAN, arf : Arf, prf : Phys, s : Arf, src : Phys]

\* What a retiring uop shows on cmt_dv, cmt_arf and cmt_prf.
Commit == [dv : BOOLEAN, arf : Arf, prf : Phys]

AtMost(a, b) == IF a < b THEN a ELSE b
============================================================================
