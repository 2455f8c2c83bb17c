------------------------------ MODULE ExecIfc ------------------------------
(***************************************************************************)
(* The sizes and signal types that be_iq.v and be_eu.v share.  Physical    *)
(* registers are only compared for equality here, so Phys is any set.  A   *)
(* renamed uop keeps its class, its latency, its destination register (or  *)
(* NoReg: RUOP_DV = 0) and the set of its valid source registers.          *)
(***************************************************************************)
EXTENDS Integers, FiniteSets, Sequences

CONSTANTS
  W,                 \* `W: lanes of every bundle
  ROB_N,             \* `ROB_N: reorder-buffer entries, a power of two
  IQ_N,              \* `IQ_N: issue-queue entries built
  cfg_rob_entries,   \* reorder-buffer entries in use
  cfg_iq_entries,    \* issue-queue entries in use
  cfg_issue_width,   \* uops issued per cycle
  Phys,              \* `PRF_N: physical registers
  NoReg,             \* the destination of a uop that has none
  LAT_MAX            \* largest latency of RUOP_LAT the decoder produces

ASSUME ExecIfcAssumption ==
  /\ W \in Nat \ {0} /\ ROB_N \in Nat \ {0} /\ IQ_N \in Nat \ {0}
  /\ cfg_rob_entries \in 1..ROB_N
  /\ cfg_iq_entries \in 1..IQ_N
  /\ cfg_issue_width \in 1..W
  /\ LAT_MAX \in Nat \ {0}
  /\ NoReg \notin Phys

RobIx   == 0..ROB_N-1
Classes == {"alu", "mul", "div", "mem"}

\* UC_LOAD, UC_STORE and UC_AMO are "mem"; the classes that no limit is
\* about are "alu".
Uop == [class : Classes, lat : 0..LAT_MAX, dst : Phys \cup {NoReg}, src : SUBSET Phys]

IsMem(u)   == u.class = "mem"
Dst(u)     == {u.dst} \cap Phys
AtMost(a, b) == IF a < b THEN a ELSE b

\* The order of a ring that starts at r: how far i is behind r.
Behind(i, r, n) == (i - r) % n
============================================================================
