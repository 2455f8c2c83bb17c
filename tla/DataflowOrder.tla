--------------------------- MODULE DataflowOrder ---------------------------
(***************************************************************************)
(* What an out-of-order scheduler promises: a window of uops in program    *)
(* order, of which each waits until the uops it depends on have produced   *)
(* their values, executes, produces, and is finished when its writeback    *)
(* has been seen.  In one step any number of uops move, on the state       *)
(* before the step; finished ones retire from the old end, and a flush     *)
(* drops everything.                                                       *)
(***************************************************************************)
EXTENDS Integers, Sequences

VARIABLE window    \* sequence of [dst, src, st]

\* The youngest older uop of the window that writes register s, as a set.
Producer(k, s) ==
  {j \in 1..k-1 : /\ window[j].dst = s
                  /\ \A i \in j+1..k-1 : window[i].dst # s}

MayStart(k) ==
  \A s \in window[k].src : \A j \in Producer(k, s) :
    window[j].st \in {"produced", "finished"}

\* What uop k may have become one step later.
Moves(k) ==
  LET st == window[k].st IN
  {st} \cup CASE st = "waiting"   -> IF MayStart(k) THEN {"executing", "produced"} ELSE {}
             [] st = "executing" -> {"produced"}
             [] st = "produced"  -> {"finished"}
             [] st = "finished"  -> {}

Init == window = <<>>

Step ==
  \E n \in 0..Len(window) :
    LET kept == Len(window) - n IN
    /\ \A i \in 1..n : window[i].st = "finished"
    /\ Len(window') >= kept
    /\ \A i \in 1..kept :
         /\ window'[i].dst = window[n+i].dst /\ window'[i].src = window[n+i].src
         /\ window'[i].st \in Moves(n + i)
    /\ \A i \in kept+1..Len(window') : window'[i].st = "waiting"

Flush == window' = <<>>

Spec == Init /\ [][Step \/ Flush]_window
=============================================================================
