---------------------------- MODULE InOrderWindow ----------------------------
(***************************************************************************)
(* What the in-order path promises: a window of uops in program order.     *)
(* Each cycle retires correct-path uops from its old end and takes fetched *)
(* uops at its young end; a flush retires a correct-path prefix, meets a   *)
(* wrong-path uop and discards the rest, which is wrong-path throughout.   *)
(* No uop is lost, duplicated, reordered or retired off the wrong path.    *)
(***************************************************************************)
EXTENDS Integers, Sequences

CONSTANTS Uop, OnWrongPath(_)

VARIABLE window

Correct(n) == \A i \in 1..n : ~OnWrongPath(window[i])

Init == window = <<>>

Cycle ==
  \E n \in 0..Len(window) :
    /\ Correct(n)
    /\ \E m \in 0..Len(window') :
         /\ m = Len(window) - n
         /\ SubSeq(window', 1, m) = SubSeq(window, n + 1, Len(window))
    /\ window' \in Seq(Uop)

Flush ==
  \E n \in 0..Len(window)-1 :
    /\ Correct(n)
    /\ \A i \in n+1..Len(window) : OnWrongPath(window[i])
    /\ window' = <<>>

Spec == Init /\ [][Cycle \/ Flush]_window
=============================================================================
