------------------------------- MODULE JobPool -------------------------------
(***************************************************************************)
(* What bstm_pool_run promises its caller: every job of the run is done    *)
(* exactly once, by somebody, and the call returns only when none is left  *)
(* or still going.  The pool can be closed between runs, never during one. *)
(***************************************************************************)
EXTENDS Integers

CONSTANT Runs    \* the numbers of jobs a run may have

VARIABLES
  phase,      \* "idle", "busy" inside a run, or "closed"
  waiting,    \* jobs of the run nobody has taken
  running,    \* jobs somebody is doing
  done        \* jobs done

vars == <<phase, waiting, running, done>>

Init == phase = "idle" /\ waiting = {} /\ running = {} /\ done = {}

Submit(n) ==
  /\ phase = "idle" /\ phase' = "busy"
  /\ waiting' = 0..n-1 /\ running' = {} /\ done' = {}

Take(j) ==
  /\ phase = "busy" /\ j \in waiting
  /\ waiting' = waiting \ {j} /\ running' = running \cup {j}
  /\ UNCHANGED <<phase, done>>

Finish(j) ==
  /\ phase = "busy" /\ j \in running
  /\ running' = running \ {j} /\ done' = done \cup {j}
  /\ UNCHANGED <<phase, waiting>>

Return ==
  /\ phase = "busy" /\ waiting = {} /\ running = {}
  /\ phase' = "idle"
  /\ UNCHANGED <<waiting, running, done>>

Close ==
  /\ phase = "idle" /\ phase' = "closed"
  /\ UNCHANGED <<waiting, running, done>>

Next ==
  \/ \E n \in Runs : Submit(n)
  \/ \E j \in waiting : Take(j)
  \/ \E j \in running : Finish(j)
  \/ Return
  \/ Close

Spec == Init /\ [][Next]_vars
=============================================================================
