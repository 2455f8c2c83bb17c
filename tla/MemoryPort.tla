----------------------------- MODULE MemoryPort -----------------------------
(***************************************************************************)
(* What the load/store unit promises the execution units: it keeps the     *)
(* requests it has been sent, answers each of them once, some number of    *)
(* them in a cycle, and after a flush answers none it had before.          *)
(***************************************************************************)
VARIABLE pending    \* the requests not yet answered

Init == pending = {}

Serve(sent, answered) ==
  /\ answered \subseteq pending
  /\ pending' = (pending \ answered) \cup sent

Flush == pending' = {}
=============================================================================
