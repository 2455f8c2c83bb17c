--------------------------------- MODULE Iq ---------------------------------
(***************************************************************************)
(* model/ooo/backend/be_iq.v: wakeup and select.  The queue is a function  *)
(* from the slots in use (e_v); the payload of a free slot is never read.  *)
(***************************************************************************)
EXTENDS ExecIfc

VARIABLES
  iq,        \* e_v, e_uop, e_rob, e_pend and e_seq
  seq_ctr,   \* the next age number
  wait_m     \* destinations dispatched and not yet issued

iqVars == <<iq, seq_ctr, wait_m>>

\* SW = ROB_W + 1 bits: the age numbers go round after twice the ROB.
SeqMod == 2 * ROB_N

----------------------------------------------------------------------------
\* Mutant: ages compared as plain numbers.
OlderUnwrapped(a, b) == a < b

\* older(): the top bit of the difference.
Older(a, b) == (a - b) % SeqMod >= ROB_N

EffReady(prf_rdy) == prf_rdy \ wait_m

\* rdy_m: the slots whose missing sources have all arrived.
Ready(prf_rdy) == {i \in DOMAIN iq : iq[i].pend \subseteq EffReady(prf_rdy)}

OfClass(c, S) == {i \in S : iq[i].u.class = c}

\* elig: what a round may still pick: one divide and two multiplies a cycle.
Eligible(sel, prf_rdy) ==
  {i \in Ready(prf_rdy) \ sel :
     /\ iq[i].u.class = "div" => OfClass("div", sel) = {}
     /\ iq[i].u.class = "mul" => Cardinality(OfClass("mul", sel)) < 2}

\* The tournament's winner, as a set that is empty when there is none.
Oldest(S) == {i \in S : \A j \in S \ {i} : Older(iq[i].seq, iq[j].seq)}

\* sel_m after cfg_issue_width rounds.
Selected(prf_rdy) ==
  LET sel[k \in 0..cfg_issue_width] ==
        IF k = 0 THEN {}
        ELSE sel[k-1] \cup Oldest(Eligible(sel[k-1], prf_rdy))
  IN sel[cfg_issue_width]

\* iss_valid, iss_ruop, iss_robidx.
Issued(prf_rdy) == {[u |-> iq[i].u, rob |-> iq[i].rob] : i \in Selected(prf_rdy)}

\* avail: free slots, those issued in this cycle included.
Avail(sel) == {i \in 0..cfg_iq_entries-1 : i \notin DOMAIN iq \/ i \in sel}

iq_nfree(prf_rdy) == AtMost(Cardinality(Avail(Selected(prf_rdy))), W)

\* a_idx: the j-th free slot from below.
FreeSlot(j, sel) ==
  CHOOSE i \in Avail(sel) : Cardinality({k \in Avail(sel) : k < i}) = j - 1

Dsts(S) == UNION {Dst(u) : u \in S}

\* The lane of the bundle of n uops that slot i receives, or 0.
LaneFor(i, n, sel) ==
  IF \E j \in 1..n : FreeSlot(j, sel) = i
    THEN CHOOSE j \in 1..n : FreeSlot(j, sel) = i ELSE 0

\* Mutant: a source written in the same bundle is taken as ready.
PendWithoutBundle(u, ds, prf_rdy) == u.src \ EffReady(prf_rdy)

\* pend_new: sources that are not ready or are written in this very bundle.
Pend(u, ds, prf_rdy) ==
  u.src \ (EffReady(prf_rdy) \ Dsts({ds[j] : j \in 1..Len(ds)}))

----------------------------------------------------------------------------
IqInit == iq = <<>> /\ seq_ctr = 0 /\ wait_m = {}

\* A clock edge without flush: the selected slots are freed, the others
\* forget the sources that are ready, and uop j of ds, which has reorder
\* buffer entry rob[j], goes to the j-th free slot.
IqCycle(ds, rob, prf_rdy) ==
  LET sel == Selected(prf_rdy)
      n   == Len(ds)
  IN /\ iq' = [i \in (DOMAIN iq \ sel) \cup {FreeSlot(j, sel) : j \in 1..n} |->
                 LET j == LaneFor(i, n, sel) IN
                 IF j = 0 THEN [iq[i] EXCEPT !.pend = @ \ EffReady(prf_rdy)]
                 ELSE [u |-> ds[j], rob |-> rob[j], pend |-> Pend(ds[j], ds, prf_rdy),
                       seq |-> (seq_ctr + j - 1) % SeqMod]]
     /\ wait_m' = (wait_m \ Dsts({iq[i].u : i \in sel})) \cup Dsts({ds[j] : j \in 1..n})
     /\ seq_ctr' = (seq_ctr + n) % SeqMod

IqFlush == iq' = <<>> /\ seq_ctr' = 0 /\ wait_m' = {}
=============================================================================
