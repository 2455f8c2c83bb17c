--------------------------------- MODULE Eu ---------------------------------
(***************************************************************************)
(* model/ooo/backend/be_eu.v: the pool of uops in flight, addressed by     *)
(* their reorder-buffer entry, and the register scoreboard.  Nothing is    *)
(* computed: a uop counts its latency down, or waits for the load/store    *)
(* unit, and then competes for a writeback port.                           *)
(***************************************************************************)
EXTENDS ExecIfc

VARIABLES
  eu,         \* eu_v is its domain; eu_wt, eu_cnt, eu_dv and eu_prf
  rq_pend,    \* entries whose memory request has not been sent
  rr,         \* rr_wb and rr_rq, which are reset and advanced together
  prf_rdy,    \* registers whose value has been produced
  r_wb,       \* r_wb_v, r_wb_rob: registered writebacks
  r_req       \* r_req_v, r_req_rob: registered memory requests

euVars == <<eu, rq_pend, rr, prf_rdy, r_wb, r_req>>

----------------------------------------------------------------------------
\* i_now: competes for a port in the cycle it is issued.
Now(iss) == {e \in iss : ~IsMem(e.u) /\ e.u.lat <= 1}
Robs(S)  == {e.rob : e \in S}

\* Mutant: what has counted down in the pool does not compete.
FinishedNow(iss, lsu_done) == Robs(Now(iss)) \cup {i \in lsu_done \cap DOMAIN eu : eu[i].wt}

\* rdy: counted down, or of latency one, or answered in this cycle.
Finished(iss, lsu_done) ==
  {i \in DOMAIN eu : ~eu[i].wt /\ eu[i].cnt = 0}
    \cup Robs(Now(iss))
    \cup {i \in lsu_done \cap DOMAIN eu : eu[i].wt}

\* The first W of S in the order that starts at rr.
First(S) ==
  {i \in S : Cardinality({j \in S : Behind(j, rr, ROB_N) < Behind(i, rr, ROB_N)}) < W}

\* pick_m and sent_m.
Picked(iss, lsu_done) == First(Finished(iss, lsu_done))
Sent(lsu_ready)       == IF lsu_ready THEN First(rq_pend) ELSE {}

\* The destination that the writeback of entry i makes ready: a uop that is
\* only being issued is read from its lane.
WrittenBy(i, iss) ==
  LET now == {e \in Now(iss) : e.rob = i}
  IN IF now # {} THEN UNION {Dst(e.u) : e \in now}
     ELSE IF i \in DOMAIN eu THEN {eu[i].dst} \cap Phys ELSE {}

\* Mutant: a load does not clear its destination.
ClearedLatencyOnly(iss) == UNION {Dst(e.u) : e \in {f \in iss : ~IsMem(f.u) /\ f.u.lat >= 2}}

\* clr_m: latency one is left set, so that the next cycle can use the value.
Cleared(iss) == UNION {Dst(e.u) : e \in {f \in iss : IsMem(f.u) \/ f.u.lat >= 2}}

\* Mutant: the countdown starts one too low.
CountdownShort(lat) == IF lat >= 3 THEN lat - 3 ELSE 0

\* The cycles that a uop of latency lat still counts after its issue.
Countdown(lat) == IF lat >= 2 THEN lat - 2 ELSE 0

\* The uop of iss that goes to entry i, as a set.
IssuedTo(i, iss) == {e \in iss : e.rob = i}

\* Mutant: a uop that loses the competition in its first cycle is dropped.
EntersPoolSlow(e, picked) == e.rob \notin Robs(Now({e}))

\* A uop of latency one that is picked at once never enters the pool.
EntersPool(e, picked) == Now({e}) = {} \/ e.rob \notin picked

----------------------------------------------------------------------------
EuInit ==
  /\ eu = <<>> /\ rq_pend = {} /\ rr = 0
  /\ prf_rdy = Phys
  /\ r_wb = {} /\ r_req = {}

EuCycle(iss, lsu_ready, lsu_done) ==
  LET picked == Picked(iss, lsu_done)
      enter  == {e \in iss : EntersPool(e, picked)}
      stay   == (DOMAIN eu \ picked) \ Robs(iss)
  IN /\ eu' = [i \in stay \cup Robs(enter) |->
                 IF i \in stay
                   THEN [eu[i] EXCEPT
                           !.wt  = @ /\ i \notin lsu_done,
                           !.cnt = IF ~eu[i].wt /\ @ > 0 THEN @ - 1 ELSE @]
                   ELSE LET e == CHOOSE e \in enter : e.rob = i
                        IN [wt |-> IsMem(e.u), dst |-> e.u.dst, cnt |-> Countdown(e.u.lat)]]
     /\ prf_rdy' = (prf_rdy \cup UNION {WrittenBy(i, iss) : i \in picked}) \ Cleared(iss)
     /\ rq_pend' = (rq_pend \cup Robs({e \in iss : IsMem(e.u)})) \ Sent(lsu_ready)
     /\ rr'      = (rr + 1) % ROB_N
     /\ r_wb'    = picked
     /\ r_req'   = Sent(lsu_ready)

\* The pipeline is empty, so every register counts as produced.
EuFlush ==
  /\ eu' = <<>> /\ rq_pend' = {} /\ rr' = 0
  /\ prf_rdy' = Phys
  /\ r_wb' = {} /\ r_req' = {}
=============================================================================
