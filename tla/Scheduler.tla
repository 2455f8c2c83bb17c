----------------------------- MODULE Scheduler -----------------------------
(***************************************************************************)
(* The issue queue and the execution units as model/ooo/top.v connects     *)
(* them; one step is one clock edge of both.  The reorder buffer is the    *)
(* window of uops it has dispatched and not retired (Rob.tla has its ring),*)
(* and rename is what CommitPath.tla establishes about it: a destination   *)
(* is a register that no live uop reads or writes.  The load/store unit    *)
(* answers each request once and drops its requests when it is flushed.    *)
(***************************************************************************)
EXTENDS Iq, Eu

CONSTANT Streams    \* sequences of renamed uops; dispatch takes one round and round

ASSUME StreamsAssumption ==
  \A s \in Streams : /\ s \in Seq(Uop) /\ s # <<>>
                      /\ \A i \in DOMAIN s : s[i].dst \notin s[i].src

VARIABLES
  stream, \* the uops to dispatch; a flush goes back to its start
  pc,     \* where in it the next uop is
  win,    \* the live uops in program order: uop, reorder-buffer entry,
          \* rob_done, and since when it is issued (0: it is not)
  tail,   \* the next reorder-buffer entry
  lsu     \* the memory requests the load/store unit has not answered

vars == <<iqVars, euVars, stream, pc, win, tail, lsu>>

----------------------------------------------------------------------------
Entry(k) == (tail + k - 1) % cfg_rob_entries

\* The uops that come next.
Upcoming(k) == [j \in 1..k |-> stream[1 + ((pc + j - 1) % Len(stream))]]

\* Registers that the live uops and the first k uops of a bundle name.
Named(ds, k) ==
  (UNION {win[i].u.src \cup Dst(win[i].u) : i \in 1..Len(win)})
    \cup (UNION {ds[j].src \cup Dst(ds[j]) : j \in 1..k})

\* The bundles dispatch may take: no longer than the room of queue and reorder
\* buffer, and with a free register for each destination.
Bundles ==
  {ds \in {Upcoming(k) : k \in 0..AtMost(iq_nfree(prf_rdy), cfg_rob_entries - Len(win))} :
     \A j \in 1..Len(ds) : Dst(ds[j]) \cap Named(ds, j - 1) = {}}

\* The reorder buffer retires as many finished uops as it can.
n_cmt ==
  CHOOSE n \in 0..AtMost(Len(win), W) :
    /\ \A k \in 1..n : win[k].done
    /\ n < AtMost(Len(win), W) => ~win[n + 1].done

\* The memory requests that may be answered in one cycle: two from the delay
\* line and two from the miss registers.
Answers == {d \in SUBSET lsu : Cardinality(d) <= 4}

\* A live uop one clock edge later.
Aged(e, iss) ==
  [e EXCEPT !.done = @ \/ e.rob \in r_wb,
            !.t = IF e.rob \in Robs(iss) THEN 1
                  ELSE IF @ > 0 /\ @ < e.u.lat THEN @ + 1 ELSE @]

----------------------------------------------------------------------------
Init ==
  /\ IqInit /\ EuInit
  /\ stream \in Streams /\ pc = 0
  /\ win = <<>> /\ tail = 0 /\ lsu = {}

Cycle(ds, lsu_ready, lsu_done) ==
  LET iss == Issued(prf_rdy) IN
  /\ IqCycle(ds, [j \in 1..Len(ds) |-> Entry(j)], prf_rdy)
  /\ EuCycle(iss, lsu_ready, lsu_done)
  /\ win' = [k \in 1..Len(win) - n_cmt |-> Aged(win[n_cmt + k], iss)]
              \o [j \in 1..Len(ds) |-> [u |-> ds[j], rob |-> Entry(j), done |-> FALSE, t |-> 0]]
  /\ tail' = Entry(Len(ds) + 1)
  /\ lsu' = (lsu \ lsu_done) \cup r_req
  /\ pc' = (pc + Len(ds)) % Len(stream) /\ UNCHANGED stream

Flush ==
  /\ win # <<>> /\ win[1].done
  /\ IqFlush /\ EuFlush
  /\ win' = <<>> /\ tail' = 0 /\ lsu' = {}
  /\ pc' = 0 /\ UNCHANGED stream

Next ==
  \/ \E ds \in Bundles, lsu_ready \in BOOLEAN, lsu_done \in Answers :
       Cycle(ds, lsu_ready, lsu_done)
  \/ Flush

Spec == Init /\ [][Next]_vars

\* The clock ticks, and the load/store unit is ready again and again and
\* answers every request in the end.
Ticks   == \E ds \in Bundles, lsu_done \in Answers : Cycle(ds, TRUE, lsu_done)
Answered(i) ==
  /\ i \in lsu
  /\ \E ds \in Bundles, lsu_ready \in BOOLEAN, lsu_done \in Answers :
       i \in lsu_done /\ Cycle(ds, lsu_ready, lsu_done)

LiveSpec == Spec /\ WF_vars(Ticks) /\ \A i \in RobIx : WF_vars(Answered(i))
----------------------------------------------------------------------------
Live == 1..Len(win)
InIq(rob) == {i \in DOMAIN iq : iq[i].rob = rob}

TypeOK ==
  /\ DOMAIN iq \subseteq 0..cfg_iq_entries-1
  /\ \A i \in DOMAIN iq :
       iq[i] \in [u : Uop, rob : RobIx, pend : SUBSET Phys, seq : 0..SeqMod-1]
  /\ seq_ctr \in 0..SeqMod-1 /\ wait_m \subseteq Phys
  /\ DOMAIN eu \subseteq RobIx
  /\ \A i \in DOMAIN eu :
       eu[i] \in [wt : BOOLEAN, dst : Phys \cup {NoReg}, cnt : 0..LAT_MAX]
  /\ rq_pend \subseteq RobIx /\ rr \in RobIx /\ prf_rdy \subseteq Phys
  /\ r_wb \subseteq RobIx /\ r_req \subseteq RobIx
  /\ \A k \in Live : win[k] \in [u : Uop, rob : RobIx, done : BOOLEAN, t : 0..LAT_MAX]
  /\ stream \in Streams /\ pc \in 0..Len(stream)-1
  /\ Len(win) <= cfg_rob_entries /\ tail \in 0..cfg_rob_entries-1 /\ lsu \subseteq RobIx

\* A live uop is in the queue, in the pool, on its way to the reorder buffer,
\* or done: one of them, and once.
Places(rob) ==
  Cardinality(InIq(rob)) + Cardinality({rob} \cap DOMAIN eu) + Cardinality({rob} \cap r_wb)

\* No uop is dropped by a lost port, a full queue or a slot handed out twice,
\* none is executed or written back twice, and nothing is left of a dead one;
\* an access that waits has exactly one request on its way or in the unit.
InOnePlace ==
  /\ TypeOK
  /\ \A k \in Live : Places(win[k].rob) = IF win[k].done THEN 0 ELSE 1
  /\ \A rob \in RobIx \ {win[k].rob : k \in Live} : Places(rob) = 0
  /\ \A i \in DOMAIN iq : \E k \in Live : win[k].rob = iq[i].rob /\ win[k].u = iq[i].u
  /\ {i \in DOMAIN eu : eu[i].wt} = rq_pend \cup r_req \cup lsu
  /\ rq_pend \cap r_req = {} /\ rq_pend \cap lsu = {} /\ r_req \cap lsu = {}

\* The value of live uop k can be read by a uop issued in this cycle.
Produced(k) ==
  /\ win[k].t > 0
  /\ (~IsMem(win[k].u) /\ win[k].u.lat <= 1) \/ win[k].rob \notin DOMAIN eu

\* The uop on which live uop k depends for register s, as a set.
ProducerOf(k, s) ==
  {j \in 1..k-1 : win[j].u.dst = s /\ \A i \in j+1..k-1 : win[i].u.dst # s}

\* The bit-matrix wakeup is exact: what the queue takes for ready is what has
\* all its values, no sooner (a wrong result) and no later (a lost wakeup); and
\* a register that no live uop names is ready, so that whoever is given it next
\* starts from a clean scoreboard, after a flush as well.
WakeupExact ==
  /\ \A k \in Live : \A i \in InIq(win[k].rob) :
       i \in Ready(prf_rdy) <=>
         \A s \in win[k].u.src : \A j \in ProducerOf(k, s) : Produced(j)
  /\ \A p \in Phys \ Named(<<>>, 0) : p \in EffReady(prf_rdy)

\* A uop is issued no earlier than its producer's latency after the producer,
\* and after the answer if that is a memory access.
LatencyKept ==
  \A k \in Live : InIq(win[k].rob) \cap Selected(prf_rdy) # {} =>
    \A s \in win[k].u.src : \A j \in ProducerOf(k, s) :
      /\ win[j].t > 0
      /\ IF IsMem(win[j].u)
           THEN win[j].rob \notin rq_pend \cup r_req \cup lsu
           ELSE win[j].t >= win[j].u.lat

\* A ready uop is passed over only when older ones take the whole issue width,
\* or the whole of the unit that it needs: the age numbers, which go round,
\* still tell the program order, and a limit holds back nobody else.
OldestFirst ==
  \A k \in Live : \A i \in InIq(win[k].rob) \cap (Ready(prf_rdy) \ Selected(prf_rdy)) :
    LET older == {m \in 1..k-1 : InIq(win[m].rob) \cap Selected(prf_rdy) # {}}
        rivals == {m \in older : win[m].u.class = win[k].u.class}
    IN \/ Cardinality(older) = cfg_issue_width
       \/ win[k].u.class = "div" /\ Cardinality(rivals) = 1
       \/ win[k].u.class = "mul" /\ Cardinality(rivals) = 2

\* Whatever it depends on and competes with, a dispatched uop is written back
\* (unless a flush takes it).
Undone(rob) == \E k \in Live : win[k].rob = rob /\ ~win[k].done
AllFinish   == \A rob \in RobIx : Undone(rob) ~> ~Undone(rob)

----------------------------------------------------------------------------
\* How far live uop k has come.
Status(k) ==
  IF win[k].done THEN "finished"
  ELSE IF win[k].t = 0 THEN "waiting"
  ELSE IF Produced(k) THEN "produced" ELSE "executing"

Progress == [k \in Live |-> [dst |-> win[k].u.dst, src |-> win[k].u.src, st |-> Status(k)]]

Dataflow == INSTANCE DataflowOrder WITH window <- Progress

\* However uops overtake each other, each starts after what it depends on.
KeepsDataflow == Dataflow!Spec
=============================================================================
