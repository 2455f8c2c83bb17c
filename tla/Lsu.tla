--------------------------------- MODULE Lsu ---------------------------------
(***************************************************************************)
(* model/ooo/lsu/lsu_q.v: the load and store queues, the miss registers,   *)
(* the delay line of the hits, the request buffer and the queue of memory  *)
(* events.  An array is a function from its entries in use.  A memory event *)
(* is a record of what the off-line cache simulation decided: miss, and    *)
(* latency.  The pseudo-random guess that a load conflicts with a store is  *)
(* an input.                                                               *)
(***************************************************************************)
EXTENDS Integers, FiniteSets, Sequences

CONSTANTS
  W,                 \* `W: lanes of every bundle
  LDQ_N, STQ_N,      \* `LDQ_N, `STQ_N: queue entries built
  MSHR_N,            \* `MSHR_N: miss registers
  HD,                \* stages of the delay line
  PQN,               \* entries of the request buffer
  MQN,               \* entries of the memory-event queue
  ST_LAT,            \* latency of a store
  cfg_ldq_entries,   \* queue entries in use
  cfg_stq_entries,
  HitEvent           \* the event all of whose bits are 0

ASSUME LsuAssumption ==
  /\ W \in Nat \ {0} /\ LDQ_N \in Nat \ {0} /\ STQ_N \in Nat \ {0}
  /\ MSHR_N \in Nat \ {0} /\ HD \in Nat \ {0} /\ PQN \in Nat \ {0} /\ MQN \in Nat
  /\ ST_LAT \in Nat /\ cfg_ldq_entries \in Nat /\ cfg_stq_entries \in Nat
  /\ HitEvent = [miss |-> FALSE, lat |-> HitEvent.lat]

VARIABLES
  ldq, ld_head, ld_tail, ld_cnt,   \* ld_*: rob, ar, st, blk, wid, dn, ev
  stq, st_head, st_tail, st_cnt,   \* st_*: rob, ar, st, noacc, dn
  ms,                              \* ms_*: cnt, rob, ldq, dead
  hl,                              \* hl_*: per stage, at most two accesses
  pq,                              \* pq_*: requests to look up
  me                               \* me_q: events of fetched memory uops

queueVars == <<ldq, ld_head, ld_tail, ld_cnt, stq, st_head, st_tail, st_cnt>>
lsuVars   == <<queueVars, ms, hl, pq, me>>

AtMost(a, b) == IF a < b THEN a ELSE b

----------------------------------------------------------------------------
\* Sizes in use: 0 and too much both mean all.
ld_max == IF cfg_ldq_entries \in 1..LDQ_N THEN cfg_ldq_entries ELSE LDQ_N
st_max == IF cfg_stq_entries \in 1..STQ_N THEN cfg_stq_entries ELSE STQ_N

\* Room for a prefix of any composition, and readiness for requests.
lsq_nfree == AtMost(W, AtMost(ld_max - ld_cnt, st_max - st_cnt))

lsu_ready == pq = <<>>

IsLoad(c)  == c \in {"load", "amo"}
IsStore(c) == c \in {"store", "amo"}
IsMem(c)   == c \in {"load", "store", "amo"}

\* Mutant: the second entry leaves whatever the first one is.
DrainEachDone(q, head, max) ==
  {i \in DOMAIN q : (i - head) % max < 2 /\ q[i].dn}

\* Steps 1 and 2: at most two done entries leave the old end of a queue.
Drained(q, head, max) ==
  {i \in DOMAIN q : /\ (i - head) % max < 2
                    /\ \A j \in DOMAIN q : (j - head) % max <= (i - head) % max => q[j].dn}
LdGone == Drained(ldq, ld_head, ld_max)
StGone == Drained(stq, st_head, st_max)

\* Step 4: the accesses that leave the delay line.
LineDone(q) == {a.idx : a \in {x \in hl[0] : x.q = q}}

\* Step 6: miss registers that have counted down; two live ones are answered.
Due      == {m \in DOMAIN ms : ms[m].cnt = 0}
LiveDue  == {m \in Due : ~ms[m].dead}
\* Mutant: a miss of a flushed load is answered like any other.
ReportedDead == {m \in Due : Cardinality({k \in Due : k < m}) < 2}
Reported == {m \in LiveDue : Cardinality({k \in LiveDue : k < m}) < 2}

MsFreed  == Reported \cup {m \in Due : ms[m].dead}
MsFree   == {m \in 0..MSHR_N-1 : m \notin DOMAIN ms \/ m \in MsFreed}

\* done_v, done_rob.
Answers == {a.rob : a \in hl[0]} \cup {ms[m].rob : m \in Reported}

\* Step 7: two requests are looked up in the queues.
Popped == {pq[i] : i \in 1..AtMost(2, Len(pq))}

\* Mutant: a load that waits is not told that its store is gone.
LdStillBlocked(e) ==
  [ldq[e] EXCEPT
     !.dn  = @ \/ e \in LineDone("ld") \/ \E m \in Reported : ms[m].ldq = e,
     !.ar  = @ \/ ldq[e].rob \in Popped]

\* The entries after steps 1 to 7.
Ld(e) == [ldq[e] EXCEPT
            !.blk = @ /\ ldq[e].wid \notin StGone,
            !.dn  = @ \/ e \in LineDone("ld") \/ \E m \in Reported : ms[m].ldq = e,
            !.ar  = @ \/ ldq[e].rob \in Popped]
St(e) == [stq[e] EXCEPT
            !.dn  = @ \/ e \in LineDone("st"),
            !.ar  = @ \/ stq[e].rob \in Popped]

\* Step 8a: the two memory ports take loads first, each kind in index order.
LdWants == {e \in DOMAIN ldq \ LdGone : Ld(e).ar /\ ~Ld(e).st /\ ~Ld(e).blk /\ ~Ld(e).dn}
StWants == {e \in DOMAIN stq \ StGone : St(e).ar /\ ~St(e).st /\ ~St(e).dn /\ ~St(e).noacc}
Nth(S, k) == {e \in S : Cardinality({f \in S : f < e}) = k - 1}

LdAccess(e, k) == [q |-> "ld", idx |-> e, port |-> k, rob |-> ldq[e].rob, ev |-> ldq[e].ev]
StAccess(e, k) ==
  [q |-> "st", idx |-> e, port |-> k, rob |-> stq[e].rob, ev |-> [miss |-> FALSE, lat |-> ST_LAT]]
\* The access on port k = 1, 2, as a set.
Port(k) ==
  {LdAccess(e, k) : e \in Nth(LdWants, k)}
    \cup {StAccess(e, k) : e \in Nth(StWants, k - Cardinality(LdWants))}

\* Step 8b: a miss needs a miss register, a hit a slot in the stage of its
\* latency once the line has moved on (step 5); else it tries again.
Stage(lat) == IF lat = 0 THEN 0 ELSE IF lat > HD THEN HD - 1 ELSE lat - 1
Shifted(s) == IF s < HD - 1 THEN hl[s + 1] ELSE {}

Starts(a, before) ==
  IF a.ev.miss
    THEN Cardinality(MsFree) > Cardinality({b \in before : b.ev.miss})
    ELSE Cardinality(Shifted(Stage(a.ev.lat)))
           + Cardinality({b \in before : ~b.ev.miss /\ Stage(b.ev.lat) = Stage(a.ev.lat)}) < 2

Starting(ports) == {a \in ports : Starts(a, {b \in ports : b.port < a.port})}
Started == Starting(Port(1) \cup Port(2))

\* The k-th miss to start gets the k-th free miss register.
MissIn(started, m) ==
  {a \in started : a.ev.miss /\
     m \in Nth(MsFree, 1 + Cardinality({b \in started : b.ev.miss /\ b.port < a.port}))}

\* The miss registers when these accesses start; flushed: those that count and
\* those that start are dead from now on.
MsNext(started, flushed) ==
  [m \in (DOMAIN ms \ MsFreed) \cup {k \in 0..MSHR_N-1 : MissIn(started, k) # {}} |->
     IF MissIn(started, m) # {}
       THEN LET a == CHOOSE a \in MissIn(started, m) : TRUE
            IN [cnt |-> a.ev.lat, rob |-> a.rob, ldq |-> a.idx, dead |-> flushed]
       ELSE [ms[m] EXCEPT !.cnt = IF @ > 0 THEN @ - 1 ELSE 0, !.dead = @ \/ flushed]]

----------------------------------------------------------------------------
\* Step 10: lane j of the dispatched bundle ds is given the next entries of
\* the queues that its class needs, stores before loads.
StLanes(ds, j) == Cardinality({i \in 1..j : IsStore(ds[i].class)})
LdLanes(ds, j) == Cardinality({i \in 1..j : IsLoad(ds[i].class)})
MemLanes(ds, j) == Cardinality({i \in 1..j : IsMem(ds[i].class)})

StLeft == st_cnt - Cardinality(StGone)
LdLeft == ld_cnt - Cardinality(LdGone)

StTaken(ds, j) == AtMost(StLanes(ds, j), st_max - StLeft)
LdTaken(ds, j) == AtMost(LdLanes(ds, j), ld_max - LdLeft)

\* The lane that takes queue entry e, as a set.
StLane(ds, e) ==
  {j \in 1..Len(ds) : /\ IsStore(ds[j].class) /\ StTaken(ds, j) = StLanes(ds, j)
                      /\ e = (st_tail + StLanes(ds, j) - 1) % st_max}
LdLane(ds, e) ==
  {j \in 1..Len(ds) : /\ IsLoad(ds[j].class) /\ LdTaken(ds, j) = LdLanes(ds, j)
                      /\ e = (ld_tail + LdLanes(ds, j) - 1) % ld_max}

\* The event of lane j: the next one of the queue, if there is one.
EventOf(ds, j) == IF MemLanes(ds, j) <= Len(me) THEN me[MemLanes(ds, j)] ELSE HitEvent

NewStore(ds, j) ==
  LET amo == ds[j].class = "amo"
  IN [rob |-> ds[j].rob, ar |-> FALSE, st |-> FALSE, noacc |-> amo, dn |-> amo]

\* Mutant: the load waits for the entry that the next store will be given.
NewLoadWaitsForNext(ds, j, guess) ==
  [rob |-> ds[j].rob, ar |-> FALSE, st |-> FALSE, dn |-> FALSE, ev |-> EventOf(ds, j),
   blk |-> j \in guess /\ StLeft + StTaken(ds, j) # 0,
   wid |-> (st_tail + StTaken(ds, j)) % st_max]

\* A load that is guessed to conflict waits for the youngest store.
NewLoad(ds, j, guess) ==
  [rob |-> ds[j].rob, ar |-> FALSE, st |-> FALSE, dn |-> FALSE, ev |-> EventOf(ds, j),
   blk |-> j \in guess /\ StLeft + StTaken(ds, j) # 0,
   wid |-> (st_tail + StTaken(ds, j) - 1) % st_max]

\* Mutant: the room is counted before the two requests have left.
BufferedBeforePop(req) ==
  SubSeq(pq, AtMost(2, Len(pq)) + 1, Len(pq))
    \o SubSeq(req, 1, AtMost(Len(req), PQN - Len(pq)))

\* Steps 7 and 9: two requests leave the buffer, and new ones enter it while
\* there is room.
Buffered(req) ==
  LET rest == SubSeq(pq, AtMost(2, Len(pq)) + 1, Len(pq))
  IN rest \o SubSeq(req, 1, AtMost(Len(req), PQN - Len(rest)))

----------------------------------------------------------------------------
LsuInit ==
  /\ ldq = <<>> /\ ld_head = 0 /\ ld_tail = 0 /\ ld_cnt = 0
  /\ stq = <<>> /\ st_head = 0 /\ st_tail = 0 /\ st_cnt = 0
  /\ ms = <<>> /\ hl = [s \in 0..HD-1 |-> {}] /\ pq = <<>> /\ me = <<>>

\* A clock edge without flush: ds is dispatched (guess: its lanes whose load
\* is guessed to conflict), req is requested, and memory uops with the events
\* ev are fetched.
LsuCycle(ds, guess, req, ev) ==
  LET n     == Len(ds)
      newLd == {e \in 0..ld_max-1 : LdLane(ds, e) # {}}
      newSt == {e \in 0..st_max-1 : StLane(ds, e) # {}}
      started  == Started
      begun(q) == {a.idx : a \in {b \in started : b.q = q}}
      lane(S)  == CHOOSE j \in S : TRUE
      left  == SubSeq(me, AtMost(MemLanes(ds, n), Len(me)) + 1, Len(me))
  IN /\ ldq' = [e \in (DOMAIN ldq \ LdGone) \cup newLd |->
                  IF e \in newLd THEN NewLoad(ds, lane(LdLane(ds, e)), guess)
                  ELSE [Ld(e) EXCEPT !.st = @ \/ e \in begun("ld")]]
     /\ stq' = [e \in (DOMAIN stq \ StGone) \cup newSt |->
                  IF e \in newSt THEN NewStore(ds, lane(StLane(ds, e)))
                  ELSE [St(e) EXCEPT !.st = @ \/ e \in begun("st")]]
     /\ ld_head' = (ld_head + Cardinality(LdGone)) % ld_max
     /\ st_head' = (st_head + Cardinality(StGone)) % st_max
     /\ ld_tail' = (ld_tail + LdTaken(ds, n)) % ld_max
     /\ st_tail' = (st_tail + StTaken(ds, n)) % st_max
     /\ ld_cnt'  = LdLeft + LdTaken(ds, n)
     /\ st_cnt'  = StLeft + StTaken(ds, n)
     /\ ms' = MsNext(started, FALSE)
     /\ hl' = [s \in 0..HD-1 |->
                 Shifted(s) \cup {[q |-> a.q, idx |-> a.idx, rob |-> a.rob] :
                    a \in {b \in started : ~b.ev.miss /\ Stage(b.ev.lat) = s}}]
     /\ pq' = Buffered(req)
     /\ me' = left \o SubSeq(ev, 1, AtMost(Len(ev), MQN - Len(left)))

\* Mutants: a flush forgets the misses on their way, or the events stay.
LsuFlushKeepsMisses ==
  /\ ldq' = <<>> /\ ld_head' = 0 /\ ld_tail' = 0 /\ ld_cnt' = 0
  /\ stq' = <<>> /\ st_head' = 0 /\ st_tail' = 0 /\ st_cnt' = 0
  /\ hl' = [s \in 0..HD-1 |-> {}] /\ pq' = <<>> /\ me' = <<>>
  /\ ms' = MsNext(Started, FALSE)
LsuFlushKeepsEvents ==
  /\ ldq' = <<>> /\ ld_head' = 0 /\ ld_tail' = 0 /\ ld_cnt' = 0
  /\ stq' = <<>> /\ st_head' = 0 /\ st_tail' = 0 /\ st_cnt' = 0
  /\ hl' = [s \in 0..HD-1 |-> {}] /\ pq' = <<>> /\ me' = me
  /\ ms' = MsNext(Started, TRUE)

\* A clock edge with flush empties everything but the miss registers: a miss
\* that is under way, or starts in this very cycle, counts on as dead.
LsuFlush ==
  /\ ldq' = <<>> /\ ld_head' = 0 /\ ld_tail' = 0 /\ ld_cnt' = 0
  /\ stq' = <<>> /\ st_head' = 0 /\ st_tail' = 0 /\ st_cnt' = 0
  /\ hl' = [s \in 0..HD-1 |-> {}] /\ pq' = <<>> /\ me' = <<>>
  /\ ms' = MsNext(Started, TRUE)
=============================================================================
