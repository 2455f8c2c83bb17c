------------------------------ MODULE MemPath ------------------------------
(***************************************************************************)
(* The load/store unit between the three stages it hears: fetch gives it   *)
(* the memory events, dispatch the uops, and be_eu the requests, one clock *)
(* edge after it has seen lsu_ready.  One step is one clock edge.          *)
(*                                                                         *)
(* The other stages are reduced to what they owe it: a decode queue, a     *)
(* window of uops in program order with their reorder-buffer entries, one  *)
(* request for each memory uop, and retirement in order after the answer.  *)
(***************************************************************************)
EXTENDS Lsu, SequencesExt

CONSTANTS
  ROB_N,     \* reorder-buffer entries
  DQ_N,      \* decode-queue entries
  AnyOrder,  \* be_eu sends requests in any order, or the oldest first
  Streams    \* sequences of uops; fetch takes one round and round

MemEvent == [miss : BOOLEAN, lat : Nat]

ASSUME MemPathAssumption ==
  /\ ROB_N \in Nat \ {0} /\ DQ_N \in Nat \ {0} /\ AnyOrder \in BOOLEAN
  /\ \A us \in Streams :
       us \in Seq([class : {"load", "store", "amo", "other"}, ev : MemEvent]) /\ us # <<>>
  /\ MQN >= DQ_N                     \* every uop of the decode queue may have an event
  /\ PQN >= W /\ PQN >= 2 * W - 2    \* be_eu sees lsu_ready two bursts long

VARIABLES
  stream, pc,    \* the uops to fetch
  dq,            \* fetched, not dispatched
  win, tail,     \* dispatched memory uops, not retired; next entry
  r_req          \* be_eu's registered requests

vars == <<lsuVars, stream, pc, dq, win, tail, r_req>>

----------------------------------------------------------------------------
\* The next k uops of the stream.
Fetched(k) == [j \in 1..k |-> stream[1 + ((pc + j - 1) % Len(stream))]]

\* The elements of s at the positions in S, in their order.
Kept(s, S) == [k \in 1..Cardinality(S) |-> s[CHOOSE i \in Nth(S, k) : TRUE]]

OnlyMem(us) == Kept(us, {j \in DOMAIN us : IsMem(us[j].class)})
Events(us)  == [j \in 1..Len(OnlyMem(us)) |-> OnlyMem(us)[j].ev]

\* The first k uops of the decode queue with their reorder-buffer entries.
Bundle(k) == [j \in 1..k |-> [class |-> dq[j].class, rob |-> (tail + j - 1) % ROB_N, ev |-> dq[j].ev]]

Live == 1..Len(win)
\* Entries in use: the memory uops of the window and all uops between them.
RobRoom == IF win = <<>> THEN ROB_N ELSE (win[1].rob - tail) % ROB_N

\* Lanes whose load may be guessed to conflict with a store.
Conflicts(k) == {j \in 1..k : IsLoad(dq[j].class) /\ StLeft + StTaken(Bundle(k), j) # 0}

Dispatchable == 0..AtMost(AtMost(Len(dq), lsq_nfree), RobRoom)
Fetchable(k) == 0..AtMost(W, DQ_N - Len(dq) + k)

\* be_eu sends requests of memory uops that are ready.
WaitingAt == {j \in Live : win[j].at = "waiting"}
Waiting   == {win[k].rob : k \in WaitingAt}
InOrder   == [k \in 1..Cardinality(WaitingAt) |-> Kept(win, WaitingAt)[k].rob]
Requests ==
  IF ~lsu_ready THEN {<<>>}
  ELSE IF AnyOrder THEN {s \in BoundedSeq(Waiting, W) : IsInjective(s)}
  ELSE {SubSeq(InOrder, 1, k) : k \in 0..AtMost(W, Len(InOrder))}

Retirable   == {n \in 0..AtMost(W, Len(win)) : \A k \in 1..n : win[k].at = "answered"}

Moved(e, send) ==
  [e EXCEPT !.at = IF e.rob \in Answers THEN "answered"
                   ELSE IF e.rob \in ToSet(send) THEN "asked" ELSE @]

----------------------------------------------------------------------------
Init ==
  /\ LsuInit
  /\ stream \in Streams /\ pc = 0 /\ dq = <<>>
  /\ win = <<>> /\ tail = 0 /\ r_req = <<>>

Cycle(k, f, guess, send, n) ==
  LET ds == Bundle(k) IN
  /\ LsuCycle(ds, guess, r_req, Events(Fetched(f)))
  /\ dq' = SubSeq(dq, k + 1, Len(dq)) \o Fetched(f)
  /\ pc' = (pc + f) % Len(stream)
  /\ win' = [i \in 1..Len(win) - n |-> Moved(win[n + i], send)]
              \o [j \in 1..Len(OnlyMem(ds)) |->
                    [class |-> OnlyMem(ds)[j].class, rob |-> OnlyMem(ds)[j].rob,
                     ev |-> OnlyMem(ds)[j].ev, at |-> "waiting"]]
  /\ tail' = (tail + k) % ROB_N
  /\ r_req' = send
  /\ UNCHANGED stream

Flush ==
  /\ LsuFlush
  /\ dq' = <<>> /\ pc' = 0 /\ win' = <<>> /\ tail' = 0 /\ r_req' = <<>>
  /\ UNCHANGED stream

Clock ==
  \E k \in Dispatchable, send \in Requests, n \in Retirable :
    \E f \in Fetchable(k), guess \in SUBSET Conflicts(k) : Cycle(k, f, guess, send, n)

Next == Clock \/ Flush

Spec == Init /\ [][Next]_vars

\* The clock ticks, and be_eu does not withhold its requests for ever.
Ticks    == Clock /\ (lsu_ready /\ Waiting # {} => r_req' # <<>>)
LiveSpec == Spec /\ WF_vars(Ticks)
----------------------------------------------------------------------------
TypeOK ==
  /\ DOMAIN ldq \subseteq 0..ld_max-1 /\ DOMAIN stq \subseteq 0..st_max-1
  /\ ld_head \in 0..ld_max-1 /\ ld_tail \in 0..ld_max-1 /\ ld_cnt \in 0..ld_max
  /\ st_head \in 0..st_max-1 /\ st_tail \in 0..st_max-1 /\ st_cnt \in 0..st_max
  /\ \A e \in DOMAIN ldq : ldq[e].rob \in 0..ROB_N-1 /\ ldq[e].wid \in 0..st_max-1
  /\ \A e \in DOMAIN stq : stq[e].rob \in 0..ROB_N-1
  /\ DOMAIN ms \subseteq 0..MSHR_N-1 /\ \A m \in DOMAIN ms : ms[m].ldq \in 0..ld_max-1
  /\ \A s \in 0..HD-1 : Cardinality(hl[s]) <= 2
  /\ Len(pq) <= PQN /\ Len(me) <= MQN /\ Len(dq) <= DQ_N

\* Every queue keeps its bounds, and the four counters and the valid bits of a queue describe one ring, through
\* drains of two and allocations of any number in the same cycle.
RingExact(q, head, end, cnt, max) ==
  /\ DOMAIN q = {(head + i) % max : i \in 0..cnt-1}
  /\ end = (head + cnt) % max
QueuesExact ==
  /\ TypeOK
  /\ RingExact(ldq, ld_head, ld_tail, ld_cnt, ld_max)
  /\ RingExact(stq, st_head, st_tail, st_cnt, st_max)

\* The event queue, filled at fetch and emptied at dispatch and by flushes,
\* never slips: each load has the event that its own instruction was given.
EventsAligned ==
  /\ me = Events(dq)
  /\ \A e \in DOMAIN ldq, k \in Live :
       ldq[e].rob = win[k].rob /\ IsLoad(win[k].class) /\ ~ldq[e].dn => ldq[e].ev = win[k].ev

\* Requests the unit has received and not answered.
Pending ==
  ToSet(pq) \cup {ldq[e].rob : e \in {d \in DOMAIN ldq : ldq[d].ar /\ ~ldq[d].dn}}
    \cup {stq[e].rob : e \in {d \in DOMAIN stq : stq[d].ar /\ ~stq[d].dn}}

\* Each request that be_eu has sent and that is not answered is in the unit:
\* none is dropped by a full buffer or finds no queue entry.
RequestsKept ==
  /\ {win[k].rob : k \in {j \in Live : win[j].at = "asked"}} = ToSet(r_req) \cup Pending
  /\ ToSet(r_req) \cap Pending = {}

\* An access that has started is in the delay line or in one live miss
\* register until it is done, and nothing else is there: no answer comes from
\* a flushed access, and none comes twice.
Accesses(q, e) ==
  (UNION {{<<"line", s, a>> : a \in {x \in hl[s] : x.q = q /\ x.idx = e}} : s \in 0..HD-1})
    \cup {<<"miss", m, ms[m]>> :
             m \in {x \in DOMAIN ms : q = "ld" /\ ~ms[x].dead /\ ms[x].ldq = e}}
OneAccess ==
  /\ \A e \in 0..ld_max-1 :
       Cardinality(Accesses("ld", e)) =
         IF e \in DOMAIN ldq /\ ldq[e].st /\ ~ldq[e].dn THEN 1 ELSE 0
  /\ \A e \in 0..st_max-1 :
       Cardinality(Accesses("st", e)) =
         IF e \in DOMAIN stq /\ stq[e].st /\ ~stq[e].dn THEN 1 ELSE 0
  /\ \A e \in DOMAIN ldq : \A a \in Accesses("ld", e) : a[3].rob = ldq[e].rob
  /\ \A e \in DOMAIN stq : \A a \in Accesses("st", e) : a[3].rob = stq[e].rob

\* A load that waits for a store waits for one that is still queued, and all
\* that must still be done before that one can leave is older than the load,
\* whatever has been drained and allocated since.
BlockedByOlder ==
  \A e \in DOMAIN ldq : ldq[e].blk =>
    /\ ldq[e].wid \in DOMAIN stq
    /\ \A s \in DOMAIN stq, i, k \in Live :
         /\ (s - st_head) % st_max <= (ldq[e].wid - st_head) % st_max /\ ~stq[s].dn
         /\ win[i].rob = ldq[e].rob /\ win[k].rob = stq[s].rob
         => k < i

Promise == INSTANCE MemoryPort WITH pending <- Pending

\* The unit keeps its promise to the execution units.
ServesRequests ==
  Promise!Init /\ [][Promise!Serve(ToSet(r_req), Answers) \/ (LsuFlush /\ Promise!Flush)]_vars

\* Through full miss registers, dead misses, guessed conflicts and ports taken
\* by others, every request is answered or flushed.
Asked(rob)    == \E k \in Live : win[k].rob = rob /\ win[k].at = "asked"
AnswersInTheEnd == \A rob \in 0..ROB_N-1 : Asked(rob) ~> ~Asked(rob)
=============================================================================
