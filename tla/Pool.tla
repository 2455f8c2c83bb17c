-------------------------------- MODULE Pool --------------------------------
(***************************************************************************)
(* lib/runtime/pool.c: worker threads with a deque of batch numbers each,  *)
(* a gate they wait at between runs, and the caller of bstm_pool_run and    *)
(* bstm_pool_destroy.  Everything done while the gate or a deque's mutex is *)
(* held is one step; a wait on a condition variable ends by a signal or    *)
(* spuriously.  The statistics n_done and n_stolen, which nothing decides  *)
(* on, are left out.                                                       *)
(***************************************************************************)
EXTENDS Integers, Sequences, FiniteSets, SequencesExt

CONSTANTS
  N,          \* p->n: worker threads
  Runs,       \* the numbers of batches a run may have
  MaxRuns     \* bound: runs in the life of the pool

ASSUME PoolAssumption ==
  /\ N \in Nat \ {0}
  /\ Runs \subseteq Nat \ {0}     \* bstm_pool_run returns at once for n <= 0
  /\ MaxRuns \in Nat

Workers == 0..N-1

VARIABLES
  dq,           \* p->dq: per worker, the jobs in buf[top .. bot-1]
  generation, n_active, shutdown,    \* the gate's state
  wpc,          \* where each worker is
  mygen,        \* the last generation it took part in
  k,            \* how far its round of stealing has come
  idx,          \* the job it took last
  mpc,          \* where the caller is
  n,            \* jobs of the current (or last) run
  pushed,       \* how many of them the caller has dealt out
  finished      \* the jobs of that run whose fn has returned

gateVars   == <<generation, n_active, shutdown>>
workerVars == <<wpc, mygen, k, idx>>
callerVars == <<mpc, n, pushed>>
vars == <<dq, gateVars, workerVars, callerVars, finished>>

----------------------------------------------------------------------------
Init ==
  /\ dq = [w \in Workers |-> <<>>]
  /\ generation = 0 /\ n_active = 0 /\ shutdown = FALSE
  /\ wpc = [w \in Workers |-> "gate"]
  /\ mygen = [w \in Workers |-> 0]
  /\ k = [w \in Workers |-> 0] /\ idx = [w \in Workers |-> 0]
  /\ mpc = "idle" /\ n = 0 /\ pushed = 0
  /\ finished = {}

At(w, from, to) == wpc[w] = from /\ wpc' = [wpc EXCEPT ![w] = to]

\* pthread_cond_broadcast: every worker asleep at the gate is awake after it.
Broadcast == wpc' = [w \in Workers |-> IF wpc[w] = "asleep" THEN "gate" ELSE wpc[w]]

\* A worker passes the gate, leaves for good, or goes to sleep at it.
PassGate(w) ==
  /\ ~shutdown /\ generation # mygen[w]
  /\ At(w, "gate", "pop")
  /\ mygen' = [mygen EXCEPT ![w] = generation]
  /\ UNCHANGED <<dq, gateVars, k, idx, callerVars, finished>>

Exit(w) ==
  /\ shutdown
  /\ At(w, "gate", "exit")
  /\ UNCHANGED <<dq, gateVars, mygen, k, idx, callerVars, finished>>

\* Mutant: it sleeps without looking at the generation first.
SleepBlindly(w) ==
  /\ ~shutdown
  /\ At(w, "gate", "asleep")
  /\ UNCHANGED <<dq, gateVars, mygen, k, idx, callerVars, finished>>

Sleep(w) ==
  /\ ~shutdown /\ generation = mygen[w]
  /\ At(w, "gate", "asleep")
  /\ UNCHANGED <<dq, gateVars, mygen, k, idx, callerVars, finished>>

\* dq_pop: the owner takes its youngest job, or turns to stealing.
Pop(w) ==
  /\ dq[w] # <<>>
  /\ At(w, "pop", "work")
  /\ idx' = [idx EXCEPT ![w] = Last(dq[w])]
  /\ dq'  = [dq EXCEPT ![w] = Front(dq[w])]
  /\ UNCHANGED <<gateVars, mygen, k, callerVars, finished>>

PopNone(w) ==
  /\ dq[w] = <<>>
  /\ At(w, "pop", "steal")
  /\ k' = [k EXCEPT ![w] = 1]
  /\ UNCHANGED <<dq, gateVars, mygen, idx, callerVars, finished>>

\* dq_steal: from the k-th next worker, its oldest job.
Victim(w) == IF w + k[w] >= N THEN w + k[w] - N ELSE w + k[w]

\* Mutant: top is read but not moved.
StealLeavesJob(w) ==
  /\ k[w] < N /\ dq[Victim(w)] # <<>>
  /\ At(w, "steal", "work")
  /\ idx' = [idx EXCEPT ![w] = Head(dq[Victim(w)])]
  /\ UNCHANGED <<dq, gateVars, mygen, k, callerVars, finished>>

Steal(w) ==
  /\ k[w] < N /\ dq[Victim(w)] # <<>>
  /\ At(w, "steal", "work")
  /\ idx' = [idx EXCEPT ![w] = Head(dq[Victim(w)])]
  /\ dq'  = [dq EXCEPT ![Victim(w)] = Tail(dq[Victim(w)])]
  /\ UNCHANGED <<gateVars, mygen, k, callerVars, finished>>

StealNone(w) ==
  /\ k[w] < N /\ dq[Victim(w)] = <<>>
  /\ wpc[w] = "steal"
  /\ k' = [k EXCEPT ![w] = k[w] + 1]
  /\ UNCHANGED <<dq, gateVars, wpc, mygen, idx, callerVars, finished>>

\* fn has returned.
Work(w) ==
  /\ At(w, "work", "pop")
  /\ finished' = finished \cup {idx[w]}
  /\ UNCHANGED <<dq, gateVars, mygen, k, idx, callerVars>>

\* A whole round of stealing found nothing: the worker reports itself
\* finished, and the last one signals done_cv.
Leave(w) ==
  /\ k[w] = N
  /\ At(w, "steal", "gate")
  /\ n_active' = n_active - 1
  /\ mpc' = IF n_active' = 0 /\ mpc = "asleep" THEN "check" ELSE mpc
  /\ UNCHANGED <<dq, generation, shutdown, mygen, k, idx, n, pushed, finished>>

\* pthread_cond_wait may return without a signal.
SpuriousWorker(w) ==
  /\ At(w, "asleep", "gate")
  /\ UNCHANGED <<dq, gateVars, mygen, k, idx, callerVars, finished>>

WorkerStep(w) ==
  \/ PassGate(w) \/ Exit(w) \/ Sleep(w)
  \/ Pop(w) \/ PopNone(w) \/ Steal(w) \/ StealNone(w)
  \/ Work(w) \/ Leave(w)

----------------------------------------------------------------------------
\* bstm_pool_run, called with m batches.
Run(m) ==
  /\ mpc = "idle" /\ generation < MaxRuns
  /\ mpc' = "push" /\ n' = m /\ pushed' = 0
  /\ finished' = {}
  /\ UNCHANGED <<dq, gateVars, workerVars>>

\* dq_push: batch i goes to worker i % p->n.
Push ==
  /\ mpc = "push" /\ pushed < n
  /\ dq' = [dq EXCEPT ![pushed % N] = Append(@, pushed)]
  /\ pushed' = pushed + 1
  /\ UNCHANGED <<gateVars, workerVars, mpc, n, finished>>

\* Mutant: only as many reports are awaited as there are jobs.
StartCountsJobs ==
  /\ mpc = "push" /\ pushed = n
  /\ n_active' = (IF n < N THEN n ELSE N) /\ generation' = generation + 1
  /\ Broadcast
  /\ mpc' = "asleep"
  /\ UNCHANGED <<dq, shutdown, mygen, k, idx, n, pushed, finished>>

\* The gate opens; the caller waits for done_cv without letting go of it.
Start ==
  /\ mpc = "push" /\ pushed = n
  /\ n_active' = N /\ generation' = generation + 1
  /\ Broadcast
  /\ mpc' = "asleep"
  /\ UNCHANGED <<dq, shutdown, mygen, k, idx, n, pushed, finished>>

\* Mutant: `if' for `while' around the wait for done_cv.
CheckOnce ==
  /\ mpc = "check" /\ mpc' = "idle"
  /\ UNCHANGED <<dq, gateVars, workerVars, n, pushed, finished>>

\* Awake again, the caller looks at n_active before it believes it.
Check ==
  /\ mpc = "check"
  /\ mpc' = IF n_active > 0 THEN "asleep" ELSE "idle"
  /\ UNCHANGED <<dq, gateVars, workerVars, n, pushed, finished>>

SpuriousCaller ==
  /\ mpc = "asleep" /\ mpc' = "check"
  /\ UNCHANGED <<dq, gateVars, workerVars, n, pushed, finished>>

\* bstm_pool_destroy; it joins every worker before it frees their state.
Destroy ==
  /\ mpc = "idle"
  /\ shutdown' = TRUE /\ Broadcast
  /\ mpc' = "join"
  /\ UNCHANGED <<dq, generation, n_active, mygen, k, idx, n, pushed, finished>>

Join ==
  /\ mpc = "join" /\ \A w \in Workers : wpc[w] = "exit"
  /\ mpc' = "gone"
  /\ UNCHANGED <<dq, gateVars, workerVars, n, pushed, finished>>

CallerStep == Push \/ Start \/ Check \/ Join

\* The pool is gone: nothing is left to happen.
Gone == mpc = "gone" /\ UNCHANGED vars

Next ==
  \/ \E w \in Workers : WorkerStep(w) \/ SpuriousWorker(w)
  \/ \E m \in Runs : Run(m)
  \/ CallerStep \/ SpuriousCaller \/ Destroy \/ Gone

Spec == Init /\ [][Next]_vars

\* The scheduler runs every thread again and again, and every job ends.
LiveSpec ==
  /\ Spec
  /\ \A w \in Workers : WF_vars(WorkerStep(w))
  /\ WF_vars(CallerStep)
----------------------------------------------------------------------------
Inside(w)  == wpc[w] \in {"pop", "steal", "work"}
Holding(w) == wpc[w] = "work"

\* Every variable holds a value of its kind, and no worker is ever more than
\* the current run behind.
TypeOK ==
  /\ dq \in [Workers -> Seq(0..n-1)]
  /\ generation \in 0..MaxRuns /\ n_active \in 0..N /\ shutdown \in BOOLEAN
  /\ wpc \in [Workers -> {"gate", "asleep", "pop", "steal", "work", "exit"}]
  /\ mygen \in [Workers -> Nat]
  /\ \A w \in Workers : generation - mygen[w] \in 0..1
  /\ k \in [Workers -> 0..N] /\ idx \in [Workers -> Nat]
  /\ mpc \in {"idle", "push", "asleep", "check", "join", "gone"}
  /\ n \in Nat /\ pushed \in 0..n
  /\ finished \subseteq 0..n-1

\* While owners pop, thieves steal and the caller still deals jobs out, no
\* job is in two places: not twice in the deques, not in two hands, and not
\* in a deque or a hand once it is done or taken.
NoJobTwice ==
  /\ \A w \in Workers : \A x, y \in 1..Len(dq[w]) : dq[w][x] = dq[w][y] => x = y
  /\ \A w, v \in Workers : w # v =>
       \A x \in 1..Len(dq[w]), y \in 1..Len(dq[v]) : dq[w][x] # dq[v][y]
  /\ \A w, v \in Workers : Holding(w) /\ Holding(v) /\ idx[w] = idx[v] => w = v
  /\ \A w \in Workers : \A x \in 1..Len(dq[w]) : dq[w][x] \notin finished
  /\ \A w \in Workers : Holding(w) => idx[w] \notin finished
  /\ \A w, v \in Workers : Holding(v) =>
       \A x \in 1..Len(dq[w]) : dq[w][x] # idx[v]

\* No dealt job is ever nowhere.
NoJobLost ==
  \A j \in 0..pushed-1 :
    \/ j \in finished
    \/ \E w \in Workers : Holding(w) /\ idx[w] = j
    \/ \E w \in Workers : \E x \in 1..Len(dq[w]) : dq[w][x] = j

\* Both.
EachJobOnce == NoJobTwice /\ NoJobLost

\* bstm_pool_run returns only when every batch of the run has been done.
ReturnsWhenDone == mpc \in {"idle", "join", "gone"} => finished = 0..n-1

\* The caller writes p->batches, p->fn and p->ctx without the gate: no worker
\* is between the gate and its report then, so none reads them meanwhile.
NobodyInside ==
  mpc \in {"idle", "push", "join", "gone"} => \A w \in Workers : ~Inside(w)

\* A run always returns, since no wakeup is lost, of the workers or of the
\* caller; and the destruction of the pool ends, with every worker out of its loop.
EveryCallReturns ==
  /\ mpc = "push" ~> mpc = "idle"
  /\ mpc = "join" ~> mpc = "gone"

----------------------------------------------------------------------------
\* The workers that have not yet reported the current run finished: those
\* that have still to notice it and those between the gate and the report.
InRun == mpc \in {"asleep", "check"}
Owing == {w \in Workers : Inside(w) \/ mygen[w] # generation}

\* n_active counts the workers that owe a report; outside a run nobody does.
ActiveExact ==
  /\ n_active = Cardinality(Owing)
  /\ ~InRun => Owing = {}

\* A worker reports only with its own deque empty, and nobody refills it: the
\* reports together say that every deque is empty.
EmptyBehind ==
  \A w \in Workers :
    (wpc[w] = "steal" \/ (mpc # "push" /\ w \notin Owing)) => dq[w] = <<>>

CallerKnows ==
  /\ mpc # "push" => pushed = n
  /\ mpc = "push" => finished = {} /\ generation < MaxRuns
  /\ shutdown <=> mpc \in {"join", "gone"}
  /\ \A w \in Workers : Inside(w) => mygen[w] = generation
  /\ \A w \in Workers : Holding(w) => idx[w] \in 0..pushed-1
  /\ \A w \in Workers : \A x \in 1..Len(dq[w]) : dq[w][x] \in 0..pushed-1

\* The inductive invariant.
IInv ==
  /\ TypeOK
  /\ NoJobTwice /\ NoJobLost
  /\ ActiveExact /\ EmptyBehind /\ CallerKnows
  /\ ReturnsWhenDone

----------------------------------------------------------------------------
Running == {idx[w] : w \in {v \in Workers : Holding(v)}}

Promise == INSTANCE JobPool WITH
  phase   <- CASE mpc = "idle" -> "idle"
               [] mpc \in {"push", "asleep", "check"} -> "busy"
               [] OTHER -> "closed",
  waiting <- (0..n-1) \ (finished \cup Running),
  running <- Running,
  done    <- finished

\* Deques, stealing and the gate together do each job of a run exactly once
\* and return after the last: the pool implements the abstract one.
KeepsPromise == Promise!Spec
=============================================================================
