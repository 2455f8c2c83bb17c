# Verification of BSTM's out-of-order model and its runtime

BSTM simulates an out-of-order processor 64 configurations at a time. A Verilog
timing model (`model/ooo`) is compiled to bit-sliced C (`tools/bstm-cc`); a C
runtime (`lib/runtime`) feeds it a trace that off-line tools (`preprocess`)
have prepared, with a fetch window per cycle and per lane, and reads counters
from it at the end. What the runs report is only worth something when the
pipeline loses, duplicates and reorders nothing: a fault does not crash, it
shows as a slightly wrong IPC. The tools before it are no different: a byte that
belongs to another block costs nothing but a wrong number. That is what this
project specifies and checks.

## Inventory

| component | state | operations | interacts with |
|---|---|---|---|
| `model/ooo/rename/rn_rename.v` | speculative and committed RAT and free list | rename a bundle (partial accept), retire, flush | takes uops from the decode queue, offers them to dispatch, hears retirements from the reorder buffer |
| `model/ooo/backend/be_dispatch.v` | tail of the reorder-buffer ring, stall counters | accept a prefix of the bundle, number its entries | minimum of the room of ROB, IQ, load/store queues; flush |
| `model/ooo/backend/be_rob.v` | ring of entries, head, count, counters | allocate, mark written back, retire up to the commit width, flush at the first finished wrong-path uop | everything: its flush empties the pipeline in the same cycle |
| `model/ooo/frontend/fe_front.v` | decode queue, bubbles, wrong-path flag, counters | take a prefix of the fetch window, ask for a redirect | the runtime's refill; rename |
| `model/ooo/backend/be_iq.v` | issue queue with age numbers, wakeup masks | dispatch, wakeup, oldest-first issue, flush | the scoreboard of `be_eu` |
| `model/ooo/backend/be_eu.v` | execution pool by ROB index, register scoreboard, registered requests and writebacks | issue, count down, request memory, write back up to W per cycle with a rotating priority | issue queue, LSU, reorder buffer |
| `model/ooo/lsu/lsu_q.v` | load and store queues, request queue, MSHRs, delay line, memory-event queue | allocate, request, arbitrate, miss, retry, report, flush | dispatch, `be_eu`, the fetch window |
| `lib/runtime/bstf_reader.c` | cursor into a trace, wrong-path excursion | advance, enter and leave the shadow area | refill |
| `lib/runtime/refill.c` | per lane: staging area, fetch state, branch bookkeeping | gather, window, consume, enter and leave the wrong path, done mask | reader, the model's redirects |
| `lib/runtime/pool.c` | worker threads, per-worker deques, generation gate | run a set of batches, steal, destroy; the main loop of a batch | batches |
| `lib/runtime/batch.c` | list of batches | sort and pack instances | pool |
| `lib/runtime/transpose.c`, `stats.c` | none | bit transposition, tables | refill, the command line |
| `preprocess/frontend` | uBTB, BTB, TAGE, return stack, learned instruction lengths, blocks met so far | per fetch block: predict in three stages, walk the wrong path and come back, train | reads the generator's rows, writes one byte per block |
| `preprocess/cachesim` | TLBs, L1I, L1D, L2, L3, stride table, stack-distance lists | one access through all of them, prefetches, the sweep over geometries | reads the generator's access stream, writes `.mem` |
| `preprocess/spike` | cursor into a log, open block, shadows; the checker's sums | emit a record, close a block, make a shadow, patch references; check | Spike's log, the front end's bytes of the first run |
| `tools/bstm-cc` | netlist, expression graph | compile to C | files only |
| `prototype`, `test`, `ci` | | measurements, generated code, tests | |

### What is hard here

* **Cycles, not calls.** Every stage computes its next state from the same
  registers at the same clock edge. How many uops move is computed several
  times, from different sides, and nothing compares the results.
* **Flush.** One finished wrong-path uop at the head of the reorder buffer
  empties every stage in the cycle in which older uops still retire, misses are
  under way and the runtime is told to turn back. Whatever survives a flush by
  mistake (a mask, a request, an event, an index) corrupts a later uop.
* **Two keepers of one fact.** The tail of the ring is in `be_dispatch`, head
  and count in `be_rob`; the path is `shadow_q` in the model and `fstate` in the
  runtime; memory events and their uops travel in different queues.
* **Sizes at run time.** Rings and queues wrap at a configured size between 1
  and what is built.
* **A file read twice.** The generator runs twice over one log, with the front
  end between the runs; blocks, bytes, accesses and shadows are matched by
  nothing but their position.
* **State that must come back.** The front-end simulator goes down the wrong path
  with the predictors it will need afterwards; the cache simulator gives up lines
  in one level because another one moved.
* **Threads.** Deques with thieves, a generation gate and writes that are safe
  only because nobody is inside.

What would make each component correct is in `PROJECT.json` under `hazards`,
each at its line, with the properties below.

## Modules

One step of a hardware module is one clock edge; each module keeps the code's
names for registers and wires. What a module hears from the stages that it is
not composed with is an input of the step, chosen freely from what those stages
can send.

| modules | code | state and actions |
|---|---|---|
| `Ifc` | `ifc.vh` | records of decoded and renamed uops and of retirements |
| `Rename` | `rn_rename.v` | `rat`, `crat`, `fl`, `cfl`; `RenameCycle` maps the accepted prefix and applies the retirements, `RenameFlush` restores the committed tables with this cycle's retirements in them |
| `Rob` | `be_rob.v`, `be_dispatch.v` | the ring; allocation, writeback, commit scan, flush |
| `CommitPath` | `top.v` wiring of the three and the decode queue | `Advance` (any room in dispatch, any writebacks, any fetched uops) and `Flush` |
| `InOrderWindow` | what the pair promises: a window of uops, retired in order from the old end, of which a flush discards wrong-path ones only | |
| `ExecIfc`, `Iq`, `Eu` | `be_iq.v`, `be_eu.v` | slots, wakeup mask and age counter; execution pool, scoreboard, registered requests and writebacks |
| `Scheduler` | their wiring, with a load/store unit that answers in any order | `Cycle`, `Flush` |
| `DataflowOrder` | what they promise: each uop starts after what it depends on | |
| `Lsu` | `lsu_q.v` | the twelve steps of its cycle, in their order, as operators; `LsuCycle`, `LsuFlush` |
| `MemPath` | its wiring to fetch, dispatch and `be_eu` | `Clock`, `Flush` |
| `MemoryPort` | what it promises: each request answered once, none after a flush | |
| `Trace` | `bstf_reader.[ch]` | a program as records with block ends and shadows; cursor, advance, enter and leave |
| `Refill` | `refill.c` | one lane: gather, window, consume, redirect, done |
| `FeFront` | `fe_front.v` | decode queue, bubbles, path flag |
| `ShadowFetch` | a turn of the loop of `bstm_run_batch` for one lane | `done`, `left`; `Cycle`, `Flush`, each with the mask `done` and the check that may raise it and leave the loop; the back end is an `InOrderWindow` |
| `JobPool` | what `bstm_pool_run` promises: each job once, return after the last | |
| `Pool` | `pool.c` | one action per critical section of the caller and of a worker |
| `Lru`, `StackSim` | the caches and the sweep of `cachesim.cpp` | sets as sequences, last used first; one access, fill, eviction; the recency list and its groups |
| `CacheSim` | `cachesim.cpp` | `Access`: one access of a stream through the whole hierarchy, beside one simulator of its own for each variant of the sweep |
| `Tage`, `Predictors` | `predictors.hpp` | direction prediction with folded histories; entries, the two buffers, the return stack |
| `FrontEnd` | `frontend_sim.cpp` | reading rows into blocks, prediction, wrong path, update, as operators on a simulator |
| `TraceGen` | `bstf_gen.cc`, `bstf_check.cc` | the generator's records, blocks, rows and shadows, and what the checker accepts |
| `Preprocess` | the way of a trace through the three | `Retire` and `LogEnds` (first run, fed by any execution of a program), `Block` and `FrontEnds` (the simulator), `Again` and `AgainEnds` (second run) |
| `MC*` | the instances that are checked | |
| `CommitPathProofs`, `PoolProofs`, `SchedulerProofs`, `MemPathProofs`, `ShadowFetchProofs`, `CacheSimProofs`, `PreprocessProofs` | the theorems | |
| `OrderLemmas` | the lemmas about numbers, sets and sequences that several of them need | |

Each component is abstracted where another one stands for it, and each such
promise is what a run or a theorem shows of that other one: the back end of
`ShadowFetch` is `InOrderWindow`, which `CommitPath` implements; `Scheduler`
takes from rename only that a destination is a register that no live uop names
(`FreeListExact` and `SourcesPrecise`) and from the load/store unit only what
`MemoryPort` says; `MemPath` takes from `be_eu` one request per memory uop (a
conjunct of `InOnePlace`). `Preprocess` is a composition as it is: the
generator's rows are the front end's input and its bytes come back to the
generator.

### Abstractions

* A uop is what its stage looks at: registers, path, class, latency. Values
  never occur in this timing model, so none are modelled.
* A bit vector with valid bits is a function from the entries in use.
* `be_eu`'s rotating priority is modelled as it is; starvation does not need
  it, because the window is finite.
* The pseudo-random guess of `lsu_q` that a load conflicts with an older store
  is an input, so every sequence of guesses is covered.
* A latency class is its latency; only the order of latencies, and whether
  one exceeds the delay line, matter to the queues.
* The index into `.mem` and the layout of `.fe.wp` are left out of `Trace`;
  the index into `.fe` is in it, since every property of blocks depends on it.
* `refill.c` is modelled for one lane. Lanes share nothing but counters and the
  end of the loop: it is left when all of a batch are done (`pool.c:207`), and
  what the others have come to at a check is an input (`others_done`).
* A model may declare a lane done by itself (`done_mask`, `pool.c:205`). The only
  one in the repository, the mock model, returns 0, and so does `m_done`.
* In the composition one of refill's branches cannot be reached: the redirect of
  a branch already resolved. `NeverTurnsBack` says so.
* In the caches a line owed to memory (`owed`) is one stored to through an L1D. Where
  there is none, a store reaches the other levels as a read (`cachesim.cpp:672`)
  and makes nothing dirty. A dirty copy is a dirty copy: the caches hold no
  data, so an older one is not told from the newest.
* In `Pool` a deque does not wrap or grow: it is a sequence, which is what
  its mutex-protected operations make of the array.
* When the count of cycles meets the check mask of `bstm_run_batch` is arbitrary
  in `ShadowFetch`: every check interval is covered, irregular ones too.
* In the caches and buffers time stamps are only compared, so a set is the
  sequence of its lines in the order of use. The hash of the uBTB may map two
  addresses to one tag, which a small range of tags does as well.
* Numbers that a hash or a random generator would give are chosen with the
  case: `lucky` are the branches at which allocation in TAGE is granted.
* What an instruction computes is not modelled; where the wrong path goes at a
  branch or a jump, and whether a load faults, is the case's `w`. On the right
  path every execution of the program that fits into `LogMax` is explored.
* A program is a function from addresses to length, kind and targets; lines are
  eight bytes, so that blocks split inside the programs.

### Mutants

An operator whose comment begins with "Mutant" stands before the definition it
distorts and is used nowhere. It is a plausible mistake in that code; with it
in place the property that `PROJECT.json` names is violated.

## Runs

| run | instance | what it shows |
|---|---|---|
| `commit_path` | 2 lanes, 3 of 4 ring entries in use, 5 physical and 3 architectural registers, 2 decode-queue entries | `FreeListExact`, `RatPrecise`, `SourcesPrecise`, and that the path implements `InOrderWindow` (`KeepsProgramOrder`) |
| `commit_path_live` | a ring of one entry under a commit width of two, one spare register, fair | `RingExact`, `NeverStuck` |
| `pool` | 3 workers, 2 runs of 1, 2 or 4 jobs, fair | `EachJobOnce`, `NobodyInside`; implements `JobPool` (`KeepsPromise`); `EveryCallReturns` |
| `shadow_fetch` | all 1000 programs of three blocks of one or two records, five kinds of block (mispredicted or not, with a short, a long or an empty shadow), fair | `TraceContiguous`, `BlockExact`, `PathsAgree`, `LedgerBalanced`, `NeverTurnsBack`, `KeepsProgramOrder`, `Finishes` |
| `scheduler` | 163 streams of four uops, 2 lanes, issue width 1, 2 of 3 slots | `InOnePlace`, `WakeupExact`, `LatencyKept`; implements `DataflowOrder` (`KeepsDataflow`) |
| `scheduler_live` | two streams, 3 lanes, issue width 3, fair | `OldestFirst` against the limits of the units; `AllFinish` |
| `mem_path` | 24 streams, 2 lanes, queues of 2, one miss register, delay line of 2 | `QueuesExact`, `EventsAligned`, `OneAccess`, `BlockedByOlder`; implements `MemoryPort` (`ServesRequests`) |
| `mem_path_burst` | 3 lanes, a request buffer of 4, six loads | `RequestsKept` |
| `mem_path_live` | 1 lane, two streams, fair | `AnswersInTheEnd` |
| `cache_sim` | seven configurations of one or two sets and ways, eight addresses | `Inclusive`, `DirtyKept`, `PrefetchBalance`, `SweepExact` |
| `preprocess` | twelve cases over seven programs, logs of at most 18 instructions | `NothingLeftBehind`, `FoldsExact`, `BtbTruthful`, `CallsAndLengths`, `Aligned`, `CheckerAccepts` |
| `shadow_fetch_doc` | one program of two mispredicted branches | violated on purpose: what the comment on the search for a branch says of the one it finds (`EntersItsShadow`) |

A type invariant `TypeOK` is a conjunct of `LedgerBalanced`, `InOnePlace`,
`QueuesExact`, `Inclusive` and `FoldsExact`; for `CommitPath` and `Pool` it is a
part of the inductive invariants, which are proved.

### Why the bounds are enough

* Two lanes are the least at which a bundle is accepted in part, has a bypass
  inside it and retires two writers of one register together. A ring of three
  in four makes the configured and the built size differ, and wraps.
* Two spare registers let two uops be in flight and a third wait for one; one
  spare register is the tightest configuration that can move at all.
* Three workers allow two thieves of one victim, four jobs on three deques make
  one of them hold two, and one job makes two workers leave at once. Two runs
  are what the gate and a late worker need.
* Three blocks are a branch, a second one staged when the first is entered, and
  something behind both. A staging area of four holds two windows.
* Four uops are a diamond of dependences, or three that finish together, one
  more than there are writeback ports; ages have twice as many values as the
  ring has entries, as in the code, and wrap many times over in the endless
  streams.
* Queues of two with drains of two per cycle empty and fill in one step; one
  miss register makes any second miss wait. `lsu_ready` matters only if a
  bundle is wider than what the buffer passes on per cycle, hence three lanes
  and, for one burst in the buffer and one on its way, six loads in `mem_path_burst`.
* Lines of two bytes, pages of four and eight addresses are four lines on two
  pages: more lines than a cache of two holds, an access across a line, and one
  across a page. The configurations are the least in which an L1 victim pushes
  out another line (one way), an L2 victim is in both L1s (inclusive), a
  prefetch hits or is thrown out, and the sweep's groups have one and two sets.
  The state is closed: streams of any length are covered.
* A fetch width of three with as many slots to a block, two to a BTB entry and
  one to a uBTB entry makes a block have more branches than an entry. Two sets
  and ways evict; a return stack of two overflows in `Deep`; a history of
  four bits drops its oldest, and folds of one and two bits wrap. Two shadow
  blocks and four records let a shadow end by either. Eighteen instructions are
  several rounds of each loop, so that what was learned is used and replaced.

### Fairness

* `CommitPath`: the clock ticks, dispatch has room again and again, the oldest
  uop is written back in the end. That is what `AllFinish` and
  `AnswersInTheEnd` show of the stages behind. A flush, once due, happens: it
  is the same clock.
* `Scheduler`: the clock ticks with `lsu_ready` again and again, and each
  request is answered in the end (`AnswersInTheEnd`; the buffer empties by two
  per cycle, so `lsu_ready` comes back).
* `MemPath`: the clock ticks, and `be_eu` does not withhold for ever a request
  that it could send: it sends in every cycle in which `lsu_ready` is up.
  A flush is never assumed to come.
* `ShadowFetch`: the back end retires or flushes and accepts again and again
  (`NeverStuck`), and the check of finished lanes comes round again and again:
  it does every `done_check_mask + 1` cycles. All of it holds while the loop goes
  on; it ends when it is left, which is why this run does not look for deadlocks.
* `Pool`: every thread is scheduled, every job ends, and a wait returns after a
  signal; spurious wakeups happen but are not owed.

The off-line tools are sequential and end with their input; nothing about them
needs fairness.

### Disagreements found

* `refill.c:148` and `lib/runtime/README.md:136` take it that a redirect enters
  the shadow of the branch whose event asked for it, staged or taken in the same
  cycle; `refill.h:123` says the same of the last consumed one. `refill.c:231`
  looks in the staging area first, as `CONTRACT.md:132` asks: when that branch
  has just been taken and a later one with a shadow is staged, it is the later
  one's that is entered. The wrong path of the first is never fetched, and the
  second, which the model takes while it believes itself on the wrong path,
  asks for nothing. `shadow_fetch_doc` shows it in two steps;
  `NeverTurnsBack` says what is true: never an older branch.
* `refill.c:222` says that the redirect of a branch already resolved is certain
  to come, and `lib/runtime/README.md:142` that check (0), which ignores it, is
  necessary. It never comes (`NeverTurnsBack`, `ShadowNeverTurnsBack`): the
  branch is delivered before its shadow, and it is a uop of the shadow that
  resolves it. `doc/HANDOFF.md:147` measured none.
* `t_shadow.c:147` asserts that each redirect finds a branch, and
  `lib/runtime/README.md:128` relies on it. The generator writes an empty shadow
  where the wrong path cannot be read or executed from its first instruction on
  (`bstf_gen.cc:506`, `:512`, `:589`), and `refill.c:24` takes that for no shadow:
  the redirect is dropped. The model does not hear of it and waits for a flush
  that never comes, so that no later misprediction of the program has a wrong
  path (`PathsAgree`). Nothing of the correct path is lost.

Met while modelling, and followed as the code has it:

* `btb_dir_hint` is read from the configuration and used nowhere:
  `frontend_sim.cpp:612` evaluates the second stage with the entry's own hint
  in any case, while `frontend_sim.cpp:57` and `frontend/README.md:101` promise
  one bubble at most when it is off. One of the cases of `preprocess` has it off.
* `lsu_q.v:655` says that the store a load waits for is older than the load.
  A read-modify-write is given its store entry first and may wait for that very
  entry. It is harmless, since that entry is born done and leaves as soon as it
  is the oldest (`AnswersInTheEnd`).
* `frontend/README.md:119` pushes the predicted direction of a mispredicted block
  into the history; `frontend_sim.cpp:468` and `:748` push only a prediction
  of taken.
* `bstf_gen.cc:426` says that a shadow starts from the state just behind its
  block. The last block is closed by the drain, when the state is one
  instruction older; `Aligned` therefore asks it of all blocks but that one.
* `cachesim/README.md:172` calls a sweep of an L1 exact by nature. With an
  inclusive L2 its back-invalidations depend on the geometry that the sweep
  varies; `SweepExact` excludes that case. A sweep of the L2 in a
  configuration without an L2 is fed nothing (`cachesim.cpp:670`, `:633`) and
  reports no accesses, where a run of its own would have some; `SweepExact`
  excludes it too.
* With wrong-path bytes written inline into the correct path's file, as
  `frontend_sim.cpp:48` itself warns, the generator takes the wrong byte for a
  block; `Aligned` excludes that mode.
* A fetch width beyond `FE_MAX_SLOTS` drops the branches behind it from a block,
  and `shadow_k` beyond `shadow_blocks * fetch_width` lets a shadow of filler
  records have more blocks than wrong-path bytes; `PreprocessAssumption` and
  `Aligned` name both limits. `shadow_len` has 16 bits (`bstf_gen.cc:952`)
  and is not checked, unlike `shadow_off` (`:937`).
* A lane is recognised as done by what refill has handed out. With `set_enable`
  its counters stop at that cycle, and the uops that are still in the decode
  queue and the back end are never counted: `LedgerBalanced` says that they are
  exactly the difference, at most as many as the two can hold, none of the wrong
  path. Without `set_enable` they retire while other lanes of the batch keep the
  loop running; with the last lane the loop is left in that very cycle
  (`pool.c:207`), and what is still under way never retires. `Finishes` therefore
  claims `retired = n_records` only of a loop that has not been left.

## Proofs

`TLC` decides the small instances above; the theorems hold for every number of
lanes and entries, every configured size and every stream of uops, under the
named assumptions of the modules (`IfcAssumption`, `UopsAssumption`,
`PoolAssumption`, `ExecIfcAssumption`, `StreamsAssumption`, `LsuAssumption`,
`MemPathAssumption`, `TraceAssumption`, `RefillAssumption`, `FrontAssumption`,
`BackAssumption`, `CacheAssumption`, `TageAssumption`, `PredictorsAssumption`,
`FrontEndAssumption`, `PreprocessAssumption`), which TLC evaluates in the runs
of those modules. Each invariant was checked by TLC as an invariant of a run before it
was proved. Properties are stated by the theorems as the runs check them.

| module | inductive invariant | theorems about properties of the runs |
|---|---|---|
| `CommitPathProofs` | `IInv`, `PInv`, `OInv` | `RingStaysExact`, `FreeListStaysExact`, `RatStaysPrecise`, `SourcesStayPrecise`, `PathKeepsProgramOrder` (the refinement of `InOrderWindow`); besides `CommittedFreeListStaysExact`, `NeverAliases` |
| `PoolProofs` | `IInv` | `JobsOnce`, `ReturnsAfterLast`, `CallerWritesAlone`, `PoolImplements` (of `JobPool`) |
| `SchedulerProofs` | `IInv`, `OInv` | `OnePlaceEach`, `WakesExactly`, `LatencyIsKept`, `OldestGoFirst`, `SchedulerKeepsDataflow` (of `DataflowOrder`) |
| `MemPathProofs` | `IInv` | `QueuesStayExact`, `LoadsHaveTheirEvents`, `AccessesInOnePlace`, `NoRequestIsLost`, `WaitsForOlder`, `UnitServesRequests` (of `MemoryPort`) |
| `ShadowFetchProofs` | `IInv` | `ShadowContiguous`, `ShadowBlockExact`, `ShadowPathsAgree`, `ShadowLedgerBalanced`, `ShadowNeverTurnsBack`, `ShadowKeepsProgramOrder` (of `InOrderWindow`) |
| `CacheSimProofs` | `CachesInv`, `SweepInv` | `NothingOutside`, `NewDataKept`, `PrefetchesAccounted`, `SweepStaysExact` |
| `PreprocessProofs` | `WInv`, `HInv`, `CInv` | `WrongPathLeavesNothing`, `FoldsStayExact`, `CallsStayOpen` |
| `OrderLemmas` | | least and greatest members, the k-th lowest member of a set, numbers that go round, sequences joined and parted |

Every proof has the same outline: the initial state, one lemma per action and
conjunct of the invariant, a theorem `Spec => []IInv`, and from it the
properties; a refinement is proved by mapping the initial state and each action.
What follows is why the invariants are as they are.

**Commit path.** The invariant needs all its parts at once. That the free list
is exact after a retirement needs that what is freed was in use and by nobody
else (`NoAliasing`), which needs that the registers given to a bundle were free
and different (`FreeListExact`); which uops hold registers is only known if the
ring is exact; and since retirement frees by architectural number, no uop may
hold a register for x0 (`HoldersWrite`). The proof follows the code: lemmas
about the choice of free registers and about the retirements of one cycle
(`CommitMoves`: a cycle's retirements neither lose nor share a register), about
the ring (`CommitScan`, `WindowMoves`, `EntriesMove`), about the three-way
agreement on how many uops move (`StagesAgree`).

Order adds what a register means. A window of uops and a table give each
register a mapping (`Mapping`: the youngest writer below a place, else the
table). The speculative table is the mapping of the whole window over the
committed one; a cycle is an extension of the window by the renamed bundle and
a shift by what retires, and a shift changes no mapping because the retired
uops have been applied to the table. The bypass inside a bundle is the same
operator again, of the bundle over the speculative table. For the refinement,
what a flush discards must be of the wrong path only, hence the invariant that
the wrong path, once it begins in the window, lasts to the end of the decode
queue.

**Pool.** The invariant's centre is `ActiveExact` (`n_active` counts the workers
that still owe a report of this generation) with `EmptyBehind` (a worker owes
nothing only if its deque is empty and stays so): together they make the
caller's belief in `n_active = 0` sound.

**Scheduler.** The places of a uop are disjoint sets of reorder-buffer numbers
(queue, pool, registered request, writeback, done), and since live uops have
different numbers modulo the ring, each place's part in a cycle moves exactly
the numbers it should. `Selected` is a recursive function; that it exists and
what its rounds pick is shown for the least number of rounds that would
contradict. The scoreboard is exactly the destinations of the queued uops and of
those of the pool with cycles to go, pending bits are exactly the sources in it,
and the countdown of a pool entry and the time since its uop started make up at
least its latency.
Age numbers wrap at twice the ring: `Ages` says that a slot's number is its uop's
place in the window, counted from the age counter, modulo twice the ring; places differ by less than
the ring, and for such numbers the comparison in `be_iq.v` is the order. `OldestFirst` then goes
round by round: what has been picked is the oldest of what was eligible, and a
uop that is passed over has its unit or the width full of older ones.

**Memory path.** Both queues are rings of which the model keeps heads, tails,
counts and entries apart; dispatch, drain and retirement each move one of them
and the invariant counts what the three agree on. The memory events wait in a
queue of their own: they are exactly the events of the memory uops in the decode
queue, in order (`EventsFollow`), so that an entry gets its own. Open queue
entries match the window's unanswered uops one to one; a request that has been
made and not answered is in exactly one of the request register, the buffer and
the entries; the buffer holds two bursts because `lsu_ready` is seen one cycle
late. Accesses that start in a cycle have a port and a rank, which make the
slots of the delay line and the miss registers that they take different ones; a
running entry then has its access in one place, and there is nothing else but
what a flush has left dead. Store numbers are compared from the head of the
queue, so that a drain, which moves the head, keeps who is older than whom.

The proof of `BlockedByOlder` corrected the property: in its first form it said
that every store between the head and the one waited for is older than the
load, which a store of the same bundle refutes in configurations wider than the
ones checked. What makes waiting safe, and is stated now, is that all that must be done
before the blocking store can leave is older.

**Fetch and refill.** Every uop between the trace and retirement has a number, by
its place behind the record retired last, and one rule says what it must be
(`Numbered`): up to the resume point the record of that number with its own
block's event, from there on the next record of the shadow of the branch entered
last. The lane keeps that rule for what is staged (`LaneInv`), the model for what
is in flight; everything else is about what moves the resume point. Gathering on
the correct path moves it on with what is staged, so no number changes sides;
entering a shadow sets it right behind the branch, which is allowed because
nothing delivered is younger than the branch, and that is why the branch must
be the last record of what the front end took or be staged behind it (`EndTaken`,
`TakesBranch`: a redirect is asked for at the end of a block, whose last record
is the only one that can have a shadow); at a flush all before the resume point has retired, so that the
branch is the record retired last and the saved cursor continues its numbering.
The number of the block in the cursor is the count of block starts it has
passed, carried over deltas, saves and restores (`Passed`, `PassedIsBlock`).

`TraceAssumption` is what the generator writes: only a block's last record can have a
shadow (`bstf_gen.cc:806` makes it where the block is closed, `:589` refers to it
from the record written last). A mispredicted one need not: its shadow may be
empty. Its redirect is then dropped, the model's flag stays set behind it, and
the invariant has a second regime (`NoTwice`): once a redirect has been dropped
the lane is on the correct path with nothing of the wrong one in flight, and
since the front end asks for no redirect while its flag is set, that is how it
stays.

**Caches.** A set is a sequence of different lines, and the proof speaks of what
a cache holds: the addresses in it, those of dirty lines, those of flagged
ones. `AccessIs` and `InvalidateIs` say what one access or invalidation does to
these three sets and to what it gives up, once and for all geometries; each
operation of the hierarchy then has one lemma in the same terms, from `L3Is`
to `SimAccessIs`. In the middle of an access the invariant does not hold: a
line that the L1 has just taken is not yet in the L2, a line that the L2 has
given up is still in the L1s, a victim's dirt is in no cache, a prefetch that
was issued is flagged nowhere. `Tracks(c, m, A, k)` is the invariant with those
debts, the lines A that an L1 may hold outside the L2 and the k prefetches not
yet flagged, and each lemma says which debts it makes and pays; that a stored
line is in memory or dirty somewhere is carried beside it, with the victim as
the exception. The order in which the code works matters here: an eviction looks at the L1D's
copy before it drops it (`NewestDirty`), and the L1's victim goes down last, when
the line that replaced it is in the L2, so that the back-invalidation of what the victim
pushes out cannot leave the new line behind in the L1 alone. An access of several lines or pages and the prefetches it starts are
rounds of recursive functions; `LoopExists` shows that these exist and `RoundByRound`
that what each round keeps holds at the end.

`SweepInv` puts the simulator with the sweep beside that of each variant
(`InStep`): a set of the variant's own cache is, line by line, a list of those
lines of the recency list that fall into it and have fewer newer lines of
that set than the variant has ways (`Shortlist`). Three things make it
inductive. Cutting a list to the largest associativity loses nothing: among
the lines that share the oldest's set in the finest variant it has as many
newer ones as any variant has ways, and in a coarser variant it has no fewer
(`TouchMoves`); this is where the numbers of sets have to divide each other,
as powers of two do. One access changes the count of a line by one at most, and
the line whose count reaches the ways is the last of the variant's set, the one it
gives up (`LastGoes`, `OneMore`). And what feeds the list is the same in both
simulators: for an L1 every access, whatever lies behind it (`Aside`); for
the L2 the misses and dirty victims of the same L1s (`LineFitsL2`), which is why the L2
must not be inclusive and must not be prefetched into.

`CacheAssumption` bounds the ways of a set by 255, which the code does not check:
it counts a set's lines in a byte (`cachesim.cpp:191`), and with more ways a
full set would count from zero again (`:247`).

**Front end.** `WInv` relates the simulator to its twin that never leaves the
right path: they are `Alike`, that is, they agree in the history, its folds, the
return stack, the lengths and, unless wrong paths train it, in all of the
direction predictor; the buffers may differ. Two facts carry it. A wrong path,
whatever block it meets in whatever buffers, only strays: behind its last block
everything but history, folds, stack and trained counters is as it was
(`Strayed`), and the restore puts back the saved history, folds and stack
(`WrongPathIsUndone`). And the update of alike simulators with the same block
gives alike ones (`ResolveAlike`), because it never reads the buffers: a
direction is learned against a prediction that is made again at the update and
not against the one that was acted on.

`HInv` says of the simulator alone that it is `Sound`, and what it remembers of
the rows. The folds are a parity: a
bit of the fold is set when an odd number of the history's bits that are mapped
to its place are, and one push moves each bit by one place around the fold,
brings in the newest and takes out the one that leaves the table's part of the
history (`PushParity`, `UpdatedBit`, `FoldFollows`). That this bit is still in
the register when it is needed is why a table's history must be shorter than the
register (`TageAssumption`; `frontend_sim.cpp:171` cuts it to 500 of 512 bits). A restore brings back history and
folds together.

That the history is that of the rows read so far (`Recalls`) is carried from row
to row of a block: of the branches that the block's observation lists, the ones
up to the taken one are those of its rows, in order (`BlockRead`,
`BranchesCount`), and the update pushes the outcome of each of them and of
nothing else (`ResolveRemembers`). It rests on what the generator promises of
its rows (`RowsOK`): nothing but the last row of a block is a taken branch, and
a block is at most `fetch_width` rows, so that it ends before the simulator's
own limit. A block that went on behind a taken branch would lose the later ones.

`CInv` says what the rows are of: the log, instruction by instruction, each with
its kind and with where the program went on (`Drafts`), and the log is a path of
the program on which a return goes behind the call that is open (`LogOf`). The
generator is two instructions behind its log (`Wrote`, `HeaderWrites`,
`DrainWrites`). The stack is the calls open after the rows read so far
(`Tracks`): entry by entry from the top, since the ring forgets at the bottom,
together with the times when it was too deep (`Deep`), which are the only
excuse for an entry that is missing. A row moves the stack as its instruction
moves the open calls (`RowMoves`, `MoveTracks`), and lengths are learned in two
places: a block without a taken branch teaches that of its last instruction
(`EndTeaches`), a return that of the call that it was popped with
(`ReturnLens`), which is the right one because the stack is.

The proof corrected `CallsAndLengths`, which in its first form held of the
checked programs only. The row behind the last return of a trace is made up
(`bstf_gen.cc:908` takes the address behind it), and when the call is near it
teaches a wrong length for that call: the lengths are therefore asked for
while rows are left, which is as long as anybody reads them. And a
trap to a handler that is at most 8 bytes ahead teaches that distance
(`frontend_sim.cpp:652` asks only how far the next block is). The program
`Exit` of the run does both.

**Only model-checked.** Liveness (`NeverStuck`, `EveryCallReturns`, `AllFinish`,
`AnswersInTheEnd`, `Finishes`), which the prover cannot do. Of `Preprocess`:
`BtbTruthful`, `Aligned` and `CheckerAccepts`. Each relates the rows the generator
wrote to the blocks of the program they came from; a proof needs an invariant
that cuts the rows into those blocks, which is not written yet. For `BtbTruthful`
it also needs an assumption on the programs (no trap to the address right behind
the instruction that traps) that the run's programs meet and that the code does
not check.

## Not modelled

* The stages' counters, which observe the pipeline and are read by nobody in it.
* Of `bstm_run_batch` several lanes at a time (what they share is the check and
  the end of the loop, where the others are an input) and `max_cycles`; of `pool.c` a failing `pthread_create`, whose result is not
  looked at, and the statistics. `batch.c` packs instances by sorting;
  `transpose.c` is a bit-matrix identity that its unit test decides better;
  `stats.c` prints.
* Opening, checking and parsing of files and configurations, JSON, command lines.
* Of the front-end simulator traces of six columns (no direction or type, guessed
  from addresses) and the counters of its report; of the cache simulator the
  latency classes of the overlay byte and its statistics; of the generator the
  decoder, the execution engine behind the walk (`rv64_exec.h`), and the parsing
  and auditing of the log. The last three are tables of instructions, whose
  reference is the ISA and not this repository.
* `tools/bstm-cc`: a compiler, whose correctness is about an expression language
  and not about states. `prototype`: generated C and measurements, which make up
  two thirds of the repository's lines of C and hold no logic of their own.

## Plan

1. Model: `batch.c` as an algorithm against a reference definition; the stage
   counters and the claim of `be_dispatch.v` that its losses add up; the
   retirement side of `Scheduler` and `MemPath` in one composition, so that
   fairness is no longer assumed of one for the other.
2. Prove: of `Preprocess`, `BtbTruthful` first, the one of the three that is an
   invariant of the simulator's own steps.
