----------------------------- MODULE ShadowFetch -----------------------------
(***************************************************************************)
(* A lane and its model, cycle by cycle, as bstm_run_batch drives them: the *)
(* runtime shows a window, the model evaluates a cycle, the runtime obeys   *)
(* what it took and asked for.  The back end is the window it promises to   *)
(* be (InOrderWindow, which the commit path implements): it accepts as many *)
(* uops as it likes, retires correct-path uops in order, and flushes when   *)
(* it meets a wrong-path one.                                               *)
(***************************************************************************)
EXTENDS FeFront

CONSTANT BE_N   \* bound: uops in the back end

ASSUME BackAssumption == BE_N \in Nat

VARIABLES
  be,       \* uops accepted and not retired, oldest first
  retired,  \* the record retired last
  done,     \* the lane's bit of done
  left      \* the loop has been left

backVars == <<be, retired>>
loopVars == <<done, left>>
vars == <<trace, lane, frontVars, backVars, loopVars>>

Init ==
  /\ trace \in Traces
  /\ RefillInit
  /\ FrontInit
  /\ be = <<>> /\ retired = 0 /\ done = FALSE /\ left = FALSE

\* m->done_mask: a model may declare a lane done by itself, but the one that
\* the repository has never does.
m_done == FALSE

\* Every so many cycles the loop looks which lanes are done, and it ends there
\* and then when all of the batch are.  The number of cycles is an option, so
\* this may be any cycle; what the other lanes have come to may be anything.
Checked ==
  \/ UNCHANGED loopVars
  \/ \E others_done \in BOOLEAN :
       /\ done' = (done \/ LaneDone(lane') \/ m_done)
       /\ left' = (done' /\ others_done)

\* The oldest k uops retire.
Retirable(k) == \A i \in 1..k : ~OnWrongPath(be[i])
Retire(k)    == retired' = IF k = 0 THEN retired ELSE be[k].rec

\* A cycle in which the back end has room for some of the uops presented.
Cycle(room, k) ==
  /\ ~left /\ room <= BE_N - Len(be) /\ Retirable(k) /\ Retire(k)
  /\ be' = SubSeq(be, k + 1, Len(be)) \o SubSeq(dq, 1, n_out(room))
  /\ \E l \in {Window(lane)} : \E win \in {Shown(l)} :
       /\ FrontCycle(win, room)
       /\ \E t \in {Taken(l, IF done THEN 0 ELSE n_in(win, room))} :
            lane' = IF mis_now(win, room) /\ ~done THEN Redirected(t, TRUE) ELSE t
  /\ Checked
  /\ UNCHANGED trace

\* A cycle in which the commit scan gets to a wrong-path uop.
Flush(k) ==
  /\ ~left /\ k < Len(be) /\ Retirable(k) /\ OnWrongPath(be[k+1]) /\ Retire(k)
  /\ be' = <<>>
  /\ FrontFlush
  /\ \E t \in {Taken(Window(lane), 0)} : lane' = IF done THEN t ELSE Redirected(t, FALSE)
  /\ Checked
  /\ UNCHANGED trace

Next == \E k \in 0..Len(be) : Flush(k) \/ \E room \in 0..W : Cycle(room, k)

Spec == Init /\ [][Next]_vars

\* What the back end owes the front while the loop goes on: as long as it holds
\* a uop it comes to a retirement or a flush, and while it has room it comes to
\* accept.
Moves   == \E k \in 0..Len(be) : Flush(k) \/ \E room \in 0..W : k > 0 /\ Cycle(room, k)
Accepts == \E k \in 0..Len(be) : \E room \in 1..W : Cycle(room, k)

\* The check comes round again and again.
Recognised == LaneDone(lane) /\ ~done /\ Next /\ done'

LiveSpec == Spec /\ WF_vars(Moves) /\ WF_vars(Accepts) /\ WF_vars(Recognised)
----------------------------------------------------------------------------
\* Every uop between the trace and retirement, in the order of delivery.
Pipe == be \o dq \o lane.stage

\* The places in it of the correct path and of the wrong one, and how many of
\* the places S there are up to the i-th.
Correct     == {i \in DOMAIN Pipe : ~OnWrongPath(Pipe[i])}
Wrong       == DOMAIN Pipe \ Correct
UpTo(S, i)  == Cardinality({j \in S : j <= i})

\* Where the correct path goes on once everything staged has been delivered.
Resume == IF lane.cur.off > 0 THEN lane.cur.sv.rec ELSE lane.cur.rec

\* The queues stay within their depths, and the lane is in one of its states.
TypeOK ==
  /\ Len(lane.stage) <= M /\ Len(dq) <= DQ_N /\ Len(be) <= BE_N
  /\ lane.fstate \in {"CORRECT", "SHADOW", "STARVED"}
  /\ lane.eof \in BOOLEAN
  /\ \A i \in DOMAIN Pipe : Pipe[i].rec \in 1..n_records /\ Pipe[i].off \in Nat
  /\ bub \in 0..3 /\ blk_seen \in BOOLEAN /\ shadow \in BOOLEAN
  /\ done \in BOOLEAN /\ left \in BOOLEAN
  /\ retired \in 0..n_records

\* Through every entry to a shadow and every flush, each record of the correct
\* path is delivered exactly once and in order: behind the last one retired
\* come those in flight and staged, without a gap, then the resume point.
TraceContiguous ==
  /\ \A i \in Correct : Pipe[i].rec = retired + UpTo(Correct, i)
  /\ Resume = retired + Cardinality(Correct) + 1

\* Each record is fetched with its own block's event, although the number of
\* the block is carried along over deltas, saved and restored, and the event is
\* taken at the first record of the block: bubbles are waited out before
\* the block, never again in the middle of it, on the wrong path neither.
BlockExact ==
  LET head == IF lane.stage # <<>> THEN lane.stage[1]
              ELSE [rec |-> lane.cur.rec, fe |-> lane.cur.fe, off |-> lane.cur.off]
      first == IF OnWrongPath(head)
               THEN head.off = 1 \/ Shadow(head.rec)[head.off - 1]
               ELSE head.rec = 1 \/ trace.rec[head.rec - 1].blkend
  IN  /\ \A i \in Correct : Pipe[i].fe = BlockOf(Pipe[i].rec)
      /\ ~blk_seen => first

\* The model's idea of the path (shadow_q) and the runtime's (fstate), each
\* kept by itself, are the same after every cycle, unless the runtime has found
\* no branch to enter (n_nobranch).  Then the model waits for a flush that never
\* comes: the lane is on the correct path for good and no redirect is asked for
\* any more.  The wrong path follows the correct one with the records of
\* one branch's shadow from its first on, so that a flush at its first uop
\* discards nothing else.
PathsAgree ==
  /\ shadow <=> lane.fstate # "CORRECT" \/ lane.n_nobranch > 0
  /\ lane.n_nobranch > 0 => lane.n_nobranch = 1 /\ lane.fstate = "CORRECT"
  /\ \A i \in 1..Len(Pipe)-1 : OnWrongPath(Pipe[i]) => OnWrongPath(Pipe[i+1])
  /\ \A i \in Wrong : Pipe[i].rec = lane.branch /\ Pipe[i].off = UpTo(Wrong, i)

\* Within the bounds of every queue, bstm_refill_check passes at all times:
\* shadows entered and left pair up, and a lane that counts as done has
\* consumed every record once.  Once the loop has recognised it, to mask what
\* it takes and asks for changes nothing: it stays done, nothing is left to
\* take and nothing in flight can ask for a redirect.  What its counters miss
\* when it is frozen, or the loop left, is the retirement of the correct-path
\* uops still in flight.
LedgerBalanced ==
  /\ TypeOK
  /\ lane.n_enter = lane.n_leave + IF lane.fstate = "CORRECT" THEN 0 ELSE 1
  /\ LaneDone(lane) => lane.cp_consumed = n_records
  /\ left => done
  /\ done => /\ LaneDone(lane) /\ Wrong = {}
             /\ n_records - retired = Len(be) + Len(dq)

\* The record that the model took last.
LastFetched == dq[Len(dq)].rec

\* Neither hard assertion of do_enter can fail.  The shadow entered is that of
\* the branch fetched last or, where one with a shadow is still staged, a later
\* one's, never an older one's; a redirect is dropped only for an empty shadow.
\* When the lane goes back, the branch has retired and nothing behind it, so
\* that the stale redirect which check (0) of lane_enter_shadow is there for
\* (n_resolved) never comes.
NeverTurnsBack ==
  [][/\ lane'.n_enter > lane.n_enter =>
          /\ lane'.branch > lane.branch
          /\ lane'.hi_resume > lane.hi_resume
          /\ lane'.branch >= LastFetched'
     /\ lane'.n_nobranch > lane.n_nobranch => Shadow(LastFetched)' = <<>>
     /\ lane'.n_leave > lane.n_leave => retired' = lane.branch
     /\ lane'.n_resolved = lane.n_resolved]_vars

\* The comment on lane_enter_shadow says that the branch entered is the last
\* record of the block whose event asked for the redirect.
EntersItsShadow == [][lane'.n_enter > lane.n_enter => lane'.branch = LastFetched']_vars

\* As InOrderWindow has it, decode queue and back end are one window in which
\* only correct-path uops retire and a flush discards only wrong-path ones.
Delivered == be \o dq
Program   == INSTANCE InOrderWindow WITH
  Uop    <- [rec : Nat, fe : Nat, off : Nat, sh : BOOLEAN],
  window <- Delivered
KeepsProgramOrder == Program!Spec

\* Every program is consumed to its end and the loop sees it.  It is retired to
\* its end as well if other lanes keep the loop from being left.
Finishes == <>(done /\ LaneDone(lane) /\ (left \/ retired = n_records))
=============================================================================
