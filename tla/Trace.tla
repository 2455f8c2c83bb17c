-------------------------------- MODULE Trace --------------------------------
(***************************************************************************)
(* lib/runtime/bstf_reader.[hc]: a recorded program and the cursor that     *)
(* walks it.  Records and fetch blocks are numbered from 1; the block's     *)
(* event is one entry of .fe, and the cursor carries the entry's number     *)
(* along.  A record with a shadow is a branch whose wrong path is recorded  *)
(* too: the cursor can enter it and go back to where it left.  Memory       *)
(* events, which are carried along like the block's number, are left out.   *)
(***************************************************************************)
EXTENDS Integers, Sequences, FiniteSets

CONSTANTS
  Traces,       \* the programs a lane may be given
  WrongEvent    \* the event of every block on the wrong path (.fe.wp)

VARIABLE trace  \* .rec: [blkend, shadow] per record; .fe: an event per block

\* What a block's event says, and the number of the block of t's r-th record.
FeEvent       == [bubbles : 0..3, redirect : BOOLEAN, dir_ok : BOOLEAN]
BlockIn(t, r) == 1 + Cardinality({q \in 1..r-1 : t.rec[q].blkend})

\* What the generator writes (TraceGen): each block has its event, and only the
\* end of a block has a shadow.  A mispredicted one may have none: where the
\* wrong path cannot be fetched from, its shadow is empty.
ASSUME TraceAssumption ==
  /\ WrongEvent \in FeEvent
  /\ \A t \in Traces :
       /\ t.rec \in Seq([blkend : BOOLEAN, shadow : Seq(BOOLEAN)])
       /\ t.fe \in Seq(FeEvent)
       /\ \A r \in DOMAIN t.rec :
            /\ BlockIn(t, r) \in DOMAIN t.fe
            /\ t.rec[r].shadow # <<>> => t.rec[r].blkend

n_records  == Len(trace.rec)
BlockOf(r) == BlockIn(trace, r)

\* The shadow of a record: the block-end marks of its wrong-path records.
Shadow(r) == trace.rec[r].shadow

\* The records from first to last with a fe_index_delta of 1: those that start
\* a new block.
NewBlocks(first, last) ==
  {r \in first..last : r \in 2..n_records /\ trace.rec[r-1].blkend}

----------------------------------------------------------------------------
\* A cursor is at record rec of the correct path when off = 0, else at the
\* off-th record of the shadow of rec; sv is where it will resume.
CurInit == [rec |-> 1, fe |-> 1, off |-> 0, sv |-> [rec |-> 1, fe |-> 1]]

\* bstf_avail: how many records there are to read from c on.
Left(c) ==
  IF c.off > 0 THEN Len(Shadow(c.rec)) - c.off + 1 ELSE n_records - c.rec + 1

\* bstf_advance by n records, which are there.
Advance(c, n) ==
  IF c.off > 0 THEN [c EXCEPT !.off = @ + n]
  ELSE [c EXCEPT !.rec = @ + n, !.fe = @ + Cardinality(NewBlocks(c.rec + 1, c.rec + n))]

\* Mutant: the resume point is the branch itself.
EnterShadowAtBranch(c) ==
  [c EXCEPT !.off = 1, !.sv = [rec |-> c.rec, fe |-> c.fe]]

\* Into the shadow of the record at c, to resume at the next record.
EnterShadow(c) ==
  LET r == Advance(c, 1)
  IN  [c EXCEPT !.off = 1, !.sv = [rec |-> r.rec, fe |-> r.fe]]

\* Mutant: the block's number is not restored.
LeaveShadowOldBlock(c) ==
  IF c.off = 0 THEN c ELSE [c EXCEPT !.rec = c.sv.rec, !.off = 0]

LeaveShadow(c) ==
  IF c.off = 0 THEN c ELSE [c EXCEPT !.rec = c.sv.rec, !.fe = c.sv.fe, !.off = 0]

----------------------------------------------------------------------------
\* What a staged entry e, read at a cursor, says of its record.
OnWrongPath(e) == e.off > 0
BlkEnd(e) ==
  IF OnWrongPath(e) THEN Shadow(e.rec)[e.off] ELSE trace.rec[e.rec].blkend
Event(e) == IF OnWrongPath(e) THEN WrongEvent ELSE trace.fe[e.fe]
=============================================================================
