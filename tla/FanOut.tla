------------------------------- MODULE FanOut -------------------------------
(***************************************************************************)
(* What the two threaded filters promise to the command loop, without      *)
(* threads, queues or condition variables: every frame handed in reaches   *)
(* every downstream branch exactly once and in order, a flush reaches a    *)
(* branch only after the last frame did, and the replies written to the    *)
(* host tell the truth.  AsyncParallel and Parallel implement it.          *)
(***************************************************************************)
EXTENDS Naturals

VARIABLES
  n,           \* number of downstream branches, fixed by initialise
  sync,        \* TRUE: the host gets a "frame_done" for every frame; fixed too
  submitted,   \* frames handed to the filter so far
  delivered,   \* delivered[b]: frames branch b has executed
  answered,    \* "frame_done" replies written
  flushing,    \* a flush was requested
  flushed,     \* flushed[b]: branch b has been flushed
  closed       \* "flush_done" was written

setup == <<n, sync>>
vars == <<setup, submitted, delivered, answered, flushing, flushed, closed>>

Branches == 1..n

Init ==
  /\ n \in Nat \ {0}
  /\ sync \in BOOLEAN
  /\ submitted = 0
  /\ delivered = [b \in Branches |-> 0]
  /\ answered = 0
  /\ flushing = FALSE
  /\ flushed = [b \in Branches |-> FALSE]
  /\ closed = FALSE

\* The command loop is ready for another command: in sync mode it has
\* answered the previous one.
Ready == ~flushing /\ (sync => answered = submitted)

Submit ==
  /\ Ready
  /\ submitted' = submitted + 1
  /\ UNCHANGED <<setup, delivered, answered, flushing, flushed, closed>>

Deliver(b) ==
  /\ delivered[b] < submitted
  /\ delivered' = [delivered EXCEPT ![b] = @ + 1]
  /\ UNCHANGED <<setup, submitted, answered, flushing, flushed, closed>>

\* The reply is written only when no branch is behind.
Answer ==
  /\ sync
  /\ answered < submitted
  /\ \A b \in Branches : delivered[b] = submitted
  /\ answered' = answered + 1
  /\ UNCHANGED <<setup, submitted, delivered, flushing, flushed, closed>>

Flush ==
  /\ Ready
  /\ flushing' = TRUE
  /\ UNCHANGED <<setup, submitted, delivered, answered, flushed, closed>>

FlushBranch(b) ==
  /\ flushing
  /\ ~flushed[b]
  /\ delivered[b] = submitted
  /\ flushed' = [flushed EXCEPT ![b] = TRUE]
  /\ UNCHANGED <<setup, submitted, delivered, answered, flushing, closed>>

Close ==
  /\ ~closed
  /\ \A b \in Branches : flushed[b]
  /\ closed' = TRUE
  /\ UNCHANGED <<setup, submitted, delivered, answered, flushing, flushed>>

Next ==
  \/ Submit \/ Answer \/ Flush \/ Close
  \/ \E b \in Branches : Deliver(b) \/ FlushBranch(b)

Spec == Init /\ [][Next]_vars
=============================================================================
