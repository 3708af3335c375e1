-------------------------- MODULE FrameMemoryProofs --------------------------
(***************************************************************************)
(* Proofs about AsyncParallel, and about FrameMemory, whose steps are      *)
(* steps of it, for every number of branches and frames, in both modes and *)
(* for every sender.                                                       *)
(***************************************************************************)
EXTENDS FrameMemory, FiniteSetTheorems, TLAPS

-----------------------------------------------------------------------------
(* AsyncParallel.                                                          *)


\* The state initialise() leaves has every variable in its range.
LEMMA InitType == Init => TypeOK
<1> SUFFICES ASSUME Init PROVE TypeOK
  OBVIOUS
<1>1. early \in BOOLEAN
  BY DEF Init
<1>2. queue \in [Workers -> Seq(0..MaxFrames)]
  BY DEF Init
<1>3. mpc \in MainPC /\ idx \in Workers /\ frames \in 0..MaxFrames /\ answered \in Nat
  BY ConstantsAssumption DEF Init, Workers, MainPC
<1>4. /\ wpc \in [Workers -> WorkerPC]
      /\ held \in [Workers -> 0..MaxFrames]
      /\ delivered \in [Workers -> 0..MaxFrames]
      /\ mutex \in Workers \union {Free}
  BY ConstantsAssumption DEF Init, WorkerPC, Exit, Free
<1> QED
  BY <1>1, <1>2, <1>3, <1>4 DEF TypeOK

\* One turn of a loop keeps the index a worker's number.
LEMMA AdvanceRange ==
  ASSUME idx \in Workers, NEW loop, NEW after, Advance(loop, after)
  PROVE  /\ idx' \in Workers
         /\ \/ idx < N /\ idx' = idx + 1 /\ mpc' = loop
            \/ idx = N /\ idx' = 1 /\ mpc' = after
  BY ConstantsAssumption DEF Advance, Workers

\* Every step, the main thread's or a worker's, keeps every variable in its range.
LEMMA NextType == TypeOK /\ [Next]_vars => TypeOK'
<1> SUFFICES ASSUME TypeOK, [Next]_vars PROVE TypeOK'
  OBVIOUS
<1> USE ConstantsAssumption DEF TypeOK, MainPC, WorkerPC, Exit, Free
<1>1. CASE ReadFrame
  BY <1>1 DEF ReadFrame, workerVars
<1>2. CASE EnqueueFrame
  BY <1>2, AdvanceRange DEF EnqueueFrame, AddToQueue, Signalled, AfterEnqueue
<1>3. CASE SpuriousMain
  BY <1>3, AdvanceRange DEF SpuriousMain, workerVars
<1>4. CASE WriteFrameDone
  BY <1>4 DEF WriteFrameDone, workerVars
<1>5. CASE ReadFlush
  BY <1>5 DEF ReadFlush, workerVars
<1>6. CASE EnqueueExit
  BY <1>6, AdvanceRange DEF EnqueueExit, AddToQueue, Signalled
<1>7. CASE Join
  BY <1>7, AdvanceRange DEF Join, workerVars
<1>8. CASE WriteFlushDone
  BY <1>8 DEF WriteFlushDone, workerVars
<1>9. ASSUME NEW w \in Workers, Worker(w) PROVE TypeOK'
  <2>1. CASE WaitForQueue(w)
    BY <2>1 DEF WaitForQueue, mainVars
  <2>2. CASE SpuriousWorker(w)
    BY <2>2 DEF SpuriousWorker, mainVars
  <2>3. CASE RemoveNothing(w)
    BY <2>3 DEF RemoveNothing, mainVars
  <2>4. CASE RemoveEntry(w)
    BY <2>4 DEF RemoveEntry, mainVars
  <2>5. CASE BeginWrite(w)
    BY <2>5 DEF BeginWrite, mainVars
  <2>6. CASE EndWrite(w)
    BY <2>6 DEF EndWrite, mainVars
  <2>7. CASE ExecuteEnd(w)
    BY <2>7 DEF ExecuteEnd, mainVars
  <2>8. CASE Complete(w)
    BY <2>8, AdvanceRange DEF Complete
  <2>9. CASE FlushEnd(w)
    BY <2>9 DEF FlushEnd, mainVars
  <2> QED
    BY <1>9, <2>1, <2>2, <2>3, <2>4, <2>5, <2>6, <2>7, <2>8, <2>9 DEF Worker
<1>10. CASE UNCHANGED vars
  BY <1>10 DEF vars
<1> QED
  BY <1>1, <1>2, <1>3, <1>4, <1>5, <1>6, <1>7, <1>8, <1>9, <1>10 DEF Next, Main

\* Every reachable state has every variable in its range.
THEOREM TypeCorrect == Spec => []TypeOK
<1>1. Init => TypeOK
  BY InitType
<1>2. TypeOK /\ [Next]_vars => TypeOK'
  BY NextType
<1> QED
  BY <1>1, <1>2, PTL DEF Spec

-----------------------------------------------------------------------------
(* What appending to a queue and removing its head does to its contents.   *)

\* A frame appended to a queue (ADD_TO_QUEUE) is the next one sent.
LEMMA HoldsAppendFrame ==
  ASSUME NEW q \in Seq(Nat), NEW taken \in Nat, NEW sent \in Nat,
         Holds(q, taken, sent, FALSE)
  PROVE  Holds(Append(q, sent + 1), taken, sent + 1, FALSE)
<1>1. sent - taken \in Nat /\ Len(q) = sent - taken
  BY DEF Holds
<1>2. (sent + 1) - taken = (sent - taken) + 1 /\ (sent + 1) - taken \in Nat
  BY <1>1
<1>3. Len(Append(q, sent + 1)) = (sent + 1) - taken
  BY <1>1, <1>2
<1>4. ASSUME NEW k \in 1..((sent + 1) - taken) PROVE Append(q, sent + 1)[k] = taken + k
  <2>1. CASE k = (sent + 1) - taken
    <3>1. k = Len(q) + 1 /\ taken + k = sent + 1
      BY <1>1, <1>2, <2>1
    <3> QED
      BY <3>1
  <2>2. CASE k \in 1..(sent - taken)
    <3>1. q[k] = taken + k
      BY <2>2 DEF Holds
    <3>2. k \in 1..Len(q)
      BY <1>1, <2>2
    <3> QED
      BY <3>1, <3>2
  <2> QED
    BY <1>1, <1>2, <2>1, <2>2
<1> QED
  BY <1>2, <1>3, <1>4 DEF Holds

\* An exit entry appended to a queue of frames is behind all of them.
LEMMA HoldsAppendExit ==
  ASSUME NEW q \in Seq(Nat), NEW taken \in Nat, NEW sent \in Nat,
         Holds(q, taken, sent, FALSE)
  PROVE  Holds(Append(q, Exit), taken, sent, TRUE)
  BY DEF Holds, Exit

\* The head of a queue that holds frames (REMOVE_FROM_QUEUE) is the next frame to
\* take, and what is left still holds the rest.
LEMMA HoldsTakeFrame ==
  ASSUME NEW q \in Seq(Nat), NEW taken \in Nat, NEW sent \in Nat, NEW exit \in BOOLEAN,
         Holds(q, taken, sent, exit), q # <<>>, Head(q) # Exit
  PROVE  Head(q) = taken + 1 /\ Holds(Tail(q), taken + 1, sent, exit)
  BY DEF Holds, Exit

\* With no frame left the head is the exit entry, and nothing is behind it.
LEMMA HoldsTakeExit ==
  ASSUME NEW q \in Seq(Nat), NEW taken \in Nat, NEW sent \in Nat, NEW exit \in BOOLEAN,
         Holds(q, taken, sent, exit), q # <<>>, Head(q) = Exit
  PROVE  exit = TRUE /\ taken = sent /\ Tail(q) = <<>> /\ Holds(Tail(q), taken, sent, FALSE)
  BY DEF Holds, Exit

-----------------------------------------------------------------------------
(* The inductive invariant, one part at a time.                            *)

\* Every step keeps IndexReset: a loop that ends leaves its index at the first branch.
LEMMA IndexStep ==
  ASSUME TypeOK, IndexReset, [Next]_vars
  PROVE  IndexReset'
<1> USE DEF TypeOK, IndexReset
<1>1. CASE ReadFrame
  BY <1>1 DEF ReadFrame
<1>2. CASE EnqueueFrame
  BY <1>2, AdvanceRange DEF EnqueueFrame, AfterEnqueue
<1>3. CASE SpuriousMain
  BY <1>3, AdvanceRange DEF SpuriousMain
<1>4. CASE WriteFrameDone
  BY <1>4 DEF WriteFrameDone
<1>5. CASE ReadFlush
  BY <1>5 DEF ReadFlush
<1>6. CASE EnqueueExit
  BY <1>6, AdvanceRange DEF EnqueueExit
<1>7. CASE Join
  BY <1>7, AdvanceRange DEF Join
<1>8. CASE WriteFlushDone
  BY <1>8 DEF WriteFlushDone
<1>9. ASSUME NEW w \in Workers, Complete(w) PROVE IndexReset'
  BY <1>9, AdvanceRange DEF Complete
<1>10. ASSUME NEW w \in Workers, Worker(w), ~Complete(w) PROVE UNCHANGED <<mpc, idx>>
  BY <1>10 DEF Worker, WaitForQueue, SpuriousWorker, RemoveNothing, RemoveEntry,
               BeginWrite, EndWrite, ExecuteEnd, FlushEnd, mainVars
<1>11. CASE UNCHANGED vars
  BY <1>11 DEF vars
<1> QED
  BY <1>1, <1>2, <1>3, <1>4, <1>5, <1>6, <1>7, <1>8, <1>9, <1>10, <1>11 DEF Next, Main

\* While the enqueue loop has not passed w, the last frame is not yet sent to it.
LEMMA FramesSentBefore ==
  ASSUME NEW w, mpc = "enqueue", idx <= w
  PROVE  FramesSent(w) = frames - 1
  BY DEF FramesSent

\* Otherwise all frames are.
LEMMA FramesSentAfter ==
  ASSUME NEW w, ~(mpc = "enqueue" /\ idx <= w)
  PROVE  FramesSent(w) = frames
  BY DEF FramesSent

\* The number of frames sent to a worker is a natural number, as is the last taken.
LEMMA Counted ==
  ASSUME TypeOK, IndexReset, NEW w \in Workers, QueueInv(w)
  PROVE  Taken(w) \in Nat /\ FramesSent(w) \in Nat /\ ExitQueued(w) \in BOOLEAN
         /\ queue[w] \in Seq(Nat)
<1>1. Taken(w) \in Nat
  BY ConstantsAssumption DEF TypeOK, Taken
<1>2. ExitQueued(w) \in BOOLEAN
  BY DEF ExitQueued
<1>3. FramesSent(w) - Taken(w) \in Nat
  BY DEF QueueInv, Holds
<1>4. FramesSent(w) \in Int
  BY ConstantsAssumption DEF FramesSent, TypeOK
<1>5. queue[w] \in Seq(Nat)
  BY ConstantsAssumption DEF TypeOK
<1> QED
  BY <1>1, <1>2, <1>3, <1>4, <1>5

\* A step that sends worker w nothing and takes nothing from its queue.
LEMMA QueueUntouched ==
  ASSUME NEW w \in Workers, QueueInv(w),
         queue'[w] = queue[w], Taken(w)' = Taken(w), FramesSent(w)' = FramesSent(w),
         ExitQueued(w)' = ExitQueued(w),
         wpc'[w] = "execute" => held'[w] = delivered'[w] + 1
  PROVE  QueueInv(w)'
  BY DEF QueueInv

\* The same, when the worker does not move either.
LEMMA QueueBystander ==
  ASSUME NEW w \in Workers, QueueInv(w), UNCHANGED <<queue[w], wpc[w], held[w], delivered[w]>>,
         FramesSent(w)' = FramesSent(w), ExitSent(w)' = ExitSent(w)
  PROVE  QueueInv(w)'
<1>1. Taken(w)' = Taken(w)
  BY DEF Taken
<1>2. ExitQueued(w)' = ExitQueued(w)
  BY DEF ExitQueued, Ended
<1> QED
  BY <1>1, <1>2, QueueUntouched DEF QueueInv
\* What the main thread has sent a worker changes only when its loop passes
\* that worker.
LEMMA EnqueueFrameSends ==
  ASSUME TypeOK, EnqueueFrame, NEW w \in Workers
  PROVE  /\ w # idx => FramesSent(w)' = FramesSent(w)
         /\ w = idx => FramesSent(w) = frames - 1 /\ FramesSent(w)' = frames
         /\ ~ExitSent(w) /\ ~ExitSent(w)'
<1>1. mpc = "enqueue" /\ frames' = frames
  BY DEF EnqueueFrame
<1>2. \/ idx < N /\ idx' = idx + 1 /\ mpc' = "enqueue"
      \/ idx = N /\ idx' = 1 /\ mpc' \in {"await", "idle"}
  BY AdvanceRange DEF TypeOK, EnqueueFrame, AfterEnqueue
<1>3. idx \in 1..N /\ w \in 1..N /\ N \in Nat
  BY ConstantsAssumption DEF TypeOK, Workers
<1>4. ~ExitSent(w) /\ ~ExitSent(w)'
  BY <1>1, <1>2 DEF ExitSent
<1>5. CASE w < idx
  <2>1. ~(mpc = "enqueue" /\ idx <= w)
    BY <1>3, <1>5
  <2>2. ~(mpc' = "enqueue" /\ idx' <= w)
    BY <1>2, <1>3, <1>5
  <2>3. FramesSent(w) = frames
    BY <2>1 DEF FramesSent
  <2>4. FramesSent(w)' = frames
    BY <1>1, <2>2 DEF FramesSent
  <2> QED
    BY <1>3, <1>4, <1>5, <2>3, <2>4
<1>6. CASE w = idx
  <2>1. mpc = "enqueue" /\ idx <= w
    BY <1>1, <1>3, <1>6
  <2>2. ~(mpc' = "enqueue" /\ idx' <= w)
    BY <1>2, <1>3, <1>6
  <2>3. FramesSent(w) = frames - 1
    BY <2>1 DEF FramesSent
  <2>4. FramesSent(w)' = frames
    BY <1>1, <2>2 DEF FramesSent
  <2> QED
    BY <1>4, <1>6, <2>3, <2>4
<1>7. CASE idx < w
  <2>1. mpc = "enqueue" /\ idx <= w
    BY <1>1, <1>3, <1>7
  <2>2. mpc' = "enqueue" /\ idx' <= w
    BY <1>2, <1>3, <1>7
  <2>3. FramesSent(w) = frames - 1
    BY <2>1 DEF FramesSent
  <2>4. FramesSent(w)' = frames - 1
    BY <1>1, <2>2 DEF FramesSent
  <2> QED
    BY <1>3, <1>4, <1>7, <2>3, <2>4
<1> QED
  BY <1>3, <1>5, <1>6, <1>7

\* EnqueueExit sends worker idx the exit entry and nobody a frame.
LEMMA EnqueueExitSends ==
  ASSUME TypeOK, EnqueueExit, NEW w \in Workers
  PROVE  /\ FramesSent(w) = frames /\ FramesSent(w)' = frames
         /\ w # idx => ExitSent(w)' = ExitSent(w)
         /\ w = idx => ~ExitSent(w) /\ ExitSent(w)'
<1>1. mpc = "enqueueExit" /\ frames' = frames
  BY DEF EnqueueExit
<1>2. \/ idx < N /\ idx' = idx + 1 /\ mpc' = "enqueueExit"
      \/ idx = N /\ idx' = 1 /\ mpc' = "join"
  BY AdvanceRange DEF TypeOK, EnqueueExit
<1>3. idx \in 1..N /\ w \in 1..N /\ N \in Nat
  BY ConstantsAssumption DEF TypeOK, Workers
<1>4. FramesSent(w) = frames
  BY <1>1 DEF FramesSent
<1>5. FramesSent(w)' = frames
  BY <1>1, <1>2 DEF FramesSent
<1>6. ExitSent(w) <=> w < idx
  BY <1>1 DEF ExitSent
<1>7. ExitSent(w)' <=> w < idx + 1
  BY <1>1, <1>2, <1>3 DEF ExitSent
<1>8. ExitSent(w) \in BOOLEAN /\ ExitSent(w)' \in BOOLEAN
  BY DEF ExitSent
<1> QED
  BY <1>3, <1>4, <1>5, <1>6, <1>7, <1>8

\* A step of the loop outside its two sending states sends nothing.
LEMMA LoopElsewhere ==
  ASSUME TypeOK, NEW w \in Workers, frames' = frames,
         \/ mpc' = mpc /\ idx' = idx
         \/ mpc \in {"await", "frameDone"} /\ mpc' \in {"await", "frameDone", "idle"}
         \/ mpc \in {"join", "flushDone"} /\ mpc' \in {"join", "flushDone", "closed"}
  PROVE  FramesSent(w)' = FramesSent(w) /\ ExitSent(w)' = ExitSent(w)
  BY ConstantsAssumption DEF FramesSent, ExitSent, TypeOK

\* No step of a worker sends anything, in particular not the one that ends an await.
LEMMA WorkerSendsNothing ==
  ASSUME TypeOK, NEW u \in Workers, Worker(u), NEW w \in Workers
  PROVE  FramesSent(w)' = FramesSent(w) /\ ExitSent(w)' = ExitSent(w)
<1>1. CASE Complete(u)
  BY <1>1, LoopElsewhere, AdvanceRange DEF Complete, CompleteMutexFree, TypeOK
<1>2. CASE ~Complete(u)
  BY <1>2, LoopElsewhere DEF Worker, WaitForQueue, SpuriousWorker, RemoveNothing,
     RemoveEntry, BeginWrite, EndWrite, ExecuteEnd, FlushEnd, mainVars
<1> QED
  BY <1>1, <1>2

\* No other step sends anything.
LEMMA NothingSent ==
  ASSUME TypeOK, IndexReset, [Next]_vars, ~EnqueueFrame, ~EnqueueExit, NEW w \in Workers
  PROVE  FramesSent(w)' = FramesSent(w) /\ ExitSent(w)' = ExitSent(w)
<1> USE ConstantsAssumption DEF TypeOK, IndexReset
<1>1. CASE ReadFrame
  <2>1. mpc = "idle" /\ mpc' = "enqueue" /\ idx' = 1 /\ frames' = frames + 1
    BY <1>1 DEF ReadFrame
  <2>2. FramesSent(w) = frames
    BY <2>1 DEF FramesSent
  <2>3. FramesSent(w)' = (frames + 1) - 1
    BY <2>1 DEF FramesSent, Workers
  <2>4. ExitSent(w)' = ExitSent(w)
    BY <2>1 DEF ExitSent
  <2> QED
    BY <2>2, <2>3, <2>4
<1>2. CASE ReadFlush
  <2>1. mpc = "idle" /\ mpc' = "enqueueExit" /\ idx' = 1 /\ frames' = frames
    BY <1>2 DEF ReadFlush
  <2>2. FramesSent(w)' = FramesSent(w)
    BY <2>1 DEF FramesSent
  <2>3. ~ExitSent(w) /\ ~ExitSent(w)'
    BY <2>1 DEF ExitSent, Workers
  <2> QED
    BY <2>2, <2>3 DEF ExitSent
<1>4. CASE SpuriousMain
  BY LoopElsewhere, <1>4, AdvanceRange DEF SpuriousMain
<1>5. CASE WriteFrameDone
  BY LoopElsewhere, <1>5 DEF WriteFrameDone
<1>6. CASE Join
  BY LoopElsewhere, <1>6, AdvanceRange DEF Join
<1>7. CASE WriteFlushDone
  BY LoopElsewhere, <1>7 DEF WriteFlushDone
<1>8. ASSUME NEW u \in Workers, Worker(u)
      PROVE  FramesSent(w)' = FramesSent(w) /\ ExitSent(w)' = ExitSent(w)
  BY <1>8, WorkerSendsNothing
<1>9. CASE UNCHANGED vars
  BY LoopElsewhere, <1>9 DEF vars
<1> QED
  BY <1>1, <1>2, <1>4, <1>5, <1>6, <1>7, <1>8, <1>9 DEF Next, Main

-----------------------------------------------------------------------------
(* QueueInv is preserved.                                                  *)

QueuesOK == \A w \in Workers : QueueInv(w) /\ ThreadInv(w)

\* EnqueueFrame keeps every queue exactly what was sent and not taken.
LEMMA QueueEnqueueFrame ==
  ASSUME TypeOK, IndexReset, QueuesOK, EnqueueFrame, NEW w \in Workers
  PROVE  QueueInv(w)'
<1>1. QueueInv(w)
  BY DEF QueuesOK
<1>2. UNCHANGED <<held, delivered>>
  BY DEF EnqueueFrame
<1>3. CASE w = idx
  <2>1. queue'[w] = Append(queue[w], frames) /\ wpc'[w] = Signalled(w)
    BY <1>3 DEF EnqueueFrame, AddToQueue, TypeOK
  <2>2. wpc'[w] = "execute" <=> wpc[w] = "execute"
    BY <2>1 DEF Signalled
  <2>3. Taken(w)' = Taken(w)
    BY <1>2, <2>2 DEF Taken
  <2>4. FramesSent(w) = frames - 1 /\ FramesSent(w)' = (frames - 1) + 1
        /\ ExitQueued(w) = FALSE /\ ExitQueued(w)' = FALSE
    BY <1>3, EnqueueFrameSends, ConstantsAssumption DEF ExitQueued, TypeOK
  <2>5. Holds(queue[w], Taken(w), frames - 1, FALSE)
    BY <1>1, <2>4 DEF QueueInv
  <2>6. Taken(w) \in Nat /\ frames - 1 \in Nat /\ queue[w] \in Seq(Nat)
    BY <1>1, <2>4, Counted
  <2>7. frames = (frames - 1) + 1
    BY ConstantsAssumption DEF TypeOK
  <2>8. Holds(queue'[w], Taken(w), (frames - 1) + 1, FALSE)
    BY <2>1, <2>5, <2>6, <2>7, HoldsAppendFrame
  <2>9. Holds(queue'[w], Taken(w)', FramesSent(w)', ExitQueued(w)')
    BY <2>3, <2>4, <2>8
  <2>10. wpc'[w] = "execute" => held'[w] = delivered'[w] + 1
    BY <1>1, <1>2, <2>2 DEF QueueInv
  <2> QED
    BY <2>9, <2>10 DEF QueueInv
<1>4. CASE w # idx
  <2>1. UNCHANGED <<queue[w], wpc[w]>>
    BY <1>4 DEF EnqueueFrame, AddToQueue, TypeOK
  <2>2. FramesSent(w)' = FramesSent(w) /\ ExitSent(w)' = ExitSent(w)
    BY <1>4, EnqueueFrameSends DEF ExitSent
  <2> QED
    BY <1>1, <1>2, <2>1, <2>2, QueueBystander
<1> QED
  BY <1>3, <1>4

\* EnqueueExit keeps every queue exactly what was sent and not taken.
LEMMA QueueEnqueueExit ==
  ASSUME TypeOK, IndexReset, QueuesOK, EnqueueExit, NEW w \in Workers
  PROVE  QueueInv(w)'
<1>1. QueueInv(w) /\ ThreadInv(w)
  BY DEF QueuesOK
<1>2. UNCHANGED <<held, delivered>>
  BY DEF EnqueueExit
<1>3. CASE w = idx
  <2>1. queue'[w] = Append(queue[w], Exit) /\ wpc'[w] = Signalled(w)
    BY <1>3 DEF EnqueueExit, AddToQueue, TypeOK
  <2>2. wpc'[w] = "execute" <=> wpc[w] = "execute"
    BY <2>1 DEF Signalled
  <2>3. Taken(w)' = Taken(w)
    BY <1>2, <2>2 DEF Taken
  <2>4. FramesSent(w) = frames /\ FramesSent(w)' = frames /\ ~ExitSent(w) /\ ExitSent(w)'
    BY <1>3, EnqueueExitSends
  <2>5. ~Ended(w)
    BY <1>1, <2>4 DEF ThreadInv
  <2>6. ~Ended(w)'
    BY <2>1, <2>5 DEF Ended, Signalled
  <2>7. ExitQueued(w) = FALSE /\ ExitQueued(w)' = TRUE
    BY <2>4, <2>6 DEF ExitQueued
  <2>8. Holds(queue[w], Taken(w), frames, FALSE)
    BY <1>1, <2>4, <2>7 DEF QueueInv
  <2>9. Taken(w) \in Nat /\ frames \in Nat /\ queue[w] \in Seq(Nat)
    BY <1>1, <2>4, Counted
  <2>10. Holds(queue'[w], Taken(w), frames, TRUE)
    BY <2>1, <2>8, <2>9, HoldsAppendExit
  <2>11. Holds(queue'[w], Taken(w)', FramesSent(w)', ExitQueued(w)')
    BY <2>3, <2>4, <2>7, <2>10
  <2>12. wpc'[w] = "execute" => held'[w] = delivered'[w] + 1
    BY <1>1, <1>2, <2>2 DEF QueueInv
  <2> QED
    BY <2>11, <2>12 DEF QueueInv
<1>4. CASE w # idx
  <2>1. UNCHANGED <<queue[w], wpc[w]>>
    BY <1>4 DEF EnqueueExit, AddToQueue, TypeOK
  <2>2. FramesSent(w)' = FramesSent(w) /\ ExitSent(w)' = ExitSent(w)
    BY <1>4, EnqueueExitSends
  <2> QED
    BY <1>1, <1>2, <2>1, <2>2, QueueBystander
<1> QED
  BY <1>3, <1>4

\* REMOVE_FROM_QUEUE keeps every queue exactly what was sent and not taken.
LEMMA QueueRemoveEntry ==
  ASSUME TypeOK, IndexReset, QueuesOK, NEW w \in Workers, RemoveEntry(w)
  PROVE  QueueInv(w)'
<1>1. QueueInv(w) /\ ThreadInv(w)
  BY DEF QueuesOK
<1>2. /\ wpc[w] = "remove" /\ queue[w] # <<>> /\ delivered'[w] = delivered[w]
      /\ held'[w] = Head(queue[w]) /\ queue'[w] = Tail(queue[w])
      /\ wpc'[w] = IF Head(queue[w]) = Exit THEN "flush" ELSE "execute"
  BY DEF RemoveEntry, TypeOK
<1>3. FramesSent(w)' = FramesSent(w) /\ ExitSent(w)' = ExitSent(w)
  BY WorkerSendsNothing DEF Worker
<1>4. Taken(w) = delivered[w]
  BY <1>2 DEF Taken, TypeOK
<1>5. ~Ended(w)
  BY <1>2 DEF Ended
<1>6. /\ Taken(w) \in Nat /\ FramesSent(w) \in Nat /\ ExitQueued(w) \in BOOLEAN
      /\ queue[w] \in Seq(Nat)
  BY <1>1, Counted
<1>7. Holds(queue[w], Taken(w), FramesSent(w), ExitQueued(w))
  BY <1>1 DEF QueueInv
<1>8. CASE Head(queue[w]) = Exit
  <2>1. Holds(queue'[w], Taken(w), FramesSent(w), FALSE)
    <3>1. queue[w] # <<>>
      BY <1>2
    <3>2. Holds(Tail(queue[w]), Taken(w), FramesSent(w), FALSE)
      BY <1>6, <1>7, <1>8, <3>1, HoldsTakeExit, Zenon
    <3> QED
      BY <1>2, <3>2
  <2>2. Taken(w)' = Taken(w)
    <3>1. wpc'[w] = "flush"
      BY <1>2, <1>8
    <3>2. Taken(w)' = delivered'[w] + 0
      BY <3>1 DEF Taken
    <3> QED
      BY <1>2, <1>4, <1>6, <3>2
  <2>3. ExitQueued(w)' = FALSE
    BY <1>2, <1>8 DEF ExitQueued, Ended
  <2>4. Holds(queue'[w], Taken(w)', FramesSent(w)', ExitQueued(w)')
    BY <1>3, <2>1, <2>2, <2>3
  <2> QED
    BY <1>2, <1>8, <2>4 DEF QueueInv
<1>9. CASE Head(queue[w]) # Exit
  <2>1. Head(queue[w]) = Taken(w) + 1
        /\ Holds(queue'[w], Taken(w) + 1, FramesSent(w), ExitQueued(w))
    BY <1>2, <1>6, <1>7, <1>9, HoldsTakeFrame
  <2>2. Taken(w)' = Taken(w) + 1
    <3>1. wpc'[w] = "execute"
      BY <1>2, <1>9
    <3>2. Taken(w)' = delivered'[w] + 1
      BY <3>1 DEF Taken
    <3> QED
      BY <1>2, <1>4, <3>2
  <2>3. ExitQueued(w)' = ExitQueued(w)
    BY <1>2, <1>3, <1>5, <1>9 DEF ExitQueued, Ended
  <2>4. Holds(queue'[w], Taken(w)', FramesSent(w)', ExitQueued(w)')
    BY <1>3, <2>1, <2>2, <2>3
  <2>5. held'[w] = delivered'[w] + 1
    BY <1>2, <1>4, <2>1
  <2> QED
    BY <2>4, <2>5 DEF QueueInv
<1> QED
  BY <1>8, <1>9

\* A frame executed is the one taken last.
LEMMA QueueExecuteEnd ==
  ASSUME TypeOK, IndexReset, QueuesOK, NEW w \in Workers, ExecuteEnd(w)
  PROVE  QueueInv(w)'
<1>1. QueueInv(w)
  BY DEF QueuesOK
<1>2. /\ wpc[w] = "execute" /\ delivered'[w] = held[w] /\ queue'[w] = queue[w]
      /\ wpc'[w] \in {"complete", "remove"}
  BY DEF ExecuteEnd, TypeOK
<1>3. FramesSent(w)' = FramesSent(w) /\ ExitSent(w)' = ExitSent(w)
  BY WorkerSendsNothing DEF Worker
<1>4. Taken(w) = delivered[w] + 1
  BY <1>2 DEF Taken
<1>5. Taken(w)' = held[w]
  BY <1>2, ConstantsAssumption DEF Taken, TypeOK
<1>6. Taken(w)' = Taken(w)
  BY <1>1, <1>2, <1>4, <1>5 DEF QueueInv
<1>7. ExitQueued(w)' = ExitQueued(w)
  BY <1>2, <1>3 DEF ExitQueued, Ended
<1> QED
  BY <1>1, <1>2, <1>3, <1>6, <1>7, QueueUntouched

\* A step of worker w that takes nothing from its queue and ends no execute.
LEMMA QueueIdleStep ==
  ASSUME TypeOK, IndexReset, QueuesOK, NEW w \in Workers, Worker(w),
         ~RemoveEntry(w), ~ExecuteEnd(w)
  PROVE  QueueInv(w)'
<1>1. QueueInv(w)
  BY DEF QueuesOK
<1>2. /\ queue'[w] = queue[w] /\ delivered'[w] = delivered[w] /\ held'[w] = held[w]
      /\ \/ wpc'[w] = wpc[w]
         \/ wpc[w] = "flush" /\ wpc'[w] = "exited"
         \/ wpc[w] \notin {"execute", "flush", "exited"}
            /\ wpc'[w] \notin {"execute", "flush", "exited"}
  BY DEF Worker, WaitForQueue, SpuriousWorker, RemoveNothing, BeginWrite, EndWrite,
         Complete, FlushEnd, TypeOK
<1>3. FramesSent(w)' = FramesSent(w) /\ ExitSent(w)' = ExitSent(w)
  BY WorkerSendsNothing
<1>4. Taken(w)' = Taken(w)
  BY <1>2 DEF Taken
<1>5. ExitQueued(w)' = ExitQueued(w)
  BY <1>2, <1>3 DEF ExitQueued, Ended
<1>6. wpc'[w] = "execute" => held'[w] = delivered'[w] + 1
  BY <1>1, <1>2 DEF QueueInv
<1> QED
  BY <1>1, <1>2, <1>3, <1>4, <1>5, <1>6, QueueUntouched

\* Every step keeps every queue exactly what was sent and not taken.
LEMMA QueueStep ==
  ASSUME TypeOK, IndexReset, QueuesOK, [Next]_vars, NEW w \in Workers
  PROVE  QueueInv(w)'
<1>1. CASE EnqueueFrame
  BY <1>1, QueueEnqueueFrame
<1>2. CASE EnqueueExit
  BY <1>2, QueueEnqueueExit
<1>3. ASSUME Main \/ UNCHANGED vars, ~EnqueueFrame, ~EnqueueExit PROVE QueueInv(w)'
  <2>1. FramesSent(w)' = FramesSent(w) /\ ExitSent(w)' = ExitSent(w)
    BY <1>3, NothingSent DEF Next
  <2>2. UNCHANGED <<queue, wpc, held, delivered>>
    BY <1>3 DEF Main, ReadFrame, SpuriousMain, WriteFrameDone, ReadFlush, Join,
                WriteFlushDone, workerVars, vars
  <2> QED
    BY <2>1, <2>2, QueueBystander DEF QueuesOK
<1>4. ASSUME NEW u \in Workers, Worker(u) PROVE QueueInv(w)'
  <2>1. CASE w = u
    BY <1>4, <2>1, QueueRemoveEntry, QueueExecuteEnd, QueueIdleStep
  <2>2. CASE w # u
    <3>1. UNCHANGED <<queue[w], wpc[w], held[w], delivered[w]>>
      BY <1>4, <2>2 DEF Worker, WaitForQueue, SpuriousWorker, RemoveNothing, RemoveEntry,
         BeginWrite, EndWrite, ExecuteEnd, Complete, FlushEnd, TypeOK
    <3>2. FramesSent(w)' = FramesSent(w) /\ ExitSent(w)' = ExitSent(w)
      BY <1>4, WorkerSendsNothing
    <3> QED
      BY <3>1, <3>2, QueueBystander DEF QueuesOK
  <2> QED
    BY <2>1, <2>2
<1> QED
  BY <1>1, <1>2, <1>3, <1>4 DEF Next

-----------------------------------------------------------------------------
(* ThreadInv is preserved.                                                 *)

\* ADD_TO_QUEUE wakes a sleeper and changes no other thread.
LEMMA AddWakes ==
  ASSUME TypeOK, NEW u \in Workers, NEW item, AddToQueue(u, item), NEW w \in Workers
  PROVE  wpc'[w] = wpc[w] \/ (wpc[w] = "asleep" /\ wpc'[w] = "remove")
<1>1. wpc' = [wpc EXCEPT ![u] = Signalled(u)]
  BY DEF AddToQueue
<1>2. CASE w = u
  <2>1. wpc'[w] = Signalled(w)
    BY <1>1, <1>2 DEF TypeOK
  <2> QED
    BY <2>1 DEF Signalled
<1>3. CASE w # u
  BY <1>1, <1>3 DEF TypeOK
<1> QED
  BY <1>2, <1>3

\* A step of the main thread keeps ThreadInv: only finished workers are joined.
LEMMA ThreadMain ==
  ASSUME TypeOK, IndexReset, QueuesOK, Main, NEW w \in Workers
  PROVE  ThreadInv(w)'
<1>1. ThreadInv(w)
  BY DEF QueuesOK
<1>2. CASE EnqueueFrame
  <2>1. ~Ended(w) /\ ~ExitSent(w)'
    BY <1>1, <1>2, EnqueueFrameSends DEF ThreadInv
  <2>2. mutex' = mutex /\ mpc' \notin {"join", "flushDone", "closed"}
    <3>1. mpc' \in {"enqueue", AfterEnqueue}
      BY <1>2, AdvanceRange DEF EnqueueFrame, TypeOK
    <3> QED
      BY <1>2, <3>1 DEF EnqueueFrame, AfterEnqueue
  <2>3. wpc'[w] = wpc[w] \/ (wpc[w] = "asleep" /\ wpc'[w] = "remove")
    BY <1>2, AddWakes DEF EnqueueFrame, TypeOK
  <2> QED
    BY <1>1, <2>1, <2>2, <2>3 DEF ThreadInv, Ended
<1>3. CASE EnqueueExit
  <2>1. mutex' = mutex
    BY <1>3 DEF EnqueueExit
  <2>2. mpc' = "join" => idx' = 1
    BY <1>3, AdvanceRange DEF EnqueueExit, TypeOK
  <2>3. mpc' \in {"enqueueExit", "join"}
    BY <1>3, AdvanceRange DEF EnqueueExit, TypeOK
  <2>4. wpc'[w] = wpc[w] \/ (wpc[w] = "asleep" /\ wpc'[w] = "remove")
    BY <1>3, AddWakes DEF EnqueueExit, TypeOK
  <2>5. ~(mpc' = "join" /\ w < idx')
    BY <2>2 DEF Workers
  <2>6. CASE w = idx
    <3>1. ~Ended(w)
      BY <1>1, <1>3, <2>6, EnqueueExitSends DEF ThreadInv
    <3> QED
      BY <1>1, <2>1, <2>3, <2>4, <2>5, <3>1 DEF ThreadInv, Ended
  <2>7. CASE w # idx
    <3>1. queue'[w] = queue[w]
      BY <1>3, <2>7 DEF EnqueueExit, AddToQueue, TypeOK
    <3>2. ExitSent(w)' = ExitSent(w)
      BY <1>3, <2>7, EnqueueExitSends
    <3> QED
      BY <1>1, <2>1, <2>3, <2>4, <2>5, <3>1, <3>2 DEF ThreadInv, Ended
  <2> QED
    BY <2>6, <2>7
<1>4. ASSUME ~EnqueueFrame, ~EnqueueExit PROVE ThreadInv(w)'
  <2>1. UNCHANGED <<queue, wpc, mutex>>
    BY <1>4 DEF Main, ReadFrame, SpuriousMain, WriteFrameDone, ReadFlush, Join,
                WriteFlushDone, workerVars
  <2>2. ExitSent(w)' = ExitSent(w)
    BY <1>4, NothingSent DEF Next
  <2>3. CASE Join
    <3>1. mpc = "join" /\ wpc[idx] = "exited"
      BY <2>3 DEF Join, Joinable
    <3>2. \/ idx < N /\ idx' = idx + 1 /\ mpc' = "join"
          \/ idx = N /\ idx' = 1 /\ mpc' = "flushDone"
      BY <2>3, AdvanceRange DEF Join, TypeOK
    <3>3. idx \in 1..N /\ w \in 1..N /\ N \in Nat
      BY ConstantsAssumption DEF TypeOK, Workers
    <3>4. w <= idx => wpc'[w] = "exited"
      BY <1>1, <2>1, <3>1, <3>3 DEF ThreadInv
    <3>5. mpc' = "join" /\ w < idx' => wpc'[w] = "exited"
      BY <3>2, <3>3, <3>4
    <3>6. mpc' \in {"flushDone", "closed"} => wpc'[w] = "exited"
      BY <3>2, <3>3, <3>4
    <3> QED
      BY <1>1, <2>1, <2>2, <3>5, <3>6 DEF ThreadInv, Ended
  <2>4. CASE ~Join
    <3>1. mpc' # "join" /\ (mpc' \in {"flushDone", "closed"} => mpc = "flushDone")
      <4>1. CASE SpuriousMain
        <5>1. mpc' \in {"await", "frameDone"}
          BY <4>1, AdvanceRange DEF SpuriousMain, TypeOK
        <5> QED
          BY <5>1
      <4>2. CASE ReadFrame \/ WriteFrameDone \/ ReadFlush \/ WriteFlushDone
        BY <4>2 DEF ReadFrame, WriteFrameDone, ReadFlush, WriteFlushDone
      <4> QED
        BY <1>4, <2>4, <4>1, <4>2 DEF Main
    <3> QED
      BY <1>1, <2>1, <2>2, <3>1 DEF ThreadInv, Ended
  <2> QED
    BY <2>3, <2>4
<1> QED
  BY <1>2, <1>3, <1>4

\* A step of a worker keeps ThreadInv: it ends only by the exit entry, and gives
\* the output mutex back first.
LEMMA ThreadWorker ==
  ASSUME TypeOK, IndexReset, QueuesOK, NEW u \in Workers, Worker(u), NEW w \in Workers
  PROVE  ThreadInv(w)'
<1>1. ThreadInv(w) /\ QueueInv(w)
  BY DEF QueuesOK
<1>2. ExitSent(w)' = ExitSent(w)
  BY WorkerSendsNothing
<1>3. u # Free
  BY ConstantsAssumption DEF Workers, Free
<1>4. CASE Complete(u)
  <2>1. mpc = "await" /\ mpc' \in {"await", "frameDone"}
    BY <1>4, AdvanceRange DEF Complete, CompleteMutexFree, TypeOK
  <2>2. queue' = queue /\ mutex' = mutex
    BY <1>4 DEF Complete
  <2>3. wpc'[w] = wpc[w] \/ (wpc[w] = "complete" /\ wpc'[w] = "remove")
    BY <1>4 DEF Complete, TypeOK
  <2> QED
    BY <1>1, <1>2, <2>1, <2>2, <2>3 DEF ThreadInv, Ended
<1>5. CASE ~Complete(u)
  <2>1. mpc' = mpc /\ idx' = idx
    BY <1>5 DEF Worker, WaitForQueue, SpuriousWorker, RemoveNothing, RemoveEntry,
       BeginWrite, EndWrite, ExecuteEnd, FlushEnd, mainVars
  <2>2. CASE w # u
    <3>1. queue'[w] = queue[w] /\ wpc'[w] = wpc[w]
      BY <1>5, <2>2 DEF Worker, WaitForQueue, SpuriousWorker, RemoveNothing,
         RemoveEntry, BeginWrite, EndWrite, ExecuteEnd, FlushEnd, TypeOK
    <3>2. mutex' \in {mutex, u, Free}
      BY <1>5 DEF Worker, WaitForQueue, SpuriousWorker, RemoveNothing,
         RemoveEntry, BeginWrite, EndWrite, ExecuteEnd, FlushEnd
    <3>3. w # Free
      BY ConstantsAssumption DEF Workers, Free
    <3> QED
      BY <1>1, <1>2, <2>1, <2>2, <3>1, <3>2, <3>3 DEF ThreadInv, Ended
  <2>3. CASE w = u
    <3>1. CASE RemoveEntry(u)
      <4>1. /\ wpc[w] = "remove" /\ queue[w] # <<>> /\ mutex' = mutex
            /\ queue'[w] = Tail(queue[w])
            /\ wpc'[w] = IF Head(queue[w]) = Exit THEN "flush" ELSE "execute"
        BY <2>3, <3>1 DEF RemoveEntry, TypeOK
      <4>2. mutex # w
        BY <1>1, <4>1 DEF ThreadInv
      <4>3. ~(mpc = "join" /\ w < idx) /\ mpc \notin {"flushDone", "closed"}
        BY <1>1, <4>1 DEF ThreadInv
      <4>4. CASE Head(queue[w]) = Exit
        <5>1. queue[w] # <<>>
          BY <4>1
        <5>2. /\ Taken(w) \in Nat /\ FramesSent(w) \in Nat /\ ExitQueued(w) \in BOOLEAN
              /\ queue[w] \in Seq(Nat)
              /\ Holds(queue[w], Taken(w), FramesSent(w), ExitQueued(w))
          BY <1>1, Counted DEF QueueInv
        <5>3. ExitQueued(w) = TRUE /\ Tail(queue[w]) = <<>>
          BY <4>4, <5>1, <5>2, HoldsTakeExit, Zenon
        <5>4. ExitSent(w)' /\ queue'[w] = <<>>
          BY <1>2, <4>1, <5>3 DEF ExitQueued
        <5> QED
          BY <2>1, <4>1, <4>2, <4>3, <5>4 DEF ThreadInv, Ended
      <4>5. CASE Head(queue[w]) # Exit
        <5>1. wpc'[w] = "execute"
          BY <4>1, <4>5
        <5> QED
          BY <2>1, <4>1, <4>2, <4>3, <5>1 DEF ThreadInv, Ended
      <4> QED
        BY <4>4, <4>5
    <3>2. CASE ~RemoveEntry(u)
      <4>1. queue'[w] = queue[w]
        BY <1>5, <2>3, <3>2 DEF Worker, WaitForQueue, SpuriousWorker, RemoveNothing,
           BeginWrite, EndWrite, ExecuteEnd, FlushEnd, TypeOK
      <4>2. CASE BeginWrite(u)
        BY <1>1, <1>2, <2>1, <2>3, <4>2 DEF BeginWrite, ThreadInv, Ended
      <4>3. CASE EndWrite(u)
        BY <1>1, <1>2, <1>3, <2>1, <2>3, <4>3 DEF EndWrite, ThreadInv, Ended
      <4>4. CASE ExecuteEnd(u)
        BY <1>1, <1>2, <2>1, <2>3, <4>4 DEF ExecuteEnd, ThreadInv, Ended, TypeOK
      <4>5. CASE FlushEnd(u)
        BY <1>1, <1>2, <2>1, <2>3, <4>5 DEF FlushEnd, ThreadInv, Ended, TypeOK
      <4>6. CASE WaitForQueue(u) \/ SpuriousWorker(u) \/ RemoveNothing(u)
        BY <1>1, <1>2, <2>1, <2>3, <4>6 DEF WaitForQueue, SpuriousWorker, RemoveNothing,
           ThreadInv, Ended, TypeOK
      <4> QED
        BY <1>5, <3>2, <4>2, <4>3, <4>4, <4>5, <4>6 DEF Worker
    <3> QED
      BY <3>1, <3>2
  <2> QED
    BY <2>2, <2>3
<1> QED
  BY <1>4, <1>5

\* Every step keeps ThreadInv.
LEMMA ThreadStep ==
  ASSUME TypeOK, IndexReset, QueuesOK, [Next]_vars, NEW w \in Workers
  PROVE  ThreadInv(w)'
<1>1. CASE UNCHANGED vars
  BY <1>1 DEF vars, QueuesOK, ThreadInv, Ended, ExitSent
<1> QED
  BY <1>1, ThreadMain, ThreadWorker DEF Next
-----------------------------------------------------------------------------
(* The hand-over of sync mode.                                             *)

\* Every step keeps AnswerInv: a reply is written once for each frame.
LEMMA AnswerStep ==
  ASSUME TypeOK, AnswerInv, [Next]_vars
  PROVE  AnswerInv'
<1>0. idx \in Workers /\ frames \in 0..MaxFrames /\ answered \in Nat
  BY DEF TypeOK
<1> USE <1>0 DEF AnswerInv
<1>1. CASE ReadFrame
  BY <1>1, ConstantsAssumption DEF ReadFrame
<1>2. CASE EnqueueFrame
  <2>1. mpc = "enqueue" /\ frames' = frames /\ answered' = answered
    BY <1>2 DEF EnqueueFrame
  <2>2. mpc' \in {"enqueue", AfterEnqueue}
    BY <1>2, AdvanceRange DEF EnqueueFrame
  <2>3. CASE Sync
    BY <2>1, <2>2, <2>3 DEF AfterEnqueue
  <2>4. CASE ~Sync
    BY <2>1, <2>2, <2>4 DEF AfterEnqueue
  <2> QED
    BY <2>3, <2>4
<1>3. ASSUME mpc = "await", mpc' \in {"await", "frameDone"}, UNCHANGED <<frames, answered>>
      PROVE  AnswerInv'
  BY <1>3
<1>4. CASE SpuriousMain
  BY <1>3, <1>4, AdvanceRange DEF SpuriousMain
<1>5. CASE WriteFrameDone
  BY <1>5, ConstantsAssumption DEF WriteFrameDone
<1>6. ASSUME mpc \notin {"enqueue", "await", "frameDone"},
             mpc' \notin {"enqueue", "await", "frameDone"}, UNCHANGED <<frames, answered>>
      PROVE  AnswerInv'
  BY <1>6
<1>7. CASE ReadFlush
  BY <1>6, <1>7 DEF ReadFlush
<1>8. CASE EnqueueExit
  BY <1>6, <1>8, AdvanceRange DEF EnqueueExit
<1>9. CASE Join
  BY <1>6, <1>9, AdvanceRange DEF Join
<1>10. CASE WriteFlushDone
  BY <1>6, <1>10 DEF WriteFlushDone
<1>11. ASSUME NEW u \in Workers, Worker(u) PROVE AnswerInv'
  <2>1. CASE Complete(u)
    BY <1>3, <2>1, AdvanceRange DEF Complete, CompleteMutexFree
  <2>2. CASE ~Complete(u)
    BY <1>11, <2>2 DEF Worker, WaitForQueue, SpuriousWorker, RemoveNothing, RemoveEntry,
       BeginWrite, EndWrite, ExecuteEnd, FlushEnd, mainVars
  <2> QED
    BY <2>1, <2>2
<1>12. CASE UNCHANGED vars
  BY <1>12 DEF vars
<1> QED
  BY <1>1, <1>2, <1>4, <1>5, <1>7, <1>8, <1>9, <1>10, <1>11, <1>12 DEF Next, Main

\* A worker that does not move stays settled if the main thread's loop has
\* not just passed it.
LEMMA SyncBystander ==
  ASSUME NEW w \in Workers, SyncInv(w), UNCHANGED <<queue[w], wpc[w], early>>,
         Sync /\ ~early => (AtRest(w)' => AtRest(w))
  PROVE  SyncInv(w)'
<1>1. CASE Sync /\ ~early
  BY <1>1 DEF SyncInv, Backlog, Busy, Settled
<1>2. CASE ~(Sync /\ ~early)
  BY <1>2 DEF SyncInv
<1> QED
  BY <1>1, <1>2

\* The worker the loop hands an entry was settled and now has that entry.
LEMMA SyncAdd ==
  ASSUME TypeOK, NEW w \in Workers, SyncInv(w), NEW item \in 0..MaxFrames,
         AddToQueue(w, item), early' = early, AtRest(w), ~AtRest(w)'
  PROVE  SyncInv(w)'
<1>1. CASE Sync /\ ~early
  <2>1. queue[w] = <<>> /\ wpc[w] \in {"wait", "asleep", "remove"}
    BY <1>1 DEF SyncInv, Settled
  <2>2. queue'[w] = <<item>>
    BY <2>1 DEF AddToQueue, TypeOK
  <2>3. wpc'[w] = wpc[w] \/ (wpc[w] = "asleep" /\ wpc'[w] = "remove")
    BY AddWakes
  <2>4. Len(queue'[w]) = 1
    BY <2>2
  <2>5. ~Busy(w)'
    BY <2>1, <2>3 DEF Busy
  <2> QED
    BY <2>4, <2>5 DEF SyncInv, Backlog
<1>2. CASE ~(Sync /\ ~early)
  BY <1>2 DEF SyncInv
<1> QED
  BY <1>1, <1>2

\* A step of the main thread keeps SyncInv: it sends only to settled workers.
LEMMA SyncMain ==
  ASSUME TypeOK, IndexReset, AnswerInv, NEW w \in Workers, SyncInv(w), Main
  PROVE  SyncInv(w)'
<1>1. w \in 1..N /\ idx \in 1..N /\ N \in Nat
  BY ConstantsAssumption DEF TypeOK, Workers
<1>2. CASE EnqueueFrame
  <2>1. /\ mpc = "enqueue" /\ AddToQueue(idx, frames) /\ frames \in 0..MaxFrames
        /\ early' = early
    BY <1>2 DEF EnqueueFrame, TypeOK
  <2>2. \/ idx < N /\ idx' = idx + 1 /\ mpc' = "enqueue"
        \/ idx = N /\ idx' = 1 /\ mpc' = AfterEnqueue
    BY <1>2, AdvanceRange DEF EnqueueFrame, TypeOK
  <2>3. CASE ~Sync
    BY <2>3 DEF SyncInv
  <2>4. CASE Sync /\ w = idx
    BY <1>1, <2>1, <2>2, <2>4, SyncAdd DEF AtRest, AfterEnqueue
  <2>5. CASE Sync /\ w # idx
    <3>1. UNCHANGED <<queue[w], wpc[w], early>>
      BY <2>1, <2>5 DEF AddToQueue, TypeOK
    <3>2. AtRest(w)' => AtRest(w)
      BY <1>1, <2>1, <2>2, <2>5 DEF AtRest, AfterEnqueue
    <3> QED
      BY <3>1, <3>2, SyncBystander
  <2> QED
    BY <2>3, <2>4, <2>5, ConstantsAssumption
<1>3. CASE EnqueueExit
  <2>1. /\ mpc = "enqueueExit" /\ AddToQueue(idx, Exit) /\ Exit \in 0..MaxFrames
        /\ early' = early
    BY <1>3, ConstantsAssumption DEF EnqueueExit, Exit
  <2>2. \/ idx < N /\ idx' = idx + 1 /\ mpc' = "enqueueExit"
        \/ idx = N /\ idx' = 1 /\ mpc' = "join"
    BY <1>3, AdvanceRange DEF EnqueueExit, TypeOK
  <2>3. CASE w = idx
    BY <1>1, <2>1, <2>2, <2>3, SyncAdd DEF AtRest
  <2>4. CASE w # idx
    <3>1. UNCHANGED <<queue[w], wpc[w], early>>
      BY <2>1, <2>4 DEF AddToQueue, TypeOK
    <3>2. AtRest(w)' => AtRest(w)
      BY <1>1, <2>1, <2>2, <2>4 DEF AtRest
    <3> QED
      BY <3>1, <3>2, SyncBystander
  <2> QED
    BY <2>3, <2>4
<1>4. CASE SpuriousMain
  BY <1>4 DEF SpuriousMain, SyncInv
<1>5. CASE Join
  <2>1. mpc' \in {"join", "flushDone"}
    BY <1>5, AdvanceRange DEF Join, TypeOK
  <2> QED
    BY <1>5, <2>1, SyncBystander DEF Join, AtRest, workerVars
<1>6. CASE ReadFrame \/ WriteFrameDone \/ ReadFlush \/ WriteFlushDone
  BY <1>6, SyncBystander DEF ReadFrame, WriteFrameDone, ReadFlush, WriteFlushDone,
     AtRest, workerVars
<1> QED
  BY <1>2, <1>3, <1>4, <1>5, <1>6 DEF Main

\* A step of a worker keeps SyncInv: `complete` is signalled by a settled worker.
LEMMA SyncWorker ==
  ASSUME TypeOK, NEW w \in Workers, SyncInv(w), NEW u \in Workers, Worker(u)
  PROVE  SyncInv(w)'
<1>1. w \in 1..N /\ idx \in 1..N /\ N \in Nat
  BY ConstantsAssumption DEF TypeOK, Workers
<1>2. CASE Complete(u)
  <2>1. mpc = "await" /\ idx = u /\ wpc[u] = "complete"
    BY <1>2 DEF Complete, CompleteMutexFree
  <2>2. \/ idx < N /\ idx' = idx + 1 /\ mpc' = "await"
        \/ idx = N /\ idx' = 1 /\ mpc' = "frameDone"
    BY <1>2, AdvanceRange DEF Complete, TypeOK
  <2>3. CASE w = u
    <3>1. queue'[w] = queue[w] /\ wpc'[w] = "remove" /\ early' = early
      BY <1>2, <2>3 DEF Complete, TypeOK
    <3> QED
      BY <2>1, <2>3, <3>1 DEF SyncInv, Backlog, Busy, Settled
  <2>4. CASE w # u
    <3>1. UNCHANGED <<queue[w], wpc[w], early>>
      BY <1>2, <2>4 DEF Complete, TypeOK
    <3>2. AtRest(w)' => AtRest(w)
      BY <1>1, <2>1, <2>2, <2>4 DEF AtRest
    <3> QED
      BY <3>1, <3>2, SyncBystander
  <2> QED
    BY <2>3, <2>4
<1>3. CASE ~Complete(u)
  <2>1. mpc' = mpc /\ idx' = idx /\ early' = early
    BY <1>3 DEF Worker, WaitForQueue, SpuriousWorker, RemoveNothing, RemoveEntry,
       BeginWrite, EndWrite, ExecuteEnd, FlushEnd, mainVars
  <2>2. AtRest(w)' = AtRest(w)
    BY <2>1 DEF AtRest
  <2>3. CASE w # u
    <3>1. UNCHANGED <<queue[w], wpc[w], early>>
      BY <1>3, <2>3 DEF Worker, WaitForQueue, SpuriousWorker, RemoveNothing, RemoveEntry,
         BeginWrite, EndWrite, ExecuteEnd, FlushEnd, mainVars, TypeOK
    <3> QED
      BY <2>2, <3>1, SyncBystander
  <2>4. CASE w = u /\ RemoveEntry(u)
    <3>1. /\ queue[w] \in Seq(0..MaxFrames) /\ queue[w] # <<>>
          /\ queue'[w] = Tail(queue[w])
      BY <2>4 DEF RemoveEntry, TypeOK
    <3>2. Len(queue[w]) <= 1 => queue'[w] = <<>>
      BY <3>1
    <3> QED
      BY <2>1, <2>2, <3>1, <3>2 DEF SyncInv, Backlog, Settled
  <2>5. CASE w = u /\ ~RemoveEntry(u)
    <3>1. queue'[w] = queue[w]
      BY <1>3, <2>5 DEF Worker, WaitForQueue, SpuriousWorker, RemoveNothing,
         BeginWrite, EndWrite, ExecuteEnd, FlushEnd
    <3>2. \/ wpc'[w] = wpc[w]
          \/ wpc[w] \in {"wait", "asleep", "remove"} /\ wpc'[w] \in {"wait", "asleep", "remove"}
          \/ Busy(w) /\ wpc'[w] \in {"complete", "remove", "exited"}
      BY <1>3, <2>5 DEF Worker, WaitForQueue, SpuriousWorker, RemoveNothing,
         BeginWrite, EndWrite, ExecuteEnd, FlushEnd, TypeOK, Busy
    <3> QED
      BY <2>1, <2>2, <3>1, <3>2 DEF SyncInv, Backlog, Busy, Settled
  <2> QED
    BY <2>3, <2>4, <2>5
<1> QED
  BY <1>2, <1>3

\* Every step keeps SyncInv.
LEMMA SyncStep ==
  ASSUME TypeOK, IndexReset, AnswerInv, NEW w \in Workers, SyncInv(w), [Next]_vars
  PROVE  SyncInv(w)'
<1>1. CASE UNCHANGED vars
  BY <1>1, SyncBystander DEF vars, AtRest
<1> QED
  BY <1>1, SyncMain, SyncWorker DEF Next
-----------------------------------------------------------------------------
(* The theorems.                                                           *)

\* The inductive invariant holds once initialise() has run.
LEMMA InitInvariant == Init => IndInv
<1> SUFFICES ASSUME Init PROVE IndInv
  OBVIOUS
<1> USE ConstantsAssumption
<1>1. TypeOK
  BY InitType
<1>2. IndexReset /\ AnswerInv
  BY DEF Init, IndexReset, AnswerInv
<1>3. ASSUME NEW w \in Workers PROVE QueueInv(w) /\ ThreadInv(w) /\ SyncInv(w)
  <2>1. queue[w] = <<>> /\ wpc[w] = "wait" /\ delivered[w] = 0 /\ mutex # w
    BY DEF Init, Workers, Free
  <2>2. Taken(w) = 0 /\ FramesSent(w) = 0 /\ ~ExitQueued(w) /\ ~Ended(w)
    BY <2>1 DEF Init, Taken, FramesSent, ExitQueued, ExitSent, Ended
  <2>3. QueueInv(w)
    BY <2>1, <2>2 DEF QueueInv, Holds
  <2>4. ThreadInv(w)
    BY <2>1, <2>2 DEF ThreadInv, Init
  <2>5. SyncInv(w)
    BY <2>1 DEF SyncInv, Backlog, Busy, Settled
  <2> QED
    BY <2>3, <2>4, <2>5
<1> QED
  BY <1>1, <1>2, <1>3 DEF IndInv

\* The inductive invariant is kept by every step.
LEMMA NextInvariant == IndInv /\ [Next]_vars => IndInv'
<1> SUFFICES ASSUME IndInv, [Next]_vars PROVE IndInv'
  OBVIOUS
<1>1. TypeOK /\ IndexReset /\ AnswerInv /\ QueuesOK
  BY DEF IndInv, QueuesOK
<1>2. TypeOK'
  BY <1>1, NextType
<1>3. IndexReset' /\ AnswerInv'
  BY <1>1, IndexStep, AnswerStep
<1>4. ASSUME NEW w \in Workers PROVE QueueInv(w)' /\ ThreadInv(w)' /\ SyncInv(w)'
  <2>1. SyncInv(w)
    BY DEF IndInv
  <2> QED
    BY <1>1, <2>1, QueueStep, ThreadStep, SyncStep
<1>5. (\A w \in Workers : QueueInv(w) /\ ThreadInv(w) /\ SyncInv(w))'
  BY <1>4 DEF Workers
<1> QED
  BY <1>2, <1>3, <1>5 DEF IndInv

\* The inductive invariant holds in every reachable state: each queue holds
\* exactly what was sent to it and not yet taken, in order.
THEOREM Invariant == Spec => []IndInv
<1> QED
  BY InitInvariant, NextInvariant, PTL DEF Spec

\* What QueueInv says of a worker that has nothing left in its queue.
LEMMA NothingQueued ==
  ASSUME IndInv, NEW w \in Workers, queue[w] = <<>>
  PROVE  Taken(w) = FramesSent(w)
<1>1. TypeOK /\ IndexReset /\ QueueInv(w)
  BY DEF IndInv
<1>2. Taken(w) \in Nat /\ FramesSent(w) \in Nat
  BY <1>1, Counted
<1>3. Holds(<<>>, Taken(w), FramesSent(w), ExitQueued(w))
  BY <1>1 DEF QueueInv
<1>4. FramesSent(w) - Taken(w) \in Nat
      /\ (ExitQueued(w) => 0 = FramesSent(w) - Taken(w) + 1)
      /\ (~ExitQueued(w) => 0 = FramesSent(w) - Taken(w) + 0)
  BY <1>3 DEF Holds
<1> QED
  BY <1>2, <1>4

\* A worker that ended has executed every frame and left nothing in its queue.
LEMMA EndedDrained ==
  ASSUME IndInv, NEW w \in Workers, Ended(w)
  PROVE  ExitSent(w) /\ queue[w] = <<>> /\ delivered[w] = frames
<1>1. TypeOK /\ ThreadInv(w) /\ QueueInv(w)
  BY DEF IndInv
<1>2. ExitSent(w) /\ queue[w] = <<>>
  BY <1>1 DEF ThreadInv
<1>3. Taken(w) = FramesSent(w)
  BY <1>2, NothingQueued
<1>4. FramesSent(w) = frames
  BY <1>2, FramesSentAfter DEF ExitSent
<1>5. Taken(w) = delivered[w]
  <2>1. wpc[w] # "execute"
    BY DEF Ended
  <2>2. Taken(w) = delivered[w] + 0
    BY <2>1 DEF Taken
  <2>3. delivered[w] \in Int
    BY <1>1, ConstantsAssumption DEF TypeOK
  <2> QED
    BY <2>2, <2>3
<1> QED
  BY <1>2, <1>3, <1>4, <1>5

\* A worker that has been joined has drained its queue.
LEMMA InvariantDrains == IndInv => FlushDrains
<1> SUFFICES ASSUME IndInv, mpc \in {"flushDone", "closed"}, NEW w \in Workers
             PROVE  delivered[w] = frames /\ queue[w] = <<>>
  BY DEF FlushDrains
<1>1. Ended(w)
  BY DEF IndInv, ThreadInv, Ended
<1> QED
  BY <1>1, EndedDrained

\* When flush() is about to report, and ever after, every branch has executed
\* every frame of the host and its queue is empty (flush 147-162, main 54-59).
THEOREM FlushDrainsCorrect == Spec => []FlushDrains
<1> QED
  BY InvariantDrains, Invariant, PTL

\* No reply is written while a worker writes a packet, although write_done takes
\* no mutex; a "frame_done" as long as no wait of process() has ended early.
THEOREM PortExclusiveCorrect == Spec => []PortExclusive
<1>1. IndInv => PortExclusive
  <2> SUFFICES ASSUME IndInv, mpc = "flushDone" \/ (mpc = "frameDone" /\ ~early), mutex # Free
               PROVE  FALSE
    BY DEF PortExclusive
  <2>1. mutex \in Workers
    BY DEF IndInv, TypeOK
  <2>2. wpc[mutex] \in {"execute", "flush"}
    BY <2>1 DEF IndInv, ThreadInv
  <2>3. CASE mpc = "flushDone"
    <3>1. wpc[mutex] = "exited"
      BY <2>1, <2>3 DEF IndInv, ThreadInv
    <3> QED
      BY <2>2, <3>1
  <2>4. CASE mpc = "frameDone" /\ ~early
    <3>1. Sync
      BY <2>4 DEF IndInv, AnswerInv
    <3>2. Settled(mutex)
      BY <2>1, <2>4, <3>1 DEF IndInv, SyncInv, AtRest
    <3> QED
      BY <2>2, <3>2 DEF Settled
  <2> QED
    BY <2>3, <2>4
<1> QED
  BY <1>1, Invariant, PTL

\* In sync mode, until a wait ends early, a worker never has more than the one
\* entry the main thread is waiting for.
THEOREM SyncBacklogCorrect == Spec => []SyncBacklog
<1>1. IndInv => SyncBacklog
  BY DEF IndInv, SyncInv, SyncBacklog
<1> QED
  BY <1>1, Invariant, PTL

\* A worker that executes has just emptied its queue, so its frame is the last.
LEMMA InvariantWithinProcess == IndInv => WithinProcess
<1>1. ASSUME IndInv, Sync, ~early, NEW w \in Workers
      PROVE  /\ wpc[w] = "execute" => mpc \in {"enqueue", "await"} /\ held[w] = frames
             /\ mpc = "idle" => delivered[w] = frames
  <2>1. /\ TypeOK /\ IndexReset
        /\ QueueInv(w)
        /\ ThreadInv(w)
        /\ Backlog(w)
        /\ AtRest(w) => Settled(w)
    BY <1>1 DEF IndInv, SyncInv
  <2>2. Taken(w) \in Nat /\ FramesSent(w) \in Nat
    BY <2>1, Counted
  <2>3. ASSUME queue[w] = <<>> PROVE Taken(w) = FramesSent(w) /\ ~ExitQueued(w)
    <3>1. Len(queue[w]) = 0
      BY <2>3
    <3>2. /\ FramesSent(w) - Taken(w) \in Nat
          /\ Len(queue[w]) = FramesSent(w) - Taken(w) + (IF ExitQueued(w) THEN 1 ELSE 0)
      BY <2>1 DEF QueueInv, Holds
    <3>3. CASE ExitQueued(w)
      <4>1. Len(queue[w]) = FramesSent(w) - Taken(w) + 1
        BY <3>2, <3>3
      <4> QED
        BY <2>2, <3>1, <3>2, <4>1
    <3>4. CASE ~ExitQueued(w)
      <4>1. Len(queue[w]) = FramesSent(w) - Taken(w) + 0
        BY <3>2, <3>4
      <4> QED
        BY <2>2, <3>1, <3>2, <3>4, <4>1
    <3> QED
      BY <3>3, <3>4
  <2>4. delivered[w] \in Nat /\ frames \in Nat /\ idx \in Nat /\ w \in Nat
    BY <2>1, ConstantsAssumption DEF TypeOK, Workers
  <2>5. CASE wpc[w] = "execute"
    <3>1. queue[w] = <<>> /\ ~Settled(w) /\ ~Ended(w)
      BY <2>1, <2>5 DEF Backlog, Busy, Settled, Ended
    <3>2. ~AtRest(w) /\ ~ExitSent(w) /\ Taken(w) = FramesSent(w)
      BY <2>1, <2>3, <3>1 DEF ExitQueued
    <3>3. mpc \in {"enqueue", "await"} /\ (mpc = "enqueue" => ~(idx <= w))
      BY <2>1, <2>4, <3>2 DEF AtRest, ExitSent, TypeOK, MainPC
    <3>4. FramesSent(w) = frames
      BY <3>3 DEF FramesSent
    <3>5. held[w] = Taken(w)
      BY <2>1, <2>5 DEF QueueInv, Taken
    <3> QED
      BY <2>5, <3>2, <3>3, <3>4, <3>5
  <2>6. CASE wpc[w] # "execute" /\ mpc = "idle"
    <3>1. Settled(w) /\ Taken(w) = delivered[w] + 0 /\ FramesSent(w) = frames
      BY <2>1, <2>6 DEF AtRest, Taken, FramesSent
    <3> QED
      BY <2>3, <2>4, <2>6, <3>1 DEF Settled
  <2> QED
    BY <2>5, <2>6
<1> QED
  BY <1>1 DEF WithinProcess

\* In sync mode, until a wait ends early, what a worker executes is the frame
\* process() is about: the info it was lent with is not freed under it.
THEOREM WithinProcessCorrect == Spec => []WithinProcess
<1> QED
  BY InvariantWithinProcess, Invariant, PTL

\* What one step does to the count of frames a branch has executed.
LEMMA DeliverStep ==
  ASSUME IndInv, Next, NEW w \in Workers
  PROVE  \/ delivered'[w] = delivered[w]
         \/ ExecuteEnd(w) /\ delivered' = [delivered EXCEPT ![w] = @ + 1]
            /\ delivered[w] < frames
<1>1. TypeOK /\ IndexReset /\ QueueInv(w)
  BY DEF IndInv
<1>2. CASE Main
  BY <1>2 DEF Main, ReadFrame, EnqueueFrame, SpuriousMain, WriteFrameDone, ReadFlush,
              EnqueueExit, Join, WriteFlushDone, workerVars
<1>3. ASSUME NEW u \in Workers, Worker(u), ~ExecuteEnd(u) PROVE delivered'[w] = delivered[w]
  BY <1>3 DEF Worker, WaitForQueue, SpuriousWorker, RemoveNothing, RemoveEntry, BeginWrite,
              EndWrite, Complete, FlushEnd
<1>4. ASSUME NEW u \in Workers, ExecuteEnd(u), u # w PROVE delivered'[w] = delivered[w]
  BY <1>1, <1>4 DEF ExecuteEnd, TypeOK
<1>5. CASE ExecuteEnd(w)
  <2>1. wpc[w] = "execute" /\ delivered' = [delivered EXCEPT ![w] = held[w]]
    BY <1>5 DEF ExecuteEnd
  <2>2. held[w] = delivered[w] + 1
    BY <1>1, <2>1 DEF QueueInv
  <2>3. Taken(w) = delivered[w] + 1
    BY <2>1 DEF Taken
  <2>4. Taken(w) \in Nat /\ FramesSent(w) \in Nat /\ FramesSent(w) - Taken(w) \in Nat
    BY <1>1, Counted DEF QueueInv, Holds
  <2>5. FramesSent(w) \in {frames - 1, frames}
    BY FramesSentBefore, FramesSentAfter
  <2>6. delivered[w] \in Nat /\ frames \in Nat
    BY <1>1, ConstantsAssumption DEF TypeOK
  <2>7. delivered[w] + 1 <= FramesSent(w)
    BY <2>3, <2>4, <2>6
  <2>8. delivered[w] < frames
    BY <2>4, <2>5, <2>6, <2>7
  <2> QED
    BY <1>5, <2>1, <2>2, <2>8
<1> QED
  BY <1>2, <1>3, <1>4, <1>5 DEF Next

\* Every branch executes the frames in the order of the host's commands, each
\* once, in every schedule and with spurious wakeups too.
THEOREM InOrderCorrect == Spec => InOrder
<1>1. IndInv /\ [Next]_vars => [\A w \in Workers : delivered'[w] \in {delivered[w], delivered[w] + 1}]_vars
  <2> SUFFICES ASSUME IndInv, Next, NEW w \in Workers
               PROVE  delivered'[w] \in {delivered[w], delivered[w] + 1}
    OBVIOUS
  <2>1. CASE delivered' = [delivered EXCEPT ![w] = @ + 1]
    BY <2>1 DEF IndInv, TypeOK
  <2> QED
    BY <2>1, DeliverStep
<1> QED
  BY <1>1, Invariant, PTL DEF Spec, InOrder

-----------------------------------------------------------------------------
(* The filter implements the contract of FanOut.                           *)

\* The initial state maps to FanOut's.
LEMMA ContractInit == Init => Contract!Init
<1> SUFFICES ASSUME Init PROVE Contract!Init
  OBVIOUS
<1>1. mpc = "idle" /\ frames = 0 /\ answered = 0 /\ delivered = [w \in Workers |-> 0]
  BY DEF Init
<1>2. [w \in Workers |-> wpc[w] = "exited"] = [w \in Workers |-> FALSE]
  BY DEF Init
<1>3. (mpc \in {"enqueueExit", "join", "flushDone", "closed"}) = FALSE
      /\ (mpc = "closed") = FALSE
  BY <1>1
<1>4. N \in Nat \ {0} /\ Sync \in BOOLEAN
  BY ConstantsAssumption
<1> QED
  BY <1>1, <1>2, <1>3, <1>4 DEF Contract!Init, Contract!Branches, Workers

\* Every step of the main thread is a step of the contract or changes
\* nothing the contract sees.
LEMMA ContractMain ==
  ASSUME IndInv, Main, ~early
  PROVE  [Contract!Next]_Contract!vars
<1> USE DEF Contract!Branches, Contract!vars
<1>1. TypeOK /\ AnswerInv
  BY DEF IndInv
<1>2. delivered' = delivered
  BY DEF Main, ReadFrame, EnqueueFrame, SpuriousMain, WriteFrameDone, ReadFlush,
         EnqueueExit, Join, WriteFlushDone, workerVars
<1>3. [w \in Workers |-> wpc'[w] = "exited"] = [w \in Workers |-> wpc[w] = "exited"]
  <2>1. ASSUME NEW w \in Workers PROVE (wpc'[w] = "exited") = (wpc[w] = "exited")
    <3>1. CASE EnqueueFrame \/ EnqueueExit
      <4>1. wpc'[w] = wpc[w] \/ (wpc[w] = "asleep" /\ wpc'[w] = "remove")
        BY <1>1, <3>1, AddWakes, ConstantsAssumption DEF EnqueueFrame, EnqueueExit, TypeOK
      <4> QED
        BY <4>1
    <3>2. CASE ~(EnqueueFrame \/ EnqueueExit)
      BY <3>2 DEF Main, ReadFrame, SpuriousMain, WriteFrameDone, ReadFlush, Join,
                  WriteFlushDone, workerVars
    <3> QED
      BY <3>1, <3>2
  <2> QED
    BY <2>1
<1>4. CASE ReadFrame
  <2>1. Contract!Submit
    BY <1>1, <1>2, <1>3, <1>4 DEF ReadFrame, Contract!Submit, Contract!Ready, AnswerInv
  <2> QED
    BY <2>1 DEF Contract!Next
<1>5. CASE EnqueueFrame
  <2>1. mpc = "enqueue" /\ UNCHANGED <<frames, answered>>
    BY <1>5 DEF EnqueueFrame
  <2>2. mpc' \in {"enqueue", "await", "idle"}
    <3>1. mpc' \in {"enqueue", AfterEnqueue}
      BY <1>1, <1>5, AdvanceRange DEF EnqueueFrame, TypeOK
    <3> QED
      BY <3>1 DEF AfterEnqueue
  <2> QED
    BY <1>2, <1>3, <2>1, <2>2
<1>6. CASE SpuriousMain
  <2>1. mpc = "await" /\ mpc' \in {"await", "frameDone"} /\ UNCHANGED <<frames, answered>>
    BY <1>1, <1>6, AdvanceRange DEF SpuriousMain, TypeOK
  <2> QED
    BY <1>2, <1>3, <2>1
<1>7. CASE WriteFrameDone
  <2>1. Sync /\ mpc = "frameDone" /\ mpc' = "idle" /\ answered = frames - 1
    BY <1>1, <1>7 DEF WriteFrameDone, AnswerInv
  <2>2. ASSUME NEW w \in Workers PROVE delivered[w] = frames
    <3>1. Settled(w)
      BY <2>1 DEF IndInv, SyncInv, AtRest
    <3>2. Taken(w) = FramesSent(w)
      BY <3>1, NothingQueued DEF Settled
    <3>3. FramesSent(w) = frames
      BY <2>1, FramesSentAfter
    <3>4. Taken(w) = delivered[w] + 0
      BY <3>1 DEF Taken, Settled
    <3> QED
      BY <1>1, <3>2, <3>3, <3>4, ConstantsAssumption DEF TypeOK
  <2>3. answered < frames
    BY <1>1, <2>1, ConstantsAssumption DEF TypeOK
  <2>4. Contract!Answer
    BY <1>2, <1>3, <1>7, <2>1, <2>2, <2>3 DEF WriteFrameDone, Contract!Answer, Workers
  <2> QED
    BY <2>4 DEF Contract!Next
<1>8. CASE ReadFlush
  <2>1. Contract!Flush
    BY <1>1, <1>2, <1>3, <1>8 DEF ReadFlush, Contract!Flush, Contract!Ready, AnswerInv
  <2> QED
    BY <2>1 DEF Contract!Next
<1>9. CASE EnqueueExit \/ Join
  <2>1. /\ mpc \in {"enqueueExit", "join"} /\ mpc' \in {"enqueueExit", "join", "flushDone"}
        /\ UNCHANGED <<frames, answered>>
    BY <1>1, <1>9, AdvanceRange DEF EnqueueExit, Join, TypeOK
  <2> QED
    BY <1>2, <1>3, <2>1
<1>10. CASE WriteFlushDone
  <2>1. \A w \in Workers : wpc[w] = "exited"
    BY <1>10 DEF WriteFlushDone, IndInv, ThreadInv
  <2>2. mpc = "flushDone" /\ mpc' = "closed" /\ UNCHANGED <<frames, answered>>
    BY <1>10 DEF WriteFlushDone
  <2>3. (mpc' = "closed") = TRUE /\ (mpc = "closed") = FALSE
    BY <2>2
  <2>4. (mpc' \in {"enqueueExit", "join", "flushDone", "closed"})
         = (mpc \in {"enqueueExit", "join", "flushDone", "closed"})
    BY <2>2
  <2>5. Contract!Close
    BY <1>2, <1>3, <2>1, <2>2, <2>3, <2>4 DEF Contract!Close, Workers
  <2> QED
    BY <2>5 DEF Contract!Next
<1> QED
  BY <1>4, <1>5, <1>6, <1>7, <1>8, <1>9, <1>10 DEF Main

\* A step of a worker is a Deliver, a FlushBranch or nothing in FanOut.
LEMMA ContractWorker ==
  ASSUME IndInv, NEW w \in Workers, Worker(w)
  PROVE  [Contract!Next]_Contract!vars
<1> USE DEF Contract!Branches, Contract!vars
<1>1. TypeOK
  BY DEF IndInv
<1>2. CASE Complete(w)
  <2>1. mpc = "await" /\ mpc' \in {"await", "frameDone"} /\ UNCHANGED <<frames, answered, delivered>>
    BY <1>1, <1>2, AdvanceRange DEF Complete, CompleteMutexFree, TypeOK
  <2>2. [u \in Workers |-> wpc'[u] = "exited"] = [u \in Workers |-> wpc[u] = "exited"]
    BY <1>1, <1>2 DEF Complete, TypeOK
  <2> QED
    BY <2>1, <2>2
<1>3. CASE ExecuteEnd(w)
  <2>1. UNCHANGED <<mpc, frames, answered>>
    BY <1>3 DEF ExecuteEnd, mainVars
  <2>2. [u \in Workers |-> wpc'[u] = "exited"] = [u \in Workers |-> wpc[u] = "exited"]
    BY <1>1, <1>3 DEF ExecuteEnd, TypeOK
  <2>3. delivered'[w] = delivered[w] \/ Contract!Deliver(w)
    BY <1>3, <2>1, <2>2, DeliverStep DEF Next, Worker, Contract!Deliver
  <2>4. delivered'[w] = delivered[w] => delivered' = delivered
    BY <1>1, <1>3 DEF ExecuteEnd, TypeOK
  <2> QED
    BY <2>1, <2>2, <2>3, <2>4 DEF Contract!Next, Workers
<1>4. CASE FlushEnd(w)
  <2>1. UNCHANGED <<mpc, frames, answered, delivered>> /\ wpc[w] = "flush"
    BY <1>4 DEF FlushEnd, mainVars
  <2>2. [u \in Workers |-> wpc'[u] = "exited"]
         = [[u \in Workers |-> wpc[u] = "exited"] EXCEPT ![w] = TRUE]
    BY <1>1, <1>4 DEF FlushEnd, TypeOK
  <2>3. ExitSent(w) /\ delivered[w] = frames
    BY <2>1, EndedDrained DEF Ended
  <2>4. mpc \in {"enqueueExit", "join", "flushDone", "closed"}
    BY <2>3 DEF ExitSent
  <2>5. Contract!FlushBranch(w)
    BY <2>1, <2>2, <2>3, <2>4 DEF Contract!FlushBranch
  <2> QED
    BY <2>5 DEF Contract!Next, Workers
<1>5. ASSUME ~Complete(w), ~ExecuteEnd(w), ~FlushEnd(w) PROVE UNCHANGED Contract!vars
  <2>1. UNCHANGED <<mpc, frames, answered, delivered>>
    BY <1>5 DEF Worker, WaitForQueue, SpuriousWorker, RemoveNothing, RemoveEntry, BeginWrite,
                EndWrite, mainVars
  <2>2. [u \in Workers |-> wpc'[u] = "exited"] = [u \in Workers |-> wpc[u] = "exited"]
    BY <1>1, <1>5 DEF Worker, WaitForQueue, SpuriousWorker, RemoveNothing, RemoveEntry,
                BeginWrite, EndWrite, TypeOK
  <2> QED
    BY <2>1, <2>2
<1> QED
  BY <1>2, <1>3, <1>4, <1>5

\* async_parallel does what FanOut promises until a wait of process() ends
\* early: exactly-once delivery in order, and replies that tell the truth.
THEOREM Implements == Spec => KeepsContract
<1>1. IndInv /\ [Next]_vars => [~early => Contract!Next]_(Contract!vars)
  <2> SUFFICES ASSUME IndInv, [Next]_vars, ~early PROVE [Contract!Next]_Contract!vars
    OBVIOUS
  <2>1. CASE UNCHANGED vars
    BY <2>1 DEF vars, Contract!vars
  <2> QED
    BY <2>1, ContractMain, ContractWorker DEF Next
<1> QED
  BY <1>1, ContractInit, Invariant, PTL DEF Spec, KeepsContract

-----------------------------------------------------------------------------
(* What remains of AnsweredUnlessHung without fairness: in no state of a   *)
(* command under way does everybody wait for everybody.                    *)

\* The frames worker w has reported through `complete`, and those process() has
\* stopped waiting for it about.
Reported(w) == delivered[w] - (IF wpc[w] = "complete" THEN 1 ELSE 0)
WaitedFor(w) ==
  IF mpc = "enqueue" \/ (mpc = "await" /\ idx <= w) THEN frames - 1 ELSE frames

\* A worker never has reported more than it was waited for, as a report is taken
\* only by such a wait: the wait for the current frame can still be ended.
ReportInv(w) == Sync => Reported(w) <= WaitedFor(w)

\* Only in sync mode does a worker report.
ReportsInSync(w) == wpc[w] = "complete" => Sync

\* The guards of the main thread's and of a worker's own next step, but for the
\* host's commands, early wakeups and the start of a write: what is fair can happen.
MainRuns ==
  \/ mpc \in {"enqueue", "frameDone", "enqueueExit", "flushDone"}
  \/ mpc = "join" /\ Joinable(idx)
WorkerRuns(w) ==
  \/ wpc[w] \in {"wait", "remove", "execute", "flush"}
  \/ wpc[w] = "complete" /\ CompleteMutexFree(w)

\* A command that is not answered yet has a thread that runs, or a worker that
\* sleeps over its queue or was overtaken by the flush.
HangsOnlySo ==
  mpc \notin {"idle", "closed"} =>
    MainRuns \/ \E w \in Workers : WorkerRuns(w) \/ Stranded(w) \/ Overtaken(w)

\* What a worker reported is a number, and what it was waited for is the current
\* frame or the one before.
ReportRange(w) ==
  /\ frames \in Nat /\ idx \in Nat /\ w \in Nat /\ N \in Nat /\ idx <= N /\ w <= N
  /\ 1 <= idx /\ 1 <= w /\ delivered[w] \in Nat
  /\ Reported(w) \in Int /\ WaitedFor(w) \in Int
  /\ frames - 1 <= WaitedFor(w) /\ WaitedFor(w) <= frames

LEMMA ReportedInt == TypeOK => \A w \in Workers : ReportRange(w)
<1> SUFFICES ASSUME TypeOK, NEW w \in Workers PROVE ReportRange(w)
  OBVIOUS
<1>1. /\ frames \in Nat /\ idx \in Nat /\ w \in Nat /\ N \in Nat /\ idx <= N /\ w <= N
      /\ 1 <= idx /\ 1 <= w /\ delivered[w] \in Nat
  BY ConstantsAssumption DEF TypeOK, Workers
<1>2. Reported(w) \in {delivered[w] - 1, delivered[w] - 0}
  BY DEF Reported
<1>3. WaitedFor(w) \in {frames - 1, frames}
  BY DEF WaitedFor
<1> QED
  BY <1>1, <1>2, <1>3 DEF ReportRange

\* The same after a step.
LEMMA ReportedIntNext == (TypeOK => \A w \in Workers : ReportRange(w))'
  BY ReportedInt, PTL

\* A step that leaves what w reported and lets the main thread wait for no less.
LEMMA ReportKept ==
  ASSUME TypeOK, TypeOK', NEW w \in Workers, ReportInv(w),
         Reported(w)' = Reported(w), WaitedFor(w) <= WaitedFor(w)'
  PROVE  ReportInv(w)'
  BY ReportedInt, ReportedIntNext DEF ReportInv, ReportRange, Workers

\* A step of the main thread keeps the reports within the waits.
LEMMA ReportMain ==
  ASSUME IndInv, IndInv', Main, NEW w \in Workers, ReportInv(w), ReportsInSync(w)
  PROVE  ReportInv(w)' /\ ReportsInSync(w)'
<1>1. TypeOK /\ TypeOK' /\ AnswerInv
  BY DEF IndInv
<1>2. UNCHANGED delivered /\ (wpc'[w] = "complete" <=> wpc[w] = "complete")
  <2>1. ASSUME NEW item, AddToQueue(idx, item) PROVE wpc'[w] = "complete" <=> wpc[w] = "complete"
    BY <1>1, <2>1 DEF AddToQueue, Signalled, TypeOK
  <2> QED
    BY <2>1 DEF Main, ReadFrame, EnqueueFrame, SpuriousMain, WriteFrameDone, ReadFlush,
                EnqueueExit, Join, WriteFlushDone, workerVars
<1>3. Reported(w)' = Reported(w)
  BY <1>2 DEF Reported
<1>4. ASSUME Sync PROVE WaitedFor(w) <= WaitedFor(w)'
  <2>1. /\ frames \in Nat /\ idx \in Nat /\ w \in Nat /\ N \in Nat /\ 1 <= w
        /\ WaitedFor(w) <= frames /\ WaitedFor(w) \in Int
    BY <1>1, ReportedInt DEF ReportRange
  <2>2. frames' - 1 <= WaitedFor(w)' /\ WaitedFor(w)' \in Int
    BY <1>1, ReportedIntNext DEF ReportRange, Workers
  <2>3. CASE ReadFrame
    <3>1. frames' = frames + 1
      BY <2>3 DEF ReadFrame
    <3> QED
      BY <2>1, <2>2, <3>1
  <2>4. CASE EnqueueFrame
    <3>1. mpc = "enqueue" /\ frames' = frames
      BY <2>4 DEF EnqueueFrame
    <3>2. WaitedFor(w) = frames - 1
      BY <3>1 DEF WaitedFor
    <3> QED
      BY <2>1, <2>2, <3>1, <3>2
  <2>5. CASE SpuriousMain
    <3>1. mpc = "await" /\ frames' = frames
          /\ \/ idx' = idx + 1 /\ mpc' = "await"
             \/ mpc' = "frameDone"
      BY <1>1, <2>5, AdvanceRange DEF SpuriousMain, TypeOK
    <3>2. CASE idx <= w
      <4>1. WaitedFor(w) = frames - 1
        BY <3>1, <3>2 DEF WaitedFor
      <4> QED
        BY <2>2, <3>1, <4>1
    <3>3. CASE ~(idx <= w)
      <4>1. WaitedFor(w) = frames
        BY <3>1, <3>3 DEF WaitedFor
      <4>2. mpc' = "await" => ~(idx' <= w)
        BY <2>1, <3>1, <3>3
      <4>3. WaitedFor(w)' = frames'
        BY <3>1, <4>2 DEF WaitedFor
      <4>4. WaitedFor(w)' = frames
        BY <3>1, <4>3
      <4> QED
        BY <2>1, <4>1, <4>4
    <3> QED
      BY <3>2, <3>3
  <2>6. CASE WriteFrameDone \/ ReadFlush \/ EnqueueExit \/ Join \/ WriteFlushDone
    <3>1. mpc' \notin {"enqueue", "await"} /\ frames' = frames
      <4>1. CASE EnqueueExit
        BY <4>1 DEF EnqueueExit, Advance
      <4>2. CASE Join
        BY <4>2 DEF Join, Advance
      <4> QED
        BY <2>6, <4>1, <4>2 DEF WriteFrameDone, ReadFlush, WriteFlushDone
    <3>2. WaitedFor(w)' = frames'
      BY <3>1 DEF WaitedFor
    <3> QED
      BY <2>1, <3>1, <3>2
  <2> QED
    BY <2>3, <2>4, <2>5, <2>6 DEF Main
<1> QED
  BY <1>1, <1>2, <1>3, <1>4, ReportKept DEF ReportInv, ReportsInSync

\* A step of a worker does: it reports once for each wait.
LEMMA ReportWorker ==
  ASSUME IndInv, IndInv', NEW u \in Workers, Worker(u),
         NEW w \in Workers, ReportInv(w), ReportsInSync(w)
  PROVE  ReportInv(w)' /\ ReportsInSync(w)'
<1>1. TypeOK /\ TypeOK'
  BY DEF IndInv
<1>2. /\ frames \in Nat /\ idx \in Nat /\ w \in Nat /\ u \in Nat /\ delivered[w] \in Nat
      /\ WaitedFor(w) <= frames /\ WaitedFor(w) \in Int /\ Reported(w) \in Int
  BY <1>1, ReportedInt DEF ReportRange
<1>3. frames' - 1 <= WaitedFor(w)' /\ WaitedFor(w)' \in Int
  BY <1>1, ReportedIntNext DEF ReportRange, Workers
<1>4. CASE Complete(u)
  <2>1. /\ wpc[u] = "complete" /\ mpc = "await" /\ idx = u
        /\ wpc' = [wpc EXCEPT ![u] = "remove"] /\ UNCHANGED <<frames, delivered>>
        /\ \/ idx' = idx + 1 /\ mpc' = "await"
           \/ mpc' = "frameDone"
    BY <1>1, <1>4, AdvanceRange DEF Complete, CompleteMutexFree, TypeOK
  <2>2. CASE u = w
    <3>1. mpc' = "await" => ~(idx' <= w)
      BY <1>2, <2>1, <2>2
    <3>2. WaitedFor(w)' = frames
      BY <2>1, <3>1 DEF WaitedFor
    <3>3. WaitedFor(w) = frames - 1
      BY <1>2, <2>1, <2>2 DEF WaitedFor
    <3>4. Reported(w) = delivered[w] - 1
      BY <2>1, <2>2 DEF Reported
    <3>5. wpc'[w] = "remove"
      BY <1>1, <2>1, <2>2 DEF TypeOK
    <3>6. Reported(w)' = delivered[w] - 0
      BY <2>1, <3>5 DEF Reported
    <3>7. Sync => delivered[w] - 1 <= frames - 1
      BY <3>3, <3>4 DEF ReportInv
    <3>8. Sync => delivered[w] - 0 <= frames
      BY <1>2, <3>7
    <3> QED
      BY <3>2, <3>5, <3>6, <3>8 DEF ReportInv, ReportsInSync
  <2>3. CASE u # w
    <3>1. wpc'[w] = wpc[w]
      BY <1>1, <2>1, <2>3 DEF TypeOK
    <3>2. Reported(w)' = Reported(w)
      BY <2>1, <3>1 DEF Reported
    <3>3. CASE idx <= w
      <4>1. WaitedFor(w) = frames - 1
        BY <2>1, <3>3 DEF WaitedFor
      <4> QED
        BY <1>1, <1>3, <2>1, <3>1, <3>2, <4>1, ReportKept DEF ReportsInSync
    <3>4. CASE ~(idx <= w)
      <4>1. mpc' = "await" => ~(idx' <= w)
        BY <1>2, <2>1, <3>4
      <4>2. WaitedFor(w)' = frames
        BY <2>1, <4>1 DEF WaitedFor
      <4> QED
        BY <1>1, <1>2, <3>1, <3>2, <4>2, ReportKept DEF ReportsInSync
    <3> QED
      BY <3>3, <3>4
  <2> QED
    BY <2>2, <2>3
<1>5. CASE ~Complete(u)
  <2>1. UNCHANGED <<mpc, idx, frames>>
    BY <1>5 DEF Worker, WaitForQueue, SpuriousWorker, RemoveNothing, RemoveEntry,
                BeginWrite, EndWrite, ExecuteEnd, FlushEnd, mainVars
  <2>2. WaitedFor(w)' = WaitedFor(w)
    BY <2>1 DEF WaitedFor
  <2>3. CASE ExecuteEnd(w)
    <3>1. wpc[w] = "execute" /\ delivered'[w] = delivered[w] + 1
          /\ wpc'[w] = IF Sync THEN "complete" ELSE "remove"
      <4>1. Next /\ wpc[w] = "execute" /\ delivered' = [delivered EXCEPT ![w] = held[w]]
            /\ wpc' = [wpc EXCEPT ![w] = IF Sync THEN "complete" ELSE "remove"]
        BY <2>3 DEF ExecuteEnd, Next, Worker
      <4>2. held[w] = delivered[w] + 1
        BY <4>1 DEF IndInv, QueueInv
      <4> QED
        BY <1>1, <4>1, <4>2 DEF TypeOK
    <3>2. ReportsInSync(w)'
      BY <3>1 DEF ReportsInSync
    <3>3. ASSUME Sync PROVE Reported(w)' = Reported(w)
      <4>1. Reported(w) = delivered[w] - 0
        BY <3>1 DEF Reported
      <4>2. Reported(w)' = delivered'[w] - 1
        BY <3>1, <3>3 DEF Reported
      <4> QED
        BY <1>2, <3>1, <4>1, <4>2
    <3> QED
      BY <2>2, <3>2, <3>3 DEF ReportInv
  <2>4. CASE ~ExecuteEnd(w)
    <3>1. delivered'[w] = delivered[w] /\ (wpc'[w] = "complete" <=> wpc[w] = "complete")
      <4>1. CASE ExecuteEnd(u)
        <5>1. u # w
          BY <2>4, <4>1
        <5> QED
          BY <1>1, <4>1, <5>1 DEF ExecuteEnd, TypeOK
      <4>2. CASE ~ExecuteEnd(u)
        <5>1. UNCHANGED delivered
          BY <1>5, <4>2 DEF Worker, WaitForQueue, SpuriousWorker, RemoveNothing,
                RemoveEntry, BeginWrite, EndWrite, FlushEnd
        <5>2. wpc'[w] = "complete" <=> wpc[w] = "complete"
          BY <1>1, <1>5, <4>2 DEF Worker, WaitForQueue, SpuriousWorker, RemoveNothing,
                RemoveEntry, BeginWrite, EndWrite, FlushEnd, TypeOK
        <5> QED
          BY <5>1, <5>2
      <4> QED
        BY <4>1, <4>2
    <3>2. Reported(w)' = Reported(w)
      BY <3>1 DEF Reported
    <3> QED
      BY <2>2, <3>1, <3>2 DEF ReportInv, ReportsInSync
  <2> QED
    BY <2>3, <2>4
<1> QED
  BY <1>4, <1>5

\* The waits of process() and the reports of the workers stay in step, in every
\* schedule and whatever waits end early.
LEMMA ReportsKept == Spec => [](\A w \in Workers : ReportInv(w) /\ ReportsInSync(w))
<1>1. Init => \A w \in Workers : ReportInv(w) /\ ReportsInSync(w)
  BY DEF Init, ReportInv, ReportsInSync, Reported, WaitedFor
<1>2. ASSUME IndInv, IndInv', [Next]_vars, \A w \in Workers : ReportInv(w) /\ ReportsInSync(w)
      PROVE  (\A w \in Workers : ReportInv(w) /\ ReportsInSync(w))'
  <2> SUFFICES ASSUME NEW w \in Workers PROVE ReportInv(w)' /\ ReportsInSync(w)'
    BY DEF Workers
  <2>1. CASE UNCHANGED vars
    BY <1>2, <2>1 DEF vars, ReportInv, ReportsInSync, Reported, WaitedFor
  <2> QED
    BY <1>2, <2>1, ReportMain, ReportWorker DEF Next
<1> QED
  BY <1>1, <1>2, Invariant, PTL DEF Spec

\* The worker process() waits for, or flush() joins, can always go on but in the two
\* ways AnsweredUnlessHung excepts.
LEMMA HangsOnlyThere ==
  ASSUME IndInv, \A w \in Workers : ReportInv(w) /\ ReportsInSync(w)
  PROVE  HangsOnlySo
<1> SUFFICES ASSUME mpc \in {"await", "join"}, ~MainRuns
             PROVE  \E w \in Workers : WorkerRuns(w) \/ Stranded(w) \/ Overtaken(w)
  BY DEF HangsOnlySo, MainRuns, IndInv, TypeOK, MainPC
<1>1. TypeOK /\ idx \in Workers
  BY DEF IndInv, TypeOK
<1> DEFINE w == idx
<1>2. /\ QueueInv(w) /\ ThreadInv(w) /\ SyncInv(w) /\ AnswerInv
      /\ ReportInv(w) /\ ReportsInSync(w)
  BY <1>1 DEF IndInv
<1>3. wpc[w] \in WorkerPC
  BY <1>1 DEF TypeOK
<1>4. mpc = "join" => wpc[w] # "exited"
  BY DEF MainRuns, Joinable
<1>5. SUFFICES WorkerRuns(w) \/ Stranded(w) \/ Overtaken(w)
  BY <1>1
<1>6. CASE wpc[w] = "asleep"
  <2>1. SUFFICES ASSUME queue[w] = <<>> PROVE FALSE
    BY <1>6 DEF Stranded
  <2>2. Holds(<<>>, Taken(w), FramesSent(w), ExitQueued(w))
    BY <1>2, <2>1 DEF QueueInv
  <2>3. ~ExitQueued(w)
    <3>1. FramesSent(w) - Taken(w) \in Nat
          /\ (ExitQueued(w) => 0 = FramesSent(w) - Taken(w) + 1)
      BY <2>2 DEF Holds
    <3> QED
      BY <3>1
  <2>4. mpc = "await"
    BY <1>6, <2>3 DEF ExitQueued, ExitSent, Ended
  <2>5. Taken(w) = FramesSent(w)
    BY <1>1, <2>1, NothingQueued
  <2>6. FramesSent(w) = frames
    BY <2>4, FramesSentAfter
  <2>7. Taken(w) = delivered[w] + 0 /\ Reported(w) = delivered[w] - 0
    BY <1>6 DEF Taken, Reported
  <2>8. WaitedFor(w) = frames - 1
    BY <1>1, <2>4, ReportedInt DEF WaitedFor, ReportRange
  <2>9. Reported(w) <= WaitedFor(w)
    BY <1>2, <2>4 DEF AnswerInv, ReportInv
  <2>10. delivered[w] \in Nat /\ frames \in Nat
    BY <1>1, ReportedInt DEF ReportRange
  <2> QED
    BY <2>5, <2>6, <2>7, <2>8, <2>9, <2>10
<1>7. CASE wpc[w] = "complete"
  <2>1. CASE mpc = "await"
    BY <1>7, <2>1 DEF WorkerRuns, CompleteMutexFree
  <2>2. CASE mpc = "join"
    <3>1. Sync
      BY <1>2, <1>7 DEF ReportsInSync
    <3>2. ExitQueued(w)
      BY <1>7, <2>2 DEF ExitQueued, ExitSent, Ended
    <3>3. queue[w] # <<>>
      <4>1. SUFFICES ASSUME queue[w] = <<>> PROVE FALSE
        OBVIOUS
      <4>2. FramesSent(w) - Taken(w) \in Nat /\ 0 = FramesSent(w) - Taken(w) + 1
        BY <1>2, <3>2, <4>1 DEF QueueInv, Holds
      <4> QED
        BY <4>2
    <3>4. early
      BY <1>2, <1>7, <3>1, <3>3 DEF SyncInv, Backlog, Busy
    <3> QED
      BY <1>1, <1>7, <2>2, <3>4 DEF Overtaken, TypeOK
  <2> QED
    BY <2>1, <2>2
<1>8. CASE wpc[w] = "exited"
  BY <1>2, <1>4, <1>8 DEF ThreadInv, Ended, ExitSent
<1>9. CASE wpc[w] \in {"wait", "remove", "execute", "flush"}
  BY <1>9 DEF WorkerRuns
<1> QED
  BY <1>3, <1>6, <1>7, <1>8, <1>9 DEF WorkerPC

\* There is no other deadlock, for any number of branches and frames, in both modes
\* and after waits that ended early: while process() or flush() is under way some
\* thread can take its next step, or a worker is in one of the two states that
\* AnsweredUnlessHung names.
THEOREM HangsOnlySoCorrect == Spec => []HangsOnlySo
<1> QED
  BY ReportsKept, HangsOnlyThere, Invariant, PTL

-----------------------------------------------------------------------------
(* FrameMemory.                                                            *)


\* A step of FrameMemory is a step of AsyncParallel.
LEMMA IsStep == NextMemory => Next /\ source' = source
BY DEF NextMemory, FillFrame, CloneFrame, MainGoesOn, ExecuteClone, WorkerGoesOn, Next, Main, Worker

\* The main thread's other steps change neither what has been sent nor what has
\* been executed, and they end a send_to_graph only from "await".
SendingKept ==
  \/ mpc' \in {"enqueue", "await"} <=> mpc \in {"enqueue", "await"}
  \/ mpc = "await" /\ mpc' = "frameDone"
NothingMoves ==
  /\ UNCHANGED <<delivered, frames>>
  /\ \A w \in Workers : FramesSent(w)' = FramesSent(w)

LEMMA MainMovesNothing ==
  ASSUME IndInv, MainGoesOn
  PROVE  NothingMoves /\ SendingKept
<1>1. TypeOK /\ IndexReset /\ idx \in Workers
  BY DEF IndInv, TypeOK
<1>2. CASE SpuriousMain
  BY <1>1, <1>2, NothingSent, AdvanceRange
     DEF SpuriousMain, NothingMoves, SendingKept, workerVars, Next, Main, EnqueueFrame, EnqueueExit
<1>3. CASE EnqueueExit
  BY <1>1, <1>3, EnqueueExitSends, AdvanceRange DEF EnqueueExit, NothingMoves, SendingKept
<1>4. CASE Join
  BY <1>1, <1>4, NothingSent, AdvanceRange
     DEF Join, NothingMoves, SendingKept, workerVars, Next, Main, EnqueueFrame, EnqueueExit
<1>5. CASE WriteFrameDone \/ ReadFlush \/ WriteFlushDone
  BY <1>1, <1>5, NothingSent
     DEF WriteFrameDone, ReadFlush, WriteFlushDone, NothingMoves, SendingKept, workerVars, Next, Main,
         EnqueueFrame, EnqueueExit
<1> QED
  BY <1>2, <1>3, <1>4, <1>5 DEF MainGoesOn

LEMMA WorkerMovesNothing ==
  ASSUME IndInv, NEW w \in Workers, WorkerGoesOn(w)
  PROVE  NothingMoves /\ SendingKept
<1>1. TypeOK /\ idx \in Workers
  BY DEF IndInv, TypeOK
<1>2. \A u \in Workers : FramesSent(u)' = FramesSent(u)
  BY <1>1, WorkerSendsNothing DEF WorkerGoesOn, Worker
<1>3. CASE Complete(w)
  BY <1>1, <1>2, <1>3, AdvanceRange DEF Complete, CompleteMutexFree, NothingMoves, SendingKept
<1>4. CASE ~Complete(w)
  BY <1>2, <1>4 DEF WorkerGoesOn, WaitForQueue, SpuriousWorker, RemoveNothing, RemoveEntry,
     BeginWrite, EndWrite, FlushEnd, mainVars, NothingMoves, SendingKept
<1> QED
  BY <1>3, <1>4

-----------------------------------------------------------------------------
(* The number of users of a buffer.                                        *)

LEMMA UsersFinite ==
  ASSUME NEW S \in SUBSET Workers
  PROVE  IsFiniteSet(S) /\ Cardinality(S) \in Nat
<1>1. IsFiniteSet(Workers)
  BY FS_Interval, ConstantsAssumption DEF Workers
<1>2. IsFiniteSet(S)
  BY <1>1, FS_Subset
<1> QED
  BY <1>2, FS_CardinalityType

LEMMA OneMore ==
  ASSUME NEW S \in SUBSET Workers, NEW w \in Workers, w \notin S
  PROVE  Cardinality(S \union {w}) = Cardinality(S) + 1
BY UsersFinite, FS_AddElement

LEMMA OneLess ==
  ASSUME NEW S \in SUBSET Workers, NEW w \in S
  PROVE  Cardinality(S \ {w}) = Cardinality(S) - 1
BY UsersFinite, FS_RemoveElement

\* What the invariant of AsyncParallel says of frames sent and executed.
LEMMA SentAndTaken ==
  ASSUME IndInv, NEW w \in Workers
  PROVE  /\ delivered[w] \in Nat /\ FramesSent(w) \in Nat /\ FramesSent(w) <= frames
         /\ delivered[w] <= FramesSent(w)
         /\ wpc[w] = "execute" => held[w] = delivered[w] + 1 /\ held[w] <= FramesSent(w)
<1>1. TypeOK /\ IndexReset /\ QueueInv(w)
  BY DEF IndInv
<1>2. Taken(w) \in Nat /\ FramesSent(w) \in Nat
  BY <1>1, Counted
<1>3. FramesSent(w) - Taken(w) \in Nat /\ (wpc[w] = "execute" => held[w] = delivered[w] + 1)
  BY <1>1 DEF QueueInv, Holds
<1>4. delivered[w] \in Nat /\ frames \in Nat
  BY <1>1, ConstantsAssumption DEF TypeOK
<1>5. FramesSent(w) <= frames
  BY <1>4 DEF FramesSent
<1>6. CASE wpc[w] = "execute"
  <2>1. Taken(w) = delivered[w] + 1
    BY <1>6 DEF Taken
  <2> QED
    BY <1>2, <1>3, <1>4, <1>5, <1>6, <2>1
<1>7. CASE wpc[w] # "execute"
  <2>1. Taken(w) = delivered[w] + 0
    BY <1>7 DEF Taken
  <2> QED
    BY <1>2, <1>3, <1>4, <1>5, <1>7, <2>1
<1> QED
  BY <1>6, <1>7

-----------------------------------------------------------------------------
(* The references are counted.                                             *)

MemoryInv == IndInv /\ source \in Sources /\ refs \in [Frames -> Int] /\ RefsCounted

\* What RefsCounted says the count of frame f is.
Expected(f) == (IF Sending(f) THEN 1 ELSE 0) + Shared(f) * Cardinality(Users(f))

LEMMA UserRange ==
  ASSUME NEW f \in Frames
  PROVE  /\ Users(f) \in SUBSET Workers /\ Cardinality(Users(f)) \in Nat
         /\ Shared(f) \in {0, 1}
         /\ f \in Nat
<1>1. Users(f) \in SUBSET Workers
  BY DEF Users
<1> QED
  BY <1>1, UsersFinite, ConstantsAssumption DEF Shared, Frames

\* Nothing but the sender's own reference changes when no frame moves.
LEMMA SenderGoesOn ==
  ASSUME MemoryInv, source' = source, NothingMoves, SendingKept, GiveUp
  PROVE  refs' \in [Frames -> Int] /\ RefsCounted'
<1>1. frames \in Nat /\ refs \in [Frames -> Int]
  BY ConstantsAssumption DEF MemoryInv, IndInv, TypeOK
<1>2. refs' \in [Frames -> Int]
  <2>1. refs' = refs \/ refs' = [refs EXCEPT ![frames] = @ - 1]
    BY DEF GiveUp
  <2>2. CASE refs' = [refs EXCEPT ![frames] = @ - 1]
    <3>1. \A f \in Frames : refs'[f] = refs[f] \/ refs'[f] = refs[f] - 1
      BY <1>1, <2>2
    <3>2. \A f \in Frames : refs'[f] \in Int
      BY <1>1, <3>1
    <3> QED
      BY <1>1, <2>2, <3>2
  <2> QED
    BY <1>1, <2>1, <2>2
<1>3. ASSUME NEW f \in Frames PROVE refs'[f] = Expected(f)'
  <2>1. Users(f)' = Users(f) /\ Shared(f)' = Shared(f)
    BY DEF NothingMoves, Users, Shared
  <2>2. refs[f] = (IF Sending(f) THEN 1 ELSE 0) + Shared(f) * Cardinality(Users(f))
    BY DEF MemoryInv, RefsCounted
  <2> DEFINE clones == Shared(f) * Cardinality(Users(f))
  <2>3. clones \in Int
    BY UserRange
  <2>4. Expected(f)' = (IF Sending(f)' THEN 1 ELSE 0) + clones
    BY <2>1 DEF Expected
  <2> HIDE DEF clones
  <2>5. CASE mpc = "await" /\ mpc' = "frameDone"
    <3>1. refs' = [refs EXCEPT ![frames] = @ - 1]
      BY <2>5 DEF GiveUp
    <3>2. ~Sending(f)' /\ (Sending(f) <=> f = frames)
      BY <2>5 DEF Sending
    <3>3. CASE f = frames
      <4>1. refs'[f] = refs[f] - 1
        BY <1>1, <3>1, <3>3
      <4>2. refs[f] = 1 + clones /\ Expected(f)' = 0 + clones
        BY <2>2, <2>4, <3>2, <3>3 DEF clones
      <4> QED
        BY <2>3, <4>1, <4>2
    <3>4. CASE f # frames
      <4>1. refs'[f] = refs[f]
        BY <1>1, <3>1, <3>4
      <4>2. refs[f] = 0 + clones /\ Expected(f)' = 0 + clones
        BY <2>2, <2>4, <3>2, <3>4 DEF clones
      <4> QED
        BY <4>1, <4>2
    <3> QED
      BY <3>3, <3>4
  <2>6. CASE ~(mpc = "await" /\ mpc' = "frameDone")
    <3>1. refs' = refs /\ frames' = frames
      BY <2>6 DEF GiveUp, NothingMoves
    <3>2. Sending(f)' <=> Sending(f)
      BY <2>6, <3>1 DEF SendingKept, Sending
    <3> QED
      BY <2>2, <2>4, <3>1, <3>2 DEF clones
  <2> QED
    BY <2>5, <2>6
<1> QED
  BY <1>2, <1>3 DEF RefsCounted, Expected

\* The sender gets the first reference to the buffer of a new frame.
LEMMA Fill ==
  ASSUME MemoryInv, FillFrame
  PROVE  refs' \in [Frames -> Int] /\ RefsCounted'
<1>1. /\ frames \in Nat /\ refs \in [Frames -> Int] /\ TypeOK /\ IndexReset
      /\ ReadFrame /\ source' = source
      /\ refs' = [refs EXCEPT ![frames + 1] = 1]
      /\ mpc = "idle" /\ mpc' = "enqueue" /\ frames' = frames + 1 /\ delivered' = delivered
      /\ frames + 1 \in Frames
  BY ConstantsAssumption DEF MemoryInv, IndInv, TypeOK, FillFrame, ReadFrame, Frames, workerVars
<1>2. refs' \in [Frames -> Int]
  BY <1>1
<1>3. ASSUME NEW w \in Workers PROVE FramesSent(w) = frames /\ FramesSent(w)' = frames
  <2>1. FramesSent(w) = frames
    BY <1>1 DEF FramesSent
  <2>2. FramesSent(w)' = FramesSent(w)
    BY <1>1, NothingSent DEF Next, Main, EnqueueFrame, EnqueueExit
  <2> QED
    BY <2>1, <2>2
<1>4. ASSUME NEW f \in Frames PROVE refs'[f] = Expected(f)'
  <2>1. Users(f)' = Users(f) /\ Shared(f)' = Shared(f)
    BY <1>1, <1>3 DEF Users, Shared
  <2>2. refs[f] = 0 + Shared(f) * Cardinality(Users(f))
    BY <1>1 DEF MemoryInv, RefsCounted, Sending
  <2>3. Shared(f) * Cardinality(Users(f)) \in Int
    BY UserRange
  <2>4. CASE f = frames + 1
    <3>1. Users(f) = {}
      BY <1>1, <1>3, <2>4 DEF Users
    <3>2. Shared(f) * Cardinality(Users(f)) = 0
      BY <3>1, FS_EmptySet, UserRange
    <3>3. Expected(f)' = 1 + Shared(f) * Cardinality(Users(f))
      BY <1>1, <2>1, <2>4 DEF Expected, Sending
    <3> QED
      BY <1>1, <2>4, <3>2, <3>3
  <2>5. CASE f # frames + 1
    <3>1. Expected(f)' = 0 + Shared(f) * Cardinality(Users(f))
      BY <1>1, <2>1, <2>5 DEF Expected, Sending
    <3> QED
      BY <1>1, <2>2, <2>5, <3>1
  <2> QED
    BY <2>4, <2>5
<1> QED
  BY <1>2, <1>4 DEF RefsCounted, Expected

\* The clone for one branch adds a user and, if it shares the buffer, a
\* reference; with the last branch process() may return.
LEMMA Clone ==
  ASSUME MemoryInv, CloneFrame
  PROVE  refs' \in [Frames -> Int] /\ RefsCounted'
<1>1. /\ frames \in Nat /\ refs \in [Frames -> Int] /\ TypeOK /\ idx \in Workers
      /\ EnqueueFrame /\ source' = source /\ mpc = "enqueue"
      /\ frames' = frames /\ delivered' = delivered
  BY ConstantsAssumption DEF MemoryInv, IndInv, TypeOK, CloneFrame, EnqueueFrame
<1>2. mpc' \in {"enqueue", "await", "idle"}
  BY <1>1, AdvanceRange DEF EnqueueFrame, AfterEnqueue
<1>3. refs' = [refs EXCEPT ![frames] = @ + Shared(frames) - (IF mpc' = "idle" THEN 1 ELSE 0)]
  BY DEF CloneFrame
<1>4. refs' \in [Frames -> Int]
  <2>1. Shared(frames) \in Int
    BY DEF Shared
  <2>2. \A f \in Frames : refs'[f] \in Int
    BY <1>1, <1>3, <2>1
  <2> QED
    BY <1>1, <1>3, <2>2
<1> PICK b \in Workers : b = idx
  BY <1>1
<1>5. ASSUME NEW w \in Workers
      PROVE  /\ w # b => FramesSent(w)' = FramesSent(w)
             /\ w = b => FramesSent(w) = frames - 1 /\ FramesSent(w)' = frames
  BY <1>1, EnqueueFrameSends
<1>6. delivered[b] \in Nat /\ delivered[b] <= frames - 1
  BY <1>1, <1>5, SentAndTaken DEF MemoryInv
<1>7. ASSUME NEW f \in Frames PROVE refs'[f] = Expected(f)'
  <2> DEFINE clones == Cardinality(Users(f))
  <2>1. clones \in Nat /\ Shared(f) \in {0, 1} /\ Shared(f)' = Shared(f) /\ f \in Nat
    BY <1>1, UserRange DEF Shared
  <2>2. CASE f = frames
    <3>1. Users(f)' = Users(f) \union {b} /\ b \notin Users(f)
      <4>1. b \notin Users(f)
        BY <1>1, <1>5, <2>2 DEF Users
      <4>2. ASSUME NEW w \in Workers, w # b
            PROVE  FramesSent(w)' = FramesSent(w) /\ delivered'[w] = delivered[w]
        BY <1>1, <1>5, <4>2
      <4>3. delivered'[b] < f /\ f <= FramesSent(b)'
        BY <1>1, <1>5, <1>6, <2>2
      <4> QED
        BY <1>1, <4>1, <4>2, <4>3 DEF Users
    <3>2. Cardinality(Users(f)') = clones + 1
      BY <1>1, <3>1, UserRange, OneMore
    <3>3. refs[f] = 1 + Shared(f) * clones
      BY <1>1, <2>2 DEF MemoryInv, RefsCounted, Sending
    <3>4. Expected(f)' = (IF mpc' = "idle" THEN 0 ELSE 1) + Shared(f) * (clones + 1)
      BY <1>1, <1>2, <2>1, <2>2, <3>2 DEF Expected, Sending
    <3>5. refs'[f] = refs[f] + Shared(f) - (IF mpc' = "idle" THEN 1 ELSE 0)
      BY <1>1, <1>3, <2>2
    <3> HIDE DEF clones
    <3>6. CASE Shared(f) = 0
      BY <2>1, <3>3, <3>4, <3>5, <3>6
    <3>7. CASE Shared(f) = 1
      BY <2>1, <3>3, <3>4, <3>5, <3>7
    <3> QED
      BY <2>1, <3>6, <3>7
  <2>3. CASE f # frames
    <3>1. Users(f)' = Users(f)
      <4>1. ASSUME NEW w \in Workers
            PROVE  f <= FramesSent(w)' <=> f <= FramesSent(w)
        <5>1. CASE w = b
          <6>1. FramesSent(w) = frames - 1 /\ FramesSent(w)' = frames
            BY <1>5, <5>1
          <6> QED
            BY <1>1, <2>1, <2>3, <6>1
        <5>2. CASE w # b
          BY <1>5, <5>2
        <5> QED
          BY <5>1, <5>2
      <4> QED
        BY <1>1, <4>1 DEF Users
    <3>2. refs'[f] = refs[f]
      BY <1>1, <1>3, <2>3
    <3>3. refs[f] = 0 + Shared(f) * clones
      BY <2>3 DEF MemoryInv, RefsCounted, Sending
    <3>4. Expected(f)' = 0 + Shared(f) * clones
      BY <1>1, <2>1, <2>3, <3>1 DEF Expected, Sending
    <3> QED
      BY <3>2, <3>3, <3>4
  <2> QED
    BY <2>2, <2>3
<1> QED
  BY <1>4, <1>7 DEF RefsCounted, Expected

\* A branch that has executed a frame is a user less, and frees its clone.
LEMMA Executed ==
  ASSUME MemoryInv, NEW w \in Workers, ExecuteClone(w)
  PROVE  refs' \in [Frames -> Int] /\ RefsCounted'
<1> DEFINE g == held[w]
<1>1. /\ frames \in Nat /\ refs \in [Frames -> Int] /\ TypeOK
      /\ ExecuteEnd(w) /\ source' = source
      /\ delivered' = [delivered EXCEPT ![w] = g] /\ delivered \in [Workers -> Nat]
      /\ UNCHANGED <<mpc, frames>>
      /\ refs' = [refs EXCEPT ![g] = @ - Shared(g)]
  BY ConstantsAssumption DEF MemoryInv, IndInv, TypeOK, ExecuteClone, ExecuteEnd, mainVars, FreeFrame
<1>2. /\ g = delivered[w] + 1 /\ g <= FramesSent(w)
      /\ delivered[w] \in Nat /\ FramesSent(w) \in Nat /\ FramesSent(w) <= frames
  BY SentAndTaken DEF MemoryInv, ExecuteClone, ExecuteEnd
<1>3. g \in Frames
  BY <1>1, <1>2, ConstantsAssumption DEF Frames, TypeOK
<1>4. refs' \in [Frames -> Int]
  BY <1>1, <1>3, UserRange
<1>5. \A u \in Workers : FramesSent(u)' = FramesSent(u)
  BY <1>1, WorkerSendsNothing DEF Worker
<1>6. ASSUME NEW f \in Frames PROVE refs'[f] = Expected(f)'
  <2> DEFINE clones == Cardinality(Users(f))
             own == IF Sending(f) THEN 1 ELSE 0
  <2>1. clones \in Nat /\ Shared(f) \in {0, 1} /\ Shared(f)' = Shared(f) /\ f \in Nat
    BY <1>1, UserRange DEF Shared
  <2>2. refs[f] = own + Shared(f) * clones
    BY DEF MemoryInv, RefsCounted
  <2>3. Expected(f)' = own + Shared(f) * Cardinality(Users(f)')
    BY <1>1, <2>1 DEF Expected, Sending
  <2>4. own \in Int
    OBVIOUS
  <2>5. CASE f = g
    <3>1. Users(f)' = Users(f) \ {w} /\ w \in Users(f)
      <4>1. w \in Users(f)
        BY <1>2, <2>5 DEF Users
      <4>2. ~(delivered'[w] < f)
        BY <1>1, <2>1, <2>5
      <4>3. \A u \in Workers : u # w => delivered'[u] = delivered[u]
        BY <1>1
      <4> QED
        BY <1>5, <4>1, <4>2, <4>3 DEF Users
    <3>2. Cardinality(Users(f)') = clones - 1
      BY <3>1, UserRange, OneLess
    <3>3. refs'[f] = refs[f] - Shared(f)
      BY <1>1, <1>3, <2>5
    <3> HIDE DEF clones, own
    <3>4. CASE Shared(f) = 0
      BY <2>1, <2>2, <2>3, <2>4, <3>2, <3>3, <3>4
    <3>5. CASE Shared(f) = 1
      BY <2>1, <2>2, <2>3, <2>4, <3>2, <3>3, <3>5
    <3> QED
      BY <2>1, <3>4, <3>5
  <2>6. CASE f # g
    <3>1. ASSUME NEW u \in Workers PROVE delivered'[u] < f <=> delivered[u] < f
      <4>1. CASE u = w
        <5>1. delivered'[u] = delivered[w] + 1
          BY <1>1, <1>2, <4>1
        <5> QED
          BY <1>2, <2>1, <2>6, <4>1, <5>1
      <4>2. CASE u # w
        BY <1>1, <4>2
      <4> QED
        BY <4>1, <4>2
    <3>2. Users(f)' = Users(f)
      BY <1>5, <3>1 DEF Users
    <3>3. refs'[f] = refs[f]
      BY <1>1, <1>3, <2>6
    <3> QED
      BY <2>2, <2>3, <3>2, <3>3
  <2> QED
    BY <2>5, <2>6
<1> QED
  BY <1>4, <1>6 DEF RefsCounted, Expected

LEMMA InitMemoryInv == InitMemory => MemoryInv
<1> SUFFICES ASSUME InitMemory PROVE MemoryInv
  OBVIOUS
<1>1. /\ IndInv /\ source \in Sources /\ refs = [f \in Frames |-> 0]
      /\ mpc = "idle" /\ frames = 0
  BY InitInvariant DEF InitMemory, Init
<1>2. refs \in [Frames -> Int]
  BY <1>1
<1>3. ASSUME NEW f \in Frames PROVE refs[f] = Expected(f)
  <2>1. f \in Nat /\ f >= 1 /\ Shared(f) \in {0, 1}
    BY UserRange, ConstantsAssumption DEF Frames
  <2>2. \A w \in Workers : FramesSent(w) = 0
    BY <1>1 DEF FramesSent
  <2>3. Users(f) = {}
    BY <2>1, <2>2 DEF Users
  <2>4. Cardinality(Users(f)) = 0
    BY <2>3, FS_EmptySet
  <2>5. Expected(f) = 0 + Shared(f) * 0
    BY <1>1, <2>4 DEF Expected, Sending
  <2> QED
    BY <1>1, <2>1, <2>5
<1> QED
  BY <1>1, <1>2, <1>3 DEF MemoryInv, RefsCounted, Expected

LEMMA NextMemoryInv == ASSUME MemoryInv, [NextMemory]_<<vars, memoryVars>> PROVE MemoryInv'
<1>1. CASE NextMemory
  <2>1. source' = source /\ IndInv' /\ source' \in Sources
    BY <1>1, IsStep, NextInvariant DEF MemoryInv
  <2>2. CASE FillFrame
    BY <2>1, <2>2, Fill DEF MemoryInv
  <2>3. CASE CloneFrame
    BY <2>1, <2>3, Clone DEF MemoryInv
  <2>4. CASE MainGoesOn
    <3>1. NothingMoves /\ SendingKept /\ GiveUp
      BY <2>4, MainMovesNothing DEF MemoryInv, MainGoesOn
    <3> QED
      BY <2>1, <3>1, SenderGoesOn DEF MemoryInv
  <2>5. ASSUME NEW w \in Workers, ExecuteClone(w) PROVE MemoryInv'
    BY <2>1, <2>5, Executed DEF MemoryInv
  <2>6. ASSUME NEW w \in Workers, WorkerGoesOn(w) PROVE MemoryInv'
    <3>1. NothingMoves /\ SendingKept /\ GiveUp
      BY <2>6, WorkerMovesNothing DEF MemoryInv, WorkerGoesOn
    <3> QED
      BY <2>1, <3>1, SenderGoesOn DEF MemoryInv
  <2> QED
    BY <1>1, <2>2, <2>3, <2>4, <2>5, <2>6 DEF NextMemory
<1>2. CASE UNCHANGED <<vars, memoryVars>>
  <2>1. IndInv'
    BY <1>2, NextInvariant DEF MemoryInv
  <2>2. /\ source' = source /\ refs' = refs
        /\ UNCHANGED <<mpc, idx, frames, delivered>>
    BY <1>2 DEF memoryVars, vars
  <2>3. ASSUME NEW f \in Frames PROVE Expected(f)' = Expected(f)
    <3>1. Users(f)' = Users(f)
      BY <2>2 DEF Users, FramesSent
    <3> QED
      BY <2>2, <3>1 DEF Expected, Sending, Shared
  <2>4. RefsCounted'
    BY <2>2, <2>3 DEF MemoryInv, RefsCounted, Expected
  <2> QED
    BY <2>1, <2>2, <2>4 DEF MemoryInv
<1> QED
  BY <1>1, <1>2

-----------------------------------------------------------------------------
(* The theorems.                                                           *)

\* The inductive invariant of AsyncParallel holds with buffers as without them,
\* and the references are counted.
THEOREM MemoryInvariant == SpecMemory => []MemoryInv
<1> QED
  BY InitMemoryInv, NextMemoryInv, PTL DEF SpecMemory

\* A buffer has one reference for its sender and one for every branch that has
\* yet to execute its clone, for any number of them.
THEOREM RefsCountedCorrect == SpecMemory => []RefsCounted
<1>1. MemoryInv => RefsCounted
  BY DEF MemoryInv
<1> QED
  BY <1>1, MemoryInvariant, PTL

\* A branch reads the data and the info of its own frame: clones of their own
\* in any mode, what the sender lends in sync mode until a wait ends early.
THEOREM OwnDataCorrect == SpecMemory => []OwnData
<1>1. ASSUME MemoryInv, NEW w \in Workers, wpc[w] = "execute"
      PROVE  /\ source.kind \in {"copied", "counted"} \/ InSync => DataKept(held[w])
             /\ ~source.opaque \/ InSync => InfoKept(held[w])
  <2> DEFINE f == held[w]
  <2>1. /\ f = delivered[w] + 1 /\ f <= FramesSent(w) /\ delivered[w] \in Nat
        /\ FramesSent(w) \in Nat /\ FramesSent(w) <= frames
    BY <1>1, SentAndTaken DEF MemoryInv
  <2>2. frames \in 0..MaxFrames
    BY <1>1 DEF MemoryInv, IndInv, TypeOK
  <2>3. f \in Frames /\ w \in Users(f)
    BY <2>1, <2>2, ConstantsAssumption DEF Frames, Users
  <2>4. InSync => Sending(f) /\ f = frames
    BY <1>1, InvariantWithinProcess DEF MemoryInv, WithinProcess, Sending, InSync
  <2>5. source \in [kind : Kinds, opaque : BOOLEAN]
    BY <1>1, SourcesAssumption DEF MemoryInv
  <2>6. source.kind = "counted" => refs[f] > 0
    <3>1. SUFFICES ASSUME source.kind = "counted" PROVE refs[f] > 0
      OBVIOUS
    <3>2. Cardinality(Users(f)) \in Nat /\ Cardinality(Users(f)) # 0
      BY <2>3, UserRange, UsersFinite, FS_EmptySet
    <3>3. Shared(f) = 1
      BY <3>1 DEF Shared
    <3>4. refs[f] = (IF Sending(f) THEN 1 ELSE 0) + 1 * Cardinality(Users(f))
      BY <1>1, <2>3, <3>3 DEF MemoryInv, RefsCounted
    <3> QED
      BY <3>2, <3>4
  <2>7. source.kind \in Kinds
    BY <2>5
  <2>8. source.kind \in {"copied", "counted"} \/ InSync => DataKept(f)
    BY <2>4, <2>6, <2>7 DEF DataKept, Kinds
  <2>9. ~source.opaque \/ InSync => InfoKept(f)
    BY <2>4 DEF InfoKept
  <2> QED
    BY <2>8, <2>9
<1>2. MemoryInv => OwnData
  BY <1>1 DEF OwnData
<1> QED
  BY <1>2, MemoryInvariant, PTL

\* When the flush is answered every buffer has been freed, and none before its
\* last user was done with it.
THEOREM BuffersFreedCorrect == SpecMemory => []BuffersFreed
<1>1. ASSUME MemoryInv, mpc = "closed", NEW f \in Frames PROVE refs[f] = 0
  <2>1. \A w \in Workers : delivered[w] = frames
    BY <1>1, InvariantDrains DEF MemoryInv, FlushDrains
  <2>2. \A w \in Workers : FramesSent(w) = frames
    BY <1>1 DEF FramesSent
  <2>3. frames \in Nat /\ f \in Nat
    BY <1>1, UserRange, ConstantsAssumption DEF MemoryInv, IndInv, TypeOK
  <2>4. Users(f) = {}
    BY <2>1, <2>2, <2>3 DEF Users
  <2>5. refs[f] = 0 + Shared(f) * 0
    <3>1. Cardinality(Users(f)) = 0
      BY <2>4, FS_EmptySet
    <3>2. ~Sending(f)
      BY <1>1 DEF Sending
    <3> QED
      BY <1>1, <3>1, <3>2 DEF MemoryInv, RefsCounted
  <2> QED
    BY <2>5, UserRange
<1>2. MemoryInv => BuffersFreed
  BY <1>1 DEF BuffersFreed
<1> QED
  BY <1>2, MemoryInvariant, PTL
=============================================================================
