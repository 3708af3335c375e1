---------------------------- MODULE ParallelProofs ----------------------------
(***************************************************************************)
(* Proofs about Parallel for every number of branches and frames.          *)
(***************************************************************************)
EXTENDS Parallel, TLAPS

-----------------------------------------------------------------------------
(* The inductive invariant behind the safety properties.                   *)

\* A loop of the main thread ends with its index back at the first branch.
IndexReset == mpc \in {"idle", "frameDone", "flushDone", "closed"} => idx = 1

\* Only the threads that init() made run, and only one that executes writes.
ThreadsInv ==
  /\ \A w \in Threads \ Workers : wpc[w] = "none"
  /\ \A w \in Workers : mutex = w => wpc[w] = "execute"

\* Worker w was triggered, and process() has not yet seen it complete.
Pending(w) == (mpc = "trigger" /\ w < idx) \/ (mpc = "await" /\ idx <= w)

\* Branch w has not executed the frame of the current command.
Owed(w) ==
  IF PassThrough THEN mpc = "passing" /\ idx <= w
  ELSE (mpc = "trigger" \/ Pending(w)) /\ wpc[w] # "complete"

\* A worker that runs was triggered and has the frame of this command; one
\* that was triggered and sleeps missed it, which only the first frame allows.
WorkerInv(w) ==
  /\ wpc[w] # "none"
  /\ wpc[w] \in {"woken", "execute", "complete"} => Pending(w)
  /\ wpc[w] \in {"execute", "complete"} => held[w] = frames
  /\ wpc[w] = "loop" => ~Pending(w)
  /\ wpc[w] = "start" => frames = (IF Owed(w) THEN 1 ELSE 0)
  /\ wpc[w] = "asleep" /\ Pending(w) => frames = 1

\* Where the main thread is tells who has had the frame, who is flushed and
\* which reply is due.
MainInv ==
  /\ mpc \in {"trigger", "await"} => ~PassThrough /\ inbound = frames
  /\ mpc = "passing" => PassThrough
  /\ mpc \in {"passing", "trigger", "await"} => frames > 0
  /\ mpc = "frameDone" => sync
  /\ sync => answered = IF mpc \in {"passing", "trigger", "await", "frameDone"}
                        THEN frames - 1 ELSE frames
  /\ \A b \in Branches : delivered[b] = IF Owed(b) THEN frames - 1 ELSE frames
  /\ \A b \in Branches :
       flushed[b] <=> (mpc = "flush" /\ b < idx) \/ mpc \in {"flushDone", "closed"}

IndInv ==
  /\ TypeOK /\ IndexReset /\ ThreadsInv
  /\ ~early => MainInv /\ \A w \in Workers : WorkerInv(w)

-----------------------------------------------------------------------------
\* The number of branches and of frames are what the assumption makes them.
LEMMA Counts == ASSUME TypeOK
                PROVE  /\ n \in Nat \ {0} /\ n <= N /\ N \in Nat /\ MaxFrames \in Nat
                       /\ Branches \subseteq Threads /\ Workers \subseteq Branches
                       /\ ~PassThrough => Workers = Branches
                       /\ PassThrough => Workers = {}
  BY ConstantsAssumption DEF TypeOK, Threads, Branches, Workers, PassThrough

\* Worker numbers are neither of the two values that stand for no worker.
LEMMA WorkerNumbers ==
  ASSUME TypeOK, NEW w \in Workers
  PROVE  w \in Threads /\ w # MainThread /\ w # Free
  BY Counts DEF Threads, MainThread, Free

\* The state initialise() leaves satisfies the inductive invariant: no frame, every
\* worker that exists about to begin.
LEMMA InitInv == Init => IndInv
<1> SUFFICES ASSUME Init PROVE IndInv
  OBVIOUS
<1>1. n \in Nat \ {0} /\ n <= N /\ N \in Nat /\ MaxFrames \in Nat /\ 0 \in 0..MaxFrames
      /\ 1 \in Branches /\ Workers \subseteq Threads
  BY ConstantsAssumption DEF Init, Threads, Branches, Workers
<1>2. TypeOK
  BY <1>1 DEF Init, TypeOK, MainPC, WorkerPC, None
<1>3. IndexReset
  BY DEF Init, IndexReset
<1>4. ThreadsInv
  <2>1. \A w \in Workers : mutex # w
    BY <1>1 DEF Init, Threads, Free
  <2>2. \A w \in Threads \ Workers : wpc[w] = "none"
    BY DEF Init
  <2> QED
    BY <2>1, <2>2 DEF ThreadsInv
<1>5. MainInv
  BY <1>1 DEF Init, MainInv, Owed, Pending, Threads, Branches
<1>6. ASSUME NEW w \in Workers PROVE WorkerInv(w)
  BY <1>1 DEF Init, WorkerInv, Owed, Pending, PassThrough
<1> QED
  BY <1>2, <1>3, <1>4, <1>5, <1>6 DEF IndInv

\* One turn of a loop keeps the index a branch's number.
LEMMA AdvanceRange ==
  ASSUME TypeOK, NEW loop, NEW after, Advance(loop, after)
  PROVE  /\ idx' \in Branches
         /\ \/ idx < n /\ idx' = idx + 1 /\ mpc' = loop
            \/ idx = n /\ idx' = 1 /\ mpc' = after
  BY Counts DEF Advance, Branches, TypeOK

\* A frame is followed by its reply or by the next command.
LEMMA AfterProcessIs == AfterProcess \in {"frameDone", "idle"}
  BY DEF AfterProcess

\* Every step, the main thread's or a worker's, keeps every variable in its range.
LEMMA NextType == TypeOK /\ ThreadsInv /\ [Next]_vars => TypeOK'
<1> SUFFICES ASSUME TypeOK, ThreadsInv, [Next]_vars PROVE TypeOK'
  OBVIOUS
<1>0. UNCHANGED n => Branches' = Branches /\ Workers' = Workers
  BY DEF Branches, Workers, PassThrough
<1> USE <1>0, Counts DEF TypeOK, MainPC, WorkerPC, setup
<1>1. CASE ReadFrame
  BY <1>1 DEF ReadFrame, workerVars
<1>2. CASE PassOn
  BY <1>2, AdvanceRange, AfterProcessIs DEF PassOn
<1>3. CASE Trigger
  BY <1>3, AdvanceRange DEF Trigger
<1>4. CASE SpuriousMain
  BY <1>4, AdvanceRange, AfterProcessIs DEF SpuriousMain, workerVars
<1>5. CASE WriteFrameDone
  BY <1>5 DEF WriteFrameDone, workerVars
<1>6. CASE ReadFlush
  BY <1>6 DEF ReadFlush, workerVars
<1>7. CASE FlushBranch
  BY <1>7, AdvanceRange DEF FlushBranch, workerVars
<1>8. CASE WriteFlushDone
  BY <1>8 DEF WriteFlushDone, workerVars
<1>9. CASE MainBeginWrite
  BY <1>9 DEF MainBeginWrite, mainVars
<1>10. CASE MainEndWrite
  BY <1>10 DEF MainEndWrite, mainVars
<1>11. ASSUME NEW w \in Threads, Worker(w) PROVE TypeOK'
  <2>1. CASE WaitTrigger(w)
    BY <2>1 DEF WaitTrigger, mainVars
  <2>2. CASE SpuriousWorker(w)
    BY <2>2 DEF SpuriousWorker, mainVars
  <2>3. CASE BeginExecute(w)
    BY <2>3 DEF BeginExecute, mainVars
  <2>4. CASE BeginWrite(w)
    BY <2>4 DEF BeginWrite, mainVars, ThreadsInv
  <2>5. CASE EndWrite(w)
    BY <2>5 DEF EndWrite, mainVars
  <2>6. CASE ExecuteEnd(w)
    BY <2>6 DEF ExecuteEnd, mainVars
  <2>7. CASE Complete(w)
    BY <2>7, AdvanceRange, AfterProcessIs DEF Complete
  <2> QED
    BY <1>11, <2>1, <2>2, <2>3, <2>4, <2>5, <2>6, <2>7 DEF Worker
<1>12. CASE UNCHANGED vars
  BY <1>12 DEF vars
<1> QED
  BY <1>1, <1>2, <1>3, <1>4, <1>5, <1>6, <1>7, <1>8, <1>9, <1>10, <1>11, <1>12 DEF Next, Main

\* The main thread writes packets or wakes a worker, nothing else touches who runs
\* and who writes.
LEMMA MainThreads ==
  ASSUME TypeOK, ThreadsInv, Main
  PROVE  ThreadsInv'
<1> USE DEF ThreadsInv, setup
<1>0. Workers' = Workers
  BY DEF Main, ReadFrame, PassOn, Trigger, SpuriousMain, WriteFrameDone, ReadFlush,
         FlushBranch, WriteFlushDone, MainBeginWrite, MainEndWrite, mainVars, Workers,
         PassThrough, Branches
<1>1. CASE Trigger
  BY <1>0, <1>1 DEF Trigger, TypeOK
<1>2. CASE MainBeginWrite \/ MainEndWrite
  BY <1>0, <1>2, WorkerNumbers DEF MainBeginWrite, MainEndWrite
<1>3. CASE ~Trigger /\ ~MainBeginWrite /\ ~MainEndWrite
  <2>1. wpc' = wpc /\ mutex' = mutex
    BY <1>3 DEF Main, ReadFrame, PassOn, SpuriousMain, WriteFrameDone, ReadFlush,
         FlushBranch, WriteFlushDone, workerVars
  <2> QED
    BY <1>0, <2>1
<1> QED
  BY <1>1, <1>2, <1>3

\* A worker keeps the output mutex only while it executes.
LEMMA WorkerThreads ==
  ASSUME TypeOK, ThreadsInv, NEW u \in Threads, Worker(u)
  PROVE  ThreadsInv' /\ u \in Workers
<1> USE DEF ThreadsInv, setup
<1>0. Workers' = Workers
  BY DEF Worker, WaitTrigger, SpuriousWorker, BeginExecute, BeginWrite, EndWrite, ExecuteEnd,
         Complete, mainVars, Workers, PassThrough, Branches
<1>1. u \in Workers
  <2>1. mutex = u => u \in Workers
    BY ConstantsAssumption DEF TypeOK, Threads, MainThread, Free
  <2> QED
    BY <2>1 DEF Worker, WaitTrigger, SpuriousWorker, BeginExecute, BeginWrite, EndWrite, ExecuteEnd,
         Complete
<1> USE <1>0, <1>1, WorkerNumbers DEF TypeOK
<1>2. CASE WaitTrigger(u)
  BY <1>2 DEF WaitTrigger
<1>3. CASE SpuriousWorker(u)
  BY <1>3 DEF SpuriousWorker
<1>4. CASE BeginExecute(u)
  BY <1>4 DEF BeginExecute
<1>5. CASE BeginWrite(u)
  BY <1>5 DEF BeginWrite
<1>6. CASE EndWrite(u)
  BY <1>6 DEF EndWrite
<1>7. CASE ExecuteEnd(u)
  BY <1>7 DEF ExecuteEnd
<1>8. CASE Complete(u)
  BY <1>8 DEF Complete
<1> QED
  BY <1>2, <1>3, <1>4, <1>5, <1>6, <1>7, <1>8 DEF Worker

\* Every step keeps IndexReset: a loop that ends leaves its index at the first branch.
LEMMA IndexStep ==
  ASSUME TypeOK, IndexReset, [Next]_vars
  PROVE  IndexReset'
<1> USE DEF IndexReset
<1>1. CASE PassOn
  BY <1>1, AdvanceRange DEF PassOn
<1>2. CASE Trigger
  BY <1>2, AdvanceRange DEF Trigger
<1>3. CASE SpuriousMain
  BY <1>3, AdvanceRange DEF SpuriousMain
<1>4. CASE FlushBranch
  BY <1>4, AdvanceRange DEF FlushBranch
<1>5. CASE ReadFrame \/ WriteFrameDone \/ ReadFlush \/ WriteFlushDone
  BY <1>5 DEF ReadFrame, WriteFrameDone, ReadFlush, WriteFlushDone
<1>6. CASE MainBeginWrite \/ MainEndWrite
  BY <1>6 DEF MainBeginWrite, MainEndWrite, mainVars
<1>7. ASSUME NEW w \in Threads, Worker(w) PROVE IndexReset'
  <2>1. CASE Complete(w)
    BY <2>1, AdvanceRange DEF Complete
  <2>2. CASE ~Complete(w)
    BY <1>7, <2>2 DEF Worker, WaitTrigger, SpuriousWorker, BeginExecute, BeginWrite, EndWrite,
       ExecuteEnd, mainVars
  <2> QED
    BY <2>1, <2>2
<1>8. CASE UNCHANGED vars
  BY <1>8 DEF vars
<1> QED
  BY <1>1, <1>2, <1>3, <1>4, <1>5, <1>6, <1>7, <1>8 DEF Next, Main

\* The part of the invariant that early waits do not disturb is preserved.
LEMMA ShapeStep ==
  ASSUME TypeOK, IndexReset, ThreadsInv, [Next]_vars
  PROVE  TypeOK' /\ IndexReset' /\ ThreadsInv'
<1>1. CASE UNCHANGED vars
  BY <1>1, NextType, IndexStep DEF vars, setup, ThreadsInv, Workers, Branches, PassThrough
<1> QED
  BY <1>1, NextType, IndexStep, MainThreads, WorkerThreads DEF Next

\* Every reachable state has every variable in its range.
THEOREM TypeCorrect == Spec => []TypeOK
<1> DEFINE Shape == TypeOK /\ IndexReset /\ ThreadsInv
<1>1. Init => Shape
  BY InitInv DEF IndInv
<1>2. Shape /\ [Next]_vars => Shape'
  BY ShapeStep
<1>3. Shape => TypeOK
  OBVIOUS
<1> HIDE DEF Shape
<1> QED
  BY <1>1, <1>2, <1>3, PTL DEF Spec

-----------------------------------------------------------------------------
(* MainInv and WorkerInv are preserved as long as no wait ends early.      *)

Sound == MainInv /\ \A w \in Workers : WorkerInv(w)

\* No step takes back that a wait ended early.
LEMMA EarlyStays == [Next]_vars /\ ~early' => ~early /\ ~SpuriousMain
                                               /\ \A w \in Threads : ~SpuriousWorker(w)
  BY DEF Next, Main, Worker, ReadFrame, PassOn, Trigger, SpuriousMain, WriteFrameDone,
     ReadFlush, FlushBranch, WriteFlushDone, MainBeginWrite, MainEndWrite, WaitTrigger,
     SpuriousWorker, BeginExecute, BeginWrite, EndWrite, ExecuteEnd, Complete, vars

\* A new command makes every branch owe a frame, and its worker has none left from
\* the one before.
LEMMA SoundReadFrame ==
  ASSUME TypeOK, IndexReset, ThreadsInv, Sound, ReadFrame
  PROVE  Sound'
<1>1. mpc = "idle" /\ idx = 1 /\ idx' = 1 /\ frames' = frames + 1 /\ frames \in Nat
      /\ UNCHANGED <<n, sync, answered, wpc, held, delivered, flushed>>
  BY Counts DEF ReadFrame, setup, workerVars, IndexReset, TypeOK
<1>2. Workers' = Workers /\ Branches' = Branches /\ (PassThrough' <=> PassThrough)
  BY <1>1 DEF Workers, Branches, PassThrough
<1>3. \/ PassThrough /\ mpc' = "passing"
      \/ ~PassThrough /\ mpc' = "trigger" /\ inbound' = frames + 1
  BY DEF ReadFrame
<1>4. ASSUME NEW w \in Workers PROVE WorkerInv(w)'
  <2>1. WorkerInv(w) /\ w \in Nat \ {0} /\ ~PassThrough
    BY Counts DEF Sound, Threads, Branches
  <2>2. ~Pending(w) /\ ~Pending(w)' /\ ~Owed(w)
    BY <1>1, <1>3, <2>1 DEF Pending, Owed
  <2>3. wpc[w] \in {"start", "asleep", "loop"}
    BY <2>1, <2>2, Counts DEF WorkerInv, TypeOK, WorkerPC
  <2>4. Owed(w)'
    BY <1>1, <1>2, <1>3, <2>1, <2>3 DEF Owed
  <2>5. wpc[w] = "start" => frames = 0
    BY <2>1, <2>2 DEF WorkerInv
  <2> QED
    BY <1>1, <2>1, <2>2, <2>3, <2>4, <2>5 DEF WorkerInv
<1>5. ASSUME NEW b \in Branches
      PROVE  /\ delivered'[b] = frames' - 1 /\ Owed(b)'
             /\ flushed'[b] <=> (mpc' = "flush" /\ b < idx') \/ mpc' \in {"flushDone", "closed"}
  <2>1. ~Owed(b) /\ b \in Nat \ {0}
    BY <1>1, Counts DEF Owed, Pending, Branches
  <2>2. delivered[b] = frames
    BY <2>1 DEF Sound, MainInv
  <2>3. Owed(b)'
    <3>1. CASE PassThrough
      BY <1>1, <1>2, <1>3, <2>1, <3>1 DEF Owed
    <3>2. CASE ~PassThrough
      <4>1. b \in Workers /\ WorkerInv(b)
        BY <3>2, Counts DEF Sound
      <4>2. wpc[b] # "complete"
        BY <1>1, <4>1 DEF WorkerInv, Pending
      <4> QED
        BY <1>1, <1>2, <1>3, <3>2, <4>2 DEF Owed
    <3> QED
      BY <3>1, <3>2
  <2> QED
    BY <1>1, <1>3, <2>2, <2>3 DEF Sound, MainInv
<1>6. MainInv'
  <2>1. sync' => answered' = frames' - 1
    BY <1>1 DEF Sound, MainInv
  <2> QED
    BY <1>1, <1>2, <1>3, <1>5, <2>1 DEF MainInv
<1> QED
  BY <1>2, <1>4, <1>6 DEF Sound

\* Without threads a branch is up to date once the loop has passed it.
LEMMA SoundPassOn ==
  ASSUME TypeOK, IndexReset, ThreadsInv, Sound, PassOn
  PROVE  Sound'
<1>1. mpc = "passing" /\ PassThrough /\ idx \in Branches /\ frames > 0 /\ frames \in Nat
      /\ delivered' = [delivered EXCEPT ![idx] = frames]
      /\ UNCHANGED <<n, sync, frames, answered, inbound, flushed, wpc, held>>
  BY Counts DEF PassOn, setup, Sound, MainInv, TypeOK
<1>2. Workers' = Workers /\ Branches' = Branches /\ PassThrough' /\ Workers = {}
  BY <1>1, Counts DEF Workers, Branches, PassThrough
<1>3. n = 1 /\ idx = 1 /\ idx' = 1 /\ mpc' = AfterProcess
  BY <1>1, AdvanceRange, Counts DEF PassThrough, Branches, PassOn
<1>4. mpc' = IF sync THEN "frameDone" ELSE "idle"
  BY <1>3 DEF AfterProcess
<1>5. ASSUME NEW b \in Branches
      PROVE  /\ delivered'[b] = frames' /\ ~Owed(b)'
             /\ flushed'[b] <=> (mpc' = "flush" /\ b < idx') \/ mpc' \in {"flushDone", "closed"}
  <2>1. b = idx
    BY <1>3 DEF Branches
  <2>2. delivered'[b] = frames
    BY <1>1, <2>1, Counts DEF TypeOK
  <2>3. ~Owed(b)'
    BY <1>2, <1>4 DEF Owed
  <2>4. ~flushed[b]
    BY <1>1 DEF Sound, MainInv
  <2> QED
    BY <1>1, <1>4, <2>2, <2>3, <2>4
<1>6. sync => answered = frames - 1
  BY <1>1 DEF Sound, MainInv
<1>7. MainInv'
  <2>1. CASE sync
    BY <1>1, <1>2, <1>4, <1>5, <1>6, <2>1 DEF MainInv
  <2>2. CASE ~sync
    BY <1>1, <1>2, <1>4, <1>5, <2>2 DEF MainInv
  <2> QED
    BY <2>1, <2>2
<1> QED
  BY <1>2, <1>7 DEF Sound

\* A trigger wakes the worker that sleeps; the one that has not begun, or that
\* cannot be asleep yet, misses it, and then this is the first frame.
LEMMA SoundTrigger ==
  ASSUME TypeOK, IndexReset, ThreadsInv, Sound, Trigger
  PROVE  Sound'
<1>1. mpc = "trigger" /\ ~PassThrough /\ idx \in Branches /\ frames > 0 /\ frames \in Nat
      /\ inbound = frames
      /\ UNCHANGED <<n, sync, frames, answered, inbound, flushed, held, delivered>>
  BY Counts DEF Trigger, setup, Sound, MainInv, TypeOK
<1>2. Workers' = Workers /\ Branches' = Branches /\ ~PassThrough' /\ Workers = Branches
  BY <1>1, Counts DEF Workers, Branches, PassThrough
<1>3. \/ idx < n /\ idx' = idx + 1 /\ mpc' = "trigger"
      \/ idx = n /\ idx' = 1 /\ mpc' = "await"
  BY AdvanceRange DEF Trigger
<1>4. wpc[idx] \in {"start", "asleep", "woken"}
      /\ wpc' = [wpc EXCEPT ![idx] = IF wpc[idx] = "asleep" THEN "woken" ELSE wpc[idx]]
  BY DEF Trigger, TriggerMutexFree
<1>5. ASSUME NEW w \in Workers
      PROVE  /\ Pending(w)' <=> w <= idx
             /\ Pending(w) <=> w < idx
             /\ Owed(w) <=> wpc[w] # "complete"
             /\ Owed(w)' <=> wpc'[w] # "complete"
             /\ wpc'[w] = "complete" <=> wpc[w] = "complete"
  <2>1. w \in Nat \ {0} /\ idx \in Nat /\ w <= n /\ n \in Nat
    BY <1>1, <1>2, Counts DEF Branches
  <2>2. Pending(w)' <=> w <= idx
    BY <1>3, <2>1 DEF Pending
  <2>3. Pending(w) <=> w < idx
    BY <1>1 DEF Pending
  <2>4. wpc'[w] = "complete" <=> wpc[w] = "complete"
    BY <1>4, WorkerNumbers DEF TypeOK
  <2>5. Owed(w) <=> wpc[w] # "complete"
    BY <1>1 DEF Owed
  <2>6. mpc' = "trigger" \/ Pending(w)'
    BY <1>3, <2>1, <2>2
  <2>7. Owed(w)' <=> wpc'[w] # "complete"
    BY <1>2, <2>6 DEF Owed
  <2> QED
    BY <2>2, <2>3, <2>4, <2>5, <2>7
<1>6. ASSUME NEW w \in Workers PROVE WorkerInv(w)'
  <2>1. WorkerInv(w)
    BY DEF Sound
  <2>2. CASE w = idx
    <3>1. ~Pending(w) /\ Pending(w)' /\ Owed(w) /\ Owed(w)'
      BY <1>1, <1>4, <1>5, <2>2 DEF Branches
    <3>2. wpc[w] = "start" => frames = 1
      BY <2>1, <3>1 DEF WorkerInv
    <3>3. wpc'[w] = IF wpc[w] = "asleep" THEN "woken" ELSE wpc[w]
      BY <1>4, <2>2, WorkerNumbers DEF TypeOK
    <3>4. wpc'[w] \in {"start", "woken"}
      BY <1>4, <2>2, <3>3
    <3> QED
      BY <1>1, <2>1, <3>1, <3>2, <3>3, <3>4 DEF WorkerInv
  <2>3. CASE w # idx
    <3>1. wpc'[w] = wpc[w]
      BY <1>4, <2>3, WorkerNumbers DEF TypeOK
    <3>2. (Pending(w)' <=> Pending(w)) /\ (Owed(w)' <=> Owed(w))
      BY <1>1, <1>2, <1>5, <2>3, <3>1, Counts DEF Branches
    <3> QED
      BY <1>1, <2>1, <3>1, <3>2 DEF WorkerInv
  <2> QED
    BY <2>2, <2>3
<1>7. ASSUME NEW b \in Branches
      PROVE  /\ delivered'[b] = IF Owed(b)' THEN frames' - 1 ELSE frames'
             /\ flushed'[b] <=> (mpc' = "flush" /\ b < idx') \/ mpc' \in {"flushDone", "closed"}
  <2>1. Owed(b)' <=> Owed(b)
    BY <1>2, <1>5
  <2>2. delivered[b] = IF Owed(b) THEN frames - 1 ELSE frames
    BY DEF Sound, MainInv
  <2>3. ~flushed[b]
    BY <1>1 DEF Sound, MainInv
  <2> QED
    BY <1>1, <1>3, <2>1, <2>2, <2>3
<1>8. MainInv'
  <2>1. sync => answered = frames - 1
    BY <1>1 DEF Sound, MainInv
  <2> QED
    BY <1>1, <1>2, <1>3, <1>7, <2>1 DEF MainInv
<1> QED
  BY <1>2, <1>6, <1>8 DEF Sound

\* Outside process() nobody owes or waits for a frame, whatever the main thread does
\* there.
LEMMA OutsideProcess ==
  ASSUME TypeOK, Sound,
         mpc \notin {"passing", "trigger", "await"}, mpc' \notin {"passing", "trigger", "await"},
         UNCHANGED <<n, frames, wpc, held, delivered>>
  PROVE  /\ Workers' = Workers /\ Branches' = Branches
         /\ \A w \in Workers : WorkerInv(w)'
         /\ \A b \in Branches : delivered'[b] = IF Owed(b)' THEN frames' - 1 ELSE frames'
<1>1. Workers' = Workers /\ Branches' = Branches /\ (PassThrough' <=> PassThrough)
  BY DEF Workers, Branches, PassThrough
<1>2. \A w \in Branches : ~Pending(w) /\ ~Pending(w)' /\ ~Owed(w) /\ ~Owed(w)'
  BY <1>1 DEF Pending, Owed
<1>3. ASSUME NEW w \in Workers PROVE WorkerInv(w)'
  <2>1. WorkerInv(w) /\ ~Pending(w) /\ ~Pending(w)' /\ ~Owed(w) /\ ~Owed(w)'
    BY <1>2, Counts DEF Sound
  <2> QED
    BY <2>1 DEF WorkerInv
<1>4. ASSUME NEW b \in Branches PROVE delivered'[b] = IF Owed(b)' THEN frames' - 1 ELSE frames'
  BY <1>2 DEF Sound, MainInv
<1> QED
  BY <1>1, <1>3, <1>4

\* Outside process() the main thread answers, reads the flush and flushes the branches
\* in turn.
LEMMA SoundOutside ==
  ASSUME TypeOK, IndexReset, Sound, WriteFrameDone \/ ReadFlush \/ FlushBranch \/ WriteFlushDone
  PROVE  Sound'
<1>1. mpc \in {"frameDone", "idle", "flush", "flushDone"} /\ mpc' \in {"idle", "flush", "flushDone", "closed"}
      /\ UNCHANGED <<n, sync, frames, inbound, wpc, held, delivered>>
  BY AdvanceRange DEF WriteFrameDone, ReadFlush, FlushBranch, WriteFlushDone, setup, workerVars
<1>2. /\ Workers' = Workers /\ Branches' = Branches
      /\ \A w \in Workers : WorkerInv(w)'
      /\ \A b \in Branches : delivered'[b] = IF Owed(b)' THEN frames' - 1 ELSE frames'
  BY <1>1, OutsideProcess
<1>3. sync' => answered' = frames'
  <2>1. CASE WriteFrameDone
    <3>1. sync => answered = frames - 1
      BY <2>1 DEF Sound, MainInv, WriteFrameDone
    <3> QED
      BY <1>1, <2>1, <3>1, Counts DEF WriteFrameDone, TypeOK
  <2>2. CASE ~WriteFrameDone
    <3>1. mpc \in {"idle", "flush", "flushDone"} /\ answered' = answered
      BY <2>2 DEF ReadFlush, FlushBranch, WriteFlushDone
    <3> QED
      BY <1>1, <3>1 DEF Sound, MainInv
  <2> QED
    BY <2>1, <2>2
<1>4. ASSUME NEW b \in Branches
      PROVE  flushed'[b] <=> (mpc' = "flush" /\ b < idx') \/ mpc' \in {"flushDone", "closed"}
  <2>1. flushed[b] <=> (mpc = "flush" /\ b < idx) \/ mpc \in {"flushDone", "closed"}
    BY DEF Sound, MainInv
  <2>2. b \in Nat \ {0} /\ b <= n /\ n \in Nat /\ idx \in Nat /\ b \in Threads
    BY Counts DEF Branches, TypeOK
  <2>3. CASE WriteFrameDone
    BY <2>1, <2>3 DEF WriteFrameDone
  <2>4. CASE ReadFlush
    BY <2>1, <2>2, <2>4 DEF ReadFlush, IndexReset
  <2>5. CASE FlushBranch
    <3>1. mpc = "flush" /\ flushed' = [flushed EXCEPT ![idx] = TRUE]
      BY <2>5 DEF FlushBranch
    <3>2. \/ idx < n /\ idx' = idx + 1 /\ mpc' = "flush"
          \/ idx = n /\ idx' = 1 /\ mpc' = "flushDone"
      BY <2>5, AdvanceRange DEF FlushBranch
    <3>3. flushed'[b] <=> b <= idx
      BY <2>1, <2>2, <3>1 DEF TypeOK
    <3> QED
      BY <2>2, <3>2, <3>3
  <2>6. CASE WriteFlushDone
    BY <2>1, <2>6 DEF WriteFlushDone
  <2> QED
    BY <2>3, <2>4, <2>5, <2>6
<1>5. MainInv'
  BY <1>1, <1>2, <1>3, <1>4 DEF MainInv
<1> QED
  BY <1>2, <1>5 DEF Sound

\* A step that only a writer of packets can see: what the invariant speaks of is
\* unchanged.
LEMMA SoundUnseen ==
  ASSUME Sound, UNCHANGED <<mainVars, wpc, held, delivered>>
  PROVE  Sound'
  BY DEF Sound, MainInv, WorkerInv, Owed, Pending, Workers, Branches, PassThrough, mainVars, setup

\* While the main thread stands still a worker moves alone: the others and the main
\* thread's part of the invariant only see whether the frame is still owed.
LEMMA SoundWorkerMove ==
  ASSUME TypeOK, Sound, NEW u \in Workers, UNCHANGED mainVars,
         WorkerInv(u)', delivered'[u] = IF Owed(u)' THEN frames - 1 ELSE frames,
         \A w \in Threads \ {u} : wpc'[w] = wpc[w] /\ held'[w] = held[w]
                                  /\ delivered'[w] = delivered[w]
  PROVE  Sound'
<1>1. Workers' = Workers /\ Branches' = Branches /\ (PassThrough' <=> PassThrough)
      /\ Branches = Workers /\ ~PassThrough
      /\ UNCHANGED <<n, sync, mpc, idx, frames, answered, inbound, flushed>>
  BY Counts DEF Workers, Branches, PassThrough, mainVars, setup
<1>2. ASSUME NEW w \in Workers, w # u
      PROVE  WorkerInv(w)' /\ delivered'[w] = IF Owed(w)' THEN frames - 1 ELSE frames
  <2>1. wpc'[w] = wpc[w] /\ held'[w] = held[w] /\ delivered'[w] = delivered[w]
    BY <1>2, WorkerNumbers
  <2>2. (Pending(w)' <=> Pending(w)) /\ (Owed(w)' <=> Owed(w))
    BY <1>1, <2>1 DEF Pending, Owed
  <2>3. WorkerInv(w)
    BY DEF Sound
  <2>4. WorkerInv(w)'
    BY <1>1, <2>1, <2>2, <2>3 DEF WorkerInv
  <2>5. delivered[w] = IF Owed(w) THEN frames - 1 ELSE frames
    BY <1>1 DEF Sound, MainInv
  <2> QED
    BY <2>1, <2>2, <2>4, <2>5
<1>3. \A w \in Workers : WorkerInv(w)'
  BY <1>2
<1>4. \A b \in Branches : delivered'[b] = IF Owed(b)' THEN frames' - 1 ELSE frames'
  BY <1>1, <1>2
<1>5. MainInv'
  BY <1>1, <1>4 DEF Sound, MainInv
<1> QED
  BY <1>1, <1>3, <1>5 DEF Sound

\* A worker sleeps, gets the frame, executes it: its pending command and the frame it
\* owes follow.
LEMMA SoundWorkerSteps ==
  ASSUME TypeOK, ThreadsInv, Sound, NEW u \in Workers,
         WaitTrigger(u) \/ BeginExecute(u) \/ ExecuteEnd(u)
  PROVE  Sound'
<1>1. UNCHANGED <<n, sync, mpc, idx, frames, answered, inbound, flushed>> /\ UNCHANGED mainVars
      /\ (PassThrough' <=> PassThrough) /\ ~PassThrough /\ u \in Branches
      /\ (Pending(u)' <=> Pending(u)) /\ u \in Threads /\ frames \in Nat
  BY Counts, WorkerNumbers DEF WaitTrigger, BeginExecute, ExecuteEnd, mainVars, setup, PassThrough,
     Pending, TypeOK
<1>2. WorkerInv(u) /\ delivered[u] = IF Owed(u) THEN frames - 1 ELSE frames
  BY <1>1 DEF Sound, MainInv
<1>3. \A w \in Threads \ {u} : wpc'[w] = wpc[w] /\ held'[w] = held[w]
                               /\ delivered'[w] = delivered[w]
  BY <1>1 DEF WaitTrigger, BeginExecute, ExecuteEnd, TypeOK
<1>4. CASE WaitTrigger(u)
  <2>1. wpc[u] \in {"start", "loop"} /\ wpc'[u] = "asleep" /\ delivered' = delivered
    BY <1>1, <1>4 DEF WaitTrigger, TypeOK
  <2>2. Owed(u)' <=> Owed(u)
    BY <1>1, <2>1 DEF Owed
  <2>3. Pending(u) => wpc[u] = "start" /\ Owed(u)
    BY <1>1, <1>2, <2>1 DEF WorkerInv, Owed
  <2>4. WorkerInv(u)'
    BY <1>1, <1>2, <2>1, <2>3 DEF WorkerInv
  <2> QED
    BY <1>1, <1>2, <1>3, <2>1, <2>2, <2>4, SoundWorkerMove
<1>5. CASE BeginExecute(u)
  <2>1. wpc[u] = "woken" /\ wpc'[u] = "execute" /\ delivered' = delivered /\ held'[u] = inbound
    BY <1>1, <1>5 DEF BeginExecute, TypeOK
  <2>2. Owed(u)' <=> Owed(u)
    BY <1>1, <2>1 DEF Owed
  <2>3. Pending(u)
    BY <1>2, <2>1 DEF WorkerInv
  <2>4. inbound = frames
    BY <2>3 DEF Pending, Sound, MainInv
  <2>5. WorkerInv(u)'
    BY <1>1, <1>2, <2>1, <2>3, <2>4 DEF WorkerInv
  <2> QED
    BY <1>1, <1>2, <1>3, <2>1, <2>2, <2>5, SoundWorkerMove
<1>6. CASE ExecuteEnd(u)
  <2>1. wpc[u] = "execute" /\ wpc'[u] = "complete" /\ delivered'[u] = held[u] /\ held' = held
    BY <1>1, <1>6 DEF ExecuteEnd, TypeOK
  <2>2. Pending(u) /\ held[u] = frames
    BY <1>2, <2>1 DEF WorkerInv
  <2>3. ~Owed(u)'
    BY <1>1, <2>1 DEF Owed
  <2>4. WorkerInv(u)'
    BY <1>1, <1>2, <2>1, <2>2 DEF WorkerInv
  <2> QED
    BY <1>1, <1>3, <2>1, <2>2, <2>3, <2>4, SoundWorkerMove
<1> QED
  BY <1>4, <1>5, <1>6

\* The worker the main thread waits for reports, and the wait for the next begins or
\* process() returns.
LEMMA SoundComplete ==
  ASSUME TypeOK, ThreadsInv, Sound, NEW u \in Workers, Complete(u)
  PROVE  Sound'
<1>1. mpc = "await" /\ idx = u /\ wpc[u] = "complete" /\ ~PassThrough /\ frames > 0
      /\ frames \in Nat /\ wpc' = [wpc EXCEPT ![u] = "loop"]
      /\ UNCHANGED <<n, sync, frames, answered, inbound, flushed, held, delivered>>
  BY Counts DEF Complete, CompleteMutexFree, setup, Sound, MainInv, TypeOK
<1>2. Workers' = Workers /\ Branches' = Branches /\ ~PassThrough' /\ Workers = Branches
  BY <1>1, Counts DEF Workers, Branches, PassThrough
<1>3. \/ idx < n /\ idx' = idx + 1 /\ mpc' = "await"
      \/ idx = n /\ idx' = 1 /\ mpc' = IF sync THEN "frameDone" ELSE "idle"
  BY AdvanceRange DEF Complete, AfterProcess
<1>4. ASSUME NEW w \in Workers
      PROVE  /\ Pending(w)' <=> u < w
             /\ Pending(w) <=> u <= w
             /\ wpc'[w] = IF w = u THEN "loop" ELSE wpc[w]
             /\ Owed(w)' <=> Owed(w)
  <2>1. w \in Nat \ {0} /\ idx \in Nat /\ w <= n /\ n \in Nat
    BY <1>2, Counts DEF Branches, TypeOK
  <2>2. Pending(w)' <=> u < w
    BY <1>1, <1>3, <2>1 DEF Pending
  <2>3. Pending(w) <=> u <= w
    BY <1>1 DEF Pending
  <2>4. wpc'[w] = IF w = u THEN "loop" ELSE wpc[w]
    BY <1>1, WorkerNumbers DEF TypeOK
  <2>5. mpc # "trigger" /\ mpc' # "trigger"
    BY <1>1, <1>3
  <2>6. Owed(w) <=> u <= w /\ wpc[w] # "complete"
    BY <1>1, <2>3 DEF Owed
  <2>7. Owed(w)' <=> u < w /\ wpc'[w] # "complete"
    BY <1>2, <2>2, <2>5 DEF Owed
  <2>8. Owed(w)' <=> Owed(w)
    BY <1>1, <2>1, <2>4, <2>6, <2>7
  <2> QED
    BY <2>2, <2>3, <2>4, <2>8
<1>5. ASSUME NEW w \in Workers PROVE WorkerInv(w)'
  <2>1. WorkerInv(w)
    BY DEF Sound
  <2>2. CASE w = u
    <3>1. wpc'[w] = "loop" /\ ~Pending(w)'
      BY <1>1, <1>4, <2>2, Counts DEF TypeOK, Branches
    <3> QED
      BY <3>1 DEF WorkerInv
  <2>3. CASE w # u
    <3>1. wpc'[w] = wpc[w] /\ (Pending(w)' <=> Pending(w)) /\ (Owed(w)' <=> Owed(w))
      BY <1>2, <1>4, <2>3, Counts DEF Branches
    <3> QED
      BY <1>1, <2>1, <3>1 DEF WorkerInv
  <2> QED
    BY <2>2, <2>3
<1>6. ASSUME NEW b \in Branches
      PROVE  /\ delivered'[b] = IF Owed(b)' THEN frames' - 1 ELSE frames'
             /\ flushed'[b] <=> (mpc' = "flush" /\ b < idx') \/ mpc' \in {"flushDone", "closed"}
  <2>1. Owed(b)' <=> Owed(b)
    BY <1>2, <1>4
  <2>2. delivered[b] = IF Owed(b) THEN frames - 1 ELSE frames
    BY DEF Sound, MainInv
  <2>3. ~flushed[b]
    BY <1>1 DEF Sound, MainInv
  <2> QED
    BY <1>1, <1>3, <2>1, <2>2, <2>3
<1>7. MainInv'
  <2>1. sync => answered = frames - 1
    BY <1>1 DEF Sound, MainInv
  <2>2. CASE idx < n
    BY <1>1, <1>2, <1>3, <1>6, <2>1, <2>2, Counts DEF MainInv, Sound, TypeOK, Branches
  <2>3. CASE ~(idx < n)
    <3>1. Pending(n)' = FALSE /\ n \in Workers
      BY <1>1, <1>2, <1>3, <1>4, <2>3, Counts DEF TypeOK, Branches
    <3>2. mpc' \in {"frameDone", "idle"}
      BY <1>3, <2>3
    <3>3. CASE sync
      <4>1. mpc' = "frameDone"
        BY <1>3, <2>3, <3>3
      <4> QED
        BY <1>1, <1>2, <1>6, <2>1, <3>3, <4>1 DEF MainInv
    <3>4. CASE ~sync
      <4>1. mpc' = "idle"
        BY <1>3, <2>3, <3>4
      <4> QED
        BY <1>1, <1>2, <1>6, <3>4, <4>1 DEF MainInv
    <3> QED
      BY <3>3, <3>4
  <2> QED
    BY <2>2, <2>3
<1> QED
  BY <1>2, <1>5, <1>7 DEF Sound

\* Every step preserves the inductive invariant.
LEMMA NextInv == IndInv /\ [Next]_vars => IndInv'
<1> SUFFICES ASSUME IndInv, [Next]_vars PROVE IndInv'
  OBVIOUS
<1>1. TypeOK /\ IndexReset /\ ThreadsInv
  BY DEF IndInv
<1>2. TypeOK' /\ IndexReset' /\ ThreadsInv'
  BY <1>1, ShapeStep
<1>3. ASSUME ~early' PROVE Sound'
  <2>1. Sound /\ ~SpuriousMain /\ \A w \in Threads : ~SpuriousWorker(w)
    BY <1>3, EarlyStays DEF IndInv, Sound
  <2>2. CASE Main
    <3>1. CASE MainBeginWrite \/ MainEndWrite
      BY <2>1, <3>1, SoundUnseen DEF MainBeginWrite, MainEndWrite
    <3> QED
      BY <1>1, <2>1, <2>2, <3>1, SoundReadFrame, SoundPassOn, SoundTrigger, SoundOutside DEF Main
  <2>3. ASSUME NEW w \in Threads, Worker(w) PROVE Sound'
    <3>1. w \in Workers
      BY <1>1, <2>3, WorkerThreads
    <3>2. CASE BeginWrite(w) \/ EndWrite(w)
      BY <2>1, <3>2, SoundUnseen DEF BeginWrite, EndWrite
    <3> QED
      BY <1>1, <2>1, <2>3, <3>1, <3>2, SoundWorkerSteps, SoundComplete DEF Worker
  <2>4. CASE UNCHANGED vars
    BY <2>1, <2>4, SoundUnseen DEF vars, mainVars
  <2> QED
    BY <2>2, <2>3, <2>4 DEF Next
<1> QED
  BY <1>2, <1>3 DEF IndInv, Sound

\* The inductive invariant holds in every reachable state.
THEOREM Invariant == Spec => []IndInv
<1> QED
  BY InitInv, NextInv, PTL DEF Spec

-----------------------------------------------------------------------------
(* What follows from the invariant.                                        *)

\* The frame is lent: until a wait ends early, a worker executes the frame of this
\* command only, and only before process() has returned.
THEOREM LentFrameCorrect == Spec => []LentFrame
<1>1. IndInv => LentFrame
  BY DEF IndInv, LentFrame, WorkerInv, Pending
<1> QED
  BY <1>1, Invariant, PTL

\* While the main thread replies, waits for a command or flushes, no worker executes,
\* is about to, or holds the output mutex.
THEOREM AloneCorrect == Spec => []Alone
<1>1. IndInv => Alone
  <2> SUFFICES ASSUME IndInv, ~early, mpc \in {"frameDone", "flush", "flushDone", "idle"}
               PROVE  /\ \A w \in Workers : wpc[w] \notin {"woken", "execute", "complete"}
                      /\ mutex \notin Workers
    BY DEF Alone
  <2>1. \A w \in Workers : wpc[w] \notin {"woken", "execute", "complete"}
    BY DEF IndInv, WorkerInv, Pending
  <2> QED
    BY <2>1 DEF IndInv, ThreadsInv
<1> QED
  BY <1>1, Invariant, PTL

\* A trigger is missed only by a worker that had not begun to wait before the first
\* frame, and no worker runs when its trigger is still to come.
THEOREM MissedOnlyFirstCorrect == Spec => []MissedOnlyFirst
<1>1. IndInv => MissedOnlyFirst
  <2> SUFFICES ASSUME IndInv, ~early, NEW w \in Workers
               PROVE  ~Wedged(w) /\ (Missed(w) => frames = 1)
    BY DEF MissedOnlyFirst
  <2>1. WorkerInv(w) /\ w \in Nat
    BY Counts DEF IndInv, Branches
  <2> QED
    BY <2>1 DEF WorkerInv, Pending, Missed, Wedged
<1> QED
  BY <1>1, Invariant, PTL

-----------------------------------------------------------------------------
(* The filter implements FanOut.                                           *)

\* The filter begins where FanOut does.
LEMMA ContractInit == Init => Contract!Init
<1> SUFFICES ASSUME Init PROVE Contract!Init
  OBVIOUS
<1> USE DEF Contract!Branches, Branches
<1>1. n \in Nat \ {0} /\ n <= N /\ N \in Nat /\ 1..n \subseteq Threads
  BY ConstantsAssumption DEF Init, Threads
<1>2. [b \in 1..n |-> delivered[b]] = [b \in 1..n |-> 0]
  BY <1>1 DEF Init
<1>3. [b \in 1..n |-> flushed[b]] = [b \in 1..n |-> FALSE]
  BY <1>1 DEF Init
<1>4. (mpc \in {"flush", "flushDone", "closed"}) = FALSE /\ (mpc = "closed") = FALSE
  BY DEF Init
<1> QED
  BY <1>1, <1>2, <1>3, <1>4 DEF Init, Contract!Init

\* A worker's step is invisible to FanOut, except that the end of execute delivers the
\* next frame to its branch.
LEMMA ContractWorker ==
  ASSUME IndInv, ~early, NEW u \in Workers, Worker(u), ~SpuriousWorker(u)
  PROVE  [Contract!Next]_(Contract!vars)
<1> USE DEF Contract!vars, Contract!setup, Contract!Branches, setup
<1>1. TypeOK /\ ThreadsInv /\ MainInv /\ WorkerInv(u) /\ u \in Branches /\ u \in Threads /\ frames \in Nat
      /\ ~PassThrough /\ Workers = Branches
  BY Counts, WorkerNumbers DEF IndInv, TypeOK
<1>2. CASE ExecuteEnd(u)
  <2>1. UNCHANGED mainVars /\ delivered' = [delivered EXCEPT ![u] = held[u]] /\ wpc[u] = "execute"
    BY <1>2 DEF ExecuteEnd
  <2>2. held[u] = frames /\ Pending(u) /\ Owed(u)
    BY <1>1, <2>1 DEF WorkerInv, Owed
  <2>3. delivered[u] = frames - 1 /\ delivered'[u] = frames
    BY <1>1, <2>1, <2>2 DEF MainInv, TypeOK
  <2>4. \A b \in Branches : delivered'[b] = IF b = u THEN delivered[u] + 1 ELSE delivered[b]
    BY <1>1, <2>1, <2>3, Counts DEF TypeOK
  <2>5. [b \in 1..n |-> delivered'[b]]
         = [[b \in 1..n |-> delivered[b]] EXCEPT ![u] = @ + 1]
    BY <1>1, <2>4 DEF Branches
  <2>6. Contract!Deliver(u)
    BY <1>1, <2>1, <2>3, <2>5 DEF Contract!Deliver, mainVars, Branches
  <2> QED
    BY <1>1, <2>6 DEF Contract!Next, Branches
<1>3. CASE Complete(u)
  <2>1. UNCHANGED <<n, sync, frames, answered, flushed, delivered>> /\ mpc = "await"
        /\ mpc' \in {"await", "frameDone", "idle"}
    BY <1>1, <1>3, AdvanceRange, AfterProcessIs DEF Complete, CompleteMutexFree
  <2> QED
    BY <2>1 DEF Branches
<1>4. CASE ~ExecuteEnd(u) /\ ~Complete(u)
  <2>1. UNCHANGED mainVars /\ delivered' = delivered
    BY <1>4 DEF Worker, WaitTrigger, SpuriousWorker, BeginExecute, BeginWrite, EndWrite
  <2> QED
    BY <2>1 DEF mainVars, Branches
<1> QED
  BY <1>2, <1>3, <1>4

\* The main thread's steps submit, deliver without threads, answer, flush and close as
\* FanOut allows.
LEMMA ContractMain ==
  ASSUME IndInv, ~early, Main
  PROVE  [Contract!Next]_(Contract!vars)
<1> USE DEF Contract!vars, Contract!setup, Contract!Branches, setup, Branches
<1>1. TypeOK /\ MainInv /\ frames \in Nat /\ n \in Nat /\ idx \in 1..n
      /\ Branches \subseteq Threads
  BY Counts DEF IndInv, TypeOK
<1>2. CASE ReadFrame
  <2>1. mpc = "idle" /\ mpc' \in {"passing", "trigger"} /\ frames' = frames + 1
        /\ UNCHANGED <<n, sync, answered, flushed, delivered>>
    BY <1>2 DEF ReadFrame, workerVars
  <2>2. Contract!Submit
    BY <1>1, <2>1 DEF Contract!Submit, Contract!Ready, MainInv
  <2> QED
    BY <2>2 DEF Contract!Next
<1>3. CASE PassOn
  <2>1. mpc = "passing" /\ mpc' \in {"passing", "frameDone", "idle"}
        /\ delivered' = [delivered EXCEPT ![idx] = frames]
        /\ UNCHANGED <<n, sync, frames, answered, flushed>>
    BY <1>1, <1>3, AdvanceRange, AfterProcessIs DEF PassOn
  <2>2. delivered[idx] = frames - 1
    BY <1>1, <2>1 DEF MainInv, Owed
  <2>3. \A b \in 1..n : delivered'[b] = IF b = idx THEN delivered[idx] + 1 ELSE delivered[b]
    BY <1>1, <2>1, <2>2 DEF TypeOK
  <2>4. [b \in 1..n |-> delivered'[b]]
         = [[b \in 1..n |-> delivered[b]] EXCEPT ![idx] = @ + 1]
    BY <1>1, <2>3
  <2>5. PICK b \in 1..n : b = idx
    BY <1>1
  <2>6. Contract!Deliver(b)
    BY <1>1, <2>1, <2>2, <2>4, <2>5 DEF Contract!Deliver
  <2> QED
    BY <2>6 DEF Contract!Next
<1>4. CASE Trigger \/ SpuriousMain
  <2>1. mpc \in {"trigger", "await"} /\ mpc' \in {"trigger", "await", "frameDone", "idle"}
        /\ UNCHANGED <<n, sync, frames, answered, flushed, delivered>>
    BY <1>1, <1>4, AdvanceRange, AfterProcessIs DEF Trigger, SpuriousMain, workerVars
  <2> QED
    BY <2>1
<1>5. CASE WriteFrameDone
  <2>1. mpc = "frameDone" /\ mpc' = "idle" /\ answered' = answered + 1
        /\ UNCHANGED <<n, sync, frames, flushed, delivered>>
    BY <1>5 DEF WriteFrameDone, workerVars
  <2>2. sync /\ answered = frames - 1
    BY <1>1, <2>1 DEF MainInv
  <2>3. \A b \in 1..n : delivered[b] = frames
    BY <1>1, <2>1 DEF MainInv, Owed, Pending
  <2>4. Contract!Answer
    BY <1>1, <2>1, <2>2, <2>3 DEF Contract!Answer
  <2> QED
    BY <2>4 DEF Contract!Next
<1>6. CASE ReadFlush
  <2>1. mpc = "idle" /\ mpc' = "flush" /\ UNCHANGED <<n, sync, frames, answered, flushed, delivered>>
    BY <1>6 DEF ReadFlush, workerVars
  <2>2. Contract!Flush
    BY <1>1, <2>1 DEF Contract!Flush, Contract!Ready, MainInv
  <2> QED
    BY <2>2 DEF Contract!Next
<1>7. CASE FlushBranch
  <2>1. mpc = "flush" /\ mpc' \in {"flush", "flushDone"} /\ flushed' = [flushed EXCEPT ![idx] = TRUE]
        /\ UNCHANGED <<n, sync, frames, answered, delivered>>
    BY <1>1, <1>7, AdvanceRange DEF FlushBranch, workerVars
  <2>2. delivered[idx] = frames /\ ~flushed[idx]
    BY <1>1, <2>1 DEF MainInv, Owed, Pending
  <2>3. [b \in 1..n |-> flushed'[b]] = [[b \in 1..n |-> flushed[b]] EXCEPT ![idx] = TRUE]
    BY <1>1, <2>1 DEF TypeOK
  <2>4. PICK b \in 1..n : b = idx
    BY <1>1
  <2>5. Contract!FlushBranch(b)
    BY <1>1, <2>1, <2>2, <2>3, <2>4 DEF Contract!FlushBranch
  <2> QED
    BY <2>5 DEF Contract!Next
<1>8. CASE WriteFlushDone
  <2>1. mpc = "flushDone" /\ mpc' = "closed"
        /\ UNCHANGED <<n, sync, frames, answered, flushed, delivered>>
    BY <1>8 DEF WriteFlushDone, workerVars
  <2>2. \A b \in 1..n : flushed[b]
    BY <1>1, <2>1 DEF MainInv
  <2>3. Contract!Close
    BY <2>1, <2>2 DEF Contract!Close
  <2> QED
    BY <2>3 DEF Contract!Next
<1>9. CASE MainBeginWrite \/ MainEndWrite
  BY <1>9 DEF MainBeginWrite, MainEndWrite, mainVars
<1> QED
  BY <1>2, <1>3, <1>4, <1>5, <1>6, <1>7, <1>8, <1>9 DEF Main

\* parallel does what FanOut promises, with threads and without, until a wait ends
\* early: exactly-once delivery in order, and replies that tell the truth.
THEOREM Implements == Spec => KeepsContract
<1>1. IndInv /\ [Next]_vars => [~early => Contract!Next]_(Contract!vars)
  <2> SUFFICES ASSUME IndInv, [Next]_vars, ~early PROVE [Contract!Next]_(Contract!vars)
    OBVIOUS
  <2>1. CASE UNCHANGED vars
    BY <2>1 DEF vars, setup, Contract!vars, Contract!setup, Branches
  <2>2. ASSUME NEW w \in Threads, Worker(w) PROVE [Contract!Next]_(Contract!vars)
    <3>1. w \in Workers
      BY <2>2, WorkerThreads DEF IndInv
    <3>2. CASE SpuriousWorker(w)
      BY <3>2 DEF SpuriousWorker, mainVars, setup, Contract!vars, Contract!setup, Branches
    <3> QED
      BY <2>2, <3>1, <3>2, ContractWorker
  <2> QED
    BY <2>1, <2>2, ContractMain DEF Next
<1> QED
  BY <1>1, ContractInit, Invariant, PTL DEF Spec, KeepsContract
-----------------------------------------------------------------------------
(* What remains of AnsweredUnlessStuck without fairness: in no state of a  *)
(* command under way does everybody wait for everybody.                    *)

\* The guards of the main thread's and of a worker's own next step, but for the
\* host's commands, early wakeups and the start of a write: what is fair can happen.
MainRuns ==
  \/ mpc \in {"passing", "frameDone", "flush", "flushDone"}
  \/ mpc = "trigger" /\ TriggerMutexFree(idx)
WorkerRuns(w) ==
  \/ wpc[w] \in {"start", "loop", "woken", "execute"}
  \/ wpc[w] = "complete" /\ CompleteMutexFree(w)

\* A command that is not answered yet has a thread that runs, or the worker the main
\* thread has come to is in one of the two states that AnsweredUnlessStuck names.
\* As long as no wait ended early the first frame is the only one to get stuck.
StuckOnlySo ==
  mpc \notin {"idle", "closed"} =>
    \/ MainRuns
    \/ \E w \in Workers : WorkerRuns(w)
    \/ (early \/ frames = 1) /\ \E w \in Workers : Missed(w) \/ Wedged(w)

\* Only a filter with threads triggers and waits, and every branch has its thread.
Threaded ==
  /\ mpc \in {"trigger", "await"} => ~PassThrough
  /\ \A w \in Workers : wpc[w] # "none"

\* Every step keeps that: a thread that has begun never goes back.
LEMMA ThreadedStep ==
  ASSUME IndInv, Threaded, [Next]_vars
  PROVE  Threaded'
<1>1. TypeOK
  BY DEF IndInv
<1>2. PassThrough' = PassThrough /\ Workers' = Workers
  <2>1. UNCHANGED n
    BY DEF Next, Main, Worker, ReadFrame, PassOn, Trigger, SpuriousMain, WriteFrameDone,
           ReadFlush, FlushBranch, WriteFlushDone, MainBeginWrite, MainEndWrite, WaitTrigger,
           SpuriousWorker, BeginExecute, BeginWrite, EndWrite, ExecuteEnd, Complete,
           mainVars, setup, vars
  <2> QED
    BY <2>1 DEF PassThrough, Workers, Branches
<1>3. mpc' \in {"trigger", "await"} => ~PassThrough
  <2>1. CASE ReadFrame
    BY <2>1 DEF ReadFrame
  <2>2. CASE Trigger
    BY <2>2 DEF Trigger, Threaded
  <2>3. CASE SpuriousMain
    BY <2>3 DEF SpuriousMain, Threaded
  <2>4. CASE PassOn
    BY <2>4, AfterProcessIs DEF PassOn, Advance
  <2>5. CASE FlushBranch
    BY <2>5 DEF FlushBranch, Advance
  <2>6. CASE WriteFrameDone \/ ReadFlush \/ WriteFlushDone
    BY <2>6 DEF WriteFrameDone, ReadFlush, WriteFlushDone
  <2>7. CASE MainBeginWrite \/ MainEndWrite
    BY <2>7 DEF MainBeginWrite, MainEndWrite, mainVars, Threaded
  <2>8. ASSUME NEW w \in Threads, Complete(w) PROVE ~PassThrough
    BY <2>8 DEF Complete, CompleteMutexFree, Threaded
  <2>9. ASSUME NEW w \in Threads, Worker(w), ~Complete(w) PROVE mpc' = mpc
    BY <2>9 DEF Worker, WaitTrigger, SpuriousWorker, BeginExecute, BeginWrite, EndWrite,
                ExecuteEnd, mainVars
  <2>10. CASE UNCHANGED vars
    BY <2>10 DEF vars, Threaded
  <2> QED
    BY <2>1, <2>2, <2>3, <2>4, <2>5, <2>6, <2>7, <2>8, <2>9, <2>10 DEF Next, Main, Threaded
<1>4. ASSUME NEW w \in Workers PROVE wpc'[w] # "none"
  <2>1. wpc[w] # "none" /\ w \in Threads
    BY <1>1, Counts DEF Threaded
  <2>2. CASE Main
    BY <1>1, <2>1, <2>2 DEF Main, ReadFrame, PassOn, Trigger, SpuriousMain, WriteFrameDone,
        ReadFlush, FlushBranch, WriteFlushDone, MainBeginWrite, MainEndWrite, workerVars, TypeOK
  <2>3. ASSUME NEW u \in Threads, Worker(u) PROVE wpc'[w] # "none"
    BY <1>1, <2>1, <2>3 DEF Worker, WaitTrigger, SpuriousWorker, BeginExecute, BeginWrite,
        EndWrite, ExecuteEnd, Complete, TypeOK
  <2>4. CASE UNCHANGED vars
    BY <2>1, <2>4 DEF vars
  <2> QED
    BY <2>2, <2>3, <2>4 DEF Next
<1> QED
  BY <1>2, <1>3, <1>4 DEF Threaded

\* The worker the main thread triggers, or waits for, can go on but in two states.
LEMMA StuckOnlyThere ==
  ASSUME IndInv, Threaded, MissedOnlyFirst
  PROVE  StuckOnlySo
<1> SUFFICES ASSUME mpc \in {"trigger", "await"}, ~MainRuns
             PROVE  \/ \E w \in Workers : WorkerRuns(w)
                    \/ (early \/ frames = 1) /\ \E w \in Workers : Missed(w) \/ Wedged(w)
  BY DEF StuckOnlySo, MainRuns, IndInv, TypeOK, MainPC
<1>1. TypeOK
  BY DEF IndInv
<1>2. idx \in Workers
  BY <1>1, Counts DEF Threaded, TypeOK
<1>3. wpc[idx] \in WorkerPC /\ wpc[idx] # "none"
  BY <1>1, <1>2, Counts DEF TypeOK, Threaded
<1>4. CASE Missed(idx) \/ Wedged(idx)
  BY <1>2, <1>4 DEF MissedOnlyFirst
<1>5. CASE ~(Missed(idx) \/ Wedged(idx))
  <2>1. WorkerRuns(idx)
    BY <1>3, <1>5 DEF WorkerPC, WorkerRuns, CompleteMutexFree, Missed, Wedged, MainRuns,
                      TriggerMutexFree
  <2> QED
    BY <1>2, <2>1
<1> QED
  BY <1>4, <1>5

\* There is no other deadlock, for any number of branches and frames and in both
\* modes: while a command is under way some thread can take its next step, or a
\* worker is in one of the two states that AnsweredUnlessStuck names, and that only
\* during the first frame until a wait ends early.
THEOREM StuckOnlySoCorrect == Spec => []StuckOnlySo
<1>1. Init => Threaded
  BY InitInv, Counts DEF Init, IndInv, Threaded
<1> QED
  BY <1>1, ThreadedStep, StuckOnlyThere, MissedOnlyFirstCorrect, Invariant, PTL DEF Spec
=============================================================================
