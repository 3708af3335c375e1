---------------------------- MODULE AsyncParallel ----------------------------
(***************************************************************************)
(* The "async_parallel" filter (c_src/async_parallel_filter.c) under the   *)
(* command loop of c_src/main.c: one main thread hands every frame to N    *)
(* worker threads through a queue each, in sync mode waits for all of them *)
(* before it answers, and on flush sends each an exit entry and joins it.  *)
(*                                                                         *)
(* A critical section that never waits inside is one action: whoever holds *)
(* the queue mutex of ADD_TO_QUEUE or REMOVE_FROM_QUEUE leaves it again    *)
(* without blocking.  Condition variables are explicit: a signal moves a   *)
(* sleeping thread on and is lost when nobody sleeps; pthread_cond_wait    *)
(* may also return without one, which POSIX permits.                       *)
(***************************************************************************)
EXTENDS Integers, Sequences

CONSTANTS
  N,          \* num_downstream_filters: branches, hence worker threads
  MaxFrames,  \* bound on the frames the host sends before its flush
  Sync        \* sync_mode: the initialise mode does not begin with "async"

ASSUME ConstantsAssumption ==
  /\ N \in Nat \ {0}
  /\ MaxFrames \in Nat
  /\ Sync \in BOOLEAN

Workers == 1..N

\* The entry with exit_thread set; frames are numbered from 1.
Exit == 0

\* Nobody holds the output mutex.
Free == 0

VARIABLES
  mpc,        \* where the main thread is
  idx,        \* the loop index i of process() and flush()
  frames,     \* process_frame commands read so far; the last one is frame `frames`
  answered,   \* "frame_done" replies written so far
  queue,      \* queue[w]: inbound_frame_queue of worker w
  wpc,        \* where worker w is in thread_proc
  held,       \* held[w]: its local `inbound`
  delivered,  \* delivered[w]: the last frame its downstream filter executed
  mutex,      \* holder of the output mutex of common.c, or Free
  early       \* history: a wait of process() has ended without a signal

vars == <<mpc, idx, frames, answered, queue, wpc, held, delivered, mutex, early>>
mainVars == <<mpc, idx, frames, answered, early>>
workerVars == <<wpc, held, delivered, mutex>>

MainPC == {"idle", "enqueue", "await", "frameDone",
           "enqueueExit", "join", "flushDone", "closed"}
WorkerPC == {"wait", "asleep", "remove", "execute", "complete", "flush", "exited"}

\* initialise() has run: init() of the filter made the queues and threads.
Init ==
  /\ mpc = "idle"
  /\ idx = 1
  /\ frames = 0
  /\ answered = 0
  /\ queue = [w \in Workers |-> <<>>]
  /\ wpc = [w \in Workers |-> "wait"]
  /\ held = [w \in Workers |-> Exit]
  /\ delivered = [w \in Workers |-> 0]
  /\ mutex = Free
  /\ early = FALSE

-----------------------------------------------------------------------------
(* The main thread.                                                        *)

\* One turn of a `for` over the downstream filters, with its loop head at
\* `loop`; the statement after the loop is at `after`.
Advance(loop, after) ==
  IF idx < N
  THEN idx' = idx + 1 /\ mpc' = loop
  ELSE idx' = 1 /\ mpc' = after

\* i_mutex_signal: a worker asleep in WAIT_FOR_QUEUE wakes; else no effect.
Signalled(w) == IF wpc[w] = "asleep" THEN "remove" ELSE wpc[w]

\* Mutant of AddToQueue: the entry goes to the front of the queue.
AddToQueueFront(w, item) ==
  /\ queue' = [queue EXCEPT ![w] = <<item>> \o @]
  /\ wpc' = [wpc EXCEPT ![w] = Signalled(w)]

\* ADD_TO_QUEUE: append and signal under the queue's mutex.
AddToQueue(w, item) ==
  /\ queue' = [queue EXCEPT ![w] = Append(@, item)]
  /\ wpc' = [wpc EXCEPT ![w] = Signalled(w)]

ReadFrame ==
  /\ mpc = "idle"
  /\ frames < MaxFrames
  /\ frames' = frames + 1
  /\ mpc' = "enqueue"
  /\ UNCHANGED <<idx, answered, queue, workerVars, early>>

\* Mutant of AfterEnqueue: process() does not wait in sync mode either.
AfterEnqueueUnwaited == IF Sync THEN "frameDone" ELSE "idle"

\* Where process() goes once every branch has its clone.
AfterEnqueue == IF Sync THEN "await" ELSE "idle"

EnqueueFrame ==
  /\ mpc = "enqueue"
  /\ AddToQueue(idx, frames)
  /\ Advance("enqueue", AfterEnqueue)
  /\ UNCHANGED <<frames, answered, held, delivered, mutex, early>>

\* pthread_cond_wait(&complete) returns although nobody signalled.
SpuriousMain ==
  /\ mpc = "await"
  /\ Advance("await", "frameDone")
  /\ early' = TRUE
  /\ UNCHANGED <<frames, answered, queue, workerVars>>

\* write_done("frame_done"): a write to the port that takes no mutex.
WriteFrameDone ==
  /\ mpc = "frameDone"
  /\ answered' = answered + 1
  /\ mpc' = "idle"
  /\ UNCHANGED <<idx, frames, queue, workerVars, early>>

ReadFlush ==
  /\ mpc = "idle"
  /\ mpc' = "enqueueExit"
  /\ UNCHANGED <<idx, frames, answered, queue, workerVars, early>>

EnqueueExit ==
  /\ mpc = "enqueueExit"
  /\ AddToQueue(idx, Exit)
  /\ Advance("enqueueExit", "join")
  /\ UNCHANGED <<frames, answered, held, delivered, mutex, early>>

\* Mutant of Joinable: flush() does not join its threads.
JoinableUnchecked(w) == TRUE

\* pthread_join returns once the thread has returned.
Joinable(w) == wpc[w] = "exited"

Join ==
  /\ mpc = "join"
  /\ Joinable(idx)
  /\ Advance("join", "flushDone")
  /\ UNCHANGED <<frames, answered, queue, workerVars, early>>

WriteFlushDone ==
  /\ mpc = "flushDone"
  /\ mpc' = "closed"
  /\ UNCHANGED <<idx, frames, answered, queue, workerVars, early>>

-----------------------------------------------------------------------------
(* Worker w: thread_proc.                                                  *)

\* WAIT_FOR_QUEUE: sleeps without looking at the queue.
WaitForQueue(w) ==
  /\ wpc[w] = "wait"
  /\ wpc' = [wpc EXCEPT ![w] = "asleep"]
  /\ UNCHANGED <<mainVars, queue, held, delivered, mutex>>

SpuriousWorker(w) ==
  /\ wpc[w] = "asleep"
  /\ wpc' = [wpc EXCEPT ![w] = "remove"]
  /\ UNCHANGED <<mainVars, queue, held, delivered, mutex>>

\* REMOVE_FROM_QUEUE found nothing: back to the outer loop.
RemoveNothing(w) ==
  /\ wpc[w] = "remove"
  /\ queue[w] = <<>>
  /\ wpc' = [wpc EXCEPT ![w] = "wait"]
  /\ UNCHANGED <<mainVars, queue, held, delivered, mutex>>

RemoveEntry(w) ==
  /\ wpc[w] = "remove"
  /\ queue[w] # <<>>
  /\ held' = [held EXCEPT ![w] = Head(queue[w])]
  /\ queue' = [queue EXCEPT ![w] = Tail(@)]
  /\ wpc' = [wpc EXCEPT ![w] = IF Head(queue[w]) = Exit THEN "flush" ELSE "execute"]
  /\ UNCHANGED <<mainVars, delivered, mutex>>

\* The downstream filter, executing or flushing, writes packets under the
\* output mutex (write_output_from_packet, write_output_from_frame).
BeginWrite(w) ==
  /\ wpc[w] \in {"execute", "flush"}
  /\ mutex = Free
  /\ mutex' = w
  /\ UNCHANGED <<mainVars, queue, wpc, held, delivered>>

EndWrite(w) ==
  /\ mutex = w
  /\ mutex' = Free
  /\ UNCHANGED <<mainVars, queue, wpc, held, delivered>>

\* Mutant of ExecuteEnd: the worker does not signal `complete`.
ExecuteEndUnsignalled(w) ==
  /\ wpc[w] = "execute"
  /\ mutex # w
  /\ delivered' = [delivered EXCEPT ![w] = held[w]]
  /\ wpc' = [wpc EXCEPT ![w] = "remove"]
  /\ UNCHANGED <<mainVars, queue, held, mutex>>

ExecuteEnd(w) ==
  /\ wpc[w] = "execute"
  /\ mutex # w
  /\ delivered' = [delivered EXCEPT ![w] = held[w]]
  /\ wpc' = [wpc EXCEPT ![w] = IF Sync THEN "complete" ELSE "remove"]
  /\ UNCHANGED <<mainVars, queue, held, mutex>>

\* The main thread owns complete_mutex of every worker except while it
\* waits for that one, so a worker gets in only then.
CompleteMutexFree(w) == mpc = "await" /\ idx = w

\* Lock complete_mutex, signal, unlock: the main thread's wait is over.
Complete(w) ==
  /\ wpc[w] = "complete"
  /\ CompleteMutexFree(w)
  /\ Advance("await", "frameDone")
  /\ wpc' = [wpc EXCEPT ![w] = "remove"]
  /\ UNCHANGED <<frames, answered, queue, held, delivered, mutex, early>>

FlushEnd(w) ==
  /\ wpc[w] = "flush"
  /\ mutex # w
  /\ wpc' = [wpc EXCEPT ![w] = "exited"]
  /\ UNCHANGED <<mainVars, queue, held, delivered, mutex>>

-----------------------------------------------------------------------------
Main ==
  \/ ReadFrame \/ EnqueueFrame \/ SpuriousMain \/ WriteFrameDone
  \/ ReadFlush \/ EnqueueExit \/ Join \/ WriteFlushDone

Worker(w) ==
  \/ WaitForQueue(w) \/ SpuriousWorker(w) \/ RemoveNothing(w) \/ RemoveEntry(w)
  \/ BeginWrite(w) \/ EndWrite(w) \/ ExecuteEnd(w) \/ Complete(w) \/ FlushEnd(w)

Next == Main \/ \E w \in Workers : Worker(w)

Spec == Init /\ [][Next]_vars

-----------------------------------------------------------------------------
(* Properties.                                                             *)

\* Each variable stays in its range.
TypeOK ==
  /\ mpc \in MainPC
  /\ idx \in Workers
  /\ frames \in 0..MaxFrames
  /\ answered \in Nat
  /\ queue \in [Workers -> Seq(0..MaxFrames)]
  /\ wpc \in [Workers -> WorkerPC]
  /\ held \in [Workers -> 0..MaxFrames]
  /\ delivered \in [Workers -> 0..MaxFrames]
  /\ mutex \in Workers \union {Free}
  /\ early \in BOOLEAN

\* write_done takes no output mutex (common.c:293), write_output_* do: a
\* reply is on its way to the port only while no worker writes a packet, a
\* "frame_done" as long as no wait of process() has ended early.
PortExclusive ==
  mpc = "flushDone" \/ (mpc = "frameDone" /\ ~early) => mutex = Free

\* Once flush() has joined the workers every branch has executed every frame
\* that was sent and left nothing behind in its queue.
FlushDrains ==
  mpc \in {"flushDone", "closed"} =>
    \A w \in Workers : delivered[w] = frames /\ queue[w] = <<>>

\* A branch executes the frames in the order they were sent, none skipped
\* and none twice, whatever the worker and the main thread interleave.
InOrder ==
  [][\A w \in Workers : delivered'[w] \in {delivered[w], delivered[w] + 1}]_vars

\* In sync mode process() leaves at most one entry with a worker, queued or
\* in hand, as long as no wait ended early: the wait for `complete` is the
\* only thing that bounds the queues.
Busy(w) == wpc[w] \in {"execute", "complete", "flush"}
Backlog(w) == Len(queue[w]) <= 1 /\ (Busy(w) => queue[w] = <<>>)
SyncBacklog == Sync /\ ~early => \A w \in Workers : Backlog(w)

\* The clones share the info behind frame->opaque, which an audio input frees
\* when send_to_graph returns (audio_encoded_input.c:63, audio_raw_input.c:41),
\* and the end of the command stream ends main and its threads (main.c:90).  In
\* sync mode, as long as no wait ended early, neither meets a worker in the
\* middle of a frame: a branch executes only the current frame, within
\* process(), and between two commands every branch has executed every frame.
WithinProcess ==
  Sync /\ ~early => \A w \in Workers :
    /\ wpc[w] = "execute" => mpc \in {"enqueue", "await"} /\ held[w] = frames
    /\ mpc = "idle" => delivered[w] = frames

\* The filter keeps the contract of FanOut: exactly-once delivery in order,
\* "frame_done" only when every branch is done, "flush_done" only when every
\* branch is flushed.  What goes after a wait that ended early is excepted.
Contract == INSTANCE FanOut WITH
  n <- N,
  sync <- Sync,
  submitted <- frames,
  flushing <- mpc \in {"enqueueExit", "join", "flushDone", "closed"},
  flushed <- [w \in Workers |-> wpc[w] = "exited"],
  closed <- mpc = "closed"
KeepsContract == Contract!Init /\ [][~early => Contract!Next]_(Contract!vars)

-----------------------------------------------------------------------------
(* The inductive invariant behind those properties.                        *)

ExitSent(w) ==
  \/ mpc \in {"join", "flushDone", "closed"}
  \/ mpc = "enqueueExit" /\ w < idx

FramesSent(w) == IF mpc = "enqueue" /\ idx <= w THEN frames - 1 ELSE frames

Ended(w) == wpc[w] \in {"flush", "exited"}

ExitQueued(w) == ExitSent(w) /\ ~Ended(w)

\* The last frame worker w took from its queue.
Taken(w) == delivered[w] + (IF wpc[w] = "execute" THEN 1 ELSE 0)

\* The queue q holds the frames taken+1..sent in order and, if exit, the exit
\* entry behind them; nothing else.
Holds(q, taken, sent, exit) ==
  /\ sent - taken \in Nat
  /\ Len(q) = sent - taken + (IF exit THEN 1 ELSE 0)
  /\ \A k \in 1..(sent - taken) : q[k] = taken + k
  /\ exit => q[Len(q)] = Exit

\* A queue holds exactly what was sent and not taken.
QueueInv(w) ==
  /\ Holds(queue[w], Taken(w), FramesSent(w), ExitQueued(w))
  /\ wpc[w] = "execute" => held[w] = delivered[w] + 1

\* Only a worker that took the exit entry, the last one, is flushed and
\* joined, and only a worker inside its branch holds the output mutex.
ThreadInv(w) ==
  /\ Ended(w) => ExitSent(w) /\ queue[w] = <<>>
  /\ mpc = "join" /\ w < idx => wpc[w] = "exited"
  /\ mpc \in {"flushDone", "closed"} => wpc[w] = "exited"
  /\ mutex = w => wpc[w] \in {"execute", "flush"}

\* A worker with nothing to do and nothing to report.
Settled(w) == queue[w] = <<>> /\ wpc[w] \in {"wait", "asleep", "remove"}

\* The workers the main thread has nothing outstanding with: all of them
\* between two frames, else those its loop has not reached or has passed.
AtRest(w) ==
  \/ mpc \in {"idle", "frameDone"}
  \/ mpc \in {"enqueue", "enqueueExit"} /\ idx <= w
  \/ mpc = "await" /\ w < idx

\* In sync mode only process() waits, and every frame is answered once.
AnswerInv ==
  /\ mpc \in {"await", "frameDone"} => Sync
  /\ Sync => answered = IF mpc \in {"enqueue", "await", "frameDone"} THEN frames - 1 ELSE frames

\* In sync mode the hand-over of `complete` keeps the workers at rest settled.
SyncInv(w) == Sync /\ ~early => Backlog(w) /\ (AtRest(w) => Settled(w))

\* Every loop of the main thread begins with its index at the first branch.
IndexReset == mpc \in {"idle", "frameDone", "flushDone", "closed"} => idx = 1

IndInv ==
  /\ TypeOK /\ IndexReset /\ AnswerInv
  /\ \A w \in Workers : QueueInv(w) /\ ThreadInv(w) /\ SyncInv(w)

-----------------------------------------------------------------------------
(* Liveness.  The kernel schedules every runnable thread, and a downstream *)
(* filter's execute and flush return after finitely many packets; what the *)
(* host sends, and when, is its own choice.                                *)

MainFairness ==
  /\ WF_vars(EnqueueFrame) /\ WF_vars(WriteFrameDone)
  /\ WF_vars(EnqueueExit) /\ WF_vars(Join) /\ WF_vars(WriteFlushDone)

WorkerFairness(w) ==
  /\ WF_vars(WaitForQueue(w)) /\ WF_vars(RemoveNothing(w)) /\ WF_vars(RemoveEntry(w))
  /\ WF_vars(EndWrite(w)) /\ WF_vars(Complete(w))
  /\ SF_vars(ExecuteEnd(w)) /\ SF_vars(FlushEnd(w))

FairSpec == Spec /\ MainFairness /\ \A w \in Workers : WorkerFairness(w)

\* A worker sleeps although there is work in its queue: the signal of
\* ADD_TO_QUEUE came after its last look at the queue and before its wait.
Stranded(w) == wpc[w] = "asleep" /\ queue[w] # <<>>

\* flush() joins a worker that waits for its complete_mutex, which the main
\* thread owns again since its wait for that worker ended early.
Overtaken(w) == mpc = "join" /\ idx = w /\ wpc[w] = "complete" /\ early

\* Those are the only two ways to hang, the second only after a spurious
\* wakeup: else every command is answered.
AnsweredUnlessHung ==
  mpc # "idle" ~> \/ mpc \in {"idle", "closed"}
                  \/ \E w \in Workers : Stranded(w) \/ Overtaken(w)

\* main.c:58 answers every flush with "flush_done".
FlushAnswered == mpc = "enqueueExit" ~> mpc = "closed"
=============================================================================
