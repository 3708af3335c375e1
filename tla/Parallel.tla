------------------------------ MODULE Parallel ------------------------------
(***************************************************************************)
(* The "parallel" filter (c_src/parallel_filter.c) under the command loop  *)
(* of c_src/main.c: the main thread lends the one inbound frame to N       *)
(* workers through a pointer, triggers each, and waits until each is       *)
(* complete before process() returns, in async mode too.  With fewer than  *)
(* two branches there are no workers and the frame is passed through.      *)
(*                                                                         *)
(* A worker owns its trigger mutex from its first instruction on, except   *)
(* inside pthread_cond_wait; the main thread owns every complete mutex,    *)
(* except the one it waits on.  pthread_cond_wait may also return without  *)
(* a signal, which POSIX permits.                                          *)
(***************************************************************************)
EXTENDS Integers

CONSTANTS
  N,          \* bound on num_downstream_filters
  MaxFrames   \* bound on the frames the host sends before its flush

ASSUME ConstantsAssumption == N \in Nat \ {0} /\ MaxFrames \in Nat

Threads == 1..N

\* No frame; the main thread's place among the holders of the output mutex;
\* nobody holds it.
None == 0
MainThread == 0
Free == -1

VARIABLES
  n,          \* num_downstream_filters, fixed by initialise
  sync,       \* sync_mode, fixed by initialise
  mpc,        \* where the main thread is
  idx,        \* the loop index of process() and flush_graph()
  frames,     \* process_frame commands read so far
  answered,   \* "frame_done" replies written so far
  inbound,    \* this->inbound_frame
  wpc,        \* where worker w is in thread_proc, "none" without a thread
  held,       \* held[w]: the frame worker w passed to execute
  delivered,  \* delivered[b]: the last frame branch b executed
  flushed,    \* flushed[b]: the main thread has flushed branch b
  mutex,      \* holder of the output mutex of common.c, or Free
  early       \* history: a wait has ended without a signal

setup == <<n, sync>>
vars == <<setup, mpc, idx, frames, answered, inbound, wpc, held, delivered,
          flushed, mutex, early>>
mainVars == <<setup, mpc, idx, frames, answered, inbound, flushed>>
workerVars == <<wpc, held, delivered, mutex>>

MainPC == {"idle", "passing", "trigger", "await", "frameDone", "flush", "flushDone", "closed"}
WorkerPC == {"none", "start", "asleep", "woken", "execute", "complete", "loop"}

\* The branches, and the workers: init() makes a thread per branch unless the
\* filter passes frames through.
Branches == 1..n
PassThrough == n < 2
Workers == IF PassThrough THEN {} ELSE Branches

Init ==
  /\ n \in Threads
  /\ sync \in BOOLEAN
  /\ mpc = "idle"
  /\ idx = 1
  /\ frames = 0
  /\ answered = 0
  /\ inbound = None
  /\ wpc = [w \in Threads |-> IF w \in Workers THEN "start" ELSE "none"]
  /\ held = [w \in Threads |-> None]
  /\ delivered = [b \in Threads |-> 0]
  /\ flushed = [b \in Threads |-> FALSE]
  /\ mutex = Free
  /\ early = FALSE

-----------------------------------------------------------------------------
(* The main thread.                                                        *)

Advance(loop, after) ==
  IF idx < n
  THEN idx' = idx + 1 /\ mpc' = loop
  ELSE idx' = 1 /\ mpc' = after

\* Mutant of AfterProcess: the reply is sent in async mode instead.
AfterProcessInverted == IF sync THEN "idle" ELSE "frameDone"

\* Where process_frame goes once execute has returned.
AfterProcess == IF sync THEN "frameDone" ELSE "idle"

ReadFrame ==
  /\ mpc = "idle"
  /\ frames < MaxFrames
  /\ frames' = frames + 1
  /\ IF PassThrough
     THEN mpc' = "passing" /\ UNCHANGED inbound
     ELSE mpc' = "trigger" /\ inbound' = frames + 1
  /\ UNCHANGED <<setup, idx, answered, flushed, workerVars, early>>

\* send_to_graph: the branches execute on the main thread.
PassOn ==
  /\ mpc = "passing"
  /\ mutex # MainThread
  /\ delivered' = [delivered EXCEPT ![idx] = frames]
  /\ Advance("passing", AfterProcess)
  /\ UNCHANGED <<setup, frames, answered, inbound, flushed, wpc, held, mutex, early>>

\* Mutant of TriggerMutexFree: a worker does not keep its trigger mutex from
\* `complete` to its next wait.
TriggerMutexDropped(w) == wpc[w] \in {"start", "asleep", "woken", "loop"}

\* The trigger mutex of w is free only while w waits or has not begun.
TriggerMutexFree(w) == wpc[w] \in {"start", "asleep", "woken"}

\* Mutant of Trigger: process() returns without waiting for the workers.
TriggerOnly ==
  /\ mpc = "trigger"
  /\ TriggerMutexFree(idx)
  /\ wpc' = [wpc EXCEPT ![idx] = IF @ = "asleep" THEN "woken" ELSE @]
  /\ Advance("trigger", AfterProcess)
  /\ UNCHANGED <<setup, frames, answered, inbound, flushed, held, delivered, mutex, early>>

\* Lock, signal, unlock: lost on a worker that is not asleep.
Trigger ==
  /\ mpc = "trigger"
  /\ TriggerMutexFree(idx)
  /\ wpc' = [wpc EXCEPT ![idx] = IF @ = "asleep" THEN "woken" ELSE @]
  /\ Advance("trigger", "await")
  /\ UNCHANGED <<setup, frames, answered, inbound, flushed, held, delivered, mutex, early>>

SpuriousMain ==
  /\ mpc = "await"
  /\ Advance("await", AfterProcess)
  /\ early' = TRUE
  /\ UNCHANGED <<setup, frames, answered, inbound, flushed, workerVars>>

WriteFrameDone ==
  /\ mpc = "frameDone"
  /\ answered' = answered + 1
  /\ mpc' = "idle"
  /\ UNCHANGED <<setup, idx, frames, inbound, flushed, workerVars, early>>

ReadFlush ==
  /\ mpc = "idle"
  /\ mpc' = "flush"
  /\ UNCHANGED <<setup, idx, frames, answered, inbound, flushed, workerVars, early>>

\* flush_graph: the branches are flushed on the main thread, one by one.
FlushBranch ==
  /\ mpc = "flush"
  /\ mutex # MainThread
  /\ flushed' = [flushed EXCEPT ![idx] = TRUE]
  /\ Advance("flush", "flushDone")
  /\ UNCHANGED <<setup, frames, answered, inbound, workerVars, early>>

WriteFlushDone ==
  /\ mpc = "flushDone"
  /\ mpc' = "closed"
  /\ UNCHANGED <<setup, idx, frames, answered, inbound, flushed, workerVars, early>>

\* A branch run by the main thread writes packets under the output mutex.
MainBeginWrite ==
  /\ mpc \in {"passing", "flush"}
  /\ mutex = Free
  /\ mutex' = MainThread
  /\ UNCHANGED <<mainVars, wpc, held, delivered, early>>

MainEndWrite ==
  /\ mutex = MainThread
  /\ mutex' = Free
  /\ UNCHANGED <<mainVars, wpc, held, delivered, early>>

-----------------------------------------------------------------------------
(* Worker w: thread_proc.                                                  *)

\* pthread_cond_wait on trigger: gives the trigger mutex back.  At "start"
\* the worker takes the mutex first, which the main thread never keeps.
WaitTrigger(w) ==
  /\ wpc[w] \in {"start", "loop"}
  /\ wpc' = [wpc EXCEPT ![w] = "asleep"]
  /\ UNCHANGED <<mainVars, held, delivered, mutex, early>>

SpuriousWorker(w) ==
  /\ wpc[w] = "asleep"
  /\ wpc' = [wpc EXCEPT ![w] = "woken"]
  /\ early' = TRUE
  /\ UNCHANGED <<mainVars, held, delivered, mutex>>

\* The wait returns with the mutex and execute gets the current pointer; what a
\* branch makes of a stale one, after an early wait, is not modelled.
BeginExecute(w) ==
  /\ wpc[w] = "woken"
  /\ wpc' = [wpc EXCEPT ![w] = "execute"]
  /\ held' = [held EXCEPT ![w] = inbound]
  /\ UNCHANGED <<mainVars, delivered, mutex, early>>

BeginWrite(w) ==
  /\ wpc[w] = "execute"
  /\ mutex = Free
  /\ mutex' = w
  /\ UNCHANGED <<mainVars, wpc, held, delivered, early>>

EndWrite(w) ==
  /\ mutex = w
  /\ mutex' = Free
  /\ UNCHANGED <<mainVars, wpc, held, delivered, early>>

ExecuteEnd(w) ==
  /\ wpc[w] = "execute"
  /\ mutex # w
  /\ delivered' = [delivered EXCEPT ![w] = held[w]]
  /\ wpc' = [wpc EXCEPT ![w] = "complete"]
  /\ UNCHANGED <<mainVars, held, mutex, early>>

\* Mutant of CompleteMutexFree: the main thread keeps the mutex of the worker
\* it waits for and gives up the others.
CompleteMutexKept(w) == mpc = "await" /\ idx # w

CompleteMutexFree(w) == mpc = "await" /\ idx = w

\* Lock complete_mutex, signal, unlock: the main thread's wait is over.
Complete(w) ==
  /\ wpc[w] = "complete"
  /\ CompleteMutexFree(w)
  /\ Advance("await", AfterProcess)
  /\ wpc' = [wpc EXCEPT ![w] = "loop"]
  /\ UNCHANGED <<setup, frames, answered, inbound, flushed, held, delivered, mutex, early>>

-----------------------------------------------------------------------------
Main ==
  \/ ReadFrame \/ PassOn \/ Trigger \/ SpuriousMain \/ WriteFrameDone
  \/ ReadFlush \/ FlushBranch \/ WriteFlushDone \/ MainBeginWrite \/ MainEndWrite

Worker(w) ==
  \/ WaitTrigger(w) \/ SpuriousWorker(w) \/ BeginExecute(w)
  \/ BeginWrite(w) \/ EndWrite(w) \/ ExecuteEnd(w) \/ Complete(w)

Next == Main \/ \E w \in Threads : Worker(w)

Spec == Init /\ [][Next]_vars

-----------------------------------------------------------------------------
(* Properties.                                                             *)

\* Each variable stays in its range, a loop index among the branches.
TypeOK ==
  /\ n \in Threads
  /\ sync \in BOOLEAN
  /\ mpc \in MainPC
  /\ idx \in Branches
  /\ frames \in 0..MaxFrames
  /\ answered \in Nat
  /\ inbound \in 0..MaxFrames
  /\ wpc \in [Threads -> WorkerPC]
  /\ held \in [Threads -> 0..MaxFrames]
  /\ delivered \in [Threads -> 0..MaxFrames]
  /\ flushed \in [Threads -> BOOLEAN]
  /\ mutex \in Workers \union {MainThread, Free}
  /\ early \in BOOLEAN

\* The frame is lent, not cloned: a worker executes it only while process()
\* has not returned, and it is the frame of this command. The worker and the
\* loop index it depends on are those of a branch.
LentFrame ==
  /\ TypeOK
  /\ ~early => \A w \in Workers : wpc[w] = "execute" =>
       mpc \in {"trigger", "await"} /\ held[w] = frames

\* No branch is flushed while its worker may still be executing, and no reply
\* goes to the port (common.c:293 takes no mutex) while a packet is written.
Alone ==
  ~early /\ mpc \in {"frameDone", "flush", "flushDone", "idle"} =>
    (\A w \in Workers : wpc[w] \notin {"woken", "execute", "complete"})
    /\ mutex \notin Workers

\* The filter keeps the contract of FanOut, with threads and without, until a
\* wait ends early.
Contract == INSTANCE FanOut WITH
  submitted <- frames,
  delivered <- [b \in Branches |-> delivered[b]],
  flushing <- mpc \in {"flush", "flushDone", "closed"},
  flushed <- [b \in Branches |-> flushed[b]],
  closed <- mpc = "closed"
KeepsContract == Contract!Init /\ [][~early => Contract!Next]_(Contract!vars)

-----------------------------------------------------------------------------
(* Liveness.  Threads are scheduled and downstream filters return; what the *)
(* host sends, and when, is its own choice.                                *)

MainFairness ==
  /\ WF_vars(Trigger) /\ WF_vars(WriteFrameDone) /\ WF_vars(WriteFlushDone)
  /\ WF_vars(MainEndWrite) /\ SF_vars(PassOn) /\ SF_vars(FlushBranch)

WorkerFairness(w) ==
  /\ WF_vars(WaitTrigger(w)) /\ WF_vars(BeginExecute(w))
  /\ WF_vars(EndWrite(w)) /\ WF_vars(Complete(w)) /\ SF_vars(ExecuteEnd(w))

FairSpec == Spec /\ MainFairness /\ \A w \in Threads : WorkerFairness(w)

\* The main thread waits for a worker that sleeps: its trigger came when
\* nobody waited for it.
Missed(w) == mpc = "await" /\ idx = w /\ wpc[w] = "asleep"

\* Each holds the mutex the other wants: a worker that was not triggered has
\* executed the pointer it found and wants to report that.
Wedged(w) == mpc = "trigger" /\ idx = w /\ wpc[w] = "complete"

\* Those two are the only ways to hang, early waits or not.
AnsweredUnlessStuck ==
  mpc # "idle" ~> \/ mpc \in {"idle", "closed"}
                  \/ \E w \in Workers : Missed(w) \/ Wedged(w)

\* Until a wait ends early the second never happens, and the first only to the
\* first frame: a worker that has executed one waits for the next trigger
\* before the main thread can send it.
MissedOnlyFirst ==
  ~early => \A w \in Workers : ~Wedged(w) /\ (Missed(w) => frames = 1)
=============================================================================
