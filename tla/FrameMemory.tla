----------------------------- MODULE FrameMemory -----------------------------
(***************************************************************************)
(* What an async branch reads when it executes a frame.  The clone that    *)
(* async_parallel_filter.c:128 queues is av_frame_clone's: it shares the   *)
(* buffer of a frame that has one, and copies the data of one that has     *)
(* none; side data is copied with it, the pointer frame->opaque is not     *)
(* followed.  The filter that sends the frames is one of four kinds, by    *)
(* the memory behind them:                                                 *)
(*   "copied"   data without a buffer: the raw inputs, and the right frame *)
(*              of the stereo splitter;                                    *)
(*   "counted"  a buffer for each frame, given up after sending: the       *)
(*              encoded inputs, the video rescaler and the effects         *)
(*              processor;                                                 *)
(*   "lent"     a buffer, but the data is the upstream frame's: the left   *)
(*              frame of the stereo splitter;                              *)
(*   "reused"   the same memory for every frame: the audio resampler and   *)
(*              the raw video generator.                                   *)
(* Audio frames carry their info in the opaque pointer.                    *)
(***************************************************************************)
EXTENDS AsyncParallel, FiniteSets

CONSTANT Sources  \* kinds of sender considered

Kinds == {"copied", "counted", "lent", "reused"}

ASSUME SourcesAssumption == Sources \subseteq [kind : Kinds, opaque : BOOLEAN]

VARIABLES
  source,  \* the filter that sends the frames
  refs     \* refs[f]: references to the memory held for frame f, by its sender while
           \* it sends the frame and by its clones; the one that a resampler or a
           \* splitter keeps between frames is not counted

memoryVars == <<source, refs>>

Frames == 1..MaxFrames

InitMemory ==
  /\ Init
  /\ source \in Sources
  /\ refs = [f \in Frames |-> 0]

\* The sender is in send_to_graph with frame f.
Sending(f) == mpc \in {"enqueue", "await"} /\ f = frames

\* The sender gets a buffer and fills it.
FillFrame ==
  /\ ReadFrame
  /\ refs' = [refs EXCEPT ![frames + 1] = 1]
  /\ UNCHANGED source

\* Mutant of Shared: the clone points to the buffer without a reference.
SharedUncounted(f) == 0

\* References to the buffer of frame f that a clone of it adds.
Shared(f) == IF source.kind = "copied" THEN 0 ELSE 1

\* Enqueue the clone; when that was the last branch and process() does not
\* wait, the sender gives its own reference up on return.
CloneFrame ==
  /\ EnqueueFrame
  /\ refs' = [refs EXCEPT ![frames] = @ + Shared(frames) - (IF mpc' = "idle" THEN 1 ELSE 0)]
  /\ UNCHANGED source

\* In sync mode that is when the last branch has been waited for.
GiveUp ==
  refs' = IF mpc = "await" /\ mpc' = "frameDone" THEN [refs EXCEPT ![frames] = @ - 1] ELSE refs

\* Mutant of FreeFrame: the entry is freed without its frame.
FreeFrameKept(f) == UNCHANGED refs

\* av_frame_free of the clone
FreeFrame(f) == refs' = [refs EXCEPT ![f] = @ - Shared(f)]

MainGoesOn ==
  /\ SpuriousMain \/ WriteFrameDone \/ ReadFlush \/ EnqueueExit \/ Join \/ WriteFlushDone
  /\ GiveUp
  /\ UNCHANGED source

ExecuteClone(w) == ExecuteEnd(w) /\ FreeFrame(held[w]) /\ UNCHANGED source

WorkerGoesOn(w) ==
  /\ \/ WaitForQueue(w) \/ SpuriousWorker(w) \/ RemoveNothing(w) \/ RemoveEntry(w)
     \/ BeginWrite(w) \/ EndWrite(w) \/ Complete(w) \/ FlushEnd(w)
  /\ GiveUp
  /\ UNCHANGED source

NextMemory ==
  \/ FillFrame \/ CloneFrame \/ MainGoesOn
  \/ \E w \in Workers : ExecuteClone(w) \/ WorkerGoesOn(w)

SpecMemory == InitMemory /\ [][NextMemory]_<<vars, memoryVars>>

-----------------------------------------------------------------------------
(* Properties.                                                             *)

\* The data of frame f is still what it was when the frame was sent.
DataKept(f) ==
  CASE source.kind = "copied" -> TRUE
    [] source.kind = "counted" -> refs[f] > 0
    [] source.kind = "lent" -> Sending(f)
    [] source.kind = "reused" -> f = frames

\* The info of frame f has not been freed by the input that sent it.
InfoKept(f) == source.opaque => Sending(f)

\* A branch reads the data and the info of its own frame: in any mode if they
\* are the clone's, else in sync mode as long as no wait of process() has
\* ended early (audio_encoded_input.c:63, audio_raw_input.c:41,
\* audio_resample_filter.c:29, video_raw_generator.c:60, stereo_splitter.c:152).
InSync == Sync /\ ~early
OwnData ==
  \A w \in Workers : wpc[w] = "execute" =>
    /\ source.kind \in {"copied", "counted"} \/ InSync => DataKept(held[w])
    /\ ~source.opaque \/ InSync => InfoKept(held[w])

\* The branches that have been sent frame f and have yet to execute it.
Users(f) == {w \in Workers : delivered[w] < f /\ f <= FramesSent(w)}

\* A buffer has as many references as the frames that use it: the sender's
\* and, if shared, the clone of every user.
RefsCounted ==
  \A f \in Frames :
    refs[f] = (IF Sending(f) THEN 1 ELSE 0) + Shared(f) * Cardinality(Users(f))

\* When the flush is answered every buffer has been freed, once.
BuffersFreed == mpc = "closed" => \A f \in Frames : refs[f] = 0
=============================================================================
