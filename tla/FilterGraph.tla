----------------------------- MODULE FilterGraph -----------------------------
(***************************************************************************)
(* A graph of filters at work: every filter executes on what its upstream  *)
(* filter sends (send_to_graph), and flush passes from filter to filter    *)
(* (flush_graph), after the graph has been built.                          *)
(*                                                                         *)
(* A frame is what the filters rely on without a check: where its info is, *)
(* whether the timebase it is sent with means anything, whether its sample *)
(* rate is set.  Calls wait to be executed in any order, which covers the  *)
(* sequential loops and the threads of the parallel filters; one frame is  *)
(* on its way at a time (overlapping frames are the subject of             *)
(* AsyncParallel), but a flush overtakes what async_parallel has queued.   *)
(***************************************************************************)
EXTENDS GraphBuild

CONSTANT MaxFrames  \* bound on the frames an input sends

ASSUME MaxFramesAssumption == MaxFrames \in Nat

VideoInputs == {"encoded video input", "raw video input", "raw video generator"}
Outputs == {"raw audio output", "encoded audio output", "raw video output", "encoded video output"}
OnlyAudio == {"audio resampler", "silence detect", "stereo splitter",
              "raw audio output", "encoded audio output"}
OnlyVideo == {"video rescaler", "black detect", "effects processor",
              "raw video output", "encoded video output"}

\* A host builds a graph behind one input, of filters of its medium.
ASSUME MediumAssumption ==
  \A t \in Terms :
    /\ t[1].name \in Inputs
    /\ \A k \in 2..Len(t) : t[k].name \notin Inputs \union
         (IF t[1].name \in VideoInputs THEN OnlyAudio ELSE OnlyVideo)

VARIABLES
  frames,    \* frames sent by the input
  calls,     \* executes to come: the filter called and the frame it gets
  flushing,  \* filters whose flush has been called
  flushed    \* filters whose flush has passed on to those downstream

vars == <<phase, buildVars, frames, calls, flushing, flushed>>

Frame == [info : {"none", "side", "opaque"}, timebase : BOOLEAN, rate : BOOLEAN]

Init ==
  /\ BuildInit
  /\ frames = 0
  /\ calls = {}
  /\ flushing = {}
  /\ flushed = {}

-----------------------------------------------------------------------------
(* The inputs: the frame each sends.                                       *)

\* A video frame carries its info as side data, an audio frame in its opaque
\* pointer.  The raw video inputs get an info from the host and drop it, the
\* raw audio input has a sample rate and does not set the frame's.
DecodedVideo == [info |-> "side", timebase |-> TRUE, rate |-> FALSE]
DecodedAudio == [info |-> "opaque", timebase |-> TRUE, rate |-> TRUE]
RawVideo == [info |-> "none", timebase |-> TRUE, rate |-> FALSE]
RawAudio == [info |-> "opaque", timebase |-> TRUE, rate |-> FALSE]
Generated == [info |-> "none", timebase |-> TRUE, rate |-> FALSE]

InputFrame ==
  CASE Name(1) = "encoded video input" -> DecodedVideo
    [] Name(1) = "encoded audio input" -> DecodedAudio
    [] Name(1) = "raw video input" -> RawVideo
    [] Name(1) = "raw audio input" -> RawAudio
    [] Name(1) = "raw video generator" -> Generated

-----------------------------------------------------------------------------
(* The filters: the frames each may send for frame f.                      *)

\* Mutant of Rescaled: the properties are not copied to the new frame.
RescaledBare(f) == {[f EXCEPT !.info = "none"]}

Rescaled(f) == {f}

\* Mutant of Resampled: the sample rate of the new frame is not set.
ResampledBare(f) == {f}

\* A frame of its own, with the info and the timestamp of the one it got.
Resampled(f) == {[f EXCEPT !.rate = TRUE]}

\* Its children are called without the third argument of execute.
Split(f) == {[f EXCEPT !.timebase = FALSE]}

\* libavfilter may lose the side data, and the timebase is its own.
Affected(f) ==
  {[f EXCEPT !.timebase = TRUE, !.info = info] : info \in {f.info, "none"}}

\* No output calls send_to_graph.
Sent(name, f) ==
  CASE name = "video rescaler" -> Rescaled(f)
    [] name = "audio resampler" -> Resampled(f)
    [] name = "stereo splitter" -> Split(f)
    [] name = "effects processor" -> Affected(f)
    [] name \in Outputs -> {}
    [] OTHER -> {f}

\* What a filter dereferences or computes with as it finds it.
NeedsInfo(name) ==
  CASE name \in {"black detect", "encoded video output"} -> "side"
    [] name \in {"silence detect", "encoded audio output"} -> "opaque"
    [] OTHER -> "none"
UsesTimebase == {"encoded video output", "effects processor"}
UsesRate == {"silence detect", "raw audio output"}

-----------------------------------------------------------------------------
(* Frames on their way.                                                    *)

\* The filter and those its frames get to, and the filters a filter's frames
\* come through.
Nested(k) == k..LastOf(k)
Upstream(k) == {j \in DOMAIN term : k \in Nested(j) \ {j}}

\* send_to_graph
SendToGraph(k, f) == {[node |-> d, frame |-> f] : d \in ToSet(downstream[k])}

ProcessFrame ==
  /\ phase = "run"
  /\ calls = {}
  /\ frames < MaxFrames
  /\ frames' = frames + 1
  /\ calls' = SendToGraph(1, InputFrame)
  /\ UNCHANGED <<phase, buildVars, flushing, flushed>>

InfoMissing(c) == NeedsInfo(Name(c.node)) \notin {"none", c.frame.info}

Execute(c) ==
  /\ phase \in {"run", "flush"}
  /\ ~InfoMissing(c)
  /\ \E f \in Sent(Name(c.node), c.frame) :
       calls' = (calls \ {c}) \union SendToGraph(c.node, f)
  /\ UNCHANGED <<phase, buildVars, frames, flushing, flushed>>

\* An output writes its packet or none; the effects processor may keep a frame
\* to itself.
KeepFrame(c) ==
  /\ phase \in {"run", "flush"}
  /\ ~InfoMissing(c)
  /\ Name(c.node) \in Outputs \union {"effects processor"}
  /\ calls' = calls \ {c}
  /\ UNCHANGED <<phase, buildVars, frames, flushing, flushed>>

\* The filter dereferences an info that is not there.
Crash(c) ==
  /\ phase \in {"run", "flush"}
  /\ InfoMissing(c)
  /\ phase' = "crashed"
  /\ UNCHANGED <<buildVars, frames, calls, flushing, flushed>>

-----------------------------------------------------------------------------
(* Flush.                                                                  *)

\* Nothing is on its way at or below filter k but what an async_parallel
\* filter there has queued for its own threads: process() of parallel, and of
\* async_parallel in sync mode, returns when every branch is done.  That holds
\* until one of their waits ends early (Parallel, AsyncParallel); a parallel
\* that returns early is outside this module.
Quiet(k) ==
  \A c \in calls : c.node \in Nested(k) =>
    \E a \in Nested(k) : Name(a) = "async_parallel" /\ c.node \in Nested(a) \ {a}

ReadFlush ==
  /\ phase = "run"
  /\ Quiet(1)
  /\ phase' = "flush"
  /\ flushing' = {1}
  /\ UNCHANGED <<buildVars, frames, calls, flushed>>

\* The encoded video input gets what its decoder has kept before it flushes
\* the graph.
DrainFrame ==
  /\ phase = "flush"
  /\ 1 \in flushing
  /\ Name(1) = "encoded video input"
  /\ calls = {}
  /\ frames < MaxFrames
  /\ frames' = frames + 1
  /\ calls' = SendToGraph(1, InputFrame)
  /\ UNCHANGED <<phase, buildVars, flushing, flushed>>

\* Mutant of FlushGraph: every filter nested in k is flushed at once.
FlushGraphNested(k) == Nested(k) \ {k}

\* flush_graph, which the flush of two outputs does not call.
EndsFlush == {"raw audio output", "encoded video output"}
FlushGraph(k) == IF Name(k) \in EndsFlush THEN {} ELSE ToSet(downstream[k])

FlushFilter(k) ==
  /\ phase = "flush"
  /\ Quiet(k)
  /\ flushing' = (flushing \ {k}) \union FlushGraph(k)
  /\ flushed' = flushed \union {k}
  /\ UNCHANGED <<phase, buildVars, frames, calls>>

WriteFlushDone ==
  /\ phase = "flush"
  /\ flushing = {}
  /\ phase' = "closed"
  /\ UNCHANGED <<buildVars, frames, calls, flushing, flushed>>

Run ==
  \/ ProcessFrame \/ ReadFlush \/ DrainFrame \/ WriteFlushDone
  \/ \E c \in calls : Execute(c) \/ KeepFrame(c) \/ Crash(c)
  \/ \E k \in flushing : FlushFilter(k)

Next == (Build /\ UNCHANGED <<frames, calls, flushing, flushed>>) \/ Run

Spec == Init /\ [][Next]_vars

-----------------------------------------------------------------------------
(* Properties.                                                             *)

\* A filter gets a frame without the info it dereferences unchecked
\* (video_black_detect.c:76, frame_info_queue.c:44, common.c:357) only behind a
\* raw video input or behind an effects processor: no other filter on the way
\* loses the info an input gave its frames.
InfoReaches ==
  \A c \in calls : InfoMissing(c) =>
    \/ Name(1) \in {"raw video input", "raw video generator"}
    \/ \E j \in Upstream(c.node) : Name(j) = "effects processor"

\* A filter that computes with the timebase gets one, although the stereo
\* splitter passes none on.  One that computes with the frame's sample rate
\* gets a rate, but for exactly one case: behind the raw audio input, which
\* leaves it 0, with no resampler on the way to set it.
AttributesReach ==
  \A c \in calls :
    /\ Name(c.node) \in UsesTimebase => c.frame.timebase
    /\ Name(c.node) \in UsesRate =>
         (c.frame.rate <=> \/ Name(1) # "raw audio input"
                           \/ \E j \in Upstream(c.node) : Name(j) = "audio resampler")

\* No filter executes after its flush, though frames come out of a decoder
\* while the graph is being flushed and async threads lag behind; "flush_done"
\* is written when no frame is on its way and every filter has been flushed
\* but those a host put behind an output that flushes nothing further.
FlushLast ==
  /\ \A c \in calls : c.node \notin flushed
  /\ phase = "closed" =>
       /\ flushed = {k \in DOMAIN term : \A j \in Upstream(k) : Name(j) \notin EndsFlush}
       /\ calls = {}
=============================================================================
