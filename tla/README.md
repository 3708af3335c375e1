# Verification of id3as.media.c

TLA+ models of the C port program under `c_src/`, checked with TLC, with proofs
checked by TLAPS. The repository has no documentation and no tests; the models
are translated from its code. External code (libav, `i_port`, `i_utils`,
pthreads) is modelled from how the code uses it.

## The system

An Erlang node starts the program as a port and sends it commands: `initialise`
with a mode and a tree of filters, `process_frame` with metadata, a frame info
and data, `flush`. The root of the tree is an input filter, its inner nodes
convert, inspect or fan out frames, its leaves write packets back to the port.

| Part | Source | State | Operations | Interacts with |
|---|---|---|---|---|
| command loop | `main.c` | `input`, `sync_mode`, read buffers | initialise, process_frame, flush | calls the root filter, writes `frame_done`, `flush_done` |
| registry, graph construction | `filters.c`, `main.c` | list of filters, tree of instances | find, allocate, init | threads start while the tree is read |
| port output, dispatch | `common.c` | output mutex, static buffers | write_done, write_output_from_*, send_to_graph, flush_graph | called from the main thread and from workers |
| `async_parallel` | `async_parallel_filter.c` | a queue, a thread, `complete` per branch | process, flush, thread_proc | clones frames to threads |
| `parallel` | `parallel_filter.c` | a thread, `trigger`, `complete` per branch, `inbound_frame` | process, flush, thread_proc | lends the frame to threads |
| frame info queue | `frame_info_queue.c` | linked list | queue, get | decoder and encoder filters |
| encoded video input | `video_encoded_input.c` | decoder, info queue | process, flush | infos to side data of frames |
| encoded video output | `video_encoded_output.c` | encoder, info queue | process, flush, do_init | infos of frames to packets |
| encoded audio input | `audio_encoded_input.c` | decoder | process, flush | info lent through `opaque` |
| encoded audio output | `audio_encoded_output.c` | encoder, operating buffer | process, flush | writes packets |
| black detect | `video_black_detect.c` | two counters, the flag | process | flag in the info of the frame |
| silence detect | `audio_silence_detect.c` | two counters, the flag | process | the same, through `opaque` |
| raw inputs, generator, outputs, rescale, resample, splitter, effects | the other files | one reused frame each | process, flush | pass frames on |

What is hard about it: two hand-written thread protocols on condition variables
without predicates; one port written by several threads, partly without the
mutex; frames and infos whose owner goes on while threads still read them;
matching infos to frames that codecs reorder, delay and drop, where a miss ends
the program; cutting samples of any length into frames of a fixed length with
timestamps in integer arithmetic; int arithmetic on pixel and sample sums.

What makes each part correct: a frame reaches every branch once and in order, a
reply tells the truth, a flush loses nothing, nobody waits for ever (threads);
a frame is read only while it is lent (ownership); a frame leaves with its own
info and no needed info is dropped (info queue and codecs); samples are
contiguous and their timestamps close to the host's (audio); the flag follows
the frames with its durations respected (detectors).

## Modules

Which modules build on which: `FanOut` is implemented by `AsyncParallel` and
`Parallel`; `FrameMemory` extends `AsyncParallel`; `FrameInfo` is under
`FrameInfoStore`, `VideoInput` and `VideoOutput`; `FrameInfoList` implements
`FrameInfoStore`; `AudioPath` composes `AudioInput` and `AudioOutput`;
`FilterGraph` extends `GraphBuild`. A module `MCx` instantiates `x` for TLC.

`FanOut` is the abstract contract of the two threaded filters: frames
submitted, delivered per branch, answered; flush requested, done per branch,
answered.

`AsyncParallel` has one variable per thread position (`mpc`, `wpc[w]`), the
queues, the entry in hand, the output mutex. `EnqueueFrame` and `EnqueueExit`
are turns of the loops of `process()` and `flush()` with the macro
`ADD_TO_QUEUE`; `WaitForQueue`, `RemoveNothing`, `RemoveEntry`, `ExecuteEnd`,
`Complete`, `FlushEnd` are the steps of `thread_proc`. A critical section that
does not wait inside is one step. The wait for `complete` is the await state of
the main thread: it owns every `complete_mutex` but the one it waits on, so a
worker's signal arrives exactly then (`CompleteMutexFree`). A downstream filter
is a span between taking an entry and `ExecuteEnd`, in which it may hold the
output mutex (`BeginWrite`, `EndWrite`).

`FrameMemory` adds to it whose memory a frame is. A clone shares the buffer of a
frame that has one and copies the data of one that has none, but the pointer
`opaque` is not followed. The senders are of four kinds: data without a buffer
(raw inputs; the right frame of the splitter, whose buffer allocation fails
because `stereo_splitter.c:91` sets the left frame's `nb_samples` a second
time), a counted buffer for each frame (encoded inputs, rescaler, effects
processor), a buffer whose data pointer is the upstream frame's (the left
frame), and one memory for every frame (resampler, generator). `refs` counts the
references held for each frame, by its sender while it sends and by its clones;
`FillFrame`, `CloneFrame`, `GiveUp` and `FreeFrame` change it.

`Parallel` models the other filter the same way: `Trigger`, `BeginExecute`
(which reads `inbound`, the shared pointer), `Complete`. A worker keeps its
trigger mutex except while it waits. Flush runs the branches on the main thread.
With one branch there are no workers (`PassThrough`).

`FrameInfo` holds the operators of the info queue on sequences,
`FrameInfoStore` the queue with one step per call, `FrameInfoList` the linked
list: addresses that are allocated and freed, the walk of `get_frame_info` item
by item with `prev` and `current`. It implements `FrameInfoStore`: during the
walk the abstract queue is the one the walk began with.

`VideoInput` and `VideoOutput` put the info queue under a codec. The codec is
external: a set of frames it holds, from which it returns at most one per call,
the decoder in display order, the encoder in any order, either nothing on
failure. `process()` is `ProcessFrame`/`ProcessPacket` or `ProcessNothing`, the
loop of `flush()` is the drain state. `VideoOutput` rescales timestamps between two
rational time bases and the 90 kHz clock as `av_rescale_q` does (`Nearest`): once on
the way into the codec and once on the way out.

`AudioOutput` numbers the samples of the stream; the operating buffer is the
sequence of the samples in it. `Process` copies a frame in (`CopyFrame`,
`Resized`), each `Encode` is one turn of the loop, `Return` moves the rest to
the front. `AudioInput` is the loop that feeds one packet to the decoder.
`AudioPath` puts them in a row, as `send_to_graph` does: a decoded frame is
processed to its end before the input's loop goes on. It adds the host's clock,
which also counts the samples of what the decoder fails on, so that a timestamp
can be compared with the time the host gave the sample.

`Detectors` has black detect and silence detect over the hysteresis they share.
A frame is what the filter measures of it. Black detect counts pixels in blocks
so that the arithmetic of a C int can be checked exactly for real frame sizes
within TLC's own integers: a frame, its dark pixels and 2^32 are all multiples
of the block. Silence detect has two kinds of formats: the integer ones add
magnitudes in the sample's own type, which wraps, and divide by the number of
samples; the floating point ones are taken to be exact. Because its loop steps
twice it reads as much beyond the frame's data as inside. A frame may be empty, as
the resampler sends on whatever it converted: in an integer format that divides by
zero and ends the program (`DivideByZero`), in floating point the average is not a
number, which is noise.

`GraphBuild` is `initialise`: the term is the sequence of its filter tuples in
the order sent, the recursion of `read_filter` a stack of calls with one cursor,
`AllocateInstance` what happens when a call returns, `Refuse` an `exit()` in
`find_filter` or in a filter's `init()`. Two assumptions are about the host: a
term is well-formed (`TermsAssumption`) and of one medium (`MediumAssumption`).
`FilterGraph` then runs the graph. A
frame is what filters rely on without a check: where its info is, whether the
timebase it is sent with means anything, whether its sample rate is set. Outputs
send nothing, and two of them do not pass a flush on (`EndsFlush`); nothing keeps
a host from nesting filters in them. `Upstream(k)` is the filters that the frames
of filter k come through. `calls`
are the executes to come; they are taken in any order, which covers the
sequential loop of `send_to_graph`, the threads and the queues. One frame is on
its way at a time (overlapping frames are the subject of `AsyncParallel`), but a
flush does overtake what an `async_parallel` filter has queued: `Quiet(k)` is
what holds when the flush of filter k has got its turn, everything at or below k
executed except what threads below have in their queues. That takes `parallel`
and sync `async_parallel` to return when their branches are done, which holds
until a wait ends early. Flushes of different branches may come in any order too.

Operators named `Mutant` in a comment are faulty versions of the definition
after them. They are in no specification; substituting one is the way to see
that a property notices that fault.

## Runs

| Run | Configuration | Bounds | Shows |
|---|---|---|---|
| `async_parallel_sync` | `AsyncParallel_sync` | 3 branches, 2 frames, sync, fair | `IndInv`, `PortExclusive`, `FlushDrains`, `SyncBacklog`, `WithinProcess`, `InOrder`, implements `FanOut`, `AnsweredUnlessHung` |
| `frame_memory` | `FrameMemory` | 2 branches, 4 frames, sync, 8 kinds of sender | `OwnData`, `RefsCounted`, `BuffersFreed` |
| `async_parallel_lost` | `AsyncParallel_lost` | 2 branches, 3 frames, async, fair | **violated**: a flush is not always answered |
| `parallel` | `Parallel` | 1 to 3 branches, 2 frames, both modes, fair | `LentFrame`, `Alone`, `MissedOnlyFirst`, implements `FanOut`, `AnsweredUnlessStuck` |
| `frame_info` | `FrameInfoList` | 4 addresses, 3 timestamps, 5 infos | `WellLinked`, implements `FrameInfoStore` |
| `video_input_delay` | `VideoInput_delay` | 9 packets, a B-frame and a pyramid | `InfoKept`, `OwnInfo`, `NoLeak` |
| `video_output` | `VideoOutput` | 6 frames, 3/2 ticks per unit in, 15/4 in the codec, failures | `InfoKept`, `OwnInfo`, `TimestampKept`, `FlushComplete` |
| `audio_path` | `AudioPath` | 3 packets of up to 2 chunks, 3 decoder calls each, frames of 1, 3, 6, 9 samples, 19 in all, codec frames of 4 | `PathInv`, `Contiguous`, `SizeBound`, `TimestampKept`, `InfoNear`, `FlushLoss` |
| `audio_input_noframe` | `AudioInput_noframe` | 2 packets, 5 decoder calls | **violated**: a call without a frame is repeated with the same bytes |
| `detectors` | `Detectors` | 1920 x 1080, five dark counts; stereo in 16 bit and in floating point, ten frames, one empty | `CountInv`, `RunSettles`, `ChangeIsEarned`, `MeansPercentage`, `LoudIsNoise` |
| `black_detect_uhd` | `Detectors_uhd` | 7680 x 4320 | **violated**: a black frame is not considered black |
| `filter_graph` | `FilterGraph` | every graph of one medium, two filters in a row, two branches at a fork, outputs with a filter behind them; 2 frames | `GraphIsTerm`, `InfoReaches`, `AttributesReach`, `FlushLast` |

The type invariants are parts of `IndInv`, `LentFrame`, `WellLinked`,
`InfoKept`, `PathInv` and `CountInv`.

What some of them say in words. `WithinProcess`: in sync mode a branch of
`async_parallel` executes only while `process()` has not returned, and only the
frame of that call; everything a sender lends (the info behind `opaque`, reused
memory) depends on it. `OwnData` says what a branch may read: until a wait ends
early all of it, and in async mode, or after an early wakeup, what the clone owns,
the data of a frame that is copied or counted. The run is in sync mode, where every
kind of sender is under the property and a process() that did not wait would break
it; after an early wakeup the workers lag behind the sender as they do in async
mode, for which the theorems hold too. `InfoReaches`: a filter dereferences an info
that is missing only behind a raw video input or the generator, or downstream of an
effects processor; no other filter loses what the input gave. `AttributesReach`: the
splitter calls its children without the timebase they take, and no filter that may
stand behind it computes with one; the sample rate is set wherever it is used,
except, exactly, behind a raw audio input with no resampler on the way. `FlushLast`:
no filter executes after its flush, although a decoder still gives frames while it
is being flushed, and when the flush is answered every filter has been flushed but
those behind an output that ends it. `TimestampKept` of `VideoOutput`: two roundings
to nearest move a timestamp by half a unit and half a tick at most, not more for any
history of reordering. `TimestampKept` of `AudioPath`, about the pts a codec frame
is given to the encoder with: all the truncations since the host's pts add up to
less than a tick each and start afresh with every packet.

Spurious wakeups, which POSIX permits, may happen at every wait of the two
thread models. No wait of the code has a predicate, so a wait that ends early
does harm: the variable `early` remembers it, and the properties that cannot
survive it (`PortExclusive` for `frame_done`, `SyncBacklog`, `WithinProcess`,
the sync part of `OwnData`, the contract, `LentFrame`, `Alone`,
`MissedOnlyFirst`) are about everything before. So is `FlushLast`: `FilterGraph` has
no waits of its own, its `Quiet` assumes that none ended early. `FlushDrains`,
`InOrder`, `RefsCounted`, `BuffersFreed` and the two liveness properties hold after
it too.

Deadlock is not checked where the model ends by design: after `flush_done`, at a
bound of the host's input (`MaxFrames`, `MaxPackets`, `MaxSamples`, the end of a
stream), or where the program exits, as `Detectors` does on a division by zero.
Hangs of the threads are the subject of the liveness runs instead.

Why the bounds are enough. A branch differs from another only in its place in
the loops of the main thread: three have a first, a middle and a last. In sync
mode nothing is carried from one frame to the next but where the workers stand,
so the second frame is like every later one; once a wait has ended early, and in
async mode, a worker can with three frames or four fall behind, catch up and fall
behind again. Two time bases that do not divide each other or the clock make both
roundings of a timestamp real, and some frames share a codec pts. Four
addresses and five infos make the list reuse what it freed. The packet stream
has a frame that overtakes three. Input frames shorter than, longer than and
more than twice as long as the codec's exercise every path of the operating
buffer, at a rate that does not divide the clock; a packet may have none, one or
two frames and may end in a failure with or without lost samples. The frames of
the detectors lie on both sides of each threshold, and the durations make the
two counters reach their limits at different times; some
audio frames have a sum that wraps in 16 bits. Every filter occurs at every
place of a graph it makes sense in, before and after every other of its medium;
what a frame carries changes at one filter at a time, so two in a row meet every
pair; of two frames one can come before the flush and wait in a queue, and one
out of the decoder during it.

### Fairness

The kernel runs every thread that can run: weak fairness of each step of a
thread. Getting the output mutex against the other threads is strong fairness
of the end of `execute` and `flush` (a branch writes finitely many packets).
Nothing is assumed of the host: no fairness of `ReadFrame`, `ReadFlush`. Nothing
is assumed of spurious wakeups.

### Findings

1. `WAIT_FOR_QUEUE` (`async_parallel_filter.c:45-48`) waits without looking at
   the queue. An entry queued before the worker's first wait, or between its
   last look and its next wait, leaves the worker asleep; the flush is never
   answered. `AnsweredUnlessHung` shows that a stranded worker is the only way
   to hang without a spurious wakeup; after one a worker can also be left at its
   `complete_mutex` when flush joins it.
2. `audio_encoded_input.c:43` repeats a call that returned no frame with the
   same bytes, as the comment at line 70 suspects.
3. `video_black_detect.c:47` overflows for more than 21474836 dark pixels, so an
   8K frame that is black is not considered black, against the option's text at
   line 109.

The first trigger of `parallel` can be lost in the same way; `MissedOnlyFirst`
shows that it can be only the first, because a worker keeps the trigger mutex
from then on until it waits.

## Proofs

`FrameMemoryProofs` holds the proofs of `AsyncParallel`, for every number of
branches and frames:

- `TypeCorrect`, then `Invariant`: `IndInv` is inductive. Its parts are
  `QueueInv` (a queue holds, in order, exactly the frames sent to the worker and
  not taken, then the exit entry if that was sent), `ThreadInv` (only a worker
  that took the exit entry ends; only one inside its branch holds the output
  mutex), `IndexReset`, `AnswerInv`, and `SyncInv` (in sync mode a worker the
  main thread has nothing outstanding with is settled). The properties alone are
  not inductive: that a join leaves an empty queue needs that the exit entry is
  the last, that a reply meets no packet needs where each loop index stands.
- `InOrderCorrect`, `FlushDrainsCorrect`, `PortExclusiveCorrect`,
  `SyncBacklogCorrect`: from the invariant.
- `Implements`: every step is a step of `FanOut` or changes nothing it sees, as
  long as no wait has ended early.
- `WithinProcessCorrect`: from the invariant; a worker that executes has an entry
  outstanding, and in sync mode those are of the frame being processed.
- `HangsOnlySoCorrect`: the safety half of `AnsweredUnlessHung`. While a command is
  under way a thread can take its next step, or a worker is `Stranded` or
  `Overtaken`. It needs one more invariant, `ReportInv`: a worker has not reported
  more frames than `process()` has stopped waiting for, which survives waits that
  end early. The guards are written out (`MainRuns`, `WorkerRuns`), as ENABLED is
  out of the prover's reach.

and, on top of them, those of `FrameMemory`, for both modes and every kind of
sender: `MemoryInvariant` (the invariant of `AsyncParallel`,
carried over step by step, with `RefsCounted`), then `RefsCountedCorrect`,
`OwnDataCorrect` (with `WithinProcess` for what is lent) and `BuffersFreedCorrect`
(with `FlushDrains`). The count of a buffer is the cardinality of the set of
branches yet to execute its clone (`Users`), so each step is a lemma about that
set: it stays, grows by one branch, or loses one.

`ParallelProofs`, for any number of branches and frames: `Invariant` (`IndInv`:
the place of a worker, the trigger it was given and the place of the main
thread's loops fit together), from it `LentFrameCorrect`, `AloneCorrect`,
`MissedOnlyFirstCorrect` and `Implements` (the contract `FanOut`), all until a
wait ends early. `StuckOnlySoCorrect` is the safety half of `AnsweredUnlessStuck`:
`Missed` and `Wedged` are the only deadlocks, and until a wait ends early only the
first frame can meet one.

`DetectorsProofs`, for all sizes, durations and rates: `Invariant` (`CountInv`:
the counter against the flag has counted the current run and nothing from before
the last change), from it `RunSettlesCorrect` and `ChangeIsEarnedCorrect`; and
what a frame is considered to be, `LoudIsNoiseCorrect` for any sample width and
for floating point, and `MeansPercentageCorrect` on the assumption that 100
times a frame's pixels fit an int, which is exactly what `black_detect_uhd`
lacks.

`AudioPathProofs`, for all frame sizes, frame lengths, packets, delays and
losses: `Invariant` (`PathInv`: the buffer holds the last samples received, used
ones first; every frame past the encoder's delay has become a packet), from it
`ContiguousCorrect`, `SizeBoundCorrect`, `InfoNearCorrect` and
`FlushLossCorrect`. `Contiguous` alone is not inductive: it needs where in the
stream the buffer's samples are, and that less than a codec frame is left
outside `process()`.

`TimeInvariant` (`TimeInv`) adds the clock: every conversion between ticks and
samples is near the exact value, and what is near adds up (`NearSum`,
`NearTicks`), so the decoded frame's pts, the operating timestamp and the pts of
a codec frame stay within a tick of the host's stream for each rounding since
the packet began. From it `TimestampKeptCorrect`, for every rate, every frame
size and every sample lost in the decoder.

`FrameInfoProofs`, the operators of the info queue for queues of every length:
`SelectedIs` (what a recursive function leaves of a queue is the kept entries in
their order) and from it what a `get_frame_info` removes and keeps. The induction
is over a set of naturals (`SetInduction`), as the library's induction theorems
take an operator. `VideoInputProofs` and `VideoOutputProofs` rest on it, for
every stream, every order the codec returns frames in and every failure:

- `VideoInputProofs`: `Invariant` (the queue is in the order of the packets, has
  the info of every frame in the decoder, and an info older than the last frame
  is one that was overtaken), then `InfoKeptCorrect`, `OwnInfoCorrect`,
  `NoLeakCorrect`.
- `VideoOutputProofs`: `Invariant`. As an encoder that fails leaves an info
  behind, and frames of one codec pts share infos, the queue has for every pts
  as many infos as there are frames in the encoder and failed ones of that pts,
  none of a frame later than they are. Then `InfoKeptCorrect`,
  `OwnInfoCorrect`, `TimestampKeptCorrect`, `FlushCompleteCorrect`. The timestamps
  are a matter of arithmetic: `NearestBound` bounds one rounding, `Rounding` puts
  both on a common denominator and adds them up, for any two rational time bases.

`FilterGraphProofs`, for terms of any length and nesting:

- A term in prefix form says itself where a filter's nested tuples end:
  `ToCome` counts the filters to come, and `LastOf(k)` is the first place with
  fewer to come than before k (`LastOfIs`). `TermsAssumption` says what a nested
  term is in this form: filters are to come until its end, and none there. Every
  term that Erlang encodes is one.
- `BuildInv` is the recursion of `read_filter` as an invariant of its stack: a
  call has read the tuples nested in the filters it has (`CallInv`), and every
  filter is in one list or being read (`PlaceInv`). `ReadFilterInv` and
  `AllocateInv` show that it is kept; from it `GraphIsTermCorrect`. `GraphIsTerm`
  alone is not inductive: that a filter lands in the right place of the right
  list needs to know how far the cursor has come for each call.
- `RunInv` says of the frames on their way what `InfoReaches` and
  `AttributesReach` need, filter by filter (`SentOk`), under
  `MediumAssumption`: a host builds graphs of one medium. Nothing in the code
  checks that, and a filter of the other medium dereferences what is not there.
  What a frame lacks depends on the filters it came through: those upstream of a
  filter's child are the filter and those upstream of it (`UpstreamOfDownstream`),
  so a step of a frame adds one filter to what the invariant has to say of it.
- `FlushInv` says that flush moves down the tree: a filter is reached only through
  the one it is downstream of. So nothing is sent to a flushed filter, a flush gets
  behind no output that ends it, and when no flush is on its way the first
  unflushed filter that it could reach would have an unflushed parent before it
  (`AllFlushed`). From it `FlushLastCorrect`.

The linked list, in the second half of `VideoInputProofs`, for any number of items
and infos: that module already rests on what a `get_frame_info` keeps, and extends
`FrameInfoList` too (whose names, `SpecList` and the like, leave room for that).

- `ListInvariant`: `ListInv` says that the items reachable from `head` are a path
  `p` without repetition that ends at `tail` (`IsList`), and in the middle of a
  `get_frame_info` that `prev` and `current` stand at neighbouring places of `p`
  and of the list as it was when the walk began (`before`): ahead of `current`
  nothing has changed, behind it is what `Selected` keeps (`WalkAt`).
  `WellLinked` alone does not carry a step: it counts what `head` reaches, while
  unlinking an item needs the path itself, with the item's place on it, and the
  refinement needs that place in `before`.
- `WellLinkedCorrect` follows, and `ListImplements`: a step of the walk is a stutter
  of `FrameInfoStore`, whose queue is `before` until the walk returns, and the last
  one is its `Get`: what the walk has left behind and what `Selected` keeps are the
  same positions of `before`, hence the same sequence (`SelectedOnce`, in
  `FrameInfoProofs`).

The only assumptions are the named ones on the constants, which TLC evaluates in
the runs, and the one of `MeansPercentageCorrect`. An inductive invariant that no
run checks stands in the module of its proof: `IndInv` of `Parallel`, `VideoInput`
and `VideoOutput`, `TimeInv`, `BuildInv`, `RunInv`, `FlushInv` and `ListInv`.

Only model-checked: liveness (`AnsweredUnlessHung`, `AnsweredUnlessStuck`), since
fairness and ENABLED are out of TLAPS's reach, and the three runs that end in a
violation. Every other property of a run is a theorem.

## Not modelled

- Sequences of commands other than one `initialise`, frames and one `flush`.
  What a host may send is written nowhere in the repository. A frame before
  `initialise` or a second flush goes wrong as the code stands (`main.c:41`,
  `async_parallel_filter.c:160`); there is no behaviour to state beyond that.
- The encoding of messages (`common.c:421-507`) and the static output buffer
  behind the mutex, which is one critical section in `BeginWrite`/`EndWrite`.
- Options, their tables, and the allocation of codec contexts
  (`common.c:112-255`): library calls in a row, with an `exit()` on failure that
  `Refuse` stands for.
- Memory of the info in async mode behind an audio input. It is freed while
  workers still read it; `OwnData` exempts it, and a behaviour after a read of
  freed memory is not worth a model.
- What the libraries compute (codecs, scaling, filters), the encoding of Erlang
  terms, the raw video output, whose only call is commented out, the Erlang
  supervisor, which has no child.

What could follow: a `VideoPath` of decoder and encoder on either side of
`async_parallel`.
