---------------------------- MODULE VideoOutput -----------------------------
(***************************************************************************)
(* The "encoded video output" filter (c_src/video_encoded_output.c): every *)
(* frame's info is queued under its pts in the codec's time base, and the  *)
(* packet the encoder returns, later and in decode order, takes the info   *)
(* of its pts from the queue.                                              *)
(*                                                                         *)
(* The encoder is the library's: at most one packet per call, in any order *)
(* its B-frames call for, none for a frame it fails on.  Frames of equal   *)
(* codec pts it does not reorder.                                          *)
(***************************************************************************)
EXTENDS FrameInfo, FiniteSets

CONSTANTS
  Frames,            \* the pts of the input frames, in display order
  BaseNum, BaseDen,  \* a unit of their time base, in 90 kHz ticks: BaseNum / BaseDen
  UnitNum, UnitDen   \* a unit of the codec's time base, likewise

ASSUME FramesAssumption ==
  /\ Frames \in Seq(Nat)
  /\ \A k \in 1..(Len(Frames) - 1) : Frames[k] < Frames[k + 1]
  /\ {BaseNum, BaseDen, UnitNum, UnitDen} \subseteq Nat \ {0}

VARIABLES
  pc,       \* "ready", "drain" in the loop of flush(), "flushed" or "exited"
  encoded,  \* frames processed; have_encoded_frames once it is not 0
  store,    \* this->frame_info_queue
  inside,   \* the frames the encoder still holds
  output,   \* packets written: their frame, the info and the pts they carry
  failed    \* history: the frames the encoder failed on

vars == <<pc, encoded, store, inside, output, failed>>

Init ==
  /\ pc = "ready"
  /\ encoded = 0
  /\ store = <<>>
  /\ inside = {}
  /\ output = <<>>
  /\ failed = {}

\* Mutant of ToCodec: av_rescale_q truncates.
ToCodecTruncated(pts) == (pts * (BaseNum * UnitDen)) \div (BaseDen * UnitNum)

\* av_rescale_q rounds to nearest, once into the codec's time base and once
\* more out of it.
Nearest(n, d) == (n + d \div 2) \div d
ToCodec(pts) == Nearest(pts * (BaseNum * UnitDen), BaseDen * UnitNum)
ToErlang(pts) == Nearest(pts * UnitNum, UnitDen)

CodecPts(k) == ToCodec(Frames[k])

\* Mutants of WritePacket: get_frame_info drops older infos; the packet takes
\* the oldest info.
WritePacketDropOld(k, queue) ==
  IF Found(queue, CodecPts(k))
  THEN /\ output' = Append(output, [frame |-> k, pts |-> ToErlang(CodecPts(k)),
                                    info |-> queue[Match(queue, CodecPts(k))].info])
       /\ store' = Remaining(queue, CodecPts(k), TRUE)
  ELSE UNCHANGED output /\ store' = queue
WritePacketOldest(k, queue) ==
  IF queue # <<>>
  THEN /\ output' = Append(output, [frame |-> k, pts |-> ToErlang(CodecPts(k)),
                                    info |-> Head(queue).info])
       /\ store' = Tail(queue)
  ELSE UNCHANGED output /\ store' = queue

\* encode() with a packet of frame k: get_frame_info, without dropping, exits
\* or gives the info it is written with.
WritePacket(k, queue) ==
  IF Found(queue, CodecPts(k))
  THEN /\ output' = Append(output, [frame |-> k, pts |-> ToErlang(CodecPts(k)),
                                    info |-> queue[Match(queue, CodecPts(k))].info])
       /\ store' = Remaining(queue, CodecPts(k), FALSE)
  ELSE UNCHANGED output /\ store' = queue

PcAfter(k, queue, next) == IF Found(queue, CodecPts(k)) THEN next ELSE "exited"

FirstOfItsPts(k, held) == k \in held /\ \A j \in held : CodecPts(j) = CodecPts(k) => k <= j

\* process(): queue the info, then one call of the encoder.
ProcessPacket(k) ==
  LET queue == Queued(store, CodecPts(encoded + 1), encoded + 1)
      held == inside \union {encoded + 1}
  IN
  /\ pc = "ready"
  /\ encoded < Len(Frames)
  /\ FirstOfItsPts(k, held)
  /\ encoded' = encoded + 1
  /\ inside' = held \ {k}
  /\ WritePacket(k, queue)
  /\ pc' = PcAfter(k, queue, pc)
  /\ UNCHANGED failed

\* No packet yet, or an error: the info stays queued all the same.
ProcessNothing ==
  /\ pc = "ready"
  /\ encoded < Len(Frames)
  /\ encoded' = encoded + 1
  /\ store' = Queued(store, CodecPts(encoded + 1), encoded + 1)
  /\ \/ inside' = inside \union {encoded + 1} /\ UNCHANGED failed
     \/ failed' = failed \union {encoded + 1} /\ UNCHANGED inside
  /\ UNCHANGED <<pc, output>>

\* Mutant of Flush: the encoder is not drained.
FlushUndrained ==
  /\ pc = "ready"
  /\ pc' = "flushed"
  /\ UNCHANGED <<encoded, store, inside, output, failed>>

\* have_encoded_frames: an encoder that never saw a frame is not drained.
Flush ==
  /\ pc = "ready"
  /\ pc' = IF encoded > 0 THEN "drain" ELSE "flushed"
  /\ UNCHANGED <<encoded, store, inside, output, failed>>

DrainPacket(k) ==
  /\ pc = "drain"
  /\ FirstOfItsPts(k, inside)
  /\ inside' = inside \ {k}
  /\ WritePacket(k, store)
  /\ pc' = PcAfter(k, store, pc)
  /\ UNCHANGED <<encoded, failed>>

\* An encoder without a packet left, or in error, ends the loop; in error it
\* fails on all it holds.
DrainEnd ==
  /\ pc = "drain"
  /\ pc' = "flushed"
  /\ failed' = failed \union inside
  /\ inside' = {}
  /\ UNCHANGED <<encoded, store, output>>

Next ==
  \/ ProcessNothing \/ Flush \/ DrainEnd
  \/ \E k \in DOMAIN Frames : ProcessPacket(k) \/ DrainPacket(k)

Spec == Init /\ [][Next]_vars

-----------------------------------------------------------------------------
(* Properties.                                                             *)

\* Infos and frames are those of frames that were processed.
TypeOK ==
  /\ pc \in {"ready", "drain", "flushed", "exited"}
  /\ encoded \in 0..Len(Frames)
  /\ \A i \in DOMAIN store : store[i] = Entry(CodecPts(store[i].info), store[i].info)
  /\ inside \subseteq 1..encoded
  /\ \A i \in DOMAIN output : output[i] \in [frame : 1..encoded, pts : Nat, info : 1..encoded]
  /\ failed \subseteq 1..encoded

\* Every frame the encoder holds has its info in the queue, so a packet never
\* ends the program with "Failed to find frame_info".
InfoKept ==
  /\ TypeOK
  /\ \A k \in inside : \E i \in DOMAIN store : store[i].info = k
  /\ pc # "exited"

\* A packet is written with the info of its own frame, also when a coarse
\* codec time base gives two frames the same pts, unless the encoder failed on
\* an earlier frame of that pts: then with the info of another one of them.
OwnInfo ==
  \A i \in DOMAIN output :
    LET k == output[i].frame
        twins == {j \in failed : j < k /\ CodecPts(j) = CodecPts(k)}
    IN  IF twins = {} THEN output[i].info = k
        ELSE output[i].info <= k /\ CodecPts(output[i].info) = CodecPts(k)

\* The two roundings move a timestamp by at most half a unit of the codec's
\* time base and half a tick, whichever call the packet comes from.
TimestampKept ==
  \A i \in DOMAIN output :
    LET error == output[i].pts * BaseDen - Frames[output[i].frame] * BaseNum
        limit == BaseDen * (UnitNum + UnitDen)
    IN  -limit <= 2 * (UnitDen * error) /\ 2 * (UnitDen * error) <= limit

\* A flush drains the encoder, and the infos left behind are as many as the
\* frames it failed on: drop_old_pts is 0, nothing else takes them.
FlushComplete == pc = "flushed" => inside = {} /\ Len(store) = Cardinality(failed)
=============================================================================
