----------------------------- MODULE VideoInput -----------------------------
(***************************************************************************)
(* The "encoded video input" filter (c_src/video_encoded_input.c): every   *)
(* packet's frame info is queued under its pts, and the frame the decoder  *)
(* returns, later and in another order, gets the info of its pts back.     *)
(*                                                                         *)
(* The decoder is the library's: it returns frames in display order, at    *)
(* most one per call, keeps frames back to reorder them, and may fail on a *)
(* packet or drop its frame.                                               *)
(***************************************************************************)
EXTENDS FrameInfo, FiniteSets

CONSTANTS
  Stream,    \* the pts of the packets in the order the host sends them
  CapDelay   \* the codec has CODEC_CAP_DELAY: it keeps frames back

Packets == DOMAIN Stream

\* Display order is total: within the stream no two packets share a pts.
ASSUME StreamAssumption ==
  /\ Stream \in Seq(Int)
  /\ \A j, k \in DOMAIN Stream : Stream[j] = Stream[k] => j = k
  /\ CapDelay \in BOOLEAN

VARIABLES
  pc,       \* "ready", "drain" in the loop of flush(), "flushed" or "exited"
  fed,      \* packets processed; the info of packet k is k
  store,    \* this->frame_info_queue
  inside,   \* the packets whose frames the decoder still holds
  output    \* frames sent downstream: their packet and the info they carry

vars == <<pc, fed, store, inside, output>>

Init == pc = "ready" /\ fed = 0 /\ store = <<>> /\ inside = {} /\ output = <<>>

\* A frame the decoder may return: the first in display order, when no packet
\* still to come, of the `after` sent, is displayed before it.
Displayable(k, held, after) ==
  /\ k \in held
  /\ \A j \in held : Stream[k] <= Stream[j]
  /\ \A j \in Packets : j > after => Stream[k] < Stream[j]

\* Mutants of SendFrame: everything queued before the match is dropped; the
\* frame takes the oldest info; what is older is kept.
SendFrameDropAll(k, queue) ==
  IF Found(queue, Stream[k])
  THEN LET m == Match(queue, Stream[k])
       IN  /\ output' = Append(output, [packet |-> k, info |-> queue[m].info])
           /\ store' = SubSeq(queue, m + 1, Len(queue))
  ELSE UNCHANGED output /\ store' = queue
SendFrameOldest(k, queue) ==
  IF queue # <<>>
  THEN output' = Append(output, [packet |-> k, info |-> Head(queue).info]) /\ store' = Tail(queue)
  ELSE UNCHANGED output /\ store' = queue
SendFrameKeepOld(k, queue) ==
  IF Found(queue, Stream[k])
  THEN /\ output' = Append(output, [packet |-> k,
                                    info |-> queue[Match(queue, Stream[k])].info])
       /\ store' = Remaining(queue, Stream[k], FALSE)
  ELSE UNCHANGED output /\ store' = queue

\* decode() with a frame: add_frame_info_to_frame exits if it has no info,
\* else the frame is sent downstream with it.
SendFrame(k, queue) ==
  IF Found(queue, Stream[k])
  THEN /\ output' = Append(output, [packet |-> k,
                                    info |-> queue[Match(queue, Stream[k])].info])
       /\ store' = Remaining(queue, Stream[k], TRUE)
  ELSE UNCHANGED output /\ store' = queue

PcAfter(k, queue, next) == IF Found(queue, Stream[k]) THEN next ELSE "exited"

\* process(): queue the info, then one call of the decoder.
ProcessFrame(k) ==
  LET queue == Queued(store, Stream[fed + 1], fed + 1)
      held == inside \union {fed + 1}
  IN
  /\ pc = "ready"
  /\ fed < Len(Stream)
  /\ Displayable(k, held, fed + 1)
  /\ fed' = fed + 1
  /\ inside' = held \ {k}
  /\ SendFrame(k, queue)
  /\ pc' = PcAfter(k, queue, pc)

\* The decoder keeps the frame back, drops it, or fails: len < 0 is traced.
ProcessNothing ==
  /\ pc = "ready"
  /\ fed < Len(Stream)
  /\ fed' = fed + 1
  /\ store' = Queued(store, Stream[fed + 1], fed + 1)
  /\ \/ inside' = inside
     \/ CapDelay /\ inside' = inside \union {fed + 1}
  /\ UNCHANGED <<pc, output>>

\* The decoder gives up a frame it held.
Forget(k) ==
  /\ pc \in {"ready", "drain"}
  /\ k \in inside
  /\ inside' = inside \ {k}
  /\ UNCHANGED <<pc, fed, store, output>>

Flush ==
  /\ pc = "ready"
  /\ pc' = IF CapDelay THEN "drain" ELSE "flushed"
  /\ UNCHANGED <<fed, store, inside, output>>

DrainFrame(k) ==
  /\ pc = "drain"
  /\ Displayable(k, inside, Len(Stream))
  /\ inside' = inside \ {k}
  /\ SendFrame(k, store)
  /\ pc' = PcAfter(k, store, pc)
  /\ UNCHANGED fed

\* No frame, or an error: the loop ends and the graph is flushed.
DrainEnd ==
  /\ pc = "drain"
  /\ pc' = "flushed"
  /\ UNCHANGED <<fed, store, inside, output>>

Next ==
  \/ ProcessNothing \/ Flush \/ DrainEnd
  \/ \E k \in Packets : ProcessFrame(k) \/ Forget(k) \/ DrainFrame(k)

Spec == Init /\ [][Next]_vars

-----------------------------------------------------------------------------
(* Properties.                                                             *)

\* The queue holds infos of packets that were fed, the output frames too.
TypeOK ==
  /\ pc \in {"ready", "drain", "flushed", "exited"}
  /\ fed \in 0..Len(Stream)
  /\ \A i \in DOMAIN store : store[i] = Entry(Stream[store[i].info], store[i].info)
  /\ inside \subseteq 1..fed
  /\ \A i \in DOMAIN output : output[i] \in [packet : 1..fed, info : 1..fed]

\* drop_old_pts never throws away an info that is still needed: whatever the
\* decoder holds has its info queued, so "Failed to find frame_info" and
\* exit(-2) (frame_info_queue.c:121) are unreachable.
InfoKept ==
  /\ TypeOK
  /\ \A k \in inside : \E i \in DOMAIN store : store[i].info = k
  /\ pc # "exited"

\* A frame leaves with the info of its own packet, however the decoder
\* reorders, delays and drops.
OwnInfo == \A i \in DOMAIN output : output[i].info = output[i].packet

\* The infos of frames that never come are dropped: what is queued for good is
\* newer than the last frame or was overtaken by it, at most as many as the
\* reordering lets a frame overtake.
Overtaken(k) == Cardinality({j \in Packets : j > k /\ Stream[j] < Stream[k]})
NoLeak ==
  LET last == output[Len(output)].packet
      older == {i \in DOMAIN store : Stream[store[i].info] < Stream[last]}
  IN  output # <<>> => Cardinality(older) <= Overtaken(last)
=============================================================================
