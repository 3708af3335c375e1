---------------------------- MODULE AudioOutput -----------------------------
(***************************************************************************)
(* The "encoded audio output" filter (c_src/audio_encoded_output.c): the   *)
(* frames the graph delivers, of any length, are cut into frames of the    *)
(* codec's size through the operating buffer, and encoded.                 *)
(*                                                                         *)
(* Samples are numbered from 0 in the order they arrive, frame k of the    *)
(* input is the k-th.  The encoder is the library's: it has a fixed delay  *)
(* of `Delay` frames and returns at most one packet per call.              *)
(***************************************************************************)
EXTENDS Integers, Sequences

CONSTANTS
  FrameSize,  \* context->frame_size
  Rate,       \* sample_rate
  Clock,      \* ticks per second of a timestamp: 90000
  Lengths,    \* values of nb_samples of an input frame
  Longest,    \* no input frame is longer
  MaxSamples, \* bound on the samples received
  Delay,      \* frames the encoder keeps back
  Libfdk      \* using_libfdk

ASSUME ConstantsAssumption ==
  /\ FrameSize \in Nat \ {0}
  /\ Rate \in Nat \ {0}
  /\ Clock \in Nat
  /\ Longest \in Nat \ {0}
  /\ Lengths \subseteq 1..Longest
  /\ MaxSamples \in Nat
  /\ Delay \in Nat
  /\ Libfdk \in BOOLEAN

VARIABLES
  pc,        \* "ready", "encode" in the loop of process(), "flushed"
  received,  \* samples received: the number of the next frame's first sample
  inputs,    \* input frames received; inputs is also the last one's info
  buffer,    \* operating_buffer[0 .. offset - 1]: which samples are there
  size,      \* operating_buffer_size_in_samples
  used,      \* samples_used
  stamp,     \* operating_timestamp
  encoded,   \* frames given to the encoder: first sample, pts, input frame
  sent,      \* packets written: the encoder frame and the info each carries
  bad        \* libfdk_bad_frame_counter

vars == <<pc, received, inputs, buffer, size, used, stamp, encoded, sent, bad>>

\* current_sample_offset
offset == Len(buffer)

Init ==
  /\ pc = "ready"
  /\ received = 0
  /\ inputs = 0
  /\ buffer = <<>>
  /\ size = FrameSize
  /\ used = 0
  /\ stamp = 0
  /\ encoded = <<>>
  /\ sent = <<>>
  /\ bad = 0

Duration(samples) == (Clock * samples) \div Rate

\* Mutant of Resized: the buffer grows for every frame.
ResizedAlways(n) == size + n

\* resize_buffer: grows by the length of the frame when that does not fit.
Resized(n) == IF size - offset < n THEN size + n ELSE size

\* copy_frame_to_operating_buffer.
CopyFrame(n, pts) ==
  /\ size' = Resized(n)
  /\ buffer' = buffer \o [i \in 1..n |-> received + i - 1]
  /\ stamp' = pts - Duration(offset)
  /\ received' = received + n

\* process() is called with a frame of n samples and its pts.
Process(n, pts) ==
  /\ pc = "ready"
  /\ received + n <= MaxSamples
  /\ pc' = "encode"
  /\ inputs' = inputs + 1
  /\ CopyFrame(n, pts)
  /\ used' = 0
  /\ UNCHANGED <<encoded, sent, bad>>

\* Mutant of Dropped: every packet of libfdk_aac is dropped.
DroppedAlways == Libfdk

\* should_send: the first two packets of libfdk_aac are dropped.
Dropped == Libfdk /\ bad < 2

\* Mutant of Encode: the packet carries the info of the frame before.
EncodeStaleInfo ==
  /\ pc = "encode"
  /\ offset - used >= FrameSize
  /\ encoded' = Append(encoded, [samples |-> SubSeq(buffer, used + 1, used + FrameSize),
                                 pts |-> stamp, input |-> inputs])
  /\ used' = used + FrameSize
  /\ stamp' = stamp + Duration(FrameSize)
  /\ IF Len(encoded) < Delay
     THEN UNCHANGED <<sent, bad>>
     ELSE IF Dropped
          THEN bad' = bad + 1 /\ UNCHANGED sent
          ELSE sent' = Append(sent, [frame |-> Len(encoded) + 1 - Delay, info |-> inputs - 1])
               /\ UNCHANGED bad
  /\ UNCHANGED <<pc, received, inputs, buffer, size>>

\* One turn of the loop: a frame of samples goes to the encoder, and the
\* packet of the frame `Delay` before it, if there is one, to the host.
Encode ==
  /\ pc = "encode"
  /\ offset - used >= FrameSize
  /\ encoded' = Append(encoded, [samples |-> SubSeq(buffer, used + 1, used + FrameSize),
                                 pts |-> stamp, input |-> inputs])
  /\ used' = used + FrameSize
  /\ stamp' = stamp + Duration(FrameSize)
  /\ IF Len(encoded) < Delay
     THEN UNCHANGED <<sent, bad>>
     ELSE IF Dropped
          THEN bad' = bad + 1 /\ UNCHANGED sent
          ELSE sent' = Append(sent, [frame |-> Len(encoded) + 1 - Delay, info |-> inputs])
               /\ UNCHANGED bad
  /\ UNCHANGED <<pc, received, inputs, buffer, size>>

\* Mutant of Return: the rest is forgotten.
ReturnEmptied ==
  /\ pc = "encode"
  /\ offset - used < FrameSize
  /\ buffer' = <<>>
  /\ used' = 0
  /\ pc' = "ready"
  /\ UNCHANGED <<received, inputs, size, stamp, encoded, sent, bad>>

\* The rest moves to the front of the buffer; the locals are gone.
Return ==
  /\ pc = "encode"
  /\ offset - used < FrameSize
  /\ buffer' = SubSeq(buffer, used + 1, offset)
  /\ used' = 0
  /\ pc' = "ready"
  /\ UNCHANGED <<received, inputs, size, stamp, encoded, sent, bad>>

\* flush() only passes the flush on: encoder and buffer are not drained.
Flush ==
  /\ pc = "ready"
  /\ pc' = "flushed"
  /\ UNCHANGED <<received, inputs, buffer, size, used, stamp, encoded, sent, bad>>

Next == Encode \/ Return \/ Flush \/ \E n \in Lengths, pts \in Int : Process(n, pts)

Spec == Init /\ [][Next]_vars

-----------------------------------------------------------------------------
(* Properties.                                                             *)

\* Each variable is in its range.
TypeOK ==
  /\ pc \in {"ready", "encode", "flushed"}
  /\ received \in Nat /\ inputs \in Nat /\ size \in Nat /\ used \in Nat /\ bad \in Nat
  /\ buffer \in Seq(Nat)
  /\ stamp \in Int
  /\ encoded \in Seq([samples : Seq(Nat), pts : Int, input : Nat])
  /\ sent \in Seq([frame : Nat, info : Nat])

\* No sample is lost, repeated or swapped on its way through the buffer: the
\* encoder's frames, one after another, are the samples in order.
Contiguous ==
  \A k \in DOMAIN encoded : \A i \in 1..FrameSize :
    encoded[k].samples[i] = (k - 1) * FrameSize + i - 1

\* Samples are never copied past the end of the buffer, and the buffer, which
\* is never shrunk, stops growing: between calls less than a codec frame is
\* left over, so it never gets as long as a codec frame and two inputs.
SizeBound == offset <= size /\ size < FrameSize + 2 * Longest

\* A packet carries the info of the input frame being processed, never of one
\* that came before its last sample and at most `Delay` codec frames later.
InfoNear ==
  \A p \in DOMAIN sent :
    /\ encoded[sent[p].frame].input <= sent[p].info
    /\ sent[p].info <= encoded[sent[p].frame + Delay].input

\* What a flush loses: the encoder's delay, the rest in the buffer, and the
\* two packets of libfdk (audio_encoded_output.c:174), never more.
MaxBad == IF Libfdk THEN 2 ELSE 0
FlushLoss ==
  pc = "flushed" => received - Len(sent) * FrameSize < FrameSize * (1 + Delay + MaxBad)

\* What the buffer holds are the last samples received, the used ones first
\* and in the encoder's last frames; outside process() they are fewer than a
\* codec frame.
BufferInv ==
  /\ used <= offset
  /\ \A i \in 1..offset : buffer[i] = received - offset + i - 1
  /\ Len(encoded) * FrameSize + offset - used = received
  /\ pc # "encode" => used = 0 /\ offset < FrameSize

\* Every frame past the encoder's delay has become a packet, sent or dropped,
\* with the info of the input frame that pushed it out.
PacketInv ==
  /\ bad <= MaxBad
  /\ Len(sent) + bad = IF Len(encoded) > Delay THEN Len(encoded) - Delay ELSE 0
  /\ \A j \in DOMAIN encoded : encoded[j].input <= inputs
  /\ \A i, j \in DOMAIN encoded : i <= j => encoded[i].input <= encoded[j].input
  /\ \A p \in DOMAIN sent :
       /\ sent[p].frame \in DOMAIN encoded
       /\ sent[p].frame + Delay \in DOMAIN encoded
       /\ sent[p].info = encoded[sent[p].frame + Delay].input

\* The inductive invariant (see AudioPathProofs).
IndInv == TypeOK /\ BufferInv /\ Contiguous /\ SizeBound /\ PacketInv
=============================================================================
