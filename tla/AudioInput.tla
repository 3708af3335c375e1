----------------------------- MODULE AudioInput -----------------------------
(***************************************************************************)
(* The "encoded audio input" filter (c_src/audio_encoded_input.c): the     *)
(* loop of process() that feeds one packet of the host to the decoder,     *)
(* chunk by chunk, and sends every decoded frame downstream.               *)
(*                                                                         *)
(* The decoder is the library's: a call fails, or consumes some bytes and  *)
(* returns a frame of some samples, or returns no frame.                   *)
(***************************************************************************)
EXTENDS Integers, Sequences

CONSTANTS
  PacketSizes,  \* sizes of the host's packets, in chunks the decoder can take
  Samples,      \* samples in a decoded frame
  Rate,         \* sample_rate
  Clock,        \* ticks per second of a timestamp: 90000
  MaxPackets,   \* bound on the packets of the host
  MaxCalls      \* bound on the calls of the decoder for one packet

ConstantsOK ==
  /\ PacketSizes \subseteq Nat
  /\ Samples \subseteq Nat \ {0}
  /\ Rate \in Nat \ {0}
  /\ Clock \in Nat
  /\ MaxPackets \in Nat
  /\ MaxCalls \in Nat

VARIABLES
  pc,        \* "ready", "decode" in the loop of process()
  packets,   \* packets processed; the current one is the last
  total,     \* its size when it came
  left,      \* pkt.size
  pts,       \* pkt.pts, counted from the pts the host gave the packet
  samples,   \* samples decoded from this packet
  given      \* history: where in the packet each call of the decoder began

vars == <<pc, packets, total, left, pts, samples, given>>

Init ==
  /\ pc = "ready"
  /\ packets = 0
  /\ total = 0
  /\ left = 0
  /\ pts = 0
  /\ samples = 0
  /\ given = <<>>

Duration(n) == (Clock * n) \div Rate

Process(n) ==
  /\ pc = "ready"
  /\ packets < MaxPackets
  /\ packets' = packets + 1
  /\ total' = n
  /\ left' = n
  /\ pts' = 0
  /\ samples' = 0
  /\ given' = <<>>
  /\ pc' = "decode"

\* The loop calls the decoder with what is left of the packet.
Call ==
  /\ pc = "decode"
  /\ left > 0
  /\ Len(given) < MaxCalls
  /\ given' = Append(given, total - left)

\* len < 0: the rest of the packet is not decoded.
DecodeFailure ==
  /\ Call
  /\ pc' = "ready"
  /\ UNCHANGED <<packets, total, left, pts, samples>>

\* Mutants of DecodeFrame: one chunk too many is skipped; the pts of the packet
\* stays what it was.
DecodeFrameSkip(len, n) ==
  /\ Call
  /\ len <= left
  /\ left' = left - len - 1
  /\ pts' = pts + Duration(n)
  /\ samples' = samples + n
  /\ UNCHANGED <<pc, packets, total>>
DecodeFrameStill(len, n) ==
  /\ Call
  /\ len <= left
  /\ left' = left - len
  /\ samples' = samples + n
  /\ UNCHANGED <<pc, pts, packets, total>>

\* got_frame and len > 0: the frame goes downstream, the packet moves on.
DecodeFrame(len, n) ==
  /\ Call
  /\ len <= left
  /\ left' = left - len
  /\ pts' = pts + Duration(n)
  /\ samples' = samples + n
  /\ UNCHANGED <<pc, packets, total>>

\* Any other answer: the loop goes on with the packet as it was.
DecodeNothing ==
  /\ Call
  /\ UNCHANGED <<pc, packets, total, left, pts, samples>>

\* The packet is used up.
Return ==
  /\ pc = "decode"
  /\ left = 0
  /\ pc' = "ready"
  /\ UNCHANGED <<packets, total, left, pts, samples, given>>

Next ==
  \/ \E n \in PacketSizes : Process(n)
  \/ DecodeFailure \/ DecodeNothing \/ Return
  \/ \E len \in 1..total, n \in Samples : DecodeFrame(len, n)

Spec == Init /\ [][Next]_vars

-----------------------------------------------------------------------------
(* Properties.                                                             *)

\* Sizes and counters stay in their ranges: the packet is not read past its end.
TypeOK ==
  /\ pc \in {"ready", "decode"}
  /\ packets \in 0..MaxPackets
  /\ total \in Nat
  /\ left \in 0..total
  /\ pts \in Nat
  /\ samples \in Nat
  /\ given \in Seq(Nat) /\ Len(given) <= MaxCalls

\* What the library asks for (the comment at audio_encoded_input.c:68-71): when
\* a call returns no frame, "you should feed the next chunk of data to the
\* decoder", so no call begins where an earlier one did.
FeedsNextChunk == \A i, j \in DOMAIN given : i < j => given[i] < given[j]
=============================================================================
