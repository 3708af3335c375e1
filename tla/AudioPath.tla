------------------------------ MODULE AudioPath ------------------------------
(***************************************************************************)
(* Audio from the host's packet to the packet written: the encoded audio   *)
(* input (AudioInput, its pc is ipc, its pts is shift) sends every decoded *)
(* frame to the encoded audio output (AudioOutput) and goes on when that   *)
(* has returned.                                                           *)
(*                                                                         *)
(* The host stamps a packet with the time of its first sample.  What the   *)
(* decoder fails on is missing: the host's time goes on, so the stream     *)
(* that reaches the encoder has a gap.                                     *)
(***************************************************************************)
EXTENDS AudioOutput, FiniteSets

CONSTANTS
  PacketSizes, \* sizes of the host's packets, in chunks the decoder can take
  MaxPackets,  \* bound on the packets of the host
  MaxCalls,    \* bound on the calls of the decoder for one packet
  Losses       \* samples in the part of a packet that is not decoded

VARIABLES
  ipc, packets, total, left, shift, samples, given, \* see AudioInput
  position,  \* samples of the host's stream before the packet
  arrived    \* history: the frames sent to the output: `first`, the number of
             \* its first sample, `at`, that sample's place in the host's
             \* stream, and `nth`, which frame of its packet it is

In == INSTANCE AudioInput WITH Samples <- Lengths, pc <- ipc, pts <- shift

ASSUME InputConstants == In!ConstantsOK /\ Losses \subseteq Nat

inputVars == <<ipc, packets, total, left, shift, samples, given>>
pathVars == <<vars, inputVars, position, arrived>>

PathInit == Init /\ In!Init /\ position = 0 /\ arrived = <<>>

\* The time of a sample of the host's stream, in ticks.
Time(place) == (Clock * place) \div Rate

\* The input filter runs on while the output filter is not being executed.
InputRuns == pc = "ready" /\ UNCHANGED vars

ReadPacket ==
  /\ InputRuns
  /\ \E n \in PacketSizes : In!Process(n)
  /\ UNCHANGED <<position, arrived>>

LosePacket ==
  /\ InputRuns
  /\ In!DecodeFailure
  /\ \E lost \in Losses : position' = position + samples + lost
  /\ UNCHANGED arrived

SkipCall == InputRuns /\ In!DecodeNothing /\ UNCHANGED <<position, arrived>>

EndPacket ==
  /\ InputRuns
  /\ In!Return
  /\ position' = position + samples
  /\ UNCHANGED arrived

Nth == IF samples = 0 THEN 1 ELSE arrived[Len(arrived)].nth + 1

\* send_to_graph: the decoded frame is processed by the output filter.
SendFrame ==
  \E len \in 1..total, n \in Lengths :
    /\ In!DecodeFrame(len, n)
    /\ Process(n, Time(position) + shift)
    /\ arrived' = Append(arrived, [first |-> received, at |-> position + samples, nth |-> Nth])
    /\ UNCHANGED position

OutputRuns == (Encode \/ Return) /\ UNCHANGED <<inputVars, position, arrived>>

FlushPath == ipc = "ready" /\ Flush /\ UNCHANGED <<inputVars, position, arrived>>

PathNext ==
  \/ ReadPacket \/ LosePacket \/ SkipCall \/ EndPacket
  \/ SendFrame \/ OutputRuns \/ FlushPath

PathSpec == PathInit /\ [][PathNext]_pathVars

-----------------------------------------------------------------------------
(* Properties.                                                             *)

\* Both filters' variables are in their ranges, the packet is not read past its
\* end, and the output's buffer and packets are as AudioOutput says.
PathInv == IndInv /\ In!TypeOK /\ position \in Nat

\* The encoder frames of the same call of process(), up to the k-th.
InCall(k) == Cardinality({j \in 1..k : encoded[j].input = encoded[k].input})

\* The pts given to the encoder is the time, in the host's stream, of the
\* frame's first sample, as seen from the input frame that completed it: a
\* sample left over from before a gap is taken to end where that frame begins.
\* All the roundings on the way (the packet's pts, a duration for every frame
\* of the packet, the left over samples, a duration for every codec frame of
\* the call) are behind by less than a tick each, at most one is ahead, and
\* none of them reaches the next packet.
TimestampKept ==
  \A k \in DOMAIN encoded :
    LET frame == arrived[encoded[k].input]
        error == encoded[k].pts - Time(frame.at + encoded[k].samples[1] - frame.first)
    IN  1 - frame.nth - InCall(k) < error /\ error <= 1
=============================================================================
