---------------------------- MODULE MCAudioInput ----------------------------
(* AudioInput for TLC: an empty packet, one chunk and several, decoded into *)
(* frames of different lengths at a rate that does not divide the clock.    *)
EXTENDS AudioInput

MCPacketSizes == {0, 1, 4}
MCSamples == {2, 3}
=============================================================================
