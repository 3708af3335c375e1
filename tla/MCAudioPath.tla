---------------------------- MODULE MCAudioPath -----------------------------
(* AudioPath for TLC, scaled down: codec frames of 4 samples, decoded       *)
(* frames shorter, longer and much longer than that, packets of none, one   *)
(* or two frames. 9 ticks to 4 samples round as 90000 to 44100 do.          *)
EXTENDS AudioPath

MCLengths == {1, 3, 6, 9}
MCPacketSizes == {0, 1, 2}
MCLosses == {0, 5}
=============================================================================
