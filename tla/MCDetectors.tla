----------------------------- MODULE MCDetectors -----------------------------
(* Detectors for TLC.  2025 blocks make a frame of 1920 x 1080 pixels when   *)
(* a block has 2^10 of them, and of 7680 x 4320 when it has 2^14.  1984 are  *)
(* just below 98 per cent, 1985 just above.  Audio frames are stereo, 64 and *)
(* 96 samples in each channel: just silent, just noisy, silent but for what  *)
(* lies beyond them, and so loud that the sum wraps round in 16 bits; and    *)
(* one without samples.                                                      *)
EXTENDS Detectors

MCDarkCounts == {0, 1325, 1984, 1985, 2025}

MCAudioFrames ==
  UNION {{[weight |-> w, total |-> t, beyond |-> b] :
            t \in {33 * w - 1, 33 * w}, b \in {0, 30000}} : w \in {128, 192}}
  \union {[weight |-> 192, total |-> 40000, beyond |-> 0],
          [weight |-> 0, total |-> 0, beyond |-> 0]}
=============================================================================
