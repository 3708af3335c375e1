---------------------------- MODULE MCVideoOutput ---------------------------
(* VideoOutput for TLC.  Frames at an irregular rate, every 3/2 ticks, and *)
(* a codec unit of 15/4 ticks: both roundings move timestamps, some frames *)
(* share a codec pts and some are alone in theirs.                         *)
EXTENDS VideoOutput

MCFrames == <<2, 3, 5, 9, 10, 15>>
=============================================================================
