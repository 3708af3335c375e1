---------------------------- MODULE MCFrameMemory ----------------------------
(* FrameMemory for TLC: every kind of sender of video and of audio frames.   *)
EXTENDS FrameMemory

MCSources == [kind : Kinds, opaque : BOOLEAN]
=============================================================================
