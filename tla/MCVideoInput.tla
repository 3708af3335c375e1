---------------------------- MODULE MCVideoInput ----------------------------
(* VideoInput for TLC.  The stream starts in display order, then has one    *)
(* B-frame, then a pyramid in which one frame overtakes three others.       *)
EXTENDS VideoInput

MCStream == <<1, 2, 4, 3, 8, 6, 5, 7, 9>>
=============================================================================
