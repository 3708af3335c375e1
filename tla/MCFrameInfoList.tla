-------------------------- MODULE MCFrameInfoList ---------------------------
(* FrameInfoList for TLC: with three timestamps an entry can be older than, *)
(* equal to or newer than the one looked for, and five infos over four      *)
(* addresses fill the list, empty it and reuse what was freed.              *)
EXTENDS FrameInfoList, TLC

CONSTANTS a1, a2, a3, a4

MCItems == {a1, a2, a3, a4}
MCPts == 1..3
Symmetry == Permutations(MCItems)
=============================================================================
