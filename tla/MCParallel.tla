----------------------------- MODULE MCParallel -----------------------------
(* Parallel for TLC.  A worker differs from the others only in its place in *)
(* the loops, so a first, a middle and a last one are enough; the second    *)
(* frame is the first whose trigger cannot be missed.                       *)
EXTENDS Parallel
=============================================================================
