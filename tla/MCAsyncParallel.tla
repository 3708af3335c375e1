--------------------------- MODULE MCAsyncParallel ---------------------------
(* AsyncParallel for TLC: two branches already interleave in every way the  *)
(* two workers and the main thread can; three frames let a worker fall      *)
(* behind, catch up and fall behind again.                                  *)
EXTENDS AsyncParallel
=============================================================================
