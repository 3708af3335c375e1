--------------------------- MODULE FrameInfoStore ---------------------------
(***************************************************************************)
(* The queue of frame infos as its users see it: each call is one step.    *)
(***************************************************************************)
EXTENDS FrameInfo

CONSTANTS
  Pts,      \* the timestamps that occur
  MaxInfos  \* bound on the infos queued; info k is the k-th

VARIABLES
  store,    \* the queue
  queued,   \* infos queued so far
  result,   \* the info the last get_frame_info returned, 0 before any
  exited    \* the program ended: "Failed to find frame_info"

vars == <<store, queued, result, exited>>

Init == store = <<>> /\ queued = 0 /\ result = 0 /\ exited = FALSE

Add(pts) ==
  /\ ~exited
  /\ queued < MaxInfos
  /\ queued' = queued + 1
  /\ store' = Queued(store, pts, queued + 1)
  /\ UNCHANGED <<result, exited>>

\* dropOld is drop_old_pts: TRUE from the decoder, FALSE from the encoder.
Get(pts, dropOld) ==
  /\ ~exited
  /\ Found(store, pts)
  /\ result' = store[Match(store, pts)].info
  /\ store' = Remaining(store, pts, dropOld)
  /\ UNCHANGED <<queued, exited>>

GetUnknown(pts) ==
  /\ ~exited
  /\ ~Found(store, pts)
  /\ exited' = TRUE
  /\ UNCHANGED <<store, queued, result>>

Next ==
  \E pts \in Pts :
    Add(pts) \/ GetUnknown(pts) \/ \E dropOld \in BOOLEAN : Get(pts, dropOld)

Spec == Init /\ [][Next]_vars
=============================================================================
