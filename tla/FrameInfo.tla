----------------------------- MODULE FrameInfo ------------------------------
(***************************************************************************)
(* What a frame_info_queue (c_src/frame_info_queue.c) means: a sequence of *)
(* entries in the order they were queued, and the search for the entry of  *)
(* a timestamp.  FrameInfoList shows that the linked list computes this.   *)
(***************************************************************************)
EXTENDS Integers, Sequences

Entry(pts, info) == [pts |-> pts, info |-> info]

\* queue_frame_info, queue_frame_info_from_frame.
Queued(store, pts, info) == Append(store, Entry(pts, info))

Matches(store, pts) == {i \in DOMAIN store : store[i].pts = pts}

\* get_frame_info finds an entry; otherwise the program exits.
Found(store, pts) == Matches(store, pts) # {}

\* The entry it returns: the one that was queued first.
Match(store, pts) == CHOOSE i \in Matches(store, pts) : \A j \in Matches(store, pts) : i <= j

\* The entries at the positions kept, in their order.
Selected(store, kept) ==
  LET upTo[i \in 0..Len(store)] ==
        IF i = 0 THEN <<>>
        ELSE IF i \in kept THEN Append(upTo[i - 1], store[i]) ELSE upTo[i - 1]
  IN  upTo[Len(store)]

\* What it leaves behind: all but the match and, with drop_old_pts, the older
\* entries in front of it.
Remaining(store, pts, dropOld) ==
  LET m == Match(store, pts)
      dropped == {i \in 1..(m - 1) : dropOld /\ store[i].pts < pts}
  IN  Selected(store, DOMAIN store \ ({m} \union dropped))
=============================================================================
