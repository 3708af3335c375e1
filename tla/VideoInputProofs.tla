--------------------------- MODULE VideoInputProofs ---------------------------
(***************************************************************************)
(* Proofs about VideoInput for every stream of packets, with and without a *)
(* decoder that keeps frames back; and about FrameInfoList, the linked     *)
(* list that the queue of a decoder or encoder is, for every number of     *)
(* items: a walk of many steps computes the Remaining that the proofs of   *)
(* the decoder rest on.                                                    *)
(***************************************************************************)
EXTENDS VideoInput, FrameInfoList, FrameInfoProofs

-----------------------------------------------------------------------------
(* The inductive invariant behind the safety properties.                   *)

\* The entries queued for the first f packets.
Infos(f) == {Entry(Stream[k], k) : k \in 1..f}

Ordered(queue) == \A i, j \in DOMAIN queue : i < j => queue[i].info < queue[j].info

HasInfos(queue, held) == \A k \in held : \E i \in DOMAIN queue : queue[i].info = k

\* What is queued before packet k in display order was queued after it.
OvertakenOnly(queue, k) ==
  \A i \in DOMAIN queue : queue[i].pts < Stream[k] => k < queue[i].info

\* The queue is in the order of the packets and keeps what is still needed; what
\* it keeps of the time before the last frame overtook that frame.
IndInv ==
  /\ TypeOK /\ OwnInfo /\ pc # "exited"
  /\ store \in Seq(Infos(fed))
  /\ output \in Seq([packet : 1..fed, info : 1..fed])
  /\ Ordered(store)
  /\ HasInfos(store, inside)
  /\ output # <<>> => OvertakenOnly(store, output[Len(output)].packet)

-----------------------------------------------------------------------------
\* The packets of the stream have different integer timestamps.
LEMMA Timestamps ==
  /\ Packets = 1..Len(Stream) /\ Len(Stream) \in Nat
  /\ \A k \in Packets : Stream[k] \in Int
  /\ \A j, k \in Packets : Stream[j] = Stream[k] => j = k
  BY StreamAssumption DEF Packets

\* An entry of the queue is the info of a packet that was fed, under its pts.
LEMMA EntryOf ==
  ASSUME NEW f \in 0..Len(Stream), NEW queue \in Seq(Infos(f)), NEW i \in 1..Len(queue)
  PROVE  /\ queue[i].info \in 1..f /\ queue[i].pts = Stream[queue[i].info]
         /\ queue[i] = Entry(Stream[queue[i].info], queue[i].info)
<1>1. queue[i] \in Infos(f)
  OBVIOUS
<1> QED
  BY <1>1 DEF Infos, Entry

\* Queueing the info of the next packet (queue_frame_info) keeps the queue in order
\* and leaves every other entry in it.
LEMMA QueuedNext ==
  ASSUME NEW f \in 0..(Len(Stream) - 1), NEW queue \in Seq(Infos(f)), Ordered(queue),
         NEW held \in SUBSET (1..f), HasInfos(queue, held)
  PROVE  LET new == Queued(queue, Stream[f + 1], f + 1)
         IN  /\ new \in Seq(Infos(f + 1)) /\ Ordered(new)
             /\ HasInfos(new, held \union {f + 1})
             /\ Len(new) = Len(queue) + 1 /\ new[Len(queue) + 1] = Entry(Stream[f + 1], f + 1)
             /\ \A i \in 1..Len(queue) : new[i] = queue[i]
<1> DEFINE e == Entry(Stream[f + 1], f + 1)
           new == Queued(queue, Stream[f + 1], f + 1)
<1>1. e \in Infos(f + 1) /\ Infos(f) \subseteq Infos(f + 1) /\ e.info = f + 1
  <2>1. f + 1 \in 1..(f + 1) /\ 1..f \subseteq 1..(f + 1)
    BY Timestamps
  <2>2. e.info = f + 1
    BY DEF Entry
  <2> QED
    BY <2>1, <2>2 DEF Infos
<1>2. queue \in Seq(Infos(f + 1))
  <2>1. \A i \in 1..Len(queue) : queue[i] \in Infos(f + 1)
    BY <1>1
  <2> QED
    BY <2>1
<1>3. new = Append(queue, e)
  BY DEF Queued
<1> HIDE DEF e, new
<1>4. /\ new \in Seq(Infos(f + 1)) /\ Len(new) = Len(queue) + 1 /\ Len(queue) \in Nat
      /\ new[Len(queue) + 1] = e /\ \A i \in 1..Len(queue) : new[i] = queue[i]
  BY <1>1, <1>2, <1>3
<1>5. \A i \in 1..Len(queue) : queue[i].info < f + 1
  BY EntryOf, Timestamps
<1>6. Ordered(new)
  <2> SUFFICES ASSUME NEW i \in 1..(Len(queue) + 1), NEW j \in 1..(Len(queue) + 1), i < j
               PROVE  new[i].info < new[j].info
    BY <1>4 DEF Ordered
  <2>1. i \in 1..Len(queue) /\ new[i] = queue[i]
    BY <1>4
  <2>2. CASE j = Len(queue) + 1
    BY <1>1, <1>4, <1>5, <2>1, <2>2
  <2>3. CASE j \in 1..Len(queue)
    BY <1>4, <2>1, <2>3 DEF Ordered
  <2> QED
    BY <1>4, <2>2, <2>3
<1>7. HasInfos(new, held \union {f + 1})
  <2>1. ASSUME NEW k \in held PROVE \E i \in DOMAIN new : new[i].info = k
    <3>0. DOMAIN queue = 1..Len(queue)
      OBVIOUS
    <3>1. PICK i \in 1..Len(queue) : queue[i].info = k
      BY <3>0 DEF HasInfos
    <3>2. i \in DOMAIN new /\ new[i].info = k
      BY <1>4, <3>1
    <3> QED
      BY <3>2
  <2>2. Len(queue) + 1 \in DOMAIN new /\ new[Len(queue) + 1].info = f + 1
    BY <1>1, <1>4
  <2> QED
    BY <2>1, <2>2 DEF HasInfos
<1> QED
  BY <1>4, <1>6, <1>7 DEF e, new

\* What get_frame_info leaves when the frame of packet k takes its info.
Left(queue, k) == Remaining(queue, Stream[k], TRUE)

\* The frame first in display order finds the info of its packet
\* (add_frame_info_to_frame), and what drop_old_pts leaves still has the info of
\* every other frame the decoder holds.
LEMMA Taken ==
  ASSUME NEW f \in 0..Len(Stream), NEW queue \in Seq(Infos(f)), Ordered(queue),
         NEW held \in SUBSET (1..f), HasInfos(queue, held),
         NEW k \in held, \A j \in held : Stream[k] <= Stream[j]
  PROVE  /\ Found(queue, Stream[k])
         /\ Left(queue, k) \in Seq(Infos(f)) /\ Ordered(Left(queue, k))
         /\ HasInfos(Left(queue, k), held \ {k}) /\ OvertakenOnly(Left(queue, k), k)
<1> DEFINE m == Match(queue, Stream[k])
           left == Left(queue, k)
<1>0. k \in Packets /\ held \subseteq Packets /\ 1..f \subseteq Packets /\ Stream[k] \in Int
  BY Timestamps
<1>1. Found(queue, Stream[k])
  <2>1. PICK i \in 1..Len(queue) : queue[i].info = k
    BY DEF HasInfos
  <2>2. queue[i].pts = Stream[k]
    BY <2>1, EntryOf
  <2> QED
    BY <2>2 DEF Found, Matches
<1>2. m \in 1..Len(queue) /\ queue[m].pts = Stream[k]
  BY <1>1, MatchIs
<1>3. queue[m].info = k
  BY <1>0, <1>2, EntryOf, Timestamps
<1>4. PICK at : SelectedAre(left, at, queue, Kept(queue, Stream[k], TRUE), Len(queue))
  BY RemainingIs DEF Left
<1>5. left \in Seq(Infos(f))
  BY RemainingIs DEF Left
<1> HIDE DEF left
<1>6. ASSUME NEW j \in 1..Len(left)
      PROVE  /\ at[j] \in 1..Len(queue) /\ left[j] = queue[at[j]]
             /\ at[j] # m /\ (at[j] < m => ~(queue[at[j]].pts < Stream[k]))
  <2>1. at[j] \in Kept(queue, Stream[k], TRUE) /\ left[j] = queue[at[j]]
    BY <1>4 DEF SelectedAre
  <2> QED
    BY <1>2, <2>1 DEF Kept, Dropped
<1>7. Ordered(left)
  <2> SUFFICES ASSUME NEW i \in 1..Len(left), NEW j \in 1..Len(left), i < j
               PROVE  left[i].info < left[j].info
    BY <1>5 DEF Ordered
  <2>1. at[i] < at[j]
    BY <1>4 DEF SelectedAre
  <2> QED
    BY <1>6, <2>1 DEF Ordered
<1>8. HasInfos(left, held \ {k})
  <2> SUFFICES ASSUME NEW h \in held \ {k} PROVE \E j \in 1..Len(left) : left[j].info = h
    BY <1>5 DEF HasInfos
  <2>1. PICK i \in 1..Len(queue) : queue[i].info = h
    BY DEF HasInfos
  <2>2. i # m /\ ~(queue[i].pts < Stream[k])
    BY <1>0, <1>3, <2>1, EntryOf, Timestamps
  <2>3. \E j \in 1..Len(left) : left[j] = queue[i]
    <3>1. i \in Kept(queue, Stream[k], TRUE) \intersect (1..Len(queue))
      BY <2>2 DEF Kept, Dropped
    <3> QED
      BY <1>4, <3>1 DEF SelectedAre
  <2> QED
    BY <2>1, <2>3
<1>9. OvertakenOnly(left, k)
  <2> SUFFICES ASSUME NEW j \in 1..Len(left), left[j].pts < Stream[k] PROVE k < left[j].info
    BY <1>5 DEF OvertakenOnly
  <2>1. m < at[j]
    BY <1>2, <1>6
  <2> QED
    BY <1>2, <1>3, <1>6, <2>1 DEF Ordered
<1> QED
  BY <1>1, <1>5, <1>7, <1>8, <1>9 DEF left

-----------------------------------------------------------------------------
(* The invariant is preserved.                                             *)

\* Before the first packet nothing is queued, held or sent.
LEMMA InitInv == Init => IndInv
<1> SUFFICES ASSUME Init PROVE IndInv
  OBVIOUS
<1>1. fed \in 0..Len(Stream) /\ inside = {} /\ store = <<>> /\ output = <<>> /\ pc = "ready"
  BY Timestamps DEF Init
<1>2. store \in Seq(Infos(fed)) /\ output \in Seq([packet : 1..fed, info : 1..fed])
      /\ DOMAIN store = {} /\ DOMAIN output = {}
  BY <1>1
<1>3. TypeOK /\ OwnInfo
  BY <1>1, <1>2 DEF TypeOK, OwnInfo
<1> QED
  BY <1>1, <1>2, <1>3 DEF IndInv, Ordered, HasInfos

\* The frame the decoder returns is sent with the info of its packet, whatever packets
\* were fed since; the program goes on.
LEMMA SendFrameInv ==
  ASSUME IndInv, NEW f \in 0..Len(Stream), fed <= f, NEW queue \in Seq(Infos(f)), Ordered(queue),
         NEW held \in SUBSET (1..f), HasInfos(queue, held),
         NEW k \in held, \A j \in held : Stream[k] <= Stream[j],
         fed' = f, inside' = held \ {k}, SendFrame(k, queue), pc' = PcAfter(k, queue, pc)
  PROVE  IndInv'
<1> DEFINE m == Match(queue, Stream[k])
           left == Left(queue, k)
           sent == [packet |-> k, info |-> k]
           Out(g) == [packet : 1..g, info : 1..g]
<1>1. Found(queue, Stream[k]) /\ queue[m].info = k
  <2>1. Found(queue, Stream[k])
    BY Taken
  <2>2. m \in 1..Len(queue) /\ queue[m].pts = Stream[k]
    BY <2>1, MatchIs
  <2>3. queue[m].info \in Packets /\ queue[m].pts = Stream[queue[m].info] /\ k \in Packets
    BY <2>2, EntryOf, Timestamps
  <2> QED
    BY <2>1, <2>2, <2>3, Timestamps
<1>2. left \in Seq(Infos(f)) /\ Ordered(left) /\ HasInfos(left, held \ {k}) /\ OvertakenOnly(left, k)
  BY Taken
<1>3. pc' = pc /\ store' = left /\ output' = Append(output, sent)
  BY <1>1 DEF SendFrame, PcAfter, Left
<1> HIDE DEF left, m
<1>4. output \in Seq(Out(f)) /\ sent \in Out(f) /\ Len(output) \in Nat
  <2>1. Out(fed) \subseteq Out(f) /\ sent \in Out(f)
    BY DEF IndInv, TypeOK
  <2>2. output \in Seq(Out(fed))
    BY DEF IndInv
  <2> HIDE DEF Out, sent
  <2>3. Len(output) \in Nat /\ \A i \in 1..Len(output) : output[i] \in Out(f)
    BY <2>1, <2>2, ElementOf
  <2> QED
    BY <2>1, <2>2, <2>3, SequenceOver
<1>5. /\ output' \in Seq(Out(f)) /\ Len(output') = Len(output) + 1
      /\ output'[Len(output) + 1] = sent /\ \A i \in 1..Len(output) : output'[i] = output[i]
      /\ DOMAIN output = 1..Len(output) /\ DOMAIN output' = 1..(Len(output) + 1)
  <2> HIDE DEF Out, sent
  <2> QED
    BY <1>3, <1>4, Appended, ElementOf
<1>6. OwnInfo'
  <2> SUFFICES ASSUME NEW i \in 1..(Len(output) + 1) PROVE output'[i].info = output'[i].packet
    BY <1>5 DEF OwnInfo
  <2>1. CASE i = Len(output) + 1
    BY <1>5, <2>1
  <2>2. CASE i \in 1..Len(output)
    BY <1>5, <2>2 DEF IndInv, OwnInfo
  <2> QED
    BY <1>4, <2>1, <2>2
<1>7. OvertakenOnly(store', output'[Len(output')].packet)
  BY <1>2, <1>3, <1>5
<1>8. pc' \in {"ready", "drain", "flushed", "exited"} /\ pc' # "exited"
  BY <1>3 DEF IndInv, TypeOK
<1>9. store' \in Seq(Infos(fed')) /\ output' \in Seq(Out(fed')) /\ inside' \subseteq 1..fed'
      /\ Ordered(store') /\ HasInfos(store', inside')
  BY <1>2, <1>3, <1>5
<1>10. TypeOK'
  <2>1. \A i \in DOMAIN left : left[i] = Entry(Stream[left[i].info], left[i].info)
    BY <1>2, EntryOf, ElementOf
  <2>2. \A i \in DOMAIN output' : output'[i] \in Out(fed')
    <3> HIDE DEF Out
    <3> QED
      BY <1>5, ElementOf
  <2> QED
    BY <1>3, <1>8, <1>9, <2>1, <2>2 DEF TypeOK
<1> QED
  BY <1>6, <1>7, <1>8, <1>9, <1>10 DEF IndInv, Ordered, HasInfos, OvertakenOnly

\* process() with a frame out of the decoder: the packet's info is queued first.
LEMMA ProcessFrameInv ==
  ASSUME IndInv, NEW k \in Packets, ProcessFrame(k)
  PROVE  IndInv'
<1> DEFINE queue == Queued(store, Stream[fed + 1], fed + 1)
           held == inside \union {fed + 1}
<1>1. fed \in 0..(Len(Stream) - 1) /\ inside \in SUBSET (1..fed) /\ pc = "ready"
      /\ store \in Seq(Infos(fed)) /\ Ordered(store) /\ HasInfos(store, inside)
  BY DEF IndInv, TypeOK, ProcessFrame
<1>2. queue \in Seq(Infos(fed + 1)) /\ Ordered(queue) /\ HasInfos(queue, held)
  BY <1>1, QueuedNext
<1>3. PICK f \in 0..Len(Stream) : f = fed + 1
  BY <1>1
<1>4. PICK q \in Seq(Infos(f)) : q = queue
  BY <1>2, <1>3
<1>5. PICK h \in SUBSET (1..f) : h = held
  <2>1. held \in SUBSET (1..(fed + 1))
    BY <1>1
  <2> QED
    BY <1>3, <2>1
<1>6. k \in h /\ \A j \in h : Stream[k] <= Stream[j]
  BY <1>3, <1>5 DEF ProcessFrame, Displayable
<1>7. fed' = f /\ inside' = h \ {k} /\ SendFrame(k, q) /\ pc' = PcAfter(k, q, pc)
  BY <1>3, <1>4, <1>5 DEF ProcessFrame
<1>8. fed <= f /\ Ordered(q) /\ HasInfos(q, h)
  BY <1>1, <1>2, <1>3, <1>4, <1>5
<1> QED
  BY <1>6, <1>7, <1>8, SendFrameInv

\* A frame drained by flush() is sent as one that process() gets.
LEMMA DrainFrameInv ==
  ASSUME IndInv, NEW k \in Packets, DrainFrame(k)
  PROVE  IndInv'
<1>1. fed \in 0..Len(Stream) /\ inside \in SUBSET (1..fed)
      /\ store \in Seq(Infos(fed)) /\ Ordered(store) /\ HasInfos(store, inside)
  BY DEF IndInv, TypeOK
<1>2. PICK f \in 0..Len(Stream) : f = fed
  BY <1>1
<1>3. PICK q \in Seq(Infos(f)) : q = store
  BY <1>1, <1>2
<1>4. PICK h \in SUBSET (1..f) : h = inside
  BY <1>1, <1>2
<1>5. k \in h /\ \A j \in h : Stream[k] <= Stream[j]
  BY <1>4 DEF DrainFrame, Displayable
<1>6. fed' = f /\ inside' = h \ {k} /\ SendFrame(k, q) /\ pc' = PcAfter(k, q, pc)
  BY <1>2, <1>3, <1>4 DEF DrainFrame
<1>7. fed <= f /\ Ordered(q) /\ HasInfos(q, h)
  BY <1>1, <1>2, <1>3, <1>4
<1> QED
  BY <1>5, <1>6, <1>7, SendFrameInv

\* A packet without a frame leaves its info in the queue, behind all others.
LEMMA ProcessNothingInv ==
  ASSUME IndInv, ProcessNothing
  PROVE  IndInv'
<1> DEFINE queue == Queued(store, Stream[fed + 1], fed + 1)
           Out(g) == [packet : 1..g, info : 1..g]
<1>1. /\ fed \in 0..(Len(Stream) - 1) /\ inside \in SUBSET (1..fed) /\ pc = "ready" /\ pc' = "ready"
      /\ store \in Seq(Infos(fed)) /\ Ordered(store) /\ HasInfos(store, inside)
      /\ output \in Seq(Out(fed)) /\ OwnInfo /\ output' = output
      /\ fed' = fed + 1 /\ store' = queue /\ inside' \subseteq inside \union {fed + 1}
  BY DEF IndInv, TypeOK, ProcessNothing
<1>2. /\ queue \in Seq(Infos(fed + 1)) /\ Ordered(queue) /\ HasInfos(queue, inside \union {fed + 1})
      /\ Len(queue) = Len(store) + 1 /\ queue[Len(store) + 1] = Entry(Stream[fed + 1], fed + 1)
      /\ \A i \in 1..Len(store) : queue[i] = store[i]
  BY <1>1, QueuedNext
<1> HIDE DEF queue
<1>3. HasInfos(queue, inside')
  BY <1>1, <1>2 DEF HasInfos
<1>4. output \in Seq(Out(fed + 1)) /\ \A i \in 1..Len(output) : output[i] \in Out(fed)
  <2>1. Out(fed) \subseteq Out(fed + 1)
    BY <1>1
  <2> HIDE DEF Out
  <2>2. \A i \in 1..Len(output) : output[i] \in Out(fed)
    BY <1>1, ElementOf
  <2> QED
    BY <1>1, <2>1, <2>2, SequenceOver
<1>5. output # <<>> => OvertakenOnly(queue, output[Len(output)].packet)
  <2> SUFFICES ASSUME output # <<>>, NEW i \in 1..(Len(store) + 1),
                      queue[i].pts < Stream[output[Len(output)].packet]
               PROVE  output[Len(output)].packet < queue[i].info
    BY <1>2, ElementOf DEF OvertakenOnly
  <2>1. output[Len(output)].packet \in 1..fed
    <3>1. Len(output) \in 1..Len(output)
      BY <1>1
    <3> QED
      BY <1>4, <3>1
  <2>2. CASE i = Len(store) + 1
    BY <1>1, <1>2, <2>1, <2>2 DEF Entry
  <2>3. CASE i \in 1..Len(store)
    <3>1. OvertakenOnly(store, output[Len(output)].packet)
      BY DEF IndInv
    <3>2. i \in DOMAIN store /\ queue[i] = store[i]
      BY <1>1, <1>2, <2>3
    <3> QED
      BY <3>1, <3>2 DEF OvertakenOnly
  <2> QED
    BY <1>1, <2>2, <2>3
<1>6. TypeOK'
  <2>1. \A i \in DOMAIN queue : queue[i] = Entry(Stream[queue[i].info], queue[i].info)
    <3>1. PICK f \in 0..Len(Stream) : f = fed + 1
      BY <1>1
    <3>2. PICK q \in Seq(Infos(f)) : q = queue
      BY <1>2, <3>1
    <3> QED
      BY <3>2, EntryOf, ElementOf
  <2>2. \A i \in DOMAIN output : output[i] \in Out(fed + 1)
    <3> HIDE DEF Out
    <3> QED
      BY <1>4, ElementOf
  <2>3. inside' \subseteq 1..(fed + 1) /\ fed + 1 \in 0..Len(Stream)
    BY <1>1
  <2> QED
    BY <1>1, <2>1, <2>2, <2>3 DEF TypeOK
<1>7. OwnInfo' /\ pc' # "exited"
  BY <1>1 DEF OwnInfo
<1> QED
  BY <1>1, <1>2, <1>3, <1>4, <1>5, <1>6, <1>7 DEF IndInv, Ordered, HasInfos, OvertakenOnly

\* Every step preserves the inductive invariant.
LEMMA NextInv == IndInv /\ [Next]_vars => IndInv'
<1> SUFFICES ASSUME IndInv, [Next]_vars PROVE IndInv'
  OBVIOUS
<1>1. ASSUME UNCHANGED <<fed, store, output>>, inside' \subseteq inside,
             pc' \in {pc, "drain", "flushed"}
      PROVE  IndInv'
  BY <1>1 DEF IndInv, TypeOK, OwnInfo, Ordered, HasInfos, OvertakenOnly
<1>2. CASE Flush \/ DrainEnd
  BY <1>1, <1>2 DEF Flush, DrainEnd
<1>3. ASSUME NEW k \in Packets, Forget(k) PROVE IndInv'
  BY <1>1, <1>3 DEF Forget
<1>4. CASE UNCHANGED vars
  BY <1>1, <1>4 DEF vars
<1> QED
  BY <1>2, <1>3, <1>4, ProcessFrameInv, DrainFrameInv, ProcessNothingInv DEF Next

\* The inductive invariant holds in every reachable state.
THEOREM Invariant == Spec => []IndInv
<1> QED
  BY InitInv, NextInv, PTL DEF Spec

\* drop_old_pts never drops an info that a frame in the decoder still needs, and
\* "Failed to find frame_info" is never reached, for any reordering.
THEOREM InfoKeptCorrect == Spec => []InfoKept
<1>1. IndInv => InfoKept
  BY DEF IndInv, InfoKept, HasInfos
<1> QED
  BY <1>1, Invariant, PTL

\* Every frame leaves with the info of its own packet.
THEOREM OwnInfoCorrect == Spec => []OwnInfo
<1>1. IndInv => OwnInfo
  BY DEF IndInv
<1> QED
  BY <1>1, Invariant, PTL

\* Of the infos older than the last frame no more stay queued than packets overtook it.
THEOREM NoLeakCorrect == Spec => []NoLeak
<1>1. IndInv => NoLeak
  <2> DEFINE last == output[Len(output)].packet
             older == {i \in DOMAIN store : Stream[store[i].info] < Stream[last]}
             over == {j \in Packets : j > last /\ Stream[j] < Stream[last]}
  <2> SUFFICES ASSUME IndInv, output # <<>> PROVE Cardinality(older) <= Cardinality(over)
    BY DEF NoLeak, Overtaken
  <2>1. fed \in 0..Len(Stream) /\ store \in Seq(Infos(fed)) /\ OvertakenOnly(store, last)
        /\ Ordered(store)
    BY DEF IndInv, TypeOK
  <2>2. PICK f \in 0..Len(Stream) : f = fed
    BY <2>1
  <2>3. PICK q \in Seq(Infos(f)) : q = store
    BY <2>1, <2>2
  <2>4. DOMAIN store = 1..Len(store)
        /\ \A i \in DOMAIN store : store[i].info \in Packets /\ store[i].pts = Stream[store[i].info]
    BY <2>3, EntryOf, ElementOf, Timestamps
  <2>5. \A i \in older : store[i].info \in over
    <3> SUFFICES ASSUME NEW i \in older PROVE store[i].info \in over
      OBVIOUS
    <3>1. i \in DOMAIN store /\ store[i].pts < Stream[last]
      BY <2>4
    <3>2. last < store[i].info
      BY <2>1, <3>1 DEF OvertakenOnly
    <3> QED
      BY <2>4, <3>1, <3>2
  <2> DEFINE g == [i \in older |-> store[i].info]
  <2>6. g \in Injection(older, over)
    <3>1. g \in [older -> over]
      BY <2>5
    <3>2. \A i, j \in older : i # j => store[i].info # store[j].info
      <4> SUFFICES ASSUME NEW i \in older, NEW j \in older, i # j
                   PROVE  store[i].info # store[j].info
        OBVIOUS
      <4>1. i \in Nat /\ j \in Nat /\ i \in DOMAIN store /\ j \in DOMAIN store /\ (i < j \/ j < i)
        BY <2>4
      <4>2. store[i].info \in Int /\ store[j].info \in Int
        <5>1. Packets \subseteq Int
          BY Timestamps
        <5> QED
          BY <2>4, <4>1, <5>1
      <4> QED
        BY <2>1, <4>1, <4>2 DEF Ordered
    <3> HIDE DEF older, over
    <3> QED
      BY <3>1, <3>2 DEF Injection, IsInjective
  <2>7. IsFiniteSet(over)
    <3>1. IsFiniteSet(Packets)
      BY Timestamps, FS_Interval
    <3> QED
      BY <3>1, FS_Subset
  <2> HIDE DEF older, over, g
  <2> QED
    BY <2>6, <2>7, FS_Injection
<1> QED
  BY <1>1, Invariant, PTL
-----------------------------------------------------------------------------
(* The linked list under the queue: FrameInfoList.                         *)

\* What the list may store.
Entries == [pts : Int, info : Int]

\* p is the list: its items from head to tail, each once, and all that are
\* allocated.
IsList(p) ==
  /\ p \in Seq(Items)
  /\ \A j, k \in 1..Len(p) : p[j] = p[k] => j = k
  /\ Allocated = {p[k] : k \in 1..Len(p)}
  /\ head = IF Len(p) = 0 THEN Null ELSE p[1]
  /\ \A k \in 1..Len(p) : item[p[k]].next = IF k = Len(p) THEN Null ELSE p[k + 1]
  /\ Len(p) > 0 => tail = p[Len(p)]

\* What is stored in the items of p.
Stored(p) == [k \in 1..Len(p) |-> Entry(item[p[k]].pts, item[p[k]].info)]

\* The positions of the list as it was that a walk leaves behind it, once it has
\* passed those in front of c, and those from c on.
LeftBehind(c) == (1..Len(before)) \ {i \in 1..(c - 1) : dropOld /\ before[i].pts < want}

\* A walk stands at the j-th item of p, which was the c-th when the walk began. The
\* entries it has passed have other timestamps, and those it dropped are gone.
WalkAt(p, j, c, at) ==
  /\ current = IF j > Len(p) THEN Null ELSE p[j]
  /\ prev = IF j = 1 THEN Null ELSE p[j - 1]
  /\ SelectedAre(Stored(p), at, before, LeftBehind(c), Len(before))
  /\ IF j > Len(p) THEN c = Len(before) + 1 ELSE at[j] = c
  /\ \A i \in 1..(c - 1) : before[i].pts # want

\* A walk stands somewhere on the list.
WalkInv(p) ==
  listPc = "walk" =>
    \E j \in 1..(Len(p) + 1), c \in 1..(Len(before) + 1) : \E at : WalkAt(p, j, c, at)

\* Every allocated item is one.
ItemsOK ==
  item \in [Allocated -> [pts : Pts, info : 1..queued, next : Items \union {Null}]]

\* Between calls the items are one path, and in the middle of one the walk stands on
\* it: the path, and the positions of the entries left in the list as it was, are
\* what an invariant over head, prev and current alone does not say.
ListInv ==
  /\ ListTypeOK
  /\ ItemsOK
  /\ before \in Seq(Entries)
  /\ \E p : IsList(p) /\ WalkInv(p)

\* The names the list's contract brings along mean the same.
LEMMA SameNames ==
  /\ \A s, pts, info : Abstract!Queued(s, pts, info) = Queued(s, pts, info)
  /\ \A s, pts : Abstract!Found(s, pts) <=> Found(s, pts)
  /\ \A s, pts : Abstract!Match(s, pts) = Match(s, pts)
  /\ \A s, pts, drop : Abstract!Remaining(s, pts, drop) = Remaining(s, pts, drop)
<1>1. \A s, pts, info : Abstract!Queued(s, pts, info) = Queued(s, pts, info)
  BY DEF Abstract!Queued, Abstract!Entry, Queued, Entry
<1>2. \A s, pts : Abstract!Found(s, pts) <=> Found(s, pts)
  BY DEF Abstract!Found, Abstract!Matches, Found, Matches
<1>3. \A s, pts : Abstract!Match(s, pts) = Match(s, pts)
  BY DEF Abstract!Match, Abstract!Matches, Match, Matches
<1>4. \A s, pts, drop : Abstract!Remaining(s, pts, drop) = Remaining(s, pts, drop)
  <2>1. \A s, kept : Abstract!Selected(s, kept) = Selected(s, kept)
    BY DEF Abstract!Selected, Selected
  <2> QED
    BY <1>3, <2>1 DEF Abstract!Remaining, Remaining
<1> QED
  BY <1>1, <1>2, <1>3, <1>4

\* A list is no longer than the items malloc can return.
LEMMA ListBounds ==
  ASSUME NEW p, IsList(p)
  PROVE  /\ Len(p) \in Nat /\ \A k \in 1..Len(p) : p[k] \in Items /\ p[k] # Null
         /\ Cardinality(Items) \in Nat /\ Len(p) <= Cardinality(Items)
         /\ Cardinality(Allocated) = Len(p)
<1>1. IsFiniteSet(Items) /\ Null \notin Items
  BY SameNames, ListAssumption
<1>2. /\ Len(p) \in Nat /\ p \in [1..Len(p) -> Items]
      /\ \A j, k \in 1..Len(p) : p[j] = p[k] => j = k
      /\ Allocated = {p[k] : k \in 1..Len(p)}
  BY DEF IsList
<1>3. Cardinality(1..Len(p)) = Len(p) /\ IsFiniteSet(1..Len(p))
  BY <1>2, FS_Interval
<1>4. p \in Injection(1..Len(p), Items)
  BY <1>2 DEF Injection, IsInjective
<1>5. p \in Bijection(1..Len(p), Allocated)
  BY <1>2 DEF Bijection, Injection, Surjection, IsInjective
<1>6. Cardinality(1..Len(p)) <= Cardinality(Items)
  BY <1>1, <1>4, FS_Injection
<1>7. Cardinality(Allocated) = Cardinality(1..Len(p))
  BY <1>3, <1>5, FS_Bijection DEF ExistsBijection
<1>8. Cardinality(Items) \in Nat
  BY <1>1, FS_CardinalityType
<1> QED
  BY <1>1, <1>2, <1>3, <1>6, <1>7, <1>8

\* Following next from head leads along the list and then nowhere.
LEMMA ReachedIs ==
  ASSUME NEW p, IsList(p)
  PROVE  Reached =
           [k \in 0..Cardinality(Items) |-> IF k < Len(p) THEN p[k + 1] ELSE Null]
<1> DEFINE N == Cardinality(Items)
           G == [k \in 0..N |-> IF k < Len(p) THEN p[k + 1] ELSE Null]
           Follow(f) ==
             [k \in 0..N |->
                IF k = 0 THEN head
                ELSE IF f[k - 1] \in Allocated THEN item[f[k - 1]].next ELSE Null]
           F == CHOOSE f : f = Follow(f)
<1>1. /\ N \in Nat /\ Len(p) \in Nat /\ Len(p) <= N
      /\ \A k \in 1..Len(p) : p[k] \in Items /\ p[k] # Null
      /\ Null \notin Items
  BY ListBounds, ListAssumption
<1>2. /\ Allocated = {p[k] : k \in 1..Len(p)}
      /\ head = IF Len(p) = 0 THEN Null ELSE p[1]
      /\ \A k \in 1..Len(p) : item[p[k]].next = IF k = Len(p) THEN Null ELSE p[k + 1]
  BY DEF IsList
<1>3. Reached = F
  BY SameNames DEF Reached
<1>4. \A k \in 0..N : Follow(G)[k] = G[k]
  <2> SUFFICES ASSUME NEW k \in 0..N PROVE Follow(G)[k] = G[k]
    OBVIOUS
  <2>1. CASE k = 0
    <3>1. Follow(G)[k] = head
      BY <2>1
    <3>2. G[k] = IF 0 < Len(p) THEN p[1] ELSE Null
      BY <2>1
    <3> QED
      BY <1>1, <1>2, <3>1, <3>2
  <2>2. CASE k # 0 /\ k - 1 < Len(p)
    <3>1. k - 1 \in 0..N /\ k \in 1..Len(p)
      BY <1>1, <2>2
    <3>2. G[k - 1] = p[k]
      BY <1>1, <2>2, <3>1
    <3>3. Follow(G)[k] = item[p[k]].next
      BY <1>2, <2>2, <3>1, <3>2
    <3>4. G[k] = IF k < Len(p) THEN p[k + 1] ELSE Null
      OBVIOUS
    <3> QED
      BY <1>1, <1>2, <3>1, <3>3, <3>4
  <2>3. CASE k # 0 /\ ~(k - 1 < Len(p))
    <3>1. k - 1 \in 0..N /\ ~(k < Len(p))
      BY <1>1, <2>3
    <3>2. G[k - 1] = Null /\ G[k] = Null
      BY <1>1, <2>3, <3>1
    <3>3. Null \notin Allocated
      BY <1>1, <1>2
    <3> QED
      BY <2>3, <3>2, <3>3
  <2> QED
    BY <2>1, <2>2, <2>3
<1>5. F = Follow(F)
  <2>1. G = Follow(G)
    <3>1. Follow(G) = [k \in 0..N |-> Follow(G)[k]]
      OBVIOUS
    <3>2. Follow(G) = [k \in 0..N |-> G[k]]
      BY <1>4, <3>1
    <3> QED
      BY <3>2
  <2> HIDE DEF G, Follow
  <2> QED
    BY <2>1
<1> HIDE DEF F
<1>6. \A k \in 0..N :
        F[k] = IF k = 0 THEN head
               ELSE IF F[k - 1] \in Allocated THEN item[F[k - 1]].next ELSE Null
  BY <1>5
<1>7. \A k \in 0..N :
        G[k] = IF k = 0 THEN head
               ELSE IF G[k - 1] \in Allocated THEN item[G[k - 1]].next ELSE Null
  BY <1>4
<1>8. F = [k \in 0..N |-> F[k]] /\ G = [k \in 0..N |-> G[k]]
  BY <1>5
<1> HIDE DEF G, N
<1> DEFINE T == {k \in Nat : k \in 0..N => F[k] = G[k]}
<1>9. 0 \in T
  BY <1>6, <1>7
<1>10. ASSUME NEW k \in T PROVE k + 1 \in T
  <2> SUFFICES ASSUME k + 1 \in 0..N PROVE F[k + 1] = G[k + 1]
    OBVIOUS
  <2>1. k \in 0..N /\ k + 1 # 0 /\ (k + 1) - 1 = k /\ F[k] = G[k]
    BY <1>1
  <2> QED
    BY <1>6, <1>7, <2>1
<1>11. T = Nat
  <2> HIDE DEF T
  <2>1. T \in SUBSET Nat
    BY DEF T
  <2> QED
    BY <1>9, <1>10, <2>1, SetInduction
<1>12. \A k \in 0..N : F[k] = G[k]
  BY <1>11
<1> QED
  BY <1>3, <1>8, <1>12 DEF G, N

\* The contents of the list are what its items store, in order.
LEMMA ContentsAre ==
  ASSUME NEW p, IsList(p)
  PROVE  LinkedLength = Len(p) /\ Contents = Stored(p)
<1> DEFINE N == Cardinality(Items)
<1>1. /\ N \in Nat /\ Len(p) \in Nat /\ Len(p) <= N
      /\ \A k \in 1..Len(p) : p[k] # Null
  BY ListBounds
<1>2. DOMAIN Reached = 0..N
      /\ \A k \in 0..N : Reached[k] = IF k < Len(p) THEN p[k + 1] ELSE Null
  BY ReachedIs
<1> HIDE DEF N
<1>3. {k \in DOMAIN Reached : Reached[k] # Null} = 0..(Len(p) - 1)
  <2>1. \A k \in 0..N : Reached[k] # Null <=> k < Len(p)
    BY <1>1, <1>2
  <2> QED
    BY <1>1, <1>2, <2>1
<1>4. LinkedLength = Len(p)
  <2>1. Cardinality(0..(Len(p) - 1)) = Len(p)
    <3> DEFINE l == Len(p) - 1
    <3>1. l \in Int
      BY <1>1
    <3> HIDE DEF l
    <3>2. Cardinality(0..l) = IF 0 > l THEN 0 ELSE l - 0 + 1
      BY <3>1, FS_Interval
    <3> QED
      BY <1>1, <3>2 DEF l
  <2> QED
    BY <1>3, <2>1, SameNames DEF LinkedLength
<1>5. \A k \in 1..Len(p) : Reached[k - 1] = p[k]
  <2> SUFFICES ASSUME NEW k \in 1..Len(p) PROVE Reached[k - 1] = p[k]
    OBVIOUS
  <2>1. k - 1 \in 0..N /\ k - 1 < Len(p) /\ (k - 1) + 1 = k
    BY <1>1
  <2> QED
    BY <1>2, <2>1
<1> QED
  BY <1>4, <1>5, SameNames DEF Contents, Stored

\* What a list stores is a sequence of entries.
LEMMA StoredIs ==
  ASSUME ListTypeOK, NEW p, IsList(p)
  PROVE  /\ Stored(p) \in Seq(Entries) /\ Len(Stored(p)) = Len(p)
         /\ \A k \in 1..Len(p) : /\ Stored(p)[k] = Entry(item[p[k]].pts, item[p[k]].info)
                                 /\ Stored(p)[k].pts = item[p[k]].pts
                                 /\ Stored(p)[k].info = item[p[k]].info
<1>1. Len(p) \in Nat /\ Allocated = {p[k] : k \in 1..Len(p)}
  BY DEF IsList
<1>2. \A k \in 1..Len(p) : item[p[k]].pts \in Int /\ item[p[k]].info \in Int
  <2>1. \A i \in Allocated : item[i].pts \in Pts /\ item[i].info \in 1..queued
    BY DEF ListTypeOK
  <2>2. Pts \subseteq Int /\ 1..queued \subseteq Int
    BY ListAssumption
  <2> QED
    BY <1>1, <2>1, <2>2
<1>3. \A k \in 1..Len(p) : Entry(item[p[k]].pts, item[p[k]].info) \in Entries
  BY <1>2 DEF Entry, Entries
<1>4. Stored(p) \in [1..Len(p) -> Entries]
  BY <1>3 DEF Stored
<1>5. Stored(p) \in Seq(Entries) /\ Len(Stored(p)) = Len(p)
  <2> HIDE DEF Entries
  <2> QED
    BY <1>1, <1>4
<1> QED
  BY <1>5 DEF Stored, Entry

\* add_frame_info_to_queue puts one more item at the end.
LEMMA AddToList ==
  ASSUME ListTypeOK, ItemsOK, NEW p, IsList(p),
         NEW pts \in Pts, NEW i \in Items, Add(pts, i)
  PROVE  /\ ItemsOK' /\ IsList(Append(p, i))'
         /\ Stored(Append(p, i))' = Append(Stored(p), Entry(pts, queued + 1))
<1> DEFINE n == Len(p)
           q == Append(p, i)
           Alloc == Allocated
           link == IF n = 0 THEN item ELSE [item EXCEPT ![tail].next = i]
           new == [pts |-> pts, info |-> queued + 1, next |-> Null]
           Record == [pts : Pts, info : 1..(queued + 1), next : Items \union {Null}]
<1>1. /\ n \in Nat /\ p \in Seq(Items) /\ \A k \in 1..n : p[k] \in Items /\ p[k] # Null
      /\ \A j, k \in 1..n : p[j] = p[k] => j = k
      /\ Alloc = {p[k] : k \in 1..n}
      /\ head = IF n = 0 THEN Null ELSE p[1]
      /\ \A k \in 1..n : item[p[k]].next = IF k = n THEN Null ELSE p[k + 1]
      /\ n > 0 => tail = p[n]
  BY ListBounds DEF IsList
<1>2. i \notin Alloc /\ i # Null /\ tail' = i /\ (head = Null <=> n = 0)
  <2>1. head = Null <=> n = 0
    BY <1>1
  <2> QED
    BY <2>1, ListAssumption DEF Add
<1>3. /\ item' = [j \in Alloc \union {i} |-> IF j = i THEN new ELSE link[j]]
      /\ head' = IF n = 0 THEN i ELSE head
  <2>1. DOMAIN link = Alloc
    BY DEF Allocated
  <2> QED
    BY <1>2, <2>1 DEF Add, Allocate, Link, Allocated
<1>4. item \in [Alloc -> Record] /\ new \in Record /\ queued' = queued + 1
  <2>1. queued \in Nat /\ queued + 1 \in 1..(queued + 1) /\ 1..queued \subseteq 1..(queued + 1)
    BY ListAssumption DEF ListTypeOK
  <2>2. item \in [Alloc -> [pts : Pts, info : 1..queued, next : Items \union {Null}]]
    BY DEF ItemsOK
  <2> QED
    BY <2>1, <2>2 DEF Add
<1>5. \A k \in 1..n : /\ link[p[k]].pts = item[p[k]].pts
                      /\ link[p[k]].info = item[p[k]].info
                      /\ link[p[k]].next = IF k = n THEN IF n = 0 THEN Null ELSE i ELSE p[k + 1]
                      /\ link[p[k]] \in Record
  <2> SUFFICES ASSUME NEW k \in 1..n
               PROVE  /\ link[p[k]].pts = item[p[k]].pts
                      /\ link[p[k]].info = item[p[k]].info
                      /\ link[p[k]].next = IF k = n THEN i ELSE p[k + 1]
                      /\ link[p[k]] \in Record
    BY <1>1
  <2>1. n > 0 /\ tail = p[n] /\ tail \in Alloc /\ p[k] \in Alloc /\ item[p[k]] \in Record
    BY <1>1, <1>4
  <2>2. link = [item EXCEPT ![tail].next = i]
    BY <2>1
  <2>3. CASE k = n
    <3>1. link[p[k]] = [item[p[k]] EXCEPT !.next = i]
      BY <1>4, <2>1, <2>2, <2>3
    <3> QED
      BY <2>1, <2>3, <3>1
  <2>4. CASE k # n
    <3>1. p[k] # tail
      BY <1>1, <2>1, <2>4
    <3>2. link[p[k]] = item[p[k]]
      BY <1>4, <2>1, <2>2, <3>1
    <3> QED
      BY <1>1, <2>1, <2>4, <3>2
  <2> QED
    BY <2>3, <2>4
<1> HIDE DEF link
<1>6. q \in Seq(Items) /\ Len(q) = n + 1 /\ q[n + 1] = i /\ \A k \in 1..n : q[k] = p[k]
  BY <1>1, Appended
<1> HIDE DEF q, n
<1>7. /\ item'[i] = new
      /\ \A k \in 1..n : item'[p[k]] = link[p[k]]
  <2>1. \A k \in 1..n : p[k] \in Alloc /\ p[k] # i
    BY <1>1, <1>2
  <2> QED
    BY <1>3, <2>1
<1>8. DOMAIN item' = Alloc \union {i}
  BY <1>3
<1>9. ItemsOK'
  <2>1. \A j \in Alloc \union {i} : item'[j] \in Record
    BY <1>1, <1>4, <1>5, <1>7
  <2>2. item' \in [DOMAIN item' -> Record]
    BY <1>3, <1>8, <2>1
  <2> QED
    BY <1>4, <2>2 DEF ItemsOK, Allocated
<1>10. IsList(q)'
  <2>1. \A j, k \in 1..(n + 1) : q[j] = q[k] => j = k
    <3>1. \A k \in 1..n : q[k] # i
      BY <1>1, <1>2, <1>6
    <3> QED
      BY <1>1, <1>6, <3>1
  <2>2. DOMAIN item' = {q[k] : k \in 1..(n + 1)}
    <3>1. \A x : x \in {q[k] : k \in 1..(n + 1)} <=> x \in {p[k] : k \in 1..n} \/ x = i
      BY <1>1, <1>6
    <3> QED
      BY <1>1, <1>8, <3>1
  <2>3. head' = q[1]
    <3>1. CASE n = 0
      BY <1>3, <1>6, <3>1
    <3>2. CASE n > 0
      BY <1>1, <1>3, <1>6, <3>2
    <3> QED
      BY <1>1, <3>1, <3>2
  <2>4. \A k \in 1..(n + 1) : item'[q[k]].next = IF k = n + 1 THEN Null ELSE q[k + 1]
    <3> SUFFICES ASSUME NEW k \in 1..(n + 1)
                 PROVE  item'[q[k]].next = IF k = n + 1 THEN Null ELSE q[k + 1]
      OBVIOUS
    <3>1. CASE k = n + 1
      BY <1>6, <1>7, <3>1
    <3>2. CASE k # n + 1
      <4>1. k \in 1..n /\ n > 0 /\ k + 1 \in 1..(n + 1)
        BY <1>1, <3>2
      <4>2. item'[q[k]].next = IF k = n THEN i ELSE p[k + 1]
        BY <1>5, <1>6, <1>7, <4>1
      <4>3. q[k + 1] = IF k = n THEN i ELSE p[k + 1]
        BY <1>1, <1>6, <4>1
      <4> QED
        BY <3>2, <4>2, <4>3
    <3> QED
      BY <3>1, <3>2
  <2> QED
    BY <1>1, <1>2, <1>6, <2>1, <2>2, <2>3, <2>4 DEF IsList, Allocated
<1>11. Stored(q)' = Append(Stored(p), Entry(pts, queued + 1))
  <2> DEFINE e == Entry(pts, queued + 1)
  <2>1. Stored(p) \in Seq(Entries) /\ Len(Stored(p)) = n
        /\ \A k \in 1..n : Stored(p)[k] = Entry(item[p[k]].pts, item[p[k]].info)
    BY StoredIs DEF n
  <2>2. e \in Entries
    <3>1. pts \in Int /\ queued + 1 \in Int
      BY ListAssumption DEF ListTypeOK
    <3> QED
      BY <3>1 DEF Entry, Entries
  <2>3. e = Entry(item'[i].pts, item'[i].info)
    BY <1>7
  <2> HIDE DEF e, Entries
  <2>4. Append(Stored(p), e) = [k \in 1..(n + 1) |-> IF k = n + 1 THEN e ELSE Stored(p)[k]]
    <3> DEFINE a == Append(Stored(p), e)
    <3>1. /\ a \in Seq(Entries) /\ Len(a) = n + 1 /\ a[n + 1] = e
          /\ \A k \in 1..n : a[k] = Stored(p)[k]
      BY <2>1, <2>2, Appended
    <3> HIDE DEF a
    <3>2. a = [k \in 1..(n + 1) |-> a[k]]
      BY <3>1
    <3>3. \A k \in 1..(n + 1) : a[k] = IF k = n + 1 THEN e ELSE Stored(p)[k]
      BY <1>1, <3>1
    <3> QED
      BY <3>2, <3>3 DEF a
  <2>5. Stored(q)' = [k \in 1..(n + 1) |-> Entry(item'[q[k]].pts, item'[q[k]].info)]
    BY <1>6 DEF Stored
  <2>6. ASSUME NEW k \in 1..(n + 1)
        PROVE  Entry(item'[q[k]].pts, item'[q[k]].info) = IF k = n + 1 THEN e ELSE Stored(p)[k]
    <3>1. CASE k = n + 1
      BY <1>6, <2>3, <3>1
    <3>2. CASE k # n + 1
      <4>1. k \in 1..n
        BY <1>1, <3>2
      <4> QED
        BY <1>5, <1>6, <1>7, <2>1, <3>2, <4>1
    <3> QED
      BY <3>1, <3>2
  <2> QED
    BY <2>4, <2>5, <2>6 DEF e
<1> QED
  BY <1>9, <1>10, <1>11 DEF q

\* remove_from_queue takes one item out, its predecessor at hand.
LEMMA RemoveFromList ==
  ASSUME ListTypeOK, ItemsOK, NEW p, IsList(p), NEW j \in 1..Len(p),
         RemoveFromQueue(p[j], IF j = 1 THEN Null ELSE p[j - 1]), queued' = queued
  PROVE  /\ ItemsOK' /\ IsList(Without(p, Len(p), j))'
         /\ Stored(Without(p, Len(p), j))' = Without(Stored(p), Len(p), j)
<1> DEFINE n == Len(p)
           q == Without(p, n, j)
           up(k) == IF k < j THEN k ELSE k + 1
           Alloc == Allocated
           i == p[j]
           next == item[i].next
           link == IF j = 1 THEN item ELSE [item EXCEPT ![p[j - 1]].next = next]
           Record == [pts : Pts, info : 1..queued, next : Items \union {Null}]
<1>1. /\ n \in Nat /\ p \in Seq(Items) /\ \A k \in 1..n : p[k] \in Items /\ p[k] # Null
      /\ \A l, k \in 1..n : p[l] = p[k] => l = k
      /\ Alloc = {p[k] : k \in 1..n}
      /\ head = IF n = 0 THEN Null ELSE p[1]
      /\ \A k \in 1..n : item[p[k]].next = IF k = n THEN Null ELSE p[k + 1]
      /\ n > 0 => tail = p[n]
  BY ListBounds DEF IsList
<1>2. q \in Seq(Items) /\ Len(q) = n - 1
  BY <1>1, WithoutElement
<1>3. /\ \A k \in 1..(n - 1) : q[k] = IF k < j THEN p[k] ELSE p[k + 1]
      /\ \A k \in 1..n : k # j => \E l \in 1..(n - 1) : q[l] = p[k]
  <2>1. n \in Nat /\ j \in 1..n
    BY <1>1
  <2> HIDE DEF n, link, next, up, i, Alloc, Record
  <2>2. \A k \in 1..(n - 1) : q[k] = IF k < j THEN p[k] ELSE p[k + 1]
    BY DEF Without
  <2> HIDE DEF q
  <2>3. \A k \in 1..n : k # j => \E l \in 1..(n - 1) : q[l] = p[k]
    BY <2>1, WithoutIs DEF q
  <2> QED
    BY <2>2, <2>3
<1>4. item \in [Alloc -> Record]
  BY DEF ItemsOK
<1>5. (head = i <=> j = 1) /\ (tail = i <=> j = n) /\ n > 0 /\ j \in 1..n
  BY <1>1
<1>6. /\ item' = [k \in Alloc \ {i} |-> link[k]]
      /\ head' = IF j = 1 THEN next ELSE head
      /\ tail' = IF j = n THEN (IF j = 1 THEN Null ELSE p[j - 1]) ELSE tail
  <2>1. DOMAIN link = Alloc
    BY DEF Allocated
  <2> QED
    BY <1>5, <2>1 DEF RemoveFromQueue, Free, Link, Allocated
<1>7. next \in Items \union {Null} /\ next = IF j = n THEN Null ELSE p[j + 1]
  BY <1>1, <1>4, <1>5
<1> HIDE DEF next, n, q
<1>8. ASSUME NEW k \in 1..n, k # j
      PROVE  /\ link[p[k]].pts = item[p[k]].pts
             /\ link[p[k]].info = item[p[k]].info
             /\ link[p[k]].next = IF k = j - 1 THEN next ELSE item[p[k]].next
             /\ link[p[k]] \in Record
             /\ item'[p[k]] = link[p[k]]
  <2>1. p[k] \in Alloc /\ item[p[k]] \in Record /\ p[k] # i
    BY <1>1, <1>4, <1>5, <1>8
  <2>2. item'[p[k]] = link[p[k]]
    BY <1>6, <2>1
  <2>3. CASE j = 1
    <3>1. link = item /\ k # j - 1
      BY <2>3
    <3> QED
      BY <2>1, <2>2, <3>1
  <2>4. CASE j # 1
    <3>1. link = [item EXCEPT ![p[j - 1]].next = next] /\ j - 1 \in 1..n /\ p[j - 1] \in Alloc
      BY <1>1, <1>5, <2>4
    <3>2. CASE k = j - 1
      <4>1. link[p[k]] = [item[p[k]] EXCEPT !.next = next]
        BY <1>4, <2>1, <3>1, <3>2
      <4> QED
        BY <1>7, <2>1, <2>2, <3>2, <4>1
    <3>3. CASE k # j - 1
      <4>1. p[k] # p[j - 1]
        BY <1>1, <3>1, <3>3
      <4>2. link[p[k]] = item[p[k]]
        BY <1>4, <2>1, <3>1, <4>1
      <4> QED
        BY <2>1, <2>2, <3>3, <4>2
    <3> QED
      BY <3>2, <3>3
  <2> QED
    BY <2>3, <2>4
<1> HIDE DEF link
<1>9. \A k \in 1..(n - 1) :
        /\ up(k) \in 1..n /\ up(k) # j /\ q[k] = p[up(k)]
        /\ item'[q[k]].pts = item[p[up(k)]].pts
        /\ item'[q[k]].info = item[p[up(k)]].info
        /\ item'[q[k]].next = IF up(k) = j - 1 THEN next ELSE item[p[up(k)]].next
        /\ item'[q[k]] \in Record
  <2> SUFFICES ASSUME NEW k \in 1..(n - 1)
               PROVE  /\ up(k) \in 1..n /\ up(k) # j /\ q[k] = p[up(k)]
                      /\ item'[q[k]].pts = item[p[up(k)]].pts
                      /\ item'[q[k]].info = item[p[up(k)]].info
                      /\ item'[q[k]].next = IF up(k) = j - 1 THEN next ELSE item[p[up(k)]].next
                      /\ item'[q[k]] \in Record
    OBVIOUS
  <2>1. up(k) \in 1..n /\ up(k) # j /\ q[k] = p[up(k)]
    BY <1>1, <1>3, <1>5
  <2> HIDE DEF up
  <2> QED
    BY <1>8, <2>1
<1>10. DOMAIN item' = {q[k] : k \in 1..(n - 1)} /\ DOMAIN item' = Alloc \ {i}
  <2>1. \A k \in 1..(n - 1) : q[k] \in Alloc \ {i}
    <3>1. \A k \in 1..n : k # j => p[k] \in Alloc \ {i}
      BY <1>1, <1>5
    <3> HIDE DEF up
    <3> QED
      BY <1>9, <3>1
  <2>2. ASSUME NEW x \in Alloc \ {i} PROVE \E k \in 1..(n - 1) : q[k] = x
    <3>1. PICK k \in 1..n : p[k] = x
      BY <1>1
    <3> QED
      BY <1>3, <3>1
  <2>3. DOMAIN item' = Alloc \ {i}
    BY <1>6
  <2> QED
    BY <2>1, <2>2, <2>3
<1>11. ItemsOK'
  <2>1. \A x \in DOMAIN item' : item'[x] \in Record
    <3> HIDE DEF up, Record
    <3> QED
      BY <1>9, <1>10
  <2>2. item' \in [DOMAIN item' -> Record]
    BY <1>6, <1>10, <2>1
  <2> QED
    BY <2>2 DEF ItemsOK, Allocated
<1>12. IsList(q)'
  <2>1. \A k, l \in 1..(n - 1) : q[k] = q[l] => k = l
    <3> SUFFICES ASSUME NEW k \in 1..(n - 1), NEW l \in 1..(n - 1), q[k] = q[l]
                 PROVE  k = l
      OBVIOUS
    <3>1. up(k) = up(l)
      <4> HIDE DEF up
      <4>1. up(k) \in 1..n /\ up(l) \in 1..n /\ q[k] = p[up(k)] /\ q[l] = p[up(l)]
        BY <1>9
      <4> QED
        BY <1>1, <4>1
    <3> QED
      BY <1>1, <1>5, <3>1
  <2>2. head' = IF n - 1 = 0 THEN Null ELSE q[1]
    <3>1. CASE j = 1
      <4>1. head' = IF n = 1 THEN Null ELSE p[2]
        BY <1>6, <1>7, <3>1
      <4>2. n # 1 => q[1] = p[2]
        BY <1>1, <1>3, <1>5, <3>1
      <4> QED
        BY <1>1, <4>1, <4>2
    <3>2. CASE j # 1
      <4>1. n - 1 # 0 /\ q[1] = p[1] /\ head' = p[1]
        BY <1>1, <1>3, <1>5, <1>6, <3>2
      <4> QED
        BY <4>1
    <3> QED
      BY <3>1, <3>2
  <2>3. ASSUME NEW k \in 1..(n - 1)
        PROVE  item'[q[k]].next = IF k = n - 1 THEN Null ELSE q[k + 1]
    <3>1. /\ up(k) \in 1..n
          /\ item'[q[k]].next = IF up(k) = j - 1 THEN next ELSE item[p[up(k)]].next
      BY <1>9
    <3>2. item[p[up(k)]].next = IF up(k) = n THEN Null ELSE p[up(k) + 1]
      <4> HIDE DEF up
      <4> QED
        BY <1>1, <3>1
    <3>3. CASE k < j - 1
      <4>1. up(k) = k /\ up(k) # j - 1 /\ k # n /\ k # n - 1
            /\ k + 1 \in 1..(n - 1) /\ k + 1 < j
        BY <1>1, <1>5, <3>3
      <4>2. q[k + 1] = p[k + 1]
        BY <1>3, <4>1
      <4> QED
        BY <3>1, <3>2, <4>1, <4>2
    <3>4. CASE k = j - 1
      <4>1. up(k) = j - 1 /\ (j = n <=> k = n - 1)
        BY <1>1, <1>5, <3>4
      <4>2. k # n - 1 => q[k + 1] = p[j + 1]
        BY <1>1, <1>3, <1>5, <3>4
      <4> QED
        BY <1>7, <3>1, <4>1, <4>2
    <3>5. CASE k >= j
      <4>0. k \in Int /\ j \in Int /\ n \in Int
        BY <1>1
      <4>1. up(k) = k + 1 /\ up(k) # j - 1 /\ (up(k) = n <=> k = n - 1)
        BY <3>5, <4>0
      <4>2. k # n - 1 => q[k + 1] = p[(k + 1) + 1]
        BY <1>1, <1>3, <1>5, <3>5
      <4> HIDE DEF up
      <4> QED
        BY <3>1, <3>2, <4>1, <4>2
    <3> QED
      BY <1>1, <1>5, <3>3, <3>4, <3>5
  <2>4. n - 1 > 0 => tail' = q[n - 1]
    <3> SUFFICES ASSUME n - 1 > 0 PROVE tail' = q[n - 1]
      OBVIOUS
    <3>1. CASE j = n
      <4>1. tail' = p[j - 1] /\ q[n - 1] = p[n - 1]
        BY <1>1, <1>3, <1>5, <1>6, <3>1
      <4> QED
        BY <3>1, <4>1
    <3>2. CASE j # n
      <4>1. tail' = p[n] /\ q[n - 1] = p[(n - 1) + 1] /\ (n - 1) + 1 = n
        BY <1>1, <1>3, <1>5, <1>6, <3>2
      <4> QED
        BY <4>1
    <3> QED
      BY <3>1, <3>2
  <2> HIDE DEF up
  <2>5. Len(q) = n - 1 /\ q \in Seq(Items)
    BY <1>2
  <2> QED
    BY <1>1, <1>10, <2>1, <2>2, <2>3, <2>4, <2>5 DEF IsList, Allocated
<1>13. Stored(q)' = Without(Stored(p), n, j)
  <2>1. \A k \in 1..n : Stored(p)[k] = Entry(item[p[k]].pts, item[p[k]].info)
    BY StoredIs DEF n
  <2>2. Stored(q)' = [k \in 1..(n - 1) |-> Entry(item'[q[k]].pts, item'[q[k]].info)]
    BY <1>2 DEF Stored
  <2>3. \A k \in 1..(n - 1) : Entry(item'[q[k]].pts, item'[q[k]].info) = Stored(p)[up(k)]
    <3> HIDE DEF up
    <3> QED
      BY <1>9, <2>1
  <2>4. Without(Stored(p), n, j) = [k \in 1..(n - 1) |-> Stored(p)[up(k)]]
    BY DEF Without
  <2> HIDE DEF up
  <2> QED
    BY <2>2, <2>3, <2>4
<1> QED
  BY <1>11, <1>12, <1>13 DEF q, n

\* What IsList and ItemsOK say of the types after a step.
LEMMA ListTyped ==
  ASSUME NEW q, IsList(q)', ItemsOK'
  PROVE  /\ head' \in (Allocated)' \union {Null} /\ (Allocated)' \subseteq Items
         /\ \A i \in (Allocated)' : /\ item'[i].pts \in Pts
                                         /\ item'[i].info \in 1..queued'
                                         /\ item'[i].next \in Items \union {Null}
<1>1. \A k \in 1..Len(q) : q[k] \in Items
  BY DEF IsList
<1>2. head' \in (Allocated)' \union {Null} /\ (Allocated)' \subseteq Items
  BY <1>1 DEF IsList
<1> QED
  BY <1>2 DEF ItemsOK

\* After a step too the contents are what the items store.
LEMMA ContentsNext ==
  ASSUME NEW q
  PROVE  (IsList(q) => Contents = Stored(q))'
<1>1. IsList(q) => Contents = Stored(q)
  BY ContentsAre
<1> QED
  BY <1>1, PTL

\* A walk at the c-th entry of the list as it was finds the next one behind it.
LEMMA NextPlace ==
  ASSUME before \in Seq(Entries), NEW q \in Seq(Entries), NEW at, NEW c \in 1..Len(before),
         NEW j \in 1..Len(q), at[j] = c,
         SelectedAre(q, at, before, LeftBehind(c), Len(before))
  PROVE  IF j = Len(q) THEN c = Len(before) ELSE at[j + 1] = c + 1
<1> DEFINE l == Len(before)
           n == Len(q)
<1>1. /\ l \in Nat /\ n \in Nat /\ c \in 1..l /\ j \in 1..n
      /\ \A k \in 1..n : at[k] \in 1..l
      /\ \A i, k \in 1..n : i < k => at[i] < at[k]
      /\ \A i \in LeftBehind(c) \intersect (1..l) : \E k \in 1..n : at[k] = i
  <2>1. l \in Nat /\ n \in Nat
    BY ElementOf
  <2> HIDE DEF l, n
  <2>2. SelectedAre(q, at, before, LeftBehind(c), l) /\ n = Len(q) /\ l = Len(before)
    BY DEF l, n
  <2>3. /\ at \in [1..n -> LeftBehind(c) \intersect (1..l)]
        /\ \A i, k \in 1..n : i < k => at[i] < at[k]
        /\ \A i \in LeftBehind(c) \intersect (1..l) : \E k \in 1..n : at[k] = i
    BY <2>2 DEF SelectedAre
  <2> QED
    BY <2>1, <2>2, <2>3
<1>2. \A i \in 1..l : c < i => i \in LeftBehind(c) \intersect (1..l)
  BY DEF LeftBehind
<1> HIDE DEF l, n
<1>3. ASSUME NEW k \in 1..n, at[k] = c + 1 PROVE j < k
  <2>1. ~(k < j) /\ k # j
    <3>1. at[k] \in Nat /\ at[j] \in Nat /\ ~(at[k] < at[j])
      BY <1>1, <1>3
    <3> QED
      BY <1>1, <1>3, <3>1
  <2> QED
    BY <1>1, <2>1
<1>4. CASE j = n
  <2>1. ~(c < l)
    <3> SUFFICES ASSUME c < l PROVE FALSE
      OBVIOUS
    <3>1. c + 1 \in 1..l /\ c < c + 1
      BY <1>1
    <3>2. PICK k \in 1..n : at[k] = c + 1
      BY <1>1, <1>2, <3>1
    <3> QED
      BY <1>1, <1>3, <1>4, <3>2
  <2> QED
    BY <1>1, <1>4, <2>1 DEF l, n
<1>5. CASE j # n
  <2>1. j + 1 \in 1..n /\ at[j + 1] \in 1..l /\ c < at[j + 1]
    BY <1>1, <1>5
  <2>2. c + 1 \in 1..l /\ c < c + 1
    BY <1>1, <2>1
  <2>3. PICK k \in 1..n : at[k] = c + 1
    BY <1>1, <1>2, <2>2
  <2>4. j < k
    BY <1>3, <2>3
  <2>5. ~(j + 1 < k)
    BY <1>1, <2>1, <2>3
  <2>6. k = j + 1
    BY <1>1, <2>4, <2>5
  <2> QED
    BY <1>5, <2>3, <2>6 DEF n
<1> QED
  BY <1>4, <1>5

\* In the middle of a walk: what its current item stores is the c-th entry.
LEMMA WalkStands ==
  ASSUME ListTypeOK, before \in Seq(Entries), NEW p, IsList(p),
         NEW j \in 1..(Len(p) + 1), NEW c \in 1..(Len(before) + 1), NEW at, WalkAt(p, j, c, at),
         current # Null
  PROVE  /\ j \in 1..Len(p) /\ current = p[j] /\ c \in 1..Len(before) /\ at[j] = c
         /\ prev = IF j = 1 THEN Null ELSE p[j - 1]
         /\ before[c].pts = item[current].pts /\ before[c].info = item[current].info
         /\ before[c].pts \in Int /\ want \in Int
         /\ IF j = Len(p) THEN c = Len(before) ELSE at[j + 1] = c + 1
<1>1. Len(p) \in Nat /\ Len(before) \in Nat
  BY ListBounds
<1>2. j \in 1..Len(p) /\ current = p[j] /\ at[j] = c
  BY <1>1 DEF WalkAt
<1>3. /\ Stored(p) \in Seq(Entries) /\ Len(Stored(p)) = Len(p)
      /\ Stored(p)[j].pts = item[p[j]].pts /\ Stored(p)[j].info = item[p[j]].info
  BY <1>2, StoredIs
<1>4. SelectedAre(Stored(p), at, before, LeftBehind(c), Len(before))
  BY DEF WalkAt
<1>5. c \in 1..Len(before) /\ Stored(p)[j] = before[c]
  BY <1>2, <1>3, <1>4 DEF SelectedAre
<1>6. before[c].pts \in Int /\ want \in Int
  <2>1. before[c] \in Entries
    BY <1>5
  <2> QED
    BY <2>1, ListAssumption DEF Entries, ListTypeOK
<1>7. IF j = Len(p) THEN c = Len(before) ELSE at[j + 1] = c + 1
  BY <1>2, <1>3, <1>4, <1>5, NextPlace
<1> QED
  BY <1>2, <1>3, <1>5, <1>6, <1>7 DEF WalkAt

\* What the walk has yet to leave behind once it passes the c-th entry.
LEMMA LeftBehindNext ==
  ASSUME NEW c \in 1..Len(before), before \in Seq(Entries), UNCHANGED <<before, dropOld, want>>
  PROVE  LeftBehind(c + 1)' =
           IF dropOld /\ before[c].pts < want THEN LeftBehind(c) \ {c} ELSE LeftBehind(c)
<1>1. Len(before) \in Nat /\ 1..((c + 1) - 1) = (1..(c - 1)) \union {c}
  BY ElementOf
<1> QED
  BY <1>1 DEF LeftBehind

\* Initially the list is empty.
LEMMA ListStarts ==
  ASSUME InitList
  PROVE  ListInv /\ Abstract!Init
<1>1. item = <<>> /\ DOMAIN item = {} /\ head = Null /\ listPc = "ready" /\ before = <<>>
      /\ tail = Null /\ prev = Null /\ current = Null /\ queued = 0 /\ result = 0
      /\ dropOld = FALSE /\ want \in Pts
  BY DEF InitList
<1>2. IsList(<<>>)
  BY <1>1 DEF IsList, Allocated
<1>3. ItemsOK
  BY <1>1 DEF ItemsOK, Allocated
<1>4. ListTypeOK
  <2>1. queued \in 0..MaxInfos /\ result \in 0..queued
    BY <1>1, ListAssumption
  <2>2. Allocated = {}
    BY <1>1 DEF Allocated
  <2> QED
    BY <1>1, <2>1, <2>2 DEF ListTypeOK
<1>5. Contents = <<>>
  <2>1. Contents = Stored(<<>>)
    BY <1>2, ContentsAre
  <2>2. Stored(<<>>) = <<>>
    BY DEF Stored
  <2> QED
    BY <2>1, <2>2
<1>6. ListInv
  <2>1. WalkInv(<<>>) /\ before \in Seq(Entries)
    BY <1>1 DEF WalkInv
  <2> QED
    BY <1>2, <1>3, <1>4, <2>1 DEF ListInv
<1> QED
  BY <1>1, <1>5, <1>6 DEF Abstract!Init

\* add_frame_info_to_queue.
LEMMA AddStep ==
  ASSUME ListInv, NEW pts \in Pts, NEW i \in Items, Add(pts, i)
  PROVE  ListInv' /\ Abstract!Add(pts)
<1>1. PICK p : IsList(p)
  BY DEF ListInv
<1>2. ListTypeOK /\ ItemsOK /\ before \in Seq(Entries)
  BY DEF ListInv
<1>3. /\ listPc = "ready" /\ listPc' = "ready" /\ queued < MaxInfos /\ queued' = queued + 1
      /\ tail' = i /\ UNCHANGED <<want, dropOld, prev, current, result, before>>
  BY DEF Add, walkVars
<1>4. /\ ItemsOK' /\ IsList(Append(p, i))'
      /\ Stored(Append(p, i))' = Append(Stored(p), Entry(pts, queued + 1))
  BY <1>1, <1>2, AddToList
<1>5. Contents = Stored(p) /\ (Contents)' = Stored(Append(p, i))'
  BY <1>1, <1>4, ContentsAre, ContentsNext
<1>6. (ListTypeOK)'
  <2>1. /\ head' \in (Allocated)' \union {Null} /\ (Allocated)' \subseteq Items
        /\ \A k \in (Allocated)' : /\ item'[k].pts \in Pts
                                        /\ item'[k].info \in 1..queued'
                                        /\ item'[k].next \in Items \union {Null}
    BY <1>4, ListTyped
  <2>2. queued' \in 0..MaxInfos /\ result' \in 0..queued'
    BY <1>2, <1>3, ListAssumption DEF ListTypeOK
  <2> QED
    BY <1>2, <1>3, <2>1, <2>2 DEF ListTypeOK
<1>7. ListInv'
  <2>1. WalkInv(Append(p, i))'
    BY <1>3 DEF WalkInv
  <2> QED
    BY <1>2, <1>3, <1>4, <1>6, <2>1 DEF ListInv
<1>8. Abstract!Add(pts)
  BY <1>3, <1>4, <1>5, SameNames DEF Abstract!Add, Queued
<1> QED
  BY <1>7, <1>8

\* get_frame_info is called: a walk starts at the head.
LEMMA GetStep ==
  ASSUME ListInv, NEW pts \in Pts, NEW drop \in BOOLEAN, Get(pts, drop)
  PROVE  ListInv' /\ UNCHANGED Abstract!vars
<1>1. PICK p : IsList(p)
  BY DEF ListInv
<1>2. ListTypeOK /\ ItemsOK
  BY DEF ListInv
<1>3. /\ listPc = "ready" /\ listPc' = "walk" /\ want' = pts /\ dropOld' = drop /\ prev' = Null
      /\ current' = head /\ before' = Contents
      /\ UNCHANGED <<head, tail, item, queued, result>>
  BY DEF Get, listVars
<1>4. before' = Stored(p) /\ before' \in Seq(Entries) /\ Len(before') = Len(p) /\ Len(p) \in Nat
  BY <1>1, <1>2, <1>3, ContentsAre, StoredIs, ListBounds
<1>5. IsList(p)' /\ ItemsOK' /\ Stored(p)' = Stored(p)
  <2>1. (Allocated)' = Allocated
    BY <1>3 DEF Allocated
  <2> QED
    BY <1>1, <1>2, <1>3, <2>1 DEF IsList, ItemsOK, Stored
<1>6. (ListTypeOK)'
  BY <1>2, <1>3 DEF ListTypeOK, Allocated
<1>7. WalkInv(p)'
  <2> DEFINE at == [k \in 1..Len(p) |-> k]
  <2>1. LeftBehind(1)' = 1..Len(p)
    BY <1>4 DEF LeftBehind
  <2>2. SelectedAre(Stored(p)', at, before', LeftBehind(1)', Len(before'))
    <3>1. Len(Stored(p)') = Len(p)
      BY <1>4, <1>5
    <3> QED
      BY <1>4, <1>5, <2>1, <3>1 DEF SelectedAre
  <2>3. current' = IF 1 > Len(p) THEN Null ELSE p[1]
    BY <1>1, <1>3, <1>4 DEF IsList
  <2>4. WalkAt(p, 1, 1, at)'
    BY <1>3, <1>4, <2>2, <2>3 DEF WalkAt
  <2>5. 1 \in 1..(Len(p) + 1) /\ 1 \in 1..(Len(before') + 1)
    BY <1>4
  <2> HIDE DEF at
  <2> QED
    BY <2>4, <2>5 DEF WalkInv
<1>8. UNCHANGED Abstract!vars
  BY <1>3 DEF Abstract!vars
<1> QED
  BY <1>4, <1>5, <1>6, <1>7, <1>8 DEF ListInv

\* What is known in the middle of a walk that has an item before it.
LEMMA WalkHas ==
  ASSUME ListInv, listPc = "walk"
  PROVE  /\ ListTypeOK /\ ItemsOK /\ before \in Seq(Entries)
         /\ \E p : /\ IsList(p)
                   /\ \E j \in 1..(Len(p) + 1), c \in 1..(Len(before) + 1) :
                        \E at : WalkAt(p, j, c, at)
  BY DEF ListInv, WalkInv

\* The walk goes on to the next item.
LEMMA SkipStep ==
  ASSUME ListInv, SkipItem
  PROVE  ListInv' /\ UNCHANGED Abstract!vars
<1>1. /\ listPc = "walk" /\ listPc' = "walk" /\ current # Null /\ ~TooOld(current)
      /\ item[current].pts # want /\ prev' = current /\ current' = item[current].next
      /\ UNCHANGED <<head, tail, item, want, dropOld, queued, result, before>>
  BY DEF SkipItem, listVars
<1>2. ListTypeOK /\ ItemsOK /\ before \in Seq(Entries)
  BY <1>1, WalkHas
<1>3. PICK p : /\ IsList(p)
               /\ \E j \in 1..(Len(p) + 1), c \in 1..(Len(before) + 1) :
                    \E at : WalkAt(p, j, c, at)
  BY <1>1, WalkHas
<1>4. PICK j \in 1..(Len(p) + 1), c \in 1..(Len(before) + 1) : \E at : WalkAt(p, j, c, at)
  BY <1>3
<1>5. PICK at : WalkAt(p, j, c, at)
  BY <1>4
<1>6. /\ j \in 1..Len(p) /\ current = p[j] /\ c \in 1..Len(before)
      /\ before[c].pts = item[current].pts
      /\ IF j = Len(p) THEN c = Len(before) ELSE at[j + 1] = c + 1
  BY <1>1, <1>2, <1>3, <1>5, WalkStands
<1>7. Len(p) \in Nat /\ Len(before) \in Nat
  BY <1>2, <1>3, ListBounds, ElementOf
<1>8. IsList(p)' /\ ItemsOK' /\ Stored(p)' = Stored(p) /\ (Allocated)' = Allocated
  <2>1. (Allocated)' = Allocated
    BY <1>1 DEF Allocated
  <2> QED
    BY <1>1, <1>2, <1>3, <2>1 DEF IsList, ItemsOK, Stored
<1>9. current' = (IF j = Len(p) THEN Null ELSE p[j + 1]) /\ prev' = p[j]
  BY <1>1, <1>3, <1>6 DEF IsList
<1>10. (ListTypeOK)'
  <2>1. current' \in Allocated \union {Null} /\ prev' \in Items
    <3>1. j # Len(p) => j + 1 \in 1..Len(p)
      BY <1>6, <1>7
    <3> QED
      BY <1>3, <1>6, <1>9, <3>1, ListBounds DEF IsList
  <2>2. Allocated \subseteq Items
    BY <1>2 DEF ListTypeOK
  <2> QED
    BY <1>1, <1>2, <1>8, <2>1, <2>2 DEF ListTypeOK
<1>11. WalkAt(p, j + 1, c + 1, at)'
  <2>1. LeftBehind(c + 1)' = LeftBehind(c)
    BY <1>1, <1>2, <1>6, LeftBehindNext DEF TooOld
  <2>2. SelectedAre(Stored(p)', at, before', LeftBehind(c + 1)', Len(before'))
    BY <1>1, <1>5, <1>8, <2>1 DEF WalkAt
  <2>3. current' = IF j + 1 > Len(p) THEN Null ELSE p[j + 1]
    BY <1>6, <1>7, <1>9
  <2>4. prev' = IF j + 1 = 1 THEN Null ELSE p[(j + 1) - 1]
    BY <1>6, <1>7, <1>9
  <2>5. IF j + 1 > Len(p) THEN c + 1 = Len(before') + 1 ELSE at[j + 1] = c + 1
    BY <1>1, <1>6, <1>7
  <2>6. \A i \in 1..((c + 1) - 1) : before'[i].pts # want'
    <3>1. \A i \in 1..(c - 1) : before[i].pts # want
      BY <1>5 DEF WalkAt
    <3>2. \A i \in 1..((c + 1) - 1) : i \in 1..(c - 1) \/ i = c
      BY <1>6, <1>7
    <3> QED
      BY <1>1, <1>6, <3>1, <3>2
  <2> QED
    BY <2>2, <2>3, <2>4, <2>5, <2>6 DEF WalkAt
<1>12. WalkInv(p)'
  <2>1. j + 1 \in 1..(Len(p) + 1) /\ c + 1 \in 1..(Len(before') + 1)
    BY <1>1, <1>6, <1>7
  <2> QED
    BY <1>11, <2>1 DEF WalkInv
<1>13. UNCHANGED Abstract!vars
  BY <1>1 DEF Abstract!vars
<1> QED
  BY <1>1, <1>2, <1>8, <1>10, <1>12, <1>13 DEF ListInv

\* The current item is taken out, for one of two reasons: the list is sound again, and
\* stores all but the c-th entry of what it had to leave behind.
LEMMA TakeOut ==
  ASSUME ListTypeOK, ItemsOK, before \in Seq(Entries), NEW p, IsList(p),
         NEW j \in 1..(Len(p) + 1), NEW c \in 1..(Len(before) + 1), NEW at, WalkAt(p, j, c, at),
         current # Null, RemoveFromQueue(current, prev), queued' = queued
  PROVE  LET q  == Without(p, Len(p), j)
             to == Without(at, Len(p), j)
         IN  /\ ItemsOK' /\ IsList(q)' /\ Len(q) = Len(p) - 1
             /\ Stored(q)' \in Seq(Entries)
             /\ SelectedAre(Stored(q)', to, before, LeftBehind(c) \ {c}, Len(before))
             /\ tail' \in Items \union {Null}
<1> DEFINE q == Without(p, Len(p), j)
           to == Without(at, Len(p), j)
<1>1. /\ j \in 1..Len(p) /\ current = p[j] /\ at[j] = c
      /\ prev = IF j = 1 THEN Null ELSE p[j - 1]
  BY WalkStands
<1>2. ItemsOK' /\ IsList(q)' /\ Stored(q)' = Without(Stored(p), Len(p), j)
  BY <1>1, RemoveFromList
<1>3. Stored(p) \in Seq(Entries) /\ Len(Stored(p)) = Len(p)
  BY StoredIs
<1>4. SelectedAre(Without(Stored(p), Len(p), j), to, before, LeftBehind(c) \ {c}, Len(before))
  <2>1. SelectedAre(Stored(p), at, before, LeftBehind(c), Len(before)) /\ Len(before) \in Nat
    BY ElementOf DEF WalkAt
  <2> QED
    BY <1>1, <1>3, <2>1, SelectedOneLess
<1>5. Len(q) = Len(p) - 1 /\ Without(Stored(p), Len(p), j) \in Seq(Entries)
  <2>1. p \in Seq(Items)
    BY DEF IsList
  <2> QED
    BY <1>1, <1>3, <2>1, WithoutElement
<1>6. tail' \in Items \union {Null}
  BY DEF RemoveFromQueue, ListTypeOK
<1> QED
  BY <1>2, <1>4, <1>5, <1>6

\* An older item in the way is dropped, and the walk stands at the next.
LEMMA DropStep ==
  ASSUME ListInv, DropOldItem
  PROVE  ListInv' /\ UNCHANGED Abstract!vars
<1>1. /\ listPc = "walk" /\ listPc' = "walk" /\ current # Null /\ TooOld(current)
      /\ current' = item[current].next /\ RemoveFromQueue(current, prev)
      /\ UNCHANGED <<want, dropOld, prev, queued, result, before>>
  BY DEF DropOldItem
<1>2. ListTypeOK /\ ItemsOK /\ before \in Seq(Entries)
  BY <1>1, WalkHas
<1>3. PICK p : /\ IsList(p)
               /\ \E j \in 1..(Len(p) + 1), c \in 1..(Len(before) + 1) :
                    \E at : WalkAt(p, j, c, at)
  BY <1>1, WalkHas
<1>4. PICK j \in 1..(Len(p) + 1), c \in 1..(Len(before) + 1) : \E at : WalkAt(p, j, c, at)
  BY <1>3
<1>5. PICK at : WalkAt(p, j, c, at)
  BY <1>4
<1> DEFINE q == Without(p, Len(p), j)
           to == Without(at, Len(p), j)
<1>6. /\ j \in 1..Len(p) /\ current = p[j] /\ c \in 1..Len(before)
      /\ prev = IF j = 1 THEN Null ELSE p[j - 1]
      /\ before[c].pts = item[current].pts /\ before[c].pts \in Int /\ want \in Int
      /\ IF j = Len(p) THEN c = Len(before) ELSE at[j + 1] = c + 1
  BY <1>1, <1>2, <1>3, <1>5, WalkStands
<1>7. /\ ItemsOK' /\ IsList(q)' /\ Len(q) = Len(p) - 1
      /\ SelectedAre(Stored(q)', to, before, LeftBehind(c) \ {c}, Len(before))
      /\ tail' \in Items \union {Null}
  BY <1>1, <1>2, <1>3, <1>5, TakeOut
<1>8. Len(p) \in Nat /\ Len(before) \in Nat
  BY <1>2, <1>3, ListBounds, ElementOf
<1>9. current' = IF j = Len(p) THEN Null ELSE p[j + 1]
  BY <1>1, <1>3, <1>6 DEF IsList
<1>10. /\ j # Len(p) => q[j] = p[j + 1] /\ to[j] = at[j + 1]
       /\ j # 1 => q[j - 1] = p[j - 1]
  <2>1. \A f : \A k \in 1..(Len(p) - 1) :
          Without(f, Len(p), j)[k] = IF k < j THEN f[k] ELSE f[k + 1]
    BY DEF Without
  <2>2. j # Len(p) => j \in 1..(Len(p) - 1) /\ ~(j < j)
    BY <1>6, <1>8
  <2>3. j # 1 => j - 1 \in 1..(Len(p) - 1) /\ j - 1 < j
    BY <1>6, <1>8
  <2> QED
    BY <2>1, <2>2, <2>3
<1> HIDE DEF q, to
<1>11. (ListTypeOK)'
  <2>1. /\ head' \in (Allocated)' \union {Null} /\ (Allocated)' \subseteq Items
        /\ \A k \in (Allocated)' : /\ item'[k].pts \in Pts
                                        /\ item'[k].info \in 1..queued'
                                        /\ item'[k].next \in Items \union {Null}
    BY <1>7, ListTyped
  <2>2. current' \in (Allocated)' \union {Null}
    <3>1. j # Len(p) => j \in 1..Len(q)
      BY <1>6, <1>7, <1>8
    <3> QED
      BY <1>7, <1>9, <1>10, <3>1 DEF IsList
  <2> QED
    BY <1>1, <1>2, <1>7, <2>1, <2>2 DEF ListTypeOK
<1>12. WalkAt(q, j, c + 1, to)'
  <2>1. LeftBehind(c + 1)' = LeftBehind(c) \ {c}
    BY <1>1, <1>2, <1>6, LeftBehindNext DEF TooOld
  <2>2. SelectedAre(Stored(q)', to, before', LeftBehind(c + 1)', Len(before'))
    BY <1>1, <1>7, <2>1
  <2>3. j > Len(q) <=> j = Len(p)
    BY <1>6, <1>7, <1>8
  <2>4. current' = IF j > Len(q) THEN Null ELSE q[j]
    BY <1>9, <1>10, <2>3
  <2>5. prev' = IF j = 1 THEN Null ELSE q[j - 1]
    BY <1>1, <1>6, <1>10
  <2>6. IF j > Len(q) THEN c + 1 = Len(before') + 1 ELSE to[j] = c + 1
    BY <1>1, <1>6, <1>10, <2>3
  <2>7. \A i \in 1..((c + 1) - 1) : before'[i].pts # want'
    <3>1. \A i \in 1..(c - 1) : before[i].pts # want
      BY <1>5 DEF WalkAt
    <3>2. \A i \in 1..((c + 1) - 1) : i \in 1..(c - 1) \/ i = c
      BY <1>6, <1>8
    <3>3. before[c].pts # want
      BY <1>1, <1>6 DEF TooOld
    <3> QED
      BY <1>1, <3>1, <3>2, <3>3
  <2> QED
    BY <2>2, <2>4, <2>5, <2>6, <2>7 DEF WalkAt
<1>13. WalkInv(q)'
  <2>1. j \in 1..(Len(q) + 1) /\ c + 1 \in 1..(Len(before') + 1)
    BY <1>1, <1>6, <1>7, <1>8
  <2> QED
    BY <1>12, <2>1 DEF WalkInv
<1>14. UNCHANGED Abstract!vars
  BY <1>1 DEF Abstract!vars
<1> QED
  BY <1>1, <1>2, <1>7, <1>11, <1>13, <1>14 DEF ListInv

\* The item looked for is returned: the first of its timestamp.
LEMMA ReturnStep ==
  ASSUME ListInv, ReturnItem
  PROVE  ListInv' /\ Abstract!Get(want, dropOld)
<1>1. /\ listPc = "walk" /\ listPc' = "ready" /\ current # Null /\ ~TooOld(current)
      /\ item[current].pts = want /\ result' = item[current].info
      /\ RemoveFromQueue(current, prev)
      /\ UNCHANGED <<want, dropOld, prev, current, queued, before>>
  BY DEF ReturnItem, walkVars
<1>2. ListTypeOK /\ ItemsOK /\ before \in Seq(Entries)
  BY <1>1, WalkHas
<1>3. PICK p : /\ IsList(p)
               /\ \E j \in 1..(Len(p) + 1), c \in 1..(Len(before) + 1) :
                    \E at : WalkAt(p, j, c, at)
  BY <1>1, WalkHas
<1>4. PICK j \in 1..(Len(p) + 1), c \in 1..(Len(before) + 1) : \E at : WalkAt(p, j, c, at)
  BY <1>3
<1>5. PICK at : WalkAt(p, j, c, at)
  BY <1>4
<1> DEFINE q == Without(p, Len(p), j)
           to == Without(at, Len(p), j)
<1>6. /\ j \in 1..Len(p) /\ current = p[j] /\ c \in 1..Len(before)
      /\ before[c].pts = item[current].pts /\ before[c].info = item[current].info
  BY <1>1, <1>2, <1>3, <1>5, WalkStands
<1>7. /\ ItemsOK' /\ IsList(q)' /\ Stored(q)' \in Seq(Entries)
      /\ SelectedAre(Stored(q)', to, before, LeftBehind(c) \ {c}, Len(before))
      /\ tail' \in Items \union {Null}
  BY <1>1, <1>2, <1>3, <1>5, TakeOut
<1> HIDE DEF q, to
<1>8. Found(before, want) /\ Match(before, want) = c
  <2>1. Len(before) \in Nat /\ DOMAIN before = 1..Len(before)
    BY <1>2, ElementOf
  <2>2. Found(before, want)
    BY <1>1, <1>6, <2>1 DEF Found, Matches
  <2>3. /\ Match(before, want) \in 1..Len(before) /\ before[Match(before, want)].pts = want
        /\ Match(before, want) <= c
    BY <1>1, <1>2, <1>6, <2>2, MatchIs
  <2>4. \A i \in 1..(c - 1) : before[i].pts # want
    BY <1>5 DEF WalkAt
  <2>5. Match(before, want) \notin 1..(c - 1)
    BY <2>3, <2>4
  <2> QED
    BY <1>6, <2>1, <2>2, <2>3, <2>5
<1>9. Stored(q)' = Remaining(before, want, dropOld)
  <2>1. Kept(before, want, dropOld) = LeftBehind(c) \ {c}
    BY <1>8 DEF Kept, Dropped, LeftBehind
  <2>2. PICK f : SelectedAre(Remaining(before, want, dropOld), f, before,
                             Kept(before, want, dropOld), Len(before))
    BY <1>2, RemainingIs
  <2>3. Remaining(before, want, dropOld) \in Seq(Entries) /\ Len(before) \in Nat
    BY <1>2, RemainingIs, ElementOf
  <2> QED
    BY <1>7, <2>1, <2>2, <2>3, SelectedOnce
<1>10. (Contents)' = Remaining(before, want, dropOld)
  BY <1>7, <1>9, ContentsNext
<1>11. (ListTypeOK)'
  <2>1. /\ head' \in (Allocated)' \union {Null} /\ (Allocated)' \subseteq Items
        /\ \A k \in (Allocated)' : /\ item'[k].pts \in Pts
                                        /\ item'[k].info \in 1..queued'
                                        /\ item'[k].next \in Items \union {Null}
    BY <1>7, ListTyped
  <2>2. result' \in 0..queued'
    <3>1. current \in Allocated
      BY <1>3, <1>6 DEF IsList
    <3>2. item[current].info \in 1..queued /\ queued \in Nat
      BY <1>2, <3>1, ListAssumption DEF ListTypeOK
    <3> QED
      BY <1>1, <3>2
  <2> QED
    BY <1>1, <1>2, <1>7, <2>1, <2>2 DEF ListTypeOK
<1>12. ListInv'
  <2>1. WalkInv(q)'
    BY <1>1 DEF WalkInv
  <2> QED
    BY <1>1, <1>2, <1>7, <1>11, <2>1 DEF ListInv
<1>13. Abstract!Get(want, dropOld)
  BY <1>1, <1>6, <1>8, <1>10, SameNames DEF Abstract!Get
<1> QED
  BY <1>12, <1>13

\* The walk comes to the end without finding the timestamp: it was not there.
LEMMA FailStep ==
  ASSUME ListInv, FailToFind
  PROVE  ListInv' /\ Abstract!GetUnknown(want)
<1>1. /\ listPc = "walk" /\ listPc' = "exited" /\ current = Null
      /\ UNCHANGED <<head, tail, item, want, dropOld, prev, current, queued, result, before>>
  BY DEF FailToFind, listVars, walkVars
<1>2. ListTypeOK /\ ItemsOK /\ before \in Seq(Entries)
  BY <1>1, WalkHas
<1>3. PICK p : /\ IsList(p)
               /\ \E j \in 1..(Len(p) + 1), c \in 1..(Len(before) + 1) :
                    \E at : WalkAt(p, j, c, at)
  BY <1>1, WalkHas
<1>4. PICK j \in 1..(Len(p) + 1), c \in 1..(Len(before) + 1) : \E at : WalkAt(p, j, c, at)
  BY <1>3
<1>5. PICK at : WalkAt(p, j, c, at)
  BY <1>4
<1>6. ~Found(before, want)
  <2>1. j > Len(p)
    <3>1. Len(p) \in Nat /\ \A k \in 1..Len(p) : p[k] # Null
      BY <1>3, ListBounds
    <3> QED
      BY <1>1, <1>5, <3>1 DEF WalkAt
  <2>2. c = Len(before) + 1 /\ \A i \in 1..(c - 1) : before[i].pts # want
    BY <1>5, <2>1 DEF WalkAt
  <2>3. DOMAIN before = 1..(c - 1)
    BY <1>2, <2>2, ElementOf
  <2> QED
    BY <2>2, <2>3 DEF Found, Matches
<1>7. ListInv'
  <2>1. (Allocated)' = Allocated
    BY <1>1 DEF Allocated
  <2>2. IsList(p)' /\ ItemsOK' /\ WalkInv(p)'
    BY <1>1, <1>2, <1>3, <2>1 DEF IsList, ItemsOK, WalkInv
  <2>3. (ListTypeOK)'
    BY <1>1, <1>2, <2>1 DEF ListTypeOK
  <2> QED
    BY <1>1, <1>2, <2>2, <2>3 DEF ListInv
<1>8. Abstract!GetUnknown(want)
  BY <1>1, <1>6, SameNames DEF Abstract!GetUnknown
<1> QED
  BY <1>7, <1>8

\* Every step of the list keeps the invariant and is a step of FrameInfoStore or none.
LEMMA ListStep ==
  ASSUME ListInv, [NextList]_queueVars
  PROVE  ListInv' /\ [Abstract!Next]_Abstract!vars
<1>1. ASSUME NEW pts \in Pts, NEW drop \in BOOLEAN, Get(pts, drop)
      PROVE  ListInv' /\ UNCHANGED Abstract!vars
  BY <1>1, GetStep
<1>2. ASSUME NEW pts \in Pts, NEW i \in Items, Add(pts, i)
      PROVE  ListInv' /\ Abstract!Next
  BY <1>2, AddStep DEF Abstract!Next
<1>3. ASSUME DropOldItem PROVE ListInv' /\ UNCHANGED Abstract!vars
  BY <1>3, DropStep
<1>4. ASSUME SkipItem PROVE ListInv' /\ UNCHANGED Abstract!vars
  BY <1>4, SkipStep
<1>5. want \in Pts /\ dropOld \in BOOLEAN
  BY DEF ListInv, ListTypeOK
<1>6. ASSUME ReturnItem PROVE ListInv' /\ Abstract!Next
  BY <1>5, <1>6, ReturnStep DEF Abstract!Next
<1>7. ASSUME FailToFind PROVE ListInv' /\ Abstract!Next
  BY <1>5, <1>7, FailStep DEF Abstract!Next
<1>8. ASSUME UNCHANGED queueVars PROVE ListInv' /\ UNCHANGED Abstract!vars
  <2>1. UNCHANGED <<head, tail, item, listPc, want, dropOld, prev, current, queued, result, before>>
    BY <1>8 DEF queueVars
  <2>2. PICK p : IsList(p) /\ WalkInv(p)
    BY DEF ListInv
  <2>3. (Allocated)' = Allocated
    BY <2>1 DEF Allocated
  <2>4. IsList(p)'
    BY <2>1, <2>2, <2>3 DEF IsList
  <2>5. Stored(p)' = Stored(p) /\ \A c : LeftBehind(c)' = LeftBehind(c)
    BY <2>1 DEF Stored, LeftBehind
  <2>6. WalkInv(p)'
    BY <2>1, <2>2, <2>5 DEF WalkInv, WalkAt
  <2>7. (ListTypeOK)' /\ ItemsOK' /\ before' \in Seq(Entries)
    BY <2>1, <2>3 DEF ListInv, ListTypeOK, ItemsOK
  <2>8. (Contents)' = Contents
    BY <2>2, <2>4, <2>5, ContentsAre, ContentsNext
  <2> QED
    BY <2>1, <2>4, <2>6, <2>7, <2>8 DEF ListInv, Abstract!vars
<1> QED
  BY <1>1, <1>2, <1>3, <1>4, <1>6, <1>7, <1>8 DEF NextList

\* The invariant gives WellLinked.
LEMMA LinksFit ==
  ASSUME ListInv
  PROVE  WellLinked
<1>1. PICK p : IsList(p) /\ WalkInv(p)
  BY DEF ListInv
<1>2. ListTypeOK
  BY DEF ListInv
<1>3. /\ Len(p) \in Nat /\ \A k \in 1..Len(p) : p[k] # Null
      /\ Cardinality(Items) \in Nat /\ Len(p) <= Cardinality(Items)
      /\ Cardinality(Allocated) = Len(p)
  BY <1>1, ListBounds
<1>4. /\ Allocated = {p[k] : k \in 1..Len(p)}
      /\ head = IF Len(p) = 0 THEN Null ELSE p[1]
      /\ \A k \in 1..Len(p) : item[p[k]].next = IF k = Len(p) THEN Null ELSE p[k + 1]
      /\ Len(p) > 0 => tail = p[Len(p)]
  BY <1>1 DEF IsList
<1>5. {Reached[k] : k \in DOMAIN Reached} \ {Null} = Allocated
  <2> DEFINE N == Cardinality(Items)
             R == [k \in 0..N |-> IF k < Len(p) THEN p[k + 1] ELSE Null]
  <2>1. Reached = R
    BY <1>1, ReachedIs
  <2>2. \A k \in 0..N : R[k] # Null => R[k] \in Allocated
    <3> SUFFICES ASSUME NEW k \in 0..N, R[k] # Null PROVE R[k] \in Allocated
      OBVIOUS
    <3>1. k + 1 \in 1..Len(p) /\ R[k] = p[k + 1]
      BY <1>3
    <3> QED
      BY <1>4, <3>1
  <2>3. \A x \in Allocated : x # Null /\ \E k \in 0..N : R[k] = x
    <3> SUFFICES ASSUME NEW k \in 1..Len(p)
                 PROVE  p[k] # Null /\ \E i \in 0..N : R[i] = p[k]
      BY <1>4
    <3>1. k - 1 \in 0..N /\ k - 1 < Len(p) /\ (k - 1) + 1 = k
      BY <1>3
    <3>2. R[k - 1] = p[k]
      BY <3>1
    <3> QED
      BY <1>3, <3>1, <3>2
  <2>4. DOMAIN R = 0..N
    OBVIOUS
  <2> HIDE DEF R, N
  <2> QED
    BY <2>1, <2>2, <2>3, <2>4
<1>6. LinkedLength = Cardinality(Allocated)
  BY <1>1, <1>3, ContentsAre, SameNames
<1>7. head # Null => tail \in Allocated /\ item[tail].next = Null
  <2> SUFFICES ASSUME head # Null PROVE tail \in Allocated /\ item[tail].next = Null
    OBVIOUS
  <2>1. Len(p) # 0
    BY <1>4
  <2>2. Len(p) > 0 /\ Len(p) \in 1..Len(p)
    BY <1>3, <2>1
  <2>3. tail = p[Len(p)]
    BY <1>4, <2>2
  <2> QED
    BY <1>4, <2>2, <2>3
<1>8. ASSUME listPc = "walk"
      PROVE  /\ prev = Null => current = head
             /\ prev # Null => prev \in Allocated /\ item[prev].next = current
  <2>1. PICK j \in 1..(Len(p) + 1), c \in 1..(Len(before) + 1) : \E at : WalkAt(p, j, c, at)
    BY <1>1, <1>8 DEF WalkInv
  <2>2. /\ current = IF j > Len(p) THEN Null ELSE p[j]
        /\ prev = IF j = 1 THEN Null ELSE p[j - 1]
    BY <2>1 DEF WalkAt
  <2>3. CASE j = 1
    <3>1. prev = Null /\ (j > Len(p) <=> Len(p) = 0)
      BY <1>3, <2>2, <2>3
    <3> QED
      BY <1>4, <2>2, <2>3, <3>1
  <2>4. CASE j # 1
    <3>1. j - 1 \in 1..Len(p) /\ prev = p[j - 1] /\ (j - 1 = Len(p) <=> j > Len(p))
          /\ (j - 1) + 1 = j
      BY <1>3, <2>2, <2>4
    <3> QED
      BY <1>3, <1>4, <2>2, <3>1
  <2> QED
    BY <2>3, <2>4
<1> QED
  BY <1>2, <1>5, <1>6, <1>7, <1>8 DEF WellLinked

\* The items are one path from head to tail, and a walk on it has left behind what
\* get_frame_info is to leave behind (frame_info_queue.c:94-124).
THEOREM ListInvariant == SpecList => []ListInv
<1>1. InitList => ListInv
  BY ListStarts
<1>2. ListInv /\ [NextList]_queueVars => ListInv'
  BY ListStep
<1> QED
  BY <1>1, <1>2, PTL DEF SpecList

\* The linked list is sound after every step of add_frame_info_to_queue and
\* get_frame_info: no leak, no cycle, nothing freed within reach, tail the last item.
THEOREM WellLinkedCorrect == SpecList => []WellLinked
<1>1. ListInv => WellLinked
  BY LinksFit
<1> QED
  BY <1>1, ListInvariant, PTL

\* The linked list does what FrameInfoStore promises: a call of get_frame_info that
\* unlinks item by item returns the first entry of the timestamp and leaves the rest.
THEOREM ListImplements == SpecList => ImplementsStore
<1>1. InitList => Abstract!Init
  BY ListStarts
<1>2. ListInv /\ [NextList]_queueVars => [Abstract!Next]_Abstract!vars
  BY ListStep
<1> QED
  BY <1>1, <1>2, ListInvariant, PTL DEF SpecList, ImplementsStore, Abstract!Spec
=============================================================================
