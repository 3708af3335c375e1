--------------------------- MODULE VideoOutputProofs ---------------------------
(***************************************************************************)
(* Proofs about VideoOutput for every sequence of frames and every codec   *)
(* time base.                                                              *)
(***************************************************************************)
EXTENDS VideoOutput, FrameInfoProofs

-----------------------------------------------------------------------------
(* The inductive invariant behind the safety properties.                   *)

\* The entries queued for the first f frames.
Infos(f) == {Entry(CodecPts(k), k) : k \in 1..f}

Ordered(queue) == \A i, j \in DOMAIN queue : i < j => queue[i].info < queue[j].info

HasInfos(queue, held) == \A k \in held : \E i \in DOMAIN queue : queue[i].info = k

\* The encoder failed on frame k or on an earlier one of the same codec pts.
FailedBefore(k, lost) == \E j \in lost : j <= k /\ CodecPts(j) = CodecPts(k)

\* An info stays behind only for such a failure.
StaleOnly(queue, held, lost) ==
  \A i \in DOMAIN queue : queue[i].info \notin held => FailedBefore(queue[i].info, lost)

\* A packet carries the info of its frame, or of an earlier one of its codec pts
\* after such a failure.
InfoOf(info, k, lost) ==
  /\ info <= k
  /\ CodecPts(info) = CodecPts(k)
  /\ info # k => FailedBefore(info, lost)

OutputType(f) == [frame : 1..f, pts : Nat, info : 1..f]

IndInv ==
  /\ TypeOK /\ pc # "exited"
  /\ store \in Seq(Infos(encoded))
  /\ output \in Seq(OutputType(encoded))
  /\ Ordered(store)
  /\ HasInfos(store, inside)
  /\ StaleOnly(store, inside, failed)
  /\ inside \intersect failed = {}
  /\ Len(store) = Cardinality(inside) + Cardinality(failed)
  /\ pc = "flushed" => inside = {}
  /\ \A i \in DOMAIN output :
       /\ InfoOf(output[i].info, output[i].frame, failed)
       /\ output[i].pts = ToErlang(CodecPts(output[i].frame))

-----------------------------------------------------------------------------
\* Dividing a natural number: quotient and rest.
LEMMA Division ==
  ASSUME NEW a \in Nat, NEW u \in Nat, u > 0
  PROVE  /\ a \div u \in Nat /\ a % u \in 0..(u - 1)
         /\ a = u * (a \div u) + (a % u)
<1>1. a \div u \in Int
  OBVIOUS
<1>2. a \div u >= 0
  OBVIOUS
<1>3. a % u \in 0..(u - 1)
  OBVIOUS
<1>4. a = u * (a \div u) + (a % u)
  OBVIOUS
<1> QED
  BY <1>1, <1>2, <1>3, <1>4

\* Rounding to nearest (av_rescale_q) is off by at most half the divisor.
LEMMA NearestBound ==
  ASSUME NEW n \in Nat, NEW d \in Nat \ {0}
  PROVE  /\ Nearest(n, d) \in Nat
         /\ -d <= 2 * (d * Nearest(n, d) - n) /\ 2 * (d * Nearest(n, d) - n) <= d
<1> DEFINE h == d \div 2
           q == (n + h) \div d
           r == (n + h) % d
<1>1. h \in Nat /\ d <= 2 * h + 1 /\ 2 * h <= d
  OBVIOUS
<1>2. n + h \in Nat
  BY <1>1
<1>3. q \in Nat /\ r \in 0..(d - 1) /\ n + h = d * q + r
  BY <1>2, Division
<1>4. Nearest(n, d) = q
  BY DEF Nearest
<1> HIDE DEF h, q, r
<1>5. PICK x \in Nat : x = d * q
  BY <1>3
<1>6. n + h = x + r
  BY <1>3, <1>5
<1>7. -d <= 2 * (x - n) /\ 2 * (x - n) <= d
  BY <1>1, <1>3, <1>6
<1> QED
  BY <1>3, <1>4, <1>5, <1>7

\* A product of two natural numbers, neither 0.
LEMMA Product ==
  ASSUME NEW a \in Nat \ {0}, NEW b \in Nat \ {0}
  PROVE  a * b \in Nat \ {0}
OBVIOUS

\* A timestamp stays a natural number in the codec's time base and out of it.
LEMMA Rescaled ==
  ASSUME NEW pts \in Nat
  PROVE  ToCodec(pts) \in Nat /\ ToErlang(ToCodec(pts)) \in Nat
<1>1. BaseNum * UnitDen \in Nat \ {0} /\ BaseDen * UnitNum \in Nat \ {0}
      /\ UnitNum \in Nat /\ UnitDen \in Nat \ {0}
  BY FramesAssumption, Product
<1>2. pts * (BaseNum * UnitDen) \in Nat
  BY <1>1
<1>3. ToCodec(pts) \in Nat
  BY <1>1, <1>2, NearestBound DEF ToCodec
<1>4. ToCodec(pts) * UnitNum \in Nat
  BY <1>1, <1>3
<1> QED
  BY <1>1, <1>3, <1>4, NearestBound DEF ToErlang

\* Both roundings together: a common denominator turns each error into a term of one sum.
LEMMA Rounding ==
  ASSUME NEW pts \in Nat
  PROVE  LET error == ToErlang(ToCodec(pts)) * BaseDen - pts * BaseNum
             limit == BaseDen * (UnitNum + UnitDen)
         IN  -limit <= 2 * (UnitDen * error) /\ 2 * (UnitDen * error) <= limit
<1> DEFINE c == ToCodec(pts)
           o == ToErlang(c)
           d == BaseDen * UnitNum
           n == pts * (BaseNum * UnitDen)
<1>1. c \in Nat /\ o \in Nat
  BY Rescaled
<1>2. BaseNum \in Nat \ {0} /\ BaseDen \in Nat \ {0} /\ UnitNum \in Nat \ {0}
      /\ UnitDen \in Nat \ {0} /\ d \in Nat \ {0} /\ BaseNum * UnitDen \in Nat
  BY FramesAssumption, Product
<1>3. n \in Nat /\ c * UnitNum \in Nat
  BY <1>1, <1>2
<1>4. -d <= 2 * (d * c - n) /\ 2 * (d * c - n) <= d
  <2>1. c = Nearest(n, d)
    BY DEF ToCodec
  <2> HIDE DEF c, n, d
  <2> QED
    BY <1>2, <1>3, <2>1, NearestBound
<1>5. -UnitDen <= 2 * (UnitDen * o - c * UnitNum) /\ 2 * (UnitDen * o - c * UnitNum) <= UnitDen
  <2>1. o = Nearest(c * UnitNum, UnitDen)
    BY DEF ToErlang
  <2> HIDE DEF c, o
  <2> QED
    BY <1>2, <1>3, <2>1, NearestBound
<1> DEFINE e == UnitDen * o - c * UnitNum
<1>6. e \in Int
  BY <1>1, <1>2
<1>7. -(BaseDen * UnitDen) <= BaseDen * (2 * e) /\ BaseDen * (2 * e) <= BaseDen * UnitDen
  <2> HIDE DEF e
  <2> QED
    BY <1>2, <1>5, <1>6 DEF e
<1>8. UnitDen * (o * BaseDen - pts * BaseNum) = BaseDen * e + (d * c - n)
  BY <1>1, <1>2
<1>9. BaseDen * (UnitNum + UnitDen) = d + BaseDen * UnitDen
  BY <1>2
<1> DEFINE z == UnitDen * (o * BaseDen - pts * BaseNum)
           x == BaseDen * e
           y == d * c - n
           w == BaseDen * UnitDen
           limit == BaseDen * (UnitNum + UnitDen)
<1>10. z \in Int /\ x \in Int /\ y \in Int /\ w \in Int /\ limit \in Int /\ d \in Int
  BY <1>1, <1>2, <1>3, <1>6
<1>11. z = x + y /\ limit = d + w /\ -d <= 2 * y /\ 2 * y <= d
  BY <1>4, <1>8, <1>9
<1>12. -w <= 2 * x /\ 2 * x <= w
  BY <1>2, <1>6, <1>7
<1> HIDE DEF z, x, y, w, limit, d
<1>13. -limit <= 2 * z /\ 2 * z <= limit
  BY <1>10, <1>11, <1>12
<1> QED
  BY <1>13 DEF z, limit

\* The frames have natural timestamps, in ticks and in codec units.
LEMMA Timestamps ==
  /\ DOMAIN Frames = 1..Len(Frames) /\ Len(Frames) \in Nat
  /\ \A k \in 1..Len(Frames) : Frames[k] \in Nat /\ CodecPts(k) \in Nat
                               /\ ToErlang(CodecPts(k)) \in Nat
<1>1. /\ DOMAIN Frames = 1..Len(Frames) /\ Len(Frames) \in Nat
      /\ \A k \in 1..Len(Frames) : Frames[k] \in Nat
  BY FramesAssumption
<1> QED
  BY <1>1, Rescaled DEF CodecPts

\* An entry of the queue is the info of a frame that was processed, under its codec pts.
LEMMA EntryOf ==
  ASSUME NEW f \in 0..Len(Frames), NEW queue \in Seq(Infos(f)), NEW i \in 1..Len(queue)
  PROVE  /\ queue[i].info \in 1..f /\ queue[i].pts = CodecPts(queue[i].info)
         /\ queue[i] = Entry(CodecPts(queue[i].info), queue[i].info)
<1>1. queue[i] \in Infos(f)
  BY ElementOf
<1> QED
  BY <1>1 DEF Infos, Entry

\* Queueing the info of the next frame (queue_frame_info_from_frame) keeps the queue in
\* order and leaves every other entry in it.
LEMMA QueuedNext ==
  ASSUME NEW f \in 0..(Len(Frames) - 1), NEW queue \in Seq(Infos(f)), Ordered(queue),
         NEW held \in SUBSET (1..f), HasInfos(queue, held)
  PROVE  LET new == Queued(queue, CodecPts(f + 1), f + 1)
         IN  /\ new \in Seq(Infos(f + 1)) /\ Ordered(new)
             /\ HasInfos(new, held) /\ HasInfos(new, held \union {f + 1})
             /\ Len(new) = Len(queue) + 1 /\ new[Len(queue) + 1] = Entry(CodecPts(f + 1), f + 1)
             /\ \A i \in 1..Len(queue) : new[i] = queue[i]
<1> DEFINE e == Entry(CodecPts(f + 1), f + 1)
           new == Queued(queue, CodecPts(f + 1), f + 1)
<1>1. e \in Infos(f + 1) /\ Infos(f) \subseteq Infos(f + 1) /\ e.info = f + 1
  <2>1. f + 1 \in 1..(f + 1) /\ 1..f \subseteq 1..(f + 1)
    BY Timestamps
  <2>2. e.info = f + 1
    BY DEF Entry
  <2> QED
    BY <2>1, <2>2 DEF Infos
<1>2. queue \in Seq(Infos(f + 1))
  BY <1>1, ElementOf, SequenceOver
<1>3. new = Append(queue, e)
  BY DEF Queued
<1> HIDE DEF e, new
<1>4. /\ new \in Seq(Infos(f + 1)) /\ Len(new) = Len(queue) + 1 /\ Len(queue) \in Nat
      /\ new[Len(queue) + 1] = e /\ \A i \in 1..Len(queue) : new[i] = queue[i]
      /\ DOMAIN queue = 1..Len(queue) /\ DOMAIN new = 1..(Len(queue) + 1)
  BY <1>1, <1>2, <1>3
<1>5. \A i \in 1..Len(queue) : queue[i].info < f + 1
  BY EntryOf, Timestamps
<1>6. Ordered(new)
  <2> SUFFICES ASSUME NEW i \in 1..(Len(queue) + 1), NEW j \in 1..(Len(queue) + 1), i < j
               PROVE  new[i].info < new[j].info
    BY <1>4 DEF Ordered
  <2>1. i \in 1..Len(queue) /\ new[i] = queue[i]
    BY <1>4
  <2>2. CASE j = Len(queue) + 1
    BY <1>1, <1>4, <1>5, <2>1, <2>2
  <2>3. CASE j \in 1..Len(queue)
    BY <1>4, <2>1, <2>3 DEF Ordered
  <2> QED
    BY <1>4, <2>2, <2>3
<1>7. ASSUME NEW k \in held PROVE \E i \in DOMAIN new : new[i].info = k
  <2>1. PICK i \in 1..Len(queue) : queue[i].info = k
    BY <1>4 DEF HasInfos
  <2>2. i \in DOMAIN new /\ new[i].info = k
    BY <1>4, <2>1
  <2> QED
    BY <2>2
<1>8. Len(queue) + 1 \in DOMAIN new /\ new[Len(queue) + 1].info = f + 1
  BY <1>1, <1>4
<1>9. HasInfos(new, held) /\ HasInfos(new, held \union {f + 1})
  BY <1>7, <1>8 DEF HasInfos
<1> QED
  BY <1>4, <1>6, <1>9 DEF e, new

\* What get_frame_info leaves when the packet of frame k takes an info.
Left(queue, k) == Remaining(queue, CodecPts(k), FALSE)

\* The info that packet takes.
InfoTaken(queue, k) == queue[Match(queue, CodecPts(k))].info

\* The packet of the first frame of its codec pts finds an info: its own or, after a
\* failure on an earlier frame of that pts, an older one; every other frame the
\* encoder holds keeps its own.
LEMMA Taken ==
  ASSUME NEW f \in 0..Len(Frames), NEW queue \in Seq(Infos(f)), Ordered(queue),
         NEW held \in SUBSET (1..f), HasInfos(queue, held),
         NEW lost \in SUBSET Nat, StaleOnly(queue, held, lost), NEW k \in held, FirstOfItsPts(k, held)
  PROVE  /\ Found(queue, CodecPts(k))
         /\ InfoTaken(queue, k) \in 1..f /\ InfoOf(InfoTaken(queue, k), k, lost)
         /\ Left(queue, k) \in Seq(Infos(f)) /\ Ordered(Left(queue, k))
         /\ HasInfos(Left(queue, k), held \ {k}) /\ StaleOnly(Left(queue, k), held \ {k}, lost)
         /\ Len(Left(queue, k)) = Len(queue) - 1
<1> DEFINE m == Match(queue, CodecPts(k))
           left == Left(queue, k)
           x == queue[m].info
<1>0. DOMAIN queue = 1..Len(queue) /\ Len(queue) \in Nat /\ k \in 1..f /\ 1..f \subseteq Nat
  BY ElementOf
<1>1. PICK own \in 1..Len(queue) : queue[own].info = k
  BY <1>0 DEF HasInfos
<1>2. queue[own].pts = CodecPts(k)
  BY <1>1, EntryOf
<1>3. Found(queue, CodecPts(k))
  BY <1>0, <1>2 DEF Found, Matches
<1>4. m \in 1..Len(queue) /\ queue[m].pts = CodecPts(k)
      /\ \A i \in 1..Len(queue) : queue[i].pts = CodecPts(k) => m <= i
  BY <1>3, MatchIs
<1>5. x \in 1..f /\ CodecPts(x) = CodecPts(k)
  BY <1>4, EntryOf
<1>6. PICK at : SelectedAre(left, at, queue, Kept(queue, CodecPts(k), FALSE), Len(queue))
  BY RemainingIs DEF Left
<1>7. left \in Seq(Infos(f))
  BY RemainingIs DEF Left
<1>8. Len(left) = Len(queue) - 1
  BY <1>3, RemainingLength DEF Left
<1> HIDE DEF left, m
\* The match is the own entry, or in front of it.
<1>9. x <= k /\ (own # m => x < k) /\ (own = m => x = k)
  <2>1. CASE own = m
    BY <1>0, <1>1, <2>1
  <2>2. CASE own # m
    <3>1. m < own
      BY <1>2, <1>4, <2>2
    <3>2. x < k
      BY <1>0, <1>1, <1>4, <3>1 DEF Ordered
    <3> QED
      BY <1>0, <1>5, <2>2, <3>2
  <2> QED
    BY <2>1, <2>2
<1>10. x # k => x \notin held
  BY <1>0, <1>5, <1>9 DEF FirstOfItsPts
<1>11. x # k => FailedBefore(x, lost)
  BY <1>0, <1>4, <1>10 DEF StaleOnly
<1>12. InfoOf(x, k, lost)
  BY <1>5, <1>9, <1>11 DEF InfoOf
<1>13. DOMAIN left = 1..Len(left)
  BY <1>7, ElementOf
<1>14. ASSUME NEW j \in 1..Len(left)
       PROVE  at[j] \in 1..Len(queue) /\ left[j] = queue[at[j]] /\ at[j] # m
  <2>1. at[j] \in Kept(queue, CodecPts(k), FALSE) /\ left[j] = queue[at[j]]
    BY <1>6 DEF SelectedAre
  <2> QED
    BY <2>1 DEF Kept, m
<1>15. Ordered(left)
  <2> SUFFICES ASSUME NEW i \in 1..Len(left), NEW j \in 1..Len(left), i < j
               PROVE  left[i].info < left[j].info
    BY <1>13 DEF Ordered
  <2>1. at[i] < at[j]
    BY <1>6 DEF SelectedAre
  <2> QED
    BY <1>0, <1>14, <2>1 DEF Ordered
<1>16. HasInfos(left, held \ {k})
  <2> SUFFICES ASSUME NEW h \in held \ {k} PROVE \E j \in 1..Len(left) : left[j].info = h
    BY <1>13 DEF HasInfos
  <2>1. PICK i \in 1..Len(queue) : queue[i].info = h
    BY <1>0 DEF HasInfos
  <2>2. i # m
    BY <1>10, <2>1
  <2>3. i \in Kept(queue, CodecPts(k), FALSE) \intersect (1..Len(queue))
    BY <2>2 DEF Kept, Dropped, m
  <2>4. \E j \in 1..Len(left) : at[j] = i
    BY <1>6, <2>3 DEF SelectedAre
  <2> QED
    BY <1>14, <2>1, <2>4
<1>17. StaleOnly(left, held \ {k}, lost)
  <2> SUFFICES ASSUME NEW j \in 1..Len(left), left[j].info \notin held \ {k}
               PROVE  FailedBefore(left[j].info, lost)
    BY <1>13 DEF StaleOnly
  <2>1. left[j] = queue[at[j]] /\ at[j] \in 1..Len(queue) /\ at[j] # m
    BY <1>14
  <2>2. CASE left[j].info = k
    <3>1. at[j] = own
      <4>1. at[j] \in Nat /\ own \in Nat /\ (at[j] < own \/ own < at[j] \/ at[j] = own)
        BY <1>0, <2>1
      <4> QED
        BY <1>0, <1>1, <2>1, <2>2, <4>1 DEF Ordered
    <3>2. x < k
      BY <1>9, <2>1, <3>1
    <3>3. FailedBefore(x, lost)
      BY <1>0, <1>5, <1>11, <3>2
    <3>4. PICK l \in lost : l <= x /\ CodecPts(l) = CodecPts(x)
      BY <3>3 DEF FailedBefore
    <3> QED
      BY <1>5, <1>12, <2>2, <3>4 DEF FailedBefore, InfoOf
  <2>3. CASE left[j].info # k
    BY <1>0, <2>1, <2>3 DEF StaleOnly
  <2> QED
    BY <2>2, <2>3
<1> QED
  BY <1>3, <1>5, <1>7, <1>8, <1>12, <1>15, <1>16, <1>17 DEF left, m, InfoTaken

-----------------------------------------------------------------------------
(* The invariant is preserved.                                             *)

\* Sets of processed frames are finite.
LEMMA Finite ==
  ASSUME NEW f \in 0..Len(Frames), NEW T \in SUBSET (1..f)
  PROVE  IsFiniteSet(T) /\ Cardinality(T) \in Nat
<1>1. IsFiniteSet(1..f)
  BY Timestamps, FS_Interval
<1> QED
  BY <1>1, FS_Subset, FS_CardinalityType

\* More processed frames: the packets written keep their type.
LEMMA OutputOver ==
  ASSUME NEW f \in 0..Len(Frames), NEW g \in 0..Len(Frames), f <= g, NEW o \in Seq(OutputType(f))
  PROVE  o \in Seq(OutputType(g))
<1>1. OutputType(f) \subseteq OutputType(g)
  BY Timestamps DEF OutputType
<1> QED
  BY <1>1, ElementOf, SequenceOver

\* The type invariant from what the queue and the packets are sequences of.
LEMMA TypeFrom ==
  ASSUME NEW f \in 0..Len(Frames), NEW q \in Seq(Infos(f)), NEW o \in Seq(OutputType(f))
  PROVE  /\ \A i \in DOMAIN q : q[i] = Entry(CodecPts(q[i].info), q[i].info)
         /\ \A i \in DOMAIN o : o[i] \in [frame : 1..f, pts : Nat, info : 1..f]
<1>1. \A i \in DOMAIN q : q[i] = Entry(CodecPts(q[i].info), q[i].info)
  BY EntryOf, ElementOf
<1>2. \A i \in DOMAIN o : o[i] \in OutputType(f)
  BY ElementOf
<1> QED
  BY <1>1, <1>2 DEF OutputType

\* Before the first frame nothing is queued, held or written.
LEMMA InitInv == Init => IndInv
<1> SUFFICES ASSUME Init PROVE IndInv
  OBVIOUS
<1>1. encoded = 0 /\ encoded \in 0..Len(Frames) /\ inside = {} /\ failed = {} /\ store = <<>>
      /\ output = <<>> /\ pc = "ready"
  BY Timestamps DEF Init
<1>2. store \in Seq(Infos(encoded)) /\ output \in Seq(OutputType(encoded))
      /\ DOMAIN store = {} /\ DOMAIN output = {} /\ Len(store) = 0
  BY <1>1
<1>3. Cardinality(inside) = 0 /\ Cardinality(failed) = 0
  BY <1>1, FS_EmptySet
<1>4. TypeOK
  BY <1>1, <1>2 DEF TypeOK
<1> QED
  BY <1>1, <1>2, <1>3, <1>4 DEF IndInv, Ordered, HasInfos, StaleOnly

\* The packet the encoder returns is written with the info it finds, whatever frames
\* were processed since; the program goes on.
LEMMA WritePacketInv ==
  ASSUME IndInv, NEW f \in 0..Len(Frames), encoded <= f, NEW queue \in Seq(Infos(f)), Ordered(queue),
         NEW held \in SUBSET (1..f), HasInfos(queue, held),
         NEW lost \in SUBSET (1..f), failed = lost, StaleOnly(queue, held, lost),
         held \intersect lost = {}, Len(queue) = Cardinality(held) + Cardinality(lost),
         NEW k \in held, FirstOfItsPts(k, held), pc # "flushed",
         encoded' = f, inside' = held \ {k}, WritePacket(k, queue), pc' = PcAfter(k, queue, pc),
         failed' = failed
  PROVE  IndInv'
<1> DEFINE left == Left(queue, k)
           x == InfoTaken(queue, k)
           written == [frame |-> k, pts |-> ToErlang(CodecPts(k)), info |-> x]
<1>0. lost \in SUBSET Nat
  OBVIOUS
<1>1. Found(queue, CodecPts(k)) /\ x \in 1..f /\ InfoOf(x, k, lost)
  BY <1>0, Taken
<1>2. /\ left \in Seq(Infos(f)) /\ Ordered(left) /\ HasInfos(left, held \ {k})
      /\ StaleOnly(left, held \ {k}, lost) /\ Len(left) = Len(queue) - 1
  BY <1>0, Taken
<1>3. pc' = pc /\ store' = left /\ output' = Append(output, written)
  BY <1>1 DEF WritePacket, PcAfter, Left, InfoTaken
<1>4. output \in Seq(OutputType(encoded)) /\ encoded \in 0..Len(Frames)
  BY DEF IndInv, TypeOK
<1>5. output \in Seq(OutputType(f)) /\ written \in OutputType(f)
  <2>1. output \in Seq(OutputType(f))
    BY <1>4, OutputOver
  <2>2. k \in 1..f /\ ToErlang(CodecPts(k)) \in Nat
    BY Timestamps
  <2> QED
    BY <1>1, <2>1, <2>2 DEF OutputType
<1>6. written.frame = k /\ written.pts = ToErlang(CodecPts(k)) /\ written.info = x
  OBVIOUS
<1> HIDE DEF left, written, x
<1>7. /\ output' \in Seq(OutputType(f)) /\ Len(output') = Len(output) + 1 /\ Len(output) \in Nat
      /\ output'[Len(output) + 1] = written /\ \A i \in 1..Len(output) : output'[i] = output[i]
      /\ DOMAIN output = 1..Len(output) /\ DOMAIN output' = 1..(Len(output) + 1)
  BY <1>3, <1>5, Appended, ElementOf
<1>8. ASSUME NEW i \in 1..(Len(output) + 1)
      PROVE  /\ InfoOf(output'[i].info, output'[i].frame, lost)
             /\ output'[i].pts = ToErlang(CodecPts(output'[i].frame))
  <2>1. CASE i = Len(output) + 1
    BY <1>1, <1>6, <1>7, <2>1
  <2>2. CASE i \in 1..Len(output)
    BY <1>7, <2>2 DEF IndInv
  <2> QED
    BY <1>7, <2>1, <2>2
<1>9. Cardinality(held \ {k}) = Cardinality(held) - 1 /\ Len(left) = Cardinality(held \ {k}) + Cardinality(lost)
  <2>1. IsFiniteSet(held) /\ Cardinality(held) \in Nat /\ Cardinality(lost) \in Nat
    BY Finite
  <2>2. Cardinality(held \ {k}) = Cardinality(held) - 1
    BY <2>1, FS_RemoveElement
  <2> QED
    BY <1>2, <2>1, <2>2
<1>10. TypeOK'
  <2>1. pc' \in {"ready", "drain", "flushed", "exited"}
    BY <1>3 DEF IndInv, TypeOK
  <2>2. \A i \in DOMAIN left : left[i] = Entry(CodecPts(left[i].info), left[i].info)
    BY <1>2, <1>5, TypeFrom
  <2>3. \A i \in DOMAIN output' : output'[i] \in [frame : 1..f, pts : Nat, info : 1..f]
    BY <1>7, ElementOf DEF OutputType
  <2> QED
    BY <1>3, <2>1, <2>2, <2>3 DEF TypeOK
<1>11. pc' # "exited" /\ pc' # "flushed"
  BY <1>3 DEF IndInv
<1> QED
  BY <1>2, <1>3, <1>7, <1>8, <1>9, <1>10, <1>11
     DEF IndInv, Ordered, HasInfos, StaleOnly

\* process() with a packet out of the encoder: the frame's info is queued first.
LEMMA ProcessPacketInv ==
  ASSUME IndInv, NEW k \in 1..Len(Frames), ProcessPacket(k)
  PROVE  IndInv'
<1> DEFINE queue == Queued(store, CodecPts(encoded + 1), encoded + 1)
           held == inside \union {encoded + 1}
<1>1. /\ encoded \in 0..(Len(Frames) - 1) /\ inside \in SUBSET (1..encoded) /\ pc = "ready"
      /\ store \in Seq(Infos(encoded)) /\ Ordered(store) /\ HasInfos(store, inside)
      /\ failed \in SUBSET (1..encoded) /\ StaleOnly(store, inside, failed)
      /\ inside \intersect failed = {} /\ Len(store) = Cardinality(inside) + Cardinality(failed)
  BY DEF IndInv, TypeOK, ProcessPacket
<1>2. PICK f \in 0..Len(Frames) : f = encoded + 1
  BY <1>1, Timestamps
<1>3. /\ queue \in Seq(Infos(f)) /\ Ordered(queue) /\ HasInfos(queue, held)
      /\ Len(queue) = Len(store) + 1 /\ queue[Len(store) + 1] = Entry(CodecPts(f), f)
      /\ \A i \in 1..Len(store) : queue[i] = store[i]
  BY <1>1, <1>2, QueuedNext
<1> HIDE DEF queue
<1>4. Len(store) \in Nat /\ DOMAIN store = 1..Len(store) /\ DOMAIN queue = 1..(Len(store) + 1)
  BY <1>1, <1>3, ElementOf
<1>5. StaleOnly(queue, held, failed)
  <2> SUFFICES ASSUME NEW i \in 1..(Len(store) + 1), queue[i].info \notin held
               PROVE  FailedBefore(queue[i].info, failed)
    BY <1>4 DEF StaleOnly
  <2>1. i # Len(store) + 1
    BY <1>2, <1>3 DEF Entry
  <2>2. i \in 1..Len(store) /\ queue[i] = store[i]
    BY <1>3, <1>4, <2>1
  <2> QED
    BY <1>1, <1>4, <2>2 DEF StaleOnly
<1>6. held \in SUBSET (1..f) /\ failed \in SUBSET (1..f) /\ held \intersect failed = {}
  BY <1>1, <1>2
<1>7. Len(queue) = Cardinality(held) + Cardinality(failed)
  <2>1. encoded \in 0..Len(Frames)
    BY <1>1
  <2>2. IsFiniteSet(inside) /\ Cardinality(inside) \in Nat /\ Cardinality(failed) \in Nat
    BY <1>1, <2>1, Finite
  <2>3. encoded + 1 \notin inside
    BY <1>1
  <2>4. Cardinality(held) = Cardinality(inside) + 1
    BY <2>2, <2>3, FS_AddElement
  <2> QED
    BY <1>1, <1>3, <2>2, <2>4
<1>8. PICK q \in Seq(Infos(f)) : q = queue
  BY <1>3
<1>9. PICK h \in SUBSET (1..f) : h = held
  BY <1>6
<1>10. PICK lost \in SUBSET (1..f) : lost = failed
  BY <1>6
<1>11. k \in h /\ FirstOfItsPts(k, h)
  BY <1>9 DEF ProcessPacket, FirstOfItsPts
<1>12. encoded' = f /\ inside' = h \ {k} /\ WritePacket(k, q) /\ pc' = PcAfter(k, q, pc) /\ failed' = failed
  BY <1>2, <1>8, <1>9 DEF ProcessPacket, queue
<1>13. /\ encoded <= f /\ Ordered(q) /\ HasInfos(q, h) /\ failed = lost /\ StaleOnly(q, h, lost)
       /\ h \intersect lost = {} /\ Len(q) = Cardinality(h) + Cardinality(lost) /\ pc # "flushed"
  BY <1>1, <1>2, <1>3, <1>5, <1>6, <1>7, <1>8, <1>9, <1>10
<1> QED
  BY <1>11, <1>12, <1>13, WritePacketInv

\* A packet drained by flush() is written as one that process() gets.
LEMMA DrainPacketInv ==
  ASSUME IndInv, NEW k \in 1..Len(Frames), DrainPacket(k)
  PROVE  IndInv'
<1>1. /\ encoded \in 0..Len(Frames) /\ inside \in SUBSET (1..encoded) /\ pc = "drain"
      /\ store \in Seq(Infos(encoded)) /\ Ordered(store) /\ HasInfos(store, inside)
      /\ failed \in SUBSET (1..encoded) /\ StaleOnly(store, inside, failed)
      /\ inside \intersect failed = {} /\ Len(store) = Cardinality(inside) + Cardinality(failed)
  BY DEF IndInv, TypeOK, DrainPacket
<1>2. PICK f \in 0..Len(Frames) : f = encoded
  BY <1>1
<1>3. PICK q \in Seq(Infos(f)) : q = store
  BY <1>1, <1>2
<1>4. PICK h \in SUBSET (1..f) : h = inside
  BY <1>1, <1>2
<1>5. PICK lost \in SUBSET (1..f) : lost = failed
  BY <1>1, <1>2
<1>6. k \in h /\ FirstOfItsPts(k, h)
  BY <1>4 DEF DrainPacket, FirstOfItsPts
<1>7. encoded' = f /\ inside' = h \ {k} /\ WritePacket(k, q) /\ pc' = PcAfter(k, q, pc) /\ failed' = failed
  BY <1>2, <1>3, <1>4 DEF DrainPacket
<1>8. /\ encoded <= f /\ Ordered(q) /\ HasInfos(q, h) /\ failed = lost /\ StaleOnly(q, h, lost)
      /\ h \intersect lost = {} /\ Len(q) = Cardinality(h) + Cardinality(lost) /\ pc # "flushed"
  BY <1>1, <1>2, <1>3, <1>4, <1>5
<1> QED
  BY <1>6, <1>7, <1>8, WritePacketInv

\* A failure stays a failure when there are more of them.
LEMMA MoreFailures ==
  ASSUME NEW lost, NEW more, lost \subseteq more
  PROVE  /\ \A k : FailedBefore(k, lost) => FailedBefore(k, more)
         /\ \A info, k : InfoOf(info, k, lost) => InfoOf(info, k, more)
<1>1. \A k : FailedBefore(k, lost) => FailedBefore(k, more)
  BY DEF FailedBefore
<1> QED
  BY <1>1 DEF InfoOf

\* A step without a packet: what it has to leave in the queue, in the encoder and among
\* its failures.
LEMMA QuietInv ==
  ASSUME IndInv, NEW f \in 0..Len(Frames), encoded <= f, NEW queue \in Seq(Infos(f)), Ordered(queue),
         NEW held \in SUBSET (1..f), HasInfos(queue, held),
         NEW lost \in SUBSET (1..f), failed \subseteq lost, StaleOnly(queue, held, lost),
         held \intersect lost = {}, Len(queue) = Cardinality(held) + Cardinality(lost),
         pc' \in {"ready", "drain", "flushed"}, pc' = "flushed" => held = {},
         encoded' = f, store' = queue, inside' = held, failed' = lost, output' = output
  PROVE  IndInv'
<1>1. output \in Seq(OutputType(encoded)) /\ encoded \in 0..Len(Frames)
  BY DEF IndInv, TypeOK
<1>2. output' \in Seq(OutputType(f)) /\ DOMAIN output' = 1..Len(output)
      /\ DOMAIN output = 1..Len(output)
  BY <1>1, OutputOver, ElementOf
<1>3. ASSUME NEW i \in 1..Len(output)
      PROVE  /\ InfoOf(output'[i].info, output'[i].frame, lost)
             /\ output'[i].pts = ToErlang(CodecPts(output'[i].frame))
  <2>1. /\ InfoOf(output[i].info, output[i].frame, failed)
        /\ output[i].pts = ToErlang(CodecPts(output[i].frame))
    BY <1>2 DEF IndInv
  <2>2. InfoOf(output[i].info, output[i].frame, lost)
    BY <2>1, MoreFailures
  <2> QED
    BY <2>1, <2>2
<1>4. TypeOK'
  <2>1. \A i \in DOMAIN queue : queue[i] = Entry(CodecPts(queue[i].info), queue[i].info)
    BY <1>2, TypeFrom
  <2>2. \A i \in DOMAIN output' : output'[i] \in OutputType(f)
    BY <1>2, ElementOf
  <2> QED
    BY <2>1, <2>2 DEF TypeOK, OutputType
<1>5. pc' # "exited" /\ (pc' = "flushed" => inside' = {})
  OBVIOUS
<1> QED
  BY <1>2, <1>3, <1>4, <1>5 DEF IndInv, Ordered, HasInfos, StaleOnly

\* process() without a packet: the frame is in the encoder, or was lost in it.
LEMMA ProcessNothingInv ==
  ASSUME IndInv, ProcessNothing
  PROVE  IndInv'
<1> DEFINE queue == Queued(store, CodecPts(encoded + 1), encoded + 1)
           more(set) == set \union {encoded + 1}
<1>1. /\ encoded \in 0..(Len(Frames) - 1) /\ inside \in SUBSET (1..encoded) /\ pc = "ready"
      /\ store \in Seq(Infos(encoded)) /\ Ordered(store) /\ HasInfos(store, inside)
      /\ failed \in SUBSET (1..encoded) /\ StaleOnly(store, inside, failed)
      /\ inside \intersect failed = {} /\ Len(store) = Cardinality(inside) + Cardinality(failed)
  BY DEF IndInv, TypeOK, ProcessNothing
<1>2. PICK f \in 0..Len(Frames) : f = encoded + 1
  BY <1>1, Timestamps
<1>3. /\ queue \in Seq(Infos(f)) /\ Ordered(queue) /\ HasInfos(queue, inside)
      /\ HasInfos(queue, more(inside))
      /\ Len(queue) = Len(store) + 1 /\ queue[Len(store) + 1] = Entry(CodecPts(f), f)
      /\ \A i \in 1..Len(store) : queue[i] = store[i]
  BY <1>1, <1>2, QueuedNext
<1>4. pc' = "ready" /\ encoded' = f /\ store' = queue /\ output' = output
      /\ \/ inside' = more(inside) /\ failed' = failed
         \/ failed' = more(failed) /\ inside' = inside
  BY <1>1, <1>2 DEF ProcessNothing
<1> HIDE DEF queue
<1>5. Len(store) \in Nat /\ DOMAIN store = 1..Len(store) /\ DOMAIN queue = 1..(Len(store) + 1)
  BY <1>1, <1>3, ElementOf
<1>6. ASSUME NEW i \in 1..Len(store), queue[i].info \notin inside
      PROVE  FailedBefore(queue[i].info, failed)
  BY <1>1, <1>3, <1>5, <1>6 DEF StaleOnly
<1>7. queue[Len(store) + 1].info = f
  BY <1>3 DEF Entry
<1>8. /\ Cardinality(inside) \in Nat /\ Cardinality(failed) \in Nat
      /\ Cardinality(more(inside)) = Cardinality(inside) + 1
      /\ Cardinality(more(failed)) = Cardinality(failed) + 1
  <2>1. encoded \in 0..Len(Frames)
    BY <1>1
  <2>2. IsFiniteSet(inside) /\ Cardinality(inside) \in Nat /\ IsFiniteSet(failed)
        /\ Cardinality(failed) \in Nat
    BY <1>1, <2>1, Finite
  <2>3. encoded + 1 \notin inside /\ encoded + 1 \notin failed
    BY <1>1
  <2> QED
    BY <2>2, <2>3, FS_AddElement
<1>9. more(inside) \in SUBSET (1..f) /\ more(failed) \in SUBSET (1..f)
      /\ inside \in SUBSET (1..f) /\ failed \in SUBSET (1..f)
  BY <1>1, <1>2
<1>10. PICK q \in Seq(Infos(f)) : q = queue
  BY <1>3
<1>11. CASE inside' = more(inside) /\ failed' = failed
  <2>1. StaleOnly(queue, more(inside), failed)
    <3> SUFFICES ASSUME NEW i \in 1..(Len(store) + 1), queue[i].info \notin more(inside)
                 PROVE  FailedBefore(queue[i].info, failed)
      BY <1>5 DEF StaleOnly
    <3>1. i \in 1..Len(store)
      BY <1>2, <1>5, <1>7
    <3> QED
      BY <1>6, <3>1
  <2>2. PICK h \in SUBSET (1..f) : h = more(inside)
    BY <1>9
  <2>3. PICK lost \in SUBSET (1..f) : lost = failed
    BY <1>9
  <2>4. /\ encoded <= f /\ Ordered(q) /\ HasInfos(q, h) /\ failed \subseteq lost
        /\ StaleOnly(q, h, lost) /\ h \intersect lost = {}
    BY <1>1, <1>2, <1>3, <1>10, <2>1, <2>2, <2>3
  <2>5. Len(q) = Cardinality(h) + Cardinality(lost)
    BY <1>1, <1>3, <1>8, <1>10, <2>2, <2>3
  <2>6. encoded' = f /\ store' = q /\ inside' = h /\ failed' = lost /\ output' = output
        /\ pc' \in {"ready", "drain", "flushed"} /\ (pc' = "flushed" => h = {})
    BY <1>4, <1>10, <1>11, <2>2, <2>3
  <2> QED
    BY <2>4, <2>5, <2>6, QuietInv
<1>12. CASE failed' = more(failed) /\ inside' = inside
  <2>1. StaleOnly(queue, inside, more(failed))
    <3> SUFFICES ASSUME NEW i \in 1..(Len(store) + 1), queue[i].info \notin inside
                 PROVE  FailedBefore(queue[i].info, more(failed))
      BY <1>5 DEF StaleOnly
    <3>1. CASE i \in 1..Len(store)
      <4>1. FailedBefore(queue[i].info, failed)
        BY <1>6, <3>1
      <4>2. failed \subseteq more(failed)
        OBVIOUS
      <4> HIDE DEF more
      <4> QED
        BY <4>1, <4>2, MoreFailures
    <3>2. CASE i = Len(store) + 1
      <4>1. f \in more(failed) /\ f <= f
        BY <1>2
      <4>2. FailedBefore(f, more(failed))
        BY <4>1 DEF FailedBefore
      <4> QED
        BY <1>7, <3>2, <4>2
    <3> QED
      BY <1>5, <3>1, <3>2
  <2>2. PICK h \in SUBSET (1..f) : h = inside
    BY <1>9
  <2>3. PICK lost \in SUBSET (1..f) : lost = more(failed)
    BY <1>9
  <2>4. /\ encoded <= f /\ Ordered(q) /\ HasInfos(q, h) /\ failed \subseteq lost
        /\ StaleOnly(q, h, lost) /\ h \intersect lost = {}
    BY <1>1, <1>2, <1>3, <1>10, <2>1, <2>2, <2>3
  <2>5. Len(q) = Cardinality(h) + Cardinality(lost)
    BY <1>1, <1>3, <1>8, <1>10, <2>2, <2>3
  <2>6. encoded' = f /\ store' = q /\ inside' = h /\ failed' = lost /\ output' = output
        /\ pc' \in {"ready", "drain", "flushed"} /\ (pc' = "flushed" => h = {})
    BY <1>4, <1>10, <1>12, <2>2, <2>3
  <2> QED
    BY <2>4, <2>5, <2>6, QuietInv
<1> QED
  BY <1>4, <1>11, <1>12

\* flush(), and stuttering, leave the queue and the encoder alone.
LEMMA FlushInv ==
  ASSUME IndInv, UNCHANGED <<encoded, store, inside, output, failed>>,
         Flush \/ UNCHANGED pc
  PROVE  IndInv'
<1>1. pc' # "exited" /\ pc' \in {"ready", "drain", "flushed", "exited"}
  BY DEF IndInv, TypeOK, Flush
<1>2. pc' = "flushed" => inside = {}
  BY DEF IndInv, TypeOK, Flush
<1> QED
  BY <1>1, <1>2 DEF IndInv, TypeOK, Ordered, HasInfos, StaleOnly

\* The end of the draining: what is still in the encoder is lost, and its infos stay.
LEMMA DrainEndInv ==
  ASSUME IndInv, DrainEnd
  PROVE  IndInv'
<1>1. /\ encoded \in 0..Len(Frames) /\ inside \in SUBSET (1..encoded)
      /\ store \in Seq(Infos(encoded)) /\ Ordered(store) /\ StaleOnly(store, inside, failed)
      /\ failed \in SUBSET (1..encoded)
      /\ inside \intersect failed = {} /\ Len(store) = Cardinality(inside) + Cardinality(failed)
  BY DEF IndInv, TypeOK
<1>2. PICK f \in 0..Len(Frames) : f = encoded
  BY <1>1
<1>3. PICK q \in Seq(Infos(f)) : q = store
  BY <1>1, <1>2
<1>4. PICK lost \in SUBSET (1..f) : lost = failed \union inside
  BY <1>1, <1>2
<1>5. Len(q) = Cardinality({}) + Cardinality(lost)
  <2>1. IsFiniteSet(inside) /\ Cardinality(inside) \in Nat /\ IsFiniteSet(failed)
        /\ Cardinality(failed) \in Nat
    BY <1>1, Finite
  <2>2. Cardinality({}) = 0 /\ Cardinality(failed \intersect inside) = 0
    <3>1. failed \intersect inside = {}
      BY <1>1
    <3> QED
      BY <3>1, FS_EmptySet
  <2>3. Cardinality(lost) = Cardinality(failed) + Cardinality(inside) - Cardinality(failed \intersect inside)
    BY <1>4, <2>1, FS_Union
  <2> QED
    BY <1>1, <1>3, <2>1, <2>2, <2>3
<1>6. StaleOnly(q, {}, lost)
  <2> SUFFICES ASSUME NEW i \in DOMAIN q PROVE FailedBefore(q[i].info, lost)
    BY DEF StaleOnly
  <2>1. CASE q[i].info \in inside
    <3>1. PICK x \in lost : x = q[i].info
      BY <1>4, <2>1
    <3>2. x <= x
      OBVIOUS
    <3> QED
      BY <3>1, <3>2 DEF FailedBefore
  <2>2. CASE q[i].info \notin inside
    <3>1. FailedBefore(q[i].info, failed)
      BY <1>1, <1>3, <2>2 DEF StaleOnly
    <3>2. failed \subseteq lost
      BY <1>4
    <3> QED
      BY <3>1, <3>2, MoreFailures
  <2> QED
    BY <2>1, <2>2
<1>7. /\ encoded <= f /\ Ordered(q) /\ HasInfos(q, {}) /\ failed \subseteq lost
      /\ {} \intersect lost = {} /\ {} \in SUBSET (1..f)
  BY <1>1, <1>2, <1>3, <1>4 DEF HasInfos
<1>8. encoded' = f /\ store' = q /\ inside' = {} /\ failed' = lost /\ output' = output
      /\ pc' = "flushed"
  BY <1>2, <1>3, <1>4 DEF DrainEnd
<1>9. PICK h \in SUBSET (1..f) : h = {}
  OBVIOUS
<1>10. Ordered(q) /\ HasInfos(q, h) /\ StaleOnly(q, h, lost) /\ h \intersect lost = {}
       /\ Len(q) = Cardinality(h) + Cardinality(lost) /\ inside' = h
       /\ pc' \in {"ready", "drain", "flushed"} /\ (pc' = "flushed" => h = {})
  BY <1>5, <1>6, <1>7, <1>8, <1>9
<1> QED
  BY <1>7, <1>8, <1>10, QuietInv

\* Every step preserves the inductive invariant.
LEMMA NextInv == IndInv /\ [Next]_vars => IndInv'
<1> SUFFICES ASSUME IndInv, [Next]_vars PROVE IndInv'
  OBVIOUS
<1>1. CASE Flush
  BY <1>1, FlushInv DEF Flush
<1>2. ASSUME NEW k \in DOMAIN Frames, ProcessPacket(k) \/ DrainPacket(k) PROVE IndInv'
  <2>1. k \in 1..Len(Frames)
    BY Timestamps
  <2> QED
    BY <1>2, <2>1, ProcessPacketInv, DrainPacketInv
<1>3. CASE UNCHANGED vars
  BY <1>3, FlushInv DEF vars
<1> QED
  BY <1>1, <1>2, <1>3, ProcessNothingInv, DrainEndInv DEF Next

\* The inductive invariant holds in every reachable state.
THEOREM Invariant == Spec => []IndInv
<1> QED
  BY InitInv, NextInv, PTL DEF Spec

\* A packet never ends the program with "Failed to find frame_info", however the
\* encoder reorders and whatever it fails on.
THEOREM InfoKeptCorrect == Spec => []InfoKept
<1>1. IndInv => InfoKept
  BY DEF IndInv, InfoKept, HasInfos
<1> QED
  BY <1>1, Invariant, PTL

\* A packet carries the info of its frame, or of an earlier one of its codec pts when
\* the encoder failed on one of them.
THEOREM OwnInfoCorrect == Spec => []OwnInfo
<1>1. IndInv => OwnInfo
  <2> SUFFICES ASSUME IndInv, NEW i \in DOMAIN output
               PROVE  LET k == output[i].frame
                          twins == {j \in failed : j < k /\ CodecPts(j) = CodecPts(k)}
                      IN  IF twins = {} THEN output[i].info = k
                          ELSE output[i].info <= k /\ CodecPts(output[i].info) = CodecPts(k)
    BY DEF OwnInfo
  <2> DEFINE k == output[i].frame
             x == output[i].info
  <2>1. x <= k /\ CodecPts(x) = CodecPts(k) /\ (x # k => FailedBefore(x, failed))
    BY DEF IndInv, InfoOf
  <2>2. k \in Nat /\ x \in Nat /\ failed \subseteq Nat
    BY Timestamps DEF IndInv, TypeOK
  <2> HIDE DEF k, x
  <2>3. ASSUME x # k PROVE \E j \in failed : j < k /\ CodecPts(j) = CodecPts(k)
    <3>1. PICK j \in failed : j <= x /\ CodecPts(j) = CodecPts(x)
      BY <2>1, <2>3 DEF FailedBefore
    <3> QED
      BY <2>1, <2>2, <2>3, <3>1
  <2> QED
    BY <2>1, <2>3 DEF k, x
<1> QED
  BY <1>1, Invariant, PTL

\* The two roundings move no timestamp by more than half a unit of the codec's time base
\* and half a tick.
THEOREM TimestampKeptCorrect == Spec => []TimestampKept
<1>1. IndInv => TimestampKept
  <2> SUFFICES ASSUME IndInv, NEW i \in DOMAIN output
               PROVE  LET error == output[i].pts * BaseDen - Frames[output[i].frame] * BaseNum
                          limit == BaseDen * (UnitNum + UnitDen)
                      IN  -limit <= 2 * (UnitDen * error) /\ 2 * (UnitDen * error) <= limit
    BY DEF TimestampKept
  <2>1. output[i].pts = ToErlang(CodecPts(output[i].frame))
    BY DEF IndInv
  <2>2. output[i].frame \in 1..Len(Frames)
    BY Timestamps DEF IndInv, TypeOK
  <2>3. Frames[output[i].frame] \in Nat
    BY <2>2, Timestamps
  <2> QED
    BY <2>1, <2>3, Rounding DEF CodecPts
<1> QED
  BY <1>1, Invariant, PTL

\* After a flush the encoder is empty, and as many infos are left as frames it failed on.
THEOREM FlushCompleteCorrect == Spec => []FlushComplete
<1>1. IndInv => FlushComplete
  <2> SUFFICES ASSUME IndInv, pc = "flushed" PROVE inside = {} /\ Len(store) = Cardinality(failed)
    BY DEF FlushComplete
  <2>1. inside = {} /\ Len(store) = Cardinality(inside) + Cardinality(failed)
        /\ encoded \in 0..Len(Frames) /\ failed \in SUBSET (1..encoded)
    BY DEF IndInv, TypeOK
  <2>2. Cardinality(inside) = 0 /\ Cardinality(failed) \in Nat
    BY <2>1, Finite, FS_EmptySet
  <2> QED
    BY <2>1, <2>2
<1> QED
  BY <1>1, Invariant, PTL
=============================================================================
