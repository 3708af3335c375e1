--------------------------- MODULE AudioPathProofs ---------------------------
(* Proofs about AudioPath and the two filters in it, for every frame size,   *)
(* rate, delay and every bound of the host's input.                          *)
EXTENDS AudioPath, FiniteSetTheorems, TLAPS

-----------------------------------------------------------------------------
(* The inductive invariant behind TimestampKept.                           *)

\* Codec frames cut in the call of process() that came last, and frames decoded
\* from the packet.
Cuts == Cardinality({j \in DOMAIN encoded : encoded[j].input = inputs})
Decoded == IF samples = 0 THEN 0 ELSE arrived[inputs].nth

\* The place in the host's stream of the next codec frame's first sample, as
\* seen from the input frame that came last.
Place == arrived[inputs].at - arrived[inputs].first + received - offset + used

\* A time in ticks, behind by at most that many roundings and ahead by at most one.
Near(ticks, place, behind, ahead) ==
  /\ Clock * place - (Rate - 1) * behind <= Rate * ticks
  /\ Rate * ticks <= Clock * place + (Rate - 1) * ahead

\* The packet's pts and the operating timestamp keep up with the host's stream.
TimeInv ==
  /\ arrived \in Seq([first : Nat, at : Nat, nth : Nat \ {0}])
  /\ Len(arrived) = inputs
  /\ \A m \in DOMAIN arrived : arrived[m].first <= arrived[m].at
  /\ \A k \in DOMAIN encoded : encoded[k].input \in DOMAIN arrived
  /\ received <= position + (IF ipc = "decode" THEN samples ELSE 0)
  /\ samples > 0 => inputs > 0
  /\ Near(shift, samples, Decoded, 0)
  /\ pc = "encode" => inputs > 0 /\ Near(stamp, Place, arrived[inputs].nth + Cuts, 1)
  /\ TimestampKept

-----------------------------------------------------------------------------
LEMMA Assumptions ==
  /\ FrameSize \in Nat /\ FrameSize > 0
  /\ Rate \in Nat /\ Rate > 0
  /\ Clock \in Nat /\ Longest \in Nat /\ Longest > 0 /\ Delay \in Nat /\ MaxSamples \in Nat
  /\ \A n \in Lengths : n \in Nat /\ 1 <= n /\ n <= Longest
  /\ Libfdk \in BOOLEAN
  /\ PacketSizes \subseteq Nat /\ Losses \subseteq Nat
  /\ MaxPackets \in Nat /\ MaxCalls \in Nat
BY ConstantsAssumption, InputConstants DEF In!ConstantsOK

\* A number of samples is a natural number of ticks.
LEMMA TicksNat == ASSUME NEW n \in Nat PROVE (Clock * n) \div Rate \in Nat
<1>1. Clock * n \in Nat
  BY Assumptions
<1> DEFINE c == Clock * n
<1>2. \A x \in Nat : x \div Rate \in Nat
  BY Assumptions
<1> QED
  BY <1>1, <1>2

\* What one codec frame more, or a frame fewer, does to a product.
LEMMA Product ==
  ASSUME NEW a \in Int, NEW b \in Int
  PROVE  /\ a * b \in Int
         /\ (a + 1) * b = a * b + b
         /\ (a - 1) * b = a * b - b
OBVIOUS

LEMMA ProductMonotone ==
  ASSUME NEW a \in Int, NEW b \in Int, NEW c \in Nat, a <= b
  PROVE  a * c <= b * c
<1>1. b - a \in Nat
  OBVIOUS
<1>2. \A d \in Nat : d * c \in Nat /\ (a + d) * c = a * c + d * c
  OBVIOUS
<1>3. b = a + (b - a)
  OBVIOUS
<1> QED
  BY <1>1, <1>2, <1>3

-----------------------------------------------------------------------------
(* The output filter: one lemma per action.                                *)

LEMMA InitOutput == Init => IndInv
<1> SUFFICES ASSUME Init PROVE IndInv
  OBVIOUS
<1>1. /\ pc = "ready" /\ received = 0 /\ inputs = 0 /\ size = FrameSize /\ used = 0
      /\ stamp = 0 /\ bad = 0
      /\ buffer = <<>> /\ encoded = <<>> /\ sent = <<>>
  BY DEF Init
<1>2. offset = 0 /\ Len(encoded) = 0 /\ Len(sent) = 0
      /\ DOMAIN encoded = {} /\ DOMAIN sent = {}
  BY <1>1 DEF offset
<1>3. TypeOK
  BY <1>1, Assumptions DEF TypeOK
<1>4. BufferInv
  <2>1. 0 * FrameSize = 0 /\ 0 < FrameSize
    BY Assumptions
  <2> QED
    BY <1>1, <1>2, <2>1 DEF BufferInv
<1>7. SizeBound
  BY <1>1, <1>2, Assumptions DEF SizeBound
<1>5. Contiguous
  BY <1>2 DEF Contiguous
<1>6. PacketInv
  BY <1>1, <1>2, Assumptions DEF PacketInv, MaxBad
<1> QED
  BY <1>3, <1>4, <1>5, <1>6, <1>7 DEF IndInv

LEMMA ElementOf == ASSUME NEW S, NEW s \in Seq(S), NEW j \in DOMAIN s PROVE s[j] \in S
OBVIOUS

LEMMA EncodedRecords ==
  ASSUME IndInv, NEW j \in DOMAIN encoded
  PROVE  encoded[j].input \in Nat /\ encoded[j].pts \in Int
<1>1. encoded \in Seq([samples : Seq(Nat), pts : Int, input : Nat])
  BY DEF IndInv, TypeOK
<1>2. encoded[j] \in [samples : Seq(Nat), pts : Int, input : Nat]
  BY <1>1, ElementOf
<1> QED
  BY <1>2

\* Contiguous and PacketInv are about what Encode changes.
LEMMA EncodedKept ==
  ASSUME IndInv, UNCHANGED <<encoded, sent, bad>>, TypeOK', inputs' >= inputs
  PROVE  Contiguous' /\ PacketInv'
<1>1. encoded' = encoded /\ sent' = sent /\ bad' = bad
  OBVIOUS
<1>2. Contiguous'
  BY <1>1 DEF IndInv, Contiguous
<1>3. \A j \in DOMAIN encoded : encoded[j].input <= inputs'
  <2> SUFFICES ASSUME NEW j \in DOMAIN encoded PROVE encoded[j].input <= inputs'
    OBVIOUS
  <2>4. encoded[j].input \in Nat
    BY EncodedRecords
  <2>3. encoded[j].input <= inputs
    BY DEF IndInv, PacketInv
  <2>2. inputs \in Nat /\ inputs' \in Nat
    BY DEF IndInv, TypeOK
  <2> QED
    BY <2>2, <2>3, <2>4
<1>4. PacketInv'
  BY <1>1, <1>3 DEF IndInv, PacketInv, MaxBad
<1> QED
  BY <1>2, <1>4

LEMMA ProcessOutput ==
  ASSUME IndInv, NEW n \in Lengths, NEW pts \in Int, Process(n, pts)
  PROVE  IndInv'
<1>1. /\ n \in Nat /\ 1 <= n /\ n <= Longest
      /\ TypeOK /\ BufferInv /\ SizeBound
      /\ pc = "ready"
      /\ pc' = "encode" /\ inputs' = inputs + 1 /\ used' = 0 /\ used = 0
      /\ size' = Resized(n)
      /\ buffer' = buffer \o [i \in 1..n |-> received + i - 1]
      /\ stamp' = pts - Duration(offset)
      /\ received' = received + n
      /\ UNCHANGED <<encoded, sent, bad>>
  BY Assumptions DEF IndInv, Process, CopyFrame, BufferInv
<1> DEFINE new == [i \in 1..n |-> received + i - 1]
<1>2. new \in Seq(Nat) /\ Len(new) = n
  BY <1>1 DEF TypeOK
<1>3. offset \in Nat /\ offset' = offset + n
  BY <1>1, <1>2 DEF TypeOK, offset
<1>0. /\ received \in Nat /\ inputs \in Nat /\ n \in Nat /\ offset \in Nat
      /\ received' = received + n /\ offset' = offset + n
      /\ inputs' = inputs + 1 /\ inputs' >= inputs
  BY <1>1, <1>3 DEF TypeOK
<1>4. TypeOK'
  <2>1. Duration(offset) \in Nat
    BY <1>3, TicksNat DEF Duration
  <2>2. stamp' \in Int
    BY <1>1, <2>1
  <2>3. Resized(n) \in Nat
    BY <1>1, <1>3 DEF Resized, TypeOK
  <2>4. buffer' \in Seq(Nat)
    BY <1>1, <1>2 DEF TypeOK
  <2> QED
    BY <1>1, <2>2, <2>3, <2>4 DEF TypeOK
<1>5. BufferInv'
  <2>1. ASSUME NEW i \in 1..offset' PROVE buffer'[i] = received' - offset' + i - 1
    <3>1. CASE i <= offset
      <4>1. buffer'[i] = buffer[i]
        BY <1>1, <1>2, <1>3, <3>1 DEF TypeOK, offset
      <4>2. buffer[i] = received - offset + i - 1
        BY <1>1, <1>3, <3>1 DEF BufferInv
      <4> QED
        BY <1>0, <4>1, <4>2
    <3>2. CASE i > offset
      <4>1. i - offset \in 1..n
        BY <1>1, <1>3, <3>2
      <4>2. buffer'[i] = new[i - offset]
        BY <1>1, <1>2, <1>3, <3>2, <4>1 DEF TypeOK, offset
      <4> QED
        BY <1>0, <4>1, <4>2
    <3> QED
      BY <1>3, <3>1, <3>2
  <2>2. Len(encoded') * FrameSize + offset' - used' = received'
    <3>1. Len(encoded) * FrameSize \in Int
      BY <1>1, Assumptions DEF TypeOK
    <3>2. Len(encoded) * FrameSize + offset - 0 = received
      BY <1>1 DEF BufferInv
    <3>3. encoded' = encoded /\ used' = 0
      BY <1>1
    <3>4. Len(encoded) * FrameSize + offset' - 0 = received'
      BY <1>0, <3>1, <3>2
    <3> QED
      BY <3>3, <3>4
  <2>3. used' <= offset' /\ pc' = "encode"
    BY <1>1, <1>3
  <2> QED
    BY <2>1, <2>2, <2>3 DEF BufferInv
<1>6. SizeBound'
  <2>1. offset < FrameSize /\ offset <= size /\ size < FrameSize + 2 * Longest /\ size \in Nat
    BY <1>1 DEF BufferInv, SizeBound, TypeOK
  <2>2. CASE size - offset < n
    BY <1>1, <1>3, <2>1, <2>2, Assumptions DEF Resized, SizeBound
  <2>3. CASE ~(size - offset < n)
    BY <1>1, <1>3, <2>1, <2>3, Assumptions DEF Resized, SizeBound
  <2> QED
    BY <2>2, <2>3
<1>7. Contiguous' /\ PacketInv'
  BY <1>0, <1>1, <1>4, EncodedKept
<1> QED
  BY <1>4, <1>5, <1>6, <1>7 DEF IndInv

LEMMA ReturnOutput == ASSUME IndInv, Return PROVE IndInv'
<1>1. /\ TypeOK /\ BufferInv /\ SizeBound
      /\ offset - used < FrameSize
      /\ buffer' = SubSeq(buffer, used + 1, offset)
      /\ used' = 0 /\ pc' = "ready"
      /\ UNCHANGED <<received, inputs, size, stamp, encoded, sent, bad>>
  BY DEF IndInv, Return
<1>2. /\ offset \in Nat /\ used \in Nat /\ used <= offset
      /\ buffer' \in Seq(Nat) /\ offset' = offset - used
      /\ \A i \in 1..offset' : buffer'[i] = buffer[used + i]
  <2>1. /\ buffer \in Seq(Nat) /\ used \in Nat /\ used <= Len(buffer)
        /\ buffer' = SubSeq(buffer, used + 1, Len(buffer))
    BY <1>1 DEF TypeOK, BufferInv, offset
  <2>2. buffer' \in Seq(Nat) /\ Len(buffer') = Len(buffer) - used
    BY <2>1
  <2>3. \A i \in 1..Len(buffer') : buffer'[i] = buffer[used + i]
    BY <2>1, <2>2
  <2> QED
    BY <2>1, <2>2, <2>3 DEF offset
<1>3. TypeOK'
  BY <1>1, <1>2 DEF TypeOK
<1>4. BufferInv'
  <2>1. Len(encoded) * FrameSize \in Int
    BY <1>1, Assumptions DEF TypeOK
  <2>2. Len(encoded)' * FrameSize + offset' - used' = received'
    BY <1>1, <1>2, <2>1 DEF BufferInv
  <2>3. ASSUME NEW i \in 1..offset' PROVE buffer'[i] = received' - offset' + i - 1
    <3>1. used + i \in 1..offset
      BY <1>2
    <3>2. buffer[used + i] = received - offset + (used + i) - 1
      BY <1>1, <3>1 DEF BufferInv
    <3> QED
      BY <1>1, <1>2, <3>2 DEF TypeOK
  <2> QED
    BY <1>1, <1>2, <2>2, <2>3 DEF BufferInv
<1>5. SizeBound'
  BY <1>1, <1>2 DEF SizeBound, TypeOK
<1>6. Contiguous' /\ PacketInv'
  <2>1. inputs' >= inputs
    BY <1>1 DEF TypeOK
  <2> QED
    BY <1>1, <1>3, <2>1, EncodedKept
<1> QED
  BY <1>3, <1>4, <1>5, <1>6 DEF IndInv

LEMMA FlushOutput == ASSUME IndInv, Flush PROVE IndInv'
BY DEF IndInv, Flush, TypeOK, BufferInv, Contiguous, SizeBound, PacketInv, MaxBad, offset

LEMMA EncodeOutput == ASSUME IndInv, Encode PROVE IndInv'
<1> DEFINE cut == SubSeq(buffer, used + 1, used + FrameSize)
           frame == [samples |-> cut, pts |-> stamp, input |-> inputs]
           count == Len(encoded)
           packet == [frame |-> count + 1 - Delay, info |-> inputs]
<1>1. /\ TypeOK /\ BufferInv /\ Contiguous /\ SizeBound /\ PacketInv
      /\ pc = "encode" /\ offset - used >= FrameSize
      /\ encoded' = Append(encoded, frame)
      /\ used' = used + FrameSize
      /\ stamp' = stamp + Duration(FrameSize)
      /\ UNCHANGED <<pc, received, inputs, buffer, size>>
  BY DEF IndInv, Encode
<1>2. \/ count < Delay /\ sent' = sent /\ bad' = bad
      \/ count >= Delay /\ Libfdk /\ bad < 2 /\ bad' = bad + 1 /\ sent' = sent
      \/ count >= Delay /\ sent' = Append(sent, packet) /\ bad' = bad
  BY Assumptions DEF Encode, Dropped
<1>3. /\ FrameSize \in Nat /\ FrameSize > 0 /\ Delay \in Nat /\ used \in Nat
      /\ offset \in Nat /\ received \in Nat /\ inputs \in Nat /\ bad \in Nat /\ count \in Nat
      /\ offset' = offset
  BY <1>1, Assumptions DEF TypeOK, offset
<1>4. /\ cut \in Seq(Nat) /\ Len(cut) = FrameSize
      /\ \A i \in 1..FrameSize : cut[i] = buffer[used + i]
  <2>1. buffer \in Seq(Nat) /\ used + FrameSize <= Len(buffer)
    BY <1>1, <1>3 DEF TypeOK, offset
  <2> QED
    BY <1>3, <2>1
<1>5. frame \in [samples : Seq(Nat), pts : Int, input : Nat]
  BY <1>1, <1>3, <1>4 DEF TypeOK
<1>6. /\ encoded' \in Seq([samples : Seq(Nat), pts : Int, input : Nat])
      /\ Len(encoded') = count + 1
      /\ DOMAIN encoded = 1..count /\ DOMAIN encoded' = 1..(count + 1)
      /\ \A j \in 1..count : encoded'[j] = encoded[j]
      /\ encoded'[count + 1] = frame
  <2>1. encoded \in Seq([samples : Seq(Nat), pts : Int, input : Nat])
    BY <1>1 DEF TypeOK
  <2> HIDE DEF frame
  <2> QED
    BY <1>1, <1>5, <2>1
<1>7. TypeOK'
  <2>1. stamp' \in Int
    <3>1. Duration(FrameSize) \in Nat
      BY <1>3, TicksNat DEF Duration
    <3> QED
      BY <1>1, <3>1 DEF TypeOK
  <2>2. sent' \in Seq([frame : Nat, info : Nat]) /\ bad' \in Nat
    <3>1. sent \in Seq([frame : Nat, info : Nat])
      BY <1>1 DEF TypeOK
    <3>2. count >= Delay => packet \in [frame : Nat, info : Nat]
      BY <1>3
    <3>3. bad \in Nat /\ bad + 1 \in Nat
      BY <1>3
    <3> HIDE DEF packet, count
    <3>4. CASE sent' = sent
      BY <1>2, <3>1, <3>3, <3>4
    <3>5. CASE count >= Delay /\ sent' = Append(sent, packet) /\ bad' = bad
      BY <3>1, <3>2, <3>3, <3>5
    <3> QED
      BY <1>2, <3>4, <3>5
  <2> QED
    BY <1>1, <1>3, <1>6, <2>1, <2>2 DEF TypeOK
<1>8. BufferInv'
  <2>1. used' <= offset'
    BY <1>1, <1>3
  <2>2. Len(encoded') * FrameSize + offset' - used' = received'
    <3>1. /\ count * FrameSize \in Int
          /\ (count + 1) * FrameSize = count * FrameSize + FrameSize
      BY <1>3, Product
    <3>2. count * FrameSize + offset - used = received
      BY <1>1 DEF BufferInv
    <3>3. (count + 1) * FrameSize + offset - (used + FrameSize) = received
      BY <1>3, <3>1, <3>2
    <3> QED
      BY <1>1, <1>3, <1>6, <3>3
  <2>3. \A i \in 1..offset' : buffer'[i] = received' - offset' + i - 1
    BY <1>1, <1>3 DEF BufferInv
  <2> QED
    BY <1>1, <2>1, <2>2, <2>3 DEF BufferInv
<1>9. SizeBound'
  BY <1>1, <1>3 DEF SizeBound
<1>10. Contiguous'
  <2> SUFFICES ASSUME NEW k \in 1..(count + 1), NEW i \in 1..FrameSize
               PROVE  encoded'[k].samples[i] = (k - 1) * FrameSize + i - 1
    BY <1>6 DEF Contiguous
  <2>1. CASE k <= count
    <3>1. k \in 1..count
      BY <1>3, <2>1
    <3> QED
      BY <1>1, <1>6, <3>1 DEF Contiguous
  <2>2. CASE k = count + 1
    <3>1. encoded'[k].samples[i] = buffer[used + i]
      <4>1. encoded'[k].samples = cut
        BY <1>6, <2>2
      <4> QED
        BY <1>4, <4>1
    <3>2. used + i \in 1..offset
      BY <1>1, <1>3
    <3>3. buffer[used + i] = received - offset + (used + i) - 1
      BY <1>1, <3>2 DEF BufferInv
    <3>4. count * FrameSize + offset - used = received /\ count * FrameSize \in Int
      BY <1>1, <1>3, Product DEF BufferInv
    <3>5. buffer[used + i] = count * FrameSize + i - 1
      BY <1>3, <3>3, <3>4
    <3>6. k - 1 = count
      BY <1>3, <2>2
    <3> QED
      BY <3>1, <3>5, <3>6
  <2> QED
    BY <1>3, <2>1, <2>2
<1>11. PacketInv'
  <2>1. bad' <= MaxBad
    BY <1>1, <1>2, <1>3, Assumptions DEF PacketInv, MaxBad
  <2>2. Len(sent) \in Nat /\ sent \in Seq([frame : Nat, info : Nat])
    BY <1>1 DEF TypeOK
  <2>3. Len(sent') + bad' = IF count + 1 > Delay THEN count + 1 - Delay ELSE 0
    <3>1. Len(sent) + bad = IF count > Delay THEN count - Delay ELSE 0
      BY <1>1 DEF PacketInv
    <3>2. \/ count < Delay /\ Len(sent') = Len(sent) /\ bad' = bad
          \/ count >= Delay /\ Len(sent') + bad' = Len(sent) + bad + 1
      <4> HIDE DEF packet, count
      <4>1. CASE sent' = sent
        BY <1>2, <1>3, <2>2, <4>1
      <4>2. CASE count >= Delay /\ sent' = Append(sent, packet) /\ bad' = bad
        <5>1. Len(sent') = Len(sent) + 1
          BY <2>2, <4>2
        <5> QED
          BY <1>3, <2>2, <4>2, <5>1
      <4> QED
        BY <1>2, <4>1, <4>2
    <3> HIDE DEF count
    <3>3. CASE count < Delay
      BY <1>3, <3>1, <3>2, <3>3
    <3>4. CASE count >= Delay
      BY <1>3, <3>1, <3>2, <3>4
    <3> QED
      BY <1>3, <3>3, <3>4
  <2>4. \A j \in 1..count : encoded[j].input \in Nat /\ encoded[j].input <= inputs
    BY <1>1, <1>6, EncodedRecords DEF PacketInv
  <2>5. encoded'[count + 1].input = inputs
    BY <1>6
  <2>6. \A j \in DOMAIN encoded' : encoded'[j].input <= inputs'
    <3> SUFFICES ASSUME NEW j \in 1..(count + 1) PROVE encoded'[j].input <= inputs
      BY <1>1, <1>6
    <3>1. CASE j \in 1..count
      BY <1>6, <2>4, <3>1
    <3>2. CASE j = count + 1
      BY <1>3, <2>5, <3>2
    <3> QED
      BY <1>3, <3>1, <3>2
  <2>7. \A i, j \in DOMAIN encoded' : i <= j => encoded'[i].input <= encoded'[j].input
    <3> SUFFICES ASSUME NEW i \in 1..(count + 1), NEW j \in 1..(count + 1), i <= j
                 PROVE  encoded'[i].input <= encoded'[j].input
      BY <1>6
    <3>1. CASE j = count + 1
      BY <1>1, <1>6, <2>5, <2>6, <3>1
    <3>2. CASE j \in 1..count
      <4>1. i \in 1..count
        BY <1>3, <3>2
      <4> QED
        BY <1>1, <1>6, <3>2, <4>1 DEF PacketInv
    <3> QED
      BY <1>3, <3>1, <3>2
  <2>8. ASSUME NEW p \in DOMAIN sent'
        PROVE  /\ sent'[p].frame \in DOMAIN encoded'
               /\ sent'[p].frame + Delay \in DOMAIN encoded'
               /\ sent'[p].info = encoded'[sent'[p].frame + Delay].input
    <3>1. CASE p \in DOMAIN sent /\ sent'[p] = sent[p]
      <4>1. /\ sent[p].frame \in 1..count
            /\ sent[p].frame + Delay \in 1..count
            /\ sent[p].info = encoded[sent[p].frame + Delay].input
        BY <1>1, <1>6, <3>1 DEF PacketInv
      <4>2. 1..count \subseteq 1..(count + 1)
        BY <1>3
      <4> QED
        BY <1>6, <3>1, <4>1, <4>2
    <3>2. CASE count >= Delay /\ sent'[p] = packet
      <4>1. /\ packet.frame = count + 1 - Delay /\ packet.info = inputs
            /\ packet.frame + Delay = count + 1
        BY <1>3
      <4>2. packet.frame \in 1..(count + 1)
        BY <1>3, <3>2, <4>1
      <4>3. count + 1 \in 1..(count + 1)
        BY <1>3
      <4> HIDE DEF packet, count
      <4> QED
        BY <1>6, <2>5, <3>2, <4>1, <4>2, <4>3
    <3>3. \/ p \in DOMAIN sent /\ sent'[p] = sent[p]
          \/ count >= Delay /\ sent'[p] = packet
      <4> HIDE DEF packet, count
      <4>1. CASE sent' = sent
        BY <4>1
      <4>2. CASE count >= Delay /\ sent' = Append(sent, packet)
        <5>1. CASE p \in DOMAIN sent
          BY <2>2, <4>2, <5>1
        <5>2. CASE p = Len(sent) + 1
          BY <2>2, <4>2, <5>2
        <5>3. DOMAIN sent' = 1..(Len(sent) + 1) /\ DOMAIN sent = 1..Len(sent)
          BY <2>2, <4>2
        <5> QED
          BY <2>2, <5>1, <5>2, <5>3
      <4> QED
        BY <1>2, <4>1, <4>2
    <3> QED
      BY <3>1, <3>2, <3>3
  <2> QED
    <3>1. Len(sent') + bad' = IF Len(encoded') > Delay THEN Len(encoded') - Delay ELSE 0
      <4>1. Len(encoded') = count + 1
        BY <1>6
      <4> HIDE DEF count
      <4>2. CASE count + 1 > Delay
        BY <1>3, <2>3, <4>1, <4>2
      <4>3. CASE ~(count + 1 > Delay)
        BY <2>3, <4>1, <4>3
      <4> QED
        BY <4>2, <4>3
    <3>2. bad' <= MaxBad'
      BY <2>1 DEF MaxBad
    <3> QED
      BY <2>6, <2>7, <2>8, <3>1, <3>2 DEF PacketInv
<1> QED
  BY <1>7, <1>8, <1>9, <1>10, <1>11 DEF IndInv

-----------------------------------------------------------------------------
(* The input filter and the path.                                          *)

\* The input filter stays in its ranges whatever it does.
LEMMA InputType ==
  ASSUME In!TypeOK, In!Next PROVE In!TypeOK'
<1> USE DEF In!TypeOK
<1>0. In!Call => given' \in Seq(Nat) /\ Len(given') <= MaxCalls
  <2> SUFFICES ASSUME In!Call PROVE given' \in Seq(Nat) /\ Len(given') <= MaxCalls
    OBVIOUS
  <2>1. /\ total \in Nat /\ left \in 0..total /\ given \in Seq(Nat)
        /\ Len(given) < MaxCalls
        /\ given' = Append(given, total - left)
    BY DEF In!Call
  <2>2. total - left \in Nat
    BY <2>1
  <2> QED
    BY <2>1, <2>2, Assumptions
<1>1. CASE \E n \in PacketSizes : In!Process(n)
  BY <1>1, Assumptions DEF In!Process
<1>2. CASE In!DecodeFailure
  BY <1>0, <1>2 DEF In!DecodeFailure
<1>3. CASE In!DecodeNothing
  BY <1>0, <1>3 DEF In!DecodeNothing
<1>4. CASE In!Return
  BY <1>4 DEF In!Return
<1>5. CASE \E len \in 1..total, n \in Lengths : In!DecodeFrame(len, n)
  <2>1. PICK len \in 1..total, n \in Lengths : In!DecodeFrame(len, n)
    BY <1>5
  <2>2. n \in Nat /\ In!Duration(n) \in Nat
    BY Assumptions, TicksNat DEF In!Duration
  <2>3. /\ len <= left /\ left' = left - len
        /\ shift' = shift + In!Duration(n) /\ samples' = samples + n
        /\ UNCHANGED <<ipc, packets, total>>
        /\ given' \in Seq(Nat) /\ Len(given') <= MaxCalls
    BY <1>0, <2>1 DEF In!DecodeFrame
  <2>4. left' \in 0..total /\ shift' \in Nat /\ samples' \in Nat
    BY <2>2, <2>3
  <2> QED
    BY <2>3, <2>4
<1> QED
  BY <1>1, <1>2, <1>3, <1>4, <1>5 DEF In!Next

LEMMA InitPath == PathInit => PathInv
<1> SUFFICES ASSUME PathInit PROVE PathInv
  OBVIOUS
<1>1. IndInv
  BY InitOutput DEF PathInit
<1>2. In!TypeOK
  BY Assumptions DEF PathInit, In!Init, In!TypeOK
<1> QED
  BY <1>1, <1>2 DEF PathInit, PathInv

LEMMA IndInvUnchanged == ASSUME IndInv, UNCHANGED vars PROVE IndInv'
BY DEF vars, IndInv, TypeOK, BufferInv, Contiguous, SizeBound, PacketInv, MaxBad, offset

LEMMA InputUnchanged == ASSUME In!TypeOK, UNCHANGED inputVars PROVE In!TypeOK'
BY DEF inputVars, In!TypeOK

LEMMA PathStep == ASSUME PathInv, [PathNext]_pathVars PROVE PathInv'
<1>1. IndInv /\ In!TypeOK /\ position \in Nat /\ samples \in Nat /\ shift \in Nat
  BY DEF PathInv, In!TypeOK
<1>2. CASE ReadPacket \/ SkipCall
  <2>1. UNCHANGED vars /\ In!Next /\ UNCHANGED position
    BY <1>2 DEF ReadPacket, SkipCall, InputRuns, In!Next
  <2> QED
    BY <1>1, <2>1, IndInvUnchanged, InputType DEF PathInv
<1>3. CASE LosePacket
  <2>1. UNCHANGED vars /\ In!Next /\ \E lost \in Losses : position' = position + samples + lost
    BY <1>3 DEF LosePacket, InputRuns, In!Next
  <2>2. position' \in Nat
    BY <1>1, <2>1, Assumptions
  <2> QED
    BY <1>1, <2>1, <2>2, IndInvUnchanged, InputType DEF PathInv
<1>4. CASE EndPacket
  <2>1. UNCHANGED vars /\ In!Next /\ position' = position + samples
    BY <1>4 DEF EndPacket, InputRuns, In!Next
  <2>2. position' \in Nat
    BY <1>1, <2>1
  <2> QED
    BY <1>1, <2>1, <2>2, IndInvUnchanged, InputType DEF PathInv
<1>5. CASE SendFrame
  <2>1. PICK len \in 1..total, n \in Lengths :
          In!DecodeFrame(len, n) /\ Process(n, Time(position) + shift) /\ UNCHANGED position
    BY <1>5 DEF SendFrame
  <2>2. In!TypeOK'
    BY <1>1, <2>1, InputType DEF In!Next
  <2>3. Time(position) + shift \in Int
    <3>1. Time(position) \in Nat
      BY <1>1, TicksNat DEF Time
    <3> QED
      BY <1>1, <3>1
  <2>4. IndInv'
    BY <1>1, <2>1, <2>3, ProcessOutput
  <2> QED
    BY <1>1, <2>1, <2>2, <2>4 DEF PathInv
<1>6. CASE OutputRuns
  BY <1>1, <1>6, EncodeOutput, ReturnOutput, InputUnchanged DEF OutputRuns, PathInv
<1>7. CASE FlushPath
  BY <1>1, <1>7, FlushOutput, InputUnchanged DEF FlushPath, PathInv
<1>8. CASE UNCHANGED pathVars
  BY <1>1, <1>8, IndInvUnchanged, InputUnchanged DEF pathVars, PathInv
<1> QED
  BY <1>2, <1>3, <1>4, <1>5, <1>6, <1>7, <1>8 DEF PathNext

-----------------------------------------------------------------------------
(* Sums of roundings.                                                      *)

LEMMA Distribute ==
  ASSUME NEW a \in Int, NEW b \in Int, NEW c \in Int
  PROVE  a * b \in Int /\ a * (b + c) = a * b + a * c /\ a * (-b) = -(a * b)
OBVIOUS

\* Dividing a natural number: quotient and rest.
LEMMA Division ==
  ASSUME NEW a \in Nat, NEW u \in Nat, u > 0
  PROVE  /\ a \div u \in Nat /\ a % u \in 0..(u - 1)
         /\ a = u * (a \div u) + (a % u)
<1>1. a \div u \in Int
  OBVIOUS
<1>2. a \div u >= 0
  OBVIOUS
<1>3. a % u \in 0..(u - 1)
  OBVIOUS
<1>4. a = u * (a \div u) + (a % u)
  OBVIOUS
<1> QED
  BY <1>1, <1>2, <1>3, <1>4

\* A duration or a time in ticks is rounded down, by less than a tick.
LEMMA NearRounded == ASSUME NEW n \in Nat PROVE Near((Clock * n) \div Rate, n, 1, 0)
<1>1. Clock * n \in Nat /\ Rate \in Nat /\ Rate > 0
  BY Assumptions
<1> DEFINE q == (Clock * n) \div Rate
           r == (Clock * n) % Rate
<1>3. q \in Nat /\ r \in 0..(Rate - 1) /\ Clock * n = Rate * q + r
  BY <1>1, Division
<1>4. Rate * q \in Int /\ (Rate - 1) * 1 = Rate - 1 /\ (Rate - 1) * 0 = 0
  BY <1>1, <1>3
<1> HIDE DEF q, r
<1>5. Clock * n - (Rate - 1) <= Rate * q /\ Rate * q <= Clock * n
  BY <1>1, <1>3, <1>4
<1>6. Near(q, n, 1, 0)
  BY <1>1, <1>4, <1>5 DEF Near
<1> QED
  BY <1>6 DEF q

\* Times and their errors add up.
LEMMA NearSum ==
  ASSUME NEW t \in Int, NEW p \in Int, NEW b \in Int, NEW a \in Int, Near(t, p, b, a),
         NEW u \in Int, NEW q \in Int, NEW c \in Int, NEW d \in Int, Near(u, q, c, d)
  PROVE  Near(t + u, p + q, b + c, a + d)
<1> DEFINE r == Rate - 1
<1>1. Rate \in Int /\ Clock \in Int /\ r \in Int
  BY Assumptions
<1>2. /\ Clock * (p + q) = Clock * p + Clock * q /\ Clock * p \in Int /\ Clock * q \in Int
      /\ Rate * (t + u) = Rate * t + Rate * u /\ Rate * t \in Int /\ Rate * u \in Int
  BY <1>1, Distribute
<1>3. /\ r * (b + c) = r * b + r * c /\ r * b \in Int /\ r * c \in Int
      /\ r * (a + d) = r * a + r * d /\ r * a \in Int /\ r * d \in Int
  BY <1>1, Distribute
<1>4. /\ Clock * p - r * b <= Rate * t /\ Rate * t <= Clock * p + r * a
      /\ Clock * q - r * c <= Rate * u /\ Rate * u <= Clock * q + r * d
  BY DEF Near
<1> HIDE DEF r
<1>5. /\ Clock * (p + q) - r * (b + c) <= Rate * (t + u)
      /\ Rate * (t + u) <= Clock * (p + q) + r * (a + d)
  BY <1>2, <1>3, <1>4
<1> QED
  BY <1>5 DEF Near, r

\* What is subtracted is ahead by what it was behind.
LEMMA NearMinus ==
  ASSUME NEW t \in Int, NEW p \in Int, NEW b \in Int, NEW a \in Int, Near(t, p, b, a)
  PROVE  Near(-t, -p, a, b)
<1> DEFINE r == Rate - 1
<1>1. Rate \in Int /\ Clock \in Int /\ r \in Int
  BY Assumptions
<1>2. /\ Clock * (-p) = -(Clock * p) /\ Clock * p \in Int
      /\ Rate * (-t) = -(Rate * t) /\ Rate * t \in Int /\ r * b \in Int /\ r * a \in Int
  BY <1>1, Distribute
<1>3. Clock * p - r * b <= Rate * t /\ Rate * t <= Clock * p + r * a
  BY DEF Near
<1> HIDE DEF r
<1>4. Clock * (-p) - r * a <= Rate * (-t) /\ Rate * (-t) <= Clock * (-p) + r * b
  BY <1>2, <1>3
<1> QED
  BY <1>4 DEF Near, r

\* What the errors come to in whole ticks.
LEMMA NearTicks ==
  ASSUME NEW t \in Int, NEW b \in Nat, b > 0, Near(t, 0, b, 2)
  PROVE  -b < t /\ t <= 1
<1>1. Rate \in Nat /\ Rate > 0 /\ Clock \in Nat
  BY Assumptions
<1>2. Clock * 0 = 0
  BY <1>1
<1>3. (Rate - 1) * b = Rate * b - b /\ (Rate - 1) * 2 = 2 * Rate - 2 /\ Rate * b \in Int
  BY <1>1
<1>4. Rate * t \in Int
  BY <1>1
<1>5. -(Rate * b) + b <= Rate * t /\ Rate * t <= 2 * Rate - 2
  BY <1>1, <1>2, <1>3, <1>4 DEF Near
<1>6. ASSUME t <= -b PROVE FALSE
  <2>1. t * Rate <= (-b) * Rate
    BY <1>1, <1>6, ProductMonotone
  <2>2. t * Rate = Rate * t /\ (-b) * Rate = -(Rate * b)
    BY <1>1
  <2> QED
    BY <1>3, <1>4, <1>5, <2>1, <2>2
<1>7. ASSUME 2 <= t PROVE FALSE
  <2>1. 2 * Rate <= t * Rate
    BY <1>1, <1>7, ProductMonotone
  <2>2. t * Rate = Rate * t
    BY <1>1
  <2> QED
    BY <1>1, <1>4, <1>5, <2>1, <2>2
<1> QED
  BY <1>6, <1>7

-----------------------------------------------------------------------------
(* The timestamps: one lemma per action.                                   *)

\* The ranges of what TimeInv computes with.
LEMMA TimeRanges ==
  ASSUME PathInv, TimeInv
  PROVE  /\ received \in Nat /\ inputs \in Nat /\ offset \in Nat /\ used \in Nat /\ used <= offset
         /\ offset <= received /\ stamp \in Int /\ position \in Nat /\ samples \in Nat /\ shift \in Nat
         /\ DOMAIN arrived = 1..inputs /\ DOMAIN encoded = 1..Len(encoded) /\ Len(encoded) \in Nat
         /\ \A m \in 1..inputs : /\ arrived[m].first \in Nat /\ arrived[m].at \in Nat
                                 /\ arrived[m].nth \in Nat /\ arrived[m].nth > 0
         /\ IsFiniteSet({j \in DOMAIN encoded : encoded[j].input = inputs}) /\ Cuts \in Nat
         /\ Decoded \in Nat
<1>1. /\ received \in Nat /\ inputs \in Nat /\ offset \in Nat /\ used \in Nat /\ used <= offset
      /\ stamp \in Int /\ position \in Nat /\ samples \in Nat /\ shift \in Nat
      /\ DOMAIN encoded = 1..Len(encoded) /\ Len(encoded) \in Nat
  BY DEF PathInv, IndInv, TypeOK, BufferInv, In!TypeOK, offset
<1>2. offset <= received
  <2>1. Len(encoded) * FrameSize \in Nat
    BY <1>1, Assumptions
  <2>2. Len(encoded) * FrameSize + offset - used = received
    BY DEF PathInv, IndInv, BufferInv
  <2>3. used = 0 \/ pc = "encode"
    BY DEF PathInv, IndInv, BufferInv
  <2>4. CASE offset = 0
    BY <1>1, <2>4
  <2>5. CASE offset > 0
    <3>1. buffer \in Seq(Nat) /\ 1 \in DOMAIN buffer
      BY <1>1, <2>5 DEF PathInv, IndInv, TypeOK, offset
    <3>2. buffer[1] \in Nat
      BY <3>1
    <3>3. buffer[1] = received - offset + 1 - 1
      BY <1>1, <2>5 DEF PathInv, IndInv, BufferInv
    <3> QED
      BY <1>1, <3>2, <3>3
  <2> QED
    BY <1>1, <2>4, <2>5
<1>3. /\ DOMAIN arrived = 1..inputs
      /\ \A m \in 1..inputs : arrived[m] \in [first : Nat, at : Nat, nth : Nat \ {0}]
  <2>1. arrived \in Seq([first : Nat, at : Nat, nth : Nat \ {0}]) /\ Len(arrived) = inputs
    BY DEF TimeInv
  <2>2. DOMAIN arrived = 1..inputs
    BY <2>1
  <2> QED
    BY <2>1, <2>2, ElementOf
<1>4. IsFiniteSet({j \in DOMAIN encoded : encoded[j].input = inputs}) /\ Cuts \in Nat
  <2>1. IsFiniteSet(1..Len(encoded))
    BY <1>1, FS_Interval
  <2>2. IsFiniteSet({j \in DOMAIN encoded : encoded[j].input = inputs})
    BY <1>1, <2>1, FS_Subset
  <2> QED
    BY <2>2, FS_CardinalityType DEF Cuts
<1>5. Decoded \in Nat
  BY <1>1, <1>3 DEF Decoded, TimeInv
<1> QED
  BY <1>1, <1>2, <1>3, <1>4, <1>5

LEMMA InitTime == PathInit => TimeInv
<1> SUFFICES ASSUME PathInit PROVE TimeInv
  OBVIOUS
<1>1. /\ arrived = <<>> /\ encoded = <<>> /\ inputs = 0 /\ received = 0 /\ position = 0
      /\ ipc = "ready" /\ samples = 0 /\ shift = 0 /\ pc = "ready"
  BY DEF PathInit, Init, In!Init
<1>2. Near(shift, samples, Decoded, 0)
  BY <1>1, Assumptions DEF Near, Decoded
<1>3. /\ arrived \in Seq([first : Nat, at : Nat, nth : Nat \ {0}]) /\ Len(arrived) = inputs
      /\ DOMAIN arrived = {} /\ DOMAIN encoded = {}
  BY <1>1
<1> QED
  BY <1>1, <1>2, <1>3 DEF TimeInv, TimestampKept

\* While no frame arrives and none is encoded, what was counted stays.
LEMMA TimeUnchanged ==
  ASSUME TimeInv, UNCHANGED <<encoded, arrived, inputs>>
  PROVE  TimestampKept' /\ Cuts' = Cuts
BY DEF TimeInv, TimestampKept, Cuts, InCall, Time

\* The input filter on its own: the host's position is moved past the samples decoded,
\* or a packet begins.
LEMMA InputTime ==
  ASSUME PathInv, TimeInv, ReadPacket \/ SkipCall \/ LosePacket \/ EndPacket
  PROVE  TimeInv'
<1>1. /\ UNCHANGED <<encoded, arrived, inputs, received, pc>> /\ pc = "ready"
  BY DEF ReadPacket, SkipCall, LosePacket, EndPacket, InputRuns, vars
<1>2. TimestampKept'
  BY <1>1, TimeUnchanged
<1>3. received \in Nat /\ position \in Nat /\ samples \in Nat /\ shift \in Nat /\ inputs \in Nat
  BY TimeRanges
<1>4. received <= position + (IF ipc = "decode" THEN samples ELSE 0)
  BY DEF TimeInv
<1>5. /\ received' <= position' + (IF ipc' = "decode" THEN samples' ELSE 0)
      /\ samples' > 0 => inputs' > 0
      /\ Near(shift', samples', Decoded', 0)
  <2>1. CASE ReadPacket
    <3>1. ipc = "ready" /\ samples' = 0 /\ shift' = 0 /\ position' = position
      BY <2>1 DEF ReadPacket, In!Process
    <3>2. received' <= position' + (IF ipc' = "decode" THEN samples' ELSE 0)
      BY <1>1, <1>3, <1>4, <3>1
    <3>3. Near(shift', samples', Decoded', 0)
      BY <3>1, Assumptions DEF Near, Decoded
    <3> QED
      BY <3>1, <3>2, <3>3
  <2>2. CASE SkipCall \/ LosePacket \/ EndPacket
    <3>1. /\ ipc = "decode" /\ UNCHANGED <<samples, shift>>
          /\ \/ ipc' = ipc /\ position' = position
             \/ ipc' = "ready" /\ \E lost \in Nat : position' = position + samples + lost
      <4>1. CASE SkipCall
        BY <4>1 DEF SkipCall, In!DecodeNothing, In!Call
      <4>2. CASE LosePacket
        BY <4>2, Assumptions DEF LosePacket, In!DecodeFailure, In!Call
      <4>3. CASE EndPacket
        <5>1. position' = position + samples + 0
          BY <1>3, <4>3 DEF EndPacket
        <5> QED
          BY <4>3, <5>1 DEF EndPacket, In!Return
      <4> QED
        BY <2>2, <4>1, <4>2, <4>3
    <3>2. received' <= position' + (IF ipc' = "decode" THEN samples' ELSE 0)
      BY <1>1, <1>3, <1>4, <3>1
    <3>3. Decoded' = Decoded
      BY <1>1, <3>1 DEF Decoded
    <3> QED
      BY <1>1, <3>1, <3>2, <3>3 DEF TimeInv
  <2> QED
    BY <2>1, <2>2
<1> QED
  BY <1>1, <1>2, <1>5 DEF TimeInv

\* The output filter returns, or is flushed.
LEMMA ReturnTime ==
  ASSUME TimeInv, (Return /\ UNCHANGED <<inputVars, position, arrived>>) \/ FlushPath \/ UNCHANGED pathVars
  PROVE  TimeInv'
<1>1. /\ UNCHANGED <<encoded, arrived, inputs, received, inputVars, position>>
      /\ pc' = "encode" => UNCHANGED <<pc, used, buffer, stamp>>
  BY DEF Return, FlushPath, Flush, pathVars, vars
<1>2. TimestampKept' /\ Cuts' = Cuts
  BY <1>1, TimeUnchanged
<1>3. /\ Decoded' = Decoded /\ UNCHANGED <<ipc, samples, shift>>
      /\ pc' = "encode" => Place' = Place
  BY <1>1 DEF Decoded, Place, inputVars, offset
<1> QED
  BY <1>1, <1>2, <1>3 DEF TimeInv

\* A decoded frame arrives: it is stamped with the packet's pts and the durations of the
\* frames before it, less the duration of what is left over.
LEMMA SendTime ==
  ASSUME PathInv, TimeInv, SendFrame
  PROVE  TimeInv'
<1> DEFINE new == [first |-> received, at |-> position + samples, nth |-> Nth]
           T == [first : Nat, at : Nat, nth : Nat \ {0}]
<1>0. PICK len \in 1..total, n \in Lengths :
        /\ In!DecodeFrame(len, n) /\ Process(n, Time(position) + shift)
        /\ arrived' = Append(arrived, new) /\ UNCHANGED position
  BY DEF SendFrame
<1>1. /\ ipc = "decode" /\ ipc' = ipc /\ pc = "ready" /\ pc' = "encode"
      /\ shift' = shift + In!Duration(n) /\ samples' = samples + n
      /\ received' = received + n /\ inputs' = inputs + 1 /\ used' = 0
      /\ buffer' = buffer \o [i \in 1..n |-> received + i - 1]
      /\ stamp' = (Time(position) + shift) - Duration(offset)
      /\ arrived' = Append(arrived, new) /\ encoded' = encoded /\ position' = position
  <2>1. /\ ipc = "decode" /\ ipc' = ipc
        /\ shift' = shift + In!Duration(n) /\ samples' = samples + n
    BY <1>0 DEF In!DecodeFrame, In!Call
  <2>2. /\ pc = "ready" /\ pc' = "encode"
        /\ received' = received + n /\ inputs' = inputs + 1 /\ used' = 0
        /\ encoded' = encoded
    BY <1>0 DEF Process, CopyFrame
  <2>3. CopyFrame(n, Time(position) + shift)
    BY <1>0 DEF Process
  <2>4. buffer' = buffer \o [i \in 1..n |-> received + i - 1]
    BY <2>3 DEF CopyFrame
  <2>5. stamp' = (Time(position) + shift) - Duration(offset)
    <3> DEFINE pts == Time(position) + shift
    <3>1. CopyFrame(n, pts)
      BY <2>3
    <3> HIDE DEF pts
    <3>2. stamp' = pts - Duration(offset)
      BY <3>1 DEF CopyFrame
    <3> QED
      BY <3>2 DEF pts
  <2>6. arrived' = Append(arrived, new) /\ position' = position
    BY <1>0
  <2> HIDE DEF new
  <2> QED
    BY <2>1, <2>2, <2>4, <2>5, <2>6
<1>2. /\ received \in Nat /\ inputs \in Nat /\ offset \in Nat /\ position \in Nat
      /\ samples \in Nat /\ shift \in Nat /\ Decoded \in Nat
      /\ DOMAIN arrived = 1..inputs /\ n \in Nat /\ n > 0
      /\ \A m \in 1..inputs : arrived[m].nth \in Nat
  BY TimeRanges, Assumptions
<1>3. Nth = Decoded + 1
  BY <1>2 DEF Nth, Decoded, TimeInv
<1>4. new \in T /\ received <= position + samples
  <2>1. received <= position + samples
    BY <1>1 DEF TimeInv
  <2>2. Nth \in Nat \ {0}
    BY <1>2, <1>3
  <2> QED
    BY <1>2, <2>1, <2>2
<1>5. /\ new.first = received /\ new.at = position + samples /\ new.nth = Decoded + 1
  BY <1>3
<1>6. /\ arrived \in Seq(T) /\ Len(arrived) = inputs
  BY DEF TimeInv
<1> HIDE DEF new, T
<1>7. /\ arrived' \in Seq(T) /\ Len(arrived') = inputs' /\ arrived'[inputs'] = new
      /\ DOMAIN arrived' = 1..(inputs + 1) /\ \A m \in 1..inputs : arrived'[m] = arrived[m]
  BY <1>1, <1>2, <1>4, <1>6
<1>8. \A m \in DOMAIN arrived' : arrived'[m].first <= arrived'[m].at
  <2> SUFFICES ASSUME NEW m \in 1..(inputs + 1) PROVE arrived'[m].first <= arrived'[m].at
    BY <1>7
  <2>1. CASE m = inputs + 1
    BY <1>1, <1>4, <1>5, <1>7, <2>1
  <2>2. CASE m \in 1..inputs
    BY <1>2, <1>7, <2>2 DEF TimeInv
  <2> QED
    BY <1>2, <2>1, <2>2
<1>9. \A k \in DOMAIN encoded : encoded[k].input \in 1..inputs
  BY <1>2 DEF TimeInv
<1>10. TimestampKept' /\ \A k \in DOMAIN encoded' : encoded'[k].input \in DOMAIN arrived'
  <2>1. \A k \in DOMAIN encoded : arrived'[encoded[k].input] = arrived[encoded[k].input]
    BY <1>7, <1>9
  <2>2. \A k \in DOMAIN encoded : encoded[k].input \in DOMAIN arrived'
    BY <1>2, <1>7, <1>9
  <2>3. encoded' = encoded
    BY <1>1
  <2>4. TimestampKept
    BY DEF TimeInv
  <2> QED
    BY <2>1, <2>2, <2>3, <2>4 DEF TimestampKept, InCall, Time
<1>11. received' <= position' + samples' /\ samples' > 0 /\ inputs' > 0
  BY <1>1, <1>2, <1>4
<1>12. In!Duration(n) \in Nat /\ Duration(offset) \in Nat /\ Time(position) \in Nat
  BY <1>2, TicksNat DEF In!Duration, Duration, Time
<1>13. Near(shift, samples, Decoded, 0)
  BY DEF TimeInv
<1>14. Near(shift', samples', Decoded', 0)
  <2>1. Near(In!Duration(n), n, 1, 0)
    BY <1>2, NearRounded DEF In!Duration
  <2>2. Near(shift + In!Duration(n), samples + n, Decoded + 1, 0 + 0)
    <3> DEFINE d == In!Duration(n)
               b == Decoded
    <3>1. d \in Int /\ b \in Int /\ shift \in Int /\ samples \in Int /\ n \in Int
          /\ Near(shift, samples, b, 0) /\ Near(d, n, 1, 0)
      BY <1>2, <1>12, <1>13, <2>1
    <3> HIDE DEF d, b
    <3>2. Near(shift + d, samples + n, b + 1, 0 + 0)
      BY <3>1, NearSum
    <3> QED
      BY <3>2 DEF d, b
  <2>3. Decoded' = Decoded + 1
    BY <1>5, <1>7, <1>11 DEF Decoded
  <2> QED
    BY <1>1, <2>2, <2>3
<1>15. Near(stamp', Place', arrived'[inputs'].nth + Cuts', 1)
  <2>1. Near(Time(position), position, 1, 0)
    BY <1>2, NearRounded DEF Time
  <2>2. Near(Time(position) + shift, position + samples, 1 + Decoded, 0 + 0)
    <3> DEFINE t == Time(position)
               b == Decoded
    <3>1. t \in Int /\ b \in Int /\ shift \in Int /\ samples \in Int /\ position \in Int
          /\ Near(t, position, 1, 0) /\ Near(shift, samples, b, 0)
      BY <1>2, <1>12, <1>13, <2>1
    <3> HIDE DEF t, b
    <3>2. Near(t + shift, position + samples, 1 + b, 0 + 0)
      BY <3>1, NearSum
    <3> QED
      BY <3>2 DEF t, b
  <2>3. Near(-Duration(offset), -offset, 0, 1)
    <3>1. Near(Duration(offset), offset, 1, 0)
      BY <1>2, NearRounded DEF Duration
    <3> QED
      BY <1>2, <1>12, <3>1, NearMinus
  <2>4. Near((Time(position) + shift) + (-Duration(offset)), (position + samples) + (-offset),
             (1 + Decoded) + 0, (0 + 0) + 1)
    <3> DEFINE t == Time(position) + shift
               d == -Duration(offset)
               o == -offset
    <3>1. t \in Int /\ d \in Int /\ o \in Int /\ position + samples \in Int /\ 1 + Decoded \in Int
      BY <1>2, <1>12
    <3>2. Near(t, position + samples, 1 + Decoded, 0 + 0) /\ Near(d, o, 0, 1)
      BY <2>2, <2>3
    <3> HIDE DEF t, d, o
    <3>3. Near(t + d, (position + samples) + o, (1 + Decoded) + 0, (0 + 0) + 1)
      BY <3>1, <3>2, NearSum
    <3> QED
      BY <3>3 DEF t, d, o
  <2>5. stamp' = (Time(position) + shift) + (-Duration(offset))
    BY <1>1, <1>2, <1>12
  <2>6. Place' = (position + samples) + (-offset)
    <3>1. offset' = offset + n
      <4> DEFINE frame == [i \in 1..n |-> received + i - 1]
      <4>1. buffer \in Seq(Nat) /\ frame \in Seq(Nat) /\ Len(frame) = n
        BY <1>2 DEF PathInv, IndInv, TypeOK
      <4>2. buffer' = buffer \o frame
        BY <1>1
      <4> HIDE DEF frame
      <4>3. \A s, t \in Seq(Nat) : Len(s \o t) = Len(s) + Len(t)
        OBVIOUS
      <4>4. Len(buffer') = Len(buffer) + n
        BY <4>1, <4>2, <4>3
      <4> QED
        BY <4>4 DEF offset
    <3>2. Place' = arrived'[inputs'].at - arrived'[inputs'].first + received' - offset' + used'
      BY DEF Place
    <3> QED
      BY <1>1, <1>2, <1>5, <1>7, <3>1, <3>2
  <2>7. Cuts' = 0
    <3>1. {j \in DOMAIN encoded' : encoded'[j].input = inputs'} = {}
      BY <1>1, <1>2, <1>9
    <3> QED
      BY <3>1, FS_EmptySet DEF Cuts
  <2>8. arrived'[inputs'].nth + Cuts' = (1 + Decoded) + 0
    BY <1>2, <1>5, <1>7, <2>7
  <2>9. (0 + 0) + 1 = 1
    OBVIOUS
  <2> QED
    BY <2>4, <2>5, <2>6, <2>8, <2>9
<1> QED
  BY <1>1, <1>7, <1>8, <1>10, <1>11, <1>14, <1>15 DEF TimeInv, T

\* A codec frame is cut: its timestamp is near the place of its first sample, and the
\* operating timestamp moves on by a rounded duration.
LEMMA EncodeTime ==
  ASSUME PathInv, TimeInv, Encode, UNCHANGED <<inputVars, position, arrived>>
  PROVE  TimeInv'
<1> DEFINE frame == [samples |-> SubSeq(buffer, used + 1, used + FrameSize),
                     pts |-> stamp, input |-> inputs]
           count == Len(encoded)
           a == arrived[inputs]
           R == [samples : Seq(Nat), pts : Int, input : Nat]
<1>1. /\ pc = "encode" /\ pc' = pc /\ offset - used >= FrameSize
      /\ encoded' = Append(encoded, frame) /\ used' = used + FrameSize
      /\ stamp' = stamp + Duration(FrameSize)
      /\ UNCHANGED <<received, inputs, buffer, arrived, position, samples, shift, ipc>>
  BY DEF Encode, inputVars
<1>2. /\ received \in Nat /\ inputs \in Nat /\ offset \in Nat /\ used \in Nat /\ used <= offset
      /\ offset <= received /\ stamp \in Int
      /\ DOMAIN arrived = 1..inputs /\ DOMAIN encoded = 1..count /\ count \in Nat
      /\ Cuts \in Nat /\ IsFiniteSet({j \in DOMAIN encoded : encoded[j].input = inputs})
      /\ FrameSize \in Nat /\ FrameSize > 0
  BY TimeRanges, Assumptions
<1>3. inputs > 0 /\ Near(stamp, Place, a.nth + Cuts, 1)
  BY <1>1 DEF TimeInv
<1>4. a.first \in Nat /\ a.at \in Nat /\ a.nth \in Nat /\ a.nth > 0 /\ a.first <= a.at
  <2>1. inputs \in 1..inputs
    BY <1>2, <1>3
  <2> QED
    BY <1>2, <2>1, TimeRanges DEF TimeInv
<1>5. Place \in Nat /\ Place = a.at - a.first + received - offset + used
  <2>1. Place = a.at - a.first + received - offset + used
    BY DEF Place
  <2> HIDE DEF a
  <2> QED
    BY <1>2, <1>4, <2>1
<1>6. buffer \in Seq(Nat) /\ encoded \in Seq(R)
  BY DEF PathInv, IndInv, TypeOK
<1>7. frame \in R /\ frame.pts = stamp /\ frame.input = inputs
      /\ frame.samples[1] = received - offset + used
  <2>1. used + FrameSize <= Len(buffer)
    BY <1>1, <1>2 DEF offset
  <2> DEFINE cut == SubSeq(buffer, used + 1, used + FrameSize)
  <2>2. cut \in Seq(Nat) /\ cut[1] = buffer[used + 1]
    <3>1. buffer \in Seq(Nat) /\ used \in Nat /\ FrameSize \in Nat /\ FrameSize > 0
          /\ used + FrameSize <= Len(buffer)
      BY <1>2, <1>6, <2>1
    <3> QED
      BY <3>1
  <2>3. buffer[used + 1] = received - offset + (used + 1) - 1
    BY <1>1, <1>2 DEF PathInv, IndInv, BufferInv
  <2>4. frame.samples = cut /\ frame.pts = stamp /\ frame.input = inputs
    OBVIOUS
  <2>5. frame \in R
    BY <1>2, <2>2
  <2> HIDE DEF frame, R, cut
  <2> QED
    BY <1>2, <2>2, <2>3, <2>4, <2>5
<1> HIDE DEF frame, R
<1>8. /\ DOMAIN encoded' = 1..(count + 1) /\ encoded'[count + 1] = frame
      /\ \A j \in 1..count : encoded'[j] = encoded[j]
  BY <1>1, <1>2, <1>6, <1>7
<1>9. Near(stamp', Place', a.nth + Cuts + 1, 1)
  <2>1. Near(Duration(FrameSize), FrameSize, 1, 0) /\ Duration(FrameSize) \in Nat
    BY <1>2, NearRounded, TicksNat DEF Duration
  <2>2. Near(stamp + Duration(FrameSize), Place + FrameSize, (a.nth + Cuts) + 1, 1 + 0)
    <3> DEFINE b == a.nth + Cuts
               d == Duration(FrameSize)
               q == Place
    <3>1. b \in Int /\ d \in Int /\ q \in Int /\ stamp \in Int /\ FrameSize \in Int
          /\ Near(stamp, q, b, 1) /\ Near(d, FrameSize, 1, 0)
      BY <1>2, <1>3, <1>4, <1>5, <2>1
    <3> HIDE DEF b, d, q
    <3>2. Near(stamp + d, q + FrameSize, b + 1, 1 + 0)
      BY <3>1, NearSum
    <3> QED
      BY <3>2 DEF b, d, q
  <2>3. Place' = Place + FrameSize
    <3>1. Place' = arrived'[inputs'].at - arrived'[inputs'].first + received' - offset' + used'
      BY DEF Place
    <3>2. Place' = a.at - a.first + received - offset + (used + FrameSize)
      BY <1>1, <3>1 DEF offset
    <3> HIDE DEF a
    <3> QED
      BY <1>2, <1>4, <1>5, <3>2
  <2> QED
    BY <1>1, <2>2, <2>3
<1>10. Cuts' = Cuts + 1
  <2> DEFINE old == {j \in DOMAIN encoded : encoded[j].input = inputs}
  <2>1. {j \in 1..(count + 1) : encoded'[j].input = inputs} = old \union {count + 1}
    BY <1>2, <1>7, <1>8
  <2>2. count + 1 \notin old
    BY <1>2
  <2>3. Cardinality(old \union {count + 1}) = Cardinality(old) + 1
    BY <1>2, <2>2, FS_AddElement
  <2> QED
    BY <1>1, <1>8, <2>1, <2>3 DEF Cuts
<1>11. ASSUME NEW k \in 1..(count + 1)
       PROVE  LET f == arrived'[encoded'[k].input]
                  error == encoded'[k].pts - Time(f.at + encoded'[k].samples[1] - f.first)
              IN  1 - f.nth - InCall(k)' < error /\ error <= 1
  <2>1. CASE k \in 1..count
    <3>1. {j \in 1..k : encoded'[j].input = encoded'[k].input}
            = {j \in 1..k : encoded[j].input = encoded[k].input}
      BY <1>2, <1>8, <2>1
    <3>2. InCall(k)' = InCall(k)
      BY <3>1 DEF InCall
    <3>3. TimestampKept
      BY DEF TimeInv
    <3>4. encoded'[k] = encoded[k] /\ k \in DOMAIN encoded /\ arrived' = arrived
      BY <1>1, <1>2, <1>8, <2>1
    <3> QED
      BY <3>2, <3>3, <3>4 DEF TimestampKept
  <2>2. CASE k = count + 1
    <3>1. InCall(k)' = Cuts + 1
      BY <1>1, <1>7, <1>8, <1>10, <2>2 DEF InCall, Cuts
    <3>2. a.at + frame.samples[1] - a.first = Place
      <4> HIDE DEF a
      <4> QED
        BY <1>2, <1>4, <1>5, <1>7
    <3>3. Near(-Time(Place), -Place, 0, 1) /\ Time(Place) \in Nat
      <4>1. Near(Time(Place), Place, 1, 0) /\ Time(Place) \in Nat
        BY <1>5, NearRounded, TicksNat DEF Time
      <4> QED
        BY <1>5, <4>1, NearMinus
    <3> DEFINE t == -Time(Place)
               q == -Place
               b == a.nth + Cuts
               l == Place
    <3>4. t \in Int /\ q \in Int /\ b \in Nat /\ b > 0 /\ b + 0 = b /\ l + q = 0 /\ 1 + 1 = 2
          /\ l \in Int /\ stamp \in Int
      <4>1. b \in Nat /\ b > 0 /\ b + 0 = b
        <5> HIDE DEF a
        <5> QED
          BY <1>2, <1>4
      <4>2. t \in Int /\ q \in Int /\ l \in Int /\ l + q = 0 /\ stamp \in Int
        BY <1>2, <1>5, <3>3
      <4> QED
        BY <4>1, <4>2
    <3>5. Near(stamp, l, b, 1) /\ Near(t, q, 0, 1)
      BY <1>3, <3>3
    <3> HIDE DEF t, q, b, l
    <3>6. Near(stamp + t, l + q, b + 0, 1 + 1)
      BY <3>4, <3>5, NearSum
    <3>7. Near(stamp + t, 0, b, 2) /\ stamp + t \in Int
      BY <1>2, <3>4, <3>6
    <3>8. -b < stamp + t /\ stamp + t <= 1
      BY <3>4, <3>7, NearTicks
    <3>9. stamp + t = stamp - Time(Place) /\ -b = 1 - a.nth - (Cuts + 1)
      <4>1. stamp + t = stamp - Time(Place)
        BY <1>2, <3>3 DEF t
      <4>2. -b = 1 - a.nth - (Cuts + 1)
        <5>1. a.nth \in Int /\ Cuts \in Int
          BY <1>2, <1>4
        <5>2. \A m, n \in Int : -(m + n) = 1 - m - (n + 1)
          OBVIOUS
        <5>3. b = a.nth + Cuts
          BY DEF b
        <5> HIDE DEF a, b
        <5> QED
          BY <5>1, <5>2, <5>3
      <4> QED
        BY <4>1, <4>2
    <3>10. 1 - a.nth - (Cuts + 1) < stamp - Time(Place) /\ stamp - Time(Place) <= 1
      BY <3>8, <3>9
    <3>11. encoded'[k] = frame /\ arrived'[encoded'[k].input] = a
      BY <1>1, <1>7, <1>8, <2>2
    <3> QED
      BY <1>7, <3>1, <3>2, <3>10, <3>11
  <2> QED
    BY <1>2, <2>1, <2>2
<1>12. TimestampKept'
  BY <1>8, <1>11 DEF TimestampKept, Time
<1>13. \A k \in DOMAIN encoded' : encoded'[k].input \in DOMAIN arrived'
  <2> SUFFICES ASSUME NEW k \in 1..(count + 1) PROVE encoded'[k].input \in 1..inputs
    BY <1>1, <1>2, <1>8
  <2>1. CASE k \in 1..count
    BY <1>2, <1>8, <2>1 DEF TimeInv
  <2>2. CASE k = count + 1
    BY <1>2, <1>3, <1>7, <1>8, <2>2
  <2> QED
    BY <1>2, <2>1, <2>2
<1>14. Decoded' = Decoded /\ arrived'[inputs'].nth + Cuts' = a.nth + Cuts + 1
  <2>1. Decoded' = Decoded /\ arrived'[inputs'] = a
    BY <1>1 DEF Decoded
  <2> HIDE DEF a
  <2> QED
    BY <1>2, <1>4, <1>10, <2>1
<1> QED
  BY <1>1, <1>9, <1>12, <1>13, <1>14 DEF TimeInv

LEMMA TimeStep == PathInv /\ TimeInv /\ [PathNext]_pathVars => TimeInv'
BY InputTime, SendTime, EncodeTime, ReturnTime DEF PathNext, OutputRuns

-----------------------------------------------------------------------------
(* The theorems.                                                           *)

\* The inductive invariant of the audio path: buffer, packets and ranges of
\* both filters (audio_encoded_input.c, audio_encoded_output.c).
THEOREM Invariant == PathSpec => []PathInv
<1> QED
  BY InitPath, PathStep, PTL DEF PathSpec

\* Whatever the lengths of the decoded frames and whatever the decoder fails
\* on, the codec frames are the decoded samples in order, without a gap.
THEOREM ContiguousCorrect == PathSpec => []Contiguous
<1>1. PathInv => Contiguous
  BY DEF PathInv, IndInv
<1> QED
  BY <1>1, Invariant, PTL

\* Samples are never copied past the end of the operating buffer, and its size
\* has a bound (resize_buffer).
THEOREM SizeBoundCorrect == PathSpec => []SizeBound
<1>1. PathInv => SizeBound
  BY DEF PathInv, IndInv
<1> QED
  BY <1>1, Invariant, PTL

\* A packet's info is that of an input frame at most `Delay` codec frames after
\* the one that completed its samples.
THEOREM InfoNearCorrect == PathSpec => []InfoNear
<1>1. PathInv => InfoNear
  <2> SUFFICES ASSUME PathInv, NEW p \in DOMAIN sent
               PROVE  /\ encoded[sent[p].frame].input <= sent[p].info
                      /\ sent[p].info <= encoded[sent[p].frame + Delay].input
    BY DEF InfoNear
  <2> DEFINE k == sent[p].frame
  <2>1. /\ k \in DOMAIN encoded /\ k + Delay \in DOMAIN encoded
        /\ sent[p].info = encoded[k + Delay].input
        /\ \A i, j \in DOMAIN encoded : i <= j => encoded[i].input <= encoded[j].input
    BY DEF PathInv, IndInv, PacketInv
  <2>2. k \in Int /\ k <= k + Delay
    <3>1. DOMAIN encoded = 1..Len(encoded) /\ Len(encoded) \in Nat
      BY DEF PathInv, IndInv, TypeOK
    <3> QED
      BY <2>1, <3>1, Assumptions
  <2>3. encoded[k + Delay].input \in Nat
    BY <2>1, EncodedRecords DEF PathInv
  <2> QED
    BY <2>1, <2>2, <2>3
<1> QED
  BY <1>1, Invariant, PTL

\* A flush loses less than the encoder's delay, the dropped packets of libfdk
\* and one codec frame (audio_encoded_output.c:127).
THEOREM FlushLossCorrect == PathSpec => []FlushLoss
<1>1. ASSUME PathInv, pc = "flushed"
      PROVE  received - Len(sent) * FrameSize < FrameSize * (1 + Delay + MaxBad)
  <2> DEFINE e == Len(encoded)
             s == Len(sent)
  <2>1. /\ e \in Nat /\ s \in Nat /\ received \in Nat /\ offset \in Nat /\ bad \in Nat
        /\ FrameSize \in Nat /\ Delay \in Nat /\ MaxBad \in Nat
    BY <1>1, Assumptions DEF PathInv, IndInv, TypeOK, MaxBad, offset
  <2>2. /\ e * FrameSize + offset = received
        /\ offset < FrameSize
    <3>1. used = 0 /\ offset < FrameSize /\ e * FrameSize + offset - used = received
      BY <1>1 DEF PathInv, IndInv, BufferInv
    <3>2. e * FrameSize \in Int
      BY <2>1, Product
    <3> QED
      BY <2>1, <3>1, <3>2
  <2>3. e + 1 - s <= 1 + Delay + MaxBad
    <3>1. bad <= MaxBad /\ s + bad = IF e > Delay THEN e - Delay ELSE 0
      BY <1>1 DEF PathInv, IndInv, PacketInv
    <3> HIDE DEF e, s
    <3> QED
      BY <2>1, <3>1
  <2> HIDE DEF e, s
  <2>4. (e + 1 - s) * FrameSize <= (1 + Delay + MaxBad) * FrameSize
    BY <2>1, <2>3, ProductMonotone
  <2>5. /\ (e + 1 - s) * FrameSize = e * FrameSize + FrameSize - s * FrameSize
        /\ e * FrameSize \in Int /\ s * FrameSize \in Int
    BY <2>1
  <2>6. /\ (1 + Delay + MaxBad) * FrameSize = FrameSize * (1 + Delay + MaxBad)
        /\ FrameSize * (1 + Delay + MaxBad) \in Int
    BY <2>1
  <2>7. received - s * FrameSize < FrameSize * (1 + Delay + MaxBad)
    BY <2>1, <2>2, <2>4, <2>5, <2>6
  <2> QED
    BY <2>7 DEF s
<1>2. PathInv => FlushLoss
  BY <1>1 DEF FlushLoss
<1> QED
  BY <1>2, Invariant, PTL

\* The pts and the operating timestamp keep up with the host's stream.
THEOREM TimeInvariant == PathSpec => []TimeInv
<1> QED
  BY InitTime, TimeStep, Invariant, PTL DEF PathSpec

\* The pts a codec frame is given is the time of its first sample in the host's stream,
\* but for less than a tick for every rounding on its way; however long the stream,
\* no rounding of an earlier packet is left in it.
THEOREM TimestampKeptCorrect == PathSpec => []TimestampKept
<1>1. TimeInv => TimestampKept
  BY DEF TimeInv
<1> QED
  BY <1>1, TimeInvariant, PTL
=============================================================================
