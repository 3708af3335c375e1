--------------------------- MODULE DetectorsProofs ---------------------------
(***************************************************************************)
(* The hysteresis of Detectors for every frame size, word, percentage,     *)
(* noise threshold, duration and rate: whatever IsBlack and IsSilence make *)
(* of the frames, overflow included, the flag follows as its properties    *)
(* say.                                                                    *)
(***************************************************************************)
EXTENDS Detectors, TLAPS

\* A natural number divided by a positive one is a natural number.
LEMMA QuotientIsNat ==
  ASSUME NEW a \in Nat, NEW b \in Nat \ {0}
  PROVE  a \div b \in Nat
  OBVIOUS

\* The product of natural numbers is one.
LEMMA ProductIsNat ==
  ASSUME NEW a \in Nat, NEW b \in Nat
  PROVE  a * b \in Nat
  OBVIOUS

\* The durations, in frames and in samples, are natural numbers (do_init).
LEMMA ThresholdsAreNat == OnThreshold \in Nat /\ OffThreshold \in Nat
<1>1. ASSUME NEW millis \in Nat PROVE FramesIn(millis) \in Nat
  <2>1. millis * RateNum \in Nat /\ 1000 * RateDen \in Nat \ {0}
    BY <1>1, ConstantsAssumption
  <2>2. QED BY <2>1, QuotientIsNat DEF FramesIn
<1>2. ASSUME NEW millis \in Nat PROVE SamplesIn(millis) \in Nat
  <2>1. SampleRate \in Nat /\ Channels \in Nat BY ConstantsAssumption
  <2>2. millis * SampleRate \in Nat BY <1>2, <2>1, ProductIsNat
  <2>3. millis * SampleRate * Channels \in Nat BY <2>1, <2>2, ProductIsNat
  <2>4. QED BY <2>3, QuotientIsNat DEF SamplesIn
<1>3. BlackMillis \in Nat /\ NonBlackMillis \in Nat /\ SilenceMillis \in Nat /\ NoiseMillis \in Nat
  BY ConstantsAssumption
<1>4. QED BY <1>1, <1>2, <1>3 DEF OnThreshold, OffThreshold

\* The bound on the histories leaves alone every count the thresholds are
\* compared with.
LEMMA CapBounds ==
  ASSUME NEW n \in Nat
  PROVE  /\ Cap(n) \in Nat
         /\ Cap(n) <= n
         /\ Cap(n) = n \/ (Cap(n) > OnThreshold /\ Cap(n) > OffThreshold)
  BY ThresholdsAreNat DEF Cap

\* A frame is considered to be of the kind or not.
LEMMA IsOnIsBoolean == ASSUME NEW f PROVE IsOn(f) \in BOOLEAN
<1>1. IsBlack(f) \in BOOLEAN BY DEF IsBlack
<1>2. IsSilence(f) \in BOOLEAN
  <2>1. CASE detector = "integer" BY <2>1 DEF IsSilence
  <2>2. CASE detector # "integer" BY <2>2 DEF IsSilence
  <2>3. QED BY <2>1, <2>2
<1>3. QED BY <1>1, <1>2, Zenon DEF IsOn

\* The end of the program leaves the filter as it is.
Ends == UNCHANGED <<detector, onCounter, offCounter, flag, last, considered, run, opposed>>

\* A picture counts for one frame, an audio frame for its samples; or the program
\* ends.
LEMMA StepIsCount ==
  ASSUME Next, ~Ends
  PROVE  \E f \in Frame :
           /\ Record(f)
           /\ \/ IsOn(f) = TRUE /\ CountOn(f.weight)
              \/ IsOn(f) = FALSE /\ CountOff(f.weight)
<1>1. ASSUME NEW n \in DarkCounts, BlackFrame(Picture(n)) \/ NonBlackFrame(Picture(n))
      PROVE  /\ Picture(n) \in Frame /\ Picture(n).weight = 1
             /\ Record(Picture(n))
             /\ \/ IsOn(Picture(n)) = TRUE /\ CountOn(1)
                \/ IsOn(Picture(n)) = FALSE /\ CountOff(1)
  <2>1. Picture(n) \in Frame /\ Picture(n).weight = 1
    <3>1. n \in Nat BY <1>1, ConstantsAssumption
    <3>2. QED BY <3>1 DEF Picture, Frame
  <2>2. IsOn(Picture(n)) \in BOOLEAN BY IsOnIsBoolean
  <2>3. QED BY <1>1, <2>1, <2>2 DEF BlackFrame, NonBlackFrame, IsOn
<1>2. ASSUME NEW f \in AudioFrames, SilentFrame(f) \/ NoiseFrame(f)
      PROVE  /\ f \in Frame
             /\ Record(f)
             /\ \/ IsOn(f) = TRUE /\ CountOn(f.weight)
                \/ IsOn(f) = FALSE /\ CountOff(f.weight)
  <2>1. f \in Frame BY <1>2, ConstantsAssumption
  <2>2. IsOn(f) \in BOOLEAN BY IsOnIsBoolean
  <2>3. detector # "black" BY <1>2 DEF SilentFrame, NoiseFrame
  <2>4. QED BY <1>2, <2>1, <2>2, <2>3 DEF SilentFrame, NoiseFrame, IsOn
<1>3. ~(\E f \in AudioFrames : DivideByZero(f)) BY DEF DivideByZero, Ends
<1>4. QED BY <1>1, <1>2, <1>3 DEF Next

\* The filter starts with the flag set and both counters at zero (init).
LEMMA InitCountInv == Init => CountInv
<1>1. ASSUME Init PROVE CountInv
  <2>1. OnThreshold \in Nat /\ OffThreshold \in Nat BY ThresholdsAreNat
  <2>2. last \in Frame BY <1>1 DEF Init, Frame
  <2>3. {ended, flag, considered} \subseteq BOOLEAN BY <1>1, Zenon DEF Init
  <2>4. QED BY <1>1, <2>1, <2>2, <2>3 DEF Init, CountInv, TypeOK, RunCounted, Opposition
<1>2. QED BY <1>1

\* The thresholds belong to the filter.
LEMMA ThresholdsFixed ==
  ASSUME detector' = detector
  PROVE  OnThreshold' = OnThreshold /\ OffThreshold' = OffThreshold
  BY DEF OnThreshold, OffThreshold

\* What the histories become, with the bounds that matter.
LEMMA RecordBounds ==
  ASSUME CountInv, NEW f \in Frame, Record(f)
  PROVE  /\ detector' = detector /\ ended' = ended /\ detector \in {"black", "integer", "float"}
         /\ last' = f /\ considered' = IsOn(f)
         /\ run' \in Nat
         /\ run' <= f.weight \/ (considered = IsOn(f) /\ run' <= run + f.weight)
         /\ opposed' \in Nat
         /\ flag' = flag /\ IsOn(f) # flag =>
              \/ opposed' = opposed + f.weight
              \/ opposed' > OnThreshold /\ opposed' > OffThreshold
         /\ flag' = flag /\ IsOn(f) = flag => opposed' = opposed
<1>1. f.weight \in Nat /\ run \in Nat /\ opposed \in Nat
  BY DEF CountInv, TypeOK, Frame
<1>2. /\ Cap(run + f.weight) \in Nat /\ Cap(run + f.weight) <= run + f.weight
      /\ Cap(opposed + f.weight) \in Nat
      /\ \/ Cap(opposed + f.weight) = opposed + f.weight
         \/ Cap(opposed + f.weight) > OnThreshold /\ Cap(opposed + f.weight) > OffThreshold
  <2>1. run + f.weight \in Nat /\ opposed + f.weight \in Nat BY <1>1
  <2>2. QED BY <2>1, CapBounds
<1>3. (run' = Cap(run + f.weight) /\ IsOn(f) = considered) \/ run' = f.weight
  BY DEF Record
<1>4. /\ flag' # flag => opposed' = 0
      /\ flag' = flag /\ IsOn(f) # flag => opposed' = Cap(opposed + f.weight)
      /\ flag' = flag /\ IsOn(f) = flag => opposed' = opposed
  BY DEF Record
<1>5. opposed' \in Nat BY <1>1, <1>2, <1>4
<1>6. detector' = detector /\ ended' = ended /\ detector \in {"black", "integer", "float"} /\ last' = f /\ considered' = IsOn(f)
  BY DEF Record, CountInv, TypeOK
<1>7. QED BY <1>1, <1>2, <1>3, <1>4, <1>5, <1>6

\* A frame of the kind keeps the invariant.
LEMMA CountOnInv ==
  ASSUME CountInv, NEW f \in Frame, Record(f), IsOn(f) = TRUE, CountOn(f.weight)
  PROVE  CountInv'
<1>1. OnThreshold \in Nat /\ OffThreshold \in Nat BY ThresholdsAreNat
<1>2. OnThreshold' = OnThreshold /\ OffThreshold' = OffThreshold
  BY RecordBounds, ThresholdsFixed
<1>3. f.weight \in Nat BY DEF Frame
<1>4. /\ onCounter \in 0..OnThreshold /\ offCounter \in 0..OffThreshold
      /\ run \in Nat /\ opposed \in Nat
  BY DEF CountInv, TypeOK
<1>5. /\ considered' = TRUE /\ last' \in Frame /\ run' \in Nat /\ opposed' \in Nat
      /\ detector' \in {"black", "integer", "float"}
  BY RecordBounds
<1>6. CASE onCounter + f.weight > OnThreshold
  <2>1. onCounter' = 0 /\ offCounter' = 0 /\ flag' = TRUE
    BY <1>6 DEF CountOn
  <2>2. {ended', flag', considered'} \subseteq BOOLEAN
    BY <2>1, <1>5, RecordBounds, Zenon DEF CountInv, TypeOK
  <2>3. TypeOK' BY <1>1, <1>2, <1>5, <2>1, <2>2 DEF TypeOK
  <2>4. RunCounted' /\ Opposition' BY <1>5, <2>1 DEF RunCounted, Opposition
  <2>5. QED BY <2>3, <2>4 DEF CountInv
<1>7. CASE ~(onCounter + f.weight > OnThreshold)
  <2>1. onCounter' = onCounter + f.weight /\ offCounter' = offCounter /\ flag' = flag
    BY <1>7 DEF CountOn
  <2>2. {ended', flag', considered'} \subseteq BOOLEAN
    BY <2>1, <1>5, RecordBounds, Zenon DEF CountInv, TypeOK
  <2>3. TypeOK' BY <1>1, <1>2, <1>3, <1>4, <1>5, <1>7, <2>1, <2>2 DEF TypeOK
  <2>4. RunCounted'
    <3>1. considered = TRUE /\ flag = FALSE => run <= onCounter
      BY DEF CountInv, RunCounted
    <3>2. run' <= f.weight \/ (considered = TRUE /\ run' <= run + f.weight)
      BY RecordBounds
    <3>3. flag = FALSE => run' <= onCounter + f.weight
      BY <1>1, <1>3, <1>4, <1>5, <3>1, <3>2
    <3>4. QED BY <1>5, <2>1, <3>3 DEF RunCounted
  <2>5. Opposition'
    <3>1. CASE flag = FALSE
      <4>1. onCounter <= opposed BY <3>1 DEF CountInv, Opposition
      <4>2. opposed' = opposed + f.weight \/ opposed' > OnThreshold
        BY RecordBounds, <2>1, <3>1
      <4>3. onCounter + f.weight <= opposed'
        BY <1>1, <1>3, <1>4, <1>5, <1>7, <4>1, <4>2
      <4>4. QED BY <2>1, <3>1, <4>3 DEF Opposition
    <3>2. CASE flag = TRUE
      <4>1. offCounter <= opposed BY <3>2 DEF CountInv, Opposition
      <4>2. opposed' = opposed BY RecordBounds, <2>1, <3>2
      <4>3. QED BY <2>1, <3>2, <4>1, <4>2 DEF Opposition
    <3>3. QED BY <3>1, <3>2, Zenon DEF CountInv, TypeOK
  <2>6. QED BY <2>3, <2>4, <2>5 DEF CountInv
<1>8. QED BY <1>6, <1>7

\* A frame not of the kind keeps the invariant.
LEMMA CountOffInv ==
  ASSUME CountInv, NEW f \in Frame, Record(f), IsOn(f) = FALSE, CountOff(f.weight)
  PROVE  CountInv'
<1>1. OnThreshold \in Nat /\ OffThreshold \in Nat BY ThresholdsAreNat
<1>2. OnThreshold' = OnThreshold /\ OffThreshold' = OffThreshold
  BY RecordBounds, ThresholdsFixed
<1>3. f.weight \in Nat BY DEF Frame
<1>4. /\ onCounter \in 0..OnThreshold /\ offCounter \in 0..OffThreshold
      /\ run \in Nat /\ opposed \in Nat
  BY DEF CountInv, TypeOK
<1>5. /\ considered' = FALSE /\ last' \in Frame /\ run' \in Nat /\ opposed' \in Nat
      /\ detector' \in {"black", "integer", "float"}
  BY RecordBounds
<1>6. CASE offCounter + f.weight > OffThreshold
  <2>1. onCounter' = 0 /\ offCounter' = 0 /\ flag' = FALSE
    BY <1>6 DEF CountOff
  <2>2. {ended', flag', considered'} \subseteq BOOLEAN
    BY <2>1, <1>5, RecordBounds, Zenon DEF CountInv, TypeOK
  <2>3. TypeOK' BY <1>1, <1>2, <1>5, <2>1, <2>2 DEF TypeOK
  <2>4. RunCounted' /\ Opposition' BY <1>5, <2>1 DEF RunCounted, Opposition
  <2>5. QED BY <2>3, <2>4 DEF CountInv
<1>7. CASE ~(offCounter + f.weight > OffThreshold)
  <2>1. offCounter' = offCounter + f.weight /\ onCounter' = onCounter /\ flag' = flag
    BY <1>7 DEF CountOff
  <2>2. {ended', flag', considered'} \subseteq BOOLEAN
    BY <2>1, <1>5, RecordBounds, Zenon DEF CountInv, TypeOK
  <2>3. TypeOK' BY <1>1, <1>2, <1>3, <1>4, <1>5, <1>7, <2>1, <2>2 DEF TypeOK
  <2>4. RunCounted'
    <3>1. considered = FALSE /\ flag = TRUE => run <= offCounter
      BY DEF CountInv, RunCounted
    <3>2. run' <= f.weight \/ (considered = FALSE /\ run' <= run + f.weight)
      BY RecordBounds
    <3>3. flag = TRUE => run' <= offCounter + f.weight
      BY <1>1, <1>3, <1>4, <1>5, <3>1, <3>2
    <3>4. QED BY <1>5, <2>1, <3>3 DEF RunCounted
  <2>5. Opposition'
    <3>1. CASE flag = TRUE
      <4>1. offCounter <= opposed BY <3>1 DEF CountInv, Opposition
      <4>2. opposed' = opposed + f.weight \/ opposed' > OffThreshold
        BY RecordBounds, <2>1, <3>1
      <4>3. offCounter + f.weight <= opposed'
        BY <1>1, <1>3, <1>4, <1>5, <1>7, <4>1, <4>2
      <4>4. QED BY <2>1, <3>1, <4>3 DEF Opposition
    <3>2. CASE flag = FALSE
      <4>1. onCounter <= opposed BY <3>2 DEF CountInv, Opposition
      <4>2. opposed' = opposed BY RecordBounds, <2>1, <3>2
      <4>3. QED BY <2>1, <3>2, <4>1, <4>2 DEF Opposition
    <3>3. QED BY <3>1, <3>2, Zenon DEF CountInv, TypeOK
  <2>6. QED BY <2>3, <2>4, <2>5 DEF CountInv
<1>8. QED BY <1>6, <1>7

\* The invariant holds in every reachable state of either filter.
THEOREM Invariant == Spec => []CountInv
<1>1. ASSUME CountInv, [Next]_vars PROVE CountInv'
  <2>1. CASE Next /\ ~Ends BY <1>1, <2>1, StepIsCount, CountOnInv, CountOffInv
  <2>2. CASE Ends
    <3>1. ended' \in BOOLEAN
      <4>1. ended' = ended \/ ended' = TRUE
        BY <1>1 DEF Next, vars, BlackFrame, NonBlackFrame, SilentFrame, NoiseFrame, DivideByZero, Record
      <4>2. ended \in BOOLEAN BY <1>1 DEF CountInv, TypeOK
      <4>3. QED BY <4>1, <4>2, Zenon
    <3>2. {ended', flag', considered'} \subseteq BOOLEAN
      BY <1>1, <2>2, <3>1, Zenon DEF CountInv, TypeOK, Ends
    <3>3. OnThreshold' = OnThreshold /\ OffThreshold' = OffThreshold
      BY <2>2, ThresholdsFixed DEF Ends
    <3>4. TypeOK' BY <1>1, <2>2, <3>2, <3>3 DEF CountInv, TypeOK, Ends
    <3>5. RunCounted' /\ Opposition'
      BY <1>1, <2>2 DEF CountInv, RunCounted, Opposition, Ends
    <3>6. QED BY <3>4, <3>5 DEF CountInv
  <2>3. CASE UNCHANGED vars BY <2>2, <2>3 DEF vars, Ends
  <2>4. QED BY <1>1, <2>1, <2>2, <2>3
<1>2. QED BY InitCountInv, <1>1, PTL DEF Spec

\* More than a duration's worth of like frames in a row settles the flag: the
\* counters have counted every one of them.
THEOREM RunSettlesCorrect == Spec => []RunSettles
<1>1. ASSUME CountInv PROVE RunSettles
  <2>1. OnThreshold \in Nat /\ OffThreshold \in Nat BY ThresholdsAreNat
  <2>2. /\ onCounter \in 0..OnThreshold /\ offCounter \in 0..OffThreshold
        /\ run \in Nat
    BY <1>1 DEF CountInv, TypeOK
  <2>3. CASE considered = TRUE /\ flag = FALSE
    <3>1. run <= onCounter BY <1>1, <2>3 DEF CountInv, RunCounted
    <3>2. ~(run > OnThreshold) BY <2>1, <2>2, <3>1
    <3>3. QED BY <2>3, <3>2 DEF RunSettles, ThresholdOf
  <2>4. CASE considered = FALSE /\ flag = TRUE
    <3>1. run <= offCounter BY <1>1, <2>4 DEF CountInv, RunCounted
    <3>2. ~(run > OffThreshold) BY <2>1, <2>2, <3>1
    <3>3. QED BY <2>4, <3>2 DEF RunSettles, ThresholdOf
  <2>5. CASE considered = flag BY <2>5 DEF RunSettles
  <2>6. QED BY <1>1, <2>3, <2>4, <2>5, Zenon DEF CountInv, TypeOK
<1>2. QED BY Invariant, <1>1, PTL

\* The flag changes only on a frame of the other kind and after more than a
\* duration's worth of them, counted since its last change.
THEOREM ChangeIsEarnedCorrect == Spec => ChangeIsEarned
<1> DEFINE Earned == flag' # flag =>
       considered' = flag' /\ opposed + last'.weight > ThresholdOf(flag')
<1>1. ASSUME CountInv, NEW f \in Frame, Record(f),
             \/ IsOn(f) = TRUE /\ CountOn(f.weight)
             \/ IsOn(f) = FALSE /\ CountOff(f.weight)
      PROVE  Earned
  <2>1. SUFFICES ASSUME flag' # flag
                 PROVE  considered' = flag' /\ opposed + last'.weight > ThresholdOf(flag')
    OBVIOUS
  <2>2. /\ onCounter \in Nat /\ offCounter \in Nat /\ opposed \in Nat /\ f.weight \in Nat
        /\ OnThreshold \in Nat /\ OffThreshold \in Nat
    BY <1>1, ThresholdsAreNat DEF CountInv, TypeOK, Frame
  <2>3. last' = f /\ considered' = IsOn(f) BY <1>1 DEF Record
  <2>4. CASE IsOn(f) = TRUE /\ CountOn(f.weight)
    <3>1. onCounter + f.weight > OnThreshold /\ flag' = TRUE
      BY <2>1, <2>4 DEF CountOn
    <3>2. flag = FALSE BY <1>1, <2>1, <3>1, Zenon DEF CountInv, TypeOK
    <3>3. onCounter <= opposed BY <1>1, <3>2 DEF CountInv, Opposition
    <3>4. opposed + f.weight > OnThreshold BY <2>2, <3>1, <3>3
    <3>5. ThresholdOf(flag') = OnThreshold BY <3>1 DEF ThresholdOf
    <3>6. considered' = flag' BY <2>3, <2>4, <3>1, Zenon
    <3>7. QED BY <2>3, <3>4, <3>5, <3>6
  <2>5. CASE IsOn(f) = FALSE /\ CountOff(f.weight)
    <3>1. offCounter + f.weight > OffThreshold /\ flag' = FALSE
      BY <2>1, <2>5 DEF CountOff
    <3>2. flag = TRUE BY <1>1, <2>1, <3>1, Zenon DEF CountInv, TypeOK
    <3>3. offCounter <= opposed BY <1>1, <3>2 DEF CountInv, Opposition
    <3>4. opposed + f.weight > OffThreshold BY <2>2, <3>1, <3>3
    <3>5. ThresholdOf(flag') = OffThreshold BY <3>1 DEF ThresholdOf
    <3>6. considered' = flag' BY <2>3, <2>5, <3>1, Zenon
    <3>7. QED BY <2>3, <3>4, <3>5, <3>6
  <2>6. QED BY <1>1, <2>4, <2>5
<1>2. ASSUME CountInv, [Next]_vars PROVE [Earned]_vars
  <2>1. CASE Next /\ ~Ends BY <1>1, <1>2, <2>1, StepIsCount
  <2>2. CASE Ends BY <2>2 DEF Ends
  <2>3. QED BY <1>2, <2>1, <2>2
<1>3. QED BY Invariant, <1>2, PTL DEF Spec, ChangeIsEarned

\* C's division of natural numbers, compared with one.
LEMMA QuotientAtLeast ==
  ASSUME NEW a \in Nat, NEW b \in Nat \ {0}, NEW n \in Nat
  PROVE  Quotient(a, b) >= n <=> a >= n * b
<1>1. Quotient(a, b) = a \div b BY DEF Quotient
<1>2. PICK q \in Nat : q = a \div b BY QuotientIsNat
<1>3. a = b * q + (a % b) /\ (a % b) \in 0..(b - 1) BY <1>2
<1>4. PICK r \in 0..(b - 1) : a = b * q + r BY <1>3
<1>5. CASE q >= n
  <2>1. PICK d \in Nat : q = n + d BY <1>5
  <2>2. a = b * n + b * d + r BY <2>1, <1>4
  <2>3. b * d \in Nat /\ b * n \in Nat /\ n * b = b * n BY <2>1, ProductIsNat
  <2>4. a >= n * b BY <2>2, <2>3
  <2>5. QED BY <1>1, <1>2, <1>5, <2>4
<1>6. CASE ~(q >= n)
  <2>1. PICK d \in Nat : n = q + 1 + d BY <1>6
  <2>2. n * b = b * q + b + b * d BY <2>1
  <2>3. b * d \in Nat /\ b * q \in Nat BY <2>1, ProductIsNat
  <2>4. ~(a >= n * b) BY <1>4, <2>2, <2>3
  <2>5. QED BY <1>1, <1>2, <1>6, <2>4
<1>7. QED BY <1>5, <1>6

\* A number that fits a word is left alone by it.
LEMMA WrapFits ==
  ASSUME NEW n \in Nat, NEW word \in Nat \ {0}, n < word \div 2
  PROVE  Wrap(n, word) = n
<1>1. PICK h \in Nat : h = word \div 2 BY QuotientIsNat
<1>2. 2 * h <= word BY <1>1
<1>3. n + h \in 0..(word - 1) BY <1>1, <1>2
<1>4. (n + h) % word = n + h BY <1>3
<1>5. QED BY <1>1, <1>4 DEF Wrap

\* The last frame, what it was considered to be, and the sizes it can have.
Judged ==
  /\ last \in Frame
  /\ detector = "black" => last.total <= Pixels
  /\ run > 0 => considered = IsOn(last) /\ Divisible(last)

\* That holds in every reachable state.
LEMMA JudgedCorrect == Spec => []Judged
<1>1. Init => Judged
  <2>1. ASSUME Init PROVE Judged
    <3>1. last \in Frame /\ last.total = 0 /\ run = 0 BY <2>1 DEF Init, Frame
    <3>2. QED BY <3>1, ConstantsAssumption DEF Judged
  <2>2. QED BY <2>1
<1>2. ASSUME Judged, [Next]_vars PROVE Judged'
  <2>1. ASSUME NEW f \in Frame, Record(f), detector = "black" => f.total <= Pixels, Divisible(f)
        PROVE  Judged'
    <3>1. last' = f /\ considered' = IsOn(f) /\ detector' = detector BY <2>1 DEF Record
    <3>2. IsOn(f) = IsOn(last)'
      BY <3>1 DEF IsOn, IsBlack, IsSilence, Level
    <3>3. Divisible(last)' BY <2>1, <3>1 DEF Divisible
    <3>4. QED BY <2>1, <3>1, <3>2, <3>3 DEF Judged
  <2>2. CASE \E n \in DarkCounts : BlackFrame(Picture(n)) \/ NonBlackFrame(Picture(n))
    <3>1. PICK n \in DarkCounts : BlackFrame(Picture(n)) \/ NonBlackFrame(Picture(n)) BY <2>2
    <3>2. Picture(n) \in Frame /\ Picture(n).total <= Pixels
      <4>1. n \in 0..Pixels /\ Pixels \in Nat BY ConstantsAssumption
      <4>2. QED BY <4>1 DEF Picture, Frame
    <3>3. Record(Picture(n)) /\ Divisible(Picture(n))
      BY <3>1 DEF BlackFrame, NonBlackFrame, Divisible
    <3>4. QED BY <2>1, <3>2, <3>3
  <2>3. CASE \E f \in AudioFrames : SilentFrame(f) \/ NoiseFrame(f)
    <3>1. PICK f \in AudioFrames : SilentFrame(f) \/ NoiseFrame(f) BY <2>3
    <3>2. f \in Frame BY ConstantsAssumption
    <3>3. Record(f) /\ detector # "black" /\ Divisible(f) BY <3>1 DEF SilentFrame, NoiseFrame
    <3>4. QED BY <2>1, <3>2, <3>3
  <2>4. CASE Ends
    BY <1>2, <2>4 DEF Ends, Judged, IsOn, IsBlack, IsSilence, Level, Divisible
  <2>5. CASE \E f \in AudioFrames : DivideByZero(f) BY <2>4, <2>5 DEF DivideByZero, Ends
  <2>6. CASE UNCHANGED vars BY <2>4, <2>6 DEF vars, Ends
  <2>7. QED BY <1>2, <2>2, <2>3, <2>5, <2>6 DEF Next
<1>3. QED BY <1>1, <1>2, PTL DEF Spec

\* What lies beyond a frame's data can make it louder, never quieter, in an integer
\* format until the sum no longer fits the sample's type.
THEOREM LoudIsNoiseCorrect == Spec => []LoudIsNoise
<1>1. ASSUME Judged, detector # "black", run > 0,
             last.total >= NoiseThreshold * last.weight,
             detector = "integer" => last.total + last.beyond < SampleWord \div 2
      PROVE  ~considered
  <2>1. /\ last.weight \in Nat /\ last.total \in Nat /\ last.beyond \in Nat
        /\ detector = "integer" => last.weight \in Nat \ {0}
    BY <1>1 DEF Judged, Frame, Divisible
  <2>2. SampleWord \in Nat \ {0} /\ NoiseThreshold \in Nat BY ConstantsAssumption
  <2> DEFINE sum == last.total + last.beyond
             least == NoiseThreshold * last.weight
  <2>3. sum \in Nat /\ sum >= last.total BY <2>1
  <2>4. least \in Nat BY <2>1, <2>2, ProductIsNat
  <2> HIDE DEF least
  <2>5. sum >= least BY <1>1, <2>1, <2>3, <2>4 DEF least
  <2>6. ASSUME detector = "integer" PROVE ~IsSilence(last)
    <3>1. Wrap(sum, SampleWord) = sum BY <1>1, <2>2, <2>3, <2>6, WrapFits
    <3> HIDE DEF sum
    <3>2. Quotient(sum, last.weight) >= NoiseThreshold
      BY <2>1, <2>2, <2>3, <2>5, <2>6, QuotientAtLeast DEF least
    <3>3. Level(last) = Quotient(sum, last.weight) BY <3>1 DEF Level, sum
    <3>4. Quotient(sum, last.weight) \in Nat
      BY <2>1, <2>3, <2>6, QuotientIsNat DEF Quotient
    <3>5. QED BY <2>2, <2>6, <3>2, <3>3, <3>4 DEF IsSilence
  <2>7. ASSUME detector # "integer" PROVE ~IsSilence(last)
    <3>1. ~(sum < least) BY <2>3, <2>4, <2>5
    <3>2. QED BY <2>7, <3>1 DEF IsSilence, least
  <2>8. QED BY <1>1, <2>6, <2>7 DEF Judged, IsOn
<1>2. Judged => LoudIsNoise BY <1>1 DEF LoudIsNoise
<1>3. QED BY JudgedCorrect, <1>2, PTL

\* As long as 100 times the pixels of a frame fit an int, a picture is
\* considered black exactly by the percentage of its dark pixels.
THEOREM MeansPercentageCorrect ==
  ASSUME 100 * Pixels < IntWord \div 2
  PROVE  Spec => []MeansPercentage
<1>1. ASSUME Judged, detector = "black", run > 0
      PROVE  considered <=> last.total * 100 >= Percentage * Pixels
  <2>1. last.total \in Nat /\ last.total <= Pixels
    BY <1>1 DEF Judged, Frame
  <2>2. Pixels \in Nat \ {0} /\ IntWord \in Nat \ {0} /\ Percentage \in Nat
    BY ConstantsAssumption
  <2> DEFINE hundredfold == last.total * 100
  <2>3. hundredfold \in Nat /\ hundredfold <= 100 * Pixels BY <2>1, <2>2
  <2>4. IntWord \div 2 \in Nat BY <2>2, QuotientIsNat
  <2>5. hundredfold < IntWord \div 2 BY <2>2, <2>3, <2>4
  <2> HIDE DEF hundredfold
  <2>6. Wrap(hundredfold, IntWord) = hundredfold BY <2>2, <2>3, <2>5, WrapFits
  <2>7. Quotient(hundredfold, Pixels) >= Percentage <=> hundredfold >= Percentage * Pixels
    BY <2>2, <2>3, QuotientAtLeast
  <2>8. IsBlack(last) <=> hundredfold >= Percentage * Pixels
    BY <2>6, <2>7 DEF IsBlack, hundredfold
  <2>9. considered = IsBlack(last) BY <1>1 DEF Judged, IsOn
  <2>10. QED BY <2>8, <2>9, Zenon DEF hundredfold
<1>2. Judged => MeansPercentage BY <1>1 DEF MeansPercentage
<1>3. QED BY JudgedCorrect, <1>2, PTL
=============================================================================
