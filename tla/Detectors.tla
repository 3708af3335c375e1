------------------------------ MODULE Detectors ------------------------------
(***************************************************************************)
(* The filters "black detect" (c_src/video_black_detect.c) and "silence    *)
(* detect" (c_src/audio_silence_detect.c).  Each frame is considered to be *)
(* of the filter's kind, black or silent, or not, and the flag put on the  *)
(* frames follows with hysteresis, one counter for each side: a black      *)
(* detector counts frames, a silence detector samples of all channels.     *)
(*                                                                         *)
(* A frame is what the filter measures of it: its weight in the counters,  *)
(* the total of what it reads inside the frame (dark pixels; magnitudes of *)
(* samples) and the total of what it reads beyond the frame's data.  An    *)
(* audio frame may be empty: the resampler sends on what it converted.     *)
(*                                                                         *)
(* A sample is a number of units that make the noise threshold a whole     *)
(* number: 1 in an integer format, a part of full scale in a floating      *)
(* point one, whose sums and quotients are taken to be exact.              *)
(*                                                                         *)
(* Pixels are counted in blocks of equal size, and so is the range of the  *)
(* int that holds 100 times their number: width * height, the number of    *)
(* dark pixels and 2^32 are all multiples of the block.                    *)
(***************************************************************************)
EXTENDS Integers

CONSTANTS
  \* black detect
  Pixels,           \* frame->width * frame->height, in blocks
  DarkCounts,       \* numbers of pixels below `threshold` in a frame, in blocks
  IntWord,          \* 2^32, in blocks: the values of a C int
  Percentage,       \* percentage_below_threshold
  BlackMillis,      \* black_duration
  NonBlackMillis,   \* non_black_duration
  RateNum, RateDen, \* frame_rate
  \* silence detect
  AudioFrames,      \* the frames it may get
  SampleWord,       \* 2^16 or 2^32: the values of an integer sample and of their sum
  NoiseThreshold,   \* noise_threshold in sample units, rounded up to an integer sample
  SilenceMillis,    \* silence_duration
  NoiseMillis,      \* noise_duration
  SampleRate, Channels

Frame == {f \in [weight : Nat, total : Nat, beyond : Nat] :
            f.weight = 0 => f.total = 0 /\ f.beyond = 0}

ASSUME ConstantsAssumption ==
  /\ Pixels \in Nat \ {0}
  /\ DarkCounts \subseteq 0..Pixels
  /\ {IntWord, SampleWord} \subseteq Nat \ {0}
  /\ Percentage \in 0..100
  /\ {BlackMillis, NonBlackMillis, RateNum} \subseteq Nat
  /\ RateDen \in Nat \ {0}
  /\ AudioFrames \subseteq Frame
  /\ {NoiseThreshold, SilenceMillis, NoiseMillis, SampleRate, Channels} \subseteq Nat

VARIABLES
  detector,    \* which filter it is: "black" detect, or silence detect on samples
               \* of an "integer" or a "float" format
  ended,       \* the program has been ended by a division by zero
  onCounter,   \* black_frame_counter, silence_counter
  offCounter,  \* non_black_frame_counter, noise_counter
  flag,        \* this->black, this->silent: put on the frame as BLACK, SILENT
  last,        \* history: the last frame
  considered,  \* history: is_black or is_silence of the last frame
  run,         \* history: weight of the run of such frames that it ends
  opposed      \* history: weight of the frames, since the flag last changed
               \* or since the start, that spoke against it

vars == <<detector, ended, onCounter, offCounter, flag, last, considered, run, opposed>>

\* do_init: durations in frames, and in samples.
FramesIn(millis) == (millis * RateNum) \div (1000 * RateDen)
SamplesIn(millis) == (millis * SampleRate * Channels) \div 1000

OnThreshold == IF detector = "black" THEN FramesIn(BlackMillis) ELSE SamplesIn(SilenceMillis)
OffThreshold == IF detector = "black" THEN FramesIn(NonBlackMillis) ELSE SamplesIn(NoiseMillis)

\* The bound of the two histories that count.
Cap(n) ==
  LET most == OnThreshold + OffThreshold + 1
  IN  IF n > most THEN most ELSE n

Init ==
  /\ detector \in {"black", "integer", "float"}
  /\ ended = FALSE
  /\ onCounter = 0
  /\ offCounter = 0
  /\ flag = TRUE
  /\ last = [weight |-> 1, total |-> 0, beyond |-> 0]
  /\ considered = TRUE
  /\ run = 0
  /\ opposed = 0

-----------------------------------------------------------------------------
(* What a frame is considered to be.                                       *)

\* What a word makes of n, and C's division, which rounds toward zero.
Wrap(n, word) == ((n + word \div 2) % word) - word \div 2
Quotient(a, b) == IF a < 0 THEN -((-a) \div b) ELSE a \div b

\* Mutant of IsBlack: exactly the percentage is not enough.
IsBlackStrict(f) == Quotient(Wrap(f.total * 100, IntWord), Pixels) > Percentage

IsBlack(f) == Quotient(Wrap(f.total * 100, IntWord), Pixels) >= Percentage

\* Mutant of Level: the average is taken over twice the samples.
LevelHalved(f) == Quotient(Wrap(f.total + f.beyond, SampleWord), 2 * f.weight)

\* calc_avg of the integer formats: as many samples as the frame has, but every
\* other one, so the second half of them lies beyond its data; their magnitudes
\* add up in the sample's own type.
Level(f) == Quotient(Wrap(f.total + f.beyond, SampleWord), f.weight)

\* The floating point formats neither wrap nor round the average to a sample;
\* that of an empty frame is not a number, which is not below the threshold.
IsSilence(f) ==
  IF detector = "integer" THEN Level(f) < NoiseThreshold
  ELSE f.total + f.beyond < NoiseThreshold * f.weight

IsOn(f) == IF detector = "black" THEN IsBlack(f) ELSE IsSilence(f)

-----------------------------------------------------------------------------
(* What the flag makes of it.                                              *)

\* History of a frame.
Record(f) ==
  /\ last' = f
  /\ considered' = IsOn(f)
  /\ run' = IF IsOn(f) = considered THEN Cap(run + f.weight) ELSE f.weight
  /\ opposed' = IF flag' # flag THEN 0
                ELSE IF IsOn(f) # flag THEN Cap(opposed + f.weight) ELSE opposed
  /\ UNCHANGED <<detector, ended>>

\* Mutant of CountOn: the counter is compared before it is increased.
CountOnLate(weight) ==
  IF onCounter > OnThreshold
  THEN onCounter' = 0 /\ offCounter' = 0 /\ flag' = TRUE
  ELSE onCounter' = onCounter + weight /\ UNCHANGED <<offCounter, flag>>

CountOn(weight) ==
  IF onCounter + weight > OnThreshold
  THEN onCounter' = 0 /\ offCounter' = 0 /\ flag' = TRUE
  ELSE onCounter' = onCounter + weight /\ UNCHANGED <<offCounter, flag>>

\* Mutant of CountOff: the other counter is not reset with the flag.
CountOffKeeps(weight) ==
  IF offCounter + weight > OffThreshold
  THEN offCounter' = 0 /\ flag' = FALSE /\ UNCHANGED onCounter
  ELSE offCounter' = offCounter + weight /\ UNCHANGED <<onCounter, flag>>

CountOff(weight) ==
  IF offCounter + weight > OffThreshold
  THEN onCounter' = 0 /\ offCounter' = 0 /\ flag' = FALSE
  ELSE offCounter' = offCounter + weight /\ UNCHANGED <<onCounter, flag>>

BlackFrame(f) == detector = "black" /\ IsBlack(f) /\ CountOn(1) /\ Record(f)
NonBlackFrame(f) == detector = "black" /\ ~IsBlack(f) /\ CountOff(1) /\ Record(f)

\* The integer formats divide by the number of samples.
Divisible(f) == detector = "integer" => f.weight > 0

SilentFrame(f) ==
  detector # "black" /\ Divisible(f) /\ IsSilence(f) /\ CountOn(f.weight) /\ Record(f)
NoiseFrame(f) ==
  detector # "black" /\ Divisible(f) /\ ~IsSilence(f) /\ CountOff(f.weight) /\ Record(f)

DivideByZero(f) ==
  /\ detector # "black" /\ ~Divisible(f)
  /\ ended' = TRUE
  /\ UNCHANGED <<detector, onCounter, offCounter, flag, last, considered, run, opposed>>

Picture(n) == [weight |-> 1, total |-> n, beyond |-> 0]

Next ==
  /\ ~ended
  /\ \/ \E n \in DarkCounts : BlackFrame(Picture(n)) \/ NonBlackFrame(Picture(n))
     \/ \E f \in AudioFrames : SilentFrame(f) \/ NoiseFrame(f) \/ DivideByZero(f)

Spec == Init /\ [][Next]_vars

-----------------------------------------------------------------------------
(* Properties.                                                             *)

\* Neither counter gets past its threshold.
TypeOK ==
  /\ detector \in {"black", "integer", "float"}
  /\ onCounter \in 0..OnThreshold
  /\ offCounter \in 0..OffThreshold
  /\ {ended, flag, considered} \subseteq BOOLEAN
  /\ last \in Frame
  /\ {run, opposed} \subseteq Nat

ThresholdOf(kind) == IF kind THEN OnThreshold ELSE OffThreshold

\* A run of one kind that lasts longer than its duration settles the flag,
\* whatever the counters held when it began.
RunSettles == run > ThresholdOf(considered) => flag = considered

\* The flag changes only when more than a duration's worth of frames since its
\* last change spoke against it; they need not follow one another.
ChangeIsEarned ==
  [][flag' # flag =>
       considered' = flag' /\ opposed + last'.weight > ThresholdOf(flag')]_vars

\* video_black_detect.c:109: the percentage is that "of the pixels that have to
\* be below the threshold for the frame to be considered black".
MeansPercentage ==
  detector = "black" /\ run > 0 =>
    (considered <=> last.total * 100 >= Percentage * Pixels)

\* A frame loud enough by the samples read inside it is noise, whatever lies
\* beyond its data (audio_silence_detect.c:33), in an integer format as long as
\* the sum fits the type it is computed in (line 31).
LoudIsNoise ==
  /\ detector # "black" /\ run > 0
  /\ last.total >= NoiseThreshold * last.weight
  /\ detector = "integer" => last.total + last.beyond < SampleWord \div 2
  => ~considered

-----------------------------------------------------------------------------
(* The inductive invariant behind RunSettles and ChangeIsEarned: a frame   *)
(* against the flag is counted, and the current run of such frames is part *)
(* of what was counted.                                                    *)

RunCounted ==
  /\ considered = TRUE /\ flag = FALSE => run <= onCounter
  /\ considered = FALSE /\ flag = TRUE => run <= offCounter

Opposition ==
  /\ flag = FALSE => onCounter <= opposed
  /\ flag = TRUE => offCounter <= opposed

CountInv == TypeOK /\ RunCounted /\ Opposition
=============================================================================
