---------------------------- MODULE MCFilterGraph ----------------------------
(* FilterGraph for TLC: every graph of one medium with at most Depth filters *)
(* in a row behind the input, two branches where it forks, every filter in   *)
(* every place it makes sense in, outputs with a filter behind them, and one *)
(* unknown filter.                                                           *)
EXTENDS FilterGraph

Depth == 2

Tuple(name, n) == <<[name |-> name, arity |-> n]>>

Below(single, double, terms) ==
  {Tuple(name, 1) \o t : name \in single, t \in terms}
  \union {Tuple(name, 2) \o t \o u : name \in double, t \in terms, u \in terms}

VideoOutputs == {"raw video output", "encoded video output"}
AudioOutputs == {"raw audio output", "encoded audio output"}

Video[d \in 0..Depth] ==
  IF d = 0 THEN {Tuple(name, 0) : name \in VideoOutputs}
  ELSE Video[d - 1] \union
       Below({"video rescaler", "black detect", "effects processor", "parallel"},
             {"parallel", "async_parallel"} , Video[d - 1])

Audio[d \in 0..Depth] ==
  IF d = 0 THEN {Tuple(name, 0) : name \in AudioOutputs}
  ELSE Audio[d - 1] \union
       Below({"audio resampler", "silence detect", "parallel"},
             {"stereo splitter", "async_parallel"}, Audio[d - 1])

MCTerms ==
  {Tuple(name, 1) \o t : name \in {"encoded video input", "raw video input", "raw video generator"},
                         t \in Video[Depth] \union Below(VideoOutputs, {}, Video[1])}
  \union {Tuple(name, 1) \o t : name \in {"encoded audio input", "raw audio input"},
                                t \in UNION {Audio[Depth], Below(AudioOutputs, {}, Audio[1]),
                                            Below({"unknown"}, {}, Audio[0])}}
=============================================================================
