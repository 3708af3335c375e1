----------------------------- MODULE GraphBuild ------------------------------
(***************************************************************************)
(* How an initialise command becomes a graph of filters: read_filter       *)
(* (c_src/main.c) decodes the nested term of the command recursively, one  *)
(* cursor for all calls, and allocates each filter (c_src/filters.c) when  *)
(* its downstream filters have been read.                                  *)
(*                                                                         *)
(* The term is the sequence of its filter tuples in the order sent, each   *)
(* with the filter's name and the number of filters in its list; options   *)
(* are left out except that a filter may refuse them.  The recursion is a  *)
(* stack of the calls under way.                                           *)
(***************************************************************************)
EXTENDS Integers, SequencesExt, FiniteSetsExt

CONSTANT Terms  \* terms a host may send

Inputs == {"raw audio input", "encoded audio input", "raw video input",
           "encoded video input", "raw video generator"}

Registered == Inputs \union
  {"audio resampler", "video rescaler", "black detect", "silence detect",
   "raw audio output", "encoded audio output", "raw video output", "encoded video output",
   "stereo splitter", "effects processor", "parallel", "async_parallel"}

\* Filters whose init() exits when it does not get the codec, the codec
\* options or the formats it is asked for.
MayRefuse == {"encoded audio input", "encoded video input", "encoded audio output", "stereo splitter"}

\* The places in the lists of the first e tuples of a term.
Places(t, e) == UNION {{i} \X (1..t[i].arity) : i \in 1..e}

\* The filters still to come after the first e: the outermost and one for every
\* place, less those that came.
ToCome(t, e) == 1 + Cardinality(Places(t, e)) - e

\* What a nested term is in this form: only at its end is no filter to come.
ASSUME TermsAssumption ==
  \A t \in Terms :
    /\ t \in Seq([name : STRING, arity : Nat])
    /\ \A e \in 0..Len(t) : IF e < Len(t) THEN ToCome(t, e) > 0 ELSE ToCome(t, e) = 0

VARIABLES
  phase,      \* "build", "run", "flush", "closed", or how the program ended:
              \* "exited", "crashed"
  term,       \* the term of the initialise command
  index,      \* tuples decoded so far: the next filter read is number index + 1
  reading,    \* calls of read_filter under way, the outermost first: the filter
              \* each reads and the downstream filters it has got so far
  downstream  \* downstream_filters of every filter allocated

buildVars == <<term, index, reading, downstream>>

Name(k) == term[k].name
Arity(k) == term[k].arity

BuildInit ==
  /\ phase = "build"
  /\ term \in Terms
  /\ index = 0
  /\ reading = <<>>
  /\ downstream = [k \in {} |-> <<>>]

\* A call of read_filter has read all of its list.
ListRead(call) == Len(call.children) = Arity(call.node)

ReadFilter ==
  /\ phase = "build"
  /\ index = 0 \/ (reading # <<>> /\ ~ListRead(Last(reading)))
  /\ index' = index + 1
  /\ reading' = Append(reading, [node |-> index + 1, children |-> <<>>])
  /\ UNCHANGED <<phase, term, downstream>>

\* Mutant of Returned: the filter goes to the front of its caller's list.
ReturnedFirst(calls, k) ==
  IF calls = <<>> THEN <<>>
  ELSE [calls EXCEPT ![Len(calls)].children = <<k>> \o @]

\* read_filter returns filter k to the last of the calls, if there is one.
Returned(calls, k) ==
  IF calls = <<>> THEN <<>>
  ELSE [calls EXCEPT ![Len(calls)].children = Append(@, k)]

AllocateInstance ==
  /\ phase = "build"
  /\ reading # <<>>
  /\ LET call == Last(reading) IN
       /\ ListRead(call)
       /\ Name(call.node) \in Registered
       /\ downstream' = [k \in DOMAIN downstream \union {call.node} |->
                           IF k = call.node THEN call.children ELSE downstream[k]]
       /\ reading' = Returned(Front(reading), call.node)
  /\ phase' = IF Len(reading) = 1 THEN "run" ELSE "build"
  /\ UNCHANGED <<term, index>>

\* find_filter or the filter's init() ends the program.
Refuse ==
  /\ phase = "build"
  /\ reading # <<>>
  /\ LET call == Last(reading) IN
       /\ ListRead(call)
       /\ Name(call.node) \notin Registered \ MayRefuse
  /\ phase' = "exited"
  /\ UNCHANGED buildVars

Build == ReadFilter \/ AllocateInstance \/ Refuse

-----------------------------------------------------------------------------
(* Properties.                                                             *)

\* The filters of the term nested in filter k are numbered on from k, up to the
\* first with which fewer are to come than before k.
LastOf(k) == Min({e \in k..Len(term) : ToCome(term, e) < ToCome(term, k - 1)})

\* Each filter has the downstream filters of its tuple, in their order, all of
\* them allocated before it is: its init() starts threads that hold them
\* (async_parallel_filter.c:213, parallel_filter.c:95).  The graph that frames
\* are sent to is the whole term.
GraphIsTerm ==
  /\ \A k \in DOMAIN downstream :
       LET list == downstream[k] IN
         /\ Len(list) = Arity(k)
         /\ ToSet(list) \subseteq DOMAIN downstream
         /\ \A i \in 1..Len(list) :
              list[i] = IF i = 1 THEN k + 1 ELSE LastOf(list[i - 1]) + 1
  /\ phase \notin {"build", "exited"} => DOMAIN downstream = 1..Len(term) /\ reading = <<>>
=============================================================================
