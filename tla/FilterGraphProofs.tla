--------------------------- MODULE FilterGraphProofs ---------------------------
(***************************************************************************)
(* Proofs about GraphBuild and FilterGraph: the graph that the recursion   *)
(* of read_filter builds is the term of the command, and on every graph of *)
(* one medium frames keep what the filters rely on and flush comes last.   *)
(*                                                                         *)
(* The first part is about a nested term as the sequence of its tuples:    *)
(* where the tuples nested in one end.  The second is the recursion, as an *)
(* invariant of its stack; the third the frames and the flush.             *)
(***************************************************************************)
EXTENDS FilterGraph, FrameInfoProofs, FiniteSetTheorems, SequenceTheorems, TLAPS

-----------------------------------------------------------------------------
(* The inductive invariant behind GraphIsTerm.                             *)

Nodes == {reading[i].node : i \in DOMAIN reading}

\* The filters read for the i-th call: all, or those before the call inside it.
ReadUpTo(i) == IF i = Len(reading) THEN index ELSE reading[i + 1].node - 1

\* The downstream filters of filter k, or the first of them.
Nesting(k, list) ==
  \A i \in 1..Len(list) : list[i] = IF i = 1 THEN k + 1 ELSE LastOf(list[i - 1]) + 1

\* A call has read filter k and the tuples nested in it as far as `upTo`, those of
\* the filters in `children`, and the rest of its list is to come.
CallInv(k, children, upTo) ==
  /\ k <= upTo
  /\ upTo = IF children = <<>> THEN k ELSE LastOf(Last(children))
  /\ ToCome(term, upTo) = ToCome(term, k) - Len(children)
  /\ \A e \in k..(upTo - 1) : ToCome(term, e) > ToCome(term, upTo)
  /\ Nesting(k, children)
  /\ ToSet(children) \subseteq DOMAIN downstream

\* Filter d is in the list filter k has, or has got so far.
Holds(k, d) ==
  \/ k \in DOMAIN downstream /\ d \in ToSet(downstream[k])
  \/ \E i \in DOMAIN reading : reading[i].node = k /\ d \in ToSet(reading[i].children)

\* Each filter has its place in one list, of a filter read before, or will get it
\* when its call returns.
PlaceInv ==
  /\ \A k, d \in 1..Len(term) : Holds(k, d) => k < d /\ d \notin Nodes
  /\ \A k, l, d \in 1..Len(term) : Holds(k, d) /\ Holds(l, d) => k = l
  /\ \A d \in 2..index : d \notin Nodes => \E k \in 1..Len(term) : Holds(k, d)

BuildInv ==
  /\ term \in Terms
  /\ index \in 0..Len(term)
  /\ reading \in Seq([node : 1..Len(term), children : Seq(1..Len(term))])
  /\ \A k \in DOMAIN downstream : downstream[k] \in Seq(1..Len(term))
  /\ DOMAIN downstream = (1..index) \ Nodes
  /\ \A i, j \in DOMAIN reading : i < j => reading[i].node < reading[j].node
  /\ \A i \in DOMAIN reading :
       /\ reading[i].node <= index
       /\ Len(reading[i].children) <= Arity(reading[i].node) - (IF i < Len(reading) THEN 1 ELSE 0)
       /\ CallInv(reading[i].node, reading[i].children, ReadUpTo(i))
  /\ IF index = 0 THEN reading = <<>> /\ phase = "build"
     ELSE IF phase \in {"build", "exited"} THEN reading # <<>> /\ reading[1].node = 1
     ELSE reading = <<>> /\ index = Len(term)
  /\ PlaceInv
  /\ GraphIsTerm

-----------------------------------------------------------------------------
(* The inductive invariant behind the three.                               *)

\* What is known of frame f when it has passed the filters in `passed`: none of them
\* an output, and the frame has what the filters of its medium need, but for
\* what its input does not set and no filter has, or an effects processor may
\* have lost.
MediaOf(f, passed) ==
  /\ \A j \in passed : Name(j) \notin Outputs
  /\ IF Name(1) \in VideoInputs
     THEN /\ f.timebase
          /\ f.info = "side" \/ Name(1) # "encoded video input"
               \/ \E j \in passed : Name(j) = "effects processor"
     ELSE /\ f.info = "opaque"
          /\ f.rate <=> (Name(1) # "raw audio input" \/ \E j \in passed : Name(j) = "audio resampler")

MediaInv == \A c \in calls : MediaOf(c.frame, Upstream(c.node))

\* The filters that flush gets to.
FlushReaches == {k \in DOMAIN term : \A j \in Upstream(k) : Name(j) \notin EndsFlush}

\* Flush is on its way from the input: what a flushed filter passes it on to is
\* being flushed or has been, and nothing else is.
FlushInv ==
  /\ flushing \subseteq FlushReaches
  /\ flushed \subseteq FlushReaches
  /\ flushing \intersect flushed = {}
  /\ \A k \in flushed : FlushGraph(k) \subseteq flushing \union flushed
  /\ \A d \in (flushing \union flushed) \ {1} : \E k \in flushed : d \in FlushGraph(k)
  /\ phase \in {"build", "exited", "run"} => flushing = {} /\ flushed = {}
  /\ phase \in {"flush", "closed"} => 1 \in flushing \union flushed

RunInv ==
  /\ phase \in {"build", "exited", "run", "flush", "closed", "crashed"}
  /\ calls \subseteq [node : 2..Len(term), frame : Frame]
  /\ phase \in {"build", "exited"} => calls = {}
  /\ FlushInv
  /\ MediaInv
  /\ FlushLast

IndInv == BuildInv /\ RunInv

-----------------------------------------------------------------------------
(* Terms.                                                                  *)

\* The tuples of a term.
LEMMA TupleType ==
  ASSUME NEW t \in Terms
  PROVE  /\ Len(t) \in Nat /\ DOMAIN t = 1..Len(t)
         /\ \A i \in 1..Len(t) : t[i].arity \in Nat
<1> DEFINE R == [name : STRING, arity : Nat]
<1>1. t \in Seq(R)
  BY TermsAssumption
<1>2. \A r \in R : r.arity \in Nat
  OBVIOUS
<1> HIDE DEF R
<1>3. Len(t) \in Nat /\ DOMAIN t = 1..Len(t) /\ \A i \in 1..Len(t) : t[i] \in R
  BY <1>1, ElementOf
<1> QED
  BY <1>2, <1>3

\* The places of one tuple more.
LEMMA PlacesOneMore ==
  ASSUME NEW t, NEW e \in Nat
  PROVE  Places(t, e + 1) = Places(t, e) \union ({e + 1} \X (1..t[e + 1].arity))
<1>1. 1..(e + 1) = (1..e) \union {e + 1}
  OBVIOUS
<1> QED
  BY <1>1 DEF Places

\* The places of a prefix of a term are finitely many.
LEMMA PlacesFinite ==
  ASSUME NEW t \in Terms
  PROVE  \A e \in 0..Len(t) : IsFiniteSet(Places(t, e))
<1> DEFINE T == {e \in Nat : e <= Len(t) => IsFiniteSet(Places(t, e))}
<1>0. Len(t) \in Nat /\ \A i \in 1..Len(t) : t[i].arity \in Nat
  BY TupleType
<1>1. 0 \in T
  <2>1. Places(t, 0) = {}
    BY DEF Places
  <2> QED
    BY <2>1, FS_EmptySet
<1>2. ASSUME NEW e \in T PROVE e + 1 \in T
  <2> SUFFICES ASSUME e + 1 <= Len(t) PROVE IsFiniteSet(Places(t, e + 1))
    OBVIOUS
  <2>1. IsFiniteSet(Places(t, e)) /\ e \in Nat
    BY <1>0
  <2>2. t[e + 1].arity \in Nat
    BY <1>0, <2>1
  <2>3. IsFiniteSet({e + 1}) /\ IsFiniteSet(1..t[e + 1].arity)
    <3> DEFINE a == t[e + 1].arity
    <3>1. a \in Int
      BY <2>2
    <3> HIDE DEF a
    <3>2. IsFiniteSet(1..a)
      BY <3>1, FS_Interval
    <3>3. IsFiniteSet({e + 1})
      BY FS_Singleton
    <3> QED
      BY <3>2, <3>3 DEF a
  <2>4. IsFiniteSet({e + 1} \X (1..t[e + 1].arity))
    BY <2>3, FS_Product
  <2> QED
    <3>1. IsFiniteSet(Places(t, e) \union ({e + 1} \X (1..t[e + 1].arity)))
      BY <2>1, <2>4, FS_Union
    <3>2. Places(t, e + 1) = Places(t, e) \union ({e + 1} \X (1..t[e + 1].arity))
      BY <2>1, PlacesOneMore
    <3> QED
      BY <3>1, <3>2
<1> HIDE DEF T
<1>3. T = Nat
  <2>1. T \in SUBSET Nat
    BY DEF T
  <2> QED
    BY <1>1, <1>2, <2>1, SetInduction
<1> QED
  BY <1>0, <1>3 DEF T

\* Reading a tuple: one filter has come and as many are to come as its list is long.
LEMMA ToComeStep ==
  ASSUME NEW t \in Terms, NEW e \in 0..(Len(t) - 1)
  PROVE  /\ ToCome(t, e) \in Int
         /\ t[e + 1].arity \in Nat
         /\ ToCome(t, e + 1) = (ToCome(t, e) - 1) + t[e + 1].arity
<1>0. Len(t) \in Nat /\ \A i \in 1..Len(t) : t[i].arity \in Nat
  BY TupleType
<1>1. t[e + 1].arity \in Nat /\ e \in Nat /\ e \in 0..Len(t)
  BY <1>0
<1> DEFINE P == Places(t, e)
           a == t[e + 1].arity
           Q == {e + 1} \X (1..a)
<1>2. IsFiniteSet(P) /\ Cardinality(P) \in Nat
  BY <1>1, PlacesFinite, FS_CardinalityType
<1>3. P \intersect Q = {}
  BY <1>1 DEF Places
<1>4. Places(t, e + 1) = P \union Q
  BY <1>1, PlacesOneMore
<1>5. a \in Nat
  BY <1>1
<1> HIDE DEF a
<1>6. IsFiniteSet(Q) /\ Cardinality(Q) = a
  <2>1. IsFiniteSet({e + 1}) /\ Cardinality({e + 1}) = 1
    BY FS_Singleton
  <2>2. IsFiniteSet(1..a) /\ Cardinality(1..a) = a
    BY <1>5, FS_Interval
  <2>3. IsFiniteSet(Q) /\ Cardinality(Q) = 1 * Cardinality(1..a)
    BY <2>1, <2>2, FS_Product
  <2> QED
    BY <1>5, <2>2, <2>3
<1> HIDE DEF P, Q
<1>7. Cardinality(P \union Q) = Cardinality(P) + Cardinality(Q) - Cardinality({})
  BY <1>2, <1>3, <1>6, FS_Union
<1>8. Cardinality(P \union Q) = Cardinality(P) + a
  <2>1. Cardinality({}) = 0
    BY FS_EmptySet
  <2> QED
    BY <1>2, <1>5, <1>6, <1>7, <2>1
<1>9. ToCome(t, e) = 1 + Cardinality(P) - e
      /\ ToCome(t, e + 1) = 1 + Cardinality(P \union Q) - (e + 1)
  BY <1>4 DEF ToCome, P
<1>10. ToCome(t, e) \in Int /\ ToCome(t, e + 1) = (ToCome(t, e) - 1) + a
  BY <1>1, <1>2, <1>5, <1>8, <1>9
<1> QED
  BY <1>5, <1>10 DEF a

\* A term: its outermost filter is to come before it, none at its end, and some
\* at every place between.
LEMMA TermBounds ==
  ASSUME NEW t \in Terms
  PROVE  /\ Len(t) \in Nat /\ Len(t) >= 1
         /\ DOMAIN t = 1..Len(t)
         /\ \A e \in 0..Len(t) : ToCome(t, e) \in Nat
         /\ \A e \in 0..Len(t) : ToCome(t, e) = 0 <=> e = Len(t)
         /\ ToCome(t, 0) = 1
<1>1. Len(t) \in Nat /\ DOMAIN t = 1..Len(t)
  BY TupleType
<1>2. ToCome(t, 0) = 1
  <2>1. Places(t, 0) = {}
    BY DEF Places
  <2> QED
    BY <2>1, FS_EmptySet DEF ToCome
<1>3. Len(t) >= 1
  BY <1>1, <1>2, TermsAssumption
<1>4. \A e \in 0..(Len(t) - 1) : ToCome(t, e) \in Int
  BY ToComeStep
<1>5. \A e \in 0..Len(t) : IF e < Len(t) THEN ToCome(t, e) > 0 ELSE ToCome(t, e) = 0
  BY TermsAssumption
<1>6. ASSUME NEW e \in 0..Len(t) PROVE ToCome(t, e) \in Nat /\ (ToCome(t, e) = 0 <=> e = Len(t))
  <2>1. CASE e < Len(t)
    <3>1. ToCome(t, e) \in Int /\ ToCome(t, e) > 0
      BY <1>1, <1>4, <1>5, <2>1
    <3> QED
      BY <2>1, <3>1
  <2>2. CASE e = Len(t)
    BY <1>1, <1>5, <2>2
  <2>3. e < Len(t) \/ e = Len(t)
    <3> DEFINE l == Len(t)
    <3>1. l \in Nat /\ e \in 0..l
      BY <1>1, <1>6
    <3> HIDE DEF l
    <3>2. e < l \/ e = l
      BY <3>1
    <3> QED
      BY <3>2 DEF l
  <2> QED
    BY <2>1, <2>2, <2>3
<1> QED
  BY <1>1, <1>2, <1>3, <1>6

-----------------------------------------------------------------------------
(* Where the filters nested in one end.                                    *)

\* LastOf is the first place with fewer filters to come than before the filter.
LEMMA LastOfIs ==
  ASSUME term \in Terms, NEW k \in 1..Len(term), NEW e \in k..Len(term),
         ToCome(term, e) < ToCome(term, k - 1),
         \A d \in k..(e - 1) : ToCome(term, d) >= ToCome(term, k - 1)
  PROVE  LastOf(k) = e
<1> DEFINE S == {d \in k..Len(term) : ToCome(term, d) < ToCome(term, k - 1)}
<1>1. Len(term) \in Nat /\ \A d \in 0..Len(term) : ToCome(term, d) \in Nat
  BY TermBounds
<1>2. e \in S
  OBVIOUS
<1>3. \A d \in S : e <= d
  BY <1>1
<1>4. S \subseteq Int
  BY <1>1
<1>5. LastOf(k) = CHOOSE x \in S : \A y \in S : x <= y
  BY DEF LastOf, Min
<1> HIDE DEF S
<1>6. LastOf(k) \in S /\ \A y \in S : LastOf(k) <= y
  BY <1>2, <1>3, <1>5
<1> DEFINE l == LastOf(k)
<1>7. l \in Int /\ l <= e /\ e <= l
  BY <1>2, <1>3, <1>4, <1>6
<1> HIDE DEF l
<1>8. l = e
  BY <1>1, <1>7
<1> QED
  BY <1>8 DEF l

\* Where a filter ends one filter fewer is to come than before it, and as many
\* at least as before it up to there.
LEMMA LastOfFalls ==
  ASSUME term \in Terms, NEW k \in 1..Len(term)
  PROVE  /\ LastOf(k) \in k..Len(term)
         /\ ToCome(term, LastOf(k)) = ToCome(term, k - 1) - 1
         /\ \A e \in k..(LastOf(k) - 1) : ToCome(term, e) >= ToCome(term, k - 1)
<1> DEFINE S == {d \in k..Len(term) : ToCome(term, d) < ToCome(term, k - 1)}
<1>1. Len(term) \in Nat /\ \A d \in 0..Len(term) : ToCome(term, d) \in Nat /\ (ToCome(term, d) = 0 <=> d = Len(term))
  BY TermBounds
<1>2. Len(term) \in S
  <2>1. ToCome(term, Len(term)) = 0 /\ ToCome(term, k - 1) \in Nat /\ ToCome(term, k - 1) # 0
    BY <1>1
  <2> QED
    BY <1>1, <2>1
<1>3. S \in SUBSET Nat /\ S # {}
  BY <1>1, <1>2
<1>4. LastOf(k) = CHOOSE x \in S : \A y \in S : x <= y
  BY DEF LastOf, Min
<1>5. LastOf(k) \in S /\ \A y \in S : LastOf(k) <= y
  <2> HIDE DEF S
  <2>1. PICK m \in S : \A y \in S : m <= y
    BY <1>3, LeastNatural
  <2> QED
    BY <1>4, <2>1
<1>6. PICK l \in k..Len(term) : l = LastOf(k)
  BY <1>5
<1>7. ToCome(term, l) < ToCome(term, k - 1) /\ l \in Nat /\ k \in Nat /\ k >= 1
  BY <1>1, <1>5, <1>6
<1>8. ASSUME NEW e \in k..(l - 1) PROVE ToCome(term, e) >= ToCome(term, k - 1)
  <2>1. e \in k..Len(term) /\ ~(l <= e) /\ e \in 0..Len(term) /\ k - 1 \in 0..Len(term)
    BY <1>1, <1>7, <1>8
  <2>2. e \notin S
    BY <1>5, <1>6, <2>1
  <2> QED
    BY <1>1, <2>1, <2>2
<1>9. ToCome(term, l - 1) >= ToCome(term, k - 1)
  <2>1. l - 1 = k - 1 \/ l - 1 \in k..(l - 1)
    BY <1>7
  <2>2. ToCome(term, k - 1) \in Nat
    BY <1>1, <1>7
  <2> QED
    BY <1>8, <2>1, <2>2
<1>10. ToCome(term, l) >= ToCome(term, l - 1) - 1
  <2>1. l - 1 \in 0..(Len(term) - 1) /\ (l - 1) + 1 = l
    BY <1>1, <1>7
  <2>2. /\ ToCome(term, l - 1) \in Int /\ term[l].arity \in Nat
        /\ ToCome(term, l) = (ToCome(term, l - 1) - 1) + term[l].arity
    BY <2>1, ToComeStep
  <2> QED
    BY <2>2
<1>11. ToCome(term, l) \in Nat /\ ToCome(term, l - 1) \in Nat /\ ToCome(term, k - 1) \in Nat
  BY <1>1, <1>7
<1> QED
  BY <1>6, <1>7, <1>8, <1>9, <1>10, <1>11

-----------------------------------------------------------------------------
(* The recursion of read_filter.                                           *)

CallType == [node : 1..Len(term), children : Seq(1..Len(term))]

\* A record of the type, from its parts and by its parts.
LEMMA CallOf ==
  /\ \A k \in 1..Len(term), list \in Seq(1..Len(term)) :
       /\ [node |-> k, children |-> list] \in CallType
       /\ [node |-> k, children |-> list].node = k
       /\ [node |-> k, children |-> list].children = list
  /\ \A c \in CallType : c.node \in 1..Len(term) /\ c.children \in Seq(1..Len(term))
BY DEF CallType

\* The beginning of a stack.
LEMMA FrontIs ==
  ASSUME NEW S, NEW s \in Seq(S), s # <<>>
  PROVE  /\ Len(s) \in Nat /\ Len(s) >= 1
         /\ Last(s) = s[Len(s)]
         /\ Front(s) \in Seq(S) /\ Len(Front(s)) = Len(s) - 1
         /\ \A i \in 1..(Len(s) - 1) : Front(s)[i] = s[i]
<1>1. Len(s) \in Nat /\ Len(s) >= 1
  OBVIOUS
<1>2. Front(s) \in Seq(S) /\ Len(Front(s)) = Len(s) - 1
  <2>1. PICK n \in Nat : n = Len(s) - 1
    BY <1>1
  <2>2. \A i \in 1..n : s[i] \in S
    BY <1>1, <2>1
  <2>3. SubSeq(s, 1, n) \in Seq(S) /\ Len(SubSeq(s, 1, n)) = IF 1 <= n THEN (n - 1) + 1 ELSE 0
    BY <2>1, <2>2, SubSeqProperties
  <2>4. Len(SubSeq(s, 1, n)) = n
    BY <2>1, <2>3
  <2> QED
    BY <2>1, <2>3, <2>4 DEF Front
<1>3. \A i \in 1..(Len(s) - 1) : Front(s)[i] = s[i]
  BY <1>1 DEF Front
<1> QED
  BY <1>1, <1>2, <1>3 DEF Last

\* What the invariant says of the calls under way.
LEMMA CallsAre ==
  ASSUME BuildInv
  PROVE  /\ term \in Terms /\ Len(term) \in Nat /\ index \in 0..Len(term)
         /\ reading \in Seq(CallType)
         /\ Len(reading) \in Nat /\ DOMAIN reading = 1..Len(reading)
         /\ \A i \in 1..Len(reading) :
              /\ reading[i].node \in 1..Len(term)
              /\ reading[i].children \in Seq(1..Len(term))
              /\ reading[i].node <= index
              /\ CallInv(reading[i].node, reading[i].children, ReadUpTo(i))
<1>1. term \in Terms /\ index \in 0..Len(term) /\ reading \in Seq(CallType)
  BY DEF BuildInv, CallType
<1>2. Len(term) \in Nat
  BY <1>1, TermBounds
<1>3. /\ Len(reading) \in Nat /\ DOMAIN reading = 1..Len(reading)
      /\ \A i \in 1..Len(reading) : reading[i] \in CallType
  BY <1>1, ElementOf
<1>4. \A i \in 1..Len(reading) :
        /\ reading[i].node \in 1..Len(term)
        /\ reading[i].children \in Seq(1..Len(term))
  BY <1>3, CallOf
<1>5. \A i \in 1..Len(reading) :
        reading[i].node <= index /\ CallInv(reading[i].node, reading[i].children, ReadUpTo(i))
  BY <1>3 DEF BuildInv
<1> QED
  BY <1>1, <1>2, <1>3, <1>4, <1>5

\* A filter in a list has been read, and allocated.
LEMMA HeldIsAllocated ==
  ASSUME BuildInv, NEW k, NEW d, Holds(k, d)
  PROVE  d \in DOMAIN downstream /\ d \in 1..index
<1>1. DOMAIN downstream \subseteq 1..index
  BY DEF BuildInv
<1>2. CASE k \in DOMAIN downstream /\ d \in ToSet(downstream[k])
  BY <1>1, <1>2 DEF BuildInv, GraphIsTerm
<1>3. CASE \E i \in DOMAIN reading : reading[i].node = k /\ d \in ToSet(reading[i].children)
  <2>1. PICK i \in DOMAIN reading : d \in ToSet(reading[i].children)
    BY <1>3
  <2>2. CallInv(reading[i].node, reading[i].children, ReadUpTo(i))
    BY DEF BuildInv
  <2> QED
    BY <1>1, <2>1, <2>2 DEF CallInv
<1> QED
  BY <1>2, <1>3 DEF Holds

\* Nothing is read before the first step.
LEMMA InitBuild == BuildInit => BuildInv
<1> SUFFICES ASSUME BuildInit PROVE BuildInv
  OBVIOUS
<1>1. phase = "build" /\ term \in Terms /\ index = 0 /\ reading = <<>> /\ DOMAIN downstream = {}
  BY DEF BuildInit
<1>2. Len(term) \in Nat
  BY <1>1, TermBounds
<1>3. reading \in Seq([node : 1..Len(term), children : Seq(1..Len(term))]) /\ DOMAIN reading = {}
  BY <1>1
<1>4. Nodes = {}
  BY <1>3 DEF Nodes
<1>5. PlaceInv
  BY <1>1, <1>3 DEF PlaceInv, Holds
<1>6. GraphIsTerm
  BY <1>1 DEF GraphIsTerm
<1>7. DOMAIN downstream = (1..index) \ Nodes
  BY <1>1
<1> QED
  BY <1>1, <1>2, <1>3, <1>4, <1>5, <1>6, <1>7 DEF BuildInv

\* Only the phase is not part of the graph.
LEMMA BuildUnchanged ==
  ASSUME BuildInv, UNCHANGED buildVars,
         \/ phase' = phase
         \/ phase \notin {"build", "exited"} /\ phase' \notin {"build", "exited"}
         \/ phase = "build" /\ phase' = "exited" /\ reading # <<>>
  PROVE  BuildInv'
<1>1. term' = term /\ index' = index /\ reading' = reading /\ downstream' = downstream
  BY DEF buildVars
<1>2. \A k : LastOf(k)' = LastOf(k)
  BY <1>1 DEF LastOf
<1>3. \A k, list : Nesting(k, list) => Nesting(k, list)'
  BY <1>2 DEF Nesting
<1>4. \A k, list, u : CallInv(k, list, u) => CallInv(k, list, u)'
  BY <1>1, <1>2, <1>3 DEF CallInv
<1>5. \A i : ReadUpTo(i)' = ReadUpTo(i)
  BY <1>1 DEF ReadUpTo
<1>6. Nodes' = Nodes
  BY <1>1 DEF Nodes
<1>7. PlaceInv'
  <2>1. \A k, d : Holds(k, d)' = Holds(k, d)
    BY <1>1 DEF Holds
  <2> QED
    BY <1>1, <1>6, <2>1 DEF PlaceInv, BuildInv
<1>8. GraphIsTerm'
  <2>1. GraphIsTerm /\ (phase' \notin {"build", "exited"} => phase \notin {"build", "exited"})
    BY DEF BuildInv
  <2> QED
    BY <1>1, <1>2, <2>1 DEF GraphIsTerm, Arity
<1>9. (\A i \in DOMAIN reading :
         /\ reading[i].node <= index
         /\ Len(reading[i].children) <= Arity(reading[i].node) - (IF i < Len(reading) THEN 1 ELSE 0)
         /\ CallInv(reading[i].node, reading[i].children, ReadUpTo(i)))'
  <2>1. \A i \in DOMAIN reading :
        /\ reading[i].node <= index
        /\ Len(reading[i].children) <= Arity(reading[i].node) - (IF i < Len(reading) THEN 1 ELSE 0)
        /\ CallInv(reading[i].node, reading[i].children, ReadUpTo(i))
    BY DEF BuildInv
  <2>2. \A k : Arity(k)' = Arity(k)
    BY <1>1 DEF Arity
  <2>3. \A i \in DOMAIN reading :
          CallInv(reading[i].node, reading[i].children, ReadUpTo(i))'
    <3> TAKE i \in DOMAIN reading
    <3> DEFINE k == reading[i].node
               list == reading[i].children
               u == ReadUpTo(i)
    <3>1. PICK K, L, U : K = k /\ L = list /\ U = u
      OBVIOUS
    <3>2. k' = k /\ list' = list /\ u' = u
      BY <1>1, <1>5
    <3>3. CallInv(K, L, U)'
      BY <1>4, <2>1, <3>1
    <3> QED
      BY <3>1, <3>2, <3>3 DEF CallInv
  <2> QED
    BY <1>1, <2>1, <2>2, <2>3
<1>10. IF index' = 0 THEN reading' = <<>> /\ phase' = "build"
       ELSE IF phase' \in {"build", "exited"} THEN reading' # <<>> /\ reading'[1].node = 1
       ELSE reading' = <<>> /\ index' = Len(term')
  BY <1>1 DEF BuildInv
<1> QED
  BY <1>1, <1>6, <1>7, <1>8, <1>9, <1>10 DEF BuildInv

\* A filter is read only while one is to come.
LEMMA OneToCome ==
  ASSUME BuildInv, index = 0 \/ (reading # <<>> /\ ~ListRead(Last(reading)))
  PROVE  index < Len(term)
<1>0. term \in Terms /\ Len(term) \in Nat /\ Len(term) >= 1
      /\ \A e \in 0..Len(term) : ToCome(term, e) \in Nat /\ (ToCome(term, e) = 0 <=> e = Len(term))
  BY CallsAre, TermBounds
<1>1. CASE index = 0
  BY <1>0, <1>1
<1>2. CASE reading # <<>> /\ ~ListRead(Last(reading))
  <2> DEFINE m == Len(reading)
  <2>1. m \in Nat /\ m >= 1 /\ Last(reading) = reading[m] /\ m \in DOMAIN reading
    <3>1. reading \in Seq(CallType) /\ DOMAIN reading = 1..Len(reading)
      BY CallsAre
    <3>2. Len(reading) \in Nat /\ Len(reading) >= 1 /\ Last(reading) = reading[Len(reading)]
      BY <1>2, <3>1, FrontIs
    <3> QED
      BY <3>1, <3>2
  <2> HIDE DEF m
  <2>2. PICK k, list : k = reading[m].node /\ list = reading[m].children
    OBVIOUS
  <2>3. /\ k \in 1..Len(term) /\ list \in Seq(1..Len(term)) /\ k <= index /\ index \in 0..Len(term)
        /\ CallInv(k, list, ReadUpTo(m))
    BY <2>1, <2>2, CallsAre
  <2>4. ReadUpTo(m) = index
    BY DEF ReadUpTo, m
  <2>5. Len(list) <= Arity(k) - 0
    <3>1. Len(reading[m].children) <= Arity(reading[m].node) - (IF m < Len(reading) THEN 1 ELSE 0)
      BY <2>1 DEF BuildInv
    <3>2. ~ (m < Len(reading))
      BY <2>1 DEF m
    <3> QED
      BY <2>2, <3>1, <3>2
  <2>6. Len(list) # Arity(k)
    BY <1>2, <2>1, <2>2 DEF ListRead
  <2>7. /\ ToCome(term, k - 1) \in Int /\ Arity(k) \in Nat
        /\ ToCome(term, k) = (ToCome(term, k - 1) - 1) + Arity(k)
    <3>1. k - 1 \in 0..(Len(term) - 1) /\ (k - 1) + 1 = k
      BY <1>0, <2>3
    <3> QED
      BY <1>0, <3>1, ToComeStep DEF Arity
  <2>8. ToCome(term, index) = ToCome(term, k) - Len(list)
    BY <2>3, <2>4 DEF CallInv
  <2>9. ToCome(term, k - 1) >= 1
    <3>1. k - 1 \in 0..Len(term) /\ k - 1 # Len(term)
      BY <1>0, <2>3
    <3> QED
      BY <1>0, <3>1
  <2>10. ToCome(term, index) # 0
    <3> DEFINE p == ToCome(term, k - 1)
               q == ToCome(term, k)
               a == Arity(k)
               l == Len(list)
    <3>1. l \in Nat /\ p \in Int /\ a \in Nat /\ p >= 1 /\ l <= a - 0 /\ l # a /\ q = (p - 1) + a
          /\ ToCome(term, index) = q - l
      BY <2>3, <2>5, <2>6, <2>7, <2>8, <2>9
    <3> HIDE DEF p, q, a, l
    <3> QED
      BY <3>1
  <2> QED
    BY <1>0, <2>3, <2>10
<1> QED
  BY <1>1, <1>2

\* read_filter calls itself for the next tuple.
LEMMA ReadFilterInv ==
  ASSUME BuildInv, ReadFilter
  PROVE  BuildInv'
<1>00. PICK m, n : m = Len(reading) /\ n = index
  OBVIOUS
<1> DEFINE call == [node |-> n + 1, children |-> <<>>]
<1>0. /\ n = index /\ m = Len(reading) /\ term \in Terms /\ Len(term) \in Nat /\ index \in 0..Len(term)
      /\ reading \in Seq(CallType) /\ m \in Nat /\ DOMAIN reading = 1..m
      /\ \A i \in 1..m : reading[i].node <= index
  BY <1>00, CallsAre
<1>1. phase = "build" /\ phase' = "build" /\ term' = term /\ index' = index + 1
      /\ reading' = Append(reading, call) /\ downstream' = downstream
      /\ (index = 0 \/ (reading # <<>> /\ ~ListRead(Last(reading))))
  BY <1>00 DEF ReadFilter
<1>2. index < Len(term)
  BY <1>1, OneToCome
<1>3. call \in CallType
  <2>1. n + 1 \in 1..Len(term) /\ <<>> \in Seq(1..Len(term))
    BY <1>0, <1>2
  <2> QED
    BY <2>1, CallOf
<1>4. call.node = n + 1 /\ call.children = <<>>
  OBVIOUS
<1> HIDE DEF call
<1>5. /\ reading' \in Seq(CallType) /\ Len(reading') = m + 1 /\ reading'[m + 1] = call
      /\ \A i \in 1..m : reading'[i] = reading[i]
  BY <1>0, <1>1, <1>3, Appended
<1>6. DOMAIN reading' = 1..(m + 1) /\ 1..(m + 1) = (1..m) \union {m + 1}
  BY <1>0, <1>5
<1>7. Nodes' = Nodes \union {index + 1}
  BY <1>0, <1>4, <1>5, <1>6 DEF Nodes
<1>8. ReadUpTo(m + 1)' = n + 1 /\ \A i \in 1..m : ReadUpTo(i)' = ReadUpTo(i)
  <2>1. ReadUpTo(m + 1)' = n + 1
    BY <1>0, <1>1, <1>5 DEF ReadUpTo
  <2>2. ASSUME NEW i \in 1..m PROVE ReadUpTo(i)' = ReadUpTo(i)
    <3>1. ReadUpTo(i)' = reading'[i + 1].node - 1
      BY <1>0, <1>5 DEF ReadUpTo
    <3>2. CASE i = m
      <4>1. ReadUpTo(i)' = (index + 1) - 1 /\ ReadUpTo(i) = index
        BY <1>0, <1>4, <1>5, <3>1, <3>2 DEF ReadUpTo
      <4> QED
        BY <1>0, <4>1
    <3>3. CASE i < m
      <4>1. reading'[i + 1] = reading[i + 1]
        BY <1>0, <1>5, <3>3
      <4> QED
        BY <1>0, <3>1, <3>3, <4>1 DEF ReadUpTo
    <3>4. i < m \/ i = m
      BY <1>0
    <3> QED
      BY <3>2, <3>3, <3>4
  <2> QED
    BY <2>1, <2>2
<1>9. \A k : LastOf(k)' = LastOf(k)
  BY <1>1 DEF LastOf
<1>10. \A k, list, u : CallInv(k, list, u) => CallInv(k, list, u)'
  BY <1>1, <1>9 DEF CallInv, Nesting
<1>11. CallInv(n + 1, <<>>, n + 1)'
  <2>1. ToCome(term, n + 1) \in Nat
    <3>1. n + 1 \in 0..Len(term)
      BY <1>0, <1>2
    <3> QED
      BY <1>0, <3>1, TermBounds
  <2>2. /\ n + 1 <= n + 1 /\ (n + 1)..((n + 1) - 1) = {} /\ Len(<<>>) = 0 /\ ToSet(<<>>) = {}
        /\ ToCome(term, n + 1) = ToCome(term, n + 1) - 0
    BY <1>0, <2>1 DEF ToSet
  <2> QED
    BY <1>1, <2>2 DEF CallInv, Nesting
<1>12. ASSUME NEW i \in 1..(m + 1)
       PROVE  /\ reading'[i].node <= index'
              /\ Len(reading'[i].children) <= term'[reading'[i].node].arity - (IF i < Len(reading') THEN 1 ELSE 0)
              /\ CallInv(reading[i].node, reading[i].children, ReadUpTo(i))'
  <2>1. CASE i = m + 1
    <3>1. Arity(index + 1) \in Nat /\ Len(<<>>) = 0
      BY <1>0, <1>2, TupleType DEF Arity
    <3>2. reading'[i].node = index + 1 /\ reading'[i].children = <<>>
      BY <1>0, <1>4, <1>5, <2>1
    <3>3. ~ (i < Len(reading'))
      BY <1>0, <1>5, <2>1
    <3>4. Len(<<>>) <= term[index + 1].arity - 0
      BY <3>1 DEF Arity
    <3>5. CallInv(reading[i].node, reading[i].children, ReadUpTo(i))'
      <4>1. ReadUpTo(i)' = n + 1
        BY <1>8, <2>1
      <4> QED
        BY <1>0, <1>1, <1>11, <3>2, <4>1 DEF CallInv, Nesting
    <3> QED
      BY <1>0, <1>1, <3>2, <3>3, <3>4, <3>5
  <2>2. CASE i \in 1..m
    <3>1. PICK K, L, U : K = reading[i].node /\ L = reading[i].children /\ U = ReadUpTo(i)
      OBVIOUS
    <3>2. reading'[i].node = K /\ reading'[i].children = L /\ ReadUpTo(i)' = U
      BY <1>5, <1>8, <2>2, <3>1
    <3>3. K <= index /\ K \in 1..Len(term) /\ L \in Seq(1..Len(term)) /\ CallInv(K, L, U)
          /\ Len(L) <= Arity(K) - (IF i < m THEN 1 ELSE 0)
      BY <1>0, <2>2, <3>1, CallsAre DEF BuildInv
    <3>4. CallInv(reading[i].node, reading[i].children, ReadUpTo(i))'
      <4>1. CallInv(K, L, U)'
        BY <1>10, <3>3
      <4> QED
        BY <3>2, <4>1 DEF CallInv, Nesting
    <3>5. Len(L) <= Arity(K) - 1
      <4>1. CASE i < m
        BY <3>3, <4>1
      <4>2. CASE i = m
        <5>1. reading # <<>> /\ index # 0
          <6>1. reading # <<>>
            BY <1>0, <2>2
          <6> QED
            BY <6>1 DEF BuildInv
        <5>2. Last(reading) = reading[m]
          BY <1>0, <5>1, FrontIs
        <5>3. Len(L) # Arity(K)
          BY <1>1, <3>1, <4>2, <5>1, <5>2 DEF ListRead
        <5>4. Len(L) \in Nat /\ Arity(K) \in Nat /\ Len(L) <= Arity(K) - 0
          BY <1>0, <3>3, <4>2, TupleType DEF Arity
        <5> QED
          BY <5>3, <5>4
      <4>3. i < m \/ i = m
        BY <1>0, <2>2
      <4> QED
        BY <4>1, <4>2, <4>3
    <3>6. i < Len(reading') /\ K <= index + 1
      BY <1>0, <1>5, <2>2, <3>3
    <3> QED
      BY <1>1, <3>2, <3>4, <3>5, <3>6 DEF Arity
  <2> QED
    BY <1>6, <2>1, <2>2
<1>13. \A i, j \in 1..(m + 1) : i < j => reading'[i].node < reading'[j].node
  <2> SUFFICES ASSUME NEW i \in 1..(m + 1), NEW j \in 1..(m + 1), i < j
               PROVE  reading'[i].node < reading'[j].node
    OBVIOUS
  <2>1. i \in 1..m
    BY <1>0
  <2>2. CASE j = m + 1
    <3>1. reading'[j].node = index + 1 /\ reading'[i].node <= index /\ reading'[i].node \in 1..Len(term)
      BY <1>0, <1>4, <1>5, <2>1, <2>2, CallsAre
    <3> QED
      BY <1>0, <3>1
  <2>3. CASE j \in 1..m
    BY <1>0, <1>5, <2>1, <2>3 DEF BuildInv
  <2> QED
    BY <1>6, <2>2, <2>3
<1>14. \A k, d : Holds(k, d)' <=> Holds(k, d)
  <2> TAKE k, d
  <2>1. ToSet(<<>>) = {}
    BY DEF ToSet
  <2>2. (\E i \in DOMAIN reading' : reading'[i].node = k /\ d \in ToSet(reading'[i].children))
        <=> \E i \in DOMAIN reading : reading[i].node = k /\ d \in ToSet(reading[i].children)
    BY <1>0, <1>4, <1>5, <1>6, <2>1
  <2> QED
    BY <1>1, <2>2 DEF Holds
<1>15. PlaceInv'
  <2>1. \A k, d : Holds(k, d) => d \in 1..index
    BY HeldIsAllocated
  <2>2. \A k, d \in 1..Len(term) : Holds(k, d) => k < d /\ d \notin Nodes \union {index + 1}
    BY <1>0, <2>1 DEF PlaceInv, BuildInv
  <2>3. \A k, l, d \in 1..Len(term) : Holds(k, d) /\ Holds(l, d) => k = l
    BY DEF PlaceInv, BuildInv
  <2>4. \A d \in 2..(index + 1) : d \notin Nodes \union {index + 1} => \E k \in 1..Len(term) : Holds(k, d)
    <3>1. \A d \in 2..index : d \notin Nodes => \E k \in 1..Len(term) : Holds(k, d)
      BY DEF PlaceInv, BuildInv
    <3> QED
      BY <1>0, <3>1
  <2> QED
    BY <1>1, <1>7, <1>14, <2>2, <2>3, <2>4 DEF PlaceInv
<1>16. DOMAIN downstream' = (1..index') \ Nodes'
  <2>1. DOMAIN downstream = (1..index) \ Nodes
    BY DEF BuildInv
  <2> QED
    BY <1>0, <1>1, <1>7, <2>1
<1>17. GraphIsTerm'
  <2>1. GraphIsTerm
    BY DEF BuildInv
  <2> QED
    BY <1>1, <1>9, <2>1 DEF GraphIsTerm, Arity
<1>18. reading' # <<>> /\ reading'[1].node = 1
  <2>1. reading' # <<>>
    BY <1>0, <1>5
  <2>2. CASE index = 0
    <3>1. m = 0
      BY <1>0, <2>2 DEF BuildInv
    <3> QED
      BY <1>0, <1>4, <1>5, <2>1, <2>2, <3>1
  <2>3. CASE index # 0
    <3>1. reading # <<>> /\ reading[1].node = 1
      BY <1>1, <2>3 DEF BuildInv
    <3>2. 1 \in 1..m
      BY <1>0, <3>1
    <3> QED
      BY <1>5, <2>1, <3>1, <3>2
  <2> QED
    BY <2>2, <2>3
<1>19. (\A i \in DOMAIN reading :
          /\ reading[i].node <= index
          /\ Len(reading[i].children) <= Arity(reading[i].node) - (IF i < Len(reading) THEN 1 ELSE 0)
          /\ CallInv(reading[i].node, reading[i].children, ReadUpTo(i)))'
  BY <1>6, <1>12 DEF Arity
<1>20. index' \in 0..Len(term') /\ index' # 0 /\ term' \in Terms
       /\ \A k \in DOMAIN downstream' : downstream'[k] \in Seq(1..Len(term'))
  BY <1>0, <1>1, <1>2 DEF BuildInv
<1>21. (\A i, j \in DOMAIN reading : i < j => reading[i].node < reading[j].node)'
  BY <1>6, <1>13
<1>22. reading' \in Seq([node : 1..Len(term'), children : Seq(1..Len(term'))])
  BY <1>1, <1>5 DEF CallType
<1> QED
  BY <1>1, <1>15, <1>16, <1>17, <1>18, <1>19, <1>20, <1>21, <1>22 DEF BuildInv

\* The set of a list with one element more.
LEMMA ToSetAppend ==
  ASSUME NEW S, NEW s \in Seq(S), NEW e \in S
  PROVE  ToSet(Append(s, e)) = ToSet(s) \union {e}
<1>1. /\ Len(Append(s, e)) = Len(s) + 1 /\ Append(s, e)[Len(s) + 1] = e
      /\ \A i \in 1..Len(s) : Append(s, e)[i] = s[i]
      /\ Append(s, e) \in Seq(S) /\ Len(s) \in Nat
  OBVIOUS
<1>2. DOMAIN s = 1..Len(s) /\ DOMAIN Append(s, e) = 1..(Len(s) + 1)
  BY <1>1, ElementOf
<1>3. 1..(Len(s) + 1) = (1..Len(s)) \union {Len(s) + 1}
  BY <1>1
<1> QED
  BY <1>1, <1>2, <1>3 DEF ToSet

\* Replacing an element leaves the others.
LEMMA Replaced ==
  ASSUME NEW S, NEW s \in Seq(S), NEW m \in 1..Len(s), NEW e \in S
  PROVE  /\ [s EXCEPT ![m] = e] \in Seq(S) /\ Len([s EXCEPT ![m] = e]) = Len(s)
         /\ [s EXCEPT ![m] = e][m] = e
         /\ \A i \in 1..(m - 1) : [s EXCEPT ![m] = e][i] = s[i]
  OBVIOUS

\* The caller gets the filter at the end of its list.
LEMMA ReturnedIs ==
  ASSUME NEW calls_ \in Seq(CallType), calls_ # <<>>, NEW k \in 1..Len(term)
  PROVE  /\ Len(calls_) \in Nat /\ Len(calls_) >= 1
         /\ Returned(calls_, k) \in Seq(CallType) /\ Len(Returned(calls_, k)) = Len(calls_)
         /\ \A i \in 1..(Len(calls_) - 1) : Returned(calls_, k)[i] = calls_[i]
         /\ Returned(calls_, k)[Len(calls_)].node = calls_[Len(calls_)].node
         /\ Returned(calls_, k)[Len(calls_)].children = Append(calls_[Len(calls_)].children, k)
<1> DEFINE m == Len(calls_)
           c == [calls_[m] EXCEPT !.children = Append(@, k)]
<1>1. m \in Nat /\ m >= 1 /\ DOMAIN calls_ = 1..m /\ \A i \in 1..m : calls_[i] \in CallType
  BY ElementOf
<1>2. calls_[m] \in CallType
  BY <1>1
<1>3. c \in CallType /\ c.node = calls_[m].node /\ c.children = Append(calls_[m].children, k)
  <2>1. PICK q \in 1..Len(term), list \in Seq(1..Len(term)) :
          calls_[m] = [node |-> q, children |-> list]
    BY <1>2 DEF CallType
  <2>2. Append(list, k) \in Seq(1..Len(term))
    OBVIOUS
  <2>3. c = [node |-> q, children |-> Append(list, k)]
    <3> DEFINE r == calls_[m]
    <3>1. r = [node |-> q, children |-> list] /\ r.children = list
      BY <2>1
    <3> HIDE DEF r
    <3>2. [r EXCEPT !.children = Append(@, k)] = [r EXCEPT !.children = Append(list, k)]
      BY <3>1
    <3>3. [r EXCEPT !.children = Append(list, k)] = [node |-> q, children |-> Append(list, k)]
      <4> DEFINE new == Append(list, k)
      <4> HIDE DEF new
      <4>1. [[node |-> q, children |-> list] EXCEPT !.children = new] = [node |-> q, children |-> new]
        OBVIOUS
      <4> QED
        BY <3>1, <4>1 DEF new
    <3> QED
      BY <3>2, <3>3 DEF r
  <2>4. calls_[m].node = q /\ calls_[m].children = list
    BY <2>1
  <2> HIDE DEF c
  <2>5. c \in CallType /\ c.node = q /\ c.children = Append(list, k)
    BY <2>2, <2>3, CallOf
  <2> QED
    BY <2>4, <2>5
<1>4. Returned(calls_, k) = [calls_ EXCEPT ![m] = c]
  BY <1>1 DEF Returned
<1> HIDE DEF c, m
<1>5. /\ [calls_ EXCEPT ![m] = c] \in Seq(CallType) /\ Len([calls_ EXCEPT ![m] = c]) = m
      /\ [calls_ EXCEPT ![m] = c][m] = c
      /\ \A i \in 1..(m - 1) : [calls_ EXCEPT ![m] = c][i] = calls_[i]
  <2>1. m \in 1..Len(calls_) /\ Len(calls_) = m
    BY <1>1 DEF m
  <2> QED
    BY <1>3, <2>1, Replaced
<1> QED
  BY <1>1, <1>3, <1>4, <1>5 DEF m

\* A filter whose list has been read ends where the tuples read so far do.
LEMMA ReadIsNested ==
  ASSUME term \in Terms, NEW k \in 1..Len(term), NEW n \in k..Len(term),
         NEW list \in Seq(1..Len(term)), CallInv(k, list, n), Len(list) = Arity(k)
  PROVE  /\ LastOf(k) = n
         /\ ToCome(term, n) = ToCome(term, k - 1) - 1
         /\ \A e \in (k - 1)..(n - 1) : ToCome(term, e) > ToCome(term, n)
<1>0. Len(term) \in Nat /\ \A e \in 0..Len(term) : ToCome(term, e) \in Nat
  BY TermBounds
<1>1. /\ ToCome(term, k - 1) \in Int /\ Arity(k) \in Nat
      /\ ToCome(term, k) = (ToCome(term, k - 1) - 1) + Arity(k)
  <2>1. k - 1 \in 0..(Len(term) - 1) /\ (k - 1) + 1 = k
    BY <1>0
  <2> QED
    BY <1>0, <2>1, ToComeStep DEF Arity
<1>2. ToCome(term, n) = ToCome(term, k) - Arity(k)
      /\ \A e \in k..(n - 1) : ToCome(term, e) > ToCome(term, n)
  BY DEF CallInv
<1>3. ToCome(term, n) = ToCome(term, k - 1) - 1
  <2> DEFINE a == Arity(k)
             p == ToCome(term, k - 1)
             q == ToCome(term, k)
             r == ToCome(term, n)
  <2>1. a \in Nat /\ p \in Int /\ q = (p - 1) + a /\ r = q - a
    BY <1>1, <1>2
  <2> HIDE DEF a, p, q, r
  <2>2. r = p - 1
    BY <2>1
  <2> QED
    BY <2>2 DEF p, r
<1>4. \A e \in (k - 1)..(n - 1) : ToCome(term, e) > ToCome(term, n)
  <2> TAKE e \in (k - 1)..(n - 1)
  <2>1. e = k - 1 \/ e \in k..(n - 1)
    BY <1>0
  <2> QED
    BY <1>1, <1>2, <1>3, <2>1
<1>5. \A d \in k..(n - 1) : ToCome(term, d) >= ToCome(term, k - 1)
  <2> TAKE d \in k..(n - 1)
  <2>1. ToCome(term, d) > ToCome(term, n) /\ d \in 0..Len(term)
    BY <1>0, <1>2
  <2> QED
    BY <1>0, <1>1, <1>3, <2>1
<1>6. ToCome(term, n) < ToCome(term, k - 1)
  BY <1>1, <1>3
<1>7. LastOf(k) = n
  BY <1>5, <1>6, LastOfIs
<1> QED
  BY <1>3, <1>4, <1>7

\* Filter k is the last of those that end with tuple n, and one fewer is to come.
EndsAt(k, n) ==
  /\ LastOf(k) = n
  /\ ToCome(term, n) = ToCome(term, k - 1) - 1
  /\ \A e \in (k - 1)..(n - 1) : ToCome(term, e) > ToCome(term, n)

\* What CallInv says of filter p once filter k, which ends with tuple n, is in its list.
CallWith(p, list, k, n) ==
  /\ p <= n
  /\ list # <<>> /\ n = LastOf(Last(list))
  /\ ToCome(term, n) = ToCome(term, p) - Len(list)
  /\ \A e \in p..(n - 1) : ToCome(term, e) > ToCome(term, n)
  /\ Nesting(p, list)
  /\ ToSet(list) \subseteq DOMAIN downstream \union {k}

\* The caller's list and the tuples read, with one filter more.
LEMMA CallInvAppend ==
  ASSUME term \in Terms, NEW p \in 1..Len(term), NEW k \in 1..Len(term), NEW n \in k..Len(term),
         NEW list \in Seq(1..Len(term)), CallInv(p, list, k - 1), EndsAt(k, n)
  PROVE  CallWith(p, Append(list, k), k, n)
<1>00. PICK new : new = Append(list, k)
  OBVIOUS
<1>0. Len(term) \in Nat /\ \A e \in 0..Len(term) : ToCome(term, e) \in Nat
  BY TermBounds
<1> DEFINE l == Len(list)
<1>1. /\ new \in Seq(1..Len(term)) /\ Len(new) = l + 1 /\ new[l + 1] = k /\ l \in Nat
      /\ \A i \in 1..l : new[i] = list[i]
  BY <1>00
<1>2. new # <<>> /\ Last(new) = k
  BY <1>1 DEF Last
<1>3. ToSet(new) = ToSet(list) \union {k}
  <2>1. ToSet(Append(list, k)) = ToSet(list) \union {k}
    BY ToSetAppend
  <2> QED
    BY <1>00, <2>1
<1> HIDE DEF l
<1>10. /\ LastOf(k) = n /\ ToCome(term, n) = ToCome(term, k - 1) - 1
       /\ \A e \in (k - 1)..(n - 1) : ToCome(term, e) > ToCome(term, n)
  BY DEF EndsAt
<1>4. /\ p <= k - 1
      /\ k - 1 = IF list = <<>> THEN p ELSE LastOf(Last(list))
      /\ ToCome(term, k - 1) = ToCome(term, p) - l
      /\ \A e \in p..((k - 1) - 1) : ToCome(term, e) > ToCome(term, k - 1)
      /\ Nesting(p, list)
      /\ ToSet(list) \subseteq DOMAIN downstream
  BY DEF CallInv, l
<1>5. k - 1 \in 0..Len(term) /\ p \in 0..Len(term) /\ n \in 0..Len(term)
  BY <1>0
<1>6. ToCome(term, n) = ToCome(term, p) - (l + 1)
  BY <1>0, <1>1, <1>10, <1>4, <1>5
<1>7. \A e \in p..(n - 1) : ToCome(term, e) > ToCome(term, n)
  <2> TAKE e \in p..(n - 1)
  <2>1. CASE e \in (k - 1)..(n - 1)
    BY <1>10, <2>1
  <2>2. CASE e \in p..((k - 1) - 1)
    <3> DEFINE x == ToCome(term, e)
               y == ToCome(term, k - 1)
               z == ToCome(term, n)
    <3>1. e \in 0..Len(term) /\ x > y
      BY <1>0, <1>4, <2>2
    <3>2. x \in Nat /\ y \in Nat /\ z \in Nat /\ z = y - 1
      BY <1>0, <1>10, <1>5, <3>1
    <3> HIDE DEF x, y, z
    <3>3. x > z
      BY <3>1, <3>2
    <3> QED
      BY <3>3 DEF x, z
  <2>3. e \in (k - 1)..(n - 1) \/ e \in p..((k - 1) - 1)
    BY <1>0, <1>4
  <2> QED
    BY <2>1, <2>2, <2>3
<1>8. Nesting(p, new)
  <2> SUFFICES ASSUME NEW i \in 1..(l + 1)
               PROVE  new[i] = IF i = 1 THEN p + 1 ELSE LastOf(new[i - 1]) + 1
    BY <1>1 DEF Nesting
  <2>1. CASE i \in 1..l
    <3>1. new[i] = list[i] /\ list[i] = IF i = 1 THEN p + 1 ELSE LastOf(list[i - 1]) + 1
      BY <1>1, <1>4, <2>1 DEF Nesting, l
    <3>2. i # 1 => i - 1 \in 1..l
      BY <1>1, <2>1
    <3>3. i # 1 => new[i - 1] = list[i - 1]
      BY <1>1, <3>2
    <3> QED
      BY <3>1, <3>3
  <2>2. CASE i = l + 1 /\ l = 0
    <3>1. list = <<>>
      BY <2>2 DEF l
    <3>2. k - 1 = p
      BY <1>4, <3>1
    <3> QED
      BY <1>0, <1>1, <2>2, <3>2
  <2>3. CASE i = l + 1 /\ l # 0
    <3>1. list # <<>> /\ Last(list) = list[l]
      BY <2>3 DEF Last, l
    <3>2. k - 1 = LastOf(list[l])
      BY <1>4, <3>1
    <3>3. i - 1 = l /\ new[l] = list[l] /\ i # 1 /\ new[i] = k
      BY <1>1, <2>3
    <3>4. k = LastOf(list[l]) + 1
      <4> DEFINE x == LastOf(list[l])
      <4>1. k - 1 = x /\ k \in Int
        BY <1>0, <3>2
      <4> HIDE DEF x
      <4>2. k = x + 1
        BY <4>1
      <4> QED
        BY <4>2 DEF x
    <3> QED
      BY <3>3, <3>4
  <2> QED
    BY <1>1, <2>1, <2>2, <2>3
<1>9. p <= n
  BY <1>0, <1>4
<1> QED
  BY <1>00, <1>1, <1>2, <1>3, <1>10, <1>4, <1>6, <1>7, <1>8, <1>9 DEF CallWith

\* The filter is allocated and returned to the call before, or it is the outermost
\* and the whole term has been read.
LEMMA AllocateInv ==
  ASSUME BuildInv, AllocateInstance
  PROVE  BuildInv'
<1>00. PICK m, n, k, list :
         m = Len(reading) /\ n = index /\ k = reading[m].node /\ list = reading[m].children
  OBVIOUS
<1>0. /\ term \in Terms /\ Len(term) \in Nat /\ n \in 0..Len(term)
      /\ reading \in Seq(CallType) /\ m \in Nat /\ m >= 1 /\ DOMAIN reading = 1..m
      /\ reading # <<>> /\ Last(reading) = reading[m]
  <2>1. reading \in Seq(CallType) /\ reading # <<>>
    BY CallsAre DEF AllocateInstance
  <2>2. Len(reading) \in Nat /\ Len(reading) >= 1 /\ Last(reading) = reading[Len(reading)]
    BY <2>1, FrontIs
  <2> QED
    BY <1>00, <2>1, <2>2, CallsAre
<1>1. /\ phase = "build" /\ term' = term /\ index' = index
      /\ phase' = IF m = 1 THEN "run" ELSE "build"
      /\ Len(list) = Arity(k)
      /\ reading' = Returned(Front(reading), k)
      /\ downstream' = [a \in DOMAIN downstream \union {k} |-> IF a = k THEN list ELSE downstream[a]]
  BY <1>00, <1>0 DEF AllocateInstance, ListRead
<1>2. \A i \in 1..m :
        /\ reading[i].node \in 1..Len(term) /\ reading[i].children \in Seq(1..Len(term))
        /\ reading[i].node <= n
        /\ CallInv(reading[i].node, reading[i].children, ReadUpTo(i))
        /\ Len(reading[i].children) <= Arity(reading[i].node) - (IF i < m THEN 1 ELSE 0)
  <2>1. \A i \in 1..m :
          Len(reading[i].children) <= Arity(reading[i].node) - (IF i < Len(reading) THEN 1 ELSE 0)
    BY <1>0 DEF BuildInv
  <2> QED
    BY <1>00, <2>1, CallsAre
<1>3. \A i, j \in 1..m : i < j => reading[i].node < reading[j].node
  BY <1>0 DEF BuildInv
<1>4. n # 0 /\ reading[1].node = 1
  BY <1>00, <1>0, <1>1 DEF BuildInv
<1>5. /\ k \in 1..Len(term) /\ list \in Seq(1..Len(term)) /\ n \in k..Len(term)
      /\ CallInv(k, list, n)
  <2>1. m \in 1..m /\ ReadUpTo(m) = n
    BY <1>00, <1>0 DEF ReadUpTo
  <2>2. k \in 1..Len(term) /\ list \in Seq(1..Len(term)) /\ k <= n /\ CallInv(k, list, n)
    BY <1>00, <1>2, <2>1
  <2> QED
    BY <1>0, <2>2
<1>6. /\ LastOf(k) = n /\ ToCome(term, n) = ToCome(term, k - 1) - 1
      /\ \A e \in (k - 1)..(n - 1) : ToCome(term, e) > ToCome(term, n)
  BY <1>0, <1>1, <1>5, ReadIsNested
\* The stack after the step.
<1>7. /\ reading' \in Seq(CallType) /\ Len(reading') = m - 1
      /\ \A i \in 1..(m - 1) : reading'[i].node = reading[i].node
      /\ \A i \in 1..(m - 2) : reading'[i].children = reading[i].children
      /\ m > 1 => reading'[m - 1].children = Append(reading[m - 1].children, k)
  <2> DEFINE front == Front(reading)
  <2>1. front \in Seq(CallType) /\ Len(front) = m - 1 /\ \A i \in 1..(m - 1) : front[i] = reading[i]
    BY <1>00, <1>0, FrontIs
  <2> HIDE DEF front
  <2>2. reading' = Returned(front, k)
    BY <1>1 DEF front
  <2>3. CASE m = 1
    <3>1. front = <<>>
      BY <2>1, <2>3
    <3>2. reading' = <<>>
      BY <2>2, <3>1 DEF Returned
    <3>3. <<>> \in Seq(CallType) /\ Len(<<>>) = 0 /\ 1..(m - 1) = {} /\ 1..(m - 2) = {}
      BY <2>3
    <3> QED
      BY <2>3, <3>2, <3>3
  <2>4. CASE m > 1
    <3>1. front # <<>>
      BY <1>0, <2>1, <2>4
    <3>2. /\ Returned(front, k) \in Seq(CallType) /\ Len(Returned(front, k)) = m - 1
          /\ \A i \in 1..((m - 1) - 1) : Returned(front, k)[i] = front[i]
          /\ Returned(front, k)[m - 1].node = front[m - 1].node
          /\ Returned(front, k)[m - 1].children = Append(front[m - 1].children, k)
      <4>1. /\ Returned(front, k) \in Seq(CallType) /\ Len(Returned(front, k)) = Len(front)
            /\ \A i \in 1..(Len(front) - 1) : Returned(front, k)[i] = front[i]
            /\ Returned(front, k)[Len(front)].node = front[Len(front)].node
            /\ Returned(front, k)[Len(front)].children = Append(front[Len(front)].children, k)
        BY <1>5, <2>1, <3>1, ReturnedIs
      <4> QED
        BY <2>1, <4>1
    <3>3. 1..(m - 1) = (1..(m - 2)) \union {m - 1} /\ (m - 1) - 1 = m - 2
      BY <1>0, <2>4
    <3> QED
      BY <1>0, <2>1, <2>2, <3>2, <3>3
  <2> QED
    BY <1>0, <2>3, <2>4
<1>8. DOMAIN reading' = 1..(m - 1)
  BY <1>7, ElementOf
<1>9. Nodes' = Nodes \ {k} /\ k \in Nodes
  <2>1. Nodes = {reading[i].node : i \in 1..m} /\ Nodes' = {reading[i].node : i \in 1..(m - 1)}
    BY <1>0, <1>7, <1>8 DEF Nodes
  <2>2. 1..m = (1..(m - 1)) \union {m}
    BY <1>0
  <2>3. \A i \in 1..(m - 1) : reading[i].node < k
    BY <1>00, <1>0, <1>3
  <2>4. \A i \in 1..(m - 1) : reading[i].node # k
    BY <1>2, <1>5, <2>2, <2>3
  <2> QED
    BY <1>00, <2>1, <2>2, <2>4
<1>10. DOMAIN downstream = (1..n) \ Nodes /\ k \notin DOMAIN downstream
       /\ DOMAIN downstream' = DOMAIN downstream \union {k}
       /\ downstream'[k] = list /\ \A a \in DOMAIN downstream : downstream'[a] = downstream[a]
  <2>1. DOMAIN downstream = (1..n) \ Nodes
    BY <1>00 DEF BuildInv
  <2>2. k \notin DOMAIN downstream
    BY <1>9, <2>1
  <2> QED
    BY <1>1, <2>1, <2>2
<1>11. DOMAIN downstream' = (1..n) \ Nodes'
  BY <1>5, <1>9, <1>10
<1>12. \A a : LastOf(a)' = LastOf(a)
  BY <1>1 DEF LastOf
<1>13. \A a, l, u : CallInv(a, l, u) => CallInv(a, l, u)'
  BY <1>1, <1>10, <1>12 DEF CallInv, Nesting
<1>14. (\A i \in DOMAIN reading :
          /\ reading[i].node <= index
          /\ Len(reading[i].children) <= Arity(reading[i].node) - (IF i < Len(reading) THEN 1 ELSE 0)
          /\ CallInv(reading[i].node, reading[i].children, ReadUpTo(i)))'
  <2> SUFFICES ASSUME NEW i \in 1..(m - 1)
               PROVE  /\ reading'[i].node <= index'
                      /\ Len(reading'[i].children) <= term'[reading'[i].node].arity - (IF i < Len(reading') THEN 1 ELSE 0)
                      /\ CallInv(reading[i].node, reading[i].children, ReadUpTo(i))'
    BY <1>8 DEF Arity
  <2>0. i \in 1..m /\ i < m
    BY <1>0
  <2>1. PICK a, l, u : a = reading[i].node /\ l = reading[i].children /\ u = ReadUpTo(i)
    OBVIOUS
  <2>2. /\ a \in 1..Len(term) /\ l \in Seq(1..Len(term)) /\ a <= n /\ CallInv(a, l, u)
        /\ Len(l) <= Arity(a) - 1
    BY <1>2, <2>0, <2>1
  <2>3. reading'[i].node = a
    BY <1>7, <2>1
  <2>4. CASE i < m - 1
    <3>1. i \in 1..(m - 2) /\ i + 1 \in 1..(m - 1)
      BY <1>0, <2>4
    <3>2. reading'[i].children = l
      BY <1>7, <2>1, <3>1
    <3>3. ReadUpTo(i)' = u
      <4>1. i # Len(reading) /\ i # Len(reading')
        BY <1>00, <1>0, <1>7, <2>0, <2>4
      <4>2. reading'[i + 1].node = reading[i + 1].node
        BY <1>7, <3>1
      <4> QED
        BY <2>1, <4>1, <4>2 DEF ReadUpTo
    <3>4. CallInv(a, l, u)'
      BY <1>13, <2>2
    <3>5. CallInv(reading[i].node, reading[i].children, ReadUpTo(i))'
      BY <2>3, <3>2, <3>3, <3>4 DEF CallInv, Nesting
    <3>6. i < Len(reading')
      BY <1>7, <2>4
    <3> QED
      BY <1>00, <1>1, <2>2, <2>3, <3>2, <3>5, <3>6 DEF Arity
  <2>5. CASE i = m - 1
    <3>1. u = k - 1
      <4>1. i # Len(reading) /\ i + 1 = m
        BY <1>00, <1>0, <2>5
      <4> QED
        BY <1>00, <2>1, <4>1 DEF ReadUpTo
    <3>2. m > 1 /\ reading'[i].children = Append(l, k)
      BY <1>0, <1>7, <2>1, <2>5
    <3>3. PICK new : new = Append(l, k)
      OBVIOUS
    <3>4. /\ a <= n /\ new # <<>> /\ n = LastOf(Last(new))
          /\ ToCome(term, n) = ToCome(term, a) - Len(new)
          /\ \A e \in a..(n - 1) : ToCome(term, e) > ToCome(term, n)
          /\ Nesting(a, new)
          /\ ToSet(new) \subseteq DOMAIN downstream \union {k}
      <4>1. CallInv(a, l, k - 1)
        BY <2>2, <3>1
      <4>2. /\ term \in Terms /\ a \in 1..Len(term) /\ k \in 1..Len(term) /\ n \in k..Len(term)
            /\ l \in Seq(1..Len(term))
        BY <1>0, <1>5, <2>2
      <4>3. EndsAt(k, n)
        BY <1>6 DEF EndsAt
      <4>4. CallWith(a, Append(l, k), k, n)
        BY <4>1, <4>2, <4>3, CallInvAppend
      <4> QED
        BY <3>3, <4>4 DEF CallWith
    <3>5. CallInv(a, new, n)'
      BY <1>1, <1>10, <1>12, <3>4 DEF CallInv, Nesting
    <3>6. ReadUpTo(i)' = n
      BY <1>00, <1>1, <1>7, <2>5 DEF ReadUpTo
    <3>7. CallInv(reading[i].node, reading[i].children, ReadUpTo(i))'
      BY <2>3, <3>2, <3>3, <3>5, <3>6 DEF CallInv, Nesting
    <3>8. Len(Append(l, k)) = Len(l) + 1 /\ Len(l) \in Nat
      BY <2>2
    <3>9. ~ (i < Len(reading')) /\ Arity(a) \in Nat
      BY <1>0, <1>7, <2>2, <2>5, TupleType DEF Arity
    <3>10. Len(Append(l, k)) <= Arity(a) - 0
      BY <2>2, <3>8, <3>9
    <3> QED
      BY <1>00, <1>1, <2>2, <2>3, <3>2, <3>7, <3>9, <3>10 DEF Arity
  <2>6. i < m - 1 \/ i = m - 1
    BY <1>0
  <2> QED
    BY <2>4, <2>5, <2>6
\* The lists after the step: filter k is in that of its caller.
<1>15. \A a, d : Holds(a, d)' => Holds(a, d) \/ (m > 1 /\ a = reading[m - 1].node /\ d = k)
  <2> SUFFICES ASSUME NEW a, NEW d, Holds(a, d)'
               PROVE  Holds(a, d) \/ (m > 1 /\ a = reading[m - 1].node /\ d = k)
    OBVIOUS
  <2>1. CASE a \in DOMAIN downstream' /\ d \in ToSet(downstream'[a])
    <3>1. CASE a = k
      <4>1. m \in DOMAIN reading /\ reading[m].node = a /\ d \in ToSet(reading[m].children)
        BY <1>00, <1>0, <1>10, <2>1, <3>1
      <4> QED
        BY <4>1 DEF Holds
    <3>2. CASE a # k
      BY <1>10, <2>1, <3>2 DEF Holds
    <3> QED
      BY <3>1, <3>2
  <2>2. CASE \E i \in DOMAIN reading' : reading'[i].node = a /\ d \in ToSet(reading'[i].children)
    <3>1. PICK i \in 1..(m - 1) : reading'[i].node = a /\ d \in ToSet(reading'[i].children)
      BY <1>8, <2>2
    <3>2. i \in 1..m /\ reading[i].node = a
      BY <1>0, <1>7, <3>1
    <3>3. CASE i \in 1..(m - 2)
      BY <1>0, <1>7, <3>1, <3>2, <3>3 DEF Holds
    <3>4. CASE i = m - 1
      <4>1. m > 1 /\ reading[i].children \in Seq(1..Len(term))
        BY <1>0, <1>2, <3>2, <3>4
      <4>2. ToSet(reading'[i].children) = ToSet(reading[i].children) \union {k}
        <5>1. PICK l \in Seq(1..Len(term)) : l = reading[i].children
          BY <4>1
        <5>2. ToSet(Append(l, k)) = ToSet(l) \union {k}
          BY <1>5, ToSetAppend
        <5> QED
          BY <1>7, <3>4, <4>1, <5>1, <5>2
      <4> QED
        BY <1>0, <3>1, <3>2, <3>4, <4>1, <4>2 DEF Holds
    <3>5. i \in 1..(m - 2) \/ i = m - 1
      BY <1>0
    <3> QED
      BY <3>3, <3>4, <3>5
  <2>3. \/ a \in DOMAIN downstream' /\ d \in ToSet(downstream'[a])
        \/ \E i \in DOMAIN reading' : reading'[i].node = a /\ d \in ToSet(reading'[i].children)
    BY DEF Holds
  <2> QED
    BY <2>1, <2>2, <2>3
<1>16. \A a, d : Holds(a, d) => Holds(a, d)'
  <2> SUFFICES ASSUME NEW a, NEW d, Holds(a, d) PROVE Holds(a, d)'
    OBVIOUS
  <2>1. CASE a \in DOMAIN downstream /\ d \in ToSet(downstream[a])
    BY <1>10, <2>1 DEF Holds
  <2>2. CASE \E i \in DOMAIN reading : reading[i].node = a /\ d \in ToSet(reading[i].children)
    <3>1. PICK i \in 1..m : reading[i].node = a /\ d \in ToSet(reading[i].children)
      BY <1>0, <2>2
    <3>2. CASE i = m
      <4>1. k \in DOMAIN downstream' /\ a = k /\ d \in ToSet(downstream'[k])
        BY <1>00, <1>10, <3>1, <3>2
      <4> QED
        BY <4>1 DEF Holds
    <3>3. CASE i \in 1..(m - 1)
      <4>1. d \in ToSet(reading'[i].children)
        <5>1. CASE i \in 1..(m - 2)
          BY <1>7, <3>1, <5>1
        <5>2. CASE i = m - 1
          <6>1. m > 1 /\ reading[i].children \in Seq(1..Len(term))
            BY <1>0, <1>2, <3>3, <5>2
          <6>2. ToSet(reading'[i].children) = ToSet(reading[i].children) \union {k}
            <7>1. PICK l \in Seq(1..Len(term)) : l = reading[i].children
              BY <6>1
            <7>2. ToSet(Append(l, k)) = ToSet(l) \union {k}
              BY <1>5, ToSetAppend
            <7> QED
              BY <1>7, <5>2, <6>1, <7>1, <7>2
          <6> QED
            BY <3>1, <6>2
        <5>3. i \in 1..(m - 2) \/ i = m - 1
          BY <1>0, <3>3
        <5> QED
          BY <5>1, <5>2, <5>3
      <4>2. reading'[i].node = a /\ i \in DOMAIN reading'
        BY <1>7, <1>8, <3>1, <3>3
      <4> QED
        BY <4>1, <4>2 DEF Holds
    <3>4. i = m \/ i \in 1..(m - 1)
      BY <1>0
    <3> QED
      BY <3>2, <3>3, <3>4
  <2> QED
    BY <2>1, <2>2 DEF Holds
<1>17. \A a : m > 1 /\ a = reading[m - 1].node => Holds(a, k)'
  <2> SUFFICES ASSUME m > 1, NEW a, a = reading[m - 1].node PROVE Holds(a, k)'
    OBVIOUS
  <2>1. PICK l \in Seq(1..Len(term)) : l = reading[m - 1].children
    BY <1>0, <1>2
  <2>2. ToSet(Append(l, k)) = ToSet(l) \union {k}
    BY <1>5, ToSetAppend
  <2>3. m - 1 \in DOMAIN reading' /\ reading'[m - 1].node = a /\ k \in ToSet(reading'[m - 1].children)
    <3>1. m - 1 \in 1..(m - 1) /\ reading'[m - 1].children = Append(l, k)
      BY <1>0, <1>7, <2>1
    <3> QED
      BY <1>7, <1>8, <2>2, <3>1
  <2> QED
    BY <2>3 DEF Holds
<1>18. PlaceInv'
  <2>0. /\ \A a, d \in 1..Len(term) : Holds(a, d) => a < d /\ d \notin Nodes
        /\ \A a, b, d \in 1..Len(term) : Holds(a, d) /\ Holds(b, d) => a = b
        /\ \A d \in 2..n : d \notin Nodes => \E a \in 1..Len(term) : Holds(a, d)
    BY <1>00 DEF PlaceInv, BuildInv
  <2>1. \A a, d \in 1..Len(term) : Holds(a, d)' => a < d /\ d \notin Nodes'
    <3> SUFFICES ASSUME NEW a \in 1..Len(term), NEW d \in 1..Len(term), Holds(a, d)'
                 PROVE  a < d /\ d \notin Nodes'
      OBVIOUS
    <3>1. CASE Holds(a, d)
      BY <1>9, <2>0, <3>1
    <3>2. CASE m > 1 /\ a = reading[m - 1].node /\ d = k
      BY <1>00, <1>0, <1>3, <1>9, <3>2
    <3> QED
      BY <1>15, <3>1, <3>2
  <2>2. \A a, b, d \in 1..Len(term) : Holds(a, d)' /\ Holds(b, d)' => a = b
    <3>1. \A a, d \in 1..Len(term) : Holds(a, d) => d # k
      BY <1>9, <2>0
    <3> QED
      BY <1>15, <2>0, <3>1
  <2>3. \A d \in 2..n : d \notin Nodes' => \E a \in 1..Len(term) : Holds(a, d)'
    <3> SUFFICES ASSUME NEW d \in 2..n, d \notin Nodes' PROVE \E a \in 1..Len(term) : Holds(a, d)'
      OBVIOUS
    <3>1. CASE d # k
      BY <1>9, <1>16, <2>0, <3>1
    <3>2. CASE d = k
      <4>1. m # 1
        BY <1>00, <1>0, <1>4, <3>2
      <4>2. m > 1 /\ reading[m - 1].node \in 1..Len(term)
        BY <1>0, <1>2, <4>1
      <4> QED
        BY <1>17, <3>2, <4>2
    <3> QED
      BY <3>1, <3>2
  <2> QED
    BY <1>00, <1>1, <2>1, <2>2, <2>3 DEF PlaceInv
<1>19. m = 1 => reading' = <<>> /\ n = Len(term) /\ DOMAIN downstream' = 1..Len(term)
  <2> SUFFICES ASSUME m = 1 PROVE reading' = <<>> /\ n = Len(term) /\ DOMAIN downstream' = 1..Len(term)
    OBVIOUS
  <2>1. reading' = <<>>
    BY <1>7
  <2>2. k = 1 /\ ToCome(term, 0) = 1
    BY <1>00, <1>0, <1>4, TermBounds
  <2>3. ToCome(term, n) = 0
    BY <1>6, <2>2
  <2>4. n = Len(term)
    BY <1>0, <2>3, TermBounds
  <2>5. Nodes' = {}
    BY <1>8, <2>1 DEF Nodes
  <2> QED
    BY <1>11, <2>1, <2>4, <2>5
<1>20. GraphIsTerm'
  <2>0. \A a \in DOMAIN downstream :
          /\ Len(downstream[a]) = Arity(a) /\ ToSet(downstream[a]) \subseteq DOMAIN downstream
          /\ Nesting(a, downstream[a])
    BY DEF BuildInv, GraphIsTerm, Nesting
  <2>1. Len(list) = Arity(k) /\ ToSet(list) \subseteq DOMAIN downstream /\ Nesting(k, list)
    BY <1>1, <1>5 DEF CallInv
  <2>2. \A a \in DOMAIN downstream' :
          /\ Len(downstream'[a]) = Arity(a) /\ ToSet(downstream'[a]) \subseteq DOMAIN downstream'
          /\ Nesting(a, downstream'[a])
    BY <1>10, <2>0, <2>1
  <2>3. \A a : Arity(a)' = Arity(a)
    BY <1>1 DEF Arity
  <2>4. phase' \notin {"build", "exited"} => DOMAIN downstream' = 1..Len(term) /\ reading' = <<>>
    BY <1>1, <1>19
  <2> QED
    <3>1. \A a \in DOMAIN downstream' : Nesting(a, downstream[a])'
      <4> TAKE a \in DOMAIN downstream'
      <4>1. PICK l : l = downstream'[a]
        OBVIOUS
      <4>2. Nesting(a, l)
        BY <2>2, <4>1
      <4>3. Nesting(a, l)'
        BY <1>12, <4>2 DEF Nesting
      <4> QED
        BY <4>1, <4>3 DEF Nesting
    <3>2. (\A a \in DOMAIN downstream :
             /\ Len(downstream[a]) = Arity(a)
             /\ ToSet(downstream[a]) \subseteq DOMAIN downstream
             /\ Nesting(a, downstream[a]))'
      BY <2>2, <2>3, <3>1
    <3> QED
      BY <1>1, <2>4, <3>2 DEF GraphIsTerm, Nesting
<1>21. \A a \in DOMAIN downstream' : downstream'[a] \in Seq(1..Len(term))
  <2>1. \A a \in DOMAIN downstream : downstream[a] \in Seq(1..Len(term))
    BY DEF BuildInv
  <2> QED
    BY <1>5, <1>10, <2>1
<1>22. \A i, j \in 1..(m - 1) : i < j => reading'[i].node < reading'[j].node
  <2>1. 1..(m - 1) \subseteq 1..m
    BY <1>0
  <2> QED
    BY <1>3, <1>7, <2>1
<1>23. m > 1 => reading' # <<>> /\ reading'[1].node = 1
  BY <1>0, <1>4, <1>7
<1>24. IF index' = 0 THEN reading' = <<>> /\ phase' = "build"
       ELSE IF phase' \in {"build", "exited"} THEN reading' # <<>> /\ reading'[1].node = 1
       ELSE reading' = <<>> /\ index' = Len(term')
  BY <1>00, <1>0, <1>1, <1>4, <1>19, <1>23
<1>25. reading' \in Seq([node : 1..Len(term'), children : Seq(1..Len(term'))])
  BY <1>1, <1>7 DEF CallType
<1>26. DOMAIN downstream' = (1..index') \ Nodes' /\ index' \in 0..Len(term') /\ term' \in Terms
  BY <1>00, <1>0, <1>1, <1>11
<1>27. (\A i, j \in DOMAIN reading : i < j => reading[i].node < reading[j].node)'
  BY <1>8, <1>22
<1>28. (\A a \in DOMAIN downstream : downstream[a] \in Seq(1..Len(term)))'
  BY <1>1, <1>21
<1> QED
  BY <1>14, <1>18, <1>20, <1>24, <1>25, <1>26, <1>27, <1>28 DEF BuildInv

\* Every step of the construction.
LEMMA BuildStep ==
  ASSUME BuildInv, Build
  PROVE  BuildInv'
<1>1. CASE ReadFilter
  BY <1>1, ReadFilterInv
<1>2. CASE AllocateInstance
  BY <1>2, AllocateInv
<1>3. CASE Refuse
  <2>1. phase = "build" /\ phase' = "exited" /\ reading # <<>> /\ UNCHANGED buildVars
    BY <1>3 DEF Refuse
  <2> QED
    BY <2>1, BuildUnchanged
<1> QED
  BY <1>1, <1>2, <1>3 DEF Build

-----------------------------------------------------------------------------
(* The graph at work.                                                      *)

\* A graph that is built is a tree of the term's filters below the first.
LEMMA Tree ==
  ASSUME BuildInv, phase \notin {"build", "exited"}
  PROVE  /\ term \in Terms /\ Len(term) \in Nat /\ Len(term) >= 1 /\ DOMAIN term = 1..Len(term)
         /\ \A k \in 1..Len(term) : ToSet(downstream[k]) \subseteq 2..Len(term)
         /\ \A k, d \in 1..Len(term) : d \in ToSet(downstream[k]) => k < d
         /\ \A k, l, d \in 1..Len(term) :
              d \in ToSet(downstream[k]) /\ d \in ToSet(downstream[l]) => k = l
         /\ \A d \in 2..Len(term) : \E k \in 1..Len(term) : d \in ToSet(downstream[k])
<1>1. term \in Terms /\ Len(term) \in Nat /\ Len(term) >= 1 /\ DOMAIN term = 1..Len(term)
  BY CallsAre, TermBounds
<1>2. reading = <<>> /\ index = Len(term) /\ DOMAIN downstream = 1..Len(term)
      /\ \A k \in 1..Len(term) : ToSet(downstream[k]) \subseteq 1..Len(term)
  BY DEF BuildInv, GraphIsTerm
<1>3. Nodes = {} /\ \A k \in 1..Len(term) : \A d : Holds(k, d) <=> d \in ToSet(downstream[k])
  BY <1>2 DEF Nodes, Holds
<1>4. PlaceInv
  BY DEF BuildInv
<1>5. \A k, d \in 1..Len(term) : d \in ToSet(downstream[k]) => k < d
  BY <1>3, <1>4 DEF PlaceInv
<1>6. \A k, l, d \in 1..Len(term) :
        d \in ToSet(downstream[k]) /\ d \in ToSet(downstream[l]) => k = l
  BY <1>3, <1>4 DEF PlaceInv
<1>7. \A d \in 2..Len(term) : \E k \in 1..Len(term) : d \in ToSet(downstream[k])
  BY <1>2, <1>3, <1>4 DEF PlaceInv
<1>8. \A k \in 1..Len(term) : ToSet(downstream[k]) \subseteq 2..Len(term)
  BY <1>1, <1>2, <1>5
<1> QED
  BY <1>1, <1>5, <1>6, <1>7, <1>8

\* Where the downstream filters of a filter begin: each when those before it in
\* the list have come, with more to come at every place between.
LEMMA DownstreamBegins ==
  ASSUME BuildInv, phase \notin {"build", "exited"}, NEW k \in 1..Len(term),
         NEW i \in 1..Len(downstream[k])
  PROVE  /\ downstream[k][i] \in (k + 1)..Len(term)
         /\ ToCome(term, downstream[k][i] - 1) = ToCome(term, k) - (i - 1)
         /\ \A e \in k..(downstream[k][i] - 2) :
              ToCome(term, e) > ToCome(term, downstream[k][i] - 1)
<1> DEFINE list == downstream[k]
           n == Len(list)
           Begins(j, d) == /\ d \in (k + 1)..Len(term)
                           /\ ToCome(term, d - 1) = ToCome(term, k) - (j - 1)
                           /\ \A e \in k..(d - 2) : ToCome(term, e) > ToCome(term, d - 1)
           T == {j \in Nat : j + 1 <= n => Begins(j + 1, list[j + 1])}
<1>1. term \in Terms /\ Len(term) \in Nat /\ \A e \in 0..Len(term) : ToCome(term, e) \in Nat
  BY TermBounds DEF BuildInv
<1>2. DOMAIN downstream = 1..Len(term) /\ list \in Seq(1..Len(term))
  BY DEF BuildInv, GraphIsTerm
<1>3. n \in Nat /\ \A j \in 1..n : list[j] \in 1..Len(term)
  BY <1>2, ElementOf
<1>4. \A j \in 1..n : list[j] = IF j = 1 THEN k + 1 ELSE LastOf(list[j - 1]) + 1
  BY <1>2 DEF BuildInv, GraphIsTerm
<1> HIDE DEF list, n
<1>5. 0 \in T
  <2> SUFFICES ASSUME 1 <= n PROVE Begins(1, list[1])
    OBVIOUS
  <2>1. list[1] = k + 1 /\ list[1] \in 1..Len(term)
    BY <1>3, <1>4
  <2>2. (k + 1) - 1 = k /\ (k + 1) - 2 = k - 1 /\ k..(k - 1) = {} /\ ToCome(term, k) \in Nat
    BY <1>1
  <2> QED
    BY <1>1, <2>1, <2>2
<1>6. ASSUME NEW j \in T PROVE j + 1 \in T
  <2> SUFFICES ASSUME (j + 1) + 1 <= n PROVE Begins((j + 1) + 1, list[(j + 1) + 1])
    OBVIOUS
  <2>0. j \in Nat /\ j + 1 \in 1..n /\ j + 2 \in 1..n /\ (j + 1) + 1 = j + 2
    BY <1>3
  <2>1. PICK d \in 1..Len(term) : d = list[j + 1]
    BY <1>3, <2>0
  <2>2. /\ d \in (k + 1)..Len(term)
        /\ ToCome(term, d - 1) = ToCome(term, k) - ((j + 1) - 1)
        /\ \A e \in k..(d - 2) : ToCome(term, e) > ToCome(term, d - 1)
    BY <2>0, <2>1
  <2>3. PICK l \in d..Len(term) : l = LastOf(d)
    BY <1>1, LastOfFalls
  <2>4. /\ ToCome(term, l) = ToCome(term, d - 1) - 1
        /\ \A e \in d..(l - 1) : ToCome(term, e) >= ToCome(term, d - 1)
    BY <1>1, <2>3, LastOfFalls
  <2>5. list[j + 2] = l + 1
    <3>1. list[j + 2] = LastOf(list[(j + 2) - 1]) + 1
      BY <1>4, <2>0
    <3>2. (j + 2) - 1 = j + 1
      BY <2>0
    <3> QED
      BY <2>1, <2>3, <3>1, <3>2
  <2>6. l + 1 \in (k + 1)..Len(term)
    <3>1. l + 1 \in 1..Len(term)
      BY <1>3, <2>0, <2>5
    <3> QED
      BY <1>1, <2>2, <2>3, <3>1
  <2>7. d \in Nat /\ l \in Nat /\ k \in Nat /\ ToCome(term, d - 1) \in Nat /\ ToCome(term, k) \in Nat
        /\ ToCome(term, l) \in Nat
    BY <1>1, <2>2, <2>3
  <2>8. ToCome(term, l) = ToCome(term, k) - ((j + 2) - 1)
    BY <2>0, <2>2, <2>4, <2>7
  <2>9. ASSUME NEW e \in k..(l - 1) PROVE ToCome(term, e) > ToCome(term, l)
    <3>1. e \in k..(d - 2) \/ e = d - 1 \/ e \in d..(l - 1)
      BY <2>2, <2>3, <2>7, <2>9
    <3>2. ToCome(term, e) \in Nat
      BY <1>1, <2>3, <2>9
    <3>3. ToCome(term, e) >= ToCome(term, d - 1)
      <4>1. CASE e \in k..(d - 2)
        <5>1. ToCome(term, e) > ToCome(term, d - 1)
          BY <2>2, <4>1
        <5> QED
          BY <2>7, <3>2, <5>1
      <4>2. CASE e = d - 1
        BY <2>7, <4>2
      <4>3. CASE e \in d..(l - 1)
        BY <2>4, <4>3
      <4> QED
        BY <3>1, <4>1, <4>2, <4>3
    <3> QED
      BY <2>4, <2>7, <3>2, <3>3
  <2>10. (l + 1) - 1 = l /\ (l + 1) - 2 = l - 1
    BY <2>7
  <2> QED
    BY <2>0, <2>5, <2>6, <2>8, <2>9, <2>10
<1>7. T = Nat
  <2>1. T \in SUBSET Nat
    BY DEF T
  <2> HIDE DEF T
  <2> QED
    BY <1>5, <1>6, <2>1, SetInduction
<1>8. i - 1 \in T /\ (i - 1) + 1 = i /\ i <= n
  <2>1. i \in 1..n
    BY DEF n, list
  <2>2. i - 1 \in Nat /\ (i - 1) + 1 = i /\ i <= n
    BY <1>3, <2>1
  <2> HIDE DEF T
  <2> QED
    BY <1>7, <2>2
<1>9. Begins(i, list[i])
  BY <1>8
<1> QED
  BY <1>9 DEF list

\* The frames of a filter come through those of the filter it is downstream of, and
\* that one: the ranges of nested filters do not overlap.
LEMMA UpstreamOfDownstream ==
  ASSUME BuildInv, phase \notin {"build", "exited"}, NEW k \in 1..Len(term),
         NEW d \in ToSet(downstream[k])
  PROVE  Upstream(d) = Upstream(k) \union {k}
<1>1. /\ term \in Terms /\ Len(term) \in Nat /\ DOMAIN term = 1..Len(term)
      /\ \A e \in 0..Len(term) : ToCome(term, e) \in Nat
  BY TermBounds DEF BuildInv
<1>2. DOMAIN downstream = 1..Len(term) /\ downstream[k] \in Seq(1..Len(term))
      /\ Len(downstream[k]) = Arity(k)
  BY DEF BuildInv, GraphIsTerm
<1>3. PICK i \in 1..Len(downstream[k]) : d = downstream[k][i]
  <2>1. DOMAIN downstream[k] = 1..Len(downstream[k])
    BY <1>2, ElementOf
  <2> QED
    BY <2>1 DEF ToSet
<1>4. /\ d \in (k + 1)..Len(term)
      /\ ToCome(term, d - 1) = ToCome(term, k) - (i - 1)
      /\ \A e \in k..(d - 2) : ToCome(term, e) > ToCome(term, d - 1)
  BY <1>3, DownstreamBegins
<1>5. ToCome(term, d - 1) >= ToCome(term, k - 1)
  <2> DEFINE a == Arity(k)
  <2>1. k - 1 \in 0..(Len(term) - 1) /\ (k - 1) + 1 = k
    BY <1>1
  <2>2. /\ ToCome(term, k - 1) \in Int /\ a \in Nat
        /\ ToCome(term, k) = (ToCome(term, k - 1) - 1) + a
    BY <1>1, <2>1, ToComeStep DEF Arity
  <2>3. i \in 1..a
    BY <1>2, <1>3
  <2> HIDE DEF a
  <2> QED
    BY <1>4, <2>2, <2>3
<1>6. d \in Nat /\ k \in Nat /\ k >= 1 /\ k < d /\ d <= Len(term) /\ ToCome(term, k - 1) \in Nat
      /\ ToCome(term, d - 1) \in Nat
  BY <1>1, <1>4
<1>7. \A e \in k..(d - 1) : ToCome(term, e) >= ToCome(term, k - 1)
  <2> TAKE e \in k..(d - 1)
  <2>1. e = d - 1 \/ e \in k..(d - 2)
    BY <1>6
  <2>2. ToCome(term, e) \in Nat
    BY <1>1, <1>6
  <2> QED
    BY <1>4, <1>5, <1>6, <2>1, <2>2
\* A filter that begins no later than k and ends no earlier than it begins has d.
<1>8. ASSUME NEW j \in 1..Len(term), j <= k, k <= LastOf(j) PROVE d <= LastOf(j)
  <2>1. PICK l \in j..Len(term) : l = LastOf(j)
    BY <1>1, LastOfFalls
  <2>2. /\ ToCome(term, l) = ToCome(term, j - 1) - 1
        /\ \A e \in j..(l - 1) : ToCome(term, e) >= ToCome(term, j - 1)
    BY <1>1, <2>1, LastOfFalls
  <2>3. ToCome(term, k - 1) >= ToCome(term, j - 1)
    <3>1. k - 1 = j - 1 \/ k - 1 \in j..(l - 1)
      BY <1>6, <1>8, <2>1
    <3> QED
      BY <1>6, <2>2, <3>1
  <2>4. j - 1 \in 0..Len(term) /\ l \in 0..Len(term) /\ l \in Nat
    BY <1>1, <2>1
  <2>5. ToCome(term, j - 1) \in Nat /\ ToCome(term, l) \in Nat
    BY <1>1, <2>4
  <2>6. ~(l \in k..(d - 1))
    BY <1>6, <1>7, <2>2, <2>3, <2>5
  <2> QED
    BY <1>6, <1>8, <2>1, <2>4, <2>6
\* A filter that begins behind k and before d ends before d.
<1>9. ASSUME NEW j \in 1..Len(term), k < j, j < d PROVE LastOf(j) < d
  <2>1. PICK l \in j..Len(term) : l = LastOf(j)
    BY <1>1, LastOfFalls
  <2>2. \A e \in j..(l - 1) : ToCome(term, e) >= ToCome(term, j - 1)
    BY <1>1, <2>1, LastOfFalls
  <2>3. j - 1 \in k..(d - 2) /\ l \in Nat /\ j \in Nat
    BY <1>6, <1>9, <2>1
  <2>4. ToCome(term, j - 1) > ToCome(term, d - 1)
    BY <1>4, <2>3
  <2>5. ToCome(term, j - 1) \in Nat
    BY <1>1, <1>6, <1>9
  <2>6. ~(d - 1 \in j..(l - 1))
    BY <1>6, <2>2, <2>4, <2>5
  <2> QED
    BY <1>6, <1>9, <2>1, <2>3, <2>6
<1>10. ASSUME NEW j \in 1..Len(term)
       PROVE  d \in Nested(j) \ {j} <=> (j = k \/ k \in Nested(j) \ {j})
  <2>1. PICK l \in j..Len(term) : l = LastOf(j)
    BY <1>1, LastOfFalls
  <2>2. l \in Nat /\ j \in Nat
    BY <1>1, <2>1
  <2>3. CASE j <= k
    <3>1. k <= l => d <= l
      BY <1>8, <2>1, <2>3
    <3> QED
      BY <1>6, <2>1, <2>2, <2>3, <3>1 DEF Nested
  <2>4. CASE k < j /\ j < d
    <3>1. l < d
      BY <1>9, <2>1, <2>4
    <3> QED
      BY <1>6, <2>1, <2>2, <2>4, <3>1 DEF Nested
  <2>5. CASE d <= j
    BY <1>6, <2>1, <2>2, <2>5 DEF Nested
  <2> QED
    BY <1>6, <2>2, <2>3, <2>4, <2>5
<1> QED
  BY <1>1, <1>10 DEF Upstream

\* Nothing is upstream of the input.
LEMMA UpstreamOfInput ==
  ASSUME term \in Terms
  PROVE  Upstream(1) = {}
<1>1. Len(term) \in Nat /\ DOMAIN term = 1..Len(term)
  BY TermBounds
<1>2. ASSUME NEW j \in 1..Len(term) PROVE 1 \notin Nested(j) \ {j}
  <2>1. PICK l \in j..Len(term) : l = LastOf(j)
    BY <1>1, LastOfFalls
  <2> QED
    BY <1>1, <2>1 DEF Nested
<1> QED
  BY <1>1, <1>2 DEF Upstream

\* What is said of the term alone stays when the term does.
LEMMA TermStays ==
  ASSUME term' = term
  PROVE  /\ \A k : Name(k)' = Name(k) /\ Upstream(k)' = Upstream(k)
         /\ FlushReaches' = FlushReaches
         /\ \A f, passed : MediaOf(f, passed)' <=> MediaOf(f, passed)
<1>1. \A k : Name(k)' = Name(k)
  BY DEF Name
<1>2. \A k : Upstream(k)' = Upstream(k)
  BY DEF Upstream, Nested, LastOf
<1>3. FlushReaches' = FlushReaches
  BY <1>1, <1>2 DEF FlushReaches
<1>4. \A f, passed : MediaOf(f, passed)' <=> MediaOf(f, passed)
  BY <1>1 DEF MediaOf
<1> QED
  BY <1>1, <1>2, <1>3, <1>4

\* What the invariant says of an execute to come.
CallOk(c) ==
  /\ c \in [node : 2..Len(term), frame : Frame]
  /\ MediaOf(c.frame, Upstream(c.node))
  /\ c.node \notin flushed

\* The frames an input sends.
LEMMA InputFrameOk ==
  ASSUME term \in Terms
  PROVE  InputFrame \in Frame /\ MediaOf(InputFrame, {1})
<1>1. Name(1) \in Inputs
  BY MediumAssumption DEF Name
<1>2. Name(1) \notin Outputs
  BY <1>1 DEF Inputs, Outputs
<1>3. CASE Name(1) = "encoded video input"
  BY <1>2, <1>3 DEF InputFrame, DecodedVideo, Frame, MediaOf, VideoInputs
<1>4. CASE Name(1) = "encoded audio input"
  BY <1>2, <1>4 DEF InputFrame, DecodedAudio, Frame, MediaOf, VideoInputs
<1>5. CASE Name(1) = "raw video input"
  BY <1>2, <1>5 DEF InputFrame, RawVideo, Frame, MediaOf, VideoInputs
<1>6. CASE Name(1) = "raw audio input"
  BY <1>2, <1>6 DEF InputFrame, RawAudio, Frame, MediaOf, VideoInputs
<1>7. CASE Name(1) = "raw video generator"
  BY <1>2, <1>7 DEF InputFrame, Generated, Frame, MediaOf, VideoInputs
<1> QED
  BY <1>1, <1>3, <1>4, <1>5, <1>6, <1>7 DEF Inputs

\* A filter behind the input is of the input's medium.
LEMMA MediumOf ==
  ASSUME term \in Terms, NEW k \in 2..Len(term)
  PROVE  /\ Name(1) \in VideoInputs => Name(k) \notin OnlyAudio
         /\ Name(1) \notin VideoInputs => Name(k) \notin OnlyVideo
  BY MediumAssumption DEF Name

\* The frames a filter sends for one that has what its medium needs have it too, and
\* the filter is not an output.
LEMMA SentOk ==
  ASSUME term \in Terms, NEW k \in 2..Len(term), NEW f \in Frame, NEW passed, MediaOf(f, passed),
         NEW g \in Sent(Name(k), f)
  PROVE  g \in Frame /\ MediaOf(g, passed \union {k})
<1>1. /\ Name(1) \in VideoInputs => Name(k) \notin OnlyAudio
      /\ Name(1) \notin VideoInputs => Name(k) \notin OnlyVideo
  BY MediumOf
<1>2. PICK info \in {"none", "side", "opaque"}, timebase \in BOOLEAN, rate \in BOOLEAN :
        f = [info |-> info, timebase |-> timebase, rate |-> rate]
  BY DEF Frame
<1>3. CASE Name(k) = "audio resampler"
  <2>1. g = [info |-> info, timebase |-> timebase, rate |-> TRUE]
    BY <1>2, <1>3 DEF Sent, Resampled
  <2>2. Name(1) \notin VideoInputs /\ Name(k) \notin Outputs
    BY <1>1, <1>3 DEF OnlyAudio, Outputs
  <2> QED
    BY <1>2, <1>3, <2>1, <2>2 DEF Frame, MediaOf
<1>4. CASE Name(k) = "stereo splitter"
  <2>1. g = [info |-> info, timebase |-> FALSE, rate |-> rate]
    BY <1>2, <1>4 DEF Sent, Split
  <2>2. Name(1) \notin VideoInputs /\ Name(k) \notin Outputs
    BY <1>1, <1>4 DEF OnlyAudio, Outputs
  <2> QED
    BY <1>2, <1>4, <2>1, <2>2 DEF Frame, MediaOf
<1>5. CASE Name(k) = "effects processor"
  <2>1. PICK i \in {f.info, "none"} : g = [f EXCEPT !.timebase = TRUE, !.info = i]
    BY <1>5 DEF Sent, Affected
  <2>2. i \in {"none", "side", "opaque"} /\ g = [info |-> i, timebase |-> TRUE, rate |-> rate]
    BY <1>2, <2>1
  <2>3. Name(1) \in VideoInputs /\ Name(k) \notin Outputs
    BY <1>1, <1>5 DEF OnlyVideo, Outputs
  <2> QED
    BY <1>5, <2>2, <2>3 DEF Frame, MediaOf
<1>6. CASE Name(k) \notin {"audio resampler", "stereo splitter", "effects processor"}
  <2>1. g = f /\ Name(k) \notin Outputs
    BY <1>6 DEF Sent, Rescaled, Outputs
  <2> QED
    BY <1>6, <2>1 DEF MediaOf
<1> QED
  BY <1>3, <1>4, <1>5, <1>6

\* The executes that send_to_graph calls at a filter not flushed: those it sends to
\* have not been flushed, as flush reaches them through this filter only.
LEMMA SendOk ==
  ASSUME BuildInv, FlushInv, phase \notin {"build", "exited"},
         NEW k \in 1..Len(term), k \notin flushed, NEW f \in Frame, MediaOf(f, Upstream(k) \union {k}),
         NEW c \in SendToGraph(k, f)
  PROVE  CallOk(c)
<1>1. PICK d \in ToSet(downstream[k]) : c = [node |-> d, frame |-> f]
  BY DEF SendToGraph
<1>2. d \in 2..Len(term) /\ Len(term) \in Nat
  BY <1>1, Tree
<1>3. d \notin flushed
  <2> SUFFICES ASSUME d \in flushed PROVE FALSE
    OBVIOUS
  <2>1. d # 1 /\ d \in 1..Len(term) /\ flushed \subseteq 1..Len(term)
    BY <1>2, Tree DEF FlushInv, FlushReaches
  <2>2. PICK l \in flushed : d \in FlushGraph(l)
    BY <2>1 DEF FlushInv
  <2>3. d \in ToSet(downstream[l])
    BY <2>2 DEF FlushGraph
  <2>4. k = l
    BY <1>1, <2>1, <2>2, <2>3, Tree
  <2> QED
    BY <2>2, <2>4
<1>4. Upstream(d) = Upstream(k) \union {k}
  BY <1>1, UpstreamOfDownstream
<1> QED
  BY <1>1, <1>2, <1>3, <1>4 DEF CallOk

\* An info is missing only where InfoReaches says.
LEMMA MissingOnly ==
  ASSUME term \in Terms, NEW c, CallOk(c), InfoMissing(c)
  PROVE  \/ Name(1) \in {"raw video input", "raw video generator"}
         \/ \E j \in Upstream(c.node) : Name(j) = "effects processor"
<1>1. c.node \in 2..Len(term) /\ MediaOf(c.frame, Upstream(c.node))
  BY DEF CallOk
<1>2. /\ Name(1) \in VideoInputs => Name(c.node) \notin OnlyAudio
      /\ Name(1) \notin VideoInputs => Name(c.node) \notin OnlyVideo
  BY <1>1, MediumOf
<1>3. CASE Name(c.node) \in {"black detect", "encoded video output"}
  <2>1. NeedsInfo(Name(c.node)) = "side" /\ c.frame.info # "side"
    BY <1>3 DEF NeedsInfo, InfoMissing
  <2> QED
    BY <1>1, <1>2, <1>3, <2>1 DEF MediaOf, OnlyVideo, VideoInputs
<1>4. CASE Name(c.node) \in {"silence detect", "encoded audio output"}
  <2>1. NeedsInfo(Name(c.node)) = "opaque" /\ c.frame.info # "opaque"
    BY <1>4 DEF NeedsInfo, InfoMissing
  <2> QED
    BY <1>1, <1>2, <1>4, <2>1 DEF MediaOf, OnlyAudio
<1>5. CASE Name(c.node) \notin {"black detect", "encoded video output",
                                "silence detect", "encoded audio output"}
  BY <1>5 DEF NeedsInfo, InfoMissing
<1> QED
  BY <1>3, <1>4, <1>5

\* RunInv, call by call.
RunParts ==
  /\ phase \in {"build", "exited", "run", "flush", "closed", "crashed"}
  /\ \A c \in calls : CallOk(c)
  /\ phase \in {"build", "exited"} => calls = {}
  /\ FlushInv
  /\ phase = "closed" => flushed = FlushReaches /\ calls = {}

LEMMA RunInvParts == (RunInv <=> RunParts) /\ (RunInv' <=> RunParts')
<1>1. RunInv <=> RunParts
  BY DEF RunInv, RunParts, CallOk, MediaInv, FlushLast, FlushReaches
<1>2. RunInv' <=> RunParts'
  BY DEF RunInv, RunParts, CallOk, MediaInv, FlushLast, FlushReaches
<1> QED
  BY <1>1, <1>2

\* Before the first step nothing is on its way and nothing flushed.
LEMMA InitInv == Init => IndInv
<1> SUFFICES ASSUME Init PROVE IndInv
  OBVIOUS
<1>1. BuildInv
  BY InitBuild DEF Init
<1>2. phase = "build" /\ calls = {} /\ flushing = {} /\ flushed = {}
  BY DEF Init, BuildInit
<1>3. FlushInv
  BY <1>2 DEF FlushInv
<1>4. RunInv
  BY <1>2, <1>3 DEF RunInv, MediaInv, FlushLast
<1> QED
  BY <1>1, <1>4 DEF IndInv

\* The construction of the graph sends and flushes nothing.
LEMMA BuildRun ==
  ASSUME IndInv, Build, UNCHANGED <<frames, calls, flushing, flushed>>
  PROVE  RunInv'
<1>1. phase = "build" /\ phase' \in {"build", "run", "exited"}
  BY DEF Build, ReadFilter, AllocateInstance, Refuse
<1>2. calls = {} /\ flushing = {} /\ flushed = {}
  BY <1>1 DEF IndInv, RunInv, FlushInv
<1>3. calls' = {} /\ flushing' = {} /\ flushed' = {}
  BY <1>2
<1>4. FlushInv'
  BY <1>1, <1>3 DEF FlushInv
<1> QED
  BY <1>1, <1>3, <1>4 DEF RunInv, MediaInv, FlushLast

\* Flush is where it was when the graph, the phase and the two sets are.
LEMMA FlushStays ==
  ASSUME FlushInv, term' = term, downstream' = downstream, flushing' = flushing, flushed' = flushed,
         phase' = phase \/ phase' = "crashed" \/ (phase' = "closed" /\ phase = "flush")
  PROVE  FlushInv'
<1>1. \A k : FlushGraph(k)' = FlushGraph(k)
  BY TermStays DEF FlushGraph
<1> QED
  BY <1>1, TermStays DEF FlushInv

\* The steps that only change what is on its way.
LEMMA CallsStep ==
  ASSUME IndInv, phase \in {"run", "flush"}, \A c \in calls' : CallOk(c),
         UNCHANGED <<phase, buildVars, flushing, flushed>>
  PROVE  IndInv'
<1>1. /\ phase' = phase /\ flushing' = flushing /\ flushed' = flushed
      /\ term' = term /\ downstream' = downstream /\ UNCHANGED buildVars
  BY DEF buildVars
<1>2. BuildInv'
  BY <1>1, BuildUnchanged DEF IndInv
<1>3. RunParts
  BY RunInvParts DEF IndInv
<1>4. \A c \in calls' : CallOk(c)'
  BY <1>1, TermStays DEF CallOk
<1>5. FlushInv'
  BY <1>1, <1>3, FlushStays DEF RunParts
<1>6. RunParts'
  BY <1>1, <1>3, <1>4, <1>5, TermStays DEF RunParts
<1> QED
  BY <1>2, <1>6, RunInvParts DEF IndInv

\* An input sends a frame that it read, or that its decoder had kept.
LEMMA InputStep ==
  ASSUME IndInv, ProcessFrame \/ DrainFrame
  PROVE  IndInv'
<1>1. /\ phase \in {"run", "flush"} /\ calls' = SendToGraph(1, InputFrame)
      /\ UNCHANGED <<phase, buildVars, flushing, flushed>>
  BY DEF ProcessFrame, DrainFrame
<1>2. BuildInv /\ FlushInv
  BY DEF IndInv, RunInv
<1>3. term \in Terms /\ 1 \in 1..Len(term)
  BY <1>1, <1>2, Tree
<1>4. 1 \notin flushed
  BY <1>2 DEF ProcessFrame, DrainFrame, FlushInv
<1>5. InputFrame \in Frame /\ MediaOf(InputFrame, Upstream(1) \union {1})
  BY <1>3, InputFrameOk, UpstreamOfInput
<1>6. \A c \in calls' : CallOk(c)
  BY <1>1, <1>2, <1>3, <1>4, <1>5, SendOk
<1> QED
  BY <1>1, <1>6, CallsStep

\* A filter executes and sends a frame to those downstream.
LEMMA ExecuteStep ==
  ASSUME IndInv, NEW c \in calls, Execute(c)
  PROVE  IndInv'
<1>1. phase \in {"run", "flush"} /\ UNCHANGED <<phase, buildVars, flushing, flushed>>
  BY DEF Execute
<1>2. PICK g \in Sent(Name(c.node), c.frame) :
        calls' = (calls \ {c}) \union SendToGraph(c.node, g)
  BY DEF Execute
<1>3. BuildInv /\ FlushInv /\ \A e \in calls : CallOk(e)
  BY RunInvParts DEF IndInv, RunInv, RunParts
<1>4. term \in Terms
  BY <1>1, <1>3, Tree
<1>5. c.node \in 2..Len(term) /\ c.node \in 1..Len(term) /\ c.frame \in Frame
      /\ MediaOf(c.frame, Upstream(c.node)) /\ c.node \notin flushed
  BY <1>3 DEF CallOk
<1>6. g \in Frame /\ MediaOf(g, Upstream(c.node) \union {c.node})
  BY <1>4, <1>5, SentOk
<1>7. \A e \in SendToGraph(c.node, g) : CallOk(e)
  BY <1>1, <1>3, <1>5, <1>6, SendOk
<1>8. \A e \in calls' : CallOk(e)
  BY <1>2, <1>3, <1>7
<1> QED
  BY <1>1, <1>8, CallsStep

\* The effects processor keeps a frame.
LEMMA KeepStep ==
  ASSUME IndInv, NEW c \in calls, KeepFrame(c)
  PROVE  IndInv'
<1>1. phase \in {"run", "flush"} /\ UNCHANGED <<phase, buildVars, flushing, flushed>>
      /\ calls' \subseteq calls
  BY DEF KeepFrame
<1>2. \A e \in calls' : CallOk(e)
  BY <1>1, RunInvParts DEF IndInv, RunParts
<1> QED
  BY <1>1, <1>2, CallsStep

\* The steps that leave frames where they are: the graph and the calls' own part.
LEMMA GraphStays ==
  ASSUME IndInv, UNCHANGED <<buildVars, calls>>, flushed' = flushed,
         phase \notin {"build", "exited"}, phase' \in {"run", "flush", "closed", "crashed"}
  PROVE  /\ BuildInv' /\ term' = term /\ downstream' = downstream
         /\ \A c \in calls' : CallOk(c)'
<1>1. term' = term /\ downstream' = downstream /\ UNCHANGED buildVars /\ calls' = calls
  BY DEF buildVars
<1>2. BuildInv'
  BY <1>1, BuildUnchanged DEF IndInv
<1>3. \A c \in calls : CallOk(c)
  BY RunInvParts DEF IndInv, RunParts
<1>4. \A c \in calls' : CallOk(c)'
  BY <1>1, <1>3, TermStays DEF CallOk
<1> QED
  BY <1>1, <1>2, <1>4

\* The program crashes where an info is missing.
LEMMA CrashStep ==
  ASSUME IndInv, NEW c \in calls, Crash(c)
  PROVE  IndInv'
<1>1. /\ phase \in {"run", "flush"} /\ phase' = "crashed" /\ InfoMissing(c)
      /\ UNCHANGED <<buildVars, calls>> /\ flushing' = flushing /\ flushed' = flushed
  BY DEF Crash
<1>2. /\ BuildInv' /\ term' = term /\ downstream' = downstream
      /\ \A e \in calls' : CallOk(e)'
  BY <1>1, GraphStays
<1>3. RunParts /\ term \in Terms
  BY RunInvParts DEF IndInv, BuildInv
<1>4. FlushInv'
  BY <1>1, <1>2, <1>3, FlushStays DEF RunParts
<1>5. RunParts'
  BY <1>1, <1>2, <1>4 DEF RunParts
<1> QED
  BY <1>2, <1>5, RunInvParts DEF IndInv

\* The flush command starts at the input.
LEMMA ReadFlushStep ==
  ASSUME IndInv, ReadFlush
  PROVE  IndInv'
<1>1. /\ phase = "run" /\ phase' = "flush" /\ flushing' = {1} /\ flushed' = flushed
      /\ UNCHANGED <<buildVars, calls>>
  BY DEF ReadFlush
<1>2. /\ BuildInv' /\ term' = term /\ downstream' = downstream
      /\ \A e \in calls' : CallOk(e)'
  BY <1>1, GraphStays
<1>3. flushed' = {} /\ 1 \in FlushReaches
  <2>1. flushed' = {} /\ 1 \in DOMAIN term /\ term \in Terms
    BY <1>1, Tree DEF IndInv, RunInv, FlushInv
  <2> QED
    BY <2>1, UpstreamOfInput DEF FlushReaches
<1>4. FlushInv'
  BY <1>1, <1>2, <1>3, TermStays DEF FlushInv
<1>5. RunParts'
  BY <1>1, <1>2, <1>4 DEF RunParts
<1> QED
  BY <1>2, <1>5, RunInvParts DEF IndInv

\* The flush of a filter, quiet below, reaches those downstream of it.
LEMMA FlushFilterStep ==
  ASSUME IndInv, NEW k \in flushing, FlushFilter(k)
  PROVE  IndInv'
<1>1. /\ phase = "flush" /\ phase' = "flush" /\ Quiet(k)
      /\ flushing' = (flushing \ {k}) \union FlushGraph(k)
      /\ flushed' = flushed \union {k}
      /\ UNCHANGED buildVars /\ calls' = calls
  BY DEF FlushFilter
<1>2. BuildInv' /\ term' = term /\ downstream' = downstream
  BY <1>1, BuildUnchanged DEF IndInv, buildVars
<1>3. FlushInv /\ (\A c \in calls : CallOk(c)) /\ BuildInv
  BY RunInvParts DEF IndInv, RunParts
<1>4. /\ DOMAIN term = 1..Len(term) /\ k \in 1..Len(term) /\ Len(term) \in Nat /\ term \in Terms
      /\ flushed \subseteq 1..Len(term) /\ flushing \subseteq 1..Len(term) /\ k \in FlushReaches
  BY <1>1, <1>3, Tree DEF FlushInv, FlushReaches
<1>5. FlushGraph(k) \subseteq FlushReaches /\ \A d \in FlushGraph(k) : d # k /\ d \notin flushed
  <2>1. ToSet(downstream[k]) \subseteq 2..Len(term) /\ FlushGraph(k) \subseteq ToSet(downstream[k])
    BY <1>1, <1>3, <1>4, Tree DEF FlushGraph
  <2>2. ASSUME NEW d \in FlushGraph(k) PROVE d # k /\ d \notin flushed
    <3>1. k < d /\ d \in 1..Len(term) /\ d # 1
      BY <1>1, <1>3, <1>4, <2>1, Tree
    <3>2. ASSUME d \in flushed PROVE FALSE
      <4>1. PICK l \in flushed : d \in ToSet(downstream[l])
        BY <1>3, <3>1, <3>2 DEF FlushInv, FlushGraph
      <4>2. l = k
        BY <1>1, <1>3, <1>4, <2>1, <3>1, <4>1, Tree
      <4> QED
        BY <1>3, <4>1, <4>2 DEF FlushInv
    <3> QED
      BY <1>4, <3>1, <3>2
  <2>3. ASSUME NEW d \in FlushGraph(k) PROVE d \in FlushReaches
    <3>1. d \in DOMAIN term /\ d \in ToSet(downstream[k]) /\ Name(k) \notin EndsFlush
      BY <1>4, <2>1, <2>3 DEF FlushGraph
    <3>2. Upstream(d) = Upstream(k) \union {k}
      BY <1>1, <1>3, <1>4, <3>1, UpstreamOfDownstream
    <3> QED
      BY <1>4, <3>1, <3>2 DEF FlushReaches
  <2> QED
    BY <2>2, <2>3
<1>6. FlushInv'
  <2>0. FlushReaches' = FlushReaches /\ \A l : FlushGraph(l)' = FlushGraph(l)
    BY <1>2, TermStays DEF FlushGraph
  <2>1. flushing' \subseteq FlushReaches' /\ flushed' \subseteq FlushReaches'
    BY <1>1, <1>3, <1>4, <1>5, <2>0 DEF FlushInv
  <2>2. flushing' \intersect flushed' = {}
    BY <1>1, <1>3, <1>5 DEF FlushInv
  <2>3. \A l \in flushed' : FlushGraph(l)' \subseteq flushing' \union flushed'
    BY <1>1, <1>3, <2>0 DEF FlushInv
  <2>4. \A d \in (flushing' \union flushed') \ {1} : \E l \in flushed' : d \in FlushGraph(l)'
    <3>1. \A d \in (flushing \union flushed) \ {1} : \E l \in flushed : d \in FlushGraph(l)
      BY <1>3 DEF FlushInv
    <3> QED
      BY <1>1, <2>0, <3>1
  <2>5. 1 \in flushing' \union flushed'
    BY <1>1, <1>3 DEF FlushInv
  <2> QED
    BY <1>1, <2>1, <2>2, <2>3, <2>4, <2>5 DEF FlushInv
<1>7. \A c \in calls : c.node # k
  <2> SUFFICES ASSUME NEW c \in calls, c.node = k PROVE FALSE
    OBVIOUS
  <2>1. LastOf(k) \in k..Len(term)
    BY <1>4, LastOfFalls
  <2>2. c.node \in Nested(k)
    BY <1>4, <2>1 DEF Nested
  <2>3. PICK a \in Nested(k) : c.node \in Nested(a) \ {a}
    BY <1>1, <2>2 DEF Quiet
  <2>4. a \in Int /\ k <= a
    BY <1>4, <2>1, <2>3 DEF Nested
  <2>5. k \in a..LastOf(a) /\ k # a
    BY <2>3 DEF Nested
  <2> QED
    BY <1>4, <2>4, <2>5
<1>8. \A c \in calls' : CallOk(c)'
  BY <1>1, <1>2, <1>3, <1>7, TermStays DEF CallOk
<1>9. RunParts'
  BY <1>1, <1>6, <1>8 DEF RunParts
<1> QED
  BY <1>2, <1>9, RunInvParts DEF IndInv

\* When no flush is on its way every filter it gets to has been flushed: the first
\* that has not would be downstream of one that has and passes it on.
LEMMA AllFlushed ==
  ASSUME IndInv, phase = "flush", flushing = {}
  PROVE  flushed = FlushReaches /\ calls = {}
<1>1. BuildInv /\ FlushInv /\ \A c \in calls : CallOk(c)
  BY RunInvParts DEF IndInv, RunParts
<1>2. DOMAIN term = 1..Len(term) /\ Len(term) \in Nat
      /\ \A d \in 2..Len(term) : \E k \in 1..Len(term) : d \in ToSet(downstream[k])
  BY <1>1, Tree
<1>3. \A k, d \in 1..Len(term) : d \in ToSet(downstream[k]) => k < d
  BY <1>1, Tree
<1>4. flushed = FlushReaches
  <2> DEFINE T == {d \in 1..Len(term) : d \in FlushReaches /\ d \notin flushed}
  <2> SUFFICES ASSUME T # {} PROVE FALSE
    BY <1>1, <1>2 DEF FlushInv, FlushReaches
  <2>1. T \in SUBSET Nat
    BY <1>2
  <2>2. PICK d \in T : \A e \in T : d <= e
    <3> HIDE DEF T
    <3> QED
      BY <2>1, LeastNatural
  <2>3. d # 1
    BY <1>1, <2>2 DEF FlushInv
  <2>4. PICK k \in 1..Len(term) : d \in ToSet(downstream[k])
    BY <1>2, <2>2, <2>3
  <2>5. k < d /\ d \in Nat /\ k \in Nat
    <3>1. d \in 1..Len(term)
      BY <2>2
    <3>2. k < d
      BY <1>3, <2>4, <3>1
    <3> QED
      BY <1>2, <3>1, <3>2
  <2>6. Upstream(d) = Upstream(k) \union {k}
    BY <1>1, <2>4, UpstreamOfDownstream
  <2>7. k \in FlushReaches /\ Name(k) \notin EndsFlush
    BY <1>2, <2>2, <2>4, <2>6 DEF FlushReaches
  <2>8. k \in flushed
    BY <2>2, <2>5, <2>7
  <2> QED
    BY <1>1, <2>2, <2>4, <2>7, <2>8 DEF FlushInv, FlushGraph
<1>5. ASSUME NEW c \in calls PROVE FALSE
  <2>1. c.node \in DOMAIN term /\ c.node \notin flushed /\ MediaOf(c.frame, Upstream(c.node))
    BY <1>1, <1>2 DEF CallOk
  <2>2. \A j \in Upstream(c.node) : Name(j) \notin EndsFlush
    BY <2>1 DEF MediaOf, Outputs, EndsFlush
  <2> QED
    BY <1>4, <2>1, <2>2 DEF FlushReaches
<1> QED
  BY <1>4, <1>5

\* The answer to the flush.
LEMMA FlushDoneStep ==
  ASSUME IndInv, WriteFlushDone
  PROVE  IndInv'
<1>1. /\ phase = "flush" /\ phase' = "closed" /\ flushing = {} /\ flushing' = {} /\ flushed' = flushed
      /\ UNCHANGED <<buildVars, calls>>
  BY DEF WriteFlushDone
<1>2. /\ BuildInv' /\ term' = term /\ downstream' = downstream
      /\ \A e \in calls' : CallOk(e)'
  BY <1>1, GraphStays
<1>3. flushed' = FlushReaches' /\ calls' = {}
  BY <1>1, <1>2, AllFlushed, TermStays
<1>4. FlushInv'
  BY <1>1, <1>2, FlushStays DEF IndInv, RunInv
<1>5. RunParts'
  BY <1>1, <1>2, <1>3, <1>4 DEF RunParts
<1> QED
  BY <1>2, <1>5, RunInvParts DEF IndInv

\* Every step keeps the invariant.
LEMMA StepInv == IndInv /\ [Next]_vars => IndInv'
<1> SUFFICES ASSUME IndInv, [Next]_vars PROVE IndInv'
  OBVIOUS
<1>1. CASE Build /\ UNCHANGED <<frames, calls, flushing, flushed>>
  BY <1>1, BuildRun, BuildStep DEF IndInv
<1>2. CASE ProcessFrame \/ DrainFrame
  BY <1>2, InputStep
<1>3. CASE ReadFlush
  BY <1>3, ReadFlushStep
<1>4. CASE WriteFlushDone
  BY <1>4, FlushDoneStep
<1>5. CASE \E c \in calls : Execute(c) \/ KeepFrame(c) \/ Crash(c)
  BY <1>5, ExecuteStep, KeepStep, CrashStep
<1>6. CASE \E k \in flushing : FlushFilter(k)
  BY <1>6, FlushFilterStep
<1>7. CASE UNCHANGED vars
  <2>1. UNCHANGED buildVars /\ phase' = phase /\ calls' = calls /\ flushing' = flushing
        /\ flushed' = flushed
    BY <1>7 DEF vars
  <2>2. BuildInv'
    BY <2>1, BuildUnchanged DEF IndInv
  <2>3. term' = term /\ downstream' = downstream
    BY <2>1 DEF buildVars
  <2>4. FlushInv'
    BY <2>1, <2>3, FlushStays DEF IndInv, RunInv
  <2>5. RunParts
    BY RunInvParts DEF IndInv
  <2>6. \A c \in calls' : CallOk(c)'
    BY <2>1, <2>3, <2>5, TermStays DEF RunParts, CallOk
  <2>7. RunParts'
    BY <2>1, <2>3, <2>4, <2>5, <2>6, TermStays DEF RunParts
  <2> QED
    BY <2>2, <2>7, RunInvParts DEF IndInv
<1> QED
  BY <1>1, <1>2, <1>3, <1>4, <1>5, <1>6, <1>7 DEF Next, Run

\* Everything the proofs below rest on: the recursion of read_filter as an invariant of
\* its stack, frames that have what their medium needs, and the flush that moves
\* down the tree of filters.
THEOREM Invariant == Spec => []IndInv
<1>1. Init => IndInv
  BY InitInv
<1>2. IndInv /\ [Next]_vars => IndInv'
  BY StepInv
<1> QED
  BY <1>1, <1>2, PTL DEF Spec

\* The graph that frames are sent to is the term of the command, for a term of
\* any length and nesting: the recursion of read_filter gives each filter
\* the filters of its tuple, allocated before it, in their order.
THEOREM GraphIsTermCorrect == Spec => []GraphIsTerm
<1>1. IndInv => GraphIsTerm
  BY DEF IndInv, BuildInv
<1> QED
  BY <1>1, Invariant, PTL

\* A filter gets a frame without the info it dereferences only behind a raw video
\* input or behind an effects processor, whatever the filters between.
THEOREM InfoReachesCorrect == Spec => []InfoReaches
<1>1. ASSUME IndInv PROVE InfoReaches
  <2>1. term \in Terms /\ \A c \in calls : CallOk(c)
    BY <1>1, RunInvParts DEF IndInv, RunParts, BuildInv
  <2> QED
    BY <2>1, MissingOnly DEF InfoReaches
<1>2. IndInv => InfoReaches
  BY <1>1
<1> QED
  BY <1>2, Invariant, PTL

\* A filter that computes with the timebase gets one, and one that computes with the
\* sample rate gets one exactly if a filter or an input on its way sets it.
THEOREM AttributesReachCorrect == Spec => []AttributesReach
<1>1. ASSUME IndInv PROVE AttributesReach
  <2> DEFINE Set(c) == \/ Name(1) # "raw audio input"
                       \/ \E j \in Upstream(c.node) : Name(j) = "audio resampler"
  <2> SUFFICES ASSUME NEW c \in calls
               PROVE  /\ Name(c.node) \in UsesTimebase => c.frame.timebase
                      /\ Name(c.node) \in UsesRate => (c.frame.rate <=> Set(c))
    BY DEF AttributesReach
  <2>1. CallOk(c) /\ term \in Terms
    BY <1>1, RunInvParts DEF IndInv, RunParts, BuildInv
  <2>2. c.node \in 2..Len(term) /\ MediaOf(c.frame, Upstream(c.node))
    BY <2>1 DEF CallOk
  <2>3. /\ Name(1) \in VideoInputs => Name(c.node) \notin OnlyAudio
        /\ Name(1) \notin VideoInputs => Name(c.node) \notin OnlyVideo
    BY <2>1, <2>2, MediumOf
  <2>4. Name(c.node) \in UsesTimebase => c.frame.timebase
    BY <2>2, <2>3 DEF UsesTimebase, OnlyVideo, MediaOf
  <2>5. Name(c.node) \in UsesRate => (c.frame.rate <=> Set(c))
    BY <2>2, <2>3 DEF UsesRate, OnlyAudio, MediaOf
  <2> QED
    BY <2>4, <2>5
<1>2. IndInv => AttributesReach
  BY <1>1
<1> QED
  BY <1>2, Invariant, PTL

\* No filter executes after its flush, and "flush_done" is written when all that flush
\* gets to have been flushed and nothing is on its way, for every graph.
THEOREM FlushLastCorrect == Spec => []FlushLast
<1>1. IndInv => FlushLast
  BY DEF IndInv, RunInv
<1> QED
  BY <1>1, Invariant, PTL
=============================================================================
