---------------------------- MODULE FrameInfoProofs ----------------------------
(***************************************************************************)
(* What the operators of FrameInfo compute, for queues of every length.    *)
(*                                                                         *)
(* Selected is recursive, so its lemma is by induction on the length.  The *)
(* induction theorems of the library take an operator as a parameter; here *)
(* induction is over sets of naturals, which needs none.                   *)
(***************************************************************************)
EXTENDS FrameInfo, FiniteSetTheorems, TLAPS

\* A set of naturals that is not empty has a least element: a chain of finite sets
\* 0..k that shrink comes to an end.
LEMMA LeastNatural ==
  ASSUME NEW T \in SUBSET Nat, T # {}
  PROVE  \E m \in T : \A k \in T : m <= k
<1> DEFINE Initials == {0..k : k \in T}
<1>1. Initials \subseteq FiniteSubsetsOf(Nat) /\ Initials # {}
  <2>1. \A k \in T : 0..k \in SUBSET Nat /\ IsFiniteSet(0..k)
    BY FS_Interval
  <2> QED
    BY <2>1 DEF FiniteSubsetsOf
<1>2. IsWellFoundedOn(StrictSubsetOrdering(Nat), FiniteSubsetsOf(Nat))
  BY FS_StrictSubsetOrderingWellFounded
<1>3. PICK X \in Initials : \A Y \in Initials : <<Y, X>> \notin StrictSubsetOrdering(Nat)
  <2> HIDE DEF Initials
  <2> QED
    BY <1>1, <1>2, WFMin
<1>4. PICK m \in T : X = 0..m
  OBVIOUS
<1>5. ASSUME NEW k \in T, k < m PROVE FALSE
  <2>1. 0..k \in Initials /\ 0..k \subseteq 0..m /\ 0..k # 0..m
    BY <1>5
  <2>2. 0..k \in SUBSET Nat /\ 0..m \in SUBSET Nat
    OBVIOUS
  <2>3. <<0..k, 0..m>> \in StrictSubsetOrdering(Nat)
    BY <2>1, <2>2 DEF StrictSubsetOrdering
  <2> QED
    BY <1>3, <1>4, <2>1, <2>3
<1> QED
  BY <1>5

\* Induction: a set with 0 and the successor of each of its elements is Nat.
LEMMA SetInduction ==
  ASSUME NEW T \in SUBSET Nat, 0 \in T, \A i \in T : i + 1 \in T
  PROVE  T = Nat
<1> SUFFICES ASSUME T # Nat PROVE FALSE
  OBVIOUS
<1>1. PICK m \in Nat \ T : \A k \in Nat \ T : m <= k
  BY LeastNatural
<1>2. m - 1 \in T
  BY <1>1
<1> QED
  BY <1>1, <1>2

\* The elements of a sequence over a set are in the set.
LEMMA ElementOf ==
  ASSUME NEW S, NEW s \in Seq(S)
  PROVE  Len(s) \in Nat /\ DOMAIN s = 1..Len(s) /\ \A i \in 1..Len(s) : s[i] \in S
  OBVIOUS

\* A sequence is over every set its elements are in.
LEMMA SequenceOver ==
  ASSUME NEW R, NEW S, NEW s \in Seq(R), \A i \in 1..Len(s) : s[i] \in S
  PROVE  s \in Seq(S)
  OBVIOUS

\* Appending leaves what was there in its place.
LEMMA Appended ==
  ASSUME NEW S, NEW s \in Seq(S), NEW e \in S
  PROVE  /\ Append(s, e) \in Seq(S) /\ Len(Append(s, e)) = Len(s) + 1
         /\ Append(s, e)[Len(s) + 1] = e
         /\ \A i \in 1..Len(s) : Append(s, e)[i] = s[i]
  OBVIOUS

-----------------------------------------------------------------------------
(* Selected.                                                               *)

\* f is the function that Selected computes, up to position l.
SelectedBy(f, s, kept, l) ==
  f = [i \in 0..l |->
         IF i = 0 THEN <<>>
         ELSE IF i \in kept THEN Append(f[i - 1], s[i]) ELSE f[i - 1]]

\* The recursive definition in Selected defines a function.
LEMMA SelectedExists ==
  ASSUME NEW s, NEW kept, NEW l \in Nat
  PROVE  \E f : SelectedBy(f, s, kept, l)
<1> DEFINE Reaches(i) == \E f : SelectedBy(f, s, kept, i)
           T == {i \in Nat : Reaches(i)}
<1>1. 0 \in T
  <2>1. SelectedBy([i \in 0..0 |-> <<>>], s, kept, 0)
    BY DEF SelectedBy
  <2> QED
    BY <2>1
<1>2. ASSUME NEW i \in T PROVE i + 1 \in T
  <2>1. PICK f : SelectedBy(f, s, kept, i)
    OBVIOUS
  <2> DEFINE next == IF i + 1 \in kept THEN Append(f[i], s[i + 1]) ELSE f[i]
             g == [j \in 0..(i + 1) |-> IF j = i + 1 THEN next ELSE f[j]]
  <2>2. ASSUME NEW j \in 0..(i + 1)
        PROVE  g[j] = IF j = 0 THEN <<>>
                      ELSE IF j \in kept THEN Append(g[j - 1], s[j]) ELSE g[j - 1]
    <3>1. CASE j = i + 1
      <4>1. g[j] = next /\ g[j - 1] = f[i] /\ j # 0
        BY <3>1
      <4> QED
        BY <3>1, <4>1
    <3>2. CASE j # i + 1
      <4>1. j \in 0..i /\ g[j] = f[j] /\ (j # 0 => j - 1 \in 0..i /\ g[j - 1] = f[j - 1])
        BY <3>2
      <4>2. f[j] = IF j = 0 THEN <<>>
                   ELSE IF j \in kept THEN Append(f[j - 1], s[j]) ELSE f[j - 1]
        BY <2>1, <4>1 DEF SelectedBy
      <4> HIDE DEF g
      <4> QED
        BY <4>1, <4>2
    <3> QED
      BY <3>1, <3>2
  <2>3. SelectedBy(g, s, kept, i + 1)
    BY <2>2 DEF SelectedBy
  <2> QED
    BY <2>3
<1>3. T = Nat
  <2> HIDE DEF Reaches
  <2> QED
    BY <1>1, <1>2, SetInduction
<1> QED
  BY <1>3

\* q holds the entries of s at the positions up to l that are kept: at[j] is the
\* position of its j-th.
SelectedAre(q, at, s, kept, l) ==
  /\ at \in [1..Len(q) -> kept \intersect (1..l)]
  /\ \A j, k \in 1..Len(q) : j < k => at[j] < at[k]
  /\ \A i \in kept \intersect (1..l) : \E j \in 1..Len(q) : at[j] = i
  /\ \A j \in 1..Len(q) : q[j] = s[at[j]]

\* One more position kept, or not, is one more entry, or none.
LEMMA SelectedOneMore ==
  ASSUME NEW S, NEW s \in Seq(S), NEW kept, NEW i \in Nat, i + 1 <= Len(s),
         NEW q \in Seq(S), NEW at, SelectedAre(q, at, s, kept, i)
  PROVE  /\ i + 1 \notin kept => SelectedAre(q, at, s, kept, i + 1)
         /\ i + 1 \in kept => \E to : SelectedAre(Append(q, s[i + 1]), to, s, kept, i + 1)
<1>1. CASE i + 1 \notin kept
  <2>1. kept \intersect (1..(i + 1)) = kept \intersect (1..i)
    BY <1>1
  <2> QED
    BY <1>1, <2>1 DEF SelectedAre
<1>2. CASE i + 1 \in kept
  <2> DEFINE l == Len(q)
             r == Append(q, s[i + 1])
             to == [j \in 1..(l + 1) |-> IF j = l + 1 THEN i + 1 ELSE at[j]]
  <2>1. l \in Nat /\ Len(r) = l + 1 /\ r[l + 1] = s[i + 1] /\ \A j \in 1..l : r[j] = q[j]
    OBVIOUS
  <2>2. \A j \in 1..l : at[j] \in kept /\ at[j] \in 1..i /\ to[j] = at[j]
    <3>1. \A j \in 1..l : at[j] \in kept \intersect (1..i)
      BY DEF SelectedAre
    <3>2. \A j \in 1..l : j \in 1..(l + 1) /\ j # l + 1
      BY <2>1
    <3> QED
      BY <3>1, <3>2
  <2>3. to[l + 1] = i + 1 /\ DOMAIN to = 1..(l + 1) /\ to = [j \in 1..(l + 1) |-> to[j]]
    BY <2>1
  <2> HIDE DEF to, r
  <2>4. to \in [1..(l + 1) -> kept \intersect (1..(i + 1))]
    <3>1. \A j \in 1..(l + 1) : to[j] \in kept \intersect (1..(i + 1))
      <4> SUFFICES ASSUME NEW j \in 1..(l + 1) PROVE to[j] \in kept \intersect (1..(i + 1))
        OBVIOUS
      <4>1. CASE j = l + 1
        BY <1>2, <2>3, <4>1
      <4>2. CASE j \in 1..l
        <5>1. to[j] \in kept /\ to[j] \in 1..i
          BY <2>2, <4>2
        <5> QED
          BY <5>1
      <4> QED
        BY <2>1, <4>1, <4>2
    <3> QED
      BY <2>3, <3>1
  <2>5. \A j, k \in 1..(l + 1) : j < k => to[j] < to[k]
    <3> SUFFICES ASSUME NEW j \in 1..(l + 1), NEW k \in 1..(l + 1), j < k PROVE to[j] < to[k]
      OBVIOUS
    <3>1. j \in 1..l
      BY <2>1
    <3>2. CASE k = l + 1
      <4>1. to[j] \in 1..i /\ to[k] = i + 1
        BY <2>2, <2>3, <3>1, <3>2
      <4> QED
        BY <4>1
    <3>3. CASE k \in 1..l
      BY <2>2, <3>1, <3>3 DEF SelectedAre
    <3> QED
      BY <2>1, <3>2, <3>3
  <2>6. \A m \in kept \intersect (1..(i + 1)) : \E j \in 1..(l + 1) : to[j] = m
    <3> SUFFICES ASSUME NEW m \in kept \intersect (1..(i + 1))
                 PROVE  \E j \in 1..(l + 1) : to[j] = m
      OBVIOUS
    <3>1. CASE m = i + 1
      BY <2>1, <2>3, <3>1
    <3>2. CASE m # i + 1
      <4>1. m \in kept \intersect (1..i)
        BY <3>2
      <4>2. PICK j \in 1..l : at[j] = m
        BY <4>1 DEF SelectedAre
      <4> QED
        BY <2>1, <2>2, <4>2
    <3> QED
      BY <3>1, <3>2
  <2>7. \A j \in 1..(l + 1) : r[j] = s[to[j]]
    <3> SUFFICES ASSUME NEW j \in 1..(l + 1) PROVE r[j] = s[to[j]]
      OBVIOUS
    <3>1. CASE j = l + 1
      BY <2>1, <2>3, <3>1
    <3>2. CASE j \in 1..l
      BY <2>1, <2>2, <3>2 DEF SelectedAre
    <3> QED
      BY <2>1, <3>1, <3>2
  <2>8. SelectedAre(r, to, s, kept, i + 1)
    <3> HIDE DEF l
    <3> QED
      BY <2>1, <2>4, <2>5, <2>6, <2>7 DEF SelectedAre
  <2> QED
    BY <1>2, <2>8 DEF r
<1> QED
  BY <1>1, <1>2

\* Selected returns the entries at the positions kept, each once and in order.
LEMMA SelectedIs ==
  ASSUME NEW S, NEW s \in Seq(S), NEW kept
  PROVE  /\ Selected(s, kept) \in Seq(S)
         /\ \E at : SelectedAre(Selected(s, kept), at, s, kept, Len(s))
<1> DEFINE F == CHOOSE f : SelectedBy(f, s, kept, Len(s))
<1>1. Len(s) \in Nat
  OBVIOUS
<1>2. SelectedBy(F, s, kept, Len(s))
  BY <1>1, SelectedExists
<1>3. Selected(s, kept) = F[Len(s)]
  BY DEF Selected, SelectedBy
<1> HIDE DEF F
<1> DEFINE Right(i) == F[i] \in Seq(S) /\ \E at : SelectedAre(F[i], at, s, kept, i)
           T == {i \in Nat : i <= Len(s) => Right(i)}
<1>4. 0 \in T
  <2>1. F[0] = <<>>
    BY <1>1, <1>2 DEF SelectedBy
  <2>2. SelectedAre(<<>>, [j \in 1..0 |-> 0], s, kept, 0)
    BY DEF SelectedAre
  <2>3. F[0] \in Seq(S)
    BY <2>1
  <2> QED
    BY <2>1, <2>2, <2>3
<1>5. ASSUME NEW i \in T PROVE i + 1 \in T
  <2> SUFFICES ASSUME i + 1 <= Len(s) PROVE Right(i + 1)
    OBVIOUS
  <2>1. i \in Nat /\ F[i] \in Seq(S) /\ \E at : SelectedAre(F[i], at, s, kept, i)
    BY <1>1
  <2>2. F[i + 1] = IF i + 1 \in kept THEN Append(F[i], s[i + 1]) ELSE F[i]
    <3>1. i + 1 \in 0..Len(s) /\ i + 1 # 0 /\ (i + 1) - 1 = i
      BY <1>1, <2>1
    <3> QED
      BY <1>2, <3>1 DEF SelectedBy
  <2>3. PICK at : SelectedAre(F[i], at, s, kept, i)
    BY <2>1
  <2>4. s[i + 1] \in S
    BY <2>1
  <2> QED
    BY <2>1, <2>2, <2>3, <2>4, SelectedOneMore
<1>6. T = Nat
  <2> HIDE DEF Right
  <2> QED
    BY <1>4, <1>5, SetInduction
<1> QED
  BY <1>1, <1>3, <1>6

-----------------------------------------------------------------------------
(* Match and Remaining: get_frame_info.                                    *)

\* get_frame_info finds an entry of the timestamp, and none in front of it has it.
LEMMA MatchIs ==
  ASSUME NEW S, NEW s \in Seq(S), NEW pts, Found(s, pts)
  PROVE  /\ Match(s, pts) \in 1..Len(s)
         /\ s[Match(s, pts)].pts = pts
         /\ \A i \in 1..Len(s) : s[i].pts = pts => Match(s, pts) <= i
<1>1. Matches(s, pts) \in SUBSET Nat /\ Matches(s, pts) # {}
  BY DEF Matches, Found
<1>2. \E m \in Matches(s, pts) : \A j \in Matches(s, pts) : m <= j
  BY <1>1, LeastNatural
<1>3. /\ Match(s, pts) \in Matches(s, pts)
      /\ \A j \in Matches(s, pts) : Match(s, pts) <= j
  BY <1>2 DEF Match
<1> QED
  BY <1>3 DEF Matches

\* The positions of the entries that get_frame_info drops.
Dropped(s, pts, dropOld) ==
  {i \in 1..(Match(s, pts) - 1) : dropOld /\ s[i].pts < pts}

Kept(s, pts, dropOld) == (1..Len(s)) \ ({Match(s, pts)} \union Dropped(s, pts, dropOld))

\* What get_frame_info leaves: each entry but the match and those dropped, in the
\* order they were in.
LEMMA RemainingIs ==
  ASSUME NEW S, NEW s \in Seq(S), NEW pts, NEW dropOld
  PROVE  /\ Remaining(s, pts, dropOld) \in Seq(S)
         /\ \E at : SelectedAre(Remaining(s, pts, dropOld), at, s, Kept(s, pts, dropOld), Len(s))
<1>1. DOMAIN s = 1..Len(s)
  OBVIOUS
<1>2. Remaining(s, pts, dropOld) = Selected(s, Kept(s, pts, dropOld))
  BY <1>1 DEF Remaining, Kept, Dropped
<1> QED
  BY <1>2, SelectedIs

\* Nothing is left behind that was not queued, and the match is gone.
LEMMA RemainingFrom ==
  ASSUME NEW S, NEW s \in Seq(S), NEW pts, NEW dropOld,
         NEW j \in 1..Len(Remaining(s, pts, dropOld))
  PROVE  \E i \in 1..Len(s) : i # Match(s, pts) /\ Remaining(s, pts, dropOld)[j] = s[i]
<1>1. PICK at : SelectedAre(Remaining(s, pts, dropOld), at, s, Kept(s, pts, dropOld), Len(s))
  BY RemainingIs
<1>2. at[j] \in Kept(s, pts, dropOld) /\ Remaining(s, pts, dropOld)[j] = s[at[j]]
  BY <1>1 DEF SelectedAre
<1> QED
  BY <1>2 DEF Kept

\* Every entry but the match is left behind, unless drop_old_pts drops it: then it was
\* queued before the match and is older.
LEMMA RemainingKeeps ==
  ASSUME NEW S, NEW s \in Seq(S), NEW pts, NEW dropOld, NEW i \in 1..Len(s),
         i # Match(s, pts), ~(dropOld /\ s[i].pts < pts)
  PROVE  \E j \in 1..Len(Remaining(s, pts, dropOld)) : Remaining(s, pts, dropOld)[j] = s[i]
<1>1. PICK at : SelectedAre(Remaining(s, pts, dropOld), at, s, Kept(s, pts, dropOld), Len(s))
  BY RemainingIs
<1>2. i \in Kept(s, pts, dropOld) \intersect (1..Len(s))
  BY DEF Kept, Dropped
<1> QED
  BY <1>1, <1>2 DEF SelectedAre

\* Without drop_old_pts the queue is one entry shorter.
LEMMA RemainingLength ==
  ASSUME NEW S, NEW s \in Seq(S), NEW pts, Found(s, pts)
  PROVE  Len(Remaining(s, pts, FALSE)) = Len(s) - 1
<1> DEFINE r == Remaining(s, pts, FALSE)
           K == (1..Len(s)) \ {Match(s, pts)}
<1>1. PICK at : SelectedAre(r, at, s, Kept(s, pts, FALSE), Len(s))
  BY RemainingIs
<1>2. Kept(s, pts, FALSE) \intersect (1..Len(s)) = K /\ Len(r) \in Nat /\ Len(s) \in Nat
  <2>1. r \in Seq(S)
    BY RemainingIs
  <2>2. Dropped(s, pts, FALSE) = {}
    BY DEF Dropped
  <2>3. Kept(s, pts, FALSE) \intersect (1..Len(s)) = K
    BY <2>2 DEF Kept
  <2> HIDE DEF r, K
  <2>4. Len(r) \in Nat /\ Len(s) \in Nat
    BY <2>1
  <2> QED
    BY <2>3, <2>4
<1> HIDE DEF r
<1>3. at \in Bijection(1..Len(r), K)
  <2>1. at \in [1..Len(r) -> K] /\ \A i \in K : \E j \in 1..Len(r) : at[j] = i
    BY <1>1, <1>2 DEF SelectedAre
  <2>2. \A j, k \in 1..Len(r) : j # k => at[j] # at[k]
    <3> SUFFICES ASSUME NEW j \in 1..Len(r), NEW k \in 1..Len(r), j # k PROVE at[j] # at[k]
      OBVIOUS
    <3>1. at[j] \in Nat /\ at[k] \in Nat /\ (j < k \/ k < j)
      BY <1>2, <2>1
    <3> QED
      BY <1>1, <3>1 DEF SelectedAre
  <2> QED
    BY <2>1, <2>2 DEF Bijection, Injection, Surjection, IsInjective
<1>4. IsFiniteSet(1..Len(r)) /\ Cardinality(1..Len(r)) = Len(r)
      /\ IsFiniteSet(1..Len(s)) /\ Cardinality(1..Len(s)) = Len(s)
  <2>1. \A l \in Nat : IsFiniteSet(1..l) /\ Cardinality(1..l) = l
    <3> SUFFICES ASSUME NEW l \in Nat PROVE IsFiniteSet(1..l) /\ Cardinality(1..l) = l
      OBVIOUS
    <3>1. IsFiniteSet(1..l) /\ Cardinality(1..l) = IF 1 > l THEN 0 ELSE l - 1 + 1
      BY FS_Interval
    <3> QED
      BY <3>1
  <2> QED
    BY <1>2, <2>1
<1>5. Cardinality(K) = Cardinality(1..Len(r))
  BY <1>3, <1>4, FS_Bijection DEF ExistsBijection
<1>6. Cardinality(K) = Len(s) - 1
  BY <1>4, MatchIs, FS_RemoveElement
<1> QED
  BY <1>4, <1>5, <1>6 DEF r

-----------------------------------------------------------------------------
(* A selection that loses one entry at a time.                             *)

\* f, a function on 1..n, without its j-th value.
Without(f, n, j) == [k \in 1..(n - 1) |-> IF k < j THEN f[k] ELSE f[k + 1]]

\* The values left: the places of the old ones, j left out, in the same order.
LEMMA WithoutIs ==
  ASSUME NEW n \in Nat, NEW j \in 1..n, NEW f
  PROVE  /\ DOMAIN Without(f, n, j) = 1..(n - 1)
         /\ \A k \in 1..(n - 1) :
              Without(f, n, j)[k] = IF k < j THEN f[k] ELSE f[k + 1]
         /\ \A i \in 1..n : i # j => \E k \in 1..(n - 1) : Without(f, n, j)[k] = f[i]
<1> DEFINE g == Without(f, n, j)
<1>1. DOMAIN g = 1..(n - 1) /\ \A k \in 1..(n - 1) : g[k] = IF k < j THEN f[k] ELSE f[k + 1]
  BY DEF Without
<1> HIDE DEF g
<1>2. ASSUME NEW i \in 1..n, i # j PROVE \E k \in 1..(n - 1) : g[k] = f[i]
  <2>1. CASE i < j
    <3>1. i \in 1..(n - 1)
      BY <2>1
    <3> QED
      BY <1>1, <2>1, <3>1
  <2>2. CASE j < i
    <3>1. i - 1 \in 1..(n - 1) /\ ~(i - 1 < j) /\ (i - 1) + 1 = i
      BY <2>2
    <3> QED
      BY <1>1, <3>1
  <2> QED
    BY <1>2, <2>1, <2>2
<1> QED
  BY <1>1, <1>2 DEF g

\* A sequence without one element.
LEMMA WithoutElement ==
  ASSUME NEW S, NEW s \in Seq(S), NEW j \in 1..Len(s)
  PROVE  Without(s, Len(s), j) \in Seq(S) /\ Len(Without(s, Len(s), j)) = Len(s) - 1
<1> DEFINE n == Len(s)
           g == Without(s, n, j)
<1>1. n \in Nat /\ j \in 1..n /\ \A k \in 1..n : s[k] \in S
  BY ElementOf
<1>2. /\ DOMAIN g = 1..(n - 1) /\ n - 1 \in Nat
      /\ \A k \in 1..(n - 1) : g[k] = IF k < j THEN s[k] ELSE s[k + 1]
  <2> HIDE DEF n
  <2> QED
    BY <1>1, WithoutIs
<1>3. g = [k \in 1..(n - 1) |-> g[k]]
  BY DEF Without
<1> HIDE DEF n, g
<1>4. ASSUME NEW k \in 1..(n - 1) PROVE g[k] \in S
  <2>1. k \in 1..n /\ k + 1 \in 1..n
    BY <1>1
  <2>2. CASE k < j
    BY <1>1, <1>2, <2>1, <2>2
  <2>3. CASE ~(k < j)
    BY <1>1, <1>2, <2>1, <2>3
  <2> QED
    BY <2>2, <2>3
<1>5. g \in [1..(n - 1) -> S]
  BY <1>3, <1>4
<1>6. g \in Seq(S) /\ Len(g) = n - 1
  BY <1>2, <1>5
<1> QED
  BY <1>6 DEF n, g

\* Of the positions kept one less: the j-th entry is left out.
LEMMA SelectedOneLess ==
  ASSUME NEW S, NEW q \in Seq(S), NEW at, NEW s, NEW kept, NEW l \in Nat,
         SelectedAre(q, at, s, kept, l), NEW j \in 1..Len(q)
  PROVE  SelectedAre(Without(q, Len(q), j), Without(at, Len(q), j), s, kept \ {at[j]}, l)
<1> DEFINE n == Len(q)
           r == Without(q, n, j)
           to == Without(at, n, j)
           K == kept \intersect (1..l)
           L == (kept \ {at[j]}) \intersect (1..l)
<1>1. n \in Nat /\ j \in 1..n /\ Len(r) = n - 1
  BY WithoutElement
<1>2. /\ at \in [1..n -> K] /\ \A i, k \in 1..n : i < k => at[i] < at[k]
      /\ \A i \in K : \E k \in 1..n : at[k] = i
      /\ \A k \in 1..n : q[k] = s[at[k]]
  BY DEF SelectedAre
<1>3. K \in SUBSET Nat /\ L = K \ {at[j]}
  OBVIOUS
<1>4. /\ DOMAIN to = 1..(n - 1)
      /\ \A k \in 1..(n - 1) : to[k] = IF k < j THEN at[k] ELSE at[k + 1]
      /\ \A k \in 1..(n - 1) : r[k] = IF k < j THEN q[k] ELSE q[k + 1]
      /\ \A i \in 1..n : i # j => \E k \in 1..(n - 1) : to[k] = at[i]
      /\ to = [k \in 1..(n - 1) |-> to[k]]
  <2>1. to = [k \in 1..(n - 1) |-> to[k]]
    BY DEF Without
  <2> HIDE DEF n
  <2> QED
    BY <1>1, <2>1, WithoutIs
<1> HIDE DEF n, r, to, K, L
<1> DEFINE up(k) == IF k < j THEN k ELSE k + 1
<1>5. ASSUME NEW k \in 1..(n - 1)
      PROVE  up(k) \in 1..n /\ up(k) # j /\ to[k] = at[up(k)] /\ r[k] = q[up(k)]
  <2>1. CASE k < j
    BY <1>1, <1>4, <2>1
  <2>2. CASE ~(k < j)
    BY <1>1, <1>4, <2>2
  <2> QED
    BY <2>1, <2>2
<1>6. \A k, i \in 1..(n - 1) : k < i => up(k) < up(i)
  BY <1>1
<1> HIDE DEF up
<1>7. \A k, i \in 1..n : k # i => at[k] # at[i]
  <2> SUFFICES ASSUME NEW k \in 1..n, NEW i \in 1..n, k # i PROVE at[k] # at[i]
    OBVIOUS
  <2>1. at[k] \in Nat /\ at[i] \in Nat
    BY <1>2, <1>3
  <2>2. k < i \/ i < k
    BY <1>1
  <2> QED
    BY <1>2, <2>1, <2>2
<1>8. to \in [1..(n - 1) -> L]
  <2>1. ASSUME NEW k \in 1..(n - 1) PROVE to[k] \in L
    <3>1. up(k) \in 1..n /\ up(k) # j /\ to[k] = at[up(k)]
      BY <1>5
    <3>2. at[up(k)] \in K /\ at[up(k)] # at[j]
      BY <1>1, <1>2, <1>7, <3>1
    <3> QED
      BY <1>3, <3>1, <3>2
  <2> QED
    BY <1>4, <2>1
<1>9. \A k, i \in 1..(n - 1) : k < i => to[k] < to[i]
  BY <1>2, <1>5, <1>6
<1>10. \A i \in L : \E k \in 1..(n - 1) : to[k] = i
  BY <1>2, <1>3, <1>4
<1>11. \A k \in 1..(n - 1) : r[k] = s[to[k]]
  BY <1>2, <1>5
<1>12. SelectedAre(r, to, s, kept \ {at[j]}, l)
  BY <1>1, <1>8, <1>9, <1>10, <1>11 DEF SelectedAre, L
<1> QED
  BY <1>12 DEF r, to, n

\* The entries at the positions kept are one sequence only.
LEMMA SelectedOnce ==
  ASSUME NEW S, NEW q \in Seq(S), NEW r \in Seq(S), NEW at, NEW to, NEW s, NEW kept,
         NEW l \in Nat, SelectedAre(q, at, s, kept, l), SelectedAre(r, to, s, kept, l)
  PROVE  q = r
<1> DEFINE K == kept \intersect (1..l)
           m == Len(q)
           n == Len(r)
<1>1. /\ m \in Nat /\ n \in Nat /\ K \in SUBSET Nat
      /\ at \in [1..m -> K] /\ to \in [1..n -> K]
      /\ \A i, k \in 1..m : i < k => at[i] < at[k]
      /\ \A i, k \in 1..n : i < k => to[i] < to[k]
      /\ \A i \in K : \E k \in 1..m : at[k] = i
      /\ \A i \in K : \E k \in 1..n : to[k] = i
      /\ \A k \in 1..m : q[k] = s[at[k]]
      /\ \A k \in 1..n : r[k] = s[to[k]]
  BY DEF SelectedAre
<1>2. q = [k \in 1..m |-> q[k]] /\ r = [k \in 1..n |-> r[k]]
  OBVIOUS
<1> HIDE DEF K, m, n
<1> DEFINE Differ(k) == k \in 1..m /\ k \in 1..n /\ at[k] # to[k]
<1>3. \A k \in 1..m : k \in 1..n => at[k] = to[k]
  <2> SUFFICES ASSUME NEW d \in {k \in Nat : Differ(k)} PROVE FALSE
    BY <1>1
  <2>1. PICK k \in {k \in Nat : Differ(k)} : \A i \in {i \in Nat : Differ(i)} : k <= i
    <3> DEFINE T == {i \in Nat : Differ(i)}
    <3>1. T \in SUBSET Nat /\ T # {}
      OBVIOUS
    <3> HIDE DEF T
    <3>2. \E i \in T : \A b \in T : i <= b
      BY <3>1, LeastNatural
    <3> QED
      BY <3>2 DEF T
  <2>2. \A i \in 1..m : i \in 1..n /\ i < k => at[i] = to[i]
    BY <1>1, <2>1
  <2>3. k \in 1..m /\ k \in 1..n /\ at[k] \in K /\ to[k] \in K /\ at[k] \in Nat /\ to[k] \in Nat
    BY <1>1, <2>1
  <2>4. CASE at[k] < to[k]
    <3>1. PICK i \in 1..n : to[i] = at[k]
      BY <1>1, <2>3
    <3>2. i < k
      <4>1. to[i] \in Nat /\ ~(k < i) /\ k # i
        BY <1>1, <2>3, <2>4, <3>1
      <4> QED
        BY <1>1, <2>3, <4>1
    <3>3. i \in 1..m /\ at[i] = at[k] /\ at[i] < at[k]
      <4>1. i \in 1..m
        BY <1>1, <2>3, <3>2
      <4> QED
        BY <1>1, <2>2, <2>3, <3>1, <3>2, <4>1
    <3> QED
      BY <2>3, <3>3
  <2>5. CASE to[k] < at[k]
    <3>1. PICK i \in 1..m : at[i] = to[k]
      BY <1>1, <2>3
    <3>2. i < k
      <4>1. at[i] \in Nat /\ ~(k < i) /\ k # i
        BY <1>1, <2>3, <2>5, <3>1
      <4> QED
        BY <1>1, <2>3, <4>1
    <3>3. i \in 1..n /\ to[i] = to[k] /\ to[i] < to[k]
      <4>1. i \in 1..n
        BY <1>1, <2>3, <3>2
      <4> QED
        BY <1>1, <2>2, <2>3, <3>1, <3>2, <4>1
    <3> QED
      BY <2>3, <3>3
  <2> QED
    BY <2>1, <2>3, <2>4, <2>5
<1>4. m = n
  <2>1. CASE m < n
    <3>1. m + 1 \in 1..n /\ to[m + 1] \in K
      BY <1>1, <2>1
    <3>2. PICK i \in 1..m : at[i] = to[m + 1]
      BY <1>1, <3>1
    <3>3. i \in 1..n /\ i < m + 1
      BY <1>1, <2>1
    <3>4. to[i] = to[m + 1] /\ to[m + 1] \in Nat
      <4>1. at[i] = to[i]
        BY <1>3, <3>2, <3>3
      <4> QED
        BY <1>1, <3>1, <3>2, <4>1
    <3> QED
      BY <1>1, <3>1, <3>3, <3>4
  <2>2. CASE n < m
    <3>1. n + 1 \in 1..m /\ at[n + 1] \in K
      BY <1>1, <2>2
    <3>2. PICK i \in 1..n : to[i] = at[n + 1]
      BY <1>1, <3>1
    <3>3. i \in 1..m /\ i < n + 1
      BY <1>1, <2>2
    <3>4. at[i] = at[n + 1] /\ at[n + 1] \in Nat
      <4>1. at[i] = to[i]
        BY <1>3, <3>2, <3>3
      <4> QED
        BY <1>1, <3>1, <3>2, <4>1
    <3> QED
      BY <1>1, <3>1, <3>3, <3>4
  <2> QED
    BY <1>1, <2>1, <2>2
<1>5. \A k \in 1..m : q[k] = r[k]
  BY <1>1, <1>3, <1>4
<1> QED
  BY <1>2, <1>4, <1>5
=============================================================================
