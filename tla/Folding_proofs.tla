--------------------------- MODULE Folding_proofs ---------------------------
(***************************************************************************)
(* Induction over the membership of a set, and what the folds over         *)
(* sequences compute: the recursion they are defined by has a solution.    *)
(***************************************************************************)
EXTENDS Naturals, Sequences, SequencesExt, FiniteSetTheorems, WellFoundedInduction, TLAPS

\* A set of numbers that is not empty has a least one.
LEMMA LeastNumber ==
  ASSUME NEW T \in SUBSET Nat, T # {} PROVE \E x \in T : \A y \in T : x <= y
<1> DEFINE R == OpToRel(<, Nat)
<1>1. IsWellFoundedOn(R, Nat)
  BY NatLessThanWellFounded
<1>2. \A x, y \in Nat : x < y => <<x, y>> \in R
  BY DEF OpToRel
<1> HIDE DEF R
<1>3. PICK x \in T : \A y \in T : ~(<<y, x>> \in R)
  BY <1>1, WFMin
<1>4. \A y \in T : x \in Nat /\ y \in Nat /\ ~(y < x)
  BY <1>2, <1>3
<1> QED BY <1>3, <1>4

LEMMA SetInduction ==
  ASSUME NEW S, 0 \in S, \A k \in Nat : k \in S => k + 1 \in S
  PROVE  \A k \in Nat : k \in S
<1>1. SUFFICES ASSUME Nat \ S # {} PROVE FALSE
  OBVIOUS
<1>2. PICK x \in Nat \ S : \A y \in Nat \ S : x <= y
  <2> DEFINE T == Nat \ S
  <2>1. T \in SUBSET Nat /\ T # {}
    BY <1>1
  <2> HIDE DEF T
  <2>2. \E x \in T : \A y \in T : x <= y
    BY <2>1, LeastNumber
  <2> QED BY <2>2 DEF T
<1>3. x # 0 /\ x - 1 \in Nat /\ ~(x <= x - 1)
  BY <1>2
<1>4. x - 1 \in S
  BY <1>2, <1>3
<1> QED BY <1>2, <1>3, <1>4

LEMMA MinMember ==
  ASSUME NEW N \in Nat, NEW t \in SUBSET (1..N), t # {}
  PROVE  Min(t) \in t /\ \A y \in t : Min(t) <= y
<1>1. t \in SUBSET Nat
  OBVIOUS
<1>2. \E x \in t : \A y \in t : x <= y
  BY <1>1, LeastNumber
<1> QED BY <1>2 DEF Min

LEMMA MaxMember ==
  ASSUME NEW N \in Nat, NEW t \in SUBSET (1..N), t # {}
  PROVE  Max(t) \in t /\ \A y \in t : Max(t) >= y
<1> DEFINE T == {x \in Nat : N - x \in t}
<1>1. T \in SUBSET Nat /\ T # {}
  <2>1. PICK y \in t : TRUE
    OBVIOUS
  <2>2. N - y \in Nat /\ N - (N - y) = y
    BY <2>1
  <2> QED BY <2>1, <2>2
<1>2. PICK x \in T : \A y \in T : x <= y
  <2> HIDE DEF T
  <2> QED BY <1>1, LeastNumber
<1>3. N - x \in t /\ x \in Nat
  BY <1>2
<1>4. ASSUME NEW y \in t PROVE N - x >= y
  <2>1. y \in Nat /\ N - y \in Nat /\ N - (N - y) = y
    BY <1>4
  <2>2. N - y \in T
    BY <2>1
  <2> QED BY <1>2, <1>3, <2>1, <2>2
<1>5. \E m \in t : \A y \in t : m >= y
  BY <1>3, <1>4
<1> QED BY <1>5 DEF Max

\* The ends of an interval.
LEMMA MaxOfInterval == ASSUME NEW k \in Nat \ {0} PROVE Max(1..k) = k
<1>1. 1..k \in SUBSET (1..k) /\ 1..k # {} /\ k \in 1..k
  OBVIOUS
<1>2. Max(1..k) \in 1..k /\ Max(1..k) >= k
  BY <1>1, MaxMember
<1> QED BY <1>2

LEMMA MinOfInterval == ASSUME NEW N \in Nat, NEW k \in 1..N PROVE Min(k..N) = k
<1>1. k..N \in SUBSET (1..N) /\ k..N # {} /\ k \in k..N
  OBVIOUS
<1>2. Min(k..N) \in k..N /\ Min(k..N) <= k
  BY <1>1, MinMember
<1> QED BY <1>2

\* The recursion of a fold over 1..N that takes the element c[t] off a set t last
\* and then sends it through g, and of one along 0..N.
Folds(h, N, X, b, g, c) ==
  /\ h \in [SUBSET (1..N) -> X]
  /\ \A t \in SUBSET (1..N) : h[t] = IF t = {} THEN b ELSE g[c[t]][h[t \ {c[t]}]]
Chain(h, N, X, b, g) ==
  /\ h \in [0..N -> X] /\ h[0] = b
  /\ \A i \in 1..N : i - 1 \in 0..N /\ h[i] = g[i][h[i - 1]]
Greatest(N) == [t \in SUBSET (1..N) |-> Max(t)]
Least(N) == [t \in SUBSET (1..N) |-> Min(t)]

LEMMA FoldExists ==
  ASSUME NEW N \in Nat, NEW X, NEW b \in X, NEW g \in [1..N -> [X -> X]], NEW c,
         \A t \in SUBSET (1..N) : t # {} => c[t] \in t
  PROVE  \E h : Folds(h, N, X, b, g, c)
<1> DEFINE D == SUBSET (1..N)
           Next(h) == [t \in D |-> IF t = {} THEN b ELSE g[c[t]][h[t \ {c[t]}]]]
           Upto(h, k) == \A t \in D : Cardinality(t) <= k => h[t] = Next(h)[t]
           S == {k \in Nat : \E h \in [D -> X] : Upto(h, k)}
<1>1. \A t \in D : IsFiniteSet(t) /\ Cardinality(t) \in Nat /\ Cardinality(t) <= N
  <2>1. IsFiniteSet(1..N) /\ Cardinality(1..N) = N
    BY FS_Interval
  <2>2. ASSUME NEW t \in D
        PROVE  IsFiniteSet(t) /\ Cardinality(t) \in Nat /\ Cardinality(t) <= N
    <3>1. IsFiniteSet(t) /\ Cardinality(t) <= Cardinality(1..N)
      BY <2>1, FS_Subset
    <3>2. Cardinality(t) \in Nat
      BY <3>1, FS_CardinalityType
    <3> QED BY <2>1, <3>1, <3>2
  <2> QED BY <2>2
<1>2. \A t \in D : t # {} => /\ t \ {c[t]} \in D /\ c[t] \in 1..N
                             /\ Cardinality(t \ {c[t]}) = Cardinality(t) - 1
  BY <1>1, FS_RemoveElement
<1>3. \A h \in [D -> X] : Next(h) \in [D -> X]
  <2> SUFFICES ASSUME NEW h \in [D -> X], NEW t \in D
               PROVE  (IF t = {} THEN b ELSE g[c[t]][h[t \ {c[t]}]]) \in X
    OBVIOUS
  <2>1. CASE t # {}
    <3> DEFINE u == t \ {c[t]}
    <3>1. u \in D /\ c[t] \in 1..N
      BY <1>2, <2>1
    <3> HIDE DEF u, D
    <3>2. g[c[t]] \in [X -> X] /\ h[u] \in X
      BY <3>1
    <3> QED BY <3>2 DEF u
  <2> QED BY <2>1
<1>4. 0 \in S
  <2> DEFINE h == [t \in D |-> b]
  <2>1. h \in [D -> X]
    OBVIOUS
  <2>2. ASSUME NEW t \in D, Cardinality(t) <= 0 PROVE h[t] = Next(h)[t]
    <3>1. t = {}
      BY <1>1, <2>2, FS_EmptySet
    <3> QED BY <3>1
  <2> QED BY <2>1, <2>2
<1>5. ASSUME NEW k \in Nat, k \in S PROVE k + 1 \in S
  <2>1. PICK h \in [D -> X] : Upto(h, k)
    BY <1>5
  <2>2. ASSUME NEW t \in D, Cardinality(t) <= k + 1 PROVE Next(h)[t] = Next(Next(h))[t]
    <3>1. CASE t = {}
      BY <3>1
    <3>2. CASE t # {}
      <4> DEFINE u == t \ {c[t]}
      <4>1. u \in D /\ Cardinality(u) <= k
        BY <1>1, <1>2, <2>2, <3>2
      <4>2. h[u] = Next(h)[u]
        BY <2>1, <4>1
      <4> HIDE DEF u
      <4>3. Next(h)[t] = g[c[t]][h[u]] /\ Next(Next(h))[t] = g[c[t]][Next(h)[u]]
        BY <3>2 DEF u
      <4> QED BY <4>2, <4>3
    <3> QED BY <3>1, <3>2
  <2> DEFINE f == Next(h)
  <2>3. f \in [D -> X]
    BY <1>3
  <2>4. \A t \in D : Cardinality(t) <= k + 1 => f[t] = Next(f)[t]
    BY <2>2
  <2> HIDE DEF f, Next, D
  <2>5. Upto(f, k + 1)
    BY <2>4
  <2> HIDE DEF Upto
  <2> QED BY <2>3, <2>5
<1>6. N \in S
  <2> HIDE DEF S
  <2> QED BY <1>4, <1>5, SetInduction
<1>7. PICK h \in [D -> X] : Upto(h, N)
  BY <1>6
<1>8. \A t \in D : h[t] = Next(h)[t]
  BY <1>1, <1>7
<1>9. Folds(h, N, X, b, g, c)
  BY <1>8 DEF Folds
<1> QED BY <1>9
LEMMA LeftFoldExists ==
  ASSUME NEW N \in Nat, NEW X, NEW b \in X, NEW g \in [1..N -> [X -> X]]
  PROVE  \E h : Folds(h, N, X, b, g, Greatest(N))
<1>1. \A t \in SUBSET (1..N) : t # {} => Greatest(N)[t] \in t
  BY MaxMember DEF Greatest
<1> QED BY <1>1, FoldExists, Zenon

LEMMA RightFoldExists ==
  ASSUME NEW N \in Nat, NEW X, NEW b \in X, NEW g \in [1..N -> [X -> X]]
  PROVE  \E h : Folds(h, N, X, b, g, Least(N))
<1>1. \A t \in SUBSET (1..N) : t # {} => Least(N)[t] \in t
  BY MinMember DEF Least
<1> QED BY <1>1, FoldExists, Zenon

\* What is known of the sets a fold meets on its way through 1..N.
LEMMA LeftSets ==
  ASSUME NEW N \in Nat, NEW k \in 1..N
  PROVE  /\ 1..k \in SUBSET (1..N) /\ 1..k # {} /\ Max(1..k) = k
         /\ (1..k) \ {k} = 1..(k - 1) /\ k - 1 \in 0..N /\ 1..(k - 1) \in SUBSET (1..N)
  BY MaxOfInterval
LEMMA RightSets ==
  ASSUME NEW N \in Nat, NEW k \in 1..N
  PROVE  /\ k..N \in SUBSET (1..N) /\ k..N # {} /\ Min(k..N) = k
         /\ (k..N) \ {k} = (k + 1)..N /\ (k + 1)..N \in SUBSET (1..N)
  BY MinOfInterval

LEMMA ChainExists ==
  ASSUME NEW N \in Nat, NEW X, NEW b \in X, NEW g \in [1..N -> [X -> X]]
  PROVE  \E h : Chain(h, N, X, b, g)
<1>1. PICK f : Folds(f, N, X, b, g, Greatest(N))
  BY LeftFoldExists, Zenon
<1> DEFINE h == [i \in 0..N |-> f[1..i]]
<1>2. h \in [0..N -> X]
  <2>1. \A i \in 0..N : 1..i \in SUBSET (1..N)
    OBVIOUS
  <2> QED BY <1>1, <2>1 DEF Folds
<1>3. h[0] = b
  <2>1. 0 \in 0..N /\ 1..0 = {} /\ {} \in SUBSET (1..N)
    OBVIOUS
  <2>2. f[{}] = b
    BY <1>1, <2>1 DEF Folds
  <2> QED BY <2>1, <2>2
<1>4. ASSUME NEW i \in 1..N PROVE i - 1 \in 0..N /\ h[i] = g[i][h[i - 1]]
  <2>1. f[1..i] = g[i][f[1..(i - 1)]]
    <3>1. Greatest(N)[1..i] = i
      BY LeftSets DEF Greatest
    <3> QED BY <1>1, <3>1, LeftSets, ZenonT(60) DEF Folds
  <2>2. i \in 0..N /\ i - 1 \in 0..N
    OBVIOUS
  <2> QED BY <2>1, <2>2
<1> HIDE DEF h
<1>5. Chain(h, N, X, b, g)
  BY <1>2, <1>3, <1>4 DEF Chain
<1> QED BY <1>5

\* FlattenSeq appends one sequence after the other.
LEMMA Flattening ==
  ASSUME NEW E, NEW ls \in Seq(Seq(E))
  PROVE  \E f \in [0..Len(ls) -> Seq(E)] :
           /\ f[0] = <<>> /\ \A i \in 1..Len(ls) : f[i] = f[i - 1] \o ls[i]
           /\ FlattenSeq(ls) = f[Len(ls)]
<1> DEFINE N == Len(ls)
           g == [i \in 1..N |-> [x \in Seq(E) |-> x \o ls[i]]]
<1>1. N \in Nat /\ \A i \in 1..N : ls[i] \in Seq(E)
  OBVIOUS
<1>2. g \in [1..N -> [Seq(E) -> Seq(E)]] /\ <<>> \in Seq(E)
  <2>1. \A i \in 1..N : [x \in Seq(E) |-> x \o ls[i]] \in [Seq(E) -> Seq(E)]
    BY <1>1
  <2> QED BY <2>1
<1>3. PICK h : Chain(h, N, Seq(E), <<>>, g)
  <2> HIDE DEF g, N
  <2> QED BY <1>1, <1>2, ChainExists, Zenon
<1>4. \A i \in 1..N : i - 1 \in 0..N /\ h[i - 1] \in Seq(E) /\ h[i] = h[i - 1] \o ls[i]
  <2> SUFFICES ASSUME NEW i \in 1..N
               PROVE  i - 1 \in 0..N /\ h[i - 1] \in Seq(E) /\ h[i] = h[i - 1] \o ls[i]
    OBVIOUS
  <2>1. i - 1 \in 0..N /\ h[i - 1] \in Seq(E) /\ h[i] = g[i][h[i - 1]]
    <3> HIDE DEF g
    <3> QED BY <1>3 DEF Chain
  <2> QED BY <2>1
<1> HIDE DEF g
<1>0. h \in [0..N -> Seq(E)] /\ h[0] = <<>>
  BY <1>3 DEF Chain
<1>5. CASE N = 0
  <2>1. FlattenSeq(ls) = <<>>
    BY <1>5 DEF FlattenSeq
  <2> QED BY <1>0, <1>1, <1>4, <1>5, <2>1
<1>6. CASE N # 0
  <2> DEFINE Body(f) == [i \in 1..N |-> IF i = 1 THEN ls[i] ELSE f[i - 1] \o ls[i]]
             flat == CHOOSE f : f = Body(f)
             w == [i \in 1..N |-> h[i]]
  <2>0. h[1] = ls[1]
    <3>1. 1 \in 1..N /\ 1 - 1 = 0
      BY <1>1, <1>6
    <3>2. h[1] = h[1 - 1] \o ls[1] /\ ls[1] \in Seq(E)
      BY <1>1, <1>4, <3>1
    <3>3. h[1] = <<>> \o ls[1]
      BY <1>0, <3>1, <3>2
    <3> QED BY <3>2, <3>3
  <2>1. FlattenSeq(ls) = flat[N]
    BY <1>6 DEF FlattenSeq
  <2>2. w = Body(w)
    <3> SUFFICES ASSUME NEW i \in 1..N
                 PROVE  h[i] = IF i = 1 THEN ls[i] ELSE w[i - 1] \o ls[i]
      OBVIOUS
    <3>1. CASE i = 1
      BY <2>0, <3>1
    <3>2. CASE i # 1
      <4>1. i - 1 \in 1..N
        BY <3>2
      <4> QED BY <1>4, <3>2, <4>1
    <3> QED BY <3>1, <3>2
  <2>3. flat = Body(flat)
    <3> HIDE DEF w, Body
    <3> QED BY <2>2, Zenon
  <2> HIDE DEF flat
  <2> DEFINE S == {k \in Nat : k + 1 \in 1..N => flat[k + 1] = h[k + 1]}
  <2>4. 0 \in S
    <3>1. 1 \in 1..N
      BY <1>1, <1>6
    <3>2. flat[1] = ls[1]
      BY <2>3, <3>1
    <3>3. h[1] = ls[1]
      BY <2>0
    <3> QED BY <3>2, <3>3
  <2>5. ASSUME NEW k \in Nat, k \in S PROVE k + 1 \in S
    <3> SUFFICES ASSUME k + 2 \in 1..N PROVE flat[k + 2] = h[k + 2]
      OBVIOUS
    <3>1. k + 1 \in 1..N /\ k + 2 # 1 /\ (k + 2) - 1 = k + 1
      BY <1>1
    <3>2. flat[k + 2] = flat[k + 1] \o ls[k + 2]
      BY <2>3, <3>1
    <3>3. h[k + 2] = h[k + 1] \o ls[k + 2]
      BY <1>4, <3>1
    <3> QED BY <2>5, <3>1, <3>2, <3>3
  <2>6. N - 1 \in S
    <3>1. N - 1 \in Nat
      BY <1>1, <1>6
    <3> HIDE DEF S
    <3> QED BY <2>4, <2>5, <3>1, SetInduction
  <2>7. flat[N] = h[N]
    BY <1>1, <1>6, <2>6
  <2> QED BY <1>0, <1>4, <2>1, <2>7
<1> QED BY <1>5, <1>6
-----------------------------------------------------------------------------
\* A part of a sequence.
LEMMA Piece ==
  ASSUME NEW S, NEW s \in Seq(S), NEW m \in 1..(Len(s) + 1), NEW n \in (m - 1)..Len(s)
  PROVE  /\ SubSeq(s, m, n) \in Seq(S) /\ Len(SubSeq(s, m, n)) = n - m + 1
         /\ DOMAIN SubSeq(s, m, n) = 1..(n - m + 1)
         /\ \A i \in 1..(n - m + 1) :
              SubSeq(s, m, n)[i] = s[i + m - 1] /\ i + m - 1 \in 1..Len(s)
<1>1. Len(s) \in Nat /\ m \in Nat /\ n \in Nat /\ n - m + 1 \in Nat
  OBVIOUS
<1>2. Len(SubSeq(s, m, n)) = n - m + 1 /\ DOMAIN SubSeq(s, m, n) = 1..(n - m + 1)
  BY <1>1
<1>3. \A i \in 1..(n - m + 1) :
        SubSeq(s, m, n)[i] = s[i + m - 1] /\ i + m - 1 \in 1..Len(s)
  BY <1>1
<1> QED BY <1>1, <1>2, <1>3
=============================================================================
