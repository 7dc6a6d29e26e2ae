--------------------------- MODULE Accept_proofs ----------------------------
(***************************************************************************)
(* Content negotiation against RFC 9110, for every Accept header, every    *)
(* list of offers and every text of a q parameter.                         *)
(***************************************************************************)
EXTENDS Accept, Folding_proofs

\* parseFraction's loop over d.
DigitLoop(h, d, N) ==
  /\ h[0] = [q |-> 0, mul |-> 100]
  /\ \A k \in 1..N :
       h[k] = [q |-> h[k - 1].q + d[k] * h[k - 1].mul, mul |-> h[k - 1].mul \div 10]

LEMMA FractionLoop ==
  ASSUME NEW d \in Seq(0..9)
  PROVE  \E h : DigitLoop(h, d, Len(d)) /\ parseFraction(d) = Thousandths(h[Len(d)].q)
<1> DEFINE N == Len(d)
           X == [q : Int, mul : Int]
           Op(acc, c) == [q |-> acc.q + c * acc.mul, mul |-> acc.mul \div 10]
           b == [q |-> 0, mul |-> 100]
           g == [i \in 1..N |-> [x \in X |-> Op(x, d[i])]]
           Body(f) == [t \in SUBSET (1..N) |->
                         IF t = {} THEN b ELSE Op(f[t \ {Max(t)}], d[Max(t)])]
           it == CHOOSE f : f = Body(f)
<1>1. N \in Nat /\ DOMAIN d = 1..N /\ \A i \in 1..N : d[i] \in 0..9
  OBVIOUS
<1>2. parseFraction(d) = Thousandths(it[1..N].q)
  BY <1>1 DEF parseFraction, FoldLeft, MapThenFoldSet
<1>3. b \in X /\ g \in [1..N -> [X -> X]]
  <2>1. \A i \in 1..N : \A x \in X : Op(x, d[i]) \in X
    BY <1>1, SMTT(40)
  <2> QED BY <2>1
<1>4. PICK f : Folds(f, N, X, b, g, Greatest(N))
  <2> HIDE DEF N, X, b, g
  <2> QED BY <1>1, <1>3, LeftFoldExists, Zenon
<1>5. f = Body(f)
  <2> SUFFICES ASSUME NEW t \in SUBSET (1..N)
               PROVE  f[t] = IF t = {} THEN b ELSE Op(f[t \ {Max(t)}], d[Max(t)])
    BY <1>4 DEF Folds
  <2> DEFINE u == t \ {Max(t)}
  <2>1. CASE t # {}
    <3>1. Max(t) \in 1..N /\ u \in SUBSET (1..N) /\ Greatest(N)[t] = Max(t)
      BY <1>1, <2>1, MaxMember DEF Greatest
    <3>2. f[u] \in X /\ f[t] = g[Max(t)][f[u]]
      <4> HIDE DEF X, g, b
      <4> QED BY <1>4, <2>1, <3>1 DEF Folds
    <3> HIDE DEF Op, X, u
    <3>3. f[t] = Op(f[u], d[Max(t)])
      BY <3>1, <3>2
    <3> QED BY <2>1, <3>3 DEF u
  <2>2. CASE t = {}
    BY <1>4, <2>2 DEF Folds
  <2> QED BY <2>1, <2>2
<1>6. it = Body(it)
  <2> HIDE DEF Body
  <2> QED BY <1>5, Zenon
<1> HIDE DEF it
<1>7. it[1..0] = b
  BY <1>6
<1>8. ASSUME NEW k \in 1..N PROVE it[1..k] = Op(it[1..(k - 1)], d[k])
  <2> HIDE DEF Op, b, N
  <2>1. /\ 1..k \in SUBSET (1..N) /\ 1..k # {} /\ Max(1..k) = k
        /\ (1..k) \ {k} = 1..(k - 1)
    BY <1>1, LeftSets
  <2>2. it[1..k] = IF 1..k = {} THEN b ELSE Op(it[(1..k) \ {Max(1..k)}], d[Max(1..k)])
    BY <1>6, <2>1
  <2> QED BY <2>1, <2>2
<1> DEFINE h == [k \in 0..N |-> it[1..k]]
<1>9. /\ h[0] = b /\ \A k \in 1..N : h[k] = Op(h[k - 1], d[k])
      /\ h[N] = it[1..N]
  <2> HIDE DEF Op, b
  <2>1. \A k \in 1..N : k \in 0..N /\ k - 1 \in 0..N
    BY <1>1
  <2>2. 0 \in 0..N /\ N \in 0..N
    BY <1>1
  <2> QED BY <1>7, <1>8, <2>1, <2>2
<1> HIDE DEF h
<1>10. DigitLoop(h, d, N)
  BY <1>9 DEF DigitLoop
<1> QED BY <1>2, <1>9, <1>10
\* What the loop adds up are the digits' place values.
LEMMA PlaceValues ==
  ASSUME NEW d, NEW N \in 0..3, DOMAIN d = 1..N, \A i \in 1..N : d[i] \in 0..9,
         NEW h, DigitLoop(h, d, N)
  PROVE  h[N].q = Value(0, d) /\ Value(0, d) \in 0..999
<1>1. h[0].q = 0 /\ h[0].mul = 100
  BY DEF DigitLoop
<1>2. ASSUME N >= 1 PROVE d[1] \in 0..9 /\ h[1].q = d[1] * 100 /\ h[1].mul = 10
  <2>1. 1 \in 1..N /\ h[1] = [q |-> h[0].q + d[1] * h[0].mul, mul |-> h[0].mul \div 10]
    BY <1>2 DEF DigitLoop
  <2> QED BY <1>1, <2>1
<1>3. ASSUME N >= 2
      PROVE  d[2] \in 0..9 /\ h[2].q = d[1] * 100 + d[2] * 10 /\ h[2].mul = 1
  <2>1. 2 \in 1..N /\ h[2] = [q |-> h[1].q + d[2] * h[1].mul, mul |-> h[1].mul \div 10]
    BY <1>3 DEF DigitLoop
  <2> QED BY <1>2, <1>3, <2>1
<1>4. ASSUME N >= 3 PROVE d[3] \in 0..9 /\ h[3].q = d[1] * 100 + d[2] * 10 + d[3]
  <2>1. 3 \in 1..N /\ h[3] = [q |-> h[2].q + d[3] * h[2].mul, mul |-> h[2].mul \div 10]
    BY <1>4 DEF DigitLoop
  <2> QED BY <1>2, <1>3, <1>4, <2>1
<1> DEFINE a == IF 1 \in DOMAIN d THEN d[1] * 100 ELSE 0
           b == IF 2 \in DOMAIN d THEN d[2] * 10 ELSE 0
           c == IF 3 \in DOMAIN d THEN d[3] * 1 ELSE 0
<1>5. Value(0, d) = 0 * 1000 + a + b + c
  BY DEF Value
<1>6. CASE N = 0
  BY <1>1, <1>5, <1>6
<1>7. CASE N = 1
  <2>1. a = d[1] * 100 /\ b = 0 /\ c = 0
    BY <1>7
  <2> HIDE DEF a, b, c
  <2> QED BY <1>2, <1>5, <1>7, <2>1
<1>8. CASE N = 2
  <2>1. a = d[1] * 100 /\ b = d[2] * 10 /\ c = 0
    BY <1>8
  <2> HIDE DEF a, b, c
  <2> QED BY <1>2, <1>3, <1>5, <1>8, <2>1
<1>9. CASE N = 3
  <2>1. a = d[1] * 100 /\ b = d[2] * 10 /\ c = d[3] * 1
    BY <1>9
  <2> HIDE DEF a, b, c
  <2> QED BY <1>2, <1>3, <1>4, <1>5, <1>9, <2>1
<1> QED BY <1>6, <1>7, <1>8, <1>9
\* A text's characters.
LEMMA TextChars ==
  ASSUME NEW t \in Texts
  PROVE  t \in Seq(Chars) /\ Len(t) \in Nat /\ DOMAIN t = 1..Len(t) /\ \A i \in 1..Len(t) : t[i] \in 0..11
<1>1. t \in Seq(Chars) /\ Len(t) \in Nat /\ DOMAIN t = 1..Len(t) /\ \A i \in 1..Len(t) : t[i] \in Chars
  BY DEF Texts
<1> QED BY <1>1 DEF Chars, Other

LEMMA DecimalsType ==
  ASSUME NEW f, NEW N \in 0..3, DOMAIN f = 1..N, f \in Texts, \A i \in 1..N : f[i] \in 0..9
  PROVE  f \in Decimals
<1>1. f = [i \in 1..N |-> f[i]]
  <2>1. f = [i \in DOMAIN f |-> f[i]]
    BY DEF Texts
  <2> QED BY <2>1
<1>2. f \in [1..N -> 0..9]
  BY <1>1
<1> QED BY <1>2 DEF Decimals

LEMMA DecimalsChars ==
  ASSUME NEW f \in Decimals
  PROVE  /\ f \in Seq(0..9) /\ f \in Texts /\ Len(f) \in 0..3 /\ DOMAIN f = 1..Len(f)
         /\ \A i \in 1..Len(f) : f[i] \in 0..9
<1>1. PICK m \in 0..3 : f \in [1..m -> 0..9]
  BY DEF Decimals
<1>2. m \in Nat
  OBVIOUS
<1>3. f \in Seq(0..9) /\ Len(f) = m
  BY <1>1, <1>2
<1>4. f \in [1..m -> Chars]
  BY <1>1 DEF Chars, Other
<1>5. f \in Texts
  BY <1>2, <1>4 DEF Texts
<1> QED BY <1>1, <1>3, <1>5

\* parseFraction reads at most three digits by their place, and nothing else.
LEMMA Fraction ==
  ASSUME NEW d \in Texts, NEW N \in 0..3, N = Len(d)
  PROVE  IF \A i \in 1..N : d[i] \in 0..9
         THEN /\ d \in Decimals /\ parseFraction(d) = Thousandths(Value(0, d))
              /\ Value(0, d) \in 0..999
         ELSE parseFraction(d) = Invalid
<1>1. DOMAIN d = 1..N /\ \A i \in 1..N : d[i] \in 0..11
  BY TextChars
<1>2. CASE \A i \in 1..N : d[i] \in 0..9
  <2>1. d \in Decimals
    BY <1>1, <1>2, DecimalsType
  <2>2. d \in Seq(0..9)
    BY <2>1, DecimalsChars
  <2>3. PICK h : DigitLoop(h, d, N) /\ parseFraction(d) = Thousandths(h[N].q)
    BY <2>2, FractionLoop
  <2>4. h[N].q = Value(0, d) /\ Value(0, d) \in 0..999
    BY <1>1, <1>2, <2>3, PlaceValues, ZenonT(60)
  <2> QED BY <1>2, <2>1, <2>3, <2>4
<1>3. CASE ~\A i \in 1..N : d[i] \in 0..9
  <2>1. \E i \in DOMAIN d : d[i] > 9
    BY <1>1, <1>3
  <2>2. parseFraction(d) = Invalid
    BY <2>1 DEF parseFraction
  <2> QED BY <1>3, <2>2
<1> QED BY <1>2, <1>3

\* Texts are told apart by their characters; one and two of them before a rest.
LEMMA OneBefore ==
  ASSUME NEW S, NEW t \in Seq(S), NEW f \in Seq(S), NEW a \in S
  PROVE  t = <<a>> \o f <=> /\ Len(t) = Len(f) + 1 /\ t[1] = a
                            /\ f = SubSeq(t, 2, Len(t))
  OBVIOUS
LEMMA TwoBefore ==
  ASSUME NEW S, NEW t \in Seq(S), NEW f \in Seq(S), NEW a \in S, NEW b \in S
  PROVE  t = <<a, b>> \o f <=> /\ Len(t) = Len(f) + 2 /\ t[1] = a /\ t[2] = b
                               /\ f = SubSeq(t, 3, Len(t))
  OBVIOUS
LEMMA Alone ==
  ASSUME NEW S, NEW t \in Seq(S), NEW a
  PROVE  t = <<a>> <=> Len(t) = 1 /\ t[1] = a
  OBVIOUS
LEMMA Rests ==
  ASSUME NEW S, NEW t \in Seq(S)
  PROVE  /\ Len(t) = 1 => SubSeq(t, 3, Len(t)) = <<>>
         /\ Len(t) >= 2 => Len(SubSeq(t, 3, Len(t))) = Len(t) - 2
         /\ Len(t) >= 1 => Len(SubSeq(t, 2, Len(t))) = Len(t) - 1
         /\ t = <<>> <=> Len(t) = 0
<1>1. Len(t) = 1 => SubSeq(t, 3, Len(t)) = <<>>
  OBVIOUS
<1>2. ASSUME Len(t) >= 2 PROVE Len(SubSeq(t, 3, Len(t))) = Len(t) - 2
  <2>1. 3 \in 1..(Len(t) + 1) /\ Len(t) \in (3 - 1)..Len(t)
    BY <1>2
  <2>2. Len(SubSeq(t, 3, Len(t))) = Len(t) - 3 + 1
    BY <2>1, Piece, ZenonT(60)
  <2> QED BY <2>2
<1>3. ASSUME Len(t) >= 1 PROVE Len(SubSeq(t, 2, Len(t))) = Len(t) - 1
  <2>1. 2 \in 1..(Len(t) + 1) /\ Len(t) \in (2 - 1)..Len(t)
    BY <1>3
  <2>2. Len(SubSeq(t, 2, Len(t))) = Len(t) - 2 + 1
    BY <2>1, Piece, ZenonT(60)
  <2> QED BY <2>2
<1>4. t = <<>> <=> Len(t) = 0
  OBVIOUS
<1> QED BY <1>1, <1>2, <1>3, <1>4

\* The two shapes of a qvalue: with an integer part, and without.
LEMMA Spelled ==
  ASSUME NEW t \in Texts, NEW n \in {0, 1}, NEW f \in Decimals
  PROVE  Spells(t, n, f) <=>
           \/ /\ Len(t) >= 1 /\ t[1] = n /\ (Len(t) = 1 \/ t[2] = Dot)
              /\ f = SubSeq(t, 3, Len(t))
           \/ Len(t) >= 2 /\ n = 0 /\ t[1] = Dot /\ f = SubSeq(t, 2, Len(t))
<1>1. t \in Seq(Chars) /\ f \in Seq(Chars) /\ Len(t) \in Nat /\ Len(f) \in Nat
  BY DecimalsChars, TextChars
<1>2. n \in Chars /\ Dot \in Chars
  BY DEF Chars, Other, Dot
<1>3. f = <<>> /\ t = <<n>> <=> Len(t) = 1 /\ t[1] = n /\ f = SubSeq(t, 3, Len(t))
  BY <1>1, Alone, Rests
<1>4. t = <<n, Dot>> \o f <=>
        Len(t) >= 2 /\ t[1] = n /\ t[2] = Dot /\ f = SubSeq(t, 3, Len(t))
  <2>1. t = <<n, Dot>> \o f <=> /\ Len(t) = Len(f) + 2 /\ t[1] = n /\ t[2] = Dot
                                /\ f = SubSeq(t, 3, Len(t))
    BY <1>1, <1>2, TwoBefore
  <2> QED BY <1>1, <2>1, Rests
<1>5. f # <<>> /\ t = <<Dot>> \o f <=> Len(t) >= 2 /\ t[1] = Dot /\ f = SubSeq(t, 2, Len(t))
  <2>1. t = <<Dot>> \o f <=> Len(t) = Len(f) + 1 /\ t[1] = Dot /\ f = SubSeq(t, 2, Len(t))
    BY <1>1, <1>2, OneBefore
  <2> QED BY <1>1, <2>1, Rests
<1>6. n # Dot
  BY DEF Dot
<1> QED BY <1>1, <1>3, <1>4, <1>5, <1>6 DEF Spells

LEMMA RefQMember ==
  ASSUME NEW t \in Texts, NEW v
  PROVE  v \in RefQ(t) <=> /\ v \in 0..1000
                           /\ \E n \in {0, 1} : \E f \in Decimals :
                                Spells(t, n, f) /\ v = Value(n, f)
<1> DEFINE ends == {SubSeq(t, k, Len(t)) : k \in 1..(Len(t) + 1)}
           spelled == {p \in {0, 1} \X (ends \cap Decimals) : Spells(t, p[1], p[2])}
<1>1. RefQ(t) = {Value(p[1], p[2]) : p \in spelled} \cap 0..1000
  BY DEF RefQ
<1>2. Len(t) \in Nat
  BY DEF Texts
<1>3. ASSUME NEW n \in {0, 1}, NEW f \in Decimals, Spells(t, n, f) PROVE <<n, f>> \in spelled
  <2>1. f \in ends
    <3>1. CASE Len(t) >= 2 /\ f = SubSeq(t, 3, Len(t))
      BY <1>2, <3>1
    <3>2. CASE Len(t) = 1 /\ f = SubSeq(t, 3, Len(t))
      <4>1. SubSeq(t, 3, Len(t)) = <<>> /\ Len(SubSeq(t, 2, Len(t))) = 0
        BY <3>2, TextChars, Rests
      <4>2. SubSeq(t, 2, Len(t)) = <<>> /\ 2 \in 1..(Len(t) + 1)
        BY <3>2
      <4> QED BY <3>2, <4>1, <4>2
    <3>3. CASE Len(t) >= 2 /\ f = SubSeq(t, 2, Len(t))
      BY <1>2, <3>3
    <3> QED BY <1>2, <1>3, <3>1, <3>2, <3>3, Spelled
  <2> HIDE DEF ends
  <2> QED BY <1>3, <2>1
<1>4. ASSUME NEW p \in spelled
      PROVE  p[1] \in {0, 1} /\ p[2] \in Decimals /\ Spells(t, p[1], p[2])
  <2> HIDE DEF ends
  <2> QED BY <1>4
<1> HIDE DEF spelled, ends
<1>5. ASSUME NEW n \in {0, 1}, NEW f \in Decimals, Spells(t, n, f), v = Value(n, f)
      PROVE  v \in {Value(p[1], p[2]) : p \in spelled}
  <2>1. <<n, f>> \in spelled /\ <<n, f>>[1] = n /\ <<n, f>>[2] = f
    BY <1>3, <1>5
  <2> QED BY <1>5, <2>1
<1>6. ASSUME v \in {Value(p[1], p[2]) : p \in spelled}
      PROVE  \E n \in {0, 1} : \E f \in Decimals : Spells(t, n, f) /\ v = Value(n, f)
  <2>1. PICK p \in spelled : v = Value(p[1], p[2])
    BY <1>6
  <2> QED BY <1>4, <2>1
<1> QED BY <1>1, <1>5, <1>6

LEMMA Values ==
  ASSUME NEW f \in Decimals
  PROVE  /\ Value(0, f) \in 0..999 /\ Value(1, f) = 1000 + Value(0, f)
         /\ Value(0, f) = 0 <=> \A i \in 1..Len(f) : f[i] = 0
<1> DEFINE N == Len(f)
           x == IF 1 \in DOMAIN f THEN f[1] ELSE 0
           y == IF 2 \in DOMAIN f THEN f[2] ELSE 0
           z == IF 3 \in DOMAIN f THEN f[3] ELSE 0
<1>1. N \in 0..3 /\ DOMAIN f = 1..N /\ \A i \in 1..N : f[i] \in 0..9
  BY DecimalsChars
<1> SUFFICES /\ Value(0, f) \in 0..999 /\ Value(1, f) = 1000 + Value(0, f)
             /\ Value(0, f) = 0 <=> \A i \in 1..N : f[i] = 0
  OBVIOUS
<1> HIDE DEF N
<1>2. x \in 0..9 /\ y \in 0..9 /\ z \in 0..9
  BY <1>1
<1>3. \A n \in {0, 1} : Value(n, f) = n * 1000 + x * 100 + y * 10 + z * 1
  BY DEF Value
<1>4. (\A i \in 1..N : f[i] = 0) <=> x = 0 /\ y = 0 /\ z = 0
  BY <1>1
<1> HIDE DEF x, y, z
<1>5. Value(0, f) = x * 100 + y * 10 + z /\ Value(1, f) = 1000 + x * 100 + y * 10 + z
  <2>1. Value(0, f) = 0 * 1000 + x * 100 + y * 10 + z * 1
    BY <1>3
  <2>2. Value(1, f) = 1 * 1000 + x * 100 + y * 10 + z * 1
    BY <1>3
  <2> QED BY <1>2, <2>1, <2>2
<1> QED BY <1>2, <1>4, <1>5

\* A text and what may be its decimals.
Cut(t, N, short, long) == N = Len(t) /\ short = SubSeq(t, 2, N) /\ long = SubSeq(t, 3, N)

LEMMA CutTypes ==
  ASSUME NEW t \in Texts, NEW N, NEW short, NEW long, Cut(t, N, short, long), N >= 1
  PROVE  /\ N \in Nat /\ \A i \in 1..N : t[i] \in 0..11
         /\ short \in Texts /\ Len(short) = N - 1
         /\ \A i \in 1..(N - 1) : short[i] = t[i + 1]
         /\ long \in Texts /\ Len(long) = (IF N = 1 THEN 0 ELSE N - 2)
         /\ \A i \in 1..(N - 2) : long[i] = t[i + 2]
<1>1. N = Len(t) /\ short = SubSeq(t, 2, N) /\ long = SubSeq(t, 3, N)
  BY DEF Cut
<1>2. t \in Seq(Chars) /\ N \in Nat /\ \A i \in 1..N : t[i] \in 0..11
  BY <1>1, TextChars
<1>3. /\ short \in Seq(Chars) /\ Len(short) = N - 2 + 1
      /\ \A i \in 1..(N - 2 + 1) : short[i] = t[i + 2 - 1] /\ i + 2 - 1 \in 1..N
  <2>1. 2 \in 1..(Len(t) + 1) /\ N \in (2 - 1)..Len(t)
    BY <1>1, <1>2
  <2>2. /\ SubSeq(t, 2, N) \in Seq(Chars) /\ Len(SubSeq(t, 2, N)) = N - 2 + 1
        /\ \A i \in 1..(N - 2 + 1) :
             SubSeq(t, 2, N)[i] = t[i + 2 - 1] /\ i + 2 - 1 \in 1..Len(t)
    BY <1>2, <2>1, Piece, ZenonT(60)
  <2> QED BY <1>1, <2>2, Zenon
<1>4. CASE N = 1
  <2>1. long = <<>> /\ long \in Seq(Chars) /\ Len(long) = 0
    BY <1>1, <1>4
  <2> QED BY <1>2, <1>3, <1>4, <2>1 DEF Texts
<1>5. CASE N >= 2
  <2>1. 3 \in 1..(Len(t) + 1) /\ N \in (3 - 1)..Len(t)
    BY <1>1, <1>2, <1>5
  <2>2. /\ long \in Seq(Chars) /\ Len(long) = N - 3 + 1
        /\ \A i \in 1..(N - 3 + 1) : long[i] = t[i + 3 - 1] /\ i + 3 - 1 \in 1..N
    <3>1. /\ SubSeq(t, 3, N) \in Seq(Chars) /\ Len(SubSeq(t, 3, N)) = N - 3 + 1
          /\ \A i \in 1..(N - 3 + 1) :
               SubSeq(t, 3, N)[i] = t[i + 3 - 1] /\ i + 3 - 1 \in 1..Len(t)
      BY <1>2, <2>1, Piece, ZenonT(60)
    <3> QED BY <1>1, <3>1, Zenon
  <2>3. \A i \in 1..(N - 2) : long[i] = t[i + 2]
    BY <1>2, <2>2
  <2>4. \A i \in 1..(N - 1) : short[i] = t[i + 1]
    BY <1>2, <1>3
  <2> QED BY <1>2, <1>3, <1>5, <2>2, <2>3, <2>4 DEF Texts
<1> QED BY <1>2, <1>4, <1>5

\* How the integer part n and the decimals f appear in it.
CutAs(t, N, short, long, n, f) ==
  \/ N >= 1 /\ t[1] = n /\ (N = 1 \/ t[2] = Dot) /\ f = long
  \/ N >= 2 /\ n = 0 /\ t[1] = Dot /\ f = short

LEMMA CutSpells ==
  ASSUME NEW t \in Texts, NEW N, NEW short, NEW long, Cut(t, N, short, long),
         NEW n \in {0, 1}, NEW f \in Decimals
  PROVE  Spells(t, n, f) <=> CutAs(t, N, short, long, n, f)
  BY Spelled, Zenon DEF Cut, CutAs

LEMMA CutParse ==
  ASSUME NEW t \in Texts, NEW N, NEW short, NEW long, Cut(t, N, short, long)
  PROVE  parseQ(t) = IF N = 0 \/ N > 5 THEN Invalid
                     ELSE IF t[1] = Dot
                       THEN IF N = 1 \/ N > 4 THEN Invalid ELSE parseFraction(short)
                     ELSE IF N > 1 /\ t[2] # Dot THEN Invalid
                     ELSE IF t[1] = 0 THEN parseFraction(long)
                     ELSE IF t[1] = 1 /\ \A i \in 3..N : t[i] = 0 THEN Thousandths(1000)
                     ELSE Invalid
<1>1. N = Len(t) /\ short = SubSeq(t, 2, N) /\ long = SubSeq(t, 3, N)
  BY DEF Cut
<1>2. t \in Seq(Chars) /\ N \in Nat
  BY <1>1, TextChars
<1>3. N # 0 => Tail(t) = short
  BY <1>1, <1>2
<1>4. parseQ(t) = IF N = 0 \/ N > 5 THEN Invalid
                  ELSE IF t[1] = Dot
                    THEN IF N = 1 \/ N > 4 THEN Invalid ELSE parseFraction(Tail(t))
                  ELSE IF N > 1 /\ t[2] # Dot THEN Invalid
                  ELSE IF t[1] = 0 THEN parseFraction(SubSeq(t, 3, N))
                  ELSE IF t[1] = 1 /\ \A i \in 3..N : t[i] = 0 THEN Thousandths(1000)
                  ELSE Invalid
  BY <1>1 DEF parseQ
<1>5. CASE N = 0
  BY <1>4, <1>5
<1>6. CASE N # 0
  BY <1>1, <1>3, <1>4, <1>6
<1> QED BY <1>5, <1>6

\* What it means that parseQ is right about t.
RightlyRead(t) ==
  /\ parseQ(t) \in [ok : BOOLEAN, q : 0..1000]
  /\ parseQ(t).ok <=> RefQ(t) # {}
  /\ parseQ(t).ok => RefQ(t) = {parseQ(t).q}

LEMMA RightlyRefused ==
  ASSUME NEW t \in Texts, parseQ(t) = Invalid,
         \A n \in {0, 1} : \A f \in Decimals : Spells(t, n, f) => Value(n, f) \notin 0..1000
  PROVE  RightlyRead(t)
<1>1. RefQ(t) = {}
  BY RefQMember
<1> QED BY <1>1 DEF Invalid, RightlyRead

LEMMA RightlyTaken ==
  ASSUME NEW t \in Texts, NEW n \in {0, 1}, NEW f \in Decimals, Value(n, f) \in 0..1000,
         \A m \in {0, 1} : \A e \in Decimals : Spells(t, m, e) <=> m = n /\ e = f,
         parseQ(t) = Thousandths(Value(n, f))
  PROVE  RightlyRead(t)
<1>1. ASSUME NEW v PROVE v \in RefQ(t) <=> v = Value(n, f)
  <2>1. CASE v = Value(n, f)
    BY <2>1, RefQMember
  <2>2. CASE v # Value(n, f)
    <3>1. ~\E m \in {0, 1} : \E e \in Decimals : Spells(t, m, e) /\ v = Value(m, e)
      BY <2>2
    <3> QED BY <2>2, <3>1, RefQMember
  <2> QED BY <2>1, <2>2
<1>2. RefQ(t) = {Value(n, f)}
  BY <1>1
<1> QED BY <1>2 DEF Thousandths, RightlyRead

LEMMA AboveOne ==
  ASSUME NEW f \in Decimals, Value(0, f) # 0 PROVE ~(Value(1, f) \in 0..1000)
<1> SUFFICES ASSUME Value(1, f) \in 0..1000 PROVE FALSE
  OBVIOUS
<1> DEFINE k == Value(0, f)
           v == Value(1, f)
<1>1. k \in 0..999 /\ k # 0 /\ v = 1000 + k /\ v \in 0..1000
  BY Values
<1> HIDE DEF k, v
<1>2. k \in Nat /\ v <= 1000
  BY <1>1
<1> QED BY <1>1, <1>2

\* parseQ accepts exactly the qvalues, and reads each as what it spells.
THEOREM ParseQ == ASSUME NEW t \in Texts PROVE RightlyRead(t)
<1>1. PICK N, short, long : Cut(t, N, short, long)
  BY DEF Cut
<1>2. N \in Nat
  BY <1>1, TextChars DEF Cut
<1> DEFINE Sp(n, f) == CutAs(t, N, short, long, n, f)
           Size(f) == Len(f)
           Digits(f) == \A i \in 1..Size(f) : f[i] \in 0..9
<1>3. \A n \in {0, 1} : \A f \in Decimals : Spells(t, n, f) <=> Sp(n, f)
  <2> SUFFICES ASSUME NEW n \in {0, 1}, NEW f \in Decimals PROVE Spells(t, n, f) <=> Sp(n, f)
    OBVIOUS
  <2> QED BY <1>1, CutSpells
<1>4. parseQ(t) = IF N = 0 \/ N > 5 THEN Invalid
                  ELSE IF t[1] = Dot
                    THEN IF N = 1 \/ N > 4 THEN Invalid ELSE parseFraction(short)
                  ELSE IF N > 1 /\ t[2] # Dot THEN Invalid
                  ELSE IF t[1] = 0 THEN parseFraction(long)
                  ELSE IF t[1] = 1 /\ \A i \in 3..N : t[i] = 0 THEN Thousandths(1000)
                  ELSE Invalid
  BY <1>1, CutParse, ZenonT(60)
<1>5. ASSUME N >= 1
      PROVE  /\ short \in Texts /\ Size(short) = N - 1
             /\ long \in Texts /\ Size(long) = (IF N = 1 THEN 0 ELSE N - 2)
             /\ \A i \in 1..(N - 2) : long[i] = t[i + 2]
  <2>1. short \in Texts /\ long \in Texts
    BY <1>1, <1>5, CutTypes
  <2>2. Len(short) = N - 1
    BY <1>1, <1>5, CutTypes
  <2>3. Len(long) = (IF N = 1 THEN 0 ELSE N - 2)
    BY <1>1, <1>5, CutTypes
  <2>4. ASSUME NEW i \in 1..(N - 2) PROVE long[i] = t[i + 2]
    BY <1>1, <1>5, CutTypes
  <2> QED BY <2>1, <2>2, <2>3, <2>4
<1>6. \A f \in Decimals : Size(f) \in 0..3 /\ Digits(f)
  BY DecimalsChars
<1>7. ASSUME NEW f \in Texts, Size(f) \in 0..3,
             \A n \in {0, 1} : \A e \in Decimals : Spells(t, n, e) <=> n = 0 /\ e = f,
             parseQ(t) = parseFraction(f)
      PROVE  RightlyRead(t)
  <2>1. CASE Digits(f)
    <3>1. /\ f \in Decimals /\ parseFraction(f) = Thousandths(Value(0, f))
          /\ Value(0, f) \in 0..999
      BY <1>7, <2>1, Fraction
    <3>2. Value(0, f) \in 0..1000 /\ 0 \in {0, 1}
      BY <3>1
    <3> QED BY <1>7, <3>1, <3>2, RightlyTaken, Zenon
  <2>2. CASE ~Digits(f)
    <3>1. parseQ(t) = Invalid
      BY <1>7, <2>2, Fraction
    <3>2. f \notin Decimals
      BY <1>6, <2>2
    <3> QED BY <1>7, <3>1, <3>2, RightlyRefused
  <2> QED BY <2>1, <2>2
<1>14. \A f \in Texts : Size(f) \in 0..3 /\ Digits(f) => f \in Decimals
  BY Fraction
<1>15. ASSUME NEW f \in Decimals
       PROVE  /\ Value(0, f) \in 0..999 /\ Value(1, f) = 1000 + Value(0, f)
              /\ Value(0, f) = 0 <=> \A i \in 1..Size(f) : f[i] = 0
  BY Values
<1> HIDE DEF Sp, Size, Digits
<1>8. ASSUME parseQ(t) = Invalid, \A n \in {0, 1} : \A f \in Decimals : ~Sp(n, f)
      PROVE  RightlyRead(t)
  BY <1>3, <1>8, RightlyRefused
<1>9. Dot \notin {0, 1}
  BY DEF Dot
<1>10. CASE N = 0 \/ N > 5
  <2>1. parseQ(t) = Invalid
    BY <1>4, <1>10
  <2>2. ASSUME NEW n \in {0, 1}, NEW f \in Decimals PROVE ~Sp(n, f)
    BY <1>2, <1>5, <1>6, <1>10 DEF Sp, CutAs
  <2> QED BY <1>8, <2>1, <2>2
<1>11. CASE N \in 1..5 /\ t[1] = Dot
  <2>1. \A n \in {0, 1} : \A f \in Decimals : Sp(n, f) <=> N >= 2 /\ n = 0 /\ f = short
    BY <1>9, <1>11 DEF Sp, CutAs
  <2>2. CASE N = 1 \/ N = 5
    <3>1. parseQ(t) = Invalid
      BY <1>4, <1>11, <2>2
    <3>2. ASSUME NEW n \in {0, 1}, NEW f \in Decimals PROVE ~Sp(n, f)
      BY <1>2, <1>5, <1>6, <2>1, <2>2
    <3> QED BY <1>8, <3>1, <3>2
  <2>3. CASE N \in 2..4
    <3>1. parseQ(t) = parseFraction(short)
      BY <1>4, <1>11, <2>3
    <3>2. short \in Texts /\ Size(short) \in 0..3
      BY <1>5, <2>3
    <3>3. \A n \in {0, 1} : \A e \in Decimals : Spells(t, n, e) <=> n = 0 /\ e = short
      BY <1>3, <2>1, <2>3
    <3> QED BY <1>7, <3>1, <3>2, <3>3
  <2> QED BY <1>11, <2>2, <2>3
<1>12. CASE N \in 1..5 /\ t[1] # Dot /\ N > 1 /\ t[2] # Dot
  <2>1. parseQ(t) = Invalid
    BY <1>4, <1>12
  <2>2. ASSUME NEW n \in {0, 1}, NEW f \in Decimals PROVE ~Sp(n, f)
    BY <1>12 DEF Sp, CutAs
  <2> QED BY <1>8, <2>1, <2>2
<1>13. CASE N \in 1..5 /\ t[1] # Dot /\ (N = 1 \/ t[2] = Dot)
  <2>1. \A n \in {0, 1} : \A f \in Decimals : Sp(n, f) <=> t[1] = n /\ f = long
    BY <1>13 DEF Sp, CutAs
  <2>2. long \in Texts /\ Size(long) \in 0..3
    BY <1>5, <1>13
  <2>3. CASE t[1] = 0
    <3>1. parseQ(t) = parseFraction(long)
      BY <1>4, <1>13, <2>3
    <3>2. \A n \in {0, 1} : \A e \in Decimals : Spells(t, n, e) <=> n = 0 /\ e = long
      BY <1>3, <2>1, <2>3
    <3> QED BY <1>7, <2>2, <3>1, <3>2
  <2>4. CASE t[1] = 1 /\ \A i \in 3..N : t[i] = 0
    <3>1. parseQ(t) = Thousandths(1000)
      BY <1>4, <1>9, <1>13, <2>4
    <3>2. \A i \in 1..Size(long) : long[i] = 0
      BY <1>2, <1>5, <1>13, <2>4
    <3>3. long \in Decimals
      BY <1>14, <2>2, <3>2 DEF Digits
    <3>4. Value(1, long) = 1000
      BY <1>15, <3>2, <3>3
    <3>5. \A n \in {0, 1} : \A e \in Decimals : Spells(t, n, e) <=> n = 1 /\ e = long
      BY <1>3, <2>1, <2>4
    <3>6. Value(1, long) \in 0..1000 /\ parseQ(t) = Thousandths(Value(1, long)) /\ 1 \in {0, 1}
      BY <3>1, <3>4
    <3> QED BY <3>3, <3>5, <3>6, RightlyTaken, Zenon
  <2>5. CASE t[1] = 1 /\ ~\A i \in 3..N : t[i] = 0
    <3>1. parseQ(t) = Invalid
      BY <1>4, <1>9, <1>13, <2>5
    <3>2. PICK j \in 3..N : t[j] # 0
      BY <2>5
    <3>3. j - 2 \in 1..Size(long) /\ long[j - 2] # 0
      <4>1. j - 2 \in 1..(N - 2) /\ (j - 2) + 2 = j /\ N # 1 /\ N >= 1
        BY <1>2, <3>2
      <4> QED BY <1>5, <3>2, <4>1
    <3>4. ASSUME NEW n \in {0, 1}, NEW f \in Decimals, Spells(t, n, f)
          PROVE  Value(n, f) \notin 0..1000
      <4>1. n = 1 /\ f = long
        BY <1>3, <2>1, <2>5, <3>4
      <4>2. Value(0, f) # 0 /\ Value(0, f) \in 0..999 /\ Value(1, f) = 1000 + Value(0, f)
        BY <1>15, <3>3, <4>1
      <4>3. ~(Value(1, f) \in 0..1000)
        BY <4>2, AboveOne
      <4> QED BY <4>1, <4>3, Zenon
    <3> QED BY <3>1, <3>4, RightlyRefused
  <2>6. CASE t[1] \notin {0, 1}
    <3>1. parseQ(t) = Invalid
      BY <1>4, <1>13, <2>6
    <3>2. ASSUME NEW n \in {0, 1}, NEW f \in Decimals PROVE ~Sp(n, f)
      BY <2>1, <2>6
    <3> QED BY <1>8, <3>1, <3>2
  <2> QED BY <2>3, <2>4, <2>5, <2>6
<1> QED BY <1>2, <1>10, <1>11, <1>12, <1>13
-----------------------------------------------------------------------------
\* The loop over the q parameters of an element.
Marks == [ok : BOOLEAN, q : 0..1000]
QualityLoop(h, qs, N) ==
  /\ h[0] = Thousandths(1000)
  /\ \A k \in 1..N : h[k] = IF h[k - 1].ok THEN parseQ(qs[k]) ELSE h[k - 1]

LEMMA QualityIsLoop ==
  ASSUME NEW qs \in Seq(Texts)
  PROVE  \E h : QualityLoop(h, qs, Len(qs)) /\ Quality(qs) = h[Len(qs)]
<1> DEFINE N == Len(qs)
           X == Marks
           Op(acc, t) == IF acc.ok THEN parseQ(t) ELSE acc
           b == Thousandths(1000)
           g == [i \in 1..N |-> [x \in X |-> Op(x, qs[i])]]
           Body(f) == [t \in SUBSET (1..N) |->
                         IF t = {} THEN b ELSE Op(f[t \ {Max(t)}], qs[Max(t)])]
           it == CHOOSE f : f = Body(f)
<1>1. N \in Nat /\ DOMAIN qs = 1..N /\ \A i \in 1..N : qs[i] \in Texts
  OBVIOUS
<1>2. Quality(qs) = it[1..N]
  BY <1>1 DEF Quality, FoldLeft, MapThenFoldSet
<1>3. b \in X /\ g \in [1..N -> [X -> X]]
  <2>1. \A i \in 1..N : \A x \in X : Op(x, qs[i]) \in X
    <3> SUFFICES ASSUME NEW i \in 1..N, NEW x \in X PROVE Op(x, qs[i]) \in X
      OBVIOUS
    <3>1. parseQ(qs[i]) \in X
      BY <1>1, ParseQ DEF RightlyRead, Marks
    <3> QED BY <3>1
  <2>2. b \in X
    BY DEF Thousandths, Marks
  <2> QED BY <2>1, <2>2
<1>4. PICK f : Folds(f, N, X, b, g, Greatest(N))
  <2> HIDE DEF N, X, b, g
  <2> QED BY <1>1, <1>3, LeftFoldExists, Zenon
<1>5. f = Body(f)
  <2> SUFFICES ASSUME NEW t \in SUBSET (1..N)
               PROVE  f[t] = IF t = {} THEN b ELSE Op(f[t \ {Max(t)}], qs[Max(t)])
    BY <1>4, ZenonT(60) DEF Folds
  <2> DEFINE u == t \ {Max(t)}
  <2>1. CASE t # {}
    <3>1. Max(t) \in 1..N /\ u \in SUBSET (1..N) /\ Greatest(N)[t] = Max(t)
      BY <1>1, <2>1, MaxMember DEF Greatest
    <3>2. f[u] \in X /\ f[t] = g[Max(t)][f[u]]
      <4> HIDE DEF X, g, b
      <4> QED BY <1>4, <2>1, <3>1 DEF Folds
    <3> HIDE DEF Op, X, u
    <3>3. f[t] = Op(f[u], qs[Max(t)])
      BY <3>1, <3>2
    <3> QED BY <2>1, <3>3 DEF u
  <2>2. CASE t = {}
    BY <1>4, <2>2 DEF Folds
  <2> QED BY <2>1, <2>2
<1>6. it = Body(it)
  <2> HIDE DEF Body
  <2> QED BY <1>5, Zenon
<1> HIDE DEF it
<1>7. it[1..0] = b
  BY <1>6
<1>8. ASSUME NEW k \in 1..N PROVE it[1..k] = Op(it[1..(k - 1)], qs[k])
  <2> HIDE DEF Op, b, N
  <2>1. /\ 1..k \in SUBSET (1..N) /\ 1..k # {} /\ Max(1..k) = k
        /\ (1..k) \ {k} = 1..(k - 1)
    BY <1>1, LeftSets
  <2>2. it[1..k] = IF 1..k = {} THEN b ELSE Op(it[(1..k) \ {Max(1..k)}], qs[Max(1..k)])
    BY <1>6, <2>1
  <2> QED BY <2>1, <2>2
<1> DEFINE h == [k \in 0..N |-> it[1..k]]
<1>9. /\ h[0] = b /\ \A k \in 1..N : h[k] = Op(h[k - 1], qs[k])
      /\ h[N] = it[1..N]
  <2> HIDE DEF Op, b
  <2>1. \A k \in 1..N : k \in 0..N /\ k - 1 \in 0..N
    BY <1>1
  <2>2. 0 \in 0..N /\ N \in 0..N
    BY <1>1
  <2> QED BY <1>7, <1>8, <2>1, <2>2
<1> HIDE DEF h
<1>10. QualityLoop(h, qs, N)
  BY <1>9 DEF QualityLoop
<1> QED BY <1>2, <1>9, <1>10

LEMMA OneMore == ASSUME NEW k \in Nat PROVE 1..(k + 1) = 1..k \cup {k + 1}
  OBVIOUS

\* An invalid q spoils the element, else its last one counts.
LEMMA QualityIs ==
  ASSUME NEW qs \in Seq(Texts)
  PROVE  /\ Quality(qs) \in Marks
         /\ Quality(qs).ok <=> \A j \in DOMAIN qs : RefQ(qs[j]) # {}
         /\ Quality(qs).ok => IF qs = <<>> THEN Quality(qs).q = 1000
                             ELSE RefQ(Last(qs)) = {Quality(qs).q}
<1> DEFINE N == Len(qs)
           Good(k) == \A j \in 1..k : RefQ(qs[j]) # {}
<1>1. N \in Nat /\ DOMAIN qs = 1..N /\ \A i \in 1..N : qs[i] \in Texts
  OBVIOUS
<1>2. PICK h : QualityLoop(h, qs, N) /\ Quality(qs) = h[N]
  BY QualityIsLoop
<1> HIDE DEF N
<1> DEFINE Right(k) == /\ h[k] \in Marks /\ (h[k].ok <=> Good(k))
                       /\ h[k].ok => IF k = 0 THEN h[k].q = 1000 ELSE RefQ(qs[k]) = {h[k].q}
           S == {k \in Nat : k <= N => Right(k)}
<1>3. Right(0)
  BY <1>2 DEF QualityLoop, Thousandths, Marks
<1>4. ASSUME NEW k \in Nat, k + 1 <= N, Right(k) PROVE Right(k + 1)
  <2>1. k + 1 \in 1..N /\ (k + 1) - 1 = k /\ k + 1 # 0
    BY <1>1, <1>4
  <2>2. h[k + 1] = IF h[k].ok THEN parseQ(qs[k + 1]) ELSE h[k]
    BY <1>2, <2>1 DEF QualityLoop
  <2>3. Good(k + 1) <=> Good(k) /\ RefQ(qs[k + 1]) # {}
    <3>1. 1..(k + 1) = 1..k \cup {k + 1}
      BY OneMore
    <3> QED BY <3>1, Zenon
  <2>4. RightlyRead(qs[k + 1])
    BY <1>1, <2>1, ParseQ
  <2> HIDE DEF Good
  <2>5. CASE h[k].ok
    <3>1. h[k + 1] = parseQ(qs[k + 1])
      BY <2>2, <2>5
    <3> QED BY <1>4, <2>1, <2>3, <2>4, <2>5, <3>1, ZenonT(60) DEF RightlyRead, Marks
  <2>6. CASE ~h[k].ok
    <3>1. h[k + 1] = h[k]
      BY <2>2, <2>6
    <3> QED BY <1>4, <2>3, <2>6, <3>1
  <2> QED BY <2>5, <2>6
<1> HIDE DEF Right
<1>5. N \in S
  <2>1. 0 \in S
    BY <1>3
  <2>2. ASSUME NEW k \in Nat, k \in S PROVE k + 1 \in S
    BY <1>1, <1>4, <2>2
  <2> HIDE DEF S
  <2> QED BY <1>1, <2>1, <2>2, SetInduction
<1>6. Right(N)
  BY <1>1, <1>5
<1>7. Last(qs) = qs[N] /\ (qs = <<>> <=> N = 0)
  BY DEF Last, N
<1> QED BY <1>1, <1>2, <1>6, <1>7 DEF Right
-----------------------------------------------------------------------------
\* What matchRange returns, and the loop that keeps the most specific of it.
Ranks == [spec : 0..3, q : 0..1000]
Unmatched == [spec |-> 0, q |-> 0]
RankLoop(h, M, N) ==
  /\ h[0] = Unmatched
  /\ \A k \in 1..N : h[k] = IF M[k].spec > h[k - 1].spec THEN M[k] ELSE h[k - 1]

\* Whether an element counts for an offer, and the quality it gives it.
Counts(e, o) == Specificity(e, o) > 0 /\ \A j \in DOMAIN e.qs : RefQ(e.qs[j]) # {}
Gives(e) == IF e.qs = <<>> THEN 1000 ELSE CHOOSE v \in RefQ(Last(e.qs)) : TRUE

LEMMA Specificities ==
  ASSUME NEW e, NEW o PROVE Specificity(e, o) \in 0..3
  BY DEF Specificity

LEMMA MatchRange ==
  ASSUME NEW e \in MediaRange, NEW o
  PROVE  /\ matchRange(e, o) \in Ranks
         /\ matchRange(e, o).spec > 0 <=> Counts(e, o)
         /\ Counts(e, o) => matchRange(e, o) = [spec |-> Specificity(e, o), q |-> Gives(e)]
<1> DEFINE q == Quality(e.qs)
           s == Specificity(e, o)
<1>1. e.qs \in Seq(Texts)
  BY DEF MediaRange
<1>2. /\ q \in Marks
      /\ q.ok <=> \A j \in DOMAIN e.qs : RefQ(e.qs[j]) # {}
      /\ q.ok => IF e.qs = <<>> THEN q.q = 1000 ELSE RefQ(Last(e.qs)) = {q.q}
  <2>1. q \in Marks
    BY <1>1, QualityIs
  <2>2. q.ok <=> \A j \in DOMAIN e.qs : RefQ(e.qs[j]) # {}
    BY <1>1, QualityIs
  <2>3. q.ok => IF e.qs = <<>> THEN q.q = 1000 ELSE RefQ(Last(e.qs)) = {q.q}
    BY <1>1, QualityIs
  <2> QED BY <2>1, <2>2, <2>3
<1>3. matchRange(e, o) = IF q.ok THEN [spec |-> s, q |-> q.q] ELSE [spec |-> 0, q |-> 0]
  BY DEF matchRange
<1>4. s \in 0..3
  BY Specificities
<1>5. Counts(e, o) <=> s > 0 /\ q.ok
  BY <1>2 DEF Counts
<1>6. q.ok => Gives(e) = q.q
  <2> HIDE DEF q
  <2> QED BY <1>2 DEF Gives
<1> HIDE DEF q, s
<1>7. CASE q.ok
  BY <1>2, <1>3, <1>4, <1>5, <1>6, <1>7 DEF Ranks, Marks, s
<1>8. CASE ~q.ok
  BY <1>3, <1>5, <1>8 DEF Ranks
<1> QED BY <1>2, <1>7, <1>8 DEF Marks

Rank(es, o) ==
  FoldLeft(LAMBDA acc, e : LET m == matchRange(e, o) IN IF m.spec > acc.spec THEN m ELSE acc,
           [spec |-> 0, q |-> 0], es)

LEMMA RankLoopIs ==
  ASSUME NEW es \in Seq(MediaRange), NEW o
  PROVE  \E h : /\ RankLoop(h, [i \in 1..Len(es) |-> matchRange(es[i], o)], Len(es))
                /\ Rank(es, o) = h[Len(es)]
<1> DEFINE N == Len(es)
           X == Ranks
           Op(acc, e) == LET m == matchRange(e, o) IN IF m.spec > acc.spec THEN m ELSE acc
           b == [spec |-> 0, q |-> 0]
           g == [i \in 1..N |-> [x \in X |-> Op(x, es[i])]]
           Body(f) == [t \in SUBSET (1..N) |->
                         IF t = {} THEN b ELSE Op(f[t \ {Max(t)}], es[Max(t)])]
           it == CHOOSE f : f = Body(f)
           M == [i \in 1..N |-> matchRange(es[i], o)]
<1>1. N \in Nat /\ DOMAIN es = 1..N /\ \A i \in 1..N : es[i] \in MediaRange
  OBVIOUS
<1>2. Rank(es, o) = it[1..N]
  BY <1>1 DEF Rank, FoldLeft, MapThenFoldSet
<1>3. b \in X /\ g \in [1..N -> [X -> X]]
  <2>1. \A i \in 1..N : \A x \in X : Op(x, es[i]) \in X
    <3> SUFFICES ASSUME NEW i \in 1..N, NEW x \in X PROVE Op(x, es[i]) \in X
      OBVIOUS
    <3>1. matchRange(es[i], o) \in X
      BY <1>1, MatchRange
    <3> QED BY <3>1
  <2>2. b \in X
    BY DEF Ranks
  <2> QED BY <2>1, <2>2
<1>4. PICK f : Folds(f, N, X, b, g, Greatest(N))
  <2> HIDE DEF N, X, b, g
  <2> QED BY <1>1, <1>3, LeftFoldExists, Zenon
<1>5. f = Body(f)
  <2> SUFFICES ASSUME NEW t \in SUBSET (1..N)
               PROVE  f[t] = IF t = {} THEN b ELSE Op(f[t \ {Max(t)}], es[Max(t)])
    BY <1>4 DEF Folds
  <2> DEFINE u == t \ {Max(t)}
  <2>1. CASE t # {}
    <3>1. Max(t) \in 1..N /\ u \in SUBSET (1..N) /\ Greatest(N)[t] = Max(t)
      BY <1>1, <2>1, MaxMember DEF Greatest
    <3>2. f[u] \in X /\ f[t] = g[Max(t)][f[u]]
      <4> HIDE DEF X, g, b
      <4> QED BY <1>4, <2>1, <3>1 DEF Folds
    <3> HIDE DEF Op, X, u
    <3>3. f[t] = Op(f[u], es[Max(t)])
      BY <3>1, <3>2
    <3> QED BY <2>1, <3>3 DEF u
  <2>2. CASE t = {}
    BY <1>4, <2>2 DEF Folds
  <2> QED BY <2>1, <2>2
<1>6. it = Body(it)
  <2> HIDE DEF Body
  <2> QED BY <1>5, Zenon
<1> HIDE DEF it
<1>7. it[1..0] = b
  BY <1>6
<1>8. ASSUME NEW k \in 1..N PROVE it[1..k] = Op(it[1..(k - 1)], es[k])
  <2> HIDE DEF Op, b, N
  <2>1. /\ 1..k \in SUBSET (1..N) /\ 1..k # {} /\ Max(1..k) = k
        /\ (1..k) \ {k} = 1..(k - 1)
    BY <1>1, LeftSets
  <2>2. it[1..k] = IF 1..k = {} THEN b ELSE Op(it[(1..k) \ {Max(1..k)}], es[Max(1..k)])
    BY <1>6, <2>1
  <2> QED BY <2>1, <2>2
<1> DEFINE h == [k \in 0..N |-> it[1..k]]
<1>9. /\ h[0] = b /\ \A k \in 1..N : h[k] = Op(h[k - 1], es[k])
      /\ h[N] = it[1..N]
  <2> HIDE DEF Op, b
  <2>1. \A k \in 1..N : k \in 0..N /\ k - 1 \in 0..N
    BY <1>1
  <2>2. 0 \in 0..N /\ N \in 0..N
    BY <1>1
  <2> QED BY <1>7, <1>8, <2>1, <2>2
<1> HIDE DEF h
<1>10. RankLoop(h, M, N)
  BY <1>9 DEF RankLoop, Unmatched
<1> QED BY <1>2, <1>9, <1>10

Settled(r, M, N) ==
  \/ r = Unmatched /\ \A i \in 1..N : M[i].spec = 0
  \/ \E i \in 1..N : /\ r = M[i] /\ M[i].spec > 0
                     /\ \A j \in 1..N : \/ M[i].spec > M[j].spec
                                        \/ M[i].spec = M[j].spec /\ i <= j

\* The loop ends with the first of the greatest, if any is above 0.
LEMMA FirstGreatest ==
  ASSUME NEW N \in Nat, NEW M \in [1..N -> Ranks], NEW h, RankLoop(h, M, N)
  PROVE  Settled(h[N], M, N)
<1> DEFINE s == [i \in 1..N |-> M[i].spec]
           Best(i, k) == /\ h[k] = M[i] /\ s[i] > 0
                         /\ \A j \in 1..k : s[i] > s[j] \/ (s[i] = s[j] /\ i <= j)
           Right(k) == \/ h[k] = Unmatched /\ \A i \in 1..k : s[i] = 0
                       \/ \E i \in 1..k : Best(i, k)
           S == {k \in Nat : k <= N => Right(k)}
<1>1. ASSUME NEW i \in 1..N PROVE s[i] \in 0..3 /\ s[i] = M[i].spec /\ M[i] \in Ranks
  <2>1. M[i] \in Ranks /\ s[i] = M[i].spec
    OBVIOUS
  <2>2. M[i].spec \in 0..3
    BY <2>1 DEF Ranks
  <2> QED BY <2>1, <2>2
<1> HIDE DEF s
<1>2. Right(0)
  <2>1. h[0] = Unmatched
    BY DEF RankLoop
  <2>2. \A i \in 1..0 : s[i] = 0
    OBVIOUS
  <2> QED BY <2>1, <2>2, Zenon
<1>3. ASSUME NEW k \in Nat, k + 1 <= N, Right(k) PROVE Right(k + 1)
  <2>1. k + 1 \in 1..N /\ (k + 1) - 1 = k
    BY <1>3
  <2>2. h[k + 1] = IF s[k + 1] > h[k].spec THEN M[k + 1] ELSE h[k]
    BY <1>1, <2>1 DEF RankLoop
  <2>3. /\ 1..(k + 1) = 1..k \cup {k + 1} /\ \A i \in 1..k : i \in 1..N /\ i <= k + 1
        /\ k + 1 \in 1..(k + 1) /\ s[k + 1] \in 0..3
    BY <1>1, <1>3, <2>1, OneMore
  <2>4. CASE h[k] = Unmatched /\ \A i \in 1..k : s[i] = 0
    <3>1. h[k].spec = 0
      BY <2>4 DEF Unmatched
    <3>2. CASE s[k + 1] > 0
      <4>1. h[k + 1] = M[k + 1]
        BY <2>2, <3>1, <3>2
      <4>2. Best(k + 1, k + 1)
        BY <2>3, <2>4, <3>2, <4>1
      <4> QED BY <2>3, <4>2
    <3>3. CASE s[k + 1] = 0
      <4>1. h[k + 1] = h[k]
        BY <2>2, <3>1, <3>3
      <4> QED BY <2>3, <2>4, <3>3, <4>1
    <3> QED BY <2>3, <3>2, <3>3
  <2>5. CASE \E i \in 1..k : Best(i, k)
    <3>1. PICK i \in 1..k : Best(i, k)
      BY <2>5
    <3>2. h[k].spec = s[i] /\ s[i] \in 0..3 /\ i \in 1..N
      BY <1>1, <2>3, <3>1
    <3>3. CASE s[k + 1] > s[i]
      <4>1. h[k + 1] = M[k + 1]
        BY <2>2, <3>2, <3>3
      <4>2. ASSUME NEW j \in 1..k PROVE s[k + 1] > s[j]
        <5>1. s[j] \in 0..3 /\ s[i] >= s[j]
          BY <1>1, <2>3, <3>1, <3>2
        <5> QED BY <2>3, <3>2, <3>3, <5>1
      <4>3. Best(k + 1, k + 1)
        BY <2>3, <3>2, <3>3, <4>1, <4>2
      <4> QED BY <2>3, <4>3
    <3>4. CASE ~(s[k + 1] > s[i])
      <4>1. h[k + 1] = h[k]
        BY <2>2, <3>2, <3>4
      <4>2. s[i] > s[k + 1] \/ (s[i] = s[k + 1] /\ i <= k + 1)
        BY <2>3, <3>2, <3>4
      <4>3. Best(i, k + 1)
        BY <2>3, <3>1, <4>1, <4>2
      <4> QED BY <2>3, <4>3
    <3> QED BY <3>3, <3>4
  <2> QED BY <1>3, <2>4, <2>5
<1>4. Right(N)
  <2> HIDE DEF Right
  <2>1. 0 \in S
    BY <1>2
  <2>2. ASSUME NEW k \in Nat, k \in S PROVE k + 1 \in S
    BY <1>3, <2>2
  <2>3. N \in S
    <3> HIDE DEF S
    <3> QED BY <2>1, <2>2, SetInduction
  <2> QED BY <2>3
<1> QED BY <1>1, <1>4 DEF Settled

\* Nothing is left of the lines when each is blank.
LEMMA BlankLines ==
  ASSUME NEW E, NEW ls \in Seq(Seq(E))
  PROVE  /\ FlattenSeq(ls) \in Seq(E)
         /\ FlattenSeq(ls) = <<>> <=> \A i \in DOMAIN ls : ls[i] = <<>>
<1> DEFINE N == Len(ls)
<1>1. N \in Nat /\ DOMAIN ls = 1..N /\ \A i \in 1..N : ls[i] \in Seq(E)
  OBVIOUS
<1>2. PICK f \in [0..N -> Seq(E)] :
        /\ f[0] = <<>> /\ \A i \in 1..N : f[i] = f[i - 1] \o ls[i]
        /\ FlattenSeq(ls) = f[N]
  BY Flattening
<1> HIDE DEF N
<1> DEFINE Right(k) == f[k] = <<>> <=> \A i \in 1..k : ls[i] = <<>>
           S == {k \in Nat : k <= N => Right(k)}
<1>3. Right(0)
  <2>1. \A i \in 1..0 : ls[i] = <<>>
    OBVIOUS
  <2> QED BY <1>2, <2>1
<1>4. ASSUME NEW k \in Nat, k + 1 <= N, Right(k) PROVE Right(k + 1)
  <2>1. k + 1 \in 1..N /\ (k + 1) - 1 = k /\ k \in 0..N
    BY <1>1, <1>4
  <2>2. f[k + 1] = f[k] \o ls[k + 1] /\ f[k] \in Seq(E) /\ ls[k + 1] \in Seq(E)
    BY <1>1, <1>2, <2>1
  <2>3. f[k + 1] = <<>> <=> f[k] = <<>> /\ ls[k + 1] = <<>>
    BY <2>2
  <2>4. 1..(k + 1) = 1..k \cup {k + 1}
    BY OneMore
  <2> QED BY <1>4, <2>3, <2>4, Zenon
<1>5. Right(N)
  <2> HIDE DEF Right
  <2>1. 0 \in S
    BY <1>3
  <2>2. ASSUME NEW k \in Nat, k \in S PROVE k + 1 \in S
    BY <1>1, <1>4, <2>2
  <2>3. N \in S
    <3> HIDE DEF S
    <3> QED BY <1>1, <2>1, <2>2, SetInduction
  <2> QED BY <1>1, <2>3
<1>6. f[N] \in Seq(E)
  BY <1>1, <1>2
<1> QED BY <1>1, <1>2, <1>5, <1>6

LEMMA OfferQuality ==
  ASSUME accepts \in Seq(Seq(MediaRange)), NEW o
  PROVE  offerQuality(accepts, o) = Weight(o) /\ Weight(o) \in 0..1000
<1> DEFINE es == Elements
           N == Len(es)
           M == [i \in 1..N |-> matchRange(es[i], o)]
           s == [i \in 1..N |-> Specificity(es[i], o)]
<1>1. es \in Seq(MediaRange)
  BY BlankLines DEF Elements
<1>2. PICK h : RankLoop(h, M, N) /\ offerQuality(accepts, o) = h[N].q
  <2> HIDE DEF es
  <2>1. PICK h : /\ RankLoop(h, [i \in 1..Len(es) |-> matchRange(es[i], o)], Len(es))
                 /\ Rank(es, o) = h[Len(es)]
    BY <1>1, RankLoopIs
  <2>2. offerQuality(accepts, o) = h[N].q
    BY <2>1 DEF offerQuality, Rank, es, Elements
  <2> QED BY <2>1, <2>2
<1>3. N \in Nat /\ DOMAIN es = 1..N /\ \A i \in 1..N : es[i] \in MediaRange
  BY <1>1
<1>4. Counting(o) = {i \in 1..N : Counts(es[i], o)}
  BY <1>3 DEF Counting, Counts
<1>5. Weight(o) = IF Counting(o) = {} THEN 0
                  ELSE Gives(es[CHOOSE i \in Counting(o) : Governs(o, i)])
  BY DEF Weight, Gives
<1>6. ASSUME NEW i
      PROVE  Governs(o, i) <=> /\ i \in Counting(o)
                               /\ \A j \in Counting(o) :
                                    s[i] > s[j] \/ (s[i] = s[j] /\ i <= j)
  BY <1>4 DEF Governs
<1> HIDE DEF es, N
<1>7. ASSUME NEW i \in 1..N
      PROVE  /\ M[i] \in Ranks /\ s[i] \in 0..3
             /\ M[i].spec > 0 <=> i \in Counting(o)
             /\ i \in Counting(o) => M[i].spec = s[i] /\ M[i].q = Gives(es[i])
  <2>1. M[i] \in Ranks
    BY <1>3, MatchRange
  <2>2. M[i].spec > 0 <=> Counts(es[i], o)
    BY <1>3, MatchRange
  <2>3. Counts(es[i], o) => M[i] = [spec |-> Specificity(es[i], o), q |-> Gives(es[i])]
    BY <1>3, MatchRange
  <2>4. s[i] \in 0..3
    BY Specificities
  <2> QED BY <1>4, <2>1, <2>2, <2>3, <2>4
<1>8. M \in [1..N -> Ranks] /\ Counting(o) \subseteq 1..N
  BY <1>4, <1>7
<1> HIDE DEF M, s
<1>9. CASE h[N] = Unmatched /\ \A i \in 1..N : M[i].spec = 0
  <2>1. Counting(o) = {}
    <3> SUFFICES ASSUME NEW i \in Counting(o) PROVE FALSE
      OBVIOUS
    <3> QED BY <1>7, <1>8, <1>9
  <2> QED BY <1>2, <1>5, <1>9, <2>1 DEF Unmatched
<1>10. CASE \E i \in 1..N : /\ h[N] = M[i] /\ M[i].spec > 0
                            /\ \A j \in 1..N : \/ M[i].spec > M[j].spec
                                               \/ M[i].spec = M[j].spec /\ i <= j
  <2>1. PICK i \in 1..N : /\ h[N] = M[i] /\ M[i].spec > 0
                          /\ \A j \in 1..N : \/ M[i].spec > M[j].spec
                                             \/ M[i].spec = M[j].spec /\ i <= j
    BY <1>10
  <2>2. /\ i \in Counting(o) /\ M[i].spec = s[i] /\ M[i].q = Gives(es[i])
        /\ M[i].q \in 0..1000
    <3>1. i \in Counting(o) /\ M[i].spec = s[i] /\ M[i].q = Gives(es[i])
      BY <1>7, <2>1
    <3>2. M[i].q \in 0..1000
      <4>1. M[i] \in Ranks
        BY <1>7
      <4> QED BY <4>1 DEF Ranks
    <3> QED BY <3>1, <3>2
  <2>3. Governs(o, i)
    <3>1. ASSUME NEW j \in Counting(o) PROVE s[i] > s[j] \/ (s[i] = s[j] /\ i <= j)
      <4>1. j \in 1..N /\ M[j].spec = s[j]
        BY <1>7, <1>8
      <4>2. M[i].spec > M[j].spec \/ (M[i].spec = M[j].spec /\ i <= j)
        BY <2>1, <4>1
      <4> QED BY <2>2, <4>1, <4>2
    <3> QED BY <1>6, <2>2, <3>1
  <2>4. ASSUME NEW j \in Counting(o), Governs(o, j) PROVE j = i
    <3>1. s[i] > s[j] \/ (s[i] = s[j] /\ i <= j)
      BY <1>6, <2>3
    <3>2. s[j] > s[i] \/ (s[j] = s[i] /\ j <= i)
      BY <1>6, <2>2, <2>4
    <3>3. s[i] \in Nat /\ s[j] \in Nat /\ i \in Nat /\ j \in Nat
      BY <1>7, <1>8
    <3> QED BY <3>1, <3>2, <3>3
  <2>5. (CHOOSE j \in Counting(o) : Governs(o, j)) = i
    BY <2>2, <2>3, <2>4
  <2>6. Weight(o) = Gives(es[i])
    BY <1>5, <2>2, <2>5
  <2> QED BY <1>2, <2>1, <2>2, <2>6
<1>11. Settled(h[N], M, N)
  BY <1>2, <1>3, <1>8, FirstGreatest
<1> QED BY <1>9, <1>10, <1>11 DEF Settled
-----------------------------------------------------------------------------
\* negotiate's loop over the offers.
Present(lines) == \E i \in DOMAIN lines : lines[i] # <<>>
Considered(lines, acc, o) ==
  IF acc.best = Panic THEN acc
  ELSE IF ~splitOffer(o) THEN [acc EXCEPT !.best = Panic]
  ELSE IF ~Present(lines)
    THEN IF acc.best = None THEN [acc EXCEPT !.best = Chose(o)] ELSE acc
  ELSE IF acc.q = 1000 THEN acc
  ELSE IF offerQuality(lines, o) > acc.q
    THEN [best |-> Chose(o), q |-> offerQuality(lines, o)] ELSE acc
OfferLoop(h, lines, offers, N) ==
  /\ h[0] = [best |-> None, q |-> 0]
  /\ \A k \in 1..N : h[k] = Considered(lines, h[k - 1], offers[k])
Bests == {None, Panic} \cup {Chose(o) : o \in MediaType}
Found == [best : Bests, q : 0..1000]

LEMMA OfferLoopIs ==
  ASSUME accepts \in Seq(Seq(MediaRange)), NEW offers \in Seq(MediaType)
  PROVE  \E h : /\ OfferLoop(h, accepts, offers, Len(offers))
                /\ negotiate(accepts, offers) = h[Len(offers)].best
<1> DEFINE N == Len(offers)
           X == Found
           Op(acc, o) == Considered(accepts, acc, o)
           b == [best |-> None, q |-> 0]
           g == [i \in 1..N |-> [x \in X |-> Op(x, offers[i])]]
           Body(f) == [t \in SUBSET (1..N) |->
                         IF t = {} THEN b ELSE Op(f[t \ {Max(t)}], offers[Max(t)])]
           it == CHOOSE f : f = Body(f)
<1>1. N \in Nat /\ DOMAIN offers = 1..N /\ \A i \in 1..N : offers[i] \in MediaType
  OBVIOUS
<1>2. negotiate(accepts, offers) = it[1..N].best
  BY <1>1 DEF negotiate, FoldLeft, MapThenFoldSet, Considered, Present
<1>3. b \in X /\ g \in [1..N -> [X -> X]]
  <2>1. \A i \in 1..N : \A x \in X : Op(x, offers[i]) \in X
    <3> SUFFICES ASSUME NEW i \in 1..N, NEW x \in X PROVE Op(x, offers[i]) \in X
      OBVIOUS
    <3>1. PICK o \in MediaType : o = offers[i]
      BY <1>1
    <3>2. PICK q \in 0..1000 : q = offerQuality(accepts, o)
      BY OfferQuality, ZenonT(60)
    <3>3. Panic \in Bests /\ Chose(o) \in Bests
      BY DEF Bests
    <3>4. x.best \in Bests /\ x.q \in 0..1000 /\ x \in [best : Bests, q : 0..1000]
      BY DEF Found
    <3>5. /\ [x EXCEPT !.best = Panic] \in Found /\ [x EXCEPT !.best = Chose(o)] \in Found
          /\ [best |-> Chose(o), q |-> q] \in Found /\ x \in Found
      BY <3>3, <3>4, ZenonT(60) DEF Found
    <3> QED BY <3>1, <3>2, <3>5 DEF Considered
  <2>2. b \in X
    BY DEF Found, Bests
  <2> HIDE DEF Op, X, b
  <2> QED BY <2>1, <2>2
<1>4. PICK f : Folds(f, N, X, b, g, Greatest(N))
  <2> HIDE DEF N, X, b, g
  <2> QED BY <1>1, <1>3, LeftFoldExists, Zenon
<1>5. f = Body(f)
  <2> SUFFICES ASSUME NEW t \in SUBSET (1..N)
               PROVE  f[t] = IF t = {} THEN b ELSE Op(f[t \ {Max(t)}], offers[Max(t)])
    BY <1>4 DEF Folds
  <2> DEFINE u == t \ {Max(t)}
  <2>1. CASE t # {}
    <3>1. Max(t) \in 1..N /\ u \in SUBSET (1..N) /\ Greatest(N)[t] = Max(t)
      BY <1>1, <2>1, MaxMember DEF Greatest
    <3>2. f[u] \in X /\ f[t] = g[Max(t)][f[u]]
      <4> HIDE DEF X, g, b
      <4> QED BY <1>4, <2>1, <3>1 DEF Folds
    <3> HIDE DEF Op, X, u
    <3>3. f[t] = Op(f[u], offers[Max(t)])
      BY <3>1, <3>2
    <3> QED BY <2>1, <3>3 DEF u
  <2>2. CASE t = {}
    BY <1>4, <2>2 DEF Folds
  <2> QED BY <2>1, <2>2
<1>6. it = Body(it)
  <2> HIDE DEF Body
  <2> QED BY <1>5, Zenon
<1> HIDE DEF it
<1>7. it[1..0] = b
  BY <1>6
<1>8. ASSUME NEW k \in 1..N PROVE it[1..k] = Op(it[1..(k - 1)], offers[k])
  <2> HIDE DEF Op, b, N
  <2>1. /\ 1..k \in SUBSET (1..N) /\ 1..k # {} /\ Max(1..k) = k
        /\ (1..k) \ {k} = 1..(k - 1)
    BY <1>1, LeftSets
  <2>2. it[1..k] = IF 1..k = {} THEN b ELSE Op(it[(1..k) \ {Max(1..k)}], offers[Max(1..k)])
    BY <1>6, <2>1
  <2> QED BY <2>1, <2>2
<1> DEFINE h == [k \in 0..N |-> it[1..k]]
<1>9. /\ h[0] = b /\ \A k \in 1..N : h[k] = Op(h[k - 1], offers[k])
      /\ h[N] = it[1..N]
  <2> HIDE DEF Op, b
  <2>1. \A k \in 1..N : k \in 0..N /\ k - 1 \in 0..N
    BY <1>1
  <2>2. 0 \in 0..N /\ N \in 0..N
    BY <1>1
  <2> QED BY <1>7, <1>8, <2>1, <2>2
<1> HIDE DEF h
<1>10. OfferLoop(h, accepts, offers, N)
  BY <1>9 DEF OfferLoop
<1> QED BY <1>2, <1>9, <1>10

\* What the loop has found after k offers, of the weights w.
Preferred(r, offers, w, k) ==
  \/ r = [best |-> None, q |-> 0] /\ \A i \in 1..k : w[i] = 0
  \/ \E i \in 1..k : /\ r = [best |-> Chose(offers[i]), q |-> w[i]] /\ w[i] > 0
                     /\ \A j \in 1..k : w[j] < w[i] \/ (j >= i /\ w[j] = w[i])

Weighed(w, N) == \A i \in 1..N : w[i] \in Nat /\ w[i] <= 1000

LEMMA Thousand == \A x \in 0..1000 : x \in Nat /\ x <= 1000
  OBVIOUS

LEMMA PreferredStep ==
  ASSUME NEW N \in Nat, NEW w, Weighed(w, N), NEW k \in Nat, k + 1 <= N,
         NEW offers, NEW r, NEW rr, Preferred(r, offers, w, k),
         rr = IF r.q = 1000 THEN r
              ELSE IF w[k + 1] > r.q THEN [best |-> Chose(offers[k + 1]), q |-> w[k + 1]] ELSE r
  PROVE  Preferred(rr, offers, w, k + 1)
<1>0. 1..(k + 1) = 1..k \cup {k + 1}
  BY OneMore
<1>1. /\ \A i \in 1..k : i \in 1..N /\ w[i] \in Nat /\ w[i] <= 1000 /\ i <= k + 1
      /\ k + 1 \in 1..N /\ w[k + 1] \in Nat /\ w[k + 1] <= 1000
  <2>1. k + 1 \in 1..N /\ \A i \in 1..k : i \in 1..N /\ i <= k + 1
    OBVIOUS
  <2> QED BY <2>1 DEF Weighed
<1>2. CASE r = [best |-> None, q |-> 0] /\ \A i \in 1..k : w[i] = 0
  <2>1. r.q = 0
    BY <1>2
  <2>2. CASE w[k + 1] = 0
    <3>1. rr = r
      BY <2>1, <2>2
    <3> QED BY <1>0, <1>2, <2>2, <3>1 DEF Preferred
  <2>3. CASE w[k + 1] > 0
    <3>1. rr = [best |-> Chose(offers[k + 1]), q |-> w[k + 1]]
      BY <2>1, <2>3
    <3>2. \A j \in 1..(k + 1) :
            w[j] < w[k + 1] \/ (j >= k + 1 /\ w[j] = w[k + 1])
      BY <1>0, <1>1, <1>2, <2>3
    <3>3. k + 1 \in 1..(k + 1)
      OBVIOUS
    <3> QED BY <2>3, <3>1, <3>2, <3>3 DEF Preferred
  <2> QED BY <1>1, <2>2, <2>3
<1>3. CASE \E i \in 1..k : /\ r = [best |-> Chose(offers[i]), q |-> w[i]] /\ w[i] > 0
                           /\ \A j \in 1..k : w[j] < w[i] \/ (j >= i /\ w[j] = w[i])
  <2>1. PICK i \in 1..k : /\ r = [best |-> Chose(offers[i]), q |-> w[i]] /\ w[i] > 0
                          /\ \A j \in 1..k : w[j] < w[i] \/ (j >= i /\ w[j] = w[i])
    BY <1>3
  <2>2. r.q = w[i] /\ w[i] \in Nat
    BY <1>1, <2>1
  <2>3. CASE w[k + 1] <= w[i]
    <3>1. rr = r
      BY <1>1, <2>2, <2>3
    <3>2. w[k + 1] < w[i] \/ (k + 1 >= i /\ w[k + 1] = w[i])
      BY <1>1, <2>2, <2>3
    <3>3. \A j \in 1..(k + 1) : w[j] < w[i] \/ (j >= i /\ w[j] = w[i])
      BY <1>0, <2>1, <3>2
    <3>4. i \in 1..(k + 1)
      BY <1>0
    <3> QED BY <2>1, <3>1, <3>3, <3>4 DEF Preferred
  <2>4. CASE w[k + 1] > w[i]
    <3>1. rr = [best |-> Chose(offers[k + 1]), q |-> w[k + 1]] /\ w[k + 1] > 0
      BY <1>1, <2>2, <2>4
    <3>2. ASSUME NEW j \in 1..k PROVE w[j] < w[k + 1]
      <4>1. w[j] <= w[i] /\ w[j] \in Nat
        BY <1>1, <2>1
      <4> QED BY <1>1, <2>2, <2>4, <4>1
    <3>3. \A j \in 1..(k + 1) :
            w[j] < w[k + 1] \/ (j >= k + 1 /\ w[j] = w[k + 1])
      BY <1>0, <1>1, <3>2
    <3>4. k + 1 \in 1..(k + 1)
      OBVIOUS
    <3> QED BY <3>1, <3>3, <3>4 DEF Preferred
  <2> QED BY <1>1, <2>2, <2>3, <2>4
<1> QED BY <1>2, <1>3 DEF Preferred

\* What negotiate answers, panics first.
LEMMA Negotiated ==
  ASSUME accepts \in Seq(Seq(MediaRange)), NEW offers \in Seq(MediaType)
  PROVE  LET a == negotiate(accepts, offers)
             N == Len(offers)
         IN /\ a = Panic <=> \E i \in 1..N : ~splitOffer(offers[i])
            /\ a # Panic =>
                 IF Elements = <<>>
                   THEN a = IF N = 0 THEN None ELSE Chose(offers[1])
                   ELSE \E r : /\ a = r.best
                               /\ Preferred(r, offers, [i \in 1..N |-> Weight(offers[i])], N)
<1> DEFINE a == negotiate(accepts, offers)
           N == Len(offers)
           w == [i \in 1..N |-> Weight(offers[i])]
           Good(k) == \A i \in 1..k : splitOffer(offers[i])
<1>1. N \in Nat /\ DOMAIN offers = 1..N /\ \A i \in 1..N : offers[i] \in MediaType
  OBVIOUS
<1>2. PICK h : OfferLoop(h, accepts, offers, N) /\ a = h[N].best
  BY OfferLoopIs
<1>3. Present(accepts) <=> Elements # <<>>
  BY BlankLines DEF Present, Elements
<1>4. ASSUME NEW i \in 1..N
      PROVE  w[i] = offerQuality(accepts, offers[i]) /\ w[i] \in 0..1000
  BY OfferQuality, ZenonT(60)
<1> HIDE DEF N, w, a
<1>5. Weighed(w, N)
  <2> SUFFICES ASSUME NEW i \in 1..N PROVE w[i] \in Nat /\ w[i] <= 1000
    BY DEF Weighed
  <2>1. w[i] \in 0..1000
    BY <1>4
  <2> QED BY <2>1, Thousand, ZenonT(60)
<1>6. None # Panic /\ \A o : Chose(o) # Panic /\ Chose(o) # None
  BY DEF None, Panic, Chose
<1> DEFINE Right(k) ==
             IF ~Good(k) THEN h[k].best = Panic
             ELSE /\ h[k].best # Panic /\ h[k] = [best |-> h[k].best, q |-> h[k].q]
                  /\ IF Present(accepts) THEN Preferred(h[k], offers, w, k)
                     ELSE h[k].best = IF k = 0 THEN None ELSE Chose(offers[1])
           S == {k \in Nat : k <= N => Right(k)}
<1>7. Right(0)
  <2>1. h[0] = [best |-> None, q |-> 0]
    BY <1>2 DEF OfferLoop
  <2>2. Good(0)
    OBVIOUS
  <2>3. Preferred(h[0], offers, w, 0)
    BY <2>1 DEF Preferred
  <2> HIDE DEF Good
  <2> QED BY <1>6, <2>1, <2>2, <2>3
<1>8. ASSUME NEW k \in Nat, k + 1 <= N, Right(k) PROVE Right(k + 1)
  <2>1. k + 1 \in 1..N /\ (k + 1) - 1 = k /\ k + 1 # 0
    BY <1>1, <1>8
  <2>2. h[k + 1] = Considered(accepts, h[k], offers[k + 1])
    BY <1>2, <2>1 DEF OfferLoop
  <2>3. Good(k + 1) <=> Good(k) /\ splitOffer(offers[k + 1])
    <3>1. 1..(k + 1) = 1..k \cup {k + 1}
      BY OneMore
    <3> QED BY <3>1, Zenon
  <2> HIDE DEF Good
  <2>4. CASE ~Good(k)
    BY <1>8, <2>2, <2>3, <2>4 DEF Considered
  <2>5. CASE Good(k) /\ ~splitOffer(offers[k + 1])
    <3>1. h[k + 1] = [h[k] EXCEPT !.best = Panic]
      BY <1>8, <2>2, <2>5 DEF Considered
    <3>2. h[k] = [best |-> h[k].best, q |-> h[k].q]
      BY <1>8, <2>5
    <3>3. h[k + 1].best = Panic
      BY <3>1, <3>2
    <3> QED BY <2>3, <2>5, <3>3
  <2>6. CASE Good(k) /\ splitOffer(offers[k + 1]) /\ ~Present(accepts)
    <3>1. h[k + 1] = IF h[k].best = None THEN [h[k] EXCEPT !.best = Chose(offers[k + 1])]
                     ELSE h[k]
      BY <1>8, <2>2, <2>6 DEF Considered
    <3>2. /\ h[k] = [best |-> h[k].best, q |-> h[k].q]
          /\ h[k].best = IF k = 0 THEN None ELSE Chose(offers[1])
      BY <1>8, <2>6
    <3>3. CASE k = 0
      <4>1. h[k + 1] = [best |-> Chose(offers[k + 1]), q |-> h[k].q]
        BY <3>1, <3>2, <3>3
      <4> QED BY <1>6, <2>1, <2>3, <2>6, <3>3, <4>1
    <3>4. CASE k # 0
      <4>1. h[k + 1] = h[k]
        BY <1>6, <3>1, <3>2, <3>4
      <4> QED BY <1>6, <2>1, <2>3, <2>6, <3>2, <3>4, <4>1
    <3> QED BY <3>3, <3>4
  <2>7. CASE Good(k) /\ splitOffer(offers[k + 1]) /\ Present(accepts)
    <3>1. /\ h[k].best # Panic /\ Preferred(h[k], offers, w, k)
          /\ h[k] = [best |-> h[k].best, q |-> h[k].q]
      BY <1>8, <2>7
    <3>2. h[k + 1] = IF h[k].q = 1000 THEN h[k]
                     ELSE IF w[k + 1] > h[k].q
                       THEN [best |-> Chose(offers[k + 1]), q |-> w[k + 1]] ELSE h[k]
      BY <1>4, <2>1, <2>2, <2>7, <3>1 DEF Considered
    <3>3. Preferred(h[k + 1], offers, w, k + 1)
      BY <1>1, <1>5, <1>8, <3>1, <3>2, PreferredStep
    <3>4. h[k + 1].best # Panic /\ h[k + 1] = [best |-> h[k + 1].best, q |-> h[k + 1].q]
      BY <1>6, <3>1, <3>2
    <3> QED BY <2>3, <2>7, <3>3, <3>4
  <2> QED BY <2>4, <2>5, <2>6, <2>7
<1>9. Right(N)
  <2> HIDE DEF Right
  <2>1. 0 \in S
    BY <1>7
  <2>2. ASSUME NEW k \in Nat, k \in S PROVE k + 1 \in S
    BY <1>1, <1>8, <2>2
  <2>3. N \in S
    <3> HIDE DEF S
    <3> QED BY <1>1, <2>1, <2>2, SetInduction
  <2> QED BY <1>1, <2>3
<1>10. a = Panic <=> \E i \in 1..N : ~splitOffer(offers[i])
  BY <1>2, <1>9
<1>11. ASSUME a # Panic
       PROVE  IF Elements = <<>> THEN a = IF N = 0 THEN None ELSE Chose(offers[1])
              ELSE \E r : a = r.best /\ Preferred(r, offers, w, N)
  <2>1. Good(N)
    BY <1>10, <1>11
  <2> HIDE DEF Good
  <2> QED BY <1>2, <1>3, <1>9, <2>1
<1> QED BY <1>10, <1>11 DEF a, N, w

\* The answer is negotiate's for the lines of the request, which do not change.
ChoiceInv ==
  /\ accepts \in Headers /\ asked \in Seq(MediaType)
  /\ answer = negotiate(accepts, asked)

LEMMA ChoiceStep == ASSUME ChoiceInv, [Next]_vars PROVE ChoiceInv'
<1>1. ASSUME NEW offers \in OfferLists, Accepts(offers) PROVE ChoiceInv'
  <2>1. offers \in Seq(MediaType)
    BY AcceptAssumption
  <2> QED BY <1>1, <2>1 DEF Accepts, ChoiceInv
<1>2. ASSUME NEW token \in OtherVary, AddVary(token) PROVE ChoiceInv'
  BY <1>2 DEF AddVary, ChoiceInv
<1>3. CASE UNCHANGED vars
  BY <1>3 DEF vars, ChoiceInv
<1> QED BY <1>1, <1>2, <1>3 DEF Next

LEMMA ChoiceFollows == ASSUME ChoiceInv PROVE ChoiceIsPreferred
<1> DEFINE N == Len(asked)
           w == [i \in 1..N |-> Weight(asked[i])]
<1>1. accepts \in Seq(Seq(MediaRange)) /\ asked \in Seq(MediaType)
  BY AcceptAssumption DEF ChoiceInv
<1>2. N \in Nat /\ DOMAIN asked = 1..N /\ (asked = <<>> <=> N = 0)
  BY <1>1
<1>3. answer = Panic <=> \E i \in 1..N : ~splitOffer(asked[i])
  BY <1>1, Negotiated DEF ChoiceInv
<1>4. ASSUME answer # Panic
      PROVE  IF Elements = <<>> THEN answer = IF N = 0 THEN None ELSE Chose(asked[1])
             ELSE \E r : answer = r.best /\ Preferred(r, asked, w, N)
  BY <1>1, <1>4, Negotiated DEF ChoiceInv
<1>5. \A i \in 1..N : w[i] = Weight(asked[i])
  OBVIOUS
<1> HIDE DEF N, w
<1>6. ASSUME answer # Panic, asked # <<>>, Elements # <<>>
      PROVE  \/ answer = None /\ \A i \in 1..N : Weight(asked[i]) = 0
             \/ \E i \in 1..N :
                  /\ answer = Chose(asked[i]) /\ Weight(asked[i]) > 0
                  /\ \A j \in 1..N :
                       Weight(asked[j]) < Weight(asked[i])
                         \/ (j >= i /\ Weight(asked[j]) = Weight(asked[i]))
  <2>1. PICK r : answer = r.best /\ Preferred(r, asked, w, N)
    BY <1>4, <1>6
  <2>2. CASE r = [best |-> None, q |-> 0] /\ \A i \in 1..N : w[i] = 0
    BY <1>5, <2>1, <2>2
  <2>3. CASE \E i \in 1..N : /\ r = [best |-> Chose(asked[i]), q |-> w[i]] /\ w[i] > 0
                             /\ \A j \in 1..N : w[j] < w[i] \/ (j >= i /\ w[j] = w[i])
    <3>1. PICK i \in 1..N : /\ r = [best |-> Chose(asked[i]), q |-> w[i]] /\ w[i] > 0
                            /\ \A j \in 1..N : w[j] < w[i] \/ (j >= i /\ w[j] = w[i])
      BY <2>3
    <3>2. answer = Chose(asked[i])
      BY <2>1, <3>1
    <3> QED BY <1>5, <3>1, <3>2
  <2> QED BY <2>1, <2>2, <2>3 DEF Preferred
<1>7. ASSUME answer # Panic, asked # <<>>, Elements = <<>> PROVE answer = Chose(asked[1])
  BY <1>2, <1>4, <1>7
<1> QED BY <1>2, <1>3, <1>6, <1>7 DEF ChoiceIsPreferred

\* Accepts answers the first offer of the greatest weight RFC 9110 gives it, for
\* every header, every list of offers and every spelling of q (negotiate,
\* offerQuality, matchRange, parseQ, parseFraction).
THEOREM ChoiceFollowsRFC == Spec => []ChoiceIsPreferred
<1>1. Init => ChoiceInv
  <2> SUFFICES ASSUME Init PROVE ChoiceInv
    OBVIOUS
  <2>1. accepts \in Headers /\ asked = <<>> /\ answer = None
    BY DEF Init
  <2>2. accepts \in Seq(Seq(MediaRange)) /\ <<>> \in Seq(MediaType) /\ Len(<<>>) = 0
    BY <2>1, AcceptAssumption
  <2>3. negotiate(accepts, <<>>) = None
    <3>1. PICK h : /\ OfferLoop(h, accepts, <<>>, Len(<<>>))
                   /\ negotiate(accepts, <<>>) = h[Len(<<>>)].best
      BY <2>2, OfferLoopIs
    <3>2. h[0].best = None
      BY <3>1 DEF OfferLoop
    <3> QED BY <2>2, <3>1, <3>2
  <2> QED BY <2>1, <2>2, <2>3 DEF ChoiceInv
<1>2. ChoiceInv /\ [Next]_vars => ChoiceInv'
  BY ChoiceStep
<1>3. ChoiceInv => ChoiceIsPreferred
  BY ChoiceFollows
<1> QED BY <1>1, <1>2, <1>3, PTL DEF Spec
-----------------------------------------------------------------------------
\* The tokens of Vary, of which at most one is Accepts' own.
VaryInv ==
  /\ vary \in Seq(OtherVary \cup {"Accept"})
  /\ asked # <<>> /\ answer # Panic => \E i \in DOMAIN vary : vary[i] \in {Star, "Accept"}
  /\ \A i, j \in DOMAIN vary : vary[i] = "Accept" /\ vary[j] = "Accept" => i = j

LEMMA VaryStep == ASSUME VaryInv, [Next]_vars PROVE VaryInv'
<1> DEFINE V == OtherVary \cup {"Accept"}
<1>1. vary \in Seq(V)
  BY DEF VaryInv
<1>2. ASSUME NEW offers \in OfferLists, Accepts(offers) PROVE VaryInv'
  <2>1. CASE answer' = Panic
    <3>1. vary' = vary
      BY <1>2, <2>1 DEF Accepts
    <3> QED BY <2>1, <3>1 DEF VaryInv
  <2>2. CASE answer' # Panic /\ \E i \in DOMAIN vary : vary[i] \in {Star, "Accept"}
    <3>1. vary' = vary
      BY <1>2, <2>2 DEF Accepts, addVaryAccept
    <3> QED BY <2>2, <3>1 DEF VaryInv
  <2>3. CASE answer' # Panic /\ ~\E i \in DOMAIN vary : vary[i] \in {Star, "Accept"}
    <3>1. vary' = Append(vary, "Accept")
      BY <1>2, <2>3 DEF Accepts, addVaryAccept
    <3>2. /\ vary' \in Seq(V) /\ DOMAIN vary' = 1..(Len(vary) + 1)
          /\ vary'[Len(vary) + 1] = "Accept" /\ Len(vary) + 1 \in DOMAIN vary'
          /\ \A i \in 1..Len(vary) : vary'[i] = vary[i] /\ i \in DOMAIN vary
      BY <1>1, <3>1
    <3>3. \A i \in DOMAIN vary' : vary'[i] = "Accept" => i = Len(vary) + 1
      BY <2>3, <3>2, <1>1
    <3> QED BY <3>2, <3>3 DEF VaryInv
  <2> QED BY <2>1, <2>2, <2>3
<1>3. ASSUME NEW token \in OtherVary, AddVary(token) PROVE VaryInv'
  <2>1. vary' = Append(vary, token) /\ UNCHANGED <<asked, answer>> /\ token # "Accept"
    BY <1>3, AcceptAssumption DEF AddVary
  <2>2. /\ vary' \in Seq(V) /\ DOMAIN vary' = 1..(Len(vary) + 1)
        /\ vary'[Len(vary) + 1] = token
        /\ \A i \in 1..Len(vary) : vary'[i] = vary[i] /\ i \in DOMAIN vary'
    BY <1>1, <2>1
  <2>3. DOMAIN vary = 1..Len(vary) /\ Len(vary) \in Nat
    BY <1>1
  <2> QED BY <2>1, <2>2, <2>3 DEF VaryInv
<1>4. CASE UNCHANGED vars
  BY <1>4 DEF vars, VaryInv
<1> QED BY <1>2, <1>3, <1>4 DEF Next

\* Vary names Accept, or *, once a call returned, and Accepts never writes it
\* twice, however often it is called and whatever else is added (addVaryAccept).
THEOREM VaryIsTold == Spec => []VaryTold
<1>1. Init => VaryInv
  BY DEF Init, VaryInv
<1>2. VaryInv /\ [Next]_vars => VaryInv'
  BY VaryStep
<1>3. VaryInv => VaryTold
  BY DEF VaryInv, VaryTold, Range
<1> QED BY <1>1, <1>2, <1>3, PTL DEF Spec
=============================================================================
