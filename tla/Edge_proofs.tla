---------------------------- MODULE Edge_proofs -----------------------------
(***************************************************************************)
(* What a connection through the edge of an App is promised, for every     *)
(* chain of middleware, every number of requests and of Static routes, and *)
(* every interleaving with Build and Shutdown.                             *)
(***************************************************************************)
EXTENDS Edge, Folding_proofs

\* What Build and stopStatic know of each other.  Entries are made only by a
\* Build that began before any stop; without an overlap the stopper has each
\* entry it has passed behind it and none of the others.
MadeInv ==
  /\ build = "no" \/ skip => \A e \in Statics : cache[e] = "none"
  /\ build = "done" /\ ~skip => \A e \in Statics : cache[e] # "none"
StopInv ==
  /\ staticStopped <=> stopping # 0
  /\ shutdownOnce <=> stopping # 0
  /\ ~overlapped =>
       /\ build = "busy" /\ stopping # 0 => skip
       /\ \A e \in Statics :
            cache[e] \in IF e < stopping THEN {"none", "stopped"} ELSE {"none", "running"}
SInv == StaticTypeOK /\ MadeInv /\ StopInv

LEMMA StaticBase == ASSUME StaticInit PROVE SInv
<1>1. StaticTypeOK /\ stopping = 0
  <2>1. /\ skip \in BOOLEAN /\ staticStopped \in BOOLEAN
        /\ shutdownOnce \in BOOLEAN /\ overlapped \in BOOLEAN
    BY DEF StaticInit
  <2>2. 0 \in 0..(NStatics + 1)
    BY StaticsAssumption
  <2> QED BY <2>1, <2>2 DEF StaticInit, StaticTypeOK
<1>2. ~staticStopped /\ ~shutdownOnce /\ ~skip
  BY DEF StaticInit
<1>3. \A e \in Statics : cache[e] = "none"
  BY DEF StaticInit
<1>4. MadeInv
  BY <1>3 DEF StaticInit, MadeInv
<1>5. StopInv
  BY <1>1, <1>2, <1>3, StaticsAssumption DEF StopInv, Statics
<1> QED BY <1>1, <1>4, <1>5 DEF SInv

\* Every step of Build and of stopStatic keeps it.
LEMMA StaticStep == ASSUME SInv, StaticNext \/ UNCHANGED staticVars PROVE SInv'
<1> USE StaticsAssumption DEF SInv, StaticTypeOK, MadeInv, StopInv, Statics, Stopping
<1>1. CASE BuildBegin
  BY <1>1 DEF BuildBegin
<1>2. ASSUME NEW e \in Statics, BuildEntry(e) PROVE SInv'
  BY <1>2 DEF BuildEntry
<1>3. CASE BuildEnd
  BY <1>3 DEF BuildEnd
<1>4. CASE runShutdown
  <2>1. CASE shutdownOnce
    BY <1>4, <2>1 DEF runShutdown, staticVars
  <2>2. CASE ~shutdownOnce
    <3>1. StopBegin /\ stopping = 0
      BY <1>4, <2>2 DEF runShutdown
    <3>2. staticStopped' /\ shutdownOnce' /\ stopping' = 1 /\ UNCHANGED <<build, skip, cache>>
      BY <3>1 DEF StopBegin
    <3>3. overlapped' \in BOOLEAN /\ (~overlapped' => ~overlapped /\ build # "busy")
      BY <3>1 DEF StopBegin
    <3>4. staticStopped' \in BOOLEAN /\ shutdownOnce' \in BOOLEAN
      BY <3>1 DEF StopBegin
    <3> QED BY <3>1, <3>2, <3>3, <3>4
  <2> QED BY <2>1, <2>2
<1>5. CASE StopEntry
  BY <1>5 DEF StopEntry
<1>6. CASE UNCHANGED staticVars
  BY <1>6 DEF staticVars
<1> QED BY <1>1, <1>2, <1>3, <1>4, <1>5, <1>6 DEF StaticNext

\* The rest of the connection never touches what Build and stopStatic share.
LEMMA StaticFrame == ASSUME [Next]_vars PROVE StaticNext \/ UNCHANGED staticVars
  BY DEF Next, vars, handle, RealIP, RequestID, CORS, RateLimit, BasicAuth, KeyAuth,
     Handler, notFound, Logger, Respond, Finished

\* Build and stopStatic, beside any traffic.
THEOREM StaticInvariant == Spec => []SInv
<1>1. Init => SInv
  BY StaticBase DEF Init
<1>2. SInv /\ [Next]_vars => SInv'
  BY StaticStep, StaticFrame
<1> QED BY <1>1, <1>2, PTL DEF Spec

\* For any number of Static routes, Shutdown leaves no cache goroutine behind
\* and closes no channel twice unless it overlapped Build (build, stopStatic).
THEOREM CachesAreStopped == Spec => []CachesStopped
<1>1. SInv => CachesStopped
  BY StaticsAssumption DEF SInv, StaticTypeOK, StopInv, CachesStopped, Statics, Stopping
<1> QED BY StaticInvariant, <1>1, PTL
-----------------------------------------------------------------------------
(***************************************************************************)
(* The address RealIP finds.  ParseIP's text is cut in two at an ellipsis, *)
(* an entry is read in one of the shapes of Written, and the walk from the *)
(* right over every line meets the entries of FlattenSeq, but for the      *)
(* empty first entry of a line.                                            *)
(***************************************************************************)
LEMMA OneMore == ASSUME NEW k \in Nat PROVE 1..(k + 1) = 1..k \cup {k + 1}
  OBVIOUS

\* The groups of one token, and the loop that collects them.
GroupOf(x) == CASE x = Colon -> <<>>
                [] x.kind = "quad" -> <<x.value, x.value>>
                [] OTHER -> <<x.value>>
GroupLoop(h, t, N) == h[0] = <<>> /\ \A k \in 1..N : h[k] = h[k - 1] \o GroupOf(t[k])

LEMMA GroupOfType ==
  ASSUME NEW x \in Token PROVE GroupOf(x) \in Seq(Nat) /\ Len(GroupOf(x)) <= 2
<1>1. x.value \in Nat
  BY DEF Token
<1>2. CASE x = Colon
  <2>1. GroupOf(x) = <<>>
    BY <1>2 DEF GroupOf, Colon, Tok
  <2>2. <<>> \in Seq(Nat) /\ Len(<<>>) = 0
    OBVIOUS
  <2> QED BY <2>1, <2>2
<1>3. CASE x # Colon /\ x.kind = "quad"
  BY <1>1, <1>3 DEF GroupOf
<1>4. CASE x # Colon /\ x.kind # "quad"
  BY <1>1, <1>4 DEF GroupOf
<1> QED BY <1>2, <1>3, <1>4

LEMMA GroupLoopIs ==
  ASSUME NEW t \in Seq(Token)
  PROVE  \E h : GroupLoop(h, t, Len(t)) /\ Groups(t) = h[Len(t)]
<1> DEFINE N == Len(t)
           X == Seq(Nat)
           Op(acc, x) == acc \o GroupOf(x)
           b == <<>>
           g == [i \in 1..N |-> [x \in X |-> Op(x, t[i])]]
           Body(f) == [u \in SUBSET (1..N) |->
                         IF u = {} THEN b ELSE Op(f[u \ {Max(u)}], t[Max(u)])]
           it == CHOOSE f : f = Body(f)
<1>1. N \in Nat /\ DOMAIN t = 1..N /\ \A i \in 1..N : t[i] \in Token
  OBVIOUS
<1>2. Groups(t) = it[1..N]
  BY <1>1 DEF Groups, FoldLeft, MapThenFoldSet, GroupOf
<1>3. b \in X /\ g \in [1..N -> [X -> X]]
  <2>1. \A i \in 1..N : \A x \in X : Op(x, t[i]) \in X
    <3> SUFFICES ASSUME NEW i \in 1..N, NEW x \in X PROVE Op(x, t[i]) \in X
      OBVIOUS
    <3>1. GroupOf(t[i]) \in Seq(Nat)
      BY <1>1, GroupOfType
    <3> QED BY <3>1
  <2> HIDE DEF Op
  <2> QED BY <2>1
<1>4. PICK f : Folds(f, N, X, b, g, Greatest(N))
  <2> HIDE DEF N, X, b, g
  <2> QED BY <1>1, <1>3, LeftFoldExists, Zenon
<1>5. f = Body(f)
  <2> SUFFICES ASSUME NEW u \in SUBSET (1..N)
               PROVE  f[u] = IF u = {} THEN b ELSE Op(f[u \ {Max(u)}], t[Max(u)])
    BY <1>4 DEF Folds
  <2> DEFINE w == u \ {Max(u)}
  <2>1. CASE u # {}
    <3>1. Max(u) \in 1..N /\ w \in SUBSET (1..N) /\ Greatest(N)[u] = Max(u)
      BY <1>1, <2>1, MaxMember DEF Greatest
    <3>2. f[w] \in X /\ f[u] = g[Max(u)][f[w]]
      <4> HIDE DEF X, g, b
      <4> QED BY <1>4, <2>1, <3>1 DEF Folds
    <3> HIDE DEF Op, X, w
    <3>3. f[u] = Op(f[w], t[Max(u)])
      BY <3>1, <3>2
    <3> QED BY <2>1, <3>3 DEF w
  <2>2. CASE u = {}
    BY <1>4, <2>2 DEF Folds
  <2> QED BY <2>1, <2>2
<1>6. it = Body(it)
  <2> HIDE DEF Body
  <2> QED BY <1>5, Zenon
<1> HIDE DEF it
<1>7. it[1..0] = b
  BY <1>6
<1>8. ASSUME NEW k \in 1..N PROVE it[1..k] = Op(it[1..(k - 1)], t[k])
  <2> HIDE DEF Op, b, N
  <2>1. /\ 1..k \in SUBSET (1..N) /\ 1..k # {} /\ Max(1..k) = k
        /\ (1..k) \ {k} = 1..(k - 1)
    BY <1>1, LeftSets
  <2>2. it[1..k] = IF 1..k = {} THEN b ELSE Op(it[(1..k) \ {Max(1..k)}], t[Max(1..k)])
    BY <1>6, <2>1
  <2> QED BY <2>1, <2>2
<1> DEFINE h == [k \in 0..N |-> it[1..k]]
<1>9. /\ h[0] = b /\ \A k \in 1..N : h[k] = Op(h[k - 1], t[k])
      /\ h[N] = it[1..N]
  <2> HIDE DEF Op, b
  <2>1. \A k \in 1..N : k \in 0..N /\ k - 1 \in 0..N
    BY <1>1
  <2>2. 0 \in 0..N /\ N \in 0..N
    BY <1>1
  <2> QED BY <1>7, <1>8, <2>1, <2>2
<1> HIDE DEF h
<1>10. GroupLoop(h, t, N)
  BY <1>9 DEF GroupLoop
<1> QED BY <1>2, <1>9, <1>10

LEMMA GroupsType ==
  ASSUME NEW t \in Seq(Token)
  PROVE  Groups(t) \in Seq(Nat) /\ Len(Groups(t)) <= 2 * Len(t)
<1> DEFINE N == Len(t)
<1>1. N \in Nat /\ \A i \in 1..N : t[i] \in Token
  OBVIOUS
<1>2. PICK h : GroupLoop(h, t, N) /\ Groups(t) = h[N]
  BY GroupLoopIs
<1> HIDE DEF N
<1> DEFINE Right(k) == h[k] \in Seq(Nat) /\ Len(h[k]) <= 2 * k
           S == {k \in Nat : k <= N => Right(k)}
<1>3. Right(0)
  <2>1. h[0] = <<>>
    BY <1>2 DEF GroupLoop
  <2> QED BY <2>1
<1>4. ASSUME NEW k \in Nat, k + 1 <= N, Right(k) PROVE Right(k + 1)
  <2>1. k + 1 \in 1..N /\ (k + 1) - 1 = k
    BY <1>1, <1>4
  <2>2. h[k + 1] = h[k] \o GroupOf(t[k + 1])
    BY <1>2, <2>1 DEF GroupLoop
  <2>3. GroupOf(t[k + 1]) \in Seq(Nat) /\ Len(GroupOf(t[k + 1])) <= 2
    BY <1>1, <2>1, GroupOfType
  <2>4. h[k + 1] \in Seq(Nat) /\ Len(h[k + 1]) = Len(h[k]) + Len(GroupOf(t[k + 1]))
    BY <1>4, <2>2, <2>3
  <2>5. Len(h[k]) \in Nat /\ Len(GroupOf(t[k + 1])) \in Nat
    BY <1>4, <2>3
  <2> DEFINE p == Len(h[k])
             q == Len(GroupOf(t[k + 1]))
  <2>6. p \in Nat /\ p <= 2 * k /\ q \in Nat /\ q <= 2 /\ Len(h[k + 1]) = p + q
    BY <1>4, <2>3, <2>4, <2>5
  <2> HIDE DEF p, q
  <2>7. p + q <= 2 * (k + 1)
    BY <2>6
  <2> QED BY <2>4, <2>6, <2>7
<1>5. Right(N)
  <2> HIDE DEF Right
  <2>1. 0 \in S
    BY <1>3
  <2>2. ASSUME NEW k \in Nat, k \in S PROVE k + 1 \in S
    BY <1>1, <1>4, <2>2
  <2>3. N \in S
    <3> HIDE DEF S
    <3> QED BY <1>1, <2>1, <2>2, SetInduction
  <2> QED BY <1>1, <2>3
<1> QED BY <1>2, <1>5 DEF N

\* Where an ellipsis may stand in t, and what is written with it.
Fore(t, i) == SubSeq(t, 1, i - 1)
Rear(t, i) == SubSeq(t, i + 2, Len(t))
Filled(t, i) == 8 - Len(Groups(Fore(t, i))) - Len(Groups(Rear(t, i)))
Ellipsis(t, i) ==
  /\ i \in 1..(Len(t) - 1) /\ t[i] = Colon /\ t[i + 1] = Colon
  /\ IsFields(Fore(t, i)) /\ IsFields(Rear(t, i))
  /\ \A j \in DOMAIN Fore(t, i) : t[j].kind # "quad"
  /\ Filled(t, i) >= 1
Expanded(t, i) == Groups(Fore(t, i)) \o [z \in 1..Filled(t, i) |-> 0] \o Groups(Rear(t, i))
LoneQuad(t) == Len(t) = 1 /\ Head(t).kind = "quad"
Eight(t) == IsFields(t) /\ Len(Groups(t)) = 8

LEMMA ParseShapes ==
  ASSUME NEW t \in Seq(Token)
  PROVE  \/ ParseIP(t) = NoIP
         \/ LoneQuad(t) /\ ParseIP(t) = V4(Head(t).value)
         \/ \E i \in 1..(Len(t) - 1) : Ellipsis(t, i) /\ ParseIP(t) = Expanded(t, i)
         \/ Eight(t) /\ ParseIP(t) = Groups(t)
<1> DEFINE E == {i \in 1..(Len(t) - 1) : Ellipsis(t, i)}
           c == CHOOSE j \in E : TRUE
<1>1. ParseIP(t) = CASE LoneQuad(t) -> V4(Head(t).value)
                     [] E # {} -> Expanded(t, c)
                     [] E = {} /\ Eight(t) -> Groups(t)
                     [] OTHER -> NoIP
  <2>1. E = {i \in 1..(Len(t) - 1) :
        /\ t[i] = Colon /\ t[i + 1] = Colon
        /\ IsFields(SubSeq(t, 1, i - 1)) /\ IsFields(SubSeq(t, i + 2, Len(t)))
        /\ \A j \in DOMAIN SubSeq(t, 1, i - 1) : t[j].kind # "quad"
        /\ 8 - Len(Groups(SubSeq(t, 1, i - 1))) - Len(Groups(SubSeq(t, i + 2, Len(t)))) >= 1}
    BY Zenon DEF Ellipsis, Fore, Rear, Filled
  <2> HIDE DEF E
  <2> QED BY <2>1, Zenon DEF ParseIP, LoneQuad, Eight, Expanded, Fore, Rear, Filled
<1>2. E # {} => c \in E
  BY Zenon
<1>3. E # {} => c \in 1..(Len(t) - 1) /\ Ellipsis(t, c)
  BY <1>2, Zenon
<1> HIDE DEF E, c
<1> QED BY <1>1, <1>3

LEMMA LoneQuadParses ==
  ASSUME NEW t \in Seq(Token), LoneQuad(t) PROVE ParseIP(t) = V4(t[1].value)
<1> DEFINE G(i) == 8 - Len(Groups(SubSeq(t, 1, i - 1))) - Len(Groups(SubSeq(t, i + 2, Len(t))))
           E == {i \in 1..(Len(t) - 1) :
                   /\ t[i] = Colon /\ t[i + 1] = Colon
                   /\ IsFields(SubSeq(t, 1, i - 1)) /\ IsFields(SubSeq(t, i + 2, Len(t)))
                   /\ \A j \in DOMAIN SubSeq(t, 1, i - 1) : t[j].kind # "quad"
                   /\ G(i) >= 1}
<1>1. Len(t) = 1 /\ Head(t) = t[1] /\ t[1].kind = "quad"
  BY DEF LoneQuad
<1>2. E = {}
  <2>1. 1..(Len(t) - 1) = {}
    BY <1>1
  <2> QED BY <2>1, Zenon
<1>3. Len(Groups(t)) # 8
  <2>1. Groups(t) \in Seq(Nat) /\ Len(Groups(t)) <= 2 * Len(t)
    BY GroupsType
  <2> DEFINE p == Len(Groups(t))
  <2>2. p \in Nat /\ p <= 2
    BY <1>1, <2>1
  <2> HIDE DEF p
  <2>3. p # 8
    BY <2>2
  <2> QED BY <2>3 DEF p
<1>4. ParseIP(t) = CASE Len(t) = 1 /\ Head(t).kind = "quad" -> V4(Head(t).value)
                     [] E # {} -> LET i == CHOOSE j \in E : TRUE IN
                                  Groups(SubSeq(t, 1, i - 1)) \o [z \in 1..G(i) |-> 0]
                                    \o Groups(SubSeq(t, i + 2, Len(t)))
                     [] E = {} /\ IsFields(t) /\ Len(Groups(t)) = 8 -> Groups(t)
                     [] OTHER -> NoIP
  BY Zenon DEF ParseIP
<1> HIDE DEF E, G
<1> QED BY <1>1, <1>2, <1>3, <1>4

\* Concatenation, as the provers need it spelled out.
LEMMA Concat ==
  ASSUME NEW S, NEW x \in Seq(S), NEW y \in Seq(S)
  PROVE  x \o y \in Seq(S) /\ Len(x \o y) = Len(x) + Len(y)
  OBVIOUS

LEMMA AsFunction == ASSUME NEW S, NEW x \in Seq(S) PROVE x \in [1..Len(x) -> S]
  OBVIOUS

LEMMA EightLong ==
  ASSUME NEW x \in Seq(Nat), Len(x) = 8 PROVE x \in Address
<1>1. x \in [1..Len(x) -> Nat]
  BY AsFunction
<1> QED BY <1>1 DEF Address

LEMMA Sections ==
  ASSUME NEW t \in Seq(Token), NEW i \in 1..(Len(t) - 1)
  PROVE  /\ Fore(t, i) \in Seq(Token) /\ Len(Fore(t, i)) = i - 1
         /\ \A j \in 1..(i - 1) : Fore(t, i)[j] = t[j]
         /\ Rear(t, i) \in Seq(Token) /\ Len(Rear(t, i)) = Len(t) - i - 1
         /\ \A j \in 1..(Len(t) - i - 1) : Rear(t, i)[j] = t[j + i + 1]
<1>1. Len(t) \in Nat /\ i \in Nat
  OBVIOUS
<1>2. /\ Fore(t, i) \in Seq(Token) /\ Len(Fore(t, i)) = (i - 1) - 1 + 1
      /\ \A j \in 1..((i - 1) - 1 + 1) : Fore(t, i)[j] = t[j + 1 - 1]
  <2>1. 1 \in 1..(Len(t) + 1) /\ i - 1 \in (1 - 1)..Len(t)
    BY <1>1
  <2> QED BY <2>1, Piece, ZenonT(60) DEF Fore
<1>3. /\ Rear(t, i) \in Seq(Token) /\ Len(Rear(t, i)) = Len(t) - (i + 2) + 1
      /\ \A j \in 1..(Len(t) - (i + 2) + 1) : Rear(t, i)[j] = t[j + (i + 2) - 1]
  <2>1. i + 2 \in 1..(Len(t) + 1) /\ Len(t) \in ((i + 2) - 1)..Len(t)
    BY <1>1
  <2> QED BY <2>1, Piece, ZenonT(60) DEF Rear
<1>4. (i - 1) - 1 + 1 = i - 1 /\ Len(t) - (i + 2) + 1 = Len(t) - i - 1
  BY <1>1
<1>5. ASSUME NEW j \in 1..(i - 1) PROVE Fore(t, i)[j] = t[j]
  <2>1. j + 1 - 1 = j
    BY <1>1
  <2> QED BY <1>2, <1>4, <2>1
<1>6. ASSUME NEW j \in 1..(Len(t) - i - 1) PROVE Rear(t, i)[j] = t[j + i + 1]
  <2>1. j + (i + 2) - 1 = j + i + 1
    BY <1>1
  <2>2. Rear(t, i)[j] = t[j + (i + 2) - 1]
    BY <1>3, <1>4
  <2> QED BY <2>1, <2>2
<1>7. Fore(t, i) \in Seq(Token) /\ Len(Fore(t, i)) = i - 1
  BY <1>2, <1>4
<1>8. Rear(t, i) \in Seq(Token) /\ Len(Rear(t, i)) = Len(t) - i - 1
  BY <1>3, <1>4
<1> QED BY <1>5, <1>6, <1>7, <1>8

LEMMA ExpandedType ==
  ASSUME NEW t \in Seq(Token), NEW i \in 1..(Len(t) - 1), Ellipsis(t, i)
  PROVE  Expanded(t, i) \in Address
<1> DEFINE x == Groups(Fore(t, i))
           y == Groups(Rear(t, i))
           len == Filled(t, i)
           o == [z \in 1..len |-> 0]
<1>1. x \in Seq(Nat) /\ y \in Seq(Nat)
  BY Sections, GroupsType
<1>2. len = 8 - Len(x) - Len(y) /\ len >= 1 /\ Expanded(t, i) = x \o o \o y
  BY DEF Filled, Ellipsis, Expanded
<1> HIDE DEF x, y, len
<1>3. Len(x) \in Nat /\ Len(y) \in Nat
  BY <1>1
<1>4. len \in Nat /\ Len(x) + len + Len(y) = 8
  BY <1>2, <1>3
<1>5. o \in Seq(Nat) /\ Len(o) = len
  BY <1>4
<1> HIDE DEF o
<1>6. x \o o \in Seq(Nat) /\ Len(x \o o) = Len(x) + len
  BY <1>1, <1>5, Concat
<1>7. x \o o \o y \in Seq(Nat) /\ Len(x \o o \o y) = Len(x) + len + Len(y)
  BY <1>1, <1>6, Concat
<1> QED BY <1>2, <1>4, <1>7, EightLong

\* ParseIP returns an address of eight groups, or none.
LEMMA ParseType ==
  ASSUME NEW t \in Seq(Token) PROVE ParseIP(t) = NoIP \/ ParseIP(t) \in Address
<1>1. CASE LoneQuad(t) /\ ParseIP(t) = V4(Head(t).value)
  <2>1. Head(t) \in Token
    BY <1>1 DEF LoneQuad
  <2> DEFINE v == Head(t).value
  <2> HIDE DEF v
  <2>2. v \in Nat
    BY <2>1 DEF v, Token
  <2>3. V4(v) \in Seq(Nat) /\ Len(V4(v)) = 8
    BY <2>2 DEF V4
  <2> QED BY <1>1, <2>3, EightLong DEF v
<1>2. CASE \E i \in 1..(Len(t) - 1) : Ellipsis(t, i) /\ ParseIP(t) = Expanded(t, i)
  BY <1>2, ExpandedType
<1>3. CASE Eight(t) /\ ParseIP(t) = Groups(t)
  BY <1>3, GroupsType, EightLong DEF Eight
<1> QED BY <1>1, <1>2, <1>3, ParseShapes

\* The tokens an address is written with; brackets are not among them.
Plain(x) == x = Colon \/ x.kind \in {"hex", "digits", "quad"}

LEMMA FieldsPlain ==
  ASSUME NEW t \in Seq(Token), IsFields(t), NEW i \in 1..Len(t) PROVE Plain(t[i])
<1>1. t # <<>> /\ i \in DOMAIN t
  OBVIOUS
<1>2. IF i % 2 = 0 THEN t[i] = Colon
      ELSE IsGroup(t[i]) \/ (i = Len(t) /\ t[i].kind = "quad")
  BY <1>1, Zenon DEF IsFields
<1> QED BY <1>2 DEF IsGroup, Plain

LEMMA ParsePlain ==
  ASSUME NEW t \in Seq(Token), ParseIP(t) # NoIP, NEW j \in 1..Len(t) PROVE Plain(t[j])
<1>1. CASE LoneQuad(t)
  <2>1. j = 1 /\ t[1].kind = "quad"
    BY <1>1 DEF LoneQuad
  <2> QED BY <2>1 DEF Plain
<1>2. ASSUME NEW i \in 1..(Len(t) - 1), Ellipsis(t, i) PROVE Plain(t[j])
  <2>1. /\ t[i] = Colon /\ t[i + 1] = Colon
        /\ IsFields(Fore(t, i)) /\ IsFields(Rear(t, i))
    BY <1>2 DEF Ellipsis
  <2>2. Len(t) \in Nat
    OBVIOUS
  <2>3. CASE j \in 1..(i - 1)
    <3>1. /\ Fore(t, i) \in Seq(Token) /\ Len(Fore(t, i)) = i - 1
          /\ Fore(t, i)[j] = t[j]
      BY <2>3, Sections
    <3> QED BY <2>1, <2>3, <3>1, FieldsPlain
  <2>4. CASE j = i \/ j = i + 1
    BY <2>1, <2>4 DEF Plain
  <2>5. CASE j > i + 1
    <3> DEFINE m == j - i - 1
    <3>1. m \in 1..(Len(t) - i - 1) /\ m + i + 1 = j
      BY <2>2, <2>5
    <3> HIDE DEF m
    <3>2. /\ Rear(t, i) \in Seq(Token) /\ Len(Rear(t, i)) = Len(t) - i - 1
          /\ Rear(t, i)[m] = t[m + i + 1]
      BY <3>1, Sections
    <3>3. Plain(Rear(t, i)[m])
      BY <2>1, <3>1, <3>2, FieldsPlain
    <3> QED BY <3>1, <3>2, <3>3
  <2> QED BY <2>2, <2>3, <2>4, <2>5
<1>3. CASE Eight(t)
  BY <1>3, FieldsPlain DEF Eight
<1> QED BY <1>1, <1>2, <1>3, ParseShapes

LEMMA Brackets == ASSUME NEW x, Plain(x) PROVE x # Open /\ x # Shut
  BY DEF Plain, Colon, Open, Shut, Tok

\* An address with fewer than two colons is a dotted quad.
LEMMA ParseColons ==
  ASSUME NEW t \in Seq(Token), ParseIP(t) # NoIP,
         \A i, j \in 1..Len(t) : t[i] = Colon /\ t[j] = Colon => i = j
  PROVE  LoneQuad(t)
<1>1. ASSUME NEW i \in 1..(Len(t) - 1), Ellipsis(t, i) PROVE FALSE
  <2>1. t[i] = Colon /\ t[i + 1] = Colon
    BY <1>1 DEF Ellipsis
  <2>2. i \in 1..Len(t) /\ i + 1 \in 1..Len(t) /\ i # i + 1
    OBVIOUS
  <2> QED BY <2>1, <2>2
<1>2. ASSUME Eight(t) PROVE FALSE
  <2> DEFINE N == Len(t)
             p == Len(Groups(t))
  <2>1. N \in Nat /\ p \in Nat /\ p <= 2 * N /\ p = 8
    <3>1. p = 8
      BY <1>2 DEF Eight
    <3>2. Groups(t) \in Seq(Nat) /\ p <= 2 * N
      BY GroupsType
    <3>3. N \in Nat
      OBVIOUS
    <3> HIDE DEF N, p
    <3> QED BY <3>1, <3>2, <3>3
  <2>2. \A i \in 1..N : i % 2 = 0 => t[i] = Colon
    <3> SUFFICES ASSUME NEW i \in 1..N, i % 2 = 0 PROVE t[i] = Colon
      OBVIOUS
    <3>1. t # <<>> /\ i \in DOMAIN t
      OBVIOUS
    <3> QED BY <1>2, <3>1, Zenon DEF Eight, IsFields
  <2> HIDE DEF N, p
  <2>3. 2 \in 1..N /\ 4 \in 1..N
    BY <2>1
  <2>4. 2 % 2 = 0 /\ 4 % 2 = 0
    OBVIOUS
  <2>5. t[2] = Colon /\ t[4] = Colon
    BY <2>2, <2>3, <2>4
  <2> QED BY <2>3, <2>5 DEF N
<1> QED BY <1>1, <1>2, ParseShapes

LEMMA TrimmedType == ASSUME NEW entry \in Seq(Token) PROVE Trimmed(entry) \in Seq(Token)
<1> DEFINE text == {i \in DOMAIN entry : entry[i] # Blank}
           N == Len(entry)
<1>1. Trimmed(entry) = IF text = {} THEN <<>> ELSE SubSeq(entry, Min(text), Max(text))
  BY DEF Trimmed
<1>2. N \in Nat /\ text \in SUBSET (1..N)
  OBVIOUS
<1> HIDE DEF text
<1>3. CASE text # {}
  <2>1. Min(text) \in text /\ Max(text) \in text /\ Min(text) <= Max(text)
    BY <1>2, <1>3, MinMember, MaxMember
  <2>2. Min(text) \in 1..N /\ Max(text) \in 1..N
    BY <1>2, <2>1
  <2> DEFINE m == Min(text)
             len == Max(text)
  <2> HIDE DEF m, len
  <2>3. m \in 1..(N + 1) /\ len \in (m - 1)..N
    <3>1. m \in 1..N /\ len \in 1..N /\ m <= len
      BY <2>1, <2>2 DEF m, len
    <3> HIDE DEF N
    <3> QED BY <1>2, <3>1
  <2>4. SubSeq(entry, m, len) \in Seq(Token)
    BY <2>3, Piece
  <2> QED BY <1>1, <1>3, <2>4 DEF m, len
<1>4. CASE text = {}
  BY <1>1, <1>4
<1> QED BY <1>3, <1>4

IsPort(x) == x.kind = "digits" /\ x.width \in 1..5 /\ x.value \in Ports

LEMMA ValidPort ==
  ASSUME NEW p \in Seq(Token) PROVE validPort(p) <=> Len(p) = 1 /\ IsPort(p[1])
<1>1. Len(p) = 1 => Head(p) = p[1]
  OBVIOUS
<1>2. validPort(p) <=> Len(p) = 1 /\ IsPort(Head(p))
  BY Zenon DEF validPort, IsPort
<1> QED BY <1>1, <1>2

LEMMA PortToken ==
  ASSUME NEW x \in Token PROVE x = Digits(x.value, x.width) <=> x.kind = "digits"
  BY DEF Token, Digits

\* A single token of e.
LEMMA OneOf ==
  ASSUME NEW S, NEW e \in Seq(S), NEW k \in 1..Len(e) PROVE SubSeq(e, k, k) = <<e[k]>>
<1>1. Len(e) \in Nat /\ k \in Nat
  OBVIOUS
<1>2. k \in 1..(Len(e) + 1) /\ k \in (k - 1)..Len(e) /\ k - k + 1 = 1
  BY <1>1
<1>3. /\ SubSeq(e, k, k) \in Seq(S) /\ Len(SubSeq(e, k, k)) = 1
      /\ \A i \in 1..1 : SubSeq(e, k, k)[i] = e[i + k - 1]
  <2>1. /\ SubSeq(e, k, k) \in Seq(S) /\ Len(SubSeq(e, k, k)) = k - k + 1
        /\ \A i \in 1..(k - k + 1) : SubSeq(e, k, k)[i] = e[i + k - 1]
    BY <1>2, Piece, ZenonT(60)
  <2> QED BY <1>2, <2>1
<1>4. 1 \in 1..1 /\ 1 + k - 1 = k
  BY <1>1
<1>5. SubSeq(e, k, k)[1] = e[k]
  BY <1>3, <1>4
<1> DEFINE p == SubSeq(e, k, k)
<1>6. p \in Seq(S) /\ Len(p) = 1 /\ p[1] = e[k]
  BY <1>3, <1>5
<1> HIDE DEF p
<1>7. p = <<e[k]>>
  BY <1>6
<1> QED BY <1>7 DEF p

LEMMA TwoOf ==
  ASSUME NEW S, NEW e \in Seq(S), NEW k \in 1..Len(e), NEW l \in 1..Len(e), l = k + 1
  PROVE  SubSeq(e, k, l) = <<e[k], e[l]>>
<1>1. Len(e) \in Nat /\ k \in Nat /\ l \in Nat
  OBVIOUS
<1>2. k \in 1..(Len(e) + 1) /\ l \in (k - 1)..Len(e) /\ l - k + 1 = 2
  BY <1>1
<1> DEFINE p == SubSeq(e, k, l)
<1>3. p \in Seq(S) /\ Len(p) = 2 /\ \A i \in 1..2 : p[i] = e[i + k - 1]
  <2>1. /\ SubSeq(e, k, l) \in Seq(S) /\ Len(SubSeq(e, k, l)) = l - k + 1
        /\ \A i \in 1..(l - k + 1) : SubSeq(e, k, l)[i] = e[i + k - 1]
    BY <1>2, Piece, ZenonT(60)
  <2> QED BY <1>2, <2>1
<1> HIDE DEF p
<1>4. 1 \in 1..2 /\ 2 \in 1..2 /\ 1 + k - 1 = k /\ 2 + k - 1 = l
  BY <1>1
<1>5. p[1] = e[k] /\ p[2] = e[l]
  BY <1>3, <1>4
<1>6. p = <<e[k], e[l]>>
  BY <1>3, <1>5
<1> QED BY <1>6 DEF p

\* The two shapes of Written besides a bare address.
QuadWritten(e, ip) ==
  /\ Len(e) = 3 /\ e[1].kind = "quad" /\ e[2] = Colon /\ IsPort(e[3])
  /\ ip = V4(e[1].value)
Host(e, k) == SubSeq(e, 2, k - 1)
Closes(e, k) ==
  /\ e[1] = Open /\ e[k] = Shut /\ ParseIP(Host(e, k)) # NoIP /\ Colon \in Range(Host(e, k))
  /\ k = Len(e) \/ (k = Len(e) - 2 /\ e[Len(e) - 1] = Colon /\ IsPort(e[Len(e)]))

LEMMA WrittenAs ==
  ASSUME NEW entry \in Seq(Token), NEW e \in Seq(Token), e = Trimmed(entry), NEW ip
  PROVE  ip \in Written(entry) <=>
           \/ ip = ParseIP(e)
           \/ QuadWritten(e, ip)
           \/ \E k \in 3..Len(e) : Closes(e, k) /\ ip = ParseIP(Host(e, k))
<1> DEFINE Port(p) == /\ p = <<Digits(p[1].value, p[1].width)>>
                      /\ p[1].width \in 1..5 /\ p[1].value \in Ports
           V6(t) == ParseIP(t) # NoIP /\ Colon \in Range(t)
           len == Len(e)
           Q == {r \in Range(e) : r.kind = "quad" /\ len = 3
                   /\ SubSeq(e, 1, 2) = <<r, Colon>> /\ Port(SubSeq(e, 3, 3))}
           K == {k \in 3..len :
                   /\ e[1] = Open /\ e[k] = Shut /\ V6(SubSeq(e, 2, k - 1))
                   /\ k = len \/ (k = len - 2 /\ e[len - 1] = Colon /\ Port(SubSeq(e, len, len)))}
<1>1. Written(entry) = {ParseIP(e)} \cup {V4(q.value) : q \in Q}
                         \cup {ParseIP(SubSeq(e, 2, j - 1)) : j \in K}
  BY Zenon DEF Written
<1>2. ASSUME NEW k \in 1..len PROVE Port(SubSeq(e, k, k)) <=> IsPort(e[k])
  <2>1. SubSeq(e, k, k) = <<e[k]>>
    BY OneOf
  <2>2. e[k] \in Token
    OBVIOUS
  <2> DEFINE x == e[k]
             p == <<x>>
  <2>3. p[1] = x /\ (p = <<Digits(p[1].value, p[1].width)>> <=> x = Digits(x.value, x.width))
    <3> HIDE DEF x
    <3> QED OBVIOUS
  <2>4. x = Digits(x.value, x.width) <=> x.kind = "digits"
    BY <2>2, PortToken
  <2>5. Port(p) <=> IsPort(x)
    <3> HIDE DEF x
    <3> QED BY <2>3, <2>4, Zenon DEF IsPort
  <2> QED BY <2>1, <2>5
<1>3. len \in Nat /\ DOMAIN e = 1..len
  OBVIOUS
<1>4. ASSUME NEW q PROVE q \in Q <=> /\ len = 3 /\ q = e[1] /\ e[1].kind = "quad"
                                     /\ e[2] = Colon /\ IsPort(e[3])
  <2>1. CASE len # 3
    BY <2>1, Zenon
  <2>2. CASE len = 3
    <3>1. 1 \in 1..len /\ 2 \in 1..len /\ 3 \in 1..len /\ 2 = 1 + 1
      BY <2>2
    <3>2. SubSeq(e, 1, 2) = <<e[1], e[2]>>
      BY <3>1, TwoOf
    <3>3. Port(SubSeq(e, 3, 3)) <=> IsPort(e[3])
      BY <1>2, <3>1
    <3>4. e[1] \in Range(e)
      BY <1>3, <3>1 DEF Range
    <3>5. SubSeq(e, 1, 2) = <<q, Colon>> <=> q = e[1] /\ e[2] = Colon
      BY <3>2
    <3> HIDE DEF Port, len
    <3>6. q \in Q <=> /\ q \in Range(e) /\ q.kind = "quad"
                      /\ SubSeq(e, 1, 2) = <<q, Colon>> /\ Port(SubSeq(e, 3, 3))
      BY <2>2, Zenon
    <3> HIDE DEF Q
    <3> QED BY <2>2, <3>3, <3>4, <3>5, <3>6
  <2> QED BY <2>1, <2>2
<1>5. ASSUME NEW k PROVE k \in K <=> k \in 3..len /\ Closes(e, k)
  <2>1. ASSUME k \in 3..len PROVE Port(SubSeq(e, len, len)) <=> IsPort(e[len])
    <3>1. len \in 1..len
      <4> HIDE DEF len
      <4> QED BY <1>3, <2>1
    <3> QED BY <1>2, <3>1
  <2> HIDE DEF Port
  <2> QED BY <2>1, Zenon DEF Closes, Host, len
<1> HIDE DEF Q, K
<1>6. ip \in {V4(q.value) : q \in Q} <=> QuadWritten(e, ip)
  <2>1. ip \in {V4(q.value) : q \in Q} <=> \E q \in Q : ip = V4(q.value)
    BY Zenon
  <2>2. (\E q \in Q : ip = V4(q.value)) <=> e[1] \in Q /\ ip = V4(e[1].value)
    BY <1>4, Zenon
  <2>3. e[1] \in Q <=> len = 3 /\ e[1].kind = "quad" /\ e[2] = Colon /\ IsPort(e[3])
    BY <1>4, Zenon
  <2> QED BY <2>1, <2>2, <2>3, Zenon DEF QuadWritten
<1>7. ip \in {ParseIP(SubSeq(e, 2, j - 1)) : j \in K} <=>
        \E k \in 3..len : Closes(e, k) /\ ip = ParseIP(Host(e, k))
  <2>1. ip \in {ParseIP(SubSeq(e, 2, j - 1)) : j \in K} <=>
          \E k \in K : ip = ParseIP(Host(e, k))
    BY Zenon DEF Host
  <2> HIDE DEF len
  <2> QED BY <1>5, <2>1, Zenon
<1> QED BY <1>1, <1>6, <1>7, Zenon

\* The end of a bracketed entry: nothing, or a colon and a port.
LEMMA PortSuffix ==
  ASSUME NEW e \in Seq(Token), NEW k \in 1..Len(e)
  PROVE  validPortSuffix(SubSeq(e, k + 1, Len(e))) <=>
           k = Len(e) \/ (k = Len(e) - 2 /\ e[Len(e) - 1] = Colon /\ IsPort(e[Len(e)]))
<1> DEFINE len == Len(e)
           rest == SubSeq(e, k + 1, len)
<1>1. len \in Nat /\ k \in Nat /\ k <= len
  OBVIOUS
<1>2. /\ rest \in Seq(Token) /\ Len(rest) = len - (k + 1) + 1
      /\ \A i \in 1..(len - (k + 1) + 1) : rest[i] = e[i + (k + 1) - 1]
  <2>1. k + 1 \in 1..(Len(e) + 1) /\ len \in ((k + 1) - 1)..Len(e)
    BY <1>1
  <2> QED BY <2>1, Piece, ZenonT(60)
<1>3. len - (k + 1) + 1 = len - k
  <2> HIDE DEF len
  <2> QED BY <1>1
<1>4. validPortSuffix(rest) <=> rest = <<>> \/ (Head(rest) = Colon /\ validPort(Tail(rest)))
  BY DEF validPortSuffix
<1>5. rest = <<>> <=> Len(rest) = 0
  <2>1. rest \in Seq(Token)
    BY <1>2
  <2> HIDE DEF rest
  <2> QED BY <2>1
<1>6. ASSUME rest # <<>>
      PROVE  /\ Head(rest) = rest[1] /\ Tail(rest) \in Seq(Token)
             /\ Len(Tail(rest)) = Len(rest) - 1
             /\ Len(rest) = 2 => Tail(rest)[1] = rest[2]
  <2> HIDE DEF rest
  <2> QED BY <1>2, <1>6
<1>8. CASE k = len
  <2>1. Len(rest) = 0
    <3> HIDE DEF rest, len
    <3> QED BY <1>1, <1>2, <1>3, <1>8
  <2> QED BY <1>4, <1>5, <1>8, <2>1
<1>9. CASE k # len
  <2>1. Len(rest) # 0 /\ Len(rest) = len - k
    <3> HIDE DEF rest, len
    <3> QED BY <1>1, <1>2, <1>3, <1>9
  <2>2. rest # <<>>
    BY <1>5, <2>1
  <2>3. validPort(Tail(rest)) <=> Len(Tail(rest)) = 1 /\ IsPort(Tail(rest)[1])
    BY <1>6, <2>2, ValidPort
  <2>4. CASE k = len - 2
    <3>1. Len(rest) = 2 /\ Len(Tail(rest)) = 1 /\ Head(rest) = rest[1] /\ Tail(rest)[1] = rest[2]
      <4>1. Len(rest) = 2
        <5> HIDE DEF rest, len
        <5> QED BY <1>1, <2>1, <2>4
      <4> QED BY <1>6, <2>2, <4>1
    <3>2. rest[1] = e[len - 1] /\ rest[2] = e[len]
      <4> HIDE DEF rest, len
      <4>1. 1 \in 1..(len - (k + 1) + 1) /\ 2 \in 1..(len - (k + 1) + 1)
        BY <1>1, <1>3, <2>4
      <4>2. 1 + (k + 1) - 1 = len - 1 /\ 2 + (k + 1) - 1 = len
        BY <1>1, <2>4
      <4> QED BY <1>2, <4>1, <4>2
    <3> HIDE DEF rest, len
    <3> QED BY <1>4, <1>9, <2>2, <2>3, <2>4, <3>1, <3>2 DEF rest, len
  <2>5. CASE k # len - 2
    <3>1. Len(Tail(rest)) # 1
      <4>1. Len(Tail(rest)) = Len(rest) - 1
        BY <1>6, <2>2
      <4> DEFINE p == Len(rest)
                 q == Len(Tail(rest))
      <4>2. p = len - k /\ q = p - 1
        BY <2>1, <4>1
      <4> HIDE DEF rest, len, p, q
      <4>3. q # 1
        BY <1>1, <2>5, <4>2
      <4> QED BY <4>3 DEF q
    <3> QED BY <1>4, <1>9, <2>2, <2>3, <2>5, <3>1
  <2> QED BY <2>4, <2>5
<1> QED BY <1>8, <1>9

\* What stands between the brackets.
LEMMA HostTokens ==
  ASSUME NEW e \in Seq(Token), NEW k \in 2..Len(e)
  PROVE  /\ Host(e, k) \in Seq(Token) /\ Len(Host(e, k)) = k - 2
         /\ \A i \in 2..(k - 1) : i - 1 \in 1..Len(Host(e, k)) /\ Host(e, k)[i - 1] = e[i]
<1> DEFINE len == Len(e)
           h == SubSeq(e, 2, k - 1)
<1>1. len \in Nat /\ k \in Nat /\ k >= 2 /\ k <= len
  OBVIOUS
<1>2. /\ h \in Seq(Token) /\ Len(h) = (k - 1) - 2 + 1
      /\ \A i \in 1..((k - 1) - 2 + 1) : h[i] = e[i + 2 - 1]
  <2>1. 2 \in 1..(Len(e) + 1) /\ k - 1 \in (2 - 1)..Len(e)
    BY <1>1
  <2> QED BY <2>1, Piece, ZenonT(60)
<1> HIDE DEF h, len
<1>3. Len(h) = k - 2
  BY <1>1, <1>2
<1>4. ASSUME NEW i \in 2..(k - 1) PROVE i - 1 \in 1..Len(h) /\ h[i - 1] = e[i]
  <2>1. i - 1 \in 1..(k - 2) /\ i - 1 \in 1..((k - 1) - 2 + 1) /\ (i - 1) + 2 - 1 = i
    BY <1>1
  <2> QED BY <1>2, <1>3, <2>1
<1> QED BY <1>2, <1>3, <1>4 DEF Host, h

LEMMA BracketedIs ==
  ASSUME NEW e \in Seq(Token), e # <<>>, e[1] = Open, NEW ip, ip # NoIP
  PROVE  ip = Bracketed(e) <=> \E k \in 3..Len(e) : Closes(e, k) /\ ip = ParseIP(Host(e, k))
<1> DEFINE len == Len(e)
           P == Places(e, Shut)
           m == Min(P)
<1>1. len \in Nat /\ DOMAIN e = 1..len
  OBVIOUS
<1>2. Bracketed(e) = IF /\ P # {} /\ validPortSuffix(SubSeq(e, m + 1, len))
                        /\ Places(Host(e, m), Colon) # {}
                     THEN ParseIP(Host(e, m)) ELSE NoIP
  BY Zenon DEF Bracketed, Host
<1>3. P \in SUBSET (1..len) /\ \A i \in 1..len : i \in P <=> e[i] = Shut
  BY <1>1 DEF Places
<1>4. Open # Shut
  BY DEF Open, Shut, Tok
<1> HIDE DEF P, m
<1>5. ASSUME P # {}
      PROVE  m \in 2..len /\ e[m] = Shut /\ \A i \in P : m <= i
  <2>1. m \in P /\ \A i \in P : m <= i
    BY <1>1, <1>3, <1>5, MinMember DEF m
  <2>2. m \in 1..len /\ e[m] = Shut /\ m # 1
    BY <1>3, <1>4, <2>1
  <2>3. m \in 2..len
    <3> HIDE DEF len
    <3> QED BY <1>1, <2>2
  <2> QED BY <2>1, <2>2, <2>3
<1>6. ASSUME NEW h \in Seq(Token) PROVE Places(h, Colon) # {} <=> Colon \in Range(h)
  BY DEF Places, Range
<1>7. ASSUME NEW k \in 3..len, Closes(e, k) PROVE P # {} /\ m = k
  <2>1. k \in 1..len /\ k \in 2..len
    <3> HIDE DEF len
    <3> QED BY <1>1
  <2>2. e[k] = Shut /\ ParseIP(Host(e, k)) # NoIP
    BY <1>7 DEF Closes
  <2>3. k \in P /\ P # {}
    BY <1>3, <2>1, <2>2
  <2>4. m \in 2..len /\ m <= k
    BY <1>5, <2>3
  <2>5. ~(m \in 2..(k - 1))
    <3> SUFFICES ASSUME m \in 2..(k - 1) PROVE FALSE
      OBVIOUS
    <3>1. /\ Host(e, k) \in Seq(Token) /\ m - 1 \in 1..Len(Host(e, k))
          /\ Host(e, k)[m - 1] = e[m]
      BY <2>1, HostTokens
    <3>2. Plain(Host(e, k)[m - 1])
      BY <2>2, <3>1, ParsePlain
    <3>3. e[m] = Shut
      BY <1>5, <2>3
    <3> QED BY <3>1, <3>2, <3>3, Brackets
  <2>6. m = k
    <3> HIDE DEF len
    <3> QED BY <1>1, <2>1, <2>4, <2>5
  <2> QED BY <2>3, <2>6
<1>8. ASSUME NEW k \in 3..len, Closes(e, k), ip = ParseIP(Host(e, k)) PROVE ip = Bracketed(e)
  <2>1. P # {} /\ m = k
    BY <1>7, <1>8
  <2>2. k \in 1..len /\ k \in 2..len
    <3> HIDE DEF len
    <3> QED BY <1>1
  <2>3. validPortSuffix(SubSeq(e, k + 1, len))
    BY <1>8, <2>2, PortSuffix DEF Closes
  <2>4. Places(Host(e, k), Colon) # {}
    <3>1. Colon \in Range(Host(e, k))
      BY <1>8 DEF Closes
    <3>2. Host(e, k) \in Seq(Token)
      BY <2>2, HostTokens
    <3> QED BY <1>6, <3>1, <3>2
  <2> QED BY <1>2, <1>8, <2>1, <2>3, <2>4
<1>9. ASSUME ip = Bracketed(e)
      PROVE  \E k \in 3..len : Closes(e, k) /\ ip = ParseIP(Host(e, k))
  <2>1. /\ P # {} /\ validPortSuffix(SubSeq(e, m + 1, len))
        /\ Places(Host(e, m), Colon) # {} /\ ip = ParseIP(Host(e, m))
    BY <1>2, <1>9
  <2>2. m \in 2..len /\ e[m] = Shut
    BY <1>5, <2>1
  <2>3. Host(e, m) \in Seq(Token) /\ Len(Host(e, m)) = m - 2
    BY <2>2, HostTokens
  <2>4. Colon \in Range(Host(e, m))
    BY <1>6, <2>1, <2>3
  <2>5. m \in 3..len /\ m \in 1..len
    <3>1. Len(Host(e, m)) # 0
      <4> DEFINE h == Host(e, m)
      <4>1. h \in Seq(Token) /\ \E i \in DOMAIN h : TRUE
        BY <2>1, <2>3 DEF Places
      <4> HIDE DEF h
      <4>2. Len(h) # 0
        BY <4>1
      <4> QED BY <4>2 DEF h
    <3> HIDE DEF len
    <3> QED BY <1>1, <2>2, <2>3, <3>1
  <2>6. m = len \/ (m = len - 2 /\ e[len - 1] = Colon /\ IsPort(e[len]))
    BY <2>1, <2>5, PortSuffix
  <2>7. Closes(e, m)
    BY <2>1, <2>2, <2>4, <2>6, Zenon DEF Closes
  <2> QED BY <2>1, <2>5, <2>7
<1> QED BY <1>8, <1>9

LEMMA WithPortIs ==
  ASSUME NEW e \in Seq(Token), NEW c, Places(e, Colon) = {c}, NEW ip, ip # NoIP
  PROVE  ip = WithPort(e) <=> QuadWritten(e, ip)
<1> DEFINE len == Len(e)
           x == SubSeq(e, 1, c - 1)
           p == SubSeq(e, c + 1, len)
<1>1. len \in Nat /\ DOMAIN e = 1..len
  OBVIOUS
<1>2. c \in 1..len /\ e[c] = Colon /\ \A i \in 1..len : e[i] = Colon => i = c
  BY <1>1 DEF Places
<1>3. Min({c}) = c
  BY <1>1, <1>2, MinMember
<1>4. WithPort(e) = IF validPort(p) THEN ParseIP(x) ELSE NoIP
  BY <1>3 DEF WithPort
<1>5. /\ x \in Seq(Token) /\ Len(x) = (c - 1) - 1 + 1
      /\ \A i \in 1..((c - 1) - 1 + 1) : x[i] = e[i + 1 - 1]
  <2>1. 1 \in 1..(Len(e) + 1) /\ c - 1 \in (1 - 1)..Len(e)
    BY <1>1, <1>2
  <2> QED BY <2>1, Piece, ZenonT(60)
<1>6. /\ p \in Seq(Token) /\ Len(p) = len - (c + 1) + 1
      /\ \A i \in 1..(len - (c + 1) + 1) : p[i] = e[i + (c + 1) - 1]
  <2> DEFINE a == c + 1
  <2>1. a \in 1..(Len(e) + 1) /\ len \in (a - 1)..Len(e)
    BY <1>1, <1>2
  <2> HIDE DEF a
  <2>2. /\ SubSeq(e, a, len) \in Seq(Token) /\ Len(SubSeq(e, a, len)) = len - a + 1
        /\ \A i \in 1..(len - a + 1) : SubSeq(e, a, len)[i] = e[i + a - 1]
    BY <2>1, Piece, ZenonT(60)
  <2> QED BY <2>2 DEF a
<1>7. validPort(p) <=> Len(p) = 1 /\ IsPort(p[1])
  BY <1>6, ValidPort
<1> HIDE DEF len, x, p
<1>8. Len(x) = c - 1 /\ Len(p) = len - c
  BY <1>1, <1>2, <1>5, <1>6
<1>9. ASSUME NEW i \in 1..(c - 1) PROVE x[i] = e[i] /\ i \in 1..len /\ i # c
  <2>1. i \in 1..((c - 1) - 1 + 1) /\ i + 1 - 1 = i /\ i \in 1..len /\ i # c
    BY <1>1, <1>2
  <2> QED BY <1>5, <2>1
<1>10. ASSUME c = 2, len = 3 PROVE Len(x) = 1 /\ Len(p) = 1 /\ x[1] = e[1] /\ p[1] = e[3]
  <2>1. 1 \in 1..(c - 1) /\ 1 \in 1..(len - (c + 1) + 1) /\ 1 + (c + 1) - 1 = 3
    BY <1>10
  <2>2. x[1] = e[1]
    BY <1>9, <2>1
  <2>3. p[1] = e[3]
    BY <1>6, <2>1
  <2>4. Len(x) = 1 /\ Len(p) = 1
    BY <1>8, <1>10
  <2> QED BY <2>2, <2>3, <2>4
<1>11. ASSUME QuadWritten(e, ip) PROVE ip = WithPort(e)
  <2>1. /\ len = 3 /\ e[1].kind = "quad" /\ e[2] = Colon /\ IsPort(e[3])
        /\ ip = V4(e[1].value)
    BY <1>11 DEF QuadWritten, len
  <2>2. 2 \in 1..len
    BY <2>1
  <2>3. c = 2
    BY <1>2, <2>1, <2>2
  <2>4. validPort(p) /\ Len(x) = 1 /\ x[1] = e[1]
    BY <1>7, <1>10, <2>1, <2>3
  <2>5. LoneQuad(x)
    <3>1. Head(x) = x[1]
      BY <1>5, <2>4
    <3> QED BY <2>1, <2>4, <3>1 DEF LoneQuad
  <2>6. ParseIP(x) = V4(x[1].value)
    BY <1>5, <2>5, LoneQuadParses
  <2> QED BY <1>4, <2>1, <2>4, <2>6
<1>12. ASSUME ip = WithPort(e) PROVE QuadWritten(e, ip)
  <2>1. validPort(p) /\ ip = ParseIP(x)
    BY <1>4, <1>12
  <2>2. Len(p) = 1 /\ IsPort(p[1])
    BY <1>7, <2>1
  <2>3. \A i, j \in 1..Len(x) : x[i] = Colon /\ x[j] = Colon => i = j
    <3> SUFFICES ASSUME NEW i \in 1..Len(x), x[i] = Colon PROVE FALSE
      OBVIOUS
    <3>1. x[i] = e[i] /\ i \in 1..len /\ i # c
      BY <1>8, <1>9
    <3> QED BY <1>2, <3>1
  <2>4. LoneQuad(x)
    BY <1>5, <2>1, <2>3, ParseColons
  <2>5. Len(x) = 1 /\ Head(x).kind = "quad"
    BY <2>4 DEF LoneQuad
  <2>6. c = 2 /\ len = 3
    <3>1. c - 1 = 1 /\ len - c = 1
      BY <1>8, <2>2, <2>5, Zenon
    <3>2. c \in Nat
      BY <1>1, <1>2
    <3> QED BY <1>1, <3>1, <3>2
  <2>7. Head(x) = x[1]
    BY <1>5, <2>5
  <2>8. x[1] = e[1] /\ p[1] = e[3]
    BY <1>10, <2>6
  <2>9. ip = V4(e[1].value)
    BY <1>5, <2>1, <2>4, <2>8, LoneQuadParses
  <2>10. e[1].kind = "quad" /\ e[2] = Colon /\ IsPort(e[3])
    BY <1>2, <2>2, <2>5, <2>6, <2>7, <2>8
  <2> QED BY <2>6, <2>9, <2>10 DEF QuadWritten, len
<1> QED BY <1>11, <1>12

\* An entry in one of the documented shapes is read, any other is not.
LEMMA EntryIsRead ==
  ASSUME NEW entry \in Seq(Token), NEW ip, ip # NoIP
  PROVE  ip = parseEntry(entry) <=> ip \in Written(entry)
<1> DEFINE e == Trimmed(entry)
           len == Len(e)
           One == Cardinality(Places(e, Colon)) = 1
           Bracket == \E k \in 3..len : Closes(e, k) /\ ip = ParseIP(Host(e, k))
<1>1. e \in Seq(Token)
  BY TrimmedType
<1>2. parseEntry(entry) = CASE e # <<>> /\ Head(e) = Open -> Bracketed(e)
                            [] One /\ Head(e) # Open -> WithPort(e)
                            [] OTHER -> ParseIP(e)
  BY Zenon DEF parseEntry
<1>3. ip \in Written(entry) <=> ip = ParseIP(e) \/ QuadWritten(e, ip) \/ Bracket
  BY <1>1, WrittenAs
<1> HIDE DEF e
<1>4. len \in Nat /\ DOMAIN e = 1..len /\ (e # <<>> => Head(e) = e[1] /\ 1 \in 1..len)
  BY <1>1
<1>5. e = <<>> <=> len = 0
  BY <1>1
<1>6. Places(e, Colon) = {i \in 1..len : e[i] = Colon}
  BY <1>4 DEF Places
<1>7. One <=> \E c : Places(e, Colon) = {c}
  <2>1. IsFiniteSet(Places(e, Colon))
    <3>1. Places(e, Colon) \subseteq 1..len /\ IsFiniteSet(1..len)
      BY <1>4, <1>6, FS_Interval
    <3> QED BY <3>1, FS_Subset
  <2> QED BY <2>1, FS_Singleton
<1> HIDE DEF len, One, Bracket
<1>8. Colon.kind = ":" /\ Open.kind = "["
  BY DEF Colon, Open, Tok
<1>9. Bracket => e # <<>> /\ e[1] = Open
  <2>1. Bracket => \E k \in 3..len : e[1] = Open
    BY DEF Bracket, Closes
  <2>2. (\E k \in 3..len : e[1] = Open) => len # 0
    BY <1>4
  <2> QED BY <1>5, <2>1, <2>2
<1>10. QuadWritten(e, ip) => e # <<>> /\ e[1] # Open /\ \E c : Places(e, Colon) = {c}
  <2> SUFFICES ASSUME QuadWritten(e, ip)
               PROVE  e # <<>> /\ e[1] # Open /\ \E c : Places(e, Colon) = {c}
    OBVIOUS
  <2>1. len = 3 /\ e[1].kind = "quad" /\ e[2] = Colon /\ e[3].kind = "digits"
    BY DEF QuadWritten, IsPort, len
  <2>2. e # <<>> /\ e[1] # Open /\ e[1] # Colon /\ e[3] # Colon
    <3>1. len # 0
      BY <2>1
    <3>2. e[1] # Open /\ e[1] # Colon /\ e[3] # Colon
      BY <1>8, <2>1
    <3> QED BY <1>5, <3>1, <3>2
  <2>3. \A i \in 1..len : i = 1 \/ i = 2 \/ i = 3
    BY <2>1
  <2>4. 2 \in 1..len
    BY <2>1
  <2>5. Places(e, Colon) = {2}
    BY <1>6, <2>1, <2>2, <2>3, <2>4
  <2> QED BY <2>2, <2>5
<1>11. CASE e # <<>> /\ e[1] = Open
  <2>1. ParseIP(e) = NoIP
    <3> SUFFICES ASSUME ParseIP(e) # NoIP PROVE FALSE
      OBVIOUS
    <3>1. Plain(e[1])
      BY <1>1, <1>4, <1>11, ParsePlain DEF len
    <3> QED BY <1>11, <3>1, Brackets
  <2>2. ip = Bracketed(e) <=> Bracket
    BY <1>1, <1>11, BracketedIs DEF Bracket, len
  <2>3. parseEntry(entry) = Bracketed(e)
    BY <1>2, <1>4, <1>11
  <2> QED BY <1>3, <1>10, <1>11, <2>1, <2>2, <2>3
<1>12. CASE ~(e # <<>> /\ e[1] = Open) /\ One
  <2>1. PICK c : Places(e, Colon) = {c}
    BY <1>7, <1>12
  <2>2. c \in 1..len /\ e[c] = Colon
    BY <1>6, <2>1
  <2>3. e # <<>>
    BY <1>4, <1>5, <2>2
  <2>4. ParseIP(e) = NoIP
    <3> SUFFICES ASSUME ParseIP(e) # NoIP PROVE FALSE
      OBVIOUS
    <3>1. \A i, j \in 1..len : e[i] = Colon /\ e[j] = Colon => i = j
      BY <1>6, <2>1
    <3>2. LoneQuad(e)
      BY <1>1, <3>1, ParseColons DEF len
    <3>3. len = 1 /\ e[1].kind = "quad"
      BY <1>4, <2>3, <3>2 DEF LoneQuad, len
    <3>4. c = 1
      BY <2>2, <3>3
    <3> QED BY <1>8, <2>2, <3>3, <3>4
  <2>5. ip = WithPort(e) <=> QuadWritten(e, ip)
    BY <1>1, <2>1, WithPortIs
  <2>6. parseEntry(entry) = WithPort(e)
    BY <1>2, <1>4, <1>12, <2>3
  <2> QED BY <1>3, <1>9, <1>12, <2>3, <2>4, <2>5, <2>6
<1>13. CASE ~(e # <<>> /\ e[1] = Open) /\ ~One
  <2>1. parseEntry(entry) = ParseIP(e)
    BY <1>2, <1>4, <1>13
  <2> QED BY <1>3, <1>7, <1>9, <1>10, <1>13, <2>1
<1> QED BY <1>11, <1>12, <1>13

\* What RealIP may know on its way through the entries, and one entry of it.
Entries == Seq(Token)
Readout == [seen : Nat, ip : {NoIP} \cup {parseEntry(t) : t \in Entries}]
Visited(entry, s, trusted) ==
  CASE s.seen = trusted -> s
    [] s.seen + 1 < trusted -> [s EXCEPT !.seen = @ + 1]
    [] OTHER -> [seen |-> trusted, ip |-> parseEntry(entry)]

LEMMA VisitedType ==
  ASSUME NEW entry \in Entries, NEW s \in Readout, NEW trusted \in Nat
  PROVE  Visited(entry, s, trusted) \in Readout
<1>1. s.seen \in Nat /\ s.seen + 1 \in Nat
  BY DEF Readout
<1>2. CASE s.seen = trusted
  <2>1. ~(s.seen + 1 < trusted)
    BY <1>1, <1>2
  <2> QED BY <1>2, <2>1 DEF Visited
<1>3. CASE s.seen # trusted /\ s.seen + 1 < trusted
  <2>1. Visited(entry, s, trusted) = [s EXCEPT !.seen = s.seen + 1]
    BY <1>3 DEF Visited
  <2> QED BY <1>1, <2>1 DEF Readout
<1>4. CASE s.seen # trusted /\ ~(s.seen + 1 < trusted)
  <2>1. Visited(entry, s, trusted) = [seen |-> trusted, ip |-> parseEntry(entry)]
    BY <1>4 DEF Visited
  <2> QED BY <2>1 DEF Readout
<1> QED BY <1>2, <1>3, <1>4

\* The walk through one line, from its end.
LineRead(line, s, trusted) == FoldRight(LAMBDA entry, r : Visited(entry, r, trusted), line, s)
LineLoop(h, line, s, trusted, N) ==
  h[N + 1] = s /\ \A k \in 1..N : h[k] = Visited(line[k], h[k + 1], trusted)

LEMMA LineLoopIs ==
  ASSUME NEW line \in Seq(Entries), NEW s \in Readout, NEW trusted \in Nat
  PROVE  \E h : LineLoop(h, line, s, trusted, Len(line)) /\ LineRead(line, s, trusted) = h[1]
<1> DEFINE N == Len(line)
           X == Readout
           Op(entry, r) == Visited(entry, r, trusted)
           g == [i \in 1..N |-> [x \in X |-> Op(line[i], x)]]
           Body(f) == [u \in SUBSET (1..N) |->
                         IF u = {} THEN s ELSE Op(line[Min(u)], f[u \ {Min(u)}])]
           it == CHOOSE f : f = Body(f)
<1>1. N \in Nat /\ DOMAIN line = 1..N /\ \A i \in 1..N : line[i] \in Entries
  OBVIOUS
<1>2. LineRead(line, s, trusted) = it[1..N]
  BY <1>1 DEF LineRead, FoldRight, MapThenFoldSet
<1>3. g \in [1..N -> [X -> X]]
  <2>1. \A i \in 1..N : \A x \in X : Op(line[i], x) \in X
    BY <1>1, VisitedType
  <2> HIDE DEF Op
  <2> QED BY <2>1
<1>4. PICK f : Folds(f, N, X, s, g, Least(N))
  <2> HIDE DEF N, g
  <2> QED BY <1>1, <1>3, RightFoldExists, Zenon
<1>5. f = Body(f)
  <2> SUFFICES ASSUME NEW u \in SUBSET (1..N)
               PROVE  f[u] = IF u = {} THEN s ELSE Op(line[Min(u)], f[u \ {Min(u)}])
    BY <1>4 DEF Folds
  <2> DEFINE w == u \ {Min(u)}
  <2>1. CASE u # {}
    <3>1. Min(u) \in 1..N /\ w \in SUBSET (1..N) /\ Least(N)[u] = Min(u)
      BY <1>1, <2>1, MinMember DEF Least
    <3>2. f[w] \in X /\ f[u] = g[Min(u)][f[w]]
      <4> HIDE DEF X, g
      <4> QED BY <1>4, <2>1, <3>1 DEF Folds
    <3> HIDE DEF Op, X, w
    <3>3. f[u] = Op(line[Min(u)], f[w])
      BY <3>1, <3>2
    <3> QED BY <2>1, <3>3 DEF w
  <2>2. CASE u = {}
    BY <1>4, <2>2 DEF Folds
  <2> QED BY <2>1, <2>2
<1>6. it = Body(it)
  <2> HIDE DEF Body
  <2> QED BY <1>5, Zenon
<1> HIDE DEF it
<1>7. it[(N + 1)..N] = s
  <2>1. (N + 1)..N = {}
    BY <1>1
  <2>2. {} \in SUBSET (1..N)
    OBVIOUS
  <2> HIDE DEF Op
  <2>3. it[{}] = s
    BY <1>6, <2>2
  <2> QED BY <2>1, <2>3
<1>8. ASSUME NEW k \in 1..N PROVE it[k..N] = Op(line[k], it[(k + 1)..N])
  <2> HIDE DEF Op, N
  <2>1. /\ k..N \in SUBSET (1..N) /\ k..N # {} /\ Min(k..N) = k
        /\ (k..N) \ {k} = (k + 1)..N
    BY <1>1, RightSets
  <2>2. it[k..N] = IF k..N = {} THEN s ELSE Op(line[Min(k..N)], it[(k..N) \ {Min(k..N)}])
    BY <1>6, <2>1
  <2> QED BY <2>1, <2>2
<1> DEFINE h == [k \in 1..(N + 1) |-> it[k..N]]
<1>9. /\ h[N + 1] = s /\ \A k \in 1..N : h[k] = Op(line[k], h[k + 1])
      /\ h[1] = it[1..N]
  <2> HIDE DEF Op, N
  <2>1. \A k \in 1..N : k \in 1..(N + 1) /\ k + 1 \in 1..(N + 1)
    BY <1>1
  <2>2. N + 1 \in 1..(N + 1) /\ 1 \in 1..(N + 1)
    BY <1>1
  <2> QED BY <1>7, <1>8, <2>1, <2>2
<1> HIDE DEF h
<1>10. LineLoop(h, line, s, trusted, N)
  BY <1>9 DEF LineLoop
<1> QED BY <1>2, <1>9, <1>10

\* What is known when m of the entries E were met.
After(E, trusted, m) ==
  IF m < trusted THEN [seen |-> m, ip |-> NoIP]
  ELSE [seen |-> trusted, ip |-> parseEntry(E[Len(E) + 1 - trusted])]

LEMMA VisitStep ==
  ASSUME NEW E \in Seq(Entries), NEW T, T = Len(E), NEW trusted \in Nat \ {0}, NEW m \in Nat, m < T
  PROVE  Visited(E[T - m], After(E, trusted, m), trusted) = After(E, trusted, m + 1)
<1>1. T \in Nat
  OBVIOUS
<1> DEFINE s == After(E, trusted, m)
           entry == E[T - m]
           v == parseEntry(E[Len(E) + 1 - trusted])
<1>2. Visited(entry, s, trusted) = CASE s.seen = trusted -> s
                                  [] s.seen + 1 < trusted -> [s EXCEPT !.seen = s.seen + 1]
                                  [] OTHER -> [seen |-> trusted, ip |-> parseEntry(entry)]
  BY DEF Visited
<1>3. /\ m < trusted => s = [seen |-> m, ip |-> NoIP]
      /\ ~(m < trusted) => s = [seen |-> trusted, ip |-> v]
      /\ m + 1 < trusted => After(E, trusted, m + 1) = [seen |-> m + 1, ip |-> NoIP]
      /\ ~(m + 1 < trusted) => After(E, trusted, m + 1) = [seen |-> trusted, ip |-> v]
  BY DEF After
<1>4. m + 1 = trusted => parseEntry(entry) = v
  <2>1. m + 1 = trusted => T - m = T + 1 - trusted
    BY <1>1
  <2> QED BY <2>1
<1> HIDE DEF s, entry, v
<1>5. CASE ~(m < trusted)
  <2>1. /\ s.seen = trusted /\ s = [seen |-> trusted, ip |-> v]
        /\ ~(m + 1 < trusted) /\ ~(s.seen + 1 < trusted)
    BY <1>3, <1>5
  <2> QED BY <1>2, <1>3, <2>1 DEF s, entry
<1>6. CASE m + 1 < trusted
  <2>1. m < trusted /\ m # trusted
    BY <1>6
  <2>2. s.seen = m /\ s = [seen |-> m, ip |-> NoIP]
    BY <1>3, <2>1
  <2>3. [s EXCEPT !.seen = s.seen + 1] = [seen |-> m + 1, ip |-> NoIP]
    BY <2>2
  <2>4. Visited(entry, s, trusted) = [s EXCEPT !.seen = s.seen + 1]
    BY <1>2, <1>6, <2>1, <2>2
  <2> QED BY <1>3, <1>6, <2>3, <2>4 DEF s, entry
<1>7. CASE m < trusted /\ ~(m + 1 < trusted)
  <2>1. m + 1 = trusted /\ m # trusted
    BY <1>7
  <2>2. s.seen = m
    BY <1>3, <1>7
  <2>3. Visited(entry, s, trusted) = [seen |-> trusted, ip |-> parseEntry(entry)]
    BY <1>2, <1>7, <2>1, <2>2
  <2> QED BY <1>3, <1>4, <1>7, <2>1, <2>3 DEF s, entry
<1>8. ~(m < trusted) \/ m + 1 < trusted \/ (m < trusted /\ ~(m + 1 < trusted))
  OBVIOUS
<1> QED BY <1>5, <1>6, <1>7, <1>8

\* The K entries of line stand in E before its last m.
Aligned(E, T, line, K, m) ==
  /\ T = Len(E) /\ K = Len(line) /\ m + K <= T
  /\ \A i \in 1..K : E[T - m - K + i] = line[i]

LEMMA LineStep ==
  ASSUME NEW E \in Seq(Entries), NEW T, NEW trusted \in Nat \ {0},
         NEW line \in Seq(Entries), NEW K, NEW m \in Nat, Aligned(E, T, line, K, m)
  PROVE  LineRead(line, After(E, trusted, m), trusted) = After(E, trusted, m + K)
<1>0. /\ T = Len(E) /\ K = Len(line) /\ m + K <= T
      /\ \A i \in 1..K : E[T - m - K + i] = line[i]
  BY DEF Aligned
<1>1. T \in Nat /\ K \in Nat /\ \A i \in 1..T : E[i] \in Entries
  BY <1>0
<1>2. After(E, trusted, m) \in Readout
  <2>1. CASE m < trusted
    BY <2>1 DEF After, Readout
  <2>2. CASE ~(m < trusted)
    <3>1. Len(E) + 1 - trusted \in 1..T
      BY <1>0, <1>1, <2>2
    <3>2. parseEntry(E[Len(E) + 1 - trusted]) \in {parseEntry(t) : t \in Entries}
      BY <1>1, <3>1
    <3> QED BY <2>2, <3>2 DEF After, Readout
  <2> QED BY <2>1, <2>2
<1>3. PICK h : /\ LineLoop(h, line, After(E, trusted, m), trusted, K)
               /\ LineRead(line, After(E, trusted, m), trusted) = h[1]
  BY <1>0, <1>2, LineLoopIs
<1> DEFINE S == {j \in Nat : j <= K => h[K + 1 - j] = After(E, trusted, m + j)}
<1>4. 0 \in S
  <2>1. h[K + 1] = After(E, trusted, m) /\ K + 1 - 0 = K + 1 /\ m + 0 = m
    BY <1>1, <1>3 DEF LineLoop
  <2> QED BY <2>1
<1>5. ASSUME NEW j \in Nat, j \in S PROVE j + 1 \in S
  <2> SUFFICES ASSUME j + 1 <= K PROVE h[K + 1 - (j + 1)] = After(E, trusted, m + (j + 1))
    OBVIOUS
  <2> DEFINE k == K - j
  <2>1. k \in 1..K /\ k + 1 = K + 1 - j /\ K + 1 - (j + 1) = k /\ j <= K
    BY <1>1
  <2>2. /\ m + j \in Nat /\ m + j < T /\ T - m - K + k = T - (m + j)
        /\ (m + j) + 1 = m + (j + 1)
    BY <1>0, <1>1
  <2> HIDE DEF k
  <2>3. h[k] = Visited(line[k], h[k + 1], trusted)
    BY <1>3, <2>1 DEF LineLoop
  <2>4. h[k + 1] = After(E, trusted, m + j)
    BY <1>5, <2>1
  <2>5. line[k] = E[T - (m + j)]
    BY <1>0, <2>1, <2>2
  <2>6. Visited(E[T - (m + j)], After(E, trusted, m + j), trusted) = After(E, trusted, (m + j) + 1)
    BY <1>0, <2>2, VisitStep
  <2> QED BY <2>1, <2>2, <2>3, <2>4, <2>5, <2>6
<1>6. K \in S
  <2> HIDE DEF S
  <2> QED BY <1>1, <1>4, <1>5, SetInduction
<1>7. h[1] = After(E, trusted, m + K)
  <2>1. K + 1 - K = 1
    BY <1>1
  <2> QED BY <1>1, <1>6, <2>1
<1> QED BY <1>3, <1>7

LEMMA LineType ==
  ASSUME NEW line \in Seq(Entries), NEW s \in Readout, NEW trusted \in Nat
  PROVE  LineRead(line, s, trusted) \in Readout
<1> DEFINE K == Len(line)
<1>1. K \in Nat /\ \A i \in 1..K : line[i] \in Entries
  OBVIOUS
<1>2. PICK h : LineLoop(h, line, s, trusted, K) /\ LineRead(line, s, trusted) = h[1]
  BY LineLoopIs
<1> HIDE DEF K
<1> DEFINE S == {j \in Nat : j <= K => h[K + 1 - j] \in Readout}
<1>3. 0 \in S
  <2>1. h[K + 1] = s /\ K + 1 - 0 = K + 1
    BY <1>1, <1>2 DEF LineLoop
  <2> QED BY <2>1
<1>4. ASSUME NEW j \in Nat, j \in S PROVE j + 1 \in S
  <2> SUFFICES ASSUME j + 1 <= K PROVE h[K + 1 - (j + 1)] \in Readout
    OBVIOUS
  <2> DEFINE k == K - j
  <2>1. k \in 1..K /\ k + 1 = K + 1 - j /\ K + 1 - (j + 1) = k /\ j <= K
    BY <1>1
  <2> HIDE DEF k
  <2>2. h[k] = Visited(line[k], h[k + 1], trusted)
    BY <1>2, <2>1 DEF LineLoop
  <2>3. h[k + 1] \in Readout
    BY <1>4, <2>1
  <2> QED BY <1>1, <2>1, <2>2, <2>3, VisitedType
<1>5. K \in S
  <2> HIDE DEF S
  <2> QED BY <1>1, <1>3, <1>4, SetInduction
<1>6. K + 1 - K = 1
  BY <1>1
<1> QED BY <1>1, <1>2, <1>5, <1>6

\* The entries of a line that are met: not the first when it is empty.
MetOf(line) == IF Head(line) = <<>> THEN Tail(line) ELSE line
Start == [seen |-> 0, ip |-> NoIP]
HeaderLoop(h, lines, trusted, N) ==
  h[N + 1] = Start /\ \A k \in 1..N : h[k] = LineRead(MetOf(lines[k]), h[k + 1], trusted)

LEMMA MetType ==
  ASSUME NEW line \in Seq(Entries), line # <<>> PROVE MetOf(line) \in Seq(Entries)
  BY DEF MetOf

LEMMA HeaderLoopIs ==
  ASSUME NEW lines \in Seq(Seq(Entries)), \A i \in DOMAIN lines : lines[i] # <<>>,
         NEW trusted \in Nat
  PROVE  \E h : HeaderLoop(h, lines, trusted, Len(lines)) /\ resolve(lines, trusted) = h[1].ip
<1> DEFINE N == Len(lines)
           X == Readout
           s == [seen |-> 0, ip |-> NoIP]
           Op(line, r) == LineRead(MetOf(line), r, trusted)
           g == [i \in 1..N |-> [x \in X |-> Op(lines[i], x)]]
           Body(f) == [u \in SUBSET (1..N) |->
                         IF u = {} THEN s ELSE Op(lines[Min(u)], f[u \ {Min(u)}])]
           it == CHOOSE f : f = Body(f)
<1>1. N \in Nat /\ DOMAIN lines = 1..N
      /\ \A i \in 1..N : lines[i] \in Seq(Entries) /\ lines[i] # <<>>
  OBVIOUS
<1>2. resolve(lines, trusted) = it[1..N].ip
  BY <1>1, Zenon DEF resolve, LineRead, Visited, MetOf, FoldRight, MapThenFoldSet
<1>3. g \in [1..N -> [X -> X]] /\ s \in X
  <2>1. \A i \in 1..N : \A x \in X : Op(lines[i], x) \in X
    BY <1>1, LineType, MetType
  <2>2. s \in X
    BY DEF Readout
  <2> HIDE DEF Op, X
  <2> QED BY <2>1, <2>2
<1>4. PICK f : Folds(f, N, X, s, g, Least(N))
  <2> HIDE DEF N, g, s
  <2> QED BY <1>1, <1>3, RightFoldExists, Zenon
<1>5. f = Body(f)
  <2> SUFFICES ASSUME NEW u \in SUBSET (1..N)
               PROVE  f[u] = IF u = {} THEN s ELSE Op(lines[Min(u)], f[u \ {Min(u)}])
    BY <1>4 DEF Folds
  <2> DEFINE w == u \ {Min(u)}
  <2>1. CASE u # {}
    <3>1. Min(u) \in 1..N /\ w \in SUBSET (1..N) /\ Least(N)[u] = Min(u)
      BY <1>1, <2>1, MinMember DEF Least
    <3>2. f[w] \in X /\ f[u] = g[Min(u)][f[w]]
      <4> HIDE DEF X, g
      <4> QED BY <1>4, <2>1, <3>1 DEF Folds
    <3> HIDE DEF Op, X, w
    <3>3. f[u] = Op(lines[Min(u)], f[w])
      BY <3>1, <3>2
    <3> QED BY <2>1, <3>3 DEF w
  <2>2. CASE u = {}
    BY <1>4, <2>2 DEF Folds
  <2> QED BY <2>1, <2>2
<1>6. it = Body(it)
  <2> HIDE DEF Body
  <2> QED BY <1>5, Zenon
<1> HIDE DEF it
<1>7. it[(N + 1)..N] = s
  <2>1. (N + 1)..N = {}
    BY <1>1
  <2>2. {} \in SUBSET (1..N)
    OBVIOUS
  <2> HIDE DEF Op
  <2>3. it[{}] = s
    BY <1>6, <2>2
  <2> QED BY <2>1, <2>3
<1>8. ASSUME NEW k \in 1..N PROVE it[k..N] = Op(lines[k], it[(k + 1)..N])
  <2> HIDE DEF Op, N
  <2>1. /\ k..N \in SUBSET (1..N) /\ k..N # {} /\ Min(k..N) = k
        /\ (k..N) \ {k} = (k + 1)..N
    BY <1>1, RightSets
  <2>2. it[k..N] = IF k..N = {} THEN s ELSE Op(lines[Min(k..N)], it[(k..N) \ {Min(k..N)}])
    BY <1>6, <2>1
  <2> QED BY <2>1, <2>2
<1> DEFINE h == [k \in 1..(N + 1) |-> it[k..N]]
<1>9. /\ h[N + 1] = s /\ \A k \in 1..N : h[k] = Op(lines[k], h[k + 1])
      /\ h[1] = it[1..N]
  <2> HIDE DEF Op, N
  <2>1. \A k \in 1..N : k \in 1..(N + 1) /\ k + 1 \in 1..(N + 1)
    BY <1>1
  <2>2. N + 1 \in 1..(N + 1) /\ 1 \in 1..(N + 1)
    BY <1>1
  <2> QED BY <1>7, <1>8, <2>1, <2>2
<1> HIDE DEF h
<1>10. HeaderLoop(h, lines, trusted, N)
  BY <1>9 DEF HeaderLoop, Start
<1> QED BY <1>2, <1>9, <1>10

\* Where the sequences ls stand in s, which is one after the other.
Placed(off, ls, s, N) ==
  /\ off \in [0..N -> Nat] /\ off[0] = 0
  /\ \A i \in 1..N : off[i] = off[i - 1] + Len(ls[i])
  /\ \A i \in 0..N : off[i] <= off[N]
  /\ \A i \in 1..N : \A p \in 1..Len(ls[i]) : s[off[i - 1] + p] = ls[i][p]

LEMMA Appended ==
  ASSUME NEW S, NEW x \in Seq(S), NEW y \in Seq(S)
  PROVE  /\ x \o y \in Seq(S) /\ Len(x \o y) = Len(x) + Len(y)
         /\ \A q \in 1..Len(x) : (x \o y)[q] = x[q]
         /\ \A p \in 1..Len(y) : (x \o y)[Len(x) + p] = y[p]
  OBVIOUS

LEMMA NoneOrZero ==
  (\A i \in 0..0 : i = 0) /\ (\A i \in 1..0 : FALSE)
  OBVIOUS

LEMMA FlatPlaces ==
  ASSUME NEW S, NEW ls \in Seq(Seq(S))
  PROVE  /\ FlattenSeq(ls) \in Seq(S)
         /\ \E off : /\ Placed(off, ls, FlattenSeq(ls), Len(ls))
                    /\ off[Len(ls)] = Len(FlattenSeq(ls))
<1> DEFINE N == Len(ls)
<1>1. N \in Nat /\ \A i \in 1..N : ls[i] \in Seq(S)
  OBVIOUS
<1>2. PICK f \in [0..N -> Seq(S)] :
        /\ f[0] = <<>> /\ \A i \in 1..N : f[i] = f[i - 1] \o ls[i]
        /\ FlattenSeq(ls) = f[N]
  BY Flattening
<1> HIDE DEF N
<1> DEFINE off == [i \in 0..N |-> Len(f[i])]
<1>3. off \in [0..N -> Nat]
  <2>1. \A i \in 0..N : f[i] \in Seq(S)
    OBVIOUS
  <2>2. \A i \in 0..N : Len(f[i]) \in Nat
    BY <2>1
  <2> QED BY <2>2
<1>4. \A i \in 0..N : off[i] = Len(f[i])
  OBVIOUS
<1> HIDE DEF off
<1>5. off[0] = 0
  <2>1. 0 \in 0..N
    BY <1>1
  <2> QED BY <1>2, <1>4, <2>1
<1> DEFINE Right(k) ==
             /\ \A i \in 0..k : off[i] <= off[k]
             /\ \A i \in 1..k : \A p \in 1..Len(ls[i]) :
                  /\ off[i - 1] + p \in 1..off[k] /\ f[k][off[i - 1] + p] = ls[i][p]
           R == {k \in Nat : k <= N => Right(k)}
<1>6. ASSUME NEW i \in 1..N PROVE off[i] = off[i - 1] + Len(ls[i])
  <2>1. i \in 0..N /\ i - 1 \in 0..N
    BY <1>1
  <2>2. f[i - 1] \in Seq(S) /\ f[i] = f[i - 1] \o ls[i] /\ ls[i] \in Seq(S)
    BY <1>1, <1>2, <2>1
  <2>3. Len(f[i]) = Len(f[i - 1]) + Len(ls[i])
    BY <2>2
  <2> QED BY <1>4, <2>1, <2>3
<1>7. Right(0)
  <2>1. 0 <= 0
    OBVIOUS
  <2> QED BY <1>5, <2>1, NoneOrZero, Zenon
<1>8. ASSUME NEW k \in Nat, k + 1 <= N, Right(k) PROVE Right(k + 1)
  <2>1. k + 1 \in 1..N /\ (k + 1) - 1 = k /\ k \in 0..N /\ k + 1 \in 0..N
    BY <1>1, <1>8
  <2>2. /\ f[k] \in Seq(S) /\ ls[k + 1] \in Seq(S) /\ f[k + 1] = f[k] \o ls[k + 1]
        /\ off[k] = Len(f[k])
    BY <1>1, <1>2, <1>4, <2>1
  <2>3. /\ \A q \in 1..off[k] : f[k + 1][q] = f[k][q]
        /\ \A p \in 1..Len(ls[k + 1]) : f[k + 1][off[k] + p] = ls[k + 1][p]
    <3> DEFINE x == f[k]
               y == ls[k + 1]
    <3>1. x \in Seq(S) /\ y \in Seq(S) /\ f[k + 1] = x \o y /\ off[k] = Len(x)
      BY <2>2
    <3> HIDE DEF x, y
    <3>2. /\ \A q \in 1..Len(x) : (x \o y)[q] = x[q]
          /\ \A p \in 1..Len(y) : (x \o y)[Len(x) + p] = y[p]
      BY <3>1, Appended
    <3> QED BY <3>1, <3>2, Zenon DEF x, y
  <2>4. off[k] \in Nat /\ Len(ls[k + 1]) \in Nat /\ off[k + 1] = off[k] + Len(ls[k + 1])
    <3>1. off[k] \in Nat
      BY <1>3, <2>1
    <3>2. Len(ls[k + 1]) \in Nat
      BY <2>2
    <3>3. off[k + 1] = off[(k + 1) - 1] + Len(ls[k + 1])
      BY <1>6, <2>1, Zenon
    <3>4. off[(k + 1) - 1] = off[k]
      BY <2>1, Zenon
    <3> QED BY <3>1, <3>2, <3>3, <3>4, Zenon
  <2> DEFINE a == off[k]
             b == off[k + 1]
             l == Len(ls[k + 1])
  <2>5. a \in Nat /\ l \in Nat /\ b = a + l
    BY <2>4
  <2> HIDE DEF a, b, l
  <2>6. \A i \in 0..(k + 1) : off[i] <= b
    <3> SUFFICES ASSUME NEW i \in 0..(k + 1) PROVE off[i] <= b
      OBVIOUS
    <3>1. CASE i = k + 1
      BY <2>5, <3>1 DEF b
    <3>2. CASE i # k + 1
      <4>1. i \in 0..k /\ i \in 0..N
        BY <1>1, <1>8, <3>2
      <4>2. off[i] <= a /\ off[i] \in Nat
        BY <1>3, <1>8, <4>1 DEF a
      <4> QED BY <2>5, <4>2
    <3> QED BY <3>1, <3>2
  <2>7. ASSUME NEW i \in 1..(k + 1), NEW p \in 1..Len(ls[i])
        PROVE  off[i - 1] + p \in 1..b /\ f[k + 1][off[i - 1] + p] = ls[i][p]
    <3>1. CASE i = k + 1
      <4>1. i - 1 = k /\ p \in 1..l
        BY <2>1, <3>1 DEF l
      <4>2. a + p \in 1..b
        BY <2>5, <4>1
      <4> QED BY <2>3, <3>1, <4>1, <4>2 DEF a, l
    <3>2. CASE i # k + 1
      <4>1. i \in 1..k
        BY <3>2
      <4>2. off[i - 1] + p \in 1..a /\ f[k][off[i - 1] + p] = ls[i][p]
        BY <1>8, <4>1 DEF a
      <4>3. \A q \in 1..a : q \in 1..b
        BY <2>5
      <4> QED BY <2>3, <4>2, <4>3 DEF a
    <3> QED BY <3>1, <3>2
  <2> QED BY <2>6, <2>7 DEF b
<1>9. Right(N)
  <2> HIDE DEF Right
  <2>1. 0 \in R
    BY <1>7
  <2>2. ASSUME NEW k \in Nat, k \in R PROVE k + 1 \in R
    BY <1>1, <1>8, <2>2
  <2>3. N \in R
    <3> HIDE DEF R
    <3> QED BY <1>1, <2>1, <2>2, SetInduction
  <2> QED BY <1>1, <2>3
<1>10. N \in 0..N /\ f[N] \in Seq(S)
  BY <1>1
<1>11. off[N] = Len(FlattenSeq(ls))
  BY <1>2, <1>4, <1>10
<1>12. Placed(off, ls, FlattenSeq(ls), N)
  BY <1>2, <1>3, <1>5, <1>6, <1>9 DEF Placed
<1> QED BY <1>2, <1>10, <1>11, <1>12 DEF N

\* RealIP reads the address of the entry hops from the right, over the entries
\* it meets of every line.
LEMMA ResolveAfter ==
  ASSUME NEW lines \in Seq(Seq(Entries)), \A i \in DOMAIN lines : lines[i] # <<>>,
         NEW trusted \in Nat \ {0}, NEW E \in Seq(Entries), NEW off,
         Placed(off, [i \in DOMAIN lines |-> MetOf(lines[i])], E, Len(lines)),
         off[Len(lines)] = Len(E)
  PROVE  resolve(lines, trusted) = After(E, trusted, Len(E)).ip
<1> DEFINE L == [i \in DOMAIN lines |-> MetOf(lines[i])]
           N == Len(lines)
           T == Len(E)
<1>1. N \in Nat /\ DOMAIN lines = 1..N /\ DOMAIN L = 1..N
      /\ \A i \in 1..N : lines[i] \in Seq(Entries) /\ lines[i] # <<>> /\ L[i] = MetOf(lines[i])
  OBVIOUS
<1>2. \A i \in 1..N : L[i] \in Seq(Entries)
  BY <1>1, MetType
<1>4. PICK h : HeaderLoop(h, lines, trusted, N) /\ resolve(lines, trusted) = h[1].ip
  BY HeaderLoopIs
<1>6. E \in Seq(Entries)
  OBVIOUS
<1>7. Placed(off, L, E, N) /\ off[N] = T
  OBVIOUS
<1> HIDE DEF L, N
<1>8. T \in Nat
  BY <1>6
<1> HIDE DEF T
<1> DEFINE R == {j \in Nat : j <= N => h[N + 1 - j] = After(E, trusted, T - off[N - j])}
<1>9. 0 \in R
  <2>1. N + 1 - 0 = N + 1 /\ N - 0 = N /\ T - T = 0
    BY <1>1, <1>8
  <2>2. h[N + 1] = [seen |-> 0, ip |-> NoIP]
    BY <1>4 DEF HeaderLoop, Start
  <2>3. After(E, trusted, 0) = [seen |-> 0, ip |-> NoIP]
    BY DEF After
  <2> QED BY <1>7, <2>1, <2>2, <2>3
<1>10. ASSUME NEW j \in Nat, j \in R PROVE j + 1 \in R
  <2> SUFFICES ASSUME j + 1 <= N
               PROVE  h[N + 1 - (j + 1)] = After(E, trusted, T - off[N - (j + 1)])
    OBVIOUS
  <2> DEFINE k == N - j
  <2>1. /\ k \in 1..N /\ k + 1 = N + 1 - j /\ N + 1 - (j + 1) = k /\ N - (j + 1) = k - 1
        /\ j <= N /\ k \in 0..N /\ k - 1 \in 0..N /\ N - j = k
    BY <1>1
  <2> HIDE DEF k
  <2>2. h[k] = LineRead(L[k], h[k + 1], trusted)
    BY <1>1, <1>4, <2>1 DEF HeaderLoop
  <2> DEFINE a == off[k - 1]
             b == off[k]
             K == Len(L[k])
             m == T - b
  <2>3. a \in Nat /\ b \in Nat /\ b = a + K /\ b <= T
    <3>1. off \in [0..N -> Nat]
      BY <1>7 DEF Placed
    <3>2. off[k] = off[k - 1] + Len(L[k])
      BY <1>7, <2>1, Zenon DEF Placed
    <3>3. off[k] <= T
      BY <1>7, <2>1, Zenon DEF Placed
    <3> QED BY <2>1, <3>1, <3>2, <3>3
  <2>4. K \in Nat /\ L[k] \in Seq(Entries)
    BY <1>2, <2>1
  <2>5. \A i \in 1..K : E[a + i] = L[k][i]
    BY <1>7, <2>1 DEF Placed
  <2>6. h[k + 1] = After(E, trusted, m)
    BY <1>10, <2>1
  <2> HIDE DEF a, b, K
  <2>7. m \in Nat /\ m + K <= T /\ m + K = T - a /\ T - m - K = a
    BY <1>8, <2>3, <2>4
  <2> HIDE DEF m
  <2>8. \A i \in 1..K : E[T - m - K + i] = L[k][i]
    BY <2>5, <2>7
  <2>9. LineRead(L[k], After(E, trusted, m), trusted) = After(E, trusted, m + K)
    <3> DEFINE line == L[k]
    <3>1. line \in Seq(Entries) /\ K = Len(line) /\ T = Len(E) /\ E \in Seq(Entries)
      BY <1>6, <2>4 DEF T, K
    <3>2. \A i \in 1..K : E[T - m - K + i] = line[i]
      BY <2>8
    <3>3. Aligned(E, T, line, K, m)
      BY <2>7, <3>1, <3>2 DEF Aligned
    <3> HIDE DEF line
    <3>4. LineRead(line, After(E, trusted, m), trusted) = After(E, trusted, m + K)
      <4>1. E \in Seq(Entries) /\ line \in Seq(Entries) /\ m \in Nat
        BY <2>7, <3>1
      <4> QED BY <3>3, <4>1, LineStep
    <3> QED BY <3>4 DEF line
  <2> QED BY <2>1, <2>2, <2>6, <2>7, <2>9 DEF a
<1>11. N \in R
  <2> HIDE DEF R
  <2> QED BY <1>1, <1>9, <1>10, SetInduction
<1>12. h[1] = After(E, trusted, T)
  <2>1. N + 1 - N = 1 /\ N - N = 0 /\ off[0] = 0 /\ T - 0 = T
    BY <1>1, <1>7, <1>8 DEF Placed
  <2> QED BY <1>1, <1>11, <2>1
<1> QED BY <1>4, <1>6, <1>12 DEF T

LEMMA TailFacts ==
  ASSUME NEW S, NEW s \in Seq(S), s # <<>>
  PROVE  /\ Len(s) \in Nat /\ Len(s) >= 1 /\ Head(s) = s[1]
         /\ Tail(s) \in Seq(S) /\ Len(Tail(s)) = Len(s) - 1
         /\ \A p \in 1..(Len(s) - 1) : Tail(s)[p] = s[p + 1]
  OBVIOUS

\* Where the entries resolve meets stand among all the entries, unless a line
\* after the first begins with an empty one: everywhere, or everywhere but at
\* the first place.
LEMMA MetPlaces ==
  ASSUME NEW lines \in Seq(Seq(Entries)), \A i \in DOMAIN lines : lines[i] # <<>>,
         ~SkipsEntry(lines), NEW F \in Seq(Entries), NEW off,
         Placed(off, lines, F, Len(lines)), off[Len(lines)] = Len(F)
  PROVE  LET L == [i \in DOMAIN lines |-> MetOf(lines[i])] IN
         \/ Placed(off, L, F, Len(lines))
         \/ /\ F # <<>> /\ F[1] = <<>>
            /\ \E g : Placed(g, L, Tail(F), Len(lines)) /\ g[Len(lines)] = Len(Tail(F))
<1> DEFINE N == Len(lines)
           L == [i \in DOMAIN lines |-> MetOf(lines[i])]
<1> SUFFICES \/ Placed(off, L, F, N)
             \/ /\ F # <<>> /\ F[1] = <<>>
                /\ \E g : Placed(g, L, Tail(F), N) /\ g[N] = Len(Tail(F))
  OBVIOUS
<1>1. /\ N \in Nat /\ DOMAIN lines = 1..N
      /\ \A i \in 1..N : lines[i] \in Seq(Entries) /\ lines[i] # <<>> /\ L[i] = MetOf(lines[i])
  OBVIOUS
<1>2. \A i \in 2..N : L[i] = lines[i]
  <2>1. \A i \in 2..N : Head(lines[i]) # <<>> /\ i \in 1..N
    BY <1>1 DEF SkipsEntry
  <2> QED BY <1>1, <2>1 DEF MetOf
<1>3. /\ off \in [0..N -> Nat] /\ off[0] = 0
      /\ \A i \in 1..N : off[i] = off[i - 1] + Len(lines[i])
      /\ \A i \in 0..N : off[i] <= off[N]
      /\ \A i \in 1..N : \A p \in 1..Len(lines[i]) : F[off[i - 1] + p] = lines[i][p]
      /\ off[N] = Len(F)
  BY DEF Placed
<1>6. DOMAIN L = DOMAIN lines /\ L = [i \in DOMAIN L |-> L[i]]
  OBVIOUS
<1> HIDE DEF N, L
<1>4. CASE N = 0 \/ Head(lines[1]) # <<>>
  <2>1. \A i \in 1..N : L[i] = lines[i]
    <3>1. 1 \in 1..N => Head(lines[1]) # <<>>
      BY <1>4
    <3>2. 1 \in 1..N => L[1] = lines[1]
      BY <1>1, <3>1 DEF MetOf
    <3>3. \A i \in 1..N : i = 1 \/ i \in 2..N
      BY <1>1
    <3> QED BY <1>2, <3>2, <3>3
  <2>2. L = lines
    <3>1. L = [i \in DOMAIN lines |-> lines[i]]
      BY <1>1, <1>6, <2>1
    <3> QED BY <3>1
  <2> QED BY <1>3, <2>2 DEF Placed
<1>5. CASE N # 0 /\ Head(lines[1]) = <<>>
  <2> DEFINE first == lines[1]
             K == Len(first)
             T == Tail(F)
             g == [k \in 0..N |-> IF k = 0 THEN 0 ELSE off[k] - 1]
  <2>1. 1 \in 1..N /\ 0 \in 0..N /\ N \in 1..N /\ 1 - 1 = 0 /\ \A i \in 1..N : i \in 0..N
    BY <1>1, <1>5
  <2>2. first \in Seq(Entries) /\ first # <<>> /\ L[1] = Tail(first)
    BY <1>1, <1>5, <2>1 DEF MetOf
  <2>3. /\ K \in Nat /\ K >= 1 /\ first[1] = <<>> /\ Len(L[1]) = K - 1
        /\ \A p \in 1..(K - 1) : L[1][p] = first[p + 1]
    <3>1. Head(first) = <<>>
      BY <1>5
    <3> HIDE DEF first
    <3> QED BY <2>2, <3>1, TailFacts
  <2>4. off[1] = K
    <3>1. off[1] = off[0] + K
      BY <1>3, <2>1
    <3> HIDE DEF K
    <3> QED BY <1>3, <2>3, <3>1
  <2>5. \A k \in 1..N : off[k] \in Nat /\ off[k] >= 1
    <3> DEFINE R == {j \in Nat : j < N => off[j + 1] >= 1}
    <3>1. 0 \in R
      BY <2>3, <2>4
    <3>2. ASSUME NEW j \in Nat, j \in R PROVE j + 1 \in R
      <4> SUFFICES ASSUME j + 1 < N PROVE off[j + 1 + 1] >= 1
        OBVIOUS
      <4>1. j + 2 \in 1..N /\ j + 2 - 1 = j + 1 /\ j < N /\ j + 1 \in 0..N /\ j + 1 + 1 = j + 2
        BY <1>1
      <4>2. off[j + 2] = off[j + 1] + Len(lines[j + 2])
        <5> DEFINE k == j + 2
        <5>1. k \in 1..N
          BY <4>1
        <5> HIDE DEF k
        <5>2. off[k] = off[k - 1] + Len(lines[k])
          BY <1>3, <5>1, Zenon
        <5> QED BY <4>1, <5>2 DEF k
      <4>3. off[j + 1] \in Nat /\ off[j + 1] >= 1
        BY <1>3, <3>2, <4>1
      <4>4. Len(lines[j + 2]) \in Nat
        BY <1>1, <4>1
      <4> QED BY <4>1, <4>2, <4>3, <4>4
    <3> HIDE DEF R
    <3>3. Nat \subseteq R
      BY <3>1, <3>2, SetInduction
    <3> QED
      <4> TAKE k \in 1..N
      <4>1. k - 1 \in Nat /\ k - 1 < N /\ k - 1 + 1 = k /\ k \in 0..N
        BY <1>1
      <4> QED BY <1>3, <3>3, <4>1 DEF R
  <2>6. F # <<>> /\ F[1] = <<>>
    <3>1. Len(F) >= 1
      BY <1>3, <2>1, <2>5
    <3>2. 1 \in 1..K /\ 0 + 1 = 1
      BY <2>3
    <3>3. F[off[1 - 1] + 1] = lines[1][1]
      BY <1>3, <2>1, <3>2, Zenon DEF K, first
    <3>4. off[1 - 1] + 1 = 1
      BY <1>3, <2>1
    <3> QED BY <2>3, <3>1, <3>3, <3>4
  <2>7. Len(T) = Len(F) - 1 /\ \A p \in 1..(Len(F) - 1) : T[p] = F[p + 1]
    BY <2>6
  <2>8. \A k \in 0..N : g[k] = IF k = 0 THEN 0 ELSE off[k] - 1
    OBVIOUS
  <2>9. g \in [0..N -> Nat] /\ g[0] = 0
    <3>1. \A k \in 0..N : (IF k = 0 THEN 0 ELSE off[k] - 1) \in Nat
      <4> TAKE k \in 0..N
      <4>1. k = 0 \/ k \in 1..N
        BY <1>1
      <4> QED BY <2>5, <4>1
    <3> QED BY <2>1, <3>1
  <2> HIDE DEF g, T, K, first
  <2>10. ASSUME NEW i \in 1..N, i # 1
         PROVE  /\ i - 1 \in 1..N /\ i - 1 \in 0..N /\ L[i] = lines[i] /\ Len(lines[i]) \in Nat
                /\ g[i - 1] = off[i - 1] - 1 /\ g[i] = off[i] - 1
                /\ off[i] = off[i - 1] + Len(lines[i])
    <3>1. i - 1 \in 1..N /\ i - 1 \in 0..N /\ i \in 2..N /\ i \in 0..N /\ i # 0 /\ i - 1 # 0
      BY <1>1, <2>10
    <3>2. L[i] = lines[i] /\ Len(lines[i]) \in Nat
      <4>1. lines[i] \in Seq(Entries) /\ lines[i] # <<>>
        BY <1>1, Zenon
      <4>2. L[i] = lines[i]
        BY <1>2, <3>1, Zenon
      <4> QED BY <4>1, <4>2, TailFacts
    <3>3. g[i - 1] = off[i - 1] - 1 /\ g[i] = off[i] - 1
      BY <2>8, <3>1
    <3>4. off[i] = off[i - 1] + Len(lines[i])
      BY <1>3, Zenon
    <3> QED BY <3>1, <3>2, <3>3, <3>4
  <2>11. g[1] = K - 1
    BY <2>1, <2>4, <2>8
  <2>12. \A i \in 1..N : g[i] = g[i - 1] + Len(L[i])
    <3> TAKE i \in 1..N
    <3>1. CASE i = 1
      <4>1. g[1 - 1] = 0 /\ Len(L[1]) = K - 1 /\ K - 1 \in Nat
        BY <2>1, <2>3, <2>9
      <4>2. g[1] = g[1 - 1] + Len(L[1])
        BY <2>11, <4>1
      <4> QED BY <3>1, <4>2
    <3>2. CASE i # 1
      <4>1. off[i - 1] \in Nat
        BY <1>3, <2>10, <3>2
      <4>2. /\ Len(L[i]) = Len(lines[i]) /\ Len(lines[i]) \in Nat
            /\ g[i - 1] = off[i - 1] - 1 /\ g[i] = off[i] - 1
            /\ off[i] = off[i - 1] + Len(lines[i])
        BY <2>10, <3>2
      <4> DEFINE len == Len(lines[i])
                 a == off[i - 1]
      <4> HIDE DEF len, a
      <4>3. g[i] = (a + len) - 1 /\ g[i - 1] = a - 1 /\ a \in Nat /\ len \in Nat
        BY <4>1, <4>2 DEF len, a
      <4>4. g[i] = g[i - 1] + len
        BY <4>3
      <4> QED BY <4>2, <4>4 DEF len
    <3> QED BY <3>1, <3>2
  <2>13. \A i \in 0..N : g[i] <= g[N]
    <3> TAKE i \in 0..N
    <3>1. N # 0 /\ N \in 0..N /\ off[i] \in Nat /\ off[N] \in Nat /\ off[i] <= off[N] /\ off[N] >= 1
      BY <1>3, <1>5, <2>1, <2>5
    <3> QED BY <2>8, <3>1
  <2>14. ASSUME NEW i \in 1..N, NEW p \in 1..Len(L[i]) PROVE T[g[i - 1] + p] = L[i][p]
    <3> DEFINE q == g[i - 1] + p
    <3>1. /\ Len(F) \in Nat /\ g[i] <= Len(F) - 1 /\ g[i] = g[i - 1] + Len(L[i])
          /\ g[i - 1] \in Nat /\ g[i] \in Nat /\ Len(L[i]) \in Nat
      <4>1. i \in 0..N /\ N # 0 /\ N \in 0..N /\ i - 1 \in 0..N
        BY <1>1, <1>5, <2>1
      <4>2. g[N] = Len(F) - 1 /\ g[i] <= g[N]
        BY <1>3, <2>8, <2>13, <4>1
      <4>3. Len(L[i]) \in Nat
        <5>1. CASE i = 1
          BY <2>3, <5>1
        <5>2. CASE i # 1
          BY <2>10, <5>2
        <5> QED BY <5>1, <5>2
      <4>4. g[i] = g[i - 1] + Len(L[i])
        BY <2>12, Zenon
      <4>5. Len(F) \in Nat
        OBVIOUS
      <4>6. g[i - 1] \in Nat /\ g[i] \in Nat
        BY <2>9, <4>1
      <4> QED BY <4>2, <4>3, <4>4, <4>5, <4>6
    <3>2. q \in 1..(Len(F) - 1)
      <4> DEFINE a == g[i - 1]
                 b == g[i]
                 len == Len(L[i])
                 top == Len(F)
      <4>1. /\ top \in Nat /\ b <= top - 1 /\ b = a + len /\ a \in Nat /\ b \in Nat /\ len \in Nat
            /\ p \in 1..len
        BY <3>1
      <4> HIDE DEF a, b, len, top
      <4>2. a + p \in 1..(top - 1)
        BY <4>1
      <4> QED BY <4>2 DEF a, top
    <3>3. T[q] = F[q + 1]
      BY <2>7, <3>2
    <3> HIDE DEF q
    <3>4. CASE i = 1
      <4>0. p \in 1..Len(L[1]) /\ Len(L[1]) = K - 1 /\ g[i - 1] = 0
        BY <2>1, <2>3, <2>9, <3>4
      <4>1. p \in 1..(K - 1) /\ q = p /\ L[1][p] = first[p + 1]
        <5>1. p \in 1..(K - 1)
          BY <4>0
        <5>2. q = p
          BY <4>0, <5>1 DEF q
        <5> QED BY <2>3, <5>1, <5>2
      <4>2. p + 1 \in 1..K /\ 0 + (p + 1) = p + 1
        BY <2>3, <4>1
      <4>3. F[off[0] + (p + 1)] = first[p + 1]
        <5>1. F[off[1 - 1] + (p + 1)] = lines[1][p + 1]
          BY <1>3, <2>1, <4>2, Zenon DEF K, first
        <5> QED BY <2>1, <5>1 DEF first
      <4>4. off[0] + (p + 1) = p + 1
        BY <1>3, <4>2
      <4> QED BY <3>3, <3>4, <4>1, <4>3, <4>4 DEF q
    <3>5. CASE i # 1
      <4>1. p \in 1..Len(lines[i]) /\ L[i] = lines[i] /\ g[i - 1] = off[i - 1] - 1
        BY <2>10, <3>5
      <4>2. F[off[i - 1] + p] = lines[i][p]
        BY <1>3, <4>1
      <4>3. q + 1 = off[i - 1] + p
        <5>1. off[i - 1] \in Nat
          BY <1>3, <2>10, <3>5
        <5> QED BY <4>1, <5>1 DEF q
      <4> QED BY <3>3, <4>1, <4>2, <4>3 DEF q
    <3> QED BY <3>4, <3>5
  <2>15. Placed(g, L, T, N)
    BY <2>9, <2>12, <2>13, <2>14 DEF Placed
  <2>16. g[N] = Len(T)
    BY <1>3, <1>5, <2>1, <2>7, <2>8
  <2> QED BY <2>6, <2>15, <2>16 DEF T, N
<1> QED BY <1>4, <1>5

\* What is read so many entries from the right.
ReadFromRight(E, trusted) ==
  IF Len(E) + 1 - trusted < 1 THEN NoIP ELSE parseEntry(E[Len(E) + 1 - trusted])

LEMMA AfterAll ==
  ASSUME NEW E \in Seq(Entries), NEW trusted \in Nat \ {0}
  PROVE  /\ After(E, trusted, Len(E)).ip = ReadFromRight(E, trusted)
         /\ \/ ReadFromRight(E, trusted) = NoIP
            \/ \E t \in Entries : ReadFromRight(E, trusted) = parseEntry(t)
<1> DEFINE T == Len(E)
<1>1. T \in Nat /\ \A i \in 1..T : E[i] \in Entries
  OBVIOUS
<1>2. CASE T < trusted
  <2>1. T + 1 - trusted < 1
    BY <1>1, <1>2
  <2> QED BY <1>2, <2>1 DEF After, ReadFromRight
<1>3. CASE ~(T < trusted)
  <2>1. T + 1 - trusted \in 1..T /\ ~(T + 1 - trusted < 1)
    BY <1>1, <1>3
  <2>2. E[T + 1 - trusted] \in Entries
    BY <1>1, <2>1
  <2> QED BY <1>3, <2>1, <2>2 DEF After, ReadFromRight
<1> QED BY <1>2, <1>3

\* The documentation's grammar reads there what parseEntry does.
LEMMA TrustedIsRead ==
  ASSUME NEW lines, FlattenSeq(lines) \in Seq(Entries), NEW trusted \in Nat \ {0}
  PROVE  TrustedClient(lines, trusted) = ReadFromRight(FlattenSeq(lines), trusted)
<1> DEFINE F == FlattenSeq(lines)
           T == Len(F)
           pos == T + 1 - trusted
           read == Written(F[pos]) \ {NoIP}
<1>1. TrustedClient(lines, trusted) = IF pos < 1 THEN NoIP
                                   ELSE IF read = {} THEN NoIP ELSE CHOOSE ip \in read : TRUE
  BY Zenon DEF TrustedClient
<1>2. T \in Nat /\ \A i \in 1..T : F[i] \in Entries
  OBVIOUS
<1> HIDE DEF F
<1>3. CASE pos < 1
  BY <1>1, <1>3 DEF ReadFromRight, F
<1>4. CASE ~(pos < 1)
  <2>1. pos \in 1..T
    BY <1>2, <1>4
  <2>2. F[pos] \in Seq(Token)
    BY <1>2, <2>1 DEF Entries
  <2> HIDE DEF pos, T
  <2>3. ASSUME NEW ip PROVE ip \in read <=> ip # NoIP /\ ip = parseEntry(F[pos])
    BY <2>2, EntryIsRead
  <2>4. (IF read = {} THEN NoIP ELSE CHOOSE ip \in read : TRUE) = parseEntry(F[pos])
    <3> HIDE DEF read
    <3>1. CASE parseEntry(F[pos]) = NoIP
      BY <2>3, <3>1
    <3>2. CASE parseEntry(F[pos]) # NoIP
      BY <2>3, <3>2
    <3> QED BY <3>1, <3>2
  <2> QED BY <1>1, <1>4, <2>4, Zenon DEF ReadFromRight, pos, T, F
<1> QED BY <1>3, <1>4

LEMMA EmptyIsNoIP == parseEntry(<<>>) = NoIP
<1> DEFINE t == <<>>
<1>1. t \in Seq(Token) /\ Len(t) = 0 /\ DOMAIN t = {}
  OBVIOUS
<1>2. Trimmed(t) = t
  BY <1>1 DEF Trimmed
<1>3. Places(t, Colon) = {}
  BY <1>1 DEF Places
<1>4. Cardinality(Places(t, Colon)) # 1
  BY <1>3, FS_EmptySet
<1>5. parseEntry(t) = ParseIP(t)
  BY <1>2, <1>4, Zenon DEF parseEntry
<1>6. ParseIP(t) = NoIP
  <2>1. ~LoneQuad(t) /\ ~\E i \in 1..(Len(t) - 1) : Ellipsis(t, i)
    BY <1>1 DEF LoneQuad
  <2>2. ~Eight(t)
    <3>1. Groups(t) \in Seq(Nat) /\ Len(Groups(t)) <= 2 * Len(t)
      BY <1>1, GroupsType
    <3>2. Len(Groups(t)) # 8
      <4> DEFINE k == Len(Groups(t))
      <4>1. k \in Nat /\ k <= 2 * Len(t) /\ Len(t) = 0
        BY <1>1, <3>1
      <4> HIDE DEF k, t
      <4>2. k # 8
        BY <4>1
      <4> QED BY <4>2 DEF k
    <3> QED BY <3>2 DEF Eight
  <2> QED BY <1>1, <2>1, <2>2, ParseShapes
<1> QED BY <1>5, <1>6

\* For any header lines and any number of trusted hops, the address RealIP's
\* resolve finds is the one the documentation asks for: that of the entry so
\* many from the right over every line, when it is written in a documented
\* shape.  The one exception is a header with a line after the first that begins
\* with an empty entry; there too it is the address of some entry (resolve,
\* parseEntry, validPort).
THEOREM ResolveIsTrusted ==
  ASSUME NEW lines \in Seq(Seq(Entries)), \A i \in DOMAIN lines : lines[i] # <<>>,
         NEW trusted \in Nat \ {0}
  PROVE  /\ ~SkipsEntry(lines) => resolve(lines, trusted) = TrustedClient(lines, trusted)
         /\ \/ resolve(lines, trusted) = NoIP
            \/ \E t \in Entries : resolve(lines, trusted) = parseEntry(t)
<1> DEFINE L == [i \in DOMAIN lines |-> MetOf(lines[i])]
           N == Len(lines)
<1>1. N \in Nat /\ DOMAIN lines = 1..N /\ DOMAIN L = 1..N /\ Len(L) = N
      /\ \A i \in 1..N : lines[i] \in Seq(Entries) /\ lines[i] # <<>> /\ L[i] = MetOf(lines[i])
  OBVIOUS
<1>2. L \in Seq(Seq(Entries))
  <2>1. \A i \in 1..N : L[i] \in Seq(Entries)
    BY <1>1, MetType
  <2> QED BY <1>1, <2>1
<1>3. ASSUME NEW E \in Seq(Entries), NEW off, Placed(off, L, E, N), off[N] = Len(E)
      PROVE  resolve(lines, trusted) = ReadFromRight(E, trusted)
  BY <1>3, ResolveAfter, AfterAll, Zenon
<1> HIDE DEF L, N
<1>4. resolve(lines, trusted) = NoIP \/ \E t \in Entries : resolve(lines, trusted) = parseEntry(t)
  <2> DEFINE E == FlattenSeq(L)
  <2>1. E \in Seq(Entries) /\ \E off : Placed(off, L, E, N) /\ off[N] = Len(E)
    BY <1>1, <1>2, FlatPlaces
  <2> HIDE DEF E
  <2> QED BY <1>3, <2>1, AfterAll
<1>5. ASSUME ~SkipsEntry(lines)
      PROVE  resolve(lines, trusted) = TrustedClient(lines, trusted)
  <2> DEFINE F == FlattenSeq(lines)
  <2>1. F \in Seq(Entries) /\ \E off : Placed(off, lines, F, N) /\ off[N] = Len(F)
    BY FlatPlaces DEF N
  <2>2. PICK off : Placed(off, lines, F, N) /\ off[N] = Len(F)
    BY <2>1
  <2>3. TrustedClient(lines, trusted) = ReadFromRight(F, trusted)
    BY <2>1, TrustedIsRead
  <2> HIDE DEF F
  <2>4. \/ Placed(off, L, F, N)
        \/ /\ F # <<>> /\ F[1] = <<>>
           /\ \E g : Placed(g, L, Tail(F), N) /\ g[N] = Len(Tail(F))
    BY <1>5, <2>1, <2>2, MetPlaces, Zenon DEF L, N
  <2>5. CASE Placed(off, L, F, N)
    BY <1>3, <2>1, <2>2, <2>3, <2>5
  <2>6. CASE /\ F # <<>> /\ F[1] = <<>>
             /\ \E g : Placed(g, L, Tail(F), N) /\ g[N] = Len(Tail(F))
    <3> DEFINE T == Tail(F)
    <3>1. /\ T \in Seq(Entries) /\ Len(F) \in Nat /\ Len(T) = Len(F) - 1
          /\ \A p \in 1..(Len(F) - 1) : T[p] = F[p + 1]
      BY <2>1, <2>6
    <3>2. resolve(lines, trusted) = ReadFromRight(T, trusted)
      BY <1>3, <2>6, <3>1
    <3> HIDE DEF T
    <3> DEFINE pos == Len(F) + 1 - trusted
    <3>3. Len(T) + 1 - trusted = pos - 1 /\ pos \in Int
      BY <3>1
    <3>4. pos <= Len(F)
      BY <3>1
    <3>5. ReadFromRight(T, trusted) = IF pos - 1 < 1 THEN NoIP ELSE parseEntry(T[pos - 1])
      BY <3>3 DEF ReadFromRight
    <3>6. ReadFromRight(F, trusted) = IF pos < 1 THEN NoIP ELSE parseEntry(F[pos])
      BY DEF ReadFromRight
    <3> HIDE DEF pos
    <3>7. CASE pos < 1
      BY <2>3, <3>2, <3>3, <3>5, <3>6, <3>7
    <3>8. CASE pos = 1
      BY <2>3, <2>6, <3>2, <3>3, <3>5, <3>6, <3>8, EmptyIsNoIP
    <3>9. CASE pos > 1
      <4>1. pos - 1 \in 1..(Len(F) - 1) /\ pos - 1 + 1 = pos /\ ~(pos < 1) /\ ~(pos - 1 < 1)
        BY <3>1, <3>3, <3>4, <3>9
      <4>2. T[pos - 1] = F[pos]
        BY <3>1, <4>1
      <4> QED BY <2>3, <3>2, <3>5, <3>6, <4>1, <4>2
    <3> QED BY <3>3, <3>7, <3>8, <3>9
  <2> QED BY <2>4, <2>5, <2>6
<1> QED BY <1>4, <1>5

LEMMA V4Type == ASSUME NEW v \in Nat PROVE V4(v) \in Address
  BY DEF V4, Address

LEMMA EntryType ==
  ASSUME NEW entry \in Seq(Token)
  PROVE  parseEntry(entry) = NoIP \/ parseEntry(entry) \in Address
<1> DEFINE ip == parseEntry(entry)
           e == Trimmed(entry)
<1> SUFFICES ASSUME ip # NoIP PROVE ip \in Address
  OBVIOUS
<1>1. e \in Seq(Token)
  BY TrimmedType
<1>2. ip \in Written(entry)
  BY EntryIsRead, Zenon
<1>0. e = Trimmed(entry)
  OBVIOUS
<1> HIDE DEF ip, e
<1>3. \/ ip = ParseIP(e)
      \/ QuadWritten(e, ip)
      \/ \E k \in 3..Len(e) : Closes(e, k) /\ ip = ParseIP(Host(e, k))
  BY <1>0, <1>1, <1>2, WrittenAs
<1>4. CASE ip = ParseIP(e)
  BY <1>1, <1>4, ParseType
<1>5. CASE QuadWritten(e, ip)
  <2>1. Len(e) = 3 /\ ip = V4(e[1].value)
    BY <1>5 DEF QuadWritten
  <2>2. e[1] \in Token
    BY <1>1, <2>1
  <2>3. e[1].value \in Nat
    BY <2>2 DEF Token
  <2> QED BY <2>1, <2>3, V4Type
<1>6. ASSUME NEW k \in 3..Len(e), ip = ParseIP(Host(e, k)) PROVE ip \in Address
  <2>1. k \in 2..Len(e)
    OBVIOUS
  <2>2. Host(e, k) \in Seq(Token)
    BY <1>1, <2>1, HostTokens
  <2> QED BY <1>6, <2>2, ParseType
<1> QED BY <1>3, <1>4, <1>5, <1>6

LEMMA AddressGroups == ASSUME NEW a \in Address PROVE a \in Seq(Nat) /\ Len(a) = 8
<1> DEFINE f == [i \in 1..8 |-> a[i]]
<1>1. a = f /\ \A i \in 1..8 : a[i] \in Nat
  BY DEF Address
<1>2. f \in Seq(Nat) /\ Len(f) = 8
  BY <1>1
<1> QED BY <1>1, <1>2

LEMMA Beginning ==
  ASSUME NEW S, NEW s \in Seq(S), NEW k \in Nat, k <= Len(s)
  PROVE  /\ SubSeq(s, 1, k) \in Seq(S) /\ Len(SubSeq(s, 1, k)) = k
         /\ \A i \in 1..k : SubSeq(s, 1, k)[i] = s[i]
<1>1. 1 \in 1..(Len(s) + 1) /\ k \in (1 - 1)..Len(s) /\ k - 1 + 1 = k
  OBVIOUS
<1>2. /\ SubSeq(s, 1, k) \in Seq(S) /\ Len(SubSeq(s, 1, k)) = k - 1 + 1
      /\ \A i \in 1..(k - 1 + 1) : SubSeq(s, 1, k)[i] = s[i + 1 - 1]
  BY <1>1, Piece, ZenonT(60)
<1>3. \A i \in 1..k : i + 1 - 1 = i
  OBVIOUS
<1> QED BY <1>1, <1>2, <1>3, Zenon

LEMMA ZeroGroups ==
  /\ <<0, 0, 0, 0>> \in Seq(Nat) /\ Len(<<0, 0, 0, 0>>) = 4
  /\ \A i \in 1..4 : <<0, 0, 0, 0>>[i] = 0
  OBVIOUS

LEMMA Joined ==
  ASSUME NEW S, NEW x \in Seq(S), NEW y \in Seq(S)
  PROVE  Len(x) = 4 /\ Len(y) = 4 =>
           /\ x \o y \in Seq(S) /\ Len(x \o y) = 8
           /\ \A i \in 1..4 : (x \o y)[i] = x[i]
           /\ \A i \in 5..8 : (x \o y)[i] = y[i - 4]
<1> DEFINE w == x \o y
<1>0. /\ w \in Seq(S) /\ Len(w) = Len(x) + Len(y)
      /\ \A q \in 1..Len(x) : w[q] = x[q]
      /\ \A p \in 1..Len(y) : w[Len(x) + p] = y[p]
  BY Appended
<1> HAVE Len(x) = 4 /\ Len(y) = 4
<1> HIDE DEF w
<1>1. w \in Seq(S) /\ Len(w) = 4 + 4
  BY <1>0, Zenon
<1>2. \A i \in 1..4 : w[i] = x[i]
  BY <1>0, Zenon
<1>3. \A p \in 1..4 : w[4 + p] = y[p]
  BY <1>0, Zenon
<1>4. ASSUME NEW i \in 5..8 PROVE w[i] = y[i - 4]
  <2>1. i - 4 \in 1..4 /\ 4 + (i - 4) = i
    OBVIOUS
  <2> QED BY <1>3, <2>1
<1>5. 4 + 4 = 8
  OBVIOUS
<1> QED BY <1>1, <1>2, <1>4, <1>5, Zenon DEF w

\* The eight groups of a key.
LEMMA KeyGroups ==
  ASSUME NEW a \in Address
  PROVE  /\ IsV4(a) => clientKey(a) = a /\ a[6] # 0
         /\ ~IsV4(a) => /\ clientKey(a) \in [1..8 -> Nat]
                        /\ \A i \in 1..4 : clientKey(a)[i] = a[i]
                        /\ \A i \in 5..8 : clientKey(a)[i] = 0
<1>1. a \in Seq(Nat) /\ Len(a) = 8
  BY AddressGroups
<1>2. CASE IsV4(a)
  <2> DEFINE s == SubSeq(a, 1, 6)
             t == <<0, 0, 0, 0, 0, 65535>>
  <2>1. s = t
    BY <1>2 DEF IsV4
  <2>2. s[6] = a[6]
    <3>1. 6 \in Nat /\ 6 <= Len(a) /\ 6 \in 1..6
      BY <1>1
    <3> QED BY <1>1, <3>1, Beginning
  <2>3. t[6] # 0
    OBVIOUS
  <2> HIDE DEF s, t
  <2>4. a[6] # 0
    BY <2>1, <2>2, <2>3
  <2>5. clientKey(a) = a
    BY <1>2, Zenon DEF clientKey
  <2> QED BY <1>2, <2>4, <2>5
<1>3. CASE ~IsV4(a)
  <2> DEFINE s == SubSeq(a, 1, 4)
             z == <<0, 0, 0, 0>>
  <2>1. s \in Seq(Nat) /\ Len(s) = 4 /\ \A i \in 1..4 : s[i] = a[i]
    <3>1. 4 \in Nat /\ 4 <= Len(a)
      BY <1>1
    <3> QED BY <1>1, <3>1, Beginning
  <2>2. z \in Seq(Nat) /\ Len(z) = 4 /\ \A i \in 1..4 : z[i] = 0
    BY ZeroGroups
  <2>3. clientKey(a) = s \o z
    BY <1>1, <1>3, Zenon DEF clientKey
  <2> HIDE DEF s, z
  <2>4. /\ s \o z \in Seq(Nat) /\ Len(s \o z) = 8
        /\ \A i \in 1..4 : (s \o z)[i] = s[i]
        /\ \A i \in 5..8 : (s \o z)[i] = z[i - 4]
    BY <2>1, <2>2, Joined
  <2>5. s \o z \in [1..8 -> Nat]
    BY <2>4, EightLong DEF Address
  <2>6. \A i \in 5..8 : i - 4 \in 1..4
    OBVIOUS
  <2>7. \A i \in 1..4 : (s \o z)[i] = a[i]
    BY <2>1, <2>4
  <2>8. \A i \in 5..8 : (s \o z)[i] = 0
    BY <2>2, <2>4, <2>6
  <2> QED BY <1>3, <2>3, <2>5, <2>7, <2>8, Zenon
<1> QED BY <1>2, <1>3

\* For any two addresses, the rate limiter's keys are equal exactly when the
\* addresses belong to one client (clientKey).
THEOREM KeysTell ==
  ASSUME NEW a \in Address, NEW b \in Address
  PROVE  clientKey(a) = clientKey(b) <=> SameClient(a, b)
<1>0. a \in [1..8 -> Nat] /\ b \in [1..8 -> Nat]
  BY DEF Address
<1>1. CASE IsV4(a) /\ IsV4(b)
  <2>1. clientKey(a) = a /\ clientKey(b) = b
    BY <1>1, KeyGroups
  <2>2. SameClient(a, b) <=> \A i \in 1..8 : a[i] = b[i]
    BY <1>1, Zenon DEF SameClient
  <2> QED BY <1>0, <2>1, <2>2
<1>2. CASE ~IsV4(a) /\ ~IsV4(b)
  <2> DEFINE f == clientKey(a)
             g == clientKey(b)
  <2>1. /\ f \in [1..8 -> Nat] /\ g \in [1..8 -> Nat]
        /\ \A i \in 1..4 : f[i] = a[i] /\ g[i] = b[i]
        /\ \A i \in 5..8 : f[i] = 0 /\ g[i] = 0
    BY <1>2, KeyGroups
  <2>2. SameClient(a, b) <=> \A i \in 1..4 : a[i] = b[i]
    BY <1>2, Zenon DEF SameClient
  <2> HIDE DEF f, g
  <2>3. f = g <=> \A i \in 1..8 : f[i] = g[i]
    BY <2>1
  <2>4. \A i \in 1..8 : i \in 1..4 \/ i \in 5..8
    OBVIOUS
  <2>5. \A i \in 1..4 : i \in 1..8
    OBVIOUS
  <2>6. (\A i \in 1..8 : f[i] = g[i]) <=> \A i \in 1..4 : a[i] = b[i]
    BY <2>1, <2>4, <2>5
  <2> QED BY <2>2, <2>3, <2>6 DEF f, g
<1>3. ASSUME NEW x \in Address, NEW y \in Address, IsV4(x), ~IsV4(y)
      PROVE  clientKey(x) # clientKey(y)
  <2>1. clientKey(x)[6] # 0
    BY <1>3, KeyGroups
  <2>2. clientKey(y)[6] = 0
    BY <1>3, KeyGroups
  <2> QED BY <2>1, <2>2
<1>4. CASE ~(IsV4(a) <=> IsV4(b))
  <2>1. ~SameClient(a, b)
    BY <1>4, Zenon DEF SameClient
  <2>2. clientKey(a) # clientKey(b)
    BY <1>3, <1>4
  <2> QED BY <2>1, <2>2
<1> QED BY <1>1, <1>2, <1>4

\* What RealIP reads is what its documentation asks for, unless it skips an entry.
LEMMA ReadingFacts ==
  ASSUME NEW r \in Readings
  PROVE  /\ r.skips \in BOOLEAN /\ (~r.skips => r.client = r.ip)
         /\ r.ip = NoIP \/ r.ip \in Address
<1>1. PICK h \in Hops, lines \in Forwarded :
        r = [hops |-> h, ip |-> resolve(lines, h), client |-> TrustedClient(lines, h),
             skips |-> SkipsEntry(lines)]
  BY DEF Readings
<1>2. /\ r.ip = resolve(lines, h) /\ r.client = TrustedClient(lines, h)
      /\ r.skips = SkipsEntry(lines) /\ SkipsEntry(lines) \in BOOLEAN
  BY <1>1 DEF SkipsEntry
<1>3. h \in Nat \ {0} /\ lines \in Seq(Seq(Entries)) /\ \A i \in DOMAIN lines : lines[i] # <<>>
  BY EdgeAssumption DEF Entries
<1>4. /\ ~SkipsEntry(lines) => resolve(lines, h) = TrustedClient(lines, h)
      /\ resolve(lines, h) = NoIP \/ \E t \in Entries : resolve(lines, h) = parseEntry(t)
  BY <1>3, ResolveIsTrusted
<1>5. resolve(lines, h) = NoIP \/ resolve(lines, h) \in Address
  BY <1>4, EntryType DEF Entries
<1> QED BY <1>2, <1>4, <1>5

-----------------------------------------------------------------------------
\* What a request holds.
Clients == {NoIP, Peer} \cup {r.ip : r \in Readings} \cup {r.client : r \in Readings}
Chains == {<<>>} \cup AppChains \cup {a \o b : a \in AppChains, b \in RouteChains}
Kinds == {"realip", "requestid", "cors", "ratelimit", "basicauth", "keyauth", "bearer",
          "logger", "handler"}
HeaderNames == {"Vary", AllowOrigin, "X-Request-Id", "Retry-After", "WWW-Authenticate"}
                 \cup RealHeaders \cup PreflightHeaders
Locations == {"none", "rewritten", "own"}
Writers == {"none", "fasthttp", "handler", "funnel"}
ReqT == [chain : Chains, target : Targets \cup {"miss", "route"}, client : Clients,
         excepted : BOOLEAN, origin : {"none", "allowed", "other"}, preflight : BOOLEAN,
         ran : SUBSET Kinds]
RespT == [status : Nat, headers : SUBSET HeaderNames, location : Locations, body : Writers]

EdgeTypeOK ==
  /\ app \in AppChains /\ n \in Nat /\ phase \in {"down", "up", "done"} /\ err \in Nat
  /\ req \in ReqT /\ resp \in RespT /\ rewritten \in BOOLEAN

\* A request is served by a built App.  On the way down nothing has answered.
WayInv ==
  /\ n > 0 => build = "done"
  /\ n = 0 => req.ran = {}
  /\ phase # "done" => n > 0
  /\ phase = "down" => /\ err = 0 /\ "handler" \notin req.ran /\ ~req.preflight
                       /\ resp.location = "none" /\ resp.body = "none"

\* A promised header is there from the frame that promised it on, and an answer
\* that needs one is given where it was set.
PromiseInv ==
  /\ "cors" \in req.ran => "Vary" \in resp.headers
  /\ AllowOrigin \in resp.headers <=> "cors" \in req.ran /\ req.origin = "allowed"
  /\ req.preflight => err = 0 /\ resp.status = 204 /\ "handler" \notin req.ran
  /\ "requestid" \in req.ran => "X-Request-Id" \in resp.headers
  /\ err = 429 => "Retry-After" \in resp.headers
  /\ err = 401 => "keyauth" \in req.ran \/ "WWW-Authenticate" \in resp.headers
  /\ resp.status \in {401, 429} => err = resp.status

\* What a Static route answered, before and after the funnel.  An App whose
\* Build was skipped has no file handler and answers 500.
Unmade == \E e \in Statics : cache[e] = "none"
FileInv ==
  phase # "down" /\ "handler" \in req.ran /\ req.target \in FilePaths =>
    LET want == IF Unmade THEN 500 ELSE Wanted(req.target) IN
    /\ want = IF err = 0 THEN resp.status ELSE err
    /\ want >= 400 <=> err # 0
    /\ resp.location = IF want = 301 THEN "own" ELSE "none"
    /\ resp.body = "funnel" <=> phase = "done" /\ err # 0
    /\ phase = "done" => resp.status = want

EInv == EdgeTypeOK /\ WayInv /\ PromiseInv /\ FileInv
-----------------------------------------------------------------------------
\* fasthttp's statuses, path by path.
LEMMA Statuses ==
  /\ FilePaths = {"file", "part", "unchanged", "noslash", "noindex", "missing",
                  "badrange", "unreadable", "nul", "dotdot"}
  /\ DOMAIN FileStatus = FilePaths \ {"nul", "dotdot"}
  /\ FileStatus["file"] = 200 /\ FileStatus["part"] = 206
  /\ FileStatus["unchanged"] = 304 /\ FileStatus["noslash"] = 302
  /\ FileStatus["noindex"] = 403 /\ FileStatus["missing"] = 404
  /\ FileStatus["badrange"] = 416 /\ FileStatus["unreadable"] = 500
  BY DEF FilePaths, FileStatus

\* A response written anew, put back, and made a redirect.
LEMMA ResponseType ==
  ASSUME NEW m \in Nat, NEW h \in SUBSET HeaderNames, NEW l \in Locations, NEW b \in Writers
  PROVE  [status |-> m, body |-> b, location |-> l, headers |-> h] \in RespT
  BY DEF RespT
LEMMA RestoredType ==
  ASSUME NEW r \in RespT, NEW x \in RespT
  PROVE  /\ Restored(r, x) \in RespT /\ Restored(r, x).status = x.status
         /\ Restored(r, x).body = x.body /\ Restored(r, x).headers = r.headers
         /\ Restored(r, x).location = r.location
  BY DEF Restored, RespT
LEMMA RedirectType ==
  ASSUME NEW r \in RespT
  PROVE  /\ writeDirRedirect(r) \in RespT /\ writeDirRedirect(r).headers = r.headers
         /\ writeDirRedirect(r).status = 301 /\ writeDirRedirect(r).location = "own"
         /\ writeDirRedirect(r).body = "none"
<1>1. \A m \in Nat : [r EXCEPT !.status = m, !.location = "own", !.body = "none"] \in RespT
  BY DEF RespT, Locations, Writers
<1>2. 301 \in Nat
  OBVIOUS
<1>3. writeDirRedirect(r) \in RespT
  BY <1>1, <1>2, Zenon DEF writeDirRedirect
<1> QED BY <1>3 DEF writeDirRedirect, RespT

\* staticEntry.serve around fasthttp's handler keeps the headers whatever
\* fasthttp did to them, and turns its status into the documented result.
LEMMA ServeFacts ==
  ASSUME NEW r \in RespT, r.location = "none", r.body = "none", r.status \notin {401, 429},
         NEW e \in Statics, NEW path \in FilePaths
  PROVE  LET out == serve(e, path, r)
             want == IF cache[e] = "none" THEN 500 ELSE Wanted(path) IN
         /\ out.resp \in RespT /\ out.resp.headers = r.headers /\ out.err \in Nat
         /\ out.err \notin {401, 429} /\ out.resp.status \notin {401, 429}
         /\ want = IF out.err = 0 THEN out.resp.status ELSE out.err
         /\ want >= 400 <=> out.err # 0
         /\ out.resp.location = IF want = 301 THEN "own" ELSE "none"
         /\ out.resp.body # "funnel"
<1> DEFINE served == FileHandler(r, path)
           restore == r.headers # {} /\ served.status \notin 200..299
           kept == IF restore THEN Restored(r, served) ELSE served
           out == serve(e, path, r)
           want == IF cache[e] = "none" THEN 500 ELSE Wanted(path)
<1>1. r.status \in Nat /\ r.headers \in SUBSET HeaderNames
  BY DEF RespT
<1>2. CASE cache[e] = "none"
  <2>1. out.resp = r /\ out.err = 500 /\ want = 500
    BY <1>2 DEF serve, Answer
  <2> QED BY <1>1, <2>1
<1>3. CASE cache[e] # "none" /\ path \in {"nul", "dotdot"}
  <2>1. out.resp = r /\ out.err = 404 /\ want = 404
    BY <1>3 DEF serve, Answer, Refused, Wanted
  <2> QED BY <1>1, <2>1
<1>4. CASE cache[e] # "none" /\ path \notin {"nul", "dotdot"}
  <2>1. out = staticResult(kept) /\ want = Wanted(path)
    BY <1>4 DEF serve, Refused
  <2> DEFINE code == FileStatus[path]
  <2>2. code \in {200, 206, 304, 302, 403, 404, 416, 500}
    BY <1>4, Statuses
  <2>3. /\ served.status = code /\ served.body = "fasthttp"
        /\ served.location = IF code = 302 THEN "rewritten" ELSE "none"
        /\ served.headers = IF code = 304 \/ code >= 400 THEN {} ELSE r.headers
    BY DEF FileHandler
  <2>4. /\ kept \in RespT /\ kept.status = code /\ kept.headers = r.headers
        /\ kept.body = "fasthttp" /\ (code # 302 => kept.location = "none")
    <3>1. served \in RespT
      <4> DEFINE l == IF code = 302 THEN "rewritten" ELSE "none"
                 h == IF code = 304 \/ code >= 400 THEN {} ELSE r.headers
      <4>1. code \in Nat
        BY <2>2
      <4>2. l \in Locations /\ "fasthttp" \in Writers
        BY DEF Locations, Writers
      <4>3. h \in SUBSET HeaderNames
        BY <1>1
      <4>4. served = [status |-> code, body |-> "fasthttp", location |-> l, headers |-> h]
        BY DEF FileHandler
      <4> HIDE DEF l, h, code, served
      <4> QED BY <4>1, <4>2, <4>3, <4>4, ResponseType
    <3> HIDE DEF served, code
    <3>2. /\ Restored(r, served) \in RespT /\ Restored(r, served).status = code
          /\ Restored(r, served).headers = r.headers /\ Restored(r, served).body = "fasthttp"
          /\ Restored(r, served).location = "none"
      BY <2>3, <3>1, RestoredType
    <3>3. CASE restore
      BY <3>2, <3>3
    <3>4. CASE ~restore
      BY <1>1, <2>2, <2>3, <3>1, <3>4
    <3> QED BY <3>3, <3>4
  <2> HIDE DEF kept
  <2>5. CASE path = "noslash"
    <3>1. out.resp = writeDirRedirect(kept) /\ out.err = 0 /\ want = 301
      BY <2>1, <2>4, <2>5, Statuses DEF staticResult, Answer, Wanted
    <3> QED BY <2>4, <3>1, RedirectType
  <2>6. CASE path \in {"file", "part", "unchanged"}
    <3>1. out.resp = kept /\ out.err = 0 /\ want = code /\ code \in {200, 206, 304}
      BY <2>1, <2>4, <2>6, Statuses DEF staticResult, Answer, Wanted
    <3> QED BY <2>4, <3>1
  <2>7. CASE path \in {"noindex", "missing"}
    <3>1. out.resp = kept /\ out.err = 404 /\ want = 404 /\ code \in {403, 404}
      BY <2>1, <2>4, <2>7, Statuses DEF staticResult, Answer, Wanted
    <3> QED BY <2>4, <3>1
  <2>8. CASE path \in {"badrange", "unreadable"}
    <3>1. out.resp = kept /\ out.err = code /\ want = code /\ code \in {416, 500}
      BY <2>1, <2>4, <2>8, Statuses DEF staticResult, Answer, Wanted
    <3> QED BY <2>4, <3>1
  <2> QED BY <1>4, <2>5, <2>6, <2>7, <2>8, Statuses
<1> QED BY <1>2, <1>3, <1>4
-----------------------------------------------------------------------------
LEMMA HeaderFacts ==
  /\ {"X-Request-Id"} \subseteq HeaderNames /\ {"Retry-After"} \subseteq HeaderNames
  /\ {"WWW-Authenticate"} \subseteq HeaderNames
  /\ {"Vary", AllowOrigin} \cup RealHeaders \cup PreflightHeaders \subseteq HeaderNames
  /\ AllowOrigin \notin RealHeaders \cup PreflightHeaders
  /\ AllowOrigin \notin {"Vary", "X-Request-Id", "Retry-After", "WWW-Authenticate"}
  BY DEF HeaderNames, AllowOrigin, RealHeaders, PreflightHeaders

\* Headers are only added.
LEMMA AddHeadersType ==
  ASSUME resp \in RespT, NEW h, h \subseteq HeaderNames
  PROVE  /\ AddHeaders(h) \in RespT /\ AddHeaders(h).headers = resp.headers \cup h
         /\ AddHeaders(h).status = resp.status /\ AddHeaders(h).location = resp.location
         /\ AddHeaders(h).body = resp.body
  BY DEF AddHeaders, RespT

\* A frame is noted in the request and changes nothing else of it.
LEMMA RanType ==
  ASSUME req \in ReqT, NEW kind \in Kinds
  PROVE  /\ Ran(kind) \in ReqT /\ Ran(kind).ran = req.ran \cup {kind}
         /\ Ran(kind).chain = req.chain /\ Ran(kind).target = req.target
         /\ Ran(kind).client = req.client /\ Ran(kind).excepted = req.excepted
         /\ Ran(kind).origin = req.origin /\ Ran(kind).preflight = req.preflight
  BY DEF Ran, ReqT

\* A frame on the way down that keeps the promises made so far keeps the rest.
LEMMA FrameStep ==
  ASSUME EInv, phase = "down", UNCHANGED <<app, n, build, cache>>, rewritten' \in BOOLEAN,
         req' \in ReqT, resp' \in RespT, err' \in Nat, phase' \in {"down", "up"},
         resp'.location = "none", resp'.body = "none", "handler" \notin req'.ran,
         phase' = "down" => err' = 0 /\ ~req'.preflight,
         PromiseInv'
  PROVE  EInv'
<1>1. EdgeTypeOK'
  BY DEF EInv, EdgeTypeOK
<1>2. WayInv'
  BY DEF EInv, EdgeTypeOK, WayInv
<1>3. FileInv'
  BY DEF FileInv
<1> QED BY <1>1, <1>2, <1>3 DEF EInv

\* A frame whose kind promises nothing and which at most adds headers, and none
\* of CORS's; and one that adds none.
LEMMA PlainFrame ==
  ASSUME EInv, NEW kind \in Kinds \ {"handler", "cors", "requestid"}, InFrame(kind),
         UNCHANGED <<app, n, rewritten, build, cache>>, req' = Ran(kind), err' \in Nat,
         NEW h \in SUBSET {"Retry-After", "WWW-Authenticate"},
         resp' = AddHeaders(h) \/ (h = {} /\ resp' = resp),
         phase' = "up" \/ (phase' = "down" /\ err' = 0),
         err' = 429 => "Retry-After" \in h,
         err' = 401 => kind = "keyauth" \/ "WWW-Authenticate" \in h
  PROVE  EInv'
<1>1. /\ phase = "down" /\ err = 0 /\ "handler" \notin req.ran /\ ~req.preflight
      /\ resp.location = "none" /\ resp.body = "none" /\ req \in ReqT /\ resp \in RespT
      /\ rewritten \in BOOLEAN
  BY DEF InFrame, EInv, WayInv, EdgeTypeOK
<1>2. h \subseteq HeaderNames /\ AllowOrigin \notin h
  BY HeaderFacts
<1>3. /\ resp' \in RespT /\ resp'.headers = resp.headers \cup h /\ resp'.status = resp.status
      /\ resp'.location = "none" /\ resp'.body = "none"
  BY <1>1, <1>2, AddHeadersType, ZenonT(60)
<1>4. /\ req' \in ReqT /\ req'.ran = req.ran \cup {kind} /\ req'.origin = req.origin
      /\ req'.preflight = req.preflight
  BY <1>1, RanType
<1>5. PromiseInv'
  BY <1>1, <1>2, <1>3, <1>4 DEF EInv, PromiseInv, AllowOrigin
<1> QED BY <1>1, <1>3, <1>4, <1>5, FrameStep

LEMMA BareFrame ==
  ASSUME EInv, NEW kind \in Kinds \ {"handler", "cors", "requestid"}, InFrame(kind),
         UNCHANGED <<app, n, rewritten, build, cache, resp>>, req' = Ran(kind),
         err' \in {0, 500}, phase' = "up" \/ (phase' = "down" /\ err' = 0)
  PROVE  EInv'
<1> DEFINE h == {}
<1>1. h \in SUBSET {"Retry-After", "WWW-Authenticate"} /\ h = {} /\ err' \in Nat
      /\ err' \notin {401, 429}
  OBVIOUS
<1> HIDE DEF h
<1>2. UNCHANGED <<app, n, rewritten, build, cache>> /\ resp' = resp
  OBVIOUS
<1> QED BY <1>1, <1>2, PlainFrame

\* handle: a new request owes nothing.
LEMMA HandleStep ==
  ASSUME SInv, EInv, NEW miss \in BOOLEAN, NEW route \in RouteChains, handle(miss, route)
  PROVE  EInv'
<1> DEFINE ch == IF miss THEN app ELSE app \o route
           tg == IF miss THEN "miss" ELSE "route"
<1>1. /\ build = "done" /\ n' = n + 1 /\ phase' = "down" /\ resp' = FreshResponse /\ err' = 0
      /\ UNCHANGED <<app, build, cache>>
      /\ req' = [NoRequest EXCEPT !.target = tg, !.chain = ch, !.excepted = rewritten,
                                  !.client = Peer]
  BY DEF handle, staticVars
<1>2. app \in AppChains /\ n \in Nat /\ rewritten \in BOOLEAN /\ rewritten' = rewritten
  BY DEF handle, EInv, EdgeTypeOK
<1>3. ch \in Chains /\ tg \in Targets \cup {"miss", "route"} /\ Peer \in Clients
  BY <1>2 DEF Chains, Clients
<1> HIDE DEF ch, tg
<1>4. req' = [chain |-> ch, target |-> tg, client |-> Peer, excepted |-> rewritten,
              origin |-> "none", preflight |-> FALSE, ran |-> {}]
  BY <1>1 DEF NoRequest
<1>5. req' \in ReqT
  BY <1>2, <1>3, <1>4 DEF ReqT
<1>6. resp' = [status |-> 200, headers |-> {}, location |-> "none", body |-> "none"]
  BY <1>1 DEF FreshResponse
<1>7. resp' \in RespT
  BY <1>6 DEF RespT, Locations, Writers
<1>8. /\ ~req'.preflight /\ req'.ran = {} /\ resp'.headers = {} /\ resp'.location = "none"
      /\ resp'.body = "none" /\ resp'.status = 200
  BY <1>4, <1>6
<1>9. EdgeTypeOK'
  BY <1>1, <1>2, <1>5, <1>7 DEF EdgeTypeOK
<1>10. WayInv'
  BY <1>1, <1>2, <1>8 DEF WayInv
<1>11. PromiseInv'
  BY <1>1, <1>8 DEF PromiseInv
<1>12. FileInv'
  BY <1>1 DEF FileInv
<1> QED BY <1>9, <1>10, <1>11, <1>12 DEF EInv

LEMMA RealIPStep ==
  ASSUME EInv, NEW reading \in Readings, RealIP(reading) PROVE EInv'
<1> DEFINE c == IF reading.client = NoIP THEN Peer ELSE reading.client
           q == Ran("realip")
<1>1. /\ InFrame("realip") /\ UNCHANGED <<app, n, build, cache, resp, phase, err>>
      /\ req' = [q EXCEPT !.excepted = reading.skips, !.client = c]
  BY DEF RealIP, next, staticVars
<1>2. /\ phase = "down" /\ err = 0 /\ "handler" \notin req.ran /\ ~req.preflight
      /\ resp.location = "none" /\ resp.body = "none" /\ req \in ReqT /\ resp \in RespT
      /\ err \in Nat
  BY <1>1 DEF InFrame, EInv, WayInv, EdgeTypeOK
<1>3. c \in Clients /\ reading.skips \in BOOLEAN
  BY ReadingFacts DEF Clients
<1>4. q \in ReqT /\ q.ran = req.ran \cup {"realip"} /\ q.origin = req.origin
      /\ q.preflight = req.preflight
  BY <1>2, RanType DEF Kinds
<1> HIDE DEF c, q
<1>5. /\ req' \in ReqT /\ req'.ran = q.ran /\ req'.origin = q.origin
      /\ req'.preflight = q.preflight
  BY <1>1, <1>3, <1>4 DEF ReqT
<1>6. PromiseInv'
  BY <1>1, <1>2, <1>4, <1>5 DEF EInv, PromiseInv
<1>7. rewritten' \in BOOLEAN
  BY DEF RealIP
<1> QED BY <1>1, <1>2, <1>4, <1>5, <1>6, <1>7, FrameStep

LEMMA RequestIDStep == ASSUME EInv, NEW valid \in BOOLEAN, RequestID(valid) PROVE EInv'
<1>1. /\ InFrame("requestid") /\ UNCHANGED <<app, n, rewritten, build, cache, phase, err>>
      /\ req' = Ran("requestid") /\ resp' = AddHeaders({"X-Request-Id"})
  BY DEF RequestID, next, staticVars, connVars
<1>2. /\ phase = "down" /\ err = 0 /\ "handler" \notin req.ran /\ ~req.preflight
      /\ resp.location = "none" /\ resp.body = "none" /\ req \in ReqT /\ resp \in RespT
      /\ rewritten \in BOOLEAN
  BY <1>1 DEF InFrame, EInv, WayInv, EdgeTypeOK
<1>3. /\ req' \in ReqT /\ req'.ran = req.ran \cup {"requestid"} /\ req'.origin = req.origin
      /\ req'.preflight = req.preflight
  BY <1>1, <1>2, RanType DEF Kinds
<1>4. /\ resp' \in RespT /\ resp'.headers = resp.headers \cup {"X-Request-Id"}
      /\ resp'.status = resp.status /\ resp'.location = "none" /\ resp'.body = "none"
  BY <1>1, <1>2, HeaderFacts, AddHeadersType
<1>5. PromiseInv'
  BY <1>1, <1>2, <1>3, <1>4, HeaderFacts DEF EInv, PromiseInv
<1> QED BY <1>1, <1>2, <1>3, <1>4, <1>5, FrameStep

\* CORS: what it is told of the origin the first time it is told again.
LEMMA CORSStep ==
  ASSUME EInv, NEW origin \in {"none", "allowed", "other"}, NEW preflight \in BOOLEAN,
         CORS(origin, preflight)
  PROVE  EInv'
<1> DEFINE allowed == origin = "allowed"
           policy == IF preflight THEN PreflightHeaders ELSE RealHeaders
           told == {"Vary"} \cup IF allowed THEN {AllowOrigin} \cup policy ELSE {}
           r == AddHeaders(told)
           q == Ran("cors")
           st == IF preflight THEN 204 ELSE r.status
<1>1. /\ InFrame("cors") /\ UNCHANGED <<app, n, rewritten, build, cache>>
      /\ "cors" \in req.ran => origin = req.origin /\ preflight = req.preflight
      /\ resp' = [r EXCEPT !.status = st]
      /\ req' = [q EXCEPT !.origin = origin, !.preflight = preflight]
      /\ IF preflight THEN return(0) ELSE next
  BY DEF CORS, staticVars, connVars
<1>2. /\ phase = "down" /\ err = 0 /\ "handler" \notin req.ran /\ ~req.preflight
      /\ resp.location = "none" /\ resp.body = "none" /\ req \in ReqT /\ resp \in RespT
      /\ rewritten \in BOOLEAN
  BY <1>1 DEF InFrame, EInv, WayInv, EdgeTypeOK
<1>3. /\ err' = 0 /\ phase' = IF preflight THEN "up" ELSE "down"
  BY <1>1, <1>2 DEF next, return
<1>4. told \subseteq HeaderNames /\ "Vary" \in told /\ (AllowOrigin \in told <=> origin = "allowed")
  BY HeaderFacts
<1> HIDE DEF told
<1>5. /\ r \in RespT /\ r.headers = resp.headers \cup told /\ r.status = resp.status
      /\ r.location = "none" /\ r.body = "none"
  BY <1>2, <1>4, AddHeadersType
<1>6. q \in ReqT /\ q.ran = req.ran \cup {"cors"}
  BY <1>2, RanType DEF Kinds
<1> HIDE DEF r, q
<1>7. /\ req' \in ReqT /\ req'.ran = req.ran \cup {"cors"} /\ req'.origin = origin
      /\ req'.preflight = preflight
  BY <1>1, <1>6 DEF ReqT
<1>8. st \in Nat
  BY <1>5 DEF RespT
<1> HIDE DEF st
<1>9. /\ resp' \in RespT /\ resp'.headers = r.headers /\ resp'.location = "none"
      /\ resp'.body = "none" /\ resp'.status = st
  BY <1>1, <1>5, <1>8 DEF RespT
<1>10. resp'.status = IF preflight THEN 204 ELSE resp.status
  BY <1>5, <1>9 DEF st
<1>11. AllowOrigin \in resp.headers => origin = "allowed"
  BY <1>1 DEF EInv, PromiseInv
<1>12. PromiseInv'
  BY <1>2, <1>3, <1>4, <1>5, <1>7, <1>9, <1>10, <1>11, HeaderFacts DEF EInv, PromiseInv
<1> QED BY <1>1, <1>2, <1>3, <1>7, <1>9, <1>12, FrameStep

LEMMA LoggerStep == ASSUME EInv, Logger PROVE EInv'
<1>1. /\ InFrame("logger") /\ UNCHANGED <<app, n, rewritten, build, cache, phase, err, resp>>
      /\ req' = Ran("logger")
  BY DEF Logger, next, staticVars, connVars
<1>2. phase' = "down" /\ err' = 0
  BY <1>1 DEF InFrame, EInv, WayInv
<1>3. "logger" \in Kinds \ {"handler", "cors", "requestid"}
  BY DEF Kinds
<1> QED BY <1>1, <1>2, <1>3, BareFrame

\* RateLimit: a client that must wait is told how long.
LEMMA RateLimitStep ==
  ASSUME EInv, NEW take \in {"ok", "wait", "error"}, RateLimit(take) PROVE EInv'
<1> DEFINE h == IF take = "wait" THEN {"Retry-After"} ELSE {}
<1>1. /\ InFrame("ratelimit") /\ UNCHANGED <<app, n, rewritten, build, cache>>
      /\ req' = Ran("ratelimit")
  BY DEF RateLimit, staticVars, connVars
<1>2. phase = "down" /\ err = 0
  BY <1>1 DEF InFrame, EInv, WayInv
<1>3. /\ take = "ok" => phase' = "down" /\ err' = 0
      /\ take = "wait" => phase' = "up" /\ err' = 429
      /\ take = "error" => phase' = "up" /\ err' = 500
  BY <1>2 DEF RateLimit, next, return
<1>4. resp' = AddHeaders(h) \/ (h = {} /\ resp' = resp)
  BY DEF RateLimit
<1>5. h \in SUBSET {"Retry-After", "WWW-Authenticate"} /\ (err' = 429 => "Retry-After" \in h)
  BY <1>3
<1>6. "ratelimit" \in Kinds \ {"handler", "cors", "requestid"} /\ err' \in Nat /\ err' # 401
      /\ (phase' = "up" \/ (phase' = "down" /\ err' = 0))
  BY <1>3 DEF Kinds
<1> HIDE DEF h
<1> QED BY <1>1, <1>4, <1>5, <1>6, PlainFrame

\* unauthorized and Validated: a refusal carries the challenge, if it has one.
LEMMA AuthStep ==
  ASSUME EInv, NEW kind \in {"basicauth", "keyauth", "bearer"}, InFrame(kind),
         UNCHANGED <<app, n, rewritten, build, cache>>, req' = Ran(kind),
         NEW creds \in {"unreadable", "rejected", "unknown", "good"},
         NEW challenge \in BOOLEAN, kind # "keyauth" => challenge,
         IF creds = "unreadable" THEN unauthorized(challenge) ELSE Validated(creds, challenge)
  PROVE  EInv'
<1> DEFINE refused == creds \in {"unreadable", "rejected"}
           h == IF challenge THEN {"WWW-Authenticate"} ELSE {}
<1>1. phase = "down" /\ err = 0
  BY DEF InFrame, EInv, WayInv
<1>2. kind \in Kinds \ {"handler", "cors", "requestid"}
  BY DEF Kinds
<1>3. CASE refused
  <2>1. unauthorized(challenge)
    BY <1>3 DEF Validated
  <2>2. phase' = "up" /\ err' = 401 /\ err' \in Nat /\ err' # 429
    BY <2>1 DEF unauthorized, return
  <2>3. resp' = AddHeaders(h) \/ (h = {} /\ resp' = resp)
    BY <2>1 DEF unauthorized
  <2>4. h \in SUBSET {"Retry-After", "WWW-Authenticate"}
        /\ (kind = "keyauth" \/ "WWW-Authenticate" \in h)
    OBVIOUS
  <2> HIDE DEF h
  <2> QED BY <1>2, <2>2, <2>3, <2>4, PlainFrame
<1>4. CASE creds = "unknown"
  <2>1. phase' = "up" /\ err' = 500 /\ resp' = resp
    BY <1>4 DEF Validated, return
  <2> QED BY <1>2, <2>1, BareFrame
<1>5. CASE creds = "good"
  <2>1. phase' = "down" /\ err' = 0 /\ resp' = resp
    BY <1>1, <1>5 DEF Validated, next
  <2> QED BY <1>2, <2>1, BareFrame
<1> QED BY <1>3, <1>4, <1>5

LEMMA BasicAuthStep ==
  ASSUME EInv, NEW creds \in {"unreadable", "rejected", "unknown", "good"}, BasicAuth(creds)
  PROVE  EInv'
<1>1. /\ InFrame("basicauth") /\ UNCHANGED <<app, n, rewritten, build, cache>>
      /\ req' = Ran("basicauth")
      /\ IF creds = "unreadable" THEN unauthorized(TRUE) ELSE Validated(creds, TRUE)
  BY DEF BasicAuth, staticVars, connVars
<1> QED BY <1>1, AuthStep

LEMMA KeyAuthStep ==
  ASSUME EInv, NEW creds \in {"unreadable", "rejected", "unknown", "good"},
         NEW bearer \in BOOLEAN, KeyAuth(creds, bearer)
  PROVE  EInv'
<1> DEFINE kind == IF bearer THEN "bearer" ELSE "keyauth"
<1>1. /\ InFrame(kind) /\ UNCHANGED <<app, n, rewritten, build, cache>>
      /\ req' = Ran(kind)
      /\ IF creds = "unreadable" THEN unauthorized(bearer) ELSE Validated(creds, bearer)
  BY DEF KeyAuth, staticVars, connVars
<1>2. kind \in {"basicauth", "keyauth", "bearer"} /\ (kind # "keyauth" => bearer)
  OBVIOUS
<1> HIDE DEF kind
<1> QED BY <1>1, <1>2, AuthStep

LEMMA NotFoundStep == ASSUME EInv, notFound PROVE EInv'
<1>1. /\ phase = "down" /\ phase' = "up" /\ err' = 404
      /\ UNCHANGED <<app, n, rewritten, build, cache, req, resp>>
  BY DEF notFound, Innermost, return, staticVars, connVars
<1>2. /\ err = 0 /\ "handler" \notin req.ran /\ ~req.preflight
      /\ resp.location = "none" /\ resp.body = "none" /\ req \in ReqT /\ resp \in RespT
      /\ rewritten \in BOOLEAN
  BY <1>1 DEF EInv, WayInv, EdgeTypeOK
<1>3. PromiseInv'
  BY <1>1, <1>2 DEF EInv, PromiseInv
<1> QED BY <1>1, <1>2, <1>3, FrameStep

\* The innermost handler: a file is answered as ServeFacts says, and whether its
\* handler was made is the same for every Static route of a built App.
LEMMA HandlerStep ==
  ASSUME SInv, EInv, NEW target \in Targets, NEW e \in Statics, Handler(target, e) PROVE EInv'
<1> DEFINE out == CASE target = "bare" -> Answer(writeDirRedirect(resp), 0)
                    [] target = "ok" -> Answer([resp EXCEPT !.body = "handler"], 0)
                    [] target = "fail" -> Answer([resp EXCEPT !.body = "handler"], 500)
                    [] OTHER -> serve(e, target, resp)
           want == IF cache[e] = "none" THEN 500 ELSE Wanted(target)
           q == Ran("handler")
<1>1. /\ phase = "down" /\ phase' = "up" /\ resp' = out.resp /\ err' = out.err
      /\ req' = [q EXCEPT !.target = target]
      /\ UNCHANGED <<app, n, rewritten, build, cache>>
  BY DEF Handler, Innermost, return, staticVars, connVars
<1>2. /\ err = 0 /\ ~req.preflight /\ n > 0 /\ build = "done" /\ resp.location = "none"
      /\ resp.body = "none" /\ req \in ReqT /\ resp \in RespT /\ rewritten \in BOOLEAN
  BY <1>1 DEF EInv, WayInv, EdgeTypeOK
<1>3. resp.status \in Nat /\ resp.status \notin {401, 429}
  BY <1>2 DEF EInv, PromiseInv, RespT
<1>4. q \in ReqT /\ q.ran = req.ran \cup {"handler"} /\ q.origin = req.origin
      /\ q.preflight = req.preflight
  BY <1>2, RanType DEF Kinds
<1> HIDE DEF q
<1>5. /\ req' \in ReqT /\ req'.ran = q.ran /\ req'.origin = q.origin
      /\ req'.preflight = q.preflight /\ req'.target = target
  BY <1>1, <1>4 DEF ReqT
<1>6. /\ resp' \in RespT /\ resp'.headers = resp.headers /\ err' \in Nat
      /\ err' \notin {401, 429} /\ resp'.status \notin {401, 429}
      /\ target \in FilePaths =>
           /\ want = IF err' = 0 THEN resp'.status ELSE err'
           /\ want >= 400 <=> err' # 0
           /\ resp'.location = IF want = 301 THEN "own" ELSE "none"
           /\ resp'.body # "funnel"
  <2>1. CASE target = "bare"
    <3>1. resp' = writeDirRedirect(resp) /\ err' = 0
      BY <1>1, <2>1 DEF Answer
    <3>2. target \notin FilePaths
      BY <2>1, Statuses
    <3> QED BY <1>2, <3>1, <3>2, RedirectType
  <2>2. CASE target \in {"ok", "fail"}
    <3>1. resp' = [resp EXCEPT !.body = "handler"] /\ err' \in {0, 500}
      BY <1>1, <2>2 DEF Answer
    <3>2. target \notin FilePaths
      BY <2>2, Statuses
    <3>3. /\ resp' \in RespT /\ resp'.headers = resp.headers /\ resp'.status = resp.status
      BY <1>2, <3>1 DEF RespT, Writers
    <3> QED BY <1>3, <3>1, <3>2, <3>3
  <2>3. CASE target \in FilePaths
    <3>1. target \notin {"bare", "ok", "fail"}
      BY <2>3, Statuses
    <3>2. resp' = serve(e, target, resp).resp /\ err' = serve(e, target, resp).err
      BY <1>1, <3>1
    <3> QED BY <1>2, <1>3, <2>3, <3>2, ServeFacts
  <2> QED BY <2>1, <2>2, <2>3 DEF Targets
<1>7. Unmade <=> cache[e] = "none"
  BY <1>2 DEF Unmade, SInv, MadeInv
<1>8. Unmade' <=> Unmade
  BY <1>1 DEF Unmade
<1> HIDE DEF out, want
<1>9. EdgeTypeOK'
  BY <1>1, <1>2, <1>5, <1>6 DEF EInv, EdgeTypeOK
<1>10. WayInv'
  BY <1>1, <1>2 DEF WayInv
<1>11. PromiseInv'
  BY <1>1, <1>2, <1>4, <1>5, <1>6 DEF EInv, PromiseInv
<1>12. FileInv'
  BY <1>1, <1>5, <1>6, <1>7, <1>8 DEF FileInv, want
<1> QED BY <1>9, <1>10, <1>11, <1>12 DEF EInv

\* The way up: the funnel replaces status and body and keeps the headers.
LEMMA RespondStep == ASSUME EInv, Respond PROVE EInv'
<1>1. /\ phase = "up" /\ phase' = "done" /\ UNCHANGED <<app, n, rewritten, build, cache, req, err>>
      /\ resp' = IF err = 0 THEN resp ELSE [resp EXCEPT !.status = err, !.body = "funnel"]
  BY DEF Respond, staticVars, connVars
<1>2. resp \in RespT /\ err \in Nat /\ n > 0 /\ build = "done"
  BY <1>1 DEF EInv, WayInv, EdgeTypeOK
<1>3. /\ resp' \in RespT /\ resp'.headers = resp.headers /\ resp'.location = resp.location
      /\ resp'.status = (IF err = 0 THEN resp.status ELSE err)
      /\ resp'.body = (IF err = 0 THEN resp.body ELSE "funnel")
  BY <1>1, <1>2 DEF RespT, Writers
<1>4. EdgeTypeOK'
  BY <1>1, <1>3 DEF EInv, EdgeTypeOK
<1>5. WayInv'
  BY <1>1, <1>2 DEF WayInv
<1>6. PromiseInv'
  BY <1>1, <1>3 DEF EInv, PromiseInv
<1>7. Unmade' <=> Unmade
  BY <1>1 DEF Unmade
<1>8. FileInv'
  BY <1>1, <1>3, <1>7 DEF EInv, FileInv
<1> QED BY <1>4, <1>5, <1>6, <1>8 DEF EInv

\* Build and stopStatic beside the connection: once requests are served, no file
\* handler appears or goes away.
LEMMA StaticBeside ==
  ASSUME SInv, EInv, StaticNext, UNCHANGED <<app, rewritten, n, phase, req, resp, err>> PROVE EInv'
<1>1. n \in Nat
  BY DEF EInv, EdgeTypeOK
<1>2. n > 0 => build = "done" /\ build' = "done" /\ (Unmade' <=> Unmade)
  <2> SUFFICES ASSUME n > 0 PROVE build = "done" /\ build' = "done" /\ (Unmade' <=> Unmade)
    OBVIOUS
  <2>1. build = "done"
    BY DEF EInv, WayInv
  <2>2. UNCHANGED build /\ (UNCHANGED cache \/ StopEntry)
    BY <2>1 DEF StaticNext, BuildBegin, BuildEntry, BuildEnd, runShutdown, StopBegin, StopEntry,
       staticVars
  <2>3. CASE StopEntry
    <3>1. \A e \in Statics : cache'[e] = "none" <=> cache[e] = "none"
      BY <2>3 DEF StopEntry, Stopping, SInv, StaticTypeOK
    <3> QED BY <2>1, <2>2, <3>1 DEF Unmade
  <2>4. CASE UNCHANGED cache
    BY <2>1, <2>2, <2>4 DEF Unmade
  <2> QED BY <2>2, <2>3, <2>4
<1>3. EdgeTypeOK' /\ PromiseInv'
  BY DEF EInv, EdgeTypeOK, PromiseInv
<1>4. WayInv'
  BY <1>1, <1>2 DEF EInv, WayInv
<1>5. FileInv'
  BY <1>1, <1>2 DEF EInv, WayInv, FileInv
<1> QED BY <1>3, <1>4, <1>5 DEF EInv

LEMMA EdgeBase == ASSUME Init PROVE EInv
<1>1. NoRequest \in ReqT
  BY DEF NoRequest, ReqT, Chains, Clients
<1>2. FreshResponse \in RespT
  BY DEF FreshResponse, RespT, Locations, Writers
<1>3. req.ran = {} /\ ~req.preflight /\ resp.headers = {} /\ resp.status = 200
  BY DEF Init, NoRequest, FreshResponse
<1>4. EdgeTypeOK
  BY <1>1, <1>2 DEF Init, EdgeTypeOK
<1> QED BY <1>3, <1>4 DEF Init, EInv, WayInv, PromiseInv, FileInv

LEMMA EdgeStep == ASSUME SInv, EInv, [Next]_vars PROVE EInv'
<1>1. CASE UNCHANGED vars
  <2>1. UNCHANGED <<app, n, rewritten, build, cache, phase, req, resp, err>>
    BY <1>1 DEF vars, connVars, staticVars
  <2>2. Unmade' <=> Unmade
    BY <2>1 DEF Unmade
  <2> QED BY <2>1, <2>2 DEF EInv, EdgeTypeOK, WayInv, PromiseInv, FileInv
<1>2. CASE Next
  <2>1. CASE StaticNext /\ UNCHANGED <<app, hops, connVars, phase, at, req, resp,
                                       err, id, user, seen, charged>>
    BY <2>1, StaticBeside DEF connVars
  <2>2. CASE Finished
    BY <1>1, <2>2 DEF Finished
  <2> QED BY <1>2, <2>1, <2>2, HandleStep, RealIPStep, RequestIDStep, CORSStep, RateLimitStep,
             BasicAuthStep, KeyAuthStep, HandlerStep, NotFoundStep, LoggerStep, RespondStep
          DEF Next
<1> QED BY <1>1, <1>2

\* The invariant of the connection, beside that of Build and stopStatic.
THEOREM EdgeInvariant == Spec => [](SInv /\ EInv)
<1>1. Init => EInv
  BY EdgeBase
<1>2. SInv /\ EInv /\ [Next]_vars => EInv'
  BY EdgeStep
<1> QED BY StaticInvariant, <1>1, <1>2, PTL DEF Spec

\* For every chain of middleware and every sequence of requests, each header
\* that a middleware promised is on the response (CORS, RequestID, RateLimit,
\* unauthorized, serve, respond).
THEOREM PromisedHeadersReachClient == Spec => []HeadersReachClient
<1>1. EInv => HeadersReachClient
  BY DEF EInv, PromiseInv, HeadersReachClient, Answered
<1> QED BY EdgeInvariant, <1>1, PTL

\* A Static route's answer is fasthttp's where that stands and the funnel's
\* elsewhere, whenever Build and Shutdown ran (serve, staticResult).
THEOREM FilesAreAnswered == Spec => []FilesAnswered
<1>1. EInv => FilesAnswered
  BY DEF EInv, FileInv, FilesAnswered, Answered, Unmade
<1> QED BY EdgeInvariant, <1>1, PTL
-----------------------------------------------------------------------------
\* Whose request it is.  The address on the connection is the request's own
\* unless an earlier request left it and RealIP has not run in this one, or
\* RealIP counted its entries as the comment does not; the id, the user, the
\* limiter's keys and the log line follow it.
AuthKinds == {"basicauth", "keyauth", "bearer"}
AddressInv ==
  /\ remote = NoIP \/ remote \in Address
  /\ ~rewritten => remote = NoIP
  /\ n > 0 /\ ~req.excepted => req.client \in Address /\ ClientIP = req.client
IdInv == id # "none" <=> "requestid" \in req.ran
UserInv ==
  req.ran \cap AuthKinds # {} /\ (phase = "down" \/ "handler" \in req.ran) => user = "known"
ChargeInv == \A x \in charged : x.client \in Address /\ x.key = clientKey(x.client)
SeenInv == phase = "done" /\ "logger" \in req.ran => seen.ip = ClientIP /\ seen.id = id
AInv == AddressInv /\ IdInv /\ UserInv /\ ChargeInv /\ SeenInv

\* What the frames have in common.
LEMMA DownFacts ==
  ASSUME EInv, phase = "down"
  PROVE  n > 0 /\ n \in Nat /\ "handler" \notin req.ran /\ req \in ReqT
  BY DEF EInv, EdgeTypeOK, WayInv

LEMMA AddressSame ==
  ASSUME AddressInv, UNCHANGED <<remote, rewritten, n>>,
         req'.client = req.client, req'.excepted = req.excepted
  PROVE  AddressInv'
  BY DEF AddressInv, ClientIP

LEMMA FrameAttributes ==
  ASSUME AInv, EInv, phase = "down", NEW kind \in Kinds \ {"handler", "requestid"},
         UNCHANGED <<remote, rewritten, n, id>>, phase' \in {"down", "up"},
         req'.client = req.client, req'.excepted = req.excepted, req'.ran = req.ran \cup {kind},
         phase' = "down" => IF kind \in AuthKinds THEN user' = "known" ELSE UNCHANGED user,
         ChargeInv'
  PROVE  AInv'
<1>1. "handler" \notin req.ran
  BY DownFacts
<1>2. AddressInv'
  BY AddressSame DEF AInv
<1>3. IdInv'
  BY DEF AInv, IdInv
<1>4. UserInv'
  BY <1>1 DEF AInv, UserInv
<1>5. SeenInv'
  BY DEF SeenInv
<1> QED BY <1>2, <1>3, <1>4, <1>5 DEF AInv

LEMMA HandleAttributes ==
  ASSUME AInv, EInv, NEW miss \in BOOLEAN, NEW route \in RouteChains, handle(miss, route)
  PROVE  AInv'
<1>1. /\ n' = n + 1 /\ phase' = "down" /\ id' = "none" /\ UNCHANGED <<remote, rewritten, charged>>
      /\ req' = [NoRequest EXCEPT !.target = IF miss THEN "miss" ELSE "route",
               !.chain = IF miss THEN app ELSE app \o route,
               !.excepted = rewritten, !.client = Peer]
  BY DEF handle
<1>2. req'.ran = {} /\ req'.excepted = rewritten /\ req'.client = Peer
  BY <1>1 DEF NoRequest
<1>3. AddressInv'
  <2>1. ~rewritten => ClientIP' = Peer
    BY <1>1 DEF AInv, AddressInv, ClientIP
  <2> QED BY <1>1, <1>2, <2>1, EdgeAssumption DEF AInv, AddressInv
<1>4. IdInv' /\ UserInv' /\ SeenInv'
  BY <1>1, <1>2 DEF IdInv, UserInv, SeenInv
<1>5. ChargeInv'
  BY <1>1 DEF AInv, ChargeInv
<1> QED BY <1>3, <1>4, <1>5 DEF AInv

LEMMA RealIPAttributes ==
  ASSUME AInv, EInv, NEW reading \in Readings, RealIP(reading) PROVE AInv'
<1> DEFINE q == Ran("realip")
           c == IF reading.client = NoIP THEN Peer ELSE reading.client
<1>1. /\ phase = "down" /\ phase' = "down" /\ remote' = reading.ip /\ rewritten' = TRUE
      /\ req' = [q EXCEPT !.excepted = reading.skips, !.client = c]
      /\ UNCHANGED <<n, id, user, charged>>
  BY DEF RealIP, InFrame, next
<1>2. n > 0 /\ n \in Nat /\ req \in ReqT /\ "handler" \notin req.ran
  BY <1>1, DownFacts
<1>3. q \in ReqT /\ q.ran = req.ran \cup {"realip"}
  BY <1>2, RanType DEF Kinds
<1> HIDE DEF q
<1>4. req'.ran = req.ran \cup {"realip"} /\ req'.excepted = reading.skips /\ req'.client = c
  BY <1>1, <1>3 DEF ReqT
<1>5. AddressInv'
  <2>1. /\ ~reading.skips => reading.client = reading.ip
        /\ reading.ip = NoIP \/ reading.ip \in Address
    BY ReadingFacts
  <2>2. ~reading.skips => c = ClientIP' /\ c \in Address
    BY <1>1, <2>1, EdgeAssumption DEF ClientIP
  <2> QED BY <1>1, <1>4, <2>1, <2>2 DEF AddressInv
<1>6. IdInv' /\ SeenInv'
  BY <1>1, <1>4 DEF AInv, IdInv, SeenInv
<1>7. UserInv'
  BY <1>1, <1>4 DEF AInv, UserInv, AuthKinds
<1>8. ChargeInv'
  BY <1>1 DEF AInv, ChargeInv
<1> QED BY <1>5, <1>6, <1>7, <1>8 DEF AInv

LEMMA RequestIDAttributes ==
  ASSUME AInv, EInv, NEW valid \in BOOLEAN, RequestID(valid) PROVE AInv'
<1>1. /\ phase = "down" /\ phase' = "down" /\ id' # "none" /\ req' = Ran("requestid")
      /\ UNCHANGED <<remote, rewritten, n, user, charged>>
  BY DEF RequestID, InFrame, next, connVars
<1>2. req \in ReqT
  BY <1>1, DownFacts
<1>3. req'.ran = req.ran \cup {"requestid"} /\ req'.client = req.client /\ req'.excepted = req.excepted
  BY <1>1, <1>2, RanType DEF Kinds
<1>4. AddressInv'
  BY <1>1, <1>3, AddressSame DEF AInv
<1>5. IdInv' /\ SeenInv'
  BY <1>1, <1>3 DEF IdInv, SeenInv
<1>6. UserInv'
  BY <1>1, <1>3 DEF AInv, UserInv, AuthKinds
<1>7. ChargeInv'
  BY <1>1 DEF AInv, ChargeInv
<1> QED BY <1>4, <1>5, <1>6, <1>7 DEF AInv

\* CORS, Logger and RateLimit, whose request is not noted otherwise.
LEMMA CORSAttributes ==
  ASSUME AInv, EInv, NEW origin \in {"none", "allowed", "other"}, NEW preflight \in BOOLEAN,
         CORS(origin, preflight)
  PROVE  AInv'
<1> DEFINE q == Ran("cors")
<1>1. /\ phase = "down" /\ phase' \in {"down", "up"}
      /\ req' = [q EXCEPT !.origin = origin, !.preflight = preflight]
      /\ UNCHANGED <<remote, rewritten, n, id, user, charged>>
  BY DEF CORS, InFrame, next, return, connVars
<1>2. req \in ReqT
  BY <1>1, DownFacts
<1>3. /\ q \in ReqT /\ q.ran = req.ran \cup {"cors"} /\ q.client = req.client
      /\ q.excepted = req.excepted
  BY <1>2, RanType DEF Kinds
<1> HIDE DEF q
<1>4. req'.ran = req.ran \cup {"cors"} /\ req'.client = req.client /\ req'.excepted = req.excepted
  BY <1>1, <1>3 DEF ReqT
<1>5. ChargeInv'
  BY <1>1 DEF AInv, ChargeInv
<1>6. "cors" \in Kinds \ {"handler", "requestid"} /\ "cors" \notin AuthKinds
  BY DEF Kinds, AuthKinds
<1> QED BY <1>1, <1>4, <1>5, <1>6, FrameAttributes

LEMMA LoggerAttributes == ASSUME AInv, EInv, Logger PROVE AInv'
<1>1. /\ phase = "down" /\ phase' = "down" /\ req' = Ran("logger")
      /\ UNCHANGED <<remote, rewritten, n, id, user, charged>>
  BY DEF Logger, InFrame, next, connVars
<1>2. req \in ReqT
  BY <1>1, DownFacts
<1>3. req'.ran = req.ran \cup {"logger"} /\ req'.client = req.client /\ req'.excepted = req.excepted
  BY <1>1, <1>2, RanType DEF Kinds
<1>4. ChargeInv'
  BY <1>1 DEF AInv, ChargeInv
<1>5. "logger" \in Kinds \ {"handler", "requestid"} /\ "logger" \notin AuthKinds
  BY DEF Kinds, AuthKinds
<1> QED BY <1>1, <1>3, <1>4, <1>5, FrameAttributes

LEMMA RateLimitAttributes ==
  ASSUME AInv, EInv, NEW take \in {"ok", "wait", "error"}, RateLimit(take) PROVE AInv'
<1>1. /\ phase = "down" /\ phase' \in {"down", "up"} /\ req' = Ran("ratelimit")
      /\ charged' = IF req.excepted THEN charged
                    ELSE charged \cup {[client |-> req.client, key |-> clientKey(ClientIP)]}
      /\ UNCHANGED <<remote, rewritten, n, id, user>>
  BY DEF RateLimit, InFrame, next, return, connVars
<1>2. req \in ReqT /\ n > 0
  BY <1>1, DownFacts
<1>3. /\ req'.ran = req.ran \cup {"ratelimit"} /\ req'.client = req.client
      /\ req'.excepted = req.excepted
  BY <1>1, <1>2, RanType DEF Kinds
<1>4. ChargeInv'
  <2>1. ~req.excepted => req.client \in Address /\ ClientIP = req.client
    BY <1>2 DEF AInv, AddressInv
  <2> QED BY <1>1, <2>1 DEF AInv, ChargeInv
<1>5. "ratelimit" \in Kinds \ {"handler", "requestid"} /\ "ratelimit" \notin AuthKinds
  BY DEF Kinds, AuthKinds
<1> QED BY <1>1, <1>3, <1>4, <1>5, FrameAttributes

\* Validated lets a request pass only with its user.
LEMMA AuthAttributes ==
  ASSUME AInv, EInv, NEW kind \in AuthKinds, InFrame(kind), req' = Ran(kind),
         UNCHANGED <<remote, rewritten, n, id, charged>>,
         NEW creds \in {"unreadable", "rejected", "unknown", "good"}, NEW challenge \in BOOLEAN,
         IF creds = "unreadable" THEN unauthorized(challenge) ELSE Validated(creds, challenge)
  PROVE  AInv'
<1>1. phase = "down"
  BY DEF InFrame
<1>2. phase' \in {"down", "up"} /\ (phase' = "down" => user' = "known")
  BY <1>1 DEF unauthorized, Validated, next, return
<1>3. req \in ReqT
  BY <1>1, DownFacts
<1>4. kind \in Kinds \ {"handler", "requestid"}
  BY DEF Kinds, AuthKinds
<1>5. req'.ran = req.ran \cup {kind} /\ req'.client = req.client /\ req'.excepted = req.excepted
  BY <1>3, <1>4, RanType
<1>6. ChargeInv'
  BY DEF AInv, ChargeInv
<1> QED BY <1>1, <1>2, <1>4, <1>5, <1>6, FrameAttributes

LEMMA BasicAuthAttributes ==
  ASSUME AInv, EInv, NEW creds \in {"unreadable", "rejected", "unknown", "good"},
         BasicAuth(creds)
  PROVE  AInv'
<1>1. /\ InFrame("basicauth") /\ UNCHANGED <<remote, rewritten, n, id, charged>>
      /\ req' = Ran("basicauth")
      /\ IF creds = "unreadable" THEN unauthorized(TRUE) ELSE Validated(creds, TRUE)
  BY DEF BasicAuth, connVars
<1>2. "basicauth" \in AuthKinds
  BY DEF AuthKinds
<1> QED BY <1>1, <1>2, AuthAttributes

LEMMA KeyAuthAttributes ==
  ASSUME AInv, EInv, NEW creds \in {"unreadable", "rejected", "unknown", "good"},
         NEW bearer \in BOOLEAN, KeyAuth(creds, bearer)
  PROVE  AInv'
<1> DEFINE kind == IF bearer THEN "bearer" ELSE "keyauth"
<1>1. /\ InFrame(kind) /\ UNCHANGED <<remote, rewritten, n, id, charged>>
      /\ req' = Ran(kind)
      /\ IF creds = "unreadable" THEN unauthorized(bearer) ELSE Validated(creds, bearer)
  BY DEF KeyAuth, connVars
<1>2. kind \in AuthKinds
  BY DEF AuthKinds
<1> HIDE DEF kind
<1> QED BY <1>1, <1>2, AuthAttributes

\* The innermost handler, the miss and the way up.
LEMMA HandlerAttributes ==
  ASSUME AInv, EInv, NEW target \in Targets, NEW e \in Statics, Handler(target, e) PROVE AInv'
<1> DEFINE q == Ran("handler")
<1>1. /\ phase = "down" /\ phase' = "up" /\ req' = [q EXCEPT !.target = target]
      /\ UNCHANGED <<remote, rewritten, n, id, user, charged>>
  BY DEF Handler, Innermost, return, connVars
<1>2. req \in ReqT
  BY <1>1, DownFacts
<1>3. /\ q \in ReqT /\ q.ran = req.ran \cup {"handler"} /\ q.client = req.client
      /\ q.excepted = req.excepted
  BY <1>2, RanType DEF Kinds
<1> HIDE DEF q
<1>4. req'.ran = req.ran \cup {"handler"} /\ req'.client = req.client /\ req'.excepted = req.excepted
  BY <1>1, <1>3 DEF ReqT
<1>5. AddressInv'
  BY <1>1, <1>4, AddressSame DEF AInv
<1>6. IdInv' /\ SeenInv'
  BY <1>1, <1>4 DEF AInv, IdInv, SeenInv
<1>7. UserInv'
  BY <1>1, <1>4 DEF AInv, UserInv, AuthKinds
<1>8. ChargeInv'
  BY <1>1 DEF AInv, ChargeInv
<1> QED BY <1>5, <1>6, <1>7, <1>8 DEF AInv

LEMMA NotFoundAttributes == ASSUME AInv, EInv, notFound PROVE AInv'
<1>1. /\ phase = "down" /\ phase' = "up"
      /\ UNCHANGED <<remote, rewritten, n, id, user, charged, req>>
  BY DEF notFound, Innermost, return, connVars
<1>2. "handler" \notin req.ran
  BY <1>1, DownFacts
<1>3. AddressInv'
  BY <1>1, AddressSame DEF AInv
<1>4. IdInv' /\ SeenInv' /\ UserInv'
  BY <1>1, <1>2 DEF AInv, IdInv, SeenInv, UserInv
<1>5. ChargeInv'
  BY <1>1 DEF AInv, ChargeInv
<1> QED BY <1>3, <1>4, <1>5 DEF AInv

LEMMA RespondAttributes == ASSUME AInv, EInv, Respond PROVE AInv'
<1> DEFINE sent == IF err = 0 THEN resp
                   ELSE [resp EXCEPT !.status = err, !.body = "funnel"]
<1>1. /\ phase = "up" /\ phase' = "done"
      /\ seen' = IF "logger" \in req.ran
                 THEN [ip |-> ClientIP, id |-> id, status |-> sent.status] ELSE seen
      /\ UNCHANGED <<remote, rewritten, n, id, user, charged, req>>
  BY DEF Respond, connVars
<1> HIDE DEF sent
<1>2. AddressInv'
  BY <1>1, AddressSame DEF AInv
<1>3. IdInv' /\ UserInv'
  BY <1>1 DEF AInv, IdInv, UserInv
<1>4. SeenInv'
  BY <1>1 DEF SeenInv, ClientIP
<1>5. ChargeInv'
  BY <1>1 DEF AInv, ChargeInv
<1> QED BY <1>2, <1>3, <1>4, <1>5 DEF AInv

LEMMA AttributesSame ==
  ASSUME AInv, UNCHANGED <<remote, rewritten, n, phase, req, id, user, seen, charged>>
  PROVE  AInv'
  BY DEF AInv, AddressInv, IdInv, UserInv, ChargeInv, SeenInv, ClientIP

LEMMA AttributesBase == ASSUME Init PROVE AInv
<1>1. req.ran = {}
  BY DEF Init, NoRequest
<1>2. n = 0 /\ ~(n > 0)
  BY DEF Init
<1>3. AddressInv
  BY <1>2 DEF Init, AddressInv
<1>4. IdInv /\ UserInv /\ SeenInv /\ ChargeInv
  BY <1>1 DEF Init, IdInv, UserInv, SeenInv, ChargeInv
<1> QED BY <1>3, <1>4 DEF AInv

LEMMA AttributesStep == ASSUME EInv, AInv, [Next]_vars PROVE AInv'
<1>1. CASE UNCHANGED vars
  BY <1>1, AttributesSame DEF vars, connVars
<1>2. CASE Next
  <2>1. CASE StaticNext /\ UNCHANGED <<app, hops, connVars, phase, at, req, resp,
                                       err, id, user, seen, charged>>
    BY <2>1, AttributesSame DEF connVars
  <2>2. CASE Finished
    BY <1>1, <2>2 DEF Finished
  <2> QED BY <1>2, <2>1, <2>2, HandleAttributes, RealIPAttributes, RequestIDAttributes,
             CORSAttributes, RateLimitAttributes, BasicAuthAttributes, KeyAuthAttributes,
             HandlerAttributes, NotFoundAttributes, LoggerAttributes, RespondAttributes
          DEF Next
<1> QED BY <1>1, <1>2

\* Whatever X-Forwarded-For lines its requests carry, in whatever order the
\* middleware stands and however many requests share the connection, a request
\* is logged, limited and authorised as its own, under the address RealIP's
\* documentation gives it unless a line after the first begins with an empty
\* entry (RealIP, resolve, parseEntry, Logger, RateLimit, clientKey, Validated).
THEOREM RequestsAreAttributed == Spec => []AttributedToClient
<1>1. Init => AInv
  BY AttributesBase
<1>2. EInv /\ AInv /\ [Next]_vars => AInv'
  BY AttributesStep
<1>3. EInv /\ AInv => AttributedToClient
  <2> SUFFICES ASSUME EInv, AInv PROVE AttributedToClient
    OBVIOUS
  <2>1. Answered /\ "logger" \in req.ran =>
          /\ ~req.excepted => seen.ip = req.client
          /\ "requestid" \in req.ran <=> seen.id # "none"
    BY DEF Answered, AInv, AddressInv, SeenInv, IdInv
  <2>2. ASSUME NEW x \in charged, NEW y \in charged
        PROVE  x.key = y.key <=> SameClient(x.client, y.client)
    <3>1. /\ x.client \in Address /\ x.key = clientKey(x.client)
          /\ y.client \in Address /\ y.key = clientKey(y.client)
      BY DEF AInv, ChargeInv
    <3> QED BY <3>1, KeysTell
  <2>3. "handler" \in req.ran /\ req.ran \cap AuthKinds # {} => user = "known"
    BY DEF AInv, UserInv
  <2> QED BY <2>1, <2>2, <2>3 DEF AttributedToClient, AuthKinds
<1> QED BY EdgeInvariant, <1>1, <1>2, <1>3, PTL DEF Spec
=============================================================================
