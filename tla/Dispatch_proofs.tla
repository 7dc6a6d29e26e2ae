-------------------------- MODULE Dispatch_proofs ---------------------------
(***************************************************************************)
(* The dispatch path, for any middleware chains, errors, workers and Ctxs: *)
(* a Ctx serves one request at a time, a request is settled once, a panic  *)
(* is a 500, the status recorded is the one sent, contexts are scoped and  *)
(* a stream starts exactly when nothing else answered.                     *)
(***************************************************************************)
EXTENDS Dispatch, SequenceTheorems, WellFoundedInduction, TLAPS

\* A request holds a Ctx from Acquire to Release.
Holds(q) == q.pc \in {"down", "up", "release"}
HoldInv == \A r \in Workers : rq[r].c # Nobody <=> Holds(rq[r])

\* The ErrorHandler has run once if the Ctx says so and never if not; only user
\* code panics, and a panic under way knows whether it came after that.
Funnelled(q, x) ==
  /\ q.funnels = IF x.handled THEN 1 ELSE 0
  /\ q.pc = "up" /\ q.res.kind = "panic" => q.bug /\ (x.handled => q.late)

\* The Ctx knows the stream asked for.
Recorded(q, x) ==
  /\ x.streamSet <=> q.asked
  /\ x.streamFn <=> (q.asked /\ ~q.head)
  /\ q.body # "stream"

\* m is the innermost of the first d middleware that derive a context, or 0.
Derived(chain, d) == {i \in 1..d : chain[i] \in {"timeout", "otel"}}
Scope(chain, d, m) ==
  /\ m \in {0} \cup Derived(chain, d)
  /\ \A i \in Derived(chain, d) : i <= m

\* The Ctx has that context, and every frame the one it found.
Scoped(q, x) ==
  /\ Len(q.frames) <= Len(q.chain)
  /\ Scope(q.chain, Len(q.frames), x.ctx)
  /\ \A i \in 1..Len(q.frames) : Scope(q.chain, i - 1, q.frames[i].prev)

\* A panic that is the outcome: still unwinding, carried by an error that is not
\* settled, or settled as the ErrorHandler settles one.
PanicCode(q) == IF q.own THEN CustomStatus ELSE 500
HasPanic(e) == \E i \in DOMAIN e : e[i].link = "panic"
Bug(q) == q.bug /\ (q.late => "recover" \notin Range(q.chain))
\* The handler failed, and no middleware of the program's own can swallow that.
Fails(q) == q.failed /\ "user" \notin Range(q.chain)
Carried(q, x) ==
  /\ q.pc = "down" => ~q.bug /\ ~q.failed
  /\ q.pc = "up" /\ Fails(q) => q.res.kind = "panic" \/ x.handled \/ q.res.e # <<>>
  /\ q.pc = "up" /\ Bug(q) =>
       \/ q.res.kind = "panic"
       \/ x.handled /\ q.status = PanicCode(q)
       \/ ~x.handled /\ HasPanic(q.res.e)

\* An outermost Logger or otelrice has recorded nothing until its frame is left,
\* and then what Settle will not change.
Outermost(q, kind) == q.chain # <<>> /\ q.chain[1] = kind
Noted(q) ==
  /\ q.pc = "down" \/ Len(q.frames) > 0 => q.logged = 0
  /\ q.pc = "up" /\ Len(q.frames) = 0 =>
       /\ Outermost(q, "logger") =>
            \/ q.res.kind = "panic" /\ q.logged = 0
            \/ q.res.kind = "return" /\ q.res.e = <<>> /\ q.logged = q.status
       /\ Outermost(q, "otel") =>
            \/ q.res.kind = "panic" /\ q.span = 500
            \/ q.res.kind = "return" /\ q.res.e = <<>> /\ q.span = q.status

Live(q, x) == Funnelled(q, x) /\ Recorded(q, x) /\ Carried(q, x) /\ Noted(q)

\* What an outermost otelrice recorded.
SpanOK(q) == q.span = IF q.own /\ q.res.kind = "panic" THEN 500 ELSE q.status

\* What the properties say of a request that handle has settled, and what its
\* stream depends on.
Ended(q) ==
  /\ q.funnels <= IF q.late /\ q.bug THEN 2 ELSE 1
  /\ Bug(q) => q.status = PanicCode(q)
  /\ Outermost(q, "logger") => q.logged \in {0, q.status}
  /\ Outermost(q, "otel") => SpanOK(q)
  /\ Fails(q) => q.funnels # 0
  /\ q.pc # "done" => /\ q.fn <=> (q.asked /\ ~q.head)
                      /\ q.answered <=> q.funnels # 0
                      /\ q.body # "stream"
  /\ q.pc = "done" => (q.body = "stream" <=> (q.asked /\ ~q.head /\ q.funnels = 0))

RequestOK(q, x) ==
  /\ q.pc = "idle" => q.funnels = 0
  /\ q.pc \in {"down", "up"} => Live(q, x)
  /\ Holds(q) => Scoped(q, x)
  /\ q.pc \in {"release", "start", "done"} => Ended(q)
RequestInv == \A r \in Workers : RequestOK(rq[r], Ctx(r))

IInv == TypeOK /\ HoldInv /\ CtxPrivate /\ RequestInv
-----------------------------------------------------------------------------
\* A non-empty set of natural numbers has a least element.
LEMMA MinOf ==
  ASSUME NEW S \in SUBSET Nat, S # {}
  PROVE  Min(S) \in S
<1> DEFINE R == OpToRel(<, Nat)
<1>1. IsWellFoundedOn(R, Nat)
  BY NatLessThanWellFounded
<1>2. \A x, y \in Nat : x < y => <<x, y>> \in R
  BY DEF OpToRel
<1> HIDE DEF R
<1>3. PICK x \in S : \A y \in S : ~(<<y, x>> \in R)
  BY <1>1, WFMin
<1>4. \A y \in S : x \in Nat /\ y \in Nat /\ ~(y < x)
  BY <1>2, <1>3
<1>5. \A y \in S : x <= y
  BY <1>4
<1> QED BY <1>5 DEF Min

\* Front and Last of a sequence that is not empty.
LEMMA FrontLast ==
  ASSUME NEW S, NEW s \in Seq(S), Len(s) > 0
  PROVE  /\ Front(s) \in Seq(S) /\ Len(Front(s)) = Len(s) - 1
         /\ \A i \in 1..(Len(s) - 1) : Front(s)[i] = s[i]
         /\ Last(s) = s[Len(s)] /\ Last(s) \in S
<1> DEFINE n == Len(s) - 1
<1>1. n \in Nat /\ n < Len(s) /\ \A i \in 1..n : s[i] \in S
  OBVIOUS
<1>2. /\ Front(s) \in Seq(S) /\ Len(Front(s)) = IF 1 <= n THEN n - 1 + 1 ELSE 0
      /\ \A i \in 1..(n - 1 + 1) : Front(s)[i] = s[1 + i - 1]
  <2> HIDE DEF n
  <2>1. Front(s) = SubSeq(s, 1, n)
    BY DEF Front, n
  <2> QED BY <1>1, <2>1, SubSeqProperties
<1>3. Last(s) = s[Len(s)] /\ Last(s) \in S
  BY DEF Last
<1>4. Len(Front(s)) = n /\ \A i \in 1..n : Front(s)[i] = s[i]
  <2> HIDE DEF n
  <2>1. n - 1 + 1 = n /\ (~(1 <= n) => n = 0)
    BY <1>1
  <2>2. \A i \in 1..n : 1 + i - 1 = i
    BY <1>1
  <2> QED BY <1>2, <2>1, <2>2
<1> QED BY <1>2, <1>3, <1>4

\* The status of an error is a status, and that of a panic 500 unless the program
\* answers it itself.
LEMMA StatusOf ==
  ASSUME NEW e \in ErrT, e # <<>>
  PROVE  /\ callErrorHandler(e) \in Nat
         /\ HasPanic(e) =>
              callErrorHandler(e) = IF app.errorHandler = "custom" THEN CustomStatus ELSE 500
<1>1. \A i \in DOMAIN e : e[i].code \in Nat
  <2>1. \A i \in DOMAIN e : e[i] \in LinkT
    BY DEF ErrT
  <2> QED BY <2>1 DEF LinkT
<1>2. 1 \in DOMAIN e /\ DOMAIN e = 1..Len(e) /\ Len(e) \in Nat
  BY DEF ErrT
<1>3. \A n \in Nat : validStatus(n) \in Nat
  BY DEF validStatus
<1>4. HTTPErrors(e) # {} => Min(HTTPErrors(e)) \in DOMAIN e
  <2>1. HTTPErrors(e) \in SUBSET Nat /\ HTTPErrors(e) \subseteq DOMAIN e
    BY <1>2 DEF HTTPErrors
  <2> QED BY <2>1, MinOf
<1>5. DefaultErrorHandler(e) \in Nat
  BY <1>1, <1>2, <1>3, <1>4 DEF DefaultErrorHandler
<1>6. HasPanic(e) => DefaultErrorHandler(e) = 500
  <2> SUFFICES ASSUME HasPanic(e) PROVE DefaultErrorHandler(e) = 500
    OBVIOUS
  <2>1. PICK i \in 1..Len(e) : e[i].link = "panic"
    BY <1>2 DEF HasPanic
  <2>2. ~(e[1].link = "http" /\ Len(e) = 1)
    BY <1>2, <2>1
  <2> QED BY <1>2, <2>1, <2>2 DEF DefaultErrorHandler
<1>7. CustomStatus \in Nat
  BY DispatchAssumption
<1> QED BY <1>5, <1>6, <1>7 DEF callErrorHandler
-----------------------------------------------------------------------------
\* A middleware that derives a context is the innermost; without one the
\* innermost stays.
LEMMA ScopePush ==
  ASSUME NEW chain, NEW d \in Nat, NEW m \in Nat, Scope(chain, d, m)
  PROVE  Scope(chain, d + 1, IF chain[d + 1] \in {"timeout", "otel"} THEN d + 1 ELSE m)
<1>1. \A i \in 1..(d + 1) : i \in 1..d \/ i = d + 1
  OBVIOUS
<1>2. 1..d \subseteq 1..(d + 1)
  OBVIOUS
<1> QED BY <1>1, <1>2 DEF Scope, Derived

\* Leaving one that derived none changes nothing.
LEMMA ScopePop ==
  ASSUME NEW chain, NEW d \in Nat \ {0}, NEW m \in Nat, Scope(chain, d, m),
         chain[d] \notin {"timeout", "otel"}
  PROVE  Scope(chain, d - 1, m)
<1>1. Derived(chain, d - 1) = Derived(chain, d)
  <2>1. \A i \in 1..d : i \in 1..(d - 1) \/ i = d
    OBVIOUS
  <2>2. 1..(d - 1) \subseteq 1..d
    OBVIOUS
  <2> QED BY <2>1, <2>2 DEF Derived
<1> QED BY <1>1 DEF Scope
-----------------------------------------------------------------------------
\* What a step of a request leaves alone: of the request, and of the Ctx it holds.
Stays(q, q2) ==
  /\ q2.c = q.c /\ q2.turn = q.turn /\ q2.chain = q.chain /\ q2.hit = q.hit
  /\ q2.head = q.head
Keeps(q, x, x2) ==
  /\ x2.app = x.app /\ x2.poisoned = x.poisoned
  /\ x2.data \subseteq x.data \cup {<<x.app, q.turn>>}
SameStream(x, x2) == x2.streamFn = x.streamFn /\ x2.streamSet = x.streamSet

\* A step of a request that holds a Ctx.
Own(q, x, q2, x2) ==
  /\ q2 \in RqT /\ x2 \in CtxT /\ Stays(q, q2) /\ Keeps(q, x, x2)
  /\ Holds(q2) /\ RequestOK(q2, x2)

\* next(c): one frame more.
LEMMA EnterOK ==
  ASSUME NEW q \in RqT, NEW x \in CtxT, q.pc = "down", RequestOK(q, x),
         Len(q.frames) < Len(q.chain), NEW f \in FrameT, f.prev = x.ctx,
         NEW x2 \in CtxT, Keeps(q, x, x2), x2.handled = x.handled, SameStream(x, x2),
         x2.ctx = IF q.chain[Len(q.frames) + 1] \in {"timeout", "otel"}
                  THEN Len(q.frames) + 1 ELSE x.ctx
  PROVE  Own(q, x, [q EXCEPT !.frames = Append(@, f)], x2)
<1> DEFINE q2 == [q EXCEPT !.frames = Append(@, f)]
           d == Len(q.frames)
<1>1. /\ q.frames \in Seq(FrameT) /\ q.chain \in Seq(Chained) /\ d \in Nat
      /\ Len(q.chain) \in Nat /\ x.ctx \in Nat
  BY DEF RqT, CtxT
<1>2. Append(q.frames, f) \in Seq(FrameT)
  BY <1>1
<1>3. q2 \in RqT
  BY <1>2 DEF RqT
<1>4. /\ q2.frames = Append(q.frames, f) /\ q2.pc = "down" /\ Stays(q, q2)
      /\ q2.res = q.res /\ q2.status = q.status /\ q2.body = q.body
      /\ q2.funnels = q.funnels /\ q2.asked = q.asked /\ q2.bug = q.bug
      /\ q2.late = q.late /\ q2.logged = q.logged /\ q2.span = q.span
      /\ q2.failed = q.failed
  BY DEF RqT, Stays
<1> HIDE DEF q2
<1>5. Len(q2.frames) = d + 1 /\ q2.frames[d + 1] = f /\ \A i \in 1..d : q2.frames[i] = q.frames[i]
  BY <1>1, <1>4
<1>6. Live(q2, x2)
  <2>1. Live(q, x)
    BY DEF RequestOK
  <2> QED BY <1>4, <2>1 DEF Live, Funnelled, Recorded, Carried, Noted, Stays, SameStream
<1>7. Scoped(q2, x2)
  <2> HIDE DEF d
  <2>1. Scoped(q, x)
    BY DEF RequestOK, Holds
  <2>2. Scope(q.chain, d, x.ctx) /\ \A i \in 1..d : Scope(q.chain, i - 1, q.frames[i].prev)
    BY <2>1 DEF Scoped, d
  <2>3. Scope(q.chain, d + 1, x2.ctx)
    BY <1>1, <2>2, ScopePush DEF d
  <2>4. \A i \in 1..(d + 1) : Scope(q.chain, i - 1, q2.frames[i].prev)
    <3> TAKE i \in 1..(d + 1)
    <3>1. CASE i = d + 1
      <4>1. i - 1 = d /\ q2.frames[i].prev = x.ctx
        BY <1>1, <1>5, <3>1
      <4> QED BY <2>2, <4>1
    <3>2. CASE i \in 1..d
      BY <1>5, <2>2, <3>2
    <3> QED BY <1>1, <3>1, <3>2
  <2>5. d + 1 <= Len(q.chain)
    BY <1>1 DEF d
  <2> QED BY <1>4, <1>5, <2>3, <2>4, <2>5 DEF Scoped, Stays
<1>8. RequestOK(q2, x2) /\ Holds(q2)
  BY <1>4, <1>6, <1>7 DEF RequestOK, Holds
<1> QED BY <1>3, <1>4, <1>8 DEF Own, q2

\* A frame or the handler turns round: it returns without a panic.
LEMMA TurnOK ==
  ASSUME NEW q \in RqT, NEW x \in CtxT, q.pc = "down", RequestOK(q, x),
         NEW q2 \in RqT, q2.pc = "up", q2.res.kind = "return", Stays(q, q2),
         q2.frames = q.frames, q2.funnels = q.funnels, q2.asked = q.asked,
         q2.bug = q.bug, q2.logged = q.logged, q2.body # "stream",
         q2.failed => q2.res.e # <<>>,
         Len(q.frames) = 0 => ~Outermost(q, "logger") /\ ~Outermost(q, "otel")
  PROVE  Own(q, x, q2, x)
<1>1. Live(q, x) /\ Scoped(q, x)
  BY DEF RequestOK, Holds
<1>2. Funnelled(q2, x) /\ Recorded(q2, x)
  BY <1>1 DEF Live, Funnelled, Recorded, Stays
<1>3. Carried(q2, x)
  BY <1>1 DEF Live, Carried, Bug, Fails
<1>4. Noted(q2)
  BY <1>1 DEF Live, Noted, Outermost, Stays
<1>5. Scoped(q2, x)
  BY <1>1 DEF Scoped, Stays
<1> QED BY <1>2, <1>3, <1>4, <1>5 DEF Own, RequestOK, Live, Holds, Keeps

\* The handler panics.
LEMMA PanicOK ==
  ASSUME NEW q \in RqT, NEW x \in CtxT, q.pc = "down", RequestOK(q, x),
         Len(q.frames) = Len(q.chain), NEW v \in ErrT
  PROVE  Own(q, x, Failed(Panicking(q, x, v)), x)
<1> DEFINE q2 == Failed(Panicking(q, x, v))
<1>1. Raise(v) \in ResT /\ Raise(v).kind = "panic" /\ x.handled \in BOOLEAN
  BY DEF Raise, ResT, CtxT
<1>2. q2 \in RqT
  BY <1>1 DEF Failed, Panicking, RqT
<1>3. /\ q2.pc = "up" /\ q2.res.kind = "panic" /\ q2.bug = TRUE /\ q2.late = x.handled
      /\ Stays(q, q2) /\ q2.frames = q.frames /\ q2.status = q.status
      /\ q2.body = q.body /\ q2.funnels = q.funnels /\ q2.asked = q.asked
      /\ q2.logged = q.logged /\ q2.span = q.span
  BY <1>1 DEF Failed, Panicking, RqT, Stays
<1> HIDE DEF q2
<1>4. Live(q, x) /\ Scoped(q, x)
  BY DEF RequestOK, Holds
<1>5. Funnelled(q2, x) /\ Recorded(q2, x)
  BY <1>3, <1>4 DEF Live, Funnelled, Recorded, Stays
<1>6. Carried(q2, x)
  BY <1>3 DEF Carried
<1>7. Noted(q2)
  <2>1. q.chain \in Seq(Chained) /\ (Len(q.chain) = 0 => q.chain = <<>>)
    BY DEF RqT
  <2> QED BY <1>3, <1>4, <2>1 DEF Live, Noted, Outermost, Stays
<1>8. Scoped(q2, x)
  BY <1>3, <1>4 DEF Scoped, Stays
<1> QED BY <1>2, <1>3, <1>5, <1>6, <1>7, <1>8 DEF Own, RequestOK, Live, Holds, Keeps, q2

\* The handler goes on: it may have answered or asked for a stream.
LEMMA HandlerOK ==
  ASSUME NEW q \in RqT, NEW x \in CtxT, q.pc = "down", RequestOK(q, x),
         NEW q2 \in RqT, NEW x2 \in CtxT, q2.pc = "down", Stays(q, q2), Keeps(q, x, x2),
         q2.frames = q.frames, x2.ctx = x.ctx, q2.bug = q.bug, q2.failed = q.failed,
         q2.logged = q.logged,
         Funnelled(q2, x2), Recorded(q2, x2)
  PROVE  Own(q, x, q2, x2)
<1>1. Live(q, x) /\ Scoped(q, x)
  BY DEF RequestOK, Holds
<1>2. Carried(q2, x2) /\ Noted(q2)
  BY <1>1 DEF Live, Carried, Noted
<1>3. Scoped(q2, x2)
  BY <1>1 DEF Scoped, Stays
<1> QED BY <1>2, <1>3 DEF Own, RequestOK, Live, Holds

\* A middleware returns to the one around it; one that derived a context puts
\* back the one it found.
LEMMA PopOK ==
  ASSUME NEW q \in RqT, NEW x \in CtxT, q.pc = "up", RequestOK(q, x), Len(q.frames) > 0,
         NEW q2 \in RqT, NEW x2 \in CtxT, q2.pc = "up", Stays(q, q2), Keeps(q, x, x2),
         q2.frames = Front(q.frames), q2.asked = q.asked, q2.body # "stream",
         SameStream(x, x2),
         x2.ctx = IF q.chain[Len(q.frames)] \in {"timeout", "otel"}
                  THEN Last(q.frames).prev ELSE x.ctx,
         Funnelled(q2, x2), Carried(q2, x2), Noted(q2)
  PROVE  Own(q, x, q2, x2)
<1> DEFINE d == Len(q.frames)
<1>1. q.frames \in Seq(FrameT) /\ d \in Nat \ {0} /\ x.ctx \in Nat /\ Len(q.chain) \in Nat
  BY DEF RqT, CtxT
<1>2. /\ Len(q2.frames) = d - 1 /\ Last(q.frames) = q.frames[d]
      /\ \A i \in 1..(d - 1) : q2.frames[i] = q.frames[i]
  BY <1>1, FrontLast
<1>3. Live(q, x) /\ Scoped(q, x)
  BY DEF RequestOK, Holds
<1>4. Recorded(q2, x2)
  BY <1>3 DEF Live, Recorded, Stays, SameStream
<1>5. Scoped(q2, x2)
  <2>1. /\ d <= Len(q.chain) /\ Scope(q.chain, d, x.ctx)
        /\ \A i \in 1..d : Scope(q.chain, i - 1, q.frames[i].prev)
    BY <1>3 DEF Scoped
  <2> HIDE DEF d
  <2>2. Scope(q.chain, d - 1, x2.ctx)
    <3>1. CASE q.chain[d] \in {"timeout", "otel"}
      <4>1. x2.ctx = q.frames[d].prev
        BY <1>2, <3>1 DEF d
      <4> QED BY <1>1, <2>1, <4>1
    <3>2. CASE q.chain[d] \notin {"timeout", "otel"}
      <4>1. x2.ctx = x.ctx
        BY <3>2 DEF d
      <4> QED BY <1>1, <2>1, <3>2, <4>1, ScopePop
    <3> QED BY <3>1, <3>2
  <2>3. \A i \in 1..(d - 1) : Scope(q.chain, i - 1, q2.frames[i].prev)
    <3>1. 1..(d - 1) \subseteq 1..d
      BY <1>1
    <3> QED BY <1>2, <2>1, <3>1
  <2>4. d - 1 <= Len(q.chain)
    BY <1>1, <2>1
  <2> QED BY <1>2, <2>2, <2>3, <2>4 DEF Scoped, Stays
<1> QED BY <1>4, <1>5 DEF Own, RequestOK, Live, Holds

\* Ctx.HandleError settles an error that is not settled yet and does nothing else.
Settled(q, x, e, q2, x2) ==
  /\ q2 \in RqT /\ x2 \in CtxT
  /\ e = <<>> \/ x.handled => q2 = q /\ x2 = x
  /\ ~(e = <<>> \/ x.handled) =>
       /\ q2 = [q EXCEPT !.status = callErrorHandler(e), !.body = "error",
                          !.own = (app.errorHandler = "custom"), !.funnels = @ + 1]
       /\ x2 = [x EXCEPT !.handled = TRUE]

LEMMA HandleOK ==
  ASSUME NEW q \in RqT, NEW x \in CtxT, NEW e \in ErrT
  PROVE  Settled(q, x, e, HandleError(q, x, e)[1], HandleError(q, x, e)[2])
<1> DEFINE h == HandleError(q, x, e)
<1>1. CASE e = <<>> \/ x.handled
  BY <1>1 DEF HandleError, Settled
<1>2. CASE ~(e = <<>> \/ x.handled)
  <2> DEFINE y == [x EXCEPT !.handled = TRUE]
  <2>1. y \in CtxT /\ y.handled = TRUE /\ [y EXCEPT !.handled = TRUE] = y
    BY DEF CtxT
  <2>2. h = Funnel(q, y, e)
    BY <1>2 DEF HandleError
  <2> HIDE DEF y
  <2>3. h = <<[q EXCEPT !.status = callErrorHandler(e), !.body = "error",
                        !.own = (app.errorHandler = "custom"), !.funnels = @ + 1], y>>
    BY <2>1, <2>2 DEF Funnel
  <2>4. callErrorHandler(e) \in Nat
    BY <1>2, StatusOf
  <2>5. [q EXCEPT !.status = callErrorHandler(e), !.body = "error",
                  !.own = (app.errorHandler = "custom"), !.funnels = @ + 1] \in RqT
    <3> DEFINE code == callErrorHandler(e)
               mine == app.errorHandler = "custom"
               more == q.funnels + 1
    <3>1. code \in Nat /\ more \in Nat /\ mine \in BOOLEAN
      BY <2>4 DEF RqT
    <3> HIDE DEF code, more, mine
    <3>2. [q EXCEPT !.status = code, !.body = "error", !.own = mine, !.funnels = more] \in RqT
      BY <3>1 DEF RqT
    <3> QED BY <3>2 DEF code, more, mine
  <2> QED BY <1>2, <2>1, <2>3, <2>5 DEF y, Settled
<1> QED BY <1>1, <1>2
-----------------------------------------------------------------------------
\* A step that changes one request and the Ctx it holds.
OwnStep(r) ==
  \E q2, x2 :
    /\ Own(rq[r], Ctx(r), q2, x2)
    /\ rq' = [rq EXCEPT ![r] = q2] /\ ctx' = [ctx EXCEPT ![rq[r].c] = x2]
    /\ UNCHANGED <<app, forced, pool>>

\* What a request in flight has.
LEMMA InHand ==
  ASSUME IInv, NEW r \in Workers, Holds(rq[r])
  PROVE  /\ rq[r] \in RqT /\ rq[r].c \in Ctxs /\ Ctx(r) \in CtxT
         /\ RequestOK(rq[r], Ctx(r)) /\ Ctx(r).app = r
         /\ ctx = [ctx EXCEPT ![rq[r].c] = Ctx(r)]
<1>1. rq[r] \in RqT /\ ctx \in [Ctxs -> CtxT]
  BY DEF IInv, TypeOK
<1>2. rq[r].c # Nobody /\ rq[r].c \in Ctxs \cup {Nobody}
  BY <1>1 DEF IInv, HoldInv, RqT
<1>3. r \in InFlight /\ RequestOK(rq[r], Ctx(r))
  BY <1>2 DEF InFlight, IInv, RequestInv
<1>4. Ctx(r).app = r
  BY <1>3 DEF IInv, CtxPrivate
<1> QED BY <1>1, <1>2, <1>3, <1>4 DEF Ctx

\* The step leaves the Ctx alone.
LEMMA OnlyRequest ==
  ASSUME IInv, NEW r \in Workers, Holds(rq[r]), NEW q2, Own(rq[r], Ctx(r), q2, Ctx(r)),
         rq' = [rq EXCEPT ![r] = q2], UNCHANGED <<app, forced, pool, ctx>>
  PROVE  OwnStep(r)
<1>1. ctx' = [ctx EXCEPT ![rq[r].c] = Ctx(r)]
  BY InHand
<1> QED BY <1>1 DEF OwnStep

\* The context of a request has a state.
LEMMA ErrType ==
  ASSUME IInv, NEW r \in Workers, rq[r].pc = "down"
  PROVE  Err(r) \in {"nil", "deadline", "canceled"}
<1> DEFINE q == rq[r]
           m == Ctx(r).ctx
<1>1. q \in RqT /\ Ctx(r) \in CtxT /\ Scoped(q, Ctx(r))
  BY InHand DEF Holds, RequestOK
<1>2. q.frames \in Seq(FrameT) /\ m \in Nat
  BY <1>1 DEF RqT, CtxT
<1>3. m > 0 => m \in 1..Len(q.frames)
  BY <1>1, <1>2 DEF Scoped, Scope, Derived
<1>4. m > 0 => q.frames[m] \in FrameT
  BY <1>2, <1>3
<1>5. m > 0 => q.frames[m].err \in {"nil", "deadline", "canceled"}
  BY <1>4 DEF FrameT
<1> QED BY <1>5 DEF Err

\* next(c) is called, with the Ctx that the middleware left.
LEMMA EnterStep ==
  ASSUME IInv, NEW r \in Workers, rq[r].pc = "down", Depth(r) < Len(rq[r].chain),
         NEW x2 \in CtxT, Keeps(rq[r], Ctx(r), x2), x2.handled = Ctx(r).handled,
         SameStream(Ctx(r), x2),
         x2.ctx = IF rq[r].chain[Depth(r) + 1] \in {"timeout", "otel"}
                  THEN Depth(r) + 1 ELSE Ctx(r).ctx,
         Enter(r, x2)
  PROVE  OwnStep(r)
<1> DEFINE q == rq[r]
           f == [prev |-> Ctx(r).ctx, err |-> Err(r)]
           q2 == [q EXCEPT !.frames = Append(@, f)]
<1>1. q \in RqT /\ Ctx(r) \in CtxT /\ RequestOK(q, Ctx(r)) /\ rq \in [Workers -> RqT]
  BY InHand DEF Holds, IInv, TypeOK
<1>2. f \in FrameT /\ f.prev = Ctx(r).ctx
  BY <1>1, ErrType DEF FrameT, CtxT
<1>3. Own(q, Ctx(r), q2, x2)
  <2> HIDE DEF q, f
  <2> QED BY <1>1, <1>2, EnterOK DEF Depth, q
<1>4. rq' = [rq EXCEPT ![r].frames = Append(@, f)]
  BY DEF Enter
<1> HIDE DEF f
<1>5. rq' = [rq EXCEPT ![r] = q2]
  BY <1>1, <1>4
<1> HIDE DEF q2
<1> QED BY <1>3, <1>5 DEF OwnStep, Enter

\* A value of this request in its Ctx.
LEMMA SetKeeps ==
  ASSUME NEW q \in RqT, NEW x \in CtxT, x.app \in Workers
  PROVE  LET x2 == [x EXCEPT !.data = Set(@, <<x.app, q.turn>>)] IN
         /\ x2 \in CtxT /\ Keeps(q, x, x2) /\ x2.handled = x.handled /\ SameStream(x, x2)
         /\ x2.ctx = x.ctx
<1>1. q.turn \in {0, 1} /\ x.data \subseteq Workers \X {0, 1}
  BY DEF RqT, CtxT
<1>2. Set(x.data, <<x.app, q.turn>>) \in SUBSET (Workers \X {0, 1})
  BY <1>1 DEF Set
<1> QED BY <1>2 DEF CtxT, Keeps, SameStream, Set

\* The middleware that go on.
LEMMA Enters ==
  ASSUME IInv, NEW r \in Workers,
         \/ CallNext(r) \/ TimeoutEnters(r) \/ OtelEnters(r)
         \/ Entering(r, {"keyauth"}) /\ Enter(r, [Ctx(r) EXCEPT !.data = Set(@, Tag(r))])
         \/ Entering(r, {"cors"}) /\ Enter(r, Ctx(r))
  PROVE  OwnStep(r)
<1> DEFINE q == rq[r]
           x == Ctx(r)
<1>1. q.pc = "down" /\ Depth(r) < Len(q.chain)
  BY DEF CallNext, TimeoutEnters, OtelEnters, Entering
<1>2. q \in RqT /\ x \in CtxT /\ x.app = r
  BY <1>1, InHand DEF Holds
<1>3. Keeps(q, x, x) /\ SameStream(x, x)
  BY DEF Keeps, SameStream
<1>4. CASE CallNext(r) \/ (Entering(r, {"cors"}) /\ Enter(r, Ctx(r)))
  <2>1. q.chain[Depth(r) + 1] \notin {"timeout", "otel"} /\ Enter(r, x)
    BY <1>4 DEF CallNext, Entering
  <2> HIDE DEF q, x
  <2> QED BY <1>1, <1>2, <1>3, <2>1, EnterStep DEF q, x
<1>5. CASE Entering(r, {"keyauth"}) /\ Enter(r, [Ctx(r) EXCEPT !.data = Set(@, Tag(r))])
  <2> DEFINE x2 == [x EXCEPT !.data = Set(@, <<x.app, q.turn>>)]
  <2>1. q.chain[Depth(r) + 1] \notin {"timeout", "otel"} /\ Enter(r, x2)
    BY <1>2, <1>5 DEF Entering, Tag
  <2>2. /\ x2 \in CtxT /\ Keeps(q, x, x2) /\ x2.handled = x.handled /\ SameStream(x, x2)
        /\ x2.ctx = x.ctx
    BY <1>2, SetKeeps
  <2> HIDE DEF x2
  <2> QED BY <1>1, <2>1, <2>2, EnterStep
<1>6. CASE TimeoutEnters(r) \/ OtelEnters(r)
  <2> DEFINE x2 == SetContext(x, Depth(r) + 1)
  <2>1. q.chain[Depth(r) + 1] \in {"timeout", "otel"} /\ Enter(r, x2)
    BY <1>6 DEF TimeoutEnters, OtelEnters, Entering
  <2>2. Depth(r) + 1 \in Nat
    BY <1>2 DEF Depth, RqT
  <2>3. /\ x2 \in CtxT /\ Keeps(q, x, x2) /\ x2.handled = x.handled /\ SameStream(x, x2)
        /\ x2.ctx = Depth(r) + 1
    BY <1>2, <2>2 DEF CtxT, SetContext, Keeps, SameStream
  <2> HIDE DEF x2
  <2> QED BY <1>1, <2>1, <2>3, EnterStep
<1> QED BY <1>4, <1>5, <1>6

\* Errors of user code and of the middleware are errors, and 404, 401 and nil too.
LEMMA ErrorTypes ==
  /\ \A e \in Errors : e \in ErrT
  /\ <<>> \in ErrT /\ \A n \in Nat : <<Http(n)>> \in ErrT
  /\ \A e \in ErrT : \A n \in Nat : <<Http(n)>> \o e \in ErrT
  /\ \A e \in ErrT : PanicError(e) \in ErrT
<1>1. \A n \in Nat : Http(n) \in LinkT
  BY DEF Http, LinkT, Links
<1>2. Panicked \in LinkT
  BY DEF Panicked, LinkT, Links
<1>3. \A e \in Errors : e \in ErrT
  BY DispatchAssumption DEF ErrT, LinkT
<1> QED BY <1>1, <1>2, <1>3 DEF ErrT, PanicError

\* A result and its parts.
LEMMA ResultTypes ==
  \A e \in ErrT : /\ Return(e) \in ResT /\ Return(e).kind = "return" /\ Return(e).e = e
                  /\ Raise(e) \in ResT /\ Raise(e).kind = "panic" /\ Raise(e).e = e
  BY DEF Return, Raise, ResT

\* A field set to what it is.
LEMMA SameFailed == ASSUME NEW q \in RqT PROVE q = [q EXCEPT !.failed = q.failed]
  BY DEF RqT

\* A middleware refuses, or the handler returns.
LEMMA TurnStep ==
  ASSUME IInv, NEW r \in Workers, rq[r].pc = "down", NEW e \in ErrT,
         NEW code \in Nat, NEW text \in {"empty", "handler", "error"},
         NEW bad \in BOOLEAN, bad => e # <<>>,
         rq' = [rq EXCEPT ![r] = [rq[r] EXCEPT !.failed = bad, !.res = Return(e), !.status = code,
                                               !.body = text, !.pc = "up"]],
         UNCHANGED <<app, forced, pool, ctx>>,
         Len(rq[r].frames) = 0 => ~Outermost(rq[r], "logger") /\ ~Outermost(rq[r], "otel")
  PROVE  OwnStep(r)
<1> DEFINE q == rq[r]
           q2 == [q EXCEPT !.failed = bad, !.res = Return(e), !.status = code,
                           !.body = text, !.pc = "up"]
<1>1. q \in RqT /\ Ctx(r) \in CtxT /\ RequestOK(q, Ctx(r)) /\ Holds(q)
  BY InHand DEF Holds
<1>2. Return(e) \in ResT /\ Return(e).kind = "return" /\ Return(e).e = e
  BY ResultTypes
<1>3. q2 \in RqT
  BY <1>1, <1>2 DEF RqT
<1>4. /\ q2.pc = "up" /\ q2.res.kind = "return" /\ Stays(q, q2) /\ q2.frames = q.frames
      /\ q2.funnels = q.funnels /\ q2.asked = q.asked /\ q2.bug = q.bug
      /\ q2.logged = q.logged /\ q2.body # "stream" /\ (q2.failed => q2.res.e # <<>>)
  BY <1>1, <1>2 DEF RqT, Stays
<1>5. rq' = [rq EXCEPT ![r] = q2]
  OBVIOUS
<1> HIDE DEF q2
<1>6. Own(q, Ctx(r), q2, Ctx(r))
  BY <1>1, <1>3, <1>4, TurnOK
<1> QED BY <1>1, <1>5, <1>6, OnlyRequest

\* The middleware that refuse.
LEMMA Refuses ==
  ASSUME IInv, NEW r \in Workers,
         \/ /\ Entering(r, {"keyauth"})
            /\ \E e \in Errors \cup {<<Http(401)>>} : Refuse(r, [rq[r] EXCEPT !.res = Return(e)])
         \/ Entering(r, {"cors"}) /\ Refuse(r, NoContent(rq[r]))
         \/ UserRefuses(r)
  PROVE  OwnStep(r)
<1> DEFINE q == rq[r]
<1>1. q.pc = "down" /\ q.chain[Depth(r) + 1] \in {"keyauth", "cors", "user"}
  BY DEF UserRefuses, Entering
<1>2. q \in RqT /\ Ctx(r) \in CtxT /\ RequestOK(q, Ctx(r)) /\ Holds(q)
  BY <1>1, InHand DEF Holds
<1>3. /\ q.status \in Nat /\ q.body \in {"empty", "handler", "error"}
      /\ q.failed \in BOOLEAN /\ ~q.failed
  BY <1>1, <1>2 DEF RqT, RequestOK, Live, Recorded, Carried
<1>4. Len(q.frames) = 0 => ~Outermost(q, "logger") /\ ~Outermost(q, "otel")
  BY <1>1 DEF Outermost, Depth
<1>5. ASSUME NEW e \in ErrT, Refuse(r, [rq[r] EXCEPT !.res = Return(e)])
      PROVE  OwnStep(r)
  <2>1. [[q EXCEPT !.res = Return(e)] EXCEPT !.pc = "up"]
        = [q EXCEPT !.failed = q.failed, !.res = Return(e), !.status = q.status,
                    !.body = q.body, !.pc = "up"]
    BY <1>2 DEF RqT
  <2>2. rq' = [rq EXCEPT ![r] = [[q EXCEPT !.res = Return(e)] EXCEPT !.pc = "up"]]
    BY <1>5 DEF Refuse
  <2>3. UNCHANGED <<app, forced, pool, ctx>>
    BY <1>5 DEF Refuse
  <2>4. rq' = [rq EXCEPT ![r] = [q EXCEPT !.failed = q.failed, !.res = Return(e),
                                          !.status = q.status, !.body = q.body, !.pc = "up"]]
    BY <2>1, <2>2
  <2> QED BY <1>1, <1>3, <1>4, <2>3, <2>4, TurnStep
<1>6. ASSUME Refuse(r, NoContent(rq[r])) PROVE OwnStep(r)
  <2>1. /\ rq' = [rq EXCEPT ![r] = [q EXCEPT !.res = Return(<<>>), !.status = 204,
                                              !.body = "empty", !.pc = "up"]]
        /\ UNCHANGED <<app, forced, pool, ctx>>
    BY <1>6 DEF Refuse, NoContent
  <2>2. <<>> \in ErrT /\ 204 \in Nat
    BY ErrorTypes
  <2> DEFINE none == Return(<<>>)
             same == q.failed
             turned(p) == [p EXCEPT !.res = none, !.status = 204, !.body = "empty", !.pc = "up"]
  <2>3. rq' = [rq EXCEPT ![r] = turned([q EXCEPT !.failed = same])]
    <3>1. q = [q EXCEPT !.failed = same]
      BY <1>2, SameFailed
    <3>2. rq' = [rq EXCEPT ![r] = turned(q)]
      BY <2>1
    <3> HIDE DEF turned
    <3> QED BY <3>1, <3>2
  <2> HIDE DEF none, same
  <2>4. rq' = [rq EXCEPT ![r] = [q EXCEPT !.failed = same, !.res = none, !.status = 204,
                                          !.body = "empty", !.pc = "up"]]
    BY <2>3
  <2>5. /\ same \in BOOLEAN /\ ~same /\ none = Return(<<>>)
        /\ "empty" \in {"empty", "handler", "error"}
    BY <1>3 DEF same, none
  <2>6. rq' = [rq EXCEPT ![r] = [q EXCEPT !.failed = same, !.res = Return(<<>>),
                                          !.status = 204, !.body = "empty", !.pc = "up"]]
    BY <2>4, <2>5
  <2>7. UNCHANGED <<app, forced, pool, ctx>>
    BY <2>1
  <2> QED BY <1>1, <1>4, <2>2, <2>5, <2>6, <2>7, TurnStep, ZenonT(30)
<1>7. \A e \in Errors \cup {<<Http(401)>>} : e \in ErrT
  BY ErrorTypes
<1> QED BY <1>5, <1>6, <1>7 DEF UserRefuses

\* Inside the handler there is no frame that could have recorded, or all have begun.
LEMMA HandlerFacts ==
  ASSUME IInv, NEW r \in Workers, InHandler(r)
  PROVE  /\ rq[r] \in RqT /\ Ctx(r) \in CtxT /\ RequestOK(rq[r], Ctx(r)) /\ Holds(rq[r])
         /\ Live(rq[r], Ctx(r)) /\ rq[r].pc = "down" /\ Len(rq[r].frames) = Len(rq[r].chain)
         /\ rq[r].status \in Nat /\ rq[r].body \in {"empty", "handler", "error"}
         /\ Len(rq[r].frames) = 0 => ~Outermost(rq[r], "logger") /\ ~Outermost(rq[r], "otel")
<1> DEFINE q == rq[r]
<1>1. q.pc = "down" /\ Len(q.frames) = Len(q.chain)
  BY DEF InHandler, Depth
<1>2. q \in RqT /\ Ctx(r) \in CtxT /\ RequestOK(q, Ctx(r)) /\ Holds(q)
  BY <1>1, InHand DEF Holds
<1>3. q.chain \in Seq(Chained)
  BY <1>2 DEF RqT
<1>4. Live(q, Ctx(r))
  BY <1>1, <1>2 DEF RequestOK
<1>5. q.status \in Nat /\ q.body \in {"empty", "handler", "error"}
  BY <1>2, <1>4 DEF RqT, Live, Recorded
<1>6. Len(q.frames) = 0 => ~Outermost(q, "logger") /\ ~Outermost(q, "otel")
  <2>1. Len(q.chain) = 0 => q.chain = <<>>
    BY <1>3
  <2> QED BY <1>1, <2>1 DEF Outermost
<1> QED BY <1>1, <1>2, <1>4, <1>5, <1>6

\* The handler, or notFound, returns.
LEMMA HandlerLeaves ==
  ASSUME IInv, NEW r \in Workers, notFound(r) \/ HandlerReturns(r)
  PROVE  OwnStep(r)
<1> DEFINE q == rq[r]
<1>1. InHandler(r) /\ UNCHANGED <<app, forced, pool, ctx>>
  BY DEF notFound, HandlerReturns
<1>2. /\ rq[r] \in RqT /\ rq[r].pc = "down" /\ rq[r].status \in Nat
      /\ rq[r].body \in {"empty", "handler", "error"} /\ rq[r].failed \in BOOLEAN
      /\ ~rq[r].failed
      /\ Len(q.frames) = 0 => ~Outermost(q, "logger") /\ ~Outermost(q, "otel")
  BY <1>1, HandlerFacts DEF RqT, Live, Carried
<1>3. rq \in [Workers -> RqT]
  BY DEF IInv, TypeOK
<1>4. PICK e \in ErrT, bad \in BOOLEAN :
        /\ bad => e # <<>>
        /\ rq' = [rq EXCEPT ![r] = [q EXCEPT !.pc = "up", !.res = Return(e), !.failed = bad]]
  <2>1. CASE notFound(r)
    <3> DEFINE e == <<Http(404)>>
               v == Return(e)
    <3>1. e \in ErrT
      BY ErrorTypes
    <3>2. rq' = [rq EXCEPT ![r].pc = "up", ![r].res = v]
      BY <2>1 DEF notFound
    <3> HIDE DEF e, v
    <3>3. rq' = [rq EXCEPT ![r] = [q EXCEPT !.pc = "up", !.res = v]]
      BY <1>3, <3>2
    <3>4. [q EXCEPT !.pc = "up", !.res = v]
          = [q EXCEPT !.pc = "up", !.res = v, !.failed = q.failed]
      BY <1>2 DEF RqT
    <3> QED BY <1>2, <3>1, <3>3, <3>4 DEF v
  <2>2. CASE HandlerReturns(r)
    <3>1. PICK e \in ErrT :
            rq' = [rq EXCEPT ![r].pc = "up", ![r].res = Return(e), ![r].failed = (e # <<>>)]
      BY <2>2, ErrorTypes DEF HandlerReturns
    <3> DEFINE bad == e # <<>>
    <3>2. bad \in BOOLEAN /\ (bad => e # <<>>)
          /\ rq' = [rq EXCEPT ![r].pc = "up", ![r].res = Return(e), ![r].failed = bad]
      BY <3>1
    <3> HIDE DEF bad
    <3>3. rq' = [rq EXCEPT ![r] = [q EXCEPT !.pc = "up", !.res = Return(e), !.failed = bad]]
      BY <1>3, <3>2
    <3> QED BY <3>2, <3>3
  <2> QED BY <2>1, <2>2
<1>5. rq' = [rq EXCEPT ![r] = [q EXCEPT !.failed = bad, !.res = Return(e),
                                        !.status = q.status, !.body = q.body, !.pc = "up"]]
  <2>1. [q EXCEPT !.pc = "up", !.res = Return(e), !.failed = bad]
        = [q EXCEPT !.failed = bad, !.res = Return(e), !.status = q.status,
                    !.body = q.body, !.pc = "up"]
    BY <1>2 DEF RqT
  <2> QED BY <1>4, <2>1
<1>6. bad => e # <<>>
  BY <1>4
<1> QED BY <1>1, <1>2, <1>5, <1>6, TurnStep

\* A panic in the handler, its own or of a second Stream call.
LEMMA HandlerThrows ==
  ASSUME IInv, NEW r \in Workers, InHandler(r), NEW v \in ErrT,
         rq' = [rq EXCEPT ![r] = Failed(Panicking(@, Ctx(r), v))],
         UNCHANGED <<app, forced, pool, ctx>>
  PROVE  OwnStep(r)
<1> DEFINE q2 == Failed(Panicking(rq[r], Ctx(r), v))
<1>1. rq' = [rq EXCEPT ![r] = q2]
  OBVIOUS
<1>2. /\ rq[r] \in RqT /\ Ctx(r) \in CtxT /\ RequestOK(rq[r], Ctx(r)) /\ Holds(rq[r])
      /\ rq[r].pc = "down" /\ Len(rq[r].frames) = Len(rq[r].chain)
  BY HandlerFacts
<1>3. Own(rq[r], Ctx(r), q2, Ctx(r))
  BY <1>2, PanicOK
<1> HIDE DEF q2
<1> QED BY <1>1, <1>2, <1>3, OnlyRequest

\* Ctx.String in the handler.
LEMMA WriteStep == ASSUME IInv, NEW r \in Workers, Write(r) PROVE OwnStep(r)
<1> DEFINE q == rq[r]
           x == Ctx(r)
           q2 == [q EXCEPT !.status = 200, !.body = "handler"]
<1>1. InHandler(r) /\ UNCHANGED <<app, forced, pool, ctx>>
  BY DEF Write
<1>2. q \in RqT /\ x \in CtxT /\ RequestOK(q, x) /\ Holds(q) /\ Live(q, x) /\ q.pc = "down"
  BY <1>1, HandlerFacts
<1>3. rq' = [rq EXCEPT ![r] = q2]
  <2>1. rq \in [Workers -> RqT] /\ rq' = [rq EXCEPT ![r].status = 200, ![r].body = "handler"]
    BY DEF IInv, TypeOK, Write
  <2> QED BY <2>1
<1>4. q2 \in RqT
  BY <1>2, ZenonT(30) DEF RqT
<1>5. /\ q2.pc = "down" /\ Stays(q, q2) /\ q2.frames = q.frames /\ q2.bug = q.bug
      /\ q2.logged = q.logged /\ q2.funnels = q.funnels /\ q2.asked = q.asked
      /\ q2.body = "handler" /\ q2.failed = q.failed
  BY <1>2 DEF RqT, Stays
<1> HIDE DEF q2
<1>6. Funnelled(q2, x) /\ Recorded(q2, x) /\ Keeps(q, x, x)
  BY <1>2, <1>5 DEF Live, Funnelled, Recorded, Stays, Keeps
<1>7. Own(q, x, q2, x)
  <2> HIDE DEF q, x
  <2> QED BY <1>2, <1>4, <1>5, <1>6, HandlerOK
<1> QED BY <1>1, <1>2, <1>3, <1>7, OnlyRequest

\* registerStream: the callback is recorded, or the second call panics.
LEMMA StreamStep == ASSUME IInv, NEW r \in Workers, RegisterStream(r) PROVE OwnStep(r)
<1> DEFINE q == rq[r]
           x == Ctx(r)
           q2 == [q EXCEPT !.asked = TRUE]
           x2 == [x EXCEPT !.streamSet = TRUE, !.streamFn = ~q.head]
<1>1. InHandler(r) /\ UNCHANGED <<app, forced, pool>>
  BY DEF RegisterStream
<1>2. /\ q \in RqT /\ x \in CtxT /\ RequestOK(q, x) /\ Holds(q) /\ Live(q, x) /\ q.pc = "down"
      /\ q.c \in Ctxs /\ rq \in [Workers -> RqT] /\ ctx \in [Ctxs -> CtxT]
  BY <1>1, HandlerFacts, InHand DEF IInv, TypeOK
<1>3. CASE x.streamSet
  <2>1. rq' = [rq EXCEPT ![r] = Failed(Panicking(@, Ctx(r), <<>>))] /\ UNCHANGED ctx
    BY <1>3 DEF RegisterStream
  <2> QED BY <1>1, <2>1, HandlerThrows, ErrorTypes
<1>4. CASE ~x.streamSet
  <2>1. rq' = [rq EXCEPT ![r] = q2]
    <3>1. rq' = [rq EXCEPT ![r].asked = TRUE]
      BY <1>4 DEF RegisterStream
    <3> QED BY <1>2, <3>1
  <2>2. ctx' = [ctx EXCEPT ![q.c] = x2]
    <3>1. ctx' = [ctx EXCEPT ![rq[r].c].streamSet = TRUE, ![rq[r].c].streamFn = ~rq[r].head]
      BY <1>4 DEF RegisterStream
    <3> QED BY <1>2, <3>1 DEF Ctx
  <2>3. q2 \in RqT /\ q.head \in BOOLEAN
    BY <1>2 DEF RqT
  <2>4. x2 \in CtxT
    BY <1>2, <2>3 DEF CtxT
  <2>5. /\ q2.pc = "down" /\ Stays(q, q2) /\ q2.frames = q.frames /\ q2.bug = q.bug
        /\ q2.logged = q.logged /\ q2.funnels = q.funnels /\ q2.asked = TRUE
        /\ q2.body = q.body /\ q2.failed = q.failed
    BY <1>2 DEF RqT, Stays
  <2>6. /\ Keeps(q, x, x2) /\ x2.ctx = x.ctx /\ x2.handled = x.handled
        /\ x2.streamSet = TRUE /\ x2.streamFn = ~q.head
    BY <1>2 DEF CtxT, Keeps
  <2> HIDE DEF q2, x2
  <2>7. Funnelled(q2, x2) /\ Recorded(q2, x2)
    BY <1>2, <2>5, <2>6 DEF Live, Funnelled, Recorded, Stays
  <2>8. Own(q, x, q2, x2)
    <3> HIDE DEF q, x
    <3> QED BY <1>2, <2>3, <2>4, <2>5, <2>6, <2>7, HandlerOK
  <2> QED BY <1>1, <2>1, <2>2, <2>8 DEF OwnStep
<1> QED BY <1>3, <1>4

\* The handler calls HandleError itself.
LEMMA SettlesStep == ASSUME IInv, NEW r \in Workers, HandlerSettles(r) PROVE OwnStep(r)
<1> DEFINE q == rq[r]
           x == Ctx(r)
<1>1. InHandler(r) /\ UNCHANGED <<app, forced, pool>>
  BY DEF HandlerSettles
<1>2. q \in RqT /\ x \in CtxT /\ RequestOK(q, x) /\ Live(q, x) /\ q.pc = "down"
  BY <1>1, HandlerFacts
<1>3. PICK e \in ErrT : LET h == HandleError(q, x, e) IN
        rq' = [rq EXCEPT ![r] = h[1]] /\ ctx' = [ctx EXCEPT ![q.c] = h[2]]
  BY ErrorTypes DEF HandlerSettles
<1> DEFINE q2 == HandleError(q, x, e)[1]
           x2 == HandleError(q, x, e)[2]
<1>4. Settled(q, x, e, q2, x2)
  BY <1>2, HandleOK
<1>5. rq' = [rq EXCEPT ![r] = q2] /\ ctx' = [ctx EXCEPT ![q.c] = x2]
  BY <1>3
<1> HIDE DEF q2, x2
<1> USE DEF Settled
<1>6. CASE e = <<>> \/ x.handled
  <2>1. Own(q, x, q, x)
    BY <1>2 DEF Own, Stays, Keeps, Holds
  <2> QED BY <1>1, <1>4, <1>5, <1>6, <2>1 DEF OwnStep
<1>7. CASE ~(e = <<>> \/ x.handled)
  <2>1. /\ q2.pc = "down" /\ Stays(q, q2) /\ q2.frames = q.frames /\ q2.bug = q.bug
        /\ q2.logged = q.logged /\ q2.funnels = q.funnels + 1 /\ q2.asked = q.asked
        /\ q2.body = "error" /\ q2.failed = q.failed
    BY <1>2, <1>4, <1>7 DEF RqT, Stays
  <2>2. /\ Keeps(q, x, x2) /\ x2.ctx = x.ctx /\ x2.handled = TRUE
        /\ x2.streamSet = x.streamSet /\ x2.streamFn = x.streamFn
    BY <1>2, <1>4, <1>7 DEF CtxT, Keeps
  <2>3. Funnelled(q2, x2) /\ Recorded(q2, x2)
    <3>1. q.funnels = 0
      BY <1>2, <1>7 DEF Live, Funnelled
    <3> QED BY <1>2, <2>1, <2>2, <3>1 DEF Live, Funnelled, Recorded, Stays
  <2>4. Own(q, x, q2, x2)
    <3> HIDE DEF q, x
    <3> QED BY <1>2, <1>4, <2>1, <2>2, <2>3, HandlerOK
  <2> QED BY <1>1, <1>5, <2>4 DEF OwnStep
<1> QED BY <1>6, <1>7
-----------------------------------------------------------------------------
\* The way up.  u is q with its last frame left and the result res.
Popped(q, res, u) ==
  /\ u \in RqT /\ u.pc = "up" /\ Stays(q, u) /\ u.frames = Front(q.frames) /\ u.res = res
  /\ u.status = q.status /\ u.body = q.body /\ u.funnels = q.funnels /\ u.asked = q.asked
  /\ u.bug = q.bug /\ u.late = q.late /\ u.logged = q.logged /\ u.span = q.span
  /\ u.own = q.own /\ u.failed = q.failed

\* A middleware of this kind is left.
Leaves(q, x, kind) ==
  /\ q \in RqT /\ x \in CtxT /\ RequestOK(q, x) /\ Holds(q) /\ Live(q, x) /\ q.pc = "up"
  /\ Len(q.frames) \in Nat \ {0} /\ Len(q.frames) <= Len(q.chain) /\ Len(q.chain) \in Nat
  /\ q.chain[Len(q.frames)] = kind /\ Last(q.frames).prev \in Nat
  /\ Len(Front(q.frames)) = Len(q.frames) - 1
  /\ q.res \in ResT /\ q.res.e \in ErrT /\ q.logged = 0

LEMMA LeaveFacts ==
  ASSUME IInv, NEW r \in Workers, NEW kind, Leaving(r, kind)
  PROVE  Leaves(rq[r], Ctx(r), kind)
<1> DEFINE q == rq[r]
<1>1. q.pc = "up" /\ Len(q.frames) > 0 /\ q.chain[Len(q.frames)] = kind
  BY DEF Leaving, Depth, Frame
<1>2. q \in RqT /\ Ctx(r) \in CtxT /\ RequestOK(q, Ctx(r)) /\ Holds(q)
  BY <1>1, InHand DEF Holds
<1>3. Live(q, Ctx(r)) /\ Scoped(q, Ctx(r))
  BY <1>1, <1>2 DEF RequestOK
<1>4. q.frames \in Seq(FrameT) /\ q.res \in ResT /\ q.chain \in Seq(Chained)
  BY <1>2 DEF RqT
<1>5. Len(q.frames) \in Nat \ {0} /\ Len(q.chain) \in Nat /\ q.res.e \in ErrT
  BY <1>1, <1>4 DEF ResT
<1>6. Len(Front(q.frames)) = Len(q.frames) - 1 /\ Last(q.frames) \in FrameT
  BY <1>1, <1>4, FrontLast
<1>7. Last(q.frames).prev \in Nat
  BY <1>6 DEF FrameT
<1>8. Len(q.frames) <= Len(q.chain) /\ q.logged = 0
  BY <1>1, <1>3 DEF Scoped, Live, Noted
<1> QED BY <1>1, <1>2, <1>3, <1>4, <1>5, <1>6, <1>7, <1>8 DEF Leaves

LEMMA UpFacts ==
  ASSUME IInv, NEW r \in Workers, NEW kind, Leaving(r, kind), NEW res \in ResT
  PROVE  Popped(rq[r], res, Up(r, res))
<1> DEFINE q == rq[r]
<1>1. q \in RqT /\ q.pc = "up" /\ Len(q.frames) > 0
  BY LeaveFacts DEF Leaves
<1>2. q.frames \in Seq(FrameT)
  BY <1>1 DEF RqT
<1>3. Front(q.frames) \in Seq(FrameT)
  BY <1>1, <1>2, FrontLast
<1> DEFINE g == Front(q.frames)
<1> HIDE DEF g
<1>4. g \in Seq(FrameT) /\ Up(r, res) = [q EXCEPT !.res = res, !.frames = g]
  BY <1>3 DEF Up, g
<1>5. [q EXCEPT !.res = res, !.frames = g] \in RqT
  BY <1>1, <1>4 DEF RqT
<1> QED BY <1>1, <1>4, <1>5 DEF Popped, RqT, Stays, g

\* No outermost Logger or otelrice is left.
LEMMA NotedPlain ==
  ASSUME NEW q, NEW x, NEW kind, Leaves(q, x, kind), kind \notin {"logger", "otel"},
         NEW q2, q2.pc = "up", Stays(q, q2), q2.frames = Front(q.frames), q2.logged = 0
  PROVE  Noted(q2)
<1>1. Len(q2.frames) = 0 => Len(q.frames) = 1
  <2> DEFINE m == Len(q2.frames)
             n == Len(q.frames)
  <2>1. m = n - 1 /\ n \in Nat
    BY DEF Leaves
  <2> HIDE DEF m, n
  <2>2. m = 0 => n = 1
    BY <2>1
  <2> QED BY <2>2 DEF m, n
<1> QED BY <1>1 DEF Leaves, Noted, Outermost, Stays

\* The result passed on, the Ctx as it was.
LEMMA PassedOn ==
  ASSUME NEW q, NEW x, NEW kind, Leaves(q, x, kind), NEW q2, Popped(q, q.res, q2), NEW x2,
         x2.handled = x.handled
  PROVE  Funnelled(q2, x2) /\ Carried(q2, x2)
  BY DEF Leaves, Popped, Live, Funnelled, Carried, Bug, Fails, PanicCode, Stays

\* What PopOK asks of the request besides.
LEMMA PoppedOK ==
  ASSUME NEW q, NEW x, NEW kind, Leaves(q, x, kind), NEW res, NEW q2, Popped(q, res, q2)
  PROVE  q2.body # "stream" /\ q2.logged = 0
  BY DEF Leaves, Popped, Live, Recorded

\* The Ctx as it was, or with the context that the frame found.
LEMMA CtxBack ==
  ASSUME NEW q \in RqT, NEW x \in CtxT, NEW m \in Nat
  PROVE  /\ Keeps(q, x, x) /\ SameStream(x, x)
         /\ SetContext(x, m) \in CtxT /\ Keeps(q, x, SetContext(x, m))
         /\ SameStream(x, SetContext(x, m)) /\ SetContext(x, m).handled = x.handled
         /\ SetContext(x, m).ctx = m
  BY DEF Keeps, SameStream, SetContext, CtxT

\* KeyAuth, CORS, Recover and user middleware leave the Ctx alone.
LEMMA PlainPop ==
  ASSUME IInv, NEW r \in Workers, NEW kind, Leaving(r, kind),
         kind \notin {"logger", "otel", "timeout"}, NEW q2 \in RqT, q2.pc = "up",
         Stays(rq[r], q2), q2.frames = Front(rq[r].frames), q2.asked = rq[r].asked,
         q2.body = rq[r].body, q2.logged = rq[r].logged,
         Funnelled(q2, Ctx(r)), Carried(q2, Ctx(r)),
         rq' = [rq EXCEPT ![r] = q2], UNCHANGED <<app, forced, pool, ctx>>
  PROVE  OwnStep(r)
<1> DEFINE q == rq[r]
           x == Ctx(r)
<1>1. Leaves(q, x, kind)
  BY LeaveFacts
<1>2. Noted(q2)
  BY <1>1, NotedPlain DEF Leaves
<1>3. q2.body # "stream"
  BY <1>1 DEF Leaves, Live, Recorded
<1>4. Keeps(q, x, x) /\ SameStream(x, x)
  BY DEF Keeps, SameStream
<1>5. q \in RqT /\ x \in CtxT /\ q.pc = "up" /\ RequestOK(q, x) /\ Len(q.frames) > 0 /\ Holds(q)
      /\ q.chain[Len(q.frames)] \notin {"timeout", "otel"}
  BY <1>1 DEF Leaves
<1>6. Own(q, x, q2, x)
  <2> HIDE DEF q, x
  <2> QED BY <1>2, <1>3, <1>4, <1>5, PopOK DEF q, x
<1> QED BY <1>5, <1>6, OnlyRequest

\* A panic stays in an error that wraps it.
LEMMA WrapPanic ==
  ASSUME NEW e \in ErrT
  PROVE  /\ HasPanic(PanicError(e))
         /\ \A n \in Nat : HasPanic(e) => HasPanic(<<Http(n)>> \o e)
<1>1. HasPanic(PanicError(e))
  <2>1. PanicError(e) = <<Panicked>> \o e /\ Panicked.link = "panic"
    BY DEF PanicError, Panicked
  <2>2. 1 \in DOMAIN (<<Panicked>> \o e) /\ (<<Panicked>> \o e)[1] = Panicked
    BY DEF ErrT
  <2> QED BY <2>1, <2>2 DEF HasPanic
<1>2. ASSUME NEW n \in Nat, HasPanic(e) PROVE HasPanic(<<Http(n)>> \o e)
  <2>1. PICK i \in DOMAIN e : e[i].link = "panic"
    BY <1>2 DEF HasPanic
  <2> DEFINE h == Http(n)
  <2> HIDE DEF h
  <2>2. i \in Nat /\ i + 1 \in DOMAIN (<<h>> \o e) /\ (<<h>> \o e)[i + 1] = e[i]
    BY <2>1 DEF ErrT
  <2> QED BY <2>1, <2>2 DEF HasPanic, h
<1> QED BY <1>1, <1>2

\* middleware.Recover
LEMMA RecoverStep == ASSUME IInv, NEW r \in Workers, Recover(r) PROVE OwnStep(r)
<1> DEFINE q == rq[r]
           x == Ctx(r)
           e == q.res.e
<1>1. Leaving(r, "recover") /\ UNCHANGED <<app, forced, pool, ctx>>
  BY DEF Recover, SetRq
<1>2. Leaves(q, x, "recover")
  BY <1>1, LeaveFacts
<1>3. q.res \in ResT /\ e \in ErrT
  BY <1>2 DEF Leaves
<1>4. CASE q.res.kind # "panic"
  <2> DEFINE q2 == Up(r, q.res)
  <2>1. rq' = [rq EXCEPT ![r] = q2]
    BY <1>4 DEF Recover, SetRq, Unwinding
  <2>2. Popped(q, q.res, q2)
    BY <1>1, <1>3, UpFacts
  <2> HIDE DEF q2
  <2>3. Funnelled(q2, x) /\ Carried(q2, x)
    BY <1>2, <2>2, PassedOn
  <2> QED BY <1>1, <2>1, <2>2, <2>3, PlainPop DEF Popped
<1>5. CASE q.res.kind = "panic"
  <2> DEFINE res == Return(PanicError(e))
             q2 == Up(r, res)
  <2>1. rq' = [rq EXCEPT ![r] = q2]
    BY <1>5 DEF Recover, SetRq, Unwinding
  <2>2. PanicError(e) \in ErrT /\ res \in ResT /\ res.kind = "return" /\ res.e = PanicError(e)
    BY <1>3, ErrorTypes, ResultTypes
  <2> HIDE DEF res
  <2>3. Popped(q, res, q2)
    BY <1>1, <2>2, UpFacts
  <2> HIDE DEF q2
  <2>4. Funnelled(q2, x)
    BY <1>2, <2>2, <2>3 DEF Leaves, Live, Funnelled, Popped
  <2>5. Carried(q2, x)
    <3>1. x.handled => q.late
      BY <1>2, <1>5 DEF Leaves, Live, Funnelled
    <3>2. "recover" \in Range(q.chain)
      <4>1. q.chain \in Seq(Chained)
        BY <1>2 DEF Leaves, RqT
      <4>2. Len(q.frames) \in DOMAIN q.chain
        BY <1>2, <4>1 DEF Leaves
      <4> QED BY <1>2, <4>2 DEF Leaves, Range
    <3>3. HasPanic(q2.res.e)
      BY <1>3, <2>2, <2>3, WrapPanic DEF Popped
    <3>4. q2.res.e # <<>>
      BY <3>3 DEF HasPanic
    <3> QED BY <2>3, <3>1, <3>2, <3>3, <3>4 DEF Popped, Carried, Bug, PanicCode, Stays
  <2> QED BY <1>1, <2>1, <2>3, <2>4, <2>5, PlainPop DEF Popped
<1> QED BY <1>4, <1>5

\* KeyAuth and CORS
LEMMA PassStep == ASSUME IInv, NEW r \in Workers, PassThrough(r) PROVE OwnStep(r)
<1> DEFINE q == rq[r]
           q2 == Up(r, q.res)
<1>1. PICK kind \in {"keyauth", "cors"} : Leaving(r, kind)
  BY DEF PassThrough
<1>2. rq' = [rq EXCEPT ![r] = q2] /\ UNCHANGED <<app, forced, pool, ctx>>
  BY DEF PassThrough, SetRq
<1>3. Leaves(q, Ctx(r), kind) /\ q.res \in ResT
  BY <1>1, LeaveFacts DEF Leaves
<1>4. Popped(q, q.res, q2)
  BY <1>1, <1>3, UpFacts
<1> HIDE DEF q2
<1>5. Funnelled(q2, Ctx(r)) /\ Carried(q2, Ctx(r))
  BY <1>3, <1>4, PassedOn
<1> QED BY <1>1, <1>2, <1>4, <1>5, PlainPop DEF Popped

\* An error wrapped in an HTTPError carries what it carried.
LEMMA Wrapped ==
  ASSUME NEW q, NEW x, NEW kind, Leaves(q, x, kind), q.res.kind # "panic",
         NEW n \in Nat, NEW q2, Popped(q, Return(<<Http(n)>> \o q.res.e), q2), NEW x2,
         x2.handled = x.handled
  PROVE  Funnelled(q2, x2) /\ Carried(q2, x2)
<1> DEFINE e2 == <<Http(n)>> \o q.res.e
<1>1. q.res.e \in ErrT
  BY DEF Leaves
<1>2. e2 \in ErrT /\ (HasPanic(q.res.e) => HasPanic(e2))
  BY <1>1, ErrorTypes, WrapPanic
<1>4. e2 # <<>>
  <2>1. Len(<<Http(n)>> \o q.res.e) = Len(<<Http(n)>>) + Len(q.res.e)
    BY <1>1 DEF ErrT
  <2>2. Len(<<Http(n)>>) = 1 /\ Len(q.res.e) \in Nat
    BY <1>1 DEF ErrT
  <2> QED BY <2>1, <2>2
<1> HIDE DEF e2
<1>3. q2.res = Return(e2) /\ Return(e2).kind = "return" /\ Return(e2).e = e2
  BY <1>2, ResultTypes DEF Popped, e2
<1> QED BY <1>2, <1>3, <1>4 DEF Leaves, Popped, Live, Funnelled, Carried, Bug, PanicCode, Stays

\* A user's middleware
LEMMA UserStep == ASSUME IInv, NEW r \in Workers, User(r) PROVE OwnStep(r)
<1> DEFINE q == rq[r]
           x == Ctx(r)
<1>1. Leaving(r, "user") /\ UNCHANGED ctx
  BY DEF User
<1>2. Leaves(q, x, "user") /\ q.res \in ResT /\ q.res.e \in ErrT /\ x \in CtxT
  BY <1>1, LeaveFacts DEF Leaves
<1>3. ASSUME SetRq(r, Up(r, q.res)) PROVE OwnStep(r)
  <2> DEFINE q2 == Up(r, q.res)
  <2>1. rq' = [rq EXCEPT ![r] = q2] /\ UNCHANGED <<app, forced, pool, ctx>>
    BY <1>1, <1>3 DEF SetRq
  <2>2. Popped(q, q.res, q2)
    BY <1>1, <1>2, UpFacts
  <2> HIDE DEF q2
  <2>3. Funnelled(q2, x) /\ Carried(q2, x)
    BY <1>2, <2>2, PassedOn
  <2> QED BY <1>1, <2>1, <2>2, <2>3, PlainPop DEF Popped
<1>4. ASSUME ~Unwinding(r), SetRq(r, Up(r, Return(<<Http(404)>> \o q.res.e))) PROVE OwnStep(r)
  <2> DEFINE res == Return(<<Http(404)>> \o q.res.e)
             q2 == Up(r, res)
  <2>1. rq' = [rq EXCEPT ![r] = q2] /\ UNCHANGED <<app, forced, pool, ctx>>
    BY <1>1, <1>4 DEF SetRq
  <2>2. res \in ResT
    BY <1>2, ErrorTypes, ResultTypes
  <2>3. Popped(q, res, q2)
    <3> HIDE DEF res
    <3> QED BY <1>1, <2>2, UpFacts
  <2> HIDE DEF q2
  <2>4. Funnelled(q2, x) /\ Carried(q2, x)
    BY <1>2, <1>4, <2>3, Wrapped DEF Unwinding
  <2> QED BY <1>1, <2>1, <2>3, <2>4, PlainPop DEF Popped
<1>5. ASSUME NEW e \in Errors \cup {<<>>},
             SetRq(r, [Up(r, Return(e)) EXCEPT !.bug = FALSE])
      PROVE  OwnStep(r)
  <2> DEFINE u == Up(r, Return(e))
             q2 == [u EXCEPT !.bug = FALSE]
  <2>1. rq' = [rq EXCEPT ![r] = q2] /\ UNCHANGED <<app, forced, pool, ctx>>
    BY <1>1, <1>5 DEF SetRq
  <2>2. Return(e) \in ResT /\ Return(e).kind = "return"
    BY ErrorTypes, ResultTypes
  <2>3. Popped(q, Return(e), u)
    BY <1>1, <2>2, UpFacts
  <2> HIDE DEF u
  <2>4. q2 \in RqT
    BY <2>3 DEF RqT, Popped
  <2>5. /\ q2.pc = "up" /\ Stays(q, q2) /\ q2.frames = Front(q.frames) /\ q2.asked = q.asked
        /\ q2.body = q.body /\ q2.logged = q.logged /\ q2.bug = FALSE
        /\ q2.res.kind = "return" /\ q2.funnels = q.funnels
    BY <2>2, <2>3 DEF RqT, Popped, Stays
  <2> HIDE DEF q2
  <2>6. ~Fails(q2)
    <3>1. q.chain \in Seq(Chained) /\ q2.chain = q.chain
      BY <1>2, <2>5 DEF Leaves, RqT, Stays
    <3>2. Len(q.frames) \in DOMAIN q.chain
      BY <1>2, <3>1 DEF Leaves
    <3> QED BY <1>2, <3>1, <3>2 DEF Leaves, Range, Fails
  <2>7. Funnelled(q2, x) /\ Carried(q2, x)
    BY <1>2, <2>5, <2>6 DEF Leaves, Live, Funnelled, Carried, Bug
  <2> QED BY <1>1, <2>1, <2>4, <2>5, <2>7, PlainPop
<1>6. ASSUME SetRq(r, Panicking(Up(r, rq[r].res), Ctx(r), <<>>)) PROVE OwnStep(r)
  <2> DEFINE u == Up(r, q.res)
             q2 == Panicking(u, x, <<>>)
  <2>1. rq' = [rq EXCEPT ![r] = q2] /\ UNCHANGED <<app, forced, pool, ctx>>
    BY <1>1, <1>6 DEF SetRq
  <2>2. Popped(q, q.res, u)
    BY <1>1, <1>2, UpFacts
  <2>3. Raise(<<>>) \in ResT /\ Raise(<<>>).kind = "panic" /\ x.handled \in BOOLEAN
    BY <1>2, ErrorTypes, ResultTypes DEF CtxT
  <2> HIDE DEF u
  <2>4. q2 \in RqT
    BY <2>2, <2>3 DEF RqT, Popped, Panicking
  <2>5. /\ q2.pc = "up" /\ Stays(q, q2) /\ q2.frames = Front(q.frames) /\ q2.asked = q.asked
        /\ q2.body = q.body /\ q2.logged = q.logged /\ q2.bug = TRUE /\ q2.late = x.handled
        /\ q2.res.kind = "panic" /\ q2.funnels = q.funnels
    BY <2>2, <2>3 DEF RqT, Popped, Stays, Panicking
  <2> HIDE DEF q2
  <2>6. Funnelled(q2, x) /\ Carried(q2, x)
    BY <1>2, <2>5 DEF Leaves, Live, Funnelled, Carried
  <2> QED BY <1>1, <2>1, <2>4, <2>5, <2>6, PlainPop
<1> QED BY <1>3, <1>4, <1>5, <1>6 DEF User

\* middleware.Timeout
LEMMA TimeoutStep == ASSUME IInv, NEW r \in Workers, Timeout(r) PROVE OwnStep(r)
<1> DEFINE q == rq[r]
           x == Ctx(r)
           x2 == SetContext(x, Last(q.frames).prev)
<1>1. Leaving(r, "timeout") /\ UNCHANGED <<app, forced, pool>> /\ ctx' = [ctx EXCEPT ![q.c] = x2]
  BY DEF Timeout, SetRq, SetCtx, Top
<1>2. Leaves(q, x, "timeout")
  BY <1>1, LeaveFacts
<1>3. q.res \in ResT /\ q.res.e \in ErrT /\ q \in RqT /\ x \in CtxT /\ Last(q.frames).prev \in Nat
      /\ q.pc = "up" /\ RequestOK(q, x) /\ Len(q.frames) > 0
      /\ q.chain[Len(q.frames)] = "timeout"
  BY <1>2 DEF Leaves
<1>4. /\ x2 \in CtxT /\ Keeps(q, x, x2) /\ SameStream(x, x2) /\ x2.handled = x.handled
      /\ x2.ctx = Last(q.frames).prev
  BY <1>3, CtxBack, SMTT(30)
<1> HIDE DEF x2
<1>5. PICK res \in ResT : /\ rq' = [rq EXCEPT ![r] = Up(r, res)]
                           /\ \/ res = q.res
                              \/ q.res.kind # "panic" /\ res = Return(<<Http(503)>> \o q.res.e)
  <2>1. \E res \in {q.res, Return(<<Http(503)>> \o q.res.e)} :
           /\ rq' = [rq EXCEPT ![r] = Up(r, res)]
           /\ res # q.res => q.res.kind # "panic"
    BY DEF Timeout, SetRq, Unwinding
  <2>2. Return(<<Http(503)>> \o q.res.e) \in ResT
    BY <1>3, ErrorTypes, ResultTypes
  <2> QED BY <1>3, <2>1, <2>2, ZenonT(30)
<1> DEFINE q2 == Up(r, res)
<1>6. Popped(q, res, q2)
  BY <1>1, UpFacts
<1>7. rq' = [rq EXCEPT ![r] = q2]
  BY <1>5
<1> HIDE DEF q2
<1>8. Funnelled(q2, x2) /\ Carried(q2, x2)
  BY <1>2, <1>4, <1>5, <1>6, PassedOn, Wrapped
<1>9. Noted(q2)
  BY <1>2, <1>6, NotedPlain, PoppedOK DEF Popped
<1>10. q2.body # "stream"
  BY <1>2, <1>6, PoppedOK
<1>11. Own(q, x, q2, x2)
  <2> HIDE DEF q, x
  <2> QED BY <1>3, <1>4, <1>6, <1>8, <1>9, <1>10, PopOK DEF Popped
<1> QED BY <1>1, <1>7, <1>11 DEF OwnStep

\* Logger and otelrice settle the error they get before they return nil.
Answered(q, x, h, y) ==
  /\ h \in RqT /\ y \in CtxT /\ h.pc = "up" /\ Stays(q, h) /\ h.frames = Front(q.frames)
  /\ h.asked = q.asked /\ h.body # "stream" /\ h.logged = 0 /\ h.res = Return(<<>>)
  /\ Keeps(q, x, y) /\ SameStream(x, y) /\ y.ctx = x.ctx
  /\ Funnelled(h, y) /\ Carried(h, y)

LEMMA AnswersFirst ==
  ASSUME NEW q, NEW x, NEW kind, Leaves(q, x, kind), q.res.kind # "panic",
         NEW u, Popped(q, Return(<<>>), u),
         NEW h, NEW y, Settled(u, x, q.res.e, h, y)
  PROVE  Answered(q, x, h, y)
<1> DEFINE e == q.res.e
<1>1. q \in RqT /\ x \in CtxT /\ Live(q, x) /\ q.pc = "up" /\ q.logged = 0 /\ e \in ErrT
  BY DEF Leaves
<1>2. Return(<<>>).kind = "return" /\ Return(<<>>).e = <<>>
  BY ErrorTypes, ResultTypes
<1>3. u \in RqT /\ u.bug = q.bug /\ u.late = q.late /\ Stays(q, u) /\ u.failed = q.failed
  BY DEF Popped
<1>4. CASE e = <<>> \/ x.handled
  <2>1. h = u /\ y = x
    BY <1>4 DEF Settled
  <2>2. Funnelled(u, x)
    BY <1>1, <1>2 DEF Live, Funnelled, Popped
  <2>3. Carried(u, x)
    <3>1. ~HasPanic(e) \/ x.handled
      BY <1>4 DEF HasPanic
    <3>2. Fails(u) => x.handled
      BY <1>1, <1>3, <1>4 DEF Live, Carried, Fails, Stays
    <3> QED BY <1>1, <1>2, <3>1, <3>2 DEF Live, Carried, Popped, Bug, PanicCode, Stays
  <2> QED BY <1>1, <2>1, <2>2, <2>3 DEF Answered, Popped, Keeps, SameStream, Live, Recorded
<1>5. CASE ~(e = <<>> \/ x.handled)
  <2> DEFINE code == callErrorHandler(e)
             mine == app.errorHandler = "custom"
  <2>1. code \in Nat /\ (HasPanic(e) => code = IF mine THEN CustomStatus ELSE 500)
    BY <1>1, <1>5, StatusOf
  <2>2. h = [u EXCEPT !.status = code, !.body = "error", !.own = mine, !.funnels = @ + 1]
    BY <1>5 DEF Settled
  <2> HIDE DEF code, mine
  <2>3. y = [x EXCEPT !.handled = TRUE]
    BY <1>5 DEF Settled
  <2>4. h \in RqT /\ y \in CtxT
    BY DEF Settled
  <2>5. /\ h.pc = u.pc /\ Stays(u, h) /\ h.frames = u.frames /\ h.asked = u.asked
        /\ h.body = "error" /\ h.logged = u.logged /\ h.res = u.res /\ h.status = code
        /\ h.funnels = u.funnels + 1 /\ h.bug = u.bug /\ h.late = u.late /\ h.own = mine
    BY <1>3, <2>2 DEF RqT, Stays
  <2>6. Keeps(q, x, y) /\ SameStream(x, y) /\ y.ctx = x.ctx /\ y.handled = TRUE
    BY <1>1, <2>3 DEF CtxT, Keeps, SameStream
  <2>7. q.funnels = 0
    BY <1>1, <1>5 DEF Live, Funnelled
  <2>8. Funnelled(h, y)
    BY <1>2, <2>5, <2>6, <2>7 DEF Funnelled, Popped
  <2>9. Carried(h, y)
    <3>1. Bug(q) => HasPanic(e)
      BY <1>1, <1>5 DEF Live, Carried
    <3>2. Bug(h) => Bug(q)
      BY <1>3, <2>5 DEF Bug, Stays
    <3> QED BY <2>1, <2>5, <2>6, <3>1, <3>2 DEF Carried, PanicCode, Popped
  <2>10. Stays(q, h)
    BY <1>3, <2>5 DEF Stays
  <2> QED BY <1>1, <2>4, <2>5, <2>6, <2>8, <2>9, <2>10 DEF Answered, Popped
<1> QED BY <1>4, <1>5

\* A record of the status changes nothing else.
SameButNotes(q, q2) ==
  /\ q2 \in RqT /\ q2.pc = q.pc /\ Stays(q, q2) /\ q2.frames = q.frames /\ q2.res = q.res
  /\ q2.status = q.status /\ q2.body = q.body /\ q2.funnels = q.funnels
  /\ q2.asked = q.asked /\ q2.bug = q.bug /\ q2.late = q.late /\ q2.own = q.own
  /\ q2.failed = q.failed

LEMMA Notes ==
  ASSUME NEW q \in RqT, NEW n \in Nat
  PROVE  /\ SameButNotes(q, [q EXCEPT !.logged = n]) /\ [q EXCEPT !.logged = n].logged = n
         /\ [q EXCEPT !.logged = n].span = q.span
         /\ SameButNotes(q, [q EXCEPT !.span = n]) /\ [q EXCEPT !.span = n].span = n
         /\ [q EXCEPT !.span = n].logged = q.logged
<1>1. [q EXCEPT !.logged = n] \in RqT /\ [q EXCEPT !.span = n] \in RqT
  BY DEF RqT
<1> QED BY <1>1 DEF SameButNotes, Stays, RqT

LEMMA NotesKeep ==
  ASSUME NEW q, NEW q2, NEW x, NEW x2, SameButNotes(q, q2), x2.handled = x.handled,
         Funnelled(q, x), Carried(q, x)
  PROVE  Funnelled(q2, x2) /\ Carried(q2, x2)
  BY DEF SameButNotes, Funnelled, Carried, Bug, Fails, PanicCode, Stays

\* The outermost frame is the one left exactly when it is the only one.
LEMMA LastOne ==
  ASSUME NEW q, NEW x, NEW kind, Leaves(q, x, kind)
  PROVE  /\ Len(Front(q.frames)) = 0 <=> Len(q.frames) = 1
         /\ Len(q.frames) = 1 => q.chain # <<>> /\ q.chain[1] = kind
<1> DEFINE m == Len(Front(q.frames))
           n == Len(q.frames)
<1>1. m = n - 1 /\ n \in Nat /\ n <= Len(q.chain) /\ q.chain[n] = kind /\ q \in RqT
  BY DEF Leaves
<1>2. q.chain \in Seq(Chained)
  BY <1>1 DEF RqT
<1> HIDE DEF m, n
<1>3. (m = 0) <=> (n = 1)
  BY <1>1
<1>4. n = 1 => q.chain # <<>>
  BY <1>1, <1>2
<1> QED BY <1>1, <1>3, <1>4 DEF m, n

\* middleware.Logger
LEMMA LoggerStep == ASSUME IInv, NEW r \in Workers, Logger(r) PROVE OwnStep(r)
<1> DEFINE q == rq[r]
           x == Ctx(r)
           d == Len(q.frames)
<1>1. Leaving(r, "logger") /\ UNCHANGED <<app, forced, pool>>
  BY DEF Logger, SetRq
<1>2. Leaves(q, x, "logger")
  BY <1>1, LeaveFacts
<1>3. q.res \in ResT /\ q.res.e \in ErrT /\ q \in RqT /\ x \in CtxT /\ q.pc = "up"
      /\ RequestOK(q, x) /\ Len(q.frames) > 0 /\ Holds(q)
      /\ q.chain[Len(q.frames)] = "logger" /\ q.logged = 0
  BY <1>2 DEF Leaves
<1>4. /\ Len(Front(q.frames)) = 0 <=> d = 1
      /\ d = 1 => q.chain # <<>> /\ q.chain[1] = "logger"
  BY <1>2, LastOne
<1>5. CASE q.res.kind = "panic"
  <2> DEFINE q2 == Up(r, q.res)
  <2>1. rq' = [rq EXCEPT ![r] = q2] /\ UNCHANGED ctx
    BY <1>5 DEF Logger, SetRq, Unwinding
  <2>2. Popped(q, q.res, q2)
    BY <1>1, <1>3, UpFacts
  <2> HIDE DEF q2
  <2>3. Funnelled(q2, x) /\ Carried(q2, x)
    BY <1>2, <2>2, PassedOn
  <2>4. q2.body # "stream" /\ q2.logged = 0
    BY <1>2, <2>2, PoppedOK
  <2>5. Noted(q2)
    BY <1>4, <1>5, <2>2, <2>4 DEF Noted, Popped, Outermost, Stays
  <2>6. Own(q, x, q2, x)
    <3>1. Keeps(q, x, x) /\ SameStream(x, x)
      BY DEF Keeps, SameStream
    <3> HIDE DEF q, x
    <3> QED BY <1>3, <2>2, <2>3, <2>4, <2>5, <3>1, PopOK DEF Popped
  <2> QED BY <1>1, <1>3, <2>1, <2>6, OnlyRequest
<1>6. CASE q.res.kind # "panic"
  <2> DEFINE u == Up(r, Return(<<>>))
             h == HandleError(u, x, q.res.e)[1]
             y == HandleError(u, x, q.res.e)[2]
             n == IF d = 1 THEN h.status ELSE h.logged
             q2 == [h EXCEPT !.logged = n]
  <2>1. rq' = [rq EXCEPT ![r] = q2]
    BY <1>6 DEF Logger, SetRq, Unwinding, Depth
  <2>2. ctx' = [ctx EXCEPT ![q.c] = y]
    BY <1>6 DEF Logger, SetCtx, Unwinding
  <2>3. Popped(q, Return(<<>>), u)
    BY <1>1, UpFacts, ErrorTypes, ResultTypes
  <2> HIDE DEF u
  <2>4. Settled(u, x, q.res.e, h, y)
    BY <1>3, <2>3, HandleOK DEF Popped
  <2> HIDE DEF h, y
  <2>5. Answered(q, x, h, y)
    BY <1>2, <1>6, <2>3, <2>4, AnswersFirst
  <2>6. h \in RqT /\ n \in Nat
    BY <2>5 DEF Answered, RqT
  <2> HIDE DEF n
  <2>7. SameButNotes(h, q2) /\ q2.logged = n
    BY <2>6, Notes
  <2> HIDE DEF q2
  <2>8. Funnelled(q2, y) /\ Carried(q2, y)
    BY <2>5, <2>7, NotesKeep DEF Answered
  <2>9. Noted(q2)
    <3>1. Return(<<>>).kind = "return" /\ Return(<<>>).e = <<>>
      BY ErrorTypes, ResultTypes
    <3>2. q2.pc = "up" /\ q2.frames = Front(q.frames) /\ q2.res = Return(<<>>)
          /\ q2.chain = q.chain /\ q2.status = h.status /\ h.logged = 0
      BY <2>5, <2>7 DEF Answered, SameButNotes, Stays
    <3>3. d # 1 => q2.logged = 0
      BY <2>7, <3>2 DEF n
    <3>4. d = 1 => q2.logged = q2.status
      BY <2>7, <3>2 DEF n
    <3> HIDE DEF d
    <3>5. Len(q2.frames) \in Nat
      BY <2>7 DEF SameButNotes, RqT
    <3> QED BY <1>4, <3>1, <3>2, <3>3, <3>4, <3>5 DEF Noted, Outermost
  <2>10. Own(q, x, q2, y)
    <3>1. q2 \in RqT /\ y \in CtxT /\ q2.pc = "up" /\ Stays(q, q2) /\ Keeps(q, x, y)
          /\ q2.frames = Front(q.frames) /\ q2.asked = q.asked /\ q2.body # "stream"
          /\ SameStream(x, y) /\ y.ctx = x.ctx
      BY <2>5, <2>7 DEF Answered, SameButNotes, Stays
    <3> HIDE DEF q, x
    <3> QED BY <1>3, <2>8, <2>9, <3>1, PopOK
  <2> QED BY <1>1, <2>1, <2>2, <2>10 DEF OwnStep
<1> QED BY <1>5, <1>6

\* otelrice.Middleware
LEMMA OtelStep == ASSUME IInv, NEW r \in Workers, Otel(r) PROVE OwnStep(r)
<1> DEFINE q == rq[r]
           x == Ctx(r)
           d == Len(q.frames)
           m == Last(q.frames).prev
<1>1. Leaving(r, "otel") /\ UNCHANGED <<app, forced, pool>>
  BY DEF Otel, SetRq
<1>2. Leaves(q, x, "otel")
  BY <1>1, LeaveFacts
<1>3. q.res \in ResT /\ q.res.e \in ErrT /\ q \in RqT /\ x \in CtxT /\ q.pc = "up"
      /\ RequestOK(q, x) /\ Len(q.frames) > 0 /\ Holds(q) /\ m \in Nat
      /\ q.chain[Len(q.frames)] = "otel" /\ q.logged = 0
  BY <1>2 DEF Leaves
<1>4. /\ Len(Front(q.frames)) = 0 <=> d = 1
      /\ d = 1 => q.chain # <<>> /\ q.chain[1] = "otel"
  BY <1>2, LastOne
<1>5. CASE q.res.kind = "panic"
  <2> DEFINE u == Up(r, q.res)
             n == IF d = 1 THEN 500 ELSE u.span
             q2 == [u EXCEPT !.span = n]
             x2 == SetContext(x, m)
  <2>1. rq' = [rq EXCEPT ![r] = q2]
    BY <1>5 DEF Otel, SetRq, Unwinding, Depth
  <2>2. ctx' = [ctx EXCEPT ![q.c] = x2]
    BY <1>5 DEF Otel, SetCtx, Unwinding, Top
  <2>3. Popped(q, q.res, u)
    BY <1>1, <1>3, UpFacts
  <2>4. /\ x2 \in CtxT /\ Keeps(q, x, x2) /\ SameStream(x, x2) /\ x2.handled = x.handled
        /\ x2.ctx = m
    <3>1. q \in RqT /\ x \in CtxT /\ m \in Nat
      BY <1>3
    <3> HIDE DEF q, x, m
    <3> QED BY <3>1, CtxBack
  <2> HIDE DEF u, x2
  <2>5. u \in RqT /\ n \in Nat
    BY <2>3 DEF Popped, RqT
  <2>6. Funnelled(u, x) /\ Carried(u, x)
    BY <1>2, <2>3, PassedOn
  <2> HIDE DEF n
  <2>7. SameButNotes(u, q2) /\ q2.span = n /\ q2.logged = u.logged
    BY <2>5, Notes
  <2> HIDE DEF q2
  <2>8. Funnelled(q2, x2) /\ Carried(q2, x2)
    BY <2>4, <2>6, <2>7, NotesKeep
  <2>9. u.body # "stream" /\ u.logged = 0
    BY <1>2, <2>3, PoppedOK
  <2>10. q2.pc = "up" /\ q2.frames = Front(q.frames) /\ q2.res = q.res /\ Stays(q, q2)
         /\ q2.asked = q.asked /\ q2.body # "stream" /\ q2.logged = 0 /\ q2 \in RqT
    BY <2>3, <2>7, <2>9 DEF Popped, SameButNotes, Stays
  <2>11. Noted(q2)
    <3>1. d = 1 => q2.span = 500
      BY <2>7 DEF n
    <3> HIDE DEF d
    <3>2. q2.chain = q.chain
      BY <2>10 DEF Stays
    <3> QED BY <1>4, <1>5, <2>10, <3>1, <3>2 DEF Noted, Outermost
  <2>12. Own(q, x, q2, x2)
    <3>1. q.chain[Len(q.frames)] \in {"timeout", "otel"} /\ x2.ctx = Last(q.frames).prev
      BY <1>3, <2>4
    <3> HIDE DEF q, x
    <3> QED BY <1>3, <2>4, <2>8, <2>10, <2>11, <3>1, PopOK
  <2> QED BY <1>1, <2>1, <2>2, <2>12 DEF OwnStep
<1>6. CASE q.res.kind # "panic"
  <2> DEFINE u == Up(r, Return(<<>>))
             h == HandleError(u, x, q.res.e)[1]
             y == HandleError(u, x, q.res.e)[2]
             n == IF d = 1 THEN h.status ELSE h.span
             q2 == [h EXCEPT !.span = n]
             x2 == SetContext(y, m)
  <2>1. rq' = [rq EXCEPT ![r] = q2]
    BY <1>6 DEF Otel, SetRq, Unwinding, Depth
  <2>2. ctx' = [ctx EXCEPT ![q.c] = x2]
    BY <1>6 DEF Otel, SetCtx, Unwinding, Top
  <2>3. Popped(q, Return(<<>>), u)
    BY <1>1, UpFacts, ErrorTypes, ResultTypes
  <2> HIDE DEF u
  <2>4. Settled(u, x, q.res.e, h, y)
    BY <1>3, <2>3, HandleOK DEF Popped
  <2> HIDE DEF h, y
  <2>5. Answered(q, x, h, y)
    BY <1>2, <1>6, <2>3, <2>4, AnswersFirst
  <2>6. h \in RqT /\ n \in Nat
    BY <2>5 DEF Answered, RqT
  <2>7. /\ x2 \in CtxT /\ Keeps(q, y, x2) /\ SameStream(y, x2) /\ x2.handled = y.handled
        /\ x2.ctx = m
    <3>1. y \in CtxT
      BY <2>5 DEF Answered
    <3>2. q \in RqT /\ m \in Nat
      BY <1>3
    <3> HIDE DEF q, m
    <3> QED BY <3>1, <3>2, CtxBack
  <2> HIDE DEF n, x2
  <2>8. SameButNotes(h, q2) /\ q2.span = n /\ q2.logged = h.logged
    BY <2>6, Notes
  <2> HIDE DEF q2
  <2>9. Funnelled(q2, x2) /\ Carried(q2, x2)
    BY <2>5, <2>7, <2>8, NotesKeep DEF Answered
  <2>10. q2.pc = "up" /\ q2.frames = Front(q.frames) /\ q2.res = Return(<<>>) /\ Stays(q, q2)
         /\ q2.asked = q.asked /\ q2.body # "stream" /\ q2.logged = 0 /\ q2 \in RqT
    BY <2>5, <2>8 DEF Answered, SameButNotes, Stays
  <2>11. Noted(q2)
    <3>1. Return(<<>>).kind = "return" /\ Return(<<>>).e = <<>>
      BY ErrorTypes, ResultTypes
    <3>2. d = 1 => q2.span = q2.status
      BY <2>8 DEF n, SameButNotes
    <3> HIDE DEF d
    <3>3. q2.chain = q.chain
      BY <2>10 DEF Stays
    <3> QED BY <1>4, <2>10, <3>1, <3>2, <3>3 DEF Noted, Outermost
  <2>12. Own(q, x, q2, x2)
    <3>1. Keeps(q, x, x2) /\ SameStream(x, x2)
      BY <2>5, <2>7 DEF Answered, Keeps, SameStream
    <3>2. q.chain[Len(q.frames)] \in {"timeout", "otel"} /\ x2.ctx = Last(q.frames).prev
      BY <1>3, <2>7
    <3> HIDE DEF q, x
    <3> QED BY <1>3, <2>7, <2>9, <2>10, <2>11, <3>1, <3>2, PopOK
  <2> QED BY <1>1, <2>1, <2>2, <2>12 DEF OwnStep
<1> QED BY <1>5, <1>6
-----------------------------------------------------------------------------
\* handle's second half: h and y are the request and its Ctx after the funnel.
Closed(q, x, h, y) ==
  /\ h \in RqT /\ y \in CtxT /\ Stays(q, h) /\ h.frames = q.frames /\ h.asked = q.asked
  /\ Keeps(q, x, y) /\ y.ctx = x.ctx /\ h.body # "stream"
  /\ h.funnels <= IF h.late /\ h.bug THEN 2 ELSE 1
  /\ y.handled <=> h.funnels # 0
  /\ Bug(h) => h.status = PanicCode(h)
  /\ Fails(h) => h.funnels # 0
  /\ Outermost(h, "logger") => h.logged \in {0, h.status}
  /\ Outermost(h, "otel") => SpanOK(h)

\* A panic reaches handle.
LEMMA PanicClosed ==
  ASSUME NEW q \in RqT, NEW x \in CtxT, Live(q, x), q.pc = "up", Len(q.frames) = 0,
         q.res.kind = "panic",
         NEW h, NEW y,
         <<h, y>> = Funnel(q, [x EXCEPT !.handled = TRUE], PanicError(q.res.e))
  PROVE  Closed(q, x, h, y)
<1> DEFINE e == PanicError(q.res.e)
           code == callErrorHandler(e)
           mine == app.errorHandler = "custom"
           z == [x EXCEPT !.handled = TRUE]
<1>1. q.res.e \in ErrT
  BY DEF RqT, ResT
<1>2. e \in ErrT /\ HasPanic(e)
  BY <1>1, ErrorTypes, WrapPanic
<1>3. code = (IF mine THEN CustomStatus ELSE 500) /\ code \in Nat /\ mine \in BOOLEAN
  <2>1. e # <<>>
    BY <1>2 DEF HasPanic
  <2> HIDE DEF e
  <2> QED BY <1>2, <2>1, StatusOf
<1>4. z \in CtxT /\ z.handled = TRUE /\ [z EXCEPT !.handled = TRUE] = z
  BY DEF CtxT
<1>5. Keeps(q, x, z) /\ z.ctx = x.ctx
  BY DEF CtxT, Keeps
<1> HIDE DEF z
<1>6. /\ h = [q EXCEPT !.status = code, !.body = "error", !.own = mine, !.funnels = @ + 1]
      /\ y = z
  BY <1>4 DEF Funnel, z
<1> HIDE DEF code, mine
<1> DEFINE more == q.funnels + 1
<1>8. /\ more \in Nat
      /\ h = [q EXCEPT !.status = code, !.body = "error", !.own = mine, !.funnels = more]
  BY <1>6 DEF RqT
<1> HIDE DEF more
<1>9. h \in RqT
  <2>1. \A m, n \in Nat, b \in BOOLEAN :
          [q EXCEPT !.status = m, !.body = "error", !.own = b, !.funnels = n] \in RqT
    BY DEF RqT
  <2> QED BY <1>3, <1>8, <2>1, ZenonT(30)
<1>10. /\ Stays(q, h) /\ h.frames = q.frames /\ h.asked = q.asked /\ h.body = "error"
       /\ h.funnels = more /\ h.status = code /\ h.late = q.late /\ h.bug = q.bug
       /\ h.logged = q.logged /\ h.span = q.span /\ h.own = mine /\ h.res = q.res
  BY <1>8 DEF RqT, Stays
<1>11. q.bug /\ (x.handled => q.late) /\ q.funnels = IF x.handled THEN 1 ELSE 0
  BY DEF Live, Funnelled
<1>12. more <= (IF h.late /\ h.bug THEN 2 ELSE 1) /\ more # 0
  BY <1>10, <1>11 DEF more
<1>13. /\ Outermost(h, "logger") => h.logged = 0
       /\ Outermost(h, "otel") => SpanOK(h)
  BY <1>3, <1>10 DEF Live, Noted, Outermost, Stays, SpanOK
<1>14. h.status = PanicCode(h)
  BY <1>3, <1>10 DEF PanicCode
<1> QED BY <1>4, <1>5, <1>6, <1>9, <1>10, <1>12, <1>13, <1>14 DEF Closed

\* nil or an error reaches handle.
LEMMA ReturnClosed ==
  ASSUME NEW q \in RqT, NEW x \in CtxT, Live(q, x), q.pc = "up", Len(q.frames) = 0,
         q.res.kind # "panic", NEW h, NEW y, Settled(q, x, q.res.e, h, y)
  PROVE  Closed(q, x, h, y)
<1> DEFINE e == q.res.e
<1>1. e \in ErrT /\ q.res.kind = "return"
  BY DEF RqT, ResT
<1>2. q.funnels = IF x.handled THEN 1 ELSE 0
  BY DEF Live, Funnelled
<1>3. Keeps(q, x, x) /\ q.body # "stream"
  BY DEF Keeps, Live, Recorded
<1>4. Bug(q) => (x.handled /\ q.status = PanicCode(q)) \/ (~x.handled /\ HasPanic(e))
  BY DEF Live, Carried
<1>5. /\ Outermost(q, "logger") => e = <<>> /\ q.logged = q.status
      /\ Outermost(q, "otel") => e = <<>> /\ q.span = q.status
  BY DEF Live, Noted
<1>6. CASE e = <<>> \/ x.handled
  <2>1. h = q /\ y = x
    BY <1>6 DEF Settled
  <2>7. Fails(q) => q.funnels # 0
    BY <1>2, <1>6 DEF Live, Carried
  <2>2. Bug(q) => q.status = PanicCode(q)
    BY <1>4, <1>6 DEF HasPanic
  <2>3. q.funnels <= (IF q.late /\ q.bug THEN 2 ELSE 1) /\ (x.handled <=> q.funnels # 0)
    BY <1>2 DEF CtxT
  <2>4. Outermost(q, "logger") => q.logged \in {0, q.status}
    <3>1. \A l, s : l = s => l \in {0, s}
      OBVIOUS
    <3> QED BY <1>5, <3>1
  <2>5. Stays(q, q)
    BY DEF Stays
  <2>6. Outermost(q, "otel") => SpanOK(q)
    BY <1>5 DEF SpanOK
  <2> QED BY <1>3, <2>1, <2>2, <2>3, <2>4, <2>5, <2>6, <2>7 DEF Closed
<1>7. CASE ~(e = <<>> \/ x.handled)
  <2> DEFINE code == callErrorHandler(e)
             mine == app.errorHandler = "custom"
  <2>1. HasPanic(e) => code = IF mine THEN CustomStatus ELSE 500
    BY <1>1, <1>7, StatusOf
  <2>2. h = [q EXCEPT !.status = code, !.body = "error", !.own = mine, !.funnels = @ + 1]
    BY <1>7 DEF Settled
  <2> HIDE DEF code, mine
  <2>3. y = [x EXCEPT !.handled = TRUE] /\ h \in RqT /\ y \in CtxT
    BY <1>7 DEF Settled
  <2>4. /\ Stays(q, h) /\ h.frames = q.frames /\ h.asked = q.asked /\ h.body = "error"
        /\ h.status = code /\ h.late = q.late /\ h.bug = q.bug
        /\ h.funnels = q.funnels + 1 /\ h.logged = q.logged /\ h.span = q.span
        /\ h.own = mine
    BY <2>2 DEF RqT, Stays
  <2>5. Keeps(q, x, y) /\ y.ctx = x.ctx /\ y.handled = TRUE
    BY <2>3 DEF CtxT, Keeps
  <2>6. h.funnels = 1 /\ h.funnels <= IF h.late /\ h.bug THEN 2 ELSE 1
    BY <1>2, <1>7, <2>4
  <2>7. Bug(h) => h.status = PanicCode(h)
    BY <1>4, <1>7, <2>1, <2>4 DEF Bug, PanicCode, Stays
  <2>8. ~Outermost(h, "logger") /\ ~Outermost(h, "otel")
    BY <1>5, <1>7, <2>4 DEF Outermost, Stays
  <2> QED BY <2>3, <2>4, <2>5, <2>6, <2>7, <2>8 DEF Closed
<1> QED BY <1>6, <1>7

LEMMA SettleStep == ASSUME IInv, NEW r \in Workers, Settle(r) PROVE OwnStep(r)
<1> DEFINE q == rq[r]
           x == Ctx(r)
           hy == IF q.res.kind = "panic"
                   THEN Funnel(q, [x EXCEPT !.handled = TRUE], PanicError(q.res.e))
                   ELSE HandleError(q, x, q.res.e)
           h == hy[1]
           y == hy[2]
           q2 == [h EXCEPT !.pc = "release", !.fn = x.streamFn, !.answered = y.handled]
<1>1. q.pc = "up" /\ Len(q.frames) = 0 /\ UNCHANGED <<app, forced, pool>>
  BY DEF Settle, Depth, SetRq
<1>2. rq' = [rq EXCEPT ![r] = q2] /\ ctx' = [ctx EXCEPT ![q.c] = y]
  BY DEF Settle, SetRq, SetCtx, Unwinding
<1>3. q \in RqT /\ x \in CtxT /\ RequestOK(q, x) /\ Holds(q)
  BY <1>1, InHand DEF Holds
<1>4. Live(q, x) /\ Scoped(q, x)
  BY <1>1, <1>3 DEF RequestOK
<1>5. Closed(q, x, h, y)
  <2> HIDE DEF q, x
  <2>1. CASE q.res.kind = "panic"
    <3>1. hy = Funnel(q, [x EXCEPT !.handled = TRUE], PanicError(q.res.e))
      BY <2>1
    <3>2. <<h, y>> = Funnel(q, [x EXCEPT !.handled = TRUE], PanicError(q.res.e))
      BY <3>1 DEF Funnel
    <3> HIDE DEF hy, h, y
    <3> QED BY <1>1, <1>3, <1>4, <2>1, <3>2, PanicClosed
  <2>2. CASE q.res.kind # "panic"
    <3>1. h = HandleError(q, x, q.res.e)[1] /\ y = HandleError(q, x, q.res.e)[2]
      BY <2>2
    <3>2. q.res.e \in ErrT
      BY <1>3 DEF RqT, ResT
    <3> HIDE DEF h, y
    <3>3. Settled(q, x, q.res.e, h, y)
      BY <1>3, <3>1, <3>2, HandleOK
    <3> QED BY <1>1, <1>3, <1>4, <2>2, <3>3, ReturnClosed
  <2> QED BY <2>1, <2>2
<1> HIDE DEF h, y
<1>6. h \in RqT /\ y \in CtxT /\ x.streamFn \in BOOLEAN /\ y.handled \in BOOLEAN
  BY <1>3, <1>5 DEF Closed, CtxT
<1>7. q2 \in RqT
  BY <1>6 DEF RqT
<1>8. /\ q2.pc = "release" /\ q2.fn = x.streamFn /\ q2.answered = y.handled
      /\ Stays(h, q2) /\ q2.frames = h.frames /\ q2.asked = h.asked /\ q2.body = h.body
      /\ q2.funnels = h.funnels /\ q2.late = h.late /\ q2.bug = h.bug
      /\ q2.status = h.status /\ q2.logged = h.logged /\ q2.span = h.span
      /\ q2.own = h.own /\ q2.res = h.res /\ q2.failed = h.failed
  BY <1>6 DEF RqT, Stays
<1> HIDE DEF q2
<1>9. Stays(q, q2)
  BY <1>5, <1>8 DEF Closed, Stays
<1>10. Ended(q2)
  <2>1. x.streamFn <=> (q.asked /\ ~q.head)
    BY <1>4 DEF Live, Recorded
  <2>2. q2.asked = q.asked /\ q2.head = q.head
    BY <1>5, <1>8, <1>9 DEF Closed, Stays
  <2>3. q2.fn <=> (q2.asked /\ ~q2.head)
    BY <1>8, <2>1, <2>2
  <2>4. /\ Bug(q2) => q2.status = PanicCode(q2)
        /\ Outermost(q2, "logger") => q2.logged \in {0, q2.status}
        /\ Outermost(q2, "otel") => SpanOK(q2)
        /\ Fails(q2) => q2.funnels # 0
    BY <1>5, <1>8 DEF Closed, Bug, Fails, PanicCode, SpanOK, Outermost, Stays
  <2>5. /\ q2.funnels <= IF q2.late /\ q2.bug THEN 2 ELSE 1
        /\ q2.answered <=> q2.funnels # 0
        /\ q2.body # "stream"
    BY <1>5, <1>8 DEF Closed
  <2> QED BY <1>8, <2>3, <2>4, <2>5 DEF Ended
<1>11. Scoped(q2, y)
  BY <1>4, <1>5, <1>8, <1>9 DEF Closed, Scoped, Stays
<1>12. Own(q, x, q2, y)
  BY <1>5, <1>7, <1>8, <1>9, <1>10, <1>11 DEF Closed, Own, RequestOK, Holds
<1> QED BY <1>1, <1>2, <1>12 DEF OwnStep

\* A panic of the handler itself.
LEMMA PanicStep == ASSUME IInv, NEW r \in Workers, HandlerPanics(r) PROVE OwnStep(r)
<1>1. InHandler(r) /\ UNCHANGED <<app, forced, pool, ctx>>
  BY DEF HandlerPanics
<1>2. PICK v \in ErrT : rq' = [rq EXCEPT ![r] = Failed(Panicking(@, Ctx(r), v))]
  BY ErrorTypes DEF HandlerPanics
<1> QED BY <1>1, <1>2, HandlerThrows

\* Every step of a request between Acquire and Release.
InFlightStep(r) ==
  \/ CallNext(r) \/ KeyAuth(r) \/ CORS(r) \/ UserRefuses(r)
  \/ TimeoutEnters(r) \/ OtelEnters(r)
  \/ notFound(r) \/ Write(r) \/ RegisterStream(r) \/ HandlerSettles(r)
  \/ HandlerReturns(r) \/ HandlerPanics(r)
  \/ Logger(r) \/ Recover(r) \/ Timeout(r) \/ Otel(r) \/ PassThrough(r)
  \/ User(r) \/ Settle(r)

LEMMA StepOwn == ASSUME IInv, NEW r \in Workers, InFlightStep(r) PROVE OwnStep(r)
<1>1. CASE CallNext(r) \/ TimeoutEnters(r) \/ OtelEnters(r)
  BY <1>1, Enters
<1>2. CASE KeyAuth(r) \/ CORS(r) \/ UserRefuses(r)
  BY <1>2, Enters, Refuses DEF KeyAuth, CORS
<1>3. CASE notFound(r) \/ HandlerReturns(r) \/ Write(r) \/ RegisterStream(r)
  BY <1>3, HandlerLeaves, WriteStep, StreamStep
<1>4. CASE HandlerSettles(r) \/ HandlerPanics(r)
  BY <1>4, SettlesStep, PanicStep
<1>5. CASE Logger(r) \/ Recover(r) \/ Timeout(r) \/ Otel(r)
  BY <1>5, LoggerStep, RecoverStep, TimeoutStep, OtelStep
<1>6. CASE PassThrough(r) \/ User(r) \/ Settle(r)
  BY <1>6, PassStep, UserStep, SettleStep
<1> QED BY <1>1, <1>2, <1>3, <1>4, <1>5, <1>6 DEF InFlightStep
-----------------------------------------------------------------------------
\* A request that holds no Ctx does not depend on one.
LEMMA Unbound ==
  ASSUME NEW q, NEW x, NEW y, RequestOK(q, x), ~Holds(q)
  PROVE  RequestOK(q, y)
  BY DEF RequestOK, Holds

\* A step of r that touches one Ctx, which no other request holds, is not seen by
\* the others.
LEMMA Others ==
  ASSUME IInv, NEW r \in Workers, NEW c \in Ctxs, \A s \in InFlight \ {r} : rq[s].c # c,
         NEW q2, NEW x2, rq' = [rq EXCEPT ![r] = q2], ctx' = [ctx EXCEPT ![c] = x2],
         NEW s \in Workers, s # r
  PROVE  /\ rq'[s] = rq[s] /\ RequestOK(rq'[s], Ctx(s)') /\ (s \in InFlight' <=> s \in InFlight)
         /\ s \in InFlight => Ctx(s)' = Ctx(s)
         /\ rq'[s].c # Nobody <=> Holds(rq'[s])
<1>1. rq \in [Workers -> RqT] /\ ctx \in [Ctxs -> CtxT]
  BY DEF IInv, TypeOK
<1>2. rq'[s] = rq[s]
  BY <1>1
<1>3. s \in InFlight' <=> s \in InFlight
  BY <1>2 DEF InFlight
<1>4. s \in InFlight => Ctx(s)' = Ctx(s)
  <2> SUFFICES ASSUME s \in InFlight PROVE ctx'[rq'[s].c] = ctx[rq[s].c]
    BY DEF Ctx
  <2>1. rq[s].c # c /\ rq[s] \in RqT /\ rq[s].c # Nobody
    BY <1>1 DEF InFlight
  <2>2. rq[s].c \in Ctxs
    BY <2>1 DEF RqT
  <2> QED BY <1>1, <1>2, <2>1, <2>2
<1>5. s \in InFlight <=> Holds(rq[s])
  BY DEF InFlight, IInv, HoldInv
<1>6. RequestOK(rq[s], Ctx(s))
  BY DEF IInv, RequestInv
<1>7. RequestOK(rq[s], Ctx(s)')
  BY <1>4, <1>5, <1>6, Unbound
<1>8. rq[s].c # Nobody <=> Holds(rq[s])
  BY DEF IInv, HoldInv
<1> QED BY <1>2, <1>3, <1>4, <1>7, <1>8

\* A request in flight has its Ctx to itself.
LEMMA Alone ==
  ASSUME IInv, NEW r \in Workers, Holds(rq[r])
  PROVE  /\ r \in InFlight /\ rq[r].c \in Ctxs /\ rq[r].c \notin pool /\ ~Ctx(r).poisoned
         /\ Ctx(r).app = r /\ Ctx(r).data \subseteq {Tag(r)}
         /\ \A s \in InFlight \ {r} : rq[s].c # rq[r].c
<1>1. r \in InFlight
  BY DEF InFlight, IInv, HoldInv
<1> QED BY <1>1, InHand DEF IInv, CtxPrivate

\* A blank Ctx.
Blank(c) == ctx[c] = [reset(c, Nobody) EXCEPT !.poisoned = FALSE]

LEMMA StaysBlank ==
  ASSUME NEW c, Blank(c), ctx'[c] = ctx[c]
  PROVE  Blank(c)'
  BY DEF Blank, reset, resetStore

\* Every step of a request in flight keeps the invariant.
LEMMA OwnKeeps ==
  ASSUME IInv, NEW r \in Workers, Holds(rq[r]), OwnStep(r)
  PROVE  IInv'
<1> DEFINE q == rq[r]
           x == Ctx(r)
           c == rq[r].c
<1>1. PICK q2, x2 :
        /\ Own(q, x, q2, x2)
        /\ rq' = [rq EXCEPT ![r] = q2] /\ ctx' = [ctx EXCEPT ![c] = x2]
        /\ UNCHANGED <<app, forced, pool>>
  BY DEF OwnStep
<1>2. rq \in [Workers -> RqT] /\ ctx \in [Ctxs -> CtxT]
  BY DEF IInv, TypeOK
<1>3. /\ r \in InFlight /\ c \in Ctxs /\ c \notin pool /\ ~x.poisoned
      /\ x.app = r /\ x.data \subseteq {Tag(r)} /\ \A s \in InFlight \ {r} : rq[s].c # c
  BY Alone
<1>4. q2 \in RqT /\ x2 \in CtxT /\ Stays(q, q2) /\ Keeps(q, x, x2) /\ Holds(q2) /\ RequestOK(q2, x2)
  BY <1>1 DEF Own
<1>5. rq'[r] = q2 /\ q2.c = c /\ Ctx(r)' = x2 /\ q2.turn = q.turn
  <2>1. rq'[r] = q2 /\ q2.c = c /\ q2.turn = q.turn
    BY <1>1, <1>2, <1>4 DEF Stays
  <2>2. ctx'[c] = x2
    BY <1>1, <1>2, <1>3
  <2> QED BY <2>1, <2>2 DEF Ctx
<1>6. \A s \in Workers \ {r} :
        /\ rq'[s] = rq[s] /\ RequestOK(rq'[s], Ctx(s)') /\ (s \in InFlight' <=> s \in InFlight)
        /\ s \in InFlight => Ctx(s)' = Ctx(s)
        /\ rq'[s].c # Nobody <=> Holds(rq'[s])
  BY <1>1, <1>3, Others
<1>7. TypeOK'
  <2>1. rq' \in [Workers -> RqT] /\ ctx' \in [Ctxs -> CtxT]
    BY <1>1, <1>2, <1>3, <1>4
  <2> QED BY <1>1, <2>1 DEF IInv, TypeOK
<1>8. c # Nobody
  BY <1>3 DEF InFlight
<1>9. HoldInv'
  BY <1>4, <1>5, <1>6, <1>8 DEF HoldInv
<1>10. RequestInv'
  BY <1>4, <1>5, <1>6 DEF RequestInv
<1>11. r \in InFlight' /\ InFlight' = InFlight
  <2>1. r \in InFlight'
    BY <1>5, <1>8 DEF InFlight
  <2> QED BY <1>3, <1>6, <2>1 DEF InFlight
<1>12. \A s \in InFlight' :
         /\ Ctx(s)'.app = s /\ Ctx(s)'.data \subseteq {Tag(s)'}
         /\ rq'[s].c \notin pool' /\ ~Ctx(s)'.poisoned
         /\ \A t \in InFlight' \ {s} : rq'[t].c # rq'[s].c
  <2> SUFFICES ASSUME NEW s \in InFlight
               PROVE  /\ Ctx(s)'.app = s /\ Ctx(s)'.data \subseteq {Tag(s)'}
                      /\ rq'[s].c \notin pool' /\ ~Ctx(s)'.poisoned
                      /\ \A t \in InFlight \ {s} : rq'[t].c # rq'[s].c
    BY <1>11
  <2>1. s \in Workers /\ \A t \in InFlight : t \in Workers /\ rq'[t].c = rq[t].c
    BY <1>5, <1>6 DEF InFlight
  <2>2. /\ Ctx(s).app = s /\ Ctx(s).data \subseteq {Tag(s)} /\ rq[s].c \notin pool
        /\ ~Ctx(s).poisoned /\ \A t \in InFlight \ {s} : rq[t].c # rq[s].c
    BY DEF IInv, CtxPrivate
  <2>3. rq'[s].c \notin pool' /\ \A t \in InFlight \ {s} : rq'[t].c # rq'[s].c
    BY <1>1, <2>1, <2>2
  <2>4. CASE s = r
    <3>1. Tag(s)' = Tag(s) /\ Tag(s) = <<x.app, q.turn>>
      BY <1>3, <1>5, <2>4 DEF Tag
    <3>2. x2.app = r /\ ~x2.poisoned /\ x2.data \subseteq {Tag(s)}
      BY <1>3, <1>4, <2>4, <3>1 DEF Keeps
    <3> QED BY <1>5, <2>3, <2>4, <3>1, <3>2
  <2>5. CASE s # r
    <3>1. Ctx(s)' = Ctx(s) /\ Tag(s)' = Tag(s)
      BY <1>6, <2>1, <2>5 DEF Tag
    <3> QED BY <2>2, <2>3, <3>1
  <2> QED BY <2>4, <2>5
<1>13. \A d \in pool' : Blank(d)'
  <2>1. \A d \in pool : Blank(d) /\ d # c
    BY <1>3 DEF IInv, CtxPrivate, Blank
  <2>2. \A d \in pool : ctx'[d] = ctx[d]
    BY <1>1, <1>2, <2>1 DEF IInv, TypeOK
  <2> QED BY <1>1, <2>1, <2>2, StaysBlank
<1>14. \A d \in Ctxs : \/ d \in pool' \/ ctx'[d].poisoned
                       \/ \E s \in InFlight' : rq'[s].c = d
  <2>1. \A d \in Ctxs : d # c => ctx'[d] = ctx[d]
    BY <1>1, <1>2
  <2>2. \A s \in InFlight : rq'[s].c = rq[s].c
    BY <1>5, <1>6 DEF InFlight
  <2>3. \A d \in Ctxs : \/ d \in pool \/ ctx[d].poisoned \/ \E s \in InFlight : rq[s].c = d
    BY DEF IInv, CtxPrivate
  <2> QED BY <1>1, <1>3, <1>11, <2>1, <2>2, <2>3
<1>15. CtxPrivate'
  BY <1>12, <1>13, <1>14 DEF CtxPrivate, Blank
<1> QED BY <1>7, <1>9, <1>10, <1>15 DEF IInv
-----------------------------------------------------------------------------
\* What Ctx.reset leaves.
ResetTo(x, r, data, p) ==
  /\ x \in CtxT /\ x.app = r /\ x.ctx = 0 /\ x.handled = FALSE /\ x.streamFn = FALSE
  /\ x.streamSet = FALSE /\ x.data = data /\ x.poisoned = p

Fresh(r, p) ==
  [app |-> r, ctx |-> 0, handled |-> FALSE, streamFn |-> FALSE,
   streamSet |-> FALSE, data |-> {}, poisoned |-> p]

LEMMA ResetOK ==
  ASSUME NEW r \in Workers \cup {Nobody}, NEW p \in BOOLEAN
  PROVE  ResetTo(Fresh(r, p), r, {}, p)
<1>1. {} \in SUBSET (Workers \X {0, 1}) /\ 0 \in Nat
  OBVIOUS
<1>2. Fresh(r, p) \in CtxT
  BY <1>1 DEF Fresh, CtxT
<1>3. Fresh(r, p).data = {} /\ Fresh(r, p).app = r /\ Fresh(r, p).ctx = 0
  BY DEF Fresh
<1>4. /\ Fresh(r, p).handled = FALSE /\ Fresh(r, p).streamFn = FALSE
      /\ Fresh(r, p).streamSet = FALSE /\ Fresh(r, p).poisoned = p
  BY DEF Fresh
<1> QED BY <1>2, <1>3, <1>4 DEF ResetTo

LEMMA ResetSet ==
  ASSUME NEW x, NEW r, NEW data, NEW p, ResetTo(x, r, data, p)
  PROVE  /\ \A b \in BOOLEAN : ResetTo([x EXCEPT !.poisoned = b], r, data, b)
         /\ \A d \in SUBSET (Workers \X {0, 1}) : ResetTo([x EXCEPT !.data = d], r, d, p)
  BY DEF ResetTo, CtxT

LEMMA ResetSame ==
  ASSUME NEW x, NEW y, NEW r, NEW data, NEW p, ResetTo(x, r, data, p), ResetTo(y, r, data, p)
  PROVE  x = y
  BY DEF ResetTo, CtxT

IsBlank(x) == ResetTo(x, Nobody, {}, FALSE)

LEMMA ResetBlank ==
  ASSUME NEW p \in BOOLEAN
  PROVE  IsBlank([Fresh(Nobody, p) EXCEPT !.poisoned = FALSE])
<1>1. ResetTo(Fresh(Nobody, p), Nobody, {}, p)
  BY ResetOK
<1> QED BY <1>1, ResetSet DEF IsBlank

\* A Ctx is blank when it is what reset leaves.
LEMMA BlankBefore ==
  ASSUME NEW c, Blank(c), ctx[c].poisoned \in BOOLEAN
  PROVE  IsBlank(ctx[c])
<1>1. ctx[c] = [Fresh(Nobody, ctx[c].poisoned) EXCEPT !.poisoned = FALSE]
  BY DEF Blank, reset, resetStore, Fresh
<1> QED BY <1>1, ResetBlank

LEMMA BlankAfter ==
  ASSUME NEW c, IsBlank(ctx'[c])
  PROVE  Blank(c)'
<1> DEFINE x == ctx'[c]
           p == ctx'[c].poisoned
<1>1. p \in BOOLEAN
  BY DEF IsBlank, ResetTo
<1>2. Blank(c)' <=> x = [Fresh(Nobody, p) EXCEPT !.poisoned = FALSE]
  BY DEF Blank, reset, resetStore, Fresh
<1>3. IsBlank([Fresh(Nobody, p) EXCEPT !.poisoned = FALSE])
  BY <1>1, ResetBlank
<1>4. \A y : IsBlank(y) => x = y
  BY ResetSame DEF IsBlank
<1> QED BY <1>2, <1>3, <1>4

\* A chain with no frame has no derived context.
LEMMA NoFrames ==
  ASSUME NEW q, NEW x, q.frames = <<>>, q.chain \in Seq(Chained), x.ctx = 0
  PROVE  Scoped(q, x)
<1>1. Len(q.frames) = 0 /\ Len(q.chain) \in Nat
  OBVIOUS
<1>2. Scope(q.chain, 0, 0)
  BY DEF Scope, Derived
<1>3. \A i \in 1..0 : FALSE
  OBVIOUS
<1> QED BY <1>1, <1>2, <1>3 DEF Scoped

\* A worker without a request.
LEMMA IdleOK ==
  /\ Idle \in RqT /\ Idle.pc = "idle" /\ Idle.c = Nobody /\ Idle.frames = <<>>
  /\ Idle.body = "empty" /\ Idle.funnels = 0 /\ Idle.asked = FALSE /\ Idle.bug = FALSE
  /\ Idle.logged = 0 /\ Idle.failed = FALSE
<1>1. Return(<<>>) \in ResT /\ <<>> \in Seq(FrameT) /\ <<>> \in Seq(Chained)
  BY ErrorTypes, ResultTypes
<1>2. Idle \in RqT
  BY <1>1 DEF Idle, RqT
<1>3. /\ Idle.pc = "idle" /\ Idle.c = Nobody /\ Idle.frames = <<>>
      /\ Idle.body = "empty" /\ Idle.funnels = 0 /\ Idle.logged = 0
  BY DEF Idle
<1>4. Idle.asked = FALSE /\ Idle.bug = FALSE /\ Idle.failed = FALSE
  BY DEF Idle
<1> QED BY <1>2, <1>3, <1>4

\* App.acquire and the lookup.
LEMMA AcquireKeeps == ASSUME IInv, NEW r \in Workers, Acquire(r) PROVE IInv'
<1>1. rq[r].pc \in {"idle", "done"} /\ UNCHANGED <<app, forced>>
  BY DEF Acquire
<1>2. PICK c \in pool, hit \in BOOLEAN, head \in BOOLEAN, mws \in RouteChains :
        /\ pool' = pool \ {c}
        /\ ctx' = [ctx EXCEPT ![c] =
             [reset(c, r) EXCEPT !.data = IF hit THEN Set(@, <<r, 1 - rq[r].turn>>) ELSE @]]
        /\ rq' = [rq EXCEPT ![r] =
             [Idle EXCEPT !.pc = "down", !.turn = 1 - rq[r].turn, !.c = c, !.hit = hit,
                !.head = head, !.chain = app.mws \o (IF hit THEN mws ELSE <<>>)]]
  BY DEF Acquire
<1>3. /\ rq \in [Workers -> RqT] /\ ctx \in [Ctxs -> CtxT] /\ pool \subseteq Ctxs /\ c \in Ctxs
      /\ app \in [mws : AppChains, errorHandler : ErrorHandlers, build : Builds]
  BY DEF IInv, TypeOK
<1> DEFINE t == 1 - rq[r].turn
           chain == app.mws \o (IF hit THEN mws ELSE <<>>)
           data == IF hit THEN {<<r, t>>} ELSE {}
           x2 == [reset(c, r) EXCEPT !.data = IF hit THEN Set(@, <<r, t>>) ELSE @]
           q2 == [Idle EXCEPT !.pc = "down", !.turn = t, !.c = c, !.hit = hit,
                    !.head = head, !.chain = chain]
<1>4. t \in {0, 1}
  <2>1. rq[r].turn \in {0, 1}
    BY <1>3 DEF RqT
  <2> QED BY <2>1
<1>5. chain \in Seq(Chained)
  <2>1. app.mws \in Seq(Chained) /\ mws \in Seq(Chained)
    BY <1>3, DispatchAssumption
  <2> QED BY <2>1
<1>6. rq' = [rq EXCEPT ![r] = q2] /\ ctx' = [ctx EXCEPT ![c] = x2]
  BY <1>2
<1> HIDE DEF t, chain
<1>7. /\ x2 \in CtxT /\ x2.app = r /\ x2.ctx = 0 /\ x2.handled = FALSE /\ x2.streamFn = FALSE
      /\ x2.streamSet = FALSE /\ x2.poisoned = FALSE /\ x2.data \subseteq {<<r, t>>}
  <2>1. ctx[c] \in CtxT /\ ctx[c].poisoned \in BOOLEAN
    BY <1>3 DEF CtxT
  <2>2. ctx[c].poisoned = FALSE
    <3>1. Blank(c)
      BY DEF IInv, CtxPrivate, Blank
    <3>2. IsBlank(ctx[c])
      BY <2>1, <3>1, BlankBefore
    <3> QED BY <3>2 DEF IsBlank, ResetTo
  <2>3. reset(c, r) = Fresh(r, FALSE)
    BY <2>2 DEF reset, resetStore, Fresh
  <2>4. ResetTo(reset(c, r), r, {}, FALSE)
    BY <2>3, ResetOK
  <2>5. data \in SUBSET (Workers \X {0, 1}) /\ data \subseteq {<<r, t>>}
    BY <1>4
  <2>6. x2 = [reset(c, r) EXCEPT !.data = data]
    <3>1. reset(c, r).data = {}
      BY <2>4 DEF ResetTo
    <3>2. (IF hit THEN Set({}, <<r, t>>) ELSE {}) = data
      BY DEF Set
    <3> QED BY <3>1, <3>2
  <2> HIDE DEF data, x2
  <2>7. ResetTo(x2, r, data, FALSE)
    BY <2>4, <2>5, <2>6, ResetSet
  <2> QED BY <2>5, <2>7 DEF ResetTo
<1> HIDE DEF x2
<1>8. Idle \in RqT
  BY IdleOK
<1>9. c \in Ctxs \cup {Nobody}
  BY <1>3
<1>10. q2 \in RqT
  BY <1>4, <1>5, <1>8, <1>9 DEF RqT
<1>11. /\ q2.pc = "down" /\ q2.turn = t /\ q2.chain = chain /\ q2.frames = <<>> /\ q2.c = c
       /\ q2.body = "empty" /\ q2.funnels = 0 /\ q2.asked = FALSE /\ q2.bug = FALSE
       /\ q2.logged = 0 /\ q2.failed = FALSE /\ Holds(q2)
  <2>1. /\ q2.pc = "down" /\ q2.turn = t /\ q2.chain = chain /\ q2.c = c
        /\ q2.frames = Idle.frames /\ q2.body = Idle.body /\ q2.funnels = Idle.funnels
        /\ q2.asked = Idle.asked /\ q2.bug = Idle.bug /\ q2.logged = Idle.logged
        /\ q2.failed = Idle.failed
    BY <1>8 DEF RqT
  <2> HIDE DEF q2
  <2> QED BY <2>1, IdleOK DEF Holds
<1> HIDE DEF q2
<1>12. RequestOK(q2, x2)
  <2>1. Scoped(q2, x2)
    BY <1>5, <1>7, <1>11, NoFrames
  <2>2. Live(q2, x2)
    BY <1>7, <1>11 DEF Live, Funnelled, Recorded, Carried, Noted
  <2> QED BY <1>11, <2>1, <2>2 DEF RequestOK
<1>13. r \notin InFlight /\ c # Nobody
  BY <1>1, <1>3, DispatchAssumption DEF InFlight, IInv, HoldInv, Holds
<1>14. \A s \in InFlight : rq[s].c # c
  BY DEF IInv, CtxPrivate
<1>15. \A s \in Workers \ {r} :
         /\ rq'[s] = rq[s] /\ RequestOK(rq'[s], Ctx(s)') /\ (s \in InFlight' <=> s \in InFlight)
         /\ s \in InFlight => Ctx(s)' = Ctx(s)
         /\ rq'[s].c # Nobody <=> Holds(rq'[s])
  BY <1>3, <1>6, <1>14, Others
<1>16. rq'[r] = q2 /\ ctx'[c] = x2 /\ Ctx(r)' = x2 /\ Tag(r)' = <<r, t>>
  BY <1>3, <1>6, <1>11 DEF Ctx, Tag
<1>17. InFlight' = InFlight \cup {r}
  BY <1>11, <1>13, <1>15, <1>16 DEF InFlight
<1>18. TypeOK'
  <2>1. rq' \in [Workers -> RqT] /\ ctx' \in [Ctxs -> CtxT] /\ pool' \subseteq Ctxs
    BY <1>2, <1>3, <1>6, <1>7, <1>10
  <2> QED BY <1>1, <2>1 DEF IInv, TypeOK
<1>19. HoldInv' /\ RequestInv'
  BY <1>11, <1>12, <1>13, <1>15, <1>16 DEF HoldInv, RequestInv
<1>20. \A s \in InFlight' :
         /\ Ctx(s)'.app = s /\ Ctx(s)'.data \subseteq {Tag(s)'}
         /\ rq'[s].c \notin pool' /\ ~Ctx(s)'.poisoned
         /\ \A u \in InFlight' \ {s} : rq'[u].c # rq'[s].c
  <2> SUFFICES ASSUME NEW s \in InFlight'
               PROVE  /\ Ctx(s)'.app = s /\ Ctx(s)'.data \subseteq {Tag(s)'}
                      /\ rq'[s].c \notin pool' /\ ~Ctx(s)'.poisoned
                      /\ \A u \in InFlight' \ {s} : rq'[u].c # rq'[s].c
    OBVIOUS
  <2>1. \A u \in InFlight : u \in Workers /\ u # r /\ rq'[u] = rq[u] /\ Tag(u)' = Tag(u)
                            /\ Ctx(u)' = Ctx(u)
    BY <1>13, <1>15 DEF InFlight, Tag
  <2>2. CASE s = r
    BY <1>2, <1>7, <1>11, <1>14, <1>16, <1>17, <2>1, <2>2
  <2>3. CASE s # r
    <3>1. s \in InFlight
      BY <1>17, <2>3
    <3>2. /\ Ctx(s).app = s /\ Ctx(s).data \subseteq {Tag(s)} /\ rq[s].c \notin pool
          /\ ~Ctx(s).poisoned /\ \A u \in InFlight \ {s} : rq[u].c # rq[s].c
      BY <3>1 DEF IInv, CtxPrivate
    <3>3. rq[s].c # c
      BY <1>14, <3>1
    <3> QED BY <1>2, <1>11, <1>16, <1>17, <2>1, <2>3, <3>1, <3>2, <3>3
  <2> QED BY <2>2, <2>3
<1>21. \A d \in pool' : Blank(d)'
  <2>1. \A d \in pool : Blank(d)
    BY DEF IInv, CtxPrivate, Blank
  <2>2. \A d \in pool' : d \in pool /\ ctx'[d] = ctx[d]
    BY <1>2, <1>3, <1>6
  <2> QED BY <2>1, <2>2, StaysBlank
<1>22. \A d \in Ctxs : \/ d \in pool' \/ ctx'[d].poisoned
                       \/ \E s \in InFlight' : rq'[s].c = d
  <2>1. \A d \in Ctxs : d # c => ctx'[d] = ctx[d]
    BY <1>3, <1>6
  <2>2. \A s \in InFlight : s \in InFlight' /\ rq'[s].c = rq[s].c
    BY <1>13, <1>15, <1>17 DEF InFlight
  <2>3. \A d \in Ctxs : \/ d \in pool \/ ctx[d].poisoned \/ \E s \in InFlight : rq[s].c = d
    BY DEF IInv, CtxPrivate
  <2>4. r \in InFlight' /\ rq'[r].c = c
    BY <1>11, <1>16, <1>17
  <2> QED BY <1>2, <2>1, <2>2, <2>3, <2>4
<1>23. CtxPrivate'
  BY <1>20, <1>21, <1>22 DEF CtxPrivate, Blank
<1> QED BY <1>18, <1>19, <1>23 DEF IInv

\* App.release
LEMMA ReleaseKeeps == ASSUME IInv, NEW r \in Workers, Release(r) PROVE IInv'
<1> DEFINE q == rq[r]
           c == rq[r].c
           q2 == [q EXCEPT !.pc = "start", !.c = Nobody]
           x2 == [reset(c, Nobody) EXCEPT !.poisoned = (app.build = "debug")]
<1>1. q.pc = "release" /\ Holds(q) /\ UNCHANGED <<app, forced>>
  BY DEF Release, Holds
<1>2. /\ rq \in [Workers -> RqT] /\ ctx \in [Ctxs -> CtxT] /\ pool \subseteq Ctxs
      /\ app \in [mws : AppChains, errorHandler : ErrorHandlers, build : Builds] /\ q \in RqT
  BY DEF IInv, TypeOK
<1>3. /\ r \in InFlight /\ c \in Ctxs /\ c \notin pool
      /\ \A s \in InFlight \ {r} : rq[s].c # c
  BY <1>1, Alone
<1>4. rq' = [rq EXCEPT ![r] = q2]
  <2>1. rq' = [rq EXCEPT ![r].pc = "start", ![r].c = Nobody]
    BY DEF Release
  <2> QED BY <1>2, <2>1
<1>5. ctx' = [ctx EXCEPT ![c] = x2] /\ pool' = IF app.build = "release" THEN pool \cup {c} ELSE pool
  BY DEF Release
<1>6. app.build \in {"release", "debug"}
  BY <1>2, DispatchAssumption
<1>7. ResetTo(x2, Nobody, {}, app.build = "debug")
  <2> DEFINE b == (app.build = "debug")
             p == ctx[c].poisoned
  <2>1. b \in BOOLEAN /\ p \in BOOLEAN
    BY <1>2, <1>3 DEF CtxT
  <2>2. x2 = [Fresh(Nobody, p) EXCEPT !.poisoned = b]
    BY DEF reset, resetStore, Fresh
  <2> HIDE DEF b, p
  <2>3. ResetTo(Fresh(Nobody, p), Nobody, {}, p)
    BY <2>1, ResetOK
  <2>4. ResetTo(x2, Nobody, {}, b)
    <3> HIDE DEF x2
    <3> QED BY <2>1, <2>2, <2>3, ResetSet
  <2> QED BY <2>4 DEF b
<1>8. x2 \in CtxT /\ x2.poisoned = (app.build = "debug")
  <2> HIDE DEF x2
  <2> QED BY <1>7 DEF ResetTo
<1>9. q2 \in RqT
  BY <1>2 DEF RqT
<1>10. /\ q2.pc = "start" /\ q2.c = Nobody /\ q2.funnels = q.funnels /\ q2.late = q.late
       /\ q2.bug = q.bug /\ q2.chain = q.chain /\ q2.status = q.status /\ q2.logged = q.logged
       /\ q2.span = q.span /\ q2.fn = q.fn /\ q2.asked = q.asked /\ q2.head = q.head
       /\ q2.answered = q.answered /\ q2.body = q.body /\ q2.own = q.own /\ q2.res = q.res
       /\ q2.failed = q.failed
  BY <1>2 DEF RqT
<1> HIDE DEF x2, q2
<1>11. Ended(q)
  BY <1>1 DEF IInv, RequestInv, RequestOK
<1>12. RequestOK(q2, Ctx(r)')
  <2>1. Ended(q2)
    BY <1>1, <1>10, <1>11 DEF Ended, Bug, Fails, PanicCode, SpanOK, Outermost
  <2> QED BY <1>10, <2>1 DEF RequestOK, Holds
<1>13. \A s \in Workers \ {r} :
         /\ rq'[s] = rq[s] /\ RequestOK(rq'[s], Ctx(s)') /\ (s \in InFlight' <=> s \in InFlight)
         /\ s \in InFlight => Ctx(s)' = Ctx(s)
         /\ rq'[s].c # Nobody <=> Holds(rq'[s])
  BY <1>3, <1>4, <1>5, Others
<1>14. rq'[r] = q2 /\ ctx'[c] = x2 /\ r \notin InFlight'
  <2>1. rq'[r] = q2 /\ ctx'[c] = x2
    BY <1>2, <1>3, <1>4, <1>5
  <2> QED BY <1>10, <2>1 DEF InFlight
<1>15. InFlight' = InFlight \ {r}
  BY <1>13, <1>14 DEF InFlight
<1>16. TypeOK'
  <2>1. rq' \in [Workers -> RqT] /\ ctx' \in [Ctxs -> CtxT] /\ pool' \subseteq Ctxs
    BY <1>2, <1>3, <1>4, <1>5, <1>8, <1>9
  <2> QED BY <1>1, <2>1 DEF IInv, TypeOK
<1>17. HoldInv' /\ RequestInv'
  BY <1>10, <1>12, <1>13, <1>14 DEF HoldInv, RequestInv, Holds
<1>18. \A s \in InFlight' :
         /\ Ctx(s)'.app = s /\ Ctx(s)'.data \subseteq {Tag(s)'}
         /\ rq'[s].c \notin pool' /\ ~Ctx(s)'.poisoned
         /\ \A u \in InFlight' \ {s} : rq'[u].c # rq'[s].c
  <2> SUFFICES ASSUME NEW s \in InFlight \ {r}
               PROVE  /\ Ctx(s)'.app = s /\ Ctx(s)'.data \subseteq {Tag(s)'}
                      /\ rq'[s].c \notin pool' /\ ~Ctx(s)'.poisoned
                      /\ \A u \in InFlight \ {r, s} : rq'[u].c # rq'[s].c
    BY <1>15
  <2>1. \A u \in InFlight \ {r} : u \in Workers /\ rq'[u] = rq[u] /\ Tag(u)' = Tag(u)
                                  /\ Ctx(u)' = Ctx(u)
    BY <1>13 DEF InFlight, Tag
  <2>2. /\ Ctx(s).app = s /\ Ctx(s).data \subseteq {Tag(s)} /\ rq[s].c \notin pool
        /\ ~Ctx(s).poisoned /\ \A u \in InFlight \ {s} : rq[u].c # rq[s].c
    BY DEF IInv, CtxPrivate
  <2> QED BY <1>3, <1>5, <2>1, <2>2
<1>19. \A d \in pool' : Blank(d)'
  <2> SUFFICES ASSUME NEW d \in pool' PROVE Blank(d)'
    OBVIOUS
  <2>1. CASE d \in pool
    <3>1. Blank(d) /\ ctx'[d] = ctx[d]
      BY <1>2, <1>3, <1>5, <2>1 DEF IInv, CtxPrivate, Blank
    <3> QED BY <3>1, StaysBlank
  <2>2. CASE d \notin pool
    <3>1. d = c /\ app.build = "release"
      BY <1>5, <2>2
    <3>2. (app.build = "debug") = FALSE
      BY <3>1
    <3>3. IsBlank(ctx'[d])
      BY <1>7, <1>14, <3>1, <3>2 DEF IsBlank
    <3> QED BY <3>3, BlankAfter
  <2> QED BY <2>1, <2>2
<1>20. \A d \in Ctxs : \/ d \in pool' \/ ctx'[d].poisoned
                       \/ \E s \in InFlight' : rq'[s].c = d
  <2> SUFFICES ASSUME NEW d \in Ctxs
               PROVE  d \in pool' \/ ctx'[d].poisoned \/ \E s \in InFlight' : rq'[s].c = d
    OBVIOUS
  <2>1. CASE d = c
    BY <1>5, <1>6, <1>8, <1>14, <2>1
  <2>2. CASE d # c
    <3>1. ctx'[d] = ctx[d] /\ (d \in pool => d \in pool')
      BY <1>2, <1>5, <2>2
    <3>2. \A s \in InFlight : rq[s].c = d => s \in InFlight' /\ rq'[s].c = d
      BY <1>13, <1>15, <2>2 DEF InFlight
    <3>3. d \in pool \/ ctx[d].poisoned \/ \E s \in InFlight : rq[s].c = d
      BY DEF IInv, CtxPrivate
    <3> QED BY <3>1, <3>2, <3>3
  <2> QED BY <2>1, <2>2
<1>21. CtxPrivate'
  BY <1>18, <1>19, <1>20 DEF CtxPrivate, Blank
<1> QED BY <1>16, <1>17, <1>21 DEF IInv

\* CtxPrivate depends on the Ctxs, the pool, and of a request on its Ctx and turn.
LEMMA SamePrivate ==
  ASSUME CtxPrivate, UNCHANGED <<pool, ctx>>,
         \A s \in Workers : rq'[s].c = rq[s].c /\ rq'[s].turn = rq[s].turn
  PROVE  CtxPrivate'
<1>1. InFlight' = InFlight /\ \A s \in InFlight : s \in Workers
  BY DEF InFlight
<1>2. \A s \in InFlight : rq'[s].c = rq[s].c /\ Ctx(s)' = Ctx(s) /\ Tag(s)' = Tag(s)
  BY <1>1 DEF Ctx, Tag
<1>3. \A s \in InFlight :
        /\ Ctx(s)'.app = s /\ Ctx(s)'.data \subseteq {Tag(s)'}
        /\ rq'[s].c \notin pool' /\ ~Ctx(s)'.poisoned
        /\ \A u \in InFlight \ {s} : rq'[u].c # rq'[s].c
  BY <1>2 DEF CtxPrivate
<1>4. \A d \in pool' : Blank(d)'
  BY StaysBlank DEF CtxPrivate, Blank
<1>5. \A d \in Ctxs : \/ d \in pool' \/ ctx'[d].poisoned
                      \/ \E s \in InFlight' : rq'[s].c = d
  BY <1>1, <1>2 DEF CtxPrivate
<1> QED BY <1>1, <1>3, <1>4, <1>5 DEF CtxPrivate, Blank

\* startStream
LEMMA StartKeeps == ASSUME IInv, NEW r \in Workers, Start(r) PROVE IInv'
<1> DEFINE q == rq[r]
           text == IF q.fn /\ ~q.answered THEN "stream" ELSE q.body
           q2 == [q EXCEPT !.pc = "done", !.body = text]
<1>1. q.pc = "start" /\ UNCHANGED <<app, forced, pool, ctx>>
  BY DEF Start
<1>2. rq \in [Workers -> RqT] /\ q \in RqT
  BY DEF IInv, TypeOK
<1>3. rq' = [rq EXCEPT ![r] = q2]
  <2>1. rq' = [rq EXCEPT ![r].pc = "done",
                 ![r].body = IF rq[r].fn /\ ~rq[r].answered THEN "stream" ELSE @]
    BY DEF Start
  <2> QED BY <1>2, <2>1
<1>4. text \in {"empty", "handler", "error", "stream"}
  BY <1>2 DEF RqT
<1>5. text = "stream" <=> (q.fn /\ ~q.answered) \/ q.body = "stream"
  OBVIOUS
<1> HIDE DEF text
<1>6. q2 \in RqT
  BY <1>2, <1>4 DEF RqT
<1>7. /\ q2.pc = "done" /\ q2.c = q.c /\ q2.funnels = q.funnels /\ q2.late = q.late
      /\ q2.bug = q.bug /\ q2.chain = q.chain /\ q2.status = q.status /\ q2.logged = q.logged
      /\ q2.span = q.span /\ q2.asked = q.asked /\ q2.head = q.head /\ q2.turn = q.turn
      /\ q2.body = text /\ q2.own = q.own /\ q2.res = q.res /\ q2.failed = q.failed
  BY <1>2 DEF RqT
<1> HIDE DEF q2
<1>8. Ended(q)
  BY <1>1 DEF IInv, RequestInv, RequestOK
<1>9. Ended(q2)
  <2>1. q2.body = "stream" <=> (q2.asked /\ ~q2.head /\ q2.funnels = 0)
    BY <1>1, <1>5, <1>7, <1>8 DEF Ended
  <2>2. /\ Bug(q2) => q2.status = PanicCode(q2)
        /\ Outermost(q2, "logger") => q2.logged \in {0, q2.status}
        /\ Outermost(q2, "otel") => SpanOK(q2)
        /\ q2.funnels <= IF q2.late /\ q2.bug THEN 2 ELSE 1
        /\ Fails(q2) => q2.funnels # 0
    BY <1>7, <1>8 DEF Ended, Bug, Fails, PanicCode, SpanOK, Outermost
  <2> QED BY <1>7, <2>1, <2>2 DEF Ended
<1>10. \A x : RequestOK(q2, x)
  BY <1>7, <1>9 DEF RequestOK, Holds
<1>11. rq'[r] = q2 /\ \A s \in Workers : s # r => rq'[s] = rq[s]
  BY <1>2, <1>3
<1>12. q.c = Nobody /\ ~Holds(q2)
  BY <1>1, <1>7 DEF IInv, HoldInv, Holds
<1>13. TypeOK'
  <2>1. rq' \in [Workers -> RqT]
    BY <1>2, <1>3, <1>6
  <2> QED BY <1>1, <2>1 DEF IInv, TypeOK
<1>14. HoldInv'
  BY <1>7, <1>11, <1>12 DEF IInv, HoldInv
<1>15. RequestInv'
  <2> SUFFICES ASSUME NEW s \in Workers PROVE RequestOK(rq'[s], Ctx(s)')
    BY DEF RequestInv
  <2>1. CASE s = r
    BY <1>10, <1>11, <2>1
  <2>2. CASE s # r
    <3>1. rq'[s] = rq[s] /\ Ctx(s)' = Ctx(s)
      BY <1>1, <1>11, <2>2 DEF Ctx
    <3> QED BY <3>1 DEF IInv, RequestInv
  <2> QED BY <2>1, <2>2
<1>16. CtxPrivate'
  <2>1. \A s \in Workers : rq'[s].c = rq[s].c /\ rq'[s].turn = rq[s].turn
    BY <1>7, <1>11
  <2> QED BY <1>1, <2>1, SamePrivate DEF IInv
<1> QED BY <1>13, <1>14, <1>15, <1>16 DEF IInv

\* The clock and Shutdown change the state of contexts and nothing else.
Reframed(q, q2) ==
  \E g \in Seq(FrameT) : /\ Len(g) = Len(q.frames)
                         /\ \A i \in 1..Len(g) : g[i].prev = q.frames[i].prev
                         /\ q2 = [q EXCEPT !.frames = g]

LEMMA ReframedOK ==
  ASSUME NEW q \in RqT, NEW q2, Reframed(q, q2), NEW x, RequestOK(q, x)
  PROVE  /\ q2 \in RqT /\ q2.pc = q.pc /\ q2.c = q.c /\ q2.turn = q.turn
         /\ RequestOK(q2, x)
<1>1. PICK g \in Seq(FrameT) : /\ Len(g) = Len(q.frames)
                               /\ \A i \in 1..Len(g) : g[i].prev = q.frames[i].prev
                               /\ q2 = [q EXCEPT !.frames = g]
  BY DEF Reframed
<1>2. q2 \in RqT
  BY <1>1 DEF RqT
<1>3. /\ Stays(q, q2) /\ q2.frames = g /\ q2.res = q.res /\ q2.status = q.status
      /\ q2.body = q.body /\ q2.funnels = q.funnels /\ q2.asked = q.asked /\ q2.bug = q.bug
      /\ q2.late = q.late /\ q2.logged = q.logged /\ q2.span = q.span /\ q2.pc = q.pc
      /\ q2.fn = q.fn /\ q2.answered = q.answered /\ q2.own = q.own /\ q2.failed = q.failed
  BY <1>1 DEF RqT, Stays
<1>4. Live(q, x) => Live(q2, x)
  <2>1. Funnelled(q, x) /\ Recorded(q, x) => Funnelled(q2, x) /\ Recorded(q2, x)
    BY <1>3 DEF Funnelled, Recorded, Stays
  <2>2. Carried(q, x) => Carried(q2, x)
    BY <1>3 DEF Carried, Bug, Fails, PanicCode, Stays
  <2>3. Noted(q) => Noted(q2)
    BY <1>1, <1>3 DEF Noted, Outermost, Stays
  <2> QED BY <2>1, <2>2, <2>3 DEF Live
<1>5. Scoped(q, x) => Scoped(q2, x)
  BY <1>1, <1>3 DEF Scoped, Stays
<1>6. Ended(q) => Ended(q2)
  BY <1>3 DEF Ended, Bug, Fails, PanicCode, SpanOK, Outermost, Stays
<1>7. RequestOK(q2, x)
  BY <1>3, <1>4, <1>5, <1>6 DEF RequestOK, Holds
<1> QED BY <1>2, <1>3, <1>7 DEF Stays

LEMMA ReframeKeeps ==
  ASSUME IInv, rq' \in [Workers -> RqT], forced' \in BOOLEAN, UNCHANGED <<app, pool, ctx>>,
         \A r \in Workers : Reframed(rq[r], rq'[r]) \/ rq'[r] = rq[r]
  PROVE  IInv'
<1>1. \A r \in Workers : rq[r] \in RqT /\ RequestOK(rq[r], Ctx(r))
  BY DEF IInv, TypeOK, RequestInv
<1>2. \A r \in Workers : /\ rq'[r].pc = rq[r].pc /\ rq'[r].c = rq[r].c
                         /\ rq'[r].turn = rq[r].turn /\ RequestOK(rq'[r], Ctx(r))
  BY <1>1, ReframedOK
<1>3. \A r \in Workers : Ctx(r)' = Ctx(r)
  BY <1>2 DEF Ctx
<1>4. TypeOK' /\ HoldInv' /\ RequestInv'
  BY <1>2, <1>3 DEF IInv, TypeOK, HoldInv, Holds, RequestInv
<1>5. CtxPrivate'
  BY <1>2, SamePrivate DEF IInv
<1> QED BY <1>4, <1>5 DEF IInv

\* A sequence of frames with other context states.
LEMMA FramesMap ==
  ASSUME NEW f \in Seq(FrameT), NEW g, DOMAIN g = DOMAIN f, g = [i \in DOMAIN f |-> g[i]],
         \A i \in DOMAIN f : g[i] \in FrameT
  PROVE  g \in Seq(FrameT) /\ Len(g) = Len(f)
<1>1. DOMAIN f = 1..Len(f) /\ Len(f) \in Nat
  OBVIOUS
<1>2. g \in [1..Len(f) -> FrameT]
  BY <1>1
<1> QED BY <1>1, <1>2

LEMMA DeadlineKeeps == ASSUME IInv, NEW r \in Workers, Deadline(r) PROVE IInv'
<1> DEFINE q == rq[r]
           f == rq[r].frames
<1>1. PICK i \in DOMAIN f :
        rq' = [rq EXCEPT ![r].frames =
          [j \in DOMAIN @ |-> IF j >= i /\ @[j].err = "nil"
                              THEN [@[j] EXCEPT !.err = "deadline"] ELSE @[j]]]
  BY DEF Deadline
<1>2. UNCHANGED <<app, forced, pool, ctx>>
  BY DEF Deadline
<1>3. rq \in [Workers -> RqT] /\ q \in RqT /\ forced \in BOOLEAN
  BY DEF IInv, TypeOK
<1>4. f \in Seq(FrameT)
  BY <1>3 DEF RqT
<1> DEFINE g == [j \in DOMAIN f |-> IF j >= i /\ f[j].err = "nil"
                                    THEN [f[j] EXCEPT !.err = "deadline"] ELSE f[j]]
<1>5. rq' = [rq EXCEPT ![r] = [q EXCEPT !.frames = g]]
  BY <1>1, <1>3
<1>6. \A j \in DOMAIN f : g[j] \in FrameT /\ g[j].prev = f[j].prev
  <2>1. \A j \in DOMAIN f : f[j] \in FrameT
    BY <1>4
  <2>2. \A a \in FrameT : /\ [a EXCEPT !.err = "deadline"] \in FrameT
                          /\ [a EXCEPT !.err = "deadline"].prev = a.prev
    BY DEF FrameT
  <2> QED BY <2>1, <2>2
<1>7. DOMAIN g = DOMAIN f /\ g = [j \in DOMAIN f |-> g[j]]
  OBVIOUS
<1> HIDE DEF g
<1>8. g \in Seq(FrameT) /\ Len(g) = Len(f)
  BY <1>4, <1>6, <1>7, FramesMap
<1>9. Reframed(q, [q EXCEPT !.frames = g])
  <2>1. \A j \in 1..Len(g) : g[j].prev = f[j].prev
    BY <1>4, <1>6, <1>8
  <2> QED BY <1>8, <2>1 DEF Reframed
<1>10. rq' \in [Workers -> RqT]
  <2>1. [q EXCEPT !.frames = g] \in RqT
    BY <1>3, <1>8 DEF RqT
  <2> QED BY <1>3, <1>5, <2>1
<1>11. \A s \in Workers : Reframed(rq[s], rq'[s]) \/ rq'[s] = rq[s]
  BY <1>3, <1>5, <1>9
<1> QED BY <1>2, <1>3, <1>10, <1>11, ReframeKeeps

LEMMA ForceCloseKeeps == ASSUME IInv, ForceClose PROVE IInv'
<1> DEFINE F(f) == [j \in DOMAIN f |-> IF f[j].err = "nil"
                                       THEN [f[j] EXCEPT !.err = "canceled"] ELSE f[j]]
<1>1. rq \in [Workers -> RqT]
  BY DEF IInv, TypeOK
<1>2. rq' = [r \in Workers |-> [rq[r] EXCEPT !.frames = F(rq[r].frames)]]
  BY DEF ForceClose
<1>3. forced' = TRUE /\ UNCHANGED <<app, pool, ctx>>
  BY DEF ForceClose
<1>4. ASSUME NEW r \in Workers
      PROVE  rq'[r] \in RqT /\ Reframed(rq[r], rq'[r])
  <2> DEFINE q == rq[r]
             f == rq[r].frames
             g == F(f)
  <2>1. q \in RqT /\ rq'[r] = [q EXCEPT !.frames = g]
    BY <1>1, <1>2
  <2>2. f \in Seq(FrameT)
    BY <2>1 DEF RqT
  <2>3. \A j \in DOMAIN f : g[j] \in FrameT /\ g[j].prev = f[j].prev
    <3>1. \A j \in DOMAIN f : f[j] \in FrameT
      BY <2>2
    <3>2. \A a \in FrameT : /\ [a EXCEPT !.err = "canceled"] \in FrameT
                            /\ [a EXCEPT !.err = "canceled"].prev = a.prev
      BY DEF FrameT
    <3> QED BY <3>1, <3>2
  <2>4. DOMAIN g = DOMAIN f /\ g = [j \in DOMAIN f |-> g[j]]
    OBVIOUS
  <2> HIDE DEF g, F
  <2>5. g \in Seq(FrameT) /\ Len(g) = Len(f)
    BY <2>2, <2>3, <2>4, FramesMap
  <2>6. Reframed(q, [q EXCEPT !.frames = g])
    <3>1. \A j \in 1..Len(g) : g[j].prev = f[j].prev
      BY <2>2, <2>3, <2>5
    <3> QED BY <2>5, <3>1 DEF Reframed
  <2>7. [q EXCEPT !.frames = g] \in RqT
    BY <2>1, <2>5 DEF RqT
  <2> QED BY <2>1, <2>6, <2>7
<1>5. rq' \in [Workers -> RqT]
  BY <1>2, <1>4
<1> QED BY <1>3, <1>4, <1>5, ReframeKeeps
-----------------------------------------------------------------------------
LEMMA InitKeeps == ASSUME Init PROVE IInv
<1>1. \A r \in Workers : rq[r] = Idle
  BY DEF Init
<1>2. \A c \in Ctxs : ctx[c] = Fresh(Nobody, FALSE)
  BY DEF Init, Fresh
<1>3. \A c \in Ctxs : ResetTo(ctx[c], Nobody, {}, FALSE)
  BY <1>2, ResetOK
<1>4. TypeOK
  <2>1. rq \in [Workers -> RqT]
    BY IdleOK DEF Init
  <2>2. \A c \in Ctxs : ctx[c] \in CtxT
    BY <1>3 DEF ResetTo
  <2>3. ctx = [c \in Ctxs |-> ctx[c]]
    BY DEF Init
  <2>4. ctx \in [Ctxs -> CtxT]
    BY <2>2, <2>3
  <2> QED BY <2>1, <2>4 DEF Init, TypeOK
<1>5. HoldInv /\ RequestInv
  BY <1>1, IdleOK DEF HoldInv, Holds, RequestInv, RequestOK
<1>6. InFlight = {} /\ pool = Ctxs
  BY <1>1, IdleOK DEF InFlight, Init
<1>7. \A c \in pool : Blank(c)
  <2> SUFFICES ASSUME NEW c \in pool PROVE Blank(c)
    OBVIOUS
  <2>1. ResetTo(ctx[c], Nobody, {}, FALSE)
    BY <1>3, <1>6
  <2>2. IsBlank(ctx[c]) /\ ctx[c].poisoned \in BOOLEAN
    BY <2>1 DEF IsBlank, ResetTo
  <2>3. IsBlank([Fresh(Nobody, ctx[c].poisoned) EXCEPT !.poisoned = FALSE])
    BY <2>2, ResetBlank
  <2>4. ctx[c] = [Fresh(Nobody, ctx[c].poisoned) EXCEPT !.poisoned = FALSE]
    <3>1. \A y : IsBlank(y) => ctx[c] = y
      BY <2>2, ResetSame DEF IsBlank
    <3> QED BY <2>3, <3>1
  <2> QED BY <2>4 DEF Blank, reset, resetStore, Fresh
<1>8. CtxPrivate
  BY <1>6, <1>7 DEF CtxPrivate, Blank
<1> QED BY <1>4, <1>5, <1>8 DEF IInv

LEMMA NextKeeps == ASSUME IInv, [Next]_vars PROVE IInv'
<1>1. ASSUME UNCHANGED vars PROVE IInv'
  <2>1. UNCHANGED <<app, forced, pool, ctx, rq>>
    BY <1>1 DEF vars
  <2>2. TypeOK' /\ HoldInv'
    BY <2>1 DEF IInv, TypeOK, HoldInv
  <2>3. \A r \in Workers : Ctx(r)' = Ctx(r) /\ rq'[r] = rq[r]
    BY <2>1 DEF Ctx
  <2>4. RequestInv'
    BY <2>3 DEF IInv, RequestInv
  <2>5. CtxPrivate'
    BY <2>1, SamePrivate DEF IInv
  <2> QED BY <2>2, <2>4, <2>5 DEF IInv
<1>2. ASSUME NEW r \in Workers, InFlightStep(r) PROVE IInv'
  <2>1. Holds(rq[r])
    <3>1. rq[r].pc \in {"down", "up"}
      BY <1>2 DEF InFlightStep, CallNext, KeyAuth, CORS, UserRefuses, TimeoutEnters, OtelEnters,
                  Entering, notFound, Write, RegisterStream, HandlerSettles, HandlerReturns,
                  HandlerPanics, InHandler, Logger, Recover, Timeout, Otel, PassThrough, User,
                  Leaving, Settle
    <3> QED BY <3>1 DEF Holds
  <2>2. OwnStep(r)
    BY <1>2, StepOwn
  <2> QED BY <2>1, <2>2, OwnKeeps
<1>3. ASSUME NEW r \in Workers, Step(r) PROVE IInv'
  <2>1. Acquire(r) \/ InFlightStep(r) \/ Release(r) \/ Start(r)
    BY <1>3 DEF Step, InFlightStep
  <2> QED BY <1>2, <2>1, AcquireKeeps, ReleaseKeeps, StartKeeps
<1>4. CASE Next
  BY <1>1, <1>3, <1>4, DeadlineKeeps, ForceCloseKeeps DEF Next, Served
<1> QED BY <1>1, <1>4

\* The inductive invariant of the dispatch path: what every request, at every
\* point of its way down the chain and back, and its Ctx have in common.
THEOREM DispatchInvariant == Spec => []IInv
<1>1. Init => IInv
  BY InitKeeps
<1>2. IInv /\ [Next]_vars => IInv'
  BY NextKeeps
<1> QED BY <1>1, <1>2, PTL DEF Spec

\* A Ctx serves one request at a time, carries nothing of another and is given
\* back whatever way the request ends (acquire, release, Ctx.reset, handle).
THEOREM CtxIsPrivate == Spec => []CtxPrivate
<1>1. IInv => CtxPrivate
  BY DEF IInv
<1> QED BY <1>1, DispatchInvariant, PTL

\* The ErrorHandler runs once for a request, and a second time only for a panic
\* after the request was settled (HandleError, handle).
THEOREM AnsweredOnce == Spec => []SettledOnce
<1>1. ASSUME IInv PROVE SettledOnce
  <2> SUFFICES ASSUME NEW r \in Workers
               PROVE  rq[r].funnels <= IF rq[r].late /\ rq[r].bug THEN 2 ELSE 1
    BY DEF SettledOnce
  <2>1. rq[r] \in RqT /\ RequestOK(rq[r], Ctx(r))
    BY <1>1 DEF IInv, TypeOK, RequestInv
  <2>2. CASE rq[r].pc = "idle"
    BY <2>1, <2>2 DEF RequestOK
  <2>3. CASE rq[r].pc \in {"down", "up"}
    <3>1. rq[r].funnels = IF Ctx(r).handled THEN 1 ELSE 0
      BY <2>1, <2>3 DEF RequestOK, Live, Funnelled
    <3> QED BY <3>1
  <2>4. CASE rq[r].pc \in {"release", "start", "done"}
    BY <2>1, <2>4 DEF RequestOK, Ended
  <2> QED BY <2>1, <2>2, <2>3, <2>4 DEF RqT
<1>2. IInv => SettledOnce
  BY <1>1
<1> QED BY <1>2, DispatchInvariant, PTL

\* What a finished request satisfies.
LEMMA DoneEnded == ASSUME IInv, NEW r \in Done PROVE rq[r].pc = "done" /\ Ended(rq[r])
  BY DEF IInv, RequestInv, RequestOK, Done

\* A panic is a 500 whatever the middleware it passed made of it, unless the
\* program's own ErrorHandler answers it
\* (DefaultErrorHandler, Recover, Timeout, handle).
THEOREM PanicAnswers500 == Spec => []PanicIs500
<1>1. IInv => PanicIs500
  BY DoneEnded DEF PanicIs500, Ended, Bug, PanicCode
<1> QED BY <1>1, DispatchInvariant, PTL

\* The status an outermost Logger or otelrice recorded is the one sent, but for a
\* panic that went past otelrice and that the program's own ErrorHandler then
\* answers: that is recorded as a 500 (Logger, otelrice.Middleware).
THEOREM RecordsWhatIsSent == Spec => []RecordedIsSent
<1>1. ASSUME IInv PROVE RecordedIsSent
  <2> SUFFICES ASSUME NEW r \in Done, rq[r].chain # <<>>
               PROVE  /\ Head(rq[r].chain) = "logger" => rq[r].logged \in {0, rq[r].status}
                      /\ Head(rq[r].chain) = "otel" => SpanOK(rq[r])
    BY DEF RecordedIsSent, SpanOK, Unwinding
  <2>1. Ended(rq[r])
    BY <1>1, DoneEnded
  <2>2. rq[r].chain \in Seq(Chained)
    <3>1. rq[r] \in RqT
      BY <1>1 DEF IInv, TypeOK, Done
    <3> QED BY <3>1 DEF RqT
  <2>3. Head(rq[r].chain) = rq[r].chain[1]
    BY <2>2
  <2> QED BY <2>1, <2>3 DEF Ended, Outermost
<1>2. IInv => RecordedIsSent
  BY <1>1
<1> QED BY <1>2, DispatchInvariant, PTL

\* A derived context is seen only inside the middleware that made it (Timeout,
\* otelrice.Middleware, SetContext).
THEOREM ContextsScoped == Spec => []ContextScoped
<1>1. ASSUME IInv PROVE ContextScoped
  <2> SUFFICES ASSUME NEW r \in InFlight
               PROVE  Ctx(r).ctx = Max({0} \cup Derived(rq[r].chain, Depth(r)))
    BY DEF ContextScoped, Derived
  <2> DEFINE D == Derived(rq[r].chain, Depth(r))
             m == Ctx(r).ctx
  <2>1. Holds(rq[r]) /\ r \in Workers
    BY <1>1 DEF IInv, HoldInv, InFlight
  <2>2. Scoped(rq[r], Ctx(r)) /\ Ctx(r) \in CtxT
    BY <1>1, <2>1, InHand DEF RequestOK
  <2>3. m \in {0} \cup D /\ (\A i \in D : i <= m) /\ m \in Nat
    BY <2>2 DEF Scoped, Scope, Depth, CtxT
  <2>4. D \subseteq Nat
    BY DEF Derived
  <2> HIDE DEF D, m
  <2>5. \A y \in {0} \cup D : m >= y
    BY <2>3, <2>4
  <2>6. \A z \in {0} \cup D : (\A y \in {0} \cup D : z >= y) => z = m
    BY <2>3, <2>4, <2>5
  <2>7. Max({0} \cup D) = m
    <3> DEFINE P(z) == z \in {0} \cup D /\ \A y \in {0} \cup D : z >= y
    <3>1. P(m) /\ \A z : P(z) => z = m
      BY <2>3, <2>5, <2>6
    <3>2. Max({0} \cup D) = CHOOSE z : P(z)
      BY DEF Max
    <3> HIDE DEF P
    <3> QED BY <3>1, <3>2
  <2> QED BY <2>7 DEF D, m
<1>2. IInv => ContextScoped
  BY <1>1
<1> QED BY <1>2, DispatchInvariant, PTL

\* A stream starts exactly when one was asked for and the ErrorHandler did not
\* answer, and after a handler that failed only behind the program's own
\* middleware (registerStream, handle, startStream).
THEOREM StreamsOnlyUnanswered == Spec => []StreamIffUnanswered
<1>1. IInv => StreamIffUnanswered
  BY DoneEnded DEF StreamIffUnanswered, Ended, Fails
<1> QED BY <1>1, DispatchInvariant, PTL
=============================================================================
