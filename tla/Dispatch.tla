------------------------------ MODULE Dispatch ------------------------------
(***************************************************************************)
(* The dispatch path: App.handle takes a Ctx from the pool, runs the       *)
(* compiled chain down to the handler and back up, funnels an error or a   *)
(* panic through the ErrorHandler, gives the Ctx back and only then starts *)
(* a recorded stream.  A request is a stack of middleware frames; a result *)
(* (nil, an error or a panic) travels up it.                               *)
(*                                                                         *)
(* An error is its Unwrap chain, outermost first: a sequence of links.     *)
(* Contexts are named by the frame that made them, 0 being the App's.      *)
(***************************************************************************)
EXTENDS Naturals, Sequences, FiniteSets, FiniteSetsExt, SequencesExt

CONSTANTS
  Workers,        \* connections, each serving one request after another
  Ctxs,           \* the Ctx objects that exist
  AppChains,      \* the middleware App.Use may have installed: sequences
  RouteChains,    \* the middleware of the route a request may match
  Errors,         \* errors user code returns
  ErrorHandlers,  \* the ErrorHandlers the App may have
  CustomStatus,   \* what an ErrorHandler of the program's own answers
  Builds,         \* "release" pools a Ctx again, "debug" poisons it
  Nobody

Links == {"http", "plain", "panic"}
Chained == {"logger", "recover", "timeout", "otel", "keyauth", "cors", "user"}

ASSUME DispatchAssumption ==
  /\ ErrorHandlers \subseteq {"default", "panics", "reenters", "custom"}
  /\ CustomStatus \in Nat
  /\ Builds \subseteq {"release", "debug"}
  /\ Nobody \notin Ctxs \cup Workers
  /\ AppChains \subseteq Seq(Chained) /\ RouteChains \subseteq Seq(Chained)
  /\ Errors \subseteq Seq([link : Links, code : Nat])

VARIABLES
  app,     \* the App: its middleware, its ErrorHandler, the build
  forced,  \* Shutdown cancelled baseCtx
  pool,    \* Ctxs that pool.Get may return
  ctx,     \* the fields of each Ctx
  rq       \* each worker's request: its stack, its result, its response

vars == <<app, forced, pool, ctx, rq>>
-----------------------------------------------------------------------------
Http(code) == [link |-> "http", code |-> code]
Plain == [link |-> "plain", code |-> 0]
Panicked == [link |-> "panic", code |-> 0]
HTTPErrors(e) == {i \in DOMAIN e : e[i].link = "http"}

Return(e) == [kind |-> "return", e |-> e]        \* e = <<>> is a nil error
Raise(v)  == [kind |-> "panic", e |-> v]         \* v = <<>> is not an error
PanicError(v) == <<Panicked>> \o v

\* errors.go validStatus
validStatus(code) == IF code < 100 \/ code > 599 THEN 500 ELSE code

\* Mutant of DefaultErrorHandler: an HTTPError answers whatever it wraps.
DefaultErrorHandlerNoGuard(e) ==
  IF e[1].link = "http" THEN validStatus(e[1].code) ELSE 500

\* DefaultErrorHandler: the status it answers e with.  The type switch, then
\* errors.As for a PanicError, then for an HTTPError.
DefaultErrorHandler(e) ==
  CASE e[1].link = "panic" -> 500
    [] e[1].link = "http" /\ Len(e) = 1 -> validStatus(e[1].code)
    [] OTHER ->
         IF \E i \in DOMAIN e : e[i].link = "panic" THEN 500
         ELSE IF HTTPErrors(e) # {} THEN validStatus(e[Min(HTTPErrors(e))].code)
         ELSE 500

\* callErrorHandler: a panicking ErrorHandler is answered 500 beneath it; one
\* that a program wrote may answer every error, a PanicError too, as it likes.
callErrorHandler(e) ==
  CASE app.errorHandler = "panics" -> 500
    [] app.errorHandler = "custom" -> CustomStatus
    [] OTHER -> DefaultErrorHandler(e)
-----------------------------------------------------------------------------
\* Mutant of reset: the store is not emptied.
resetKeepsStore(c, r) ==
  [app |-> r, ctx |-> 0, handled |-> FALSE, streamFn |-> FALSE,
   streamSet |-> FALSE, data |-> ctx[c].data, poisoned |-> ctx[c].poisoned]

resetStore == {}

\* Ctx.reset, binding to a request or to Nobody.
reset(c, r) ==
  [app |-> r, ctx |-> 0, handled |-> FALSE, streamFn |-> FALSE,
   streamSet |-> FALSE, data |-> resetStore, poisoned |-> ctx[c].poisoned]

\* Key.Set and Params.add: a value of this request in the Ctx.
Set(data, tag) == data \cup {tag}

\* Ctx.SetContext
SetContext(x, i) == [x EXCEPT !.ctx = i]

\* Ctx.NoContent
NoContent(q) == [q EXCEPT !.res = Return(<<>>), !.status = 204, !.body = "empty"]

Idle ==
  [pc |-> "idle", turn |-> 0, chain |-> <<>>, hit |-> FALSE, head |-> FALSE,
   frames |-> <<>>, res |-> Return(<<>>), status |-> 200, body |-> "empty",
   c |-> Nobody, fn |-> FALSE, answered |-> FALSE,
   \* what the properties observe: runs of the ErrorHandler and whether it is the
   \* program's own, a stream asked for, an error or a panic of the handler, a
   \* panic that is this request's outcome, whether it followed HandleError, the
   \* statuses an outermost Logger or otelrice recorded
   funnels |-> 0, own |-> FALSE, asked |-> FALSE, failed |-> FALSE,
   bug |-> FALSE, late |-> FALSE, logged |-> 0, span |-> 0]

Init ==
  /\ app \in [mws : AppChains, errorHandler : ErrorHandlers, build : Builds]
  /\ forced = FALSE
  /\ pool = Ctxs
  /\ ctx = [c \in Ctxs |-> [app |-> Nobody, ctx |-> 0, handled |-> FALSE,
              streamFn |-> FALSE, streamSet |-> FALSE, data |-> {},
              poisoned |-> FALSE]]
  /\ rq = [r \in Workers |-> Idle]

Depth(r) == Len(rq[r].frames)
Frame(r) == rq[r].chain[Depth(r)]      \* the innermost middleware running
Top(r) == Last(rq[r].frames)
\* Tells a value of this request from one the request before it left.
Tag(r) == <<r, rq[r].turn>>
Ctx(r) == ctx[rq[r].c]

\* The state of the context c.Context() returns.
Err(r) ==
  IF Ctx(r).ctx > 0 THEN rq[r].frames[Ctx(r).ctx].err
  ELSE IF forced THEN "canceled" ELSE "nil"

\* The top frame returns res to the one around it.
Up(r, res) == [rq[r] EXCEPT !.res = res, !.frames = Front(@)]

\* A run of the ErrorHandler on e.  One that calls c.HandleError runs itself
\* again unless handled is set by then.
Funnel(q, x, e) ==
  <<[q EXCEPT !.status = callErrorHandler(e), !.body = "error",
       !.own = (app.errorHandler = "custom"),
       !.funnels = @ + (IF app.errorHandler = "reenters" /\ ~x.handled
                        THEN 2 ELSE 1)],
    [x EXCEPT !.handled = TRUE]>>

\* Mutant of HandleError: handled is set after the ErrorHandler ran.
HandleErrorSetsLate(q, x, e) ==
  IF e = <<>> \/ x.handled THEN <<q, x>> ELSE Funnel(q, x, e)

\* Ctx.HandleError(e): the request q and the Ctx x after it.
HandleError(q, x, e) ==
  IF e = <<>> \/ x.handled
    THEN <<q, x>> ELSE Funnel(q, [x EXCEPT !.handled = TRUE], e)
-----------------------------------------------------------------------------
\* handle, first half: acquire a Ctx and look the route up.  A miss runs the
\* application's middleware around notFound.
Acquire(r) ==
  /\ rq[r].pc \in {"idle", "done"}
  /\ \E c \in pool, hit, head \in BOOLEAN, mws \in RouteChains :
       /\ pool' = pool \ {c}
       /\ ctx' = [ctx EXCEPT ![c] =
            [reset(c, r) EXCEPT !.data = IF hit THEN Set(@, <<r, 1 - rq[r].turn>>) ELSE @]]
       /\ rq' = [rq EXCEPT ![r] =
            [Idle EXCEPT !.pc = "down", !.turn = 1 - rq[r].turn, !.c = c, !.hit = hit, !.head = head,
               !.chain = app.mws \o (IF hit THEN mws ELSE <<>>)]]
  /\ UNCHANGED <<app, forced>>

\* chain.Compile: mws[0] is the outermost frame; next(c) enters the one after.
Enter(r, x) ==
  /\ rq' = [rq EXCEPT ![r].frames = Append(@,
              [prev |-> Ctx(r).ctx, err |-> Err(r)])]
  /\ ctx' = [ctx EXCEPT ![rq[r].c] = x]
  /\ UNCHANGED <<app, forced, pool>>

Entering(r, kinds) ==
  /\ rq[r].pc = "down" /\ Depth(r) < Len(rq[r].chain)
  /\ rq[r].chain[Depth(r) + 1] \in kinds

\* Logger, Recover and user code go on at once.
CallNext(r) == Entering(r, {"logger", "recover", "user"}) /\ Enter(r, Ctx(r))

\* A middleware returns without calling next.
Refuse(r, q) ==
  /\ rq' = [rq EXCEPT ![r] = [q EXCEPT !.pc = "up"]]
  /\ UNCHANGED <<app, forced, pool, ctx>>

\* KeyAuth goes on with an identity stored, or refuses: a bad key is a 401,
\* Validate's own error is returned as it is.
KeyAuth(r) ==
  /\ Entering(r, {"keyauth"})
  /\ \/ Enter(r, [Ctx(r) EXCEPT !.data = Set(@, Tag(r))])
     \/ \E e \in Errors \cup {<<Http(401)>>} :
          Refuse(r, [rq[r] EXCEPT !.res = Return(e)])

\* CORS goes on, or answers a preflight itself.
CORS(r) ==
  /\ Entering(r, {"cors"})
  /\ Enter(r, Ctx(r)) \/ Refuse(r, NoContent(rq[r]))

\* User code may refuse as well.
UserRefuses(r) ==
  /\ Entering(r, {"user"})
  /\ \E e \in Errors : Refuse(r, [rq[r] EXCEPT !.res = Return(e)])

\* Timeout and otelrice derive a context from c.Context() and install it.
TimeoutEnters(r) ==
  Entering(r, {"timeout"}) /\ Enter(r, SetContext(Ctx(r), Depth(r) + 1))
OtelEnters(r) ==
  Entering(r, {"otel"}) /\ Enter(r, SetContext(Ctx(r), Depth(r) + 1))
-----------------------------------------------------------------------------
\* The handler.
InHandler(r) == rq[r].pc = "down" /\ Depth(r) = Len(rq[r].chain)

\* notFound
notFound(r) ==
  /\ InHandler(r) /\ ~rq[r].hit
  /\ rq' = [rq EXCEPT ![r].pc = "up", ![r].res = Return(<<Http(404)>>)]
  /\ UNCHANGED <<app, forced, pool, ctx>>

\* Ctx.String
Write(r) ==
  /\ InHandler(r) /\ rq[r].hit /\ rq[r].body = "empty"
  /\ rq' = [rq EXCEPT ![r].status = 200, ![r].body = "handler"]
  /\ UNCHANGED <<app, forced, pool, ctx>>

\* A panic in user code.
Panicking(q, x, v) ==
  [q EXCEPT !.pc = "up", !.res = Raise(v), !.bug = TRUE, !.late = x.handled]

\* The handler ends with an error or a panic, and not with nil.
Failed(q) == [q EXCEPT !.failed = TRUE]

\* Ctx.Stream, Ctx.SSE: registerStream records the callback, keeps none for
\* HEAD, and panics the second time.
RegisterStream(r) ==
  /\ InHandler(r) /\ rq[r].hit
  /\ IF Ctx(r).streamSet
       THEN rq' = [rq EXCEPT ![r] = Failed(Panicking(@, Ctx(r), <<>>))] /\ UNCHANGED ctx
       ELSE /\ ctx' = [ctx EXCEPT ![rq[r].c].streamSet = TRUE,
                                  ![rq[r].c].streamFn = ~rq[r].head]
            /\ rq' = [rq EXCEPT ![r].asked = TRUE]
  /\ UNCHANGED <<app, forced, pool>>

\* The handler settles the request itself.
HandlerSettles(r) ==
  /\ InHandler(r) /\ rq[r].hit /\ ~Ctx(r).handled
  /\ \E e \in Errors : LET h == HandleError(rq[r], Ctx(r), e) IN
       rq' = [rq EXCEPT ![r] = h[1]] /\ ctx' = [ctx EXCEPT ![rq[r].c] = h[2]]
  /\ UNCHANGED <<app, forced, pool>>

HandlerReturns(r) ==
  /\ InHandler(r) /\ rq[r].hit
  /\ \E e \in Errors \cup {<<>>} :
       rq' = [rq EXCEPT ![r].pc = "up", ![r].res = Return(e),
                        ![r].failed = (e # <<>>)]
  /\ UNCHANGED <<app, forced, pool, ctx>>

HandlerPanics(r) ==
  /\ InHandler(r) /\ rq[r].hit
  /\ \E v \in Errors \cup {<<>>} :
       rq' = [rq EXCEPT ![r] = Failed(Panicking(@, Ctx(r), v))]
  /\ UNCHANGED <<app, forced, pool, ctx>>
-----------------------------------------------------------------------------
\* What each middleware does when next comes back.
Leaving(r, kind) == rq[r].pc = "up" /\ Depth(r) > 0 /\ Frame(r) = kind
Unwinding(r) == rq[r].res.kind = "panic"
SetRq(r, q) == rq' = [rq EXCEPT ![r] = q] /\ UNCHANGED <<app, forced, pool>>
SetCtx(r, x) == ctx' = [ctx EXCEPT ![rq[r].c] = x]

\* Mutant of Logger: the status is read before the funnel answered.
LoggerTooEarly(r) ==
  /\ Leaving(r, "logger")
  /\ SetRq(r, [Up(r, rq[r].res) EXCEPT !.logged = IF Depth(r) = 1 THEN rq[r].status ELSE @])
  /\ UNCHANGED ctx

\* middleware.Logger settles an error, reads the status and returns nil; a
\* panic unwinds past it.
Logger(r) ==
  /\ Leaving(r, "logger")
  /\ IF Unwinding(r) THEN SetRq(r, Up(r, rq[r].res)) /\ UNCHANGED ctx
     ELSE LET h == HandleError(Up(r, Return(<<>>)), Ctx(r), rq[r].res.e) IN
       SetRq(r, [h[1] EXCEPT !.logged = IF Depth(r) = 1 THEN h[1].status ELSE @])
       /\ SetCtx(r, h[2])

\* middleware.Recover turns a panic into a returned PanicError.
Recover(r) ==
  /\ Leaving(r, "recover")
  /\ SetRq(r, Up(r, IF Unwinding(r) THEN Return(PanicError(rq[r].res.e))
                                    ELSE rq[r].res))
  /\ UNCHANGED ctx

\* Mutant of Timeout: no defer, so a panic leaves its context behind.
TimeoutNoDefer(r) ==
  /\ Leaving(r, "timeout")
  /\ SetRq(r, Up(r, rq[r].res))
  /\ IF Unwinding(r) THEN UNCHANGED ctx
     ELSE SetCtx(r, SetContext(Ctx(r), Top(r).prev))

\* middleware.Timeout restores the context it found, on a panic too; an error
\* after its deadline becomes a 503 unless an HTTPError is in it.
Timeout(r) ==
  /\ Leaving(r, "timeout")
  /\ LET e == rq[r].res.e IN
     SetRq(r, Up(r, IF /\ ~Unwinding(r) /\ e # <<>> /\ Top(r).err = "deadline"
                       /\ HTTPErrors(e) = {}
                    THEN Return(<<Http(503)>> \o e) ELSE rq[r].res))
  /\ SetCtx(r, SetContext(Ctx(r), Top(r).prev))

\* otelrice.Middleware: a panic ends the span as a 500 and goes on; an error is
\* settled before the status is read.
Otel(r) ==
  /\ Leaving(r, "otel")
  /\ IF Unwinding(r)
       THEN /\ SetRq(r, [Up(r, rq[r].res) EXCEPT !.span = IF Depth(r) = 1 THEN 500 ELSE @])
            /\ SetCtx(r, SetContext(Ctx(r), Top(r).prev))
       ELSE LET h == HandleError(Up(r, Return(<<>>)), Ctx(r), rq[r].res.e) IN
            /\ SetRq(r, [h[1] EXCEPT !.span = IF Depth(r) = 1 THEN h[1].status ELSE @])
            /\ SetCtx(r, SetContext(h[2], Top(r).prev))

\* KeyAuth and CORS return what next returned.
PassThrough(r) ==
  /\ Leaving(r, "keyauth") \/ Leaving(r, "cors")
  /\ SetRq(r, Up(r, rq[r].res)) /\ UNCHANGED ctx

\* A user's middleware passes the result on, wraps an error in an HTTPError,
\* replaces it, or panics.
User(r) ==
  /\ Leaving(r, "user") /\ UNCHANGED ctx
  /\ \/ SetRq(r, Up(r, rq[r].res))
     \/ /\ ~Unwinding(r) /\ rq[r].res.e # <<>>
        /\ \/ SetRq(r, Up(r, Return(<<Http(404)>> \o rq[r].res.e)))
           \/ \E e \in Errors \cup {<<>>} :
                SetRq(r, [Up(r, Return(e)) EXCEPT !.bug = FALSE])
     \/ /\ ~Unwinding(r)
        /\ SetRq(r, Panicking(Up(r, rq[r].res), Ctx(r), <<>>))
-----------------------------------------------------------------------------
\* handle, second half, with the chain returned: an unsettled error, or a panic
\* whatever was settled, goes to the ErrorHandler; then the locals that outlive
\* the Ctx are read.
Settle(r) ==
  /\ rq[r].pc = "up" /\ Depth(r) = 0
  /\ LET e == IF Unwinding(r) THEN PanicError(rq[r].res.e) ELSE rq[r].res.e
         h == IF Unwinding(r)
                THEN Funnel(rq[r], [Ctx(r) EXCEPT !.handled = TRUE], e)
                ELSE HandleError(rq[r], Ctx(r), e) IN
     /\ SetRq(r, [h[1] EXCEPT !.pc = "release", !.fn = Ctx(r).streamFn,
                              !.answered = h[2].handled])
     /\ SetCtx(r, h[2])

\* App.release; the debug build poisons the Ctx and drops it.
Release(r) ==
  /\ rq[r].pc = "release"
  /\ ctx' = [ctx EXCEPT ![rq[r].c] =
       [reset(rq[r].c, Nobody) EXCEPT !.poisoned = (app.build = "debug")]]
  /\ pool' = IF app.build = "release" THEN pool \cup {rq[r].c} ELSE pool
  /\ rq' = [rq EXCEPT ![r].pc = "start", ![r].c = Nobody]
  /\ UNCHANGED <<app, forced>>

\* Mutant of Start: the stream starts although the request was answered.
StartAnyway(r) ==
  /\ rq[r].pc = "start"
  /\ rq' = [rq EXCEPT ![r].pc = "done",
                      ![r].body = IF rq[r].fn THEN "stream" ELSE @]
  /\ UNCHANGED <<app, forced, pool, ctx>>

\* startStream, or the response as it stands.
Start(r) ==
  /\ rq[r].pc = "start"
  /\ rq' = [rq EXCEPT ![r].pc = "done",
       ![r].body = IF rq[r].fn /\ ~rq[r].answered THEN "stream" ELSE @]
  /\ UNCHANGED <<app, forced, pool, ctx>>
-----------------------------------------------------------------------------
\* The clock: a Timeout's deadline passes, and with it every context derived
\* from its own.
Deadline(r) ==
  \E i \in DOMAIN rq[r].frames :
    /\ rq[r].chain[i] = "timeout" /\ rq[r].frames[i].err = "nil"
    /\ rq' = [rq EXCEPT ![r].frames =
         [j \in DOMAIN @ |-> IF j >= i /\ @[j].err = "nil"
                             THEN [@[j] EXCEPT !.err = "deadline"] ELSE @[j]]]
    /\ UNCHANGED <<app, forced, pool, ctx>>

\* Shutdown, forced: baseCtx is cancelled, and every context still live.
ForceClose ==
  /\ ~forced
  /\ forced' = TRUE
  /\ rq' = [r \in Workers |-> [rq[r] EXCEPT !.frames =
       [j \in DOMAIN @ |-> IF @[j].err = "nil"
                           THEN [@[j] EXCEPT !.err = "canceled"] ELSE @[j]]]]
  /\ UNCHANGED <<app, pool, ctx>>

Served ==
  /\ pool = {} /\ \A r \in Workers : rq[r].pc \in {"idle", "done"}
  /\ UNCHANGED vars

Step(r) ==
  \/ Acquire(r) \/ CallNext(r) \/ KeyAuth(r) \/ CORS(r) \/ UserRefuses(r)
  \/ TimeoutEnters(r) \/ OtelEnters(r)
  \/ notFound(r) \/ Write(r) \/ RegisterStream(r) \/ HandlerSettles(r)
  \/ HandlerReturns(r) \/ HandlerPanics(r)
  \/ Logger(r) \/ Recover(r) \/ Timeout(r) \/ Otel(r) \/ PassThrough(r)
  \/ User(r) \/ Settle(r) \/ Release(r) \/ Start(r)

Next == ForceClose \/ Served \/ \E r \in Workers : Step(r) \/ Deadline(r)

Spec == Init /\ [][Next]_vars
-----------------------------------------------------------------------------
\* A link, an error, a result, a middleware frame, a request and a Ctx.
LinkT == [link : Links, code : Nat]
ErrT == Seq(LinkT)
ResT == [kind : {"return", "panic"}, e : ErrT]
FrameT == [prev : Nat, err : {"nil", "deadline", "canceled"}]
RqT ==
  [pc : {"idle", "down", "up", "release", "start", "done"}, turn : {0, 1},
   chain : Seq(Chained), hit : BOOLEAN, head : BOOLEAN, frames : Seq(FrameT),
   res : ResT, status : Nat, body : {"empty", "handler", "error", "stream"},
   c : Ctxs \cup {Nobody}, fn : BOOLEAN, answered : BOOLEAN, funnels : Nat,
   own : BOOLEAN, asked : BOOLEAN, failed : BOOLEAN, bug : BOOLEAN, late : BOOLEAN,
   logged : Nat, span : Nat]
CtxT ==
  [app : Workers \cup {Nobody}, ctx : Nat, handled : BOOLEAN, streamFn : BOOLEAN,
   streamSet : BOOLEAN, data : SUBSET (Workers \X {0, 1}), poisoned : BOOLEAN]

\* Workers, Ctxs and the App hold values of their types (App, Ctx, handle).
TypeOK ==
  /\ app \in [mws : AppChains, errorHandler : ErrorHandlers, build : Builds]
  /\ forced \in BOOLEAN /\ pool \subseteq Ctxs
  /\ ctx \in [Ctxs -> CtxT] /\ rq \in [Workers -> RqT]

InFlight == {r \in Workers : rq[r].c # Nobody}
Done == {r \in Workers : rq[r].pc = "done"}

\* A Ctx serves one request at a time and carries nothing of another: the Ctx a
\* request holds is bound to it, holds only its data and is not in the pool, and
\* a pooled Ctx is blank.  Whatever way a request ends, a panicking ErrorHandler
\* included, its Ctx is back: pooled in the release build, poisoned in the debug
\* build (pool.go acquire and release, Ctx.reset, handle's deferred closure).
CtxPrivate ==
  /\ \A r \in InFlight :
       /\ Ctx(r).app = r /\ Ctx(r).data \subseteq {Tag(r)}
       /\ rq[r].c \notin pool /\ ~Ctx(r).poisoned
       /\ \A s \in InFlight \ {r} : rq[s].c # rq[r].c
  /\ \A c \in pool : ctx[c] = [reset(c, Nobody) EXCEPT !.poisoned = FALSE]
  /\ \A c \in Ctxs : \/ c \in pool \/ ctx[c].poisoned
                     \/ \E r \in InFlight : rq[r].c = c

\* A returned error is answered once: the ErrorHandler runs at most once for a
\* request, and once more only for a panic after it was settled (HandleError,
\* handle).
SettledOnce ==
  \A r \in Workers :
    rq[r].funnels <= (IF rq[r].late /\ rq[r].bug THEN 2 ELSE 1)

\* A panic is always a 500, whatever Recover, Timeout and user middleware made
\* of it on the way, unless the request was settled before the panic and a
\* Recover caught it, or the program's own ErrorHandler answers it otherwise
\* (DefaultErrorHandler, Recover, Timeout, handle).
PanicIs500 ==
  \A r \in Done :
    rq[r].bug /\ (rq[r].late => "recover" \notin Range(rq[r].chain))
      => rq[r].status = IF rq[r].own THEN CustomStatus ELSE 500

\* The status that an outermost Logger or otelrice recorded is the one the
\* client receives, on the panic path too.  One case is excepted, and otelrice
\* says so: of a panic that goes past it, it records 500 whatever a program's
\* own ErrorHandler answers later (Logger, otelrice.Middleware).
RecordedIsSent ==
  \A r \in Done : rq[r].chain # <<>> =>
    /\ Head(rq[r].chain) = "logger" => rq[r].logged \in {0, rq[r].status}
    /\ Head(rq[r].chain) = "otel" =>
         rq[r].span = IF rq[r].own /\ Unwinding(r) THEN 500 ELSE rq[r].status

\* The context a middleware derives is seen only inside it: what runs outside,
\* the ErrorHandler after a panic included, gets the enclosing one back
\* (Timeout, otelrice.Middleware, SetContext).
ContextScoped ==
  \A r \in InFlight :
    Ctx(r).ctx = Max({0} \cup {i \in 1..Depth(r) :
                                 rq[r].chain[i] \in {"timeout", "otel"}})

\* A stream starts exactly when one was asked for on a request that is not HEAD
\* and that the ErrorHandler did not answer, and its Ctx is released by then.  So
\* none starts after the handler failed or panicked, unless a middleware of the
\* program's own turned that into nil: handle never sees the error then, and
\* Stream's comment leaves the case out (registerStream, handle, startStream).
StreamIffUnanswered ==
  \A r \in Done :
    /\ (rq[r].body = "stream")
         <=> (rq[r].asked /\ ~rq[r].head /\ rq[r].funnels = 0)
    /\ rq[r].body = "stream" /\ rq[r].failed => "user" \in Range(rq[r].chain)
=============================================================================
