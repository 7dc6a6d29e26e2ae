# rice: TLA+ specification

rice is a small HTTP framework on top of fasthttp. This directory holds TLA+
modules that model its core, TLC configurations that check them on small
instances, and TLAPS proofs for every value of the constants.

`PROJECT.json` maps each definition to the source lines it stands for, lists
the runs, the hazards and the theorems, and names for each property a mutant of
the model that breaks it.

## 1. Inventory

| Part | State | Operations | Talks to |
|---|---|---|---|
| Serve and Shutdown (`server.go`, `lifecycle.go`) | `closed`, `serving`, `ln`, `ready`, `draining`, `drainEnd`, `hooksStarted`, `shutdownDone`, `shutdownSem` | `Serve`, `Shutdown`, `drain`, `runStart`, `runShutdown` | fasthttp's `Serve` and `ShutdownWithContext`, the connection table |
| Connection table (`conns.go`) | `conns`, `forceClosed`, `baseCtx` | `connState` (a fasthttp callback), `closeConns` | Shutdown, handlers' contexts |
| RunContext (`server.go`) | locals, two selects | `RunContext`, `shutdownWithin`, `awaitRunningHooks` | Serve, Shutdown, the hooks |
| Dispatch and error funnel (`app.go`, `errors.go`, `internal/chain`) | the request on its stack, the response | `handle`, `callErrorHandler`, `DefaultErrorHandler`, `Compile` | pool, middleware, streams |
| Ctx and pool (`pool.go`, `ctx*.go`, `poison_*.go`) | the fields of a pooled `Ctx` | `acquire`, `release`, `reset`, `HandleError`, `SetContext`, the store | dispatch |
| Middleware (`middleware/`, `otelrice/`) | frames around the handler | Logger, Recover, Timeout, KeyAuth, CORS, otelrice | the result, the context, `HandleError` |
| Streams (`stream.go`, `sse.go`) | a `Stream`: lock, `done`, context, a borrowed `bufio.Writer` | `Write`, `Flush`, `Send`, the heartbeat, the deferred end | fasthttp's body writer, Shutdown's `cancelStreams` |
| Rate limiting (`middleware/ratelimit.go`, `memorystore.go`) | a map of theoretical arrival times per shard, `lastSweep` | `Take`, the sweep, `params`, `retryAfter` | the monotonic clock |
| Router (`internal/router`) | a radix tree per method | `parsePattern`, `insert`, `lookup` | registration, dispatch |
| Registration and Build (`route.go`, `group.go`, `build.go`) | routes, groups, middleware lists | `Use`, `Group`, `register`, `build` | router |
| Content negotiation (`ctx_accept.go`) | the response's Vary lines | `Accepts`, `negotiate`, `parseQ` | CORS, handlers |
| Client address (`middleware/realip.go`, `ratelimit.go`) | the address fasthttp keeps for a connection | `RealIP`, `resolve`, `parseEntry`, `clientKey` | Logger, the rate limiter |
| RequestID and auth (`middleware/requestid.go`, `basicauth.go`, `keyauth.go`, `auth.go`) | slots of the Ctx store, response headers | `RequestID`, `BasicAuth`, `KeyAuth`, `unauthorized` | Logger, the funnel |
| Static files (`static.go`, `build.go`) | a file handler and a stop channel per entry, `staticStopped` | `build`, `serve`, `staticResult`, `stopStatic` | Build, runShutdown, fasthttp.FS |
| Health (`health/health.go`) | a probe's check and its deadline | `Ready`, `run` | `App.ready` |
| Binding (`binding/`) | none | `JSON` | not modelled, see section 7 |

What is hard in this code:

* **Shutdown against everything.** Serve publishes its listener before fasthttp
  knows it; Shutdown may land between the two. Several Shutdown calls take
  turns, each with its own deadline. A connection may be accepted and not yet
  reported when the table is copied. A Serve may fail and be retried while a
  Shutdown runs.
* **One pooled object per request**, given back on every way out, a panic and a
  panicking ErrorHandler included, and a stream started after that from values
  read before it.
* **One result, several who answer it**: Logger and otelrice settle a request
  mid-chain, Recover turns a panic into an error, Timeout rewrites an error.
* **A borrowed writer** shared by a callback, goroutines that outlive it and a
  heartbeat.
* **Time read before a lock** and used under it, in integers that can wrap.
* **An address that outlives its request**: fasthttp serves a keep-alive
  connection from one context, and a trusted proxy sends different clients over
  it. The address is read from text that anyone can send part of.
* **A file handler that resets the response** under the middleware around it,
  with a goroutine that Build starts and Shutdown stops, in either order.
* **Durations up to the largest int64**, one ctx for a delay and a grace, and
  probes that are under way when the drain begins.
* **Backtracking lookup** over a tree whose shape depends on the order of
  registration, rejected registrations included.

## 2. Modules

| Module | Models | Composed with |
|---|---|---|
| `Lifecycle` | Serve, Shutdown, hooks, connection table, and the part of fasthttp.Server they rely on | |
| `GracefulStop` | what Shutdown promises, abstractly | |
| `LifecycleRefinement` | the refinement mapping from `Lifecycle` to `GracefulStop` | both |
| `RunContext` | RunContext beside other Serve and Shutdown calls | extends `Lifecycle` |
| `Dispatch` | a request from `acquire` to the start of its stream | |
| `Stream` | one streamed response | |
| `MemoryStore` | one shard of the rate limiter's store | |
| `Router`, `Routes` | the tree; registration and Build over it | `Routes` extends `Router` |
| `Accept` | content negotiation | |
| `ClientAddress` | X-Forwarded-For and the rate limiter's key | |
| `StaticFiles` | Static's entries and what a Static route answers | |
| `Edge` | the middleware at the edge, on one keep-alive connection | extends `ClientAddress` and `StaticFiles` |
| `Grace` | shutdown with a clock, and the readiness probes | |
| `MC_*` | the values of the constants for TLC | |
| `*_proofs` | theorems, see section 4 | extend the module they prove about |

A definition named `Mutant of X` in its comment is a plausible bug in the code
X stands for. No specification uses it.

### Lifecycle

Every Serve call, Shutdown call and connection is a process with a program
counter (`spc`, `kpc`, `cst`). A step is one critical section, one atomic
operation, or one call into fasthttp. A Serve is identified with its listener.
`kpc` runs through the body of `Shutdown`: `cancel` (cancelStreams), `drain` and
`drainWait` (the delay), `turn` and `turnWait` (`shutdownSem`), `swc1`, `poll1`,
`wait1` (the first ShutdownWithContext), `closeLn`, the second drain, then
either `hooks` or, when ctx has ended, `flag`, `cancelBase`, `closeEach`
(closeConns) and then the hooks.

fasthttp is external. The model takes from it what rice relies on:

* a listener is recorded some time after Serve was called (`FhRecord`), and a
  ShutdownWithContext that finds none recorded returns at once;
* a recorded listener stays recorded after its Serve failed;
* the count it drains on includes connections being accepted and the accept
  loop itself, and is lowered before `StateClosed` is reported;
* while it drains it holds the server's lock, its stop flag is set and every
  response closes its connection;
* it closes the listeners, remembering the first error of closing one, then polls
  until nothing is open or ctx has ended;
* a poll closes idle connections. One that has just been accepted or has sent the
  first byte of a request is not idle: it is `reading` until the request is
  complete, the client closes it or ReadTimeout takes it away, and the drain waits
  for it.

### RunContext

`rpc` is where RunContext is; `MainServe` and `MainCaller` are its own Serve and
Shutdown. Every step of `Lifecycle` may happen beside it.

### Dispatch

A worker is a connection that serves one request after another, so a `Ctx` that
goes back to the pool is met again by the next request. The request is a stack of
middleware frames. A result, nil, an error or a panic, travels up it, and each
kind of middleware is one action going down and one going up. An error is the
sequence of links that `Unwrap` walks. The ErrorHandler is the default one, one
that panics, one that calls HandleError again, or one of the program's own, which
answers every error, a PanicError too, with `CustomStatus`. A context is named by the frame that
derived it. What a request leaves in its Ctx is tagged with its turn. Requests
on different Ctxs share nothing but the pool; that a Ctx in use is never in the
pool is part of `CtxPrivate`, so one worker is enough to catch a Ctx handed out
twice.

### Stream

The callback, helpers it gave the Stream to, the heartbeat and the body
writer's deferred calls contend for `mu`. What they write is a sequence of
pieces: an event is a head and a tail, a heartbeat is one piece. A failed
write is noted in the operation that met it, which cancels the context after it
has given the lock back (`Fail`). A write blocks while the client is stalled.
`pooled` is the moment fasthttp takes the writer back.

### MemoryStore

A Take reads the clock (`ReadClock`) and later sweeps and decides under the lock
(`Charge`). Arithmetic wraps as int64 does, at the constant `MaxInt`. History
variables hold what a store that never swept would hold and when requests were
admitted. `overtaken` records that a Take reached the lock after the sweep of a
Take that had read the clock later; the properties about the sweep and the rate
hold until then (see section 6).

### Router and Routes

A pattern is a sequence of tokens, a path a sequence of bytes. `insert` splits
static nodes as the code does and returns the tree with its error, since a
rejected registration may have changed the tree before it failed. `lookup`
backtracks over one search record, as the code does over one `Params`: `add`
appends a capture, `truncate` rolls back to the length saved before it, and `peak`
is the most captures ever held, abandoned branches included. These operators are
recursive, so they are for TLC only. `Routes` has one action per call a program
makes before Build; a middleware is the number of the call that installed it.

### ClientAddress, StaticFiles and Edge

A header line is the sequence of its comma-separated entries, an entry a
sequence of tokens: brackets, colons, blanks, decimal numbers, groups, dotted
quads and text that is none of these. A number has a value and a count of digits,
for a port has at most five. `parseEntry` takes the code's branches on
them; `net.ParseIP` is external and understands quads, groups, an ellipsis and a
quad at the end. `Written` and `TrustedClient` say the same from RealIP's
documentation, as a grammar and a position counted over every entry of every line,
empty ones too, and are what the code is checked against. `SkipsEntry` names the
headers on which the two differ (section 6).

`StaticFiles` has Build's loop over the entries and stopStatic's, step by step,
behind runShutdown's `shutdownOnce`, which any number of Shutdown calls reach,
and `serve` as an operator on a response: status, names of its headers,
Location, who wrote the body. fasthttp's handler is external: a table from what
the path names to a status, and the fact that a 304 and an error reset the
headers while a redirect has lost the prefix. Whether a path holds a NUL byte or
a `..` segment is a property of the path; `hasDotDotSegment` is taken at its word.

`Edge` sends requests down a chain the program chose. Each frame is one action;
what it reads of the request is chosen when it is first read and stays the same
for the request. `Readings` is the pair of what `resolve` makes of a header and
what the documentation asks for, computed once for every header: requests with
thousands of different headers differ only in that. The way up is one step,
`Respond`: of these middleware only Logger does something there. `req`, `charged` and
`rewritten` are history: what ran, whose requests were counted under which key,
whether RealIP ever ran on the connection.

### Grace

The steps of Shutdown that take time, with a clock. The code's own steps take
none: the clock moves only when every call waits for a timer, a ctx, the turn or
a handler. The 100 ms between two polls of fasthttp are less than one unit.
`MaxInt` stands for the largest int64 and is small, so that a delay and a grace
can exceed it. A probe is one request at a time: `Ready` looks at `App.ready`
once and then waits for the checks in order.

### Accept

A line is the sequence of its elements; splitting it outside quotes and trimming
are taken as done. A q parameter is followed character by character, because
what `parseQ` accepts decides which offer wins.

## 3. Runs

| Run | Checks | Shows |
|---|---|---|
| `lifecycle` | `NothingServedAfterShutdown`, `HooksAfterDrain`, `HooksRunOnceInReverse`, `ReturnAfterHooks`, `ReadyIffServing`, `ResultTellsOutcome`, `CancelledBeforeCutOff`, `KeepsContract` | two Serves of which one may fail, two Shutdowns, a connection, two hooks, a drain delay: the promises of Shutdown and of Ready, what its result means, and that the detailed model implements `GracefulStop` |
| `lifecycle_accept` | `StopsAccepting` (violated) | section 6 |
| `runcontext` | `ReturnsTornDown`, `CtxStopsRunContext`, `DeadlineReturns`, `DrainReturns` | RunContext beside another Shutdown: it returns torn down or cut off, and once its ctx ended; a Shutdown returns once its ctx ended, and without a deadline when handlers return and requests are read to their end or time out |
| `runcontext_retry` | `CtxStopsRunContext`, `ServeReturns` | RunContext as the retry of another Serve that failed, listeners whose Close may fail: RunContext returns, and so do both Serves, unless the listener of the retry was left open |
| `runcontext_hooks` | `NeverReturnsInHooks` (violated) | section 6 |
| `dispatch` | `SettledOnce`, `PanicIs500`, `RecordedIsSent`, `ContextScoped`, `StreamIffUnanswered`, `CtxPrivate` | every order of up to two application and one route middleware of seven kinds, four ErrorHandlers, both builds |
| `stream` | `EventsWhole`, `NoUseAfterPool`, `CancelledStreamEnds`, `DepartureNoticed` | the callback, one helper and the heartbeat on a two-piece buffer |
| `memorystore` | `SweepInvisible`, `RateBound`, `NeverWraps`, `ExpiredKeysGo`, `WaitIsExact` | two Takes racing on two keys, Limits of every kind `params` tells apart |
| `routes` | `LookupIsBest`, `AcceptsUnambiguous`, `ChainIsScoped` | every way to register three of the patterns of up to four tokens, looked up on every path of up to five bytes; and two groups, three middleware, two routes, two verbs, in every order of calls |
| `edge` | `CachesStopped`, `AttributedToClient`, `HeadersReachClient`, `FilesAnswered` | two requests of one connection through every chain of up to three of the recommended middleware and two other orders, four route chains with auth or RealIP, ten kinds of file, two Static entries, Build and Shutdown calls at any moment |
| `grace` | `DelayThenGrace`, `ProbesSeeDrain` | RunContext's Shutdown beside another with a deadline or none, delays, graces and their sum up to and beyond the largest duration, two requests, a probe with two checks |
| `accept` | `ChoiceIsPreferred`, `VaryTold` | all q texts of up to six characters; all pairs of ranges, triples of those that compete; calls mixed with other writers of Vary |

The type invariants of `Lifecycle`, `Dispatch` and `Stream` (`TypeOK`) and of `StaticFiles`
(`StaticTypeOK`) are proved as parts of their inductive invariants. None is part
of a run.

### Bounds, and why they are enough

* Two Shutdown calls: one has the turn, one waits for it; a third behaves as the
  second. Two Serves: a failed one and its retry; at most one is past the first
  critical section. One connection may be tracked, not yet reported or
  uncounted while each of the calls closes, drains or returns; what holds of it
  holds of each of several. The liveness runs divide this: `runcontext` has two
  Shutdowns and one Serve, `runcontext_retry` two Serves, of which the first may
  fail, and one Shutdown. What a second Shutdown adds there is the wait for the
  turn, which ends with the first or with its own ctx.
* `dispatch`: a property of the funnel relates at most three frames, the one
  that derived a context or settled the request, one that changed the result
  and one outside both.
* `stream`: a buffer of two pieces can hold half an event or a whole one, so a
  write-through can fall inside and between events.
* `memorystore`: `MaxInt` is 19 and the clock ends at 4, so that
  `MaxInt \div 4` is reached by an accepted Limit and `MaxInt` exceeded by a
  refused one; `SweepEvery` of 2 gives several sweeps in a life.
* `routes`: a split needs two patterns with a common prefix and a third that
  falls on either half; four tokens hold a parameter, a slash and a branch.
* `edge`: the second request of a connection meets what the first left. Hops of
  1 and 2 with up to four entries over two lines put the trusted entry in either
  line, at an empty entry or nowhere; every entry of up to four tokens, and the
  longer bracketed and IPv6 shapes, is read alone.
* `grace`: `MaxInt` is 7, delays go to 5 and graces to 6, so the sum is below, at
  and above it; the clock ends at 9, after the last deadline of a call made in
  the first units.
* The proofs of section 4 remove the bounds of every run but `routes` for every
  safety property.
* `accept`: an element loses to one other; three show that the first of equals
  wins over a later one behind a less specific one.

Shutdown calls, keys and Takes are permuted where the run has safety
properties only (no fairness, so a contract without liveness too) and the
properties treat them alike. `CHECK_DEADLOCK FALSE` is set for the lifecycle
runs: an App whose Serve and Shutdown calls have all returned has stopped.

### Fairness

`grace` and `edge` check safety only; the clock of `Grace` is a maximal-progress
assumption, not a fairness one.

* The code's own steps inside a call that was made are weakly fair: goroutines
  are scheduled. So are fasthttp's: recording a listener, noticing that a
  listener was closed, reporting a connection.
* A ctx that has ended is noticed although the ticker of the drain goes on
  firing (`SF` on `SwcTimeout`): Go's select chooses among ready cases at random.
  The same holds for the heartbeat's select between a tick and Done.
* A lock is not withheld for ever from one goroutine (`SF` on the lock steps):
  `sync.Mutex` has a starvation mode.
* A drain delay is finite. No handler is assumed to return, no client to do
  anything, no ctx to end, except where the property says so. `DrainReturns`
  assumes `HandlerFairness`, that handlers return, their responses are written and
  streams end once their context is cancelled, and `RequestFairness`, that
  WithReadTimeout is set. Without the last it is false: a client that sent half a
  request holds its connection, and the drain, for ever (`app.go:36`); only a ctx
  that ends then helps, which is `DeadlineReturns`. `CtxStopsRunContext` uses that
  the ctx of `shutdownWithin` has a timeout, and no assumption about handlers or
  clients.
* In `Stream` the callback returns when its context is cancelled, as the
  documentation of `Stream` asks. Nothing is assumed of the client.
  `CancelledStreamEnds` has the hypothesis that the client is not stalled for ever:
  nothing in rice ends a stream whose client neither reads nor leaves when there is
  no WriteTimeout and Shutdown has no deadline.

## 4. Proofs

A theorem holds for every value of the constants that satisfies the named
assumptions of its module. They say what the values are, not how many:

| Module | Assumptions |
|---|---|
| `Lifecycle`, `RunContext` | `NHooks` is a natural number, the three switches are Booleans, `NoLn` is no listener, `Free` no caller; RunContext's own Serve and Shutdown are calls |
| `Stream` | the callback, the heartbeat and the helpers are different goroutines, `Nobody` is none; `BufSize` is positive |
| `MemoryStore` | `SweepEvery` and `Second` are positive; a Limit is three integers, of either sign; `MaxInt` is at least twice the last time the clock shows (a process does not run for 146 years) |
| `Grace` | delays and graces are between 0 and `MaxInt`, `Checks` is a sequence of timeouts, `Never` is no number |
| `Dispatch` | chains are sequences of the seven kinds of middleware, errors are sequences of links with a natural code, `CustomStatus` is a natural number and ErrorHandlers are of the four kinds of section 2, `Nobody` is neither a Ctx nor a worker |
| `StaticFiles`, `Edge` | `NStatics` is a natural number, in `Edge` at least 1; hops are positive (`RealIP` panics otherwise); the peer has an address; a header line has at least one entry, of tokens |
| `Accept` | ranges and offers are of their types, a q parameter is a text; nobody but `Accepts` adds `Accept` to Vary (one who did would be met by `addVaryAccept`'s look, or add a second of his own) |

The sets of calls, connections, workers, Ctxs, helpers, keys, Takes, chains and
errors may be infinite.

| Module | Theorems |
|---|---|
| `Lifecycle_proofs` | of Shutdown: `TypeCorrect`, `NothingServed`, `HooksLast`, `HooksOnce`, `AfterHooks`, `ReadyTellsServing`, `ResultTrue`, `CancelledFirst`; `Refinement`; of RunContext: `RunsLifecycle`, `TornDown` |
| `Stream_proofs` | `EventsArriveWhole`, `NothingAfterPool` |
| `MemoryStore_proofs` | `SweepChangesNothing`, `RateIsBounded`, `NothingWraps`, `ExpiredKeysLeave`, `WaitExact` |
| `Grace_proofs` | `DelayAndGrace`, `DrainIsSeen` |
| `Dispatch_proofs` | `DispatchInvariant`, `CtxIsPrivate`, `AnsweredOnce`, `PanicAnswers500`, `RecordsWhatIsSent`, `ContextsScoped`, `StreamsOnlyUnanswered` |
| `Edge_proofs` | `CachesAreStopped`, `EdgeInvariant`, `PromisedHeadersReachClient`, `FilesAreAnswered`, `ResolveIsTrusted`, `KeysTell`, `RequestsAreAttributed` |
| `Accept_proofs` | `ParseQ`, `ChoiceFollowsRFC`, `VaryIsTold` |
| `Folding_proofs` | lemmas only: induction and what the folds compute |

Some theorems carry an exception that is part of their property, because the code
departs from its documentation there (section 6) or documents it: `NothingServed`
and `HooksLast` leave out a call that met an error of closing a listener;
`PanicAnswers500` and `RecordsWhatIsSent` leave the status of a panic to a
program's own ErrorHandler, of which otelrice, already unwound, records 500
(`otelrice.go:115`); `ResolveIsTrusted` and `RequestsAreAttributed` leave out the
headers of `SkipsEntry`.

None of the properties is inductive as it stands. The arguments:

* **Lifecycle.** A Shutdown returns because of what its drains and its closeConns
  did earlier. `IInv` is `TypeOK /\ CallsInv /\ ConnsInv`.
  * `CallsInv`: whose turn it is (`TurnInv`); at most one Serve is active and the
    published listener is its own (`ServeInv`); a Shutdown that began read the
    last listener there will be (`CallInv`); what fasthttp accepts on is recorded
    or closed (`RecordInv`); in the second drain a listener not yet recorded is
    closed already (`WindowInv`, the reason for `ln.Close` and the second call).
  * `ConnsInv`: a live connection is in the table (`TrackInv`); a force-close has
    every live connection in its copy (`CutInv`); a connection whose listener
    fasthttp forgot is being drained or cut off (`OrphanInv`); once the hooks have
    started or a call has returned, either all is drained or all was cut off
    (`StopInv`).
  * The hooks: one call is inside them between their announcement and the close
    of `shutdownDone` (`HookInv`), and the log is a prefix of the reverse order.
  * The results: when a listener is published and when draining begins
    (`ReadyInv`), which errors a call joins and where (`ErrInv`), and that sockets
    are closed after `cancelBase` (`BaseInv`).
* **The contract.** Each action of `Lifecycle` is a step of `GracefulStop` or leaves
  its three mapped variables alone, with `IInv` where the contract asks that
  nothing is live.
* **RunContext.** Every step of its specification is a step of `Lifecycle` or
  changes only `rpc` and `rctx`, so all of the above holds beside it
  (`RunsLifecycle`). `RunInv` says what RunContext knows past its selects and
  `AskedInv` that the turn, once asked for, is taken until the hooks are done.
* **Stream.** `MuInv` names the holder of the lock, `RetireInv` the order of the
  deferred calls; from them nobody writes after `Pool`. `EventInv` says that what
  was sent is whole but for the event a Send holding the lock has begun.
* **MemoryStore.** A Take is first shown to be GCRA on unbounded integers (`Exact`,
  `ChargeIsTake`): sums stay in range because `params` bounds Burst * Per/Rate by a
  quarter of the largest integer. Then `ChargedInv` relates the log of admissions
  to the arrival time, which yields the rate, and `FreshInv` the sweep to the keys
  kept.
* **Grace.** `OpenInv` says that while the listener is open every call is in its
  delay or at the turn and time has not passed the end of the delay; `MainInv`
  bounds the time of RunContext's own call. For the probes, `CheckTime` is a
  recursive function; that it satisfies its equation for a sequence of any length
  is proved by taking a least counterexample (`WFMin`).
* **Dispatch.** `IInv` is `TypeOK`, who holds a Ctx (`HoldInv`), `CtxPrivate` and
  `RequestInv`. The last says, of a request on its way down or up: the ErrorHandler
  ran once if the Ctx says so (`Funnelled`); the Ctx knows the stream asked for
  (`Recorded`); a panic that is the outcome is unwinding, in an error not settled, or
  settled as a 500, and what a handler failed with is not lost on the way up unless
  the program's own middleware is on it (`Carried`); an outermost recorder noted what will not change
  (`Noted`); and the Ctx has the innermost derived context while each frame has the
  one it found (`Scoped`). Every step between Acquire and Release is an `OwnStep`:
  it changes one request and the Ctx only that request holds. So each kind of
  middleware is proved alone, and `OwnKeeps` shows once that the others do not
  notice.

* **Static files** (`SInv`). Entries are made only by a Build that began before any
  stop (`MadeInv`); without an overlap the stopper has each entry it has passed
  behind it and none of the others (`StopInv`). `StaticFrame` shows that no request
  touches what they share.
* **The edge** (`EInv`). A request is served by a built App and nothing has answered
  on its way down (`WayInv`); a promised header is there from the frame that
  promised it on, and a status that needs one is given where it was set
  (`PromiseInv`); what a Static route answered, before and after the funnel
  (`FileInv`). `ServeFacts` is the case analysis of `serve` over what fasthttp may
  have done to the response. That all file handlers are there or none, which
  `FilesAnswered` needs, is `SInv`.
* **Attribution** (`AInv`). The address on the connection is the request's own unless
  an earlier request left it and RealIP has not run in this one (`AddressInv`); id,
  user, the limiter's keys and the log line follow (`IdInv`, `UserInv`, `ChargeInv`,
  `SeenInv`). What RealIP reads is right by `ResolveIsTrusted`, from the bottom up:
  `ParseType` and `ParseColons` say what `ParseIP` can return and that a text with one
  colon is no IPv6 address; `BracketedIs` and `WithPortIs` that a branch of
  `parseEntry` reads exactly its shape of `Written`, which makes `EntryIsRead`;
  `LineStep` and `FlatPlaces` that the walk over lines from the right meets the
  entries of their concatenation from its end. What the walk meets of a line is the
  line without an empty first entry; `MetPlaces`, `AfterAll` and `TrustedIsRead`
  show that the place counted over all entries is the same while no line after the
  first has one.
* **Accept**. `ParseQ` compares `parseQ` with the grammar of qvalues, cut by cut and
  digit by digit. `ChoiceInv` ties the answer to `negotiate`; its loop over the
  offers, `offerQuality`'s over the elements and `Quality`'s over the q parameters
  are each followed to the greatest, the most specific and the last.
* **Induction.** The folds are defined by a recursion whose value is chosen, so
  `FoldExists` first builds a solution for subsets of growing size. Loops are then
  followed by `SetInduction`, which speaks of membership in a set and so needs no
  operator as a parameter. An empty text or a missing part is a value of its own
  (`"none"`, `Missing`) rather than an empty string.

Only model-checked:

* liveness, in `runcontext`, `runcontext_retry` and `stream`: fairness and ENABLED
  are out of the prover's reach;
* `LookupIsBest`, `AcceptsUnambiguous` and `ChainIsScoped` of `Routes`: the tree is a
  value that contains its subtrees, built and searched by recursive operators, in
  whose presence the prover has no SMT backend. A proof would need another
  representation of the tree than the code's.

## 5. Plan

Order: lifecycle first, since most of the concurrency is there; then the request
path, the streams and the store; then the router; then the pure parts.

Done: all modules of section 2, their runs, and the proofs of section 4.

Left: a proof about the router, over a tree kept as a set of nodes with
addresses, shown to be what `insert` builds.

## 6. Where code and documentation differ

* `lifecycle_accept`. `Shutdown` closes `ln` itself only when its first drain
  returned nil (`server.go:294`). If a Serve failed, its listener is still
  recorded in fasthttp, so the first drain polls; when it times out while a
  retried Serve has published its listener and is not recorded yet, Shutdown
  runs the hooks and returns with that listener open. Every connection it accepts
  is closed on arrival, so nothing is served. That Serve does not return, and
  neither does a RunContext that called it, which waits for its Serve
  (`server.go:175`) whatever grace is. `LeftOpen` is the exception in
  `ServeReturns` and `CtxStopsRunContext`.
* `runcontext_hooks`. `awaitRunningHooks` looks at `hooksStarted` once
  (`server.go:187`). On the path where Serve returned an error, another
  Shutdown's hooks may start between the look and RunContext's return.

Noted while modelling, and stated in the properties as exceptions:

* The line `server.go:294` also skips `ln.Close` and the second drain when the
  first drain returned an error of closing a listener other than ErrClosed. The
  listener of a Serve that failed is still recorded, and the comment at
  `server.go:290`, that no other close error can hide because an App serves one
  listener at a time, does not hold of it: if its Close fails, the retried Serve
  goes on serving after Shutdown ran the hooks and returned that error, while
  `server.go:231` says "Nothing is served after Shutdown returns, whatever it
  returns". Such an error is rare. `CloseFailed` is the exception in
  `NothingServedAfterShutdown`, `HooksAfterDrain` and, through `LeftOpen`, in the
  liveness properties.
* `stream.go:101` says that fn does not run at all when the handler returns an
  error or panics. `handle` starts the stream unless the ErrorHandler answered
  (`app.go:389`): a middleware outside that turns the error into nil lets it run.
  `StreamIffUnanswered` says so, and that only a middleware of the program's own
  can do this, none of rice's.
* `resolve` does not count an empty entry at the start of a line: cutting `,a` at
  its last comma leaves an empty text, which ends the loop (`realip.go:62`), while
  `realip.go:51` says that an empty entry counts as a position and forces the
  fallback. It matters when another line precedes that one. `SkipsEntry` is the
  exception in `AttributedToClient` and `ResolveIsTrusted`.
* A Take that read the clock before another Take's sweep finds a key deleted that
  for its own time had not expired (`memorystore.go:55`), and may be admitted where
  it would have waited: `overtaken` in `MemoryStore`. `SweepInvisible`, `RateBound`
  and `ExpiredKeysGo` say nothing of what comes after that.
* With Recover in the chain, a panic after the request was settled is an ordinary
  error when `handle` sees it, and the settled status stays (`app.go:406`, while
  `ctx.go:189` promises a 500): the exception in `PanicIs500`.
* RealIP on a group or a route only: a request outside it, later on the same
  connection, sees the address an earlier request left (`realip.go:42`). The
  documentation asks to install it before anything that reads the address;
  `excepted` in `AttributedToClient`.
* otelrice records 500 for a panic that goes past it, also when the program's own
  ErrorHandler then answers it with another status, and says so
  (`otelrice.go:115`): the exception in `RecordedIsSent`.
* A Shutdown that overlaps Build may leave a cache goroutine running or race with
  it; `app.go` excludes the overlap, and `overlapped` excludes it from
  `CachesStopped`.
* When delay and grace together exceed the largest duration, the grace after the
  listener closed is what is left of it (`server.go:202`): the second alternative
  in `DelayThenGrace`.
* `Addr` keeps the address of a listener that was closed; nothing clears `ln`.
* `checkGroupPrefix` accepts `/:x` and `/*x`, which join to patterns that
  `parsePattern` may reject at the route (`group.go:125`).

## 7. Not modelled

* Binding: one JSON body decoded by encoding/json and mapped to a 400, a 422 or
  the author's own error. It has no state, and what such an error does
  afterwards is in `Dispatch`.
* The transport error table, which answers what fasthttp could not read, before
  any Ctx exists.
* Bodies and messages, beyond who wrote the response, its status and the names
  of its headers; whether a request id is well-formed, an Origin matches or a path
  has a `..` segment, how the scheme of an Authorization header is cut, what
  Validate says, and the checks of a configuration at construction, which panic
  before any state.
* Splitting an Accept header at its commas and folding its case; a handler that
  replaces Vary with SetHeader after Accepts added to it.
* Span names and attributes of otelrice.
* The use of a `Ctx` after it was released, which the documentation forbids.
* The benchmarks.
