----------------------------- MODULE Lifecycle -----------------------------
(***************************************************************************)
(* The life of a rice App: Serve, Shutdown, the OnShutdown hooks and the   *)
(* table of open connections (server.go, lifecycle.go, conns.go), running  *)
(* against the part of fasthttp.Server they rely on.                       *)
(*                                                                         *)
(* Every Serve call, every Shutdown call and every connection is a process *)
(* of its own.  A step is one critical section, one atomic operation or    *)
(* one call into fasthttp, so the interleavings are those of the code.     *)
(* A Serve call is identified with the listener it was given.              *)
(***************************************************************************)
EXTENDS Integers, Sequences

CONSTANTS
  Serves,      \* Serve calls, each with the listener it is passed
  Callers,     \* Shutdown calls
  Conns,       \* connections clients may open
  NHooks,      \* number of OnShutdown hooks
  DrainDelay,  \* whether WithDrainDelay set a positive delay
  ServeErrors, \* whether accepting may fail on an open listener
  CloseErrors, \* whether closing an open listener may fail
  NoLn,        \* App.ln == nil
  Free         \* shutdownSem is empty

ASSUME NHooksAssumption == NHooks \in Nat
ASSUME FlagsAssumption ==
  DrainDelay \in BOOLEAN /\ ServeErrors \in BOOLEAN /\ CloseErrors \in BOOLEAN
ASSUME NoLnAssumption == NoLn \notin Serves
ASSUME FreeAssumption == Free \notin Callers

VARIABLES
  \* App, guarded by App.mu, or atomic
  closed, serving, ln, ready, draining, drainEnd, streamsCancelled,
  \* App, guarded by connMu, and the base context
  forceClosed, conns, baseCancelled,
  \* the turn and the hooks
  sem, hooksStarted, shutdownDone, hookLog,
  \* Serve calls: where each is, what it returned
  spc, sres,
  \* Shutdown calls: where each is, its ctx, the listener it read, the
  \* connections its closeConns copied, the errors it met
  kpc, ctxDone, kln, copy, kerr,
  \* fasthttp.Server: the listeners it recorded, the error of closing them in
  \* the drain now running; the sockets
  fhLns, lnErr, closedLns, cst, from, lastReq, sockClosed

appVars == <<closed, serving, ln, ready, draining, drainEnd, streamsCancelled>>
connVars == <<forceClosed, conns, baseCancelled>>
hookVars == <<sem, hooksStarted, shutdownDone, hookLog>>
srvVars  == <<spc, sres>>
shutVars == <<kpc, ctxDone, kln, copy, kerr>>
fhVars   == <<fhLns, lnErr, closedLns>>
sockVars == <<cst, from, lastReq, sockClosed>>
vars == <<appVars, connVars, hookVars, srvVars, shutVars, fhVars, sockVars>>

ServePC == {"idle", "starting", "publish", "recording", "accepting",
            "unready", "unserve", "done"}
ShutPC == {"idle", "cancel", "drain", "drainWait", "turn", "turnWait",
           "swc1", "poll1", "wait1", "closeLn", "swc2", "poll2", "wait2",
           "flag", "cancelBase", "closeEach", "hooks", "inHooks", "release",
           "ret"}
ConnST == {"none", "accepted", "idle", "reading", "handling", "streaming",
           "exiting", "uncounted", "gone"}
\* net.ErrClosed is "closed"; any other error of closing a listener, "close".
LnErrs == {"closed", "close"}
Errs == LnErrs \cup {"ctx", "hook", "panic"}

Init ==
  /\ closed = FALSE /\ serving = FALSE /\ ln = NoLn /\ ready = FALSE
  /\ draining = FALSE /\ drainEnd = "zero" /\ streamsCancelled = FALSE
  /\ forceClosed = FALSE /\ conns = {} /\ baseCancelled = FALSE
  /\ sem = Free /\ hooksStarted = FALSE /\ shutdownDone = FALSE
  /\ hookLog = <<>>
  /\ spc = [s \in Serves |-> "idle"] /\ sres = [s \in Serves |-> "none"]
  /\ kpc = [k \in Callers |-> "idle"] /\ ctxDone = {}
  /\ kln = [k \in Callers |-> NoLn] /\ copy = [k \in Callers |-> {}]
  /\ kerr = [k \in Callers |-> {}]
  /\ fhLns = {} /\ lnErr = {} /\ closedLns = {}
  /\ cst = [c \in Conns |-> "none"] /\ from = [c \in Conns |-> NoLn]
  /\ lastReq = {} /\ sockClosed = {}

(***************************************************************************)
(* Serve                                                                   *)
(***************************************************************************)

\* The first critical section of Serve: refuse when shut down or serving.
ServeCall(s) ==
  /\ spc[s] = "idle"
  /\ \/ /\ closed \/ serving
        /\ closedLns' = closedLns \cup {s}
        /\ spc' = [spc EXCEPT ![s] = "done"]
        /\ sres' = [sres EXCEPT ![s] = IF closed THEN "nil" ELSE "busy"]
        /\ UNCHANGED serving
     \/ /\ ~closed /\ ~serving
        /\ serving' = TRUE
        /\ spc' = [spc EXCEPT ![s] = "starting"]
        /\ UNCHANGED <<closedLns, sres>>
  /\ UNCHANGED <<closed, ln, ready, draining, drainEnd, streamsCancelled,
                 connVars, hookVars, shutVars, fhLns, lnErr, sockVars>>

\* runStart: the OnStart hooks, of which the first error stops Serve.
RunStart(s) ==
  /\ spc[s] = "starting"
  /\ \/ /\ spc' = [spc EXCEPT ![s] = "publish"]
        /\ UNCHANGED <<sres, closedLns>>
     \/ /\ closedLns' = closedLns \cup {s}
        /\ sres' = [sres EXCEPT ![s] = "err"]
        /\ spc' = [spc EXCEPT ![s] = "unready"]
  /\ UNCHANGED <<appVars, connVars, hookVars, shutVars, fhLns, lnErr, sockVars>>

\* The second critical section: publish ln unless Shutdown has been called.
Publish(s) ==
  /\ spc[s] = "publish"
  /\ \/ /\ closed
        /\ closedLns' = closedLns \cup {s}
        /\ sres' = [sres EXCEPT ![s] = "nil"]
        /\ spc' = [spc EXCEPT ![s] = "unready"]
        /\ UNCHANGED <<ln, ready>>
     \/ /\ ~closed
        /\ ln' = s /\ ready' = TRUE
        /\ spc' = [spc EXCEPT ![s] = "recording"]
        /\ UNCHANGED <<closedLns, sres>>
  /\ UNCHANGED <<closed, serving, draining, drainEnd, streamsCancelled,
                 connVars, hookVars, shutVars, fhLns, lnErr, sockVars>>

\* Mutant of Unready: the readiness of a Serve that failed stays.
StayReady(s) ==
  /\ spc[s] = "unready"
  /\ spc' = [spc EXCEPT ![s] = "unserve"]
  /\ UNCHANGED <<appVars, connVars, hookVars, sres, shutVars, fhVars, sockVars>>

\* Serve's deferred function: readiness goes first ...
Unready(s) ==
  /\ spc[s] = "unready"
  /\ ready' = FALSE
  /\ spc' = [spc EXCEPT ![s] = "unserve"]
  /\ UNCHANGED <<closed, serving, ln, draining, drainEnd, streamsCancelled,
                 connVars, hookVars, sres, shutVars, fhVars, sockVars>>

\* ... and only then may another Serve begin.
Unserve(s) ==
  /\ spc[s] = "unserve"
  /\ serving' = FALSE
  /\ spc' = [spc EXCEPT ![s] = "done"]
  /\ UNCHANGED <<closed, ln, ready, draining, drainEnd, streamsCancelled,
                 connVars, hookVars, sres, shutVars, fhVars, sockVars>>

(***************************************************************************)
(* fasthttp.Server.Serve and its connections                               *)
(***************************************************************************)

\* A ShutdownWithContext that found a listener holds the server's lock, and
\* keeps the stop flag set, until it returns.
Draining(k) == kpc[k] \in {"poll1", "wait1", "poll2", "wait2"}
FhStop == \E k \in Callers : Draining(k)

\* The open count: accept loops, and connections until just before
\* StateClosed is reported.
Counted(c) ==
  cst[c] \in {"accepted", "idle", "reading", "handling", "streaming", "exiting"}
FhOpen == \/ \E s \in Serves : spc[s] = "accepting"
          \/ \E c \in Conns : Counted(c)

\* The accept loop is between accepting a connection and reporting it.
Reporting(s) == \E c \in Conns : cst[c] = "accepted" /\ from[c] = s

FhRecord(s) ==
  /\ spc[s] = "recording" /\ ~FhStop
  /\ fhLns' = fhLns \cup {s}
  /\ spc' = [spc EXCEPT ![s] = "accepting"]
  /\ UNCHANGED <<appVars, connVars, hookVars, sres, shutVars, lnErr,
                 closedLns, sockVars>>

Accept(s, c) ==
  /\ spc[s] = "accepting" /\ ~Reporting(s) /\ s \notin closedLns
  /\ cst[c] = "none"
  /\ cst' = [cst EXCEPT ![c] = "accepted"]
  /\ from' = [from EXCEPT ![c] = s]
  /\ UNCHANGED <<appVars, connVars, hookVars, srvVars, shutVars, fhVars,
                 lastReq, sockClosed>>

\* Accepting fails: on a closed listener Serve returns nil, on an open one the
\* error that stopped serving.
AcceptFails(s) ==
  /\ spc[s] = "accepting" /\ ~Reporting(s)
  /\ s \in closedLns \/ ServeErrors
  /\ spc' = [spc EXCEPT ![s] = "unready"]
  /\ sres' = [sres EXCEPT ![s] = IF s \in closedLns THEN "nil" ELSE "err"]
  /\ UNCHANGED <<appVars, connVars, hookVars, shutVars, fhVars, sockVars>>

\* Mutant of ConnStateNew: an arrival after the force-close is tracked.
TrackAlways(c) ==
  /\ cst[c] = "accepted"
  /\ conns' = conns \cup {c}
  /\ cst' = [cst EXCEPT ![c] = "reading"]
  /\ UNCHANGED <<appVars, forceClosed, baseCancelled, hookVars, srvVars,
                 shutVars, fhVars, from, lastReq, sockClosed>>

\* connState(c, StateNew): track the connection, or close it on arrival.  Its
\* first request is awaited at once: only a keep-alive connection is ever idle.
ConnStateNew(c) ==
  /\ cst[c] = "accepted"
  /\ IF forceClosed
       THEN sockClosed' = sockClosed \cup {c} /\ UNCHANGED conns
       ELSE conns' = conns \cup {c} /\ UNCHANGED sockClosed
  /\ cst' = [cst EXCEPT ![c] = "reading"]
  /\ UNCHANGED <<appVars, forceClosed, baseCancelled, hookVars, srvVars,
                 shutVars, fhVars, from, lastReq>>

\* The first byte of another request comes in on an idle connection, which the
\* drain does not close from then on.
FirstByte(c) ==
  /\ cst[c] = "idle" /\ c \notin sockClosed
  /\ cst' = [cst EXCEPT ![c] = "reading"]
  /\ UNCHANGED <<appVars, connVars, hookVars, srvVars, shutVars, fhVars,
                 from, lastReq, sockClosed>>

\* handle: a whole request was read; while draining its response is the last.
Request(c) ==
  /\ cst[c] = "reading" /\ c \notin sockClosed
  /\ cst' = [cst EXCEPT ![c] = "handling"]
  /\ lastReq' = IF draining THEN lastReq \cup {c} ELSE lastReq
  /\ UNCHANGED <<appVars, connVars, hookVars, srvVars, shutVars, fhVars,
                 from, sockClosed>>

\* The handler returned having recorded a stream, which starts now.
StreamStarts(c) ==
  /\ cst[c] = "handling"
  /\ cst' = [cst EXCEPT ![c] = "streaming"]
  /\ UNCHANGED <<appVars, connVars, hookVars, srvVars, shutVars, fhVars,
                 from, lastReq, sockClosed>>

\* The response is complete: keep the connection alive, or stop serving it.
Answer(c, state) ==
  /\ cst[c] = state
  /\ IF c \in sockClosed \/ c \in lastReq \/ FhStop
       THEN /\ cst' = [cst EXCEPT ![c] = "exiting"]
            /\ sockClosed' = sockClosed \cup {c}
       ELSE /\ cst' = [cst EXCEPT ![c] = "idle"]
            /\ UNCHANGED sockClosed
  /\ UNCHANGED <<appVars, connVars, hookVars, srvVars, shutVars, fhVars,
                 from, lastReq>>

HandlerReturns(c) == Answer(c, "handling")
StreamEnds(c) == Answer(c, "streaming")

\* The client closes the connection before it sent a whole request, or an idle
\* one is closed by IdleTimeout.
ClientCloses(c) ==
  /\ cst[c] \in {"idle", "reading"} /\ c \notin sockClosed
  /\ sockClosed' = sockClosed \cup {c}
  /\ UNCHANGED <<appVars, connVars, hookVars, srvVars, shutVars, fhVars,
                 cst, from, lastReq>>

\* ReadTimeout, if one is set: the rest of a request does not come.
ReadTimesOut(c) ==
  /\ cst[c] = "reading" /\ c \notin sockClosed
  /\ cst' = [cst EXCEPT ![c] = "exiting"]
  /\ sockClosed' = sockClosed \cup {c}
  /\ UNCHANGED <<appVars, connVars, hookVars, srvVars, shutVars, fhVars,
                 from, lastReq>>

\* Reading a request fails on a closed socket.
ReadFails(c) ==
  /\ cst[c] \in {"idle", "reading"} /\ c \in sockClosed
  /\ cst' = [cst EXCEPT ![c] = "exiting"]
  /\ UNCHANGED <<appVars, connVars, hookVars, srvVars, shutVars, fhVars,
                 from, lastReq, sockClosed>>

\* The serving goroutine is gone from the open count ...
Uncount(c) ==
  /\ cst[c] = "exiting"
  /\ cst' = [cst EXCEPT ![c] = "uncounted"]
  /\ UNCHANGED <<appVars, connVars, hookVars, srvVars, shutVars, fhVars,
                 from, lastReq, sockClosed>>

\* ... before connState(c, StateClosed) untracks the connection.
ConnStateClosed(c) ==
  /\ cst[c] = "uncounted"
  /\ conns' = conns \ {c}
  /\ cst' = [cst EXCEPT ![c] = "gone"]
  /\ UNCHANGED <<appVars, forceClosed, baseCancelled, hookVars, srvVars,
                 shutVars, fhVars, from, lastReq, sockClosed>>

(***************************************************************************)
(* Shutdown                                                                *)
(***************************************************************************)

To(k, pc) == kpc' = [kpc EXCEPT ![k] = pc]

\* A caller's ctx may end at any time, before the call too.
CtxEnds(k) ==
  /\ k \notin ctxDone /\ kpc[k] # "ret"
  /\ ctxDone' = ctxDone \cup {k}
  /\ UNCHANGED <<appVars, connVars, hookVars, srvVars, kpc, kln, copy, kerr,
                 fhVars, sockVars>>

ShutdownCall(k) ==
  /\ kpc[k] = "idle"
  /\ closed' = TRUE
  /\ kln' = [kln EXCEPT ![k] = ln]
  /\ To(k, "cancel")
  /\ UNCHANGED <<serving, ln, ready, draining, drainEnd, streamsCancelled,
                 connVars, hookVars, srvVars, ctxDone, copy, kerr, fhVars,
                 sockVars>>

\* Mutant of CancelStreams: the streams are not told.
CancelNothing(k) ==
  /\ kpc[k] = "cancel"
  /\ To(k, "drain")
  /\ UNCHANGED <<closed, serving, ln, ready, draining, drainEnd,
                 streamsCancelled, connVars, hookVars, srvVars, ctxDone, kln,
                 copy, kerr, fhVars, sockVars>>

CancelStreams(k) ==
  /\ kpc[k] = "cancel"
  /\ streamsCancelled' = TRUE
  /\ To(k, "drain")
  /\ UNCHANGED <<closed, serving, ln, ready, draining, drainEnd, connVars,
                 hookVars, srvVars, ctxDone, kln, copy, kerr, fhVars, sockVars>>

\* drain, drainOnce: the first Shutdown turns readiness off and starts the
\* delay if the App was ready.
DrainOnce(k) ==
  /\ kpc[k] = "drain"
  /\ IF draining
       THEN UNCHANGED <<ready, draining, drainEnd>>
       ELSE /\ ready' = FALSE /\ draining' = TRUE
            /\ drainEnd' = IF ready /\ DrainDelay THEN "pending" ELSE "zero"
  /\ To(k, "drainWait")
  /\ UNCHANGED <<closed, serving, ln, streamsCancelled, connVars, hookVars,
                 srvVars, ctxDone, kln, copy, kerr, fhVars, sockVars>>

\* drainEnd comes.
DelayPasses ==
  /\ drainEnd = "pending"
  /\ drainEnd' = "passed"
  /\ UNCHANGED <<closed, serving, ln, ready, draining, streamsCancelled,
                 connVars, hookVars, srvVars, shutVars, fhVars, sockVars>>

DrainWait(k) ==
  /\ kpc[k] = "drainWait"
  /\ drainEnd # "pending" \/ k \in ctxDone
  /\ To(k, "turn")
  /\ UNCHANGED <<appVars, connVars, hookVars, srvVars, ctxDone, kln, copy,
                 kerr, fhVars, sockVars>>

\* Mutant of Turn: no turns are taken.
TurnAtOnce(k) ==
  /\ kpc[k] = "turn"
  /\ sem' = k /\ To(k, "swc1")
  /\ UNCHANGED <<appVars, connVars, hooksStarted, shutdownDone, hookLog,
                 srvVars, ctxDone, kln, copy, kerr, fhVars, sockVars>>

\* The first select: the turn if it is free, whatever the ctx says.
Turn(k) ==
  /\ kpc[k] = "turn"
  /\ IF sem = Free THEN sem' = k /\ To(k, "swc1")
                   ELSE UNCHANGED sem /\ To(k, "turnWait")
  /\ UNCHANGED <<appVars, connVars, hooksStarted, shutdownDone, hookLog,
                 srvVars, ctxDone, kln, copy, kerr, fhVars, sockVars>>

\* Mutant of TurnWait: the end of ctx is not awaited.
TurnWaitForEver(k) ==
  /\ kpc[k] = "turnWait"
  /\ sem = Free /\ sem' = k /\ To(k, "swc1")
  /\ UNCHANGED <<appVars, connVars, hooksStarted, shutdownDone, hookLog,
                 srvVars, ctxDone, kln, copy, kerr, fhVars, sockVars>>

\* The second select: the turn, or the end of ctx.
TurnWait(k) ==
  /\ kpc[k] = "turnWait"
  /\ \/ sem = Free /\ sem' = k /\ To(k, "swc1") /\ UNCHANGED kerr
     \/ /\ k \in ctxDone
        /\ kerr' = [kerr EXCEPT ![k] = {"ctx"}]
        /\ To(k, "flag")
        /\ UNCHANGED sem
  /\ UNCHANGED <<appVars, connVars, hooksStarted, shutdownDone, hookLog,
                 srvVars, ctxDone, kln, copy, fhVars, sockVars>>

\* Mutant of AfterSwc1: one drain, although ln may not be recorded yet.
OneDrain(k, err) == "hooks"

\* What follows a ShutdownWithContext that returned err, not a context error: ln
\* is closed, and drained again, if err is nil.
AfterSwc1(k, err) == IF err = {} /\ kln[k] # NoLn THEN "closeLn" ELSE "hooks"

\* What closing the recorded listeners may report: ErrClosed if one was closed
\* before, another error if an open one fails to close; the first of them only.
\* A listener whose Close failed accepts no more.
CloseResult == {e \in SUBSET LnErrs :
  /\ e \in {{}, {"closed"}, {"close"}}
  /\ e = {} => fhLns \cap closedLns = {}
  /\ e = {"closed"} => fhLns \cap closedLns # {}
  /\ e = {"close"} => CloseErrors /\ ~(fhLns \subseteq closedLns)}

\* ShutdownWithContext as it starts: with no listener recorded it returns nil,
\* otherwise it closes and forgets them and goes on to poll.
SwcStart(k, pc, poll, after) ==
  /\ kpc[k] = pc
  /\ IF fhLns = {}
       THEN To(k, after) /\ UNCHANGED fhVars
       ELSE /\ lnErr' \in CloseResult
            /\ closedLns' = closedLns \cup fhLns
            /\ fhLns' = {}
            /\ To(k, poll)
  /\ UNCHANGED <<appVars, connVars, hookVars, srvVars, ctxDone, kln, copy,
                 kerr, sockVars>>

Swc1(k) == SwcStart(k, "swc1", "poll1", AfterSwc1(k, {}))
Swc2(k) == SwcStart(k, "swc2", "poll2", "hooks")

\* One poll of the drain: idle connections are closed, one that has begun to
\* send a request is not; with nothing open it returns the listeners' close
\* error, and it waits for the next poll otherwise.
Poll(k, pc, wait, after, err) ==
  /\ kpc[k] = pc
  /\ sockClosed' = sockClosed \cup {c \in Conns : cst[c] = "idle"}
  /\ IF FhOpen THEN To(k, wait) /\ UNCHANGED kerr
               ELSE To(k, after) /\ kerr' = [kerr EXCEPT ![k] = err]
  /\ UNCHANGED <<appVars, connVars, hookVars, srvVars, ctxDone, kln, copy,
                 fhVars, cst, from, lastReq>>

\* Mutant of IgnoreErrClosed: every error is reported.
ReportErrClosed(err) == err

\* errors.Is(err, net.ErrClosed): rice closed that listener on purpose.
IgnoreErrClosed(err) == err \ {"closed"}

Poll1(k) ==
  LET err == IgnoreErrClosed(lnErr)
  IN Poll(k, "poll1", "wait1", AfterSwc1(k, err), err)
Poll2(k) == Poll(k, "poll2", "wait2", "hooks", {})

\* Between polls the ticker fires ...
Tick(k) ==
  /\ \/ kpc[k] = "wait1" /\ To(k, "poll1")
     \/ kpc[k] = "wait2" /\ To(k, "poll2")
  /\ UNCHANGED <<appVars, connVars, hookVars, srvVars, ctxDone, kln, copy,
                 kerr, fhVars, sockVars>>

\* ... or ctx ends, which Shutdown answers with closeConns.
SwcTimeout(k) ==
  /\ kpc[k] \in {"wait1", "wait2"} /\ k \in ctxDone
  /\ kerr' = [kerr EXCEPT ![k] = {"ctx"}]
  /\ To(k, "flag")
  /\ UNCHANGED <<appVars, connVars, hookVars, srvVars, ctxDone, kln, copy,
                 fhVars, sockVars>>

\* ln.Close() between the two drains.
CloseLn(k) ==
  /\ kpc[k] = "closeLn"
  /\ closedLns' = closedLns \cup {kln[k]}
  /\ To(k, "swc2")
  /\ UNCHANGED <<appVars, connVars, hookVars, srvVars, ctxDone, kln, copy,
                 kerr, fhLns, lnErr, sockVars>>

\* Mutant of ForceClose: the sockets go without cancelBase.
ForceCloseUncancelled(k) ==
  /\ kpc[k] = "flag"
  /\ forceClosed' = TRUE
  /\ copy' = [copy EXCEPT ![k] = conns]
  /\ To(k, "closeEach")
  /\ UNCHANGED <<appVars, conns, baseCancelled, hookVars, srvVars, ctxDone,
                 kln, kerr, fhVars, sockVars>>

\* closeConns: the flag and the copy under connMu, ...
ForceClose(k) ==
  /\ kpc[k] = "flag"
  /\ forceClosed' = TRUE
  /\ copy' = [copy EXCEPT ![k] = conns]
  /\ To(k, "cancelBase")
  /\ UNCHANGED <<appVars, conns, baseCancelled, hookVars, srvVars, ctxDone,
                 kln, kerr, fhVars, sockVars>>

\* ... then cancelBase, ...
CancelBase(k) ==
  /\ kpc[k] = "cancelBase"
  /\ baseCancelled' = TRUE
  /\ To(k, "closeEach")
  /\ UNCHANGED <<appVars, forceClosed, conns, hookVars, srvVars, ctxDone, kln,
                 copy, kerr, fhVars, sockVars>>

\* ... then the copied connections one by one, outside the lock.  A call that
\* never had the turn returns after them.
CloseEach(k) ==
  /\ kpc[k] = "closeEach"
  /\ \/ \E c \in copy[k] :
          /\ sockClosed' = sockClosed \cup {c}
          /\ copy' = [copy EXCEPT ![k] = copy[k] \ {c}]
          /\ UNCHANGED kpc
     \/ /\ copy[k] = {}
        /\ To(k, IF sem = k THEN "hooks" ELSE "ret")
        /\ UNCHANGED <<copy, sockClosed>>
  /\ UNCHANGED <<appVars, connVars, hookVars, srvVars, ctxDone, kln, kerr,
                 fhVars, cst, from, lastReq>>

\* runShutdown: shutdownOnce lets one call in, which announces the hooks.
RunShutdown(k) ==
  /\ kpc[k] = "hooks"
  /\ IF hooksStarted THEN To(k, "release") /\ UNCHANGED hooksStarted
                     ELSE To(k, "inHooks") /\ hooksStarted' = TRUE
  /\ UNCHANGED <<appVars, connVars, sem, shutdownDone, hookLog, srvVars,
                 ctxDone, kln, copy, kerr, fhVars, sockVars>>

\* Mutant of Hook: in the order of registration.
HookForward(k) ==
  /\ kpc[k] = "inHooks"
  /\ IF Len(hookLog) = NHooks
       THEN shutdownDone' = TRUE /\ To(k, "release") /\ UNCHANGED hookLog
       ELSE hookLog' = Append(hookLog, Len(hookLog) + 1) /\ UNCHANGED <<shutdownDone, kpc>>
  /\ UNCHANGED <<appVars, connVars, sem, hooksStarted, srvVars, ctxDone, kln,
                 copy, kerr, fhVars, sockVars>>

\* The next hook, in reverse order of registration, returns nil or an error,
\* or panics, which ends the loop; shutdownDone closes on every way out.
Hook(k) ==
  LET left == NHooks - Len(hookLog) IN
  /\ kpc[k] = "inHooks"
  /\ \/ /\ left = 0
        /\ shutdownDone' = TRUE
        /\ To(k, "release")
        /\ UNCHANGED <<hookLog, kerr>>
     \/ /\ left > 0
        /\ hookLog' = Append(hookLog, left)
        /\ \E failure \in {{}, {"hook"}} :
             kerr' = [kerr EXCEPT ![k] = kerr[k] \cup failure]
        /\ UNCHANGED <<kpc, shutdownDone>>
     \/ /\ left > 0
        /\ hookLog' = Append(hookLog, left)
        /\ kerr' = [kerr EXCEPT ![k] = kerr[k] \cup {"panic"}]
        /\ shutdownDone' = TRUE
        /\ To(k, "release")
  /\ UNCHANGED <<appVars, connVars, sem, hooksStarted, srvVars, ctxDone, kln,
                 copy, fhVars, sockVars>>

\* The deferred receive from shutdownSem, and the return.
Release(k) ==
  /\ kpc[k] = "release"
  /\ sem' = Free
  /\ To(k, "ret")
  /\ UNCHANGED <<appVars, connVars, hooksStarted, shutdownDone, hookLog,
                 srvVars, ctxDone, kln, copy, kerr, fhVars, sockVars>>

(***************************************************************************)
(* The specification                                                       *)
(***************************************************************************)

ServeStep(s) ==
  \/ RunStart(s) \/ Publish(s) \/ Unready(s) \/ Unserve(s)
  \/ FhRecord(s) \/ AcceptFails(s)
ConnStep(c) ==
  \/ ConnStateNew(c) \/ FirstByte(c) \/ Request(c) \/ StreamStarts(c)
  \/ HandlerReturns(c) \/ StreamEnds(c) \/ ClientCloses(c) \/ ReadTimesOut(c)
  \/ ReadFails(c) \/ Uncount(c) \/ ConnStateClosed(c)
ShutdownStep(k) ==
  \/ CancelStreams(k) \/ DrainOnce(k) \/ DrainWait(k) \/ Turn(k) \/ TurnWait(k)
  \/ Swc1(k) \/ Poll1(k) \/ CloseLn(k) \/ Swc2(k) \/ Poll2(k)
  \/ Tick(k) \/ SwcTimeout(k)
  \/ ForceClose(k) \/ CancelBase(k) \/ CloseEach(k)
  \/ RunShutdown(k) \/ Hook(k) \/ Release(k)

Running ==
  \/ \E s \in Serves : ServeStep(s) \/ \E c \in Conns : Accept(s, c)
  \/ \E c \in Conns : ConnStep(c)
  \/ \E k \in Callers : ShutdownStep(k) \/ CtxEnds(k)
  \/ DelayPasses

Next ==
  \/ \E s \in Serves : ServeCall(s)
  \/ \E k \in Callers : ShutdownCall(k)
  \/ Running

Spec == Init /\ [][Next]_vars

\* Handlers return and their responses are written, and a stream ends once its
\* context is cancelled.
HandlerFairness ==
  \A c \in Conns : /\ WF_vars(HandlerReturns(c))
                   /\ WF_vars(streamsCancelled /\ StreamEnds(c))

\* WithReadTimeout is set: no request is read for ever.
RequestFairness == \A c \in Conns : WF_vars(ReadTimesOut(c))

(***************************************************************************)
(* Properties                                                              *)
(***************************************************************************)

Prefix(n) == [i \in 1..n |-> NHooks + 1 - i]

FlagsOK ==
  /\ closed \in BOOLEAN /\ serving \in BOOLEAN /\ ready \in BOOLEAN
  /\ draining \in BOOLEAN /\ streamsCancelled \in BOOLEAN
  /\ forceClosed \in BOOLEAN /\ baseCancelled \in BOOLEAN
  /\ hooksStarted \in BOOLEAN /\ shutdownDone \in BOOLEAN

DataOK ==
  /\ ln \in Serves \cup {NoLn} /\ drainEnd \in {"zero", "pending", "passed"}
  /\ conns \subseteq Conns /\ sem \in Callers \cup {Free}
  /\ hookLog \in Seq(1..NHooks)
  /\ spc \in [Serves -> ServePC]
  /\ sres \in [Serves -> {"none", "nil", "busy", "err"}]
  /\ kpc \in [Callers -> ShutPC] /\ ctxDone \subseteq Callers
  /\ kln \in [Callers -> Serves \cup {NoLn}]
  /\ copy \in [Callers -> SUBSET Conns] /\ kerr \in [Callers -> SUBSET Errs]
  /\ fhLns \subseteq Serves /\ lnErr \subseteq LnErrs /\ closedLns \subseteq Serves
  /\ cst \in [Conns -> ConnST] /\ from \in [Conns -> Serves \cup {NoLn}]
  /\ lastReq \subseteq Conns /\ sockClosed \subseteq Conns

\* Every variable holds a value the code could give it.
TypeOK == FlagsOK /\ DataOK

Returned(k) == kpc[k] = "ret"
\* Connections a request can be answered on.
Live == {c \in Conns : /\ cst[c] \in {"idle", "reading", "handling", "streaming"}
                       /\ c \notin sockClosed}

\* A call met an error of closing a listener that is not ErrClosed, and left ln
\* as it was.
CloseFailed(k) == "close" \in kerr[k]

\* Nothing is served after Shutdown returns (Shutdown): once any call has
\* returned, other than with a listener's close error, no connection is left on
\* which a request could be read or a response written, whichever calls are
\* still draining and whichever connections were accepted but not yet reported.
NothingServedAfterShutdown ==
  (\E k \in Callers : Returned(k) /\ ~CloseFailed(k)) => Live = {}

\* "OnShutdown hooks then run, after the drain and any force-close": when the
\* hooks run no connection is served, and if nothing was cut off, no handler
\* or stream is still running either.  A call that met a listener's close error
\* runs the hooks all the same.
HooksAfterDrain ==
  hooksStarted /\ ~(\E k \in Callers : CloseFailed(k)) =>
     /\ Live = {}
     /\ forceClosed \/ ~\E c \in Conns : cst[c] \in {"handling", "streaming"}

\* Calls take turns and the hooks run once, in reverse order of registration,
\* whichever and however many calls reach runShutdown.
HooksRunOnceInReverse ==
  /\ hookLog = Prefix(Len(hookLog)) /\ Len(hookLog) <= NHooks
  /\ \A j, k \in Callers : kpc[j] = "inHooks" /\ kpc[k] = "inHooks" => j = k

\* "A call that waited its turn returns only after all of that": a call that
\* returned without having been cut off finds the hooks finished.
ReturnAfterHooks ==
  \A k \in Callers : Returned(k) => shutdownDone \/ "ctx" \in kerr[k]

\* Ready: true exactly while a Serve has its listener published and serving has
\* not stopped, and no Shutdown has begun to drain.  A Serve that failed must
\* not turn off the readiness of the one that was started after it.
ReadyIffServing ==
  ready <=> /\ ~draining
            /\ \E s \in Serves : \/ spc[s] \in {"recording", "accepting"}
                                 \/ spc[s] = "unready" /\ ln = s

\* What Shutdown returned tells what happened: a ctx error only from a call
\* whose ctx ended, after a force-close; without one, at most its hooks' errors,
\* and then every listener is closed and nothing is served.  That rice and
\* fasthttp both closed a listener is never an error (Shutdown).
ResultTellsOutcome ==
  \A k \in Callers : Returned(k) =>
    /\ "closed" \notin kerr[k]
    /\ "ctx" \in kerr[k] => k \in ctxDone /\ forceClosed
    /\ kerr[k] \subseteq {"hook"} /\ ~forceClosed =>
         /\ Live = {} /\ shutdownDone
         /\ \A s \in Serves : spc[s] \in {"recording", "accepting"} => s \in closedLns

\* "Shutdown stops accepting new connections": when a call that had its turn
\* has returned, no Serve is left with an open listener to accept on.
StopsAccepting ==
  \A k \in Callers : Returned(k) /\ shutdownDone =>
     \A s \in Serves : spc[s] \in {"recording", "accepting"} => s \in closedLns

\* closeConns cancels the base context before it closes the first socket: a
\* connection whose handler is running is closed under it only after its
\* context was cancelled.
CancelledBeforeCutOff ==
  [][\A c \in sockClosed' \ sockClosed :
       cst[c] \in {"handling", "streaming"} /\ cst'[c] = cst[c] => baseCancelled]_vars

\* Shutdown returns once its ctx has ended, whatever handlers do and whichever
\* other call holds the turn.
DeadlineReturns ==
  \A k \in Callers : (kpc[k] # "idle" /\ k \in ctxDone) ~> Returned(k)

\* With handlers that return, streams that end when their context does and a
\* read timeout, every Shutdown returns without a deadline.  A client that sent
\* half a request would hold it for ever otherwise (WithReadTimeout).
DrainReturns ==
  HandlerFairness /\ RequestFairness =>
     \A k \in Callers : (kpc[k] # "idle") ~> Returned(k)

\* Shutdown left the listener of s open: its first drain was that of a Serve that
\* had failed, and it timed out or met a close error (see StopsAccepting).
LeftOpen(s) ==
  /\ spc[s] \in {"recording", "accepting"} /\ s \notin closedLns
  /\ \E t \in Serves \ {s} : sres[t] = "err"
  /\ forceClosed \/ \E k \in Callers : CloseFailed(k)

\* Every Serve returns once a Shutdown has begun its hooks, a Serve that is a
\* retry too, unless its listener was left open.
ServeReturns ==
  \A s \in Serves : (spc[s] # "idle" /\ hooksStarted) ~> (spc[s] = "done" \/ LeftOpen(s))
=============================================================================
