----------------------------- MODULE RunContext -----------------------------
(***************************************************************************)
(* App.RunContext: one Serve in a goroutine of its own, one Shutdown of    *)
(* its own when ctx ends, and the wait for the OnShutdown hooks, beside    *)
(* the Serve and Shutdown calls other goroutines make (Lifecycle).         *)
(***************************************************************************)
EXTENDS Lifecycle

CONSTANTS MainServe, MainCaller  \* the Serve and the Shutdown RunContext calls

ASSUME MainAssumption == MainServe \in Serves /\ MainCaller \in Callers

VARIABLES rpc,   \* where RunContext is
          rctx   \* whether its ctx has ended

rcVars == <<rpc, rctx>>
allVars == <<vars, rcVars>>

RunPC == {"start", "unbound", "select", "selectDone", "shutdownJoin", "shutdown",
          "join", "await", "awaitDone", "leave", "ret"}

RCInit == Init /\ rpc = "start" /\ rctx = FALSE

RCTo(pc) == rpc' = pc /\ UNCHANGED <<rctx, vars>>

RCCtxEnds == ~rctx /\ rctx' = TRUE /\ UNCHANGED <<rpc, vars>>

\* net.Listen fails, or the goroutine that calls Serve is started.
Bind == rpc = "start" /\ (RCTo("unbound") \/ RCTo("select"))

\* The first select: Serve returned, with an error or nil, or ctx ended.
Select ==
  /\ rpc = "select"
  /\ \/ /\ spc[MainServe] = "done"
        /\ RCTo(IF sres[MainServe] = "nil" THEN "selectDone" ELSE "await")
     \/ rctx /\ RCTo("shutdownJoin")

\* Mutants of SelectDone: the hooks are not awaited; ctx is not watched.
LeaveAtOnce == rpc = "selectDone" /\ RCTo("leave")
DoneOnly == rpc = "selectDone" /\ shutdownDone /\ RCTo("leave")

\* A Shutdown called elsewhere has begun: wait for its hooks, or for ctx.
SelectDone ==
  /\ rpc = "selectDone"
  /\ \/ shutdownDone /\ RCTo("leave")
     \/ rctx /\ RCTo("shutdown")

\* shutdownWithin has returned; the first select's path then takes serveErr.
OwnShutdown ==
  /\ Returned(MainCaller)
  /\ \/ rpc = "shutdownJoin" /\ RCTo("join")
     \/ rpc = "shutdown" /\ RCTo("await")
Join == rpc = "join" /\ spc[MainServe] = "done" /\ RCTo("await")

\* awaitRunningHooks: one look at hooksStarted.
AwaitRunningHooks ==
  /\ rpc = "await"
  /\ RCTo(IF hooksStarted THEN "awaitDone" ELSE "leave")
AwaitDone == rpc = "awaitDone" /\ shutdownDone /\ RCTo("leave")
Leave == rpc = "leave" /\ RCTo("ret")

RCStep == \/ Bind \/ Select \/ SelectDone \/ OwnShutdown \/ Join
          \/ AwaitRunningHooks \/ AwaitDone \/ Leave

Bound == rpc \notin {"start", "unbound"}

\* The calls of the other goroutines, and RunContext's own when it makes them.
Calls ==
  \/ \E s \in Serves : (s = MainServe => Bound) /\ ServeCall(s)
  \/ \E k \in Callers : /\ k = MainCaller => rpc \in {"shutdown", "shutdownJoin"}
                        /\ ShutdownCall(k)

RCNext ==
  \/ RCStep \/ RCCtxEnds
  \/ (Calls \/ Running) /\ UNCHANGED rcVars

RCSpec == RCInit /\ [][RCNext]_allVars

\* A call once made goes on: the code's own steps are never put off for ever.
\* An OnStart or OnShutdown hook returns.  A handler need not, a client need
\* do nothing, a ctx need never end, and the delay is finite.  A drain whose
\* ctx has ended finds it out although its ticker goes on firing.  RunContext's
\* own Shutdown has the drain delay plus grace, which is finite.
Beside(A) == A /\ UNCHANGED rcVars
RCFairSpec ==
  /\ RCSpec
  /\ \A s \in Serves :
       /\ WF_allVars(Beside(RunStart(s) \/ Publish(s) \/ Unready(s) \/ Unserve(s)))
       /\ WF_allVars(Beside(FhRecord(s)))
       /\ WF_allVars(Beside(s \in closedLns /\ AcceptFails(s)))
  /\ \A c \in Conns :
       WF_allVars(Beside(ConnStateNew(c) \/ ReadFails(c) \/ Uncount(c) \/ ConnStateClosed(c)))
  /\ \A k \in Callers : /\ WF_allVars(Beside(ShutdownStep(k)))
                        /\ SF_allVars(Beside(SwcTimeout(k)))
  /\ WF_allVars(Beside(DelayPasses))
  /\ WF_allVars(RCStep)
  /\ WF_allVars(Beside(Bound /\ ServeCall(MainServe)))
  /\ WF_allVars(Beside(rpc \in {"shutdown", "shutdownJoin"} /\ ShutdownCall(MainCaller)))
  /\ WF_allVars(Beside(kpc[MainCaller] # "idle" /\ CtxEnds(MainCaller)))

(***************************************************************************)
(* Properties                                                              *)
(***************************************************************************)

CutOff == "ctx" \in kerr[MainCaller]
HooksRunning == hooksStarted /\ ~shutdownDone

\* "RunContext waits for it to drain and run the OnShutdown hooks, then returns
\* nil": when RunContext returns after a shutdown, the hooks have finished,
\* whichever Shutdown ran them, unless another Shutdown still holds its turn and
\* RunContext's own was cut off waiting for it.
ReturnsTornDown ==
  rpc = "ret" /\ sres[MainServe] = "nil" =>
     shutdownDone \/ (CutOff /\ sem \in Callers \ {MainCaller})

\* RunContext returns once its ctx has ended although handlers may run for ever
\* and another Shutdown, without a deadline, may hold the turn.  It waits for its
\* Serve, so not if its own Shutdown left the listener open.
CtxStopsRunContext == rctx ~> (rpc \in {"ret", "unbound"} \/ LeftOpen(MainServe))

\* "RunContext never returns while OnShutdown hooks are running, whichever
\* Shutdown runs them", except after its own Shutdown timed out.
NeverReturnsInHooks == [][rpc' = "ret" /\ rpc = "leave" => ~HooksRunning \/ CutOff]_allVars
=============================================================================
