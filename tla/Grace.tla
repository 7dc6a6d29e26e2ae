------------------------------- MODULE Grace --------------------------------
(***************************************************************************)
(* The time a shutdown takes: RunContext's shutdownWithin beside other     *)
(* Shutdown calls, the drain delay they share, each call's deadline, the   *)
(* requests in flight, and the readiness probes of health.Ready.           *)
(*                                                                         *)
(* Time is a clock of small natural numbers.  The code's own steps take no *)
(* time: the clock moves only when every call waits for something.  The    *)
(* steps between the ones that wait are in module Lifecycle.               *)
(***************************************************************************)
EXTENDS Integers, Sequences, FiniteSets

CONSTANTS
  Main, Others,    \* RunContext's own Shutdown call and those made elsewhere
  Requests,        \* requests
  MaxInt,          \* math.MaxInt64
  Delays, Graces,  \* durations WithDrainDelay and RunContext may be given
  Timeouts,        \* how long the ctx of another Shutdown call may last
  Checks,          \* the timeouts of health.Ready's checks, in order
  DefaultTimeout,  \* one second
  Horizon,         \* bound: the last moment of the clock
  Never            \* no moment

ASSUME GraceAssumption ==
  /\ Main \notin Others
  /\ MaxInt \in Nat /\ Delays \subseteq 0..MaxInt /\ Graces \subseteq 0..MaxInt
  /\ Timeouts \subseteq Nat /\ Checks \in Seq(Nat)
  /\ DefaultTimeout \in Nat /\ Horizon \in Nat
  /\ Never \notin Int

Calls == Others \cup {Main}

VARIABLES
  clock,
  drainDelay, grace,   \* the program's choices
  ready,               \* App.ready
  begun,               \* when drainOnce ran, or Never
  drainEnd,            \* until when the delay lasts, or Never
  lnClosed,            \* when the listener was closed, or Never
  pc, deadline,        \* each Shutdown call and when its ctx ends
  began,               \* history: when RunContext called its own
  turn,                \* who holds shutdownSem, or Never
  busy,                \* requests whose handler runs
  baseCancelled,       \* closeConns cancelled the context of the requests
  cut,                 \* history: the calls that force-closed requests just now
  probe, answer        \* the readiness probe under way and the answer just given

appVars == <<drainDelay, grace, ready, begun, drainEnd, lnClosed>>
callVars == <<pc, began, deadline, turn>>
probeVars == <<probe, answer>>
vars == <<clock, appVars, callVars, busy, baseCancelled, cut, probeVars>>

NoProbe == [check |-> 0, since |-> 0, started |-> 0]
NoAnswer == [code |-> 0, started |-> 0, checked |-> 0]

Init ==
  /\ clock = 0 /\ drainDelay \in Delays /\ grace \in Graces
  /\ ready = FALSE /\ begun = Never /\ drainEnd = Never /\ lnClosed = Never
  /\ pc = [k \in Calls |-> "idle"] /\ turn = Never
  /\ began = Never /\ deadline = [k \in Calls |-> Never]
  /\ busy = {} /\ baseCancelled = FALSE /\ cut = {} /\ probe = NoProbe /\ answer = NoAnswer

Ended(k) == deadline[k] # Never /\ deadline[k] <= clock
-----------------------------------------------------------------------------
\* int64 addition
Wrap(x) == ((x + MaxInt + 1) % (2 * (MaxInt + 1))) - (MaxInt + 1)

\* Mutant of total: the sum wraps.
totalWraps == Wrap(drainDelay + grace)

\* shutdownWithin: the sum of delay and grace, saturated.
total == LET sum == Wrap(drainDelay + grace) IN IF sum < grace THEN MaxInt ELSE sum

\* Serve turns readiness on, unless a Shutdown has begun.
Serve ==
  /\ ~ready /\ begun = Never
  /\ ready' = TRUE
  /\ UNCHANGED <<clock, drainDelay, grace, begun, drainEnd, lnClosed, callVars,
                 busy, baseCancelled, cut, probeVars>>

\* drain's first part, which drainOnce runs once.
drain ==
  IF begun # Never THEN UNCHANGED <<ready, begun, drainEnd>>
  ELSE /\ begun' = clock /\ ready' = FALSE
       /\ drainEnd' = IF ready /\ drainDelay > 0 THEN clock + drainDelay ELSE Never

\* Shutdown is called, with a ctx that ends after last or never does.
Shutdown(k, last) ==
  /\ pc[k] = "idle"
  /\ began' = IF k = Main THEN clock ELSE began
  /\ deadline' = [deadline EXCEPT ![k] = IF last = Never THEN Never ELSE clock + last]
  /\ drain
  /\ pc' = [pc EXCEPT ![k] = "delay"]
  /\ UNCHANGED <<clock, drainDelay, grace, lnClosed, turn, busy, baseCancelled, cut, probeVars>>

\* RunContext's ctx ends.
shutdownWithin == Shutdown(Main, total)

\* drain has nothing to wait for: no delay, or it is over, or ctx has ended.
DelayOver(k) == drainEnd # Never /\ ~Ended(k) => drainEnd <= clock

\* The end of drain: the timer or ctx.
EndDelay(k) ==
  /\ pc[k] = "delay" /\ DelayOver(k)
  /\ pc' = [pc EXCEPT ![k] = "turn"]
  /\ UNCHANGED <<clock, appVars, began, deadline, turn, busy, baseCancelled, cut, probeVars>>

\* The turn is taken, and ShutdownWithContext closes the listener.
TakeTurn(k) ==
  /\ pc[k] = "turn" /\ turn = Never
  /\ turn' = k
  /\ lnClosed' = IF lnClosed = Never THEN clock ELSE lnClosed
  /\ pc' = [pc EXCEPT ![k] = "poll"]
  /\ UNCHANGED <<clock, drainDelay, grace, ready, begun, drainEnd, began, deadline,
                 busy, baseCancelled, cut, probeVars>>

\* closeConns, with cancelBase
closeConns(k) ==
  /\ baseCancelled' = TRUE
  /\ cut' = IF busy = {} THEN cut ELSE cut \cup {k}

\* ctx ends while the call waits for the turn.
TurnTimeout(k) ==
  /\ pc[k] = "turn" /\ turn # Never /\ Ended(k)
  /\ closeConns(k)
  /\ pc' = [pc EXCEPT ![k] = "done"]
  /\ UNCHANGED <<clock, appVars, began, deadline, turn, busy, probeVars>>

\* Everything has finished; the hooks run and the call returns.
Drained(k) ==
  /\ pc[k] = "poll" /\ busy = {}
  /\ pc' = [pc EXCEPT ![k] = "done"] /\ turn' = Never
  /\ UNCHANGED <<clock, appVars, began, deadline, busy, baseCancelled, cut, probeVars>>

\* ctx ends first: closeConns, then the hooks.
CutOff(k) ==
  /\ pc[k] = "poll" /\ busy # {} /\ Ended(k)
  /\ closeConns(k)
  /\ pc' = [pc EXCEPT ![k] = "done"] /\ turn' = Never
  /\ UNCHANGED <<clock, appVars, began, deadline, busy, probeVars>>

\* A request arrives while the listener is open; its handler returns.
Arrive(r) ==
  /\ ready \/ begun # Never
  /\ lnClosed = Never /\ r \notin busy
  /\ busy' = busy \cup {r}
  /\ UNCHANGED <<clock, appVars, callVars, baseCancelled, cut, probeVars>>
Finish(r) ==
  /\ r \in busy /\ busy' = busy \ {r}
  /\ UNCHANGED <<clock, appVars, callVars, baseCancelled, cut, probeVars>>
-----------------------------------------------------------------------------
\* run's timeout
TimeoutOf(i) == IF Checks[i] = 0 THEN DefaultTimeout ELSE Checks[i]

Answer(code, started, checked) ==
  /\ answer' = [code |-> code, started |-> started, checked |-> checked]
  /\ probe' = NoProbe

\* health.Ready: the App first, then the checks in order.
Ready ==
  /\ probe = NoProbe
  /\ CASE ~ready -> Answer(503, clock, 0)
       [] ready /\ Checks = <<>> -> Answer(200, clock, 0)
       [] OTHER -> /\ probe' = [check |-> 1, since |-> clock, started |-> clock]
                   /\ UNCHANGED answer
  /\ UNCHANGED <<clock, appVars, callVars, busy, baseCancelled, cut>>

\* Mutant of run: what a check returned decides, however late.
runLate(ok) ==
  /\ probe.check > 0
  /\ CASE ~ok -> Answer(503, probe.started, probe.check)
       [] ok /\ probe.check = Len(Checks) -> Answer(200, probe.started, probe.check)
       [] OTHER -> /\ probe' = [probe EXCEPT !.check = @ + 1, !.since = clock]
                   /\ UNCHANGED answer
  /\ UNCHANGED <<clock, appVars, callVars, busy, baseCancelled, cut>>

\* run: a check returns; nil after its deadline fails too, and at the very
\* moment of the deadline the timer may have fired or not.  The context is the
\* request's, which closeConns cancels if the route is one of this App.
run(ok) ==
  LET late == probe.since + TimeoutOf(probe.check) IN
  /\ probe.check > 0
  /\ \E passed \in {p \in BOOLEAN : /\ p => ok /\ clock <= late
                                    /\ ok /\ clock < late /\ ~baseCancelled => p} :
       CASE ~passed -> Answer(503, probe.started, probe.check)
         [] passed /\ probe.check = Len(Checks) -> Answer(200, probe.started, probe.check)
         [] OTHER -> /\ probe' = [probe EXCEPT !.check = @ + 1, !.since = clock]
                     /\ UNCHANGED answer
  /\ UNCHANGED <<clock, appVars, callVars, busy, baseCancelled, cut>>
-----------------------------------------------------------------------------
\* Time passes when every call waits.
Waits(k) ==
  CASE pc[k] = "delay" -> ~DelayOver(k)
    [] pc[k] = "turn" -> turn # Never /\ ~Ended(k)
    [] pc[k] = "poll" -> busy # {} /\ ~Ended(k)
    [] OTHER -> TRUE

Tick ==
  /\ clock < Horizon /\ \A k \in Calls : Waits(k)
  /\ clock' = clock + 1
  /\ cut' = {} /\ answer' = NoAnswer
  /\ UNCHANGED <<appVars, callVars, busy, baseCancelled, probe>>

AtHorizon == clock = Horizon /\ UNCHANGED vars

Next ==
  \/ Serve \/ shutdownWithin \/ Ready \/ Tick \/ AtHorizon
  \/ \E k \in Others, last \in Timeouts \cup {Never} : Shutdown(k, last)
  \/ \E k \in Calls : EndDelay(k) \/ TakeTurn(k) \/ TurnTimeout(k) \/ Drained(k) \/ CutOff(k)
  \/ \E r \in Requests : Arrive(r) \/ Finish(r)
  \/ \E ok \in BOOLEAN : run(ok)

Spec == Init /\ [][Next]_vars
-----------------------------------------------------------------------------
\* An App that was ready goes on listening for exactly the drain delay from the
\* first Shutdown, which no later call extends and only the end of a call's ctx
\* cuts short; one that was not ready does not wait.
DelayKept ==
  lnClosed # Never =>
    /\ drainEnd = Never => lnClosed = begun
    /\ drainEnd # Never =>
         /\ lnClosed <= begun + drainDelay
         /\ lnClosed < begun + drainDelay =>
              \E k \in Calls : deadline[k] # Never /\ deadline[k] <= lnClosed

\* The drain delay is kept, and then RunContext gives a request in flight at
\* least grace after the listener closed, whichever call closed it and however
\* close to the largest duration delay and grace are; its Shutdown lasts no
\* longer than both together (shutdownWithin, Shutdown, drain).
DelayThenGrace ==
  /\ DelayKept
  /\ Main \in cut => clock >= lnClosed + grace \/ clock >= began + MaxInt
  /\ pc[Main] \notin {"idle", "done"} => clock <= began + drainDelay + grace

\* How long the first i checks may take together.
CheckTime[i \in 0..Len(Checks)] == IF i = 0 THEN 0 ELSE CheckTime[i - 1] + TimeoutOf(i)

\* A probe that began after the drain did is refused at once and runs no check,
\* and one under way answers 200 no later than its checks' timeouts allow, so
\* that a load balancer sees the drain in a bounded time however slow a
\* dependency is (health.Ready, run, App.Ready).
ProbesSeeDrain ==
  answer.code # 0 /\ begun # Never =>
    /\ answer.started > begun =>
         answer.code = 503 /\ answer.checked = 0 /\ clock = answer.started
    /\ answer.code = 200 => clock <= begun + CheckTime[Len(Checks)]
=============================================================================
