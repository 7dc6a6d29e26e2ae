---------------------------- MODULE Grace_proofs ----------------------------
(***************************************************************************)
(* The drain delay is kept and then the grace, for any durations up to the *)
(* largest int64 and any number of Shutdown calls and requests; and a load *)
(* balancer sees the drain in a bounded time, whatever the checks.         *)
(***************************************************************************)
EXTENDS Grace, TLAPS, WellFoundedInduction

Moment == Nat \cup {Never}

TimeOK ==
  /\ clock \in Nat /\ drainDelay \in 0..MaxInt /\ grace \in 0..MaxInt
  /\ ready \in BOOLEAN /\ begun \in Moment /\ drainEnd \in Moment /\ lnClosed \in Moment
  /\ pc \in [Calls -> {"idle", "delay", "turn", "poll", "done"}]
  /\ deadline \in [Calls -> Moment] /\ began \in Moment
  /\ cut \subseteq Calls

\* What drainOnce fixed: readiness is off, and the delay runs from then.
DrainInv ==
  /\ \A k \in Calls : IF pc[k] = "idle" THEN deadline[k] = Never ELSE begun # Never
  /\ lnClosed # Never => begun # Never
  /\ begun # Never => begun <= clock /\ ~ready /\ \E k \in Calls : pc[k] # "idle"
  /\ drainEnd # Never => begun # Never /\ drainEnd = begun + drainDelay

\* While the listener is open nobody has the turn, every call is in its delay or
\* at the turn, and time has not passed the end of the delay.
OpenInv ==
  lnClosed = Never =>
    /\ turn = Never /\ cut = {}
    /\ \A k \in Calls : pc[k] \in {"idle", "delay", "turn"}
    /\ begun # Never => clock <= IF drainEnd = Never THEN begun ELSE drainEnd

\* A call leaves its delay when that is over or its ctx has ended.
LeaveInv ==
  \A k \in Calls : pc[k] \in {"turn", "poll"} /\ drainEnd # Never =>
     drainEnd <= clock \/ Ended(k)

\* RunContext's own call has delay and grace together, and time waits for it.
MainInv ==
  /\ pc[Main] # "idle" => /\ began # Never /\ begun <= began /\ began <= clock
                          /\ deadline[Main] = began + total
  /\ pc[Main] \notin {"idle", "done"} => clock <= began + total
  /\ Main \in cut => pc[Main] = "done" /\ clock >= began + total

DInv == TimeOK /\ DrainInv /\ OpenInv /\ LeaveInv /\ MainInv /\ DelayKept
-----------------------------------------------------------------------------
\* int64 arithmetic on a sum of two durations that fits, and on one that does not.
LEMMA WrapSum ==
  ASSUME NEW x \in 0..(2 * MaxInt)
  PROVE  Wrap(x) = IF x <= MaxInt THEN x ELSE x - 2 * (MaxInt + 1)
<1> USE GraceAssumption
<1> DEFINE a == x + MaxInt + 1
           b == 2 * (MaxInt + 1)
<1>1. a \in Int /\ b \in Int /\ b > 0 /\ 0 <= a /\ a < 2 * b
  OBVIOUS
<1>2. a < b => a % b = a
  BY <1>1
<1>3. b <= a => a % b = a - b
  BY <1>1
<1> HIDE DEF a, b
<1>4. a % b = IF a < b THEN a ELSE a - b
  BY <1>1, <1>2, <1>3
<1>5. Wrap(x) = (a % b) - (MaxInt + 1)
  BY DEF a, b, Wrap
<1>6. (a < b <=> x <= MaxInt) /\ a - (MaxInt + 1) = x
  BY DEF a, b
<1>7. a - b - (MaxInt + 1) = x - 2 * (MaxInt + 1)
  BY DEF a, b
<1> QED BY <1>1, <1>4, <1>5, <1>6, <1>7

\* shutdownWithin's total is delay and grace together, or the largest duration.
LEMMA TotalSaturates ==
  ASSUME drainDelay \in 0..MaxInt, grace \in 0..MaxInt
  PROVE  total = IF drainDelay + grace <= MaxInt THEN drainDelay + grace ELSE MaxInt
<1>1. drainDelay + grace \in 0..(2 * MaxInt)
  BY GraceAssumption
<1> QED BY <1>1, WrapSum, GraceAssumption DEF total

\* It is a duration, no longer than delay and grace together.
LEMMA TotalType ==
  ASSUME drainDelay \in 0..MaxInt, grace \in 0..MaxInt
  PROVE  total \in Nat /\ total <= drainDelay + grace
  BY TotalSaturates, GraceAssumption
-----------------------------------------------------------------------------
\* A Shutdown call begins: the first one fixes when the delay ends.
LEMMA ShutdownKeeps ==
  ASSUME DInv, NEW k \in Calls, NEW last \in Nat \cup {Never},
         k = Main => last = total, Shutdown(k, last)
  PROVE  DInv'
<1> USE GraceAssumption DEF DInv, TimeOK, DrainInv, OpenInv, LeaveInv, MainInv, Shutdown,
        drain, Moment, Ended, Calls
<1>0. total \in Nat /\ total' = total
  BY TotalType DEF total, Wrap
<1> HIDE DEF total
<1>1. TimeOK'
  <2>1. deadline' \in [Calls -> Moment]
    OBVIOUS
  <2>2. CASE begun # Never
    BY <2>1, <2>2
  <2>3. CASE begun = Never
    <3>1. begun' = clock /\ ready' = FALSE
      BY <2>3
    <3>2. drainEnd' = Never \/ drainEnd' = clock + drainDelay
      BY <2>3
    <3> QED BY <2>1, <3>1, <3>2
  <2> QED BY <2>2, <2>3
<1>2. DrainInv'
  <2>1. begun' \in Nat /\ begun' <= clock /\ (begun # Never => begun' = begun)
    OBVIOUS
  <2>2. drainEnd' # Never => drainEnd' = begun' + drainDelay
    OBVIOUS
  <2>3. ~ready' /\ pc'[k] # "idle"
    OBVIOUS
  <2>4. \A j \in Calls : pc'[j] = "idle" => j # k /\ deadline'[j] = Never
    OBVIOUS
  <2> QED BY <2>1, <2>2, <2>3, <2>4
<1>3. OpenInv'
  OBVIOUS
<1>4. LeaveInv'
  OBVIOUS
<1>5. MainInv'
  <2>1. CASE k = Main
    <3>1. /\ pc'[Main] = "delay" /\ began' = clock /\ deadline'[Main] = clock + total
          /\ Main \notin cut' /\ clock' = clock
      BY <1>0, <2>1
    <3>2. begun' \in Nat /\ begun' <= clock
      OBVIOUS
    <3> QED BY <1>0, <3>1, <3>2
  <2>2. CASE k # Main
    <3>1. /\ pc'[Main] = pc[Main] /\ deadline'[Main] = deadline[Main]
          /\ UNCHANGED <<began, cut, clock>>
      BY <2>2
    <3>2. pc[Main] # "idle" => begun' = begun
      OBVIOUS
    <3> QED BY <1>0, <3>1, <3>2
  <2> QED BY <2>1, <2>2
<1>6. DelayKept'
  <2> SUFFICES ASSUME lnClosed # Never PROVE DelayKept'
    BY DEF DelayKept
  <2>1. UNCHANGED <<lnClosed, begun, drainEnd, drainDelay>>
    OBVIOUS
  <2>2. \A j \in Calls : deadline[j] # Never => deadline'[j] = deadline[j]
    OBVIOUS
  <2> QED BY <2>1, <2>2 DEF DelayKept
<1> QED BY <1>1, <1>2, <1>3, <1>4, <1>5, <1>6

\* A call that leaves its delay, takes the turn or returns keeps the times.
LEMMA CallKeeps ==
  ASSUME DInv, NEW k \in Calls,
         EndDelay(k) \/ TakeTurn(k) \/ TurnTimeout(k) \/ Drained(k) \/ CutOff(k)
  PROVE  DInv'
<1> USE GraceAssumption DEF DInv, TimeOK, DrainInv, OpenInv, LeaveInv, MainInv, Moment,
        Ended, Calls, appVars, callVars, probeVars
<1>0. total \in Nat
  BY TotalType
<1>1. total' = total
  BY DEF EndDelay, TakeTurn, TurnTimeout, Drained, CutOff, total, Wrap
<1> HIDE DEF total
<1>2. CASE EndDelay(k)
  BY <1>0, <1>1, <1>2 DEF EndDelay, DelayOver, DelayKept
<1>3. CASE TakeTurn(k)
  <2>1. TimeOK' /\ DrainInv' /\ OpenInv' /\ LeaveInv'
    BY <1>3 DEF TakeTurn
  <2>2. MainInv'
    BY <1>0, <1>1, <1>3 DEF TakeTurn
  <2>3. DelayKept'
    <3>1. CASE lnClosed = Never
      <4>1. lnClosed' = clock /\ UNCHANGED <<drainEnd, begun, drainDelay, deadline>>
        BY <1>3, <3>1 DEF TakeTurn
      <4>2. begun \in Nat /\ begun <= clock
        BY <1>3 DEF TakeTurn
      <4>3. drainEnd # Never => drainEnd <= clock \/ Ended(k)
        BY <1>3 DEF TakeTurn
      <4> QED BY <3>1, <4>1, <4>2, <4>3 DEF DelayKept
    <3>2. CASE lnClosed # Never
      BY <1>3, <3>2 DEF TakeTurn, DelayKept
    <3> QED BY <3>1, <3>2
  <2> QED BY <2>1, <2>2, <2>3
<1>4. CASE TurnTimeout(k)
  <2>1. TimeOK' /\ DrainInv' /\ OpenInv' /\ LeaveInv'
    BY <1>4 DEF TurnTimeout, closeConns
  <2>2. MainInv'
    BY <1>0, <1>1, <1>4 DEF TurnTimeout, closeConns
  <2> QED BY <1>4, <2>1, <2>2 DEF TurnTimeout, DelayKept
<1>5. CASE Drained(k)
  BY <1>0, <1>1, <1>5 DEF Drained, DelayKept
<1>6. CASE CutOff(k)
  <2>1. TimeOK' /\ DrainInv' /\ OpenInv' /\ LeaveInv'
    BY <1>6 DEF CutOff, closeConns
  <2>2. MainInv'
    BY <1>0, <1>1, <1>6 DEF CutOff, closeConns
  <2> QED BY <1>6, <2>1, <2>2 DEF CutOff, DelayKept
<1> QED BY <1>2, <1>3, <1>4, <1>5, <1>6

\* Time passes only while every call waits, so no call misses its moment.
LEMMA TickKeeps == ASSUME DInv, Tick PROVE DInv'
<1> USE GraceAssumption DEF DInv, TimeOK, Moment, Calls, appVars, callVars, Tick
<1>0. total \in Nat /\ total' = total
  BY TotalType DEF total, Wrap
<1> HIDE DEF total
<1>1. TimeOK' /\ DrainInv' /\ DelayKept'
  BY DEF DrainInv, DelayKept
<1>2. LeaveInv'
  BY DEF LeaveInv, Ended
<1>3. OpenInv'
  <2> SUFFICES ASSUME lnClosed = Never, begun # Never
               PROVE  clock' <= IF drainEnd = Never THEN begun ELSE drainEnd
    BY DEF OpenInv
  <2>1. PICK k \in Calls : pc[k] # "idle"
    BY DEF DrainInv
  <2>2. turn = Never /\ pc[k] \in {"delay", "turn"}
    BY <2>1 DEF OpenInv
  <2>3. ~DelayOver(k)
    BY <2>2 DEF Waits
  <2> QED BY <2>3 DEF DelayOver
<1>4. MainInv'
  <2>1. pc[Main] \notin {"idle", "done"} => ~Ended(Main)
    BY DEF Waits, DelayOver
  <2> QED BY <1>0, <2>1 DEF MainInv, Ended
<1> QED BY <1>1, <1>2, <1>3, <1>4

\* Requests, probes and Serve do not touch the times of a shutdown.
LEMMA BesideKeeps ==
  ASSUME DInv, UNCHANGED <<clock, drainDelay, grace, begun, drainEnd, lnClosed,
                           callVars, cut>>,
         ready' \in BOOLEAN, begun # Never => ready' = ready
  PROVE  DInv'
<1>1. total' = total
  BY DEF total, Wrap
<1> HIDE DEF total
<1> QED BY <1>1 DEF DInv, TimeOK, DrainInv, OpenInv, LeaveInv, MainInv, DelayKept, Ended,
           callVars

\* Every step of the calls, the requests, the probes and the clock.
LEMMA DelayStep == ASSUME DInv, [Next]_vars PROVE DInv'
<1>1. ASSUME NEW k \in Others, NEW last \in Timeouts \cup {Never}, Shutdown(k, last)
      PROVE  DInv'
  BY <1>1, ShutdownKeeps, GraceAssumption DEF Calls
<1>2. CASE shutdownWithin
  <2>1. total \in Nat
    BY TotalType DEF DInv, TimeOK
  <2> QED BY <1>2, <2>1, ShutdownKeeps DEF shutdownWithin, Calls
<1>3. CASE Tick
  BY <1>3, TickKeeps
<1>4. ASSUME \/ Serve \/ Ready \/ \E r \in Requests : Arrive(r) \/ Finish(r)
             \/ \E ok \in BOOLEAN : run(ok)
             \/ AtHorizon \/ UNCHANGED vars
      PROVE  DInv'
  <2>1. /\ UNCHANGED <<clock, drainDelay, grace, begun, drainEnd, lnClosed, callVars, cut>>
        /\ ready' \in BOOLEAN /\ (begun # Never => ready' = ready)
    BY <1>4 DEF DInv, TimeOK, Serve, Ready, Arrive, Finish, run, AtHorizon, vars, appVars
  <2> QED BY <2>1, BesideKeeps
<1> QED BY <1>1, <1>2, <1>3, <1>4, CallKeeps DEF Next

\* Before any call nothing is timed.
LEMMA DelayInit == ASSUME Init PROVE DInv
  BY GraceAssumption DEF Init, DInv, TimeOK, DrainInv, OpenInv, LeaveInv, MainInv,
     DelayKept, Moment, Calls, Ended

\* The times of a shutdown, the inductive invariant.
THEOREM DelayInvariant == Spec => []DInv
<1>1. Init => DInv
  BY DelayInit
<1>2. DInv /\ [Next]_vars => DInv'
  BY DelayStep
<1> QED BY <1>1, <1>2, PTL DEF Spec

\* The drain delay is kept, a request in flight has grace after the listener was
\* closed, and RunContext's Shutdown lasts no longer than both together.
THEOREM DelayAndGrace == Spec => []DelayThenGrace
<1>1. DInv => DelayThenGrace
  <2> SUFFICES ASSUME DInv PROVE DelayThenGrace
    OBVIOUS
  <2> USE GraceAssumption DEF DInv, TimeOK, Moment, Calls
  <2>1. total \in Nat /\ total <= drainDelay + grace
    BY TotalType
  <2>2. pc[Main] \notin {"idle", "done"} => clock <= began + drainDelay + grace
    BY <2>1 DEF MainInv
  <2>3. ASSUME Main \in cut
        PROVE  clock >= lnClosed + grace \/ clock >= began + MaxInt
    <3>1. lnClosed \in Nat /\ begun \in Nat /\ began \in Nat /\ begun <= began
      BY <2>3 DEF MainInv, OpenInv, DrainInv
    <3>2. lnClosed <= begun + drainDelay
      BY <3>1 DEF DelayKept
    <3>3. clock >= began + total
      BY <2>3 DEF MainInv
    <3> QED BY <3>1, <3>2, <3>3, TotalSaturates
  <2> QED BY <2>2, <2>3 DEF DelayThenGrace
<1> QED BY DelayInvariant, <1>1, PTL
-----------------------------------------------------------------------------
\* Induction, of the membership of a set.
LEMMA SetInduction ==
  ASSUME NEW S, 0 \in S, \A n \in Nat : n \in S => n + 1 \in S
  PROVE  Nat \subseteq S
<1> DEFINE R == OpToRel(<, Nat)
           T == Nat \ S
<1>1. IsWellFoundedOn(R, Nat)
  BY NatLessThanWellFounded
<1>2. \A x, y \in Nat : x < y => <<x, y>> \in R
  BY DEF OpToRel
<1> HIDE DEF R
<1>3. SUFFICES ASSUME T # {} PROVE FALSE
  OBVIOUS
<1>4. PICK x \in T : \A y \in T : ~(<<y, x>> \in R)
  BY <1>1, <1>3, WFMin
<1>5. x # 0 /\ x \in Nat
  OBVIOUS
<1>6. x - 1 \in Nat /\ x - 1 < x
  BY <1>5
<1>7. x - 1 \in S
  BY <1>4, <1>2, <1>5, <1>6
<1> QED BY <1>7, <1>6, <1>5

\* What a check may take is a duration.
LEMMA TimeoutType == \A i \in 1..Len(Checks) : TimeoutOf(i) \in Nat
  BY GraceAssumption DEF TimeoutOf

\* CheckTime's recursion has a solution, which its definition therefore is.
LEMMA CheckTimes ==
  /\ CheckTime \in [0..Len(Checks) -> Nat] /\ CheckTime[0] = 0
  /\ \A i \in 1..Len(Checks) : CheckTime[i] = CheckTime[i - 1] + TimeoutOf(i)
<1> DEFINE N == Len(Checks)
           Up(f, n) == /\ f \in [0..n -> Nat] /\ f[0] = 0
                       /\ \A i \in 1..n : f[i] = f[i - 1] + TimeoutOf(i)
           S == {n \in Nat : n <= N => \E f \in [0..n -> Nat] : Up(f, n)}
           Body(f) == [i \in 0..N |-> IF i = 0 THEN 0 ELSE f[i - 1] + TimeoutOf(i)]
<1>1. N \in Nat
  BY GraceAssumption
<1>2. 0 \in S
  <2> DEFINE z == [i \in 0..0 |-> 0]
  <2>1. \A i \in 0..0 : z[i] = 0
    OBVIOUS
  <2>2. z \in [0..0 -> Nat] /\ z[0] = 0
    BY <2>1
  <2>3. \A i \in 1..0 : FALSE
    OBVIOUS
  <2>4. Up(z, 0)
    BY <2>2, <2>3
  <2> QED BY <2>2, <2>4
<1>3. ASSUME NEW n \in Nat, n \in S PROVE n + 1 \in S
  <2> SUFFICES ASSUME n + 1 <= N PROVE \E f \in [0..(n + 1) -> Nat] : Up(f, n + 1)
    <3> HIDE DEF Up
    <3> QED OBVIOUS
  <2>1. PICK f : Up(f, n)
    BY <1>1, <1>3
  <2>2. TimeoutOf(n + 1) \in Nat
    BY <1>1, TimeoutType
  <2> DEFINE g == [i \in 0..(n + 1) |-> IF i <= n THEN f[i] ELSE f[n] + TimeoutOf(n + 1)]
  <2>3. g \in [0..(n + 1) -> Nat] /\ g[0] = 0
    BY <2>1, <2>2
  <2>4. ASSUME NEW i \in 1..(n + 1) PROVE g[i] = g[i - 1] + TimeoutOf(i)
    <3>1. CASE i <= n
      BY <2>1, <3>1
    <3>2. CASE i = n + 1
      BY <2>1, <3>2
    <3> QED BY <3>1, <3>2
  <2> QED BY <2>3, <2>4
<1>4. N \in S
  <2> HIDE DEF S
  <2> QED BY <1>1, <1>2, <1>3, SetInduction
<1>5. PICK f : Up(f, N)
  BY <1>1, <1>4
<1>6. f = Body(f)
  BY <1>5, <1>1
<1>7. CheckTime = CHOOSE h : h = Body(h)
  BY DEF CheckTime
<1>8. CheckTime = Body(CheckTime)
  BY <1>6, <1>7
<1> DEFINE E == {n \in Nat : n <= N => CheckTime[n] = f[n]}
<1>9. CheckTime[0] = 0 /\ \A i \in 1..N : CheckTime[i] = CheckTime[i - 1] + TimeoutOf(i)
  BY <1>1, <1>8
<1>10. 0 \in E /\ \A n \in Nat : n \in E => n + 1 \in E
  BY <1>1, <1>5, <1>9
<1>11. Nat \subseteq E
  <2> HIDE DEF E
  <2> QED BY <1>10, SetInduction
<1>12. \A n \in 0..N : CheckTime[n] \in Nat
  BY <1>1, <1>5, <1>11
<1>13. CheckTime \in [0..N -> Nat]
  BY <1>8, <1>12
<1> QED BY <1>9, <1>13
-----------------------------------------------------------------------------
\* A probe under way began no later than the drain, and the check it is at began
\* within the timeouts of those before it.
ProbeInv ==
  /\ probe \in [check : 0..Len(Checks), since : Nat, started : Nat]
  /\ probe.check > 0 =>
       /\ probe.since <= probe.started + CheckTime[probe.check - 1]
       /\ probe.started <= clock
       /\ begun # Never => probe.started <= begun

\* The answer just given was a refusal at once, or its probe began no later than
\* the drain and took no longer than the checks' timeouts if it succeeded.
AnswerInv ==
  /\ answer.started \in Nat
  /\ \/ answer.code = 0
     \/ answer.code = 503 /\ answer.checked = 0 /\ clock = answer.started
     \/ /\ answer.started <= clock
        /\ begun # Never => answer.started <= begun
        /\ answer.code = 200 => clock <= answer.started + CheckTime[Len(Checks)]

PInv == ProbeInv /\ AnswerInv

\* The drain begins now, or has begun.
LEMMA BegunStep ==
  ASSUME DInv, [Next]_vars
  PROVE  begun' = begun \/ (begun = Never /\ begun' = clock /\ clock' = clock)
  BY DEF Next, vars, Serve, shutdownWithin, Shutdown, drain, Ready, Tick, AtHorizon,
     EndDelay, TakeTurn, TurnTimeout, Drained, CutOff, Arrive, Finish, run, appVars

\* A probe begins: the App decides first.
LEMMA ReadyKeeps == ASSUME DInv, PInv, Ready PROVE PInv'
<1> USE GraceAssumption, CheckTimes DEF DInv, TimeOK, Moment
<1>1. UNCHANGED <<clock, begun>>
  BY DEF Ready, appVars
<1>2. CASE ~ready
  <2>1. probe' = NoProbe /\ answer' = [code |-> 503, started |-> clock, checked |-> 0]
    BY <1>2 DEF Ready, Answer
  <2> QED BY <1>1, <2>1 DEF PInv, ProbeInv, AnswerInv, NoProbe
<1>3. CASE ready /\ Checks = <<>>
  <2>1. probe' = NoProbe /\ answer' = [code |-> 200, started |-> clock, checked |-> 0]
    BY <1>3 DEF Ready, Answer
  <2>2. begun = Never
    BY <1>3 DEF DrainInv
  <2>3. CheckTime[Len(Checks)] \in Nat
    OBVIOUS
  <2> QED BY <1>1, <2>1, <2>2, <2>3 DEF PInv, ProbeInv, AnswerInv, NoProbe
<1>4. CASE ready /\ Checks # <<>>
  <2>1. probe' = [check |-> 1, since |-> clock, started |-> clock] /\ answer' = answer
    BY <1>4 DEF Ready
  <2>2. begun = Never /\ Len(Checks) >= 1 /\ Len(Checks) \in Nat
    BY <1>4 DEF DrainInv
  <2>3. ProbeInv'
    BY <1>1, <2>1, <2>2 DEF ProbeInv
  <2> QED BY <1>1, <2>1, <2>3 DEF PInv, AnswerInv
<1> QED BY <1>2, <1>3, <1>4

\* A check returns, in time or not.
LEMMA RunKeeps == ASSUME DInv, PInv, NEW ok \in BOOLEAN, run(ok) PROVE PInv'
<1> USE GraceAssumption DEF DInv, TimeOK, Moment
<1> DEFINE i == probe.check
           N == Len(Checks)
<1>1. UNCHANGED <<clock, begun>>
  BY DEF run, appVars
<1>2. /\ N \in Nat /\ i \in 1..N /\ probe.since \in Nat /\ probe.started \in Nat
      /\ probe \in [check : 0..N, since : Nat, started : Nat]
  BY DEF run, PInv, ProbeInv
<1>3. /\ CheckTime[N] \in Nat /\ CheckTime[i] \in Nat /\ CheckTime[i - 1] \in Nat
      /\ TimeoutOf(i) \in Nat /\ CheckTime[i] = CheckTime[i - 1] + TimeoutOf(i)
  <2>1. 0 <= i - 1 /\ i - 1 \in 0..N /\ i \in 0..N /\ N \in 0..N
    BY <1>2
  <2>2. \A n \in 0..N : CheckTime[n] \in Nat
    BY CheckTimes
  <2>3. TimeoutOf(i) \in Nat
    BY <1>2, TimeoutType
  <2>4. CheckTime[i] = CheckTime[i - 1] + TimeoutOf(i)
    BY <1>2, CheckTimes
  <2> HIDE DEF i, N
  <2> QED BY <2>1, <2>2, <2>3, <2>4
<1>4. /\ probe.since <= probe.started + CheckTime[i - 1]
      /\ probe.started <= clock /\ (begun # Never => probe.started <= begun)
  BY <1>2 DEF PInv, ProbeInv
<1>5. PICK passed \in BOOLEAN :
        /\ passed => clock <= probe.since + TimeoutOf(i)
        /\ CASE ~passed -> Answer(503, probe.started, i)
             [] passed /\ i = N -> Answer(200, probe.started, i)
             [] OTHER -> /\ probe' = [probe EXCEPT !.check = @ + 1, !.since = clock]
                         /\ UNCHANGED answer
  BY DEF run
<1>6. passed => clock <= probe.started + CheckTime[i]
  <2> HIDE DEF i, N
  <2>1. SUFFICES ASSUME passed PROVE clock <= probe.started + CheckTime[i]
    OBVIOUS
  <2>2. clock <= probe.since + TimeoutOf(i)
    BY <1>5, <2>1
  <2> QED BY <1>2, <1>3, <1>4, <2>2, SMTT(30)
<1>7. CASE ~passed
  <2>1. probe' = NoProbe /\ answer' = [code |-> 503, started |-> probe.started, checked |-> i]
    BY <1>5, <1>7 DEF Answer
  <2> QED BY <1>1, <1>2, <1>4, <2>1 DEF PInv, ProbeInv, AnswerInv, NoProbe
<1>8. CASE passed /\ i = N
  <2>1. probe' = NoProbe /\ answer' = [code |-> 200, started |-> probe.started, checked |-> i]
    BY <1>5, <1>8 DEF Answer
  <2>2. clock <= probe.started + CheckTime[N]
    BY <1>6, <1>8
  <2> QED BY <1>1, <1>2, <1>4, <2>1, <2>2 DEF PInv, ProbeInv, AnswerInv, NoProbe
<1>9. CASE passed /\ i # N
  <2>1. probe' = [probe EXCEPT !.check = @ + 1, !.since = clock] /\ answer' = answer
    BY <1>5, <1>9
  <2>2. probe'.check = i + 1 /\ probe'.since = clock /\ probe'.started = probe.started
    BY <1>2, <2>1
  <2>3. probe' \in [check : 0..N, since : Nat, started : Nat]
    <3>1. i + 1 \in 0..N
      BY <1>2, <1>9
    <3> HIDE DEF N
    <3> QED BY <1>2, <2>1, <3>1
  <2>4. ProbeInv'
    BY <1>1, <1>2, <1>4, <1>6, <1>9, <2>2, <2>3 DEF ProbeInv
  <2> QED BY <1>1, <2>1, <2>4 DEF PInv, AnswerInv
<1> QED BY <1>7, <1>8, <1>9

\* Whatever else happens, a probe only sees time pass or the drain begin.
LEMMA OtherKeeps ==
  ASSUME DInv, PInv, probe' = probe,
         begun' = begun \/ (begun = Never /\ begun' = clock),
         \/ clock' = clock /\ answer' = answer
         \/ clock' = clock + 1 /\ begun' = begun /\ answer' = NoAnswer
  PROVE  PInv'
<1> USE GraceAssumption, CheckTimes DEF DInv, TimeOK, Moment
<1>1. ProbeInv'
  BY DEF PInv, ProbeInv
<1>2. AnswerInv'
  BY DEF PInv, AnswerInv, NoAnswer
<1> QED BY <1>1, <1>2 DEF PInv

\* Every step keeps the bounds on the probe and on its answer.
LEMMA ProbeStep == ASSUME DInv, PInv, [Next]_vars PROVE PInv'
<1>1. CASE Ready
  BY <1>1, ReadyKeeps
<1>2. CASE \E ok \in BOOLEAN : run(ok)
  BY <1>2, RunKeeps
<1>3. CASE Tick
  BY <1>3, OtherKeeps DEF Tick, appVars
<1>4. CASE ~Ready /\ ~(\E ok \in BOOLEAN : run(ok)) /\ ~Tick
  <2>1. UNCHANGED <<clock, probe, answer>>
    BY <1>4 DEF Next, vars, Serve, shutdownWithin, Shutdown, AtHorizon, EndDelay,
       TakeTurn, TurnTimeout, Drained, CutOff, Arrive, Finish, probeVars
  <2> QED BY <2>1, BegunStep, OtherKeeps
<1> QED BY <1>1, <1>2, <1>3, <1>4

\* A probe that began after the drain is refused at once, and one under way
\* succeeds within the timeouts of its checks, however many there are.
THEOREM DrainIsSeen == Spec => []ProbesSeeDrain
<1>1. Init => PInv
  BY GraceAssumption, CheckTimes
     DEF Init, PInv, ProbeInv, AnswerInv, NoProbe, NoAnswer
<1>2. DInv /\ PInv /\ [Next]_vars => PInv'
  BY ProbeStep
<1>3. DInv /\ PInv => ProbesSeeDrain
  <2> SUFFICES ASSUME DInv, PInv, answer.code # 0, begun # Never
               PROVE  ProbesSeeDrain
    BY DEF ProbesSeeDrain
  <2>1. begun \in Nat /\ clock \in Nat /\ answer.started \in Nat
    BY DEF DInv, TimeOK, Moment, PInv, AnswerInv
  <2>2. CheckTime[Len(Checks)] \in Nat
    BY GraceAssumption, CheckTimes
  <2> QED BY <2>1, <2>2 DEF PInv, AnswerInv, ProbesSeeDrain
<1> QED BY DelayInvariant, <1>1, <1>2, <1>3, PTL DEF Spec
=============================================================================
