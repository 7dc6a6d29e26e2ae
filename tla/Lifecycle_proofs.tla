------------------------- MODULE Lifecycle_proofs -------------------------
(***************************************************************************)
(* The life of an App, for any number of Serve and Shutdown calls,         *)
(* connections and hooks.                                                  *)
(*                                                                         *)
(* Nothing is served after Shutdown returns.  The property is not          *)
(* inductive: a Shutdown returns because of what its two drains and its    *)
(* closeConns did steps earlier.  IInv adds what each of them has          *)
(* established by the time the next one starts.                            *)
(*                                                                         *)
(* How a shutdown ends.  The OnShutdown hooks run once, in reverse order,  *)
(* and a Shutdown that was not cut off returns after them.  What the App   *)
(* tells the world is true: Ready while it serves and only then, a         *)
(* Shutdown's error says what the shutdown did, and a handler's context is *)
(* cancelled before its connection is closed under it.                     *)
(*                                                                         *)
(* Lifecycle implements GracefulStop.                                      *)
(*                                                                         *)
(* RunContext returns torn down.  Beside its own steps it only makes calls *)
(* that Lifecycle describes, so every behaviour with it is one of          *)
(* Lifecycle and all that was proved there holds here too.                 *)
(***************************************************************************)
EXTENDS RunContext, LifecycleRefinement, TLAPS

\* A call that has its turn, and a call whose drain timed out in its turn, hold
\* shutdownSem.
HoldsTurn == {"swc1", "poll1", "wait1", "closeLn", "swc2", "poll2", "wait2",
              "hooks", "inHooks", "release"}
Cutting == {"flag", "cancelBase", "closeEach"}
TurnInv ==
  \A k \in Callers : /\ kpc[k] \in HoldsTurn => sem = k
                     /\ sem = k => kpc[k] \in HoldsTurn \cup Cutting

\* At most one Serve is past its first critical section, and the listener being
\* served is the published one.
Active == {"starting", "publish", "recording", "accepting", "unready", "unserve"}
ServeInv ==
  /\ \A s \in Serves : spc[s] \in Active => serving
  /\ \A s, t \in Serves : spc[s] \in Active /\ spc[t] \in Active => s = t
  /\ \A s \in Serves : spc[s] \in {"recording", "accepting"} => ln = s

\* A Shutdown that has begun has stopped further publishing, so the listener it
\* read is the last one.
CallInv ==
  \A k \in Callers : /\ kpc[k] # "idle" => closed /\ kln[k] = ln
                     /\ kpc[k] = "closeLn" => kln[k] # NoLn

\* fasthttp accepts on listeners it has recorded, or has closed since.
RecordInv == \A s \in Serves : spc[s] = "accepting" => s \in fhLns \cup closedLns

\* In the second drain a listener not recorded yet is closed already.
WindowInv ==
  \A k \in Callers : kpc[k] \in {"swc2", "poll2", "wait2"} =>
     \A s \in Serves : spc[s] = "recording" => s \in closedLns

\* Every connection being served is in the table, or closed.
TrackInv == Live \subseteq conns

\* A force-close still going on has every live connection in its copy, and no
\* connection has become live since it took it.
CutInv ==
  \A k \in Callers : kpc[k] \in {"cancelBase", "closeEach"} =>
     forceClosed /\ Live \subseteq copy[k]

\* A connection whose listener fasthttp has forgotten is being drained or cut off
\* by the call whose turn it is, or was cut off before.
DrainingTurn == \E k \in Callers : sem = k /\ (Draining(k) \/ kpc[k] \in Cutting)
OrphanInv ==
  \A c \in Conns : Counted(c) /\ from[c] \notin fhLns =>
     DrainingTurn \/ (forceClosed /\ c \notin Live)

\* Drained: no connection is open and none can be accepted.  Otherwise every
\* connection was cut off, and later ones are closed on arrival.
Drained == /\ closed
           /\ \A s \in Serves : spc[s] \in {"recording", "accepting"} => s \in closedLns
           /\ \A c \in Conns : ~Counted(c)
Stopped == Drained \/ (forceClosed /\ Live = {})
Past == {"hooks", "inHooks", "release", "ret"}
StopInv ==
  /\ \A k \in Callers : kpc[k] \in Past => Stopped \/ CloseFailed(k)
  /\ hooksStarted => Stopped \/ \E k \in Callers : CloseFailed(k)

\* A close error ends the first drain, and Shutdown goes on to the hooks with it.
CloseErrInv == \A k \in Callers : CloseFailed(k) => kpc[k] \in Past

CallsInv == TurnInv /\ ServeInv /\ CallInv /\ RecordInv /\ WindowInv /\ CloseErrInv
ConnsInv == TrackInv /\ CutInv /\ OrphanInv /\ StopInv
IInv == TypeOK /\ CallsInv /\ ConnsInv

\* Every step of Serve, Shutdown and the connections keeps the types.
LEMMA TypeStep == ASSUME IInv, [Next]_vars PROVE FlagsOK' /\ DataOK'
<1> USE DEF IInv, TypeOK, FlagsOK, DataOK, CallsInv, CallInv, ServePC, ShutPC, ConnST,
            LnErrs, Errs, appVars, connVars, hookVars, srvVars,
            shutVars, fhVars, sockVars
<1>1. ASSUME NEW s \in Serves, ServeCall(s) PROVE FlagsOK' /\ DataOK'
  <2>1. FlagsOK'
    BY <1>1 DEF ServeCall
  <2>2. DataOK'
    BY <1>1 DEF ServeCall
  <2> QED BY <2>1, <2>2
<1>2. ASSUME NEW s \in Serves, RunStart(s) PROVE FlagsOK' /\ DataOK'
  <2>1. FlagsOK'
    BY <1>2 DEF RunStart
  <2>2. DataOK'
    BY <1>2 DEF RunStart
  <2> QED BY <2>1, <2>2
<1>3. ASSUME NEW s \in Serves, Publish(s) PROVE FlagsOK' /\ DataOK'
  <2>1. FlagsOK'
    BY <1>3 DEF Publish
  <2>2. DataOK'
    BY <1>3 DEF Publish
  <2> QED BY <2>1, <2>2
<1>4. ASSUME NEW s \in Serves, Unready(s) PROVE FlagsOK' /\ DataOK'
  <2>1. FlagsOK'
    BY <1>4 DEF Unready
  <2>2. DataOK'
    BY <1>4 DEF Unready
  <2> QED BY <2>1, <2>2
<1>5. ASSUME NEW s \in Serves, Unserve(s) PROVE FlagsOK' /\ DataOK'
  <2>1. FlagsOK'
    BY <1>5 DEF Unserve
  <2>2. DataOK'
    BY <1>5 DEF Unserve
  <2> QED BY <2>1, <2>2
<1>6. ASSUME NEW s \in Serves, FhRecord(s) PROVE FlagsOK' /\ DataOK'
  <2>1. FlagsOK'
    BY <1>6 DEF FhRecord, FhStop, Draining
  <2>2. DataOK'
    BY <1>6 DEF FhRecord, FhStop, Draining
  <2> QED BY <2>1, <2>2
<1>7. ASSUME NEW s \in Serves, AcceptFails(s) PROVE FlagsOK' /\ DataOK'
  <2>1. FlagsOK'
    BY <1>7 DEF AcceptFails, Reporting
  <2>2. DataOK'
    BY <1>7 DEF AcceptFails, Reporting
  <2> QED BY <2>1, <2>2
<1>8. ASSUME NEW s \in Serves, NEW c \in Conns, Accept(s, c) PROVE FlagsOK' /\ DataOK'
  <2>1. FlagsOK'
    BY <1>8 DEF Accept, Reporting
  <2>2. DataOK'
    BY <1>8 DEF Accept, Reporting
  <2> QED BY <2>1, <2>2
<1>9. ASSUME NEW c \in Conns, ConnStateNew(c) PROVE FlagsOK' /\ DataOK'
  <2>1. FlagsOK'
    BY <1>9 DEF ConnStateNew
  <2>2. DataOK'
    BY <1>9 DEF ConnStateNew
  <2> QED BY <2>1, <2>2
<1>10. ASSUME NEW c \in Conns, Request(c) PROVE FlagsOK' /\ DataOK'
  <2>1. FlagsOK'
    BY <1>10 DEF Request
  <2>2. DataOK'
    BY <1>10 DEF Request
  <2> QED BY <2>1, <2>2
<1>11. ASSUME NEW c \in Conns, StreamStarts(c) PROVE FlagsOK' /\ DataOK'
  <2>1. FlagsOK'
    BY <1>11 DEF StreamStarts
  <2>2. DataOK'
    BY <1>11 DEF StreamStarts
  <2> QED BY <2>1, <2>2
<1>12. ASSUME NEW c \in Conns, HandlerReturns(c) PROVE FlagsOK' /\ DataOK'
  <2>1. FlagsOK'
    BY <1>12 DEF HandlerReturns, Answer, FhStop, Draining
  <2>2. DataOK'
    BY <1>12 DEF HandlerReturns, Answer, FhStop, Draining
  <2> QED BY <2>1, <2>2
<1>13. ASSUME NEW c \in Conns, StreamEnds(c) PROVE FlagsOK' /\ DataOK'
  <2>1. FlagsOK'
    BY <1>13 DEF StreamEnds, Answer, FhStop, Draining
  <2>2. DataOK'
    BY <1>13 DEF StreamEnds, Answer, FhStop, Draining
  <2> QED BY <2>1, <2>2
<1>14. ASSUME NEW c \in Conns, ClientCloses(c) PROVE FlagsOK' /\ DataOK'
  <2>1. FlagsOK'
    BY <1>14 DEF ClientCloses
  <2>2. DataOK'
    BY <1>14 DEF ClientCloses
  <2> QED BY <2>1, <2>2
<1>15. ASSUME NEW c \in Conns, ReadFails(c) PROVE FlagsOK' /\ DataOK'
  <2>1. FlagsOK'
    BY <1>15 DEF ReadFails
  <2>2. DataOK'
    BY <1>15 DEF ReadFails
  <2> QED BY <2>1, <2>2
<1>16. ASSUME NEW c \in Conns, Uncount(c) PROVE FlagsOK' /\ DataOK'
  <2>1. FlagsOK'
    BY <1>16 DEF Uncount
  <2>2. DataOK'
    BY <1>16 DEF Uncount
  <2> QED BY <2>1, <2>2
<1>17. ASSUME NEW c \in Conns, ConnStateClosed(c) PROVE FlagsOK' /\ DataOK'
  <2>1. FlagsOK'
    BY <1>17 DEF ConnStateClosed
  <2>2. DataOK'
    BY <1>17 DEF ConnStateClosed
  <2> QED BY <2>1, <2>2
<1>18. ASSUME NEW k \in Callers, CtxEnds(k) PROVE FlagsOK' /\ DataOK'
  <2>1. FlagsOK'
    BY <1>18 DEF CtxEnds
  <2>2. DataOK'
    BY <1>18 DEF CtxEnds
  <2> QED BY <2>1, <2>2
<1>19. ASSUME NEW k \in Callers, ShutdownCall(k) PROVE FlagsOK' /\ DataOK'
  <2>1. FlagsOK'
    BY <1>19 DEF ShutdownCall, To
  <2>2. DataOK'
    BY <1>19 DEF ShutdownCall, To
  <2> QED BY <2>1, <2>2
<1>20. ASSUME NEW k \in Callers, CancelStreams(k) PROVE FlagsOK' /\ DataOK'
  <2>1. FlagsOK'
    BY <1>20 DEF CancelStreams, To
  <2>2. DataOK'
    BY <1>20 DEF CancelStreams, To
  <2> QED BY <2>1, <2>2
<1>21. ASSUME NEW k \in Callers, DrainOnce(k) PROVE FlagsOK' /\ DataOK'
  <2>1. FlagsOK'
    BY <1>21 DEF DrainOnce, To
  <2>2. DataOK'
    BY <1>21 DEF DrainOnce, To
  <2> QED BY <2>1, <2>2
<1>22. ASSUME NEW k \in Callers, DrainWait(k) PROVE FlagsOK' /\ DataOK'
  <2>1. FlagsOK'
    BY <1>22 DEF DrainWait, To
  <2>2. DataOK'
    BY <1>22 DEF DrainWait, To
  <2> QED BY <2>1, <2>2
<1>23. ASSUME NEW k \in Callers, Turn(k) PROVE FlagsOK' /\ DataOK'
  <2>1. FlagsOK'
    BY <1>23 DEF Turn, To
  <2>2. DataOK'
    BY <1>23 DEF Turn, To
  <2> QED BY <2>1, <2>2
<1>24. ASSUME NEW k \in Callers, TurnWait(k) PROVE FlagsOK' /\ DataOK'
  <2>1. FlagsOK'
    BY <1>24 DEF TurnWait, To
  <2>2. /\ kerr' \in [Callers -> SUBSET Errs] /\ kpc' \in [Callers -> ShutPC]
        /\ sem' \in Callers \cup {Free}
    BY <1>24 DEF TurnWait, To
  <2>3. DataOK'
    BY <1>24, <2>2 DEF TurnWait
  <2> QED BY <2>1, <2>3
<1>25. ASSUME NEW k \in Callers, Swc1(k) PROVE FlagsOK' /\ DataOK'
  <2>1. FlagsOK'
    BY <1>25 DEF Swc1, SwcStart, CloseResult, AfterSwc1, To
  <2>2. DataOK'
    BY <1>25 DEF Swc1, SwcStart, CloseResult, AfterSwc1, To
  <2> QED BY <2>1, <2>2
<1>26. ASSUME NEW k \in Callers, Poll1(k) PROVE FlagsOK' /\ DataOK'
  <2>1. FlagsOK'
    BY <1>26 DEF Poll1, Poll
  <2>2. PICK e \in SUBSET Errs : kerr' = [kerr EXCEPT ![k] = e] \/ kerr' = kerr
    BY <1>26 DEF Poll1, Poll, IgnoreErrClosed
  <2>3. kpc' \in [Callers -> ShutPC]
    BY <1>26 DEF Poll1, Poll, AfterSwc1, To
  <2>4. DataOK'
    BY <1>26, <2>2, <2>3 DEF Poll1, Poll
  <2> QED BY <2>1, <2>4
<1>27. ASSUME NEW k \in Callers, CloseLn(k) PROVE FlagsOK' /\ DataOK'
  <2>1. FlagsOK'
    BY <1>27 DEF CloseLn
  <2>2. kln[k] \in Serves
    BY <1>27 DEF CloseLn
  <2>3. DataOK'
    BY <1>27, <2>2 DEF CloseLn, To
  <2> QED BY <2>1, <2>3
<1>28. ASSUME NEW k \in Callers, Swc2(k) PROVE FlagsOK' /\ DataOK'
  <2>1. FlagsOK'
    BY <1>28 DEF Swc2, SwcStart, CloseResult, To
  <2>2. DataOK'
    BY <1>28 DEF Swc2, SwcStart, CloseResult, To
  <2> QED BY <2>1, <2>2
<1>29. ASSUME NEW k \in Callers, Poll2(k) PROVE FlagsOK' /\ DataOK'
  <2>1. FlagsOK'
    BY <1>29 DEF Poll2, Poll, FhOpen, To
  <2>2. DataOK'
    BY <1>29 DEF Poll2, Poll, FhOpen, To
  <2> QED BY <2>1, <2>2
<1>30. ASSUME NEW k \in Callers, Tick(k) PROVE FlagsOK' /\ DataOK'
  <2>1. FlagsOK'
    BY <1>30 DEF Tick, To
  <2>2. DataOK'
    BY <1>30 DEF Tick, To
  <2> QED BY <2>1, <2>2
<1>31. ASSUME NEW k \in Callers, SwcTimeout(k) PROVE FlagsOK' /\ DataOK'
  <2>1. FlagsOK'
    BY <1>31 DEF SwcTimeout, To
  <2>2. DataOK'
    BY <1>31 DEF SwcTimeout, To
  <2> QED BY <2>1, <2>2
<1>32. ASSUME NEW k \in Callers, ForceClose(k) PROVE FlagsOK' /\ DataOK'
  <2>1. FlagsOK'
    BY <1>32 DEF ForceClose, To
  <2>2. DataOK'
    BY <1>32 DEF ForceClose, To
  <2> QED BY <2>1, <2>2
<1>33. ASSUME NEW k \in Callers, CancelBase(k) PROVE FlagsOK' /\ DataOK'
  <2>1. FlagsOK'
    BY <1>33 DEF CancelBase, To
  <2>2. DataOK'
    BY <1>33 DEF CancelBase, To
  <2> QED BY <2>1, <2>2
<1>34. ASSUME NEW k \in Callers, CloseEach(k) PROVE FlagsOK' /\ DataOK'
  <2>1. FlagsOK'
    BY <1>34 DEF CloseEach, To
  <2>2. DataOK'
    BY <1>34 DEF CloseEach, To
  <2> QED BY <2>1, <2>2
<1>35. ASSUME NEW k \in Callers, RunShutdown(k) PROVE FlagsOK' /\ DataOK'
  <2>1. FlagsOK'
    BY <1>35 DEF RunShutdown, To
  <2>2. DataOK'
    BY <1>35 DEF RunShutdown, To
  <2> QED BY <2>1, <2>2
<1>36. ASSUME NEW k \in Callers, Hook(k) PROVE FlagsOK' /\ DataOK'
  <2>1. hookLog' \in Seq(1..NHooks)
    <3>1. CASE hookLog' = hookLog
      BY <3>1
    <3>2. CASE hookLog' = Append(hookLog, NHooks - Len(hookLog)) /\ NHooks - Len(hookLog) > 0
      <4>1. NHooks - Len(hookLog) \in 1..NHooks
        BY <3>2, NHooksAssumption
      <4> QED BY <3>2, <4>1
    <3> QED BY <1>36, <3>1, <3>2 DEF Hook
  <2>2. FlagsOK'
    BY <1>36 DEF Hook, To
  <2>3. kerr' \in [Callers -> SUBSET Errs] /\ kpc' \in [Callers -> ShutPC]
    <3>1. PICK e \in SUBSET Errs : kerr' = [kerr EXCEPT ![k] = e] \/ kerr' = kerr
      <4>1. \A failure \in {{}, {"hook"}} : kerr[k] \cup failure \in SUBSET Errs
        OBVIOUS
      <4> QED BY <1>36, <4>1 DEF Hook
    <3>2. kpc' \in [Callers -> ShutPC]
      BY <1>36 DEF Hook, To
    <3> QED BY <3>1, <3>2
  <2>4. DataOK'
    BY <1>36, <2>1, <2>3 DEF Hook
  <2> QED BY <2>2, <2>4
<1>37. ASSUME NEW k \in Callers, Release(k) PROVE FlagsOK' /\ DataOK'
  <2>1. FlagsOK'
    BY <1>37 DEF Release, To
  <2>2. DataOK'
    BY <1>37 DEF Release, To
  <2> QED BY <2>1, <2>2
<1>38. ASSUME DelayPasses PROVE FlagsOK' /\ DataOK'
  <2>1. FlagsOK'
    BY <1>38 DEF DelayPasses
  <2>2. DataOK'
    BY <1>38 DEF DelayPasses
  <2> QED BY <2>1, <2>2
<1>40. ASSUME NEW c \in Conns, FirstByte(c) PROVE FlagsOK' /\ DataOK'
  <2>1. FlagsOK'
    BY <1>40 DEF FirstByte
  <2>2. DataOK'
    BY <1>40 DEF FirstByte
  <2> QED BY <2>1, <2>2
<1>41. ASSUME NEW c \in Conns, ReadTimesOut(c) PROVE FlagsOK' /\ DataOK'
  <2>1. FlagsOK'
    BY <1>41 DEF ReadTimesOut
  <2>2. DataOK'
    BY <1>41 DEF ReadTimesOut
  <2> QED BY <2>1, <2>2
<1>39. CASE UNCHANGED vars
  BY <1>39 DEF vars
<1> QED
  BY <1>1, <1>2, <1>3, <1>4, <1>5, <1>6, <1>7, <1>8, <1>9, <1>10, <1>11,
     <1>12, <1>13, <1>14, <1>15, <1>16, <1>17, <1>18, <1>19, <1>20, <1>21,
     <1>22, <1>23, <1>24, <1>25, <1>26, <1>27, <1>28, <1>29, <1>30, <1>31,
     <1>32, <1>33, <1>34, <1>35, <1>36, <1>37, <1>38, <1>39, <1>40, <1>41 DEF Next,
     Running, ServeStep, ConnStep, ShutdownStep

\* Every step keeps the part of the invariant about the Serve and Shutdown
\* calls and the flags they own.
LEMMA CallsStep == ASSUME IInv, [Next]_vars PROVE CallsInv'
<1> USE FreeAssumption
        DEF IInv, TypeOK, FlagsOK, DataOK, CallsInv, TurnInv, HoldsTurn, Cutting,
            ServeInv, Active, CallInv, RecordInv, WindowInv, CloseErrInv, CloseFailed, Past, ServePC, ShutPC,
            appVars, connVars, hookVars, srvVars,
            shutVars, fhVars, sockVars
<1>1. ASSUME NEW s \in Serves, ServeCall(s) PROVE CallsInv'
  BY <1>1 DEF ServeCall
<1>2. ASSUME NEW s \in Serves, RunStart(s) PROVE CallsInv'
  BY <1>2 DEF RunStart
<1>3. ASSUME NEW s \in Serves, Publish(s) PROVE CallsInv'
  BY <1>3 DEF Publish
<1>4. ASSUME NEW s \in Serves, Unready(s) PROVE CallsInv'
  BY <1>4 DEF Unready
<1>5. ASSUME NEW s \in Serves, Unserve(s) PROVE CallsInv'
  BY <1>5 DEF Unserve
<1>6. ASSUME NEW s \in Serves, FhRecord(s) PROVE CallsInv'
  BY <1>6 DEF FhRecord, FhStop, Draining
<1>7. ASSUME NEW s \in Serves, AcceptFails(s) PROVE CallsInv'
  BY <1>7 DEF AcceptFails, Reporting
<1>8. ASSUME NEW s \in Serves, NEW c \in Conns, Accept(s, c) PROVE CallsInv'
  BY <1>8 DEF Accept, Reporting
<1>9. ASSUME NEW c \in Conns, ConnStateNew(c) PROVE CallsInv'
  BY <1>9 DEF ConnStateNew
<1>10. ASSUME NEW c \in Conns, Request(c) PROVE CallsInv'
  BY <1>10 DEF Request
<1>11. ASSUME NEW c \in Conns, StreamStarts(c) PROVE CallsInv'
  BY <1>11 DEF StreamStarts
<1>12. ASSUME NEW c \in Conns, HandlerReturns(c) PROVE CallsInv'
  BY <1>12 DEF HandlerReturns, Answer, FhStop, Draining
<1>13. ASSUME NEW c \in Conns, StreamEnds(c) PROVE CallsInv'
  BY <1>13 DEF StreamEnds, Answer, FhStop, Draining
<1>14. ASSUME NEW c \in Conns, ClientCloses(c) PROVE CallsInv'
  BY <1>14 DEF ClientCloses
<1>15. ASSUME NEW c \in Conns, ReadFails(c) PROVE CallsInv'
  BY <1>15 DEF ReadFails
<1>16. ASSUME NEW c \in Conns, Uncount(c) PROVE CallsInv'
  BY <1>16 DEF Uncount
<1>17. ASSUME NEW c \in Conns, ConnStateClosed(c) PROVE CallsInv'
  BY <1>17 DEF ConnStateClosed
<1>18. ASSUME NEW k \in Callers, CtxEnds(k) PROVE CallsInv'
  BY <1>18 DEF CtxEnds
<1>19. ASSUME NEW k \in Callers, ShutdownCall(k) PROVE CallsInv'
  BY <1>19 DEF ShutdownCall, To
<1>20. ASSUME NEW k \in Callers, CancelStreams(k) PROVE CallsInv'
  BY <1>20 DEF CancelStreams, To
<1>21. ASSUME NEW k \in Callers, DrainOnce(k) PROVE CallsInv'
  BY <1>21 DEF DrainOnce, To
<1>22. ASSUME NEW k \in Callers, DrainWait(k) PROVE CallsInv'
  BY <1>22 DEF DrainWait, To
<1>23. ASSUME NEW k \in Callers, Turn(k) PROVE CallsInv'
  BY <1>23 DEF Turn, To
<1>24. ASSUME NEW k \in Callers, TurnWait(k) PROVE CallsInv'
  BY <1>24 DEF TurnWait, To
<1>25. ASSUME NEW k \in Callers, Swc1(k) PROVE CallsInv'
  BY <1>25 DEF Swc1, SwcStart, CloseResult, AfterSwc1, To
<1>26. ASSUME NEW k \in Callers, Poll1(k) PROVE CallsInv'
  BY <1>26 DEF Poll1, Poll, AfterSwc1, FhOpen, IgnoreErrClosed, LnErrs, To
<1>27. ASSUME NEW k \in Callers, CloseLn(k) PROVE CallsInv'
  BY <1>27 DEF CloseLn, To
<1>28. ASSUME NEW k \in Callers, Swc2(k) PROVE CallsInv'
  BY <1>28 DEF Swc2, SwcStart, CloseResult, To
<1>29. ASSUME NEW k \in Callers, Poll2(k) PROVE CallsInv'
  BY <1>29 DEF Poll2, Poll, FhOpen, To
<1>30. ASSUME NEW k \in Callers, Tick(k) PROVE CallsInv'
  BY <1>30 DEF Tick, To
<1>31. ASSUME NEW k \in Callers, SwcTimeout(k) PROVE CallsInv'
  BY <1>31 DEF SwcTimeout, To
<1>32. ASSUME NEW k \in Callers, ForceClose(k) PROVE CallsInv'
  BY <1>32 DEF ForceClose, To
<1>33. ASSUME NEW k \in Callers, CancelBase(k) PROVE CallsInv'
  BY <1>33 DEF CancelBase, To
<1>34. ASSUME NEW k \in Callers, CloseEach(k) PROVE CallsInv'
  BY <1>34 DEF CloseEach, To
<1>35. ASSUME NEW k \in Callers, RunShutdown(k) PROVE CallsInv'
  BY <1>35 DEF RunShutdown, To
<1>36. ASSUME NEW k \in Callers, Hook(k) PROVE CallsInv'
  BY <1>36 DEF Hook, To
<1>37. ASSUME NEW k \in Callers, Release(k) PROVE CallsInv'
  BY <1>37 DEF Release, To
<1>38. ASSUME DelayPasses PROVE CallsInv'
  BY <1>38 DEF DelayPasses
<1>40. ASSUME NEW c \in Conns, FirstByte(c) PROVE CallsInv'
  BY <1>40 DEF FirstByte
<1>41. ASSUME NEW c \in Conns, ReadTimesOut(c) PROVE CallsInv'
  BY <1>41 DEF ReadTimesOut
<1>39. CASE UNCHANGED vars
  BY <1>39 DEF vars
<1> QED
  BY <1>1, <1>2, <1>3, <1>4, <1>5, <1>6, <1>7, <1>8, <1>9, <1>10, <1>11,
     <1>12, <1>13, <1>14, <1>15, <1>16, <1>17, <1>18, <1>19, <1>20, <1>21,
     <1>22, <1>23, <1>24, <1>25, <1>26, <1>27, <1>28, <1>29, <1>30, <1>31,
     <1>32, <1>33, <1>34, <1>35, <1>36, <1>37, <1>38, <1>39, <1>40, <1>41 DEF Next,
     Running, ServeStep, ConnStep, ShutdownStep

\* A hook adds to the errors of the call that runs it, and moves that call only.
LEMMA HookEffect ==
  ASSUME IInv, NEW k \in Callers, Hook(k)
  PROVE  /\ kpc[k] = "inHooks" /\ kpc'[k] \in {"inHooks", "release"}
         /\ \A j \in Callers : j # k => kpc'[j] = kpc[j] /\ kerr'[j] = kerr[j]
         /\ kerr[k] \subseteq kerr'[k] /\ kerr'[k] \subseteq kerr[k] \cup {"hook", "panic"}
         /\ kpc'[k] = "inHooks" => shutdownDone' = shutdownDone
         /\ kpc'[k] = "release" => shutdownDone'
         /\ UNCHANGED <<appVars, connVars, sem, hooksStarted, srvVars, ctxDone, kln,
                        copy, fhVars, sockVars>>
<1>1. kpc \in [Callers -> ShutPC] /\ kerr \in [Callers -> SUBSET Errs]
  BY DEF IInv, TypeOK, DataOK
<1>2. kpc[k] = "inHooks" /\ UNCHANGED <<appVars, connVars, sem, hooksStarted, srvVars,
                              ctxDone, kln, copy, fhVars, sockVars>>
  BY DEF Hook
<1>3. \/ kpc' = kpc /\ shutdownDone' = shutdownDone
      \/ kpc' = [kpc EXCEPT ![k] = "release"] /\ shutdownDone'
  BY DEF Hook, To
<1>4. \E e \in SUBSET {"hook", "panic"} : kerr' = [kerr EXCEPT ![k] = kerr[k] \cup e]
  <2>1. CASE kerr' = kerr
    <3>1. kerr' = [kerr EXCEPT ![k] = kerr[k] \cup {}]
      BY <1>1, <2>1
    <3> QED BY <3>1
  <2>2. CASE \E failure \in {{}, {"hook"}} : kerr' = [kerr EXCEPT ![k] = kerr[k] \cup failure]
    BY <2>2
  <2>3. CASE kerr' = [kerr EXCEPT ![k] = kerr[k] \cup {"panic"}]
    BY <2>3
  <2> QED BY <2>1, <2>2, <2>3 DEF Hook
<1>5. \A j \in Callers : j # k => kpc'[j] = kpc[j] /\ kerr'[j] = kerr[j]
  BY <1>1, <1>3, <1>4
<1>6. kerr[k] \subseteq kerr'[k] /\ kerr'[k] \subseteq kerr[k] \cup {"hook", "panic"}
  BY <1>1, <1>4
<1>7. \/ kpc'[k] = "inHooks" /\ shutdownDone' = shutdownDone
      \/ kpc'[k] = "release" /\ shutdownDone'
  BY <1>1, <1>2, <1>3
<1> QED BY <1>2, <1>5, <1>6, <1>7

\* Every step keeps the part of the invariant about the connections: what is
\* tracked, what was cut and what may still be served.
LEMMA ConnsStep == ASSUME IInv, [Next]_vars PROVE ConnsInv'
<1> USE FreeAssumption, NoLnAssumption
        DEF IInv, TypeOK, FlagsOK, DataOK, CallsInv, TurnInv, HoldsTurn, Cutting,
            ServeInv, Active, CallInv, RecordInv, WindowInv, CloseErrInv, CloseFailed, Past, ConnsInv, TrackInv,
            CutInv, OrphanInv, DrainingTurn, Draining, Counted, StopInv, Stopped,
            Drained, Live, ServePC, ShutPC, ConnST, appVars, connVars, hookVars, srvVars,
            shutVars, fhVars, sockVars
<1>1. ASSUME NEW s \in Serves, ServeCall(s) PROVE ConnsInv'
  BY <1>1 DEF ServeCall
<1>2. ASSUME NEW s \in Serves, RunStart(s) PROVE ConnsInv'
  BY <1>2 DEF RunStart
<1>3. ASSUME NEW s \in Serves, Publish(s) PROVE ConnsInv'
  BY <1>3 DEF Publish
<1>4. ASSUME NEW s \in Serves, Unready(s) PROVE ConnsInv'
  BY <1>4 DEF Unready
<1>5. ASSUME NEW s \in Serves, Unserve(s) PROVE ConnsInv'
  BY <1>5 DEF Unserve
<1>6. ASSUME NEW s \in Serves, FhRecord(s) PROVE ConnsInv'
  BY <1>6 DEF FhRecord, FhStop, Draining
<1>7. ASSUME NEW s \in Serves, AcceptFails(s) PROVE ConnsInv'
  BY <1>7 DEF AcceptFails, Reporting
<1>8. ASSUME NEW s \in Serves, NEW c \in Conns, Accept(s, c) PROVE ConnsInv'
  BY <1>8 DEF Accept, Reporting
<1>9. ASSUME NEW c \in Conns, ConnStateNew(c) PROVE ConnsInv'
  BY <1>9 DEF ConnStateNew
<1>10. ASSUME NEW c \in Conns, Request(c) PROVE ConnsInv'
  BY <1>10 DEF Request
<1>11. ASSUME NEW c \in Conns, StreamStarts(c) PROVE ConnsInv'
  BY <1>11 DEF StreamStarts
<1>12. ASSUME NEW c \in Conns, HandlerReturns(c) PROVE ConnsInv'
  BY <1>12 DEF HandlerReturns, Answer, FhStop, Draining
<1>13. ASSUME NEW c \in Conns, StreamEnds(c) PROVE ConnsInv'
  BY <1>13 DEF StreamEnds, Answer, FhStop, Draining
<1>14. ASSUME NEW c \in Conns, ClientCloses(c) PROVE ConnsInv'
  BY <1>14 DEF ClientCloses
<1>15. ASSUME NEW c \in Conns, ReadFails(c) PROVE ConnsInv'
  BY <1>15 DEF ReadFails
<1>16. ASSUME NEW c \in Conns, Uncount(c) PROVE ConnsInv'
  BY <1>16 DEF Uncount
<1>17. ASSUME NEW c \in Conns, ConnStateClosed(c) PROVE ConnsInv'
  BY <1>17 DEF ConnStateClosed
<1>18. ASSUME NEW k \in Callers, CtxEnds(k) PROVE ConnsInv'
  BY <1>18 DEF CtxEnds
<1>19. ASSUME NEW k \in Callers, ShutdownCall(k) PROVE ConnsInv'
  BY <1>19 DEF ShutdownCall, To
<1>20. ASSUME NEW k \in Callers, CancelStreams(k) PROVE ConnsInv'
  BY <1>20 DEF CancelStreams, To
<1>21. ASSUME NEW k \in Callers, DrainOnce(k) PROVE ConnsInv'
  BY <1>21 DEF DrainOnce, To
<1>22. ASSUME NEW k \in Callers, DrainWait(k) PROVE ConnsInv'
  BY <1>22 DEF DrainWait, To
<1>23. ASSUME NEW k \in Callers, Turn(k) PROVE ConnsInv'
  BY <1>23 DEF Turn, To
<1>24. ASSUME NEW k \in Callers, TurnWait(k) PROVE ConnsInv'
  BY <1>24 DEF TurnWait, To
<1>25. ASSUME NEW k \in Callers, Swc1(k) PROVE ConnsInv'
  BY <1>25 DEF Swc1, SwcStart, CloseResult, AfterSwc1, To
<1>26. ASSUME NEW k \in Callers, Poll1(k) PROVE ConnsInv'
  BY <1>26 DEF Poll1, Poll, AfterSwc1, FhOpen, IgnoreErrClosed, LnErrs, To
<1>27. ASSUME NEW k \in Callers, CloseLn(k) PROVE ConnsInv'
  BY <1>27 DEF CloseLn, To
<1>28. ASSUME NEW k \in Callers, Swc2(k) PROVE ConnsInv'
  BY <1>28 DEF Swc2, SwcStart, CloseResult, To
<1>29. ASSUME NEW k \in Callers, Poll2(k) PROVE ConnsInv'
  BY <1>29 DEF Poll2, Poll, FhOpen, To
<1>30. ASSUME NEW k \in Callers, Tick(k) PROVE ConnsInv'
  BY <1>30 DEF Tick, To
<1>31. ASSUME NEW k \in Callers, SwcTimeout(k) PROVE ConnsInv'
  BY <1>31 DEF SwcTimeout, To
<1>32. ASSUME NEW k \in Callers, ForceClose(k) PROVE ConnsInv'
  BY <1>32 DEF ForceClose, To
<1>33. ASSUME NEW k \in Callers, CancelBase(k) PROVE ConnsInv'
  BY <1>33 DEF CancelBase, To
<1>34. ASSUME NEW k \in Callers, CloseEach(k) PROVE ConnsInv'
  <2>1. CASE copy[k] # {}
    <3>1. TrackInv' BY <1>34, <2>1 DEF CloseEach
    <3>2. CutInv' BY <1>34, <2>1 DEF CloseEach
    <3>3. OrphanInv' /\ StopInv' BY <1>34, <2>1 DEF CloseEach
    <3> QED BY <3>1, <3>2, <3>3
  <2>2. CASE copy[k] = {}
    <3>1. TrackInv' BY <1>34, <2>2 DEF CloseEach, To
    <3>2. CutInv' BY <1>34, <2>2 DEF CloseEach, To
    <3>3. OrphanInv' BY <1>34, <2>2 DEF CloseEach, To
    <3>4. StopInv' BY <1>34, <2>2 DEF CloseEach, To
    <3> QED BY <3>1, <3>2, <3>3, <3>4
  <2> QED BY <2>1, <2>2
<1>35. ASSUME NEW k \in Callers, RunShutdown(k) PROVE ConnsInv'
  BY <1>35 DEF RunShutdown, To
<1>36. ASSUME NEW k \in Callers, Hook(k) PROVE ConnsInv'
  <2>1. Stopped' <=> Stopped
    BY <1>36, HookEffect
  <2>2. \A j \in Callers : CloseFailed(j)' <=> CloseFailed(j)
    BY <1>36, HookEffect
  <2>3. StopInv'
    BY <1>36, <2>1, <2>2, HookEffect
  <2>4. TrackInv' /\ CutInv' /\ OrphanInv'
    BY <1>36, HookEffect
  <2> QED BY <2>3, <2>4
<1>37. ASSUME NEW k \in Callers, Release(k) PROVE ConnsInv'
  BY <1>37 DEF Release, To
<1>38. ASSUME DelayPasses PROVE ConnsInv'
  BY <1>38 DEF DelayPasses
<1>40. ASSUME NEW c \in Conns, FirstByte(c) PROVE ConnsInv'
  BY <1>40 DEF FirstByte
<1>41. ASSUME NEW c \in Conns, ReadTimesOut(c) PROVE ConnsInv'
  BY <1>41 DEF ReadTimesOut
<1>39. CASE UNCHANGED vars
  BY <1>39 DEF vars
<1> QED
  BY <1>1, <1>2, <1>3, <1>4, <1>5, <1>6, <1>7, <1>8, <1>9, <1>10, <1>11,
     <1>12, <1>13, <1>14, <1>15, <1>16, <1>17, <1>18, <1>19, <1>20, <1>21,
     <1>22, <1>23, <1>24, <1>25, <1>26, <1>27, <1>28, <1>29, <1>30, <1>31,
     <1>32, <1>33, <1>34, <1>35, <1>36, <1>37, <1>38, <1>39, <1>40, <1>41 DEF Next,
     Running, ServeStep, ConnStep, ShutdownStep

\* A new App satisfies the inductive invariant.
LEMMA InitIInv == ASSUME Init PROVE IInv
<1>1. FlagsOK
  BY DEF Init, FlagsOK
<1>2. DataOK
  BY DEF Init, DataOK, ServePC, ShutPC, ConnST
<1>3. CallsInv
  BY FreeAssumption DEF Init, CallsInv, TurnInv, HoldsTurn, ServeInv, Active,
     CallInv, RecordInv, WindowInv, CloseErrInv, CloseFailed
<1>4. ConnsInv
  BY DEF Init, ConnsInv, TrackInv, CutInv, OrphanInv, Counted, StopInv, Past, Live
<1> QED BY <1>1, <1>2, <1>3, <1>4 DEF IInv, TypeOK

\* The inductive invariant holds in every behaviour of Serve and Shutdown.
THEOREM Inductive == Spec => []IInv
<1>1. IInv /\ [Next]_vars => IInv'
  <2> SUFFICES ASSUME IInv, [Next]_vars PROVE IInv'
    OBVIOUS
  <2>1. TypeOK'
    BY TypeStep DEF TypeOK
  <2> QED BY <2>1, CallsStep, ConnsStep DEF IInv
<1> QED BY InitIInv, <1>1, PTL DEF Spec

\* Every variable of the App, of fasthttp and of the calls keeps its type.
THEOREM TypeCorrect == Spec => []TypeOK
<1>1. IInv => TypeOK
  BY DEF IInv
<1> QED BY Inductive, <1>1, PTL

\* Nothing is served after any Shutdown has returned, other than with the error of
\* closing a listener, whichever other calls are still under way.
THEOREM NothingServed == Spec => []NothingServedAfterShutdown
<1>1. IInv => NothingServedAfterShutdown
  BY DEF IInv, ConnsInv, StopInv, Past, Stopped, Drained, Counted, Live, Returned,
         NothingServedAfterShutdown
<1> QED BY Inductive, <1>1, PTL

\* The OnShutdown hooks run after the drain or the force-close, never before,
\* unless closing a listener failed.
THEOREM HooksLast == Spec => []HooksAfterDrain
<1>1. IInv => HooksAfterDrain
  BY DEF IInv, ConnsInv, StopInv, Stopped, Drained, Counted, Live,
         HooksAfterDrain
<1> QED BY Inductive, <1>1, PTL
-----------------------------------------------------------------------------
\* Whoever is cutting connections off has seen its ctx end.
CutErrInv == \A k \in Callers : kpc[k] \in Cutting => "ctx" \in kerr[k]

\* One call is in the hooks from their announcement until shutdownDone closes;
\* the call that releases the turn leaves them finished.
HookPcInv ==
  /\ \A k \in Callers : /\ kpc[k] = "inHooks" => hooksStarted /\ ~shutdownDone
                        /\ kpc[k] = "release" => shutdownDone
  /\ hooksStarted /\ ~shutdownDone => \E k \in Callers : kpc[k] = "inHooks"
  /\ ~hooksStarted => ~shutdownDone

\* The hooks that have run are the last ones registered.
HookLogInv == Len(hookLog) <= NHooks /\ hookLog = Prefix(Len(hookLog))

HookInv == CutErrInv /\ HookPcInv /\ ReturnAfterHooks

\* Every step keeps the order of runShutdown relative to a Shutdown's return.
LEMMA HookStep == ASSUME IInv, HookInv, [Next]_vars PROVE HookInv'
<1> USE DEF IInv, TypeOK, FlagsOK, DataOK, CallsInv, TurnInv, HoldsTurn, Cutting,
            HookInv, CutErrInv, HookPcInv, ReturnAfterHooks, Returned, ShutPC,
            appVars, connVars, hookVars, srvVars,
            shutVars, fhVars, sockVars
<1>1. ASSUME NEW k \in Callers, ShutdownCall(k) PROVE HookInv'
  BY <1>1 DEF ShutdownCall, To
<1>2. ASSUME NEW k \in Callers, CancelStreams(k) PROVE HookInv'
  BY <1>2 DEF CancelStreams, To
<1>3. ASSUME NEW k \in Callers, DrainOnce(k) PROVE HookInv'
  BY <1>3 DEF DrainOnce, To
<1>4. ASSUME NEW k \in Callers, DrainWait(k) PROVE HookInv'
  BY <1>4 DEF DrainWait, To
<1>5. ASSUME NEW k \in Callers, Turn(k) PROVE HookInv'
  BY <1>5 DEF Turn, To
<1>6. ASSUME NEW k \in Callers, TurnWait(k) PROVE HookInv'
  BY <1>6, SMTT(30) DEF TurnWait, To
<1>7. ASSUME NEW k \in Callers, Swc1(k) PROVE HookInv'
  BY <1>7 DEF Swc1, SwcStart, CloseResult, AfterSwc1, To
<1>8. ASSUME NEW k \in Callers, Poll1(k) PROVE HookInv'
  BY <1>8 DEF Poll1, Poll, AfterSwc1, FhOpen, IgnoreErrClosed, LnErrs, To
<1>9. ASSUME NEW k \in Callers, CloseLn(k) PROVE HookInv'
  BY <1>9 DEF CloseLn, To
<1>10. ASSUME NEW k \in Callers, Swc2(k) PROVE HookInv'
  BY <1>10 DEF Swc2, SwcStart, CloseResult, To
<1>11. ASSUME NEW k \in Callers, Poll2(k) PROVE HookInv'
  BY <1>11 DEF Poll2, Poll, FhOpen, To
<1>12. ASSUME NEW k \in Callers, Tick(k) PROVE HookInv'
  BY <1>12 DEF Tick, To
<1>13. ASSUME NEW k \in Callers, SwcTimeout(k) PROVE HookInv'
  BY <1>13 DEF SwcTimeout, To
<1>14. ASSUME NEW k \in Callers, ForceClose(k) PROVE HookInv'
  BY <1>14 DEF ForceClose, To
<1>15. ASSUME NEW k \in Callers, CancelBase(k) PROVE HookInv'
  BY <1>15 DEF CancelBase, To
<1>16. ASSUME NEW k \in Callers, CloseEach(k) PROVE HookInv'
  BY <1>16 DEF CloseEach, To
<1>17. ASSUME NEW k \in Callers, RunShutdown(k) PROVE HookInv'
  BY <1>17 DEF RunShutdown, To
<1>18. ASSUME NEW k \in Callers, Hook(k) PROVE HookInv'
  BY <1>18, HookEffect
<1>19. ASSUME NEW k \in Callers, Release(k) PROVE HookInv'
  BY <1>19 DEF Release, To
<1>20. CASE UNCHANGED <<kpc, kerr, hookVars>>
  BY <1>20
<1> QED
  BY <1>1, <1>2, <1>3, <1>4, <1>5, <1>6, <1>7, <1>8, <1>9, <1>10, <1>11,
     <1>12, <1>13, <1>14, <1>15, <1>16, <1>17, <1>18, <1>19, <1>20 DEF Next,
     Running, ServeStep, ConnStep, ShutdownStep, vars, Answer, ServeCall,
     RunStart, Publish, Unready, Unserve, FhRecord, AcceptFails, Accept,
     ConnStateNew, Request, StreamStarts, HandlerReturns, StreamEnds,
     ClientCloses, FirstByte, ReadTimesOut, ReadFails, Uncount, ConnStateClosed, CtxEnds, DelayPasses

\* Every step keeps the log of hooks a prefix of the reverse registration order.
LEMMA HookLogStep == ASSUME IInv, HookLogInv, [Next]_vars PROVE HookLogInv'
<1> USE DEF IInv, TypeOK, DataOK, HookLogInv, Prefix
<1>1. ASSUME NEW k \in Callers, Hook(k) PROVE HookLogInv'
  <2>1. CASE hookLog' = hookLog
    BY <2>1
  <2>2. CASE hookLog' = Append(hookLog, NHooks - Len(hookLog)) /\ NHooks - Len(hookLog) > 0
    <3>1. Len(hookLog) \in Nat /\ Len(hookLog') = Len(hookLog) + 1
      BY <2>2
    <3>2. \A i \in 1..Len(hookLog) : hookLog'[i] = NHooks + 1 - i
      BY <2>2
    <3>3. hookLog'[Len(hookLog')] = NHooks + 1 - Len(hookLog')
      BY <2>2, <3>1, NHooksAssumption
    <3>4. hookLog' = [i \in 1..Len(hookLog') |-> NHooks + 1 - i]
      BY <2>2, <3>1, <3>2, <3>3
    <3> QED BY <2>2, <3>1, <3>4, NHooksAssumption
  <2> QED BY <1>1, <2>1, <2>2 DEF Hook
<1>2. CASE UNCHANGED hookLog
  BY <1>2
<1> QED BY <1>1, <1>2 DEF Next, Running, ServeStep, ConnStep, ShutdownStep, vars,
     appVars, connVars, hookVars, ServeCall, RunStart, Publish, Unready, Unserve, FhRecord, AcceptFails,
     Accept, ConnStateNew, Request, StreamStarts, HandlerReturns,
     StreamEnds, ClientCloses, FirstByte, ReadTimesOut, ReadFails, Uncount, ConnStateClosed,
     CtxEnds, ShutdownCall, CancelStreams, DrainOnce, DrainWait, Turn,
     TurnWait, Swc1, Poll1, CloseLn, Swc2, Poll2, Tick, SwcTimeout,
     ForceClose, CancelBase, CloseEach, RunShutdown, Release,
     DelayPasses, Answer, SwcStart, Poll

\* A new App has run no hook.
LEMMA HookInit == ASSUME Init PROVE HookInv /\ HookLogInv
  BY NHooksAssumption DEF Init, HookInv, CutErrInv, HookPcInv, ReturnAfterHooks,
     Returned, Cutting, HookLogInv, Prefix

\* The hooks' bookkeeping, on top of the inductive invariant.
THEOREM HookInvariant == Spec => [](IInv /\ HookInv /\ HookLogInv)
<1>1. IInv /\ HookInv /\ HookLogInv /\ [Next]_vars => (HookInv /\ HookLogInv)'
  BY HookStep, HookLogStep
<1> QED BY Inductive, HookInit, <1>1, PTL DEF Spec

\* The OnShutdown hooks run once, in reverse order of registration, whichever
\* and however many Shutdown calls reach runShutdown.
THEOREM HooksOnce == Spec => []HooksRunOnceInReverse
<1>1. IInv /\ HookInv /\ HookLogInv => HooksRunOnceInReverse
  BY DEF IInv, CallsInv, TurnInv, HoldsTurn, HookLogInv, HooksRunOnceInReverse
<1> QED BY HookInvariant, <1>1, PTL

\* A Shutdown whose ctx did not cut it off returns after the hooks.
THEOREM AfterHooks == Spec => []ReturnAfterHooks
<1>1. HookInv => ReturnAfterHooks
  BY DEF HookInv
<1> QED BY HookInvariant, <1>1, PTL
-----------------------------------------------------------------------------
\* Nothing drains before a Shutdown has been called, and a Serve publishes its
\* listener in its second critical section, no earlier.
ReadyInv ==
  /\ ReadyIffServing
  /\ draining => closed
  /\ \A s \in Serves : spc[s] \in {"idle", "starting", "publish"} => ln # s

\* A ctx error is joined once ctx has ended, on the way into closeConns; that a
\* listener was closed twice is never joined.
ErrInv ==
  \A k \in Callers :
    /\ "closed" \notin kerr[k]
    /\ "ctx" \in kerr[k] => /\ k \in ctxDone
                            /\ forceClosed \/ kpc[k] = "flag"
\* closeConns closes sockets after cancelBase.
BaseInv == \A k \in Callers : kpc[k] = "closeEach" => baseCancelled

\* Every step keeps Ready equal to what the Serve calls are doing.
LEMMA ReadyStep == ASSUME IInv, ReadyInv, [Next]_vars PROVE ReadyInv'
<1> USE DEF IInv, TypeOK, FlagsOK, DataOK, CallsInv, ServeInv, Active, CallInv,
            ReadyInv, ReadyIffServing, ServePC, ShutPC,
            appVars, connVars, hookVars, srvVars, shutVars, fhVars, sockVars
<1>1. ASSUME NEW s \in Serves, ServeCall(s) PROVE ReadyInv'
  BY <1>1 DEF ServeCall
<1>2. ASSUME NEW s \in Serves, RunStart(s) PROVE ReadyInv'
  BY <1>2 DEF RunStart
<1>3. ASSUME NEW s \in Serves, Publish(s) PROVE ReadyInv'
  BY <1>3 DEF Publish
<1>4. ASSUME NEW s \in Serves, Unready(s) PROVE ReadyInv'
  BY <1>4 DEF Unready
<1>5. ASSUME NEW s \in Serves, Unserve(s) PROVE ReadyInv'
  BY <1>5 DEF Unserve
<1>6. ASSUME NEW s \in Serves, FhRecord(s) PROVE ReadyInv'
  BY <1>6 DEF FhRecord
<1>7. ASSUME NEW s \in Serves, AcceptFails(s) PROVE ReadyInv'
  BY <1>7 DEF AcceptFails
<1>8. ASSUME NEW k \in Callers, ShutdownCall(k) PROVE ReadyInv'
  BY <1>8 DEF ShutdownCall
<1>9. ASSUME NEW k \in Callers, DrainOnce(k) PROVE ReadyInv'
  BY <1>9 DEF DrainOnce
<1>10. CASE UNCHANGED <<closed, ln, ready, draining, spc>>
  BY <1>10
<1> HIDE DEF IInv, ReadyInv
<1>11. ASSUME NEW c \in Conns, ConnStep(c) \/ \E s \in Serves : Accept(s, c) PROVE ReadyInv'
  BY <1>10, <1>11 DEF ConnStep, Accept, ConnStateNew, Request, StreamStarts,
     HandlerReturns, StreamEnds, Answer, ClientCloses, FirstByte, ReadTimesOut, ReadFails, Uncount,
     ConnStateClosed
<1>12. ASSUME NEW k \in Callers, ShutdownStep(k), ~DrainOnce(k) PROVE ReadyInv'
  BY <1>10, <1>12 DEF ShutdownStep, CancelStreams, DrainWait, Turn, TurnWait, Swc1,
     Poll1, CloseLn, Swc2, Poll2, SwcStart, Poll, Tick, SwcTimeout, ForceClose,
     CancelBase, CloseEach, RunShutdown, Hook, Release
<1>13. ASSUME (\E k \in Callers : CtxEnds(k)) \/ DelayPasses \/ UNCHANGED vars PROVE ReadyInv'
  BY <1>10, <1>13 DEF CtxEnds, DelayPasses, vars
<1> QED
  BY <1>1, <1>2, <1>3, <1>4, <1>5, <1>6, <1>7, <1>8, <1>9, <1>11, <1>12, <1>13
     DEF Next, Running, ServeStep

\* Every step keeps the errors of each Shutdown true.
LEMMA ErrStep == ASSUME IInv, ErrInv, BaseInv, [Next]_vars
                 PROVE  ErrInv' /\ BaseInv'
<1> USE DEF IInv, TypeOK, FlagsOK, DataOK, ErrInv, BaseInv, ShutPC, To,
            appVars, connVars, hookVars, srvVars, shutVars, fhVars, sockVars
<1>1. ASSUME NEW k \in Callers, CtxEnds(k) PROVE ErrInv' /\ BaseInv'
  BY <1>1 DEF CtxEnds
<1>2. ASSUME NEW k \in Callers, ShutdownCall(k) PROVE ErrInv' /\ BaseInv'
  BY <1>2 DEF ShutdownCall
<1>3. ASSUME NEW k \in Callers, CancelStreams(k) PROVE ErrInv' /\ BaseInv'
  BY <1>3 DEF CancelStreams
<1>4. ASSUME NEW k \in Callers, DrainOnce(k) PROVE ErrInv' /\ BaseInv'
  BY <1>4 DEF DrainOnce
<1>5. ASSUME NEW k \in Callers, DrainWait(k) PROVE ErrInv' /\ BaseInv'
  BY <1>5 DEF DrainWait
<1>6. ASSUME NEW k \in Callers, Turn(k) PROVE ErrInv' /\ BaseInv'
  BY <1>6 DEF Turn
<1>7. ASSUME NEW k \in Callers, TurnWait(k) PROVE ErrInv' /\ BaseInv'
  <2>1. \A j \in Callers : j # k => kpc'[j] = kpc[j] /\ kerr'[j] = kerr[j]
    BY <1>7 DEF TurnWait
  <2>2. \/ kpc'[k] = "swc1" /\ kerr'[k] = kerr[k]
        \/ kpc'[k] = "flag" /\ kerr'[k] = {"ctx"} /\ k \in ctxDone
    BY <1>7 DEF TurnWait
  <2>3. kpc[k] = "turnWait" /\ UNCHANGED <<ctxDone, forceClosed, baseCancelled>>
    BY <1>7 DEF TurnWait
  <2> QED BY <2>1, <2>2, <2>3
<1>8. ASSUME NEW k \in Callers, Swc1(k) PROVE ErrInv' /\ BaseInv'
  BY <1>8 DEF Swc1, SwcStart, AfterSwc1
<1>9. ASSUME NEW k \in Callers, Poll1(k) PROVE ErrInv' /\ BaseInv'
  BY <1>9 DEF Poll1, Poll, AfterSwc1, IgnoreErrClosed, LnErrs
<1>10. ASSUME NEW k \in Callers, CloseLn(k) PROVE ErrInv' /\ BaseInv'
  BY <1>10 DEF CloseLn
<1>11. ASSUME NEW k \in Callers, Swc2(k) PROVE ErrInv' /\ BaseInv'
  BY <1>11 DEF Swc2, SwcStart
<1>12. ASSUME NEW k \in Callers, Poll2(k) PROVE ErrInv' /\ BaseInv'
  BY <1>12 DEF Poll2, Poll
<1>13. ASSUME NEW k \in Callers, Tick(k) PROVE ErrInv' /\ BaseInv'
  BY <1>13 DEF Tick
<1>14. ASSUME NEW k \in Callers, SwcTimeout(k) PROVE ErrInv' /\ BaseInv'
  BY <1>14 DEF SwcTimeout
<1>15. ASSUME NEW k \in Callers, ForceClose(k) PROVE ErrInv' /\ BaseInv'
  BY <1>15 DEF ForceClose
<1>16. ASSUME NEW k \in Callers, CancelBase(k) PROVE ErrInv' /\ BaseInv'
  BY <1>16 DEF CancelBase
<1>17. ASSUME NEW k \in Callers, CloseEach(k) PROVE ErrInv' /\ BaseInv'
  BY <1>17 DEF CloseEach
<1>18. ASSUME NEW k \in Callers, RunShutdown(k) PROVE ErrInv' /\ BaseInv'
  BY <1>18 DEF RunShutdown
<1>19. ASSUME NEW k \in Callers, Hook(k) PROVE ErrInv' /\ BaseInv'
  BY <1>19, HookEffect
<1>20. ASSUME NEW k \in Callers, Release(k) PROVE ErrInv' /\ BaseInv'
  BY <1>20 DEF Release
<1>21. CASE UNCHANGED <<kpc, kerr, ctxDone, forceClosed, baseCancelled>>
  BY <1>21
<1> QED
  BY <1>1, <1>2, <1>3, <1>4, <1>5, <1>6, <1>7, <1>8, <1>9, <1>10, <1>11,
     <1>12, <1>13, <1>14, <1>15, <1>16, <1>17, <1>18, <1>19, <1>20, <1>21
     DEF Next, Running, ServeStep, ConnStep, ShutdownStep, vars, ServeCall,
     RunStart, Publish, Unready, Unserve, FhRecord, AcceptFails, Accept,
     ConnStateNew, Request, StreamStarts, HandlerReturns, StreamEnds, Answer,
     ClientCloses, FirstByte, ReadTimesOut, ReadFails, Uncount, ConnStateClosed, DelayPasses

\* A new App is not ready, serves nothing and has no error to report.
LEMMA ResultInit == ASSUME Init PROVE ReadyInv /\ ErrInv /\ BaseInv
  BY NoLnAssumption DEF Init, ReadyInv, ReadyIffServing, ErrInv, BaseInv

\* What the App reports, on top of the inductive invariant and the hooks'.
THEOREM ResultInvariant ==
  Spec => [](IInv /\ HookInv /\ ReadyInv /\ ErrInv /\ BaseInv)
<1>1. /\ IInv /\ ReadyInv /\ ErrInv /\ BaseInv
      /\ [Next]_vars
      => ReadyInv' /\ ErrInv' /\ BaseInv'
  BY ReadyStep, ErrStep
<1> QED BY HookInvariant, ResultInit, <1>1, PTL DEF Spec

\* Ready is true exactly while a published listener is being served and no
\* Shutdown has begun to drain, however many Serve calls failed before.
THEOREM ReadyTellsServing == Spec => []ReadyIffServing
<1>1. ReadyInv => ReadyIffServing
  BY DEF ReadyInv
<1> QED BY ResultInvariant, <1>1, PTL

\* What a Shutdown returned tells whether it cut connections off, and without an
\* error of its own everything is closed and the hooks have run.
THEOREM ResultTrue == Spec => []ResultTellsOutcome
<1>1. IInv /\ HookInv /\ ErrInv => ResultTellsOutcome
  BY DEF IInv, ConnsInv, StopInv, Past, CloseFailed, Stopped, Drained, Counted, Live,
         Returned, HookInv, ReturnAfterHooks, ErrInv, ResultTellsOutcome
<1> QED BY ResultInvariant, <1>1, PTL

\* No connection is closed under a running handler or stream before its context
\* was cancelled.
THEOREM CancelledFirst == Spec => CancelledBeforeCutOff
<1>1. IInv /\ BaseInv /\ [Next]_vars
      => [\A c \in sockClosed' \ sockClosed :
            cst[c] \in {"handling", "streaming"} /\ cst'[c] = cst[c] => baseCancelled]_vars
  <2> DEFINE A == \A c \in sockClosed' \ sockClosed :
                    cst[c] \in {"handling", "streaming"} /\ cst'[c] = cst[c] => baseCancelled
  <2> SUFFICES ASSUME IInv, BaseInv, [Next]_vars PROVE A
    OBVIOUS
  <2> USE DEF IInv, TypeOK, DataOK, ConnST, appVars, connVars, hookVars, srvVars,
              shutVars, fhVars, sockVars
  <2>1. ASSUME NEW c \in Conns, ConnStateNew(c) PROVE A
    BY <2>1 DEF ConnStateNew
  <2>2. ASSUME NEW c \in Conns, Answer(c, "handling") \/ Answer(c, "streaming") PROVE A
    BY <2>2 DEF Answer
  <2>3. ASSUME NEW c \in Conns, ClientCloses(c) PROVE A
    BY <2>3 DEF ClientCloses
  <2>7. ASSUME NEW c \in Conns, ReadTimesOut(c) PROVE A
    BY <2>7 DEF ReadTimesOut
  <2>4. ASSUME NEW k \in Callers, Poll1(k) \/ Poll2(k) PROVE A
    BY <2>4 DEF Poll1, Poll2, Poll
  <2>5. ASSUME NEW k \in Callers, CloseEach(k) PROVE A
    BY <2>5 DEF CloseEach, BaseInv
  <2>6. CASE UNCHANGED sockClosed
    BY <2>6
  <2> QED
    BY <2>1, <2>2, <2>3, <2>4, <2>5, <2>6, <2>7 DEF Next, Running, ServeStep,
       ConnStep, ShutdownStep, vars, ServeCall, RunStart, Publish, Unready,
       Unserve, FhRecord, AcceptFails, Accept, Request, StreamStarts,
       HandlerReturns, StreamEnds, FirstByte, ReadFails, Uncount, ConnStateClosed,
       CtxEnds, ShutdownCall, CancelStreams, DrainOnce, DrainWait, Turn,
       TurnWait, Swc1, CloseLn, Swc2, SwcStart, Tick, SwcTimeout, ForceClose,
       CancelBase, RunShutdown, Hook, Release, DelayPasses
<1> QED BY ResultInvariant, <1>1, PTL DEF Spec, CancelledBeforeCutOff
-----------------------------------------------------------------------------
\* What GracefulStop sees of a state.
Seen == <<phaseMap, Live, hooksMap>>

\* A step that only closes connections.
LEMMA Closing ==
  ASSUME TypeOK, Live' \subseteq Live, UNCHANGED <<phaseMap, hooksMap>>
  PROVE  Contract!StopNext
<1> DEFINE C == Live \ Live'
<1>1. C \in SUBSET Conns
  BY DEF Live
<1>2. Contract!Close(C)
  BY DEF Contract!Close
<1> QED BY <1>1, <1>2 DEF Contract!StopNext

\* Every step of the detailed model is a step of the contract or a stutter.
LEMMA ContractStep ==
  ASSUME IInv, IInv', HookInv, HookInv', [Next]_vars
  PROVE  Contract!StopNext \/ UNCHANGED Seen
<1> USE DEF IInv, TypeOK, FlagsOK, DataOK, CallsInv, TurnInv, HoldsTurn, Cutting,
            CallInv, CloseErrInv, CloseFailed, Past, ConnsInv, StopInv, Stopped,
            Drained, Counted, HookInv, HookPcInv, phaseMap, hooksMap, Live, Returned, Seen,
            ServePC, ShutPC, ConnST, appVars, connVars, hookVars, srvVars,
            shutVars, fhVars, sockVars
<1>1. ASSUME NEW s \in Serves, ServeCall(s) PROVE UNCHANGED Seen
  BY <1>1 DEF ServeCall
<1>2. ASSUME NEW s \in Serves, RunStart(s) PROVE UNCHANGED Seen
  BY <1>2 DEF RunStart
<1>3. ASSUME NEW s \in Serves, Publish(s) PROVE UNCHANGED Seen
  BY <1>3 DEF Publish
<1>4. ASSUME NEW s \in Serves, Unready(s) PROVE UNCHANGED Seen
  BY <1>4 DEF Unready
<1>5. ASSUME NEW s \in Serves, Unserve(s) PROVE UNCHANGED Seen
  BY <1>5 DEF Unserve
<1>6. ASSUME NEW s \in Serves, FhRecord(s) PROVE UNCHANGED Seen
  BY <1>6 DEF FhRecord, FhStop, Draining
<1>7. ASSUME NEW s \in Serves, AcceptFails(s) PROVE UNCHANGED Seen
  BY <1>7 DEF AcceptFails, Reporting
<1>8. ASSUME NEW s \in Serves, NEW c \in Conns, Accept(s, c) PROVE UNCHANGED Seen
  BY <1>8 DEF Accept, Reporting
<1>9. ASSUME NEW c \in Conns, ConnStateNew(c) PROVE Contract!StopNext \/ UNCHANGED Seen
  BY <1>9 DEF ConnStateNew, Contract!StopNext, Contract!Open
<1>10. ASSUME NEW c \in Conns, Request(c) PROVE UNCHANGED Seen
  BY <1>10 DEF Request
<1>11. ASSUME NEW c \in Conns, StreamStarts(c) PROVE UNCHANGED Seen
  BY <1>11 DEF StreamStarts
<1>12. ASSUME NEW c \in Conns, HandlerReturns(c) PROVE Contract!StopNext \/ UNCHANGED Seen
  <2>1. Live' \subseteq Live /\ UNCHANGED <<phaseMap, hooksMap>>
    BY <1>12 DEF HandlerReturns, Answer, FhStop, Draining
  <2> QED BY <2>1, Closing
<1>13. ASSUME NEW c \in Conns, StreamEnds(c) PROVE Contract!StopNext \/ UNCHANGED Seen
  <2>1. Live' \subseteq Live /\ UNCHANGED <<phaseMap, hooksMap>>
    BY <1>13 DEF StreamEnds, Answer, FhStop, Draining
  <2> QED BY <2>1, Closing
<1>14. ASSUME NEW c \in Conns, ClientCloses(c) PROVE Contract!StopNext \/ UNCHANGED Seen
  <2>1. Live' \subseteq Live /\ UNCHANGED <<phaseMap, hooksMap>>
    BY <1>14 DEF ClientCloses
  <2> QED BY <2>1, Closing
<1>15. ASSUME NEW c \in Conns, ReadFails(c) PROVE UNCHANGED Seen
  BY <1>15 DEF ReadFails
<1>16. ASSUME NEW c \in Conns, Uncount(c) PROVE UNCHANGED Seen
  BY <1>16 DEF Uncount
<1>17. ASSUME NEW c \in Conns, ConnStateClosed(c) PROVE UNCHANGED Seen
  BY <1>17 DEF ConnStateClosed
<1>18. ASSUME NEW k \in Callers, CtxEnds(k) PROVE UNCHANGED Seen
  BY <1>18 DEF CtxEnds
<1>19. ASSUME NEW k \in Callers, ShutdownCall(k) PROVE Contract!StopNext \/ UNCHANGED Seen
  BY <1>19 DEF ShutdownCall, To, Contract!StopNext, Contract!Begin
<1>20. ASSUME NEW k \in Callers, CancelStreams(k) PROVE UNCHANGED Seen
  BY <1>20 DEF CancelStreams, To
<1>21. ASSUME NEW k \in Callers, DrainOnce(k) PROVE UNCHANGED Seen
  BY <1>21 DEF DrainOnce, To
<1>22. ASSUME NEW k \in Callers, DrainWait(k) PROVE UNCHANGED Seen
  BY <1>22 DEF DrainWait, To
<1>23. ASSUME NEW k \in Callers, Turn(k) PROVE UNCHANGED Seen
  BY <1>23 DEF Turn, To
<1>24. ASSUME NEW k \in Callers, TurnWait(k) PROVE UNCHANGED Seen
  BY <1>24 DEF TurnWait, To
<1>25. ASSUME NEW k \in Callers, Swc1(k) PROVE UNCHANGED Seen
  BY <1>25 DEF Swc1, SwcStart, CloseResult, AfterSwc1, To
<1>26. ASSUME NEW k \in Callers, Poll1(k) PROVE Contract!StopNext \/ UNCHANGED Seen
  <2>1. Live' \subseteq Live /\ UNCHANGED hooksMap
    BY <1>26 DEF Poll1, Poll, AfterSwc1, FhOpen, To
  <2>2. \/ UNCHANGED phaseMap
        \/ phaseMap \in {"stopping", "stopped"} /\ phaseMap' = "failed"
    BY <1>26 DEF Poll1, Poll, AfterSwc1, FhOpen, To
  <2>3. CASE UNCHANGED phaseMap
    BY <2>1, <2>3, Closing
  <2>4. CASE phaseMap \in {"stopping", "stopped"} /\ phaseMap' = "failed"
    BY <2>1, <2>4 DEF Contract!StopNext, Contract!Fail
  <2> QED BY <2>2, <2>3, <2>4
<1>27. ASSUME NEW k \in Callers, CloseLn(k) PROVE UNCHANGED Seen
  BY <1>27 DEF CloseLn, To
<1>28. ASSUME NEW k \in Callers, Swc2(k) PROVE UNCHANGED Seen
  BY <1>28 DEF Swc2, SwcStart, CloseResult, To
<1>29. ASSUME NEW k \in Callers, Poll2(k) PROVE Contract!StopNext \/ UNCHANGED Seen
  <2>1. Live' \subseteq Live /\ UNCHANGED <<phaseMap, hooksMap>>
    BY <1>29 DEF Poll2, Poll, FhOpen, To
  <2> QED BY <2>1, Closing
<1>30. ASSUME NEW k \in Callers, Tick(k) PROVE UNCHANGED Seen
  BY <1>30 DEF Tick, To
<1>31. ASSUME NEW k \in Callers, SwcTimeout(k) PROVE UNCHANGED Seen
  BY <1>31 DEF SwcTimeout, To
<1>32. ASSUME NEW k \in Callers, ForceClose(k) PROVE UNCHANGED Seen
  BY <1>32 DEF ForceClose, To
<1>33. ASSUME NEW k \in Callers, CancelBase(k) PROVE UNCHANGED Seen
  BY <1>33 DEF CancelBase, To
<1>34. ASSUME NEW k \in Callers, CloseEach(k) PROVE Contract!StopNext \/ UNCHANGED Seen
  <2>1. CASE \E c \in copy[k] : /\ sockClosed' = sockClosed \cup {c}
                                 /\ UNCHANGED kpc
    <3>1. Live' \subseteq Live /\ UNCHANGED <<phaseMap, hooksMap>>
      BY <1>34, <2>1 DEF CloseEach
    <3> QED BY <3>1, Closing
  <2>2. CASE copy[k] = {} /\ UNCHANGED sockClosed
    BY <1>34, <2>2 DEF CloseEach, To, Contract!StopNext, Contract!Stop
  <2> QED BY <1>34, <2>1, <2>2 DEF CloseEach
<1>35. ASSUME NEW k \in Callers, RunShutdown(k) PROVE Contract!StopNext \/ UNCHANGED Seen
  BY <1>35 DEF RunShutdown, To, Contract!StopNext, Contract!StartHooks
<1>36. ASSUME NEW k \in Callers, Hook(k) PROVE Contract!StopNext \/ UNCHANGED Seen
  <2>1. UNCHANGED <<phaseMap, Live>>
    <3>1. \A j \in Callers : (CloseFailed(j)' <=> CloseFailed(j)) /\ (Returned(j)' <=> Returned(j))
      BY <1>36, HookEffect
    <3> QED BY <1>36, <3>1, HookEffect
  <2>2. hooksMap' = hooksMap \/ (hooksMap = "running" /\ hooksMap' = "done")
    BY <1>36, HookEffect
  <2> QED BY <2>1, <2>2 DEF Contract!StopNext, Contract!EndHooks
<1>37. ASSUME NEW k \in Callers, Release(k) PROVE Contract!StopNext \/ UNCHANGED Seen
  BY <1>37 DEF Release, To, Contract!StopNext, Contract!Stop
<1>38. ASSUME DelayPasses PROVE UNCHANGED Seen
  BY <1>38 DEF DelayPasses
<1>40. ASSUME NEW c \in Conns, FirstByte(c) PROVE UNCHANGED Seen
  BY <1>40 DEF FirstByte
<1>41. ASSUME NEW c \in Conns, ReadTimesOut(c) PROVE Contract!StopNext \/ UNCHANGED Seen
  <2>1. Live' \subseteq Live /\ UNCHANGED <<phaseMap, hooksMap>>
    BY <1>41 DEF ReadTimesOut
  <2> QED BY <2>1, Closing
<1>39. CASE UNCHANGED vars
  BY <1>39 DEF vars
<1> QED
  BY <1>1, <1>2, <1>3, <1>4, <1>5, <1>6, <1>7, <1>8, <1>9, <1>10, <1>11,
     <1>12, <1>13, <1>14, <1>15, <1>16, <1>17, <1>18, <1>19, <1>20, <1>21,
     <1>22, <1>23, <1>24, <1>25, <1>26, <1>27, <1>28, <1>29, <1>30, <1>31,
     <1>32, <1>33, <1>34, <1>35, <1>36, <1>37, <1>38, <1>39, <1>40, <1>41 DEF Next,
     Running, ServeStep, ConnStep, ShutdownStep

\* The detailed Shutdown keeps GracefulStop's contract.
THEOREM Refinement == Spec => KeepsContract
<1>1. Init => Contract!StopInit
  BY DEF Init, Contract!StopInit, phaseMap, hooksMap, Live, Returned, CloseFailed
<1>2. /\ IInv /\ HookInv /\ HookLogInv /\ (IInv /\ HookInv /\ HookLogInv)'
      /\ [Next]_vars
      => [Contract!StopNext]_(Contract!stopVars)
  BY ContractStep DEF Seen, Contract!stopVars
<1> QED BY HookInvariant, <1>1, <1>2, PTL DEF Spec, KeepsContract, Contract!StopSpec
-----------------------------------------------------------------------------
\* A call that has looked for the turn took it or found it taken, and it is free
\* again only when the hooks have run.
Asked == ShutPC \ {"idle", "cancel", "drain", "drainWait", "turn"}
AskedInv == (\E k \in Callers : kpc[k] \in Asked) => shutdownDone \/ sem # Free

\* What RunContext knows when it is past its selects: Serve failed, or the hooks
\* are finished, or its own Shutdown has returned.
ServeFailed == spc[MainServe] = "done" /\ sres[MainServe] # "nil"
RunInv ==
  /\ rpc \in RunPC
  /\ rpc = "join" => Returned(MainCaller)
  /\ rpc \in {"await", "awaitDone", "leave", "ret"} =>
       ServeFailed \/ shutdownDone \/ Returned(MainCaller)

\* RunContext's own steps leave the App alone, and its calls are calls.
LEMMA RunStep == ASSUME [RCNext]_allVars PROVE [Next]_vars
  BY DEF RCNext, allVars, RCStep, RCCtxEnds, RCTo, Bind, Select, SelectDone,
     OwnShutdown, Join, AwaitRunningHooks, AwaitDone, Leave, Calls, Next

\* An App run by RunContext is an App as Lifecycle describes it.
THEOREM RunsLifecycle == RCSpec => Spec
<1>1. RCInit => Init
  BY DEF RCInit
<1>2. [RCNext]_allVars => [Next]_vars
  BY RunStep
<1> QED BY <1>1, <1>2, PTL DEF RCSpec, Spec

\* Every step keeps the turn taken until the hooks have run.
LEMMA AskedStep == ASSUME IInv, HookInv, AskedInv, [Next]_vars PROVE AskedInv'
<1> USE FreeAssumption DEF IInv, TypeOK, FlagsOK, DataOK, CallsInv, TurnInv, HoldsTurn,
            Cutting, HookInv, HookPcInv, AskedInv, Asked, ShutPC, To,
            appVars, connVars, hookVars, srvVars, shutVars, fhVars, sockVars
<1>1. ASSUME NEW k \in Callers, ShutdownCall(k) PROVE AskedInv'
  BY <1>1 DEF ShutdownCall
<1>2. ASSUME NEW k \in Callers, CancelStreams(k) PROVE AskedInv'
  BY <1>2 DEF CancelStreams
<1>3. ASSUME NEW k \in Callers, DrainOnce(k) PROVE AskedInv'
  BY <1>3 DEF DrainOnce
<1>4. ASSUME NEW k \in Callers, DrainWait(k) PROVE AskedInv'
  BY <1>4 DEF DrainWait
<1>5. ASSUME NEW k \in Callers, Turn(k) PROVE AskedInv'
  BY <1>5 DEF Turn
<1>6. ASSUME NEW k \in Callers, TurnWait(k) PROVE AskedInv'
  BY <1>6 DEF TurnWait
<1>7. ASSUME NEW k \in Callers, Swc1(k) PROVE AskedInv'
  BY <1>7 DEF Swc1, SwcStart
<1>8. ASSUME NEW k \in Callers, Poll1(k) PROVE AskedInv'
  BY <1>8 DEF Poll1, Poll
<1>9. ASSUME NEW k \in Callers, CloseLn(k) PROVE AskedInv'
  BY <1>9 DEF CloseLn
<1>10. ASSUME NEW k \in Callers, Swc2(k) PROVE AskedInv'
  BY <1>10 DEF Swc2, SwcStart
<1>11. ASSUME NEW k \in Callers, Poll2(k) PROVE AskedInv'
  BY <1>11 DEF Poll2, Poll
<1>12. ASSUME NEW k \in Callers, Tick(k) PROVE AskedInv'
  BY <1>12 DEF Tick
<1>13. ASSUME NEW k \in Callers, SwcTimeout(k) PROVE AskedInv'
  BY <1>13 DEF SwcTimeout
<1>14. ASSUME NEW k \in Callers, ForceClose(k) PROVE AskedInv'
  BY <1>14 DEF ForceClose
<1>15. ASSUME NEW k \in Callers, CancelBase(k) PROVE AskedInv'
  BY <1>15 DEF CancelBase
<1>16. ASSUME NEW k \in Callers, CloseEach(k) PROVE AskedInv'
  BY <1>16 DEF CloseEach
<1>17. ASSUME NEW k \in Callers, RunShutdown(k) PROVE AskedInv'
  BY <1>17 DEF RunShutdown
<1>18. ASSUME NEW k \in Callers, Hook(k) PROVE AskedInv'
  BY <1>18 DEF Hook
<1>19. ASSUME NEW k \in Callers, Release(k) PROVE AskedInv'
  BY <1>19 DEF Release
<1>20. CASE UNCHANGED <<kpc, sem, shutdownDone>>
  BY <1>20
<1> QED
  BY <1>1, <1>2, <1>3, <1>4, <1>5, <1>6, <1>7, <1>8, <1>9, <1>10, <1>11,
     <1>12, <1>13, <1>14, <1>15, <1>16, <1>17, <1>18, <1>19, <1>20 DEF Next,
     Running, ServeStep, ConnStep, ShutdownStep, vars, ServeCall, RunStart,
     Publish, Unready, Unserve, FhRecord, AcceptFails, Accept, ConnStateNew,
     Request, StreamStarts, HandlerReturns, StreamEnds, Answer, ClientCloses,
     FirstByte, ReadTimesOut, ReadFails, Uncount, ConnStateClosed, CtxEnds, DelayPasses

\* What a Serve and a Shutdown have returned, and shutdownDone, stay.
LEMMA OutcomesStay ==
  ASSUME IInv, [Next]_vars
  PROVE  /\ \A s \in Serves : spc[s] = "done" => spc'[s] = "done" /\ sres'[s] = sres[s]
         /\ \A k \in Callers : Returned(k) => Returned(k)'
         /\ shutdownDone => shutdownDone'
<1> DEFINE Stay == /\ \A s \in Serves : spc[s] = "done" => spc'[s] = "done" /\ sres'[s] = sres[s]
                   /\ \A k \in Callers : Returned(k) => Returned(k)'
                   /\ shutdownDone => shutdownDone'
<1>1. spc \in [Serves -> ServePC] /\ kpc \in [Callers -> ShutPC]
      /\ DOMAIN sres = Serves
  BY DEF IInv, TypeOK, DataOK
<1> USE DEF Returned, appVars, hookVars, srvVars, shutVars
<1>2. ASSUME NEW s \in Serves, ServeCall(s) \/ ServeStep(s) PROVE Stay
  BY <1>1, <1>2 DEF ServeCall, ServeStep, RunStart, Publish, Unready, Unserve, FhRecord,
     AcceptFails
<1>3. ASSUME NEW c \in Conns, ConnStep(c) \/ \E s \in Serves : Accept(s, c) PROVE Stay
  BY <1>3 DEF ConnStep, Accept, ConnStateNew, Request, StreamStarts, HandlerReturns,
     StreamEnds, Answer, ClientCloses, FirstByte, ReadTimesOut, ReadFails, Uncount, ConnStateClosed
<1>4. ASSUME NEW k \in Callers, ShutdownCall(k) \/ ShutdownStep(k) PROVE Stay
  <2>1. UNCHANGED <<spc, sres>> /\ (shutdownDone => shutdownDone')
    BY <1>4 DEF ShutdownCall, ShutdownStep, CancelStreams, DrainOnce, DrainWait, Turn,
       TurnWait, Swc1, Poll1, CloseLn, Swc2, Poll2, SwcStart, Poll, Tick, SwcTimeout,
       ForceClose, CancelBase, CloseEach, RunShutdown, Hook, Release
  <2>2. kpc[k] # "ret" /\ \A j \in Callers \ {k} : kpc'[j] = kpc[j]
    BY <1>1, <1>4 DEF ShutdownCall, ShutdownStep, CancelStreams, DrainOnce, DrainWait, Turn,
       TurnWait, Swc1, Poll1, CloseLn, Swc2, Poll2, SwcStart, Poll, Tick, SwcTimeout,
       ForceClose, CancelBase, CloseEach, RunShutdown, Hook, Release, To
  <2> QED BY <2>1, <2>2
<1>5. ASSUME (\E k \in Callers : CtxEnds(k)) \/ DelayPasses \/ UNCHANGED vars PROVE Stay
  BY <1>5 DEF CtxEnds, DelayPasses, vars
<1> HIDE DEF Stay
<1>6. Stay
  BY <1>2, <1>3, <1>4, <1>5 DEF Next, Running
<1> QED BY <1>6 DEF Stay

\* Every step of RunContext and beside it keeps what RunContext knows.
LEMMA RunInvStep == ASSUME IInv, RunInv, [RCNext]_allVars PROVE RunInv'
<1> USE MainAssumption DEF RunInv, RunPC, ServeFailed, Returned, RCTo
<1>1. CASE UNCHANGED rpc
  BY <1>1, RunStep, OutcomesStay DEF Returned
<1>2. CASE UNCHANGED vars /\ RCStep
  <2> USE <1>2 DEF vars, appVars, srvVars, shutVars, hookVars
  <2>1. CASE Bind
    BY <2>1 DEF Bind
  <2>2. CASE Select
    BY <2>2 DEF Select
  <2>3. CASE SelectDone
    BY <2>3 DEF SelectDone
  <2>4. CASE OwnShutdown
    BY <2>4 DEF OwnShutdown
  <2>5. CASE Join
    BY <2>5 DEF Join
  <2>6. CASE AwaitRunningHooks
    BY <2>6 DEF AwaitRunningHooks
  <2>7. CASE AwaitDone
    BY <2>7 DEF AwaitDone
  <2>8. CASE Leave
    BY <2>8 DEF Leave
  <2> QED BY <2>1, <2>2, <2>3, <2>4, <2>5, <2>6, <2>7, <2>8 DEF RCStep
<1> QED
  BY <1>1, <1>2 DEF RCNext, RCStep, allVars, rcVars, RCCtxEnds, Bind, Select,
     SelectDone, OwnShutdown, Join, AwaitRunningHooks, AwaitDone, Leave

\* When RunContext returns after a shutdown the hooks have finished, unless its
\* own Shutdown was cut off while another one held the turn.
THEOREM TornDown == RCSpec => []ReturnsTornDown
<1>1. RCInit => RunInv /\ AskedInv
  BY DEF RCInit, Init, RunInv, RunPC, AskedInv, Asked
<1>2. /\ IInv /\ HookInv /\ RunInv /\ AskedInv
      /\ [RCNext]_allVars
      => RunInv' /\ AskedInv'
  BY RunInvStep, AskedStep, RunStep
<1>3. IInv /\ HookInv /\ RunInv /\ AskedInv => ReturnsTornDown
  <2> SUFFICES ASSUME IInv, HookInv, RunInv, AskedInv, rpc = "ret",
                      sres[MainServe] = "nil", ~shutdownDone
               PROVE  CutOff /\ sem \in Callers \ {MainCaller}
    BY DEF ReturnsTornDown
  <2>1. Returned(MainCaller)
    BY DEF RunInv, ServeFailed
  <2>2. CutOff
    BY <2>1, MainAssumption DEF HookInv, ReturnAfterHooks, CutOff
  <2>3. sem # Free /\ sem # MainCaller
    BY <2>1, MainAssumption DEF AskedInv, Asked, ShutPC, Returned, IInv, CallsInv,
       TurnInv, HoldsTurn, Cutting
  <2> QED BY <2>2, <2>3 DEF IInv, TypeOK, DataOK
<1> QED BY HookInvariant, RunsLifecycle, <1>1, <1>2, <1>3, PTL DEF RCSpec
=============================================================================
