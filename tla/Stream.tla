------------------------------- MODULE Stream -------------------------------
(***************************************************************************)
(* One streamed response (stream.go, sse.go): the body writer startStream  *)
(* hands to fasthttp, which runs the callback fn; the heartbeat goroutine; *)
(* and goroutines that fn gave the Stream to, which may go on using it     *)
(* after fn has returned.  All of them write to one bufio.Writer, which    *)
(* fasthttp puts back in a pool as soon as the body writer returns.        *)
(*                                                                         *)
(* What is written is a sequence of pieces: an event is a "head" and a     *)
(* "tail", a heartbeat is "beat", a plain Write is "data".                 *)
(***************************************************************************)
EXTENDS Integers, Sequences

CONSTANTS
  Helpers,    \* goroutines fn hands the Stream to
  Heartbeat,  \* whether the heartbeat interval is positive
  BufSize     \* pieces the bufio.Writer holds before it writes through

CONSTANTS Fn, Beat, Nobody  \* the callback's goroutine, the heartbeat, no goroutine

ASSUME GoroutinesAssumption ==
  /\ Fn \notin Helpers /\ Beat \notin Helpers /\ Fn # Beat
  /\ Nobody \notin Helpers \cup {Fn, Beat}
ASSUME BoundAssumption == Heartbeat \in BOOLEAN /\ BufSize \in Nat \ {0}

Users == Helpers \cup {Fn}
Ops == {"Write", "Flush", "Send"}

VARIABLES
  mu,        \* Stream.mu: its holder
  done,      \* Stream.done
  ctxDone,   \* the stream's context is cancelled
  stop,      \* the App's streamCtx is cancelled: Shutdown has begun
  client,    \* "reads", "stalled" (reads nothing for now) or "gone"
  buf, out,  \* what the bufio.Writer holds, and the last piece it has sent
  werr,      \* bufio.Writer's sticky error
  pooled,    \* fasthttp has the bufio.Writer back
  fpc,       \* the body writer: where it is
  hpc,       \* the heartbeat
  op,        \* op[u]: the Stream method u is in, and its stage
  logged     \* whether the callback's error or panic was logged

vars == <<mu, done, ctxDone, stop, client, buf, out, werr, pooled, fpc, hpc, op, logged>>

NoOp == <<"none", "none">>

Init ==
  /\ mu = Nobody /\ done = FALSE /\ stop \in BOOLEAN /\ ctxDone = stop
  /\ client \in {"reads", "gone"}
  /\ buf = <<>> /\ out = <<>> /\ werr = FALSE /\ pooled = FALSE
  /\ fpc = "fn" /\ hpc = IF Heartbeat THEN "select" ELSE "exited"
  /\ op = [u \in Users |-> NoOp] /\ logged = FALSE

LastOf(b) == IF b = <<>> THEN out ELSE <<b[Len(b)]>>

\* Send b to the client: it blocks while the client reads nothing, and fails,
\* for good, when the client has gone.
Flushed(b) ==
  /\ client # "stalled" \/ b = <<>> \/ werr
  /\ IF werr \/ (client = "gone" /\ b # <<>>)
       THEN werr' = TRUE /\ UNCHANGED <<buf, out>>
       ELSE out' = LastOf(b) /\ buf' = <<>> /\ UNCHANGED werr

\* A write into the buffer; a full buffer is sent first.
Put(piece) ==
  \/ werr /\ UNCHANGED <<buf, out, werr>>
  \/ ~werr /\ Len(buf) < BufSize /\ buf' = Append(buf, piece) /\ UNCHANGED <<out, werr>>
  \/ /\ ~werr /\ Len(buf) >= BufSize /\ client # "stalled"
     /\ IF client = "gone" THEN werr' = TRUE /\ UNCHANGED <<buf, out>>
                           ELSE out' = LastOf(buf) /\ buf' = <<piece>> /\ UNCHANGED werr

(***************************************************************************)
(* Write, Flush and Send                                                   *)
(***************************************************************************)

At(u, stage) == op[u] # NoOp /\ op[u][2] = stage
Stage(u, stage) == op' = [op EXCEPT ![u] = <<op[u][1], stage>>]

Call(u, o) ==
  /\ op[u] = NoOp /\ (u = Fn => fpc = "fn")
  /\ op' = [op EXCEPT ![u] = <<o, "lock">>]
  /\ UNCHANGED <<mu, done, ctxDone, stop, client, buf, out, werr, pooled, fpc, hpc, logged>>

\* Mutant of Lock: done is not looked at.
LockLate(u) ==
  /\ At(u, "lock") /\ mu = Nobody
  /\ mu' = u /\ Stage(u, "locked")
  /\ UNCHANGED <<done, ctxDone, stop, client, buf, out, werr, pooled, fpc, hpc, logged>>

\* s.mu.Lock(), and the check that turns a late caller away.
Lock(u) ==
  /\ At(u, "lock") /\ mu = Nobody
  /\ IF done
       THEN op' = [op EXCEPT ![u] = NoOp] /\ UNCHANGED mu
       ELSE mu' = u /\ Stage(u, "locked")
  /\ UNCHANGED <<done, ctxDone, stop, client, buf, out, werr, pooled, fpc, hpc, logged>>

\* The method's last write under the lock has returned, with an error or without.
Written(u) == Stage(u, IF werr' THEN "unlockErr" ELSE "unlock")

\* The first write under the lock: Write's bytes, or the event's first lines.
Body(u) ==
  /\ At(u, "locked")
  /\ \/ op[u][1] = "Write" /\ Put("data") /\ Written(u)
     \/ op[u][1] = "Send" /\ Put("head") /\ Stage(u, "flush")
  /\ UNCHANGED <<mu, done, ctxDone, stop, client, pooled, fpc, hpc, logged>>

\* The event's last line, and the flush, of Send; the flush of Flush.
FlushOp(u) ==
  /\ \/ At(u, "flush") /\ Flushed(Append(buf, "tail"))
     \/ At(u, "locked") /\ op[u][1] = "Flush" /\ Flushed(buf)
  /\ Written(u)
  /\ UNCHANGED <<mu, done, ctxDone, stop, client, pooled, fpc, hpc, logged>>

\* s.mu.Unlock(): without an error the method is over.
Unlock(u) ==
  /\ \/ At(u, "unlock") /\ op' = [op EXCEPT ![u] = NoOp]
     \/ At(u, "unlockErr") /\ Stage(u, "fail")
  /\ mu' = Nobody
  /\ UNCHANGED <<done, ctxDone, stop, client, buf, out, werr, pooled, fpc, hpc, logged>>

\* fail: the error cancels the stream's context.
Fail(u) ==
  /\ At(u, "fail")
  /\ ctxDone' = TRUE
  /\ op' = [op EXCEPT ![u] = NoOp]
  /\ UNCHANGED <<mu, done, stop, client, buf, out, werr, pooled, fpc, hpc, logged>>

(***************************************************************************)
(* The heartbeat                                                           *)
(***************************************************************************)

\* Mutant of HeartbeatSelect: Done is not in the select.
HeartbeatTicksOn ==
  /\ hpc = "select" /\ hpc' = "lock"
  /\ UNCHANGED <<mu, done, ctxDone, stop, client, buf, out, werr, pooled, fpc, op, logged>>

HeartbeatSelect ==
  /\ hpc = "select"
  /\ \/ ctxDone /\ hpc' = "exited"
     \/ hpc' = "lock"
  /\ UNCHANGED <<mu, done, ctxDone, stop, client, buf, out, werr, pooled, fpc, op, logged>>

\* Mutant of HeartbeatLock: it writes without the lock.
HeartbeatUnlocked ==
  /\ hpc = "lock" /\ hpc' = "write"
  /\ UNCHANGED <<mu, done, ctxDone, stop, client, buf, out, werr, pooled, fpc, op, logged>>

HeartbeatLock ==
  /\ hpc = "lock" /\ mu = Nobody
  /\ mu' = Beat /\ hpc' = "write"
  /\ UNCHANGED <<done, ctxDone, stop, client, buf, out, werr, pooled, fpc, op, logged>>

HeartbeatWrite ==
  /\ hpc = "write"
  /\ Flushed(Append(buf, "beat"))
  /\ hpc' = "unlock"
  /\ UNCHANGED <<mu, done, ctxDone, stop, client, pooled, fpc, op, logged>>

\* Mutant of HeartbeatUnlock: a failed write ends the heartbeat in silence.
HeartbeatGivesUp ==
  /\ hpc = "unlock"
  /\ mu' = Nobody
  /\ hpc' = IF werr THEN "exited" ELSE "select"
  /\ UNCHANGED <<done, ctxDone, stop, client, buf, out, werr, pooled, fpc, op, logged>>

\* Unlock; a failed write cancels the stream and ends the heartbeat.
HeartbeatUnlock ==
  /\ hpc = "unlock"
  /\ mu' = Nobody
  /\ IF werr THEN ctxDone' = TRUE /\ hpc' = "exited"
             ELSE hpc' = "select" /\ UNCHANGED ctxDone
  /\ UNCHANGED <<done, stop, client, buf, out, werr, pooled, fpc, op, logged>>

(***************************************************************************)
(* The body writer: fn returns, and the deferred calls                     *)
(***************************************************************************)

\* fn returns nil or an error, or panics; an error is logged unless the context
\* was cancelled, a panic always is.
FnReturns(how) ==
  /\ fpc = "fn" /\ op[Fn] = NoOp
  /\ fpc' = "cancel"
  /\ logged' = (how = "panic" \/ (how = "error" /\ ~ctxDone))
  /\ UNCHANGED <<mu, done, ctxDone, stop, client, buf, out, werr, pooled, hpc, op>>

Cancel ==
  /\ fpc = "cancel"
  /\ ctxDone' = TRUE /\ fpc' = "wait"
  /\ UNCHANGED <<mu, done, stop, client, buf, out, werr, pooled, hpc, op, logged>>

\* <-hbDone
AwaitHeartbeat ==
  /\ fpc = "wait" /\ hpc = "exited"
  /\ fpc' = "lock"
  /\ UNCHANGED <<mu, done, ctxDone, stop, client, buf, out, werr, pooled, hpc, op, logged>>

RetireLock ==
  /\ fpc = "lock" /\ mu = Nobody
  /\ mu' = Fn /\ fpc' = "flush"
  /\ UNCHANGED <<done, ctxDone, stop, client, buf, out, werr, pooled, hpc, op, logged>>

\* The final flush; then the Stream is retired under the same lock.
Retire ==
  /\ fpc = "flush"
  /\ Flushed(buf)
  /\ done' = TRUE /\ mu' = Nobody
  /\ fpc' = "return"
  /\ UNCHANGED <<ctxDone, stop, client, pooled, hpc, op, logged>>

\* The body writer has returned: fasthttp pools the bufio.Writer.
Pool ==
  /\ fpc = "return"
  /\ pooled' = TRUE /\ fpc' = "over"
  /\ UNCHANGED <<mu, done, ctxDone, stop, client, buf, out, werr, hpc, op, logged>>

(***************************************************************************)
(* The surroundings                                                        *)
(***************************************************************************)

\* Shutdown begins: cancelStreams reaches every stream's context.
ShutdownBegins ==
  /\ ~stop
  /\ stop' = TRUE /\ ctxDone' = TRUE
  /\ UNCHANGED <<mu, done, client, buf, out, werr, pooled, fpc, hpc, op, logged>>

ClientStalls ==
  /\ \/ client = "reads" /\ client' = "stalled"
     \/ client = "stalled" /\ client' = "reads"
  /\ UNCHANGED <<mu, done, ctxDone, stop, buf, out, werr, pooled, fpc, hpc, op, logged>>

\* The client leaves, or a force-close or WriteTimeout takes the connection away.
ClientGone ==
  /\ client # "gone" /\ client' = "gone"
  /\ UNCHANGED <<mu, done, ctxDone, stop, buf, out, werr, pooled, fpc, hpc, op, logged>>

UserStep(u) == Lock(u) \/ Body(u) \/ FlushOp(u) \/ Unlock(u) \/ Fail(u)
BeatStep == HeartbeatSelect \/ HeartbeatLock \/ HeartbeatWrite \/ HeartbeatUnlock
Deferred == Cancel \/ AwaitHeartbeat \/ RetireLock \/ Retire \/ Pool

Next ==
  \/ \E u \in Users : UserStep(u) \/ \E o \in Ops : Call(u, o)
  \/ BeatStep \/ Deferred
  \/ \E how \in {"nil", "error", "panic"} : FnReturns(how)
  \/ ShutdownBegins \/ ClientStalls \/ ClientGone

Spec == Init /\ [][Next]_vars

\* A goroutine inside a Stream method, the heartbeat and the deferred calls go
\* on; the lock is not withheld from one that waits, nor room in the connection
\* from a write while the client goes on reading; the select takes a ready Done;
\* a callback whose context is cancelled returns.  Nothing is assumed of the
\* client.
Fairness ==
  /\ \A u \in Users : SF_vars(UserStep(u))
  /\ SF_vars(BeatStep) /\ SF_vars(HeartbeatSelect /\ hpc' = "exited")
  /\ SF_vars(Deferred)
  /\ SF_vars(ctxDone /\ FnReturns("nil"))

FairSpec == Spec /\ Fairness

(***************************************************************************)
(* Properties                                                              *)
(***************************************************************************)

Pieces == {"data", "head", "tail", "beat"}

\* The lock has one holder at most, the buffer holds pieces.
TypeOK ==
  /\ mu \in Users \cup {Beat, Nobody}
  /\ done \in BOOLEAN /\ ctxDone \in BOOLEAN /\ stop \in BOOLEAN
  /\ client \in {"reads", "stalled", "gone"}
  /\ buf \in Seq(Pieces) /\ out \in Seq(Pieces)
  /\ werr \in BOOLEAN /\ pooled \in BOOLEAN /\ logged \in BOOLEAN
  /\ fpc \in {"fn", "cancel", "wait", "lock", "flush", "return", "over"}
  /\ hpc \in {"select", "lock", "write", "unlock", "exited"}
  /\ op \in [Users -> (Ops \cup {"none"}) \X
                      {"none", "lock", "locked", "flush", "unlock", "unlockErr", "fail"}]

\* "a heartbeat still writing would write into another response": once fasthttp
\* has the bufio.Writer back nobody touches it, however late a goroutine fn gave
\* the Stream to calls.
NoUseAfterPool == [][pooled => UNCHANGED <<buf, out, werr>>]_vars

Sent == out \o buf

\* An event reaches the client in one piece: neither the heartbeat nor another
\* goroutine's write lands between its lines, and the last one is flushed before
\* the writer is pooled, unless the client has gone (Send, Retire, startStream).
EventsWhole ==
  /\ \A i \in 1..Len(Sent) :
       Sent[i] = "head" => IF i < Len(Sent) THEN Sent[i + 1] = "tail"
                           ELSE werr \/ \E u \in Users : At(u, "flush")
  /\ pooled => buf = <<>> \/ werr

\* A stream whose context is cancelled ends, unless its client stalls it for
\* ever: the deferred wait for the heartbeat and for the lock, and the final
\* flush, are held up only as long as the client neither reads nor leaves, and no
\* force-close or WriteTimeout takes the connection away.
CancelledStreamEnds == []<>(client # "stalled") => (ctxDone ~> pooled)

\* "how a client that left is noticed": with a heartbeat, the stream of a client
\* that has gone is cancelled although its callback writes nothing.
DepartureNoticed == (client = "gone" /\ Heartbeat) ~> ctxDone
=============================================================================
