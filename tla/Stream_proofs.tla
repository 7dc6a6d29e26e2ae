--------------------------- MODULE Stream_proofs ---------------------------
(***************************************************************************)
(* Nobody writes into a bufio.Writer that fasthttp has back, and an event  *)
(* reaches the client in one piece, for any number of goroutines that the  *)
(* callback gave the Stream to, with or without a heartbeat and for any    *)
(* size of the buffer.                                                     *)
(***************************************************************************)
EXTENDS Stream, TLAPS

\* u is between Lock and Unlock of a Stream method.
Holds(u) ==
  At(u, "locked") \/ At(u, "flush") \/ At(u, "unlock") \/ At(u, "unlockErr")

\* Stream.mu has the holder it is taken by: a method, the heartbeat or the
\* retirement.
MuInv ==
  /\ \A u \in Users : Holds(u) => mu = u
  /\ hpc \in {"write", "unlock"} => mu = Beat
  /\ fpc = "flush" => mu = Fn

\* The order of the body writer's deferred calls: the callback is out of the
\* Stream's methods, the heartbeat has gone before the Stream is retired, and
\* it is retired before it is pooled; a retired Stream admits no one.
RetireInv ==
  /\ op[Fn] # NoOp => fpc = "fn"
  /\ fpc \in {"lock", "flush", "return", "over"} => hpc = "exited"
  /\ done <=> fpc \in {"return", "over"}
  /\ pooled <=> fpc = "over"
  /\ done => \A u \in Users : ~Holds(u)

\* The events sent so far are whole, but for one that Send has begun.
Whole(s, open) ==
  \A i \in 1..Len(s) : s[i] = "head" => IF i < Len(s) THEN s[i + 1] = "tail" ELSE open
EventInv ==
  /\ Whole(Sent, werr \/ \E u \in Users : At(u, "flush"))
  /\ done => buf = <<>> \/ werr

LInv == TypeOK /\ MuInv /\ RetireInv
IInv == LInv /\ EventInv
-----------------------------------------------------------------------------
\* What a flush of b leaves: the writer failed, or the last piece of b is out.
LEMMA FlushedEffect ==
  ASSUME TypeOK, NEW b \in Seq(Pieces), Flushed(b)
  PROVE  /\ buf' \in Seq(Pieces) /\ out' \in Seq(Pieces) /\ werr' \in BOOLEAN
         /\ \/ werr' /\ UNCHANGED <<buf, out>>
            \/ ~werr /\ ~werr' /\ buf' = <<>> /\ out' = LastOf(b)
<1>1. LastOf(b) \in Seq(Pieces)
  <2>1. CASE b = <<>>
    BY <2>1 DEF LastOf, TypeOK
  <2>2. CASE b # <<>>
    <3>1. Len(b) \in 1..Len(b) /\ b[Len(b)] \in Pieces
      BY <2>2
    <3> QED BY <2>2, <3>1 DEF LastOf
  <2> QED BY <2>1, <2>2
<1>2. CASE werr \/ (client = "gone" /\ b # <<>>)
  BY <1>2 DEF Flushed, TypeOK
<1>3. CASE ~(werr \/ (client = "gone" /\ b # <<>>))
  BY <1>1, <1>3 DEF Flushed, TypeOK
<1> QED BY <1>2, <1>3

\* What a write leaves: the writer failed, or the piece is the last one, after
\* all the buffer held or after the last piece that a full buffer sent.
LEMMA PutEffect ==
  ASSUME TypeOK, NEW piece \in Pieces, Put(piece)
  PROVE  /\ buf' \in Seq(Pieces) /\ out' \in Seq(Pieces) /\ werr' \in BOOLEAN
         /\ \/ werr' /\ UNCHANGED <<buf, out>>
            \/ ~werr /\ ~werr' /\ buf' = Append(buf, piece) /\ UNCHANGED out
            \/ /\ ~werr /\ ~werr' /\ buf # <<>>
               /\ out' = <<buf[Len(buf)]>> /\ buf' = <<piece>>
<1>1. CASE werr
  BY <1>1 DEF Put, TypeOK
<1> USE BoundAssumption
<1>2. CASE ~werr /\ Len(buf) < BufSize
  <2>1. Len(buf) \in Nat /\ ~(Len(buf) >= BufSize)
    BY <1>2 DEF TypeOK
  <2>2. buf' = Append(buf, piece) /\ UNCHANGED <<out, werr>>
    BY <1>2, <2>1 DEF Put
  <2> QED BY <1>2, <2>2 DEF TypeOK
<1>3. CASE ~werr /\ Len(buf) >= BufSize
  <2>1. buf # <<>> /\ Len(buf) \in 1..Len(buf) /\ buf[Len(buf)] \in Pieces
    BY <1>3, BoundAssumption DEF TypeOK
  <2>2. ~(Len(buf) < BufSize)
    BY <1>3 DEF TypeOK
  <2>3. CASE client = "gone"
    BY <1>3, <2>2, <2>3 DEF Put, TypeOK
  <2>4. CASE client # "gone"
    <3>1. out' = <<buf[Len(buf)]>> /\ buf' = <<piece>> /\ UNCHANGED werr
      BY <1>3, <2>1, <2>2, <2>4 DEF Put, LastOf
    <3> QED BY <1>3, <2>1, <3>1 DEF TypeOK
  <2> QED BY <2>3, <2>4
<1> QED BY <1>1, <1>2, <1>3 DEF TypeOK

\* Every step of the goroutines keeps the types.
LEMMA TypeStep == ASSUME TypeOK, [Next]_vars PROVE TypeOK'
<1> USE GoroutinesAssumption DEF TypeOK, Ops, Pieces, NoOp, Stage, At, Users, vars
<1>1. ASSUME NEW u \in Users, NEW o \in Ops, Call(u, o) PROVE TypeOK'
  BY <1>1 DEF Call
<1>2. ASSUME NEW u \in Users, Lock(u) PROVE TypeOK'
  <2>1. op' = [op EXCEPT ![u] = NoOp] \/ op' = [op EXCEPT ![u] = <<op[u][1], "locked">>]
    BY <1>2 DEF Lock
  <2>2. op' \in [Users -> (Ops \cup {"none"}) \X
                       {"none", "lock", "locked", "flush", "unlock", "unlockErr", "fail"}]
    BY <2>1
  <2>3. mu' \in Users \cup {Beat, Nobody}
    BY <1>2 DEF Lock
  <2> QED BY <1>2, <2>2, <2>3 DEF Lock
<1>3. ASSUME NEW u \in Users, Body(u) PROVE TypeOK'
  <2>1. "data" \in Pieces /\ "head" \in Pieces
    OBVIOUS
  <2>2. buf' \in Seq(Pieces) /\ out' \in Seq(Pieces) /\ werr' \in BOOLEAN
    BY <1>3, <2>1, PutEffect DEF Body, Written
  <2> QED BY <1>3, <2>2 DEF Body, Written
<1>4. ASSUME NEW u \in Users, FlushOp(u) PROVE TypeOK'
  <2>1. buf' \in Seq(Pieces) /\ out' \in Seq(Pieces) /\ werr' \in BOOLEAN
    BY <1>4, FlushedEffect, Append(buf, "tail") \in Seq(Pieces) DEF FlushOp, Written
  <2> QED BY <1>4, <2>1 DEF FlushOp, Written
<1>5. ASSUME NEW u \in Users, Unlock(u) PROVE TypeOK'
  BY <1>5 DEF Unlock
<1>6. ASSUME NEW u \in Users, Fail(u) PROVE TypeOK'
  BY <1>6 DEF Fail
<1>7. ASSUME HeartbeatSelect PROVE TypeOK'
  BY <1>7 DEF HeartbeatSelect
<1>8. ASSUME HeartbeatLock PROVE TypeOK'
  BY <1>8 DEF HeartbeatLock
<1>9. ASSUME HeartbeatWrite PROVE TypeOK'
  <2>1. buf' \in Seq(Pieces) /\ out' \in Seq(Pieces) /\ werr' \in BOOLEAN
    BY <1>9, FlushedEffect, Append(buf, "beat") \in Seq(Pieces) DEF HeartbeatWrite
  <2> QED BY <1>9, <2>1 DEF HeartbeatWrite
<1>10. ASSUME HeartbeatUnlock PROVE TypeOK'
  BY <1>10 DEF HeartbeatUnlock
<1>11. ASSUME NEW how, FnReturns(how) PROVE TypeOK'
  BY <1>11 DEF FnReturns
<1>12. ASSUME Cancel PROVE TypeOK'
  BY <1>12 DEF Cancel
<1>13. ASSUME AwaitHeartbeat PROVE TypeOK'
  BY <1>13 DEF AwaitHeartbeat
<1>14. ASSUME RetireLock PROVE TypeOK'
  BY <1>14 DEF RetireLock
<1>15. ASSUME Retire PROVE TypeOK'
  <2>1. buf' \in Seq(Pieces) /\ out' \in Seq(Pieces) /\ werr' \in BOOLEAN
    BY <1>15, FlushedEffect DEF Retire
  <2> QED BY <1>15, <2>1 DEF Retire
<1>16. ASSUME Pool PROVE TypeOK'
  BY <1>16 DEF Pool
<1>17. ASSUME ShutdownBegins PROVE TypeOK'
  BY <1>17 DEF ShutdownBegins
<1>18. ASSUME ClientStalls PROVE TypeOK'
  BY <1>18 DEF ClientStalls
<1>19. ASSUME ClientGone PROVE TypeOK'
  BY <1>19 DEF ClientGone
<1>20. CASE UNCHANGED vars
  BY <1>20
<1> QED
  BY <1>1, <1>2, <1>3, <1>4, <1>5, <1>6, <1>7, <1>8, <1>9, <1>10, <1>11, <1>12, <1>13, <1>14, <1>15, <1>16, <1>17, <1>18, <1>19, <1>20
     DEF Next, UserStep, BeatStep, Deferred

\* Every step keeps the lock with its holder and the deferred calls in order.
LEMMA LockStep == ASSUME LInv, [Next]_vars PROVE MuInv' /\ RetireInv'
<1> USE GoroutinesAssumption DEF LInv, TypeOK, MuInv, RetireInv, Holds, Ops, NoOp,
        Stage, At, Users, vars
<1>1. ASSUME NEW u \in Users, NEW o \in Ops, Call(u, o) PROVE MuInv' /\ RetireInv'
  BY <1>1 DEF Call
<1>2. ASSUME NEW u \in Users, Lock(u) PROVE MuInv' /\ RetireInv'
  BY <1>2, SMTT(30) DEF Lock
<1>3. ASSUME NEW u \in Users, Body(u) PROVE MuInv' /\ RetireInv'
  BY <1>3 DEF Body, Written
<1>4. ASSUME NEW u \in Users, FlushOp(u) PROVE MuInv' /\ RetireInv'
  BY <1>4 DEF FlushOp, Written
<1>5. ASSUME NEW u \in Users, Unlock(u) PROVE MuInv' /\ RetireInv'
  <2>1. Holds(u) /\ mu = u /\ mu' = Nobody
    BY <1>5 DEF Unlock
  <2>2. op[u] # NoOp /\ ~Holds(u)'
    BY <1>5 DEF Unlock
  <2>3. \A v \in Users : v # u => op'[v] = op[v] /\ ~Holds(v)
    BY <1>5, <2>1 DEF Unlock
  <2>4. UNCHANGED <<done, pooled, fpc, hpc>>
    BY <1>5 DEF Unlock
  <2> QED BY <2>1, <2>2, <2>3, <2>4
<1>6. ASSUME NEW u \in Users, Fail(u) PROVE MuInv' /\ RetireInv'
  BY <1>6 DEF Fail
<1>7. ASSUME HeartbeatSelect PROVE MuInv' /\ RetireInv'
  BY <1>7 DEF HeartbeatSelect
<1>8. ASSUME HeartbeatLock PROVE MuInv' /\ RetireInv'
  BY <1>8 DEF HeartbeatLock
<1>9. ASSUME HeartbeatWrite PROVE MuInv' /\ RetireInv'
  BY <1>9 DEF HeartbeatWrite
<1>10. ASSUME HeartbeatUnlock PROVE MuInv' /\ RetireInv'
  BY <1>10 DEF HeartbeatUnlock
<1>11. ASSUME NEW how, FnReturns(how) PROVE MuInv' /\ RetireInv'
  BY <1>11 DEF FnReturns
<1>12. ASSUME Cancel PROVE MuInv' /\ RetireInv'
  BY <1>12 DEF Cancel
<1>13. ASSUME AwaitHeartbeat PROVE MuInv' /\ RetireInv'
  BY <1>13 DEF AwaitHeartbeat
<1>14. ASSUME RetireLock PROVE MuInv' /\ RetireInv'
  BY <1>14 DEF RetireLock
<1>15. ASSUME Retire PROVE MuInv' /\ RetireInv'
  BY <1>15 DEF Retire
<1>16. ASSUME Pool PROVE MuInv' /\ RetireInv'
  BY <1>16 DEF Pool
<1>17. CASE UNCHANGED <<mu, done, pooled, fpc, hpc, op>>
  BY <1>17
<1> QED
  BY <1>1, <1>2, <1>3, <1>4, <1>5, <1>6, <1>7, <1>8, <1>9, <1>10, <1>11,
     <1>12, <1>13, <1>14, <1>15, <1>16, <1>17 DEF Next, UserStep, BeatStep,
     Deferred, ShutdownBegins, ClientStalls, ClientGone

\* Only the holder of the lock writes, and only before the Stream is pooled.
LEMMA WriterStep ==
  ASSUME LInv, [Next]_vars
  PROVE  \/ UNCHANGED <<buf, out, werr>>
         \/ ~pooled /\ \/ \E u \in Users : Body(u) \/ FlushOp(u)
                       \/ HeartbeatWrite \/ Retire
<1>1. ASSUME NEW u \in Users, Body(u) \/ FlushOp(u) PROVE ~pooled
  BY <1>1 DEF Body, Written, FlushOp, LInv, RetireInv, Holds
<1>2. HeartbeatWrite \/ Retire => ~pooled
  BY DEF HeartbeatWrite, Retire, LInv, RetireInv
<1> QED
  BY <1>1, <1>2 DEF Next, UserStep, BeatStep, Deferred, vars, Call, Lock, Unlock, Fail,
     HeartbeatSelect, HeartbeatLock, HeartbeatUnlock, FnReturns, Cancel,
     AwaitHeartbeat, RetireLock, Pool, ShutdownBegins, ClientStalls, ClientGone
-----------------------------------------------------------------------------
\* A piece that is not a head inside an event may follow whole events, and so
\* may a head, which leaves an event open.
LEMMA WholeAppend ==
  ASSUME NEW s \in Seq(Pieces), NEW p \in Pieces, NEW open, NEW open2,
         Whole(s, open), s # <<>> => s[Len(s)] # "head", p = "head" => open2
  PROVE  Whole(Append(s, p), open2)
<1> DEFINE t == Append(s, p)
<1>1. t \in Seq(Pieces) /\ Len(s) \in Nat /\ Len(t) = Len(s) + 1 /\ t[Len(t)] = p
  OBVIOUS
<1>2. \A i \in 1..Len(s) : t[i] = s[i]
  OBVIOUS
<1>3. ASSUME NEW i \in 1..Len(t), t[i] = "head"
      PROVE  IF i < Len(t) THEN t[i + 1] = "tail" ELSE open2
  <2>1. CASE i = Len(t)
    BY <1>1, <1>3, <2>1
  <2>2. CASE i < Len(t)
    <3>1. i \in 1..Len(s) /\ s[i] = "head" /\ s # <<>>
      BY <1>1, <1>2, <1>3, <2>2
    <3>2. i < Len(s) /\ i + 1 \in 1..Len(s)
      BY <1>1, <3>1
    <3> QED BY <1>2, <2>2, <3>1, <3>2 DEF Whole
  <2> QED BY <1>1, <2>1, <2>2
<1> HIDE DEF t
<1>4. Whole(t, open2)
  BY <1>3 DEF Whole
<1> QED BY <1>4 DEF t

\* What has been sent, piece by piece.
LEMMA SentSeq ==
  ASSUME NEW o \in Seq(Pieces), NEW b \in Seq(Pieces)
  PROVE  /\ o \o b \in Seq(Pieces)
         /\ \A p \in Pieces : o \o Append(b, p) = Append(o \o b, p)
         /\ b # <<>> => o \o b # <<>> /\ (o \o b)[Len(o \o b)] = b[Len(b)]
         /\ o \o <<>> = o
<1>1. ASSUME NEW p \in Pieces PROVE o \o Append(b, p) = Append(o \o b, p)
  OBVIOUS
<1>2. b # <<>> => o \o b # <<>> /\ (o \o b)[Len(o \o b)] = b[Len(b)]
  OBVIOUS
<1>3. o \o b \in Seq(Pieces) /\ o \o <<>> = o
  OBVIOUS
<1> QED BY <1>1, <1>2, <1>3

\* While nobody is between an event's lines the last piece sent is not a head.
LEMMA LastClosed ==
  ASSUME LInv, EventInv, ~werr, \A u \in Users : ~At(u, "flush"), Sent # <<>>
  PROVE  Sent[Len(Sent)] # "head"
<1>1. Sent \in Seq(Pieces)
  BY SentSeq DEF Sent, LInv, TypeOK
<1>2. Len(Sent) \in 1..Len(Sent)
  BY <1>1
<1> QED BY <1>1, <1>2 DEF EventInv, Whole

\* A flush keeps events whole: of what it leaves only the last piece counts.
LEMMA FlushWhole ==
  ASSUME LInv, EventInv, NEW b \in Seq(Pieces), Flushed(b),
         b = buf \/ \E p \in Pieces \ {"head"} : b = Append(buf, p),
         b = buf => \A u \in Users : ~At(u, "flush")
  PROVE  Whole(Sent', werr') /\ (buf' = <<>> \/ werr')
<1> USE DEF LInv, TypeOK
<1>1. CASE werr' /\ UNCHANGED <<buf, out>>
  BY <1>1 DEF EventInv, Whole, Sent
<1>2. CASE ~werr /\ ~werr' /\ buf' = <<>> /\ out' = LastOf(b)
  <2>1. Sent' = LastOf(b)
    BY <1>2, SentSeq, FlushedEffect DEF Sent
  <2>2. CASE b = buf /\ b = <<>>
    <3>1. Sent = out /\ Sent' = Sent /\ Sent \in Seq(Pieces)
      BY <2>1, <2>2, SentSeq DEF Sent, LastOf
    <3>2. \A i \in 1..Len(Sent) : Sent[i] = "head" => i < Len(Sent)
      BY <1>2, <2>2, <3>1, LastClosed
    <3> QED BY <1>2, <3>1, <3>2 DEF EventInv, Whole
  <2>3. CASE b = buf /\ b # <<>>
    <3>1. Sent # <<>> /\ Sent[Len(Sent)] = buf[Len(buf)]
      BY <2>3, SentSeq DEF Sent
    <3>2. buf[Len(buf)] # "head"
      BY <1>2, <2>3, <3>1, LastClosed
    <3>3. Sent' = <<buf[Len(buf)]>>
      BY <2>1, <2>3 DEF LastOf
    <3> QED BY <1>2, <3>2, <3>3 DEF Whole
  <2>4. ASSUME NEW p \in Pieces \ {"head"}, b = Append(buf, p)
        PROVE  Whole(Sent', werr') /\ (buf' = <<>> \/ werr')
    <3>1. b # <<>> /\ b[Len(b)] = p
      BY <2>4
    <3>2. Sent' = <<p>>
      BY <2>1, <3>1 DEF LastOf
    <3> QED BY <1>2, <3>2 DEF Whole
  <2> QED BY <2>2, <2>3, <2>4
<1> QED BY <1>1, <1>2, FlushedEffect

\* A write by the only goroutine that has the lock keeps events whole.
LEMMA PutWhole ==
  ASSUME LInv, EventInv, NEW p \in Pieces, Put(p), \A u \in Users : ~At(u, "flush"),
         NEW open, p = "head" => open
  PROVE  Whole(Sent', werr' \/ open)
<1> USE DEF LInv, TypeOK
<1>1. CASE werr' /\ UNCHANGED <<buf, out>>
  BY <1>1 DEF EventInv, Whole, Sent
<1>2. CASE ~werr /\ buf' = Append(buf, p) /\ UNCHANGED out
  <2>1. Sent' = Append(Sent, p) /\ Sent \in Seq(Pieces)
    BY <1>2, SentSeq DEF Sent
  <2>2. Sent # <<>> => Sent[Len(Sent)] # "head"
    BY <1>2, LastClosed
  <2> QED BY <2>1, <2>2, WholeAppend DEF EventInv
<1>3. CASE /\ ~werr /\ buf # <<>>
           /\ out' = <<buf[Len(buf)]>> /\ buf' = <<p>>
  <2>1. Sent # <<>> /\ Sent[Len(Sent)] = buf[Len(buf)]
    BY <1>3, SentSeq DEF Sent
  <2>2. buf[Len(buf)] # "head"
    BY <1>3, <2>1, LastClosed
  <2>3. Len(Sent') = 2 /\ Sent'[1] = buf[Len(buf)] /\ Sent'[2] = p
    BY <1>3, PutEffect DEF Sent
  <2> QED BY <2>2, <2>3 DEF Whole
<1> QED BY <1>1, <1>2, <1>3, PutEffect
-----------------------------------------------------------------------------
\* A new stream holds nothing and nobody has called it.
LEMMA InitIInv == ASSUME Init PROVE IInv
<1> USE GoroutinesAssumption, BoundAssumption DEF Init, Users, NoOp
<1>1. TypeOK
  <2>1. op \in [Users -> (Ops \cup {"none"}) \X
                       {"none", "lock", "locked", "flush", "unlock", "unlockErr", "fail"}]
    OBVIOUS
  <2>2. buf \in Seq(Pieces) /\ out \in Seq(Pieces)
    OBVIOUS
  <2>3. mu \in Users \cup {Beat, Nobody} /\ ctxDone \in BOOLEAN
    OBVIOUS
  <2>4. hpc \in {"select", "lock", "write", "unlock", "exited"}
    OBVIOUS
  <2> QED BY <2>1, <2>2, <2>3, <2>4 DEF TypeOK
<1>2. MuInv /\ RetireInv
  BY DEF MuInv, RetireInv, Holds, At
<1>3. EventInv
  BY DEF EventInv, Whole, Sent
<1> QED BY <1>1, <1>2, <1>3 DEF IInv, LInv

\* The lock's discipline holds in every behaviour of a stream.
THEOREM LockInvariant == Spec => []LInv
<1>1. Init => LInv
  BY InitIInv DEF IInv
<1>2. LInv /\ [Next]_vars => LInv'
  BY TypeStep, LockStep DEF LInv
<1> QED BY <1>1, <1>2, PTL DEF Spec

\* Every step keeps events whole and leaves nothing behind in a retired stream.
LEMMA EventStep == ASSUME LInv, EventInv, LInv', [Next]_vars PROVE EventInv'
<1> USE GoroutinesAssumption DEF LInv, TypeOK, Pieces
<1>1. ASSUME NEW u \in Users, Body(u) PROVE EventInv'
  <2>1. \A v \in Users : ~At(v, "flush")
    BY <1>1 DEF Body, Written, MuInv, Holds, At
  <2>2. ~done /\ ~done'
    BY <1>1 DEF Body, Written, RetireInv, Holds
  <2>3. CASE Put("data")
    BY <2>1, <2>2, <2>3, PutWhole DEF EventInv, Whole
  <2>4. CASE Put("head") /\ Stage(u, "flush") /\ op[u][1] = "Send"
    <3>1. At(u, "flush")'
      BY <2>4 DEF Stage, At, NoOp
    <3>2. Whole(Sent', werr' \/ At(u, "flush")')
      BY <2>1, <2>4, <3>1, PutWhole
    <3> QED BY <2>2, <3>1, <3>2 DEF EventInv, Whole
  <2> QED BY <1>1, <2>3, <2>4 DEF Body, Written
<1>2. ASSUME NEW u \in Users, FlushOp(u) PROVE EventInv'
  <2>1. CASE Flushed(Append(buf, "tail"))
    <3>1. Whole(Sent', werr') /\ (buf' = <<>> \/ werr')
      BY <2>1, FlushWhole, Append(buf, "tail") \in Seq(Pieces), Append(buf, "tail") # buf
    <3> QED BY <3>1 DEF EventInv, Whole
  <2>2. CASE At(u, "locked") /\ Flushed(buf)
    <3>1. \A v \in Users : ~At(v, "flush")
      BY <2>2 DEF MuInv, Holds, At
    <3>2. Whole(Sent', werr') /\ (buf' = <<>> \/ werr')
      BY <2>2, <3>1, FlushWhole
    <3> QED BY <3>2 DEF EventInv, Whole
  <2> QED BY <1>2, <2>1, <2>2 DEF FlushOp, Written
<1>3. ASSUME HeartbeatWrite PROVE EventInv'
  <2>1. Whole(Sent', werr') /\ (buf' = <<>> \/ werr')
    BY <1>3, FlushWhole, Append(buf, "beat") \in Seq(Pieces), Append(buf, "beat") # buf
       DEF HeartbeatWrite
  <2> QED BY <2>1 DEF EventInv, Whole
<1>4. ASSUME Retire PROVE EventInv'
  <2>1. \A v \in Users : ~At(v, "flush")
    BY <1>4 DEF Retire, MuInv, RetireInv, Holds, At, NoOp
  <2>2. Whole(Sent', werr') /\ (buf' = <<>> \/ werr')
    BY <1>4, <2>1, FlushWhole DEF Retire
  <2> QED BY <2>2 DEF EventInv, Whole
<1>5. ASSUME UNCHANGED <<buf, out, werr>>, UNCHANGED done,
             \A u \in Users : At(u, "flush") => At(u, "flush")'
      PROVE  EventInv'
  BY <1>5 DEF EventInv, Whole, Sent
<1>6. ASSUME NEW u \in Users, Lock(u) \/ Unlock(u) \/ Fail(u) \/ \E o \in Ops : Call(u, o)
      PROVE  EventInv'
  <2>1. \A v \in Users : At(v, "flush") => At(v, "flush")'
    BY <1>6 DEF Lock, Unlock, Fail, Call, Stage, At, NoOp
  <2> QED BY <1>5, <1>6, <2>1 DEF Lock, Unlock, Fail, Call
<1>7. CASE UNCHANGED <<buf, out, werr, done, op>>
  BY <1>5, <1>7 DEF At
<1> QED
  BY <1>1, <1>2, <1>3, <1>4, <1>6, <1>7 DEF Next, UserStep, BeatStep, Deferred,
     vars, HeartbeatSelect, HeartbeatLock, HeartbeatUnlock, FnReturns, Cancel,
     AwaitHeartbeat, RetireLock, Pool, ShutdownBegins, ClientStalls, ClientGone

\* The inductive invariant of a stream: the lock and the events.
THEOREM Inductive == Spec => []IInv
<1>1. Init => EventInv
  BY InitIInv DEF IInv
<1>2. LInv /\ LInv' /\ EventInv /\ [Next]_vars => EventInv'
  BY EventStep
<1> QED BY LockInvariant, <1>1, <1>2, PTL DEF Spec, IInv

\* An event reaches the client in one piece, and the last one is flushed before
\* the writer is pooled, unless the client has gone.
THEOREM EventsArriveWhole == Spec => []EventsWhole
<1>1. IInv => EventsWhole
  BY DEF IInv, LInv, RetireInv, EventInv, Whole, EventsWhole
<1> QED BY Inductive, <1>1, PTL

\* Once fasthttp has the bufio.Writer back nobody touches it.
THEOREM NothingAfterPool == Spec => NoUseAfterPool
<1>1. LInv /\ [Next]_vars => [pooled => UNCHANGED <<buf, out, werr>>]_vars
  BY WriterStep
<1> QED BY LockInvariant, <1>1, PTL DEF Spec, NoUseAfterPool
=============================================================================
