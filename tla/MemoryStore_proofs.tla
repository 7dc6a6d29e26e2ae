------------------------- MODULE MemoryStore_proofs -------------------------
(***************************************************************************)
(* The rate limiter's store, for every Limit that params accepts and any   *)
(* number of keys and Takes: int64 arithmetic never wraps, the sweep       *)
(* changes no answer, GCRA's bound holds and the wait told is exact.       *)
(***************************************************************************)
EXTENDS MemoryStore, TLAPS

\* The two numbers a Limit comes down to, and how far ahead a Take may run.
Gap == Interval(lim)
Ahead == BurstOf(lim) * Interval(lim)

\* Times are times the clock has shown or lie ahead of it by a burst at most, and
\* the map holds keys of the shard.
StoreOK ==
  /\ lim \in Limits /\ Accepted(lim)
  /\ clock \in 0..MaxClock /\ lastSweep \in 0..clock /\ latest \in 0..clock
  /\ DOMAIN tat \subseteq Keys /\ tat = [k \in DOMAIN tat |-> tat[k]]
  /\ \A k \in DOMAIN tat : tat[k] \in 1..(clock + Ahead)
  /\ taker \in [Takers -> {Idle} \cup [key : Keys, now : 0..clock]]
  /\ ref \in [Keys -> 0..(clock + Ahead)] /\ overtaken \in BOOLEAN
  /\ log \in [Keys -> Seq(Nat)]

\* Every request admitted for a key moved its arrival time on by an interval.
ChargedInv ==
  ~overtaken =>
    \A k \in Keys : \A i \in 1..Len(log[k]) :
      ref[k] >= log[k][i] + (Len(log[k]) - i + 1) * Gap

\* No key kept had expired by the last sweep, which is no longer ago than sweepEvery.
FreshInv ==
  ~overtaken =>
    /\ latest < lastSweep + SweepEvery
    /\ \A k \in DOMAIN tat : tat[k] > lastSweep

SInv == StoreOK /\ SweepInvisible /\ ChargedInv /\ RateBound /\ FreshInv
-----------------------------------------------------------------------------
\* int64 arithmetic is exact on what an int64 holds.
LEMMA WrapFits == ASSUME NEW x \in Int, -MaxInt <= x, x <= MaxInt PROVE Wrap(x) = x
<1> USE ClockAssumption
<1> DEFINE a == x + MaxInt + 1
           b == 2 * (MaxInt + 1)
<1>1. a \in Nat /\ b \in Nat /\ a < b
  OBVIOUS
<1>2. a % b = a
  <2> HIDE DEF a, b
  <2> QED BY <1>1
<1> QED BY <1>2 DEF Wrap

\* What params checks: the burst fits in a quarter of the largest int64.
LEMMA AcceptedBounds ==
  ASSUME NEW l \in Limits, Accepted(l)
  PROVE  /\ Interval(l) \in Nat \ {0} /\ BurstOf(l) \in Nat \ {0}
         /\ BurstOf(l) * Interval(l) \in Nat
         /\ Interval(l) <= BurstOf(l) * Interval(l)
         /\ 4 * (BurstOf(l) * Interval(l)) <= MaxInt
<1> USE ClockAssumption
<1>1. l.rate \in Int /\ l.per \in Int /\ l.burst \in Int
  BY LimitsAssumption
<1>2. l.rate > 0 /\ l.per > 0 /\ l.burst >= 0 /\ Interval(l) # 0
  BY DEF Accepted
<1>3. Interval(l) \in Nat
  BY <1>1, <1>2 DEF Interval
<1>4. BurstOf(l) \in Nat \ {0}
  BY <1>1, <1>2 DEF BurstOf
<1> DEFINE i == Interval(l)
           b == BurstOf(l)
           q == MaxInt \div 4
<1>5. i \in Nat \ {0} /\ b \in Nat \ {0} /\ q \in Nat /\ 4 * q <= MaxInt
  BY <1>2, <1>3, <1>4
<1>6. b <= q \div i
  BY DEF Accepted
<1> HIDE DEF i, b, q
<1>7. b * i \in Nat /\ i <= b * i
  BY <1>5
<1>8. (q \div i) \in Nat /\ (q \div i) * i <= q
  BY <1>5
<1>9. b * i <= (q \div i) * i
  BY <1>5, <1>6, <1>8
<1>10. 4 * (b * i) <= MaxInt
  BY <1>5, <1>7, <1>8, <1>9
<1> QED BY <1>5, <1>7, <1>10 DEF i, b

\* The Limit in use.
LEMMA LimitFits ==
  ASSUME StoreOK
  PROVE  /\ Gap \in Nat \ {0} /\ Ahead \in Nat /\ Gap <= Ahead /\ 4 * Ahead <= MaxInt
         /\ 2 * clock <= MaxInt /\ clock \in Nat
  BY AcceptedBounds, ClockAssumption DEF StoreOK, Gap, Ahead

\* "so the sum never wraps": what GCRA computes, without overflow.
LEMMA Exact ==
  ASSUME StoreOK, NEW old \in 0..(clock + Ahead), NEW now \in 0..(clock + Ahead)
  PROVE  /\ NextTat(old, now) = (IF old < now THEN now ELSE old) + Gap
         /\ Wait(NextTat(old, now), now) =
              IF now < NextTat(old, now) - Ahead THEN NextTat(old, now) - Ahead - now ELSE 0
<1>1. /\ Gap \in Nat \ {0} /\ Ahead \in Nat /\ Gap <= Ahead /\ 4 * Ahead <= MaxInt
      /\ 2 * clock <= MaxInt /\ clock \in Nat /\ MaxInt \in Nat
  BY LimitFits, ClockAssumption
<1> DEFINE m == IF old < now THEN now ELSE old
<1>2. m \in Nat /\ m <= clock + Ahead
  BY <1>1
<1> HIDE DEF m
<1>3. m + Gap \in Nat /\ m + Gap <= MaxInt
  BY <1>1, <1>2
<1>4. NextTat(old, now) = m + Gap
  BY <1>3, WrapFits, ClockAssumption DEF NextTat, m, Gap
<1> DEFINE n == m + Gap
           at == n - Ahead
<1>5. Wrap(BurstOf(lim) * Interval(lim)) = Ahead
  BY <1>1, WrapFits DEF Ahead
<1>6. at \in Int /\ -MaxInt <= at /\ at <= MaxInt
  BY <1>1, <1>2, <1>3
<1>7. Wrap(at) = at
  BY <1>6, WrapFits
<1>8. now < at => at - now \in Int /\ -MaxInt <= at - now /\ at - now <= MaxInt
  BY <1>1, <1>6
<1>9. now < at => Wrap(at - now) = at - now
  BY <1>8, WrapFits
<1>10. Wait(n, now) = IF now < at THEN at - now ELSE 0
  BY <1>5, <1>7, <1>9 DEF Wait
<1> QED BY <1>4, <1>10 DEF m
-----------------------------------------------------------------------------
\* The later of two times, and GCRA on unbounded integers.
Later(a, b) == IF a < b THEN b ELSE a
GcraNext(old, now) == Later(old, now) + Gap
GcraWait(next, now) == IF now < next - Ahead THEN next - Ahead - now ELSE 0

Due(now) == now - lastSweep >= SweepEvery
Kept(now) == {k \in DOMAIN tat : ~(Due(now) /\ tat[k] <= now)}

\* What a Take does, in exact arithmetic: old is the time it goes by, which is
\* its own when the key is absent or just swept.
Take(key, now, old, next, wait) ==
  /\ old = IF key \in Kept(now) THEN tat[key] ELSE now
  /\ next = GcraNext(old, now) /\ wait = GcraWait(next, now)
  /\ lastSweep' = IF Due(now) THEN now ELSE lastSweep
  /\ tat' = IF wait > 0 THEN [k \in Kept(now) |-> tat[k]]
            ELSE [k \in Kept(now) \cup {key} |-> IF k = key THEN next ELSE tat[k]]
  /\ answer' = [key |-> key, now |-> now, wait |-> wait,
                retry |-> IF wait > 0 THEN RetryAfter(wait) ELSE 0]
  /\ log' = IF wait > 0 THEN log ELSE [log EXCEPT ![key] = Append(log[key], now)]
  /\ ref' = IF GcraWait(GcraNext(ref[key], now), now) > 0 THEN ref
            ELSE [ref EXCEPT ![key] = GcraNext(ref[key], now)]
  /\ latest' = Later(latest, now)
  /\ overtaken' = (overtaken \/ now < lastSweep)
  /\ lim' = lim /\ clock' = clock

\* Charge is that.
LEMMA ChargeIsTake ==
  ASSUME StoreOK, NEW t \in Takers, Charge(t)
  PROVE  /\ \E key \in Keys, now \in 0..clock, old \in 0..(clock + Ahead), next, wait \in Int :
              Take(key, now, old, next, wait)
         /\ taker' = [taker EXCEPT ![t] = Idle]
<1> DEFINE key == taker[t].key
           now == taker[t].now
           kept == Swept(now)
           old == IF key \in DOMAIN kept THEN kept[key] ELSE now
           next == NextTat(old, now)
           wait == Wait(next, now)
<1>1. taker[t] \in [key : Keys, now : 0..clock]
  BY DEF Charge, StoreOK
<1>2. key \in Keys /\ now \in 0..clock
  BY <1>1
<1>3. /\ Gap \in Nat \ {0} /\ Ahead \in Nat /\ clock \in Nat /\ 2 * clock <= MaxInt
      /\ lastSweep \in 0..clock /\ MaxInt \in Nat
  BY LimitFits, ClockAssumption DEF StoreOK
<1>4. SweepDue(now) = Due(now)
  <2> HIDE DEF now
  <2>1. Wrap(now - lastSweep) = now - lastSweep
    BY <1>2, <1>3, WrapFits
  <2> QED BY <2>1 DEF SweepDue, Due
<1>5. kept = [k \in Kept(now) |-> tat[k]]
  <2> HIDE DEF now
  <2> QED BY <1>4 DEF Swept, Kept
<1>6. old = IF key \in Kept(now) THEN tat[key] ELSE now
  <2> HIDE DEF now, kept, key
  <2> QED BY <1>5
<1>7. old \in 0..(clock + Ahead)
  <2> HIDE DEF now, key, old
  <2> QED BY <1>2, <1>3, <1>6 DEF StoreOK, Kept
<1>8. ref[key] \in 0..(clock + Ahead) /\ now \in 0..(clock + Ahead)
  BY <1>2, <1>3 DEF StoreOK
<1>9. next = GcraNext(old, now) /\ wait = GcraWait(next, now)
  <2> HIDE DEF now, key, old
  <2> QED BY <1>7, <1>8, Exact DEF GcraNext, GcraWait, Later
<1>10. /\ NextTat(ref[key], now) = GcraNext(ref[key], now)
       /\ Wait(NextTat(ref[key], now), now) = GcraWait(GcraNext(ref[key], now), now)
  <2> HIDE DEF now, key
  <2> QED BY <1>8, Exact DEF GcraNext, GcraWait, Later
<1>11. /\ lastSweep' = IF SweepDue(now) THEN now ELSE lastSweep
       /\ tat' = IF wait > 0 THEN kept
                 ELSE [k \in DOMAIN kept \cup {key} |-> IF k = key THEN next ELSE kept[k]]
       /\ answer' = [key |-> key, now |-> now, wait |-> wait,
                     retry |-> IF wait > 0 THEN RetryAfter(wait) ELSE 0]
       /\ log' = IF wait > 0 THEN log ELSE [log EXCEPT ![key] = Append(log[key], now)]
       /\ ref' = IF Wait(NextTat(ref[key], now), now) > 0 THEN ref
                 ELSE [ref EXCEPT ![key] = NextTat(ref[key], now)]
       /\ latest' = IF latest < now THEN now ELSE latest
       /\ overtaken' = (overtaken \/ now < lastSweep)
       /\ taker' = [taker EXCEPT ![t] = Idle]
       /\ lim' = lim /\ clock' = clock
  BY DEF Charge
<1> HIDE DEF key, now, kept, old, next, wait
<1>12. [k \in DOMAIN kept \cup {key} |-> IF k = key THEN next ELSE kept[k]]
       = [k \in Kept(now) \cup {key} |-> IF k = key THEN next ELSE tat[k]]
  BY <1>5
<1>13. Take(key, now, old, next, wait)
  BY <1>4, <1>5, <1>6, <1>9, <1>10, <1>11, <1>12 DEF Take, Later
<1>14. next \in Int /\ wait \in Int
  <2>1. next = Later(old, now) + Gap
    BY <1>9 DEF GcraNext
  <2>2. next \in Int
    BY <1>2, <1>3, <1>7, <2>1 DEF Later
  <2> QED BY <1>2, <1>3, <1>9, <2>2 DEF GcraWait
<1> QED BY <1>2, <1>7, <1>11, <1>13, <1>14

\* What the cases of a Take have in common.
LEMMA TakeFacts ==
  ASSUME StoreOK, NEW key \in Keys, NEW now \in 0..clock, NEW old \in 0..(clock + Ahead),
         NEW next, NEW wait, Take(key, now, old, next, wait)
  PROVE  /\ Gap \in Nat \ {0} /\ Ahead \in Nat /\ Gap <= Ahead /\ clock \in Nat
         /\ Gap' = Gap /\ Ahead' = Ahead
         /\ next \in Nat /\ next > now /\ next >= old + Gap /\ wait \in Nat
         /\ wait = 0 => next <= now + Ahead
         /\ wait > 0 => wait = next - Ahead - now /\ key \in Kept(now) /\ next = old + Gap
<1>1. /\ Gap \in Nat \ {0} /\ Ahead \in Nat /\ Gap <= Ahead /\ clock \in Nat
  BY LimitFits
<1>2. Gap' = Gap /\ Ahead' = Ahead
  BY DEF Take, Gap, Ahead
<1>3. /\ next = Later(old, now) + Gap /\ wait = GcraWait(next, now)
      /\ old = IF key \in Kept(now) THEN tat[key] ELSE now
  BY DEF Take, GcraNext
<1> QED BY <1>1, <1>2, <1>3 DEF Later, GcraWait

\* Stored times stay between the time they came from and the burst ahead of it.
LEMMA TakeKeepsType ==
  ASSUME StoreOK, NEW key \in Keys, NEW now \in 0..clock, NEW old \in 0..(clock + Ahead),
         NEW next, NEW wait, Take(key, now, old, next, wait),
         taker' \in [Takers -> {Idle} \cup [key : Keys, now : 0..clock]]
  PROVE  StoreOK'
<1>1. /\ Gap \in Nat \ {0} /\ Ahead \in Nat /\ clock \in Nat /\ Ahead' = Ahead
      /\ next \in Nat /\ next > now /\ wait \in Nat /\ (wait = 0 => next <= now + Ahead)
      /\ clock' = clock /\ lim' = lim
  <2>1. clock' = clock /\ lim' = lim
    BY DEF Take
  <2> QED BY <2>1, TakeFacts
<1>2. lim' \in Limits /\ Accepted(lim') /\ clock' \in 0..MaxClock
  BY <1>1 DEF StoreOK
<1>3. lastSweep' \in 0..clock' /\ latest' \in 0..clock' /\ overtaken' \in BOOLEAN
  BY <1>1 DEF StoreOK, Take, Later
<1>4. /\ DOMAIN tat' \subseteq Keys /\ tat' = [k \in DOMAIN tat' |-> tat'[k]]
      /\ \A k \in DOMAIN tat' : tat'[k] \in 1..(clock + Ahead)
  <2>1. Kept(now) \subseteq DOMAIN tat /\ DOMAIN tat \subseteq Keys
    BY DEF Kept, StoreOK
  <2>2. CASE wait > 0
    <3>1. tat' = [k \in Kept(now) |-> tat[k]]
      BY <2>2 DEF Take
    <3> QED BY <2>1, <3>1 DEF StoreOK
  <2>3. CASE wait = 0
    <3>1. tat' = [k \in Kept(now) \cup {key} |-> IF k = key THEN next ELSE tat[k]]
      BY <2>3 DEF Take
    <3>2. next \in 1..(clock + Ahead)
      BY <1>1, <2>3
    <3> QED BY <2>1, <3>1, <3>2 DEF StoreOK
  <2> QED BY <1>1, <2>2, <2>3
<1>5. ref' \in [Keys -> 0..(clock + Ahead)]
  <2> DEFINE nr == GcraNext(ref[key], now)
  <2>1. nr \in Nat
    BY <1>1 DEF GcraNext, Later, StoreOK
  <2>2. ref' = IF GcraWait(nr, now) > 0 THEN ref ELSE [ref EXCEPT ![key] = nr]
    BY DEF Take
  <2> HIDE DEF nr
  <2>3. GcraWait(nr, now) > 0 \/ nr \in 0..(clock + Ahead)
    BY <1>1, <2>1 DEF GcraWait
  <2> QED BY <2>2, <2>3 DEF StoreOK
<1>6. log' \in [Keys -> Seq(Nat)]
  <2>1. log \in [Keys -> Seq(Nat)] /\ now \in Nat
    BY <1>1 DEF StoreOK
  <2>2. Append(log[key], now) \in Seq(Nat)
    BY <2>1
  <2>3. log' = log \/ log' = [log EXCEPT ![key] = Append(log[key], now)]
    BY DEF Take
  <2> QED BY <2>1, <2>2, <2>3
<1> QED BY <1>1, <1>2, <1>3, <1>4, <1>5, <1>6 DEF StoreOK

\* Unless it was overtaken by a sweep, a Take goes by the time that a store which
\* never sweeps holds, or by its own which is later.
LEMMA SameTime ==
  ASSUME StoreOK, SweepInvisible, ~overtaken', NEW key \in Keys, NEW now \in 0..clock,
         NEW old \in 0..(clock + Ahead), NEW next, NEW wait, Take(key, now, old, next, wait)
  PROVE  /\ ~overtaken /\ lastSweep <= now
         /\ GcraNext(ref[key], now) = next
         /\ key \in Kept(now) => ref[key] = tat[key]
         /\ key \notin Kept(now) => ref[key] <= now
<1>1. overtaken \in BOOLEAN /\ lastSweep \in Nat /\ now \in Nat /\ ref[key] \in Nat
  BY ClockAssumption, LimitFits DEF StoreOK
<1>2. ~overtaken /\ lastSweep <= now
  <2>1. overtaken' = (overtaken \/ now < lastSweep)
    BY DEF Take
  <2>2. ~overtaken /\ ~(now < lastSweep)
    BY <2>1
  <2> QED BY <1>1, <2>2
<1>3. key \in Kept(now) => ref[key] = tat[key]
  BY <1>2 DEF SweepInvisible, Kept
<1>4. key \notin Kept(now) => ref[key] <= now
  BY <1>1, <1>2 DEF SweepInvisible, Kept
<1>5. /\ next = GcraNext(old, now)
      /\ old = IF key \in Kept(now) THEN tat[key] ELSE now
  BY DEF Take
<1> QED BY <1>1, <1>2, <1>3, <1>4, <1>5 DEF GcraNext, Later

\* "A key whose theoretical arrival time has passed is the same as an absent one."
LEMMA TakeSwept ==
  ASSUME StoreOK, SweepInvisible, NEW key \in Keys, NEW now \in 0..clock,
         NEW old \in 0..(clock + Ahead), NEW next, NEW wait, Take(key, now, old, next, wait)
  PROVE  SweepInvisible'
<1> SUFFICES ASSUME ~overtaken', NEW k \in Keys
             PROVE  IF k \in DOMAIN tat' THEN tat'[k] = ref'[k] ELSE ref'[k] <= lastSweep'
  BY DEF SweepInvisible
<1>1. /\ ~overtaken /\ lastSweep <= now /\ GcraNext(ref[key], now) = next
      /\ (key \in Kept(now) => ref[key] = tat[key])
  BY SameTime
<1>2. wait \in Nat /\ wait = GcraWait(next, now) /\ (wait > 0 => key \in Kept(now))
  <2>1. wait = GcraWait(next, now)
    BY DEF Take
  <2> QED BY <2>1, TakeFacts
<1>3. ref' = IF wait > 0 THEN ref ELSE [ref EXCEPT ![key] = next]
  BY <1>1, <1>2 DEF Take
<1>4. IF k \in DOMAIN tat THEN tat[k] = ref[k] ELSE ref[k] <= lastSweep
  BY <1>1 DEF SweepInvisible
<1>5. lastSweep \in Nat /\ now \in Nat /\ lastSweep' = IF Due(now) THEN now ELSE lastSweep
  BY LimitFits DEF StoreOK, Take
<1>6. ref[k] \in Nat /\ ref \in [Keys -> 0..(clock + Ahead)]
  BY LimitFits DEF StoreOK
<1>7. IF k \in Kept(now) THEN tat[k] = ref[k] ELSE ref[k] <= lastSweep'
  BY <1>1, <1>4, <1>5, <1>6 DEF Kept
<1>8. CASE wait > 0
  <2>1. tat' = [j \in Kept(now) |-> tat[j]] /\ ref' = ref
    BY <1>3, <1>8 DEF Take
  <2> QED BY <1>7, <2>1
<1>9. CASE wait = 0
  <2>1. /\ tat' = [j \in Kept(now) \cup {key} |-> IF j = key THEN next ELSE tat[j]]
        /\ ref' = [ref EXCEPT ![key] = next]
    <3>1. ~(wait > 0)
      BY <1>9
    <3> QED BY <1>3, <3>1 DEF Take
  <2> QED BY <1>6, <1>7, <2>1
<1> QED BY <1>2, <1>8, <1>9

\* Multiplication distributes over what the bounds add and subtract.
LEMMA Spread ==
  ASSUME NEW a \in Int, NEW b \in Int, NEW g \in Int
  PROVE  (a + 1) * g = a * g + g /\ (a + 1 - b) * g = a * g + g - b * g
  OBVIOUS

\* A key's log and arrival time after a Take: both as they were, or both one
\* request on.
LEMMA TakeLogs ==
  ASSUME StoreOK, SweepInvisible, ~overtaken', NEW key \in Keys, NEW now \in 0..clock,
         NEW old \in 0..(clock + Ahead), NEW next, NEW wait, Take(key, now, old, next, wait),
         NEW k \in Keys
  PROVE  \/ log'[k] = log[k] /\ ref'[k] = ref[k]
         \/ /\ log'[k] = Append(log[k], now) /\ ref'[k] = next
            /\ next >= ref[k] + Gap /\ next >= now + Gap /\ next <= now + Ahead
<1>1. next = GcraNext(ref[key], now)
  BY SameTime
<1>2. wait \in Nat /\ (wait = 0 => next <= now + Ahead) /\ Gap \in Nat /\ next \in Nat
  BY TakeFacts
<1>3. wait = GcraWait(next, now) /\ (wait > 0 => log' = log)
  BY DEF Take
<1>4. ref' = IF wait > 0 THEN ref ELSE [ref EXCEPT ![key] = next]
  BY <1>1, <1>3 DEF Take
<1>5. ~(wait > 0) => log' = [log EXCEPT ![key] = Append(log[key], now)]
  BY DEF Take
<1>6. ref \in [Keys -> 0..(clock + Ahead)] /\ log \in [Keys -> Seq(Nat)]
  BY DEF StoreOK
<1>7. CASE wait > 0 \/ k # key
  BY <1>3, <1>4, <1>5, <1>6, <1>7
<1>8. CASE ~(wait > 0) /\ k = key
  <2>1. log'[k] = Append(log[k], now) /\ ref'[k] = next
    BY <1>4, <1>5, <1>6, <1>8
  <2>2. wait = 0
    BY <1>2, <1>8
  <2>3. ref[key] \in Nat /\ now \in Nat
    BY <1>6, LimitFits
  <2>4. next >= ref[key] + Gap /\ next >= now + Gap
    BY <1>1, <1>2, <2>3 DEF GcraNext, Later
  <2> QED BY <1>2, <1>8, <2>1, <2>2, <2>4
<1> QED BY <1>7, <1>8

\* GCRA: each request admitted moves the key's time on by an interval, and none
\* is admitted while that is more than the burst ahead.
LEMMA TakeRate ==
  ASSUME StoreOK, SweepInvisible, ChargedInv, RateBound, NEW key \in Keys,
         NEW now \in 0..clock, NEW old \in 0..(clock + Ahead), NEW next, NEW wait,
         Take(key, now, old, next, wait)
  PROVE  ChargedInv' /\ RateBound'
<1> SUFFICES ASSUME ~overtaken' PROVE ChargedInv' /\ RateBound'
  BY DEF ChargedInv, RateBound
<1>1. ~overtaken
  BY SameTime
<1>2. /\ Gap \in Nat \ {0} /\ Ahead \in Nat /\ Gap <= Ahead /\ Gap' = Gap
      /\ now \in Nat /\ next \in Nat
  BY TakeFacts, LimitFits
<1>3. lim' = lim /\ BurstOf(lim) \in Nat /\ Gap = Interval(lim)
      /\ Ahead = BurstOf(lim) * Gap
  BY AcceptedBounds DEF Take, StoreOK, Gap, Ahead
<1> DEFINE B == BurstOf(lim)
<1> HIDE DEF B
<1>4. /\ B \in Nat /\ Ahead = B * Gap /\ BurstOf(lim') = B /\ Interval(lim') = Gap
      /\ BurstOf(lim) = B /\ Interval(lim) = Gap
  BY <1>3 DEF B
<1>5. ASSUME NEW k \in Keys
      PROVE  /\ \A i \in 1..Len(log'[k]) : ref'[k] >= log'[k][i] + (Len(log'[k]) - i + 1) * Gap
             /\ \A i \in 1..Len(log'[k]) : \A j \in i..Len(log'[k]) :
                  log'[k][j] - log'[k][i] >= (j - i + 1 - B) * Gap
  <2> DEFINE l == log[k]
             n == Len(l)
  <2>1. l \in Seq(Nat) /\ n \in Nat /\ ref[k] \in Nat
    BY LimitFits DEF StoreOK
  <2>2. \A i \in 1..n : l[i] \in Nat /\ ref[k] >= l[i] + (n - i + 1) * Gap
    BY <1>1, <2>1, SMTT(30) DEF ChargedInv
  <2>3. \A i \in 1..n : \A j \in i..n : l[j] - l[i] >= (j - i + 1 - B) * Gap
    BY <1>1, <1>4 DEF RateBound
  <2>4. CASE log'[k] = l /\ ref'[k] = ref[k]
    BY <2>2, <2>3, <2>4
  <2>5. CASE /\ log'[k] = Append(l, now) /\ ref'[k] = next
             /\ next >= ref[k] + Gap /\ next >= now + Gap /\ next <= now + Ahead
    <3> DEFINE m == log'[k]
    <3>1. Len(m) = n + 1 /\ m[n + 1] = now /\ \A i \in 1..n : m[i] = l[i]
      BY <2>1, <2>5
    <3> HIDE DEF l, n, m
    <3>2. ASSUME NEW i \in 1..(n + 1)
          PROVE  next >= m[i] + (n + 1 - i + 1) * Gap
      <4>1. CASE i = n + 1
        <5>1. (n + 1 - i + 1) * Gap = Gap
          BY <1>2, <2>1, <4>1
        <5> QED BY <2>5, <3>1, <4>1, <5>1
      <4>2. CASE i \in 1..n
        <5> DEFINE a == n - i + 1
                   p == a * Gap
        <5>1. a \in Int /\ n + 1 - i + 1 = a + 1
          BY <2>1
        <5>2. (n + 1 - i + 1) * Gap = p + Gap /\ p \in Int
          <6> HIDE DEF a
          <6> QED BY <1>2, <5>1, Spread
        <5>3. ref[k] >= l[i] + p /\ l[i] \in Nat /\ m[i] = l[i]
          BY <2>2, <3>1, <4>2
        <5> HIDE DEF p
        <5>4. next >= ref[k] + Gap
          BY <2>5
        <5>5. next >= m[i] + (p + Gap)
          BY <1>2, <2>1, <5>2, <5>3, <5>4, SMTT(30)
        <5> QED BY <5>2, <5>5
      <4> QED BY <2>1, <4>1, <4>2
    <3>3. \A i \in 1..(n + 1) : m[i] \in Nat
      <4> TAKE i \in 1..(n + 1)
      <4>1. i \in 1..n \/ i = n + 1
        BY <2>1
      <4> QED BY <1>2, <2>2, <3>1, <4>1
    <3>4. ASSUME NEW i \in 1..(n + 1), NEW j \in i..(n + 1)
          PROVE  m[j] - m[i] >= (j - i + 1 - B) * Gap
      <4>1. CASE j \in i..n
        <5>1. i \in 1..n /\ j \in 1..n
          BY <2>1, <4>1
        <5> QED BY <2>3, <3>1, <4>1, <5>1
      <4>2. CASE j = n + 1
        <5> DEFINE a == n + 1 - i
                   p == a * Gap
        <5>1. a \in Int /\ j - i + 1 - B = a + 1 - B
          BY <1>4, <2>1, <4>2
        <5>2. (j - i + 1 - B) * Gap = p + Gap - Ahead /\ (n + 1 - i + 1) * Gap = p + Gap
              /\ p \in Int
          <6> HIDE DEF a
          <6>1. n + 1 - i + 1 = a + 1
            BY <2>1 DEF a
          <6> QED BY <1>2, <1>4, <5>1, <6>1, Spread
        <5>3. next >= m[i] + p + Gap
          <6> HIDE DEF p
          <6>1. next >= m[i] + (p + Gap)
            BY <3>2, <5>2
          <6> QED BY <1>2, <3>3, <5>2, <6>1
        <5>4. m[i] \in Nat
          BY <3>3
        <5> HIDE DEF p
        <5> QED BY <1>2, <2>5, <3>1, <4>2, <5>2, <5>3, <5>4, SMTT(30)
      <4> QED BY <2>1, <4>1, <4>2
    <3>5. \A i \in 1..Len(m) : ref'[k] >= m[i] + (Len(m) - i + 1) * Gap
      <4>1. Len(m) = n + 1 /\ ref'[k] = next
        BY <2>5, <3>1
      <4> TAKE i \in 1..Len(m)
      <4>2. i \in 1..(n + 1) /\ Len(m) - i + 1 = n + 1 - i + 1
        BY <2>1, <4>1
      <4>3. next >= m[i] + (n + 1 - i + 1) * Gap
        BY <3>2, <4>2
      <4> QED BY <4>1, <4>2, <4>3
    <3>6. \A i \in 1..Len(m) : \A j \in i..Len(m) : m[j] - m[i] >= (j - i + 1 - B) * Gap
      BY <3>1, <3>4
    <3> QED BY <3>5, <3>6 DEF m
  <2> QED BY <2>4, <2>5, TakeLogs
<1> QED BY <1>2, <1>4, <1>5 DEF ChargedInv, RateBound

\* The sweep is due, and then every key left outlasts it, or it is not due yet.
LEMMA TakeFresh ==
  ASSUME StoreOK, SweepInvisible, FreshInv, NEW key \in Keys, NEW now \in 0..clock,
         NEW old \in 0..(clock + Ahead), NEW next, NEW wait, Take(key, now, old, next, wait)
  PROVE  FreshInv'
<1> SUFFICES ASSUME ~overtaken' PROVE FreshInv'
  BY DEF FreshInv
<1>1. ~overtaken /\ lastSweep <= now
  BY SameTime
<1>2. /\ latest \in Nat /\ lastSweep \in Nat /\ now \in Nat /\ SweepEvery \in Nat
      /\ next \in Nat /\ next > now
      /\ \A k \in DOMAIN tat : tat[k] \in Nat
  <2>1. next \in Nat /\ next > now /\ clock \in Nat /\ Ahead \in Nat
    BY TakeFacts
  <2>2. latest \in Nat /\ lastSweep \in Nat /\ now \in Nat /\ SweepEvery \in Nat
    BY <2>1, ClockAssumption DEF StoreOK
  <2>3. \A k \in DOMAIN tat : tat[k] \in Nat
    BY <2>1 DEF StoreOK
  <2> QED BY <2>1, <2>2, <2>3
<1>3. latest < lastSweep + SweepEvery /\ \A k \in DOMAIN tat : tat[k] > lastSweep
  BY <1>1 DEF FreshInv
<1>4. lastSweep' = (IF Due(now) THEN now ELSE lastSweep) /\ latest' = Later(latest, now)
  BY DEF Take
<1>5. latest' < lastSweep' + SweepEvery /\ lastSweep' <= now
  BY <1>1, <1>2, <1>3, <1>4, ClockAssumption DEF Due, Later
<1>6. \A k \in Kept(now) : tat[k] > lastSweep'
  BY <1>2, <1>3, <1>4 DEF Kept
<1>7. \A k \in DOMAIN tat' : \/ k \in Kept(now) /\ tat'[k] = tat[k]
                             \/ k = key /\ tat'[k] = next
  <2>1. CASE wait > 0
    <3>1. tat' = [k \in Kept(now) |-> tat[k]]
      BY <2>1 DEF Take
    <3> QED BY <3>1
  <2>2. CASE ~(wait > 0)
    <3>1. tat' = [k \in Kept(now) \cup {key} |-> IF k = key THEN next ELSE tat[k]]
      BY <2>2 DEF Take
    <3> QED BY <3>1
  <2> QED BY <2>1, <2>2
<1>8. next > lastSweep'
  BY <1>2, <1>4, <1>5
<1> QED BY <1>5, <1>6, <1>7, <1>8 DEF FreshInv

\* What lies within a bound lies within a later one.
LEMMA Wider ==
  ASSUME NEW a \in Nat, NEW b \in Nat, NEW c \in Nat, a <= b
  PROVE  /\ \A n \in 0..(a + c) : n \in 0..(b + c)
         /\ \A n \in 1..(a + c) : n \in 1..(b + c)
  OBVIOUS

\* Every step of the clock and of the Takes.
LEMMA StoreStep == ASSUME SInv, [Next]_vars PROVE SInv'
<1> USE DEF SInv
<1>1. CASE UNCHANGED vars
  BY <1>1 DEF vars, StoreOK, Accepted, Ahead, Gap, SweepInvisible, ChargedInv, RateBound, FreshInv
<1>2. ASSUME Tick \/ \E t \in Takers, k \in Keys : ReadClock(t, k)
      PROVE  SInv'
  <2>1. /\ UNCHANGED <<lim, tat, lastSweep, ref, log, latest, overtaken>>
        /\ clock \in Nat /\ clock' \in clock..MaxClock
        /\ taker' \in [Takers -> {Idle} \cup [key : Keys, now : 0..clock']]
    <3>1. clock \in 0..MaxClock /\ clock \in Nat /\ MaxClock \in Nat
          /\ taker \in [Takers -> {Idle} \cup [key : Keys, now : 0..clock]]
      BY ClockAssumption DEF StoreOK
    <3>2. CASE Tick
      <4>1. clock' = clock + 1 /\ clock < MaxClock /\ taker' = taker
        BY <3>2 DEF Tick
      <4>2. \A t \in Takers : taker[t] \in {Idle} \cup [key : Keys, now : 0..clock']
        BY <3>1, <4>1
      <4> QED BY <3>1, <3>2, <4>1, <4>2 DEF Tick
    <3>3. ASSUME NEW t \in Takers, NEW k \in Keys, ReadClock(t, k)
          PROVE  /\ UNCHANGED <<lim, clock, tat, lastSweep, ref, log, latest, overtaken>>
                 /\ taker' \in [Takers -> {Idle} \cup [key : Keys, now : 0..clock]]
      BY <3>1, <3>3 DEF ReadClock
    <3> QED BY <1>2, <3>1, <3>2, <3>3
  <2>2. Ahead' = Ahead /\ Gap' = Gap /\ Ahead \in Nat
    BY <2>1, LimitFits DEF Ahead, Gap
  <2>3. StoreOK'
    <3>0. clock \in Nat /\ clock' \in Nat /\ clock <= clock' /\ Ahead \in Nat
      BY <2>1, <2>2, ClockAssumption
    <3>1. \A n \in 0..clock : n \in 0..clock'
      BY <3>0
    <3>2. \A n \in 0..(clock + Ahead) : n \in 0..(clock' + Ahead)
      BY <3>0, Wider
    <3>3. \A n \in 1..(clock + Ahead) : n \in 1..(clock' + Ahead)
      BY <3>0, Wider
    <3>4. ref' \in [Keys -> 0..(clock' + Ahead)]
      BY <2>1, <3>2 DEF StoreOK
    <3>5. lim' \in Limits /\ Accepted(lim')
      BY <2>1 DEF StoreOK
    <3>6. clock' \in 0..MaxClock /\ lastSweep' \in 0..clock' /\ latest' \in 0..clock'
      BY <2>1, <3>1, ClockAssumption DEF StoreOK
    <3>7. /\ DOMAIN tat' \subseteq Keys /\ tat' = [k \in DOMAIN tat' |-> tat'[k]]
          /\ \A k \in DOMAIN tat' : tat'[k] \in 1..(clock' + Ahead)
      BY <2>1, <3>3 DEF StoreOK
    <3> QED BY <2>1, <2>2, <3>4, <3>5, <3>6, <3>7 DEF StoreOK
  <2> QED BY <2>1, <2>2, <2>3 DEF SweepInvisible, ChargedInv, RateBound, FreshInv
<1>3. ASSUME NEW t \in Takers, Charge(t) PROVE SInv'
  <2>1. PICK key \in Keys, now \in 0..clock, old \in 0..(clock + Ahead), next, wait \in Int :
          Take(key, now, old, next, wait)
    BY <1>3, ChargeIsTake
  <2>2. taker' \in [Takers -> {Idle} \cup [key : Keys, now : 0..clock]]
    BY <1>3, ChargeIsTake DEF StoreOK
  <2>3. StoreOK'
    BY <2>1, <2>2, TakeKeepsType
  <2>4. SweepInvisible'
    BY <2>1, TakeSwept
  <2>5. ChargedInv' /\ RateBound'
    BY <2>1, TakeRate
  <2>6. FreshInv'
    BY <2>1, TakeFresh
  <2> QED BY <2>3, <2>4, <2>5, <2>6
<1> QED BY <1>1, <1>2, <1>3 DEF Next

\* An empty store.
LEMMA StoreInit == ASSUME Init PROVE SInv
<1>1. lim \in Limits /\ Accepted(lim)
  BY DEF Init
<1>2. Ahead \in Nat /\ Gap \in Nat
  BY <1>1, AcceptedBounds DEF Ahead, Gap
<1>3. StoreOK
  <2>1. clock = 0 /\ lastSweep = 0 /\ latest = 0 /\ overtaken = FALSE
    BY DEF Init
  <2>2. tat = [k \in {} |-> 0]
    BY DEF Init
  <2>3. DOMAIN tat = {} /\ tat = [k \in DOMAIN tat |-> tat[k]]
    BY <2>2
  <2>4. taker \in [Takers -> {Idle} \cup [key : Keys, now : 0..clock]]
    BY DEF Init
  <2>5. ref \in [Keys -> 0..(clock + Ahead)] /\ log \in [Keys -> Seq(Nat)]
    BY <1>2, <2>1 DEF Init
  <2>6. 0 \in 0..MaxClock /\ 0 \in 0..0
    BY ClockAssumption
  <2> QED BY <1>1, <2>1, <2>3, <2>4, <2>5, <2>6 DEF StoreOK
<1>4. SweepInvisible /\ ChargedInv /\ RateBound
  BY DEF Init, SweepInvisible, ChargedInv, RateBound
<1>5. FreshInv
  BY ClockAssumption DEF Init, FreshInv
<1> QED BY <1>3, <1>4, <1>5 DEF SInv

\* What the store holds, the inductive invariant.
THEOREM StoreInvariant == Spec => []SInv
<1>1. Init => SInv
  BY StoreInit
<1>2. SInv /\ [Next]_vars => SInv'
  BY StoreStep
<1> QED BY <1>1, <1>2, PTL DEF Spec

\* Deleting an expired key is invisible: every answer is the one that a store
\* which never sweeps gives.
THEOREM SweepChangesNothing == Spec => []SweepInvisible
<1>1. SInv => SweepInvisible
  BY DEF SInv
<1> QED BY StoreInvariant, <1>1, PTL

\* Of the requests admitted for a key, any n in a row span n - Burst intervals.
THEOREM RateIsBounded == Spec => []RateBound
<1>1. SInv => RateBound
  BY DEF SInv
<1> QED BY StoreInvariant, <1>1, PTL

\* No time stored has wrapped: int64 holds every sum that Take computes, for
\* every Limit that params accepts.
THEOREM NothingWraps == Spec => []NeverWraps
<1>1. SInv => NeverWraps
  <2> SUFFICES ASSUME SInv, NEW k \in DOMAIN tat
               PROVE  0 < tat[k] /\ tat[k] <= clock + Ahead
    BY DEF NeverWraps, Ahead
  <2> QED BY LimitFits DEF SInv, StoreOK
<1> QED BY StoreInvariant, <1>1, PTL

\* A key that stays had not expired sweepEvery before the latest Take.
THEOREM ExpiredKeysLeave == Spec => []ExpiredKeysGo
<1>1. SInv => ExpiredKeysGo
  <2> SUFFICES ASSUME SInv, ~overtaken, NEW k \in DOMAIN tat
               PROVE  tat[k] > latest - SweepEvery
    BY DEF ExpiredKeysGo
  <2>1. latest < lastSweep + SweepEvery /\ tat[k] > lastSweep
    BY DEF SInv, FreshInv
  <2>2. clock \in Nat /\ Ahead \in Nat
    BY LimitFits DEF SInv
  <2>3. latest \in Nat /\ lastSweep \in Nat /\ SweepEvery \in Nat /\ tat[k] \in Nat
    BY <2>2, ClockAssumption DEF SInv, StoreOK
  <2> QED BY <2>1, <2>3
<1> QED BY StoreInvariant, <1>1, PTL
-----------------------------------------------------------------------------
\* retryAfter: the least number of whole seconds that covers the wait.
LEMMA RetryCovers ==
  ASSUME NEW wait \in Nat \ {0}
  PROVE  RetryAfter(wait) * Second >= wait /\ (RetryAfter(wait) - 1) * Second < wait
<1> DEFINE s == wait \div Second
           r == wait % Second
<1>1. Second \in Nat \ {0}
  BY ClockAssumption
<1>2. s \in Nat /\ r \in 0..(Second - 1) /\ wait = s * Second + r
  BY <1>1
<1>3. RetryAfter(wait) = LET up == IF r # 0 THEN s + 1 ELSE s IN IF up < 1 THEN 1 ELSE up
  BY DEF RetryAfter
<1> HIDE DEF s, r
<1> DEFINE p == s * Second
<1>4. p \in Nat /\ wait = p + r /\ (s = 0 => p = 0)
  BY <1>1, <1>2
<1>5. (s + 1) * Second = p + Second /\ (s - 1) * Second = p - Second
      /\ (s + 1 - 1) * Second = p
  BY <1>1, <1>2
<1> HIDE DEF p
<1>6. CASE r # 0
  <2>1. RetryAfter(wait) = s + 1
    BY <1>2, <1>3, <1>6
  <2> QED BY <1>1, <1>2, <1>4, <1>5, <1>6, <2>1
<1>7. CASE r = 0
  <2>1. s >= 1
    BY <1>2, <1>4, <1>7
  <2>2. RetryAfter(wait) = s
    BY <1>2, <1>3, <1>7, <2>1
  <2>3. s * Second = p
    BY DEF p
  <2> QED BY <1>1, <1>2, <1>4, <1>5, <1>7, <2>2, <2>3
<1> QED BY <1>6, <1>7

\* A Take refused is told the wait after which, and before which not, the same
\* request would be admitted.
LEMMA WaitTold ==
  ASSUME StoreOK, StoreOK', NEW key \in Keys, NEW now \in 0..clock,
         NEW old \in 0..(clock + Ahead), NEW next, NEW wait, Take(key, now, old, next, wait),
         wait > 0
  PROVE  /\ AdmittedAt(tat'[key], now + wait)
         /\ ~AdmittedAt(tat'[key], now + wait - 1)
<1>1. /\ Gap \in Nat \ {0} /\ Ahead \in Nat /\ Gap <= Ahead /\ clock \in Nat
      /\ wait \in Nat /\ wait = next - Ahead - now /\ key \in Kept(now) /\ next = old + Gap
      /\ now \in Nat
  BY TakeFacts
<1>2. tat'[key] = old
  <2>1. old = tat[key] /\ tat' = [k \in Kept(now) |-> tat[k]]
    BY <1>1 DEF Take
  <2> QED BY <1>1, <2>1
<1>3. now + wait = old + Gap - Ahead /\ now + wait <= old
  BY <1>1
<1>4. now + wait \in 0..(clock + Ahead) /\ now + wait - 1 \in 0..(clock + Ahead)
  BY <1>1, <1>3
<1> DEFINE a == now + wait
           b == now + wait - 1
<1> HIDE DEF a, b
<1>5. a \in 0..(clock + Ahead) /\ b \in 0..(clock + Ahead)
      /\ a = old + Gap - Ahead /\ a <= old /\ b = a - 1
  BY <1>1, <1>3, <1>4 DEF a, b
<1>6. NextTat(old, a) = old + Gap /\ NextTat(old, b) = old + Gap
  BY <1>1, <1>5, Exact
<1>7. Wait(NextTat(old, a), a) = 0
  <2>1. Wait(NextTat(old, a), a) = IF a < NextTat(old, a) - Ahead
                                   THEN NextTat(old, a) - Ahead - a ELSE 0
    BY <1>5, Exact
  <2>2. ~(a < NextTat(old, a) - Ahead)
    BY <1>1, <1>5, <1>6
  <2> QED BY <2>1, <2>2
<1>8. Wait(NextTat(old, b), b) # 0
  <2>1. Wait(NextTat(old, b), b) = IF b < NextTat(old, b) - Ahead
                                   THEN NextTat(old, b) - Ahead - b ELSE 0
    BY <1>5, Exact
  <2>2. b < NextTat(old, b) - Ahead /\ NextTat(old, b) - Ahead - b = 1
    BY <1>1, <1>5, <1>6
  <2> QED BY <2>1, <2>2
<1> QED BY <1>2, <1>7, <1>8 DEF AdmittedAt, a, b

\* A refused client that waits as told is admitted, and not before, and
\* Retry-After is the least number of seconds that covers the wait.
THEOREM WaitExact == Spec => WaitIsExact
<1> DEFINE A == \/ answer' = answer
                \/ answer'.wait = 0
                \/ LET old == tat'[answer'.key] IN
                   /\ AdmittedAt(old, answer'.now + answer'.wait)
                   /\ ~AdmittedAt(old, answer'.now + answer'.wait - 1)
                   /\ answer'.retry * Second >= answer'.wait
                   /\ (answer'.retry - 1) * Second < answer'.wait
<1>1. SInv /\ SInv' /\ [Next]_vars => [A]_vars
  <2> SUFFICES ASSUME SInv, SInv', Next PROVE A
    OBVIOUS
  <2>1. ASSUME NEW t \in Takers, Charge(t) PROVE A
    <3>1. PICK key \in Keys, now \in 0..clock, old \in 0..(clock + Ahead), next, wait \in Int :
            Take(key, now, old, next, wait)
      BY <2>1, ChargeIsTake DEF SInv
    <3>2. wait \in Nat
      BY <3>1, TakeFacts DEF SInv
    <3>3. answer' = [key |-> key, now |-> now, wait |-> wait,
                     retry |-> IF wait > 0 THEN RetryAfter(wait) ELSE 0]
      BY <3>1 DEF Take
    <3>4. CASE wait = 0
      BY <3>3, <3>4
    <3>5. CASE wait > 0
      <4>1. AdmittedAt(tat'[key], now + wait) /\ ~AdmittedAt(tat'[key], now + wait - 1)
        BY <3>1, <3>5, WaitTold DEF SInv
      <4>2. RetryAfter(wait) * Second >= wait /\ (RetryAfter(wait) - 1) * Second < wait
        BY <3>2, <3>5, RetryCovers
      <4>3. /\ answer'.key = key /\ answer'.now = now /\ answer'.wait = wait
            /\ answer'.retry = RetryAfter(wait)
        BY <3>3, <3>5
      <4> QED BY <4>1, <4>2, <4>3
    <3> QED BY <3>2, <3>4, <3>5
  <2>2. ASSUME Tick \/ \E t \in Takers, k \in Keys : ReadClock(t, k) PROVE A
    BY <2>2 DEF Tick, ReadClock
  <2> QED BY <2>1, <2>2 DEF Next
<1> HIDE DEF A
<1>2. Spec => [][A]_vars
  BY StoreInvariant, <1>1, PTL DEF Spec
<1> QED BY <1>2 DEF WaitIsExact, A
=============================================================================
