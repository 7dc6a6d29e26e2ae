---------------------------- MODULE MemoryStore ----------------------------
(***************************************************************************)
(* The rate limiter's in-memory store (middleware/memorystore.go) and the  *)
(* middleware's answer from it (middleware/ratelimit.go).                  *)
(*                                                                         *)
(* A Take is two steps: it reads the clock, and later, under the shard's   *)
(* lock, sweeps and decides with the time it read.  Between the two other  *)
(* Takes may run, with later times.  Keys of one shard are modelled, and   *)
(* one Limit for them all; shards share nothing.                           *)
(***************************************************************************)
EXTENDS Integers, Sequences

CONSTANTS
  Keys,        \* keys of the shard
  Takers,      \* goroutines that call Take
  Limits,      \* Limits a program may configure: [rate, per, burst]
  MaxInt,      \* the largest int64
  SweepEvery,  \* MemoryStore.sweepEvery
  Second,      \* time.Second
  MaxClock,    \* how long the store lives
  Idle         \* no Take under way

ASSUME IdleAssumption == Idle \notin [key : Keys, now : Nat]
ASSUME ClockAssumption ==
  /\ MaxInt \in Nat /\ MaxClock \in Nat /\ 2 * MaxClock <= MaxInt
  /\ SweepEvery \in Nat \ {0} /\ Second \in Nat \ {0}
ASSUME LimitsAssumption == Limits \subseteq [rate : Int, per : Int, burst : Int]

\* Two's complement: the value int64 arithmetic leaves for x.
Wrap(x) == ((x + MaxInt + 1) % (2 * (MaxInt + 1))) - (MaxInt + 1)

Interval(l) == l.per \div l.rate
BurstOf(l) == IF l.burst = 0 THEN l.rate ELSE l.burst

\* Mutant of Accepted: no bound on Burst * Per/Rate.
AcceptedAnyBurst(l) ==
  /\ l.rate > 0 /\ l.per > 0 /\ l.burst >= 0
  /\ Interval(l) # 0

\* params: the Limits that RateLimit and Take accept.
Accepted(l) ==
  /\ l.rate > 0 /\ l.per > 0 /\ l.burst >= 0
  /\ Interval(l) # 0
  /\ BurstOf(l) <= (MaxInt \div 4) \div Interval(l)

\* Mutant of RetryAfter: rounded down.
RetryAfterDown(wait) == IF wait \div Second < 1 THEN 1 ELSE wait \div Second

\* retryAfter: whole seconds, rounded up, at least one.
RetryAfter(wait) ==
  LET s == wait \div Second
      up == IF wait % Second # 0 THEN s + 1 ELSE s
  IN  IF up < 1 THEN 1 ELSE up

VARIABLES
  lim,       \* the Limit
  clock,     \* ns since base
  tat,       \* the shard's map: a function on the keys present
  lastSweep,
  taker,     \* what each Take has read: its key and its time, or Idle
  answer,    \* the last Take's key, time, wait and Retry-After
  \* history: the arrival times a store that never sweeps would hold, the times
  \* admitted for each key, the latest time a Take decided with, and whether a
  \* Take was overtaken by a sweep
  ref, log, latest, overtaken

vars == <<lim, clock, tat, lastSweep, taker, answer, ref, log, latest, overtaken>>

Init ==
  /\ lim \in {l \in Limits : Accepted(l)}
  /\ clock = 0 /\ lastSweep = 0
  /\ tat = [k \in {} |-> 0]
  /\ taker = [t \in Takers |-> Idle]
  /\ answer = Idle
  /\ ref = [k \in Keys |-> 0] /\ log = [k \in Keys |-> <<>>]
  /\ latest = 0 /\ overtaken = FALSE

Tick ==
  /\ clock < MaxClock
  /\ clock' = clock + 1
  /\ UNCHANGED <<lim, tat, lastSweep, taker, answer, ref, log, latest, overtaken>>

\* now := s.now().Sub(s.base), before the lock.
ReadClock(t, k) ==
  /\ taker[t] = Idle
  /\ taker' = [taker EXCEPT ![t] = [key |-> k, now |-> clock]]
  /\ UNCHANGED <<lim, clock, tat, lastSweep, answer, ref, log, latest, overtaken>>

\* The arrival time GCRA gives the next request of a key that holds old.
NextTat(old, now) == Wrap((IF old < now THEN now ELSE old) + Interval(lim))
\* Mutant of Wait: one request more than Burst.
WaitBurstPlusOne(next, now) ==
  LET allowAt == Wrap(next - Wrap((BurstOf(lim) + 1) * Interval(lim)))
  IN  IF now < allowAt THEN Wrap(allowAt - now) ELSE 0

\* How long until that request is allowed; none when it is allowed now.
Wait(next, now) ==
  LET allowAt == Wrap(next - Wrap(BurstOf(lim) * Interval(lim)))
  IN  IF now < allowAt THEN Wrap(allowAt - now) ELSE 0

\* Mutant of SweepDue: half as often.
SweepDueLate(now) == Wrap(now - lastSweep) >= 2 * SweepEvery

\* The sweep: at most once in sweepEvery, the keys whose time has passed go.
SweepDue(now) == Wrap(now - lastSweep) >= SweepEvery
\* Mutant of Swept: keys that have not expired yet go.
SweptEarly(now) ==
  [k \in {key \in DOMAIN tat : ~(SweepDue(now) /\ tat[key] <= now + 1)} |-> tat[k]]

Swept(now) ==
  [k \in {key \in DOMAIN tat : ~(SweepDue(now) /\ tat[key] <= now)} |-> tat[k]]

\* Take under the shard's lock.
Charge(t) ==
  LET key   == taker[t].key
      now   == taker[t].now
      kept  == Swept(now)
      next  == NextTat(IF key \in DOMAIN kept THEN kept[key] ELSE now, now)
      wait  == Wait(next, now)
      nextR == NextTat(ref[key], now)
      waitR == Wait(nextR, now)
  IN
  /\ taker[t] # Idle
  /\ lastSweep' = IF SweepDue(now) THEN now ELSE lastSweep
  /\ tat' = IF wait > 0 THEN kept
            ELSE [k \in DOMAIN kept \cup {key} |-> IF k = key THEN next ELSE kept[k]]
  /\ answer' = [key |-> key, now |-> now, wait |-> wait,
                retry |-> IF wait > 0 THEN RetryAfter(wait) ELSE 0]
  /\ log' = IF wait > 0 THEN log ELSE [log EXCEPT ![key] = Append(log[key], now)]
  /\ ref' = IF waitR > 0 THEN ref ELSE [ref EXCEPT ![key] = nextR]
  /\ latest' = IF latest < now THEN now ELSE latest
  /\ overtaken' = (overtaken \/ now < lastSweep)
  /\ taker' = [taker EXCEPT ![t] = Idle]
  /\ UNCHANGED <<lim, clock>>

Next ==
  \/ Tick
  \/ \E t \in Takers : Charge(t) \/ \E k \in Keys : ReadClock(t, k)

Spec == Init /\ [][Next]_vars

(***************************************************************************)
(* Properties                                                              *)
(***************************************************************************)

\* "A key whose theoretical arrival time has passed is the same as an absent
\* one": deleting it is invisible, the store holds for every key what a store
\* that never sweeps holds, or that has passed.  (Unless a Take waited for the
\* lock through the sweep of a Take that read the clock after it.)
SweepInvisible ==
  ~overtaken =>
    \A k \in Keys : IF k \in DOMAIN tat THEN tat[k] = ref[k] ELSE ref[k] <= lastSweep

\* GCRA's promise, "Burst requests at once, then one every Per/Rate": of the
\* requests admitted for a key, any n in a row span at least n - Burst intervals.
RateBound ==
  ~overtaken =>
    \A k \in Keys : \A i \in 1..Len(log[k]) : \A j \in i..Len(log[k]) :
      log[k][j] - log[k][i] >= (j - i + 1 - BurstOf(lim)) * Interval(lim)

\* "so the sum never wraps": no stored time is ever before the time it was
\* computed from, nor beyond the burst that a Take may run ahead.
NeverWraps ==
  \A k \in DOMAIN tat : 0 < tat[k] /\ tat[k] <= clock + BurstOf(lim) * Interval(lim)

\* "rounded up so that a client that waits as told is admitted": a Take refused
\* now is admitted after the wait and not before, and Retry-After is the least
\* number of seconds that covers it.
AdmittedAt(old, now) == Wait(NextTat(old, now), now) = 0
WaitIsExact ==
  [][\/ answer' = answer
     \/ answer'.wait = 0
     \/ LET old == tat'[answer'.key] IN
        /\ AdmittedAt(old, answer'.now + answer'.wait)
        /\ ~AdmittedAt(old, answer'.now + answer'.wait - 1)
        /\ answer'.retry * Second >= answer'.wait
        /\ (answer'.retry - 1) * Second < answer'.wait]_vars

\* "plus up to a minute of expired ones": every key kept had not expired
\* sweepEvery before the latest Take.
ExpiredKeysGo ==
  ~overtaken => \A k \in DOMAIN tat : tat[k] > latest - SweepEvery
=============================================================================
