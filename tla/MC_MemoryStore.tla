---- MODULE MC_MemoryStore ----
EXTENDS MemoryStore, TLC
Symmetry == Permutations(Keys) \cup Permutations(Takers)
\* Limits of every kind params distinguishes: a burst that defaults to the rate,
\* whose product is all that a quarter of MaxInt holds, a burst of its own
\* with a long and a short interval, one whose product exceeds MaxInt, and three
\* that make no sense.
MCLimits == { [rate |-> 2, per |-> 5, burst |-> 0],
              [rate |-> 1, per |-> 3, burst |-> 1],
              [rate |-> 3, per |-> 3, burst |-> 1],
              [rate |-> 1, per |-> 7, burst |-> 3],
              [rate |-> 0, per |-> 3, burst |-> 2],
              [rate |-> 2, per |-> 1, burst |-> 2],
              [rate |-> 1, per |-> 3, burst |-> -1] }
====
