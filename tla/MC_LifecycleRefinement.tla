---- MODULE MC_LifecycleRefinement ----
EXTENDS LifecycleRefinement, TLC
Symmetry == Permutations(Callers)
====
