---- MODULE MC_Lifecycle ----
EXTENDS Lifecycle
====
