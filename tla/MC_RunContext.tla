---- MODULE MC_RunContext ----
EXTENDS RunContext
====
