---------------------------- MODULE MC_Dispatch -----------------------------
EXTENDS Dispatch

Kinds == {"logger", "recover", "timeout", "otel", "keyauth", "cors", "user"}

\* Every order of up to three middleware, the application's and the route's.
UpTo(n) == UNION {[1..k -> Kinds] : k \in 0..n}
One == UpTo(1)
Two == UpTo(2)

MCErrors == {<<Plain>>, <<Http(404)>>, <<Plain, Http(0)>>}
=============================================================================
