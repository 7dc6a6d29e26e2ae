------------------------------ MODULE MC_Grace ------------------------------
EXTENDS Grace

\* One check with a timeout of its own, which is shorter, and one without.
TwoChecks == <<1, 0>>
=============================================================================
