------------------------ MODULE LifecycleRefinement ------------------------
(***************************************************************************)
(* Lifecycle implements GracefulStop.                                      *)
(***************************************************************************)
EXTENDS Lifecycle

phaseMap == IF \E k \in Callers : CloseFailed(k) THEN "failed"
            ELSE IF \E k \in Callers : Returned(k) THEN "stopped"
            ELSE IF closed THEN "stopping" ELSE "up"
hooksMap == IF shutdownDone THEN "done"
            ELSE IF hooksStarted THEN "running" ELSE "pending"

Contract == INSTANCE GracefulStop
              WITH phase <- phaseMap, live <- Live, hooks <- hooksMap

\* Serve, Shutdown, the hooks and the connection table together keep the
\* contract: every step of theirs is a step of GracefulStop or invisible to it.
KeepsContract == Contract!StopSpec
=============================================================================
