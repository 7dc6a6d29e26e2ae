---------------------------- MODULE GracefulStop ----------------------------
(***************************************************************************)
(* What Shutdown promises a program, without saying how: connections come  *)
(* and go while the server is up and while it is stopping; once a Shutdown *)
(* has returned, or the OnShutdown hooks have begun, none is served and    *)
(* none ever will be; the hooks run once, after Shutdown was called.  A    *)
(* server that could not close a listener promises only the last.          *)
(***************************************************************************)
CONSTANT Conns

VARIABLES phase,  \* "up", "stopping" once Shutdown is called, "stopped" once one
                  \* returned, "failed" once a listener could not be closed
          live,   \* the connections being served
          hooks   \* "pending", "running", "done"

stopVars == <<phase, live, hooks>>

StopInit == phase = "up" /\ live = {} /\ hooks = "pending"

Open(c) ==
  /\ phase = "failed" \/ (phase # "stopped" /\ hooks = "pending")
  /\ live' = live \cup {c}
  /\ UNCHANGED <<phase, hooks>>

Close(C) == live' = live \ C /\ UNCHANGED <<phase, hooks>>

Begin == phase = "up" /\ phase' = "stopping" /\ UNCHANGED <<live, hooks>>

Stop ==
  /\ phase = "stopping" /\ live = {}
  /\ phase' = "stopped"
  /\ UNCHANGED <<live, hooks>>

Fail ==
  /\ phase \in {"stopping", "stopped"} /\ phase' = "failed"
  /\ live' \subseteq live /\ UNCHANGED hooks

StartHooks ==
  /\ phase = "failed" \/ (phase # "up" /\ live = {})
  /\ hooks = "pending" /\ hooks' = "running"
  /\ UNCHANGED <<phase, live>>

EndHooks == hooks = "running" /\ hooks' = "done" /\ UNCHANGED <<phase, live>>

StopNext ==
  \/ \E c \in Conns : Open(c)
  \/ \E C \in SUBSET Conns : Close(C)
  \/ Begin \/ Stop \/ Fail \/ StartHooks \/ EndHooks

StopSpec == StopInit /\ [][StopNext]_stopVars
=============================================================================
