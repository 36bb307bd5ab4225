-------------------------- MODULE LifecycleStates --------------------------
(***************************************************************************)
(* The states of an agent and the transitions between them                 *)
(* (pkg/lifecycle/state.go).  Shared by the abstract life cycle            *)
(* (AgentLifecycle) and by the threads of BaseAgent.                       *)
(***************************************************************************)

States == {"unknown", "starting", "running", "paused", "stopping",
           "stopped", "failed"}

\* The transition matrix.  Stopped and Failed may only be restarted.
validTransitions ==
    [s \in States |->
        CASE s = "unknown"  -> {"starting", "failed"}
          [] s = "starting" -> {"running", "failed", "stopping"}
          [] s = "running"  -> {"paused", "stopping", "failed"}
          [] s = "paused"   -> {"running", "stopping", "failed"}
          [] s = "stopping" -> {"stopped", "failed"}
          [] OTHER          -> {"starting"}]

ValidTransition(from, to) == from # to /\ to \in validTransitions[from]

IsTerminal(s) == s \in {"stopped", "failed"}
=============================================================================
