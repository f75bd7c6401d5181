------------------------------ MODULE Service ------------------------------
(***************************************************************************)
(* What main relies on of a component it starts and stops: the component   *)
(* does its work only between its Start and the return of its Stop, and    *)
(* Stop returns.  Collector and PluginLoader are shown to implement it; the *)
(* module Agent takes its services as they are described here.             *)
(***************************************************************************)
CONSTANTS Output      (* what the store may hold of a component's samples  *)

VARIABLES
  phase,    (* of the owner: "setup", "running", "stopping", "stopped"     *)
  alive,    (* the component's goroutine exists                            *)
  output    (* what the component has pushed                               *)

vars == <<phase, alive, output>>

Init == phase = "setup" /\ ~alive /\ output \in Output

\* There is no goroutine where there is nothing to do.
Start ==
  /\ phase = "setup" /\ phase' = "running"
  /\ alive' \in BOOLEAN
  /\ UNCHANGED output

Work ==
  /\ alive
  /\ output' \in Output
  /\ UNCHANGED <<phase, alive>>

Stop ==
  /\ phase = "running" /\ phase' = "stopping"
  /\ UNCHANGED <<alive, output>>

End ==
  /\ phase = "stopping" /\ alive
  /\ alive' = FALSE
  /\ UNCHANGED <<phase, output>>

StopReturns ==
  /\ phase = "stopping" /\ ~alive
  /\ phase' = "stopped"
  /\ UNCHANGED <<alive, output>>

Next == Start \/ Work \/ Stop \/ End \/ StopReturns

Spec == Init /\ [][Next]_vars /\ WF_vars(End) /\ WF_vars(StopReturns)
=============================================================================
