-------------------------- MODULE AlertLifecycle --------------------------
(***************************************************************************)
(* The life of an alert as the package comment of alert/engine.go draws it *)
(* (engine.go:3-7), together with what the operator is told:               *)
(*                                                                         *)
(*   ok -> pending -> firing ("firing" is announced)                       *)
(*         pending -> ok     (nothing is announced)                        *)
(*                    firing -> ok ("resolved" is announced)               *)
(***************************************************************************)
EXTENDS Sequences

CONSTANT Rule

VARIABLES
  state,     (* state[r]: "ok", "pending" or "firing"                      *)
  told       (* told[r]: the announcements made for r, oldest first        *)

vars == <<state, told>>

Init ==
  /\ state = [r \in Rule |-> "ok"]
  /\ told = [r \in Rule |-> <<>>]

Goto(r, s) == state' = [state EXCEPT ![r] = s]
Tell(r, what) == told' = [told EXCEPT ![r] = Append(@, what)]

Cross(r) == state[r] = "ok" /\ Goto(r, "pending") /\ UNCHANGED told
Drop(r) == state[r] = "pending" /\ Goto(r, "ok") /\ UNCHANGED told
Fire(r) == state[r] = "pending" /\ Goto(r, "firing") /\ Tell(r, "firing")
Resolve(r) == state[r] = "firing" /\ Goto(r, "ok") /\ Tell(r, "resolved")

Next == \E r \in Rule : Cross(r) \/ Drop(r) \/ Fire(r) \/ Resolve(r)

Spec == Init /\ [][Next]_vars
=============================================================================
