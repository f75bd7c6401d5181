---------------------------- MODULE StoreSpec ----------------------------
(***************************************************************************)
(* What a ringbuf.Store promises its callers: every call of Push and Last  *)
(* takes effect at one instant between its start and its return, on one    *)
(* bounded log per name.  No push that returned is lost, none is split     *)
(* between two buffers, and a reader sees a suffix of the log of the name  *)
(* it asked for.                                                           *)
(***************************************************************************)
EXTENDS Integers, Sequences

CONSTANTS Cap, Sample, Name, Pusher, Reader, NoPush,
  Request   (* the n that callers of Last ask for *)

VARIABLES
  logs,      (* logs[n]: the samples of series n, oldest first             *)
  listed,    (* the names that Names returns                               *)
  pending,   (* pending[p]: the name and sample p is pushing, or NoPush    *)
  seen       (* seen[r]: the last answer r got, with what it asked for     *)

vars == <<logs, listed, pending, seen>>

Log == INSTANCE SampleLog WITH log <- logs

\* The most recent n samples of s, or all of them.
Recent(s, n) ==
  IF n <= 0 \/ n > Len(s) THEN s ELSE SubSeq(s, Len(s) - n + 1, Len(s))

NothingSeen == [asked |-> FALSE]

Answer(name, n, samples) ==
  [asked |-> TRUE, name |-> name, n |-> n, samples |-> samples]

Init ==
  /\ logs = [n \in Name |-> <<>>]
  /\ listed = {}
  /\ pending = [p \in Pusher |-> NoPush]
  /\ seen = [r \in Reader |-> NothingSeen]

Call(p, n, s) ==
  /\ pending[p] = NoPush
  /\ pending' = [pending EXCEPT ![p] = <<n, s>>]
  /\ UNCHANGED <<logs, listed, seen>>

\* A name shows up in Names no later than its first sample.
List(p) ==
  /\ pending[p] # NoPush
  /\ listed' = listed \cup {pending[p][1]}
  /\ UNCHANGED <<logs, pending, seen>>

Commit(p) ==
  /\ pending[p] # NoPush
  /\ pending[p][1] \in listed
  /\ logs' = [logs EXCEPT ![pending[p][1]] = Log!Extend(@, pending[p][2])]
  /\ pending' = [pending EXCEPT ![p] = NoPush]
  /\ UNCHANGED <<listed, seen>>

Read(r) ==
  /\ \E name \in Name, n \in Request :
       seen' = [seen EXCEPT ![r] = Answer(name, n, Recent(logs[name], n))]
  /\ UNCHANGED <<logs, listed, pending>>

Next ==
  \/ \E p \in Pusher : \/ \E n \in Name, s \in Sample : Call(p, n, s)
                       \/ List(p)
                       \/ Commit(p)
  \/ \E r \in Reader : Read(r)

Spec == Init /\ [][Next]_vars
=============================================================================
