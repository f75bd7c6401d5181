----------------------------- MODULE SampleLog -----------------------------
(***************************************************************************)
(* What a ring buffer promises (package comment of ringbuf.go): a series   *)
(* holds up to Cap samples in the order they were pushed, and a push never *)
(* waits: it drops the oldest sample of a full series.                     *)
(***************************************************************************)
EXTENDS Naturals, Sequences

CONSTANTS Cap, Sample

VARIABLE log

\* The log s after one more sample.
Extend(s, x) == IF Len(s) < Cap THEN Append(s, x) ELSE Append(Tail(s), x)

Init == log = <<>>

Push(x) == log' = Extend(log, x)

Next == \E x \in Sample : Push(x)

Spec == Init /\ [][Next]_log
=============================================================================
