---------------------------- MODULE RingBuffer ----------------------------
(***************************************************************************)
(* One RingBuffer object and the callers of its methods.  Push is the only *)
(* method that changes it; Last, Latest and Len read it.                   *)
(***************************************************************************)
EXTENDS Ring

VARIABLE ring

RTypeOK == ring \in Rings

RInit == ring = NewRing

Push(s) == ring' = PushRing(ring, s)

RNext == \E s \in Sample : Push(s)

RSpec == RInit /\ [][RNext]_ring

-----------------------------------------------------------------------------
\* What Last(0) returns: everything the buffer holds, oldest first.
Held == LastOf(ring, 0)

Log == INSTANCE SampleLog WITH log <- Held

\* Seen through Last(0), the slots, the write position and the size are a
\* log of the most recent Cap samples: wrapping around never reorders,
\* repeats or loses one (ringbuf.go:3, "the oldest sample is overwritten").
BoundedLog == Log!Spec
=============================================================================
