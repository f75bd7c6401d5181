--------------------------- MODULE MCRingBuffer ---------------------------
(* Capacity 4 reached through the default (New is called with 0), four     *)
(* distinguishable samples: every rotation of a full buffer is reached.    *)
EXTENDS RingBuffer
=============================================================================
