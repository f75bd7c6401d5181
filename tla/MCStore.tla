------------------------------ MODULE MCStore ------------------------------
(* Two writers that meet on the creation of either of two series, one      *)
(* reader, buffers of two samples.                                         *)
EXTENDS Store, TLC

Symmetry == Permutations(Name) \cup Permutations(Pusher) \cup Permutations(Sample)
=============================================================================
