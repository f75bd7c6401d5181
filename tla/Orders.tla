------------------------------- MODULE Orders -------------------------------
(***************************************************************************)
(* The elements of a set one after another.  SelectSeq, SortSeq and the    *)
(* folds take an operator as an argument, which no theorem here can cite:  *)
(* these take the order, or the positions that are kept, as a set.         *)
(***************************************************************************)
EXTENDS Naturals, FiniteSets

\* R: the pairs of a strict and total order on S.
Ordered(S, R) ==
  [k \in 1 .. Cardinality(S) |->
     CHOOSE x \in S : Cardinality({y \in S : <<y, x>> \in R}) = k - 1]

Ascending(T) == Ordered(T, {p \in T \X T : p[1] < p[2]})

\* What s has at the positions T, in the order of s.
Chosen(s, T) ==
  LET at == Ascending(T)
  IN  [k \in 1 .. Cardinality(T) |-> s[at[k]]]
=============================================================================
