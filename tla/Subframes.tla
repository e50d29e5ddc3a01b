------------------------------ MODULE Subframes ------------------------------
(***************************************************************************)
(* The rows of a frame at given positions, in their order: what a loop     *)
(* keeps, a Boolean mask or iloc selects.                                  *)
(***************************************************************************)
EXTENDS Integers, FiniteSets

Subframe(frame, indices) ==
  LET rank(i) == Cardinality({j \in indices : j <= i})
  IN  [k \in 1..Cardinality(indices) |-> frame[CHOOSE i \in indices : rank(i) = k]]

=============================================================================
