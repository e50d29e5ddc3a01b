-------------------------- MODULE MCFinalLifecycle --------------------------
(* FinalLifecycle on small instances for TLC. *)
EXTENDS FinalLifecycle, TLC

CONSTANTS n1, n2, n3, dirA, dirB

TwoRuns        == {n1, n2}
ThreeRuns      == {n1, n2, n3}
OneDirectory   == {dirA}
TwoDirectories == {dirA, dirB}

Symmetry == Permutations(Runs) \cup Permutations(Directories)

=============================================================================
