---------------------------- MODULE MCScaleStore ----------------------------
(* ScaleStore on small instances for TLC. *)
EXTENDS ScaleStore, TLC

CONSTANTS k1, k2, d1, d2, v1, v2, r1, r2, r3, p1, p2

OneKey        == {k1}
TwoKeys       == {k1, k2}
OneDigest     == {d1}
TwoDigests    == {d1, d2}
OneDecision   == {v1}
TwoDecisions  == {v1, v2}
TwoRequests   == {r1, r2}
ThreeRequests == {r1, r2, r3}
OneProcess    == {p1}
TwoProcesses  == {p1, p2}

Symmetry ==
  Permutations(Keys) \cup Permutations(Digests) \cup Permutations(Decisions)
    \cup Permutations(Requests) \cup Permutations(Processes)

=============================================================================
