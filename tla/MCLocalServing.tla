--------------------------- MODULE MCLocalServing ---------------------------
(* LocalServing on small instances for TLC. *)
EXTENDS LocalServing, TLC

CONSTANTS k1, k2, dSingle, dBatch, v1, v2, r1, r2, r3

OneKey        == {k1}
TwoKeys       == {k1, k2}
OneInput      == {dBatch}
TwoInputs     == {dSingle, dBatch}
OneDecision   == {v1}
TwoDecisions  == {v1, v2}
ThreeRequests == {r1, r2, r3}

\* One input of the single route, one batch of two transactions.
SizeOf == [d \in Digests |-> IF d = dSingle THEN 1 ELSE 2]

Symmetry ==
  Permutations(Keys) \cup Permutations(Decisions) \cup Permutations(Requests)

=============================================================================
