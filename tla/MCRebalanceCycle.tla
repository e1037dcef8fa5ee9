-------------------------- MODULE MCRebalanceCycle --------------------------
(* The instance of RebalanceCycle that TLC checks.                          *)
EXTENDS RebalanceCycle, TLC

CONSTANTS p1, p2, f1, f2

MCSymmetry == Permutations({p1, p2}) \cup Permutations({f1, f2})
=============================================================================
