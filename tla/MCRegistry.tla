----------------------------- MODULE MCRegistry -----------------------------
EXTENDS Registry, TLC

CONSTANTS p1, p2, u1

Symmetry == Permutations(SPs)

=============================================================================
