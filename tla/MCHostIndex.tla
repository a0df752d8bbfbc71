----------------------------- MODULE MCHostIndex -----------------------------
EXTENDS HostIndex, TLC

Symmetry == Permutations(Contents) \cup Permutations(Stagers)
=============================================================================
