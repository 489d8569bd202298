---------------------------- MODULE MCCollection ----------------------------
EXTENDS Collection, TLC
Symmetry == Permutations(Collections)
=============================================================================
