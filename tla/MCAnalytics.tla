---------------------------- MODULE MCAnalytics ----------------------------
EXTENDS Analytics, TLC

Symmetry == Permutations(Docs) \cup Permutations(Sources) \cup Permutations(Topics)
=============================================================================
