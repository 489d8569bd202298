------------------------------ MODULE MCTopics ------------------------------
EXTENDS Topics, TLC

Symmetry == Permutations(Docs) \cup Permutations(Topics) \cup Permutations(Calls)
=============================================================================
