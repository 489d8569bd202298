-------------------------------- MODULE MCRuns ------------------------------
EXTENDS Runs, TLC
Symmetry == Permutations(Callers) \cup Permutations(Workers)
            \cup Permutations(Sources) \cup Permutations(Tokens)
=============================================================================
