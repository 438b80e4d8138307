------------------------------- MODULE MC_Node -------------------------------
EXTENDS WavemakerNode, TLC
JobSymmetry == Permutations(Goals)
=============================================================================
