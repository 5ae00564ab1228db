---------------------------- MODULE MCFinalOnce ----------------------------
EXTENDS FinalOnce, TLC

Symmetry == Permutations(Callers) \union Permutations(Attempts)
=============================================================================
