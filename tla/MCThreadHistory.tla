-------------------------- MODULE MCThreadHistory --------------------------
EXTENDS ThreadHistory

Symmetry == Permutations(Jobs)
=============================================================================
