------------------------------- MODULE MCShim -------------------------------
EXTENDS Shim, TLC

Symmetry == Permutations(Calls) \cup Permutations(Content)

=============================================================================
