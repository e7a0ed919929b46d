-------------------------- MODULE MCProjectCreation --------------------------
EXTENDS ProjectCreation, TLC

\* Nothing tells callers, keys or names apart.
Symmetry == Permutations(Callers) \cup Permutations(Keys) \cup Permutations(Names)
=============================================================================
