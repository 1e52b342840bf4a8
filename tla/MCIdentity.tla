---- MODULE MCIdentity ----
EXTENDS Identity, TLC

Symmetry == Permutations(Tokens) \cup Permutations(Tasks)
====
