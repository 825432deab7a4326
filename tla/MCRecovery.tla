---- MODULE MCRecovery ----
EXTENDS Recovery, TLC

Symmetry == Permutations(Txns)
====
