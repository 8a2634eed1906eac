---------------------------- MODULE MCFileCache ----------------------------
EXTENDS FileCache, TLC

CONSTANTS c1, c2, b1, v1

Symmetry == Permutations(Client)
=============================================================================
