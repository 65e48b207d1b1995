---------------------------- MODULE MCFaissStore ----------------------------
EXTENDS FaissStore, TLC
Symmetry == Permutations(Docs)
=============================================================================
