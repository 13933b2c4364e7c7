----------------------------- MODULE MCSearchIndex -----------------------------
EXTENDS SearchIndex, TLC
CONSTANTS o1, o2, p1, p2, j1, j2, w1, w2

WorkerSymmetry == Permutations(Workers)
=============================================================================
