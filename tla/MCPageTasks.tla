---------------------------- MODULE MCPageTasks ----------------------------
EXTENDS PageTasks, TLC
CONSTANTS w1, w2, e1, r1
WorkerSymmetry == Permutations(Workers)
=============================================================================
