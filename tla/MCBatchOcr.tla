----------------------------- MODULE MCBatchOcr -----------------------------
EXTENDS BatchOcr, TLC
CONSTANTS i1, i2, c1, c2, w1, w2
OneItemTwoChunks == c1 :> i1 @@ c2 :> i1
OneItemOneChunk == c1 :> i1
TwoItems == c1 :> i1 @@ c2 :> i2
WorkerSymmetry == Permutations(Workers)
=============================================================================
