----------------------------- MODULE MCTaskTray -----------------------------
EXTENDS TaskTray, TLC
CONSTANTS w1, w2, e1, r1
=============================================================================
