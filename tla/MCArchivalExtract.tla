------------------------- MODULE MCArchivalExtract -------------------------
EXTENDS ArchivalExtract, TLC
CONSTANTS w1, w2, q1, q2, q3
=============================================================================
