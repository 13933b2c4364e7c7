---------------------------- MODULE MCDocumentStore ----------------------------
EXTENDS DocumentStore
CONSTANTS s1, s2, r1, r2, rec
=============================================================================
