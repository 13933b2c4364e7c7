---------------------------- MODULE MCPageRevisions ----------------------------
EXTENDS PageRevisions, TLC
CONSTANTS e1, e2, u1, u2
OneUser == e1 :> u1 @@ e2 :> u1
TwoUsers == e1 :> u1 @@ e2 :> u2
=============================================================================
