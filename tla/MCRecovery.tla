----------------------------- MODULE MCRecovery -----------------------------
EXTENDS Recovery
CONSTANTS p1, p2
=============================================================================
