------------------------- MODULE MCExternalMonitor --------------------------
EXTENDS ExternalMonitor, TLC
CONSTANTS f1, f2, o1, o2, o3, c1, c2
=============================================================================
