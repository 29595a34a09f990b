--------------------------- MODULE MCReliablePipe ---------------------------
EXTENDS ReliablePipe
CONSTANTS r1, r2
MCReports == {r1, r2}
=============================================================================
