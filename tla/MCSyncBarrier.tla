--------------------------- MODULE MCSyncBarrier ---------------------------
EXTENDS SyncBarrier

CONSTANTS t1, t2, t3, t4
=============================================================================
