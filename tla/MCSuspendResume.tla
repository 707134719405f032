--------------------------- MODULE MCSuspendResume --------------------------
EXTENDS SuspendResume
CONSTANTS p, q
=============================================================================
