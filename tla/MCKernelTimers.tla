--------------------------- MODULE MCKernelTimers ---------------------------
EXTENDS KernelTimers
CONSTANTS ta, tb, tc
=============================================================================
