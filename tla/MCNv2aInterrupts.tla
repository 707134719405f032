-------------------------- MODULE MCNv2aInterrupts --------------------------
EXTENDS Nv2aInterrupts
=============================================================================
