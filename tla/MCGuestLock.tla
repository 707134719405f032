---------------------------- MODULE MCGuestLock ----------------------------
EXTENDS GuestLock
CONSTANTS a, b, timer
=============================================================================
