-------------------------- MODULE MCUsbController --------------------------
EXTENDS UsbController
MCBudgets == {[tds |-> 3, writes |-> 0], [tds |-> 1, writes |-> 1]}
=============================================================================
