------------------------------ MODULE MCMachine ------------------------------
(***************************************************************************)
(* The console's memory and two of its devices, checked in one run: the    *)
(* two allocators, the sound ring, and the USB controller.  They share no  *)
(* state: in every behaviour one of them moves and the others stay as they *)
(* began.                                                                  *)
(***************************************************************************)
EXTENDS ContigAlloc, Heap, AudioRing, UsbController

VARIABLE part

MCBudgets == {[tds |-> 3, writes |-> 0], [tds |-> 1, writes |-> 1]}

MachineInit ==
  /\ Init /\ HeapInit /\ RingInit /\ UsbInit
  /\ \/ part \in {"contiguous", "heap"} /\ ~overlap /\ budget.writes = 0
     \/ part = "sound" /\ budget.writes = 0
     \/ part = "usb" /\ ~overlap

MachineNext ==
  /\ \/ part = "contiguous" /\ Next /\ UNCHANGED <<heapVars, ringVars, usbVars>>
     \/ part = "heap" /\ HeapNext /\ UNCHANGED <<vars, ringVars, usbVars>>
     \/ part = "sound" /\ RingNext /\ UNCHANGED <<vars, heapVars, usbVars>>
     \/ part = "usb" /\ UsbNext /\ UNCHANGED <<vars, heapVars, ringVars>>
  /\ UNCHANGED part

\* UsbFair, for the controller's own behaviours.
MachineFair ==
  /\ WF_usbVars(part = "usb" /\ HcNext)
  /\ SF_usbVars(part = "usb" /\ HcIsr)
  /\ WF_usbVars(part = "usb" /\ (DriverStore \/ DriverRaise))

MachineSpec ==
  MachineInit /\ [][MachineNext]_<<vars, heapVars, ringVars, usbVars, part>> /\ MachineFair
=============================================================================
