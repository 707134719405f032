------------------------------ MODULE MCSignals ------------------------------
(***************************************************************************)
(* The GPU's interrupts and the objects guest threads wait on, checked in  *)
(* one run.  They share no state: every behaviour is one of Nv2aInterrupts *)
(* (the objects untouched) or one of HostObjects (the GPU untouched).      *)
(***************************************************************************)
EXTENDS Nv2aInterrupts, HostObjects

CONSTANTS ta, tb, ae, me, ge, sem, mtx

VARIABLE part

MCAny == {<<ae>>, <<ge>>, <<mtx>>, <<ta>>, <<ae, mtx>>}
MCAll == {<<sem, me>>}

SignalsInit ==
  /\ Init /\ WaitInit
  /\ \/ part = "gpu"
     \/ part = "objects" /\ heldUp = FALSE

SignalsNext ==
  /\ \/ part = "gpu" /\ Next /\ UNCHANGED waitVars
     \/ part = "objects" /\ WaitNext /\ UNCHANGED vars
  /\ UNCHANGED part

\* The fairness of Nv2aInterrupts' FairSpec and of WaitFair, each for its own behaviours.
SignalsFair ==
  /\ WF_state(part = "gpu" /\ Connect) /\ WF_state(part = "gpu" /\ Timer)
  /\ SF_state(part = "gpu" /\ Vblank)
  /\ \A c \in Completer : WF_state(part = "gpu" /\ c \in Runs /\ Completes(c))
  /\ WF_state(part = "gpu" /\ AckPass)
  /\ \A t \in Thread : WF_waitVars(part = "objects" /\ Goes(t))

SignalsSpec == SignalsInit /\ [][SignalsNext]_<<vars, waitVars, part>> /\ SignalsFair
=============================================================================
