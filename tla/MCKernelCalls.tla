---------------------------- MODULE MCKernelCalls ----------------------------
(***************************************************************************)
(* What guest threads do in the kernel, checked in one run: the scheduler  *)
(* lock, the title's critical sections, its handles, its file requests.    *)
(* The four share no state: in every behaviour one of them moves and the   *)
(* others stay as they began.                                              *)
(***************************************************************************)
EXTENDS GuestLock, CriticalSections, ObjectHandles, FileApc

VARIABLE part

CallsInit ==
  /\ Init /\ CsInit /\ HandleInit /\ ApcInit
  /\ \/ part \in {"lock", "handles", "apc"} /\ ~racing
     \/ part = "section"

CallsNext ==
  /\ \/ part = "lock" /\ Next /\ UNCHANGED <<csVars, handleVars, apcVars>>
     \/ part = "section" /\ CsNext /\ UNCHANGED <<vars, handleVars, apcVars>>
     \/ part = "handles" /\ HandleNext /\ UNCHANGED <<vars, csVars, apcVars>>
     \/ part = "apc" /\ ApcNext /\ UNCHANGED <<vars, csVars, handleVars>>
  /\ UNCHANGED part

CallsSpec == CallsInit /\ [][CallsNext]_<<vars, csVars, handleVars, apcVars, part>>
=============================================================================
