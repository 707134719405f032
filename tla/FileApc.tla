------------------------------ MODULE FileApc ------------------------------
(***************************************************************************)
(* How a file request is completed (bridge_NtReadFile, bridge_NtWriteFile, *)
(* bridge_complete_file_io of kernel_bridge.c): the status block, the      *)
(* event, and the user APC, which waits in a ring of the thread that made  *)
(* the request until that thread waits alertably.  The ring is             *)
(* thread-local, so one thread is modelled, and beside it the title's      *)
(* other threads that see its status blocks and events.                    *)
(*                                                                         *)
(* The thread's calls nest: an APC routine is guest code, which makes      *)
(* requests and waits of its own.  RECOMP_APC_INLINE is at its default.    *)
(***************************************************************************)
EXTENDS Integers, Sequences, SequencesExt

CONSTANTS
  ApcRing,       \* BRIDGE_APC_RING
  MaxRequest,    \* bound: requests the title makes
  MaxCalls        \* bound: calls and routines within each other

ASSUME ApcAssumption ==
  /\ ApcRing \in Nat \ {0} /\ MaxRequest \in Nat /\ MaxCalls \in Nat \ {0}

VARIABLES
  calls,     \* the thread's open calls and APC routines, the innermost last
  ring,      \* t_apc_ring, head and count: the pending APCs, oldest first
  request,   \* of each request: has it an event, an APC?
  status,    \* requests whose status block is written
  event,     \* requests whose event is set
  returned,  \* history: requests whose call has returned
  ran        \* history: the APC routines started, in order

apcVars == <<calls, ring, request, status, event, returned, ran>>

Frame(kind, r, at) == [kind |-> kind, of |-> r, at |-> at]

ApcInit ==
  /\ calls = <<>> /\ ring = <<>> /\ request = <<>>
  /\ status = {} /\ event = {} /\ returned = {} /\ ran = <<>>

Inner == calls[Len(calls)]
InCall(kind, at) == calls # <<>> /\ Inner.kind = kind /\ Inner.at = at
AtStep(at) == calls' = [calls EXCEPT ![Len(calls)].at = at]

\* Guest code runs: the title's own, or an APC routine.
GuestRuns == IF calls = <<>> THEN TRUE ELSE Inner.kind = "apc"

\* NtReadFile or NtWriteFile; the transfer itself is done before the call goes on.
Issue ==
  /\ GuestRuns /\ Len(request) < MaxRequest /\ Len(calls) < MaxCalls
  /\ \E ev, apc \in BOOLEAN : request' = Append(request, [event |-> ev, apc |-> apc])
  /\ calls' = Append(calls, Frame("io", Len(request'), "status"))
  /\ UNCHANGED <<ring, status, event, returned, ran>>

\* Faulty: the event before the status block.
WriteStatusLate ==
  /\ InCall("io", "status")
  /\ event' = IF request[Inner.of].event THEN event \cup {Inner.of} ELSE event
  /\ AtStep("event")
  /\ UNCHANGED <<ring, request, status, returned, ran>>

\* bridge_write_iostatus
WriteStatus ==
  /\ InCall("io", "status")
  /\ status' = status \cup {Inner.of}
  /\ AtStep("event")
  /\ UNCHANGED <<ring, request, event, returned, ran>>

SignalEvent ==
  /\ InCall("io", "event")
  /\ event' = IF request[Inner.of].event THEN event \cup {Inner.of} ELSE event
  /\ AtStep(IF request[Inner.of].apc THEN "apc" ELSE "return")
  /\ UNCHANGED <<ring, request, status, returned, ran>>

\* bridge_queue_apc: into the ring, or run here and now if it is full.
QueueApc ==
  /\ InCall("io", "apc")
  /\ IF Len(ring) < ApcRing
     THEN /\ ring' = Append(ring, Inner.of)
          /\ AtStep("return")
          /\ UNCHANGED ran
     ELSE /\ calls' = Append([calls EXCEPT ![Len(calls)].at = "return"],
                             Frame("apc", Inner.of, "inline"))
          /\ ran' = Append(ran, Inner.of)
          /\ UNCHANGED ring
  /\ UNCHANGED <<request, status, event, returned>>

IoReturns ==
  /\ InCall("io", "return")
  /\ returned' = returned \cup {Inner.of}
  /\ calls' = Front(calls)
  /\ UNCHANGED <<ring, request, status, event, ran>>

\* An alertable wait (NtWaitForSingleObjectEx and the others, KeDelayExecutionThread).
AlertableWait ==
  /\ GuestRuns /\ Len(calls) < MaxCalls
  /\ calls' = Append(calls, Frame("wait", 0, "drain"))
  /\ UNCHANGED <<ring, request, status, event, returned, ran>>

\* bridge_deliver_pending_apcs: the oldest is taken out and run.
Deliver ==
  /\ InCall("wait", "drain") /\ ring # <<>>
  /\ ring' = Tail(ring)
  /\ ran' = Append(ran, Head(ring))
  /\ calls' = Append([calls EXCEPT ![Len(calls)].of = 1], Frame("apc", Head(ring), "queued"))
  /\ UNCHANGED <<request, status, event, returned>>

\* Faulty: one APC for each wait.
DrainedAfterOne ==
  /\ InCall("wait", "drain") /\ (ring = <<>> \/ Inner.of = 1)
  /\ IF Inner.of = 1 THEN calls' = Front(calls) ELSE AtStep("block")
  /\ UNCHANGED <<ring, request, status, event, returned, ran>>

\* The ring is empty: the wait reports STATUS_USER_APC if it ran any, else it blocks.
Drained ==
  /\ InCall("wait", "drain") /\ ring = <<>>
  /\ IF Inner.of = 1 THEN calls' = Front(calls) ELSE AtStep("block")
  /\ UNCHANGED <<ring, request, status, event, returned, ran>>

WaitEnds ==
  /\ InCall("wait", "block")
  /\ calls' = Front(calls)
  /\ UNCHANGED <<ring, request, status, event, returned, ran>>

RoutineReturns ==
  /\ calls # <<>> /\ Inner.kind = "apc"
  /\ calls' = Front(calls)
  /\ UNCHANGED <<ring, request, status, event, returned, ran>>

ApcNext ==
  \/ Issue \/ WriteStatus \/ SignalEvent \/ QueueApc \/ IoReturns
  \/ AlertableWait \/ Deliver \/ Drained \/ WaitEnds \/ RoutineReturns

ApcSpec == ApcInit /\ [][ApcNext]_apcVars

-----------------------------------------------------------------------------
(* Properties. *)

Ran == ToSet(ran)
OpenIo == {calls[k].of : k \in {j \in DOMAIN calls : calls[j].kind = "io"}}

\* Every completion is told once (bridge_complete_file_io): a request whose call has
\* returned has its APC in the ring or run, never both, never twice.
ApcOnce ==
  /\ IsInjective(ran) /\ IsInjective(ring) /\ Ran \cap ToSet(ring) = {}
  /\ \A r \in returned : request[r].apc <=> r \in Ran \cup ToSet(ring)
  /\ \A r \in returned : request[r].event <=> r \in event

\* Whoever is told, by an event or an APC, finds the status block written
\* (bridge_NtReadFile).
ToldAfterStatus == event \cup Ran \cup ToSet(ring) \subseteq status

\* "Real kernels never run a user APC before the request returns; neither do we now"
\* (the comment at the ring): so it is for an APC that was queued, and those start in the
\* order of their requests' completion.
QueuedRunsLater ==
  \A k \in DOMAIN calls :
    calls[k].kind = "apc" /\ calls[k].at = "queued" =>
      calls[k].of \in returned /\ calls[k].of \notin OpenIo

QueuedInOrder ==
  [][ran' # ran /\ ring' # ring =>
       Last(ran') = Head(ring) /\ \A r \in ToSet(ring) : r >= Last(ran')]_apcVars

\* An APC does not sleep through an alertable wait, nor is one left behind when the wait
\* reports that it ran some.
NoneSleptThrough ==
  [][calls # <<>> /\ Inner.kind = "wait"
     /\ (Len(calls') < Len(calls) \/ (Len(calls') = Len(calls) /\ calls'[Len(calls)].at = "block"))
     => ring = <<>>]_apcVars

\* A request is told of once, after its status, and not before its call has returned if its
\* APC was queued (bridge_complete_file_io).
ApcInv == ApcOnce /\ ToldAfterStatus /\ QueuedRunsLater

\* The ring is emptied in its order, and wholly by an alertable wait, though the routines it
\* runs wait and make requests themselves (bridge_deliver_pending_apcs).
DeliveryRules == QueuedInOrder /\ NoneSleptThrough
=============================================================================
