--------------------------- MODULE SuspendResume ---------------------------
(***************************************************************************)
(* The loader's hand-off: a worker parks itself with SuspendThread, and    *)
(* other threads announce an item and wake it with ResumeThread.  On the   *)
(* console one CPU orders the two; win32_compat.c keeps a suspend count, a *)
(* bank of resumes that came too early, a gate the parked thread waits at, *)
(* and a bounded wait in ResumeThread until that thread has left the gate. *)
(* A controller also suspends the worker from outside, which the worker    *)
(* obeys at its next checkpoint.  The guest lock is held between kernel    *)
(* calls and dropped across them, except by a time-critical caller.        *)
(***************************************************************************)
EXTENDS Integers, FiniteSets

CONSTANTS
    Worker, Producer, Controller,   \* the threads; Producer is a set
    NoThread,
    Critical,       \* those of them at time-critical priority (tc_keeps_lock)
    Items,          \* bound: how many items are ever announced
    Visits,         \* bound: how often the controller suspends the worker
    MaxBank,        \* the cap on banked resumes (16 in the code)
    Valve,          \* may the 400 ms limit of a self-suspend run out?
    SpinsRunOut     \* may the 2000 polls of a hand-off run out?

Caller == Producer \cup {Controller}
Thread == Caller \cup {Worker}

ASSUME ThreadAssumption ==
    /\ Worker \notin Caller /\ Controller \notin Producer
    /\ NoThread \notin Thread /\ Critical \subseteq Caller
    /\ IsFiniteSet(Producer)
ASSUME BoundAssumption ==
    /\ Items \in Nat /\ Visits \in Nat /\ MaxBank \in Nat /\ Items <= MaxBank
    /\ Valve \in BOOLEAN /\ SpinsRunOut \in BOOLEAN

VARIABLES
    lock,      \* who holds the guest lock
    pc,        \* where each thread is
    count,     \* suspend_count of the worker's thread object
    bank,      \* its pending_resume
    parked,    \* its parked flag
    queue,     \* items announced and not yet taken by the worker
    left,      \* items still to be announced
    visits     \* visits the controller has still to make

vars == <<lock, pc, count, bank, parked, queue, left, visits>>

(* start: the CREATE_SUSPENDED gate.  queued: waiting for the guest lock.   *)
(* guest: guest code.  suspend, resume: in the kernel call, before its      *)
(* critical section on the object.  gate: parked in SuspendThread.          *)
(* checkpoint, checkgate: w32_suspend_checkpoint, before and while parked.  *)
(* handoff: ResumeThread waiting for the gate to be left.  section: the     *)
(* controller between its suspend and its resume.                           *)
WorkerPlace == {"start", "queued", "guest", "suspend", "gate", "checkpoint", "checkgate"}
CallerPlace == {"away", "queued", "guest", "suspend", "suspended", "section",
                "resume", "handoff", "resumed"}

Init ==
    /\ lock = NoThread
    /\ pc = [t \in Thread |-> IF t = Worker THEN "start" ELSE "away"]
    /\ count \in {0, 1}
    /\ bank = 0
    /\ parked = FALSE
    /\ queue = 0
    /\ left = Items
    /\ visits = Visits

Goto(t, place) == pc' = [pc EXCEPT ![t] = place]

(* The kernel dispatcher around a call that blocks. *)
DropLock(t) == lock' = IF lock = t THEN NoThread ELSE lock
DropLockUnlessCritical(t) == IF t \in Critical THEN lock' = lock ELSE DropLock(t)

-----------------------------------------------------------------------------
(* The worker. *)

StartGate ==
    /\ pc[Worker] = "start" /\ count = 0
    /\ Goto(Worker, "queued")
    /\ UNCHANGED <<lock, count, bank, parked, queue, left, visits>>

WorkerTakesLock ==
    /\ pc[Worker] = "queued" /\ lock = NoThread
    /\ lock' = Worker /\ Goto(Worker, "guest")
    /\ UNCHANGED <<count, bank, parked, queue, left, visits>>

(* One trip round the worker's loop: one item, if there is one, and then    *)
(* SuspendThread(self) -- the lock is dropped before the call.              *)
WorkerTrip ==
    /\ pc[Worker] = "guest"
    /\ queue' = IF queue > 0 THEN queue - 1 ELSE 0
    /\ DropLock(Worker) /\ Goto(Worker, "suspend")
    /\ UNCHANGED <<count, bank, parked, left, visits>>

(* A banked resume is consumed instead of parking. *)
SuspendSelf ==
    /\ pc[Worker] = "suspend"
    /\ IF bank > 0
       THEN bank' = bank - 1 /\ Goto(Worker, "queued") /\ UNCHANGED <<count, parked>>
       ELSE count' = count + 1 /\ parked' = TRUE /\ Goto(Worker, "gate") /\ UNCHANGED bank
    /\ UNCHANGED <<lock, queue, left, visits>>

LeaveGate ==
    /\ pc[Worker] = "gate" /\ count = 0
    /\ parked' = FALSE /\ Goto(Worker, "queued")
    /\ UNCHANGED <<lock, count, bank, queue, left, visits>>

(* "Parked, but not forever": after 400 ms the count is reset. *)
ValveOpens ==
    /\ Valve /\ pc[Worker] = "gate" /\ count > 0
    /\ count' = 0 /\ parked' = FALSE /\ Goto(Worker, "queued")
    /\ UNCHANGED <<lock, bank, queue, left, visits>>

(* The function-entry hook sees the count, drops the lock and looks again.  *)
SuspendPending == count > 0 /\ ~parked

(* Faulty: parked at the checkpoint with the lock. *)
MeetCheckpointHolding ==
    /\ pc[Worker] = "guest" /\ SuspendPending
    /\ Goto(Worker, "checkpoint")
    /\ UNCHANGED <<lock, count, bank, parked, queue, left, visits>>

MeetCheckpoint ==
    /\ pc[Worker] = "guest" /\ SuspendPending
    /\ DropLock(Worker) /\ Goto(Worker, "checkpoint")
    /\ UNCHANGED <<count, bank, parked, queue, left, visits>>

Checkpoint ==
    /\ pc[Worker] = "checkpoint"
    /\ IF count > 0
       THEN parked' = TRUE /\ Goto(Worker, "checkgate")
       ELSE Goto(Worker, "queued") /\ UNCHANGED parked
    /\ UNCHANGED <<lock, count, bank, queue, left, visits>>

LeaveCheckpoint ==
    /\ pc[Worker] = "checkgate" /\ count = 0
    /\ parked' = FALSE /\ Goto(Worker, "queued")
    /\ UNCHANGED <<lock, count, bank, queue, left, visits>>

-----------------------------------------------------------------------------
(* The others. *)

(* A caller runs while it has something to do. *)
CallerWakes(t) ==
    /\ pc[t] = "away"
    /\ IF t = Controller THEN visits > 0 ELSE left > 0
    /\ Goto(t, "queued")
    /\ UNCHANGED <<lock, count, bank, parked, queue, left, visits>>

(* The lock comes first, and comes back after each call it was dropped for. *)
CallerTakesLock(t) ==
    /\ pc[t] = "queued" /\ lock = NoThread
    /\ lock' = t /\ Goto(t, "guest")
    /\ UNCHANGED <<count, bank, parked, queue, left, visits>>

Announce(t) ==
    /\ t \in Producer /\ pc[t] = "guest" /\ left > 0
    /\ queue' = queue + 1 /\ left' = left - 1
    /\ DropLockUnlessCritical(t) /\ Goto(t, "resume")
    /\ UNCHANGED <<count, bank, parked, visits>>

NothingToAnnounce(t) ==
    /\ t \in Producer /\ pc[t] = "guest" /\ left = 0
    /\ DropLock(t) /\ Goto(t, "away")
    /\ UNCHANGED <<count, bank, parked, queue, left, visits>>

ControllerSuspends ==
    /\ pc[Controller] = "guest"
    /\ visits' = visits - 1
    /\ DropLockUnlessCritical(Controller) /\ Goto(Controller, "suspend")
    /\ UNCHANGED <<count, bank, parked, queue, left>>

(* Aimed at another thread: counted, and a banked resume is left alone. *)
SuspendOther(t) ==
    /\ pc[t] = "suspend"
    /\ count' = count + 1 /\ Goto(t, "suspended")
    /\ UNCHANGED <<lock, bank, parked, queue, left, visits>>

SuspendReturns(t) ==
    /\ pc[t] = "suspended" /\ lock \in {NoThread, t}
    /\ lock' = t /\ Goto(t, "section")
    /\ UNCHANGED <<count, bank, parked, queue, left, visits>>

ControllerResumes ==
    /\ pc[Controller] = "section"
    /\ DropLockUnlessCritical(Controller) /\ Goto(Controller, "resume")
    /\ UNCHANGED <<count, bank, parked, queue, left, visits>>

(* ResumeThread: count down and open the gate at zero, waiting if a thread  *)
(* is parked there; with nothing to resume, bank the wake-up for the park   *)
(* it was meant for.                                                        *)
(* Faulty: one banked wake-up at most. *)
ResumeBankFlag == bank' = 1

ResumeBank == bank' = IF bank < MaxBank THEN bank + 1 ELSE bank

Resume(t) ==
    /\ pc[t] = "resume"
    /\ IF count > 0
       THEN /\ count' = count - 1
            /\ Goto(t, IF count = 1 /\ parked THEN "handoff" ELSE "resumed")
            /\ UNCHANGED bank
       ELSE ResumeBank /\ Goto(t, "resumed") /\ UNCHANGED count
    /\ UNCHANGED <<lock, parked, queue, left, visits>>

HandoffDone(t) ==
    /\ pc[t] = "handoff"
    /\ ~parked \/ SpinsRunOut
    /\ Goto(t, "resumed")
    /\ UNCHANGED <<lock, count, bank, parked, queue, left, visits>>

(* Back in guest code with the lock, which the thread then lets go of. *)
ResumeReturns(t) ==
    /\ pc[t] = "resumed" /\ lock \in {NoThread, t}
    /\ lock' = NoThread /\ Goto(t, "away")
    /\ UNCHANGED <<count, bank, parked, queue, left, visits>>

WorkerNext ==
    \/ StartGate \/ WorkerTakesLock \/ WorkerTrip \/ SuspendSelf \/ LeaveGate
    \/ ValveOpens \/ MeetCheckpoint \/ Checkpoint \/ LeaveCheckpoint

CallerNext(t) ==
    \/ CallerTakesLock(t) \/ Announce(t) \/ NothingToAnnounce(t)
    \/ SuspendOther(t) \/ SuspendReturns(t) \/ Resume(t) \/ HandoffDone(t)
    \/ ResumeReturns(t)

Next ==
    \/ WorkerNext \/ ControllerSuspends \/ ControllerResumes
    \/ \E t \in Caller : CallerWakes(t) \/ CallerNext(t)

Spec == Init /\ [][Next]_vars

(* Every thread runs; the guest lock starves nobody (GuestLock's            *)
(* QueueServed).  The valve owes nothing, and the controller need not come. *)
FairSpec ==
    /\ Spec
    /\ WF_vars(StartGate) /\ WF_vars(WorkerTrip) /\ WF_vars(SuspendSelf)
    /\ WF_vars(LeaveGate) /\ WF_vars(Checkpoint) /\ WF_vars(LeaveCheckpoint)
    /\ SF_vars(WorkerTakesLock)
    /\ WF_vars(ControllerSuspends) /\ WF_vars(ControllerResumes)
    /\ \A t \in Caller :
          /\ SF_vars(CallerTakesLock(t)) /\ SF_vars(SuspendReturns(t))
          /\ SF_vars(ResumeReturns(t))
          /\ WF_vars(Announce(t)) /\ WF_vars(NothingToAnnounce(t))
          /\ WF_vars(SuspendOther(t)) /\ WF_vars(Resume(t)) /\ WF_vars(HandoffDone(t))
    /\ \A t \in Producer : WF_vars(CallerWakes(t))

-----------------------------------------------------------------------------
TypeOK ==
    /\ lock \in Thread \cup {NoThread}
    /\ pc \in [Thread -> WorkerPlace \cup CallerPlace]
    /\ count \in 0 .. 2
    /\ bank \in 0 .. MaxBank
    /\ parked \in BOOLEAN
    /\ queue \in 0 .. Items
    /\ left \in 0 .. Items
    /\ visits \in 0 .. Visits

(* Somebody is still going to resume the worker. *)
ResumeOwed ==
    \/ \E t \in Producer : pc[t] = "resume"
    \/ pc[Controller] \in {"suspended", "section", "resume"}

(* No wake-up is lost: the worker is never parked with an item waiting and  *)
(* nobody left who owes it a resume -- whatever order the announcements,    *)
(* resumes, suspends from outside, checkpoints and time-outs came in.       *)
NoLostWakeup ==
    pc[Worker] = "gate" /\ count > 0 /\ queue > 0 => ResumeOwed

(* A thread parked at a gate, its own or a checkpoint's, does not hold the  *)
(* lock every other guest thread needs.                                     *)
ParkedWithoutLock == pc[Worker] \in {"gate", "checkgate"} => lock # Worker

(* Every item announced is taken, without help from the valve, and though   *)
(* a time-critical resumer keeps the guest lock while it polls the gate.    *)
ItemsTaken == <>[](queue = 0)

(* Counts in range, and no parked worker with the lock in its hand, by      *)
(* whichever of the three ways it was parked (w32_suspend_checkpoint).      *)
SuspendInv == TypeOK /\ ParkedWithoutLock
=============================================================================
