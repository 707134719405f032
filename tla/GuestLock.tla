----------------------------- MODULE GuestLock -----------------------------
(***************************************************************************)
(* The guest scheduler lock of kernel_bridge.c: "one guest thread runs at  *)
(* a time".  Every guest thread holds it while it runs lifted code and     *)
(* gives it up around a blocking kernel call, at the end of its time slice *)
(* and between two polls of a spin; the kernel timer thread takes it to    *)
(* run interrupt, DPC and synchronize routines.  An idle-priority thread   *)
(* runs outside it, and a thread that another has suspended gives it up at *)
(* its next function entry.                                                *)
(*                                                                         *)
(* Time is abstract: an "age" is how long ago something happened, counted  *)
(* up to SliceRaised, the last value the code tells apart.                 *)
(***************************************************************************)
EXTENDS Integers, FiniteSets

CONSTANTS
    Thread,          \* the threads that run guest code
    Timer,           \* the kernel timer thread, one of them
    NoThread,        \* nobody holds the lock
    IdleTakesLock,   \* RECOMP_LOCK_IDLE: idle threads take the lock too
    HandoffExpires,  \* may RECOMP_HANDOFF_US run out before a waiter is in?
    SliceDue,        \* the age at which a slice ends (RECOMP_SLICE_MS)
    SliceRaised,     \* ... even at raised IRQL (RECOMP_SLICE_RAISED_MS)
    MaxNest,         \* bound: interrupt and DPC routines nested on a thread
    PrioThread,      \* bound: the threads whose priority the title changes
    IrqlThread,      \* bound: the threads that raise their IRQL
    IoThread,        \* bound: the threads that pass an APC to a read
    SuspThread       \* bound: the threads that another thread suspends

ASSUME ThreadAssumption == Timer \in Thread /\ NoThread \notin Thread
ASSUME IdleAssumption   == IdleTakesLock \in BOOLEAN /\ HandoffExpires \in BOOLEAN
ASSUME SliceAssumption  == /\ SliceDue \in Nat /\ SliceRaised \in Nat
                           /\ SliceDue <= SliceRaised
ASSUME BoundAssumption  == /\ MaxNest \in Nat \ {0}
                           /\ PrioThread \subseteq Thread \ {Timer}
                           /\ IrqlThread \subseteq Thread /\ IoThread \subseteq Thread
                           /\ SuspThread \subseteq Thread \ {Timer}

VARIABLES
    lock,        \* who is inside g_guest_lock: g_lock_owner, t_guest_holds
    pc,          \* where each thread is
    prio,        \* its guest priority, which any thread may set by handle
    idle,        \* t_guest_idle: it last decided to run outside the lock
    offered,     \* it is queueing again after having offered its slice
    moved,       \* those standing back that have seen g_lock_acquires move
    sliceOwner,  \* g_slice_owner
    sliceAge,    \* now - g_slice_since
    raised,      \* the thread's IRQL is DISPATCH_LEVEL or above
    nest,        \* t_in_callback
    job,         \* what the timer thread takes the lock for
    apcs,        \* a completed read's APC is queued on the thread
    inApc,       \* the thread runs such an APC, inside an alertable wait
    line,        \* the APU's interrupt line (mcpx_apu_irq_pending_global)
    suspended    \* the threads whose suspend_count is not 0

vars == <<lock, pc, prio, idle, offered, moved, sliceOwner, sliceAge, raised, nest, job, apcs, inApc, line, suspended>>

Priority == {"idle", "normal"}
Age      == 0 .. SliceRaised

(* host: the timer thread between two deliveries.  guest: lifted code runs. *)
(* io, call: inside a kernel call that blocks.  spin: between two polls.    *)
(* offer, standback: the slice has ended.  queued: in EnterCriticalSection. *)
(* parked, stopped: at the suspend checkpoint, come with the lock or not.   *)
Place == {"host", "guest", "io", "call", "spin", "offer", "standback", "queued",
          "parked", "stopped"}

Queue == {t \in Thread : pc[t] = "queued"}    \* g_xbox_guest_cpu_preempt counts it

(* Lifted code runs on t; the timer thread runs some only in a callback. *)
Lifted(t) == pc[t] = "guest" /\ (t = Timer => nest[t] > 0)

Init ==
    /\ lock = NoThread
    /\ pc = [t \in Thread |-> IF t = Timer THEN "host" ELSE "queued"]
    /\ prio = [t \in Thread |-> "normal"]
    /\ idle = [t \in Thread |-> FALSE]
    /\ offered = [t \in Thread |-> FALSE]
    /\ moved = {}
    /\ sliceOwner = NoThread
    /\ sliceAge = 0
    /\ raised = [t \in Thread |-> FALSE]
    /\ nest = [t \in Thread |-> 0]
    /\ job = "none"
    /\ apcs = [t \in Thread |-> FALSE]
    /\ inApc = [t \in Thread |-> FALSE]
    /\ line = FALSE
    /\ suspended = {}

-----------------------------------------------------------------------------
(* The two halves every caller uses. *)

(* Faulty: the exemption latched once granted. *)
ExemptLatched(t) == idle[t] \/ (~IdleTakesLock /\ prio[t] = "idle")

Exempt(t) == ~IdleTakesLock /\ prio[t] = "idle"

(* xbox_guest_lock_release: nothing when this thread does not hold it. *)
Release(t) == lock' = IF lock = t THEN NoThread ELSE lock

(* xbox_guest_lock_acquire up to EnterCriticalSection.  The priority is     *)
(* asked every time.  An exempt thread returns without the lock, and a      *)
(* caller that was offering its slice then writes g_slice_since all the     *)
(* same, from the last time it did take the lock: any age.                  *)
Acquire(t, offering) ==
    /\ idle' = [idle EXCEPT ![t] = Exempt(t)]
    /\ pc' = [pc EXCEPT ![t] = IF Exempt(t) THEN "guest" ELSE "queued"]
    /\ offered' = [offered EXCEPT ![t] = offering /\ ~Exempt(t)]
    /\ IF Exempt(t) /\ offering THEN sliceAge' \in Age ELSE sliceAge' = sliceAge

(* Faulty: a new slice at every retake (RECOMP_SLICE_FROM_RETAKE). *)
TakeRestartsSlice(t) ==
    /\ pc[t] = "queued" /\ lock = NoThread
    /\ lock' = t
    /\ pc' = [pc EXCEPT ![t] = "guest"]
    /\ moved' = {u \in Thread : pc[u] \in {"offer", "standback"}}
    /\ sliceOwner' = t /\ sliceAge' = 0
    /\ offered' = [offered EXCEPT ![t] = FALSE]
    /\ UNCHANGED <<prio, idle, raised, nest, job, apcs, inApc, line, suspended>>

(* The rest of it, once the lock is this thread's: a new slice when the     *)
(* lock changes hands or comes back after an offer.                         *)
Take(t) ==
    /\ pc[t] = "queued" /\ lock = NoThread
    /\ lock' = t
    /\ pc' = [pc EXCEPT ![t] = "guest"]
    /\ moved' = {u \in Thread : pc[u] \in {"offer", "standback"}}
    /\ sliceOwner' = t
    /\ sliceAge' = IF sliceOwner # t \/ offered[t] THEN 0 ELSE sliceAge
    /\ offered' = [offered EXCEPT ![t] = FALSE]
    /\ UNCHANGED <<prio, idle, raised, nest, job, apcs, inApc, line, suspended>>

-----------------------------------------------------------------------------
(* Kernel calls (kernel_thunk_dispatch). *)

(* A file read or write: the lock is dropped across it. *)
FileCall(t) ==
    /\ Lifted(t)
    /\ Release(t)
    /\ pc' = [pc EXCEPT ![t] = "io"]
    /\ UNCHANGED <<prio, idle, offered, moved, sliceOwner, sliceAge, raised, nest, job, apcs, inApc, line, suspended>>

(* A wait: the lock is dropped, and an alertable one first runs the APCs    *)
(* queued on this thread -- guest code, with the lock still dropped.  (An   *)
(* interrupt routine does not wait alertably.)                              *)
WaitCall(t) ==
    /\ Lifted(t)
    /\ Release(t)
    /\ IF apcs[t] /\ nest[t] = 0
       THEN /\ inApc' = [inApc EXCEPT ![t] = TRUE]
            /\ apcs' = [apcs EXCEPT ![t] = FALSE]
            /\ pc' = pc
       ELSE /\ pc' = [pc EXCEPT ![t] = "call"]
            /\ UNCHANGED <<inApc, apcs>>
    /\ UNCHANGED <<prio, idle, offered, moved, sliceOwner, sliceAge, raised, nest, job, line, suspended>>

(* The APC returns into the wait, which reports STATUS_USER_APC at once.  A *)
(* blocking call made by the APC has left the thread holding the lock.      *)
ApcReturns(t) ==
    /\ pc[t] = "guest" /\ inApc[t] /\ nest[t] = 0
    /\ inApc' = [inApc EXCEPT ![t] = FALSE]
    /\ pc' = [pc EXCEPT ![t] = "call"]
    /\ UNCHANGED <<lock, prio, idle, offered, moved, sliceOwner, sliceAge,
                   raised, nest, job, apcs, line, suspended>>

(* Faulty: the call returns without the lock. *)
CallReturnsUnlocked(t) ==
    /\ pc[t] \in {"io", "call"}
    /\ pc' = [pc EXCEPT ![t] = "guest"]
    /\ idle' = [idle EXCEPT ![t] = Exempt(t)]
    /\ UNCHANGED <<lock, prio, offered, moved, sliceOwner, sliceAge, raised, nest,
                   job, apcs, inApc, line, suspended>>

(* The call is over: take the lock back, unless this thread has it.  A      *)
(* finished transfer has queued its APC, if the title passed one.  (One APC *)
(* at a time, and none issued by an APC: a bound.)                          *)
CallReturns(t) ==
    /\ pc[t] \in {"io", "call"}
    /\ \E queued \in (IF pc[t] = "io" /\ ~inApc[t] /\ t \in IoThread
                      THEN BOOLEAN ELSE {FALSE}) :
          apcs' = [apcs EXCEPT ![t] = @ \/ queued]
    /\ IF lock = t
       THEN pc' = [pc EXCEPT ![t] = "guest"] /\ UNCHANGED <<idle, offered, sliceAge>>
       ELSE Acquire(t, FALSE)
    /\ UNCHANGED <<lock, prio, moved, sliceOwner, raised, nest, job, inApc, line, suspended>>

(* The renderer's frame pacing: xbox_guest_lock_drop ... retake(held). *)
PacingWait(t) ==
    /\ Lifted(t) /\ lock = t
    /\ Release(t)
    /\ pc' = [pc EXCEPT ![t] = "call"]
    /\ UNCHANGED <<prio, idle, offered, moved, sliceOwner, sliceAge, raised, nest, job, apcs, inApc, line, suspended>>

(* A thread leaves the lock for good: JSRF's bare spinner, which the port   *)
(* marks, and a thread that sets its own priority to idle.                  *)
MarkIdle(t) ==
    /\ Lifted(t) /\ t \in PrioThread
    /\ Release(t)
    /\ idle' = [idle EXCEPT ![t] = TRUE]
    /\ \/ prio' = prio
       \/ ~IdleTakesLock /\ prio' = [prio EXCEPT ![t] = "idle"]
    /\ UNCHANGED <<pc, offered, moved, sliceOwner, sliceAge, raised, nest, job, apcs, inApc, line, suspended>>

(* Any thread running guest code may change a guest thread's priority. *)
SetPriority(t) ==
    /\ t \in PrioThread
    /\ \E u \in Thread : Lifted(u)
    /\ \E p \in Priority \ {prio[t]} : prio' = [prio EXCEPT ![t] = p]
    /\ UNCHANGED <<lock, pc, idle, offered, moved, sliceOwner, sliceAge, raised, nest, job, apcs, inApc, line, suspended>>

RaiseIrql(t) ==
    /\ Lifted(t) /\ ~raised[t] /\ t \in IrqlThread
    /\ raised' = [raised EXCEPT ![t] = TRUE]
    /\ UNCHANGED <<lock, pc, prio, idle, offered, moved, sliceOwner, sliceAge,
                   nest, job, apcs, inApc, line, suspended>>

LowerIrql(t) ==
    /\ Lifted(t) /\ raised[t]
    /\ raised' = [raised EXCEPT ![t] = FALSE]
    /\ UNCHANGED <<lock, pc, prio, idle, offered, moved, sliceOwner, sliceAge,
                   nest, job, apcs, inApc, line, suspended>>

-----------------------------------------------------------------------------
(* The function-entry hook (xbox_guest_lock_yield_now): a suspend, and the   *)
(* end of a time slice.                                                     *)

(* SuspendThread and ResumeThread by another thread that runs guest code.   *)
Suspend(t) ==
    /\ t \in SuspThread \ suspended
    /\ \E u \in Thread \ {t} : Lifted(u)
    /\ suspended' = suspended \cup {t}
    /\ UNCHANGED <<lock, pc, prio, idle, offered, moved, sliceOwner, sliceAge,
                   raised, nest, job, apcs, inApc, line>>

Resume(t) ==
    /\ t \in suspended
    /\ \E u \in Thread \ {t} : Lifted(u)
    /\ suspended' = suspended \ {t}
    /\ UNCHANGED <<lock, pc, prio, idle, offered, moved, sliceOwner, sliceAge,
                   raised, nest, job, apcs, inApc, line>>

(* A suspended thread lets go of the lock, whatever its IRQL and its slice, *)
(* and stops outside it (w32_suspend_checkpoint) ...                        *)
MeetCheckpoint(t) ==
    /\ Lifted(t) /\ t \in suspended
    /\ Release(t)
    /\ pc' = [pc EXCEPT ![t] = IF lock = t THEN "parked" ELSE "stopped"]
    /\ UNCHANGED <<prio, idle, offered, moved, sliceOwner, sliceAge, raised,
                   nest, job, apcs, inApc, line, suspended>>

(* ... until it has been resumed, and takes it back if it had it.           *)
LeaveCheckpoint(t) ==
    /\ t \notin suspended
    /\ \/ pc[t] = "parked" /\ Acquire(t, FALSE)
       \/ /\ pc[t] = "stopped" /\ pc' = [pc EXCEPT ![t] = "guest"]
          /\ UNCHANGED <<idle, offered, sliceAge>>
    /\ UNCHANGED <<lock, prio, moved, sliceOwner, raised, nest, job, apcs, inApc,
                   line, suspended>>

(* Faulty: the slice ends whatever the IRQL; or never while it is raised. *)
SliceEndsAnyIrql(t)   == sliceAge >= SliceDue
SliceEndsLowIrqlOnly(t) == sliceAge >= SliceDue /\ ~(raised[t] \/ nest[t] > 0)

(* The console switches no threads at DISPATCH_LEVEL or inside an interrupt *)
(* or DPC; past SliceRaised the lock is handed over anyway.                 *)
SliceEnds(t) ==
    /\ sliceAge >= SliceDue
    /\ sliceAge >= SliceRaised \/ ~(raised[t] \/ nest[t] > 0)

YieldNow(t) ==
    /\ Lifted(t) /\ lock = t
    /\ SliceEnds(t)
    /\ Release(t)
    /\ pc' = [pc EXCEPT ![t] = "offer"]
    /\ UNCHANGED <<prio, idle, offered, moved, sliceOwner, sliceAge, raised,
                   nest, job, apcs, inApc, line, suspended>>

(* With someone queueing, stand back; with nobody, one SwitchToThread. *)
Offer(t) ==
    /\ pc[t] = "offer"
    /\ IF Queue # {}
       THEN /\ pc' = [pc EXCEPT ![t] = "standback"]
            /\ UNCHANGED <<idle, offered, sliceAge, moved>>
       ELSE Acquire(t, TRUE) /\ moved' = moved \ {t}
    /\ UNCHANGED <<lock, prio, sliceOwner, raised, nest, job,
                   apcs, inApc, line, suspended>>

(* ... until a take has been seen, or RECOMP_HANDOFF_US has run out. *)
StandBackEnds(t) ==
    /\ pc[t] = "standback"
    /\ t \in moved \/ HandoffExpires
    /\ Acquire(t, TRUE)
    /\ moved' = moved \ {t}
    /\ UNCHANGED <<lock, prio, sliceOwner, raised, nest, job,
                   apcs, inApc, line, suspended>>

-----------------------------------------------------------------------------
(* Spins and interrupts. *)

(* recomp_guest_spin_yield: stand back between two polls ... *)
SpinPoll(t) ==
    /\ Lifted(t)
    /\ Release(t)
    /\ pc' = [pc EXCEPT ![t] = "spin"]
    /\ UNCHANGED <<prio, idle, offered, moved, sliceOwner, sliceAge, raised, nest, job, apcs, inApc, line, suspended>>

SpinReturns(t) ==
    /\ pc[t] = "spin"
    /\ Acquire(t, FALSE)
    /\ UNCHANGED <<lock, prio, moved, sliceOwner, raised, nest, job,
                   apcs, inApc, line, suspended>>

(* ... and take a pending APU interrupt on this very thread, at any IRQL;   *)
(* a loop back edge does the same (xbox_GuestCpuPreempt).                   *)
InterruptHere(t) ==
    /\ Lifted(t)
    /\ (lock = t) \/ idle[t]
    /\ line /\ nest[t] < MaxNest
    /\ nest' = [nest EXCEPT ![t] = @ + 1]
    /\ UNCHANGED <<lock, pc, prio, idle, offered, moved, sliceOwner, sliceAge,
                   raised, job, apcs, inApc, line, suspended>>

(* The handler acknowledges the line (or declines it) and returns to what   *)
(* it interrupted.                                                          *)
HandlerReturns(t) ==
    /\ pc[t] = "guest"
    /\ nest[t] > (IF t = Timer THEN 1 ELSE 0)
    /\ nest' = [nest EXCEPT ![t] = @ - 1]
    /\ line' = FALSE
    /\ UNCHANGED <<lock, pc, prio, idle, offered, moved, sliceOwner, sliceAge,
                   raised, job, apcs, inApc, suspended>>

(* The device raises its line. *)
LineRises ==
    /\ ~line /\ line' = TRUE
    /\ UNCHANGED <<lock, pc, prio, idle, offered, moved, sliceOwner, sliceAge,
                   raised, nest, job, apcs, inApc, suspended>>

(* The timer thread's tick: the vertical blank, a software method or a DPC, *)
(* or the APU's line when it looks pending.                                 *)
TimerWants ==
    /\ pc[Timer] = "host"
    /\ \E j \in (IF line THEN {"apu", "other"} ELSE {"other"}) : job' = j
    /\ Acquire(Timer, FALSE)
    /\ UNCHANGED <<lock, prio, moved, sliceOwner, raised, nest, apcs,
                   inApc, line, suspended>>

(* Faulty: the line looked at before the lock only. *)
TimerDeliversUnchecked ==
    /\ pc[Timer] = "guest" /\ nest[Timer] = 0
    /\ nest' = [nest EXCEPT ![Timer] = 1]
    /\ UNCHANGED <<lock, pc, prio, idle, offered, moved, sliceOwner, sliceAge,
                   raised, job, apcs, inApc, line, suspended>>

(* The line is level-triggered: looked at again once the lock is held. *)
TimerDelivers ==
    /\ pc[Timer] = "guest" /\ nest[Timer] = 0
    /\ job = "other" \/ line
    /\ nest' = [nest EXCEPT ![Timer] = 1]
    /\ UNCHANGED <<lock, pc, prio, idle, offered, moved, sliceOwner, sliceAge,
                   raised, job, apcs, inApc, line, suspended>>

TimerFindsNothing ==
    /\ pc[Timer] = "guest" /\ nest[Timer] = 0
    /\ job = "apu" /\ ~line
    /\ Release(Timer)
    /\ pc' = [pc EXCEPT ![Timer] = "host"]
    /\ job' = "none"
    /\ UNCHANGED <<prio, idle, offered, moved, sliceOwner, sliceAge, raised, nest, apcs, inApc, line, suspended>>

TimerReturns ==
    /\ pc[Timer] = "guest" /\ nest[Timer] = 1
    /\ ~raised[Timer]
    /\ nest' = [nest EXCEPT ![Timer] = 0]
    /\ line' = (line /\ job # "apu")
    /\ Release(Timer)
    /\ pc' = [pc EXCEPT ![Timer] = "host"]
    /\ job' = "none"
    /\ UNCHANGED <<prio, idle, offered, moved, sliceOwner, sliceAge, raised, apcs, inApc, suspended>>

(* A millisecond passes, while the slice's age can still tell it. *)
Tick ==
    /\ sliceAge < SliceRaised
    /\ sliceAge' = sliceAge + 1
    /\ UNCHANGED <<lock, pc, prio, idle, offered, moved, sliceOwner, raised,
                   nest, job, apcs, inApc, line, suspended>>

Next ==
    \/ LineRises \/ Tick
    \/ TimerWants \/ TimerDelivers \/ TimerFindsNothing \/ TimerReturns
    \/ \E t \in Thread :
          \/ Take(t) \/ FileCall(t) \/ WaitCall(t) \/ ApcReturns(t)
          \/ CallReturns(t) \/ PacingWait(t) \/ MarkIdle(t) \/ SetPriority(t)
          \/ RaiseIrql(t) \/ LowerIrql(t)
          \/ Suspend(t) \/ Resume(t) \/ MeetCheckpoint(t) \/ LeaveCheckpoint(t)
          \/ YieldNow(t) \/ Offer(t) \/ StandBackEnds(t)
          \/ SpinPoll(t) \/ SpinReturns(t) \/ InterruptHere(t) \/ HandlerReturns(t)

Spec == Init /\ [][Next]_vars

(* What the code and the host's scheduler owe.  A thread that can move      *)
(* moves; a call ends; time passes.  A thread that keeps running guest code *)
(* comes to the function-entry hook again and again, kernel calls in        *)
(* between or not (the entry counter only grows), and an interrupt routine  *)
(* ends after finitely many calls: hence strong fairness there.  Nobody     *)
(* need resume a thread that was suspended.  Nothing is                     *)
(* assumed of the lock's own fairness beyond this: a thread that finds it   *)
(* free for good gets it.                                                   *)
Progress(t) ==
    /\ WF_vars(Take(t) \/ CallReturns(t) \/ Offer(t) \/ StandBackEnds(t)
               \/ SpinReturns(t) \/ LeaveCheckpoint(t))
    /\ SF_vars(HandlerReturns(t)) /\ SF_vars(YieldNow(t) \/ MeetCheckpoint(t))

TimerProgress ==
    /\ WF_vars(TimerWants \/ TimerDelivers \/ TimerFindsNothing)
    /\ SF_vars(TimerReturns)
    /\ SF_vars(TimerWants /\ job' = "apu")    \* every pass looks at the line

FairSpec == Spec /\ WF_vars(Tick) /\ TimerProgress /\ \A t \in Thread : Progress(t)

-----------------------------------------------------------------------------
TypeOK ==
    /\ lock \in Thread \cup {NoThread}
    /\ pc \in [Thread -> Place]
    /\ prio \in [Thread -> Priority]
    /\ idle \in [Thread -> BOOLEAN]
    /\ offered \in [Thread -> BOOLEAN]
    /\ moved \in SUBSET Thread
    /\ sliceOwner \in Thread \cup {NoThread}
    /\ sliceAge \in Age
    /\ raised \in [Thread -> BOOLEAN]
    /\ nest \in [Thread -> 0 .. MaxNest]
    /\ job \in {"none", "apu", "other"}
    /\ apcs \in [Thread -> BOOLEAN]
    /\ inApc \in [Thread -> BOOLEAN]
    /\ line \in BOOLEAN
    /\ suspended \subseteq SuspThread

(* This thread runs lifted code that the lock is meant to serialise: not an *)
(* idle-priority thread's, and not an APC run from inside a wait.           *)
Serialised(t) == Lifted(t) /\ ~idle[t] /\ ~inApc[t]

(* The thread's place in the code agrees with what it holds. *)
HolderPlaces ==
    \A t \in Thread :
        /\ lock = t => pc[t] \in {"guest", "call"}
        /\ pc[t] = "guest" => lock = t \/ idle[t] \/ inApc[t]
        /\ pc[t] = "stopped" => idle[t] \/ inApc[t]
        /\ idle[t] => lock # t /\ pc[t] # "queued"
        /\ pc[t] = "host" <=> t = Timer /\ job = "none"

(* "One guest thread runs at a time": two threads never run serialised      *)
(* guest code together, whatever calls, hand-overs, interrupts and          *)
(* priority changes came before.                                            *)
OneGuestRuns ==
    \A t, u \in Thread : t # u => ~(Serialised(t) /\ Serialised(u))

(* The same for all guest code but an idle thread's: what the comment at    *)
(* the lock promises ("a thread holds it while running guest code").        *)
GuestCodeHoldsLock ==
    \A t \in Thread : Lifted(t) /\ ~idle[t] => lock = t

(* The exemption is asked every time, not latched: a thread that comes back *)
(* to guest code from a kernel call, a spin, a hand-over or a suspension    *)
(* that took the lock from it holds the lock, unless its priority is idle   *)
(* at that moment.                                                          *)
IdleIsNotLatched ==
    [][\A t \in Thread :
          pc[t] \notin {"guest", "stopped"} /\ pc'[t] = "guest" =>
             lock' = t \/ prio[t] = "idle"]_vars

(* The console switches no threads at raised IRQL or inside an interrupt or *)
(* DPC: there a thread loses the lock early only by a call of its own, or   *)
(* because another thread has suspended it (a suspend is not put off).      *)
NoSwitchWhenRaised ==
    [][\A t \in Thread :
          /\ lock = t /\ lock' # t
          /\ raised[t] \/ nest[t] > 0
          /\ sliceAge < SliceRaised
          => \/ pc'[t] \in {"io", "call", "spin", "host"} \/ inApc'[t] \/ idle'[t]
             \/ t \in suspended /\ pc'[t] = "parked"]_vars

(* The APU's handler runs on the timer thread only for a line still up: the *)
(* thread that held the lock may have taken the interrupt itself meanwhile. *)
NoStaleInterrupt ==
    [][job = "apu" /\ nest'[Timer] > nest[Timer] /\ nest[Timer] = 0 => line]_vars

(* A busy thread cannot keep the rest out, even one whose kernel calls all  *)
(* return before a waiter has woken, or one that spins at raised IRQL: if   *)
(* somebody queues, somebody else gets the lock.  (The timer thread keeps   *)
(* it for a routine only: QueueServed.)                                     *)
HandOver ==
    \A t \in Thread \ {Timer} : (lock = t /\ Queue # {}) ~> (lock \in Thread \ {t})


(* A pending APU interrupt is delivered, though the thread that waits for   *)
(* it may spin at raised IRQL with the lock in its hand.                    *)
InterruptReaches == line ~> ~line

(* Guest code is serialised, with what makes it so: every thread's place    *)
(* agrees with whether it holds g_guest_lock.                               *)
LockInv == TypeOK /\ HolderPlaces /\ OneGuestRuns
=============================================================================
