--------------------------- MODULE GuestLockProofs ---------------------------
(***************************************************************************)
(* What TLAPS proves of GuestLock for every set of threads, every slice    *)
(* length, nesting bound and choice of the RECOMP_ switches: the types and *)
(* the holder's places are inductive together, and guest code is           *)
(* serialised because of them.                                             *)
(***************************************************************************)
EXTENDS GuestLock, TLAPS

IInv == TypeOK /\ HolderPlaces

USE ThreadAssumption, IdleAssumption, SliceAssumption, BoundAssumption

LEMMA InitIInv == Init => IInv
<1> SUFFICES ASSUME Init PROVE IInv
  OBVIOUS
<1>1. TypeOK
  <2>1. lock \in Thread \cup {NoThread} /\ sliceOwner \in Thread \cup {NoThread}
    BY DEF Init
  <2>2. pc \in [Thread -> Place]
    BY DEF Init, Place
  <2>3. prio \in [Thread -> Priority] /\ nest \in [Thread -> 0 .. MaxNest]
    BY DEF Init, Priority
  <2>4. idle \in [Thread -> BOOLEAN] /\ offered \in [Thread -> BOOLEAN]
    BY DEF Init
  <2>5. raised \in [Thread -> BOOLEAN] /\ apcs \in [Thread -> BOOLEAN] /\ inApc \in [Thread -> BOOLEAN]
    BY DEF Init
  <2>6. moved \in SUBSET Thread /\ sliceAge \in Age /\ job \in {"none", "apu", "other"}
    BY DEF Init, Age
  <2>7. line \in BOOLEAN /\ suspended \subseteq SuspThread
    BY DEF Init
  <2> QED BY <2>1, <2>2, <2>3, <2>4, <2>5, <2>6, <2>7 DEF TypeOK
<1>2. HolderPlaces
  BY DEF Init, HolderPlaces
<1> QED BY <1>1, <1>2 DEF IInv

(* xbox_guest_lock_acquire, for a thread that does not hold the lock, keeps *)
(* the types and leaves the thread queueing, or in guest code as an idle one. *)
LEMMA AcquireEffect ==
  ASSUME TypeOK, NEW t \in Thread, NEW offering \in BOOLEAN, Acquire(t, offering)
  PROVE  /\ pc' \in [Thread -> Place] /\ idle' \in [Thread -> BOOLEAN]
         /\ offered' \in [Thread -> BOOLEAN] /\ sliceAge' \in Age
         /\ \/ pc'[t] = "guest" /\ idle'[t]
            \/ pc'[t] = "queued" /\ ~idle'[t]
         /\ \A u \in Thread \ {t} : pc'[u] = pc[u] /\ idle'[u] = idle[u]
<1>1. Exempt(t) \in BOOLEAN
  BY DEF Exempt
<1>2. idle' \in [Thread -> BOOLEAN] /\ idle'[t] = Exempt(t)
  BY <1>1 DEF Acquire, TypeOK
<1>3. offered' \in [Thread -> BOOLEAN]
  BY <1>1 DEF Acquire, TypeOK
<1>4. sliceAge' \in Age
  BY DEF Acquire, TypeOK
<1>5. pc' \in [Thread -> Place] /\ pc'[t] = (IF Exempt(t) THEN "guest" ELSE "queued")
  BY DEF Acquire, TypeOK, Place
<1>6. \A u \in Thread \ {t} : pc'[u] = pc[u] /\ idle'[u] = idle[u]
  BY DEF Acquire, TypeOK
<1> QED BY <1>1, <1>2, <1>3, <1>4, <1>5, <1>6

(* Taking the lock. *)
LEMMA TakeIInv == ASSUME IInv, NEW t \in Thread, Take(t) PROVE IInv'
<1>1. TypeOK'
  BY DEF IInv, TypeOK, Take, Age, Place
<1>2. HolderPlaces'
  BY DEF IInv, TypeOK, HolderPlaces, Take
<1> QED BY <1>1, <1>2 DEF IInv

(* Kernel calls and waits drop the lock or keep where it is. *)
LEMMA CallIInv ==
  ASSUME IInv, NEW t \in Thread,
         \/ FileCall(t) \/ WaitCall(t) \/ ApcReturns(t) \/ PacingWait(t)
         \/ SpinPoll(t) \/ YieldNow(t) \/ MeetCheckpoint(t)
  PROVE  IInv'
<1>1. CASE FileCall(t) \/ PacingWait(t) \/ SpinPoll(t) \/ YieldNow(t) \/ MeetCheckpoint(t)
  <2>1. /\ pc' \in [Thread -> Place] /\ lock' \in Thread \cup {NoThread}
        /\ pc[t] = "guest" /\ pc'[t] \in {"io", "call", "spin", "offer", "parked", "stopped"}
        /\ pc'[t] = "stopped" => lock # t
        /\ \A u \in Thread \ {t} : pc'[u] = pc[u]
        /\ lock' = IF lock = t THEN NoThread ELSE lock
    BY <1>1 DEF IInv, TypeOK, FileCall, PacingWait, SpinPoll, YieldNow, MeetCheckpoint, Release, Lifted, Place
  <2>2. UNCHANGED <<prio, idle, offered, moved, sliceOwner, sliceAge, raised, nest, job, apcs, inApc, line, suspended>>
    BY <1>1 DEF FileCall, PacingWait, SpinPoll, YieldNow, MeetCheckpoint
  <2>3. TypeOK'
    BY <2>1, <2>2 DEF IInv, TypeOK
  <2>4. HolderPlaces'
    BY <2>1, <2>2 DEF IInv, HolderPlaces
  <2> QED BY <2>3, <2>4 DEF IInv
<1>2. CASE WaitCall(t)
  <2>1. /\ lock' \in Thread \cup {NoThread} /\ lock' = IF lock = t THEN NoThread ELSE lock
        /\ pc[t] = "guest"
        /\ \/ pc' = pc /\ inApc' = [inApc EXCEPT ![t] = TRUE] /\ apcs' = [apcs EXCEPT ![t] = FALSE]
           \/ pc' = [pc EXCEPT ![t] = "call"] /\ inApc' = inApc /\ apcs' = apcs
    BY <1>2 DEF IInv, TypeOK, WaitCall, Release, Lifted
  <2>2. UNCHANGED <<prio, idle, offered, moved, sliceOwner, sliceAge, raised, nest, job, line, suspended>>
    BY <1>2 DEF WaitCall
  <2>3. TypeOK'
    BY <2>1, <2>2 DEF IInv, TypeOK, Place
  <2>4. /\ \/ pc'[t] = "guest" /\ inApc'[t]
           \/ pc'[t] = "call"
        /\ \A u \in Thread \ {t} : pc'[u] = pc[u] /\ inApc'[u] = inApc[u]
    BY <2>1 DEF IInv, TypeOK
  <2>5. HolderPlaces'
    BY <2>1, <2>2, <2>4 DEF IInv, HolderPlaces
  <2> QED BY <2>3, <2>5 DEF IInv
<1>3. CASE ApcReturns(t)
  <2>1. TypeOK'
    BY <1>3 DEF IInv, TypeOK, ApcReturns, Place
  <2>2. /\ pc[t] = "guest" /\ pc'[t] = "call" /\ inApc[t]
        /\ \A u \in Thread \ {t} : pc'[u] = pc[u] /\ inApc'[u] = inApc[u]
        /\ lock' = lock /\ idle' = idle /\ job' = job
    BY <1>3 DEF IInv, TypeOK, ApcReturns
  <2>3. HolderPlaces'
    BY <2>2 DEF IInv, HolderPlaces
  <2> QED BY <2>1, <2>3 DEF IInv
<1> QED BY <1>1, <1>2, <1>3

(* Coming back from them takes it again. *)
LEMMA ReturnIInv ==
  ASSUME IInv, NEW t \in Thread,
         \/ CallReturns(t) \/ SpinReturns(t) \/ Offer(t) \/ StandBackEnds(t)
         \/ LeaveCheckpoint(t)
  PROVE  IInv'
<1>1. CASE CallReturns(t)
  <2>0. UNCHANGED <<lock, prio, moved, sliceOwner, raised, nest, job, inApc, line, suspended>> /\ apcs' \in [Thread -> BOOLEAN]
    BY <1>1 DEF IInv, TypeOK, CallReturns
  <2>1. CASE lock = t
    <3>1. TypeOK'
      BY <1>1, <2>0, <2>1 DEF IInv, TypeOK, CallReturns, Place
    <3>2. HolderPlaces'
      BY <1>1, <2>0, <2>1 DEF IInv, TypeOK, HolderPlaces, CallReturns
    <3> QED BY <3>1, <3>2 DEF IInv
  <2>2. CASE lock # t
    <3>1. Acquire(t, FALSE) /\ pc[t] \in {"io", "call"}
      BY <1>1, <2>2 DEF CallReturns
    <3>2. TypeOK'
      BY <2>0, <3>1, AcquireEffect DEF IInv, TypeOK
    <3>3. HolderPlaces'
      BY <2>0, <2>2, <3>1, AcquireEffect DEF IInv, HolderPlaces
    <3> QED BY <3>2, <3>3 DEF IInv
  <2> QED BY <2>1, <2>2
<1>2. CASE SpinReturns(t) \/ (LeaveCheckpoint(t) /\ pc[t] # "stopped")
  <2>1. /\ Acquire(t, FALSE) /\ pc[t] \in {"spin", "parked"}
        /\ UNCHANGED <<lock, prio, moved, sliceOwner, raised, nest, job, apcs, inApc, line, suspended>>
    BY <1>2 DEF SpinReturns, LeaveCheckpoint
  <2>2. TypeOK'
    BY <2>1, AcquireEffect DEF IInv, TypeOK
  <2>3. HolderPlaces'
    BY <2>1, AcquireEffect DEF IInv, HolderPlaces
  <2> QED BY <2>2, <2>3 DEF IInv
<1>3. CASE Offer(t) /\ Queue # {}
  <2>1. /\ pc[t] = "offer" /\ pc' = [pc EXCEPT ![t] = "standback"]
        /\ UNCHANGED <<lock, prio, idle, offered, moved, sliceOwner, sliceAge, raised,
                       nest, job, apcs, inApc, line, suspended>>
    BY <1>3 DEF Offer
  <2>2. TypeOK'
    BY <2>1 DEF IInv, TypeOK, Place
  <2>3. HolderPlaces'
    BY <2>1 DEF IInv, TypeOK, HolderPlaces
  <2> QED BY <2>2, <2>3 DEF IInv
<1>4. CASE (Offer(t) /\ Queue = {}) \/ StandBackEnds(t)
  <2>1. /\ Acquire(t, TRUE) /\ pc[t] \in {"offer", "standback"} /\ moved' = moved \ {t}
        /\ UNCHANGED <<lock, prio, sliceOwner, raised, nest, job, apcs, inApc, line, suspended>>
    BY <1>4 DEF Offer, StandBackEnds
  <2>2. TypeOK'
    BY <2>1, AcquireEffect DEF IInv, TypeOK
  <2>3. HolderPlaces'
    BY <2>1, AcquireEffect DEF IInv, HolderPlaces
  <2> QED BY <2>2, <2>3 DEF IInv
<1>5. CASE LeaveCheckpoint(t) /\ pc[t] = "stopped"
  <2>1. /\ pc' = [pc EXCEPT ![t] = "guest"]
        /\ UNCHANGED <<lock, prio, idle, offered, moved, sliceOwner, sliceAge, raised,
                       nest, job, apcs, inApc, line, suspended>>
    BY <1>5 DEF LeaveCheckpoint
  <2>2. TypeOK'
    BY <2>1 DEF IInv, TypeOK, Place
  <2>3. HolderPlaces'
    BY <1>5, <2>1 DEF IInv, TypeOK, HolderPlaces
  <2> QED BY <2>2, <2>3 DEF IInv
<1> QED BY <1>1, <1>2, <1>3, <1>4, <1>5

(* Priorities, IRQL and interrupts leave the lock alone, and a thread that  *)
(* marks itself idle lets go of it first.                                   *)
LEMMA LocalIInv ==
  ASSUME IInv, NEW t \in Thread,
         \/ MarkIdle(t) \/ SetPriority(t) \/ RaiseIrql(t) \/ LowerIrql(t)
         \/ InterruptHere(t) \/ HandlerReturns(t) \/ Suspend(t) \/ Resume(t)
  PROVE  IInv'
<1>1. CASE MarkIdle(t)
  <2>1. TypeOK'
    BY <1>1 DEF IInv, TypeOK, MarkIdle, Release, Priority
  <2>2. HolderPlaces'
    BY <1>1 DEF IInv, TypeOK, HolderPlaces, MarkIdle, Release, Lifted
  <2> QED BY <2>1, <2>2 DEF IInv
<1>2. CASE SetPriority(t)
  BY <1>2 DEF IInv, TypeOK, HolderPlaces, SetPriority
<1>3. CASE RaiseIrql(t) \/ LowerIrql(t)
  <2>1. /\ raised' \in [Thread -> BOOLEAN]
        /\ UNCHANGED <<lock, pc, prio, idle, offered, moved, sliceOwner, sliceAge,
                       nest, job, apcs, inApc, line, suspended>>
    BY <1>3 DEF IInv, TypeOK, RaiseIrql, LowerIrql
  <2>2. TypeOK'
    BY <2>1 DEF IInv, TypeOK
  <2>3. HolderPlaces'
    BY <2>1 DEF IInv, HolderPlaces
  <2> QED BY <2>2, <2>3 DEF IInv
<1>4. CASE InterruptHere(t)
  BY <1>4 DEF IInv, TypeOK, HolderPlaces, InterruptHere
<1>5. CASE HandlerReturns(t)
  <2>1. nest' \in [Thread -> 0 .. MaxNest]
    BY <1>5 DEF IInv, TypeOK, HandlerReturns
  <2> QED BY <1>5, <2>1 DEF IInv, TypeOK, HolderPlaces, HandlerReturns
<1>6. CASE Suspend(t) \/ Resume(t)
  BY <1>6 DEF IInv, TypeOK, HolderPlaces, Suspend, Resume
<1> QED BY <1>1, <1>2, <1>3, <1>4, <1>5, <1>6

(* The timer thread, the device and the clock. *)
LEMMA TimerIInv ==
  ASSUME IInv,
         \/ TimerWants \/ TimerDelivers \/ TimerFindsNothing \/ TimerReturns
         \/ LineRises \/ Tick
  PROVE  IInv'
<1>1. CASE TimerWants
  <2>1. /\ Acquire(Timer, FALSE) /\ pc[Timer] = "host"
        /\ job' \in {"apu", "other"}
        /\ UNCHANGED <<lock, prio, moved, sliceOwner, raised, nest, apcs, inApc, line, suspended>>
    BY <1>1 DEF TimerWants
  <2>2. TypeOK'
    BY <2>1, AcquireEffect DEF IInv, TypeOK
  <2>3. HolderPlaces'
    BY <2>1, AcquireEffect DEF IInv, HolderPlaces
  <2> QED BY <2>2, <2>3 DEF IInv
<1>2. CASE TimerDelivers
  BY <1>2 DEF IInv, TypeOK, HolderPlaces, TimerDelivers
<1>3. CASE TimerFindsNothing
  BY <1>3 DEF IInv, TypeOK, HolderPlaces, TimerFindsNothing, Release, Place
<1>4. CASE TimerReturns
  <2>1. /\ lock' \in Thread \cup {NoThread} /\ lock' = IF lock = Timer THEN NoThread ELSE lock
        /\ pc[Timer] = "guest" /\ pc' = [pc EXCEPT ![Timer] = "host"] /\ job' = "none"
    BY <1>4 DEF IInv, TypeOK, TimerReturns, Release
  <2>2. nest' \in [Thread -> 0 .. MaxNest]
    BY <1>4 DEF IInv, TypeOK, TimerReturns
  <2>3. line' \in BOOLEAN
    BY <1>4 DEF IInv, TypeOK, TimerReturns
  <2>4. UNCHANGED <<prio, idle, offered, moved, sliceOwner, sliceAge, raised, apcs, inApc, suspended>>
    BY <1>4 DEF TimerReturns
  <2>5. TypeOK'
    BY <2>1, <2>2, <2>3, <2>4 DEF IInv, TypeOK, Place
  <2>6. pc'[Timer] = "host" /\ \A u \in Thread \ {Timer} : pc'[u] = pc[u]
    BY <2>1 DEF IInv, TypeOK
  <2>7. HolderPlaces'
    BY <2>1, <2>4, <2>6 DEF IInv, HolderPlaces
  <2> QED BY <2>5, <2>7 DEF IInv
<1>5. CASE LineRises
  BY <1>5 DEF IInv, TypeOK, HolderPlaces, LineRises
<1>6. CASE Tick
  <2>1. sliceAge' \in Age
    BY <1>6 DEF IInv, TypeOK, Tick, Age
  <2> QED BY <1>6, <2>1 DEF IInv, TypeOK, HolderPlaces, Tick
<1> QED BY <1>1, <1>2, <1>3, <1>4, <1>5, <1>6

(* The types and the holder's places are an invariant of the lock. *)
THEOREM IInvHolds == Spec => []IInv
<1>1. IInv /\ [Next]_vars => IInv'
  <2> SUFFICES ASSUME IInv, [Next]_vars PROVE IInv'
    OBVIOUS
  <2>1. CASE UNCHANGED vars
    BY <2>1 DEF IInv, TypeOK, HolderPlaces, vars
  <2>2. CASE Next
    BY <2>2, TakeIInv, CallIInv, ReturnIInv, LocalIInv, TimerIInv DEF Next
  <2> QED BY <2>1, <2>2
<1> QED BY InitIInv, <1>1, PTL DEF Spec

(* Type correctness: every variable of the lock keeps its type. *)
THEOREM TypeCorrect == Spec => []TypeOK
BY IInvHolds, PTL DEF IInv

(* Where a thread is agrees with whether it holds the lock.                 *)
THEOREM HolderPlacesHolds == Spec => []HolderPlaces
BY IInvHolds, PTL DEF IInv

(* "One guest thread runs at a time": no two threads run serialised guest   *)
(* code together, for any number of threads.                                *)
THEOREM MutualExclusion == Spec => []OneGuestRuns
<1>1. IInv => OneGuestRuns
  BY DEF IInv, HolderPlaces, OneGuestRuns, Serialised, Lifted
<1> QED BY IInvHolds, <1>1, PTL

(* What one step does to a thread's place: it comes back to guest code with *)
(* the lock, or at idle priority.                                           *)
LEMMA ReturnsWithLock ==
  ASSUME IInv, Next, NEW u \in Thread, pc[u] \notin {"guest", "stopped"}, pc'[u] = "guest"
  PROVE  lock' = u \/ prio[u] = "idle"
<1>1. ASSUME NEW t \in Thread, NEW offering \in BOOLEAN, Acquire(t, offering)
      PROVE  lock' = u \/ prio[u] = "idle"
  BY <1>1 DEF IInv, TypeOK, Acquire, Exempt
<1>2. ASSUME NEW t \in Thread, CallReturns(t) PROVE lock' = u \/ prio[u] = "idle"
  <2>1. CASE lock = t
    BY <1>2, <2>1 DEF IInv, TypeOK, CallReturns
  <2> QED BY <1>1, <1>2, <2>1 DEF CallReturns
<1>3. ASSUME NEW t \in Thread, Take(t) PROVE lock' = u \/ prio[u] = "idle"
  BY <1>3 DEF IInv, TypeOK, Take
<1>4. ASSUME NEW t \in Thread, Offer(t) \/ StandBackEnds(t) \/ SpinReturns(t)
      PROVE  lock' = u \/ prio[u] = "idle"
  <2>1. CASE Offer(t) /\ Queue # {}
    BY <2>1 DEF IInv, TypeOK, Offer
  <2> QED BY <1>1, <1>4, <2>1 DEF Offer, StandBackEnds, SpinReturns
<1>5. ASSUME NEW t \in Thread,
             \/ FileCall(t) \/ WaitCall(t) \/ ApcReturns(t) \/ PacingWait(t)
             \/ SpinPoll(t) \/ YieldNow(t) \/ MeetCheckpoint(t)
      PROVE  FALSE
  BY <1>5 DEF IInv, TypeOK, FileCall, WaitCall, ApcReturns, PacingWait, SpinPoll, YieldNow,
         MeetCheckpoint
<1>6. ASSUME NEW t \in Thread,
             \/ MarkIdle(t) \/ SetPriority(t) \/ RaiseIrql(t) \/ LowerIrql(t)
             \/ InterruptHere(t) \/ HandlerReturns(t) \/ Suspend(t) \/ Resume(t)
      PROVE  FALSE
  BY <1>6 DEF MarkIdle, SetPriority, RaiseIrql, LowerIrql, InterruptHere, HandlerReturns,
         Suspend, Resume
<1>7. CASE TimerWants
  BY <1>1, <1>7 DEF TimerWants
<1>8. CASE TimerDelivers \/ TimerFindsNothing \/ TimerReturns \/ LineRises \/ Tick
  BY <1>8 DEF IInv, TypeOK, TimerDelivers, TimerFindsNothing, TimerReturns, LineRises, Tick
<1>9. ASSUME NEW t \in Thread, LeaveCheckpoint(t) PROVE lock' = u \/ prio[u] = "idle"
  <2>1. CASE pc[t] = "stopped"
    BY <1>9, <2>1 DEF IInv, TypeOK, LeaveCheckpoint
  <2> QED BY <1>1, <1>9, <2>1 DEF LeaveCheckpoint
<1> QED BY <1>2, <1>3, <1>4, <1>5, <1>6, <1>7, <1>8, <1>9 DEF Next

(* The exemption from the lock is asked every time, not latched: whoever    *)
(* comes back to guest code has the lock, unless its priority is idle then, *)
(* or it stopped at the checkpoint as one that had no lock.                 *)
THEOREM ExemptionAsked == Spec => IdleIsNotLatched
<1>1. IInv /\ [Next]_vars =>
        [\A t \in Thread :
           pc[t] \notin {"guest", "stopped"} /\ pc'[t] = "guest" =>
             lock' = t \/ prio[t] = "idle"]_vars
  BY ReturnsWithLock
<1> QED BY IInvHolds, <1>1, PTL DEF Spec, IdleIsNotLatched

(* At raised IRQL, or inside an interrupt or DPC routine, a thread loses    *)
(* the lock before SliceRaised only by a call of its own, or because it was *)
(* suspended by another thread, and then it parks without it: the end of    *)
(* its slice does not take it.                                              *)
THEOREM RaisedKeepsLock == Spec => NoSwitchWhenRaised
<1> DEFINE Own(t) == \/ pc'[t] \in {"io", "call", "spin", "host"} \/ inApc'[t] \/ idle'[t]
                     \/ t \in suspended /\ pc'[t] = "parked"
<1>1. ASSUME IInv, Next, NEW t \in Thread, lock = t, lock' # t,
             raised[t] \/ nest[t] > 0, sliceAge < SliceRaised
      PROVE  Own(t)
  <2>1. ASSUME NEW u \in Thread, FileCall(u) \/ PacingWait(u) \/ SpinPoll(u)
        PROVE  Own(t)
    BY <1>1, <2>1 DEF IInv, TypeOK, FileCall, PacingWait, SpinPoll, Release
  <2>2. ASSUME NEW u \in Thread, WaitCall(u) PROVE Own(t)
    BY <1>1, <2>2 DEF IInv, TypeOK, WaitCall, Release
  <2>3. ASSUME NEW u \in Thread, MarkIdle(u) PROVE Own(t)
    BY <1>1, <2>3 DEF IInv, TypeOK, MarkIdle, Release
  <2>4. ASSUME NEW u \in Thread, YieldNow(u) PROVE FALSE
    <3>1. u = t
      BY <1>1, <2>4 DEF YieldNow
    <3>2. sliceAge >= SliceRaised
      BY <1>1, <2>4, <3>1 DEF YieldNow, SliceEnds
    <3> QED BY <1>1, <3>2 DEF IInv, TypeOK, Age
  <2>5. CASE TimerFindsNothing \/ TimerReturns
    BY <1>1, <2>5 DEF IInv, TypeOK, TimerFindsNothing, TimerReturns, Release
  <2>6. ASSUME NEW u \in Thread, Take(u) PROVE FALSE
    BY <1>1, <2>6 DEF Take
  <2>7. ASSUME NEW u \in Thread, MeetCheckpoint(u) PROVE Own(t)
    <3>1. u = t
      BY <1>1, <2>7 DEF MeetCheckpoint, Release
    <3> QED BY <1>1, <2>7, <3>1 DEF IInv, TypeOK, MeetCheckpoint
  <2>8. \/ lock' = lock \/ TimerFindsNothing \/ TimerReturns
        \/ \E u \in Thread : \/ FileCall(u) \/ PacingWait(u) \/ SpinPoll(u) \/ WaitCall(u)
                            \/ MarkIdle(u) \/ YieldNow(u) \/ Take(u) \/ MeetCheckpoint(u)
    BY <1>1 DEF Next, LineRises, Tick, TimerWants, TimerDelivers, ApcReturns, CallReturns,
           SetPriority, RaiseIrql, LowerIrql, Offer, StandBackEnds, SpinReturns,
           InterruptHere, HandlerReturns, Suspend, Resume, LeaveCheckpoint
  <2> QED BY <1>1, <2>1, <2>2, <2>3, <2>4, <2>5, <2>6, <2>7, <2>8
<1>2. IInv /\ [Next]_vars =>
        [\A t \in Thread :
           /\ lock = t /\ lock' # t
           /\ raised[t] \/ nest[t] > 0
           /\ sliceAge < SliceRaised
           => \/ pc'[t] \in {"io", "call", "spin", "host"} \/ inApc'[t] \/ idle'[t]
              \/ t \in suspended /\ pc'[t] = "parked"]_vars
  BY <1>1
<1> QED BY IInvHolds, <1>2, PTL DEF Spec, NoSwitchWhenRaised

(* A pending APU interrupt that somebody else has taken meanwhile is not    *)
(* delivered a second time by the timer thread.                             *)
THEOREM InterruptNotStale == Spec => NoStaleInterrupt
<1>1. ASSUME IInv, Next, job = "apu", nest'[Timer] > nest[Timer], nest[Timer] = 0
      PROVE  line
  <2>1. CASE TimerDelivers
    BY <1>1, <2>1 DEF TimerDelivers
  <2>2. ASSUME NEW t \in Thread, InterruptHere(t) PROVE line
    BY <2>2 DEF InterruptHere
  <2>3. ASSUME NEW t \in Thread, HandlerReturns(t) PROVE FALSE
    BY <1>1, <2>3 DEF IInv, TypeOK, HandlerReturns
  <2>4. CASE TimerReturns
    BY <1>1, <2>4 DEF IInv, TypeOK, TimerReturns
  <2>5. CASE UNCHANGED nest
    BY <1>1, <2>5 DEF IInv, TypeOK
  <2>6. \/ UNCHANGED nest \/ TimerDelivers \/ TimerReturns
        \/ \E t \in Thread : InterruptHere(t) \/ HandlerReturns(t)
    BY <1>1 DEF Next, LineRises, Tick, TimerWants, TimerFindsNothing, Take, FileCall,
           WaitCall, ApcReturns, CallReturns, PacingWait, MarkIdle, SetPriority,
           RaiseIrql, LowerIrql, YieldNow, Offer, StandBackEnds, SpinPoll, SpinReturns,
           Suspend, Resume, MeetCheckpoint, LeaveCheckpoint
  <2> QED BY <2>1, <2>2, <2>3, <2>4, <2>5, <2>6
<1>2. IInv /\ [Next]_vars =>
        [job = "apu" /\ nest'[Timer] > nest[Timer] /\ nest[Timer] = 0 => line]_vars
  BY <1>1
<1> QED BY IInvHolds, <1>2, PTL DEF Spec, NoStaleInterrupt

(* The three together, as the run checks them: types, places that agree     *)
(* with the lock, one serialised thread in guest code.                      *)
THEOREM LockInvHolds == Spec => []LockInv
BY TypeCorrect, HolderPlacesHolds, MutualExclusion, PTL DEF LockInv
=============================================================================
