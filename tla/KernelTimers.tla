---------------------------- MODULE KernelTimers ----------------------------
(***************************************************************************)
(* Kernel timers of kernel_bridge.c: the table of armed timers g_timers,   *)
(* which KeSetTimer and KeCancelTimer change from any guest thread, and    *)
(* the pass the kernel timer thread makes over it.  Both sides take        *)
(* g_timer_lock for one look at the table; the timer thread signals the    *)
(* timer object and runs its DPC outside it, because the DPC may set or    *)
(* cancel timers itself.                                                   *)
(*                                                                         *)
(* Every KeSetTimer call is an "arming" with a number and a DPC of its     *)
(* own (the code also takes a null one, and then runs none), so a DPC that *)
(* runs tells which call armed it.  Time is abstract:                      *)
(* a due time is "future", "past" (reached, but after the "now" the pass   *)
(* in progress compares with) or "due" (the pass in progress fires it).    *)
(***************************************************************************)
EXTENDS Integers, FiniteSets

CONSTANTS
    Timer,       \* the guest's KTIMER objects
    NoTimer,     \* timer_va 0: a free slot
    Slots,       \* XBOX_MAX_TIMERS
    MaxArmings,  \* bound: KeSetTimer calls
    Waited       \* bound: the timers whose SignalState is looked at

ASSUME TimerAssumption == NoTimer \notin Timer
ASSUME SlotsAssumption == Slots \in Nat \ {0} /\ MaxArmings \in Nat /\ Waited \subseteq Timer

VARIABLES
    slot,       \* g_timers: the entries in use, or Free
    pc,         \* where the timer thread is
    at,         \* the slot its loop has come to
    fired,      \* timer_va_fired and dpc, its locals
    signalled,  \* those of Waited whose SignalState is 1
    armings,    \* history: KeSetTimer calls so far
    oneShot,    \* history: those with no period
    ended,      \* history: those cancelled, replaced, or refused by a full table
    ran         \* history: how often each one's DPC has run, counted up to 2

vars  == <<slot, pc, at, fired, signalled, armings, oneShot, ended, ran>>

Slot   == 1 .. Slots
Arming == 1 .. MaxArmings
Due    == {"future", "past", "due"}

Free   == [timer |-> NoTimer, arming |-> 0, due |-> "due", periodic |-> FALSE]
None   == [timer |-> NoTimer, arming |-> 0]

Holding(t) == {i \in Slot : slot[i].timer = t}
Holder(n)  == {i \in Slot : slot[i].timer # NoTimer /\ slot[i].arming = n}
Least(S)   == {i \in S : \A j \in S : i <= j}

Init ==
    /\ slot = [i \in Slot |-> Free]
    /\ pc = "asleep" /\ at = 1
    /\ fired = None
    /\ signalled = {}
    /\ armings = 0 /\ oneShot = {} /\ ended = {}
    /\ ran = [n \in Arming |-> 0]

-----------------------------------------------------------------------------
(* What guest threads do, DPC routines among them. *)

(* The slot of a timer that is armed already, else the first free one. *)
Room(t) == IF Holding(t) # {} THEN Least(Holding(t)) ELSE Least(Holding(NoTimer))

(* KeSetTimer(Ex): with no room the call has no effect, and the caller is   *)
(* told the same as for a timer that was not armed.                         *)
SetTimer(t) ==
    /\ armings < MaxArmings
    /\ armings' = armings + 1
    /\ \E due \in Due, periodic \in BOOLEAN :
         /\ oneShot' = IF periodic THEN oneShot ELSE oneShot \cup {armings + 1}
         /\ \/ \E i \in Room(t) :
                 /\ slot' = [slot EXCEPT ![i] = [timer |-> t, arming |-> armings + 1,
                                                 due |-> due, periodic |-> periodic]]
                 /\ ended' = IF slot[i].timer = t THEN ended \cup {slot[i].arming} ELSE ended
            \/ Room(t) = {} /\ slot' = slot /\ ended' = ended \cup {armings + 1}
    /\ UNCHANGED <<pc, at, fired, signalled, ran>>

(* Faulty: the search stops at the first free slot. *)
CancelTimerToHole(t) ==
    LET Seen == {i \in Holding(t) : \A j \in Holding(NoTimer) : i < j}
    IN  /\ slot' = [i \in Slot |-> IF i \in Seen THEN Free ELSE slot[i]]
        /\ ended' = ended \cup {slot[i].arming : i \in Holding(t)}
        /\ UNCHANGED <<pc, at, fired, signalled, armings, oneShot, ran>>

(* KeCancelTimer. *)
CancelTimer(t) ==
    /\ slot' = [i \in Slot |-> IF i \in Holding(t) THEN Free ELSE slot[i]]
    /\ ended' = ended \cup {slot[i].arming : i \in Holding(t)}
    /\ UNCHANGED <<pc, at, fired, signalled, armings, oneShot, ran>>

(* KeInitializeTimerEx zeroes the object; an entry in the table stays. *)
InitializeTimer(t) ==
    /\ t \in Waited
    /\ signalled' = signalled \ {t}
    /\ UNCHANGED <<slot, pc, at, fired, armings, oneShot, ended, ran>>

(* A wait on the timer is satisfied, and resets a synchronization timer. *)
WaitReturns(t) ==
    /\ t \in signalled
    /\ signalled' \in {signalled, signalled \ {t}}
    /\ UNCHANGED <<slot, pc, at, fired, armings, oneShot, ended, ran>>

(* A due time is reached while a pass may be under way. *)
Tick(i) ==
    /\ slot[i].timer # NoTimer /\ slot[i].due = "future"
    /\ slot' = [slot EXCEPT ![i].due = "past"]
    /\ UNCHANGED <<pc, at, fired, signalled, armings, oneShot, ended, ran>>

-----------------------------------------------------------------------------
(* The timer thread's pass. *)

(* Sleep(1) is over, the interrupts and DPCs are done: now = GetTickCount64. *)
PassBegins ==
    /\ pc = "asleep" /\ pc' = "look"
    /\ slot' = [i \in Slot |-> IF slot[i].due = "past" THEN [slot[i] EXCEPT !.due = "due"] ELSE slot[i]]
    /\ UNCHANGED <<at, fired, signalled, armings, oneShot, ended, ran>>

(* Faulty: the last slot is never looked at. *)
NextSlotShort ==
    IF at < Slots - 1 THEN at' = at + 1 /\ pc' = "look" ELSE at' = 1 /\ pc' = "asleep"

NextSlot ==
    IF at < Slots THEN at' = at + 1 /\ pc' = "look" ELSE at' = 1 /\ pc' = "asleep"

NothingDue ==
    /\ pc = "look"
    /\ slot[at].timer = NoTimer \/ slot[at].due # "due"
    /\ NextSlot
    /\ UNCHANGED <<slot, fired, signalled, armings, oneShot, ended, ran>>

(* Under g_timer_lock: copy the entry and rearm it, or free a one-shot's.   *)
(* (The period counts from the pass's "now", and may be over already.)      *)
Fire ==
    /\ pc = "look" /\ pc' = "signal"
    /\ slot[at].timer # NoTimer /\ slot[at].due = "due"
    /\ fired' = [timer |-> slot[at].timer, arming |-> slot[at].arming]
    /\ IF slot[at].periodic
       THEN \E due \in {"future", "past"} : slot' = [slot EXCEPT ![at].due = due]
       ELSE slot' = [slot EXCEPT ![at] = Free]
    /\ UNCHANGED <<at, signalled, armings, oneShot, ended, ran>>

(* Out of it: the object to signal is read from the slot once more. *)
Signal ==
    /\ pc = "signal" /\ pc' = "dpc"
    /\ LET t == slot[at].timer
       IN  signalled' = signalled \cup (Waited \cap {IF t # NoTimer THEN t ELSE fired.timer})
    /\ UNCHANGED <<slot, at, fired, armings, oneShot, ended, ran>>

(* kernel_run_dpc, which takes the guest lock for it. *)
RunDpc ==
    /\ pc = "dpc"
    /\ ran' = [ran EXCEPT ![fired.arming] = IF @ < 2 THEN @ + 1 ELSE @]
    /\ NextSlot /\ fired' = None
    /\ UNCHANGED <<slot, signalled, armings, oneShot, ended>>

TimerThread == PassBegins \/ NothingDue \/ Fire \/ Signal \/ RunDpc

Next ==
    \/ TimerThread
    \/ \E t \in Timer : SetTimer(t) \/ CancelTimer(t) \/ InitializeTimer(t) \/ WaitReturns(t)
    \/ \E i \in Slot : Tick(i)

Spec == Init /\ [][Next]_vars

(* The timer thread runs (a DPC ends, and the guest lock reaches the thread *)
(* that queues for it: GuestLock's QueueServed), and time passes.           *)
FairSpec == Spec /\ WF_vars(TimerThread) /\ \A i \in Slot : WF_vars(Tick(i))

-----------------------------------------------------------------------------
TypeOK ==
    /\ slot \in [Slot -> [timer : Timer \cup {NoTimer}, arming : 0 .. MaxArmings,
                          due : Due, periodic : BOOLEAN]]
    /\ pc \in {"asleep", "look", "signal", "dpc"}
    /\ at \in Slot
    /\ fired \in [timer : Timer \cup {NoTimer}, arming : 0 .. MaxArmings]
    /\ signalled \in SUBSET Waited
    /\ armings \in 0 .. MaxArmings
    /\ oneShot \in SUBSET (1 .. armings)
    /\ ended \in SUBSET (1 .. armings)
    /\ ran \in [Arming -> 0 .. 2]

(* A timer has one entry in the table, whatever was set, cancelled and      *)
(* fired before: a second one would fire it twice and use up the table.     *)
OneSlotEach ==
    \A i, j \in Slot : slot[i].timer # NoTimer /\ slot[i].timer = slot[j].timer => i = j

(* This arming has been taken from the table and its DPC is still to run.   *)
InFlight(n) == pc \in {"signal", "dpc"} /\ fired.arming = n

(* A one-shot arming runs its DPC at most once: it is in the table, or      *)
(* taken from it, or has run, and never two of these.                       *)
FiresOnce ==
    \A n \in oneShot :
        /\ Holder(n) # {} => ~InFlight(n) /\ ran[n] = 0
        /\ InFlight(n) => ran[n] = 0
        /\ ran[n] <= 1

(* A cancelled or replaced arming is out of the table for good: after the   *)
(* cancel its DPC runs at most once more, for a firing already under way.   *)
EndedStays == \A n \in ended : Holder(n) = {}

(* What each arming's number says of the table, the firing under way and    *)
(* the DPCs that have run: the invariant behind FiresOnce and EndedStays.   *)
Ledger ==
    /\ \A i \in Slot : slot[i].timer # NoTimer =>
          /\ slot[i].arming \in (1 .. armings) \ ended
          /\ slot[i].periodic \/ slot[i].arming \in oneShot
          /\ slot[i].periodic => slot[i].arming \notin oneShot
          /\ slot[i].arming \in oneShot => ran[slot[i].arming] = 0
    /\ \A i, j \in Slot :
          slot[i].timer # NoTimer /\ slot[j].timer # NoTimer /\ slot[i].arming = slot[j].arming => i = j
    /\ pc \in {"signal", "dpc"} =>
          /\ fired.timer \in Timer /\ fired.arming \in 1 .. armings
          /\ fired.arming \in oneShot =>
                /\ ran[fired.arming] = 0
                /\ \A i \in Slot : slot[i].timer = NoTimer \/ slot[i].arming # fired.arming
    /\ \A n \in Arming : n > armings => ran[n] = 0
    /\ \A n \in oneShot : ran[n] <= 1

(* Every arming the table took fires in the end, a periodic one again and   *)
(* again, unless the title cancels or replaces it.                          *)
ArmingsFire ==
    \A n \in Arming :
        (n <= armings) ~> \/ n \in ended
                          \/ ran[n] >= IF n \in oneShot THEN 1 ELSE 2

(* The timer that fires is the one that becomes signalled, so that what     *)
(* waits on it wakes, and what waits on another timer does not.             *)
SignalsTheFired == [][pc = "signal" /\ pc' = "dpc" => signalled' = signalled \cup (Waited \cap {fired.timer})]_vars

(* The table keeps its promises while the timer thread walks it: one entry  *)
(* a timer, a one-shot's DPC once, no way back for what was cancelled       *)
(* (kernel_set_timer, xbox_kernel_cancel_timer, kernel_timer_thread).       *)
TimersInv == TypeOK /\ OneSlotEach /\ FiresOnce /\ EndedStays
=============================================================================
