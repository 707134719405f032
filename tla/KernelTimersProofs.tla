------------------------- MODULE KernelTimersProofs -------------------------
(***************************************************************************)
(* What TLAPS proves of KernelTimers for every set of timers, every size   *)
(* of the table and every number of KeSetTimer calls.                      *)
(***************************************************************************)
EXTENDS KernelTimers, TLAPS

IInv == TypeOK /\ OneSlotEach /\ Ledger

USE TimerAssumption, SlotsAssumption

(* Where KeSetTimer puts a timer: over the timer's own entry, or, if it has *)
(* none, in a free slot.                                                    *)
LEMMA RoomFound ==
  ASSUME NEW t \in Timer, NEW i \in Room(t)
  PROVE  /\ i \in Slot
         /\ \/ slot[i].timer = t
            \/ slot[i].timer = NoTimer /\ \A j \in Slot : slot[j].timer # t
BY DEF Room, Least, Holding

LEMMA InitIInv == Init => IInv
BY DEF Init, IInv, TypeOK, OneSlotEach, Ledger, Slot, Arming, Due, Free, None

LEMMA SetTimerIInv ==
  ASSUME IInv, NEW t \in Timer, SetTimer(t)
  PROVE  IInv'
<1> DEFINE n == armings + 1
<1> PICK due \in Due, periodic \in BOOLEAN :
      /\ oneShot' = IF periodic THEN oneShot ELSE oneShot \cup {n}
      /\ \/ \E i \in Room(t) :
              /\ slot' = [slot EXCEPT ![i] = [timer |-> t, arming |-> n,
                                              due |-> due, periodic |-> periodic]]
              /\ ended' = IF slot[i].timer = t THEN ended \cup {slot[i].arming} ELSE ended
         \/ Room(t) = {} /\ slot' = slot /\ ended' = ended \cup {n}
  BY DEF SetTimer
<1>1. n \in Arming /\ armings' = n /\ n \notin 1 .. armings /\ 1 .. n = (1 .. armings) \cup {n}
  BY DEF SetTimer, IInv, TypeOK, Arming
<1>2. UNCHANGED <<pc, at, fired, signalled, ran>>
  BY DEF SetTimer
<1>3. ran[n] = 0
  BY <1>1 DEF IInv, Ledger, TypeOK
<1>4. CASE \E i \in Room(t) :
              /\ slot' = [slot EXCEPT ![i] = [timer |-> t, arming |-> n,
                                              due |-> due, periodic |-> periodic]]
              /\ ended' = IF slot[i].timer = t THEN ended \cup {slot[i].arming} ELSE ended
  <2> PICK i \in Room(t) :
              /\ slot' = [slot EXCEPT ![i] = [timer |-> t, arming |-> n,
                                              due |-> due, periodic |-> periodic]]
              /\ ended' = IF slot[i].timer = t THEN ended \cup {slot[i].arming} ELSE ended
    BY <1>4
  <2>1. /\ i \in Slot
        /\ \/ slot[i].timer = t
           \/ slot[i].timer = NoTimer /\ \A j \in Slot : slot[j].timer # t
    BY RoomFound
  <2>2. slot[i].timer = t => slot[i].arming \in 1 .. armings
    BY <2>1 DEF IInv, Ledger
  <2>3. TypeOK'
    <3>1. slot' \in [Slot -> [timer : Timer \cup {NoTimer}, arming : 0 .. MaxArmings,
                              due : Due, periodic : BOOLEAN]]
      <4>1. [timer |-> t, arming |-> n, due |-> due, periodic |-> periodic]
              \in [timer : Timer \cup {NoTimer}, arming : 0 .. MaxArmings, due : Due, periodic : BOOLEAN]
        BY <1>1 DEF Arming
      <4> QED BY <2>1, <4>1 DEF IInv, TypeOK
    <3>2. armings' \in 0 .. MaxArmings /\ oneShot' \in SUBSET (1 .. armings')
      BY <1>1 DEF IInv, TypeOK, Arming
    <3>3. ended' \in SUBSET (1 .. armings')
      BY <1>1, <2>2 DEF IInv, TypeOK
    <3> QED BY <1>2, <3>1, <3>2, <3>3 DEF IInv, TypeOK
  <2>4. OneSlotEach'
    BY <2>1 DEF IInv, TypeOK, OneSlotEach
  <2>5. \A j \in Slot : slot'[j] = IF j = i THEN [timer |-> t, arming |-> n, due |-> due,
                                                  periodic |-> periodic]
                                   ELSE slot[j]
    BY <2>1 DEF IInv, TypeOK
  <2>6. ASSUME NEW j \in Slot, j # i, slot[j].timer # NoTimer
        PROVE  /\ slot[j].arming \in (1 .. armings) \ ended'
               /\ slot[j].arming # n
    BY <2>1, <2>6, <1>1 DEF IInv, Ledger
  <2>7. Ledger'
    <3>1. ASSUME NEW j \in Slot, slot'[j].timer # NoTimer
          PROVE  /\ slot'[j].arming \in (1 .. armings') \ ended'
                 /\ slot'[j].periodic \/ slot'[j].arming \in oneShot'
                 /\ slot'[j].periodic => slot'[j].arming \notin oneShot'
                 /\ slot'[j].arming \in oneShot' => ran'[slot'[j].arming] = 0
      <4>1. CASE j = i
        BY <1>1, <1>2, <1>3, <2>2, <2>5, <4>1 DEF IInv, TypeOK
      <4>2. CASE j # i
        BY <1>1, <1>2, <2>5, <2>6, <3>1, <4>2 DEF IInv, Ledger
      <4> QED BY <4>1, <4>2
    <3>2. \A j, k \in Slot :
             slot'[j].timer # NoTimer /\ slot'[k].timer # NoTimer
             /\ slot'[j].arming = slot'[k].arming => j = k
      BY <2>5, <2>6 DEF IInv, Ledger
    <3>3. pc' \in {"signal", "dpc"} =>
             /\ fired'.timer \in Timer /\ fired'.arming \in 1 .. armings'
             /\ fired'.arming \in oneShot' =>
                   /\ ran'[fired'.arming] = 0
                   /\ \A j \in Slot : slot'[j].timer = NoTimer \/ slot'[j].arming # fired'.arming
      BY <1>1, <1>2, <2>5 DEF IInv, Ledger
    <3>4. (\A m \in Arming : m > armings' => ran'[m] = 0) /\ (\A m \in oneShot' : ran'[m] <= 1)
      BY <1>1, <1>2, <1>3 DEF IInv, Ledger, TypeOK, Arming
    <3> QED BY <3>1, <3>2, <3>3, <3>4 DEF Ledger
  <2> QED BY <2>3, <2>4, <2>7 DEF IInv
<1>5. CASE Room(t) = {} /\ slot' = slot /\ ended' = ended \cup {n}
  <2>1. TypeOK'
    BY <1>1, <1>2, <1>5 DEF IInv, TypeOK, Arming
  <2>2. Ledger'
    BY <1>1, <1>2, <1>3, <1>5 DEF IInv, TypeOK, Ledger, Arming
  <2> QED BY <1>5, <2>1, <2>2 DEF IInv, OneSlotEach
<1> QED BY <1>4, <1>5

LEMMA CancelTimerIInv ==
  ASSUME IInv, NEW t \in Timer, CancelTimer(t)
  PROVE  IInv'
<1>1. \A i \in Slot : \/ slot'[i] = Free /\ slot[i].timer = t
                      \/ slot'[i] = slot[i] /\ slot[i].timer # t
  BY DEF CancelTimer, Holding
<1>2. UNCHANGED <<pc, at, fired, signalled, armings, oneShot, ran>>
  BY DEF CancelTimer
<1>3. ended' = ended \cup {slot[i].arming : i \in Holding(t)}
  BY DEF CancelTimer
<1>4. \A i \in Slot : slot[i].timer = t => slot[i].arming \in 1 .. armings
  BY DEF IInv, Ledger
<1>5. TypeOK'
  <2>1. ended' \in SUBSET (1 .. armings)
    BY <1>3, <1>4 DEF IInv, TypeOK, Holding
  <2>2. slot' \in [Slot -> [timer : Timer \cup {NoTimer}, arming : 0 .. MaxArmings,
                            due : Due, periodic : BOOLEAN]]
    BY DEF CancelTimer, IInv, TypeOK, Free, Due
  <2> QED BY <1>2, <2>1, <2>2 DEF IInv, TypeOK
<1>6. \A i \in Slot : slot'[i].timer # NoTimer => slot'[i] = slot[i] /\ slot[i].arming \notin ended'
  BY <1>1, <1>3 DEF IInv, Ledger, Free, Holding
<1>7. OneSlotEach'
  BY <1>6 DEF IInv, OneSlotEach
<1>8. Ledger'
  BY <1>2, <1>6 DEF IInv, Ledger
<1> QED BY <1>5, <1>7, <1>8 DEF IInv

(* The steps that change neither the table's entries nor what has run.      *)
LEMMA TickIInv ==
  ASSUME IInv, NEW i \in Slot, Tick(i)
  PROVE  IInv'
<1>1. \A j \in Slot : slot'[j] = IF j = i THEN [slot[i] EXCEPT !.due = "past"] ELSE slot[j]
  BY DEF Tick, IInv, TypeOK
<1>2. slot' \in [Slot -> [timer : Timer \cup {NoTimer}, arming : 0 .. MaxArmings,
                          due : Due, periodic : BOOLEAN]]
  BY DEF Tick, IInv, TypeOK, Due
<1>3. \A j \in Slot : /\ slot'[j].timer = slot[j].timer
                      /\ slot'[j].arming = slot[j].arming
                      /\ slot'[j].periodic = slot[j].periodic
  BY <1>1 DEF IInv, TypeOK
<1>4. UNCHANGED <<pc, at, fired, signalled, armings, oneShot, ended, ran>>
  BY DEF Tick
<1> QED BY <1>2, <1>3, <1>4 DEF IInv, TypeOK, OneSlotEach, Ledger

LEMMA PassBeginsIInv ==
  ASSUME IInv, PassBegins
  PROVE  IInv'
<1>1. slot' \in [Slot -> [timer : Timer \cup {NoTimer}, arming : 0 .. MaxArmings,
                          due : Due, periodic : BOOLEAN]]
  BY DEF PassBegins, IInv, TypeOK, Due
<1>2. \A j \in Slot : /\ slot'[j].timer = slot[j].timer
                      /\ slot'[j].arming = slot[j].arming
                      /\ slot'[j].periodic = slot[j].periodic
  BY DEF PassBegins, IInv, TypeOK
<1>3. pc' = "look" /\ UNCHANGED <<at, fired, signalled, armings, oneShot, ended, ran>>
  BY DEF PassBegins
<1> QED BY <1>1, <1>2, <1>3 DEF IInv, TypeOK, OneSlotEach, Ledger

LEMMA NextSlotType == ASSUME at \in Slot, NextSlot
                      PROVE  at' \in Slot /\ pc' \in {"look", "asleep"}
BY DEF NextSlot, Slot

(* A firing takes a one-shot's entry out of the table, so its arming is     *)
(* from then on in the timer thread's hands only.                           *)
LEMMA FireIInv ==
  ASSUME IInv, Fire
  PROVE  IInv'
<1>1. /\ at \in Slot /\ slot[at].timer \in Timer /\ slot[at].arming \in 1 .. armings
      /\ pc' = "signal" /\ fired' = [timer |-> slot[at].timer, arming |-> slot[at].arming]
      /\ UNCHANGED <<at, signalled, armings, oneShot, ended, ran>>
  BY DEF Fire, IInv, TypeOK, Ledger
<1>2. CASE slot[at].periodic
  <2> PICK due \in {"future", "past"} : slot' = [slot EXCEPT ![at].due = due]
    BY <1>2 DEF Fire
  <2>1. \A j \in Slot : /\ slot'[j].timer = slot[j].timer
                        /\ slot'[j].arming = slot[j].arming
                        /\ slot'[j].periodic = slot[j].periodic
    BY DEF IInv, TypeOK
  <2>2. TypeOK'
    BY <1>1 DEF IInv, TypeOK, Due
  <2>3. fired'.arming \notin oneShot'
    BY <1>1, <1>2 DEF IInv, Ledger
  <2>4. Ledger'
    BY <1>1, <2>1, <2>3 DEF IInv, Ledger
  <2> QED BY <2>1, <2>2, <2>4 DEF IInv, OneSlotEach
<1>3. CASE ~slot[at].periodic
  <2>1. slot' = [slot EXCEPT ![at] = Free]
    BY <1>3 DEF Fire
  <2>2. \A j \in Slot : slot'[j] = IF j = at THEN Free ELSE slot[j]
    BY <2>1 DEF IInv, TypeOK
  <2>3. slot' \in [Slot -> [timer : Timer \cup {NoTimer}, arming : 0 .. MaxArmings,
                            due : Due, periodic : BOOLEAN]]
    BY <2>1 DEF IInv, TypeOK, Free, Due
  <2>4. TypeOK'
    BY <1>1, <2>3 DEF IInv, TypeOK
  <2>5. OneSlotEach'
    BY <2>2 DEF IInv, OneSlotEach, Free
  <2>6. ran[slot[at].arming] = 0
    BY <1>1, <1>3 DEF IInv, Ledger
  <2>7. \A j \in Slot : slot'[j].timer = NoTimer \/ slot'[j].arming # slot[at].arming
    BY <1>1, <2>2 DEF IInv, Ledger, Free
  <2>8. Ledger'
    BY <1>1, <2>2, <2>6, <2>7 DEF IInv, Ledger, Free
  <2> QED BY <2>4, <2>5, <2>8 DEF IInv
<1> QED BY <1>2, <1>3

LEMMA RunDpcIInv ==
  ASSUME IInv, RunDpc
  PROVE  IInv'
<1>1. at' \in Slot /\ pc' \in {"look", "asleep"}
  BY NextSlotType DEF RunDpc, IInv, TypeOK
<1>2. UNCHANGED <<slot, signalled, armings, oneShot, ended>> /\ fired' = None
  BY DEF RunDpc
<1>3. fired.arming \in 1 .. armings /\ fired.arming \in Arming
  BY DEF RunDpc, IInv, TypeOK, Ledger, Arming
<1>4. \A n \in Arming : ran'[n] = IF n = fired.arming /\ ran[n] < 2 THEN ran[n] + 1 ELSE ran[n]
  BY <1>3 DEF RunDpc, IInv, TypeOK
<1>5. ran' \in [Arming -> 0 .. 2]
  BY <1>3 DEF RunDpc, IInv, TypeOK
<1>6. TypeOK'
  BY <1>1, <1>2, <1>5 DEF IInv, TypeOK, None
<1>7. \A n \in Arming : n # fired.arming => ran'[n] = ran[n]
  BY <1>4
<1>8. fired.arming \in oneShot => /\ ran'[fired.arming] = 1
                                 /\ \A i \in Slot : slot[i].timer = NoTimer \/ slot[i].arming # fired.arming
  BY <1>3, <1>4 DEF RunDpc, IInv, Ledger
<1>9. oneShot \subseteq Arming /\ \A i \in Slot : slot[i].timer # NoTimer => slot[i].arming \in Arming
  BY DEF IInv, TypeOK, Ledger, Arming
<1>10. Ledger'
  <2>1. \A n \in oneShot : ran'[n] <= 1
    BY <1>7, <1>8, <1>9 DEF IInv, Ledger
  <2>2. \A n \in Arming : n > armings => ran'[n] = 0
    BY <1>3, <1>7 DEF IInv, Ledger, TypeOK
  <2>3. \A i \in Slot : slot[i].timer # NoTimer /\ slot[i].arming \in oneShot
                          => ran'[slot[i].arming] = 0
    BY <1>7, <1>8, <1>9 DEF IInv, Ledger
  <2> QED BY <1>1, <1>2, <2>1, <2>2, <2>3 DEF IInv, Ledger
<1> QED BY <1>2, <1>6, <1>10 DEF IInv, OneSlotEach

LEMMA NextIInv == IInv /\ [Next]_vars => IInv'
<1> SUFFICES ASSUME IInv, [Next]_vars PROVE IInv'
  OBVIOUS
<1>1. CASE \E t \in Timer : SetTimer(t)
  BY <1>1, SetTimerIInv
<1>2. CASE \E t \in Timer : CancelTimer(t)
  BY <1>2, CancelTimerIInv
<1>3. CASE \E t \in Timer : InitializeTimer(t) \/ WaitReturns(t)
  BY <1>3 DEF InitializeTimer, WaitReturns, IInv, TypeOK, OneSlotEach, Ledger
<1>4. CASE \E i \in Slot : Tick(i)
  BY <1>4, TickIInv
<1>5. CASE PassBegins
  BY <1>5, PassBeginsIInv
<1>6. CASE NothingDue
  BY <1>6, NextSlotType DEF NothingDue, IInv, TypeOK, OneSlotEach, Ledger
<1>7. CASE Fire
  BY <1>7, FireIInv
<1>8. CASE Signal
  BY <1>8 DEF Signal, IInv, TypeOK, OneSlotEach, Ledger
<1>9. CASE RunDpc
  BY <1>9, RunDpcIInv
<1>10. CASE UNCHANGED vars
  BY <1>10 DEF vars, IInv, TypeOK, OneSlotEach, Ledger
<1> QED
  BY <1>1, <1>2, <1>3, <1>4, <1>5, <1>6, <1>7, <1>8, <1>9, <1>10 DEF Next, TimerThread

-----------------------------------------------------------------------------
(* The invariant of the whole development: types, one entry a timer, and    *)
(* the ledger of the armings.                                               *)
THEOREM IInvHolds == Spec => []IInv
<1> QED BY InitIInv, NextIInv, PTL DEF Spec

(* Every variable keeps its type: the loop of kernel_timer_thread stays in  *)
(* the table, and nothing but armings that were made is ever counted.       *)
THEOREM TypeCorrect == Spec => []TypeOK
<1>1. IInv => TypeOK
  BY DEF IInv
<1> QED BY <1>1, IInvHolds, PTL

(* No timer ever has two entries in g_timers, however sets, cancels and     *)
(* firings interleave.                                                      *)
THEOREM OneSlotEachHolds == Spec => []OneSlotEach
<1>1. IInv => OneSlotEach
  BY DEF IInv
<1> QED BY <1>1, IInvHolds, PTL

(* A cancelled or replaced arming never comes back to the table.            *)
THEOREM EndedStaysHolds == Spec => []EndedStays
<1>1. IInv => EndedStays
  BY DEF IInv, Ledger, EndedStays, Holder
<1> QED BY <1>1, IInvHolds, PTL

(* One KeSetTimer call without a period runs its DPC at most once.          *)
THEOREM FiresOnceHolds == Spec => []FiresOnce
<1>1. IInv => FiresOnce
  BY DEF IInv, Ledger, FiresOnce, Holder, InFlight
<1> QED BY <1>1, IInvHolds, PTL

(* The table's promises together, as the run checks them.                   *)
THEOREM TimersInvHolds == Spec => []TimersInv
BY TypeCorrect, OneSlotEachHolds, FiresOnceHolds, EndedStaysHolds, PTL DEF TimersInv
=============================================================================
