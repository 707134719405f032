------------------------ MODULE SuspendResumeProofs ------------------------
(***************************************************************************)
(* What TLAPS proves of SuspendResume for any number of producers, items,  *)
(* outside suspends and time-critical threads: no wake-up is lost, and     *)
(* nobody parks with the guest lock.                                       *)
(***************************************************************************)
EXTENDS SuspendResume, FiniteSetTheorems, TLAPS

USE ThreadAssumption, BoundAssumption DEF Thread, Caller

(* The resumes on their way: producers', and the controller's for the       *)
(* suspend it has made.                                                     *)
Resuming == {t \in Producer : pc[t] = "resume"}
Outside  == IF pc[Controller] \in {"suspended", "section", "resume"} THEN 1 ELSE 0
Own      == IF pc[Worker] \in {"start", "gate"} THEN 1 ELSE 0

Places ==
    /\ pc[Worker] \in WorkerPlace
    /\ pc[Controller] \in CallerPlace
    /\ \A t \in Producer : pc[t] \in CallerPlace \ {"suspend", "suspended", "section"}
    /\ pc[Controller] \in {"queued", "guest"} => visits > 0
    /\ queue + left <= Items

WorkerHolds == lock = Worker => pc[Worker] = "guest"

(* The suspend count is the worker's own and the controller's; with resumes *)
(* in the bank, a parked worker is there by the controller's alone.         *)
CountExplained ==
    /\ count <= Own + Outside
    /\ pc[Worker] = "gate" /\ bank > 0 => count <= Outside

(* Every resume is in the bank, on its way, or has undone a suspend: what   *)
(* these give the worker are as many trips as items wait, but for the trip  *)
(* it is on.                                                                *)
Credit == bank + Cardinality(Resuming) + Outside - count
ItemsCredited == queue <= Credit + IF pc[Worker] = "suspend" THEN 0 ELSE 1

Shape == TypeOK /\ Places /\ WorkerHolds /\ CountExplained
IInv == Shape /\ ItemsCredited

LEMMA ResumingFinite == IsFiniteSet(Resuming) /\ Cardinality(Resuming) \in Nat
<1>1. Resuming \subseteq Producer
  BY DEF Resuming
<1> QED BY <1>1, FS_Subset, FS_CardinalityType

LEMMA InitShape == Init => Shape
<1> SUFFICES ASSUME Init PROVE Shape
  OBVIOUS
<1>1. pc[Worker] = "start" /\ \A t \in Caller : pc[t] = "away"
  BY DEF Init
<1>2. Own = 1 /\ Outside = 0
  BY <1>1 DEF Own, Outside
<1>3. TypeOK
  <2>1. pc \in [Thread -> WorkerPlace \cup CallerPlace]
    BY DEF Init, WorkerPlace, CallerPlace
  <2>2. count \in 0 .. 2 /\ bank \in 0 .. MaxBank /\ queue \in 0 .. Items
    BY DEF Init
  <2>3. left \in 0 .. Items /\ visits \in 0 .. Visits
    BY DEF Init
  <2> QED BY <2>1, <2>2, <2>3 DEF Init, TypeOK
<1>4. Places /\ WorkerHolds
  BY <1>1 DEF Init, Places, WorkerHolds, WorkerPlace, CallerPlace
<1>5. CountExplained
  BY <1>1, <1>2 DEF Init, CountExplained
<1> QED BY <1>3, <1>4, <1>5 DEF Shape

LEMMA InitCredit == Init => ItemsCredited
<1> SUFFICES ASSUME Init PROVE ItemsCredited
  OBVIOUS
<1>1. Resuming = {}
  BY DEF Init, Resuming
<1>2. Cardinality(Resuming) = 0
  BY <1>1, FS_EmptySet
<1> QED BY <1>2 DEF Init, ItemsCredited, Credit, Outside

(* The worker alone moves: what is left to show of the shape. *)
LEMMA WorkerMoves ==
    ASSUME Shape, NEW place \in WorkerPlace, pc' = [pc EXCEPT ![Worker] = place],
           UNCHANGED <<left, visits>>, lock' = lock,
           lock = Worker => place = "guest",
           count' \in 0 .. 2, bank' \in 0 .. MaxBank, parked' \in BOOLEAN, queue' = queue,
           count' <= Outside + IF place \in {"start", "gate"} THEN 1 ELSE 0,
           place = "gate" /\ bank' > 0 => count' <= Outside
    PROVE  Shape'
<1>1. pc \in [Thread -> WorkerPlace \cup CallerPlace]
    BY DEF Shape, TypeOK
<1>2. pc'[Worker] = place /\ \A t \in Caller : pc'[t] = pc[t]
    BY <1>1
<1>3. TypeOK'
    BY <1>1 DEF Shape, TypeOK
<1>4. Places'
    BY <1>2 DEF Shape, Places
<1>5. WorkerHolds'
    BY <1>2 DEF WorkerHolds
<1>6. Outside' = Outside /\ Own' = IF place \in {"start", "gate"} THEN 1 ELSE 0
    BY <1>2 DEF Outside, Own
<1>7. Outside \in {0, 1}
    BY DEF Outside
<1> HIDE DEF Outside, Own
<1>8. CountExplained'
    BY <1>2, <1>6, <1>7 DEF CountExplained
<1> QED BY <1>3, <1>4, <1>5, <1>8 DEF Shape

LEMMA WorkerShape == ASSUME Shape, WorkerNext PROVE Shape'
<1> USE DEF Shape, TypeOK, Places, WorkerHolds, CountExplained, Own, Outside, WorkerPlace, CallerPlace, Goto, DropLock
<1>1. CASE StartGate BY <1>1 DEF StartGate
<1>2. CASE WorkerTakesLock BY <1>2 DEF WorkerTakesLock
<1>3. CASE WorkerTrip BY <1>3 DEF WorkerTrip
<1>4. CASE SuspendSelf
  <2>1. Own = 0 /\ Outside \in {0, 1} /\ count \in 0 .. 2 /\ count <= Outside /\ lock # Worker
    BY <1>4 DEF SuspendSelf
  <2>2. CASE bank > 0
    <3>1. bank' = bank - 1 /\ pc' = [pc EXCEPT ![Worker] = "queued"] /\ "queued" \in WorkerPlace
          /\ UNCHANGED <<lock, count, parked, queue, left, visits>>
      BY <1>4, <2>2 DEF SuspendSelf
    <3> QED BY <2>1, <2>2, <3>1, WorkerMoves
  <2>3. CASE ~(bank > 0)
    <3>1. bank' = bank /\ pc' = [pc EXCEPT ![Worker] = "gate"] /\ "gate" \in WorkerPlace
          /\ count' = count + 1 /\ parked' = TRUE
          /\ UNCHANGED <<lock, queue, left, visits>>
      BY <1>4, <2>3 DEF SuspendSelf
    <3> QED BY <2>1, <2>3, <3>1, WorkerMoves
  <2> QED BY <2>2, <2>3
<1>5. CASE LeaveGate \/ ValveOpens
  <2>1. pc' = [pc EXCEPT ![Worker] = "queued"] /\ "queued" \in WorkerPlace
        /\ count' = 0 /\ parked' = FALSE /\ UNCHANGED <<lock, bank, queue, left, visits>>
    BY <1>5 DEF LeaveGate, ValveOpens
  <2>2. Outside \in {0, 1} /\ lock # Worker /\ bank \in 0 .. MaxBank
    BY <1>5 DEF LeaveGate, ValveOpens
  <2> HIDE DEF Shape, TypeOK, Places, WorkerHolds, CountExplained, Own, Outside, WorkerPlace
  <2>0. (IF "queued" \in {"start", "gate"} THEN 1 ELSE 0) = 0
    OBVIOUS
  <2>3. count' \in 0 .. 2 /\ bank' \in 0 .. MaxBank
    BY <2>1, <2>2
  <2>4. count' <= Outside + IF "queued" \in {"start", "gate"} THEN 1 ELSE 0
    BY <2>0, <2>1, <2>2
  <2>5. parked' \in BOOLEAN
    BY <2>1
  <2>6. "queued" # "gate" /\ UNCHANGED <<left, visits>> /\ lock' = lock /\ queue' = queue
    BY <2>1
  <2>7. Shape
    OBVIOUS
  <2> QED BY <2>1, <2>2, <2>3, <2>4, <2>5, <2>6, <2>7, WorkerMoves
<1>6. CASE MeetCheckpoint BY <1>6 DEF MeetCheckpoint
<1>7. CASE Checkpoint BY <1>7 DEF Checkpoint
<1>8. CASE LeaveCheckpoint BY <1>8 DEF LeaveCheckpoint
<1> QED BY <1>1, <1>2, <1>3, <1>4, <1>5, <1>6, <1>7, <1>8 DEF WorkerNext

LEMMA ControllerShape == ASSUME Shape, ControllerSuspends \/ ControllerResumes PROVE Shape'
<1> USE DEF Shape, TypeOK, Places, WorkerHolds, CountExplained, Own, Outside, WorkerPlace, CallerPlace, Goto,
            DropLock, DropLockUnlessCritical
<1>1. CASE ControllerSuspends BY <1>1 DEF ControllerSuspends
<1>2. CASE ControllerResumes BY <1>2 DEF ControllerResumes
<1> QED BY <1>1, <1>2

LEMMA CallerShape == ASSUME Shape, NEW t \in Caller, CallerWakes(t) \/ CallerNext(t) PROVE Shape'
<1> USE DEF Shape, TypeOK, Places, WorkerHolds, CountExplained, Own, Outside, WorkerPlace, CallerPlace, Goto,
            DropLock, DropLockUnlessCritical
<1>1. CASE CallerWakes(t) BY <1>1 DEF CallerWakes
<1>2. CASE CallerTakesLock(t) BY <1>2 DEF CallerTakesLock
<1>3. CASE Announce(t) BY <1>3 DEF Announce
<1>4. CASE NothingToAnnounce(t) BY <1>4 DEF NothingToAnnounce
<1>5. CASE SuspendOther(t) BY <1>5 DEF SuspendOther
<1>6. CASE SuspendReturns(t) BY <1>6 DEF SuspendReturns
<1>7. CASE Resume(t) BY <1>7 DEF Resume, ResumeBank
<1>8. CASE HandoffDone(t) BY <1>8 DEF HandoffDone
<1>9. CASE ResumeReturns(t) BY <1>9 DEF ResumeReturns
<1> QED BY <1>1, <1>2, <1>3, <1>4, <1>5, <1>6, <1>7, <1>8, <1>9 DEF CallerNext

(* One producer more or less on its way to a resume. *)
LEMMA OneMore ==
    ASSUME NEW t \in Producer, t \notin Resuming, Resuming' = Resuming \cup {t}
    PROVE  Cardinality(Resuming') = Cardinality(Resuming) + 1
BY ResumingFinite, FS_AddElement

LEMMA OneLess ==
    ASSUME NEW t \in Producer, t \in Resuming, Resuming' = Resuming \ {t}
    PROVE  Cardinality(Resuming') = Cardinality(Resuming) - 1
BY ResumingFinite, FS_RemoveElement

LEMMA ShapeTypes ==
    ASSUME Shape
    PROVE  /\ bank \in Nat /\ count \in Nat /\ queue \in Nat /\ left \in Nat
           /\ bank <= MaxBank /\ queue + left <= Items
           /\ Outside \in {0, 1} /\ Own \in {0, 1} /\ count <= Own + Outside
           /\ pc \in [Thread -> WorkerPlace \cup CallerPlace]
BY DEF Shape, TypeOK, Places, CountExplained, Own, Outside

(* A trip takes an item and gives up one credit; nothing else of the worker *)
(* touches either, and the valve only forgives.                             *)
LEMMA WorkerCredit == ASSUME IInv, WorkerNext PROVE ItemsCredited'
<1> DEFINE R == Cardinality(Resuming)
<1>1. /\ Shape /\ R \in Nat
      /\ queue <= bank + R + Outside - count + IF pc[Worker] = "suspend" THEN 0 ELSE 1
    BY ResumingFinite DEF IInv, ItemsCredited, Credit
<1>2. PICK place \in WorkerPlace : pc' = [pc EXCEPT ![Worker] = place]
    BY DEF WorkerNext, StartGate, WorkerTakesLock, WorkerTrip, SuspendSelf, LeaveGate, ValveOpens,
           MeetCheckpoint, Checkpoint, LeaveCheckpoint, Goto, WorkerPlace
<1>3. pc'[Worker] = place /\ \A t \in Caller : pc'[t] = pc[t]
    BY <1>1, <1>2, ShapeTypes
<1>4. Resuming' = Resuming /\ Outside' = Outside
    BY <1>3 DEF Resuming, Outside
<1>5. R' = R
    BY <1>4
<1> HIDE DEF R
<1>6. SUFFICES queue' <= bank' + R + Outside - count' + IF pc'[Worker] = "suspend" THEN 0 ELSE 1
    BY <1>4, <1>5 DEF ItemsCredited, Credit, R
<1>7. CASE WorkerTrip
    <2>1. pc[Worker] = "guest" /\ pc'[Worker] = "suspend" /\ UNCHANGED <<count, bank>>
          /\ queue' = IF queue > 0 THEN queue - 1 ELSE 0
        BY <1>1, <1>7, ShapeTypes DEF WorkerTrip, Goto
    <2>2. Own = 0
        BY <2>1 DEF Own
    <2> QED BY <1>1, <2>1, <2>2, ShapeTypes
<1>8. CASE SuspendSelf
    <2>1. pc[Worker] = "suspend" /\ pc'[Worker] # "suspend" /\ queue' = queue
          /\ (bank' - count' = bank - count - 1)
        BY <1>1, <1>8, ShapeTypes DEF SuspendSelf, Goto
    <2>2. bank' \in Int /\ count' \in Int
        BY <1>1, <1>8, ShapeTypes DEF SuspendSelf
    <2> QED BY <1>1, <2>1, <2>2, ShapeTypes
<1>9. CASE ValveOpens
    <2>1. pc[Worker] = "gate" /\ pc'[Worker] = "queued" /\ queue' = queue /\ bank' = bank /\ count' = 0
        BY <1>1, <1>9, ShapeTypes DEF ValveOpens, Goto
    <2> QED BY <1>1, <2>1, ShapeTypes
<1>10. CASE StartGate \/ WorkerTakesLock \/ LeaveGate \/ MeetCheckpoint \/ Checkpoint \/ LeaveCheckpoint
    <2>1. pc[Worker] # "suspend" /\ pc'[Worker] # "suspend" /\ UNCHANGED <<queue, bank, count>>
        BY <1>1, <1>10, ShapeTypes DEF StartGate, WorkerTakesLock, LeaveGate, MeetCheckpoint, Checkpoint, LeaveCheckpoint, Goto
    <2> QED BY <1>1, <2>1
<1> QED BY <1>7, <1>8, <1>9, <1>10 DEF WorkerNext

(* What the others do to the credit: an announcement brings its resume, and *)
(* a resume spent undoes a suspend or is banked.                            *)
LEMMA OthersCredit ==
    ASSUME IInv, NEW t \in Caller,
           \/ t = Controller /\ (ControllerSuspends \/ ControllerResumes)
           \/ CallerWakes(t) \/ CallerNext(t)
    PROVE  ItemsCredited'
<1> DEFINE R == Cardinality(Resuming)
           w == IF pc[Worker] = "suspend" THEN 0 ELSE 1
<1>1. /\ Shape /\ R \in Nat /\ queue <= bank + R + Outside - count + w
    BY ResumingFinite DEF IInv, ItemsCredited, Credit
<1>2. PICK place \in CallerPlace : pc' = [pc EXCEPT ![t] = place]
    BY DEF ControllerSuspends, ControllerResumes, CallerWakes, CallerNext, CallerTakesLock, Announce,
           NothingToAnnounce, SuspendOther, SuspendReturns, Resume, HandoffDone, ResumeReturns, Goto, CallerPlace
<1>3. pc'[t] = place /\ pc'[Worker] = pc[Worker] /\ \A u \in Caller \ {t} : pc'[u] = pc[u]
    BY <1>1, <1>2, ShapeTypes
<1>4. w' = w
    BY <1>3
<1>5. ASSUME pc[t] # "resume", place # "resume" PROVE R' = R
    <2>1. Resuming' = Resuming
        BY <1>3, <1>5 DEF Resuming
    <2> QED BY <2>1
<1>6. t = Controller => R' = R
    <2>1. t = Controller => Resuming' = Resuming
        BY <1>3 DEF Resuming
    <2> QED BY <2>1
<1>7. t # Controller => Outside' = Outside
    BY <1>3 DEF Outside
<1> HIDE DEF R, w
<1>8. SUFFICES queue' <= bank' + R' + Outside' - count' + w
    BY <1>4 DEF ItemsCredited, Credit, R, w
<1>9. CASE Announce(t)
    <2>1. t \in Producer /\ pc[t] = "guest" /\ queue' = queue + 1 /\ UNCHANGED <<bank, count>> /\ place = "resume"
        BY <1>1, <1>3, <1>9, ShapeTypes DEF Announce, Goto
    <2>2. t \notin Resuming /\ Resuming' = Resuming \cup {t}
        BY <1>3, <2>1 DEF Resuming
    <2>3. R' = R + 1
        BY <2>1, <2>2, OneMore DEF R
    <2>4. Outside' = Outside /\ w \in {0, 1}
        BY <1>7, <2>1 DEF w
    <2> QED BY <1>1, <2>1, <2>3, <2>4, ShapeTypes
<1>10. CASE Resume(t)
    <2>1. pc[t] = "resume" /\ place # "resume" /\ place \notin {"suspended", "section"} /\ queue' = queue
        BY <1>1, <1>3, <1>10, ShapeTypes DEF Resume, Goto
    <2>2. \/ count > 0 /\ count' = count - 1 /\ bank' = bank
          \/ count = 0 /\ count' = count /\ bank < MaxBank /\ bank' = bank + 1
          \/ count = 0 /\ count' = count /\ bank = MaxBank /\ bank' = bank
        BY <1>1, <1>10, ShapeTypes DEF Resume, ResumeBank
    <2>3. R' + Outside' = R + Outside - 1 /\ R' \in Nat /\ Outside' \in {0, 1}
        <3>1. CASE t = Controller
            <4>1. Outside = 1 /\ Outside' = 0
                BY <1>3, <2>1, <3>1 DEF Outside
            <4> QED BY <1>1, <1>6, <3>1, <4>1
        <3>2. CASE t # Controller
            <4>1. t \in Producer /\ t \in Resuming /\ Resuming' = Resuming \ {t}
                BY <1>3, <2>1, <3>2 DEF Resuming
            <4>2. R' = R - 1
                BY <4>1, OneLess DEF R
            <4>3. R \in Nat \ {0}
                <5>1. Resuming # {}
                    BY <4>1
                <5> QED BY <1>1, <5>1, ResumingFinite, FS_EmptySet DEF R
            <4> QED BY <1>1, <1>7, <3>2, <4>2, <4>3, ShapeTypes
        <3> QED BY <3>1, <3>2
    <2>4. queue <= MaxBank /\ w \in {0, 1}
        BY <1>1, ShapeTypes DEF w
    <2> QED BY <1>1, <2>1, <2>2, <2>3, <2>4, ShapeTypes
<1>11. CASE SuspendOther(t)
    <2>1. t = Controller /\ pc[t] = "suspend" /\ place = "suspended" /\ count' = count + 1 /\ UNCHANGED <<bank, queue>>
        BY <1>1, <1>3, <1>11, ShapeTypes DEF SuspendOther, Goto, Shape, Places
    <2>2. Outside = 0 /\ Outside' = 1
        BY <1>3, <2>1 DEF Outside
    <2> QED BY <1>1, <1>6, <2>1, <2>2, ShapeTypes DEF w
<1>12. CASE \/ t = Controller /\ (ControllerSuspends \/ ControllerResumes)
            \/ CallerWakes(t) \/ CallerTakesLock(t) \/ NothingToAnnounce(t)
            \/ SuspendReturns(t) \/ HandoffDone(t) \/ ResumeReturns(t)
    <2>1. UNCHANGED <<queue, bank, count>>
        BY <1>12 DEF ControllerSuspends, ControllerResumes, CallerWakes, CallerTakesLock, NothingToAnnounce,
                     SuspendReturns, HandoffDone, ResumeReturns
    <2>2. Outside' = Outside
        BY <1>1, <1>3, <1>7, <1>12, ShapeTypes
           DEF ControllerSuspends, ControllerResumes, CallerWakes, CallerTakesLock, NothingToAnnounce,
               SuspendReturns, HandoffDone, ResumeReturns, Goto, Outside
    <2>3. t = Controller \/ (pc[t] # "resume" /\ place # "resume")
        BY <1>1, <1>3, <1>12, ShapeTypes
           DEF CallerWakes, CallerTakesLock, NothingToAnnounce, SuspendReturns, HandoffDone, ResumeReturns, Goto
    <2>4. R' = R
        BY <1>5, <1>6, <2>3
    <2> QED BY <1>1, <2>1, <2>2, <2>4
<1> QED BY <1>9, <1>10, <1>11, <1>12 DEF CallerNext

LEMMA NextIInv == IInv /\ [Next]_vars => IInv'
<1> SUFFICES ASSUME IInv, [Next]_vars PROVE IInv'
    OBVIOUS
<1>1. CASE UNCHANGED vars
    <2>1. Resuming' = Resuming /\ Outside' = Outside
        BY <1>1 DEF vars, Resuming, Outside
    <2> QED BY <1>1, <2>1 DEF IInv, Shape, TypeOK, Places, WorkerHolds, CountExplained, ItemsCredited, Credit, Own, vars
<1>2. CASE WorkerNext
    BY <1>2, WorkerShape, WorkerCredit DEF IInv
<1>3. CASE ControllerSuspends \/ ControllerResumes
    BY <1>3, ControllerShape, OthersCredit DEF IInv
<1>4. CASE \E t \in Caller : CallerWakes(t) \/ CallerNext(t)
    BY <1>4, CallerShape, OthersCredit DEF IInv
<1> QED BY <1>1, <1>2, <1>3, <1>4 DEF Next

(* The inductive invariant: where the threads are, whose the suspend count  *)
(* is, and the credit.                                                      *)
THEOREM IInvHolds == Spec => []IInv
<1>1. Init => IInv
    BY InitShape, InitCredit DEF IInv
<1> QED BY <1>1, NextIInv, PTL DEF Spec

(* The suspend count stays at 2, the bank at its cap.                       *)
THEOREM TypeCorrect == Spec => []TypeOK
BY IInvHolds, PTL DEF IInv, Shape

(* A parked thread does not hold the guest lock.                            *)
THEOREM ParksWithoutLock == Spec => []ParkedWithoutLock
<1>1. IInv => ParkedWithoutLock
    BY DEF IInv, Shape, WorkerHolds, ParkedWithoutLock
<1> QED BY <1>1, IInvHolds, PTL

(* No wake-up is lost, whatever the order of announcements, resumes,        *)
(* suspends from outside, checkpoints and time-outs.                        *)
THEOREM NoWakeupLost == Spec => []NoLostWakeup
<1>1. ASSUME IInv, pc[Worker] = "gate", count > 0, queue > 0, ~ResumeOwed PROVE FALSE
    <2>1. Outside = 0 /\ Resuming = {}
        BY <1>1 DEF ResumeOwed, Outside, Resuming
    <2>2. Cardinality(Resuming) = 0
        BY <2>1, FS_EmptySet
    <2>3. bank = 0
        BY <1>1, <2>1, ShapeTypes DEF IInv, Shape, CountExplained
    <2> QED BY <1>1, <2>1, <2>2, <2>3, ShapeTypes DEF IInv, ItemsCredited, Credit
<1>2. IInv => NoLostWakeup
    BY <1>1 DEF NoLostWakeup
<1> QED BY <1>2, IInvHolds, PTL

(* Counts in range and no parked worker with the lock, as the run checks it. *)
THEOREM SuspendInvHolds == Spec => []SuspendInv
BY TypeCorrect, ParksWithoutLock, PTL DEF SuspendInv
=============================================================================
