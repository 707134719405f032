-------------------------- MODULE HostObjectsProofs --------------------------
(***************************************************************************)
(* What TLAPS proves of HostObjects for any threads, objects and lists:    *)
(* no wake-up is lost, a mutex counts what its owner took, and a signal    *)
(* ends one wait.                                                          *)
(***************************************************************************)
EXTENDS HostObjects, TLAPS

USE ObjectAssumption

(* An owned mutex is held at least once, a free one not at all.             *)
OwnedIsHeld == \A m \in Mutex : owner[m] = NoThread <=> depth[m] = 0

(* An event's signal is one or none.                                        *)
SignalIsOne == \A e \in AutoEvent \cup GuestEvent : val[e] <= 1

(* A thread that polls is at an object of its list, has had some of those   *)
(* before it, and waits for all only if the list is one of AllLists.        *)
PollsItsList ==
  \A t \in Thread : wait[t].at = "poll" =>
    /\ wait[t].objs # <<>>
    /\ wait[t].i \in 1 .. Len(wait[t].objs) /\ wait[t].got < wait[t].i
    /\ wait[t].all => wait[t].objs \in AllLists

WaitIInv ==
  /\ WaitTypeOK /\ MutexOwned /\ OwnedIsHeld /\ SignalIsOne /\ PollsItsList
  /\ NoSleeperOnReady /\ OneWaitPerSignal

(* What a wait takes; the objects alone, whoever waits.                     *)
ObjectsOK ==
  /\ val \in [Objects -> Nat] /\ owner \in [Mutex -> Thread \cup {NoThread}]
  /\ depth \in [Mutex -> Nat] /\ holds \in [Thread -> [Mutex -> Int]]
  /\ \A s \in Semaphore : val[s] <= SemMax
  /\ MutexOwned /\ OwnedIsHeld /\ SignalIsOne

WaitsOK ==
  /\ wait \in [Thread -> [at : {"run", "look", "sleep", "awake", "poll", "gone"},
                          objs : AnyLists \cup AllLists \cup {<<>>}, all : BOOLEAN,
                          i : Nat, got : Nat]]
  /\ \A t \in Thread :
       wait[t].at \in {"look", "sleep", "awake"} => wait[t].objs # <<>> /\ Single(t)
  /\ PollsItsList

LEMMA Parts ==
  WaitIInv <=> ObjectsOK /\ WaitsOK /\ owed \in [Counted -> Int] /\ NoSleeperOnReady /\ OneWaitPerSignal
BY DEF WaitIInv, WaitTypeOK, ObjectsOK, WaitsOK

LEMMA InitWait == WaitInit => WaitIInv
<1> SUFFICES ASSUME WaitInit PROVE WaitIInv
  OBVIOUS
<1>1. ObjectsOK
  BY DEF WaitInit, ObjectsOK, MutexOwned, OwnedIsHeld, SignalIsOne, Objects
<1>2. WaitsOK
  BY DEF WaitInit, WaitsOK, Running, PollsItsList
<1>3. owed \in [Counted -> Int] /\ NoSleeperOnReady /\ OneWaitPerSignal
  BY DEF WaitInit, Running, NoSleeperOnReady, OneWaitPerSignal, Counted, Objects
<1> QED BY <1>1, <1>2, <1>3, Parts

LEMMA TakeKeeps ==
  ASSUME ObjectsOK, NEW o \in Objects, NEW t \in Thread, Ready(o, t), Take(o, t)
  PROVE  ObjectsOK'
<1>1. CASE o \in Mutex
  <2>1. val' = val
    BY <1>1 DEF Take, ObjectsOK, Objects
  <2>2. /\ owner' = [owner EXCEPT ![o] = t] /\ depth' = [depth EXCEPT ![o] = @ + 1]
        /\ holds' = [holds EXCEPT ![t][o] = @ + 1] /\ owner[o] \in {NoThread, t}
    BY <1>1 DEF Take, Ready
  <2> QED BY <1>1, <2>1, <2>2 DEF ObjectsOK, MutexOwned, OwnedIsHeld, SignalIsOne
<1>2. CASE o \notin Mutex
  <2>1. UNCHANGED <<owner, depth, holds>> /\ val[o] > 0
    BY <1>2 DEF Take, Ready
  <2>2. val' = [val EXCEPT ![o] = IF o \in AutoEvent \cup GuestEvent THEN 0
                                  ELSE IF o \in Semaphore THEN @ - 1 ELSE @]
    BY DEF Take
  <2>3. val' \in [Objects -> Nat] /\ \A p \in Objects : val'[p] <= val[p]
    BY <2>1, <2>2 DEF ObjectsOK
  <2> QED BY <2>1, <2>3 DEF ObjectsOK, MutexOwned, OwnedIsHeld, SignalIsOne, Objects
<1> QED BY <1>1, <1>2

(* Taking makes nothing ready for anybody else.                             *)
LEMMA TakeReadiesNone ==
  ASSUME ObjectsOK, NEW o \in Objects, NEW t \in Thread, Ready(o, t), Take(o, t),
         NEW p \in Objects, NEW u \in Thread, u # t, ~Ready(p, u)
  PROVE  ~Ready(p, u)'
<1>1. CASE p \in Mutex
  BY <1>1 DEF Ready, Take, ObjectsOK
<1>2. CASE p \notin Mutex
  <2>1. val' = [val EXCEPT ![o] = IF o \in AutoEvent \cup GuestEvent THEN 0
                                  ELSE IF o \in Semaphore THEN @ - 1 ELSE @]
    BY DEF Take
  <2>2. val \in [Objects -> Nat] /\ val[p] = 0
    BY <1>2 DEF Ready, ObjectsOK
  <2>3. o \in Semaphore => val[o] > 0
    BY DEF Ready
  <2> QED BY <1>2, <2>1, <2>2, <2>3 DEF Ready
<1> QED BY <1>1, <1>2

(* One signal is used up, if signals of the object are counted at all.      *)
LEMMA TakeUsesOne ==
  ASSUME ObjectsOK, NEW o \in Objects, NEW t \in Thread, Ready(o, t), Take(o, t)
  PROVE  /\ \A c \in Counted : c # o => val'[c] = val[c]
         /\ o \in Counted => val'[o] = val[o] - 1
<1>1. val' = [val EXCEPT ![o] = IF o \in AutoEvent \cup GuestEvent THEN 0
                                ELSE IF o \in Semaphore THEN @ - 1 ELSE @]
  BY DEF Take
<1>2. o \in Counted => val[o] > 0 /\ (o \in AutoEvent \cup GuestEvent \/ o \in Semaphore)
  BY DEF Counted, Ready
<1>3. \A c \in Counted : c \in Objects
  BY DEF Counted, Objects
<1> QED BY <1>1, <1>2, <1>3 DEF ObjectsOK, SignalIsOne

(* The object a thread looks at, alone or in a list, is one of the objects. *)
LEMMA LooksAtObject ==
  ASSUME WaitsOK, NEW t \in Thread
  PROVE  /\ wait[t].at \in {"look", "sleep", "awake"} => Object(t) \in Objects
         /\ wait[t].at = "poll" => wait[t].objs[wait[t].i] \in Objects
<1>1. ASSUME NEW l \in AnyLists \cup AllLists, NEW k \in 1 .. Len(l) PROVE l[k] \in Objects
  <2>1. l \in Seq(Objects)
    OBVIOUS
  <2> QED BY <2>1
<1>2. wait[t].objs \in AnyLists \cup AllLists \cup {<<>>}
  BY DEF WaitsOK
<1> QED BY <1>1, <1>2 DEF WaitsOK, PollsItsList, Object, Single

WaitRecord == [at : {"run", "look", "sleep", "awake", "poll", "gone"},
               objs : AnyLists \cup AllLists \cup {<<>>}, all : BOOLEAN, i : Nat, got : Nat]

(* A broadcast wakes sleepers and changes nothing else of anybody.          *)
LEMMA WakesSleepers ==
  ASSUME WaitsOK, NEW S, \A t \in S : t \in Thread /\ wait[t].at = "sleep", wait' = Wakes(wait, S)
  PROVE  /\ WaitsOK'
         /\ \A t \in Thread : wait'[t].at = "sleep" => t \notin S /\ wait'[t] = wait[t]
<1>1. wait' = [t \in Thread |-> IF t \in S THEN [wait[t] EXCEPT !.at = "awake"] ELSE wait[t]]
  BY DEF Wakes
<1>2. wait \in [Thread -> WaitRecord]
  BY DEF WaitsOK, WaitRecord
<1>3. ASSUME NEW r \in WaitRecord
      PROVE  LET w == [r EXCEPT !.at = "awake"]
             IN  w \in WaitRecord /\ w.at = "awake" /\ w.objs = r.objs
  BY DEF WaitRecord
<1>4. \A t \in Thread : t \in S => /\ wait[t].at = "sleep" /\ wait'[t] \in WaitRecord
                                  /\ wait'[t].at = "awake" /\ wait'[t].objs = wait[t].objs
  BY <1>1, <1>2, <1>3
<1>5. \A t \in Thread : t \notin S => wait'[t] = wait[t] /\ wait'[t] \in WaitRecord
  BY <1>1, <1>2
<1>6. wait' \in [Thread -> WaitRecord]
  BY <1>1, <1>4, <1>5
<1>7. \A t \in Thread : wait'[t].at \in {"look", "sleep", "awake"} =>
        wait'[t].objs # <<>> /\ Len(wait'[t].objs) = 1
  BY <1>4, <1>5 DEF WaitsOK, Single
<1>8. PollsItsList'
  BY <1>4, <1>5 DEF WaitsOK, PollsItsList
<1>9. WaitsOK'
  BY <1>6, <1>7, <1>8 DEF WaitsOK, Single, WaitRecord
<1> QED BY <1>4, <1>5, <1>9

(* A thread's own step leaves the others' waits alone.                      *)
LEMMA OwnWait ==
  ASSUME WaitsOK, NEW t \in Thread, NEW w \in WaitRecord, wait' = [wait EXCEPT ![t] = w],
         w.at \in {"look", "sleep", "awake"} => w.objs # <<>> /\ Len(w.objs) = 1,
         w.at = "poll" => /\ w.objs # <<>> /\ w.i \in 1 .. Len(w.objs) /\ w.got < w.i
                          /\ w.all => w.objs \in AllLists
  PROVE  WaitsOK' /\ \A u \in Thread : wait'[u] = IF u = t THEN w ELSE wait[u]
<1>1. wait \in [Thread -> WaitRecord]
  BY DEF WaitsOK, WaitRecord
<1>2. wait' \in [Thread -> WaitRecord] /\ \A u \in Thread : wait'[u] = IF u = t THEN w ELSE wait[u]
  BY <1>1
<1>3. PollsItsList'
  BY <1>2 DEF WaitsOK, PollsItsList
<1>4. \A u \in Thread : wait'[u].at \in {"look", "sleep", "awake"} => wait'[u].objs # <<>> /\ Len(wait'[u].objs) = 1
  BY <1>2 DEF WaitsOK, Single
<1> QED BY <1>2, <1>3, <1>4 DEF WaitsOK, Single, WaitRecord

(* Calls that change no object: nothing becomes ready, nothing is owed.     *)
LEMMA IdleStep ==
  ASSUME WaitIInv, UNCHANGED <<val, owner, depth, owed, holds>>, WaitsOK',
         \A u \in Thread : wait'[u].at = "sleep" =>
           /\ wait'[u].objs = wait[u].objs
           /\ wait[u].at = "sleep" \/ ~Ready(Object(u), u)
  PROVE  WaitIInv'
<1>1. ObjectsOK'
  BY Parts DEF ObjectsOK, MutexOwned, OwnedIsHeld, SignalIsOne
<1>2. \A u \in Thread : wait'[u].at = "sleep" => Object(u)' = Object(u) /\ ~Ready(Object(u), u)
  BY DEF WaitIInv, NoSleeperOnReady, Object
<1>3. NoSleeperOnReady'
  BY <1>2 DEF NoSleeperOnReady, Ready
<1>4. OneWaitPerSignal' /\ owed' \in [Counted -> Int]
  BY Parts DEF OneWaitPerSignal
<1> QED BY <1>1, <1>3, <1>4 DEF WaitIInv, WaitTypeOK, ObjectsOK, WaitsOK

LEMMA RunningRecord ==
  /\ Running \in WaitRecord /\ Running.at = "run"
  /\ Gone \in WaitRecord /\ Gone.at = "gone"
BY DEF Running, Gone, WaitRecord

LEMMA BeginWaitStep == ASSUME WaitIInv, NEW t \in Thread, BeginWait(t) PROVE WaitIInv'
<1> PICK l \in AnyLists \cup AllLists :
      wait' = [wait EXCEPT ![t] = [at |-> IF Len(l) = 1 THEN "look" ELSE "poll",
                                   objs |-> l, all |-> l \in AllLists, i |-> 1, got |-> 0]]
  BY DEF BeginWait
<1> DEFINE w == [at |-> IF Len(l) = 1 THEN "look" ELSE "poll",
                 objs |-> l, all |-> l \in AllLists, i |-> 1, got |-> 0]
<1>1. l \in Seq(Objects) /\ l # <<>> /\ Len(l) \in Nat /\ 1 \in 1 .. Len(l)
  BY DEF Objects
<1>2. (l \in AllLists) \in BOOLEAN
  OBVIOUS
<1>3. w \in WaitRecord
  BY <1>2 DEF WaitRecord
<1>4. WaitsOK' /\ \A u \in Thread : wait'[u] = IF u = t THEN w ELSE wait[u]
  <2>1. wait' = [wait EXCEPT ![t] = w] /\ WaitsOK
    BY Parts
  <2>2. w.objs = l /\ w.i = 1 /\ w.got = 0 /\ (w.all <=> l \in AllLists) /\ w.at \in {"look", "poll"} /\ (w.at = "look" <=> Len(l) = 1)
    OBVIOUS
  <2> HIDE DEF w
  <2>3. w.at \in {"look", "sleep", "awake"} => w.objs # <<>> /\ Len(w.objs) = 1
    BY <1>1, <2>2
  <2>4. w.at = "poll" => /\ w.objs # <<>> /\ w.i \in 1 .. Len(w.objs) /\ w.got < w.i
                         /\ w.all => w.objs \in AllLists
    BY <1>1, <2>2
  <2> QED BY <1>3, <2>1, <2>3, <2>4, OwnWait
<1>5. \A u \in Thread : wait'[u].at = "sleep" => wait'[u] = wait[u]
  BY <1>4
<1> HIDE DEF w
<1> QED BY <1>4, <1>5, IdleStep DEF BeginWait

LEMMA TimeOutStep == ASSUME WaitIInv, NEW t \in Thread, TimeOut(t) PROVE WaitIInv'
<1>1. WaitsOK' /\ \A u \in Thread : wait'[u] = IF u = t THEN Running ELSE wait[u]
  <2>1. WaitsOK /\ wait' = [wait EXCEPT ![t] = Running]
    BY Parts DEF TimeOut
  <2>2. Running \in WaitRecord /\ Running.at \notin {"look", "sleep", "awake"} /\ Running.at # "poll"
    BY RunningRecord
  <2> QED BY <2>1, <2>2, OwnWait
<1>2. \A u \in Thread : wait'[u].at = "sleep" => wait'[u] = wait[u]
  BY <1>1, RunningRecord
<1> QED BY <1>1, <1>2, IdleStep DEF TimeOut

LEMMA SliceStep == ASSUME WaitIInv, NEW t \in Thread, Slice(t) PROVE WaitIInv'
<1> DEFINE w == [wait[t] EXCEPT !.at = "awake"]
<1>1. wait[t] \in WaitRecord /\ wait[t].at = "sleep"
  BY Parts DEF WaitsOK, WaitRecord, Slice
<1>2. w \in WaitRecord /\ w.at = "awake" /\ w.objs = wait[t].objs
  BY <1>1 DEF WaitRecord
<1>3. wait' = [wait EXCEPT ![t] = w]
  BY DEF Slice
<1> HIDE DEF w
<1>4. WaitsOK' /\ \A u \in Thread : wait'[u] = IF u = t THEN w ELSE wait[u]
  <2>1. wait[t].objs # <<>> /\ Len(wait[t].objs) = 1 /\ WaitsOK
    BY <1>1, Parts DEF WaitsOK, Single
  <2>2. w.objs # <<>> /\ Len(w.objs) = 1 /\ w.at # "poll"
    BY <1>2, <2>1
  <2> QED BY <1>2, <1>3, <2>1, <2>2, OwnWait
<1>5. \A u \in Thread : wait'[u].at = "sleep" => wait'[u] = wait[u]
  BY <1>2, <1>4
<1> QED BY <1>4, <1>5, IdleStep DEF Slice

(* A thread goes on with what it took; the others' objects are no more      *)
(* ready than before.                                                       *)
LEMMA TakeStep ==
  ASSUME WaitIInv, NEW t \in Thread, NEW o \in Objects, Ready(o, t), Take(o, t),
         Ends(o) \/ (owed' = owed /\ o \notin Counted),
         NEW w \in WaitRecord, wait' = [wait EXCEPT ![t] = w],
         w.at = "run" \/ w.at = "poll",
         w.at = "poll" => /\ w.objs # <<>> /\ w.i \in 1 .. Len(w.objs) /\ w.got < w.i
                          /\ w.all => w.objs \in AllLists
  PROVE  WaitIInv'
<1>1. ObjectsOK /\ WaitsOK /\ owed \in [Counted -> Int]
  BY Parts
<1>2. ObjectsOK'
  BY <1>1, TakeKeeps
<1>3. WaitsOK' /\ \A u \in Thread : wait'[u] = IF u = t THEN w ELSE wait[u]
  <2>1. w.at \notin {"look", "sleep", "awake"}
    OBVIOUS
  <2> QED BY <1>1, <2>1, OwnWait
<1>4. owed' \in [Counted -> Int] /\ OneWaitPerSignal'
  <2>1. /\ \A c \in Counted : c # o => val'[c] = val[c]
        /\ o \in Counted => val'[o] = val[o] - 1
    BY <1>1, TakeUsesOne
  <2>2. owed' = IF o \in Counted THEN [owed EXCEPT ![o] = @ - 1] ELSE owed
    BY DEF Ends
  <2> QED BY <1>1, <2>1, <2>2 DEF WaitIInv, OneWaitPerSignal
<1>5. NoSleeperOnReady'
  <2>1. ASSUME NEW u \in Thread, wait'[u].at = "sleep" PROVE ~Ready(Object(u), u)'
    <3>1. u # t /\ wait'[u] = wait[u] /\ wait[u].at = "sleep"
      BY <1>3, <2>1
    <3>2. Object(u) \in Objects /\ ~Ready(Object(u), u)
      BY <1>1, <3>1, LooksAtObject DEF WaitIInv, NoSleeperOnReady
    <3>3. \A p \in Objects : ~Ready(p, u) => ~Ready(p, u)'
      BY <1>1, <3>1, TakeReadiesNone
    <3>4. Object(u)' = Object(u)
      BY <3>1 DEF Object
    <3> DEFINE p == Object(u)
    <3>5. p \in Objects /\ ~Ready(p, u) /\ p' = p
      BY <3>2, <3>4
    <3> HIDE DEF p
    <3>6. ~Ready(p, u)'
      BY <3>3, <3>5 DEF Ready
    <3> QED BY <3>6 DEF p
  <2> QED BY <2>1 DEF NoSleeperOnReady
<1> QED BY <1>2, <1>3, <1>4, <1>5 DEF WaitIInv, WaitTypeOK, ObjectsOK, WaitsOK

LEMMA LookStep == ASSUME WaitIInv, NEW t \in Thread, Look(t) PROVE WaitIInv'
<1>1. ObjectsOK /\ WaitsOK /\ wait[t].at \in {"look", "awake"}
  BY Parts DEF Look
<1>2. Object(t) \in Objects
  BY <1>1, LooksAtObject
<1>3. CASE Ready(Object(t), t)
  <2>1. Take(Object(t), t) /\ Ends(Object(t)) /\ wait' = [wait EXCEPT ![t] = Running]
    BY <1>3 DEF Look
  <2>2. Running \in WaitRecord /\ Running.at = "run"
    BY RunningRecord
  <2> DEFINE o == Object(t)
  <2>3. o \in Objects /\ Ready(o, t) /\ Take(o, t) /\ Ends(o)
    BY <1>2, <1>3, <2>1
  <2> HIDE DEF o
  <2> QED BY <2>1, <2>2, <2>3, TakeStep
<1>4. CASE ~Ready(Object(t), t)
  <2> DEFINE w == [wait[t] EXCEPT !.at = "sleep"]
  <2>1. wait' = [wait EXCEPT ![t] = w] /\ UNCHANGED <<val, owner, depth, owed, holds>>
    BY <1>4 DEF Look
  <2>2. wait[t] \in WaitRecord
    BY <1>1 DEF WaitsOK, WaitRecord
  <2>3. w \in WaitRecord /\ w.at = "sleep" /\ w.objs = wait[t].objs
    BY <2>2 DEF WaitRecord
  <2> HIDE DEF w
  <2>4. w.objs # <<>> /\ Len(w.objs) = 1 /\ w.at # "poll"
    BY <1>1, <2>3 DEF WaitsOK, Single
  <2>5. WaitsOK' /\ \A u \in Thread : wait'[u] = IF u = t THEN w ELSE wait[u]
    BY <1>1, <2>1, <2>3, <2>4, OwnWait
  <2>6. \A u \in Thread : wait'[u].at = "sleep" =>
          wait'[u].objs = wait[u].objs /\ (wait[u].at = "sleep" \/ ~Ready(Object(u), u))
    BY <1>4, <2>3, <2>5
  <2> QED BY <2>1, <2>5, <2>6, IdleStep
<1> QED BY <1>3, <1>4

LEMMA PollStep == ASSUME WaitIInv, NEW t \in Thread, Poll(t) PROVE WaitIInv'
<1> DEFINE r == wait[t]
           o == r.objs[r.i]
           last == r.i = Len(r.objs)
           got == r.got + IF Ready(o, t) THEN 1 ELSE 0
           done == IF r.all THEN last /\ got = Len(r.objs) ELSE Ready(o, t)
           more == [[r EXCEPT !.i = @ + 1] EXCEPT !.got = got]
           again == [[r EXCEPT !.i = 1] EXCEPT !.got = 0]
<1>1. ObjectsOK /\ WaitsOK /\ r.at = "poll" /\ r \in WaitRecord
  BY Parts DEF WaitsOK, WaitRecord, Poll
<1>2. r.objs \in AnyLists \cup AllLists /\ r.objs # <<>> /\ r.i \in 1 .. Len(r.objs)
      /\ (r.all => r.objs \in AllLists) /\ Len(r.objs) \in Nat
      /\ r.got \in Nat /\ r.got < r.i
  <2>1. r.objs # <<>> /\ r.i \in 1 .. Len(r.objs) /\ r.got < r.i /\ (r.all => r.objs \in AllLists)
    BY <1>1 DEF WaitsOK, PollsItsList
  <2>2. r.objs \in AnyLists \cup AllLists
    BY <1>1, <2>1 DEF WaitRecord
  <2>3. r.objs \in Seq(Objects)
    BY <2>2
  <2>4. r.got \in Nat
    BY <1>1 DEF WaitRecord
  <2> QED BY <2>1, <2>2, <2>3, <2>4
<1>3. o \in Objects
  BY <1>1, LooksAtObject
<1>4. PICK w \in {Running, more, again} :
        /\ wait' = [wait EXCEPT ![t] = w]
        /\ w = more => ~last \/ w = Running \/ w = again
  BY DEF Poll
<1>5. w \in WaitRecord /\ (w.at = "run" \/ w.at = "poll")
      /\ (w.at = "poll" => /\ w.objs # <<>> /\ w.i \in 1 .. Len(w.objs) /\ w.got < w.i
                           /\ w.all => w.objs \in AllLists)
  <2>1. got \in Nat /\ got <= r.i
    <3>1. got = r.got + 1 \/ got = r.got + 0
      OBVIOUS
    <3> QED BY <1>2, <3>1
  <2>2. Running \in WaitRecord /\ Running.at = "run"
    BY RunningRecord
  <2>3. again \in WaitRecord /\ again.at = "poll" /\ again.objs = r.objs /\ again.i = 1 /\ again.got = 0 /\ again.all = r.all
    BY <1>1 DEF WaitRecord
  <2>4. more \in WaitRecord /\ more.at = "poll" /\ more.objs = r.objs /\ more.i = r.i + 1 /\ more.got = got /\ more.all = r.all
    <3>1. more = [r EXCEPT !.i = r.i + 1, !.got = got]
      OBVIOUS
    <3>2. r.i + 1 \in Nat
      BY <1>2
    <3> HIDE DEF got, more, r
    <3> QED BY <1>1, <2>1, <3>1, <3>2 DEF WaitRecord
  <2>5. ~last => r.i + 1 \in 1 .. Len(r.objs) /\ got < r.i + 1
    BY <1>2, <2>1
  <2>6. 1 \in 1 .. Len(r.objs)
    BY <1>2
  <2> HIDE DEF more, again, last, got, r
  <2> QED BY <1>2, <1>4, <2>2, <2>3, <2>4, <2>5, <2>6
<1>6. CASE Ready(o, t)
  <2>1. Take(o, t)
    BY <1>6 DEF Poll
  <2>2. Ends(o) \/ (owed' = owed /\ ~done)
    BY DEF Poll
  <2>3. ~done => o \notin Counted
    <3>1. SUFFICES ASSUME ~done PROVE o \notin Counted
      OBVIOUS
    <3>2. r.all
      BY <1>6, <3>1
    <3>3. r.objs \in AllLists /\ r.i \in DOMAIN r.objs
      <4>1. r.objs \in Seq(Objects)
        BY <1>2
      <4> QED BY <1>2, <3>2, <4>1
    <3> QED BY <3>3 DEF Counted
  <2> HIDE DEF o, done, more, again
  <2> QED BY <1>3, <1>4, <1>5, <1>6, <2>1, <2>2, <2>3, TakeStep
<1>7. CASE ~Ready(o, t)
  <2>1. UNCHANGED <<val, owner, depth, holds>>
    BY <1>7 DEF Poll
  <2>2. ~done
    <3>1. CASE ~r.all
      BY <1>7, <3>1
    <3>2. CASE r.all
      BY <1>2, <1>7, <3>2
    <3> QED BY <3>1, <3>2
  <2>3. owed' = owed
    BY <2>2 DEF Poll
  <2> HIDE DEF o, done, more, again, last
  <2>4. WaitsOK' /\ \A u \in Thread : wait'[u] = IF u = t THEN w ELSE wait[u]
    BY <1>1, <1>4, <1>5, OwnWait
  <2>5. \A u \in Thread : wait'[u].at = "sleep" => wait'[u] = wait[u]
    BY <1>5, <2>4
  <2> QED BY <2>1, <2>3, <2>4, <2>5, IdleStep
<1> QED BY <1>6, <1>7

(* A call that signals: whoever still sleeps sleeps on what is not ready.   *)
LEMMA NotifyStep ==
  ASSUME WaitIInv, ObjectsOK', owed' \in [Counted -> Int], OneWaitPerSignal',
         NEW S, \A t \in S : t \in Thread /\ wait[t].at = "sleep", wait' = Wakes(wait, S),
         \A u \in Thread, o \in Objects :
           wait[u].at = "sleep" /\ u \notin S /\ o = Object(u) => ~Ready(o, u)'
  PROVE  WaitIInv'
<1>1. /\ WaitsOK'
      /\ \A t \in Thread : wait'[t].at = "sleep" => t \notin S /\ wait'[t] = wait[t]
  BY Parts, WakesSleepers
<1>2. ASSUME NEW u \in Thread, wait'[u].at = "sleep" PROVE ~Ready(Object(u), u)'
  <2> DEFINE p == Object(u)
  <2>1. u \notin S /\ wait'[u] = wait[u]
    BY <1>1, <1>2
  <2>2. wait[u].at = "sleep"
    BY <1>2, <2>1
  <2>3. p \in Objects /\ p' = p
    BY <2>1, <2>2, Parts, LooksAtObject DEF Object
  <2>4. ~Ready(p, u)'
    <3> HIDE DEF p
    <3>1. \A o \in Objects : o = p => ~Ready(o, u)'
      BY <2>1, <2>2 DEF p
    <3> QED BY <2>3, <3>1 DEF Ready
  <2> QED BY <2>4
<1>3. NoSleeperOnReady'
  BY <1>2 DEF NoSleeperOnReady
<1> QED BY <1>1, <1>3 DEF WaitIInv, WaitTypeOK, ObjectsOK, WaitsOK

(* One object gets the value c, and its signals are counted accordingly.    *)
LEMMA SignalOne ==
  ASSUME WaitIInv, NEW o \in Objects \ Mutex, NEW c \in Nat, val' = [val EXCEPT ![o] = c],
         Owes(o, c - val[o]), UNCHANGED <<owner, depth, holds>>,
         o \in AutoEvent \cup GuestEvent => c <= 1, o \in Semaphore => c <= SemMax
  PROVE  /\ ObjectsOK' /\ owed' \in [Counted -> Int] /\ OneWaitPerSignal'
         /\ \A u \in Thread, p \in Objects : p # o /\ ~Ready(p, u) => ~Ready(p, u)'
         /\ \A u \in Thread : c = 0 => ~Ready(o, u)'
<1>1. ObjectsOK /\ owed \in [Counted -> Int] /\ OneWaitPerSignal
  BY Parts
<1>2. \A p \in Objects : val'[p] = IF p = o THEN c ELSE val[p]
  BY <1>1 DEF ObjectsOK
<1>3. ObjectsOK'
  BY <1>1, <1>2 DEF ObjectsOK, MutexOwned, OwnedIsHeld, SignalIsOne, Objects
<1>4. \A p \in Counted : p \in Objects
  BY DEF Counted, Objects
<1>5. owed' = IF o \in Counted THEN [owed EXCEPT ![o] = @ + (c - val[o])] ELSE owed
  BY DEF Owes
<1>6. val[o] \in Nat
  BY <1>1 DEF ObjectsOK
<1>7. owed' \in [Counted -> Int]
  BY <1>1, <1>5, <1>6
<1>8. OneWaitPerSignal'
  BY <1>1, <1>2, <1>4, <1>5, <1>6 DEF OneWaitPerSignal
<1>9. \A u \in Thread, p \in Objects : p # o /\ ~Ready(p, u) => ~Ready(p, u)'
  BY <1>2 DEF Ready
<1>10. \A u \in Thread : c = 0 => ~Ready(o, u)'
  BY <1>2 DEF Ready
<1> QED BY <1>3, <1>7, <1>8, <1>9, <1>10

LEMMA SleepersSleep ==
  \A o \in Objects : \A t \in Sleepers(o) : t \in Thread /\ wait[t].at = "sleep"
BY DEF Sleepers

(* Everybody asleep on the object is woken, or nobody and it has no signal. *)
LEMMA SignalStep ==
  ASSUME WaitIInv, NEW o \in Objects \ Mutex, NEW c \in Nat, val' = [val EXCEPT ![o] = c],
         Owes(o, c - val[o]), UNCHANGED <<owner, depth, holds>>,
         o \in AutoEvent \cup GuestEvent => c <= 1, o \in Semaphore => c <= SemMax,
         NEW S, \A t \in S : t \in Thread /\ wait[t].at = "sleep", wait' = Wakes(wait, S),
         Sleepers(o) \subseteq S \/ c = 0
  PROVE  WaitIInv'
<1>1. /\ ObjectsOK' /\ owed' \in [Counted -> Int] /\ OneWaitPerSignal'
      /\ \A u \in Thread, p \in Objects : p # o /\ ~Ready(p, u) => ~Ready(p, u)'
      /\ \A u \in Thread : c = 0 => ~Ready(o, u)'
  BY SignalOne
<1>2. ASSUME NEW u \in Thread, NEW p \in Objects, wait[u].at = "sleep", u \notin S, p = Object(u)
      PROVE  ~Ready(p, u)'
  <2>1. ~Ready(p, u)
    BY <1>2 DEF WaitIInv, NoSleeperOnReady
  <2>2. p = o => c = 0
    BY <1>2 DEF Sleepers
  <2>3. CASE p # o
    BY <1>1, <2>1, <2>3
  <2>4. CASE p = o
    BY <1>1, <2>2, <2>4
  <2> QED BY <2>3, <2>4
<1> QED BY <1>1, <1>2, NotifyStep

LEMMA WakesNobody == ASSUME WaitsOK, wait' = wait PROVE wait' = Wakes(wait, {})
BY DEF WaitsOK, Wakes

LEMMA SetEventStep == ASSUME WaitIInv, NEW o \in Objects, SetEvent(o) PROVE WaitIInv'
<1> DEFINE c == 1
<1>1. /\ o \in Objects \ Mutex /\ c \in Nat /\ val' = [val EXCEPT ![o] = c] /\ Owes(o, c - val[o]) /\ c <= 1
      /\ UNCHANGED <<owner, depth, holds>> /\ o \notin Semaphore /\ wait' = Wakes(wait, Sleepers(o))
  BY DEF SetEvent
<1> HIDE DEF c
<1> QED BY <1>1, SleepersSleep, SignalStep

LEMMA DispatcherSignalStep == ASSUME WaitIInv, NEW o \in Objects, DispatcherSignal(o) PROVE WaitIInv'
<1> DEFINE S == UNION {Sleepers(e) : e \in GuestEvent}
<1> DEFINE c == 1
<1>1. /\ o \in Objects \ Mutex /\ c \in Nat /\ val' = [val EXCEPT ![o] = c] /\ Owes(o, c - val[o]) /\ c <= 1
      /\ UNCHANGED <<owner, depth, holds>> /\ o \notin Semaphore /\ wait' = Wakes(wait, S)
      /\ Sleepers(o) \subseteq S
  BY DEF DispatcherSignal
<1>2. \A t \in S : t \in Thread /\ wait[t].at = "sleep"
  BY DEF Sleepers
<1> HIDE DEF S, c
<1> QED BY <1>1, <1>2, SignalStep

LEMMA ResetEventStep == ASSUME WaitIInv, NEW o \in Objects, ResetEvent(o) PROVE WaitIInv'
<1> DEFINE c == 0
<1>1. /\ o \in Objects \ Mutex /\ c \in Nat /\ val' = [val EXCEPT ![o] = c] /\ Owes(o, c - val[o]) /\ c = 0 /\ c <= 1
      /\ UNCHANGED <<owner, depth, holds>> /\ o \notin Semaphore /\ wait' = wait
  BY DEF ResetEvent
<1>2. wait' = Wakes(wait, {})
  BY <1>1, Parts, WakesNobody
<1> HIDE DEF c
<1> QED BY <1>1, <1>2, SignalStep

LEMMA PulseEventStep == ASSUME WaitIInv, NEW o \in Objects, PulseEvent(o) PROVE WaitIInv'
<1> DEFINE c == 0
<1>1. /\ o \in Objects \ Mutex /\ c \in Nat /\ val' = [val EXCEPT ![o] = c] /\ Owes(o, c - val[o]) /\ c = 0 /\ c <= 1
      /\ UNCHANGED <<owner, depth, holds>> /\ o \notin Semaphore /\ wait' = Wakes(wait, Sleepers(o))
  BY DEF PulseEvent
<1> HIDE DEF c
<1> QED BY <1>1, SleepersSleep, SignalStep

LEMMA ReleaseSemaphoreStep == ASSUME WaitIInv, NEW o \in Objects, ReleaseSemaphore(o) PROVE WaitIInv'
<1> PICK n \in ReleaseCounts :
      LET c == IF val[o] + n > SemMax THEN SemMax ELSE val[o] + n
      IN  val' = [val EXCEPT ![o] = c] /\ Owes(o, c - val[o])
  BY DEF ReleaseSemaphore
<1> DEFINE c == IF val[o] + n > SemMax THEN SemMax ELSE val[o] + n
<1>1. val' = [val EXCEPT ![o] = c] /\ Owes(o, c - val[o])
  OBVIOUS
<1>2. c \in Nat /\ c <= SemMax
  BY Parts DEF ObjectsOK
<1>3. /\ o \in Objects \ Mutex /\ UNCHANGED <<owner, depth, holds>>
      /\ o \notin AutoEvent \cup GuestEvent /\ wait' = Wakes(wait, Sleepers(o))
  BY DEF ReleaseSemaphore
<1> HIDE DEF c
<1> QED BY <1>1, <1>2, <1>3, SleepersSleep, SignalStep

LEMMA ReleaseMutexStep ==
  ASSUME WaitIInv, NEW t \in Thread, NEW m \in Mutex, ReleaseMutex(t, m)
  PROVE  WaitIInv'
<1>1. ObjectsOK /\ WaitsOK /\ OneWaitPerSignal /\ owed \in [Counted -> Int]
  BY Parts
<1>2. /\ owner[m] = t /\ holds' = [holds EXCEPT ![t][m] = @ - 1] /\ depth' = [depth EXCEPT ![m] = @ - 1]
      /\ owner' = [owner EXCEPT ![m] = IF depth[m] = 1 THEN NoThread ELSE @]
      /\ UNCHANGED <<val, owed>> /\ wait[t].at = "run"
      /\ wait' = IF depth[m] = 1 THEN Wakes(wait, Sleepers(m)) ELSE wait
  BY DEF ReleaseMutex
<1>3. depth[m] \in Nat \ {0}
  BY <1>1, <1>2 DEF ObjectsOK, OwnedIsHeld
<1>4. ObjectsOK'
  <2>1. depth' \in [Mutex -> Nat] /\ owner' \in [Mutex -> Thread \cup {NoThread}]
        /\ holds' \in [Thread -> [Mutex -> Int]]
    BY <1>1, <1>2, <1>3 DEF ObjectsOK
  <2>2. OwnedIsHeld'
    BY <1>1, <1>2, <1>3 DEF ObjectsOK, OwnedIsHeld
  <2>3. MutexOwned'
    BY <1>1, <1>2, <1>3 DEF ObjectsOK, MutexOwned
  <2> QED BY <1>1, <1>2, <2>1, <2>2, <2>3 DEF ObjectsOK, SignalIsOne
<1>5. owed' \in [Counted -> Int] /\ OneWaitPerSignal'
  BY <1>1, <1>2 DEF OneWaitPerSignal
<1>6. PICK S : /\ wait' = Wakes(wait, S) /\ \A u \in S : u \in Thread /\ wait[u].at = "sleep"
               /\ depth[m] = 1 => S = Sleepers(m)
  <2>1. CASE depth[m] = 1
    BY <1>2, <2>1 DEF Sleepers
  <2>2. CASE depth[m] # 1
    BY <1>1, <1>2, <2>2, WakesNobody
  <2> QED BY <2>1, <2>2
<1>7. ASSUME NEW u \in Thread, NEW p \in Objects, wait[u].at = "sleep", u \notin S, p = Object(u)
      PROVE  ~Ready(p, u)'
  <2>1. ~Ready(p, u)
    BY <1>7 DEF WaitIInv, NoSleeperOnReady
  <2>2. p = m => depth[m] # 1 /\ u # t
    BY <1>2, <1>6, <1>7 DEF Sleepers
  <2> QED BY <1>1, <1>2, <2>1, <2>2 DEF Ready, ObjectsOK
<1> QED BY <1>4, <1>5, <1>6, <1>7, NotifyStep

LEMMA ExitThreadStep == ASSUME WaitIInv, NEW t \in Thread, ExitThread(t) PROVE WaitIInv'
<1>1. ObjectsOK /\ WaitsOK /\ OneWaitPerSignal /\ owed \in [Counted -> Int]
  BY Parts
<1>2. /\ t \in Objects \ Mutex /\ t \notin Counted /\ val' = [val EXCEPT ![t] = 1]
      /\ UNCHANGED <<owner, depth, owed, holds>>
      /\ wait' = [Wakes(wait, Sleepers(t)) EXCEPT ![t] = Gone]
      /\ wait[t].at = "run"
  BY DEF ExitThread, Objects, Counted
<1>3. \A p \in Objects : val'[p] = IF p = t THEN 1 ELSE val[p]
  BY <1>1, <1>2 DEF ObjectsOK
<1>4. ObjectsOK'
  BY <1>1, <1>2, <1>3 DEF ObjectsOK, MutexOwned, OwnedIsHeld, SignalIsOne, Objects
<1>5. owed' \in [Counted -> Int] /\ OneWaitPerSignal'
  BY <1>1, <1>2, <1>3 DEF OneWaitPerSignal, Counted, Objects
<1> DEFINE woken == [u \in Thread |-> IF u \in Sleepers(t) THEN [wait[u] EXCEPT !.at = "awake"] ELSE wait[u]]
<1>6. wait' = [woken EXCEPT ![t] = Gone]
  BY <1>2 DEF Wakes
<1>7. \A u \in Thread : wait'[u] = IF u = t THEN Gone
                                   ELSE IF u \in Sleepers(t) THEN [wait[u] EXCEPT !.at = "awake"]
                                   ELSE wait[u]
  BY <1>6
<1>8. ASSUME NEW u \in Thread, u \in Sleepers(t)
      PROVE  LET w == [wait[u] EXCEPT !.at = "awake"]
             IN  /\ w \in WaitRecord /\ w.at = "awake" /\ w.objs # <<>> /\ Len(w.objs) = 1
  <2>1. wait[u] \in WaitRecord /\ wait[u].objs # <<>> /\ Len(wait[u].objs) = 1
    BY <1>1, <1>8 DEF WaitsOK, WaitRecord, Single, Sleepers
  <2> QED BY <2>1 DEF WaitRecord
<1>9. WaitsOK'
  <2>1. \A u \in Thread : wait[u] \in WaitRecord
    BY <1>1 DEF WaitsOK, WaitRecord
  <2>2. \A u \in Thread : wait'[u] \in WaitRecord
    BY <1>7, <1>8, <2>1, RunningRecord
  <2>3. wait' \in [Thread -> WaitRecord]
    BY <1>6, <2>2
  <2>4. \A u \in Thread : wait'[u].at \in {"look", "sleep", "awake"} =>
          wait'[u].objs # <<>> /\ Len(wait'[u].objs) = 1
    BY <1>1, <1>7, <1>8, RunningRecord DEF WaitsOK, Single
  <2>5. PollsItsList'
    BY <1>1, <1>7, <1>8, RunningRecord DEF WaitsOK, PollsItsList
  <2> QED BY <2>3, <2>4, <2>5 DEF WaitsOK, Single, WaitRecord
<1>10. ASSUME NEW u \in Thread, wait'[u].at = "sleep" PROVE ~Ready(Object(u), u)'
  <2> DEFINE p == Object(u)
  <2>1. u # t /\ u \notin Sleepers(t) /\ wait'[u] = wait[u]
    BY <1>7, <1>8, <1>10, RunningRecord
  <2>2. wait[u].at = "sleep"
    BY <1>10, <2>1
  <2>3. p \in Objects /\ p' = p /\ ~Ready(p, u) /\ p # t
    BY <1>1, <2>1, <2>2, LooksAtObject DEF Object, WaitIInv, NoSleeperOnReady, Sleepers
  <2>4. ~Ready(p, u)'
    <3> HIDE DEF p
    <3> QED BY <1>2, <1>3, <2>3 DEF Ready
  <2> QED BY <2>4
<1>11. NoSleeperOnReady'
  BY <1>10 DEF NoSleeperOnReady
<1> QED BY <1>4, <1>5, <1>9, <1>11 DEF WaitIInv, WaitTypeOK, ObjectsOK, WaitsOK

LEMMA NextWait == WaitIInv /\ [WaitNext]_waitVars => WaitIInv'
<1> SUFFICES ASSUME WaitIInv, [WaitNext]_waitVars PROVE WaitIInv'
  OBVIOUS
<1>1. CASE UNCHANGED waitVars
  <2>1. WaitsOK'
    BY <1>1, Parts DEF WaitsOK, PollsItsList, Single, waitVars
  <2> QED BY <1>1, <2>1, IdleStep DEF waitVars
<1>2. CASE \E t \in Thread : BeginWait(t) \/ Goes(t) \/ TimeOut(t) \/ ExitThread(t)
  BY <1>2, BeginWaitStep, LookStep, SliceStep, PollStep, TimeOutStep, ExitThreadStep DEF Goes
<1>3. CASE \E t \in Thread, o \in Mutex : ReleaseMutex(t, o)
  BY <1>3, ReleaseMutexStep
<1>4. CASE Signals
  BY <1>4, SetEventStep, DispatcherSignalStep, ResetEventStep, PulseEventStep, ReleaseSemaphoreStep DEF Signals
<1> QED BY <1>1, <1>2, <1>3, <1>4 DEF WaitNext

(* The inductive invariant, for every set of threads, objects and lists.    *)
THEOREM WaitIInvHolds == WaitSpec => []WaitIInv
BY InitWait, NextWait, PTL DEF WaitSpec

(* Every variable keeps its type, a semaphore its maximum.                  *)
THEOREM WaitTypeCorrect == WaitSpec => []WaitTypeOK
BY WaitIInvHolds, PTL DEF WaitIInv

(* Nobody sleeps on an object that would satisfy the wait (wait_single,     *)
(* xbox_dispatcher_wait).                                                   *)
THEOREM NobodySleepsOnReady == WaitSpec => []NoSleeperOnReady
BY WaitIInvHolds, PTL DEF WaitIInv

(* A mutex is its owner's as often as it was taken and not released.        *)
THEOREM MutexesAreOwned == WaitSpec => []MutexOwned
BY WaitIInvHolds, PTL DEF WaitIInv

(* Each signal of an event or semaphore is good for one wait, and each      *)
(* signal taken ends one, polled or slept for.                              *)
THEOREM SignalsEndOneWait == WaitSpec => []OneWaitPerSignal
BY WaitIInvHolds, PTL DEF WaitIInv

(* Signals and waits counted against each other, and mutexes owned by who   *)
(* took them, as the run checks it.                                         *)
THEOREM WaitInvHolds == WaitSpec => []WaitInv
BY WaitTypeCorrect, SignalsEndOneWait, MutexesAreOwned, PTL DEF WaitInv
=============================================================================
