---------------------------- MODULE HostObjects ----------------------------
(***************************************************************************)
(* The waitable objects of the host layer (src/src/platform/               *)
(* win32_compat.c): events, semaphores, mutexes and threads, each with a   *)
(* lock and a condition variable, and the title's calls that wait on them; *)
(* with the guest dispatcher objects of kernel_bridge.c, whose signal is a *)
(* word in guest memory under one lock for all of them.                    *)
(*                                                                         *)
(* One critical section of an object's lock is one step.  A broadcast      *)
(* wakes the sleepers of the object; each then takes the lock again and    *)
(* looks for itself.  Host user APCs (QueueUserAPC) are left out: the      *)
(* bridge delivers a title's APCs from a ring of its own (FileApc).        *)
(***************************************************************************)
EXTENDS Integers, Sequences

CONSTANTS
  Thread, NoThread,
  AutoEvent, ManualEvent,   \* events, CreateEventW with manualReset 0 and 1
  GuestEvent,               \* guest synchronization events (DISP_TYPE 1)
  Semaphore, Mutex,
  SemMax,                   \* a semaphore's maximum
  ReleaseCounts,            \* counts the title releases by
  AnyLists, AllLists,       \* sequences of objects waited for: one of them, all of them
  MaxDepth                  \* bound: how often a mutex's owner takes it again

Objects == AutoEvent \cup ManualEvent \cup GuestEvent \cup Semaphore \cup Mutex \cup Thread

ASSUME ObjectAssumption ==
  /\ NoThread \notin Thread /\ SemMax \in Nat \ {0} /\ MaxDepth \in Nat
  /\ ReleaseCounts \subseteq Nat \ {0}
  /\ AnyLists \cup AllLists \subseteq Seq(Objects) \ {<<>>}
  \* an object is of one kind
  /\ AutoEvent \cap (ManualEvent \cup GuestEvent \cup Semaphore \cup Mutex \cup Thread) = {}
  /\ ManualEvent \cap (GuestEvent \cup Semaphore \cup Mutex \cup Thread) = {}
  /\ GuestEvent \cap (Semaphore \cup Mutex \cup Thread) = {}
  /\ Semaphore \cap (Mutex \cup Thread) = {} /\ Mutex \cap Thread = {}
  \* dispatcher objects are waited for by address, one at a time; the polling wait takes a
  \* mutex again on every pass, which would go past any bound
  /\ \A l \in AnyLists \cup AllLists : \A k \in DOMAIN l :
       Len(l) > 1 => l[k] \notin GuestEvent
  /\ \A l \in AllLists : \A k \in DOMAIN l : Len(l) > 1 /\ l[k] \notin Mutex

\* The objects whose signals are counted: a wait for all takes an object on each pass,
\* whether the pass has the others or not, so those of AllLists are left out.
Counted == {o \in AutoEvent \cup GuestEvent \cup Semaphore :
              \A l \in AllLists : \A k \in DOMAIN l : l[k] # o}

VARIABLES
  val,      \* signaled, sem_count, exited or DISP_SIGNAL of each object
  owner,    \* mtx_owner
  depth,    \* mtx_recursion
  wait,     \* where each thread is
  owed,     \* history: waits an object was signalled for that have not ended yet
  holds     \* history: how often each thread has got each mutex and not released it

waitVars == <<val, owner, depth, wait, owed, holds>>

Running == [at |-> "run", objs |-> <<>>, all |-> FALSE, i |-> 0, got |-> 0]
Gone    == [Running EXCEPT !.at = "gone"]

WaitInit ==
  /\ val = [o \in Objects |-> 0]
  /\ owner = [m \in Mutex |-> NoThread]
  /\ depth = [m \in Mutex |-> 0]
  /\ wait = [t \in Thread |-> Running]
  /\ owed = [o \in Counted |-> 0]
  /\ holds = [t \in Thread |-> [m \in Mutex |-> 0]]

-----------------------------------------------------------------------------
(* wait_single *)

Ready(o, t) == IF o \in Mutex THEN owner[o] \in {NoThread, t} ELSE val[o] > 0

\* Faulty: a synchronization event keeps its signal, as a notification event does.
TakeKeepsSignal(o, t) ==
  /\ val' = [val EXCEPT ![o] = IF o \in Semaphore THEN @ - 1 ELSE @]
  /\ IF o \in Mutex
     THEN /\ owner' = [owner EXCEPT ![o] = t]
          /\ depth' = [depth EXCEPT ![o] = @ + 1]
          /\ holds' = [holds EXCEPT ![t][o] = @ + 1]
     ELSE UNCHANGED <<owner, depth, holds>>

\* What a satisfied wait takes from the object.
Take(o, t) ==
  /\ val' = [val EXCEPT ![o] =
               IF o \in AutoEvent \cup GuestEvent THEN 0
               ELSE IF o \in Semaphore THEN @ - 1 ELSE @]
  /\ IF o \in Mutex
     THEN /\ owner' = [owner EXCEPT ![o] = t]
          /\ depth' = [depth EXCEPT ![o] = @ + 1]
          /\ holds' = [holds EXCEPT ![t][o] = @ + 1]
     ELSE UNCHANGED <<owner, depth, holds>>

Single(t) == Len(wait[t].objs) = 1
Object(t) == wait[t].objs[1]

\* A wait ends on object o, and one signal of it is used up.
Ends(o) == owed' = IF o \in Counted THEN [owed EXCEPT ![o] = @ - 1] ELSE owed

\* Object o gets n signals, each good for one wait.
Owes(o, n) == owed' = IF o \in Counted THEN [owed EXCEPT ![o] = @ + n] ELSE owed

\* A thread begins to wait for one object, or for a list of them by polling.
BeginWait(t) ==
  /\ wait[t].at = "run"
  /\ \E l \in AnyLists \cup AllLists :
       /\ \A k \in DOMAIN l : l[k] # t /\ (l[k] \in Mutex => depth[l[k]] < MaxDepth)
       /\ wait' = [wait EXCEPT ![t] = [at |-> IF Len(l) = 1 THEN "look" ELSE "poll",
                                       objs |-> l, all |-> l \in AllLists, i |-> 1, got |-> 0]]
  /\ UNCHANGED <<val, owner, depth, owed, holds>>

\* The lock is taken and the object looked at: it is taken, or the thread sleeps on the
\* condition variable.
Look(t) ==
  /\ wait[t].at \in {"look", "awake"}
  /\ IF Ready(Object(t), t)
     THEN /\ Take(Object(t), t)
          /\ Ends(Object(t))
          /\ wait' = [wait EXCEPT ![t] = Running]
     ELSE /\ wait' = [wait EXCEPT ![t].at = "sleep"]
          /\ UNCHANGED <<val, owner, depth, owed, holds>>

\* The time of a timed wait has run out, awake or not; xbox_dispatcher_wait looks at the
\* object once more before it gives up.
TimeOut(t) ==
  /\ wait[t].at \in {"sleep", "awake"}
  /\ Object(t) \in GuestEvent => ~Ready(Object(t), t)
  /\ wait' = [wait EXCEPT ![t] = Running]
  /\ UNCHANGED <<val, owner, depth, owed, holds>>

\* A guest dispatcher wait sleeps in slices of 50 ms.
Slice(t) ==
  /\ wait[t].at = "sleep" /\ Object(t) \in GuestEvent
  /\ wait' = [wait EXCEPT ![t].at = "awake"]
  /\ UNCHANGED <<val, owner, depth, owed, holds>>

\* WaitForMultipleObjectsEx: each object in turn with no time to wait; the first one had
\* ends a wait for any, a pass that had every one ends a wait for all; the time is looked
\* at after a pass.
Poll(t) ==
  /\ wait[t].at = "poll"
  /\ LET o    == wait[t].objs[wait[t].i]
         last == wait[t].i = Len(wait[t].objs)
         got  == wait[t].got + IF Ready(o, t) THEN 1 ELSE 0
         done == IF wait[t].all THEN last /\ got = Len(wait[t].objs) ELSE Ready(o, t)
     IN  /\ IF Ready(o, t) THEN Take(o, t) ELSE UNCHANGED <<val, owner, depth, holds>>
         /\ IF done THEN Ends(o) ELSE UNCHANGED owed
         /\ \/ done /\ wait' = [wait EXCEPT ![t] = Running]
            \/ ~done /\ ~last /\ wait' = [wait EXCEPT ![t].i = @ + 1, ![t].got = got]
            \/ ~done /\ last /\ wait' = [wait EXCEPT ![t].i = 1, ![t].got = 0]
            \/ ~done /\ last /\ wait' = [wait EXCEPT ![t] = Running]

-----------------------------------------------------------------------------
(* The calls that signal; a title's thread that runs, or one of the         *)
(* runtime's own, makes them. *)

Sleepers(o) == {t \in Thread : wait[t].at = "sleep" /\ Object(t) = o}

\* Faulty: pthread_cond_signal where a broadcast is needed.
WakesOne(w, S) ==
  IF S = {} THEN w
  ELSE LET t == CHOOSE u \in S : TRUE IN [w EXCEPT ![t].at = "awake"]

\* pthread_cond_broadcast
Wakes(w, S) == [t \in Thread |-> IF t \in S THEN [w[t] EXCEPT !.at = "awake"] ELSE w[t]]

SetEvent(o) ==
  /\ o \in AutoEvent \cup ManualEvent
  /\ Owes(o, 1 - val[o])
  /\ val' = [val EXCEPT ![o] = 1]
  /\ wait' = Wakes(wait, Sleepers(o))
  /\ UNCHANGED <<owner, depth, holds>>

\* xbox_dispatcher_signal: one condition variable for all of them.
DispatcherSignal(o) ==
  /\ o \in GuestEvent
  /\ Owes(o, 1 - val[o])
  /\ val' = [val EXCEPT ![o] = 1]
  /\ wait' = Wakes(wait, UNION {Sleepers(e) : e \in GuestEvent})
  /\ UNCHANGED <<owner, depth, holds>>

ResetEvent(o) ==
  /\ o \in AutoEvent \cup ManualEvent
  /\ Owes(o, 0 - val[o])
  /\ val' = [val EXCEPT ![o] = 0]
  /\ UNCHANGED <<owner, depth, wait, holds>>

\* Signalled and reset under one hold of the lock: the sleepers look again and find nothing.
PulseEvent(o) ==
  /\ o \in AutoEvent \cup ManualEvent
  /\ Owes(o, 0 - val[o])
  /\ val' = [val EXCEPT ![o] = 0]
  /\ wait' = Wakes(wait, Sleepers(o))
  /\ UNCHANGED <<owner, depth, holds>>

ReleaseSemaphore(o) ==
  /\ o \in Semaphore
  /\ \E n \in ReleaseCounts :
       LET c == IF val[o] + n > SemMax THEN SemMax ELSE val[o] + n
       IN  /\ val' = [val EXCEPT ![o] = c]
           /\ Owes(o, c - val[o])
  /\ wait' = Wakes(wait, Sleepers(o))
  /\ UNCHANGED <<owner, depth, holds>>

\* Only the owner releases; the last release of a recursion lets the mutex go.
ReleaseMutex(t, o) ==
  /\ o \in Mutex /\ wait[t].at = "run"
  /\ owner[o] = t
  /\ holds' = [holds EXCEPT ![t][o] = @ - 1]
  /\ depth' = [depth EXCEPT ![o] = @ - 1]
  /\ owner' = [owner EXCEPT ![o] = IF depth[o] = 1 THEN NoThread ELSE @]
  /\ wait' = IF depth[o] = 1 THEN Wakes(wait, Sleepers(o)) ELSE wait
  /\ UNCHANGED <<val, owed>>

\* ExitThread: its waiters are told; a mutex it owns stays owned.
ExitThread(t) ==
  /\ wait[t].at = "run"
  /\ val' = [val EXCEPT ![t] = 1]
  /\ wait' = [Wakes(wait, Sleepers(t)) EXCEPT ![t] = Gone]
  /\ UNCHANGED <<owner, depth, owed, holds>>

Signals ==
  \E o \in Objects :
    SetEvent(o) \/ DispatcherSignal(o) \/ ResetEvent(o) \/ PulseEvent(o) \/ ReleaseSemaphore(o)

Goes(t) == Look(t) \/ Slice(t) \/ Poll(t)

WaitNext ==
  \/ \E t \in Thread : BeginWait(t) \/ Goes(t) \/ TimeOut(t) \/ ExitThread(t)
  \/ \E t \in Thread, o \in Mutex : ReleaseMutex(t, o)
  \/ Signals

WaitSpec == WaitInit /\ [][WaitNext]_waitVars

\* A thread that is awake gets the processor and the object's lock.
WaitFair == \A t \in Thread : WF_waitVars(Goes(t))

WaitFairSpec == WaitSpec /\ WaitFair

-----------------------------------------------------------------------------
(* Properties. *)

\* Every variable keeps its type, a semaphore stays within its maximum, and a thread that
\* sleeps or has been woken waits for a single object (wait_single).
WaitTypeOK ==
  /\ val \in [Objects -> Nat] /\ owner \in [Mutex -> Thread \cup {NoThread}]
  /\ depth \in [Mutex -> Nat] /\ holds \in [Thread -> [Mutex -> Int]]
  /\ owed \in [Counted -> Int]
  /\ wait \in [Thread -> [at : {"run", "look", "sleep", "awake", "poll", "gone"},
                          objs : AnyLists \cup AllLists \cup {<<>>}, all : BOOLEAN,
                          i : Nat, got : Nat]]
  /\ \A t \in Thread :
       wait[t].at \in {"look", "sleep", "awake"} => wait[t].objs # <<>> /\ Single(t)
  /\ \A s \in Semaphore : val[s] <= SemMax

\* No lost wake-up (wait_single, xbox_dispatcher_wait): nobody sleeps on an object that
\* would satisfy the wait.  Every signal, release and exit must wake all the sleepers,
\* since more than one may be satisfied (ReleaseSemaphore by two).
NoSleeperOnReady ==
  \A t \in Thread : wait[t].at = "sleep" => ~Ready(Object(t), t)

\* One wait for each signal: of the threads a synchronization event or a semaphore wakes as
\* many go on as it was signalled for, and every signal taken ends a wait.
OneWaitPerSignal == \A o \in Counted : owed[o] = val[o]

\* A mutex has one owner, and is its own as often as it was taken and not released
\* (wait_single, ReleaseMutex).
MutexOwned ==
  \A m \in Mutex, t \in Thread :
    holds[t][m] = IF owner[m] = t THEN depth[m] ELSE 0

\* A thread that waits for ever waits for what is not there: its object is again and again
\* not to be had, each of those one of which would do, or one of those it needs together.
WaitsForEverOnlyUnready ==
  \A t \in Thread, l \in AnyLists \cup AllLists :
    <>[](wait[t].objs = l) =>
      IF l \in AnyLists THEN \A k \in DOMAIN l : []<>(~Ready(l[k], t))
                         ELSE \E k \in DOMAIN l : []<>(~Ready(l[k], t))

\* Every signal of an event or a semaphore ends one wait, and a mutex is its owner's as often
\* as it was taken and not released (wait_single, WaitForMultipleObjectsEx).
WaitInv == WaitTypeOK /\ OneWaitPerSignal /\ MutexOwned
=============================================================================
