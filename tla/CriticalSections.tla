-------------------------- MODULE CriticalSections --------------------------
(***************************************************************************)
(* The title's critical sections (bridge_RtlEnterCriticalSection and       *)
(* bridge_RtlLeaveCriticalSection of kernel_bridge.c): a host mutex that   *)
(* owes nobody anything, and a table of those who wait, by which a thread  *)
(* that leaves knows that it must stay away for a while.  The guest lock   *)
(* is dropped around the call, so several threads are in it at once.       *)
(*                                                                         *)
(* A thread enters a section it does not hold: the mutex would let it in   *)
(* again, and only the outermost leave lets anybody else in.               *)
(***************************************************************************)
EXTENDS Integers

CONSTANTS
  CsThread, NoOne,
  Section,
  CsSlots       \* GCS_SLOTS

ASSUME CsAssumption ==
  /\ NoOne \notin CsThread /\ CsSlots \in Nat \ {0}

VARIABLES
  racing,     \* may two threads be between the search for a slot and its store at once?
  mutex,      \* who has each section's host mutex
  csPc,       \* where each thread is
  wants,      \* the section it enters or holds
  entry,      \* w, its slot of g_gcs_wait; 0 for none
  gcsWait,    \* g_gcs_wait[].tid and .cs
  last,       \* history: who left each section last
  passedBy    \* history: who was listed for it then, while nobody has had it since
              \* and the leaver has not slept

csVars == <<racing, mutex, csPc, wants, entry, gcsWait, last, passedBy>>

CsIndex == 1 .. CsSlots
NoEntry == [tid |-> NoOne, cs |-> NoOne]

CsInit ==
  /\ racing \in BOOLEAN
  /\ mutex = [s \in Section |-> NoOne]
  /\ csPc = [t \in CsThread |-> "out"]
  /\ wants = [t \in CsThread |-> NoOne]
  /\ entry = [t \in CsThread |-> 0]
  /\ gcsWait = [i \in CsIndex |-> NoEntry]
  /\ last = [s \in Section |-> NoOne]
  /\ passedBy = [s \in Section |-> {}]

Goto(t, p) == csPc' = [csPc EXCEPT ![t] = p]

Blocked(s) == {t \in CsThread : csPc[t] = "blocked" /\ wants[t] = s}

\* The first slot whose flag is clear, if any.
FreeEntries == {i \in CsIndex : gcsWait[i].tid = NoOne}
FirstFree(i) == IF FreeEntries = {} THEN i = 0 ELSE i \in FreeEntries /\ \A j \in FreeEntries : i <= j

Claim(t) ==
  /\ csPc[t] = "out"
  /\ racing \/ \A u \in CsThread : csPc[u] # "claim"
  /\ \E s \in Section : wants' = [wants EXCEPT ![t] = s]
  /\ \E i \in CsIndex \cup {0} : FirstFree(i) /\ entry' = [entry EXCEPT ![t] = i]
  /\ Goto(t, "claim")
  /\ UNCHANGED <<racing, mutex, gcsWait, last, passedBy>>

\* The entry is filled in, its flag last, and the thread asks for the mutex.
Publish(t) ==
  /\ csPc[t] = "claim"
  /\ gcsWait' = IF entry[t] = 0 THEN gcsWait
                ELSE [gcsWait EXCEPT ![entry[t]] = [tid |-> t, cs |-> wants[t]]]
  /\ Goto(t, "blocked")
  /\ UNCHANGED <<racing, mutex, wants, entry, last, passedBy>>

GetMutex(t) ==
  /\ csPc[t] = "blocked" /\ mutex[wants[t]] = NoOne
  /\ mutex' = [mutex EXCEPT ![wants[t]] = t]
  /\ passedBy' = [passedBy EXCEPT ![wants[t]] = {}]
  /\ Goto(t, "got")
  /\ UNCHANGED <<racing, wants, entry, gcsWait, last>>

\* Faulty: the entry is left in the table.
UnlistNever(t) ==
  /\ csPc[t] = "got"
  /\ entry' = [entry EXCEPT ![t] = 0]
  /\ Goto(t, "in")
  /\ UNCHANGED <<racing, mutex, wants, gcsWait, last, passedBy>>

Unlist(t) ==
  /\ csPc[t] = "got"
  /\ gcsWait' = IF entry[t] = 0 THEN gcsWait ELSE [gcsWait EXCEPT ![entry[t]].tid = NoOne]
  /\ entry' = [entry EXCEPT ![t] = 0]
  /\ Goto(t, "in")
  /\ UNCHANGED <<racing, mutex, wants, last, passedBy>>

Leave(t) ==
  /\ csPc[t] = "in"
  /\ mutex' = [mutex EXCEPT ![wants[t]] = NoOne]
  /\ last' = [last EXCEPT ![wants[t]] = t]
  /\ passedBy' = [passedBy EXCEPT ![wants[t]] = {u \in Blocked(wants[t]) : entry[u] # 0}]
  /\ Goto(t, "left")
  /\ UNCHANGED <<racing, wants, entry, gcsWait>>

\* Is somebody listed for this section?
Waited(s) == \E i \in CsIndex : gcsWait[i].tid # NoOne /\ gcsWait[i].cs = s

\* Faulty: somebody else's section is looked for.
LookForWaiterAnySection(t) ==
  /\ csPc[t] = "left"
  /\ Goto(t, IF \E s \in Section \ {wants[t]} : Waited(s) THEN "asleep" ELSE "out")
  /\ UNCHANGED <<racing, mutex, wants, entry, gcsWait, last, passedBy>>

LookForWaiter(t) ==
  /\ csPc[t] = "left"
  /\ Goto(t, IF Waited(wants[t]) THEN "asleep" ELSE "out")
  /\ UNCHANGED <<racing, mutex, wants, entry, gcsWait, last, passedBy>>

\* usleep(20) is over, whether a waiter has got in meanwhile or not.
SleepEnds(t) ==
  /\ csPc[t] = "asleep"
  /\ passedBy' = IF last[wants[t]] = t THEN [passedBy EXCEPT ![wants[t]] = {}] ELSE passedBy
  /\ Goto(t, "out")
  /\ UNCHANGED <<racing, mutex, wants, entry, gcsWait, last>>

CsNext ==
  \E t \in CsThread :
    \/ Claim(t) \/ Publish(t) \/ GetMutex(t) \/ Unlist(t)
    \/ Leave(t) \/ LookForWaiter(t) \/ SleepEnds(t)

CsSpec == CsInit /\ [][CsNext]_csVars

-----------------------------------------------------------------------------
(* Properties. *)

CsTypeOK ==
  /\ racing \in BOOLEAN
  /\ mutex \in [Section -> CsThread \cup {NoOne}]
  /\ csPc \in [CsThread -> {"out", "claim", "blocked", "got", "in", "left", "asleep"}]
  /\ wants \in [CsThread -> Section \cup {NoOne}]
  /\ entry \in [CsThread -> 0 .. CsSlots]
  /\ gcsWait \in [CsIndex -> [tid : CsThread \cup {NoOne}, cs : Section \cup {NoOne}]]
  /\ last \in [Section -> CsThread \cup {NoOne}]
  /\ passedBy \in [Section -> SUBSET CsThread]

\* The waiters' table (bridge_RtlEnterCriticalSection): a thread that waits and found a slot
\* has that slot to itself, where the leaving thread finds it.
OneEntryEach ==
  ~racing => \A t \in CsThread :
    csPc[t] = "blocked" /\ entry[t] # 0 =>
      gcsWait[entry[t]] = [tid |-> t, cs |-> wants[t]]

\* A slot in use is in use by a thread that is entering (bridge_RtlEnterCriticalSection): the
\* table never fills up with slots nobody will clear, not even when two threads claimed one.
ListedWaits ==
  \A i \in CsIndex : gcsWait[i].tid # NoOne =>
    \E t \in CsThread : entry[t] = i /\ csPc[t] \in {"blocked", "got"}

\* "Let a waiter actually have it" (bridge_RtlLeaveCriticalSection): a thread that left a
\* section while others were listed for it does not take it straight back: first one of
\* them has had it, or the thread has slept with the section free.  (That a waiter gets in
\* during the sleep is a matter of 20 microseconds and the host's scheduler.)
WaiterHasItsChance ==
  [][\A s \in Section :
       ~racing /\ mutex[s] = NoOne /\ mutex'[s] = last[s] => passedBy[s] = {}]_csVars

\* The waiters' table tells the truth (bridge_RtlEnterCriticalSection): who waits and found a
\* slot is in it alone, and no slot stays taken by somebody who is through.
CsInv == CsTypeOK /\ OneEntryEach /\ ListedWaits
=============================================================================
