--------------------------- MODULE ObjectHandles ---------------------------
(***************************************************************************)
(* The title's handles: the token table of kernel_bridge.c, and under it   *)
(* the reference counts of the host layer's objects (win32_compat.c).  A   *)
(* token is a slot number; an object is a host address, and addresses are  *)
(* used again.                                                             *)
(*                                                                         *)
(* The title keeps to its side: it uses and closes each token it was given *)
(* once, and none whose source it duplicated with DUPLICATE_CLOSE_SOURCE.  *)
(*                                                                         *)
(* Calls that create run without the guest lock, so that two of them can   *)
(* find one slot.  What that spoils is marked, the slot and whatever is    *)
(* stored in it, to say that it spoils nothing else.                       *)
(***************************************************************************)
EXTENDS Integers, FiniteSets

CONSTANTS
  Addr, NoAddr,
  HandleMax,     \* BRIDGE_HANDLE_MAX: slots 1 .. HandleMax - 1 are used
  Caller,        \* the title's threads that make handles
  MaxMade,       \* bound: objects made
  MaxLost        \* bound: references lost to a full table

ASSUME HandleAssumption ==
  NoAddr \notin Addr /\ HandleMax \in Nat \ {0, 1} /\ MaxMade \in Nat /\ MaxLost \in Nat

VARIABLES
  slotOf,     \* s_handle_table
  ref,        \* refcount, 0 for an address no object is at
  isAt,       \* which object is at the address, numbered in the order they were made
  runs,       \* the addresses of threads whose trampoline has not returned
  making,     \* what each caller is about to store: an object and the slot it found
  made,       \* how many objects were made
  tokens,     \* the tokens the title holds, each with the object it was made for
  lost,       \* references no token was made for, the table being full
  shared,     \* history: the slots two calls found empty before either filled them
  doubted     \* history: the addresses such a slot ever held

handleVars == <<slotOf, ref, isAt, runs, making, made, tokens, lost, shared, doubted>>

HandleSlots == 1 .. HandleMax - 1
Nothing == [addr |-> NoAddr, slot |-> 0]

HandleInit ==
  /\ slotOf = [i \in HandleSlots |-> NoAddr]
  /\ ref = [a \in Addr |-> 0]
  /\ isAt = [a \in Addr |-> 0]
  /\ runs = {}
  /\ making = [c \in Caller |-> Nothing]
  /\ made = 0
  /\ tokens = {}
  /\ lost = [a \in Addr |-> 0]
  /\ shared = {} /\ doubted = {}

\* Faulty: a full table gives its last slot once more.
FreshSlotFull(a, i) ==
  /\ i \in HandleSlots /\ (slotOf[i] = NoAddr \/ i = HandleMax - 1)
  /\ \A j \in 1 .. i - 1 : slotOf[j] # NoAddr

\* bridge_handle_token: the first empty slot, 0 if there is none.
FreshSlot(a, i) ==
  \/ /\ i \in HandleSlots /\ slotOf[i] = NoAddr
     /\ \A j \in 1 .. i - 1 : slotOf[j] # NoAddr
  \/ i = 0 /\ \A j \in HandleSlots : slotOf[j] # NoAddr

\* The call that is given slot i is not the only one: another found it and has yet to fill it.
Contested(i) == i # 0 /\ \E c \in Caller : making[c].slot = i

Found(i) == shared' = IF Contested(i) THEN shared \cup {i} ELSE shared

Fits(i) == i = 0 => \A a \in Addr : lost[a] < MaxLost

\* The slot is filled in and the token given to the title; a full table gives none.
Handed(i, a, n, kept) ==
  /\ doubted' = IF i \in shared' THEN doubted \cup {a} ELSE doubted
  /\ IF i = 0
     THEN lost' = [lost EXCEPT ![a] = @ + 1] /\ tokens' = kept /\ UNCHANGED slotOf
     ELSE /\ slotOf' = [slotOf EXCEPT ![i] = a]
          /\ tokens' = kept \cup {[slot |-> i, of |-> n]}
          /\ UNCHANGED lost

\* obj_alloc, and the search for a slot, in a call that runs without the guest lock
\* (kernel_call_blocks).  A thread's trampoline has a reference of its own.
Create(c) ==
  /\ making[c] = Nothing /\ made < MaxMade
  /\ \E a \in Addr, thread \in BOOLEAN, i \in 0 .. HandleMax - 1 :
       /\ ref[a] = 0 /\ FreshSlot(a, i) /\ Fits(i) /\ Found(i)
       /\ ref' = [ref EXCEPT ![a] = IF thread THEN 2 ELSE 1]
       /\ runs' = IF thread THEN runs \cup {a} ELSE runs
       /\ made' = made + 1
       /\ isAt' = [isAt EXCEPT ![a] = made + 1]
       /\ making' = [making EXCEPT ![c] = [addr |-> a, slot |-> i]]
  /\ UNCHANGED <<slotOf, tokens, lost, doubted>>

Store(c) ==
  /\ making[c] # Nothing
  /\ UNCHANGED <<ref, isAt, runs, made, shared>>
  /\ Handed(making[c].slot, making[c].addr, isAt[making[c].addr], tokens)
  /\ making' = [making EXCEPT ![c] = Nothing]

\* obj_release; what the release of a freed object would do to the heap is not followed.
Released(r, a) == IF r[a] > 0 THEN [r EXCEPT ![a] = @ - 1] ELSE r
StillAt(r, at) == [a \in Addr |-> IF r[a] = 0 THEN 0 ELSE at[a]]

\* NtClose: bridge_take_handle, CloseHandle.
NtClose(k) ==
  /\ k \in tokens
  /\ tokens' = tokens \ {k}
  /\ slotOf' = [slotOf EXCEPT ![k.slot] = NoAddr]
  /\ LET a == slotOf[k.slot]
     IN  /\ ref' = IF a # NoAddr THEN Released(ref, a) ELSE ref
         /\ isAt' = StillAt(ref', isAt)
  /\ UNCHANGED <<runs, making, made, lost, shared, doubted>>

\* Faulty: the duplicate does not count.
CountedNever(a, closeSource) == ref

\* The reference a duplicate adds, or takes over from its source.
Counted(a, closeSource) == IF closeSource THEN ref ELSE [ref EXCEPT ![a] = @ + 1]

\* bridge_NtDuplicateObject, under the guest lock: another token for the same object; the
\* slot of a source closed with it (DUPLICATE_CLOSE_SOURCE) stays filled.
NtDuplicateObject(k) ==
  /\ k \in tokens /\ slotOf[k.slot] # NoAddr
  /\ \E closeSource \in BOOLEAN, i \in 0 .. HandleMax - 1 :
       LET a == slotOf[k.slot]
       IN  /\ ref[a] > 0 /\ FreshSlot(a, i) /\ Fits(i) /\ Found(i)
           /\ ref' = Counted(a, closeSource)
           /\ Handed(i, a, isAt[a], IF closeSource THEN tokens \ {k} ELSE tokens)
  /\ UNCHANGED <<isAt, runs, making, made>>

\* thread_trampoline returns, or ExitThread: its reference is dropped.
ThreadEnds(a) ==
  /\ a \in runs
  /\ runs' = runs \ {a}
  /\ ref' = Released(ref, a)
  /\ isAt' = StillAt(ref', isAt)
  /\ UNCHANGED <<slotOf, making, made, tokens, lost, shared, doubted>>

HandleNext ==
  \/ \E c \in Caller : Create(c) \/ Store(c)
  \/ \E k \in tokens : NtDuplicateObject(k) \/ NtClose(k)
  \/ \E a \in Addr : ThreadEnds(a)

HandleSpec == HandleInit /\ [][HandleNext]_handleVars

-----------------------------------------------------------------------------
(* Properties. *)

\* "A token always refers to the object it was made for" (bridge_handle_token): the comment,
\* which two calls that create at once refute.
TokenAlwaysNamesItsObject ==
  \A k \in tokens : slotOf[k.slot] # NoAddr /\ isAt[slotOf[k.slot]] = k.of

\* It does, as long as the title holds it (the object is alive, and no other has taken its
\* slot or its address), but for the slots two calls found at once, and the addresses stored
\* there: the harm of that race does not spread (bridge_handle_token).
TokenNamesItsObject ==
  \A k \in tokens :
    \/ k.slot \in shared \/ slotOf[k.slot] \in doubted
    \/ slotOf[k.slot] # NoAddr /\ isAt[slotOf[k.slot]] = k.of

Holders(a) == Cardinality({k \in tokens : k.of = isAt[a]})
             + Cardinality({c \in Caller : making[c].addr = a})
             + lost[a] + IF a \in runs THEN 1 ELSE 0

\* An object lives exactly as long as somebody holds it (obj_release): its references are
\* the title's tokens for it, those being made, its running thread, and those no token could
\* be made for.  Again but for the addresses two calls' one slot ever held.
RefsCounted == \A a \in Addr \ doubted : ref[a] = IF isAt[a] = 0 THEN 0 ELSE Holders(a)
=============================================================================
