-------------------------- MODULE KernelCallsProofs --------------------------
(***************************************************************************)
(* What TLAPS proves of the kernel calls of guest threads, for any number  *)
(* of threads, sections, slots, addresses and requests: the waiters' table *)
(* of CriticalSections is true, it empties itself, and nobody passes a     *)
(* listed waiter by without having slept; in ObjectHandles a token names   *)
(* the object it was made for and an object's references are its holders,  *)
(* but for what a slot two calls found ever held; in FileApc a completion  *)
(* is told once, after its status, and in the order it came.               *)
(***************************************************************************)
EXTENDS CriticalSections, ObjectHandles, FileApc, FiniteSetTheorems, SequenceTheorems, TLAPS

-----------------------------------------------------------------------------
(* CriticalSections.                                                        *)

USE CsAssumption DEF CsIndex, NoEntry

(* While no two threads are between the search for a slot and its store, a  *)
(* claimed slot is still empty and a listed thread's is its own.            *)
SlotsAreOwn ==
  ~racing =>
    /\ \A t \in CsThread : csPc[t] = "claim" /\ entry[t] # 0 => gcsWait[entry[t]].tid = NoOne
    /\ \A t \in CsThread : csPc[t] \in {"blocked", "got"} /\ entry[t] # 0 =>
         gcsWait[entry[t]] = [tid |-> t, cs |-> wants[t]]
    /\ \A t, u \in CsThread : csPc[t] = "claim" /\ csPc[u] = "claim" => t = u

(* As long as it has not slept for those it passed by, the thread that left *)
(* last is in bridge_RtlLeaveCriticalSection.                               *)
LeaverStays ==
  ~racing =>
    \A s \in Section : passedBy[s] # {} =>
      /\ mutex[s] = NoOne /\ last[s] \in CsThread
      /\ csPc[last[s]] \in {"left", "asleep"} /\ wants[last[s]] = s
      /\ \A u \in passedBy[s] : csPc[u] = "blocked" /\ wants[u] = s /\ entry[u] # 0

CsIInv == CsTypeOK /\ SlotsAreOwn /\ ListedWaits /\ LeaverStays

LEMMA InitCs == CsInit => CsIInv
BY DEF CsInit, CsIInv, CsTypeOK, SlotsAreOwn, ListedWaits, LeaverStays

(* Clearing a slot's flag leaves the other slots as they are.               *)
LEMMA ClearedTable ==
  ASSUME CsTypeOK, NEW t \in CsThread, Unlist(t)
  PROVE  /\ gcsWait' \in [CsIndex -> [tid : CsThread \cup {NoOne}, cs : Section \cup {NoOne}]]
         /\ \A i \in CsIndex : IF i = entry[t] THEN gcsWait'[i].tid = NoOne
                                             ELSE gcsWait'[i] = gcsWait[i]
<1>1. CASE entry[t] = 0
  BY <1>1 DEF CsTypeOK, Unlist
<1>2. CASE entry[t] # 0
  <2> DEFINE e == entry[t]
             cleared == [gcsWait[e] EXCEPT !.tid = NoOne]
  <2>1. e \in CsIndex /\ gcsWait[e] \in [tid : CsThread \cup {NoOne}, cs : Section \cup {NoOne}]
    BY <1>2 DEF CsTypeOK
  <2>2. cleared \in [tid : CsThread \cup {NoOne}, cs : Section \cup {NoOne}] /\ cleared.tid = NoOne
    BY <2>1
  <2>3. gcsWait' = [gcsWait EXCEPT ![e] = cleared]
    BY <1>2 DEF Unlist
  <2> HIDE DEF cleared
  <2> QED BY <2>1, <2>2, <2>3 DEF CsTypeOK
<1> QED BY <1>1, <1>2

LEMMA TypeStep == ASSUME CsTypeOK, [CsNext]_csVars PROVE CsTypeOK'
<1>1. CASE UNCHANGED csVars
  BY <1>1 DEF CsTypeOK, csVars
<1>2. ASSUME NEW t \in CsThread, Claim(t) PROVE CsTypeOK'
  BY <1>2 DEF Claim, CsTypeOK, Goto
<1>3. ASSUME NEW t \in CsThread, Publish(t) PROVE CsTypeOK'
  BY <1>3 DEF Publish, CsTypeOK, Goto
<1>4. ASSUME NEW t \in CsThread, GetMutex(t) PROVE CsTypeOK'
  BY <1>4 DEF GetMutex, CsTypeOK, Goto
<1>5. ASSUME NEW t \in CsThread, Unlist(t) PROVE CsTypeOK'
  BY <1>5, ClearedTable DEF Unlist, CsTypeOK, Goto
<1>6. ASSUME NEW t \in CsThread, Leave(t) PROVE CsTypeOK'
  BY <1>6 DEF Leave, CsTypeOK, Goto, Blocked
<1>7. ASSUME NEW t \in CsThread, LookForWaiter(t) PROVE CsTypeOK'
  BY <1>7 DEF LookForWaiter, CsTypeOK, Goto
<1>8. ASSUME NEW t \in CsThread, SleepEnds(t) PROVE CsTypeOK'
  BY <1>8 DEF SleepEnds, CsTypeOK, Goto
<1> QED BY <1>1, <1>2, <1>3, <1>4, <1>5, <1>6, <1>7, <1>8 DEF CsNext

(* Only claiming, listing and unlisting touch the table. *)
LEMMA SlotsStep == ASSUME CsTypeOK, SlotsAreOwn, [CsNext]_csVars PROVE SlotsAreOwn'
<1>1. CASE UNCHANGED csVars
  BY <1>1 DEF SlotsAreOwn, csVars
<1>2. ASSUME NEW t \in CsThread, Claim(t) PROVE SlotsAreOwn'
  BY <1>2 DEF Claim, CsTypeOK, SlotsAreOwn, Goto, FirstFree, FreeEntries
<1>3. ASSUME NEW t \in CsThread, Publish(t) PROVE SlotsAreOwn'
  BY <1>3 DEF Publish, CsTypeOK, SlotsAreOwn, Goto
<1>4. ASSUME NEW t \in CsThread, GetMutex(t) PROVE SlotsAreOwn'
  BY <1>4 DEF GetMutex, CsTypeOK, SlotsAreOwn, Goto
<1>5. ASSUME NEW t \in CsThread, Unlist(t) PROVE SlotsAreOwn'
  <2>1. ASSUME ~racing, NEW u \in CsThread, u # t, entry[u] # 0, csPc[u] \in {"claim", "blocked", "got"}
        PROVE  gcsWait'[entry[u]] = gcsWait[entry[u]] \/ csPc[u] = "claim"
    <3>1. entry[u] \in CsIndex
      BY <2>1 DEF CsTypeOK
    <3>2. CASE entry[u] = entry[t] /\ csPc[u] # "claim"
      <4>1. /\ gcsWait[entry[u]] = [tid |-> u, cs |-> wants[u]]
            /\ gcsWait[entry[t]] = [tid |-> t, cs |-> wants[t]]
        BY <1>5, <2>1, <3>2 DEF SlotsAreOwn, Unlist
      <4>2. [tid |-> u, cs |-> wants[u]].tid = [tid |-> t, cs |-> wants[t]].tid
        BY <3>2, <4>1
      <4> QED BY <2>1, <4>2
    <3> QED BY <1>5, <2>1, <3>1, <3>2, ClearedTable
  <2>2. ASSUME ~racing, NEW u \in CsThread, u # t, entry[u] # 0, csPc[u] = "claim"
        PROVE  gcsWait'[entry[u]].tid = NoOne
    <3>1. entry[u] \in CsIndex /\ gcsWait[entry[u]].tid = NoOne
      BY <2>2 DEF CsTypeOK, SlotsAreOwn
    <3> QED BY <1>5, <3>1, ClearedTable
  <2>3. /\ racing' = racing /\ wants' = wants
        /\ entry' = [entry EXCEPT ![t] = 0] /\ csPc' = [csPc EXCEPT ![t] = "in"]
    BY <1>5 DEF Unlist, Goto
  <2> QED BY <2>1, <2>2, <2>3 DEF CsTypeOK, SlotsAreOwn
<1>6. ASSUME NEW t \in CsThread, Leave(t) PROVE SlotsAreOwn'
  BY <1>6 DEF Leave, CsTypeOK, SlotsAreOwn, Goto
<1>7. ASSUME NEW t \in CsThread, LookForWaiter(t) PROVE SlotsAreOwn'
  BY <1>7 DEF LookForWaiter, CsTypeOK, SlotsAreOwn, Goto
<1>8. ASSUME NEW t \in CsThread, SleepEnds(t) PROVE SlotsAreOwn'
  BY <1>8 DEF SleepEnds, CsTypeOK, SlotsAreOwn, Goto
<1> QED BY <1>1, <1>2, <1>3, <1>4, <1>5, <1>6, <1>7, <1>8 DEF CsNext

(* A slot keeps its waiter until the waiter itself clears it, whoever else  *)
(* claimed the same one.                                                    *)
LEMMA ListedStep == ASSUME CsTypeOK, ListedWaits, [CsNext]_csVars PROVE ListedWaits'
<1>1. CASE UNCHANGED csVars
  BY <1>1 DEF ListedWaits, csVars
<1>2. ASSUME NEW t \in CsThread, Claim(t) PROVE ListedWaits'
  BY <1>2 DEF Claim, CsTypeOK, ListedWaits, Goto
<1>3. ASSUME NEW t \in CsThread, Publish(t) PROVE ListedWaits'
  <2>1. ASSUME NEW i \in CsIndex, gcsWait'[i].tid # NoOne
        PROVE  \E u \in CsThread : entry'[u] = i /\ csPc'[u] \in {"blocked", "got"}
    <3>1. CASE i = entry[t]
      BY <1>3, <3>1 DEF Publish, CsTypeOK, Goto
    <3>2. CASE i # entry[t]
      BY <1>3, <2>1, <3>2 DEF Publish, CsTypeOK, ListedWaits, Goto
    <3> QED BY <3>1, <3>2
  <2> QED BY <2>1 DEF ListedWaits
<1>4. ASSUME NEW t \in CsThread, GetMutex(t) PROVE ListedWaits'
  BY <1>4 DEF GetMutex, CsTypeOK, ListedWaits, Goto
<1>5. ASSUME NEW t \in CsThread, Unlist(t) PROVE ListedWaits'
  <2>1. ASSUME NEW i \in CsIndex, gcsWait'[i].tid # NoOne
        PROVE  \E u \in CsThread : entry'[u] = i /\ csPc'[u] \in {"blocked", "got"}
    <3>1. i # entry[t] /\ gcsWait[i].tid # NoOne
      BY <1>5, <2>1, ClearedTable
    <3>2. PICK u \in CsThread : entry[u] = i /\ csPc[u] \in {"blocked", "got"}
      BY <3>1 DEF ListedWaits
    <3>3. u # t
      BY <3>1, <3>2
    <3> QED BY <1>5, <3>2, <3>3 DEF Unlist, CsTypeOK, Goto
  <2> QED BY <2>1 DEF ListedWaits
<1>6. ASSUME NEW t \in CsThread, Leave(t) PROVE ListedWaits'
  BY <1>6 DEF Leave, CsTypeOK, ListedWaits, Goto
<1>7. ASSUME NEW t \in CsThread, LookForWaiter(t) PROVE ListedWaits'
  BY <1>7 DEF LookForWaiter, CsTypeOK, ListedWaits, Goto
<1>8. ASSUME NEW t \in CsThread, SleepEnds(t) PROVE ListedWaits'
  BY <1>8 DEF SleepEnds, CsTypeOK, ListedWaits, Goto
<1> QED BY <1>1, <1>2, <1>3, <1>4, <1>5, <1>6, <1>7, <1>8 DEF CsNext

(* The leaver finds whom it passed by in the table, and sleeps.             *)
LEMMA LeaverStep ==
  ASSUME CsTypeOK, SlotsAreOwn, LeaverStays, [CsNext]_csVars
  PROVE  LeaverStays'
<1>1. CASE UNCHANGED csVars
  BY <1>1 DEF LeaverStays, csVars
<1>2. ASSUME NEW t \in CsThread, Claim(t) PROVE LeaverStays'
  BY <1>2 DEF Claim, CsTypeOK, LeaverStays, Goto
<1>3. ASSUME NEW t \in CsThread, Publish(t) PROVE LeaverStays'
  BY <1>3 DEF Publish, CsTypeOK, LeaverStays, Goto
<1>4. ASSUME NEW t \in CsThread, GetMutex(t) PROVE LeaverStays'
  BY <1>4 DEF GetMutex, CsTypeOK, LeaverStays, Goto
<1>5. ASSUME NEW t \in CsThread, Unlist(t) PROVE LeaverStays'
  BY <1>5 DEF Unlist, CsTypeOK, LeaverStays, Goto
<1>6. ASSUME NEW t \in CsThread, Leave(t) PROVE LeaverStays'
  BY <1>6 DEF Leave, CsTypeOK, LeaverStays, Goto, Blocked
<1>7. ASSUME NEW t \in CsThread, LookForWaiter(t) PROVE LeaverStays'
  <2>1. ASSUME ~racing, NEW s \in Section, passedBy[s] # {}, t = last[s] PROVE Waited(wants[t])
    <3>1. PICK u \in passedBy[s] : csPc[u] = "blocked" /\ wants[u] = s /\ entry[u] # 0
      BY <2>1 DEF LeaverStays
    <3>2. u \in CsThread /\ entry[u] \in CsIndex /\ wants[t] = s
      BY <2>1, <3>1 DEF LeaverStays, CsTypeOK
    <3>3. gcsWait[entry[u]] = [tid |-> u, cs |-> s]
      BY <2>1, <3>1, <3>2 DEF SlotsAreOwn
    <3> QED BY <3>2, <3>3 DEF Waited
  <2> QED BY <1>7, <2>1 DEF LookForWaiter, CsTypeOK, LeaverStays, Goto
<1>8. ASSUME NEW t \in CsThread, SleepEnds(t) PROVE LeaverStays'
  <2>1. ASSUME ~racing, NEW s \in Section, passedBy'[s] # {}
        PROVE  passedBy[s] # {} /\ passedBy'[s] = passedBy[s] /\ t # last[s]
    <3>1. passedBy[s] # {} /\ passedBy'[s] = passedBy[s]
      BY <1>8, <2>1 DEF SleepEnds, CsTypeOK
    <3>2. t = last[s] => wants[t] = s
      BY <2>1, <3>1 DEF LeaverStays
    <3> QED BY <1>8, <2>1, <3>1, <3>2 DEF SleepEnds, CsTypeOK
  <2> QED BY <1>8, <2>1 DEF SleepEnds, CsTypeOK, LeaverStays, Goto
<1> QED BY <1>1, <1>2, <1>3, <1>4, <1>5, <1>6, <1>7, <1>8 DEF CsNext

(* The inductive invariant, for any threads, sections and slots.            *)
THEOREM CsIInvHolds == CsSpec => []CsIInv
<1>1. CsIInv /\ [CsNext]_csVars => CsIInv'
  BY TypeStep, SlotsStep, ListedStep, LeaverStep DEF CsIInv
<1> QED BY InitCs, <1>1, PTL DEF CsSpec

(* The table, the mutexes and the program counters keep their types.        *)
THEOREM CsTypeCorrect == CsSpec => []CsTypeOK
BY CsIInvHolds, PTL DEF CsIInv

(* A waiting thread that found a slot is in it, for any number of threads   *)
(* and slots (bridge_RtlEnterCriticalSection).                              *)
THEOREM WaitersAreListed == CsSpec => []OneEntryEach
<1>1. CsIInv => OneEntryEach
  BY DEF CsIInv, SlotsAreOwn, OneEntryEach
<1> QED BY <1>1, CsIInvHolds, PTL

(* The table holds nobody who is not entering, races included.              *)
THEOREM ListedAreWaiting == CsSpec => []ListedWaits
BY CsIInvHolds, PTL DEF CsIInv

(* A thread that left a section does not take it back before one of those   *)
(* listed for it has had it or the thread has slept for them                *)
(* (bridge_RtlLeaveCriticalSection), for any threads, sections and slots.   *)
THEOREM WaiterGetsItsChance == CsSpec => WaiterHasItsChance
<1>1. ASSUME CsIInv, [CsNext]_csVars, NEW s \in Section,
             ~racing, mutex[s] = NoOne, mutex'[s] = last[s]
      PROVE  passedBy[s] = {}
  <2>1. SUFFICES ASSUME passedBy[s] # {} PROVE FALSE
    OBVIOUS
  <2>2. last[s] \in CsThread /\ csPc[last[s]] \in {"left", "asleep"}
    BY <1>1, <2>1 DEF CsIInv, LeaverStays
  <2>3. mutex'[s] # mutex[s]
    BY <1>1, <2>2
  <2>4. PICK t \in CsThread : \/ mutex' = [mutex EXCEPT ![wants[t]] = t] /\ csPc[t] = "blocked"
                            \/ mutex' = [mutex EXCEPT ![wants[t]] = NoOne]
    BY <1>1, <2>3 DEF CsNext, csVars, Claim, Publish, GetMutex, Unlist, Leave, LookForWaiter, SleepEnds
  <2> QED BY <1>1, <2>2, <2>3, <2>4 DEF CsIInv, CsTypeOK
<1>2. CsIInv /\ [CsNext]_csVars =>
        [\A s \in Section :
           ~racing /\ mutex[s] = NoOne /\ mutex'[s] = last[s] => passedBy[s] = {}]_csVars
  BY <1>1
<1> QED BY <1>2, CsIInvHolds, PTL DEF CsSpec, WaiterHasItsChance

(* The waiters' table tells the truth, as the run checks it.                *)
THEOREM CsInvHolds == CsSpec => []CsInv
BY CsTypeCorrect, WaitersAreListed, ListedAreWaiting, PTL DEF CsInv

HIDE CsAssumption DEF CsIndex, NoEntry

-----------------------------------------------------------------------------
(* ObjectHandles.                                                           *)

Token == [slot : HandleSlots, of : Nat]

HandleTypeOK ==
  /\ slotOf \in [HandleSlots -> Addr \cup {NoAddr}]
  /\ ref \in [Addr -> Nat] /\ isAt \in [Addr -> 0 .. made] /\ made \in Nat
  /\ runs \subseteq Addr
  /\ making \in [Caller -> [addr : Addr \cup {NoAddr}, slot : 0 .. HandleMax - 1]]
  /\ tokens \subseteq Token /\ IsFiniteSet(tokens) /\ \A k \in tokens : k.of <= made
  /\ lost \in [Addr -> Nat]
  /\ shared \subseteq HandleSlots /\ doubted \subseteq Addr

(* Objects are told apart by their numbers, tokens by their slots.          *)
OneNumberEach == \A a, b \in Addr : isAt[a] = isAt[b] /\ isAt[a] # 0 => a = b
OneSlotEach == \A k, l \in tokens : k.slot = l.slot /\ k.slot \notin shared => k = l

(* What a slot two calls found ever held is doubted.                        *)
SharedHold == \A i \in shared : slotOf[i] \in doubted \cup {NoAddr}

(* The tokens of an object that is not doubted are in slots that name it.   *)
InPlace ==
  \A k \in tokens :
    /\ k.slot \notin shared => slotOf[k.slot] # NoAddr
    /\ k.of = 0 => k.slot \in shared \/ slotOf[k.slot] \in doubted
    /\ \A a \in Addr \ doubted :
         isAt[a] = k.of /\ k.of # 0 => k.slot \notin shared /\ slotOf[k.slot] = a

(* A call between its search and its store is alone with the slot it found, *)
(* unless that is shared, and with the object it made.                      *)
OneMaker ==
  /\ \A c, d \in Caller :
       making[c].slot = making[d].slot /\ making[c].slot \notin shared \cup {0} => c = d
  /\ \A c, d \in Caller : making[c].addr = making[d].addr /\ making[c].addr \in Addr \ doubted => c = d
  /\ \A c \in Caller : making[c] # Nothing =>
       /\ making[c].addr \in Addr
       /\ making[c].addr \notin doubted => isAt[making[c].addr] # 0
       /\ making[c].slot \notin shared \cup {0} => slotOf[making[c].slot] = NoAddr

(* Nothing is left of an object whose last reference is gone.               *)
GoneForGood ==
  \A a \in Addr \ doubted :
    /\ isAt[a] = 0 <=> ref[a] = 0
    /\ isAt[a] = 0 => a \notin runs /\ lost[a] = 0

HandleIInv ==
  /\ HandleTypeOK /\ OneNumberEach /\ OneSlotEach /\ SharedHold /\ InPlace /\ OneMaker /\ GoneForGood
  /\ TokenNamesItsObject /\ RefsCounted

USE HandleAssumption

TokensOf(a) == {k \in tokens : k.of = isAt[a]}
MakersOf(a) == {c \in Caller : making[c].addr = a}
Runs(a) == IF a \in runs THEN 1 ELSE 0

(* Adding to a finite set, and taking away from it, counts one.             *)
LEMMA OneMore ==
  ASSUME NEW S, NEW x, IsFiniteSet(S), x \notin S
  PROVE  IsFiniteSet(S \cup {x}) /\ Cardinality(S \cup {x}) = Cardinality(S) + 1
BY FS_AddElement

LEMMA OneLess ==
  ASSUME NEW S, NEW x, IsFiniteSet(S), x \in S
  PROVE  IsFiniteSet(S \ {x}) /\ Cardinality(S \ {x}) = Cardinality(S) - 1
BY FS_RemoveElement

LEMMA NobodyCounts == IsFiniteSet({}) /\ Cardinality({}) = 0
BY FS_EmptySet

LEMMA OneCounts == \A x : IsFiniteSet({x}) /\ Cardinality({x}) = 1
BY FS_Singleton

(* What RefsCounted says, in the parts the actions change.                  *)
LEMMA HoldersAre ==
  ASSUME NEW a
  PROVE  /\ Holders(a) = Cardinality(TokensOf(a)) + Cardinality(MakersOf(a)) + lost[a] + Runs(a)
         /\ Holders(a)' = Cardinality(TokensOf(a)') + Cardinality(MakersOf(a)') + lost'[a] + Runs(a)'
BY DEF Holders, TokensOf, MakersOf, Runs

LEMMA PartFinite ==
  ASSUME NEW S, IsFiniteSet(S), NEW n
  PROVE  IsFiniteSet({k \in S : k.of = n}) /\ Cardinality({k \in S : k.of = n}) \in Nat
<1> DEFINE T == {k \in S : k.of = n}
<1>1. T \in SUBSET S
  OBVIOUS
<1>2. IsFiniteSet(T)
  BY <1>1, FS_Subset
<1> HIDE DEF T
<1>3. Cardinality(T) \in Nat
  BY <1>2, FS_CardinalityType
<1> QED BY <1>2, <1>3 DEF T

LEMMA TokensFinite ==
  /\ HandleTypeOK => \A a : IsFiniteSet(TokensOf(a)) /\ Cardinality(TokensOf(a)) \in Nat
  /\ HandleTypeOK' => \A a : IsFiniteSet(TokensOf(a)') /\ Cardinality(TokensOf(a)') \in Nat
<1>1. ASSUME HandleTypeOK, NEW a PROVE IsFiniteSet(TokensOf(a)) /\ Cardinality(TokensOf(a)) \in Nat
  <2>1. IsFiniteSet(tokens)
    BY <1>1 DEF HandleTypeOK
  <2> QED BY <2>1, PartFinite DEF TokensOf
<1>2. ASSUME HandleTypeOK', NEW a PROVE IsFiniteSet(TokensOf(a)') /\ Cardinality(TokensOf(a)') \in Nat
  <2>1. IsFiniteSet(tokens')
    BY <1>2 DEF HandleTypeOK
  <2> QED BY <2>1, PartFinite DEF TokensOf
<1> QED BY <1>1, <1>2

(* A call between its two steps is its object's only maker.                 *)
LEMMA MakersCount ==
  ASSUME HandleTypeOK, OneMaker, NEW a \in Addr \ doubted
  PROVE  /\ \A c \in Caller : making[c].addr = a => MakersOf(a) = {c}
         /\ Cardinality(MakersOf(a)) \in Nat
<1>1. ASSUME NEW c \in Caller, making[c].addr = a PROVE MakersOf(a) = {c}
  BY <1>1 DEF MakersOf, OneMaker
<1>2. MakersOf(a) = {} \/ \E c \in Caller : MakersOf(a) = {c}
  BY <1>1 DEF MakersOf
<1>3. Cardinality(MakersOf(a)) \in Nat
  <2>1. CASE MakersOf(a) = {}
    BY <2>1, NobodyCounts
  <2>2. ASSUME NEW c \in Caller, MakersOf(a) = {c} PROVE Cardinality(MakersOf(a)) \in Nat
    <3>1. Cardinality({c}) = 1
      BY OneCounts
    <3> QED BY <2>2, <3>1
  <2> QED BY <1>2, <2>1, <2>2
<1> QED BY <1>1, <1>3

(* The object of a token that is not doubted is alive, and one of its       *)
(* references is the token's.                                               *)
LEMMA TokenCounts ==
  ASSUME HandleIInv, NEW k \in tokens, k.slot \notin shared, slotOf[k.slot] \notin doubted
  PROVE  LET a == slotOf[k.slot]
         IN  /\ a \in Addr \ doubted /\ isAt[a] = k.of /\ k.of # 0 /\ k \in TokensOf(a)
             /\ ref[a] = Holders(a) /\ ref[a] > 0
<1>1. k.slot \in HandleSlots /\ slotOf[k.slot] \in Addr \ doubted /\ k.of # 0
  BY DEF HandleIInv, HandleTypeOK, Token, InPlace
<1>2. isAt[slotOf[k.slot]] = k.of
  BY DEF HandleIInv, TokenNamesItsObject
<1> QED BY <1>1, <1>2 DEF HandleIInv, HandleTypeOK, TokensOf, GoneForGood, RefsCounted

LEMMA InitHandles == HandleInit => HandleIInv
<1> SUFFICES ASSUME HandleInit PROVE HandleIInv
  OBVIOUS
<1>1. HandleTypeOK
  BY NobodyCounts DEF HandleInit, HandleTypeOK, Nothing, HandleSlots
<1>2. OneNumberEach /\ OneSlotEach /\ SharedHold /\ InPlace /\ GoneForGood /\ TokenNamesItsObject
  BY DEF HandleInit, OneNumberEach, OneSlotEach, SharedHold, InPlace, GoneForGood, TokenNamesItsObject
<1>3. OneMaker
  BY DEF HandleInit, OneMaker, Nothing
<1>4. RefsCounted
  BY DEF HandleInit, RefsCounted
<1> QED BY <1>1, <1>2, <1>3, <1>4 DEF HandleIInv

(* A slot that another call found too becomes shared: it is empty, and no   *)
(* token is in it.                                                          *)
LEMMA SlotFound ==
  ASSUME HandleIInv, NEW a, NEW i \in 0 .. HandleMax - 1, FreshSlot(a, i), Found(i)
  PROVE  /\ shared \subseteq shared' /\ shared' \subseteq HandleSlots
         /\ i # 0 => slotOf[i] = NoAddr
         /\ \A j \in shared' \ shared : slotOf[j] = NoAddr
         /\ \A k \in tokens : k.slot \notin shared => k.slot \notin shared' /\ k.slot # i
         /\ i \notin shared' \cup {0} => \A c \in Caller : making[c].slot # i
<1>1. i # 0 => i \in HandleSlots /\ slotOf[i] = NoAddr
  BY DEF FreshSlot, HandleSlots
<1>2. shared' = (IF Contested(i) THEN shared \cup {i} ELSE shared) /\ (Contested(i) => i # 0)
  BY DEF Found, Contested
<1>3. \A k \in tokens : k.slot \in HandleSlots /\ (k.slot \notin shared => slotOf[k.slot] # NoAddr)
  BY DEF HandleIInv, HandleTypeOK, Token, InPlace
<1>4. 0 \notin HandleSlots /\ shared \subseteq HandleSlots
  BY DEF HandleSlots, HandleIInv, HandleTypeOK
<1>5. i \notin shared' \cup {0} => \A c \in Caller : making[c].slot # i
  BY <1>2 DEF Contested
<1> QED BY <1>1, <1>2, <1>3, <1>4, <1>5

LEMMA CreateHandles ==
  ASSUME HandleIInv, NEW c \in Caller, Create(c) PROVE HandleIInv'
<1> USE DEF HandleIInv
<1>1. PICK a \in Addr, thread \in BOOLEAN, i \in 0 .. HandleMax - 1 :
        /\ ref[a] = 0 /\ FreshSlot(a, i) /\ Found(i)
        /\ ref' = [ref EXCEPT ![a] = IF thread THEN 2 ELSE 1]
        /\ runs' = IF thread THEN runs \cup {a} ELSE runs
        /\ made' = made + 1
        /\ isAt' = [isAt EXCEPT ![a] = made + 1]
        /\ making' = [making EXCEPT ![c] = [addr |-> a, slot |-> i]]
  BY DEF Create
<1>2. UNCHANGED <<slotOf, tokens, lost, doubted>> /\ making[c] = Nothing
  BY DEF Create
<1>3. a \notin doubted => isAt[a] = 0 /\ a \notin runs /\ lost[a] = 0
  BY <1>1 DEF GoneForGood
<1>4. /\ shared \subseteq shared' /\ shared' \subseteq HandleSlots
      /\ i # 0 => slotOf[i] = NoAddr
      /\ \A j \in shared' \ shared : slotOf[j] = NoAddr
      /\ \A k \in tokens : k.slot \notin shared => k.slot \notin shared' /\ k.slot # i
      /\ i \notin shared' \cup {0} => \A d \in Caller : making[d].slot # i
  BY <1>1, SlotFound
<1>5. /\ \A k \in tokens : k.of <= made /\ k.of # made + 1 /\ k.of \in Nat
      /\ isAt'[a] = made + 1 /\ \A b \in Addr : b # a => isAt'[b] = isAt[b] /\ ref'[b] = ref[b]
      /\ \A b \in Addr : isAt[b] <= made /\ isAt[b] \in Nat
      /\ made \in Nat
  BY <1>1 DEF HandleTypeOK, Token
<1>6. HandleTypeOK'
  <2>1. \A k \in tokens : k.of <= made + 1
    BY <1>5
  <2> QED BY <1>1, <1>2, <1>4, <2>1 DEF HandleTypeOK
<1>7. OneNumberEach' /\ OneSlotEach' /\ SharedHold'
  <2>1. OneNumberEach'
    BY <1>5 DEF OneNumberEach
  <2>2. OneSlotEach'
    BY <1>2, <1>4 DEF OneSlotEach
  <2>3. SharedHold'
    BY <1>2, <1>4 DEF SharedHold
  <2> QED BY <2>1, <2>2, <2>3
<1>8. InPlace'
  <2>1. SUFFICES ASSUME NEW k \in tokens
                 PROVE  /\ k.slot \notin shared' => slotOf[k.slot] # NoAddr
                        /\ k.of = 0 => k.slot \in shared' \/ slotOf[k.slot] \in doubted
                        /\ \A b \in Addr \ doubted : isAt'[b] = k.of /\ k.of # 0 =>
                             k.slot \notin shared' /\ slotOf[k.slot] = b
    BY <1>2 DEF InPlace
  <2>2. \A b \in Addr \ doubted : isAt'[b] = k.of => b # a
    BY <1>5
  <2> QED BY <1>4, <1>5, <2>2 DEF InPlace
<1>9. OneMaker'
  <2>1. /\ making'[c] = [addr |-> a, slot |-> i] /\ \A d \in Caller : d # c => making'[d] = making[d]
        /\ a # NoAddr
    BY <1>1, <1>2 DEF HandleTypeOK
  <2>2. ASSUME NEW d \in Caller, NEW e \in Caller, making'[d].slot = making'[e].slot,
               making'[d].slot \notin shared' \cup {0}
        PROVE  d = e
    BY <1>4, <2>1, <2>2 DEF OneMaker
  <2>3. ASSUME NEW d \in Caller, making[d].addr = a, a \notin doubted PROVE FALSE
    <3>1. making[d] # Nothing
      BY <2>1, <2>3 DEF Nothing
    <3> QED BY <1>3, <2>3, <3>1 DEF OneMaker
  <2>4. ASSUME NEW d \in Caller, NEW e \in Caller, making'[d].addr = making'[e].addr,
               making'[d].addr \in Addr \ doubted
        PROVE  d = e
    BY <2>1, <2>3, <2>4 DEF OneMaker
  <2>5. ASSUME NEW d \in Caller, making'[d] # Nothing
        PROVE  /\ making'[d].addr \in Addr
               /\ making'[d].addr \notin doubted => isAt'[making'[d].addr] # 0
               /\ making'[d].slot \notin shared' \cup {0} => slotOf[making'[d].slot] = NoAddr
    <3>1. CASE d = c
      BY <1>4, <1>5, <2>1, <3>1
    <3>2. CASE d # c
      <4>1. making'[d] = making[d] /\ making[d] # Nothing
        BY <2>1, <2>5, <3>2
      <4>2. /\ making[d].addr \in Addr
            /\ making[d].addr \notin doubted => isAt[making[d].addr] # 0
            /\ making[d].slot \notin shared \cup {0} => slotOf[making[d].slot] = NoAddr
        BY <4>1 DEF OneMaker
      <4>3. isAt[making[d].addr] # 0 => isAt'[making[d].addr] # 0
        BY <1>5, <4>2
      <4> QED BY <1>4, <4>1, <4>2, <4>3
    <3> QED BY <3>1, <3>2
  <2> QED BY <1>2, <2>2, <2>4, <2>5 DEF OneMaker
<1>10. GoneForGood'
  BY <1>1, <1>2, <1>3, <1>5 DEF GoneForGood, HandleTypeOK
<1>11. TokenNamesItsObject'
  <2>1. SUFFICES ASSUME NEW k \in tokens, k.slot \notin shared', slotOf[k.slot] \notin doubted
                 PROVE  slotOf[k.slot] # NoAddr /\ isAt'[slotOf[k.slot]] = k.of
    BY <1>2 DEF TokenNamesItsObject
  <2>2. slotOf[k.slot] \in Addr \ doubted /\ isAt[slotOf[k.slot]] = k.of /\ k.of # 0
    BY <1>4, <2>1, TokenCounts
  <2> QED BY <1>3, <1>5, <2>2
<1>12. RefsCounted'
  <2>1. SUFFICES ASSUME NEW b \in Addr \ doubted PROVE (ref[b] = IF isAt[b] = 0 THEN 0 ELSE Holders(b))'
    BY <1>2 DEF RefsCounted
  <2>2. CASE b = a
    <3>1. TokensOf(a)' = {} /\ MakersOf(a)' = {c}
      <4>1. making'[c].addr = a
        BY <1>1 DEF HandleTypeOK
      <4>2. \A d \in Caller : d # c => making'[d].addr # a
        BY <1>9, <2>1, <2>2, <4>1, <1>2 DEF OneMaker
      <4>3. MakersOf(a)' = {c}
        BY <4>1, <4>2 DEF MakersOf
      <4>4. TokensOf(a)' = {}
        BY <1>2, <1>5 DEF TokensOf
      <4> QED BY <4>3, <4>4
    <3>2. Holders(a)' = 0 + 1 + 0 + IF thread THEN 1 ELSE 0
      <4>1. lost'[a] = 0 /\ Runs(a)' = IF thread THEN 1 ELSE 0
        BY <1>1, <1>2, <1>3, <2>1, <2>2 DEF Runs
      <4>2. Cardinality(TokensOf(a)') = 0 /\ Cardinality(MakersOf(a)') = 1
        BY <3>1, NobodyCounts, OneCounts
      <4> QED BY <4>1, <4>2, HoldersAre
    <3> QED BY <1>1, <1>5, <2>2, <3>2 DEF HandleTypeOK
  <2>3. CASE b # a
    <3>1. isAt'[b] = isAt[b] /\ ref'[b] = ref[b]
      BY <1>5, <2>3
    <3>2. TokensOf(b)' = TokensOf(b) /\ MakersOf(b)' = MakersOf(b) /\ lost'[b] = lost[b] /\ Runs(b)' = Runs(b)
      <4>1. making'[c].addr = a /\ \A d \in Caller : d # c => making'[d] = making[d]
        BY <1>1 DEF HandleTypeOK
      <4>2. MakersOf(b)' = MakersOf(b)
        BY <1>2, <2>3, <4>1 DEF MakersOf, Nothing
      <4> QED BY <1>1, <1>2, <2>3, <3>1, <4>2 DEF TokensOf, Runs
    <3>3. Holders(b)' = Holders(b)
      BY <3>2, HoldersAre
    <3> QED BY <2>1, <3>1, <3>3 DEF RefsCounted
  <2> QED BY <2>2, <2>3
<1> QED BY <1>6, <1>7, <1>8, <1>9, <1>10, <1>11, <1>12

(* A token given out names the object it is for, in a slot of its own; the  *)
(* object has one more token, or one more lost reference; no other object   *)
(* is the worse for it, unless the slot is shared.                          *)
LEMMA HandedOut ==
  ASSUME HandleIInv, NEW a \in Addr, a \notin doubted => isAt[a] # 0, NEW kept \in SUBSET tokens,
         NEW i \in 0 .. HandleMax - 1, i \notin shared' \cup {0} => slotOf[i] = NoAddr,
         shared \subseteq shared', shared' \subseteq HandleSlots,
         \A j \in shared' \ shared : slotOf[j] = NoAddr,
         Handed(i, a, isAt[a], kept), isAt' = isAt, made' = made
  PROVE  /\ slotOf' \in [HandleSlots -> Addr \cup {NoAddr}]
         /\ tokens' \subseteq Token /\ IsFiniteSet(tokens') /\ \A k \in tokens' : k.of <= made
         /\ lost' \in [Addr -> Nat]
         /\ doubted \subseteq doubted' /\ doubted' \subseteq Addr
         /\ i \in shared' => a \in doubted'
         /\ \A j \in HandleSlots : j # i => slotOf'[j] = slotOf[j]
         /\ OneSlotEach' /\ SharedHold' /\ InPlace' /\ TokenNamesItsObject'
         /\ \A b \in Addr : b # a => lost'[b] = lost[b]
         /\ \A b \in Addr \ doubted' : isAt[b] # 0 =>
              Cardinality(TokensOf(b)') + lost'[b]
                = Cardinality({k \in kept : k.of = isAt[b]}) + lost[b] + IF b = a THEN 1 ELSE 0
<1> USE DEF HandleIInv
<1> DEFINE new == [slot |-> i, of |-> isAt[a]]
           old(b) == {k \in kept : k.of = isAt[b]}
<1>1. HandleTypeOK /\ IsFiniteSet(kept) /\ kept \subseteq Token /\ isAt[a] \in Nat /\ isAt[a] <= made
  BY FS_Subset DEF HandleTypeOK
<1>2. \A b : IsFiniteSet(old(b)) /\ Cardinality(old(b)) \in Nat
  BY <1>1, PartFinite
<1>3. /\ doubted \subseteq doubted' /\ doubted' \subseteq Addr
      /\ i \in shared' => a \in doubted' /\ doubted' = doubted \cup {a}
      /\ i \notin shared' => doubted' = doubted
  BY <1>1 DEF Handed, HandleTypeOK
<1>4. \A k \in tokens : k.slot \notin shared => k.slot \notin shared' /\ (k.slot = i => i = 0)
  BY DEF InPlace
<1>5. \A k \in tokens : k.slot \in HandleSlots /\ 0 \notin HandleSlots
  BY <1>1 DEF HandleTypeOK, Token, HandleSlots
<1>6. CASE i = 0
  <2>1. lost' = [lost EXCEPT ![a] = @ + 1] /\ tokens' = kept /\ slotOf' = slotOf /\ doubted' = doubted
    BY <1>3, <1>5, <1>6 DEF Handed, HandleSlots
  <2>2. OneSlotEach' /\ SharedHold' /\ TokenNamesItsObject'
    BY <2>1 DEF OneSlotEach, SharedHold, TokenNamesItsObject
  <2>3. InPlace'
    BY <1>4, <2>1 DEF InPlace
  <2>4. \A b : TokensOf(b)' = old(b)
    BY <2>1 DEF TokensOf
  <2> HIDE DEF old
  <2>5. \A b \in Addr :
          /\ b # a => lost'[b] = lost[b]
          /\ Cardinality(TokensOf(b)') + lost'[b] = Cardinality(old(b)) + lost[b] + IF b = a THEN 1 ELSE 0
    BY <1>1, <1>2, <2>1, <2>4 DEF HandleTypeOK
  <2> QED BY <1>1, <1>3, <2>1, <2>2, <2>3, <2>5 DEF HandleTypeOK, old
<1>7. CASE i # 0
  <2>1. /\ slotOf' = [slotOf EXCEPT ![i] = a] /\ tokens' = kept \cup {new} /\ lost' = lost
        /\ i \in HandleSlots
    BY <1>7 DEF Handed, HandleSlots
  <2>2. /\ slotOf'[i] = a /\ \A j \in HandleSlots : j # i => slotOf'[j] = slotOf[j]
        /\ slotOf' \in [HandleSlots -> Addr \cup {NoAddr}]
    BY <1>1, <2>1 DEF HandleTypeOK
  <2>3. \A k \in kept : k.slot \notin shared => k.slot # i /\ slotOf'[k.slot] = slotOf[k.slot]
    BY <1>4, <1>5, <1>7, <2>2
  <2>4. new \in Token /\ new.slot = i /\ new.of = isAt[a]
    BY <1>1, <2>1 DEF Token
  <2>5. OneSlotEach'
    <3>1. SUFFICES ASSUME NEW k \in kept \cup {new}, NEW l \in kept \cup {new}, k.slot = l.slot, k.slot \notin shared'
                   PROVE  k = l
      BY <2>1, Zenon DEF OneSlotEach
    <3>2. k.slot \notin shared /\ l.slot \notin shared
      BY <3>1
    <3>3. (k = new /\ l = new) \/ (k \in kept /\ l \in kept)
      BY <2>3, <2>4, <3>1, <3>2
    <3> HIDE DEF new
    <3> QED BY <3>1, <3>2, <3>3 DEF OneSlotEach
  <2>6. SharedHold'
    BY <1>3, <1>5, <2>2 DEF SharedHold
  <2>7. ASSUME NEW k \in kept \cup {new}
        PROVE  /\ k.slot \notin shared' => slotOf'[k.slot] # NoAddr
               /\ k.of = 0 => k.slot \in shared' \/ slotOf'[k.slot] \in doubted'
               /\ \A b \in Addr \ doubted' :
                    isAt[b] = k.of /\ k.of # 0 => k.slot \notin shared' /\ slotOf'[k.slot] = b
               /\ \/ k.slot \in shared' \/ slotOf'[k.slot] \in doubted'
                  \/ slotOf'[k.slot] # NoAddr /\ isAt[slotOf'[k.slot]] = k.of
    <3>1. CASE k = new
      <4>1. k.slot = i /\ k.of = isAt[a] /\ slotOf'[k.slot] = a /\ a # NoAddr
        BY <2>2, <2>4, <3>1
      <4>2. isAt[a] = 0 => a \in doubted'
        BY <1>3
      <4>3. ASSUME NEW b \in Addr \ doubted', isAt[b] = k.of, k.of # 0 PROVE b = a
        BY <4>1, <4>3 DEF OneNumberEach
      <4> QED BY <1>3, <4>1, <4>2, <4>3
    <3>2. CASE k \in kept
      <4>1. k \in tokens
        BY <3>2
      <4>2. k.slot \notin shared => k.slot \notin shared' /\ slotOf'[k.slot] = slotOf[k.slot]
        BY <1>4, <2>3, <3>2
      <4> QED BY <1>3, <4>1, <4>2 DEF InPlace, TokenNamesItsObject
    <3> QED BY <2>7, <3>1, <3>2
  <2> HIDE DEF new
  <2>8. InPlace' /\ TokenNamesItsObject'
    BY <2>1, <2>7 DEF InPlace, TokenNamesItsObject
  <2>9. ASSUME NEW b \in Addr \ doubted', isAt[b] # 0
        PROVE  Cardinality(TokensOf(b)') = Cardinality(old(b)) + IF b = a THEN 1 ELSE 0
    <3>1. CASE b = a
      <4>1. i \notin shared'
        BY <1>3, <2>9, <3>1
      <4>2. new \notin kept
        BY <1>4, <1>7, <2>4, <4>1
      <4>3. TokensOf(b)' = old(b) \cup {new} /\ new \notin old(b)
        BY <2>1, <2>4, <3>1, <4>2 DEF TokensOf
      <4> HIDE DEF old
      <4> QED BY <1>2, <3>1, <4>3, OneMore
    <3>2. CASE b # a
      <4>1. isAt[b] # isAt[a]
        BY <2>9, <3>2 DEF OneNumberEach
      <4>2. TokensOf(b)' = old(b)
        BY <2>1, <2>4, <4>1 DEF TokensOf
      <4> HIDE DEF old
      <4> QED BY <1>2, <3>2, <4>2
    <3> QED BY <3>1, <3>2
  <2>10. IsFiniteSet(tokens') /\ tokens' \subseteq Token
    <3>1. IsFiniteSet(kept \cup {new})
      BY <1>1, FS_AddElement
    <3> QED BY <1>1, <2>1, <2>4, <3>1
  <2>11. \A k \in tokens' : k.of <= made
    BY <1>1, <2>1, <2>4 DEF HandleTypeOK
  <2> HIDE DEF old
  <2>12. \A b \in Addr \ doubted' : isAt[b] # 0 =>
           Cardinality(TokensOf(b)') + lost'[b] = Cardinality(old(b)) + lost[b] + IF b = a THEN 1 ELSE 0
    BY <1>1, <1>2, <2>1, <2>9 DEF HandleTypeOK
  <2> QED BY <1>1, <1>3, <2>1, <2>2, <2>5, <2>6, <2>8, <2>10, <2>11, <2>12 DEF HandleTypeOK, old
<1> QED BY <1>6, <1>7

LEMMA StoreHandles ==
  ASSUME HandleIInv, NEW c \in Caller, Store(c) PROVE HandleIInv'
<1> USE DEF HandleIInv
<1>1. PICK a, i : a = making[c].addr /\ i = making[c].slot
  OBVIOUS
<1>2. /\ making[c] # Nothing /\ Handed(i, a, isAt[a], tokens)
      /\ making' = [making EXCEPT ![c] = Nothing]
      /\ ref' = ref /\ isAt' = isAt /\ runs' = runs /\ made' = made /\ shared' = shared
  BY <1>1 DEF Store
<1>3. /\ a \in Addr /\ (a \notin doubted => isAt[a] # 0) /\ i \in 0 .. HandleMax - 1
      /\ i \notin shared' \cup {0} => slotOf[i] = NoAddr
  BY <1>1, <1>2 DEF OneMaker, HandleTypeOK
<1>4. shared \subseteq shared' /\ shared' \subseteq HandleSlots /\ \A j \in shared' \ shared : slotOf[j] = NoAddr
  BY <1>2 DEF HandleTypeOK
<1>5. /\ slotOf' \in [HandleSlots -> Addr \cup {NoAddr}]
      /\ tokens' \subseteq Token /\ IsFiniteSet(tokens') /\ \A k \in tokens' : k.of <= made
      /\ lost' \in [Addr -> Nat]
      /\ doubted \subseteq doubted' /\ doubted' \subseteq Addr
      /\ i \in shared' => a \in doubted'
      /\ \A j \in HandleSlots : j # i => slotOf'[j] = slotOf[j]
      /\ OneSlotEach' /\ SharedHold' /\ InPlace' /\ TokenNamesItsObject'
      /\ \A b \in Addr : b # a => lost'[b] = lost[b]
      /\ \A b \in Addr \ doubted' : isAt[b] # 0 =>
           Cardinality(TokensOf(b)') + lost'[b]
             = Cardinality({k \in tokens : k.of = isAt[b]}) + lost[b] + IF b = a THEN 1 ELSE 0
  <2>1. HandleIInv /\ a \in Addr /\ tokens \in SUBSET tokens /\ (a \notin doubted => isAt[a] # 0)
    BY <1>3
  <2> QED BY ONLY <1>2, <1>3, <1>4, <2>1, HandedOut
<1>6. /\ making'[c] = Nothing /\ \A d \in Caller : d # c => making'[d] = making[d]
      /\ Nothing.addr = NoAddr /\ Nothing.slot = 0
  BY <1>2 DEF HandleTypeOK, Nothing
<1>7. HandleTypeOK'
  BY <1>2, <1>4, <1>5 DEF HandleTypeOK, Nothing
<1>8. OneNumberEach'
  BY <1>2 DEF OneNumberEach
<1>9. OneMaker'
  <2>1. ASSUME NEW d \in Caller, NEW e \in Caller, making'[d].slot = making'[e].slot,
               making'[d].slot \notin shared' \cup {0}
        PROVE  d = e
    BY <1>2, <1>6, <2>1 DEF OneMaker
  <2>2. ASSUME NEW d \in Caller, NEW e \in Caller, making'[d].addr = making'[e].addr,
               making'[d].addr \in Addr \ doubted'
        PROVE  d = e
    BY <1>5, <1>6, <2>2 DEF OneMaker
  <2>3. ASSUME NEW d \in Caller, making'[d] # Nothing
        PROVE  /\ making'[d].addr \in Addr
               /\ making'[d].addr \notin doubted' => isAt'[making'[d].addr] # 0
               /\ making'[d].slot \notin shared' \cup {0} => slotOf'[making'[d].slot] = NoAddr
    <3>1. d # c /\ making'[d] = making[d] /\ making[d] # Nothing
      BY <1>6, <2>3
    <3>2. /\ making[d].addr \in Addr
          /\ making[d].addr \notin doubted => isAt[making[d].addr] # 0
          /\ making[d].slot \notin shared \cup {0} => slotOf[making[d].slot] = NoAddr
      BY <3>1 DEF OneMaker
    <3>3. making[d].slot \notin shared \cup {0} => making[d].slot \in HandleSlots /\ making[d].slot # i
      BY <1>1, <3>1 DEF OneMaker, HandleTypeOK, HandleSlots
    <3> QED BY <1>2, <1>5, <3>1, <3>2, <3>3
  <2> QED BY <2>1, <2>2, <2>3 DEF OneMaker
<1>10. GoneForGood'
  BY <1>2, <1>3, <1>5 DEF GoneForGood
<1>11. RefsCounted'
  <2>1. SUFFICES ASSUME NEW b \in Addr \ doubted', isAt[b] # 0 PROVE ref[b] = Holders(b)'
    BY <1>2, <1>5 DEF RefsCounted
  <2>2. Cardinality(MakersOf(b)) = (IF b = a THEN 1 ELSE 0) + Cardinality(MakersOf(b)')
        /\ Cardinality(MakersOf(b)') \in Nat
    <3>1. CASE b = a
      <4>1. MakersOf(b) = {c}
        BY <1>1, <1>5, <2>1, <3>1, MakersCount
      <4>2. MakersOf(b)' = {}
        BY <1>6, <4>1 DEF MakersOf
      <4>3. Cardinality(MakersOf(b)) = 1 /\ Cardinality(MakersOf(b)') = 0
        BY <4>1, <4>2, NobodyCounts, OneCounts
      <4> QED BY <3>1, <4>3
    <3>2. CASE b # a
      <4>1. MakersOf(b)' = MakersOf(b)
        BY <1>1, <1>6, <3>2 DEF MakersOf
      <4>2. Cardinality(MakersOf(b)) \in Nat
        BY <1>5, <2>1, MakersCount
      <4> QED BY <3>2, <4>1, <4>2
    <3> QED BY <3>1, <3>2
  <2>3. Runs(b)' = Runs(b) /\ Runs(b) \in Nat
    BY <1>2 DEF Runs
  <2>4. Cardinality(TokensOf(b)') + lost'[b] = Cardinality(TokensOf(b)) + lost[b] + IF b = a THEN 1 ELSE 0
    BY <1>5, <2>1 DEF TokensOf
  <2>5. lost[b] \in Nat /\ lost'[b] \in Nat
    BY <1>7 DEF HandleTypeOK
  <2>6. Cardinality(TokensOf(b)) \in Nat /\ Cardinality(TokensOf(b)') \in Nat
    BY <1>7, TokensFinite
  <2>7. Holders(b)' = Holders(b)
    BY <2>2, <2>3, <2>4, <2>5, <2>6, HoldersAre
  <2> QED BY <1>5, <2>1, <2>7 DEF RefsCounted
<1> QED BY <1>5, <1>7, <1>8, <1>9, <1>10, <1>11

(* Four numbers that add up to nothing.                                     *)
LEMMA AllNought ==
  ASSUME NEW w \in Nat, NEW x \in Nat, NEW y \in Nat, NEW z \in Nat, w + x + y + z = 0
  PROVE  w = 0 /\ x = 0 /\ y = 0 /\ z = 0
OBVIOUS

(* A release: at an address that is not doubted, by one of those that hold  *)
(* the object there; what else holds it still does, and only if that is     *)
(* nothing is the object gone.                                              *)
LEMMA Releases ==
  ASSUME HandleIInv, NEW a \in Addr, ref' = Released(ref, a), isAt' = StillAt(ref', isAt),
         UNCHANGED <<making, made, lost, shared, doubted>>
  PROVE  /\ ref' \in [Addr -> Nat] /\ isAt' \in [Addr -> 0 .. made]
         /\ \A b \in Addr : isAt'[b] \in {0, isAt[b]}
         /\ \A b \in Addr \ doubted : b # a => ref'[b] = ref[b] /\ isAt'[b] = isAt[b]
         /\ ref[a] > 0 => ref'[a] = ref[a] - 1 /\ isAt'[a] = IF ref'[a] = 0 THEN 0 ELSE isAt[a]
         /\ OneNumberEach'
<1> USE DEF HandleIInv
<1>1. ref' \in [Addr -> Nat] /\ \A b \in Addr : b # a => ref'[b] = ref[b]
  BY DEF Released, HandleTypeOK
<1>2. isAt' = [b \in Addr |-> IF ref'[b] = 0 THEN 0 ELSE isAt[b]]
  BY DEF StillAt
<1>3. isAt' \in [Addr -> 0 .. made] /\ \A b \in Addr : isAt'[b] \in {0, isAt[b]}
  BY <1>2 DEF HandleTypeOK
<1>4. \A b \in Addr \ doubted : b # a => isAt'[b] = isAt[b]
  BY <1>1, <1>2 DEF GoneForGood
<1>5. ref[a] > 0 => ref'[a] = ref[a] - 1 /\ isAt'[a] = IF ref'[a] = 0 THEN 0 ELSE isAt[a]
  BY <1>2 DEF Released, HandleTypeOK
<1>6. OneNumberEach'
  BY <1>3 DEF OneNumberEach
<1> QED BY <1>1, <1>3, <1>4, <1>5, <1>6

(* Closing a token takes its reference; the last one takes the object.      *)
LEMMA CloseHandles ==
  ASSUME HandleIInv, NEW k \in tokens, NtClose(k) PROVE HandleIInv'
<1> USE DEF HandleIInv
<1>1. /\ tokens' = tokens \ {k} /\ slotOf' = [slotOf EXCEPT ![k.slot] = NoAddr]
      /\ ref' = IF slotOf[k.slot] # NoAddr THEN Released(ref, slotOf[k.slot]) ELSE ref
      /\ isAt' = StillAt(ref', isAt)
      /\ UNCHANGED <<runs, making, made, lost, shared, doubted>>
  BY DEF NtClose
<1>2. /\ k.slot \in HandleSlots /\ slotOf'[k.slot] = NoAddr
      /\ \A j \in HandleSlots : j # k.slot => slotOf'[j] = slotOf[j]
      /\ slotOf' \in [HandleSlots -> Addr \cup {NoAddr}]
      /\ IsFiniteSet(tokens')
  BY <1>1, FS_RemoveElement DEF HandleTypeOK, Token
<1>3. \A l \in tokens' : l \in tokens /\ l.slot \in HandleSlots
                         /\ (l.slot \notin shared => l.slot # k.slot /\ slotOf'[l.slot] = slotOf[l.slot])
  BY <1>1, <1>2 DEF OneSlotEach, HandleTypeOK, Token
<1> DEFINE sound == k.slot \notin shared /\ slotOf[k.slot] \notin doubted
<1>4. /\ ref' \in [Addr -> Nat] /\ isAt' \in [Addr -> 0 .. made] /\ OneNumberEach'
      /\ \A b \in Addr : isAt'[b] \in {0, isAt[b]}
      /\ \A b \in Addr \ doubted : (sound => b # slotOf[k.slot]) => ref'[b] = ref[b] /\ isAt'[b] = isAt[b]
  <2>1. CASE slotOf[k.slot] = NoAddr
    <3>1. ref' = ref /\ isAt' = [b \in Addr |-> IF ref[b] = 0 THEN 0 ELSE isAt[b]]
      BY <1>1, <2>1 DEF StillAt
    <3>2. \A b \in Addr : isAt'[b] \in {0, isAt[b]}
      BY <3>1
    <3> QED BY <3>1, <3>2 DEF HandleTypeOK, GoneForGood, OneNumberEach
  <2>2. CASE slotOf[k.slot] # NoAddr
    <3>1. PICK a \in Addr : a = slotOf[k.slot]
      BY <1>2, <2>2 DEF HandleTypeOK
    <3>2. ref' = Released(ref, a)
      BY <1>1, <2>2, <3>1
    <3>3. k.slot \in shared => a \in doubted
      BY <2>2, <3>1 DEF SharedHold
    <3> QED BY <1>1, <3>1, <3>2, <3>3, Releases
  <2> QED BY <2>1, <2>2
<1>5. HandleTypeOK'
  BY <1>1, <1>2, <1>4 DEF HandleTypeOK
<1>6. OneSlotEach' /\ SharedHold'
  BY <1>1, <1>2 DEF OneSlotEach, SharedHold, HandleTypeOK
<1>7. InPlace'
  <2>1. SUFFICES ASSUME NEW l \in tokens'
                 PROVE  /\ l.slot \notin shared => slotOf'[l.slot] # NoAddr
                        /\ l.of = 0 => l.slot \in shared \/ slotOf'[l.slot] \in doubted
                        /\ \A b \in Addr \ doubted : isAt'[b] = l.of /\ l.of # 0 =>
                             l.slot \notin shared /\ slotOf'[l.slot] = b
    BY <1>1 DEF InPlace
  <2>2. \A b \in Addr : isAt'[b] = l.of /\ l.of # 0 => isAt[b] = l.of
    BY <1>4
  <2> QED BY <1>3, <2>2 DEF InPlace
(* An object that is not doubted stays exactly while it is held.            *)
<1>8. ASSUME NEW b \in Addr \ doubted
      PROVE  /\ isAt'[b] = 0 <=> ref'[b] = 0
             /\ isAt'[b] # 0 => ref'[b] = Holders(b)' /\ isAt'[b] = isAt[b]
             /\ isAt'[b] = 0 => b \notin runs /\ lost[b] = 0 /\ (isAt[b] # 0 => MakersOf(b) = {})
             /\ isAt'[b] = 0 /\ isAt[b] # 0 => \A l \in tokens' : l.of # isAt[b]
  <2>1. MakersOf(b)' = MakersOf(b) /\ Runs(b)' = Runs(b) /\ lost'[b] = lost[b]
    BY <1>1 DEF MakersOf, Runs
  <2>2. /\ Cardinality(MakersOf(b)) \in Nat /\ Runs(b) \in Nat /\ lost[b] \in Nat
        /\ IsFiniteSet(TokensOf(b)) /\ Cardinality(TokensOf(b)) \in Nat
    BY MakersCount, TokensFinite DEF Runs, HandleTypeOK
  <2>3. CASE sound /\ b = slotOf[k.slot]
    <3>1. /\ isAt[b] = k.of /\ k.of # 0 /\ k \in TokensOf(b) /\ ref[b] = Holders(b) /\ ref[b] > 0 /\ b # NoAddr
      BY <2>3, TokenCounts
    <3>2. ref' = Released(ref, b) /\ ref'[b] = ref[b] - 1 /\ isAt'[b] = IF ref'[b] = 0 THEN 0 ELSE isAt[b]
      BY <1>1, <2>3, <3>1, Releases
    <3>3. /\ Cardinality(TokensOf(b) \ {k}) = Cardinality(TokensOf(b)) - 1
          /\ IsFiniteSet(TokensOf(b) \ {k}) /\ Cardinality(TokensOf(b) \ {k}) \in Nat
      BY <2>2, <3>1, OneLess, FS_CardinalityType
    <3>4. ref'[b] = Cardinality(TokensOf(b) \ {k}) + Cardinality(MakersOf(b)) + lost[b] + Runs(b)
      BY <2>2, <3>1, <3>2, <3>3, HoldersAre
    <3>5. CASE ref'[b] = 0
      <4>1. /\ Cardinality(TokensOf(b) \ {k}) = 0 /\ Cardinality(MakersOf(b)) = 0
            /\ lost[b] = 0 /\ Runs(b) = 0
        <5> DEFINE w == Cardinality(TokensOf(b) \ {k})
                   x == Cardinality(MakersOf(b))
                   z == Runs(b)
        <5>1. w \in Nat /\ x \in Nat /\ lost[b] \in Nat /\ z \in Nat /\ w + x + lost[b] + z = 0
          BY <2>2, <3>3, <3>4, <3>5
        <5> HIDE DEF w, x, z
        <5>2. w = 0 /\ x = 0 /\ lost[b] = 0 /\ z = 0
          BY <5>1, AllNought
        <5> QED BY <5>2 DEF w, x, z
      <4>2. TokensOf(b) \ {k} = {}
        BY <3>3, <4>1, FS_EmptySet
      <4>3. MakersOf(b) = {}
        <5>1. SUFFICES ASSUME NEW c \in Caller, making[c].addr = b PROVE FALSE
          BY DEF MakersOf
        <5>2. MakersOf(b) = {c}
          BY <5>1, MakersCount
        <5>3. Cardinality({c}) = 1
          BY OneCounts
        <5> QED BY <4>1, <5>2, <5>3
      <4> QED BY <1>1, <3>1, <3>2, <3>5, <4>1, <4>2, <4>3 DEF Runs, TokensOf
    <3>6. CASE ref'[b] # 0
      <4>1. TokensOf(b)' = TokensOf(b) \ {k}
        BY <1>1, <3>2, <3>6 DEF TokensOf
      <4> QED BY <2>1, <3>1, <3>2, <3>4, <3>6, <4>1, HoldersAre
    <3> QED BY <3>5, <3>6
  <2>4. CASE sound => b # slotOf[k.slot]
    <3>1. ref'[b] = ref[b] /\ isAt'[b] = isAt[b]
      BY <1>4, <2>4
    <3>2. isAt[b] # 0 => k \notin TokensOf(b)
      BY <2>4 DEF InPlace, TokensOf
    <3>3. isAt[b] # 0 => TokensOf(b)' = TokensOf(b)
      BY <1>1, <3>1, <3>2 DEF TokensOf
    <3>4. isAt[b] # 0 => Holders(b)' = Holders(b)
      BY <2>1, <3>3, HoldersAre
    <3> QED BY <3>1, <3>4 DEF GoneForGood, RefsCounted
  <2> QED BY <2>3, <2>4
<1> HIDE DEF sound
<1>9. OneMaker'
  <2>1. ASSUME NEW c \in Caller, making[c] # Nothing
        PROVE  /\ making[c].addr \notin doubted => isAt'[making[c].addr] # 0
               /\ making[c].slot \notin shared \cup {0} => slotOf'[making[c].slot] = NoAddr
    <3>1. /\ making[c].addr \in Addr
          /\ making[c].addr \notin doubted => isAt[making[c].addr] # 0
          /\ making[c].slot \notin shared \cup {0} => slotOf[making[c].slot] = NoAddr
      BY <2>1 DEF OneMaker
    <3>2. making[c].slot # 0 => making[c].slot \in HandleSlots
      BY DEF HandleTypeOK, HandleSlots
    <3>3. c \in MakersOf(making[c].addr)
      BY DEF MakersOf
    <3> QED BY <1>2, <1>8, <3>1, <3>2, <3>3
  <2> QED BY <1>1, <2>1 DEF OneMaker
<1>10. GoneForGood' /\ RefsCounted'
  <2>1. GoneForGood'
    BY <1>1, <1>8 DEF GoneForGood
  <2>2. RefsCounted'
    BY <1>1, <1>8 DEF RefsCounted
  <2> QED BY <2>1, <2>2
<1>11. TokenNamesItsObject'
  <2>1. SUFFICES ASSUME NEW l \in tokens', l.slot \notin shared, slotOf'[l.slot] \notin doubted
                 PROVE  slotOf'[l.slot] # NoAddr /\ isAt'[slotOf'[l.slot]] = l.of
    BY <1>1 DEF TokenNamesItsObject
  <2>2. slotOf'[l.slot] = slotOf[l.slot] /\ l \in tokens
    BY <1>3, <2>1
  <2>3. slotOf[l.slot] \in Addr \ doubted /\ isAt[slotOf[l.slot]] = l.of /\ l.of # 0
    BY <2>1, <2>2, TokenCounts
  <2>4. slotOf[l.slot] # NoAddr
    BY <2>3
  <2> QED BY <1>8, <2>1, <2>2, <2>3, <2>4
<1> QED BY <1>4, <1>5, <1>6, <1>7, <1>9, <1>10, <1>11

(* A duplicate has a token and a reference of its own, or its source's.     *)
LEMMA DuplicateHandles ==
  ASSUME HandleIInv, NEW k \in tokens, NtDuplicateObject(k) PROVE HandleIInv'
<1> USE DEF HandleIInv
<1>1. PICK a : a = slotOf[k.slot]
  OBVIOUS
<1>2. /\ a \in Addr /\ ref[a] > 0 /\ k.slot \in HandleSlots
      /\ isAt' = isAt /\ runs' = runs /\ making' = making /\ made' = made
  BY <1>1 DEF NtDuplicateObject, HandleTypeOK, Token
<1>3. PICK closeSource \in BOOLEAN, i \in 0 .. HandleMax - 1 :
        /\ FreshSlot(a, i) /\ Found(i) /\ ref' = Counted(a, closeSource)
        /\ Handed(i, a, isAt[a], IF closeSource THEN tokens \ {k} ELSE tokens)
  BY <1>1 DEF NtDuplicateObject
<1>4. PICK kept \in SUBSET tokens : kept = IF closeSource THEN tokens \ {k} ELSE tokens
  OBVIOUS
<1>5. /\ shared \subseteq shared' /\ shared' \subseteq HandleSlots
      /\ i # 0 => slotOf[i] = NoAddr
      /\ \A j \in shared' \ shared : slotOf[j] = NoAddr
      /\ i \notin shared' \cup {0} => \A c \in Caller : making[c].slot # i
  BY <1>3, SlotFound
<1>6. a \notin doubted => isAt[a] # 0
  BY <1>2 DEF GoneForGood
<1>7. /\ slotOf' \in [HandleSlots -> Addr \cup {NoAddr}]
      /\ tokens' \subseteq Token /\ IsFiniteSet(tokens') /\ \A l \in tokens' : l.of <= made
      /\ lost' \in [Addr -> Nat]
      /\ doubted \subseteq doubted' /\ doubted' \subseteq Addr
      /\ i \in shared' => a \in doubted'
      /\ \A j \in HandleSlots : j # i => slotOf'[j] = slotOf[j]
      /\ OneSlotEach' /\ SharedHold' /\ InPlace' /\ TokenNamesItsObject'
      /\ \A b \in Addr : b # a => lost'[b] = lost[b]
      /\ \A b \in Addr \ doubted' : isAt[b] # 0 =>
           Cardinality(TokensOf(b)') + lost'[b]
             = Cardinality({l \in kept : l.of = isAt[b]}) + lost[b] + IF b = a THEN 1 ELSE 0
  <2>1. /\ HandleIInv /\ a \in Addr /\ kept \in SUBSET tokens /\ (a \notin doubted => isAt[a] # 0)
        /\ i \in 0 .. HandleMax - 1 /\ (i \notin shared' \cup {0} => slotOf[i] = NoAddr)
        /\ Handed(i, a, isAt[a], kept) /\ isAt' = isAt /\ made' = made
    BY <1>2, <1>3, <1>4, <1>5, <1>6
  <2> QED BY ONLY <1>5, <2>1, HandedOut
<1>8. /\ ref' \in [Addr -> Nat] /\ \A b \in Addr : b # a => ref'[b] = ref[b]
      /\ ref'[a] = (IF closeSource THEN ref[a] ELSE ref[a] + 1)
  BY <1>2, <1>3 DEF Counted, HandleTypeOK
<1>9. HandleTypeOK'
  BY <1>2, <1>5, <1>7, <1>8 DEF HandleTypeOK
<1>10. OneNumberEach'
  BY <1>2 DEF OneNumberEach
<1>11. OneMaker'
  <2>1. ASSUME NEW c \in Caller, making[c] # Nothing, making[c].slot \notin shared' \cup {0}
        PROVE  slotOf'[making[c].slot] = NoAddr
    <3>1. making[c].slot \in HandleSlots /\ slotOf[making[c].slot] = NoAddr
      BY <1>5, <2>1 DEF OneMaker, HandleTypeOK, HandleSlots
    <3>2. making[c].slot # i
      BY <1>5, <2>1
    <3> QED BY <1>7, <3>1, <3>2
  <2>2. \A c \in Caller : making[c] # Nothing =>
          making[c].addr \in Addr /\ (making[c].addr \notin doubted' => isAt'[making[c].addr] # 0)
    BY <1>2, <1>7 DEF OneMaker
  <2>3. \A c, d \in Caller :
          making[c].slot = making[d].slot /\ making[c].slot \notin shared' \cup {0} => c = d
    BY <1>5 DEF OneMaker
  <2>4. \A c, d \in Caller : making[c].addr = making[d].addr /\ making[c].addr \in Addr \ doubted' => c = d
    BY <1>7 DEF OneMaker
  <2> QED BY <1>2, <2>1, <2>2, <2>3, <2>4 DEF OneMaker
<1>12. GoneForGood'
  <2>1. SUFFICES ASSUME NEW b \in Addr \ doubted'
                 PROVE  /\ isAt[b] = 0 <=> ref'[b] = 0
                        /\ isAt[b] = 0 => b \notin runs /\ lost'[b] = 0
    BY <1>2 DEF GoneForGood
  <2>2. CASE b = a
    BY <1>2, <1>6, <1>7, <1>8, <2>2 DEF HandleTypeOK
  <2>3. CASE b # a
    BY <1>7, <1>8, <2>3 DEF GoneForGood
  <2> QED BY <2>2, <2>3
<1>13. RefsCounted'
  <2>1. SUFFICES ASSUME NEW b \in Addr \ doubted'
                 PROVE  ref'[b] = IF isAt[b] = 0 THEN 0 ELSE Holders(b)'
    BY <1>2 DEF RefsCounted
  <2>2. CASE isAt[b] = 0
    BY <1>12, <1>2, <2>1, <2>2 DEF GoneForGood
  <2>3. CASE isAt[b] # 0
    <3>1. MakersOf(b)' = MakersOf(b) /\ Runs(b)' = Runs(b)
      BY <1>2 DEF MakersOf, Runs
    <3>2. /\ Cardinality(MakersOf(b)) \in Nat /\ Runs(b) \in Nat /\ lost[b] \in Nat /\ lost'[b] \in Nat
          /\ IsFiniteSet(TokensOf(b)) /\ Cardinality(TokensOf(b)) \in Nat
          /\ Cardinality(TokensOf(b)') \in Nat
      BY <1>7, <1>9, MakersCount, TokensFinite DEF Runs, HandleTypeOK
    <3>3. PICK had : had = {l \in kept : l.of = isAt[b]}
      OBVIOUS
    <3>4. Cardinality(TokensOf(b)') + lost'[b] = Cardinality(had) + lost[b] + IF b = a THEN 1 ELSE 0
      BY <1>7, <2>3, <3>3
    <3>5. ref[b] = Holders(b)
      BY <1>7, <2>3 DEF RefsCounted
    <3>6. CASE b = a
      <4>1. k.slot \notin shared /\ a \notin doubted
        BY <1>1, <1>2, <1>7, <3>6 DEF SharedHold
      <4>2. isAt[b] = k.of /\ k \in TokensOf(b)
        BY <1>1, <3>6, <4>1, TokenCounts
      <4>3. CASE closeSource
        <5>1. had = TokensOf(b) \ {k}
          BY <1>4, <3>3, <4>3 DEF TokensOf
        <5>2. Cardinality(had) = Cardinality(TokensOf(b)) - 1
          BY <3>2, <4>2, <5>1, OneLess
        <5> QED BY <1>8, <2>3, <3>1, <3>2, <3>4, <3>5, <3>6, <4>3, <5>2, HoldersAre
      <4>4. CASE ~closeSource
        <5>1. had = TokensOf(b)
          BY <1>4, <3>3, <4>4 DEF TokensOf
        <5> QED BY <1>8, <2>3, <3>1, <3>2, <3>4, <3>5, <3>6, <4>4, <5>1, HoldersAre
      <4> QED BY <4>3, <4>4
    <3>7. CASE b # a
      <4>1. k \notin TokensOf(b)
        BY <1>1, <1>7, <2>3, <3>7 DEF InPlace, TokensOf
      <4>2. had = TokensOf(b)
        BY <1>4, <3>3, <4>1 DEF TokensOf
      <4>3. Holders(b)' = Holders(b)
        BY <3>1, <3>2, <3>4, <3>7, <4>2, HoldersAre
      <4> QED BY <1>8, <2>3, <3>5, <3>7, <4>3
    <3> QED BY <3>6, <3>7
  <2> QED BY <2>2, <2>3
<1> QED BY <1>7, <1>9, <1>10, <1>11, <1>12, <1>13

(* A thread that ends drops its own reference.                              *)
LEMMA EndsHandles ==
  ASSUME HandleIInv, NEW a \in Addr, ThreadEnds(a) PROVE HandleIInv'
<1> USE DEF HandleIInv
<1>1. /\ a \in runs /\ runs' = runs \ {a}
      /\ ref' = Released(ref, a) /\ isAt' = StillAt(ref', isAt)
      /\ UNCHANGED <<slotOf, making, made, tokens, lost, shared, doubted>>
  BY DEF ThreadEnds
<1>2. /\ ref' \in [Addr -> Nat] /\ isAt' \in [Addr -> 0 .. made] /\ OneNumberEach'
      /\ \A b \in Addr : isAt'[b] \in {0, isAt[b]}
      /\ \A b \in Addr \ doubted : b # a => ref'[b] = ref[b] /\ isAt'[b] = isAt[b]
      /\ ref[a] > 0 => ref'[a] = ref[a] - 1 /\ isAt'[a] = IF ref'[a] = 0 THEN 0 ELSE isAt[a]
  BY <1>1, Releases
<1>3. HandleTypeOK'
  BY <1>1, <1>2 DEF HandleTypeOK
<1>4. OneSlotEach' /\ SharedHold'
  BY <1>1 DEF OneSlotEach, SharedHold
<1>5. InPlace'
  <2>1. SUFFICES ASSUME NEW l \in tokens
                 PROVE  /\ l.slot \notin shared => slotOf[l.slot] # NoAddr
                        /\ l.of = 0 => l.slot \in shared \/ slotOf[l.slot] \in doubted
                        /\ \A b \in Addr \ doubted : isAt'[b] = l.of /\ l.of # 0 =>
                             l.slot \notin shared /\ slotOf[l.slot] = b
    BY <1>1 DEF InPlace
  <2>2. \A b \in Addr : isAt'[b] = l.of /\ l.of # 0 => isAt[b] = l.of
    BY <1>2
  <2> QED BY <2>2 DEF InPlace
<1>6. ASSUME NEW b \in Addr \ doubted
      PROVE  /\ isAt'[b] = 0 <=> ref'[b] = 0
             /\ isAt'[b] # 0 => ref'[b] = Holders(b)' /\ isAt'[b] = isAt[b]
             /\ isAt'[b] = 0 => b \notin runs' /\ lost[b] = 0 /\ (isAt[b] # 0 => MakersOf(b) = {})
             /\ isAt'[b] = 0 /\ isAt[b] # 0 => \A l \in tokens : l.of # isAt[b]
  <2>1. MakersOf(b)' = MakersOf(b) /\ lost'[b] = lost[b]
    BY <1>1 DEF MakersOf
  <2>2. /\ Cardinality(MakersOf(b)) \in Nat /\ lost[b] \in Nat
        /\ IsFiniteSet(TokensOf(b)) /\ Cardinality(TokensOf(b)) \in Nat
    BY MakersCount, TokensFinite DEF HandleTypeOK
  <2>3. CASE b = a
    <3>1. isAt[a] # 0 /\ ref[a] > 0 /\ ref[a] = Holders(a)
      BY <1>1, <2>3 DEF GoneForGood, RefsCounted, HandleTypeOK
    <3>2. Runs(a) = 1 /\ Runs(a)' = 0
      BY <1>1 DEF Runs
    <3>3. ref'[a] = ref[a] - 1 /\ isAt'[a] = IF ref'[a] = 0 THEN 0 ELSE isAt[a]
      BY <1>2, <3>1
    <3>4. ref'[a] = Cardinality(TokensOf(a)) + Cardinality(MakersOf(a)) + lost[a]
      BY <2>2, <2>3, <3>1, <3>2, <3>3, HoldersAre
    <3>5. CASE ref'[a] = 0
      <4>1. Cardinality(TokensOf(a)) = 0 /\ Cardinality(MakersOf(a)) = 0 /\ lost[a] = 0
        <5> DEFINE w == Cardinality(TokensOf(a))
                   x == Cardinality(MakersOf(a))
                   y == lost[a]
                   z == 0
        <5>1. w \in Nat /\ x \in Nat /\ y \in Nat /\ z \in Nat /\ w + x + y + z = 0
          BY <2>2, <2>3, <3>4, <3>5
        <5> HIDE DEF w, x, y, z
        <5>2. w = 0 /\ x = 0 /\ y = 0
          BY <5>1, AllNought
        <5> QED BY <5>2 DEF w, x, y
      <4>2. TokensOf(a) = {}
        BY <2>2, <2>3, <4>1, FS_EmptySet
      <4>3. MakersOf(a) = {}
        <5>1. SUFFICES ASSUME NEW c \in Caller, making[c].addr = a PROVE FALSE
          BY DEF MakersOf
        <5>2. MakersOf(a) = {c}
          BY <2>3, <5>1, MakersCount
        <5>3. Cardinality({c}) = 1
          BY OneCounts
        <5> QED BY <4>1, <5>2, <5>3
      <4> QED BY <1>1, <2>3, <3>3, <3>5, <4>1, <4>2, <4>3 DEF TokensOf
    <3>6. CASE ref'[a] # 0
      <4>1. TokensOf(a)' = TokensOf(a)
        BY <1>1, <3>3, <3>6 DEF TokensOf
      <4> QED BY <2>1, <2>2, <2>3, <3>1, <3>2, <3>3, <3>4, <3>6, <4>1, HoldersAre
    <3> QED BY <3>5, <3>6
  <2>4. CASE b # a
    <3>1. ref'[b] = ref[b] /\ isAt'[b] = isAt[b]
      BY <1>2, <2>4
    <3>2. TokensOf(b)' = TokensOf(b) /\ Runs(b)' = Runs(b) /\ (b \in runs' <=> b \in runs)
      BY <1>1, <2>4, <3>1 DEF TokensOf, Runs
    <3>3. Holders(b)' = Holders(b)
      BY <2>1, <3>2, HoldersAre
    <3> QED BY <3>1, <3>2, <3>3 DEF GoneForGood, RefsCounted
  <2> QED BY <2>3, <2>4
<1>7. OneMaker'
  <2>1. ASSUME NEW c \in Caller, making[c] # Nothing, making[c].addr \notin doubted
        PROVE  isAt'[making[c].addr] # 0
    <3>1. making[c].addr \in Addr /\ isAt[making[c].addr] # 0
      BY <2>1 DEF OneMaker
    <3>2. c \in MakersOf(making[c].addr)
      BY DEF MakersOf
    <3> QED BY <1>6, <2>1, <3>1, <3>2
  <2> QED BY <1>1, <2>1 DEF OneMaker
<1>8. GoneForGood' /\ RefsCounted'
  <2>1. GoneForGood'
    BY <1>1, <1>6 DEF GoneForGood
  <2>2. RefsCounted'
    BY <1>1, <1>6 DEF RefsCounted
  <2> QED BY <2>1, <2>2
<1>9. TokenNamesItsObject'
  <2>1. SUFFICES ASSUME NEW l \in tokens, l.slot \notin shared, slotOf[l.slot] \notin doubted
                 PROVE  slotOf[l.slot] # NoAddr /\ isAt'[slotOf[l.slot]] = l.of
    BY <1>1 DEF TokenNamesItsObject
  <2>2. slotOf[l.slot] \in Addr \ doubted /\ isAt[slotOf[l.slot]] = l.of /\ l.of # 0
    BY <2>1, TokenCounts
  <2>3. slotOf[l.slot] # NoAddr
    BY <2>2
  <2> QED BY <1>6, <2>2, <2>3
<1> QED BY <1>2, <1>3, <1>4, <1>5, <1>7, <1>8, <1>9

LEMMA NextHandles == HandleIInv /\ [HandleNext]_handleVars => HandleIInv'
<1> SUFFICES ASSUME HandleIInv, [HandleNext]_handleVars PROVE HandleIInv'
  OBVIOUS
<1>1. CASE HandleNext
  BY <1>1, CreateHandles, StoreHandles, DuplicateHandles, CloseHandles, EndsHandles DEF HandleNext
<1>2. CASE UNCHANGED handleVars
  <2> USE <1>2 DEF handleVars
  <2>1. HandleTypeOK'
    BY DEF HandleIInv, HandleTypeOK
  <2>2. OneNumberEach' /\ OneSlotEach' /\ SharedHold' /\ InPlace'
    BY DEF HandleIInv, OneNumberEach, OneSlotEach, SharedHold, InPlace
  <2>3. OneMaker' /\ GoneForGood' /\ TokenNamesItsObject'
    BY DEF HandleIInv, OneMaker, GoneForGood, TokenNamesItsObject
  <2>4. RefsCounted'
    BY DEF HandleIInv, RefsCounted, Holders
  <2> QED BY <2>1, <2>2, <2>3, <2>4 DEF HandleIInv
<1> QED BY <1>1, <1>2

(* The handles' invariant holds whatever calls race: the slots two calls    *)
(* found, and the addresses ever stored there, are set apart, and nothing   *)
(* of theirs reaches the others.                                            *)
THEOREM HandleIInvHolds == HandleSpec => []HandleIInv
<1>1. HandleInit => HandleIInv
  BY InitHandles
<1>2. HandleIInv /\ [HandleNext]_handleVars => HandleIInv'
  BY NextHandles
<1> QED BY <1>1, <1>2, PTL DEF HandleSpec

(* A token names the object it was made for, but where two calls took one   *)
(* slot (bridge_handle_token).                                              *)
THEOREM TokensKeepTheirObject == HandleSpec => []TokenNamesItsObject
<1>1. HandleIInv => TokenNamesItsObject
  BY DEF HandleIInv
<1> QED BY <1>1, HandleIInvHolds, PTL

(* An object's references are its holders, but for what such a slot held    *)
(* (obj_release).                                                           *)
THEOREM RefsAreHolders == HandleSpec => []RefsCounted
<1>1. HandleIInv => RefsCounted
  BY DEF HandleIInv
<1> QED BY <1>1, HandleIInvHolds, PTL


HIDE HandleAssumption

-----------------------------------------------------------------------------
(* FileApc.                                                                 *)

USE ApcAssumption

Request == 1 .. Len(request)
Place == {"status", "event", "apc", "return", "drain", "block", "inline", "queued"}
Call == [kind : {"io", "wait", "apc"}, of : Nat, at : Place]
Told == Ran \cup ToSet(ring)

ApcTypeOK ==
  /\ calls \in Seq(Call)
  /\ request \in Seq([event : BOOLEAN, apc : BOOLEAN])
  /\ ring \in Seq(Request) /\ ran \in Seq(Request)
  /\ status \subseteq Request /\ event \subseteq Request /\ returned \subseteq Request

(* How far the completion of a request whose call is open has come.         *)
Stage(r, at) ==
  /\ at \in {"status", "event", "apc", "return"}
  /\ r \in status <=> at # "status"
  /\ r \in event <=> at \in {"apc", "return"} /\ request[r].event
  /\ r \in Told <=> at = "return" /\ request[r].apc
  /\ at = "apc" => request[r].apc

(* A call that has guest code under it has nothing left to do but return,   *)
(* and its APC is not in the ring.                                          *)
Open(k) ==
  calls[k].kind = "io" =>
    /\ calls[k].of \in Request \ returned /\ Stage(calls[k].of, calls[k].at)
    /\ calls[k].at # "return" => k = Len(calls) /\ calls[k].of = Len(request)
    /\ calls[k].of \in ToSet(ring) => k = Len(calls)
    /\ \A j \in DOMAIN calls : calls[j].kind = "io" /\ calls[j].of = calls[k].of => j = k

(* A wait sleeps with nothing in the ring; a queued APC's call is over.     *)
Parked(k) ==
  /\ calls[k].kind = "wait" /\ calls[k].at = "block" => k = Len(calls) /\ ring = <<>>
  /\ calls[k].kind = "apc" /\ calls[k].at = "queued" => calls[k].of \in returned

RingSorted ==
  /\ \A i, j \in DOMAIN ring : i < j => ring[i] < ring[j]
  /\ \A r \in ToSet(ring) :
       r \in returned \/ (calls # <<>> /\ Inner.kind = "io" /\ Inner.of = r)

ApcIInv ==
  /\ ApcTypeOK /\ ApcOnce /\ ToldAfterStatus /\ RingSorted
  /\ \A k \in DOMAIN calls : Open(k) /\ Parked(k)

(* What pushing, popping and taking the head do to a sequence.              *)
LEMMA Pushed ==
  ASSUME NEW S, NEW s \in Seq(S), NEW x \in S, NEW t, t = Append(s, x)
  PROVE  /\ t \in Seq(S) /\ Len(t) = Len(s) + 1 /\ t # <<>>
         /\ DOMAIN s = 1 .. Len(s) /\ DOMAIN t = 1 .. Len(s) + 1
         /\ \A i \in 1 .. Len(s) : t[i] = s[i]
         /\ t[Len(s) + 1] = x
         /\ ToSet(t) = ToSet(s) \cup {x}
<1>1. /\ t \in Seq(S) /\ Len(t) = Len(s) + 1 /\ t # <<>>
      /\ \A i \in 1 .. Len(s) : t[i] = s[i]
      /\ t[Len(s) + 1] = x
  BY AppendProperties
<1>2. DOMAIN s = 1 .. Len(s) /\ DOMAIN t = 1 .. Len(s) + 1 /\ Len(s) \in Nat
  BY <1>1, LenProperties
<1>3. ToSet(t) = ToSet(s) \cup {x}
  BY <1>1, <1>2 DEF ToSet
<1> QED BY <1>1, <1>2, <1>3

LEMMA Popped ==
  ASSUME NEW S, NEW s \in Seq(S), s # <<>>, NEW t, t = Front(s)
  PROVE  /\ t \in Seq(S) /\ Len(t) = Len(s) - 1 /\ Len(s) \in Nat \ {0}
         /\ DOMAIN s = 1 .. Len(s) /\ DOMAIN t = 1 .. Len(s) - 1
         /\ \A i \in 1 .. Len(s) - 1 : t[i] = s[i]
<1>1. Len(s) \in Nat \ {0} /\ DOMAIN s = 1 .. Len(s) /\ \A i \in 1 .. Len(s) : s[i] \in S
  BY EmptySeq, LenProperties, ElementOfSeq
<1>2. /\ t \in Seq(S) /\ Len(t) = (IF 1 <= Len(s) - 1 THEN Len(s) - 1 - 1 + 1 ELSE 0)
      /\ \A i \in 1 .. Len(s) - 1 - 1 + 1 : t[i] = s[1 + i - 1]
  BY <1>1, SubSeqProperties DEF Front
<1>3. Len(t) = Len(s) - 1 /\ \A i \in 1 .. Len(s) - 1 : t[i] = s[i]
  <2>1. ASSUME NEW i \in 1 .. Len(s) - 1 PROVE t[i] = s[i]
    <3>1. i \in 1 .. Len(s) - 1 - 1 + 1 /\ 1 + i - 1 = i
      BY <1>1
    <3>2. t[i] = s[1 + i - 1]
      BY <1>2, <3>1
    <3> QED BY <3>1, <3>2
  <2>2. Len(t) = Len(s) - 1
    <3>1. CASE Len(s) = 1
      BY <1>2, <3>1
    <3>2. CASE Len(s) # 1
      <4>1. 1 <= Len(s) - 1 /\ Len(s) - 1 - 1 + 1 = Len(s) - 1
        BY <1>1, <3>2
      <4> QED BY <1>2, <4>1
    <3> QED BY <3>1, <3>2
  <2> QED BY <2>1, <2>2
<1>4. DOMAIN t = 1 .. Len(s) - 1
  BY <1>2, <1>3, LenProperties
<1> QED BY <1>1, <1>2, <1>3, <1>4

LEMMA Tailed ==
  ASSUME NEW S, NEW s \in Seq(S), s # <<>>, NEW t, t = Tail(s)
  PROVE  /\ t \in Seq(S) /\ Len(t) = Len(s) - 1 /\ Len(s) \in Nat \ {0}
         /\ DOMAIN s = 1 .. Len(s) /\ DOMAIN t = 1 .. Len(s) - 1
         /\ \A i \in 1 .. Len(s) - 1 : t[i] = s[i + 1]
         /\ Head(s) = s[1] /\ Head(s) \in S
         /\ ToSet(s) = {Head(s)} \cup ToSet(t)
<1>1. Len(s) \in Nat \ {0} /\ DOMAIN s = 1 .. Len(s)
  BY EmptySeq, LenProperties
<1>2. /\ t \in Seq(S) /\ Len(t) = Len(s) - 1 /\ Head(s) \in S /\ Head(s) = s[1]
      /\ \A i \in 1 .. Len(s) - 1 : t[i] = s[i + 1]
  BY <1>1, HeadTailProperties
<1>3. DOMAIN t = 1 .. Len(s) - 1
  BY <1>2, LenProperties
<1>4. ToSet(s) = {Head(s)} \cup ToSet(t)
  <2>1. \A i \in DOMAIN s : s[i] = Head(s) \/ (i - 1 \in DOMAIN t /\ s[i] = t[i - 1])
    BY <1>1, <1>2, <1>3
  <2>2. \A i \in DOMAIN t : i + 1 \in DOMAIN s /\ t[i] = s[i + 1]
    BY <1>1, <1>2, <1>3
  <2>3. 1 \in DOMAIN s
    BY <1>1
  <2> QED BY <1>2, <2>1, <2>2, <2>3 DEF ToSet
<1> QED BY <1>1, <1>2, <1>3, <1>4

(* Only the innermost call is touched.                                      *)
LEMMA StepIsInner ==
  ASSUME calls \in Seq(Call), calls # <<>>, NEW x \in Place,
         NEW t, t = [calls EXCEPT ![Len(calls)].at = x]
  PROVE  /\ t \in Seq(Call) /\ Len(t) = Len(calls) /\ Len(calls) \in Nat \ {0} /\ t # <<>>
         /\ DOMAIN calls = 1 .. Len(calls) /\ DOMAIN t = 1 .. Len(calls)
         /\ \A i \in 1 .. Len(calls) - 1 : t[i] = calls[i]
         /\ Inner \in Call /\ Inner = calls[Len(calls)]
         /\ t[Len(calls)] \in Call
         /\ t[Len(calls)].kind = Inner.kind /\ t[Len(calls)].of = Inner.of /\ t[Len(calls)].at = x
<1>1. Len(calls) \in Nat \ {0} /\ DOMAIN calls = 1 .. Len(calls) /\ Inner \in Call
  BY EmptySeq, LenProperties, ElementOfSeq DEF Inner
<1> DEFINE e == [Inner EXCEPT !.at = x]
<1>2. e \in Call /\ e.kind = Inner.kind /\ e.of = Inner.of /\ e.at = x
  BY <1>1 DEF Call
<1>3. t = [calls EXCEPT ![Len(calls)] = e]
  BY <1>1 DEF Inner
<1> HIDE DEF e
<1>4. /\ t \in Seq(Call) /\ Len(t) = Len(calls)
      /\ \A i \in 1 .. Len(calls) : t[i] = IF i = Len(calls) THEN e ELSE calls[i]
  BY <1>1, <1>2, <1>3, ExceptSeq
<1>5. DOMAIN t = 1 .. Len(calls) /\ t # <<>>
  BY <1>1, <1>4, LenProperties, EmptySeq
<1> QED BY <1>1, <1>2, <1>4, <1>5 DEF Inner

LEMMA InitApc == ApcInit => ApcIInv
<1> SUFFICES ASSUME ApcInit PROVE ApcIInv
  OBVIOUS
<1>1. ToSet(<<>>) = {} /\ DOMAIN <<>> = {}
  BY DEF ToSet
<1>2. ApcTypeOK
  BY EmptySeq DEF ApcInit, ApcTypeOK
<1> QED BY <1>1, <1>2 DEF ApcInit, ApcIInv, ApcOnce, ToldAfterStatus, RingSorted, Ran, IsInjective

LEMMA IssueApc == ASSUME ApcIInv, Issue PROVE ApcIInv'
<1> USE DEF ApcIInv
<1>1. PICK ev \in BOOLEAN, apc \in BOOLEAN : request' = Append(request, [event |-> ev, apc |-> apc])
  BY DEF Issue
<1> DEFINE q == [event : BOOLEAN, apc : BOOLEAN]
<1>0. PICK n : n = Len(request) + 1
  OBVIOUS
<1>a. PICK c : c = Frame("io", n, "status")
  OBVIOUS
<1>2. /\ request' \in Seq(q) /\ Len(request') = n /\ Len(request) \in Nat
      /\ \A r \in Request : request'[r] = request[r]
      /\ Request' = Request \cup {n} /\ n \notin Request
  <2>1. request \in Seq(q) /\ [event |-> ev, apc |-> apc] \in q
    BY DEF ApcTypeOK
  <2>2. Len(request) \in Nat
    BY <2>1, LenProperties
  <2>3. /\ request' \in Seq(q) /\ Len(request') = n
        /\ \A r \in Request : request'[r] = request[r]
    BY <1>0, <1>1, <2>1, Pushed DEF Request
  <2> QED BY <1>0, <2>2, <2>3 DEF Request
<1>3. c \in Call /\ calls' = Append(calls, c) /\ c.kind = "io" /\ c.of = n /\ c.at = "status"
  <2>1. c \in Call /\ c.kind = "io" /\ c.of = n /\ c.at = "status"
    <3>1. n \in Nat
      BY <1>0, <1>2
    <3>2. c = [kind |-> "io", of |-> n, at |-> "status"]
      BY <1>a DEF Frame
    <3> QED BY <3>1, <3>2 DEF Call, Place
  <2> QED BY <1>2, <1>a, <2>1 DEF Issue
<1> HIDE DEF q
<1>4. /\ calls' \in Seq(Call) /\ Len(calls') = Len(calls) + 1 /\ Len(calls) \in Nat
      /\ DOMAIN calls = 1 .. Len(calls) /\ DOMAIN calls' = 1 .. Len(calls) + 1
      /\ \A i \in 1 .. Len(calls) : calls'[i] = calls[i]
      /\ calls'[Len(calls) + 1] = c
  BY <1>3, Pushed, LenProperties DEF ApcTypeOK
<1>5. UNCHANGED <<ring, status, event, returned, ran>>
  BY DEF Issue
<1>6. ApcTypeOK'
  <2>1. ring \in Seq(Request') /\ ran \in Seq(Request')
    BY <1>2, SeqMonotonic DEF ApcTypeOK
  <2> QED BY <1>2, <1>4, <1>5, <2>1 DEF ApcTypeOK, q
<1>7. /\ \A r \in ToSet(ring) \cup Ran : r \in Request
      /\ n \notin ToSet(ring) /\ n \notin Ran
  BY <1>2, LenProperties, ElementOfSeq DEF ApcTypeOK, ToSet, Ran
<1>8. ApcOnce'
  BY <1>2, <1>5 DEF ApcOnce, ApcTypeOK, Ran
<1>9. ToldAfterStatus'
  BY <1>5 DEF ToldAfterStatus, Ran
<1>10. GuestRuns /\ \A k \in DOMAIN calls : calls[k].kind = "io" => calls[k].at = "return" /\ calls[k].of \notin ToSet(ring)
  <2>1. GuestRuns /\ (Len(calls) > 0 => calls # <<>>)
    BY EmptySeq DEF Issue
  <2>2. ASSUME NEW k \in DOMAIN calls, calls[k].kind = "io" PROVE k # Len(calls)
    BY <1>4, <2>1, <2>2 DEF GuestRuns, Inner
  <2> QED BY <2>1, <2>2 DEF Open, Stage
<1>11. RingSorted'
  <2>1. \A r \in ToSet(ring) : r \in returned
    BY <1>4, <1>10, EmptySeq DEF RingSorted, GuestRuns, Inner
  <2> QED BY <1>5, <2>1 DEF RingSorted
<1>12. ASSUME NEW k \in DOMAIN calls' PROVE (Open(k) /\ Parked(k))'
  <2>1. CASE k = Len(calls) + 1
    <3>1. Stage(n, "status")'
      BY <1>5, <1>7, <1>2 DEF Stage, Told, Ran, ApcTypeOK
    <3>2. n \in Request' \ returned'
      BY <1>2, <1>5 DEF ApcTypeOK
    <3>3. \A j \in DOMAIN calls : calls[j].kind = "io" => calls[j].of # n
      BY <1>2 DEF Open
    <3>4. calls'[k] = c
      BY <1>4, <2>1
    <3>5. \A j \in DOMAIN calls' : calls'[j].kind = "io" /\ calls'[j].of = n => j = k
      BY <1>4, <2>1, <3>3
    <3>6. Open(k)'
      BY <1>2, <1>3, <1>4, <1>5, <1>7, <2>1, <3>1, <3>2, <3>4, <3>5 DEF Open
    <3>7. Parked(k)'
      BY <1>3, <3>4 DEF Parked
    <3> QED BY <3>6, <3>7
  <2>2. CASE k \in DOMAIN calls
    <3>1. calls'[k] = calls[k] /\ Open(k) /\ Parked(k)
      BY <1>4, <2>2
    <3>2. calls[k].kind = "io" => Open(k)'
      <4>1. SUFFICES ASSUME calls[k].kind = "io" PROVE Open(k)'
        OBVIOUS
      <4>2. calls[k].of \in Request /\ calls[k].of \notin returned /\ calls[k].at = "return" /\ calls[k].of \notin ToSet(ring)
        BY <1>10, <2>2, <3>1, <4>1 DEF Open
      <4>3. Stage(calls[k].of, "return")'
        <5>1. Stage(calls[k].of, "return")
          BY <3>1, <4>1, <4>2 DEF Open
        <5> QED BY <1>2, <1>5, <3>1, <4>2, <5>1 DEF Stage, Told, Ran
      <4>4. \A j \in DOMAIN calls' : calls'[j].kind = "io" /\ calls'[j].of = calls[k].of => j = k
        BY <1>2, <1>3, <1>4, <3>1, <4>1, <4>2 DEF Open
      <4> QED BY <1>2, <1>5, <3>1, <4>1, <4>2, <4>3, <4>4 DEF Open
    <3>3. Parked(k)'
      <4>1. calls[k].kind = "wait" => k # Len(calls)
        BY <1>4, <1>10, <2>2, EmptySeq DEF GuestRuns, Inner
      <4> QED BY <1>4, <1>5, <3>1, <4>1 DEF Parked
    <3> QED BY <3>1, <3>2, <3>3 DEF Open
  <2> QED BY <1>4, <2>1, <2>2
<1> QED BY <1>6, <1>8, <1>9, <1>11, <1>12

(* The innermost call, and what the others are waiting for.                 *)
LEMMA InnerIs ==
  ASSUME ApcIInv, calls # <<>>
  PROVE  /\ Len(calls) \in Nat \ {0} /\ DOMAIN calls = 1 .. Len(calls)
         /\ Inner = calls[Len(calls)] /\ Inner \in Call
         /\ Parked(Len(calls)) /\ Open(Len(calls))
         /\ \A k \in DOMAIN calls : k # Len(calls) =>
              /\ Open(k) /\ Parked(k) /\ calls[k] \in Call
              /\ calls[k].kind = "io" =>
                   /\ calls[k].at = "return" /\ calls[k].of \notin ToSet(ring)
                   /\ Inner.kind = "io" => calls[k].of # Inner.of
              /\ calls[k].kind = "wait" => calls[k].at # "block"
<1>1. Len(calls) \in Nat \ {0} /\ DOMAIN calls = 1 .. Len(calls)
  BY EmptySeq, LenProperties DEF ApcIInv, ApcTypeOK
<1>2. \A k \in DOMAIN calls : calls[k] \in Call /\ Open(k) /\ Parked(k)
  BY <1>1, ElementOfSeq DEF ApcIInv, ApcTypeOK
<1>3. Inner = calls[Len(calls)] /\ Inner \in Call /\ Len(calls) \in DOMAIN calls
  BY <1>1, <1>2 DEF Inner
<1>4. ASSUME NEW k \in DOMAIN calls, k # Len(calls)
      PROVE  /\ calls[k].kind = "io" =>
                  /\ calls[k].at = "return" /\ calls[k].of \notin ToSet(ring)
                  /\ Inner.kind = "io" => calls[k].of # Inner.of
             /\ calls[k].kind = "wait" => calls[k].at # "block"
  <2>1. Open(k) /\ Parked(k)
    BY <1>2
  <2>2. calls[k].kind = "wait" => calls[k].at # "block"
    BY <1>4, <2>1 DEF Parked
  <2>3. calls[k].kind = "io" =>
          /\ calls[k].at = "return" /\ calls[k].of \notin ToSet(ring)
          /\ Inner.kind = "io" => calls[k].of # Inner.of
    BY <1>3, <1>4, <2>1 DEF Open
  <2> QED BY <2>2, <2>3
<1> QED BY <1>1, <1>2, <1>3, <1>4

(* Nothing but r is touched.                                                *)
Same(S, T, r) == \A q \in Request : q # r => (q \in S <=> q \in T)

(* A call under the innermost one does not notice the step of that one.     *)
LEMMA OuterKeeps ==
  ASSUME ApcIInv, NEW k \in DOMAIN calls, k # Len(calls), k \in DOMAIN calls', calls'[k] = calls[k],
         NEW r, calls[k].kind = "io" => calls[k].of # r, request' = request,
         Same(returned, returned', r), Same(status, status', r), Same(event, event', r),
         Same(Told, Told', r), ToSet(ring') \subseteq ToSet(ring) \cup {r}, returned \subseteq returned',
         \A j \in DOMAIN calls' : calls'[j].kind = "io" =>
            j \in DOMAIN calls /\ calls[j].kind = "io" /\ calls[j].of = calls'[j].of
  PROVE  Open(k)' /\ Parked(k)'
<1>1. calls # <<>>
  BY EmptySeq, LenProperties DEF ApcIInv, ApcTypeOK
<1>2. /\ Open(k) /\ Parked(k)
      /\ calls[k].kind = "io" => calls[k].at = "return" /\ calls[k].of \notin ToSet(ring)
      /\ calls[k].kind = "wait" => calls[k].at # "block"
  BY <1>1, InnerIs
<1>3. Parked(k)'
  BY <1>2 DEF Parked
<1>4. ASSUME calls[k].kind = "io" PROVE Open(k)'
  <2>1. PICK q : q = calls[k].of
    OBVIOUS
  <2>2. /\ q \in Request /\ q # r /\ q \notin returned /\ Stage(q, "return") /\ calls[k].at = "return"
        /\ q \notin ToSet(ring)
        /\ \A j \in DOMAIN calls : calls[j].kind = "io" /\ calls[j].of = q => j = k
    BY <1>2, <1>4, <2>1 DEF Open
  <2>3. Request' = Request
    BY DEF Request
  <2>4. Stage(q, "return")'
    BY <2>2 DEF Stage, Same
  <2>5. q \in Request' \ returned' /\ q \notin ToSet(ring')
    BY <2>2, <2>3 DEF Same
  <2>6. \A j \in DOMAIN calls' : calls'[j].kind = "io" /\ calls'[j].of = q => j = k
    BY <2>2
  <2> QED BY <2>1, <2>2, <2>4, <2>5, <2>6 DEF Open
<1> QED BY <1>3, <1>4 DEF Open

(* What a file request's own call may rely on.                              *)
LEMMA InnerIo ==
  ASSUME ApcIInv, NEW at, InCall("io", at)
  PROVE  /\ calls # <<>> /\ Inner.kind = "io" /\ Inner.at = at
         /\ Inner.of \in Request /\ Inner.of \notin returned /\ Stage(Inner.of, at)
         /\ at # "return" => Inner.of = Len(request)
         /\ \A k \in DOMAIN calls : k # Len(calls) /\ calls[k].kind = "io" => calls[k].of # Inner.of
         /\ \A t \in ToSet(ring) : t = Inner.of \/ t \in returned
<1>1. calls # <<>> /\ Inner.kind = "io" /\ Inner.at = at
  BY DEF InCall
<1>2. Inner = calls[Len(calls)] /\ Open(Len(calls))
  BY <1>1, InnerIs
<1>3. /\ Inner.of \in Request /\ Inner.of \notin returned /\ Stage(Inner.of, at)
      /\ at # "return" => Inner.of = Len(request)
  BY <1>1, <1>2 DEF Open
<1>4. \A k \in DOMAIN calls : k # Len(calls) /\ calls[k].kind = "io" => calls[k].of # Inner.of
  BY <1>1, InnerIs
<1>5. \A t \in ToSet(ring) : t = Inner.of \/ t \in returned
  BY <1>1 DEF ApcIInv, RingSorted
<1> QED BY <1>1, <1>3, <1>4, <1>5

(* A step within a request's own call that tells of nothing new but r.      *)
LEMMA InnerStep ==
  ASSUME ApcIInv, NEW r, Inner.of = r, NEW at, InCall("io", at), NEW to \in Place, AtStep(to),
         request' = request, returned' = returned, Same(status, status', r), Same(event, event', r),
         Same(Told, Told', r), ToSet(ring') \subseteq ToSet(ring) \cup {r},
         Stage(r, to)', to # "return" => at # "return"
  PROVE  /\ calls' \in Seq(Call)
         /\ \A k \in DOMAIN calls' : (Open(k) /\ Parked(k))'
         /\ calls' # <<>> /\ Inner'.kind = "io" /\ Inner'.of = r
<1>1. /\ calls # <<>> /\ Inner.kind = "io" /\ Inner.at = at
      /\ r \in Request /\ r \notin returned /\ (at # "return" => r = Len(request))
      /\ \A k \in DOMAIN calls : k # Len(calls) /\ calls[k].kind = "io" => calls[k].of # r
  BY InnerIo
<1>2. calls' = [calls EXCEPT ![Len(calls)].at = to] /\ calls \in Seq(Call)
  BY DEF AtStep, ApcIInv, ApcTypeOK
<1>3. PICK n : n = Len(calls)
  OBVIOUS
<1>4. /\ calls' \in Seq(Call) /\ Len(calls') = n /\ n \in Nat \ {0} /\ calls' # <<>>
      /\ DOMAIN calls = 1 .. n /\ DOMAIN calls' = 1 .. n
      /\ \A i \in 1 .. n - 1 : calls'[i] = calls[i]
      /\ Inner = calls[n]
      /\ calls'[n].kind = "io" /\ calls'[n].of = r /\ calls'[n].at = to
  <2>1. /\ calls' \in Seq(Call) /\ Len(calls') = Len(calls) /\ Len(calls) \in Nat \ {0} /\ calls' # <<>>
        /\ DOMAIN calls = 1 .. Len(calls) /\ DOMAIN calls' = 1 .. Len(calls)
        /\ \A i \in 1 .. Len(calls) - 1 : calls'[i] = calls[i]
        /\ Inner = calls[Len(calls)]
        /\ calls'[Len(calls)].kind = Inner.kind /\ calls'[Len(calls)].of = Inner.of
        /\ calls'[Len(calls)].at = to
    BY <1>1, <1>2, StepIsInner
  <2> QED BY <1>1, <1>3, <2>1
<1>5. Inner' = calls'[n]
  BY <1>4 DEF Inner
<1>6. ASSUME NEW k \in DOMAIN calls', k # n PROVE (Open(k) /\ Parked(k))'
  <2>1. k \in DOMAIN calls /\ k # Len(calls) /\ calls'[k] = calls[k]
    BY <1>3, <1>4, <1>6
  <2>2. \A j \in DOMAIN calls' : calls'[j].kind = "io" =>
            j \in DOMAIN calls /\ calls[j].kind = "io" /\ calls[j].of = calls'[j].of
    BY <1>1, <1>4
  <2>3. Same(returned, returned', r) /\ returned \subseteq returned'
    BY DEF Same
  <2> QED BY <1>1, <2>1, <2>2, <2>3, OuterKeeps
<1>7. (Open(n) /\ Parked(n))'
  <2>1. Parked(n)'
    BY <1>4 DEF Parked
  <2>2. \A j \in DOMAIN calls' : calls'[j].kind = "io" /\ calls'[j].of = r => j = n
    BY <1>1, <1>3, <1>4
  <2>3. Request' = Request
    BY DEF Request
  <2> QED BY <1>1, <1>4, <2>1, <2>2, <2>3 DEF Open
<1> QED BY <1>4, <1>5, <1>6, <1>7

LEMMA StatusApc == ASSUME ApcIInv, WriteStatus PROVE ApcIInv'
<1>1. PICK r : r = Inner.of
  OBVIOUS
<1>2. /\ InCall("io", "status") /\ AtStep("event") /\ status' = status \cup {r}
      /\ UNCHANGED <<ring, request, event, returned, ran>>
  BY <1>1 DEF WriteStatus
<1>3. /\ r \in Request /\ r \notin returned /\ Stage(r, "status")
      /\ \A t \in ToSet(ring) : t = r \/ t \in returned
  BY <1>1, <1>2, InnerIo
<1>4. Stage(r, "event")'
  BY <1>2, <1>3 DEF Stage, Told, Ran
<1>5. /\ calls' \in Seq(Call)
      /\ \A k \in DOMAIN calls' : (Open(k) /\ Parked(k))'
      /\ calls' # <<>> /\ Inner'.kind = "io" /\ Inner'.of = r
  BY <1>1, <1>2, <1>4, InnerStep DEF Place, Same, Told, Ran
<1>6. ApcTypeOK'
  BY <1>2, <1>3, <1>5 DEF ApcIInv, ApcTypeOK, Request
<1>7. RingSorted'
  BY <1>2, <1>3, <1>5 DEF ApcIInv, RingSorted
<1> QED BY <1>2, <1>5, <1>6, <1>7 DEF ApcIInv, ApcOnce, ToldAfterStatus, Ran

LEMMA SignalApc == ASSUME ApcIInv, SignalEvent PROVE ApcIInv'
<1>1. PICK r : r = Inner.of
  OBVIOUS
<1>2. /\ InCall("io", "event") /\ AtStep(IF request[r].apc THEN "apc" ELSE "return")
      /\ event' = (IF request[r].event THEN event \cup {r} ELSE event)
      /\ UNCHANGED <<ring, request, status, returned, ran>>
  BY <1>1 DEF SignalEvent
<1>3. /\ r \in Request /\ r \notin returned /\ Stage(r, "event")
      /\ \A t \in ToSet(ring) : t = r \/ t \in returned
  BY <1>1, <1>2, InnerIo
<1>4. PICK to \in {"apc", "return"} : to = IF request[r].apc THEN "apc" ELSE "return"
  OBVIOUS
<1>5. request[r].apc \in BOOLEAN
  <2>1. request \in Seq([event : BOOLEAN, apc : BOOLEAN]) /\ r \in 1 .. Len(request)
    BY <1>3 DEF ApcIInv, ApcTypeOK, Request
  <2>2. request[r] \in [event : BOOLEAN, apc : BOOLEAN]
    BY <2>1, ElementOfSeq
  <2> QED BY <2>2
<1>6. Stage(r, to)'
  BY <1>2, <1>3, <1>4, <1>5 DEF Stage, Told, Ran
<1>7. /\ calls' \in Seq(Call)
      /\ \A k \in DOMAIN calls' : (Open(k) /\ Parked(k))'
      /\ calls' # <<>> /\ Inner'.kind = "io" /\ Inner'.of = r
  <2>1. to \in Place
    BY <1>4 DEF Place
  <2> QED BY <1>1, <1>2, <1>4, <1>6, <2>1, InnerStep DEF Same, Told, Ran
<1>8. ApcTypeOK'
  BY <1>2, <1>3, <1>7 DEF ApcIInv, ApcTypeOK, Request
<1>9. RingSorted'
  BY <1>2, <1>3, <1>7 DEF ApcIInv, RingSorted
<1>10. ApcOnce' /\ ToldAfterStatus'
  <2>1. r \in status
    BY <1>3 DEF Stage
  <2> QED BY <1>2, <1>3, <2>1 DEF ApcIInv, ApcOnce, ToldAfterStatus, Ran
<1> QED BY <1>7, <1>8, <1>9, <1>10 DEF ApcIInv

LEMMA QueueApcApc == ASSUME ApcIInv, QueueApc PROVE ApcIInv'
<1>1. PICK r : r = Inner.of
  OBVIOUS
<1>2. /\ InCall("io", "apc") /\ UNCHANGED <<request, status, event, returned>>
  BY DEF QueueApc
<1>3. /\ r \in Request /\ r \notin returned /\ Stage(r, "apc") /\ calls # <<>> /\ Inner.kind = "io"
      /\ r = Len(request)
      /\ \A t \in ToSet(ring) : t = r \/ t \in returned
      /\ \A k \in DOMAIN calls : k # Len(calls) /\ calls[k].kind = "io" => calls[k].of # r
  BY <1>1, <1>2, InnerIo
<1>4. /\ r \in status /\ r \notin Ran /\ r \notin ToSet(ring) /\ (r \in event <=> request[r].event)
      /\ request[r].apc
  BY <1>3 DEF Stage, Told
<1>5. /\ ring \in Seq(Request) /\ ran \in Seq(Request) /\ Request' = Request
      /\ ApcOnce /\ ToldAfterStatus /\ RingSorted /\ ApcTypeOK
  BY <1>2 DEF ApcIInv, ApcTypeOK, Request
<1>6. CASE Len(ring) < ApcRing
  <2>1. ring' = Append(ring, r) /\ ran' = ran /\ AtStep("return")
    BY <1>1, <1>6 DEF QueueApc
  <2>2. /\ ring' \in Seq(Request) /\ ToSet(ring') = ToSet(ring) \cup {r}
        /\ DOMAIN ring = 1 .. Len(ring) /\ DOMAIN ring' = 1 .. Len(ring) + 1 /\ Len(ring) \in Nat
        /\ \A i \in 1 .. Len(ring) : ring'[i] = ring[i] /\ ring'[i] \in ToSet(ring)
        /\ ring'[Len(ring) + 1] = r
    <3>1. /\ ring' \in Seq(Request) /\ ToSet(ring') = ToSet(ring) \cup {r}
          /\ DOMAIN ring = 1 .. Len(ring) /\ DOMAIN ring' = 1 .. Len(ring) + 1
          /\ \A i \in 1 .. Len(ring) : ring'[i] = ring[i]
          /\ ring'[Len(ring) + 1] = r
      <4>1. ring \in Seq(Request) /\ r \in Request /\ ring' = Append(ring, r)
        BY <1>3, <1>5, <2>1
      <4>2. ring' \in Seq(Request)
        BY <4>1, Pushed
      <4>3. /\ DOMAIN ring = 1 .. Len(ring) /\ DOMAIN ring' = 1 .. Len(ring) + 1
            /\ \A i \in 1 .. Len(ring) : ring'[i] = ring[i]
        BY <4>1, Pushed
      <4>4. ring'[Len(ring) + 1] = r
        BY <4>1, Pushed
      <4>5. Len(ring) \in Nat
        BY <1>5, LenProperties
      <4>6. ToSet(ring') = ToSet(ring) \cup {r}
        BY <4>3, <4>4, <4>5 DEF ToSet
      <4> QED BY <4>2, <4>3, <4>4, <4>6
    <3>2. Len(ring) \in Nat
      BY <1>5, LenProperties
    <3>3. \A i \in 1 .. Len(ring) : ring[i] \in ToSet(ring)
      BY <3>1 DEF ToSet
    <3> QED BY <3>1, <3>2, <3>3
  <2>3. Told' = Told \cup {r}
    BY <2>1, <2>2 DEF Told, Ran
  <2>4. Stage(r, "return")'
    BY <1>2, <1>4, <2>3 DEF Stage
  <2>5. /\ calls' \in Seq(Call)
        /\ \A k \in DOMAIN calls' : (Open(k) /\ Parked(k))'
        /\ calls' # <<>> /\ Inner'.kind = "io" /\ Inner'.of = r
    BY <1>1, <1>2, <2>1, <2>2, <2>3, <2>4, InnerStep DEF Place, Same
  <2>6. \A i \in 1 .. Len(ring) : ring[i] < r
    <3>1. \A i \in 1 .. Len(ring) : ring[i] \in Request /\ ring[i] # r
      BY <1>4, <1>5, <2>2, ElementOfSeq
    <3>2. Len(request) \in Nat
      BY <1>3 DEF Request
    <3> QED BY <1>3, <3>1, <3>2 DEF Request
  <2>7. \A i, j \in DOMAIN ring' : i < j => ring'[i] < ring'[j]
    BY <1>5, <2>2, <2>6 DEF RingSorted
  <2>8. RingSorted'
    BY <1>2, <1>3, <2>2, <2>5, <2>7 DEF RingSorted
  <2>9. ApcOnce'
    <3>1. IsInjective(ring')
      BY <1>4, <1>5, <2>2 DEF ApcOnce, IsInjective
    <3>2. Ran' \cap ToSet(ring') = {}
      BY <1>4, <1>5, <2>1, <2>2 DEF ApcOnce, Ran
    <3>3. \A t \in returned : request[t].apc <=> t \in Ran \cup ToSet(ring')
      BY <1>3, <1>5, <2>2 DEF ApcOnce
    <3> QED BY <1>2, <1>5, <2>1, <3>1, <3>2, <3>3 DEF ApcOnce, Ran
  <2>10. ToldAfterStatus'
    BY <1>2, <1>4, <1>5, <2>1, <2>2 DEF ToldAfterStatus, Ran
  <2>11. ApcTypeOK'
    BY <1>2, <1>5, <2>1, <2>2, <2>5 DEF ApcTypeOK
  <2> QED BY <2>5, <2>8, <2>9, <2>10, <2>11 DEF ApcIInv
<1>7. CASE ~(Len(ring) < ApcRing)
  <2>a. PICK c : c = Frame("apc", r, "inline")
    OBVIOUS
  <2>1. PICK t : t = [calls EXCEPT ![Len(calls)].at = "return"]
    OBVIOUS
  <2>2. calls' = Append(t, c) /\ ran' = Append(ran, r) /\ ring' = ring
    BY <1>1, <1>7, <2>a, <2>1 DEF QueueApc
  <2>3. PICK n : n = Len(calls)
    OBVIOUS
  <2>4. c \in Call /\ c.kind = "apc" /\ c.at = "inline"
    <3>1. r \in Nat /\ c = [kind |-> "apc", of |-> r, at |-> "inline"]
      BY <1>3, <2>a DEF Frame, Request
    <3> QED BY <3>1 DEF Call, Place
  <2>5. /\ t \in Seq(Call) /\ Len(t) = n /\ n \in Nat \ {0} /\ DOMAIN calls = 1 .. n /\ DOMAIN t = 1 .. n
        /\ \A i \in 1 .. n - 1 : t[i] = calls[i]
        /\ Inner = calls[n]
        /\ t[n].kind = "io" /\ t[n].of = r /\ t[n].at = "return"
    <3>1. calls \in Seq(Call) /\ "return" \in Place
      BY <1>5 DEF ApcTypeOK, Place
    <3>2. /\ t \in Seq(Call) /\ Len(t) = Len(calls) /\ Len(calls) \in Nat \ {0}
          /\ DOMAIN calls = 1 .. Len(calls) /\ DOMAIN t = 1 .. Len(calls)
          /\ \A i \in 1 .. Len(calls) - 1 : t[i] = calls[i]
          /\ Inner = calls[Len(calls)]
          /\ t[Len(calls)].kind = Inner.kind /\ t[Len(calls)].of = Inner.of /\ t[Len(calls)].at = "return"
      BY <1>3, <2>1, <3>1, StepIsInner
    <3> QED BY <1>1, <1>3, <2>3, <3>2
  <2>6. /\ calls' \in Seq(Call) /\ calls' # <<>> /\ Len(calls') = n + 1 /\ DOMAIN calls' = 1 .. n + 1
        /\ \A i \in 1 .. n - 1 : calls'[i] = calls[i]
        /\ calls'[n].kind = "io" /\ calls'[n].of = r /\ calls'[n].at = "return"
        /\ calls'[n + 1] = c
    <3>1. /\ calls' \in Seq(Call) /\ Len(calls') = Len(t) + 1 /\ calls' # <<>>
          /\ DOMAIN calls' = 1 .. Len(t) + 1
          /\ \A i \in 1 .. Len(t) : calls'[i] = t[i]
          /\ calls'[Len(t) + 1] = c
      BY <2>2, <2>4, <2>5, Pushed
    <3>2. \A i \in 1 .. n : calls'[i] = t[i]
      BY <2>5, <3>1
    <3> QED BY <2>5, <3>1, <3>2
  <2>7. /\ ran' \in Seq(Request) /\ ToSet(ran') = ToSet(ran) \cup {r}
        /\ DOMAIN ran = 1 .. Len(ran) /\ DOMAIN ran' = 1 .. Len(ran) + 1 /\ Len(ran) \in Nat
        /\ \A i \in 1 .. Len(ran) : ran'[i] = ran[i] /\ ran'[i] \in ToSet(ran)
        /\ ran'[Len(ran) + 1] = r
    BY <1>3, <1>5, <2>2, Pushed, LenProperties DEF ToSet
  <2>8. Told' = Told \cup {r}
    BY <2>2, <2>7 DEF Told, Ran
  <2>9. ASSUME NEW k \in DOMAIN calls', k # n, k # n + 1 PROVE (Open(k) /\ Parked(k))'
    <3>1. k \in DOMAIN calls /\ k # Len(calls) /\ calls'[k] = calls[k]
      BY <2>3, <2>5, <2>6, <2>9
    <3>2. \A j \in DOMAIN calls' : calls'[j].kind = "io" =>
              j \in DOMAIN calls /\ calls[j].kind = "io" /\ calls[j].of = calls'[j].of
      <4>1. ASSUME NEW j \in DOMAIN calls', calls'[j].kind = "io"
            PROVE  j \in DOMAIN calls /\ calls[j].kind = "io" /\ calls[j].of = calls'[j].of
        <5>1. j # n + 1 /\ (j = n \/ j \in 1 .. n - 1) /\ j \in DOMAIN calls
          BY <2>4, <2>5, <2>6, <4>1
        <5>2. calls[n].kind = "io" /\ calls[n].of = r
          BY <1>1, <1>3, <2>5
        <5> QED BY <2>6, <4>1, <5>1, <5>2
      <4> QED BY <4>1
    <3>3. Same(returned, returned', r) /\ Same(status, status', r) /\ Same(event, event', r) /\ Same(Told, Told', r)
      BY <1>2, <2>8 DEF Same
    <3> QED BY <1>2, <1>3, <2>2, <3>1, <3>2, <3>3, OuterKeeps
  <2>10. (Open(n) /\ Parked(n))'
    <3>1. Stage(r, "return")'
      BY <1>2, <1>4, <2>8 DEF Stage
    <3>2. \A j \in DOMAIN calls' : calls'[j].kind = "io" /\ calls'[j].of = r => j = n
      BY <1>3, <2>3, <2>4, <2>5, <2>6
    <3>3. Open(n)'
      BY <1>2, <1>3, <1>4, <1>5, <2>2, <2>6, <3>1, <3>2 DEF Open
    <3>4. Parked(n)'
      BY <2>6 DEF Parked
    <3> QED BY <3>3, <3>4
  <2>11. (Open(n + 1) /\ Parked(n + 1))'
    BY <2>4, <2>6 DEF Open, Parked
  <2>12. \A k \in DOMAIN calls' : (Open(k) /\ Parked(k))'
    BY <2>9, <2>10, <2>11
  <2>13. RingSorted'
    <3>1. \A q \in ToSet(ring) : q \in returned
      BY <1>3, <1>4
    <3> QED BY <1>2, <1>5, <2>2, <3>1 DEF RingSorted
  <2>14. ApcOnce'
    <3>1. IsInjective(ran')
      BY <1>4, <1>5, <2>7 DEF ApcOnce, IsInjective, Ran
    <3>2. Ran' = Ran \cup {r}
      BY <2>7 DEF Ran
    <3>3. \A q \in returned : request[q].apc <=> q \in Ran' \cup ToSet(ring)
      BY <1>3, <1>5, <3>2 DEF ApcOnce
    <3> QED BY <1>2, <1>4, <1>5, <2>2, <3>1, <3>2, <3>3 DEF ApcOnce
  <2>15. ToldAfterStatus'
    BY <1>2, <1>4, <1>5, <2>2, <2>7 DEF ToldAfterStatus, Ran
  <2>16. ApcTypeOK'
    BY <1>2, <1>5, <2>2, <2>6, <2>7 DEF ApcTypeOK
  <2> QED BY <2>12, <2>13, <2>14, <2>15, <2>16 DEF ApcIInv
<1> QED BY <1>6, <1>7

LEMMA ReturnsApc == ASSUME ApcIInv, IoReturns PROVE ApcIInv'
<1>1. PICK r : r = Inner.of
  OBVIOUS
<1>2. /\ InCall("io", "return") /\ returned' = returned \cup {r} /\ calls' = Front(calls)
      /\ UNCHANGED <<ring, request, status, event, ran>>
  BY <1>1 DEF IoReturns
<1>3. /\ r \in Request /\ r \notin returned /\ Stage(r, "return") /\ calls # <<>> /\ Inner.kind = "io"
      /\ \A t \in ToSet(ring) : t = r \/ t \in returned
      /\ \A k \in DOMAIN calls : k # Len(calls) /\ calls[k].kind = "io" => calls[k].of # r
  BY <1>1, <1>2, InnerIo
<1>4. /\ Request' = Request /\ ApcOnce /\ ToldAfterStatus /\ RingSorted /\ ApcTypeOK
  BY <1>2 DEF ApcIInv, Request
<1>5. /\ calls' \in Seq(Call)
      /\ DOMAIN calls = 1 .. Len(calls) /\ DOMAIN calls' = 1 .. Len(calls) - 1 /\ Len(calls) \in Nat
      /\ \A i \in 1 .. Len(calls) - 1 : calls'[i] = calls[i]
  BY <1>2, <1>3, <1>4, Popped DEF ApcTypeOK
<1>6. ASSUME NEW k \in DOMAIN calls' PROVE (Open(k) /\ Parked(k))'
  <2>1. k \in DOMAIN calls /\ k # Len(calls) /\ calls'[k] = calls[k]
    BY <1>5
  <2>2. \A j \in DOMAIN calls' : calls'[j].kind = "io" =>
            j \in DOMAIN calls /\ calls[j].kind = "io" /\ calls[j].of = calls'[j].of
    BY <1>5
  <2>3. /\ Same(returned, returned', r) /\ Same(status, status', r) /\ Same(event, event', r)
        /\ Same(Told, Told', r) /\ returned \subseteq returned'
        /\ ToSet(ring') \subseteq ToSet(ring) \cup {r}
    BY <1>2 DEF Same, Told, Ran
  <2>4. calls[k].kind = "io" => calls[k].of # r
    BY <1>3, <2>1
  <2> QED BY <1>2, <2>1, <2>2, <2>3, <2>4, OuterKeeps
<1>7. RingSorted'
  <2>1. \A t \in ToSet(ring) : t \in returned'
    BY <1>2, <1>3
  <2> QED BY <1>2, <1>4, <2>1 DEF RingSorted
<1>8. ApcOnce'
  <2>1. (r \in event <=> request[r].event) /\ (r \in Ran \cup ToSet(ring) <=> request[r].apc)
    BY <1>3 DEF Stage, Told
  <2> QED BY <1>2, <1>4, <2>1 DEF ApcOnce, Ran
<1>9. ToldAfterStatus' /\ ApcTypeOK'
  BY <1>2, <1>3, <1>4, <1>5 DEF ToldAfterStatus, ApcTypeOK, Ran
<1> QED BY <1>6, <1>7, <1>8, <1>9 DEF ApcIInv

(* A step that tells nothing: the calls under the innermost stay as they    *)
(* are, and nobody's call has returned.                                     *)
LEMMA TellsNothing ==
  ASSUME ApcIInv, UNCHANGED <<ring, request, status, event, returned, ran>>, calls' \in Seq(Call),
         \A t \in ToSet(ring) : t \in returned,
         \A k \in DOMAIN calls' : (Open(k) /\ Parked(k))'
  PROVE  ApcIInv'
BY DEF ApcIInv, ApcTypeOK, ApcOnce, ToldAfterStatus, RingSorted, Request, Ran

(* What the routine of an APC, or a wait, may rely on.                      *)
LEMMA NotInIo ==
  ASSUME ApcIInv, calls = <<>> \/ Inner.kind # "io"
  PROVE  \A t \in ToSet(ring) : t \in returned
BY DEF ApcIInv, RingSorted

(* A call that is not a request's returns.                                  *)
LEMMA PopsApc ==
  ASSUME ApcIInv, calls # <<>>, Inner.kind # "io", calls' = Front(calls),
         UNCHANGED <<ring, request, status, event, returned, ran>>
  PROVE  ApcIInv'
<1>1. /\ calls' \in Seq(Call)
      /\ DOMAIN calls = 1 .. Len(calls) /\ DOMAIN calls' = 1 .. Len(calls) - 1 /\ Len(calls) \in Nat
      /\ \A i \in 1 .. Len(calls) - 1 : calls'[i] = calls[i]
  BY Popped DEF ApcIInv, ApcTypeOK
<1>2. PICK r : r = 0
  OBVIOUS
<1>3. r \notin Request
  BY <1>2, LenProperties DEF Request
<1>4. ASSUME NEW k \in DOMAIN calls' PROVE (Open(k) /\ Parked(k))'
  <2>1. k \in DOMAIN calls /\ k # Len(calls) /\ calls'[k] = calls[k]
    BY <1>1
  <2>2. \A j \in DOMAIN calls' : calls'[j].kind = "io" =>
            j \in DOMAIN calls /\ calls[j].kind = "io" /\ calls[j].of = calls'[j].of
    BY <1>1
  <2>3. /\ Same(returned, returned', r) /\ Same(status, status', r) /\ Same(event, event', r)
        /\ Same(Told, Told', r) /\ returned \subseteq returned'
        /\ ToSet(ring') \subseteq ToSet(ring) \cup {r}
    BY DEF Same, Told, Ran
  <2>4. calls[k].kind = "io" => calls[k].of # r
    BY <1>3, <2>1 DEF ApcIInv, Open
  <2> QED BY <2>1, <2>2, <2>3, <2>4, OuterKeeps
<1> QED BY <1>1, <1>4, NotInIo, TellsNothing

(* A call that is not a request's takes one step, or starts another above   *)
(* it.                                                                      *)
LEMMA WaitStep ==
  ASSUME ApcIInv, calls # <<>>, Inner.kind = "wait", NEW to \in Place, AtStep(to),
         to = "block" => ring = <<>>,
         UNCHANGED <<ring, request, status, event, returned, ran>>
  PROVE  ApcIInv'
<1>1. PICK n : n = Len(calls)
  OBVIOUS
<1>2. /\ calls' \in Seq(Call) /\ Len(calls') = n /\ n \in Nat \ {0}
      /\ DOMAIN calls = 1 .. n /\ DOMAIN calls' = 1 .. n
      /\ \A i \in 1 .. n - 1 : calls'[i] = calls[i]
      /\ calls'[n].kind = "wait" /\ calls'[n].at = to
  <2>1. calls \in Seq(Call) /\ calls' = [calls EXCEPT ![Len(calls)].at = to]
    BY DEF AtStep, ApcIInv, ApcTypeOK
  <2>2. /\ calls' \in Seq(Call) /\ Len(calls') = Len(calls) /\ Len(calls) \in Nat \ {0}
        /\ DOMAIN calls = 1 .. Len(calls) /\ DOMAIN calls' = 1 .. Len(calls)
        /\ \A i \in 1 .. Len(calls) - 1 : calls'[i] = calls[i]
        /\ calls'[Len(calls)].kind = Inner.kind /\ calls'[Len(calls)].at = to
    BY <2>1, StepIsInner
  <2> QED BY <1>1, <2>2
<1>3. PICK r : r = 0
  OBVIOUS
<1>4. r \notin Request
  BY <1>3, LenProperties DEF Request
<1>5. ASSUME NEW k \in DOMAIN calls', k # n PROVE (Open(k) /\ Parked(k))'
  <2>1. k \in DOMAIN calls /\ k # Len(calls) /\ calls'[k] = calls[k]
    BY <1>1, <1>2, <1>5
  <2>2. \A j \in DOMAIN calls' : calls'[j].kind = "io" =>
            j \in DOMAIN calls /\ calls[j].kind = "io" /\ calls[j].of = calls'[j].of
    BY <1>2
  <2>3. /\ Same(returned, returned', r) /\ Same(status, status', r) /\ Same(event, event', r)
        /\ Same(Told, Told', r) /\ returned \subseteq returned'
        /\ ToSet(ring') \subseteq ToSet(ring) \cup {r}
    BY DEF Same, Told, Ran
  <2>4. calls[k].kind = "io" => calls[k].of # r
    BY <1>4, <2>1 DEF ApcIInv, Open
  <2> QED BY <2>1, <2>2, <2>3, <2>4, OuterKeeps
<1>6. (Open(n) /\ Parked(n))'
  BY <1>2 DEF Open, Parked
<1> QED BY <1>2, <1>5, <1>6, NotInIo, TellsNothing

LEMMA WaitsApc == ASSUME ApcIInv, AlertableWait PROVE ApcIInv'
<1>1. PICK c : c = Frame("wait", 0, "drain")
  OBVIOUS
<1>2. c \in Call /\ c.kind = "wait" /\ c.at = "drain"
  BY <1>1 DEF Frame, Call, Place
<1>3. /\ calls' = Append(calls, c) /\ GuestRuns
      /\ UNCHANGED <<ring, request, status, event, returned, ran>>
  BY <1>1 DEF AlertableWait
<1>4. PICK n : n = Len(calls)
  OBVIOUS
<1>5. calls \in Seq(Call)
  BY DEF ApcIInv, ApcTypeOK
<1>6. /\ calls' \in Seq(Call) /\ Len(calls') = n + 1 /\ n \in Nat
      /\ DOMAIN calls = 1 .. n /\ DOMAIN calls' = 1 .. n + 1
  BY <1>2, <1>3, <1>4, <1>5, Pushed, LenProperties
<1>7. (\A i \in 1 .. n : calls'[i] = calls[i]) /\ calls'[n + 1] = c
  BY <1>2, <1>3, <1>4, <1>5, Pushed
<1>8. ASSUME NEW k \in 1 .. n PROVE (Open(k) /\ Parked(k))'
  <2>1. calls # <<>> /\ Inner = calls[n]
    BY <1>4, <1>8, EmptySeq DEF Inner
  <2>2. Inner.kind = "apc"
    BY <1>3, <2>1 DEF GuestRuns
  <2>3. Open(k) /\ Parked(k) /\ calls'[k] = calls[k]
    BY <1>6, <1>7 DEF ApcIInv
  <2>4. Parked(k)'
    BY <1>3, <1>4, <2>1, <2>2, <2>3 DEF Parked
  <2>5. ASSUME calls[k].kind = "io" PROVE Open(k)'
    <3>1. calls[k].at = "return" /\ calls[k].of \notin ToSet(ring)
      BY <1>4, <1>6, <2>1, <2>2, <2>5, InnerIs
    <3>2. PICK q : q = calls[k].of
      OBVIOUS
    <3>3. /\ q \in Request /\ q \notin returned /\ Stage(q, "return") /\ q \notin ToSet(ring)
          /\ \A j \in DOMAIN calls : calls[j].kind = "io" /\ calls[j].of = q => j = k
      BY <2>3, <2>5, <3>1, <3>2 DEF Open
    <3>4. Stage(q, "return")' /\ Request' = Request
      BY <1>3, <3>3 DEF Stage, Told, Ran, Request
    <3>5. \A j \in DOMAIN calls' : calls'[j].kind = "io" /\ calls'[j].of = q => j = k
      BY <1>2, <1>6, <1>7, <3>3
    <3> QED BY <1>3, <2>3, <3>1, <3>2, <3>3, <3>4, <3>5 DEF Open
  <2> QED BY <2>3, <2>4, <2>5 DEF Open
<1>9. (Open(n + 1) /\ Parked(n + 1))'
  BY <1>2, <1>7 DEF Open, Parked
<1>10. calls = <<>> \/ Inner.kind # "io"
  BY <1>3 DEF GuestRuns
<1>11. \A k \in DOMAIN calls' : (Open(k) /\ Parked(k))'
  BY <1>6, <1>8, <1>9
<1> QED BY <1>3, <1>6, <1>10, <1>11, NotInIo, TellsNothing

(* Calls that have guest code, or a routine, started above them.            *)
LEMMA DeliverApc == ASSUME ApcIInv, Deliver PROVE ApcIInv'
<1>1. PICK r : r = Head(ring)
  OBVIOUS
<1>2. /\ InCall("wait", "drain") /\ ring # <<>> /\ calls # <<>> /\ Inner.kind = "wait"
      /\ ring' = Tail(ring) /\ ran' = Append(ran, r)
      /\ UNCHANGED <<request, status, event, returned>>
  BY <1>1 DEF Deliver, InCall
<1>3. /\ Request' = Request /\ ApcOnce /\ ToldAfterStatus /\ RingSorted /\ ApcTypeOK
  BY <1>2 DEF ApcIInv, Request
<1>4. ring \in Seq(Request) /\ ran \in Seq(Request) /\ calls \in Seq(Call)
  BY <1>3 DEF ApcTypeOK
<1>5. /\ ring' \in Seq(Request) /\ Len(ring) \in Nat \ {0} /\ r = ring[1] /\ r \in Request
      /\ DOMAIN ring = 1 .. Len(ring) /\ DOMAIN ring' = 1 .. Len(ring) - 1
      /\ \A i \in 1 .. Len(ring) - 1 : ring'[i] = ring[i + 1]
  BY <1>1, <1>2, <1>4, Tailed
<1>6. ToSet(ring) = {r} \cup ToSet(ring')
  BY <1>1, <1>2, <1>4, Tailed
<1>7. r \notin ToSet(ring')
  <2>1. \A i \in DOMAIN ring' : ring'[i] # r
    BY <1>3, <1>5 DEF ApcOnce, IsInjective
  <2> QED BY <2>1 DEF ToSet
<1>8. r \in returned /\ \A q \in ToSet(ring) : q \in returned
  BY <1>2, <1>6, NotInIo
<1>9. ran' \in Seq(Request)
  BY <1>2, <1>4, <1>5, Pushed
<1>11. /\ DOMAIN ran = 1 .. Len(ran) /\ DOMAIN ran' = 1 .. Len(ran) + 1
       /\ \A i \in 1 .. Len(ran) : ran'[i] = ran[i]
  BY <1>2, <1>4, <1>5, Pushed
<1>12. ran'[Len(ran) + 1] = r /\ Len(ran) \in Nat
  BY <1>2, <1>4, <1>5, Pushed, LenProperties
<1>10. ToSet(ran') = ToSet(ran) \cup {r}
  BY <1>11, <1>12 DEF ToSet
<1>13. Told' = Told
  BY <1>6, <1>10 DEF Told, Ran
<1>14. PICK n, c : n = Len(calls) /\ c = Frame("apc", r, "queued")
  OBVIOUS
<1>15. PICK t : t = [calls EXCEPT ![Len(calls)].of = 1]
  OBVIOUS
<1>16. calls' = Append(t, c)
  BY <1>1, <1>14, <1>15 DEF Deliver
<1>17. c \in Call /\ c.kind = "apc" /\ c.of = r
  <2>1. r \in Nat /\ c = [kind |-> "apc", of |-> r, at |-> "queued"]
    BY <1>5, <1>14 DEF Frame, Request
  <2> QED BY <2>1 DEF Call, Place
<1>18. /\ t \in Seq(Call) /\ Len(t) = n /\ n \in Nat \ {0} /\ DOMAIN calls = 1 .. n
       /\ \A i \in 1 .. n - 1 : t[i] = calls[i]
       /\ t[n].kind = "wait" /\ t[n].at = "drain"
  <2>1. n \in Nat \ {0} /\ DOMAIN calls = 1 .. n /\ Inner = calls[n] /\ Inner \in Call
    BY <1>2, <1>14, InnerIs DEF ApcIInv
  <2> DEFINE e == [Inner EXCEPT !.of = 1]
  <2>2. e \in Call /\ e.kind = "wait" /\ e.at = "drain"
    BY <1>2, <2>1 DEF Call, InCall
  <2>3. t = [calls EXCEPT ![n] = e]
    BY <1>14, <1>15, <2>1
  <2> HIDE DEF e
  <2>4. /\ t \in Seq(Call) /\ Len(t) = n
        /\ \A i \in 1 .. n : t[i] = IF i = n THEN e ELSE calls[i]
    BY <1>4, <1>14, <2>1, <2>2, <2>3, ExceptSeq
  <2> QED BY <2>1, <2>2, <2>4
<1>19. calls' \in Seq(Call) /\ DOMAIN calls' = 1 .. n + 1
  BY <1>16, <1>17, <1>18, Pushed
<1>20. (\A i \in 1 .. n : calls'[i] = t[i]) /\ calls'[n + 1] = c
  BY <1>16, <1>17, <1>18, Pushed
<1>21. ASSUME NEW k \in DOMAIN calls', k # n, k # n + 1 PROVE (Open(k) /\ Parked(k))'
  <2>1. k \in DOMAIN calls /\ k # Len(calls) /\ calls'[k] = calls[k]
    BY <1>14, <1>18, <1>19, <1>20, <1>21
  <2>2. ASSUME NEW j \in DOMAIN calls', calls'[j].kind = "io"
        PROVE  j \in DOMAIN calls /\ calls[j].kind = "io" /\ calls[j].of = calls'[j].of
    <3>1. j # n + 1
      BY <1>17, <1>20, <2>2
    <3>2. j # n
      BY <1>18, <1>20, <2>2
    <3>3. j \in 1 .. n - 1
      BY <1>18, <1>19, <3>1, <3>2
    <3> QED BY <1>18, <1>20, <2>2, <3>3
  <2>3. /\ Same(returned, returned', r) /\ Same(status, status', r) /\ Same(event, event', r)
        /\ Same(Told, Told', r) /\ returned \subseteq returned'
        /\ ToSet(ring') \subseteq ToSet(ring) \cup {r}
    BY <1>2, <1>6, <1>13 DEF Same
  <2>4. calls[k].kind = "io" => calls[k].of # r
    BY <1>8, <2>1 DEF ApcIInv, Open
  <2> QED BY <1>2, <2>1, <2>2, <2>3, <2>4, OuterKeeps
<1>22. (Open(n) /\ Parked(n))'
  <2>1. calls'[n].kind = "wait" /\ calls'[n].at = "drain"
    BY <1>18, <1>20
  <2> QED BY <2>1 DEF Open, Parked
<1>23. (Open(n + 1) /\ Parked(n + 1))'
  <2>1. calls'[n + 1].kind = "apc" /\ calls'[n + 1].of = r
    BY <1>17, <1>20
  <2> QED BY <1>2, <1>8, <2>1 DEF Open, Parked
<1>24. \A k \in DOMAIN calls' : (Open(k) /\ Parked(k))'
  BY <1>21, <1>22, <1>23
<1>25. RingSorted'
  <2>1. ASSUME NEW i \in DOMAIN ring', NEW j \in DOMAIN ring', i < j PROVE ring'[i] < ring'[j]
    <3>1. i + 1 \in DOMAIN ring /\ j + 1 \in DOMAIN ring /\ i + 1 < j + 1
      BY <1>5, <2>1
    <3>2. ring[i + 1] < ring[j + 1]
      BY <1>3, <3>1 DEF RingSorted
    <3> QED BY <1>5, <3>2
  <2>2. \A q \in ToSet(ring') : q \in returned'
    BY <1>2, <1>6, <1>8
  <2> QED BY <2>1, <2>2 DEF RingSorted
<1>26. ApcOnce'
  <2>1. IsInjective(ran')
    <3>1. \A i \in 1 .. Len(ran) : ran[i] # r
      BY <1>3, <1>6, <1>11 DEF ApcOnce, Ran, ToSet
    <3> QED BY <1>3, <1>11, <1>12, <3>1 DEF ApcOnce, IsInjective
  <2>2. IsInjective(ring')
    <3>1. ASSUME NEW i \in DOMAIN ring', NEW j \in DOMAIN ring', ring'[i] = ring'[j] PROVE i = j
      <4>1. i + 1 \in DOMAIN ring /\ j + 1 \in DOMAIN ring /\ ring[i + 1] = ring[j + 1]
        BY <1>5, <3>1
      <4>2. i + 1 = j + 1
        BY <1>3, <4>1 DEF ApcOnce, IsInjective
      <4> QED BY <1>5, <4>2
    <3> QED BY <3>1 DEF IsInjective
  <2>3. Ran' \cap ToSet(ring') = {}
    BY <1>3, <1>6, <1>7, <1>10 DEF ApcOnce, Ran
  <2>4. Ran' \cup ToSet(ring') = Ran \cup ToSet(ring)
    BY <1>13 DEF Told
  <2> QED BY <1>2, <1>3, <2>1, <2>2, <2>3, <2>4 DEF ApcOnce
<1>27. ToldAfterStatus'
  BY <1>2, <1>3, <1>6, <1>10 DEF ToldAfterStatus, Ran
<1>28. ApcTypeOK'
  BY <1>2, <1>3, <1>5, <1>9, <1>19 DEF ApcTypeOK
<1> QED BY <1>24, <1>25, <1>26, <1>27, <1>28 DEF ApcIInv

LEMMA NextApc == ApcIInv /\ [ApcNext]_apcVars => ApcIInv'
<1> SUFFICES ASSUME ApcIInv, [ApcNext]_apcVars PROVE ApcIInv'
  OBVIOUS
<1>1. CASE UNCHANGED apcVars
  BY <1>1 DEF apcVars, ApcIInv, ApcTypeOK, ApcOnce, ToldAfterStatus, RingSorted, Open, Parked, Stage,
              Told, Ran, Request, Inner
<1>2. CASE Drained
  <2>1. CASE Inner.of = 1
    BY <1>2, <2>1, PopsApc DEF Drained, InCall
  <2>2. CASE Inner.of # 1
    BY <1>2, <2>2, WaitStep DEF Drained, InCall, Place
  <2> QED BY <2>1, <2>2
<1>3. CASE WaitEnds
  BY <1>3, PopsApc DEF WaitEnds, InCall
<1>4. CASE RoutineReturns
  BY <1>4, PopsApc DEF RoutineReturns
<1> QED
  BY <1>1, <1>2, <1>3, <1>4, IssueApc, StatusApc, SignalApc, QueueApcApc, ReturnsApc, WaitsApc,
     DeliverApc DEF ApcNext

(* The inductive invariant, for any ring and any nesting.                   *)
THEOREM ApcIInvHolds == ApcSpec => []ApcIInv
BY InitApc, NextApc, PTL DEF ApcSpec

(* A request is told of once, after its status and, from the ring, after    *)
(* its call (bridge_complete_file_io).                                      *)
THEOREM ApcInvHolds == ApcSpec => []ApcInv
<1>1. ApcIInv => QueuedRunsLater
  <2> SUFFICES ASSUME ApcIInv, NEW k \in DOMAIN calls, calls[k].kind = "apc", calls[k].at = "queued"
               PROVE  calls[k].of \in returned /\ calls[k].of \notin OpenIo
    BY DEF QueuedRunsLater
  <2>1. calls[k].of \in returned
    BY DEF ApcIInv, Parked
  <2>2. \A j \in DOMAIN calls : calls[j].kind = "io" => calls[j].of \notin returned
    BY DEF ApcIInv, Open
  <2> QED BY <2>1, <2>2 DEF OpenIo
<1>2. ApcIInv => ApcInv
  BY <1>1 DEF ApcIInv, ApcInv
<1> QED BY <1>2, ApcIInvHolds, PTL

(* The ring is emptied in its order, and no wait sleeps or ends on a        *)
(* pending APC (bridge_deliver_pending_apcs).                               *)
THEOREM DeliveryHolds == ApcSpec => DeliveryRules
<1>1. ASSUME ApcIInv, [ApcNext]_apcVars, ran' # ran, ring' # ring
      PROVE  Last(ran') = Head(ring) /\ \A r \in ToSet(ring) : r >= Last(ran')
  <2>1. CASE Deliver
    <3>1. ring \in Seq(Request) /\ ran \in Seq(Request) /\ ring # <<>> /\ ran' = Append(ran, Head(ring))
      BY <1>1, <2>1 DEF ApcIInv, ApcTypeOK, Deliver
    <3>2. /\ Head(ring) = ring[1] /\ Head(ring) \in Request /\ DOMAIN ring = 1 .. Len(ring)
          /\ Len(ring) \in Nat \ {0}
      BY <3>1, Tailed
    <3>3. Last(ran') = Head(ring)
      <4>1. Len(ran') = Len(ran) + 1 /\ ran'[Len(ran) + 1] = Head(ring)
        BY <3>1, <3>2, Pushed
      <4> QED BY <4>1 DEF Last
    <3>4. ASSUME NEW i \in DOMAIN ring PROVE ring[i] >= ring[1]
      <4>1. ring[i] \in Nat /\ ring[1] \in Nat
        BY <3>1, <3>2, ElementOfSeq DEF Request
      <4>2. i = 1 \/ ring[1] < ring[i]
        BY <1>1, <3>2 DEF ApcIInv, RingSorted
      <4> QED BY <4>1, <4>2
    <3> QED BY <3>2, <3>3, <3>4 DEF ToSet
  <2>2. CASE ~Deliver
    BY <1>1, <2>2 DEF ApcNext, apcVars, Issue, WriteStatus, SignalEvent, QueueApc, IoReturns,
                      AlertableWait, Drained, WaitEnds, RoutineReturns
  <2> QED BY <2>1, <2>2
<1>2. ASSUME ApcIInv, [ApcNext]_apcVars, calls # <<>>, Inner.kind = "wait", ring # <<>>
      PROVE  Len(calls') >= Len(calls) /\ ~(Len(calls') = Len(calls) /\ calls'[Len(calls)].at = "block")
  <2>1. Len(calls) \in Nat \ {0} /\ Inner = calls[Len(calls)] /\ Inner.at # "block"
    BY <1>2, InnerIs DEF Parked
  <2>2. calls' = calls \/ Deliver
    BY <1>2, <2>1 DEF ApcNext, apcVars, Issue, WriteStatus, SignalEvent, QueueApc, IoReturns, InCall,
                      AlertableWait, Drained, WaitEnds, RoutineReturns, GuestRuns
  <2>3. CASE Deliver
    <3>1. PICK t, c : t = [calls EXCEPT ![Len(calls)].of = 1] /\ c = Frame("apc", Head(ring), "queued")
      OBVIOUS
    <3>2. calls' = Append(t, c)
      BY <2>3, <3>1 DEF Deliver
    <3>3. Len(calls') = Len(calls) + 1
      BY <2>1, <3>1, <3>2 DEF ApcIInv, ApcTypeOK
    <3> QED BY <2>1, <3>3
  <2> QED BY <2>1, <2>2, <2>3
<1>3. ApcIInv /\ [ApcNext]_apcVars =>
        [ran' # ran /\ ring' # ring =>
           Last(ran') = Head(ring) /\ \A r \in ToSet(ring) : r >= Last(ran')]_apcVars
  BY <1>1
<1>4. ApcIInv /\ [ApcNext]_apcVars =>
        [calls # <<>> /\ Inner.kind = "wait"
           /\ (Len(calls') < Len(calls) \/ (Len(calls') = Len(calls) /\ calls'[Len(calls)].at = "block"))
           => ring = <<>>]_apcVars
  <2> SUFFICES ASSUME ApcIInv, [ApcNext]_apcVars, calls # <<>>, Inner.kind = "wait", ring # <<>>
               PROVE  /\ ~(Len(calls') < Len(calls))
                      /\ ~(Len(calls') = Len(calls) /\ calls'[Len(calls)].at = "block")
    OBVIOUS
  <2>1. Len(calls) \in Nat
    BY InnerIs
  <2>2. calls' \in Seq(Call)
    BY NextApc DEF ApcIInv, ApcTypeOK
  <2>3. Len(calls') \in Nat
    BY <2>2, LenProperties
  <2> QED BY <1>2, <2>1, <2>3
<1> QED BY <1>3, <1>4, ApcIInvHolds, PTL DEF ApcSpec, DeliveryRules, QueuedInOrder, NoneSleptThrough
==============================================================================
