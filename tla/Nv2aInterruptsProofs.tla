------------------------ MODULE Nv2aInterruptsProofs ------------------------
(***************************************************************************)
(* What TLAPS proves of Nv2aInterrupts for a queue of any length, counters *)
(* of any width and either set of completers: who may clear which bit, and *)
(* that the title is given the methods in order, each once.                *)
(***************************************************************************)
EXTENDS Nv2aInterrupts, TLAPS

(* The timer thread's tick: before the vblank is raised, while a software   *)
(* method is raised, and the title's DPCs.                                  *)
Early == {"vblank", "vblankPmc", "vblankIsr"}
Middle == {"pgraph", "pgraphIntr", "pgraphPmc", "pgraphIsr"}
Late == {"drain", "dpc", "vblankAck", "spin",
         "handler", "serve", "clear", "store", "quiet", "done"}

Booleans == heldUp \in BOOLEAN /\ connected \in BOOLEAN /\ inFlight \in BOOLEAN
Numbers ==
    /\ trap \in 0 .. Wrap - 1 /\ head \in 0 .. Wrap - 1
    /\ tail \in 0 .. Wrap - 1 /\ served \in 0 .. Wrap - 1
    /\ slots \in [0 .. Queue - 1 -> 0 .. Wrap - 1]
    /\ missing \in 0 .. 2 /\ dpcs \in 0 .. 2
Bits ==
    /\ pcrtc \subseteq {"vblank", "tag"} /\ pmc \subseteq {"pcrtc", "pgraph"}
    /\ intr \subseteq {"error"} /\ seen \subseteq {"error"} /\ rest \subseteq {"error"}
Places ==
    /\ tpc \in Early \cup Middle \cup Late
    /\ cpc \in [Completer -> {"top", "swapPcrtc", "readPmc", "askTag", "swapPmc",
                              "status", "askFlight", "swapStatus", "gpu"}]
    /\ read \in [Completer -> SUBSET {"vblank", "tag", "pcrtc", "pgraph", "error"}]
Shape == Booleans /\ Numbers /\ Bits /\ Places

(* One DPC a raise, two raises a tick; and none is left with a unit still   *)
(* interrupting, so a tick begins with PMC_INTR_0 clear.                    *)
DpcsCounted ==
    /\ tpc \in Early => dpcs = 0
    /\ tpc \in Middle => dpcs <= 1
    /\ tpc \in {"vblank", "vblankPmc"} => pmc = {}
    /\ tpc \in {"pgraph", "pgraphIntr", "pgraphPmc", "drain"} => (pmc # {} => dpcs >= 1)

(* What a completer may still believe between its read and its swap.        *)
ReadsGood(c) ==
    /\ cpc[c] = "swapPcrtc" => read[c] = {"vblank"}
    /\ cpc[c] \in {"askTag", "swapPmc", "askFlight", "swapStatus"} => read[c] # {}
    /\ ~heldUp /\ cpc[c] \in {"askTag", "swapPmc"} => tpc \notin {"vblank", "vblankPmc"}
    /\ ~heldUp /\ cpc[c] = "swapPmc" => "tag" \notin pcrtc
CompletersSee == \A c \in Completer : ReadsGood(c)

(* PGRAPH_INTR's bit belongs to the method in flight.                       *)
StatusBelongs ==
    /\ "error" \in intr => inFlight
    /\ tpc \in {"pgraphIntr", "pgraphPmc", "pgraphIsr"} => inFlight
    /\ tpc \in {"serve", "clear"} => intr \subseteq seen
    /\ tpc = "store" => rest = {}
    /\ tpc \in {"quiet", "done"} => intr = {}
    /\ ~heldUp /\ cpc[Ack] \in {"askFlight", "swapStatus"} /\ ~inFlight => tpc \in Late
    /\ ~heldUp /\ cpc[Ack] = "swapStatus" => ~inFlight

(* The title has been given the methods behind the tail, and the one in     *)
(* flight from the handler's look at it to its acknowledgement.             *)
Given == tpc \in {"clear", "store", "quiet", "done"} /\ "error" \in seen
MethodsGiven ==
    /\ inFlight => trap = tail
    /\ ~heldUp /\ tpc = "serve" => seen = intr
    /\ ~heldUp /\ Given => inFlight /\ served = (tail + 1) % Wrap
    /\ ~heldUp /\ ~Given => served = tail

(* A waiting method is still in its slot.                                   *)
QueueKept ==
    /\ Pending <= Queue
    /\ inFlight => Pending # 0
    /\ \A x \in 0 .. Wrap - 1 : (x - tail) % Wrap < Pending => slots[x % Queue] = x

Parties == Shape /\ DpcsCounted /\ CompletersSee /\ StatusBelongs
IInv == Parties /\ MethodsGiven /\ QueueKept

USE QueueAssumption, PartyAssumption

(* Counters around their end, and slots around the ring.                    *)
LEMMA Distance ==
  ASSUME NEW a \in 0 .. Wrap - 1, NEW b \in 0 .. Wrap - 1
  PROVE  (a - b) % Wrap = IF a >= b THEN a - b ELSE a - b + Wrap
<1>1. \A d \in Int : 0 <= d /\ d < Wrap => d % Wrap = d
  OBVIOUS
<1>2. \A d \in Int : -Wrap <= d /\ d < 0 => d % Wrap = d + Wrap
  OBVIOUS
<1> QED BY <1>1, <1>2

LEMMA After ==
  ASSUME NEW a \in 0 .. Wrap - 1
  PROVE  (a + 1) % Wrap = IF a + 1 = Wrap THEN 0 ELSE a + 1
<1>1. \A d \in Int : 0 <= d /\ d < Wrap => d % Wrap = d
  OBVIOUS
<1>2. Wrap % Wrap = 0
  OBVIOUS
<1> QED BY <1>1, <1>2

LEMMA Parts ==
  ASSUME NEW x \in Nat
  PROVE  /\ x % Queue \in 0 .. Queue - 1 /\ x \div Queue \in Nat
         /\ x = Queue * (x \div Queue) + (x % Queue)
<1>1. x % Queue \in 0 .. Queue - 1
  OBVIOUS
<1>2. x \div Queue \in Int
  OBVIOUS
<1>3. x = Queue * (x \div Queue) + (x % Queue)
  OBVIOUS
<1>4. x \div Queue >= 0
  OBVIOUS
<1> QED BY <1>1, <1>2, <1>3, <1>4

LEMMA Multiple == ASSUME NEW k \in Int, k >= 1 PROVE Queue * k >= Queue
OBVIOUS

(* Two counter values less than a queue apart that share a slot are one:    *)
(* the queue's length divides the counters' range.                          *)
LEMMA SlotsApart ==
  ASSUME NEW x \in 0 .. Wrap - 1, NEW y \in 0 .. Wrap - 1,
         x % Queue = y % Queue, (x - y) % Wrap < Queue
  PROVE  x = y
<1> DEFINE a == x \div Queue
           b == y \div Queue
           c == Wrap \div Queue
           r == x % Queue
<1>1. a \in Nat /\ b \in Nat /\ r \in Nat /\ x = Queue * a + r /\ y = Queue * b + r
  BY Parts
<1>2. c \in Nat /\ Wrap = Queue * c
  BY Parts
<1>3. (x - y) % Wrap = IF x >= y THEN x - y ELSE x - y + Wrap
  BY Distance
<1>4. CASE x >= y
  <2>0. x - y < Queue
    BY <1>3, <1>4
  <2> HIDE DEF a, b, c, r
  <2>1. CASE a >= b + 1
    <3>1. Queue * (a - b) >= Queue
      BY <1>1, <2>1, Multiple
    <3>2. x - y = Queue * (a - b)
      BY <1>1
    <3> QED BY <2>0, <3>1, <3>2
  <2>2. CASE a <= b
    <3>1. Queue * (b - a) >= 0
      BY <1>1, <2>2
    <3>2. y - x = Queue * (b - a)
      BY <1>1
    <3> QED BY <1>4, <3>1, <3>2
  <2> QED BY <1>1, <2>1, <2>2
<1>5. CASE x < y
  <2>0. x - y + Wrap < Queue /\ x - y + Wrap >= 1
    BY <1>3, <1>5
  <2> HIDE DEF a, b, c, r
  <2> DEFINE k == (a + c) - b
  <2>1. k \in Int /\ x - y + Wrap = Queue * k
    BY <1>1, <1>2
  <2>2. CASE k >= 1
    BY <2>0, <2>1, <2>2, Multiple
  <2>3. CASE k <= 0
    <3>1. Queue * k <= 0
      BY <2>1, <2>3
    <3> QED BY <2>0, <2>1, <3>1
  <2> QED BY <2>1, <2>2, <2>3
<1> QED BY <1>4, <1>5

-----------------------------------------------------------------------------
(* The parties between two accesses to a register.                          *)
LEMMA BooleansStep == Booleans /\ Next => Booleans'
<1> SUFFICES ASSUME Booleans, Next PROVE Booleans'
  OBVIOUS
<1> USE DEF registers, swm, timer, completers
<1>1. heldUp' = heldUp /\ Step
  BY DEF Next
<1>2. connected' = connected \/ connected' = TRUE
  BY <1>1 DEF Step, Connect, Timer, VblankNotDue, Vblank, VblankPmc, Raise, PgraphRaise, PgraphNothing,
     PgraphIntr, PgraphPmc, Rescue, TakeDpc, TickSleeps, DpcReads, VblankAck, SpinEnds, HandlerSees,
     HandlerServes, HandlerReadsBack, HandlerStores, HandlerQuiets, HandlerDone, Completes, ReadPcrtc,
     SwapPcrtc, ReadPmc, AskTag, SwapPmc, AckPass, ReadStatus, AskFlight, SwapStatus, GpuDone, QueueMethod
<1>3. inFlight' = inFlight \/ inFlight' = TRUE \/ inFlight' = FALSE
  BY <1>1 DEF Step, Connect, Timer, VblankNotDue, Vblank, VblankPmc, Raise, PgraphRaise, PgraphNothing,
     PgraphIntr, PgraphPmc, Rescue, TakeDpc, TickSleeps, DpcReads, VblankAck, SpinEnds, HandlerSees,
     HandlerServes, HandlerReadsBack, HandlerStores, HandlerQuiets, HandlerDone, Completes, ReadPcrtc,
     SwapPcrtc, ReadPmc, AskTag, SwapPmc, AckPass, ReadStatus, AskFlight, SwapStatus, GpuDone, QueueMethod
<1> QED BY <1>1, <1>2, <1>3, Zenon DEF Booleans

LEMMA RestStep == Numbers /\ Bits /\ Places /\ DpcsCounted /\ Next => Numbers' /\ Bits' /\ Places'
<1> SUFFICES ASSUME Numbers, Bits, Places, DpcsCounted, Next PROVE Numbers' /\ Bits' /\ Places'
  OBVIOUS
<1> USE DEF registers, swm, timer, completers
<1>0. Step
  BY DEF Next
<1>1. \A a \in 0 .. Wrap - 1 : (a + 1) % Wrap \in 0 .. Wrap - 1
  BY After
<1>2. \A a \in Nat : a % Queue \in 0 .. Queue - 1
  BY Parts
<1>3. CASE Connect
  BY <1>3 DEF Numbers, Bits, Places, Connect
<1>4. CASE Timer
  <2>1. CASE VblankNotDue \/ Vblank \/ VblankPmc \/ PgraphNothing \/ PgraphIntr \/ PgraphPmc
    BY <2>1 DEF Numbers, Bits, Places, Early, Middle, Late, VblankNotDue, Vblank, VblankPmc,
                PgraphNothing, PgraphIntr, PgraphPmc
  <2>2. CASE Raise("vblankIsr", "pgraph") \/ Raise("pgraphIsr", "drain")
    <3>1. dpcs <= 1
      BY <2>2 DEF DpcsCounted, Numbers, Early, Middle, Raise
    <3>2. dpcs' \in 0 .. 2
      BY <2>2, <3>1 DEF Numbers, Raise
    <3>3. UNCHANGED <<registers, swm, missing, seen, rest, completers, served>> /\ tpc' \in {"pgraph", "drain"}
      BY <2>2 DEF Raise
    <3> QED BY <3>2, <3>3 DEF Numbers, Bits, Places, Early, Middle, Late
  <2>3. CASE PgraphRaise
    <3>0. tail \in Nat
      BY DEF Numbers
    <3>1. tail % Queue \in 0 .. Queue - 1
      BY <1>2, <3>0
    <3>2. slots[tail % Queue] \in 0 .. Wrap - 1
      BY <3>1 DEF Numbers
    <3>3. trap' \in 0 .. Wrap - 1
      BY <2>3, <3>2 DEF PgraphRaise
    <3> QED BY <2>3, <3>3 DEF Numbers, Bits, Places, Middle, PgraphRaise
  <2>4. CASE Rescue \/ TakeDpc \/ TickSleeps
    <3>1. CASE Rescue
      <4>1. missing' \in 0 .. 2 /\ tpc' \in {"drain", "pgraphIntr"}
        BY <3>1 DEF Numbers, Rescue
      <4> QED BY <3>1, <4>1 DEF Numbers, Bits, Places, Middle, Late, Rescue
    <3>2. CASE TakeDpc
      <4>1. dpcs' \in 0 .. 2
        BY <3>2 DEF Numbers, TakeDpc
      <4> QED BY <3>2, <4>1 DEF Numbers, Bits, Places, Late, TakeDpc
    <3>3. CASE TickSleeps
      BY <3>3 DEF Numbers, Bits, Places, Early, TickSleeps
    <3> QED BY <2>4, <3>1, <3>2, <3>3
  <2>5. CASE DpcReads \/ VblankAck \/ SpinEnds \/ HandlerSees
    BY <2>5 DEF Numbers, Bits, Places, Early, Middle, Late, DpcReads, VblankAck, SpinEnds, HandlerSees
  <2>6. CASE HandlerServes
    BY <1>1, <2>6 DEF Numbers, Bits, Places, Early, Middle, Late, HandlerServes
  <2>7. CASE HandlerReadsBack \/ HandlerStores \/ HandlerQuiets
    BY <2>7 DEF Numbers, Bits, Places, Early, Middle, Late, HandlerReadsBack, HandlerStores, HandlerQuiets
  <2>8. CASE HandlerDone
    BY <1>1, <2>8 DEF Numbers, Bits, Places, Early, Middle, Late, HandlerDone
  <2> QED BY <1>4, <2>1, <2>2, <2>3, <2>4, <2>5, <2>6, <2>7, <2>8 DEF Timer
<1>5. ASSUME NEW c \in Completer, Completes(c) PROVE Numbers' /\ Bits' /\ Places'
  BY <1>5 DEF Numbers, Bits, Places, Completes, ReadPcrtc, SwapPcrtc, ReadPmc, AskTag, SwapPmc,
              Goto, Keep, Return
<1>6. CASE AckPass
  BY <1>6 DEF Numbers, Bits, Places, AckPass, ReadStatus, AskFlight, SwapStatus, GpuDone, Goto, Keep
<1>7. CASE QueueMethod
  <2>1. head' \in 0 .. Wrap - 1 /\ slots' \in [0 .. Queue - 1 -> 0 .. Wrap - 1]
    BY <1>1, <1>7 DEF Numbers, QueueMethod
  <2> QED BY <1>7, <2>1 DEF Numbers, Bits, Places, QueueMethod
<1> QED BY <1>0, <1>3, <1>4, <1>5, <1>6, <1>7 DEF Step, Runs

LEMMA ShapeStep == Shape /\ DpcsCounted /\ Next => Shape'
BY BooleansStep, RestStep DEF Shape

LEMMA ShapeTyped == Shape => TypeOK
<1> SUFFICES ASSUME Shape PROVE TypeOK
  OBVIOUS
<1>1. connected \in BOOLEAN /\ inFlight \in BOOLEAN
  BY DEF Shape, Places, Booleans
<1>2. {trap, head, tail, served} \subseteq 0 .. Wrap - 1
  BY DEF Shape, Places, Numbers
<1> QED BY <1>1, <1>2 DEF Shape, Places, Numbers, Bits, TypeOK

LEMMA DpcsCountedStep == Shape /\ DpcsCounted /\ Next => DpcsCounted'
<1> SUFFICES ASSUME Shape, DpcsCounted, Next PROVE DpcsCounted'
  OBVIOUS
<1> USE DEF registers, swm, timer, completers
<1>0. Step
  BY DEF Next
<1>1. CASE Timer
  <2>1. CASE VblankNotDue \/ Vblank \/ VblankPmc \/ PgraphRaise \/ PgraphNothing \/ PgraphIntr \/ PgraphPmc
    BY <2>1 DEF DpcsCounted, Early, Middle, VblankNotDue, Vblank, VblankPmc,
                PgraphRaise, PgraphNothing, PgraphIntr, PgraphPmc
  <2>2. CASE Raise("vblankIsr", "pgraph") \/ Raise("pgraphIsr", "drain")
    <3>1. dpcs \in 0 .. 2 /\ dpcs' = IF pmc # {} THEN dpcs + 1 ELSE dpcs
      BY <2>2 DEF Shape, Numbers, Raise
    <3>2. pmc' = pmc /\ (pmc # {} => dpcs' >= 1)
      BY <2>2, <3>1 DEF Raise
    <3>3. tpc' = "pgraph" => dpcs = 0 /\ dpcs' <= 1
      BY <2>2, <3>1 DEF DpcsCounted, Early, Raise
    <3>4. tpc' \in {"pgraph", "drain"}
      BY <2>2 DEF Raise
    <3> QED BY <3>2, <3>3, <3>4 DEF DpcsCounted, Early, Middle
  <2>3. CASE Rescue \/ TakeDpc
    BY <2>3 DEF DpcsCounted, Early, Middle, Rescue, TakeDpc
  <2>6. CASE TickSleeps
    <3>1. dpcs = 0 /\ pmc = {} /\ tpc' = "vblank" /\ UNCHANGED <<pmc, dpcs>>
      BY <2>6 DEF DpcsCounted, TickSleeps
    <3> QED BY <3>1 DEF DpcsCounted, Early, Middle
  <2>4. CASE DpcReads \/ VblankAck \/ SpinEnds
    <3>1. pmc \subseteq {"pcrtc", "pgraph"} /\ UNCHANGED <<pmc, dpcs>>
      BY <2>4 DEF Shape, Bits, DpcReads, VblankAck, SpinEnds
    <3>2. tpc' \in {"vblankAck", "handler", "drain", "spin", "dpc"} /\ (tpc' = "drain" => pmc = {})
      BY <2>4, <3>1 DEF DpcReads, VblankAck, SpinEnds
    <3> QED BY <3>1, <3>2 DEF DpcsCounted, Early, Middle
  <2>5. CASE HandlerSees \/ HandlerServes \/ HandlerReadsBack \/ HandlerStores \/ HandlerQuiets \/ HandlerDone
    BY <2>5 DEF DpcsCounted, Early, Middle, HandlerSees, HandlerServes, HandlerReadsBack,
                HandlerStores, HandlerQuiets, HandlerDone
  <2> QED BY <1>1, <2>1, <2>2, <2>3, <2>4, <2>5, <2>6 DEF Timer
<1>2. ASSUME UNCHANGED <<tpc, dpcs>>, pmc' \subseteq pmc PROVE DpcsCounted'
  BY <1>2 DEF DpcsCounted
<1>3. ASSUME NEW c \in Completer, Completes(c) PROVE UNCHANGED <<tpc, dpcs>> /\ pmc' \subseteq pmc
  BY <1>3 DEF Completes, ReadPcrtc, SwapPcrtc, ReadPmc, AskTag, SwapPmc
<1>4. CASE Connect \/ AckPass \/ QueueMethod
  BY <1>2, <1>4 DEF Connect, AckPass, ReadStatus, AskFlight, SwapStatus, GpuDone, QueueMethod
<1> QED BY <1>0, <1>1, <1>2, <1>3, <1>4 DEF Step, Runs

(* A completer's read goes stale only by a tick, and a tick waits for it.   *)
LEMMA CompletersSeeStep == Parties /\ Next => CompletersSee'
<1> SUFFICES ASSUME Parties, Next, NEW c \in Completer PROVE ReadsGood(c)'
  BY DEF CompletersSee
<1> USE DEF registers, swm, timer, completers
<1>0. heldUp' = heldUp /\ Step /\ Shape /\ DpcsCounted /\ ReadsGood(c)
  BY DEF Next, Parties, CompletersSee
<1>1. CASE Timer
  <2>1. UNCHANGED <<cpc, read>>
    BY <1>1 DEF Timer, VblankNotDue, Vblank, VblankPmc, Raise, PgraphRaise, PgraphNothing, PgraphIntr,
                PgraphPmc, Rescue, TakeDpc, TickSleeps, DpcReads, VblankAck, SpinEnds, HandlerSees,
                HandlerServes, HandlerReadsBack, HandlerStores, HandlerQuiets, HandlerDone
  <2>2. CASE Vblank \/ TickSleeps
    BY <1>0, <2>1, <2>2 DEF ReadsGood, Vblank, TickSleeps
  <2>3. CASE VblankAck
    BY <1>0, <2>1, <2>3 DEF ReadsGood, VblankAck
  <2>4. ASSUME pcrtc' = pcrtc, tpc' \notin {"vblank"}, tpc' = "vblankPmc" => tpc = "vblankPmc"
        PROVE  ReadsGood(c)'
    BY <1>0, <2>1, <2>4 DEF ReadsGood
  <2> QED BY <1>1, <2>2, <2>3, <2>4
      DEF Timer, VblankNotDue, VblankPmc, Raise, PgraphRaise, PgraphNothing, PgraphIntr,
          PgraphPmc, Rescue, TakeDpc, DpcReads, SpinEnds, HandlerSees,
          HandlerServes, HandlerReadsBack, HandlerStores, HandlerQuiets, HandlerDone
<1>2. ASSUME NEW d \in Completer, Completes(d) PROVE ReadsGood(c)'
  <2>1. /\ UNCHANGED tpc /\ (pcrtc' = pcrtc \/ pcrtc' = {})
        /\ (d # c => cpc'[c] = cpc[c] /\ read'[c] = read[c])
    BY <1>0, <1>2 DEF Shape, Places, Completes, ReadPcrtc, SwapPcrtc, ReadPmc, AskTag, SwapPmc, Goto, Keep, Return
  <2>2. CASE d # c
    BY <1>0, <2>1, <2>2 DEF ReadsGood
  <2>3. CASE d = c
    <3>1. CASE ReadPcrtc(c)
      BY <1>0, <3>1 DEF Shape, Places, ReadsGood, ReadPcrtc, Goto, Keep, Return
    <3>2. CASE SwapPcrtc(c) \/ SwapPmc(c)
      BY <1>0, <3>2 DEF Shape, Places, ReadsGood, SwapPcrtc, SwapPmc, Goto, Keep, Return
    <3>3. CASE ReadPmc(c)
      BY <1>0, <3>3 DEF Shape, Places, ReadsGood, DpcsCounted, ReadPmc, Goto, Keep, Return
    <3>4. CASE AskTag(c)
      BY <1>0, <3>4 DEF Shape, Places, ReadsGood, AskTag, Goto, Keep, Return
    <3> QED BY <1>2, <2>3, <3>1, <3>2, <3>3, <3>4 DEF Completes
  <2> QED BY <2>2, <2>3
<1>3. CASE AckPass
  <2>1. UNCHANGED <<tpc, pcrtc>> /\ (Ack # c => cpc'[c] = cpc[c] /\ read'[c] = read[c])
    BY <1>0, <1>3 DEF Shape, Places, AckPass, ReadStatus, AskFlight, SwapStatus, GpuDone, Goto, Keep
  <2>2. CASE Ack # c
    BY <1>0, <2>1, <2>2 DEF ReadsGood
  <2>3. CASE Ack = c
    BY <1>0, <1>3, <2>1, <2>3 DEF Shape, Places, ReadsGood, AckPass, ReadStatus, AskFlight, SwapStatus, GpuDone, Goto, Keep
  <2> QED BY <2>2, <2>3
<1>4. CASE Connect \/ QueueMethod
  BY <1>0, <1>4 DEF ReadsGood, Connect, QueueMethod
<1> QED BY <1>0, <1>1, <1>2, <1>3, <1>4 DEF Step, Runs

(* PGRAPH_INTR: raised only for the method in flight, cleared by its        *)
(* handler before the next may be.                                          *)
LEMMA StatusBelongsStep == Parties /\ Next => StatusBelongs'
<1> SUFFICES ASSUME Parties, Next PROVE StatusBelongs'
  OBVIOUS
<1> USE DEF registers, swm, timer, completers
<1>0. heldUp' = heldUp /\ Step /\ Shape /\ StatusBelongs /\ ReadsGood(Ack)
  BY DEF Next, Parties, CompletersSee
<1>1. CASE Timer
  <2>1. CASE VblankNotDue \/ Vblank \/ VblankPmc \/ PgraphNothing \/ PgraphPmc
    BY <1>0, <2>1 DEF StatusBelongs, Late, VblankNotDue, Vblank, VblankPmc, PgraphNothing, PgraphPmc
  <2>2. CASE Raise("vblankIsr", "pgraph") \/ Raise("pgraphIsr", "drain")
    BY <1>0, <2>2 DEF StatusBelongs, Late, Raise
  <2>3. CASE PgraphRaise \/ PgraphIntr \/ Rescue
    BY <1>0, <2>3 DEF StatusBelongs, Late, PgraphRaise, PgraphIntr, Rescue
  <2>4. CASE TickSleeps
    BY <1>0, <2>4 DEF StatusBelongs, ReadsGood, Late, TickSleeps
  <2>5. CASE TakeDpc \/ DpcReads \/ VblankAck \/ SpinEnds
    BY <1>0, <2>5 DEF StatusBelongs, Late, TakeDpc, DpcReads, VblankAck, SpinEnds
  <2>6. CASE HandlerSees \/ HandlerServes \/ HandlerReadsBack
    BY <1>0, <2>6 DEF StatusBelongs, Late, HandlerSees, HandlerServes, HandlerReadsBack
  <2>7. CASE HandlerStores \/ HandlerQuiets \/ HandlerDone
    BY <1>0, <2>7 DEF StatusBelongs, Late, HandlerStores, HandlerQuiets, HandlerDone
  <2> QED BY <1>1, <2>1, <2>2, <2>3, <2>4, <2>5, <2>6, <2>7 DEF Timer
<1>2. ASSUME NEW c \in Completer, Completes(c) PROVE StatusBelongs'
  <2>1. /\ UNCHANGED <<intr, inFlight, tpc, seen, rest>>
        /\ (cpc'[Ack] = cpc[Ack] \/ cpc'[Ack] \notin {"askFlight", "swapStatus"})
    BY <1>0, <1>2 DEF Shape, Places, Completes, ReadPcrtc, SwapPcrtc, ReadPmc, AskTag, SwapPmc, Goto, Keep, Return
  <2> QED BY <1>0, <2>1 DEF StatusBelongs
<1>3. CASE AckPass
  <2>1. CASE ReadStatus
    BY <1>0, <2>1 DEF Shape, Bits, Places, StatusBelongs, ReadStatus, Goto, Keep
  <2>2. CASE AskFlight \/ GpuDone
    BY <1>0, <2>2 DEF Shape, Places, StatusBelongs, AskFlight, GpuDone, Goto, Keep
  <2>3. CASE SwapStatus
    BY <1>0, <2>3 DEF Shape, Places, StatusBelongs, SwapStatus, Goto, Keep
  <2> QED BY <1>3, <2>1, <2>2, <2>3 DEF AckPass
<1>4. CASE Connect \/ QueueMethod
  BY <1>0, <1>4 DEF StatusBelongs, Connect, QueueMethod
<1> QED BY <1>0, <1>1, <1>2, <1>3, <1>4 DEF Step, Runs

(* The title is given the method in flight, and only that one.              *)
LEMMA MethodsGivenStep == IInv /\ Next => MethodsGiven'
<1> SUFFICES ASSUME IInv, Next PROVE MethodsGiven'
  OBVIOUS
<1> USE DEF registers, swm, timer, completers
<1>0. heldUp' = heldUp /\ Step /\ Shape /\ StatusBelongs /\ MethodsGiven /\ QueueKept /\ DpcsCounted
  BY DEF Next, Parties, IInv
<1>1. CASE Timer
  <2>1. ASSUME UNCHANGED <<trap, tail, inFlight, served, seen>>,
               tpc \notin {"serve", "clear", "store", "quiet"},
               tpc' \notin {"serve", "clear", "store", "quiet", "done"},
               ~Given
        PROVE  MethodsGiven'
    BY <1>0, <2>1 DEF MethodsGiven, Given
  <2>2. CASE VblankNotDue \/ Vblank \/ VblankPmc \/ Raise("vblankIsr", "pgraph") \/ Raise("pgraphIsr", "drain")
    BY <2>1, <2>2 DEF Given, VblankNotDue, Vblank, VblankPmc, Raise
  <2>3. CASE PgraphNothing \/ PgraphIntr \/ PgraphPmc \/ Rescue \/ TakeDpc \/ TickSleeps
    BY <2>1, <2>3 DEF Given, PgraphNothing, PgraphIntr, PgraphPmc, Rescue, TakeDpc, TickSleeps
  <2>4. CASE DpcReads \/ VblankAck \/ SpinEnds
    BY <2>1, <2>4 DEF Given, DpcReads, VblankAck, SpinEnds
  <2>5. CASE PgraphRaise
    <3>1. tail \in 0 .. Wrap - 1 /\ head \in 0 .. Wrap - 1
      BY <1>0 DEF Shape, Numbers
    <3>2. (tail - tail) % Wrap = 0
      BY <3>1, Distance
    <3>3. Pending > 0
      <4>1. Pending # 0
        BY <2>5 DEF PgraphRaise
      <4>2. Pending \in Nat
        BY <3>1, Distance DEF Pending
      <4> QED BY <4>1, <4>2
    <3>4. slots[tail % Queue] = tail
      BY <1>0, <3>1, <3>2, <3>3 DEF QueueKept
    <3>5. trap' = tail /\ tail' = tail
      BY <2>5, <3>4 DEF PgraphRaise
    <3> QED BY <1>0, <2>5, <3>5 DEF MethodsGiven, Given, PgraphRaise
  <2>6. CASE HandlerSees
    BY <1>0, <2>6 DEF MethodsGiven, Given, HandlerSees
  <2>7. CASE HandlerServes
    <3>1. ~heldUp => seen = intr /\ served = tail
      BY <1>0, <2>7 DEF MethodsGiven, Given, HandlerServes
    <3>2. "error" \in intr => inFlight
      BY <1>0 DEF StatusBelongs
    <3> QED BY <1>0, <2>7, <3>1, <3>2 DEF MethodsGiven, Given, HandlerServes
  <2>8. CASE HandlerReadsBack \/ HandlerStores \/ HandlerQuiets
    BY <1>0, <2>8 DEF MethodsGiven, Given, HandlerReadsBack, HandlerStores, HandlerQuiets
  <2>9. CASE HandlerDone
    BY <1>0, <2>9 DEF MethodsGiven, Given, HandlerDone
  <2> QED BY <1>1, <2>2, <2>3, <2>4, <2>5, <2>6, <2>7, <2>8, <2>9 DEF Timer
<1>2. ASSUME UNCHANGED <<trap, tail, inFlight, served, seen, intr, tpc>> PROVE MethodsGiven'
  BY <1>0, <1>2 DEF MethodsGiven, Given
<1>3. ASSUME NEW c \in Completer, Completes(c) PROVE MethodsGiven'
  BY <1>2, <1>3 DEF Completes, ReadPcrtc, SwapPcrtc, ReadPmc, AskTag, SwapPmc
<1>4. CASE AckPass
  <2>1. CASE ReadStatus \/ AskFlight \/ GpuDone
    BY <1>2, <2>1 DEF ReadStatus, AskFlight, GpuDone
  <2>2. CASE SwapStatus
    <3>1. ~heldUp => intr' = intr
      <4>1. ~heldUp => ~inFlight
        BY <1>0, <2>2 DEF StatusBelongs, SwapStatus
      <4>2. ~heldUp => intr = {}
        BY <1>0, <4>1 DEF Shape, Bits, StatusBelongs
      <4> QED BY <2>2, <4>2 DEF SwapStatus
    <3> QED BY <1>0, <2>2, <3>1 DEF MethodsGiven, Given, SwapStatus
  <2> QED BY <1>4, <2>1, <2>2 DEF AckPass
<1>5. CASE Connect \/ QueueMethod
  BY <1>2, <1>5 DEF Connect, QueueMethod
<1> QED BY <1>0, <1>1, <1>3, <1>4, <1>5 DEF Step, Runs

(* A method queued takes a slot no waiting one is in; one acknowledged      *)
(* gives its slot up.                                                       *)
LEMMA QueueKeptStep == IInv /\ Next => QueueKept'
<1> SUFFICES ASSUME IInv, Next PROVE QueueKept'
  OBVIOUS
<1> USE DEF registers, swm, timer, completers
<1>0. Step /\ Numbers /\ QueueKept
  BY DEF Next, Parties, IInv, Shape
<1>1. /\ head \in 0 .. Wrap - 1 /\ tail \in 0 .. Wrap - 1
      /\ Pending = IF head >= tail THEN head - tail ELSE head - tail + Wrap
  BY <1>0, Distance DEF Numbers, Pending
<1>2. \A x \in 0 .. Wrap - 1 : (x - tail) % Wrap = IF x >= tail THEN x - tail ELSE x - tail + Wrap
  BY <1>1, Distance
<1>3. ASSUME UNCHANGED <<slots, head, tail>>, inFlight' => inFlight PROVE QueueKept'
  BY <1>0, <1>3 DEF QueueKept, Pending
<1>4. CASE PgraphRaise
  BY <1>0, <1>4 DEF QueueKept, Pending, PgraphRaise
<1>5. CASE HandlerDone
  <2>1. CASE ~("error" \in seen /\ inFlight)
    BY <1>3, <1>5, <2>1 DEF HandlerDone
  <2>2. CASE "error" \in seen /\ inFlight
    <3>1. tail' = (tail + 1) % Wrap /\ ~inFlight' /\ UNCHANGED <<slots, head>>
      BY <1>5, <2>2 DEF HandlerDone
    <3>2. tail' = IF tail + 1 = Wrap THEN 0 ELSE tail + 1
      BY <1>1, <3>1, After
    <3>3. tail' \in 0 .. Wrap - 1
      BY <1>1, <3>2
    <3>4. Pending' = IF head >= tail' THEN head - tail' ELSE head - tail' + Wrap
      BY <1>1, <3>1, <3>3, Distance DEF Pending
    <3>5. Pending # 0 /\ Pending <= Queue
      BY <1>0, <2>2 DEF QueueKept
    <3>6. Pending' = Pending - 1
      BY <1>1, <3>2, <3>4, <3>5
    <3>7. ASSUME NEW x \in 0 .. Wrap - 1, (x - tail') % Wrap < Pending' PROVE slots[x % Queue] = x
      <4>1. (x - tail') % Wrap = IF x >= tail' THEN x - tail' ELSE x - tail' + Wrap
        BY <3>3, Distance
      <4>2. (x - tail) % Wrap < Pending
        BY <1>1, <1>2, <3>2, <3>5, <3>6, <3>7, <4>1
      <4> QED BY <1>0, <4>2 DEF QueueKept
    <3>8. Pending' <= Queue
      BY <1>1, <3>5, <3>6
    <3> QED BY <3>1, <3>7, <3>8 DEF QueueKept
  <2> QED BY <2>1, <2>2
<1>6. CASE QueueMethod
  <2>1. CASE Pending >= Queue
    BY <1>3, <1>6, <2>1 DEF QueueMethod
  <2>2. CASE Pending < Queue
    <3>1. /\ slots' = [slots EXCEPT ![head % Queue] = head] /\ head' = (head + 1) % Wrap
          /\ UNCHANGED <<tail, inFlight>>
      BY <1>1, <1>6, <2>2 DEF QueueMethod
    <3>2. head' = IF head + 1 = Wrap THEN 0 ELSE head + 1
      BY <1>1, <3>1, After
    <3>3. head' \in 0 .. Wrap - 1
      BY <1>1, <3>2
    <3>4. Pending' = IF head' >= tail THEN head' - tail ELSE head' - tail + Wrap
      BY <1>1, <3>1, <3>3, Distance DEF Pending
    <3>5. Pending' = Pending + 1
      BY <1>1, <2>2, <3>2, <3>4
    <3>6. head % Queue \in 0 .. Queue - 1
      BY <1>1, Parts
    <3>7. ASSUME NEW x \in 0 .. Wrap - 1, (x - tail) % Wrap < Pending' PROVE slots'[x % Queue] = x
      <4>1. CASE x = head
        BY <1>0, <3>1, <3>6, <4>1 DEF Numbers
      <4>2. CASE x # head
        <5>1. (x - tail) % Wrap < Pending
          BY <1>1, <1>2, <3>5, <3>7, <4>2
        <5>2. slots[x % Queue] = x
          BY <1>0, <5>1 DEF QueueKept
        <5>3. (head - x) % Wrap < Queue
          <6>1. (head - x) % Wrap = IF head >= x THEN head - x ELSE head - x + Wrap
            BY <1>1, Distance
          <6> QED BY <1>1, <1>2, <2>2, <5>1, <6>1
        <5>4. head % Queue # x % Queue
          BY <1>1, <4>2, <5>3, SlotsApart
        <5>5. x % Queue \in 0 .. Queue - 1
          BY Parts
        <5> QED BY <1>0, <3>1, <5>2, <5>4, <5>5 DEF Numbers
      <4> QED BY <4>1, <4>2
    <3>8. Pending' <= Queue /\ Pending' # 0
      BY <1>1, <2>2, <3>5
    <3> QED BY <3>1, <3>7, <3>8 DEF QueueKept
  <2> QED BY <1>1, <2>1, <2>2
<1>7. CASE Timer /\ ~PgraphRaise /\ ~HandlerDone
  <2>1. UNCHANGED <<slots, head, tail, inFlight>>
    BY <1>7 DEF Timer, VblankNotDue, Vblank, VblankPmc, Raise, PgraphNothing, PgraphIntr,
                PgraphPmc, Rescue, TakeDpc, TickSleeps, DpcReads, VblankAck, SpinEnds, HandlerSees,
                HandlerServes, HandlerReadsBack, HandlerStores, HandlerQuiets
  <2> QED BY <1>3, <2>1
<1>8. ASSUME NEW c \in Completer, Completes(c) PROVE QueueKept'
  BY <1>3, <1>8 DEF Completes, ReadPcrtc, SwapPcrtc, ReadPmc, AskTag, SwapPmc
<1>9. CASE Connect \/ AckPass
  BY <1>3, <1>9 DEF Connect, AckPass, ReadStatus, AskFlight, SwapStatus, GpuDone
<1> QED BY <1>0, <1>4, <1>5, <1>6, <1>7, <1>8, <1>9 DEF Step, Runs

LEMMA InitIInv == Init => IInv
<1> SUFFICES ASSUME Init PROVE IInv
  OBVIOUS
<1>1. Booleans
  BY Zenon DEF Init, Booleans
<1>2. Numbers /\ Bits /\ Places
  BY DEF Init, Numbers, Bits, Places, Early
<1>3. DpcsCounted /\ StatusBelongs
  BY DEF Init, DpcsCounted, StatusBelongs, Early, Middle, Late
<1>4. CompletersSee
  BY DEF Init, CompletersSee, ReadsGood
<1>5. MethodsGiven
  BY DEF Init, MethodsGiven, Given
<1>6. Pending = 0
  <2>1. 0 \in 0 .. Wrap - 1
    OBVIOUS
  <2> QED BY <2>1, Distance DEF Init, Pending
<1>7. \A x \in 0 .. Wrap - 1 : (x - tail) % Wrap >= 0
  BY Distance DEF Init
<1>8. QueueKept
  BY <1>6, <1>7, Distance DEF Init, QueueKept
<1> QED BY <1>1, <1>2, <1>3, <1>4, <1>5, <1>8 DEF IInv, Parties, Shape

LEMMA StutterIInv == IInv /\ UNCHANGED vars => IInv'
<1> SUFFICES ASSUME IInv, UNCHANGED vars PROVE IInv'
  OBVIOUS
<1> USE DEF vars, state, registers, swm, timer, completers
<1>1. Booleans' /\ Numbers' /\ Bits' /\ Places'
  BY DEF IInv, Parties, Shape, Booleans, Numbers, Bits, Places
<1>2. DpcsCounted' /\ CompletersSee' /\ StatusBelongs'
  BY DEF IInv, Parties, DpcsCounted, CompletersSee, ReadsGood, StatusBelongs
<1>3. MethodsGiven' /\ QueueKept'
  BY DEF IInv, MethodsGiven, Given, QueueKept, Pending
<1> QED BY <1>1, <1>2, <1>3 DEF IInv, Parties, Shape

THEOREM IInvHolds == Spec => []IInv
<1>1. IInv /\ Next => IInv'
  BY ShapeStep, DpcsCountedStep, CompletersSeeStep, StatusBelongsStep, MethodsGivenStep, QueueKeptStep
     DEF IInv, Parties
<1> QED BY <1>1, InitIInv, StutterIInv, PTL DEF Spec

(* Registers, counters and the count of queued DPCs stay in range: no tick  *)
(* leaves a DPC behind for the next.                                        *)
THEOREM TypeCorrect == Spec => []TypeOK
<1>1. IInv => TypeOK
  BY ShapeTyped DEF IInv, Parties
<1> QED BY <1>1, IInvHolds, PTL

(* Queue, tail and in-flight flag describe one queue, whatever its length:  *)
(* no method overwrites one still waiting, and the title has been given     *)
(* exactly those behind the tail, and the one being acknowledged.           *)
THEOREM StaysInStep == Spec => []InStep
<1>1. IInv => InStep
  <2> SUFFICES ASSUME IInv PROVE InStep
    OBVIOUS
  <2>1. MethodsGiven /\ QueueKept
    BY DEF IInv
  <2>2. CASE heldUp \/ ~Given
    BY <2>1, <2>2 DEF InStep, MethodsGiven, QueueKept
  <2>3. CASE ~heldUp /\ Given
    BY <2>1, <2>3 DEF InStep, MethodsGiven, QueueKept
  <2> QED BY <2>2, <2>3
<1> QED BY <1>1, IInvHolds, PTL

(* While no completer is held up for a tick, the title is given the oldest  *)
(* method waiting, and no method twice.                                     *)
THEOREM GivenInOrder == Spec => OldestOnce
<1> USE DEF registers, swm, timer, completers
<1>1. IInv /\ [Next]_vars => [~heldUp /\ served' # served => trap = served]_vars
  <2> SUFFICES ASSUME IInv, Next, ~heldUp, served' # served PROVE trap = served
    BY DEF vars, state
  <2>1. HandlerServes
    BY DEF Next, Step, Connect, Timer, VblankNotDue, Vblank, VblankPmc, Raise, PgraphRaise, PgraphNothing,
       PgraphIntr, PgraphPmc, Rescue, TakeDpc, TickSleeps, DpcReads, VblankAck, SpinEnds, HandlerSees,
       HandlerReadsBack, HandlerStores, HandlerQuiets, HandlerDone, Completes, ReadPcrtc,
       SwapPcrtc, ReadPmc, AskTag, SwapPmc, AckPass, ReadStatus, AskFlight, SwapStatus, GpuDone, QueueMethod
  <2>2. "error" \in intr /\ tpc = "serve"
    BY <2>1 DEF HandlerServes
  <2>3. inFlight /\ ~Given
    BY <2>2 DEF IInv, Parties, StatusBelongs, Given
  <2> QED BY <2>3 DEF IInv, MethodsGiven
<1> QED BY <1>1, IInvHolds, PTL DEF Spec, OldestOnce

(* While no completer is held up for a tick, only the title's handler takes *)
(* the status of a method in flight away.                                   *)
THEOREM StatusSurvives == Spec => StatusKept
<1> USE DEF registers, swm, timer, completers
<1>1. IInv /\ [Next]_vars =>
        [~heldUp /\ inFlight /\ "error" \in intr /\ tpc # "store" => "error" \in intr']_vars
  <2> SUFFICES ASSUME IInv, Next, ~heldUp, inFlight, "error" \in intr, tpc # "store"
               PROVE  "error" \in intr'
    BY DEF vars, state
  <2>1. ~SwapStatus
    BY DEF IInv, Parties, StatusBelongs, SwapStatus
  <2> QED BY <2>1
      DEF Next, Step, Connect, Timer, VblankNotDue, Vblank, VblankPmc, Raise, PgraphRaise, PgraphNothing,
       PgraphIntr, PgraphPmc, Rescue, TakeDpc, TickSleeps, DpcReads, VblankAck, SpinEnds, HandlerSees,
       HandlerServes, HandlerReadsBack, HandlerStores, HandlerQuiets, HandlerDone, Completes, ReadPcrtc,
       SwapPcrtc, ReadPmc, AskTag, SwapPmc, AckPass, ReadStatus, AskFlight, GpuDone, QueueMethod
<1> QED BY <1>1, IInvHolds, PTL DEF Spec, StatusKept

(* PMC_INTR_0's PGRAPH bit outlives every swap of a completer, however long *)
(* it was held up: it is swapped for what was read, less the PCRTC's bit.   *)
THEOREM PgraphBitSurvives == Spec => PgraphBitKept
<1> USE DEF registers, swm, timer, completers
<1>1. [Next]_vars => [inFlight /\ "pgraph" \in pmc /\ tpc # "quiet" => "pgraph" \in pmc']_vars
  <2> SUFFICES ASSUME Next, inFlight, "pgraph" \in pmc, tpc # "quiet" PROVE "pgraph" \in pmc'
    BY DEF vars, state
  <2> QED BY DEF Next, Step, Connect, Timer, VblankNotDue, Vblank, VblankPmc, Raise, PgraphRaise, PgraphNothing,
       PgraphIntr, PgraphPmc, Rescue, TakeDpc, TickSleeps, DpcReads, VblankAck, SpinEnds, HandlerSees,
       HandlerServes, HandlerReadsBack, HandlerStores, HandlerQuiets, HandlerDone, Completes, ReadPcrtc,
       SwapPcrtc, ReadPmc, AskTag, SwapPmc, AckPass, ReadStatus, AskFlight, SwapStatus, GpuDone, QueueMethod
<1> QED BY <1>1, PTL DEF Spec, PgraphBitKept

(* The vblank's own mark outlives every swap, however late: a completer     *)
(* swaps the unmarked value only.                                           *)
LEMMA MarkStep == IInv /\ Next /\ "tag" \in pcrtc /\ tpc # "vblankAck" => pcrtc \subseteq pcrtc'
<1> USE DEF registers, swm, timer, completers
<1> SUFFICES ASSUME IInv, Next, "tag" \in pcrtc, tpc # "vblankAck" PROVE pcrtc \subseteq pcrtc'
  OBVIOUS
<1>1. ASSUME NEW c \in Completer, SwapPcrtc(c) PROVE pcrtc' = pcrtc
  BY <1>1 DEF IInv, Parties, CompletersSee, ReadsGood, SwapPcrtc
<1> QED BY <1>1
    DEF Next, Step, Connect, Timer, VblankNotDue, Vblank, VblankPmc, Raise, PgraphRaise, PgraphNothing,
       PgraphIntr, PgraphPmc, Rescue, TakeDpc, TickSleeps, DpcReads, VblankAck, SpinEnds, HandlerSees,
       HandlerServes, HandlerReadsBack, HandlerStores, HandlerQuiets, HandlerDone, Completes, ReadPcrtc,
       ReadPmc, AskTag, SwapPmc, AckPass, ReadStatus, AskFlight, SwapStatus, GpuDone, QueueMethod, Runs

THEOREM MarkSurvives == Spec => VblankMarkKept
<1>1. IInv /\ [Next]_vars => ["tag" \in pcrtc /\ tpc # "vblankAck" => pcrtc \subseteq pcrtc']_vars
  BY MarkStep DEF vars, state
<1> QED BY <1>1, IInvHolds, PTL DEF Spec, VblankMarkKept

(* A vblank the title has not acknowledged keeps both its bits, while no    *)
(* completer is held up for a tick.                                         *)
THEOREM VblankSurvives == Spec => VblankKept
<1> USE DEF registers, swm, timer, completers
<1>1. IInv /\ Next /\ ~heldUp /\ "tag" \in pcrtc /\ "pcrtc" \in pmc => "pcrtc" \in pmc'
  <2> SUFFICES ASSUME IInv, Next, ~heldUp, "tag" \in pcrtc, "pcrtc" \in pmc PROVE "pcrtc" \in pmc'
    OBVIOUS
  <2>1. ASSUME NEW c \in Completer PROVE ~SwapPmc(c)
    BY DEF IInv, Parties, CompletersSee, ReadsGood, SwapPmc
  <2> QED BY <2>1
      DEF Next, Step, Connect, Timer, VblankNotDue, Vblank, VblankPmc, Raise, PgraphRaise, PgraphNothing,
       PgraphIntr, PgraphPmc, Rescue, TakeDpc, TickSleeps, DpcReads, VblankAck, SpinEnds, HandlerSees,
       HandlerServes, HandlerReadsBack, HandlerStores, HandlerQuiets, HandlerDone, Completes, ReadPcrtc,
       SwapPcrtc, ReadPmc, AskTag, AckPass, ReadStatus, AskFlight, SwapStatus, GpuDone, QueueMethod, Runs
<1>2. IInv /\ [Next]_vars =>
        [/\ ~heldUp /\ "tag" \in pcrtc /\ tpc # "vblankAck"
         => pcrtc \subseteq pcrtc' /\ ("pcrtc" \in pmc => "pcrtc" \in pmc')]_vars
  BY <1>1, MarkStep DEF vars, state
<1> QED BY <1>2, IInvHolds, PTL DEF Spec, VblankKept

(* The ring of methods in its bounds and in step with the title.            *)
THEOREM Nv2aInvHolds == Spec => []Nv2aInv
BY TypeCorrect, StaysInStep, PTL DEF Nv2aInv

(* No status bit of a method or a vblank is cleared by anybody but whoever  *)
(* acknowledges it, all four registers together.                            *)
THEOREM BitsSurvive == Spec => BitsKept
BY StatusSurvives, PgraphBitSurvives, VblankSurvives, MarkSurvives, PTL DEF BitsKept
=============================================================================
