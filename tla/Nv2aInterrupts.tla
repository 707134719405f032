--------------------------- MODULE Nv2aInterrupts ---------------------------
(***************************************************************************)
(* The GPU's two interrupts and the registers four parties share without a *)
(* lock: PCRTC_INTR_0 (vertical blank), PGRAPH_INTR (software methods) and *)
(* PMC_INTR_0 (who interrupted).  Registers are plain memory, not write-1- *)
(* to-clear, so somebody has to complete what the title acknowledged.      *)
(*                                                                         *)
(*   timer   kernel_vblank_tick and kernel_pgraph_tick raise; the same     *)
(*           thread then runs the title's DPC, which acknowledges          *)
(*   ack     the thread that is also the GPU: completes acknowledged       *)
(*           vblanks, clears stray PGRAPH status, queues software methods  *)
(*   keeper  completes acknowledged vblanks while the GPU is busy          *)
(*                                                                         *)
(* The title's ISR and DPC are known from the comments of the port only.   *)
(* RECOMP_PGRAPH_ACK, RECOMP_NV2A_SWM and RECOMP_SWM_RESCUE are left at    *)
(* their defaults, in a port that acknowledges PGRAPH (g_pgraph_owned).    *)
(***************************************************************************)
EXTENDS Integers, FiniteSets

CONSTANTS
    Ack, Keeper,  \* the two completers
    Completer,    \* those of them that run
    Queue,        \* SWM_QUEUE
    Wrap          \* the queue's counters are modulo this (2^32 in the code)

ASSUME QueueAssumption ==
    /\ Queue \in Nat \ {0} /\ Wrap \in Nat /\ Wrap > Queue /\ Wrap % Queue = 0
ASSUME PartyAssumption ==
    /\ Ack # Keeper /\ Ack \in Completer /\ Completer \subseteq {Ack, Keeper}

VARIABLES
    heldUp,     \* may the host hold a completer up across the timer's Sleep(1)?
    connected,  \* has the title connected its ISR?
    pcrtc,      \* PCRTC_INTR_0, a set of "vblank" and the marker "tag"
    pmc,        \* PMC_INTR_0, a set of "pcrtc" and "pgraph"
    intr,       \* PGRAPH_INTR, a set of "error"
    trap,       \* the trap registers: which method
    slots,      \* g_swm_q
    head, tail, \* g_swm_head, g_swm_tail
    inFlight,   \* g_swm_in_flight
    missing,    \* kernel_pgraph_rescue's count of ticks without the bit
    dpcs,       \* DPCs queued
    tpc,        \* where the timer thread is
    seen,       \* the title's handler: PGRAPH_INTR as the wrapper read it,
    rest,       \*     and what it writes back
    cpc,        \* where each completer is
    read,       \* the register value it has read
    served      \* how many methods the title has been given (modulo Wrap)

registers == <<pcrtc, pmc, intr, trap>>
swm == <<slots, head, tail, inFlight>>
timer == <<missing, dpcs, tpc, seen, rest>>
completers == <<cpc, read>>
state == <<connected, registers, swm, timer, completers, served>>
vars == <<heldUp, state>>

Init ==
    /\ heldUp \in BOOLEAN
    /\ connected = FALSE
    /\ pcrtc = {} /\ pmc = {} /\ intr = {} /\ trap = 0
    /\ slots = [s \in 0 .. Queue - 1 |-> 0]
    /\ head = 0 /\ tail = 0 /\ inFlight = FALSE
    /\ missing = 0 /\ dpcs = 0 /\ tpc = "vblank" /\ seen = {} /\ rest = {}
    /\ cpc = [c \in Completer |-> "top"] /\ read = [c \in Completer |-> {}]
    /\ served = 0

Pending == (head - tail) % Wrap

-----------------------------------------------------------------------------
(* The timer thread's tick: kernel_vblank_tick, kernel_pgraph_tick,         *)
(* kernel_drain_dpcs, Sleep(1).                                             *)

Connect == ~connected /\ connected' = TRUE /\ UNCHANGED <<registers, swm, timer, completers, served>>

VblankNotDue ==
    /\ tpc = "vblank" /\ tpc' = "pgraph"
    /\ UNCHANGED <<connected, registers, swm, missing, dpcs, seen, rest, completers, served>>

Vblank ==
    /\ tpc = "vblank" /\ connected
    /\ pcrtc' = pcrtc \cup {"vblank", "tag"}
    /\ tpc' = "vblankPmc"
    /\ UNCHANGED <<connected, pmc, intr, trap, swm, missing, dpcs, seen, rest, completers, served>>

VblankPmc ==
    /\ tpc = "vblankPmc"
    /\ pmc' = pmc \cup {"pcrtc"}
    /\ tpc' = "vblankIsr"
    /\ UNCHANGED <<connected, pcrtc, intr, trap, swm, missing, dpcs, seen, rest, completers, served>>

(* kernel_raise_interrupt: the title's ISR claims the interrupt and queues  *)
(* its DPC if PMC_INTR_0 says the GPU interrupted.                          *)
Raise(from, to) ==
    /\ tpc = from /\ tpc' = to
    /\ dpcs' = IF pmc # {} THEN dpcs + 1 ELSE dpcs
    /\ UNCHANGED <<connected, registers, swm, missing, seen, rest, completers, served>>

(* kernel_pgraph_tick: the oldest method's trap registers, then in flight,  *)
(* then the status bits, one register at a time.                            *)
PgraphRaise ==
    /\ tpc = "pgraph" /\ ~inFlight /\ Pending # 0 /\ connected
    /\ trap' = slots[tail % Queue] /\ inFlight' = TRUE
    /\ tpc' = "pgraphIntr"
    /\ UNCHANGED <<connected, pcrtc, pmc, intr, slots, head, tail, missing, dpcs, seen, rest, completers, served>>

PgraphNothing ==
    /\ tpc = "pgraph" /\ ~inFlight /\ (Pending = 0 \/ ~connected)
    /\ tpc' = "drain"
    /\ UNCHANGED <<connected, registers, swm, missing, dpcs, seen, rest, completers, served>>

PgraphIntr ==
    /\ tpc = "pgraphIntr" /\ tpc' = "pgraphPmc"
    /\ intr' = intr \cup {"error"}
    /\ UNCHANGED <<connected, pcrtc, pmc, trap, swm, missing, dpcs, seen, rest, completers, served>>

PgraphPmc ==
    /\ tpc = "pgraphPmc" /\ tpc' = "pgraphIsr"
    /\ pmc' = pmc \cup {"pgraph"}
    /\ UNCHANGED <<connected, pcrtc, intr, trap, swm, missing, dpcs, seen, rest, completers, served>>

(* Faulty: no rescue. *)
RescueNever ==
    /\ tpc = "pgraph" /\ inFlight
    /\ missing' = 0 /\ tpc' = "drain"
    /\ UNCHANGED <<connected, registers, swm, dpcs, seen, rest, completers, served>>

(* kernel_pgraph_rescue: in flight, and PMC_INTR_0 without its bit on three *)
(* ticks in a row, so both bits are set and the interrupt raised again.     *)
Rescue ==
    /\ tpc = "pgraph" /\ inFlight
    /\ IF "pgraph" \in pmc
       THEN missing' = 0 /\ tpc' = "drain"
       ELSE IF missing < 2
            THEN missing' = missing + 1 /\ tpc' = "drain"
            ELSE missing' = 0 /\ tpc' = "pgraphIntr"
    /\ UNCHANGED <<connected, registers, swm, dpcs, seen, rest, completers, served>>

(* kernel_drain_dpcs takes the next DPC. *)
TakeDpc ==
    /\ tpc = "drain" /\ dpcs > 0
    /\ dpcs' = dpcs - 1 /\ tpc' = "dpc"
    /\ UNCHANGED <<connected, registers, swm, missing, seen, rest, completers, served>>

(* Between two ticks: a completer that is not held up is past the few       *)
(* instructions from its read to its swap.                                  *)
TickSleeps ==
    /\ tpc = "drain" /\ dpcs = 0
    /\ heldUp \/ \A c \in Completer : read[c] = {}
    /\ tpc' = "vblank"
    /\ UNCHANGED <<connected, registers, swm, missing, dpcs, seen, rest, completers, served>>

-----------------------------------------------------------------------------
(* The title's DPC, on the timer thread: PMC_INTR_0 says which unit         *)
(* interrupted.  A vblank is acknowledged by storing PCRTC_INTR_0 whole     *)
(* and waiting until PMC_INTR_0 says the PCRTC is quiet; a software method  *)
(* goes to the handler the port wraps.                                      *)

DpcReads ==
    /\ tpc = "dpc"
    /\ tpc' = IF "pcrtc" \in pmc THEN "vblankAck"
              ELSE IF "pgraph" \in pmc THEN "handler"
              ELSE "drain"
    /\ UNCHANGED <<connected, registers, swm, missing, dpcs, seen, rest, completers, served>>

VblankAck ==
    /\ tpc = "vblankAck" /\ tpc' = "spin"
    /\ pcrtc' = {"vblank"}
    /\ UNCHANGED <<connected, pmc, intr, trap, swm, missing, dpcs, seen, rest, completers, served>>

SpinEnds ==
    /\ tpc = "spin" /\ "pcrtc" \notin pmc
    /\ tpc' = "dpc"
    /\ UNCHANGED <<connected, registers, swm, missing, dpcs, seen, rest, completers, served>>

(* The wrapper sub_00194210: it reads PGRAPH_INTR, ... *)
HandlerSees ==
    /\ tpc = "handler" /\ tpc' = "serve"
    /\ seen' = intr
    /\ UNCHANGED <<connected, registers, swm, missing, dpcs, rest, completers, served>>

(* ... calls the title's handler, which acts on the method if its own read  *)
(* finds the error bit, ...                                                 *)
HandlerServes ==
    /\ tpc = "serve" /\ tpc' = "clear"
    /\ served' = IF "error" \in intr THEN (served + 1) % Wrap ELSE served
    /\ UNCHANGED <<connected, registers, swm, missing, dpcs, seen, rest, completers>>

(* ... clears what it saw, in memory: a read and a write, ...               *)
HandlerReadsBack ==
    /\ tpc = "clear" /\ tpc' = "store"
    /\ rest' = intr \ seen
    /\ UNCHANGED <<connected, registers, swm, missing, dpcs, seen, completers, served>>

(* Faulty: left to the title, whose write keeps the bit. *)
HandlerStoresNothing ==
    /\ tpc = "store" /\ tpc' = "quiet"
    /\ rest' = {}
    /\ UNCHANGED <<connected, registers, swm, missing, dpcs, seen, completers, served>>

HandlerStores ==
    /\ tpc = "store" /\ tpc' = "quiet"
    /\ intr' = rest /\ rest' = {}
    /\ UNCHANGED <<connected, pcrtc, pmc, trap, swm, missing, dpcs, seen, completers, served>>

(* ... takes PMC_INTR_0's bit away if nothing is left, ...                  *)
HandlerQuiets ==
    /\ tpc = "quiet" /\ tpc' = "done"
    /\ pmc' = IF intr = {} THEN pmc \ {"pgraph"} ELSE pmc
    /\ UNCHANGED <<connected, pcrtc, intr, trap, swm, missing, dpcs, seen, rest, completers, served>>

(* ... and lets the next method go (xbox_nv2a_software_method_done).        *)
HandlerDone ==
    /\ tpc = "done" /\ tpc' = "dpc"
    /\ IF "error" \in seen /\ inFlight
       THEN tail' = (tail + 1) % Wrap /\ inFlight' = FALSE
       ELSE UNCHANGED <<tail, inFlight>>
    /\ seen' = {}
    /\ UNCHANGED <<connected, registers, slots, head, missing, dpcs, rest, completers, served>>

Timer ==
    \/ VblankNotDue \/ Vblank \/ VblankPmc \/ Raise("vblankIsr", "pgraph")
    \/ PgraphRaise \/ PgraphNothing \/ PgraphIntr \/ PgraphPmc
    \/ Raise("pgraphIsr", "drain") \/ Rescue
    \/ TakeDpc \/ TickSleeps
    \/ DpcReads \/ VblankAck \/ SpinEnds
    \/ HandlerSees \/ HandlerServes \/ HandlerReadsBack \/ HandlerStores
    \/ HandlerQuiets \/ HandlerDone

-----------------------------------------------------------------------------
(* vblank_intr_tick, on either completer. *)

Goto(c, place) == cpc' = [cpc EXCEPT ![c] = place]
Keep(c, value) == read' = [read EXCEPT ![c] = value]

(* Where it goes on: the ack thread to its pass over the status registers,  *)
(* unless frame pacing called it (xbox_nv2a_vblank_service).                *)
Return(c) == Goto(c, "top") \/ (c = Ack /\ Goto(c, "status"))

(* Faulty: the marker not looked at. *)
ReadPcrtcUntagged(c) ==
    /\ cpc[c] = "top"
    /\ IF pcrtc = {} THEN Goto(c, "readPmc") /\ Keep(c, {}) ELSE Goto(c, "swapPcrtc") /\ Keep(c, pcrtc)
    /\ UNCHANGED <<connected, registers, swm, timer, served>>

ReadPcrtc(c) ==
    /\ cpc[c] = "top"
    /\ \/ "tag" \in pcrtc /\ Return(c) /\ Keep(c, {})
       \/ pcrtc = {} /\ Goto(c, "readPmc") /\ Keep(c, {})
       \/ pcrtc = {"vblank"} /\ Goto(c, "swapPcrtc") /\ Keep(c, pcrtc)
    /\ UNCHANGED <<connected, registers, swm, timer, served>>

SwapPcrtc(c) ==
    /\ cpc[c] = "swapPcrtc" /\ Keep(c, {})
    /\ \/ pcrtc = read[c] /\ pcrtc' = {} /\ Goto(c, "readPmc")
       \/ pcrtc # read[c] /\ pcrtc' = pcrtc /\ Return(c)
    /\ UNCHANGED <<connected, pmc, intr, trap, swm, timer, served>>

ReadPmc(c) ==
    /\ cpc[c] = "readPmc" /\ Keep(c, pmc)
    /\ \/ pmc = {} /\ Return(c)
       \/ pmc # {} /\ Goto(c, "askTag")
    /\ UNCHANGED <<connected, registers, swm, timer, served>>

AskTag(c) ==
    /\ cpc[c] = "askTag"
    /\ \/ "tag" \in pcrtc /\ Return(c) /\ Keep(c, {})
       \/ "tag" \notin pcrtc /\ Goto(c, "swapPmc") /\ Keep(c, read[c])
    /\ UNCHANGED <<connected, registers, swm, timer, served>>

(* Faulty: PGRAPH's bit cleared with the rest. *)
SwapPmcWhole(c) ==
    /\ cpc[c] = "swapPmc" /\ Keep(c, {}) /\ Return(c)
    /\ pmc' = IF pmc = read[c] THEN {} ELSE pmc
    /\ UNCHANGED <<connected, pcrtc, intr, trap, swm, timer, served>>

(* PGRAPH's bit stays as it was read: it belongs to the timer thread. *)
SwapPmc(c) ==
    /\ cpc[c] = "swapPmc" /\ Keep(c, {}) /\ Return(c)
    /\ pmc' = IF pmc = read[c] THEN pmc \cap {"pgraph"} ELSE pmc
    /\ UNCHANGED <<connected, pcrtc, intr, trap, swm, timer, served>>

-----------------------------------------------------------------------------
(* The ack thread's pass over PGRAPH_INTR: read, ask, swap.                 *)

ReadStatus ==
    /\ cpc[Ack] = "status" /\ Keep(Ack, intr)
    /\ Goto(Ack, IF intr = {} THEN "gpu" ELSE "askFlight")
    /\ UNCHANGED <<connected, registers, swm, timer, served>>

(* Faulty: a method in flight is not asked about. *)
AskFlightNever ==
    /\ cpc[Ack] = "askFlight"
    /\ Goto(Ack, "swapStatus") /\ Keep(Ack, read[Ack])
    /\ UNCHANGED <<connected, registers, swm, timer, served>>

AskFlight ==
    /\ cpc[Ack] = "askFlight"
    /\ IF inFlight THEN Goto(Ack, "gpu") /\ Keep(Ack, {}) ELSE Goto(Ack, "swapStatus") /\ Keep(Ack, read[Ack])
    /\ UNCHANGED <<connected, registers, swm, timer, served>>

SwapStatus ==
    /\ cpc[Ack] = "swapStatus" /\ Goto(Ack, "gpu") /\ Keep(Ack, {})
    /\ intr' = IF intr = read[Ack] THEN {} ELSE intr
    /\ UNCHANGED <<connected, pcrtc, pmc, trap, swm, timer, served>>

(* The ack thread is also the GPU: it executes the push buffer, where each  *)
(* software method is queued, or dropped if the queue is full               *)
(* (xbox_nv2a_software_method).                                             *)

(* Faulty: the limit one too high. *)
QueueMethodPastLimit ==
    /\ cpc[Ack] = "gpu"
    /\ Pending <= Queue
    /\ slots' = [slots EXCEPT ![head % Queue] = head]
    /\ head' = (head + 1) % Wrap
    /\ UNCHANGED <<connected, registers, tail, inFlight, timer, completers, served>>

QueueMethod ==
    /\ cpc[Ack] = "gpu"
    /\ IF Pending >= Queue
       THEN UNCHANGED <<slots, head>>
       ELSE slots' = [slots EXCEPT ![head % Queue] = head] /\ head' = (head + 1) % Wrap
    /\ UNCHANGED <<connected, registers, tail, inFlight, timer, completers, served>>

GpuDone ==
    /\ cpc[Ack] = "gpu" /\ Goto(Ack, "top")
    /\ UNCHANGED <<connected, registers, swm, timer, read, served>>

Completes(c) ==
    ReadPcrtc(c) \/ SwapPcrtc(c) \/ ReadPmc(c) \/ AskTag(c) \/ SwapPmc(c)

AckPass == ReadStatus \/ AskFlight \/ SwapStatus \/ GpuDone

(* Bound: the ack thread alone is held up, the keeper left out meanwhile.   *)
Runs == IF heldUp THEN {Ack} ELSE Completer

Step ==
    \/ Connect \/ Timer
    \/ \E c \in Runs : Completes(c)
    \/ AckPass \/ QueueMethod

Next == Step /\ UNCHANGED heldUp

Spec == Init /\ [][Next]_vars

(* The threads run; a vblank falls due again and again (60 times a second). *)
FairSpec ==
    /\ Spec
    /\ WF_state(Connect) /\ WF_state(Timer) /\ SF_state(Vblank)
    /\ \A c \in Completer : WF_state(c \in Runs /\ Completes(c))
    /\ WF_state(AckPass)
-----------------------------------------------------------------------------
TypeOK ==
    /\ connected \in BOOLEAN /\ inFlight \in BOOLEAN
    /\ pcrtc \subseteq {"vblank", "tag"} /\ pmc \subseteq {"pcrtc", "pgraph"}
    /\ intr \subseteq {"error"} /\ seen \subseteq {"error"} /\ rest \subseteq {"error"}
    /\ {trap, head, tail, served} \subseteq 0 .. Wrap - 1
    /\ slots \in [0 .. Queue - 1 -> 0 .. Wrap - 1]
    /\ missing \in 0 .. 2 /\ dpcs \in 0 .. 2

(* g_swm_tail and g_swm_in_flight describe one queue: the title has been    *)
(* given exactly the methods behind the tail, and one more only while it is *)
(* being acknowledged, while no completer is held up for a tick; and no     *)
(* method is ever queued over one still waiting.                            *)
InStep ==
    /\ Pending <= Queue
    /\ heldUp \/ served = tail \/ (inFlight /\ served = (tail + 1) % Wrap)

(* The title is given the methods in the order they were queued, each once, *)
(* while no completer is held up for a tick: the rescue raises again a      *)
(* method whose status a stale swap took after the title had served it.     *)
OldestOnce == [][~heldUp /\ served' # served => trap = served]_vars

(* Nobody but the title's handler takes PGRAPH_INTR's bit of a method in    *)
(* flight away: without it the handler finds nothing and never acknowledges.*)
StatusAlwaysKept ==
    [][inFlight /\ "error" \in intr /\ tpc # "store" => "error" \in intr']_vars

(* So it is while no completer is held up for a tick.                       *)
StatusKept ==
    [][~heldUp /\ inFlight /\ "error" \in intr /\ tpc # "store" => "error" \in intr']_vars

(* Nor PMC_INTR_0's PGRAPH bit, which tells the DPC to call the handler.    *)
PgraphBitKept ==
    [][inFlight /\ "pgraph" \in pmc /\ tpc # "quiet" => "pgraph" \in pmc']_vars

(* A vblank the title has not acknowledged keeps its status: neither        *)
(* completer, if not held up for a tick, takes it for the one before.       *)
VblankKept ==
    [][/\ ~heldUp /\ "tag" \in pcrtc /\ tpc # "vblankAck"
       => pcrtc \subseteq pcrtc' /\ ("pcrtc" \in pmc => "pcrtc" \in pmc')]_vars

(* The part of it that holds however long a completer is held up.           *)
VblankMarkKept ==
    []["tag" \in pcrtc /\ tpc # "vblankAck" => pcrtc \subseteq pcrtc']_vars

(* Every method queued reaches the title, while no completer is held up for *)
(* a tick: the make-space wait ends.                                        *)
Waiting(n) == (n - served) % Wrap < (head - served) % Wrap
EveryMethodServed == \A n \in 0 .. Wrap - 1 : ~heldUp /\ Waiting(n) ~> ~Waiting(n)

(* The title's vblank handler, which holds the guest lock, stops spinning.  *)
SpinReturns == tpc = "spin" ~> tpc # "spin"

(* A raised vblank is seen by the title's DPC, which signals its event, while *)
(* no completer is held up for a tick.                                        *)
VblankSeen == ~heldUp /\ "tag" \in pcrtc ~> tpc = "vblankAck"

(* However long the ack thread is held up, a method in flight is some day   *)
(* acknowledged and the next may follow (kernel_pgraph_rescue).             *)
MethodsGoOn == inFlight ~> ~inFlight

(* The software methods' ring never holds more than it has room for, and    *)
(* tail and the in-flight flag say what the title was given (g_swm).        *)
Nv2aInv == TypeOK /\ InStep

(* A status bit is cleared only on behalf of whoever acknowledged it:       *)
(* neither the ack thread, the keeper nor the rescue takes a method's or a  *)
(* vblank's away (vblank_intr_tick, kernel_pgraph_rescue).                  *)
BitsKept == StatusKept /\ PgraphBitKept /\ VblankKept /\ VblankMarkKept

(* A raised vblank gets through the title's handler, which waits for a      *)
(* completer with the guest lock in its hand, and on to its DPC.            *)
VblankServed == VblankSeen /\ SpinReturns
=============================================================================
