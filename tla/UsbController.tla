--------------------------- MODULE UsbController ---------------------------
(***************************************************************************)
(* The USB host controller of src/src/usb/ohci.c: the thread that ticks    *)
(* every 20 ms, moves the transfer descriptors (TDs) the title queued on   *)
(* the control list and on the interrupt (periodic) list, publishes a done *)
(* queue, and calls the title's interrupt routine; and the registers the   *)
(* title's driver writes from a thread of its own.                         *)
(*                                                                         *)
(* No lock protects a register: ohci_thread and ohci_write both do         *)
(* `reg |= bits' and `reg &= ~bits', so a read-modify-write is two steps   *)
(* here, a load and a store, on either side.                               *)
(*                                                                         *)
(* The title's driver is not in the repository.  It is modelled by the     *)
(* register writes ohci_write answers and by a routine that takes the done *)
(* queue when WritebackDoneHead is set and clears the status it was given. *)
(***************************************************************************)
EXTENDS Integers, Sequences, FiniteSets, SequencesExt

CONSTANTS
  MaxTd,        \* transfer descriptors the title ever queues, at most
  WalkMax,      \* TDs retired from one endpoint in one tick (63 in the code)
  MaxWait,      \* ticks without a running controller (1500 in the code)
  MaxRepeats,   \* deliveries of one status in a row (200 in the code)
  RespLen,      \* packets in the pad's answer to a control request
  Masks,        \* what a driver that starts the controller unmasks
  Budgets,      \* how many TDs and how many register writes, besides starting, the
                \* driver makes in one behaviour: a set of [tds, writes]
  ControlKinds, \* kinds of TD the driver queues on the control endpoint
  PadKinds      \* and on the pad's interrupt endpoint

ASSUME UsbAssumption ==
  /\ MaxTd \in Nat \ {0} /\ WalkMax \in Nat \ {0} /\ MaxWait \in Nat
  /\ MaxRepeats \in Nat /\ RespLen \in Nat
  /\ Budgets \subseteq [tds : 0 .. MaxTd, writes : Nat]
  /\ ControlKinds \subseteq {"setup", "refused", "in", "out"}
  /\ Masks \subseteq SUBSET {"MIE", "WDH", "SF", "RHSC"}
  /\ PadKinds \subseteq {"report", "rumble"}

VARIABLES
  control,   \* HcControl: "operational", "CLE" (control list), "PLE" (periodic)
  enable,    \* HcInterruptEnable
  reg,       \* HcInterruptStatus and HcRhPortStatus1, by name
  queue,     \* TDs between HeadP and TailP of each endpoint descriptor
  halted,    \* the Halted bit of each endpoint's HeadP
  kind,      \* what each TD asks for, "free" before it is queued
  setup,     \* g_setup, g_setup_pending, g_setup_sent
  doneHead,  \* the done queue at HCCA+0x84 the driver has not read, newest first
  retired,   \* history: TDs in the order the controller retired them
  taken,     \* history: TDs in the order the driver learned of them
  packet,    \* history: the packet of the answer each IN TD was given, 0 for none
  hcPc,      \* where ohci_thread is
  ctl, en,   \* its copies of control and enable, read once a tick
  chain,     \* done_head of the walk under way, newest first
  todo,      \* TDs the walk may still move from its endpoint
  rmw,       \* its read-modify-write under way
  deliver,   \* the status it is about to deliver
  plugged, waited, last, repeats, \* its counters
  op,        \* the read-modify-write the driver's thread is in
  writes,    \* writes the driver has made (bound)
  budget     \* what it may make

tdVars   == <<queue, halted, kind, setup, retired, taken, packet>>
hcVars   == <<ctl, en, chain, todo, deliver, plugged, waited, last, repeats>>
driverVars == <<control, enable, op, writes, budget>>
usbVars  == <<control, enable, reg, queue, halted, kind, setup, doneHead, retired, taken,
              packet, hcPc, ctl, en, chain, todo, rmw, deliver, plugged, waited, last,
              repeats, op, writes, budget>>

Td      == 1 .. MaxTd
Ed      == {"control", "pad"}
Sources == {"WDH", "SF", "RHSC"}
PortBit == {"CCS", "CSC", "PES", "PRSC"}
NoOp    == [reg |-> "none", load |-> {}, set |-> {}, clear |-> {}, next |-> "none"]

UsbInit ==
  /\ control = {} /\ enable = {}
  /\ reg = [r \in {"status", "port"} |-> {}]
  /\ queue = [e \in Ed |-> <<>>] /\ halted = [e \in Ed |-> FALSE]
  /\ kind = [t \in Td |-> "free"]
  /\ setup = [pending |-> FALSE, len |-> 0, sent |-> 0]
  /\ doneHead = <<>> /\ retired = <<>> /\ taken = <<>>
  /\ packet = [t \in Td |-> 0]
  /\ hcPc = "tick" /\ ctl = {} /\ en = {} /\ chain = <<>> /\ todo = 0
  /\ rmw = NoOp /\ deliver = {}
  /\ plugged = FALSE /\ waited = 0 /\ last = {} /\ repeats = 0
  /\ op = NoOp /\ writes = 0 /\ budget \in Budgets

-----------------------------------------------------------------------------
(* The controller thread. *)

\* `hc->reg[r] |= set' or `&= ~clear': the load; HcStore is the store.
HcModify(r, set, clear, next) ==
  /\ rmw' = [reg |-> r, load |-> reg[r], set |-> set, clear |-> clear, next |-> next]
  /\ hcPc' = "store"
  /\ UNCHANGED reg

HcStore ==
  /\ hcPc = "store"
  /\ reg' = [reg EXCEPT ![rmw.reg] = (rmw.load \cup rmw.set) \ rmw.clear]
  /\ rmw' = NoOp
  /\ hcPc' = rmw.next
  /\ UNCHANGED <<tdVars, hcVars, driverVars, doneHead>>

\* Asleep for 20 ms, then the registers are read; a controller the driver has not
\* started, or one without its master interrupt, does nothing this tick.
HcTick ==
  /\ hcPc = "tick"
  /\ \/ /\ "operational" \notin control
        /\ waited' = waited + 1
        /\ hcPc' = IF waited + 1 > MaxWait THEN "stopped" ELSE "tick"
        /\ UNCHANGED <<ctl, en>>
     \/ /\ "operational" \in control /\ "MIE" \in enable
        /\ ctl' = control /\ en' = enable
        /\ hcPc' = "plug"
        /\ UNCHANGED waited
  /\ UNCHANGED <<tdVars, driverVars, reg, doneHead, chain, todo, rmw, deliver, plugged,
                 last, repeats>>

\* The device arrives once, when the driver runs and listens to the root hub.
HcPlug ==
  /\ hcPc = "plug"
  /\ IF ~plugged /\ "RHSC" \in en
     THEN /\ HcModify("port", {"CCS", "CSC"}, {}, "plugged")
          /\ plugged' = TRUE
     ELSE /\ hcPc' = "control"
          /\ UNCHANGED <<reg, rmw, plugged>>
  /\ UNCHANGED <<tdVars, driverVars, doneHead, ctl, en, chain, todo, deliver, waited,
                 last, repeats>>

HcPlugRaise ==
  /\ hcPc = "plugged"
  /\ HcModify("status", {"RHSC"}, {}, "control")
  /\ UNCHANGED <<tdVars, driverVars, doneHead, hcVars>>

\* ohci_run_ed_list for one endpoint: HeadP and TailP are read once, a halted
\* endpoint is passed over, and at most WalkMax TDs move.
WalkOf(p) == IF p = "control" THEN "control" ELSE "pad"
ListBit(p) == IF p = "control" THEN "CLE" ELSE "PLE"
AfterWalk(p) == IF p = "control" THEN "frame" ELSE "status"

\* Faulty: a halted endpoint is walked.
HcWalkHalted(p) ==
  /\ hcPc = p /\ p \in {"control", "periodic"}
  /\ LET q == Len(queue[WalkOf(p)])
     IN  /\ chain' = <<>>
         /\ IF ListBit(p) \in ctl /\ q > 0
            THEN /\ todo' = IF q < WalkMax THEN q ELSE WalkMax
                 /\ hcPc' = IF p = "control" THEN "moveControl" ELSE "movePad"
            ELSE /\ todo' = 0
                 /\ hcPc' = AfterWalk(p)
  /\ UNCHANGED <<tdVars, driverVars, reg, doneHead, ctl, en, rmw, deliver, plugged,
                 waited, last, repeats>>

\* Faulty: only the control list is walked.
HcWalkControl(p) ==
  /\ hcPc = p /\ p \in {"control", "periodic"}
  /\ LET q == Len(queue[WalkOf(p)])
     IN  /\ chain' = <<>>
         /\ IF p = "control" /\ ListBit(p) \in ctl /\ ~halted[WalkOf(p)] /\ q > 0
            THEN /\ todo' = IF q < WalkMax THEN q ELSE WalkMax
                 /\ hcPc' = IF p = "control" THEN "moveControl" ELSE "movePad"
            ELSE /\ todo' = 0
                 /\ hcPc' = AfterWalk(p)
  /\ UNCHANGED <<tdVars, driverVars, reg, doneHead, ctl, en, rmw, deliver, plugged,
                 waited, last, repeats>>

HcWalk(p) ==
  /\ hcPc = p /\ p \in {"control", "periodic"}
  /\ LET q == Len(queue[WalkOf(p)])
     IN  /\ chain' = <<>>
         /\ IF ListBit(p) \in ctl /\ ~halted[WalkOf(p)] /\ q > 0
            THEN /\ todo' = IF q < WalkMax THEN q ELSE WalkMax
                 /\ hcPc' = IF p = "control" THEN "moveControl" ELSE "movePad"
            ELSE /\ todo' = 0
                 /\ hcPc' = AfterWalk(p)
  /\ UNCHANGED <<tdVars, driverVars, reg, doneHead, ctl, en, rmw, deliver, plugged,
                 waited, last, repeats>>

\* ohci_do_td: what one TD does to the device, and whether it stalls.
Stalls(t) == kind[t] = "in" /\ setup.pending /\ setup.len < 0

HasPacket(t) == kind[t] = "in" /\ setup.pending /\ setup.sent < setup.len

DoTd(t) ==
  /\ setup' =
       CASE kind[t] = "setup"   -> [pending |-> TRUE, len |-> RespLen, sent |-> 0]
         [] kind[t] = "refused" -> [pending |-> TRUE, len |-> -1, sent |-> 0]
         [] Stalls(t)           -> [setup EXCEPT !.pending = FALSE]
         [] HasPacket(t)        -> [setup EXCEPT !.sent = @ + 1]
         [] kind[t] \in {"out", "rumble"} -> [setup EXCEPT !.pending = FALSE]
         [] OTHER               -> setup
  /\ packet' = [packet EXCEPT ![t] = IF HasPacket(t) THEN setup.sent + 1 ELSE 0]

\* Faulty: the done queue is linked oldest first.
HcMoveOldestFirst(e) ==
  /\ hcPc = IF e = "control" THEN "moveControl" ELSE "movePad"
  /\ todo > 0
  /\ LET t == Head(queue[e])
     IN  /\ DoTd(t)
         /\ queue' = [queue EXCEPT ![e] = Tail(@)]
         /\ chain' = Append(chain, t)
         /\ retired' = Append(retired, t)
         /\ halted' = [halted EXCEPT ![e] = Stalls(t)]
         /\ todo' = IF Stalls(t) THEN 0 ELSE todo - 1
  /\ UNCHANGED <<driverVars, reg, doneHead, kind, taken, hcPc, ctl, en, rmw, deliver,
                 plugged, waited, last, repeats>>

\* One TD: retired, put on the done queue newest first, and HeadP past it.
HcMove(e) ==
  /\ hcPc = IF e = "control" THEN "moveControl" ELSE "movePad"
  /\ todo > 0
  /\ LET t == Head(queue[e])
     IN  /\ DoTd(t)
         /\ queue' = [queue EXCEPT ![e] = Tail(@)]
         /\ chain' = <<t>> \o chain
         /\ retired' = Append(retired, t)
         /\ halted' = [halted EXCEPT ![e] = Stalls(t)]
         /\ todo' = IF Stalls(t) THEN 0 ELSE todo - 1
  /\ UNCHANGED <<driverVars, reg, doneHead, kind, taken, hcPc, ctl, en, rmw, deliver,
                 plugged, waited, last, repeats>>

\* Faulty: the done queue is published without the interrupt.
HcFinishSilent(e) ==
  /\ hcPc = IF e = "control" THEN "moveControl" ELSE "movePad"
  /\ todo = 0
  /\ doneHead' = chain
  /\ chain' = <<>>
  /\ HcModify("status", {}, {}, IF e = "control" THEN "frame" ELSE "status")
  /\ UNCHANGED <<tdVars, driverVars, ctl, en, todo, deliver, plugged, waited, last, repeats>>

\* ohci_finish_lists: the done queue is written over what the HCCA holds.
HcFinish(e) ==
  /\ hcPc = IF e = "control" THEN "moveControl" ELSE "movePad"
  /\ todo = 0
  /\ doneHead' = chain
  /\ chain' = <<>>
  /\ HcModify("status", {"WDH"}, {}, IF e = "control" THEN "frame" ELSE "status")
  /\ UNCHANGED <<tdVars, driverVars, ctl, en, todo, deliver, plugged, waited, last, repeats>>

\* A frame starts.
HcFrame ==
  /\ hcPc = "frame"
  /\ HcModify("status", {"SF"}, {}, "periodic")
  /\ UNCHANGED <<tdVars, driverVars, doneHead, hcVars>>

\* The status the driver unmasked, as of this tick's copy of the mask; the count of
\* deliveries of one status in a row, and the cap on it.
HcStatus ==
  /\ hcPc = "status"
  /\ LET s == reg["status"] \cap en
     IN  \/ /\ s = {} /\ hcPc' = "tick"
            /\ UNCHANGED <<deliver, last, repeats>>
         \/ /\ s # {} /\ s = last
            /\ repeats' = repeats + 1
            /\ IF repeats + 1 > MaxRepeats
               THEN hcPc' = "stopped" /\ deliver' = {}
               ELSE hcPc' = "raise" /\ deliver' = s
            /\ UNCHANGED last
         \/ /\ s # {} /\ s # last
            /\ last' = s /\ repeats' = 0
            /\ hcPc' = "raise" /\ deliver' = s
  /\ ctl' = {} /\ en' = {}
  /\ UNCHANGED <<tdVars, driverVars, reg, doneHead, chain, todo, rmw, plugged, waited>>

\* ohci_raise: the status is set once more, the mask read again, the routine called.
HcRaise ==
  /\ hcPc = "raise"
  /\ IF "MIE" \in enable /\ deliver \cap enable # {}
     THEN HcModify("status", deliver, {}, "isr")
     ELSE HcModify("status", deliver, {}, "tick")
  /\ UNCHANGED <<tdVars, driverVars, doneHead, ctl, en, chain, todo, deliver, plugged,
                 waited, last, repeats>>

\* The title's routine, on this thread: the done queue if there is one, and the
\* status it saw is cleared (ohci_write, HcInterruptStatus).
HcIsr ==
  /\ hcPc = "isr"
  /\ IF "WDH" \in reg["status"]
     THEN taken' = taken \o Reverse(doneHead) /\ doneHead' = <<>>
     ELSE UNCHANGED <<taken, doneHead>>
  /\ deliver' = {}
  /\ HcModify("status", {}, reg["status"], "tick")
  /\ UNCHANGED <<driverVars, queue, halted, kind, setup, retired, packet, ctl, en, chain,
                 todo, plugged, waited, last, repeats>>

\* No interrupt is connected yet, or no worker stack is free: nothing is called.
HcNotCallable ==
  /\ hcPc = "isr"
  /\ hcPc' = "tick" /\ deliver' = {}
  /\ UNCHANGED <<tdVars, driverVars, reg, doneHead, rmw, ctl, en, chain, todo, plugged,
                 waited, last, repeats>>

HcNext ==
  \/ HcStore \/ HcTick \/ HcPlug \/ HcPlugRaise \/ HcFrame \/ HcStatus \/ HcRaise
  \/ HcIsr \/ HcNotCallable
  \/ \E p \in {"control", "periodic"} : HcWalk(p)
  \/ \E e \in Ed : HcMove(e) \/ HcFinish(e)

-----------------------------------------------------------------------------
(* The driver's thread: ohci_write, and the descriptors it builds in memory. *)

driverIdle == op = NoOp

\* HcControl and HcInterruptEnable: the driver starts the controller and unmasks what it
\* wants to hear of, as often as it finds it reset.
DriverStart ==
  /\ driverIdle /\ "operational" \notin control
  /\ control' = {"operational", "CLE", "PLE"}
  /\ \E m \in Masks : enable' = enable \cup m
  /\ UNCHANGED <<tdVars, hcVars, reg, doneHead, hcPc, rmw, op, writes, budget>>

\* HcInterruptDisable and HcInterruptEnable: the driver masks the controller for a while.
DriverMask ==
  /\ driverIdle /\ writes < budget.writes
  /\ enable # {}
  /\ enable' = IF "MIE" \in enable THEN enable \ {"MIE"} ELSE enable \cup {"MIE"}
  /\ writes' = writes + 1
  /\ UNCHANGED <<tdVars, hcVars, control, reg, doneHead, hcPc, rmw, op, budget>>

\* HcCommandStatus with HCR: back to reset, status and mask cleared.
DriverReset ==
  /\ driverIdle /\ writes < budget.writes
  /\ control' = control \ {"operational"}
  /\ enable' = {}
  /\ reg' = [reg EXCEPT !["status"] = {}]
  /\ writes' = writes + 1
  /\ UNCHANGED <<tdVars, hcVars, doneHead, hcPc, rmw, op, budget>>

\* HcRhPortStatus1, SetPortReset: the port comes back enabled if a device is there,
\* then RHSC is set; and the write that clears the port's change bits.
DriverPort ==
  /\ driverIdle /\ writes < budget.writes
  /\ writes' = writes + 1
  /\ \/ op' = [reg |-> "port", load |-> reg["port"], clear |-> {}, next |-> "RHSC",
               set |-> {"PRSC"} \cup (IF "CCS" \in reg["port"] THEN {"PES"} ELSE {})]
     \/ op' = [reg |-> "port", load |-> reg["port"], set |-> {},
               clear |-> {"CSC", "PRSC"}, next |-> "none"]
  /\ UNCHANGED <<tdVars, hcVars, control, enable, reg, doneHead, hcPc, rmw, budget>>

DriverStore ==
  /\ ~driverIdle /\ op.reg # "load"
  /\ reg' = [reg EXCEPT ![op.reg] = (op.load \cup op.set) \ op.clear]
  /\ op' = IF op.next = "RHSC" THEN [NoOp EXCEPT !.reg = "load"] ELSE NoOp
  /\ UNCHANGED <<tdVars, hcVars, control, enable, doneHead, hcPc, rmw, writes, budget>>

DriverRaise ==
  /\ op.reg = "load"
  /\ op' = [reg |-> "status", load |-> reg["status"], set |-> {"RHSC"}, clear |-> {},
            next |-> "none"]
  /\ UNCHANGED <<tdVars, hcVars, control, enable, reg, doneHead, hcPc, rmw, writes, budget>>

\* What goes to which endpoint.
KindsOf(e) == IF e = "control" THEN ControlKinds ELSE PadKinds

\* A TD at the tail of an endpoint's queue.
Submit(e, k) ==
  /\ k \in KindsOf(e)
  /\ \E t \in 1 .. budget.tds :
       /\ kind[t] = "free" /\ \A s \in 1 .. (t - 1) : kind[s] # "free"
       /\ kind' = [kind EXCEPT ![t] = k]
       /\ queue' = [queue EXCEPT ![e] = Append(@, t)]
  /\ UNCHANGED <<driverVars, hcVars, reg, doneHead, halted, setup, retired, taken, packet,
                 hcPc, rmw>>

\* The driver clears the halt the stall left.
DriverUnhalt(e) ==
  /\ halted[e] /\ hcPc \notin {"moveControl", "movePad"}
  /\ halted' = [halted EXCEPT ![e] = FALSE]
  /\ UNCHANGED <<driverVars, hcVars, reg, doneHead, queue, kind, setup, retired, taken,
                 packet, hcPc, rmw>>

DriverNext ==
  \/ DriverStart \/ DriverMask \/ DriverReset \/ DriverPort \/ DriverStore \/ DriverRaise
  \/ \E e \in Ed : (\E k \in ControlKinds \cup PadKinds : Submit(e, k)) \/ DriverUnhalt(e)

UsbNext == HcNext \/ DriverNext
UsbSpec == UsbInit /\ [][UsbNext]_usbVars

\* The thread ticks for as long as the process lives, and a store follows its load; a
\* worker stack is busy only while another worker runs, so the routine is not refused
\* for ever.
UsbFair ==
  /\ WF_usbVars(HcNext)
  /\ SF_usbVars(HcIsr)
  /\ WF_usbVars(DriverStore \/ DriverRaise)

UsbFairSpec == UsbSpec /\ UsbFair

-----------------------------------------------------------------------------
(* Properties. *)

IsRmw(r) ==
  /\ r.reg \in {"none", "load", "status", "port"}
  /\ r.load \subseteq Sources \cup PortBit
  /\ r.set \subseteq Sources \cup PortBit /\ r.clear \subseteq Sources \cup PortBit

UsbTypeOK ==
  /\ control \subseteq {"operational", "CLE", "PLE"}
  /\ enable \subseteq {"MIE"} \cup Sources
  /\ reg["status"] \subseteq Sources /\ reg["port"] \subseteq PortBit
  /\ \A e \in Ed : queue[e] \in Seq(Td)
  /\ halted \in [Ed -> BOOLEAN]
  /\ kind \in [Td -> {"free"} \cup ControlKinds \cup PadKinds]
  /\ setup.len \in -1 .. RespLen /\ setup.sent \in 0 .. RespLen
  /\ doneHead \in Seq(Td) /\ chain \in Seq(Td)
  /\ packet \in [Td -> 0 .. RespLen]
  /\ todo \in 0 .. WalkMax
  /\ waited \in 0 .. MaxWait + 1 /\ repeats \in 0 .. MaxRepeats + 1
  /\ last \subseteq Sources /\ deliver \subseteq Sources
  /\ IsRmw(rmw) /\ IsRmw(op)

\* Each TD is retired once, the TDs of an endpoint, whatever their kinds, in the order they
\* were queued (TDs are numbered in that order), and the driver learns of them in the order
\* they were retired and of none twice -- although the done queue is linked newest first and
\* both lists share it (ohci_run_ed_list, ohci_finish_lists).
PlaceOf(t) == CHOOSE i \in DOMAIN retired : retired[i] = t
SameEndpoint(s, t) == \E e \in Ed : kind[s] \in KindsOf(e) /\ kind[t] \in KindsOf(e)

InOrder ==
  /\ \A i, j \in DOMAIN retired : i < j =>
       /\ retired[i] # retired[j]
       /\ SameEndpoint(retired[i], retired[j]) => retired[i] < retired[j]
  /\ \A i \in DOMAIN taken : taken[i] \in Range(retired)
  /\ \A i, j \in DOMAIN taken : i < j => PlaceOf(taken[i]) < PlaceOf(taken[j])

\* A control answer goes out one packet a TD, each from where the one before it stopped:
\* of two IN TDs retired with no SETUP between them, the later never gets a packet at or
\* before the earlier's ("sends the first eight bytes four times", ohci_do_td).
NoSetupBetween(i, j) == \A k \in i .. j : kind[retired[k]] \notin {"setup", "refused"}

AnswerGoesOn ==
  \A i, j \in DOMAIN retired :
    i < j /\ NoSetupBetween(i, j) /\ packet[retired[j]] > 0
      => packet[retired[i]] < packet[retired[j]]

\* A stall stops its endpoint until the driver clears the halt: no TD behind it moves in
\* this walk or a later one (ED_HEAD_HALT, ohci_run_ed_list).
StallHolds ==
  [][\A e \in Ed : halted[e] => Len(queue'[e]) >= Len(queue[e])]_usbVars

\* A driver that queues no more finds each endpoint drained or halted, if the controller
\* is left running with its master interrupt on and the thread has not given up: a queue
\* longer than one tick's walk is finished by later ticks.
HcRuns == "operational" \in control /\ "MIE" \in enable
GaveUp == hcPc = "stopped"

QueuesDrain ==
  <>[](HcRuns /\ ~GaveUp) => \A e \in Ed : <>[](queue[e] = <<>> \/ halted[e])

\* If the driver's thread leaves the status register alone, no done queue stays unread: the
\* routine is called for the last one however often it could not be called before.
DoneQueueRead ==
  <>[](HcRuns /\ ~GaveUp) /\ [](writes = 0) => []<>(doneHead = <<>>)

\* A tick's lists make one done queue: nothing is published over a done queue the driver
\* has not been told of (ohci.c:481-483).
OneDoneQueue ==
  [][(\E e \in Ed : HcFinish(e)) => (doneHead = <<>>)]_usbVars

\* Descriptors are retired once, those of an endpoint in the order they were queued, the
\* driver learns of them in the order they were retired, and an answer of several packets goes on where it was (ohci_run_ed_list).
UsbInv == UsbTypeOK /\ InOrder /\ AnswerGoesOn
=============================================================================
