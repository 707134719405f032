--------------------------- MODULE DevicesProofs ---------------------------
(***************************************************************************)
(* Proofs about the devices that share data with the title without a lock: *)
(* the USB controller's descriptors and done queue, the ring of sound      *)
(* frames, and the list of voices.                                         *)
(*                                                                         *)
(* Of the USB controller the invariant says where each descriptor is:      *)
(* queued behind all that were retired from its endpoint, or retired, and  *)
(* then with the driver, in the HCCA or in the walk under way, in the order*)
(* of retirement across the three.  Of the ring it says that what waits,   *)
(* and what is being copied in behind it, was written where its index says.*)
(* Of the voice list it says that it has an end, and that a voice about to *)
(* be linked in is outside it.                                             *)
(***************************************************************************)
EXTENDS UsbController, AudioRing, ApuVoices, SequenceTheorems, TLAPS

(* The controller thread's places, and the bits of each register.           *)
HcPlace == {"tick", "store", "plug", "plugged", "control", "moveControl", "frame",
            "periodic", "movePad", "status", "raise", "isr", "stopped"}
BitsOf(r) == IF r = "status" THEN Sources ELSE IF r = "port" THEN PortBit ELSE {}

(* A read-modify-write under way, of the bits the register has.             *)
Modifies(m) ==
  /\ m \in [reg : {"none", "load", "status", "port"}, load : SUBSET (Sources \cup PortBit),
            set : SUBSET (Sources \cup PortBit), clear : SUBSET (Sources \cup PortBit),
            next : (HcPlace \ {"store", "moveControl", "movePad", "stopped"}) \cup {"none", "RHSC"}]
  /\ m.load \subseteq BitsOf(m.reg) /\ m.set \subseteq BitsOf(m.reg)

UsbTypes ==
  /\ control \subseteq {"operational", "CLE", "PLE"}
  /\ enable \subseteq {"MIE"} \cup Sources
  /\ reg \in [{"status", "port"} -> SUBSET (Sources \cup PortBit)]
  /\ reg["status"] \subseteq Sources /\ reg["port"] \subseteq PortBit
  /\ queue \in [Ed -> Seq(Td)] /\ halted \in [Ed -> BOOLEAN]
  /\ kind \in [Td -> {"free"} \cup ControlKinds \cup PadKinds]
  /\ setup \in [pending : BOOLEAN, len : -1 .. RespLen, sent : 0 .. RespLen]
  /\ doneHead \in Seq(Td) /\ chain \in Seq(Td) /\ retired \in Seq(Td) /\ taken \in Seq(Td)
  /\ packet \in [Td -> 0 .. RespLen]
  /\ hcPc \in HcPlace /\ todo \in 0 .. WalkMax
  /\ waited \in 0 .. MaxWait + 1 /\ (hcPc = "stopped" \/ waited <= MaxWait)
  /\ repeats \in 0 .. MaxRepeats + 1 /\ (hcPc = "stopped" \/ repeats <= MaxRepeats)
  /\ last \subseteq Sources /\ deliver \subseteq Sources
  /\ Modifies(rmw) /\ (hcPc = "store" => rmw.reg \in {"status", "port"} /\ rmw.next \in HcPlace)
  /\ Modifies(op) /\ (op.reg = "none" => op = NoOp)
  /\ budget \in Budgets

(* While descriptors of an endpoint may still move they are there, and it   *)
(* is not halted.                                                           *)
MovesLive == \A e \in Ed :
  hcPc = (IF e = "control" THEN "moveControl" ELSE "movePad") =>
    todo <= Len(queue[e]) /\ (todo > 0 => ~halted[e])

(* The descriptors are queued in the order of their numbers, each on the    *)
(* endpoint its kind belongs to, behind all that were retired from it.      *)
TdsInOrder ==
  /\ \A s, t \in Td : s < t /\ kind[t] # "free" => kind[s] # "free"
  /\ \A e \in Ed : \A i \in DOMAIN queue[e] : kind[queue[e][i]] \in KindsOf(e)
  /\ \A e \in Ed : \A i, j \in DOMAIN queue[e] : i < j => queue[e][i] < queue[e][j]
  /\ \A i \in DOMAIN retired : kind[retired[i]] # "free"
  /\ \A e \in Ed : \A i \in DOMAIN retired, j \in DOMAIN queue[e] :
       kind[retired[i]] \in KindsOf(e) => retired[i] < queue[e][j]

(* Each was retired once, those of an endpoint in the order of their        *)
(* numbers.                                                                 *)
RetiredOnce ==
  \A i, j \in DOMAIN retired : i < j =>
    /\ retired[i] # retired[j]
    /\ SameEndpoint(retired[i], retired[j]) => retired[i] < retired[j]

(* What the driver has, what the HCCA holds for it and what the walk has    *)
(* linked were retired in that order; the two queues are newest first.      *)
DoneInOrder ==
  /\ \A i \in DOMAIN taken : taken[i] \in Range(retired)
  /\ \A i \in DOMAIN doneHead : doneHead[i] \in Range(retired)
  /\ \A i \in DOMAIN chain : chain[i] \in Range(retired)
  /\ \A i, j \in DOMAIN taken : i < j => PlaceOf(taken[i]) < PlaceOf(taken[j])
  /\ \A i, j \in DOMAIN doneHead : i < j => PlaceOf(doneHead[j]) < PlaceOf(doneHead[i])
  /\ \A i, j \in DOMAIN chain : i < j => PlaceOf(chain[j]) < PlaceOf(chain[i])
  /\ \A i \in DOMAIN taken, j \in DOMAIN doneHead : PlaceOf(taken[i]) < PlaceOf(doneHead[j])
  /\ \A i \in DOMAIN taken, j \in DOMAIN chain : PlaceOf(taken[i]) < PlaceOf(chain[j])
  /\ \A i \in DOMAIN doneHead, j \in DOMAIN chain : PlaceOf(doneHead[i]) < PlaceOf(chain[j])

(* The packets sent since the last SETUP are those up to g_setup_sent.      *)
SentSoFar ==
  \A i \in DOMAIN retired :
    NoSetupBetween(i, Len(retired)) => packet[retired[i]] <= setup.sent

UsbIInv == UsbTypes /\ MovesLive /\ TdsInOrder /\ RetiredOnce /\ DoneInOrder /\ SentSoFar /\ AnswerGoesOn

USE UsbAssumption

(* What pushing at either end, taking the head and turning round do to a    *)
(* sequence.                                                                *)
LEMMA Pushed ==
  ASSUME NEW S, NEW s \in Seq(S), NEW x \in S, NEW t, t = Append(s, x)
  PROVE  /\ t \in Seq(S) /\ DOMAIN s = 1 .. Len(s) /\ DOMAIN t = 1 .. Len(s) + 1
         /\ Len(t) = Len(s) + 1 /\ Len(s) \in Nat
         /\ \A i \in 1 .. Len(s) : t[i] = s[i]
         /\ t[Len(s) + 1] = x
<1>1. /\ t \in Seq(S) /\ Len(t) = Len(s) + 1
      /\ \A i \in 1 .. Len(s) : t[i] = s[i]
      /\ t[Len(s) + 1] = x
  BY AppendProperties
<1> QED BY <1>1, LenProperties

LEMMA Linked ==
  ASSUME NEW S, NEW s \in Seq(S), NEW x \in S, NEW t, t = <<x>> \o s
  PROVE  /\ t \in Seq(S) /\ DOMAIN s = 1 .. Len(s) /\ DOMAIN t = 1 .. Len(s) + 1
         /\ Len(s) \in Nat
         /\ t[1] = x
         /\ \A i \in 1 .. Len(s) : t[i + 1] = s[i]
<1>1. <<x>> \in Seq(S) /\ Len(<<x>>) = 1 /\ <<x>>[1] = x
  OBVIOUS
<1> QED BY <1>1, LenProperties, ConcatProperties

LEMMA Tailed ==
  ASSUME NEW S, NEW s \in Seq(S), s # <<>>, NEW t, t = Tail(s)
  PROVE  /\ t \in Seq(S) /\ Head(s) = s[1] /\ Head(s) \in S
         /\ Len(s) \in Nat \ {0} /\ DOMAIN s = 1 .. Len(s) /\ DOMAIN t = 1 .. Len(s) - 1
         /\ Len(t) = Len(s) - 1
         /\ \A i \in 1 .. Len(s) - 1 : t[i] = s[i + 1]
<1>1. Len(s) \in Nat \ {0} /\ DOMAIN s = 1 .. Len(s)
  BY EmptySeq, LenProperties
<1>2. t \in Seq(S) /\ Head(s) = s[1] /\ Head(s) \in S /\ Len(t) = Len(s) - 1
  BY HeadTailProperties
<1>3. DOMAIN t = 1 .. Len(s) - 1
  BY <1>2, LenProperties
<1>4. \A i \in 1 .. Len(s) - 1 : t[i] = s[i + 1]
  BY <1>1, <1>2, <1>3
<1> QED BY <1>1, <1>2, <1>3, <1>4

LEMMA Joined ==
  ASSUME NEW S, NEW s \in Seq(S), NEW u \in Seq(S), NEW t, t = s \o u
  PROVE  /\ t \in Seq(S) /\ Len(s) \in Nat /\ DOMAIN s = 1 .. Len(s)
         /\ DOMAIN t = 1 .. Len(s) + Len(u)
         /\ \A i \in 1 .. Len(s) + Len(u) : t[i] = IF i <= Len(s) THEN s[i] ELSE u[i - Len(s)]
<1>1. /\ t \in Seq(S) /\ Len(t) = Len(s) + Len(u)
      /\ \A i \in 1 .. Len(s) + Len(u) : t[i] = IF i <= Len(s) THEN s[i] ELSE u[i - Len(s)]
  BY ConcatProperties
<1> QED BY <1>1, LenProperties

LEMMA Turned ==
  ASSUME NEW S, NEW s \in Seq(S), NEW t, t = Reverse(s)
  PROVE  /\ t \in Seq(S) /\ Len(t) = Len(s) /\ Len(s) \in Nat
         /\ DOMAIN t = 1 .. Len(s) /\ DOMAIN s = 1 .. Len(s)
         /\ \A i \in 1 .. Len(s) : t[i] = s[Len(s) - i + 1] /\ Len(s) - i + 1 \in DOMAIN s
<1>1. Len(s) \in Nat /\ DOMAIN s = 1 .. Len(s) /\ \A i \in 1 .. Len(s) : s[i] \in S
  BY LenProperties, ElementOfSeq
<1>2. t = [i \in 1 .. Len(s) |-> s[(Len(s) - i) + 1]]
  BY DEF Reverse
<1>3. \A i \in 1 .. Len(s) : Len(s) - i + 1 \in 1 .. Len(s)
  BY <1>1
<1>4. t \in [1 .. Len(s) -> S]
  BY <1>1, <1>2, <1>3
<1>5. t \in Seq(S) /\ Len(t) = Len(s)
  BY <1>1, <1>4, IsASeq, LenProperties
<1> QED BY <1>1, <1>2, <1>3, <1>5

LEMMA InitUsb == UsbInit => UsbIInv
<1> SUFFICES ASSUME UsbInit PROVE UsbIInv
  OBVIOUS
<1>1. UsbTypes
  BY DEF UsbInit, UsbTypes, Modifies, NoOp, BitsOf, HcPlace, Ed, Td
<1>2. MovesLive /\ TdsInOrder /\ RetiredOnce /\ DoneInOrder /\ SentSoFar /\ AnswerGoesOn
  BY DEF UsbInit, MovesLive, TdsInOrder, RetiredOnce, DoneInOrder, SentSoFar, AnswerGoesOn, Ed, Td
<1> QED BY <1>1, <1>2 DEF UsbIInv

(* A load leaves a read-modify-write behind, and a store keeps the register *)
(* to its own bits.                                                         *)
LEMMA LoadedBits ==
  ASSUME UsbTypes, NEW r \in {"status", "port"}, NEW s \in SUBSET BitsOf(r),
         NEW c \in SUBSET (Sources \cup PortBit),
         NEW n \in HcPlace \ {"store", "moveControl", "movePad", "stopped"}, HcModify(r, s, c, n)
  PROVE  /\ Modifies(rmw)' /\ rmw'.reg \in {"status", "port"} /\ rmw'.next \in HcPlace
         /\ hcPc' = "store" /\ reg' = reg
<1>1. reg[r] \subseteq BitsOf(r) /\ BitsOf(r) \subseteq Sources \cup PortBit
  BY DEF UsbTypes, BitsOf
<1> QED BY <1>1 DEF HcModify, Modifies

LEMMA StoredBits ==
  ASSUME UsbTypes, NEW m, Modifies(m), m.reg \in {"status", "port"},
         reg' = [reg EXCEPT ![m.reg] = (m.load \cup m.set) \ m.clear]
  PROVE  /\ reg' \in [{"status", "port"} -> SUBSET (Sources \cup PortBit)]
         /\ reg'["status"] \subseteq Sources /\ reg'["port"] \subseteq PortBit
BY DEF UsbTypes, Modifies, BitsOf

LEMMA NoOpTypes == Modifies(NoOp)
BY DEF Modifies, NoOp, HcPlace, BitsOf

(* The controller's thread. *)
LEMMA StoreTypes == ASSUME UsbTypes, HcStore PROVE UsbTypes'
<1>1. /\ Modifies(rmw) /\ rmw.reg \in {"status", "port"} /\ rmw.next \in HcPlace
      /\ rmw.next # "store" /\ rmw.next # "stopped"
  BY DEF UsbTypes, HcStore, Modifies, HcPlace
<1>2. /\ reg' \in [{"status", "port"} -> SUBSET (Sources \cup PortBit)]
      /\ reg'["status"] \subseteq Sources /\ reg'["port"] \subseteq PortBit
  BY <1>1, StoredBits DEF HcStore
<1> QED
  BY <1>1, <1>2, NoOpTypes DEF UsbTypes, HcStore, tdVars, hcVars, driverVars

LEMMA TickTypes == ASSUME UsbTypes, HcTick PROVE UsbTypes'
<1>1. waited \in 0 .. MaxWait
  BY DEF UsbTypes, HcTick
<1>2. waited' \in 0 .. MaxWait + 1 /\ (hcPc' = "stopped" \/ waited' <= MaxWait) /\ hcPc' \in HcPlace
      /\ hcPc' # "store"
  BY <1>1 DEF HcTick, HcPlace
<1>3. hcPc = "tick"
  BY DEF HcTick
<1> QED
  BY <1>2, <1>3 DEF UsbTypes, HcTick, tdVars, driverVars

LEMMA PlugTypes == ASSUME UsbTypes, HcPlug PROVE UsbTypes'
<1>0. {"CCS", "CSC"} \in SUBSET BitsOf("port") /\ {} \in SUBSET (Sources \cup PortBit)
  BY DEF BitsOf, PortBit
<1>1. CASE HcModify("port", {"CCS", "CSC"}, {}, "plugged")
  <2>1. "plugged" \in HcPlace \ {"store", "moveControl", "movePad", "stopped"}
    BY DEF HcPlace
  <2>2. /\ Modifies(rmw)' /\ rmw'.reg \in {"status", "port"} /\ rmw'.next \in HcPlace
        /\ hcPc' = "store" /\ reg' = reg
    BY <1>0, <1>1, <2>1, LoadedBits
  <2> QED BY <2>2 DEF UsbTypes, HcPlug, HcPlace, tdVars, driverVars
<1>2. CASE hcPc' = "control" /\ UNCHANGED <<reg, rmw, plugged>>
  BY <1>2 DEF UsbTypes, HcPlug, HcPlace, tdVars, driverVars
<1> QED BY <1>1, <1>2 DEF HcPlug

LEMMA PlugRaiseTypes == ASSUME UsbTypes, HcPlugRaise PROVE UsbTypes'
<1>0. {"RHSC"} \in SUBSET BitsOf("status") /\ {} \in SUBSET (Sources \cup PortBit)
  BY DEF BitsOf, Sources
<1>1. "control" \in HcPlace \ {"store", "moveControl", "movePad", "stopped"}
  BY DEF HcPlace
<1>2. /\ Modifies(rmw)' /\ rmw'.reg \in {"status", "port"} /\ rmw'.next \in HcPlace
      /\ hcPc' = "store" /\ reg' = reg
  BY <1>0, <1>1, LoadedBits DEF HcPlugRaise
<1> QED BY <1>2 DEF UsbTypes, HcPlugRaise, HcPlace, tdVars, driverVars, hcVars

LEMMA FrameTypes == ASSUME UsbTypes, HcFrame PROVE UsbTypes'
<1>0. {"SF"} \in SUBSET BitsOf("status") /\ {} \in SUBSET (Sources \cup PortBit)
  BY DEF BitsOf, Sources
<1>1. "periodic" \in HcPlace \ {"store", "moveControl", "movePad", "stopped"}
  BY DEF HcPlace
<1>2. /\ Modifies(rmw)' /\ rmw'.reg \in {"status", "port"} /\ rmw'.next \in HcPlace
      /\ hcPc' = "store" /\ reg' = reg
  BY <1>0, <1>1, LoadedBits DEF HcFrame
<1> QED BY <1>2 DEF UsbTypes, HcFrame, HcPlace, tdVars, driverVars, hcVars

LEMMA StatusTypes == ASSUME UsbTypes, HcStatus PROVE UsbTypes'
<1>1. repeats \in 0 .. MaxRepeats /\ waited <= MaxWait /\ hcPc = "status"
  BY DEF UsbTypes, HcStatus
<1>2. PICK s : s = reg["status"] \cap en
  OBVIOUS
<1>3. s \subseteq Sources
  BY <1>2 DEF UsbTypes
<1>4. /\ hcPc' \in {"tick", "stopped", "raise"}
      /\ last' \subseteq Sources /\ deliver' \subseteq Sources
      /\ repeats' \in 0 .. MaxRepeats + 1 /\ (hcPc' = "stopped" \/ repeats' <= MaxRepeats)
  BY <1>1, <1>2, <1>3 DEF UsbTypes, HcStatus
<1>5. /\ UNCHANGED <<tdVars, driverVars, reg, doneHead, chain, todo, rmw, plugged, waited>>
  BY DEF HcStatus
<1> HIDE DEF HcStatus
<1> QED BY <1>1, <1>4, <1>5 DEF UsbTypes, HcPlace, tdVars, driverVars

LEMMA RaiseTypes == ASSUME UsbTypes, HcRaise PROVE UsbTypes'
<1>0. deliver \in SUBSET BitsOf("status") /\ {} \in SUBSET (Sources \cup PortBit)
  BY DEF BitsOf, UsbTypes
<1>1. /\ "isr" \in HcPlace \ {"store", "moveControl", "movePad", "stopped"}
      /\ "tick" \in HcPlace \ {"store", "moveControl", "movePad", "stopped"}
  BY DEF HcPlace
<1>2. HcModify("status", deliver, {}, "isr") \/ HcModify("status", deliver, {}, "tick")
  BY DEF HcRaise
<1>3. /\ Modifies(rmw)' /\ rmw'.reg \in {"status", "port"} /\ rmw'.next \in HcPlace
      /\ hcPc' = "store" /\ reg' = reg
  BY <1>0, <1>1, <1>2, LoadedBits
<1> QED BY <1>3 DEF UsbTypes, HcRaise, HcPlace, tdVars, driverVars

LEMMA NotCallableTypes == ASSUME UsbTypes, HcNotCallable PROVE UsbTypes'
BY DEF UsbTypes, HcNotCallable, HcPlace, tdVars, driverVars

LEMMA WalkTypes == ASSUME UsbTypes, NEW p, HcWalk(p) PROVE UsbTypes'
<1>1. PICK q : q = Len(queue[WalkOf(p)])
  OBVIOUS
<1>2. q \in Nat
  <2>1. queue[WalkOf(p)] \in Seq(Td)
    BY DEF UsbTypes, WalkOf, Ed
  <2> QED BY <1>1, <2>1, LenProperties
<1>3. /\ todo' \in 0 .. WalkMax /\ chain' = <<>>
      /\ hcPc' \in {"moveControl", "movePad", "frame", "status"}
  BY <1>1, <1>2 DEF HcWalk, AfterWalk
<1>4. chain' \in Seq(Td)
  BY <1>3
<1>5. /\ UNCHANGED <<tdVars, driverVars, reg, doneHead, ctl, en, rmw, deliver, plugged,
                     waited, last, repeats>>
      /\ hcPc # "stopped" /\ hcPc # "store"
  BY DEF HcWalk
<1> QED BY <1>3, <1>4, <1>5 DEF UsbTypes, HcPlace, tdVars, driverVars

LEMMA FinishTypes == ASSUME UsbTypes, NEW e \in Ed, HcFinish(e) PROVE UsbTypes'
<1>0. {"WDH"} \in SUBSET BitsOf("status") /\ {} \in SUBSET (Sources \cup PortBit)
  BY DEF BitsOf, Sources
<1>1. /\ "frame" \in HcPlace \ {"store", "moveControl", "movePad", "stopped"}
      /\ "status" \in HcPlace \ {"store", "moveControl", "movePad", "stopped"}
  BY DEF HcPlace
<1>2. HcModify("status", {"WDH"}, {}, "frame") \/ HcModify("status", {"WDH"}, {}, "status")
  BY DEF HcFinish
<1>3. /\ Modifies(rmw)' /\ rmw'.reg \in {"status", "port"} /\ rmw'.next \in HcPlace
      /\ hcPc' = "store" /\ reg' = reg
  BY <1>0, <1>1, <1>2, LoadedBits
<1>4. /\ doneHead' = chain /\ chain' = <<>> /\ hcPc # "stopped"
      /\ UNCHANGED <<tdVars, driverVars, ctl, en, todo, deliver, plugged, waited, last, repeats>>
  BY DEF HcFinish
<1>5. chain' \in Seq(Td)
  BY <1>4
<1> QED BY <1>3, <1>4, <1>5 DEF UsbTypes, HcPlace, tdVars, driverVars

LEMMA IsrTypes == ASSUME UsbTypes, HcIsr PROVE UsbTypes'
<1>0. reg["status"] \in SUBSET (Sources \cup PortBit) /\ {} \in SUBSET BitsOf("status")
  BY DEF UsbTypes
<1>1. "tick" \in HcPlace \ {"store", "moveControl", "movePad", "stopped"}
  BY DEF HcPlace
<1>2. /\ Modifies(rmw)' /\ rmw'.reg \in {"status", "port"} /\ rmw'.next \in HcPlace
      /\ hcPc' = "store" /\ reg' = reg
  BY <1>0, <1>1, LoadedBits DEF HcIsr
<1>3. taken' \in Seq(Td) /\ doneHead' \in Seq(Td)
  <2>1. doneHead \in Seq(Td) /\ taken \in Seq(Td)
    BY DEF UsbTypes
  <2>2. taken \o Reverse(doneHead) \in Seq(Td) /\ <<>> \in Seq(Td)
    BY <2>1, Turned, ConcatProperties
  <2> QED BY <2>1, <2>2 DEF HcIsr
<1>4. /\ deliver' = {} /\ hcPc # "stopped"
      /\ UNCHANGED <<driverVars, queue, halted, kind, setup, retired, packet, ctl, en, chain,
                     todo, plugged, waited, last, repeats>>
  BY DEF HcIsr
<1> QED BY <1>2, <1>3, <1>4 DEF UsbTypes, HcPlace, driverVars

(* One descriptor: what it does to the answer under way.                    *)
LEMMA DoesTd ==
  ASSUME UsbTypes, NEW t \in Td, DoTd(t)
  PROVE  /\ setup' \in [pending : BOOLEAN, len : -1 .. RespLen, sent : 0 .. RespLen]
         /\ packet' \in [Td -> 0 .. RespLen]
         /\ \A u \in Td : u # t => packet'[u] = packet[u]
         /\ packet'[t] # 0 => packet'[t] = setup.sent + 1 /\ setup'.sent = setup.sent + 1
         /\ kind[t] \notin {"setup", "refused"} => setup.sent <= setup'.sent
<1>1. setup \in [pending : BOOLEAN, len : -1 .. RespLen, sent : 0 .. RespLen]
  BY DEF UsbTypes
<1>2. HasPacket(t) => setup.sent + 1 \in 0 .. RespLen
  BY <1>1 DEF HasPacket
<1>3. HasPacket(t) => ~Stalls(t) /\ kind[t] = "in"
  BY <1>1 DEF HasPacket, Stalls
<1>4. setup' \in [pending : BOOLEAN, len : -1 .. RespLen, sent : 0 .. RespLen]
      /\ (kind[t] \notin {"setup", "refused"} => setup'.sent = IF HasPacket(t) THEN setup.sent + 1 ELSE setup.sent)
  <2>1. CASE kind[t] = "setup"
    <3>1. setup' = [pending |-> TRUE, len |-> RespLen, sent |-> 0]
      BY <2>1 DEF DoTd, Stalls, HasPacket
    <3> QED BY <2>1, <3>1
  <2>2. CASE kind[t] = "refused"
    <3>1. setup' = [pending |-> TRUE, len |-> -1, sent |-> 0]
      BY <2>2 DEF DoTd, Stalls, HasPacket
    <3> QED BY <2>2, <3>1
  <2>3. CASE Stalls(t)
    <3>1. setup' = [setup EXCEPT !.pending = FALSE] /\ ~HasPacket(t)
      BY <1>3, <2>3 DEF DoTd, Stalls
    <3> QED BY <1>1, <3>1
  <2>4. CASE HasPacket(t)
    <3>1. setup' = [setup EXCEPT !.sent = setup.sent + 1]
      BY <1>3, <2>4 DEF DoTd
    <3> QED BY <1>1, <1>2, <2>4, <3>1
  <2>5. CASE kind[t] \in {"out", "rumble"}
    <3>1. setup' = [setup EXCEPT !.pending = FALSE] /\ ~HasPacket(t)
      BY <2>5 DEF DoTd, Stalls, HasPacket
    <3> QED BY <1>1, <3>1
  <2>6. CASE kind[t] \notin {"setup", "refused", "out", "rumble"} /\ ~Stalls(t) /\ ~HasPacket(t)
    <3>1. setup' = setup
      BY <2>6 DEF DoTd
    <3> QED BY <1>1, <2>6, <3>1
  <2> QED BY <2>1, <2>2, <2>3, <2>4, <2>5, <2>6
<1>5. packet \in [Td -> 0 .. RespLen]
      /\ packet' = [packet EXCEPT ![t] = IF HasPacket(t) THEN setup.sent + 1 ELSE 0]
  BY DEF UsbTypes, DoTd
<1>6. /\ packet' \in [Td -> 0 .. RespLen] /\ \A u \in Td : u # t => packet'[u] = packet[u]
      /\ packet'[t] = IF HasPacket(t) THEN setup.sent + 1 ELSE 0
  BY <1>2, <1>5
<1>7. setup.sent \in Nat
  BY <1>1
<1> QED BY <1>3, <1>4, <1>6, <1>7

(* One descriptor moves. *)
LEMMA MoveTypes == ASSUME UsbTypes, NEW e \in Ed, HcMove(e), queue[e] # <<>> PROVE UsbTypes'
<1>1. PICK t : t = Head(queue[e])
  OBVIOUS
<1>2. /\ DoTd(t) /\ queue' = [queue EXCEPT ![e] = Tail(queue[e])]
      /\ chain' = <<t>> \o chain /\ retired' = Append(retired, t)
      /\ halted' = [halted EXCEPT ![e] = Stalls(t)]
      /\ todo' = (IF Stalls(t) THEN 0 ELSE todo - 1) /\ todo > 0
      /\ UNCHANGED <<driverVars, reg, doneHead, kind, taken, hcPc, ctl, en, rmw, deliver,
                     plugged, waited, last, repeats>>
  BY <1>1 DEF HcMove
<1>3. queue[e] \in Seq(Td) /\ chain \in Seq(Td) /\ retired \in Seq(Td)
  BY DEF UsbTypes
<1>4. t \in Td /\ Tail(queue[e]) \in Seq(Td)
  BY <1>1, <1>3, Tailed
<1>5. chain' \in Seq(Td) /\ retired' \in Seq(Td)
  BY <1>2, <1>3, <1>4, Pushed, Linked
<1>6. setup' \in [pending : BOOLEAN, len : -1 .. RespLen, sent : 0 .. RespLen]
  BY <1>2, <1>4, DoesTd
<1>7. packet' \in [Td -> 0 .. RespLen]
  BY <1>2, <1>4, DoesTd
<1>8. halted' \in [Ed -> BOOLEAN] /\ todo' \in 0 .. WalkMax
  <2>1. Stalls(t) \in BOOLEAN
    BY DEF Stalls
  <2>2. halted \in [Ed -> BOOLEAN] /\ todo \in 0 .. WalkMax
    BY DEF UsbTypes
  <2> QED BY <1>2, <2>1, <2>2
<1>9. queue' \in [Ed -> Seq(Td)]
  BY <1>2, <1>4 DEF UsbTypes
<1> QED BY <1>2, <1>5, <1>6, <1>7, <1>8, <1>9 DEF UsbTypes, driverVars

(* The driver's thread. *)
LEMMA DriverTypes ==
  ASSUME UsbTypes, DriverStart \/ DriverMask \/ DriverReset \/ DriverPort \/ DriverStore \/ DriverRaise
  PROVE  UsbTypes'
<1>1. CASE DriverStart
  BY <1>1 DEF UsbTypes, DriverStart, tdVars, hcVars, Sources
<1>2. CASE DriverMask
  BY <1>2 DEF UsbTypes, DriverMask, tdVars, hcVars
<1>3. CASE DriverReset
  <2>1. /\ reg' \in [{"status", "port"} -> SUBSET (Sources \cup PortBit)]
        /\ reg'["status"] \subseteq Sources /\ reg'["port"] \subseteq PortBit
    BY <1>3 DEF UsbTypes, DriverReset
  <2> QED BY <1>3, <2>1 DEF UsbTypes, DriverReset, tdVars, hcVars
<1>4. CASE DriverPort
  <2>1. /\ reg["port"] \subseteq PortBit /\ op'.reg = "port"
        /\ op' \in [reg : {"port"}, load : {reg["port"]}, clear : {{}, {"CSC", "PRSC"}},
                    next : {"RHSC", "none"}, set : SUBSET {"PRSC", "PES"}]
    BY <1>4 DEF UsbTypes, DriverPort
  <2>2. Modifies(op')
    BY <2>1 DEF Modifies, BitsOf, PortBit
  <2> QED BY <1>4, <2>1, <2>2 DEF UsbTypes, DriverPort, tdVars, hcVars, Modifies
<1>5. CASE DriverStore
  <2>1. Modifies(op) /\ op.reg \in {"status", "port"}
    BY <1>5 DEF UsbTypes, DriverStore, driverIdle, Modifies
  <2>2. /\ reg' \in [{"status", "port"} -> SUBSET (Sources \cup PortBit)]
        /\ reg'["status"] \subseteq Sources /\ reg'["port"] \subseteq PortBit
    BY <1>5, <2>1, StoredBits DEF DriverStore
  <2>3. Modifies(op') /\ (op'.reg = "none" => op' = NoOp)
    <3>1. op' = NoOp \/ op' = [reg |-> "load", load |-> {}, set |-> {}, clear |-> {}, next |-> "none"]
      BY <1>5 DEF DriverStore, NoOp
    <3> QED BY <3>1, NoOpTypes DEF Modifies, BitsOf
  <2> QED BY <1>5, <2>2, <2>3 DEF UsbTypes, DriverStore, tdVars, hcVars, Modifies
<1>6. CASE DriverRaise
  <2>1. reg["status"] \subseteq Sources
    BY DEF UsbTypes
  <2>2. Modifies(op') /\ op'.reg = "status"
    BY <1>6, <2>1 DEF DriverRaise, Modifies, BitsOf, Sources
  <2> QED BY <1>6, <2>2 DEF UsbTypes, DriverRaise, tdVars, hcVars, Modifies
<1> QED BY <1>1, <1>2, <1>3, <1>4, <1>5, <1>6

(* Queueing a descriptor: it is the first free one, so all before it are in *)
(* use.                                                                     *)
LEMMA Submits ==
  ASSUME UsbTypes, NEW e \in Ed, NEW k, Submit(e, k)
  PROVE  \E t \in Td :
           /\ kind[t] = "free" /\ \A s \in Td : s < t => kind[s] # "free"
           /\ k \in KindsOf(e)
           /\ kind' = [kind EXCEPT ![t] = k]
           /\ queue' = [queue EXCEPT ![e] = Append(queue[e], t)]
           /\ UNCHANGED <<driverVars, hcVars, reg, doneHead, halted, setup, retired, taken,
                          packet, hcPc, rmw>>
<1>1. budget.tds \in 0 .. MaxTd
  BY DEF UsbTypes
<1>2. \A t \in 1 .. budget.tds : t \in Td /\ \A s \in Td : s < t => s \in 1 .. (t - 1)
  BY <1>1 DEF Td
<1> QED BY <1>2 DEF Submit, KindsOf

LEMMA SubmitTypes == ASSUME UsbTypes, NEW e \in Ed, NEW k, Submit(e, k) PROVE UsbTypes'
<1> PICK t \in Td :
      /\ k \in KindsOf(e)
      /\ kind' = [kind EXCEPT ![t] = k]
      /\ queue' = [queue EXCEPT ![e] = Append(queue[e], t)]
      /\ UNCHANGED <<driverVars, hcVars, reg, doneHead, halted, setup, retired, taken,
                     packet, hcPc, rmw>>
  BY Submits
<1>1. Append(queue[e], t) \in Seq(Td)
  <2>1. queue[e] \in Seq(Td)
    BY DEF UsbTypes
  <2> QED BY <2>1, AppendProperties
<1>2. queue' \in [Ed -> Seq(Td)]
  BY <1>1 DEF UsbTypes
<1>3. kind' \in [Td -> {"free"} \cup ControlKinds \cup PadKinds]
  BY DEF UsbTypes, KindsOf
<1> QED BY <1>2, <1>3 DEF UsbTypes, driverVars, hcVars

LEMMA UnhaltTypes == ASSUME UsbTypes, NEW e \in Ed, DriverUnhalt(e) PROVE UsbTypes'
BY DEF UsbTypes, DriverUnhalt, driverVars, hcVars

(* A descriptor that moves was there to move.                               *)
LEMMA MoveIs ==
  ASSUME UsbTypes, MovesLive, NEW e \in Ed, HcMove(e)
  PROVE  queue[e] # <<>> /\ todo <= Len(queue[e]) /\ ~halted[e]
<1>1. todo > 0 /\ todo <= Len(queue[e]) /\ ~halted[e]
  BY DEF HcMove, MovesLive
<1>2. todo \in Nat /\ Len(<<>>) = 0
  BY DEF UsbTypes
<1> QED BY <1>1, <1>2

LEMMA NextTypes == ASSUME UsbTypes, MovesLive, [UsbNext]_usbVars PROVE UsbTypes'
<1>1. CASE UNCHANGED usbVars
  BY <1>1 DEF usbVars, UsbTypes
<1>2. CASE HcNext
  BY <1>2, StoreTypes, TickTypes, PlugTypes, PlugRaiseTypes, FrameTypes, StatusTypes, RaiseTypes,
     IsrTypes, NotCallableTypes, WalkTypes, MoveTypes, MoveIs, FinishTypes DEF HcNext
<1>3. CASE DriverNext
  BY <1>3, DriverTypes, SubmitTypes, UnhaltTypes DEF DriverNext
<1> QED BY <1>1, <1>2, <1>3 DEF UsbNext

LEMMA NextMoves == ASSUME UsbTypes, MovesLive, [UsbNext]_usbVars PROVE MovesLive'
<1> USE DEF Ed
<1>1. CASE UNCHANGED <<hcPc, todo, queue, halted>>
  BY <1>1 DEF MovesLive
<1>2. CASE hcPc' \notin {"moveControl", "movePad"}
  BY <1>2 DEF MovesLive
<1>3. ASSUME NEW p \in {"control", "periodic"}, HcWalk(p) PROVE MovesLive'
  <2>1. PICK q : q = Len(queue[WalkOf(p)])
    OBVIOUS
  <2>2. q \in Nat
    <3>1. queue[WalkOf(p)] \in Seq(Td)
      BY DEF UsbTypes, WalkOf
    <3> QED BY <2>1, <3>1, LenProperties
  <2>3. CASE hcPc' = (IF p = "control" THEN "moveControl" ELSE "movePad")
    <3>1. ~halted[WalkOf(p)] /\ todo' <= q /\ queue' = queue /\ halted' = halted
      BY <1>3, <2>1, <2>2, <2>3 DEF HcWalk, AfterWalk, tdVars
    <3> QED BY <2>1, <2>3, <3>1 DEF MovesLive, WalkOf
  <2>4. CASE hcPc' = AfterWalk(p)
    BY <1>2, <2>4 DEF AfterWalk
  <2> QED BY <1>3, <2>3, <2>4 DEF HcWalk
<1>4. ASSUME NEW e \in Ed, HcMove(e) PROVE MovesLive'
  <2>1. queue[e] # <<>> /\ todo <= Len(queue[e]) /\ queue[e] \in Seq(Td)
    BY <1>4, MoveIs DEF UsbTypes
  <2>2. todo \in Nat \ {0} /\ queue' = [queue EXCEPT ![e] = Tail(queue[e])] /\ hcPc' = hcPc
        /\ \E t : halted' = [halted EXCEPT ![e] = Stalls(t)] /\ todo' = IF Stalls(t) THEN 0 ELSE todo - 1
    <3>1. todo \in Nat /\ todo > 0 => todo \in Nat \ {0}
      OBVIOUS
    <3>2. todo \in Nat
      BY DEF UsbTypes
    <3> QED BY <1>4, <3>1, <3>2 DEF HcMove
  <2>3. Len(Tail(queue[e])) = Len(queue[e]) - 1 /\ Len(queue[e]) \in Nat \ {0}
    BY <2>1, Tailed
  <2>4. queue'[e] = Tail(queue[e]) /\ Len(queue'[e]) = Len(queue[e]) - 1
    BY <2>2, <2>3 DEF UsbTypes
  <2>5. todo' <= Len(queue'[e])
    BY <2>1, <2>2, <2>3, <2>4
  <2>6. todo' > 0 => ~halted'[e]
    BY <2>2 DEF UsbTypes
  <2>7. hcPc' = IF e = "control" THEN "moveControl" ELSE "movePad"
    BY <1>4, <2>2 DEF HcMove
  <2> QED BY <2>5, <2>6, <2>7 DEF MovesLive
<1>5. ASSUME NEW e \in Ed, NEW k, Submit(e, k) PROVE MovesLive'
  <2>1. PICK t \in Td : queue' = [queue EXCEPT ![e] = Append(queue[e], t)]
                        /\ UNCHANGED <<halted, hcPc, todo>>
    BY <1>5, Submits DEF hcVars
  <2>2. queue[e] \in Seq(Td) /\ queue \in [Ed -> Seq(Td)]
    BY DEF UsbTypes
  <2>3. Len(Append(queue[e], t)) = Len(queue[e]) + 1 /\ Len(queue[e]) \in Nat
    BY <2>2, Pushed
  <2>4. \A d \in Ed : Len(queue'[d]) >= Len(queue[d]) /\ Len(queue[d]) \in Nat /\ Len(queue'[d]) \in Nat
    <3>1. \A d \in Ed : Len(queue[d]) \in Nat
      BY <2>2, LenProperties
    <3>2. \A d \in Ed : queue'[d] = IF d = e THEN Append(queue[e], t) ELSE queue[d]
      BY <2>1, <2>2
    <3>3. ASSUME NEW d \in Ed, d # e PROVE queue'[d] = queue[d] /\ Len(queue'[d]) = Len(queue[d])
      BY <3>2, <3>3
    <3>4. queue'[e] = Append(queue[e], t) /\ Len(queue'[e]) = Len(queue[e]) + 1
      BY <2>3, <3>2
    <3> QED BY <3>1, <3>3, <3>4
  <2>5. todo \in Nat
    BY DEF UsbTypes
  <2> QED BY <2>1, <2>4, <2>5 DEF MovesLive
<1>6. ASSUME NEW e \in Ed, DriverUnhalt(e) PROVE MovesLive'
  <2>1. hcPc' \notin {"moveControl", "movePad"}
    BY <1>6 DEF DriverUnhalt
  <2> QED BY <1>2, <2>1
<1>7. CASE HcStore
  <2>1. hcPc' = rmw.next /\ rmw.next \notin {"moveControl", "movePad"}
    BY <1>7 DEF HcStore, UsbTypes, Modifies
  <2> QED BY <1>2, <2>1
<1>8. CASE HcTick \/ HcPlug \/ HcPlugRaise \/ HcFrame \/ HcStatus \/ HcRaise \/ HcIsr \/ HcNotCallable
  BY <1>2, <1>8 DEF HcTick, HcPlug, HcPlugRaise, HcFrame, HcStatus, HcRaise, HcIsr, HcNotCallable,
                    HcModify
<1>9. ASSUME NEW e \in Ed, HcFinish(e) PROVE MovesLive'
  BY <1>2, <1>9 DEF HcFinish, HcModify
<1>10. CASE DriverStart \/ DriverMask \/ DriverReset \/ DriverPort \/ DriverStore \/ DriverRaise
  BY <1>1, <1>10 DEF DriverStart, DriverMask, DriverReset, DriverPort, DriverStore, DriverRaise,
                     tdVars, hcVars
<1>11. CASE UNCHANGED usbVars
  BY <1>1, <1>11 DEF usbVars
<1> QED
  BY <1>3, <1>4, <1>5, <1>6, <1>7, <1>8, <1>9, <1>10, <1>11 DEF UsbNext, HcNext, DriverNext

(* A stall stops its endpoint until the driver clears the halt, for any     *)
(* number of descriptors and any series of walks (ohci_run_ed_list).        *)
THEOREM StalledStays == UsbSpec => StallHolds
<1>1. UsbInit => UsbTypes /\ MovesLive
  BY InitUsb DEF UsbIInv
<1>2. UsbTypes /\ MovesLive /\ [UsbNext]_usbVars => (UsbTypes /\ MovesLive)'
  BY NextTypes, NextMoves
<1>3. ASSUME UsbTypes, MovesLive, UsbNext, NEW e \in Ed, halted[e] PROVE Len(queue'[e]) >= Len(queue[e])
  <2>1. queue \in [Ed -> Seq(Td)] /\ Len(queue[e]) \in Nat
    <3>1. queue \in [Ed -> Seq(Td)]
      BY <1>3 DEF UsbTypes
    <3> QED BY <3>1, LenProperties
  <2>2. CASE queue'[e] = queue[e]
    BY <2>1, <2>2
  <2>3. ASSUME NEW d \in Ed, HcMove(d) PROVE queue'[e] = queue[e]
    <3>1. d # e /\ queue' = [queue EXCEPT ![d] = Tail(queue[d])]
      BY <1>3, <2>3, MoveIs DEF HcMove
    <3> QED BY <2>1, <3>1
  <2>4. ASSUME NEW d \in Ed, NEW k, Submit(d, k) PROVE Len(queue'[e]) >= Len(queue[e])
    <3>1. PICK t \in Td : queue' = [queue EXCEPT ![d] = Append(queue[d], t)]
      BY <1>3, <2>4, Submits
    <3>2. CASE d = e
      <4>1. queue'[e] = Append(queue[e], t) /\ queue[e] \in Seq(Td)
        BY <2>1, <3>1, <3>2
      <4>2. Len(queue'[e]) = Len(queue[e]) + 1
        BY <4>1, Pushed
      <4> QED BY <2>1, <4>2
    <3> QED BY <2>1, <2>2, <3>1, <3>2
  <2>5. CASE UNCHANGED queue
    BY <2>2, <2>5
  <2> QED
    BY <1>3, <2>2, <2>3, <2>4, <2>5 DEF UsbNext, HcNext, DriverNext, HcStore, HcTick, HcPlug, HcPlugRaise,
       HcFrame, HcStatus, HcRaise, HcIsr, HcNotCallable, HcWalk, HcFinish, DriverStart, DriverMask,
       DriverReset, DriverPort, DriverStore, DriverRaise, DriverUnhalt, tdVars
<1>4. UsbTypes /\ MovesLive /\ [UsbNext]_usbVars =>
        [\A e \in Ed : halted[e] => Len(queue'[e]) >= Len(queue[e])]_usbVars
  BY <1>3
<1> QED BY <1>1, <1>2, <1>4, PTL DEF UsbSpec, StallHolds

(* The place of a descriptor in the order of retirement.                    *)
LEMMA PlaceIs ==
  ASSUME NEW s, NEW i \in DOMAIN s, \A j \in DOMAIN s : s[j] = s[i] => j = i
  PROVE  (CHOOSE j \in DOMAIN s : s[j] = s[i]) = i
<1> DEFINE p == CHOOSE j \in DOMAIN s : s[j] = s[i]
<1>1. p \in DOMAIN s /\ s[p] = s[i]
  OBVIOUS
<1> HIDE DEF p
<1>2. p = i
  BY <1>1
<1> QED BY <1>2 DEF p

LEMMA InRange == \A s, x : x \in Range(s) <=> \E i \in DOMAIN s : s[i] = x
BY DEF Range

UsbOrder == TdsInOrder /\ RetiredOnce /\ DoneInOrder /\ SentSoFar /\ AnswerGoesOn

LEMMA OrderKept ==
  ASSUME UsbOrder, UNCHANGED <<queue, kind, setup, retired, taken, packet, doneHead, chain>>
  PROVE  UsbOrder'
<1>1. RetiredOnce'
  BY DEF UsbOrder, RetiredOnce, SameEndpoint
<1>2. TdsInOrder' /\ SentSoFar' /\ AnswerGoesOn'
  BY DEF UsbOrder, TdsInOrder, SentSoFar, AnswerGoesOn, NoSetupBetween
<1>3. DoneInOrder'
  BY DEF UsbOrder, DoneInOrder, PlaceOf
<1> QED BY <1>1, <1>2, <1>3 DEF UsbOrder

LEMMA WalkOrder == ASSUME UsbOrder, NEW p, HcWalk(p) PROVE UsbOrder'
<1>1. chain' = <<>> /\ UNCHANGED <<queue, kind, setup, retired, taken, packet, doneHead>>
  BY DEF HcWalk, tdVars
<1>2. DOMAIN chain' = {}
  BY <1>1
<1>3. (TdsInOrder /\ RetiredOnce /\ SentSoFar /\ AnswerGoesOn)'
  BY <1>1 DEF UsbOrder, TdsInOrder, RetiredOnce, SameEndpoint, SentSoFar, AnswerGoesOn, NoSetupBetween
<1>4. DoneInOrder'
  BY <1>1, <1>2 DEF UsbOrder, DoneInOrder, PlaceOf
<1> QED BY <1>3, <1>4 DEF UsbOrder

LEMMA FinishOrder == ASSUME UsbOrder, NEW e, HcFinish(e) PROVE UsbOrder'
<1>1. /\ chain' = <<>> /\ doneHead' = chain
      /\ UNCHANGED <<queue, kind, setup, retired, taken, packet>>
  BY DEF HcFinish, tdVars
<1>2. DOMAIN chain' = {}
  BY <1>1
<1>3. (TdsInOrder /\ RetiredOnce /\ SentSoFar /\ AnswerGoesOn)'
  BY <1>1 DEF UsbOrder, TdsInOrder, RetiredOnce, SameEndpoint, SentSoFar, AnswerGoesOn, NoSetupBetween
<1>4. DoneInOrder'
  BY <1>1, <1>2 DEF UsbOrder, DoneInOrder, PlaceOf
<1> QED BY <1>3, <1>4 DEF UsbOrder

LEMMA IsrOrder == ASSUME UsbTypes, UsbOrder, HcIsr PROVE UsbOrder'
<1>1. UNCHANGED <<queue, kind, setup, retired, packet, chain>>
  BY DEF HcIsr
<1>2. CASE UNCHANGED <<taken, doneHead>>
  BY <1>1, <1>2, OrderKept
<1>3. CASE taken' = taken \o Reverse(doneHead) /\ doneHead' = <<>>
  <2>1. taken \in Seq(Td) /\ doneHead \in Seq(Td)
    BY DEF UsbTypes
  <2>2. PICK r : r = Reverse(doneHead)
    OBVIOUS
  <2>3. PICK n, m : n = Len(taken) /\ m = Len(doneHead)
    OBVIOUS
  <2>4. /\ r \in Seq(Td) /\ Len(r) = m /\ m \in Nat /\ DOMAIN doneHead = 1 .. m
        /\ \A i \in 1 .. m : r[i] = doneHead[m - i + 1] /\ m - i + 1 \in DOMAIN doneHead
    BY <2>1, <2>2, <2>3, Turned
  <2>5. /\ n \in Nat /\ DOMAIN taken = 1 .. n
        /\ DOMAIN taken' = 1 .. n + m
        /\ \A i \in 1 .. n + m : taken'[i] = IF i <= n THEN taken[i] ELSE r[i - n]
    <3>1. taken' = taken \o r
      BY <1>3, <2>2
    <3>2. Len(taken) = n /\ Len(r) = m
      BY <2>3, <2>4
    <3>3. /\ Len(taken) \in Nat /\ DOMAIN taken = 1 .. Len(taken)
          /\ DOMAIN taken' = 1 .. Len(taken) + Len(r)
          /\ \A i \in 1 .. Len(taken) + Len(r) :
               taken'[i] = IF i <= Len(taken) THEN taken[i] ELSE r[i - Len(taken)]
      <4>1. taken \in Seq(Td) /\ r \in Seq(Td)
        BY <2>1, <2>4
      <4>2. \A i \in 1 .. Len(taken) + Len(r) :
               taken'[i] = IF i <= Len(taken) THEN taken[i] ELSE r[i - Len(taken)]
        BY <4>1, <3>1, Joined
      <4>3. DOMAIN taken' = 1 .. Len(taken) + Len(r)
        BY <4>1, <3>1, Joined
      <4>4. Len(taken) \in Nat /\ DOMAIN taken = 1 .. Len(taken)
        BY <4>1, LenProperties
      <4> QED BY <4>2, <4>3, <4>4
    <3> QED BY <3>2, <3>3
  <2>6. DOMAIN taken' = 1 .. n + m
    BY <2>5
  <2>7. ASSUME NEW i \in DOMAIN taken' PROVE
          \/ i \in DOMAIN taken /\ taken'[i] = taken[i]
          \/ i > n /\ n + m - i + 1 \in DOMAIN doneHead /\ taken'[i] = doneHead[n + m - i + 1]
    <3>1. i \in Int /\ 1 <= i /\ i <= n + m
      BY <2>4, <2>5, <2>6, <2>7
    <3>2. CASE i <= n
      BY <2>4, <2>5, <3>1, <3>2
    <3>3. CASE i > n
      <4>1. i - n \in 1 .. m /\ m - (i - n) + 1 = n + m - i + 1
        BY <2>4, <2>5, <3>1, <3>3
      <4>2. taken'[i] = r[i - n]
        BY <2>4, <2>5, <3>1, <3>3
      <4> QED BY <2>4, <3>3, <4>1, <4>2
    <3> QED BY <2>5, <3>1, <3>2, <3>3
  <2>8. \A t : PlaceOf(t)' = PlaceOf(t)
    BY <1>1 DEF PlaceOf
  <2>9. DOMAIN doneHead' = {}
    BY <1>3
  <2>10. \A i \in DOMAIN taken' : taken'[i] \in Range(retired)
    BY <2>7 DEF UsbOrder, DoneInOrder
  <2>11. ASSUME NEW i \in DOMAIN taken', NEW j \in DOMAIN taken', i < j
         PROVE  PlaceOf(taken'[i]) < PlaceOf(taken'[j])
    <3>1. CASE i \in DOMAIN taken /\ taken'[i] = taken[i] /\ j \in DOMAIN taken /\ taken'[j] = taken[j]
      BY <2>11, <3>1 DEF UsbOrder, DoneInOrder
    <3>2. CASE /\ i \in DOMAIN taken /\ taken'[i] = taken[i]
               /\ n + m - j + 1 \in DOMAIN doneHead /\ taken'[j] = doneHead[n + m - j + 1]
      BY <3>2 DEF UsbOrder, DoneInOrder
    <3>3. CASE /\ n + m - i + 1 \in DOMAIN doneHead /\ taken'[i] = doneHead[n + m - i + 1]
               /\ n + m - j + 1 \in DOMAIN doneHead /\ taken'[j] = doneHead[n + m - j + 1]
      <4>1. n + m - j + 1 < n + m - i + 1
        BY <2>4, <2>5, <2>6, <2>11
      <4> QED BY <3>3, <4>1 DEF UsbOrder, DoneInOrder
    <3>4. i > n => j > n
      BY <2>4, <2>5, <2>6, <2>11
    <3>5. \A x \in DOMAIN taken : ~(x > n)
      BY <2>5
    <3> QED BY <2>7, <3>1, <3>2, <3>3, <3>4, <3>5
  <2>12. \A i \in DOMAIN taken', j \in DOMAIN chain : PlaceOf(taken'[i]) < PlaceOf(chain[j])
    BY <2>7 DEF UsbOrder, DoneInOrder
  <2>13. DoneInOrder'
    BY <1>1, <2>8, <2>9, <2>10, <2>11, <2>12 DEF UsbOrder, DoneInOrder
  <2>14. (TdsInOrder /\ RetiredOnce /\ SentSoFar /\ AnswerGoesOn)'
    BY <1>1 DEF UsbOrder, TdsInOrder, RetiredOnce, SameEndpoint, SentSoFar, AnswerGoesOn, NoSetupBetween
  <2> QED BY <2>13, <2>14 DEF UsbOrder
<1> QED BY <1>2, <1>3 DEF HcIsr

(* A descriptor that is queued comes after all others.                      *)
LEMMA SubmitOrder == ASSUME UsbTypes, UsbOrder, NEW e \in Ed, NEW k, Submit(e, k) PROVE UsbOrder'
<1> PICK t \in Td :
      /\ kind[t] = "free" /\ \A s \in Td : s < t => kind[s] # "free"
      /\ k \in KindsOf(e)
      /\ kind' = [kind EXCEPT ![t] = k]
      /\ queue' = [queue EXCEPT ![e] = Append(queue[e], t)]
      /\ UNCHANGED <<driverVars, hcVars, reg, doneHead, halted, setup, retired, taken,
                     packet, hcPc, rmw>>
  BY Submits
<1>1. /\ kind \in [Td -> {"free"} \cup ControlKinds \cup PadKinds]
      /\ queue \in [Ed -> Seq(Td)] /\ retired \in Seq(Td) /\ queue[e] \in Seq(Td)
      /\ Td \subseteq Nat
  BY DEF UsbTypes, Td
<1>2. k # "free"
  BY DEF KindsOf
<1>3. /\ kind'[t] = k /\ \A s \in Td : s # t => kind'[s] = kind[s]
  BY <1>1
<1>4. \A s \in Td : kind[s] # "free" => s < t
  BY <1>1 DEF UsbOrder, TdsInOrder
<1>5. \A i \in DOMAIN retired : retired[i] \in Td /\ kind[retired[i]] # "free" /\ kind'[retired[i]] = kind[retired[i]]
  <2>1. \A i \in DOMAIN retired : retired[i] \in Td
    BY <1>1, LenProperties, ElementOfSeq
  <2> QED BY <1>3, <2>1 DEF UsbOrder, TdsInOrder
<1>6. PICK q : q = Append(queue[e], t)
  OBVIOUS
<1>7. /\ DOMAIN queue[e] = 1 .. Len(queue[e]) /\ DOMAIN q = 1 .. Len(queue[e]) + 1 /\ Len(queue[e]) \in Nat
      /\ \A i \in 1 .. Len(queue[e]) : q[i] = queue[e][i]
      /\ q[Len(queue[e]) + 1] = t
  BY <1>1, <1>6, Pushed
<1>8. queue'[e] = q /\ \A d \in Ed : d # e => queue'[d] = queue[d]
  BY <1>1, <1>6
<1>9. \A d \in Ed : \A i \in DOMAIN queue[d] :
        queue[d][i] \in Td /\ kind[queue[d][i]] # "free" /\ kind'[queue[d][i]] = kind[queue[d][i]]
        /\ queue[d][i] < t
  <2>1. \A d \in Ed : \A i \in DOMAIN queue[d] : queue[d][i] \in Td
    BY <1>1, LenProperties, ElementOfSeq
  <2>2. \A d \in Ed : "free" \notin KindsOf(d)
    BY DEF KindsOf
  <2> QED BY <1>3, <1>4, <2>1, <2>2 DEF UsbOrder, TdsInOrder
<1>10. ASSUME NEW d \in Ed, NEW i \in DOMAIN queue'[d]
       PROVE  \/ i \in DOMAIN queue[d] /\ queue'[d][i] = queue[d][i]
              \/ d = e /\ i = Len(queue[e]) + 1 /\ queue'[d][i] = t
  BY <1>7, <1>8, <1>10
<1>11. ASSUME NEW a \in Td, NEW b \in Td, a < b, kind'[b] # "free" PROVE kind'[a] # "free"
  BY <1>1, <1>2, <1>3, <1>11 DEF UsbOrder, TdsInOrder
<1>12. ASSUME NEW d \in Ed, NEW i \in DOMAIN queue'[d] PROVE kind'[queue'[d][i]] \in KindsOf(d)
  BY <1>3, <1>9, <1>10, <1>12 DEF UsbOrder, TdsInOrder
<1>13. ASSUME NEW d \in Ed, NEW i \in DOMAIN queue'[d], NEW j \in DOMAIN queue'[d], i < j
       PROVE  queue'[d][i] < queue'[d][j]
  <2>1. CASE j \in DOMAIN queue[d] /\ queue'[d][j] = queue[d][j]
    <3>1. i \in DOMAIN queue[d] /\ queue'[d][i] = queue[d][i]
      <4>1. d = e => j \in 1 .. Len(queue[e])
        BY <1>7, <2>1
      <4> QED BY <1>7, <1>10, <1>13, <4>1
    <3> QED BY <1>13, <2>1, <3>1 DEF UsbOrder, TdsInOrder
  <2>2. CASE d = e /\ j = Len(queue[e]) + 1 /\ queue'[d][j] = t
    <3>1. i \in DOMAIN queue[d] /\ queue'[d][i] = queue[d][i]
      BY <1>7, <1>10, <1>13, <2>2
    <3> QED BY <1>9, <2>2, <3>1
  <2> QED BY <1>10, <2>1, <2>2
<1>14. ASSUME NEW d \in Ed, NEW i \in DOMAIN retired, NEW j \in DOMAIN queue'[d],
              kind[retired[i]] \in KindsOf(d)
       PROVE  retired[i] < queue'[d][j]
  <2>1. CASE j \in DOMAIN queue[d] /\ queue'[d][j] = queue[d][j]
    BY <1>14, <2>1 DEF UsbOrder, TdsInOrder
  <2>2. CASE queue'[d][j] = t
    BY <1>4, <1>5, <2>2
  <2> QED BY <1>10, <2>1, <2>2
<1>15. TdsInOrder'
  BY <1>5, <1>11, <1>12, <1>13, <1>14 DEF TdsInOrder, UsbOrder, KindsOf
<1>16. RetiredOnce'
  <2>1. \A i, j \in DOMAIN retired :
          SameEndpoint(retired[i], retired[j])' <=> SameEndpoint(retired[i], retired[j])
    BY <1>5 DEF SameEndpoint
  <2> QED BY <1>5, <2>1 DEF UsbOrder, RetiredOnce
<1>17. DoneInOrder'
  BY DEF UsbOrder, DoneInOrder, PlaceOf, hcVars
<1>18. \A i, j \in DOMAIN retired : NoSetupBetween(i, j)' <=> NoSetupBetween(i, j)
  <2>1. DOMAIN retired = 1 .. Len(retired) /\ Len(retired) \in Nat
    BY <1>1, LenProperties
  <2>2. \A i, j \in DOMAIN retired : \A l \in i .. j : l \in DOMAIN retired
    BY <2>1
  <2> QED BY <1>5, <2>2 DEF NoSetupBetween
<1>19. \A i \in DOMAIN retired : Len(retired) \in DOMAIN retired
  BY <1>1, LenProperties
<1>20. SentSoFar' /\ AnswerGoesOn'
  BY <1>18, <1>19 DEF UsbOrder, SentSoFar, AnswerGoesOn
<1> QED BY <1>15, <1>16, <1>17, <1>20 DEF UsbOrder

(* A descriptor that moves is the oldest of its endpoint, and the newest of *)
(* all that were retired.                                                   *)
LEMMA MoveOrder == ASSUME UsbTypes, MovesLive, UsbOrder, NEW e \in Ed, HcMove(e) PROVE UsbOrder'
<1>1. PICK t : t = Head(queue[e])
  OBVIOUS
<1>2. PICK q : q = Tail(queue[e])
  OBVIOUS
<1>3. /\ DoTd(t) /\ queue' = [queue EXCEPT ![e] = q]
      /\ chain' = <<t>> \o chain /\ retired' = Append(retired, t)
      /\ UNCHANGED <<doneHead, kind, taken>>
  BY <1>1, <1>2 DEF HcMove
<1>4. /\ queue[e] \in Seq(Td) /\ chain \in Seq(Td) /\ retired \in Seq(Td) /\ queue[e] # <<>>
      /\ queue \in [Ed -> Seq(Td)] /\ Td \subseteq Nat
      /\ kind \in [Td -> {"free"} \cup ControlKinds \cup PadKinds]
  <2>1. queue[e] # <<>>
    BY MoveIs
  <2> QED BY <2>1 DEF UsbTypes, Td
<1>5. PICK n : n = Len(retired)
  OBVIOUS
<1>6. /\ t = queue[e][1] /\ t \in Td /\ 1 \in DOMAIN queue[e]
      /\ \A i \in DOMAIN q : q[i] = queue[e][i + 1] /\ i + 1 \in DOMAIN queue[e] /\ i + 1 > 1
  <2>1. /\ Head(queue[e]) = queue[e][1] /\ Head(queue[e]) \in Td
        /\ Len(queue[e]) \in Nat \ {0} /\ DOMAIN queue[e] = 1 .. Len(queue[e])
        /\ DOMAIN q = 1 .. Len(queue[e]) - 1
        /\ \A i \in 1 .. Len(queue[e]) - 1 : q[i] = queue[e][i + 1]
    BY <1>2, <1>4, Tailed
  <2> QED BY <1>1, <2>1
<1>7. /\ DOMAIN retired = 1 .. n /\ DOMAIN retired' = 1 .. n + 1 /\ n \in Nat /\ Len(retired') = n + 1
      /\ \A i \in 1 .. n : retired'[i] = retired[i] /\ retired[i] \in Td
      /\ retired'[n + 1] = t
  <2>1. /\ DOMAIN retired = 1 .. Len(retired) /\ DOMAIN retired' = 1 .. Len(retired) + 1
        /\ Len(retired') = Len(retired) + 1 /\ Len(retired) \in Nat
        /\ \A i \in 1 .. Len(retired) : retired'[i] = retired[i]
        /\ retired'[Len(retired) + 1] = t
    BY <1>3, <1>4, <1>6, Pushed
  <2>2. \A i \in 1 .. Len(retired) : retired[i] \in Td
    BY <1>4, <2>1, ElementOfSeq
  <2> QED BY <1>5, <2>1, <2>2
<1>8. kind[t] \in KindsOf(e) /\ kind[t] # "free"
  BY <1>6 DEF UsbOrder, TdsInOrder, KindsOf
<1>9. \A d \in Ed : kind[t] \in KindsOf(d) => d = e
  BY <1>8 DEF KindsOf, Ed
<1>10. ASSUME NEW i \in 1 .. n PROVE retired[i] # t /\ (SameEndpoint(retired[i], t) => retired[i] < t)
  <2>1. kind[retired[i]] \in KindsOf(e) => retired[i] < t
    BY <1>6, <1>7 DEF UsbOrder, TdsInOrder
  <2>2. retired[i] \in Nat /\ t \in Nat
    BY <1>4, <1>6, <1>7
  <2>3. SameEndpoint(retired[i], t) => kind[retired[i]] \in KindsOf(e)
    BY <1>9 DEF SameEndpoint
  <2>4. retired[i] = t => kind[retired[i]] \in KindsOf(e)
    BY <1>8
  <2> QED BY <2>1, <2>2, <2>3, <2>4
<1>11. queue'[e] = q /\ \A d \in Ed : d # e => queue'[d] = queue[d]
  BY <1>3, <1>4
<1>12. TdsInOrder'
  <2>1. ASSUME NEW d \in Ed, NEW i \in DOMAIN queue'[d] PROVE kind[queue'[d][i]] \in KindsOf(d)
    BY <1>6, <1>11, <2>1 DEF UsbOrder, TdsInOrder
  <2>2. ASSUME NEW d \in Ed, NEW i \in DOMAIN queue'[d], NEW j \in DOMAIN queue'[d], i < j
        PROVE  queue'[d][i] < queue'[d][j]
    <3>1. CASE d # e
      BY <1>11, <2>2, <3>1 DEF UsbOrder, TdsInOrder
    <3>2. CASE d = e
      <4>1. i + 1 < j + 1 /\ i + 1 \in DOMAIN queue[e] /\ j + 1 \in DOMAIN queue[e]
        <5>1. DOMAIN q \subseteq Int
          BY <1>2, <1>4, Tailed
        <5> QED BY <1>6, <1>11, <2>2, <3>2, <5>1
      <4> QED BY <1>6, <1>11, <3>2, <4>1 DEF UsbOrder, TdsInOrder
    <3> QED BY <3>1, <3>2
  <2>3. ASSUME NEW d \in Ed, NEW i \in DOMAIN retired', NEW j \in DOMAIN queue'[d],
               kind[retired'[i]] \in KindsOf(d)
        PROVE  retired'[i] < queue'[d][j]
    <3>1. CASE i \in 1 .. n
      BY <1>6, <1>7, <1>11, <2>3, <3>1 DEF UsbOrder, TdsInOrder
    <3>2. CASE i = n + 1
      <4>1. d = e /\ retired'[i] = queue[e][1] /\ queue'[d][j] = queue[e][j + 1] /\ 1 < j + 1
            /\ j + 1 \in DOMAIN queue[e]
        BY <1>6, <1>7, <1>9, <1>11, <2>3, <3>2
      <4> QED BY <1>6, <4>1 DEF UsbOrder, TdsInOrder
    <3> QED BY <1>7, <3>1, <3>2
  <2>4. \A i \in DOMAIN retired' : kind[retired'[i]] # "free"
    BY <1>7, <1>8 DEF UsbOrder, TdsInOrder
  <2>5. kind' = kind
    BY <1>3
  <2>6. \A a, b \in Td : a < b /\ kind[b] # "free" => kind[a] # "free"
    BY DEF UsbOrder, TdsInOrder
  <2> QED BY <2>1, <2>2, <2>3, <2>4, <2>5, <2>6 DEF TdsInOrder, KindsOf
<1>13. RetiredOnce'
  <2> SUFFICES ASSUME NEW i \in DOMAIN retired', NEW j \in DOMAIN retired', i < j
               PROVE  retired'[i] # retired'[j]
                      /\ (SameEndpoint(retired'[i], retired'[j]) => retired'[i] < retired'[j])
    BY <1>3 DEF RetiredOnce, SameEndpoint
  <2>1. i \in 1 .. n /\ (j \in 1 .. n \/ j = n + 1)
    BY <1>7
  <2> QED BY <1>7, <1>10, <2>1 DEF UsbOrder, RetiredOnce
<1>14. UsbTypes'
  BY MoveTypes, MoveIs
<1>0. ASSUME NEW i \in DOMAIN retired' PROVE \A x : retired'[i] = x => PlaceOf(x)' = i
  <2>1. \A j \in DOMAIN retired' : retired'[j] = retired'[i] => j = i
    BY <1>7, <1>13 DEF RetiredOnce
  <2>2. (CHOOSE j \in DOMAIN retired' : retired'[j] = retired'[i]) = i
    BY <2>1, PlaceIs
  <2> QED BY <2>2 DEF PlaceOf
<1>15. ASSUME NEW x, x \in Range(retired) PROVE
         x \in Range(retired') /\ PlaceOf(x)' = PlaceOf(x) /\ PlaceOf(x) \in 1 .. n
  <2>1. PICK i \in DOMAIN retired : retired[i] = x
    BY <1>15, InRange
  <2>2. PlaceOf(x) = i
    <3>1. \A j \in DOMAIN retired : retired[j] = retired[i] => j = i
      BY <1>7 DEF UsbOrder, RetiredOnce
    <3>2. (CHOOSE j \in DOMAIN retired : retired[j] = retired[i]) = i
      BY <3>1, PlaceIs
    <3> QED BY <2>1, <3>2 DEF PlaceOf
  <2>3. i \in DOMAIN retired' /\ retired'[i] = x
    BY <1>7, <2>1
  <2>4. PlaceOf(x)' = i
    BY <1>0, <2>3
  <2> QED BY <1>7, <2>1, <2>2, <2>3, <2>4, InRange
<1>16. t \in Range(retired') /\ PlaceOf(t)' = n + 1
  <2>1. n + 1 \in DOMAIN retired' /\ retired'[n + 1] = t
    BY <1>7
  <2>2. PlaceOf(t)' = n + 1
    BY <1>0, <2>1
  <2> QED BY <2>1, <2>2, InRange
<1>17. DoneInOrder'
  <2>1. /\ DOMAIN chain = 1 .. Len(chain) /\ DOMAIN chain' = 1 .. Len(chain) + 1 /\ Len(chain) \in Nat
        /\ chain'[1] = t
        /\ \A i \in 1 .. Len(chain) : chain'[i + 1] = chain[i]
    BY <1>3, <1>4, <1>6, Linked
  <2>2. ASSUME NEW i \in DOMAIN chain'
        PROVE  \/ i = 1 /\ chain'[i] = t
               \/ i > 1 /\ i - 1 \in DOMAIN chain /\ chain'[i] = chain[i - 1]
    <3>1. i = 1 \/ (i > 1 /\ i - 1 \in 1 .. Len(chain) /\ i = (i - 1) + 1)
      BY <2>1, <2>2
    <3> QED BY <2>1, <3>1
  <2>3. taken' = taken /\ doneHead' = doneHead
    BY <1>3
  <2>4. /\ \A i \in DOMAIN taken : taken[i] \in Range(retired)
        /\ \A i \in DOMAIN doneHead : doneHead[i] \in Range(retired)
        /\ \A i \in DOMAIN chain : chain[i] \in Range(retired)
    BY DEF UsbOrder, DoneInOrder
  <2>5. /\ \A i \in DOMAIN taken : taken[i] \in Range(retired')
        /\ \A i \in DOMAIN doneHead : doneHead[i] \in Range(retired')
        /\ \A i \in DOMAIN chain' : chain'[i] \in Range(retired')
    BY <1>15, <1>16, <2>2, <2>4
  <2>6. ASSUME NEW i \in DOMAIN taken, NEW j \in DOMAIN taken, i < j
        PROVE  PlaceOf(taken[i])' < PlaceOf(taken[j])'
    BY <1>3, <1>15, <2>4, <2>6 DEF UsbOrder, DoneInOrder
  <2>7. ASSUME NEW i \in DOMAIN doneHead, NEW j \in DOMAIN doneHead, i < j
        PROVE  PlaceOf(doneHead[j])' < PlaceOf(doneHead[i])'
    BY <1>3, <1>15, <2>4, <2>7 DEF UsbOrder, DoneInOrder
  <2>8. ASSUME NEW i \in DOMAIN chain', NEW j \in DOMAIN chain', i < j
        PROVE  PlaceOf(chain[j])' < PlaceOf(chain[i])'
    <3>1. CASE i = 1 /\ chain'[i] = t
      BY <1>7, <1>15, <1>16, <2>2, <2>4, <2>8, <3>1
    <3>2. CASE i > 1 /\ i - 1 \in DOMAIN chain /\ chain'[i] = chain[i - 1]
      <4>1. j > 1 /\ j - 1 \in DOMAIN chain /\ chain'[j] = chain[j - 1] /\ i - 1 < j - 1
        BY <2>1, <2>2, <2>8, <3>2
      <4> QED BY <1>15, <2>4, <3>2, <4>1 DEF UsbOrder, DoneInOrder
    <3> QED BY <2>2, <3>1, <3>2
  <2>9. ASSUME NEW i \in DOMAIN taken, NEW j \in DOMAIN doneHead
        PROVE  PlaceOf(taken[i])' < PlaceOf(doneHead[j])'
    BY <1>3, <1>15, <2>4 DEF UsbOrder, DoneInOrder
  <2>10. ASSUME NEW i \in DOMAIN taken, NEW j \in DOMAIN chain'
         PROVE  PlaceOf(taken[i])' < PlaceOf(chain[j])'
    <3>1. CASE chain'[j] = t
      BY <1>3, <1>7, <1>15, <1>16, <2>4, <3>1
    <3>2. CASE j - 1 \in DOMAIN chain /\ chain'[j] = chain[j - 1]
      BY <1>3, <1>15, <2>4, <3>2 DEF UsbOrder, DoneInOrder
    <3> QED BY <2>2, <3>1, <3>2
  <2>11. ASSUME NEW i \in DOMAIN doneHead, NEW j \in DOMAIN chain'
         PROVE  PlaceOf(doneHead[i])' < PlaceOf(chain[j])'
    <3>1. CASE chain'[j] = t
      BY <1>3, <1>7, <1>15, <1>16, <2>4, <3>1
    <3>2. CASE j - 1 \in DOMAIN chain /\ chain'[j] = chain[j - 1]
      BY <1>3, <1>15, <2>4, <3>2 DEF UsbOrder, DoneInOrder
    <3> QED BY <2>2, <3>1, <3>2
  <2> QED BY <2>3, <2>5, <2>6, <2>7, <2>8, <2>9, <2>10, <2>11 DEF DoneInOrder
<1>18. /\ \A u \in Td : u # t => packet'[u] = packet[u]
       /\ packet'[t] # 0 => packet'[t] = setup.sent + 1 /\ setup'.sent = setup.sent + 1
       /\ kind[t] \notin {"setup", "refused"} => setup.sent <= setup'.sent
       /\ setup.sent \in Nat /\ setup'.sent \in Nat
       /\ \A u \in Td : packet[u] \in Nat /\ packet'[u] \in Nat
  <2>1. DoTd(t) /\ t \in Td
    BY <1>3, <1>6
  <2>2. /\ \A u \in Td : u # t => packet'[u] = packet[u]
        /\ packet'[t] # 0 => packet'[t] = setup.sent + 1 /\ setup'.sent = setup.sent + 1
        /\ kind[t] \notin {"setup", "refused"} => setup.sent <= setup'.sent
    BY <2>1, DoesTd
  <2>3. setup.sent \in Nat /\ \A u \in Td : packet[u] \in Nat
    BY DEF UsbTypes
  <2>4. setup'.sent \in Nat /\ \A u \in Td : packet'[u] \in Nat
    BY <1>14 DEF UsbTypes
  <2> QED BY <2>2, <2>3, <2>4
<1>19. \A i, j \in 1 .. n : NoSetupBetween(i, j)' <=> NoSetupBetween(i, j)
  <2>1. \A i, j \in 1 .. n : \A l \in i .. j : l \in 1 .. n
    BY <1>7
  <2> QED BY <1>3, <1>7, <2>1 DEF NoSetupBetween
<1>20. ASSUME NEW i \in 1 .. n, NoSetupBetween(i, n + 1)'
       PROVE  NoSetupBetween(i, n) /\ kind[t] \notin {"setup", "refused"}
  <2>1. n + 1 \in i .. (n + 1) /\ \A l \in i .. n : l \in i .. (n + 1) /\ l \in 1 .. n
    BY <1>7
  <2> QED BY <1>3, <1>7, <1>20, <2>1 DEF NoSetupBetween
<1>21. ASSUME NEW i \in 1 .. n, NoSetupBetween(i, n + 1)' PROVE packet'[retired'[i]] <= setup.sent
  <2>1. retired'[i] = retired[i] /\ retired[i] # t /\ retired[i] \in Td
    BY <1>7, <1>10
  <2>2. packet[retired[i]] <= setup.sent
    BY <1>5, <1>7, <1>20, <1>21 DEF UsbOrder, SentSoFar
  <2> QED BY <1>18, <2>1, <2>2
<1>22. SentSoFar'
  <2> SUFFICES ASSUME NEW i \in DOMAIN retired', NoSetupBetween(i, n + 1)'
               PROVE  packet'[retired'[i]] <= setup'.sent
    BY <1>7 DEF SentSoFar
  <2>1. CASE i \in 1 .. n
    <3>1. packet'[retired'[i]] <= setup.sent /\ setup.sent <= setup'.sent
      BY <1>18, <1>20, <1>21, <2>1
    <3>2. retired'[i] \in Td
      BY <1>7, <2>1
    <3> QED BY <1>18, <3>1, <3>2
  <2>2. CASE i = n + 1
    BY <1>6, <1>7, <1>18, <2>2
  <2> QED BY <1>7, <2>1, <2>2
<1>24. AnswerGoesOn'
  <2> SUFFICES ASSUME NEW i \in DOMAIN retired', NEW j \in DOMAIN retired', i < j,
                      NoSetupBetween(i, j)', packet'[retired'[j]] > 0
               PROVE  packet'[retired'[i]] < packet'[retired'[j]]
    BY DEF AnswerGoesOn
  <2>1. i \in 1 .. n /\ (j \in 1 .. n \/ j = n + 1)
    BY <1>7
  <2>2. CASE j \in 1 .. n
    <3>1. /\ retired'[i] = retired[i] /\ retired[i] # t /\ retired[i] \in Td
          /\ retired'[j] = retired[j] /\ retired[j] # t /\ retired[j] \in Td
      BY <1>7, <1>10, <2>1, <2>2
    <3>2. NoSetupBetween(i, j)
      BY <1>19, <2>1, <2>2
    <3>3. packet'[retired'[i]] = packet[retired[i]] /\ packet'[retired'[j]] = packet[retired[j]]
      BY <1>18, <3>1
    <3> QED BY <1>7, <2>1, <2>2, <3>2, <3>3 DEF UsbOrder, AnswerGoesOn
  <2>3. CASE j = n + 1
    <3>1. packet'[retired'[i]] <= setup.sent
      BY <1>21, <2>1, <2>3
    <3>2. packet'[retired'[j]] = setup.sent + 1
      BY <1>6, <1>7, <1>18, <2>3
    <3>3. packet'[retired'[i]] \in Nat
      BY <1>7, <1>18, <2>1
    <3> QED BY <1>18, <3>1, <3>2, <3>3
  <2> QED BY <2>1, <2>2, <2>3
<1> QED BY <1>12, <1>13, <1>17, <1>22, <1>24 DEF UsbOrder

LEMMA NextOrder == ASSUME UsbTypes, MovesLive, UsbOrder, [UsbNext]_usbVars PROVE UsbOrder'
<1>1. CASE UNCHANGED <<queue, kind, setup, retired, taken, packet, doneHead, chain>>
  BY <1>1, OrderKept
<1>2. CASE HcStore \/ HcTick \/ HcPlug \/ HcPlugRaise \/ HcFrame \/ HcStatus \/ HcRaise \/ HcNotCallable
  BY <1>1, <1>2 DEF HcStore, HcTick, HcPlug, HcPlugRaise, HcFrame, HcStatus, HcRaise, HcNotCallable,
                    tdVars, hcVars
<1>3. CASE DriverStart \/ DriverMask \/ DriverReset \/ DriverPort \/ DriverStore \/ DriverRaise
           \/ \E e \in Ed : DriverUnhalt(e)
  BY <1>1, <1>3 DEF DriverStart, DriverMask, DriverReset, DriverPort, DriverStore, DriverRaise,
                    DriverUnhalt, tdVars, hcVars
<1>4. CASE UNCHANGED usbVars
  BY <1>1, <1>4 DEF usbVars
<1> QED
  BY <1>2, <1>3, <1>4, WalkOrder, FinishOrder, IsrOrder, MoveOrder, SubmitOrder
  DEF UsbNext, HcNext, DriverNext

(* The inductive invariant. *)
THEOREM UsbIInvHolds == UsbSpec => []UsbIInv
<1>1. UsbIInv /\ [UsbNext]_usbVars => UsbIInv'
  BY NextTypes, NextMoves, NextOrder DEF UsbIInv, UsbOrder
<1> QED BY <1>1, InitUsb, PTL DEF UsbSpec

(* Descriptors are retired once, in the order they were queued, the driver  *)
(* learns of them in that order, and an answer goes on where it was, for    *)
(* any number of descriptors and any interleaving with the driver's thread  *)
(* (ohci_run_ed_list, ohci_finish_lists, ohci_do_td).                       *)
THEOREM UsbInvHolds == UsbSpec => []UsbInv
<1>1. UsbIInv => UsbTypeOK
  BY DEF UsbIInv, UsbTypes, UsbTypeOK, Modifies, IsRmw
<1>2. UsbIInv => InOrder
  BY DEF UsbIInv, RetiredOnce, DoneInOrder, InOrder
<1>3. UsbIInv => UsbInv
  BY <1>1, <1>2 DEF UsbIInv, UsbInv
<1> QED BY <1>3, UsbIInvHolds, PTL

HIDE UsbAssumption

-----------------------------------------------------------------------------
(* The ring of frames. *)

(* Frames in the ring, from the device's index to the frame thread's.       *)
Waiting == Minus(wr, rd)

RingTypes ==
  /\ overlap \in BOOLEAN
  /\ wr \in 0 .. IndexWrap - 1 /\ rd \in 0 .. IndexWrap - 1
  /\ frames \in [0 .. RingFrames - 1 -> 0 .. IndexWrap - 1]
  /\ submit \in [at : {"idle", "drop", "copy"}, n : 0 .. RingFrames, rd : 0 .. IndexWrap - 1,
                 i : 0 .. RingFrames]
  /\ pull \in [at : {"idle", "copy"}, rd : 0 .. IndexWrap - 1, n : Nat, i : Nat]
  /\ submit.i <= submit.n /\ pull.i <= pull.n
  /\ submit.at = "drop" => submit.i = 0
  /\ submit.at # "idle" => submit.n \in BlockSizes
  /\ pull.at = "idle" => pull.i = 0

(* What waits was written where its index says, and so was what the frame   *)
(* thread has copied in behind it.                                          *)
Intact ==
  /\ \A k \in 0 .. Waiting - 1 : frames[SlotOf(rd + k)] = Plus(rd, k)
  /\ submit.at = "copy" => \A k \in 0 .. submit.i - 1 : frames[SlotOf(wr + k)] = Plus(wr, k)

(* A block being copied in has room behind what waits; a drop makes that    *)
(* room and no more, and no pull is under way during it; a pull takes what  *)
(* waits from where it began.                                               *)
HasRoom ==
  /\ Waiting <= RingFrames
  /\ submit.at = "copy" => Waiting + submit.n <= RingFrames
  /\ submit.at = "drop" =>
       /\ pull.at = "idle"
       /\ \E d \in 0 .. Waiting : submit.rd = Plus(rd, d) /\ Waiting - d + submit.n = RingFrames
  /\ pull.at = "copy" => pull.rd = rd /\ pull.n <= Waiting

RingIInv == RingTypes /\ (~overlap => Intact /\ HasRoom)

(* A remainder is unchanged by multiples of what it is taken by, and one of *)
(* a number below it is that number.                                        *)
LEMMA Remainder ==
  ASSUME NEW A \in Nat \ {0}, NEW q \in Int, NEW r \in 0 .. A - 1
  PROVE  (A * q + r) % A = r
<1> DEFINE x == A * q + r
           p == x \div A
           s == x % A
<1>1. x \in Int
  OBVIOUS
<1> HIDE DEF x
<1>2. p \in Int /\ s \in 0 .. A - 1 /\ x = A * p + s
  BY <1>1
<1> HIDE DEF p, s
<1>3. A * q + r = A * p + s
  BY <1>2 DEF x
<1>4. A * q \in Int /\ A * p \in Int
  BY <1>2
<1>5. A * p = A * q
  <2>1. CASE p < q
    <3>1. PICK d \in Nat : q = p + 1 + d
      <4>1. q - p - 1 \in Nat /\ q = p + 1 + (q - p - 1)
        BY <1>2, <2>1
      <4> QED BY <4>1
    <3>2. A * q = A * p + A + A * d /\ A * d \in Nat
      BY <1>2, <3>1
    <3> QED BY <1>2, <1>3, <1>4, <3>2
  <2>2. CASE q < p
    <3>1. PICK d \in Nat : p = q + 1 + d
      <4>1. p - q - 1 \in Nat /\ p = q + 1 + (p - q - 1)
        BY <1>2, <2>2
      <4> QED BY <4>1
    <3>2. A * p = A * q + A + A * d /\ A * d \in Nat
      BY <1>2, <3>1
    <3> QED BY <1>2, <1>3, <1>4, <3>2
  <2>3. CASE p = q
    BY <2>3
  <2> QED BY <1>2, <2>1, <2>2, <2>3
<1>6. s = r
  BY <1>2, <1>3, <1>4, <1>5
<1> QED BY <1>6 DEF s, x

LEMMA Turn ==
  ASSUME NEW A \in Nat \ {0}, NEW x \in Int, NEW y \in Int, NEW q \in Int, y = x + A * q
  PROVE  y % A = x % A
<1>1. PICK p, r : p = x \div A /\ r = x % A
  OBVIOUS
<1>2. p \in Int /\ r \in 0 .. A - 1 /\ x = A * p + r
  BY <1>1
<1>3. p + q \in Int /\ y = A * (p + q) + r
  BY <1>2
<1>4. (A * (p + q) + r) % A = r
  BY <1>2, <1>3, Remainder
<1> QED BY <1>1, <1>3, <1>4

LEMMA Small == ASSUME NEW A \in Nat \ {0}, NEW r \in 0 .. A - 1 PROVE r % A = r
<1>1. (A * 0 + r) % A = r
  BY Remainder
<1> QED BY <1>1

LEMMA Divided ==
  ASSUME NEW A \in Nat \ {0}, NEW x \in Int
  PROVE  x \div A \in Int /\ x % A \in Int /\ x = A * (x \div A) + (x % A)
OBVIOUS

(* The two indices: adding goes on where an earlier addition stopped, also  *)
(* across the wrap, and subtracting undoes it.                              *)
LEMMA Wrap == /\ IndexWrap \in Nat \ {0} /\ RingFrames \in Nat \ {0} /\ RingFrames < IndexWrap
              /\ \E u \in Int : IndexWrap = RingFrames * u
<1>1. IndexWrap \in Nat \ {0} /\ RingFrames \in Nat \ {0} /\ RingFrames < IndexWrap /\ IndexWrap % RingFrames = 0
  BY RingAssumption
<1>2. PICK q : q = IndexWrap \div RingFrames
  OBVIOUS
<1>3. q \in Int /\ IndexWrap = RingFrames * q
  BY <1>1, <1>2
<1> QED BY <1>1, <1>3

LEMMA InWrap ==
  \A a, k \in Int : /\ Plus(a, k) \in 0 .. IndexWrap - 1 /\ Minus(a, k) \in 0 .. IndexWrap - 1
                    /\ SlotOf(a) \in 0 .. RingFrames - 1
BY Wrap DEF Plus, Minus, SlotOf

LEMMA PlusPlus ==
  ASSUME NEW a \in Int, NEW k \in Int, NEW l \in Int
  PROVE  Plus(Plus(a, k), l) = Plus(a, k + l) /\ SlotOf(Plus(a, k) + l) = SlotOf(a + (k + l))
<1>0. PICK e : e = a + k
  OBVIOUS
<1>1. PICK q, b, y, z : q = e \div IndexWrap /\ b = e % IndexWrap /\ y = a + (k + l) /\ z = b + l
  OBVIOUS
<1>2. b \in Int /\ q \in Int /\ a + k = IndexWrap * q + b
  <2>1. e \in Int /\ IndexWrap \in Nat \ {0}
    BY <1>0, Wrap
  <2>2. q \in Int /\ b \in Int /\ e = IndexWrap * q + b
    BY <1>1, <2>1, Divided, Zenon
  <2> QED BY <1>0, <2>2
<1>3. z \in Int /\ y \in Int
  BY <1>1, <1>2
<1>4. IndexWrap \in Nat \ {0} /\ RingFrames \in Nat \ {0}
  BY Wrap
<1>5. y = z + IndexWrap * q
  BY <1>1, <1>2, <1>4
<1>6. y % IndexWrap = z % IndexWrap
  BY <1>2, <1>3, <1>4, <1>5, Turn, Zenon
<1>7. y % RingFrames = z % RingFrames
  <2>1. PICK u \in Int : IndexWrap = RingFrames * u
    BY Wrap
  <2>2. u * q \in Int /\ y = z + RingFrames * (u * q)
    BY <1>2, <1>3, <1>4, <1>5, <2>1
  <2> QED BY <1>3, <1>4, <2>2, Turn, Zenon
<1> QED BY <1>0, <1>1, <1>6, <1>7 DEF Plus, SlotOf

(* Two remainders the same distance apart as what they remain of.           *)
LEMMA MinusPlus ==
  ASSUME NEW w \in Int, NEW r \in Int, NEW d \in Int,
         Minus(w, r) - d \in 0 .. IndexWrap - 1
  PROVE  Minus(w, Plus(r, d)) = Minus(w, r) - d
<1>00. PICK f : f = r + d
  OBVIOUS
<1>1. PICK q, b : q = f \div IndexWrap /\ b = f % IndexWrap
  OBVIOUS
<1>0. PICK e : e = w - r
  OBVIOUS
<1>2. PICK p, h : p = e \div IndexWrap /\ h = e % IndexWrap
  OBVIOUS
<1>3. b \in Int /\ q \in Int /\ r + d = IndexWrap * q + b
  <2>1. f \in Int /\ IndexWrap \in Nat \ {0}
    BY <1>00, Wrap
  <2>2. q \in Int /\ b \in Int /\ f = IndexWrap * q + b
    BY <1>1, <2>1, Divided, Zenon
  <2> QED BY <1>00, <2>2
<1>4. h \in Int /\ p \in Int /\ w - r = IndexWrap * p + h
  <2>1. e \in Int /\ IndexWrap \in Nat \ {0}
    BY <1>0, Wrap
  <2>2. p \in Int /\ h \in Int /\ e = IndexWrap * p + h
    BY <1>2, <2>1, Divided, Zenon
  <2> QED BY <1>0, <2>2
<1>5. PICK x, y : x = h - d /\ y = w - b
  OBVIOUS
<1>6. x \in 0 .. IndexWrap - 1 /\ x \in Int /\ y \in Int /\ IndexWrap \in Nat \ {0}
  BY <1>0, <1>2, <1>3, <1>4, <1>5, Wrap DEF Minus
<1>7. p + q \in Int /\ y = x + IndexWrap * (p + q)
  <2>1. IndexWrap * (p + q) = IndexWrap * p + IndexWrap * q
    BY <1>3, <1>4, <1>6
  <2> QED BY <1>3, <1>4, <1>5, <1>6, <2>1
<1>8. y % IndexWrap = x % IndexWrap
  BY <1>6, <1>7, Turn, Zenon
<1>9. x % IndexWrap = x
  BY <1>6, Small, Zenon
<1> QED BY <1>0, <1>00, <1>1, <1>2, <1>5, <1>8, <1>9 DEF Minus, Plus

LEMMA PlusMinus ==
  ASSUME NEW w \in Int, NEW r \in Int, NEW n \in Int,
         Minus(w, r) + n \in 0 .. IndexWrap - 1
  PROVE  Minus(Plus(w, n), r) = Minus(w, r) + n
<1>00. PICK f : f = w + n
  OBVIOUS
<1>1. PICK q, b : q = f \div IndexWrap /\ b = f % IndexWrap
  OBVIOUS
<1>0. PICK e : e = w - r
  OBVIOUS
<1>2. PICK p, h : p = e \div IndexWrap /\ h = e % IndexWrap
  OBVIOUS
<1>3. b \in Int /\ q \in Int /\ w + n = IndexWrap * q + b
  <2>1. f \in Int /\ IndexWrap \in Nat \ {0}
    BY <1>00, Wrap
  <2>2. q \in Int /\ b \in Int /\ f = IndexWrap * q + b
    BY <1>1, <2>1, Divided, Zenon
  <2> QED BY <1>00, <2>2
<1>4. h \in Int /\ p \in Int /\ w - r = IndexWrap * p + h
  <2>1. e \in Int /\ IndexWrap \in Nat \ {0}
    BY <1>0, Wrap
  <2>2. p \in Int /\ h \in Int /\ e = IndexWrap * p + h
    BY <1>2, <2>1, Divided, Zenon
  <2> QED BY <1>0, <2>2
<1>5. PICK x, y : x = h + n /\ y = b - r
  OBVIOUS
<1>6. x \in 0 .. IndexWrap - 1 /\ x \in Int /\ y \in Int /\ IndexWrap \in Nat \ {0}
  BY <1>0, <1>2, <1>3, <1>4, <1>5, Wrap DEF Minus
<1>7. p - q \in Int /\ y = x + IndexWrap * (p - q)
  <2>1. IndexWrap * (p - q) = IndexWrap * p - IndexWrap * q
    BY <1>3, <1>4, <1>6
  <2> QED BY <1>3, <1>4, <1>5, <1>6, <2>1
<1>8. y % IndexWrap = x % IndexWrap
  BY <1>6, <1>7, Turn, Zenon
<1>9. x % IndexWrap = x
  BY <1>6, Small, Zenon
<1> QED BY <1>0, <1>00, <1>1, <1>2, <1>5, <1>8, <1>9 DEF Minus, Plus

(* The frame thread's index is the device's, and what waits.                *)
LEMMA WrIs ==
  ASSUME NEW w \in 0 .. IndexWrap - 1, NEW r \in Int
  PROVE  w = Plus(r, Minus(w, r))
<1>0. PICK e : e = w - r
  OBVIOUS
<1>1. PICK p, h, y, m : p = e \div IndexWrap /\ h = e % IndexWrap /\ y = r + h /\ m = 0 - p
  OBVIOUS
<1>2. h \in Int /\ p \in Int /\ w - r = IndexWrap * p + h /\ w \in Int /\ IndexWrap \in Nat \ {0}
  <2>1. e \in Int /\ IndexWrap \in Nat \ {0} /\ w \in Int
    BY <1>0, Wrap
  <2>2. p \in Int /\ h \in Int /\ e = IndexWrap * p + h
    BY <1>1, <2>1, Divided, Zenon
  <2> QED BY <1>0, <2>1, <2>2
<1>3. m \in Int /\ y \in Int /\ IndexWrap * m = 0 - IndexWrap * p
  BY <1>1, <1>2
<1>4. y = w + IndexWrap * m
  BY <1>1, <1>2, <1>3
<1>5. y % IndexWrap = w % IndexWrap
  BY <1>2, <1>3, <1>4, Turn, Zenon
<1>6. w % IndexWrap = w
  BY <1>2, Small, Zenon
<1> QED BY <1>0, <1>1, <1>5, <1>6 DEF Plus, Minus

(* Fewer indices in a row than the ring has slots are in slots of their own.*)
LEMMA OwnSlot ==
  ASSUME NEW a \in Int, NEW k \in Int, NEW l \in Int, k < l, l - k < RingFrames
  PROVE  SlotOf(a + k) # SlotOf(a + l)
<1>1. PICK q, s : q = (a + k) \div RingFrames /\ s = (a + k) % RingFrames
  OBVIOUS
<1>2. PICK p, t : p = (a + l) \div RingFrames /\ t = (a + l) % RingFrames
  OBVIOUS
<1>3. RingFrames \in Nat \ {0}
  BY Wrap
<1>4. s \in Int /\ q \in Int /\ a + k = RingFrames * q + s
  BY <1>1, <1>3
<1>5. t \in Int /\ p \in Int /\ a + l = RingFrames * p + t
  BY <1>2, <1>3
<1> SUFFICES ASSUME s = t PROVE FALSE
  BY <1>1, <1>2 DEF SlotOf
<1>6. PICK d, z : d = l - k /\ z = 0
  OBVIOUS
<1>7. d \in 0 .. RingFrames - 1 /\ z \in 0 .. RingFrames - 1 /\ d \in Int /\ z \in Int /\ d # z
  BY <1>3, <1>6
<1>8. p - q \in Int /\ d = z + RingFrames * (p - q)
  <2>1. RingFrames * (p - q) = RingFrames * p - RingFrames * q
    BY <1>3, <1>4, <1>5
  <2> QED BY <1>3, <1>4, <1>5, <1>6, <1>7, <2>1
<1>9. d % RingFrames = z % RingFrames
  BY <1>3, <1>7, <1>8, Turn, Zenon
<1>10. d % RingFrames = d /\ z % RingFrames = z
  BY <1>3, <1>7, Small, Zenon
<1> QED BY <1>7, <1>9, <1>10

(* With no more than the ring holds waiting, what is free is the rest.      *)
LEMMA Free ==
  ASSUME NEW h \in 0 .. RingFrames PROVE Minus(RingFrames, h) = RingFrames - h
<1>1. PICK x : x = RingFrames - h
  OBVIOUS
<1>2. IndexWrap \in Nat \ {0} /\ x \in 0 .. IndexWrap - 1
  BY <1>1, Wrap
<1>3. x % IndexWrap = x
  BY <1>2, Small, Zenon
<1> QED BY <1>1, <1>3 DEF Minus

(* The device's index moved over frames that wait leaves the others, each   *)
(* where its index says.                                                    *)
LEMMA Nearer ==
  ASSUME NEW w \in Int, NEW r \in Int, NEW d \in 0 .. Minus(w, r)
  PROVE  Minus(w, Plus(r, d)) = Minus(w, r) - d
<1>1. PICK h : h = Minus(w, r)
  OBVIOUS
<1>2. h \in 0 .. IndexWrap - 1 /\ d \in 0 .. h
  BY <1>1, InWrap
<1>3. h - d \in 0 .. IndexWrap - 1 /\ d \in Int
  BY <1>2, Wrap
<1> QED BY <1>1, <1>3, MinusPlus, Zenon

LEMMA Advanced ==
  ASSUME NEW r \in Int, NEW f, NEW h \in Nat, NEW d \in 0 .. h,
         \A k \in 0 .. h - 1 : f[SlotOf(r + k)] = Plus(r, k)
  PROVE  \A k \in 0 .. h - d - 1 : f[SlotOf(Plus(r, d) + k)] = Plus(Plus(r, d), k)
<1> SUFFICES ASSUME NEW k \in 0 .. h - d - 1 PROVE f[SlotOf(Plus(r, d) + k)] = Plus(Plus(r, d), k)
  OBVIOUS
<1>1. d + k \in 0 .. h - 1 /\ k \in Int /\ d \in Int
  OBVIOUS
<1>2. f[SlotOf(r + (d + k))] = Plus(r, d + k)
  BY <1>1
<1>3. Plus(Plus(r, d), k) = Plus(r, d + k) /\ SlotOf(Plus(r, d) + k) = SlotOf(r + (d + k))
  BY <1>1, PlusPlus, Zenon
<1> QED BY <1>2, <1>3

(* At first nothing waits, and no one is under way.                         *)
LEMMA RingStarts == RingInit => RingIInv
<1> SUFFICES ASSUME RingInit PROVE RingIInv
  OBVIOUS
<1>1. wr = 0 /\ rd = 0 /\ submit = NoSubmit /\ pull = NoPull
  BY DEF RingInit
<1>2. Waiting = 0
  <2>1. IndexWrap \in Nat \ {0} /\ 0 \in 0 .. IndexWrap - 1 /\ 0 - 0 = 0
    BY Wrap
  <2>2. 0 % IndexWrap = 0
    BY <2>1, Small, Zenon
  <2> QED BY <1>1, <2>1, <2>2 DEF Waiting, Minus
<1>3. RingTypes
  BY <1>1, Wrap DEF RingInit, RingTypes, NoSubmit, NoPull
<1>4. Intact /\ HasRoom
  BY <1>1, <1>2, Wrap DEF Intact, HasRoom, NoSubmit, NoPull
<1> QED BY <1>3, <1>4 DEF RingIInv

LEMMA SubmitBeginsKeeps == RingIInv /\ SubmitBegins => RingIInv'
<1> SUFFICES ASSUME RingIInv, SubmitBegins PROVE RingIInv'
  OBVIOUS
<1>1. RingTypes /\ Waiting \in Nat
  BY InWrap DEF RingIInv, RingTypes, Waiting
<1>2. submit.at = "idle" /\ UNCHANGED <<overlap, wr, rd, frames, pull, heard>>
  BY DEF SubmitBegins
<1>3. PICK n \in BlockSizes :
        IF n > Vacant
        THEN /\ overlap \/ pull.at = "idle"
             /\ submit' = [at |-> "drop", n |-> n, rd |-> Plus(rd, n - Vacant), i |-> 0]
        ELSE submit' = [at |-> "copy", n |-> n, rd |-> rd, i |-> 0]
  BY DEF SubmitBegins
<1>4. n \in 1 .. RingFrames /\ RingFrames \in Nat
  BY RingAssumption
<1>5. Vacant \in Int /\ Plus(rd, n - Vacant) \in 0 .. IndexWrap - 1
  <2>1. RingFrames \in Int /\ Minus(wr, rd) \in Int /\ rd \in Int
    BY <1>1, <1>4, InWrap DEF RingTypes
  <2>2. Vacant \in Int
    BY <2>1, InWrap DEF Vacant
  <2>3. n - Vacant \in Int
    BY <1>4, <2>2
  <2> QED BY <2>1, <2>2, <2>3, InWrap
<1>6. RingTypes'
  <2>1. CASE n > Vacant
    BY <1>1, <1>2, <1>3, <1>4, <1>5, <2>1 DEF RingTypes
  <2>2. CASE ~(n > Vacant)
    BY <1>1, <1>2, <1>3, <1>4, <2>2 DEF RingTypes
  <2> QED BY <2>1, <2>2
<1>7. Waiting' = Waiting
  BY <1>2 DEF Waiting
<1>8. ASSUME ~overlap PROVE Intact' /\ HasRoom'
  <2>1. Intact /\ HasRoom
    BY <1>8 DEF RingIInv
  <2>2. Vacant = RingFrames - Waiting /\ Waiting \in 0 .. RingFrames
    BY <1>1, <1>4, <2>1, Free DEF HasRoom, Vacant, Waiting
  <2>3. CASE n > Vacant
    <3>1. pull.at = "idle" /\ submit' = [at |-> "drop", n |-> n, rd |-> Plus(rd, n - Vacant), i |-> 0]
      BY <1>3, <1>8, <2>3
    <3>2. n - Vacant \in 0 .. Waiting /\ Waiting - (n - Vacant) + n = RingFrames
      BY <1>1, <1>4, <2>2, <2>3
    <3> QED BY <1>2, <1>7, <2>1, <2>2, <3>1, <3>2 DEF Intact, HasRoom
  <2>4. CASE ~(n > Vacant)
    <3>1. submit' = [at |-> "copy", n |-> n, rd |-> rd, i |-> 0]
      BY <1>3, <2>4
    <3>2. Waiting + n <= RingFrames
      BY <1>1, <1>4, <2>2, <2>4
    <3> QED BY <1>2, <1>4, <1>7, <2>1, <2>2, <3>1, <3>2 DEF Intact, HasRoom
  <2> QED BY <2>3, <2>4
<1> QED BY <1>2, <1>6, <1>8 DEF RingIInv

(* What a drop did: as many frames made way as the block lacks room for.    *)
MadeRoom ==
  \E n \in BlockSizes, d \in 0 .. Waiting : rd' = Plus(rd, d) /\ Waiting - d + n = RingFrames

LEMMA DropKeeps ==
  RingIInv /\ Drop => RingIInv' /\ (~overlap => MadeRoom)
<1> SUFFICES ASSUME RingIInv, Drop
             PROVE  RingIInv' /\ (~overlap => MadeRoom)
  OBVIOUS
<1>1. RingTypes
  BY DEF RingIInv
<1>2. /\ submit.at = "drop" /\ rd' = submit.rd /\ submit' = [submit EXCEPT !.at = "copy"]
      /\ UNCHANGED <<overlap, wr, frames, pull, heard>>
  BY DEF Drop
<1>3. RingTypes'
  BY <1>1, <1>2 DEF RingTypes
<1>4. ASSUME ~overlap PROVE Intact' /\ HasRoom' /\ MadeRoom
  <2>1. Intact /\ HasRoom
    BY <1>4 DEF RingIInv
  <2>2. PICK d \in 0 .. Waiting : rd' = Plus(rd, d) /\ Waiting - d + submit.n = RingFrames
    BY <1>2, <2>1 DEF HasRoom
  <2>3. /\ Waiting' = Waiting - d
        /\ \A k \in 0 .. Waiting - d - 1 : frames[SlotOf(Plus(rd, d) + k)] = Plus(Plus(rd, d), k)
    <3>1. wr \in Int /\ rd \in Int /\ d \in 0 .. Minus(wr, rd)
      BY <1>1, <2>2 DEF RingTypes, Waiting
    <3>2. Waiting \in Nat /\ d \in 0 .. Waiting
      BY <3>1, InWrap DEF Waiting
    <3>3. \A k \in 0 .. Waiting - 1 : frames[SlotOf(rd + k)] = Plus(rd, k)
      BY <2>1 DEF Intact
    <3>4. Waiting' = Minus(wr, Plus(rd, d))
      BY <1>2, <2>2 DEF Waiting
    <3>5. Minus(wr, Plus(rd, d)) = Waiting - d
      BY <3>1, Nearer DEF Waiting
    <3>6. \A k \in 0 .. Waiting - d - 1 : frames[SlotOf(Plus(rd, d) + k)] = Plus(Plus(rd, d), k)
      <4>1. PICK h : h = Waiting
        OBVIOUS
      <4> QED BY <3>1, <3>2, <3>3, <4>1, Advanced
    <3> QED BY <3>4, <3>5, <3>6
  <2>4. submit'.at = "copy" /\ submit'.i = 0 /\ submit'.n = submit.n /\ pull'.at = "idle"
    BY <1>1, <1>2, <2>1 DEF RingTypes, HasRoom
  <2>5. Waiting \in Nat /\ d \in Nat /\ submit.n \in Nat
    BY <1>1, <2>2, InWrap DEF RingTypes, Waiting
  <2>6. Intact'
    BY <1>2, <2>2, <2>3, <2>4 DEF Intact
  <2>7. HasRoom'
    BY <2>1, <2>2, <2>3, <2>4, <2>5, Wrap DEF HasRoom
  <2>8. MadeRoom
    BY <1>1, <1>2, <2>2 DEF MadeRoom, RingTypes
  <2> QED BY <2>6, <2>7, <2>8
<1> QED BY <1>2, <1>3, <1>4 DEF RingIInv

LEMMA CopyInKeeps == RingIInv /\ CopyIn => RingIInv'
<1> SUFFICES ASSUME RingIInv, CopyIn PROVE RingIInv'
  OBVIOUS
<1>1. RingTypes
  BY DEF RingIInv
<1>2. /\ submit.at = "copy" /\ submit.i < submit.n
      /\ frames' = [frames EXCEPT ![SlotOf(wr + submit.i)] = Plus(wr, submit.i)]
      /\ submit' = [submit EXCEPT !.i = @ + 1]
      /\ UNCHANGED <<overlap, wr, rd, pull, heard>>
  BY DEF CopyIn
<1>3. PICK i, n, h : i = submit.i /\ n = submit.n /\ h = Waiting
  OBVIOUS
<1>4. /\ i \in Nat /\ n \in 0 .. RingFrames /\ i < n /\ h \in Nat
      /\ wr \in Int /\ rd \in Int /\ RingFrames \in Nat
  <2>1. wr \in Int /\ rd \in Int /\ RingFrames \in Nat
    BY <1>1, Wrap DEF RingTypes
  <2>2. h \in Nat
    BY <1>3, <2>1, InWrap DEF Waiting
  <2>3. i \in Nat /\ n \in 0 .. RingFrames
    BY <1>1, <1>3, <2>1 DEF RingTypes
  <2> QED BY <1>2, <1>3, <2>1, <2>2, <2>3
<1>5. SlotOf(wr + i) \in 0 .. RingFrames - 1 /\ Plus(wr, i) \in 0 .. IndexWrap - 1
  BY <1>4, InWrap
<1>6. submit' = [submit EXCEPT !.i = i + 1]
  BY <1>2, <1>3
<1>7. /\ submit'.at = "copy" /\ submit'.i = i + 1 /\ submit'.n = n
      /\ submit' \in [at : {"idle", "drop", "copy"}, n : 0 .. RingFrames,
                      rd : 0 .. IndexWrap - 1, i : 0 .. RingFrames]
  <2>1. submit \in [at : {"idle", "drop", "copy"}, n : 0 .. RingFrames,
                   rd : 0 .. IndexWrap - 1, i : 0 .. RingFrames]
    BY <1>1 DEF RingTypes
  <2>2. i + 1 \in 0 .. RingFrames
    BY <1>4
  <2> QED BY <1>2, <1>3, <1>6, <2>1, <2>2
<1>8. frames' \in [0 .. RingFrames - 1 -> 0 .. IndexWrap - 1]
  BY <1>1, <1>2, <1>3, <1>5 DEF RingTypes
<1>9. RingTypes'
  <2>1. submit'.i <= submit'.n /\ (submit'.at = "drop" => submit'.i = 0)
    BY <1>4, <1>7
  <2> QED BY <1>1, <1>2, <1>7, <1>8, <2>1 DEF RingTypes
<1>10. Waiting' = h
  BY <1>2, <1>3 DEF Waiting
<1>11. ASSUME ~overlap PROVE Intact' /\ HasRoom'
  <2>1. Intact /\ HasRoom /\ h + n <= RingFrames
    BY <1>2, <1>3, <1>11 DEF RingIInv, HasRoom
  <2>2. \A s \in 0 .. RingFrames - 1 : frames'[s] = IF s = SlotOf(wr + i) THEN Plus(wr, i) ELSE frames[s]
    BY <1>1, <1>2, <1>3 DEF RingTypes
  <2>3. ASSUME NEW k \in 0 .. h - 1 PROVE frames'[SlotOf(rd + k)] = Plus(rd, k)
    <3>1. wr = Plus(rd, h)
      BY <1>1, <1>3, <1>4, WrIs DEF Waiting, RingTypes
    <3>2. SlotOf(wr + i) = SlotOf(rd + (h + i))
      BY <1>4, <3>1, PlusPlus
    <3>3. k \in Int /\ h + i \in Int /\ k < h + i
      BY <1>4, <2>1
    <3>4. (h + i) - k < RingFrames
      BY <1>4, <2>1
    <3>5. SlotOf(rd + k) # SlotOf(wr + i)
      BY <1>4, <3>2, <3>3, <3>4, OwnSlot
    <3>6. SlotOf(rd + k) \in 0 .. RingFrames - 1
      BY <1>4, <3>3, InWrap
    <3>7. frames[SlotOf(rd + k)] = Plus(rd, k)
      BY <1>3, <2>1 DEF Intact
    <3> QED BY <2>2, <3>5, <3>6, <3>7
  <2>4. ASSUME NEW k \in 0 .. i PROVE frames'[SlotOf(wr + k)] = Plus(wr, k)
    <3>1. CASE k = i
      BY <1>5, <2>2, <3>1
    <3>2. CASE k # i
      <4>1. k \in 0 .. i - 1 /\ k \in Int /\ i \in Int /\ k < i /\ i - k < RingFrames
        BY <1>4, <3>2
      <4>2. SlotOf(wr + k) # SlotOf(wr + i)
        BY <1>4, <4>1, OwnSlot
      <4>3. SlotOf(wr + k) \in 0 .. RingFrames - 1
        BY <1>4, <4>1, InWrap
      <4>4. frames[SlotOf(wr + k)] = Plus(wr, k)
        BY <1>2, <1>3, <2>1, <4>1 DEF Intact
      <4> QED BY <2>2, <4>2, <4>3, <4>4
    <3> QED BY <3>1, <3>2
  <2>5. Intact'
    <3>1. \A k \in 0 .. (i + 1) - 1 : frames'[SlotOf(wr + k)] = Plus(wr, k)
      BY <1>4, <2>4
    <3> QED BY <1>2, <1>7, <1>10, <2>3, <3>1 DEF Intact
  <2>6. HasRoom'
    BY <1>2, <1>3, <1>7, <1>10, <2>1 DEF HasRoom
  <2> QED BY <2>5, <2>6
<1> QED BY <1>2, <1>9, <1>11 DEF RingIInv

LEMMA PublishKeeps == RingIInv /\ Publish => RingIInv'
<1> SUFFICES ASSUME RingIInv, Publish PROVE RingIInv'
  OBVIOUS
<1>1. RingTypes
  BY DEF RingIInv
<1>2. /\ submit.at = "copy" /\ submit.i = submit.n /\ wr' = Plus(wr, submit.n)
      /\ submit' = NoSubmit /\ UNCHANGED <<overlap, rd, frames, pull, heard>>
  BY DEF Publish
<1>3. PICK n, h : n = submit.n /\ h = Waiting
  OBVIOUS
<1>4. /\ n \in 0 .. RingFrames /\ n \in Int /\ h \in Nat /\ wr \in Int /\ rd \in Int
      /\ wr \in 0 .. IndexWrap - 1 /\ RingFrames \in Nat /\ RingFrames < IndexWrap /\ IndexWrap \in Nat
  BY <1>1, <1>3, InWrap, Wrap DEF RingTypes, Waiting
<1>5. Plus(wr, n) \in 0 .. IndexWrap - 1
  BY <1>4, InWrap
<1>6. RingTypes'
  BY <1>1, <1>2, <1>3, <1>4, <1>5 DEF RingTypes, NoSubmit
<1>7. ASSUME ~overlap PROVE Intact' /\ HasRoom'
  <2>1. Intact /\ HasRoom /\ h + n <= RingFrames
    BY <1>2, <1>3, <1>7 DEF RingIInv, HasRoom
  <2>2. Waiting' = h + n
    <3>1. h + n \in 0 .. IndexWrap - 1 /\ h = Minus(wr, rd)
      BY <1>3, <1>4, <2>1 DEF Waiting
    <3>2. Minus(Plus(wr, n), rd) = h + n
      BY <1>4, <3>1, PlusMinus
    <3> QED BY <1>2, <1>3, <3>2 DEF Waiting
  <2>3. ASSUME NEW k \in 0 .. (h + n) - 1 PROVE frames[SlotOf(rd + k)] = Plus(rd, k)
    <3>1. CASE k < h
      <4>1. k \in 0 .. h - 1
        BY <1>4, <3>1
      <4> QED BY <1>3, <2>1, <4>1 DEF Intact
    <3>2. CASE ~(k < h)
      <4>1. PICK j : j = k - h
        OBVIOUS
      <4>2. j \in 0 .. n - 1 /\ j \in Int /\ k = h + j /\ h \in Int
        BY <1>4, <3>2, <4>1
      <4>3. wr = Plus(rd, h)
        BY <1>3, <1>4, WrIs DEF Waiting
      <4>4. Plus(wr, j) = Plus(rd, k) /\ SlotOf(wr + j) = SlotOf(rd + k)
        BY <1>4, <4>2, <4>3, PlusPlus
      <4>5. frames[SlotOf(wr + j)] = Plus(wr, j)
        BY <1>2, <1>3, <2>1, <4>2 DEF Intact
      <4> QED BY <4>4, <4>5
    <3> QED BY <3>1, <3>2
  <2>4. submit'.at = "idle"
    BY <1>2 DEF NoSubmit
  <2>5. Intact'
    BY <1>2, <2>2, <2>3, <2>4 DEF Intact
  <2>6. HasRoom'
    BY <1>2, <1>3, <1>4, <2>1, <2>2, <2>4, <1>1 DEF HasRoom, RingTypes
  <2> QED BY <2>5, <2>6
<1> QED BY <1>2, <1>6, <1>7 DEF RingIInv

LEMMA PullBeginsKeeps == RingIInv /\ PullBegins => RingIInv'
<1> SUFFICES ASSUME RingIInv, PullBegins PROVE RingIInv'
  OBVIOUS
<1>1. RingTypes /\ Waiting \in Nat /\ PullFrames \in Nat
  <2>1. RingTypes /\ PullFrames \in Nat
    BY RingAssumption DEF RingIInv
  <2>2. wr \in Int /\ rd \in Int
    BY <2>1 DEF RingTypes
  <2> QED BY <2>1, <2>2, InWrap DEF Waiting
<1>2. PICK n : n = IF Waiting < PullFrames THEN Waiting ELSE PullFrames
  OBVIOUS
<1>3. n \in Nat /\ n <= Waiting
  BY <1>1, <1>2
<1>4. /\ overlap \/ submit.at # "drop"
      /\ pull' = [at |-> "copy", rd |-> rd, i |-> 0, n |-> n]
      /\ UNCHANGED <<overlap, wr, rd, frames, submit, heard>>
  BY <1>2 DEF PullBegins, Waiting
<1>5. RingTypes'
  BY <1>1, <1>3, <1>4 DEF RingTypes
<1>6. Waiting' = Waiting
  BY <1>4 DEF Waiting
<1>7. ASSUME ~overlap PROVE Intact' /\ HasRoom'
  BY <1>3, <1>4, <1>6, <1>7 DEF RingIInv, Intact, HasRoom
<1> QED BY <1>4, <1>5, <1>7 DEF RingIInv

LEMMA CopyOutKeeps == RingIInv /\ CopyOut => RingIInv'
<1> SUFFICES ASSUME RingIInv, CopyOut PROVE RingIInv'
  OBVIOUS
<1>1. RingTypes
  BY DEF RingIInv
<1>2. /\ pull.at = "copy" /\ pull.i < pull.n /\ pull' = [pull EXCEPT !.i = pull.i + 1]
      /\ UNCHANGED <<overlap, wr, rd, frames, submit>>
  BY DEF CopyOut
<1>3. pull'.at = pull.at /\ pull'.rd = pull.rd /\ pull'.n = pull.n
  BY <1>1, <1>2 DEF RingTypes
<1>4. RingTypes'
  BY <1>1, <1>2 DEF RingTypes
<1>5. Waiting' = Waiting
  BY <1>2 DEF Waiting
<1>6. ASSUME ~overlap PROVE Intact' /\ HasRoom'
  BY <1>2, <1>3, <1>5, <1>6 DEF RingIInv, Intact, HasRoom
<1> QED BY <1>2, <1>4, <1>6 DEF RingIInv

LEMMA PullEndsKeeps == RingIInv /\ PullEnds => RingIInv'
<1> SUFFICES ASSUME RingIInv, PullEnds PROVE RingIInv'
  OBVIOUS
<1>1. RingTypes
  BY DEF RingIInv
<1>2. /\ pull.at = "copy" /\ rd' = Plus(pull.rd, pull.n) /\ pull' = NoPull
      /\ UNCHANGED <<overlap, wr, frames, submit, heard>>
  BY DEF PullEnds
<1>3. Plus(pull.rd, pull.n) \in 0 .. IndexWrap - 1
  BY <1>1, InWrap DEF RingTypes
<1>4. RingTypes'
  <2>1. NoPull \in [at : {"idle", "copy"}, rd : 0 .. IndexWrap - 1, n : Nat, i : Nat] /\ NoPull.i <= NoPull.n /\ NoPull.i = 0
    BY Wrap DEF NoPull
  <2>2. rd' \in 0 .. IndexWrap - 1
    BY <1>2, <1>3
  <2> QED BY <1>1, <1>2, <2>1, <2>2 DEF RingTypes
<1>5. ASSUME ~overlap PROVE Intact' /\ HasRoom'
  <2>1. Intact /\ HasRoom
    BY <1>5 DEF RingIInv
  <2>2. PICK d : d = pull.n
    OBVIOUS
  <2>3. d \in 0 .. Waiting /\ rd' = Plus(rd, d) /\ submit.at # "drop"
    BY <1>1, <1>2, <2>1, <2>2, InWrap DEF HasRoom, RingTypes, Waiting
  <2>4. /\ Waiting' = Waiting - d
        /\ \A k \in 0 .. Waiting - d - 1 : frames[SlotOf(Plus(rd, d) + k)] = Plus(Plus(rd, d), k)
    <3>1. wr \in Int /\ rd \in Int /\ d \in 0 .. Minus(wr, rd)
      BY <1>1, <2>3 DEF RingTypes, Waiting
    <3>2. Waiting \in Nat /\ d \in 0 .. Waiting
      BY <3>1, InWrap DEF Waiting
    <3>3. \A k \in 0 .. Waiting - 1 : frames[SlotOf(rd + k)] = Plus(rd, k)
      BY <2>1 DEF Intact
    <3>4. Waiting' = Minus(wr, Plus(rd, d))
      BY <1>2, <2>3 DEF Waiting
    <3>5. Minus(wr, Plus(rd, d)) = Waiting - d
      BY <3>1, Nearer DEF Waiting
    <3>6. \A k \in 0 .. Waiting - d - 1 : frames[SlotOf(Plus(rd, d) + k)] = Plus(Plus(rd, d), k)
      <4>1. PICK h : h = Waiting
        OBVIOUS
      <4> QED BY <3>1, <3>2, <3>3, <4>1, Advanced
    <3> QED BY <3>4, <3>5, <3>6
  <2>5. pull'.at = "idle"
    BY <1>2 DEF NoPull
  <2>6. Waiting \in Nat /\ d \in Nat /\ submit.n \in Nat
    BY <1>1, <2>3, InWrap DEF RingTypes, Waiting
  <2>7. Intact'
    BY <1>2, <2>1, <2>3, <2>4 DEF Intact
  <2>8. HasRoom'
    BY <1>2, <2>1, <2>3, <2>4, <2>5, <2>6, Wrap DEF HasRoom
  <2> QED BY <2>7, <2>8
<1> QED BY <1>2, <1>4, <1>5 DEF RingIInv

LEMMA RingMoves == RingIInv /\ [RingNext]_ringVars => RingIInv'
<1> SUFFICES ASSUME RingIInv, [RingNext]_ringVars PROVE RingIInv'
  OBVIOUS
<1>1. CASE UNCHANGED ringVars
  BY <1>1 DEF ringVars, RingIInv, RingTypes, Intact, HasRoom, Waiting
<1> QED BY <1>1, SubmitBeginsKeeps, DropKeeps, CopyInKeeps, PublishKeeps, PullBeginsKeeps, CopyOutKeeps,
           PullEndsKeeps DEF RingNext

THEOREM RingIInvHolds == RingSpec => []RingIInv
BY RingStarts, RingMoves, PTL DEF RingSpec

(* The queue the ring is: the frames from the i-th after r on, n of them.   *)
Block(r, i, n) == [k \in 1 .. n |-> Plus(r, i + (k - 1))]

LEMMA BlockIs ==
  ASSUME NEW r \in Int, NEW i \in Int, NEW n \in Nat
  PROVE  /\ Block(r, i, n) \in Seq(Int) /\ Len(Block(r, i, n)) = n
         /\ \A k \in 1 .. n : Block(r, i, n)[k] = Plus(r, i + (k - 1))
<1>1. \A k \in 1 .. n : Plus(r, i + (k - 1)) \in Int
  <2> SUFFICES ASSUME NEW k \in 1 .. n PROVE Plus(r, i + (k - 1)) \in Int
    OBVIOUS
  <2>1. i + (k - 1) \in Int
    OBVIOUS
  <2> QED BY <2>1, InWrap
<1>2. Block(r, i, n) \in [1 .. n -> Int]
  BY <1>1 DEF Block
<1>3. Block(r, i, n) \in Seq(Int)
  BY <1>2
<1>4. Len(Block(r, i, n)) = n
  BY <1>2, <1>3, LenProperties
<1> QED BY <1>3, <1>4 DEF Block

LEMMA BlockAt ==
  ASSUME NEW r \in Int, NEW i \in Int, NEW n \in Nat, NEW s \in Seq(Int), Len(s) = n,
         \A k \in 1 .. n : s[k] = Plus(r, i + (k - 1))
  PROVE  s = Block(r, i, n)
<1>1. PICK t : t = Block(r, i, n)
  OBVIOUS
<1>2. t \in Seq(Int) /\ Len(t) = n /\ \A k \in 1 .. n : t[k] = Plus(r, i + (k - 1))
  BY <1>1, BlockIs
<1>3. s = t
  BY <1>2, SeqEqual
<1> QED BY <1>1, <1>3

(* What the slots of f hold from index p up to index w.                     *)
Shown(w, p, f) == [k \in 1 .. Minus(w, p) |-> f[SlotOf(p + (k - 1))]]

LEMMA Content ==
  ASSUME NEW w \in Int, NEW r \in Int, NEW i \in Int, NEW f, NEW h \in Nat, h = Minus(w, r), i \in 0 .. h,
         \A k \in 0 .. h - 1 : f[SlotOf(r + k)] = Plus(r, k)
  PROVE  Shown(w, Plus(r, i), f) = Block(r, i, h - i)
<1>1. PICK p : p = Plus(r, i)
  OBVIOUS
<1>2. Minus(w, p) = h - i
  BY <1>1, Nearer
<1>3. ASSUME NEW k \in 1 .. h - i PROVE f[SlotOf(p + (k - 1))] = Plus(r, i + (k - 1))
  <2>1. PICK j : j = k - 1
    OBVIOUS
  <2>2. j \in Int /\ i + j \in 0 .. h - 1
    BY <2>1
  <2>3. SlotOf(p + j) = SlotOf(r + (i + j))
    BY <1>1, <2>2, PlusPlus
  <2>4. f[SlotOf(r + (i + j))] = Plus(r, i + j)
    BY <2>2
  <2> QED BY <2>1, <2>3, <2>4
<1>4. [k \in 1 .. h - i |-> f[SlotOf(p + (k - 1))]] = Block(r, i, h - i)
  BY <1>3 DEF Block
<1> QED BY <1>1, <1>2, <1>4 DEF Shown

(* Four ways a block changes: frames are put behind it, taken off before    *)
(* it, its first is taken, and its frames are counted from another index.   *)
LEMMA BlockGrows ==
  ASSUME NEW r \in Int, NEW i \in Int, NEW m \in Nat, NEW n \in Nat
  PROVE  Block(r, i, m + n) = Block(r, i, m) \o Block(Plus(r, i + m), 0, n)
<1>1. PICK s, u, l, h, w : /\ s = Block(r, i, m) /\ u = Block(w, 0, n) /\ l = m + n
                           /\ h = i + m /\ w = Plus(r, h)
  OBVIOUS
<1>2. l \in Nat /\ h \in Int /\ w \in Int /\ 0 \in Int
  BY <1>1, InWrap
<1>3. s \in Seq(Int) /\ Len(s) = m /\ \A k \in 1 .. m : s[k] = Plus(r, i + (k - 1))
  BY <1>1, BlockIs, Zenon
<1>4. u \in Seq(Int) /\ Len(u) = n /\ \A k \in 1 .. n : u[k] = Plus(w, 0 + (k - 1))
  <2>1. 0 \in Int
    OBVIOUS
  <2>2. w \in Int /\ u = Block(w, 0, n)
    BY <1>1, <1>2
  <2> QED BY <2>1, <2>2, BlockIs, Zenon
<1>5. /\ s \o u \in Seq(Int) /\ Len(s \o u) = Len(s) + Len(u)
      /\ \A k \in 1 .. Len(s) + Len(u) : (s \o u)[k] = IF k <= Len(s) THEN s[k] ELSE u[k - Len(s)]
  BY <1>3, <1>4, ConcatProperties
<1>6. PICK t : t = s \o u
  OBVIOUS
<1>7. /\ t \in Seq(Int) /\ Len(t) = l
      /\ \A k \in 1 .. l : t[k] = IF k <= m THEN s[k] ELSE u[k - m]
  BY <1>1, <1>3, <1>4, <1>5, <1>6
<1>8. ASSUME NEW k \in 1 .. l PROVE t[k] = Plus(r, i + (k - 1))
  <2>1. CASE k <= m
    BY <1>3, <1>7, <2>1
  <2>2. CASE ~(k <= m)
    <3>1. PICK j : j = k - m
      OBVIOUS
    <3>2. j \in 1 .. n /\ 0 + (j - 1) \in Int /\ h + (0 + (j - 1)) = i + (k - 1)
      BY <1>1, <1>2, <2>2, <3>1
    <3>3. t[k] = Plus(w, 0 + (j - 1))
      BY <1>4, <1>7, <2>2, <3>1, <3>2
    <3>4. Plus(Plus(r, h), 0 + (j - 1)) = Plus(r, h + (0 + (j - 1)))
      BY <1>2, <3>2, PlusPlus
    <3> QED BY <1>1, <3>2, <3>3, <3>4
  <2> QED BY <2>1, <2>2
<1>9. t = Block(r, i, l)
  BY <1>2, <1>7, <1>8, BlockAt
<1> QED BY <1>1, <1>6, <1>9

LEMMA BlockMoved ==
  ASSUME NEW r \in Int, NEW h \in Nat, NEW d \in 0 .. h
  PROVE  Block(Plus(r, d), 0, h - d) = Block(r, d, h - d)
<1>1. ASSUME NEW k \in 1 .. h - d PROVE Plus(Plus(r, d), 0 + (k - 1)) = Plus(r, d + (k - 1))
  <2>1. k - 1 \in Int /\ 0 + (k - 1) = k - 1 /\ d \in Int
    OBVIOUS
  <2>2. Plus(Plus(r, d), k - 1) = Plus(r, d + (k - 1))
    BY <2>1, PlusPlus
  <2> QED BY <2>1, <2>2
<1> QED BY <1>1 DEF Block

LEMMA BlockCut ==
  ASSUME NEW r \in Int, NEW h \in Nat, NEW d \in 0 .. h
  PROVE  SubSeq(Block(r, 0, h), d + 1, h) = Block(r, d, h - d)
<1>1. PICK s : s = Block(r, 0, h)
  OBVIOUS
<1>2. s \in Seq(Int) /\ Len(s) = h /\ \A k \in 1 .. h : s[k] = Plus(r, 0 + (k - 1))
  <2>1. 0 \in Int
    OBVIOUS
  <2> QED BY <1>1, <2>1, BlockIs, Zenon
<1>3. \A k \in d + 1 .. h : s[k] \in Int
  BY <1>2, ElementOfSeq
<1>4. PICK t : t = SubSeq(s, d + 1, h)
  OBVIOUS
<1>5. /\ t \in Seq(Int) /\ Len(t) = h - d
      /\ \A k \in 1 .. h - d : t[k] = s[(d + 1) + k - 1]
  <2>1. d + 1 \in Int /\ h \in Int
    OBVIOUS
  <2>2. /\ t \in Seq(Int) /\ Len(t) = IF d + 1 <= h THEN h - (d + 1) + 1 ELSE 0
        /\ \A k \in 1 .. h - (d + 1) + 1 : t[k] = s[(d + 1) + k - 1]
    BY <1>3, <1>4, <2>1, SubSeqProperties
  <2>3. h - (d + 1) + 1 = h - d /\ (~(d + 1 <= h) => h - d = 0)
    OBVIOUS
  <2> QED BY <2>2, <2>3
<1>6. \A k \in 1 .. h - d : t[k] = Plus(r, d + (k - 1))
  <2> SUFFICES ASSUME NEW k \in 1 .. h - d PROVE t[k] = Plus(r, d + (k - 1))
    OBVIOUS
  <2>1. d + k \in 1 .. h /\ (d + 1) + k - 1 = d + k /\ 0 + ((d + k) - 1) = d + (k - 1)
    OBVIOUS
  <2>2. s[d + k] = Plus(r, 0 + ((d + k) - 1))
    BY <1>2, <2>1
  <2> QED BY <1>5, <2>1, <2>2
<1>7. h - d \in Nat /\ d \in Int
  OBVIOUS
<1> QED BY <1>1, <1>4, <1>5, <1>6, <1>7, BlockAt

LEMMA BlockTail ==
  ASSUME NEW r \in Int, NEW i \in Nat, NEW n \in Nat \ {0}
  PROVE  /\ Block(r, i, n) # <<>> /\ Head(Block(r, i, n)) = Plus(r, i)
         /\ Tail(Block(r, i, n)) = Block(r, i + 1, n - 1)
<1>1. PICK s : s = Block(r, i, n)
  OBVIOUS
<1>2. s \in Seq(Int) /\ Len(s) = n /\ \A k \in 1 .. n : s[k] = Plus(r, i + (k - 1))
  <2>1. i \in Int /\ n \in Nat
    OBVIOUS
  <2> QED BY <1>1, <2>1, BlockIs, Zenon
<1>3. s # <<>> /\ Head(s) = s[1] /\ i + (1 - 1) = i
  BY <1>2
<1>4. PICK t : t = Tail(s)
  OBVIOUS
<1>5. t \in Seq(Int) /\ Len(t) = n - 1 /\ \A k \in 1 .. n - 1 : t[k] = s[k + 1]
  BY <1>2, <1>3, <1>4, HeadTailProperties
<1>6. \A k \in 1 .. n - 1 : t[k] = Plus(r, (i + 1) + (k - 1))
  <2> SUFFICES ASSUME NEW k \in 1 .. n - 1 PROVE t[k] = Plus(r, (i + 1) + (k - 1))
    OBVIOUS
  <2>1. k + 1 \in 1 .. n /\ i + ((k + 1) - 1) = (i + 1) + (k - 1)
    OBVIOUS
  <2> QED BY <1>2, <1>5, <2>1
<1>7. n - 1 \in Nat /\ i + 1 \in Int
  OBVIOUS
<1>8. t = Block(r, i + 1, n - 1)
  BY <1>5, <1>6, <1>7, BlockAt
<1> QED BY <1>1, <1>2, <1>3, <1>4, <1>8

(* What is in the ring is a block, before a step and after it.              *)
LEMMA RingHolds ==
  ASSUME RingIInv, ~overlap
  PROVE  /\ Waiting \in 0 .. RingFrames /\ pull.i \in 0 .. Waiting
         /\ InRing = Block(rd, pull.i, Waiting - pull.i) /\ Len(InRing) = Waiting - pull.i
<1>1. RingTypes /\ Intact /\ HasRoom
  BY DEF RingIInv
<1>2. PICK h, i : h = Waiting /\ i = pull.i
  OBVIOUS
<1>3. wr \in Int /\ rd \in Int /\ RingFrames \in Nat
  BY <1>1, Wrap DEF RingTypes
<1>4. h \in Nat /\ h = Minus(wr, rd)
  BY <1>2, <1>3, InWrap DEF Waiting
<1>5. h \in 0 .. RingFrames /\ i \in 0 .. h /\ i \in Int
  BY <1>1, <1>2, <1>3, <1>4 DEF RingTypes, HasRoom
<1>6. \A k \in 0 .. h - 1 : frames[SlotOf(rd + k)] = Plus(rd, k)
  BY <1>1, <1>2 DEF Intact
<1>7. InRing = Block(rd, i, h - i)
  <2>1. Shown(wr, Plus(rd, i), frames) = Block(rd, i, h - i)
    BY <1>3, <1>4, <1>5, <1>6, Content
  <2> QED BY <1>2, <2>1 DEF InRing, Place, Shown
<1>8. h - i \in Nat
  BY <1>5
<1>9. Len(InRing) = h - i
  BY <1>3, <1>5, <1>7, <1>8, BlockIs
<1> QED BY <1>2, <1>5, <1>7, <1>9

LEMMA RingHoldsNext ==
  ASSUME RingIInv', ~overlap'
  PROVE  InRing' = Block(rd', pull'.i, Waiting' - pull'.i)
<1>1. RingTypes' /\ Intact' /\ HasRoom'
  BY DEF RingIInv
<1>2. PICK h, i : h = Waiting' /\ i = pull'.i
  OBVIOUS
<1>3. wr' \in Int /\ rd' \in Int
  BY <1>1, Wrap DEF RingTypes
<1>4. h \in Nat /\ h = Minus(wr', rd')
  BY <1>2, <1>3, InWrap DEF Waiting
<1>5. i \in 0 .. h /\ i \in Int
  BY <1>1, <1>2, <1>3, <1>4 DEF RingTypes, HasRoom
<1>6. \A k \in 0 .. h - 1 : frames'[SlotOf(rd' + k)] = Plus(rd', k)
  BY <1>1, <1>2 DEF Intact
<1>7. Shown(wr', Plus(rd', i), frames') = Block(rd', i, h - i)
  BY <1>3, <1>4, <1>5, <1>6, Content
<1> QED BY <1>2, <1>7 DEF InRing, Place, Shown

(* A block published is mixed.                                              *)
LEMMA PublishMixes ==
  ASSUME RingIInv, RingIInv', ~overlap, Publish PROVE Queue!Mix
<1>1. RingTypes /\ HasRoom
  BY DEF RingIInv
<1>2. /\ submit.at = "copy" /\ wr' = Plus(wr, submit.n)
      /\ UNCHANGED <<overlap, rd, frames, pull, heard>>
  BY DEF Publish
<1>3. PICK n, h, i : n = submit.n /\ h = Waiting /\ i = pull.i
  OBVIOUS
<1>4. /\ n \in BlockSizes /\ n \in Nat /\ h + n <= RingFrames /\ RingFrames < IndexWrap
      /\ h \in Nat /\ i \in 0 .. h /\ wr \in 0 .. IndexWrap - 1 /\ wr \in Int /\ rd \in Int /\ IndexWrap \in Nat
      /\ RingFrames \in Nat
  BY <1>1, <1>2, <1>3, RingHolds, Wrap DEF RingTypes, HasRoom
<1>5. wr = Plus(rd, h)
  BY <1>3, <1>4, WrIs DEF Waiting
<1>6. Waiting' = h + n
  <2>1. h + n \in 0 .. IndexWrap - 1 /\ h = Minus(wr, rd) /\ n \in Int
    BY <1>3, <1>4, Wrap DEF Waiting
  <2>2. Minus(Plus(wr, n), rd) = h + n
    BY <1>4, <2>1, PlusMinus
  <2> QED BY <1>2, <1>3, <2>2 DEF Waiting
<1>7. InRing = Block(rd, i, h - i) /\ Len(InRing) = h - i
  BY <1>3, RingHolds
<1>8. InRing' = Block(rd, i, (h + n) - i)
  BY <1>2, <1>3, <1>6, RingHoldsNext
<1>9. InRing' = InRing \o [k \in 1 .. n |-> (wr + (k - 1)) % IndexWrap]
  <2>1. PICK m : m = h - i
    OBVIOUS
  <2>3. m \in Nat /\ i \in Int /\ i + m = h /\ (h + n) - i = m + n
    BY <1>4, <2>1
  <2>4. Block(rd, i, m + n) = Block(rd, i, m) \o Block(Plus(rd, i + m), 0, n)
    <3>1. rd \in Int /\ i \in Int /\ m \in Nat /\ n \in Nat
      BY <1>4, <2>3
    <3> QED BY ONLY <3>1, BlockGrows, Zenon
  <2>2. Block(wr, 0, n) = [k \in 1 .. n |-> (wr + (k - 1)) % IndexWrap]
    <3>1. ASSUME NEW k \in 1 .. n PROVE wr + (0 + (k - 1)) = wr + (k - 1)
      BY <1>4
    <3> QED BY <3>1 DEF Block, Plus
  <2> QED BY <1>5, <1>7, <1>8, <2>1, <2>2, <2>3, <2>4
<1>10. Len(InRing) + n <= RingFrames
  BY <1>4, <1>7
<1>11. wr' = (wr + n) % IndexWrap /\ heard' = heard
  BY <1>2, <1>3 DEF Plus
<1> QED BY <1>4, <1>9, <1>10, <1>11 DEF Queue!Mix

(* Frames dropped are lost.                                                 *)
LEMMA DropLoses ==
  ASSUME RingIInv, RingIInv', ~overlap, Drop
  PROVE  Queue!Lose \/ UNCHANGED <<InRing, wr, heard>>
<1>1. RingTypes /\ HasRoom /\ MadeRoom
  BY DropKeeps DEF RingIInv
<1>2. submit.at = "drop" /\ pull.at = "idle" /\ UNCHANGED <<overlap, wr, frames, pull, heard>>
  BY <1>1 DEF Drop, HasRoom
<1>3. PICK h : h = Waiting
  OBVIOUS
<1>4. PICK n \in BlockSizes, d \in 0 .. h : rd' = Plus(rd, d) /\ h - d + n = RingFrames
  BY <1>1, <1>3 DEF MadeRoom
<1>5. /\ h \in Nat /\ pull.i = 0 /\ wr \in Int /\ rd \in 0 .. IndexWrap - 1 /\ rd \in Int
      /\ n \in Nat /\ d \in Nat /\ RingFrames \in Nat
  BY <1>1, <1>2, <1>3, RingHolds, RingAssumption DEF RingTypes
<1>6. Waiting' = h - d
  <2>1. d \in 0 .. Minus(wr, rd) /\ h = Minus(wr, rd)
    BY <1>3, <1>4 DEF Waiting
  <2> QED BY <1>2, <1>4, <1>5, <2>1, Nearer DEF Waiting
<1>7. InRing = Block(rd, 0, h) /\ Len(InRing) = h
  BY <1>3, <1>5, RingHolds
<1>8. InRing' = Block(Plus(rd, d), 0, h - d)
  BY <1>2, <1>4, <1>5, <1>6, RingHoldsNext
<1>9. InRing' = SubSeq(InRing, d + 1, Len(InRing))
  <2>1. Block(Plus(rd, d), 0, h - d) = Block(rd, d, h - d)
    BY <1>4, <1>5, BlockMoved, Zenon
  <2>2. SubSeq(Block(rd, 0, h), d + 1, h) = Block(rd, d, h - d)
    BY <1>4, <1>5, BlockCut, Zenon
  <2> QED BY <1>7, <1>8, <2>1, <2>2
<1>10. CASE d = 0
  <2>1. InRing' = InRing
    <3>1. rd % IndexWrap = rd /\ rd + 0 = rd
      BY <1>5, Wrap, Small
    <3> QED BY <1>5, <1>7, <1>8, <1>10, <3>1 DEF Plus
  <2> QED BY <1>2, <2>1
<1>11. CASE d # 0
  <2>1. d \in 1 .. Len(InRing) /\ Len(InRing) + n - d = RingFrames
    BY <1>4, <1>5, <1>7, <1>11
  <2>2. wr' = wr /\ heard' = heard
    BY <1>2
  <2>3. Queue!Lose
    BY <1>4, <1>9, <2>1, <2>2 DEF Queue!Lose
  <2> QED BY <2>3
<1> QED BY <1>10, <1>11

(* A frame copied out is heard.                                             *)
LEMMA CopyOutHears ==
  ASSUME RingIInv, RingIInv', ~overlap, CopyOut PROVE Queue!Hear
<1>1. RingTypes /\ Intact /\ HasRoom
  BY DEF RingIInv
<1>2. /\ pull.at = "copy" /\ pull.i < pull.n /\ pull' = [pull EXCEPT !.i = pull.i + 1]
      /\ heard' = frames[SlotOf(pull.rd + pull.i)] /\ UNCHANGED <<overlap, wr, rd, frames, submit>>
  BY DEF CopyOut
<1>3. PICK h, i : h = Waiting /\ i = pull.i
  OBVIOUS
<1>4. h \in Nat /\ i \in Nat /\ i < h /\ rd \in Int /\ pull.rd = rd
  BY <1>1, <1>2, <1>3, RingHolds DEF RingTypes, HasRoom
<1>5. pull'.i = i + 1 /\ Waiting' = h
  BY <1>1, <1>2, <1>3 DEF RingTypes, Waiting
<1>6. InRing = Block(rd, i, h - i)
  BY <1>3, RingHolds
<1>7. InRing' = Block(rd, i + 1, (h - i) - 1)
  <2>1. h - (i + 1) = (h - i) - 1
    BY <1>4
  <2>2. InRing' = Block(rd, i + 1, h - (i + 1))
    BY <1>2, <1>5, RingHoldsNext
  <2> QED BY <2>1, <2>2
<1>8. InRing # <<>> /\ Head(InRing) = Plus(rd, i) /\ Tail(InRing) = InRing'
  <2>1. h - i \in Nat \ {0}
    BY <1>4
  <2> QED BY <1>4, <1>6, <1>7, <2>1, BlockTail
<1>9. heard' = Plus(rd, i)
  BY <1>1, <1>2, <1>3, <1>4 DEF Intact
<1> QED BY <1>2, <1>8, <1>9 DEF Queue!Hear

(* The other steps leave the queue as it is.                                *)
LEMMA PullEndsStutters ==
  ASSUME RingIInv, RingIInv', ~overlap, PullEnds PROVE UNCHANGED <<InRing, wr, heard>>
<1>1. RingTypes /\ HasRoom
  BY DEF RingIInv
<1>2. /\ pull.at = "copy" /\ pull.i = pull.n /\ rd' = Plus(pull.rd, pull.n) /\ pull'.i = 0
      /\ UNCHANGED <<overlap, wr, frames, submit, heard>>
  BY DEF PullEnds, NoPull
<1>3. PICK h, i : h = Waiting /\ i = pull.i
  OBVIOUS
<1>4. h \in Nat /\ i \in 0 .. h /\ rd \in Int /\ wr \in Int /\ rd' = Plus(rd, i)
  BY <1>1, <1>2, <1>3, RingHolds DEF RingTypes, HasRoom
<1>5. Waiting' = h - i
  BY <1>2, <1>3, <1>4, Nearer DEF Waiting
<1>6. InRing' = Block(Plus(rd, i), 0, h - i)
  <2>1. (h - i) - 0 = h - i
    BY <1>4
  <2>2. InRing' = Block(rd', 0, (h - i) - 0)
    BY <1>2, <1>5, RingHoldsNext
  <2> QED BY <1>4, <2>1, <2>2
<1>7. InRing = Block(rd, i, h - i)
  BY <1>3, RingHolds
<1>8. InRing' = InRing
  BY <1>4, <1>6, <1>7, BlockMoved
<1> QED BY <1>2, <1>8

LEMMA OthersStutter ==
  ASSUME RingIInv, RingIInv', ~overlap, SubmitBegins \/ CopyIn \/ PullBegins
  PROVE  UNCHANGED <<InRing, wr, heard>>
<1>1. RingTypes
  BY DEF RingIInv
<1>2. UNCHANGED <<overlap, wr, rd, heard>>
  BY DEF SubmitBegins, CopyIn, PullBegins
<1>3. pull'.i = pull.i
  BY <1>1 DEF SubmitBegins, CopyIn, PullBegins, RingTypes
<1>4. Waiting' = Waiting
  BY <1>2 DEF Waiting
<1>5. InRing' = InRing
  BY <1>2, <1>3, <1>4, RingHolds, RingHoldsNext
<1> QED BY <1>2, <1>5

LEMMA QueueStarts == RingInit => Queue!QueueInit
<1> SUFFICES ASSUME RingInit PROVE Queue!QueueInit
  OBVIOUS
<1>1. wr = 0 /\ rd = 0 /\ pull.i = 0 /\ heard = -1
  BY DEF RingInit, NoPull
<1>2. Place = 0 /\ Minus(wr, Place) = 0
  <2>1. IndexWrap \in Nat \ {0} /\ 0 \in 0 .. IndexWrap - 1 /\ 0 + 0 = 0 /\ 0 - 0 = 0
    BY Wrap
  <2>2. 0 % IndexWrap = 0
    BY <2>1, Small, Zenon
  <2> QED BY <1>1, <2>1, <2>2 DEF Place, Plus, Minus
<1>3. InRing = <<>>
  BY <1>2 DEF InRing
<1> QED BY <1>1, <1>3 DEF Queue!QueueInit

(* While no pull overlaps a drop, the ring is a queue: each frame is heard  *)
(* once, in order and as it was mixed, but the oldest, lost when a block    *)
(* did not fit.                                                             *)
THEOREM RingIsQueue == RingSpec => AbstractQueue
<1>1. RingIInv /\ RingIInv' /\ [RingNext]_ringVars => [~overlap => Queue!QueueNext]_<<InRing, wr, heard>>
  <2> SUFFICES ASSUME RingIInv, RingIInv', [RingNext]_ringVars, ~overlap
               PROVE  Queue!QueueNext \/ UNCHANGED <<InRing, wr, heard>>
    OBVIOUS
  <2>1. CASE UNCHANGED ringVars
    BY <2>1 DEF ringVars, InRing, Place
  <2>2. CASE SubmitBegins \/ CopyIn \/ PullBegins
    BY <2>2, OthersStutter
  <2>3. CASE Drop
    BY <2>3, DropLoses DEF Queue!QueueNext
  <2>4. CASE Publish
    BY <2>4, PublishMixes DEF Queue!QueueNext
  <2>5. CASE CopyOut
    BY <2>5, CopyOutHears DEF Queue!QueueNext
  <2>6. CASE PullEnds
    BY <2>6, PullEndsStutters
  <2> QED BY <2>1, <2>2, <2>3, <2>4, <2>5, <2>6 DEF RingNext
<1> QED BY <1>1, QueueStarts, RingIInvHolds, PTL DEF RingSpec, AbstractQueue

-----------------------------------------------------------------------------
(* The voice list. *)

(* Where the frame thread is between voices, and where at one.              *)
Between == {"asleep", "behind", "link"}
AtVoice == {"state", "load", "store", "off", "note", "raise", "idle", "meth", "param", "trap"}

VoiceTypes ==
  /\ VoicesTypeOK
  /\ frame \in [at : Between \cup AtVoice, cur : Voice \cup {End}, nxt : Voice \cup {End}, word : BOOLEAN]
  /\ call \in [at : {"none", "on", "lock", "link", "top", "on2", "unlock", "off", "clear", "note", "raise"},
               voice : Voice \cup {End}]
  /\ call.at # "none" => call.voice \in Voice

(* Methods and the title's interrupt routine exclude each other; the voice  *)
(* a method turns on is in no list until it is made its top, with the top   *)
(* it found behind it.                                                      *)
LinksInNew ==
  /\ isr = "none" \/ call.at = "none"
  /\ call.at \in {"on", "lock", "link", "top"} => call.voice \notin Listed
  /\ call.at = "top" => link[call.voice] = top

VoicesIInv == VoiceTypes /\ LinksInNew /\ ListEnds

(* A set of voices that has the top, and with each voice its next, has the  *)
(* list, and the list is such a set.                                        *)
LEMMA ListedLeast == \A S \in SUBSET Voice : Closed(S) => Listed \subseteq S
BY DEF Listed

LEMMA ListedLeastNext == \A S \in SUBSET Voice : Closed(S)' => Listed' \subseteq S
BY DEF Listed

LEMMA ListedClosed ==
  ASSUME top \in Voice \cup {End}, link \in [Voice -> Voice \cup {End}] PROVE Closed(Listed)
BY DEF Listed, Closed

LEMMA ListedSame == ASSUME UNCHANGED <<top, link>> PROVE Listed' = Listed
BY DEF Listed, Closed

(* A voice outside the list may be linked to anything.                      *)
LEMMA LinkedOutside ==
  ASSUME VoiceTypes, NEW c \in Voice \ Listed, NEW x \in Voice \cup {End},
         top' = top, link' = [link EXCEPT ![c] = x]
  PROVE  Listed' = Listed
<1>1. link \in [Voice -> Voice \cup {End}] /\ top \in Voice \cup {End} /\ Listed \subseteq Voice
  BY DEF VoiceTypes, VoicesTypeOK, Listed
<1>2. Closed(Listed)
  BY <1>1, ListedClosed
<1>3. PICK L : L = Listed
  OBVIOUS
<1>4. Listed' \subseteq Listed
  <2>1. Closed(L)'
    BY <1>1, <1>2, <1>3 DEF Closed
  <2> QED BY <1>1, <1>3, <2>1, ListedLeastNext
<1>5. ASSUME NEW v \in Listed PROVE v \in Listed'
  <2>1. SUFFICES ASSUME NEW S \in SUBSET Voice, Closed(S)' PROVE v \in S
    BY <1>1 DEF Listed
  <2>2. Closed(S \cap Listed)
    BY <1>1, <1>2, <2>1 DEF Closed
  <2> QED BY <2>2, ListedLeast
<1> QED BY <1>4, <1>5

(* A voice linked to the top and made the top joins the list.               *)
LEMMA MadeTop ==
  ASSUME VoiceTypes, NEW c \in Voice \ Listed, link[c] = top, top' = c, link' = link
  PROVE  Listed' = Listed \cup {c}
<1>1. link \in [Voice -> Voice \cup {End}] /\ top \in Voice \cup {End} /\ Listed \subseteq Voice
  BY DEF VoiceTypes, VoicesTypeOK, Listed
<1>2. Closed(Listed)
  BY <1>1, ListedClosed
<1>3. PICK L : L = Listed \cup {c}
  OBVIOUS
<1>4. Listed' \subseteq Listed \cup {c}
  <2>1. Closed(L)'
    BY <1>1, <1>2, <1>3 DEF Closed
  <2>2. L \in SUBSET Voice
    BY <1>1, <1>3
  <2> QED BY <1>3, <2>1, <2>2, ListedLeastNext
<1>5. ASSUME NEW v \in Listed \cup {c} PROVE v \in Listed'
  <2>1. SUFFICES ASSUME NEW S \in SUBSET Voice, Closed(S)' PROVE v \in S
    BY <1>1 DEF Listed
  <2>2. Closed(S) /\ c \in S
    BY <1>1, <2>1, VoiceAssumption DEF Closed
  <2> QED BY <2>2, ListedLeast
<1> QED BY <1>4, <1>5

(* The title's routine takes out the voice it names and no other, and the   *)
(* list it leaves has the end the old one had.                              *)
LEMMA TakenOut ==
  ASSUME VoiceTypes, ListEnds, Retires
  PROVE  Listed \ Named \subseteq Listed' /\ ListEnds'
<1>1. link \in [Voice -> Voice \cup {End}] /\ top \in Voice \cup {End} /\ Listed \subseteq Voice
  BY DEF VoiceTypes, VoicesTypeOK, Listed
<1>2. Closed(Listed)
  BY <1>1, ListedClosed
<1>3. /\ top' = IF top \in Named THEN link[top] ELSE top
      /\ link' = [v \in Voice |-> IF v \in Listed /\ link[v] \in Named THEN link[link[v]] ELSE link[v]]
  BY DEF Retires
<1>4. CASE Named = {}
  <2>1. top' = top /\ link' = link
    BY <1>1, <1>3, <1>4
  <2> QED BY <2>1, ListedSame DEF ListEnds
<1>5. ASSUME NEW n \in Listed, Named = {n} PROVE Listed \ Named \subseteq Listed' /\ ListEnds'
  <2>1. /\ top' = IF top = n THEN link[n] ELSE top
        /\ \A v \in Voice : link'[v] = IF v \in Listed /\ link[v] = n THEN link[n] ELSE link[v]
    BY <1>3, <1>5
  <2>2. n \in Voice /\ n # End
    BY <1>1, VoiceAssumption
  <2>3. ASSUME NEW v \in Listed, v # n PROVE v \in Listed'
    <3>1. SUFFICES ASSUME NEW S \in SUBSET Voice, Closed(S)' PROVE v \in S
      BY <1>1 DEF Listed
    <3>2. CASE top = n \/ \E p \in S \cap Listed : link[p] = n
      <4>1. link[n] = End \/ link[n] \in S \cup {n}
        BY <1>1, <2>1, <2>2, <3>1, <3>2 DEF Closed
      <4>2. \A w \in S \cap Listed : link[w] = End \/ link[w] \in S \cup {n}
        BY <1>1, <2>1, <3>1 DEF Closed
      <4>3. Closed((S \cup {n}) \cap Listed)
        BY <1>1, <1>2, <2>1, <3>1, <4>1, <4>2 DEF Closed
      <4> QED BY <1>1, <2>3, <4>3, ListedLeast
    <3>3. CASE top # n /\ ~\E p \in S \cap Listed : link[p] = n
      <4>1. Closed(S \cap Listed)
        BY <1>1, <1>2, <2>1, <3>1, <3>3 DEF Closed
      <4> QED BY <4>1, ListedLeast
    <3> QED BY <3>2, <3>3
  <2>4. top # End
    <3>1. SUFFICES ASSUME top = End PROVE FALSE
      OBVIOUS
    <3>2. Closed({})
      BY <3>1 DEF Closed
    <3> QED BY <1>5, <3>2, ListedLeast
  <2>5. PICK e \in Listed : link[e] = End
    BY <2>4 DEF ListEnds
  <2>6. CASE e # n
    <3>1. e \in Listed' /\ link'[e] = End
      BY <1>1, <2>1, <2>2, <2>3, <2>5, <2>6
    <3> QED BY <1>5, <2>3, <3>1 DEF ListEnds
  <2>7. CASE e = n
    <3>1. CASE top = n
      BY <1>5, <2>1, <2>3, <2>5, <2>7, <3>1 DEF ListEnds
    <3>2. CASE top # n
      <4>1. PICK p \in Listed : p # n /\ link[p] = n
        <5>1. SUFFICES ASSUME \A p \in Listed : p # n => link[p] # n PROVE FALSE
          OBVIOUS
        <5>2. Closed(Listed \ {n})
          BY <1>1, <1>2, <3>2, <5>1 DEF Closed
        <5> QED BY <1>1, <5>2, ListedLeast
      <4>2. p \in Listed' /\ link'[p] = End
        BY <1>1, <2>1, <2>3, <2>5, <2>7, <4>1
      <4> QED BY <1>5, <2>3, <4>2 DEF ListEnds
    <3> QED BY <3>1, <3>2
  <2> QED BY <2>6, <2>7
<1>6. Named = {} \/ \E n \in Listed : Named = {n}
  BY DEF Named
<1> QED BY <1>4, <1>5, <1>6

LEMMA VoicesStart == VoicesInit => VoicesIInv
<1> SUFFICES ASSUME VoicesInit PROVE VoicesIInv
  OBVIOUS
<1>1. VoiceTypes
  <2>1. force \in BOOLEAN /\ ien \subseteq Source \cup {"global"} /\ ists \subseteq Source
    BY DEF VoicesInit
  <2>2. /\ active \subseteq Voice /\ done \subseteq Voice /\ top = End
        /\ link \in [Voice -> Voice \cup {End}] /\ mode = "free" /\ calls \in 0 .. MaxCalls
        /\ decoded \in [meth : {"idle", "other"}, param : Voice \cup {End}]
    BY VoiceAssumption DEF VoicesInit
  <2>3. /\ frame.at = "asleep" /\ call.at = "none"
        /\ frame \in [at : Between \cup AtVoice, cur : Voice \cup {End}, nxt : Voice \cup {End}, word : BOOLEAN]
        /\ call \in [at : {"none", "on", "lock", "link", "top", "on2", "unlock", "off", "clear", "note", "raise"},
                     voice : Voice \cup {End}]
    BY DEF VoicesInit, Between
  <2> QED BY <2>1, <2>2, <2>3 DEF VoiceTypes, VoicesTypeOK
<1>2. LinksInNew /\ ListEnds
  BY DEF VoicesInit, LinksInNew, ListEnds
<1> QED BY <1>1, <1>2 DEF VoicesIInv

(* The frame thread writes no link.                                         *)
LEMMA Walks ==
  ASSUME VoiceTypes,
         \E from \in AtVoice \cup {"behind"}, to \in AtVoice \cup Between :
           (Goes(from, to) /\ (from = "behind" => to \in Between)) \/ (from # "behind" /\ Advance(from))
  PROVE  /\ frame' \in [at : Between \cup AtVoice, cur : Voice \cup {End}, nxt : Voice \cup {End},
                        word : BOOLEAN]
         /\ frame'.at \in {"asleep", "behind", "link"} \/ frame'.cur \in Voice
         /\ frame.at # "behind" => frame.cur \in Voice
<1>1. PICK from \in AtVoice \cup {"behind"}, to \in AtVoice \cup Between :
        (Goes(from, to) /\ (from = "behind" => to \in Between)) \/ (from # "behind" /\ Advance(from))
  OBVIOUS
<1>2. frame \in [at : Between \cup AtVoice, cur : Voice \cup {End}, nxt : Voice \cup {End}, word : BOOLEAN]
      /\ (frame.at \in {"asleep", "behind", "link"} \/ frame.cur \in Voice)
  BY DEF VoiceTypes, VoicesTypeOK
<1>3. CASE Goes(from, to) /\ (from = "behind" => to \in Between)
  <2>1. frame.at = from /\ frame' = [frame EXCEPT !.at = to, !.word = FALSE]
    BY <1>3 DEF Goes
  <2>2. frame'.at = to /\ frame'.cur = frame.cur
    BY <1>2, <2>1
  <2>3. from \notin {"asleep", "link"}
    BY DEF AtVoice
  <2> QED BY <1>1, <1>2, <1>3, <2>1, <2>2, <2>3 DEF Between
<1>4. CASE from # "behind" /\ Advance(from)
  <2>1. frame.at = from /\ frame' = [frame EXCEPT !.at = "link", !.cur = frame.nxt, !.word = FALSE]
    BY <1>4 DEF Advance
  <2>2. from \notin {"asleep", "behind", "link"} /\ "link" \in Between
    BY <1>4 DEF AtVoice, Between
  <2> QED BY <1>2, <2>1, <2>2
<1> QED BY <1>1, <1>3, <1>4

LEMMA FrameKeeps ==
  ASSUME VoicesIInv, FrameThread \/ Rests PROVE VoiceTypes' /\ UNCHANGED <<top, link, call, isr>>
<1>0. VoiceTypes
  BY DEF VoicesIInv
<1>1. CASE FrameBegins
  BY <1>0, <1>1 DEF FrameBegins, VoiceTypes, VoicesTypeOK, Between
<1>2. CASE Rests
  <2>1. Goes("behind", "asleep") /\ "asleep" \in Between
    BY <1>2 DEF Rests, Between
  <2> QED BY <1>0, <1>2, <2>1, Walks DEF Rests, VoiceTypes, VoicesTypeOK
<1>3. CASE WalkOn
  BY <1>0, <1>3 DEF WalkOn, VoiceTypes, VoicesTypeOK, AtVoice, Between
<1>4. CASE Looks
  <2>1. \E to \in AtVoice : Goes("state", to)
    BY <1>4 DEF Looks, AtVoice
  <2>2. "state" \in AtVoice
    BY DEF AtVoice
  <2> QED BY <1>0, <1>4, <2>1, <2>2, Walks DEF Looks, VoiceTypes, VoicesTypeOK
<1>5. CASE Loads
  <2>1. PICK b \in BOOLEAN : b = (frame.cur \in active)
    <3>1. CASE frame.cur \in active
      <4>1. (frame.cur \in active) = TRUE
        BY <3>1
      <4> QED BY <4>1
    <3>2. CASE frame.cur \notin active
      <4>1. (frame.cur \in active) = FALSE
        BY <3>2
      <4> QED BY <4>1
    <3> QED BY <3>1, <3>2
  <2>2. frame' = [frame EXCEPT !.at = "store", !.word = b] /\ frame.at = "load"
    BY <1>5, <2>1, Zenon DEF Loads
  <2>3. frame.cur \in Voice
    BY <1>0, <2>2 DEF VoiceTypes, VoicesTypeOK
  <2> QED BY <1>0, <1>5, <2>2, <2>3 DEF Loads, VoiceTypes, VoicesTypeOK, AtVoice
<1>6. CASE Stores
  <2>1. Advance("store") \/ Goes("store", "off")
    BY <1>6 DEF Stores
  <2>2. "store" \in AtVoice /\ "off" \in AtVoice
    BY DEF AtVoice
  <2>3. frame.at = "store"
    BY <2>1 DEF Advance, Goes
  <2> QED BY <1>0, <1>6, <2>1, <2>2, <2>3, Walks DEF Stores, VoiceTypes, VoicesTypeOK
<1>7. CASE EndsVoice
  <2>1. Goes("off", "note") /\ "off" \in AtVoice /\ "note" \in AtVoice
    BY <1>7 DEF EndsVoice, AtVoice
  <2> QED BY <1>0, <1>7, <2>1, Walks DEF EndsVoice, VoiceTypes, VoicesTypeOK
<1>8. CASE VoiceEndNoted
  <2>1. Goes("note", "raise") \/ Advance("raise")
    BY <1>8 DEF VoiceEndNoted, Notifies
  <2>2. "note" \in AtVoice /\ "raise" \in AtVoice
    BY DEF AtVoice
  <2>3. frame.at # "behind"
    BY <2>1 DEF Advance, Goes
  <2>4. done' \in SUBSET Voice /\ ists' \in SUBSET Source
    BY <1>0, <1>8, <2>1, <2>2, <2>3, Walks DEF VoiceEndNoted, Notifies, Source, VoiceTypes, VoicesTypeOK
  <2> QED BY <1>0, <1>8, <2>1, <2>2, <2>4, Walks DEF VoiceEndNoted, VoiceTypes, VoicesTypeOK
<1>9. CASE FindsIdle
  <2>1. Goes("idle", "meth") \/ Advance("idle")
    BY <1>9 DEF FindsIdle
  <2>2. "idle" \in AtVoice /\ "meth" \in AtVoice
    BY DEF AtVoice
  <2> QED BY <1>0, <1>9, <2>1, <2>2, Walks DEF FindsIdle, VoiceTypes, VoicesTypeOK
<1>10. CASE ReportMeth
  <2>1. Goes("meth", "param") /\ "meth" \in AtVoice /\ "param" \in AtVoice
    BY <1>10 DEF ReportMeth, AtVoice
  <2> QED BY <1>0, <1>10, <2>1, Walks DEF ReportMeth, VoiceTypes, VoicesTypeOK
<1>11. CASE ReportParam
  <2>1. Goes("param", "trap") /\ "param" \in AtVoice /\ "trap" \in AtVoice
    BY <1>11 DEF ReportParam, AtVoice
  <2> QED BY <1>0, <1>11, <2>1, Walks DEF ReportParam, VoiceTypes, VoicesTypeOK
<1>12. CASE Trap
  <2>1. Advance("trap") /\ "trap" \in AtVoice
    BY <1>12 DEF Trap, AtVoice
  <2> QED BY <1>0, <1>12, <2>1, Walks DEF Trap, VoiceTypes, VoicesTypeOK
<1> QED BY <1>1, <1>2, <1>3, <1>4, <1>5, <1>6, <1>7, <1>8, <1>9, <1>10, <1>11, <1>12 DEF FrameThread

(* No step but the routine's takes a voice out.                             *)
KeepsListed == \A v \in Listed : v \in Listed' \/ (isr = "trap" /\ v \in Named)

LEMMA ListUntouched ==
  ASSUME VoicesIInv, VoiceTypes', UNCHANGED <<top, link>>,
         isr' = "none" \/ call'.at = "none",
         call'.at \in {"on", "lock", "link", "top"} => call'.voice \notin Listed,
         call'.at = "top" => link[call'.voice] = top
  PROVE  VoicesIInv' /\ KeepsListed
<1>1. Listed' = Listed
  BY ListedSame
<1> QED BY <1>1 DEF VoicesIInv, LinksInNew, ListEnds, KeepsListed

LEMMA TitleKeeps ==
  ASSUME VoicesIInv, (\E v \in Voice : Sends(v)) \/ Enables \/ VoiceLock \/ Title PROVE VoicesIInv' /\ KeepsListed
<1> USE VoiceAssumption
<1>0. VoiceTypes /\ LinksInNew /\ ListEnds
  BY DEF VoicesIInv
<1>1. ASSUME NEW v \in Voice, Sends(v) PROVE VoicesIInv' /\ KeepsListed
  <2>1. VoiceTypes'
    BY <1>0, <1>1 DEF Sends, VoiceTypes, VoicesTypeOK
  <2> QED BY <1>0, <1>1, <2>1, ListUntouched DEF Sends
<1>2. CASE VoiceLock
  <2>1. VoiceTypes'
    BY <1>0, <1>2 DEF VoiceLock, Does, VoiceTypes, VoicesTypeOK
  <2> QED BY <1>0, <1>2, <2>1, ListUntouched DEF VoiceLock, Does, LinksInNew
<1>3. CASE Argument
  <2>1. VoiceTypes'
    BY <1>0, <1>3 DEF Argument, Does, VoiceTypes, VoicesTypeOK
  <2> QED BY <1>0, <1>3, <2>1, ListUntouched DEF Argument, Does, LinksInNew
<1>4. CASE LinkIn
  <2>1. VoiceTypes'
    BY <1>0, <1>4 DEF LinkIn, Does, VoiceTypes, VoicesTypeOK
  <2>2. call.voice \in Voice \ Listed /\ top \in Voice \cup {End} /\ link \in [Voice -> Voice \cup {End}]
    BY <1>0, <1>4 DEF LinkIn, Does, VoiceTypes, VoicesTypeOK, LinksInNew
  <2>3. CASE Does("link", "top") /\ link' = [link EXCEPT ![call.voice] = top] /\ UNCHANGED top
    <3>1. Listed' = Listed
      BY <1>0, <2>2, <2>3, LinkedOutside
    <3>2. call'.voice = call.voice /\ call'.at = "top" /\ link'[call.voice] = top /\ isr' = isr
      BY <1>0, <1>4, <2>2, <2>3 DEF Does, LinkIn
    <3>3. LinksInNew'
      BY <1>0, <2>2, <2>3, <3>1, <3>2 DEF LinksInNew, Does
    <3>4. ListEnds'
      BY <1>0, <2>2, <2>3, <3>1 DEF ListEnds, Listed
    <3> QED BY <2>1, <3>1, <3>3, <3>4 DEF VoicesIInv, KeepsListed
  <2>4. CASE Does("top", "on2") /\ top' = call.voice /\ UNCHANGED link
    <3>1. link[call.voice] = top /\ isr = "none" /\ isr' = isr
      BY <1>0, <1>4, <2>4 DEF Does, LinksInNew, LinkIn
    <3>2. Listed' = Listed \cup {call.voice}
      BY <1>0, <2>2, <2>4, <3>1, MadeTop
    <3>3. LinksInNew'
      BY <2>4, <3>1 DEF LinksInNew, Does
    <3>4. ListEnds'
      BY <1>0, <2>4, <3>1, <3>2 DEF ListEnds
    <3> QED BY <2>1, <3>2, <3>3, <3>4 DEF VoicesIInv, KeepsListed
  <2> QED BY <1>4, <2>3, <2>4 DEF LinkIn
<1>5. CASE TurnsOn
  <2>1. VoiceTypes'
    BY <1>0, <1>5 DEF TurnsOn, Does, VoiceTypes, VoicesTypeOK
  <2> QED BY <1>0, <1>5, <2>1, ListUntouched DEF TurnsOn, Does, LinksInNew
<1>6. CASE TurnsOff
  <2>1. VoiceTypes'
    BY <1>0, <1>6 DEF TurnsOff, Does, VoiceTypes, VoicesTypeOK
  <2> QED BY <1>0, <1>6, <2>1, ListUntouched DEF TurnsOff, Does, LinksInNew
<1>7. CASE OffNoted
  <2>1. VoiceTypes'
    <3>1. Does("note", "raise") \/ Does("raise", "none")
      BY <1>7 DEF OffNoted, Notifies
    <3>2. /\ call' \in [at : {"none", "on", "lock", "link", "top", "on2", "unlock", "off", "clear", "note", "raise"},
                        voice : Voice \cup {End}]
          /\ call'.at # "none" => call'.voice \in Voice
          /\ call.voice \in Voice
      BY <1>0, <3>1 DEF Does, VoiceTypes
    <3>3. done' \in SUBSET Voice /\ ists' \in SUBSET Source
      BY <1>0, <1>7, <3>2 DEF OffNoted, Notifies, Source, VoiceTypes, VoicesTypeOK
    <3> QED BY <1>0, <1>7, <3>2, <3>3 DEF OffNoted, VoiceTypes, VoicesTypeOK
  <2> QED BY <1>0, <1>7, <2>1, ListUntouched DEF OffNoted, Notifies, Does, LinksInNew
<1>8. CASE Enables
  <2>1. force' \in BOOLEAN /\ ien' \subseteq Source \cup {"global"}
    <3>1. CASE force' = ~force /\ UNCHANGED ien
      BY <1>0, <3>1 DEF VoiceTypes, VoicesTypeOK
    <3>2. CASE ien' \in {Source} \cup {S \cup {"global"} : S \in SUBSET Source} /\ UNCHANGED force
      BY <1>0, <3>2 DEF VoiceTypes, VoicesTypeOK
    <3> QED BY <1>8, <3>1, <3>2 DEF Enables
  <2>2. calls' \in 0 .. MaxCalls
    BY <1>0, <1>8 DEF Enables, VoiceTypes, VoicesTypeOK
  <2>3. UNCHANGED <<active, top, link, mode, decoded, ists, done, frame, call, isr>>
    BY <1>8 DEF Enables
  <2>4. VoiceTypes'
    BY <1>0, <2>1, <2>2, <2>3 DEF VoiceTypes, VoicesTypeOK
  <2> QED BY <1>0, <2>3, <2>4, ListUntouched DEF LinksInNew
<1> QED BY <1>1, <1>2, <1>3, <1>4, <1>5, <1>6, <1>7, <1>8 DEF Title

LEMMA InterruptKeeps == ASSUME VoicesIInv, Asks \/ Interrupt PROVE VoicesIInv' /\ KeepsListed
<1>0. VoiceTypes /\ LinksInNew /\ ListEnds
  BY DEF VoicesIInv
<1>1. CASE Delivers
  <2>1. VoiceTypes'
    BY <1>0, <1>1 DEF Delivers, Pending, Source, VoiceTypes, VoicesTypeOK
  <2> QED BY <1>0, <1>1, <2>1, ListUntouched DEF Delivers, LinksInNew
<1>2. CASE Acknowledges
  <2>1. VoiceTypes'
    BY <1>0, <1>2 DEF Acknowledges, Source, VoiceTypes, VoicesTypeOK
  <2> QED BY <1>0, <1>2, <2>1, ListUntouched DEF Acknowledges, LinksInNew
<1>3. CASE ReadsNotes
  <2>1. VoiceTypes'
    BY <1>0, <1>3 DEF ReadsNotes, VoiceTypes, VoicesTypeOK
  <2> QED BY <1>0, <1>3, <2>1, ListUntouched DEF ReadsNotes, LinksInNew
<1>4. CASE NotTrapped
  <2>1. VoiceTypes'
    BY <1>0, <1>4 DEF NotTrapped, VoiceTypes, VoicesTypeOK
  <2> QED BY <1>0, <1>4, <2>1, ListUntouched DEF NotTrapped, LinksInNew
<1>5. CASE Retires
  <2>1. isr = "trap" /\ call' = call /\ call.at = "none"
    BY <1>0, <1>5 DEF Retires, LinksInNew
  <2>2. VoiceTypes'
    <3>1. Named \subseteq Voice /\ Listed \subseteq Voice
      BY DEF Named, Listed
    <3>2. top' \in Voice \cup {End} /\ link' \in [Voice -> Voice \cup {End}]
      BY <1>0, <1>5, <3>1 DEF Retires, VoiceTypes, VoicesTypeOK
    <3> QED BY <1>0, <1>5, <3>2 DEF Retires, VoiceTypes, VoicesTypeOK
  <2>3. LinksInNew'
    BY <2>1 DEF LinksInNew
  <2>4. Listed \ Named \subseteq Listed' /\ ListEnds'
    BY <1>0, <1>5, TakenOut
  <2> QED BY <2>1, <2>2, <2>3, <2>4 DEF VoicesIInv, KeepsListed
<1>6. CASE Frees
  <2>1. VoiceTypes'
    BY <1>0, <1>6 DEF Frees, VoiceTypes, VoicesTypeOK
  <2> QED BY <1>0, <1>6, <2>1, ListUntouched DEF Frees, LinksInNew
<1>7. CASE Asks
  <2>1. VoiceTypes'
    BY <1>0, <1>7 DEF Asks, Pending, Source, VoiceTypes, VoicesTypeOK
  <2> QED BY <1>0, <1>7, <2>1, ListUntouched DEF Asks, LinksInNew
<1> QED BY <1>1, <1>2, <1>3, <1>4, <1>5, <1>6, <1>7 DEF Interrupt

LEMMA VoicesMove == ASSUME VoicesIInv, [VoicesNext]_voiceVars PROVE VoicesIInv' /\ KeepsListed
<1>1. CASE FrameThread \/ Rests
  BY <1>1, FrameKeeps, ListUntouched DEF VoicesIInv, LinksInNew
<1>2. CASE (\E v \in Voice : Sends(v)) \/ Enables \/ VoiceLock \/ Title
  BY <1>2, TitleKeeps
<1>3. CASE Asks \/ Interrupt
  BY <1>3, InterruptKeeps
<1>4. CASE UNCHANGED voiceVars
  <2>1. VoiceTypes'
    BY <1>4 DEF voiceVars, VoicesIInv, VoiceTypes, VoicesTypeOK
  <2> QED BY <1>4, <2>1, ListUntouched DEF voiceVars, VoicesIInv, LinksInNew
<1> QED BY <1>1, <1>2, <1>3, <1>4 DEF VoicesNext

LEMMA VoicesIInvHolds == VoicesSpec => []VoicesIInv
<1>1. VoicesIInv /\ [VoicesNext]_voiceVars => VoicesIInv'
  BY VoicesMove
<1> QED BY <1>1, VoicesStart, PTL DEF VoicesSpec

(* The frame thread's walk is over voices only, of a list that ends,        *)
(* however many voices the title links in and takes out                     *)
(* (mcpx_apu_vp_frame).                                                     *)
THEOREM VoicesInvHolds == VoicesSpec => []VoicesInv
<1>1. VoicesIInv => VoicesInv
  BY DEF VoicesIInv, VoiceTypes, VoicesInv
<1> QED BY <1>1, VoicesIInvHolds, PTL

(* A voice leaves the list only when the title's routine takes it out       *)
(* (VOICE_ON).                                                              *)
THEOREM ListedStay == VoicesSpec => StaysListed
<1>1. VoicesIInv /\ [VoicesNext]_voiceVars =>
        [\A v \in Listed : v \in Listed' \/ (isr = "trap" /\ v \in Named)]_voiceVars
  BY VoicesMove DEF KeepsListed
<1> QED BY <1>1, VoicesIInvHolds, PTL DEF VoicesSpec, StaysListed
=============================================================================
