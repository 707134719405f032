------------------------------ MODULE ApuVoices ------------------------------
(***************************************************************************)
(* The voice list of the sound chip: src/src/apu/apu_vp.c, apu_core.c.     *)
(* The title's thread turns voices on and off by methods of the front end  *)
(* (fe_method), the APU's frame thread walks the list once a frame         *)
(* (mcpx_apu_vp_frame), and a voice it finds idle traps the front end: an  *)
(* interrupt, delivered by the kernel's timer thread, has the title take   *)
(* the voice out of the list.  The title says beforehand, in FETFORCE1 and *)
(* IEN, whether it wants the trap and the interrupts at all, and may change*)
(* its mind.                                                               *)
(*                                                                         *)
(* The list is linked through guest memory.  The frame thread holds d->lock*)
(* for a frame, and from frame to frame while it is behind; VOICE_ON takes *)
(* it only to mark the voice locked, which nothing but fe_method looks at. *)
(* Methods and the title's interrupt routine exclude each other by the     *)
(* guest lock.  Sound, envelopes and the other two lists are left out.     *)
(***************************************************************************)
EXTENDS Integers, FiniteSets

CONSTANTS
  Voice,
  End,          \* 0xFFFF: no next voice
  MaxCalls      \* bound: methods and enables the title sends

ASSUME VoiceAssumption == IsFiniteSet(Voice) /\ End \notin Voice /\ MaxCalls \in Nat

VARIABLES
  active,       \* PAR_STATE_ACTIVE_VOICE: the voices that play
  top, link,    \* the list: TVL2D, and each voice's TAR_PITCH_LINK
  mode,         \* FECTL_FEMETHMODE
  force, ien,   \* FETFORCE1_SE2FE_IDLE_VOICE; IEN: "global", and the bits of ists
  decoded,      \* FEDECMETH, FEDECPARAM: the last method, or the voice that trapped
  ists,         \* ISTS: "trap", FETINTSTS; "note", FEVINTSTS
  done,         \* the voices whose notifier in guest memory says so
  frame,        \* where the frame thread is, CVL2D and NVL2D, and the word it read
  call,         \* where the title is in a method, and its voice
  isr,          \* where the title's interrupt routine is
  calls

voiceVars == <<active, top, link, mode, force, ien, decoded, ists, done, frame, call, isr, calls>>

\* The voices of the list: its top, and with each voice the one it is linked to.
Closed(S) ==
  /\ top = End \/ top \in S
  /\ \A v \in S : link[v] = End \/ link[v] \in S

Listed == {v \in Voice : \A S \in SUBSET Voice : Closed(S) => v \in S}

Asleep == frame.at = "asleep"       \* d->lock is free

VoicesInit ==
  /\ active = {} /\ top = End /\ link = [v \in Voice |-> End]
  /\ mode = "free" /\ force = FALSE /\ ien = {} /\ decoded = [meth |-> "other", param |-> End]
  /\ ists = {} /\ done = {}
  /\ frame = [at |-> "asleep", cur |-> End, nxt |-> End, word |-> FALSE]
  /\ call = [at |-> "none", voice |-> End]
  /\ isr = "none"
  /\ calls = 0

-----------------------------------------------------------------------------
(* The frame thread. *)

Goes(from, to) == frame.at = from /\ frame' = [frame EXCEPT !.at = to, !.word = FALSE]

Advance(from) ==
  frame.at = from /\ frame' = [frame EXCEPT !.at = "link", !.cur = frame.nxt, !.word = FALSE]

FrameBegins ==
  /\ frame.at \in {"asleep", "behind"}
  /\ frame' = [frame EXCEPT !.at = "link", !.cur = top]
  /\ UNCHANGED <<active, top, link, mode, force, ien, decoded, ists, done, call, isr, calls>>

\* throttle: the lock is given up only if there is time to wait.
Rests ==
  /\ Goes("behind", "asleep")
  /\ UNCHANGED <<active, top, link, mode, force, ien, decoded, ists, done, call, isr, calls>>

WalkOn ==
  /\ frame.at = "link"
  /\ frame' = IF frame.cur = End THEN [frame EXCEPT !.at = "behind"]
              ELSE [frame EXCEPT !.at = "state", !.nxt = link[frame.cur]]
  /\ UNCHANGED <<active, top, link, mode, force, ien, decoded, ists, done, call, isr, calls>>

Looks ==
  /\ Goes("state", IF frame.cur \in active THEN "load" ELSE "idle")
  /\ UNCHANGED <<active, top, link, mode, force, ien, decoded, ists, done, call, isr, calls>>

\* voice_get_samples writes the state word back with NEW_VOICE cleared: what it read of the
\* rest of the word goes back too.
Loads ==
  /\ frame.at = "load"
  /\ frame' = [frame EXCEPT !.at = "store", !.word = frame.cur \in active]
  /\ UNCHANGED <<active, top, link, mode, force, ien, decoded, ists, done, call, isr, calls>>

Stores ==
  /\ \/ Advance("store")
     \/ Goes("store", "off")           \* the buffer, or the release, has come to its end
  /\ active' = IF frame.word THEN active \cup {frame.cur} ELSE active \ {frame.cur}
  /\ UNCHANGED <<top, link, mode, force, ien, decoded, ists, done, call, isr, calls>>

EndsVoice ==
  /\ Goes("off", "note")
  /\ active' = active \ {frame.cur}
  /\ UNCHANGED <<top, link, mode, force, ien, decoded, ists, done, call, isr, calls>>

\* set_notify_status: the notifier in guest memory, then the interrupt's bit.
Notifies(first, last, v) ==
  \/ first /\ done' = done \cup {v} /\ UNCHANGED ists
  \/ last /\ ists' = ists \cup {"note"} /\ UNCHANGED done

VoiceEndNoted ==
  /\ Notifies(Goes("note", "raise"), Advance("raise"), frame.cur)
  /\ UNCHANGED <<active, top, link, mode, force, ien, decoded, call, isr, calls>>

\* An idle voice is reported while the front end is free; else a later frame finds it again.
FindsIdle ==
  /\ IF mode = "free" THEN Goes("idle", "meth") ELSE Advance("idle")
  /\ UNCHANGED <<active, top, link, mode, force, ien, decoded, ists, done, call, isr, calls>>

ReportMeth ==
  /\ Goes("meth", "param")
  /\ decoded' = [decoded EXCEPT !.meth = "idle"]
  /\ UNCHANGED <<active, top, link, mode, force, ien, ists, done, call, isr, calls>>

ReportParam ==
  /\ Goes("param", "trap")
  /\ decoded' = [decoded EXCEPT !.param = frame.cur]
  /\ UNCHANGED <<active, top, link, mode, force, ien, ists, done, call, isr, calls>>

\* The front end traps only if the title has FETFORCE1 say so; FEDECMETH is overwritten anyway.
Trap ==
  /\ Advance("trap")
  /\ mode' = IF force THEN "trapped" ELSE mode
  /\ UNCHANGED <<active, top, link, force, ien, decoded, ists, done, call, isr, calls>>

FrameThread ==
  \/ FrameBegins \/ WalkOn \/ Looks \/ Loads \/ Stores \/ EndsVoice \/ VoiceEndNoted
  \/ FindsIdle \/ ReportMeth \/ ReportParam \/ Trap

-----------------------------------------------------------------------------
(* A method of the title: executed at once, by the thread that sends it. *)

Does(from, to) ==
  call.at = from /\ call' = [at |-> to, voice |-> IF to = "none" THEN End ELSE call.voice]

\* DirectSound turns on a voice that is in no list, and off one that plays.
Sends(v) ==
  /\ call.at = "none" /\ isr = "none" /\ calls < MaxCalls
  /\ \/ v \notin Listed /\ v \notin active /\ call' = [at |-> "on", voice |-> v]
     \/ v \in active /\ call' = [at |-> "off", voice |-> v]
  /\ calls' = calls + 1
  /\ decoded' = [decoded EXCEPT !.meth = "other"]
  /\ UNCHANGED <<active, top, link, mode, force, ien, ists, done, frame, isr>>

Argument ==
  /\ Does("on", "lock") \/ Does("off", "clear")
  /\ decoded' = [decoded EXCEPT !.param = call.voice]
  /\ UNCHANGED <<active, top, link, mode, force, ien, ists, done, frame, isr, calls>>

\* voice_lock, before and after.
VoiceLock ==
  /\ Asleep
  /\ Does("lock", "link") \/ Does("unlock", "none")
  /\ UNCHANGED <<active, top, link, mode, force, ien, decoded, ists, done, frame, isr, calls>>

\* Faulty: the top is set before it is read.
LinkInTopFirst ==
  /\ \/ Does("link", "top") /\ top' = call.voice /\ UNCHANGED link
     \/ Does("top", "on2") /\ link' = [link EXCEPT ![call.voice] = top] /\ UNCHANGED top
  /\ UNCHANGED <<active, mode, force, ien, decoded, ists, done, frame, isr, calls>>

LinkIn ==
  /\ \/ Does("link", "top") /\ link' = [link EXCEPT ![call.voice] = top] /\ UNCHANGED top
     \/ Does("top", "on2") /\ top' = call.voice /\ UNCHANGED link
  /\ UNCHANGED <<active, mode, force, ien, decoded, ists, done, frame, isr, calls>>

TurnsOn ==
  /\ Does("on2", "unlock")
  /\ active' = active \cup {call.voice}
  /\ UNCHANGED <<top, link, mode, force, ien, decoded, ists, done, frame, isr, calls>>

TurnsOff ==
  /\ Does("clear", "note")
  /\ active' = active \ {call.voice}
  /\ UNCHANGED <<top, link, mode, force, ien, decoded, ists, done, frame, isr, calls>>

OffNoted ==
  /\ Notifies(Does("note", "raise"), Does("raise", "none"), call.voice)
  /\ UNCHANGED <<active, top, link, mode, force, ien, decoded, frame, isr, calls>>

\* The title, not in a method, writes one of the two registers (mcpx_apu_write's default case):
\* IEN with any of the sources enabled, or with all but not the whole.
Source == {"trap", "note"}

Enables ==
  /\ call.at = "none" /\ calls < MaxCalls
  /\ \/ force' = ~force /\ UNCHANGED ien
     \/ ien' \in {Source} \cup {S \cup {"global"} : S \in SUBSET Source} /\ UNCHANGED force
  /\ calls' = calls + 1
  /\ UNCHANGED <<active, top, link, mode, decoded, ists, done, frame, call, isr>>

Title == Argument \/ LinkIn \/ TurnsOn \/ TurnsOff \/ OffNoted

-----------------------------------------------------------------------------
(* The interrupt: the timer thread's look at the line, and DirectSound's    *)
(* routine as the comments of apu_vp.c, apu_core.c and kernel_bridge.c have *)
(* it.                                                                      *)

\* Faulty: the line is what was latched.
PendingLatched == ists

\* mcpx_apu_irq_pending: a trapped front end asserts its interrupt as long as it is trapped.
Pending == ists \cup (IF mode = "trapped" THEN {"trap"} ELSE {})

\* Nothing is raised unless interrupts are enabled at all, and one that is pending.
Line == "global" \in ien /\ Pending \cap ien # {}

\* The first look, without the guest lock: it latches the trap, line or no line.
Asks ==
  /\ ists' = Pending
  /\ UNCHANGED <<active, top, link, mode, force, ien, decoded, done, frame, call, isr, calls>>

Delivers ==
  /\ isr = "none" /\ call.at = "none" /\ Line
  /\ ists' = Pending
  /\ isr' = "ack"
  /\ UNCHANGED <<active, top, link, mode, force, ien, decoded, done, frame, call, calls>>

\* Write-1-to-clear (mcpx_apu_write), of what it finds; update_irq sets FETINTSTS again.
Acknowledges ==
  /\ isr = "ack" /\ isr' = "notes"
  /\ ists' = IF mode = "trapped" THEN {"trap"} ELSE {}
  /\ UNCHANGED <<active, top, link, mode, force, ien, decoded, done, frame, call, calls>>

ReadsNotes ==
  /\ isr = "notes" /\ isr' = "trap"
  /\ done' = {}
  /\ UNCHANGED <<active, top, link, mode, force, ien, decoded, ists, frame, call, calls>>

NotTrapped ==
  /\ isr = "trap" /\ mode = "free" /\ isr' = "none"
  /\ UNCHANGED <<active, top, link, mode, force, ien, decoded, ists, done, frame, call, calls>>

\* The voice that FEDECMETH and FEDECPARAM name is taken out, if they name one.
Named == IF decoded.meth = "idle" THEN {decoded.param} \cap Listed ELSE {}

Retires ==
  /\ isr = "trap" /\ mode = "trapped" /\ isr' = "free"
  /\ top' = IF top \in Named THEN link[top] ELSE top
  /\ link' = [v \in Voice |-> IF v \in Listed /\ link[v] \in Named
                              THEN link[link[v]] ELSE link[v]]
  /\ UNCHANGED <<active, mode, force, ien, decoded, ists, done, frame, call, calls>>

Frees ==
  /\ isr = "free" /\ isr' = "none"
  /\ mode' = "free"
  /\ UNCHANGED <<active, top, link, force, ien, decoded, ists, done, frame, call, calls>>

Interrupt == Delivers \/ Acknowledges \/ ReadsNotes \/ NotTrapped \/ Retires \/ Frees

VoicesNext ==
  \/ FrameThread \/ Rests
  \/ (\E v \in Voice : Sends(v)) \/ Enables \/ VoiceLock \/ Title
  \/ Asks \/ Interrupt

VoicesSpec == VoicesInit /\ [][VoicesNext]_voiceVars

\* Threads run; the frame thread is not behind for ever, and whoever waits for d->lock then has it.
VoicesFair ==
  /\ WF_voiceVars(FrameThread) /\ SF_voiceVars(Rests)
  /\ SF_voiceVars(VoiceLock) /\ WF_voiceVars(Title)
  /\ WF_voiceVars(Interrupt)

VoicesFairSpec == VoicesSpec /\ VoicesFair

-----------------------------------------------------------------------------
VoicesTypeOK ==
  /\ active \subseteq Voice /\ done \subseteq Voice
  /\ top \in Voice \cup {End} /\ link \in [Voice -> Voice \cup {End}]
  /\ mode \in {"free", "trapped"}
  /\ force \in BOOLEAN /\ ien \subseteq Source \cup {"global"}
  /\ decoded \in [meth : {"idle", "other"}, param : Voice \cup {End}]
  /\ ists \subseteq Source
  /\ frame.at \in {"asleep", "behind", "link"} \/ frame.cur \in Voice
  /\ calls \in 0 .. MaxCalls

\* The list comes to an end, whatever is linked in and taken out.
ListEnds == top = End \/ \E v \in Listed : link[v] = End

\* The frame thread's walk is over voices only, of a list that ends (mcpx_apu_vp_frame).
VoicesInv == VoicesTypeOK /\ ListEnds

\* A voice leaves the list only when the title's routine takes it out: linking another one
\* in loses none (VOICE_ON).
StaysListed ==
  [][\A v \in Listed : v \in Listed' \/ (isr = "trap" /\ v \in Named)]_voiceVars

\* What the chip asks of the title: to free the front end, to hear of the voices that ended
\* or were turned off, and to take idle ones out of the list.
Owed == mode = "trapped" \/ done # {} \/ Listed \ active # {}

\* The title wants it all: idle voices trapped, and both interrupts.
Wanted == force /\ ien = Source \cup {"global"}

\* All of it is served once the title wants it for good, whatever happened while it did not
\* (FETFORCE1, IEN): the interrupt of a trap comes although it was acknowledged, or never
\* latched (mcpx_apu_irq_pending); no notice is left unread by an acknowledgement that came
\* for another; and an idle voice is reported again when the front end was trapped, or its
\* report was overwritten by a method of the title.
TitleServed == <>[]Wanted => (Owed ~> ~Owed)
=============================================================================
