----------------------------- MODULE AudioRing -----------------------------
(***************************************************************************)
(* The ring of sample frames between the APU's frame thread, which fills   *)
(* it (xa2_submit_samples), and the audio device, whose callback empties   *)
(* it (sa_pull): src/src/apu/apu_sdl.c.  No lock: g_wr is the frame        *)
(* thread's, g_rd the device's -- and the frame thread's when the ring is  *)
(* full, to drop the oldest frames.                                        *)
(*                                                                         *)
(* A frame is the index it was written at, modulo IndexWrap (2^32 in the   *)
(* code).  The copying goes frame by frame; the loads and stores of the    *)
(* two indices are atomic and ordered (acquire, release).                  *)
(***************************************************************************)
EXTENDS Integers, Sequences

CONSTANTS
  RingFrames,     \* SA_RING_FRAMES
  IndexWrap,
  BlockSizes,     \* frames handed over at a time
  PullFrames      \* frames the device takes at a time

ASSUME RingAssumption ==
  /\ RingFrames \in Nat \ {0} /\ PullFrames \in Nat \ {0}
  /\ IndexWrap \in Nat /\ IndexWrap % RingFrames = 0 /\ IndexWrap > RingFrames
  /\ BlockSizes \subseteq 1 .. RingFrames

VARIABLES
  overlap,      \* may the device pull while the frame thread drops frames?
  wr, rd,       \* g_wr, g_rd
  frames,       \* g_ring: the index each slot's frame was written at
  submit,       \* where the frame thread is in xa2_submit_samples, with its locals
  pull,         \* where the device is in sa_pull, with its locals
  heard         \* history: the frame the device copied last, -1 before the first

ringVars == <<overlap, wr, rd, frames, submit, pull, heard>>

Plus(a, b) == (a + b) % IndexWrap
Minus(a, b) == (a - b) % IndexWrap        \* uint32_t subtraction
SlotOf(i) == i % RingFrames

NoSubmit == [at |-> "idle", n |-> 0, rd |-> 0, i |-> 0]
NoPull   == [at |-> "idle", rd |-> 0, n |-> 0, i |-> 0]

RingInit ==
  /\ overlap \in BOOLEAN
  /\ wr = 0 /\ rd = 0
  /\ frames = [s \in 0 .. RingFrames - 1 |-> 0]
  /\ submit = NoSubmit /\ pull = NoPull /\ heard = -1

\* Frames free, as the frame thread sees it.
Vacant == Minus(RingFrames, Minus(wr, rd))

\* Both indices are read; a block that does not fit makes the frame thread drop frames.
SubmitBegins ==
  /\ submit.at = "idle"
  /\ \E n \in BlockSizes :
       IF n > Vacant
       THEN /\ overlap \/ pull.at = "idle"
            /\ submit' = [at |-> "drop", n |-> n, rd |-> Plus(rd, n - Vacant), i |-> 0]
       ELSE submit' = [at |-> "copy", n |-> n, rd |-> rd, i |-> 0]
  /\ UNCHANGED <<overlap, wr, rd, frames, pull, heard>>

Drop ==
  /\ submit.at = "drop"
  /\ rd' = submit.rd
  /\ submit' = [submit EXCEPT !.at = "copy"]
  /\ UNCHANGED <<overlap, wr, frames, pull, heard>>

CopyIn ==
  /\ submit.at = "copy" /\ submit.i < submit.n
  /\ frames' = [frames EXCEPT ![SlotOf(wr + submit.i)] = Plus(wr, submit.i)]
  /\ submit' = [submit EXCEPT !.i = @ + 1]
  /\ UNCHANGED <<overlap, wr, rd, pull, heard>>

Publish ==
  /\ submit.at = "copy" /\ submit.i = submit.n
  /\ wr' = Plus(wr, submit.n)
  /\ submit' = NoSubmit
  /\ UNCHANGED <<overlap, rd, frames, pull, heard>>

\* The device asks for frames; what the ring lacks is silence.
PullBegins ==
  /\ pull.at = "idle"
  /\ overlap \/ submit.at # "drop"
  /\ LET have == Minus(wr, rd)
     IN  pull' = [at |-> "copy", rd |-> rd, i |-> 0,
                  n |-> IF have < PullFrames THEN have ELSE PullFrames]
  /\ UNCHANGED <<overlap, wr, rd, frames, submit, heard>>

CopyOut ==
  /\ pull.at = "copy" /\ pull.i < pull.n
  /\ heard' = frames[SlotOf(pull.rd + pull.i)]
  /\ pull' = [pull EXCEPT !.i = @ + 1]
  /\ UNCHANGED <<overlap, wr, rd, frames, submit>>

\* Faulty: the frames it lacked count as taken.
PullEndsWhole ==
  /\ pull.at = "copy" /\ pull.i = pull.n
  /\ rd' = Plus(pull.rd, PullFrames)
  /\ pull' = NoPull
  /\ UNCHANGED <<overlap, wr, frames, submit, heard>>

PullEnds ==
  /\ pull.at = "copy" /\ pull.i = pull.n
  /\ rd' = Plus(pull.rd, pull.n)
  /\ pull' = NoPull
  /\ UNCHANGED <<overlap, wr, frames, submit, heard>>

RingNext ==
  \/ SubmitBegins \/ Drop \/ CopyIn \/ Publish
  \/ PullBegins \/ CopyOut \/ PullEnds

RingSpec == RingInit /\ [][RingNext]_ringVars

-----------------------------------------------------------------------------
(* Properties. *)

\* The frames in the ring from where the device is up to where the frame thread is.
Place == Plus(rd, pull.i)
InRing == [k \in 1 .. Minus(wr, Place) |-> frames[SlotOf(Place + (k - 1))]]

Queue == INSTANCE FrameQueue
  WITH Capacity <- RingFrames, Numbers <- IndexWrap, Blocks <- BlockSizes,
       waiting <- InRing, mixed <- wr

\* The ring is a queue, while no pull overlaps a drop: the device hears each frame once, in
\* the order and as it was mixed, and misses none but the oldest, as many as a block that did
\* not fit needed: "the delay cannot grow without bound" (xa2_submit_samples, sa_pull).
AbstractQueue ==
  Queue!QueueInit /\ [][~overlap => Queue!QueueNext]_<<InRing, wr, heard>>
=============================================================================
