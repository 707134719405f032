----------------------------- MODULE FrameQueue -----------------------------
(***************************************************************************)
(* What the sound ring promises, and nothing of how: a queue of frames.    *)
(* The mixer puts a block of the next frames behind the others; the device *)
(* hears the first; when a block does not fit, the oldest frames are lost, *)
(* and no more of them than the block lacks room for.                      *)
(***************************************************************************)
EXTENDS Integers, Sequences

CONSTANTS
    Capacity,      \* frames the queue holds
    Numbers,       \* frames are numbered modulo this
    Blocks         \* frames mixed at a time

VARIABLES
    waiting,       \* the frames mixed and not yet heard
    mixed,         \* the number of the next frame to be mixed
    heard          \* the frame heard last, -1 before the first

queueVars == <<waiting, mixed, heard>>

QueueInit == waiting = <<>> /\ mixed = 0 /\ heard = -1

Mix ==
    \E n \in Blocks :
        /\ Len(waiting) + n <= Capacity
        /\ waiting' = waiting \o [k \in 1 .. n |-> (mixed + (k - 1)) % Numbers]
        /\ mixed' = (mixed + n) % Numbers
        /\ heard' = heard

Lose ==
    \E n \in Blocks, d \in 1 .. Len(waiting) :
        /\ Len(waiting) + n - d = Capacity
        /\ waiting' = SubSeq(waiting, d + 1, Len(waiting))
        /\ UNCHANGED <<mixed, heard>>

Hear ==
    /\ waiting # <<>>
    /\ heard' = Head(waiting)
    /\ waiting' = Tail(waiting)
    /\ mixed' = mixed

QueueNext == Mix \/ Lose \/ Hear
=============================================================================
