---------------------------- MODULE MCTimerThread ----------------------------
(***************************************************************************)
(* Two things the kernel's timer thread carries to the title: the DPCs of  *)
(* kernel timers, and the sound chip's interrupt with the voice list it is *)
(* for.  They share no state: in every behaviour one of them moves and the *)
(* other stays as it began, with nothing owed to anybody.                  *)
(***************************************************************************)
EXTENDS KernelTimers, ApuVoices

VARIABLE part

Both == <<vars, voiceVars, part>>

TimerThreadInit == Init /\ VoicesInit /\ part \in {"timers", "voices"}

TimerThreadNext ==
    /\ \/ part = "timers" /\ Next /\ UNCHANGED voiceVars
       \/ part = "voices" /\ VoicesNext /\ UNCHANGED vars
    /\ UNCHANGED part

\* FairSpec and VoicesFairSpec, each for its own behaviours.
TimersMove(A) == part = "timers" /\ A
VoicesMove(A) == part = "voices" /\ A

TimerThreadFair ==
    /\ WF_vars(TimersMove(TimerThread)) /\ \A i \in Slot : WF_vars(TimersMove(Tick(i)))
    /\ WF_voiceVars(VoicesMove(FrameThread)) /\ SF_voiceVars(VoicesMove(Rests))
    /\ SF_voiceVars(VoicesMove(VoiceLock)) /\ WF_voiceVars(VoicesMove(Title))
    /\ WF_voiceVars(VoicesMove(Interrupt))

TimerThreadSpec == TimerThreadInit /\ [][TimerThreadNext]_Both /\ TimerThreadFair
=============================================================================
