------------------------------ MODULE Allocator ------------------------------
(***************************************************************************)
(* What the runtime promises of contiguous memory, and nothing of how: a   *)
(* grant lies in the window, overlaps no other grant, and carries a number *)
(* no other grant has had; a release ends it.                              *)
(***************************************************************************)
EXTENDS Integers

CONSTANTS First, Last      \* the window: addresses First .. Last - 1

VARIABLES
    held,      \* the grants, records [addr, size, serial]
    issued     \* how many there have been

Init == held = {} /\ issued = 0

Disjoint(a, m, b, n) == a + m <= b \/ b + n <= a

Grant ==
    \E a \in First .. Last, n \in 1 .. (Last - First) :
        /\ a + n <= Last
        /\ \A g \in held : Disjoint(a, n, g.addr, g.size)
        /\ held' = held \cup {[addr |-> a, size |-> n, serial |-> issued + 1]}
        /\ issued' = issued + 1

Release ==
    \E g \in held : held' = held \ {g} /\ issued' = issued

Next == Grant \/ Release

Spec == Init /\ [][Next]_<<held, issued>>
=============================================================================
