--------------------------- MODULE AllocatorProofs ---------------------------
(***************************************************************************)
(* What TLAPS proves of the two allocators for every window, heap, table   *)
(* size and set of requests: the blocks never overlap, together cover what *)
(* was handed out, stay merged and fit the table; a request for contiguous *)
(* memory is refused only when no place is left for it; and both implement *)
(* the abstract allocator.                                                 *)
(***************************************************************************)
EXTENDS ContigAlloc, Heap, FiniteSetTheorems, TLAPS

-----------------------------------------------------------------------------
(* ContigAlloc.                                                             *)

IInv == TypeOK /\ NoOverlap

USE WindowAssumption, BoundAssumption

LEMMA AlignUpInt == ASSUME NEW a \in Int, NEW k \in Nat PROVE AlignUp(a, k) \in Int
<1>1. Alignment(k) \in Nat \ {0}
  BY DEF Alignment
<1>2. (a + Alignment(k) - 1) % Space \in Int
  BY <1>1
<1>3. ((a + Alignment(k) - 1) % Space) % Alignment(k) \in Int
  BY <1>1, <1>2
<1> QED BY <1>2, <1>3 DEF AlignUp

LEMMA PagesPositive == ASSUME NEW n \in Nat PROVE Pages(n) \in Nat \ {0}
BY DEF Pages

LEMMA LimitType == Limit \in Nat /\ Limit >= Base
BY DEF Limit

LEMMA InitIInv == Init => IInv
BY LimitType DEF Init, IInv, TypeOK, NoOverlap

(* Reusing a free block: what is handed out and what stays free share it.   *)
LEMMA ReusedIInv ==
  ASSUME IInv, NEW n \in Requests, NEW k \in Alignments, AllocReused(n, k)
  PROVE  IInv'
<1> PICK h \in holes :
      /\ Best(h, n, k)
      /\ Hand(AlignUp(h.addr, k), n)
      /\ holes' = (holes \ {h}) \cup Hole(h.addr, AlignUp(h.addr, k))
                    \cup Hole(AlignUp(h.addr, k) + Pages(n), End(h))
  BY DEF AllocReused
<1> DEFINE s == AlignUp(h.addr, k)
           m == Pages(n)
           new == [addr |-> s, size |-> m, serial |-> serial + 1]
<1>1. h \in [addr : Nat, size : Nat \ {0}] /\ Base <= h.addr /\ End(h) <= next
  BY DEF IInv, TypeOK, NoOverlap
<1>2. m \in Nat \ {0} /\ s \in Int
  BY <1>1, PagesPositive, AlignUpInt
<1>3. h.addr <= s /\ s + m <= End(h)
  BY <1>1, <1>2 DEF Best, Fits, End
<1>4. held' = held \cup {new} /\ serial' = serial + 1 /\ live' = live + m /\ serial < MaxSerial
  BY DEF Hand
<1>5. UNCHANGED <<next, high, claimed>>
  BY DEF AllocReused
<1> HIDE DEF s, m
<1>6. \A c \in holes' : \/ c \in holes /\ c # h
                        \/ /\ c \in [addr : Nat, size : Nat \ {0}]
                           /\ \/ c.addr = h.addr /\ End(c) = s
                              \/ c.addr = s + m /\ End(c) = End(h)
  BY <1>1, <1>2, <1>3 DEF Hole, End, s, m
<1>7. TypeOK'
  BY <1>1, <1>2, <1>3, <1>4, <1>5, <1>6 DEF IInv, TypeOK
<1>8. NoOverlap'
  <2> DEFINE Old(c) == c \in holes /\ c # h
             LowPart(c) == c.addr = h.addr /\ End(c) = s
             HighPart(c) == c.addr = s + m /\ End(c) = End(h)
  <2>1. ASSUME NEW b \in held' \cup holes' PROVE Base <= b.addr /\ End(b) <= next'
    BY <1>1, <1>2, <1>3, <1>4, <1>5, <1>6, <2>1 DEF IInv, TypeOK, NoOverlap, End
  <2>2. ASSUME NEW b \in held', NEW c \in held', b # c PROVE Disjoint(b, c)
    <3>1. CASE b \in held /\ c \in held
      BY <3>1, <2>2 DEF IInv, NoOverlap
    <3>2. ASSUME NEW g \in held PROVE Disjoint(g, new) /\ Disjoint(new, g)
      <4>1. Disjoint(g, h) /\ g \in [addr : Nat, size : Nat \ {0}, serial : Nat]
        BY <3>2 DEF IInv, TypeOK, NoOverlap
      <4> QED BY <4>1, <1>1, <1>2, <1>3 DEF Disjoint, End
    <3> QED BY <1>4, <2>2, <3>1, <3>2
  <2>3. ASSUME NEW b \in held', NEW c \in holes' PROVE Disjoint(b, c)
    <3>1. CASE b \in held
      <4>1. Disjoint(b, h) /\ b \in [addr : Nat, size : Nat \ {0}, serial : Nat]
        BY <3>1 DEF IInv, TypeOK, NoOverlap
      <4>2. CASE Old(c)
        BY <3>1, <4>2 DEF IInv, NoOverlap
      <4>3. CASE LowPart(c) \/ HighPart(c)
        BY <4>1, <4>3, <1>1, <1>2, <1>3 DEF Disjoint, End
      <4> QED BY <1>6, <4>2, <4>3
    <3>2. CASE b = new
      <4>1. CASE Old(c)
        <5>1. Disjoint(c, h) /\ c \in [addr : Nat, size : Nat \ {0}]
          BY <4>1 DEF IInv, TypeOK, NoOverlap
        <5> QED BY <5>1, <3>2, <1>1, <1>2, <1>3 DEF Disjoint, End
      <4>2. CASE LowPart(c) \/ HighPart(c)
        BY <3>2, <4>2, <1>1, <1>2, <1>3 DEF Disjoint, End
      <4> QED BY <1>6, <4>1, <4>2
    <3> QED BY <1>4, <3>1, <3>2
  <2>4. ASSUME NEW b \in holes', NEW c \in holes', b # c PROVE Disjoint(b, c)
    <3>1. ASSUME NEW g \in holes, g # h, NEW d, LowPart(d) \/ HighPart(d)
          PROVE  Disjoint(g, d) /\ Disjoint(d, g)
      <4>1. Disjoint(g, h) /\ g \in [addr : Nat, size : Nat \ {0}]
        BY <3>1 DEF IInv, TypeOK, NoOverlap
      <4> QED BY <4>1, <3>1, <1>1, <1>2, <1>3 DEF Disjoint, End
    <3>2. CASE Old(b) /\ Old(c)
      BY <2>4, <3>2 DEF IInv, NoOverlap
    <3>3. CASE (LowPart(b) \/ HighPart(b)) /\ (LowPart(c) \/ HighPart(c))
      <4>1. /\ b \in [addr : Nat, size : Nat \ {0}]
            /\ c \in [addr : Nat, size : Nat \ {0}]
        BY <2>4, <1>6 DEF IInv, TypeOK
      <4>2. CASE (LowPart(b) /\ LowPart(c)) \/ (HighPart(b) /\ HighPart(c))
        <5>1. b.addr = c.addr /\ b.size = c.size
          BY <4>1, <4>2, <1>1, <1>2 DEF End
        <5> QED BY <5>1, <4>1, <2>4
      <4>3. CASE (LowPart(b) /\ HighPart(c)) \/ (HighPart(b) /\ LowPart(c))
        BY <4>1, <4>3, <1>1, <1>2, <1>3 DEF Disjoint, End
      <4> QED BY <3>3, <4>2, <4>3
    <3> QED BY <1>6, <3>1, <3>2, <3>3
  <2> QED BY <2>1, <2>2, <2>3, <2>4 DEF NoOverlap
<1> QED BY <1>7, <1>8 DEF IInv

(* Taking from the top: the new block and the gap before it lie above all   *)
(* the others.                                                              *)
LEMMA BumpedIInv ==
  ASSUME IInv, NEW n \in Requests, NEW k \in Alignments, AllocBumped(n, k)
  PROVE  IInv'
<1> DEFINE s == AlignUp(next, k)
           m == Pages(n)
           new == [addr |-> s, size |-> m, serial |-> serial + 1]
<1>1. next \in Nat /\ high \in Nat /\ Base <= next
  BY LimitType DEF IInv, TypeOK
<1>2. m \in Nat \ {0} /\ s \in Int
  BY <1>1, PagesPositive, AlignUpInt
<1>3. next <= s /\ s + m <= Limit
  BY <1>1, <1>2, LimitType DEF AllocBumped, Tops
<1>4. held' = held \cup {new} /\ serial' = serial + 1 /\ live' = live + m /\ serial < MaxSerial
  BY DEF AllocBumped, Hand
<1>5. holes' = holes \cup Hole(next, s) /\ next' = s + m /\ claimed' = claimed
      /\ high' = IF s + m > high THEN s + m ELSE high
  BY DEF AllocBumped
<1> HIDE DEF s, m
<1>6. \A c \in holes' : \/ c \in holes
                        \/ /\ c \in [addr : Nat, size : Nat \ {0}]
                           /\ c.addr = next /\ c.size = s - next
  BY <1>1, <1>2, <1>3, <1>5 DEF Hole
<1>7. TypeOK'
  BY <1>1, <1>2, <1>3, <1>4, <1>5, <1>6, LimitType DEF IInv, TypeOK, Limit
<1>8. NoOverlap'
  <2> DEFINE Gap(c) == c.addr = next /\ c.size = s - next
  <2>0. /\ \A b \in held : b \in [addr : Nat, size : Nat \ {0}, serial : Nat] /\ End(b) <= next
        /\ \A b \in holes : b \in [addr : Nat, size : Nat \ {0}] /\ End(b) <= next
    BY DEF IInv, TypeOK, NoOverlap
  <2>1. ASSUME NEW b \in held' \cup holes' PROVE Base <= b.addr /\ End(b) <= next'
    BY <1>1, <1>2, <1>3, <1>4, <1>5, <1>6, <2>1 DEF IInv, TypeOK, NoOverlap, End
  <2>2. ASSUME NEW b \in held', NEW c \in held', b # c PROVE Disjoint(b, c)
    BY <1>1, <1>2, <1>3, <1>4, <2>0, <2>2 DEF IInv, NoOverlap, Disjoint, End
  <2>3. ASSUME NEW b \in held', NEW c \in holes' PROVE Disjoint(b, c)
    <3>1. CASE b \in held /\ c \in holes
      BY <3>1 DEF IInv, NoOverlap
    <3>2. CASE b = new /\ c \in holes
      BY <3>2, <2>0, <1>1, <1>2, <1>3 DEF Disjoint, End
    <3>3. CASE b \in held /\ Gap(c)
      BY <3>3, <2>0, <1>1, <1>2, <1>3 DEF Disjoint, End
    <3>4. CASE b = new /\ Gap(c)
      BY <3>4, <1>1, <1>2, <1>3 DEF Disjoint, End
    <3> QED BY <1>4, <1>6, <3>1, <3>2, <3>3, <3>4
  <2>4. ASSUME NEW b \in holes', NEW c \in holes', b # c PROVE Disjoint(b, c)
    <3>1. CASE b \in holes /\ c \in holes
      BY <3>1, <2>4 DEF IInv, NoOverlap
    <3>2. CASE (b \in holes /\ Gap(c)) \/ (Gap(b) /\ c \in holes)
      BY <3>2, <2>0, <1>1, <1>2, <1>3 DEF Disjoint, End
    <3>3. CASE b \notin holes /\ c \notin holes
      <4>1. b = c
        BY <3>3, <1>5, <2>4 DEF Hole
      <4> QED BY <4>1, <2>4
    <3> QED BY <1>6, <3>1, <3>2, <3>3
  <2> QED BY <2>1, <2>2, <2>3, <2>4 DEF NoOverlap
<1> QED BY <1>7, <1>8 DEF IInv

(* Giving a block back: what it merges with makes one contiguous range, and *)
(* no other block reaches into it.                                          *)
LEMMA FreeIInv == ASSUME IInv, NEW va \in Int, Free(va) PROVE IInv'
<1> PICK b \in held :
      /\ held' = held \ {b} /\ live' = live - b.size
      /\ \E lo \in {c.addr : c \in Merged(b)}, hi \in {End(c) : c \in Merged(b)} :
            /\ \A c \in Merged(b) : lo <= c.addr /\ End(c) <= hi
            /\ IF hi = next
               THEN holes' = holes \ Merged(b) /\ next' = lo
               ELSE holes' = (holes \ Merged(b)) \cup Hole(lo, hi) /\ next' = next
      /\ UNCHANGED <<high, serial, claimed>>
  BY DEF Free
<1> PICK p \in Merged(b), q \in Merged(b) :
      /\ \A c \in Merged(b) : p.addr <= c.addr /\ End(c) <= End(q)
      /\ IF End(q) = next
         THEN holes' = holes \ Merged(b) /\ next' = p.addr
         ELSE holes' = (holes \ Merged(b)) \cup Hole(p.addr, End(q)) /\ next' = next
  OBVIOUS
<1> DEFINE lo == p.addr
           hi == End(q)
<1>1. /\ \A c \in held : c.addr \in Nat /\ c.size \in Nat \ {0} /\ Base <= c.addr /\ End(c) <= next
      /\ \A c \in holes : c.addr \in Nat /\ c.size \in Nat \ {0} /\ Base <= c.addr /\ End(c) <= next
      /\ next \in Nat /\ high \in Nat /\ Base <= next /\ next <= Limit /\ next <= high
  BY LimitType DEF IInv, TypeOK, NoOverlap
<1>2. b \in Merged(b) /\ \A c \in Merged(b) : c = b \/ (c \in holes /\ (End(c) = b.addr \/ c.addr = End(b)))
  BY DEF Merged
<1>3. lo \in Nat /\ hi \in Nat /\ Base <= lo /\ lo <= b.addr /\ End(b) <= hi /\ lo < hi /\ hi <= next
  BY <1>1, <1>2 DEF End
<1>4. ASSUME NEW c \in (held \cup holes) \ Merged(b) PROVE End(c) <= lo \/ hi <= c.addr
  <2>1. \A d \in Merged(b) : Disjoint(c, d)
    BY <1>2, <1>4 DEF IInv, NoOverlap, Disjoint
  <2>2. Disjoint(c, b) /\ Disjoint(c, p) /\ Disjoint(c, q)
    BY <2>1, <1>2
  <2>3. c.addr \in Nat /\ c.size \in Nat \ {0}
    BY <1>1, <1>4
  <2>4. End(p) = b.addr \/ p = b
    BY <1>1, <1>2, <1>3 DEF End
  <2>5. q.addr = End(b) \/ q = b
    BY <1>1, <1>2, <1>3 DEF End
  <2> QED BY <2>2, <2>3, <2>4, <2>5, <1>1, <1>2, <1>3 DEF Disjoint, End
<1>5. \A c \in holes' : \/ c \in holes \ Merged(b)
                        \/ hi # next /\ c = [addr |-> lo, size |-> hi - lo]
  BY <1>3 DEF Hole
<1>6. next' \in Nat /\ Base <= next' /\ next' <= next /\ (hi = next => next' = lo) /\ (hi # next => next' = next)
  BY <1>1, <1>3
<1> HIDE DEF lo, hi
<1>7. TypeOK'
  <2>1. holes' \subseteq [addr : Nat, size : Nat \ {0}]
    BY <1>3, <1>5 DEF IInv, TypeOK
  <2>2. next' \in Base .. Limit /\ high' \in next' .. Limit
    BY <1>1, <1>6, LimitType DEF IInv, TypeOK, Limit
  <2>3. live' \in Int
    BY <1>1 DEF IInv, TypeOK
  <2> QED BY <2>1, <2>2, <2>3 DEF IInv, TypeOK
<1>8. NoOverlap'
  <2>1. ASSUME NEW c \in held' \cup holes' PROVE Base <= c.addr /\ End(c) <= next'
    <3>1. CASE c \in (held \cup holes) \ Merged(b)
      <4>1. Base <= c.addr /\ End(c) <= next /\ c.addr \in Nat /\ c.size \in Nat \ {0}
        BY <1>1, <3>1
      <4> QED BY <4>1, <1>1, <1>3, <1>4, <1>6, <3>1 DEF End
    <3>2. CASE c = [addr |-> lo, size |-> hi - lo] /\ hi # next
      BY <3>2, <1>3, <1>6 DEF End
    <3>3. c \in held' => c \notin Merged(b)
      BY <1>1, <1>2 DEF IInv, NoOverlap, Disjoint, End
    <3> QED BY <1>5, <2>1, <3>1, <3>2, <3>3
  <2>2. \A c, d \in held' : c # d => Disjoint(c, d)
    BY DEF IInv, NoOverlap
  <2>3. ASSUME NEW c \in held', NEW d \in holes' PROVE Disjoint(c, d)
    <3>1. c \notin Merged(b)
      BY <1>1, <1>2 DEF IInv, NoOverlap, Disjoint, End
    <3>2. CASE d \in holes
      BY <3>2 DEF IInv, NoOverlap
    <3>3. CASE d = [addr |-> lo, size |-> hi - lo]
      BY <3>1, <3>3, <1>1, <1>3, <1>4 DEF Disjoint, End
    <3> QED BY <1>5, <3>2, <3>3
  <2>4. ASSUME NEW c \in holes', NEW d \in holes', c # d PROVE Disjoint(c, d)
    <3>1. CASE c \in holes \ Merged(b) /\ d \in holes \ Merged(b)
      BY <3>1, <2>4 DEF IInv, NoOverlap
    <3>2. CASE c \in holes \ Merged(b) /\ d = [addr |-> lo, size |-> hi - lo]
      BY <3>2, <1>1, <1>3, <1>4 DEF Disjoint, End
    <3>3. CASE d \in holes \ Merged(b) /\ c = [addr |-> lo, size |-> hi - lo]
      BY <3>3, <1>1, <1>3, <1>4 DEF Disjoint, End
    <3> QED BY <1>5, <2>4, <3>1, <3>2, <3>3
  <2> QED BY <2>1, <2>2, <2>3, <2>4 DEF NoOverlap
<1> QED BY <1>7, <1>8 DEF IInv

LEMMA NextIInv == IInv /\ [Next]_vars => IInv'
<1> SUFFICES ASSUME IInv, [Next]_vars PROVE IInv'
  OBVIOUS
<1>1. ASSUME NEW n \in Requests, NEW k \in Alignments, AllocRefused(n, k) PROVE IInv'
  BY <1>1 DEF AllocRefused, IInv, TypeOK, NoOverlap, vars
<1>2. ASSUME NEW va \in Base - 1 .. Base + Size, FreeRefused(va) PROVE IInv'
  BY <1>2 DEF FreeRefused, IInv, TypeOK, NoOverlap, vars
<1>3. ASSUME NEW n \in Claims, ClaimInstance(n) PROVE IInv'
  BY <1>3 DEF ClaimInstance, IInv, TypeOK, NoOverlap
<1>4. CASE UNCHANGED vars
  BY <1>4 DEF IInv, TypeOK, NoOverlap, vars
<1> QED BY <1>1, <1>2, <1>3, <1>4, ReusedIInv, BumpedIInv, FreeIInv DEF Next

THEOREM IInvHolds == Spec => []IInv
BY InitIInv, NextIInv, PTL DEF Spec

(* The bump pointer and the high-water mark stay inside the arena, every    *)
(* block has a size.                                                        *)
THEOREM TypeCorrect == Spec => []TypeOK
BY IInvHolds, PTL DEF IInv

(* No byte belongs to two blocks, whatever the window, the alignments, the  *)
(* order of requests and frees, and the size of the table.                  *)
THEOREM BlocksNeverOverlap == Spec => []NoOverlap
BY IInvHolds, PTL DEF IInv

(* What is handed out fits the arena and touches no block already held.     *)
LEMMA HandGrants ==
  ASSUME IInv, NEW s \in Int, NEW n \in Requests, Hand(s, n),
         Base <= s, s + Pages(n) <= Limit,
         \A g \in held : s + Pages(n) <= g.addr \/ End(g) <= s
  PROVE  Abstract!Grant
<1> DEFINE m == Pages(n)
<1>1. m \in Nat \ {0} /\ Base \in Nat /\ Limit \in Nat
  BY PagesPositive, LimitType
<1>2. s \in Base .. Limit /\ m \in 1 .. (Limit - Base)
  BY <1>1
<1>3. \A g \in held : Abstract!Disjoint(s, m, g.addr, g.size)
  BY DEF Abstract!Disjoint, End
<1>4. /\ held' = held \cup {[addr |-> s, size |-> m, serial |-> serial + 1]}
      /\ serial' = serial + 1
  BY DEF Hand
<1> QED BY <1>2, <1>3, <1>4 DEF Abstract!Grant

LEMMA ReusedGrants ==
  ASSUME IInv, NEW n \in Requests, NEW k \in Alignments, AllocReused(n, k)
  PROVE  Abstract!Grant
<1> PICK h \in holes : Best(h, n, k) /\ Hand(AlignUp(h.addr, k), n)
  BY DEF AllocReused
<1> DEFINE s == AlignUp(h.addr, k)
<1>1. /\ h \in [addr : Nat, size : Nat \ {0}]
      /\ Base <= h.addr /\ End(h) <= next /\ next \in Nat /\ next <= Limit
  BY LimitType DEF IInv, TypeOK, NoOverlap
<1>2. Pages(n) \in Nat \ {0} /\ s \in Int
  BY <1>1, PagesPositive, AlignUpInt
<1>3. h.addr <= s /\ s + Pages(n) <= End(h)
  BY <1>1, <1>2 DEF Best, Fits, End
<1>4. ASSUME NEW g \in held PROVE s + Pages(n) <= g.addr \/ End(g) <= s
  <2>1. Disjoint(g, h) /\ g \in [addr : Nat, size : Nat \ {0}, serial : Nat]
    BY DEF IInv, TypeOK, NoOverlap
  <2> QED BY <2>1, <1>1, <1>2, <1>3 DEF Disjoint, End
<1>5. Base <= s /\ s + Pages(n) <= Limit
  BY <1>1, <1>2, <1>3, LimitType DEF End
<1> HIDE DEF s
<1> QED BY <1>2, <1>4, <1>5, HandGrants DEF s

LEMMA BumpedGrants ==
  ASSUME IInv, NEW n \in Requests, NEW k \in Alignments, AllocBumped(n, k)
  PROVE  Abstract!Grant
<1> DEFINE s == AlignUp(next, k)
<1>1. next \in Nat /\ Base <= next /\ \A g \in held : End(g) <= next /\ End(g) \in Nat
  BY LimitType DEF IInv, TypeOK, NoOverlap, End
<1>2. Pages(n) \in Nat \ {0} /\ s \in Int
  BY <1>1, PagesPositive, AlignUpInt
<1>3. next <= s /\ s + Pages(n) <= Limit
  BY <1>1, <1>2, LimitType DEF AllocBumped, Tops
<1>4. Base <= s /\ \A g \in held : End(g) <= s
  BY <1>1, <1>2, <1>3
<1>5. Hand(s, n)
  BY DEF AllocBumped
<1> HIDE DEF s
<1> QED BY <1>2, <1>3, <1>4, <1>5, HandGrants

LEMMA StepImplements == IInv /\ [Next]_vars => [Abstract!Next]_<<held, serial>>
<1> SUFFICES ASSUME IInv, [Next]_vars PROVE Abstract!Next \/ UNCHANGED <<held, serial>>
  OBVIOUS
<1>1. ASSUME NEW va \in Int, Free(va) PROVE Abstract!Release
  BY <1>1 DEF Free, Abstract!Release
<1>2. ASSUME NEW n \in Requests, NEW k \in Alignments, AllocRefused(n, k)
      PROVE  UNCHANGED <<held, serial>>
  BY <1>2 DEF AllocRefused, vars
<1>3. ASSUME NEW va \in Int, FreeRefused(va) PROVE UNCHANGED <<held, serial>>
  BY <1>3 DEF FreeRefused, vars
<1>4. ASSUME NEW n \in Claims, ClaimInstance(n) PROVE UNCHANGED <<held, serial>>
  BY <1>4 DEF ClaimInstance
<1>5. CASE UNCHANGED vars
  BY <1>5 DEF vars
<1>6. CASE \E n \in Requests, k \in Alignments :
             AllocReused(n, k) \/ AllocBumped(n, k) \/ AllocRefused(n, k)
  BY <1>2, <1>6, ReusedGrants, BumpedGrants DEF Abstract!Next
<1>7. CASE \E va \in Base - 1 .. Base + Size : Free(va) \/ FreeRefused(va)
  BY <1>1, <1>3, <1>7 DEF Abstract!Next
<1> QED BY <1>4, <1>5, <1>6, <1>7 DEF Next

(* The table of blocks, the bump pointer and the merging implement the     *)
(* abstract allocator: every allocation is a grant, every free a release,   *)
(* and everything else leaves the grants alone.                             *)
THEOREM Implements == Spec => AbstractSpec
<1>1. Init => Abstract!Init
  BY DEF Init, Abstract!Init
<1> QED BY <1>1, IInvHolds, StepImplements, PTL DEF Spec, AbstractSpec, Abstract!Spec

(* No page below the bump pointer is without a block: a split covers its    *)
(* hole, a gap becomes a hole, a merge covers what it joins.                *)
LEMMA NextNothingLost == IInv /\ NothingLost /\ [Next]_vars => NothingLost'
<1> SUFFICES ASSUME IInv, NothingLost, [Next]_vars PROVE NothingLost'
  OBVIOUS
<1> DEFINE In(p, b) == b.addr <= p /\ p < End(b)
<1>0. /\ next \in Nat /\ Base <= next
      /\ \A c \in held : c.addr \in Nat /\ c.size \in Nat \ {0} /\ End(c) <= next
      /\ \A c \in holes : c.addr \in Nat /\ c.size \in Nat \ {0} /\ End(c) <= next
  BY LimitType DEF IInv, TypeOK, NoOverlap
<1>1. ASSUME NEW n \in Requests, NEW k \in Alignments, AllocReused(n, k) PROVE NothingLost'
  <2> PICK h \in holes :
        /\ Best(h, n, k)
        /\ Hand(AlignUp(h.addr, k), n)
        /\ holes' = (holes \ {h}) \cup Hole(h.addr, AlignUp(h.addr, k))
                      \cup Hole(AlignUp(h.addr, k) + Pages(n), End(h))
    BY <1>1 DEF AllocReused
  <2> DEFINE s == AlignUp(h.addr, k)
             m == Pages(n)
             new == [addr |-> s, size |-> m, serial |-> serial + 1]
  <2>1. next' = next
    BY <1>1 DEF AllocReused
  <2>2. m \in Nat \ {0} /\ s \in Int
    <3>1. h.addr \in Int /\ n \in Nat /\ k \in Nat
      BY <1>0
    <3> HIDE DEF In
    <3> QED BY <3>1, PagesPositive, AlignUpInt
  <2>3. h.addr <= s /\ s + m <= End(h)
    BY <1>0, <2>2 DEF Best, Fits, End
  <2>4. held' = held \cup {new}
    BY DEF Hand
  <2>5. holes' = (holes \ {h}) \cup Hole(h.addr, s) \cup Hole(s + m, End(h))
    OBVIOUS
  <2> HIDE DEF s, m
  <2>6. ASSUME NEW p \in Base .. next' - 1 PROVE \E b \in held' \cup holes' : In(p, b)
    <3>1. PICK b \in held \cup holes : In(p, b)
      BY <2>1 DEF NothingLost
    <3>2. CASE b \in held \/ b # h
      BY <2>4, <2>5, <3>1, <3>2
    <3>3. CASE In(p, h)
      <4>1. p \in Int /\ h.addr \in Nat /\ End(h) \in Nat
        BY <1>0, <2>1 DEF End
      <4>2. CASE p < s
        <5> DEFINE d == [addr |-> h.addr, size |-> s - h.addr]
        <5>1. d \in holes'
          BY <2>2, <2>5, <3>3, <4>1, <4>2 DEF Hole
        <5>2. In(p, d)
          BY <2>2, <3>3, <4>1, <4>2 DEF End
        <5> QED BY <5>1, <5>2
      <4>3. CASE s <= p /\ p < s + m
        <5>1. In(p, new)
          BY <2>2, <4>3 DEF End
        <5> QED BY <2>4, <5>1
      <4>4. CASE s + m <= p
        <5> DEFINE d == [addr |-> s + m, size |-> End(h) - (s + m)]
        <5>1. d \in holes'
          BY <2>2, <2>5, <3>3, <4>1, <4>4 DEF Hole
        <5>2. In(p, d)
          <6>1. d.addr = s + m /\ End(d) = s + m + (End(h) - (s + m))
            BY DEF End
          <6> QED BY <2>2, <3>3, <4>1, <4>4, <6>1
        <5> QED BY <5>1, <5>2
      <4> QED BY <2>2, <4>1, <4>2, <4>3, <4>4
    <3> QED BY <3>1, <3>2, <3>3
  <2> QED BY <2>6 DEF NothingLost
<1>2. ASSUME NEW n \in Requests, NEW k \in Alignments, AllocBumped(n, k) PROVE NothingLost'
  <2> DEFINE s == AlignUp(next, k)
             m == Pages(n)
             new == [addr |-> s, size |-> m, serial |-> serial + 1]
             gap == [addr |-> next, size |-> s - next]
  <2>1. m \in Nat \ {0} /\ s \in Int
    BY <1>0, PagesPositive, AlignUpInt
  <2>2. held' = held \cup {new} /\ holes' = holes \cup Hole(next, s) /\ next' = s + m
    BY <1>2 DEF AllocBumped, Hand
  <2> HIDE DEF s, m
  <2>3. ASSUME NEW p \in Base .. next' - 1 PROVE \E b \in held' \cup holes' : In(p, b)
    <3>0. p \in Int /\ Base <= p /\ p < s + m
      BY <2>1, <2>2
    <3>1. CASE p < next
      <4>1. p \in Base .. next - 1
        BY <1>0, <3>0, <3>1
      <4> QED BY <2>2, <4>1 DEF NothingLost
    <3>2. CASE next <= p /\ p < s
      <4>1. In(p, gap)
        BY <1>0, <2>1, <3>0, <3>2 DEF End
      <4>2. gap \in holes'
        BY <1>0, <2>1, <2>2, <3>0, <3>2 DEF Hole
      <4> QED BY <4>1, <4>2
    <3>3. CASE s <= p
      <4>1. In(p, new)
        BY <2>1, <3>0, <3>3 DEF End
      <4> QED BY <2>2, <4>1
    <3> QED BY <1>0, <2>1, <3>0, <3>1, <3>2, <3>3
  <2> QED BY <2>3 DEF NothingLost
<1>3. ASSUME NEW va \in Int, Free(va) PROVE NothingLost'
  <2> PICK b \in held :
        /\ held' = held \ {b}
        /\ \E lo \in {c.addr : c \in Merged(b)}, hi \in {End(c) : c \in Merged(b)} :
              /\ \A c \in Merged(b) : lo <= c.addr /\ End(c) <= hi
              /\ IF hi = next
                 THEN holes' = holes \ Merged(b) /\ next' = lo
                 ELSE holes' = (holes \ Merged(b)) \cup Hole(lo, hi) /\ next' = next
    BY <1>3 DEF Free
  <2> PICK lo \in {c.addr : c \in Merged(b)}, hi \in {End(c) : c \in Merged(b)} :
        /\ \A c \in Merged(b) : lo <= c.addr /\ End(c) <= hi
        /\ IF hi = next
           THEN holes' = holes \ Merged(b) /\ next' = lo
           ELSE holes' = (holes \ Merged(b)) \cup Hole(lo, hi) /\ next' = next
    OBVIOUS
  <2>1. \A c \in Merged(b) : c = b \/ c \in holes
    BY DEF Merged
  <2>2. lo \in Nat /\ hi \in Nat /\ hi <= next
    BY <1>0, <2>1 DEF End
  <2>3. ASSUME NEW p \in Base .. next' - 1 PROVE \E c \in held' \cup holes' : In(p, c)
    <3>0. p \in Int /\ Base <= p /\ p < next' /\ (next' = next \/ (hi = next /\ next' = lo))
      <4>1. next' = next \/ (hi = next /\ next' = lo)
        OBVIOUS
      <4>2. next' \in Nat
        BY <1>0, <2>2, <4>1
      <4>3. \A q \in Nat : p \in Base .. q - 1 => p \in Int /\ Base <= p /\ p < q
        OBVIOUS
      <4> HIDE DEF In
      <4> QED BY <4>1, <4>2, <4>3, <2>3
    <3>1. lo <= next
      <4>1. \A c \in Merged(b) : c.addr <= End(c)
        BY <1>0, <2>1 DEF End
      <4> QED BY <1>0, <2>1, <2>2, <4>1 DEF End
    <3>2. p \in Base .. next - 1
      BY <1>0, <2>2, <3>0, <3>1
    <3>3. PICK c \in held \cup holes : In(p, c)
      BY <3>2 DEF NothingLost
    <3>4. CASE c \notin Merged(b)
      <4>1. c # b
        BY <3>4 DEF Merged
      <4>2. c \in held' \cup holes'
        BY <3>4, <4>1
      <4> QED BY <3>3, <4>2
    <3>5. CASE c \in Merged(b)
      <4>1. lo <= p /\ p < hi
        <5>1. lo <= c.addr /\ End(c) <= hi /\ c.addr \in Nat /\ End(c) \in Nat
          BY <1>0, <2>1, <3>5 DEF End
        <5> QED BY <2>2, <3>0, <3>3, <5>1
      <4>2. hi # next
        BY <1>0, <2>2, <3>0, <4>1
      <4> DEFINE d == [addr |-> lo, size |-> hi - lo]
      <4>3. d \in holes'
        BY <2>2, <3>0, <4>1, <4>2 DEF Hole
      <4>4. In(p, d)
        BY <2>2, <3>0, <4>1 DEF End
      <4> QED BY <4>3, <4>4
    <3> QED BY <3>4, <3>5
  <2> QED BY <2>3 DEF NothingLost
<1>4. ASSUME UNCHANGED <<held, holes, next>> PROVE NothingLost'
  BY <1>4 DEF NothingLost
<1> QED BY <1>1, <1>2, <1>3, <1>4
    DEF Next, AllocRefused, FreeRefused, ClaimInstance, vars

(* No page is lost: each below the bump pointer belongs to a block.  The    *)
(* arena never shrinks for good, however blocks are split and merged.       *)
THEOREM PagesNeverLost == Spec => []NothingLost
<1>1. Init => NothingLost
  BY DEF Init, NothingLost
<1> QED BY <1>1, IInvHolds, NextNothingLost, PTL DEF Spec

(* Free blocks do not touch one another, nor the bump pointer. *)
HolesApart ==
  /\ \A h \in holes : End(h) # next
  /\ \A g, h \in holes : End(g) # h.addr

LEMMA ReusedApart ==
  ASSUME IInv, HolesApart, NEW n \in Requests, NEW k \in Alignments, AllocReused(n, k)
  PROVE  HolesApart'
<1> PICK h \in holes :
      /\ Best(h, n, k)
      /\ holes' = (holes \ {h}) \cup Hole(h.addr, AlignUp(h.addr, k))
                    \cup Hole(AlignUp(h.addr, k) + Pages(n), End(h))
  BY DEF AllocReused
<1> DEFINE s == AlignUp(h.addr, k)
           m == Pages(n)
<1>1. h \in [addr : Nat, size : Nat \ {0}] /\ End(h) <= next /\ End(h) # next
  BY DEF IInv, TypeOK, NoOverlap, HolesApart
<1>2. m \in Nat \ {0} /\ s \in Int
  BY <1>1, PagesPositive, AlignUpInt
<1>3. h.addr <= s /\ s + m <= End(h)
  BY <1>1, <1>2 DEF Best, Fits, End
<1>4. next' = next /\ next \in Nat
  BY LimitType DEF AllocReused, IInv, TypeOK
<1> HIDE DEF s, m
<1>5. \A c \in holes' : \/ c \in holes /\ c # h
                        \/ c.addr = h.addr /\ End(c) = s /\ s # h.addr
                        \/ c.addr = s + m /\ End(c) = End(h) /\ s + m # End(h)
  BY <1>1, <1>2, <1>3 DEF Hole, End, s, m
<1>6. ASSUME NEW g \in holes, g # h
      PROVE  /\ g.addr \in Nat /\ g.size \in Nat \ {0} /\ End(g) # next
             /\ End(g) < h.addr \/ End(h) < g.addr
  <2>1. Disjoint(g, h) /\ g \in [addr : Nat, size : Nat \ {0}] /\ End(g) # h.addr /\ End(h) # g.addr
        /\ End(g) # next
    BY <1>6 DEF IInv, TypeOK, NoOverlap, HolesApart
  <2> QED BY <1>1, <2>1 DEF Disjoint, End
<1>7. ASSUME NEW c \in holes' PROVE End(c) # next'
  BY <1>1, <1>2, <1>3, <1>4, <1>5, <1>6, <1>7 DEF End
<1>8. ASSUME NEW c \in holes', NEW d \in holes' PROVE End(c) # d.addr
  <2>1. CASE c \in holes /\ c # h /\ d \in holes /\ d # h
    BY <2>1 DEF HolesApart
  <2>2. CASE c \in holes /\ c # h /\ ~(d \in holes /\ d # h)
    <3>1. d.addr \in {h.addr, s + m}
      BY <1>5, <2>2
    <3> QED BY <1>1, <1>2, <1>3, <1>6, <2>2, <3>1 DEF End
  <2>3. CASE ~(c \in holes /\ c # h) /\ d \in holes /\ d # h
    <3>1. End(c) \in {s, End(h)}
      BY <1>5, <2>3
    <3> QED BY <1>1, <1>2, <1>3, <1>6, <2>3, <3>1 DEF End
  <2>4. CASE ~(c \in holes /\ c # h) /\ ~(d \in holes /\ d # h)
    <3>1. (End(c) = s /\ s # h.addr) \/ End(c) = End(h)
      BY <1>5, <2>4
    <3>2. d.addr = h.addr \/ (d.addr = s + m /\ s + m # End(h))
      BY <1>5, <2>4
    <3> QED BY <1>1, <1>2, <1>3, <3>1, <3>2 DEF End
  <2> QED BY <2>1, <2>2, <2>3, <2>4
<1> QED BY <1>7, <1>8 DEF HolesApart

LEMMA BumpedApart ==
  ASSUME IInv, HolesApart, NEW n \in Requests, NEW k \in Alignments, AllocBumped(n, k)
  PROVE  HolesApart'
<1> DEFINE s == AlignUp(next, k)
           m == Pages(n)
<1>1. next \in Nat
  BY LimitType DEF IInv, TypeOK
<1>2. m \in Nat \ {0} /\ s \in Int
  BY <1>1, PagesPositive, AlignUpInt
<1>3. next <= s
  BY <1>1, <1>2, LimitType DEF AllocBumped, Tops
<1>4. holes' = holes \cup Hole(next, s) /\ next' = s + m
  BY DEF AllocBumped
<1> HIDE DEF s, m
<1>5. \A c \in holes' : c \in holes \/ (c.addr = next /\ End(c) = s /\ next < s)
  BY <1>1, <1>2, <1>3, <1>4 DEF Hole, End
<1>6. \A g \in holes : g.addr \in Nat /\ g.size \in Nat \ {0} /\ End(g) <= next /\ End(g) # next
  BY DEF IInv, TypeOK, NoOverlap, HolesApart
<1>7. ASSUME NEW c \in holes' PROVE End(c) # next'
  BY <1>1, <1>2, <1>3, <1>4, <1>5, <1>6, <1>7 DEF End
<1>8. ASSUME NEW c \in holes', NEW d \in holes' PROVE End(c) # d.addr
  <2>1. CASE c \in holes /\ d \in holes
    BY <2>1 DEF HolesApart
  <2>2. CASE c \in holes /\ d \notin holes
    BY <1>5, <1>6, <2>2
  <2>3. CASE c \notin holes
    <3>1. End(c) = s /\ next < s
      BY <1>5, <2>3
    <3>2. d.addr <= next
      BY <1>1, <1>5, <1>6 DEF End
    <3>3. d.addr \in Int
      BY <1>1, <1>5, <1>6
    <3> QED BY <1>1, <1>2, <3>1, <3>2, <3>3
  <2> QED BY <2>1, <2>2, <2>3
<1> QED BY <1>7, <1>8 DEF HolesApart

LEMMA FreeApart == ASSUME IInv, HolesApart, NEW va \in Int, Free(va) PROVE HolesApart'
<1> PICK b \in held :
      \E lo \in {c.addr : c \in Merged(b)}, hi \in {End(c) : c \in Merged(b)} :
            /\ \A c \in Merged(b) : lo <= c.addr /\ End(c) <= hi
            /\ IF hi = next
               THEN holes' = holes \ Merged(b) /\ next' = lo
               ELSE holes' = (holes \ Merged(b)) \cup Hole(lo, hi) /\ next' = next
  BY DEF Free
<1> PICK p \in Merged(b), q \in Merged(b) :
      /\ \A c \in Merged(b) : p.addr <= c.addr /\ End(c) <= End(q)
      /\ IF End(q) = next
         THEN holes' = holes \ Merged(b) /\ next' = p.addr
         ELSE holes' = (holes \ Merged(b)) \cup Hole(p.addr, End(q)) /\ next' = next
  OBVIOUS
<1>1. /\ \A c \in held : c.addr \in Nat /\ c.size \in Nat \ {0}
      /\ \A c \in holes : c.addr \in Nat /\ c.size \in Nat \ {0} /\ End(c) <= next /\ End(c) # next
      /\ next \in Nat
  BY LimitType DEF IInv, TypeOK, NoOverlap, HolesApart
<1>2. b \in Merged(b) /\ \A c \in Merged(b) : c = b \/ (c \in holes /\ (End(c) = b.addr \/ c.addr = End(b)))
  BY DEF Merged
<1>3. p.addr \in Nat /\ End(q) \in Nat /\ p.addr < End(q)
  BY <1>1, <1>2 DEF End
<1>4. ASSUME NEW c \in holes \ Merged(b) PROVE End(c) # p.addr /\ End(q) # c.addr
  <2>1. End(c) # b.addr /\ End(b) # c.addr
    BY <1>4 DEF Merged
  <2> QED BY <1>2, <1>4, <2>1 DEF HolesApart
<1>5. \A c \in holes' : \/ c \in holes \ Merged(b)
                        \/ End(q) # next /\ c.addr = p.addr /\ End(c) = End(q)
  BY <1>3 DEF Hole, End
<1>6. ASSUME NEW c \in holes' PROVE End(c) # next'
  <2>1. CASE c \in holes \ Merged(b)
    BY <1>1, <1>4, <2>1
  <2>2. CASE c \notin holes \ Merged(b)
    <3>1. End(c) = End(q) /\ End(q) # next
      BY <1>5, <2>2
    <3> QED BY <3>1
  <2> QED BY <2>1, <2>2
<1>7. ASSUME NEW c \in holes', NEW d \in holes' PROVE End(c) # d.addr
  <2>1. CASE c \in holes \ Merged(b) /\ d \in holes \ Merged(b)
    BY <2>1 DEF HolesApart
  <2>2. CASE c \in holes \ Merged(b) /\ d \notin holes \ Merged(b)
    BY <1>4, <1>5, <2>2
  <2>3. CASE c \notin holes \ Merged(b) /\ d \in holes \ Merged(b)
    BY <1>4, <1>5, <2>3
  <2>4. CASE c \notin holes \ Merged(b) /\ d \notin holes \ Merged(b)
    BY <1>3, <1>5, <2>4
  <2> QED BY <2>1, <2>2, <2>3, <2>4
<1> QED BY <1>6, <1>7 DEF HolesApart

LEMMA NextApart == IInv /\ HolesApart /\ [Next]_vars => HolesApart'
<1> SUFFICES ASSUME IInv, HolesApart, [Next]_vars PROVE HolesApart'
  OBVIOUS
<1>1. ASSUME UNCHANGED <<holes, next>> PROVE HolesApart'
  BY <1>1 DEF HolesApart
<1> QED BY <1>1, ReusedApart, BumpedApart, FreeApart
    DEF Next, AllocRefused, FreeRefused, ClaimInstance, vars

(* Multiples of a number: division with nothing left over is one, rounding  *)
(* down reaches one, and they keep the order of what they are multiples by. *)
LEMMA Multiple ==
  ASSUME NEW A \in Nat \ {0}, NEW x \in Int, x % A = 0
  PROVE  \E p \in Int : x = A * p
<1>1. x \div A \in Int /\ x = A * (x \div A) + (x % A)
  OBVIOUS
<1>2. x = A * (x \div A)
  BY <1>1
<1> QED BY <1>1, <1>2

LEMMA Rounded ==
  ASSUME NEW A \in Nat \ {0}, NEW x \in Int
  PROVE  \E q \in Int : x - (x % A) = A * q /\ x - A < A * q /\ A * q <= x
<1> DEFINE q == x \div A
           r == x % A
<1>1. q \in Int /\ r \in 0 .. A - 1 /\ x = A * q + r
  OBVIOUS
<1>2. A * q \in Int
  BY <1>1
<1> HIDE DEF q, r
<1>3. x - r = A * q /\ x - A < A * q /\ A * q <= x
  BY <1>1, <1>2
<1> QED BY <1>1, <1>3 DEF r

LEMMA NotAbove ==
  ASSUME NEW A \in Nat \ {0}, NEW p \in Int, NEW q \in Int, p < q + 1
  PROVE  A * p <= A * q
<1>1. PICK d \in Nat : q = p + d
  <2>1. q - p \in Nat /\ q = p + (q - p)
    OBVIOUS
  <2> QED BY <2>1
<1>2. A * q = A * p + A * d /\ A * d \in Nat /\ A * p \in Int
  BY <1>1
<1> QED BY <1>2

LEMMA Below ==
  ASSUME NEW A \in Nat \ {0}, NEW p \in Int, NEW q \in Int, A * p < A * q
  PROVE  p < q
<1> SUFFICES ASSUME q < p + 1 PROVE FALSE
  OBVIOUS
<1>1. A * q <= A * p /\ A * q \in Int /\ A * p \in Int
  BY NotAbove
<1> QED BY <1>1

(* No aligned address lies between an address and the one it rounds up to:  *)
(* past the end of the address space there is none to round up to.          *)
LEMMA AlignedAbove ==
  ASSUME NEW k \in Alignments, NEW h \in Nat, NEW a \in Nat,
         h <= a, a < Space, a % Alignment(k) = 0
  PROVE  h <= AlignUp(h, k) /\ AlignUp(h, k) <= a
<1> DEFINE A == Alignment(k)
           s == (h + A - 1) % Space
<1>1. A \in Nat \ {0}
  BY BoundAssumption DEF Alignment
<1>2. A > Space \/ Space % A = 0
  BY AlignAssumption
<1>3. AlignUp(h, k) = s - (s % A) /\ a % A = 0
  BY DEF AlignUp
<1>4. Space \in Nat
  BY WindowAssumption
<1> HIDE DEF A
<1> HIDE DEF s
<1>5. PICK p \in Int : a = A * p
  <2>1. a \in Int
    OBVIOUS
  <2> QED BY <1>1, <1>3, <2>1, Multiple, Zenon
<1>6. CASE h + A - 1 < Space
  <2>1. s = h + A - 1
    BY <1>1, <1>4, <1>6 DEF s
  <2>2. PICK q \in Int : s - (s % A) = A * q /\ s - A < A * q /\ A * q <= s
    <3>1. s \in Int
      BY <1>1, <2>1
    <3> QED BY <1>1, <3>1, Rounded, Zenon
  <2>3. A * q < A * (p + 1)
    <3>1. A * (p + 1) = a + A
      BY <1>1, <1>5
    <3> QED BY <1>1, <2>1, <2>2, <3>1
  <2>4. q < p + 1
    BY <1>1, <2>3, Below
  <2>5. A * q <= A * p
    BY <1>1, <2>4, NotAbove
  <2> QED BY <1>1, <1>3, <1>5, <2>1, <2>2, <2>5
<1>7. CASE h + A - 1 >= Space /\ A > Space
  <2>1. p = 0
    <3>1. A * p < A * 1 /\ A * (-1) < A * p
      BY <1>1, <1>4, <1>5, <1>7
    <3> QED BY <1>1, <3>1, Below
  <2>2. a = 0 /\ h = 0
    BY <1>1, <1>5, <2>1
  <2>3. s \in 0 .. Space - 1
    BY <1>1, <1>4, <2>2 DEF s
  <2>4. s % A = s
    BY <1>1, <1>4, <1>7, <2>3
  <2> QED BY <1>3, <2>2, <2>3, <2>4
<1>8. CASE h + A - 1 >= Space /\ Space % A = 0
  <2>1. PICK u \in Int : Space = A * u
    <3>1. Space \in Int
      BY <1>4
    <3> QED BY <1>1, <1>8, <3>1, Multiple, Zenon
  <2>2. p < u
    BY <1>1, <1>5, <2>1, Below
  <2>3. A * p <= A * (u - 1)
    BY <1>1, <2>2, NotAbove
  <2>4. A * (u - 1) = Space - A
    BY <1>1, <2>1
  <2> QED BY <1>1, <1>4, <1>5, <1>8, <2>3, <2>4
<1> QED BY <1>1, <1>2, <1>4, <1>6, <1>7, <1>8

(* A request that is refused finds no aligned run of pages nobody holds:    *)
(* such a run would start above the bump pointer or in a free block, and    *)
(* the free block would reach to its end, for what follows it is held.      *)
LEMMA RefusalIsRight == IInv /\ NothingLost /\ HolesApart => RefusedOnlyWhenFull
<1> SUFFICES ASSUME IInv, NothingLost, HolesApart, NEW n \in Requests, NEW k \in Alignments,
                    Room, Refuses(n, k), NEW a \in Base .. Limit - Pages(n),
                    a % Alignment(k) = 0,
                    \A b \in held : End(b) <= a \/ a + Pages(n) <= b.addr
             PROVE  FALSE
  BY DEF RefusedOnlyWhenFull
<1> DEFINE m == Pages(n)
<1>1. m \in Nat \ {0} /\ Limit \in Nat /\ Limit <= Base + Size /\ Limit < Space + 1 /\ Base \in Nat \ {0}
  BY PagesPositive, LimitType DEF Limit
<1>2. a \in Nat /\ Base <= a /\ a + m <= Limit /\ a < Space
  BY <1>1
<1>3. next \in Nat /\ Base <= next
  BY LimitType DEF IInv, TypeOK
<1>4. /\ \A b \in held : b.addr \in Nat /\ b.size \in Nat \ {0}
      /\ \A b \in holes : b.addr \in Nat /\ b.size \in Nat \ {0} /\ End(b) < next
  <2>1. ASSUME NEW b \in holes PROVE b.addr \in Nat /\ b.size \in Nat \ {0} /\ End(b) <= next /\ End(b) # next
    BY DEF IInv, TypeOK, NoOverlap, HolesApart
  <2>2. ASSUME NEW b \in held PROVE b.addr \in Nat /\ b.size \in Nat \ {0}
    BY DEF IInv, TypeOK
  <2> QED BY <1>3, <2>1, <2>2 DEF End
<1>5. Fits(n, k) = {} /\ ~Tops(n, k)
  <2>1. Pages(n) <= Size
    BY <1>1, <1>2
  <2>2. Pages(n) \in Int /\ Size \in Int
    BY <1>1
  <2> QED BY <2>1, <2>2 DEF Refuses
<1> HIDE DEF m
<1>6. a < next
  <2> SUFFICES ASSUME next <= a PROVE FALSE
    BY <1>2, <1>3
  <2>1. next <= AlignUp(next, k) /\ AlignUp(next, k) <= a
    BY <1>2, <1>3, AlignedAbove
  <2>2. AlignUp(next, k) \in Int
    BY <1>3, AlignUpInt
  <2> QED BY <1>1, <1>2, <1>5, <2>1, <2>2 DEF Tops, m
<1>7. PICK h \in holes : h.addr <= a /\ a < End(h)
  <2>1. a \in Base .. next - 1
    BY <1>2, <1>3, <1>6
  <2>2. PICK b \in held \cup holes : b.addr <= a /\ a < End(b)
    BY <2>1 DEF NothingLost
  <2>3. b \notin held
    BY <1>1, <1>2, <1>4, <2>2 DEF End, m
  <2> QED BY <2>2, <2>3
<1>8. a + m <= End(h)
  <2> SUFFICES ASSUME End(h) < a + m PROVE FALSE
    BY <1>1, <1>2, <1>4 DEF End
  <2>1. End(h) \in Base .. next - 1
    BY <1>2, <1>3, <1>4, <1>7 DEF End
  <2>2. PICK c \in held \cup holes : c.addr <= End(h) /\ End(h) < End(c)
    BY <2>1 DEF NothingLost
  <2>3. CASE c \in held
    <3>1. End(c) <= a \/ a + m <= c.addr
      BY <2>3 DEF m
    <3> QED BY <1>1, <1>2, <1>4, <1>7, <2>2, <2>3, <3>1 DEF End
  <2>4. CASE c \in holes
    <3>1. End(h) # c.addr /\ (c = h \/ Disjoint(c, h))
      BY <2>4 DEF HolesApart, IInv, NoOverlap
    <3> QED BY <1>4, <2>2, <2>4, <3>1 DEF Disjoint, End
  <2> QED BY <2>2, <2>3, <2>4
<1>9. h.addr <= AlignUp(h.addr, k) /\ AlignUp(h.addr, k) <= a
  BY <1>2, <1>4, <1>7, AlignedAbove
<1>10. AlignUp(h.addr, k) \in Int
  <2>1. h.addr \in Int /\ k \in Nat
    BY <1>4
  <2> QED BY <2>1, AlignUpInt
<1>11. h \in Fits(n, k)
  BY <1>1, <1>2, <1>4, <1>7, <1>8, <1>9, <1>10 DEF Fits, End, m
<1> QED BY <1>5, <1>11

(* A request is refused only when no aligned run of free pages is left, for *)
(* any window, table and alignments (xbox_ContiguousAlloc).                 *)
THEOREM RefusesOnlyWhenFull == Spec => []RefusedOnlyWhenFull
<1>1. Init => HolesApart
  BY DEF Init, HolesApart
<1>2. Spec => []HolesApart
  BY <1>1, IInvHolds, NextApart, PTL DEF Spec
<1> QED BY <1>2, IInvHolds, PagesNeverLost, RefusalIsRight, PTL

Fitting == IsFiniteSet(held) /\ IsFiniteSet(holes) /\ TableFits

LEMMA HoleOne == ASSUME NEW a, NEW e
                 PROVE IsFiniteSet(Hole(a, e)) /\ Cardinality(Hole(a, e)) <= 1
                       /\ Cardinality(Hole(a, e)) \in Nat
<1>1. CASE Hole(a, e) = {}
  <2>1. IsFiniteSet({}) /\ Cardinality({}) = 0
    BY FS_EmptySet
  <2> QED BY <1>1, <2>1
<1>2. CASE Hole(a, e) = {[addr |-> a, size |-> e - a]}
  <2> DEFINE d == [addr |-> a, size |-> e - a]
  <2>1. IsFiniteSet({d}) /\ Cardinality({d}) = 1
    BY FS_Singleton
  <2>2. Hole(a, e) = {d}
    BY <1>2
  <2> HIDE DEF d
  <2> QED BY <2>1, <2>2
<1> QED BY <1>1, <1>2 DEF Hole

LEMMA UnionBound ==
  ASSUME NEW S, NEW T, IsFiniteSet(S), IsFiniteSet(T)
  PROVE  /\ IsFiniteSet(S \cup T) /\ Cardinality(S \cup T) \in Nat
         /\ Cardinality(S \cup T) <= Cardinality(S) + Cardinality(T)
<1>1. /\ IsFiniteSet(S \cup T) /\ IsFiniteSet(S \cap T)
      /\ Cardinality(S \cup T) = Cardinality(S) + Cardinality(T) - Cardinality(S \cap T)
  BY FS_Union, FS_Intersection
<1>2. /\ Cardinality(S) \in Nat /\ Cardinality(T) \in Nat
      /\ Cardinality(S \cup T) \in Nat /\ Cardinality(S \cap T) \in Nat
  BY <1>1, FS_CardinalityType
<1> QED BY <1>1, <1>2

(* An allocation adds two entries at most: the block, and one hole more     *)
(* than it took.                                                            *)
LEMMA NextFitting == Fitting /\ [Next]_vars => Fitting'
<1> SUFFICES ASSUME Fitting, [Next]_vars PROVE Fitting'
  OBVIOUS
<1> DEFINE H == Cardinality(held)
           F == Cardinality(holes)
<1>0. IsFiniteSet(held) /\ IsFiniteSet(holes) /\ H \in Nat /\ F \in Nat /\ MaxBlocks \in Nat
  BY FS_CardinalityType DEF Fitting
<1>1. ASSUME NEW a, NEW n, Hand(a, n)
      PROVE  IsFiniteSet(held') /\ Cardinality(held') \in Nat /\ Cardinality(held') <= H + 1
  <2> DEFINE new == [addr |-> a, size |-> Pages(n), serial |-> serial + 1]
  <2>1. IsFiniteSet({new}) /\ Cardinality({new}) = 1
    BY FS_Singleton
  <2>2. held' = held \cup {new}
    BY <1>1 DEF Hand
  <2>3. IsFiniteSet(held \cup {new}) /\ Cardinality(held \cup {new}) \in Nat
        /\ Cardinality(held \cup {new}) <= H + Cardinality({new})
    BY <1>0, <2>1, UnionBound
  <2> QED BY <2>1, <2>2, <2>3
<1>2. ASSUME NEW n \in Requests, NEW k \in Alignments, AllocReused(n, k) PROVE Fitting'
  <2> PICK h \in holes :
        /\ Hand(AlignUp(h.addr, k), n)
        /\ holes' = (holes \ {h}) \cup Hole(h.addr, AlignUp(h.addr, k))
                      \cup Hole(AlignUp(h.addr, k) + Pages(n), End(h))
    BY <1>2 DEF AllocReused
  <2> DEFINE R == holes \ {h}
             A == Hole(h.addr, AlignUp(h.addr, k))
             B == Hole(AlignUp(h.addr, k) + Pages(n), End(h))
  <2>1. H + F + 2 <= MaxBlocks
    BY <1>2 DEF AllocReused, Room, Table
  <2>2. IsFiniteSet(R) /\ Cardinality(R) = F - 1
    BY <1>0, FS_RemoveElement
  <2>3. /\ IsFiniteSet(A) /\ Cardinality(A) <= 1 /\ Cardinality(A) \in Nat
        /\ IsFiniteSet(B) /\ Cardinality(B) <= 1 /\ Cardinality(B) \in Nat
    BY HoleOne
  <2> HIDE DEF R, A, B
  <2>4. /\ IsFiniteSet(R \cup A) /\ Cardinality(R \cup A) \in Nat
        /\ Cardinality(R \cup A) <= Cardinality(R) + Cardinality(A)
    BY <2>2, <2>3, UnionBound
  <2>5. /\ IsFiniteSet((R \cup A) \cup B) /\ Cardinality((R \cup A) \cup B) \in Nat
        /\ Cardinality((R \cup A) \cup B) <= Cardinality(R \cup A) + Cardinality(B)
    BY <2>3, <2>4, UnionBound
  <2>6. holes' = (R \cup A) \cup B
    BY DEF R, A, B
  <2>7. /\ IsFiniteSet(held') /\ Cardinality(held') \in Nat /\ Cardinality(held') <= H + 1
    BY <1>1
  <2>8. Cardinality(held') + Cardinality(holes') <= MaxBlocks
    <3> DEFINE x == Cardinality(held')
               y == Cardinality(holes')
    <3>1. y \in Nat /\ y <= F + 1
      <4> DEFINE r == Cardinality(R)
                 a == Cardinality(A)
                 c == Cardinality(B)
                 u == Cardinality(R \cup A)
                 v == Cardinality((R \cup A) \cup B)
      <4>1. r = F - 1 /\ a \in Nat /\ a <= 1 /\ c \in Nat /\ c <= 1
        BY <2>2, <2>3
      <4>2. u \in Nat /\ u <= r + a /\ v \in Nat /\ v <= u + c
        BY <2>4, <2>5
      <4>3. y = v
        BY <2>6
      <4> HIDE DEF F, y, r, a, c, u, v
      <4> QED BY <1>0, <4>1, <4>2, <4>3
    <3>2. x \in Nat /\ x <= H + 1
      BY <2>7
    <3> HIDE DEF x, y, H, F
    <3>3. x + y <= MaxBlocks
      BY <1>0, <2>1, <3>1, <3>2
    <3> QED BY <3>3 DEF x, y
  <2> QED BY <2>5, <2>6, <2>7, <2>8 DEF Fitting, TableFits, Table
<1>3. ASSUME NEW n \in Requests, NEW k \in Alignments, AllocBumped(n, k) PROVE Fitting'
  <2> DEFINE A == Hole(next, AlignUp(next, k))
  <2>1. H + F + 2 <= MaxBlocks
    BY <1>3 DEF AllocBumped, Room, Table
  <2>2. IsFiniteSet(A) /\ Cardinality(A) <= 1 /\ Cardinality(A) \in Nat
    BY HoleOne
  <2>3. holes' = holes \cup A
    BY <1>3 DEF AllocBumped
  <2>4. /\ IsFiniteSet(held') /\ Cardinality(held') \in Nat /\ Cardinality(held') <= H + 1
    BY <1>1, <1>3 DEF AllocBumped
  <2> HIDE DEF A
  <2>5. /\ IsFiniteSet(holes \cup A) /\ Cardinality(holes \cup A) \in Nat
        /\ Cardinality(holes \cup A) <= F + Cardinality(A)
    BY <1>0, <2>2, UnionBound
  <2>6. Cardinality(held') + Cardinality(holes') <= MaxBlocks
    BY <1>0, <2>1, <2>2, <2>3, <2>4, <2>5
  <2> QED BY <2>3, <2>4, <2>5, <2>6 DEF Fitting, TableFits, Table
<1>4. ASSUME NEW va \in Int, Free(va) PROVE Fitting'
  <2> PICK b \in held :
        /\ held' = held \ {b}
        /\ \E lo, hi : \/ holes' = holes \ Merged(b)
                       \/ holes' = (holes \ Merged(b)) \cup Hole(lo, hi)
    BY <1>4 DEF Free
  <2> PICK lo, hi : \/ holes' = holes \ Merged(b)
                    \/ holes' = (holes \ Merged(b)) \cup Hole(lo, hi)
    OBVIOUS
  <2> DEFINE R == holes \ Merged(b)
             A == Hole(lo, hi)
  <2>1. IsFiniteSet(held') /\ Cardinality(held') = H - 1
    BY <1>0, FS_RemoveElement
  <2>2. R \subseteq holes
    OBVIOUS
  <2>3. IsFiniteSet(A) /\ Cardinality(A) <= 1 /\ Cardinality(A) \in Nat
    BY HoleOne
  <2>4. holes' = R \/ holes' = R \cup A
    OBVIOUS
  <2> HIDE DEF R, A
  <2>5. IsFiniteSet(R) /\ Cardinality(R) <= F /\ Cardinality(R) \in Nat
    BY <1>0, <2>2, FS_Subset, FS_CardinalityType
  <2>6. /\ IsFiniteSet(R \cup A) /\ Cardinality(R \cup A) \in Nat
        /\ Cardinality(R \cup A) <= Cardinality(R) + Cardinality(A)
    BY <2>3, <2>5, UnionBound
  <2>7. /\ IsFiniteSet(holes') /\ Cardinality(holes') \in Nat
        /\ Cardinality(holes') <= F + 1
    <3>1. CASE holes' = R
      BY <1>0, <2>5, <3>1
    <3>2. CASE holes' = R \cup A
      BY <1>0, <2>3, <2>5, <2>6, <3>2
    <3> QED BY <2>4, <3>1, <3>2
  <2>8. H + F <= MaxBlocks
    BY DEF Fitting, TableFits, Table
  <2>9. Cardinality(held') + Cardinality(holes') <= MaxBlocks
    <3> DEFINE x == Cardinality(held')
               y == Cardinality(holes')
    <3>1. x = H - 1 /\ y \in Nat /\ y <= F + 1
      BY <2>1, <2>7
    <3> HIDE DEF x, y, H, F
    <3>2. x + y <= MaxBlocks
      BY <1>0, <2>8, <3>1
    <3> QED BY <3>2 DEF x, y
  <2> QED BY <2>1, <2>7, <2>9 DEF Fitting, TableFits, Table
<1>5. ASSUME UNCHANGED <<held, holes>> PROVE Fitting'
  BY <1>5 DEF Fitting, TableFits, Table
<1> QED BY <1>2, <1>3, <1>4, <1>5
    DEF Next, AllocRefused, FreeRefused, ClaimInstance, vars

(* The table never outgrows its array, though one allocation may add two    *)
(* entries: asking for room for two beforehand is enough on every path.     *)
THEOREM TableNeverOutgrown == Spec => []TableFits
<1>1. Init => Fitting
  BY FS_EmptySet DEF Init, Fitting, TableFits, Table
<1>2. Fitting => TableFits
  BY DEF Fitting
<1> QED BY <1>1, <1>2, NextFitting, PTL DEF Spec

(* A title that claims no more GPU instance memory than the arena leaves    *)
(* free never finds a block in it.  The condition is needed: the code takes *)
(* any size.                                                                *)
THEOREM InstanceKeptClear ==
  ASSUME Claims \subseteq 0 .. Instance PROVE Spec => []InstanceClear
<1> DEFINE Small == claimed \in 0 .. Instance
<1>1. Init => Small
  BY DEF Init
<1>2. Small /\ [Next]_vars => Small'
  BY DEF Next, AllocReused, AllocBumped, AllocRefused, Free, FreeRefused, ClaimInstance, vars
<1>3. IInv /\ Small => InstanceClear
  <2> SUFFICES ASSUME IInv, Small, NEW b \in held PROVE End(b) <= Base + Size - claimed
    BY DEF InstanceClear
  <2>1. End(b) \in Nat /\ End(b) <= next /\ next \in Nat /\ next <= Limit
    BY LimitType DEF IInv, TypeOK, NoOverlap, End
  <2> QED BY <2>1 DEF Limit
<1> HIDE DEF Small
<1> QED BY <1>1, <1>2, <1>3, IInvHolds, PTL DEF Spec

(* All that the run checks of the block table, for every series of calls of *)
(* a title that claims no more GPU instance memory than the arena leaves.   *)
THEOREM ContigInvHolds ==
  ASSUME Claims \subseteq 0 .. Instance PROVE Spec => []ContigInv
<1>1. Spec => []InstanceClear
  BY InstanceKeptClear
<1> QED BY <1>1, TypeCorrect, BlocksNeverOverlap, PagesNeverLost, TableNeverOutgrown, PTL DEF ContigInv

HIDE BoundAssumption
HIDE WindowAssumption

-----------------------------------------------------------------------------
(* Heap.                                                                    *)

Extent == [addr : Nat, size : Nat \ {0}]
Lease  == [addr : Nat, size : Nat \ {0}, align : Nat \ {0}, serial : Nat]

HeapIInv == HeapTypeOK /\ HeapNoOverlap /\ BlocksCoverGrants /\ SpareIsMerged

USE HeapAssumption

(* Rounding up to an alignment never goes below the address. *)
LEMMA UptoAbove == ASSUME NEW a \in Nat, NEW k \in Nat PROVE Upto(a, k) \in Nat /\ a <= Upto(a, k)
<1> DEFINE m == Align(k)
           q == (a + m - 1) \div m
           r == (a + m - 1) % m
<1>1. m \in Nat \ {0}
  BY DEF Align
<1> HIDE DEF m
<1>2. q \in Int /\ r \in 0 .. m - 1 /\ a + m - 1 = m * q + r
  BY <1>1
<1>3. q * m \in Int /\ q * m = m * q
  BY <1>1, <1>2
<1> HIDE DEF q, r
<1>4. q * m >= a
  BY <1>1, <1>2, <1>3
<1>5. Upto(a, k) = q * m
  BY DEF Upto, m, q
<1> QED BY <1>3, <1>4, <1>5

LEMMA ClampedPositive == ASSUME NEW n \in Nat PROVE Clamped(n) \in Nat \ {0}
BY DEF Clamped

(* What is taken from a free block lies in it and is large enough. *)
LEMMA GivenFits ==
  ASSUME NEW h \in Extent, NEW n \in Nat, NEW k \in Nat, NEW used,
         Upto(h.addr, k) + Clamped(n) <= BlockEnd(h)
  PROVE  LET b == Given(h, n, k, used)
         IN  /\ b \in Extent
             /\ h.addr <= b.addr /\ BlockEnd(b) <= BlockEnd(h)
             /\ Clamped(n) <= b.size
<1> DEFINE s == Upto(h.addr, k)
           m == Clamped(n)
           e == BlockEnd(h)
           b == Given(h, n, k, used)
<1>1. h.addr \in Nat /\ h.size \in Nat
  BY DEF Extent
<1>2. s \in Nat /\ h.addr <= s /\ m \in Nat \ {0} /\ e \in Nat /\ s + m <= e
  <2>1. s \in Nat /\ h.addr <= s
    BY <1>1, UptoAbove
  <2>2. m \in Nat \ {0}
    BY ClampedPositive
  <2>3. e \in Nat
    BY <1>1 DEF BlockEnd
  <2> QED BY <2>1, <2>2, <2>3
<1>3. PICK x \in {h.addr, s}, y \in {s + m, e} : b = [addr |-> x, size |-> y - x]
  BY DEF Given, Block
<1> HIDE DEF s, m, e, b
<1>4. b \in Extent /\ h.addr <= b.addr /\ b.addr + b.size <= e /\ m <= b.size
  BY <1>1, <1>2, <1>3 DEF Extent
<1> QED BY <1>4 DEF BlockEnd, b, m, e

LEMMA InitHeap == HeapInit => HeapIInv
BY DEF HeapInit, HeapIInv, HeapTypeOK, HeapNoOverlap, BlocksCoverGrants, SpareIsMerged

(* What the parts of the invariant say of the sets' members. *)
LEMMA Bounds ==
  ASSUME HeapIInv
  PROVE  /\ \A b \in blocks \cup spare : b \in Extent
         /\ \A g \in grants : g \in Lease
         /\ \A b \in blocks \cup spare \cup grants :
              b.addr \in Nat /\ b.size \in Nat \ {0} /\ HeapBase <= b.addr /\ b.addr + b.size <= top
         /\ top \in Nat /\ HeapBase <= top /\ top <= HeapTop
BY DEF HeapIInv, HeapTypeOK, HeapNoOverlap, Extent, Lease, BlockEnd

(* A live block is not a free one: it holds a grant. *)
LEMMA LiveNotSpare == ASSUME HeapIInv, NEW b \in blocks PROVE b \notin spare
<1>1. PICK g \in grants : g.addr = b.addr
  BY DEF HeapIInv, BlocksCoverGrants
<1>2. SUFFICES ASSUME b \in spare PROVE FALSE
  OBVIOUS
<1>3. g = b \/ Apart(g, b)
  BY <1>2 DEF HeapIInv, HeapNoOverlap
<1>4. g # b
  <2>1. "serial" \in DOMAIN g /\ "serial" \notin DOMAIN b
    BY Bounds DEF Lease, Extent
  <2> QED BY <2>1
<1>5. g.addr \in Nat /\ g.size \in Nat \ {0} /\ b.size \in Nat \ {0}
  BY Bounds
<1> QED BY <1>1, <1>3, <1>4, <1>5 DEF Apart, BlockEnd

(* Reusing a free block: what is handed out and what stays free share it.   *)
LEMMA ReuseHeap ==
  ASSUME HeapIInv, NEW n \in HeapSizes, NEW k \in HeapAligns, HeapReuse(n, k)
  PROVE  HeapIInv'
<1> PICK h \in spare :
      /\ BestFit(h, n, k)
      /\ LET b == Given(h, n, k, Entries)
         IN  /\ blocks' = blocks \cup {b}
             /\ spare' = (spare \ {h}) \cup Left(h, b)
             /\ Grants(b.addr, n, k)
  BY DEF HeapReuse
<1> DEFINE b == Given(h, n, k, Entries)
           g == [addr |-> b.addr, size |-> Clamped(n), align |-> Align(k), serial |-> granted + 1]
<1>1. h \in Extent /\ HeapBase <= h.addr /\ BlockEnd(h) <= top /\ n \in Nat /\ k \in Nat
      /\ top' = top /\ top \in Nat
  BY Bounds DEF HeapReuse, BlockEnd
<1>2. b \in Extent /\ h.addr <= b.addr /\ BlockEnd(b) <= BlockEnd(h) /\ Clamped(n) <= b.size
  BY <1>1, GivenFits DEF BestFit, Usable
<1>3. g \in Lease /\ g.addr = b.addr /\ g.addr + g.size <= BlockEnd(b) /\ granted + 1 \in 0 .. MaxGrants
  <2>1. Clamped(n) \in Nat \ {0} /\ Align(k) \in Nat \ {0} /\ granted \in Nat /\ granted < MaxGrants
    BY <1>1, ClampedPositive DEF Align, Grants, HeapIInv, HeapTypeOK
  <2>2. b.addr \in Nat /\ b.size \in Nat
    BY <1>2 DEF Extent
  <2> HIDE DEF b
  <2> QED BY <2>1, <2>2, <1>2 DEF Lease, BlockEnd
<1>4. blocks' = blocks \cup {b} /\ grants' = grants \cup {g} /\ granted' = granted + 1
  BY DEF Grants
<1>5. \A c \in spare' : \/ c \in spare /\ c # h
                        \/ /\ c \in Extent
                           /\ \/ c.addr = h.addr /\ BlockEnd(c) = b.addr
                              \/ c.addr = BlockEnd(b) /\ BlockEnd(c) = BlockEnd(h)
  <2>1. \A c \in Left(h, b) : c \in {Block(h.addr, b.addr), Block(BlockEnd(b), BlockEnd(h))} /\ c.size > 0
    BY DEF Left
  <2>2. b.addr \in Nat /\ b.size \in Nat /\ h.addr \in Nat /\ h.size \in Nat
    BY <1>1, <1>2 DEF Extent
  <2>3. spare' = (spare \ {h}) \cup Left(h, b)
    OBVIOUS
  <2> HIDE DEF b
  <2> QED BY <2>1, <2>2, <2>3 DEF Block, BlockEnd, Extent
<1> HIDE DEF b, g
<1> DEFINE Old(c) == c \in spare /\ c # h
           Before(c) == c \in Extent /\ c.addr = h.addr /\ BlockEnd(c) = b.addr
           After(c) == c \in Extent /\ c.addr = BlockEnd(b) /\ BlockEnd(c) = BlockEnd(h)
<1>6. \A c \in spare' : Old(c) \/ Before(c) \/ After(c)
  BY <1>5
(* What was there before is apart from the whole of h. *)
<1>7. \A c \in blocks \cup grants \cup (spare \ {h}) : Apart(c, h) /\ Apart(h, c)
  <2>1. \A c \in blocks : c # h
    BY LiveNotSpare
  <2>2. \A c \in grants : Apart(c, h)
    <3>1. TAKE c \in grants
    <3>2. c # h
      <4>1. "serial" \in DOMAIN c /\ "serial" \notin DOMAIN h
        BY <1>1, Bounds DEF Lease, Extent
      <4> QED BY <4>1
    <3> QED BY <3>2 DEF HeapIInv, HeapNoOverlap
  <2>3. \A c \in blocks \cup (spare \ {h}) : Apart(c, h)
    BY <2>1 DEF HeapIInv, HeapNoOverlap
  <2> QED BY <2>2, <2>3 DEF Apart
<1>8. HeapTypeOK'
  BY <1>1, <1>2, <1>3, <1>4, <1>5 DEF HeapIInv, HeapTypeOK, Extent, Lease
<1>9. HeapNoOverlap'
  <2> USE DEF Extent, Lease
  <2>1. \A c \in blocks' \cup spare' \cup grants' :
          c.addr \in Nat /\ c.size \in Nat \ {0} /\ HeapBase <= c.addr /\ BlockEnd(c) <= top'
    <3>1. \A c \in blocks \cup spare \cup grants :
            c.addr \in Nat /\ c.size \in Nat \ {0} /\ HeapBase <= c.addr /\ BlockEnd(c) <= top'
      BY <1>1, Bounds DEF BlockEnd
    <3>2. \A c \in {b, g} :
            c.addr \in Nat /\ c.size \in Nat \ {0} /\ HeapBase <= c.addr /\ BlockEnd(c) <= top'
      BY <1>1, <1>2, <1>3 DEF BlockEnd
    <3>3. ASSUME NEW c, Before(c) \/ After(c)
          PROVE  c.addr \in Nat /\ c.size \in Nat \ {0} /\ HeapBase <= c.addr /\ BlockEnd(c) <= top'
      BY <1>1, <1>2, <3>3 DEF BlockEnd
    <3> QED BY <1>4, <1>6, <3>1, <3>2, <3>3
(* All that is inside h is apart from what was outside it. *)
  <2>2. ASSUME NEW c, Before(c) \/ After(c) \/ c = b \/ c = g,
               NEW d \in blocks \cup grants \cup (spare \ {h})
        PROVE  Apart(c, d) /\ Apart(d, c)
    <3>1. Apart(d, h) /\ d.addr \in Nat /\ d.size \in Nat
      BY <1>7, Bounds
    <3>2. c.addr \in Nat /\ c.size \in Nat /\ h.addr <= c.addr /\ BlockEnd(c) <= BlockEnd(h)
      <4>1. CASE Before(c) \/ After(c)
        BY <1>1, <1>2, <4>1 DEF BlockEnd
      <4>2. CASE c = b
        BY <1>1, <1>2, <4>2 DEF BlockEnd
      <4>3. CASE c = g
        BY <1>1, <1>2, <1>3, <4>3 DEF BlockEnd
      <4> QED BY <2>2, <4>1, <4>2, <4>3
    <3> QED BY <1>1, <3>1, <3>2 DEF Apart, BlockEnd
  <2>3. ASSUME NEW c, Before(c) \/ After(c)
        PROVE  Apart(c, b) /\ Apart(b, c) /\ Apart(g, c)
    BY <1>1, <1>2, <1>3, <2>3 DEF Apart, BlockEnd
  <2>4. ASSUME NEW c \in grants', NEW d \in grants' \cup spare', c # d PROVE Apart(c, d)
    <3>1. CASE c \in grants /\ d \in grants \cup (spare \ {h})
      BY <2>4, <3>1 DEF HeapIInv, HeapNoOverlap
    <3>2. CASE c = g /\ d \in grants \cup (spare \ {h})
      BY <2>2, <3>2
    <3>3. CASE c \in grants /\ (d = g \/ Before(d) \/ After(d))
      BY <2>2, <3>3
    <3>4. CASE c = g /\ (Before(d) \/ After(d))
      BY <2>3, <3>4
    <3> QED BY <1>4, <1>6, <2>4, <3>1, <3>2, <3>3, <3>4
  <2>5. ASSUME NEW c \in blocks' \cup spare', NEW d \in blocks' \cup spare', c # d PROVE Apart(c, d)
    <3> DEFINE Kept(x) == x \in blocks \cup (spare \ {h})
               New(x) == x = b \/ Before(x) \/ After(x)
    <3>1. \A x \in blocks' \cup spare' : Kept(x) \/ New(x)
      BY <1>4, <1>6
    <3>2. CASE Kept(c) /\ Kept(d)
      BY <2>5, <3>2 DEF HeapIInv, HeapNoOverlap
    <3>3. CASE (Kept(c) /\ New(d)) \/ (New(c) /\ Kept(d))
      BY <2>2, <3>3
    <3>4. CASE New(c) /\ New(d)
      <4>1. CASE c = b \/ d = b
        BY <2>3, <2>5, <3>4, <4>1
      <4>2. CASE (Before(c) /\ After(d)) \/ (After(c) /\ Before(d))
        BY <1>1, <1>2, <4>2 DEF Apart, BlockEnd
      <4>3. CASE (Before(c) /\ Before(d)) \/ (After(c) /\ After(d))
        <5>1. c.addr = d.addr /\ c.size = d.size
          BY <1>1, <1>2, <4>3 DEF BlockEnd
        <5>2. c \in Extent /\ d \in Extent
          BY <4>3
        <5> QED BY <5>1, <5>2, <2>5
      <4> QED BY <3>4, <4>1, <4>2, <4>3
    <3> QED BY <3>1, <3>2, <3>3, <3>4, <2>5
  <2>6. ASSUME NEW c \in blocks', NEW d \in grants', c.addr # d.addr PROVE Apart(c, d)
    <3>1. CASE c \in blocks /\ d \in grants
      BY <2>6, <3>1 DEF HeapIInv, HeapNoOverlap
    <3>2. CASE (c \in blocks /\ d = g) \/ (c = b /\ d \in grants)
      BY <2>2, <3>2
    <3>3. ~(c = b /\ d = g)
      BY <1>3, <2>6
    <3> QED BY <1>4, <2>6, <3>1, <3>2, <3>3
  <2> QED BY <2>1, <2>4, <2>5, <2>6 DEF HeapNoOverlap
<1>10. BlocksCoverGrants'
  <2>1. \A c \in blocks' : \E d \in grants' : d.addr = c.addr
    BY <1>3, <1>4 DEF HeapIInv, BlocksCoverGrants
  <2>2. ASSUME NEW c \in blocks', NEW d \in grants', d.addr = c.addr PROVE d.size <= c.size
    <3>1. ASSUME NEW x \in blocks \cup grants PROVE x.addr # b.addr
      <4>1. Apart(x, h) /\ x.addr \in Nat /\ x.size \in Nat \ {0}
        BY <1>7, Bounds
      <4> QED BY <4>1, <1>1, <1>2 DEF Apart, BlockEnd, Extent
    <3>2. CASE c \in blocks /\ d \in grants
      BY <2>2, <3>2 DEF HeapIInv, BlocksCoverGrants
    <3>3. CASE c = b /\ d = g
      BY <3>3, <1>2, <1>3 DEF Extent, Lease, BlockEnd
    <3> QED BY <1>3, <1>4, <2>2, <3>1, <3>2, <3>3
  <2> QED BY <2>1, <2>2 DEF BlocksCoverGrants
<1>11. SpareIsMerged'
  <2> USE DEF Extent
  <2>1. \A c \in spare' : BlockEnd(c) < top'
    <3>1. \A c \in spare : BlockEnd(c) < top'
      BY <1>1 DEF HeapIInv, SpareIsMerged
    <3>2. \A c : Before(c) \/ After(c) => BlockEnd(c) < top'
      BY <3>1, <1>1, <1>2 DEF BlockEnd
    <3> QED BY <1>6, <3>1, <3>2
  <2>2. ASSUME NEW c \in spare', NEW d \in spare' PROVE BlockEnd(c) # d.addr
    <3>1. CASE Old(c) /\ Old(d)
      BY <3>1 DEF HeapIInv, SpareIsMerged
    <3>2. ASSUME NEW x, Old(x)
          PROVE  /\ Apart(x, h) /\ BlockEnd(x) # h.addr /\ BlockEnd(h) # x.addr
                 /\ x.addr \in Nat /\ x.size \in Nat \ {0}
      BY <1>7, <3>2, Bounds DEF HeapIInv, SpareIsMerged
    <3>3. CASE Old(c) /\ (Before(d) \/ After(d))
      BY <3>2, <3>3, <1>1, <1>2 DEF Apart, BlockEnd
    <3>4. CASE (Before(c) \/ After(c)) /\ Old(d)
      BY <3>2, <3>4, <1>1, <1>2 DEF Apart, BlockEnd
    <3>5. CASE (Before(c) \/ After(c)) /\ (Before(d) \/ After(d))
      BY <3>5, <1>1, <1>2 DEF BlockEnd
    <3> QED BY <1>6, <3>1, <3>3, <3>4, <3>5
  <2> QED BY <2>1, <2>2 DEF SpareIsMerged
<1> QED BY <1>8, <1>9, <1>10, <1>11 DEF HeapIInv

(* Taking from the top: what is handed out lies above everything there is.  *)
LEMMA BumpHeap ==
  ASSUME HeapIInv, NEW n \in HeapSizes, NEW k \in HeapAligns, HeapBump(n, k)
  PROVE  HeapIInv'
<1> DEFINE a == Upto(top, k)
           m == Clamped(n)
           b == Block(a, a + m)
           g == [addr |-> a, size |-> m, align |-> Align(k), serial |-> granted + 1]
<1>1. top \in Nat /\ HeapBase <= top /\ a \in Nat /\ top <= a /\ m \in Nat \ {0}
  BY Bounds, UptoAbove, ClampedPositive
<1>2. top' = a + m /\ a + m <= HeapTop
  BY DEF HeapBump, HeapRoom
<1>3. (blocks' = blocks \/ blocks' = blocks \cup {b}) /\ spare' = spare
  BY DEF HeapBump
<1>4. grants' = grants \cup {g} /\ granted' = granted + 1 /\ granted < MaxGrants
  BY DEF HeapBump, Grants
<1> HIDE DEF a, m
<1>5. b = [addr |-> a, size |-> m]
  BY <1>1 DEF Block
<1>6. \A c \in blocks \cup spare \cup grants :
        c.addr \in Nat /\ c.size \in Nat \ {0} /\ HeapBase <= c.addr /\ c.addr + c.size <= a
  BY <1>1, Bounds
<1>7. b \in Extent /\ g \in Lease
  BY <1>1, <1>4, <1>5 DEF Extent, Lease, Align, HeapIInv, HeapTypeOK
<1>8. HeapTypeOK'
  BY <1>1, <1>2, <1>3, <1>4, <1>7, Bounds DEF HeapIInv, HeapTypeOK, Extent, Lease
<1>9. b.addr = a /\ b.size = m /\ g.addr = a /\ g.size = m
  BY <1>5
<1> HIDE DEF b, g
<1>10. HeapNoOverlap'
  <2>1. \A c \in {b, g} : /\ HeapBase <= c.addr /\ BlockEnd(c) <= top'
                          /\ \A d \in blocks \cup spare \cup grants : Apart(c, d) /\ Apart(d, c)
    BY <1>1, <1>2, <1>6, <1>9 DEF Apart, BlockEnd
  <2>2. \A c \in blocks \cup spare \cup grants : HeapBase <= c.addr /\ BlockEnd(c) <= top'
    BY <1>1, <1>2, <1>6 DEF BlockEnd
  <2>3. ASSUME NEW c \in grants', NEW d \in grants' \cup spare', c # d PROVE Apart(c, d)
    <3>1. CASE c \in grants /\ d \in grants \cup spare
      BY <2>3, <3>1 DEF HeapIInv, HeapNoOverlap
    <3> QED BY <1>3, <1>4, <2>1, <2>3, <3>1
  <2>4. ASSUME NEW c \in blocks' \cup spare', NEW d \in blocks' \cup spare', c # d PROVE Apart(c, d)
    <3>1. CASE c \in blocks \cup spare /\ d \in blocks \cup spare
      BY <2>4, <3>1 DEF HeapIInv, HeapNoOverlap
    <3> QED BY <1>3, <2>1, <2>4, <3>1
  <2>5. ASSUME NEW c \in blocks', NEW d \in grants', c.addr # d.addr PROVE Apart(c, d)
    <3>1. CASE c \in blocks /\ d \in grants
      BY <2>5, <3>1 DEF HeapIInv, HeapNoOverlap
    <3> QED BY <1>3, <1>4, <1>9, <2>1, <2>5, <3>1
  <2> QED BY <1>3, <1>4, <2>1, <2>2, <2>3, <2>4, <2>5 DEF HeapNoOverlap
<1>11. BlocksCoverGrants'
  <2>1. \A c \in blocks \cup grants : c.addr # a
    BY <1>1, <1>6
  <2> QED BY <1>1, <1>3, <1>4, <1>9, <2>1 DEF HeapIInv, BlocksCoverGrants
<1>12. SpareIsMerged'
  BY <1>1, <1>2, <1>3, <1>6 DEF HeapIInv, SpareIsMerged, BlockEnd
<1> QED BY <1>8, <1>10, <1>11, <1>12 DEF HeapIInv

(* Giving back: what a block is joined with makes one range, and nothing    *)
(* else reaches into it or touches it.                                      *)
LEMMA FreeHeap == ASSUME HeapIInv, NEW g \in grants, HeapFree(g) PROVE HeapIInv'
<1>1. grants' = grants \ {g} /\ granted' = granted
  BY DEF HeapFree
<1>2. CASE (\A b \in blocks : b.addr # g.addr) /\ UNCHANGED <<blocks, spare, top>>
  BY <1>1, <1>2 DEF HeapIInv, HeapTypeOK, HeapNoOverlap, BlocksCoverGrants, SpareIsMerged
<1>3. ASSUME NEW b \in blocks, b.addr = g.addr, blocks' = blocks \ {b},
             NEW p \in Joined(b), NEW q \in Joined(b),
             \A c \in Joined(b) : p.addr <= c.addr /\ BlockEnd(c) <= BlockEnd(q),
             IF BlockEnd(q) = top
             THEN spare' = spare \ Joined(b) /\ top' = p.addr
             ELSE /\ spare' = (spare \ Joined(b)) \cup {Block(p.addr, BlockEnd(q))}
                  /\ top' = top
      PROVE  HeapIInv'
  <2> DEFINE lo == p.addr
             hi == BlockEnd(q)
             free == Block(lo, hi)
  <2>1. /\ \A c \in blocks \cup spare \cup grants :
             c.addr \in Nat /\ c.size \in Nat \ {0} /\ HeapBase <= c.addr /\ BlockEnd(c) <= top
        /\ top \in Nat /\ HeapBase <= top /\ top <= HeapTop
    BY Bounds DEF BlockEnd
  <2>2. b \in Joined(b) /\ \A c \in Joined(b) :
          c = b \/ (c \in spare /\ (BlockEnd(c) = b.addr \/ c.addr = BlockEnd(b)))
    BY DEF Joined
  <2>3. /\ lo \in Nat /\ hi \in Nat /\ HeapBase <= lo
        /\ lo <= b.addr /\ BlockEnd(b) <= hi /\ lo < hi /\ hi <= top
    BY <1>3, <2>1, <2>2 DEF BlockEnd
  <2>4. p = b \/ (p \in spare /\ BlockEnd(p) = b.addr)
    BY <1>3, <2>1, <2>2 DEF BlockEnd
  <2>5. q = b \/ (q \in spare /\ q.addr = BlockEnd(b))
    BY <1>3, <2>1, <2>2 DEF BlockEnd
  <2>6. free \in Extent /\ free.addr = lo /\ BlockEnd(free) = hi
    BY <2>3 DEF free, Block, BlockEnd, Extent
  <2>7. \A c \in spare' : c \in spare \ Joined(b) \/ (hi # top /\ c = free)
    BY <1>3
  <2>8. top' \in Nat /\ HeapBase <= top' /\ top' <= top /\ (hi = top => top' = lo) /\ (hi # top => top' = top)
    BY <1>3, <2>1, <2>3
  <2> HIDE DEF lo, hi, free
(* Outside the joined range: the other live blocks and grants, and the other free blocks,   *)
(* which do not touch it.                                                                   *)
  <2>9. ASSUME NEW c \in blocks \ {b} PROVE BlockEnd(c) <= lo \/ hi <= c.addr
    <3>1. Apart(c, b) /\ (p \in spare => Apart(c, p)) /\ (q \in spare => Apart(c, q))
      BY <2>9, LiveNotSpare DEF HeapIInv, HeapNoOverlap
    <3> QED BY <3>1, <2>1, <2>3, <2>4, <2>5, <2>9 DEF Apart, BlockEnd, lo, hi
  <2>10. ASSUME NEW c \in grants' PROVE BlockEnd(c) <= lo \/ hi <= c.addr
    <3>1. c \in grants /\ c # g
      BY <1>1
    <3>2. Apart(c, g)
      BY <3>1 DEF HeapIInv, HeapNoOverlap
    <3>3. c.addr # b.addr
      BY <3>1, <3>2, <1>3, <2>1 DEF Apart, BlockEnd
    <3>4. Apart(b, c)
      BY <3>1, <3>3 DEF HeapIInv, HeapNoOverlap
    <3>5. \A h \in spare : Apart(c, h)
      <4>1. TAKE h \in spare
      <4>2. c # h
        <5>1. "serial" \in DOMAIN c /\ "serial" \notin DOMAIN h
          BY <3>1, Bounds DEF Lease, Extent
        <5> QED BY <5>1
      <4> QED BY <3>1, <4>2 DEF HeapIInv, HeapNoOverlap
    <3> QED BY <3>1, <3>4, <3>5, <2>1, <2>3, <2>4, <2>5 DEF Apart, BlockEnd, lo, hi
  <2>11. ASSUME NEW c \in spare \ Joined(b) PROVE BlockEnd(c) < lo \/ hi < c.addr
    <3>1. c # b /\ BlockEnd(c) # b.addr /\ c.addr # BlockEnd(b) /\ c # p /\ c # q
      BY <2>11, LiveNotSpare DEF Joined
    <3>2. Apart(c, b) /\ (p \in spare => Apart(c, p)) /\ (q \in spare => Apart(c, q))
      BY <3>1 DEF HeapIInv, HeapNoOverlap
    <3>3. (p \in spare => BlockEnd(c) # p.addr) /\ (q \in spare => BlockEnd(q) # c.addr)
      BY DEF HeapIInv, SpareIsMerged
    <3> QED BY <3>1, <3>2, <3>3, <2>1, <2>3, <2>4, <2>5 DEF Apart, BlockEnd, lo, hi
  <2>12. \A c \in blocks' \cup grants' \cup (spare \ Joined(b)) :
           /\ BlockEnd(c) <= lo \/ hi <= c.addr
           /\ c.addr \in Nat /\ c.size \in Nat \ {0} /\ HeapBase <= c.addr /\ BlockEnd(c) <= top
    <3>1. \A c \in spare \ Joined(b) : BlockEnd(c) <= lo \/ hi <= c.addr
      BY <2>1, <2>3, <2>11 DEF BlockEnd
    <3>2. \A c \in blocks' : BlockEnd(c) <= lo \/ hi <= c.addr
      BY <1>3, <2>9
    <3>3. \A c \in grants' : BlockEnd(c) <= lo \/ hi <= c.addr
      BY <2>10
    <3> QED BY <1>1, <1>3, <2>1, <3>1, <3>2, <3>3
  <2>13. HeapTypeOK'
    <3>1. spare' \subseteq [addr : Nat, size : Nat \ {0}]
      BY <2>6, <2>7 DEF HeapIInv, HeapTypeOK, Extent
    <3> QED BY <3>1, <1>1, <1>3, <2>1, <2>8 DEF HeapIInv, HeapTypeOK
  <2>14. HeapNoOverlap'
    <3>1. ASSUME NEW c \in blocks' \cup spare' \cup grants'
          PROVE  HeapBase <= c.addr /\ BlockEnd(c) <= top'
      <4>1. CASE c \in blocks' \cup grants' \cup (spare \ Joined(b))
        BY <4>1, <2>1, <2>3, <2>8, <2>12 DEF BlockEnd
      <4>2. CASE hi # top /\ c = free
        BY <4>2, <2>3, <2>6, <2>8
      <4> QED BY <3>1, <2>7, <4>1, <4>2
    <3>2. ASSUME NEW c \in blocks' \cup grants' \cup (spare \ Joined(b))
          PROVE  Apart(c, free) /\ Apart(free, c)
      BY <2>3, <2>6, <2>12 DEF Apart
    <3>3. ASSUME NEW c \in grants', NEW d \in grants' \cup spare', c # d PROVE Apart(c, d)
      <4>1. CASE d \in grants \cup spare
        BY <1>1, <3>3, <4>1 DEF HeapIInv, HeapNoOverlap
      <4> QED BY <1>1, <2>7, <3>2, <3>3, <4>1
    <3>4. ASSUME NEW c \in blocks' \cup spare', NEW d \in blocks' \cup spare', c # d PROVE Apart(c, d)
      <4>1. CASE c \in blocks \cup spare /\ d \in blocks \cup spare
        BY <3>4, <4>1 DEF HeapIInv, HeapNoOverlap
      <4> QED BY <1>3, <2>7, <3>2, <3>4, <4>1
    <3>5. \A c \in blocks', d \in grants' : c.addr # d.addr => Apart(c, d)
      BY <1>1, <1>3 DEF HeapIInv, HeapNoOverlap
    <3> QED BY <3>1, <3>3, <3>4, <3>5 DEF HeapNoOverlap
  <2>15. BlocksCoverGrants'
    <3>1. ASSUME NEW c \in blocks' PROVE c.addr # g.addr
      <4>1. Apart(c, b) /\ c \in blocks
        BY <1>3 DEF HeapIInv, HeapNoOverlap
      <4> QED BY <4>1, <1>3, <2>1 DEF Apart, BlockEnd
    <3> QED BY <1>1, <1>3, <3>1 DEF HeapIInv, BlocksCoverGrants
  <2>16. SpareIsMerged'
    <3>1. ASSUME NEW c \in spare' PROVE BlockEnd(c) < top'
      <4>1. CASE c \in spare \ Joined(b)
        <5>1. BlockEnd(c) < top
          BY <4>1 DEF HeapIInv, SpareIsMerged
        <5> QED BY <5>1, <4>1, <2>1, <2>3, <2>8, <2>11 DEF BlockEnd
      <4>2. CASE hi # top /\ c = free
        BY <4>2, <2>1, <2>3, <2>6, <2>8
      <4> QED BY <2>7, <4>1, <4>2
    <3>2. ASSUME NEW c \in spare', NEW d \in spare' PROVE BlockEnd(c) # d.addr
      <4>1. CASE c \in spare \ Joined(b) /\ d \in spare \ Joined(b)
        BY <4>1 DEF HeapIInv, SpareIsMerged
      <4>2. \A e \in spare \ Joined(b) : BlockEnd(e) # lo /\ hi # e.addr
        BY <2>1, <2>3, <2>11 DEF BlockEnd
      <4> QED BY <2>3, <2>6, <2>7, <4>1, <4>2
    <3> QED BY <3>1, <3>2 DEF SpareIsMerged
  <2> QED BY <2>13, <2>14, <2>15, <2>16 DEF HeapIInv
<1> QED BY <1>2, <1>3 DEF HeapFree

LEMMA NextHeap == HeapIInv /\ [HeapNext]_heapVars => HeapIInv'
<1> SUFFICES ASSUME HeapIInv, [HeapNext]_heapVars PROVE HeapIInv'
  OBVIOUS
<1>1. CASE UNCHANGED heapVars
  BY <1>1 DEF HeapIInv, HeapTypeOK, HeapNoOverlap, BlocksCoverGrants, SpareIsMerged, heapVars
<1>2. ASSUME NEW n \in HeapSizes, NEW k \in HeapAligns, HeapRefuses(n, k) PROVE HeapIInv'
  BY <1>1, <1>2 DEF HeapRefuses
<1>3. ASSUME NEW a \in HeapBase .. HeapTop, HeapFreeIgnored(a) PROVE HeapIInv'
  BY <1>1, <1>3 DEF HeapFreeIgnored
<1> QED BY <1>1, <1>2, <1>3, ReuseHeap, BumpHeap, FreeHeap DEF HeapNext

(* The inductive invariant, for every heap and every series of calls.       *)
THEOREM HeapIInvHolds == HeapSpec => []HeapIInv
BY InitHeap, NextHeap, PTL DEF HeapSpec

(* Every block and grant has a size and the bump pointer stays in the heap. *)
THEOREM HeapTypeCorrect == HeapSpec => []HeapTypeOK
BY HeapIInvHolds, PTL DEF HeapIInv

(* No byte the title holds is anybody else's or free, whatever the heap,    *)
(* the sizes and alignments, the table's size and the order of calls.       *)
THEOREM HeapNeverOverlaps == HeapSpec => []HeapNoOverlap
BY HeapIInvHolds, PTL DEF HeapIInv

(* The table knows of a live block at least what was asked for.             *)
THEOREM HeapCoversGrants == HeapSpec => []BlocksCoverGrants
BY HeapIInvHolds, PTL DEF HeapIInv

(* A freed block is always joined with the free ones that touch it, and     *)
(* with the untouched memory above the bump pointer.                        *)
THEOREM HeapStaysMerged == HeapSpec => []SpareIsMerged
BY HeapIInvHolds, PTL DEF HeapIInv

Mapped(S) == {[addr |-> g.addr, size |-> g.size, serial |-> g.serial] : g \in S}

(* A new lease apart from the others is a grant of the abstract allocator.  *)
LEMMA LeaseGrants ==
  ASSUME HeapIInv, NEW a \in Nat, NEW n \in HeapSizes, NEW k \in HeapAligns, Grants(a, n, k),
         HeapBase <= a, a + Clamped(n) <= HeapTop,
         \A g \in grants : a + Clamped(n) <= g.addr \/ BlockEnd(g) <= a
  PROVE  AbstractHeap!Grant
<1> DEFINE m == Clamped(n)
           new == [addr |-> a, size |-> m, serial |-> granted + 1]
<1>1. m \in Nat \ {0}
  BY ClampedPositive
<1>2. a \in HeapBase .. HeapTop /\ m \in 1 .. (HeapTop - HeapBase)
  BY <1>1
<1>3. \A g \in Mapped(grants) : AbstractHeap!Disjoint(a, m, g.addr, g.size)
  BY DEF AbstractHeap!Disjoint, BlockEnd, Mapped
<1>4. Mapped(grants') = Mapped(grants) \cup {new} /\ granted' = granted + 1
  <2> DEFINE lease == [addr |-> a, size |-> m, align |-> Align(k), serial |-> granted + 1]
  <2>1. grants' = grants \cup {lease} /\ granted' = granted + 1
    BY DEF Grants
  <2>2. lease.addr = a /\ lease.size = m /\ lease.serial = granted + 1
    OBVIOUS
  <2>3. new = [addr |-> lease.addr, size |-> lease.size, serial |-> lease.serial]
    BY <2>2
  <2> HIDE DEF lease, new
  <2> QED BY <2>1, <2>3 DEF Mapped
<1> QED BY <1>2, <1>3, <1>4 DEF AbstractHeap!Grant, Mapped

LEMMA ReuseGrants ==
  ASSUME HeapIInv, NEW n \in HeapSizes, NEW k \in HeapAligns, HeapReuse(n, k)
  PROVE  AbstractHeap!Grant
<1> PICK h \in spare : BestFit(h, n, k) /\ Grants(Given(h, n, k, Entries).addr, n, k)
  BY DEF HeapReuse
<1> DEFINE b == Given(h, n, k, Entries)
           m == Clamped(n)
<1>1. /\ h \in Extent /\ h.addr \in Nat /\ HeapBase <= h.addr /\ BlockEnd(h) <= top
      /\ top \in Nat /\ top <= HeapTop
  BY Bounds DEF BlockEnd
<1>2. b \in Extent /\ h.addr <= b.addr /\ BlockEnd(b) <= BlockEnd(h) /\ m <= b.size
  BY <1>1, GivenFits DEF BestFit, Usable
<1>3. m \in Nat \ {0}
  BY ClampedPositive
<1> HIDE DEF b, m
<1>4. b.addr \in Nat /\ HeapBase <= b.addr /\ b.addr + m <= HeapTop
  BY <1>1, <1>2, <1>3 DEF Extent, BlockEnd
<1>5. ASSUME NEW g \in grants PROVE b.addr + m <= g.addr \/ BlockEnd(g) <= b.addr
  <2>1. g # h
    <3>1. "serial" \in DOMAIN g /\ "serial" \notin DOMAIN h
      BY <1>1, Bounds DEF Lease, Extent
    <3> QED BY <3>1
  <2>2. Apart(g, h) /\ g.addr \in Nat /\ g.size \in Nat
    BY <2>1, Bounds DEF HeapIInv, HeapNoOverlap
  <2> QED BY <2>2, <1>1, <1>2, <1>3 DEF Apart, BlockEnd, Extent
<1> QED BY <1>4, <1>5, LeaseGrants DEF b, m

LEMMA BumpGrants ==
  ASSUME HeapIInv, NEW n \in HeapSizes, NEW k \in HeapAligns, HeapBump(n, k)
  PROVE  AbstractHeap!Grant
<1> DEFINE a == Upto(top, k)
<1>1. a \in Nat /\ top <= a /\ top \in Nat /\ HeapBase <= top
  BY Bounds, UptoAbove
<1>2. a + Clamped(n) <= HeapTop /\ Grants(a, n, k)
  BY DEF HeapBump, HeapRoom
<1>3. \A g \in grants : BlockEnd(g) \in Nat /\ BlockEnd(g) <= top
  BY Bounds DEF BlockEnd
<1> HIDE DEF a
<1>4. HeapBase <= a /\ \A g \in grants : BlockEnd(g) <= a
  BY <1>1, <1>3
<1> QED BY <1>1, <1>2, <1>4, LeaseGrants

(* The alignment asked for is not part of an abstract grant: two grants     *)
(* that differ in nothing else would overlap.                               *)
LEMMA FreeReleases == ASSUME HeapIInv, NEW g \in grants, HeapFree(g) PROVE AbstractHeap!Release
<1> DEFINE old == [addr |-> g.addr, size |-> g.size, serial |-> g.serial]
<1>1. grants' = grants \ {g} /\ granted' = granted
  BY DEF HeapFree
<1>2. ASSUME NEW c \in grants, c # g PROVE c.addr # g.addr
  <2>1. Apart(c, g) /\ c.addr \in Nat /\ c.size \in Nat \ {0} /\ g.size \in Nat \ {0} /\ g.addr \in Nat
    BY <1>2, Bounds DEF HeapIInv, HeapNoOverlap
  <2> QED BY <2>1 DEF Apart, BlockEnd
<1>3. \A c \in grants : c # g => [addr |-> c.addr, size |-> c.size, serial |-> c.serial] # old
  BY <1>2
<1>4. Mapped(grants') = Mapped(grants) \ {old} /\ old \in Mapped(grants)
  BY <1>1, <1>3 DEF Mapped
<1> QED BY <1>1, <1>4 DEF AbstractHeap!Release, Mapped

LEMMA HeapStepImplements ==
  HeapIInv /\ [HeapNext]_heapVars => [AbstractHeap!Next]_<<Mapped(grants), granted>>
<1> SUFFICES ASSUME HeapIInv, [HeapNext]_heapVars
             PROVE  AbstractHeap!Next \/ UNCHANGED <<Mapped(grants), granted>>
  OBVIOUS
<1>1. CASE UNCHANGED heapVars
  BY <1>1 DEF heapVars, Mapped
<1>2. ASSUME NEW n \in HeapSizes, NEW k \in HeapAligns, HeapRefuses(n, k)
      PROVE  UNCHANGED heapVars
  BY <1>2 DEF HeapRefuses
<1>3. ASSUME NEW a \in HeapBase .. HeapTop, HeapFreeIgnored(a) PROVE UNCHANGED heapVars
  BY <1>3 DEF HeapFreeIgnored
<1> QED BY <1>1, <1>2, <1>3, ReuseGrants, BumpGrants, FreeReleases DEF HeapNext, AbstractHeap!Next

(* The heap implements the same abstract allocator as contiguous memory:    *)
(* an allocation grants bytes nobody holds, a free releases one grant, even *)
(* when what it gave was in no table.                                       *)
THEOREM HeapImplements == HeapSpec => AbstractHeapSpec
<1>1. HeapInit => AbstractHeap!Init
  BY DEF HeapInit, AbstractHeap!Init
<1>2. HeapIInv /\ [HeapNext]_heapVars => [AbstractHeap!Next]_<<Mapped(grants), granted>>
  BY HeapStepImplements
<1> QED BY <1>1, <1>2, HeapIInvHolds, PTL DEF HeapSpec, AbstractHeapSpec, AbstractHeap!Spec, Mapped

(* All that the run checks of the heap's table.                             *)
THEOREM HeapInvHolds == HeapSpec => []HeapInv
BY HeapTypeCorrect, HeapNeverOverlaps, HeapCoversGrants, HeapStaysMerged, PTL DEF HeapInv
=============================================================================
