----------------------------- MODULE ContigAlloc -----------------------------
(***************************************************************************)
(* The allocator over the contiguous window (xbox_memory_layout.c): an     *)
(* address-ordered table of blocks below a bump pointer, best fit over the *)
(* freed ones, coalescing on free, and space at the very top given back.   *)
(*                                                                         *)
(* Addresses and sizes are in 4096-byte pages, so rounding a size up is    *)
(* done before a request reaches this module; 0 stands for a request of no *)
(* bytes, or for an alignment below a page.  Addresses wrap at Space, as   *)
(* the code's wrap at 2^32.  The table's order is the order of addresses:  *)
(* its live blocks are the set held, its free ones the set holes.          *)
(***************************************************************************)
EXTENDS Integers, FiniteSets

CONSTANTS
    Space,        \* addresses are modulo this, a power of two
    Base, Size,   \* the window: XBOX_CONTIG_BASE, XBOX_CONTIG_SIZE
    Instance,     \* XBOX_GPU_INSTANCE_DEFAULT, kept off the top
    MaxBlocks,    \* XBOX_CONTIG_MAX_BLOCKS
    Requests,     \* bound: sizes asked for
    Alignments,   \* bound: alignments asked for
    Claims,       \* bound: sizes of GPU instance memory claimed
    MaxSerial     \* bound: allocations made

ASSUME WindowAssumption ==
    /\ Space \in Nat /\ Base \in Nat \ {0} /\ Size \in Nat
    /\ Instance \in Nat /\ Instance <= Size /\ Base + Size <= Space
ASSUME BoundAssumption ==
    /\ MaxBlocks \in Nat /\ MaxSerial \in Nat
    /\ Requests \subseteq Nat /\ Alignments \subseteq Nat /\ Claims \subseteq Nat

VARIABLES
    held,     \* the live blocks of g_contig_blocks
    holes,    \* its free blocks
    next,     \* g_contig_next
    high,     \* g_contig_high
    live,     \* g_contig_live
    serial,   \* g_contig_serial
    claimed   \* the GPU instance memory the title has claimed

vars == <<held, holes, next, high, live, serial, claimed>>

Limit == Base + Size - Instance
End(b) == b.addr + b.size
Table == Cardinality(held) + Cardinality(holes)     \* g_contig_block_count

Init ==
    /\ held = {} /\ holes = {}
    /\ next = Base /\ high = Base
    /\ live = 0 /\ serial = 0 /\ claimed = 0

-----------------------------------------------------------------------------
(* xbox_ContiguousAlloc *)

Pages(n) == IF n = 0 THEN 1 ELSE n

PowerOfTwo(k) == \E e \in 0 .. k : 2 ^ e = k

(* Below a page, or not a power of two: a page. *)
Alignment(k) == IF k > 0 /\ PowerOfTwo(k) THEN k ELSE 1

AlignUp(a, k) ==
    LET s == (a + Alignment(k) - 1) % Space IN s - (s % Alignment(k))

\* Addresses are 32 bits wide: a smaller power of two divides their number.
ASSUME AlignAssumption ==
    \A k \in Alignments : Alignment(k) > Space \/ Space % Alignment(k) = 0

(* The free blocks a request fits in, aligned, and the best of them: the    *)
(* smallest, the lowest of the smallest.                                    *)
Fits(n, k) ==
    {h \in holes : LET s == AlignUp(h.addr, k)
                   IN  s >= h.addr /\ s < End(h) /\ End(h) - s >= Pages(n)}

Best(h, n, k) ==
    /\ h \in Fits(n, k)
    /\ \A g \in Fits(n, k) : h.size < g.size \/ (h.size = g.size /\ h.addr <= g.addr)

(* Every path needs room for two more blocks in the table. *)
Room == Table + 2 <= MaxBlocks

Hole(a, e) == IF a < e THEN {[addr |-> a, size |-> e - a]} ELSE {}

(* Faulty: numbered with the old count. *)
HandPostIncrement(a, n) ==
    /\ serial < MaxSerial
    /\ held' = held \cup {[addr |-> a, size |-> Pages(n), serial |-> serial]}
    /\ serial' = serial + 1
    /\ live' = live + Pages(n)

(* A new live block, with a number of its own. *)
Hand(a, n) ==
    /\ serial < MaxSerial
    /\ held' = held \cup {[addr |-> a, size |-> Pages(n), serial |-> serial + 1]}
    /\ serial' = serial + 1
    /\ live' = live + Pages(n)

AllocReused(n, k) ==
    /\ Pages(n) <= Size /\ Room
    /\ \E h \in holes :
          /\ Best(h, n, k)
          /\ LET s == AlignUp(h.addr, k)
             IN  /\ Hand(s, n)
                 /\ holes' = (holes \ {h}) \cup Hole(h.addr, s) \cup Hole(s + Pages(n), End(h))
    /\ UNCHANGED <<next, high, claimed>>

(* Does the request fit above the bump pointer? *)
Tops(n, k) ==
    LET s == AlignUp(next, k) IN s >= next /\ s <= Limit /\ Limit - s >= Pages(n)

(* Faulty: the alignment gap belongs to nobody. *)
AllocBumpedNoGap(n, k) ==
    /\ Pages(n) <= Size /\ Room
    /\ Fits(n, k) = {} /\ Tops(n, k)
    /\ LET s == AlignUp(next, k)
       IN  /\ Hand(s, n)
           /\ next' = s + Pages(n)
           /\ high' = IF s + Pages(n) > high THEN s + Pages(n) ELSE high
    /\ UNCHANGED <<holes, claimed>>

AllocBumped(n, k) ==
    /\ Pages(n) <= Size /\ Room
    /\ Fits(n, k) = {} /\ Tops(n, k)
    /\ LET s == AlignUp(next, k)
       IN  /\ Hand(s, n)
           /\ holes' = holes \cup Hole(next, s)       \* the gap before it
           /\ next' = s + Pages(n)
           /\ high' = IF s + Pages(n) > high THEN s + Pages(n) ELSE high
    /\ UNCHANGED claimed

Refuses(n, k) ==
    \/ Pages(n) > Size \/ ~Room
    \/ Fits(n, k) = {} /\ ~Tops(n, k)

AllocRefused(n, k) == Refuses(n, k) /\ UNCHANGED vars

-----------------------------------------------------------------------------
(* xbox_ContiguousFree *)

(* Faulty: merged with the block after it only. *)
MergedForward(b) == {b} \cup {h \in holes : h.addr = End(b)}

(* A freed block and the free ones that touch it, which become one. *)
Merged(b) == {b} \cup {h \in holes : End(h) = b.addr \/ h.addr = End(b)}

Free(va) ==
    \E b \in held :
        /\ b.addr = va
        /\ held' = held \ {b} /\ live' = live - b.size
        /\ \E lo \in {c.addr : c \in Merged(b)}, hi \in {End(c) : c \in Merged(b)} :
              /\ \A c \in Merged(b) : lo <= c.addr /\ End(c) <= hi
              /\ IF hi = next
                 THEN holes' = holes \ Merged(b) /\ next' = lo
                 ELSE holes' = (holes \ Merged(b)) \cup Hole(lo, hi) /\ next' = next
        /\ UNCHANGED <<high, serial, claimed>>

(* Not the start of a live block: nothing is freed. *)
FreeRefused(va) == (\A b \in held : b.addr # va) /\ UNCHANGED vars

(* MmClaimGpuInstanceMemory: the title is told the window's last n pages    *)
(* are its own.                                                             *)
ClaimInstance(n) ==
    /\ claimed = 0 /\ claimed' = n
    /\ UNCHANGED <<held, holes, next, high, live, serial>>

Next ==
    \/ \E n \in Requests, k \in Alignments :
          AllocReused(n, k) \/ AllocBumped(n, k) \/ AllocRefused(n, k)
    \/ \E va \in Base - 1 .. Base + Size : Free(va) \/ FreeRefused(va)
    \/ \E n \in Claims : ClaimInstance(n)

Spec == Init /\ [][Next]_vars

-----------------------------------------------------------------------------
Disjoint(b, c) == End(b) <= c.addr \/ End(c) <= b.addr

TypeOK ==
    /\ held \subseteq [addr : Nat, size : Nat \ {0}, serial : Nat]
    /\ holes \subseteq [addr : Nat, size : Nat \ {0}]
    /\ next \in Base .. Limit /\ high \in next .. Limit
    /\ live \in Int /\ serial \in 0 .. MaxSerial /\ claimed \in Nat

(* No byte belongs to two blocks, live or free, after any sequence of       *)
(* splits, merges and give-backs, and all of them lie below the bump        *)
(* pointer.                                                                 *)
NoOverlap ==
    /\ \A b \in held \cup holes : Base <= b.addr /\ End(b) <= next
    /\ \A b, c \in held : b # c => Disjoint(b, c)
    /\ \A b, c \in holes : b # c => Disjoint(b, c)
    /\ \A b \in held, c \in holes : Disjoint(b, c)

(* No page is lost: each below the bump pointer belongs to some block.      *)
NothingLost ==
    \A p \in Base .. next - 1 : \E b \in held \cup holes : b.addr <= p /\ p < End(b)

(* A request is refused only when it really does not fit: nowhere below the *)
(* limit is there an aligned run of pages nobody holds (while the table has *)
(* room).  Freed neighbours that stayed apart, or free space kept from the  *)
(* bump pointer, would break it.                                            *)
RefusedOnlyWhenFull ==
    \A n \in Requests, k \in Alignments :
        Room /\ Refuses(n, k) =>
            \A a \in Base .. Limit - Pages(n) :
                a % Alignment(k) = 0 =>
                    \E b \in held : ~(End(b) <= a \/ a + Pages(n) <= b.addr)

(* The block table never outgrows its array. *)
TableFits == Table <= MaxBlocks

(* The arena and the GPU instance memory at the top of the window do not    *)
(* meet: what the title was told it may use there is nobody's block.        *)
InstanceClear == \A b \in held : End(b) <= Base + Size - claimed

(* Implementation of the abstract allocator: grants are the live blocks.    *)
Abstract == INSTANCE Allocator WITH
    First <- Base, Last <- Limit, held <- held, issued <- serial
AbstractSpec == Abstract!Spec

(* The block table and the bump pointer tile the arena, below claimed GPU   *)
(* memory and within the table, after any series of splits, merges and      *)
(* give-backs (xbox_ContiguousAlloc, xbox_ContiguousFree).                  *)
ContigInv == TypeOK /\ NoOverlap /\ NothingLost /\ TableFits /\ InstanceClear
=============================================================================
