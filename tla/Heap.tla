-------------------------------- MODULE Heap --------------------------------
(***************************************************************************)
(* The guest heap (xbox_HeapAlloc, xbox_HeapFree of xbox_memory_layout.c), *)
(* from which pool blocks, virtual memory, thread stacks and TIBs come: a  *)
(* table of blocks in address order below a bump pointer, best fit over    *)
(* the freed ones, the rest of a block split off when it is worth an entry *)
(* and the table has room for one, and merging on free.                    *)
(*                                                                         *)
(* The table's order is the order of addresses: its live blocks are the    *)
(* set blocks, its free ones the set spare.  What the title was given is a *)
(* history of its own, since a block may be more than was asked for, and   *)
(* one handed out while the table is full is in no table at all.  A call   *)
(* is one step: the guest lock is held ("Thread-safe: no").                *)
(***************************************************************************)
EXTENDS Integers, FiniteSets

CONSTANTS
  HeapBase, HeapTop,    \* XBOX_HEAP_BASE, XBOX_HEAP_TOP
  MinSize, MinAlign,    \* 16 and 4
  HeapMaxBlocks,        \* XBOX_HEAP_MAX_BLOCKS
  HeapSizes,            \* bound: sizes asked for
  HeapAligns,           \* bound: alignments asked for
  MaxGrants             \* bound: allocations made

ASSUME HeapAssumption ==
  /\ HeapBase \in Nat \ {0} /\ HeapTop \in Nat /\ HeapBase <= HeapTop
  /\ MinSize \in Nat \ {0} /\ MinAlign \in Nat \ {0}
  /\ HeapMaxBlocks \in Nat /\ MaxGrants \in Nat
  /\ HeapSizes \subseteq Nat /\ HeapAligns \subseteq Nat

VARIABLES
  blocks,   \* g_heap_blocks that are live
  spare,    \* those that are free
  top,      \* g_heap_next
  grants,   \* history: what the title has, as it asked for it
  granted   \* history: how many grants there have been

heapVars == <<blocks, spare, top, grants, granted>>

HeapInit == blocks = {} /\ spare = {} /\ top = HeapBase /\ grants = {} /\ granted = 0

BlockEnd(b) == b.addr + b.size
Entries == Cardinality(blocks) + Cardinality(spare)     \* g_heap_block_count
Block(a, e) == [addr |-> a, size |-> e - a]

Clamped(n) == IF n < MinSize THEN MinSize ELSE n

Align(k) == IF k < MinAlign THEN MinAlign ELSE k

\* The next multiple of the alignment (a power of two).
Upto(a, k) == ((a + Align(k) - 1) \div Align(k)) * Align(k)

-----------------------------------------------------------------------------
(* xbox_HeapAlloc *)

\* Faulty: the aligned start forgotten.
UsableUnaligned(n, k) == {h \in spare : Clamped(n) <= h.size}

Usable(n, k) == {h \in spare : Upto(h.addr, k) + Clamped(n) <= BlockEnd(h)}

\* The smallest free block that fits, and the first of the smallest.
BestFit(h, n, k) ==
  /\ h \in Usable(n, k)
  /\ \A g \in Usable(n, k) : h.size < g.size \/ (h.size = g.size /\ h.addr <= g.addr)

\* What of free block h is handed out, with that many entries in use: from the aligned
\* start, if the slack before it is worth an entry of its own and there is room for one,
\* else from the block's start; up to the block's end, unless the same goes for the tail.
Given(h, n, k, used) ==
  LET start  == Upto(h.addr, k)
      end    == start + Clamped(n)
      splits == start - h.addr >= MinSize /\ used < HeapMaxBlocks
      room   == used + (IF splits THEN 1 ELSE 0) < HeapMaxBlocks
  IN  Block(IF splits THEN start ELSE h.addr,
            IF BlockEnd(h) - end >= MinSize /\ room THEN end ELSE BlockEnd(h))

\* What is left of h when b is taken out of it.
Left(h, b) ==
  {c \in {Block(h.addr, b.addr), Block(BlockEnd(b), BlockEnd(h))} : c.size > 0}

\* The title is told the address; it asked for n bytes aligned to k.
Grants(a, n, k) ==
  /\ granted < MaxGrants /\ granted' = granted + 1
  /\ grants' = grants \cup
       {[addr |-> a, size |-> Clamped(n), align |-> Align(k), serial |-> granted + 1]}

HeapReuse(n, k) ==
  \E h \in spare :
    /\ BestFit(h, n, k)
    /\ LET b == Given(h, n, k, Entries)
       IN  /\ blocks' = blocks \cup {b}
           /\ spare' = (spare \ {h}) \cup Left(h, b)
           /\ Grants(b.addr, n, k)
    /\ UNCHANGED top

\* Faulty: the size is compared with the whole heap only.
HeapRoomAnywhere(n, k) == Clamped(n) <= HeapTop - HeapBase

HeapRoom(n, k) == Clamped(n) <= HeapTop - HeapBase /\ Upto(top, k) + Clamped(n) <= HeapTop

\* Above the bump pointer.  The gap that aligning leaves is in no block, and with the table
\* full neither is what is handed out.
HeapBump(n, k) ==
  /\ Usable(n, k) = {} /\ HeapRoom(n, k)
  /\ LET a == Upto(top, k)
     IN  /\ top' = a + Clamped(n)
         /\ blocks' = IF Entries < HeapMaxBlocks
                      THEN blocks \cup {Block(a, a + Clamped(n))} ELSE blocks
         /\ Grants(a, n, k)
  /\ UNCHANGED spare

HeapRefuses(n, k) ==
  Usable(n, k) = {} /\ ~HeapRoom(n, k) /\ UNCHANGED heapVars

-----------------------------------------------------------------------------
(* xbox_HeapFree *)

\* A freed block and the free ones that touch it.
Joined(b) == {b} \cup {h \in spare : BlockEnd(h) = b.addr \/ h.addr = BlockEnd(b)}

\* The title gives back what it was given: the block of that address is joined with its
\* free neighbours, and at the very top lowers the bump pointer.  Memory in no table is not
\* found, and stays taken.
HeapFree(g) ==
  /\ g \in grants /\ grants' = grants \ {g}
  /\ \/ /\ \A b \in blocks : b.addr # g.addr
        /\ UNCHANGED <<blocks, spare, top>>
     \/ \E b \in blocks :
          /\ b.addr = g.addr /\ blocks' = blocks \ {b}
          /\ \E first, final \in Joined(b) :
               /\ \A c \in Joined(b) : first.addr <= c.addr /\ BlockEnd(c) <= BlockEnd(final)
               /\ IF BlockEnd(final) = top
                  THEN spare' = spare \ Joined(b) /\ top' = first.addr
                  ELSE /\ spare' = (spare \ Joined(b))
                                     \cup {Block(first.addr, BlockEnd(final))}
                       /\ top' = top
  /\ UNCHANGED granted

\* An address that is not the start of a live block: nothing is freed.
HeapFreeIgnored(a) ==
  (\A b \in blocks : b.addr # a) /\ (\A g \in grants : g.addr # a) /\ UNCHANGED heapVars

HeapNext ==
  \/ \E n \in HeapSizes, k \in HeapAligns : HeapReuse(n, k) \/ HeapBump(n, k) \/ HeapRefuses(n, k)
  \/ \E g \in grants : HeapFree(g)
  \/ \E a \in HeapBase .. HeapTop : HeapFreeIgnored(a)

HeapSpec == HeapInit /\ [][HeapNext]_heapVars

-----------------------------------------------------------------------------
(* Properties. *)

Apart(b, c) == BlockEnd(b) <= c.addr \/ BlockEnd(c) <= b.addr

\* Every block has a size, every grant one of the sizes asked for, and the bump pointer
\* stays inside the heap (xbox_HeapAlloc).
HeapTypeOK ==
  /\ blocks \subseteq [addr : Nat, size : Nat \ {0}]
  /\ spare \subseteq [addr : Nat, size : Nat \ {0}]
  /\ top \in HeapBase .. HeapTop
  /\ grants \subseteq [addr : Nat, size : Nat \ {0}, align : Nat \ {0}, serial : Nat]
  /\ granted \in 0 .. MaxGrants

\* No byte the title holds is in a second grant or in a free block, after any sequence of
\* splits, merges, absorbed slack and blocks the full table does not know (xbox_HeapAlloc,
\* xbox_HeapFree), and none is above the bump pointer.
HeapNoOverlap ==
  /\ \A b \in blocks \cup spare \cup grants : HeapBase <= b.addr /\ BlockEnd(b) <= top
  /\ \A b \in grants, c \in grants \cup spare : b # c => Apart(b, c)
  /\ \A b, c \in blocks \cup spare : b # c => Apart(b, c)
  /\ \A b \in blocks, g \in grants : b.addr # g.addr => Apart(b, g)

\* The table says of a live block at least what the title asked for (xbox_HeapBlockSize),
\* and every live block is some grant's.
BlocksCoverGrants ==
  /\ \A b \in blocks : \E g \in grants : g.addr = b.addr
  /\ \A b \in blocks, g \in grants : g.addr = b.addr => g.size <= b.size

\* Free memory does not crumble: no two free blocks touch, and none touches the bump
\* pointer, so that whatever free run the table knows of is found as one block
\* ("Blocks stay in address order so coalescing in xbox_HeapFree keeps working by index").
SpareIsMerged ==
  /\ \A b, c \in spare : BlockEnd(b) # c.addr
  /\ \A b \in spare : BlockEnd(b) < top

\* The caller names the alignment it needs ("Alignment must be a power of 2 (minimum 4)",
\* xbox_memory_layout.h): what it gets has it.
GrantsAligned == \A g \in grants : g.addr % g.align = 0

\* The heap implements the abstract allocator: grants are what the title was given.
AbstractHeap == INSTANCE Allocator WITH
  First <- HeapBase, Last <- HeapTop,
  held <- {[addr |-> g.addr, size |-> g.size, serial |-> g.serial] : g \in grants},
  issued <- granted
AbstractHeapSpec == AbstractHeap!Spec

\* The block table tiles the heap and knows enough of every grant, after any series of splits
\* at both ends, merges and give-backs (xbox_HeapAlloc, xbox_HeapFree).
HeapInv == HeapTypeOK /\ HeapNoOverlap /\ BlocksCoverGrants /\ SpareIsMerged
=============================================================================
