-------------------------------- MODULE Heap --------------------------------
(***************************************************************************)
(* The kernel heap (ostd/mm/heap.rs): an intrusive first-fit free list     *)
(* without coalescing.  A region of the list begins with its own list      *)
(* node, so what the list says is written in the memory it describes.      *)
(* Both operations hold a spinlock that masks interrupts: each is a step.  *)
(***************************************************************************)
EXTENDS Integers, Sequences, Functions

CONSTANTS HeapStart, HeapSize,   \* what init is given
          Layouts                \* the layouts the kernel asks for

(* Rust's Layout: a size, not zero, and an alignment, a power of two: it   *)
(* is 1, 2 or 4, or a multiple of 8.                                       *)
ASSUME HeapAssumption ==
  /\ HeapStart \in Nat /\ HeapSize \in Nat
  /\ Layouts \subseteq [size : Nat \ {0}, align : Nat \ {0}]
  /\ \A layout \in Layouts : layout.align \in {1, 2, 4} \/ layout.align % 8 = 0

NodeSize == 16     \* size_of::<ListNode>()
NodeAlign == 8     \* align_of::<ListNode>()

VARIABLES free,    \* the free list, from head.next on: address and size of every region
          live,    \* history: the blocks the callers hold, with the layout they asked for
          used     \* HEAP_USED_BYTES

vars == <<free, live, used>>

(* x rounded up to a multiple of n.                                        *)
RoundUp(x, n) == x + ((n - (x % n)) % n)

add_free_region(list, addr, size) ==
  LET aligned_addr == RoundUp(addr, NodeAlign)
      padding == aligned_addr - addr
  IN IF size <= padding + NodeSize THEN list
     ELSE <<[addr |-> aligned_addr, size |-> size - padding]>> \o list

(* What alloc and dealloc make of a layout.                                *)
Align(layout) == IF layout.align > NodeAlign THEN layout.align ELSE NodeAlign

MinSize(layout) ==
  LET size == RoundUp(layout.size, Align(layout)) IN IF size > NodeSize THEN size ELSE NodeSize

FaultyFits(region, size, align) == region.addr + size <= region.addr + region.size

Fits(region, size, align) == RoundUp(region.addr, align) + size <= region.addr + region.size

(* find_region: the first one in the list that fits is taken out of it.    *)
FirstFit(i, size, align) ==
  /\ i \in 1..Len(free) /\ Fits(free[i], size, align)
  /\ \A j \in 1..(i - 1) : ~ Fits(free[j], size, align)

(* The node before it points to the one behind it.                         *)
Unlink(list, i) == SubSeq(list, 1, i - 1) \o SubSeq(list, i + 1, Len(list))

FaultySplit(i, alloc_end) ==
  LET rest == Unlink(free, i)
      region_end == free[i].addr + free[i].size
  IN IF region_end - alloc_end >= 2 * NodeSize
     THEN add_free_region(rest, alloc_end, region_end - alloc_end) ELSE rest

(* What is left behind the block goes back to the list, what lies before   *)
(* it is not seen again.                                                   *)
Split(i, alloc_end) ==
  LET rest == Unlink(free, i)
      region_end == free[i].addr + free[i].size
  IN IF region_end - alloc_end >= NodeSize
     THEN add_free_region(rest, alloc_end, region_end - alloc_end) ELSE rest

Init ==
  /\ free = add_free_region(<<>>, HeapStart, HeapSize)
  /\ live = {} /\ used = 0

(* When no region fits alloc returns null and the kernel halts.            *)
alloc(layout) ==
  \E i \in 1..Len(free) :
    LET alloc_start == RoundUp(free[i].addr, Align(layout)) IN
    /\ FirstFit(i, MinSize(layout), Align(layout))
    /\ free' = Split(i, alloc_start + MinSize(layout))
    /\ live' = live \union {[addr |-> alloc_start, size |-> MinSize(layout), layout |-> layout]}
    /\ used' = used + MinSize(layout)

dealloc(block) ==
  /\ free' = add_free_region(free, block.addr, MinSize(block.layout))
  /\ live' = live \ {block}
  /\ used' = used - MinSize(block.layout)

Next ==
  \/ \E layout \in Layouts : alloc(layout)
  \/ \E block \in live : dealloc(block)

Spec == Init /\ [][Next]_vars

-----------------------------------------------------------------------------
Region == [addr : Nat, size : Nat]
Block == [addr : Nat, size : Nat, layout : Layouts]

(* Types: a list of regions, a set of blocks, a counter.                   *)
TypeOK == free \in Seq(Region) /\ live \subseteq Block /\ used \in Int

Apart(a, b) == a.addr + a.size <= b.addr \/ b.addr + b.size <= a.addr
InHeap(a) == HeapStart <= a.addr /\ a.addr + a.size <= HeapStart + HeapSize

(* No byte is given out twice, or given out and in the free list, or twice *)
(* in the list, or outside of the heap, whatever the order of alloc and    *)
(* dealloc: a block handed to the kernel is its own until it gives it back.*)
BlocksApart ==
  /\ \A a \in live : InHeap(a) /\ (\A b \in live : a = b \/ Apart(a, b))
  /\ \A i \in 1..Len(free) : InHeap(free[i]) /\ (\A b \in live : Apart(free[i], b))
  /\ \A i, j \in 1..Len(free) : i = j \/ Apart(free[i], free[j])

(* A list node is written into every free region: it is aligned for it and *)
(* larger than it, so that linking a region overwrites nothing else.       *)
NodesFit == \A i \in 1..Len(free) : free[i].addr % NodeAlign = 0 /\ free[i].size > NodeSize

(* What GlobalAlloc promises: a block is as large as its caller asked for, *)
(* and starts at a multiple of the alignment it asked for.                 *)
BlocksServe == \A b \in live : b.layout.size <= b.size /\ b.addr % b.layout.align = 0

(* HEAP_USED_BYTES, which the monitor shows, is the sum of the blocks'     *)
(* sizes: alloc and dealloc compute the same size from the same layout.    *)
UsedExact == used = SumFunction([b \in live |-> b.size])

(* The bytes of the free list.                                             *)
Total(list) == SumFunction([i \in DOMAIN list |-> list[i].size])

(* What a step makes unusable is bounded: dealloc gives every block back   *)
(* but one of the size of a list node, and alloc loses less than its       *)
(* alignment before the block and at most a list node behind it, while the *)
(* blocks serve their callers and HEAP_USED_BYTES does not drift.          *)
LossBounded ==
  [][LET lost == (Total(free) + used) - (Total(free') + used') IN
     /\ UsedExact' /\ BlocksServe'
     /\ \A b \in live' \ live : lost \in 0..(Align(b.layout) - 1 + NodeSize)
     /\ \A b \in live \ live' : lost = IF b.size > NodeSize THEN 0 ELSE NodeSize]_vars
=============================================================================
