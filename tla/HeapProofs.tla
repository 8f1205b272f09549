----------------------------- MODULE HeapProofs -----------------------------
(***************************************************************************)
(* For a heap of any size, at any address, and any layouts: blocks and     *)
(* free regions stay apart and inside the heap, and every list node fits   *)
(* the region it is written into.                                          *)
(***************************************************************************)
EXTENDS Heap, SequenceTheorems, FiniteSetTheorems, TLAPS

(* Rounding up adds less than the alignment. *)
LEMMA RoundUpBounds ==
  ASSUME NEW x \in Nat, NEW n \in Nat \ {0}
  PROVE  RoundUp(x, n) \in Nat /\ x <= RoundUp(x, n) /\ RoundUp(x, n) < x + n
<1>1. \A y \in Int : y % n \in 0..(n - 1)
  OBVIOUS
<1> QED
  BY <1>1 DEF RoundUp

(* A region the allocator links is aligned for its list node. *)
LEMMA RoundUpAligns ==
  ASSUME NEW x \in Nat
  PROVE  RoundUp(x, NodeAlign) % NodeAlign = 0
BY DEF RoundUp, NodeAlign

(* A part of a region is apart from whatever the region is apart from. *)
LEMMA Inside ==
  ASSUME NEW r, NEW part, NEW b, Apart(r, b),
         r.addr \in Nat, r.size \in Nat, part.addr \in Nat, part.size \in Nat, b.addr \in Nat, b.size \in Nat,
         r.addr <= part.addr, part.addr + part.size <= r.addr + r.size
  PROVE  Apart(part, b) /\ Apart(b, part)
BY DEF Apart

(* What BlocksApart and NodesFit say, of a list and a set of blocks. *)
Sound(list, blocks) ==
  /\ \A a \in blocks : InHeap(a) /\ (\A b \in blocks : a = b \/ Apart(a, b))
  /\ \A i \in 1..Len(list) : InHeap(list[i]) /\ (\A b \in blocks : Apart(list[i], b))
  /\ \A i, j \in 1..Len(list) : i = j \/ Apart(list[i], list[j])
  /\ \A i \in 1..Len(list) : list[i].addr % NodeAlign = 0 /\ list[i].size > NodeSize

(* add_free_region puts a region that is apart from everything at the head *)
(* of the list, or drops it.                                               *)
LEMMA AddKeepsSound ==
  ASSUME NEW list \in Seq(Region), NEW blocks \in SUBSET Block, Sound(list, blocks),
         NEW r \in Region, InHeap(r),
         \A b \in blocks : Apart(r, b),
         \A i \in 1..Len(list) : Apart(r, list[i])
  PROVE  /\ add_free_region(list, r.addr, r.size) \in Seq(Region)
         /\ Sound(add_free_region(list, r.addr, r.size), blocks)
<1> DEFINE at == RoundUp(r.addr, NodeAlign)
           new == [addr |-> at, size |-> r.size - (at - r.addr)]
           longer == <<new>> \o list
<1>1. at \in Nat /\ r.addr <= at /\ at % NodeAlign = 0
  BY RoundUpBounds, RoundUpAligns DEF Region, NodeAlign
<1>2. CASE r.size <= (at - r.addr) + NodeSize
  BY Zenon, <1>2 DEF add_free_region
<1>3. CASE ~ (r.size <= (at - r.addr) + NodeSize)
  <2>1. add_free_region(list, r.addr, r.size) = longer
    BY Zenon, <1>3 DEF add_free_region
  <2>2. new \in Region /\ new.size > NodeSize /\ new.addr % NodeAlign = 0
    BY <1>1, <1>3 DEF Region, NodeSize
  <2>3. InHeap(new)
    BY <1>1, <2>2, HeapAssumption DEF InHeap, Region
  <2>8. /\ r.addr \in Nat /\ r.size \in Nat /\ new.addr \in Nat /\ new.size \in Nat
        /\ r.addr <= new.addr /\ new.addr + new.size <= r.addr + r.size
    BY <1>1, <2>2 DEF Region
  <2>4. ASSUME NEW b \in blocks PROVE Apart(new, b)
    <3>1. b.addr \in Nat /\ b.size \in Nat /\ Apart(r, b)
      BY Zenon DEF Block
    <3> HIDE DEF new
    <3> QED
      BY Zenon, <2>8, <3>1, Inside
  <2>5. \A i \in 1..Len(list) : list[i] \in Region /\ Apart(new, list[i]) /\ Apart(list[i], new)
    <3> SUFFICES ASSUME NEW i \in 1..Len(list)
                 PROVE  list[i] \in Region /\ Apart(new, list[i]) /\ Apart(list[i], new)
      BY Zenon
    <3>1. list[i] \in Region /\ Apart(r, list[i])
      OBVIOUS
    <3>2. list[i].addr \in Nat /\ list[i].size \in Nat
      BY Zenon, <3>1 DEF Region
    <3> HIDE DEF new
    <3> QED
      BY Zenon, <2>8, <3>1, <3>2, Inside
  <2> HIDE DEF new
  <2>6. /\ longer \in Seq(Region) /\ Len(longer) = Len(list) + 1
        /\ longer[1] = new
        /\ \A i \in 2..Len(longer) : i - 1 \in 1..Len(list) /\ longer[i] = list[i - 1]
    BY <2>2
  <2> HIDE DEF longer
  <2>7. \A i \in 1..Len(longer) :
          /\ InHeap(longer[i])
          /\ \A b \in blocks : Apart(longer[i], b)
          /\ longer[i].addr % NodeAlign = 0 /\ longer[i].size > NodeSize
    <3> SUFFICES ASSUME NEW i \in 1..Len(longer)
                 PROVE  /\ InHeap(longer[i])
                        /\ \A b \in blocks : Apart(longer[i], b)
                        /\ longer[i].addr % NodeAlign = 0 /\ longer[i].size > NodeSize
      BY Zenon
    <3>1. CASE i = 1
      BY Zenon, <3>1, <2>2, <2>3, <2>4, <2>6
    <3>2. CASE i # 1
      <4>1. i - 1 \in 1..Len(list) /\ longer[i] = list[i - 1]
        BY <3>2, <2>6
      <4> QED
        BY Zenon, <4>1 DEF Sound
    <3> QED
      BY Zenon, <3>1, <3>2
  <2>9. \A i, j \in 1..Len(longer) : i = j \/ Apart(longer[i], longer[j])
    <3> SUFFICES ASSUME NEW i \in 1..Len(longer), NEW j \in 1..Len(longer), i # j
                 PROVE  Apart(longer[i], longer[j])
      BY Zenon
    <3>1. CASE i = 1
      BY <3>1, <2>5, <2>6
    <3>2. CASE j = 1
      BY <3>2, <2>5, <2>6
    <3>3. CASE i # 1 /\ j # 1
      <4>1. /\ i - 1 \in 1..Len(list) /\ longer[i] = list[i - 1]
            /\ j - 1 \in 1..Len(list) /\ longer[j] = list[j - 1]
            /\ i - 1 # j - 1
        BY <3>3, <2>6
      <4> QED
        BY Zenon, <4>1 DEF Sound
    <3> QED
      BY Zenon, <3>1, <3>2, <3>3
  <2> QED
    BY Zenon, <2>1, <2>6, <2>7, <2>9 DEF Sound
<1> QED
  BY Zenon, <1>2, <1>3

(* What find_region leaves of the list: all but the region it takes, in    *)
(* their order.                                                            *)
LEMMA UnlinkShape ==
  ASSUME NEW list \in Seq(Region), NEW i \in 1..Len(list)
  PROVE  /\ Unlink(list, i) \in Seq(Region) /\ Len(Unlink(list, i)) = Len(list) - 1
         /\ \A k \in 1..(Len(list) - 1) : Unlink(list, i)[k] = list[IF k < i THEN k ELSE k + 1]
<1> DEFINE was(k) == IF k < i THEN k ELSE k + 1
           front == SubSeq(list, 1, i - 1)
           back == SubSeq(list, i + 1, Len(list))
<1>1. /\ front \in Seq(Region) /\ Len(front) = i - 1
      /\ \A k \in 1..(i - 1) : front[k] = list[k]
  OBVIOUS
<1>2. /\ back \in Seq(Region) /\ Len(back) = Len(list) - i
      /\ \A k \in 1..(Len(list) - i) : back[k] = list[k + i]
  OBVIOUS
<1>3. Unlink(list, i) = front \o back
  BY Zenon DEF Unlink
<1> HIDE DEF front, back
<1>4. /\ front \o back \in Seq(Region) /\ Len(front \o back) = Len(list) - 1
      /\ \A k \in 1..(Len(list) - 1) : (front \o back)[k] = IF k < i THEN front[k] ELSE back[k - (i - 1)]
  <2>1. /\ front \o back \in Seq(Region) /\ Len(front \o back) = Len(front) + Len(back)
        /\ \A k \in 1..(Len(front) + Len(back)) :
             (front \o back)[k] = IF k <= Len(front) THEN front[k] ELSE back[k - Len(front)]
    BY <1>1, <1>2, ConcatProperties
  <2>2. Len(front) + Len(back) = Len(list) - 1
    BY <1>1, <1>2
  <2> QED
    BY SMTT(30), <1>1, <1>2, <2>1, <2>2
<1>5. ASSUME NEW k \in 1..(Len(list) - 1)
      PROVE  (front \o back)[k] = list[was(k)]
  <2>1. CASE k < i
    BY <1>1, <1>4, <2>1
  <2>2. CASE ~ (k < i)
    <3>1. k - (i - 1) \in 1..(Len(list) - i) /\ (k - (i - 1)) + i = k + 1
      BY <2>2
    <3> QED
      BY Zenon, <1>2, <1>4, <2>2, <3>1
  <2> QED
    BY <2>1, <2>2
<1> QED
  BY <1>3, <1>4, <1>5

(* Taking a region out of the list keeps the others where they are, and    *)
(* all of them are apart from it.                                          *)
LEMMA RemoveKeepsSound ==
  ASSUME NEW list \in Seq(Region), NEW blocks \in SUBSET Block, Sound(list, blocks),
         NEW i \in 1..Len(list)
  PROVE  /\ Unlink(list, i) \in Seq(Region)
         /\ Sound(Unlink(list, i), blocks)
         /\ \A k \in 1..Len(Unlink(list, i)) : Apart(list[i], Unlink(list, i)[k])
<1> DEFINE rest == Unlink(list, i)
           was(k) == IF k < i THEN k ELSE k + 1
<1>1. /\ rest \in Seq(Region) /\ Len(rest) = Len(list) - 1
      /\ \A k \in 1..Len(rest) : rest[k] = list[was(k)]
  <2>1. /\ rest \in Seq(Region) /\ Len(rest) = Len(list) - 1
        /\ \A k \in 1..(Len(list) - 1) : rest[k] = list[was(k)]
    BY UnlinkShape, Zenon
  <2> HIDE DEF rest, was
  <2> QED
    BY Zenon, <2>1
<1>2. \A k \in 1..Len(rest) : was(k) \in 1..Len(list) /\ was(k) # i
  BY <1>1
<1>3. \A k, m \in 1..Len(rest) : k # m => was(k) # was(m)
  BY <1>1
<1> HIDE DEF rest, was
<1>4. \A k \in 1..Len(rest) : /\ InHeap(rest[k])
                              /\ \A b \in blocks : Apart(rest[k], b)
                              /\ rest[k].addr % NodeAlign = 0 /\ rest[k].size > NodeSize
                              /\ Apart(list[i], rest[k])
  BY Zenon, <1>1, <1>2 DEF Sound
<1>5. \A k, m \in 1..Len(rest) : k = m \/ Apart(rest[k], rest[m])
  BY Zenon, <1>1, <1>2, <1>3 DEF Sound
<1>6. Sound(rest, blocks)
  BY Zenon, <1>4, <1>5 DEF Sound
<1> QED
  BY Zenon, <1>1, <1>4, <1>6 DEF rest

(* The inductive invariant: a block also has the size its layout leads to, *)
(* which is what dealloc computes again from the layout.                   *)
HeapInv ==
  /\ TypeOK
  /\ Sound(free, live)
  /\ \A b \in live : b.size = MinSize(b.layout)

LEMMA MinSizeType ==
  ASSUME NEW layout \in Layouts
  PROVE  /\ MinSize(layout) \in Nat /\ MinSize(layout) >= layout.size /\ MinSize(layout) >= NodeSize
         /\ Align(layout) \in Nat \ {0}
<1>1. layout.size \in Nat /\ Align(layout) \in Nat \ {0}
  BY HeapAssumption DEF Align, NodeAlign
<1>2. RoundUp(layout.size, Align(layout)) \in Nat /\ layout.size <= RoundUp(layout.size, Align(layout))
  BY <1>1, RoundUpBounds
<1> QED
  BY <1>1, <1>2 DEF MinSize, NodeSize

(* init makes one region of the whole heap. *)
LEMMA HeapInit == Init => HeapInv
<1> SUFFICES ASSUME Init PROVE HeapInv
  BY Zenon
<1> DEFINE r == [addr |-> HeapStart, size |-> HeapSize]
<1>1. r \in Region /\ InHeap(r) /\ Sound(<<>>, {}) /\ <<>> \in Seq(Region)
  BY HeapAssumption DEF Region, InHeap, Sound
<1>2. free = add_free_region(<<>>, r.addr, r.size)
  BY Zenon DEF Init
<1>3. free \in Seq(Region) /\ Sound(free, {})
  <2> HIDE DEF r
  <2>1. {} \in SUBSET Block /\ \A i \in 1..Len(<<>>) : Apart(r, <<>>[i])
    OBVIOUS
  <2> QED
    BY <1>1, <1>2, <2>1, AddKeepsSound
<1> QED
  BY <1>3 DEF Init, HeapInv, TypeOK

(* alloc splits the region it takes into the block and what goes back.     *)
LEMMA AllocKeeps ==
  ASSUME HeapInv, NEW layout \in Layouts, alloc(layout)
  PROVE  HeapInv'
<1>1. PICK i \in 1..Len(free) :
        /\ FirstFit(i, MinSize(layout), Align(layout))
        /\ free' = Split(i, RoundUp(free[i].addr, Align(layout)) + MinSize(layout))
        /\ live' = live \union {[addr |-> RoundUp(free[i].addr, Align(layout)),
                                 size |-> MinSize(layout), layout |-> layout]}
        /\ used' = used + MinSize(layout)
  BY Zenon DEF alloc
<1> DEFINE at == RoundUp(free[i].addr, Align(layout))
           size == MinSize(layout)
           new == [addr |-> at, size |-> size, layout |-> layout]
           region == free[i]
           rest == Unlink(free, i)
           tail == [addr |-> at + size, size |-> (region.addr + region.size) - (at + size)]
<1>2. region \in Region /\ free \in Seq(Region) /\ live \in SUBSET Block
  BY DEF HeapInv, TypeOK
<1>3. size \in Nat /\ size >= NodeSize /\ at \in Nat /\ region.addr <= at
  <2>1. Align(layout) \in Nat \ {0} /\ MinSize(layout) \in Nat /\ MinSize(layout) >= NodeSize
    BY Zenon, MinSizeType
  <2> QED
    BY <1>2, <2>1, RoundUpBounds DEF Region
<1>4. at + size <= region.addr + region.size
  BY Zenon, <1>1 DEF FirstFit, Fits
<1>5. /\ rest \in Seq(Region) /\ Sound(rest, live)
      /\ \A k \in 1..Len(rest) : Apart(region, rest[k]) /\ rest[k] \in Region
  BY <1>2, RemoveKeepsSound DEF HeapInv
<1>6. InHeap(region) /\ \A b \in live : Apart(region, b)
  BY Zenon DEF HeapInv, Sound
<1>7. new \in Block
  BY Zenon, <1>3 DEF Block
<1>10. region.addr \in Nat /\ region.size \in Nat
  BY Zenon, <1>2 DEF Region
<1>11. /\ new.addr \in Nat /\ new.size \in Nat /\ region.addr <= new.addr
       /\ new.addr + new.size <= region.addr + region.size
  BY Zenon, <1>3, <1>4
<1>12. /\ tail.addr \in Nat /\ tail.size \in Nat /\ region.addr <= tail.addr
       /\ tail.addr + tail.size <= region.addr + region.size
  BY SMTT(30), <1>3, <1>4, <1>10
<1> HIDE DEF rest
<1> DEFINE blocks == live \union {new}
<1>8. Sound(rest, blocks)
  <2>1. InHeap(new)
    <3>1. HeapStart <= region.addr /\ region.addr + region.size <= HeapStart + HeapSize
      BY Zenon, <1>6 DEF InHeap
    <3>2. HeapStart \in Nat /\ HeapSize \in Nat
      BY Zenon, HeapAssumption
    <3> HIDE DEF new, region
    <3> QED
      BY SMTT(30), <1>10, <1>11, <3>1, <3>2 DEF InHeap
  <2>2. ASSUME NEW b \in live PROVE Apart(new, b) /\ Apart(b, new)
    <3>1. b.addr \in Nat /\ b.size \in Nat /\ Apart(region, b)
      BY Zenon, <1>2, <1>6 DEF Block
    <3> QED
      BY <1>10, <1>11, <3>1, Inside
  <2>3. ASSUME NEW k \in 1..Len(rest) PROVE Apart(rest[k], new)
    <3>1. rest[k].addr \in Nat /\ rest[k].size \in Nat /\ Apart(region, rest[k])
      BY Zenon, <1>5 DEF Region
    <3> QED
      BY <1>10, <1>11, <3>1, Inside
  <2> HIDE DEF new
  <2> QED
    BY Zenon, <1>5, <2>1, <2>2, <2>3 DEF Sound
<1>9. free' \in Seq(Region) /\ Sound(free', blocks)
  <2>1. CASE (region.addr + region.size) - (at + size) >= NodeSize
    <3>1. tail \in Region /\ InHeap(tail)
      <4>1. tail \in Region
        BY Zenon, <1>12 DEF Region
      <4>2. HeapStart <= region.addr /\ region.addr + region.size <= HeapStart + HeapSize
        BY Zenon, <1>6 DEF InHeap
      <4>3. HeapStart \in Nat /\ HeapSize \in Nat
        BY Zenon, HeapAssumption
      <4> HIDE DEF tail, region
      <4> QED
        BY SMTT(30), <1>10, <1>12, <4>1, <4>2, <4>3 DEF InHeap
    <3>2. ASSUME NEW b \in live PROVE Apart(tail, b)
      <4>1. b.addr \in Nat /\ b.size \in Nat /\ Apart(region, b)
        BY Zenon, <1>2, <1>6 DEF Block
      <4> QED
        BY <1>10, <1>12, <4>1, Inside
    <3>3. Apart(tail, new)
      BY <1>2, <1>3, <1>4 DEF Apart, Region
    <3>4. ASSUME NEW k \in 1..Len(rest) PROVE Apart(tail, rest[k])
      <4>1. rest[k].addr \in Nat /\ rest[k].size \in Nat /\ Apart(region, rest[k])
        BY Zenon, <1>5 DEF Region
      <4> QED
        BY <1>10, <1>12, <4>1, Inside
    <3>5. free' = add_free_region(rest, tail.addr, tail.size)
      BY Zenon, <1>1, <2>1 DEF Split, rest
    <3>6. blocks \in SUBSET Block /\ \A b \in blocks : Apart(tail, b)
      BY Zenon, <1>2, <1>7, <3>2, <3>3
    <3> HIDE DEF tail, blocks
    <3> QED
      BY Zenon, <1>5, <1>8, <3>1, <3>4, <3>5, <3>6, AddKeepsSound
  <2>2. CASE ~ ((region.addr + region.size) - (at + size) >= NodeSize)
    <3>1. free' = rest
      BY Zenon, <1>1, <2>2 DEF Split, rest
    <3> QED
      BY Zenon, <3>1, <1>5, <1>8
  <2> QED
    BY Zenon, <2>1, <2>2
<1>13. live' = blocks /\ used' \in Int
  BY <1>1, <1>3 DEF HeapInv, TypeOK
<1>14. \A b \in blocks : b.size = MinSize(b.layout) /\ b \in Block
  BY <1>2, <1>7 DEF HeapInv
<1> HIDE DEF blocks
<1> QED
  BY Zenon, <1>9, <1>13, <1>14 DEF HeapInv, TypeOK

(* dealloc links the bytes of a block, which no other block has.           *)
LEMMA DeallocKeeps ==
  ASSUME HeapInv, NEW block \in live, dealloc(block)
  PROVE  HeapInv'
<1> DEFINE r == [addr |-> block.addr, size |-> block.size]
           blocks == live \ {block}
<1>1. block \in Block /\ free \in Seq(Region) /\ live \in SUBSET Block /\ block.size = MinSize(block.layout)
  BY Zenon DEF HeapInv, TypeOK
<1>2. r \in Region /\ InHeap(r)
  BY Zenon, <1>1 DEF Block, Region, InHeap, HeapInv, Sound
<1>3. \A b \in blocks : Apart(r, b)
  BY Zenon DEF Apart, HeapInv, Sound
<1>4. \A i \in 1..Len(free) : Apart(r, free[i])
  BY Zenon DEF Apart, HeapInv, Sound
<1>5. Sound(free, blocks)
  BY Zenon DEF HeapInv, Sound
<1>6. free' = add_free_region(free, r.addr, r.size) /\ live' = blocks
  BY Zenon, <1>1 DEF dealloc
<1>7. free' \in Seq(Region) /\ Sound(free', blocks)
  <2> HIDE DEF r, blocks
  <2>1. blocks \in SUBSET Block
    BY Zenon, <1>1 DEF blocks
  <2> QED
    BY Zenon, <1>1, <1>2, <1>3, <1>4, <1>5, <1>6, <2>1, AddKeepsSound
<1>8. used' \in Int
  <2>1. MinSize(block.layout) \in Nat
    BY Zenon, <1>1, MinSizeType DEF Block
  <2> QED
    BY <2>1 DEF dealloc, HeapInv, TypeOK
<1> QED
  BY Zenon, <1>1, <1>6, <1>7, <1>8 DEF HeapInv, TypeOK

(* The invariant of the kernel heap holds in every reachable state. *)
THEOREM HeapInvariant == Spec => []HeapInv
<1>1. HeapInv /\ [Next]_vars => HeapInv'
  <2> SUFFICES ASSUME HeapInv, [Next]_vars PROVE HeapInv'
    BY Zenon
  <2>1. CASE Next
    BY Zenon, <2>1, AllocKeeps, DeallocKeeps DEF Next
  <2>2. CASE UNCHANGED vars
    BY Zenon, <2>2 DEF vars, HeapInv, TypeOK, Sound, InHeap, Apart
  <2> QED
    BY Zenon, <2>1, <2>2
<1> QED
  BY HeapInit, <1>1, PTL DEF Spec

(* The kernel heap never hands out a byte that is in use or in its free    *)
(* list, for every heap, every set of layouts and every order of alloc and *)
(* dealloc.                                                                *)
THEOREM HeapBlocksApart == Spec => []BlocksApart
<1>1. HeapInv => BlocksApart
  BY Zenon DEF HeapInv, Sound, BlocksApart
<1> QED
  BY HeapInvariant, <1>1, PTL

(* Every list node is written inside the free region it describes. *)
THEOREM HeapNodesFit == Spec => []NodesFit
<1>1. HeapInv => NodesFit
  BY Zenon DEF HeapInv, Sound, NodesFit
<1> QED
  BY HeapInvariant, <1>1, PTL

-----------------------------------------------------------------------------
LEMMA RoundUpMultiple ==
  ASSUME NEW x \in Nat, NEW n \in Nat \ {0}
  PROVE  RoundUp(x, n) % n = 0
<1> DEFINE q == x \div n
           r == x % n
<1>1. q \in Nat /\ r \in 0..(n - 1) /\ x = q * n + r
  BY SMTT(30)
<1>2. CASE r = 0
  <2>1. (n - r) % n = 0
    BY <1>2
  <2> QED
    BY <1>2, <2>1 DEF RoundUp
<1>3. CASE r # 0
  <2> HIDE DEF q, r
  <2>1. (n - r) % n = n - r
    BY <1>1, <1>3
  <2>2. (q + 1) * n = q * n + n /\ q + 1 \in Nat
    BY <1>1
  <2>3. x + (n - r) = (q + 1) * n
    BY <1>1, <2>2
  <2>4. ((q + 1) * n) % n = 0
    BY <2>2, SMTT(30)
  <2>5. RoundUp(x, n) = x + ((n - r) % n)
    BY Zenon DEF RoundUp, r
  <2> QED
    BY Zenon, <2>1, <2>3, <2>4, <2>5
<1> QED
  BY Zenon, <1>2, <1>3

(* Every block the heap has given out is as large and aligned as asked,    *)
(* for alignments below that of a list node and above it.                  *)
THEOREM HeapBlocksServe == Spec => []BlocksServe
<1>1. Init => BlocksServe
  BY Zenon DEF Init, BlocksServe
<1>2. ASSUME HeapInv, BlocksServe, [Next]_vars PROVE BlocksServe'
  <2>1. ASSUME NEW layout \in Layouts, alloc(layout) PROVE BlocksServe'
    <3>1. PICK i \in 1..Len(free) :
            live' = live \union {[addr |-> RoundUp(free[i].addr, Align(layout)),
                                  size |-> MinSize(layout), layout |-> layout]}
      BY Zenon, <2>1 DEF alloc
    <3>2. free[i].addr \in Nat
      <4>1. free \in Seq(Region)
        BY <1>2, Zenon DEF HeapInv, TypeOK
      <4>2. free[i] \in Region
        BY <4>1, SMT
      <4> QED
        BY Zenon, <4>2 DEF Region
    <3> DEFINE at == RoundUp(free[i].addr, Align(layout))
    <3>3. Align(layout) \in Nat \ {0} /\ layout.size <= MinSize(layout)
      BY MinSizeType, Zenon
    <3>4. at \in Nat /\ at % Align(layout) = 0
      BY <3>2, <3>3, RoundUpBounds, RoundUpMultiple, Zenon
    <3>5. at % layout.align = 0
      <4> HIDE DEF at
      <4>1. layout.align \in Nat \ {0}
        BY Zenon, HeapAssumption
      <4>2. CASE layout.align > 8
        BY Zenon, <3>4, <4>1, <4>2 DEF Align, NodeAlign
      <4>3. CASE layout.align <= 8
        <5>1. at % 8 = 0
          BY <3>4, <4>1, <4>3 DEF Align, NodeAlign
        <5>2. layout.align \in {1, 2, 4, 8}
          <6>1. layout.align \in {1, 2, 4} \/ layout.align % 8 = 0
            BY Zenon, HeapAssumption
          <6> QED
            BY <4>1, <4>3, <6>1
        <5> QED
          BY <3>4, <5>1, <5>2
      <4> QED
        BY <4>1, <4>2, <4>3
    <3> HIDE DEF at
    <3> QED
      BY <1>2, <3>1, <3>3, <3>5 DEF BlocksServe, at
  <2>2. ASSUME NEW block \in live, dealloc(block) PROVE BlocksServe'
    BY Zenon, <1>2, <2>2 DEF dealloc, BlocksServe
  <2> QED
    BY Zenon, <1>2, <2>1, <2>2 DEF Next, vars, BlocksServe
<1> QED
  BY HeapInvariant, <1>1, <1>2, PTL DEF Spec

-----------------------------------------------------------------------------
(* Sums over finite sets, which the community modules define by a choice   *)
(* of the order in which the elements are taken: the order does not        *)
(* matter.                                                                 *)
LEMMA Counting ==
  ASSUME NEW n \in Nat, NEW S, 0 \in S, \A i \in 0 .. n - 1 : i \in S => i + 1 \in S
  PROVE  n \in S
<1> SUFFICES ASSUME n \notin S PROVE FALSE
  BY Zenon
<1> DEFINE T == {i \in 0 .. n : i \notin S}
<1>1. T \subseteq Nat /\ T # {}
  OBVIOUS
<1>2. PICK x \in T : \A y \in T : ~ (<<y, x>> \in OpToRel(<, Nat))
  BY <1>1, NatLessThanWellFounded, WFMin
<1>3. \A y \in T : ~ (y < x)
  BY <1>1, <1>2, Zenon DEF OpToRel
<1>4. x \in 1 .. n /\ x \notin S /\ x - 1 \in 0 .. n - 1
  OBVIOUS
<1>5. x - 1 \in S
  BY <1>3, <1>4
<1> QED
  BY <1>4, <1>5

Pick(s) == CHOOSE x \in s : TRUE

(* it sums f over every part of S, in the order in which Pick takes it. *)
Iterates(it, f, S) ==
  it = [s \in SUBSET S |-> IF s = {} THEN 0 ELSE f[Pick(s)] + it[s \ {Pick(s)}]]

(* f has a sum over S, and it is the iteration that computes it. *)
Summable(f, S) == IsFiniteSet(S) /\ \A x \in S : f[x] \in Int

Sums(it, f, S) == Summable(f, S) /\ it \in [SUBSET S -> Int] /\ Iterates(it, f, S)

(* The iteration may take the elements in any order. *)
Unordered(it, f, S) == \A s \in SUBSET S : \A y \in s : it[s] = f[y] + it[s \ {y}]

(* b takes every element of S to one of T with the same value. *)
Carries(b, f, S, g, T) ==
  /\ b \in [S -> T] /\ (\A x, y \in S : b[x] = b[y] => x = y)
  /\ \A x \in S : f[x] = g[b[x]]

LEMMA PartSizes ==
  ASSUME NEW S, IsFiniteSet(S), NEW s \in SUBSET S
  PROVE  /\ Cardinality(s) \in Nat /\ Cardinality(s) <= Cardinality(S) /\ Cardinality(S) \in Nat
         /\ Cardinality(s) = 0 <=> s = {}
         /\ \A x \in s : Cardinality(s \ {x}) = Cardinality(s) - 1
<1>1. IsFiniteSet(s) /\ Cardinality(s) <= Cardinality(S)
  BY Zenon, FS_Subset
<1>2. Cardinality(s) \in Nat /\ Cardinality(S) \in Nat
  BY Zenon, <1>1, FS_CardinalityType
<1>3. Cardinality(s) = 0 <=> s = {}
  BY <1>1, FS_EmptySet, Zenon
<1>4. \A x \in s : Cardinality(s \ {x}) = Cardinality(s) - 1
  BY Zenon, <1>1, FS_RemoveElement
<1> QED
  BY Zenon, <1>1, <1>2, <1>3, <1>4

LEMMA SumExists ==
  ASSUME NEW S, NEW f, Summable(f, S)
  PROVE  \E it : Sums(it, f, S)
<1> SUFFICES ASSUME IsFiniteSet(S), \A x \in S : f[x] \in Int
             PROVE  \E it \in [SUBSET S -> Int] : Iterates(it, f, S)
  BY Zenon DEF Summable, Sums
<1> DEFINE Turn(h, s) == IF s = {} THEN 0 ELSE f[Pick(s)] + h[s \ {Pick(s)}]
           Upto(h, m) == \A s \in SUBSET S : Cardinality(s) <= m => h[s] = Turn(h, s)
           Good == {m \in Nat : \E h \in [SUBSET S -> Int] : Upto(h, m)}
<1>0. \A s \in SUBSET S : s # {} => Pick(s) \in s /\ s \ {Pick(s)} \in SUBSET S /\ f[Pick(s)] \in Int
  BY Zenon DEF Pick
<1>1. 0 \in Good
  <2> DEFINE h == [s \in SUBSET S |-> 0]
  <2>1. h \in [SUBSET S -> Int]
    OBVIOUS
  <2>2. Upto(h, 0)
    <3> SUFFICES ASSUME NEW s \in SUBSET S, Cardinality(s) <= 0 PROVE h[s] = Turn(h, s)
      OBVIOUS
    <3>1. s = {}
      BY PartSizes
    <3> QED
      BY Zenon, <3>1
  <2> HIDE DEF h, Upto
  <2> QED
    BY Zenon, <2>1, <2>2
<1>2. ASSUME NEW m \in Nat, m \in Good PROVE m + 1 \in Good
  <2>1. PICK h \in [SUBSET S -> Int] : Upto(h, m)
    BY <1>2, Zenon
  <2> DEFINE g == [s \in SUBSET S |-> IF Cardinality(s) = m + 1 THEN Turn(h, s) ELSE h[s]]
  <2>2. g \in [SUBSET S -> Int]
    <3>1. \A s \in SUBSET S : Turn(h, s) \in Int
      BY <1>0
    <3> HIDE DEF Turn
    <3> QED
      BY Zenon, <3>1
  <2>3. Upto(g, m + 1)
    <3> SUFFICES ASSUME NEW s \in SUBSET S, Cardinality(s) <= m + 1 PROVE g[s] = Turn(g, s)
      OBVIOUS
    <3>1. Cardinality(s) \in Nat /\ \A x \in s : Cardinality(s \ {x}) = Cardinality(s) - 1
      BY Zenon, PartSizes
    <3>2. s # {} => g[s \ {Pick(s)}] = h[s \ {Pick(s)}]
      BY <1>0, <3>1
    <3>3. Turn(g, s) = Turn(h, s)
      BY Zenon, <3>2
    <3>4. g[s] = Turn(h, s)
      <4>1. CASE Cardinality(s) = m + 1
        BY <4>1, Zenon
      <4>2. CASE Cardinality(s) # m + 1
        <5>1. Cardinality(s) <= m
          BY <3>1, <4>2
        <5> QED
          BY <2>1, <4>2, <5>1, Zenon
      <4> QED
        BY Zenon, <4>1, <4>2
    <3> HIDE DEF g, Turn
    <3> QED
      BY Zenon, <3>3, <3>4
  <2> HIDE DEF g, Upto
  <2> QED
    BY <2>2, <2>3
<1>3. Cardinality(S) \in Good
  <2>1. Cardinality(S) \in Nat
    BY Zenon, FS_CardinalityType
  <2> HIDE DEF Good
  <2> QED
    BY <1>1, <1>2, <2>1, Counting
<1>4. PICK h \in [SUBSET S -> Int] : Upto(h, Cardinality(S))
  BY <1>3, Zenon
<1>5. \A s \in SUBSET S : h[s] = Turn(h, s)
  BY <1>4, PartSizes, Zenon
<1> QED
  BY <1>5 DEF Iterates

(* The order does not matter. *)
LEMMA SumAnyOrder ==
  ASSUME NEW S, NEW f, NEW it, Sums(it, f, S)
  PROVE  Unordered(it, f, S)
<1> SUFFICES ASSUME IsFiniteSet(S), \A x \in S : f[x] \in Int,
                    it \in [SUBSET S -> Int], Iterates(it, f, S)
             PROVE  \A s \in SUBSET S : \A y \in s : it[s] = f[y] + it[s \ {y}]
  BY Zenon DEF Summable, Sums, Unordered
<1> DEFINE Good == {m \in Nat : \A s \in SUBSET S : Cardinality(s) <= m =>
                                  \A y \in s : it[s] = f[y] + it[s \ {y}]}
<1>0. \A s \in SUBSET S : s # {} => Pick(s) \in s
  BY Zenon DEF Pick
<1>1. 0 \in Good
  BY PartSizes
<1>2. ASSUME NEW m \in Nat, m \in Good PROVE m + 1 \in Good
  <2> SUFFICES ASSUME NEW s \in SUBSET S, Cardinality(s) <= m + 1, NEW y \in s
               PROVE  it[s] = f[y] + it[s \ {y}]
    OBVIOUS
  <2> DEFINE x == Pick(s)
             rest == (s \ {x}) \ {y}
  <2>1. x \in s /\ it[s] = f[x] + it[s \ {x}]
    BY <1>0, Zenon DEF Iterates
  <2> HIDE DEF x
  <2>2. CASE x = y
    BY Zenon, <2>1, <2>2
  <2>3. CASE x # y
    <3>1. /\ Cardinality(s) \in Nat
          /\ Cardinality(s \ {x}) = Cardinality(s) - 1
          /\ Cardinality(s \ {y}) = Cardinality(s) - 1
      BY Zenon, <2>1, PartSizes
    <3>2. Cardinality(s \ {x}) <= m /\ Cardinality(s \ {y}) <= m
      BY <3>1
    <3>3. it[s \ {x}] = f[y] + it[rest]
      BY <1>2, <2>3, <3>2
    <3>4. it[s \ {y}] = f[x] + it[(s \ {y}) \ {x}]
      BY <1>2, <2>1, <2>3, <3>2
    <3>5. (s \ {y}) \ {x} = rest
      BY Zenon
    <3>6. f[x] \in Int /\ f[y] \in Int
      BY Zenon, <2>1
    <3>7. it[rest] \in Int
      BY Zenon
    <3>8. it[s \ {y}] = f[x] + it[rest]
      BY <3>4, <3>5, Zenon
    <3> HIDE DEF rest
    <3>9. f[x] + (f[y] + it[rest]) = f[y] + (f[x] + it[rest])
      BY <3>6, <3>7
    <3> QED
      BY <2>1, <3>3, <3>8, <3>9, Zenon
  <2> QED
    BY Zenon, <2>2, <2>3
<1>3. Cardinality(S) \in Good
  <2>1. Cardinality(S) \in Nat
    BY Zenon, FS_CardinalityType
  <2> HIDE DEF Good
  <2> QED
    BY <1>1, <1>2, <2>1, Counting
<1> QED
  BY <1>3, PartSizes, Zenon

LEMMA SumTransfer ==
  ASSUME NEW S, NEW f, NEW it, Sums(it, f, S), NEW T, NEW g, NEW jt, Sums(jt, g, T),
         NEW b, Carries(b, f, S, g, T)
  PROVE  \A s \in SUBSET S : it[s] = jt[{b[x] : x \in s}]
<1> SUFFICES ASSUME IsFiniteSet(S), it \in [SUBSET S -> Int], jt \in [SUBSET T -> Int],
                    Iterates(it, f, S), Iterates(jt, g, T),
                    b \in [S -> T], \A x, y \in S : b[x] = b[y] => x = y,
                    \A x \in S : f[x] = g[b[x]]
             PROVE  \A s \in SUBSET S : it[s] = jt[{b[x] : x \in s}]
  BY Zenon DEF Summable, Sums, Carries
<1> DEFINE Image(s) == {b[x] : x \in s}
           Good == {m \in Nat : \A s \in SUBSET S : Cardinality(s) <= m => it[s] = jt[Image(s)]}
<1>0. it[{}] = 0 /\ jt[{}] = 0
  BY Zenon DEF Iterates
<1>1. 0 \in Good
  <2> SUFFICES ASSUME NEW s \in SUBSET S, Cardinality(s) <= 0 PROVE it[s] = jt[Image(s)]
    BY Zenon
  <2>1. s = {}
    BY PartSizes
  <2>2. Image(s) = {}
    BY Zenon, <2>1
  <2> HIDE DEF Image
  <2> QED
    BY <1>0, <2>1, <2>2, Zenon
<1>2. ASSUME NEW m \in Nat, m \in Good PROVE m + 1 \in Good
  <2> SUFFICES ASSUME NEW s \in SUBSET S, Cardinality(s) <= m + 1 PROVE it[s] = jt[Image(s)]
    OBVIOUS
  <2>1. CASE s = {}
    <3>1. Image(s) = {}
      BY Zenon, <2>1
    <3> HIDE DEF Image
    <3> QED
      BY <1>0, <2>1, <3>1, Zenon
  <2>2. CASE s # {}
    <3>1. PICK x \in s : TRUE
      BY Zenon, <2>2
    <3>2. Cardinality(s \ {x}) <= m
      BY PartSizes
    <3>3. it[s \ {x}] = jt[Image(s \ {x})]
      BY <1>2, <3>2, Zenon
    <3>4. Image(s) \in SUBSET T /\ b[x] \in Image(s)
      OBVIOUS
    <3>5. Image(s) \ {b[x]} = Image(s \ {x})
      OBVIOUS
    <3> HIDE DEF Image
    <3>6. it[s] = f[x] + it[s \ {x}]
      <4>1. Unordered(it, f, S)
        BY SumAnyOrder, Zenon
      <4> QED
        BY <4>1, Zenon DEF Unordered
    <3>7. jt[Image(s)] = g[b[x]] + jt[Image(s) \ {b[x]}]
      <4>1. Unordered(jt, g, T)
        BY SumAnyOrder, Zenon
      <4> QED
        BY <3>4, <4>1, Zenon DEF Unordered
    <3>8. f[x] = g[b[x]]
      BY Zenon
    <3> QED
      BY <3>3, <3>5, <3>6, <3>7, <3>8, Zenon
  <2> QED
    BY Zenon, <2>1, <2>2
<1>3. Cardinality(S) \in Good
  <2>1. Cardinality(S) \in Nat
    BY Zenon, FS_CardinalityType
  <2> HIDE DEF Good
  <2> QED
    BY <1>1, <1>2, <2>1, Counting
<1> QED
  BY <1>3, PartSizes, Zenon

LEMMA SumIterates ==
  ASSUME NEW S, NEW f, Summable(f, S)
  PROVE  \E it : Sums(it, f, S) /\ SumFunctionOnSet(f, S) = it[S]
<1> SUFFICES ASSUME IsFiniteSet(S), \A x \in S : f[x] \in Int
             PROVE  \E it \in [SUBSET S -> Int] : Iterates(it, f, S) /\ SumFunctionOnSet(f, S) = it[S]
  BY Zenon DEF Summable, Sums
<1> DEFINE it == CHOOSE h : Iterates(h, f, S)
<1>1. SumFunctionOnSet(f, S) = it[S]
  BY Zenon DEF SumFunctionOnSet, FoldFunctionOnSet, MapThenFoldSet, Iterates, Pick
<1>2. PICK h \in [SUBSET S -> Int] : Iterates(h, f, S)
  BY SumExists, Zenon DEF Sums
<1>3. Iterates(it, f, S)
  BY <1>2, Zenon
<1>4. it \in [SUBSET S -> Int]
  <2> HIDE DEF it
  <2> DEFINE Good == {m \in Nat : \A s \in SUBSET S : Cardinality(s) <= m => it[s] = h[s]}
  <2>0. \A s \in SUBSET S : /\ it[s] = IF s = {} THEN 0 ELSE f[Pick(s)] + it[s \ {Pick(s)}]
                            /\ h[s] = IF s = {} THEN 0 ELSE f[Pick(s)] + h[s \ {Pick(s)}]
    BY <1>2, <1>3, Zenon DEF Iterates
  <2>1. 0 \in Good
    <3> SUFFICES ASSUME NEW s \in SUBSET S, Cardinality(s) <= 0 PROVE it[s] = h[s]
      BY Zenon
    <3>1. s = {}
      BY PartSizes
    <3> QED
      BY <2>0, <3>1, Zenon
  <2>2. ASSUME NEW m \in Nat, m \in Good PROVE m + 1 \in Good
    <3> SUFFICES ASSUME NEW s \in SUBSET S, Cardinality(s) <= m + 1 PROVE it[s] = h[s]
      OBVIOUS
    <3>1. CASE s = {}
      BY <2>0, <3>1, Zenon
    <3>2. CASE s # {}
      <4>1. Pick(s) \in s
        BY Zenon, <3>2 DEF Pick
      <4>2. Cardinality(s \ {Pick(s)}) <= m
        BY <4>1, PartSizes
      <4>3. it[s \ {Pick(s)}] = h[s \ {Pick(s)}]
        BY Zenon, <2>2, <4>2
      <4> QED
        BY <2>0, <3>2, <4>3, Zenon
    <3> QED
      BY Zenon, <3>1, <3>2
  <2>3. Cardinality(S) \in Good
    <3>1. Cardinality(S) \in Nat
      BY Zenon, FS_CardinalityType
    <3> HIDE DEF Good
    <3> QED
      BY <2>1, <2>2, <3>1, Counting
  <2>4. \A s \in SUBSET S : it[s] \in Int
    <3>1. \A s \in SUBSET S : it[s] = h[s]
      BY <2>3, PartSizes, Zenon
    <3> QED
      BY Zenon, <1>2, <3>1
  <2>5. \A s \in SUBSET S : (IF s = {} THEN 0 ELSE f[Pick(s)] + it[s \ {Pick(s)}]) \in Int
    BY <2>0, <2>4, Zenon
  <2> QED
    BY <1>3, <2>5, Zenon DEF Iterates
<1> HIDE DEF it
<1> QED
  BY Zenon, <1>1, <1>3, <1>4

(* The sum over a set is that over the images of its elements. *)
LEMMA SumMoves ==
  ASSUME NEW S, NEW f, Summable(f, S), NEW T, NEW g, Summable(g, T),
         NEW b, Carries(b, f, S, g, T), \A y \in T : \E x \in S : y = b[x]
  PROVE  SumFunctionOnSet(f, S) = SumFunctionOnSet(g, T)
<1>1. PICK it : Sums(it, f, S) /\ SumFunctionOnSet(f, S) = it[S]
  BY SumIterates, Zenon
<1>2. PICK jt : Sums(jt, g, T) /\ SumFunctionOnSet(g, T) = jt[T]
  BY SumIterates, Zenon
<1>3. it[S] = jt[{b[x] : x \in S}]
  <2>1. \A s \in SUBSET S : it[s] = jt[{b[x] : x \in s}]
    BY <1>1, <1>2, SumTransfer, SMT
  <2>2. S \in SUBSET S
    BY Zenon
  <2> QED
    BY <2>1, <2>2, Zenon
<1>4. {b[x] : x \in S} = T
  BY DEF Carries
<1> QED
  BY <1>1, <1>2, <1>3, <1>4, Zenon

LEMMA SumSplits ==
  ASSUME NEW S, NEW f, Summable(f, S)
  PROVE  /\ SumFunctionOnSet(f, S) \in Int
         /\ S = {} => SumFunctionOnSet(f, S) = 0
         /\ \A y \in S : SumFunctionOnSet(f, S) = f[y] + SumFunctionOnSet(f, S \ {y})
<1>1. PICK it : Sums(it, f, S) /\ SumFunctionOnSet(f, S) = it[S]
  BY SumIterates, Zenon
<1>2. it[S] \in Int /\ it[{}] = 0
  <2>1. it \in [SUBSET S -> Int] /\ Iterates(it, f, S)
    BY <1>1, Zenon DEF Sums
  <2> QED
    BY Zenon, <2>1 DEF Iterates
<1>3. ASSUME NEW y \in S PROVE SumFunctionOnSet(f, S) = f[y] + SumFunctionOnSet(f, S \ {y})
  <2> DEFINE T == S \ {y}
             b == [x \in T |-> x]
  <2>1. Summable(f, T)
    BY Zenon, FS_RemoveElement DEF Summable
  <2>2. it[S] = f[y] + it[T]
    <3>1. Unordered(it, f, S)
      BY <1>1, SumAnyOrder, Zenon
    <3>2. S \in SUBSET S
      BY Zenon
    <3> QED
      BY <3>1, <3>2, Zenon DEF Unordered
  <2>3. Carries(b, f, T, f, S)
    BY Zenon DEF Carries
  <2>4. {b[x] : x \in T} = T /\ T \in SUBSET T
    BY Zenon
  <2> HIDE DEF T, b
  <2>5. PICK jt : Sums(jt, f, T) /\ SumFunctionOnSet(f, T) = jt[T]
    BY <2>1, SumIterates, Zenon
  <2>6. \A s \in SUBSET T : jt[s] = it[{b[x] : x \in s}]
    BY <1>1, <2>3, <2>5, SumTransfer, SMTT(30)
  <2>7. jt[T] = it[T]
    BY <2>4, <2>6, Zenon
  <2> QED
    BY <1>1, <2>2, <2>5, <2>7, Zenon DEF T
<1> QED
  BY <1>1, <1>2, <1>3, Zenon

-----------------------------------------------------------------------------
(* The bytes of a list that has one region more than another one. *)
LEMMA TotalOneMore ==
  ASSUME NEW long \in Seq(Region), NEW short \in Seq(Region), NEW i \in 1..Len(long),
         Len(long) = Len(short) + 1,
         \A k \in 1..Len(short) : short[k] = long[IF k < i THEN k ELSE k + 1]
  PROVE  /\ Total(long) = long[i].size + Total(short)
         /\ Total(long) \in Int /\ Total(short) \in Int
<1> DEFINE S == 1..Len(short)
           T == (1..Len(long)) \ {i}
           f == [k \in S |-> short[k].size]
           g == [k \in 1..Len(long) |-> long[k].size]
           b == [k \in S |-> IF k < i THEN k ELSE k + 1]
<1>1. IsFiniteSet(S) /\ IsFiniteSet(1..Len(long))
  <2>1. 1 \in Int /\ Len(short) \in Int /\ Len(long) \in Int
    OBVIOUS
  <2> QED
    BY <2>1, FS_Interval, Zenon
<1>2. IsFiniteSet(T)
  BY <1>1, FS_RemoveElement
<1>3. DOMAIN short = S /\ DOMAIN long = 1..Len(long)
  OBVIOUS
<1>4. Total(short) = SumFunctionOnSet(f, S) /\ Total(long) = SumFunctionOnSet(g, 1..Len(long))
  BY Zenon, <1>3 DEF Total, SumFunction
<1>5. \A x \in S : f[x] \in Int
  <2>1. \A x \in S : short[x] \in Region
    BY SMT
  <2>2. \A region \in Region : region.size \in Int
    BY SMT DEF Region
  <2> QED
    BY <2>1, <2>2, Zenon
<1>6. \A x \in 1..Len(long) : g[x] \in Int
  <2>1. \A x \in 1..Len(long) : long[x] \in Region
    BY SMT
  <2>2. \A region \in Region : region.size \in Int
    BY SMT DEF Region
  <2> QED
    BY <2>1, <2>2, Zenon
<1>7. b \in [S -> T] /\ (\A x, y \in S : b[x] = b[y] => x = y)
  OBVIOUS
<1>8. \A y \in T : \E x \in S : y = b[x]
  <2> SUFFICES ASSUME NEW y \in T PROVE \E x \in S : y = b[x]
    BY Zenon
  <2>1. CASE y < i
    BY <2>1
  <2>2. CASE y > i
    <3>1. y - 1 \in S /\ b[y - 1] = y
      BY <2>2
    <3> QED
      BY <3>1
  <2> QED
    BY <2>1, <2>2
<1>9. \A x \in S : f[x] = g[b[x]]
  OBVIOUS
<1>10. g[i] = long[i].size /\ i \in 1..Len(long) /\ \A x \in T : g[x] \in Int
  BY Zenon, <1>6
<1> HIDE DEF S, T, f, g, b
<1>11. SumFunctionOnSet(f, S) = SumFunctionOnSet(g, T)
  <2>1. Summable(f, S) /\ Summable(g, T) /\ Carries(b, f, S, g, T)
    BY <1>1, <1>2, <1>5, <1>7, <1>9, <1>10, Zenon DEF Summable, Carries
  <2> QED
    BY <1>8, <2>1, SumMoves, SMT
<1>12. /\ SumFunctionOnSet(g, 1..Len(long)) = g[i] + SumFunctionOnSet(g, (1..Len(long)) \ {i})
       /\ SumFunctionOnSet(g, 1..Len(long)) \in Int
  <2>1. Summable(g, 1..Len(long))
    BY <1>1, <1>6, Zenon DEF Summable
  <2> QED
    BY <1>10, <2>1, SumSplits, ZenonT(30)
<1>13. SumFunctionOnSet(f, S) \in Int
  BY <1>1, <1>5, SumSplits, Zenon DEF Summable
<1> QED
  BY <1>4, <1>10, <1>11, <1>12, <1>13, Zenon DEF T

LEMMA TotalType ==
  ASSUME NEW list \in Seq(Region)
  PROVE  Total(list) \in Int
<1> DEFINE f == [k \in 1..Len(list) |-> list[k].size]
<1>1. Total(list) = SumFunctionOnSet(f, 1..Len(list))
  <2>1. DOMAIN list = 1..Len(list)
    OBVIOUS
  <2> QED
    BY Zenon, <2>1 DEF Total, SumFunction
<1>2. \A x \in 1..Len(list) : f[x] \in Int
  <2>1. \A x \in 1..Len(list) : list[x] \in Region
    BY SMT
  <2>2. \A region \in Region : region.size \in Int
    BY SMT DEF Region
  <2> QED
    BY <2>1, <2>2, Zenon
<1>3. IsFiniteSet(1..Len(list))
  BY FS_Interval
<1> HIDE DEF f
<1> QED
  BY <1>1, <1>2, <1>3, SumSplits, Zenon DEF Summable

LEMMA TotalUnlink ==
  ASSUME NEW list \in Seq(Region), NEW i \in 1..Len(list)
  PROVE  /\ Total(list) = list[i].size + Total(Unlink(list, i))
         /\ Total(list) \in Int /\ Total(Unlink(list, i)) \in Int
<1> DEFINE rest == Unlink(list, i)
<1>1. /\ rest \in Seq(Region) /\ Len(rest) = Len(list) - 1
      /\ \A k \in 1..(Len(list) - 1) : rest[k] = list[IF k < i THEN k ELSE k + 1]
  BY UnlinkShape, Zenon
<1> HIDE DEF rest
<1>2. Len(list) = Len(rest) + 1 /\ Len(list) - 1 = Len(rest)
  BY <1>1
<1>3. \A k \in 1..Len(rest) : rest[k] = list[IF k < i THEN k ELSE k + 1]
  BY <1>1, <1>2, Zenon
<1>4. /\ Total(list) = list[i].size + Total(rest)
      /\ Total(list) \in Int /\ Total(rest) \in Int
  BY <1>1, <1>2, <1>3, TotalOneMore, Zenon
<1> QED
  BY Zenon, <1>4 DEF rest

(* add_free_region loses nothing of an aligned region, unless it drops it. *)
LEMMA TotalAdd ==
  ASSUME NEW list \in Seq(Region), NEW addr \in Nat, NEW size \in Nat, addr % NodeAlign = 0
  PROVE  Total(add_free_region(list, addr, size)) =
           IF size <= NodeSize THEN Total(list) ELSE size + Total(list)
<1>1. RoundUp(addr, NodeAlign) = addr
  BY DEF RoundUp, NodeAlign
<1>2. CASE size <= NodeSize
  BY <1>1, <1>2 DEF add_free_region, NodeSize
<1>3. CASE size > NodeSize
  <2> DEFINE r == [addr |-> addr, size |-> size]
             longer == <<r>> \o list
  <2>1. add_free_region(list, addr, size) = longer
    BY <1>1, <1>3 DEF add_free_region, NodeSize
  <2>2. r \in Region /\ r.size = size
    BY Zenon DEF Region
  <2> HIDE DEF r
  <2>3. /\ longer \in Seq(Region) /\ Len(longer) = Len(list) + 1 /\ longer[1] = r
        /\ 1 \in 1..Len(longer)
        /\ \A k \in 1..Len(list) : list[k] = longer[k + 1]
    BY <2>2
  <2> HIDE DEF longer
  <2>4. \A k \in 1..Len(list) : list[k] = longer[IF k < 1 THEN k ELSE k + 1]
    BY <2>3
  <2>5. Total(longer) = longer[1].size + Total(list)
    BY <2>3, <2>4, TotalOneMore, Zenon
  <2>6. ~ (size <= NodeSize)
    BY <1>3 DEF NodeSize
  <2> QED
    BY <2>1, <2>2, <2>3, <2>5, <2>6, Zenon
<1> QED
  BY <1>2, <1>3 DEF NodeSize

(* Alignments, and the sizes rounded up to them, are multiples of the      *)
(* alignment of a list node.                                               *)
LEMMA Multiples ==
  ASSUME NEW x \in Nat, NEW n \in Nat \ {0}, x % n = 0, n % 8 = 0
  PROVE  x % 8 = 0
<1> DEFINE q == x \div n
           k == n \div 8
<1>1. q \in Nat /\ x = q * n
  BY SMTT(30)
<1>2. k \in Nat /\ n = 8 * k
  BY SMTT(30)
<1> HIDE DEF q, k
<1>3. x = 8 * (q * k) /\ q * k \in Nat
  BY <1>1, <1>2, SMTT(30)
<1> DEFINE m == q * k
<1> HIDE DEF m
<1>4. x = 8 * m /\ m \in Nat
  BY Zenon, <1>3 DEF m
<1> QED
  BY <1>4

LEMMA LayoutMultiples ==
  ASSUME NEW layout \in Layouts
  PROVE  Align(layout) % 8 = 0 /\ MinSize(layout) % 8 = 0
<1>1. /\ layout.size \in Nat /\ layout.align \in Nat \ {0}
      /\ layout.align \in {1, 2, 4} \/ layout.align % 8 = 0
  BY Zenon, HeapAssumption
<1>2. Align(layout) % 8 = 0 /\ Align(layout) \in Nat \ {0}
  BY <1>1 DEF Align, NodeAlign
<1>3. /\ RoundUp(layout.size, Align(layout)) \in Nat
      /\ RoundUp(layout.size, Align(layout)) % Align(layout) = 0
  BY <1>1, <1>2, RoundUpBounds, RoundUpMultiple
<1>4. RoundUp(layout.size, Align(layout)) % 8 = 0
  BY Zenon, <1>2, <1>3, Multiples
<1> QED
  BY <1>2, <1>4 DEF MinSize, NodeSize

(* What LossBounded needs besides HeapInv: the blocks are finitely many,   *)
(* so that their sizes have a sum, and at addresses dealloc need not       *)
(* round up.                                                               *)
Accounted ==
  /\ IsFiniteSet(live) /\ UsedExact
  /\ \A b \in live : b.addr % NodeAlign = 0

(* The sum of the sizes with one block more. *)
LEMMA SizesOneMore ==
  ASSUME NEW blocks \in SUBSET Block, IsFiniteSet(blocks), NEW b \in blocks
  PROVE  /\ SumFunction([c \in blocks |-> c.size]) =
               b.size + SumFunction([c \in blocks \ {b} |-> c.size])
         /\ SumFunction([c \in blocks \ {b} |-> c.size]) \in Int
<1> DEFINE T == blocks \ {b}
           f == [c \in T |-> c.size]
           g == [c \in blocks |-> c.size]
           id == [c \in T |-> c]
<1>1. IsFiniteSet(T)
  BY Zenon, FS_RemoveElement
<1>2. \A x \in blocks : g[x] \in Int
  BY DEF Block
<1>3. (\A x \in T : f[x] \in Int) /\ (\A x \in T : g[x] \in Int)
  BY DEF Block
<1>4. /\ id \in [T -> T] /\ (\A x, y \in T : id[x] = id[y] => x = y)
      /\ (\A y \in T : \E x \in T : y = id[x]) /\ (\A x \in T : f[x] = g[id[x]])
  BY Zenon
<1>5. SumFunction(f) = SumFunctionOnSet(f, T) /\ SumFunction(g) = SumFunctionOnSet(g, blocks)
  BY Zenon DEF SumFunction
<1>6. g[b] = b.size
  BY Zenon
<1> HIDE DEF f, g, id
<1>7. SumFunctionOnSet(g, blocks) = g[b] + SumFunctionOnSet(g, blocks \ {b})
  <2>1. Summable(g, blocks)
    BY <1>2, Zenon DEF Summable
  <2> QED
    BY <2>1, SumSplits, Zenon
<1> HIDE DEF T
<1>8. SumFunctionOnSet(f, T) = SumFunctionOnSet(g, T)
  <2>1. Summable(f, T) /\ Summable(g, T) /\ Carries(id, f, T, g, T)
    BY <1>1, <1>3, <1>4, Zenon DEF Summable, Carries
  <2> QED
    BY <1>4, <2>1, SumMoves, SMT
<1>9. SumFunctionOnSet(f, T) \in Int
  BY <1>1, <1>3, SumSplits, Zenon DEF Summable
<1> QED
  BY <1>5, <1>6, <1>7, <1>8, <1>9, Zenon DEF T, f, g

(* alloc loses less than the alignment before the block, and behind it at  *)
(* most a list node; the block is new.                                     *)
LEMMA AllocLoss ==
  ASSUME HeapInv, Accounted, NEW layout \in Layouts, alloc(layout)
  PROVE  /\ Accounted'
         /\ (Total(free) + used) - (Total(free') + used') \in 0..(Align(layout) - 1 + NodeSize)
         /\ live \ live' = {}
         /\ \A b \in live' \ live : b.layout = layout
<1>1. PICK i \in 1..Len(free) :
        /\ FirstFit(i, MinSize(layout), Align(layout))
        /\ free' = Split(i, RoundUp(free[i].addr, Align(layout)) + MinSize(layout))
        /\ live' = live \union {[addr |-> RoundUp(free[i].addr, Align(layout)),
                                 size |-> MinSize(layout), layout |-> layout]}
        /\ used' = used + MinSize(layout)
  BY Zenon DEF alloc
<1> DEFINE at == RoundUp(free[i].addr, Align(layout))
           size == MinSize(layout)
           new == [addr |-> at, size |-> size, layout |-> layout]
           rest == Unlink(free, i)
           left == (free[i].addr + free[i].size) - (at + size)
<1>2. free \in Seq(Region) /\ live \in SUBSET Block /\ used \in Int
  BY Zenon DEF HeapInv, TypeOK
<1>3. free[i].addr \in Nat /\ free[i].size \in Nat
  <2>1. free[i] \in Region
    BY <1>2, SMT
  <2> QED
    BY Zenon, <2>1 DEF Region
<1>4. /\ size \in Nat /\ size >= NodeSize /\ Align(layout) \in Nat \ {0}
      /\ size % 8 = 0 /\ Align(layout) % 8 = 0
  BY Zenon, MinSizeType, LayoutMultiples
<1>5. at \in Nat /\ free[i].addr <= at /\ at < free[i].addr + Align(layout) /\ at % Align(layout) = 0
  BY <1>3, <1>4, RoundUpBounds, RoundUpMultiple, Zenon
<1>6. at % 8 = 0
  BY Zenon, <1>4, <1>5, Multiples
<1>7. at + size <= free[i].addr + free[i].size
  BY Zenon, <1>1 DEF FirstFit, Fits
<1> HIDE DEF at, size
<1>8. left \in Nat /\ at + size \in Nat /\ (at + size) % 8 = 0
  <2>1. at \in Nat /\ size \in Nat /\ at % 8 = 0 /\ size % 8 = 0
    BY <1>4, <1>5, <1>6, Zenon
  <2>2. (at + size) % 8 = 0 /\ at + size \in Nat
    BY <2>1
  <2> QED
    BY <1>3, <1>7, <2>2
<1>9. rest \in Seq(Region)
  BY <1>2, UnlinkShape, Zenon
<1>10. Total(free) = free[i].size + Total(rest) /\ Total(rest) \in Int
  BY <1>2, TotalUnlink, Zenon
<1>11. free' = IF left >= NodeSize THEN add_free_region(rest, at + size, left) ELSE rest
  BY Zenon, <1>1 DEF Split, at, size
<1> HIDE DEF rest, left
<1>12. Total(free') = IF left <= NodeSize THEN Total(rest) ELSE left + Total(rest)
  <2>1. Total(add_free_region(rest, at + size, left)) = IF left <= NodeSize THEN Total(rest) ELSE left + Total(rest)
    BY Zenon, <1>8, <1>9, TotalAdd DEF NodeAlign
  <2> QED
    BY <1>8, <1>11, <2>1 DEF NodeSize
<1>13. used' = used + size
  BY Zenon, <1>1 DEF size
<1>14. (Total(free) + used) - (Total(free') + used') \in 0..(Align(layout) - 1 + NodeSize)
  <2> DEFINE t == Total(rest)
  <2>1. /\ Total(free) = free[i].size + t /\ t \in Int
        /\ Total(free') = IF left <= NodeSize THEN t ELSE left + t
    BY Zenon, <1>10, <1>12
  <2>2. left = (free[i].addr + free[i].size) - (at + size)
    BY Zenon DEF left
  <2> DEFINE align == Align(layout)
             before == free[i].addr
             whole == free[i].size
  <2>3. /\ at \in Nat /\ size \in Nat /\ align \in Nat /\ before \in Nat /\ whole \in Nat
        /\ before <= at /\ at < before + align /\ left = (before + whole) - (at + size) /\ left \in Nat
    BY Zenon, <1>3, <1>4, <1>5, <1>8, <2>2
  <2>4. /\ Total(free) = whole + t /\ t \in Int /\ used \in Int /\ used' = used + size
        /\ Total(free') = IF left <= NodeSize THEN t ELSE left + t
    BY <1>2, <1>13, <2>1, Zenon
  <2> HIDE DEF t, align, before, whole
  <2>5. (Total(free) + used) - (Total(free') + used') \in 0..(align - 1 + NodeSize)
    BY <2>3, <2>4 DEF NodeSize
  <2> QED
    BY Zenon, <2>5 DEF align
<1>15. new \notin live
  <2> SUFFICES ASSUME new \in live PROVE FALSE
    BY Zenon
  <2>1. Apart(free[i], new)
    BY Zenon DEF HeapInv, Sound
  <2>2. free[i].addr + free[i].size <= at \/ at + size <= free[i].addr
    BY Zenon, <2>1 DEF Apart
  <2> QED
    BY SMTT(30), <1>3, <1>4, <1>5, <1>7, <2>2 DEF NodeSize
<1>16. live' = live \union {new}
  BY Zenon, <1>1 DEF at, size
<1>17. live' \in SUBSET Block /\ IsFiniteSet(live') /\ new \in live' /\ live' \ {new} = live
  <2>1. new \in Block
    BY Zenon, <1>4, <1>5 DEF Block
  <2>2. IsFiniteSet(live \union {new})
    BY FS_AddElement DEF Accounted
  <2> QED
    BY Zenon, <1>2, <1>15, <1>16, <2>1, <2>2
<1>18. new.size = size /\ new.layout = layout /\ new.addr = at
  BY Zenon
<1> HIDE DEF new
<1>19. UsedExact'
  <2>1. /\ SumFunction([c \in live' |-> c.size]) = new.size + SumFunction([c \in live |-> c.size])
        /\ SumFunction([c \in live |-> c.size]) \in Int
    BY <1>17, SizesOneMore
  <2>2. used = SumFunction([c \in live |-> c.size])
    BY Zenon DEF Accounted, UsedExact
  <2>3. used' = size + used
    BY <1>2, <1>4, <1>13
  <2> QED
    BY <1>18, <2>1, <2>2, <2>3, Zenon DEF UsedExact
<1>20. \A b \in live' : b.addr % NodeAlign = 0
  BY Zenon, <1>6, <1>16, <1>18 DEF Accounted, NodeAlign
<1> QED
  BY Zenon, <1>14, <1>16, <1>17, <1>18, <1>19, <1>20 DEF Accounted

(* dealloc loses a block of the size of a list node, and nothing of any    *)
(* other.                                                                  *)
LEMMA DeallocLoss ==
  ASSUME HeapInv, Accounted, NEW block \in live, dealloc(block)
  PROVE  /\ Accounted'
         /\ (Total(free) + used) - (Total(free') + used') = IF block.size > NodeSize THEN 0 ELSE NodeSize
         /\ live' \ live = {}
         /\ \A b \in live \ live' : b = block
<1>1. /\ free \in Seq(Region) /\ live \in SUBSET Block /\ used \in Int
      /\ block.size = MinSize(block.layout)
  BY Zenon DEF HeapInv, TypeOK
<1>2. block.addr \in Nat /\ block.size \in Nat /\ block.layout \in Layouts
  BY Zenon, <1>1 DEF Block
<1>3. block.size >= NodeSize
  BY Zenon, <1>1, <1>2, MinSizeType
<1>4. /\ free' = add_free_region(free, block.addr, block.size)
      /\ live' = live \ {block} /\ used' = used - block.size
  BY Zenon, <1>1 DEF dealloc
<1>5. block.addr % NodeAlign = 0
  BY Zenon DEF Accounted
<1>6. /\ Total(free') = IF block.size <= NodeSize THEN Total(free) ELSE block.size + Total(free)
  BY Zenon, <1>1, <1>2, <1>4, <1>5, TotalAdd
<1>7. Total(free) \in Int
  BY Zenon, <1>1, TotalType
<1>8. (Total(free) + used) - (Total(free') + used') = IF block.size > NodeSize THEN 0 ELSE NodeSize
  <2> DEFINE t == Total(free)
  <2>1. Total(free') = (IF block.size <= NodeSize THEN t ELSE block.size + t) /\ t \in Int
    BY Zenon, <1>6, <1>7
  <2> HIDE DEF t
  <2>2. (t + used) - (Total(free') + used') = IF block.size > NodeSize THEN 0 ELSE NodeSize
    BY <1>1, <1>2, <1>3, <1>4, <2>1 DEF NodeSize
  <2> QED
    BY Zenon, <2>2 DEF t
<1>9. IsFiniteSet(live')
  BY Zenon, <1>4, FS_RemoveElement DEF Accounted
<1>10. UsedExact'
  <2>1. /\ SumFunction([c \in live |-> c.size]) = block.size + SumFunction([c \in live \ {block} |-> c.size])
        /\ SumFunction([c \in live \ {block} |-> c.size]) \in Int
    BY <1>1, SizesOneMore DEF Accounted
  <2>2. used = SumFunction([c \in live |-> c.size])
    BY Zenon DEF Accounted, UsedExact
  <2> DEFINE s == SumFunction([c \in live \ {block} |-> c.size])
  <2>3. used = block.size + s /\ s \in Int
    BY <2>1, <2>2, Zenon
  <2>4. UsedExact' <=> used' = s
    BY Zenon, <1>4 DEF UsedExact
  <2> HIDE DEF s
  <2>5. used' = s
    BY <1>2, <1>4, <2>3
  <2> QED
    BY Zenon, <2>4, <2>5
<1> QED
  BY Zenon, <1>4, <1>8, <1>9, <1>10 DEF Accounted

(* What LossBounded says of a step. *)
Bounded ==
  LET lost == (Total(free) + used) - (Total(free') + used') IN
  /\ UsedExact' /\ BlocksServe'
  /\ \A b \in live' \ live : lost \in 0..(Align(b.layout) - 1 + NodeSize)
  /\ \A b \in live \ live' : lost = IF b.size > NodeSize THEN 0 ELSE NodeSize

(* The bytes that are neither free nor in use are those that a split or a  *)
(* dropped node made unusable, a bounded number in each step, for every    *)
(* heap, all layouts and every order of alloc and dealloc.                 *)
THEOREM HeapLossBounded == Spec => LossBounded
<1>1. Init => Accounted
  <2> SUFFICES ASSUME Init PROVE Accounted
    BY Zenon
  <2>1. live = {} /\ used = 0 /\ IsFiniteSet(live)
    BY Zenon, FS_EmptySet DEF Init
  <2>2. SumFunction([c \in live |-> c.size]) = 0
    <3> DEFINE f == [c \in live |-> c.size]
    <3>1. DOMAIN f = live /\ \A x \in live : f[x] \in Int
      BY Zenon, <2>1
    <3> HIDE DEF f
    <3>2. SumFunctionOnSet(f, live) = 0
      BY <2>1, <3>1, SumSplits, Zenon DEF Summable
    <3> QED
      BY <3>1, <3>2, Zenon DEF SumFunction, f
  <2> QED
    BY Zenon, <2>1, <2>2 DEF Accounted, UsedExact
<1>2. ASSUME HeapInv, Accounted, [Next]_vars PROVE Accounted'
  <2>1. CASE Next
    BY Zenon, <1>2, <2>1, AllocLoss, DeallocLoss DEF Next
  <2>2. CASE UNCHANGED vars
    BY Zenon, <1>2, <2>2 DEF vars, Accounted, UsedExact
  <2> QED
    BY Zenon, <1>2, <2>1, <2>2
<1>3. ASSUME HeapInv, Accounted, Accounted', BlocksServe', [Next]_vars PROVE [Bounded]_vars
  <2> SUFFICES ASSUME Next PROVE Bounded
    BY Zenon, <1>3
  <2>1. UsedExact' /\ BlocksServe'
    BY Zenon, <1>3 DEF Accounted
  <2>2. ASSUME NEW layout \in Layouts, alloc(layout) PROVE Bounded
    BY <1>3, <2>1, <2>2, AllocLoss, Zenon DEF Bounded
  <2>3. ASSUME NEW block \in live, dealloc(block) PROVE Bounded
    BY <1>3, <2>1, <2>3, DeallocLoss, Zenon DEF Bounded
  <2> QED
    BY Zenon, <2>2, <2>3 DEF Next
<1>4. LossBounded <=> [][Bounded]_vars
  BY PTL DEF LossBounded, Bounded
<1> QED
  BY HeapInvariant, HeapBlocksServe, <1>1, <1>2, <1>3, <1>4, PTL DEF Spec
=============================================================================
