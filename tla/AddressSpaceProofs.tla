------------------------- MODULE AddressSpaceProofs -------------------------
(***************************************************************************)
(* Frames and address spaces, for every machine: the frame allocator's     *)
(* count is exact, no frame is in two places, what the TLB holds is        *)
(* harmless, and memory is lost in three known ways only.                  *)
(***************************************************************************)
EXTENDS AddressSpace, FiniteSetTheorems, TLAPS

(* Most steps are about sets and functions.  Those that count, or compare  *)
(* records, name the other prover.                                         *)
USE Zenon

-----------------------------------------------------------------------------
(* Numbers *)

(* A set of naturals that is not empty has a least member: no bijection    *)
(* onto 1..n is needed, the order is well-founded.                         *)
LEMMA LeastExists ==
  ASSUME NEW S \in SUBSET Nat, S # {}
  PROVE  \E x \in S : \A y \in S : x <= y
<1>1. PICK x \in S : \A y \in S : ~ (<<y, x>> \in OpToRel(<, Nat))
  BY NatLessThanWellFounded, WFMin
<1>2. \A y \in S : ~ (y < x)
  BY <1>1 DEF OpToRel
<1> QED
  BY SMT, <1>2

LEMMA MinIsLeast ==
  ASSUME NEW S \in SUBSET Nat, S # {}
  PROVE  Min(S) \in S /\ Min(S) \in Nat /\ \A y \in S : Min(S) <= y
BY LeastExists DEF Min

-----------------------------------------------------------------------------
(* The frame allocator *)

LEMMA FrameFinite ==
  ASSUME NEW S \in SUBSET Frame
  PROVE  IsFiniteSet(S) /\ Cardinality(S) \in Nat
<1>1. IsFiniteSet(Frame)
  BY SMT, TotalFramesAssumption, FS_Interval DEF Frame
<1> QED
  BY <1>1, FS_Subset, FS_CardinalityType

(* alloc_frame hands out a frame that was free, or finds that none is *)
LEMMA NextFreeIsClear ==
  ASSUME NEW m \in Manager, NextFree(m) # NoFrame
  PROVE  NextFree(m) \in Frame \ m.used
<1> DEFINE above == {f \in Clear(m) : f >= m.last}
           below == {f \in Clear(m) : 1 <= f /\ f < m.last}
<1>1. above \in SUBSET Nat /\ below \in SUBSET Nat
  BY SMT, TotalFramesAssumption DEF Clear, Frame
<1>2. (NextFree(m) = Min(above) /\ above # {}) \/ (NextFree(m) = Min(below) /\ below # {})
  BY Zenon DEF NextFree
<1>3. NextFree(m) \in above \cup below
  BY <1>1, <1>2, MinIsLeast
<1> QED
  BY <1>3 DEF Clear

LEMMA AllocExact ==
  ASSUME NEW m \in Manager, ManagerExact(m), NextFree(m) # NoFrame
  PROVE  /\ AllocFrame(m) \in Manager
         /\ ManagerExact(AllocFrame(m))
         /\ AllocFrame(m).used = m.used \cup {NextFree(m)}
<1> DEFINE f == NextFree(m)
           n == AllocFrame(m)
<1>1. f \in Frame \ m.used /\ f \in Nat
  BY SMT, NextFreeIsClear, TotalFramesAssumption DEF Frame
<1>2. n = [used |-> m.used \cup {f}, free |-> SaturatingSub(m.free, Cardinality({f})), last |-> f + 1]
  BY DEF AllocFrame, Take
<1>3. \A g \in Frame : g < f => g \in m.used
  <2> SUFFICES ASSUME NEW g \in Frame, g < f, g \notin m.used PROVE FALSE
    OBVIOUS
  <2> DEFINE above == {h \in Clear(m) : h >= m.last}
  <2>1. g \in Nat /\ m.last \in Nat /\ g >= m.last
    BY SMT, TotalFramesAssumption DEF Frame, Manager, ManagerExact
  <2>2. g \in above
    BY <2>1 DEF Clear
  <2>3. above \in SUBSET Nat
    BY SMT, TotalFramesAssumption DEF Clear, Frame
  <2>4. f = Min(above)
    BY <2>2 DEF NextFree
  <2>5. f <= g
    BY <2>2, <2>3, <2>4, MinIsLeast
  <2> QED
    BY SMT, <1>1, <2>1, <2>5
<1>4. Clear(n) = Clear(m) \ {f}
  BY SMT, <1>2 DEF Clear
<1>5. Cardinality(Clear(n)) = Cardinality(Clear(m)) - 1
  <2>1. f \in Clear(m) /\ IsFiniteSet(Clear(m))
    BY <1>1, FrameFinite DEF Clear
  <2> QED
    BY <1>4, <2>1, FS_RemoveElement
<1>6. n.free = Cardinality(Clear(n))
  <2>1. Cardinality({f}) = 1
    BY FS_Singleton
  <2>2. Cardinality(Clear(n)) \in Nat /\ Cardinality(Clear(m)) \in Nat
    BY FrameFinite DEF Clear
  <2>3. m.free = Cardinality(Clear(m))
    BY DEF ManagerExact
  <2> QED
    BY SMT, <1>2, <1>5, <2>1, <2>2, <2>3 DEF SaturatingSub
<1>7. n \in Manager
  <2>1. Cardinality(Clear(n)) \in Nat
    BY FrameFinite DEF Clear
  <2>2. n.free \in Nat
    BY <1>6, <2>1
  <2> QED
    BY SMT, <1>1, <1>2, <2>2 DEF Manager
<1>8. \A g \in Frame : g < n.last => g \in n.used
  BY SMT, <1>1, <1>2, <1>3, TotalFramesAssumption DEF Frame
<1> QED
  BY SMT, <1>2, <1>6, <1>7, <1>8 DEF ManagerExact

(* free_frame *)
LEMMA FreeExact ==
  ASSUME NEW m \in Manager, ManagerExact(m), NEW fs \in SUBSET m.used
  PROVE  /\ FreeFrames(m, fs) \in Manager
         /\ ManagerExact(FreeFrames(m, fs))
         /\ FreeFrames(m, fs).used = m.used \ fs
<1> DEFINE n == FreeFrames(m, fs)
<1>0. m.used \in SUBSET Frame /\ m.free \in Nat /\ m.last \in Nat
  BY DEF Manager
<1>1. fs \cap m.used = fs /\ fs \in SUBSET Frame
  BY <1>0
<1>2. n = [used |-> m.used \ fs, free |-> m.free + Cardinality(fs),
           last |-> IF fs = {} THEN m.last ELSE Min(fs \cup {m.last})]
  BY <1>1 DEF FreeFrames
<1>3. Clear(n) = Clear(m) \cup fs /\ Clear(m) \cap fs = {}
  BY SMT, <1>0, <1>1, <1>2 DEF Clear
<1>4. IsFiniteSet(Clear(m)) /\ IsFiniteSet(fs) /\ Cardinality(fs) \in Nat /\ Cardinality(Clear(m)) \in Nat
  BY <1>1, FrameFinite DEF Clear
<1>5. Cardinality(Clear(n)) = Cardinality(Clear(m)) + Cardinality(fs)
  <2>1. Cardinality(Clear(n)) = Cardinality(Clear(m)) + Cardinality(fs) - Cardinality({})
    BY <1>3, <1>4, FS_Union, Zenon
  <2> HIDE DEF n
  <2> QED
    BY SMT, <1>4, <2>1, FS_EmptySet
<1>6. n.free = Cardinality(Clear(n))
  BY SMT, <1>2, <1>5 DEF ManagerExact
<1>7. n.last \in Nat /\ (\A g \in fs : n.last <= g) /\ n.last <= m.last
  <2>1. fs \cup {m.last} \in SUBSET Nat
    BY SMT, <1>0, <1>1, TotalFramesAssumption DEF Frame
  <2>2. fs # {} => n.last = Min(fs \cup {m.last})
    BY SMT, <1>2
  <2>3. fs = {} => n.last = m.last
    BY SMT, <1>2
  <2> HIDE DEF n
  <2> QED
    BY SMT, <1>0, <2>1, <2>2, <2>3, MinIsLeast
<1>8. \A g \in Frame : g < n.last => g \in n.used
  <2> SUFFICES ASSUME NEW g \in Frame, g < n.last PROVE g \in n.used
    OBVIOUS
  <2>1. g \in Nat
    BY SMT, TotalFramesAssumption DEF Frame
  <2>2. g \notin fs /\ g < m.last
    BY SMT, <1>0, <1>7, <2>1
  <2> QED
    BY SMT, <1>2, <2>2 DEF ManagerExact
<1>9. n \in Manager
  BY SMT, <1>0, <1>2, <1>4, <1>7 DEF Manager
<1> QED
  BY SMT, <1>2, <1>6, <1>8, <1>9 DEF ManagerExact

(* A range of clear frames taken at once, the cursor staying *)
LEMMA TakeExact ==
  ASSUME NEW m \in Manager, ManagerExact(m), NEW fs \in SUBSET Clear(m)
  PROVE  Take(m, fs, m.last) \in Manager /\ ManagerExact(Take(m, fs, m.last))
<1> DEFINE n == Take(m, fs, m.last)
<1>1. n = [used |-> m.used \cup fs, free |-> SaturatingSub(m.free, Cardinality(fs)), last |-> m.last]
  BY DEF Take
<1>2. Clear(n) = Clear(m) \ fs /\ Clear(m) \cap fs = fs
  BY SMT, <1>1 DEF Clear
<1>3. IsFiniteSet(Clear(m)) /\ Cardinality(Clear(m)) \in Nat /\ Cardinality(fs) \in Nat
  BY FrameFinite DEF Clear
<1>4. Cardinality(Clear(n)) = Cardinality(Clear(m)) - Cardinality(fs)
  BY <1>2, <1>3, FS_Difference, Zenon
<1>5. Cardinality(Clear(n)) \in Nat
  BY FrameFinite DEF Clear
<1>6. m.free = Cardinality(Clear(m))
  BY DEF ManagerExact
<1>7. n.free = Cardinality(Clear(n))
  BY SMT, <1>1, <1>3, <1>4, <1>5, <1>6 DEF SaturatingSub
<1>8. n \in Manager
  BY SMT, <1>1, <1>5, <1>7 DEF Manager, Clear
<1> QED
  BY SMT, <1>1, <1>7, <1>8 DEF ManagerExact

(* mm_init *)
LEMMA BootExact == BootManager \in Manager /\ ManagerExact(BootManager)
<1> DEFINE m == PmmInit(Usable, Bitmap)
<1>1. Usable \in SUBSET Frame /\ 0 \notin Usable /\ Bitmap \in SUBSET Usable
  BY AddressSpaceAssumption DEF Bitmap
<1>2. m = [used |-> (Frame \ Usable) \cup {0} \cup Bitmap,
           free |-> SaturatingSub(Cardinality(Usable), Cardinality(Bitmap)), last |-> 1]
  BY DEF PmmInit
<1>3. 0 \in Frame
  BY SMT, TotalFramesAssumption DEF Frame
<1>4. Clear(m) = Usable \ Bitmap /\ Usable \cap Bitmap = Bitmap
  BY SMT, <1>1, <1>2 DEF Clear
<1>5. IsFiniteSet(Usable) /\ Cardinality(Usable) \in Nat /\ Cardinality(Bitmap) \in Nat
      /\ Cardinality(Clear(m)) \in Nat
  BY <1>1, FrameFinite DEF Clear
<1>6. Cardinality(Clear(m)) = Cardinality(Usable) - Cardinality(Bitmap)
  BY <1>4, <1>5, FS_Difference, Zenon
<1>7. m.free = Cardinality(Clear(m))
  BY SMT, <1>2, <1>5, <1>6 DEF SaturatingSub
<1>8. m \in Manager
  BY SMT, <1>1, <1>2, <1>3, <1>5, <1>7 DEF Manager
<1>9. ManagerExact(m)
  BY SMT, <1>2, <1>7, TotalFramesAssumption DEF ManagerExact, Frame
<1>10. ASSUME Runs(m, HeapPages) # {}
       PROVE  LET f == Min(Runs(m, HeapPages)) IN f .. f + HeapPages - 1 \in SUBSET Clear(m)
  <2> DEFINE f == Min(Runs(m, HeapPages))
  <2>1. Runs(m, HeapPages) \in SUBSET Nat
    BY SMT, TotalFramesAssumption DEF Runs, Frame
  <2>2. f \in Runs(m, HeapPages) /\ f \in Nat
    BY <1>10, <2>1, MinIsLeast
  <2>3. \A g \in f .. f + HeapPages - 1 : g \notin m.used
    BY <2>2 DEF Runs
  <2>4. f + HeapPages - 1 \in Frame
    BY <2>2 DEF Runs
  <2>5. \A g \in f .. f + HeapPages - 1 : g \in Frame
    BY SMT, <2>2, <2>4, TotalFramesAssumption, AddressSpaceAssumption DEF Frame
  <2> QED
    BY <2>3, <2>5 DEF Clear
<1> HIDE DEF m
<1> QED
  BY <1>8, <1>9, <1>10, TakeExact DEF BootManager, AllocContiguous, m

-----------------------------------------------------------------------------
(* Addresses and pages *)

LEMMA DivBounds ==
  ASSUME NEW a \in Nat, NEW b \in Nat \ {0}
  PROVE  a \div b \in Nat /\ b * (a \div b) <= a /\ a < b * (a \div b) + b
BY SMT

LEMMA Mul ==
  ASSUME NEW a \in Nat, NEW b \in Nat, NEW c \in Nat
  PROVE  a * b \in Nat /\ a * b = b * a /\ (b <= c => a * b <= a * c)
         /\ a * (b + 1) = a * b + a
BY SMT

LEMMA DivBelow ==
  ASSUME NEW a \in Nat, NEW b \in Nat \ {0}, NEW c \in Nat, a < b * c
  PROVE  a \div b < c
<1>1. a \div b \in Nat /\ b * (a \div b) <= a
  BY DivBounds
<1>2. b * (a \div b) \in Nat /\ b * c \in Nat /\ (c <= a \div b => b * c <= b * (a \div b))
  BY <1>1, Mul
<1> QED
  BY SMT, <1>1, <1>2

(* A range that ends in the user half has its pages there *)
LEMMA PagesBelow ==
  ASSUME NEW x \in Nat, x <= UserPages * PageSize
  PROVE  DivCeil(x) \in Nat /\ DivCeil(x) <= UserPages
<1>0. UserPages \in Nat /\ PageSize \in Nat \ {0}
  BY AddressSpaceAssumption, PageSizeAssumption
<1>1. PageSize * (UserPages + 1) = UserPages * PageSize + PageSize /\ UserPages * PageSize \in Nat
      /\ PageSize * (UserPages + 1) \in Nat
  BY SMT, <1>0, Mul
<1>2. x + PageSize - 1 \in Nat /\ x + PageSize - 1 < PageSize * (UserPages + 1)
  BY SMT, <1>0, <1>1
<1>3. DivCeil(x) \in Nat /\ DivCeil(x) < UserPages + 1
  BY SMT, <1>0, <1>2, DivBounds, DivBelow DEF DivCeil
<1> QED
  BY SMT, <1>0, <1>3

-----------------------------------------------------------------------------
(* The inductive invariant *)

CallShape ==
  call = [at |-> call.at, op |-> call.op, todo |-> call.todo, item |-> call.item,
          frame |-> call.frame, done |-> call.done, vma |-> call.vma, roll |-> call.roll,
          segs |-> call.segs, fits |-> call.fits]

Item == [page : Page, prot : SUBSET {"r", "w", "x"}]

(* A call in progress has what its loop needs.  What fork's list holds is  *)
(* not said: the loop looks at every page before it copies it.             *)
CallOK ==
  /\ CallShape
  /\ call.at \in {"user", "segment", "alloc", "walk"}
  /\ call.op \in {"none", "mmap", "fork", "exec"}
  /\ call.at = "user" <=> call.op = "none"
  /\ call.at # "user" => run \in Procs
  /\ call.at = "segment" => call.op = "exec"
  /\ call.at = "walk" => call.item.page \in Page /\ call.frame \in Frame
  /\ call.at # "walk" => call.frame = NoFrame
  /\ call.op \in {"mmap", "exec"} => call.todo \in Seq(Item)
  /\ call.op = "exec" => call.segs \in Seq(UserSegment)
                         /\ (call.at # "segment" => call.segs # <<>>)
  /\ call.op = "mmap" => call.roll \in Nat
  /\ next \in [Procs -> Nat]

(* Which spaces exist: the ones of processes in the table, and the one a   *)
(* fork or an exec is building.                                            *)
SpacesOK ==
  /\ \A s \in Procs : life[s] = "free" => map[s] = NoSpace
  /\ run \in Procs => life[run] # "free"
  /\ call.op \in {"fork", "exec"} => map[Fresh][Root] # NoFrame
  /\ call.op \notin {"fork", "exec"} => map[Fresh] = NoSpace
  /\ call.op \in {"mmap", "fork"} => HasSpace(run)

(* No frame of the trees in m is in two slots, in f's hand, or the         *)
(* kernel's, and all are among the used frames u.                          *)
Exclusive(u, m, f) ==
  /\ BootManager.used \subseteq u
  /\ \A s \in Spaces, x \in Slots : m[s][x] # NoFrame =>
       /\ m[s][x] \in u \ BootManager.used
       /\ m[s][x] # f
       /\ \A r \in Spaces, y \in Slots : m[r][y] = m[s][x] => r = s /\ y = x
  /\ f # NoFrame => f \in u \ BootManager.used

(* Every table and page of the tree t hangs from a present entry *)
Rooted(t) ==
  \A p \in Page :
    /\ t[Leaf(p)] # NoFrame => t[Slot(1, p)] # NoFrame
    /\ t[Slot(1, p)] # NoFrame => t[Slot(2, p)] # NoFrame
    /\ t[Slot(2, p)] # NoFrame => t[Slot(3, p)] # NoFrame
    /\ t[Slot(3, p)] # NoFrame => t[Root] # NoFrame

IInv ==
  /\ TypeOK /\ PmmExact /\ CallOK /\ SpacesOK
  /\ \A s \in Spaces : Rooted(map[s])
  /\ Exclusive(pmm.used, map, call.frame)

(* What the TLB holds *)
TlbOK ==
  tlb # NoTranslation =>
    /\ tlb.page \in Page
    /\ tlb.frame \in pmm.used
    /\ tlb.frame # call.frame
    /\ \A s \in Spaces, x \in Slots : map[s][x] = tlb.frame =>
         x = Leaf(tlb.page) /\ map[s][Root] = cr3 /\ perm[s][tlb.page] = tlb.perm

Inv == IInv /\ LoadedRootLive /\ TlbOK

-----------------------------------------------------------------------------
(* Slots of a page-table tree *)

LEMMA SlotsIn ==
  /\ Root \in Slots
  /\ \A p \in Page : Leaf(p) \in Slots
  /\ \A p \in Page, l \in 1 .. 3 : Slot(l, p) \in Slots
BY SMT DEF Slots

LEMMA SlotsApart ==
  ASSUME NEW p \in Page, NEW q \in Page, NEW k \in 1 .. 3, NEW l \in 1 .. 3
  PROVE  /\ Leaf(p) # Root /\ Leaf(p) # Slot(k, q) /\ Slot(k, p) # Root
         /\ Leaf(p) = Leaf(q) => p = q
         /\ Slot(k, p) = Slot(l, q) => k = l
BY SMT DEF Leaf, Root, Slot

(* Pages under one table are under one table of each level above *)
LEMMA SlotsNest ==
  ASSUME NEW p \in Page, NEW q \in Page
  PROVE  /\ Slot(1, p) = Slot(1, q) => Slot(2, p) = Slot(2, q)
         /\ Slot(2, p) = Slot(2, q) => Slot(3, p) = Slot(3, q)
BY SMT DEF Slot

LEMMA MaxMissing ==
  ASSUME NEW S \in SUBSET (1 .. 3), S # {}
  PROVE  Max(S) \in S /\ \A l \in S : l <= Max(S)
<1>1. \E x \in S : \A y \in S : x >= y
  <2>1. CASE 3 \in S
    BY SMT, <2>1
  <2>2. CASE 3 \notin S /\ 2 \in S
    BY SMT, <2>2
  <2>3. CASE 3 \notin S /\ 2 \notin S
    <3>1. PICK x \in S : TRUE
      OBVIOUS
    <3>2. \A y \in S : y = 1
      BY SMT, <2>3
    <3> QED
      BY SMT, <3>1, <3>2
  <2> QED
    BY <2>1, <2>2, <2>3
<1> QED
  BY <1>1 DEF Max

-----------------------------------------------------------------------------
(* Trees stay rooted *)

Tree == [Slots -> Frame \cup {NoFrame}]

LEMMA NoFrameIsNone == NoFrame \notin Frame
BY SMT, TotalFramesAssumption DEF NoFrame, Frame

LEMMA RootedNew ==
  /\ NoSpace \in Tree /\ Rooted(NoSpace)
  /\ \A g \in Frame : [NoSpace EXCEPT ![Root] = g] \in Tree /\ Rooted([NoSpace EXCEPT ![Root] = g])
<1>1. \A x \in Slots : NoSpace[x] = NoFrame
  BY DEF NoSpace
<1>2. NoSpace \in Tree
  BY DEF NoSpace, Tree
<1>3. Rooted(NoSpace)
  BY SMT, <1>1, SlotsIn DEF Rooted
<1>4. ASSUME NEW g \in Frame
      PROVE  [NoSpace EXCEPT ![Root] = g] \in Tree /\ Rooted([NoSpace EXCEPT ![Root] = g])
  <2> DEFINE t == [NoSpace EXCEPT ![Root] = g]
  <2>1. t \in Tree
    BY <1>2 DEF Tree
  <2>2. \A x \in Slots : x # Root => t[x] = NoFrame
    BY <1>1, <1>2 DEF Tree
  <2> HIDE DEF t
  <2>3. Rooted(t)
    BY SMT, <2>2, SlotsIn, SlotsApart DEF Rooted
  <2> QED
    BY <2>1, <2>3 DEF t
<1> QED
  BY <1>2, <1>3, <1>4

(* get_or_create_table makes the uppermost table that is missing *)
LEMMA RootedTable ==
  ASSUME NEW t \in Tree, Rooted(t), t[Root] # NoFrame, NEW p \in Page, Missing(t, p) # {},
         NEW g \in Frame
  PROVE  /\ Max(Missing(t, p)) \in 1 .. 3
         /\ t[Slot(Max(Missing(t, p)), p)] = NoFrame
         /\ [t EXCEPT ![Slot(Max(Missing(t, p)), p)] = g] \in Tree
         /\ Rooted([t EXCEPT ![Slot(Max(Missing(t, p)), p)] = g])
<1> DEFINE l == Max(Missing(t, p))
           n == [t EXCEPT ![Slot(l, p)] = g]
<1>1. l \in Missing(t, p) /\ \A k \in Missing(t, p) : k <= l
  BY MaxMissing DEF Missing
<1> HIDE DEF l
<1>2. l \in 1 .. 3 /\ t[Slot(l, p)] = NoFrame
  BY <1>1 DEF Missing
<1>3. \A k \in 1 .. 3 : k > l => t[Slot(k, p)] # NoFrame
  BY SMT, <1>1, <1>2 DEF Missing
<1>4. n \in Tree /\ Slot(l, p) \in Slots
  BY <1>2, SlotsIn DEF Tree
<1>5. n[Slot(l, p)] = g /\ \A x \in Slots : x # Slot(l, p) => n[x] = t[x]
  BY <1>4 DEF Tree
<1>6. g # NoFrame
  BY NoFrameIsNone
<1>7. \A x \in Slots : t[x] # NoFrame => n[x] # NoFrame
  BY <1>5, <1>6
<1> HIDE DEF n
<1>8. ASSUME NEW q \in Page
      PROVE  /\ n[Leaf(q)] # NoFrame => n[Slot(1, q)] # NoFrame
             /\ n[Slot(1, q)] # NoFrame => n[Slot(2, q)] # NoFrame
             /\ n[Slot(2, q)] # NoFrame => n[Slot(3, q)] # NoFrame
             /\ n[Slot(3, q)] # NoFrame => n[Root] # NoFrame
  <2>0. Leaf(q) \in Slots /\ Slot(1, q) \in Slots /\ Slot(2, q) \in Slots /\ Slot(3, q) \in Slots
        /\ Root \in Slots
    BY SMT, SlotsIn
  <2>1. n[Leaf(q)] = t[Leaf(q)]
    BY <1>2, <1>5, <2>0, SlotsApart
  <2>2. n[Slot(1, q)] # NoFrame => n[Slot(2, q)] # NoFrame
    <3>1. CASE Slot(1, q) = Slot(l, p)
      <4>1. l = 1
        BY SMT, <1>2, <3>1, SlotsApart
      <4>2. Slot(2, q) = Slot(2, p) /\ t[Slot(2, p)] # NoFrame
        BY SMT, <1>3, <3>1, <4>1, SlotsNest
      <4> QED
        BY <1>7, <2>0, <4>2
    <3>2. CASE Slot(1, q) # Slot(l, p)
      BY <1>5, <1>7, <2>0, <3>2 DEF Rooted
    <3> QED
      BY <3>1, <3>2
  <2>3. n[Slot(2, q)] # NoFrame => n[Slot(3, q)] # NoFrame
    <3>1. CASE Slot(2, q) = Slot(l, p)
      <4>1. l = 2
        BY SMT, <1>2, <3>1, SlotsApart
      <4>2. Slot(3, q) = Slot(3, p) /\ t[Slot(3, p)] # NoFrame
        BY SMTT(30), <1>3, <3>1, <4>1, SlotsNest
      <4> QED
        BY <1>7, <2>0, <4>2
    <3>2. CASE Slot(2, q) # Slot(l, p)
      BY <1>5, <1>7, <2>0, <3>2 DEF Rooted
    <3> QED
      BY <3>1, <3>2
  <2> QED
    BY <1>7, <2>0, <2>1, <2>2, <2>3 DEF Rooted
<1>9. Rooted(n)
  BY <1>8 DEF Rooted
<1> QED
  BY <1>2, <1>4, <1>9 DEF n, l

(* map_page writes a leaf when no table is missing *)
LEMMA RootedLeaf ==
  ASSUME NEW t \in Tree, Rooted(t), NEW p \in Page, Missing(t, p) = {}, NEW f \in Frame
  PROVE  [t EXCEPT ![Leaf(p)] = f] \in Tree /\ Rooted([t EXCEPT ![Leaf(p)] = f])
<1> DEFINE n == [t EXCEPT ![Leaf(p)] = f]
<1>1. n \in Tree
  BY DEF Tree
<1>2. \A x \in Slots : x # Leaf(p) => n[x] = t[x]
  BY DEF Tree
<1>3. t[Slot(1, p)] # NoFrame
  BY SMT DEF Missing
<1> HIDE DEF n
<1>4. Rooted(n)
  <2> SUFFICES ASSUME NEW q \in Page
               PROVE  /\ n[Leaf(q)] # NoFrame => n[Slot(1, q)] # NoFrame
                      /\ n[Slot(1, q)] # NoFrame => n[Slot(2, q)] # NoFrame
                      /\ n[Slot(2, q)] # NoFrame => n[Slot(3, q)] # NoFrame
                      /\ n[Slot(3, q)] # NoFrame => n[Root] # NoFrame
    BY DEF Rooted
  <2>1. n[Slot(1, q)] = t[Slot(1, q)] /\ n[Slot(2, q)] = t[Slot(2, q)]
        /\ n[Slot(3, q)] = t[Slot(3, q)] /\ n[Root] = t[Root]
    BY SMT, <1>2, SlotsIn, SlotsApart
  <2>2. Leaf(q) # Leaf(p) => n[Leaf(q)] = t[Leaf(q)]
    BY <1>2, SlotsIn
  <2>3. Leaf(q) = Leaf(p) => q = p
    BY SMT, SlotsApart
  <2> QED
    BY <1>3, <2>1, <2>2, <2>3 DEF Rooted
<1> QED
  BY <1>1, <1>4 DEF n

Cut(t, pages) == [x \in Slots |-> IF x \in {Leaf(p) : p \in pages} THEN NoFrame ELSE t[x]]

(* unmap_page clears leaves *)
LEMMA RootedCut ==
  ASSUME NEW t \in Tree, Rooted(t), NEW pages \in SUBSET Page
  PROVE  Cut(t, pages) \in Tree /\ Rooted(Cut(t, pages)) /\ Cut(t, pages)[Root] = t[Root]
<1> DEFINE n == Cut(t, pages)
<1>1. n \in Tree
  BY DEF Tree, Cut
<1>2. \A x \in Slots : n[x] # NoFrame => n[x] = t[x]
  BY DEF Cut
<1>3. \A x \in Slots : (\A p \in Page : x # Leaf(p)) => n[x] = t[x]
  BY DEF Cut
<1> HIDE DEF n
<1>4. n[Root] = t[Root] /\ \A q \in Page, l \in 1 .. 3 : n[Slot(l, q)] = t[Slot(l, q)]
  BY SMT, <1>3, SlotsIn, SlotsApart
<1>5. Rooted(n)
  BY SMT, <1>2, <1>4, SlotsIn DEF Rooted
<1> QED
  BY <1>1, <1>4, <1>5 DEF n

-----------------------------------------------------------------------------
(* Every frame stays in one place, and what is held stays held.  m are the *)
(* trees, f the frame a loop has in hand, u the frames in use.             *)

Forest == [Spaces -> Tree]

HeldIn(m, f) == ({m[s][x] : s \in Spaces, x \in Slots} \cup {f}) \ {NoFrame}

LEMMA HeldIsUsed ==
  ASSUME NEW u, NEW m, NEW f, Exclusive(u, m, f)
  PROVE  HeldIn(m, f) \subseteq u \ BootManager.used
BY SMT DEF Exclusive, HeldIn

LEMMA TreeOf ==
  ASSUME NEW m \in Forest, NEW s \in Spaces
  PROVE  m[s] \in Tree /\ \A x \in Slots : m[s][x] \in Frame \cup {NoFrame}
BY DEF Forest, Tree

(* alloc_frame for a page *)
LEMMA ExclusiveTake ==
  ASSUME NEW u, NEW m \in Forest, Exclusive(u, m, NoFrame), NEW g \in Frame, g \notin u
  PROVE  /\ Exclusive(u \cup {g}, m, g)
         /\ (u \cup {g}) \ HeldIn(m, g) = u \ HeldIn(m, NoFrame)
<1>1. Exclusive(u \cup {g}, m, g)
  BY SMT DEF Exclusive
<1>2. HeldIn(m, g) = HeldIn(m, NoFrame) \cup {g}
  BY SMT, NoFrameIsNone DEF HeldIn
<1>3. g \notin HeldIn(m, NoFrame)
  BY HeldIsUsed
<1> QED
  BY <1>1, <1>2, <1>3

(* m with one entry written *)
Put(m, s, x, g) == [m EXCEPT ![s][x] = g]

(* Only that entry of n differs *)
WrittenTo(m, n, s, x, g) ==
  /\ n \in Forest /\ n[s][x] = g
  /\ \A r \in Spaces : r # s => n[r] = m[r]
  /\ \A r \in Spaces, y \in Slots : (r # s \/ y # x) => n[r][y] = m[r][y]

LEMMA Written ==
  ASSUME NEW m \in Forest, NEW s \in Spaces, NEW x \in Slots, NEW g \in Frame
  PROVE  WrittenTo(m, Put(m, s, x, g), s, x, g)
<1>1. m[s] \in Tree
  BY TreeOf
<1>2. [m[s] EXCEPT ![x] = g] \in Tree /\ [m[s] EXCEPT ![x] = g][x] = g
      /\ \A y \in Slots : y # x => [m[s] EXCEPT ![x] = g][y] = m[s][y]
  BY <1>1 DEF Tree
<1> QED
  BY <1>2 DEF Forest, Put, WrittenTo

(* get_or_create_table takes a frame and links it at once *)
TableGood(u, m, f, g, n) ==
  n \in Forest /\ Exclusive(u \cup {g}, n, f) /\ (u \cup {g}) \ HeldIn(n, f) = u \ HeldIn(m, f)

LEMMA ExclusiveTable ==
  ASSUME NEW u, NEW m \in Forest, NEW f, Exclusive(u, m, f), NEW g \in Frame, g \notin u,
         NEW s \in Spaces, NEW x \in Slots, m[s][x] = NoFrame
  PROVE  TableGood(u, m, f, g, Put(m, s, x, g))
<1> DEFINE n == Put(m, s, x, g)
<1>1. /\ n \in Forest
      /\ n[s][x] = g
      /\ \A r \in Spaces, y \in Slots : (r # s \/ y # x) => n[r][y] = m[r][y]
  <2>1. WrittenTo(m, n, s, x, g)
    BY Written
  <2> HIDE DEF n
  <2> QED
    BY <2>1 DEF WrittenTo
<1>2. g # NoFrame
  BY NoFrameIsNone
<1> HIDE DEF n
<1>3. Exclusive(u \cup {g}, n, f)
  <2>1. \A r \in Spaces, y \in Slots : m[r][y] # g
    BY SMT, <1>2 DEF Exclusive
  <2>2. \A r \in Spaces, y \in Slots : n[r][y] = g => r = s /\ y = x
    BY <1>1, <2>1
  <2>3. g \notin BootManager.used /\ g # f
    BY <1>2 DEF Exclusive
  <2>4. ASSUME NEW r \in Spaces, NEW y \in Slots, n[r][y] # NoFrame
        PROVE  /\ n[r][y] \in (u \cup {g}) \ BootManager.used
               /\ n[r][y] # f
               /\ \A q \in Spaces, z \in Slots : n[q][z] = n[r][y] => q = r /\ z = y
    <3>1. CASE r = s /\ y = x
      BY <1>1, <2>2, <2>3, <3>1
    <3>2. CASE r # s \/ y # x
      <4>1. n[r][y] = m[r][y] /\ n[r][y] # g
        BY <1>1, <2>1, <3>2
      <4>2. ASSUME NEW q \in Spaces, NEW z \in Slots, n[q][z] = n[r][y]
            PROVE  q = r /\ z = y
        <5>1. n[q][z] = m[q][z]
          BY <1>1, <4>1, <4>2
        <5>2. m[q][z] = m[r][y] /\ m[r][y] # NoFrame
          BY <2>4, <4>1, <4>2, <5>1
        <5>3. \A a \in Spaces, b \in Slots : m[a][b] = m[r][y] => a = r /\ b = y
          BY <5>2, Zenon DEF Exclusive
        <5> QED
          BY <5>2, <5>3, Zenon
      <4> QED
        BY <2>4, <4>1, <4>2 DEF Exclusive
    <3> QED
      BY <3>1, <3>2
  <2> QED
    BY <2>4 DEF Exclusive
<1>4. HeldIn(n, f) = HeldIn(m, f) \cup {g}
  <2>1. \A a : a \in HeldIn(n, f) => a \in HeldIn(m, f) \cup {g}
    BY SMT, <1>1 DEF HeldIn
  <2>2. \A r \in Spaces, y \in Slots : m[r][y] # NoFrame => m[r][y] = n[r][y]
    BY <1>1
  <2>3. \A a : a \in HeldIn(m, f) \cup {g} => a \in HeldIn(n, f)
    BY SMT, <1>1, <1>2, <2>2 DEF HeldIn
  <2> QED
    BY <2>1, <2>3
<1>5. g \notin HeldIn(m, f)
  BY HeldIsUsed
<1> QED
  BY <1>1, <1>3, <1>4, <1>5 DEF n, TableGood

(* map_page moves the frame in hand to an entry; what the entry held, if   *)
(* anything, is held no more                                               *)
PlaceGood(u, m, f, s, x, n) ==
  n \in Forest /\ Exclusive(u, n, NoFrame) /\ (m[s][x] = NoFrame => HeldIn(n, NoFrame) = HeldIn(m, f))

LEMMA ExclusivePlace ==
  ASSUME NEW u, NEW m \in Forest, NEW f \in Frame, Exclusive(u, m, f),
         NEW s \in Spaces, NEW x \in Slots
  PROVE  PlaceGood(u, m, f, s, x, Put(m, s, x, f))
<1> DEFINE n == Put(m, s, x, f)
<1>1. /\ n \in Forest
      /\ n[s][x] = f
      /\ \A r \in Spaces, y \in Slots : (r # s \/ y # x) => n[r][y] = m[r][y]
  <2>1. WrittenTo(m, n, s, x, f)
    BY Written
  <2> HIDE DEF n
  <2> QED
    BY <2>1 DEF WrittenTo
<1>2. f # NoFrame
  BY NoFrameIsNone
<1> HIDE DEF n
<1>3. \A r \in Spaces, y \in Slots : m[r][y] # f
  BY <1>2 DEF Exclusive
<1>4. Exclusive(u, n, NoFrame)
  <2>1. f \in u \ BootManager.used
    BY <1>2 DEF Exclusive
  <2>2. \A r \in Spaces, y \in Slots : n[r][y] = f => r = s /\ y = x
    BY <1>1, <1>3
  <2>3. ASSUME NEW r \in Spaces, NEW y \in Slots, n[r][y] # NoFrame
        PROVE  /\ n[r][y] \in u \ BootManager.used
               /\ \A q \in Spaces, z \in Slots : n[q][z] = n[r][y] => q = r /\ z = y
    <3>1. CASE r = s /\ y = x
      BY <1>1, <2>1, <2>2, <3>1
    <3>2. CASE r # s \/ y # x
      <4>1. n[r][y] = m[r][y] /\ n[r][y] # f
        BY <1>1, <1>3, <3>2
      <4>2. ASSUME NEW q \in Spaces, NEW z \in Slots, n[q][z] = n[r][y]
            PROVE  q = r /\ z = y
        <5>1. n[q][z] = m[q][z]
          BY <1>1, <4>1, <4>2
        <5>2. m[q][z] = m[r][y] /\ m[r][y] # NoFrame
          BY <2>3, <4>1, <4>2, <5>1
        <5>3. \A a \in Spaces, b \in Slots : m[a][b] = m[r][y] => a = r /\ b = y
          BY <5>2, Zenon DEF Exclusive
        <5> QED
          BY <5>2, <5>3, Zenon
      <4> QED
        BY <2>3, <4>1, <4>2 DEF Exclusive
    <3> QED
      BY <3>1, <3>2
  <2> QED
    BY <2>3 DEF Exclusive
<1>5. ASSUME m[s][x] = NoFrame PROVE HeldIn(n, NoFrame) = HeldIn(m, f)
  <2>1. \A a : a \in HeldIn(n, NoFrame) => a \in HeldIn(m, f)
    BY SMT, <1>1 DEF HeldIn
  <2>2. \A r \in Spaces, y \in Slots : m[r][y] # NoFrame => m[r][y] = n[r][y]
    BY <1>1, <1>5
  <2>3. \A a : a \in HeldIn(m, f) => a \in HeldIn(n, NoFrame)
    BY SMT, <1>1, <1>2, <2>2 DEF HeldIn
  <2> QED
    BY <2>1, <2>3
<1> QED
  BY <1>1, <1>4, <1>5 DEF n, PlaceGood

(* Entries go, and frames that no entry left holds are given back *)
Shrinks(m, n) == \A s \in Spaces, x \in Slots : n[s][x] \in {m[s][x], NoFrame}

ShrinkGood(u, m, f, n, gone) ==
  /\ Exclusive(u \ gone, n, NoFrame)
  /\ gone = HeldIn(m, f) \ HeldIn(n, NoFrame) => (u \ gone) \ HeldIn(n, NoFrame) = u \ HeldIn(m, f)

LEMMA ExclusiveShrink ==
  ASSUME NEW u, NEW m, NEW f, Exclusive(u, m, f), NEW n, Shrinks(m, n),
         NEW gone \in SUBSET HeldIn(m, f), gone \cap HeldIn(n, NoFrame) = {}
  PROVE  ShrinkGood(u, m, f, n, gone)
<1>1. gone \cap BootManager.used = {}
  BY HeldIsUsed
<1>2. \A s \in Spaces, x \in Slots : n[s][x] # NoFrame => n[s][x] = m[s][x] /\ n[s][x] \notin gone
  BY SMT DEF HeldIn, Shrinks
<1>3. Exclusive(u \ gone, n, NoFrame)
  <2>1. BootManager.used \subseteq u \ gone
    BY <1>1 DEF Exclusive
  <2>2. ASSUME NEW s \in Spaces, NEW x \in Slots, n[s][x] # NoFrame
        PROVE  /\ n[s][x] \in (u \ gone) \ BootManager.used
               /\ \A r \in Spaces, y \in Slots : n[r][y] = n[s][x] => r = s /\ y = x
    BY SMT, <1>2, <2>2 DEF Exclusive
  <2> QED
    BY <2>1, <2>2 DEF Exclusive
<1>4. \A a : a \in HeldIn(n, NoFrame) => a \in HeldIn(m, f)
  BY SMT, <1>2 DEF HeldIn
<1> QED
  BY <1>3, <1>4 DEF ShrinkGood

(* remove_vma_range and mmap's rollback *)
CutIn(m, n, s, pages) == n[s] = Cut(m[s], pages) /\ \A r \in Spaces : r # s => n[r] = m[r]

CutFrames(m, f, s, pages) == ({m[s][Leaf(p)] : p \in pages} \cup {f}) \ {NoFrame}

GoneGood(m, f, n, gone) ==
  gone \in SUBSET HeldIn(m, f) /\ gone = HeldIn(m, f) \ HeldIn(n, NoFrame) /\ Shrinks(m, n)

LEMMA ExclusiveCut ==
  ASSUME NEW u, NEW m, NEW f, Exclusive(u, m, f), NEW s \in Spaces, NEW pages \in SUBSET Page,
         NEW n, CutIn(m, n, s, pages)
  PROVE  GoneGood(m, f, n, CutFrames(m, f, s, pages))
<1> DEFINE gone == CutFrames(m, f, s, pages)
<1>1. \A x \in Slots : n[s][x] = IF x \in {Leaf(p) : p \in pages} THEN NoFrame ELSE m[s][x]
  BY DEF Cut, CutIn
<1>2. \A r \in Spaces : r # s => n[r] = m[r]
  BY DEF CutIn
<1>3. \A p \in pages : Leaf(p) \in Slots
  BY SlotsIn
<1>4. \A a : a \in gone => a \in HeldIn(m, f)
  BY SMT, <1>3 DEF HeldIn, CutFrames
<1>5. \A a : a \in gone => a \notin HeldIn(n, NoFrame)
  <2> SUFFICES ASSUME NEW a, a \in gone, a \in HeldIn(n, NoFrame) PROVE FALSE
    OBVIOUS
  <2>1. a # NoFrame
    BY DEF CutFrames
  <2>2. PICK r \in Spaces, y \in Slots : n[r][y] = a
    BY SMT, <2>1 DEF HeldIn
  <2>3. m[r][y] = a /\ (r = s => y \notin {Leaf(p) : p \in pages})
    BY <1>1, <1>2, <2>1, <2>2
  <2>4. a # f
    BY <2>1, <2>3 DEF Exclusive
  <2>5. PICK p \in pages : a = m[s][Leaf(p)]
    BY <2>4 DEF CutFrames
  <2> QED
    BY <1>3, <2>1, <2>3, <2>5 DEF Exclusive
<1>6. \A a : a \in HeldIn(m, f) /\ a \notin HeldIn(n, NoFrame) => a \in gone
  <2> SUFFICES ASSUME NEW a, a \in HeldIn(m, f), a \notin HeldIn(n, NoFrame) PROVE a \in gone
    OBVIOUS
  <2>1. a # NoFrame
    BY SMT DEF HeldIn
  <2>2. CASE a = f
    BY <2>1, <2>2 DEF CutFrames
  <2>3. CASE a # f
    <3>1. PICK r \in Spaces, y \in Slots : m[r][y] = a
      BY SMT, <2>1, <2>3 DEF HeldIn
    <3>2. n[r][y] # a
      BY SMT, <2>1 DEF HeldIn
    <3>3. r = s /\ y \in {Leaf(p) : p \in pages}
      BY <1>1, <1>2, <3>1, <3>2
    <3> QED
      BY <2>1, <3>1, <3>3 DEF CutFrames
  <2> QED
    BY <2>2, <2>3
<1>7. Shrinks(m, n)
  BY <1>1, <1>2 DEF Shrinks
<1> QED
  BY <1>4, <1>5, <1>6, <1>7 DEF GoneGood

(* A whole space goes *)
Dropped(m, s) == [m EXCEPT ![s] = NoSpace]

LEMMA DroppedIs ==
  ASSUME NEW m \in Forest, NEW s \in Spaces
  PROVE  /\ Dropped(m, s) \in Forest
         /\ \A x \in Slots : Dropped(m, s)[s][x] = NoFrame
         /\ Dropped(m, s)[s] = NoSpace
         /\ \A r \in Spaces : r # s => Dropped(m, s)[r] = m[r]
BY RootedNew DEF Dropped, Forest, NoSpace

(* free_page_table_hierarchy, with the frame in hand *)
LEMMA ExclusiveDrop ==
  ASSUME NEW u, NEW m \in Forest, NEW f, Exclusive(u, m, f), NEW s \in Spaces
  PROVE  GoneGood(m, f, Dropped(m, s), FramesOf(m[s]) \cup ({f} \ {NoFrame}))
<1> DEFINE n == Dropped(m, s)
           gone == FramesOf(m[s]) \cup ({f} \ {NoFrame})
<1>1. (\A x \in Slots : n[s][x] = NoFrame) /\ \A r \in Spaces : r # s => n[r] = m[r]
  BY DroppedIs
<1> HIDE DEF n
<1>2. \A a : a \in gone => a \in HeldIn(m, f)
  BY SMT DEF HeldIn, FramesOf
<1>3. \A a : a \in gone => a \notin HeldIn(n, NoFrame)
  <2> SUFFICES ASSUME NEW a, a \in gone, a \in HeldIn(n, NoFrame) PROVE FALSE
    OBVIOUS
  <2>1. a # NoFrame
    BY SMT DEF HeldIn
  <2>2. PICK r \in Spaces, y \in Slots : n[r][y] = a
    BY SMT, <2>1 DEF HeldIn
  <2>3. m[r][y] = a /\ r # s
    BY <1>1, <2>1, <2>2
  <2>4. a # f
    BY <2>1, <2>3 DEF Exclusive
  <2>5. PICK x \in Slots : a = m[s][x]
    BY <2>4 DEF FramesOf
  <2> QED
    BY <2>1, <2>3, <2>5 DEF Exclusive
<1>4. \A a : a \in HeldIn(m, f) /\ a \notin HeldIn(n, NoFrame) => a \in gone
  <2> SUFFICES ASSUME NEW a, a \in HeldIn(m, f), a \notin HeldIn(n, NoFrame) PROVE a \in gone
    OBVIOUS
  <2>1. a # NoFrame
    BY SMT DEF HeldIn
  <2>2. CASE a = f
    BY <2>1, <2>2
  <2>3. CASE a # f
    <3>1. PICK r \in Spaces, y \in Slots : m[r][y] = a
      BY SMT, <2>1, <2>3 DEF HeldIn
    <3>2. n[r][y] # a
      BY SMT, <2>1 DEF HeldIn
    <3>3. r = s
      BY <1>1, <3>1, <3>2
    <3> QED
      BY <2>1, <3>1, <3>3 DEF FramesOf
  <2> QED
    BY <2>2, <2>3
<1>5. Shrinks(m, n)
  BY <1>1 DEF Shrinks
<1> QED
  BY <1>2, <1>3, <1>4, <1>5 DEF n, GoneGood

(* The space that was built becomes c's *)
Moved(m, c) == [m EXCEPT ![c] = m[Fresh], ![Fresh] = NoSpace]

LEMMA MovedIs ==
  ASSUME NEW m \in Forest, NEW c \in Procs
  PROVE  /\ Moved(m, c) \in Forest
         /\ Moved(m, c)[c] = m[Fresh]
         /\ Moved(m, c)[Fresh] = NoSpace
         /\ \A r \in Spaces : r # c /\ r # Fresh => Moved(m, c)[r] = m[r]
<1>1. c # Fresh /\ c \in Spaces /\ Fresh \in Spaces
  BY AddressSpaceAssumption DEF Spaces
<1> QED
  BY <1>1, RootedNew DEF Moved, Forest

MoveGood(u, m, f, n) == Exclusive(u, n, f) /\ HeldIn(n, f) = HeldIn(m, f)

LEMMA ExclusiveMove ==
  ASSUME NEW u, NEW m \in Forest, NEW f, Exclusive(u, m, f), NEW c \in Procs, m[c] = NoSpace
  PROVE  MoveGood(u, m, f, Moved(m, c))
<1> DEFINE n == Moved(m, c)
           back(r) == IF r = c THEN Fresh ELSE r
<1>0. Fresh \in Spaces /\ Fresh # c /\ c \in Spaces /\ \A x \in Slots : NoSpace[x] = NoFrame
  BY AddressSpaceAssumption DEF Spaces, NoSpace
<1>1. n[c] = m[Fresh] /\ n[Fresh] = NoSpace /\ \A r \in Spaces : r # c /\ r # Fresh => n[r] = m[r]
  BY MovedIs
<1> HIDE DEF n
<1>2. \A r \in Spaces, y \in Slots : n[r][y] # NoFrame =>
        r # Fresh /\ back(r) \in Spaces /\ n[r][y] = m[back(r)][y]
  BY <1>0, <1>1
<1>3. \A r, q \in Spaces : r # Fresh /\ q # Fresh /\ back(r) = back(q) => r = q
  OBVIOUS
<1> HIDE DEF back
<1>4. ASSUME NEW r \in Spaces, NEW y \in Slots, n[r][y] # NoFrame
      PROVE  /\ n[r][y] \in u \ BootManager.used
             /\ n[r][y] # f
             /\ \A q \in Spaces, z \in Slots : n[q][z] = n[r][y] => q = r /\ z = y
  <2>1. r # Fresh /\ back(r) \in Spaces /\ n[r][y] = m[back(r)][y]
    BY <1>2, <1>4
  <2>2. n[r][y] \in u \ BootManager.used /\ n[r][y] # f
        /\ \A q \in Spaces, z \in Slots : m[q][z] = n[r][y] => q = back(r) /\ z = y
    BY SMT, <1>4, <2>1 DEF Exclusive
  <2>3. ASSUME NEW q \in Spaces, NEW z \in Slots, n[q][z] = n[r][y] PROVE q = r /\ z = y
    <3>1. q # Fresh /\ back(q) \in Spaces /\ n[q][z] = m[back(q)][z]
      BY <1>2, <1>4, <2>3
    <3>2. back(q) = back(r) /\ z = y
      BY <2>2, <2>3, <3>1
    <3> QED
      BY <1>3, <2>1, <3>1, <3>2
  <2> QED
    BY <2>2, <2>3
<1>5. Exclusive(u, n, f)
  BY <1>4 DEF Exclusive
<1>6. \A a : a \in HeldIn(n, f) => a \in HeldIn(m, f)
  BY SMT, <1>2 DEF HeldIn
<1>7. \A a : a \in HeldIn(m, f) => a \in HeldIn(n, f)
  <2> SUFFICES ASSUME NEW a, a \in HeldIn(m, f), a # f PROVE a \in HeldIn(n, f)
    BY SMT DEF HeldIn
  <2>1. a # NoFrame
    BY SMT DEF HeldIn
  <2>2. PICK r \in Spaces, y \in Slots : m[r][y] = a
    BY SMT DEF HeldIn
  <2>3. r # c
    BY <1>0, <2>1, <2>2
  <2>4. \E q \in Spaces : n[q][y] = a
    BY <1>0, <1>1, <2>2, <2>3
  <2> QED
    BY SMT, <2>1, <2>4 DEF HeldIn
<1> QED
  BY <1>5, <1>6, <1>7 DEF n, MoveGood

-----------------------------------------------------------------------------
(* What the lemmas above say of the state *)

LEMMA HeldUnion ==
  ASSUME NEW m, NEW f
  PROVE  (UNION {FramesOf(m[s]) : s \in Spaces}) \cup ({f} \ {NoFrame}) = HeldIn(m, f)
<1> DEFINE all == UNION {FramesOf(m[s]) : s \in Spaces}
<1>1. \A a : a \in all <=> \E s \in Spaces : a \in FramesOf(m[s])
  BY Zenon
<1> HIDE DEF all
<1>2. \A a : a \in all \cup ({f} \ {NoFrame}) <=> a \in HeldIn(m, f)
  BY SMT, <1>1 DEF HeldIn, FramesOf
<1>3. all \cup ({f} \ {NoFrame}) = HeldIn(m, f)
  BY <1>2
<1> QED
  BY <1>3 DEF all

LEMMA LostIs ==
  /\ Lost = (pmm.used \ HeldIn(map, call.frame)) \ BootManager.used
  /\ Lost' = (pmm'.used \ HeldIn(map', call'.frame)) \ BootManager.used
<1>1. Held = HeldIn(map, call.frame)
  BY HeldUnion DEF Held
<1>2. Held' = HeldIn(map', call'.frame)
  BY HeldUnion DEF Held
<1>3. Lost = pmm.used \ (Held \cup BootManager.used) /\ Lost' = pmm'.used \ (Held' \cup BootManager.used)
  BY DEF Lost
<1> QED
  BY <1>1, <1>2, <1>3

LEMMA TypeForest ==
  ASSUME TypeOK
  PROVE  map \in Forest /\ pmm \in Manager
BY DEF TypeOK, Forest, Tree

LEMMA SpacesKinds == Fresh \in Spaces /\ Procs \subseteq Spaces /\ Fresh \notin Procs /\ Idle \notin Procs
BY AddressSpaceAssumption DEF Spaces

LEMMA ManagerUsed ==
  ASSUME NEW m \in Manager
  PROVE  m.used \subseteq Frame
BY DEF Manager

LEMMA FromProtIs ==
  ASSUME NEW prot
  PROVE  FromProt(prot) \in Attributes
<1>1. ("w" \in prot) \in BOOLEAN /\ ("x" \notin prot) \in BOOLEAN
  BY SMT
<1> QED
  BY <1>1 DEF FromProt, Attributes

LEMMA NoCallIs ==
  /\ NoCall.at = "user" /\ NoCall.op = "none" /\ NoCall.frame = NoFrame /\ NoCall.done = {}
  /\ NoCall = [at |-> NoCall.at, op |-> NoCall.op, todo |-> NoCall.todo, item |-> NoCall.item,
               frame |-> NoCall.frame, done |-> NoCall.done, vma |-> NoCall.vma, roll |-> NoCall.roll,
               segs |-> NoCall.segs, fits |-> NoCall.fits]
BY DEF NoCall

(* VmSpace::new *)
LEMMA NewSpaceKeeps ==
  ASSUME IInv, call.at = "user", NextFree(pmm) # NoFrame, NEW list, NewSpace(list)
  PROVE  /\ pmm' \in Manager /\ ManagerExact(pmm') /\ pmm'.used = pmm.used \cup {NextFree(pmm)}
         /\ NextFree(pmm) \in Frame \ pmm.used
         /\ map' \in Forest /\ \A s \in Spaces : Rooted(map'[s])
         /\ map'[Fresh][Root] = NextFree(pmm)
         /\ \A x \in Slots : x # Root => map'[Fresh][x] = NoFrame
         /\ \A s \in Procs : map'[s] = map[s]
         /\ Exclusive(pmm'.used, map', NoFrame)
         /\ pmm'.used \ HeldIn(map', NoFrame) = pmm.used \ HeldIn(map, call.frame)
<1> DEFINE g == NextFree(pmm)
<1>1. map \in Forest /\ pmm \in Manager /\ ManagerExact(pmm) /\ Exclusive(pmm.used, map, NoFrame)
      /\ call.frame = NoFrame /\ map[Fresh] = NoSpace /\ \A s \in Spaces : Rooted(map[s])
  BY TypeForest DEF IInv, PmmExact, CallOK, SpacesOK
<1>2. pmm' = AllocFrame(pmm) /\ map' = [map EXCEPT ![Fresh] = [NoSpace EXCEPT ![Root] = g]]
  BY DEF NewSpace
<1>3. g \in Frame \ pmm.used
  BY <1>1, NextFreeIsClear
<1>4. pmm' \in Manager /\ ManagerExact(pmm') /\ pmm'.used = pmm.used \cup {g}
  BY <1>1, <1>2, AllocExact
<1> HIDE DEF g
<1>5. map' = Put(map, Fresh, Root, g)
  BY <1>1, <1>2 DEF Put
<1>6. Fresh \in Spaces /\ Root \in Slots /\ map[Fresh][Root] = NoFrame
  BY <1>1, SpacesKinds, SlotsIn DEF NoSpace
<1>7. /\ map' \in Forest
      /\ Exclusive(pmm.used \cup {g}, map', NoFrame)
      /\ (pmm.used \cup {g}) \ HeldIn(map', NoFrame) = pmm.used \ HeldIn(map, NoFrame)
  <2>1. g \in Frame /\ g \notin pmm.used
    BY <1>3
  <2>2. TableGood(pmm.used, map, NoFrame, g, Put(map, Fresh, Root, g))
    BY <1>1, <1>6, <2>1, ExclusiveTable
  <2> QED
    BY <1>5, <2>2 DEF TableGood
<1>8. map'[Fresh] = [NoSpace EXCEPT ![Root] = g] /\ \A s \in Spaces : s # Fresh => map'[s] = map[s]
  BY <1>1, <1>2, <1>6 DEF Forest
<1>9. \A s \in Spaces : Rooted(map'[s])
  BY <1>1, <1>3, <1>8, RootedNew
<1>10. map'[Fresh][Root] = g /\ \A x \in Slots : x # Root => map'[Fresh][x] = NoFrame
  BY <1>6, <1>8 DEF NoSpace
<1> QED
  BY <1>1, <1>3, <1>4, <1>7, <1>8, <1>9, <1>10, SpacesKinds DEF g

(* A step that leaves the trees, the frames in use and the frame in hand *)
LEMMA SameMemory ==
  ASSUME IInv, pmm' = pmm, map' = map, call'.frame = call.frame
  PROVE  /\ map' \in Forest /\ pmm' \in Manager /\ PmmExact'
         /\ (\A s \in Spaces : Rooted(map[s]))'
         /\ Exclusive(pmm.used, map, call.frame)'
         /\ Lost' = Lost
<1>1. map \in Forest /\ pmm \in Manager
  BY TypeForest DEF IInv
<1>2. Lost' = Lost
  BY LostIs
<1> QED
  BY <1>1, <1>2 DEF IInv, PmmExact

(* What no step between two calls changes, and every call starts from *)
LEMMA UserState ==
  ASSUME IInv, call.at = "user"
  PROVE  /\ call.op = "none" /\ call.frame = NoFrame /\ map[Fresh] = NoSpace
         /\ next \in [Procs -> Nat]
BY DEF IInv, CallOK, SpacesOK

LEMMA PagesAreItems ==
  ASSUME NEW start \in Nat, NEW end \in Nat, end <= UserPages * PageSize,
         NEW prot \in SUBSET {"r", "w", "x"}, NEW flags
  PROVE  PagesOfVma(Vma(start, end, prot, flags)) \in Seq(Item)
<1> DEFINE v == Vma(start, end, prot, flags)
           lo == PageOf(start)
           hi == DivCeil(end)
<1>1. lo \in Nat
  BY DivBounds, AddressSpaceAssumption, PageSizeAssumption DEF PageOf
<1>2. hi \in Nat /\ hi <= UserPages
  BY PagesBelow
<1>3. v.start = start /\ v.end = end /\ v.prot = prot
  BY DEF Vma
<1>4. PagesOfVma(v) = [k \in 1 .. hi - lo |-> [page |-> lo + k - 1, prot |-> prot]]
  BY <1>3 DEF PagesOfVma
<1> HIDE DEF v, lo, hi
<1>5. \A k \in 1 .. hi - lo : [page |-> lo + k - 1, prot |-> prot] \in Item
  BY SMT, <1>1, <1>2, AddressSpaceAssumption DEF Item, Page
<1>6. CASE lo <= hi
  <2>1. hi - lo \in Nat
    BY SMT, <1>1, <1>2, <1>6
  <2> QED
    BY SMT, <1>4, <1>5, <2>1 DEF v
<1>7. CASE lo > hi
  <2>1. 1 .. hi - lo = 1 .. 0
    BY SMT, <1>1, <1>2, <1>7
  <2>2. PagesOfVma(v) = <<>>
    BY SMT, <1>4, <2>1
  <2> QED
    BY SMT, <2>2 DEF v
<1> QED
  BY SMT, <1>1, <1>2, <1>6, <1>7

-----------------------------------------------------------------------------
(* The calls, up to their loops *)

(* A step that changes neither the trees nor what is mapped where *)
LEMMA SameTlb ==
  ASSUME Inv, pmm' = pmm, map' = map, call'.frame = call.frame,
         UNCHANGED <<cr3, tlb, run, life, perm>>
  PROVE  LoadedRootLive' /\ TlbOK'
BY DEF Inv, LoadedRootLive, HasSpace, TlbOK

LEMMA SysMmapKeeps ==
  ASSUME Inv, NEW addr \in Addrs, NEW length \in Lengths, NEW prot \in Prots, NEW flags,
         SysMmap(addr, length, prot, flags)
  PROVE  Inv' /\ Lost' = Lost
<1> DEFINE start == MmapStart(addr, length)
           end == start + DivCeil(length) * PageSize
           v == Vma(start, end, prot, flags)
<1>0. IInv /\ TypeOK /\ call.at = "user" /\ run \in Procs /\ map[run][Root] # NoFrame
  BY DEF Inv, IInv, TypeOK, SysMmap, Enter, InUser, HasSpace
<1>1. call.op = "none" /\ call.frame = NoFrame /\ map[Fresh] = NoSpace /\ next \in [Procs -> Nat]
  BY <1>0, UserState
<1>2. /\ call' = [NoCall EXCEPT !.at = "alloc", !.op = "mmap", !.vma = v, !.todo = PagesOfVma(v),
                                !.roll = next[run]]
      /\ next' = [next EXCEPT ![run] = IF addr = 0 THEN end ELSE @]
      /\ end <= UserPages * PageSize
      /\ UNCHANGED <<pmm, map, perm, vmas, cr3, tlb, run, life>>
  BY DEF SysMmap, MmapAccepts
<1>3. call' = [at |-> "alloc", op |-> "mmap", todo |-> PagesOfVma(v), item |-> NoItem, frame |-> NoFrame,
               done |-> {}, vma |-> v, roll |-> next[run], segs |-> <<>>, fits |-> TRUE]
  BY <1>2 DEF NoCall
<1>4. PageSize \in Nat \ {0} /\ addr \in Nat /\ length \in Nat
  BY AddressSpaceAssumption, PageSizeAssumption
<1>5. PageOf(addr) \in Nat /\ DivCeil(length) \in Nat
  <2>1. length + PageSize - 1 \in Nat
    BY SMT, <1>4
  <2> QED
    BY <1>4, <2>1, DivBounds DEF PageOf, DivCeil
<1>6. start \in Nat /\ end \in Nat
  <2>1. PageOf(addr) * PageSize \in Nat /\ DivCeil(length) * PageSize \in Nat
    BY <1>4, <1>5, Mul
  <2>2. start \in Nat
    BY <1>0, <1>1, <2>1 DEF MmapStart
  <2> QED
    BY SMT, <2>1, <2>2
<1>7. PagesOfVma(v) \in Seq(Item)
  BY <1>2, <1>6, PagesAreItems, AddressSpaceAssumption
<1> HIDE DEF start, end, v
<1>8. next' \in [Procs -> Nat] /\ next[run] \in Nat
  BY <1>0, <1>1, <1>2, <1>6
<1>9. call'.frame = call.frame
  BY <1>1, <1>3
<1>10. CallShape' /\ call'.at = "alloc" /\ call'.op = "mmap" /\ call'.todo = PagesOfVma(v)
       /\ call'.frame = NoFrame /\ call'.done = {} /\ call'.roll = next[run]
  BY <1>3 DEF CallShape
<1>11. CallOK'
  BY <1>0, <1>2, <1>7, <1>8, <1>10 DEF CallOK
<1>12. SpacesOK'
  BY <1>0, <1>1, <1>2, <1>3 DEF IInv, SpacesOK, HasSpace
<1>13. TypeOK'
  BY <1>0, <1>2, <1>10 DEF TypeOK
<1>14. IInv' /\ Lost' = Lost
  BY <1>0, <1>2, <1>9, <1>11, <1>12, <1>13, SameMemory DEF IInv
<1>15. LoadedRootLive' /\ TlbOK'
  BY <1>2, <1>9, SameTlb
<1> QED
  BY <1>14, <1>15 DEF Inv

LEMMA SysMprotectKeeps ==
  ASSUME Inv, NEW addr \in Addrs, NEW length \in Lengths, NEW prot \in Prots,
         SysMprotect(addr, length, prot)
  PROVE  Inv' /\ Lost' = Lost
<1> DEFINE pages == PagesOf(addr, RangeEnd(addr, length))
<1>0. IInv /\ TypeOK /\ call.at = "user" /\ run \in Procs /\ map[run][Root] # NoFrame
  BY DEF Inv, IInv, TypeOK, SysMprotect, Enter, InUser, HasSpace
<1>1. call.op = "none" /\ call.frame = NoFrame /\ map[Fresh] = NoSpace /\ next \in [Procs -> Nat]
  BY <1>0, UserState
<1>2. /\ perm' = [perm EXCEPT ![run] =
                     [p \in Page |-> IF p \in pages \cap MappedPages(map[run])
                                    THEN FromProt(prot) ELSE perm[run][p]]]
      /\ tlb' = IF tlb.page \in pages \cap MappedPages(map[run]) THEN NoTranslation ELSE tlb
      /\ UNCHANGED <<pmm, map, next, cr3, run, life, call>>
  BY DEF SysMprotect, SetPageFlags
<1>3. run \in Spaces
  BY <1>0, SpacesKinds
<1>4. perm' \in [Spaces -> [Page -> Attributes]]
  BY <1>0, <1>2, FromProtIs DEF TypeOK
<1>5. CallOK' /\ SpacesOK' /\ TypeOK'
  BY <1>0, <1>2, <1>4 DEF IInv, CallOK, CallShape, SpacesOK, TypeOK, HasSpace
<1>6. IInv' /\ Lost' = Lost
  BY <1>0, <1>2, <1>5, SameMemory DEF IInv
<1>7. LoadedRootLive'
  BY <1>2 DEF Inv, LoadedRootLive, HasSpace
<1>8. TlbOK'
  <2> SUFFICES ASSUME tlb' # NoTranslation PROVE TlbOK'
    BY DEF TlbOK
  <2>1. tlb' = tlb /\ tlb.page \notin pages \cap MappedPages(map[run])
    BY <1>2
  <2>2. /\ tlb.page \in Page /\ tlb.frame \in pmm.used /\ tlb.frame # call.frame
        /\ \A s \in Spaces, x \in Slots : map[s][x] = tlb.frame =>
             x = Leaf(tlb.page) /\ map[s][Root] = cr3 /\ perm[s][tlb.page] = tlb.perm
    BY <2>1 DEF Inv, TlbOK
  <2>3. \A s \in Spaces : perm'[s][tlb.page] = perm[s][tlb.page]
    BY <1>0, <1>2, <1>3, <2>1, <2>2 DEF TypeOK
  <2> QED
    BY SMT, <1>2, <2>1, <2>2, <2>3 DEF TlbOK
<1> QED
  BY <1>6, <1>7, <1>8 DEF Inv

(* Pages of the running process are unmapped and freed, by munmap or by    *)
(* mmap when it gives up                                                   *)
LEMMA UnmapKeeps ==
  ASSUME Inv, run \in Procs, map[run][Root] # NoFrame, map[Fresh] = NoSpace,
         NEW pages \in SUBSET Page,
         Unmap(run, pages), call'.frame = NoFrame,
         pmm' = FreeFrames(pmm, LeafFrames(run, pages) \cup ({call.frame} \ {NoFrame})),
         UNCHANGED <<perm, cr3, run, life>>
  PROVE  /\ map' \in Forest /\ pmm' \in Manager /\ PmmExact'
         /\ (\A s \in Spaces : Rooted(map[s]))'
         /\ Exclusive(pmm.used, map, call.frame)'
         /\ map'[run][Root] = map[run][Root]
         /\ \A s \in Spaces : s # run => map'[s] = map[s]
         /\ Lost' = Lost
         /\ LoadedRootLive' /\ TlbOK'
<1> DEFINE gone == LeafFrames(run, pages) \cup ({call.frame} \ {NoFrame})
<1>0. map \in Forest /\ pmm \in Manager /\ ManagerExact(pmm) /\ Exclusive(pmm.used, map, call.frame)
      /\ run \in Spaces /\ \A s \in Spaces : Rooted(map[s])
  BY TypeForest, SpacesKinds DEF Inv, IInv, PmmExact
<1>1. map[run] \in Tree
  BY <1>0, TreeOf
<1>2. map' = [map EXCEPT ![run] = Cut(map[run], pages)]
      /\ tlb' = IF tlb.page \in pages THEN NoTranslation ELSE tlb
  BY DEF Unmap, Cut
<1>3. Cut(map[run], pages) \in Tree /\ Rooted(Cut(map[run], pages)) /\ Cut(map[run], pages)[Root] = map[run][Root]
  BY <1>0, <1>1, RootedCut
<1>4. map' \in Forest /\ map'[run] = Cut(map[run], pages) /\ \A s \in Spaces : s # run => map'[s] = map[s]
  BY <1>0, <1>2, <1>3 DEF Forest
<1>5. \A s \in Spaces, x \in Slots : map'[s][x] \in {map[s][x], NoFrame}
  BY SMTT(30), <1>4 DEF Cut
<1>6. gone \in SUBSET HeldIn(map, call.frame) /\ gone = HeldIn(map, call.frame) \ HeldIn(map', NoFrame)
      /\ Shrinks(map, map')
  <2>1. gone = CutFrames(map, call.frame, run, pages)
    BY DEF LeafFrames, CutFrames
  <2>2. CutIn(map, map', run, pages)
    BY <1>4 DEF CutIn
  <2> HIDE DEF gone
  <2>3. GoneGood(map, call.frame, map', CutFrames(map, call.frame, run, pages))
    BY <1>0, <2>2, ExclusiveCut
  <2>4. GoneGood(map, call.frame, map', gone)
    BY <2>1, <2>3
  <2> QED
    BY <2>4 DEF GoneGood
<1> HIDE DEF gone
<1>7. gone \in SUBSET pmm.used
  BY <1>0, <1>6, HeldIsUsed
<1>8. pmm' \in Manager /\ ManagerExact(pmm') /\ pmm'.used = pmm.used \ gone
  BY <1>0, <1>7, FreeExact DEF gone
<1>9. Exclusive(pmm'.used, map', NoFrame)
      /\ pmm'.used \ HeldIn(map', NoFrame) = pmm.used \ HeldIn(map, call.frame)
  <2>1. gone \cap HeldIn(map', NoFrame) = {}
    BY <1>6
  <2>2. /\ Exclusive(pmm.used \ gone, map', NoFrame)
        /\ gone = HeldIn(map, call.frame) \ HeldIn(map', NoFrame) =>
             (pmm.used \ gone) \ HeldIn(map', NoFrame) = pmm.used \ HeldIn(map, call.frame)
    <3>1. ShrinkGood(pmm.used, map, call.frame, map', gone)
      BY <1>0, <1>6, <2>1, ExclusiveShrink
    <3> QED
      BY <3>1 DEF ShrinkGood
  <2> QED
    BY <1>6, <1>8, <2>2
<1>10. Lost' = Lost
  BY <1>9, LostIs
<1>11. \A s \in Spaces : map'[s][Root] = map[s][Root] /\ Rooted(map'[s])
  BY <1>0, <1>3, <1>4
<1>12. LoadedRootLive'
  BY <1>11, SpacesKinds, AddressSpaceAssumption DEF Inv, LoadedRootLive, HasSpace
<1>13. TlbOK'
  <2> SUFFICES ASSUME tlb' # NoTranslation PROVE TlbOK'
    BY DEF TlbOK
  <2>1. tlb' = tlb /\ tlb.page \notin pages
    BY <1>2
  <2>2. /\ tlb.page \in Page /\ tlb.frame \in pmm.used /\ tlb.frame # call.frame
        /\ \A s \in Spaces, x \in Slots : map[s][x] = tlb.frame =>
             x = Leaf(tlb.page) /\ map[s][Root] = cr3 /\ perm[s][tlb.page] = tlb.perm
    BY <2>1 DEF Inv, TlbOK
  <2>3. tlb.frame # NoFrame
    BY <1>0, <2>2, ManagerUsed, NoFrameIsNone
  <2>4. tlb.frame \notin gone
    <3> SUFFICES ASSUME NEW p \in pages, tlb.frame = map[run][Leaf(p)] PROVE FALSE
      BY <2>2 DEF gone, LeafFrames
    <3>1. Leaf(p) = Leaf(tlb.page) /\ p \in Page
      BY <1>0, <2>2, SlotsIn
    <3>2. p = tlb.page
      BY SMT, <2>2, <3>1, SlotsApart
    <3> QED
      BY <2>1, <3>2
  <2>5. \A s \in Spaces, x \in Slots : map'[s][x] = tlb.frame => map[s][x] = tlb.frame
    BY <1>5, <2>3
  <2> QED
    BY <1>8, <1>9, <1>11, <2>1, <2>2, <2>3, <2>4, <2>5 DEF TlbOK
<1>14. Exclusive(pmm.used, map, call.frame)' /\ PmmExact'
  BY <1>8, <1>9 DEF PmmExact
<1> QED
  BY <1>3, <1>4, <1>8, <1>10, <1>11, <1>12, <1>13, <1>14

LEMMA SysMunmapKeeps ==
  ASSUME Inv, NEW addr \in Addrs, NEW length \in Lengths, SysMunmap(addr, length)
  PROVE  Inv' /\ Lost' = Lost
<1> DEFINE pages == PagesOf(addr, RangeEnd(addr, length))
<1>0. IInv /\ TypeOK /\ call.at = "user" /\ run \in Procs /\ map[run][Root] # NoFrame
  BY DEF Inv, IInv, TypeOK, SysMunmap, Enter, InUser, HasSpace
<1>1. call.op = "none" /\ call.frame = NoFrame /\ map[Fresh] = NoSpace
  BY <1>0, UserState
<1>2. /\ Unmap(run, pages)
      /\ pmm' = FreeFrames(pmm, LeafFrames(run, pages))
      /\ UNCHANGED <<perm, next, cr3, run, life, call>>
  BY DEF SysMunmap
<1>3. pages \in SUBSET Page
  <2>1. addr \in Nat /\ length \in Nat /\ PageSize \in Nat \ {0}
    BY AddressSpaceAssumption, PageSizeAssumption
  <2>2. PageOf(addr) \in Nat /\ DivCeil(length) * PageSize \in Nat
    <3>1. length + PageSize - 1 \in Nat
      BY SMT, <2>1
    <3>2. DivCeil(length) \in Nat
      BY <2>1, <3>1, DivBounds DEF DivCeil
    <3> QED
      BY <2>1, <3>2, DivBounds, Mul DEF PageOf
  <2>3. RangeEnd(addr, length) \in Nat /\ RangeEnd(addr, length) <= UserPages * PageSize
    BY SMT, <2>1, <2>2 DEF SysMunmap, RangeAccepted, RangeEnd
  <2>4. DivCeil(RangeEnd(addr, length)) \in Nat /\ DivCeil(RangeEnd(addr, length)) <= UserPages
    BY <2>3, PagesBelow
  <2> QED
    BY SMT, <2>2, <2>4, AddressSpaceAssumption DEF PagesOf, Page
<1> HIDE DEF pages
<1>4. LeafFrames(run, pages) \cup ({call.frame} \ {NoFrame}) = LeafFrames(run, pages)
      /\ call'.frame = NoFrame
  BY <1>1, <1>2
<1>5. /\ map' \in Forest /\ pmm' \in Manager /\ PmmExact'
      /\ (\A s \in Spaces : Rooted(map[s]))'
      /\ Exclusive(pmm.used, map, call.frame)'
      /\ map'[run][Root] = map[run][Root]
      /\ \A s \in Spaces : s # run => map'[s] = map[s]
      /\ Lost' = Lost
      /\ LoadedRootLive' /\ TlbOK'
  BY <1>0, <1>1, <1>2, <1>3, <1>4, UnmapKeeps
<1>6. TypeOK'
  BY <1>0, <1>2, <1>5 DEF TypeOK, Forest, Tree
<1>7. CallOK'
  BY <1>0, <1>2 DEF IInv, CallOK, CallShape
<1>8. SpacesOK'
  BY <1>0, <1>1, <1>2, <1>5, SpacesKinds DEF IInv, SpacesOK
<1> QED
  BY <1>5, <1>6, <1>7, <1>8 DEF Inv, IInv

(* The start of fork and of exec *)
LEMMA BeginKeeps ==
  ASSUME Inv, call.at = "user", run \in Procs, NextFree(pmm) # NoFrame, NEW list, NewSpace(list),
         CallOK', call'.op \in {"fork", "exec"}, call'.op = "fork" => map[run][Root] # NoFrame,
         call'.frame = NoFrame, call'.done = {}, UNCHANGED <<perm, cr3, tlb, run, life>>
  PROVE  Inv' /\ Lost' = Lost
<1>0. IInv /\ TypeOK /\ map \in Forest /\ pmm \in Manager
  BY TypeForest DEF Inv, IInv
<1>1. /\ pmm' \in Manager /\ ManagerExact(pmm') /\ pmm'.used = pmm.used \cup {NextFree(pmm)}
      /\ NextFree(pmm) \in Frame \ pmm.used
      /\ map' \in Forest /\ \A s \in Spaces : Rooted(map'[s])
      /\ map'[Fresh][Root] = NextFree(pmm)
      /\ \A x \in Slots : x # Root => map'[Fresh][x] = NoFrame
      /\ \A s \in Procs : map'[s] = map[s]
      /\ Exclusive(pmm'.used, map', NoFrame)
      /\ pmm'.used \ HeldIn(map', NoFrame) = pmm.used \ HeldIn(map, call.frame)
  BY <1>0, NewSpaceKeeps
<1>2. TypeOK'
  BY <1>0, <1>1 DEF TypeOK, Forest, Tree
<1>3. SpacesOK'
  BY <1>0, <1>1, NoFrameIsNone DEF IInv, SpacesOK, HasSpace
<1>4. IInv'
  BY <1>1, <1>2, <1>3 DEF IInv, PmmExact
<1>5. Lost' = Lost
  BY <1>1, LostIs
<1>6. LoadedRootLive'
  BY <1>1, AddressSpaceAssumption DEF Inv, LoadedRootLive, HasSpace
<1>7. TlbOK'
  <2> SUFFICES ASSUME tlb # NoTranslation PROVE TlbOK'
    BY DEF TlbOK
  <2>1. /\ tlb.page \in Page /\ tlb.frame \in pmm.used
        /\ \A s \in Spaces, x \in Slots : map[s][x] = tlb.frame =>
             x = Leaf(tlb.page) /\ map[s][Root] = cr3 /\ perm[s][tlb.page] = tlb.perm
    BY DEF Inv, TlbOK
  <2>2. tlb.frame # NoFrame /\ tlb.frame # NextFree(pmm)
    BY <1>0, <1>1, <2>1, ManagerUsed, NoFrameIsNone
  <2>3. \A x \in Slots : map'[Fresh][x] # tlb.frame
    BY <1>1, <2>2
  <2>4. \A s \in Spaces : s = Fresh \/ s \in Procs
    BY DEF Spaces
  <2> QED
    BY SMTT(30), <1>1, <2>1, <2>2, <2>3, <2>4 DEF TlbOK
<1> QED
  BY <1>4, <1>5, <1>6, <1>7 DEF Inv

LEMMA ForkKeeps ==
  ASSUME Inv, Fork
  PROVE  Inv' /\ Lost' = Lost
<1> DEFINE pages == Concat([i \in DOMAIN vmas[run] |-> PagesOfVma(vmas[run][i])])
<1>0. call.at = "user" /\ run \in Procs /\ map[run][Root] # NoFrame /\ next \in [Procs -> Nat]
  BY UserState DEF Inv, IInv, TypeOK, Fork, Enter, InUser, HasSpace
<1>1. call' = [NoCall EXCEPT !.at = "alloc", !.op = "fork", !.todo = pages]
      /\ UNCHANGED <<perm, next, cr3, tlb, run, life>>
  BY DEF Fork
<1> HIDE DEF pages
<1>2. CallShape' /\ call'.at = "alloc" /\ call'.op = "fork" /\ call'.frame = NoFrame /\ call'.done = {}
  BY <1>1 DEF NoCall, CallShape
<1>3. CallOK'
  BY <1>0, <1>1, <1>2 DEF CallOK
<1> QED
  BY <1>0, <1>1, <1>2, <1>3, BeginKeeps DEF Fork

LEMMA ExecKeeps ==
  ASSUME Inv, NEW image \in Images, Exec(image)
  PROVE  Inv' /\ Lost' = Lost
<1>0. call.at = "user" /\ run \in Procs /\ next \in [Procs -> Nat]
  BY UserState DEF Inv, IInv, TypeOK, Exec
<1>1. call' = [NoCall EXCEPT !.at = "segment", !.op = "exec", !.segs = Append(image.segs, UserStack),
                             !.fits = image.fits]
      /\ UNCHANGED <<perm, next, cr3, tlb, run, life>>
  BY DEF Exec
<1>2. CallShape' /\ call'.at = "segment" /\ call'.op = "exec" /\ call'.frame = NoFrame /\ call'.done = {}
      /\ call'.todo = <<>> /\ call'.segs = Append(image.segs, UserStack)
  BY <1>1 DEF NoCall, CallShape
<1>3. call'.segs \in Seq(UserSegment)
  BY SMTT(30), <1>2, ImagesAssumption
<1>4. call'.todo \in Seq(Item)
  BY SMT, <1>2
<1>5. CallOK'
  BY <1>0, <1>1, <1>2, <1>3, <1>4 DEF CallOK
<1> QED
  BY <1>0, <1>1, <1>2, <1>5, BeginKeeps DEF Exec

-----------------------------------------------------------------------------
(* Failure and teardown *)

(* The TLB holds nothing of the space being built, nor of another process *)
LEMMA TlbNotIn ==
  ASSUME Inv, tlb # NoTranslation, NEW s \in Spaces, s = Fresh \/ (s # run /\ run # Idle)
  PROVE  \A x \in Slots : map[s][x] # tlb.frame
<1> SUFFICES ASSUME NEW x \in Slots, map[s][x] = tlb.frame PROVE FALSE
  OBVIOUS
<1>1. map[s][Root] = cr3
  BY DEF Inv, TlbOK
<1>2. map[s][Root] \in Frame \cup {NoFrame}
  BY TypeForest, TreeOf, SlotsIn DEF Inv, IInv
<1>3. cr3 # BootRoot
  BY SMT, <1>1, <1>2, TotalFramesAssumption DEF BootRoot, Frame, NoFrame
<1>4. PICK r \in Procs : map[r][Root] # NoFrame /\ cr3 = map[r][Root] /\ run \in {r, Idle}
  BY <1>3 DEF Inv, LoadedRootLive, HasSpace
<1>5. r = s
  BY SMTT(30), <1>1, <1>4, SpacesKinds, SlotsIn DEF Inv, IInv, Exclusive
<1> QED
  BY <1>4, <1>5, SpacesKinds

(* free_page_table_hierarchy *)
LEMMA DropKeeps ==
  ASSUME Inv, NEW s \in Spaces, map' = Dropped(map, s), call'.frame = NoFrame,
         pmm' = FreeFrames(pmm, FramesOf(map[s]) \cup ({call.frame} \ {NoFrame}))
  PROVE  /\ map' \in Forest /\ pmm' \in Manager /\ PmmExact'
         /\ (\A r \in Spaces : Rooted(map[r]))'
         /\ Exclusive(pmm.used, map, call.frame)'
         /\ pmm'.used = pmm.used \ (FramesOf(map[s]) \cup ({call.frame} \ {NoFrame}))
         /\ Lost' = Lost
<1> DEFINE gone == FramesOf(map[s]) \cup ({call.frame} \ {NoFrame})
<1>0. map \in Forest /\ pmm \in Manager /\ ManagerExact(pmm) /\ Exclusive(pmm.used, map, call.frame)
      /\ \A r \in Spaces : Rooted(map[r])
  BY TypeForest DEF Inv, IInv, PmmExact
<1>1. /\ map' \in Forest
      /\ \A x \in Slots : map'[s][x] = NoFrame
      /\ map'[s] = NoSpace
      /\ \A r \in Spaces : r # s => map'[r] = map[r]
  BY <1>0, DroppedIs
<1>2. gone \in SUBSET HeldIn(map, call.frame) /\ gone = HeldIn(map, call.frame) \ HeldIn(map', NoFrame)
  <2>1. GoneGood(map, call.frame, map', gone)
    BY <1>0, ExclusiveDrop
  <2> QED
    BY <2>1 DEF GoneGood
<1> HIDE DEF gone
<1>3. gone \in SUBSET pmm.used
  BY <1>0, <1>2, HeldIsUsed
<1>4. pmm' \in Manager /\ ManagerExact(pmm') /\ pmm'.used = pmm.used \ gone
  BY <1>0, <1>3, FreeExact DEF gone
<1>5. Shrinks(map, map') /\ gone \cap HeldIn(map', NoFrame) = {}
  BY <1>1, <1>2 DEF Shrinks
<1>6. /\ Exclusive(pmm.used \ gone, map', NoFrame)
      /\ gone = HeldIn(map, call.frame) \ HeldIn(map', NoFrame) =>
           (pmm.used \ gone) \ HeldIn(map', NoFrame) = pmm.used \ HeldIn(map, call.frame)
  <2>1. ShrinkGood(pmm.used, map, call.frame, map', gone)
    BY <1>0, <1>2, <1>5, ExclusiveShrink
  <2> QED
    BY <2>1 DEF ShrinkGood
<1>7. Lost' = Lost
  BY <1>2, <1>4, <1>6, LostIs
<1>8. Exclusive(pmm.used, map, call.frame)' /\ PmmExact'
  BY <1>4, <1>6 DEF PmmExact
<1>9. \A r \in Spaces : Rooted(map'[r])
  BY <1>0, <1>1, RootedNew
<1> QED
  BY <1>1, <1>4, <1>7, <1>8, <1>9 DEF gone

(* Dropping a space leaves what CR3 and the TLB hold alone *)
LEMMA DropTlb ==
  ASSUME Inv, NEW s \in Spaces, s = Fresh \/ (s # run /\ run # Idle), map' = Dropped(map, s),
         call'.frame = NoFrame, pmm' \in Manager,
         pmm.used \ (FramesOf(map[s]) \cup ({call.frame} \ {NoFrame})) \subseteq pmm'.used,
         perm' = [perm EXCEPT ![s] = NoPerm], UNCHANGED <<cr3, tlb, run>>
  PROVE  TlbOK'
<1> SUFFICES ASSUME tlb # NoTranslation PROVE TlbOK'
  BY DEF TlbOK
<1>1. /\ tlb.page \in Page /\ tlb.frame \in pmm.used /\ tlb.frame # call.frame
      /\ \A r \in Spaces, x \in Slots : map[r][x] = tlb.frame =>
           x = Leaf(tlb.page) /\ map[r][Root] = cr3 /\ perm[r][tlb.page] = tlb.perm
  BY DEF Inv, TlbOK
<1>2. \A x \in Slots : map[s][x] # tlb.frame
  BY TlbNotIn
<1>3. tlb.frame \in pmm'.used
  BY <1>1, <1>2 DEF FramesOf
<1>4. tlb.frame # NoFrame
  BY <1>3, ManagerUsed, NoFrameIsNone
<1>5. (\A x \in Slots : map'[s][x] = NoFrame) /\ (\A r \in Spaces : r # s => map'[r] = map[r])
  BY TypeForest, DroppedIs DEF Inv, IInv
<1>6. \A r \in Spaces : r # s => perm'[r] = perm[r]
  BY DEF Inv, IInv, TypeOK
<1> QED
  BY SMTT(30), <1>1, <1>3, <1>4, <1>5, <1>6 DEF TlbOK

LEMMA FailKeeps ==
  ASSUME Inv, call.at # "user", Fail
  PROVE  Inv' /\ Lost' = Lost
<1>0. /\ IInv /\ TypeOK /\ CallOK /\ SpacesOK
      /\ run \in Procs /\ call.done \in SUBSET Page /\ life[run] # "free" /\ run \in Spaces
  BY SpacesKinds DEF Inv, IInv, TypeOK, CallOK, SpacesOK
<1>1. call' = NoCall /\ UNCHANGED <<cr3, run, life, calls>>
  BY DEF Fail
<1>2. call'.frame = NoFrame /\ call'.done = {} /\ call'.at = "user" /\ call'.op = "none" /\ CallShape'
  BY <1>1, NoCallIs DEF CallShape
<1>3. CASE call.op = "mmap"
  <2>1. /\ Unmap(run, call.done)
        /\ pmm' = FreeFrames(pmm, LeafFrames(run, call.done) \cup ({call.frame} \ {NoFrame}))
        /\ next' = [next EXCEPT ![run] = call.roll]
        /\ UNCHANGED <<perm, vmas>>
    BY <1>3 DEF Fail
  <2>2. map[Fresh] = NoSpace /\ map[run][Root] # NoFrame
    BY ZenonT(60), <1>0, <1>3 DEF SpacesOK, HasSpace
  <2>3. /\ map' \in Forest /\ pmm' \in Manager /\ PmmExact'
        /\ (\A s \in Spaces : Rooted(map[s]))'
        /\ Exclusive(pmm.used, map, call.frame)'
        /\ map'[run][Root] = map[run][Root]
        /\ \A s \in Spaces : s # run => map'[s] = map[s]
        /\ Lost' = Lost
        /\ LoadedRootLive' /\ TlbOK'
    BY <1>0, <1>1, <1>2, <2>1, <2>2, UnmapKeeps
  <2>4. next' \in [Procs -> Nat]
    BY <1>0, <1>3, <2>1 DEF CallOK
  <2>5. CallOK'
    BY <1>2, <2>4 DEF CallOK
  <2>6. SpacesOK'
    BY <1>0, <1>1, <1>2, <2>2, <2>3, SpacesKinds DEF SpacesOK
  <2>7. TypeOK'
    BY <1>0, <1>1, <1>2, <2>1, <2>3 DEF TypeOK, Forest, Tree
  <2> QED
    BY <2>3, <2>5, <2>6, <2>7 DEF Inv, IInv
<1>4. CASE call.op # "mmap"
  <2>1. /\ map' = Dropped(map, Fresh)
        /\ perm' = [perm EXCEPT ![Fresh] = NoPerm]
        /\ pmm' = FreeFrames(pmm, FramesOf(map[Fresh]) \cup ({call.frame} \ {NoFrame}))
        /\ UNCHANGED <<tlb, next>>
    BY <1>4 DEF Fail, Drop, Dropped
  <2>2. Fresh \in Spaces /\ map \in Forest
    BY <1>0, SpacesKinds, TypeForest
  <2>3. /\ map' \in Forest /\ pmm' \in Manager /\ PmmExact'
        /\ (\A r \in Spaces : Rooted(map[r]))'
        /\ Exclusive(pmm.used, map, call.frame)'
        /\ pmm'.used = pmm.used \ (FramesOf(map[Fresh]) \cup ({call.frame} \ {NoFrame}))
        /\ Lost' = Lost
    BY <1>2, <2>1, <2>2, DropKeeps
  <2>4. map'[Fresh] = NoSpace /\ \A r \in Spaces : r # Fresh => map'[r] = map[r]
    BY <2>1, <2>2, DroppedIs
  <2>5. \A r \in Procs : map'[r] = map[r]
    BY <2>4, SpacesKinds
  <2>6. perm' \in [Spaces -> [Page -> Attributes]]
    BY <1>0, <2>1, FromProtIs DEF TypeOK, NoPerm
  <2>7. TypeOK'
    BY <1>0, <1>1, <1>2, <2>3, <2>6 DEF TypeOK, Forest, Tree
  <2>8. CallOK'
    BY <1>0, <1>2, <2>1 DEF CallOK
  <2>9. SpacesOK'
    BY <1>0, <1>1, <1>2, <2>4, <2>5 DEF SpacesOK
  <2>10. LoadedRootLive'
    BY <1>1, <2>5, AddressSpaceAssumption DEF Inv, LoadedRootLive, HasSpace
  <2>11. TlbOK'
    BY <1>1, <1>2, <2>1, <2>2, <2>3, DropTlb
  <2> QED
    BY <2>3, <2>7, <2>8, <2>9, <2>10, <2>11 DEF Inv, IInv
<1> QED
  BY <1>3, <1>4

-----------------------------------------------------------------------------
(* The loops *)

LEMMA AllocPageKeeps ==
  ASSUME Inv, AllocPage
  PROVE  Inv' /\ Lost' = Lost
<1> DEFINE g == NextFree(pmm)
<1>0. /\ IInv /\ TypeOK /\ CallOK /\ SpacesOK /\ call.at = "alloc" /\ run \in Procs
      /\ call.frame = NoFrame /\ map \in Forest /\ pmm \in Manager /\ ManagerExact(pmm)
  BY TypeForest DEF Inv, IInv, CallOK, AllocPage, PmmExact
<1>1. PICK i \in Wanted :
        call' = [call EXCEPT !.at = "walk", !.frame = g, !.item = call.todo[i],
                             !.todo = SubSeq(@, i + 1, Len(@))]
  BY DEF AllocPage
<1>2. UNCHANGED <<map, perm, vmas, next, cr3, tlb, run, life, calls>> /\ pmm' = AllocFrame(pmm)
      /\ g # NoFrame
  BY DEF AllocPage
<1>3. g \in Frame \ pmm.used
  BY <1>0, <1>2, NextFreeIsClear
<1>4. pmm' \in Manager /\ ManagerExact(pmm') /\ pmm'.used = pmm.used \cup {g}
  BY <1>0, <1>2, AllocExact
<1> HIDE DEF g
<1>5. /\ CallShape' /\ call'.at = "walk" /\ call'.op = call.op /\ call'.frame = g
      /\ call'.item = call.todo[i] /\ call'.todo = SubSeq(call.todo, i + 1, Len(call.todo))
      /\ call'.done = call.done /\ call'.segs = call.segs /\ call'.roll = call.roll
  <2>1. call = [at |-> call.at, op |-> call.op, todo |-> call.todo, item |-> call.item,
                frame |-> call.frame, done |-> call.done, vma |-> call.vma, roll |-> call.roll,
                segs |-> call.segs, fits |-> call.fits]
    BY <1>0 DEF CallOK, CallShape
  <2>2. call' = [at |-> "walk", op |-> call.op, todo |-> SubSeq(call.todo, i + 1, Len(call.todo)),
                 item |-> call.todo[i],
                 frame |-> g, done |-> call.done, vma |-> call.vma, roll |-> call.roll,
                 segs |-> call.segs, fits |-> call.fits]
    BY <1>1, <2>1
  <2> QED
    BY <2>2 DEF CallShape
<1>6. call.todo[i].page \in Page
  <2>1. CASE call.op = "fork"
    BY <2>1 DEF Wanted, MappedPages
  <2>2. CASE call.op # "fork"
    <3>1. call.todo \in Seq(Item) /\ i \in DOMAIN call.todo
      BY <1>0, <2>2 DEF CallOK, Wanted
    <3>2. call.todo[i] \in Item
      BY SMT, <3>1
    <3> QED
      BY <3>2 DEF Item
  <2> QED
    BY <2>1, <2>2
<1>7. call.op \in {"mmap", "exec"} => call'.todo \in Seq(Item)
  <2> SUFFICES ASSUME call.op \in {"mmap", "exec"} PROVE call'.todo \in Seq(Item)
    OBVIOUS
  <2>1. call.todo \in Seq(Item) /\ i \in 1 .. Len(call.todo)
    BY SMT, <1>0 DEF CallOK, Wanted
  <2>2. \A k \in i + 1 .. Len(call.todo) : call.todo[k] \in Item
    BY SMT, <2>1
  <2> QED
    BY SMT, <1>5, <2>1, <2>2
<1>8. CallOK'
  BY <1>0, <1>2, <1>3, <1>5, <1>6, <1>7 DEF CallOK
<1>9. SpacesOK'
  BY <1>0, <1>2, <1>5 DEF SpacesOK, HasSpace
<1>10. TypeOK'
  BY <1>0, <1>2, <1>3, <1>4, <1>5 DEF TypeOK
<1>11. /\ Exclusive(pmm.used \cup {g}, map, g)
       /\ (pmm.used \cup {g}) \ HeldIn(map, g) = pmm.used \ HeldIn(map, NoFrame)
  <2>1. Exclusive(pmm.used, map, NoFrame)
    BY <1>0 DEF IInv
  <2> QED
    BY <1>0, <1>3, <2>1, ExclusiveTake
<1>12. Exclusive(pmm'.used, map', call'.frame) /\ PmmExact'
  BY <1>2, <1>4, <1>5, <1>11 DEF PmmExact
<1>13. Lost' = Lost
  BY <1>0, <1>2, <1>4, <1>5, <1>11, LostIs
<1>14. IInv'
  BY <1>0, <1>2, <1>8, <1>9, <1>10, <1>12 DEF IInv
<1>15. LoadedRootLive'
  BY <1>2 DEF Inv, LoadedRootLive, HasSpace
<1>16. TlbOK'
  BY <1>2, <1>3, <1>4, <1>5 DEF Inv, TlbOK
<1> QED
  BY <1>13, <1>14, <1>15, <1>16 DEF Inv

(* Where map_page works *)
LEMMA TargetIs ==
  ASSUME Inv, call.at = "walk"
  PROVE  /\ Target \in Spaces /\ map[Target] \in Tree /\ Rooted(map[Target]) /\ map[Target][Root] # NoFrame
         /\ call.item.page \in Page /\ call.frame \in Frame /\ run \in Procs
         /\ call.op \in {"mmap", "fork", "exec"}
         /\ Target \in Procs => Target = run /\ call.op = "mmap" /\ life[run] # "free"
         /\ call.op # "mmap" => Target = Fresh
         /\ call.op = "mmap" => Target = run
<1>1. /\ IInv /\ TypeOK /\ CallOK /\ SpacesOK /\ run \in Procs /\ map \in Forest
      /\ call.item.page \in Page /\ call.frame \in Frame /\ call.op \in {"mmap", "fork", "exec"}
  BY TypeForest DEF Inv, IInv, CallOK
<1>2. (call.op = "mmap" => Target = run) /\ (call.op # "mmap" => Target = Fresh)
  BY DEF Target
<1>3. Target \in Spaces
  BY <1>1, <1>2, SpacesKinds
<1>4. map[Target][Root] # NoFrame
  BY <1>1, <1>2 DEF SpacesOK, HasSpace
<1>5. Target \in Procs => Target = run /\ call.op = "mmap" /\ life[run] # "free"
  BY <1>1, <1>2, SpacesKinds DEF SpacesOK
<1>6. map[Target] \in Tree /\ Rooted(map[Target])
  BY <1>1, <1>3, TreeOf DEF IInv
<1> QED
  BY <1>1, <1>2, <1>3, <1>4, <1>5, <1>6

LEMMA CreateTableKeeps ==
  ASSUME Inv, CreateTable
  PROVE  Inv' /\ Lost' = Lost
<1> DEFINE g == NextFree(pmm)
           p == call.item.page
           t == Target
           x == Slot(Max(Missing(map[t], p)), p)
<1>0. /\ IInv /\ TypeOK /\ CallOK /\ SpacesOK /\ call.at = "walk"
      /\ map \in Forest /\ pmm \in Manager /\ ManagerExact(pmm) /\ Exclusive(pmm.used, map, call.frame)
  BY TypeForest DEF Inv, IInv, CreateTable, PmmExact
<1>1. /\ t \in Spaces /\ map[t] \in Tree /\ Rooted(map[t]) /\ map[t][Root] # NoFrame
      /\ p \in Page /\ call.frame \in Frame
      /\ t \in Procs => t = run /\ call.op = "mmap" /\ life[run] # "free"
      /\ call.op # "mmap" => t = Fresh
  BY <1>0, TargetIs
<1>2. /\ Missing(map[t], p) # {} /\ g # NoFrame
      /\ map' = [map EXCEPT ![t][x] = g]
      /\ pmm' = AllocFrame(pmm)
      /\ UNCHANGED <<perm, vmas, next, cr3, tlb, run, life, call, calls>>
  BY DEF CreateTable
<1>3. g \in Frame \ pmm.used
  BY <1>0, <1>2, NextFreeIsClear
<1>4. pmm' \in Manager /\ ManagerExact(pmm') /\ pmm'.used = pmm.used \cup {g}
  BY <1>0, <1>2, AllocExact
<1> HIDE DEF g, t, p
<1>5. /\ Max(Missing(map[t], p)) \in 1 .. 3 /\ map[t][x] = NoFrame
      /\ [map[t] EXCEPT ![x] = g] \in Tree /\ Rooted([map[t] EXCEPT ![x] = g])
  BY <1>1, <1>2, <1>3, RootedTable
<1>6. x \in Slots /\ x # Root
  BY <1>1, <1>5, SlotsIn, SlotsApart
<1> HIDE DEF x
<1>7. map' = Put(map, t, x, g)
  BY <1>2 DEF Put
<1>8. /\ map' \in Forest /\ map'[t][x] = g
      /\ \A r \in Spaces : r # t => map'[r] = map[r]
      /\ \A r \in Spaces, y \in Slots : (r # t \/ y # x) => map'[r][y] = map[r][y]
  <2>1. WrittenTo(map, map', t, x, g)
    BY <1>0, <1>1, <1>3, <1>6, <1>7, Written
  <2> QED
    BY <2>1 DEF WrittenTo
<1>9. map'[t] = [map[t] EXCEPT ![x] = g]
  BY <1>0, <1>1, <1>2 DEF Forest
<1>10. \A r \in Spaces : Rooted(map'[r])
  BY <1>0, <1>5, <1>8, <1>9 DEF IInv
<1>11. /\ Exclusive(pmm.used \cup {g}, map', call.frame)
       /\ (pmm.used \cup {g}) \ HeldIn(map', call.frame) = pmm.used \ HeldIn(map, call.frame)
  <2>1. g \in Frame /\ g \notin pmm.used
    BY ZenonT(30), <1>3
  <2>2. /\ Exclusive(pmm.used \cup {g}, Put(map, t, x, g), call.frame)
        /\ (pmm.used \cup {g}) \ HeldIn(Put(map, t, x, g), call.frame) = pmm.used \ HeldIn(map, call.frame)
    <3>1. TableGood(pmm.used, map, call.frame, g, Put(map, t, x, g))
      BY <1>0, <1>1, <1>5, <1>6, <2>1, ExclusiveTable
    <3> QED
      BY <3>1 DEF TableGood
  <2> QED
    BY <1>7, <2>2
<1>12. Exclusive(pmm'.used, map', call'.frame) /\ PmmExact'
  BY <1>2, <1>4, <1>11 DEF PmmExact
<1>13. Lost' = Lost
  BY <1>2, <1>4, <1>11, LostIs
<1>14. \A r \in Spaces : map'[r][Root] = map[r][Root]
  BY <1>6, <1>8, SlotsIn
<1>15. TypeOK' /\ CallOK'
  <2>1. TypeOK'
    BY <1>0, <1>2, <1>4, <1>8 DEF TypeOK, Forest, Tree
  <2>2. CallOK'
    BY <1>0, <1>2 DEF CallOK, CallShape
  <2> QED
    BY <2>1, <2>2
<1>16. SpacesOK'
  <2>1. \A r \in Procs : life[r] = "free" => r # t
    BY <1>1
  <2>2. call.op \notin {"fork", "exec"} => Fresh # t
    BY <1>0, <1>1, SpacesKinds, TargetIs DEF t
  <2> QED
    BY SMTT(30), <1>0, <1>2, <1>8, <1>14, <2>1, <2>2, SpacesKinds DEF SpacesOK, HasSpace
<1>17. IInv'
  BY <1>10, <1>12, <1>15, <1>16 DEF IInv
<1>18. LoadedRootLive'
  BY <1>2, <1>14, SpacesKinds, AddressSpaceAssumption DEF Inv, LoadedRootLive, HasSpace
<1>19. TlbOK'
  <2>1. tlb # NoTranslation => tlb.frame # g
    BY <1>3 DEF Inv, TlbOK
  <2> QED
    BY SMTT(30), <1>2, <1>4, <1>8, <1>14, <2>1 DEF Inv, TlbOK
<1> QED
  BY <1>13, <1>17, <1>18, <1>19 DEF Inv

(* clone_from ignores that map_page found no frame for a table *)
LEMMA CreateTableFailsKeeps ==
  ASSUME Inv, CreateTableFails
  PROVE  Inv' /\ (call.op # "fork" => Lost' = Lost)
<1>0. /\ IInv /\ TypeOK /\ CallOK /\ SpacesOK /\ call.at = "walk"
      /\ map \in Forest /\ pmm \in Manager /\ ManagerExact(pmm) /\ Exclusive(pmm.used, map, call.frame)
  BY TypeForest DEF Inv, IInv, CreateTableFails, PmmExact
<1>1. CASE call.op # "fork"
  BY <1>0, <1>1, FailKeeps DEF CreateTableFails
<1>2. CASE call.op = "fork"
  <2>1. /\ call' = [call EXCEPT !.at = "alloc", !.item = NoItem, !.frame = NoFrame]
        /\ UNCHANGED <<pmm, map, perm, vmas, next, cr3, tlb, run, life, calls>>
    BY <1>2 DEF CreateTableFails
  <2>2. /\ CallShape' /\ call'.at = "alloc" /\ call'.op = "fork" /\ call'.frame = NoFrame
        /\ call'.done = call.done
    <3>1. call = [at |-> call.at, op |-> call.op, todo |-> call.todo, item |-> call.item,
                  frame |-> call.frame, done |-> call.done, vma |-> call.vma, roll |-> call.roll,
                  segs |-> call.segs, fits |-> call.fits]
      BY <1>0 DEF CallOK, CallShape
    <3>2. call' = [at |-> "alloc", op |-> call.op, todo |-> call.todo, item |-> NoItem,
                   frame |-> NoFrame, done |-> call.done, vma |-> call.vma, roll |-> call.roll,
                   segs |-> call.segs, fits |-> call.fits]
      BY <2>1, <3>1
    <3> QED
      BY <1>2, <3>2 DEF CallShape
  <2>3. CallOK'
    BY <1>0, <1>2, <2>1, <2>2 DEF CallOK
  <2>4. SpacesOK' /\ TypeOK'
    BY <1>0, <1>2, <2>1, <2>2 DEF SpacesOK, TypeOK, HasSpace
  <2>5. Exclusive(pmm'.used, map', call'.frame)
    BY SMT, <1>0, <2>1, <2>2 DEF Exclusive
  <2>6. IInv'
    BY <1>0, <2>1, <2>3, <2>4, <2>5 DEF IInv, PmmExact
  <2>7. LoadedRootLive' /\ TlbOK'
    <3>1. LoadedRootLive'
      BY <2>1 DEF Inv, LoadedRootLive, HasSpace
    <3>2. tlb # NoTranslation => tlb.frame # NoFrame
      BY <1>0, ManagerUsed, NoFrameIsNone DEF Inv, TlbOK
    <3>3. TlbOK'
      BY <2>1, <2>2, <3>2 DEF Inv, TlbOK
    <3> QED
      BY <3>1, <3>3
  <2> QED
    BY <1>2, <2>6, <2>7 DEF Inv
<1> QED
  BY <1>1, <1>2

LEMMA MapLeafKeeps ==
  ASSUME Inv, MapLeaf
  PROVE  Inv' /\ (map[Target][Leaf(call.item.page)] = NoFrame => Lost' = Lost)
<1> DEFINE p == call.item.page
           f == call.frame
           t == Target
           x == Leaf(p)
<1>0. /\ IInv /\ TypeOK /\ CallOK /\ SpacesOK /\ call.at = "walk"
      /\ map \in Forest /\ pmm \in Manager /\ ManagerExact(pmm) /\ Exclusive(pmm.used, map, f)
  BY TypeForest DEF Inv, IInv, MapLeaf, PmmExact
<1>1. /\ t \in Spaces /\ map[t] \in Tree /\ Rooted(map[t]) /\ map[t][Root] # NoFrame
      /\ p \in Page /\ f \in Frame /\ run \in Procs
      /\ t \in Procs => t = run /\ call.op = "mmap" /\ life[run] # "free"
      /\ call.op # "mmap" => t = Fresh
      /\ call.op = "mmap" => t = run
  BY <1>0, TargetIs
<1>2. /\ Missing(map[t], p) = {}
      /\ map' = [map EXCEPT ![t][x] = f]
      /\ perm' = [perm EXCEPT ![t][p] = FromProt(call.item.prot)]
      /\ call' = [call EXCEPT !.at = "alloc", !.item = NoItem, !.frame = NoFrame, !.done = @ \cup {p}]
      /\ UNCHANGED <<pmm, vmas, next, cr3, tlb, run, life, calls>>
  BY DEF MapLeaf
<1>3. /\ CallShape' /\ call'.at = "alloc" /\ call'.op = call.op /\ call'.frame = NoFrame
      /\ call'.todo = call.todo
      /\ call'.done = call.done \cup {p} /\ call'.segs = call.segs /\ call'.roll = call.roll
  <2>1. call = [at |-> call.at, op |-> call.op, todo |-> call.todo, item |-> call.item,
                frame |-> call.frame, done |-> call.done, vma |-> call.vma, roll |-> call.roll,
                segs |-> call.segs, fits |-> call.fits]
    BY <1>0 DEF CallOK, CallShape
  <2>2. call' = [at |-> "alloc", op |-> call.op, todo |-> call.todo, item |-> NoItem,
                 frame |-> NoFrame, done |-> call.done \cup {p}, vma |-> call.vma, roll |-> call.roll,
                 segs |-> call.segs, fits |-> call.fits]
    BY <1>2, <2>1
  <2> QED
    BY <2>2 DEF CallShape
<1> HIDE DEF t, p, f
<1>4. x \in Slots /\ x # Root
  BY SMT, <1>1, SlotsIn, SlotsApart
<1>5. [map[t] EXCEPT ![x] = f] \in Tree /\ Rooted([map[t] EXCEPT ![x] = f])
  BY <1>1, <1>2, RootedLeaf
<1> HIDE DEF x
<1>6. map' = Put(map, t, x, f)
  BY <1>2 DEF Put
<1>7. /\ map' \in Forest /\ map'[t][x] = f
      /\ \A r \in Spaces : r # t => map'[r] = map[r]
      /\ \A r \in Spaces, y \in Slots : (r # t \/ y # x) => map'[r][y] = map[r][y]
  <2>1. WrittenTo(map, map', t, x, f)
    BY <1>0, <1>1, <1>4, <1>6, Written
  <2> QED
    BY <2>1 DEF WrittenTo
<1>8. map'[t] = [map[t] EXCEPT ![x] = f]
  BY <1>0, <1>1, <1>2 DEF Forest
<1>9. \A r \in Spaces : Rooted(map'[r])
  BY <1>0, <1>5, <1>7, <1>8 DEF IInv
<1>10. /\ Exclusive(pmm.used, map', NoFrame)
       /\ map[t][x] = NoFrame => HeldIn(map', NoFrame) = HeldIn(map, f)
  <2>1. /\ Exclusive(pmm.used, Put(map, t, x, f), NoFrame)
        /\ map[t][x] = NoFrame => HeldIn(Put(map, t, x, f), NoFrame) = HeldIn(map, f)
    <3>1. PlaceGood(pmm.used, map, f, t, x, Put(map, t, x, f))
      BY <1>0, <1>1, <1>4, ExclusivePlace
    <3> QED
      BY <3>1 DEF PlaceGood
  <2> QED
    BY <1>6, <2>1
<1>11. Exclusive(pmm'.used, map', call'.frame) /\ PmmExact'
  BY <1>0, <1>2, <1>3, <1>10 DEF PmmExact
<1>12. map[t][x] = NoFrame => Lost' = Lost
  BY <1>2, <1>3, <1>10, LostIs DEF f
<1>13. \A r \in Spaces : map'[r][Root] = map[r][Root]
  BY <1>4, <1>7, SlotsIn
<1>14. /\ perm' \in [Spaces -> [Page -> Attributes]]
       /\ \A r \in Spaces, q \in Page : (r # t \/ q # p) => perm'[r][q] = perm[r][q]
  BY <1>0, <1>1, <1>2, FromProtIs DEF TypeOK
<1>15. TypeOK'
  BY <1>0, <1>1, <1>2, <1>3, <1>7, <1>14 DEF TypeOK, Forest, Tree
<1>16. CallOK'
  BY <1>0, <1>1, <1>2, <1>3 DEF CallOK
<1>17. SpacesOK'
  <2>1. \A r \in Procs : life[r] = "free" => r # t
    BY <1>1
  <2>2. call.op \notin {"fork", "exec"} => Fresh # t
    BY <1>0, <1>1, SpacesKinds, TargetIs
  <2>3. \A r \in Procs : life'[r] = "free" => map'[r] = NoSpace
    BY <1>0, <1>2, <1>7, <2>1, SpacesKinds DEF SpacesOK
  <2>4. call.op \notin {"fork", "exec"} => map'[Fresh] = NoSpace
    BY <1>0, <1>7, <2>2, SpacesKinds DEF SpacesOK
  <2>5. map'[Fresh][Root] = map[Fresh][Root] /\ map'[run][Root] = map[run][Root]
    BY <1>1, <1>13, SpacesKinds
  <2> QED
    BY <1>0, <1>1, <1>2, <1>3, <2>3, <2>4, <2>5 DEF SpacesOK, HasSpace
<1>18. IInv'
  BY <1>9, <1>11, <1>15, <1>16, <1>17 DEF IInv
<1>19. LoadedRootLive'
  BY <1>2, <1>13, SpacesKinds, AddressSpaceAssumption DEF Inv, LoadedRootLive, HasSpace
<1>20. TlbOK'
  <2> SUFFICES ASSUME tlb # NoTranslation PROVE TlbOK'
    BY <1>2 DEF TlbOK
  <2>1. /\ tlb.page \in Page /\ tlb.frame \in pmm.used /\ tlb.frame # f
        /\ \A s \in Spaces, y \in Slots : map[s][y] = tlb.frame =>
             y = Leaf(tlb.page) /\ map[s][Root] = cr3 /\ perm[s][tlb.page] = tlb.perm
    BY DEF Inv, TlbOK, f
  <2>2. tlb.frame # NoFrame
    BY <1>0, <2>1, ManagerUsed, NoFrameIsNone
  <2>3. ASSUME NEW s \in Spaces, NEW y \in Slots, map'[s][y] = tlb.frame
        PROVE  y = Leaf(tlb.page) /\ map'[s][Root] = cr3 /\ perm'[s][tlb.page] = tlb.perm
    <3>1. (s # t \/ y # x) /\ map[s][y] = tlb.frame
      BY <1>7, <2>1, <2>3
    <3>2. y = Leaf(tlb.page) /\ map[s][Root] = cr3 /\ perm[s][tlb.page] = tlb.perm
      BY <2>1, <3>1
    <3>3. s # t \/ tlb.page # p
      BY <3>1, <3>2 DEF x
    <3> QED
      BY <1>13, <1>14, <2>1, <3>2, <3>3
  <2> QED
    BY SMTT(30), <1>2, <1>3, <2>1, <2>2, <2>3 DEF TlbOK
<1> QED
  BY <1>12, <1>18, <1>19, <1>20 DEF Inv, t, x, p

LEMMA MmapReturnsKeeps ==
  ASSUME Inv, MmapReturns
  PROVE  Inv' /\ Lost' = Lost
<1>0. /\ IInv /\ TypeOK /\ CallOK /\ SpacesOK /\ call.op = "mmap" /\ call.frame = NoFrame
  BY DEF Inv, IInv, MmapReturns, CallOK
<1>1. call' = NoCall /\ UNCHANGED <<pmm, map, perm, next, cr3, tlb, run, life, calls>>
  BY DEF MmapReturns
<1>2. call'.frame = NoFrame /\ call'.done = {} /\ call'.at = "user" /\ call'.op = "none" /\ CallShape'
  BY <1>1, NoCallIs DEF CallShape
<1>3. CallOK' /\ SpacesOK' /\ TypeOK'
  BY <1>0, <1>1, <1>2 DEF CallOK, SpacesOK, TypeOK, HasSpace
<1>4. IInv' /\ Lost' = Lost
  BY <1>0, <1>1, <1>2, <1>3, SameMemory DEF IInv
<1> QED
  BY <1>0, <1>1, <1>2, <1>4, SameTlb DEF Inv

LEMMA ForkReturnsKeeps ==
  ASSUME Inv, NEW child \in Procs, ForkReturns(child)
  PROVE  Inv' /\ Lost' = Lost
<1>0. /\ IInv /\ TypeOK /\ CallOK /\ SpacesOK /\ call.at = "alloc" /\ call.op = "fork"
      /\ call.frame = NoFrame /\ run \in Procs
      /\ map \in Forest /\ pmm \in Manager /\ ManagerExact(pmm) /\ Exclusive(pmm.used, map, call.frame)
      /\ \A r \in Spaces : Rooted(map[r])
  BY TypeForest DEF Inv, IInv, ForkReturns, PmmExact, CallOK
<1>1. /\ life[child] = "free"
      /\ life' = [life EXCEPT ![child] = "alive"]
      /\ map' = Moved(map, child)
      /\ perm' = [perm EXCEPT ![child] = perm[Fresh], ![Fresh] = NoPerm]
      /\ next' = [next EXCEPT ![child] = next[run]]
      /\ call' = NoCall
      /\ UNCHANGED <<pmm, cr3, tlb, run, calls>>
  BY DEF ForkReturns, Moved
<1>2. call'.frame = NoFrame /\ call'.done = {} /\ call'.at = "user" /\ call'.op = "none" /\ CallShape'
  BY <1>1, NoCallIs DEF CallShape
<1>3. map[child] = NoSpace /\ child # run
  BY <1>0, <1>1 DEF SpacesOK
<1>4. /\ map' \in Forest /\ map'[child] = map[Fresh] /\ map'[Fresh] = NoSpace
      /\ \A r \in Spaces : r # child /\ r # Fresh => map'[r] = map[r]
  BY <1>0, <1>1, MovedIs
<1>5. Exclusive(pmm.used, map', call.frame) /\ HeldIn(map', call.frame) = HeldIn(map, call.frame)
  <2>1. MoveGood(pmm.used, map, call.frame, map')
    BY <1>0, <1>1, <1>3, ExclusiveMove
  <2> QED
    BY <2>1 DEF MoveGood
<1>6. Fresh \in Spaces /\ child \in Spaces /\ Procs \subseteq Spaces /\ Fresh # child /\ Fresh \notin Procs
  BY SpacesKinds
<1>7. \A r \in Spaces : Rooted(map'[r])
  BY <1>0, <1>4, <1>6, RootedNew
<1>8. perm' \in [Spaces -> [Page -> Attributes]]
      /\ \A r \in Spaces : r # child /\ r # Fresh => perm'[r] = perm[r]
  BY <1>0, <1>1, <1>6, FromProtIs DEF TypeOK, NoPerm
<1>9. Exclusive(pmm'.used, map', call'.frame) /\ PmmExact' /\ Lost' = Lost
  BY <1>0, <1>1, <1>2, <1>5, LostIs DEF PmmExact
<1>10. life' \in [Procs -> {"free", "alive", "killed", "exited"}] /\ next' \in [Procs -> Nat]
  BY <1>0, <1>1 DEF TypeOK, CallOK
<1>11. TypeOK'
  BY <1>0, <1>1, <1>2, <1>4, <1>8, <1>10 DEF TypeOK, Forest, Tree
<1>12. CallOK'
  BY <1>2, <1>10 DEF CallOK
<1>13. SpacesOK'
  <2>1. \A r \in Procs : life'[r] = "free" => r # child /\ life[r] = "free" /\ map'[r] = map[r]
    BY <1>0, <1>1, <1>4, <1>6 DEF TypeOK
  <2>2. life'[run] # "free"
    BY <1>0, <1>1 DEF TypeOK, SpacesOK
  <2> QED
    BY <1>0, <1>1, <1>2, <1>4, <2>1, <2>2 DEF SpacesOK
<1>14. IInv'
  BY <1>7, <1>9, <1>11, <1>12, <1>13 DEF IInv
<1>15. LoadedRootLive'
  <2>1. \A r \in Procs : life[r] # "free" => life'[r] # "free" /\ map'[r] = map[r]
    BY <1>0, <1>1, <1>4, <1>6 DEF TypeOK
  <2>2. life[run] # "free"
    BY <1>0 DEF SpacesOK
  <2> QED
    BY <1>0, <1>1, <2>1, <2>2 DEF Inv, LoadedRootLive, HasSpace
<1>16. TlbOK'
  <2> SUFFICES ASSUME tlb # NoTranslation PROVE TlbOK'
    BY <1>1 DEF TlbOK
  <2>1. /\ tlb.page \in Page /\ tlb.frame \in pmm.used
        /\ \A s \in Spaces, y \in Slots : map[s][y] = tlb.frame =>
             y = Leaf(tlb.page) /\ map[s][Root] = cr3 /\ perm[s][tlb.page] = tlb.perm
    BY DEF Inv, TlbOK
  <2>2. tlb.frame # NoFrame
    BY <1>0, <2>1, ManagerUsed, NoFrameIsNone
  <2>3. \A y \in Slots : map[Fresh][y] # tlb.frame
    BY <1>6, TlbNotIn
  <2>4. \A y \in Slots : NoSpace[y] # tlb.frame
    BY <2>2 DEF NoSpace
  <2>5. \A s \in Spaces, y \in Slots : map'[s][y] = tlb.frame =>
          s # child /\ s # Fresh
    BY <1>4, <2>3, <2>4
  <2>6. \A s \in Spaces, y \in Slots : map'[s][y] = tlb.frame =>
          y = Leaf(tlb.page) /\ map'[s][Root] = cr3 /\ perm'[s][tlb.page] = tlb.perm
    BY SMTT(30), <1>4, <1>8, <2>1, <2>5
  <2> QED
    BY <1>1, <1>2, <2>1, <2>2, <2>6 DEF TlbOK
<1> QED
  BY <1>9, <1>14, <1>15, <1>16 DEF Inv

(* alloc_and_map_range's list of pages *)
LEMMA RangeItems ==
  ASSUME NEW seg \in UserSegment
  PROVE  PagesOfVma(Vma(PageOf(seg.vaddr) * PageSize, DivCeil(seg.vaddr + seg.memsz) * PageSize,
                        ToProt(seg.perm), 0)) \in Seq(Item)
<1> DEFINE x == seg.vaddr + seg.memsz
<1>1. PageSize \in Nat \ {0} /\ UserPages \in Nat /\ seg.vaddr \in Nat /\ seg.memsz \in Nat
      /\ x <= UserPages * PageSize
  BY AddressSpaceAssumption, PageSizeAssumption DEF UserSegment, Segment
<1>2. PageOf(seg.vaddr) \in Nat /\ x \in Nat
  <2>1. PageOf(seg.vaddr) \in Nat
    BY <1>1, DivBounds DEF PageOf
  <2> QED
    BY SMT, <1>1, <2>1
<1> HIDE DEF x
<1>3. DivCeil(x) \in Nat /\ DivCeil(x) <= UserPages
  BY <1>1, <1>2, PagesBelow
<1>4. PageOf(seg.vaddr) * PageSize \in Nat /\ DivCeil(x) * PageSize \in Nat
      /\ DivCeil(x) * PageSize <= UserPages * PageSize
  <2>1. DivCeil(x) * PageSize = PageSize * DivCeil(x) /\ UserPages * PageSize = PageSize * UserPages
        /\ PageSize * DivCeil(x) <= PageSize * UserPages
    BY <1>1, <1>3, Mul
  <2> QED
    BY <1>1, <1>2, <1>3, <2>1, Mul
<1>5. ToProt(seg.perm) \in SUBSET {"r", "w", "x"}
  BY DEF ToProt
<1> QED
  BY <1>4, <1>5, PagesAreItems DEF x

LEMMA RangeBeginsKeeps ==
  ASSUME Inv, RangeBegins
  PROVE  Inv' /\ Lost' = Lost
<1> DEFINE seg == Head(call.segs)
           v == Vma(PageOf(seg.vaddr) * PageSize, DivCeil(seg.vaddr + seg.memsz) * PageSize,
                    ToProt(seg.perm), 0)
<1>0. /\ IInv /\ TypeOK /\ CallOK /\ SpacesOK /\ call.at = "segment" /\ call.op = "exec"
      /\ call.frame = NoFrame /\ call.segs \in Seq(UserSegment) /\ call.segs # <<>> /\ run \in Procs
  BY DEF Inv, IInv, RangeBegins, CallOK
<1>1. CASE Fail
  BY <1>0, <1>1, FailKeeps
<1>2. CASE ~ Fail
  <2>1. /\ call' = [call EXCEPT !.at = "alloc", !.vma = v, !.todo = PagesOfVma(v), !.done = {}]
        /\ UNCHANGED <<pmm, map, perm, vmas, next, cr3, tlb, run, life, calls>>
    BY <1>2 DEF RangeBegins
  <2>2. PagesOfVma(v) \in Seq(Item)
    <3>1. seg \in UserSegment
      BY SMT, <1>0
    <3> HIDE DEF seg
    <3> QED
      BY <3>1, RangeItems
  <2> HIDE DEF v
  <2>3. /\ CallShape' /\ call'.at = "alloc" /\ call'.op = "exec" /\ call'.frame = NoFrame
        /\ call'.todo = PagesOfVma(v) /\ call'.done = {} /\ call'.segs = call.segs
    <3>1. call = [at |-> call.at, op |-> call.op, todo |-> call.todo, item |-> call.item,
                  frame |-> call.frame, done |-> call.done, vma |-> call.vma, roll |-> call.roll,
                  segs |-> call.segs, fits |-> call.fits]
      BY <1>0 DEF CallOK, CallShape
    <3>2. call' = [at |-> "alloc", op |-> call.op, todo |-> PagesOfVma(v), item |-> call.item,
                   frame |-> call.frame, done |-> {}, vma |-> v, roll |-> call.roll,
                   segs |-> call.segs, fits |-> call.fits]
      BY <2>1, <3>1
    <3> QED
      BY <1>0, <3>2 DEF CallShape
  <2>4. CallOK'
    BY <1>0, <2>1, <2>2, <2>3 DEF CallOK
  <2>5. SpacesOK' /\ TypeOK'
    BY <1>0, <2>1, <2>3 DEF SpacesOK, TypeOK, HasSpace
  <2>6. IInv' /\ Lost' = Lost
    BY <1>0, <2>1, <2>3, <2>4, <2>5, SameMemory DEF IInv
  <2> QED
    BY <1>0, <2>1, <2>3, <2>6, SameTlb DEF Inv
<1> QED
  BY <1>1, <1>2

LEMMA RangeEndsKeeps ==
  ASSUME Inv, RangeEnds
  PROVE  Inv' /\ Lost' = Lost
<1>0. /\ IInv /\ TypeOK /\ CallOK /\ SpacesOK /\ call.at = "alloc" /\ call.op = "exec"
      /\ call.frame = NoFrame /\ call.segs \in Seq(UserSegment) /\ call.segs # <<>> /\ run \in Procs
  BY DEF Inv, IInv, RangeEnds, CallOK
<1>1. CASE Fail
  BY <1>0, <1>1, FailKeeps
<1>2. CASE ~ Fail
  <2>1. /\ call' = [call EXCEPT !.at = "segment", !.segs = Tail(@)]
        /\ UNCHANGED <<pmm, map, perm, next, cr3, tlb, run, life, calls>>
    BY <1>2 DEF RangeEnds
  <2>2. Tail(call.segs) \in Seq(UserSegment)
    BY SMT, <1>0
  <2>3. /\ CallShape' /\ call'.at = "segment" /\ call'.op = "exec" /\ call'.frame = NoFrame
        /\ call'.todo = call.todo /\ call'.done = call.done /\ call'.segs = Tail(call.segs)
    <3>1. call = [at |-> call.at, op |-> call.op, todo |-> call.todo, item |-> call.item,
                  frame |-> call.frame, done |-> call.done, vma |-> call.vma, roll |-> call.roll,
                  segs |-> call.segs, fits |-> call.fits]
      BY <1>0 DEF CallOK, CallShape
    <3>2. call' = [at |-> "segment", op |-> call.op, todo |-> call.todo, item |-> call.item,
                   frame |-> call.frame, done |-> call.done, vma |-> call.vma, roll |-> call.roll,
                   segs |-> Tail(call.segs), fits |-> call.fits]
      BY <2>1, <3>1
    <3> QED
      BY <1>0, <3>2 DEF CallShape
  <2>4. CallOK'
    BY <1>0, <2>1, <2>2, <2>3 DEF CallOK
  <2>5. SpacesOK' /\ TypeOK'
    BY <1>0, <2>1, <2>3 DEF SpacesOK, TypeOK, HasSpace
  <2>6. IInv' /\ Lost' = Lost
    BY <1>0, <2>1, <2>3, <2>4, <2>5, SameMemory DEF IInv
  <2> QED
    BY <1>0, <2>1, <2>3, <2>6, SameTlb DEF Inv
<1> QED
  BY <1>1, <1>2

LEMMA ApplyExecKeeps ==
  ASSUME Inv, ApplyExec
  PROVE  Inv' /\ Lost' = Lost
<1> DEFINE n == Dropped(map, run)
           gone == FramesOf(map[run]) \cup ({call.frame} \ {NoFrame})
<1>0. /\ IInv /\ TypeOK /\ CallOK /\ SpacesOK /\ call.at = "segment" /\ call.op = "exec"
      /\ call.frame = NoFrame /\ run \in Procs /\ map[Fresh][Root] # NoFrame /\ life[run] # "free"
      /\ map \in Forest /\ pmm \in Manager /\ ManagerExact(pmm) /\ Exclusive(pmm.used, map, call.frame)
      /\ \A r \in Spaces : Rooted(map[r])
  BY TypeForest DEF Inv, IInv, ApplyExec, PmmExact, CallOK, SpacesOK, HasSpace
<1>1. /\ map' = Moved(map, run)
      /\ perm' = [perm EXCEPT ![run] = perm[Fresh], ![Fresh] = NoPerm]
      /\ next' = [next EXCEPT ![run] = MmapBase]
      /\ cr3' = map[Fresh][Root]
      /\ tlb' = NoTranslation
      /\ pmm' = FreeFrames(pmm, FramesOf(map[run]))
      /\ call' = NoCall
      /\ UNCHANGED <<run, life, calls>>
  BY DEF ApplyExec, Moved
<1>2. call'.frame = NoFrame /\ call'.done = {} /\ call'.at = "user" /\ call'.op = "none" /\ CallShape'
  BY <1>1, NoCallIs DEF CallShape
<1>3. Fresh \in Spaces /\ run \in Spaces /\ Procs \subseteq Spaces /\ Fresh # run /\ Fresh \notin Procs
  BY <1>0, SpacesKinds
<1>4. n \in Forest /\ n[run] = NoSpace /\ \A r \in Spaces : r # run => n[r] = map[r]
  BY <1>0, <1>3, DroppedIs
<1>5. gone \in SUBSET HeldIn(map, call.frame) /\ gone = HeldIn(map, call.frame) \ HeldIn(n, NoFrame)
      /\ gone = FramesOf(map[run])
  <2>1. gone = FramesOf(map[run])
    BY <1>0
  <2>2. gone \in SUBSET HeldIn(map, call.frame) /\ gone = HeldIn(map, call.frame) \ HeldIn(n, NoFrame)
    <3>1. map \in Forest /\ Exclusive(pmm.used, map, call.frame) /\ run \in Spaces
      BY <1>0, <1>3
    <3>2. GoneGood(map, call.frame, n, gone)
      BY <3>1, ExclusiveDrop
    <3> QED
      BY <3>2 DEF GoneGood
  <2> QED
    BY <2>1, <2>2
<1>6. Moved(n, run) = map'
  BY <1>0, <1>1, <1>3 DEF Moved, Dropped, Forest
<1>7. Shrinks(map, n) /\ gone \cap HeldIn(n, NoFrame) = {}
  BY <1>3, <1>4, <1>5 DEF Shrinks, NoSpace
<1> HIDE DEF n, gone
<1>8. gone \in SUBSET pmm.used
  BY <1>0, <1>5, HeldIsUsed
<1>9. pmm' \in Manager /\ ManagerExact(pmm') /\ pmm'.used = pmm.used \ gone
  BY ZenonT(30), <1>0, <1>1, <1>5, <1>8, FreeExact
<1>10. /\ Exclusive(pmm.used \ gone, n, NoFrame)
       /\ gone = HeldIn(map, call.frame) \ HeldIn(n, NoFrame) =>
            (pmm.used \ gone) \ HeldIn(n, NoFrame) = pmm.used \ HeldIn(map, call.frame)
  <2>1. ShrinkGood(pmm.used, map, call.frame, n, gone)
    BY <1>0, <1>5, <1>7, ExclusiveShrink
  <2> QED
    BY <2>1 DEF ShrinkGood
<1>11. Exclusive(pmm.used \ gone, map', NoFrame) /\ HeldIn(map', NoFrame) = HeldIn(n, NoFrame)
  <2>1. MoveGood(pmm.used \ gone, n, NoFrame, Moved(n, run))
    BY <1>0, <1>4, <1>10, ExclusiveMove
  <2> QED
    BY <1>6, <2>1 DEF MoveGood
<1>12. Exclusive(pmm'.used, map', call'.frame) /\ PmmExact'
  BY <1>2, <1>9, <1>11 DEF PmmExact
<1>13. Lost' = Lost
  BY <1>2, <1>5, <1>9, <1>10, <1>11, LostIs
<1>14. /\ map' \in Forest /\ map'[run] = map[Fresh] /\ map'[Fresh] = NoSpace
       /\ \A r \in Spaces : r # run /\ r # Fresh => map'[r] = map[r]
  BY <1>0, <1>1, MovedIs
<1>15. \A r \in Spaces : Rooted(map'[r])
  BY <1>0, <1>3, <1>14, RootedNew
<1>16. perm' \in [Spaces -> [Page -> Attributes]]
  BY <1>0, <1>1, <1>3, FromProtIs DEF TypeOK, NoPerm
<1>17. next' \in [Procs -> Nat]
  BY <1>0, <1>1, AddressSpaceAssumption DEF CallOK
<1>18. cr3' \in Frame
  BY <1>0, <1>1, <1>3, TreeOf, SlotsIn
<1>19. TypeOK'
  BY <1>0, <1>1, <1>2, <1>9, <1>14, <1>16, <1>18 DEF TypeOK, Forest, Tree
<1>20. CallOK'
  BY <1>2, <1>17 DEF CallOK
<1>21. SpacesOK'
  BY <1>0, <1>1, <1>2, <1>3, <1>14 DEF SpacesOK
<1>22. IInv'
  BY <1>12, <1>15, <1>19, <1>20, <1>21 DEF IInv
<1>23. LoadedRootLive'
  BY <1>0, <1>1, <1>14 DEF LoadedRootLive, HasSpace
<1>24. TlbOK'
  BY <1>1 DEF TlbOK
<1> QED
  BY <1>13, <1>22, <1>23, <1>24 DEF Inv

-----------------------------------------------------------------------------
(* The CPU and the processes *)

LEMMA TouchKeeps ==
  ASSUME Inv, NEW p \in Page, Touch(p)
  PROVE  Inv' /\ Lost' = Lost
<1>0. /\ IInv /\ TypeOK /\ CallOK /\ SpacesOK /\ run \in Procs /\ map[run][Root] # NoFrame
      /\ map[run][Leaf(p)] # NoFrame /\ run \in Spaces /\ Leaf(p) \in Slots
      /\ Exclusive(pmm.used, map, call.frame)
  BY SpacesKinds, SlotsIn DEF Inv, IInv, TypeOK, Touch, InUser, HasSpace
<1>1. tlb' = [page |-> p, frame |-> map[run][Leaf(p)], perm |-> perm[run][p]]
      /\ UNCHANGED <<pmm, map, perm, vmas, next, cr3, run, life, call, calls>>
  BY DEF Touch
<1>2. cr3 = map[run][Root]
  BY <1>0, SpacesKinds DEF Inv, LoadedRootLive, HasSpace
<1>3. TlbOK'
  <2>1. map[run][Leaf(p)] \in pmm.used /\ map[run][Leaf(p)] # call.frame
    BY <1>0 DEF Exclusive
  <2>2. \A s \in Spaces, x \in Slots : map[s][x] = map[run][Leaf(p)] => s = run /\ x = Leaf(p)
    BY <1>0 DEF Exclusive
  <2>3. tlb'.page = p /\ tlb'.frame = map[run][Leaf(p)] /\ tlb'.perm = perm[run][p]
    BY <1>1
  <2> QED
    BY <1>1, <1>2, <2>1, <2>2, <2>3 DEF TlbOK
<1>4. CallOK' /\ SpacesOK' /\ TypeOK'
  BY <1>0, <1>1 DEF CallOK, CallShape, SpacesOK, TypeOK, HasSpace
<1>5. IInv' /\ Lost' = Lost
  BY <1>0, <1>1, <1>4, SameMemory DEF IInv
<1>6. LoadedRootLive'
  BY <1>1 DEF Inv, LoadedRootLive, HasSpace
<1> QED
  BY <1>3, <1>5, <1>6 DEF Inv

(* The CPU goes to another task, whatever becomes of the one that ran *)
LEMMA ResumeKeeps ==
  ASSUME Inv, NEW s \in Procs \cup {Idle}, Resume(s), call.at = "user", run # Idle => HasSpace(run),
         life' \in [Procs -> {"free", "alive", "killed", "exited"}],
         \A r \in Procs : life'[r] = "free" <=> life[r] = "free",
         UNCHANGED <<pmm, map, perm, vmas, next, call, calls>>
  PROVE  Inv' /\ Lost' = Lost
<1>0. IInv /\ TypeOK /\ CallOK /\ SpacesOK /\ call.op = "none"
  BY UserState DEF Inv, IInv
<1>1. CASE s = Idle /\ run' = Idle /\ cr3' = cr3 /\ tlb' = tlb
  <2>1. \E r \in Procs : life[r] # "free" /\ map[r][Root] # NoFrame /\ cr3 = map[r][Root]
    BY AddressSpaceAssumption DEF Inv, LoadedRootLive, HasSpace
  <2>2. LoadedRootLive'
    BY <1>1, <2>1 DEF LoadedRootLive, HasSpace
  <2>3. TypeOK' /\ CallOK' /\ SpacesOK'
    BY <1>0, <1>1, SpacesKinds DEF TypeOK, CallOK, CallShape, SpacesOK, HasSpace
  <2>4. IInv' /\ Lost' = Lost
    BY <1>0, <2>3, SameMemory DEF IInv
  <2>5. TlbOK'
    BY <1>1 DEF Inv, TlbOK
  <2> QED
    BY <2>2, <2>4, <2>5 DEF Inv
<1>2. CASE s \in Procs /\ life[s] = "alive" /\ HasSpace(s) /\ run' = s /\ cr3' = map[s][Root]
           /\ tlb' = NoTranslation
  <2>1. life'[s] # "free"
    BY <1>2
  <2>2. LoadedRootLive'
    BY <1>2, <2>1 DEF LoadedRootLive, HasSpace
  <2>3. cr3' \in Frame
    <3>1. s \in Spaces /\ map \in Forest
      BY <1>0, <1>2, SpacesKinds, TypeForest
    <3> QED
      BY <1>2, <3>1, TreeOf, SlotsIn DEF HasSpace
  <2>4. TypeOK' /\ CallOK' /\ SpacesOK'
    BY <1>0, <1>2, <2>1, <2>3 DEF TypeOK, CallOK, CallShape, SpacesOK, HasSpace
  <2>5. IInv' /\ Lost' = Lost
    BY <1>0, <2>4, SameMemory DEF IInv
  <2>6. TlbOK'
    BY <1>2 DEF TlbOK
  <2> QED
    BY <2>2, <2>5, <2>6 DEF Inv
<1> QED
  BY <1>1, <1>2 DEF Resume

LEMMA SwitchKeeps ==
  ASSUME Inv, NEW s \in Procs \cup {Idle}, Switch(s) \/ Exit(s)
  PROVE  Inv' /\ Lost' = Lost
<1>0. TypeOK /\ SpacesOK
  BY DEF Inv, IInv
<1>1. /\ Resume(s) /\ call.at = "user" /\ (run # Idle => HasSpace(run))
      /\ (life' = life \/ (run # Idle /\ life' = [life EXCEPT ![run] = "exited"]))
      /\ UNCHANGED <<pmm, map, perm, vmas, next, call, calls>>
  BY DEF Switch, Exit, InUser
<1>2. /\ life' \in [Procs -> {"free", "alive", "killed", "exited"}]
      /\ \A r \in Procs : life'[r] = "free" <=> life[r] = "free"
  BY <1>0, <1>1 DEF TypeOK, SpacesOK
<1> QED
  BY <1>1, <1>2, ResumeKeeps

LEMMA TerminateKeeps ==
  ASSUME Inv, Terminate
  PROVE  Inv' /\ Lost' = Lost
<1>0. IInv /\ TypeOK /\ CallOK /\ SpacesOK /\ call.at = "user" /\ run \in Procs
  BY DEF Inv, IInv, Terminate, InUser, TypeOK
<1>1. life' = [life EXCEPT ![run] = "killed"] /\ life[run] = "alive"
      /\ UNCHANGED <<pmm, map, perm, vmas, next, cr3, tlb, run, call, calls>>
  BY DEF Terminate
<1>2. /\ life' \in [Procs -> {"free", "alive", "killed", "exited"}]
      /\ \A r \in Procs : life'[r] = "free" <=> life[r] = "free"
  BY <1>0, <1>1 DEF TypeOK
<1>3. TypeOK' /\ CallOK' /\ SpacesOK'
  BY <1>0, <1>1, <1>2 DEF TypeOK, CallOK, CallShape, SpacesOK, HasSpace
<1>4. IInv' /\ Lost' = Lost
  BY <1>0, <1>1, <1>3, SameMemory DEF IInv
<1>5. LoadedRootLive' /\ TlbOK'
  BY <1>1, <1>2 DEF Inv, LoadedRootLive, HasSpace, TlbOK
<1> QED
  BY <1>4, <1>5 DEF Inv

LEMMA ReapKeeps ==
  ASSUME Inv, NEW s \in Procs, Reap(s)
  PROVE  Inv' /\ (life[s] # "exited" => Lost' = Lost)
<1>0. /\ IInv /\ TypeOK /\ CallOK /\ SpacesOK /\ call.at = "user" /\ run \in Procs /\ s \in Spaces
      /\ call.op = "none" /\ call.frame = NoFrame /\ map[Fresh] = NoSpace /\ map[run][Root] # NoFrame
      /\ map \in Forest /\ pmm \in Manager /\ ManagerExact(pmm) /\ Exclusive(pmm.used, map, call.frame)
  BY UserState, SpacesKinds, TypeForest DEF Inv, IInv, Reap, InUser, HasSpace, TypeOK, PmmExact
<1>1. /\ s # run /\ life[s] \in {"killed", "exited"}
      /\ life' = [life EXCEPT ![s] = "free"]
      /\ map' = Dropped(map, s) /\ perm' = [perm EXCEPT ![s] = NoPerm]
      /\ pmm' = IF life[s] = "killed" THEN FreeFrames(pmm, FramesOf(map[s])) ELSE pmm
      /\ UNCHANGED <<next, cr3, tlb, run, call, calls>>
  BY DEF Reap, Drop, Dropped
<1>2. /\ map' \in Forest
      /\ \A x \in Slots : map'[s][x] = NoFrame
      /\ map'[s] = NoSpace
      /\ \A r \in Spaces : r # s => map'[r] = map[r]
  BY <1>0, <1>1, DroppedIs
<1>3. /\ pmm' \in Manager /\ PmmExact'
      /\ (\A r \in Spaces : Rooted(map[r]))'
      /\ Exclusive(pmm.used, map, call.frame)'
      /\ pmm.used \ (FramesOf(map[s]) \cup ({call.frame} \ {NoFrame})) \subseteq pmm'.used
      /\ (life[s] # "exited" => Lost' = Lost)
  <2>1. CASE life[s] = "killed"
    <3>1. pmm' = FreeFrames(pmm, FramesOf(map[s]) \cup ({call.frame} \ {NoFrame})) /\ call'.frame = NoFrame
      <4>1. FramesOf(map[s]) \cup ({call.frame} \ {NoFrame}) = FramesOf(map[s])
        BY <1>0
      <4> QED
        BY <1>0, <1>1, <2>1, <4>1
    <3> QED
      BY <1>0, <1>1, <3>1, DropKeeps
  <2>2. CASE life[s] # "killed"
    <3>1. pmm' = pmm /\ life[s] = "exited"
      BY <1>1, <2>2
    <3>2. Shrinks(map, map') /\ {} \in SUBSET HeldIn(map, call.frame) /\ {} \cap HeldIn(map', NoFrame) = {}
      BY <1>2 DEF Shrinks
    <3>3. Exclusive(pmm.used \ {}, map', NoFrame)
      BY <1>0, <3>2, ExclusiveShrink DEF ShrinkGood
    <3>4. Exclusive(pmm'.used, map', call'.frame)
      <4>1. pmm.used \ {} = pmm.used
        OBVIOUS
      <4> QED
        BY <1>0, <1>1, <3>1, <3>3, <4>1
    <3>5. \A r \in Spaces : Rooted(map'[r])
      BY <1>0, <1>2, RootedNew DEF IInv
    <3> QED
      BY <1>0, <3>1, <3>4, <3>5 DEF PmmExact
  <2> QED
    BY <2>1, <2>2
<1>4. perm' \in [Spaces -> [Page -> Attributes]]
  BY <1>0, <1>1, FromProtIs DEF TypeOK, NoPerm
<1>5. life' \in [Procs -> {"free", "alive", "killed", "exited"}]
  BY <1>0, <1>1 DEF TypeOK
<1>6. TypeOK'
  BY <1>0, <1>1, <1>2, <1>3, <1>4, <1>5 DEF TypeOK, Forest, Tree
<1>7. CallOK'
  BY <1>0, <1>1 DEF CallOK, CallShape
<1>8. SpacesOK'
  <2>1. \A r \in Procs : r # s => life'[r] = life[r] /\ map'[r] = map[r]
    BY <1>0, <1>1, <1>2, SpacesKinds DEF TypeOK
  <2>2. map'[Fresh] = NoSpace
    BY <1>0, <1>2, SpacesKinds
  <2> QED
    BY <1>0, <1>1, <1>2, <2>1, <2>2 DEF SpacesOK
<1>9. IInv'
  BY <1>3, <1>6, <1>7, <1>8 DEF IInv
<1>10. LoadedRootLive'
  <2>1. cr3 = map[run][Root] /\ life[run] # "free"
    BY <1>0, SpacesKinds DEF Inv, LoadedRootLive, HasSpace
  <2>2. life'[run] = life[run] /\ map'[run] = map[run]
    BY <1>0, <1>1, <1>2, SpacesKinds DEF TypeOK
  <2> QED
    BY <1>0, <1>1, <2>1, <2>2 DEF LoadedRootLive, HasSpace
<1>11. TlbOK'
  <2>1. run # Idle /\ call'.frame = NoFrame
    BY <1>0, <1>1, SpacesKinds
  <2> QED
    BY <1>0, <1>1, <1>3, <2>1, DropTlb
<1> QED
  BY <1>3, <1>9, <1>10, <1>11 DEF Inv

-----------------------------------------------------------------------------
(* The theorems *)

LEMMA InitKeeps ==
  ASSUME Init
  PROVE  Inv
<1>1. /\ pmm \in Manager /\ ManagerExact(pmm) /\ pmm.used = BootManager.used
  BY BootExact DEF Init
<1>2. \A s \in Spaces : map[s] = NoSpace
  BY DEF Init
<1>3. \A s \in Spaces, x \in Slots : map[s][x] = NoFrame
  BY <1>2 DEF NoSpace
<1>4. call = NoCall /\ run = BootInit /\ cr3 = BootRoot /\ tlb = NoTranslation /\ BootInit \in Procs
  BY AddressSpaceAssumption DEF Init
<1>5. call.frame = NoFrame /\ call.done = {} /\ call.at = "user" /\ call.op = "none" /\ CallShape
  BY <1>4, NoCallIs DEF CallShape
<1>6. TypeOK
  <2>1. map \in [Spaces -> [Slots -> Frame \cup {NoFrame}]]
    BY DEF Init, NoSpace
  <2>2. perm \in [Spaces -> [Page -> Attributes]]
    BY FromProtIs DEF Init, NoPerm
  <2>3. life \in [Procs -> {"free", "alive", "killed", "exited"}]
    BY DEF Init
  <2> QED
    BY <1>1, <1>4, <1>5, <2>1, <2>2, <2>3 DEF TypeOK
<1>7. next \in [Procs -> Nat]
  BY AddressSpaceAssumption DEF Init
<1>8. CallOK
  BY <1>5, <1>7 DEF CallOK
<1>9. SpacesOK
  BY <1>2, <1>4, <1>5, SpacesKinds DEF SpacesOK, Init
<1>10. \A s \in Spaces : Rooted(map[s])
  BY <1>2, RootedNew
<1>11. Exclusive(pmm.used, map, call.frame)
  BY <1>1, <1>3, <1>5 DEF Exclusive
<1>12. LoadedRootLive /\ TlbOK
  BY <1>3, <1>4, SpacesKinds, SlotsIn DEF LoadedRootLive, HasSpace, TlbOK
<1> QED
  BY <1>1, <1>6, <1>8, <1>9, <1>10, <1>11, <1>12 DEF Inv, IInv, PmmExact

Loses ==
  \/ MapLeaf /\ map[Target][Leaf(call.item.page)] # NoFrame
  \/ CreateTableFails /\ call.op = "fork"
  \/ \E s \in Procs : Reap(s) /\ life[s] = "exited"

LEMMA NextKeeps ==
  ASSUME Inv, [Next]_vars
  PROVE  Inv' /\ (Lost' # Lost => Loses)
<1>1. CASE Calls
  <2>1. ASSUME NEW addr \in Addrs, NEW length \in Lengths, NEW prot \in Prots, NEW flags \in MapFlags,
               SysMmap(addr, length, prot, flags)
        PROVE  Inv' /\ Lost' = Lost
    BY <2>1, SysMmapKeeps
  <2>2. ASSUME NEW addr \in Addrs, NEW length \in Lengths, SysMunmap(addr, length)
        PROVE  Inv' /\ Lost' = Lost
    BY <2>2, SysMunmapKeeps
  <2>3. ASSUME NEW addr \in Addrs, NEW length \in Lengths, NEW prot \in Prots,
               SysMprotect(addr, length, prot)
        PROVE  Inv' /\ Lost' = Lost
    BY <2>3, SysMprotectKeeps
  <2>4. ASSUME NEW image \in Images, Exec(image) PROVE Inv' /\ Lost' = Lost
    BY <2>4, ExecKeeps
  <2> QED
    BY <1>1, <2>1, <2>2, <2>3, <2>4, ForkKeeps DEF Calls
<1>2. CASE Loops
  <2>1. CASE AllocFails \/ ExecFails
    BY <2>1, FailKeeps DEF AllocFails, ExecFails
  <2>2. CASE MapLeaf
    BY <2>2, MapLeafKeeps DEF Loses
  <2>3. CASE CreateTableFails
    BY <2>3, CreateTableFailsKeeps DEF Loses
  <2> QED
    BY <1>2, <2>1, <2>2, <2>3, AllocPageKeeps, CreateTableKeeps, MmapReturnsKeeps, ForkReturnsKeeps,
       RangeBeginsKeeps, RangeEndsKeeps, ApplyExecKeeps DEF Loops
<1>3. CASE Cpu
  <2>1. ASSUME NEW s \in Procs, Reap(s) PROVE Inv' /\ (Lost' # Lost => Loses)
    BY <2>1, ReapKeeps DEF Loses
  <2> QED
    BY <1>3, <2>1, TouchKeeps, SwitchKeeps, TerminateKeeps DEF Cpu
<1>4. CASE UNCHANGED vars
  <2>1. UNCHANGED <<pmm, map, perm, vmas, next, cr3, tlb, run, life, call, calls>>
    BY <1>4 DEF vars
  <2>2. TypeOK' /\ CallOK' /\ SpacesOK'
    BY <2>1 DEF Inv, IInv, TypeOK, CallOK, CallShape, SpacesOK, HasSpace
  <2>3. IInv' /\ Lost' = Lost
    BY <2>1, <2>2, SameMemory DEF Inv, IInv
  <2> QED
    BY <2>1, <2>3, SameTlb DEF Inv
<1> QED
  BY <1>1, <1>2, <1>3, <1>4 DEF Next

LEMMA InvAlways == Spec => []Inv
BY InitKeeps, NextKeeps, PTL DEF Spec

(* No physical frame is ever in two places (FramesExclusive), and the      *)
(* frame allocator's count and cursor are exact, for every machine, every  *)
(* program and every sequence of mmap, munmap, mprotect, fork, exec, exit  *)
(* and wait: through every failure in the middle of a loop.                *)
THEOREM SpecFramesExclusive == Spec => []FramesExclusive
<1>1. Inv => FramesExclusive
  <2> SUFFICES ASSUME Inv PROVE FramesExclusive
    OBVIOUS
  <2>1. TypeOK /\ PmmExact /\ Exclusive(pmm.used, map, call.frame) /\ \A s \in Spaces : Rooted(map[s])
    BY DEF Inv, IInv
  <2>2. TreeRooted
    <3> SUFFICES ASSUME NEW s \in Spaces, NEW p \in Page, NEW l \in 1 .. 3
                 PROVE  /\ map[s][Leaf(p)] # NoFrame => map[s][Slot(1, p)] # NoFrame
                        /\ map[s][Slot(l, p)] # NoFrame =>
                             map[s][IF l = 3 THEN Root ELSE Slot(l + 1, p)] # NoFrame
      BY SMT DEF TreeRooted
    <3>1. l = 1 \/ l = 2 \/ l = 3
      BY SMT
    <3> QED
      BY SMTT(30), <2>1, <3>1 DEF Rooted
  <2> QED
    BY <2>1, <2>2 DEF FramesExclusive, Exclusive
<1> QED
  BY <1>1, InvAlways, PTL

(* CR3 always loads the root of a live space, and what the TLB still       *)
(* translates to is an allocated frame that nobody else holds (TlbSound).  *)
THEOREM SpecTlbSound == Spec => []TlbSound
<1>1. Inv => TlbSound
  BY DEF Inv, TlbOK, TlbSound
<1> QED
  BY <1>1, InvAlways, PTL

(* A frame is lost in the three ways LossesKnown names and in no other *)
THEOREM SpecLossesKnown == Spec => LossesKnown
<1>1. Inv /\ [Next]_vars => [Lost' # Lost => Loses]_vars
  BY NextKeeps
<1>2. [Lost' # Lost => Loses]_vars <=>
      [Lost' # Lost =>
         \/ MapLeaf /\ map[Target][Leaf(call.item.page)] # NoFrame
         \/ CreateTableFails /\ call.op = "fork"
         \/ \E s \in Procs : Reap(s) /\ life[s] = "exited"]_vars
  BY DEF Loses
<1> QED
  BY <1>1, <1>2, InvAlways, PTL DEF Spec, LossesKnown
=============================================================================
