---------------------------- MODULE AddressSpace ----------------------------
(***************************************************************************)
(* Address spaces (ostd/mm/vmm.rs, ostd/arch/x86_64/paging.rs), the calls  *)
(* that change them (posix/mem.rs, libs/mm-core, fork's clone_from, exec's *)
(* loader and apply_exec) and what the CPU holds of them (CR3, the TLB).   *)
(*                                                                         *)
(* A system call runs with interrupts masked, so one call is in progress   *)
(* at a time; its allocation loops are modelled one alloc_frame per step,  *)
(* because each of them can fail.  Addresses are counted in units of which *)
(* PageSize make a page.                                                   *)
(***************************************************************************)
EXTENDS Frames, Vmas

CONSTANTS
  Procs,        \* processes that can exist at a time
  BootInit,     \* the first of them
  Idle,         \* the idle task, which has no VmSpace
  Fresh,        \* the VmSpace a fork or exec is building
  UserPages,    \* USER_SPACE_END, in pages
  Fanout,       \* entries of one table level (512)
  MmapBase,     \* DEFAULT_MMAP_BASE
  Usable,       \* the frames the boot loader reports usable
  BitmapPages, HeapPages,   \* frames the bitmap and the kernel heap take
  Images,       \* ELF files exec is given
  UserStack,    \* the range of the user stack
  Addrs, Lengths, Prots, MapFlags,   \* arguments of the calls
  MaxCalls      \* bound: system calls in a behaviour

ASSUME AddressSpaceAssumption ==
  /\ BootInit \in Procs /\ Idle \notin Procs /\ Fresh \notin Procs
  /\ UserPages \in Nat /\ Fanout \in Nat \ {0}
  /\ Prots \subseteq SUBSET {"r", "w", "x"}
  /\ MmapBase \in Nat /\ MmapBase % PageSize = 0
  /\ Addrs \subseteq Nat /\ Lengths \subseteq Nat /\ MapFlags \subseteq Nat
  /\ Usable \subseteq Frame \ {0}
  /\ BitmapPages \in Nat /\ HeapPages \in Nat
  /\ Min(Usable) .. Min(Usable) + BitmapPages - 1 \subseteq Usable

Attributes == [writable : BOOLEAN, no_exec : BOOLEAN]

Segment == [vaddr : Nat, memsz : Nat, filesz : Nat, perm : Attributes]

UserSegment == {seg \in Segment : seg.vaddr + seg.memsz <= UserPages * PageSize}

(* The ranges that exec maps lie in the user half.  alloc_and_map_range    *)
(* does not look; it is what a linker makes of a user program.             *)
ASSUME ImagesAssumption ==
  UserStack \in UserSegment /\ Images \subseteq [segs : Seq(UserSegment), fits : BOOLEAN]

VARIABLES
  pmm,     \* the physical memory manager
  map,     \* per space: the frame in every slot of its table tree
  perm,    \* per space: the attribute bits of every leaf entry
  vmas,    \* per space: VmSpace::vmas
  next,    \* per process: mmap_next_vaddr
  cr3,     \* the root frame the MMU walks
  tlb,     \* one cached translation (any of those the CPU holds), or none
  run,     \* the process on the CPU
  life,    \* per process: free, alive, or how it became a zombie
  call,    \* the system call in progress
  calls    \* how many were made

vars == <<pmm, map, perm, vmas, next, cr3, tlb, run, life, call, calls>>

-----------------------------------------------------------------------------
(* Page-table trees.  Slot <<l, i>> is the entry that holds the i-th frame *)
(* of level l: 4 the PML4, 3 a PDPT, 2 a PD, 1 a PT and 0 a user page.     *)

Page == 0 .. UserPages - 1

Spaces == Procs \cup {Fresh}

Root == <<4, 0>>

(* pt_indices: which table of level l translates page p *)
Slot(l, p) ==
  LET up(i) == i \div Fanout
  IN  <<l, CASE l = 1 -> up(p) [] l = 2 -> up(up(p)) [] l = 3 -> up(up(up(p)))>>

Leaf(p) == <<0, p>>

Slots == {Root} \cup {Leaf(p) : p \in Page} \cup {Slot(l, p) : l \in 1 .. 3, p \in Page}

NoSpace == [x \in Slots |-> NoFrame]

HasSpace(s) == map[s][Root] # NoFrame

(* Every frame a tree holds, what free_page_table_hierarchy gives back *)
FramesOf(m) == {m[x] : x \in Slots} \ {NoFrame}

MappedPages(m) == {p \in Page : m[Leaf(p)] # NoFrame}

(* PageFlags::from_prot; present and user are set in every entry made here *)
FromProt(prot) == [writable |-> "w" \in prot, no_exec |-> "x" \notin prot]

(* The PROT_ bits alloc_and_map_range records for the flags it was given *)
ToProt(flags) == {"r"} \cup (IF flags.writable THEN {"w"} ELSE {})
                       \cup (IF flags.no_exec THEN {} ELSE {"x"})

NoPerm == [p \in Page |-> FromProt({})]

-----------------------------------------------------------------------------
(* The state *)

BootRoot == -2   \* the page tables the boot loader left, never freed

NoTranslation == [page |-> -1, frame |-> NoFrame, perm |-> FromProt({})]

NoVma == Vma(0, 0, {}, 0)

NoItem == [page |-> -1, prot |-> {}]

(* Between calls.  at is where the call stands: "segment" at the head of   *)
(* load_elf's loop, "alloc" at the head of a page loop, "walk" in map_page.*)
(* todo are the pages the loop has not come to, item and frame the one it  *)
(* is mapping and what it maps there, done the pages it has mapped.        *)
NoCall == [at |-> "user", op |-> "none", todo |-> <<>>, item |-> NoItem, frame |-> NoFrame, done |-> {},
           vma |-> NoVma, roll |-> 0, segs |-> <<>>, fits |-> TRUE]

Bitmap == Min(Usable) .. Min(Usable) + BitmapPages - 1

(* mm_init: the bitmap, then one contiguous run for the kernel heap *)
BootManager == AllocContiguous(PmmInit(Usable, Bitmap), HeapPages)

Init ==
  /\ pmm = BootManager
  /\ map = [s \in Spaces |-> NoSpace]
  /\ perm = [s \in Spaces |-> NoPerm]
  /\ vmas = [s \in Spaces |-> <<>>]
  /\ next = [s \in Procs |-> MmapBase]
  /\ cr3 = BootRoot
  /\ tlb = NoTranslation
  /\ run = BootInit
  /\ life = [s \in Procs |-> IF s = BootInit THEN "alive" ELSE "free"]
  /\ call = NoCall
  /\ calls = 0

-----------------------------------------------------------------------------
(* Steps shared by the calls *)

(* The space the call works on: mmap's own, else the one being built *)
Target == IF call.op = "mmap" THEN run ELSE Fresh

(* A process in user mode makes a system call *)
InUser == call.at = "user" /\ run # Idle /\ HasSpace(run)

Enter == InUser /\ calls < MaxCalls /\ calls' = calls + 1

FaultyUnmap(s, pages) ==
  /\ map' = [map EXCEPT ![s] = [x \in Slots |-> IF x \in {Leaf(p) : p \in pages}
                                               THEN NoFrame ELSE map[s][x]]]
  /\ tlb' = tlb

FaultyUnmapKeeps(s, pages) ==
  /\ map' = map
  /\ tlb' = IF tlb.page \in pages THEN NoTranslation ELSE tlb

(* unmap_page for every page of a range: the entries present go, each with *)
(* an invlpg; the frames are freed by the caller of Unmap.                 *)
Unmap(s, pages) ==
  /\ map' = [map EXCEPT ![s] = [x \in Slots |-> IF x \in {Leaf(p) : p \in pages}
                                               THEN NoFrame ELSE map[s][x]]]
  /\ tlb' = IF tlb.page \in pages THEN NoTranslation ELSE tlb

LeafFrames(s, pages) == {map[s][Leaf(p)] : p \in pages} \ {NoFrame}

(* free_page_table_hierarchy on a space nobody runs in *)
Drop(s) ==
  /\ map' = [map EXCEPT ![s] = NoSpace]
  /\ perm' = [perm EXCEPT ![s] = NoPerm]
  /\ vmas' = [vmas EXCEPT ![s] = <<>>]

(* VmSpace::new: the root frame, with the kernel half copied from CR3's *)
NewSpace(list) ==
  /\ pmm' = AllocFrame(pmm)
  /\ map' = [map EXCEPT ![Fresh] = [NoSpace EXCEPT ![Root] = NextFree(pmm)]]
  /\ vmas' = [vmas EXCEPT ![Fresh] = list]

-----------------------------------------------------------------------------
(* sys_mmap up to its loop.  A request the checks refuse changes nothing.  *)

MmapStart(addr, length) == IF addr = 0 THEN next[run] ELSE PageOf(addr) * PageSize

MmapAccepts(addr, length) ==
  /\ length # 0
  /\ DivCeil(length) <= pmm.free
  /\ MmapStart(addr, length) + DivCeil(length) * PageSize <= UserPages * PageSize

SysMmap(addr, length, prot, flags) ==
  /\ Enter
  /\ MmapAccepts(addr, length)
  /\ LET start == MmapStart(addr, length)
         end == start + DivCeil(length) * PageSize
     IN  /\ call' = [NoCall EXCEPT !.at = "alloc", !.op = "mmap",
                                    !.vma = Vma(start, end, prot, flags),
                                    !.todo = PagesOfVma(Vma(start, end, prot, flags)),
                                    !.roll = next[run]]
         /\ next' = [next EXCEPT ![run] = IF addr = 0 THEN end ELSE @]
  /\ UNCHANGED <<pmm, map, perm, vmas, cr3, tlb, run, life>>

(* sys_munmap; remove_vma_range unmaps first and then cuts the list *)
RangeAccepted(addr, length) ==
  /\ addr % PageSize = 0
  /\ length # 0
  /\ addr + DivCeil(length) * PageSize <= UserPages * PageSize

RangeEnd(addr, length) == addr + DivCeil(length) * PageSize

SysMunmap(addr, length) ==
  /\ Enter
  /\ RangeAccepted(addr, length)
  /\ LET end == RangeEnd(addr, length)
         pages == PagesOf(addr, end)
     IN  /\ Unmap(run, pages)
         /\ pmm' = FreeFrames(pmm, LeafFrames(run, pages))
         /\ vmas' = [vmas EXCEPT ![run] = remove_vma_range(@, addr, end)]
  /\ UNCHANGED <<perm, next, cr3, run, life, call>>

(* set_page_flags for every page of a range that is mapped *)
SetPageFlags(s, pages, prot) ==
  /\ perm' = [perm EXCEPT ![s] =
                [p \in Page |-> IF p \in pages \cap MappedPages(map[s])
                               THEN FromProt(prot) ELSE perm[s][p]]]
  /\ tlb' = IF tlb.page \in pages \cap MappedPages(map[s]) THEN NoTranslation ELSE tlb

FaultySysMprotect(addr, length, prot) ==
  /\ Enter
  /\ RangeAccepted(addr, length)
  /\ LET end == RangeEnd(addr, length)
     IN  /\ SetPageFlags(run, PagesOf(addr, end), prot)
         /\ vmas' = IF contains_range(vmas[run], addr, end)
                    THEN [vmas EXCEPT ![run] = Reprotect(@, addr, end, prot)]
                    ELSE vmas
  /\ UNCHANGED <<pmm, map, next, cr3, run, life, call>>

SysMprotect(addr, length, prot) ==
  /\ Enter
  /\ RangeAccepted(addr, length)
  /\ LET end == RangeEnd(addr, length)
     IN  /\ contains_range(vmas[run], addr, end)
         /\ SetPageFlags(run, PagesOf(addr, end), prot)
         /\ vmas' = [vmas EXCEPT ![run] = Reprotect(@, addr, end, prot)]
  /\ UNCHANGED <<pmm, map, next, cr3, run, life, call>>

(* sys_fork: clone_from copies the list and every mapped page it covers *)
Fork ==
  /\ Enter
  /\ \E s \in Procs : life[s] = "free"
  /\ NextFree(pmm) # NoFrame
  /\ NewSpace(vmas[run])
  /\ call' = [NoCall EXCEPT !.at = "alloc", !.op = "fork",
                 !.todo = Concat([i \in DOMAIN vmas[run] |-> PagesOfVma(vmas[run][i])])]
  /\ UNCHANGED <<perm, next, cr3, tlb, run, life>>

(* sys_execve, and Process::exec of the first process, up to load_elf's    *)
(* loop; the user stack is the last range that is mapped.                  *)
Exec(image) ==
  /\ call.at = "user" /\ run # Idle
  /\ calls < MaxCalls /\ calls' = calls + 1
  /\ NextFree(pmm) # NoFrame
  /\ NewSpace(<<>>)
  /\ call' = [NoCall EXCEPT !.at = "segment", !.op = "exec",
                            !.segs = Append(image.segs, UserStack),
                            !.fits = image.fits]
  /\ UNCHANGED <<perm, next, cr3, tlb, run, life>>

-----------------------------------------------------------------------------
(* The loops *)

(* What a failed call leaves.  mmap unmaps the pages it mapped and restores *)
(* the bump pointer; fork and exec drop the space they were building.  The  *)
(* frame in hand is freed by mmap and exec.                                 *)
FaultyFail ==
  /\ IF call.op = "mmap"
     THEN /\ Unmap(run, call.done)
          /\ pmm' = FreeFrames(pmm, LeafFrames(run, call.done))
          /\ next' = [next EXCEPT ![run] = call.roll]
          /\ UNCHANGED <<perm, vmas>>
     ELSE /\ Drop(Fresh)
          /\ pmm' = FreeFrames(pmm, FramesOf(map[Fresh]))
          /\ UNCHANGED <<tlb, next>>
  /\ call' = NoCall
  /\ UNCHANGED <<cr3, run, life, calls>>

Fail ==
  LET inHand == {call.frame} \ {NoFrame}
  IN  /\ IF call.op = "mmap"
         THEN /\ Unmap(run, call.done)
              /\ pmm' = FreeFrames(pmm, LeafFrames(run, call.done) \cup inHand)
              /\ next' = [next EXCEPT ![run] = call.roll]
              /\ UNCHANGED <<perm, vmas>>
         ELSE /\ Drop(Fresh)
              /\ pmm' = FreeFrames(pmm, FramesOf(map[Fresh]) \cup inHand)
              /\ UNCHANGED <<tlb, next>>
      /\ call' = NoCall
      /\ UNCHANGED <<cr3, run, life, calls>>

(* The pages left that the loop will map; clone_from copies those that the *)
(* parent has.                                                             *)
Wanted == {i \in DOMAIN call.todo :
             call.op = "fork" => call.todo[i].page \in MappedPages(map[run])}

(* alloc_frame of the next page *)
AllocPage ==
  /\ call.at = "alloc"
  /\ NextFree(pmm) # NoFrame
  /\ pmm' = AllocFrame(pmm)
  /\ \E i \in Wanted :
       /\ \A j \in Wanted : i <= j
       /\ call' = [call EXCEPT !.at = "walk", !.frame = NextFree(pmm), !.item = call.todo[i],
                               !.todo = SubSeq(@, i + 1, Len(@))]
  /\ UNCHANGED <<map, perm, vmas, next, cr3, tlb, run, life, calls>>

AllocFails ==
  /\ call.at = "alloc" /\ Wanted # {}
  /\ NextFree(pmm) = NoFrame
  /\ Fail

(* The tables map_page's walk finds missing; it makes the upper ones first *)
Missing(m, p) == {l \in 1 .. 3 : m[Slot(l, p)] = NoFrame}

(* get_or_create_table makes one *)
CreateTable ==
  /\ call.at = "walk"
  /\ LET p == call.item.page
         missing == Missing(map[Target], p)
     IN  /\ missing # {}
         /\ NextFree(pmm) # NoFrame
         /\ map' = [map EXCEPT ![Target][Slot(Max(missing), p)] = NextFree(pmm)]
         /\ pmm' = AllocFrame(pmm)
  /\ UNCHANGED <<perm, vmas, next, cr3, tlb, run, life, call, calls>>

(* ... or finds no frame.  mmap and exec give up; clone_from ignores the   *)
(* error and goes on with the next page, the frame in hand stays allocated.*)
CreateTableFails ==
  /\ call.at = "walk"
  /\ Missing(map[Target], call.item.page) # {}
  /\ NextFree(pmm) = NoFrame
  /\ IF call.op = "fork"
     THEN /\ call' = [call EXCEPT !.at = "alloc", !.item = NoItem, !.frame = NoFrame]
          /\ UNCHANGED <<pmm, map, perm, vmas, next, cr3, tlb, run, life, calls>>
     ELSE Fail

(* map_page writes the leaf entry over whatever it held, without invlpg *)
MapLeaf ==
  /\ call.at = "walk"
  /\ LET t == call.item
     IN  /\ Missing(map[Target], t.page) = {}
         /\ map' = [map EXCEPT ![Target][Leaf(t.page)] = call.frame]
         /\ perm' = [perm EXCEPT ![Target][t.page] = FromProt(t.prot)]
         /\ call' = [call EXCEPT !.at = "alloc", !.item = NoItem, !.frame = NoFrame,
                                 !.done = @ \cup {t.page}]
  /\ UNCHANGED <<pmm, vmas, next, cr3, tlb, run, life, calls>>

(* sys_mmap returns: the region enters the list *)
MmapReturns ==
  /\ call.at = "alloc" /\ Wanted = {} /\ call.op = "mmap"
  /\ vmas' = [vmas EXCEPT ![run] = insert_vma(@, call.vma)]
  /\ call' = NoCall
  /\ UNCHANGED <<pmm, map, perm, next, cr3, tlb, run, life, calls>>

(* sys_fork returns: the new space is the child's *)
ForkReturns(child) ==
  /\ call.at = "alloc" /\ Wanted = {} /\ call.op = "fork"
  /\ life[child] = "free"
  /\ life' = [life EXCEPT ![child] = "alive"]
  /\ map' = [map EXCEPT ![child] = map[Fresh], ![Fresh] = NoSpace]
  /\ perm' = [perm EXCEPT ![child] = perm[Fresh], ![Fresh] = NoPerm]
  /\ vmas' = [vmas EXCEPT ![child] = vmas[Fresh], ![Fresh] = <<>>]
  /\ next' = [next EXCEPT ![child] = next[run]]
  /\ call' = NoCall
  /\ UNCHANGED <<pmm, cr3, tlb, run, calls>>

(* The pages write_bytes_to_space copies the file's part of a segment to *)
FilePages(seg) ==
  IF seg.filesz = 0 THEN {} ELSE PagesOf(seg.vaddr, seg.vaddr + seg.filesz)

(* alloc_and_map_range of the next range: the check before its loop *)
RangeBegins ==
  /\ call.at = "segment" /\ call.segs # <<>>
  /\ LET seg == Head(call.segs)
         v == Vma(PageOf(seg.vaddr) * PageSize, DivCeil(seg.vaddr + seg.memsz) * PageSize,
                  ToProt(seg.perm), 0)
     IN  IF Len(PagesOfVma(v)) > pmm.free THEN Fail
         ELSE /\ call' = [call EXCEPT !.at = "alloc", !.vma = v, !.todo = PagesOfVma(v),
                                      !.done = {}]
              /\ UNCHANGED <<pmm, map, perm, vmas, next, cr3, tlb, run, life, calls>>

(* its end, and the copy of the file's bytes, which fails on a page that   *)
(* is not mapped                                                           *)
RangeEnds ==
  /\ call.at = "alloc" /\ Wanted = {} /\ call.op = "exec"
  /\ IF FilePages(Head(call.segs)) \subseteq MappedPages(map[Fresh])
     THEN /\ vmas' = [vmas EXCEPT ![Fresh] = insert_vma(@, call.vma)]
          /\ call' = [call EXCEPT !.at = "segment", !.segs = Tail(@)]
          /\ UNCHANGED <<pmm, map, perm, next, cr3, tlb, run, life, calls>>
     ELSE Fail

(* The arguments do not fit on the stack, or a header was refused *)
ExecFails ==
  /\ call.at = "segment" /\ call.segs = <<>> /\ ~call.fits
  /\ Fail

(* apply_exec: the new space is the process's and is activated, then the   *)
(* old one is dropped                                                      *)
ApplyExec ==
  /\ call.at = "segment" /\ call.segs = <<>> /\ call.fits
  /\ map' = [map EXCEPT ![run] = map[Fresh], ![Fresh] = NoSpace]
  /\ perm' = [perm EXCEPT ![run] = perm[Fresh], ![Fresh] = NoPerm]
  /\ vmas' = [vmas EXCEPT ![run] = vmas[Fresh], ![Fresh] = <<>>]
  /\ next' = [next EXCEPT ![run] = MmapBase]
  /\ cr3' = map[Fresh][Root]
  /\ tlb' = NoTranslation
  /\ pmm' = FreeFrames(pmm, FramesOf(map[run]))
  /\ call' = NoCall
  /\ UNCHANGED <<run, life, calls>>

-----------------------------------------------------------------------------
(* The CPU and the processes *)

(* A user access the TLB misses: the MMU walks from CR3 *)
Touch(p) ==
  /\ InUser
  /\ tlb.page # p
  /\ map[run][Leaf(p)] # NoFrame
  /\ tlb' = [page |-> p, frame |-> map[run][Leaf(p)], perm |-> perm[run][p]]
  /\ UNCHANGED <<pmm, map, perm, vmas, next, cr3, run, life, call, calls>>

(* The scheduler resumes s: activate() writes CR3.  The idle task has no   *)
(* space, so CR3 stays what it was.                                        *)
Resume(s) ==
  /\ run' = s
  /\ \/ /\ s = Idle
        /\ UNCHANGED <<cr3, tlb>>
     \/ /\ s \in Procs /\ life[s] = "alive" /\ HasSpace(s) /\ s # run
        /\ cr3' = map[s][Root]
        /\ tlb' = NoTranslation

(* A zombie that was killed by the timer and makes a blocking call instead *)
(* of being preempted leaves switch_out_current's Arc of itself on its own *)
(* kernel stack for good, like one that exits.                             *)
Switch(s) ==
  /\ call.at = "user"
  /\ run # Idle => HasSpace(run)
  /\ s # run
  /\ Resume(s)
  /\ \/ UNCHANGED life
     \/ /\ run # Idle /\ life[run] = "killed"
        /\ life' = [life EXCEPT ![run] = "exited"]
  /\ UNCHANGED <<pmm, map, perm, vmas, next, call, calls>>

(* sys_exit: a zombie, and the Arc its last switch_out_current holds stays *)
Exit(s) ==
  /\ InUser
  /\ Resume(s)
  /\ life' = [life EXCEPT ![run] = "exited"]
  /\ UNCHANGED <<pmm, map, perm, vmas, next, call, calls>>

(* terminate_cpu_bound_task: a zombie that stays on the CPU until a tick   *)
(* finds another task to run                                               *)
Terminate ==
  /\ InUser
  /\ life[run] = "alive"
  /\ life' = [life EXCEPT ![run] = "killed"]
  /\ UNCHANGED <<pmm, map, perm, vmas, next, cr3, tlb, run, call, calls>>

(* wait4 takes a zombie out of the process table.  The last Arc of one     *)
(* that was killed goes with it, and its VmSpace is dropped; one that      *)
(* exited is still referenced from its own kernel stack.                   *)
Reap(s) ==
  /\ InUser
  /\ s # run /\ life[s] \in {"killed", "exited"}
  /\ life' = [life EXCEPT ![s] = "free"]
  /\ Drop(s)
  /\ pmm' = IF life[s] = "killed" THEN FreeFrames(pmm, FramesOf(map[s])) ELSE pmm
  /\ UNCHANGED <<next, cr3, tlb, run, call, calls>>

-----------------------------------------------------------------------------
Calls ==
  \/ \E addr \in Addrs, length \in Lengths :
       \/ \E prot \in Prots, flags \in MapFlags : SysMmap(addr, length, prot, flags)
       \/ SysMunmap(addr, length)
       \/ \E prot \in Prots : SysMprotect(addr, length, prot)
  \/ Fork
  \/ \E image \in Images : Exec(image)

Loops ==
  \/ AllocPage \/ AllocFails \/ CreateTable \/ CreateTableFails \/ MapLeaf
  \/ MmapReturns \/ (\E child \in Procs : ForkReturns(child))
  \/ RangeBegins \/ RangeEnds \/ ExecFails \/ ApplyExec

Cpu ==
  \/ \E p \in Page : Touch(p)
  \/ \E s \in Procs \cup {Idle} : Switch(s) \/ Exit(s)
  \/ Terminate
  \/ \E s \in Procs : Reap(s)

Next == Calls \/ Loops \/ Cpu

Spec == Init /\ [][Next]_vars

-----------------------------------------------------------------------------
(* The frame allocator, the page-table trees, CR3, the processes and the   *)
(* call in progress have their types.                                      *)
TypeOK ==
  /\ pmm \in Manager
  /\ map \in [Spaces -> [Slots -> Frame \cup {NoFrame}]]
  /\ perm \in [Spaces -> [Page -> Attributes]]
  /\ cr3 \in Frame \cup {BootRoot}
  /\ run \in Procs \cup {Idle}
  /\ life \in [Procs -> {"free", "alive", "killed", "exited"}]
  /\ call.frame \in Frame \cup {NoFrame}
  /\ call.done \subseteq Page

(* The free count and the cursor of the frame allocator stay exact through *)
(* every allocation, rollback and teardown, so that the up-front checks of *)
(* mmap and exec read a true number.                                       *)
PmmExact == ManagerExact(pmm)

(* Every table and page of a tree hangs from a present entry, so that      *)
(* free_page_table_hierarchy's walk from the root reaches all of it.       *)
TreeRooted ==
  \A s \in Spaces, p \in Page :
    /\ map[s][Leaf(p)] # NoFrame => map[s][Slot(1, p)] # NoFrame
    /\ \A l \in 1 .. 3 : map[s][Slot(l, p)] # NoFrame =>
         map[s][IF l = 3 THEN Root ELSE Slot(l + 1, p)] # NoFrame

(* No physical frame is in two places: every frame in a page-table tree,   *)
(* and the one a loop is about to map, is allocated, was not the kernel's  *)
(* at boot, and is held by one slot of one address space, which the walk   *)
(* that frees the space reaches; and the allocator's count is right.       *)
FramesExclusive ==
  /\ TypeOK /\ PmmExact /\ TreeRooted
  /\ \A s \in Spaces, x \in Slots : map[s][x] # NoFrame =>
       /\ map[s][x] \in pmm.used \ BootManager.used
       /\ map[s][x] # call.frame
       /\ \A r \in Spaces, y \in Slots : map[r][y] = map[s][x] => r = s /\ y = x
  /\ call.frame # NoFrame => call.frame \in pmm.used \ BootManager.used

(* CR3 is the root of a space that exists: the running process's own, or,  *)
(* while the idle task borrows it, one that has not been reaped.           *)
LoadedRootLive ==
  \/ cr3 = BootRoot /\ run = BootInit /\ ~HasSpace(run)
  \/ \E s \in Procs : /\ life[s] # "free" /\ HasSpace(s) /\ cr3 = map[s][Root]
                      /\ run \in {s, Idle}

(* What the TLB still translates to is an allocated frame that no other    *)
(* page or process holds; while the page holds it, the cached permission   *)
(* is the entry's.  It may be nobody's: mmap over a mapped page forgets    *)
(* the old frame, and because that frame is never freed the stale          *)
(* translation stays harmless.  The tables it is filled from are live.     *)
TlbSound ==
  LoadedRootLive /\
  (tlb # NoTranslation =>
    /\ tlb.frame \in pmm.used
    /\ \A s \in Spaces, x \in Slots :
         map[s][x] = tlb.frame =>
           x = Leaf(tlb.page) /\ map[s][Root] = cr3 /\ perm[s][tlb.page] = tlb.perm)

(* VmSpace::vmas is "Disjoint, sorted", has no empty region and no two     *)
(* neighbours that should have been merged.                                *)
VmasCanonical ==
  \A s \in Spaces :
    /\ \A i \in DOMAIN vmas[s] : vmas[s][i].start < vmas[s][i].end
    /\ \A i \in 1 .. Len(vmas[s]) - 1 :
         LET v == vmas[s][i]  w == vmas[s][i + 1]
         IN  v.end < w.start \/ (v.end = w.start /\ Kind(v) # Kind(w))

(* Between calls, a mapped page has the attributes its VMA's protection    *)
(* stands for, whichever of exec, mmap, mprotect and fork made the two;    *)
(* and the list of VMAs is in its normal form at all times.                *)
EntriesMatchVmas ==
  /\ VmasCanonical
  /\ call.at = "user" => \A s \in Procs, p \in Page :
      map[s][Leaf(p)] # NoFrame =>
        \A a \in PageAttr(vmas[s], p) : perm[s][p] = FromProt(a[1])

(* What each call does to the list: munmap removes its range and nothing   *)
(* else, mprotect changes the protection there and keeps the flags, mmap   *)
(* gives its range the new attributes.  A page outside mmap's range keeps  *)
(* its region, or loses it if the region has mmap's own attributes: the    *)
(* case insert_vma drops when it has pushed the new region already.        *)
ListExact ==
  [][/\ \A addr \in Addrs, length \in Lengths :
          LET pages == PagesOf(addr, RangeEnd(addr, length))
          IN  /\ SysMunmap(addr, length) =>
                   \A p \in Page : PageAttr(vmas'[run], p) =
                                   IF p \in pages THEN {} ELSE PageAttr(vmas[run], p)
              /\ \A prot \in Prots : SysMprotect(addr, length, prot) =>
                   \A p \in Page : PageAttr(vmas'[run], p) =
                     IF p \in pages THEN {<<prot, a[2]>> : a \in PageAttr(vmas[run], p)}
                     ELSE PageAttr(vmas[run], p)
     /\ MmapReturns =>
          LET new == {Kind(call.vma)}
          IN  \A p \in Page : PageAttr(vmas'[run], p) \in
                IF p \in PagesOf(call.vma.start, call.vma.end) THEN {new}
                ELSE {PageAttr(vmas[run], p)} \cup
                     (IF PageAttr(vmas[run], p) = new THEN {{}} ELSE {})
    ]_vars

Held == (UNION {FramesOf(map[s]) : s \in Spaces}) \cup ({call.frame} \ {NoFrame})

Lost == pmm.used \ (Held \cup BootManager.used)

(* A frame is lost (allocated and held by nothing) in three ways only:     *)
(* map_page over a mapped page, fork's ignored map_page error, and a       *)
(* reaped process that had exited.  Every other failure path gives back    *)
(* all it took.                                                            *)
LossesKnown ==
  [][Lost' # Lost =>
       \/ MapLeaf /\ map[Target][Leaf(call.item.page)] # NoFrame
       \/ CreateTableFails /\ call.op = "fork"
       \/ \E s \in Procs : Reap(s) /\ life[s] = "exited"
    ]_vars
=============================================================================
