--------------------------- MODULE EntriesProofs ---------------------------
(***************************************************************************)
(* Proofs about AddressSpace, second part: what the page tables say and    *)
(* what the lists of regions say is the same.                              *)
(***************************************************************************)
EXTENDS AddressSpaceProofs, VmasProofs

USE Zenon

-----------------------------------------------------------------------------
(* The inductive invariant *)

Lists == {list \in Seq(Regions(Bounds)) : Canonical(list)}

(* The pages of the tree t, but for those in done, have in q the           *)
(* attributes that the list says                                           *)
Matches(t, q, list, done) ==
  \A p \in Page : t[Leaf(p)] # NoFrame /\ p \notin done =>
    \A k \in PageAttr(list, p) : q[p] = FromProt(k[1])

(* Between the first page that mmap or a segment of exec maps and the      *)
(* insertion of its region, the pages mapped are not what the list says.   *)
Mapping == call.op \in {"mmap", "exec"} /\ call.at \in {"alloc", "walk"}

Unlisted(s) == IF Mapping /\ s = Target THEN call.done ELSE {}

(* They have the attributes of the region, which has no other pages than   *)
(* these and those that the loop will come to.                             *)
Loading(c, q) ==
  /\ c.vma \in Regions(Bounds)
  /\ c.todo \in Seq(ItemsOf(c.vma))
  /\ c.at = "walk" => c.item \in ItemsOf(c.vma)
  /\ \A p \in c.done : Covers(c.vma, p * PageSize) /\ q[p] = FromProt(c.vma.prot)
  /\ \A p \in Page : Covers(c.vma, p * PageSize) =>
       \/ p \in c.done
       \/ c.at = "walk" /\ c.item.page = p
       \/ \E i \in DOMAIN c.todo : c.todo[i].page = p

(* fork copies pages with the protection its copy of the list says *)
Copying(c, list) ==
  /\ c.todo \in Seq(Agreeing(list))
  /\ c.at = "walk" => c.item \in Agreeing(list)

ListsOK == vmas \in [Spaces -> Lists]

NextOK == next \in [Procs -> Bounds] /\ (call.op = "mmap" => call.roll \in Bounds)

EInv ==
  /\ ListsOK /\ NextOK
  /\ \A s \in Spaces : Matches(map[s], perm[s], vmas[s], Unlisted(s))
  /\ Mapping => Loading(call, perm[Target])
  /\ call.op = "fork" => Copying(call, vmas[Fresh])

LEMMA LoadingStarts ==
  ASSUME NEW c, NEW q, c.vma \in Regions(Bounds), c.todo = PagesOfVma(c.vma), c.done = {}, c.at = "alloc"
  PROVE  Loading(c, q)
<1>1. /\ c.todo \in Seq(ItemsOf(c.vma))
      /\ \A p \in Nat : Covers(c.vma, p * PageSize) => \E i \in DOMAIN c.todo : c.todo[i].page = p
  BY ItemsFacts
<1>2. Page \subseteq Nat
  BY SMT DEF Page
<1> QED
  BY <1>1, <1>2 DEF Loading

LEMMA ListIs ==
  ASSUME ListsOK, NEW s \in Spaces
  PROVE  vmas[s] \in Lists /\ vmas[s] \in Seq(Regions(Bounds)) /\ Canonical(vmas[s])
BY DEF ListsOK, Lists

LEMMA StateIs ==
  ASSUME Inv
  PROVE  /\ map \in Forest /\ perm \in [Spaces -> [Page -> Attributes]]
         /\ CallOK /\ SpacesOK /\ call.done \subseteq Page
         /\ Page \subseteq Nat
<1>1. Page \subseteq Nat
  BY SMT DEF Page
<1> QED
  BY <1>1, TypeForest DEF Inv, IInv, TypeOK

(* Fewer pages, fewer things said *)
LEMMA MatchNone ==
  ASSUME NEW q, NEW list, NEW d
  PROVE  Matches(NoSpace, q, list, d)
BY SlotsIn DEF Matches, NoSpace

(* Where nothing is being mapped *)
LEMMA Settled ==
  ASSUME Inv, EInv, ~ Mapping
  PROVE  \A s \in Spaces : Unlisted(s) = {} /\ Matches(map[s], perm[s], vmas[s], {})
BY DEF EInv, Unlisted

LEMMA AtUser ==
  ASSUME Inv, EInv, call.at = "user"
  PROVE  ~ Mapping /\ call.op = "none"
BY StateIs DEF CallOK, Mapping

LEMMA Settles ==
  ASSUME ListsOK', NextOK', ~ Mapping', call'.op # "fork",
         \A s \in Spaces : Matches(map'[s], perm'[s], vmas'[s], {})
  PROVE  EInv'
BY DEF EInv, Unlisted

(* Steps that leave the entries, the lists and the call *)
LEMMA Quiet ==
  ASSUME Inv, EInv, UNCHANGED <<perm, vmas, next, call>>, call.at = "user" \/ run' = run,
         \A s \in Spaces, p \in Page : map'[s][Leaf(p)] = map[s][Leaf(p)]
  PROVE  EInv'
<1>1. ListsOK' /\ NextOK' /\ (call'.op = "fork" => Copying(call', vmas'[Fresh]))
  BY DEF EInv, ListsOK, NextOK
<1>2. CASE call.at = "user"
  <2>1. ~ Mapping /\ ~ Mapping' /\ call'.op # "fork"
    <3>1. ~ Mapping /\ call.op = "none"
      BY <1>2, AtUser
    <3> QED
      BY <3>1 DEF Mapping
  <2>2. ASSUME NEW s \in Spaces PROVE Matches(map'[s], perm'[s], vmas'[s], {})
    BY <2>1, Settled DEF Matches
  <2> QED
    BY <1>1, <2>1, <2>2, Settles
<1>3. CASE run' = run
  <2>1. Target' = Target /\ Mapping' = Mapping
    BY <1>3 DEF Target, Mapping
  <2>2. ASSUME NEW s \in Spaces PROVE Matches(map'[s], perm'[s], vmas'[s], Unlisted(s)')
    <3>1. Unlisted(s)' = Unlisted(s) /\ Matches(map[s], perm[s], vmas[s], Unlisted(s))
      BY <2>1 DEF EInv, Unlisted
    <3> QED
      BY <3>1 DEF Matches
  <2>3. Mapping' => Loading(call', perm'[Target'])
    BY <2>1 DEF EInv
  <2> QED
    BY <1>1, <2>2, <2>3 DEF EInv
<1> QED
  BY <1>2, <1>3

-----------------------------------------------------------------------------
(* The calls, up to their loops *)

LEMMA MmapMatches ==
  ASSUME Inv, EInv, NEW addr \in Addrs, NEW length \in Lengths, NEW prot \in Prots,
         NEW flags \in MapFlags, SysMmap(addr, length, prot, flags)
  PROVE  EInv'
<1> DEFINE start == MmapStart(addr, length)
           end == start + DivCeil(length) * PageSize
           v == Vma(start, end, prot, flags)
<1>1. call.at = "user" /\ run \in Procs /\ ~ Mapping /\ length # 0
  BY AtUser, StateIs DEF Inv, IInv, TypeOK, SysMmap, Enter, InUser, MmapAccepts
<1>2. addr \in Nat /\ length \in Nat /\ flags \in Nat /\ prot \in SUBSET {"r", "w", "x"} /\ PageSize \in Nat \ {0}
  BY AddressSpaceAssumption, PageSizeAssumption
<1>3. next \in [Procs -> Bounds] /\ next[run] \in Bounds
  BY <1>1 DEF EInv, NextOK
<1>4. start \in Bounds
  <2>1. PageOf(addr) \in Nat
    BY <1>2, DivBounds DEF PageOf
  <2> QED
    BY <1>3, <2>1, Multiple DEF MmapStart
<1>5. /\ call' = [NoCall EXCEPT !.at = "alloc", !.op = "mmap", !.vma = v, !.todo = PagesOfVma(v),
                                !.roll = next[run]]
      /\ next' = [next EXCEPT ![run] = IF addr = 0 THEN end ELSE @]
      /\ UNCHANGED <<map, perm, vmas, run>>
  BY DEF SysMmap
<1> HIDE DEF start
<1>6. end \in Bounds
  BY <1>1, <1>2, <1>4, RangeBounds
<1> HIDE DEF end
<1>7. v \in Regions(Bounds)
  BY SMTT(30), <1>2, <1>4, <1>6 DEF Regions, Vma
<1> HIDE DEF v
<1>8. call'.at = "alloc" /\ call'.op = "mmap" /\ call'.vma = v /\ call'.todo = PagesOfVma(v)
      /\ call'.roll = next[run] /\ call'.done = {}
  BY <1>5 DEF NoCall
<1>9. NextOK'
  BY <1>3, <1>5, <1>6, <1>8 DEF NextOK
<1>10. Loading(call', perm'[Target'])
  BY <1>7, <1>8, LoadingStarts
<1>11. ASSUME NEW s \in Spaces PROVE Matches(map'[s], perm'[s], vmas'[s], Unlisted(s)')
  <2>1. Unlisted(s)' = {}
    BY <1>8 DEF Unlisted
  <2> QED
    BY <1>1, <1>5, <2>1, Settled
<1> QED
  BY <1>5, <1>8, <1>9, <1>10, <1>11 DEF EInv, ListsOK

(* The range of munmap and mprotect *)
LEMMA RangeIs ==
  ASSUME NEW addr \in Addrs, NEW length \in Lengths, RangeAccepted(addr, length)
  PROVE  /\ addr \in Bounds /\ RangeEnd(addr, length) \in Bounds
         /\ addr < RangeEnd(addr, length)
<1>1. addr \in Bounds /\ length \in Nat /\ length # 0
  BY AddressSpaceAssumption DEF RangeAccepted, Bounds
<1> QED
  BY <1>1, RangeBounds DEF RangeEnd

LEMMA CallerIs ==
  ASSUME Inv, EInv, Enter
  PROVE  /\ call.at = "user" /\ ~ Mapping /\ call.op = "none" /\ run \in Procs /\ run \in Spaces
         /\ vmas[run] \in Seq(Regions(Bounds)) /\ Canonical(vmas[run])
         /\ \A s \in Spaces : Matches(map[s], perm[s], vmas[s], {})
<1>1. call.at = "user" /\ run \in Procs
  BY DEF Inv, IInv, TypeOK, Enter, InUser
<1>2. run \in Spaces
  BY <1>1, SpacesKinds
<1> QED
  BY <1>1, <1>2, AtUser, Settled, ListIs DEF EInv

LEMMA MunmapMatches ==
  ASSUME Inv, EInv, NEW addr \in Addrs, NEW length \in Lengths, SysMunmap(addr, length)
  PROVE  EInv'
<1> DEFINE end == RangeEnd(addr, length)
           pages == PagesOf(addr, end)
           list == remove_vma_range(vmas[run], addr, end)
<1>1. /\ call.at = "user" /\ ~ Mapping /\ call.op = "none" /\ run \in Procs /\ run \in Spaces
      /\ vmas[run] \in Seq(Regions(Bounds)) /\ Canonical(vmas[run])
      /\ \A s \in Spaces : Matches(map[s], perm[s], vmas[s], {})
  BY CallerIs DEF SysMunmap
<1>2. addr \in Bounds /\ end \in Bounds /\ addr < end
  BY RangeIs DEF SysMunmap
<1>3. /\ map' = [map EXCEPT ![run] = Cut(map[run], pages)]
      /\ vmas' = [vmas EXCEPT ![run] = list]
      /\ UNCHANGED <<perm, next, run, call>>
  BY DEF SysMunmap, Unmap, Cut
<1> HIDE DEF end
<1>4. /\ list \in Seq(Regions(Bounds)) /\ Canonical(list)
      /\ \A p \in Nat : PageAttr(list, p) = IF p \in pages THEN {} ELSE PageAttr(vmas[run], p)
  BY <1>1, <1>2, PagesRemoved
<1> HIDE DEF list, pages
<1>5. map \in Forest /\ vmas \in [Spaces -> Lists]
  BY StateIs DEF EInv, ListsOK
<1>6. ListsOK' /\ NextOK'
  BY <1>3, <1>4, <1>5 DEF EInv, ListsOK, NextOK, Lists
<1>7. ASSUME NEW s \in Spaces PROVE Matches(map'[s], perm'[s], vmas'[s], {})
  <2>1. CASE s = run
    <3>1. map'[s] = Cut(map[s], pages) /\ vmas'[s] = list /\ perm'[s] = perm[s]
      BY <1>1, <1>3, <1>5, <2>1 DEF Forest
    <3>2. \A p \in Page : Cut(map[s], pages)[Leaf(p)] # NoFrame => map[s][Leaf(p)] # NoFrame
      BY SlotsIn DEF Cut
    <3>3. \A p \in Page : PageAttr(list, p) \subseteq PageAttr(vmas[s], p)
      BY <1>4, <2>1, StateIs
    <3>4. Matches(Cut(map[s], pages), perm[s], list, {})
      BY <1>1, <3>2, <3>3 DEF Matches
    <3> QED
      BY <3>1, <3>4
  <2>2. CASE s # run
    BY <1>1, <1>3, <1>5, <2>2 DEF Forest
  <2> QED
    BY <2>1, <2>2
<1>8. ~ Mapping' /\ call'.op # "fork"
  BY <1>1, <1>3 DEF Mapping
<1> QED
  BY <1>6, <1>7, <1>8, Settles

LEMMA MprotectMatches ==
  ASSUME Inv, EInv, NEW addr \in Addrs, NEW length \in Lengths, NEW prot \in Prots,
         SysMprotect(addr, length, prot)
  PROVE  EInv'
<1> DEFINE end == RangeEnd(addr, length)
           pages == PagesOf(addr, end)
           list == Reprotect(vmas[run], addr, end, prot)
           entries == [p \in Page |-> IF p \in pages \cap MappedPages(map[run])
                                     THEN FromProt(prot) ELSE perm[run][p]]
<1>1. /\ call.at = "user" /\ ~ Mapping /\ call.op = "none" /\ run \in Procs /\ run \in Spaces
      /\ vmas[run] \in Seq(Regions(Bounds)) /\ Canonical(vmas[run])
      /\ \A s \in Spaces : Matches(map[s], perm[s], vmas[s], {})
  BY CallerIs DEF SysMprotect
<1>2. addr \in Bounds /\ end \in Bounds /\ prot \in Protection
  BY RangeIs, AddressSpaceAssumption DEF SysMprotect, Protection
<1>3. /\ perm' = [perm EXCEPT ![run] = entries]
      /\ vmas' = [vmas EXCEPT ![run] = list]
      /\ UNCHANGED <<map, next, run, call>>
  BY DEF SysMprotect, SetPageFlags
<1> HIDE DEF end
<1>4. /\ list \in Seq(Regions(Bounds)) /\ Canonical(list)
      /\ \A p \in Nat : PageAttr(list, p) =
           IF p \in pages THEN WithProt(prot, PageAttr(vmas[run], p))
           ELSE PageAttr(vmas[run], p)
  <2>1. /\ list \in Seq(Regions(Bounds)) /\ Canonical(list)
        /\ Reprotected(list, vmas[run], addr, end, prot)
    BY <1>1, <1>2, PagesChanged
  <2> HIDE DEF list
  <2> QED
    BY <2>1 DEF Reprotected
<1>5. \A p \in Page : map[run][Leaf(p)] # NoFrame =>
        entries[p] = IF p \in pages THEN FromProt(prot) ELSE perm[run][p]
  BY DEF MappedPages
<1> HIDE DEF list, pages, entries
<1>6. perm \in [Spaces -> [Page -> Attributes]] /\ vmas \in [Spaces -> Lists] /\ Page \subseteq Nat
  BY StateIs DEF EInv, ListsOK
<1>7. ListsOK' /\ NextOK'
  BY <1>3, <1>4, <1>6 DEF EInv, ListsOK, NextOK, Lists
<1>8. ASSUME NEW p \in Page, map[run][Leaf(p)] # NoFrame, NEW k \in PageAttr(list, p)
      PROVE  entries[p] = FromProt(k[1])
  <2>1. CASE p \in pages
    <3>1. PICK l \in PageAttr(vmas[run], p) : k = <<prot, l[2]>>
      BY <1>4, <1>6, <1>8, <2>1 DEF WithProt
    <3>2. k[1] = prot
      BY <3>1
    <3> QED
      BY <1>5, <1>8, <2>1, <3>2
  <2>2. CASE p \notin pages
    <3>1. k \in PageAttr(vmas[run], p)
      BY <1>4, <1>6, <1>8, <2>2
    <3> QED
      BY <1>1, <1>5, <1>8, <2>2, <3>1 DEF Matches
  <2> QED
    BY <2>1, <2>2
<1>9. ASSUME NEW s \in Spaces PROVE Matches(map'[s], perm'[s], vmas'[s], {})
  <2>1. CASE s = run
    <3>1. perm'[s] = entries /\ vmas'[s] = list /\ map'[s] = map[s]
      BY <1>1, <1>3, <1>6, <2>1
    <3> QED
      BY <1>8, <2>1, <3>1 DEF Matches
  <2>2. CASE s # run
    BY <1>1, <1>3, <1>6, <2>2
  <2> QED
    BY <2>1, <2>2
<1>10. ~ Mapping' /\ call'.op # "fork"
  BY <1>1, <1>3 DEF Mapping
<1> QED
  BY <1>7, <1>9, <1>10, Settles

(* VmSpace::new has no page *)
LEMMA NewMatches ==
  ASSUME Inv, EInv, ~ Mapping, NEW list \in Lists, NewSpace(list), UNCHANGED perm
  PROVE  ListsOK' /\ vmas'[Fresh] = list
         /\ \A s \in Spaces : Matches(map'[s], perm'[s], vmas'[s], {})
<1> DEFINE tree == [NoSpace EXCEPT ![Root] = NextFree(pmm)]
<1>1. map \in Forest /\ vmas \in [Spaces -> Lists] /\ Fresh \in Spaces
  BY StateIs, SpacesKinds DEF EInv, ListsOK
<1>2. map' = [map EXCEPT ![Fresh] = tree] /\ vmas' = [vmas EXCEPT ![Fresh] = list]
  BY DEF NewSpace
<1>3. \A p \in Page : tree[Leaf(p)] = NoFrame
  <2> SUFFICES ASSUME NEW p \in Page PROVE tree[Leaf(p)] = NoFrame
    OBVIOUS
  <2>1. Leaf(p) # Root
    BY SMT DEF Leaf, Root
  <2> QED
    BY <2>1, SlotsIn DEF NoSpace
<1> HIDE DEF tree
<1>4. ListsOK' /\ vmas'[Fresh] = list /\ map'[Fresh] = tree
  BY <1>1, <1>2 DEF ListsOK, Forest
<1>5. ASSUME NEW s \in Spaces PROVE Matches(map'[s], perm'[s], vmas'[s], {})
  <2>1. CASE s = Fresh
    BY <1>3, <1>4, <2>1 DEF Matches
  <2>2. CASE s # Fresh
    BY <1>1, <1>2, <2>2, Settled DEF Forest
  <2> QED
    BY <2>1, <2>2
<1> QED
  BY <1>4, <1>5

LEMMA ForkMatches ==
  ASSUME Inv, EInv, Fork
  PROVE  EInv'
<1> DEFINE todo == Concat([i \in DOMAIN vmas[run] |-> PagesOfVma(vmas[run][i])])
<1>1. /\ ~ Mapping /\ run \in Spaces /\ vmas[run] \in Seq(Regions(Bounds)) /\ Canonical(vmas[run])
  BY CallerIs DEF Fork
<1>2. todo \in Seq(Agreeing(vmas[run]))
  BY <1>1, ForkItems
<1>3. /\ call' = [NoCall EXCEPT !.at = "alloc", !.op = "fork", !.todo = todo]
      /\ NewSpace(vmas[run]) /\ UNCHANGED <<perm, next>>
  BY DEF Fork
<1> HIDE DEF todo
<1>4. call'.at = "alloc" /\ call'.op = "fork" /\ call'.todo = todo
  BY <1>3 DEF NoCall
<1>5. ListsOK' /\ vmas'[Fresh] = vmas[run]
      /\ \A s \in Spaces : Matches(map'[s], perm'[s], vmas'[s], {})
  BY <1>1, <1>3, NewMatches, ListIs DEF EInv
<1>6. NextOK'
  BY <1>3, <1>4 DEF EInv, NextOK
<1>7. ~ Mapping' /\ Copying(call', vmas'[Fresh])
  BY <1>2, <1>4, <1>5 DEF Mapping, Copying
<1> QED
  BY <1>5, <1>6, <1>7 DEF EInv, Unlisted

LEMMA ExecMatches ==
  ASSUME Inv, EInv, NEW image \in Images, Exec(image)
  PROVE  EInv'
<1>1. /\ call' = [NoCall EXCEPT !.at = "segment", !.op = "exec", !.segs = Append(image.segs, UserStack),
                                !.fits = image.fits]
      /\ call.at = "user" /\ NewSpace(<< >>) /\ UNCHANGED <<perm, next>>
  BY DEF Exec
<1>2. call'.at = "segment" /\ call'.op = "exec"
  BY <1>1 DEF NoCall
<1>3. << >> \in Lists
  BY EmptyFacts DEF Lists
<1>4. ListsOK' /\ \A s \in Spaces : Matches(map'[s], perm'[s], vmas'[s], {})
  BY <1>1, <1>3, AtUser, NewMatches
<1>5. NextOK' /\ ~ Mapping' /\ call'.op # "fork"
  BY <1>1, <1>2 DEF EInv, NextOK, Mapping
<1> QED
  BY <1>4, <1>5, Settles

-----------------------------------------------------------------------------
(* The loops *)

(* The space a loop works on, and the others *)
LEMMA LoopIs ==
  ASSUME Inv, EInv, call.at # "user"
  PROVE  /\ call.op \in {"mmap", "fork", "exec"} /\ run \in Procs
         /\ Target \in Spaces /\ (call.op = "mmap" => Target = run) /\ (call.op # "mmap" => Target = Fresh)
         /\ call.op = "mmap" => Mapping
         /\ \A s \in Spaces : s # Target => Matches(map[s], perm[s], vmas[s], {})
         /\ Matches(map[Target], perm[Target], vmas[Target], Unlisted(Target))
<1>1. call.op \in {"mmap", "fork", "exec"} /\ run \in Procs
  BY StateIs DEF CallOK
<1>2. (call.op = "mmap" => Target = run) /\ (call.op # "mmap" => Target = Fresh)
  BY DEF Target
<1>3. Target \in Spaces
  BY <1>1, <1>2, SpacesKinds
<1>4. call.op = "mmap" => Mapping
  BY StateIs DEF CallOK, Mapping
<1> QED
  BY <1>1, <1>2, <1>3, <1>4 DEF EInv, Unlisted

LEMMA FailMatches ==
  ASSUME Inv, EInv, call.at # "user", Fail
  PROVE  EInv'
<1>0. /\ call.op \in {"mmap", "fork", "exec"} /\ run \in Procs
      /\ (call.op = "mmap" => Target = run) /\ (call.op # "mmap" => Target = Fresh)
      /\ call.op = "mmap" => Mapping
      /\ \A s \in Spaces : s # Target => Matches(map[s], perm[s], vmas[s], {})
      /\ Matches(map[Target], perm[Target], vmas[Target], Unlisted(Target))
  BY LoopIs
<1>1. call' = NoCall
  BY DEF Fail
<1>2. ~ Mapping' /\ call'.op = "none"
  BY <1>1, NoCallIs DEF Mapping
<1>3. map \in Forest /\ perm \in [Spaces -> [Page -> Attributes]] /\ vmas \in [Spaces -> Lists]
      /\ next \in [Procs -> Bounds] /\ Fresh \in Spaces /\ run \in Spaces
  BY <1>0, StateIs, SpacesKinds DEF EInv, ListsOK, NextOK
<1>4. CASE call.op = "mmap"
  <2>1. /\ map' = [map EXCEPT ![run] = Cut(map[run], call.done)]
        /\ next' = [next EXCEPT ![run] = call.roll] /\ UNCHANGED <<perm, vmas>>
    BY <1>4 DEF Fail, Unmap, Cut
  <2>2. ListsOK' /\ NextOK'
    BY <1>0, <1>2, <1>3, <1>4, <2>1 DEF EInv, ListsOK, NextOK
  <2>3. map'[run] = Cut(map[run], call.done) /\ \A s \in Spaces : s # run => map'[s] = map[s]
    BY <1>3, <2>1 DEF Forest
  <2>4. Matches(map[run], perm[run], vmas[run], call.done)
    BY <1>0, <1>4 DEF Unlisted
  <2>5. Matches(Cut(map[run], call.done), perm[run], vmas[run], {})
    <3>1. \A p \in Page : Cut(map[run], call.done)[Leaf(p)] # NoFrame =>
                            map[run][Leaf(p)] # NoFrame /\ p \notin call.done
      BY SlotsIn DEF Cut
    <3> QED
      BY <2>4, <3>1 DEF Matches
  <2>6. ASSUME NEW s \in Spaces PROVE Matches(map'[s], perm'[s], vmas'[s], {})
    BY <1>0, <1>4, <2>1, <2>3, <2>5
  <2> QED
    BY <1>2, <2>2, <2>6, Settles
<1>5. CASE call.op # "mmap"
  <2>1. /\ map' = [map EXCEPT ![Fresh] = NoSpace] /\ perm' = [perm EXCEPT ![Fresh] = NoPerm]
        /\ vmas' = [vmas EXCEPT ![Fresh] = << >>] /\ UNCHANGED next
    BY <1>5 DEF Fail, Drop
  <2>2. << >> \in Lists
    BY EmptyFacts DEF Lists
  <2>3. ListsOK' /\ NextOK'
    BY <1>2, <1>3, <2>1, <2>2 DEF ListsOK, NextOK
  <2>4. map'[Fresh] = NoSpace /\ \A s \in Spaces : s # Fresh => map'[s] = map[s]
    BY <1>3, <2>1 DEF Forest
  <2>5. \A s \in Spaces : s # Fresh => perm'[s] = perm[s] /\ vmas'[s] = vmas[s]
    BY <1>3, <2>1
  <2>6. ASSUME NEW s \in Spaces PROVE Matches(map'[s], perm'[s], vmas'[s], {})
    BY <1>0, <1>5, <2>4, <2>5, MatchNone
  <2> QED
    BY <1>2, <2>3, <2>6, Settles
<1> QED
  BY <1>4, <1>5

LEMMA AllocMatches ==
  ASSUME Inv, EInv, AllocPage
  PROVE  EInv'
<1>0. call.at = "alloc" /\ UNCHANGED <<map, perm, vmas, next, run>> /\ CallShape
  BY StateIs DEF AllocPage, CallOK
<1>1. PICK i \in Wanted :
        /\ \A j \in Wanted : i <= j
        /\ call' = [call EXCEPT !.at = "walk", !.frame = NextFree(pmm), !.item = call.todo[i],
                                !.todo = SubSeq(@, i + 1, Len(@))]
  BY DEF AllocPage
<1>2. i \in DOMAIN call.todo
  BY DEF Wanted
<1>3. /\ call'.at = "walk" /\ call'.op = call.op /\ call'.done = call.done /\ call'.vma = call.vma
      /\ call'.roll = call.roll /\ call'.item = call.todo[i]
      /\ call'.todo = SubSeq(call.todo, i + 1, Len(call.todo))
  BY <1>0, <1>1 DEF CallShape
<1>4. Target' = Target /\ (Mapping' <=> Mapping)
  BY <1>0, <1>3 DEF Target, Mapping
<1>5. ListsOK' /\ NextOK'
  BY <1>0, <1>3 DEF EInv, ListsOK, NextOK
<1>6. ASSUME NEW s \in Spaces PROVE Matches(map'[s], perm'[s], vmas'[s], Unlisted(s)')
  <2>1. Unlisted(s)' = Unlisted(s)
    BY <1>3, <1>4 DEF Unlisted
  <2> QED
    BY <1>0, <2>1 DEF EInv
<1>7. ASSUME Mapping PROVE Loading(call', perm'[Target'])
  <2>1. Loading(call, perm[Target]) /\ call.op # "fork"
    BY <1>7 DEF EInv, Mapping
  <2>2. call.todo \in Seq(ItemsOf(call.vma))
    BY <2>1 DEF Loading
  <2>3. /\ call'.todo \in Seq(ItemsOf(call.vma)) /\ call'.item \in ItemsOf(call.vma)
        /\ Behind(call.todo, i, call'.todo)
    BY <1>2, <1>3, <2>2, RestOf
  <2>4. \A j \in DOMAIN call.todo : j = i \/ j > i
    <3>1. Wanted = DOMAIN call.todo
      BY <2>1 DEF Wanted
    <3>2. \A j \in DOMAIN call.todo : i <= j
      BY <1>1, <3>1
    <3>3. DOMAIN call.todo \subseteq Nat
      BY SMTT(30), <2>2
    <3> QED
      BY SMTT(30), <1>2, <3>2, <3>3
  <2>5. ASSUME NEW p \in Page, Covers(call.vma, p * PageSize)
        PROVE  \/ p \in call'.done
               \/ call'.at = "walk" /\ call'.item.page = p
               \/ \E m \in DOMAIN call'.todo : call'.todo[m].page = p
    <3>1. p \in call.done \/ \E j \in DOMAIN call.todo : call.todo[j].page = p
      BY <1>0, <2>1, <2>5 DEF Loading
    <3>2. ASSUME NEW j \in DOMAIN call.todo, call.todo[j].page = p
          PROVE  call'.item.page = p \/ \E m \in DOMAIN call'.todo : call'.todo[m].page = p
      BY <1>3, <2>3, <2>4, <3>2 DEF Behind
    <3> QED
      BY <1>3, <3>1, <3>2
  <2>6. /\ call.vma \in Regions(Bounds)
        /\ \A p \in call.done : Covers(call.vma, p * PageSize) /\ perm[Target][p] = FromProt(call.vma.prot)
    BY <2>1 DEF Loading
  <2>7. perm'[Target'] = perm[Target]
    BY <1>0, <1>4
  <2> QED
    BY <1>3, <2>3, <2>5, <2>6, <2>7 DEF Loading
<1>8. ASSUME call.op = "fork" PROVE Copying(call', vmas'[Fresh])
  <2>1. call.todo \in Seq(Agreeing(vmas[Fresh]))
    BY <1>8 DEF EInv, Copying
  <2>2. call'.todo \in Seq(Agreeing(vmas[Fresh])) /\ call'.item \in Agreeing(vmas[Fresh])
    BY <1>2, <1>3, <2>1, RestOf
  <2> QED
    BY <1>0, <2>2 DEF Copying
<1> QED
  BY <1>3, <1>4, <1>5, <1>6, <1>7, <1>8 DEF EInv

LEMMA TableMatches ==
  ASSUME Inv, EInv, CreateTable
  PROVE  EInv'
<1> DEFINE page == call.item.page
           l == Max(Missing(map[Target], page))
<1>1. /\ Target \in Spaces /\ map[Target] \in Tree /\ page \in Page
  BY TargetIs DEF CreateTable
<1>2. /\ Missing(map[Target], page) # {}
      /\ map' = [map EXCEPT ![Target][Slot(l, page)] = NextFree(pmm)]
      /\ UNCHANGED <<perm, vmas, next, run, call>>
  BY DEF CreateTable
<1>3. l \in 1 .. 3
  BY <1>2, MaxMissing DEF Missing
<1> HIDE DEF l, page
<1>4. map \in Forest
  BY StateIs
<1>5. ASSUME NEW s \in Spaces, NEW p \in Page PROVE map'[s][Leaf(p)] = map[s][Leaf(p)]
  <2>1. Leaf(p) # Slot(l, page)
    BY <1>1, <1>3, SlotsApart
  <2> QED
    BY <1>1, <1>2, <1>4, <2>1, SlotsIn DEF Forest, Tree
<1> QED
  BY <1>2, <1>5, Quiet

LEMMA TableFailsMatches ==
  ASSUME Inv, EInv, CreateTableFails
  PROVE  EInv'
<1>0. call.at = "walk" /\ CallShape
  BY StateIs DEF CreateTableFails, CallOK
<1>1. CASE call.op = "fork"
  <2>1. /\ call' = [call EXCEPT !.at = "alloc", !.item = NoItem, !.frame = NoFrame]
        /\ UNCHANGED <<map, perm, vmas, next, run>>
    BY <1>1 DEF CreateTableFails
  <2>2. call'.at = "alloc" /\ call'.op = "fork" /\ call'.todo = call.todo
    BY <1>0, <1>1, <2>1 DEF CallShape
  <2>3. ~ Mapping /\ ~ Mapping'
    BY <1>1, <2>2 DEF Mapping
  <2>4. Copying(call', vmas'[Fresh])
    BY <1>1, <2>1, <2>2 DEF EInv, Copying
  <2>5. ListsOK' /\ NextOK'
    BY <2>1, <2>2 DEF EInv, ListsOK, NextOK
  <2>6. \A s \in Spaces : Matches(map'[s], perm'[s], vmas'[s], Unlisted(s)')
    BY <2>1, <2>3, Settled DEF Unlisted
  <2> QED
    BY <2>3, <2>4, <2>5, <2>6 DEF EInv
<1>2. CASE call.op # "fork"
  BY <1>0, <1>2, FailMatches DEF CreateTableFails
<1> QED
  BY <1>1, <1>2

LEMMA LeafMatches ==
  ASSUME Inv, EInv, MapLeaf
  PROVE  EInv'
<1>a. PICK T : T = Target
  OBVIOUS
<1> DEFINE page == call.item.page
           prot == call.item.prot
           tree == [map[T] EXCEPT ![Leaf(page)] = call.frame]
           entries == [perm[T] EXCEPT ![page] = FromProt(prot)]
<1>0. /\ call.at = "walk" /\ CallShape /\ (Mapping \/ call.op = "fork")
      /\ map \in Forest /\ perm \in [Spaces -> [Page -> Attributes]] /\ vmas \in [Spaces -> Lists]
      /\ map[T] \in Tree
  BY <1>a, TargetIs, StateIs DEF MapLeaf, CallOK, Mapping, EInv, ListsOK
<1>1. /\ call.op \in {"mmap", "fork", "exec"} /\ page \in Page /\ T \in Spaces
      /\ \A s \in Spaces : s # T => Matches(map[s], perm[s], vmas[s], {})
      /\ Matches(map[T], perm[T], vmas[T], Unlisted(T))
  BY <1>a, LoopIs, TargetIs DEF MapLeaf
<1>2. /\ map' = [map EXCEPT ![T][Leaf(page)] = call.frame]
      /\ perm' = [perm EXCEPT ![T][page] = FromProt(prot)]
      /\ call' = [call EXCEPT !.at = "alloc", !.item = NoItem, !.frame = NoFrame, !.done = @ \cup {page}]
      /\ UNCHANGED <<vmas, next, run>>
  BY <1>a DEF MapLeaf
<1>3. /\ call'.at = "alloc" /\ call'.op = call.op /\ call'.done = call.done \cup {page}
      /\ call'.vma = call.vma /\ call'.roll = call.roll /\ call'.todo = call.todo
  BY <1>0, <1>2 DEF CallShape
<1>4. Target' = T /\ (Mapping' <=> Mapping)
  BY <1>a, <1>0, <1>2, <1>3 DEF Target, Mapping
<1>5. ListsOK' /\ NextOK'
  BY <1>2, <1>3 DEF EInv, ListsOK, NextOK
<1> HIDE DEF page, prot
<1>6. /\ map'[T] = tree /\ perm'[T] = entries
      /\ \A s \in Spaces : s # T => map'[s] = map[s] /\ perm'[s] = perm[s]
  BY <1>0, <1>1, <1>2 DEF Forest
<1>7. entries[page] = FromProt(prot) /\ \A p \in Page : p # page => entries[p] = perm[T][p]
  BY <1>0, <1>1
<1>8. \A p \in Page : p # page => tree[Leaf(p)] = map[T][Leaf(p)]
  <2> SUFFICES ASSUME NEW p \in Page, p # page PROVE tree[Leaf(p)] = map[T][Leaf(p)]
    OBVIOUS
  <2>1. Leaf(p) # Leaf(page)
    BY SMTT(30), <1>1 DEF Leaf
  <2> QED
    BY <1>0, <2>1, SlotsIn DEF Tree
<1> HIDE DEF tree, entries
<1>9. \A s \in Spaces : s # T => Unlisted(s)' = {}
  BY <1>4 DEF Unlisted
<1>10. ASSUME NEW s \in Spaces, s # T PROVE Matches(map'[s], perm'[s], vmas'[s], Unlisted(s)')
  BY <1>1, <1>2, <1>6, <1>9, <1>10
<1>11. CASE Mapping
  <2>1. Unlisted(T) = call.done /\ Unlisted(T)' = call.done \cup {page} /\ call'.op # "fork"
    BY <1>a, <1>3, <1>4, <1>11 DEF Unlisted, Mapping
  <2>2. Matches(tree, entries, vmas[T], call.done \cup {page})
    BY <1>1, <1>7, <1>8, <2>1 DEF Matches
  <2>3. Loading(call, perm[T])
    BY <1>a, <1>11 DEF EInv
  <2>4. /\ call.vma \in Regions(Bounds) /\ call.todo \in Seq(ItemsOf(call.vma))
        /\ page \in Page /\ prot = call.vma.prot /\ Covers(call.vma, page * PageSize)
    BY <1>0, <1>1, <2>3 DEF Loading, ItemsOf, page, prot
  <2>5. ASSUME NEW p \in call.done \cup {page}
        PROVE  Covers(call.vma, p * PageSize) /\ entries[p] = FromProt(call.vma.prot)
    <3>1. CASE p = page
      BY <1>7, <2>4, <3>1
    <3>2. CASE p # page
      <4>1. p \in call.done /\ p \in Page
        BY <2>5, <3>2, StateIs
      <4> QED
        BY <1>7, <2>3, <3>2, <4>1 DEF Loading
    <3> QED
      BY <3>1, <3>2
  <2>6. ASSUME NEW p \in Page, Covers(call.vma, p * PageSize)
        PROVE  p \in call.done \cup {page} \/ \E i \in DOMAIN call.todo : call.todo[i].page = p
    BY <2>3, <2>6 DEF Loading, page
  <2>7. Loading(call', entries)
    BY <1>3, <2>4, <2>5, <2>6 DEF Loading
  <2>8. Matches(map'[T], perm'[T], vmas'[T], Unlisted(T)')
    BY <1>2, <1>6, <2>1, <2>2
  <2>9. \A s \in Spaces : Matches(map'[s], perm'[s], vmas'[s], Unlisted(s)')
    BY <1>10, <2>8
  <2> QED
    BY <1>4, <1>5, <1>6, <2>1, <2>7, <2>9 DEF EInv
<1>12. CASE call.op = "fork"
  <2>1. ~ Mapping /\ T = Fresh /\ Unlisted(T) = {} /\ Unlisted(T)' = {}
    BY <1>a, <1>4, <1>12 DEF Unlisted, Mapping, Target
  <2>2. Copying(call, vmas[Fresh])
    BY <1>12 DEF EInv
  <2>3. \A k \in PageAttr(vmas[T], page) : k[1] = prot
    BY <1>0, <2>1, <2>2 DEF Copying, Agreeing, page, prot
  <2>4. Matches(tree, entries, vmas[T], {})
    BY <1>1, <1>7, <1>8, <2>1, <2>3 DEF Matches
  <2>5. Matches(map'[T], perm'[T], vmas'[T], Unlisted(T)')
    BY <1>2, <1>6, <2>1, <2>4
  <2>6. Copying(call', vmas'[Fresh])
    BY <1>2, <1>3, <2>2 DEF Copying
  <2>7. \A s \in Spaces : Matches(map'[s], perm'[s], vmas'[s], Unlisted(s)')
    BY <1>10, <2>5
  <2> QED
    BY <1>4, <1>5, <2>1, <2>6, <2>7 DEF EInv
<1> QED
  BY <1>0, <1>11, <1>12

(* The region of mmap or of a segment enters the list *)
LEMMA Listed ==
  ASSUME Inv, EInv, Mapping, call.at = "alloc", Wanted = {}
  PROVE  /\ insert_vma(vmas[Target], call.vma) \in Lists
         /\ Matches(map[Target], perm[Target], insert_vma(vmas[Target], call.vma), {})
<1> DEFINE T == Target
           v == call.vma
           list == insert_vma(vmas[T], v)
<1>1. /\ T \in Spaces /\ Matches(map[T], perm[T], vmas[T], Unlisted(T))
  BY LoopIs
<1>2. Unlisted(T) = call.done /\ call.op # "fork"
  BY DEF Unlisted, Mapping
<1>3. Loading(call, perm[T])
  BY DEF EInv
<1>4. vmas[T] \in Seq(Regions(Bounds)) /\ Canonical(vmas[T]) /\ v \in Regions(Bounds)
  BY <1>1, <1>3, ListIs DEF EInv, Loading
<1> HIDE DEF T
<1>5. /\ list \in Seq(Regions(Bounds)) /\ Canonical(list)
      /\ \A p \in Nat :
           IF p \in PagesOf(v.start, v.end) THEN PageAttr(list, p) = {Kind(v)}
           ELSE \/ PageAttr(list, p) = PageAttr(vmas[T], p)
                \/ PageAttr(vmas[T], p) = {Kind(v)} /\ PageAttr(list, p) = {}
  BY <1>4, PagesInserted
<1>6. DOMAIN call.todo = {}
  BY <1>2 DEF Wanted
<1>7. \A p \in Page : Covers(v, p * PageSize) <=> p \in call.done
  BY <1>3, <1>6, StateIs DEF Loading
<1>8. \A p \in call.done : perm[T][p] = FromProt(v.prot)
  BY <1>3 DEF Loading
<1>9. \A p \in Page : p \in Nat /\ (p \in PagesOf(v.start, v.end) <=> p \in call.done)
  BY <1>4, <1>7, CoverIn, StateIs
<1> HIDE DEF list, v
<1>10. ASSUME NEW p \in Page, map[T][Leaf(p)] # NoFrame, NEW k \in PageAttr(list, p)
       PROVE  perm[T][p] = FromProt(k[1])
  <2>1. CASE p \in call.done
    <3>1. k = Kind(v)
      BY <1>5, <1>9, <1>10, <2>1
    <3>2. k[1] = v.prot
      BY SMTT(30), <3>1 DEF Kind
    <3> QED
      BY <1>8, <2>1, <3>2
  <2>2. CASE p \notin call.done
    <3>1. k \in PageAttr(vmas[T], p)
      BY <1>5, <1>9, <1>10, <2>2
    <3> QED
      BY <1>1, <1>2, <1>10, <2>2, <3>1 DEF Matches
  <2> QED
    BY <2>1, <2>2
<1>11. Matches(map[T], perm[T], list, {})
  BY <1>10 DEF Matches
<1> QED
  BY <1>5, <1>11 DEF Lists, list, v, T

LEMMA MmapReturnsMatches ==
  ASSUME Inv, EInv, MmapReturns
  PROVE  EInv'
<1>1. /\ call.at = "alloc" /\ Wanted = {} /\ call.op = "mmap"
      /\ vmas' = [vmas EXCEPT ![run] = insert_vma(vmas[run], call.vma)]
      /\ call' = NoCall /\ UNCHANGED <<map, perm, next, run>>
  BY DEF MmapReturns
<1>2. /\ Target = run /\ run \in Spaces /\ Mapping
      /\ \A s \in Spaces : s # run => Matches(map[s], perm[s], vmas[s], {})
  BY <1>1, LoopIs
<1>3. /\ insert_vma(vmas[run], call.vma) \in Lists
      /\ Matches(map[run], perm[run], insert_vma(vmas[run], call.vma), {})
  BY <1>1, <1>2, Listed
<1>4. vmas \in [Spaces -> Lists]
  BY DEF EInv, ListsOK
<1>5. ListsOK' /\ vmas'[run] = insert_vma(vmas[run], call.vma)
      /\ \A s \in Spaces : s # run => vmas'[s] = vmas[s]
  BY <1>1, <1>2, <1>3, <1>4 DEF ListsOK
<1>6. NextOK' /\ ~ Mapping' /\ call'.op # "fork"
  BY <1>1, NoCallIs DEF EInv, NextOK, Mapping
<1>7. ASSUME NEW s \in Spaces PROVE Matches(map'[s], perm'[s], vmas'[s], {})
  BY <1>1, <1>2, <1>3, <1>5
<1> QED
  BY <1>5, <1>6, <1>7, Settles

LEMMA RangeEndsMatches ==
  ASSUME Inv, EInv, RangeEnds
  PROVE  EInv'
<1>0. call.at = "alloc" /\ Wanted = {} /\ call.op = "exec" /\ CallShape
  BY StateIs DEF RangeEnds, CallOK
<1>1. CASE Fail
  BY <1>0, <1>1, FailMatches
<1>2. CASE /\ vmas' = [vmas EXCEPT ![Fresh] = insert_vma(vmas[Fresh], call.vma)]
           /\ call' = [call EXCEPT !.at = "segment", !.segs = Tail(@)]
           /\ UNCHANGED <<map, perm, next, run>>
  <2>1. /\ Target = Fresh /\ Fresh \in Spaces /\ Mapping
        /\ \A s \in Spaces : s # Fresh => Matches(map[s], perm[s], vmas[s], {})
    BY <1>0, LoopIs, SpacesKinds DEF Mapping
  <2>2. /\ insert_vma(vmas[Fresh], call.vma) \in Lists
        /\ Matches(map[Fresh], perm[Fresh], insert_vma(vmas[Fresh], call.vma), {})
    BY <1>0, <2>1, Listed
  <2>3. vmas \in [Spaces -> Lists]
    BY DEF EInv, ListsOK
  <2>4. ListsOK' /\ vmas'[Fresh] = insert_vma(vmas[Fresh], call.vma)
        /\ \A s \in Spaces : s # Fresh => vmas'[s] = vmas[s]
    BY <1>2, <2>1, <2>2, <2>3 DEF ListsOK
  <2>5. call'.at = "segment" /\ call'.op = "exec"
    BY <1>0, <1>2 DEF CallShape
  <2>6. NextOK' /\ ~ Mapping' /\ call'.op # "fork"
    BY <1>2, <2>5 DEF EInv, NextOK, Mapping
  <2>7. ASSUME NEW s \in Spaces PROVE Matches(map'[s], perm'[s], vmas'[s], {})
    BY <1>2, <2>1, <2>2, <2>4
  <2> QED
    BY <2>4, <2>6, <2>7, Settles
<1> QED
  BY <1>1, <1>2 DEF RangeEnds

LEMMA RangeBeginsMatches ==
  ASSUME Inv, EInv, RangeBegins
  PROVE  EInv'
<1> DEFINE seg == Head(call.segs)
           v == Vma(PageOf(seg.vaddr) * PageSize, DivCeil(seg.vaddr + seg.memsz) * PageSize,
                    ToProt(seg.perm), 0)
<1>0. /\ call.at = "segment" /\ call.segs # << >> /\ call.op = "exec" /\ CallShape
      /\ call.segs \in Seq(UserSegment) /\ ~ Mapping
  BY StateIs DEF RangeBegins, CallOK, Mapping
<1>1. seg \in UserSegment
  BY SMTT(30), <1>0
<1>2. Fail \/ /\ call' = [call EXCEPT !.at = "alloc", !.vma = v, !.todo = PagesOfVma(v), !.done = {}]
              /\ UNCHANGED <<map, perm, vmas, next, run>>
  BY DEF RangeBegins
<1> HIDE DEF seg
<1>3. v \in Regions(Bounds)
  <2>1. seg.vaddr \in Nat /\ seg.memsz \in Nat
    BY SMTT(30), <1>1 DEF UserSegment, Segment
  <2>2. PageSize \in Nat \ {0} /\ seg.vaddr + seg.memsz + PageSize - 1 \in Nat
    BY SMTT(30), <2>1, PageSizeAssumption
  <2>3. PageOf(seg.vaddr) \in Nat /\ DivCeil(seg.vaddr + seg.memsz) \in Nat
    BY <2>1, <2>2, DivBounds DEF PageOf, DivCeil
  <2>4. PageOf(seg.vaddr) * PageSize \in Bounds /\ DivCeil(seg.vaddr + seg.memsz) * PageSize \in Bounds
    BY <2>3, Multiple
  <2>5. ToProt(seg.perm) \in SUBSET {"r", "w", "x"}
    BY DEF ToProt
  <2> QED
    BY SMTT(30), <2>4, <2>5 DEF Regions, Vma
<1> HIDE DEF v
<1>4. CASE Fail
  BY <1>0, <1>4, FailMatches
<1>5. CASE /\ call' = [call EXCEPT !.at = "alloc", !.vma = v, !.todo = PagesOfVma(v), !.done = {}]
           /\ UNCHANGED <<map, perm, vmas, next, run>>
  <2>1. call'.at = "alloc" /\ call'.op = "exec" /\ call'.vma = v /\ call'.todo = PagesOfVma(v) /\ call'.done = {}
    BY <1>0, <1>5 DEF CallShape
  <2>2. Loading(call', perm'[Target'])
    BY <1>3, <2>1, LoadingStarts
  <2>3. ASSUME NEW s \in Spaces PROVE Matches(map'[s], perm'[s], vmas'[s], Unlisted(s)')
    <3>1. Unlisted(s)' = {}
      BY <2>1 DEF Unlisted
    <3> QED
      BY <1>0, <1>5, <3>1, Settled
  <2>4. ListsOK' /\ NextOK'
    BY <1>5, <2>1 DEF EInv, ListsOK, NextOK
  <2> QED
    BY <2>1, <2>2, <2>3, <2>4 DEF EInv
<1> QED
  BY <1>2, <1>4, <1>5

-----------------------------------------------------------------------------
(* Spaces that change hands, and the end of them *)

(* The space that was built becomes a process's *)
LEMMA MoveMatches ==
  ASSUME Inv, EInv, ~ Mapping, NEW c \in Procs,
         map' = [map EXCEPT ![c] = map[Fresh], ![Fresh] = NoSpace],
         perm' = [perm EXCEPT ![c] = perm[Fresh], ![Fresh] = NoPerm],
         vmas' = [vmas EXCEPT ![c] = vmas[Fresh], ![Fresh] = << >>]
  PROVE  ListsOK' /\ \A s \in Spaces : Matches(map'[s], perm'[s], vmas'[s], {})
<1>1. map \in Forest /\ perm \in [Spaces -> [Page -> Attributes]] /\ vmas \in [Spaces -> Lists]
      /\ Fresh \in Spaces /\ c \in Spaces /\ c # Fresh
  BY StateIs, SpacesKinds DEF EInv, ListsOK
<1>2. << >> \in Lists
  BY EmptyFacts DEF Lists
<1>3. ListsOK'
  BY <1>1, <1>2 DEF ListsOK
<1>4. map'[Fresh] = NoSpace /\ map'[c] = map[Fresh] /\ \A s \in Spaces : s # c /\ s # Fresh => map'[s] = map[s]
  BY <1>1 DEF Forest
<1>5. /\ perm'[c] = perm[Fresh] /\ vmas'[c] = vmas[Fresh]
      /\ \A s \in Spaces : s # c /\ s # Fresh => perm'[s] = perm[s] /\ vmas'[s] = vmas[s]
  BY <1>1
<1>6. ASSUME NEW s \in Spaces PROVE Matches(map'[s], perm'[s], vmas'[s], {})
  <2>1. CASE s = Fresh
    <3>1. Matches(NoSpace, perm'[s], vmas'[s], {})
      BY MatchNone
    <3>2. map'[s] = NoSpace
      BY <1>4, <2>1
    <3> QED
      BY <3>1, <3>2
  <2>2. CASE s = c
    BY <1>1, <1>4, <1>5, <2>2, Settled
  <2>3. CASE s # c /\ s # Fresh
    BY <1>4, <1>5, <2>3, Settled
  <2> QED
    BY <2>1, <2>2, <2>3
<1> QED
  BY <1>3, <1>6

LEMMA ForkReturnsMatches ==
  ASSUME Inv, EInv, NEW child \in Procs, ForkReturns(child)
  PROVE  EInv'
<1>1. /\ call.at = "alloc" /\ call.op = "fork" /\ call' = NoCall
      /\ next' = [next EXCEPT ![child] = next[run]]
  BY DEF ForkReturns
<1>2. ~ Mapping /\ run \in Procs
  BY <1>1, LoopIs DEF Mapping
<1>3. ListsOK' /\ \A s \in Spaces : Matches(map'[s], perm'[s], vmas'[s], {})
  BY <1>2, MoveMatches DEF ForkReturns
<1>4. NextOK' /\ ~ Mapping' /\ call'.op # "fork"
  BY <1>1, <1>2, NoCallIs DEF EInv, NextOK, Mapping
<1> QED
  BY <1>3, <1>4, Settles

LEMMA ApplyExecMatches ==
  ASSUME Inv, EInv, ApplyExec
  PROVE  EInv'
<1>1. call.at = "segment" /\ call' = NoCall /\ next' = [next EXCEPT ![run] = MmapBase]
  BY DEF ApplyExec
<1>2. ~ Mapping /\ run \in Procs
  BY <1>1, LoopIs DEF Mapping
<1>3. ListsOK' /\ \A s \in Spaces : Matches(map'[s], perm'[s], vmas'[s], {})
  BY <1>2, MoveMatches DEF ApplyExec
<1>4. MmapBase \in Bounds
  BY AddressSpaceAssumption DEF Bounds
<1>5. NextOK' /\ ~ Mapping' /\ call'.op # "fork"
  BY <1>1, <1>2, <1>4, NoCallIs DEF EInv, NextOK, Mapping
<1> QED
  BY <1>3, <1>5, Settles

LEMMA ReapMatches ==
  ASSUME Inv, EInv, NEW z \in Procs, Reap(z)
  PROVE  EInv'
<1>1. /\ call.at = "user" /\ UNCHANGED <<next, run, call>>
      /\ map' = [map EXCEPT ![z] = NoSpace] /\ perm' = [perm EXCEPT ![z] = NoPerm]
      /\ vmas' = [vmas EXCEPT ![z] = << >>]
  BY DEF Reap, InUser, Drop
<1>2. ~ Mapping /\ call.op = "none"
  BY <1>1, AtUser
<1>3. map \in Forest /\ perm \in [Spaces -> [Page -> Attributes]] /\ vmas \in [Spaces -> Lists]
      /\ z \in Spaces /\ << >> \in Lists
  BY StateIs, SpacesKinds, EmptyFacts DEF EInv, ListsOK, Lists
<1>4. ListsOK' /\ NextOK' /\ ~ Mapping' /\ call'.op # "fork"
  BY <1>1, <1>2, <1>3 DEF EInv, ListsOK, NextOK, Mapping
<1>5. map'[z] = NoSpace /\ \A s \in Spaces : s # z => map'[s] = map[s]
  BY <1>1, <1>3 DEF Forest
<1>6. \A s \in Spaces : s # z => perm'[s] = perm[s] /\ vmas'[s] = vmas[s]
  BY <1>1, <1>3
<1>7. ASSUME NEW s \in Spaces PROVE Matches(map'[s], perm'[s], vmas'[s], {})
  BY <1>2, <1>5, <1>6, Settled, MatchNone
<1> QED
  BY <1>4, <1>7, Settles

LEMMA InitMatches ==
  ASSUME Init
  PROVE  EInv
<1>1. /\ map = [s \in Spaces |-> NoSpace] /\ vmas = [s \in Spaces |-> << >>]
      /\ next = [s \in Procs |-> MmapBase] /\ call = NoCall
  BY DEF Init
<1>2. << >> \in Lists /\ MmapBase \in Bounds
  BY EmptyFacts, AddressSpaceAssumption DEF Lists, Bounds
<1>3. ~ Mapping /\ call.op = "none"
  BY <1>1, NoCallIs DEF Mapping
<1>4. ListsOK /\ NextOK
  BY <1>1, <1>2, <1>3 DEF ListsOK, NextOK
<1>5. \A s \in Spaces : Matches(map[s], perm[s], vmas[s], Unlisted(s))
  BY <1>1, MatchNone
<1> QED
  BY <1>3, <1>4, <1>5 DEF EInv

LEMMA NextMatches ==
  ASSUME Inv, EInv, [Next]_vars
  PROVE  EInv'
<1>1. CASE Calls
  BY <1>1, MmapMatches, MunmapMatches, MprotectMatches, ForkMatches, ExecMatches DEF Calls
<1>2. CASE Loops
  <2>1. CASE AllocFails \/ ExecFails
    BY <2>1, FailMatches DEF AllocFails, ExecFails
  <2> QED
    BY <1>2, <2>1, AllocMatches, TableMatches, TableFailsMatches, LeafMatches, MmapReturnsMatches,
       ForkReturnsMatches, RangeBeginsMatches, RangeEndsMatches, ApplyExecMatches DEF Loops
<1>3. CASE Cpu
  <2>1. ASSUME NEW s \in Procs \cup {Idle}, Switch(s) \/ Exit(s) PROVE EInv'
    BY <2>1, Quiet DEF Switch, Exit, InUser
  <2>2. CASE Terminate
    BY <2>2, Quiet DEF Terminate
  <2>3. ASSUME NEW p \in Page, Touch(p) PROVE EInv'
    BY <2>3, Quiet DEF Touch
  <2> QED
    BY <1>3, <2>1, <2>2, <2>3, ReapMatches DEF Cpu
<1>4. CASE UNCHANGED vars
  BY <1>4, Quiet DEF vars
<1> QED
  BY <1>1, <1>2, <1>3, <1>4 DEF Next

LEMMA MatchesAlways == Spec => [](Inv /\ EInv)
<1>1. Init => Inv /\ EInv
  BY InitKeeps, InitMatches
<1>2. Inv /\ EInv /\ [Next]_vars => (Inv /\ EInv)'
  BY NextKeeps, NextMatches
<1> QED
  BY <1>1, <1>2, PTL DEF Spec

(* Every list of regions is always disjoint, sorted and without regions    *)
(* that should have been joined; and between calls every mapped page has   *)
(* the attributes of its region (EntriesMatchVmas), for every program,     *)
(* every machine and every sequence of calls and failures.                 *)
THEOREM SpecEntriesMatchVmas == Spec => []EntriesMatchVmas
<1>1. Inv /\ EInv => EntriesMatchVmas
  <2> SUFFICES ASSUME Inv, EInv PROVE EntriesMatchVmas
    OBVIOUS
  <2>1. VmasCanonical
    BY ListIs, CanonicalIs, BoundsAreNat DEF EInv, VmasCanonical
  <2>2. ASSUME call.at = "user", NEW s \in Procs, NEW p \in Page, map[s][Leaf(p)] # NoFrame,
               NEW a \in PageAttr(vmas[s], p)
        PROVE  perm[s][p] = FromProt(a[1])
    BY <2>2, AtUser, Settled, SpacesKinds DEF Matches
  <2> QED
    BY <2>1, <2>2 DEF EntriesMatchVmas
<1> QED
  BY <1>1, MatchesAlways, PTL

(* munmap, mprotect and mmap change what the list says of the pages of     *)
(* their range to what they were asked, and of no other page, save for the *)
(* regions with mmap's own attributes that insert_vma may drop.            *)
THEOREM SpecListExact == Spec => ListExact
<1> DEFINE Cut1(addr, length) == SysMunmap(addr, length) =>
             \A p \in Page : PageAttr(vmas'[run], p) =
               IF p \in PagesOf(addr, RangeEnd(addr, length)) THEN {} ELSE PageAttr(vmas[run], p)
           Change1(addr, length, prot) == SysMprotect(addr, length, prot) =>
             \A p \in Page : PageAttr(vmas'[run], p) =
               IF p \in PagesOf(addr, RangeEnd(addr, length))
               THEN {<<prot, a[2]>> : a \in PageAttr(vmas[run], p)} ELSE PageAttr(vmas[run], p)
           Add1 == MmapReturns =>
             LET new == {Kind(call.vma)}
             IN  \A p \in Page : PageAttr(vmas'[run], p) \in
                   IF p \in PagesOf(call.vma.start, call.vma.end) THEN {new}
                   ELSE {PageAttr(vmas[run], p)} \cup
                        (IF PageAttr(vmas[run], p) = new THEN {{}} ELSE {})
           Step1 == /\ \A addr \in Addrs, length \in Lengths :
                         Cut1(addr, length) /\ \A prot \in Prots : Change1(addr, length, prot)
                    /\ Add1
<1>1. ASSUME Inv, EInv PROVE Step1
  <2>0. vmas \in [Spaces -> Lists] /\ Page \subseteq Nat
    BY <1>1, StateIs DEF EInv, ListsOK
  <2>1. ASSUME NEW addr \in Addrs, NEW length \in Lengths PROVE Cut1(addr, length)
    <3> SUFFICES ASSUME SysMunmap(addr, length) PROVE Cut1(addr, length)
      OBVIOUS
    <3> DEFINE end == RangeEnd(addr, length)
               list == remove_vma_range(vmas[run], addr, end)
    <3>1. run \in Spaces /\ vmas[run] \in Seq(Regions(Bounds)) /\ Canonical(vmas[run])
      BY <1>1, CallerIs DEF SysMunmap
    <3>2. addr \in Bounds /\ end \in Bounds /\ addr < end
      BY RangeIs DEF SysMunmap
    <3>3. vmas' = [vmas EXCEPT ![run] = list]
      BY DEF SysMunmap
    <3> HIDE DEF end
    <3>4. \A p \in Nat : PageAttr(list, p) = IF p \in PagesOf(addr, end) THEN {} ELSE PageAttr(vmas[run], p)
      BY <3>1, <3>2, PagesRemoved
    <3> HIDE DEF list
    <3>5. vmas'[run] = list
      BY <2>0, <3>1, <3>3
    <3> QED
      BY <2>0, <3>4, <3>5 DEF end
  <2>2. ASSUME NEW addr \in Addrs, NEW length \in Lengths, NEW prot \in Prots
        PROVE  Change1(addr, length, prot)
    <3> SUFFICES ASSUME SysMprotect(addr, length, prot) PROVE Change1(addr, length, prot)
      OBVIOUS
    <3> DEFINE end == RangeEnd(addr, length)
               list == Reprotect(vmas[run], addr, end, prot)
    <3>1. run \in Spaces /\ vmas[run] \in Seq(Regions(Bounds)) /\ Canonical(vmas[run])
      BY <1>1, CallerIs DEF SysMprotect
    <3>2. addr \in Bounds /\ end \in Bounds /\ prot \in Protection
      BY RangeIs, AddressSpaceAssumption DEF SysMprotect, Protection
    <3>3. vmas' = [vmas EXCEPT ![run] = list]
      BY DEF SysMprotect
    <3> HIDE DEF end
    <3>4. Reprotected(list, vmas[run], addr, end, prot)
      BY <3>1, <3>2, PagesChanged
    <3> HIDE DEF list
    <3>5. vmas'[run] = list
      BY <2>0, <3>1, <3>3
    <3> QED
      BY <2>0, <3>4, <3>5 DEF end, Reprotected, WithProt
  <2>3. Add1
    <3> SUFFICES ASSUME MmapReturns PROVE Add1
      OBVIOUS
    <3> DEFINE v == call.vma
               list == insert_vma(vmas[run], v)
    <3>1. call.at = "alloc" /\ call.op = "mmap" /\ vmas' = [vmas EXCEPT ![run] = list]
      BY DEF MmapReturns
    <3>2. run \in Spaces /\ Mapping
      BY <1>1, <3>1, LoopIs
    <3>3. vmas[run] \in Seq(Regions(Bounds)) /\ Canonical(vmas[run]) /\ v \in Regions(Bounds)
      BY <1>1, <3>2, ListIs DEF EInv, Loading
    <3>4. \A p \in Nat :
            IF p \in PagesOf(v.start, v.end) THEN PageAttr(list, p) = {Kind(v)}
            ELSE \/ PageAttr(list, p) = PageAttr(vmas[run], p)
                 \/ PageAttr(vmas[run], p) = {Kind(v)} /\ PageAttr(list, p) = {}
      BY <3>3, PagesInserted
    <3> HIDE DEF list
    <3>5. vmas'[run] = list
      BY <2>0, <3>1, <3>2
    <3> QED
      BY <2>0, <3>4, <3>5
  <2> QED
    BY <2>1, <2>2, <2>3
<1>2. Inv /\ EInv => [
        /\ \A addr \in Addrs, length \in Lengths :
             LET pages == PagesOf(addr, RangeEnd(addr, length))
             IN  /\ SysMunmap(addr, length) =>
                      \A p \in Page : PageAttr(vmas'[run], p) =
                                      IF p \in pages THEN {} ELSE PageAttr(vmas[run], p)
                 /\ \A prot \in Prots : SysMprotect(addr, length, prot) =>
                      \A p \in Page : PageAttr(vmas'[run], p) =
                        IF p \in pages THEN {<<prot, a[2]>> : a \in PageAttr(vmas[run], p)}
                        ELSE PageAttr(vmas[run], p)
        /\ MmapReturns =>
             LET new == {Kind(call.vma)}
             IN  \A p \in Page : PageAttr(vmas'[run], p) \in
                   IF p \in PagesOf(call.vma.start, call.vma.end) THEN {new}
                   ELSE {PageAttr(vmas[run], p)} \cup
                        (IF PageAttr(vmas[run], p) = new THEN {{}} ELSE {})]_vars
  BY <1>1
<1> QED
  BY <1>2, MatchesAlways, PTL DEF ListExact
=============================================================================
