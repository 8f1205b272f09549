-------------------------------- MODULE Vmas --------------------------------
(***************************************************************************)
(* The list of regions of an address space (VmSpace::vmas in vmm.rs), as   *)
(* operators on lists; AddressSpace makes the calls that use them.         *)
(***************************************************************************)
EXTENDS Integers, Sequences, FiniteSetsExt

CONSTANT PageSize   \* PAGE_SIZE, in the units addresses are counted in

ASSUME PageSizeAssumption == PageSize \in Nat \ {0}

(* A for loop over a list, acc being what its turns change.  (SequencesExt *)
(* has this fold; its other contents would burden every obligation of the  *)
(* proofs.)                                                                *)
ForEach(turn(_, _), acc, list) ==
  LET after[i \in 0 .. Len(list)] == IF i = 0 THEN acc ELSE turn(after[i - 1], list[i])
  IN  after[Len(list)]

Concat(lists) == ForEach(LAMBDA all, list : all \o list, <<>>, lists)

Vma(start, end, prot, flags) == [start |-> start, end |-> end, prot |-> prot, flags |-> flags]

Kind(v) == <<v.prot, v.flags>>

(* Pushing a region, and pushing what is left of one, unless it is empty *)
PushPart(out, v) == IF v.start < v.end THEN Append(out, v) ELSE out

(* One turn of insert_vma's first loop: acc is [out, new, in], the rebuilt *)
(* list, the region to insert as grown so far, and whether it was pushed.  *)
Place(acc, v) ==
  LET push(out) == IF acc.in THEN out ELSE Append(out, acc.new)
      left == [v EXCEPT !.end = acc.new.start]
      right == [v EXCEPT !.start = acc.new.end]
  IN  IF v.end <= acc.new.start THEN [acc EXCEPT !.out = Append(@, v)]
      ELSE IF v.start >= acc.new.end
        THEN [acc EXCEPT !.out = Append(push(@), v), !.in = TRUE]
      ELSE IF Kind(v) = Kind(acc.new)
        THEN [acc EXCEPT !.new.start = Min({@, v.start}), !.new.end = Max({@, v.end})]
      ELSE [acc EXCEPT !.out = PushPart(push(PushPart(@, left)), right), !.in = TRUE]

(* One turn of its second loop: a region that continues the last one joins it *)
Join(out, v) ==
  IF out # <<>> /\ out[Len(out)].end = v.start /\ Kind(out[Len(out)]) = Kind(v)
  THEN [out EXCEPT ![Len(out)].end = v.end]
  ELSE Append(out, v)

insert_vma(list, new) ==
  IF new.start >= new.end THEN list
  ELSE LET placed == ForEach(Place, [out |-> <<>>, new |-> new, in |-> FALSE], list)
       IN  ForEach(Join, <<>>, IF placed.in THEN placed.out ELSE Append(placed.out, placed.new))

(* One turn of remove_vma_range's loop: what of v lies outside [start, end) *)
Remain(out, v, start, end) ==
  IF v.end <= start \/ v.start >= end THEN Append(out, v)
  ELSE PushPart(PushPart(out, [v EXCEPT !.end = start]), [v EXCEPT !.start = end])

remove_vma_range(list, start, end) ==
  ForEach(LAMBDA out, v : Remain(out, v, start, end), <<>>, list)

(* contains_range walks the list once, moving curr over each VMA it is in *)
contains_range(list, start, end) ==
  /\ start < end
  /\ ForEach(LAMBDA curr, v : IF curr < end /\ v.start <= curr /\ v.end > curr
                              THEN v.end ELSE curr, start, list) >= end

FaultyReprotect(list, start, end, prot) ==
  insert_vma(list, Vma(start, end, prot, list[1].flags))

(* The last part of mprotect_range: the piece of each region that lies in  *)
(* the range keeps its flags.  insert_vma drops an empty piece.            *)
Reprotect(list, start, end, prot) ==
  LET piece(v) == Vma(Max({v.start, start}), Min({v.end, end}), prot, v.flags)
  IN  ForEach(insert_vma, list, [i \in DOMAIN list |-> piece(list[i])])

(* What the list says of an address: its protection and flags, or nothing *)
AttrAt(list, addr) ==
  {Kind(list[i]) : i \in {j \in DOMAIN list : list[j].start <= addr /\ addr < list[j].end}}

-----------------------------------------------------------------------------
(* The pages of a range, and of a region *)

DivCeil(length) == (length + PageSize - 1) \div PageSize

PageOf(addr) == addr \div PageSize

PagesOf(start, end) == PageOf(start) .. DivCeil(end) - 1

(* The pages of a region, in order, with its protection *)
PagesOfVma(v) ==
  [k \in 1 .. DivCeil(v.end) - PageOf(v.start) |->
     [page |-> PageOf(v.start) + k - 1, prot |-> v.prot]]

PageAttr(list, p) == AttrAt(list, p * PageSize)
=============================================================================
