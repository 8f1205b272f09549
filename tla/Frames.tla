------------------------------- MODULE Frames -------------------------------
(***************************************************************************)
(* The physical memory manager (kernel/src/ostd/mm/pmm.rs): a bitmap with  *)
(* one bit per 4 KiB frame, a count of the clear bits and a search cursor. *)
(* It is one record behind one SpinLock, so its methods are operators from *)
(* a manager to a manager; AddressSpace calls them one per step.           *)
(***************************************************************************)
EXTENDS Integers, FiniteSets, FiniteSetsExt

CONSTANT TotalFrames

ASSUME TotalFramesAssumption == TotalFrames \in Nat \ {0}

Frame == 0 .. TotalFrames - 1

(* Option::None of alloc_frame, and an entry that is not present *)
NoFrame == -1

(* PhysicalMemoryManager: the bits that are set, free_frames, last_frame *)
Manager == [used : SUBSET Frame, free : Nat, last : Nat]

SaturatingSub(a, b) == IF a >= b THEN a - b ELSE 0

(* pmm_init: every bit set, the usable frames cleared and counted, then    *)
(* frame 0 and the bitmap's own frames set; only the latter are uncounted. *)
PmmInit(usable, bitmap) ==
  [used |-> (Frame \ usable) \cup {0} \cup bitmap,
   free |-> SaturatingSub(Cardinality(usable), Cardinality(bitmap)),
   last |-> 1]

(* set_bit(f, true) for each frame of fs, with the accounting that goes with it *)
Take(m, fs, last) ==
  [used |-> m.used \cup fs, free |-> SaturatingSub(m.free, Cardinality(fs)), last |-> last]

Clear(m) == Frame \ m.used

(* The frame both loops of alloc_frame look for: the first clear bit from  *)
(* the cursor up, else the first one in 1..last_frame-1; NoFrame when all  *)
(* are set.                                                                *)
NextFree(m) ==
  LET above == {f \in Clear(m) : f >= m.last}
      below == {f \in Clear(m) : 1 <= f /\ f < m.last}
  IN  IF above # {} THEN Min(above)
      ELSE IF below # {} THEN Min(below) ELSE NoFrame

(* alloc_frame, the manager after it handed out NextFree(m) *)
AllocFrame(m) ==
  LET f == NextFree(m)
  IN  IF f = NoFrame THEN m ELSE Take(m, {f}, f + 1)

(* Starts of a run of count clear bits above frame 0 *)
Runs(m, count) ==
  {f \in Frame : 1 <= f /\ f + count - 1 \in Frame
                 /\ \A g \in f .. f + count - 1 : g \notin m.used}

(* alloc_contiguous_frames for count > 1: the first run, the cursor stays *)
AllocContiguous(m, count) ==
  IF Runs(m, count) = {} THEN m
  ELSE LET f == Min(Runs(m, count)) IN Take(m, f .. f + count - 1, m.last)

(* free_frame for every frame of fs, in any order: a frame whose bit is    *)
(* clear already is ignored, the cursor falls back to the lowest one freed.*)
FreeFrames(m, fs) ==
  LET freed == fs \cap m.used
  IN  [used |-> m.used \ freed,
       free |-> m.free + Cardinality(freed),
       last |-> IF freed = {} THEN m.last ELSE Min(freed \cup {m.last})]

(* What the count and the cursor promise: free_frames is the number of     *)
(* clear bits, and no bit below the cursor is clear, so that the "next-fit"*)
(* search is first-fit and its second loop never finds anything.           *)
ManagerExact(m) ==
  /\ m.free = Cardinality(Clear(m))
  /\ \A f \in Frame : f < m.last => f \in m.used
=============================================================================
