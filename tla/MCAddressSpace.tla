--------------------------- MODULE MCAddressSpace ---------------------------
(***************************************************************************)
(* AddressSpace on a machine of TotalFrames frames and four user pages     *)
(* under tables of two entries: two processes, a kernel heap of two        *)
(* frames, and so few free frames that every loop runs out somewhere.      *)
(***************************************************************************)
EXTENDS AddressSpace

MCUsable == 1 .. TotalFrames - 1

ReadWrite == {"r", "w"}

ReadOnly == {"r"}

(* The user stack is the last page.  One program loads; one has a second   *)
(* segment on the first one's page with more file bytes than memory; the   *)
(* last is refused for its header, or its arguments overflow the stack.    *)
MCUserStack == [vaddr |-> 6, memsz |-> 2, filesz |-> 0, perm |-> FromProt(ReadWrite)]

Text == [vaddr |-> 0, memsz |-> 2, filesz |-> 2, perm |-> FromProt({"r", "x"})]

Overfull == [vaddr |-> 1, memsz |-> 1, filesz |-> 2, perm |-> FromProt(ReadWrite)]

MCImages == {[segs |-> <<Text>>, fits |-> TRUE],
             [segs |-> <<Text, Overfull>>, fits |-> TRUE],
             [segs |-> <<>>, fits |-> FALSE]}

MCAddrs == {0, 2}

MCLengths == {1, 4}

MCProts == {ReadOnly, ReadWrite}
=============================================================================
