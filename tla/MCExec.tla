------------------------------- MODULE MCExec -------------------------------
(* Pages of 8 bytes, words of 2 bytes of 16 values.  Three programs: a     *)
(* plain one, a set-uid one, one that is not an executable.                *)
EXTENDS Exec, TLC

Segment(vaddr, memsz, offset, filesz, flags) ==
  [vaddr |-> vaddr, memsz |-> memsz, offset |-> offset, filesz |-> filesz, flags |-> flags]

File(bytes, segments, elf, entry, phoff, mode, uid) ==
  [bytes |-> bytes, segments |-> segments, elf |-> elf, entry |-> entry, phoff |-> phoff,
   phentsize |-> 1, mode |-> mode, uid |-> uid, gid |-> uid]

Plain == File(<<7, 8, 9>>, <<Segment(12, 3, 0, 3, {"r", "x"}), Segment(16, 10, 2, 1, {"r", "w"})>>, TRUE, 12, 1, {}, 0)
Setuid == File(<<5, 6>>, <<Segment(8, 8, 1, 1, {"r", "w"}), Segment(16, 2, 0, 2, {"r", "x"})>>, TRUE, 17, 9, {"setuid", "setgid"}, 1)
Truncated == File(<<5>>, <<Segment(8, 8, 1, 1, {"r", "w"})>>, TRUE, 8, 0, {}, 0)
NotElf == File(<<1>>, <<>>, FALSE, 0, 0, {}, 0)

MCFiles == (<<1>> :> Plain) @@ (<<2, 2>> :> Setuid) @@ (<<3>> :> Truncated) @@ (<<>> :> NotElf)
MCBootPath == <<1>>
MCBootEnv == <<<<2, 2>>, <<>>, <<3>>>>
MCPointers == {0, 40}
MCTargets == {0, 15, 16, 23}
Triple(r, e, s) == [r |-> r, e |-> e, s |-> s]
MCTriples == {Triple(2, 2, 2), Triple(1, 2, 0), Triple(-1, 1, -1), Triple(-1, 0, 1), Triple(2, -1, 2)}
=============================================================================
