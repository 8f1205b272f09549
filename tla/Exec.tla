-------------------------------- MODULE Exec --------------------------------
(***************************************************************************)
(* A process's image and identity: execve with its copies from user memory *)
(* (posix/process.rs, posix/user_access.rs, ostd/mm/user.rs), the ELF      *)
(* loader and the initial stack (process/elf.rs), set-id files             *)
(* (Process::apply_exec) and the set*id and getres*id calls.               *)
(*                                                                         *)
(* Memory is bytes.  A byte has Base values and a word is WordSize bytes,  *)
(* least significant first, so that the strings, pointers and counts that  *)
(* execve copies from one image to the next are really encoded and read    *)
(* back.  Physical frames and page tables are in AddressSpace.             *)
(***************************************************************************)
EXTENDS Integers, Sequences, FiniteSets, SequencesExt

CONSTANTS Base, WordSize, PageSize,
          UserEnd,                  \* USER_SPACE_END
          StackBottom, StackTop,    \* USER_STACK_TOP - USER_STACK_SIZE, USER_STACK_TOP
          StrMax,                   \* USER_STR_MAX
          MaxArgs,                  \* how many pointers copy_user_str_array reads
          Files,                    \* from paths to the files that exist
          BootPath, BootEnv,        \* what the system starts first
          Ids, Triples,             \* user and group ids, and what setres*id is given
          Pointers,                 \* pointers execve is given besides the process's own
          Targets,                  \* pointers getres*id is given
          MaxCalls                  \* bound: calls that succeed

UNCHANGED_ID == -1    \* u32::MAX

VARIABLES ids,     \* uid, euid and suid; gid, egid and sgid
          mem,     \* the bytes of the mapped pages
          perm,    \* the permissions of each mapped page
          regs,    \* entry point and stack pointer the image was started with
          image,   \* history: the file, argv and envp of the last exec
          calls

vars == <<ids, mem, perm, regs, image, calls>>

-----------------------------------------------------------------------------
(* Bytes, words and strings.                                               *)

Bytes(w) == [i \in 1..WordSize |-> (w \div (Base ^ (i - 1))) % Base]

Word(m, a) == FoldLeft(LAMBDA sum, i : sum + m[a + i - 1] * (Base ^ (i - 1)), 0, [i \in 1..WordSize |-> i])

Spread(words) == FlattenSeq([i \in 1..Len(words) |-> Bytes(words[i])])

PageOf(a) == a \div PageSize

(* Copying into a space that is mapped there.                              *)
write_bytes_to_space(m, a, bytes) ==
  [i \in DOMAIN m |-> IF i \in a..(a + Len(bytes) - 1) THEN bytes[i - a + 1] ELSE m[i]]

-----------------------------------------------------------------------------
(* Access to user memory (ostd/mm/user.rs).                                *)

FaultyValidate(pm, a, len, need_write) ==
  /\ a + len <= UserEnd
  /\ PageOf(a) \in DOMAIN pm /\ (need_write => "w" \in pm[PageOf(a)])

validate_user_range(pm, a, len, need_write) ==
  /\ a + len <= UserEnd
  /\ \A pg \in PageOf(a)..PageOf(a + len - 1) :
       pg \in DOMAIN pm /\ (need_write => "w" \in pm[pg])

Readable(a) == a # 0 /\ validate_user_range(perm, a, WordSize, FALSE)

(* The length of the string at a, -1 when it is not all mapped or has no   *)
(* NUL among its first StrMax bytes.                                       *)
StrLen(a) ==
  LET ends == {n \in 0..(StrMax - 1) : (a + n) \in DOMAIN mem /\ mem[a + n] = 0}
      n == IF ends = {} THEN 0 ELSE CHOOSE n \in ends : \A m \in ends : n <= m
  IN IF a # 0 /\ ends # {} /\ \A i \in a..(a + n) : i \in DOMAIN mem /\ i < UserEnd THEN n ELSE -1

copy_cstr_from_user(a) == [i \in 1..StrLen(a) |-> mem[a + i - 1]]

(* A NULL-terminated array of pointers to strings: its length, -1 for one  *)
(* that cannot be copied.                                                  *)
ArrayLen(a) ==
  LET at(i) == a + i * WordSize
      ends == {n \in 0..(MaxArgs - 1) : Readable(at(n)) /\ Word(mem, at(n)) = 0}
      n == IF ends = {} THEN 0 ELSE CHOOSE n \in ends : \A m \in ends : n <= m
  IN IF ends # {} /\ \A i \in 0..(n - 1) : Readable(at(i)) /\ StrLen(Word(mem, at(i))) # -1
     THEN n ELSE -1

copy_user_str_array(a) == [i \in 1..ArrayLen(a) |-> copy_cstr_from_user(Word(mem, a + (i - 1) * WordSize))]

-----------------------------------------------------------------------------
(* The loader.  A space being built: its bytes, its pages' permissions,    *)
(* where the program headers are, and whether it went well.                *)

NoBytes == [a \in {} |-> 0]
NoPages == [pg \in {} |-> {}]
NewSpace == [ok |-> TRUE, mem |-> NoBytes, perm |-> NoPages, phdr |-> 0]

Over(f, g) == [x \in DOMAIN f \union DOMAIN g |-> IF x \in DOMAIN f THEN f[x] ELSE g[x]]

(* Zeroed pages, in place of what was mapped there.                        *)
alloc_and_map_range(space, start, size, flags) ==
  LET pages == PageOf(start)..(PageOf(start + size + PageSize - 1) - 1)
      bytes == {a \in 0..(UserEnd - 1) : PageOf(a) \in pages}
  IN [space EXCEPT !.mem = Over([a \in bytes |-> 0], @), !.perm = Over([pg \in pages |-> flags], @)]

FaultySegment(file, space, seg) ==
  LET mapped == alloc_and_map_range(space, seg.vaddr, seg.filesz, seg.flags)
      data == SubSeq(file.bytes, seg.offset + 1, seg.offset + seg.filesz)
      here == file.phoff >= seg.offset /\ file.phoff < seg.offset + seg.filesz
  IN IF ~ space.ok \/ seg.offset + seg.filesz > Len(file.bytes) THEN [space EXCEPT !.ok = FALSE]
     ELSE [mapped EXCEPT !.mem = write_bytes_to_space(@, seg.vaddr, data),
                         !.phdr = IF here /\ @ = 0 THEN seg.vaddr + file.phoff - seg.offset ELSE @]

LoadSegment(file, space, seg) ==
  LET mapped == alloc_and_map_range(space, seg.vaddr, seg.memsz, seg.flags)
      data == SubSeq(file.bytes, seg.offset + 1, seg.offset + seg.filesz)
      here == file.phoff >= seg.offset /\ file.phoff < seg.offset + seg.filesz
  IN IF ~ space.ok \/ seg.offset + seg.filesz > Len(file.bytes) THEN [space EXCEPT !.ok = FALSE]
     ELSE [mapped EXCEPT !.mem = write_bytes_to_space(@, seg.vaddr, data),
                         !.phdr = IF here /\ @ = 0 THEN seg.vaddr + file.phoff - seg.offset ELSE @]

(* Strings are pushed one below the other.                                 *)
FaultyPushString(s, str) ==
  LET sp == s.sp - (Len(str) + 1) IN
  IF ~ s.ok \/ s.sp < StackBottom + Len(str) + 1 THEN [s EXCEPT !.ok = FALSE]
  ELSE [ok |-> TRUE, sp |-> sp, ptrs |-> <<sp>> \o s.ptrs,
        mem |-> write_bytes_to_space(s.mem, sp, Append(str, 0))]

PushString(s, str) ==
  LET sp == s.sp - (Len(str) + 1) IN
  IF ~ s.ok \/ s.sp < StackBottom + Len(str) + 1 THEN [s EXCEPT !.ok = FALSE]
  ELSE [ok |-> TRUE, sp |-> sp, ptrs |-> Append(s.ptrs, sp),
        mem |-> write_bytes_to_space(s.mem, sp, Append(str, 0))]

Down(a, align) == a - (a % align)

auxv(file, phdr) ==
  LET AT_PHDR == 3 AT_PHENT == 4 AT_PHNUM == 5 AT_PAGESZ == 6 AT_ENTRY == 9 AT_NULL == 0 IN
  <<AT_PAGESZ, PageSize, AT_ENTRY, file.entry, AT_PHDR, phdr,
    AT_PHENT, file.phentsize, AT_PHNUM, Len(file.segments), AT_NULL, 0>>

(* The strings, then from the aligned stack pointer up: argc, the argv     *)
(* pointers, NULL, the envp pointers, NULL and the auxiliary vector.       *)
FaultyStack(space, file, argv, envp) ==
  LET env == FoldLeft(PushString, [ok |-> space.ok, sp |-> StackTop, ptrs |-> <<>>, mem |-> space.mem], envp)
      arg == FoldLeft(PushString, [env EXCEPT !.ptrs = <<>>], argv)
      vector == <<Len(argv)>> \o arg.ptrs \o <<0>> \o env.ptrs \o <<0>> \o auxv(file, space.phdr)
      sp == Down(arg.sp, WordSize) - Len(vector) * WordSize
  IN [ok |-> arg.ok /\ sp >= StackBottom, sp |-> sp,
      mem |-> write_bytes_to_space(arg.mem, sp, Spread(vector))]

setup_user_stack(space, file, argv, envp) ==
  LET env == FoldLeft(PushString, [ok |-> space.ok, sp |-> StackTop, ptrs |-> <<>>, mem |-> space.mem], envp)
      arg == FoldLeft(PushString, [env EXCEPT !.ptrs = <<>>], argv)
      vector == <<Len(argv)>> \o arg.ptrs \o <<0>> \o env.ptrs \o <<0>> \o auxv(file, space.phdr)
      sp == Down(Down(arg.sp, WordSize) - Len(vector) * WordSize, 2 * WordSize)
  IN [ok |-> arg.ok /\ sp >= StackBottom, sp |-> sp,
      mem |-> write_bytes_to_space(arg.mem, sp, Spread(vector))]

load_elf(file, argv, envp) ==
  LET segments == FoldLeft(LAMBDA space, seg : LoadSegment(file, space, seg),
                           [NewSpace EXCEPT !.ok = file.elf], file.segments)
      space == alloc_and_map_range(segments, StackBottom, StackTop - StackBottom, {"r", "w"})
      stack == setup_user_stack(space, file, argv, envp)
  IN [ok |-> stack.ok, mem |-> stack.mem, perm |-> space.perm,
      regs |-> [entry |-> file.entry, sp |-> stack.sp]]

-----------------------------------------------------------------------------
(* Identity.                                                               *)

Root == [r |-> 0, e |-> 0, s |-> 0]

(* A set-id file gives its owner's id; the saved id follows.               *)
ExecIds(user, setid, owner) ==
  LET e == IF setid THEN owner ELSE user.e IN [user EXCEPT !.e = e, !.s = e]

Commit(path, file, argv, envp, new) ==
  /\ ids' = [user |-> ExecIds(ids.user, "setuid" \in file.mode, file.uid),
             group |-> ExecIds(ids.group, "setgid" \in file.mode, file.gid)]
  /\ mem' = new.mem /\ perm' = new.perm /\ regs' = new.regs
  /\ image' = [path |-> path, argv |-> argv, envp |-> envp]

(* The first program, which the kernel loads itself.                       *)
Boot == load_elf(Files[BootPath], <<BootPath>>, BootEnv)

Init ==
  /\ ids = [user |-> Root, group |-> Root]
  /\ mem = Boot.mem /\ perm = Boot.perm /\ regs = Boot.regs
  /\ image = [path |-> BootPath, argv |-> <<BootPath>>, envp |-> BootEnv]
  /\ calls = 0

Called == calls < MaxCalls /\ calls' = calls + 1

(* execve reads everything from the old image, builds the new one aside,   *)
(* and only then commits.  A call that fails changes nothing.              *)
Execve(path_ptr, argv_ptr, envp_ptr) ==
  LET path == copy_cstr_from_user(path_ptr)
      argv == IF argv_ptr = 0 THEN <<>> ELSE copy_user_str_array(argv_ptr)
      envp == IF envp_ptr = 0 THEN <<>> ELSE copy_user_str_array(envp_ptr)
      new == load_elf(Files[path], argv, envp)
  IN /\ Called
     /\ StrLen(path_ptr) # -1
     /\ argv_ptr # 0 => ArrayLen(argv_ptr) # -1
     /\ envp_ptr # 0 => ArrayLen(envp_ptr) # -1
     /\ path \in DOMAIN Files
     /\ new.ok
     /\ Commit(path, Files[path], argv, envp, new)

(* setuid and setgid.  Only euid 0 may set them to anything.               *)
SetId(which, id) ==
  LET cur == ids[which] IN
  /\ Called
  /\ ids' = [ids EXCEPT ![which] = IF ids.user.e = 0 THEN [r |-> id, e |-> id, s |-> id]
                                   ELSE [cur EXCEPT !.e = id]]
  /\ ids.user.e = 0 \/ id \in {cur.r, cur.s}
  /\ UNCHANGED <<mem, perm, regs, image>>

FaultyUpdateResIds(cur, new) ==
  LET set(id, old) == IF id = UNCHANGED_ID THEN old ELSE id
      valid(id) == id \in {UNCHANGED_ID, cur.r, cur.e, cur.s}
  IN [ok |-> cur.e = 0 \/ (valid(new.r) /\ valid(new.e)),
      ids |-> [r |-> set(new.r, cur.r), e |-> set(new.e, cur.e), s |-> set(new.s, cur.s)]]

update_res_ids(cur, new) ==
  LET set(id, old) == IF id = UNCHANGED_ID THEN old ELSE id
      valid(id) == id \in {UNCHANGED_ID, cur.r, cur.e, cur.s}
  IN [ok |-> cur.e = 0 \/ (valid(new.r) /\ valid(new.e) /\ valid(new.s)),
      ids |-> [r |-> set(new.r, cur.r), e |-> set(new.e, cur.e), s |-> set(new.s, cur.s)]]

(* setresuid and setresgid; each looks at its own effective id.            *)
SetResId(which, new) ==
  LET res == update_res_ids(ids[which], new) IN
  /\ Called /\ res.ok
  /\ ids' = [ids EXCEPT ![which] = res.ids]
  /\ UNCHANGED <<mem, perm, regs, image>>

(* getresuid and getresgid: the first pointer that cannot be written ends  *)
(* the call, what was written before it stays.                             *)
write_user_id(s, ptr, id) ==
  IF ~ s.ok \/ ptr = 0 THEN s
  ELSE IF ~ validate_user_range(perm, ptr, WordSize, TRUE) THEN [s EXCEPT !.ok = FALSE]
  ELSE [s EXCEPT !.mem = write_bytes_to_space(@, ptr, Bytes(id))]

GetResId(which, ptrs) ==
  LET cur == ids[which]
      r == write_user_id([ok |-> TRUE, mem |-> mem], ptrs[1], cur.r)
      e == write_user_id(r, ptrs[2], cur.e)
      s == write_user_id(e, ptrs[3], cur.s)
  IN /\ Called /\ mem' = s.mem
     /\ UNCHANGED <<ids, perm, regs, image>>

(* The pointers a program has: its argument strings and the places of its  *)
(* argv and envp arrays.                                                   *)
Slots == {regs.sp + i * WordSize : i \in 1..(Len(image.argv) + Len(image.envp) + 2)}
OwnStrings == {Word(mem, regs.sp + i * WordSize) : i \in 1..Len(image.argv)}

Next ==
  \/ \E path \in OwnStrings \union Pointers, argv, envp \in Slots \union Pointers : Execve(path, argv, envp)
  \/ \E which \in {"user", "group"} :
       \/ \E id \in Ids : SetId(which, id)
       \/ \E new \in Triples : SetResId(which, new)
       \/ \E a, b \in Targets : GetResId(which, <<a, 0, b>>)

Spec == Init /\ [][Next]_vars

-----------------------------------------------------------------------------
(* Types: every byte of every mapped page is there, and nothing else.      *)
TypeOK ==
  /\ DOMAIN mem = {a \in 0..(UserEnd - 1) : PageOf(a) \in DOMAIN perm}
  /\ \A a \in DOMAIN mem : mem[a] \in 0..(Base - 1)
  /\ \A which \in {"user", "group"} : ids[which] \in [r : Ids, e : Ids, s : Ids]

(* A string in memory, and an array of pointers to strings *)
StringAt(a) == LET n == CHOOSE n \in 0..(UserEnd - a) : mem[a + n] = 0 /\ \A i \in 0..(n - 1) : mem[a + i] # 0
               IN [i \in 1..n |-> mem[a + i - 1]]

Decoded(first, strings) ==
  /\ \A i \in 1..Len(strings) : StringAt(Word(mem, regs.sp + (first + i - 1) * WordSize)) = strings[i]
  /\ Word(mem, regs.sp + (first + Len(strings)) * WordSize) = 0

(* The entry contract of the ABI: the stack pointer is aligned to two      *)
(* words inside the stack, and the auxiliary vector above the arrays is    *)
(* that of the running file, its program headers where they were loaded.   *)
EntryAbi ==
  LET file == Files[image.path]
      aux == regs.sp + (Len(image.argv) + Len(image.envp) + 3) * WordSize
      loaded == {seg \in ToSet(file.segments) : file.phoff \in seg.offset..(seg.offset + seg.filesz - 1)}
      phdr == Word(mem, aux + 5 * WordSize)
  IN /\ regs.sp % (2 * WordSize) = 0 /\ regs.sp \in StackBottom..(StackTop - 1)
     /\ Word(mem, aux + 3 * WordSize) = regs.entry
     /\ phdr = 0 <=> loaded = {}
     /\ phdr # 0 => \E seg \in loaded : mem[phdr] = file.bytes[file.phoff + 1]

(* A program finds on its stack the strings its execve was given, however  *)
(* many images passed them on: what setup_user_stack encodes is what       *)
(* _start, and the next copy_user_str_array, decode; and it is started as  *)
(* the ABI says.                                                           *)
StackDecodes ==
  /\ TypeOK /\ EntryAbi
  /\ Word(mem, regs.sp) = Len(image.argv)
  /\ Decoded(1, image.argv)
  /\ Decoded(Len(image.argv) + 2, image.envp)

(* What a new image's memory holds: the bytes of every loaded segment at   *)
(* their addresses, zeros behind them, and the pages' permissions are      *)
(* those of a segment or of the stack.                                     *)
SegmentsLoaded ==
  [][image' # image =>
       \A seg \in ToSet(Files[image'.path].segments) : \A i \in 0..(seg.memsz - 1) :
         /\ seg.vaddr + i \in DOMAIN mem'
         /\ mem'[seg.vaddr + i] = IF i < seg.filesz THEN Files[image'.path].bytes[seg.offset + i + 1] ELSE 0
         /\ perm'[PageOf(seg.vaddr + i)] = seg.flags]_vars

(* No call writes a page the process may not write: a range is checked     *)
(* page by page, so a word that begins in a writable page and ends in a    *)
(* read-only one is refused.                                               *)
ReadOnlyKept ==
  [][perm' = perm => \A a \in DOMAIN mem : mem'[a] # mem[a] => "w" \in perm[PageOf(a)]]_vars

Holds(id, user) == id \in {user.r, user.e, user.s}

(* A process that has given up user id 0 everywhere gets it back only from *)
(* a set-uid file: without privilege the ids only move among themselves.   *)
PrivilegeGone ==
  [][\A id \in Ids : (Holds(id, ids'.user) /\ ~ Holds(id, ids.user) /\ ids.user.e # 0)
       => "setuid" \in Files[image'.path].mode /\ Files[image'.path].uid = id]_vars
=============================================================================
