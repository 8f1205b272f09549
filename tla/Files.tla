-------------------------------- MODULE Files --------------------------------
(***************************************************************************)
(* The file system calls: descriptors, open file descriptions, directories *)
(* and epoll interest lists (services/posix/fs.rs, epoll.rs, system.rs,    *)
(* the descriptor table of services/process/mod.rs, FileHandle of          *)
(* services/vfs/mod.rs and EpollInstance).                                 *)
(*                                                                         *)
(* No call here gives the processor up, and SYSCALL masks interrupts, so a *)
(* call is one step; the processes share inodes, handles and interest      *)
(* lists between their calls.  Blocking reads of pipes are in Pipe.        *)
(***************************************************************************)
EXTENDS FileTree

CONSTANTS Procs,        \* process ids
          BootInit,     \* the one that exists at boot
          BootDirs,     \* the root's directories made by services_init
          Archive,      \* what the boot archive holds
          Programs,     \* what runs: the calls it makes, its paths and open flags
          Modes,        \* the permission bits files are created with
          Counts,       \* byte counts of reads, writes and seeks
          Events,       \* the event masks of epoll_ctl
          MaxNodes, MaxHandles, MaxFds, MaxSize, MaxCalls   \* bounds

VARIABLES tree,       \* the inodes
          fds,        \* each process's table: handle numbers, NoHandle for a gap
          handles,    \* the open file descriptions made so far
          cwd,        \* each process's working directory, a normalized path
          creds,      \* its credentials
          alive,      \* which processes exist
          interests,  \* of each epoll inode: a map from fd numbers to event masks
          event,      \* the audit event the last call logged, or NoEvent
          program,    \* which of Programs runs, chosen at the start
          calls       \* calls made, for the bound

vars == <<tree, fds, handles, cwd, creds, alive, interests, event, program, calls>>

NoHandle == 0

(* An audit event: its type, the status and the path.  from, the old name   *)
(* of a rename, is not logged; the properties use it.                       *)
Moved(type, status, path, from) == [type |-> type, status |-> status, path |-> path, from |-> from]

Logged(type, status, path) == Moved(type, status, path, path)

NoEvent == Logged("none", "ok", <<>>)

(* A FileHandle.  seen is a history variable: the names getdents64 has     *)
(* returned through this handle since it was at 0, Stale once the directory*)
(* changed or the offset was set by anything else.                         *)
Stale == <<"stale">>

Handle(inode, flags) == [inode |-> inode, offset |-> 0, flags |-> flags, seen |-> <<>>]

RootCreds == [uid |-> 0, euid |-> 0, egid |-> 0, umask |-> {"gw", "ow"}]

Init ==
  /\ tree = unpack_tar_archive(BootTree(BootDirs), Archive)
  /\ fds = [p \in Procs |-> IF p = BootInit THEN <<1>> ELSE <<>>]
  /\ handles = <<Handle(Console, {"r", "w"})>>
  /\ cwd = [p \in Procs |-> <<>>]
  /\ creds = [p \in Procs |-> RootCreds]
  /\ alive = {BootInit}
  /\ interests = Empty
  /\ event = NoEvent
  /\ program \in Programs
  /\ calls = 0

-----------------------------------------------------------------------------
(* The descriptor table; descriptor fd is element fd + 1 *)

get_fd(p, fd) == IF fd + 1 \in DOMAIN fds[p] THEN fds[p][fd + 1] ELSE NoHandle

OpenFds(p) == {fd \in 0 .. Len(fds[p]) - 1 : get_fd(p, fd) # NoHandle}

alloc_fd(table, h) ==
  LET i == SelectInSeq(table, LAMBDA e : e = NoHandle)
  IN  IF i = 0 THEN Append(table, h) ELSE [table EXCEPT ![i] = h]

close_fd(table, fd) == [table EXCEPT ![fd + 1] = NoHandle]

InodeOf(p, fd) == handles[get_fd(p, fd)].inode

Enter(p, call) ==
  /\ p \in alive /\ call \in program.calls
  /\ calls < MaxCalls /\ calls' = calls + 1
  /\ UNCHANGED program

Quiet == event' = NoEvent

NewHandle(p, h) ==
  /\ Len(handles) < MaxHandles /\ Len(fds[p]) < MaxFds
  /\ handles' = Append(handles, h)
  /\ fds' = [fds EXCEPT ![p] = alloc_fd(@, Len(handles) + 1)]

(* A directory that changes makes the scans in progress in it stale *)
Touched(hs, dirs) ==
  [h \in DOMAIN hs |-> IF hs[h].inode \in dirs /\ hs[h].seen # <<>>
                       THEN [hs[h] EXCEPT !.seen = Stale] ELSE hs[h]]

-----------------------------------------------------------------------------
(* sys_open.  Creation looks at no permission; an existing file is checked *)
(* and, if asked and writable, truncated.                                  *)
OpenExisting(p, i, flags) ==
  /\ ~({"creat", "excl"} \subseteq flags)
  /\ check_inode_permission(tree[i], creds[p], flags)
  /\ tree' = IF "trunc" \in flags /\ "w" \in flags /\ tree[i].kind = "file"
             THEN [tree EXCEPT ![i].data = NoData] ELSE tree
  /\ NewHandle(p, Handle(i, flags))
  /\ Quiet

OpenCreates(p, norm, flags, mode) ==
  LET d == Parent(tree, norm)
      c == creds[p]
  IN  /\ "creat" \in flags
      /\ d >= RootDir /\ IsDir(tree, d)
      /\ Len(tree) < MaxNodes
      /\ tree' = Insert(tree, d, Last(norm),
                        Node("file", NoData, creation_mode(mode, c.umask), c.euid, c.egid), FALSE)
      /\ Len(handles) < MaxHandles /\ Len(fds[p]) < MaxFds
      /\ handles' = Append(Touched(handles, {d}), Handle(Len(tree) + 1, flags))
      /\ fds' = [fds EXCEPT ![p] = alloc_fd(@, Len(handles) + 1)]
      /\ event' = Logged("FILE_CREATE", "ok", norm)

Open(p, path, flags, mode) ==
  LET norm == normalize_path(cwd[p], path)
      i == Resolve(tree, norm)
  IN  /\ Enter(p, "open")
      /\ \/ i >= RootDir /\ OpenExisting(p, i, flags)
         \/ i = NoEntry /\ OpenCreates(p, norm, flags, mode)
      /\ UNCHANGED <<cwd, creds, alive, interests>>

Close(p, fd) ==
  /\ Enter(p, "close")
  /\ fds' = [fds EXCEPT ![p] = close_fd(@, fd)]
  /\ Quiet
  /\ UNCHANGED <<tree, handles, cwd, creds, alive, interests>>

(* FileHandle::read of a regular file, whatever mode it was opened in *)
Read(p, fd, n) ==
  LET h == get_fd(p, fd)
      node == tree[handles[h].inode]
      got == IF handles[h].offset >= node.data THEN 0
             ELSE IF n < node.data - handles[h].offset THEN n
                  ELSE node.data - handles[h].offset
  IN  /\ Enter(p, "read")
      /\ node.kind = "file"
      /\ handles' = [handles EXCEPT ![h].offset = @ + got]
      /\ Quiet
      /\ UNCHANGED <<tree, fds, cwd, creds, alive, interests>>

FaultyWriteStart(handle, node) == handle.offset

(* Where FileHandle::write puts the bytes *)
WriteStart(handle, node) == IF "append" \in handle.flags THEN node.data ELSE handle.offset

(* FileHandle::write.  The offset has already moved to the end when the    *)
(* inode refuses: an append to a directory fails and rewinds its scan.     *)
Write(p, fd, n) ==
  LET h == get_fd(p, fd)
      i == handles[h].inode
      start == WriteStart(handles[h], tree[i])
  IN  /\ Enter(p, "write")
      /\ start + n <= MaxSize
      /\ \/ /\ tree[i].kind = "file"
            /\ tree' = [tree EXCEPT ![i].data = IF start + n > @ THEN start + n ELSE @]
            /\ handles' = [handles EXCEPT ![h].offset = start + n]
         \/ /\ tree[i].kind = "dir"
            /\ handles' = [handles EXCEPT ![h].offset = start,
                              ![h].seen = IF "append" \in handles[h].flags THEN <<>> ELSE @]
            /\ UNCHANGED tree
      /\ Quiet
      /\ UNCHANGED <<fds, cwd, creds, alive, interests>>

SeekAccepted(new) == new >= 0

(* FileHandle::lseek to an offset from the start, here or the end *)
Lseek(p, fd, n, whence) ==
  LET h == get_fd(p, fd)
      base == CASE whence = "set" -> 0
                [] whence = "cur" -> handles[h].offset
                [] whence = "end" -> tree[handles[h].inode].data
      new == base + n
  IN  /\ Enter(p, "lseek")
      /\ tree[handles[h].inode].kind \in {"file", "dir"}
      /\ SeekAccepted(new) /\ new <= MaxSize
      /\ handles' = [handles EXCEPT ![h].offset = new,
                                    ![h].seen = IF new = 0 THEN <<>> ELSE Stale]
      /\ Quiet
      /\ UNCHANGED <<tree, fds, cwd, creds, alive, interests>>

(* sys_pipe: two anonymous inodes, the lowest free descriptor first *)
MakePipe(p) ==
  LET i == Len(tree) + 1
      h == Len(handles) + 1
  IN  /\ Enter(p, "pipe")
      /\ i + 1 <= MaxNodes /\ h + 1 <= MaxHandles /\ Len(fds[p]) + 2 <= MaxFds
      /\ tree' = tree \o <<Node("pipe", NoData, {}, 0, 0), Node("pipe", NoData, {}, 0, 0)>>
      /\ handles' = handles \o <<Handle(i, {"r"}), Handle(i + 1, {"w"})>>
      /\ fds' = [fds EXCEPT ![p] = alloc_fd(alloc_fd(@, h), h + 1)]
      /\ Quiet
      /\ UNCHANGED <<cwd, creds, alive, interests>>

Dup(p, fd) ==
  /\ Enter(p, "dup")
  /\ Len(fds[p]) < MaxFds
  /\ fds' = [fds EXCEPT ![p] = alloc_fd(@, get_fd(p, fd))]
  /\ Quiet
  /\ UNCHANGED <<tree, handles, cwd, creds, alive, interests>>

(* sys_dup2: closes newfd, grows the table up to it *)
Dup2(p, fd, newfd) ==
  LET t == fds[p]
      grown == [i \in 1 .. (IF newfd + 1 > Len(t) THEN newfd + 1 ELSE Len(t)) |->
                  IF i <= Len(t) THEN t[i] ELSE NoHandle]
  IN  /\ Enter(p, "dup2")
      /\ fd # newfd
      /\ fds' = [fds EXCEPT ![p] = [grown EXCEPT ![newfd + 1] = get_fd(p, fd)]]
      /\ Quiet
      /\ UNCHANGED <<tree, handles, cwd, creds, alive, interests>>

-----------------------------------------------------------------------------
(* Directories *)

Mkdir(p, path, mode) ==
  LET norm == normalize_path(cwd[p], path)
      d == Parent(tree, norm)
      c == creds[p]
      status == MkdirStatus(tree, norm)
  IN  /\ Enter(p, "mkdir")
      /\ Len(tree) < MaxNodes
      /\ event' = Logged("DIR_CREATE", status, norm)
      /\ IF status = "ok"
         THEN /\ tree' = Insert(tree, d, Last(norm),
                           Node("dir", NoData, creation_mode(mode, c.umask), c.euid, c.egid), TRUE)
              /\ handles' = Touched(handles, {d})
         ELSE UNCHANGED <<tree, handles>>
      /\ UNCHANGED <<fds, cwd, creds, alive, interests>>

FaultyUnlink(p, path) ==
  LET norm == normalize_path(cwd[p], path)
      d == IF norm = <<>> THEN NoEntry ELSE Parent(tree, norm)
  IN  /\ Enter(p, "unlink")
      /\ d >= RootDir /\ IsDir(tree, d) /\ Last(norm) \in DOMAIN tree[d].entries
      /\ tree' = unlink(tree, d, Last(norm))
      /\ handles' = Touched(handles, {d})
      /\ Quiet
      /\ UNCHANGED <<fds, cwd, creds, alive, interests>>

Unlink(p, path) ==
  LET norm == normalize_path(cwd[p], path)
      d == Parent(tree, norm)
      status == UnlinkStatus(tree, norm)
  IN  /\ Enter(p, "unlink")
      /\ event' = Logged("FILE_UNLINK", status, norm)
      /\ IF status = "ok"
         THEN tree' = unlink(tree, d, Last(norm)) /\ handles' = Touched(handles, {d})
         ELSE UNCHANGED <<tree, handles>>
      /\ UNCHANGED <<fds, cwd, creds, alive, interests>>

Rename(p, from, to) ==
  LET old == normalize_path(cwd[p], from)
      new == normalize_path(cwd[p], to)
      status == RenameStatus(tree, old, new)
      d == Parent(tree, old)
      e == Parent(tree, new)
  IN  /\ Enter(p, "rename")
      /\ event' = IF status = "same" THEN NoEvent ELSE Moved("FILE_MODIFY", status, new, old)
      /\ IF status = "ok"
         THEN /\ tree' = Move(tree, d, Last(old), e, Last(new))
              /\ handles' = Touched(handles, {d, e})
         ELSE UNCHANGED <<tree, handles>>
      /\ UNCHANGED <<fds, cwd, creds, alive, interests>>

FaultyNextOffset(start, given) == given

(* Where getdents64 leaves the offset, an index into the sorted names *)
NextOffset(start, given) == start + given

(* sys_getdents64 with room for n entries *)
Getdents64(p, fd, n) ==
  LET h == get_fd(p, fd)
      d == handles[h].inode
      names == readdir(tree, d)
      start == handles[h].offset
      given == IF start >= Len(names) THEN 0
               ELSE IF n < Len(names) - start THEN n ELSE Len(names) - start
  IN  /\ Enter(p, "getdents64")
      /\ IsDir(tree, d)
      /\ handles' = [handles EXCEPT ![h].offset = NextOffset(start, given),
           ![h].seen = IF @ = Stale THEN Stale ELSE @ \o SubSeq(names, start + 1, start + given)]
      /\ Quiet
      /\ UNCHANGED <<tree, fds, cwd, creds, alive, interests>>

Chdir(p, path) ==
  LET norm == normalize_path(cwd[p], path)
      i == Resolve(tree, norm)
  IN  /\ Enter(p, "chdir")
      /\ i >= RootDir /\ IsDir(tree, i)
      /\ cwd' = [cwd EXCEPT ![p] = norm]
      /\ event' = Logged("DIR_CHANGE", "ok", norm)
      /\ UNCHANGED <<tree, fds, handles, creds, alive, interests>>

-----------------------------------------------------------------------------
(* epoll *)

EpollCreate1(p) ==
  /\ Enter(p, "epoll_create1")
  /\ Len(tree) < MaxNodes
  /\ tree' = Append(tree, Node("epoll", NoData, {}, 0, 0))
  /\ NewHandle(p, Handle(Len(tree) + 1, {"r", "w"}))
  /\ interests' = Put(interests, Len(tree) + 1, Empty)
  /\ Quiet
  /\ UNCHANGED <<cwd, creds, alive>>

(* sys_epoll_ctl never looks at what fd is; the list is keyed by its number *)
EpollCtl(p, epfd, op, fd, mask) ==
  LET ep == InodeOf(p, epfd)
      list == interests[ep]
  IN  /\ Enter(p, "epoll_ctl")
      /\ tree[ep].kind = "epoll"
      /\ CASE op = "add" -> fd \notin DOMAIN list /\ interests' = [interests EXCEPT ![ep] = Put(@, fd, mask)]
           [] op = "mod" -> fd \in DOMAIN list /\ interests' = [interests EXCEPT ![ep] = Put(@, fd, mask)]
           [] op = "del" -> fd \in DOMAIN list /\ interests' = [interests EXCEPT ![ep] = Del(@, fd)]
      /\ Quiet
      /\ UNCHANGED <<tree, fds, handles, cwd, creds, alive>>

FaultyWait(p, ep, maxevents, poll) ==
  LET list == interests[ep]
      sorted == SetToSortSeq(DOMAIN list, LAMBDA a, b : a < b)
      triggered(fd) == IF get_fd(p, fd) = NoHandle THEN {}
                       ELSE LET f == poll[InodeOf(p, fd)]
                            IN  (list[fd] \cap f) \cup ({"hup", "err"} \cap f)
  IN  FoldLeft(LAMBDA out, fd : IF Len(out) > maxevents \/ triggered(fd) = {} THEN out
                                ELSE Append(out, [fd |-> fd, events |-> triggered(fd)]),
               <<>>, sorted)

(* What EpollInstance::wait fills in, given the poll flags of the inodes;  *)
(* it reads the caller's own table, whoever registered the number.         *)
wait(p, ep, maxevents, poll) ==
  LET list == interests[ep]
      sorted == SetToSortSeq(DOMAIN list, LAMBDA a, b : a < b)
      triggered(fd) == IF get_fd(p, fd) = NoHandle THEN {}
                       ELSE LET f == poll[InodeOf(p, fd)]
                            IN  (list[fd] \cap f) \cup ({"hup", "err"} \cap f)
  IN  FoldLeft(LAMBDA out, fd : IF Len(out) >= maxevents \/ triggered(fd) = {} THEN out
                                ELSE Append(out, [fd |-> fd, events |-> triggered(fd)]),
               <<>>, sorted)

-----------------------------------------------------------------------------
(* sys_fork: the child has the same handles at the same numbers *)
Fork(p, c) ==
  /\ Enter(p, "fork")
  /\ c \notin alive
  /\ alive' = alive \cup {c}
  /\ fds' = [fds EXCEPT ![c] = fds[p]]
  /\ cwd' = [cwd EXCEPT ![c] = cwd[p]]
  /\ creds' = [creds EXCEPT ![c] = creds[p]]
  /\ Quiet
  /\ UNCHANGED <<tree, handles, interests>>

(* A privileged process becomes an ordinary user (sys_setresuid and        *)
(* sys_setresgid, which Credentials models).                               *)
DropPrivileges(p) ==
  /\ Enter(p, "setresuid")
  /\ creds[p].euid = 0
  /\ creds' = [creds EXCEPT ![p] = [@ EXCEPT !.uid = 1, !.euid = 1, !.egid = 1]]
  /\ Quiet
  /\ UNCHANGED <<tree, fds, handles, cwd, alive, interests>>

Next ==
  \E p \in Procs :
    \/ \E path \in program.paths, flags \in program.flags, mode \in Modes : Open(p, path, flags, mode)
    \/ \E path \in program.paths, mode \in Modes : Mkdir(p, path, mode)
    \/ \E path \in program.paths : Unlink(p, path) \/ Chdir(p, path)
    \/ \E from, to \in program.paths : Rename(p, from, to)
    \/ \E fd \in OpenFds(p) : Close(p, fd) \/ Dup(p, fd)
    \/ \E fd \in OpenFds(p), newfd \in 0 .. MaxFds - 1 : Dup2(p, fd, newfd)
    \/ \E fd \in OpenFds(p), n \in Counts : Read(p, fd, n) \/ Write(p, fd, n) \/ Getdents64(p, fd, n)
    \/ \E fd \in OpenFds(p), n \in {-1, 0, 1}, whence \in {"set", "cur", "end"} : Lseek(p, fd, n, whence)
    \/ MakePipe(p) \/ EpollCreate1(p) \/ DropPrivileges(p)
    \/ \E epfd \in OpenFds(p), op \in {"add", "mod", "del"}, fd \in 0 .. MaxFds - 1, mask \in Events :
         EpollCtl(p, epfd, op, fd, mask)
    \/ \E c \in Procs : Fork(p, c)

Spec == Init /\ [][Next]_vars
-----------------------------------------------------------------------------
(* Properties *)

Inodes == DOMAIN tree

Dirs == {i \in Inodes : tree[i].kind = "dir"}

(* Every table entry is a gap or a handle, every handle has an inode, every *)
(* name of a directory an inode, every interest list an epoll inode.        *)
TypeOK ==
  /\ \A p \in Procs : Len(fds[p]) <= MaxFds /\ Range(fds[p]) \subseteq {NoHandle} \cup DOMAIN handles
  /\ \A h \in DOMAIN handles : handles[h].inode \in Inodes /\ handles[h].offset \in Nat
  /\ \A i \in Inodes : /\ tree[i].kind \in {"dir", "file", "chr", "pipe", "epoll"}
                        /\ Range(tree[i].entries) \subseteq Inodes
                        /\ tree[i].data \in 0 .. MaxSize
  /\ DOMAIN interests = {i \in Inodes : tree[i].kind = "epoll"}
  /\ alive \subseteq Procs

(* What a RamFsDir keeps besides the map of its entries is right: the       *)
(* atomic entry_count, which rename reads without a lock to tell an empty   *)
(* directory, is the number of entries, and whatever subdirs still lists is *)
(* the directory entries has under that name.                               *)
DirectoryExact ==
  \A d \in Dirs :
    /\ tree[d].count = Cardinality(DOMAIN tree[d].entries)
    /\ \A n \in DOMAIN tree[d].subdirs :
         n \in DOMAIN tree[d].entries /\ tree[d].entries[n] = tree[d].subdirs[n]

Holders(i) == {x \in Dirs \X Names : x[2] \in DOMAIN tree[x[1]].entries /\ tree[x[1]].entries[x[2]] = i}

Below(D) == D \cup UNION {Range(tree[d].entries) \cap Dirs : d \in D}

(* The directories form a tree: an inode has one name at most, the root has *)
(* none, and no directory, in use or already unlinked, is inside itself, so *)
(* that dropping the last reference to one frees it.  sys_rename's prefix   *)
(* test on the normalized paths is all that ensures the last part.  Every   *)
(* reference has its inode and every directory's second map and counter are *)
(* right.                                                                   *)
TreeShape ==
  /\ TypeOK /\ DirectoryExact
  /\ \A i \in Inodes : Cardinality(Holders(i)) <= (IF i = RootDir THEN 0 ELSE 1)
  /\ \A d \in Dirs : LET kids == Range(tree[d].entries) \cap Dirs
                         all == FoldLeft(LAMBDA D, n : Below(D), kids, [n \in 1 .. Len(tree) |-> n])
                     IN  d \notin all

(* A scan of a directory that nobody changes meanwhile returns each name    *)
(* once, in order: what getdents64 has given through a handle is the first  *)
(* offset names, over any number of calls, through any of the descriptors   *)
(* and processes that share the handle.                                     *)
ScanExact ==
  \A h \in DOMAIN handles :
    LET names == readdir(tree, handles[h].inode)
    IN  (handles[h].inode \in Dirs /\ handles[h].seen \notin {<<>>, Stale})
          => handles[h].seen = SubSeq(names, 1, handles[h].offset)

(* What a poll of an inode may say: only a pipe's answer varies *)
PollFlags(choice) ==
  [i \in Inodes |-> IF tree[i].kind = "pipe" THEN choice ELSE {"in", "out"}]

(* epoll_wait reports, of the interests whose descriptor is open in the     *)
(* caller and has an event asked for or a hangup, the lowest numbers, as    *)
(* many as fit: none is reported twice, none ready is passed over for a     *)
(* higher one, and the list is shorter than asked only if all fit.          *)
WaitExact ==
  \A p \in alive : \A epfd \in OpenFds(p) : tree[InodeOf(p, epfd)].kind = "epoll" =>
    \A max \in 1 .. 2, choice \in {{}, {"in"}, {"hup"}} :
      LET ep == InodeOf(p, epfd)
          poll == PollFlags(choice)
          r == wait(p, ep, max, poll)
          got == {r[k].fd : k \in DOMAIN r}
          ready == {fd \in DOMAIN interests[ep] \cap OpenFds(p) :
                      (interests[ep][fd] \cup {"hup"}) \cap poll[InodeOf(p, fd)] # {}}
      IN  /\ got \subseteq ready /\ Cardinality(got) = Len(r) /\ Len(r) <= max
          /\ \A a \in got, b \in ready \ got : a < b
          /\ Len(r) < max => got = ready

Depth == 2

AllPaths == UNION {[1 .. n -> Names] : n \in 0 .. Depth}

(* Where path q led before the call if the call renames old to new *)
Rerouted(q, old, new) ==
  IF IsPrefix(new, q) THEN Resolve(tree, old \o SubSeq(q, Len(new) + 1, Len(q)))
  ELSE IF IsPrefix(old, q) THEN NoEntry ELSE Resolve(tree, q)

SameTarget(i, j) == i = j \/ (i < RootDir /\ j < RootDir)

(* A call changes the paths it names and no other, and the audit journal    *)
(* hears of every change: after a rename that logs success the whole moved  *)
(* subtree is found under the new name and nothing under the old, a removed *)
(* name and all under it are gone, a created one is a fresh inode; any other *)
(* path, and every path after a call that logs no success, leads where it   *)
(* led.                                                                     *)
NamespaceExact ==
  [][LET old == event'.from
         new == event'.path
         done == event' # NoEvent /\ event'.status = "ok"
         expected(q) ==
           CASE done /\ event'.type = "FILE_MODIFY" -> Rerouted(q, old, new)
             [] done /\ event'.type = "FILE_UNLINK" -> IF IsPrefix(new, q) THEN NoEntry ELSE Resolve(tree, q)
             [] done /\ event'.type \in {"FILE_CREATE", "DIR_CREATE"} ->
                  IF q = new THEN Len(tree') ELSE Resolve(tree, q)
             [] OTHER -> Resolve(tree, q)
     IN  \A q \in AllPaths : SameTarget(Resolve(tree', q), expected(q))]_<<tree, event>>

(* A file loses bytes only to a caller who may write it: the owner's, the   *)
(* group's or the others' write bit, whichever class the caller is in, or   *)
(* root.  O_TRUNC by a caller sys_open turns away leaves it whole.  And a    *)
(* write through an O_APPEND handle destroys nothing: whatever other        *)
(* handles did to the file since this one last wrote, the file grows by as  *)
(* many bytes as were written.                                              *)
DataKept ==
  [][/\ \A i \in Inodes : tree'[i].data < tree[i].data =>
          \E p \in alive : /\ fds'[p] # fds[p]
                           /\ check_inode_permission(tree[i], creds[p], {"w"})
     /\ \A p \in alive : \A fd \in OpenFds(p), n \in Counts :
          LET i == InodeOf(p, fd)
          IN  ("append" \in handles[get_fd(p, fd)].flags /\ tree[i].kind = "file" /\ Write(p, fd, n))
                => tree'[i].data = tree[i].data + n]_<<tree, handles>>
=============================================================================
