------------------------------ MODULE FileTree ------------------------------
(***************************************************************************)
(* The file tree: ramfs directories and files, path resolution, permission *)
(* bits and the unpacking of the boot archive (services/vfs/mod.rs,        *)
(* ramfs.rs, tar.rs, services_init).  System calls run with interrupts     *)
(* masked and take every lock they need, so the operations are operators   *)
(* from a tree to a tree; Files makes the calls out of them.               *)
(*                                                                         *)
(* A tree is the sequence of the inodes made so far; an inode is an index. *)
(***************************************************************************)
EXTENDS Integers, SequencesExt

CONSTANTS NameOrder,  \* the file names, in the order a BTreeMap keeps them
          NoData      \* the content of an empty file

Names == {NameOrder[i] : i \in DOMAIN NameOrder}

RootDir == 1

Console == 2

(* What a lookup may return instead of an inode *)
NoEntry == 0
NotADirectory == -1

Empty == [n \in {} |-> 0]

Put(f, n, i) == [m \in DOMAIN f \cup {n} |-> IF m = n THEN i ELSE f[m]]

Del(f, n) == [m \in DOMAIN f \ {n} |-> f[m]]

(* RamFsDir and RamFsFile in one record; count is entry_count, data a   *)
(* file's content: its length where nothing else matters, or its pieces.   *)
Node(kind, data, mode, uid, gid) ==
  [kind |-> kind, entries |-> Empty, subdirs |-> Empty, count |-> 0,
   data |-> data, mode |-> mode, uid |-> uid, gid |-> gid]

DirMode == {"ur", "uw", "gr", "or"}       \* 0755, as far as read and write go
FileMode == {"ur", "uw", "gr", "or"}      \* 0644

IsDir(t, i) == t[i].kind = "dir"

-----------------------------------------------------------------------------
(* Paths are sequences of components; abs tells an absolute one *)

(* normalize_path: "." is dropped, ".." takes the last component back *)
normalize_path(cwd, path) ==
  FoldLeft(LAMBDA out, c : IF c = "." THEN out
                           ELSE IF c = ".." THEN (IF out = <<>> THEN out ELSE Front(out))
                           ELSE Append(out, c),
           <<>>, IF path.abs THEN path.parts ELSE cwd \o path.parts)

lookup(t, i, name) ==
  IF ~IsDir(t, i) THEN NotADirectory
  ELSE IF name \in DOMAIN t[i].entries THEN t[i].entries[name] ELSE NoEntry

(* resolve_path of a normalized path *)
Resolve(t, norm) ==
  FoldLeft(LAMBDA i, c : IF i < RootDir THEN i ELSE lookup(t, i, c), RootDir, norm)

(* resolve_parent_and_basename; the root has no parent *)
Parent(t, norm) == Resolve(t, Front(norm))

-----------------------------------------------------------------------------
(* Directories *)

(* A new inode enters directory d under name: create_file, create_dir,     *)
(* add_child and get_or_create_subdir differ in what they check before and *)
(* in whether subdirs learns of it.                                        *)
Insert(t, d, name, node, inSubdirs) ==
  LET i == Len(t) + 1
      dir == t[d]
      new == [dir EXCEPT !.entries = Put(@, name, i),
                         !.subdirs = IF inSubdirs THEN Put(@, name, i) ELSE @,
                         !.count = IF name \in DOMAIN dir.entries THEN @ ELSE @ + 1]
  IN  Append([t EXCEPT ![d] = new], node)

get_or_create_subdir(t, d, name) ==
  IF name \in DOMAIN t[d].subdirs THEN t
  ELSE Insert(t, d, name, Node("dir", NoData, DirMode, 0, 0), TRUE)

(* RamFsDir::unlink, of any entry: a directory goes whatever it holds *)
unlink(t, d, name) ==
  [t EXCEPT ![d].entries = Del(@, name), ![d].subdirs = Del(@, name), ![d].count = @ - 1]

(* The checks of RamFsDir::rename: what it returns, "ok" or the error *)
RenameResult(t, d, old, e, new) ==
  LET source == lookup(t, d, old)
      target == lookup(t, e, new)
  IN  CASE source = NoEntry -> "ENOENT"
        [] source # NoEntry /\ (target = NoEntry \/ (d = e /\ old = new)) -> "ok"
        [] OTHER ->
             IF IsDir(t, source) /\ ~IsDir(t, target) THEN "ENOTDIR"
             ELSE IF ~IsDir(t, source) /\ IsDir(t, target) THEN "EISDIR"
             ELSE IF IsDir(t, source) /\ (target \in {d, e} \/ t[target].count > 0)
               THEN "ENOTEMPTY"
             ELSE "ok"

(* The move itself, within a directory and across two.  Each keeps the     *)
(* counts its own way: within one only a replaced entry counts; across two *)
(* the source loses one and the target gains one unless it replaced one.   *)
Move(t, d, old, e, new) ==
  LET i == t[d].entries[old]
      replaced == new \in DOMAIN t[e].entries
      cut == [t EXCEPT ![d].entries = Del(@, old), ![d].subdirs = Del(@, old)]
      sub(s) == IF old \in DOMAIN t[d].subdirs THEN Put(s, new, t[d].subdirs[old])
                ELSE Del(s, new)
      put == [cut EXCEPT ![e].entries = Put(@, new, i), ![e].subdirs = sub(@)]
  IN  IF d = e /\ old = new THEN t
      ELSE IF d = e THEN [put EXCEPT ![d].count = IF replaced THEN @ - 1 ELSE @]
      ELSE [put EXCEPT ![d].count = @ - 1, ![e].count = IF replaced THEN @ ELSE @ + 1]

FaultyMovesIntoItself(old, new) == old = new

(* The new name lies inside the directory that moves *)
MovesIntoItself(old, new) == IsStrictPrefix(old, new)

(* The errors of sys_rename, between normalized paths, in the order it     *)
(* finds them; "same" is a success that does nothing.                      *)
RenameStatus(t, old, new) ==
  LET source == IF old = <<>> THEN NoEntry ELSE Resolve(t, old)
  IN  IF <<>> \in {old, new} THEN "EBUSY"
      ELSE IF source = NoEntry THEN "ENOENT"
      ELSE IF source = NotADirectory THEN "ENOTDIR"
      ELSE IF old = new THEN "same"
      ELSE IF IsDir(t, source) /\ MovesIntoItself(old, new) THEN "EINVAL"
      ELSE LET e == Parent(t, new)
           IN  IF e = NoEntry THEN "ENOENT"
               ELSE IF e = NotADirectory THEN "ENOTDIR"
               ELSE IF ~IsDir(t, e) THEN "EXDEV"
               ELSE RenameResult(t, Parent(t, old), Last(old), e, Last(new))

(* What sys_mkdir and sys_unlink find where the last component goes *)
ParentStatus(t, norm) ==
  LET d == Parent(t, norm)
  IN  IF norm = <<>> THEN "EINVAL"
      ELSE IF d = NoEntry THEN "ENOENT"
      ELSE IF d = NotADirectory \/ ~IsDir(t, d) THEN "ENOTDIR"
      ELSE IF Last(norm) \in DOMAIN t[d].entries THEN "there" ELSE "free"

MkdirStatus(t, norm) ==
  LET s == ParentStatus(t, norm)
  IN  CASE s = "there" -> "EEXIST" [] s = "free" -> "ok" [] OTHER -> s

UnlinkStatus(t, norm) ==
  LET s == ParentStatus(t, norm)
  IN  CASE s = "there" -> "ok" [] s = "free" -> "ENOENT" [] OTHER -> s

(* readdir: the names in the map's order *)
readdir(t, d) == SelectSeq(NameOrder, LAMBDA n : n \in DOMAIN t[d].entries)

-----------------------------------------------------------------------------
(* check_inode_permission; acc is {"r"}, {"w"} or both, the inode's class  *)
(* for the caller alone decides.                                           *)
check_inode_permission(node, creds, acc) ==
  LET class == IF creds.euid = node.uid THEN <<"ur", "uw">>
               ELSE IF creds.egid = node.gid THEN <<"gr", "gw">> ELSE <<"or", "ow">>
  IN  \/ creds.euid = 0
      \/ /\ "r" \in acc => class[1] \in node.mode
         /\ "w" \in acc => class[2] \in node.mode

(* VfsCreds::creation_mode *)
creation_mode(mode, umask) == mode \ umask

-----------------------------------------------------------------------------
(* Boot *)

(* services_init: directories of the root, made with add_child *)
BootTree(dirs) ==
  FoldLeft(LAMBDA t, n : Insert(t, RootDir, n, Node("dir", NoData, DirMode, 0, 0), FALSE),
           <<Node("dir", NoData, DirMode, 0, 0), Node("chr", NoData, DirMode \cup {"gw", "ow"}, 0, 0)>>, dirs)

(* One entry of unpack_tar_archive: every component but the last of a file *)
(* is a directory, made if subdirs does not know it.                       *)
UnpackEntry(t, entry) ==
  LET dirs == IF entry.dir THEN entry.parts ELSE Front(entry.parts)
      walk == FoldLeft(LAMBDA w, c :
                         LET made == get_or_create_subdir(w.t, w.at, c)
                         IN  [t |-> made, at |-> made[w.at].subdirs[c]],
                       [t |-> t, at |-> RootDir], dirs)
  IN  IF entry.dir THEN walk.t
      ELSE Insert(walk.t, walk.at, Last(entry.parts),
                  Node("file", entry.data, FileMode, 0, 0), FALSE)

unpack_tar_archive(t, archive) == FoldLeft(UnpackEntry, t, archive)
=============================================================================
