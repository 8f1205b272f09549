------------------------------- MODULE Shell -------------------------------
(***************************************************************************)
(* The shell (userland/shell): how it parses and runs a line, and its file *)
(* commands.  Every command is a function of the shell's own process, so   *)
(* what runs is one call stack: `stack` holds the calls still to make, the *)
(* next one first, and each action makes one.  `sh` is what the calls work *)
(* on,                                                                     *)
(*   tree    the inodes (FileTree)                                         *)
(*   fds     the open descriptors, a map to open files                     *)
(*   cwd, oldpwd   the working directory, and OLDPWD if set                *)
(*   at      "ok", or why the shell never comes back to the prompt         *)
(*   cut     whether join_path had to give up in this line                 *)
(* The shell is root's, so sys_open refuses it nothing.  Texts are single  *)
(* pieces of data; an error or notice written to the output is Message.    *)
(***************************************************************************)
EXTENDS FileTree

CONSTANTS BootDirs, Archives,  \* the trees the shell may find
          Lines,               \* what may be typed
          MaxLines,            \* bound: lines typed
          MaxStages,           \* stages of a pipeline; 8 in the code
          Batch,               \* entries a getdents64 buffer holds; 14 in the code
          MaxPath,             \* what join_path's buffer holds; 255 in the code
          MaxDepth             \* calls of copy_path or remove_path the user stack holds

VARIABLES sh,     \* the state above
          stack,  \* the calls to make
          ret,    \* whether the copy_path that returned last returned 0
          line,   \* the stages of the line typed last, its pipes and saved descriptors
          was,    \* sh when it was typed
          typed   \* how many lines were

vars == <<sh, stack, ret, line, was, typed>>

Message == "message"

OpenFile(inode, append) == [inode |-> inode, offset |-> 0, append |-> append]

Init ==
  /\ \E archive \in Archives :
       sh = [tree |-> unpack_tar_archive(BootTree(BootDirs), archive),
             fds |-> [fd \in 0 .. 2 |-> OpenFile(Console, FALSE)],
             cwd |-> <<>>, oldpwd |-> {}, at |-> "ok", cut |-> FALSE]
  /\ stack = <<>>
  /\ ret = FALSE
  /\ line = [stages |-> <<>>, pipes |-> <<>>, in |-> 0, out |-> 0]
  /\ was = sh
  /\ typed = 0

-----------------------------------------------------------------------------
(* System calls.  A word of the line serves as a path *)

Path(abs, parts) == [redir |-> "", opts |-> {}, abs |-> abs, parts |-> parts]

Norm(s, path) == normalize_path(s.cwd, path)

Find(s, path) == Resolve(s.tree, Norm(s, path))

DirAt(s, path) == Find(s, path) >= RootDir /\ IsDir(s.tree, Find(s, path))

alloc_fd(s, file) ==
  LET free == (0 .. Cardinality(DOMAIN s.fds)) \ DOMAIN s.fds
      fd == CHOOSE f \in free : \A g \in free : f <= g
  IN  [s |-> [s EXCEPT !.fds = Put(@, fd, file)], fd |-> fd]

close(s, fd) == [s EXCEPT !.fds = Del(@, fd)]

dup(s, fd) == alloc_fd(s, s.fds[fd])

dup2(s, old, new) == IF old \in DOMAIN s.fds THEN [s EXCEPT !.fds = Put(@, new, s.fds[old])] ELSE s

(* A pipe is two inodes, the read end, which holds the bytes, then the     *)
(* write end.                                                              *)
pipe(s) ==
  LET i == Len(s.tree) + 1
      made == [s EXCEPT !.tree = @ \o <<Node("read end", NoData, {}, 0, 0), Node("write end", NoData, {}, 0, 0)>>]
      r == alloc_fd(made, OpenFile(i, FALSE))
      w == alloc_fd(r.s, OpenFile(i + 1, FALSE))
  IN  [s |-> w.s, r |-> r.fd, w |-> w.fd]

InUse(s, inode) == \E fd \in DOMAIN s.fds : s.fds[fd].inode = inode

(* open with O_CREAT; inode is NoEntry if it fails *)
create(s, path, trunc) ==
  LET norm == Norm(s, path)
      i == Resolve(s.tree, norm)
  IN  IF i >= RootDir
      THEN [s |-> IF trunc /\ s.tree[i].kind = "file" THEN [s EXCEPT !.tree[i].data = NoData] ELSE s,
            inode |-> i]
      ELSE IF i = NoEntry /\ ParentStatus(s.tree, norm) = "free"
      THEN [s |-> [s EXCEPT !.tree = Insert(@, Parent(@, norm), Last(norm),
                                            Node("file", NoData, FileMode, 0, 0), FALSE)],
            inode |-> Len(s.tree) + 1]
      ELSE [s |-> s, inode |-> NoEntry]

mkdir(s, path) ==
  LET norm == Norm(s, path)
      status == MkdirStatus(s.tree, norm)
  IN  [status |-> status,
       s |-> IF status # "ok" THEN s
             ELSE [s EXCEPT !.tree = Insert(@, Parent(@, norm), Last(norm),
                                            Node("dir", NoData, DirMode, 0, 0), TRUE)]]

(* The data after pieces are written at offset start *)
Spliced(data, start, pieces) ==
  LET end == start + Len(pieces)
  IN  [k \in 1 .. (IF end > Len(data) THEN end ELSE Len(data)) |->
         IF k > start /\ k <= end THEN pieces[k - start]
         ELSE IF k <= Len(data) THEN data[k] ELSE "zero"]

(* write; the console, a directory and a pipe without a reader keep nothing *)
write(s, fd, pieces) ==
  LET file == s.fds[fd]
      node == s.tree[file.inode]
      start == IF file.append THEN Len(node.data) ELSE file.offset
  IN  CASE node.kind = "file" ->
             [s EXCEPT !.tree[file.inode].data = Spliced(node.data, start, pieces),
                       !.fds[fd].offset = start + Len(pieces)]
        [] node.kind = "write end" /\ InUse(s, file.inode - 1) ->
             [s EXCEPT !.tree[file.inode - 1].data = @ \o pieces]
        [] OTHER -> s

(* What puts, printf and print_error write goes to descriptor 1 *)
Say(s) == write(s, 1, <<Message>>)

-----------------------------------------------------------------------------
(* Paths *)

get_basename(path) == IF path.parts = <<>> THEN <<>> ELSE <<Last(path.parts)>>

(* Its length as a string, names of one character *)
Length(path) == (IF path.abs THEN 1 ELSE 0)
                + (IF path.parts = <<>> THEN 0 ELSE 2 * Len(path.parts) - 1)

TooLong(dir, base) == Length(Path(dir.abs, dir.parts \o base)) >= MaxPath

(* The empty string if the buffer is too small; sys_open and the others    *)
(* take that for the working directory.                                    *)
join_path(dir, base) ==
  IF TooLong(dir, base) THEN Path(FALSE, <<>>) ELSE Path(dir.abs, dir.parts \o base)

FaultyBatchOf(names, start) ==
  SubSeq(names, (IF start = 0 THEN 1 ELSE start + 2), IF start + Batch < Len(names) THEN start + Batch ELSE Len(names))

(* What one getdents64 of walk_dir returns, start entries into the directory *)
BatchOf(names, start) ==
  SubSeq(names, start + 1, IF start + Batch < Len(names) THEN start + Batch ELSE Len(names))

-----------------------------------------------------------------------------
(* Calls.  opts are the options r and f; each is the call walk_dir makes on *)
(* the entries of directory dir, the first n of which it has read.          *)

NoPath == Path(FALSE, <<>>)

Call(op, path, dest, opts) ==
  [op |-> op, path |-> path, dest |-> dest, opts |-> opts, each |-> "", dir |-> NoEntry, n |-> 0]

Plain(op, n) == [Call(op, NoPath, NoPath, {}) EXCEPT !.n = n]

top == Head(stack)

At(op) == stack # <<>> /\ top.op = op

(* The call on top returns, or others take its place *)
Becomes(calls) == stack' = calls \o Tail(stack)

Return == Becomes(<<>>)

(* The shell never comes back *)
Stop(s, why) == sh' = [s EXCEPT !.at = why] /\ stack' = <<>>

Quietly(s, opts) == IF "f" \in opts THEN s ELSE Say(s)

SameLine == UNCHANGED <<line, was, typed>>

-----------------------------------------------------------------------------
(* rm, cp and mv *)

(* walk_dir under copy_path or remove_path, a getdents64 at a time; the    *)
(* directory may change between two.                                       *)
FaultyWalk ==
  LET names == readdir(sh.tree, top.dir)
      batch == BatchOf(names, top.n)
      entry(name) == Call(top.each, join_path(top.path, <<name>>), join_path(top.dest, <<name>>), top.opts)
      more == [k \in DOMAIN batch |-> entry(batch[k])]
      long == \E k \in DOMAIN batch : TooLong(top.path, <<batch[k]>>) \/ TooLong(top.dest, <<batch[k]>>)
  IN  /\ At("walk")
      /\ IF batch = <<>> THEN Return /\ ret' = TRUE /\ UNCHANGED sh
         ELSE /\ Becomes(more \o <<top>>)
              /\ sh' = [sh EXCEPT !.cut = @ \/ long]
              /\ UNCHANGED ret
      /\ SameLine

Walk ==
  LET names == readdir(sh.tree, top.dir)
      batch == BatchOf(names, top.n)
      entry(name) == Call(top.each, join_path(top.path, <<name>>), join_path(top.dest, <<name>>), top.opts)
      more == [k \in DOMAIN batch |-> entry(batch[k])]
      long == \E k \in DOMAIN batch : TooLong(top.path, <<batch[k]>>) \/ TooLong(top.dest, <<batch[k]>>)
  IN  /\ At("walk")
      /\ IF batch = <<>> THEN Return /\ ret' = TRUE /\ UNCHANGED sh
         ELSE /\ Becomes(more \o <<[top EXCEPT !.n = @ + Len(batch)]>>)
              /\ sh' = [sh EXCEPT !.cut = @ \/ long]
              /\ UNCHANGED ret
      /\ SameLine

Walking(call) == [call EXCEPT !.op = "walk", !.each = call.op, !.dir = Find(sh, call.path)]

(* One more call of copy_path or remove_path than the user stack holds *)
TooDeep == Cardinality({k \in DOMAIN stack : stack[k].op = "walk"}) >= MaxDepth

Overflow ==
  /\ At("remove") \/ At("copy")
  /\ TooDeep
  /\ Stop(sh, "overflow")
  /\ UNCHANGED ret /\ SameLine

(* remove_path: first what is inside, then the name itself *)
RemovePath ==
  /\ At("remove") /\ ~TooDeep
  /\ Becomes((IF "r" \in top.opts /\ DirAt(sh, top.path) THEN <<Walking(top)>> ELSE <<>>)
               \o <<[top EXCEPT !.op = "unlink"]>>)
  /\ UNCHANGED <<sh, ret>> /\ SameLine

(* unlink takes a directory too, whatever the walk has left in it *)
Unlink ==
  LET norm == Norm(sh, top.path)
  IN  /\ At("unlink")
      /\ sh' = IF UnlinkStatus(sh.tree, norm) = "ok"
               THEN [sh EXCEPT !.tree = unlink(@, Parent(@, norm), Last(norm))]
               ELSE Quietly(sh, top.opts)
      /\ Return
      /\ UNCHANGED ret /\ SameLine

FaultyCopied(s, i, out) ==
  IF s.tree[out].kind = "file" THEN [s EXCEPT !.tree[i].data = s.tree[out].data] ELSE s

(* The loop of copy_file; no write is checked, and what it opens to write  *)
(* to is already truncated, even if it is the source.                      *)
Copied(s, i, out) ==
  IF s.tree[out].kind = "file" THEN [s EXCEPT !.tree[out].data = s.tree[i].data] ELSE s

(* copy_path of anything but a directory with -r *)
CopyFile ==
  LET i == Find(sh, top.path)
      out == create(sh, top.dest, TRUE)
  IN  /\ At("copy") /\ ~TooDeep
      /\ ~(DirAt(sh, top.path) /\ "r" \in top.opts)
      /\ Return
      /\ \/ /\ i < RootDir
            /\ sh' = Quietly(sh, top.opts) /\ ret' = FALSE
         \/ /\ i >= RootDir /\ IsDir(sh.tree, i)
            /\ sh' = Say(sh) /\ ret' = FALSE
         \/ /\ i >= RootDir /\ ~IsDir(sh.tree, i) /\ out.inode = NoEntry
            /\ sh' = Quietly(sh, top.opts) /\ ret' = FALSE
         \/ /\ i >= RootDir /\ ~IsDir(sh.tree, i) /\ out.inode # NoEntry
            /\ sh' = Copied(out.s, i, out.inode) /\ ret' = TRUE
      /\ SameLine

(* A directory counts as copied whatever becomes of mkdir and the entries *)
CopyDir ==
  /\ At("copy") /\ ~TooDeep
  /\ DirAt(sh, top.path) /\ "r" \in top.opts
  /\ sh' = mkdir(sh, top.dest).s
  /\ Becomes(<<Walking(top)>>)
  /\ UNCHANGED ret /\ SameLine

(* move_path falls back to copy and remove on any error of rename *)
MovePath ==
  LET old == Norm(sh, top.path)
      new == Norm(sh, top.dest)
      status == RenameStatus(sh.tree, old, new)
  IN  /\ At("move")
      /\ \/ /\ status \in {"ok", "same"}
            /\ Return
            /\ sh' = IF status = "same" THEN sh
                     ELSE [sh EXCEPT !.tree = Move(@, Parent(@, old), Last(old), Parent(@, new), Last(new))]
         \/ /\ status \notin {"ok", "same"}
            /\ Becomes(<<[top EXCEPT !.op = "copy", !.opts = @ \cup {"r"}], [top EXCEPT !.op = "moved"]>>)
            /\ UNCHANGED sh
      /\ UNCHANGED ret /\ SameLine

FaultyMoveCopied ==
  /\ At("moved")
  /\ Becomes(<<[top EXCEPT !.op = "remove", !.opts = {"r", "f"}]>>)
  /\ UNCHANGED <<sh, ret>> /\ SameLine

MoveCopied ==
  /\ At("moved")
  /\ IF ret THEN Becomes(<<[top EXCEPT !.op = "remove", !.opts = {"r", "f"}]>>) /\ UNCHANGED sh
     ELSE Return /\ sh' = Quietly(sh, top.opts)
  /\ UNCHANGED ret /\ SameLine

-----------------------------------------------------------------------------
(* The commands.  The call "command" stands for execute_command *)

words == line.stages[top.n].argv

Cmd(stage) == Last(stage.argv[1].parts)

Runs(cmd) == At("command") /\ Cmd(line.stages[top.n]) = cmd

Options == UNION {words[k].opts : k \in DOMAIN words}

Operands(argv) == SelectSeq(Tail(argv), LAMBDA w : w.opts = {})

SayOnly == sh' = Say(sh) /\ Return

HandleRm ==
  LET ops == Operands(words)
  IN  /\ Runs("rm")
      /\ IF ops = <<>> /\ "f" \notin Options THEN SayOnly
         ELSE Becomes([k \in DOMAIN ops |-> Call("remove", ops[k], NoPath, Options)]) /\ UNCHANGED sh
      /\ UNCHANGED ret /\ SameLine

(* handle_cp and handle_mv: one source to a name, or all into a directory *)
HandleCopies(cmd, op) ==
  LET ops == Operands(words)
      dest == Last(ops)
      into(w) == Call(op, w, join_path(dest, get_basename(w)), Options)
      long == \E k \in 1 .. Len(ops) - 1 : TooLong(dest, get_basename(ops[k]))
  IN  /\ Runs(cmd)
      /\ \/ /\ Len(ops) < 2 \/ (Len(ops) > 2 /\ ~DirAt(sh, dest))
            /\ SayOnly
         \/ /\ Len(ops) >= 2 /\ DirAt(sh, dest)
            /\ Becomes([k \in 1 .. Len(ops) - 1 |-> into(ops[k])])
            /\ sh' = [sh EXCEPT !.cut = @ \/ long]
         \/ /\ Len(ops) = 2 /\ ~DirAt(sh, dest)
            /\ Becomes(<<Call(op, ops[1], dest, Options)>>)
            /\ UNCHANGED sh
      /\ UNCHANGED ret /\ SameLine

(* An option of touch and mkdir holds for the operands after it *)
Given(k, o) == \E j \in 2 .. k : o \in words[j].opts

EachAfter(op, o) ==
  LET ks == SelectSeq([k \in DOMAIN words |-> k], LAMBDA k : k > 1 /\ words[k].opts = {})
  IN  [j \in DOMAIN ks |-> [Call(op, words[ks[j]], NoPath, IF Given(ks[j], o) THEN {o} ELSE {}) EXCEPT !.n = 1]]

HandleNew(cmd, o) ==
  /\ Runs(cmd)
  /\ IF Operands(words) = <<>> THEN SayOnly ELSE Becomes(EachAfter(cmd, o)) /\ UNCHANGED sh
  /\ UNCHANGED ret /\ SameLine

Touch ==
  LET out == create(sh, top.path, TRUE)
  IN  /\ At("touch")
      /\ sh' = IF Find(sh, top.path) >= RootDir \/ "c" \in top.opts THEN sh
               ELSE IF out.inode = NoEntry THEN Say(sh) ELSE out.s
      /\ Return
      /\ UNCHANGED ret /\ SameLine

(* With -p the components are made one by one, up to the first error *)
Mkdir ==
  LET parents == "p" \in top.opts
      made == mkdir(sh, IF parents THEN Path(top.path.abs, SubSeq(top.path.parts, 1, top.n)) ELSE top.path)
      fine == made.status = "ok" \/ (parents /\ made.status = "EEXIST")
  IN  /\ At("mkdir")
      /\ sh' = IF fine THEN made.s ELSE Say(sh)
      /\ IF parents /\ fine /\ top.n < Len(top.path.parts) THEN Becomes(<<[top EXCEPT !.n = @ + 1]>>)
         ELSE Return
      /\ UNCHANGED ret /\ SameLine

(* display_stream copies to descriptor 1 until read returns 0.  The console *)
(* never does; nor does a file that grows by what is written, nor an empty  *)
(* pipe whose write end the shell itself has open.                          *)
display_stream(s, inode) ==
  LET node == s.tree[inode]
      drained == [write(s, 1, node.data) EXCEPT !.tree[inode].data = NoData]
  IN  \/ node.kind = "chr" /\ Stop(s, "console")
      \/ node.kind = "file" /\ node.data # NoData /\ s.fds[1].inode = inode /\ Stop(s, "growing")
      \/ node.kind = "read end" /\ InUse(s, inode + 1) /\ Stop(drained, "pipe")
      \/ node.kind = "read end" /\ ~InUse(s, inode + 1) /\ sh' = drained /\ Return
      \/ /\ node.kind = "dir" \/ (node.kind = "file" /\ (node.data = NoData \/ s.fds[1].inode # inode))
         /\ sh' = write(s, 1, node.data) /\ Return

HandleCat ==
  /\ Runs("cat")
  /\ \/ Len(words) = 1 /\ display_stream(sh, sh.fds[0].inode)
     \/ /\ Len(words) > 1 /\ UNCHANGED sh
        /\ Becomes([k \in DOMAIN Tail(words) |-> Call("display_file", words[k + 1], NoPath, {})])
  /\ UNCHANGED ret /\ SameLine

DisplayFile ==
  /\ At("display_file")
  /\ \/ Find(sh, top.path) < RootDir /\ SayOnly
     \/ Find(sh, top.path) >= RootDir /\ display_stream(sh, Find(sh, top.path))
  /\ UNCHANGED ret /\ SameLine

Texts(argv) == [k \in DOMAIN Tail(argv) |-> Last(argv[k + 1].parts)]

HandleEcho ==
  /\ Runs("echo")
  /\ sh' = write(sh, 1, Texts(words)) /\ Return
  /\ UNCHANGED ret /\ SameLine

(* cd, cd ~, cd - and cd path *)
HandleCd ==
  LET dash == Len(words) > 1 /\ words[2].parts = <<"-">>
      target == IF Len(words) = 1 \/ words[2].parts = <<"~">> THEN Path(TRUE, <<>>)
                ELSE IF dash THEN Path(TRUE, CHOOSE p \in sh.oldpwd : TRUE) ELSE words[2]
      fails == (dash /\ sh.oldpwd = {}) \/ ~DirAt(sh, target)
  IN  /\ Runs("cd")
      /\ sh' = IF fails THEN Say(sh)
               ELSE [(IF dash THEN Say(sh) ELSE sh) EXCEPT !.cwd = Norm(sh, target), !.oldpwd = {sh.cwd}]
      /\ Return
      /\ UNCHANGED ret /\ SameLine

(* run_async_demo: an epoll instance and a pipe with a message in it, both *)
(* ends open while the shell reads it to the end.                          *)
AsyncDemo ==
  LET ep == alloc_fd([sh EXCEPT !.tree = Append(@, Node("epoll", NoData, {}, 0, 0))],
                     OpenFile(Len(sh.tree) + 1, FALSE))
      p == pipe(Say(ep.s))
      ready == Say(write(p.s, p.w, <<Message>>))
  IN  /\ Runs("async-demo")
      /\ display_stream(ready, ready.fds[p.r].inode)
      /\ UNCHANGED ret /\ SameLine

HandleExit ==
  /\ Runs("exit")
  /\ Stop(Say(sh), "exited")
  /\ UNCHANGED ret /\ SameLine

(* help, pwd and the like, and a command that is not found *)
OnlySays ==
  /\ At("command")
  /\ Cmd(line.stages[top.n]) \notin {"rm", "cp", "mv", "touch", "mkdir", "cat", "echo", "cd", "async-demo", "exit"}
  /\ SayOnly
  /\ UNCHANGED ret /\ SameLine

-----------------------------------------------------------------------------
(* Lines *)

(* parse_stage: a redirection has its file attached or takes the next word; *)
(* with none left it only sets the mode.                                    *)
parse_stage(tokens) ==
  LET file(a, r, w) == IF r = "<" THEN [a EXCEPT !.stdin = <<w>>, !.takes = ""]
                       ELSE [a EXCEPT !.stdout = <<w>>, !.takes = ""]
      mode(a, r) == IF r = "<" THEN a ELSE [a EXCEPT !.append = r = ">>"]
      word(a, w) == IF a.takes # "" THEN file(a, a.takes, w)
                    ELSE IF w.redir = "" THEN [a EXCEPT !.argv = Append(@, w)]
                    ELSE IF w.parts # <<>> THEN file(mode(a, w.redir), w.redir, w)
                    ELSE [mode(a, w.redir) EXCEPT !.takes = w.redir]
  IN  FoldLeft(word, [argv |-> <<>>, stdin |-> <<>>, stdout |-> <<>>, append |-> FALSE, takes |-> ""], tokens)

(* What stands between the bars; nothing after the last one is no stage *)
StagesOf(l) ==
  LET all == IF Last(l) = <<>> THEN Front(l) ELSE l
      kept == SubSeq(all, 1, IF Len(all) < MaxStages THEN Len(all) ELSE MaxStages)
  IN  [k \in DOMAIN kept |-> parse_stage(kept[k])]

(* The start of execute_pipeline_line: the pipes, then copies of 0 and 1 *)
Type(l) ==
  LET stages == StagesOf(l)
      n == Len(stages)
      made == FoldLeft(LAMBDA x, k : LET p == pipe(x.s) IN [s |-> p.s, pipes |-> Append(x.pipes, p)],
                       [s |-> [sh EXCEPT !.cut = FALSE], pipes |-> <<>>], SubSeq(stages, 2, n))
      in == dup(made.s, 0)
      out == dup(in.s, 1)
      nothing == n = 0 \/ (n = 1 /\ stages[1].argv = <<>>)
  IN  /\ typed < MaxLines /\ typed' = typed + 1
      /\ stack = <<>> /\ sh.at = "ok"
      /\ sh' = IF nothing THEN made.s ELSE out.s
      /\ stack' = IF nothing THEN <<>> ELSE [k \in 1 .. n |-> Plain("stage", k)] \o <<Plain("end", 0)>>
      /\ line' = [stages |-> stages, pipes |-> made.pipes, in |-> in.fd, out |-> out.fd]
      /\ was' = sh
      /\ UNCHANGED ret

RedirectIn(s, stage) ==
  LET i == Find(s, stage.stdin[1])
  IN  IF stage.stdin = <<>> THEN [s |-> s, ok |-> TRUE]
      ELSE IF i < RootDir THEN [s |-> s, ok |-> FALSE]
      ELSE [s |-> [s EXCEPT !.fds = Put(@, 0, OpenFile(i, FALSE))], ok |-> TRUE]

RedirectOut(s, stage) ==
  LET out == create(s, stage.stdout[1], ~stage.append)
  IN  IF stage.stdout = <<>> THEN [s |-> s, ok |-> TRUE]
      ELSE IF out.inode = NoEntry THEN [s |-> s, ok |-> FALSE]
      ELSE [s |-> [out.s EXCEPT !.fds = Put(@, 1, OpenFile(out.inode, stage.append))], ok |-> TRUE]

CloseEnds(s, pipes) == FoldLeft(LAMBDA x, p : close(close(x, p.r), p.w), s, pipes)

(* A line of one stage: a redirection that fails is reported, and nothing  *)
(* runs.                                                                   *)
SingleStage ==
  LET stage == line.stages[1]
      from == RedirectIn(sh, stage)
      to == IF from.ok THEN RedirectOut(from.s, stage) ELSE from
  IN  /\ At("stage") /\ Len(line.stages) = 1
      /\ IF to.ok THEN sh' = to.s /\ Becomes(<<Plain("command", 1), Plain("restore", 0)>>)
         ELSE sh' = Say(to.s) /\ Becomes(<<Plain("restore", 0)>>)
      /\ UNCHANGED ret /\ SameLine

(* One of several.  The pipes are closed, in the shell itself, before the  *)
(* first command runs; the dup2 of a later stage finds nothing.            *)
PipelineStage ==
  LET n == Len(line.stages)
      k == top.n
      stage == line.stages[k]
      from == IF k > 1 THEN dup2(sh, line.pipes[k - 1].r, 0) ELSE RedirectIn(sh, stage).s
      to == IF k < n THEN dup2(from, line.pipes[k].w, 1) ELSE RedirectOut(from, stage).s
  IN  /\ At("stage") /\ n > 1
      /\ IF stage.argv = <<>> THEN Return /\ UNCHANGED sh
         ELSE /\ sh' = CloseEnds(to, line.pipes)
              /\ Becomes(<<Plain("command", k), Plain("restore", 0)>>)
      /\ UNCHANGED ret /\ SameLine

Restore ==
  /\ At("restore")
  /\ sh' = dup2(dup2(sh, line.in, 0), line.out, 1) /\ Return
  /\ UNCHANGED ret /\ SameLine

FaultyEndLine ==
  /\ At("end")
  /\ sh' = close(sh, line.in) /\ Return
  /\ UNCHANGED ret /\ SameLine

EndLine ==
  /\ At("end")
  /\ sh' = close(close(sh, line.in), line.out) /\ Return
  /\ UNCHANGED ret /\ SameLine

Step ==
  \/ Walk \/ Overflow \/ RemovePath \/ Unlink \/ CopyFile \/ CopyDir \/ MovePath \/ MoveCopied
  \/ HandleRm \/ HandleCopies("cp", "copy") \/ HandleCopies("mv", "move")
  \/ HandleNew("touch", "c") \/ HandleNew("mkdir", "p") \/ Touch \/ Mkdir
  \/ HandleCat \/ DisplayFile \/ HandleEcho \/ HandleCd \/ AsyncDemo \/ HandleExit \/ OnlySays
  \/ SingleStage \/ PipelineStage \/ Restore \/ EndLine

Next == (\E l \in Lines : Type(l)) \/ Step

(* Weak fairness of Step, which is enabled exactly when a call is left:    *)
(* the shell goes on running the line it has been given.                   *)
Fairness == []<>(stack = <<>>) \/ []<><<Step>>_vars

Spec == Init /\ [][Next]_vars /\ Fairness
-----------------------------------------------------------------------------
(* Properties.  Each looks at the end of a line, the shell back at the     *)
(* prompt or lost.                                                         *)

Ended == typed > 0 /\ stack = <<>>

AtPrompt == Ended /\ sh.at = "ok"

Commands == {k \in DOMAIN line.stages : line.stages[k].argv # <<>>}

Says(cmd) == \E k \in Commands : Cmd(line.stages[k]) = cmd

(* The line was this one command, nothing redirected; with its operands *)
Alone(cmd) ==
  /\ Len(line.stages) = 1 /\ Says(cmd)
  /\ line.stages[1].stdin = <<>> /\ line.stages[1].stdout = <<>>

Args == Operands(line.stages[1].argv)

Recursive == \E w \in Range(line.stages[1].argv) : "r" \in w.opts

Subpaths == UNION {[1 .. n -> Names] : n \in 0 .. 3}

(* The paths a stage may change what is at or below *)
Changes(s, stage) ==
  LET ops == Operands(stage.argv)
      dest == Last(ops)
      targets == {Norm(s, join_path(dest, get_basename(ops[k]))) : k \in 1 .. Len(ops) - 1}
                   \cup (IF DirAt(s, dest) THEN {} ELSE {Norm(s, dest)})
      cmd == Cmd(stage)
  IN  {Norm(s, w) : w \in Range(stage.stdout)}
        \cup (IF cmd \in {"cp", "mv"} /\ Len(ops) > 1 THEN targets ELSE {})
        \cup (IF cmd \in {"rm", "mv"} THEN {Norm(s, w) : w \in Range(ops)} ELSE {})

Named == UNION {Changes([was EXCEPT !.cwd = d], line.stages[k]) : k \in Commands, d \in {was.cwd, sh.cwd}}

(* A line touches what it names and nothing else: any other path leads to   *)
(* the same inode as before, and a file there keeps its data.  cp leaves    *)
(* its sources alone, rm what lies beside its operands, and a command that  *)
(* fails or crashes half-way all the rest.  It takes join_path's buffer to  *)
(* be large enough for the paths that come up: when it is not, the          *)
(* recursion goes on with the working directory.                            *)
LineConfined ==
  (Ended /\ ~sh.cut) =>
    \A named \in {Named} : \A q \in Subpaths :
      LET i == Resolve(was.tree, q)
      IN  (i >= RootDir /\ \A n \in named : ~IsPrefix(n, q))
            => Resolve(sh.tree, q) = i /\ sh.tree[i].data = was.tree[i].data

(* The shell comes back to the prompt, except when it is told to exit, from *)
(* async-demo, which reads its own pipe to the end, from a cat that has the *)
(* console for input (as in every later stage of a pipeline, unless no      *)
(* stage before it had a command), from a cat of the file its output goes   *)
(* to, and when the recursion is deeper than the stack, as it is for a      *)
(* directory copied or moved below itself.                                  *)
LineReturns ==
  LET stage(k) == line.stages[k]
      bare(k) == Cmd(stage(k)) = "cat" /\ Len(stage(k).argv) = 1
      onConsole(k) == IF k = 1 THEN stage(1).stdin = <<>> \/ (Len(line.stages) > 1 /\ Find(was, stage(1).stdin[1]) < RootDir)
                      ELSE \E j \in Commands : j < k
      nested(k) == LET ops == Operands(stage(k).argv)
                   IN  /\ Cmd(stage(k)) \in {"cp", "mv"} /\ Len(ops) > 1
                       /\ \E n \in Named, j \in 1 .. Len(ops) - 1 : IsStrictPrefix(Norm(was, ops[j]), n)
      deep == \E q \in [1 .. MaxDepth -> Names] : Resolve(was.tree, q) >= RootDir
  IN  Ended => CASE sh.at = "ok" -> TRUE
                 [] sh.at = "exited" -> Says("exit")
                 [] sh.at = "pipe" -> Says("async-demo")
                 [] sh.at = "console" -> \E k \in Commands : bare(k) /\ onConsole(k)
                 [] sh.at = "growing" -> Says("cat") /\ Last(line.stages).stdout # <<>>
                 [] sh.at = "overflow" -> sh.cut \/ deep \/ \E k \in Commands : nested(k)

(* The descriptors a line leaves open are the ones it found open, and 0, 1  *)
(* and 2 are the console again, whatever redirections failed and however    *)
(* often execute_pipeline_line closes the same number.  The one exception   *)
(* is a pipeline without any command: its pipes stay open.  And the shell   *)
(* is back at its prompt but for the cases of LineReturns.                  *)
TableRestored ==
  LineReturns /\
  (AtPrompt => /\ \A fd \in DOMAIN was.fds : fd \in DOMAIN sh.fds /\ sh.fds[fd] = was.fds[fd]
               /\ sh.fds = was.fds \/ (Len(line.stages) > 1 /\ Commands = {}))

(* Where cp and mv put their first operand *)
Destination == IF DirAt(was, Args[2]) THEN Norm(was, join_path(Args[2], get_basename(Args[1])))
               ELSE Norm(was, Args[2])

(* cp to a name that is free, of a file or with -r of a directory the       *)
(* target is not inside, makes an equal tree there: the same names, kinds   *)
(* and data at every level, over any number of getdents64 batches.          *)
CopyExact ==
  (/\ AtPrompt /\ ~sh.cut /\ Alone("cp") /\ Len(Args) = 2
   /\ Find(was, Args[1]) >= RootDir /\ (DirAt(was, Args[1]) => Recursive)) =>
    \A from \in {Norm(was, Args[1])}, to \in {Destination} :
      (ParentStatus(was.tree, to) = "free" /\ ~IsPrefix(from, to)) =>
        \A q \in Subpaths :
          LET i == Resolve(was.tree, from \o q)
              j == Resolve(sh.tree, to \o q)
          IN  IF i < RootDir THEN j < RootDir
              ELSE j >= RootDir /\ sh.tree[j].kind = was.tree[i].kind /\ sh.tree[j].data = was.tree[i].data

(* After rm -r none of its operands is there, though the walk may pass over *)
(* entries because the directory shrinks under it.                          *)
RemovesNamed ==
  (AtPrompt /\ ~sh.cut /\ Alone("rm") /\ Recursive) =>
    \A w \in Range(Args) : Norm(was, w) # <<>> => Find(sh, w) < RootDir

(* echo with its output redirected leaves in the file exactly its words,    *)
(* after what was there if the last mode given was >>, and makes the file   *)
(* if need be.                                                              *)
RedirectionExact ==
  LET stage == line.stages[1]
      norm == Norm(was, stage.stdout[1])
      i == Resolve(was.tree, norm)
      old == IF i >= RootDir /\ stage.append THEN was.tree[i].data ELSE NoData
      j == Resolve(sh.tree, norm)
  IN  (/\ AtPrompt /\ Len(line.stages) = 1 /\ Says("echo") /\ stage.stdin = <<>> /\ stage.stdout # <<>>
       /\ IF i >= RootDir THEN ~IsDir(was.tree, i) ELSE ParentStatus(was.tree, norm) = "free")
      => j >= RootDir /\ sh.tree[j].data = old \o Texts(stage.argv)

(* A line does what it says: cp makes an equal tree at a free name, rm -r    *)
(* leaves none of its operands, and a redirection puts the words of echo    *)
(* into its file, over or after what was there.                             *)
LineExact == CopyExact /\ RemovesNamed /\ RedirectionExact

(* A file that was at or below the source of mv is, with the same data, at  *)
(* the target or still where it was, though mv falls back on copying and    *)
(* removing when rename fails.  move_path takes copy_path's word for it,    *)
(* which is 0 for any directory and for a file written to a directory: so   *)
(* this holds only where no name on the way below the target is of another  *)
(* kind than in the source, and for a directory if the target can be made.  *)
MoveKeepsData ==
  (AtPrompt /\ ~sh.cut /\ Alone("mv") /\ Len(Args) = 2) =>
    \A from \in {Norm(was, Args[1])}, to \in {Destination} : \A q \in Subpaths :
      LET i == Resolve(was.tree, from \o q)
          kept(p) == Resolve(sh.tree, p) >= RootDir /\ sh.tree[Resolve(sh.tree, p)].data = was.tree[i].data
          kinds(k) == {was.tree[j].kind : j \in {Resolve(was.tree, d \o SubSeq(q, 1, k)) : d \in {from, to}} \ {NoEntry, NotADirectory}}
          fits == /\ \A k \in 0 .. Len(q) : Cardinality(kinds(k)) = 1
                  /\ DirAt(was, Args[1]) => ParentStatus(was.tree, to) \in {"there", "free"}
      IN  (i >= RootDir /\ was.tree[i].kind = "file" /\ was.tree[i].data # NoData /\ fits)
            => kept(from \o q) \/ kept(to \o q)

(* A line ends: the walks of cp, mv and rm come to an end though they       *)
(* change the directories they read, in the tree or in the end of the       *)
(* stack.                                                                   *)
LineEnds == stack # <<>> ~> stack = <<>>
=============================================================================
