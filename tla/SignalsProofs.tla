---------------------------- MODULE SignalsProofs ----------------------------
(***************************************************************************)
(* Signals, for every set of processes, signals, handlers and masks.       *)
(*                                                                         *)
(* First: SIGKILL and SIGSTOP cannot be blocked or caught, and a process   *)
(* that is gone leaves nothing in the SignalManager's maps.  Both follow   *)
(* from Sound, a predicate on what the system holds of one process, which  *)
(* every operation of the SignalManager and every delivery preserves.      *)
(*                                                                         *)
(* Then: handlers exclude each other as their masks say, sigreturn goes    *)
(* back to what was interrupted, and no signal is lost.  These follow from *)
(* Stacked, which ties the frames on the user's stack to the history of    *)
(* what they interrupted and says, level by level, what is shut out.       *)
(***************************************************************************)
EXTENDS Signals, NaturalsInduction, SequenceTheorems, WellFoundedInduction, TLAPS

(* Most steps are about sets and records; those that count name the other *)
(* prover.                                                                 *)
USE Zenon

(* s has the fields of a process and no others *)
Fields == {"life", "pending", "blocked", "actions", "ctx", "frames", "hist", "killed_by"}

Shape(s) == s = [f \in Fields |-> s[f]]

(* The last conjunct of Sound is NothingLeftBehind, the two before it are Uncatchable *)
Sound(s) ==
  /\ Shape(s)
  /\ s.actions = [sig \in Sigs |-> s.actions[sig]]
  /\ s.blocked \intersect Unblockable = {}
  /\ \A sig \in Sigs \intersect Unblockable : s.actions[sig] = Default
  /\ s.life = "none" => s = Fresh("none")

SoundInv == st = [p \in Procs |-> st[p]] /\ \A p \in Procs : Sound(st[p])

(* Two processes in the table that agree on the mask and the actions *)
LEMMA SoundSame ==
  ASSUME NEW s, Sound(s), NEW t, Shape(t), t.life # "none",
         t.blocked = s.blocked, t.actions = s.actions
  PROVE  Sound(t)
  BY DEF Sound

(* A process that has just been set up, or is not there *)
LEMMA FreshSound == \A life : Sound(Fresh(life)) /\ Fresh(life).life = life
  BY DEF Sound, Shape, Fields, Fresh, NoActions, Unblockable

(* try_wake on a process changes its state from asleep to ready only *)
LEMMA WokenSound ==
  ASSUME NEW s, Sound(s)
  PROVE  Sound(Woken(s)) /\ (s.life # "none" => Woken(s).life # "none")
         /\ (s.life = "user" => Woken(s).life = "user")
  <1>1. CASE s.life = "asleep"
    <2>1. Woken(s) = [s EXCEPT !.life = "woken"]
      BY <1>1 DEF Woken
    <2>2. Shape(Woken(s)) /\ Woken(s).life = "woken" /\ Woken(s).blocked = s.blocked
          /\ Woken(s).actions = s.actions
      BY <2>1 DEF Sound, Shape, Fields
    <2> QED BY <2>2, <1>1, SoundSame
  <1>2. CASE s.life # "asleep"
    <2>1. Woken(s) = s
      BY <1>2 DEF Woken, Sound, Shape, Fields
    <2> QED BY <2>1
  <1> QED BY <1>1, <1>2

(* send_signal to a process in the table *)
LEMMA SendSound ==
  ASSUME NEW s, Sound(s), s.life # "none", NEW sig
  PROVE  Sound(send_signal(s, sig)) /\ send_signal(s, sig).life # "none"
         /\ (s.life = "user" => send_signal(s, sig).life = "user")
  <1> DEFINE t == [s EXCEPT !.pending = @ \union {sig}]
  <1>1. Shape(t) /\ t.life = s.life /\ t.blocked = s.blocked /\ t.actions = s.actions
    BY DEF Sound, Shape, Fields
  <1>2. Sound(t)
    BY <1>1, SoundSame
  <1>3. send_signal(s, sig) = Woken(t)
    BY DEF send_signal
  <1> HIDE DEF t
  <1> QED BY <1>1, <1>2, <1>3, WokenSound

(* set_procmask takes SIGKILL and SIGSTOP out of whatever it is given *)
LEMMA ProcmaskSound ==
  ASSUME NEW s, Sound(s), s.life # "none", NEW set,
         NEW how \in {"block", "unblock", "setmask"}
  PROVE  /\ Sound(set_procmask(s, how, set))
         /\ set_procmask(s, how, set) = [s EXCEPT !.blocked = set_procmask(s, how, set).blocked]
  <1> DEFINE effective == set \ Unblockable
             b == CASE how = "block"   -> s.blocked \union effective
                    [] how = "unblock" -> s.blocked \ effective
                    [] how = "setmask" -> effective
  <1>1. b \intersect Unblockable = {}
    <2>1. s.blocked \intersect Unblockable = {}
      BY DEF Sound
    <2>2. CASE how = "block"
      BY <2>1, <2>2
    <2>3. CASE how = "unblock"
      BY <2>1, <2>3
    <2>4. CASE how = "setmask"
      BY <2>4
    <2> QED BY <2>2, <2>3, <2>4
  <1>2. set_procmask(s, how, set) = [s EXCEPT !.blocked = b]
    BY DEF set_procmask
  <1> HIDE DEF b
  <1>3. /\ Shape([s EXCEPT !.blocked = b]) /\ [s EXCEPT !.blocked = b].life = s.life
        /\ [s EXCEPT !.blocked = b].blocked = b /\ [s EXCEPT !.blocked = b].actions = s.actions
    BY DEF Sound, Shape, Fields
  <1>4. Sound([s EXCEPT !.blocked = b])
    BY <1>1, <1>3 DEF Sound
  <1> QED BY <1>2, <1>3, <1>4

(* set_action refuses SIGKILL and SIGSTOP *)
LEMMA ActionSound ==
  ASSUME NEW s, Sound(s), s.life # "none", NEW sig, NEW act
  PROVE  /\ Sound(set_action(s, sig, act))
         /\ set_action(s, sig, act) = [s EXCEPT !.actions = set_action(s, sig, act).actions]
  <1>1. CASE sig \in Unblockable
    <2>1. set_action(s, sig, act) = s
      BY <1>1 DEF set_action
    <2>2. s = [s EXCEPT !.actions = s.actions]
      BY DEF Sound, Shape, Fields
    <2> QED BY <2>1, <2>2
  <1>2. CASE sig \notin Unblockable
    <2> DEFINE a == [s.actions EXCEPT ![sig] = act]
               t == [s EXCEPT !.actions = a]
    <2>1. set_action(s, sig, act) = t
      BY <1>2 DEF set_action
    <2>2. a = [i \in Sigs |-> a[i]] /\ \A i \in Sigs \intersect Unblockable : a[i] = Default
      BY <1>2 DEF Sound
    <2> HIDE DEF a
    <2>3. Shape(t) /\ t.life = s.life /\ t.blocked = s.blocked /\ t.actions = a
      BY DEF Sound, Shape, Fields
    <2> HIDE DEF t
    <2>4. Sound(t)
      BY <2>2, <2>3 DEF Sound
    <2> QED BY <2>1, <2>3, <2>4 DEF t
  <1> QED BY <1>1, <1>2

(* cleanup_process forgets the mask, the actions and what is pending *)
LEMMA CleanupSound ==
  ASSUME NEW s, Sound(s), s.life # "none"
  PROVE  Sound(cleanup_process(s)) /\ cleanup_process(s).life = s.life
         /\ cleanup_process(s) = [s EXCEPT !.pending = {}, !.blocked = {}, !.actions = NoActions]
  <1> DEFINE t == cleanup_process(s)
  <1>1. Shape(t) /\ t.life = s.life /\ t.blocked = {} /\ t.actions = NoActions
    BY DEF Sound, Shape, Fields, cleanup_process
  <1>2. NoActions = [sig \in Sigs |-> NoActions[sig]] /\ \A sig \in Sigs : NoActions[sig] = Default
    BY DEF NoActions
  <1> HIDE DEF t
  <1>3. Sound(t)
    BY <1>1, <1>2 DEF Sound
  <1> QED BY <1>1, <1>3 DEF t, cleanup_process

(* A process that is reaped is as one that never was *)
LEMMA ReapedIs ==
  ASSUME NEW s, Sound(s), s.life # "none"
  PROVE  Reaped(s) = Fresh("none")
  <1>1. Sound(cleanup_process(s)) /\ cleanup_process(s)
          = [s EXCEPT !.pending = {}, !.blocked = {}, !.actions = NoActions]
    BY CleanupSound
  <1> DEFINE r == Reaped(s)
  <1>2. /\ Shape(r) /\ r.life = "none" /\ r.pending = {} /\ r.blocked = {}
        /\ r.actions = NoActions /\ r.ctx = Context(0, "ok") /\ r.frames = <<>>
        /\ r.hist = <<>> /\ r.killed_by = 0
    BY <1>1 DEF Reaped, Sound, Shape, Fields
  <1> HIDE DEF r
  <1>3. r = Fresh("none")
    BY <1>2 DEF Shape, Fields, Fresh
  <1> QED BY <1>3 DEF r

(* The scan changes what is pending and nothing else *)
LEMMA ScanSound ==
  ASSUME NEW s, Sound(s), s.life # "none"
  PROVE  LET t == next_unblocked_signal(s).s
         IN  Sound(t) /\ t = [s EXCEPT !.pending = t.pending]
  <1> DEFINE t == next_unblocked_signal(s).s
  <1>1. PICK pending : t = [s EXCEPT !.pending = pending]
    BY DEF next_unblocked_signal
  <1> HIDE DEF t
  <1>2. Shape(t) /\ t.life = s.life /\ t.blocked = s.blocked /\ t.actions = s.actions
        /\ t.pending = pending
    BY <1>1 DEF Sound, Shape, Fields
  <1>3. Sound(t)
    BY <1>2, SoundSame
  <1> QED BY <1>1, <1>2, <1>3 DEF t

(* Entering a handler: a frame, the mask of the handler, perhaps the default action again *)
LEMMA EnterSound ==
  ASSUME NEW s, Sound(s), s.life # "none", NEW sig
  PROVE  Sound(EnterHandler(s, sig)) /\ EnterHandler(s, sig).life = s.life
  <1> DEFINE act == s.actions[sig]
             framed == [s EXCEPT !.frames = Append(@, SignalFrame(s, sig)),
                                 !.ctx.pc = sig, !.ctx.regs = "arguments"]
             set == s.blocked \union act.mask \union (IF "nodefer" \in act.flags THEN {} ELSE {sig})
             masked == set_procmask(framed, "setmask", set)
  <1>1. Shape(framed) /\ framed.life = s.life /\ framed.blocked = s.blocked
        /\ framed.actions = s.actions
    BY DEF Sound, Shape, Fields
  <1>2. EnterHandler(s, sig) = IF "resethand" \in act.flags THEN set_action(masked, sig, Default)
                               ELSE masked
    BY DEF EnterHandler, update_signal_mask_and_disposition
  <1> HIDE DEF framed, set
  <1>3. Sound(framed)
    BY <1>1, SoundSame
  <1>4. Sound(masked) /\ masked = [framed EXCEPT !.blocked = masked.blocked]
    BY <1>1, <1>3, ProcmaskSound
  <1>5. masked.life = s.life
    BY <1>1, <1>4 DEF Shape, Fields
  <1> HIDE DEF masked
  <1>6. Sound(set_action(masked, sig, Default))
        /\ set_action(masked, sig, Default)
             = [masked EXCEPT !.actions = set_action(masked, sig, Default).actions]
    BY SMT, <1>4, <1>5, ActionSound
  <1>7. set_action(masked, sig, Default).life = s.life
    BY <1>4, <1>5, <1>6 DEF Sound, Shape, Fields
  <1> QED BY <1>2, <1>4, <1>5, <1>6, <1>7

(* Dying of a signal *)
LEMMA ExitSignalSound ==
  ASSUME NEW s, Sound(s), s.life # "none", NEW sig
  PROVE  Sound(sys_exit_signal(s, sig)) /\ sys_exit_signal(s, sig).life = "zombie"
  <1> DEFINE t == sys_exit_signal(s, sig)
  <1>1. Shape(t) /\ t.life = "zombie" /\ t.blocked = s.blocked /\ t.actions = s.actions
    BY DEF Sound, Shape, Fields, sys_exit_signal
  <1> HIDE DEF t
  <1>2. Sound(t)
    BY <1>1, SoundSame
  <1> QED BY <1>1, <1>2 DEF t

(* The two deliveries *)
LEMMA DeliverSound ==
  ASSUME NEW s, Sound(s), s.life # "none"
  PROVE  /\ Sound(check_and_deliver_signals(s)) /\ check_and_deliver_signals(s).life # "none"
         /\ Sound(check_and_deliver_signals_irq(s))
         /\ check_and_deliver_signals_irq(s).life # "none"
  <1> DEFINE found == next_unblocked_signal(s)
  <1>1. Sound(found.s) /\ found.s.life # "none"
    <2>1. Sound(found.s) /\ found.s = [s EXCEPT !.pending = found.s.pending]
      BY ScanSound
    <2> QED BY <2>1 DEF Sound, Shape, Fields
  <1> HIDE DEF found
  <1>2. Sound(EnterHandler(found.s, found.sig)) /\ EnterHandler(found.s, found.sig).life # "none"
    BY <1>1, EnterSound
  <1>3. \A sig : /\ Sound(sys_exit_signal(found.s, sig))
                 /\ sys_exit_signal(found.s, sig).life = "zombie"
    BY <1>1, ExitSignalSound
  <1>4. ASSUME NEW sig
        PROVE  /\ Sound(terminate_cpu_bound_task(found.s, sig))
               /\ terminate_cpu_bound_task(found.s, sig).life = "zombie"
    <2> DEFINE z == sys_exit_signal(found.s, sig)
    <2>1. Sound(z) /\ z.life = "zombie"
      BY <1>3
    <2>2. terminate_cpu_bound_task(found.s, sig) = cleanup_process(z)
      BY DEF terminate_cpu_bound_task
    <2> HIDE DEF z
    <2> QED BY <2>1, <2>2, CleanupSound
  <1>5. check_and_deliver_signals(s) \in
          {found.s, EnterHandler(found.s, found.sig)}
            \union {sys_exit_signal(found.s, sig) : sig \in {found.sig, SIGSEGV}}
    BY DEF check_and_deliver_signals, deliver_signal_to_user, found
  <1>6. check_and_deliver_signals_irq(s) \in
          {found.s, EnterHandler(found.s, found.sig)}
            \union {terminate_cpu_bound_task(found.s, sig) : sig \in {found.sig, SIGSEGV}}
    BY DEF check_and_deliver_signals_irq, found
  <1> QED BY <1>1, <1>2, <1>3, <1>4, <1>5, <1>6

(* The record of what a new frame interrupted *)
LEMMA RecordedSound ==
  ASSUME NEW s, NEW t, Sound(t), t.life # "none", NEW irq
  PROVE  Sound(Recorded(s, t, irq)) /\ Recorded(s, t, irq).life # "none"
  <1> DEFINE r == Recorded(s, t, irq)
  <1>1. PICK h : r = t \/ r = [t EXCEPT !.hist = h]
    BY DEF Recorded
  <1> HIDE DEF r
  <1>2. Shape(r) /\ r.life = t.life /\ r.blocked = t.blocked /\ r.actions = t.actions
    BY <1>1 DEF Sound, Shape, Fields
  <1>3. Sound(r)
    BY <1>2, SoundSame
  <1> QED BY <1>2, <1>3 DEF r

(* The return path of a system call *)
LEMMA ReturnSound ==
  ASSUME NEW s, Sound(s), s.life # "none", NEW rax
  PROVE  Sound(Return(s, rax)) /\ Return(s, rax).life # "none"
  <1> DEFINE a == [s EXCEPT !.ctx.rax = rax]
             b == check_and_deliver_signals(a)
             c == [b EXCEPT !.ctx.rcx = "rip"]
  <1>1. Shape(a) /\ a.life = s.life /\ a.blocked = s.blocked /\ a.actions = s.actions
    BY DEF Sound, Shape, Fields
  <1>2. Return(s, rax) = Recorded(a, c, FALSE)
    BY DEF Return, dispatch_syscall
  <1> HIDE DEF a
  <1>3. Sound(a)
    BY <1>1, SoundSame
  <1>4. Sound(b) /\ b.life # "none"
    BY <1>1, <1>3, DeliverSound
  <1> HIDE DEF b
  <1>5. Shape(c) /\ c.life = b.life /\ c.blocked = b.blocked /\ c.actions = b.actions
    BY <1>4 DEF Sound, Shape, Fields
  <1> HIDE DEF c
  <1>6. Sound(c)
    BY <1>4, <1>5, SoundSame
  <1> QED BY <1>2, <1>4, <1>5, <1>6, RecordedSound

(* A step that commits a sound process over sound others *)
LEMMA CommitSound ==
  ASSUME NEW base, NEW p \in Procs, NEW t, Sound(t), \A q \in Procs : Sound(base[q]),
         Commit(base, p, t)
  PROVE  SoundInv'
  <1>1. st' = [q \in Procs |-> IF q = p THEN t
                               ELSE IF t.life = "zombie" /\ q = parent[p] THEN Woken(base[q])
                               ELSE base[q]]
    BY DEF Commit
  <1>2. \A q \in Procs : Sound(Woken(base[q]))
    BY WokenSound
  <1>3. \A q \in Procs : Sound(st'[q])
    BY <1>1, <1>2
  <1> QED BY <1>1, <1>3 DEF SoundInv, Sound, Shape

(* A step that replaces one process by a sound one *)
LEMMA ReplaceSound ==
  ASSUME SoundInv, NEW p \in Procs, NEW t, Sound(t)
  PROVE  \A q \in Procs : Sound([st EXCEPT ![p] = t][q])
  BY DEF SoundInv

LEMMA InitSound == Init => SoundInv
  BY FreshSound DEF Init, SoundInv

LEMMA NextSound ==
  ASSUME SoundInv, [Next]_vars
  PROVE  SoundInv'
  <1>0. st = [q \in Procs |-> st[q]] /\ \A q \in Procs : Sound(st[q])
    BY DEF SoundInv
  <1>1. ASSUME NEW p \in Procs, NEW q \in Procs, NEW sig \in Sigs, Kill(p, q, sig)
        PROVE  SoundInv'
    <2> DEFINE base == [st EXCEPT ![q] = send_signal(@, sig)]
    <2>1. st[p].life # "none" /\ st[q].life # "none"
      BY <1>1 DEF Kill, InTable
    <2>2. Sound(send_signal(st[q], sig)) /\ send_signal(st[q], sig).life # "none"
      BY <1>0, <2>1, SendSound
    <2>3. \A r \in Procs : Sound(base[r])
      BY <2>2, ReplaceSound
    <2>4. base[p].life # "none"
      BY <1>0, <2>1, <2>2
    <2>5. Sound(Return(base[p], "ok"))
      BY <2>3, <2>4, ReturnSound
    <2>6. Commit(base, p, Return(base[p], "ok"))
      BY <1>1 DEF Kill
    <2> HIDE DEF base
    <2> QED BY <2>3, <2>5, <2>6, CommitSound
  <1>2. ASSUME NEW p \in Procs, NEW sig \in Sigs, NEW act \in Handlers, Sigaction(p, sig, act)
        PROVE  SoundInv'
    <2> DEFINE s == set_action(st[p], sig, act)
    <2>1. st[p].life # "none" /\ Commit(st, p, Return(s, "ok"))
      BY <1>2 DEF Sigaction
    <2>2. Sound(s) /\ s = [st[p] EXCEPT !.actions = s.actions]
      BY <1>0, <2>1, ActionSound
    <2> HIDE DEF s
    <2>3. s.life # "none"
      BY <1>0, <2>1, <2>2 DEF Sound, Shape, Fields
    <2>4. Sound(Return(s, "ok"))
      BY <2>2, <2>3, ReturnSound
    <2> QED BY <1>0, <2>1, <2>4, CommitSound
  <1>3. ASSUME NEW p \in Procs, NEW how \in {"block", "unblock", "setmask"}, NEW set \in Masks,
               Sigprocmask(p, how, set)
        PROVE  SoundInv'
    <2> DEFINE s == set_procmask(st[p], how, set)
               t == IF s.hist = <<>> THEN s
                    ELSE [s EXCEPT !.hist[Len(s.hist)].opened = @ \union (st[p].blocked \ s.blocked)]
    <2>1. st[p].life # "none" /\ Commit(st, p, Return(t, "ok"))
      BY <1>3 DEF Sigprocmask
    <2>2. Sound(s) /\ s = [st[p] EXCEPT !.blocked = s.blocked]
      BY SMT, <1>0, <2>1, ProcmaskSound
    <2> HIDE DEF s
    <2>3. s.life # "none"
      BY <1>0, <2>1, <2>2 DEF Sound, Shape, Fields
    <2>4. Shape(t) /\ t.life = s.life /\ t.blocked = s.blocked /\ t.actions = s.actions
      BY <2>2 DEF Sound, Shape, Fields
    <2> HIDE DEF t
    <2>5. Sound(t) /\ t.life # "none"
      BY <2>2, <2>3, <2>4, SoundSame
    <2>6. Sound(Return(t, "ok"))
      BY <2>5, ReturnSound
    <2> QED BY <1>0, <2>1, <2>6, CommitSound
  <1>4. ASSUME NEW p \in Procs, NEW q \in Procs, Fork(p, q)
        PROVE  SoundInv'
    <2> DEFINE m == set_procmask(st[q], "setmask", st[p].blocked)
               ctx == [st[p].ctx EXCEPT !.rax = "child", !.rcx = "rip"]
               child == [m EXCEPT !.life = "user", !.actions = st[p].actions,
                                  !.frames = st[p].frames, !.hist = st[p].hist, !.ctx = ctx]
    <2>1. st[p].life # "none" /\ Commit([st EXCEPT ![q] = child], p, Return(st[p], "ok"))
      BY <1>4 DEF Fork
    <2>2. Shape(m) /\ m.blocked = st[p].blocked \ Unblockable
      BY <1>0 DEF set_procmask, Sound, Shape, Fields
    <2> HIDE DEF m, ctx
    <2>3. /\ Shape(child) /\ child.life = "user" /\ child.actions = st[p].actions
          /\ child.blocked = st[p].blocked \ Unblockable
      BY <2>2 DEF Shape, Fields
    <2> HIDE DEF child
    <2>4. Sound(child)
      BY SMT, <1>0, <2>3 DEF Sound
    <2>5. \A r \in Procs : Sound([st EXCEPT ![q] = child][r])
      BY <2>4, ReplaceSound
    <2>6. Sound(Return(st[p], "ok"))
      BY <1>0, <2>1, ReturnSound
    <2> QED BY <2>1, <2>5, <2>6, CommitSound
  <1>5. ASSUME NEW p \in Procs, Sigreturn(p)
        PROVE  SoundInv'
    <2> DEFINE frame == st[p].frames[Len(st[p].frames)]
               s == set_procmask(st[p], "setmask", frame.old_mask)
               ctx == [pc |-> frame.pc, rax |-> frame.rax, regs |-> frame.regs, rcx |-> "rip"]
               t == [s EXCEPT !.frames = Front(@), !.hist = Front(@), !.ctx = ctx]
    <2>0. st[p].life # "none"
      BY <1>5 DEF Sigreturn
    <2>1. st' = [st EXCEPT ![p] = t]
      BY <1>5 DEF Sigreturn
    <2>2. Sound(s) /\ s = [st[p] EXCEPT !.blocked = s.blocked]
      BY <1>0, <2>0, ProcmaskSound
    <2> HIDE DEF s, frame, ctx
    <2>3. s.life # "none"
      BY <1>0, <2>0, <2>2 DEF Sound, Shape, Fields
    <2>4. Shape(t) /\ t.life = s.life /\ t.blocked = s.blocked /\ t.actions = s.actions
      BY <2>2 DEF Sound, Shape, Fields
    <2> HIDE DEF t
    <2>5. Sound(t)
      BY <2>2, <2>3, <2>4, SoundSame
    <2> QED BY <1>0, <2>1, <2>5 DEF SoundInv
  <1>6. ASSUME NEW p \in Procs, Execve(p)
        PROVE  SoundInv'
    <2> DEFINE t == [st[p] EXCEPT !.frames = <<>>, !.hist = <<>>, !.ctx = Context(0, "ok")]
    <2>1. st[p].life # "none" /\ Commit(st, p, Return(t, "ok"))
      BY <1>6 DEF Execve
    <2>2. Shape(t) /\ t.life = st[p].life /\ t.blocked = st[p].blocked /\ t.actions = st[p].actions
      BY <1>0 DEF Sound, Shape, Fields
    <2> HIDE DEF t
    <2>3. Sound(t) /\ t.life # "none"
      BY <1>0, <2>1, <2>2, SoundSame
    <2>4. Sound(Return(t, "ok"))
      BY <2>3, ReturnSound
    <2> QED BY <1>0, <2>1, <2>4, CommitSound
  <1>7. ASSUME NEW p \in Procs, OtherCall(p)
        PROVE  SoundInv'
    <2>1. st[p].life # "none" /\ Commit(st, p, Return(st[p], "ok"))
      BY <1>7 DEF OtherCall
    <2>2. Sound(Return(st[p], "ok"))
      BY <1>0, <2>1, ReturnSound
    <2> QED BY <1>0, <2>1, <2>2, CommitSound
  <1>8. ASSUME NEW p \in Procs, Exit(p)
        PROVE  SoundInv'
    <2>1. st[p].life # "none" /\ Commit(st, p, sys_exit_signal(st[p], 0))
      BY <1>8 DEF Exit, sys_exit_signal
    <2>2. Sound(sys_exit_signal(st[p], 0))
      BY <1>0, <2>1, ExitSignalSound
    <2> QED BY <1>0, <2>1, <2>2, CommitSound
  <1>9. ASSUME NEW p \in Procs, st[p].life # "none", NEW q \in Procs, Reap(p, q)
        PROVE  SoundInv'
    <2> DEFINE base == [st EXCEPT ![q] = Reaped(@)]
               t == [st[p] EXCEPT !.life = "user"]
    <2>1. st[q].life # "none" /\ Commit(base, p, Return(t, "ok"))
      BY <1>9 DEF Reap
    <2>2. Reaped(st[q]) = Fresh("none")
      BY <1>0, <2>1, ReapedIs
    <2>3. Sound(Reaped(st[q]))
      BY <2>2, FreshSound
    <2>4. \A r \in Procs : Sound(base[r])
      BY <2>3, ReplaceSound
    <2>5. Shape(t) /\ t.life = "user" /\ t.blocked = st[p].blocked /\ t.actions = st[p].actions
      BY <1>0 DEF Sound, Shape, Fields
    <2> HIDE DEF t, base
    <2>6. Sound(t) /\ t.life # "none"
      BY <1>0, <2>5, SoundSame
    <2>7. Sound(Return(t, "ok"))
      BY <2>6, ReturnSound
    <2> QED BY <2>1, <2>4, <2>7, CommitSound
  <1>10. ASSUME NEW p \in Procs, st[p].life # "none", SleepInWait4(p)
         PROVE  SoundInv'
    <2> DEFINE t == [st[p] EXCEPT !.life = "asleep"]
    <2>1. st' = [st EXCEPT ![p] = t]
      BY <1>10 DEF SleepInWait4
    <2>2. Shape(t) /\ t.life = "asleep" /\ t.blocked = st[p].blocked /\ t.actions = st[p].actions
      BY <1>0 DEF Sound, Shape, Fields
    <2> HIDE DEF t
    <2>3. Sound(t)
      BY <1>0, <2>2, SoundSame
    <2> QED BY <1>0, <2>1, <2>3 DEF SoundInv
  <1>11. ASSUME NEW p \in Procs, Wait4(p)
         PROVE  SoundInv'
    BY <1>9, <1>10, <1>11 DEF Wait4, Children
  <1>12. ASSUME NEW p \in Procs, ResumeWait4(p)
         PROVE  SoundInv'
    <2> DEFINE t == [st[p] EXCEPT !.life = "user"]
    <2>1. CASE Commit(st, p, Return(t, "EINTR"))
      <3>1. Shape(t) /\ t.life = "user" /\ t.blocked = st[p].blocked /\ t.actions = st[p].actions
        BY <1>0 DEF Sound, Shape, Fields
      <3> HIDE DEF t
      <3>2. Sound(t) /\ t.life # "none"
        BY <1>0, <3>1, SoundSame
      <3>3. Sound(Return(t, "EINTR"))
        BY <3>2, ReturnSound
      <3> QED BY <1>0, <2>1, <3>3, CommitSound
    <2> HIDE DEF t
    <2>2. st[p].life # "none"
      BY <1>12 DEF ResumeWait4
    <2> QED BY <1>9, <1>10, <1>12, <2>1, <2>2 DEF ResumeWait4, Children, t
  <1>13. ASSUME NEW p \in Procs, Tick(p)
         PROVE  SoundInv'
    <2> DEFINE t == check_and_deliver_signals_irq(st[p])
    <2>1. st[p].life # "none" /\ Commit(st, p, Recorded(st[p], t, TRUE))
      BY <1>13 DEF Tick
    <2>2. Sound(t) /\ t.life # "none"
      BY <1>0, <2>1, DeliverSound
    <2> HIDE DEF t
    <2>3. Sound(Recorded(st[p], t, TRUE))
      BY <2>2, RecordedSound
    <2> QED BY <1>0, <2>1, <2>3, CommitSound
  <1>14. ASSUME NEW p \in Procs, UserCode(p)
         PROVE  SoundInv'
    <2>1. PICK c : st' = [st EXCEPT ![p].ctx = c]
      BY <1>14 DEF UserCode
    <2> DEFINE t == [st[p] EXCEPT !.ctx = c]
    <2>2. st[p].life # "none"
      BY <1>14 DEF UserCode
    <2>3. Shape(t) /\ t.life = st[p].life /\ t.blocked = st[p].blocked /\ t.actions = st[p].actions
      BY <1>0 DEF Sound, Shape, Fields
    <2>4. st' = [st EXCEPT ![p] = t]
      BY <1>0, <2>1
    <2> HIDE DEF t
    <2>5. Sound(t)
      BY <1>0, <2>2, <2>3, SoundSame
    <2> QED BY <1>0, <2>4, <2>5 DEF SoundInv
  <1>15. CASE UNCHANGED vars
    BY <1>0, <1>15 DEF vars, SoundInv
  <1> QED BY <1>1, <1>2, <1>3, <1>4, <1>5, <1>6, <1>7, <1>8, <1>11, <1>12, <1>13, <1>14, <1>15
          DEF Next

(* What the system holds of every process is sound in every reachable      *)
(* state of the signal calls, the deliveries and wait4.                    *)
THEOREM SignalsSound == Spec => []SoundInv
  <1>1. SoundInv /\ [Next]_vars => SoundInv'
    BY NextSound
  <1> QED BY InitSound, <1>1, PTL DEF Spec

(* No sequence of sigaction, sigprocmask, fork, execve, deliveries and     *)
(* sigreturns blocks SIGKILL or SIGSTOP or gives them an action, because   *)
(* set_procmask and set_action are the only ways in.                       *)
THEOREM SignalsUncatchable == Spec => []Uncatchable
  <1>1. SoundInv => Uncatchable
    BY DEF SoundInv, Sound, Uncatchable
  <1> QED BY <1>1, SignalsSound, PTL

(* A pid that is not in the process table has no pending signal, mask or   *)
(* action left for the next process that gets it.                          *)
THEOREM SignalsNothingLeft == Spec => []NothingLeftBehind
  <1>1. SoundInv => NothingLeftBehind
    BY DEF SoundInv, Sound, NothingLeftBehind
  <1> QED BY <1>1, SignalsSound, PTL

-----------------------------------------------------------------------------
(* The user's stack of frames, and the history of what they interrupted. *)

Lives == {"none", "user", "asleep", "woken", "zombie"}

Contexts == [pc : Sigs \union {0}, rax : {"ok", "child", "EINTR", Work},
             regs : {Work, "arguments"}, rcx : {"rip", Work}]

Entries == [sig : Sigs \ Unblockable, ctx : Contexts, mask : SigSet, irq : BOOLEAN,
            opened : SigSet, shut : SigSet]

Frames == [signum : Sigs, old_mask : SigSet, pc : Sigs \union {0},
           rax : {"ok", "child", "EINTR", Work}, regs : {Work, "arguments"}]

(* The frame of a history entry *)
FrameOf(e) == [signum |-> e.sig, old_mask |-> e.mask, pc |-> e.ctx.pc, rax |-> e.ctx.rax,
               regs |-> e.ctx.regs]

(* Level by level up the history h: a handler was entered by a signal that *)
(* the code below left unblocked, and whatever one level shuts out is in   *)
(* the mask of the code at each level above, or was let in on the way.     *)
LetIn(h, sig, i, j) == \E k \in i..j : sig \in h[k].opened

Nested(h) ==
  \A j \in 1..Len(h) :
    /\ h[j].sig \notin h[j].mask /\ h[j].mask \intersect Unblockable = {}
    /\ \A i \in 1..(j - 1) : \A sig \in h[i].shut \ Unblockable :
         sig \in h[j].mask \/ LetIn(h, sig, i, j - 1)

(* The same of the code on top of the stack, whose mask is b *)
Shut(h, b) ==
  \A i \in 1..Len(h) : \A sig \in h[i].shut \ Unblockable : sig \in b \/ LetIn(h, sig, i, Len(h))

Typed(s) ==
  /\ s.life \in Lives /\ s.pending \in SUBSET Sigs /\ s.blocked \in SigSet
  /\ s.actions \in [Sigs -> SigAction] /\ s.ctx \in Contexts
  /\ s.frames \in Seq(Frames) /\ s.hist \in Seq(Entries)

Stacked(s) ==
  /\ Typed(s)
  /\ Len(s.frames) = Len(s.hist) /\ Len(s.frames) <= StackFrames
  /\ \A i \in 1..Len(s.hist) : s.frames[i] = FrameOf(s.hist[i])
  /\ Nested(s.hist)
  /\ s.life # "zombie" => Shut(s.hist, s.blocked)

StackInv == parent \in [Procs -> Procs \union {0}] /\ \A p \in Procs : Stacked(st[p])

-----------------------------------------------------------------------------
(* Pushing the entry of a handler that is entered with mask nb over the mask b *)
LEMMA NestPush ==
  ASSUME NEW h \in Seq(Entries), NEW e \in Entries, NEW b \in SigSet, NEW nb \in SigSet,
         Nested(h), Shut(h, b), e.mask = b, e.sig \notin b, b \intersect Unblockable = {},
         b \subseteq nb, e.shut \ Unblockable \subseteq nb
  PROVE  Nested(Append(h, e)) /\ Shut(Append(h, e), nb)
  <1> DEFINE g == Append(h, e)
             n == Len(h)
  <1>1. n \in Nat /\ g \in Seq(Entries) /\ Len(g) = n + 1 /\ g[n + 1] = e /\ \A i \in 1..n : g[i] = h[i]
    BY SMT
  <1> HIDE DEF g
  <1>2. \A sig : \A i \in 1..n : \A j \in 1..n : LetIn(h, sig, i, j) => LetIn(g, sig, i, j)
    BY SMT, <1>1 DEF LetIn
  <1>3. \A i \in 1..n : \A sig \in g[i].shut \ Unblockable : sig \in b \/ LetIn(g, sig, i, n)
    BY SMT, <1>1, <1>2 DEF Shut
  <1>4. ASSUME NEW j \in 1..(n + 1)
        PROVE  /\ g[j].sig \notin g[j].mask /\ g[j].mask \intersect Unblockable = {}
               /\ \A i \in 1..(j - 1) : \A sig \in g[i].shut \ Unblockable :
                    sig \in g[j].mask \/ LetIn(g, sig, i, j - 1)
    <2>1. CASE j = n + 1
      BY SMT, <1>1, <1>3, <2>1
    <2>2. CASE j # n + 1
      <3>1. j \in 1..n /\ \A i \in 1..(j - 1) : i \in 1..n /\ j - 1 \in 1..n
        BY SMT, <1>1, <2>2
      <3>2. g[j] = h[j] /\ \A i \in 1..(j - 1) : g[i] = h[i]
        BY <1>1, <3>1
      <3> QED BY <1>2, <3>1, <3>2 DEF Nested
    <2> QED BY <2>1, <2>2
  <1>5. Nested(g)
    BY <1>1, <1>4 DEF Nested
  <1>6. ASSUME NEW i \in 1..(n + 1), NEW sig \in g[i].shut \ Unblockable
        PROVE  sig \in nb \/ LetIn(g, sig, i, n + 1)
    <2>1. CASE i = n + 1
      BY <1>1, <2>1
    <2>2. CASE i # n + 1
      <3>1. i \in 1..n
        BY SMT, <1>1, <2>2
      <3>2. LetIn(g, sig, i, n) => LetIn(g, sig, i, n + 1)
        BY SMT, <1>1, <3>1 DEF LetIn
      <3> QED BY <1>3, <3>1, <3>2
    <2> QED BY <2>1, <2>2
  <1>7. Shut(g, nb)
    BY <1>1, <1>6 DEF Shut
  <1> QED BY <1>5, <1>7 DEF g

(* A sequence without its last element *)
LEMMA FrontIs ==
  ASSUME NEW S, NEW h \in Seq(S), h # <<>>
  PROVE  /\ Front(h) \in Seq(S) /\ Len(Front(h)) = Len(h) - 1
         /\ \A i \in 1..(Len(h) - 1) : Front(h)[i] = h[i]
  <1> DEFINE g == Front(h)
             n == Len(h)
  <1>1. n \in Nat /\ n >= 1
    BY SMT, EmptySeq
  <1>2. g = SubSeq(h, 1, n - 1)
    BY DEF Front
  <1>3. \A i \in 1..(n - 1) : h[i] \in S
    BY SMT, <1>1, ElementOfSeq
  <1>4. g \in Seq(S) /\ Len(g) = (IF 1 <= n - 1 THEN n - 1 - 1 + 1 ELSE 0)
        /\ \A i \in 1..(n - 1 - 1 + 1) : g[i] = h[1 + i - 1]
    BY SMT, <1>1, <1>2, <1>3, SubSeqProperties
  <1> HIDE DEF g
  <1>5. Len(g) = n - 1
    <2> HIDE DEF n
    <2>1. Len(g) = IF 1 <= n - 1 THEN n - 1 - 1 + 1 ELSE 0
      BY <1>4
    <2> QED BY SMT, <1>1, <2>1
  <1>6. ASSUME NEW i \in 1..(n - 1)
        PROVE  g[i] = h[i]
    <2>1. i \in 1..(n - 1 - 1 + 1) /\ 1 + i - 1 = i
      BY SMT, <1>1
    <2> QED BY <1>4, <2>1
  <1> QED BY <1>4, <1>5, <1>6 DEF g

(* Returning from the handler on top brings back its entry's mask *)
LEMMA NestPop ==
  ASSUME NEW h \in Seq(Entries), h # <<>>, Nested(h)
  PROVE  /\ Front(h) \in Seq(Entries) /\ Len(Front(h)) = Len(h) - 1
         /\ \A i \in 1..(Len(h) - 1) : Front(h)[i] = h[i]
         /\ Nested(Front(h)) /\ Shut(Front(h), h[Len(h)].mask)
  <1> DEFINE g == Front(h)
             n == Len(h)
  <1>1. n \in Nat /\ n >= 1 /\ g \in Seq(Entries) /\ Len(g) = n - 1 /\ \A i \in 1..(n - 1) : g[i] = h[i]
    BY SMT, FrontIs, EmptySeq
  <1> HIDE DEF g
  <1>2. \A sig : \A i \in 1..(n - 1) : \A j \in 0..(n - 1) : LetIn(h, sig, i, j) => LetIn(g, sig, i, j)
    BY SMT, <1>1 DEF LetIn
  <1>3. Nested(g)
    <2> SUFFICES ASSUME NEW j \in 1..(n - 1)
                 PROVE  /\ g[j].sig \notin g[j].mask /\ g[j].mask \intersect Unblockable = {}
                        /\ \A i \in 1..(j - 1) : \A sig \in g[i].shut \ Unblockable :
                             sig \in g[j].mask \/ LetIn(g, sig, i, j - 1)
      BY <1>1 DEF Nested
    <2>1. j \in 1..n /\ g[j] = h[j] /\ j - 1 \in 0..(n - 1)
          /\ \A i \in 1..(j - 1) : i \in 1..(n - 1) /\ g[i] = h[i]
      BY SMT, <1>1
    <2> QED BY <1>2, <2>1 DEF Nested
  <1>4. Shut(g, h[n].mask)
    <2>1. n \in 1..n /\ n - 1 \in 0..(n - 1)
      BY SMT, <1>1
    <2>2. \A i \in 1..(n - 1) : \A sig \in h[i].shut \ Unblockable :
            sig \in h[n].mask \/ LetIn(h, sig, i, n - 1)
      BY <2>1 DEF Nested
    <2> QED BY <1>1, <1>2, <2>1, <2>2 DEF Shut
  <1> QED BY <1>1, <1>3, <1>4 DEF g

(* sigprocmask on top of the history, with what it unblocks put on record *)
Opened(h, set) == [h EXCEPT ![Len(h)].opened = @ \union set]

LEMMA NestOpen ==
  ASSUME NEW h \in Seq(Entries), h # <<>>, Nested(h), NEW b \in SigSet, NEW nb \in SigSet, Shut(h, b)
  PROVE  /\ Opened(h, b \ nb) \in Seq(Entries) /\ Len(Opened(h, b \ nb)) = Len(h)
         /\ \A i \in 1..Len(h) : FrameOf(Opened(h, b \ nb)[i]) = FrameOf(h[i])
         /\ Nested(Opened(h, b \ nb)) /\ Shut(Opened(h, b \ nb), nb)
  <1> DEFINE n == Len(h)
             e == [h[n] EXCEPT !.opened = @ \union (b \ nb)]
             g == [h EXCEPT ![n] = e]
  <1>0. n \in Nat /\ n >= 1 /\ h \in [1..n -> Entries]
    BY SMT
  <1>1. h[n] \in Entries
    BY SMT, <1>0
  <1>2. e \in Entries /\ e.opened = h[n].opened \union (b \ nb) /\ e.sig = h[n].sig
        /\ e.mask = h[n].mask /\ e.shut = h[n].shut /\ e.ctx = h[n].ctx
    BY <1>1 DEF Entries, SigSet
  <1>3. Opened(h, b \ nb) = g
    BY <1>0 DEF Opened
  <1> HIDE DEF e
  <1>4. g \in Seq(Entries) /\ Len(g) = n /\ g[n] = e /\ \A i \in 1..n : i # n => g[i] = h[i]
    <2>1. n \in 1..n
      BY SMT, <1>0
    <2>2. g \in Seq(Entries) /\ Len(g) = Len(h)
          /\ \A i \in 1..Len(h) : g[i] = IF i = n THEN e ELSE h[i]
      BY SMT, <1>2, <2>1, ExceptSeq
    <2> HIDE DEF g
    <2> QED BY <2>1, <2>2
  <1> HIDE DEF g
  <1>5. \A i \in 1..n : /\ g[i].sig = h[i].sig /\ g[i].mask = h[i].mask /\ g[i].shut = h[i].shut
                        /\ g[i].ctx = h[i].ctx /\ h[i].opened \subseteq g[i].opened
    BY <1>2, <1>4
  <1>6. \A sig : \A i \in 1..n : \A j \in 0..n : LetIn(h, sig, i, j) => LetIn(g, sig, i, j)
    BY SMT, <1>0, <1>5 DEF LetIn
  <1>7. \A sig \in b \ nb : \A i \in 1..n : LetIn(g, sig, i, n)
    <2>1. \A i \in 1..n : n \in i..n
      BY SMT, <1>0
    <2> QED BY <1>2, <1>4, <2>1 DEF LetIn
  <1>8. Nested(g)
    <2> SUFFICES ASSUME NEW j \in 1..n
                 PROVE  /\ g[j].sig \notin g[j].mask /\ g[j].mask \intersect Unblockable = {}
                        /\ \A i \in 1..(j - 1) : \A sig \in g[i].shut \ Unblockable :
                             sig \in g[j].mask \/ LetIn(g, sig, i, j - 1)
      BY <1>4 DEF Nested
    <2>1. j - 1 \in 0..n /\ \A i \in 1..(j - 1) : i \in 1..n
      BY SMT, <1>0
    <2> QED BY <1>5, <1>6, <2>1 DEF Nested
  <1>9. Shut(g, nb)
    <2>1. n \in 0..n
      BY SMT, <1>0
    <2> QED BY <1>4, <1>5, <1>6, <1>7, <2>1 DEF Shut
  <1>10. \A i \in 1..n : FrameOf(g[i]) = FrameOf(h[i])
    BY <1>5 DEF FrameOf
  <1> QED BY <1>3, <1>4, <1>8, <1>9, <1>10

LEMMA NestEmpty == \A b : Nested(<<>>) /\ Shut(<<>>, b)
  BY SMT DEF Nested, Shut

-----------------------------------------------------------------------------
LEMMA LeastIn ==
  ASSUME NEW S \in SUBSET Nat, S # {}
  PROVE  Least(S) \in S
  <1>1. PICK x \in S : \A y \in S : ~ (<<y, x>> \in OpToRel(<, Nat))
    BY NatLessThanWellFounded, WFMin
  <1>2. \A y \in S : ~ (y < x)
    BY <1>1 DEF OpToRel
  <1>3. \A y \in S : x <= y
    BY SMT, <1>2
  <1> QED BY <1>3 DEF Least

(* t is s with other signals pending *)
Alike(s, t) ==
  /\ Shape(t) /\ t.life = s.life /\ t.blocked = s.blocked /\ t.actions = s.actions /\ t.ctx = s.ctx
  /\ t.frames = s.frames /\ t.hist = s.hist

(* The scan returns a signal whose action is neither to ignore nor to stop *)
(* and clears it and ignored ones; when it returns none, what is left and  *)
(* unblocked stops.                                                        *)
LEMMA ScanIs ==
  ASSUME NEW s, Shape(s), Typed(s)
  PROVE  LET t == next_unblocked_signal(s).s
             sig == next_unblocked_signal(s).sig
         IN  /\ Alike(s, t) /\ t.pending \subseteq s.pending
             /\ sig # 0 => /\ sig \in Sigs /\ sig \notin s.blocked
                          /\ ~ Ignored(s, sig)
             /\ \A x \in s.pending \ t.pending : x = sig \/ Ignored(s, x)
             /\ sig = 0 => \A x \in t.pending \ t.blocked : StopsByDefault(s, x)
  <1> DEFINE unblocked == s.pending \ s.blocked
             taken == {i \in unblocked : ~ Ignored(s, i) /\ ~ StopsByDefault(s, i)}
             sig == IF taken = {} THEN 0 ELSE Least(taken)
             dropped == {i \in unblocked : Ignored(s, i) /\ (sig = 0 \/ i < sig)}
             left == s.pending \ (dropped \union {sig})
             t == [s EXCEPT !.pending = left]
  <1>1. next_unblocked_signal(s) = [sig |-> sig, s |-> t]
    BY Zenon DEF next_unblocked_signal
  <1>2. unblocked \subseteq Sigs /\ taken \subseteq unblocked /\ Sigs \subseteq Nat /\ 0 \notin Sigs
    <2>1. Sigs \subseteq Nat /\ 0 \notin Sigs
      BY SMT, SigsAssumption
    <2>2. s.pending \subseteq Sigs
      BY DEF Typed
    <2> QED BY <2>1, <2>2
  <1>3. sig \in taken \/ (sig = 0 /\ taken = {})
    BY <1>2, LeastIn
  <1>4. sig # 0 => sig \in Sigs /\ sig \notin s.blocked /\ ~ Ignored(s, sig)
    BY <1>2, <1>3
  <1>5. left \subseteq s.pending /\ \A x \in s.pending \ left : x = sig \/ Ignored(s, x)
    OBVIOUS
  <1>6. sig = 0 => \A x \in left \ s.blocked : StopsByDefault(s, x)
    BY <1>2, <1>3
  <1> HIDE DEF sig, left
  <1>7. Alike(s, t) /\ t.pending = left
    BY DEF Shape, Fields, Alike
  <1> HIDE DEF t
  <1>8. next_unblocked_signal(s).sig = sig /\ next_unblocked_signal(s).s = t
    BY SMT, <1>1
  <1>9. t.blocked = s.blocked
    BY <1>7 DEF Alike
  <1> QED BY <1>4, <1>5, <1>6, <1>7, <1>8, <1>9

-----------------------------------------------------------------------------
(* The three ways a delivery leaves a process.  No signal is taken: *)
Passed(s, d) ==
  /\ Shape(d) /\ d.life = s.life /\ d.blocked = s.blocked /\ d.actions = s.actions /\ d.ctx \in Contexts
  /\ d.frames = s.frames /\ d.hist = s.hist /\ d.pending \subseteq s.pending
  /\ \A x \in s.pending \ d.pending : Ignored(s, x)
  /\ \A x \in d.pending \ d.blocked : StopsByDefault(s, x)

(* The signals that the handler of sig shuts out *)
ShutOut(s, sig) == s.actions[sig].mask \union (IF "nodefer" \in s.actions[sig].flags THEN {} ELSE {sig})

(* A handler is entered: *)
Entered(s, d, sig) ==
  /\ sig \in Sigs \ Unblockable /\ sig \notin s.blocked /\ Len(s.frames) < StackFrames
  /\ Shape(d) /\ d.life = s.life /\ d.ctx \in Contexts /\ d.ctx.pc = sig
  /\ d.blocked = (s.blocked \union ShutOut(s, sig)) \ Unblockable
  /\ d.actions \in [Sigs -> SigAction] /\ \A x \in Sigs : x # sig => d.actions[x] = s.actions[x]
  /\ d.frames = Append(s.frames, SignalFrame(s, sig)) /\ d.hist = s.hist
  /\ d.pending \subseteq s.pending /\ \A x \in s.pending \ d.pending : x = sig \/ Ignored(s, x)

(* The process dies: *)
Died(s, d) ==
  /\ Shape(d) /\ d.life = "zombie" /\ d.frames = s.frames /\ d.hist = s.hist /\ d.ctx \in Contexts
  /\ d.pending \subseteq s.pending /\ d.blocked \in SigSet /\ d.actions \in [Sigs -> SigAction]

Delivered(s, d) == Passed(s, d) \/ Died(s, d) \/ \E sig \in Sigs : Entered(s, d, sig)

LEMMA DefaultTyped == Default \in SigAction /\ NoActions \in [Sigs -> SigAction]
  BY DEF Default, NoActions, SigAction, SigSet

LEMMA EnterIs ==
  ASSUME NEW s, Sound(s), Typed(s), s.life # "none", NEW t, Alike(s, t), t.pending \subseteq s.pending,
         NEW sig \in Sigs, sig \notin s.blocked, s.actions[sig].handler # "DFL", FrameFits(s),
         \A x \in s.pending \ t.pending : x = sig \/ Ignored(s, x)
  PROVE  Entered(s, EnterHandler(t, sig), sig)
  <1> DEFINE act == s.actions[sig]
             c == [s.ctx EXCEPT !.pc = sig, !.regs = "arguments"]
             framed == [t EXCEPT !.frames = Append(@, SignalFrame(t, sig)),
                                 !.ctx.pc = sig, !.ctx.regs = "arguments"]
             b == (s.blocked \union ShutOut(s, sig)) \ Unblockable
             masked == [framed EXCEPT !.blocked = b]
  <1>1. sig \notin Unblockable
    BY SMT DEF Sound, Default
  <1>2. c \in Contexts /\ c.pc = sig
    BY DEF Typed, Contexts
  <1>3. /\ Shape(framed) /\ framed.life = s.life /\ framed.blocked = s.blocked
        /\ framed.actions = s.actions /\ framed.ctx = c /\ framed.hist = s.hist
        /\ framed.frames = Append(s.frames, SignalFrame(t, sig)) /\ framed.pending = t.pending
    BY DEF Alike, Shape, Fields
  <1>4. SignalFrame(t, sig) = SignalFrame(s, sig)
    BY DEF SignalFrame, Alike
  <1>5. EnterHandler(t, sig) = IF "resethand" \in act.flags THEN set_action(masked, sig, Default)
                               ELSE masked
    <2>1. EnterHandler(t, sig) = update_signal_mask_and_disposition(framed, sig, act, s.blocked)
      BY DEF EnterHandler, Alike
    <2> HIDE DEF framed
    <2>2. set_procmask(framed, "setmask", s.blocked \union act.mask
                         \union (IF "nodefer" \in act.flags THEN {} ELSE {sig})) = masked
      BY DEF set_procmask, ShutOut
    <2> QED BY <2>1, <2>2, Zenon DEF update_signal_mask_and_disposition
  <1> HIDE DEF framed, b, c
  <1>6. /\ Shape(masked) /\ masked.life = s.life /\ masked.blocked = b
        /\ masked.actions = s.actions /\ masked.ctx = c /\ masked.hist = s.hist
        /\ masked.frames = Append(s.frames, SignalFrame(s, sig)) /\ masked.pending = t.pending
    BY <1>3, <1>4 DEF Shape, Fields
  <1> HIDE DEF masked
  <1>7. s.actions \in [Sigs -> SigAction]
    BY DEF Typed
  <1>8. Len(s.frames) < StackFrames
    BY DEF FrameFits
  <1>9. CASE EnterHandler(t, sig) = masked
    BY <1>1, <1>2, <1>6, <1>7, <1>8, <1>9 DEF Entered, b
  <1>10. CASE EnterHandler(t, sig) = set_action(masked, sig, Default)
    <2> DEFINE r == [masked EXCEPT !.actions[sig] = Default]
               a == [s.actions EXCEPT ![sig] = Default]
    <2>1. EnterHandler(t, sig) = r
      BY <1>1, <1>10 DEF set_action
    <2>2. a \in [Sigs -> SigAction] /\ \A x \in Sigs : x # sig => a[x] = s.actions[x]
      BY <1>7, DefaultTyped
    <2>3. /\ Shape(r) /\ r.life = s.life /\ r.blocked = b
          /\ r.actions = a /\ r.ctx = c /\ r.hist = s.hist
          /\ r.frames = Append(s.frames, SignalFrame(s, sig)) /\ r.pending = t.pending
      BY <1>6 DEF Shape, Fields
    <2> HIDE DEF r, a
    <2>4. Entered(s, r, sig)
      BY <1>1, <1>2, <1>8, <2>2, <2>3 DEF Entered, b
    <2> QED BY <2>1, <2>4
  <1> QED BY <1>5, <1>9, <1>10

(* A death by a signal, and one after which the SignalManager is cleaned up *)
LEMMA DieIs ==
  ASSUME NEW s, Typed(s), NEW t, Alike(s, t), t.pending \subseteq s.pending, NEW sig
  PROVE  Died(s, sys_exit_signal(t, sig)) /\ Died(s, terminate_cpu_bound_task(t, sig))
  <1> DEFINE z == sys_exit_signal(t, sig)
             w == cleanup_process(z)
  <1>1. /\ Shape(z) /\ z.life = "zombie" /\ z.frames = s.frames /\ z.hist = s.hist /\ z.ctx = s.ctx
        /\ z.pending = t.pending /\ z.blocked = s.blocked /\ z.actions = s.actions
    BY DEF Alike, Shape, Fields, sys_exit_signal
  <1> HIDE DEF z
  <1>2. /\ Shape(w) /\ w.life = "zombie" /\ w.frames = s.frames /\ w.hist = s.hist /\ w.ctx = s.ctx
        /\ w.pending = {} /\ w.blocked = {} /\ w.actions = NoActions
    BY <1>1 DEF Shape, Fields, cleanup_process
  <1> HIDE DEF w
  <1>3. s.ctx \in Contexts /\ s.blocked \in SigSet /\ s.actions \in [Sigs -> SigAction] /\ {} \in SigSet
    BY DEF Typed, SigSet
  <1>4. Died(s, z)
    BY <1>1, <1>3 DEF Died
  <1>5. Died(s, w)
    BY <1>2, <1>3, DefaultTyped DEF Died
  <1> QED BY <1>4, <1>5 DEF z, w, terminate_cpu_bound_task

(* Delivery on the way out of a system call, and at a tick *)
LEMMA DeliverIs ==
  ASSUME NEW s, Sound(s), Typed(s), s.life # "none"
  PROVE  /\ Delivered(s, check_and_deliver_signals(s))
         /\ Delivered(s, check_and_deliver_signals_irq(s))
  <1> DEFINE t == next_unblocked_signal(s).s
             sig == next_unblocked_signal(s).sig
  <1>1. /\ Alike(s, t) /\ t.pending \subseteq s.pending
        /\ sig # 0 => sig \in Sigs /\ sig \notin s.blocked /\ ~ Ignored(s, sig)
        /\ \A x \in s.pending \ t.pending : x = sig \/ Ignored(s, x)
        /\ sig = 0 => \A x \in t.pending \ t.blocked : StopsByDefault(s, x)
    BY ScanIs DEF Sound
  <1>2. /\ check_and_deliver_signals(s) =
             IF sig = 0 THEN t
             ELSE IF s.actions[sig].handler = "DFL" THEN sys_exit_signal(t, sig)
             ELSE IF FrameFits(t) THEN EnterHandler(t, sig) ELSE sys_exit_signal(t, SIGSEGV)
        /\ check_and_deliver_signals_irq(s) =
             IF sig = 0 THEN t
             ELSE IF s.actions[sig].handler = "DFL" THEN terminate_cpu_bound_task(t, sig)
             ELSE IF FrameFits(s) THEN EnterHandler(t, sig) ELSE terminate_cpu_bound_task(t, SIGSEGV)
    BY Zenon DEF check_and_deliver_signals, check_and_deliver_signals_irq, deliver_signal_to_user
  <1> HIDE DEF t, sig
  <1>3. \A x : Died(s, sys_exit_signal(t, x)) /\ Died(s, terminate_cpu_bound_task(t, x))
    BY <1>1, DieIs
  <1>4. FrameFits(t) = FrameFits(s)
    BY <1>1 DEF FrameFits, Alike
  <1>5. CASE sig = 0
    <2>1. \A x \in s.pending \ t.pending : Ignored(s, x)
      <3>1. 0 \notin s.pending
        BY SMT, SigsAssumption DEF Typed
      <3> QED BY <1>1, <1>5, <3>1
    <2>2. s.ctx \in Contexts
      BY DEF Typed
    <2>3. Passed(s, t)
      BY <1>1, <1>5, <2>1, <2>2 DEF Passed, Alike
    <2> QED BY <1>2, <1>5, <2>3 DEF Delivered
  <1>6. CASE sig # 0 /\ s.actions[sig].handler # "DFL" /\ FrameFits(s)
    <2>1. Entered(s, EnterHandler(t, sig), sig)
      BY <1>1, <1>6, EnterIs
    <2>2. sig \in Sigs
      BY <1>1, <1>6
    <2> QED BY <1>2, <1>4, <1>6, <2>1, <2>2 DEF Delivered
  <1>7. CASE sig # 0 /\ ~ (s.actions[sig].handler # "DFL" /\ FrameFits(s))
    BY <1>2, <1>3, <1>4, <1>7 DEF Delivered
  <1> QED BY <1>5, <1>6, <1>7

(* What a call that returns owes the signals of the process that made it *)
Kept(s, r) ==
  /\ \A sig \in s.pending \ r.pending :
       \/ r.life = "zombie" \/ Ignored(r, sig)
       \/ Len(r.frames) > 0 /\ r.frames[Len(r.frames)].signum = sig
  /\ (r.life = "user" /\ Len(r.frames) = Len(s.frames))
       => \A sig \in r.pending \ r.blocked : StopsByDefault(r, sig)

(* A delivery and its record *)
LEMMA RecordedStacked ==
  ASSUME NEW s, Sound(s), Stacked(s), s.life = "user", NEW d, Delivered(s, d), NEW irq \in BOOLEAN
  PROVE  Stacked(Recorded(s, d, irq)) /\ Kept(s, Recorded(s, d, irq))
  <1> DEFINE n == Len(s.frames)
             r == Recorded(s, d, irq)
  <1>0. /\ s.life = "user" /\ s.pending \in SUBSET Sigs /\ s.blocked \in SigSet
        /\ s.actions \in [Sigs -> SigAction] /\ s.ctx \in Contexts
        /\ s.frames \in Seq(Frames) /\ s.hist \in Seq(Entries)
        /\ n \in Nat /\ Len(s.hist) = n /\ n <= StackFrames
        /\ Nested(s.hist) /\ Shut(s.hist, s.blocked)
        /\ s.blocked \intersect Unblockable = {}
    BY SMT DEF Stacked, Typed, Sound
  <1>1. CASE Passed(s, d)
    <2>1. r = d
      BY <1>1 DEF Recorded, Passed
    <2>2. Typed(d)
      BY <1>0, <1>1 DEF Typed, Passed, Lives
    <2>3. Stacked(d)
      BY <1>0, <1>1, <2>2 DEF Stacked, Passed
    <2>4. \A x : Ignored(d, x) = Ignored(s, x) /\ StopsByDefault(d, x) = StopsByDefault(s, x)
      BY <1>1 DEF Passed, Ignored, StopsByDefault
    <2>5. Kept(s, d)
      BY <1>1, <2>4 DEF Kept, Passed
    <2> HIDE DEF r
    <2> QED BY <2>1, <2>3, <2>5 DEF r
  <1>2. CASE Died(s, d)
    <2>1. r = d
      BY <1>2 DEF Recorded, Died
    <2>2. Typed(d)
      BY <1>0, <1>2 DEF Typed, Died, Lives
    <2>3. Stacked(d)
      BY <1>0, <1>2, <2>2 DEF Stacked, Died
    <2>4. Kept(s, d)
      BY <1>2 DEF Kept, Died
    <2> HIDE DEF r
    <2> QED BY <2>1, <2>3, <2>4 DEF r
  <1>3. ASSUME NEW sig \in Sigs, Entered(s, d, sig)
        PROVE  Stacked(r) /\ Kept(s, r)
    <2> DEFINE e == [sig |-> sig, ctx |-> s.ctx, mask |-> s.blocked, irq |-> irq, opened |-> {},
                     shut |-> ShutOut(s, sig)]
               f == SignalFrame(s, sig)
    <2>1. s.actions[sig] \in SigAction
      BY <1>0
    <2>2. ShutOut(s, sig) \in SigSet
      <3>1. sig \in 1..64
        BY SMT, SigsAssumption
      <3> QED BY <2>1, <3>1 DEF ShutOut, SigAction, SigSet
    <2>3. e \in Entries /\ e.sig = sig /\ e.mask = s.blocked /\ e.shut = ShutOut(s, sig)
      BY <1>0, <1>3, <2>2 DEF Entries, Entered, SigSet
    <2>4. f \in Frames /\ f.signum = sig /\ f = FrameOf(e)
      BY <1>0 DEF Frames, SignalFrame, Contexts, FrameOf
    <2>5. r = [d EXCEPT !.hist = Append(@, e)]
      <3>1. Len(d.frames) # Len(s.frames) /\ d.ctx.pc = sig
        BY SMT, <1>0, <1>3 DEF Entered
      <3> QED BY <3>1, Zenon DEF Recorded, ShutOut
    <2> HIDE DEF e, f, r
    <2>6. /\ r.life = "user" /\ r.ctx = d.ctx /\ r.blocked = d.blocked /\ r.actions = d.actions
          /\ r.frames = Append(s.frames, f) /\ r.hist = Append(s.hist, e) /\ r.pending = d.pending
      BY <1>0, <1>3, <2>5 DEF Entered, Shape, Fields, f
    <2>7. d.blocked \in SigSet /\ s.blocked \subseteq d.blocked /\ e.shut \ Unblockable \subseteq d.blocked
      BY <1>0, <1>3, <2>2, <2>3 DEF Entered, SigSet
    <2>8. Nested(r.hist) /\ Shut(r.hist, r.blocked)
      <3>1. sig \notin s.blocked
        BY <1>3 DEF Entered
      <3> QED BY <1>0, <2>3, <2>6, <2>7, <3>1, NestPush
    <2>9. Typed(r)
      BY SMTT(30), <1>0, <1>3, <2>3, <2>4, <2>6, <2>7 DEF Typed, Entered, Lives
    <2>10. /\ Len(r.frames) = n + 1 /\ Len(r.hist) = n + 1 /\ r.frames[n + 1] = f /\ r.hist[n + 1] = e
           /\ \A i \in 1..n : r.frames[i] = s.frames[i] /\ r.hist[i] = s.hist[i]
      BY SMT, <1>0, <2>6, <2>3, <2>4
    <2>11. n < StackFrames
      BY <1>3 DEF Entered
    <2>12. \A i \in 1..(n + 1) : r.frames[i] = FrameOf(r.hist[i])
      <3>1. \A i \in 1..n : r.frames[i] = FrameOf(r.hist[i])
        BY <1>0, <2>10 DEF Stacked
      <3> QED BY SMT, <1>0, <2>4, <2>10, <3>1
    <2>13. Stacked(r)
      BY SMTT(30), <1>0, <2>6, <2>8, <2>9, <2>10, <2>11, <2>12, ProgramAssumption DEF Stacked
    <2>14. \A x \in Sigs : x # sig => Ignored(r, x) = Ignored(s, x)
      BY <1>3, <2>6 DEF Entered, Ignored
    <2>15. Kept(s, r)
      <3>1. \A x \in s.pending \ r.pending : x \in Sigs /\ (x = sig \/ Ignored(s, x))
        BY <1>0, <1>3, <2>6 DEF Entered
      <3> QED BY SMT, <1>0, <2>4, <2>10, <2>14, <3>1 DEF Kept
    <2> QED BY <2>13, <2>15
  <1> QED BY <1>1, <1>2, <1>3 DEF Delivered

(* The return path of a system call *)
LEMMA ReturnStacked ==
  ASSUME NEW s, Sound(s), Stacked(s), s.life = "user", NEW rax \in {"ok", "EINTR"}
  PROVE  Stacked(Return(s, rax)) /\ Kept(s, Return(s, rax))
  <1> DEFINE c == [s.ctx EXCEPT !.rax = rax]
             a == [s EXCEPT !.ctx.rax = rax]
             d == check_and_deliver_signals(a)
             e == [d EXCEPT !.ctx.rcx = "rip"]
  <1>1. c \in Contexts
    BY DEF Stacked, Typed, Contexts
  <1>2. /\ Shape(a) /\ a.life = s.life /\ a.blocked = s.blocked /\ a.actions = s.actions
        /\ a.pending = s.pending /\ a.frames = s.frames /\ a.hist = s.hist /\ a.ctx = c
    BY DEF Sound, Shape, Fields
  <1>3. Return(s, rax) = Recorded(a, e, FALSE)
    BY DEF Return, dispatch_syscall
  <1> HIDE DEF a, c
  <1>4. Sound(a) /\ a.life # "none"
    BY <1>2, SoundSame
  <1>5. Typed(a)
    BY <1>1, <1>2 DEF Stacked, Typed
  <1>6. Stacked(a)
    BY <1>2, <1>5 DEF Stacked
  <1>7. Delivered(a, d)
    BY <1>4, <1>5, DeliverIs
  <1> HIDE DEF d
  <1>8. Shape(d) /\ d.ctx \in Contexts
    BY <1>7 DEF Delivered, Passed, Died, Entered
  <1>9. /\ Shape(e) /\ e.life = d.life /\ e.blocked = d.blocked /\ e.actions = d.actions
        /\ e.pending = d.pending /\ e.frames = d.frames /\ e.hist = d.hist
        /\ e.ctx \in Contexts /\ e.ctx.pc = d.ctx.pc
    <2> DEFINE k == [d.ctx EXCEPT !.rcx = "rip"]
    <2>1. k \in Contexts /\ k.pc = d.ctx.pc
      BY <1>8 DEF Contexts
    <2>2. e = [d EXCEPT !.ctx = k]
      BY <1>8 DEF Shape, Fields
    <2> HIDE DEF e, k
    <2> QED BY <1>8, <2>1, <2>2 DEF Shape, Fields
  <1> HIDE DEF e
  <1>10. Delivered(a, e)
    <2>1. CASE Passed(a, d)
      BY <1>9, <2>1 DEF Passed, Delivered
    <2>2. CASE Died(a, d)
      BY <1>9, <2>2 DEF Died, Delivered
    <2>3. ASSUME NEW sig \in Sigs, Entered(a, d, sig)
          PROVE  Delivered(a, e)
      <3>1. Entered(a, e, sig)
        BY <1>9, <2>3 DEF Entered
      <3> QED BY <3>1 DEF Delivered
    <2> QED BY <1>7, <2>1, <2>2, <2>3 DEF Delivered
  <1>11. Stacked(Recorded(a, e, FALSE)) /\ Kept(a, Recorded(a, e, FALSE))
    BY <1>2, <1>4, <1>6, <1>10, RecordedStacked
  <1>12. \A r : Kept(a, r) => Kept(s, r)
    BY <1>2 DEF Kept
  <1> QED BY <1>3, <1>11, <1>12

-----------------------------------------------------------------------------
(* Two processes that agree on the mask, the frames and the history *)
LEMMA StackedSame ==
  ASSUME NEW s, Stacked(s), NEW t, t.life \in Lives, t.life = "zombie" \/ s.life # "zombie",
         t.pending \in SUBSET Sigs, t.blocked = s.blocked, t.actions \in [Sigs -> SigAction],
         t.ctx \in Contexts, t.frames = s.frames, t.hist = s.hist
  PROVE  Stacked(t)
  <1>1. Typed(t)
    BY DEF Stacked, Typed
  <1> QED BY <1>1 DEF Stacked

(* A process without handlers to return from, whatever its mask *)
LEMMA StackedEmpty ==
  ASSUME NEW t, t.life \in Lives, t.pending \in SUBSET Sigs, t.blocked \in SigSet,
         t.actions \in [Sigs -> SigAction], t.ctx \in Contexts, t.frames = <<>>, t.hist = <<>>
  PROVE  Stacked(t)
  <1>1. t.frames \in Seq(Frames) /\ t.hist \in Seq(Entries) /\ Len(t.frames) = 0 /\ Len(t.hist) = 0
    BY EmptySeq
  <1>2. Typed(t)
    BY <1>1 DEF Typed
  <1>3. Nested(t.hist) /\ Shut(t.hist, t.blocked)
    BY NestEmpty
  <1> QED BY SMT, <1>1, <1>2, <1>3, ProgramAssumption DEF Stacked

LEMMA ContextTyped == Context(0, "ok") \in Contexts
  BY DEF Context, Contexts

LEMMA FreshStacked == \A life \in Lives : Stacked(Fresh(life))
  <1> TAKE life \in Lives
  <1> DEFINE t == Fresh(life)
  <1>1. /\ t.life = life /\ t.pending = {} /\ t.blocked = {} /\ t.actions = NoActions
        /\ t.ctx = Context(0, "ok") /\ t.frames = <<>> /\ t.hist = <<>>
    BY DEF Fresh
  <1> HIDE DEF t
  <1>2. t.pending \in SUBSET Sigs /\ t.blocked \in SigSet
    BY <1>1 DEF SigSet
  <1> QED BY <1>1, <1>2, ContextTyped, DefaultTyped, StackedEmpty DEF t

(* Nothing that was pending is lost from s to r *)
NoLoss(s, r) ==
  \A sig \in s.pending \ r.pending :
    \/ r.life \in {"zombie", "none"}
    \/ Ignored(r, sig)
    \/ Len(r.frames) > 0 /\ r.frames[Len(r.frames)].signum = sig

LEMMA NoneLost ==
  ASSUME NEW s, NEW r, s.pending \subseteq r.pending
  PROVE  NoLoss(s, r)
  BY DEF NoLoss

LEMMA WokenIs ==
  ASSUME NEW s, Shape(s), Stacked(s)
  PROVE  /\ Stacked(Woken(s)) /\ \A r : NoLoss(r, s) => NoLoss(r, Woken(s))
         /\ Woken(s).pending = s.pending
  <1> DEFINE t == Woken(s)
  <1>1. /\ t.life = (IF s.life = "asleep" THEN "woken" ELSE s.life) /\ t.pending = s.pending
        /\ t.blocked = s.blocked /\ t.actions = s.actions
        /\ t.ctx = s.ctx /\ t.frames = s.frames /\ t.hist = s.hist
    BY DEF Woken, Shape, Fields
  <1> HIDE DEF t
  <1>2. Stacked(t)
    <2>1. /\ s.life \in Lives /\ s.pending \in SUBSET Sigs /\ s.actions \in [Sigs -> SigAction]
          /\ s.ctx \in Contexts
      BY DEF Stacked, Typed
    <2>2. t.life \in Lives /\ (t.life = "zombie" \/ s.life # "zombie")
      BY <1>1, <2>1 DEF Lives
    <2> QED BY <1>1, <2>1, <2>2, StackedSame
  <1>3. \A x : Ignored(t, x) = Ignored(s, x)
    BY <1>1 DEF Ignored
  <1>4. \A r : NoLoss(r, s) => NoLoss(r, t)
    BY <1>1, <1>3 DEF NoLoss
  <1> QED BY <1>1, <1>2, <1>4 DEF t

(* Every process after a step: its stack is in order, no signal is lost *)
StepGood == \A q \in Procs : Stacked(st'[q]) /\ NoLoss(st[q], st'[q])

LEMMA CommitGood ==
  ASSUME NEW base, NEW p \in Procs, NEW t, Stacked(t), NoLoss(st[p], t),
         \A q \in Procs : Sound(base[q]) /\ Stacked(base[q]) /\ NoLoss(st[q], base[q]),
         Commit(base, p, t)
  PROVE  StepGood
  <1>1. \A q \in Procs : st'[q] = IF q = p THEN t
                                 ELSE IF t.life = "zombie" /\ q = parent[p] THEN Woken(base[q])
                                 ELSE base[q]
    BY DEF Commit
  <1>2. \A q \in Procs : Stacked(Woken(base[q])) /\ NoLoss(st[q], Woken(base[q]))
    BY WokenIs DEF Sound
  <1> QED BY <1>1, <1>2 DEF StepGood

LEMMA ReplaceGood ==
  ASSUME SoundInv, StackInv, NEW p \in Procs, NEW t, Stacked(t), NoLoss(st[p], t),
         st' = [st EXCEPT ![p] = t]
  PROVE  StepGood
  <1>1. \A q \in Procs : st'[q] = IF q = p THEN t ELSE st[q]
    BY DEF SoundInv
  <1>2. \A q \in Procs : Stacked(st[q]) /\ NoLoss(st[q], st[q])
    BY NoneLost DEF StackInv
  <1> QED BY <1>1, <1>2 DEF StepGood

(* A call of p that leaves the other processes alone and returns with s *)
LEMMA CallGood ==
  ASSUME SoundInv, StackInv, NEW p \in Procs, NEW s, Sound(s), Stacked(s), s.life = "user",
         st[p].pending \subseteq s.pending, NEW rax \in {"ok", "EINTR"}, Commit(st, p, Return(s, rax))
  PROVE  StepGood
  <1>1. Stacked(Return(s, rax)) /\ Kept(s, Return(s, rax))
    BY ReturnStacked
  <1>2. NoLoss(st[p], Return(s, rax))
    BY <1>1 DEF Kept, NoLoss
  <1>3. \A q \in Procs : Sound(st[q]) /\ Stacked(st[q]) /\ NoLoss(st[q], st[q])
    BY NoneLost DEF StackInv, SoundInv
  <1> QED BY <1>1, <1>2, <1>3, CommitGood

-----------------------------------------------------------------------------
(* One lemma for each action that changes more than a process's life. *)

LEMMA SendStacked ==
  ASSUME NEW s, Sound(s), Stacked(s), NEW sig \in Sigs
  PROVE  Stacked(send_signal(s, sig)) /\ s.pending \subseteq send_signal(s, sig).pending
  <1> DEFINE t == [s EXCEPT !.pending = @ \union {sig}]
  <1>1. /\ Shape(t) /\ t.life = s.life /\ t.pending = s.pending \union {sig} /\ t.blocked = s.blocked
        /\ t.actions = s.actions /\ t.ctx = s.ctx /\ t.frames = s.frames /\ t.hist = s.hist
    BY DEF Sound, Shape, Fields
  <1>2. send_signal(s, sig) = Woken(t)
    BY DEF send_signal
  <1> HIDE DEF t
  <1>3. /\ s.life \in Lives /\ s.pending \in SUBSET Sigs /\ s.actions \in [Sigs -> SigAction]
        /\ s.ctx \in Contexts
    BY DEF Stacked, Typed
  <1>4. t.pending \in SUBSET Sigs
    BY <1>1, <1>3
  <1>5. Stacked(t)
    BY <1>1, <1>3, <1>4, StackedSame
  <1>6. Stacked(Woken(t)) /\ Woken(t).pending = t.pending
    BY <1>1, <1>5, WokenIs
  <1> QED BY <1>1, <1>2, <1>6

LEMMA KillGood ==
  ASSUME SoundInv, StackInv, NEW p \in Procs, NEW q \in Procs, NEW sig \in Sigs, Kill(p, q, sig)
  PROVE  StepGood
  <1> DEFINE base == [st EXCEPT ![q] = send_signal(@, sig)]
  <1>1. st[p].life = "user" /\ st[q].life # "none" /\ Commit(base, p, Return(base[p], "ok"))
    BY DEF Kill, InTable
  <1>2. \A r \in Procs : Sound(st[r]) /\ Stacked(st[r])
    BY DEF SoundInv, StackInv
  <1>3. \A r \in Procs : base[r] = IF r = q THEN send_signal(st[q], sig) ELSE st[r]
    BY DEF SoundInv
  <1> HIDE DEF base
  <1>4. /\ Sound(send_signal(st[q], sig)) /\ Stacked(send_signal(st[q], sig))
        /\ st[q].pending \subseteq send_signal(st[q], sig).pending
        /\ st[q].life = "user" => send_signal(st[q], sig).life = "user"
    BY <1>1, <1>2, SendSound, SendStacked
  <1>5. \A r \in Procs : Sound(base[r]) /\ Stacked(base[r]) /\ st[r].pending \subseteq base[r].pending
    BY <1>2, <1>3, <1>4
  <1>6. \A r \in Procs : NoLoss(st[r], base[r])
    BY <1>5, NoneLost
  <1>7. base[p].life = "user"
    BY <1>1, <1>3, <1>4
  <1>8. Stacked(Return(base[p], "ok")) /\ Kept(base[p], Return(base[p], "ok"))
    BY <1>5, <1>7, ReturnStacked
  <1>9. NoLoss(st[p], Return(base[p], "ok"))
    BY <1>5, <1>8 DEF Kept, NoLoss
  <1> QED BY <1>1, <1>5, <1>6, <1>8, <1>9, CommitGood

LEMMA SigactionGood ==
  ASSUME SoundInv, StackInv, NEW p \in Procs, NEW sig \in Sigs, NEW act \in Handlers,
         Sigaction(p, sig, act)
  PROVE  StepGood
  <1> DEFINE s == set_action(st[p], sig, act)
             a == [st[p].actions EXCEPT ![sig] = act]
  <1>1. st[p].life = "user" /\ sig \notin Unblockable /\ Commit(st, p, Return(s, "ok"))
    BY DEF Sigaction
  <1>2. Sound(st[p]) /\ Stacked(st[p])
    BY DEF SoundInv, StackInv
  <1>3. Sound(s)
    BY <1>1, <1>2, ActionSound
  <1>4. s = [st[p] EXCEPT !.actions = a]
    BY <1>1, <1>2 DEF set_action, Sound, Shape, Fields
  <1>5. /\ st[p].life \in Lives /\ st[p].pending \in SUBSET Sigs /\ st[p].ctx \in Contexts
        /\ st[p].actions \in [Sigs -> SigAction]
    BY <1>2 DEF Stacked, Typed
  <1>6. a \in [Sigs -> SigAction]
    BY <1>5, ProgramAssumption
  <1> HIDE DEF s, a
  <1>7. /\ s.life = st[p].life /\ s.pending = st[p].pending /\ s.blocked = st[p].blocked /\ s.actions = a
        /\ s.ctx = st[p].ctx /\ s.frames = st[p].frames /\ s.hist = st[p].hist
    BY <1>2, <1>4 DEF Sound, Shape, Fields
  <1>8. Stacked(s)
    BY <1>2, <1>5, <1>6, <1>7, StackedSame
  <1> QED BY <1>1, <1>3, <1>7, <1>8, CallGood

LEMMA SigprocmaskGood ==
  ASSUME SoundInv, StackInv, NEW p \in Procs, NEW how \in {"block", "unblock", "setmask"},
         NEW set \in Masks, Sigprocmask(p, how, set)
  PROVE  StepGood
  <1> DEFINE s == set_procmask(st[p], how, set)
             h == Opened(st[p].hist, st[p].blocked \ s.blocked)
             t == IF s.hist = <<>> THEN s
                  ELSE [s EXCEPT !.hist[Len(s.hist)].opened = @ \union (st[p].blocked \ s.blocked)]
  <1>1. st[p].life = "user" /\ Commit(st, p, Return(t, "ok"))
    BY DEF Sigprocmask
  <1>2. Sound(st[p]) /\ Stacked(st[p])
    BY DEF SoundInv, StackInv
  <1>3. Sound(s) /\ s = [st[p] EXCEPT !.blocked = s.blocked]
    BY SMT, <1>1, <1>2, ProcmaskSound
  <1>4. s.blocked \in SigSet
    <2>1. st[p].blocked \in SigSet /\ set \in SigSet
      BY <1>2, ProgramAssumption DEF Stacked, Typed
    <2>2. s.blocked = CASE how = "block"   -> st[p].blocked \union (set \ Unblockable)
                        [] how = "unblock" -> st[p].blocked \ (set \ Unblockable)
                        [] how = "setmask" -> set \ Unblockable
      BY <1>2 DEF set_procmask, Sound, Shape, Fields
    <2> HIDE DEF s
    <2>3. CASE how = "block"
      BY <2>1, <2>2, <2>3 DEF SigSet
    <2>4. CASE how = "unblock"
      BY <2>1, <2>2, <2>4 DEF SigSet
    <2>5. CASE how = "setmask"
      BY <2>1, <2>2, <2>5 DEF SigSet
    <2> QED BY <2>3, <2>4, <2>5
  <1> HIDE DEF s
  <1>5. /\ s.life = "user" /\ s.pending = st[p].pending /\ s.actions = st[p].actions
        /\ s.ctx = st[p].ctx /\ s.frames = st[p].frames /\ s.hist = st[p].hist
    BY <1>1, <1>2, <1>3 DEF Sound, Shape, Fields
  <1>6. /\ st[p].pending \in SUBSET Sigs /\ st[p].ctx \in Contexts /\ st[p].blocked \in SigSet
        /\ st[p].actions \in [Sigs -> SigAction] /\ "user" \in Lives
        /\ st[p].hist \in Seq(Entries) /\ st[p].frames \in Seq(Frames)
        /\ Nested(st[p].hist) /\ Shut(st[p].hist, st[p].blocked)
    BY <1>1, <1>2 DEF Stacked, Typed, Lives
  <1>7. CASE st[p].hist = <<>>
    <2>1. t = s
      BY <1>5, <1>7
    <2>2. s.frames = <<>>
      BY <1>2, <1>5, <1>6, <1>7, EmptySeq DEF Stacked
    <2>3. Stacked(s)
      BY <1>4, <1>5, <1>6, <1>7, <2>2, StackedEmpty
    <2> HIDE DEF t
    <2> QED BY <1>1, <1>3, <1>5, <2>1, <2>3, CallGood
  <1>8. CASE st[p].hist # <<>>
    <2>1. t = [s EXCEPT !.hist = h]
      BY <1>5, <1>8 DEF Opened
    <2>2. /\ h \in Seq(Entries) /\ Len(h) = Len(st[p].hist)
          /\ \A i \in 1..Len(st[p].hist) : FrameOf(h[i]) = FrameOf(st[p].hist[i])
          /\ Nested(h) /\ Shut(h, s.blocked)
      BY <1>4, <1>6, <1>8, NestOpen
    <2> HIDE DEF t, h
    <2>3. /\ Shape(t) /\ t.life = "user" /\ t.pending = st[p].pending /\ t.actions = st[p].actions
          /\ t.ctx = st[p].ctx /\ t.frames = st[p].frames /\ t.hist = h /\ t.blocked = s.blocked
      BY <1>3, <1>5, <2>1 DEF Sound, Shape, Fields
    <2>4. Sound(t)
      BY <1>3, <1>5, <2>3, SoundSame
    <2>5. Typed(t)
      BY <1>4, <1>6, <2>2, <2>3 DEF Typed
    <2>6. Stacked(t)
      BY <1>2, <2>2, <2>3, <2>5 DEF Stacked
    <2> QED BY <1>1, <2>3, <2>4, <2>6, CallGood
  <1> QED BY <1>7, <1>8

LEMMA ForkGood ==
  ASSUME SoundInv, StackInv, NEW p \in Procs, NEW q \in Procs, Fork(p, q)
  PROVE  StepGood
  <1> DEFINE m == set_procmask(st[q], "setmask", st[p].blocked)
             ctx == [st[p].ctx EXCEPT !.rax = "child", !.rcx = "rip"]
             child == [m EXCEPT !.life = "user", !.actions = st[p].actions,
                                !.frames = st[p].frames, !.hist = st[p].hist, !.ctx = ctx]
             base == [st EXCEPT ![q] = child]
  <1>1. st[p].life = "user" /\ st[q].life = "none" /\ Commit(base, p, Return(st[p], "ok"))
    BY DEF Fork, InTable
  <1>2. \A r \in Procs : Sound(st[r]) /\ Stacked(st[r])
    BY DEF SoundInv, StackInv
  <1>3. st[q].pending = {} /\ st[p].blocked \ Unblockable = st[p].blocked
    <2>1. st[q] = Fresh("none")
      BY <1>1, <1>2 DEF Sound
    <2>2. st[p].blocked \intersect Unblockable = {}
      BY <1>2 DEF Sound
    <2>3. st[q].pending = {}
      BY SMT, <2>1 DEF Fresh
    <2> QED BY <2>2, <2>3
  <1>4. Shape(m) /\ m.blocked = st[p].blocked /\ m.pending = {}
    BY ZenonT(40), <1>2, <1>3 DEF set_procmask, Sound, Shape, Fields
  <1>5. ctx \in Contexts
    BY <1>2 DEF Stacked, Typed, Contexts
  <1>6. \A r \in Procs : base[r] = IF r = q THEN child ELSE st[r]
    BY DEF SoundInv
  <1> HIDE DEF m, ctx, base
  <1>7. /\ Shape(child) /\ child.life = "user" /\ child.actions = st[p].actions
        /\ child.blocked = st[p].blocked /\ child.pending = {} /\ child.ctx = ctx
        /\ child.frames = st[p].frames /\ child.hist = st[p].hist
    BY <1>4 DEF Shape, Fields
  <1> HIDE DEF child
  <1>8. Sound(child)
    BY <1>1, <1>2, <1>7, SoundSame
  <1>9. Stacked(child)
    <2>1. st[p].actions \in [Sigs -> SigAction] /\ "user" \in Lives /\ {} \in SUBSET Sigs
      BY <1>2 DEF Stacked, Typed, Lives
    <2> QED BY <1>1, <1>2, <1>5, <1>7, <2>1, StackedSame
  <1>10. NoLoss(st[q], child)
    BY <1>3, NoneLost
  <1>11. \A r \in Procs : Sound(base[r]) /\ Stacked(base[r]) /\ NoLoss(st[r], base[r])
    BY <1>2, <1>6, <1>8, <1>9, <1>10, NoneLost
  <1>12. Stacked(Return(st[p], "ok")) /\ Kept(st[p], Return(st[p], "ok"))
    BY <1>1, <1>2, ReturnStacked
  <1>13. NoLoss(st[p], Return(st[p], "ok"))
    BY <1>12 DEF Kept, NoLoss
  <1> QED BY <1>1, <1>11, <1>12, <1>13, CommitGood

(* The frame on top gives back what its history entry says *)
LEMMA SigreturnIs ==
  ASSUME SoundInv, StackInv, NEW p \in Procs, Sigreturn(p)
  PROVE  LET was == st[p].hist[Len(st[p].hist)] IN
         /\ StepGood
         /\ st'[p].ctx = [was.ctx EXCEPT !.rcx = "rip"] /\ st'[p].blocked = was.mask
  <1> DEFINE n == Len(st[p].frames)
             frame == st[p].frames[n]
             was == st[p].hist[n]
             s == set_procmask(st[p], "setmask", frame.old_mask)
             c == [pc |-> frame.pc, rax |-> frame.rax, regs |-> frame.regs, rcx |-> "rip"]
             t == [s EXCEPT !.frames = Front(@), !.hist = Front(@), !.ctx = c]
  <1>1. st[p].life = "user" /\ st[p].frames # <<>> /\ st' = [st EXCEPT ![p] = t]
    BY DEF Sigreturn
  <1>2. Sound(st[p]) /\ Stacked(st[p])
    BY DEF SoundInv, StackInv
  <1>3. /\ st[p].frames \in Seq(Frames) /\ st[p].hist \in Seq(Entries) /\ Len(st[p].hist) = n
        /\ Nested(st[p].hist) /\ st[p].pending \in SUBSET Sigs /\ "user" \in Lives
        /\ st[p].actions \in [Sigs -> SigAction] /\ n <= StackFrames
    BY <1>2 DEF Stacked, Typed, Lives
  <1>4. n \in Nat /\ n >= 1 /\ st[p].hist # <<>>
    BY SMT, <1>1, <1>3, EmptySeq
  <1>5. was \in Entries /\ frame = FrameOf(was) /\ was.mask \intersect Unblockable = {}
    <2>1. n \in 1..n
      BY SMT, <1>4
    <2>2. was \in Entries
      BY <1>3, <2>1, ElementOfSeq
    <2>3. frame = FrameOf(was)
      BY <1>2, <1>3, <2>1 DEF Stacked
    <2>4. was.mask \intersect Unblockable = {}
      BY <1>3, <2>1 DEF Nested
    <2> QED BY <2>2, <2>3, <2>4
  <1>6. c = [was.ctx EXCEPT !.rcx = "rip"] /\ c \in Contexts /\ frame.old_mask = was.mask
        /\ was.mask \in SigSet
    <2> HIDE DEF was, frame
    <2>1. was.ctx \in Contexts /\ was.mask \in SigSet
      BY <1>5 DEF Entries
    <2>2. frame.old_mask = was.mask /\ frame.pc = was.ctx.pc /\ frame.rax = was.ctx.rax
          /\ frame.regs = was.ctx.regs
      BY <1>5 DEF FrameOf
    <2>3. c = [pc |-> was.ctx.pc, rax |-> was.ctx.rax, regs |-> was.ctx.regs, rcx |-> "rip"]
      BY <2>2
    <2>4. c = [was.ctx EXCEPT !.rcx = "rip"] /\ c \in Contexts
      BY SMT, <2>1, <2>3 DEF Contexts
    <2> QED BY <2>1, <2>2, <2>4
  <1>7. s = [st[p] EXCEPT !.blocked = was.mask]
    <2>1. frame.old_mask \ Unblockable = was.mask
      BY <1>5, <1>6
    <2> QED BY <2>1 DEF set_procmask
  <1> HIDE DEF s, c
  <1>8. /\ Shape(t) /\ t.life = "user" /\ t.pending = st[p].pending /\ t.actions = st[p].actions
        /\ t.frames = Front(st[p].frames) /\ t.hist = Front(st[p].hist) /\ t.ctx = c /\ t.blocked = was.mask
    BY <1>1, <1>2, <1>7 DEF Sound, Shape, Fields
  <1> HIDE DEF t
  <1>9. /\ t.hist \in Seq(Entries) /\ Len(t.hist) = n - 1 /\ \A i \in 1..(n - 1) : t.hist[i] = st[p].hist[i]
        /\ Nested(t.hist) /\ Shut(t.hist, was.mask)
    <2> DEFINE h == st[p].hist
    <2>1. h \in Seq(Entries) /\ h # <<>> /\ Nested(h) /\ Len(h) = n
      BY <1>3, <1>4
    <2> HIDE DEF h, n
    <2>2. /\ Front(h) \in Seq(Entries) /\ Len(Front(h)) = Len(h) - 1
          /\ \A i \in 1..(Len(h) - 1) : Front(h)[i] = h[i]
          /\ Nested(Front(h)) /\ Shut(Front(h), h[Len(h)].mask)
      BY <2>1, NestPop
    <2>3. t.hist = Front(h) /\ was = h[n]
      BY <1>8 DEF h
    <2> QED BY <2>1, <2>2, <2>3 DEF h
  <1>10. /\ t.frames \in Seq(Frames) /\ Len(t.frames) = n - 1
         /\ \A i \in 1..(n - 1) : t.frames[i] = st[p].frames[i]
    <2> DEFINE h == st[p].frames
    <2>1. h \in Seq(Frames) /\ h # <<>>
      BY <1>1, <1>3
    <2> HIDE DEF h
    <2>2. /\ Front(h) \in Seq(Frames) /\ Len(Front(h)) = Len(h) - 1
          /\ \A i \in 1..(Len(h) - 1) : Front(h)[i] = h[i]
      BY <2>1, FrontIs
    <2>3. t.frames = Front(h)
      BY <1>8 DEF h
    <2> QED BY <2>2, <2>3 DEF h
  <1>11. Typed(t)
    BY <1>3, <1>6, <1>8, <1>9, <1>10 DEF Typed
  <1>12. \A i \in 1..(n - 1) : i \in 1..n
    BY SMT, <1>4
  <1>13. \A i \in 1..(n - 1) : t.frames[i] = FrameOf(t.hist[i])
    BY <1>2, <1>3, <1>9, <1>10, <1>12 DEF Stacked
  <1>14. n - 1 <= StackFrames
    BY SMT, <1>3, <1>4, ProgramAssumption
  <1>15. Stacked(t)
    BY <1>8, <1>9, <1>10, <1>11, <1>13, <1>14 DEF Stacked
  <1>16. NoLoss(st[p], t)
    BY <1>8, NoneLost
  <1>17. StepGood
    BY <1>1, <1>15, <1>16, ReplaceGood
  <1>18. st'[p] = t
    BY <1>1 DEF SoundInv
  <1> QED BY <1>3, <1>6, <1>8, <1>17, <1>18

LEMMA ExecveGood ==
  ASSUME SoundInv, StackInv, NEW p \in Procs, Execve(p)
  PROVE  StepGood
  <1> DEFINE t == [st[p] EXCEPT !.frames = <<>>, !.hist = <<>>, !.ctx = Context(0, "ok")]
  <1>1. st[p].life = "user" /\ Commit(st, p, Return(t, "ok"))
    BY DEF Execve
  <1>2. Sound(st[p]) /\ Stacked(st[p])
    BY DEF SoundInv, StackInv
  <1>3. /\ Shape(t) /\ t.life = "user" /\ t.pending = st[p].pending /\ t.actions = st[p].actions
        /\ t.frames = <<>> /\ t.hist = <<>> /\ t.ctx = Context(0, "ok") /\ t.blocked = st[p].blocked
    BY <1>1, <1>2 DEF Sound, Shape, Fields
  <1> HIDE DEF t
  <1>4. Sound(t)
    BY <1>2, <1>3, SoundSame
  <1>5. /\ st[p].pending \in SUBSET Sigs /\ "user" \in Lives /\ st[p].blocked \in SigSet
        /\ st[p].actions \in [Sigs -> SigAction]
    BY <1>2 DEF Stacked, Typed, Lives
  <1>6. Stacked(t)
    BY <1>3, <1>5, ContextTyped, StackedEmpty
  <1> QED BY <1>1, <1>3, <1>4, <1>6, CallGood

LEMMA ExitGood ==
  ASSUME SoundInv, StackInv, NEW p \in Procs, Exit(p)
  PROVE  StepGood
  <1> DEFINE t == [st[p] EXCEPT !.life = "zombie", !.killed_by = 0]
  <1>1. Commit(st, p, t)
    BY DEF Exit
  <1>2. \A q \in Procs : Sound(st[q]) /\ Stacked(st[q]) /\ NoLoss(st[q], st[q])
    BY NoneLost DEF SoundInv, StackInv
  <1>3. /\ t.life = "zombie" /\ t.pending = st[p].pending /\ t.actions = st[p].actions
        /\ t.frames = st[p].frames /\ t.hist = st[p].hist /\ t.ctx = st[p].ctx
        /\ t.blocked = st[p].blocked
    BY <1>2 DEF Sound, Shape, Fields
  <1> HIDE DEF t
  <1>4. Stacked(t)
    <2>1. /\ st[p].pending \in SUBSET Sigs /\ "zombie" \in Lives /\ st[p].ctx \in Contexts
          /\ st[p].actions \in [Sigs -> SigAction]
      BY <1>2 DEF Stacked, Typed, Lives
    <2> QED BY <1>2, <1>3, <2>1, StackedSame
  <1>5. NoLoss(st[p], t)
    BY <1>3, NoneLost
  <1> QED BY <1>1, <1>2, <1>4, <1>5, CommitGood

(* p back from wait4's loop, or going to sleep in it *)
LEMMA LifeStacked ==
  ASSUME NEW s, Sound(s), Stacked(s), s.life \notin {"zombie", "none"}, NEW life \in {"user", "asleep"}
  PROVE  LET t == [s EXCEPT !.life = life]
         IN  Sound(t) /\ Stacked(t) /\ t.life = life /\ t.pending = s.pending
  <1> DEFINE t == [s EXCEPT !.life = life]
  <1>1. /\ Shape(t) /\ t.life = life /\ t.pending = s.pending /\ t.actions = s.actions
        /\ t.frames = s.frames /\ t.hist = s.hist /\ t.ctx = s.ctx /\ t.blocked = s.blocked
    BY DEF Sound, Shape, Fields
  <1> HIDE DEF t
  <1>2. Sound(t)
    BY <1>1, SoundSame
  <1>3. /\ s.pending \in SUBSET Sigs /\ life \in Lives /\ s.ctx \in Contexts
        /\ s.actions \in [Sigs -> SigAction]
    BY DEF Stacked, Typed, Lives
  <1>4. Stacked(t)
    BY <1>1, <1>3, StackedSame
  <1> QED BY <1>1, <1>2, <1>4 DEF t

LEMMA ReapGood ==
  ASSUME SoundInv, StackInv, NEW p \in Procs, st[p].life \in {"user", "woken"}, NEW q \in Procs,
         Reap(p, q)
  PROVE  StepGood
  <1> DEFINE base == [st EXCEPT ![q] = Reaped(@)]
             t == [st[p] EXCEPT !.life = "user"]
  <1>1. st[q].life = "zombie" /\ Commit(base, p, Return(t, "ok"))
    BY DEF Reap
  <1>2. \A r \in Procs : Sound(st[r]) /\ Stacked(st[r])
    BY DEF SoundInv, StackInv
  <1>3. Reaped(st[q]) = Fresh("none")
    BY <1>1, <1>2, ReapedIs
  <1>4. Sound(Reaped(st[q])) /\ Stacked(Reaped(st[q]))
    BY <1>3, FreshSound, FreshStacked DEF Lives
  <1>5. NoLoss(st[q], Reaped(st[q]))
    <2>1. Reaped(st[q]).life = "none"
      BY <1>3, FreshSound
    <2> QED BY <2>1 DEF NoLoss
  <1>6. \A r \in Procs : base[r] = IF r = q THEN Reaped(st[q]) ELSE st[r]
    BY DEF SoundInv
  <1> HIDE DEF base
  <1>7. \A r \in Procs : Sound(base[r]) /\ Stacked(base[r]) /\ NoLoss(st[r], base[r])
    BY <1>2, <1>4, <1>5, <1>6, NoneLost
  <1>8. Sound(t) /\ Stacked(t) /\ t.life = "user" /\ t.pending = st[p].pending
    BY <1>2, LifeStacked
  <1> HIDE DEF t
  <1>9. Stacked(Return(t, "ok")) /\ Kept(t, Return(t, "ok"))
    BY <1>8, ReturnStacked
  <1>10. NoLoss(st[p], Return(t, "ok"))
    BY <1>8, <1>9 DEF Kept, NoLoss
  <1> QED BY <1>1, <1>7, <1>9, <1>10, CommitGood

LEMMA SleepGood ==
  ASSUME SoundInv, StackInv, NEW p \in Procs, st[p].life \in {"user", "woken"}, SleepInWait4(p)
  PROVE  StepGood
  <1> DEFINE t == [st[p] EXCEPT !.life = "asleep"]
  <1>1. st' = [st EXCEPT ![p] = t]
    BY DEF SleepInWait4
  <1>2. Sound(st[p]) /\ Stacked(st[p])
    BY DEF SoundInv, StackInv
  <1>3. Stacked(t) /\ t.pending = st[p].pending
    BY <1>2, LifeStacked
  <1> HIDE DEF t
  <1>4. NoLoss(st[p], t)
    BY <1>3, NoneLost
  <1> QED BY <1>1, <1>3, <1>4, ReplaceGood

LEMMA ResumeGood ==
  ASSUME SoundInv, StackInv, NEW p \in Procs, ResumeWait4(p)
  PROVE  StepGood
  <1> DEFINE t == [st[p] EXCEPT !.life = "user"]
  <1>1. st[p].life = "woken"
    BY DEF ResumeWait4
  <1>2. CASE Commit(st, p, Return(t, "EINTR"))
    <2>1. Sound(st[p]) /\ Stacked(st[p])
      BY DEF SoundInv, StackInv
    <2>2. Sound(t) /\ Stacked(t) /\ t.life = "user" /\ t.pending = st[p].pending
      BY <1>1, <2>1, LifeStacked
    <2> HIDE DEF t
    <2> QED BY <1>2, <2>2, CallGood
  <1>3. CASE \E q \in Children(p) : Reap(p, q)
    BY <1>1, <1>3, ReapGood DEF Children
  <1>4. CASE SleepInWait4(p)
    BY <1>1, <1>4, SleepGood
  <1> HIDE DEF t
  <1> QED BY <1>2, <1>3, <1>4 DEF ResumeWait4, t

LEMMA TickGood ==
  ASSUME SoundInv, StackInv, NEW p \in Procs, Tick(p)
  PROVE  StepGood
  <1> DEFINE d == check_and_deliver_signals_irq(st[p])
             r == Recorded(st[p], d, TRUE)
  <1>1. st[p].life = "user" /\ Commit(st, p, r)
    BY DEF Tick
  <1>2. \A q \in Procs : Sound(st[q]) /\ Stacked(st[q]) /\ NoLoss(st[q], st[q])
    BY NoneLost DEF SoundInv, StackInv
  <1>3. Delivered(st[p], d)
    BY <1>1, <1>2, DeliverIs DEF Stacked
  <1> HIDE DEF d
  <1>4. Stacked(r) /\ Kept(st[p], r)
    BY <1>1, <1>2, <1>3, RecordedStacked
  <1> HIDE DEF r
  <1>5. NoLoss(st[p], r)
    BY <1>4 DEF Kept, NoLoss
  <1> QED BY <1>1, <1>2, <1>4, <1>5, CommitGood

LEMMA UserCodeGood ==
  ASSUME SoundInv, StackInv, NEW p \in Procs, UserCode(p)
  PROVE  StepGood
  <1> DEFINE c == [st[p].ctx EXCEPT !.rax = Work, !.regs = Work, !.rcx = Work]
             t == [st[p] EXCEPT !.ctx = c]
  <1>1. Sound(st[p]) /\ Stacked(st[p])
    BY DEF SoundInv, StackInv
  <1>2. st' = [st EXCEPT ![p] = t]
    BY DEF UserCode, SoundInv
  <1>3. c \in Contexts
    BY <1>1 DEF Stacked, Typed, Contexts
  <1> HIDE DEF c
  <1>4. /\ t.life = st[p].life /\ t.pending = st[p].pending /\ t.actions = st[p].actions
        /\ t.frames = st[p].frames /\ t.hist = st[p].hist /\ t.ctx = c /\ t.blocked = st[p].blocked
    BY <1>1 DEF Sound, Shape, Fields
  <1> HIDE DEF t
  <1>5. Stacked(t)
    <2>1. /\ st[p].pending \in SUBSET Sigs /\ st[p].life \in Lives
          /\ st[p].actions \in [Sigs -> SigAction]
      BY <1>1 DEF Stacked, Typed
    <2> QED BY <1>1, <1>3, <1>4, <2>1, StackedSame
  <1>6. NoLoss(st[p], t)
    BY <1>4, NoneLost
  <1> QED BY <1>2, <1>5, <1>6, ReplaceGood

LEMMA InitStacked == Init => StackInv
  BY FreshStacked DEF Init, StackInv, Lives

LEMMA NextStacked ==
  ASSUME SoundInv, StackInv, [Next]_vars
  PROVE  StackInv' /\ StepGood
  <1>1. CASE Next
    <2>1. PICK p \in Procs :
            \/ \E q \in Procs, sig \in Sigs : Kill(p, q, sig)
            \/ \E sig \in Sigs, act \in Handlers : Sigaction(p, sig, act)
            \/ \E how \in {"block", "unblock", "setmask"}, set \in Masks : Sigprocmask(p, how, set)
            \/ \E q \in Procs : Fork(p, q)
            \/ Sigreturn(p) \/ Execve(p) \/ OtherCall(p) \/ Exit(p)
            \/ Wait4(p) \/ ResumeWait4(p) \/ Tick(p) \/ UserCode(p)
      BY <1>1 DEF Next
    <2>2. ASSUME OtherCall(p)
          PROVE  StepGood
      <3>1. st[p].life = "user" /\ Commit(st, p, Return(st[p], "ok")) /\ Sound(st[p]) /\ Stacked(st[p])
        BY <2>2 DEF OtherCall, SoundInv, StackInv
      <3> QED BY <3>1, CallGood
    <2>3. ASSUME Wait4(p)
          PROVE  StepGood
      BY <2>3, ReapGood, SleepGood DEF Wait4, Children
    <2>4. StepGood
      BY <2>1, <2>2, <2>3, KillGood, SigactionGood, SigprocmaskGood, ForkGood, SigreturnIs, ExecveGood,
         ExitGood, ResumeGood, TickGood, UserCodeGood
    <2>5. UNCHANGED parent \/ \E q \in Procs : parent' = [parent EXCEPT ![q] = p]
      BY <2>1 DEF Kill, Sigaction, Sigprocmask, Fork, Sigreturn, Execve, OtherCall, Exit, Wait4,
                  ResumeWait4, Reap, SleepInWait4, Tick, UserCode
    <2>6. parent' \in [Procs -> Procs \union {0}]
      BY <2>5 DEF StackInv
    <2> QED BY <2>4, <2>6 DEF StepGood, StackInv
  <1>2. CASE UNCHANGED vars
    BY <1>2, NoneLost DEF vars, StackInv, StepGood
  <1> QED BY <1>1, <1>2

(* In every reachable state the frames on each stack are those of its      *)
(* history, and each level's mask holds what the levels below shut out.    *)
THEOREM SignalsStacked == Spec => []StackInv
  <1>1. SoundInv /\ StackInv /\ [Next]_vars => StackInv'
    BY NextStacked
  <1> QED BY InitStacked, <1>1, SignalsSound, PTL DEF Spec

(* A handler never runs on top of one that shuts its signal out, unless    *)
(* the code in between let the signal in, for every number of processes,   *)
(* signals and nested handlers.                                            *)
THEOREM SignalsExclude == Spec => []HandlersExclude
  <1>1. StackInv => HandlersExclude
    <2> SUFFICES ASSUME StackInv
                 PROVE  HandlersExclude
      OBVIOUS
    <2>1. TypeOK
      BY DEF TypeOK, StackInv, Stacked, Typed, Lives
    <2>2. ASSUME NEW p \in Procs, NEW j \in 2..Len(st[p].hist), NEW i \in 1..(j - 1),
                 st[p].hist[j].sig \in st[p].hist[i].shut
          PROVE  \E k \in i..(j - 1) : st[p].hist[j].sig \in st[p].hist[k].opened
      <3> DEFINE h == st[p].hist
      <3>1. h \in Seq(Entries) /\ Nested(h)
        BY DEF StackInv, Stacked, Typed
      <3>2. Len(h) \in Nat /\ j \in 1..Len(h)
        BY SMT, <3>1
      <3>3. h[j].sig \notin Unblockable
        <4> HIDE DEF h
        <4>1. h[j] \in Entries
          BY <3>1, <3>2, ElementOfSeq
        <4> QED BY <4>1 DEF Entries
      <3> HIDE DEF h
      <3>4. LetIn(h, h[j].sig, i, j - 1)
        BY <2>2, <3>1, <3>2, <3>3 DEF Nested, h
      <3> QED BY <3>4 DEF LetIn, h
    <2> QED BY <2>1, <2>2 DEF HandlersExclude
  <1> QED BY <1>1, SignalsStacked, PTL

(* sigreturn goes back to the interrupted place, result, registers and     *)
(* mask, however deeply handlers are nested.                               *)
THEOREM SignalsRestore == Spec => SigreturnRestores
  <1>1. ASSUME SoundInv, StackInv, [Next]_vars
        PROVE  [\A p \in Procs : Sigreturn(p) =>
                  LET was == st[p].hist[Len(st[p].hist)] IN
                  /\ st'[p].ctx = [was.ctx EXCEPT !.rcx = "rip"]
                  /\ st'[p].blocked = was.mask]_vars
    BY <1>1, SigreturnIs
  <1> QED BY <1>1, SignalsSound, SignalsStacked, PTL DEF Spec, SigreturnRestores

(* No step loses a pending signal that its action does not ignore, and a   *)
(* call that returns leaves only stops pending and unblocked.              *)
THEOREM SignalsAreKept == Spec => SignalsKept
  <1> DEFINE A == \A p \in Procs :
       /\ \A sig \in st[p].pending \ st'[p].pending :
            \/ st'[p].life \in {"zombie", "none"}
            \/ Ignored(st'[p], sig)
            \/ Len(st'[p].frames) > 0 /\ st'[p].frames[Len(st'[p].frames)].signum = sig
       /\ (OtherCall(p) /\ st'[p].life = "user" /\ Len(st'[p].frames) = Len(st[p].frames))
            => \A sig \in st'[p].pending \ st'[p].blocked : StopsByDefault(st'[p], sig)
  <1>1. ASSUME SoundInv, StackInv, [Next]_vars
        PROVE  [A]_vars
    <2>1. StepGood
      BY <1>1, NextStacked
    <2>2. ASSUME NEW p \in Procs, OtherCall(p), st'[p].life = "user",
                 Len(st'[p].frames) = Len(st[p].frames)
          PROVE  \A sig \in st'[p].pending \ st'[p].blocked : StopsByDefault(st'[p], sig)
      <3>1. st[p].life = "user" /\ Sound(st[p]) /\ Stacked(st[p]) /\ st'[p] = Return(st[p], "ok")
        BY <1>1, <2>2 DEF OtherCall, Commit, SoundInv, StackInv
      <3>2. Kept(st[p], st'[p])
        BY <3>1, ReturnStacked
      <3> QED BY <2>2, <3>2 DEF Kept
    <2> QED BY <2>1, <2>2 DEF StepGood, NoLoss
  <1>2. SignalsKept <=> [][A]_vars
    BY DEF SignalsKept
  <1> HIDE DEF A
  <1> QED BY <1>1, <1>2, SignalsSound, SignalsStacked, PTL DEF Spec
=============================================================================
