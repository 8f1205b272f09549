------------------------------- MODULE Signals -------------------------------
(***************************************************************************)
(* Signals: the SignalManager (services/ipc/mod.rs), the calls that use it *)
(* and the two places that deliver a signal, the return from a system call *)
(* and the timer tick (services/posix/process.rs).                         *)
(*                                                                         *)
(* A system call that does not sleep is one step, return path included:    *)
(* SYSCALL masks interrupts.  A process is in "user" mode, "asleep" or     *)
(* "woken" in wait4, a "zombie", or "none": not in PROCESS_TABLE.  User    *)
(* code is any code that returns from its handlers in the order they were  *)
(* entered and leaves the frames on its stack alone.                       *)
(***************************************************************************)
EXTENDS Integers, Sequences, FiniteSets

CONSTANTS Procs,         \* pids
          BootInit,      \* the process that exists at the start
          Sigs,          \* the signal numbers in use
          Handlers,      \* the SigActions a program installs
          Masks,         \* the sets it passes to sigprocmask
          StackFrames,   \* how many SignalFrames its stack has room for
          MaxCalls       \* bound on the calls that change signal state

SigSet == SUBSET (1..64)
SigAction == [handler : {"DFL", "IGN", "user"}, mask : SigSet, flags : SUBSET {"nodefer", "resethand"}]

ASSUME SigsAssumption == Sigs \subseteq 1..31
ASSUME ProgramAssumption ==
  Handlers \subseteq SigAction /\ Masks \subseteq SigSet /\ StackFrames \in Nat

VARIABLES st,      \* what the system holds of each process, and its user context
          parent,  \* ppid
          calls

vars == <<st, parent, calls>>

SIGKILL == 9
SIGSEGV == 11
SIGSTOP == 19
Unblockable == {SIGKILL, SIGSTOP}

(* SIGCHLD, SIGURG, SIGWINCH; SIGSTOP, SIGTSTP, SIGTTIN, SIGTTOU.          *)
is_default_ignore(sig) == sig \in {17, 23, 28}
is_default_stop(sig) == sig \in {19, 20, 21, 22}

Default == [handler |-> "DFL", mask |-> {}, flags |-> {}]
NoActions == [sig \in Sigs |-> Default]

(* The user's registers: where it runs (0 outside handlers, or the signal  *)
(* handled), the result register, the general registers, and rcx with r11, *)
(* which SYSCALL and SYSRET use for the return address and the flags.      *)
(* hist is a history variable: what each frame on the stack interrupted.   *)
Work == "work"
Context(pc, rax) == [pc |-> pc, rax |-> rax, regs |-> Work, rcx |-> "rip"]

Fresh(life) == [life |-> life, pending |-> {}, blocked |-> {}, actions |-> NoActions,
                ctx |-> Context(0, "ok"), frames |-> <<>>, hist |-> <<>>, killed_by |-> 0]

Init ==
  /\ st = [p \in Procs |-> Fresh(IF p = BootInit THEN "user" ELSE "none")]
  /\ parent = [p \in Procs |-> 0]
  /\ calls = 0

-----------------------------------------------------------------------------
(* SignalManager.  s is what the system holds of one process.              *)

Woken(s) == [s EXCEPT !.life = IF @ = "asleep" THEN "woken" ELSE @]

FaultySendSignal(s, sig) == Woken([s EXCEPT !.pending = {sig}])

send_signal(s, sig) == Woken([s EXCEPT !.pending = @ \union {sig}])

has_unblocked_signals(s) == s.pending \ s.blocked # {}

set_procmask(s, how, set) ==
  LET effective == set \ Unblockable IN
  [s EXCEPT !.blocked = CASE how = "block"   -> @ \union effective
                          [] how = "unblock" -> @ \ effective
                          [] how = "setmask" -> effective]

set_action(s, sig, act) == IF sig \in Unblockable THEN s ELSE [s EXCEPT !.actions[sig] = act]

cleanup_process(s) == [s EXCEPT !.pending = {}, !.blocked = {}, !.actions = NoActions]

-----------------------------------------------------------------------------
(* Delivery.                                                               *)

Ignored(s, sig) ==
  \/ s.actions[sig].handler = "IGN"
  \/ s.actions[sig].handler = "DFL" /\ is_default_ignore(sig)

StopsByDefault(s, sig) == s.actions[sig].handler = "DFL" /\ is_default_stop(sig)

Front(seq) == SubSeq(seq, 1, Len(seq) - 1)

Least(S) == CHOOSE x \in S : \A y \in S : x <= y

(* The scan of the unblocked signals in numeric order.  Ignored ones are   *)
(* cleared on the way, stops are passed over and stay pending, and the     *)
(* first other one is cleared and returned (0: there is none).             *)
next_unblocked_signal(s) ==
  LET unblocked == s.pending \ s.blocked
      taken == {i \in unblocked : ~ Ignored(s, i) /\ ~ StopsByDefault(s, i)}
      sig == IF taken = {} THEN 0 ELSE Least(taken)
      dropped == {i \in unblocked : Ignored(s, i) /\ (sig = 0 \/ i < sig)}
  IN [sig |-> sig, s |-> [s EXCEPT !.pending = @ \ (dropped \union {sig})]]

FaultyMaskUpdate(s, sig, act, blocked) ==
  LET deferred == IF "nodefer" \in act.flags THEN {} ELSE {sig}
      masked == set_procmask(s, "setmask", blocked \union deferred)
  IN IF "resethand" \in act.flags THEN set_action(masked, sig, Default) ELSE masked

update_signal_mask_and_disposition(s, sig, act, blocked) ==
  LET deferred == IF "nodefer" \in act.flags THEN {} ELSE {sig}
      masked == set_procmask(s, "setmask", blocked \union act.mask \union deferred)
  IN IF "resethand" \in act.flags THEN set_action(masked, sig, Default) ELSE masked

(* The SignalFrame on the user's stack: every register but rcx and r11,    *)
(* whose places hold the address and the flags to return to.               *)
SignalFrame(s, sig) ==
  [signum |-> sig, old_mask |-> s.blocked, pc |-> s.ctx.pc, rax |-> s.ctx.rax, regs |-> s.ctx.regs]

EnterHandler(s, sig) ==
  update_signal_mask_and_disposition(
    [s EXCEPT !.frames = Append(@, SignalFrame(s, sig)),
              !.ctx.pc = sig, !.ctx.regs = "arguments"],
    sig, s.actions[sig], s.blocked)

FrameFits(s) == Len(s.frames) < StackFrames

sys_exit_signal(s, sig) == [s EXCEPT !.life = "zombie", !.killed_by = sig]

(* A pending signal kills, is handled, or kills because its frame cannot   *)
(* be written.                                                             *)
deliver_signal_to_user(s, sig) ==
  IF FrameFits(s) THEN EnterHandler(s, sig) ELSE sys_exit_signal(s, SIGSEGV)

check_and_deliver_signals(s) ==
  LET found == next_unblocked_signal(s) IN
  IF found.sig = 0 THEN found.s
  ELSE IF s.actions[found.sig].handler = "DFL" THEN sys_exit_signal(found.s, found.sig)
  ELSE deliver_signal_to_user(found.s, found.sig)

terminate_cpu_bound_task(s, sig) == cleanup_process(sys_exit_signal(s, sig))

check_and_deliver_signals_irq(s) ==
  LET found == next_unblocked_signal(s) IN
  IF found.sig = 0 THEN found.s
  ELSE IF s.actions[found.sig].handler = "DFL" THEN terminate_cpu_bound_task(found.s, found.sig)
  ELSE IF FrameFits(s) THEN EnterHandler(found.s, found.sig)
  ELSE terminate_cpu_bound_task(found.s, SIGSEGV)

(* The end of every system call but sigreturn: the result goes to rax,     *)
(* then signals are looked at, then SYSRET.                                *)
FaultyReturn(s, rax) ==
  LET t == check_and_deliver_signals(s) IN [t EXCEPT !.ctx.rax = rax, !.ctx.rcx = "rip"]

dispatch_syscall(s, rax) ==
  LET t == check_and_deliver_signals([s EXCEPT !.ctx.rax = rax]) IN [t EXCEPT !.ctx.rcx = "rip"]

-----------------------------------------------------------------------------
(* What a new frame interrupted, which signals its handler asked to have   *)
(* shut out, and which ones the code running on top of it let in again.    *)
(* s is the process with its call done, t the same after the delivery.     *)
Recorded(s, t, irq) ==
  LET sig == t.ctx.pc act == s.actions[sig]
      entry == [sig |-> sig, ctx |-> s.ctx, mask |-> s.blocked, irq |-> irq, opened |-> {},
                shut |-> act.mask \union (IF "nodefer" \in act.flags THEN {} ELSE {sig})]
  IN IF Len(t.frames) = Len(s.frames) THEN t ELSE [t EXCEPT !.hist = Append(@, entry)]

Return(s, rax) == Recorded([s EXCEPT !.ctx.rax = rax], dispatch_syscall(s, rax), FALSE)

(* Commits a step that leaves process p as t and the others as in base; a  *)
(* death wakes the parent.                                                 *)
Commit(base, p, t) ==
  st' = [q \in Procs |-> IF q = p THEN t
                         ELSE IF t.life = "zombie" /\ q = parent[p] THEN Woken(base[q])
                         ELSE base[q]]

Called == calls < MaxCalls /\ calls' = calls + 1

-----------------------------------------------------------------------------
(* The system calls.                                                       *)

InTable(p) == st[p].life # "none"

Kill(p, q, sig) ==
  LET base == [st EXCEPT ![q] = send_signal(@, sig)] IN
  /\ st[p].life = "user" /\ InTable(q) /\ Called
  /\ Commit(base, p, Return(base[p], "ok"))
  /\ UNCHANGED parent

Sigaction(p, sig, act) ==
  /\ st[p].life = "user" /\ sig \notin Unblockable /\ Called
  /\ Commit(st, p, Return(set_action(st[p], sig, act), "ok"))
  /\ UNCHANGED parent

(* What it unblocks is on record as let in by the code at this depth.      *)
Sigprocmask(p, how, set) ==
  LET s == set_procmask(st[p], how, set)
      opened == [s EXCEPT !.hist[Len(s.hist)].opened = @ \union (st[p].blocked \ s.blocked)]
  IN /\ st[p].life = "user" /\ Called
     /\ Commit(st, p, Return(IF s.hist = <<>> THEN s ELSE opened, "ok"))
     /\ UNCHANGED parent

(* A handler returns: its frame gives back the mask and the registers.     *)
(* SYSRET leaves the return address in rcx.  No signal is looked at.       *)
Sigreturn(p) ==
  LET frame == st[p].frames[Len(st[p].frames)]
      restored == set_procmask(st[p], "setmask", frame.old_mask) IN
  /\ st[p].life = "user" /\ st[p].frames # <<>> /\ st[p].ctx.pc = frame.signum
  /\ st' = [st EXCEPT ![p] = [restored EXCEPT
       !.frames = Front(@), !.hist = Front(@),
       !.ctx = [pc |-> frame.pc, rax |-> frame.rax, regs |-> frame.regs, rcx |-> "rip"]]]
  /\ UNCHANGED <<parent, calls>>

(* The child has the parent's mask, actions and user memory; what the maps *)
(* hold as pending for its pid stays.                                      *)
Fork(p, q) ==
  LET child == [set_procmask(st[q], "setmask", st[p].blocked) EXCEPT
                  !.life = "user", !.actions = st[p].actions, !.frames = st[p].frames, !.hist = st[p].hist,
                  !.ctx = [st[p].ctx EXCEPT !.rax = "child", !.rcx = "rip"]]
  IN /\ st[p].life = "user" /\ ~ InTable(q) /\ Called
     /\ Commit([st EXCEPT ![q] = child], p, Return(st[p], "ok"))
     /\ parent' = [parent EXCEPT ![q] = p]

(* A new image: a fresh stack and context; the SignalManager is not told.  *)
Execve(p) ==
  /\ st[p].life = "user" /\ Called
  /\ Commit(st, p, Return([st[p] EXCEPT !.frames = <<>>, !.hist = <<>>, !.ctx = Context(0, "ok")], "ok"))
  /\ UNCHANGED parent

(* Any other call that does not sleep.                                     *)
OtherCall(p) ==
  /\ st[p].life = "user"
  /\ Commit(st, p, Return(st[p], "ok"))
  /\ UNCHANGED <<parent, calls>>

Exit(p) ==
  /\ st[p].life = "user"
  /\ Commit(st, p, [st[p] EXCEPT !.life = "zombie", !.killed_by = 0])
  /\ UNCHANGED <<parent, calls>>

-----------------------------------------------------------------------------
(* wait4, for a child that is still running: one pass of its loop reaps a  *)
(* zombie or puts the caller to sleep.                                     *)

Children(p) == {q \in Procs : InTable(q) /\ parent[q] = p}

(* The table entry and the signal state go, and the memory with them.      *)
Reaped(s) == [cleanup_process(s) EXCEPT
  !.life = "none", !.ctx = Context(0, "ok"), !.frames = <<>>, !.hist = <<>>, !.killed_by = 0]

Reap(p, q) ==
  /\ st[q].life = "zombie"
  /\ Commit([st EXCEPT ![q] = Reaped(@)], p, Return([st[p] EXCEPT !.life = "user"], "ok"))
  /\ UNCHANGED <<parent, calls>>

SleepInWait4(p) ==
  /\ Children(p) # {} /\ \A q \in Children(p) : st[q].life # "zombie"
  /\ st' = [st EXCEPT ![p].life = "asleep"]
  /\ UNCHANGED <<parent, calls>>

Wait4(p) == st[p].life = "user" /\ ((\E q \in Children(p) : Reap(p, q)) \/ SleepInWait4(p))

(* Back on the processor, an unblocked signal ends the call with EINTR     *)
(* before the children are looked at again.                                *)
ResumeWait4(p) ==
  /\ st[p].life = "woken"
  /\ IF has_unblocked_signals(st[p])
     THEN /\ Commit(st, p, Return([st[p] EXCEPT !.life = "user"], "EINTR"))
          /\ UNCHANGED <<parent, calls>>
     ELSE (\E q \in Children(p) : Reap(p, q)) \/ SleepInWait4(p)

-----------------------------------------------------------------------------
(* The timer tick that resumes p in user mode, and the user's own code.    *)

Tick(p) ==
  /\ st[p].life = "user" /\ has_unblocked_signals(st[p])
  /\ Commit(st, p, Recorded(st[p], check_and_deliver_signals_irq(st[p]), TRUE))
  /\ UNCHANGED <<parent, calls>>

UserCode(p) ==
  /\ st[p].life = "user"
  /\ st' = [st EXCEPT ![p].ctx = [@ EXCEPT !.rax = Work, !.regs = Work, !.rcx = Work]]
  /\ UNCHANGED <<parent, calls>>

Next ==
  \E p \in Procs :
    \/ \E q \in Procs, sig \in Sigs : Kill(p, q, sig)
    \/ \E sig \in Sigs, act \in Handlers : Sigaction(p, sig, act)
    \/ \E how \in {"block", "unblock", "setmask"}, set \in Masks : Sigprocmask(p, how, set)
    \/ \E q \in Procs : Fork(p, q)
    \/ Sigreturn(p) \/ Execve(p) \/ OtherCall(p) \/ Exit(p)
    \/ Wait4(p) \/ ResumeWait4(p) \/ Tick(p) \/ UserCode(p)

Spec == Init /\ [][Next]_vars

-----------------------------------------------------------------------------
(* Lives, masks, pending sets and actions have their types, and there are  *)
(* as many frames on a process's stack as it has handlers to return from.  *)
TypeOK ==
  \A p \in Procs :
    /\ st[p].life \in {"none", "user", "asleep", "woken", "zombie"}
    /\ st[p].pending \subseteq Sigs /\ st[p].blocked \in SigSet
    /\ st[p].actions \in [Sigs -> SigAction]
    /\ Len(st[p].frames) = Len(st[p].hist) /\ Len(st[p].frames) <= StackFrames
    /\ parent[p] \in Procs \union {0}

(* SIGKILL and SIGSTOP are never blocked and always have their default     *)
(* action, whatever mask a handler is installed with, a frame brings back  *)
(* or fork copies.                                                         *)
Uncatchable ==
  \A p \in Procs :
    /\ st[p].blocked \intersect Unblockable = {}
    /\ \A sig \in Sigs \intersect Unblockable : st[p].actions[sig] = Default

(* A handler is not entered while a handler that shuts its signal out is   *)
(* on the stack, unless the code running in between let the signal in      *)
(* itself: entering a handler adds to the mask, and sigreturn brings back  *)
(* the mask of the code it goes back to.  Stack and history agree (TypeOK). *)
HandlersExclude ==
  TypeOK /\ \A p \in Procs : LET h == st[p].hist IN
    \A j \in 2..Len(h) : \A i \in 1..(j - 1) :
      h[j].sig \in h[i].shut => \E k \in i..(j - 1) : h[j].sig \in h[k].opened

(* The maps hold nothing of a process that is gone: a signal sent to a     *)
(* zombie must not hit the next process with its pid.                      *)
NothingLeftBehind == \A p \in Procs : st[p].life = "none" => st[p] = Fresh("none")

(* sigreturn takes the process back to exactly what was interrupted: the   *)
(* place, the result of the call whose return delivered the signal, the    *)
(* registers and the mask, also for handlers that interrupt handlers.      *)
SigreturnRestores ==
  [][\A p \in Procs : Sigreturn(p) =>
       LET was == st[p].hist[Len(st[p].hist)] IN
       /\ st'[p].ctx = [was.ctx EXCEPT !.rcx = "rip"]
       /\ st'[p].blocked = was.mask]_vars

(* A signal is neither lost nor stuck.  A pending one goes away only by    *)
(* entering its handler, by killing the process, or because its action     *)
(* ignores it; and a system call that goes back to where it came from      *)
(* leaves no unblocked one behind but those whose default action is to     *)
(* stop, which hide no signal behind them.                                 *)
SignalsKept ==
  [][\A p \in Procs :
       /\ \A sig \in st[p].pending \ st'[p].pending :
            \/ st'[p].life \in {"zombie", "none"}
            \/ Ignored(st'[p], sig)
            \/ Len(st'[p].frames) > 0 /\ st'[p].frames[Len(st'[p].frames)].signum = sig
       /\ (OtherCall(p) /\ st'[p].life = "user" /\ Len(st'[p].frames) = Len(st[p].frames))
            => \A sig \in st'[p].pending \ st'[p].blocked : StopsByDefault(st'[p], sig)]_vars
=============================================================================
