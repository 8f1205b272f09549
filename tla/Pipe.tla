-------------------------------- MODULE Pipe --------------------------------
(***************************************************************************)
(* A pipe shared by several processes: blocking reads and writes through   *)
(* the file handles that fork made common, wait queues and wakeups, close, *)
(* signals that interrupt a sleeper, exit, and preemption.                 *)
(*                                                                         *)
(* Here the buffer is only its fill level; PipeBuffer models its bytes.    *)
(* As in Processes, at[t] is where a process stands between two lock       *)
(* sections and intr is the interrupt flag.  Handles made by sys_pipe are  *)
(* never O_NONBLOCK, so the EAGAIN branches are left out.                  *)
(***************************************************************************)
EXTENDS Scheduler

CONSTANTS
  Forked,     \* the processes that share the pipe, in the order of their pids
  Size,       \* PIPE_BUFFER_SIZE
  Counts,     \* the byte counts that users ask for
  Interrupts  \* what kill may do: "caught" signals, and ones "masked" by the target

Procs == {Forked[i] : i \in 1 .. Len(Forked)}

ASSUME PipeAssumption ==
  /\ Forked \in Seq(Pcb \ {Idle, BootInit}) /\ Forked # <<>>
  /\ \A i, j \in 1 .. Len(Forked) : Forked[i] = Forked[j] => i = j
  /\ Len(Forked) <= MaxPid
  /\ Size \in Nat \ {0}
  /\ Counts \subseteq Nat
  /\ Interrupts \subseteq {"caught", "masked"}

VARIABLES
  len,        \* PipeBuffer.len
  open,       \* PipeBuffer.readers_open and writers_open
  waiters,    \* PipeBuffer.read_waiters and write_waiters
  holders,    \* processes with a descriptor for the handle of each end
  offset,     \* FileHandle.offset of each end: who holds its spinlock
  pending,    \* pids with a pending signal that is not blocked
  at,         \* where each process stands
  call,       \* its arguments: the end it uses and the count
  wakes,      \* its local to_wake_readers or to_wake_writers
  intr        \* interrupts enabled

pipeVars == <<len, open, waiters, holders, offset>>
procVars == <<pending, at, call, wakes, intr>>
vars == <<schedVars, pipeVars, procVars>>

End == {"r", "w"}

Other(e) == IF e = "r" THEN "w" ELSE "r"

Inside == {"lock", "mark", "pipe", "wake", "unmark", "switch", "resume", "check",
           "cancel", "unlock"}

Label == {"user", "idle", "ret", "x_switch", "stuck"} \cup Inside

NoCall == [end |-> "r", count |-> 0]

-----------------------------------------------------------------------------
(* A reachable state: a parent made the pipe, forked all of Procs, which   *)
(* share its two handles, and closed its own descriptors.  The parent, if  *)
(* it is init, is off the CPU for good (see Processes!ReadyIsQueued).      *)
Init ==
  /\ pid = [t \in Pcb |-> IF t \in Procs THEN CHOOSE i \in 1 .. Len(Forked) : Forked[i] = t ELSE 0]
  /\ table = [p \in Pid |-> CASE p = 0 -> Idle
                              [] p \in 1 .. Len(Forked) -> Forked[p]
                              [] OTHER -> NoPcb]
  /\ state = [t \in Pcb |-> IF t = Forked[1] THEN "Running" ELSE "Ready"]
  /\ readyQueue = Tail(Forked)
  /\ current = Forked[1]
  /\ currentPid = 1
  /\ len = 0
  /\ open = [e \in End |-> 1]
  /\ waiters = [e \in End |-> <<>>]
  /\ holders = [e \in End |-> Procs]
  /\ offset = [e \in End |-> NoPcb]
  /\ pending = {}
  /\ at = [t \in Pcb |-> IF t = Idle THEN "idle" ELSE "user"]
  /\ call = [t \in Pcb |-> NoCall]
  /\ wakes = [t \in Pcb |-> <<>>]
  /\ intr = TRUE

At(l) == at[current] = l

Goto(l) == at' = [at EXCEPT ![current] = l]

Step(from, to) == At(from) /\ Goto(to)

-----------------------------------------------------------------------------
(* sys_read and sys_write, then FileHandle::read and write, which hold the *)
(* offset lock around the whole of read_with_flags and write_with_flags.   *)
Call(e, n) ==
  /\ Step("user", "lock")
  /\ current \in holders[e]
  /\ call' = [call EXCEPT ![current] = [end |-> e, count |-> n]]
  /\ intr' = FALSE
  /\ UNCHANGED <<schedVars, pipeVars, pending, wakes>>

(* SpinLock::lock.  The caller's interrupts are masked and there is one    *)
(* CPU: if the lock is taken, it spins for ever and nothing else happens.  *)
LockOffset ==
  LET e == call[current].end
  IN  /\ Step("lock", "mark")
      /\ offset[e] = NoPcb
      /\ offset' = [offset EXCEPT ![e] = current]
      /\ UNCHANGED <<schedVars, len, open, waiters, holders, pending, call, wakes, intr>>

Mark ==
  /\ Step("mark", "pipe")
  /\ MarkCurrentBlocked
  /\ UNCHANGED <<pipeVars, pending, call, wakes, intr>>

(* add_waiter *)
AddWaiter(q, p) == IF \E i \in 1 .. Len(q) : q[i] = p THEN q ELSE Append(q, p)

FaultyRemoveWaiter(q, p) == q  \* the pid stays

(* remove_waiter; add_waiter has let a pid in only once *)
RemoveWaiter(q, p) ==
  IF \E i \in 1 .. Len(q) : q[i] = p
  THEN LET i == CHOOSE i \in 1 .. Len(q) : q[i] = p
       IN  SubSeq(q, 1, i - 1) \o SubSeq(q, i + 1, Len(q))
  ELSE q

Min(a, b) == IF a < b THEN a ELSE b

(* The section under the pipe lock: end of file or EPIPE, which return at  *)
(* once; nothing to read or no room, so register and sleep (the second     *)
(* look is under the same lock and finds the same); or move the bytes and  *)
(* note whom to wake.                                                      *)
ReadEof ==
  /\ call[current].end = "r" /\ len = 0 /\ open["w"] = 0
  /\ Step("pipe", "unlock")
  /\ UNCHANGED <<schedVars, pipeVars, pending, call, wakes, intr>>

WriteEpipe ==
  /\ call[current].end = "w" /\ open["r"] = 0
  /\ Step("pipe", "unlock")
  /\ UNCHANGED <<schedVars, pipeVars, pending, call, wakes, intr>>

MustWait(e) ==
  IF e = "r" THEN len = 0 /\ open["w"] > 0 ELSE len = Size /\ open["r"] > 0

Register ==
  LET e == call[current].end
  IN  /\ MustWait(e)
      /\ Step("pipe", "switch")
      /\ waiters' = [waiters EXCEPT ![e] = AddWaiter(@, currentPid)]
      /\ UNCHANGED <<schedVars, len, open, holders, offset, pending, call, wakes, intr>>

ReadBytes ==
  LET n == Min(call[current].count, len)
      wake == len = Size /\ len - n < Size /\ waiters["w"] # <<>>
  IN  /\ call[current].end = "r" /\ len > 0
      /\ Step("pipe", "wake")
      /\ len' = len - n
      /\ waiters' = [waiters EXCEPT !["w"] = IF wake THEN Tail(@) ELSE @]
      /\ wakes' = [wakes EXCEPT ![current] = IF wake THEN <<Head(waiters["w"])>> ELSE <<>>]
      /\ UNCHANGED <<schedVars, open, holders, offset, pending, call, intr>>

FaultyWriteBytes ==  \* wakes only when the pipe becomes full
  LET n == Min(call[current].count, Size - len)
      wake == len < Size /\ len + n = Size
  IN  /\ call[current].end = "w" /\ open["r"] > 0 /\ len < Size
      /\ Step("pipe", "wake")
      /\ len' = len + n
      /\ waiters' = [waiters EXCEPT !["r"] = IF wake THEN <<>> ELSE @]
      /\ wakes' = [wakes EXCEPT ![current] = IF wake THEN waiters["r"] ELSE <<>>]
      /\ UNCHANGED <<schedVars, open, holders, offset, pending, call, intr>>

WriteBytes ==
  LET n == Min(call[current].count, Size - len)
      wake == len = 0 /\ n > 0
  IN  /\ call[current].end = "w" /\ open["r"] > 0 /\ len < Size
      /\ Step("pipe", "wake")
      /\ len' = len + n
      /\ waiters' = [waiters EXCEPT !["r"] = IF wake THEN <<>> ELSE @]
      /\ wakes' = [wakes EXCEPT ![current] = IF wake THEN waiters["r"] ELSE <<>>]
      /\ UNCHANGED <<schedVars, open, holders, offset, pending, call, intr>>

(* The rest of a call that moved bytes *)
Wake ==
  /\ Step("wake", "unmark")
  /\ WakeTasks(wakes[current])
  /\ wakes' = [wakes EXCEPT ![current] = <<>>]
  /\ UNCHANGED <<pipeVars, pending, call, intr>>

FaultyUnmark ==  \* the state is not restored
  /\ Step("unmark", "unlock")
  /\ UNCHANGED <<schedVars, pipeVars, pending, call, wakes, intr>>

Unmark ==
  /\ Step("unmark", "unlock")
  /\ MarkCurrentRunning
  /\ UNCHANGED <<pipeVars, pending, call, wakes, intr>>

(* The rest of a call that sleeps *)
Switch ==
  /\ Step("switch", "resume")
  /\ SwitchOutCurrent
  /\ intr' = TRUE
  /\ UNCHANGED <<pipeVars, pending, call, wakes>>

Resume ==
  /\ Step("resume", "check")
  /\ MarkCurrentRunning
  /\ UNCHANGED <<pipeVars, pending, call, wakes, intr>>

CheckSignals ==
  /\ Step("check", IF pid[current] \in pending THEN "cancel" ELSE "mark")
  /\ UNCHANGED <<schedVars, pipeVars, pending, call, wakes, intr>>

Cancel ==
  LET e == call[current].end
  IN  /\ Step("cancel", "unlock")
      /\ waiters' = [waiters EXCEPT ![e] = RemoveWaiter(@, pid[current])]
      /\ UNCHANGED <<schedVars, len, open, holders, offset, pending, call, wakes, intr>>

(* The offset guard is dropped, and with it the interrupt flag goes back   *)
(* to what it was when the lock was taken: masked.                         *)
UnlockOffset ==
  /\ Step("unlock", "ret")
  /\ offset' = [offset EXCEPT ![call[current].end] = NoPcb]
  /\ call' = [call EXCEPT ![current] = NoCall]
  /\ intr' = FALSE
  /\ UNCHANGED <<schedVars, len, open, waiters, holders, pending, wakes>>

(* check_and_deliver_signals runs the handler; then back to user mode *)
SyscallReturn ==
  /\ Step("ret", "user")
  /\ pending' = pending \ {currentPid}
  /\ intr' = TRUE
  /\ UNCHANGED <<schedVars, pipeVars, call, wakes>>

-----------------------------------------------------------------------------
(* sys_close, and the Drop of the end when its last descriptor goes.  It   *)
(* all happens under the caller's own Process lock, which wake_tasks takes *)
(* too: a caller that finds itself among the waiters spins for ever.       *)
Close(e) ==
  LET last == holders[e] = {current}
      drained == IF last THEN waiters[Other(e)] ELSE <<>>
      self == \E i \in 1 .. Len(drained) : table[drained[i]] = current
  IN  /\ Step("user", IF self THEN "stuck" ELSE "ret")
      /\ current \in holders[e]
      /\ holders' = [holders EXCEPT ![e] = @ \ {current}]
      /\ open' = [open EXCEPT ![e] = IF last THEN 0 ELSE @]
      /\ waiters' = [waiters EXCEPT ![Other(e)] = IF last THEN <<>> ELSE @]
      /\ IF self THEN UNCHANGED schedVars ELSE WakeTasks(drained)
      /\ intr' = FALSE
      /\ UNCHANGED <<len, offset, pending, call, wakes>>

(* kill with a signal that the target catches or that it has masked: the   *)
(* sleeper is woken in both cases.                                         *)
Kill(t, kind) ==
  /\ Step("user", "ret")
  /\ pending' = IF kind = "caught" THEN pending \cup {pid[t]} ELSE pending
  /\ WakeTask(pid[t])
  /\ intr' = FALSE
  /\ UNCHANGED <<pipeVars, call, wakes>>

(* sys_exit: its descriptors stay in the Zombie, whose Process is kept     *)
(* alive by the reference in its own abandoned kernel stack.               *)
Exit ==
  /\ Step("user", "x_switch")
  /\ state' = [state EXCEPT ![current] = "Zombie"]
  /\ intr' = FALSE
  /\ UNCHANGED <<pid, table, readyQueue, current, currentPid, pipeVars, pending, call, wakes>>

ExitSwitch ==
  /\ At("x_switch")
  /\ SwitchOutCurrent
  /\ intr' = TRUE
  /\ UNCHANGED <<pipeVars, pending, at, call, wakes>>

(* The timer interrupt: reschedule, then deliver to a user-mode frame *)
Tick ==
  /\ intr
  /\ TimerTickSchedule
  /\ pending' = IF at[current'] = "user" THEN pending \ {currentPid'} ELSE pending
  /\ UNCHANGED <<pipeVars, at, call, wakes, intr>>

-----------------------------------------------------------------------------
Syscall ==
  \/ \E e \in End, n \in Counts : Call(e, n)
  \/ \E e \in End : Close(e)
  \/ \E t \in Procs, kind \in Interrupts : Kill(t, kind)
  \/ Exit

KernelStep ==
  \/ LockOffset \/ Mark \/ ReadEof \/ WriteEpipe \/ Register \/ ReadBytes \/ WriteBytes
  \/ Wake \/ Unmark \/ Switch \/ Resume \/ CheckSignals \/ Cancel \/ UnlockOffset
  \/ SyscallReturn \/ ExitSwitch

Next == Syscall \/ KernelStep \/ Tick

Spec == Init /\ [][Next]_vars

-----------------------------------------------------------------------------
(* Every variable has its type; the buffer is never over- or underfilled. *)
TypeOK ==
  /\ SchedTypeOK
  /\ len \in 0 .. Size
  /\ open \in [End -> {0, 1}]
  /\ waiters \in [End -> Seq(Pid)]
  /\ holders \in [End -> SUBSET Procs]
  /\ offset \in [End -> Procs \cup {NoPcb}]
  /\ pending \subseteq Pid
  /\ at \in [Pcb -> Label]
  /\ call \in [Pcb -> [end : End, count : Counts \cup {0}]]
  /\ wakes \in [Pcb -> Seq(Pid)]
  /\ intr \in BOOLEAN

Waits(t, e) == \E i \in 1 .. Len(waiters[e]) : waiters[e][i] = pid[t]

ToBeWoken(t) ==
  \E u \in Procs : at[u] = "wake" /\ \E i \in 1 .. Len(wakes[u]) : wakes[u][i] = pid[t]

(* A reader or writer that sleeps is on the wait queue of its end and has  *)
(* a reason to sleep, or a waker has taken it off the queue and is about   *)
(* to wake it: the gated wakeups (only a write into the empty pipe wakes   *)
(* readers, only a read from the full one wakes a writer) miss no sleeper. *)
SleeperIsRegistered ==
  \A t \in Procs : (state[t] = "Blocked" /\ at[t] = "resume") =>
    \/ Waits(t, call[t].end) /\ MustWait(call[t].end)
    \/ ToBeWoken(t)

(* A wait queue names only processes that are inside a call on that end:   *)
(* every way out of the call took its pid off.  So no wakeup is spent on a *)
(* process that left, and sys_close, which wakes the waiters under the     *)
(* caller's own Process lock, does not meet the caller among them and      *)
(* lock it a second time.                                                  *)
WaitersAreInside ==
  /\ \A t \in Procs, e \in End : Waits(t, e) => at[t] \in Inside /\ call[t].end = e
  /\ \A t \in Procs : at[t] # "stuck"

(* Whoever is between FileHandle's lock and unlock holds its offset lock,  *)
(* across all sleeps, and nobody else does.                                *)
OffsetLocked ==
  \A e \in End, t \in Procs :
    offset[e] = t <=> at[t] \in Inside \ {"lock"} /\ call[t].end = e

(* A process is Blocked only between marking itself and the end of its     *)
(* call, asleep on its wait queue or about to be woken.  Once an end has   *)
(* been closed this is lost: the early returns at end of file and on EPIPE *)
(* go back to user mode without mark_current_running.                      *)
BlockedBelongs ==
  \A t \in Procs : state[t] = "Blocked" =>
    \/ at[t] \in {"pipe", "wake", "unmark"}
    \/ at[t] \in {"switch", "resume"} /\ (Waits(t, call[t].end) \/ ToBeWoken(t))
    \/ \E e \in End : open[e] = 0
=============================================================================
