----------------------------- MODULE Processes -----------------------------
(***************************************************************************)
(* The life of processes on one CPU: fork, exit, wait4, kill, death by     *)
(* signal, and the timer interrupt that preempts them, on top of the       *)
(* scheduler.                                                              *)
(*                                                                         *)
(* Only the current process executes.  at[t] is where process t stands:    *)
(* in user mode, or before a step of a system call.  A step is one         *)
(* section of code under one lock, since a SpinLock masks interrupts.      *)
(* intr is RFLAGS.IF of what runs now: SYSCALL clears it (FMASK), so a     *)
(* system call is atomic, but switch_tasks ends with sti, so whatever a    *)
(* system call still has to do after its first switch can be preempted     *)
(* between two steps.  irq is the progress of the timer interrupt handler, *)
(* which runs to its end before any process steps again.                   *)
(***************************************************************************)
EXTENDS Scheduler

CONSTANTS
  Signals,    \* classes of signals, by their disposition, that users send
  WaitArgs    \* the pid arguments that users pass to wait4

VARIABLES
  ppid,      \* Process.ppid
  nextPid,   \* NEXT_PID
  pending,   \* SIGNALS.pending_signals, every mask empty
  at,        \* where each process stands
  wait,      \* locals of each process's sys_wait4
  intr,      \* interrupts enabled
  irq        \* the timer handler: "none" when it is not running

vars == <<schedVars, ppid, nextPid, pending, at, wait, intr, irq>>

(* wait4's pid argument: a pid, or AnyChild for -1, 0 and process groups *)
AnyChild == -1

ASSUME UserAssumption ==
  /\ Signals \subseteq {"fatal", "ignored", "stop"}
  /\ WaitArgs \subseteq {AnyChild} \cup (1 .. MaxPid)

(* Where the code of sys_wait4 can stand between two of its locks *)
InWait4 == {"w_snapshot", "w_inspect", "w_mark", "w_recheck", "w_unmark",
            "w_reap", "w_cleanup", "w_switch", "w_resume"}

(* The same for sys_exit and sys_exit_signal *)
InExit == {"x_zombie", "x_wake", "x_loop"}

Label == {"user", "idle", "ret"} \cup InWait4 \cup InExit

NoWait == [pid |-> AnyChild, hang |-> TRUE, calling |-> 0, cand |-> {}, target |-> 0]

-----------------------------------------------------------------------------
(* The state in which _start enters user mode: services_init has created   *)
(* init and idle with Process::new, which makes both Ready, and put init   *)
(* on the CPU without a change of state; pid 1 was not taken from NEXT_PID. *)
Init ==
  /\ state = [t \in Pcb |-> IF t \in {BootInit, Idle} THEN "Ready" ELSE "Free"]
  /\ pid = [t \in Pcb |-> IF t = BootInit THEN 1 ELSE 0]
  /\ ppid = [t \in Pcb |-> 0]
  /\ table = [p \in Pid |-> CASE p = 0 -> Idle [] p = 1 -> BootInit [] OTHER -> NoPcb]
  /\ readyQueue = <<>>
  /\ current = BootInit
  /\ currentPid = 1
  /\ nextPid = 1
  /\ pending = [p \in Pid |-> {}]
  /\ at = [t \in Pcb |-> IF t = Idle THEN "idle" ELSE "user"]
  /\ wait = [t \in Pcb |-> NoWait]
  /\ intr = TRUE
  /\ irq = "none"

(* The current process executes its step at label l. *)
At(l) == irq = "none" /\ at[current] = l

Goto(l) == at' = [at EXCEPT ![current] = l]

(* A system call starts: SYSCALL clears the interrupt flag. *)
Enter(l) ==
  /\ At("user")
  /\ Goto(l)
  /\ intr' = FALSE
  /\ UNCHANGED irq

(* A step inside a system call that does not switch *)
Step(from, to) ==
  /\ At(from)
  /\ Goto(to)
  /\ UNCHANGED <<intr, irq>>

-----------------------------------------------------------------------------
(* alloc_pid: fetch_add on an i32; a non-positive value restarts at 2 *)
AllocPid == IF nextPid <= 0 THEN 2 ELSE nextPid

NextPidAfter ==
  IF nextPid <= 0 THEN 2
  ELSE IF nextPid = MaxPid THEN -MaxPid - 1 ELSE nextPid + 1

(* The object that Process::new allocates: an unused one, no matter which *)
FreePcb ==
  LET free == {t \in Pcb : state[t] = "Free"}
  IN  IF free = {} THEN {} ELSE {CHOOSE t \in free : TRUE}

(* sys_fork, when the address space can be cloned.  The child inherits the *)
(* signal tables of its parent's pid, here all default.                    *)
Fork(child) ==
  LET p == AllocPid
  IN  /\ Enter("ret")
      /\ child \in FreePcb
      /\ nextPid' = NextPidAfter
      /\ state' = [state EXCEPT ![child] = "Ready"]
      /\ pid' = [pid EXCEPT ![child] = p]
      /\ ppid' = [ppid EXCEPT ![child] = pid[current]]
      /\ table' = [table EXCEPT ![p] = child]
      /\ readyQueue' = AddTask(readyQueue, child)
      /\ UNCHANGED <<current, currentPid, pending, wait>>

(* sys_kill and send_signal: the pending bit first, then the wakeup *)
Kill(p, sig) ==
  /\ Enter("ret")
  /\ p > 0
  /\ table[p] # NoPcb
  /\ pending' = [pending EXCEPT ![p] = @ \cup {sig}]
  /\ WakeTask(p)
  /\ UNCHANGED <<ppid, nextPid, wait>>

(* Every other system call, and those that fail: nothing modelled here     *)
(* changes, but signals are delivered on the way out.                      *)
OtherSyscall ==
  /\ Enter("ret")
  /\ UNCHANGED <<schedVars, ppid, nextPid, pending, wait>>

-----------------------------------------------------------------------------
(* What next_unblocked_signal leaves pending of a set: it walks the bits   *)
(* upwards, dropping ignored signals, skipping stops, up to the first one  *)
(* that must be handled (so an ignored signal above that one stays).       *)
LeftPending(sigs) ==
  IF "fatal" \in sigs THEN {sigs \ {"fatal"}, sigs \ {"fatal", "ignored"}}
  ELSE {sigs \ {"ignored"}}

(* check_and_deliver_signals: back to user mode, or on to sys_exit_signal. *)
(* The idle task makes no system calls, so currentPid > 0.                 *)
SyscallReturn ==
  /\ At("ret")
  /\ wait' = [wait EXCEPT ![current] = NoWait]
  /\ UNCHANGED <<schedVars, ppid, nextPid, irq>>
  /\ \E left \in LeftPending(pending[currentPid]) :
       pending' = [pending EXCEPT ![currentPid] = left]
  /\ IF "fatal" \in pending[currentPid]
     THEN Goto("x_zombie") /\ UNCHANGED intr
     ELSE Goto("user") /\ intr' = TRUE

(* sys_exit; sys_exit_signal takes the same steps *)
Exit ==
  /\ Enter("x_zombie")
  /\ UNCHANGED <<schedVars, ppid, nextPid, pending, wait>>

ExitZombie ==
  /\ Step("x_zombie", "x_wake")
  /\ state' = [state EXCEPT ![current] = "Zombie"]
  /\ UNCHANGED <<pid, table, readyQueue, current, currentPid, ppid, nextPid, pending, wait>>

ExitWake ==
  /\ Step("x_wake", "x_loop")
  /\ IF ppid[current] > 0 THEN WakeTask(ppid[current]) ELSE UNCHANGED schedVars
  /\ UNCHANGED <<ppid, nextPid, pending, wait>>

(* loop { switch_out_current(); } *)
ExitSwitch ==
  /\ At("x_loop")
  /\ SwitchOutCurrent
  /\ intr' = TRUE
  /\ UNCHANGED <<ppid, nextPid, pending, at, wait, irq>>

-----------------------------------------------------------------------------
(* sys_wait4.  Its loop is entered with interrupts masked; after a switch  *)
(* it is walked again with interrupts enabled.                             *)
Wait4(target, hang) ==
  /\ Enter("w_snapshot")
  /\ wait' = [wait EXCEPT ![current] =
                [NoWait EXCEPT !.pid = target, !.hang = hang, !.calling = currentPid]]
  /\ UNCHANGED <<schedVars, ppid, nextPid, pending>>

(* Phase 1: the candidates, copied under PROCESS_TABLE *)
Candidates(target) ==
  {<<p, table[p]>> : p \in {q \in Pid : /\ table[q] # NoPcb
                                        /\ target = AnyChild \/ target = q}}

Wait4Snapshot ==
  LET cand == Candidates(wait[current].pid)
  IN  /\ Step("w_snapshot", IF cand = {} THEN "ret" ELSE "w_inspect")
      /\ wait' = [wait EXCEPT ![current].cand = cand]
      /\ UNCHANGED <<schedVars, ppid, nextPid, pending>>

FaultyChildren(w) == w.cand  \* parent not compared

(* The candidates that are the caller's children, and those to reap *)
Children(w) == {c \in w.cand : ppid[c[2]] = w.calling}

ZombieChildren(w) == {c \in Children(w) : state[c[2]] = "Zombie"}

(* The loops stop at the first zombie in pid order.  They lock one child   *)
(* at a time, so with interrupts enabled a lower one may exit unseen.      *)
FoundZombie(c, zombies) ==
  c \in zombies /\ (intr \/ \A d \in zombies : c[1] <= d[1])

Found(c) == wait' = [wait EXCEPT ![current].target = c[1]]

(* Phase 2: no child, a zombie to reap, WNOHANG, or prepare to block *)
Wait4Inspect ==
  LET w == wait[current]
      zombies == ZombieChildren(w)
  IN  /\ \/ /\ zombies # {}
            /\ Step("w_inspect", "w_reap")
            /\ \E c \in zombies : FoundZombie(c, zombies) /\ Found(c)
         \/ /\ zombies = {}
            /\ Step("w_inspect", IF Children(w) = {} \/ ~w.hang THEN "ret" ELSE "w_mark")
            /\ UNCHANGED wait
      /\ UNCHANGED <<schedVars, ppid, nextPid, pending>>

Wait4Mark ==
  /\ Step("w_mark", "w_recheck")
  /\ MarkCurrentBlocked
  /\ UNCHANGED <<ppid, nextPid, pending, wait>>

FaultyWait4Recheck ==  \* no second look
  /\ Step("w_recheck", "w_switch")
  /\ UNCHANGED <<schedVars, ppid, nextPid, pending, wait>>

(* The second look at the same candidates, now that the caller is Blocked *)
Wait4Recheck ==
  LET zombies == ZombieChildren(wait[current])
  IN  /\ \/ /\ zombies # {}
            /\ Step("w_recheck", "w_unmark")
            /\ \E c \in zombies : FoundZombie(c, zombies) /\ Found(c)
         \/ /\ zombies = {}
            /\ Step("w_recheck", "w_switch")
            /\ UNCHANGED wait
      /\ UNCHANGED <<schedVars, ppid, nextPid, pending>>

Wait4Unmark ==
  /\ Step("w_unmark", "w_reap")
  /\ MarkCurrentRunning
  /\ UNCHANGED <<ppid, nextPid, pending, wait>>

(* table.remove(&target) *)
Wait4Reap ==
  /\ Step("w_reap", "w_cleanup")
  /\ table' = [table EXCEPT ![wait[current].target] = NoPcb]
  /\ UNCHANGED <<state, pid, readyQueue, current, currentPid, ppid, nextPid, pending, wait>>

(* SIGNALS.cleanup_process(target); the status is stored, or EFAULT returned *)
Wait4Cleanup ==
  /\ Step("w_cleanup", "ret")
  /\ pending' = [pending EXCEPT ![wait[current].target] = {}]
  /\ UNCHANGED <<schedVars, ppid, nextPid, wait>>

Wait4Switch ==
  /\ At("w_switch")
  /\ Goto("w_resume")
  /\ SwitchOutCurrent
  /\ intr' = TRUE
  /\ UNCHANGED <<ppid, nextPid, pending, wait, irq>>

(* Back from the switch, which has made the caller Running already (so one *)
(* step stands for mark_current_running and the look at its signals):      *)
(* EINTR, or the loop again.                                               *)
Wait4Resume ==
  /\ Step("w_resume", IF pending[wait[current].calling] # {} THEN "ret" ELSE "w_snapshot")
  /\ MarkCurrentRunning
  /\ UNCHANGED <<ppid, nextPid, pending, wait>>

-----------------------------------------------------------------------------
(* The timer interrupt.  It first schedules, then delivers a signal to the *)
(* task it is about to resume, if that task's frame is a user-mode one.    *)
Tick ==
  /\ intr
  /\ irq = "none"
  /\ TimerTickSchedule
  /\ intr' = FALSE
  /\ irq' = "signals"
  /\ UNCHANGED <<ppid, nextPid, pending, at, wait>>

(* iretq to the chosen frame, which runs with interrupts enabled *)
TickDone == intr' = TRUE /\ irq' = "none"

FaultyTickSignals ==  \* left to the next system call
  /\ irq = "signals"
  /\ TickDone
  /\ UNCHANGED <<schedVars, ppid, nextPid, pending, at, wait>>

(* check_and_deliver_signals_irq *)
TickSignals ==
  LET sigs == pending[currentPid]
  IN  /\ irq = "signals"
      /\ IF currentPid > 0 /\ sigs # {} /\ at[current] = "user"
         THEN \E left \in LeftPending(sigs) :
                pending' = [pending EXCEPT ![currentPid] = left]
         ELSE UNCHANGED pending
      /\ IF currentPid > 0 /\ "fatal" \in sigs /\ at[current] = "user"
         THEN irq' = "terminate" /\ UNCHANGED intr
         ELSE TickDone
      /\ UNCHANGED <<schedVars, ppid, nextPid, at, wait>>

(* terminate_cpu_bound_task, in two steps *)
TickTerminate ==
  /\ irq = "terminate"
  /\ state' = [state EXCEPT ![current] = "Zombie"]
  /\ irq' = "wake"
  /\ UNCHANGED <<pid, table, readyQueue, current, currentPid>>
  /\ UNCHANGED <<ppid, nextPid, pending, at, wait, intr>>

FaultyTickWake ==  \* the entry taken out of the table as well
  /\ irq = "wake"
  /\ table' = [table EXCEPT ![currentPid] = NoPcb]
  /\ pending' = [pending EXCEPT ![currentPid] = {}]
  /\ irq' = "resched"
  /\ UNCHANGED <<state, pid, readyQueue, current, currentPid, ppid, nextPid, at, wait, intr>>

TickWake ==
  /\ irq = "wake"
  /\ IF ppid[current] > 0 THEN WakeTask(ppid[current]) ELSE UNCHANGED schedVars
  /\ pending' = [pending EXCEPT ![currentPid] = {}]
  /\ irq' = "resched"
  /\ UNCHANGED <<ppid, nextPid, at, wait, intr>>

(* The second timer_tick_schedule, away from the terminated task *)
TickReschedule ==
  /\ irq = "resched"
  /\ TimerTickSchedule
  /\ TickDone
  /\ UNCHANGED <<ppid, nextPid, pending, at, wait>>

-----------------------------------------------------------------------------
Syscall ==
  \/ \E child \in Pcb : Fork(child)
  \/ \E p \in Pid, sig \in Signals : Kill(p, sig)
  \/ \E target \in WaitArgs, hang \in BOOLEAN : Wait4(target, hang)
  \/ Exit
  \/ OtherSyscall

KernelStep ==
  \/ SyscallReturn
  \/ ExitZombie \/ ExitWake \/ ExitSwitch
  \/ Wait4Snapshot \/ Wait4Inspect \/ Wait4Mark \/ Wait4Recheck \/ Wait4Unmark
  \/ Wait4Reap \/ Wait4Cleanup \/ Wait4Switch \/ Wait4Resume

TickStep == TickSignals \/ TickTerminate \/ TickWake \/ TickReschedule

Next == Syscall \/ KernelStep \/ Tick \/ TickStep

Spec == Init /\ [][Next]_vars

(* The timer is periodic hardware and the PIC latches an interrupt that is *)
(* raised while they are masked, so Tick happens if interrupts are enabled *)
(* again and again; its handler runs masked to its end, as does a system   *)
(* call before its first switch.  User code owes nothing.                  *)
Fairness == SF_vars(Tick) /\ WF_vars(TickStep) /\ WF_vars(~intr /\ KernelStep)

FairSpec == Spec /\ Fairness

-----------------------------------------------------------------------------
(* Every variable has its type; nextPid is an i32 that wraps. *)
TypeOK ==
  /\ SchedTypeOK
  /\ ppid \in [Pcb -> Pid]
  /\ nextPid \in (-MaxPid - 1) .. MaxPid
  /\ pending \in [Pid -> SUBSET Signals]
  /\ at \in [Pcb -> Label]
  /\ wait \in [Pcb -> [pid : Pid \cup {AnyChild}, hang : BOOLEAN, calling : Pid,
                       cand : SUBSET (Pid \X Pcb), target : Pid]]
  /\ intr \in BOOLEAN
  /\ irq \in {"none", "signals", "terminate", "wake", "resched"}

(* The ready queue is sound: no object is in it twice, the object on the   *)
(* CPU is not in it, and all of it is Ready (add_task is called by fork,   *)
(* wake_tasks and both requeueing schedulers, none of which looks whether  *)
(* the task is queued already).                                            *)
QueueSound ==
  /\ \A i, j \in 1 .. Len(readyQueue) : readyQueue[i] = readyQueue[j] => i = j
  /\ \A i \in 1 .. Len(readyQueue) :
       readyQueue[i] # current /\ state[readyQueue[i]] = "Ready"

(* A process that could run is where the scheduler will find it: Ready     *)
(* means queued and Running on the CPU, so no preemption, wakeup or fork   *)
(* loses one.  There are two exceptions.  Init goes on the CPU as Ready,   *)
(* which the timer does not requeue, so its first preemption is its last   *)
(* run.  And a waiter preempted after it marked itself Blocked, then woken *)
(* and resumed as Running, still makes its call to switch_out_current,     *)
(* which requeues nobody.                                                  *)
ReadyIsQueued ==
  \A t \in Pcb \ {Idle, BootInit} :
    /\ state[t] = "Ready" => Queued(t)
    /\ state[t] = "Running" => t = current \/ at[t] = "w_resume"

(* CURRENT_PID, which system calls and the signal code use as the caller's *)
(* identity, is the pid of the object in CURRENT_PROCESS.                  *)
CurrentPidMatches == currentPid = pid[current]

(* Once the idle task has the CPU it keeps it: it is chosen only when      *)
(* nothing is ready, and the timer, the one interrupt, wakes nobody then.  *)
(* Processes that all wait for each other are never woken.                 *)
IdleIsForever == [][current = Idle => current' = Idle]_vars

(* A process's state fits where it stands.  It is Blocked only between     *)
(* marking itself and the end of the switch, so never in user mode: every  *)
(* path out of sys_wait4 has undone mark_current_blocked.  It is a Zombie  *)
(* once it has passed the point of exit, and so is the process that the    *)
(* timer has terminated.  Idle is never terminated and never blocks.       *)
StateFitsPoint ==
  /\ \A t \in Pcb :
       /\ state[t] = "Blocked" => at[t] \in {"w_recheck", "w_unmark", "w_switch", "w_resume"}
       /\ at[t] \in {"x_wake", "x_loop"} => state[t] = "Zombie"
  /\ irq = "terminate" => at[current] = "user"
  /\ irq \in {"wake", "resched"} => state[current] = "Zombie"
  /\ at[Idle] = "idle" /\ state[Idle] \in {"Ready", "Running"}
  /\ state[current] # "Free"

(* A waiter that went to sleep properly (Blocked, inside switch_out) and   *)
(* is the one wake_tasks finds under its pid does not sleep over a child   *)
(* it could reap, unless that child died but has not got to its wake_tasks *)
(* call.  This is what marking before rechecking buys.                     *)
SleeperHasNothingToReap ==
  \A t \in Pcb :
    (/\ state[t] = "Blocked"
     /\ at[t] = "w_resume"
     /\ table[pid[t]] = t) =>
        \A c \in ZombieChildren(wait[t]) :
          \/ at[c[2]] = "x_wake"
          \/ c[2] = current /\ irq = "wake"
          \/ table[c[1]] # c[2]

(* A Zombie stays one: no wakeup, requeue or unmark brings it back. *)
ZombieIsFinal == [][\A t \in Pcb : state[t] = "Zombie" => state'[t] = "Zombie"]_vars

(* "Exited process never returns to userland and never re-enters the ready *)
(* queue": once a Zombie is off the CPU, it is never queued or run again.  *)
ZombieNeverRuns ==
  [][\A t \in Pcb : (state[t] = "Zombie" /\ current # t) =>
        current' # t /\ ~Queued(t)']_vars

(* No pid has been given out twice; only init's is, by the first fork. *)
PidsNotReused ==
  \A t, u \in Pcb \ {BootInit, Idle} :
    (state[t] # "Free" /\ state[u] # "Free" /\ pid[t] = pid[u]) => t = u

(* wait4 takes an entry out of the process table only when its process is  *)
(* a Zombie child of the caller.  The entry is removed by number, in a     *)
(* later step than the one that saw the Zombie, so this holds until        *)
(* NEXT_PID has come round to a pid in use.                                *)
OnlyZombieChildrenReaped ==
  [][PidsNotReused =>
       \A p \in Pid : (table[p] # NoPcb /\ table'[p] = NoPcb) =>
         /\ state[table[p]] = "Zombie"
         /\ ppid[table[p]] = pid[current]]_vars

(* Round robin: what is in the ready queue gets the CPU. *)
NoStarvation == \A t \in Pcb : Queued(t) ~> current = t

(* A process that computes in user mode and makes no system call cannot    *)
(* live on with a fatal signal: a tick that resumes it terminates it.      *)
CpuBoundTaskDies ==
  \A t \in Pcb :
    []<>~(/\ t = current \/ Queued(t)
          /\ at[t] = "user"
          /\ state[t] # "Zombie"
          /\ "fatal" \in pending[pid[t]])

-----------------------------------------------------------------------------
(* What a comment of the code says of it and the model refutes.            *)

(* sys_wait4 rechecks "to close lost-wakeup race with concurrent sys_exit":*)
(* a Blocked waiter that is off the CPU has no child that has finished     *)
(* sys_exit, its wake_tasks included.                                      *)
NoLostWakeup ==
  \A t \in Pcb :
    (state[t] = "Blocked" /\ t # current /\ table[pid[t]] = t) =>
      \A c \in ZombieChildren(wait[t]) : at[c[2]] # "x_loop" \/ table[c[1]] # c[2]
=============================================================================
