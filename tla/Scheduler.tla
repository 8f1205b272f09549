----------------------------- MODULE Scheduler -----------------------------
(***************************************************************************)
(* The round-robin scheduler: the ready queue, the CPU's current process,  *)
(* the idle fallback and the process table it wakes tasks through.         *)
(*                                                                         *)
(* The operators here are the scheduler's functions as sub-actions: each   *)
(* constrains exactly the variables its code assigns.  A module with a     *)
(* next-state relation (Processes, ...) extends this one and calls them    *)
(* from its own actions, the way the system calls and the timer interrupt  *)
(* call the functions.                                                     *)
(*                                                                         *)
(* A Pcb is one Arc<SpinLock<Process>> object.  It is not identified with  *)
(* its pid: the ready queue and CURRENT_PROCESS hold the object, while     *)
(* PROCESS_TABLE, wait queues and signals name processes by pid.           *)
(***************************************************************************)
EXTENDS Integers, Sequences

CONSTANTS
  Pcb,        \* process control block objects, idle and init included
  Idle,       \* the object registered by set_idle_task
  BootInit,   \* the object that services_init runs as pid 1
  NoPcb,      \* "no entry" in the process table
  MaxPid      \* the largest pid (i32::MAX in the code)

ASSUME PcbAssumption ==
  /\ Idle \in Pcb
  /\ BootInit \in Pcb
  /\ Idle # BootInit
  /\ NoPcb \notin Pcb

ASSUME PidAssumption == MaxPid \in Nat /\ MaxPid >= 2

VARIABLES
  state,        \* Process.state of every object ("Free": not created yet)
  pid,          \* Process.pid
  table,        \* PROCESS_TABLE
  readyQueue,   \* SCHEDULER.ready_queue
  current,      \* CURRENT_PROCESS
  currentPid    \* CURRENT_PID

schedVars == <<state, pid, table, readyQueue, current, currentPid>>

Pid == 0 .. MaxPid

ProcessState == {"Ready", "Running", "Blocked", "Zombie"}

-----------------------------------------------------------------------------
(* Definitions named Faulty... are variants with a plausible mistake.  The *)
(* specifications do not use them; a check of a property is worth its name *)
(* only if the variant breaks it.                                          *)

FaultyAddTask(q, t) == q  \* forgotten

(* add_task, on a queue given as a value *)
AddTask(q, t) == Append(q, t)

(* Both switches end alike: the incoming object runs and names the CPU. *)
Dispatch(next, states) ==
  /\ state' = [states EXCEPT ![next] = "Running"]
  /\ current' = next
  /\ currentPid' = pid[next]
  /\ UNCHANGED <<pid, table>>

(* Running -> Blocked; any other state, a Zombie above all, is kept *)
MarkCurrentBlocked ==
  /\ state' = [state EXCEPT ![current] = IF @ = "Running" THEN "Blocked" ELSE @]
  /\ UNCHANGED <<pid, table, readyQueue, current, currentPid>>

(* Blocked -> Running; any other state is kept *)
MarkCurrentRunning ==
  /\ state' = [state EXCEPT ![current] = IF @ = "Blocked" THEN "Running" ELSE @]
  /\ UNCHANGED <<pid, table, readyQueue, current, currentPid>>

FaultyWakeable(p) == table[p] # NoPcb  \* wakes whatever its state

(* The test in the loop of wake_tasks *)
Wakeable(p) == table[p] # NoPcb /\ state[table[p]] = "Blocked"

(* wake_tasks(&[p]) *)
WakeTask(p) ==
  /\ IF Wakeable(p)
     THEN /\ state' = [state EXCEPT ![table[p]] = "Ready"]
          /\ readyQueue' = AddTask(readyQueue, table[p])
     ELSE UNCHANGED <<state, readyQueue>>
  /\ UNCHANGED <<pid, table, current, currentPid>>

(* wake_tasks of any list of different pids, in one hold of the locks.     *)
(* The shortest lists, the only ones that pipes are found to pass, are     *)
(* spelled out for the sake of the proofs.                                 *)
WakeTasks(pids) ==
  LET found == [i \in 1 .. Len(pids) |-> table[pids[i]]]
      woken == SelectSeq(found, LAMBDA t : t # NoPcb /\ state[t] = "Blocked")
  IN  IF pids = <<>> THEN UNCHANGED schedVars
      ELSE IF Len(pids) = 1 THEN WakeTask(Head(pids))
      ELSE /\ state' = [t \in Pcb |-> IF \E i \in 1 .. Len(woken) : woken[i] = t
                                     THEN "Ready" ELSE state[t]]
           /\ readyQueue' = readyQueue \o woken
           /\ UNCHANGED <<pid, table, current, currentPid>>

(* The next task, or the idle task when nothing is ready.  IDLE_TASK is set *)
(* before the first process runs, so the branch without one is not taken.   *)
(* The outgoing task is neither requeued nor changed.                       *)
SwitchOutCurrent ==
  IF readyQueue = <<>>
  THEN /\ Dispatch(Idle, state)
       /\ UNCHANGED readyQueue
  ELSE /\ Dispatch(Head(readyQueue), state)
       /\ readyQueue' = Tail(readyQueue)

(* Whether the preempted task goes back into the queue *)
Requeues == state[current] = "Running"

FaultyTimerTickSchedule ==  \* a running task is never preempted
  IF readyQueue = <<>> \/ Requeues
  THEN UNCHANGED schedVars
  ELSE Dispatch(Head(readyQueue), state) /\ readyQueue' = Tail(readyQueue)

(* The timer's choice: keep the current task when nothing is ready, else   *)
(* the head of the queue, the outgoing task going to its end.              *)
TimerTickSchedule ==
  IF readyQueue = <<>>
  THEN UNCHANGED schedVars
  ELSE /\ Dispatch(Head(readyQueue),
                   [state EXCEPT ![current] = IF Requeues THEN "Ready" ELSE @])
       /\ readyQueue' = IF Requeues
                        THEN AddTask(Tail(readyQueue), current)
                        ELSE Tail(readyQueue)

-----------------------------------------------------------------------------
Queued(t) == \E i \in 1 .. Len(readyQueue) : readyQueue[i] = t

SchedTypeOK ==
  /\ state \in [Pcb -> ProcessState \cup {"Free"}]
  /\ pid \in [Pcb -> Pid]
  /\ table \in [Pid -> Pcb \cup {NoPcb}]
  /\ readyQueue \in Seq(Pcb)
  /\ current \in Pcb
  /\ currentPid \in Pid
=============================================================================
