-------------------------- MODULE ProcessesProofs --------------------------
(***************************************************************************)
(* The safety invariants of Processes, for any number of processes and     *)
(* pids, and what wait4 reaps.  Then the composition with the processor:   *)
(* Context implements Processes, and what the switches do to the processor *)
(* is right.                                                               *)
(***************************************************************************)
EXTENDS Context, TLAPS

(* What pushing to the end of the queue does to its entries *)
LEMMA AppendFacts ==
  ASSUME NEW S, NEW q \in Seq(S), NEW x \in S
  PROVE  /\ Append(q, x) \in Seq(S)
         /\ Len(q) \in Nat
         /\ Len(Append(q, x)) = Len(q) + 1
         /\ \A i \in 1 .. Len(q) : Append(q, x)[i] = q[i]
         /\ Append(q, x)[Len(q) + 1] = x
OBVIOUS

(* The scheduler's functions keep the types. *)
LEMMA SchedTyped ==
  ASSUME SchedTypeOK,
         \/ MarkCurrentBlocked
         \/ MarkCurrentRunning
         \/ \E p \in Pid : WakeTask(p)
         \/ SwitchOutCurrent
         \/ TimerTickSchedule
         \/ UNCHANGED schedVars
  PROVE  SchedTypeOK'
<1>1. CASE MarkCurrentBlocked
  BY Zenon, <1>1 DEF MarkCurrentBlocked, SchedTypeOK, ProcessState
<1>2. CASE MarkCurrentRunning
  BY Zenon, <1>2 DEF MarkCurrentRunning, SchedTypeOK, ProcessState
<1>3. CASE \E p \in Pid : WakeTask(p)
  <2>1. PICK p \in Pid : WakeTask(p)
    BY Zenon, <1>3
  <2>2. CASE Wakeable(p)
    <3>1. table[p] \in Pcb
      BY Zenon, <2>2 DEF Wakeable, SchedTypeOK
    <3>2. /\ state' = [state EXCEPT ![table[p]] = "Ready"]
          /\ readyQueue' = Append(readyQueue, table[p])
      BY Zenon, <2>1, <2>2 DEF WakeTask, AddTask
    <3> QED
      BY <2>1, <3>1, <3>2 DEF WakeTask, SchedTypeOK, ProcessState
  <2> QED
    BY Zenon, <2>1, <2>2 DEF WakeTask, SchedTypeOK
<1>4. CASE SwitchOutCurrent
  BY <1>4, PcbAssumption DEF SwitchOutCurrent, Dispatch, SchedTypeOK, ProcessState
<1>5. CASE TimerTickSchedule
  <2> DEFINE states == [state EXCEPT ![current] = IF Requeues THEN "Ready" ELSE @]
  <2>1. CASE readyQueue = <<>>
    BY Zenon, <1>5, <2>1 DEF TimerTickSchedule, SchedTypeOK, schedVars
  <2>2. CASE readyQueue # <<>>
    <3>1. Head(readyQueue) \in Pcb /\ Tail(readyQueue) \in Seq(Pcb)
      BY <2>2 DEF SchedTypeOK
    <3>2. states \in [Pcb -> ProcessState \cup {"Free"}]
      BY Zenon DEF SchedTypeOK, ProcessState
    <3>3. /\ Dispatch(Head(readyQueue), states)
          /\ readyQueue' \in {Append(Tail(readyQueue), current), Tail(readyQueue)}
      BY Zenon, <1>5, <2>2 DEF TimerTickSchedule, AddTask
    <3>4. readyQueue' \in Seq(Pcb)
      <4>1. Append(Tail(readyQueue), current) \in Seq(Pcb)
        BY Zenon, <3>1, AppendFacts DEF SchedTypeOK
      <4> QED
        BY Zenon, <3>1, <3>3, <4>1
    <3> HIDE DEF states
    <3> QED
      BY Zenon, <3>1, <3>2, <3>3, <3>4 DEF Dispatch, SchedTypeOK, ProcessState
  <2> QED
    BY Zenon, <2>1, <2>2
<1>6. CASE UNCHANGED schedVars
  BY Zenon, <1>6 DEF schedVars, SchedTypeOK
<1> QED
  BY Zenon, <1>1, <1>2, <1>3, <1>4, <1>5, <1>6

-----------------------------------------------------------------------------
(* Most steps are about sets and functions; those about sequences and      *)
(* numbers name the other prover.                                          *)
USE Zenon

(* The inductive invariant: the queue is only sound because the state of a *)
(* process fits where it stands (whoever calls wake_tasks is not Blocked,  *)
(* so it cannot enqueue itself), and that in turn needs the queue to hold  *)
(* only Ready processes (so that Dispatch revives no Zombie).              *)
IInv == TypeOK /\ QueueSound /\ CurrentPidMatches /\ StateFitsPoint

-----------------------------------------------------------------------------
(* mark_current_blocked and mark_current_running touch the process on the  *)
(* CPU, which is not queued.                                               *)
LEMMA MarkKeepsQueue ==
  ASSUME SchedTypeOK, QueueSound, MarkCurrentBlocked \/ MarkCurrentRunning
  PROVE  QueueSound'
BY SMT DEF SchedTypeOK, QueueSound, MarkCurrentBlocked, MarkCurrentRunning

(* wake_tasks enqueues a Blocked process, which was not queued; it does    *)
(* not enqueue its caller, as long as the caller is not Blocked.           *)
LEMMA WakeKeepsQueue ==
  ASSUME SchedTypeOK, QueueSound, NEW p \in Pid, WakeTask(p), state[current] # "Blocked"
  PROVE  QueueSound'
<1>1. CASE ~Wakeable(p)
  BY <1>1 DEF WakeTask, SchedTypeOK, QueueSound
<1>2. CASE Wakeable(p)
  <2> DEFINE u == table[p]
  <2>1. u \in Pcb /\ u # current /\ state[u] = "Blocked"
    BY <1>2 DEF Wakeable, SchedTypeOK
  <2>2. \A i \in 1 .. Len(readyQueue) : readyQueue[i] # u
    BY <2>1 DEF QueueSound
  <2>3. /\ readyQueue' = Append(readyQueue, u)
        /\ state' = [state EXCEPT ![u] = "Ready"]
        /\ current' = current
    BY <1>2 DEF WakeTask, AddTask
  <2> QED
    BY SMT, <2>1, <2>2, <2>3 DEF SchedTypeOK, QueueSound
<1> QED
  BY <1>1, <1>2

(* switch_out_current takes the head off the queue. *)
LEMMA SwitchKeepsQueue ==
  ASSUME SchedTypeOK, QueueSound, SwitchOutCurrent
  PROVE  QueueSound'
<1>1. CASE readyQueue = <<>>
  BY SMT, <1>1 DEF SwitchOutCurrent, Dispatch, SchedTypeOK, QueueSound
<1>2. CASE readyQueue # <<>>
  <2> DEFINE h == Head(readyQueue)
  <2>1. /\ readyQueue' = Tail(readyQueue)
        /\ state' = [state EXCEPT ![h] = "Running"]
        /\ current' = h
    BY <1>2 DEF SwitchOutCurrent, Dispatch
  <2>2. h \in Pcb /\ h = readyQueue[1] /\ Len(Tail(readyQueue)) = Len(readyQueue) - 1
    BY SMT, <1>2 DEF SchedTypeOK
  <2>3. \A i \in 1 .. Len(Tail(readyQueue)) : Tail(readyQueue)[i] = readyQueue[i + 1]
    BY SMT, <1>2 DEF SchedTypeOK
  <2> QED
    BY SMT, <1>2, <2>1, <2>2, <2>3 DEF SchedTypeOK, QueueSound
<1> QED
  BY <1>1, <1>2

(* timer_tick_schedule takes the head off the queue and puts the outgoing  *)
(* process, which was on the CPU and so not queued, at its end.            *)
LEMMA TickKeepsQueue ==
  ASSUME SchedTypeOK, QueueSound, TimerTickSchedule
  PROVE  QueueSound'
<1>1. CASE readyQueue = <<>>
  BY SMT, <1>1 DEF TimerTickSchedule, schedVars, QueueSound
<1>2. CASE readyQueue # <<>>
  <2> DEFINE h == Head(readyQueue)
             q == Tail(readyQueue)
  <2>2. h \in Pcb /\ h = readyQueue[1] /\ Len(q) = Len(readyQueue) - 1 /\ q \in Seq(Pcb)
    BY SMT, <1>2 DEF SchedTypeOK
  <2>3. \A i \in 1 .. Len(q) : q[i] = readyQueue[i + 1]
    BY SMT, <1>2 DEF SchedTypeOK
  <2>4. h # current /\ \A i \in 1 .. Len(q) : q[i] # current /\ q[i] # h /\ state[q[i]] = "Ready"
    BY SMT, <1>2, <2>2, <2>3 DEF SchedTypeOK, QueueSound
  <2>5. \A i, j \in 1 .. Len(q) : q[i] = q[j] => i = j
    BY SMT, <1>2, <2>2, <2>3 DEF SchedTypeOK, QueueSound
  <2>6. CASE Requeues
    <3>1. /\ readyQueue' = Append(q, current)
          /\ state' = [[state EXCEPT ![current] = "Ready"] EXCEPT ![h] = "Running"]
          /\ current' = h
      BY <1>2, <2>6 DEF TimerTickSchedule, Dispatch, AddTask, SchedTypeOK
    <3>2. /\ Len(readyQueue') = Len(q) + 1 /\ Len(q) \in Nat
          /\ \A i \in 1 .. Len(q) : readyQueue'[i] = q[i]
          /\ readyQueue'[Len(q) + 1] = current
      BY SMT, <2>2, <3>1, AppendFacts DEF SchedTypeOK
    <3>3. /\ state'[current] = "Ready"
          /\ \A i \in 1 .. Len(q) : state'[q[i]] = "Ready"
      BY SMT, <2>2, <2>4, <3>1 DEF SchedTypeOK
    <3> HIDE DEF q, h
    <3>4. \A i \in 1 .. Len(readyQueue') : i \in 1 .. Len(q) \/ i = Len(q) + 1
      BY SMT, <3>2
    <3>5. \A i \in 1 .. Len(readyQueue') :
            readyQueue'[i] # current' /\ state'[readyQueue'[i]] = "Ready"
      BY <2>4, <3>1, <3>2, <3>3, <3>4
    <3>6. \A i, j \in 1 .. Len(readyQueue') : readyQueue'[i] = readyQueue'[j] => i = j
      BY SMT, <2>4, <2>5, <3>2, <3>4
    <3> QED
      BY <3>5, <3>6 DEF QueueSound
  <2>7. CASE ~Requeues
    <3>1. /\ readyQueue' = q
          /\ state' = [state EXCEPT ![h] = "Running"]
          /\ current' = h
      BY <1>2, <2>7 DEF TimerTickSchedule, Dispatch, AddTask, SchedTypeOK
    <3> QED
      BY SMT, <2>2, <2>4, <2>5, <3>1 DEF SchedTypeOK, QueueSound
  <2> QED
    BY <2>6, <2>7
<1> QED
  BY <1>1, <1>2

-----------------------------------------------------------------------------
(* The types of what Processes adds to the scheduler *)
WaitType == [pid : Pid \cup {AnyChild}, hang : BOOLEAN, calling : Pid,
             cand : SUBSET (Pid \X Pcb), target : Pid]

LEMMA LabelStep ==
  ASSUME TypeOK, NEW l \in Label, Goto(l)
  PROVE  at' \in [Pcb -> Label]
BY DEF TypeOK, SchedTypeOK, Goto

LEMMA WaitStep ==
  ASSUME TypeOK, NEW w \in WaitType, wait' = [wait EXCEPT ![current] = w]
  PROVE  wait' \in [Pcb -> WaitType]
<1>1. wait \in [Pcb -> WaitType] /\ current \in Pcb
  BY DEF TypeOK, SchedTypeOK, WaitType
<1> QED
  BY <1>1

LEMMA NoWaitTyped == NoWait \in WaitType
BY SMT, PidAssumption DEF NoWait, WaitType, Pid, AnyChild

LEMMA TypeInit == Init => TypeOK
<1> SUFFICES ASSUME Init PROVE TypeOK
  OBVIOUS
<1>1. SchedTypeOK
  BY SMT, PcbAssumption, PidAssumption DEF Init, SchedTypeOK, ProcessState, Pid
<1>2. wait \in [Pcb -> WaitType]
  BY NoWaitTyped DEF Init
<1> QED
  BY SMT, <1>1, <1>2, PidAssumption DEF Init, TypeOK, Pid, Label, WaitType

(* alloc_pid returns a valid positive pid and keeps NEXT_PID an i32. *)
LEMMA AllocPidTyped ==
  ASSUME nextPid \in (-MaxPid - 1) .. MaxPid
  PROVE  AllocPid \in Pid /\ AllocPid > 0 /\ NextPidAfter \in (-MaxPid - 1) .. MaxPid
BY SMT, PidAssumption DEF AllocPid, NextPidAfter, Pid

(* Process::new hands out an object that is not in use. *)
LEMMA AllocatedWasFree ==
  ASSUME NEW child \in FreePcb
  PROVE  state[child] = "Free"
BY DEF FreePcb

LEMMA SyscallTyped ==
  ASSUME TypeOK, Syscall
  PROVE  TypeOK'
<1>1. ASSUME NEW child \in Pcb, Fork(child) PROVE TypeOK'
  <2>1. AllocPid \in Pid /\ NextPidAfter \in (-MaxPid - 1) .. MaxPid
    BY AllocPidTyped DEF TypeOK
  <2>2. at' \in [Pcb -> Label]
    BY <1>1, LabelStep DEF Fork, Enter, Label
  <2>3. Append(readyQueue, child) \in Seq(Pcb)
    BY AppendFacts DEF TypeOK, SchedTypeOK
  <2>4. SchedTypeOK'
    BY <1>1, <2>1, <2>3 DEF Fork, AddTask, TypeOK, SchedTypeOK, ProcessState
  <2>5. ppid' \in [Pcb -> Pid] /\ nextPid' = NextPidAfter
    BY <1>1 DEF Fork, TypeOK, SchedTypeOK
  <2> QED
    BY <1>1, <2>1, <2>2, <2>4, <2>5 DEF Fork, Enter, TypeOK
<1>2. ASSUME NEW p \in Pid, NEW sig \in Signals, Kill(p, sig) PROVE TypeOK'
  <2>1. SchedTypeOK'
    BY <1>2, SchedTyped DEF Kill, TypeOK
  <2>2. at' \in [Pcb -> Label]
    BY <1>2, LabelStep DEF Kill, Enter, Label
  <2>3. pending' \in [Pid -> SUBSET Signals]
    BY <1>2 DEF Kill, TypeOK
  <2> QED
    BY <1>2, <2>1, <2>2, <2>3 DEF Kill, Enter, TypeOK
<1>3. ASSUME NEW target \in WaitArgs, NEW hang \in BOOLEAN, Wait4(target, hang) PROVE TypeOK'
  <2>1. SchedTypeOK'
    BY <1>3, SchedTyped DEF Wait4, TypeOK
  <2>2. at' \in [Pcb -> Label]
    BY <1>3, LabelStep DEF Wait4, Enter, Label, InWait4
  <2> DEFINE r == [NoWait EXCEPT !.pid = target, !.hang = hang, !.calling = currentPid]
  <2>3. r \in WaitType
    <3>1. target \in Pid \cup {AnyChild} /\ currentPid \in Pid
      BY SMT, UserAssumption, PidAssumption DEF Pid, TypeOK, SchedTypeOK
    <3>2. r = [NoWait EXCEPT !.pid = target, !.hang = hang, !.calling = currentPid]
      OBVIOUS
    <3> QED
      BY <3>1, <3>2, NoWaitTyped DEF WaitType
  <2>4. wait' = [wait EXCEPT ![current] = r]
    BY <1>3 DEF Wait4
  <2> HIDE DEF r
  <2>5. wait' \in [Pcb -> WaitType]
    BY <2>3, <2>4, WaitStep
  <2> QED
    BY <1>3, <2>1, <2>2, <2>5 DEF Wait4, Enter, TypeOK, WaitType
<1>4. CASE Exit \/ OtherSyscall
  <2>1. SchedTypeOK'
    BY <1>4, SchedTyped DEF Exit, OtherSyscall, TypeOK
  <2>2. at' \in [Pcb -> Label]
    BY <1>4, LabelStep DEF Exit, OtherSyscall, Enter, Label, InExit
  <2> QED
    BY <1>4, <2>1, <2>2 DEF Exit, OtherSyscall, Enter, TypeOK
<1> QED
  BY <1>1, <1>2, <1>3, <1>4 DEF Syscall

LEMMA KernelStepTyped ==
  ASSUME TypeOK, KernelStep
  PROVE  TypeOK'
<1> DEFINE w == wait[current]
<1>0. w \in WaitType /\ current \in Pcb
  BY DEF TypeOK, SchedTypeOK, WaitType
<1>1. CASE SyscallReturn
  <2>1. SchedTypeOK'
    BY <1>1, SchedTyped DEF SyscallReturn, TypeOK
  <2>2. at' \in [Pcb -> Label] /\ intr' \in BOOLEAN
    BY <1>1, LabelStep DEF SyscallReturn, Label, InExit, TypeOK
  <2>3. pending' \in [Pid -> SUBSET Signals]
    BY SMT, <1>1 DEF SyscallReturn, LeftPending, TypeOK, SchedTypeOK
  <2>4. wait' \in [Pcb -> WaitType]
    BY <1>1, NoWaitTyped, WaitStep DEF SyscallReturn
  <2> QED
    BY <1>1, <2>1, <2>2, <2>3, <2>4 DEF SyscallReturn, TypeOK, WaitType
<1>2. CASE ExitZombie
  <2>1. at' \in [Pcb -> Label]
    BY <1>2, LabelStep DEF ExitZombie, Step, Label, InExit
  <2> QED
    BY <1>2, <2>1 DEF ExitZombie, Step, TypeOK, SchedTypeOK, ProcessState
<1>3. CASE ExitWake
  <2>1. ppid[current] \in Pid
    BY <1>0 DEF TypeOK
  <2>2. SchedTypeOK'
    BY <1>3, <2>1, SchedTyped DEF ExitWake, TypeOK
  <2>3. at' \in [Pcb -> Label]
    BY <1>3, LabelStep DEF ExitWake, Step, Label, InExit
  <2> QED
    BY <1>3, <2>2, <2>3 DEF ExitWake, Step, TypeOK
<1>4. CASE ExitSwitch
  <2>1. SchedTypeOK'
    BY <1>4, SchedTyped DEF ExitSwitch, TypeOK
  <2> QED
    BY <1>4, <2>1 DEF ExitSwitch, TypeOK
<1>5. CASE Wait4Snapshot
  <2> DEFINE cand == Candidates(w.pid)
  <2>1. SchedTypeOK'
    BY <1>5, SchedTyped DEF Wait4Snapshot, TypeOK
  <2>2. at' \in [Pcb -> Label]
    BY <1>5, LabelStep DEF Wait4Snapshot, Step, Label, InWait4
  <2>3. cand \in SUBSET (Pid \X Pcb)
    BY SMT DEF Candidates, TypeOK, SchedTypeOK
  <2>4. wait' = [wait EXCEPT ![current] = [w EXCEPT !.cand = cand]]
    BY <1>5 DEF Wait4Snapshot
  <2> HIDE DEF cand
  <2>5. [w EXCEPT !.cand = cand] \in WaitType
    BY <1>0, <2>3 DEF WaitType
  <2>6. wait' \in [Pcb -> WaitType]
    BY <2>4, <2>5, WaitStep
  <2> QED
    BY <1>5, <2>1, <2>2, <2>6 DEF Wait4Snapshot, Step, TypeOK, WaitType
<1>6. ASSUME NEW c \in ZombieChildren(w), Found(c) PROVE wait' \in [Pcb -> WaitType]
  <2>1. c[1] \in Pid
    BY <1>0 DEF ZombieChildren, Children, WaitType
  <2>2. wait' = [wait EXCEPT ![current] = [w EXCEPT !.target = c[1]]]
    BY <1>6 DEF Found
  <2>3. [w EXCEPT !.target = c[1]] \in WaitType
    BY <1>0, <2>1 DEF WaitType
  <2> QED
    BY <2>2, <2>3, WaitStep
<1>7. CASE Wait4Inspect \/ Wait4Recheck
  <2>1. SchedTypeOK'
    BY <1>7, SchedTyped DEF Wait4Inspect, Wait4Recheck, TypeOK
  <2>2. at' \in [Pcb -> Label]
    BY <1>7, LabelStep DEF Wait4Inspect, Wait4Recheck, Step, Label, InWait4
  <2>3. wait' \in [Pcb -> WaitType]
    BY <1>6, <1>7 DEF Wait4Inspect, Wait4Recheck, TypeOK, WaitType
  <2> QED
    BY <1>7, <2>1, <2>2, <2>3 DEF Wait4Inspect, Wait4Recheck, Step, TypeOK, WaitType
<1>8. CASE Wait4Mark \/ Wait4Unmark \/ Wait4Resume
  <2>1. SchedTypeOK'
    BY <1>8, SchedTyped DEF Wait4Mark, Wait4Unmark, Wait4Resume, TypeOK
  <2>2. at' \in [Pcb -> Label]
    BY <1>8, LabelStep DEF Wait4Mark, Wait4Unmark, Wait4Resume, Step, Label, InWait4
  <2> QED
    BY <1>8, <2>1, <2>2 DEF Wait4Mark, Wait4Unmark, Wait4Resume, Step, TypeOK
<1>9. CASE Wait4Reap
  <2>1. at' \in [Pcb -> Label]
    BY <1>9, LabelStep DEF Wait4Reap, Step, Label, InWait4
  <2>2. table' \in [Pid -> Pcb \cup {NoPcb}]
    BY <1>9 DEF Wait4Reap, TypeOK, SchedTypeOK
  <2> QED
    BY <1>9, <2>1, <2>2 DEF Wait4Reap, Step, TypeOK, SchedTypeOK
<1>10. CASE Wait4Cleanup
  <2>1. SchedTypeOK'
    BY <1>10, SchedTyped DEF Wait4Cleanup, TypeOK
  <2>2. at' \in [Pcb -> Label]
    BY <1>10, LabelStep DEF Wait4Cleanup, Step, Label
  <2>3. pending' \in [Pid -> SUBSET Signals]
    BY <1>10 DEF Wait4Cleanup, TypeOK
  <2> QED
    BY <1>10, <2>1, <2>2, <2>3 DEF Wait4Cleanup, Step, TypeOK
<1>11. CASE Wait4Switch
  <2>1. SchedTypeOK'
    BY <1>11, SchedTyped DEF Wait4Switch, TypeOK
  <2>2. at' \in [Pcb -> Label]
    BY <1>11, LabelStep DEF Wait4Switch, Label, InWait4
  <2> QED
    BY <1>11, <2>1, <2>2 DEF Wait4Switch, TypeOK
<1> QED
  BY <1>1, <1>2, <1>3, <1>4, <1>5, <1>7, <1>8, <1>9, <1>10, <1>11 DEF KernelStep

LEMMA TickTyped ==
  ASSUME TypeOK, Tick \/ TickStep
  PROVE  TypeOK'
<1>1. CASE Tick
  BY <1>1, SchedTyped DEF Tick, TypeOK
<1>2. CASE TickSignals
  <2>1. SchedTypeOK'
    BY <1>2, SchedTyped DEF TickSignals, TypeOK
  <2>2. pending' \in [Pid -> SUBSET Signals]
    BY SMT, <1>2 DEF TickSignals, LeftPending, TypeOK, SchedTypeOK
  <2> QED
    BY <1>2, <2>1, <2>2 DEF TickSignals, TickDone, TypeOK
<1>3. CASE TickTerminate
  BY <1>3 DEF TickTerminate, TypeOK, SchedTypeOK, ProcessState
<1>4. CASE TickWake
  <2>1. ppid[current] \in Pid
    BY DEF TypeOK, SchedTypeOK
  <2>2. SchedTypeOK'
    BY <1>4, <2>1, SchedTyped DEF TickWake, TypeOK
  <2>3. pending' \in [Pid -> SUBSET Signals]
    BY <1>4 DEF TickWake, TypeOK
  <2> QED
    BY <1>4, <2>2, <2>3 DEF TickWake, TypeOK
<1>5. CASE TickReschedule
  BY <1>5, SchedTyped DEF TickReschedule, TickDone, TypeOK
<1> QED
  BY <1>1, <1>2, <1>3, <1>4, <1>5 DEF TickStep

LEMMA TypeStep ==
  ASSUME TypeOK, [Next]_vars
  PROVE  TypeOK'
<1>1. CASE UNCHANGED vars
  BY <1>1 DEF vars, schedVars, TypeOK, SchedTypeOK
<1> QED
  BY <1>1, SyscallTyped, KernelStepTyped, TickTyped DEF Next

(* Every variable keeps its type; in particular alloc_pid never hands out  *)
(* a pid outside 0 .. MaxPid, wrapped or not.                              *)
THEOREM TypeCorrect == Spec => []TypeOK
<1>1. TypeOK /\ [Next]_vars => TypeOK'
  BY TypeStep
<1> QED
  BY TypeInit, <1>1, PTL DEF Spec

-----------------------------------------------------------------------------
(* What a function of the scheduler can do to the states of processes, as  *)
(* far as StateFitsPoint and the finality of Zombie tell them apart.       *)
LEMMA DispatchEffect ==
  ASSUME IInv, SwitchOutCurrent \/ TimerTickSchedule
  PROVE  /\ \A t \in Pcb : \/ state'[t] = state[t]
                           \/ /\ state[t] \in {"Ready", "Running"}
                              /\ state'[t] \in {"Ready", "Running"}
         /\ CurrentPidMatches'
         /\ state'[current'] # "Free"
<1> USE PcbAssumption DEF IInv, TypeOK, SchedTypeOK, CurrentPidMatches
<1>1. readyQueue # <<>> => Head(readyQueue) \in Pcb /\ state[Head(readyQueue)] = "Ready"
  BY SMT DEF QueueSound
<1>2. state[Idle] \in {"Ready", "Running"}
  BY DEF StateFitsPoint
<1>3. CASE SwitchOutCurrent
  BY <1>1, <1>2, <1>3 DEF SwitchOutCurrent, Dispatch
<1>4. CASE TimerTickSchedule
  <2>1. CASE readyQueue = <<>>
    BY <1>4, <2>1 DEF TimerTickSchedule, schedVars, StateFitsPoint
  <2>2. CASE readyQueue # <<>> /\ Requeues
    BY <1>1, <1>4, <2>2 DEF TimerTickSchedule, Requeues, Dispatch
  <2>3. CASE readyQueue # <<>> /\ ~Requeues
    <3>1. state' = [state EXCEPT ![Head(readyQueue)] = "Running"] /\ current' = Head(readyQueue)
      BY <1>4, <2>3 DEF TimerTickSchedule, Dispatch
    <3>2. currentPid' = pid[Head(readyQueue)] /\ pid' = pid
      BY <1>4, <2>3 DEF TimerTickSchedule, Dispatch
    <3> QED
      BY <1>1, <2>3, <3>1, <3>2
  <2> QED
    BY <2>1, <2>2, <2>3
<1> QED
  BY <1>3, <1>4

LEMMA WakeEffect ==
  ASSUME IInv, NEW p \in Pid, WakeTask(p)
  PROVE  /\ \A t \in Pcb : \/ state'[t] = state[t]
                           \/ state[t] = "Blocked" /\ state'[t] = "Ready"
         /\ current' = current
         /\ CurrentPidMatches'
<1> USE DEF IInv, TypeOK, SchedTypeOK, CurrentPidMatches
<1>1. CASE Wakeable(p)
  <2>1. table[p] \in Pcb /\ state[table[p]] = "Blocked"
    BY <1>1 DEF Wakeable
  <2>2. state' = [state EXCEPT ![table[p]] = "Ready"] /\ UNCHANGED <<pid, current, currentPid>>
    BY <1>1 DEF WakeTask
  <2> QED
    BY <2>1, <2>2
<1>2. CASE ~Wakeable(p)
  BY <1>2 DEF WakeTask
<1> QED
  BY <1>1, <1>2

(* Only the current process moves, and only when it is not the idle task. *)
LEMMA PointEffect ==
  ASSUME IInv, NEW l, Goto(l)
  PROVE  /\ \A t \in Pcb : t # current => at'[t] = at[t]
         /\ at'[current] = l
         /\ at[current] # "idle" => current # Idle /\ at'[Idle] = at[Idle]
BY PcbAssumption DEF IInv, TypeOK, SchedTypeOK, Goto, StateFitsPoint

LEMMA InvInit == Init => IInv
<1> SUFFICES ASSUME Init PROVE IInv
  OBVIOUS
<1>1. TypeOK
  BY TypeInit
<1>2. QueueSound /\ CurrentPidMatches
  BY SMT, PcbAssumption DEF Init, QueueSound, CurrentPidMatches
<1>3. StateFitsPoint
  BY PcbAssumption DEF Init, StateFitsPoint
<1> QED
  BY <1>1, <1>2, <1>3 DEF IInv

LEMMA SyscallKeepsInv ==
  ASSUME IInv, Syscall
  PROVE  IInv'
<1> USE DEF IInv
<1>0. TypeOK'
  BY SyscallTyped
<1>1. ASSUME NEW child \in Pcb, Fork(child) PROVE IInv'
  <2>1. child # current /\ child # Idle /\ state[child] = "Free"
    BY <1>1, AllocatedWasFree DEF Fork, StateFitsPoint
  <2>2. QueueSound'
    <3>1. /\ readyQueue' = Append(readyQueue, child)
          /\ state' = [state EXCEPT ![child] = "Ready"]
          /\ current' = current
      BY <1>1 DEF Fork, AddTask
    <3>2. \A i \in 1 .. Len(readyQueue) : readyQueue[i] # child
      BY <2>1 DEF QueueSound
    <3>3. \A i \in 1 .. Len(readyQueue) : state'[readyQueue[i]] = "Ready"
      BY SMT, <3>1, <3>2 DEF QueueSound, TypeOK, SchedTypeOK
    <3>4. state'[child] = "Ready"
      BY <3>1 DEF TypeOK, SchedTypeOK
    <3>5. /\ Len(readyQueue') = Len(readyQueue) + 1
          /\ readyQueue'[Len(readyQueue) + 1] = child
          /\ \A i \in 1 .. Len(readyQueue) : readyQueue'[i] = readyQueue[i]
          /\ Len(readyQueue) \in Nat
      BY SMT, <3>1, AppendFacts DEF TypeOK, SchedTypeOK
    <3> QED
      BY SMT, <2>1, <3>1, <3>2, <3>3, <3>4, <3>5 DEF QueueSound
  <2>3. CurrentPidMatches'
    BY <1>1, <2>1 DEF Fork, CurrentPidMatches, TypeOK, SchedTypeOK
  <2>4. StateFitsPoint'
    <3>1. /\ at[current] = "user" /\ irq = "none" /\ irq' = "none" /\ current' = current
          /\ state' = [state EXCEPT ![child] = "Ready"]
          /\ Goto("ret")
      BY <1>1 DEF Fork, Enter, At
    <3>2. /\ \A t \in Pcb : t # current => at'[t] = at[t]
          /\ at'[current] = "ret"
          /\ at'[Idle] = at[Idle]
      BY <3>1, PointEffect
    <3>3. \A t \in Pcb : at[t] \in {"x_wake", "x_loop"} => t # child
      BY <2>1 DEF StateFitsPoint
    <3> QED
      BY <2>1, <3>1, <3>2, <3>3, PcbAssumption DEF StateFitsPoint, TypeOK, SchedTypeOK
  <2> QED
    BY <1>0, <2>2, <2>3, <2>4
<1>2. ASSUME NEW p \in Pid, NEW sig \in Signals, Kill(p, sig) PROVE IInv'
  <2>1. state[current] # "Blocked" /\ WakeTask(p)
    BY <1>2 DEF Kill, Enter, At, StateFitsPoint, TypeOK, SchedTypeOK
  <2>2. QueueSound'
    BY <2>1, WakeKeepsQueue DEF TypeOK
  <2>3. CurrentPidMatches'
    BY <2>1, WakeEffect
  <2>4. StateFitsPoint'
    <3>1. /\ at[current] = "user" /\ irq = "none" /\ irq' = "none"
          /\ Goto("ret")
      BY <1>2 DEF Kill, Enter, At
    <3>2. /\ \A t \in Pcb : t # current => at'[t] = at[t]
          /\ at'[current] = "ret"
          /\ at'[Idle] = at[Idle]
      BY <3>1, PointEffect
    <3>3. /\ \A t \in Pcb : \/ state'[t] = state[t]
                            \/ state[t] = "Blocked" /\ state'[t] = "Ready"
          /\ current' = current
      BY <2>1, WakeEffect
    <3> QED
      BY <2>1, <3>1, <3>2, <3>3, PcbAssumption, ZenonT(30) DEF StateFitsPoint, TypeOK, SchedTypeOK
  <2> QED
    BY <1>0, <2>2, <2>3, <2>4
<1>3. CASE Exit \/ OtherSyscall \/ \E target \in WaitArgs, hang \in BOOLEAN : Wait4(target, hang)
  <2>1. UNCHANGED schedVars /\ At("user") /\ irq' = irq /\ \E l \in {"x_zombie", "ret", "w_snapshot"} : Goto(l)
    BY <1>3 DEF Exit, OtherSyscall, Wait4, Enter
  <2>2. QueueSound' /\ CurrentPidMatches'
    BY <2>1 DEF schedVars, QueueSound, CurrentPidMatches
  <2>3. StateFitsPoint'
    BY <2>1, PointEffect DEF At, schedVars, StateFitsPoint, TypeOK, SchedTypeOK
  <2> QED
    BY <1>0, <2>2, <2>3
<1> QED
  BY <1>1, <1>2, <1>3 DEF Syscall

(* How a state may change behind the back of the process *)
HarmlessChange(t) ==
  \/ state'[t] = state[t]
  \/ state[t] \in {"Ready", "Running"} /\ state'[t] \in {"Ready", "Running"}
  \/ state[t] = "Blocked" /\ state'[t] = "Ready"

LEMMA FitsStep ==
  ASSUME IInv, NEW l, Goto(l), at[current] # "idle", irq' = "none",
         \A t \in Pcb : t # current => HarmlessChange(t),
         state'[current] = "Blocked" => l \in {"w_recheck", "w_unmark", "w_switch", "w_resume"},
         l \in {"x_wake", "x_loop"} => state'[current] = "Zombie",
         state'[current'] # "Free"
  PROVE  StateFitsPoint'
<1>1. /\ \A t \in Pcb : t # current => at'[t] = at[t]
      /\ at'[current] = l
      /\ current # Idle
      /\ at'[Idle] = at[Idle]
  BY PointEffect
<1>2. \A t \in Pcb :
        /\ state'[t] = "Blocked" => at'[t] \in {"w_recheck", "w_unmark", "w_switch", "w_resume"}
        /\ at'[t] \in {"x_wake", "x_loop"} => state'[t] = "Zombie"
  <2> TAKE t \in Pcb
  <2>1. CASE t = current
    BY <1>1, <2>1
  <2>2. CASE t # current
    BY <1>1, <2>2 DEF IInv, StateFitsPoint, HarmlessChange
  <2> QED
    BY <2>1, <2>2
<1>3. at'[Idle] = "idle" /\ state'[Idle] \in {"Ready", "Running"}
  BY <1>1, PcbAssumption DEF IInv, StateFitsPoint, HarmlessChange
<1> QED
  BY <1>2, <1>3 DEF StateFitsPoint

LEMMA KernelStepKeepsInv ==
  ASSUME IInv, KernelStep
  PROVE  IInv'
<1> USE DEF IInv
<1>0. TypeOK' /\ TypeOK /\ SchedTypeOK /\ current \in Pcb
  BY KernelStepTyped DEF TypeOK, SchedTypeOK
<1>1. CASE SyscallReturn \/ Wait4Snapshot \/ Wait4Inspect \/ Wait4Recheck \/ Wait4Cleanup
  <2>1. UNCHANGED schedVars /\ irq = "none" /\ irq' = "none"
    BY <1>1 DEF SyscallReturn, Wait4Snapshot, Wait4Inspect, Wait4Recheck, Wait4Cleanup, Step, At
  <2>2. QueueSound' /\ CurrentPidMatches'
    BY <2>1 DEF schedVars, QueueSound, CurrentPidMatches
  <2>3. PICK l : Goto(l) /\ at[current] # "idle" /\ l \notin {"x_wake", "x_loop"}
                 /\ (state[current] = "Blocked" => l \in {"w_unmark", "w_switch"})
    BY <1>0, <1>1 DEF SyscallReturn, Wait4Snapshot, Wait4Inspect, Wait4Recheck, Wait4Cleanup,
                      Step, At, StateFitsPoint
  <2>4. StateFitsPoint'
    BY <2>1, <2>3, FitsStep DEF schedVars, HarmlessChange, StateFitsPoint
  <2> QED
    BY <1>0, <2>2, <2>4
<1>2. CASE ExitZombie
  <2>1. /\ state' = [state EXCEPT ![current] = "Zombie"]
        /\ UNCHANGED <<readyQueue, pid, current, currentPid>>
        /\ irq' = "none" /\ at[current] # "idle" /\ Goto("x_wake")
    BY <1>2 DEF ExitZombie, Step, At
  <2>2. QueueSound' /\ CurrentPidMatches'
    BY <1>0, <2>1, SMTT(20) DEF QueueSound, CurrentPidMatches, SchedTypeOK
  <2>3. state'[current] = "Zombie" /\ \A t \in Pcb : t # current => state'[t] = state[t]
    BY <1>0, <2>1 DEF SchedTypeOK
  <2>4. StateFitsPoint'
    BY <2>1, <2>3, FitsStep DEF HarmlessChange
  <2> QED
    BY <1>0, <2>2, <2>4
<1>3. CASE ExitWake
  <2>1. state[current] = "Zombie" /\ at[current] # "idle" /\ irq' = "none" /\ Goto("x_loop")
    BY <1>0, <1>3 DEF ExitWake, Step, At, StateFitsPoint
  <2>2. CASE ppid[current] > 0
    <3>1. ppid[current] \in Pid /\ WakeTask(ppid[current])
      BY <1>0, <1>3, <2>2 DEF ExitWake, TypeOK
    <3>2. QueueSound'
      BY <1>0, <2>1, <3>1, WakeKeepsQueue
    <3>3. /\ \A t \in Pcb : HarmlessChange(t)
          /\ state'[current] = "Zombie" /\ current' = current
          /\ CurrentPidMatches'
      BY <1>0, <2>1, <3>1, WakeEffect DEF HarmlessChange
    <3>4. StateFitsPoint'
      BY <2>1, <3>3, FitsStep
    <3> QED
      BY <1>0, <3>2, <3>3, <3>4
  <2>3. CASE ~(ppid[current] > 0)
    <3>1. UNCHANGED schedVars
      BY <1>3, <2>3 DEF ExitWake
    <3>2. QueueSound' /\ CurrentPidMatches'
      BY <3>1 DEF schedVars, QueueSound, CurrentPidMatches
    <3>3. StateFitsPoint'
      BY <2>1, <3>1, FitsStep DEF schedVars, HarmlessChange
    <3> QED
      BY <1>0, <3>2, <3>3
  <2> QED
    BY <2>2, <2>3
<1>4. CASE ExitSwitch
  <2>1. SwitchOutCurrent /\ irq = "none" /\ irq' = "none" /\ at' = at
    BY <1>4 DEF ExitSwitch, At
  <2>2. QueueSound'
    BY <1>0, <2>1, SwitchKeepsQueue
  <2>3. StateFitsPoint' /\ CurrentPidMatches'
    BY <2>1, DispatchEffect, PcbAssumption DEF StateFitsPoint
  <2> QED
    BY <1>0, <2>2, <2>3
<1>5. CASE Wait4Switch
  <2>1. SwitchOutCurrent /\ irq' = "none" /\ at[current] # "idle" /\ Goto("w_resume")
    BY <1>5 DEF Wait4Switch, At
  <2>2. QueueSound'
    BY <1>0, <2>1, SwitchKeepsQueue
  <2>3. /\ \A t \in Pcb : HarmlessChange(t)
        /\ CurrentPidMatches'
        /\ state'[current'] # "Free"
    BY <2>1, DispatchEffect DEF HarmlessChange
  <2>4. StateFitsPoint'
    BY <2>1, <2>3, FitsStep
  <2> QED
    BY <1>0, <2>2, <2>3, <2>4
<1>6. CASE Wait4Mark \/ Wait4Unmark \/ Wait4Resume
  <2>1. PICK l : /\ Goto(l) /\ at[current] # "idle" /\ irq' = "none"
                 /\ \/ l = "w_recheck" /\ MarkCurrentBlocked
                    \/ l \notin {"x_wake", "x_loop"} /\ MarkCurrentRunning
    BY <1>6, SMTT(20) DEF Wait4Mark, Wait4Unmark, Wait4Resume, Step, At
  <2>2. QueueSound'
    BY <1>0, <2>1, MarkKeepsQueue
  <2>3. CurrentPidMatches' /\ current' = current
    BY <2>1 DEF MarkCurrentBlocked, MarkCurrentRunning, CurrentPidMatches
  <2>4. /\ \A t \in Pcb : t # current => state'[t] = state[t]
        /\ state'[current] # "Free"
        /\ state'[current] = "Blocked" => l = "w_recheck"
    BY <1>0, <2>1 DEF MarkCurrentBlocked, MarkCurrentRunning, StateFitsPoint, SchedTypeOK
  <2>5. StateFitsPoint'
    BY <2>1, <2>3, <2>4, FitsStep DEF HarmlessChange
  <2> QED
    BY <1>0, <2>2, <2>3, <2>5
<1>7. CASE Wait4Reap
  <2>1. UNCHANGED <<state, pid, readyQueue, current, currentPid>> /\ irq' = "none"
        /\ at[current] = "w_reap" /\ Goto("w_cleanup")
    BY <1>7 DEF Wait4Reap, Step, At
  <2>2. QueueSound' /\ CurrentPidMatches'
    BY <2>1 DEF QueueSound, CurrentPidMatches
  <2>3. StateFitsPoint'
    BY <1>0, <2>1, FitsStep DEF HarmlessChange, StateFitsPoint
  <2> QED
    BY <1>0, <2>2, <2>3
<1> QED
  BY <1>1, <1>2, <1>3, <1>4, <1>5, <1>6, <1>7 DEF KernelStep

LEMMA TickKeepsInv ==
  ASSUME IInv, Tick \/ TickStep
  PROVE  IInv'
<1> USE DEF IInv
<1>0. TypeOK' /\ TypeOK /\ SchedTypeOK /\ current \in Pcb
  BY TickTyped DEF TypeOK, SchedTypeOK
<1>1. CASE Tick \/ TickReschedule
  <2>1. TimerTickSchedule /\ at' = at /\ irq' \in {"signals", "none"}
    BY <1>1 DEF Tick, TickReschedule, TickDone
  <2>2. QueueSound'
    BY <1>0, <2>1, TickKeepsQueue
  <2>3. StateFitsPoint' /\ CurrentPidMatches'
    BY <2>1, DispatchEffect, PcbAssumption DEF StateFitsPoint
  <2> QED
    BY <1>0, <2>2, <2>3
<1>2. CASE TickSignals
  <2>1. UNCHANGED schedVars /\ at' = at
    BY <1>2 DEF TickSignals
  <2>2. irq' = "none" \/ (irq' = "terminate" /\ at[current] = "user")
    BY <1>2 DEF TickSignals, TickDone
  <2>3. QueueSound' /\ CurrentPidMatches'
    BY <2>1 DEF schedVars, QueueSound, CurrentPidMatches
  <2>4. StateFitsPoint'
    BY <2>1, <2>2 DEF schedVars, StateFitsPoint
  <2> QED
    BY <1>0, <2>3, <2>4
<1>3. CASE TickTerminate
  <2>1. /\ state' = [state EXCEPT ![current] = "Zombie"]
        /\ UNCHANGED <<readyQueue, pid, current, currentPid, at>>
        /\ irq' = "wake" /\ irq = "terminate"
    BY <1>3 DEF TickTerminate
  <2>2. QueueSound' /\ CurrentPidMatches'
    BY SMT, <1>0, <2>1 DEF QueueSound, CurrentPidMatches, SchedTypeOK
  <2>3. current # Idle
    BY <2>1 DEF StateFitsPoint
  <2>4. StateFitsPoint'
    BY <1>0, <2>1, <2>3, PcbAssumption DEF StateFitsPoint, SchedTypeOK
  <2> QED
    BY <1>0, <2>2, <2>4
<1>4. CASE TickWake
  <2>1. state[current] = "Zombie" /\ at' = at /\ irq' = "resched"
    BY <1>4 DEF TickWake, StateFitsPoint
  <2>2. CASE ppid[current] > 0
    <3>1. ppid[current] \in Pid /\ WakeTask(ppid[current])
      BY <1>0, <1>4, <2>2 DEF TickWake, TypeOK
    <3>2. QueueSound'
      BY <1>0, <2>1, <3>1, WakeKeepsQueue
    <3>3. /\ \A t \in Pcb : \/ state'[t] = state[t]
                            \/ state[t] = "Blocked" /\ state'[t] = "Ready"
          /\ current' = current
          /\ CurrentPidMatches'
      BY <3>1, WakeEffect
    <3>4. StateFitsPoint'
      BY <1>0, <2>1, <3>3, PcbAssumption DEF StateFitsPoint
    <3> QED
      BY <1>0, <3>2, <3>3, <3>4
  <2>3. CASE ~(ppid[current] > 0)
    BY <1>0, <1>4, <2>1, <2>3, SMTT(20) DEF TickWake, schedVars, QueueSound, CurrentPidMatches, StateFitsPoint
  <2> QED
    BY <2>2, <2>3
<1> QED
  BY <1>1, <1>2, <1>3, <1>4 DEF TickStep

LEMMA InvStep ==
  ASSUME IInv, [Next]_vars
  PROVE  IInv'
<1>1. CASE UNCHANGED vars
  <2>1. TypeOK'
    BY TypeStep DEF IInv
  <2> QED
    BY <1>1, <2>1 DEF vars, schedVars, IInv, QueueSound, CurrentPidMatches, StateFitsPoint
<1> QED
  BY <1>1, SyscallKeepsInv, KernelStepKeepsInv, TickKeepsInv DEF Next

LEMMA Invariance == Spec => []IInv
<1>1. IInv /\ [Next]_vars => IInv'
  BY InvStep
<1> QED
  BY InvInit, <1>1, PTL DEF Spec

(* The ready queue never holds a process twice, nor the process on the     *)
(* CPU, nor one that is not Ready, although no caller of add_task checks.  *)
THEOREM QueueIsSound == Spec => []QueueSound
BY Invariance, PTL DEF IInv

(* CURRENT_PID always names the process in CURRENT_PROCESS, although the   *)
(* two are stored one after the other by both switching functions.         *)
THEOREM CurrentPidIsRight == Spec => []CurrentPidMatches
BY Invariance, PTL DEF IInv

(* States and program points agree: nobody is in user mode while Blocked,  *)
(* and whoever is past the point of exit is a Zombie.                      *)
THEOREM StatesFitPoints == Spec => []StateFitsPoint
BY Invariance, PTL DEF IInv

-----------------------------------------------------------------------------
(* No step of any process or of the timer brings a Zombie back. *)
LEMMA ZombieStep ==
  ASSUME IInv, [Next]_vars, NEW t \in Pcb, state[t] = "Zombie"
  PROVE  state'[t] = "Zombie"
<1> USE DEF IInv
<1>0. TypeOK /\ SchedTypeOK /\ current \in Pcb /\ ppid[current] \in Pid
  BY DEF TypeOK, SchedTypeOK
<1>1. CASE SwitchOutCurrent \/ TimerTickSchedule
  BY <1>1, DispatchEffect
<1>2. CASE \E p \in Pid : WakeTask(p)
  BY <1>2, WakeEffect
<1>3. CASE MarkCurrentBlocked \/ MarkCurrentRunning
  BY <1>0, <1>3 DEF MarkCurrentBlocked, MarkCurrentRunning, SchedTypeOK
<1>4. CASE UNCHANGED state
  BY <1>4
<1>5. CASE Syscall
  <2>1. ASSUME NEW child \in Pcb, Fork(child) PROVE state'[t] = "Zombie"
    BY <1>0, <2>1, AllocatedWasFree DEF Fork, SchedTypeOK
  <2> QED
    BY <1>2, <1>4, <1>5, <2>1 DEF Syscall, Kill, Wait4, Exit, OtherSyscall, schedVars
<1>6. CASE KernelStep
  <2>1. CASE ExitZombie
    BY <1>0, <2>1 DEF ExitZombie, SchedTypeOK
  <2>2. CASE ExitWake
    BY <1>0, <1>2, <1>4, <2>2 DEF ExitWake, schedVars
  <2> QED
    BY <1>1, <1>3, <1>4, <1>6, <2>1, <2>2
       DEF KernelStep, SyscallReturn, ExitSwitch, Wait4Snapshot, Wait4Inspect, Wait4Mark,
           Wait4Recheck, Wait4Unmark, Wait4Reap, Wait4Cleanup, Wait4Switch, Wait4Resume, schedVars
<1>7. CASE Tick \/ TickStep
  <2>1. CASE TickTerminate
    BY <1>0, <2>1 DEF TickTerminate, SchedTypeOK
  <2>2. CASE TickWake
    BY <1>0, <1>2, <1>4, <2>2 DEF TickWake, schedVars
  <2> QED
    BY <1>1, <1>4, <1>7, <2>1, <2>2 DEF Tick, TickStep, TickSignals, TickReschedule, schedVars
<1>8. CASE UNCHANGED vars
  BY <1>4, <1>8 DEF vars, schedVars
<1> QED
  BY <1>5, <1>6, <1>7, <1>8 DEF Next

(* "Exited process never ... re-enters the ready queue" (sys_exit): no     *)
(* wakeup, requeue or unmark ever turns a Zombie into anything else.       *)
THEOREM ZombiesAreFinal == Spec => ZombieIsFinal
<1>1. IInv /\ [Next]_vars => [\A t \in Pcb : state[t] = "Zombie" => state'[t] = "Zombie"]_vars
  BY ZombieStep
<1> QED
  BY Invariance, <1>1, PTL DEF Spec, ZombieIsFinal

LEMMA DispatchedRuns ==
  ASSUME IInv, [Next]_vars
  PROVE  current' = current \/ state'[current'] = "Running"
<1> USE DEF IInv, TypeOK, SchedTypeOK
<1>1. CASE SwitchOutCurrent
  BY SMT, <1>1, PcbAssumption DEF SwitchOutCurrent, Dispatch
<1>2. CASE TimerTickSchedule
  BY SMT, <1>2 DEF TimerTickSchedule, Dispatch, schedVars
<1> QED
  BY <1>1, <1>2
     DEF Next, vars, schedVars, Syscall, Fork, Kill, Wait4, Exit, OtherSyscall, WakeTask,
         KernelStep, SyscallReturn, ExitZombie, ExitWake, ExitSwitch, Wait4Snapshot,
         Wait4Inspect, Wait4Mark, Wait4Recheck, Wait4Unmark, Wait4Reap, Wait4Cleanup,
         Wait4Switch, Wait4Resume, MarkCurrentBlocked, MarkCurrentRunning,
         Tick, TickStep, TickSignals, TickTerminate, TickWake, TickReschedule

(* Once a Zombie is off the CPU it is never queued and never runs again:   *)
(* the comment in sys_exit, except for the time until it is switched out.  *)
THEOREM DeadStayDown == Spec => ZombieNeverRuns
<1> DEFINE A == \A t \in Pcb : (state[t] = "Zombie" /\ current # t) =>
                   current' # t /\ ~Queued(t)'
<1>1. IInv /\ [Next]_vars => [A]_vars
  <2> SUFFICES ASSUME IInv, [Next]_vars, NEW t \in Pcb, state[t] = "Zombie", current # t
               PROVE  current' # t /\ ~Queued(t)'
    OBVIOUS
  <2>1. state'[t] = "Zombie"
    BY ZombieStep
  <2>2. current' # t
    BY <2>1, DispatchedRuns
  <2>3. ~Queued(t)'
    BY <2>1, InvStep DEF IInv, QueueSound, Queued
  <2> QED
    BY <2>2, <2>3
<1> QED
  BY Invariance, <1>1, PTL DEF Spec, ZombieNeverRuns

-----------------------------------------------------------------------------
(* Idle is never queued, and when it has the CPU nobody is. *)
IdleInv == ~Queued(Idle) /\ (current = Idle => readyQueue = <<>>)

LEMMA AppendWithoutIdle ==
  ASSUME NEW q \in Seq(Pcb), NEW x \in Pcb, x # Idle,
         \A i \in 1 .. Len(q) : q[i] # Idle
  PROVE  \A i \in 1 .. Len(Append(q, x)) : Append(q, x)[i] # Idle
<1>1. TAKE i \in 1 .. Len(Append(q, x))
<1>2. Len(q) \in Nat /\ Len(Append(q, x)) = Len(q) + 1
  BY AppendFacts
<1>3. CASE i \in 1 .. Len(q)
  BY SMT, <1>3, AppendFacts
<1>4. CASE i = Len(q) + 1
  BY <1>4, AppendFacts
<1> QED
  BY SMT, <1>2, <1>3, <1>4

LEMMA IdleSwitch ==
  ASSUME IInv, IdleInv, SwitchOutCurrent
  PROVE  IdleInv'
<1> USE DEF IInv, TypeOK, SchedTypeOK, IdleInv, Queued
<1>1. CASE readyQueue = <<>>
  BY <1>1 DEF SwitchOutCurrent, Dispatch
<1>2. CASE readyQueue # <<>>
  <2>1. /\ Len(Tail(readyQueue)) = Len(readyQueue) - 1
        /\ \A i \in 1 .. Len(Tail(readyQueue)) : Tail(readyQueue)[i] = readyQueue[i + 1]
        /\ Head(readyQueue) # Idle
    BY SMT, <1>2
  <2>2. readyQueue' = Tail(readyQueue) /\ current' = Head(readyQueue)
    BY <1>2 DEF SwitchOutCurrent, Dispatch
  <2> QED
    BY SMT, <2>1, <2>2
<1> QED
  BY <1>1, <1>2

LEMMA IdleTick ==
  ASSUME IInv, IdleInv, TimerTickSchedule
  PROVE  IdleInv' /\ (current = Idle => current' = Idle)
<1> USE DEF IInv, TypeOK, SchedTypeOK, IdleInv, Queued
<1>1. CASE readyQueue = <<>>
  BY <1>1 DEF TimerTickSchedule, schedVars
<1>2. CASE readyQueue # <<>>
  <2> DEFINE q == Tail(readyQueue)
  <2>1. /\ q \in Seq(Pcb) /\ Len(q) = Len(readyQueue) - 1
        /\ \A i \in 1 .. Len(q) : q[i] = readyQueue[i + 1]
        /\ Head(readyQueue) # Idle
        /\ current # Idle
    BY SMT, <1>2
  <2>2. readyQueue' \in {q, Append(q, current)} /\ current' = Head(readyQueue)
    BY <1>2 DEF TimerTickSchedule, Dispatch, AddTask
  <2>3. \A i \in 1 .. Len(q) : q[i] # Idle
    BY SMT, <2>1
  <2>4. \A i \in 1 .. Len(Append(q, current)) : Append(q, current)[i] # Idle
    <3> HIDE DEF q
    <3> QED
      BY <2>1, <2>3, AppendWithoutIdle
  <2> HIDE DEF q
  <2> QED
    BY <2>1, <2>2, <2>3, <2>4
<1> QED
  BY <1>1, <1>2

LEMMA IdleWake ==
  ASSUME IInv, IdleInv, NEW p \in Pid, WakeTask(p), current # Idle
  PROVE  IdleInv' /\ current' = current
<1> USE DEF IInv, TypeOK, SchedTypeOK, IdleInv, Queued
<1>1. CASE ~Wakeable(p)
  BY <1>1 DEF WakeTask
<1>2. CASE Wakeable(p)
  <2>1. table[p] \in Pcb /\ table[p] # Idle
    BY <1>2 DEF Wakeable, StateFitsPoint
  <2>2. readyQueue' = Append(readyQueue, table[p]) /\ current' = current
    BY <1>2 DEF WakeTask, AddTask
  <2>3. \A i \in 1 .. Len(Append(readyQueue, table[p])) : Append(readyQueue, table[p])[i] # Idle
    BY <2>1, AppendWithoutIdle
  <2> QED
    BY <2>2, <2>3
<1> QED
  BY <1>1, <1>2

LEMMA IdleStep ==
  ASSUME IInv, IdleInv, [Next]_vars
  PROVE  IdleInv' /\ (current = Idle => current' = Idle)
<1> USE DEF IInv
<1>0. current \in Pcb /\ ppid[current] \in Pid
  BY DEF TypeOK, SchedTypeOK
<1>1. CASE UNCHANGED <<readyQueue, current>>
  BY <1>1 DEF IdleInv, Queued
<1>2. CASE Syscall
  <2>1. current # Idle
    BY <1>2 DEF Syscall, Fork, Kill, Wait4, Exit, OtherSyscall, Enter, At, StateFitsPoint
  <2>2. ASSUME NEW child \in Pcb, Fork(child) PROVE IdleInv'
    <3>1. child # Idle /\ readyQueue' = Append(readyQueue, child) /\ current' = current
      BY <2>2, AllocatedWasFree DEF Fork, AddTask, StateFitsPoint
    <3>2. \A i \in 1 .. Len(Append(readyQueue, child)) : Append(readyQueue, child)[i] # Idle
      BY <3>1, AppendWithoutIdle DEF IdleInv, Queued, TypeOK, SchedTypeOK
    <3> QED
      BY <2>1, <3>1, <3>2 DEF IdleInv, Queued
  <2> QED
    BY <1>1, <1>2, <2>1, <2>2, IdleWake DEF Syscall, Kill, Wait4, Exit, OtherSyscall, schedVars
<1>3. CASE KernelStep
  <2>1. current # Idle
    BY <1>3 DEF KernelStep, SyscallReturn, ExitZombie, ExitWake, ExitSwitch, Wait4Snapshot,
         Wait4Inspect, Wait4Mark, Wait4Recheck, Wait4Unmark, Wait4Reap, Wait4Cleanup,
         Wait4Switch, Wait4Resume, Step, At, StateFitsPoint
  <2>2. CASE ExitWake
    BY <1>0, <1>1, <2>1, <2>2, IdleWake DEF ExitWake, schedVars
  <2>3. CASE ExitSwitch \/ Wait4Switch
    BY <2>1, <2>3, IdleSwitch DEF ExitSwitch, Wait4Switch
  <2> QED
    BY <1>1, <1>3, <2>2, <2>3
       DEF KernelStep, SyscallReturn, ExitZombie, Wait4Snapshot, Wait4Inspect, Wait4Mark,
           Wait4Recheck, Wait4Unmark, Wait4Reap, Wait4Cleanup, Wait4Resume,
           MarkCurrentBlocked, MarkCurrentRunning, schedVars
<1>4. CASE Tick \/ TickStep
  <2>1. CASE TickWake
    BY <1>0, <1>1, <2>1, IdleWake DEF TickWake, schedVars, StateFitsPoint
  <2> QED
    BY <1>1, <1>4, <2>1, IdleTick
       DEF Tick, TickStep, TickSignals, TickTerminate, TickReschedule, schedVars
<1> QED
  BY <1>1, <1>2, <1>3, <1>4 DEF Next, vars, schedVars

(* Once the idle task has the CPU, it keeps it.  The timer is the only     *)
(* interrupt that schedules, and it wakes nobody, so a system in which     *)
(* every process sleeps is stopped for good.                               *)
THEOREM IdleKeepsCpu == Spec => IdleIsForever
<1>1. Init => IdleInv
  BY SMT, PcbAssumption DEF Init, IdleInv, Queued
<1>2. IInv /\ IdleInv /\ [Next]_vars => IdleInv'
  BY IdleStep
<1>3. IInv /\ IdleInv /\ [Next]_vars => [current = Idle => current' = Idle]_vars
  BY IdleStep
<1> QED
  BY Invariance, <1>1, <1>2, <1>3, PTL DEF Spec, IdleIsForever

-----------------------------------------------------------------------------
(* Who is in a queue after a push, and after a pop *)
LEMMA AppendHolds ==
  ASSUME NEW q \in Seq(Pcb), NEW x \in Pcb, NEW t,
         (\E i \in 1 .. Len(q) : q[i] = t) \/ t = x
  PROVE  \E i \in 1 .. Len(Append(q, x)) : Append(q, x)[i] = t
<1>0. Len(q) \in Nat /\ Len(Append(q, x)) = Len(q) + 1
  BY AppendFacts
<1>1. CASE t = x
  BY SMT, <1>0, <1>1, AppendFacts
<1>2. CASE \E i \in 1 .. Len(q) : q[i] = t
  <2>1. PICK i \in 1 .. Len(q) : q[i] = t
    BY <1>2
  <2>2. Append(q, x)[i] = t /\ i \in 1 .. Len(Append(q, x))
    BY SMT, <1>0, <2>1, AppendFacts
  <2> QED
    BY <2>2
<1> QED
  BY <1>1, <1>2

LEMMA TailHolds ==
  ASSUME NEW q \in Seq(Pcb), q # <<>>, NEW t, t # Head(q),
         \E i \in 1 .. Len(q) : q[i] = t
  PROVE  \E i \in 1 .. Len(Tail(q)) : Tail(q)[i] = t
<1>1. PICK i \in 1 .. Len(q) : q[i] = t
  OBVIOUS
<1>2. /\ Head(q) = q[1] /\ Len(q) \in Nat /\ Len(Tail(q)) = Len(q) - 1
      /\ \A j \in 1 .. Len(Tail(q)) : Tail(q)[j] = q[j + 1]
  BY SMT
<1>3. i - 1 \in 1 .. Len(Tail(q)) /\ Tail(q)[i - 1] = t
  BY SMT, <1>1, <1>2
<1> QED
  BY <1>3

(* A step that moves at most the process on the CPU *)
OthersStay == \A t \in Pcb : t # current => at'[t] = at[t]

LEMMA ReadySame ==
  ASSUME ReadyIsQueued, OthersStay, UNCHANGED <<readyQueue, current>>,
         \A t \in Pcb : state'[t] = state[t] \/ (t = current /\ state'[t] # "Ready")
  PROVE  ReadyIsQueued'
BY DEF ReadyIsQueued, OthersStay, Queued

LEMMA ReadyPush ==
  ASSUME IInv, ReadyIsQueued, OthersStay, NEW u \in Pcb,
         readyQueue' = Append(readyQueue, u), current' = current,
         state' = [state EXCEPT ![u] = "Ready"]
  PROVE  ReadyIsQueued'
<1>0. readyQueue \in Seq(Pcb) /\ state \in [Pcb -> ProcessState \cup {"Free"}]
  BY DEF IInv, TypeOK, SchedTypeOK
<1> SUFFICES ASSUME NEW t \in Pcb \ {Idle, BootInit}
             PROVE  /\ state'[t] = "Ready" => Queued(t)'
                    /\ state'[t] = "Running" => t = current' \/ at'[t] = "w_resume"
  BY DEF ReadyIsQueued
<1>1. state'[t] = "Ready" => (\E i \in 1 .. Len(readyQueue) : readyQueue[i] = t) \/ t = u
  BY <1>0 DEF ReadyIsQueued, Queued
<1>2. state'[t] = "Ready" => Queued(t)'
  BY SMT, <1>0, <1>1, AppendHolds DEF Queued
<1>3. state'[t] = "Running" => t = current' \/ at'[t] = "w_resume"
  BY <1>0 DEF ReadyIsQueued, OthersStay
<1> QED
  BY <1>2, <1>3

LEMMA ReadyWake ==
  ASSUME IInv, ReadyIsQueued, OthersStay, NEW p \in Pid, WakeTask(p)
  PROVE  ReadyIsQueued'
<1>1. CASE Wakeable(p)
  <2>1. table[p] \in Pcb
    BY <1>1 DEF Wakeable, IInv, TypeOK, SchedTypeOK
  <2> QED
    BY <1>1, <2>1, ReadyPush DEF WakeTask, AddTask
<1>2. CASE ~Wakeable(p)
  BY <1>2, ReadySame DEF WakeTask
<1> QED
  BY <1>1, <1>2

LEMMA ReadySwitch ==
  ASSUME IInv, ReadyIsQueued, OthersStay, SwitchOutCurrent,
         at'[current] = "w_resume" \/ state[current] = "Zombie"
  PROVE  ReadyIsQueued'
<1>0. /\ readyQueue \in Seq(Pcb) /\ state \in [Pcb -> ProcessState \cup {"Free"}]
      /\ current \in Pcb /\ ~Queued(current)
  BY DEF IInv, TypeOK, SchedTypeOK, QueueSound, Queued
<1> SUFFICES ASSUME NEW t \in Pcb \ {Idle, BootInit}
             PROVE  /\ state'[t] = "Ready" => Queued(t)'
                    /\ state'[t] = "Running" => t = current' \/ at'[t] = "w_resume"
  BY DEF ReadyIsQueued
<1>1. state' = [state EXCEPT ![current'] = "Running"] /\ current' \in Pcb
  <2>1. CASE readyQueue = <<>>
    BY <2>1, PcbAssumption DEF SwitchOutCurrent, Dispatch
  <2>2. CASE readyQueue # <<>>
    <3>1. Head(readyQueue) \in Pcb
      BY SMT, <1>0, <2>2
    <3> QED
      BY <2>2, <3>1 DEF SwitchOutCurrent, Dispatch
  <2> QED
    BY <2>1, <2>2
<1>2. state'[t] = "Running" => t = current' \/ at'[t] = "w_resume"
  BY <1>0, <1>1 DEF ReadyIsQueued, OthersStay
<1>3. ASSUME state'[t] = "Ready" PROVE Queued(t)'
  <2>1. t # current' /\ Queued(t)
    BY <1>0, <1>1, <1>3 DEF ReadyIsQueued
  <2>2. readyQueue # <<>>
    BY SMT, <2>1 DEF Queued
  <2>3. readyQueue' = Tail(readyQueue) /\ current' = Head(readyQueue)
    BY <2>2 DEF SwitchOutCurrent, Dispatch
  <2>4. \E i \in 1 .. Len(Tail(readyQueue)) : Tail(readyQueue)[i] = t
    <3>1. t # Head(readyQueue)
      BY <2>1, <2>3
    <3>2. \E i \in 1 .. Len(readyQueue) : readyQueue[i] = t
      BY <2>1 DEF Queued
    <3> QED
      BY <1>0, <2>2, <3>1, <3>2, TailHolds
  <2> QED
    BY <2>3, <2>4 DEF Queued
<1> QED
  BY <1>2, <1>3

LEMMA ReadyTick ==
  ASSUME IInv, ReadyIsQueued, OthersStay, TimerTickSchedule
  PROVE  ReadyIsQueued'
<1>0. /\ readyQueue \in Seq(Pcb) /\ state \in [Pcb -> ProcessState \cup {"Free"}]
      /\ current \in Pcb /\ ~Queued(current)
  BY DEF IInv, TypeOK, SchedTypeOK, QueueSound, Queued
<1>1. CASE readyQueue = <<>>
  BY <1>1, ReadySame DEF TimerTickSchedule, schedVars
<1>2. CASE readyQueue # <<>>
  <2> DEFINE h == Head(readyQueue)
             q == Tail(readyQueue)
  <2>1. h \in Pcb /\ q \in Seq(Pcb) /\ current' = h /\ h # current
    BY SMT, <1>0, <1>2 DEF TimerTickSchedule, Dispatch, Queued
  <2>2. /\ state'[h] = "Running"
        /\ \A t \in Pcb : t # h /\ t # current => state'[t] = state[t]
        /\ state[current] = "Running" => readyQueue' = Append(q, current)
        /\ state[current] # "Running" => readyQueue' = q /\ state'[current] = state[current]
        /\ state[current] = "Running" => state'[current] = "Ready"
    BY <1>0, <1>2, <2>1 DEF TimerTickSchedule, Dispatch, Requeues, AddTask
  <2> SUFFICES ASSUME NEW t \in Pcb \ {Idle, BootInit}
               PROVE  /\ state'[t] = "Ready" => Queued(t)'
                      /\ state'[t] = "Running" => t = current' \/ at'[t] = "w_resume"
    BY DEF ReadyIsQueued
  <2>3. state'[t] = "Running" => t = current' \/ at'[t] = "w_resume"
    BY <2>1, <2>2 DEF ReadyIsQueued, OthersStay
  <2>4. ASSUME state'[t] = "Ready" PROVE Queued(t)'
    <3>1. t # h
      BY <2>2, <2>4
    <3>2. CASE t = current
      <4>1. state[current] = "Running"
        BY <1>0, <2>2, <2>4, <3>2 DEF ReadyIsQueued
      <4> HIDE DEF q
      <4>2. current \in Pcb /\ q \in Seq(Pcb)
        BY <1>0, <2>1
      <4>3. \E i \in 1 .. Len(Append(q, current)) : Append(q, current)[i] = t
        BY SMTT(30), <3>2, <4>2, AppendHolds
      <4> QED
        BY <2>2, <4>1, <4>3 DEF Queued
    <3>3. CASE t # current
      <4>1. Queued(t)
        BY <2>2, <2>4, <3>1, <3>3 DEF ReadyIsQueued
      <4>2. \E i \in 1 .. Len(q) : q[i] = t
        BY <1>0, <1>2, <3>1, <4>1, TailHolds DEF Queued
      <4> HIDE DEF q
      <4>3. \E i \in 1 .. Len(Append(q, current)) : Append(q, current)[i] = t
        BY SMT, <1>0, <2>1, <4>2, AppendHolds
      <4>4. readyQueue' = q \/ readyQueue' = Append(q, current)
        BY <2>2
      <4> QED
        BY <4>2, <4>3, <4>4 DEF Queued
    <3> QED
      BY <3>2, <3>3
  <2> QED
    BY <2>3, <2>4
<1> QED
  BY <1>1, <1>2

LEMMA ReadyStep ==
  ASSUME IInv, ReadyIsQueued, [Next]_vars
  PROVE  ReadyIsQueued'
<1>0. /\ current \in Pcb /\ ppid[current] \in Pid
      /\ state \in [Pcb -> ProcessState \cup {"Free"}] /\ at \in [Pcb -> Label]
  BY DEF IInv, TypeOK, SchedTypeOK
<1>1. ASSUME NEW l, Goto(l) PROVE OthersStay
  BY <1>0, <1>1 DEF Goto, OthersStay
<1>2. CASE Syscall
  <2>1. OthersStay
    BY <1>1, <1>2 DEF Syscall, Fork, Kill, Wait4, Exit, OtherSyscall, Enter
  <2>2. ASSUME NEW child \in Pcb, Fork(child) PROVE ReadyIsQueued'
    BY <2>1, <2>2, ReadyPush DEF Fork, AddTask
  <2>3. ASSUME NEW p \in Pid, NEW sig \in Signals, Kill(p, sig) PROVE ReadyIsQueued'
    BY <2>1, <2>3, ReadyWake DEF Kill
  <2>4. CASE UNCHANGED schedVars
    BY <2>1, <2>4, ReadySame DEF schedVars
  <2> QED
    BY <1>2, <2>2, <2>3, <2>4 DEF Syscall, Wait4, Exit, OtherSyscall
<1>3. CASE KernelStep
  <2>1. CASE ExitWake
    BY <1>0, <1>1, <2>1, ReadyWake, ReadySame DEF ExitWake, Step, schedVars
  <2>2. CASE ExitSwitch
    <3>1. state[current] = "Zombie" /\ OthersStay /\ SwitchOutCurrent
      BY <1>0, <2>2 DEF ExitSwitch, At, IInv, StateFitsPoint, OthersStay
    <3> QED
      BY <3>1, ReadySwitch
  <2>3. CASE Wait4Switch
    <3>1. at'[current] = "w_resume" /\ OthersStay /\ SwitchOutCurrent
      BY <1>0, <2>3 DEF Wait4Switch, Goto, OthersStay
    <3> QED
      BY <3>1, ReadySwitch
  <2>4. CASE ExitZombie \/ Wait4Mark \/ Wait4Unmark \/ Wait4Resume
    <3>1. OthersStay
      BY <1>1, <2>4 DEF ExitZombie, Wait4Mark, Wait4Unmark, Wait4Resume, Step
    <3>2. /\ UNCHANGED <<readyQueue, current>>
          /\ \A t \in Pcb : state'[t] = state[t] \/ (t = current /\ state'[t] # "Ready")
      BY <1>0, <2>4 DEF ExitZombie, Wait4Mark, Wait4Unmark, Wait4Resume,
           MarkCurrentBlocked, MarkCurrentRunning
    <3> QED
      BY <3>1, <3>2, ReadySame
  <2>5. CASE SyscallReturn \/ Wait4Snapshot \/ Wait4Inspect \/ Wait4Recheck
             \/ Wait4Reap \/ Wait4Cleanup
    <3>1. OthersStay /\ UNCHANGED <<state, readyQueue, current>>
      BY <1>1, <2>5 DEF SyscallReturn, Wait4Snapshot, Wait4Inspect, Wait4Recheck,
           Wait4Reap, Wait4Cleanup, Step, schedVars
    <3> QED
      BY <3>1, ReadySame
  <2> QED
    BY <1>3, <2>1, <2>2, <2>3, <2>4, <2>5 DEF KernelStep
<1>4. CASE Tick \/ TickStep
  <2>1. OthersStay
    BY <1>4 DEF Tick, TickStep, TickSignals, TickTerminate, TickWake, TickReschedule, OthersStay
  <2>2. CASE Tick \/ TickReschedule
    BY <2>1, <2>2, ReadyTick DEF Tick, TickReschedule
  <2>3. CASE TickWake
    BY <1>0, <2>1, <2>3, ReadyWake, ReadySame DEF TickWake, schedVars
  <2>4. CASE TickSignals \/ TickTerminate
    <3>1. /\ UNCHANGED <<readyQueue, current>>
          /\ \A t \in Pcb : state'[t] = state[t] \/ (t = current /\ state'[t] # "Ready")
      BY <1>0, <2>4 DEF TickSignals, TickTerminate, schedVars
    <3> QED
      BY <2>1, <3>1, ReadySame
  <2> QED
    BY <1>4, <2>2, <2>3, <2>4 DEF TickStep
<1>5. CASE UNCHANGED vars
  BY <1>5 DEF vars, schedVars, ReadyIsQueued, Queued
<1> QED
  BY <1>2, <1>3, <1>4, <1>5 DEF Next

(* No preemption, wakeup or fork loses a process that could run: Ready is  *)
(* queued, Running is on the CPU, but for init and for a waiter that was   *)
(* woken before it called switch_out_current.                              *)
THEOREM ReadyAreQueued == Spec => []ReadyIsQueued
<1>1. Init => ReadyIsQueued
  BY DEF Init, ReadyIsQueued
<1>2. IInv /\ ReadyIsQueued /\ [Next]_vars => ReadyIsQueued'
  BY ReadyStep
<1> QED
  BY Invariance, <1>1, <1>2, PTL DEF Spec

-----------------------------------------------------------------------------
(* sys_wait4: what it reaps, and over what it does not sleep.  Both rest   *)
(* on the link between pids and objects.  The process table and the        *)
(* candidates of a wait4 pair a pid with an object that bears it, and the  *)
(* locals of a caller name zombies that are its children.  SleeperSafe     *)
(* extends the property of a sleeper to the point before its switch, where *)
(* it can be preempted.                                                    *)

KnownPids ==
  /\ state[BootInit] # "Free"
  /\ \A p \in Pid : table[p] # NoPcb => pid[table[p]] = p /\ state[table[p]] # "Free"
  /\ \A t \in Pcb : (state[t] # "Free" /\ t # Idle) => pid[t] > 0
  /\ \A p \in Pid : table[p] = BootInit =>
       \A u \in Pcb \ {BootInit, Idle} : state[u] # "Free" => pid[u] # p
  /\ ppid[BootInit] = 0 /\ ppid[Idle] = 0 /\ pid[Idle] = 0

KnownWait(t) ==
  /\ at[t] # "user" => state[t] # "Free"
  /\ at[t] \in InWait4 => wait[t].calling = pid[t]
  /\ \A c \in wait[t].cand : state[c[2]] # "Free" /\ pid[c[2]] = c[1]
  /\ at[t] \in {"w_unmark", "w_reap"} =>
       \E c \in wait[t].cand : /\ c[1] = wait[t].target
                               /\ state[c[2]] = "Zombie"
                               /\ ppid[c[2]] = wait[t].calling

KnownWaits == \A t \in Pcb : KnownWait(t)

-----------------------------------------------------------------------------
(* A fork touches an unused object and one entry of the table. *)
LEMMA ForkEffect ==
  ASSUME IInv, NEW child \in Pcb, Fork(child)
  PROVE  /\ state[child] = "Free" /\ state'[child] = "Ready"
         /\ AllocPid \in Pid /\ AllocPid > 0
         /\ pid'[child] = AllocPid
         /\ \A t \in Pcb : t # child =>
              state'[t] = state[t] /\ pid'[t] = pid[t] /\ ppid'[t] = ppid[t]
         /\ table'[AllocPid] = child
         /\ \A p \in Pid : p # AllocPid => table'[p] = table[p]
<1>1. AllocPid \in Pid /\ AllocPid > 0
  BY AllocPidTyped DEF IInv, TypeOK
<1>2. state[child] = "Free"
  BY AllocatedWasFree DEF Fork
<1> QED
  BY <1>1, <1>2 DEF Fork, IInv, TypeOK, SchedTypeOK

(* Every other step leaves pids alone, creates nobody, and can only take   *)
(* entries out of the table.                                               *)
LEMMA OtherEffect ==
  ASSUME IInv, [Next]_vars, ~\E child \in Pcb : Fork(child)
  PROVE  /\ pid' = pid /\ ppid' = ppid
         /\ \A t \in Pcb : state'[t] = "Free" <=> state[t] = "Free"
         /\ \A p \in Pid : table'[p] \in {table[p], NoPcb}
<1> USE DEF IInv
<1>0. /\ TypeOK /\ SchedTypeOK /\ current \in Pcb /\ ppid[current] \in Pid
      /\ wait[current].target \in Pid /\ state[current] # "Free"
  BY DEF TypeOK, SchedTypeOK, StateFitsPoint
<1>6. ppid' = ppid
  BY DEF vars, Next, Syscall, Kill, Wait4, Exit, OtherSyscall, KernelStep, SyscallReturn,
         ExitZombie, ExitWake, ExitSwitch, Wait4Snapshot, Wait4Inspect, Wait4Mark,
         Wait4Recheck, Wait4Unmark, Wait4Reap, Wait4Cleanup, Wait4Switch, Wait4Resume,
         Tick, TickStep, TickSignals, TickTerminate, TickWake, TickReschedule
<1>1. CASE SwitchOutCurrent \/ TimerTickSchedule
  <2>1. \A t \in Pcb : state'[t] = "Free" <=> state[t] = "Free"
    BY <1>1, DispatchEffect
  <2>2. pid' = pid /\ table' = table
    BY <1>1 DEF SwitchOutCurrent, TimerTickSchedule, Dispatch, schedVars
  <2> QED
    BY <1>6, <2>1, <2>2
<1>2. CASE \E p \in Pid : WakeTask(p)
  <2>1. \A t \in Pcb : state'[t] = "Free" <=> state[t] = "Free"
    BY <1>2, WakeEffect
  <2>2. pid' = pid /\ table' = table
    BY <1>2 DEF WakeTask
  <2> QED
    BY <1>6, <2>1, <2>2
<1>3. CASE MarkCurrentBlocked \/ MarkCurrentRunning \/ UNCHANGED schedVars
  <2>1. \A t \in Pcb : state'[t] = "Free" <=> state[t] = "Free"
    BY <1>0, <1>3 DEF MarkCurrentBlocked, MarkCurrentRunning, schedVars, SchedTypeOK
  <2>2. pid' = pid /\ table' = table
    BY <1>3 DEF MarkCurrentBlocked, MarkCurrentRunning, schedVars
  <2> QED
    BY <1>6, <2>1, <2>2
<1>4. CASE ExitZombie \/ TickTerminate
  BY <1>0, <1>4 DEF ExitZombie, TickTerminate, SchedTypeOK
<1>5. CASE Wait4Reap
  BY <1>0, <1>5 DEF Wait4Reap, SchedTypeOK
<1> QED
  BY <1>0, <1>1, <1>2, <1>3, <1>4, <1>5
     DEF vars, Next, Syscall, Kill, Wait4, Exit, OtherSyscall, KernelStep, SyscallReturn,
         ExitWake, ExitSwitch, Wait4Snapshot, Wait4Inspect, Wait4Mark, Wait4Recheck,
         Wait4Unmark, Wait4Cleanup, Wait4Switch, Wait4Resume,
         Tick, TickStep, TickSignals, TickWake, TickReschedule

(* Whoever exists keeps its pid, its parent and its existence. *)
LEMMA IdentityKept ==
  ASSUME IInv, [Next]_vars, NEW t \in Pcb, state[t] # "Free"
  PROVE  state'[t] # "Free" /\ pid'[t] = pid[t] /\ ppid'[t] = ppid[t]
BY ForkEffect, OtherEffect

LEMMA PidsStep ==
  ASSUME IInv, KnownPids, [Next]_vars
  PROVE  KnownPids'
<1> USE DEF KnownPids
<1>0. table \in [Pid -> Pcb \cup {NoPcb}] /\ Idle \in Pcb /\ BootInit \in Pcb /\ NoPcb \notin Pcb
  BY PcbAssumption DEF IInv, TypeOK, SchedTypeOK
<1>1. ASSUME NEW child \in Pcb, Fork(child) PROVE KnownPids'
  <2> HIDE DEF KnownPids
  <2>0. /\ state[child] = "Free" /\ state'[child] = "Ready"
        /\ AllocPid \in Pid /\ AllocPid > 0
        /\ pid'[child] = AllocPid
        /\ \A t \in Pcb : t # child =>
             state'[t] = state[t] /\ pid'[t] = pid[t] /\ ppid'[t] = ppid[t]
        /\ table'[AllocPid] = child
        /\ \A p \in Pid : p # AllocPid => table'[p] = table[p]
    BY <1>1, ForkEffect
  <2>1. child # BootInit /\ child # Idle
    <3>1. state[BootInit] # "Free" /\ state[Idle] # "Free"
      BY DEF KnownPids, IInv, StateFitsPoint
    <3> QED
      BY <2>0, <3>1
  <2>2. \A p \in Pid : table'[p] # NoPcb => pid'[table'[p]] = p /\ state'[table'[p]] # "Free"
    BY SMT, <1>0, <2>0 DEF KnownPids
  <2>3. \A p \in Pid : table'[p] = BootInit =>
          \A u \in Pcb \ {BootInit, Idle} : state'[u] # "Free" => pid'[u] # p
    BY SMT, <1>0, <2>0, <2>1 DEF KnownPids
  <2> QED
    BY Zenon, <1>0, <2>0, <2>1, <2>2, <2>3 DEF KnownPids
<1>2. CASE ~\E child \in Pcb : Fork(child)
  BY SMT, <1>0, <1>2, OtherEffect
<1> QED
  BY <1>1, <1>2

-----------------------------------------------------------------------------
(* What is known of a caller of wait4 outlasts the steps of others. *)
LEMMA WaitKept ==
  ASSUME IInv, KnownWaits, [Next]_vars, NEW t \in Pcb, at'[t] = at[t], wait'[t] = wait[t]
  PROVE  KnownWait(t)'
<1>0. wait[t].cand \subseteq Pid \X Pcb /\ at[Idle] = "idle"
  BY DEF IInv, TypeOK, StateFitsPoint
<1>1. KnownWait(t)
  BY DEF KnownWaits
<1>2. at'[t] # "user" => state'[t] # "Free"
  BY <1>1, IdentityKept DEF KnownWait
<1>3. at'[t] \in InWait4 => wait'[t].calling = pid'[t]
  BY <1>1, IdentityKept DEF KnownWait, InWait4
<1>4. \A c \in wait'[t].cand : state'[c[2]] # "Free" /\ pid'[c[2]] = c[1]
  BY SMT, <1>0, <1>1, IdentityKept DEF KnownWait
<1>5. ASSUME at'[t] \in {"w_unmark", "w_reap"}
      PROVE  \E c \in wait'[t].cand : /\ c[1] = wait'[t].target
                                       /\ state'[c[2]] = "Zombie"
                                       /\ ppid'[c[2]] = wait'[t].calling
  <2>1. PICK c \in wait[t].cand : /\ c[1] = wait[t].target
                                  /\ state[c[2]] = "Zombie"
                                  /\ ppid[c[2]] = wait[t].calling
    BY <1>1, <1>5 DEF KnownWait
  <2>2. c[2] \in Pcb
    BY <1>0
  <2>3. state'[c[2]] = "Zombie" /\ ppid'[c[2]] = ppid[c[2]]
    BY <2>1, <2>2, ZombieStep, IdentityKept
  <2> QED
    BY <2>1, <2>3
<1> QED
  BY <1>2, <1>3, <1>4, <1>5 DEF KnownWait

(* Only the process on the CPU moves. *)
LEMMA OthersWait ==
  ASSUME IInv, [Next]_vars, NEW t \in Pcb, t # current
  PROVE  at'[t] = at[t] /\ wait'[t] = wait[t]
<1>0. at \in [Pcb -> Label] /\ DOMAIN wait = Pcb /\ current \in Pcb
  BY DEF IInv, TypeOK, SchedTypeOK
<1>1. CASE Syscall
  BY <1>0, <1>1 DEF Syscall, Fork, Kill, Wait4, Exit, OtherSyscall, Enter, Goto
<1>2. CASE KernelStep
  BY <1>0, <1>2 DEF KernelStep, SyscallReturn, ExitZombie, ExitWake, ExitSwitch, Wait4Snapshot,
       Wait4Inspect, Wait4Mark, Wait4Recheck, Wait4Unmark, Wait4Reap, Wait4Cleanup,
       Wait4Switch, Wait4Resume, Step, Goto, Found
<1>3. CASE Tick \/ TickStep \/ UNCHANGED vars
  BY <1>3 DEF Tick, TickStep, TickSignals, TickTerminate, TickWake, TickReschedule, vars
<1> QED
  BY <1>1, <1>2, <1>3 DEF Next

(* The process on the CPU moves on with what it knows, or with something   *)
(* it has just seen.                                                       *)
LEMMA MoverWait ==
  ASSUME IInv, KnownPids, KnownWaits, [Next]_vars, NEW t \in Pcb, t = current
  PROVE  KnownWait(t)'
<1>0. /\ at \in [Pcb -> Label] /\ wait \in [Pcb -> WaitType] /\ state[t] # "Free"
      /\ table \in [Pid -> Pcb \cup {NoPcb}] /\ currentPid = pid[t] /\ currentPid \in Pid
  BY DEF IInv, TypeOK, SchedTypeOK, WaitType, StateFitsPoint, CurrentPidMatches
<1>1. state'[t] # "Free" /\ pid'[t] = pid[t]
  BY <1>0, IdentityKept
<1>2. KnownWait(t) /\ wait[t] \in WaitType /\ wait[t].cand \subseteq Pid \X Pcb
  BY <1>0 DEF KnownWaits, WaitType
<1>3. \A c \in wait[t].cand : state'[c[2]] # "Free" /\ pid'[c[2]] = c[1]
  BY <1>2, IdentityKept DEF KnownWait
<1>4. ASSUME at'[t] \notin {"w_unmark", "w_reap"},
             wait'[t].cand = {} \/ wait'[t].cand = wait[t].cand,
             at'[t] \in InWait4 => wait'[t].calling = pid[t]
      PROVE  KnownWait(t)'
  BY <1>1, <1>3, <1>4 DEF KnownWait
<1>5. ASSUME wait' = wait, at'[t] \notin {"w_unmark", "w_reap"},
             at'[t] \notin InWait4 \/ at[t] \in InWait4
      PROVE  KnownWait(t)'
  BY <1>2, <1>4, <1>5 DEF KnownWait
<1>6. CASE Syscall
  <2>1. ASSUME NEW target \in WaitArgs, NEW hang \in BOOLEAN, Wait4(target, hang)
        PROVE  KnownWait(t)'
    <3>1. wait'[t] = [NoWait EXCEPT !.pid = target, !.hang = hang, !.calling = currentPid]
      BY <1>0, <2>1 DEF Wait4
    <3>2. wait'[t].cand = {} /\ wait'[t].calling = pid[t]
      BY <1>0, <3>1 DEF NoWait
    <3> QED
      BY <1>0, <1>4, <2>1, <3>2 DEF Wait4, Enter, Goto
  <2>2. CASE \/ \E child \in Pcb : Fork(child)
             \/ \E p \in Pid, sig \in Signals : Kill(p, sig)
             \/ Exit \/ OtherSyscall
    BY <1>0, <1>5, <2>2 DEF Fork, Kill, Exit, OtherSyscall, Enter, Goto, InWait4
  <2> QED
    BY <1>6, <2>1, <2>2 DEF Syscall
<1>7. CASE SyscallReturn
  <2>1. wait'[t].cand = {}
    BY <1>0, <1>7 DEF SyscallReturn, NoWait
  <2> QED
    BY <1>0, <1>4, <1>7, <2>1, ZenonT(40) DEF SyscallReturn, Goto, InWait4
<1>8. CASE ExitZombie \/ ExitWake \/ Wait4Mark \/ Wait4Cleanup \/ Wait4Switch \/ Wait4Resume
  BY <1>0, <1>5, <1>8
     DEF ExitZombie, ExitWake, Wait4Mark, Wait4Cleanup, Wait4Switch, Wait4Resume, Step, At, Goto, InWait4
<1>9. CASE Wait4Snapshot
  <2>1. wait'[t].cand = Candidates(wait[t].pid) /\ wait'[t].calling = wait[t].calling
    BY <1>0, <1>9 DEF Wait4Snapshot, WaitType
  <2>2. \A c \in wait'[t].cand : c[2] \in Pcb /\ state[c[2]] # "Free" /\ pid[c[2]] = c[1]
    BY SMT, <1>0, <2>1 DEF Candidates, KnownPids
  <2>3. \A c \in wait'[t].cand : state'[c[2]] # "Free" /\ pid'[c[2]] = c[1]
    BY <2>2, IdentityKept
  <2>4. at[t] = "w_snapshot" /\ at'[t] \in {"w_inspect", "ret"}
    BY <1>0, <1>9 DEF Wait4Snapshot, Step, At, Goto
  <2> QED
    BY <1>1, <1>2, <2>1, <2>3, <2>4 DEF KnownWait, InWait4
<1>10. ASSUME at[t] \in InWait4, at'[t] \in InWait4, UNCHANGED <<state, ppid>>,
              NEW c \in ZombieChildren(wait[t]), Found(c)
       PROVE  KnownWait(t)'
  <2>1. /\ wait'[t].cand = wait[t].cand /\ wait'[t].calling = wait[t].calling
        /\ wait'[t].target = c[1]
    BY <1>0, <1>10 DEF Found, WaitType
  <2>2. c \in wait[t].cand /\ state[c[2]] = "Zombie" /\ ppid[c[2]] = wait[t].calling
    BY <1>10 DEF ZombieChildren, Children
  <2>3. state'[c[2]] = "Zombie" /\ ppid'[c[2]] = wait'[t].calling
    BY <1>10, <2>1, <2>2
  <2> QED
    BY <1>1, <1>2, <1>3, <1>10, <2>1, <2>2, <2>3 DEF KnownWait
<1>11. CASE Wait4Inspect \/ Wait4Recheck
  <2>1. UNCHANGED <<state, ppid>> /\ at[t] \in InWait4
    BY <1>0, <1>11 DEF Wait4Inspect, Wait4Recheck, Step, At, schedVars, InWait4
  <2>2. \/ /\ wait' = wait /\ at'[t] \notin {"w_unmark", "w_reap"}
        \/ /\ at'[t] \in InWait4
           /\ \E c \in ZombieChildren(wait[t]) : Found(c)
    BY <1>0, <1>11 DEF Wait4Inspect, Wait4Recheck, Step, At, Goto, InWait4
  <2> QED
    BY <1>5, <1>10, <2>1, <2>2
<1>12. CASE Wait4Unmark \/ Wait4Reap
  <2>1. wait' = wait /\ at[t] \in {"w_unmark", "w_reap"} /\ at'[t] \in {"w_reap", "w_cleanup"}
    BY <1>0, <1>12 DEF Wait4Unmark, Wait4Reap, Step, At, Goto
  <2>2. PICK c \in wait[t].cand : /\ c[1] = wait[t].target
                                  /\ state[c[2]] = "Zombie"
                                  /\ ppid[c[2]] = wait[t].calling
    BY <1>2, <2>1 DEF KnownWait
  <2>3. state'[c[2]] = "Zombie" /\ ppid'[c[2]] = ppid[c[2]]
    BY <1>2, <2>2, ZombieStep, IdentityKept
  <2> QED
    BY <1>1, <1>2, <1>3, <2>1, <2>2, <2>3 DEF KnownWait, InWait4
<1>13. CASE ExitSwitch \/ Tick \/ TickStep \/ UNCHANGED vars
  BY <1>13, WaitKept
     DEF ExitSwitch, Tick, TickStep, TickSignals, TickTerminate, TickWake, TickReschedule, vars
<1> QED
  BY <1>6, <1>7, <1>8, <1>9, <1>11, <1>12, <1>13 DEF Next, KernelStep

(* What the table and the callers of wait4 know stays true. *)
LEMMA KnowledgeInvariance == Spec => [](IInv /\ KnownPids /\ KnownWaits)
<1>1. ASSUME Init PROVE KnownPids /\ KnownWaits
  <2>1. KnownPids
    <3>1. /\ pid = [t \in Pcb |-> IF t = BootInit THEN 1 ELSE 0]
          /\ state = [t \in Pcb |-> IF t \in {BootInit, Idle} THEN "Ready" ELSE "Free"]
      BY <1>1, PcbAssumption DEF Init
    <3>2. ASSUME NEW p \in Pid
          PROVE  \/ p = 0 /\ table[p] = Idle
                 \/ p = 1 /\ table[p] = BootInit
                 \/ table[p] = NoPcb
      BY SMT, <1>1 DEF Init
    <3>3. \A p \in Pid : table[p] # NoPcb => pid[table[p]] = p /\ state[table[p]] # "Free"
      BY <3>1, <3>2, PcbAssumption
    <3>4. \A u \in Pcb \ {BootInit, Idle} : state[u] = "Free"
      BY <3>1
    <3>5. \A t \in Pcb : (state[t] # "Free" /\ t # Idle) => t = BootInit /\ pid[t] = 1
      BY <3>1, <3>4
    <3>6. /\ state[BootInit] # "Free"
          /\ ppid[BootInit] = 0 /\ ppid[Idle] = 0 /\ pid[Idle] = 0
      BY <1>1, PcbAssumption DEF Init
    <3> QED
      BY SMT, <3>3, <3>4, <3>5, <3>6 DEF KnownPids
  <2>2. ASSUME NEW t \in Pcb PROVE KnownWait(t)
    <3>1. wait[t].cand = {}
      BY <1>1 DEF Init, NoWait
    <3>2. at[t] \in {"user", "idle"} /\ (at[t] # "user" => state[t] # "Free")
      BY <1>1, PcbAssumption DEF Init
    <3> QED
      BY <3>1, <3>2 DEF KnownWait, InWait4
  <2> QED
    BY <2>1, <2>2 DEF KnownWaits
<1>2. IInv /\ KnownPids /\ KnownWaits /\ [Next]_vars => KnownPids' /\ KnownWaits'
  BY PidsStep, WaitKept, OthersWait, MoverWait DEF KnownWaits
<1> QED
  BY Invariance, <1>1, <1>2, PTL DEF Spec

-----------------------------------------------------------------------------
(* What leaves the process table, and how *)
LEMMA EntriesLeave ==
  ASSUME IInv, KnownPids, KnownWaits, [Next]_vars, PidsNotReused,
         NEW p \in Pid, table[p] # NoPcb, table'[p] = NoPcb
  PROVE  /\ at[current] = "w_reap"
         /\ state[table[p]] = "Zombie"
         /\ ppid[table[p]] = pid[current]
<1>0. /\ table \in [Pid -> Pcb \cup {NoPcb}] /\ current \in Pcb /\ NoPcb \notin Pcb
      /\ wait[current].cand \subseteq Pid \X Pcb /\ ppid \in [Pcb -> Pid]
      /\ at \in [Pcb -> Label] /\ state[current] # "Free" /\ table[p] \in Pcb
      /\ at[Idle] = "idle" /\ wait[current].target \in Pid
  BY PcbAssumption DEF IInv, TypeOK, SchedTypeOK, StateFitsPoint
<1>1. Wait4Reap
  <2>1. ASSUME NEW child \in Pcb, Fork(child) PROVE FALSE
    <3>1. table'[p] \in {table[p], child}
      BY <2>1, ForkEffect
    <3> QED
      BY <1>0, <3>1
  <2>2. Wait4Reap \/ table' = table
    BY <2>1
       DEF vars, schedVars, Next, Syscall, Kill, Wait4, Exit, OtherSyscall, KernelStep,
           SyscallReturn, ExitZombie, ExitWake, ExitSwitch, Wait4Snapshot, Wait4Inspect,
           Wait4Mark, Wait4Recheck, Wait4Unmark, Wait4Cleanup, Wait4Switch, Wait4Resume,
           Tick, TickStep, TickSignals, TickTerminate, TickWake, TickReschedule, WakeTask,
           MarkCurrentBlocked, MarkCurrentRunning, SwitchOutCurrent, TimerTickSchedule, Dispatch
  <2> QED
    BY <2>2
<1>2. at[current] = "w_reap" /\ p = wait[current].target
  BY <1>0, <1>1 DEF Wait4Reap, Step, At
<1>3. KnownWait(current)
  BY <1>0 DEF KnownWaits
<1>4. PICK c \in wait[current].cand : /\ c[1] = p
                                      /\ state[c[2]] = "Zombie"
                                      /\ ppid[c[2]] = pid[current]
  BY <1>2, <1>3 DEF KnownWait, InWait4
<1>5. c[2] \in Pcb /\ pid[c[2]] = p
  BY <1>0, <1>3, <1>4 DEF KnownWait
<1>6. pid[current] > 0
  BY <1>0, <1>2 DEF KnownPids
<1>7. c[2] \notin {BootInit, Idle}
  BY SMT, <1>4, <1>6 DEF KnownPids
<1>8. p > 0 /\ pid[table[p]] = p /\ state[table[p]] # "Free"
  BY <1>4, <1>5, <1>7 DEF KnownPids
<1>9. table[p] \notin {BootInit, Idle}
  BY SMT, <1>4, <1>5, <1>7, <1>8 DEF KnownPids
<1>10. table[p] = c[2]
  BY <1>0, <1>4, <1>5, <1>7, <1>8, <1>9 DEF PidsNotReused
<1> QED
  BY <1>2, <1>4, <1>10

(* wait4 reaps only what it may: an entry leaves the process table only    *)
(* when its process is a Zombie child of the caller, as long as no pid has *)
(* been given out twice.                                                   *)
THEOREM WaitReapsZombieChildren == Spec => OnlyZombieChildrenReaped
<1> DEFINE Reaped ==
      PidsNotReused =>
        \A p \in Pid : (table[p] # NoPcb /\ table'[p] = NoPcb) =>
          /\ state[table[p]] = "Zombie"
          /\ ppid[table[p]] = pid[current]
<1>1. IInv /\ KnownPids /\ KnownWaits /\ [Next]_vars => Reaped
  BY EntriesLeave
<1> QED
  BY KnowledgeInvariance, <1>1, PTL DEF Spec, OnlyZombieChildrenReaped

-----------------------------------------------------------------------------
(* A zombie child of which the sleeper has yet to hear, or never will *)
Unheard(c) ==
  \/ at[c[2]] = "x_wake"
  \/ c[2] = current /\ irq = "wake"
  \/ table[c[1]] # c[2]

Sleeps(t) == state[t] = "Blocked" /\ at[t] \in {"w_switch", "w_resume"} /\ table[pid[t]] = t

SleeperSafe == \A t \in Pcb : Sleeps(t) => \A c \in ZombieChildren(wait[t]) : Unheard(c)

(* Only marking makes a process Blocked, and only an exit or the timer a   *)
(* Zombie, and each leaves its trace.                                      *)
LEMMA StateCauses ==
  ASSUME IInv, [Next]_vars, NEW t \in Pcb
  PROVE  /\ state'[t] = "Blocked" => state[t] = "Blocked" \/ at'[t] = "w_recheck"
         /\ state'[t] = "Zombie" => \/ state[t] = "Zombie"
                                    \/ at'[t] = "x_wake"
                                    \/ t = current' /\ irq' = "wake"
<1>0. SchedTypeOK /\ at \in [Pcb -> Label] /\ ppid[current] \in Pid
  BY DEF IInv, TypeOK, SchedTypeOK
<1>1. CASE SwitchOutCurrent \/ TimerTickSchedule
  BY <1>1, DispatchEffect
<1>2. CASE \E p \in Pid : WakeTask(p)
  BY <1>2, WakeEffect
<1>3. CASE Wait4Mark \/ ExitZombie
  BY <1>0, <1>3 DEF Wait4Mark, ExitZombie, MarkCurrentBlocked, Step, Goto, SchedTypeOK
<1>4. CASE MarkCurrentRunning \/ TickTerminate
  BY <1>0, <1>4 DEF MarkCurrentRunning, TickTerminate, SchedTypeOK
<1>5. CASE \E child \in Pcb : Fork(child)
  BY <1>5, ForkEffect
<1>6. CASE UNCHANGED state
  BY <1>6
<1> QED
  BY <1>0, <1>1, <1>2, <1>3, <1>4, <1>5, <1>6
     DEF vars, schedVars, Next, Syscall, Kill, Wait4, Exit, OtherSyscall, KernelStep,
         SyscallReturn, ExitWake, ExitSwitch, Wait4Snapshot, Wait4Inspect, Wait4Recheck,
         Wait4Unmark, Wait4Reap, Wait4Cleanup, Wait4Switch, Wait4Resume,
         Tick, TickStep, TickSignals, TickWake, TickReschedule

(* A process comes to where it sleeps only past its second look. *)
LEMMA SleeperCame ==
  ASSUME IInv, [Next]_vars, NEW t \in Pcb, at'[t] \in {"w_switch", "w_resume"}
  PROVE  /\ wait'[t] = wait[t]
         /\ \/ at[t] \in {"w_switch", "w_resume"}
            \/ ZombieChildren(wait[t]) = {} /\ UNCHANGED <<state, ppid>>
<1>0. at \in [Pcb -> Label] /\ current \in Pcb
  BY DEF IInv, TypeOK, SchedTypeOK
<1>1. CASE t # current
  BY <1>1, OthersWait
<1>2. CASE t = current /\ Syscall
  BY <1>0, <1>2 DEF Syscall, Fork, Kill, Wait4, Exit, OtherSyscall, Enter, Goto
<1>3. CASE t = current /\ (Wait4Recheck \/ Wait4Switch)
  BY <1>0, <1>3 DEF Wait4Recheck, Wait4Switch, Step, At, Goto, schedVars
<1>4. CASE t = current /\ KernelStep /\ ~Wait4Recheck /\ ~Wait4Switch /\ ~ExitSwitch
  BY <1>0, <1>4
     DEF KernelStep, SyscallReturn, ExitZombie, ExitWake, Wait4Snapshot, Wait4Inspect, Wait4Mark,
         Wait4Unmark, Wait4Reap, Wait4Cleanup, Wait4Resume, Step, Goto
<1>5. CASE ExitSwitch \/ Tick \/ TickStep \/ UNCHANGED vars
  BY <1>5 DEF ExitSwitch, Tick, TickStep, TickSignals, TickTerminate, TickWake,
              TickReschedule, vars
<1> QED
  BY <1>1, <1>2, <1>3, <1>4, <1>5 DEF Next

(* A child on its way to the wakeup is still on it, or its parent, if it   *)
(* was Blocked under its pid, is not any more.                             *)
LEMMA WakeReaches ==
  ASSUME IInv, [Next]_vars, NEW t \in Pcb, NEW u \in Pcb, pid[t] > 0, ppid[u] = pid[t],
         state[t] = "Blocked", table[pid[t]] = t,
         at[u] = "x_wake" \/ (u = current /\ irq = "wake")
  PROVE  \/ at'[u] = "x_wake"
         \/ u = current' /\ irq' = "wake"
         \/ state'[t] # "Blocked"
<1>0. /\ SchedTypeOK /\ at \in [Pcb -> Label] /\ current \in Pcb /\ t # NoPcb
      /\ pid[t] \in Pid
  BY PcbAssumption DEF IInv, TypeOK, SchedTypeOK
<1>1. WakeTask(pid[t]) => state'[t] # "Blocked"
  BY <1>0 DEF WakeTask, Wakeable, SchedTypeOK
<1>2. CASE irq = "wake" /\ u = current
  <2>1. TickWake \/ UNCHANGED vars
    BY <1>2 DEF Next, Syscall, Fork, Kill, Wait4, Exit, OtherSyscall, KernelStep, SyscallReturn,
         ExitZombie, ExitWake, ExitSwitch, Wait4Snapshot, Wait4Inspect, Wait4Mark, Wait4Recheck,
         Wait4Unmark, Wait4Reap, Wait4Cleanup, Wait4Switch, Wait4Resume, Enter, Step, At,
         Tick, TickStep, TickSignals, TickTerminate, TickReschedule
  <2> QED
    BY <1>1, <1>2, <2>1 DEF TickWake, vars, schedVars
<1>3. CASE at[u] = "x_wake" /\ u # current
  BY <1>3, OthersWait
<1>4. CASE at[u] = "x_wake" /\ u = current
  <2>1. ExitWake \/ Tick \/ TickStep \/ UNCHANGED vars
    BY <1>4 DEF Next, Syscall, Fork, Kill, Wait4, Exit, OtherSyscall, KernelStep, SyscallReturn,
         ExitZombie, ExitSwitch, Wait4Snapshot, Wait4Inspect, Wait4Mark, Wait4Recheck,
         Wait4Unmark, Wait4Reap, Wait4Cleanup, Wait4Switch, Wait4Resume, Enter, Step, At
  <2> QED
    BY <1>1, <1>4, <2>1
       DEF ExitWake, Tick, TickStep, TickSignals, TickTerminate, TickWake, TickReschedule, vars
<1> QED
  BY <1>2, <1>3, <1>4

LEMMA SleeperStep ==
  ASSUME IInv, KnownPids, KnownWaits, SleeperSafe, [Next]_vars
  PROVE  SleeperSafe'
<1> SUFFICES ASSUME NEW t \in Pcb, Sleeps(t)', NEW c \in ZombieChildren(wait[t])'
             PROVE  Unheard(c)'
  BY DEF SleeperSafe
<1>0. /\ IInv' /\ state'[t] = "Blocked" /\ at'[t] \in {"w_switch", "w_resume"}
      /\ table'[pid'[t]] = t /\ at[Idle] = "idle" /\ NoPcb \notin Pcb
  BY InvStep, PcbAssumption DEF Sleeps, IInv, StateFitsPoint
<1>1. /\ c \in wait'[t].cand /\ state'[c[2]] = "Zombie" /\ ppid'[c[2]] = wait'[t].calling
      /\ wait'[t] = wait[t]
  BY <1>0, SleeperCame DEF ZombieChildren, Children
<1>2. /\ c[1] \in Pid /\ c[2] \in Pcb /\ state[c[2]] # "Free" /\ KnownWait(t)
      /\ pid[t] \in Pid /\ ppid'[c[2]] = ppid[c[2]]
  <2>1. KnownWait(t) /\ wait[t].cand \subseteq Pid \X Pcb /\ pid[t] \in Pid
    BY DEF KnownWaits, IInv, TypeOK, SchedTypeOK
  <2>2. c[1] \in Pid /\ c[2] \in Pcb /\ state[c[2]] # "Free"
    BY SMT, <1>1, <2>1 DEF KnownWait
  <2> QED
    BY <2>1, <2>2, IdentityKept
<1>3. state[t] = "Blocked" /\ pid'[t] = pid[t]
  BY <1>0, StateCauses, IdentityKept
<1>4. table[pid[t]] = t
  BY SMT, <1>0, <1>2, <1>3, ForkEffect, OtherEffect
<1>5. at[t] \in {"w_switch", "w_resume"}
  <2>1. ASSUME ZombieChildren(wait[t]) = {}, UNCHANGED <<state, ppid>> PROVE FALSE
    BY <1>1, <2>1 DEF ZombieChildren, Children
  <2> QED
    BY <1>0, <2>1, SleeperCame
<1>6. pid[t] > 0 /\ ppid[c[2]] = pid[t]
  <2>1. ppid[c[2]] = pid[t]
    BY <1>1, <1>2, <1>5 DEF KnownWait, InWait4
  <2>2. state[t] # "Free" /\ t # Idle
    BY <1>3, <1>5, <1>0
  <2> QED
    BY <2>1, <2>2 DEF KnownPids
<1>7. CASE state[c[2]] = "Zombie"
  <2>1. c \in ZombieChildren(wait[t])
    BY <1>1, <1>2, <1>7 DEF ZombieChildren, Children
  <2>2. Unheard(c)
    BY <1>3, <1>4, <1>5, <2>1 DEF SleeperSafe, Sleeps
  <2>3. table[c[1]] # c[2] => table'[c[1]] # c[2]
    BY SMT, <1>0, <1>2, ForkEffect, OtherEffect
  <2> QED
    BY <1>0, <1>2, <1>3, <1>4, <1>6, <2>2, <2>3, WakeReaches DEF Unheard
<1>8. CASE state[c[2]] # "Zombie"
  BY <1>1, <1>2, <1>8, StateCauses DEF Unheard
<1> QED
  BY <1>7, <1>8

(* A sleeping parent does not sleep over a child it could reap, unless     *)
(* that child is on its way to wake_tasks or no longer in the table: the   *)
(* second look of sys_wait4, after it has marked itself Blocked, closes    *)
(* the gap that the first leaves.                                          *)
THEOREM WaitSleepsRightly == Spec => []SleeperHasNothingToReap
<1>1. Init => SleeperSafe
  BY DEF Init, SleeperSafe, Sleeps
<1>2. SleeperSafe => SleeperHasNothingToReap
  BY DEF SleeperSafe, SleeperHasNothingToReap, Sleeps, Unheard
<1>3. IInv /\ KnownPids /\ KnownWaits /\ SleeperSafe /\ [Next]_vars => SleeperSafe'
  BY SleeperStep
<1> QED
  BY KnowledgeInvariance, <1>1, <1>2, <1>3, PTL DEF Spec

-----------------------------------------------------------------------------
(* With the processor, every step is a step of Processes or none at all. *)
LEMMA StepIsProcessStep == [CtxNext]_<<vars, ctxVars>> => [Next]_vars
<1>1. SyscallEntry => Next
  BY Zenon DEF SyscallEntry, Next
<1>2. (EntryFault \/ Execve) => UNCHANGED vars
  BY Zenon DEF EntryFault, Execve, vars
<1>3. SyscallExit => Next
  BY Zenon DEF SyscallExit, Next, KernelStep
<1>4. SamePlace => Next
  BY Zenon DEF SamePlace, Next, KernelStep, TickStep
<1>5. (VoluntarySwitch \/ TimerSwitch) => Next
  BY Zenon DEF VoluntarySwitch, TimerSwitch, Next, KernelStep, TickStep
<1> QED
  BY <1>1, <1>2, <1>3, <1>4, <1>5, Zenon DEF CtxNext

(* The processes on the modelled processor behave as Processes says they   *)
(* do, as long as the machine runs: so what is proved of Processes holds   *)
(* of the composition.                                                     *)
THEOREM ContextImplementsProcesses == CtxSpec => Spec
<1>1. CtxInit => Init
  BY Zenon DEF CtxInit
<1> QED
  BY <1>1, StepIsProcessStep, PTL DEF CtxSpec, Spec

-----------------------------------------------------------------------------
(* The steps of Processes by what they do to the queue and the states *)
LEMMA StepKinds ==
  ASSUME IInv, [Next]_vars
  PROVE  \/ SwitchOutCurrent
         \/ TimerTickSchedule
         \/ \E p \in Pid : WakeTask(p)
         \/ \E child \in Pcb : Fork(child)
         \/ /\ UNCHANGED <<readyQueue, current>>
            /\ \A t \in Pcb : t # current => state'[t] = state[t]
            /\ \/ state'[current] \in {"Zombie", state[current]}
               \/ {state[current], state'[current]} \subseteq {"Running", "Blocked"}
<1>0. SchedTypeOK /\ current \in Pcb /\ ppid[current] \in Pid
  BY DEF IInv, TypeOK, SchedTypeOK
<1> DEFINE Own == /\ UNCHANGED <<readyQueue, current>>
                  /\ \A t \in Pcb : t # current => state'[t] = state[t]
                  /\ \/ state'[current] \in {"Zombie", state[current]}
                     \/ {state[current], state'[current]} \subseteq {"Running", "Blocked"}
<1>1. CASE UNCHANGED <<state, readyQueue, current>>
  BY <1>1
<1>2. CASE MarkCurrentBlocked \/ MarkCurrentRunning
  <2>1. Own
    BY <1>0, <1>2 DEF MarkCurrentBlocked, MarkCurrentRunning, SchedTypeOK
  <2> QED
    BY <2>1
<1>3. CASE ExitZombie \/ TickTerminate
  <2>1. Own
    BY <1>0, <1>3 DEF ExitZombie, TickTerminate, SchedTypeOK
  <2> QED
    BY <2>1
<1> HIDE DEF Own
<1> QED
  BY <1>0, <1>1, <1>2, <1>3, Zenon
     DEF vars, schedVars, Next, Syscall, Kill, Wait4, Exit, OtherSyscall, KernelStep,
         SyscallReturn, ExitWake, ExitSwitch, Wait4Snapshot, Wait4Inspect, Wait4Mark,
         Wait4Recheck, Wait4Unmark, Wait4Reap, Wait4Cleanup, Wait4Switch, Wait4Resume,
         Tick, TickStep, TickSignals, TickWake, TickReschedule

LEMMA AppendAdds ==
  ASSUME NEW q \in Seq(Pcb), NEW x \in Pcb, NEW y,
         \E i \in 1 .. Len(Append(q, x)) : Append(q, x)[i] = y
  PROVE  y = x \/ \E i \in 1 .. Len(q) : q[i] = y
<1>1. PICK i \in 1 .. Len(Append(q, x)) : Append(q, x)[i] = y
  OBVIOUS
<1>2. Len(q) \in Nat /\ Len(Append(q, x)) = Len(q) + 1
  BY AppendFacts
<1>3. CASE i \in 1 .. Len(q)
  BY SMT, <1>1, <1>3, AppendFacts
<1>4. CASE i = Len(q) + 1
  BY <1>1, <1>4, AppendFacts
<1> QED
  BY SMT, <1>2, <1>3, <1>4

LEMMA TailIsPart ==
  ASSUME NEW q \in Seq(Pcb), q # <<>>, NEW y,
         \E i \in 1 .. Len(Tail(q)) : Tail(q)[i] = y
  PROVE  \E i \in 1 .. Len(q) : q[i] = y
<1>1. /\ Len(q) \in Nat /\ Len(Tail(q)) = Len(q) - 1
      /\ \A i \in 1 .. Len(Tail(q)) : Tail(q)[i] = q[i + 1]
  BY SMT
<1>2. PICK i \in 1 .. Len(Tail(q)) : Tail(q)[i] = y
  BY Zenon
<1>3. i + 1 \in 1 .. Len(q)
  BY SMT, <1>1
<1> QED
  BY <1>1, <1>2, <1>3

(* Who is queued after a step and was not before *)
LEMMA QueueCauses ==
  ASSUME IInv, [Next]_vars, NEW t \in Pcb, Queued(t)'
  PROVE  \/ Queued(t)
         \/ state[t] \in {"Free", "Blocked"}
         \/ t = current /\ state[t] = "Running"
<1>0. readyQueue \in Seq(Pcb) /\ table \in [Pid -> Pcb \cup {NoPcb}] /\ current \in Pcb
  BY DEF IInv, TypeOK, SchedTypeOK
<1>1. CASE SwitchOutCurrent
  BY SMTT(30), <1>0, <1>1, TailIsPart DEF SwitchOutCurrent, Queued
<1>2. CASE TimerTickSchedule
  <2>1. CASE readyQueue = <<>>
    BY <1>2, <2>1 DEF TimerTickSchedule, schedVars, Queued
  <2>2. CASE readyQueue # <<>> /\ Requeues
    <3>1. readyQueue' = Append(Tail(readyQueue), current) /\ Tail(readyQueue) \in Seq(Pcb)
      BY SMT, <1>0, <1>2, <2>2 DEF TimerTickSchedule, AddTask
    <3>2. t = current \/ \E i \in 1 .. Len(Tail(readyQueue)) : Tail(readyQueue)[i] = t
      <4> DEFINE q == Tail(readyQueue)
      <4>1. \E i \in 1 .. Len(Append(q, current)) : Append(q, current)[i] = t
        BY <3>1, Zenon DEF Queued
      <4>2. q \in Seq(Pcb)
        BY <3>1
      <4> HIDE DEF q
      <4>3. t = current \/ \E i \in 1 .. Len(q) : q[i] = t
        BY <1>0, <4>1, <4>2, AppendAdds
      <4> QED
        BY <4>3 DEF q
    <3> QED
      BY <1>0, <2>2, <3>2, TailIsPart, Zenon DEF Queued, Requeues
  <2>3. CASE readyQueue # <<>> /\ ~Requeues
    <3>1. readyQueue' = Tail(readyQueue)
      BY <1>2, <2>3, Zenon DEF TimerTickSchedule
    <3>2. \E i \in 1 .. Len(Tail(readyQueue)) : Tail(readyQueue)[i] = t
      BY <3>1, Zenon DEF Queued
    <3> QED
      BY <1>0, <2>3, <3>2, TailIsPart, Zenon DEF Queued
  <2> QED
    BY <2>1, <2>2, <2>3
<1>3. ASSUME NEW p \in Pid, WakeTask(p) PROVE Queued(t) \/ state[t] \in {"Free", "Blocked"}
  <2>1. CASE Wakeable(p)
    <3>1. table[p] \in Pcb /\ state[table[p]] = "Blocked"
      BY <1>0, <2>1, Zenon DEF Wakeable
    <3>2. readyQueue' = Append(readyQueue, table[p])
      BY <1>3, <2>1, Zenon DEF WakeTask, AddTask
    <3> QED
      BY SMT, <1>0, <3>1, <3>2, AppendAdds DEF Queued
  <2>2. CASE ~Wakeable(p)
    BY <1>3, <2>2, Zenon DEF WakeTask, Queued
  <2> QED
    BY <2>1, <2>2
<1>4. ASSUME NEW child \in Pcb, Fork(child) PROVE Queued(t) \/ state[t] \in {"Free", "Blocked"}
  <2>1. state[child] = "Free" /\ readyQueue' = Append(readyQueue, child)
    BY <1>4, ForkEffect, Zenon DEF Fork, AddTask
  <2> QED
    BY SMT, <1>0, <2>1, AppendAdds DEF Queued
<1>5. CASE UNCHANGED readyQueue
  BY <1>5, Zenon DEF Queued
<1> QED
  BY <1>1, <1>2, <1>3, <1>4, <1>5, StepKinds, Zenon
-----------------------------------------------------------------------------
(* Init is never queued: it is Ready when it gets the CPU, which the timer *)
(* does not requeue, and never Running, so it never blocks either.         *)
BootInv == ~Queued(BootInit) /\ state[BootInit] \in {"Ready", "Zombie"}

LEMMA BootStep ==
  ASSUME IInv, IdleInv, BootInv, [Next]_vars
  PROVE  /\ BootInv'
         /\ current' # current => current' # BootInit
         /\ TimerTickSchedule => current' = current \/ current' # Idle
<1>0. /\ readyQueue \in Seq(Pcb) /\ current \in Pcb /\ BootInit \in Pcb /\ Idle # BootInit
      /\ state \in [Pcb -> ProcessState \cup {"Free"}]
  BY PcbAssumption DEF IInv, TypeOK, SchedTypeOK
<1>1. ~Queued(BootInit)'
  BY <1>0, QueueCauses DEF BootInv
<1>2. readyQueue # <<>> => Queued(Head(readyQueue)) /\ Head(readyQueue) \in Pcb
  <2>1. readyQueue # <<>> => 1 \in 1 .. Len(readyQueue) /\ Head(readyQueue) = readyQueue[1]
    BY SMT, <1>0
  <2> QED
    BY SMT, <1>0, <2>1 DEF Queued
<1>3. readyQueue # <<>> => Head(readyQueue) # BootInit /\ Head(readyQueue) # Idle
  BY <1>2, Zenon DEF BootInv, IdleInv
<1>4. current' = current \/ current' = Idle \/ (readyQueue # <<>> /\ current' = Head(readyQueue))
  BY StepKinds, Zenon DEF SwitchOutCurrent, TimerTickSchedule, Dispatch, WakeTask, Fork, schedVars
<1>5. TimerTickSchedule => current' = current \/ (readyQueue # <<>> /\ current' = Head(readyQueue))
  BY Zenon DEF TimerTickSchedule, Dispatch, schedVars
<1>6. state'[BootInit] \in {"Ready", "Zombie"}
  <2>1. CASE SwitchOutCurrent
    BY <1>0, <1>2, <1>3, <2>1 DEF SwitchOutCurrent, Dispatch, BootInv
  <2>2. CASE TimerTickSchedule
    <3>1. CASE readyQueue = <<>>
      BY <2>2, <3>1, Zenon DEF TimerTickSchedule, schedVars, BootInv
    <3>2. CASE readyQueue # <<>>
      <4> DEFINE states == [state EXCEPT ![current] = IF Requeues THEN "Ready" ELSE @]
      <4>1. states[BootInit] \in {"Ready", "Zombie"} /\ BootInit \in DOMAIN states
        BY <1>0 DEF BootInv
      <4>2. state' = [states EXCEPT ![Head(readyQueue)] = "Running"]
        BY <2>2, <3>2, Zenon DEF TimerTickSchedule, Dispatch
      <4> HIDE DEF states
      <4> QED
        BY <1>3, <3>2, <4>1, <4>2
    <3> QED
      BY <3>1, <3>2
  <2>3. CASE \E p \in Pid : WakeTask(p)
    BY <1>0, <2>3, WakeEffect DEF BootInv
  <2>4. CASE \E child \in Pcb : Fork(child)
    BY <1>0, <2>4, ForkEffect DEF BootInv
  <2> QED
    BY <1>0, <2>1, <2>2, <2>3, <2>4, StepKinds DEF BootInv
<1> QED
  BY <1>0, <1>1, <1>3, <1>4, <1>5, <1>6, Zenon DEF BootInv

(* What is used of Processes *)
ProcInv == IInv /\ KnownWaits /\ IdleInv /\ BootInv

LEMMA ProcInvariance == CtxSpec => []ProcInv
<1>1. Init => IdleInv /\ BootInv
  BY SMT, PcbAssumption DEF Init, IdleInv, BootInv, Queued
<1>2. IInv /\ IdleInv /\ [Next]_vars => IdleInv'
  BY IdleStep
<1>3. IInv /\ IdleInv /\ BootInv /\ [Next]_vars => BootInv'
  BY BootStep
<1>4. Spec => []ProcInv
  BY KnowledgeInvariance, <1>1, <1>2, <1>3, PTL DEF Spec, ProcInv
<1> QED
  BY ContextImplementsProcesses, <1>4, PTL
-----------------------------------------------------------------------------
LEMMA ContextTyped ==
  ASSUME ProcInv, ContextTypeOK, [CtxNext]_<<vars, ctxVars>>
  PROVE  ContextTypeOK'
<1>0. current \in Pcb /\ current' \in Pcb
  <2>1. IInv'
    BY StepIsProcessStep, InvStep DEF ProcInv
  <2> QED
    BY <2>1 DEF ProcInv, IInv, TypeOK, SchedTypeOK
<1>1. CASE SyscallEntry
  BY <1>1 DEF SyscallEntry, Swapgs, ForkFrame, ContextTypeOK
<1>2. CASE EntryFault
  BY <1>2 DEF EntryFault, Swapgs, ContextTypeOK
<1>3. CASE Execve
  BY <1>0, <1>3 DEF Execve, ContextTypeOK
<1>4. CASE SyscallExit
  BY <1>4 DEF SyscallExit, Swapgs, ContextTypeOK
<1>5. CASE VoluntarySwitch
  BY <1>0, <1>5 DEF VoluntarySwitch, Leaves, Activate, ContextTypeOK
<1>6. CASE TimerSwitch
  BY <1>0, <1>6 DEF TimerSwitch, Leaves, Activate, ContextTypeOK
<1>7. CASE UNCHANGED ctxVars
  BY <1>7 DEF ctxVars, ContextTypeOK
<1> QED
  BY <1>1, <1>2, <1>3, <1>4, <1>5, <1>6, <1>7, Zenon DEF CtxNext, SamePlace

(* The processor's registers and the saved frames have their types, so the *)
(* frame that a switch resumes is one of those the stubs can leave.        *)
THEOREM ContextTypes == CtxSpec => []ContextTypeOK
<1>1. CtxInit => ContextTypeOK
  BY PcbAssumption DEF CtxInit, BootFrames, BootStack, ContextTypeOK
<1>2. ProcInv /\ ContextTypeOK /\ [CtxNext]_<<vars, ctxVars>> => ContextTypeOK'
  BY ContextTyped
<1> QED
  BY ProcInvariance, <1>1, <1>2, PTL DEF CtxSpec

-----------------------------------------------------------------------------
(* Steps that do not switch *)
InPlace ==
  \/ SyscallEntry \/ EntryFault \/ Execve \/ SyscallExit \/ SamePlace
  \/ UNCHANGED <<vars, ctxVars>>

LEMMA InPlaceFacts == InPlace => UNCHANGED <<current, entryStack, cr3>>
<1>1. InPlace => UNCHANGED <<entryStack, cr3>>
  BY Zenon DEF InPlace, SyscallEntry, EntryFault, Execve, SyscallExit, SamePlace, ctxVars
<1>2. InPlace => UNCHANGED current
  BY Zenon DEF InPlace, SyscallEntry, EntryFault, Execve, SyscallExit, SamePlace, vars,
       schedVars, Syscall, Fork, Kill, Wait4, Exit, OtherSyscall, SyscallReturn, ExitZombie,
       ExitWake, Wait4Snapshot, Wait4Inspect, Wait4Mark, Wait4Recheck, Wait4Unmark,
       Wait4Reap, Wait4Cleanup, Wait4Resume, TickSignals, TickTerminate, TickWake,
       WakeTask, MarkCurrentBlocked, MarkCurrentRunning
<1> QED
  BY <1>1, <1>2

(* Both switches activate someone else than init, and the timer only if it *)
(* found somebody else.                                                    *)
LEMMA StackStep ==
  ASSUME ProcInv, EntersOwnStack, [CtxNext]_<<vars, ctxVars>>
  PROVE  EntersOwnStack'
<1>0. [Next]_vars /\ (current' # current => current' # BootInit)
  BY StepIsProcessStep, BootStep DEF ProcInv
<1>1. CASE current' = current /\ entryStack' = entryStack
  BY <1>1, Zenon DEF EntersOwnStack, BootStack
<1>2. CASE VoluntarySwitch
  <2>1. current \in Pcb /\ current # Idle /\ current # current'
    <3>1. at[current] # "idle"
      BY <1>2 DEF VoluntarySwitch, ExitSwitch, Wait4Switch, At
    <3>2. current \in Pcb /\ current # Idle
      BY <3>1 DEF ProcInv, IInv, TypeOK, SchedTypeOK, StateFitsPoint
    <3>3. CASE readyQueue = <<>>
      BY <1>2, <3>2, <3>3 DEF VoluntarySwitch, ExitSwitch, Wait4Switch, SwitchOutCurrent, Dispatch
    <3>4. CASE readyQueue # <<>>
      <4>1. Head(readyQueue) # current
        BY SMT, <3>4 DEF ProcInv, IInv, TypeOK, SchedTypeOK, QueueSound
      <4> QED
        BY <1>2, <3>2, <3>4, <4>1
           DEF VoluntarySwitch, ExitSwitch, Wait4Switch, SwitchOutCurrent, Dispatch
    <3> QED
      BY <3>3, <3>4
  <2> QED
    BY <1>0, <1>2, <2>1, Zenon DEF VoluntarySwitch, Activate, EntersOwnStack
<1>3. CASE TimerSwitch
  BY <1>0, <1>1, <1>3, Zenon DEF TimerSwitch, Activate, EntersOwnStack
<1>4. CASE InPlace
  BY <1>1, <1>4, InPlaceFacts, Zenon
<1> QED
  BY <1>1, <1>2, <1>3, <1>4, Zenon DEF CtxNext, InPlace

(* Every entry from user mode is on the stack of the process on the CPU:   *)
(* both switching paths call set_kernel_stack for the incoming process,    *)
(* and the one process that enters elsewhere never comes back.             *)
THEOREM EntryIsOnOwnStack == CtxSpec => []EntersOwnStack
<1>1. CtxInit => EntersOwnStack
  BY DEF CtxInit, Init, EntersOwnStack
<1>2. ProcInv /\ EntersOwnStack /\ [CtxNext]_<<vars, ctxVars>> => EntersOwnStack'
  BY StackStep
<1> QED
  BY ProcInvariance, <1>1, <1>2, PTL DEF CtxSpec
-----------------------------------------------------------------------------
(* Where the process on the CPU goes in each step *)
LEMMA PointStep ==
  ASSUME IInv
  PROVE  /\ SyscallEntry => at[current] = "user" /\ at'[current] \notin {"user", "idle"}
         /\ SyscallExit => /\ at[current] \notin {"user", "idle"}
                           /\ at'[current] # "idle"
         /\ SamePlace => at'[current] = at[current] \/
                           {at[current], at'[current]} \cap {"user", "idle"} = {}
         /\ VoluntarySwitch => /\ at[current] \notin {"user", "idle"}
                               /\ at'[current] \in {"w_resume", "x_loop"}
         /\ TimerSwitch => at' = at
         /\ EntryFault => at[current] = "user"
<1>0. at \in [Pcb -> Label] /\ current \in Pcb
  BY Zenon DEF IInv, TypeOK, SchedTypeOK
<1>1. SyscallEntry => at[current] = "user" /\ at'[current] \notin {"user", "idle"}
  BY <1>0, Zenon DEF SyscallEntry, Syscall, Fork, Kill, Wait4, Exit, OtherSyscall, Enter, At, Goto
<1>2. SyscallExit => at[current] \notin {"user", "idle"} /\ at'[current] # "idle"
  BY <1>0 DEF SyscallExit, SyscallReturn, At, Goto
<1>3. SamePlace => at'[current] = at[current] \/
                   {at[current], at'[current]} \cap {"user", "idle"} = {}
  <2>1. CASE ExitZombie \/ ExitWake
    BY <1>0, <2>1 DEF ExitZombie, ExitWake, Step, At, Goto
  <2>2. CASE Wait4Snapshot \/ Wait4Inspect \/ Wait4Mark \/ Wait4Recheck
    BY <1>0, <2>2 DEF Wait4Snapshot, Wait4Inspect, Wait4Mark, Wait4Recheck, Step, At, Goto
  <2>3. CASE Wait4Unmark \/ Wait4Reap \/ Wait4Cleanup \/ Wait4Resume
    BY <1>0, <2>3 DEF Wait4Unmark, Wait4Reap, Wait4Cleanup, Wait4Resume, Step, At, Goto
  <2>4. CASE TickSignals \/ TickTerminate \/ TickWake
    BY <2>4, Zenon DEF TickSignals, TickTerminate, TickWake
  <2> QED
    BY <2>1, <2>2, <2>3, <2>4, Zenon DEF SamePlace
<1>4. VoluntarySwitch => /\ at[current] \notin {"user", "idle"}
                         /\ at'[current] \in {"w_resume", "x_loop"}
  BY <1>0 DEF VoluntarySwitch, ExitSwitch, Wait4Switch, At, Goto
<1>5. TimerSwitch => at' = at
  BY Zenon DEF TimerSwitch, Tick, TickReschedule
<1>6. EntryFault => at[current] = "user"
  BY Zenon DEF EntryFault, At
<1> QED
  BY <1>1, <1>2, <1>3, <1>4, <1>5, <1>6, Zenon

LEMMA InsideStep ==
  ASSUME ProcInv, ContextTypeOK, OneInside, [CtxNext]_<<vars, ctxVars>>
  PROVE  OneInside'
<1>0. current \in Pcb /\ IInv
  BY DEF ProcInv, IInv, TypeOK, SchedTypeOK
<1>1. \A t \in Pcb : t # current => at'[t] = at[t]
  BY StepIsProcessStep, OthersWait DEF ProcInv
<1>2. CASE InsideSyscall' = InsideSyscall /\ UNCHANGED <<gs, halted>>
           /\ (halted = "no" \/ current' = current)
  BY <1>2, Zenon DEF OneInside
<1>3. CASE SyscallEntry
  <2>1. /\ halted = "no" /\ gs = "user" /\ gs' = "percpu" /\ halted' = "no"
        /\ at'[current] \notin {"user", "idle"}
    BY <1>0, <1>3, PointStep DEF SyscallEntry, Swapgs
  <2>2. \A t \in Pcb : t # current => t \notin InsideSyscall'
    BY <1>1, <2>1 DEF OneInside, InsideSyscall
  <2>3. InsideSyscall' = {current}
    BY <1>0, <2>1, <2>2 DEF InsideSyscall
  <2> QED
    BY <2>1, <2>3 DEF OneInside
<1>4. CASE EntryFault
  <2>1. /\ halted = "no" /\ gs = "percpu" /\ halted' = "entry" /\ UNCHANGED <<at, current>>
        /\ at[current] = "user"
    BY <1>4, Zenon DEF EntryFault, At, vars, schedVars
  <2> QED
    BY <2>1 DEF OneInside, InsideSyscall
<1>5. CASE Execve
  <2>1. /\ halted = "no" /\ UNCHANGED <<at, current>>
        /\ halted' = "exec" \/ UNCHANGED <<halted, gs>>
    BY <1>5, Zenon DEF Execve, vars, schedVars
  <2> QED
    BY <2>1 DEF OneInside, InsideSyscall
<1>6. CASE SyscallExit
  <2>1. /\ halted = "no" /\ halted' = "no" /\ current \in InsideSyscall
        /\ at'[current] # "idle"
    BY <1>0, <1>6, PointStep DEF SyscallExit, InsideSyscall
  <2>2. InsideSyscall = {current} /\ gs = "percpu"
    BY <2>1 DEF OneInside
  <2>3. CASE at'[current] = "user"
    <3>1. InsideSyscall' = {}
      BY <1>1, <2>2, <2>3 DEF InsideSyscall
    <3>2. gs' = "user"
      BY <1>6, <2>2, <2>3 DEF SyscallExit, Swapgs
    <3> QED
      BY <2>1, <3>1, <3>2 DEF OneInside
  <2>4. CASE at'[current] # "user"
    <3>1. InsideSyscall' = {current}
      BY <1>0, <1>1, <2>1, <2>2, <2>4 DEF InsideSyscall
    <3>2. gs' = "percpu"
      BY <1>6, <2>2, <2>4 DEF SyscallExit
    <3> QED
      BY <2>1, <3>1, <3>2 DEF OneInside
  <2> QED
    BY <2>3, <2>4
<1>7. CASE SamePlace \/ VoluntarySwitch \/ TimerSwitch
  <2>1. halted = "no" /\ UNCHANGED <<gs, halted>>
    BY <1>7, Zenon DEF SamePlace, VoluntarySwitch, TimerSwitch, ctxVars
  <2>2. at[current] \in {"user", "idle"} <=> at'[current] \in {"user", "idle"}
    BY <1>0, <1>7, PointStep, Zenon
  <2>3. InsideSyscall' = InsideSyscall
    BY <1>1, <2>2 DEF InsideSyscall
  <2> QED
    BY <1>2, <2>1, <2>3
<1>8. CASE UNCHANGED <<vars, ctxVars>>
  BY <1>2, <1>8, Zenon DEF vars, schedVars, ctxVars, InsideSyscall
<1> QED
  BY <1>3, <1>4, <1>5, <1>6, <1>7, <1>8, Zenon DEF CtxNext

(* The GS base follows the one process inside a system call, and an entry  *)
(* fails exactly when another process is asleep or dead in one.            *)
THEOREM OneProcessInside == CtxSpec => []OneInside
<1>1. CtxInit => OneInside
  <2>1. CtxInit => InsideSyscall = {}
    BY Zenon DEF CtxInit, Init, InsideSyscall
  <2> QED
    BY <2>1 DEF CtxInit, OneInside
<1>2. ProcInv /\ ContextTypeOK /\ OneInside /\ [CtxNext]_<<vars, ctxVars>> => OneInside'
  BY InsideStep
<1> QED
  BY ProcInvariance, ContextTypes, <1>1, <1>2, PTL DEF CtxSpec
-----------------------------------------------------------------------------
(* A step leaves the state of whoever it does not concern, except that it  *)
(* may wake a sleeper or create a process.                                 *)
LEMMA OthersState ==
  ASSUME IInv, [Next]_vars, NEW t \in Pcb, t # current, t # current'
  PROVE  \/ state'[t] = state[t]
         \/ state[t] = "Blocked" /\ state'[t] = "Ready"
         \/ state[t] = "Free" /\ \E child \in Pcb : Fork(child)
<1>0. state \in [Pcb -> ProcessState \cup {"Free"}]
  BY DEF IInv, TypeOK, SchedTypeOK
<1>1. CASE SwitchOutCurrent
  BY <1>0, <1>1 DEF SwitchOutCurrent, Dispatch
<1>2. CASE TimerTickSchedule
  <2>1. CASE readyQueue = <<>>
    BY <1>2, <2>1, Zenon DEF TimerTickSchedule, schedVars
  <2>2. CASE readyQueue # <<>>
    <3> DEFINE states == [state EXCEPT ![current] = IF Requeues THEN "Ready" ELSE @]
    <3>1. states[t] = state[t] /\ t \in DOMAIN states
      BY <1>0
    <3>2. state' = [states EXCEPT ![current'] = "Running"]
      BY <1>2, <2>2, Zenon DEF TimerTickSchedule, Dispatch
    <3> HIDE DEF states
    <3> QED
      BY <3>1, <3>2
  <2> QED
    BY <2>1, <2>2
<1>3. CASE \E p \in Pid : WakeTask(p)
  BY <1>3, WakeEffect
<1>4. ASSUME NEW child \in Pcb, Fork(child)
      PROVE  state'[t] = state[t] \/ state[t] = "Free"
  BY <1>4, ForkEffect
<1> QED
  BY <1>1, <1>2, <1>3, <1>4, StepKinds, Zenon

(* fork happens on the way into the kernel only. *)
LEMMA ForkEnters ==
  ASSUME IInv, [CtxNext]_<<vars, ctxVars>>, NEW child \in Pcb, Fork(child)
  PROVE  SyscallEntry
<1>0. at \in [Pcb -> Label] /\ current \in Pcb
  BY DEF IInv, TypeOK, SchedTypeOK
<1>1. /\ at[current] = "user" /\ at'[current] = "ret" /\ irq = "none" /\ state' # state
  <2>1. at[current] = "user" /\ at'[current] = "ret" /\ irq = "none"
    BY <1>0 DEF Fork, Enter, At, Goto
  <2>2. state' # state
    BY ForkEffect
  <2> QED
    BY <2>1, <2>2
<1>2. ~SyscallExit /\ ~SamePlace /\ ~VoluntarySwitch /\ ~TimerSwitch
  BY <1>1, PointStep
<1>3. ~EntryFault /\ ~Execve /\ ~UNCHANGED <<vars, ctxVars>>
  BY <1>1, Zenon DEF EntryFault, Execve, vars, schedVars
<1> QED
  BY <1>2, <1>3, Zenon DEF CtxNext

LEMMA FrameStep ==
  ASSUME ProcInv, ContextTypeOK, FrameFitsPoint, [CtxNext]_<<vars, ctxVars>>
  PROVE  FrameFitsPoint'
<1> SUFFICES ASSUME NEW t \in Pcb, t # current', state'[t] \in {"Ready", "Blocked"}
             PROVE  frame'[t] = IF at'[t] = "user" THEN "user" ELSE "kernel"
  BY DEF FrameFitsPoint
<1>0. /\ IInv /\ [Next]_vars /\ current \in Pcb
      /\ frame \in [Pcb -> {"none", "user", "kernel"}]
  BY StepIsProcessStep DEF ProcInv, IInv, TypeOK, SchedTypeOK, ContextTypeOK
<1>1. CASE t = current
  <2>1. VoluntarySwitch \/ (TimerSwitch /\ current' # current)
    BY <1>1, InPlaceFacts, Zenon DEF CtxNext, InPlace
  <2>2. CASE VoluntarySwitch
    <3>1. at'[t] # "user"
      BY <1>0, <1>1, <2>2, PointStep
    <3>2. frame'[t] = "kernel"
      BY <1>0, <1>1, <2>2 DEF VoluntarySwitch, Leaves
    <3> QED
      BY <3>1, <3>2
  <2>3. CASE TimerSwitch /\ current' # current
    <3>1. at' = at
      BY <1>0, <2>3, PointStep
    <3>2. frame' = [frame EXCEPT ![current] = IF at[current] = "user" THEN "user" ELSE "kernel"]
      BY <2>3, Zenon DEF TimerSwitch, Leaves
    <3> QED
      BY <1>0, <1>1, <3>1, <3>2
  <2> QED
    BY <2>1, <2>2, <2>3
<1>2. CASE t # current
  <2>1. at'[t] = at[t]
    BY <1>0, <1>2, OthersWait
  <2>2. CASE state[t] # "Free"
    <3>1. state[t] \in {"Ready", "Blocked"}
      BY <1>0, <1>2, <2>2, OthersState
    <3>2. frame'[t] = frame[t]
      <4>1. CASE SyscallEntry
        BY <2>2, <4>1 DEF SyscallEntry, ForkFrame
      <4>2. CASE Execve
        BY <1>0, <1>2, <4>2 DEF Execve
      <4>3. CASE VoluntarySwitch
        BY <1>0, <1>2, <4>3 DEF VoluntarySwitch, Leaves
      <4>4. CASE TimerSwitch
        BY <1>0, <1>2, <4>4 DEF TimerSwitch, Leaves
      <4>5. CASE UNCHANGED frame
        BY <4>5
      <4> QED
        BY <4>1, <4>2, <4>3, <4>4, <4>5, Zenon
           DEF CtxNext, EntryFault, SyscallExit, SamePlace, ctxVars
    <3> QED
      BY <1>2, <2>1, <3>1, <3>2 DEF FrameFitsPoint
  <2>3. CASE state[t] = "Free"
    <3>1. at[t] = "user"
      BY <2>3, Zenon DEF ProcInv, KnownWaits, KnownWait
    <3>2. \E child \in Pcb : Fork(child)
      BY <1>0, <1>2, <2>3, OthersState
    <3>3. SyscallEntry /\ state'[t] = "Ready"
      <4>1. SyscallEntry
        BY <1>0, <3>2, ForkEnters
      <4>2. state'[t] = "Ready"
        BY <1>0, <2>3, <3>2, ForkEffect
      <4> QED
        BY <4>1, <4>2
    <3> QED
      BY <2>1, <2>3, <3>1, <3>3 DEF SyscallEntry, ForkFrame
  <2> QED
    BY <2>2, <2>3
<1> QED
  BY <1>1, <1>2

(* Whoever can be switched to has a frame of the mode in which it stopped: *)
(* each of the four places that write saved_kernel_rsp agrees with where   *)
(* its process goes on.                                                    *)
THEOREM FramesFitPoints == CtxSpec => []FrameFitsPoint
<1>1. CtxInit => FrameFitsPoint
  BY PcbAssumption DEF CtxInit, Init, BootFrames, FrameFitsPoint
<1>2. ProcInv /\ ContextTypeOK /\ FrameFitsPoint /\ [CtxNext]_<<vars, ctxVars>>
        => FrameFitsPoint'
  BY FrameStep
<1> QED
  BY ProcInvariance, ContextTypes, <1>1, <1>2, PTL DEF CtxSpec

-----------------------------------------------------------------------------
(* CR3 is the current process's, or idle runs on that of a process which   *)
(* is inside its own switch_out_current.                                   *)
SpaceKnown == cr3 = current \/ (current = Idle /\ at[cr3] \in {"w_resume", "x_loop"})

LEMMA SpaceStep ==
  ASSUME ProcInv, ContextTypeOK, SpaceKnown, [CtxNext]_<<vars, ctxVars>>
  PROVE  SpaceKnown'
<1>0. /\ IInv /\ IdleInv /\ [Next]_vars /\ current \in Pcb /\ cr3 \in Pcb /\ at[Idle] = "idle"
  BY StepIsProcessStep DEF ProcInv, IInv, TypeOK, SchedTypeOK, ContextTypeOK, StateFitsPoint
<1>1. current = Idle => current' = Idle
  BY <1>0, IdleStep
<1>2. cr3 # current => current = Idle /\ at'[cr3] \in {"w_resume", "x_loop"}
  BY <1>0, OthersWait DEF SpaceKnown
<1>3. CASE InPlace
  BY <1>2, <1>3, InPlaceFacts, Zenon DEF SpaceKnown
<1>4. CASE VoluntarySwitch
  <2>1. current # Idle /\ at'[current] \in {"w_resume", "x_loop"}
    BY <1>0, <1>4, PointStep
  <2>2. cr3' = IF current' = Idle THEN cr3 ELSE current'
    BY <1>4, Zenon DEF VoluntarySwitch, Activate
  <2> QED
    BY <1>2, <2>1, <2>2 DEF SpaceKnown
<1>5. CASE TimerSwitch
  <2>1. CASE current' = current
    BY <1>2, <1>5, <2>1, Zenon DEF TimerSwitch, SpaceKnown
  <2>2. CASE current' # current
    <3>1. TimerTickSchedule
      BY <1>5, Zenon DEF TimerSwitch, Tick, TickReschedule
    <3>2. current' # Idle
      BY <1>0, <2>2, <3>1, BootStep DEF ProcInv
    <3> QED
      BY <1>5, <2>2, <3>2, Zenon DEF TimerSwitch, Activate, SpaceKnown
  <2> QED
    BY <2>1, <2>2
<1> QED
  BY <1>3, <1>4, <1>5, Zenon DEF CtxNext, InPlace

(* The active page tables are of a process that is still referenced, by    *)
(* CURRENT_PROCESS or by the local of its own switch_out_current.          *)
THEOREM ActiveSpaceStays == CtxSpec => []ActiveSpaceAlive
<1>1. CtxInit => SpaceKnown
  BY DEF CtxInit, Init, SpaceKnown
<1>2. ProcInv /\ ContextTypeOK /\ SpaceKnown /\ [CtxNext]_<<vars, ctxVars>> => SpaceKnown'
  BY SpaceStep
<1>3. SpaceKnown => ActiveSpaceAlive
  BY Zenon DEF SpaceKnown, ActiveSpaceAlive, Held
<1> QED
  BY ProcInvariance, ContextTypes, <1>1, <1>2, <1>3, PTL DEF CtxSpec

-----------------------------------------------------------------------------
(* The stack of an outgoing process.  What keeps a Zombie's is its entry   *)
(* in the process table, which only wait4 removes; but the Zombie might be *)
(* its own parent (the first fork gives its child init's pid, and it has   *)
(* init for parent), and the timer goes on with a process it terminated    *)
(* if nobody else is ready.  So it must be shown that no Zombie gets to    *)
(* wait4.  Outside says why.  While no process is inside a system call, a  *)
(* signal sent leaves its sender, who is not to die from one; so when the  *)
(* timer terminates someone, the queue holds another process.  Init is no  *)
(* such sender, for it is not requeued, but it shares its pid, and with    *)
(* that its pending signals, with its first child.                         *)

Spared(t) == state[t] \in {"Ready", "Running"} /\ "fatal" \notin pending[pid[t]]

Nobody == \A t \in Pcb \ {BootInit, Idle} : state[t] = "Free"

FirstChild ==
  /\ pid[BootInit] = 1
  /\ current = BootInit =>
       \/ nextPid = 1 /\ Nobody
       \/ \E c \in Pcb \ {BootInit, Idle} : pid[c] = 1 /\ state[c] = "Ready"

DeadPoints == \A t \in Pcb : state[t] = "Zombie" => at[t] \in {"x_wake", "x_loop", "user"}

Somebody ==
  \/ \E t \in Pcb \ {BootInit, Idle} : Spared(t) /\ (irq = "terminate" => t # current)
  \/ current = BootInit /\ irq \in {"none", "signals"} /\ Spared(BootInit) /\ Nobody

Outside ==
  InsideSyscall = {} =>
    /\ irq \in {"none", "signals", "terminate"} => state[current] # "Zombie"
    /\ Somebody

(* The table holds every process that lives, and a dead one at least until *)
(* it has left the CPU.                                                    *)
Tabled ==
  PidsNotReused =>
    \A t \in Pcb \ {BootInit, Idle} :
      (t = current \/ state[t] \in {"Ready", "Running", "Blocked"}) => table[pid[t]] = t

-----------------------------------------------------------------------------
LEMMA HeadFacts ==
  ASSUME IInv, IdleInv, BootInv, readyQueue # <<>>
  PROVE  Head(readyQueue) \in Pcb \ {BootInit, Idle} /\ state[Head(readyQueue)] = "Ready"
<1>1. readyQueue \in Seq(Pcb)
  BY DEF IInv, TypeOK, SchedTypeOK
<1>2. 1 \in 1 .. Len(readyQueue) /\ Head(readyQueue) = readyQueue[1] /\ readyQueue[1] \in Pcb
  BY SMT, <1>1
<1>3. Queued(Head(readyQueue))
  BY <1>2, Zenon DEF Queued
<1>4. state[Head(readyQueue)] = "Ready"
  BY <1>2 DEF IInv, QueueSound
<1> QED
  BY <1>2, <1>3, <1>4, Zenon DEF BootInv, IdleInv

LEMMA FirstChildStep ==
  ASSUME IInv, IdleInv, BootInv, FirstChild, [Next]_vars
  PROVE  FirstChild'
<1>0. /\ BootInit \in Pcb /\ state[BootInit] # "Free" /\ state[Idle] # "Free"
      /\ BootInit # Idle
  BY PcbAssumption DEF BootInv, IInv, StateFitsPoint
<1>1. pid'[BootInit] = 1
  BY <1>0, IdentityKept DEF FirstChild
<1> SUFFICES ASSUME current' = BootInit
             PROVE  \/ nextPid' = 1 /\ Nobody'
                    \/ \E c \in Pcb \ {BootInit, Idle} : pid'[c] = 1 /\ state'[c] = "Ready"
  BY <1>1 DEF FirstChild
<1>2. current = BootInit
  BY BootStep
<1>3. CASE \E c \in Pcb \ {BootInit, Idle} : pid[c] = 1 /\ state[c] = "Ready"
  <2>1. PICK c \in Pcb \ {BootInit, Idle} : pid[c] = 1 /\ state[c] = "Ready"
    BY <1>3
  <2>2. pid'[c] = 1
    BY <2>1, IdentityKept
  <2>3. state'[c] = "Ready"
    BY <1>2, <2>1, OthersState
  <2> QED
    BY <2>1, <2>2, <2>3
<1>4. CASE nextPid = 1 /\ Nobody
  <2>1. ASSUME NEW child \in Pcb, Fork(child)
        PROVE  \E c \in Pcb \ {BootInit, Idle} : pid'[c] = 1 /\ state'[c] = "Ready"
    <3>1. AllocPid = 1
      BY SMT, <1>4 DEF AllocPid
    <3> QED
      BY <1>0, <2>1, <3>1, ForkEffect
  <2>2. CASE ~\E child \in Pcb : Fork(child)
    <3>1. Nobody'
      BY <1>4, <2>2, OtherEffect DEF Nobody
    <3>2. nextPid' = nextPid
      BY <2>2, Zenon
         DEF vars, Next, Syscall, Kill, Wait4, Exit, OtherSyscall, KernelStep, SyscallReturn,
             ExitZombie, ExitWake, ExitSwitch, Wait4Snapshot, Wait4Inspect, Wait4Mark,
             Wait4Recheck, Wait4Unmark, Wait4Reap, Wait4Cleanup, Wait4Switch, Wait4Resume,
             Tick, TickStep, TickSignals, TickTerminate, TickWake, TickReschedule
    <3> QED
      BY <1>4, <3>1, <3>2
  <2> QED
    BY <2>1, <2>2
<1> QED
  BY <1>2, <1>3, <1>4 DEF FirstChild

-----------------------------------------------------------------------------
(* A Zombie that is not let into a system call moves no further than to    *)
(* the end of its exit.                                                    *)
LEMMA ZombiePoint ==
  ASSUME IInv, [CtxNext]_<<vars, ctxVars>>, ~SyscallEntry,
         at[current] \in {"x_wake", "x_loop", "user"}
  PROVE  at'[current] \in {"x_wake", "x_loop", "user"}
<1>0. at \in [Pcb -> Label] /\ current \in Pcb
  BY Zenon DEF IInv, TypeOK, SchedTypeOK
<1>1. CASE SyscallExit
  BY <1>1 DEF SyscallExit, SyscallReturn, At
<1>2. CASE SamePlace
  <2>1. CASE ExitZombie \/ ExitWake
    BY <1>0, <2>1 DEF ExitZombie, ExitWake, Step, At, Goto
  <2>2. CASE \/ Wait4Snapshot \/ Wait4Inspect \/ Wait4Mark \/ Wait4Recheck
             \/ Wait4Unmark \/ Wait4Reap \/ Wait4Cleanup \/ Wait4Resume
    BY <2>2 DEF Wait4Snapshot, Wait4Inspect, Wait4Mark, Wait4Recheck,
         Wait4Unmark, Wait4Reap, Wait4Cleanup, Wait4Resume, Step, At
  <2>3. CASE TickSignals \/ TickTerminate \/ TickWake
    BY <2>3 DEF TickSignals, TickTerminate, TickWake
  <2> QED
    BY <1>2, <2>1, <2>2, <2>3, Zenon DEF SamePlace
<1>3. CASE VoluntarySwitch
  BY <1>3 DEF VoluntarySwitch, ExitSwitch, Wait4Switch, At
<1>4. CASE UNCHANGED at
  BY <1>4
<1> QED
  BY <1>1, <1>2, <1>3, <1>4, PointStep, Zenon DEF CtxNext, EntryFault, Execve, vars

(* The timer's handler gets to its wakeup only past the termination. *)
LEMMA WakeComes ==
  ASSUME IInv, [Next]_vars, irq' = "wake"
  PROVE  TickTerminate \/ UNCHANGED vars
BY DEF Next, Syscall, Fork, Kill, Wait4, Exit, OtherSyscall, KernelStep, SyscallReturn,
     ExitZombie, ExitWake, ExitSwitch, Wait4Snapshot, Wait4Inspect, Wait4Mark, Wait4Recheck,
     Wait4Unmark, Wait4Reap, Wait4Cleanup, Wait4Switch, Wait4Resume, Enter, Step, At,
     Tick, TickStep, TickSignals, TickWake, TickReschedule, TickDone

LEMMA DeadPointsStep ==
  ASSUME ProcInv, OneInside, DeadPoints, Outside, [CtxNext]_<<vars, ctxVars>>
  PROVE  DeadPoints'
<1>0. IInv /\ [Next]_vars /\ current \in Pcb
  BY StepIsProcessStep DEF ProcInv, IInv, TypeOK, SchedTypeOK
<1> SUFFICES ASSUME NEW t \in Pcb, state'[t] = "Zombie"
             PROVE  at'[t] \in {"x_wake", "x_loop", "user"}
  BY Zenon DEF DeadPoints
<1>1. CASE state[t] = "Zombie"
  <2>1. at[t] \in {"x_wake", "x_loop", "user"}
    BY <1>1 DEF DeadPoints
  <2>2. CASE t # current
    BY <1>0, <2>1, <2>2, OthersWait
  <2>3. CASE t = current
    <3>1. ~SyscallEntry
      <4>1. SyscallEntry => halted = "no" /\ gs = "user" /\ irq = "none"
        BY Zenon DEF SyscallEntry, Syscall, Fork, Kill, Wait4, Exit, OtherSyscall, Enter, At
      <4>2. SyscallEntry => InsideSyscall = {}
        BY <4>1 DEF OneInside
      <4> QED
        BY <1>1, <2>3, <4>1, <4>2 DEF Outside
    <3> QED
      BY <1>0, <2>1, <2>3, <3>1, ZombiePoint
  <2> QED
    BY <2>2, <2>3
<1>2. CASE t = current' /\ irq' = "wake" /\ state[t] # "Zombie"
  <2>1. TickTerminate
    BY <1>0, <1>2, WakeComes DEF vars, schedVars
  <2> QED
    BY <1>0, <1>2, <2>1 DEF TickTerminate, IInv, StateFitsPoint
<1> QED
  BY <1>0, <1>1, <1>2, StateCauses

-----------------------------------------------------------------------------
(* A return to user mode leaves a process that is not to die. *)
LEMMA ReturnSpares ==
  ASSUME ProcInv, DeadPoints, FirstChild', SyscallExit, at'[current] = "user"
  PROVE  state'[current'] # "Zombie" /\ Somebody'
<1>0. /\ IInv /\ TypeOK /\ SchedTypeOK /\ current \in Pcb /\ at \in [Pcb -> Label]
      /\ pending \in [Pid -> SUBSET Signals] /\ currentPid = pid[current]
      /\ pid[current] \in Pid /\ at[current] = "ret" /\ at[Idle] = "idle"
      /\ state' = state /\ pid' = pid /\ current' = current /\ irq' = "none"
  BY DEF ProcInv, IInv, TypeOK, SchedTypeOK, CurrentPidMatches, StateFitsPoint, SyscallExit,
         SyscallReturn, At, schedVars
<1>1. current # Idle /\ state[current] \in {"Ready", "Running"}
  BY <1>0 DEF DeadPoints, IInv, StateFitsPoint, SchedTypeOK, ProcessState
<1> SUFFICES Somebody'
  BY <1>0, <1>1
<1>2. "fatal" \notin pending[currentPid]
  BY <1>0 DEF SyscallExit, SyscallReturn, Goto
<1>3. "fatal" \notin pending'[pid[current]]
  <2>1. PICK left \in LeftPending(pending[currentPid]) :
          pending' = [pending EXCEPT ![currentPid] = left]
    BY Zenon DEF SyscallExit, SyscallReturn
  <2>2. "fatal" \notin left
    BY <1>2, <2>1 DEF LeftPending
  <2> QED
    BY <1>0, <2>1, <2>2
<1>4. \A t \in Pcb : (t = current \/ (pid[t] = pid[current] /\ state[t] = "Ready")) => Spared(t)'
  <2> SUFFICES ASSUME NEW t \in Pcb, t = current \/ (pid[t] = pid[current] /\ state[t] = "Ready")
               PROVE  Spared(t)'
    OBVIOUS
  <2>1. pid[t] = pid[current] /\ state[t] \in {"Ready", "Running"}
    BY <1>1
  <2> QED
    BY <1>0, <1>3, <2>1, Zenon DEF Spared
<1>5. CASE current # BootInit
  <2>1. \E t \in Pcb \ {BootInit, Idle} : Spared(t)'
    BY <1>0, <1>1, <1>4, <1>5
  <2>2. irq' # "terminate"
    BY <1>0
  <2> QED
    BY <2>1, <2>2, Zenon DEF Somebody
<1>6. CASE current = BootInit
  <2>1. CASE Nobody'
    <3>1. current' = BootInit /\ irq' = "none" /\ Spared(BootInit)'
      BY <1>0, <1>4, <1>6
    <3> QED
      BY <2>1, <3>1 DEF Somebody
  <2>2. CASE ~Nobody'
    <3>1. PICK c \in Pcb \ {BootInit, Idle} : pid'[c] = 1 /\ state'[c] = "Ready"
      BY <1>0, <1>6, <2>2 DEF FirstChild
    <3>2. pid'[BootInit] = 1
      BY DEF FirstChild
    <3>3. Spared(c)'
      BY <1>0, <1>4, <1>6, <3>1, <3>2, Zenon
    <3>4. irq' # "terminate"
      BY <1>0
    <3> QED
      BY <3>3, <3>4, Zenon DEF Somebody
  <2> QED
    BY <2>1, <2>2
<1> QED
  BY <1>5, <1>6

LEMMA TimerSpares ==
  ASSUME ProcInv, ReadyIsQueued, Outside, TimerSwitch, InsideSyscall = {}
  PROVE  state'[current'] # "Zombie" /\ Somebody'
<1>0. /\ IInv /\ IdleInv /\ BootInv /\ [Next]_vars /\ current \in Pcb
      /\ UNCHANGED <<pending, pid>> /\ TimerTickSchedule
      /\ irq \in {"none", "resched"} /\ irq' \in {"none", "signals"}
      /\ irq = "resched" => state[current] = "Zombie"
  <2>1. [Next]_vars
    BY Zenon DEF TimerSwitch, Next, TickStep
  <2>2. UNCHANGED <<pending, pid>> /\ TimerTickSchedule
    BY Zenon DEF TimerSwitch, Tick, TickReschedule, TimerTickSchedule, Dispatch, schedVars
  <2>3. irq \in {"none", "resched"} /\ irq' \in {"none", "signals"}
    BY DEF TimerSwitch, Tick, TickReschedule, TickDone
  <2> QED
    BY <2>1, <2>2, <2>3 DEF ProcInv, IInv, TypeOK, SchedTypeOK, StateFitsPoint
<1>1. Somebody
  BY DEF Outside
<1>2. \A t \in Pcb : Spared(t) => Spared(t)'
  BY <1>0, DispatchEffect DEF Spared
<1>3. CASE \E t \in Pcb \ {BootInit, Idle} : Spared(t)
  <2>1. PICK t \in Pcb \ {BootInit, Idle} : Spared(t)
    BY <1>3
  <2>2. Somebody'
    BY <1>0, <1>2, <2>1 DEF Somebody
  <2>3. CASE irq = "none"
    <3>1. state[current] # "Zombie"
      BY <2>3 DEF Outside
    <3>2. current' = current => state'[current'] # "Zombie"
      BY <1>0, <3>1, DispatchEffect
    <3> QED
      BY <1>0, <2>2, <3>2, DispatchedRuns
  <2>4. CASE irq = "resched"
    <3>1. state[current] = "Zombie" /\ t # current
      BY <1>0, <2>1, <2>4 DEF Spared
    <3>2. Queued(t)
      BY <2>1, <3>1 DEF ReadyIsQueued, Spared, InsideSyscall
    <3>3. readyQueue # <<>>
      BY SMT, <3>2 DEF Queued
    <3>4. current' = Head(readyQueue) /\ state[Head(readyQueue)] = "Ready"
      BY <1>0, <3>3, HeadFacts DEF TimerTickSchedule, Dispatch
    <3> QED
      BY <1>0, <2>2, <3>1, <3>4, DispatchedRuns
  <2> QED
    BY <1>0, <2>3, <2>4
<1>4. CASE current = BootInit /\ irq = "none" /\ Spared(BootInit) /\ Nobody
  <2>1. readyQueue = <<>>
    BY <1>0, <1>4, HeadFacts DEF Nobody
  <2>2. UNCHANGED schedVars
    BY <1>0, <2>1, Zenon DEF TimerTickSchedule
  <2>3. current' = BootInit /\ Nobody' /\ state'[BootInit] = state[BootInit]
    BY <1>4, <2>2, Zenon DEF schedVars, Nobody
  <2>4. BootInit \in Pcb
    BY PcbAssumption
  <2> QED
    BY <1>0, <1>2, <1>4, <2>3, <2>4 DEF Somebody, Spared
<1> QED
  BY <1>0, <1>1, <1>3, <1>4 DEF Somebody

LEMMA HandlerSpares ==
  ASSUME ProcInv, Outside, InsideSyscall = {}, TickSignals \/ TickTerminate \/ TickWake
  PROVE  /\ irq' \in {"none", "signals", "terminate"} => state'[current'] # "Zombie"
         /\ Somebody'
<1>0. /\ IInv /\ SchedTypeOK /\ current \in Pcb /\ currentPid = pid[current] /\ pid[current] \in Pid
      /\ pending \in [Pid -> SUBSET Signals] /\ pid \in [Pcb -> Pid] /\ ppid[current] \in Pid
  BY DEF ProcInv, IInv, TypeOK, SchedTypeOK, CurrentPidMatches
<1>1. Somebody
  BY DEF Outside
<1>2. CASE TickSignals
  <2>1. UNCHANGED <<state, pid, current>> /\ irq = "signals" /\ irq' \in {"none", "terminate"}
    BY <1>2 DEF TickSignals, schedVars, TickDone
  <2>2. irq' = "terminate" => "fatal" \in pending[pid[current]]
    BY <1>0, <1>2 DEF TickSignals, TickDone
  <2>3. \A p \in Pid : "fatal" \notin pending[p] => "fatal" \notin pending'[p]
    <3>1. CASE UNCHANGED pending
      BY <3>1
    <3>2. CASE \E left \in LeftPending(pending[currentPid]) :
                 pending' = [pending EXCEPT ![currentPid] = left]
      <4>1. PICK left \in LeftPending(pending[currentPid]) :
                 pending' = [pending EXCEPT ![currentPid] = left]
        BY <3>2
      <4>2. "fatal" \notin pending[currentPid] => "fatal" \notin left
        BY <4>1 DEF LeftPending
      <4> QED
        BY <1>0, <4>1, <4>2
    <3> QED
      BY <1>2, <3>1, <3>2, Zenon DEF TickSignals
  <2>4. \A t \in Pcb : Spared(t) => Spared(t)' /\ (irq' = "terminate" => t # current)
    BY <1>0, <2>1, <2>2, <2>3 DEF Spared
  <2>5. state'[current'] # "Zombie"
    BY <2>1 DEF Outside
  <2>6. Nobody => Nobody'
    BY <2>1 DEF Nobody
  <2> QED
    BY <1>0, <1>1, <2>1, <2>4, <2>5, <2>6 DEF Somebody
<1>3. CASE TickTerminate
  <2>1. PICK t \in Pcb \ {BootInit, Idle} : Spared(t) /\ t # current
    BY <1>1, <1>3 DEF Somebody, TickTerminate
  <2>2. Spared(t)' /\ irq' = "wake"
    BY <1>0, <1>3, <2>1 DEF Spared, TickTerminate, SchedTypeOK
  <2> QED
    BY <2>1, <2>2 DEF Somebody
<1>4. CASE TickWake
  <2>1. PICK t \in Pcb \ {BootInit, Idle} : Spared(t)
    BY <1>1, <1>4 DEF Somebody, TickWake
  <2>2. state'[t] = state[t] /\ pid' = pid
    <3>1. CASE WakeTask(ppid[current])
      BY <1>0, <2>1, <3>1, WakeEffect DEF Spared, WakeTask
    <3>2. CASE UNCHANGED schedVars
      BY <3>2 DEF schedVars
    <3> QED
      BY <1>4, <3>1, <3>2, Zenon DEF TickWake
  <2>3. "fatal" \notin pending'[pid[t]] /\ irq' = "resched"
    BY <1>0, <1>4, <2>1 DEF TickWake, Spared
  <2>4. Spared(t)'
    BY <2>1, <2>2, <2>3 DEF Spared
  <2> QED
    BY <2>1, <2>3, <2>4 DEF Somebody
<1> QED
  BY <1>2, <1>3, <1>4

LEMMA OutsideStep ==
  ASSUME ProcInv, ReadyIsQueued, OneInside, FirstChild', DeadPoints, Outside,
         [CtxNext]_<<vars, ctxVars>>
  PROVE  Outside'
<1>0. IInv /\ current \in Pcb
  BY DEF ProcInv, IInv, TypeOK, SchedTypeOK
<1> SUFFICES ASSUME InsideSyscall' = {}
             PROVE  /\ irq' \in {"none", "signals", "terminate"} => state'[current'] # "Zombie"
                    /\ Somebody'
  BY Zenon DEF Outside
<1>1. /\ \A t \in Pcb : t # current => at'[t] = at[t]
      /\ \A t \in Pcb : at'[t] \in {"user", "idle"}
  BY StepIsProcessStep, OthersWait DEF ProcInv, InsideSyscall
<1>2. at[current] \in {"user", "idle"} => InsideSyscall = {}
  BY <1>1 DEF InsideSyscall
<1>3. ~SyscallEntry /\ ~VoluntarySwitch
  BY <1>0, <1>1, PointStep
<1>4. CASE SyscallExit
  <2>1. at'[current] = "user"
    BY <1>0, <1>1, <1>4, PointStep
  <2> QED
    BY <1>4, <2>1, ReturnSpares
<1>5. CASE SamePlace
  <2>1. at[current] \in {"user", "idle"}
    BY <1>0, <1>1, <1>5, PointStep
  <2>2. TickSignals \/ TickTerminate \/ TickWake
    BY <1>5, <2>1
       DEF SamePlace, ExitZombie, ExitWake, Wait4Snapshot, Wait4Inspect, Wait4Mark, Wait4Recheck,
           Wait4Unmark, Wait4Reap, Wait4Cleanup, Wait4Resume, Step, At
  <2> QED
    BY <1>2, <2>1, <2>2, HandlerSpares
<1>6. CASE TimerSwitch
  <2>1. InsideSyscall = {}
    BY <1>0, <1>1, <1>2, <1>6, PointStep
  <2> QED
    BY <1>6, <2>1, TimerSpares
<1>7. CASE UNCHANGED vars
  <2>1. InsideSyscall = {}
    BY <1>0, <1>1, <1>2, <1>7 DEF vars
  <2> QED
    BY <1>7, <2>1, Zenon DEF vars, schedVars, Outside, Somebody, Spared, Nobody
<1> QED
  BY <1>3, <1>4, <1>5, <1>6, <1>7, Zenon DEF CtxNext, EntryFault, Execve

-----------------------------------------------------------------------------
(* Who lives or runs after a step did before it, but for a new child. *)
LEMMA LivedBefore ==
  ASSUME IInv, IdleInv, BootInv, [Next]_vars, ~\E child \in Pcb : Fork(child),
         NEW t \in Pcb \ {BootInit, Idle},
         t = current' \/ state'[t] \in {"Ready", "Running", "Blocked"}
  PROVE  t = current \/ state[t] \in {"Ready", "Running", "Blocked"}
<1>1. current' = current \/ current' = Idle \/ (readyQueue # <<>> /\ current' = Head(readyQueue))
  BY StepKinds, Zenon DEF SwitchOutCurrent, TimerTickSchedule, Dispatch, WakeTask, schedVars
<1>2. CASE t = current'
  BY <1>1, <1>2, HeadFacts
<1>3. CASE t # current'
  BY <1>3, OthersState
<1> QED
  BY <1>2, <1>3

LEMMA TabledStep ==
  ASSUME ProcInv, KnownPids, DeadPoints, Tabled, [Next]_vars
  PROVE  Tabled'
<1>0. /\ IInv /\ IdleInv /\ BootInv /\ KnownWaits /\ SchedTypeOK /\ state[current] # "Free"
      /\ state[BootInit] # "Free" /\ state[Idle] # "Free"
      /\ pid \in [Pcb -> Pid] /\ NoPcb \notin Pcb
  BY PcbAssumption DEF ProcInv, IInv, TypeOK, SchedTypeOK, StateFitsPoint, BootInv
<1> SUFFICES ASSUME PidsNotReused', NEW t \in Pcb \ {BootInit, Idle},
                    t = current' \/ state'[t] \in {"Ready", "Running", "Blocked"}
             PROVE  table'[pid'[t]] = t
  BY Zenon DEF Tabled
<1>1. PidsNotReused
  <2> SUFFICES ASSUME NEW x \in Pcb \ {BootInit, Idle}, NEW y \in Pcb \ {BootInit, Idle},
                      state[x] # "Free", state[y] # "Free", pid[x] = pid[y]
               PROVE  x = y
    BY Zenon DEF PidsNotReused
  <2>1. state'[x] # "Free" /\ state'[y] # "Free" /\ pid'[x] = pid'[y]
    BY <1>0, IdentityKept
  <2> QED
    BY <2>1, Zenon DEF PidsNotReused
<1>2. \A u \in Pcb \ {BootInit, Idle} :
        (u = current \/ state[u] \in {"Ready", "Running", "Blocked"}) => table[pid[u]] = u
  BY <1>1 DEF Tabled
<1>3. ASSUME NEW child \in Pcb, Fork(child) PROVE table'[pid'[t]] = t
  <2>1. child \notin {BootInit, Idle} /\ current' = current
    <3>1. state[child] = "Free" /\ current' = current
      BY <1>0, <1>3, ForkEffect, ZenonT(30) DEF Fork
    <3> QED
      BY <1>0, <3>1
  <2>2. CASE t = child
    BY <1>0, <1>3, <2>2, ForkEffect
  <2>3. CASE t # child
    <3>1. state'[t] = state[t] /\ pid'[t] = pid[t] /\ state'[t] # "Free"
      <4>1. \A u \in Pcb : u # child => state'[u] = state[u] /\ pid'[u] = pid[u]
        BY <1>0, <1>3, ForkEffect, SMT
      <4>2. state'[t] = state[t] /\ pid'[t] = pid[t]
        BY <2>3, <4>1, Zenon
      <4>3. t = current \/ state'[t] \in {"Ready", "Running", "Blocked"}
        BY <2>1
      <4> QED
        BY <1>0, <4>2, <4>3
    <3>2. table[pid[t]] = t
      BY <1>2, <2>1, <3>1
    <3>3. pid[t] # AllocPid
      <4>1. state'[child] # "Free" /\ pid'[child] = AllocPid
        BY <1>0, <1>3, ForkEffect
      <4>2. child \in Pcb \ {BootInit, Idle}
        BY <2>1
      <4> QED
        BY <2>3, <3>1, <4>1, <4>2, Zenon DEF PidsNotReused
    <3>4. \A p \in Pid : p # AllocPid => table'[p] = table[p]
      BY <1>0, <1>3, ForkEffect
    <3>5. pid[t] \in Pid
      BY <1>0
    <3> QED
      BY <3>1, <3>2, <3>3, <3>4, <3>5, Zenon
  <2> QED
    BY <2>2, <2>3
<1>4. CASE ~\E child \in Pcb : Fork(child)
  <2>1. t = current \/ state[t] \in {"Ready", "Running", "Blocked"}
    BY <1>0, <1>4, LivedBefore
  <2>2. table[pid[t]] = t /\ pid[t] \in Pid
    BY <1>0, <1>2, <2>1
  <2>3. pid'[t] = pid[t] /\ table'[pid[t]] \in {t, NoPcb}
    BY <1>0, <1>4, <2>2, OtherEffect
  <2>4. table'[pid[t]] # NoPcb
    <3> SUFFICES ASSUME table'[pid[t]] = NoPcb PROVE FALSE
      OBVIOUS
    <3>1. at[current] = "w_reap" /\ state[t] = "Zombie"
      BY <1>0, <1>1, <2>2, EntriesLeave
    <3> QED
      BY <2>1, <3>1 DEF DeadPoints
  <2> QED
    BY <2>3, <2>4
<1> QED
  BY <1>3, <1>4

StackInv == FirstChild /\ DeadPoints /\ Outside /\ Tabled

LEMMA StackInvariance == CtxSpec => [](ProcInv /\ StackInv)
<1>1. CtxInit => StackInv
  <2> SUFFICES ASSUME CtxInit PROVE StackInv
    OBVIOUS
  <2>0. Init /\ BootInit \in Pcb /\ Idle \in Pcb /\ BootInit # Idle
    BY PcbAssumption DEF CtxInit
  <2>1. FirstChild /\ Nobody
    BY <2>0 DEF Init, FirstChild, Nobody
  <2>2. DeadPoints /\ Tabled
    BY <2>0 DEF Init, DeadPoints, Tabled
  <2>3. 1 \in Pid
    BY SMT, PidAssumption DEF Pid
  <2>4. Spared(BootInit)
    BY <2>0, <2>3 DEF Init, Spared
  <2>5. current = BootInit /\ irq = "none" /\ state[current] = "Ready"
    BY <2>0 DEF Init
  <2> QED
    BY <2>1, <2>2, <2>4, <2>5 DEF StackInv, Outside, Somebody
<1>2. ProcInv /\ KnownPids /\ ReadyIsQueued /\ OneInside /\ StackInv
        /\ [CtxNext]_<<vars, ctxVars>> => StackInv'
  BY StepIsProcessStep, FirstChildStep, DeadPointsStep, OutsideStep, TabledStep, Zenon
     DEF StackInv, ProcInv
<1> QED
  BY ProcInvariance, ContextImplementsProcesses, KnowledgeInvariance, ReadyAreQueued,
     OneProcessInside, <1>1, <1>2, PTL DEF CtxSpec

(* A process that was terminated is outside the kernel for good, and one   *)
(* that exits is past the point of no return: no Zombie makes a system     *)
(* call, although the timer may have to leave it on the CPU.               *)
THEOREM ZombiesMakeNoCalls == CtxSpec => []DeadPoints
BY StackInvariance, PTL DEF StackInv

(* A switch never drops the last reference to the process whose stack it   *)
(* runs on, until NEXT_PID has come round to a pid in use.                 *)
THEOREM StacksOutliveSwitches == CtxSpec => StackOutlivesSwitch
<1> DEFINE Kept == \A t \in Pcb \ {BootInit} :
                     (PidsNotReused /\ t = current /\ current' # t) => Held(t)'
<1>1. ProcInv /\ StackInv /\ [CtxNext]_<<vars, ctxVars>> => Kept
  <2> SUFFICES ASSUME ProcInv, StackInv, [CtxNext]_<<vars, ctxVars>>, NEW t \in Pcb \ {BootInit},
                      PidsNotReused, t = current, current' # t
               PROVE  Held(t)'
    OBVIOUS
  <2>1. IInv /\ [Next]_vars /\ pid[t] \in Pid
    BY StepIsProcessStep DEF ProcInv, IInv, TypeOK, SchedTypeOK
  <2>2. SwitchOutCurrent \/ TimerTickSchedule
    BY <2>1, StepKinds DEF WakeTask, Fork
  <2>3. table' = table
    BY <2>2, Zenon DEF SwitchOutCurrent, TimerTickSchedule, Dispatch, schedVars
  <2>4. t # Idle => table[pid[t]] = t
    BY DEF StackInv, Tabled
  <2> QED
    BY <2>1, <2>3, <2>4, Zenon DEF Held
<1> QED
  BY StackInvariance, <1>1, PTL DEF CtxSpec, StackOutlivesSwitch
=============================================================================
