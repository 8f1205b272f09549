---------------------------- MODULE PipeProofs -----------------------------
(***************************************************************************)
(* The invariants of Pipe, for any number of processes, any size of the    *)
(* buffer and any counts.                                                  *)
(*                                                                         *)
(* The argument: the offset lock of a handle, held across every sleep,     *)
(* lets one process at a time into the calls on an end.  So a wait queue   *)
(* never holds more than one pid, that of a process which is still inside  *)
(* and would still have to wait.  This makes the gated wakeups sufficient, *)
(* although a reader wakes a single writer.                                *)
(***************************************************************************)
EXTENDS Pipe, TLAPS

(* The scheduler's functions keep the types. *)
LEMMA SchedTyped ==
  ASSUME SchedTypeOK,
         \/ MarkCurrentBlocked
         \/ MarkCurrentRunning
         \/ \E p \in Pid : WakeTask(p)
         \/ SwitchOutCurrent
         \/ TimerTickSchedule
         \/ UNCHANGED schedVars
  PROVE  SchedTypeOK'
<1>1. CASE MarkCurrentBlocked
  BY Zenon, <1>1 DEF MarkCurrentBlocked, SchedTypeOK, ProcessState
<1>2. CASE MarkCurrentRunning
  BY Zenon, <1>2 DEF MarkCurrentRunning, SchedTypeOK, ProcessState
<1>3. CASE SwitchOutCurrent
  <2>1. CASE readyQueue = <<>>
    BY <1>3, <2>1, PcbAssumption DEF SwitchOutCurrent, Dispatch, SchedTypeOK, ProcessState
  <2>2. CASE readyQueue # <<>>
    <3>1. Head(readyQueue) \in Pcb /\ Tail(readyQueue) \in Seq(Pcb)
      BY <2>2 DEF SchedTypeOK
    <3> QED
      BY Zenon, <1>3, <2>2, <3>1 DEF SwitchOutCurrent, Dispatch, SchedTypeOK, ProcessState
  <2> QED
    BY Zenon, <2>1, <2>2
<1>4. CASE TimerTickSchedule
  <2> DEFINE states == [state EXCEPT ![current] = IF Requeues THEN "Ready" ELSE @]
  <2>1. CASE readyQueue = <<>>
    BY Zenon, <1>4, <2>1 DEF TimerTickSchedule, SchedTypeOK, schedVars
  <2>2. CASE readyQueue # <<>>
    <3>1. Head(readyQueue) \in Pcb /\ Tail(readyQueue) \in Seq(Pcb)
      BY <2>2 DEF SchedTypeOK
    <3>2. states \in [Pcb -> ProcessState \cup {"Free"}]
      BY Zenon DEF SchedTypeOK, ProcessState
    <3>3. /\ Dispatch(Head(readyQueue), states)
          /\ readyQueue' \in {Append(Tail(readyQueue), current), Tail(readyQueue)}
      BY Zenon, <1>4, <2>2 DEF TimerTickSchedule, AddTask
    <3>4. readyQueue' \in Seq(Pcb)
      <4>1. Append(Tail(readyQueue), current) \in Seq(Pcb)
        BY <3>1 DEF SchedTypeOK
      <4> QED
        BY Zenon, <3>1, <3>3, <4>1
    <3> HIDE DEF states
    <3> QED
      BY Zenon, <3>1, <3>2, <3>3, <3>4 DEF Dispatch, SchedTypeOK, ProcessState
  <2> QED
    BY Zenon, <2>1, <2>2
<1>5. CASE \E p \in Pid : WakeTask(p)
  <2>1. PICK p \in Pid : WakeTask(p)
    BY Zenon, <1>5
  <2>2. CASE Wakeable(p)
    <3>1. table[p] \in Pcb
      BY Zenon, <2>2 DEF Wakeable, SchedTypeOK
    <3>2. /\ state' = [state EXCEPT ![table[p]] = "Ready"]
          /\ readyQueue' = Append(readyQueue, table[p])
      BY Zenon, <2>1, <2>2 DEF WakeTask, AddTask
    <3> QED
      BY <2>1, <3>1, <3>2 DEF WakeTask, SchedTypeOK, ProcessState
  <2> QED
    BY Zenon, <2>1, <2>2 DEF WakeTask, SchedTypeOK
<1>6. CASE UNCHANGED schedVars
  BY Zenon, <1>6 DEF schedVars, SchedTypeOK
<1> QED
  BY Zenon, <1>1, <1>2, <1>3, <1>4, <1>5, <1>6

(* A switch makes the incoming process Running and perhaps the outgoing    *)
(* one Ready; it stores the pid that goes with the process.                *)
LEMMA SwitchFacts ==
  ASSUME SchedTypeOK, SwitchOutCurrent \/ TimerTickSchedule, currentPid = pid[current]
  PROVE  /\ UNCHANGED <<pid, table>>
         /\ currentPid' = pid[current']
         /\ \A t \in Pcb : state'[t] = "Blocked" => state[t] = "Blocked"
<1>1. CASE readyQueue = <<>>
  BY Zenon, <1>1, PcbAssumption DEF SwitchOutCurrent, TimerTickSchedule, Dispatch, SchedTypeOK, schedVars
<1>2. CASE readyQueue # <<>>
  <2>1. Head(readyQueue) \in Pcb
    BY <1>2 DEF SchedTypeOK
  <2>2. CASE SwitchOutCurrent
    BY Zenon, <1>2, <2>1, <2>2 DEF SwitchOutCurrent, Dispatch, SchedTypeOK
  <2>3. CASE TimerTickSchedule
    <3> DEFINE states == [state EXCEPT ![current] = IF Requeues THEN "Ready" ELSE @]
    <3>1. states \in [Pcb -> ProcessState \cup {"Free"}]
      BY Zenon DEF SchedTypeOK, ProcessState
    <3>2. \A t \in Pcb : states[t] = "Blocked" => state[t] = "Blocked"
      BY Zenon DEF SchedTypeOK
    <3>3. Dispatch(Head(readyQueue), states)
      BY Zenon, <1>2, <2>3 DEF TimerTickSchedule
    <3> HIDE DEF states
    <3> QED
      BY Zenon, <2>1, <3>1, <3>2, <3>3 DEF Dispatch
  <2> QED
    BY Zenon, <2>2, <2>3
<1> QED
  BY Zenon, <1>1, <1>2

(* wake_tasks of at most one pid: whoever it names is not Blocked after it *)
LEMMA WakeFacts ==
  ASSUME SchedTypeOK, NEW pids \in Seq(Pid), WakeTasks(pids),
         pids = <<>> \/ \E p \in Pid : pids = <<p>>
  PROVE  /\ SchedTypeOK'
         /\ UNCHANGED <<pid, table, current, currentPid>>
         /\ \A t \in Pcb : state'[t] = "Blocked" => state[t] = "Blocked"
         /\ \A p \in Pid : (pids = <<p>> /\ table[p] \in Pcb) => state'[table[p]] # "Blocked"
<1>1. CASE pids = <<>>
  BY Zenon, <1>1 DEF WakeTasks, schedVars, SchedTypeOK
<1>2. ASSUME NEW p \in Pid, pids = <<p>> PROVE WakeTask(p)
  <2>1. pids # <<>> /\ Len(pids) = 1 /\ Head(pids) = p
    BY <1>2
  <2> QED
    BY Zenon, <2>1 DEF WakeTasks
<1>3. ASSUME NEW p \in Pid, WakeTask(p)
      PROVE  /\ SchedTypeOK'
             /\ UNCHANGED <<pid, table, current, currentPid>>
             /\ \A t \in Pcb : state'[t] = "Blocked" => state[t] = "Blocked"
             /\ table[p] \in Pcb => state'[table[p]] # "Blocked"
  <2>1. SchedTypeOK'
    BY Zenon, <1>3, SchedTyped
  <2>2. UNCHANGED <<pid, table, current, currentPid>>
    BY Zenon, <1>3 DEF WakeTask
  <2>3. \A t \in Pcb : state'[t] = "Blocked" => state[t] = "Blocked"
    BY Zenon, <1>3 DEF WakeTask, SchedTypeOK
  <2>4. table[p] \in Pcb => state'[table[p]] # "Blocked"
    BY Zenon, <1>3, PcbAssumption DEF WakeTask, Wakeable, SchedTypeOK
  <2> QED
    BY Zenon, <2>1, <2>2, <2>3, <2>4
<1>4. \A p \in Pid : pids = <<p>> => pids # <<>>
  OBVIOUS
<1>5. \A p, r \in Pid : (pids = <<p>> /\ pids = <<r>>) => p = r
  OBVIOUS
<1> QED
  BY Zenon, <1>1, <1>2, <1>3, <1>4, <1>5

-----------------------------------------------------------------------------

(* Pids are fixed here, and CURRENT_PID is right. *)
Named ==
  /\ \A t \in Procs : pid[t] \in Pid /\ table[pid[t]] = t
  /\ currentPid = pid[current]

InsideAreProcs == \A t \in Pcb : at[t] \in Inside => t \in Procs

(* Where a process can be while its pid is on a wait queue *)
Registered == {"switch", "resume", "check", "mark", "pipe", "cancel"}

OneWaiter ==
  \A e \in End : waiters[e] # <<>> =>
    /\ MustWait(e)
    /\ \E t \in Procs : waiters[e] = <<pid[t]>> /\ at[t] \in Registered /\ call[t].end = e

OneWoken ==
  \A t \in Pcb : wakes[t] # <<>> =>
    at[t] = "wake" /\ \E u \in Procs : wakes[t] = <<pid[u]>>

SleeperSafe ==
  \A t \in Procs : (state[t] = "Blocked" /\ at[t] \in {"switch", "resume"}) =>
    Waits(t, call[t].end) \/ ToBeWoken(t)

IInv ==
  /\ TypeOK /\ Named /\ InsideAreProcs /\ OffsetLocked
  /\ OneWaiter /\ OneWoken /\ SleeperSafe /\ BlockedBelongs
  /\ \A t \in Procs : at[t] # "stuck"

LEMMA ProcsArePcbs == Procs \subseteq Pcb /\ NoPcb \notin Procs
BY PipeAssumption, PcbAssumption DEF Procs

-----------------------------------------------------------------------------
(* Only the process on the CPU moves. *)
LEMMA OthersStay ==
  ASSUME TypeOK, [Next]_vars, NEW t \in Pcb, t # current
  PROVE  at'[t] = at[t] /\ call'[t] = call[t] /\ wakes'[t] = wakes[t]
<1>0. current \in Pcb /\ at \in [Pcb -> Label] /\ DOMAIN call = Pcb /\ DOMAIN wakes = Pcb
  BY Zenon DEF TypeOK, SchedTypeOK
<1>1. CASE Syscall
  BY Zenon, <1>0, <1>1 DEF Syscall, Call, Close, Kill, Exit, Step, Goto
<1>2. CASE KernelStep
  BY Zenon, <1>0, <1>2
     DEF KernelStep, LockOffset, Mark, ReadEof, WriteEpipe, Register, ReadBytes, WriteBytes, Wake,
         Unmark, Switch, Resume, CheckSignals, Cancel, UnlockOffset, SyscallReturn, ExitSwitch,
         Step, Goto
<1>3. CASE Tick \/ UNCHANGED vars
  BY Zenon, <1>3 DEF Tick, vars, procVars
<1> QED
  BY Zenon, <1>1, <1>2, <1>3 DEF Next

(* A move that neither takes nor leaves the offset lock *)
LEMMA MoveKeepsLock ==
  ASSUME TypeOK, InsideAreProcs, OffsetLocked, NEW to, Goto(to), UNCHANGED <<call, offset>>,
         to \in Inside \ {"lock"} <=> at[current] \in Inside \ {"lock"},
         to \in Inside => at[current] \in Inside
  PROVE  InsideAreProcs' /\ OffsetLocked'
<1>0. current \in Pcb /\ at \in [Pcb -> Label]
  BY Zenon DEF TypeOK, SchedTypeOK
<1>1. InsideAreProcs'
  BY Zenon, <1>0 DEF InsideAreProcs, Goto
<1>2. OffsetLocked'
  BY Zenon, <1>0, ProcsArePcbs DEF OffsetLocked, Goto
<1> QED
  BY Zenon, <1>1, <1>2

(* The offset lock is with whoever is between lock and unlock. *)
LEMMA LockStep ==
  ASSUME TypeOK, InsideAreProcs, OffsetLocked, [Next]_vars
  PROVE  InsideAreProcs' /\ OffsetLocked'
<1>0. /\ current \in Pcb /\ at \in [Pcb -> Label]
      /\ call \in [Pcb -> [end : End, count : Counts \cup {0}]]
      /\ offset \in [End -> Procs \cup {NoPcb}] /\ holders \in [End -> SUBSET Procs]
  BY Zenon DEF TypeOK, SchedTypeOK
<1>1. ASSUME NEW e \in End, NEW n \in Counts, Call(e, n)
      PROVE  InsideAreProcs' /\ OffsetLocked'
  <2>1. /\ at[current] = "user" /\ at' = [at EXCEPT ![current] = "lock"]
        /\ offset' = offset /\ current \in Procs
        /\ \A t \in Pcb : t # current => call'[t] = call[t]
    BY Zenon, <1>0, <1>1 DEF Call, Step, At, Goto, pipeVars
  <2>2. \A d \in End : offset[d] # current
    BY Zenon, <2>1 DEF OffsetLocked, Inside
  <2> QED
    BY <1>0, <2>1, <2>2, ProcsArePcbs DEF InsideAreProcs, OffsetLocked
<1>2. CASE LockOffset
  <2> DEFINE e == call[current].end
  <2>1. /\ at[current] = "lock" /\ at' = [at EXCEPT ![current] = "mark"] /\ call' = call
        /\ offset[e] = NoPcb /\ offset' = [offset EXCEPT ![e] = current]
        /\ e \in End /\ current \in Procs
    BY Zenon, <1>0, <1>2 DEF LockOffset, Step, At, Goto, InsideAreProcs, Inside
  <2>2. "mark" \in Inside \ {"lock"} /\ "lock" \in Inside
    BY Zenon DEF Inside
  <2>3. InsideAreProcs'
    BY Zenon, <1>0, <2>1, <2>2 DEF InsideAreProcs
  <2>4. ASSUME NEW d \in End, NEW t \in Procs
        PROVE  offset'[d] = t <=> at'[t] \in Inside \ {"lock"} /\ call'[t].end = d
    BY <1>0, <2>1, <2>2, ProcsArePcbs DEF OffsetLocked
  <2> QED
    BY Zenon, <2>3, <2>4 DEF OffsetLocked
<1>3. CASE UnlockOffset
  <2> DEFINE e == call[current].end
  <2>1. /\ at[current] = "unlock" /\ at' = [at EXCEPT ![current] = "ret"]
        /\ offset' = [offset EXCEPT ![e] = NoPcb]
        /\ e \in End /\ current \in Procs
        /\ \A t \in Pcb : t # current => call'[t] = call[t]
    BY Zenon, <1>0, <1>3 DEF UnlockOffset, Step, At, Goto, InsideAreProcs, Inside
  <2>2. "unlock" \in Inside \ {"lock"} /\ "ret" \notin Inside
    BY Zenon DEF Inside
  <2>3. InsideAreProcs'
    BY Zenon, <1>0, <2>1, <2>2 DEF InsideAreProcs
  <2>4. \A d \in End : offset[d] = current <=> d = e
    BY <2>1, <2>2 DEF OffsetLocked
  <2>5. ASSUME NEW d \in End, NEW t \in Procs
        PROVE  offset'[d] = t <=> at'[t] \in Inside \ {"lock"} /\ call'[t].end = d
    <3>1. CASE t = current
      BY Zenon, <1>0, <2>1, <2>2, <2>4, <3>1, ProcsArePcbs
    <3>2. CASE t # current
      BY <1>0, <2>1, <2>4, <3>2, ProcsArePcbs DEF OffsetLocked
    <3> QED
      BY Zenon, <3>1, <3>2
  <2> QED
    BY Zenon, <2>3, <2>5 DEF OffsetLocked
<1>4. CASE \/ Mark \/ ReadEof \/ WriteEpipe \/ Register \/ ReadBytes \/ WriteBytes \/ Wake
           \/ Unmark \/ Switch \/ Resume \/ CheckSignals \/ Cancel
  <2>1. /\ UNCHANGED <<call, offset>> /\ at[current] \in Inside \ {"lock"}
        /\ \E to \in Inside \ {"lock"} : Goto(to)
    BY Zenon, <1>4
       DEF Mark, ReadEof, WriteEpipe, Register, ReadBytes, WriteBytes, Wake, Unmark, Switch,
           Resume, CheckSignals, Cancel, Step, At, Inside, pipeVars
  <2> QED
    BY Zenon, <2>1, MoveKeepsLock
<1>5. CASE \/ \E e \in End : Close(e)
           \/ \E t \in Procs, kind \in Interrupts : Kill(t, kind)
           \/ Exit \/ SyscallReturn
  <2>1. /\ UNCHANGED <<call, offset>> /\ at[current] \notin Inside
        /\ \E to \in {"ret", "stuck", "x_switch", "user"} : Goto(to)
    BY Zenon, <1>5 DEF Close, Kill, Exit, SyscallReturn, Step, At, Inside, pipeVars
  <2>2. \A to \in {"ret", "stuck", "x_switch", "user"} : to \notin Inside
    BY Zenon DEF Inside
  <2> QED
    BY Zenon, <2>1, <2>2, MoveKeepsLock
<1>6. CASE ExitSwitch \/ Tick \/ UNCHANGED vars
  BY <1>6 DEF ExitSwitch, Tick, vars, pipeVars, procVars, InsideAreProcs, OffsetLocked
<1> QED
  BY Zenon, <1>1, <1>2, <1>3, <1>4, <1>5, <1>6 DEF Next, Syscall, KernelStep

-----------------------------------------------------------------------------
LEMMA CountsAreNat == \A n \in Counts \cup {0} : n \in Nat
<1>1. Counts \subseteq Nat
  BY Zenon, PipeAssumption
<1>2. 0 \in Nat /\ \A n \in Counts \cup {0} : n \in Counts \/ n = 0
  BY Zenon
<1> QED
  BY <1>1, <1>2, Zenon

LEMMA MinFacts ==
  ASSUME NEW a \in Nat, NEW b \in Nat
  PROVE  Min(a, b) \in 0 .. b /\ Min(a, b) <= a
BY DEF Min

(* Pids stay, and CURRENT_PID follows the process. *)
LEMMA NamedStep ==
  ASSUME IInv, [Next]_vars
  PROVE  UNCHANGED <<pid, table>> /\ Named'
<1>0. SchedTypeOK /\ currentPid = pid[current]
  BY Zenon DEF IInv, TypeOK, Named
<1>1. CASE SwitchOutCurrent \/ TimerTickSchedule
  BY Zenon, <1>0, <1>1, SwitchFacts DEF IInv, Named
<1>2. CASE UNCHANGED <<pid, table, current, currentPid>>
  BY Zenon, <1>2 DEF IInv, Named
<1>3. ASSUME NEW e \in End, Close(e) PROVE UNCHANGED <<pid, table, current, currentPid>>
  BY <1>3, Zenon DEF Close, WakeTasks, WakeTask, schedVars
<1>4. CASE Wake
  BY <1>2, <1>4, Zenon DEF Wake, WakeTasks, WakeTask, schedVars
<1>5. CASE Switch \/ ExitSwitch \/ Tick
  BY Zenon, <1>1, <1>5 DEF Switch, ExitSwitch, Tick
<1>6. CASE \/ \E e \in End, n \in Counts : Call(e, n)
           \/ \E t \in Procs, kind \in Interrupts : Kill(t, kind)
           \/ Exit \/ UNCHANGED vars
  BY <1>2, <1>6, Zenon DEF Call, Kill, Exit, WakeTask, vars, schedVars
<1>7. CASE \/ LockOffset \/ Mark \/ ReadEof \/ WriteEpipe \/ Register \/ ReadBytes \/ WriteBytes
           \/ Unmark \/ Resume \/ CheckSignals \/ Cancel \/ UnlockOffset \/ SyscallReturn
  BY Zenon, <1>2, <1>7
     DEF LockOffset, Mark, ReadEof, WriteEpipe, Register, ReadBytes, WriteBytes, Unmark, Resume,
         CheckSignals, Cancel, UnlockOffset, SyscallReturn, MarkCurrentBlocked,
         MarkCurrentRunning, schedVars
<1> QED
  BY Zenon, <1>2, <1>3, <1>4, <1>5, <1>6, <1>7 DEF Next, Syscall, KernelStep

(* Whoever is inside on an end is the only one that can be on its queue. *)
LEMMA Alone ==
  ASSUME IInv, NEW e \in End, at[current] \in Inside \ {"lock"}, call[current].end = e
  PROVE  waiters[e] # <<>> => waiters[e] = <<pid[current]>> /\ at[current] \in Registered
<1>1. current \in Procs
  BY Zenon DEF IInv, InsideAreProcs, TypeOK, SchedTypeOK
<1>2. offset[e] = current
  BY <1>1 DEF IInv, OffsetLocked
<1>3. ASSUME NEW t \in Procs, at[t] \in Registered, call[t].end = e PROVE t = current
  <2>1. at[t] \in Inside \ {"lock"}
    BY Zenon, <1>3 DEF Registered, Inside
  <2> QED
    BY Zenon, <1>2, <1>3, <2>1 DEF IInv, OffsetLocked
<1> QED
  BY <1>3 DEF IInv, OneWaiter

(* What register leaves on the queue of the caller's end *)
LEMMA RegisterFacts ==
  ASSUME IInv, Register
  PROVE  /\ waiters' = [waiters EXCEPT ![call[current].end] = <<pid[current]>>]
         /\ current \in Procs
<1> DEFINE e == call[current].end
<1>1. /\ at[current] = "pipe" /\ currentPid = pid[current] /\ current \in Pcb /\ e \in End
      /\ waiters' = [waiters EXCEPT ![e] = AddWaiter(@, currentPid)]
  BY Zenon DEF Register, Step, At, IInv, Named, TypeOK, SchedTypeOK
<1>2. current \in Procs
  BY Zenon, <1>1 DEF IInv, InsideAreProcs, Inside
<1>3. waiters[e] = <<>> \/ waiters[e] = <<pid[current]>>
  BY Zenon, <1>1, Alone DEF Inside
<1>4. AddWaiter(waiters[e], currentPid) = <<pid[current]>>
  <2>1. AddWaiter(<<>>, currentPid) = <<currentPid>>
    BY DEF AddWaiter
  <2>2. AddWaiter(<<currentPid>>, currentPid) = <<currentPid>>
    BY DEF AddWaiter
  <2> QED
    BY Zenon, <1>1, <1>3, <2>1, <2>2
<1> QED
  BY Zenon, <1>1, <1>2, <1>4

(* Steps that leave the queues and the pipe alone *)
LEMMA QueuesKept ==
  ASSUME IInv, [Next]_vars, UNCHANGED <<waiters, len, open>>,
         (/\ at[current] \in Registered
          /\ waiters[call[current].end] # <<>>) =>
            at'[current] \in Registered /\ call'[current] = call[current]
  PROVE  OneWaiter'
<1> SUFFICES ASSUME NEW e \in End, waiters[e] # <<>>
             PROVE  /\ MustWait(e)'
                    /\ \E t \in Procs : /\ waiters[e] = <<pid'[t]>> /\ at'[t] \in Registered
                                        /\ call'[t].end = e
  BY Zenon DEF OneWaiter
<1>1. PICK t \in Procs : waiters[e] = <<pid[t]>> /\ at[t] \in Registered /\ call[t].end = e
  BY Zenon DEF IInv, OneWaiter
<1>2. at'[t] \in Registered /\ call'[t] = call[t]
  BY Zenon, <1>1, OthersStay, ProcsArePcbs DEF IInv
<1>3. MustWait(e)'
  BY Zenon DEF IInv, OneWaiter, MustWait
<1> QED
  BY Zenon, <1>1, <1>2, <1>3, NamedStep

LEMMA QueueStep ==
  ASSUME IInv, [Next]_vars
  PROVE  OneWaiter'
<1>0. /\ current \in Pcb /\ at \in [Pcb -> Label] /\ waiters \in [End -> Seq(Pid)]
      /\ call[current].end \in End /\ call[current].count \in Nat /\ len \in 0 .. Size
      /\ Size \in Nat \ {0} /\ open \in [End -> {0, 1}]
  <2>1. call[current] \in [end : End, count : Counts \cup {0}] /\ current \in Pcb
    BY Zenon DEF IInv, TypeOK, SchedTypeOK
  <2>2. Size \in Nat \ {0}
    BY Zenon, PipeAssumption
  <2>3. call[current].end \in End /\ call[current].count \in Counts \cup {0}
    BY Zenon, <2>1
  <2>4. call[current].end \in End /\ call[current].count \in Nat
    BY <2>3, CountsAreNat, Zenon
  <2> QED
    BY Zenon, <2>1, <2>2, <2>4 DEF IInv, TypeOK
<1> DEFINE e == call[current].end
<1>1. ASSUME waiters[e] # <<>> PROVE MustWait(e)
  BY Zenon, <1>0, <1>1 DEF IInv, OneWaiter
<1>2. CASE ReadEof \/ WriteEpipe
  BY <1>1, <1>2, QueuesKept DEF ReadEof, WriteEpipe, MustWait, pipeVars
<1>3. CASE \/ LockOffset \/ Mark \/ Wake \/ Unmark \/ Switch \/ Resume \/ CheckSignals
           \/ UnlockOffset \/ SyscallReturn \/ ExitSwitch \/ Exit \/ Tick \/ UNCHANGED vars
           \/ \E d \in End, n \in Counts : Call(d, n)
           \/ \E t \in Procs, kind \in Interrupts : Kill(t, kind)
  <2>1. UNCHANGED <<waiters, len, open>>
    BY Zenon, <1>3
       DEF LockOffset, Mark, Wake, Unmark, Switch, Resume, CheckSignals, UnlockOffset,
           SyscallReturn, ExitSwitch, Exit, Tick, Call, Kill, vars, pipeVars
  <2>2. at[current] \in Registered => at'[current] \in Registered /\ call' = call
    BY Zenon, <1>0, <1>3
       DEF LockOffset, Mark, Wake, Unmark, Switch, Resume, CheckSignals, UnlockOffset,
           SyscallReturn, ExitSwitch, Exit, Tick, Call, Kill, vars, procVars, Step, At, Goto, Registered
  <2> QED
    BY Zenon, <2>1, <2>2, QueuesKept
<1> HIDE DEF e
<1>4. ASSUME NEW d \in End, d # e, waiters'[d] = waiters[d], MustWait(d) => MustWait(d)',
             waiters'[d] # <<>>
      PROVE  /\ MustWait(d)'
             /\ \E t \in Procs : /\ waiters'[d] = <<pid'[t]>> /\ at'[t] \in Registered
                                 /\ call'[t].end = d
  <2>1. PICK t \in Procs : waiters[d] = <<pid[t]>> /\ at[t] \in Registered /\ call[t].end = d
    BY Zenon, <1>4 DEF IInv, OneWaiter
  <2>2. t # current
    BY Zenon, <1>4, <2>1 DEF e
  <2>3. at'[t] = at[t] /\ call'[t] = call[t]
    BY Zenon, <2>2, OthersStay, ProcsArePcbs DEF IInv
  <2>4. MustWait(d)'
    BY Zenon, <1>4 DEF IInv, OneWaiter
  <2> QED
    BY Zenon, <1>4, <2>1, <2>3, <2>4, NamedStep
<1>5. ASSUME waiters'[e] = <<>>,
             \A d \in End : d # e => \/ waiters'[d] = <<>>
                                     \/ waiters'[d] = waiters[d] /\ (MustWait(d) => MustWait(d)')
      PROVE  OneWaiter'
  BY Zenon, <1>4, <1>5 DEF OneWaiter
<1>6. CASE Register
  <2>1. /\ at'[current] = "switch" /\ call' = call
        /\ MustWait(e) /\ UNCHANGED <<len, open>>
    BY Zenon, <1>0, <1>6 DEF Register, Step, Goto, e
  <2>2. current \in Procs /\ waiters' = [waiters EXCEPT ![e] = <<pid[current]>>]
    BY Zenon, <1>6, RegisterFacts DEF e
  <2>3. waiters'[e] = <<pid'[current]>>
    BY Zenon, <1>0, <2>2, NamedStep DEF e
  <2>4. \A d \in End : d # e => waiters'[d] = waiters[d]
    BY Zenon, <1>0, <2>2
  <2>5. \A d \in End : MustWait(d)' <=> MustWait(d)
    BY Zenon, <2>1 DEF MustWait
  <2> QED
    BY <1>4, <2>1, <2>2, <2>3, <2>4, <2>5 DEF OneWaiter, Registered, e
<1>7. CASE Cancel
  <2>1. /\ at[current] = "cancel" /\ UNCHANGED <<len, open>>
        /\ waiters' = [waiters EXCEPT ![e] = RemoveWaiter(@, pid[current])]
    BY Zenon, <1>7 DEF Cancel, Step, At, e
  <2>2. waiters[e] = <<>> \/ waiters[e] = <<pid[current]>>
    BY Zenon, <1>0, <2>1, Alone DEF Inside, e
  <2>3. RemoveWaiter(<<>>, pid[current]) = <<>>
    BY DEF RemoveWaiter
  <2>4. RemoveWaiter(<<pid[current]>>, pid[current]) = <<>>
    <3> DEFINE q == <<pid[current]>>
    <3>1. Len(q) = 1 /\ q[1] = pid[current]
      BY Zenon
    <3>2. (CHOOSE i \in 1 .. Len(q) : q[i] = pid[current]) = 1
      BY <3>1
    <3>3. SubSeq(q, 1, 0) \o SubSeq(q, 2, 1) = <<>>
      OBVIOUS
    <3>4. \E i \in 1 .. Len(q) : q[i] = pid[current]
      BY <3>1
    <3> QED
      BY <3>1, <3>2, <3>3, <3>4 DEF RemoveWaiter
  <2>5. waiters'[e] = <<>>
    BY Zenon, <1>0, <2>1, <2>2, <2>3, <2>4 DEF e
  <2>6. \A d \in End : d # e => waiters'[d] = waiters[d]
    BY Zenon, <1>0, <2>1
  <2>7. \A d \in End : MustWait(d)' <=> MustWait(d)
    BY Zenon, <2>1 DEF MustWait
  <2> QED
    BY Zenon, <1>5, <2>5, <2>6, <2>7
<1>8. CASE ReadBytes
  <2> DEFINE n == Min(call[current].count, len)
  <2>1. /\ e = "r" /\ len > 0 /\ len' = len - n /\ open' = open
        /\ waiters' = [waiters EXCEPT !["w"] =
              IF len = Size /\ len - n < Size /\ waiters["w"] # <<>> THEN Tail(@) ELSE @]
    BY Zenon, <1>8 DEF ReadBytes, e
  <2>2. n \in 0 .. len
    <3>1. len \in Nat
      BY <1>0
    <3> QED
      BY <1>0, <3>1, MinFacts, Zenon
  <2>3. waiters["r"] = <<>>
    BY <1>0, <1>1, <2>1 DEF MustWait, e
  <2>4. waiters["w"] # <<>> => len = Size /\ \E t \in Procs : waiters["w"] = <<pid[t]>>
    BY Zenon DEF IInv, OneWaiter, MustWait, End
  <2> HIDE DEF n
  <2>5. waiters'["r"] = <<>>
    BY Zenon, <1>0, <2>1, <2>3 DEF End
  <2>6. waiters'["w"] = <<>> \/ (waiters'["w"] = waiters["w"] /\ (MustWait("w") => MustWait("w")'))
    <3>1. CASE waiters["w"] = <<>>
      BY Zenon, <1>0, <2>1, <3>1 DEF End
    <3>2. CASE waiters["w"] # <<>> /\ n > 0
      <4>1. waiters'["w"] = Tail(waiters["w"])
        BY <1>0, <2>1, <2>2, <2>4, <3>2 DEF End
      <4>2. PICK p : waiters["w"] = <<p>>
        BY Zenon, <2>4, <3>2
      <4> QED
        BY <4>1, <4>2
    <3>3. CASE waiters["w"] # <<>> /\ n = 0
      BY <1>0, <2>1, <2>2, <2>4, <3>3 DEF End, MustWait
    <3> QED
      BY <2>2, <3>1, <3>2, <3>3
  <2> QED
    BY Zenon, <1>5, <2>1, <2>5, <2>6 DEF End
<1>9. CASE WriteBytes
  <2> DEFINE n == Min(call[current].count, Size - len)
  <2>1. /\ e = "w" /\ len < Size /\ len' = len + n /\ open' = open
        /\ waiters' = [waiters EXCEPT !["r"] = IF len = 0 /\ n > 0 THEN <<>> ELSE @]
    BY Zenon, <1>9 DEF WriteBytes, e
  <2>2. n \in 0 .. (Size - len)
    <3>1. Size - len \in Nat
      BY <1>0
    <3> QED
      BY <1>0, <3>1, MinFacts, Zenon
  <2>3. waiters["w"] = <<>>
    BY <1>0, <1>1, <2>1 DEF MustWait, e
  <2>4. waiters["r"] # <<>> => len = 0
    BY Zenon DEF IInv, OneWaiter, MustWait, End
  <2> HIDE DEF n
  <2>5. waiters'["w"] = <<>>
    BY Zenon, <1>0, <2>1, <2>3 DEF End
  <2>6. waiters'["r"] = <<>> \/ (waiters'["r"] = waiters["r"] /\ (MustWait("r") => MustWait("r")'))
    BY <1>0, <2>1, <2>2, <2>4 DEF End, MustWait
  <2> QED
    BY Zenon, <1>5, <2>1, <2>5, <2>6 DEF End
<1>10. ASSUME NEW d \in End, Close(d) PROVE OneWaiter'
  <2>1. /\ at[current] = "user" /\ call' = call /\ len' = len
        /\ \/ UNCHANGED <<waiters, open>>
           \/ /\ waiters' = [waiters EXCEPT ![Other(d)] = <<>>]
              /\ open' = [open EXCEPT ![d] = 0]
    BY <1>0, <1>10, Zenon DEF Close, Step, At
  <2>2. CASE UNCHANGED <<waiters, open>>
    BY Zenon, <2>1, <2>2, QueuesKept DEF Registered
  <2>3. CASE /\ waiters' = [waiters EXCEPT ![Other(d)] = <<>>]
             /\ open' = [open EXCEPT ![d] = 0]
    <3>1. Other(d) \in End /\ \A f \in End : f = d \/ f = Other(d)
      BY Zenon DEF Other, End
    <3>2. waiters'[Other(d)] = <<>> /\ waiters'[d] = waiters[d]
      BY Zenon, <1>0, <2>3, <3>1 DEF Other, End
    <3>3. MustWait(d) => MustWait(d)'
      BY Zenon, <1>0, <2>1, <2>3 DEF MustWait, End
    <3>4. ASSUME waiters'[d] # <<>>
          PROVE  /\ MustWait(d)'
                 /\ \E t \in Procs : /\ waiters'[d] = <<pid'[t]>> /\ at'[t] \in Registered
                                     /\ call'[t].end = d
      <4>1. PICK t \in Procs : waiters[d] = <<pid[t]>> /\ at[t] \in Registered /\ call[t].end = d
        BY Zenon, <3>2, <3>4 DEF IInv, OneWaiter
      <4>2. t # current
        BY Zenon, <2>1, <4>1 DEF Registered
      <4>3. at'[t] = at[t]
        BY Zenon, <4>2, OthersStay, ProcsArePcbs DEF IInv
      <4> QED
        BY Zenon, <2>1, <3>2, <3>3, <3>4, <4>1, <4>3, NamedStep DEF IInv, OneWaiter
    <3> QED
      BY Zenon, <3>1, <3>2, <3>4 DEF OneWaiter
  <2> QED
    BY Zenon, <2>1, <2>2, <2>3
<1> QED
  BY Zenon, <1>2, <1>3, <1>6, <1>7, <1>8, <1>9, <1>10 DEF Next, Syscall, KernelStep

-----------------------------------------------------------------------------
(* A process is made Blocked by its own mark_current_blocked only, and the *)
(* end of its call undoes it.                                              *)
LEMMA BlockedCause ==
  ASSUME IInv, [Next]_vars, NEW t \in Pcb, state'[t] = "Blocked"
  PROVE  /\ state[t] = "Blocked" \/ (t = current /\ Mark)
         /\ ~(t = current /\ (Unmark \/ Resume))
<1>0. /\ SchedTypeOK /\ currentPid = pid[current]
      /\ waiters \in [End -> Seq(Pid)] /\ wakes \in [Pcb -> Seq(Pid)] /\ current \in Pcb
  BY Zenon DEF IInv, TypeOK, SchedTypeOK, Named
<1> DEFINE Caused == state[t] = "Blocked" \/ (t = current /\ Mark)
<1>1. ASSUME SwitchOutCurrent \/ TimerTickSchedule PROVE Caused
  BY Zenon, <1>0, <1>1, SwitchFacts
<1>2. ASSUME Wake PROVE Caused
  <2>1. wakes[current] = <<>> \/ \E p \in Pid : wakes[current] = <<p>>
    BY Zenon, <1>0 DEF IInv, OneWoken, Named
  <2> QED
    BY <1>0, <1>2, <2>1, WakeFacts, Zenon DEF Wake
<1>3. ASSUME NEW e \in End, Close(e) PROVE state[t] = "Blocked"
  <2>1. waiters[Other(e)] = <<>> \/ \E p \in Pid : waiters[Other(e)] = <<p>>
    BY Zenon DEF IInv, OneWaiter, Named, Other, End
  <2>2. waiters[Other(e)] \in Seq(Pid) /\ <<>> \in Seq(Pid)
    BY <1>0 DEF Other, End
  <2>3. state' = state \/ \E q \in {waiters[Other(e)], <<>>} : WakeTasks(q)
    BY Zenon, <1>3 DEF Close, schedVars
  <2> QED
    BY <1>0, <2>1, <2>2, <2>3, WakeFacts, Zenon
<1>4. ASSUME NEW u \in Procs, NEW kind \in Interrupts, Kill(u, kind) PROVE state[t] = "Blocked"
  BY Zenon, <1>0, <1>4 DEF Kill, WakeTask, SchedTypeOK
<1>5. ASSUME Unmark \/ Resume PROVE state[t] = "Blocked" /\ t # current
  BY Zenon, <1>0, <1>5 DEF Unmark, Resume, MarkCurrentRunning, SchedTypeOK
<1>6. ASSUME Mark \/ Exit PROVE Caused
  BY Zenon, <1>0, <1>6 DEF Mark, MarkCurrentBlocked, Exit, SchedTypeOK
<1>7. ASSUME UNCHANGED state PROVE Caused
  BY Zenon, <1>7
<1>8. Caused
  <2> HIDE DEF Caused
  <2>1. state[t] = "Blocked" => Caused
    BY Zenon DEF Caused
  <2> QED
    BY <1>1, <1>2, <1>3, <1>4, <1>5, <1>6, <1>7, <2>1, Zenon
       DEF Next, Syscall, Call, KernelStep, LockOffset, ReadEof, WriteEpipe, Register, ReadBytes,
           WriteBytes, Switch, CheckSignals, Cancel, UnlockOffset, SyscallReturn, ExitSwitch,
           Tick, vars, schedVars
<1> QED
  BY Zenon, <1>5, <1>8

LEMMA WaitsIs ==
  ASSUME IInv, NEW t \in Procs, NEW e \in End
  PROVE  Waits(t, e) <=> waiters[e] = <<pid[t]>>
<1>1. ASSUME Waits(t, e) PROVE waiters[e] = <<pid[t]>>
  <2>1. PICK i \in 1 .. Len(waiters[e]) : waiters[e][i] = pid[t]
    BY Zenon, <1>1 DEF Waits
  <2>2. waiters[e] # <<>>
    BY <2>1
  <2>3. PICK u \in Procs : waiters[e] = <<pid[u]>>
    BY Zenon, <2>2 DEF IInv, OneWaiter
  <2> QED
    BY <2>1, <2>3
<1>2. ASSUME waiters[e] = <<pid[t]>> PROVE Waits(t, e)
  BY <1>2 DEF Waits
<1> QED
  BY Zenon, <1>1, <1>2

LEMMA WokenIs ==
  ASSUME IInv, NEW t \in Procs
  PROVE  ToBeWoken(t) <=> \E u \in Procs : at[u] = "wake" /\ wakes[u] = <<pid[t]>>
<1>1. ASSUME NEW u \in Procs, NEW i \in 1 .. Len(wakes[u]), wakes[u][i] = pid[t]
      PROVE  wakes[u] = <<pid[t]>>
  <2>1. wakes[u] # <<>>
    BY <1>1
  <2>2. PICK v \in Procs : wakes[u] = <<pid[v]>>
    BY Zenon, <2>1, ProcsArePcbs DEF IInv, OneWoken
  <2> QED
    BY <1>1, <2>2
<1>2. ASSUME NEW u \in Procs, wakes[u] = <<pid[t]>>
      PROVE  \E i \in 1 .. Len(wakes[u]) : wakes[u][i] = pid[t]
  BY <1>2
<1> QED
  BY Zenon, <1>1, <1>2 DEF ToBeWoken

(* Whoever is to be woken was on the other end's queue. *)
LEMMA WokenStep ==
  ASSUME IInv, [Next]_vars
  PROVE  OneWoken'
<1>0. /\ current \in Pcb /\ at \in [Pcb -> Label] /\ wakes \in [Pcb -> Seq(Pid)]
  BY Zenon DEF IInv, TypeOK, SchedTypeOK
<1>1. \A e \in End : waiters[e] # <<>> => \E u \in Procs : waiters[e] = <<pid[u]>>
  BY Zenon DEF IInv, OneWaiter
<1>2. ASSUME wakes'[current] = <<>> \/ (/\ at'[current] = "wake"
                                        /\ \E u \in Procs : wakes'[current] = <<pid[u]>>)
      PROVE  OneWoken'
  BY SMTT(30), <1>0, <1>2, OthersStay, NamedStep DEF IInv, OneWoken
<1>3. CASE ReadBytes
  <2>1. /\ at'[current] = "wake"
        /\ \/ wakes'[current] = <<>>
           \/ waiters["w"] # <<>> /\ wakes'[current] = <<Head(waiters["w"])>>
    BY Zenon, <1>0, <1>3 DEF ReadBytes, Step, Goto
  <2>2. \A u \in Procs : Head(<<pid[u]>>) = pid[u]
    OBVIOUS
  <2> QED
    BY Zenon, <1>1, <1>2, <2>1, <2>2 DEF End
<1>4. CASE WriteBytes
  <2>1. /\ at'[current] = "wake"
        /\ wakes'[current] = <<>> \/ wakes'[current] = waiters["r"]
    BY Zenon, <1>0, <1>4 DEF WriteBytes, Step, Goto
  <2> QED
    BY Zenon, <1>1, <1>2, <2>1 DEF End
<1>5. CASE Wake
  BY Zenon, <1>0, <1>2, <1>5 DEF Wake
<1>6. CASE wakes' = wakes /\ (at[current] = "wake" => at'[current] = "wake")
  BY Zenon, <1>2, <1>6, <1>0 DEF IInv, OneWoken
<1> QED
  BY <1>0, <1>3, <1>4, <1>5, <1>6, Zenon
     DEF Next, Syscall, Call, Close, Kill, Exit, KernelStep, LockOffset, Mark, ReadEof,
         WriteEpipe, Register, Unmark, Switch, Resume, CheckSignals, Cancel, UnlockOffset,
         SyscallReturn, ExitSwitch, Tick, Step, At, vars, procVars

-----------------------------------------------------------------------------
(* What a list of one pid holds, and an empty one. *)
LEMMA OnlyOne ==
  ASSUME NEW x
  PROVE  /\ \E i \in 1 .. Len(<<x>>) : <<x>>[i] = x
         /\ \A i \in 1 .. Len(<<x>>) : <<x>>[i] = x
<1>1. Len(<<x>>) = 1 /\ <<x>>[1] = x
  BY Zenon
<1>2. 1 .. 1 = {1}
  OBVIOUS
<1> QED
  BY <1>1, <1>2, Zenon

LEMMA NoneIn == 1 .. Len(<<>>) = {}
BY SMTT(30)

(* A process that stays Blocked stays on its queue, or goes from there     *)
(* into the list of whoever will wake it.                                  *)
LEMMA SleepGoesOn ==
  ASSUME IInv, [Next]_vars, NEW t \in Procs, state[t] = "Blocked", state'[t] = "Blocked",
         at[t] \in {"switch", "resume"}, call'[t] = call[t],
         Waits(t, call[t].end) \/ ToBeWoken(t)
  PROVE  Waits(t, call[t].end)' \/ ToBeWoken(t)'
<1> DEFINE e == call[t].end
<1>0. /\ current \in Pcb /\ at \in [Pcb -> Label] /\ wakes \in [Pcb -> Seq(Pid)]
      /\ waiters \in [End -> Seq(Pid)] /\ SchedTypeOK /\ t \in Pcb /\ t # NoPcb /\ e \in End
      /\ pid' = pid /\ pid[t] \in Pid /\ table[pid[t]] = t
      /\ at[t] \in Inside \ {"lock"} /\ at[t] \in Registered
  BY Zenon, ProcsArePcbs, NamedStep DEF IInv, TypeOK, SchedTypeOK, Named, Inside, Registered
<1> HIDE DEF e
<1>1. ASSUME waiters'[e] = <<pid[t]>> PROVE Waits(t, call[t].end)'
  <2>1. call'[t].end = e /\ pid'[t] = pid[t]
    BY <1>0, Zenon DEF e
  <2>2. \E i \in 1 .. Len(waiters'[e]) : waiters'[e][i] = pid[t]
    <3> DEFINE q == waiters'[e]
               x == pid[t]
    <3>1. q = <<x>>
      BY Zenon, <1>1
    <3> HIDE DEF q, x
    <3>2. \E i \in 1 .. Len(q) : q[i] = x
      BY <3>1, OnlyOne, Zenon
    <3> QED
      BY <3>2, Zenon DEF q, x
  <2> QED
    BY <2>1, <2>2, Zenon DEF Waits
<1>2. ASSUME NEW u \in Procs, at'[u] = "wake", wakes'[u] = <<pid[t]>> PROVE ToBeWoken(t)'
  <2>1. 1 \in 1 .. Len(wakes'[u]) /\ wakes'[u][1] = pid'[t]
    BY <1>0, <1>2
  <2> QED
    BY <1>2, <2>1, Zenon DEF ToBeWoken
<1>3. ASSUME NEW q \in Seq(Pid), WakeTasks(q), q = <<pid[t]>> PROVE FALSE
  BY <1>0, <1>3, WakeFacts, Zenon
<1>4. ASSUME current # t, at[current] \in Inside \ {"lock"} PROVE call[current].end # e
  <2>1. current \in Procs
    BY Zenon, <1>0, <1>4 DEF IInv, InsideAreProcs
  <2> QED
    <3>1. offset[e] = t
      BY Zenon, <1>0 DEF IInv, OffsetLocked, e
    <3> QED
      BY Zenon, <1>0, <1>4, <2>1, <3>1 DEF IInv, OffsetLocked
<1>5. CASE ToBeWoken(t)
  <2>1. PICK u \in Procs : at[u] = "wake" /\ wakes[u] = <<pid[t]>>
    BY <1>5, WokenIs, Zenon
  <2>2. CASE u # current
    BY <1>2, <2>1, <2>2, OthersStay, ProcsArePcbs, Zenon DEF IInv
  <2>3. CASE u = current
    <3>1. Wake \/ ExitSwitch \/ Tick \/ UNCHANGED vars
      BY <2>1, <2>3, Zenon
         DEF Next, Syscall, Call, Close, Kill, Exit, KernelStep, LockOffset, Mark, ReadEof,
             WriteEpipe, Register, ReadBytes, WriteBytes, Unmark, Switch, Resume, CheckSignals,
             Cancel, UnlockOffset, SyscallReturn, Step, At
    <3>2. ~Wake
      BY <1>0, <1>3, <2>1, <2>3, Zenon DEF Wake
    <3> QED
      BY Zenon, <1>2, <2>1, <2>3, <3>1, <3>2 DEF ExitSwitch, Tick, vars, procVars
  <2> QED
    BY Zenon, <2>2, <2>3
<1>6. CASE waiters[e] = <<pid[t]>>
  <2>1. CASE UNCHANGED waiters
    BY <1>1, <1>6, <2>1, Zenon
  <2>2. CASE Register
    <3>1. current # t /\ at[current] \in Inside \ {"lock"}
      BY <2>2, Zenon DEF Register, Step, At, Inside
    <3>2. waiters'[e] = waiters[e]
      BY <1>0, <1>4, <2>2, <3>1, Zenon DEF Register
    <3> QED
      BY <1>1, <1>6, <3>2, Zenon
  <2>3. CASE Cancel
    <3>1. current # t /\ at[current] \in Inside \ {"lock"}
      BY <2>3, Zenon DEF Cancel, Step, At, Inside
    <3>2. waiters'[e] = waiters[e]
      BY <1>0, <1>4, <2>3, <3>1, Zenon DEF Cancel
    <3> QED
      BY Zenon, <1>1, <1>6, <3>2
  <2>4. CASE ReadBytes \/ WriteBytes
    <3>1. current \in Procs /\ at'[current] = "wake"
      BY <1>0, <2>4, Zenon DEF ReadBytes, WriteBytes, Step, At, Goto, IInv, InsideAreProcs, Inside
    <3>2. \/ waiters'[e] = waiters[e]
          \/ waiters[e] # <<>> /\ wakes'[current] = <<Head(waiters[e])>>
          \/ wakes'[current] = waiters[e]
      <4>1. CASE ReadBytes
        BY <1>0, <4>1, Zenon DEF ReadBytes, End
      <4>2. CASE WriteBytes
        BY <1>0, <4>2, Zenon DEF WriteBytes, End
      <4> QED
        BY <2>4, <4>1, <4>2, Zenon
    <3>3. Head(<<pid[t]>>) = pid[t]
      OBVIOUS
    <3>4. waiters'[e] = <<pid[t]>> \/ wakes'[current] = <<pid[t]>>
      BY <1>6, <3>2, <3>3, Zenon
    <3> QED
      BY <1>1, <1>2, <3>1, <3>4, Zenon
  <2>5. ASSUME NEW d \in End, Close(d), waiters' # waiters PROVE waiters'[e] = <<pid[t]>>
    <3>1. /\ waiters' = [waiters EXCEPT ![Other(d)] = <<>>]
          /\ \/ WakeTasks(waiters[Other(d)])
             \/ \E i \in 1 .. Len(waiters[Other(d)]) : table[waiters[Other(d)][i]] = current
          /\ at[current] = "user"
      BY <1>0, <2>5, Zenon DEF Close, Step, At
    <3>2. CASE e = Other(d)
      <4>1. ~\E i \in 1 .. Len(waiters[e]) : table[waiters[e][i]] = current
        <5>1. t # current
          BY <3>1, Zenon
        <5>2. \A i \in 1 .. Len(waiters[e]) : waiters[e][i] = pid[t]
          <6> DEFINE q == waiters[e]
                     x == pid[t]
          <6>1. q = <<x>>
            BY <1>6, Zenon
          <6> HIDE DEF q, x
          <6>2. \A i \in 1 .. Len(q) : q[i] = x
            BY <6>1, OnlyOne, Zenon
          <6> QED
            BY <6>2, Zenon DEF q, x
        <5> QED
          BY <1>0, <5>1, <5>2, Zenon
      <4> QED
        BY <1>0, <1>3, <1>6, <3>1, <3>2, <4>1, Zenon
    <3>3. CASE e # Other(d)
      BY <1>0, <1>6, <3>1, <3>3, Zenon
    <3> QED
      BY <3>2, <3>3, Zenon
  <2> QED
    BY <1>1, <2>1, <2>2, <2>3, <2>4, <2>5, Zenon
       DEF Next, Syscall, Call, Kill, Exit, KernelStep, LockOffset, Mark, ReadEof, WriteEpipe,
           Wake, Unmark, Switch, Resume, CheckSignals, UnlockOffset, SyscallReturn, ExitSwitch,
           Tick, vars, pipeVars
<1> QED
  BY Zenon, <1>0, <1>5, <1>6, WaitsIs DEF e

(* Nobody goes to sleep unregistered, and nobody is forgotten. *)
LEMMA SleeperStep ==
  ASSUME IInv, [Next]_vars
  PROVE  SleeperSafe'
<1> SUFFICES ASSUME NEW t \in Procs, state'[t] = "Blocked", at'[t] \in {"switch", "resume"}
             PROVE  Waits(t, call[t].end)' \/ ToBeWoken(t)'
  BY Zenon DEF SleeperSafe
<1>0. /\ current \in Pcb /\ at \in [Pcb -> Label] /\ waiters \in [End -> Seq(Pid)]
      /\ t \in Pcb /\ pid' = pid /\ call[t].end \in End
  BY ProcsArePcbs, NamedStep, Zenon DEF IInv, TypeOK, SchedTypeOK
<1>1. state[t] = "Blocked"
  BY Zenon, <1>0, BlockedCause DEF Mark, Step, Goto
<1>2. CASE at[t] \in {"switch", "resume"} /\ call'[t] = call[t]
  BY <1>1, <1>2, SleepGoesOn, Zenon DEF IInv, SleeperSafe
<1>3. CASE t = current /\ Register
  <2>1. call' = call /\ waiters'[call[t].end] = <<pid'[t]>>
    BY <1>0, <1>3, RegisterFacts, Zenon DEF Register
  <2> QED
    BY <2>1 DEF Waits
<1>4. CASE t # current
  BY Zenon, <1>0, <1>2, <1>4, OthersStay DEF IInv
<1>5. CASE t = current /\ ~Register
  <2>1. at[t] \in {"switch", "resume"} /\ call'[t] = call[t]
    BY <1>0, <1>5, Zenon
       DEF Next, Syscall, Call, Close, Kill, Exit, KernelStep, LockOffset, Mark, ReadEof,
           WriteEpipe, ReadBytes, WriteBytes, Wake, Unmark, Switch, Resume, CheckSignals, Cancel,
           UnlockOffset, SyscallReturn, ExitSwitch, Tick, Step, At, Goto, vars, procVars
  <2> QED
    BY Zenon, <1>2, <2>1
<1> QED
  BY Zenon, <1>3, <1>4, <1>5

LEMMA BlockedStep ==
  ASSUME IInv, [Next]_vars, SleeperSafe'
  PROVE  BlockedBelongs'
<1>0. /\ current \in Pcb /\ at \in [Pcb -> Label] /\ open \in [End -> {0, 1}]
  BY Zenon DEF IInv, TypeOK, SchedTypeOK
<1>1. \A e \in End : open[e] = 0 => open'[e] = 0
  <2>1. UNCHANGED open \/ \E d \in End : open' = [open EXCEPT ![d] = 0]
    BY <1>0, Zenon
       DEF Next, Syscall, Call, Close, Kill, Exit, KernelStep, LockOffset, Mark, ReadEof,
           WriteEpipe, Register, ReadBytes, WriteBytes, Wake, Unmark, Switch, Resume,
           CheckSignals, Cancel, UnlockOffset, SyscallReturn, ExitSwitch, Tick, vars, pipeVars
  <2> QED
    BY Zenon, <1>0, <2>1
<1> SUFFICES ASSUME NEW t \in Procs, state'[t] = "Blocked", \A e \in End : open[e] # 0
             PROVE  at'[t] \in {"pipe", "wake", "unmark", "switch", "resume"}
  BY Zenon, <1>1 DEF BlockedBelongs, SleeperSafe
<1>2. t \in Pcb
  BY Zenon, ProcsArePcbs
<1>3. CASE t = current /\ Mark
  BY Zenon, <1>0, <1>3 DEF Mark, Step, Goto
<1>4. CASE state[t] = "Blocked" /\ t # current
  BY Zenon, <1>2, <1>4, OthersStay DEF IInv, BlockedBelongs
<1>5. CASE state[t] = "Blocked" /\ t = current
  <2>1. at[t] \in {"pipe", "wake", "unmark", "switch", "resume"}
    BY <1>5, Zenon DEF IInv, BlockedBelongs
  <2>2. ~Unmark /\ ~Resume
    BY Zenon, <1>2, <1>5, BlockedCause
  <2> QED
    BY <1>0, <1>5, <2>1, <2>2, Zenon
       DEF End, Next, Syscall, Call, Close, Kill, Exit, KernelStep, LockOffset, Mark, ReadEof,
           WriteEpipe, Register, ReadBytes, WriteBytes, Wake, Switch, CheckSignals, Cancel,
           UnlockOffset, SyscallReturn, ExitSwitch, Tick, Step, At, Goto, vars, procVars
<1> QED
  BY Zenon, <1>2, <1>3, <1>4, <1>5, BlockedCause

-----------------------------------------------------------------------------
LEMMA PipeSchedTyped ==
  ASSUME IInv, [Next]_vars
  PROVE  SchedTypeOK'
<1>0. /\ SchedTypeOK /\ current \in Pcb /\ wakes \in [Pcb -> Seq(Pid)]
      /\ waiters \in [End -> Seq(Pid)] /\ \A t \in Procs : pid[t] \in Pid
      /\ currentPid = pid[current]
  BY Zenon DEF IInv, TypeOK, SchedTypeOK, Named
<1>1. CASE Wake
  <2>1. wakes[current] = <<>> \/ \E p \in Pid : wakes[current] = <<p>>
    BY <1>0, Zenon DEF IInv, OneWoken
  <2> QED
    BY <1>0, <1>1, <2>1, WakeFacts, Zenon DEF Wake
<1>2. ASSUME NEW e \in End, Close(e) PROVE SchedTypeOK'
  <2>1. waiters[Other(e)] = <<>> \/ \E p \in Pid : waiters[Other(e)] = <<p>>
    BY Zenon, <1>0 DEF IInv, OneWaiter, Other, End
  <2>2. waiters[Other(e)] \in Seq(Pid) /\ <<>> \in Seq(Pid)
    BY <1>0 DEF Other, End
  <2>3. UNCHANGED schedVars \/ \E q \in {waiters[Other(e)], <<>>} : WakeTasks(q)
    BY Zenon, <1>2 DEF Close
  <2> QED
    BY <1>0, <2>1, <2>2, <2>3, SchedTyped, WakeFacts, Zenon
<1>3. CASE Exit
  BY Zenon, <1>0, <1>3 DEF Exit, SchedTypeOK, ProcessState
<1>4. CASE ~Wake /\ ~Exit /\ ~\E e \in End : Close(e)
  BY <1>0, <1>4, SchedTyped, Zenon
     DEF Next, Syscall, Call, Kill, KernelStep, LockOffset, Mark, ReadEof, WriteEpipe, Register,
         ReadBytes, WriteBytes, Unmark, Switch, Resume, CheckSignals, Cancel, UnlockOffset,
         SyscallReturn, ExitSwitch, Tick, vars
<1> QED
  BY Zenon, <1>1, <1>2, <1>3, <1>4

LEMMA OneIsSeq == <<>> \in Seq(Pid) /\ \A p \in Pid : <<p>> \in Seq(Pid)
OBVIOUS

LEMMA TypeStep ==
  ASSUME IInv, [Next]_vars, OneWaiter', OneWoken'
  PROVE  TypeOK'
<1>0. /\ TypeOK /\ current \in Pcb /\ currentPid \in Pid /\ SchedTypeOK
      /\ call[current] \in [end : End, count : Counts \cup {0}] /\ Size \in Nat \ {0}
      /\ \A t \in Procs : pid'[t] \in Pid
  BY Zenon, PipeAssumption, NamedStep DEF IInv, TypeOK, SchedTypeOK, Named
<1>1. SchedTypeOK'
  BY Zenon, PipeSchedTyped
<1>2. len' \in 0 .. Size
  <2>1. call[current].count \in Nat
    BY Zenon, <1>0, CountsAreNat
  <2>2. CASE ReadBytes
    <3>1. len \in Nat /\ len <= Size
      BY <1>0 DEF TypeOK
    <3>2. Min(call[current].count, len) \in 0 .. len
      BY <2>1, <3>1, MinFacts, Zenon
    <3> QED
      <4>1. len' = len - Min(call[current].count, len)
        BY <2>2, Zenon DEF ReadBytes
      <4> QED
        BY <1>0, <3>1, <3>2, <4>1
  <2>3. CASE WriteBytes
    <3>1. Size - len \in Nat /\ len \in Nat
      BY <1>0 DEF TypeOK
    <3>2. Min(call[current].count, Size - len) \in 0 .. (Size - len)
      BY <2>1, <3>1, MinFacts, Zenon
    <3> QED
      <4>1. len' = len + Min(call[current].count, Size - len)
        BY Zenon, <2>3 DEF WriteBytes
      <4> QED
        BY <1>0, <3>1, <3>2, <4>1
  <2>4. CASE ~ReadBytes /\ ~WriteBytes
    BY <1>0, <2>4, Zenon
       DEF TypeOK, Next, Syscall, Call, Close, Kill, Exit, KernelStep, LockOffset, Mark, ReadEof,
           WriteEpipe, Register, Wake, Unmark, Switch, Resume, CheckSignals, Cancel,
           UnlockOffset, SyscallReturn, ExitSwitch, Tick, vars, pipeVars
  <2> QED
    BY Zenon, <2>2, <2>3, <2>4
<1>3. open' \in [End -> {0, 1}] /\ holders' \in [End -> SUBSET Procs]
      /\ offset' \in [End -> Procs \cup {NoPcb}]
  <2>1. CASE LockOffset
    <3>1. current \in Procs
      BY <1>0, <2>1, Zenon DEF LockOffset, Step, At, IInv, InsideAreProcs, Inside
    <3> QED
      BY Zenon, <1>0, <2>1, <3>1 DEF LockOffset, TypeOK
  <2>2. CASE UnlockOffset
    BY Zenon, <1>0, <2>2 DEF UnlockOffset, TypeOK
  <2>3. ASSUME NEW e \in End, Close(e)
        PROVE  /\ open' \in [End -> {0, 1}] /\ holders' \in [End -> SUBSET Procs]
               /\ offset' \in [End -> Procs \cup {NoPcb}]
    <3>1. /\ open \in [End -> {0, 1}] /\ holders \in [End -> SUBSET Procs]
          /\ offset \in [End -> Procs \cup {NoPcb}]
      BY Zenon, <1>0 DEF TypeOK
    <3>2. open' \in [End -> {0, 1}]
      BY Zenon, <2>3, <3>1 DEF Close
    <3>3. holders' \in [End -> SUBSET Procs]
      BY Zenon, <2>3, <3>1 DEF Close
    <3>4. offset' = offset
      BY Zenon, <2>3 DEF Close
    <3> QED
      BY Zenon, <3>1, <3>2, <3>3, <3>4
  <2>4. CASE UNCHANGED <<open, holders, offset>>
    BY Zenon, <1>0, <2>4 DEF TypeOK
  <2> QED
    BY <2>1, <2>2, <2>3, <2>4, Zenon
       DEF Next, Syscall, Call, Kill, Exit, KernelStep, Mark, ReadEof, WriteEpipe, Register,
           ReadBytes, WriteBytes, Wake, Unmark, Switch, Resume, CheckSignals, Cancel,
           SyscallReturn, ExitSwitch, Tick, vars, pipeVars
<1>4. at' \in [Pcb -> Label]
  <2>1. UNCHANGED at \/ \E to \in Label : Goto(to)
    BY Zenon DEF Next, Syscall, Call, Close, Kill, Exit, KernelStep, LockOffset, Mark, ReadEof,
           WriteEpipe, Register, ReadBytes, WriteBytes, Wake, Unmark, Switch, Resume,
           CheckSignals, Cancel, UnlockOffset, SyscallReturn, ExitSwitch, Tick, Step,
           vars, procVars, Label, Inside
  <2> QED
    BY <1>0, <2>1, Zenon DEF Goto, TypeOK
<1>5. call' \in [Pcb -> [end : End, count : Counts \cup {0}]]
  <2>1. \/ UNCHANGED call
        \/ \E c \in [end : End, count : Counts \cup {0}] : call' = [call EXCEPT ![current] = c]
    <3>1. NoCall \in [end : End, count : Counts \cup {0}]
      BY Zenon DEF NoCall, End
    <3>2. \A e \in End, n \in Counts : [end |-> e, count |-> n] \in [end : End, count : Counts \cup {0}]
      BY Zenon
    <3> QED
      BY <3>1, <3>2, Zenon
         DEF Next, Syscall, Call, Close, Kill, Exit, KernelStep, LockOffset, Mark, ReadEof,
             WriteEpipe, Register, ReadBytes, WriteBytes, Wake, Unmark, Switch, Resume,
             CheckSignals, Cancel, UnlockOffset, SyscallReturn, ExitSwitch, Tick, vars, procVars
  <2> QED
    BY <1>0, <2>1, Zenon DEF TypeOK
<1>6. pending' \subseteq Pid /\ intr' \in BOOLEAN
  <2>1. /\ UNCHANGED intr \/ intr' \in BOOLEAN
        /\ \/ pending' \subseteq pending
           \/ \E t \in Procs : pending' = pending \cup {pid[t]}
    BY Zenon DEF Next, Syscall, Call, Close, Kill, Exit, KernelStep, LockOffset, Mark, ReadEof,
           WriteEpipe, Register, ReadBytes, WriteBytes, Wake, Unmark, Switch, Resume,
           CheckSignals, Cancel, UnlockOffset, SyscallReturn, ExitSwitch, Tick, vars, procVars
  <2> QED
    BY <1>0, <2>1, Zenon DEF TypeOK, IInv, Named
<1>7. waiters' \in [End -> Seq(Pid)]
  <2>1. \A e \in End : waiters'[e] \in Seq(Pid)
    <3>1. \A e \in End : waiters'[e] = <<>> \/ \E t \in Procs : waiters'[e] = <<pid'[t]>>
      BY Zenon DEF OneWaiter
    <3> QED
      BY <1>0, <3>1, OneIsSeq, Zenon
  <2>2. DOMAIN waiters' = End /\ waiters' = [e \in DOMAIN waiters' |-> waiters'[e]]
    BY <1>0, Zenon
       DEF TypeOK, Next, Syscall, Call, Close, Kill, Exit, KernelStep, LockOffset, Mark, ReadEof,
           WriteEpipe, Register, ReadBytes, WriteBytes, Wake, Unmark, Switch, Resume,
           CheckSignals, Cancel, UnlockOffset, SyscallReturn, ExitSwitch, Tick, vars, pipeVars
  <2> QED
    BY Zenon, <2>1, <2>2
<1>8. wakes' \in [Pcb -> Seq(Pid)]
  <2>1. \A t \in Pcb : wakes'[t] \in Seq(Pid)
    <3>1. \A t \in Pcb : wakes'[t] = <<>> \/ \E u \in Procs : wakes'[t] = <<pid'[u]>>
      BY Zenon DEF OneWoken
    <3> QED
      BY <1>0, <3>1, OneIsSeq, Zenon
  <2>2. DOMAIN wakes' = Pcb /\ wakes' = [t \in DOMAIN wakes' |-> wakes'[t]]
    BY <1>0, Zenon
       DEF TypeOK, Next, Syscall, Call, Close, Kill, Exit, KernelStep, LockOffset, Mark, ReadEof,
           WriteEpipe, Register, ReadBytes, WriteBytes, Wake, Unmark, Switch, Resume,
           CheckSignals, Cancel, UnlockOffset, SyscallReturn, ExitSwitch, Tick, vars, procVars
  <2> QED
    BY Zenon, <2>1, <2>2
<1> QED
  BY <1>1, <1>2, <1>3, <1>4, <1>5, <1>6, <1>7, <1>8, Zenon DEF TypeOK

(* sys_close never finds its caller among the waiters it wakes. *)
LEMMA NeverStuck ==
  ASSUME IInv, [Next]_vars, NEW t \in Procs
  PROVE  at'[t] # "stuck"
<1>0. current \in Pcb /\ at \in [Pcb -> Label] /\ t \in Pcb /\ at[t] # "stuck"
  BY Zenon, ProcsArePcbs DEF IInv, TypeOK, SchedTypeOK
<1>1. CASE t # current
  BY Zenon, <1>0, <1>1, OthersStay DEF IInv
<1>2. ASSUME t = current, NEW e \in End, Close(e) PROVE at'[t] # "stuck"
  <2>1. ~\E i \in 1 .. Len(waiters[Other(e)]) : table[waiters[Other(e)][i]] = current
    <3>1. CASE waiters[Other(e)] = <<>>
      BY <3>1
    <3>2. CASE waiters[Other(e)] # <<>>
      <4>1. PICK u \in Procs : waiters[Other(e)] = <<pid[u]>> /\ at[u] \in Registered
        BY <3>2, Zenon DEF IInv, OneWaiter, Other, End
      <4>2. table[pid[u]] = u /\ u # current
        BY Zenon, <1>2, <4>1 DEF IInv, Named, Registered, Close, Step, At
      <4> QED
        BY <4>1, <4>2
    <3> QED
      BY Zenon, <3>1, <3>2
  <2>2. ~\E i \in 1 .. Len(<<>>) : table[<<>>[i]] = current
    OBVIOUS
  <2>3. Goto("ret")
    BY Zenon, <1>2, <2>1, <2>2 DEF Close, Step
  <2> QED
    BY Zenon, <1>0, <1>2, <2>3 DEF Goto
<1>3. CASE t = current /\ ~\E e \in End : Close(e)
  BY <1>0, <1>3, Zenon
     DEF Next, Syscall, Call, Kill, Exit, KernelStep, LockOffset, Mark, ReadEof, WriteEpipe,
         Register, ReadBytes, WriteBytes, Wake, Unmark, Switch, Resume, CheckSignals, Cancel,
         UnlockOffset, SyscallReturn, ExitSwitch, Tick, Step, Goto, vars, procVars
<1> QED
  BY Zenon, <1>1, <1>2, <1>3

-----------------------------------------------------------------------------
LEMMA PipeInit == Init => IInv
<1> SUFFICES ASSUME Init PROVE IInv
  BY Zenon
<1> DEFINE n == Len(Forked)
<1>0. /\ Forked \in Seq(Pcb) /\ Forked # <<>> /\ n \in Nat /\ n >= 1 /\ n <= MaxPid
      /\ MaxPid \in Nat /\ Forked[1] \in Procs /\ Tail(Forked) \in Seq(Pcb) /\ Forked[1] \in Pcb
      /\ \A i \in 1 .. n : Forked[i] \in Pcb \ {Idle, BootInit}
  BY SMTT(30), PipeAssumption, PidAssumption DEF Procs
<1>1. ASSUME NEW t \in Procs
      PROVE  pid[t] \in 1 .. n /\ Forked[pid[t]] = t
  <2>1. \E i \in 1 .. n : Forked[i] = t
    BY Zenon DEF Procs
  <2>2. pid[t] = CHOOSE i \in 1 .. n : Forked[i] = t
    BY Zenon, ProcsArePcbs DEF Init
  <2> QED
    BY Zenon, <2>1, <2>2
<1>2. \A i \in 1 .. n : i \in Pid
  BY <1>0 DEF Pid
<1>3. SchedTypeOK
  <2>1. pid \in [Pcb -> Pid]
    <3>1. 0 \in Pid
      BY <1>0 DEF Pid
    <3>2. \A t \in Pcb : pid[t] \in Pid
      BY <1>1, <1>2, <3>1, Zenon DEF Init
    <3> QED
      BY Zenon, <3>2 DEF Init
  <2>2. table \in [Pid -> Pcb \cup {NoPcb}]
    BY Zenon, <1>0, PcbAssumption DEF Init
  <2>3. state \in [Pcb -> ProcessState \cup {"Free"}]
    BY Zenon DEF Init, ProcessState
  <2>4. currentPid \in Pid
    BY <1>0 DEF Init, Pid
  <2> QED
    BY Zenon, <1>0, <2>1, <2>2, <2>3, <2>4 DEF Init, SchedTypeOK
<1>4. TypeOK
  <2>1. NoCall \in [end : End, count : Counts \cup {0}]
    BY Zenon DEF NoCall, End
  <2>2. Size \in Nat
    BY Zenon, PipeAssumption
  <2>3. len \in 0 .. Size /\ open \in [End -> {0, 1}] /\ holders \in [End -> SUBSET Procs]
    BY <2>2 DEF Init
  <2>4. at \in [Pcb -> Label] /\ call \in [Pcb -> [end : End, count : Counts \cup {0}]]
    BY Zenon, <2>1 DEF Init, Label
  <2>5. waiters \in [End -> Seq(Pid)] /\ wakes \in [Pcb -> Seq(Pid)]
    BY DEF Init
  <2> QED
    BY Zenon, <1>3, <2>3, <2>4, <2>5 DEF Init, TypeOK
<1>5. Named
  <2>1. ASSUME NEW t \in Procs PROVE pid[t] \in Pid /\ table[pid[t]] = t
    <3>1. pid[t] \in 1 .. n /\ pid[t] \in Pid /\ pid[t] # 0
      BY <1>0, <1>1, <1>2
    <3>2. table[pid[t]] = Forked[pid[t]]
      BY Zenon, <3>1 DEF Init
    <3> QED
      BY Zenon, <1>1, <3>1, <3>2
  <2>2. pid[Forked[1]] = 1
    BY <1>0, <1>1, PipeAssumption
  <2> QED
    BY <2>1, <2>2, Zenon DEF Named, Init
<1>6. InsideAreProcs /\ OffsetLocked /\ \A t \in Procs : at[t] # "stuck"
  BY ProcsArePcbs, Zenon DEF Init, InsideAreProcs, OffsetLocked, Inside
<1>7. OneWaiter /\ OneWoken
  BY Zenon DEF Init, OneWaiter, OneWoken
<1>8. SleeperSafe /\ BlockedBelongs
  BY ProcsArePcbs, Zenon DEF Init, SleeperSafe, BlockedBelongs
<1> QED
  BY Zenon, <1>4, <1>5, <1>6, <1>7, <1>8 DEF IInv

LEMMA PipeInvariance == Spec => []IInv
<1>1. IInv /\ [Next]_vars => IInv'
  BY Zenon, NamedStep, LockStep, QueueStep, WokenStep, SleeperStep, BlockedStep, TypeStep, NeverStuck
     DEF IInv
<1> QED
  BY PipeInit, <1>1, PTL DEF Spec

(* Types, and the buffer within its bounds: no read takes more than there  *)
(* is, no write puts more than there is room for.                          *)
THEOREM PipeTyped == Spec => []TypeOK
BY PipeInvariance, PTL DEF IInv

(* FileHandle's offset lock is held from the first step of a read or write *)
(* to its last, across every sleep, by exactly the process inside.         *)
THEOREM OffsetIsLocked == Spec => []OffsetLocked
BY PipeInvariance, PTL DEF IInv

(* Whoever sleeps in a pipe call is on the wait queue with a reason to     *)
(* wait, or on the list of someone about to call wake_tasks: the gated     *)
(* wakeups lose nobody.                                                    *)
THEOREM SleepersAreRegistered == Spec => []SleeperIsRegistered
<1>1. IInv => SleeperIsRegistered
  <2> SUFFICES ASSUME IInv, NEW t \in Procs, state[t] = "Blocked", at[t] = "resume"
               PROVE  (Waits(t, call[t].end) /\ MustWait(call[t].end)) \/ ToBeWoken(t)
    BY Zenon DEF SleeperIsRegistered
  <2>1. call[t].end \in End
    BY Zenon, ProcsArePcbs DEF IInv, TypeOK
  <2>2. Waits(t, call[t].end) => waiters[call[t].end] # <<>>
    <3>1. ASSUME waiters[call[t].end] = <<>> PROVE 1 .. Len(waiters[call[t].end]) = {}
      BY <3>1, NoneIn, Zenon
    <3> QED
      BY <3>1, Zenon DEF Waits
  <2> QED
    BY Zenon, <2>1, <2>2 DEF IInv, SleeperSafe, OneWaiter
<1> QED
  BY PipeInvariance, <1>1, PTL

(* A pid is on a wait queue only while its process is inside a call on     *)
(* that end, so sys_close never locks its own Process a second time.       *)
THEOREM WaitersStayInside == Spec => []WaitersAreInside
<1>1. IInv => WaitersAreInside
  <2> SUFFICES ASSUME IInv, NEW t \in Procs, NEW e \in End, Waits(t, e)
               PROVE  at[t] \in Inside /\ call[t].end = e
    BY Zenon DEF WaitersAreInside, IInv
  <2>1. waiters[e] = <<pid[t]>>
    BY Zenon, WaitsIs
  <2>2. PICK u \in Procs : waiters[e] = <<pid[u]>> /\ at[u] \in Registered /\ call[u].end = e
    BY <2>1 DEF IInv, OneWaiter
  <2>3. pid[u] = pid[t]
    BY <2>1, <2>2
  <2>4. u = t
    BY Zenon, <2>3 DEF IInv, Named
  <2> QED
    BY Zenon, <2>2, <2>4 DEF Registered, Inside
<1> QED
  BY PipeInvariance, <1>1, PTL

(* As long as both ends are open, nobody is Blocked outside a call, or     *)
(* asleep in one with nobody to wake it.                                   *)
THEOREM BlockedWhereItBelongs == Spec => []BlockedBelongs
BY PipeInvariance, PTL DEF IInv
=============================================================================
