------------------------------ MODULE Context ------------------------------
(***************************************************************************)
(* The processor under the processes: the system call and timer stubs, the *)
(* kernel stacks, the register frames that a switch leaves and resumes,    *)
(* the GS base and the active address space, composed with Processes.      *)
(*                                                                         *)
(* Every step of Processes is taken here together with what its stub does  *)
(* to the processor.  A fault in kernel mode ends in the hlt loop of the   *)
(* page fault handler with interrupts masked: nothing steps any more.      *)
(***************************************************************************)
EXTENDS Processes

VARIABLES
  gs,           \* the GS base: BSP_PER_CPU, or the user's; the other is in the MSR
  entryStack,   \* whose kernel stack TSS.rsp0 and PerCpuData.kernel_rsp point at
  frame,        \* the kind of TrapFrame at each saved_kernel_rsp
  cr3,          \* the process whose address space is active
  halted        \* the fault that stopped the machine, if any

ctxVars == <<gs, entryStack, frame, cr3, halted>>

BootStack == NoPcb  \* main.rs's static stack belongs to no process

(* init's is made by exec, idle's by init_kernel_task_stack. *)
BootFrames ==
  [t \in Pcb |-> CASE t = BootInit -> "user" [] t = Idle -> "kernel" [] OTHER -> "none"]

(* Boot: gdt_init and syscall_init name the static stack, and init, whose  *)
(* own kernel stack got a frame by exec, is entered by enter_user_mode.    *)
CtxInit ==
  /\ Init
  /\ gs = "user"
  /\ entryStack = BootStack
  /\ frame = BootFrames
  /\ cr3 = BootInit
  /\ halted = "no"

Swapgs == gs' = IF gs = "user" THEN "percpu" ELSE "user"

-----------------------------------------------------------------------------
(* init_fork_child_stack: a user-mode frame on the new process's stack *)
ForkFrame ==
  frame' = [t \in Pcb |-> IF state[t] = "Free" /\ state'[t] = "Ready"
                          THEN "user" ELSE frame[t]]

(* syscall_entry, when swapgs brings in the per-CPU block: the registers   *)
(* go on the stack that kernel_rsp names.                                  *)
SyscallEntry ==
  /\ halted = "no"
  /\ gs = "user"
  /\ Syscall
  /\ Swapgs
  /\ ForkFrame
  /\ UNCHANGED <<entryStack, cr3, halted>>

(* The same when the per-CPU block was in place already: swapgs takes it   *)
(* away, and gs:[8] is address 8, which no process has mapped.             *)
EntryFault ==
  /\ halted = "no"
  /\ gs = "percpu"
  /\ At("user")
  /\ Swapgs
  /\ halted' = "entry"
  /\ UNCHANGED <<vars, entryStack, frame, cr3>>

(* A successful execve.  apply_exec writes a fresh TrapFrame at the top of *)
(* the process's kernel stack.  If the call itself runs there, its 160     *)
(* bytes cover the 128 of SyscallRegisters and the dispatcher's return     *)
(* address, which becomes 0.  Only init's calls run elsewhere.             *)
Execve ==
  /\ halted = "no"
  /\ gs = "user"
  /\ At("user")
  /\ frame' = [frame EXCEPT ![current] = "user"]
  /\ IF entryStack = current
     THEN halted' = "exec" /\ gs' = "percpu"
     ELSE UNCHANGED <<halted, gs>>
  /\ UNCHANGED <<vars, entryStack, cr3>>

FaultySyscallExit ==  \* no swapgs before sysretq
  /\ halted = "no"
  /\ SyscallReturn
  /\ UNCHANGED ctxVars

(* The end of syscall_entry, or on into sys_exit_signal *)
SyscallExit ==
  /\ halted = "no"
  /\ SyscallReturn
  /\ IF at'[current] = "user" THEN Swapgs ELSE UNCHANGED gs
  /\ UNCHANGED <<entryStack, frame, cr3, halted>>

(* Steps of system calls and of the timer handler that do not switch *)
SamePlace ==
  /\ halted = "no"
  /\ \/ ExitZombie \/ ExitWake
     \/ Wait4Snapshot \/ Wait4Inspect \/ Wait4Mark \/ Wait4Recheck \/ Wait4Unmark
     \/ Wait4Reap \/ Wait4Cleanup \/ Wait4Resume
     \/ TickSignals \/ TickTerminate \/ TickWake
  /\ UNCHANGED ctxVars

-----------------------------------------------------------------------------
FaultyStack(next) ==  \* entry stack of the outgoing process left in place
  /\ cr3' = IF next = Idle THEN cr3 ELSE next
  /\ UNCHANGED entryStack

(* What every switch does for the incoming process: both stack pointers,   *)
(* and CR3 if it has an address space, which idle has not.                 *)
Activate(next) ==
  /\ entryStack' = next
  /\ cr3' = IF next = Idle THEN cr3 ELSE next

FaultyLeaves(kind) == UNCHANGED frame  \* saved_kernel_rsp not stored

(* saved_kernel_rsp of the outgoing process gets a new frame. *)
Leaves(kind) == frame' = [frame EXCEPT ![current] = kind]

(* voluntary_task_switch: a kernel-mode frame, and no swapgs *)
VoluntarySwitch ==
  /\ halted = "no"
  /\ ExitSwitch \/ Wait4Switch
  /\ Leaves("kernel")
  /\ Activate(current')
  /\ UNCHANGED <<gs, halted>>

(* timer_interrupt_stub: the frame is of the mode that was interrupted.    *)
(* It is stored only if there is someone to switch to, and no swapgs.      *)
TimerSwitch ==
  /\ halted = "no"
  /\ Tick \/ TickReschedule
  /\ IF current' = current
     THEN UNCHANGED <<frame, entryStack, cr3>>
     ELSE /\ Leaves(IF at[current] = "user" THEN "user" ELSE "kernel")
          /\ Activate(current')
  /\ UNCHANGED <<gs, halted>>

CtxNext ==
  \/ SyscallEntry \/ EntryFault \/ Execve \/ SyscallExit \/ SamePlace
  \/ VoluntarySwitch \/ TimerSwitch

CtxSpec == CtxInit /\ [][CtxNext]_<<vars, ctxVars>>

-----------------------------------------------------------------------------
(* The processor's registers and the saved frames have their types. *)
ContextTypeOK ==
  /\ gs \in {"user", "percpu"}
  /\ entryStack \in Pcb \cup {BootStack}
  /\ frame \in [Pcb -> {"none", "user", "kernel"}]
  /\ cr3 \in Pcb
  /\ halted \in {"no", "entry", "exec"}

(* Processes between syscall_entry's swapgs and the one before sysretq; a  *)
(* process that exits never gets there.                                    *)
InsideSyscall == {t \in Pcb : at[t] \notin {"user", "idle"}}

(* The GS base is switched on the way into a system call and on the way    *)
(* out, and by no switch of processes, although it belongs to the one on   *)
(* the CPU.  So only one process can be inside a system call: while it     *)
(* sleeps in one, or once it has exited in one, the next entry by another  *)
(* process finds the bases the wrong way round and stops the machine.  No  *)
(* entry fails otherwise.                                                  *)
OneInside ==
  /\ \A t, u \in InsideSyscall : t = u
  /\ halted = "no" => (gs = "percpu" <=> InsideSyscall # {})
  /\ halted = "entry" => InsideSyscall # {} /\ current \notin InsideSyscall

(* "TSS.rsp0 and BSP_PER_CPU.kernel_rsp must be updated on every context   *)
(* switch" (ADR-0003 D2.4): the next entry from user mode is on the        *)
(* kernel stack of the process on the CPU, and for init on the boot stack, *)
(* which it gave up for good when it was first preempted.  Both are        *)
(* stacks on which no suspended process has frames.                        *)
EntersOwnStack == entryStack = IF current = BootInit THEN BootStack ELSE current

(* "The unified TrapFrame-at-saved_kernel_rsp invariant": whoever can be   *)
(* switched to has a frame, of the mode in which it stopped.  The timer    *)
(* tells by it whether a signal may be delivered into the frame.           *)
FrameFitsPoint ==
  \A t \in Pcb : (t # current /\ state[t] \in {"Ready", "Blocked"}) =>
    frame[t] = IF at[t] = "user" THEN "user" ELSE "kernel"

(* Who holds a reference to a process: idle's static, the table, the ready *)
(* queue, CURRENT_PROCESS, the local of its own switch_out_current, and    *)
(* the candidates of a wait4 that is in its loop.                          *)
Held(t) ==
  \/ t \in {Idle, current}
  \/ \E p \in Pid : table[p] = t
  \/ Queued(t)
  \/ at[t] \in {"w_resume", "x_loop"}
  \/ \E u \in Pcb : at[u] \in InWait4 /\ \E c \in wait[u].cand : c[2] = t

(* A Process owns its kernel stack, and timer_tick_schedule drops its      *)
(* reference to the outgoing one while it still runs on that stack: it is  *)
(* never the last reference (init runs on the static boot stack).  A       *)
(* Zombie owes this to its table entry, which only wait4 removes, so it    *)
(* holds until NEXT_PID comes round to a pid in use and fork overwrites    *)
(* the entry of a living process.                                          *)
StackOutlivesSwitch ==
  [][\A t \in Pcb \ {BootInit} :
       (PidsNotReused /\ t = current /\ current' # t) => Held(t)']_<<vars, ctxVars>>

(* The page tables in CR3 are of a process that still exists, although     *)
(* idle runs on those of whoever went to sleep before it.                  *)
ActiveSpaceAlive == Held(cr3)
=============================================================================
