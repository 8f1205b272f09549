------------------------------ MODULE MCSignals ------------------------------
(* Two processes; SIGKILL, SIGUSR1, SIGCHLD, SIGTSTP and SIGXCPU.          *)
EXTENDS Signals

Action(handler, mask, flags) == [handler |-> handler, mask |-> mask, flags |-> flags]

MCSigs == {9, 10, 17, 20, 24}
MCHandlers == {Action("user", {24}, {"nodefer"}), Action("user", {9}, {"resethand"}), Action("IGN", {}, {})}
MCMasks == {{9, 10}}
=============================================================================
