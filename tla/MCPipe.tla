------------------------------- MODULE MCPipe -------------------------------
(* Instances of Pipe for TLC *)
EXTENDS Pipe

CONSTANTS init, idle, c1, c2, none

Two == <<c1, c2>>

AllOf(forked) == {init, idle} \cup {forked[i] : i \in 1 .. Len(forked)}

PcbTwo == AllOf(Two)
=============================================================================
