---------------------------- MODULE MCProcesses ----------------------------
(* Instances of Processes for TLC *)
EXTENDS Processes

CONSTANTS init, idle, c1, c2, c3, c4, none

ThreeChildren == {init, idle, c1, c2, c3}

FourChildren == {init, idle, c1, c2, c3, c4}

AnyPid == {AnyChild} \cup (1 .. MaxPid)

PidThree == {3}
=============================================================================
