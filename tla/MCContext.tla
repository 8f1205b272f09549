----------------------------- MODULE MCContext -----------------------------
(* An instance of Context for TLC *)
EXTENDS Context

CONSTANTS init, idle, c1, c2, c3, c4, none

FourChildren == {init, idle, c1, c2, c3, c4}

AnyPid == {AnyChild} \cup (1 .. MaxPid)
=============================================================================
