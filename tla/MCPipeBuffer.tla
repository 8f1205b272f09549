--------------------------- MODULE MCPipeBuffer ----------------------------
(* An instance of PipeBuffer for TLC: a ring of three bytes and two values *)
EXTENDS PipeBuffer

Bits == {0, 1}

UpToFour == UNION {[1 .. n -> Bits] : n \in 0 .. 4}
=============================================================================
