----------------------------- MODULE PipeBuffer -----------------------------
(***************************************************************************)
(* The ring buffer of a pipe: what read_with_flags and write_with_flags do *)
(* to the bytes, each under one hold of the pipe lock.  When to block and  *)
(* whom to wake is in Pipe.                                                *)
(***************************************************************************)
EXTENDS Integers, Sequences

CONSTANTS
  Byte,       \* the values of a byte
  Size,       \* PIPE_BUFFER_SIZE
  Zero,       \* the byte the buffer is filled with at first
  Inputs,     \* the buffers that users write
  Lengths     \* the lengths of the buffers that users read into

ASSUME RingAssumption ==
  /\ Size \in Nat \ {0}
  /\ Zero \in Byte
  /\ Inputs \subseteq Seq(Byte)
  /\ Lengths \subseteq Nat

VARIABLES
  data,       \* PipeBuffer.data
  readPos,    \* PipeBuffer.read_pos
  writePos,   \* PipeBuffer.write_pos
  len,        \* PipeBuffer.len
  last        \* the last transfer: the length of the user's buffer, the bytes that
              \* it held or got, and the count returned

vars == <<data, readPos, writePos, len, last>>

Index == 0 .. Size - 1

Least(a, b) == IF a < b THEN a ELSE b

(* PipeBuffer::new *)
Init ==
  /\ data = [k \in Index |-> Zero]
  /\ readPos = 0
  /\ writePos = 0
  /\ len = 0
  /\ last = [want |-> 0, bytes |-> <<>>, n |-> 0]

(* A cursor moved i times by "(pos + 1) % PIPE_BUFFER_SIZE" *)
Advance(pos, i) == (pos + i) % Size

(* The transfer of a read, when there is something to read *)
Read(count) ==
  LET n == Least(count, len)
  IN  /\ len > 0
      /\ last' = [want |-> count, n |-> n,
                bytes |-> [i \in 1 .. n |-> data[Advance(readPos, i - 1)]]]
      /\ readPos' = Advance(readPos, n)
      /\ len' = len - n
      /\ UNCHANGED <<data, writePos>>

FaultyWrite(bytes) ==  \* keeps the end of what does not fit
  LET n == Least(Len(bytes), Size - len)
      skip == Len(bytes) - n
  IN  /\ len < Size
      /\ data' = [k \in Index |->
                    IF \E i \in 1 .. n : Advance(writePos, i - 1) = k
                    THEN bytes[skip + CHOOSE i \in 1 .. n : Advance(writePos, i - 1) = k]
                    ELSE data[k]]
      /\ writePos' = Advance(writePos, n)
      /\ len' = len + n
      /\ last' = [want |-> Len(bytes), bytes |-> bytes, n |-> n]
      /\ UNCHANGED readPos

(* The transfer of a write, when there is room *)
Write(bytes) ==
  LET n == Least(Len(bytes), Size - len)
  IN  /\ len < Size
      /\ data' = [k \in Index |->
                    IF \E i \in 1 .. n : Advance(writePos, i - 1) = k
                    THEN bytes[CHOOSE i \in 1 .. n : Advance(writePos, i - 1) = k]
                    ELSE data[k]]
      /\ writePos' = Advance(writePos, n)
      /\ len' = len + n
      /\ last' = [want |-> Len(bytes), bytes |-> bytes, n |-> n]
      /\ UNCHANGED readPos

Next == (\E bytes \in Inputs : Write(bytes)) \/ (\E count \in Lengths : Read(count))

Spec == Init /\ [][Next]_vars

-----------------------------------------------------------------------------
(* The cursors stay inside the array and are len apart, around the ring. *)
RingOK ==
  /\ data \in [Index -> Byte]
  /\ readPos \in Index
  /\ writePos \in Index
  /\ len \in 0 .. Size
  /\ writePos = Advance(readPos, len)

(* The unread bytes, in the order in which they were written *)
Unread == [i \in 1 .. len |-> data[Advance(readPos, i - 1)]]

Abstract == INSTANCE Fifo WITH queue <- Unread, Capacity <- Size

(* The ring buffer is a bounded queue: no byte is lost, repeated, altered  *)
(* or overtaken, however the reads and writes wrap around the array.       *)
RingImplementsFifo == Abstract!Spec
=============================================================================
