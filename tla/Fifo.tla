-------------------------------- MODULE Fifo --------------------------------
(***************************************************************************)
(* What a pipe promises about its bytes: a bounded first-in first-out      *)
(* queue with short reads and short writes.                                *)
(***************************************************************************)
EXTENDS Integers, Sequences

CONSTANTS Byte, Capacity, Inputs, Lengths

VARIABLES
  queue,    \* the unread bytes, oldest first
  last      \* the last operation: the length of the user's buffer, the bytes that
            \* it held or got, and the count returned

Least(a, b) == IF a < b THEN a ELSE b

Init == queue = <<>> /\ last = [want |-> 0, bytes |-> <<>>, n |-> 0]

(* As much as fits of the front of bytes goes to the end of the queue. *)
Write(bytes) ==
  LET n == Least(Len(bytes), Capacity - Len(queue))
  IN  /\ Len(queue) < Capacity
      /\ queue' = queue \o SubSeq(bytes, 1, n)
      /\ last' = [want |-> Len(bytes), bytes |-> bytes, n |-> n]

(* The oldest bytes, as many as there are and were asked for, come out. *)
Read(count) ==
  LET n == Least(count, Len(queue))
  IN  /\ queue # <<>>
      /\ queue' = SubSeq(queue, n + 1, Len(queue))
      /\ last' = [want |-> count, bytes |-> SubSeq(queue, 1, n), n |-> n]

Next == (\E bytes \in Inputs : Write(bytes)) \/ (\E count \in Lengths : Read(count))

Spec == Init /\ [][Next]_<<queue, last>>
=============================================================================
