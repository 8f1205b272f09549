-------------------------- MODULE PipeBufferProofs -------------------------
(***************************************************************************)
(* The ring buffer of a pipe implements a bounded queue, for every size,   *)
(* every set of bytes and all reads and writes.                            *)
(***************************************************************************)
EXTENDS PipeBuffer, SequenceTheorems, TLAPS

(* The remainder where the cursors use it: once around the ring at most *)
LEMMA AdvanceOnce ==
  ASSUME NEW p \in Index, NEW i \in 0 .. Size
  PROVE  /\ Advance(p, i) = IF p + i < Size THEN p + i ELSE p + i - Size
         /\ Advance(p, i) \in Index
BY RingAssumption DEF Advance, Index

(* Moving a cursor by i and then by j *)
LEMMA AdvanceTwice ==
  ASSUME NEW p \in Index, NEW i \in 0 .. Size, NEW j \in 0 .. Size, i + j <= Size
  PROVE  Advance(Advance(p, i), j) = Advance(p, i + j)
<1> DEFINE q == Advance(p, i)
<1>1. q = (IF p + i < Size THEN p + i ELSE p + i - Size) /\ q \in Index
  BY Zenon, AdvanceOnce
<1>2. Advance(q, j) = IF q + j < Size THEN q + j ELSE q + j - Size
  BY Zenon, <1>1, AdvanceOnce
<1>3. i + j \in 0 .. Size
  BY RingAssumption
<1>4. Advance(p, i + j) = IF p + (i + j) < Size THEN p + (i + j) ELSE p + (i + j) - Size
  BY Zenon, <1>3, AdvanceOnce
<1> HIDE DEF q
<1>5. Advance(q, j) = Advance(p, i + j)
  BY <1>1, <1>2, <1>4, RingAssumption DEF Index
<1> QED  BY Zenon, <1>5 DEF q

(* Different distances below Size lead to different cells. *)
LEMMA AdvanceInjective ==
  ASSUME NEW p \in Index, NEW i \in 0 .. Size - 1, NEW j \in 0 .. Size - 1,
         Advance(p, i) = Advance(p, j)
  PROVE  i = j
<1>1. i \in 0 .. Size /\ j \in 0 .. Size
  BY RingAssumption
<1>2. Advance(p, i) = IF p + i < Size THEN p + i ELSE p + i - Size
  BY Zenon, <1>1, AdvanceOnce
<1>3. Advance(p, j) = IF p + j < Size THEN p + j ELSE p + j - Size
  BY Zenon, <1>1, AdvanceOnce
<1>4. Size \in Nat /\ p \in 0 .. Size - 1
  BY Zenon, RingAssumption DEF Index
<1>5. (IF p + i < Size THEN p + i ELSE p + i - Size) = (IF p + j < Size THEN p + j ELSE p + j - Size)
  BY <1>2, <1>3
<1> QED  BY <1>4, <1>5

(* What a transfer of n bytes may be *)
LEMMA LeastTyped ==
  ASSUME NEW a \in Nat, NEW b \in Nat
  PROVE  Least(a, b) \in Nat /\ Least(a, b) <= a /\ Least(a, b) <= b
BY DEF Least

-----------------------------------------------------------------------------
LEMMA RingInit == Init => RingOK
<1> SUFFICES ASSUME Init PROVE RingOK
  BY Zenon
<1>1. 0 \in Index /\ 0 \in 0 .. Size /\ Size \in Nat
  BY RingAssumption DEF Index
<1>2. Advance(0, 0) = 0
  BY <1>1, AdvanceOnce, RingAssumption DEF Index
<1> QED  BY Zenon, <1>1, <1>2, RingAssumption DEF Init, RingOK

LEMMA RingRead ==
  ASSUME RingOK, NEW count \in Lengths, Read(count)
  PROVE  RingOK'
<1> DEFINE n == Least(count, len)
<1>1. count \in Nat /\ len \in 0 .. Size /\ Size \in Nat
  BY Zenon, RingAssumption DEF RingOK
<1>2. n \in 0 .. Size /\ n <= len /\ len - n \in 0 .. Size
  <2>1. n \in Nat /\ n <= len
    BY <1>1, LeastTyped
  <2> QED  BY <1>1, <2>1
<1>3. readPos \in Index /\ Advance(readPos, n) \in Index
  BY Zenon, <1>2, AdvanceOnce DEF RingOK
<1>4. Advance(Advance(readPos, n), len - n) = Advance(readPos, len)
  <2>1. n + (len - n) = len /\ len <= Size
    BY <1>1, <1>2
  <2> QED  BY <1>2, <1>3, <2>1, AdvanceTwice
<1>5. readPos' = Advance(readPos, n) /\ len' = len - n /\ data' = data /\ writePos' = writePos
  BY Zenon DEF Read
<1> HIDE DEF n
<1> QED  BY Zenon, <1>2, <1>3, <1>4, <1>5 DEF RingOK, Advance, Index

(* The cells that a write of n bytes fills, and what it puts there *)
LEMMA WriteCells ==
  ASSUME RingOK, NEW bytes \in Inputs, Write(bytes),
         NEW n, n = Least(Len(bytes), Size - len)
  PROVE  /\ n \in Nat /\ n <= Len(bytes) /\ len + n \in 0 .. Size
         /\ data' \in [Index -> Byte]
         /\ \A i \in 1 .. n : data'[Advance(writePos, i - 1)] = bytes[i]
         /\ \A k \in Index : (\A i \in 1 .. n : Advance(writePos, i - 1) # k)
                             => data'[k] = data[k]
<1>1. bytes \in Seq(Byte) /\ Len(bytes) \in Nat /\ Size \in Nat /\ len \in 0 .. Size
  BY RingAssumption DEF RingOK
<1>2. n \in Nat /\ n <= Len(bytes) /\ len + n \in 0 .. Size /\ n <= Size
  <2>1. Size - len \in Nat
    BY <1>1
  <2>2. n \in Nat /\ n <= Len(bytes) /\ n <= Size - len
    BY Zenon, <1>1, <2>1, LeastTyped
  <2> QED  BY <1>1, <2>2
<1>3. data' = [k \in Index |->
                 IF \E i \in 1 .. n : Advance(writePos, i - 1) = k
                 THEN bytes[CHOOSE i \in 1 .. n : Advance(writePos, i - 1) = k]
                 ELSE data[k]]
  BY Zenon DEF Write
<1>4. \A i \in 1 .. n : bytes[i] \in Byte
  BY <1>1, <1>2, ElementOfSeq
<1>5. ASSUME NEW k \in Index
      PROVE  data'[k] \in Byte
  <2>1. CASE \E i \in 1 .. n : Advance(writePos, i - 1) = k
    <3> DEFINE c == CHOOSE i \in 1 .. n : Advance(writePos, i - 1) = k
    <3>1. c \in 1 .. n
      BY Zenon, <2>1
    <3>2. data'[k] = bytes[c]
      BY Zenon, <1>3, <2>1
    <3> HIDE DEF c
    <3> QED  BY Zenon, <1>4, <3>1, <3>2
  <2>2. CASE ~ \E i \in 1 .. n : Advance(writePos, i - 1) = k
    BY Zenon, <1>3, <2>2 DEF RingOK
  <2> QED  BY Zenon, <2>1, <2>2
<1>6. data' \in [Index -> Byte]
  <2>1. data' = [k \in Index |-> data'[k]]
    BY Zenon, <1>3
  <2> QED  BY Zenon, <1>5, <2>1
<1>7. ASSUME NEW i \in 1 .. n
      PROVE  data'[Advance(writePos, i - 1)] = bytes[i]
  <2> DEFINE k == Advance(writePos, i - 1)
             c == CHOOSE j \in 1 .. n : Advance(writePos, j - 1) = k
  <2>1. i - 1 \in 0 .. Size - 1 /\ i - 1 \in 0 .. Size
    BY <1>1, <1>2
  <2>2. k \in Index
    BY Zenon, <2>1, AdvanceOnce DEF RingOK
  <2>3. c \in 1 .. n /\ Advance(writePos, c - 1) = k
    BY Zenon
  <2>4. data'[k] = bytes[c]
    BY Zenon, <1>3, <2>2
  <2> HIDE DEF c
  <2>5. c - 1 \in 0 .. Size - 1
    BY <1>1, <1>2, <2>3
  <2>6. c - 1 = i - 1
    BY Zenon, <2>1, <2>3, <2>5, AdvanceInjective DEF RingOK
  <2>7. c = i
    BY <1>2, <2>3, <2>6
  <2> QED  BY Zenon, <2>4, <2>7
<1>8. ASSUME NEW k \in Index, \A i \in 1 .. n : Advance(writePos, i - 1) # k
      PROVE  data'[k] = data[k]
  BY Zenon, <1>3, <1>8
<1> QED  BY Zenon, <1>2, <1>6, <1>7, <1>8

LEMMA RingWrite ==
  ASSUME RingOK, NEW bytes \in Inputs, Write(bytes)
  PROVE  RingOK'
<1> DEFINE n == Least(Len(bytes), Size - len)
<1>1. n \in Nat /\ len + n \in 0 .. Size /\ data' \in [Index -> Byte]
  BY Zenon, WriteCells
<1>2. readPos' = readPos /\ len' = len + n /\ writePos' = Advance(writePos, n)
  BY Zenon DEF Write
<1> HIDE DEF n
<1>3. len \in 0 .. Size /\ n \in 0 .. Size /\ len + n <= Size /\ Size \in Nat
  BY <1>1, RingAssumption DEF RingOK
<1>4. Advance(Advance(readPos, len), n) = Advance(readPos, len + n)
  BY Zenon, <1>3, AdvanceTwice DEF RingOK
<1>5. Advance(writePos, n) \in Index
  BY Zenon, <1>3, AdvanceOnce DEF RingOK
<1> QED  BY Zenon, <1>1, <1>2, <1>4, <1>5 DEF RingOK, Advance, Index

LEMMA RingStep == RingOK /\ [Next]_vars => RingOK'
<1> SUFFICES ASSUME RingOK, [Next]_vars PROVE RingOK'
  BY Zenon
<1>1. CASE \E bytes \in Inputs : Write(bytes)
  BY Zenon, <1>1, RingWrite
<1>2. CASE \E count \in Lengths : Read(count)
  BY Zenon, <1>2, RingRead
<1>3. CASE UNCHANGED vars
  BY Zenon, <1>3 DEF vars, RingOK, Advance, Index
<1> QED  BY Zenon, <1>1, <1>2, <1>3 DEF Next

(* The cursors of PipeBuffer never leave the array and stay len apart, for *)
(* every PIPE_BUFFER_SIZE and all lengths of the users' buffers.           *)
THEOREM RingIsSound == Spec => []RingOK
BY RingInit, RingStep, PTL DEF Spec

-----------------------------------------------------------------------------
(* The first l bytes of a ring with contents d and read cursor r *)
Cells(d, r, l) == [i \in 1 .. l |-> d[Advance(r, i - 1)]]

LEMMA CellsAreASequence ==
  ASSUME NEW d \in [Index -> Byte], NEW r \in Index, NEW l \in 0 .. Size
  PROVE  /\ Cells(d, r, l) \in Seq(Byte)
         /\ Len(Cells(d, r, l)) = l
         /\ \A i \in 1 .. l : Cells(d, r, l)[i] = d[Advance(r, i - 1)]
<1>1. ASSUME NEW i \in 1 .. l
      PROVE  d[Advance(r, i - 1)] \in Byte
  <2>1. i - 1 \in 0 .. Size
    BY RingAssumption
  <2> QED  BY Zenon, <2>1, AdvanceOnce
<1>2. Cells(d, r, l) \in [1 .. l -> Byte] /\ l \in Nat
  BY <1>1 DEF Cells
<1> QED  BY <1>2 DEF Cells

LEMMA UnreadIsASequence ==
  ASSUME RingOK
  PROVE  Unread \in Seq(Byte) /\ Len(Unread) = len
         /\ \A i \in 1 .. len : Unread[i] = data[Advance(readPos, i - 1)]
<1>1. data \in [Index -> Byte] /\ readPos \in Index /\ len \in 0 .. Size
  BY Zenon DEF RingOK
<1>2. Unread = Cells(data, readPos, len)
  BY Zenon DEF Unread, Cells
<1> QED  BY Zenon, <1>1, <1>2, CellsAreASequence

LEMMA FifoInit == Init => Abstract!Init
<1> SUFFICES ASSUME Init PROVE Unread = <<>>
  BY Zenon DEF Init, Abstract!Init
<1>1. RingOK /\ len = 0
  BY Zenon, RingInit DEF Init
<1>2. Unread \in Seq(Byte) /\ Len(Unread) = 0
  BY Zenon, <1>1, UnreadIsASequence
<1> QED  BY Zenon, <1>2, EmptySeq

LEMMA FifoRead ==
  ASSUME RingOK, NEW count \in Lengths, Read(count)
  PROVE  Abstract!Read(count)
<1> DEFINE n == Least(count, len)
<1>1. RingOK'
  BY Zenon, RingRead
<1>2. Unread \in Seq(Byte) /\ Len(Unread) = len
      /\ \A i \in 1 .. len : Unread[i] = data[Advance(readPos, i - 1)]
  BY Zenon, UnreadIsASequence
<1>3. Unread' = Cells(data', readPos', len')
  BY Zenon DEF Unread, Cells, Advance
<1>4. /\ data' \in [Index -> Byte] /\ readPos' \in Index /\ len' \in 0 .. Size
      /\ len' = len - n /\ readPos' = Advance(readPos, n) /\ data' = data
  BY Zenon, <1>1 DEF RingOK, Read, Index
<1>5. Unread' \in Seq(Byte) /\ Len(Unread') = len - n
      /\ \A i \in 1 .. len - n : Unread'[i] = data[Advance(Advance(readPos, n), i - 1)]
  BY Zenon, <1>3, <1>4, CellsAreASequence
<1>6. count \in Nat /\ len \in 0 .. Size /\ Size \in Nat /\ len > 0 /\ readPos \in Index
  BY Zenon, RingAssumption DEF RingOK, Read
<1>7. n \in Nat /\ n <= len
  BY <1>6, LeastTyped
<1>8. last' = [want |-> count, n |-> n,
                bytes |-> [i \in 1 .. n |-> data[Advance(readPos, i - 1)]]]
  BY Zenon DEF Read
<1> HIDE DEF n
<1>9. Unread' = SubSeq(Unread, n + 1, len)
  <2> DEFINE s == SubSeq(Unread, n + 1, len)
  <2>1. \A i \in n + 1 .. len : Unread[i] \in Byte
    BY <1>2, <1>7, ElementOfSeq
  <2>2. /\ s \in Seq(Byte)
        /\ Len(s) = IF n + 1 <= len THEN len - (n + 1) + 1 ELSE 0
        /\ \A i \in 1 .. len - (n + 1) + 1 : s[i] = Unread[(n + 1) + i - 1]
    BY <1>6, <1>7, <2>1, SubSeqProperties
  <2>3. Len(s) = len - n
    BY <1>6, <1>7, <2>2
  <2> HIDE DEF s
  <2>4. ASSUME NEW i \in 1 .. len - n
        PROVE  Unread'[i] = s[i]
    <3>1. n \in 0 .. Size /\ i - 1 \in 0 .. Size /\ n + (i - 1) <= Size
      BY <1>6, <1>7
    <3>2. Advance(Advance(readPos, n), i - 1) = Advance(readPos, n + (i - 1))
      BY Zenon, <1>6, <3>1, AdvanceTwice
    <3>3. i \in 1 .. len - (n + 1) + 1 /\ (n + 1) + i - 1 = n + i /\ n + i \in 1 .. len
          /\ n + (i - 1) = (n + i) - 1
      BY <1>6, <1>7
    <3>4. s[i] = Unread[n + i]
      BY Zenon, <2>2, <3>3
    <3>5. Unread[n + i] = data[Advance(readPos, (n + i) - 1)]
      BY Zenon, <1>2, <3>3
    <3> QED  BY Zenon, <1>5, <3>2, <3>3, <3>4, <3>5
  <2>5. Unread' = s
    BY Zenon, <1>5, <2>2, <2>3, <2>4, SeqEqual
  <2> QED  BY Zenon, <2>5 DEF s
<1>10. [i \in 1 .. n |-> data[Advance(readPos, i - 1)]] = SubSeq(Unread, 1, n)
  <2> DEFINE b == [i \in 1 .. n |-> data[Advance(readPos, i - 1)]]
             s == SubSeq(Unread, 1, n)
  <2>1. b \in Seq(Byte) /\ Len(b) = n
        /\ \A i \in 1 .. n : b[i] = data[Advance(readPos, i - 1)]
    <3>1. n \in 0 .. Size
      BY <1>6, <1>7
    <3>2. data \in [Index -> Byte]
      BY Zenon DEF RingOK
    <3>3. b = Cells(data, readPos, n)
      BY Zenon DEF Cells
    <3> HIDE DEF b
    <3> QED  BY <1>6, <3>1, <3>2, <3>3, CellsAreASequence
  <2>2. \A i \in 1 .. n : Unread[i] \in Byte /\ i \in 1 .. len
    BY <1>2, <1>6, <1>7, ElementOfSeq
  <2>3. /\ s \in Seq(Byte)
        /\ Len(s) = IF 1 <= n THEN n - 1 + 1 ELSE 0
        /\ \A i \in 1 .. n - 1 + 1 : s[i] = Unread[1 + i - 1]
    BY <1>7, <2>2, SubSeqProperties
  <2> HIDE DEF b, s
  <2>4. Len(s) = n /\ \A i \in 1 .. n : s[i] = Unread[i]
    BY <1>7, <2>3
  <2>5. \A i \in 1 .. n : b[i] = s[i]
    BY Zenon, <1>2, <2>1, <2>2, <2>4
  <2>6. b = s
    BY Zenon, <2>1, <2>3, <2>4, <2>5, SeqEqual
  <2> QED  BY Zenon, <2>6 DEF b, s
<1>11. Unread # <<>>
  BY <1>2, <1>6, EmptySeq
<1>12. Abstract!Least(count, Len(Unread)) = n
  <2>1. Abstract!Least(count, len) = Least(count, len)
    BY Zenon DEF Least, Abstract!Least
  <2> QED  BY Zenon, <1>2, <2>1 DEF n
<1> QED  BY <1>2, <1>8, <1>9, <1>10, <1>11, <1>12 DEF Abstract!Read

LEMMA FifoWrite ==
  ASSUME RingOK, NEW bytes \in Inputs, Write(bytes)
  PROVE  Abstract!Write(bytes)
<1> DEFINE n == Least(Len(bytes), Size - len)
<1>1. RingOK'
  BY Zenon, RingWrite
<1>2. Unread \in Seq(Byte) /\ Len(Unread) = len
      /\ \A i \in 1 .. len : Unread[i] = data[Advance(readPos, i - 1)]
  BY Zenon, UnreadIsASequence
<1>3. Unread' = Cells(data', readPos', len')
  BY Zenon DEF Unread, Cells, Advance
<1>4. /\ data' \in [Index -> Byte] /\ readPos' \in Index /\ len' \in 0 .. Size
      /\ len' = len + n /\ readPos' = readPos
  BY Zenon, <1>1 DEF RingOK, Write, Index
<1>5. Unread' \in Seq(Byte) /\ Len(Unread') = len + n
      /\ \A i \in 1 .. len + n : Unread'[i] = data'[Advance(readPos, i - 1)]
  BY Zenon, <1>3, <1>4, CellsAreASequence
<1>6. /\ n \in Nat /\ n <= Len(bytes) /\ len + n \in 0 .. Size
      /\ \A i \in 1 .. n : data'[Advance(writePos, i - 1)] = bytes[i]
      /\ \A k \in Index : (\A i \in 1 .. n : Advance(writePos, i - 1) # k)
                          => data'[k] = data[k]
  BY Zenon, WriteCells
<1>7. /\ len \in 0 .. Size /\ Size \in Nat /\ len < Size /\ readPos \in Index
      /\ writePos = Advance(readPos, len) /\ bytes \in Seq(Byte)
      /\ last' = [want |-> Len(bytes), bytes |-> bytes, n |-> n]
  BY Zenon, RingAssumption DEF RingOK, Write
<1>8. Abstract!Least(Len(bytes), Size - len) = n
  BY Zenon DEF Least, Abstract!Least
<1> HIDE DEF n
<1> DEFINE b == SubSeq(bytes, 1, n)
           s == Unread \o b
<1>9. b \in Seq(Byte) /\ Len(b) = n /\ \A i \in 1 .. n : b[i] = bytes[i]
  <2>1. \A i \in 1 .. n : bytes[i] \in Byte
    BY <1>6, <1>7, ElementOfSeq
  <2>2. /\ b \in Seq(Byte)
        /\ Len(b) = IF 1 <= n THEN n - 1 + 1 ELSE 0
        /\ \A i \in 1 .. n - 1 + 1 : b[i] = bytes[1 + i - 1]
    BY <1>6, <2>1, SubSeqProperties
  <2> HIDE DEF b
  <2> QED  BY <1>6, <2>2
<1> HIDE DEF b
<1>10. /\ s \in Seq(Byte)
       /\ Len(s) = len + n
       /\ \A i \in 1 .. len + n : s[i] = IF i <= len THEN Unread[i] ELSE b[i - len]
  BY <1>2, <1>9, ConcatProperties, ZenonT(30)
<1> HIDE DEF s
(* The cell that the j-th new byte goes to *)
<1>11. ASSUME NEW j \in 1 .. n
       PROVE  Advance(writePos, j - 1) = Advance(readPos, len + (j - 1))
  <2>1. j - 1 \in 0 .. Size /\ len + (j - 1) <= Size
    BY <1>6, <1>7
  <2> QED  BY Zenon, <1>7, <2>1, AdvanceTwice
<1>12. ASSUME NEW i \in 1 .. len + n
       PROVE  Unread'[i] = s[i]
  <2>1. Unread'[i] = data'[Advance(readPos, i - 1)]
    BY Zenon, <1>5
  <2>2. i - 1 \in 0 .. Size - 1 /\ i - 1 \in 0 .. Size
    BY <1>6, <1>7
  <2>3. CASE i <= len
    <3>1. i \in 1 .. len
      BY <1>7, <2>3
    <3>2. ASSUME NEW j \in 1 .. n
          PROVE  Advance(writePos, j - 1) # Advance(readPos, i - 1)
      <4>1. len + (j - 1) \in 0 .. Size - 1 /\ len + (j - 1) # i - 1
        BY <1>6, <1>7, <3>1
      <4>2. Advance(readPos, len + (j - 1)) # Advance(readPos, i - 1)
        BY Zenon, <1>7, <2>2, <4>1, AdvanceInjective
      <4> QED  BY Zenon, <1>11, <4>2
    <3>3. Advance(readPos, i - 1) \in Index
      BY Zenon, <1>7, <2>2, AdvanceOnce
    <3>4. data'[Advance(readPos, i - 1)] = data[Advance(readPos, i - 1)]
      BY Zenon, <1>6, <3>2, <3>3
    <3> QED  BY Zenon, <1>2, <1>10, <2>1, <2>3, <3>1, <3>4
  <2>4. CASE ~(i <= len)
    <3>1. i - len \in 1 .. n /\ len + ((i - len) - 1) = i - 1
      BY <1>6, <1>7, <2>4
    <3>2. Advance(writePos, (i - len) - 1) = Advance(readPos, i - 1)
      BY Zenon, <1>11, <3>1
    <3>3. data'[Advance(readPos, i - 1)] = bytes[i - len]
      BY Zenon, <1>6, <3>1, <3>2
    <3> QED  BY Zenon, <1>9, <1>10, <2>1, <2>4, <3>1, <3>3
  <2> QED  BY Zenon, <2>3, <2>4
<1>13. Unread' = s
  BY Zenon, <1>5, <1>10, <1>12, SeqEqual
<1> QED  BY <1>2, <1>7, <1>8, <1>13 DEF Abstract!Write, s, b

LEMMA FifoStep == RingOK /\ [Next]_vars => [Abstract!Next]_<<Unread, last>>
<1> SUFFICES ASSUME RingOK, [Next]_vars PROVE [Abstract!Next]_<<Unread, last>>
  BY Zenon
<1>1. CASE \E bytes \in Inputs : Write(bytes)
  BY Zenon, <1>1, FifoWrite DEF Abstract!Next
<1>2. CASE \E count \in Lengths : Read(count)
  BY Zenon, <1>2, FifoRead DEF Abstract!Next
<1>3. CASE UNCHANGED vars
  BY Zenon, <1>3 DEF vars, Unread, Advance
<1> QED  BY Zenon, <1>1, <1>2, <1>3 DEF Next

(* The ring buffer behind a pipe delivers the bytes written, all of them,  *)
(* once, unaltered and in order, for every PIPE_BUFFER_SIZE: the loops of  *)
(* read_with_flags and write_with_flags implement Fifo.                    *)
THEOREM RingIsFifo == Spec => RingImplementsFifo
<1>1. Spec => []RingOK
  BY Zenon, RingIsSound
<1> QED  BY <1>1, FifoInit, FifoStep, PTL DEF Spec, RingImplementsFifo, Abstract!Spec
=============================================================================
