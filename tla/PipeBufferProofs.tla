--------------------------- MODULE PipeBufferProofs ---------------------------
(***************************************************************************)
(* The ring buffer of PipeBuffer keeps its fields consistent, and is a FIFO, *)
(* for every capacity, every set of byte values and every request length.    *)
(***************************************************************************)
EXTENDS PipeBuffer, SequenceTheorems, TLAPS

(* The inductive invariant: the offsets and the size are in range and agree. *)
IInv == TypeOK /\ PointersAgree

(* A pipe fresh from Pipes::create satisfies the invariant. *)
LEMMA InitInv == create => IInv
  BY CapacityAssumption DEF create, IInv, TypeOK, PointersAgree, Slot

(* The read side of FsDelegatePipe preserves the invariant. *)
LEMMA ReadInv ==
  ASSUME IInv, NEW n \in 0..MaxRequest, requestRead(n)
  PROVE  IInv'
<1> DEFINE length == IF size >= n THEN n ELSE size
           spaceToEnd == Capacity - read
           remaining == length - spaceToEnd
<1>1. /\ Capacity \in Nat \ {0} /\ n \in Nat
      /\ read \in 0..Capacity - 1 /\ write \in 0..Capacity - 1 /\ size \in 0..Capacity
      /\ write = IF read + size < Capacity THEN read + size ELSE read + size - Capacity
  BY CapacityAssumption, RequestAssumption DEF IInv, TypeOK, PointersAgree, Slot
<1>2. /\ read' = IF length > spaceToEnd THEN ResetAtEnd(remaining)
                                        ELSE ResetAtEnd(read + length)
      /\ size' = size - length /\ buffer' = buffer /\ write' = write
  BY DEF requestRead
<1>3. buffer' \in [Slot -> Byte]
  BY <1>2 DEF IInv, TypeOK
<1>4. /\ read' \in 0..Capacity - 1 /\ write' \in 0..Capacity - 1 /\ size' \in 0..Capacity
      /\ write' = IF read' + size' < Capacity THEN read' + size' ELSE read' + size' - Capacity
  BY <1>1, <1>2 DEF ResetAtEnd
<1> QED
  BY <1>3, <1>4, Zenon DEF IInv, TypeOK, PointersAgree, Slot

(* The write side of FsDelegatePipe preserves the invariant. *)
LEMMA WriteInv ==
  ASSUME IInv, NEW n \in 0..MaxRequest, NEW bytes \in [1..n -> Byte], requestWrite(bytes)
  PROVE  IInv'
<1> DEFINE space == Capacity - size
           length == IF space >= n THEN n ELSE space
           spaceToEnd == Capacity - write
           remain == length - spaceToEnd
<1>1. /\ Capacity \in Nat \ {0} /\ n \in Nat
      /\ read \in 0..Capacity - 1 /\ write \in 0..Capacity - 1 /\ size \in 0..Capacity
      /\ write = IF read + size < Capacity THEN read + size ELSE read + size - Capacity
      /\ buffer \in [Slot -> Byte]
  BY CapacityAssumption, RequestAssumption DEF IInv, TypeOK, PointersAgree, Slot
<1>2. Len(bytes) = n
  BY <1>1
<1>3. /\ write' = IF length > spaceToEnd THEN ResetAtEnd(remain)
                                         ELSE ResetAtEnd(write + length)
      /\ buffer' = IF length > spaceToEnd
                     THEN CopyIn(CopyIn(buffer, write, bytes, 0, spaceToEnd),
                                 0, bytes, spaceToEnd, remain)
                     ELSE CopyIn(buffer, write, bytes, 0, length)
      /\ size' = size + length /\ read' = read
  BY <1>2 DEF requestWrite
<1>4. ASSUME NEW buf \in [Slot -> Byte], NEW to \in Nat, NEW skip \in Nat, NEW k \in Nat,
             skip + k <= n
      PROVE  CopyIn(buf, to, bytes, skip, k) \in [Slot -> Byte]
  BY <1>1, <1>4 DEF CopyIn, Slot
<1>5. buffer' \in [Slot -> Byte]
  <2>1. CASE length > spaceToEnd
    <3>1. CopyIn(buffer, write, bytes, 0, spaceToEnd) \in [Slot -> Byte]
      <4>1. write \in Nat /\ spaceToEnd \in Nat /\ 0 + spaceToEnd <= n /\ 0 \in Nat
        BY <1>1, <2>1
      <4> HIDE DEF length, spaceToEnd, remain
      <4> QED BY <1>1, <1>4, <4>1
    <3>2. spaceToEnd \in Nat /\ remain \in Nat /\ spaceToEnd + remain <= n /\ 0 \in Nat
      BY <1>1, <2>1
    <3>3. buffer' = CopyIn(CopyIn(buffer, write, bytes, 0, spaceToEnd),
                           0, bytes, spaceToEnd, remain)
      BY <1>3, <2>1
    <3> HIDE DEF length, spaceToEnd, remain
    <3> QED BY <1>4, <3>1, <3>2, <3>3
  <2>2. CASE ~(length > spaceToEnd)
    <3>1. buffer' = CopyIn(buffer, write, bytes, 0, length)
      BY <1>3, <2>2
    <3>2. write \in Nat /\ length \in Nat /\ 0 + length <= n /\ 0 \in Nat
      BY <1>1
    <3> HIDE DEF length, spaceToEnd, remain
    <3> QED BY <1>1, <1>4, <3>1, <3>2
  <2> QED BY <2>1, <2>2
<1>6. /\ read' \in 0..Capacity - 1 /\ write' \in 0..Capacity - 1 /\ size' \in 0..Capacity
      /\ write' = IF read' + size' < Capacity THEN read' + size' ELSE read' + size' - Capacity
  BY <1>1, <1>3 DEF ResetAtEnd
<1> QED
  BY <1>5, <1>6, Zenon DEF IInv, TypeOK, PointersAgree, Slot

(* Every step of the pipe preserves the invariant. *)
LEMMA StepInv == IInv /\ [Next]_vars => IInv'
<1> SUFFICES ASSUME IInv, [Next]_vars PROVE IInv'
  OBVIOUS
<1>1. CASE \E n \in 0..MaxRequest : requestRead(n)
  BY <1>1, ReadInv
<1>2. CASE \E n \in 0..MaxRequest : \E bytes \in [1..n -> Byte] : requestWrite(bytes)
  BY <1>2, WriteInv
<1>3. CASE UNCHANGED vars
  BY <1>3 DEF vars, IInv, TypeOK, PointersAgree, Slot
<1> QED BY <1>1, <1>2, <1>3 DEF Next

(* Both pointers stay inside the buffer and size inside the capacity. *)
THEOREM TypeCorrect == Spec => []TypeOK
<1>1. Spec => []IInv
  BY InitInv, StepInv, PTL DEF Spec
<1> QED BY <1>1, PTL DEF IInv

(* The write pointer is always exactly `size' slots ahead of the read one. *)
THEOREM PointersAlwaysAgree == Spec => []PointersAgree
<1>1. Spec => []IInv
  BY InitInv, StepInv, PTL DEF Spec
<1> QED BY <1>1, PTL DEF IInv

-----------------------------------------------------------------------------
(* The bytes in a ring are a sequence as long as its size field says. *)
LEMMA HeldIsSequence ==
  ASSUME NEW buf \in [Slot -> Byte], NEW rd \in Slot, NEW sz \in 0..Capacity
  PROVE  /\ Held(buf, rd, sz) \in Seq(Byte)
         /\ Len(Held(buf, rd, sz)) = sz
         /\ \A i \in 1..sz : Held(buf, rd, sz)[i] = buf[Wrapped(rd + i - 1)]
<1>1. \A i \in 1..sz : Wrapped(rd + i - 1) \in Slot
  BY CapacityAssumption DEF Slot, Wrapped
<1>2. \A i \in 1..sz : buf[Wrapped(rd + i - 1)] \in Byte
  BY <1>1
<1>3. sz \in Nat
  BY CapacityAssumption
<1> HIDE DEF Wrapped
<1> QED BY <1>2, <1>3 DEF Held

(* What Memory::copy reads is a sequence of the length asked for. *)
LEMMA CopyOutIsSequence ==
  ASSUME buffer \in [Slot -> Byte], NEW from \in Nat, NEW n \in Nat, from + n <= Capacity
  PROVE  /\ CopyOut(from, n) \in Seq(Byte)
         /\ Len(CopyOut(from, n)) = n
         /\ \A i \in 1..n : CopyOut(from, n)[i] = buffer[from + i - 1]
<1>1. \A i \in 1..n : from + i - 1 \in Slot
  BY CapacityAssumption DEF Slot
<1>2. \A i \in 1..n : buffer[from + i - 1] \in Byte
  BY <1>1
<1> QED BY <1>2 DEF CopyOut

(* requestRead takes the oldest bytes, across the end of the buffer or not. *)
LEMMA ReadTakes ==
  ASSUME IInv, IInv', NEW n \in 0..MaxRequest, requestRead(n)
  PROVE  Fifo!Take(n)
<1> DEFINE length == IF size >= n THEN n ELSE size
           spaceToEnd == Capacity - read
           remaining == length - spaceToEnd
<1>1. /\ Capacity \in Nat \ {0} /\ n \in Nat
      /\ read \in 0..Capacity - 1 /\ size \in 0..Capacity
      /\ buffer \in [Slot -> Byte]
  BY CapacityAssumption, RequestAssumption DEF IInv, TypeOK, Slot
<1>2. /\ returned' = IF length > spaceToEnd
                       THEN CopyOut(read, spaceToEnd) \o CopyOut(0, remaining)
                       ELSE CopyOut(read, length)
      /\ read' = IF length > spaceToEnd THEN ResetAtEnd(remaining)
                                        ELSE ResetAtEnd(read + length)
      /\ size' = size - length /\ buffer' = buffer /\ call' = <<"read", n>>
  BY DEF requestRead
<1>3. length \in 0..size /\ length <= n
  BY <1>1
<1>4. /\ Stored \in Seq(Byte) /\ Len(Stored) = size
      /\ \A i \in 1..size : Stored[i] = buffer[Wrapped(read + i - 1)]
  BY HeldIsSequence DEF IInv, TypeOK, Stored
<1>5. /\ Stored' \in Seq(Byte) /\ Len(Stored') = size - length
      /\ \A i \in 1..size - length : Stored'[i] = buffer[Wrapped(read' + i - 1)]
  <2>1. /\ buffer' \in [Slot -> Byte] /\ read' \in Slot /\ size' \in 0..Capacity
    BY DEF IInv, TypeOK, Slot
  <2> HIDE DEF length
  <2> QED BY <2>1, HeldIsSequence, <1>2 DEF Stored
<1>6. /\ returned' \in Seq(Byte) /\ Len(returned') = length
      /\ \A i \in 1..length : returned'[i] = buffer[Wrapped(read + i - 1)]
  <2>1. CASE length > spaceToEnd
    <3> DEFINE first == CopyOut(read, spaceToEnd)
               second == CopyOut(0, remaining)
    <3>1. /\ read \in Nat /\ spaceToEnd \in Nat /\ read + spaceToEnd <= Capacity
          /\ 0 \in Nat /\ remaining \in Nat /\ 0 + remaining <= Capacity
          /\ length = spaceToEnd + remaining
      BY <1>1, <2>1
    <3>2. /\ first \in Seq(Byte) /\ Len(first) = spaceToEnd
          /\ \A i \in 1..spaceToEnd : first[i] = buffer[read + i - 1]
      <4> HIDE DEF length, spaceToEnd, remaining
      <4> QED BY <1>1, <3>1, CopyOutIsSequence
    <3>3. /\ second \in Seq(Byte) /\ Len(second) = remaining
          /\ \A i \in 1..remaining : second[i] = buffer[0 + i - 1]
      <4> HIDE DEF length, spaceToEnd, remaining
      <4> QED BY <1>1, <3>1, CopyOutIsSequence
    <3>4. returned' = first \o second
      BY <1>2, <2>1
    <3> HIDE DEF first, second
    <3>5. /\ returned' \in Seq(Byte) /\ Len(returned') = length
          /\ \A i \in 1..length :
               returned'[i] = IF i <= spaceToEnd THEN first[i] ELSE second[i - spaceToEnd]
      <4>1. /\ first \o second \in Seq(Byte)
            /\ Len(first \o second) = Len(first) + Len(second)
            /\ \A i \in 1..Len(first) + Len(second) :
                 (first \o second)[i] = IF i <= Len(first) THEN first[i]
                                                         ELSE second[i - Len(first)]
        BY <3>2, <3>3, ConcatProperties
      <4> HIDE DEF length, spaceToEnd, remaining
      <4> QED BY <3>1, <3>2, <3>3, <3>4, <4>1
    <3>6. ASSUME NEW i \in 1..length
          PROVE  returned'[i] = buffer[Wrapped(read + i - 1)]
      <4>1. CASE i <= spaceToEnd
        <5>1. i \in 1..spaceToEnd /\ Wrapped(read + i - 1) = read + i - 1
          BY <1>1, <3>1, <4>1 DEF Wrapped
        <5> HIDE DEF length, spaceToEnd, remaining
        <5> QED BY <3>2, <3>5, <4>1, <5>1
      <4>2. CASE ~(i <= spaceToEnd)
        <5>1. i - spaceToEnd \in 1..remaining
          BY <1>1, <3>1, <4>2
        <5>2. Wrapped(read + i - 1) = 0 + (i - spaceToEnd) - 1
          BY <1>1, <3>1, <4>2 DEF Wrapped
        <5> HIDE DEF length, spaceToEnd, remaining
        <5> QED BY <3>3, <3>5, <4>2, <5>1, <5>2
      <4> QED BY <4>1, <4>2
    <3> QED BY <3>5, <3>6
  <2>2. CASE ~(length > spaceToEnd)
    <3>1. /\ read \in Nat /\ length \in Nat /\ read + length <= Capacity
      BY <1>1, <2>2
    <3>2. returned' = CopyOut(read, length)
      BY <1>2, <2>2
    <3>3. \A i \in 1..length : Wrapped(read + i - 1) = read + i - 1
      BY <1>1, <3>1 DEF Wrapped
    <3> HIDE DEF length, spaceToEnd, remaining
    <3>4. /\ CopyOut(read, length) \in Seq(Byte) /\ Len(CopyOut(read, length)) = length
          /\ \A i \in 1..length : CopyOut(read, length)[i] = buffer[read + i - 1]
      BY <1>1, <3>1, CopyOutIsSequence
    <3> QED BY <3>2, <3>3, <3>4
  <2> QED BY <2>1, <2>2
<1>7. \A i \in 1..size - length : Wrapped(read' + i - 1) = Wrapped(read + (length + i) - 1)
  BY <1>1, <1>2, <1>3 DEF Wrapped, ResetAtEnd
<1> HIDE DEF length, spaceToEnd, remaining
<1>8. returned' = SubSeq(Stored, 1, length)
  <2>1. /\ SubSeq(Stored, 1, length) \in Seq(Byte) /\ Len(SubSeq(Stored, 1, length)) = length
        /\ \A i \in 1..length : SubSeq(Stored, 1, length)[i] = Stored[i]
    BY <1>1, <1>3, <1>4
  <2>2. \A i \in 1..length : i \in 1..size
    BY <1>1, <1>3
  <2>3. \A i \in 1..Len(returned') : returned'[i] = SubSeq(Stored, 1, length)[i]
    BY <1>4, <1>6, <2>1, <2>2
  <2> QED BY <1>6, <2>1, <2>3, SeqEqual
<1>9. Stored' = SubSeq(Stored, length + 1, size)
  <2> DEFINE rest == SubSeq(Stored, length + 1, size)
  <2>1. /\ rest \in Seq(Byte) /\ Len(rest) = size - length
        /\ \A i \in 1..size - length : rest[i] = Stored[length + i]
    BY <1>1, <1>3, <1>4
  <2>2. \A i \in 1..size - length : length + i \in 1..size
    BY <1>1, <1>3
  <2> HIDE DEF rest
  <2>3. ASSUME NEW i \in 1..size - length
        PROVE  Stored'[i] = rest[i]
    <3>1. Stored'[i] = buffer[Wrapped(read' + i - 1)]
      BY <1>5
    <3>2. rest[i] = buffer[Wrapped(read + (length + i) - 1)]
      BY <1>4, <2>1, <2>2
    <3> QED BY <1>7, <3>1, <3>2
  <2>4. Stored' = rest
    BY <1>5, <2>1, <2>3, SeqEqual
  <2> QED BY <2>4 DEF rest
<1>10. length = Fifo!Shortest(n, Len(Stored))
  BY <1>1, <1>4 DEF length, Fifo!Shortest
<1> QED BY <1>2, <1>4, <1>8, <1>9, <1>10 DEF Fifo!Take

(* requestWrite appends the bytes that fit, across the end of the buffer or *)
(* not, and overwrites none that are still to be read.                       *)
LEMMA WritePuts ==
  ASSUME IInv, IInv', NEW n \in 0..MaxRequest, NEW bytes \in [1..n -> Byte],
         requestWrite(bytes)
  PROVE  Fifo!Put(bytes)
<1> DEFINE space == Capacity - size
           length == IF space >= n THEN n ELSE space
           spaceToEnd == Capacity - write
           remain == length - spaceToEnd
           part == SubSeq(bytes, 1, length)
<1>1. /\ Capacity \in Nat \ {0} /\ n \in Nat
      /\ read \in 0..Capacity - 1 /\ write \in 0..Capacity - 1 /\ size \in 0..Capacity
      /\ write = IF read + size < Capacity THEN read + size ELSE read + size - Capacity
      /\ buffer \in [Slot -> Byte]
  BY CapacityAssumption, RequestAssumption DEF IInv, TypeOK, PointersAgree, Slot
<1>2. bytes \in Seq(Byte) /\ Len(bytes) = n
  BY <1>1
<1>3. /\ buffer' = IF length > spaceToEnd
                     THEN CopyIn(CopyIn(buffer, write, bytes, 0, spaceToEnd),
                                 0, bytes, spaceToEnd, remain)
                     ELSE CopyIn(buffer, write, bytes, 0, length)
      /\ size' = size + length /\ read' = read
      /\ call' = <<"write", bytes>> /\ returned' = <<length>>
  BY <1>2 DEF requestWrite
<1>4. length \in 0..n /\ size + length <= Capacity
  BY <1>1
<1>5. /\ Stored \in Seq(Byte) /\ Len(Stored) = size
      /\ \A i \in 1..size : Stored[i] = buffer[Wrapped(read + i - 1)]
  BY HeldIsSequence DEF IInv, TypeOK, Stored
<1>6. /\ Stored' \in Seq(Byte) /\ Len(Stored') = size + length
      /\ \A i \in 1..size + length : Stored'[i] = buffer'[Wrapped(read + i - 1)]
  <2>1. /\ buffer' \in [Slot -> Byte] /\ read' \in Slot /\ size' \in 0..Capacity
    BY DEF IInv, TypeOK, Slot
  <2> HIDE DEF length
  <2> QED BY <2>1, HeldIsSequence, <1>3 DEF Stored
<1>7. ASSUME NEW i \in 1..size
      PROVE  buffer'[Wrapped(read + i - 1)] = buffer[Wrapped(read + i - 1)]
  <2> DEFINE p == Wrapped(read + i - 1)
  <2>1. p \in Slot /\ ~(write <= p /\ p < write + length) /\ (length > spaceToEnd => ~(p < remain))
    BY <1>1, <1>4 DEF Wrapped, Slot
  <2>2. length > spaceToEnd => ~(write <= p /\ p < write + spaceToEnd)
    BY <1>1, <1>4, <2>1 DEF Slot
  <2> HIDE DEF p
  <2>3. CASE length > spaceToEnd
    <3>1. ~(0 <= p /\ p < 0 + remain)
      BY <1>1, <1>4, <2>1, <2>3 DEF Slot
    <3> HIDE DEF length, spaceToEnd, remain
    <3>2. buffer' = CopyIn(CopyIn(buffer, write, bytes, 0, spaceToEnd), 0, bytes, spaceToEnd, remain)
      BY <1>3, <2>3
    <3>3. CopyIn(buffer, write, bytes, 0, spaceToEnd)[p] = buffer[p]
      BY <2>1, <2>2, <2>3 DEF CopyIn
    <3> QED BY <2>1, <3>1, <3>2, <3>3 DEF CopyIn, p
  <2>4. CASE ~(length > spaceToEnd)
    <3> HIDE DEF length, spaceToEnd
    <3> QED BY <1>3, <2>1, <2>4 DEF CopyIn, p
  <2> QED BY <2>3, <2>4
<1>8. ASSUME NEW i \in 1..length
      PROVE  buffer'[Wrapped(read + (size + i) - 1)] = bytes[i]
  <2> DEFINE p == Wrapped(read + (size + i) - 1)
  <2>1. p \in Slot
    BY <1>1, <1>4 DEF Wrapped, Slot
  <2>2. CASE length > spaceToEnd
    <3>1. buffer' = CopyIn(CopyIn(buffer, write, bytes, 0, spaceToEnd), 0, bytes, spaceToEnd, remain)
      BY <1>3, <2>2
    <3>2. CASE i <= spaceToEnd
      <4>1. ~(0 <= p /\ p < 0 + remain) /\ write <= p /\ p < write + spaceToEnd
            /\ 0 + p - write + 1 = i
        BY <1>1, <1>4, <2>2, <3>2 DEF Wrapped
      <4> HIDE DEF p, length, spaceToEnd, remain
      <4>2. CopyIn(buffer, write, bytes, 0, spaceToEnd)[p] = bytes[i]
        BY <2>1, <4>1 DEF CopyIn
      <4> QED BY <2>1, <3>1, <4>1, <4>2 DEF CopyIn, p
    <3>3. CASE ~(i <= spaceToEnd)
      <4>1. 0 <= p /\ p < 0 + remain /\ spaceToEnd + p - 0 + 1 = i
        BY <1>1, <1>4, <2>2, <3>3 DEF Wrapped
      <4> HIDE DEF p, length, spaceToEnd, remain
      <4> QED BY <2>1, <3>1, <4>1 DEF CopyIn, p
    <3> QED BY <3>2, <3>3
  <2>3. CASE ~(length > spaceToEnd)
    <3>1. buffer' = CopyIn(buffer, write, bytes, 0, length)
      BY <1>3, <2>3
    <3>2. write <= p /\ p < write + length /\ 0 + p - write + 1 = i
      BY <1>1, <1>4, <2>3 DEF Wrapped
    <3> HIDE DEF p, length, spaceToEnd
    <3> QED BY <2>1, <3>1, <3>2 DEF CopyIn, p
  <2> QED BY <2>2, <2>3
<1>9. length = Fifo!Shortest(Len(bytes), Capacity - Len(Stored))
  BY <1>1, <1>2, <1>5 DEF Fifo!Shortest
<1> HIDE DEF length, spaceToEnd, remain
<1>10. /\ part \in Seq(Byte) /\ Len(part) = length
       /\ \A i \in 1..length : part[i] = bytes[i]
  BY <1>2, <1>4
<1> HIDE DEF part
<1>11. /\ Stored \o part \in Seq(Byte) /\ Len(Stored \o part) = size + length
       /\ \A i \in 1..size + length :
            (Stored \o part)[i] = IF i <= size THEN Stored[i] ELSE part[i - size]
  <2>1. /\ Stored \o part \in Seq(Byte)
        /\ Len(Stored \o part) = Len(Stored) + Len(part)
        /\ \A i \in 1..Len(Stored) + Len(part) :
             (Stored \o part)[i] = IF i <= Len(Stored) THEN Stored[i] ELSE part[i - Len(Stored)]
    BY <1>5, <1>10, ConcatProperties
  <2> QED BY <1>5, <1>10, <2>1
<1>12. ASSUME NEW i \in 1..size + length
       PROVE  Stored'[i] = (Stored \o part)[i]
  <2>1. CASE i <= size
    <3>1. i \in 1..size
      BY <1>1, <1>4, <2>1
    <3> QED BY <1>5, <1>6, <1>7, <1>11, <2>1, <3>1
  <2>2. CASE ~(i <= size)
    <3>1. i - size \in 1..length /\ read + (size + (i - size)) - 1 = read + i - 1
      BY <1>1, <1>4, <2>2
    <3>2. buffer'[Wrapped(read + i - 1)] = bytes[i - size]
      BY <1>8, <3>1
    <3> QED BY <1>6, <1>10, <1>11, <2>2, <3>1, <3>2
  <2> QED BY <2>1, <2>2
<1>13. Stored' = Stored \o part
  BY <1>6, <1>11, <1>12, SeqEqual
<1> QED BY <1>3, <1>9, <1>13 DEF Fifo!Put, part

(* The ring buffer implements the bounded FIFO of ByteFifo: for every        *)
(* capacity and every length of the calls, a read of FsDelegatePipe returns  *)
(* the oldest bytes in the order they were written, and a write loses none.  *)
THEOREM PipeIsFifo == Spec => IsFifo
<1>1. create => Fifo!Init
  <2>1. create => Stored = << >>
    BY DEF create, Stored, Held
  <2> QED BY <2>1 DEF create, Fifo!Init
<1>2. ASSUME IInv, IInv', [Next]_vars
      PROVE  [Fifo!Next]_<<Stored, call, returned>>
  <2>1. CASE \E n \in 0..MaxRequest : requestRead(n)
    BY <1>2, <2>1, ReadTakes DEF Fifo!Next
  <2>2. CASE \E n \in 0..MaxRequest : \E bytes \in [1..n -> Byte] : requestWrite(bytes)
    BY <1>2, <2>2, WritePuts DEF Fifo!Next
  <2>3. CASE UNCHANGED vars
    BY <2>3 DEF vars, Stored, Held
  <2> QED BY <1>2, <2>1, <2>2, <2>3 DEF Next
<1>3. Spec => []IInv
  BY InitInv, StepInv, PTL DEF Spec
<1> QED BY <1>1, <1>2, <1>3, PTL DEF Spec, IsFifo, Fifo!Spec
===============================================================================
