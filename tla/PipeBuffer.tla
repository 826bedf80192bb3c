------------------------------ MODULE PipeBuffer ------------------------------
(***************************************************************************)
(* The ring buffer of one pipe: struct Pipe (pipes.hpp) and the two copies  *)
(* FsDelegatePipe makes in and out of it.  Pointers are offsets from        *)
(* pipe->buffer.  Who may call, and what happens when nothing can be copied,*)
(* is in PipeEnds.                                                          *)
(***************************************************************************)
EXTENDS Naturals, Sequences

CONSTANTS Byte,        \* the values a byte can have
          Capacity,    \* PIPE_DEFAULT_CAPACITY
          MaxRequest   \* bound: longest read or write that is considered

ASSUME CapacityAssumption == Capacity \in Nat \ {0}
ASSUME RequestAssumption == MaxRequest \in Nat

VARIABLES buffer,      \* the bytes at pipe->buffer
          read,        \* offset of pipe->read
          write,       \* offset of pipe->write
          size,        \* pipe->size, bytes stored
          call,        \* the last call: its kind and its argument
          returned     \* what it handed back: the bytes read or the count written

vars == <<buffer, read, write, size, call, returned>>

Slot == 0..Capacity - 1

(* The buffer comes from new[] and is not cleared. *)
create ==
    /\ buffer \in [Slot -> Byte]
    /\ read = 0
    /\ write = 0
    /\ size = 0
    /\ call = << >>
    /\ returned = << >>

(* n bytes from offset `from', as Memory::copy reads them. *)
CopyOut(from, n) == [i \in 1..n |-> buffer[from + i - 1]]

(* Slip: the second part of a wrapped write starts at the caller's first byte again. *)
CopyInFromStart(buf, to, bytes, skip, n) ==
    [k \in Slot |-> IF to <= k /\ k < to + n THEN bytes[k - to + 1] ELSE buf[k]]

(* The buffer with the n bytes of `bytes' after the first `skip' of them   *)
(* stored from offset `to'.                                                 *)
CopyIn(buf, to, bytes, skip, n) ==
    [k \in Slot |-> IF to <= k /\ k < to + n THEN bytes[skip + k - to + 1] ELSE buf[k]]

(* Slip: the pointer may rest one past the last byte. *)
ResetAtEndLate(pointer) == IF pointer > Capacity THEN 0 ELSE pointer

ResetAtEnd(pointer) == IF pointer = Capacity THEN 0 ELSE pointer

requestRead(requested) ==
    LET length == IF size >= requested THEN requested ELSE size
        spaceToEnd == Capacity - read
        remaining == length - spaceToEnd
    IN  /\ length > 0
        /\ IF length > spaceToEnd
             THEN /\ returned' = CopyOut(read, spaceToEnd) \o CopyOut(0, remaining)
                  /\ read' = ResetAtEnd(remaining)
             ELSE /\ returned' = CopyOut(read, length)
                  /\ read' = ResetAtEnd(read + length)
        /\ size' = size - length
        /\ call' = <<"read", requested>>
        /\ UNCHANGED <<buffer, write>>

requestWrite(bytes) ==
    LET space == Capacity - size
        length == IF space >= Len(bytes) THEN Len(bytes) ELSE space
        spaceToEnd == Capacity - write
        remain == length - spaceToEnd
    IN  /\ space > 0
        /\ IF length > spaceToEnd
             THEN /\ buffer' = CopyIn(CopyIn(buffer, write, bytes, 0, spaceToEnd),
                                      0, bytes, spaceToEnd, remain)
                  /\ write' = ResetAtEnd(remain)
             ELSE /\ buffer' = CopyIn(buffer, write, bytes, 0, length)
                  /\ write' = ResetAtEnd(write + length)
        /\ size' = size + length
        /\ call' = <<"write", bytes>>
        /\ returned' = <<length>>
        /\ UNCHANGED read

Next ==
    \/ \E n \in 0..MaxRequest : requestRead(n)
    \/ \E n \in 0..MaxRequest : \E bytes \in [1..n -> Byte] : requestWrite(bytes)

Spec == create /\ [][Next]_vars

-----------------------------------------------------------------------------
(* Type invariant of struct Pipe: both pointers stay inside the buffer (the *)
(* resets at FsDelegatePipe.cpp:104 and 206) and size inside the capacity.   *)
TypeOK ==
    /\ buffer \in [Slot -> Byte]
    /\ read \in Slot
    /\ write \in Slot
    /\ size \in 0..Capacity

(* The three fields requestRead and requestWrite update separately agree:   *)
(* the write pointer is `size' slots ahead of the read pointer, so neither   *)
(* copy touches bytes the other still owns.                                  *)
PointersAgree == write = IF read + size < Capacity THEN read + size ELSE read + size - Capacity

(* The offset p slots after the start of the buffer, wrapped at its end. *)
Wrapped(p) == IF p < Capacity THEN p ELSE p - Capacity

(* The bytes in a ring with these fields, oldest first. *)
Held(buf, rd, sz) == [i \in 1..sz |-> buf[Wrapped(rd + i - 1)]]

(* The bytes a reader will still get, oldest first. *)
Stored == Held(buffer, read, size)

Fifo == INSTANCE ByteFifo WITH content <- Stored

(* The ring buffer is a bounded FIFO: a read returns the oldest bytes in the *)
(* order they were written whatever the wrap-around, and a write loses none. *)
IsFifo == Fifo!Spec
===============================================================================
