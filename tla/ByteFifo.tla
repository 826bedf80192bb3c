------------------------------- MODULE ByteFifo -------------------------------
(***************************************************************************)
(* What a pipe promises to the processes that hold its ends: a bounded      *)
(* first-in first-out sequence of bytes.  A write takes the longest prefix  *)
(* of the caller's bytes that fits, a read takes the oldest bytes, both in  *)
(* one step.  PipeBuffer implements this with a ring buffer.                *)
(***************************************************************************)
EXTENDS Naturals, Sequences

CONSTANTS Byte,        \* the values a byte can have
          Capacity,    \* PIPE_DEFAULT_CAPACITY
          MaxRequest   \* longest read or write that is considered

VARIABLES content,     \* the bytes written and not yet read, oldest first
          call,        \* the last call: its kind and its argument
          returned     \* what it handed back: the bytes read or the count written

Shortest(a, b) == IF a <= b THEN a ELSE b

Init == content = << >> /\ call = << >> /\ returned = << >>

Take(n) ==
    LET k == Shortest(n, Len(content))
    IN  /\ call' = <<"read", n>>
        /\ returned' = SubSeq(content, 1, k)
        /\ content' = SubSeq(content, k + 1, Len(content))

Put(bytes) ==
    LET k == Shortest(Len(bytes), Capacity - Len(content))
    IN  /\ call' = <<"write", bytes>>
        /\ returned' = <<k>>
        /\ content' = content \o SubSeq(bytes, 1, k)

Next ==
    \/ \E n \in 0..MaxRequest : Take(n)
    \/ \E n \in 0..MaxRequest : \E bytes \in [1..n -> Byte] : Put(bytes)

Spec == Init /\ [][Next]_<<content, call, returned>>
===============================================================================
