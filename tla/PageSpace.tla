------------------------------- MODULE PageSpace -------------------------------
(* What a pool of address ranges promises: blocks of consecutive pages that do *)
(* not overlap, taken at the lowest place where there is room.                 *)
EXTENDS Integers

CONSTANTS Region, Flags, Request, Address

VARIABLES
    space,   \* the pages that belong to the pool
    blocks,  \* the blocks that are allocated
    result   \* what the last call returned

PagesOf(r) == r.base .. (r.base + r.pages - 1)

IsFree(p) == p \in space /\ \A k \in blocks : p \notin PagesOf(k)
IsRun(b, n) == \A p \in b .. (b + n - 1) : IsFree(p)

Init == space = {} /\ blocks = {} /\ result = 0

Insert(r) ==
    /\ space' = space \cup PagesOf(r)
    /\ UNCHANGED <<blocks, result>>

AtLeastOne(n) == IF n = 0 THEN 1 ELSE n

(* A call fails only if there is no run of n free pages. *)
Allocate(n, f) ==
    \/ /\ \A b \in space : ~IsRun(b, n)
       /\ result' = 0
       /\ UNCHANGED <<space, blocks>>
    \/ \E b \in space :
         /\ IsRun(b, n) /\ \A c \in space : IsRun(c, n) => b <= c
         /\ blocks' = blocks \cup {[base |-> b, pages |-> n, flags |-> f]}
         /\ result' = b
         /\ UNCHANGED space

Free(k) ==
    /\ blocks' = blocks \ {k}
    /\ result' = k.pages
    /\ UNCHANGED space

(* There is no such block. *)
FreeNothing(b) ==
    /\ \A k \in blocks : k.base # b
    /\ result' = -1
    /\ UNCHANGED <<space, blocks>>

Next ==
    \/ \E r \in Region : Insert(r)
    \/ \E n \in Request, f \in Flags : Allocate(AtLeastOne(n), f)
    \/ \E k \in blocks : Free(k)
    \/ \E b \in Address : FreeNothing(b)

Spec == Init /\ [][Next]_<<space, blocks, result>>
===============================================================================
