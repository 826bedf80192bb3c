---------------------------- MODULE PrivateMemory ----------------------------
(***************************************************************************)
(* What processes may expect of their memory: each has pages of its own, a  *)
(* store changes one page of the process that stores, getting and giving    *)
(* back pages leaves the others alone, and a forked process starts with     *)
(* what its parent has at that moment.                                      *)
(***************************************************************************)
CONSTANTS Process, Page,
          Stored,       \* the values programs store
          Old           \* what a page holds that nobody has stored to

VARIABLE memory         \* the content of the pages each process has

Init == memory = [p \in Process |-> [v \in {} |-> Old]]

Store(p) ==
    \E v \in DOMAIN memory[p], x \in Stored : memory' = [memory EXCEPT ![p][v] = x]

Resize(p) ==
    /\ DOMAIN memory'[p] \subseteq Page
    /\ memory' = [memory EXCEPT ![p] =
          [v \in DOMAIN memory'[p] |-> IF v \in DOMAIN memory[p] THEN memory[p][v] ELSE Old]]

Fork(p, child) ==
    /\ DOMAIN memory[child] = {}
    /\ memory' = [memory EXCEPT ![child] = memory[p]]

Next ==
    \/ \E p \in Process : Store(p) \/ Resize(p)
    \/ \E p, child \in Process : Fork(p, child)

Spec == Init /\ [][Next]_memory
=============================================================================
