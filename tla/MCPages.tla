------------------------------- MODULE MCPages -------------------------------
(***************************************************************************)
(* Instance of Pages for model checking: one program that forks twice, or    *)
(* whose child forks again.  Page 0 is the image, page 1 the only page of     *)
(* the heap; pages 2 and 3 are the stack.                                     *)
(***************************************************************************)
EXTENDS Pages, TLC

CONSTANTS p1, p2, p3

MCAmounts == {-2, 1}
MCAccessed == {1, Top - 2}
MCSyscallPages == {Top - 2}

(* A frame for each stack page and the image, and as many for each page of a *)
(* heap as processes can hold on to after it was copied or mapped again.      *)
MCFrame ==
    {<<p, v, 1>> : p \in Process, v \in StackArea} \cup {<<p1, 0, 1>>}
        \cup {<<p, v, i>> \in Process \X (Area \ {0}) \X (1..3) : p = p1 \/ i < 3}
MCHome == [f \in MCFrame |-> <<f[1], f[2]>>]

(* The processes that are forked differ in nothing but their names. *)
Forked == Permutations(Process \ Spawned)
=============================================================================
