----------------------------- MODULE MCPipeEnds -----------------------------
(* Two processes that exist at the start and one that is forked; the first    *)
(* has two threads.                                                           *)
EXTENDS PipeEnds, TLC

CONSTANTS parent, peer, child, t1, t2, t3, t4

MCOwner == t1 :> parent @@ t2 :> parent @@ t3 :> peer @@ t4 :> child

(* The process that forks and the one that is forked, with a thread each. *)
OwnerOfTwo == t1 :> parent @@ t4 :> child

(* Copies a program can make without a slip: into a new descriptor of a       *)
(* process that was not forked, or onto a lower descriptor of its own.        *)
CarefulCopies ==
    ({3} \X {parent} \X {AnyFd} \X {peer})
    \cup ({4} \X {parent} \X {3} \X {parent})
=============================================================================
