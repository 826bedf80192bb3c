------------------------------- MODULE MCTasking -------------------------------
(* Thread ids are interchangeable, except for the threads that exist at start. *)
EXTENDS Tasking, TLC
Symmetry == Permutations(FirstThreads) \cup Permutations(Thread \ FirstThreads)
===============================================================================
