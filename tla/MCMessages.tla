----------------------------- MODULE MCMessages -----------------------------
(* Instances of Messages with the sizes of the code, except for the limit of a  *)
(* queue, which is set so that the messages of a run reach it.                  *)
EXTENDS Messages, TLC

CONSTANTS Alice, Bob

Symmetry == Permutations({Alice, Bob})
===============================================================================
