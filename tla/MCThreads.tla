------------------------------ MODULE MCThreads ------------------------------
(***************************************************************************)
(* Instances of Threads for TLC: cores as numbers.                         *)
(***************************************************************************)
EXTENDS Threads, TLC

CONSTANTS t1, t2, t3

Symmetry == Permutations(Thread \ {Main})

TwoCores == 0 .. 1
ThreeCores == 0 .. 2
=============================================================================
