----------------------------- MODULE MCRecovery -----------------------------
(* Model-checking instances of Recovery: the threads are interchangeable.  *)
EXTENDS Recovery, TLC

ThreadSymmetry == Permutations(Threads)
=============================================================================
