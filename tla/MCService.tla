------------------------------ MODULE MCService ------------------------------
(* Instance of Service for TLC: threads are interchangeable.                 *)
EXTENDS Service, TLC

ThreadSymmetry == Permutations(Threads)
=============================================================================
