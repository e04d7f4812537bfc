----------------------------- MODULE MCSession -----------------------------
(* Instances of Session for TLC: threads are interchangeable in the safety   *)
(* runs.                                                                     *)
EXTENDS Session, TLC

ThreadSymmetry == Permutations(Threads)
=============================================================================
