-------------------------- MODULE MCSessionManager --------------------------
(* Instance of SessionManager for TLC: threads are interchangeable.          *)
EXTENDS SessionManager, TLC

ThreadSymmetry == Permutations(Threads)
=============================================================================
