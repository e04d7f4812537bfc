---------------------------- MODULE MCWriteQueue ----------------------------
(* Instance of WriteQueue for TLC: threads are interchangeable, and so are   *)
(* the nodes of the pool.                                                    *)
EXTENDS WriteQueue, TLC

Symmetry == Permutations(Threads) \cup Permutations(Pool)
=============================================================================
