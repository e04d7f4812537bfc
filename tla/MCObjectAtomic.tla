--------------------------- MODULE MCObjectAtomic ---------------------------
EXTENDS ObjectAtomic, TLC

MCSymmetry == Permutations(Threads) \cup Permutations(Objects)
============================================================================
