---------------------------- MODULE MCBytesShared ----------------------------
EXTENDS BytesShared, TLC

Symmetry == Permutations(Threads)
==============================================================================
