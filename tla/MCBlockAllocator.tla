---------------------------- MODULE MCBlockAllocator -------------------------
\* BlockAllocator for TLC: threads and addresses are alike.
EXTENDS BlockAllocator, TLC

Alike == Permutations(Threads) \cup Permutations(Blocks)
=============================================================================
