------------------------------ MODULE MCMemory ------------------------------
EXTENDS MemoryAdapter, TLC

Symmetry == Permutations(Callers) \cup Permutations(CheckoutIds)
=============================================================================
