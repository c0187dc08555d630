------------------------------ MODULE MCSQLite ------------------------------
EXTENDS SQLiteAdapter, TLC

Symmetry == Permutations(Callers)
=============================================================================
