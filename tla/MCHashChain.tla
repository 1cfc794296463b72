------------------------------ MODULE MCHashChain ------------------------------
(* Two tenants, four records between them, two faults, one checkpoint.        *)
EXTENDS HashChain

CONSTANTS t1, t2, x, y, z

Interchangeable == Permutations(Tenants) \cup Permutations(Bodies)
===============================================================================
