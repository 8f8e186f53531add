----------------------------- MODULE MCSessions -----------------------------
EXTENDS Sessions, TLC
CONSTANTS t1, t2, u1
OwnerOf == [t \in Tokens |-> u1]
Symmetry == Permutations(Reqs)
=============================================================================
