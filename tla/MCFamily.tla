------------------------------ MODULE MCFamily ------------------------------
EXTENDS Family, TLC

\* Only init is special.
Symmetry == Permutations(Tasks \ {InitTask})
=============================================================================
