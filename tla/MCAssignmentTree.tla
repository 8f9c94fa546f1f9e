-------------------------- MODULE MCAssignmentTree --------------------------
EXTENDS AssignmentTree, TLC
Symmetry == Permutations(Children)
=============================================================================
