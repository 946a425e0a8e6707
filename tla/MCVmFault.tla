----------------------------- MODULE MCVmFault -----------------------------
\* Instances of VmFault for TLC.
EXTENDS VmFault, TLC

Symmetry == Permutations(Maps) \cup Permutations(Threads)
=============================================================================
