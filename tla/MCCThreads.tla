---------------------------- MODULE MCCThreads ----------------------------
\* Instances of CThreads for TLC.
EXTENDS CThreads

\* Idle stacks and kernel threads are alike; so are the cprocs but the first.
Symmetry == Permutations(Cprocs \ {Main}) \cup Permutations(KernelThreads) \cup Permutations(Waiters)
=============================================================================
