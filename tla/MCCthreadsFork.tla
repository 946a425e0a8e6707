--------------------------- MODULE MCCthreadsFork ---------------------------
\* Instances of CthreadsFork for TLC.
EXTENDS CthreadsFork

\* Without a limit as many cprocs run as threads are forked: fewer forks.
Forks == [l \in Limits |-> IF l = 0 THEN 2 ELSE 3]
=============================================================================
