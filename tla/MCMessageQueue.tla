--------------------------- MODULE MCMessageQueue ---------------------------
\* Instances of MessageQueue for TLC.
EXTENDS MessageQueue, TLC

Symmetry ==
    Permutations(Senders \ Receivers) \cup Permutations(Receivers \ Senders)
        \cup Permutations(Large) \cup Permutations(Messages \ Large)
        \cup Permutations(Psets)

\* A dead port's counts are not read again, nor is the wait_result of a thread
\* that has been told why it was woken.  (th = th makes TLC evaluate all of th,
\* which it puts off otherwise and then cannot write to disk.)
View ==
    <<[p \in Ports |-> IF port[p].active THEN port[p]
                       ELSE [port[p] EXCEPT !.msgcount = 0, !.qlimit = 0]],
      [t \in Threads |-> IF th[t].state \in {"SEND_IN_PROGRESS", "RCV_IN_PROGRESS"} THEN th[t]
                         ELSE [th[t] EXCEPT !.wait_result = "NONE"]],
      blocked, active_set, mq, pc, call, dest, free, panicked, th = th>>
=============================================================================
