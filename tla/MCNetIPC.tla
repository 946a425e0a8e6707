------------------------------ MODULE MCNetIPC ------------------------------
\* Instances of NetIPC for TLC.
EXTENDS NetIPC

CONSTANTS a, b

\* Both nodes send, one of them a message of two pages.
BothWays == [n \in Nodes |-> [m \in Nodes |->
    CASE <<n, m>> = <<a, b>> -> <<2>> [] <<n, m>> = <<b, a>> -> <<1>> [] OTHER -> <<>>]]

OneWay == [n \in Nodes |-> [m \in Nodes |-> IF <<n, m>> = <<a, b>> THEN <<1>> ELSE <<>>]]

\* What is not read again: the seqid of a control packet that is no longer due, and
\* the ticks of a timer that does not run.
View ==
    <<[n \in Nodes |-> [node[n] EXCEPT
        !.pcs = [m \in Nodes |-> [@[m] EXCEPT
            !.ctl_seqid = IF node[n].pcs[m].ctl = "NONE" THEN 0 ELSE @,
            !.ticks = @ /\ Tabled(node[n].timers, m)]]]],
      net, queued, got>>

OnePage == [n \in Nodes |-> IF n = b THEN 1 ELSE 0]
=============================================================================
