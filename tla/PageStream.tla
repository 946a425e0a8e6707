----------------------------- MODULE PageStream -----------------------------
(***************************************************************************)
(* What NORMA IPC promises between two nodes: the pages of the messages    *)
(* that one sends arrive at the other, each once and in order, and a       *)
(* message is given up by its sender only when all its pages have arrived. *)
(***************************************************************************)
EXTENDS Naturals, Sequences

CONSTANTS
    Nodes,
    Load        \* from, to -> the lengths, in pages, of the messages sent

VARIABLES
    queued,     \* from, to -> how many messages have been given to be sent
    got,        \* from, to -> the page that arrived last: <<message, page>>
    freed       \* from, to -> how many messages the sender has given up

vars == <<queued, got, freed>>

NoPage == <<0, 0>>

\* The page that follows page p of the messages of lengths load.
NextPage(load, p) ==
    IF p[1] > 0 /\ p[2] < load[p[1]] THEN <<p[1], p[2] + 1>> ELSE <<p[1] + 1, 1>>

\* All pages of the messages up to the i-th are at, or before, page p.
Arrived(load, p, i) == p[1] > i \/ p = <<i, load[i]>>

Zero == [n \in Nodes |-> [m \in Nodes |-> 0]]

Init ==
    /\ queued = Zero
    /\ freed = Zero
    /\ got = [n \in Nodes |-> [m \in Nodes |-> NoPage]]

Send(n, m) ==
    /\ queued[n][m] < Len(Load[n][m])
    /\ queued' = [queued EXCEPT ![n][m] = @ + 1]
    /\ UNCHANGED <<got, freed>>

Deliver(n, m) ==
    LET p == NextPage(Load[n][m], got[n][m])
    IN /\ p[1] <= queued[n][m]
       /\ got' = [got EXCEPT ![n][m] = p]
       /\ UNCHANGED <<queued, freed>>

Free(n, m) ==
    /\ freed[n][m] < queued[n][m]
    /\ Arrived(Load[n][m], got[n][m], freed[n][m] + 1)
    /\ freed' = [freed EXCEPT ![n][m] = @ + 1]
    /\ UNCHANGED <<queued, got>>

Next ==
    \E n, m \in Nodes :
        Load[n][m] # <<>> /\ (Send(n, m) \/ Deliver(n, m) \/ Free(n, m))

Spec == Init /\ [][Next]_vars
=============================================================================
