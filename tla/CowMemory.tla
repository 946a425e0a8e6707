----------------------------- MODULE CowMemory -----------------------------
(***************************************************************************)
(* What virtual memory promises about a page of memory that maps inherit   *)
(* from each other: maps that share it see each other's writes, and a copy *)
(* keeps the value it was made with whatever the others write.             *)
(***************************************************************************)
EXTENDS Naturals

CONSTANT Maps

VARIABLES
    live,           \* the maps that have the page
    writes,         \* how often the page has been written
    value,          \* map -> what a task that runs in it reads: the number of a write, or 0
    sharing         \* map -> the maps that share the page with it, itself included

vars == <<live, writes, value, sharing>>

Init ==
    /\ \E m \in Maps : live = {m}
    /\ writes = 0
    /\ value = [m \in Maps |-> 0]
    /\ sharing = [m \in Maps |-> {m} \cap live]

Write(m) ==
    /\ writes' = writes + 1
    /\ value' = [n \in Maps |-> IF n \in sharing[m] THEN writes + 1 ELSE value[n]]
    /\ UNCHANGED <<live, sharing>>

Share(m, n) ==
    /\ live' = live \cup {n}
    /\ sharing' = [k \in Maps |-> IF k \in sharing[m] \cup {n} THEN sharing[m] \cup {n}
                                  ELSE sharing[k]]
    /\ value' = [value EXCEPT ![n] = value[m]]
    /\ UNCHANGED writes

Copy(m, n) ==
    /\ live' = live \cup {n}
    /\ sharing' = [sharing EXCEPT ![n] = {n}]
    /\ value' = [value EXCEPT ![n] = value[m]]
    /\ UNCHANGED writes

Delete(m) ==
    /\ live' = live \ {m}
    /\ sharing' = [k \in Maps |-> IF k = m THEN {} ELSE sharing[k] \ {m}]
    /\ value' = [value EXCEPT ![m] = 0]
    /\ UNCHANGED writes

Next ==
    \E m \in live :
       \/ Write(m) \/ Delete(m)
       \/ \E n \in Maps \ live : Share(m, n) \/ Copy(m, n)

Spec == Init /\ [][Next]_vars
=============================================================================
