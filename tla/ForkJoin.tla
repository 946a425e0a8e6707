------------------------------ MODULE ForkJoin ------------------------------
(***************************************************************************)
(* What cthread_fork, cthread_join and cthread_detach promise: a forked    *)
(* thread runs once, its joiner gets its own result, and its main thread   *)
(* outlives it.  Every promise here is also one that something happens.    *)
(***************************************************************************)
EXTENDS Integers, FiniteSets

CONSTANTS
    Jobs,           \* the calls of cthread_fork
    Limits,         \* the values of limit
    None

VARIABLES
    limit,          \* threads of control at a time, 0 for no limit
    job,            \* job -> how far its thread is
    detached,       \* the threads that nobody will join
    results,        \* job -> what its joiner got
    main            \* "alive", "exiting" or "exited"

vars == <<limit, job, detached, results, main>>

Running == {j \in Jobs : job[j] = "running"}

Init ==
    /\ limit \in Limits
    /\ job = [j \in Jobs |-> "unborn"]
    /\ detached = {}
    /\ results = [j \in Jobs |-> None]
    /\ main = "alive"

Fork(j) ==
    /\ job[j] = "unborn"
    /\ job' = [job EXCEPT ![j] = "forked"]
    /\ UNCHANGED <<limit, detached, results, main>>

\* One of the threads of control is the main thread's.
Run(j) ==
    /\ job[j] = "forked"
    /\ limit = 0 \/ Cardinality(Running) < limit - 1
    /\ job' = [job EXCEPT ![j] = "running"]
    /\ UNCHANGED <<limit, detached, results, main>>

Return(j) ==
    /\ job[j] = "running"
    /\ job' = [job EXCEPT ![j] = IF j \in detached THEN "over" ELSE "returned"]
    /\ detached' = detached \ {j}
    /\ UNCHANGED <<limit, results, main>>

Detach(j) ==
    /\ job[j] \in {"forked", "running", "returned"}
    /\ j \notin detached
    /\ IF job[j] = "returned"
       THEN job' = [job EXCEPT ![j] = "over"] /\ UNCHANGED detached
       ELSE detached' = detached \cup {j} /\ UNCHANGED job
    /\ UNCHANGED <<limit, results, main>>

Join(j) ==
    /\ job[j] = "returned"
    /\ job' = [job EXCEPT ![j] = "over"]
    /\ results' = [results EXCEPT ![j] = j]
    /\ UNCHANGED <<limit, detached, main>>

StartExit ==
    /\ main = "alive"
    /\ main' = "exiting"
    /\ UNCHANGED <<limit, job, detached, results>>

Exit ==
    /\ main = "exiting"
    /\ \A j \in Jobs : job[j] \in {"unborn", "returned", "over"}
    /\ main' = "exited"
    /\ UNCHANGED <<limit, job, detached, results>>

Next ==
    \/ \E j \in Jobs : Fork(j) \/ Run(j) \/ Return(j) \/ Detach(j) \/ Join(j)
    \/ StartExit
    \/ Exit

Spec ==
    /\ Init /\ [][Next]_vars
    /\ \A j \in Jobs : WF_vars(Run(j))
    /\ WF_vars(Exit)
=============================================================================
