--------------------------- MODULE ReadersWriter ---------------------------
(***************************************************************************)
(* What a Mach complex lock promises its callers (kern/lock.c, "Provide    *)
(* reader/writer sychronization"): the outermost hold of every thread is   *)
(* none, read or write; a writer is alone; an upgrade that succeeds turns  *)
(* the caller's own read hold into a write hold in one step, so nobody has *)
(* written since the read hold was granted; a failed upgrade gives the     *)
(* read hold up; a downgrade keeps the lock held throughout.               *)
(***************************************************************************)
CONSTANT Threads

VARIABLE mode       \* thread -> its outermost hold

Modes == {"none", "read", "write"}

Others(t) == Threads \ {t}

Init == mode = [t \in Threads |-> "none"]

AcquireRead(t) ==
    /\ mode[t] = "none"
    /\ \A u \in Others(t) : mode[u] # "write"
    /\ mode' = [mode EXCEPT ![t] = "read"]

\* From nothing (lock_write) or from a read hold (lock_read_to_write).
AcquireWrite(t) ==
    /\ mode[t] \in {"none", "read"}
    /\ \A u \in Others(t) : mode[u] = "none"
    /\ mode' = [mode EXCEPT ![t] = "write"]

Downgrade(t) ==
    /\ mode[t] = "write"
    /\ mode' = [mode EXCEPT ![t] = "read"]

Release(t) ==
    /\ mode[t] # "none"
    /\ mode' = [mode EXCEPT ![t] = "none"]

Next ==
    \E t \in Threads :
        AcquireRead(t) \/ AcquireWrite(t) \/ Downgrade(t) \/ Release(t)

Spec == Init /\ [][Next]_mode
=============================================================================
