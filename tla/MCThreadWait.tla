---------------------------- MODULE MCThreadWait ----------------------------
\* Instances of ThreadWait for TLC.
EXTENDS ThreadWait, TLC

CONSTANTS t1, t2, t3

\* Who aborts whom: everybody everybody else, all but t1 do, each the next of
\* three in a row, or two the same third.
Everybody  == {p \in Threads \X Threads : p[1] # p[2]}
Chain      == {<<t1, t2>>, <<t2, t3>>}
TwoAbort   == {p \in Everybody : p[1] # t1}
Converging == {<<t1, t3>>, <<t2, t3>>}
Nobody     == {}

\* wait_result matters only to a thread that is about to read it: TLC need not
\* tell apart states that differ in results nobody will read.
ReadsResult(t) == pc[t] \in {"halt_block", "halt_woken", "dowait_block", "dowait_woken"}

View ==
    <<[t \in Threads |-> IF ReadsResult(t) THEN th[t]
                         ELSE [th[t] EXCEPT !.wait_result = "AWAKENED"]],
      at, pc, call, target, evt, work, softclock, stops, unheld_halt, panicked>>

\* Behaviours are followed up to the first halt of a thread that is not held,
\* which the properties except and thread_left is about.
BeforeUnheldHalt == ~unheld_halt
=============================================================================
