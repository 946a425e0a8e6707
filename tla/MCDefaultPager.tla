--------------------------- MODULE MCDefaultPager ---------------------------
\* Instances of DefaultPager for TLC.
EXTENDS DefaultPager

CONSTANTS p1, p2

\* A content of its own for each page tells apart the pages, and each of
\* them from a page that has been lost.
OneEach == [p \in Pages |-> IF p = p1 THEN {1} ELSE {2}]

\* Two contents of a page tell an old one from the last one.
TwoOfOne == [p \in Pages |-> IF p = p1 THEN {1, 2} ELSE {3}]

\* Sequence numbers matter only as turns: two states that differ by a rotation
\* of the numbers of an object have the same steps and the same properties.
View ==
    <<[t \in Threads |-> IF thread[t].pc = "lock"
                         THEN [thread[t] EXCEPT !.seqno = After(ds[Obj(t)].seqno, @)]
                         ELSE thread[t]],
      [o \in Objects |-> [ds[o] EXCEPT !.seqno = 0]],
      [o \in Objects |-> After(ds[o].seqno, received[o])],
      waiting, lister, store, queue, kernel, content>>
=============================================================================
