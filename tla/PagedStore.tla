----------------------------- MODULE PagedStore -----------------------------
(***************************************************************************)
(* What a pager promises the kernel about the pages it keeps: a page that  *)
(* is paged in has the content it had when it was paged out, unless the    *)
(* pager has said that it lost something, and every request is answered.   *)
(***************************************************************************)
CONSTANTS
    Pages,
    Values,         \* contents of a page
    Empty,          \* the content of a page nobody has written
    Out,            \* not in memory
    Wanted          \* requested from the pager

VARIABLES
    content,        \* page -> its content
    memory,         \* page -> what memory has of it
    broken          \* a transfer has failed, or there is no room for a page

vars == <<content, memory, broken>>

Init ==
    /\ content = [p \in Pages |-> Empty]
    /\ memory = [p \in Pages |-> Out]
    /\ broken = FALSE

Request(p) ==
    /\ memory[p] = Out
    /\ memory' = [memory EXCEPT ![p] = Wanted]
    /\ UNCHANGED <<content, broken>>

Supply(p) ==
    /\ memory[p] = Wanted
    /\ memory' = [memory EXCEPT ![p] = content[p]]
    /\ UNCHANGED <<content, broken>>

Refuse(p) ==
    /\ memory[p] = Wanted
    /\ broken
    /\ memory' = [memory EXCEPT ![p] = Out]
    /\ broken' \in BOOLEAN
    /\ UNCHANGED content

Answer(p) == Supply(p) \/ Refuse(p)

Modify(p) ==
    /\ memory[p] \in Values
    /\ \E v \in Values :
          /\ content' = [content EXCEPT ![p] = v]
          /\ memory' = [memory EXCEPT ![p] = v]
    /\ UNCHANGED broken

PageOut(p) ==
    /\ memory[p] \in Values
    /\ memory' = [memory EXCEPT ![p] = Out]
    /\ UNCHANGED <<content, broken>>

\* The first content of a page that memory never had.
Initialize(p) ==
    /\ memory[p] = Out
    /\ content[p] = Empty
    /\ \E v \in Values : content' = [content EXCEPT ![p] = v]
    /\ UNCHANGED <<memory, broken>>

\* The kernel gives up an object and what it had of its pages.
Terminate ==
    /\ \E gone \in SUBSET Pages :
          memory' = [p \in Pages |-> IF p \in gone THEN Out ELSE memory[p]]
    /\ UNCHANGED <<content, broken>>

Break == broken' \in BOOLEAN /\ UNCHANGED <<content, memory>>

Next ==
    \/ \E p \in Pages : Request(p) \/ Answer(p) \/ Modify(p) \/ PageOut(p) \/ Initialize(p)
    \/ Terminate
    \/ Break

Spec == Init /\ [][Next]_vars /\ \A p \in Pages : WF_vars(Answer(p))
=============================================================================
