------------------------------ MODULE PortQueue ------------------------------
(***************************************************************************)
(* What a port promises: the messages it has accepted are received in the  *)
(* order of their acceptance, each once, with consecutive sequence numbers,*)
(* whatever port sets the port is moved through, until it is destroyed.    *)
(***************************************************************************)
EXTENDS Naturals, Sequences

CONSTANTS
    Ports,
    Messages,
    SeqnoLimit      \* sequence numbers are counted modulo this

VARIABLES
    pending,    \* port -> messages accepted and not yet received, oldest first
    received,   \* messages handed to a receiver, with their port and number
    next_seqno, \* port -> the number of the next message received from it
    alive       \* ports not destroyed

vars == <<pending, received, next_seqno, alive>>

Init ==
    /\ pending = [p \in Ports |-> <<>>]
    /\ received = {}
    /\ next_seqno = [p \in Ports |-> 0]
    /\ alive = Ports

\* The first n messages of queue, with the numbers they are received under.
Numbered(p, queue, n) ==
    {[msg |-> queue[i], port |-> p, seqno |-> (next_seqno[p] + i - 1) % SeqnoLimit] :
        i \in 1..n}

\* p accepts a message, or none, and the oldest are received.
Exchange(p, accepted) ==
    LET queue == pending[p] \o accepted
    IN \E n \in 0..Len(queue) :
         /\ p \in alive
         /\ pending' = [pending EXCEPT ![p] = SubSeq(queue, n + 1, Len(queue))]
         /\ received' = received \cup Numbered(p, queue, n)
         /\ next_seqno' = [next_seqno EXCEPT ![p] = (@ + n) % SeqnoLimit]
         /\ UNCHANGED alive

\* A receiver is done with its message.
Consume(r) ==
    /\ received' = received \ {r}
    /\ UNCHANGED <<pending, next_seqno, alive>>

Renumber(p, n) ==
    /\ p \in alive
    /\ next_seqno' = [next_seqno EXCEPT ![p] = n]
    /\ UNCHANGED <<pending, received, alive>>

Destroy(p) ==
    /\ alive' = alive \ {p}
    /\ next_seqno' = [next_seqno EXCEPT ![p] = 0]
    /\ UNCHANGED <<pending, received>>

Discard(p) ==
    /\ p \notin alive
    /\ pending[p] # <<>>
    /\ pending' = [pending EXCEPT ![p] = Tail(@)]
    /\ UNCHANGED <<received, next_seqno, alive>>

Next ==
    \/ \E p \in Ports :
         \/ Exchange(p, <<>>) \/ \E m \in Messages : Exchange(p, <<m>>)
         \/ \E n \in 0..(SeqnoLimit - 1) : Renumber(p, n)
         \/ Destroy(p) \/ Discard(p)
    \/ \E r \in received : Consume(r)

Spec == Init /\ [][Next]_vars
=============================================================================
