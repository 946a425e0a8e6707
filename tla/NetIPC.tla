------------------------------- MODULE NetIPC -------------------------------
(***************************************************************************)
(* Messages between the nodes of a NORMA cluster over a network that       *)
(* loses, delays, reorders and duplicates packets (norma/ipc_unreliable.c, *)
(* with the sending side of norma/ipc_output.c and the receiving side of   *)
(* norma/ipc_input.c).                                                     *)
(*                                                                         *)
(* Everything runs under the netipc lock (norma/ipc_net.c), which defers   *)
(* interrupts: one action is what a thread or an interrupt does while it   *)
(* holds it.  Nodes stay up, each node sends to another through one remote *)
(* port, which stays alive where it is, and the data of a message is one   *)
(* copy object without continuation.                                       *)
(***************************************************************************)
EXTENDS Integers, FiniteSets, SequencesExt

CONSTANTS
    Nodes,
    Load,       \* from, to -> the lengths, in pages, of the messages sent
    MaxPages,   \* bound: node -> pages on its list (netipc_page_list_high)
    Booted,     \* nodes whose netipc thread has already found a page to receive into
    NetSize     \* bound: different packets under way; one more is lost

ASSUME NetIPCAssumption ==
    /\ Load \in [Nodes -> [Nodes -> Seq(Nat \ {0})]]
    /\ MaxPages \in [Nodes -> Nat]
    /\ Booted \subseteq Nodes
    /\ NetSize \in Nat \ {0}

VARIABLES
    node,       \* node -> its netipc variables, pcs and packets to send
    net,        \* packets under way
    queued,     \* from, to -> messages given to norma_ipc_send so far
    got         \* from, to -> the page delivered last

vars == <<node, net, queued, got>>

NoPage == <<0, 0>>

MaxWindowSize == 1
WX == MaxWindowSize + 1     \* slots for packets not acknowledged

NoDp == [kmsg |-> 0, first |-> 0, last |-> 0, last_unacked |-> 0]
IdlePcs ==
    [known |-> FALSE, last_received |-> 0, last_sent |-> 0, nacked |-> 0,
     unacked |-> {}, ctl |-> "NONE", ctl_seqid |-> 0, ticks |-> FALSE]
IdleNode ==
    [sending |-> FALSE, stopped |-> TRUE, pages |-> 0,
     timers |-> <<>>, unacks |-> <<>>, sends |-> <<>>,
     pcs |-> [m \in Nodes |-> IdlePcs],
     dp |-> [m \in Nodes |-> NoDp],
     kmsgs |-> [m \in Nodes |-> <<>>],
     out |-> {}, panicked |-> FALSE, corrupt |-> FALSE]

Zero == [n \in Nodes |-> [m \in Nodes |-> 0]]

Ctls == {"NONE", "SYNC", "ACK", "NACK"}
Pages == Nat \X Nat
Packets ==
    [src : Nodes, dst : Nodes, type : {"KMSG", "PAGE", "CTL"}, seqid : Nat,
     page : Pages, ctl : Ctls, ctl_seqid : Nat]

Pcss ==
    [known : BOOLEAN, last_received : Nat, last_sent : Nat, nacked : Nat,
     unacked : SUBSET (0..MaxWindowSize), ctl : Ctls, ctl_seqid : Nat, ticks : BOOLEAN]
Dps == [kmsg : Nat, first : Nat, last : Nat, last_unacked : Nat]

\* A pcs is on each queue once at most.
Queue(queue) == queue \in Seq(Nodes) /\ IsInjective(queue)

NodeOK(k) ==
    /\ {k.sending, k.stopped, k.panicked, k.corrupt} \subseteq BOOLEAN
    /\ k.pages \in Nat
    /\ Queue(k.timers) /\ Queue(k.unacks) /\ Queue(k.sends)
    /\ k.pcs \in [Nodes -> Pcss]
    /\ k.dp \in [Nodes -> Dps]
    /\ k.kmsgs \in [Nodes -> Seq(Nat)]
    /\ k.out = {}

\* The variables keep their ranges, and a pcs is on no queue twice although
\* queue_enter is called from everywhere.
TypeOK ==
    /\ \A n \in Nodes : NodeOK(node[n]) /\ node[n].pages <= MaxPages[n]
    /\ net \subseteq Packets /\ Cardinality(net) <= NetSize
    /\ queued \in [Nodes -> [Nodes -> Nat]]
    /\ got \in [Nodes -> [Nodes -> Pages]]

Init ==
    /\ node = [n \in Nodes |-> [IdleNode EXCEPT !.stopped = n \notin Booted]]
    /\ net = {}
    /\ queued = Zero
    /\ got = [n \in Nodes |-> [m \in Nodes |-> NoPage]]

-----------------------------------------------------------------------------
(* The handlers below map the variables k of node n to their new values;   *)
(* k.out is what they hand to the network.                                 *)

Asserting(k, condition) == [k EXCEPT !.panicked = @ \/ ~condition]

Tabled(queue, m) == Contains(queue, m)

Enter(queue, m) == IF Tabled(queue, m) THEN queue ELSE Append(queue, m)

CtlPacket(n, m, ctl, ctl_seqid) ==
    [src |-> n, dst |-> m, type |-> "CTL", seqid |-> 0, page |-> NoPage,
     ctl |-> ctl, ctl_seqid |-> ctl_seqid]

DataPacket(n, m, d, seqid) ==
    [src |-> n, dst |-> m, type |-> IF seqid = d.first THEN "KMSG" ELSE "PAGE",
     seqid |-> seqid, page |-> <<d.kmsg, seqid - d.first + 1>>,
     ctl |-> "NONE", ctl_seqid |-> 0]

\* netipc_send_ctl()
SendCtl(n, k, m, ctl, ctl_seqid) ==
    [Asserting(k, ~k.sending) EXCEPT
        !.sending = TRUE,
        !.out = @ \cup {CtlPacket(n, m, ctl, ctl_seqid)}]

\* netipc_queue_ctl(): a control packet that still waits is overwritten.
QueueCtl(n, k, m, ctl, ctl_seqid) ==
    IF k.sending
    THEN [k EXCEPT !.pcs[m].ctl = ctl, !.pcs[m].ctl_seqid = ctl_seqid,
                   !.sends = Enter(@, m)]
    ELSE SendCtl(n, k, m, ctl, ctl_seqid)

\* netipc_set_seqid(): the end of a message is known once its data is looked at.
SetSeqid(n, m, d, seqid) ==
    IF d # NoDp /\ seqid > d.first /\ d.last = 0
    THEN [d EXCEPT !.last = d.first + Load[n][m][d.kmsg] - 1]
    ELSE d

\* netipc_send_dp(), and netipc_send_with_timeout() for the packet with seqid.
SendDp(n, k, m, seqid) ==
    LET d == SetSeqid(n, m, k.dp[m], seqid)
        valid == d # NoDp /\ d.first <= seqid /\ (d.last = 0 \/ seqid <= d.last)
        p == k.pcs[m]
    IN [Asserting(k, ~k.sending /\ valid) EXCEPT
            !.sending = TRUE,
            !.dp[m] = d,
            !.pcs[m].unacked = @ \cup {seqid % WX},
            !.pcs[m].last_sent = IF seqid > @ THEN seqid ELSE @,
            !.pcs[m].ticks = Tabled(k.timers, m) /\ @,
            !.timers = Enter(@, m),
            !.out = @ \cup {DataPacket(n, m, d, seqid)}]

\* netipc_send_new() has something to send: this is stop and wait.
MaySendNew(k, m, seqid) ==
    LET d == k.dp[m]
    IN /\ d # NoDp
       /\ d.last = 0 \/ seqid <= d.last
       /\ seqid <= d.last_unacked

\* netipc_start()
Start(n, k, m) ==
    LET seqid == k.pcs[m].last_sent + 1
    IN IF k.sending THEN [k EXCEPT !.sends = Enter(@, m)]
       ELSE IF MaySendNew(k, m, seqid) THEN SendDp(n, k, m, seqid)
       ELSE Asserting(k, FALSE)

NewDp(n, m, kmsg, seqid) ==
    [kmsg |-> kmsg, first |-> seqid, last_unacked |-> seqid,
     last |-> IF Load[n][m][kmsg] = 1 THEN seqid ELSE 0]

\* Take the next message off the remote port: dp_advance(), and the end of
\* norma_ipc_queue_port().
Advance(n, k, m) ==
    IF k.kmsgs[m] = <<>> THEN [k EXCEPT !.dp[m] = NoDp]
    ELSE Start(n, [k EXCEPT
                    !.dp[m] = NewDp(n, m, Head(k.kmsgs[m]), k.pcs[m].last_sent + 1),
                    !.kmsgs[m] = Tail(@)], m)

\* netipc_recv_success()
RecvSuccess(n, k, m, seqid) ==
    LET d == k.dp[m]
        kk == [Asserting(k, d # NoDp /\ seqid = d.last_unacked)
                EXCEPT !.dp[m].last_unacked = @ + 1]
    IN IF d.last # 0 /\ d.last = seqid THEN Advance(n, kk, m) ELSE Start(n, kk, m)

UnackedSeqid(p) == IF p.last_sent % WX \in p.unacked THEN p.last_sent ELSE 0

ObsoleteSeqid(p, seqid) ==
    \/ seqid > p.last_sent
    \/ seqid <= p.last_sent - MaxWindowSize
    \/ seqid % WX \notin p.unacked

\* Mutant: whoever sends is left to find the nack by itself.
RecvNack_NotQueued(n, k, m, seqid) ==
    IF ObsoleteSeqid(k.pcs[m], seqid) THEN k
    ELSE IF k.sending
    THEN [k EXCEPT !.pcs[m].nacked = seqid,
                   !.corrupt = @ \/ ~Tabled(k.timers, m),
                   !.timers = Remove(@, m)]
    ELSE SendDp(n, k, m, seqid)

\* netipc_recv_nack(): queue_untable() of an entry that is not on the queue
\* writes through its stale links.
RecvNack(n, k, m, seqid) ==
    IF ObsoleteSeqid(k.pcs[m], seqid) THEN k
    ELSE IF k.sending
    THEN [k EXCEPT !.pcs[m].nacked = seqid,
                   !.corrupt = @ \/ ~Tabled(k.timers, m),
                   !.timers = Remove(@, m),
                   !.sends = Enter(@, m)]
    ELSE SendDp(n, k, m, seqid)

\* Mutant: a recorded nack is not forgotten.
RecvAck_KeepsNack(n, k, m, seqid) ==
    IF ObsoleteSeqid(k.pcs[m], seqid) THEN k
    ELSE RecvSuccess(n, [k EXCEPT !.pcs[m].unacked = @ \ {seqid % WX}], m, seqid)

\* netipc_recv_ack()
RecvAck(n, k, m, seqid) ==
    IF ObsoleteSeqid(k.pcs[m], seqid) THEN k
    ELSE RecvSuccess(n, [k EXCEPT !.pcs[m].unacked = @ \ {seqid % WX},
                                  !.pcs[m].nacked = IF @ = seqid THEN 0 ELSE @],
                     m, seqid)

RecvSync(n, k, m, seqid) ==
    LET last_received == k.pcs[m].last_received
    IN IF seqid < last_received THEN k
       ELSE IF seqid = last_received THEN QueueCtl(n, k, m, "ACK", seqid)
       ELSE QueueCtl(n, Asserting(k, seqid = last_received + 1), m, "NACK", seqid)

RecvCtl(n, k, m, p) ==
    CASE p.ctl = "SYNC" -> RecvSync(n, k, m, p.ctl_seqid)
      [] p.ctl = "ACK"  -> RecvAck(n, k, m, p.ctl_seqid)
      [] p.ctl = "NACK" -> RecvNack(n, k, m, p.ctl_seqid)
      [] OTHER          -> k

-----------------------------------------------------------------------------
(* Actions.                                                                *)

Running(n) == ~node[n].panicked /\ ~node[n].corrupt

\* The new packets, and those of rest but for what the network has to give up.
Transmit(packets, rest) ==
    LET all == rest \cup packets
    IN \E lost \in SUBSET (all \ packets) :
         /\ net' = all \ lost
         /\ Cardinality(lost) = IF Cardinality(all) > NetSize
                                THEN Cardinality(all) - NetSize ELSE 0

Update(n, k, rest) ==
    /\ node' = [node EXCEPT ![n] = [k EXCEPT !.out = {}]]
    /\ Transmit(k.out, rest)

\* norma_ipc_send(), norma_ipc_queue_port()
IpcSend(n, m) ==
    LET k == [node[n] EXCEPT !.kmsgs[m] = Append(@, queued[n][m] + 1)]
    IN /\ Running(n)
       /\ queued[n][m] < Len(Load[n][m])
       /\ queued' = [queued EXCEPT ![n][m] = @ + 1]
       /\ Update(n, IF k.dp[m] = NoDp THEN Advance(n, k, m) ELSE k, net)
       /\ UNCHANGED got

\* A packet arrives.  It may arrive again: rest still has it then.
Arrives(n, p, rest) ==
    /\ Running(n)
    /\ p \in net /\ p.dst = n
    /\ rest \in {net, net \ {p}}

\* A valid first packet opens the connection.
Opens(p) == IF p.type = "CTL" THEN p.ctl_seqid = 1 ELSE p.seqid = 1

Known(k, p) ==
    [Asserting(k, k.pcs[p.src].known \/ k.pcs[p.src].last_received = 0)
        EXCEPT !.pcs[p.src].known = TRUE]

RecvUnknown(n, p, rest) ==
    /\ Arrives(n, p, rest)
    /\ ~node[n].pcs[p.src].known /\ ~Opens(p)
    /\ Update(n, QueueCtl(n, node[n], p.src, "NONE", p.seqid), rest)
    /\ UNCHANGED <<queued, got>>

ArrivesKnown(n, p, rest) ==
    Arrives(n, p, rest) /\ (node[n].pcs[p.src].known \/ Opens(p))

RecvControl(n, p, rest) ==
    /\ ArrivesKnown(n, p, rest)
    /\ p.type = "CTL"
    /\ Update(n, RecvCtl(n, Known(node[n], p), p.src, p), rest)
    /\ UNCHANGED <<queued, got>>

\* A packet that has been received is acknowledged again, if it is the last one.
RecvOld(n, p, rest) ==
    LET k == Known(node[n], p)
        last_received == k.pcs[p.src].last_received
    IN /\ ArrivesKnown(n, p, rest)
       /\ p.type # "CTL" /\ p.seqid <= last_received
       /\ Update(n, IF p.seqid = last_received
                    THEN QueueCtl(n, k, p.src, "ACK", p.seqid) ELSE k, rest)
       /\ UNCHANGED <<queued, got>>

\* Mutant: what has been received is received again.
ArrivesNew_Any(n, p, rest) == ArrivesKnown(n, p, rest) /\ p.type # "CTL"

ArrivesNew(n, p, rest) ==
    /\ ArrivesKnown(n, p, rest)
    /\ p.type # "CTL" /\ p.seqid > node[n].pcs[p.src].last_received

\* There is no page to receive into: a NACK is due when there is one again.
RecvStopped(n, p, rest) ==
    LET k == Known(node[n], p)
    IN /\ ArrivesNew(n, p, rest)
       /\ k.stopped
       /\ Update(n, [k EXCEPT !.unacks = Enter(@, p.src)], rest)
       /\ UNCHANGED <<queued, got>>

\* norma_deliver_page() panics if no message from the node is incomplete.
Incomplete(n, m) ==
    got[m][n] # NoPage /\ got[m][n][2] \in 1..(Load[m][n][got[m][n][1]] - 1)
Deliverable(n, p) == p.type = "KMSG" \/ Incomplete(n, p.src)

\* The packet is delivered, norma_ipc_ack() acknowledges it and takes another
\* page to receive into.
RecvNew(n, p, rest) ==
    LET k == Known(node[n], p)
        last_received == k.pcs[p.src].last_received
        kk == [Asserting(k, last_received = p.seqid - 1 /\ Deliverable(n, p))
                EXCEPT !.pcs[p.src].last_received = p.seqid]
        acked == QueueCtl(n, kk, p.src, "ACK", p.seqid)
    IN /\ ArrivesNew(n, p, rest)
       /\ ~k.stopped
       /\ got' = [got EXCEPT ![p.src][n] = p.page]
       /\ Update(n, IF k.pages > 0 THEN [acked EXCEPT !.pages = @ - 1]
                    ELSE [acked EXCEPT !.stopped = TRUE], rest)
       /\ UNCHANGED queued

\* norma_deliver_page() finds no copy object and pretends to have seen nothing.
RecvDropped(n, p, rest) ==
    /\ ArrivesNew(n, p, rest)
    /\ ~node[n].stopped
    /\ p.type = "PAGE" /\ p.page[2] = 2
    /\ Update(n, Asserting(Known(node[n], p), Deliverable(n, p)), rest)
    /\ UNCHANGED <<queued, got>>

Recv(n, p, rest) ==
    \/ RecvUnknown(n, p, rest) \/ RecvControl(n, p, rest) \/ RecvOld(n, p, rest)
    \/ RecvStopped(n, p, rest) \/ RecvNew(n, p, rest) \/ RecvDropped(n, p, rest)

\* _netipc_send_intr(): the packet has been sent.
SendPendingCtl(n, k, m) ==
    SendCtl(n, [k EXCEPT !.pcs[m].ctl = "NONE"], m, k.pcs[m].ctl, k.pcs[m].ctl_seqid)

\* There may be something to retransmit: the loop goes on after it.
SendNacked(n, k, m) ==
    LET seqid == k.pcs[m].nacked
    IN IF seqid = 0 THEN k
       ELSE SendDp(n, [Asserting(k, seqid % WX \in k.pcs[m].unacked)
                        EXCEPT !.pcs[m].nacked = 0], m, seqid)

SendRound(n, s, m) ==
    LET k == SendNacked(n, s.k, m)
        seqid == k.pcs[m].last_sent + 1
    IN IF s.returned THEN s
       ELSE IF s.k.pcs[m].ctl # "NONE"
       THEN [k |-> SendPendingCtl(n, s.k, m), returned |-> TRUE]
       ELSE IF MaySendNew(k, m, seqid)
       THEN [k |-> SendDp(n, k, m, seqid), returned |-> TRUE]
       ELSE [k |-> [k EXCEPT !.sends = Remove(@, m)], returned |-> FALSE]

SendIntr(n) ==
    LET sent == [node[n] EXCEPT !.sending = FALSE]
        Round(s, m) == SendRound(n, s, m)
    IN /\ Running(n)
       /\ node[n].sending
       /\ Update(n, FoldLeft(Round, [k |-> sent, returned |-> FALSE], sent.sends).k, net)
       /\ UNCHANGED <<queued, got>>

\* _netipc_timeout_intr()
\* Mutant: one sync is enough.
Tick_Once(n, k, m) ==
    LET seqid == UnackedSeqid(k.pcs[m])
    IN IF ~k.pcs[m].ticks THEN [k EXCEPT !.pcs[m].ticks = TRUE]
       ELSE IF seqid = 0 THEN [k EXCEPT !.timers = Remove(@, m)]
       ELSE QueueCtl(n, [k EXCEPT !.timers = Remove(@, m)], m, "SYNC", seqid)

Tick(n, k, m) ==
    LET seqid == UnackedSeqid(k.pcs[m])
        kk == Asserting(k, k.pcs[m].nacked = 0)
    IN IF ~k.pcs[m].ticks THEN [k EXCEPT !.pcs[m].ticks = TRUE]
       ELSE IF seqid = 0 THEN [kk EXCEPT !.timers = Remove(@, m)]
       ELSE QueueCtl(n, kk, m, "SYNC", seqid)

TimeoutIntr(n) ==
    LET Round(k, m) == Tick(n, k, m)
    IN /\ Running(n)
       /\ node[n].timers # <<>>
       /\ Update(n, FoldLeft(Round, node[n], node[n].timers), net)
       /\ UNCHANGED <<queued, got>>

\* netipc_page_put(), netipc_replenish(): a page for receiving; netipc_self_unstop()
\* takes it if there was none.
Unstop(n, k) ==
    LET Round(kk, m) ==
            [QueueCtl(n, kk, m, "NACK", kk.pcs[m].last_received)
                EXCEPT !.unacks = Remove(@, m)]
    IN FoldLeft(Round, [k EXCEPT !.stopped = FALSE], k.unacks)

PagePut(n) ==
    /\ Running(n)
    /\ node[n].pages < MaxPages[n]
    /\ Update(n, IF node[n].stopped THEN Unstop(n, node[n])
                 ELSE [node[n] EXCEPT !.pages = @ + 1], net)
    /\ UNCHANGED <<queued, got>>

\* The network loses a packet.
Lose(p) ==
    /\ p \in net
    /\ net' = net \ {p}
    /\ UNCHANGED <<node, queued, got>>

Next ==
    \/ \E n \in Nodes :
         \/ \E m \in Nodes \ {n} : IpcSend(n, m)
         \/ \E p \in net : \E rest \in {net, net \ {p}} : Recv(n, p, rest)
         \/ SendIntr(n) \/ TimeoutIntr(n) \/ PagePut(n)
    \/ \E p \in net : Lose(p)

Spec == Init /\ [][Next]_vars

\* The packets that their receiver has not yet left behind.
Current(p) ==
    IF p.ctl \in {"ACK", "NACK"}
    THEN p.ctl_seqid = node[p.dst].pcs[p.src].last_sent
    ELSE node[p.src].pcs[p.dst].last_sent \in {p.seqid, p.ctl_seqid}

Delivers(n, m, type, ctls) ==
    \E p \in net :
        /\ p.src = m /\ p.type \in type /\ p.ctl \in ctls /\ Current(p)
        /\ \E rest \in {net, net \ {p}} :
             RecvControl(n, p, rest) \/ RecvOld(n, p, rest)
                \/ RecvStopped(n, p, rest) \/ RecvNew(n, p, rest)

Links == {x \in Nodes \X Nodes : Load[x[1]][x[2]] # <<>>}

\* Interrupts that are due are taken, pages become free, and neither does the
\* network lose every repetition of a packet nor the receiver drop it each time;
\* a packet that is out of date is not repeated for ever.
Fairness ==
    /\ \A n \in Nodes :
         /\ WF_vars(SendIntr(n)) /\ WF_vars(TimeoutIntr(n)) /\ WF_vars(PagePut(n))
         /\ SF_vars(\E p \in net : p.src = n /\ ~Current(p) /\ Lose(p))
    /\ \A x \in Links :
         /\ SF_vars(Delivers(x[2], x[1], {"KMSG", "PAGE"}, {"NONE"}))
         /\ SF_vars(Delivers(x[2], x[1], {"CTL"}, {"SYNC"}))
         /\ SF_vars(Delivers(x[1], x[2], {"CTL"}, {"ACK"}))
         /\ SF_vars(Delivers(x[1], x[2], {"CTL"}, {"NACK"}))

FairSpec == Spec /\ Fairness

-----------------------------------------------------------------------------
(* Properties.                                                             *)

\* No assertion of the protocol fails (two nodes): a node never has two packets
\* to send at a time, a nack that is recorded is of a packet still unacked, new
\* packets come in sequence, and pages find their incomplete message.
NoPanic == \A n \in Nodes : ~node[n].panicked

\* Somebody is in charge of every packet without acknowledgement: the timer, or
\* after a nack the send interrupt, which takes over from it.
Watched ==
    \A n, m \in Nodes :
        LET k == node[n]
        IN k.pcs[m].unacked # {} =>
             \/ Tabled(k.timers, m)
             \/ k.pcs[m].nacked # 0 /\ Tabled(k.sends, m)
             \/ k.corrupt

\* dp_finish(): the messages that the sender has freed.
freed ==
    [n \in Nodes |-> [m \in Nodes |->
        queued[n][m] - Len(node[n].kmsgs[m])
            - (IF node[n].dp[m] = NoDp THEN 0 ELSE 1)]]

Stream == INSTANCE PageStream

\* Each page is delivered once and in order although packets, acknowledgements
\* and nacks are lost, repeated and reordered, and no message is freed before all
\* of it has arrived.
Implements == Stream!Spec

\* What is queued is at last sent, acknowledged and freed, unless a second nack
\* ruined the queues; with packets of the upper level in one direction.
EverythingArrives ==
    \A x \in Links :
        []<>(freed[x[1]][x[2]] = queued[x[1]][x[2]] \/ \E n \in Nodes : node[n].corrupt)
=============================================================================
