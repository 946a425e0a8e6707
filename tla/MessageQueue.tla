---------------------------- MODULE MessageQueue ----------------------------
(***************************************************************************)
(* Sending to and receiving from ports and port sets (ipc_mqueue.c,        *)
(* ipc_pset.c and the receive side of ipc_port.c).                         *)
(*                                                                         *)
(* One action is what a thread does under a port lock, under a message     *)
(* queue lock, or under both where the second is taken before the first is *)
(* released.  Messages carry no rights, so none is circular and their      *)
(* destruction frees them.  NORMA_IPC is off and no port is the kernel's.  *)
(* Senders hold send rights, so that a port may die before they lock it;   *)
(* the operations on receive rights and sets are made by other threads of  *)
(* the receiving task.                                                     *)
(***************************************************************************)
EXTENDS Naturals, FiniteSets, SequencesExt

CONSTANTS
    Threads, NoThread,
    Senders, Receivers,     \* threads that may send, that may receive
    Ports, NoPort,
    Psets, NoPset,
    Messages, NoMessage,
    Large,                  \* messages that need a large receive buffer
    MaxQlimit,              \* bound: MACH_PORT_QLIMIT_MAX
    QlimitDefault,          \* MACH_PORT_QLIMIT_DEFAULT
    Options,                \* how calls may wait: see AllOptions
    SeqnoLimit              \* 2^32, the range of mach_port_seqno_t

Queues == Ports \cup Psets
\* Without a timeout, with one, with a timeout of 0, and MACH_SEND_ALWAYS or a
\* send to a send-once right.
AllOptions == {"wait", "timed", "poll", "always"}

ASSUME MessageQueueAssumption ==
    /\ IsFiniteSet(Threads) /\ IsFiniteSet(Messages)
    /\ Senders \subseteq Threads /\ Receivers \subseteq Threads
    /\ Large \subseteq Messages
    /\ Options \subseteq AllOptions
    /\ Ports \cap Psets = {}
    /\ NoThread \notin Threads /\ NoPort \notin Queues /\ NoPset \notin Psets
    /\ NoMessage \notin Messages
    /\ MaxQlimit \in Nat /\ QlimitDefault \in 0..MaxQlimit
    /\ SeqnoLimit \in Nat \ {0}

VARIABLES
    port,       \* port -> ipc_port: whether it is active, its set, counts, and
                \* whether its receive right is in the task or in transit
    blocked,    \* port -> ip_blocked, senders that wait for a slot
    active_set, \* port sets not destroyed
    mq,         \* port or set -> its message queue
    th,         \* thread -> the part of struct thread that IPC uses
    pc,         \* thread -> where it is in a send or receive
    call,       \* thread -> the arguments of that send or receive
    dest,       \* message -> msgh_remote_port
    free,       \* messages that are in no kernel structure
    panicked

vars == <<port, blocked, active_set, mq, th, pc, call, dest, free, panicked>>

Sizes == {"small", "large"}
IthStates == {"SUCCESS", "SEND_IN_PROGRESS", "RCV_IN_PROGRESS", "TOO_LARGE",
              "PORT_DIED", "PORT_CHANGED"}

Seqnos == 0..(SeqnoLimit - 1)
PortRecords ==
    [active: BOOLEAN, owned: BOOLEAN, pset: Psets \cup {NoPset},
     msgcount: 0..Cardinality(Messages), qlimit: 0..MaxQlimit, seqno: Seqnos]
QueueRecords == [kmsgs: Seq(Messages), waiters: Seq(Receivers)]
ThreadRecords ==
    [waiting: BOOLEAN, timer: BOOLEAN,
     wait_result: {"NONE", "AWAKENED", "TIMED_OUT", "INTERRUPTED"},
     state: IthStates, kmsg: Messages \cup {NoMessage}, seqno: Seqnos]
CallRecords ==
    [msg: Messages \cup {NoMessage}, queue: Queues \cup {NoPort}, option: AllOptions,
     size: Sizes, receiver: Threads \cup {NoThread}]

TypeOK ==
    /\ port \in [Ports -> PortRecords]
    /\ blocked \in [Ports -> Seq(Senders)]
    /\ \A p \in Ports : IsInjective(blocked[p])
    /\ active_set \subseteq Psets
    /\ mq \in [Queues -> QueueRecords]
    /\ \A q \in Queues : IsInjective(mq[q].kmsgs) /\ IsInjective(mq[q].waiters)
    /\ th \in [Threads -> ThreadRecords]
    /\ pc \in [Threads -> {"user", "send_block", "send_go", "receive_block", "got"}]
    /\ call \in [Threads -> CallRecords]
    /\ dest \in [Messages -> Ports \cup {NoPort}]
    /\ free \subseteq Messages
    /\ panicked \in BOOLEAN

IdleThread == [waiting |-> FALSE, timer |-> FALSE, wait_result |-> "NONE",
               state |-> "SUCCESS", kmsg |-> NoMessage, seqno |-> 0]
NoCall == [msg |-> NoMessage, queue |-> NoPort, option |-> "wait", size |-> "small",
           receiver |-> NoThread]

Init ==
    /\ port = [p \in Ports |-> [active |-> TRUE, owned |-> TRUE, pset |-> NoPset,
                                msgcount |-> 0, qlimit |-> QlimitDefault, seqno |-> 0]]
    /\ blocked = [p \in Ports |-> <<>>]
    /\ active_set = Psets
    /\ mq = [q \in Queues |-> [kmsgs |-> <<>>, waiters |-> <<>>]]
    /\ th = [t \in Threads |-> IdleThread]
    /\ pc = [t \in Threads |-> "user"]
    /\ call = [t \in Threads |-> NoCall]
    /\ dest = [m \in Messages |-> NoPort]
    /\ free = Messages
    /\ panicked = FALSE

-----------------------------------------------------------------------------
(* Waiting and waking (kern/ipc_sched.c)                                   *)

\* thread_will_wait(), thread_will_wait_with_timeout()
WillWait(state, option) ==
    [IdleThread EXCEPT !.waiting = TRUE, !.timer = (option = "timed"), !.state = state]

\* thread_go(): nothing happens to a thread that does not wait.
Go(k) ==
    IF k.waiting
    THEN [k EXCEPT !.waiting = FALSE, !.timer = FALSE, !.wait_result = "AWAKENED"]
    ELSE [k EXCEPT !.timer = FALSE]

\* Every thread of the set is told state and woken.
Wake(k, threads, state) ==
    [t \in Threads |-> IF t \in threads THEN Go([k[t] EXCEPT !.state = state]) ELSE k[t]]

\* thread_timeout() and thread_abort() end a wait: clear_wait()
EndWait(t, result) ==
    /\ th[t].waiting
    /\ th' = [th EXCEPT ![t].waiting = FALSE, ![t].timer = FALSE, ![t].wait_result = result]
    /\ UNCHANGED <<port, blocked, active_set, mq, pc, call, dest, free, panicked>>

ThreadTimeout(t) == th[t].timer /\ EndWait(t, "TIMED_OUT")
ThreadAbort(t) == EndWait(t, "INTERRUPTED")

\* The members of S that are in a queue, in its order.
Only(s, S) ==
    LET only[i \in 0..Len(s)] ==
           IF i = 0 THEN <<>>
           ELSE IF s[i] \in S THEN Append(only[i - 1], s[i]) ELSE only[i - 1]
    IN only[Len(s)]

\* ipc_thread_rmqueue()
Without(t, threads) == Only(threads, Threads \ {t})

-----------------------------------------------------------------------------
(* Offering a message to the receivers of a queue                          *)

Fits(m, t) == m \in Large => call[t].size = "large"

FirstFit(m, waiters) ==
    LET fits == {i \in DOMAIN waiters : Fits(m, waiters[i])} IN IF fits = {} THEN 0 ELSE Min(fits)

Following(n) == (n + 1) % SeqnoLimit

\* Mutant: the number is not moved on.
HandOver_SameNumber(o, m, i) ==
    [o EXCEPT !.waiters = SubSeq(@, i + 1, Len(@)),
              !.th = [@ EXCEPT ![o.waiters[i]].state = "SUCCESS",
                               ![o.waiters[i]].kmsg = m,
                               ![o.waiters[i]].seqno = o.seqno]]

\* The i-th receiver gets m and the port's next number; it is not yet woken.
HandOver(o, m, i) ==
    [o EXCEPT !.waiters = SubSeq(@, i + 1, Len(@)),
              !.th = [@ EXCEPT ![o.waiters[i]].state = "SUCCESS",
                               ![o.waiters[i]].kmsg = m,
                               ![o.waiters[i]].seqno = o.seqno],
              !.seqno = Following(@)]

\* o is a queue, the number of m's port, and the threads: receivers too small
\* for m are sent away, the first other gets it; without one it is queued.
Offer(o, m) ==
    LET i == FirstFit(m, o.waiters)
        small == IF i = 0 THEN o.waiters ELSE SubSeq(o.waiters, 1, i - 1)
        rest == [o EXCEPT !.th = Wake(@, Range(small), "TOO_LARGE")]
    IN IF i = 0 THEN [rest EXCEPT !.waiters = <<>>, !.kmsgs = Append(@, m)]
                ELSE HandOver(rest, m, i)

\* The receiver that Offer(o, m) gives m to.
Chosen(o, m) ==
    LET i == FirstFit(m, o.waiters) IN IF i = 0 THEN NoThread ELSE o.waiters[i]

\* Mutant: a message that is moved is queued past the receivers that wait.
OfferAndWake_Queues(o, m) == [o EXCEPT !.kmsgs = Append(@, m)]
OfferAndWake(o, m) ==
    LET r == Chosen(o, m)
        given == Offer(o, m)
    IN IF r = NoThread THEN given ELSE [given EXCEPT !.th[r] = Go(@)]

\* ipc_mqueue_move(): the messages of p, from one queue to the receivers and the
\* end of another.
MessagesOf(p, kmsgs) == Only(kmsgs, {m \in Messages : dest[m] = p})
OthersThan(p, kmsgs) == Only(kmsgs, {m \in Messages : dest[m] # p})

\* The state the operations on sets and receive rights change.
State == [mq |-> mq, th |-> th, port |-> port]

MovedInOrder(p, kmsgs) == MessagesOf(p, kmsgs)

Move(s, to, from, p) ==
    LET moved == MovedInOrder(p, s.mq[from].kmsgs)
        after[i \in 0..Len(moved)] ==
           IF i = 0 THEN [kmsgs |-> s.mq[to].kmsgs, waiters |-> s.mq[to].waiters,
                          seqno |-> s.port[p].seqno, th |-> s.th]
           ELSE OfferAndWake(after[i - 1], moved[i])
        o == after[Len(moved)]
    IN [s EXCEPT !.mq[from].kmsgs = OthersThan(p, @),
                 !.mq[to] = [kmsgs |-> o.kmsgs, waiters |-> o.waiters],
                 !.th = o.th,
                 !.port[p].seqno = o.seqno]

\* ipc_mqueue_changed()
Changed(s, q, state) ==
    [s EXCEPT !.th = Wake(@, Range(s.mq[q].waiters), state), !.mq[q].waiters = <<>>]

PsetAdd(s, ps, p) ==
    Changed(Move([s EXCEPT !.port[p].pset = ps], ps, p, p), p, "PORT_CHANGED")

PsetRemove(s, p) ==
    IF s.port[p].pset = NoPset THEN s
    ELSE Move([s EXCEPT !.port[p].pset = NoPset], p, s.port[p].pset, p)

\* Before its queue is used, a port is taken out of a set that is dead.
\* Mutant: it stays.
LeaveDeadSet_Stays(s, p) == s
LeaveDeadSet(s, p) ==
    IF s.port[p].pset \in active_set THEN s ELSE PsetRemove(s, p)

Apply(s) == mq' = s.mq /\ th' = s.th /\ port' = s.port

-----------------------------------------------------------------------------
(* ipc_mqueue_send                                                         *)

EndCall(t) ==
    /\ pc' = [pc EXCEPT ![t] = "user"]
    /\ call' = [call EXCEPT ![t] = NoCall]

\* The message is destroyed, or is the user's again.
Release(m) == free' = free \cup {m} /\ dest' = [dest EXCEPT ![m] = NoPort]
Hold(m, p) == free' = free \ {m} /\ dest' = [dest EXCEPT ![m] = p]

Mqueue(p) == IF port[p].pset = NoPset THEN p ELSE port[p].pset

\* A receiver that got the message is woken after the queue has been unlocked.
Accept(t, m, p) ==
    LET q == Mqueue(p)
        o == [kmsgs |-> mq[q].kmsgs, waiters |-> mq[q].waiters,
              seqno |-> port[p].seqno, th |-> [th EXCEPT ![t] = IdleThread]]
        given == Offer(o, m)
        r == Chosen(o, m)
    IN /\ port' = [port EXCEPT ![p].msgcount = @ + 1, ![p].seqno = given.seqno]
       /\ mq' = [mq EXCEPT ![q] = [kmsgs |-> given.kmsgs, waiters |-> given.waiters]]
       /\ th' = given.th
       /\ IF r = NoThread
          THEN EndCall(t)
          ELSE /\ pc' = [pc EXCEPT ![t] = "send_go"]
               /\ call' = [call EXCEPT ![t] = [NoCall EXCEPT !.receiver = r]]
       /\ Hold(m, p)

MayQueue(p, option) == port[p].msgcount < port[p].qlimit \/ option = "always"

\* The loop, with the port locked and t not among the senders that wait.
SendLoop(t, m, p, option, senders) ==
    /\ \/ /\ ~port[p].active \/ (~MayQueue(p, option) /\ option = "poll")
          /\ EndCall(t)
          /\ Release(m)
          /\ th' = [th EXCEPT ![t] = IdleThread]
          /\ blocked' = [blocked EXCEPT ![p] = senders]
          /\ UNCHANGED <<port, mq>>
       \/ /\ port[p].active /\ MayQueue(p, option)
          /\ Accept(t, m, p)
          /\ blocked' = [blocked EXCEPT ![p] = senders]
       \/ /\ port[p].active /\ ~MayQueue(p, option) /\ option # "poll"
          /\ th' = [th EXCEPT ![t] = WillWait("SEND_IN_PROGRESS", option)]
          /\ blocked' = [blocked EXCEPT ![p] = Append(senders, t)]
          /\ pc' = [pc EXCEPT ![t] = "send_block"]
          /\ call' = [call EXCEPT ![t] = [NoCall EXCEPT !.msg = m, !.queue = p, !.option = option]]
          /\ Hold(m, p)
          /\ UNCHANGED <<port, mq>>
    /\ UNCHANGED <<active_set, panicked>>

Send(t, m, p, option) ==
    /\ t \in Senders /\ pc[t] = "user"
    /\ m \in free
    /\ SendLoop(t, m, p, option, blocked[p])

SendWoken(t) ==
    LET m == call[t].msg
        p == call[t].queue
        others == Without(t, blocked[p])
    IN /\ pc[t] = "send_block" /\ ~th[t].waiting
       /\ \/ /\ th[t].state = "SUCCESS"
             /\ SendLoop(t, m, p, call[t].option, blocked[p])
          \/ /\ th[t].state = "SEND_IN_PROGRESS" /\ th[t].wait_result = "TIMED_OUT"
             /\ SendLoop(t, m, p, "poll", others)
          \/ /\ th[t].state = "SEND_IN_PROGRESS" /\ th[t].wait_result = "INTERRUPTED"
             /\ EndCall(t)
             /\ Release(m)
             /\ th' = [th EXCEPT ![t] = IdleThread]
             /\ blocked' = [blocked EXCEPT ![p] = others]
             /\ UNCHANGED <<port, active_set, mq, panicked>>
          \/ /\ th[t].state = "SEND_IN_PROGRESS" /\ th[t].wait_result = "AWAKENED"
             /\ panicked' = TRUE
             /\ UNCHANGED <<port, blocked, active_set, mq, th, pc, call, dest, free>>

SendGo(t) ==
    /\ pc[t] = "send_go"
    /\ th' = [th EXCEPT ![call[t].receiver] = Go(@)]
    /\ EndCall(t)
    /\ UNCHANGED <<port, blocked, active_set, mq, dest, free, panicked>>

-----------------------------------------------------------------------------
(* ipc_mqueue_copyin, ipc_mqueue_receive                                   *)

\* The loop, in state s, with the queue locked and t not among its receivers.
ReceiveLoop(t, q, size, option, s) ==
    LET kmsgs == s.mq[q].kmsgs
        fits == kmsgs # <<>> /\ (Head(kmsgs) \in Large => size = "large")
    IN /\ \/ /\ (kmsgs = <<>> /\ option = "poll") \/ (kmsgs # <<>> /\ ~fits)
             /\ Apply([s EXCEPT !.th[t] = IdleThread])
             /\ EndCall(t)
          \/ /\ fits
             /\ LET p == dest[Head(kmsgs)]
                IN Apply([s EXCEPT !.mq[q].kmsgs = Tail(@),
                                   !.port[p].seqno = Following(@),
                                   !.th[t] = [IdleThread EXCEPT
                                                !.kmsg = Head(kmsgs),
                                                !.seqno = s.port[p].seqno]])
             /\ pc' = [pc EXCEPT ![t] = "got"]
             /\ call' = [call EXCEPT ![t] = NoCall]
          \/ /\ kmsgs = <<>> /\ option # "poll"
             /\ Apply([s EXCEPT !.mq[q].waiters = Append(@, t),
                                !.th[t] = WillWait("RCV_IN_PROGRESS", option)])
             /\ pc' = [pc EXCEPT ![t] = "receive_block"]
             /\ call' = [call EXCEPT ![t] = [NoCall EXCEPT !.queue = q, !.size = size,
                                                           !.option = option]]
       /\ UNCHANGED <<blocked, active_set, dest, free, panicked>>

\* A port in a living set is not received from: MACH_RCV_IN_SET.
Receive(t, q, size, option) ==
    /\ t \in Receivers /\ pc[t] = "user"
    /\ option # "always"
    /\ \/ /\ q \in Ports /\ port[q].owned /\ port[q].pset \notin active_set
          /\ ReceiveLoop(t, q, size, option, LeaveDeadSet(State, q))
       \/ /\ q \in active_set
          /\ ReceiveLoop(t, q, size, option, State)

\* Mutant: the wait's result is looked at before ith_state.
ReceiveGivesUp_Result(t) == th[t].wait_result = "INTERRUPTED"
ReceiveGivesUp(t) ==
    th[t].state = "RCV_IN_PROGRESS" /\ th[t].wait_result = "INTERRUPTED"

ReceiveWoken(t) ==
    LET q == call[t].queue
        others == [State EXCEPT !.mq[q].waiters = Without(t, @)]
    IN /\ pc[t] = "receive_block" /\ ~th[t].waiting
       /\ \/ /\ th[t].state = "SUCCESS"
             /\ pc' = [pc EXCEPT ![t] = "got"]
             /\ call' = [call EXCEPT ![t] = NoCall]
             /\ UNCHANGED <<port, blocked, active_set, mq, th, dest, free, panicked>>
          \/ /\ th[t].state \in {"TOO_LARGE", "PORT_DIED", "PORT_CHANGED"}
             /\ EndCall(t)
             /\ th' = [th EXCEPT ![t] = IdleThread]
             /\ UNCHANGED <<port, blocked, active_set, mq, dest, free, panicked>>
          \/ /\ th[t].state = "RCV_IN_PROGRESS" /\ th[t].wait_result = "TIMED_OUT"
             /\ ReceiveLoop(t, q, call[t].size, "poll", others)
          \/ /\ ReceiveGivesUp(t)
             /\ Apply([others EXCEPT !.th[t] = IdleThread])
             /\ EndCall(t)
             /\ UNCHANGED <<blocked, active_set, dest, free, panicked>>
          \/ /\ th[t].state = "RCV_IN_PROGRESS" /\ th[t].wait_result = "AWAKENED"
             /\ panicked' = TRUE
             /\ UNCHANGED <<port, blocked, active_set, mq, th, pc, call, dest, free>>

\* Mutant: looks at the limit before the message is taken off.
WakesSender_Early(p) ==
    port[p].active /\ blocked[p] # <<>> /\ port[p].msgcount < port[p].qlimit

\* A message taken from p makes room for the first sender that waits.
WakesSender(p) ==
    port[p].active /\ blocked[p] # <<>> /\ port[p].msgcount - 1 < port[p].qlimit

\* Mutant: a message of a right in transit is not counted off.
CountOff_Owned(p) ==
    IF port[p].owned THEN [port EXCEPT ![p].msgcount = @ - 1] ELSE port
CountOff(p) ==
    IF port[p].active THEN [port EXCEPT ![p].msgcount = @ - 1] ELSE port

\* The receiver has its message: it locks the port and leaves.
ReceiveDone(t) ==
    LET m == th[t].kmsg
        p == dest[m]
        left == [th EXCEPT ![t] = IdleThread]
    IN /\ pc[t] = "got"
       /\ port' = CountOff(p)
       /\ IF WakesSender(p)
          THEN /\ th' = Wake(left, {Head(blocked[p])}, "SUCCESS")
               /\ blocked' = [blocked EXCEPT ![p] = Tail(@)]
          ELSE th' = left /\ UNCHANGED blocked
       /\ EndCall(t)
       /\ Release(m)
       /\ UNCHANGED <<active_set, mq, panicked>>

-----------------------------------------------------------------------------
(* Receive rights and port sets (ipc_port.c, ipc_pset.c)                   *)

\* ipc_port_set_qlimit(): a sender for each slot that has been added.
SetQlimit(p, qlimit) ==
    LET more == IF qlimit > port[p].qlimit THEN qlimit - port[p].qlimit ELSE 0
        n == IF more < Len(blocked[p]) THEN more ELSE Len(blocked[p])
    IN /\ port[p].owned
       /\ th' = Wake(th, Range(SubSeq(blocked[p], 1, n)), "SUCCESS")
       /\ blocked' = [blocked EXCEPT ![p] = SubSeq(@, n + 1, Len(@))]
       /\ port' = [port EXCEPT ![p].qlimit = qlimit]
       /\ UNCHANGED <<active_set, mq, pc, call, dest, free, panicked>>

\* Operations on the queues alone.
ChangeTo(s) ==
    Apply(s) /\ UNCHANGED <<blocked, active_set, pc, call, dest, free, panicked>>

SetSeqno(p, seqno) ==
    /\ port[p].owned
    /\ ChangeTo([LeaveDeadSet(State, p) EXCEPT !.port[p].seqno = seqno])

\* From the set it is in, if any, to the set ns, if any.
PsetMove(p, ns) ==
    LET out == PsetRemove(State, p)
    IN /\ port[p].owned /\ port[p].pset # ns
       /\ ns \in active_set \cup {NoPset}
       /\ ChangeTo(IF ns = NoPset THEN out ELSE PsetAdd(out, ns, p))

\* The members leave one by one, when they are next used.
PsetDestroy(ps) ==
    /\ ps \in active_set
    /\ active_set' = active_set \ {ps}
    /\ Apply(Changed(State, ps, "PORT_DIED"))
    /\ UNCHANGED <<blocked, pc, call, dest, free, panicked>>

ClearReceiver(p) ==
    LET s == IF port[p].pset # NoPset THEN PsetRemove(State, p)
                                      ELSE Changed(State, p, "PORT_DIED")
    IN [s EXCEPT !.port[p].seqno = 0]

\* The receive right is put into a message (ipc_right_copyin), and received.
CopyinReceiveRight(p) ==
    /\ port[p].owned
    /\ ChangeTo([ClearReceiver(p) EXCEPT !.port[p].owned = FALSE])

CopyoutReceiveRight(p) ==
    /\ port[p].active /\ ~port[p].owned
    /\ ChangeTo([State EXCEPT !.port[p].owned = TRUE])

\* Mutant: who waits to send to the port is not woken.
Rouse_None(k, p) == k
Rouse(k, p) == Wake(k, Range(blocked[p]), "SUCCESS")

\* The receive right is destroyed, in the task or with the message it is in.
PortDestroy(p) ==
    LET s == IF port[p].owned THEN ClearReceiver(p) ELSE State
    IN /\ port[p].active
       /\ Apply([s EXCEPT !.port[p].active = FALSE, !.port[p].owned = FALSE,
                          !.th = Rouse(s.th, p)])
       /\ blocked' = [blocked EXCEPT ![p] = <<>>]
       /\ UNCHANGED <<active_set, pc, call, dest, free, panicked>>

\* "destroy any queued messages", one at a time
DestroyQueued(p) ==
    /\ ~port[p].active /\ mq[p].kmsgs # <<>>
    /\ mq' = [mq EXCEPT ![p].kmsgs = Tail(@)]
    /\ Release(Head(mq[p].kmsgs))
    /\ UNCHANGED <<port, blocked, active_set, th, pc, call, panicked>>

-----------------------------------------------------------------------------

Call(t) ==
    \/ \E m \in Messages, p \in Ports, o \in Options : Send(t, m, p, o)
    \/ \E q \in Queues, z \in Sizes, o \in Options : Receive(t, q, z, o)

Continue(t) == SendWoken(t) \/ SendGo(t) \/ ReceiveWoken(t) \/ ReceiveDone(t)

PortOperation(p) ==
    \/ \E n \in 0..MaxQlimit : SetQlimit(p, n)
    \/ \E n \in 0..(SeqnoLimit - 1) : SetSeqno(p, n)
    \/ \E ns \in Psets \cup {NoPset} : PsetMove(p, ns)
    \/ CopyinReceiveRight(p) \/ CopyoutReceiveRight(p)
    \/ PortDestroy(p) \/ DestroyQueued(p)

Next ==
    /\ ~panicked
    /\ \/ \E t \in Threads : Call(t) \/ Continue(t) \/ ThreadTimeout(t) \/ ThreadAbort(t)
       \/ \E p \in Ports : PortOperation(p)
       \/ \E ps \in Psets : PsetDestroy(ps)

Spec == Init /\ [][Next]_vars

-----------------------------------------------------------------------------
(* Properties                                                              *)

Queued(m) == {q \in Queues : m \in Range(mq[q].kmsgs)}
SentBy(m) == {t \in Threads : call[t].msg = m}
Holders(m) == {t \in Threads : th[t].kmsg = m}

\* No message is lost and none is in two places: it is the user's, in a blocked
\* send, on one queue, or with the receiver it was handed to, whatever timeouts,
\* aborts and moves between sets intervene.
EachMessageOnce ==
    \A m \in Messages :
        Cardinality(Queued(m)) + Cardinality(SentBy(m)) + Cardinality(Holders(m))
            = IF m \in free THEN 0 ELSE 1

\* ip_msgcount counts the messages of the port that are queued, wherever the
\* port is, or have been handed to a receiver that has not locked the port yet.
MsgcountExact ==
    \A p \in Ports : port[p].active =>
        port[p].msgcount =
            Cardinality({m \in Messages : dest[m] = p /\ (Queued(m) # {} \/ Holders(m) # {})})

\* No sender sleeps while there is room for it: the free slots of a port that
\* has blocked senders are promised to senders that have been woken for them.
FreeSlotsPromised ==
    \A p \in Ports : port[p].active /\ blocked[p] # <<>> =>
        port[p].qlimit <= port[p].msgcount +
            Cardinality({t \in Threads : /\ pc[t] = "send_block" /\ call[t].queue = p
                                         /\ t \notin Range(blocked[p])})

\* assert(ipc_kmsg_queue_empty(...)): no receiver waits at a queue that holds a
\* message, so that none has to be taken past another.
NoMessagePassedOver ==
    \A q \in Queues : mq[q].waiters # <<>> => mq[q].kmsgs = <<>>

\* Messages and receivers are where the others look for them: a port's messages
\* in the queue it uses, its own receivers only while it is in no set, and
\* nobody waits where no message will come.
MessagesWhereReceived ==
    /\ \A q \in Queues : \A m \in Range(mq[q].kmsgs) : Mqueue(dest[m]) = q
    /\ \A p \in Ports : mq[p].waiters # <<>> => port[p].owned /\ port[p].pset = NoPset
    /\ \A ps \in Psets : mq[ps].waiters # <<>> => ps \in active_set

\* Each thread that waits is on the list it will be woken from, once, and a
\* thread on a list is waiting: it has not returned and left itself behind.
WaitersListed ==
    \A t \in Threads :
        /\ {p \in Ports : t \in Range(blocked[p])} =
               IF th[t].state = "SEND_IN_PROGRESS" THEN {call[t].queue} ELSE {}
        /\ {q \in Queues : t \in Range(mq[q].waiters)} =
               IF th[t].state = "RCV_IN_PROGRESS" THEN {call[t].queue} ELSE {}

\* Messages are received in the order in which the port accepted them, under
\* consecutive numbers, through all moves between sets (the promise PortQueue).
Abstract == INSTANCE PortQueue WITH
    pending <- [p \in Ports |-> MessagesOf(p, mq[Mqueue(p)].kmsgs)],
    received <- {[msg |-> th[t].kmsg, port |-> dest[th[t].kmsg], seqno |-> th[t].seqno] :
                    t \in {u \in Threads : th[u].kmsg # NoMessage}},
    next_seqno <- [p \in Ports |-> port[p].seqno],
    alive <- {p \in Ports : port[p].active}
Implements == Abstract!Spec

\* assert(!"ipc_mqueue_receive"), assert(!"ipc_mqueue_send"): a thread is woken
\* from its wait by completion, timeout or interruption and nothing else.
NoPanic == ~panicked

-----------------------------------------------------------------------------
(* What the safety properties rest on.                                     *)

\* Where a thread is, what it called and what it has been told.
ThreadsAgree ==
    \A t \in Threads :
        /\ pc[t] \in {"user", "send_go", "got"} => th[t].state = "SUCCESS"
        /\ pc[t] = "send_block" =>
              /\ t \in Senders /\ call[t].queue \in Ports /\ call[t].option # "poll"
              /\ th[t].state \in {"SUCCESS", "SEND_IN_PROGRESS"}
        /\ pc[t] = "send_go" => call[t].receiver \in Threads
        /\ pc[t] = "receive_block" =>
              /\ t \in Receivers /\ call[t].queue \in Queues
              /\ th[t].state # "SEND_IN_PROGRESS"
        /\ call[t].msg # NoMessage <=> pc[t] = "send_block"
        /\ th[t].kmsg # NoMessage <=>
              pc[t] = "got" \/ (pc[t] = "receive_block" /\ th[t].state = "SUCCESS")

\* Nobody sleeps who has been told why not to: a receiver that has been handed a
\* message is woken by the sender, all others have been.
ToldAreWoken ==
    \A t \in Threads :
        th[t].waiting /\ th[t].state \notin {"SEND_IN_PROGRESS", "RCV_IN_PROGRESS"} =>
            \E u \in Threads : pc[u] = "send_go" /\ call[u].receiver = t

\* A message is the user's, with one thread, or in queues.
MessagesApart ==
    \A m \in Messages :
        /\ \A t, u \in SentBy(m) \cup Holders(m) : t = u
        /\ SentBy(m) \cup Holders(m) # {} => Queued(m) = {}
        /\ m \in free <=> Queued(m) = {} /\ SentBy(m) \cup Holders(m) = {}
        /\ m \notin free => dest[m] \in Ports

QueueInv ==
    /\ TypeOK
    /\ ThreadsAgree /\ ToldAreWoken /\ WaitersListed
    /\ MessagesApart
    /\ MsgcountExact /\ FreeSlotsPromised
    /\ NoMessagePassedOver /\ MessagesWhereReceived
=============================================================================
