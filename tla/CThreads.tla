------------------------------ MODULE CThreads ------------------------------
(***************************************************************************)
(* The C threads library (user/threads/cprocs.c): cprocs multiplexed on    *)
(* kernel threads, with mutexes and conditions.                            *)
(*                                                                         *)
(* A kernel thread executes the stack it is on, that of a cproc or one of  *)
(* the small stacks on which idle kernel threads wait; where the code of a *)
(* stack is, and its locals, are kept with the stack, as in memory.  One   *)
(* action is what a kernel thread does under one spin lock, or one atomic  *)
(* operation on a lock.  Spin locks held from one action to another are    *)
(* variables: the lock of a mutex, and the lock of a cproc, which keeps    *)
(* others off its stack until cproc_switch has left it.                    *)
(***************************************************************************)
EXTENDS Integers, FiniteSets, SequencesExt

CONSTANTS
    Cprocs,
    Waiters,            \* stacks for idle kernel threads
    KernelThreads,
    Mutexes,
    Conditions,
    None,
    Main,               \* the cproc of the main thread
    MaxKernelThreads,   \* cthread_max_kernel_threads, 0 for no limit
    QLimit,             \* MACH_PORT_QLIMIT_DEFAULT, the limit of wait_port
    MayWire             \* whether cprocs are wired to kernel threads

ASSUME CThreadsAssumption ==
    /\ Main \in Cprocs
    /\ Cprocs \cap Waiters = {}
    /\ None \notin Cprocs \cup Waiters
    /\ IsFiniteSet(Cprocs) /\ IsFiniteSet(Waiters) /\ IsFiniteSet(KernelThreads)
    /\ MaxKernelThreads \in Nat
    /\ QLimit \in Nat \ {0}
    /\ MayWire \in BOOLEAN

VARIABLES
    on,             \* kernel thread -> the stack it executes
    stack,          \* stack -> where its code is, and its locals
    lock,           \* stack -> p->lock
    state,          \* cproc -> p->state
    wired,          \* cproc -> p->wired /= MACH_PORT_NULL
    messages,       \* cproc -> messages in p->wired
    ready,
    ready_count,
    wait_count,
    wakeups,        \* messages in wait_port
    waiters,
    mutex,
    holder,         \* history: mutex -> the cproc that has locked it
    condition       \* condition -> c->queue

counts == <<ready_count, wait_count>>
wiring == <<wired, messages>>
vars == <<on, stack, lock, state, wiring, ready, counts, wakeups, waiters,
          mutex, holder, condition>>

Stacks == Cprocs \cup Waiters
PCs == {"none", "user", "solid", "try", "retry", "block", "keep", "switch",
        "getwaiter", "idle", "startwait", "unwait", "unwaiter", "wired",
        "ready", "enqueue", "send", "unlock", "unlock_solid", "unlock_deq",
        "wait_unlock", "wait_block", "receive", "woken", "resume", "leave",
        "leaving"}
Calls == {"none", "unlock", "wait", "block", "wake", "yield"}

\* A queue of cprocs, and one of waiting stacks.
Queues == SeqOf(Cprocs, Cardinality(Cprocs))
WaiterQueues == SeqOf(Waiters, Cardinality(Waiters))
Counts == (-Cardinality(Cprocs))..Cardinality(Cprocs)

(* Types: every count and queue stays within the number of cprocs and of   *)
(* kernel threads.                                                         *)
TypeOK ==
    /\ on \in [KernelThreads -> Stacks \cup {None}]
    /\ stack \in [Stacks -> [pc: PCs, call: Calls, mutex: Mutexes \cup {None},
                             queued: BOOLEAN, waiter: Waiters \cup {None},
                             hand: Queues]]
    /\ lock \in [Stacks -> BOOLEAN]
    /\ state \in [Cprocs -> SUBSET {"SWITCHING", "BLOCKED", "CONDWAIT"}]
    /\ wired \in [Cprocs -> BOOLEAN]
    /\ messages \in [Cprocs -> 0..1]
    /\ ready \in Queues
    /\ ready_count \in Counts
    /\ wait_count \in Counts
    /\ wakeups \in 0..Cardinality(Cprocs)
    /\ waiters \in WaiterQueues
    /\ mutex \in [Mutexes -> [held: BOOLEAN, lock: BOOLEAN, queue: Queues]]
    /\ holder \in [Mutexes -> Cprocs \cup {None}]
    /\ condition \in [Conditions -> Queues]

-----------------------------------------------------------------------------
NewStack(pc) == [pc |-> pc, call |-> "none", mutex |-> None, queued |-> FALSE,
                 waiter |-> None, hand |-> <<>>]

Init ==
    /\ on \in {[k \in KernelThreads |-> IF k = k0 THEN Main ELSE None] : k0 \in KernelThreads}
    /\ stack = [s \in Stacks |-> NewStack(IF s = Main THEN "user" ELSE "none")]
    /\ lock = [s \in Stacks |-> FALSE]
    /\ state = [p \in Cprocs |-> {}]
    /\ wired = [p \in Cprocs |-> FALSE]
    /\ messages = [p \in Cprocs |-> 0]
    /\ ready = <<>>
    /\ ready_count = 0
    /\ wait_count = 0
    /\ wakeups = 0
    /\ waiters = <<>>
    /\ mutex = [m \in Mutexes |-> [held |-> FALSE, lock |-> FALSE, queue |-> <<>>]]
    /\ holder = [m \in Mutexes |-> None]
    /\ condition = [c \in Conditions |-> <<>>]

\* Kernel thread k executes stack s, which is at l.
At(k, s, l) == on[k] = s /\ s /= None /\ stack[s].pc = l

Goto(s, l) == stack' = [stack EXCEPT ![s].pc = l]

\* Where the caller of cproc_ready goes on, and of cproc_block (or of
\* cproc_switch, in cthread_yield).
AfterReady(call) ==
    CASE call = "block" -> "retry"
      [] call = "wait" -> "wait_block"
      [] OTHER -> "user"
AfterBlock(call) == IF call = "yield" THEN "user" ELSE "retry"

\* A call made by p is over: p goes on at l.
Return(p, l) ==
    stack' = [stack EXCEPT ![p] = [NewStack(l) EXCEPT !.mutex = IF l = "user" THEN None
                                                                ELSE stack[p].mutex]]

\* cproc_ready has returned, with these left to be made ready by its caller.
Readied(p, rest) ==
    IF rest = <<>> THEN Return(p, AfterReady(stack[p].call))
    ELSE stack' = [stack EXCEPT ![p].hand = rest, ![p].pc = "ready"]

-----------------------------------------------------------------------------
(* Mutexes: the macros mutex_lock and mutex_unlock, and what they call when*)
(* the mutex is held or its queue is not empty.                            *)

\* spin_try_lock(&m->held) has succeeded in a call that locks the mutex.
Take(p, m) ==
    /\ holder' = [holder EXCEPT ![m] = p]
    /\ Return(p, "user")

MutexLock(k, p, m) ==
    /\ At(k, p, "user")
    /\ holder[m] /= p
    /\ IF mutex[m].held
       THEN /\ stack' = [stack EXCEPT ![p].pc = "solid", ![p].mutex = m]
            /\ UNCHANGED <<mutex, holder>>
       ELSE /\ mutex' = [mutex EXCEPT ![m].held = TRUE]
            /\ Take(p, m)
    /\ UNCHANGED <<on, lock, state, wiring, ready, counts, wakeups, waiters, condition>>

\* mutex_lock_solid queues before it tries the lock, if the queue is empty, so
\* that the holder either sees it or has already let go of the lock.
SolidQueue(k, p) ==
    LET m == stack[p].mutex
        first == mutex[m].queue = <<>> IN
    /\ At(k, p, "solid")
    /\ ~mutex[m].lock
    /\ mutex' = [mutex EXCEPT ![m].lock = TRUE,
                              ![m].queue = IF first THEN <<p>> ELSE @]
    /\ stack' = [stack EXCEPT ![p].pc = "try", ![p].queued = first]
    /\ UNCHANGED <<on, lock, state, wiring, ready, counts, wakeups, waiters, holder, condition>>

\* The start of cproc_block, until it releases p->lock.
StartBlock(p) ==
    /\ state' = IF wired[p] THEN state ELSE [state EXCEPT ![p] = {"SWITCHING"}]
    /\ stack' = [stack EXCEPT ![p].pc = IF wired[p] THEN "wired" ELSE "block",
                              ![p].call = "block",
                              ![p].queued = FALSE]

SolidTry(k, p) ==
    LET m == stack[p].mutex
        queued == stack[p].queued IN
    /\ At(k, p, "try")
    /\ IF mutex[m].held
       THEN /\ ~lock[p]
            /\ mutex' = [mutex EXCEPT ![m].lock = FALSE,
                                      ![m].queue = IF queued THEN @ ELSE Append(@, p)]
            /\ StartBlock(p)
            /\ UNCHANGED holder
       ELSE /\ mutex' = [mutex EXCEPT ![m].lock = FALSE,
                                      ![m].held = TRUE,
                                      ![m].queue = IF queued THEN Tail(@) ELSE @]
            /\ Take(p, m)
            /\ UNCHANGED state
    /\ UNCHANGED <<on, lock, wiring, ready, counts, wakeups, waiters, condition>>

\* After cproc_block, in mutex_lock_solid and in condition_wait.
Retry(k, p) ==
    LET m == stack[p].mutex IN
    /\ At(k, p, "retry")
    /\ IF mutex[m].held
       THEN /\ Goto(p, "solid")
            /\ UNCHANGED <<mutex, holder>>
       ELSE /\ mutex' = [mutex EXCEPT ![m].held = TRUE]
            /\ Take(p, m)
    /\ UNCHANGED <<on, lock, state, wiring, ready, counts, wakeups, waiters, condition>>

\* The first half of mutex_unlock; the second reads the queue with no lock.
Release(p, m, call) ==
    /\ mutex' = [mutex EXCEPT ![m].held = FALSE]
    /\ holder' = [holder EXCEPT ![m] = None]
    /\ stack' = [stack EXCEPT ![p].pc = "unlock", ![p].call = call, ![p].mutex = m]

MutexUnlock(k, p, m) ==
    /\ At(k, p, "user")
    /\ holder[m] = p
    /\ Release(p, m, "unlock")
    /\ UNCHANGED <<on, lock, state, wiring, ready, counts, wakeups, waiters, condition>>

LookForWaiters(k, p) ==
    /\ At(k, p, "unlock")
    /\ IF mutex[stack[p].mutex].queue = <<>> THEN Return(p, AfterReady(stack[p].call))
       ELSE Goto(p, "unlock_solid")
    /\ UNCHANGED <<on, lock, state, wiring, ready, counts, wakeups, waiters, mutex, holder, condition>>

\* Mutant: the mutex is released whoever has it by now.
UnlockSolid_Blind(k, p) ==
    LET m == stack[p].mutex IN
    /\ At(k, p, "unlock_solid")
    /\ Goto(p, "unlock_deq")
    /\ mutex' = [mutex EXCEPT ![m].held = TRUE]
    /\ UNCHANGED <<on, lock, state, wiring, ready, counts, wakeups, waiters, holder, condition>>

\* mutex_unlock_solid: whoever has locked the mutex since will wake the waiters.
UnlockSolid(k, p) ==
    LET m == stack[p].mutex IN
    /\ At(k, p, "unlock_solid")
    /\ IF mutex[m].held THEN Return(p, AfterReady(stack[p].call)) ELSE Goto(p, "unlock_deq")
    /\ mutex' = [mutex EXCEPT ![m].held = TRUE]
    /\ UNCHANGED <<on, lock, state, wiring, ready, counts, wakeups, waiters, holder, condition>>

UnlockDequeue(k, p) ==
    LET m == stack[p].mutex
        q == mutex[m].queue IN
    /\ At(k, p, "unlock_deq")
    /\ ~mutex[m].lock
    /\ mutex' = [mutex EXCEPT ![m].held = FALSE, ![m].queue = IF q = <<>> THEN q ELSE Tail(q)]
    /\ IF q = <<>> THEN Return(p, AfterReady(stack[p].call))
       ELSE stack' = [stack EXCEPT ![p].pc = "ready", ![p].hand = <<Head(q)>>]
    /\ UNCHANGED <<on, lock, state, wiring, ready, counts, wakeups, waiters, holder, condition>>

-----------------------------------------------------------------------------
(* Conditions.                                                             *)

\* condition_wait marks the cproc and queues it before it unlocks the mutex.
ConditionWait(k, p, c, m) ==
    /\ At(k, p, "user")
    /\ holder[m] = p
    /\ state' = [state EXCEPT ![p] = {"CONDWAIT", "SWITCHING"}]
    /\ condition' = [condition EXCEPT ![c] = Append(@, p)]
    /\ stack' = [stack EXCEPT ![p].pc = "wait_unlock", ![p].mutex = m]
    /\ UNCHANGED <<on, lock, wiring, ready, counts, wakeups, waiters, mutex, holder>>

\* Mutant: the mutex is released as a spin lock, and nobody woken.
WaitUnlock_Silent(k, p) ==
    /\ At(k, p, "wait_unlock")
    /\ mutex' = [mutex EXCEPT ![stack[p].mutex].held = FALSE]
    /\ holder' = [holder EXCEPT ![stack[p].mutex] = None]
    /\ Goto(p, "wait_block")
    /\ UNCHANGED <<on, lock, state, wiring, ready, counts, wakeups, waiters, condition>>

WaitUnlock(k, p) ==
    /\ At(k, p, "wait_unlock")
    /\ Release(p, stack[p].mutex, "wait")
    /\ UNCHANGED <<on, lock, state, wiring, ready, counts, wakeups, waiters, condition>>

\* Mutant: the cproc blocks though it has been signalled.
WaitBlock_Always(k, p) ==
    /\ At(k, p, "wait_block")
    /\ ~lock[p]
    /\ StartBlock(p)
    /\ UNCHANGED <<on, lock, wiring, ready, counts, wakeups, waiters, mutex, holder, condition>>

\* It does not block if it has been signalled since.
WaitBlock(k, p) ==
    /\ At(k, p, "wait_block")
    /\ ~lock[p]
    /\ IF "SWITCHING" \in state[p]
       THEN StartBlock(p)
       ELSE /\ state' = [state EXCEPT ![p] = {}]
            /\ Return(p, "retry")
    /\ UNCHANGED <<on, lock, wiring, ready, counts, wakeups, waiters, mutex, holder, condition>>

\* cond_signal and cond_broadcast take one cproc, or all, off the queue, and
\* make each ready.
Wake(k, p, c) ==
    /\ At(k, p, "user")
    /\ condition[c] /= <<>>
    /\ \E n \in {1, Len(condition[c])} :
          /\ condition' = [condition EXCEPT ![c] = SubSeq(@, n + 1, Len(@))]
          /\ stack' = [stack EXCEPT ![p].pc = "ready", ![p].call = "wake",
                                    ![p].hand = SubSeq(condition[c], 1, n)]
    /\ UNCHANGED <<on, lock, state, wiring, ready, counts, wakeups, waiters, mutex, holder>>

-----------------------------------------------------------------------------
(* cproc_ready.                                                            *)

Ready(k, p) ==
    LET q == Head(stack[p].hand) IN
    /\ At(k, p, "ready")
    /\ \/ /\ wired[q]
          /\ messages' = [messages EXCEPT ![q] = @ + 1]
          /\ Readied(p, Tail(stack[p].hand))
          /\ UNCHANGED state
       \/ /\ ~wired[q]
          /\ ~lock[q]
          /\ IF "SWITCHING" \in state[q]
             THEN /\ state' = [state EXCEPT ![q] = @ \ {"SWITCHING"}]
                  /\ Readied(p, Tail(stack[p].hand))
             ELSE /\ Goto(p, "enqueue")
                  /\ UNCHANGED state
          /\ UNCHANGED messages
    /\ UNCHANGED <<on, lock, wired, ready, counts, wakeups, waiters, mutex, holder, condition>>

\* A cproc about to wait for a condition wakes nobody: its own kernel thread
\* is to run the ready cproc.
LeavesWakeup(p) == "CONDWAIT" \in state[p] /\ ~wired[p]

\* cproc_block puts back at the head the cproc that it took off.
Enqueue(k, p) ==
    LET q == Head(stack[p].hand) IN
    /\ At(k, p, "enqueue")
    /\ ready' = IF stack[p].call = "block" THEN <<q>> \o ready
                ELSE Append(ready, q)
    /\ IF ~LeavesWakeup(p) /\ ready_count + 1 > 0 /\ wait_count /= 0
       THEN /\ wait_count' = wait_count - 1
            /\ stack' = [stack EXCEPT ![p].pc = "send", ![p].hand = Tail(@)]
            /\ UNCHANGED ready_count
       ELSE /\ ready_count' = ready_count + 1
            /\ Readied(p, Tail(stack[p].hand))
            /\ UNCHANGED wait_count
    /\ UNCHANGED <<on, lock, state, wiring, wakeups, waiters, mutex, holder, condition>>

\* mach_msg has no timeout, and waits while the port is full.
Send(k, p) ==
    /\ At(k, p, "send")
    /\ wakeups < QLimit
    /\ wakeups' = wakeups + 1
    /\ Readied(p, stack[p].hand)
    /\ UNCHANGED <<on, lock, state, wiring, ready, counts, waiters, mutex, holder, condition>>

-----------------------------------------------------------------------------
(* cproc_block, after it has released p->lock.                             *)

ReceiveWired(k, p) ==
    /\ At(k, p, "wired")
    /\ messages[p] > 0
    /\ messages' = [messages EXCEPT ![p] = @ - 1]
    /\ Return(p, "retry")
    /\ UNCHANGED <<on, lock, state, wired, ready, counts, wakeups, waiters, mutex, holder, condition>>

DequeueReady(k, p) ==
    /\ At(k, p, "block")
    /\ IF ready /= <<>>
       THEN /\ ready' = Tail(ready)
            /\ ready_count' = ready_count - 1
            /\ stack' = [stack EXCEPT ![p].pc = "keep", ![p].hand = <<Head(ready)>>]
            /\ UNCHANGED wait_count
       ELSE /\ wait_count' = wait_count + 1
            /\ Goto(p, "getwaiter")
            /\ UNCHANGED <<ready, ready_count>>
    /\ UNCHANGED <<on, lock, state, wiring, wakeups, waiters, mutex, holder, condition>>

\* Mutant: the lock is released before the stack is left.
KeepOrBlock_Unlocked(p, kept, blocked) ==
    /\ ~lock[p]
    /\ IF state[p] = {}
       THEN /\ Goto(p, kept)
            /\ UNCHANGED <<lock, state>>
       ELSE /\ Goto(p, blocked)
            /\ UNCHANGED lock
            /\ state' = [state EXCEPT ![p] = {"BLOCKED"}]

\* Unless it has been saved, the cproc keeps its lock until it is switched from.
KeepOrBlock(p, kept, blocked) ==
    /\ ~lock[p]
    /\ IF state[p] = {}
       THEN /\ Goto(p, kept)
            /\ UNCHANGED <<lock, state>>
       ELSE /\ Goto(p, blocked)
            /\ lock' = [lock EXCEPT ![p] = TRUE]
            /\ state' = [state EXCEPT ![p] = {"BLOCKED"}]

BlockSwitch(k, p) ==
    /\ At(k, p, "keep")
    /\ KeepOrBlock(p, "ready", "switch")
    /\ UNCHANGED <<on, wiring, ready, counts, wakeups, waiters, mutex, holder, condition>>

\* The kernel thread leaves stack s, whose lock it holds, for stack t.
SwitchStacks(k, s, t) ==
    /\ on' = [on EXCEPT ![k] = t]
    /\ lock' = [lock EXCEPT ![s] = FALSE]

\* cproc_switch to the cproc in hand, once that has itself been switched from.
Switch(k, p) ==
    LET new == Head(stack[p].hand) IN
    /\ At(k, p, "switch")
    /\ ~lock[new]
    /\ state' = [state EXCEPT ![new] = {}]
    /\ SwitchStacks(k, p, new)
    /\ Return(p, AfterBlock(stack[p].call))
    /\ UNCHANGED <<wiring, ready, counts, wakeups, waiters, mutex, holder, condition>>

\* cproc_waiter allocates a stack if none is queued.
GetWaiter(k, p) ==
    /\ At(k, p, "getwaiter")
    /\ IF waiters /= <<>>
       THEN /\ waiters' = Tail(waiters)
            /\ stack' = [stack EXCEPT ![p].pc = "idle", ![p].waiter = Head(waiters)]
       ELSE /\ \E w \in Waiters :
                  /\ stack[w].pc = "none"
                  /\ stack' = [stack EXCEPT ![p].pc = "idle", ![p].waiter = w, ![w].pc = "receive"]
            /\ UNCHANGED waiters
    /\ UNCHANGED <<on, lock, state, wiring, ready, counts, wakeups, mutex, holder, condition>>

BlockIdle(k, p) ==
    /\ At(k, p, "idle")
    /\ KeepOrBlock(p, "unwait", "startwait")
    /\ UNCHANGED <<on, wiring, ready, counts, wakeups, waiters, mutex, holder, condition>>

\* cproc_start_wait begins anew on a stack that has been switched from.
StartWait(k, p) ==
    LET w == stack[p].waiter IN
    /\ At(k, p, "startwait")
    /\ ~lock[w]
    /\ SwitchStacks(k, p, w)
    /\ stack' = [stack EXCEPT ![p] = [NewStack("retry") EXCEPT !.mutex = stack[p].mutex],
                              ![w] = NewStack("receive")]
    /\ UNCHANGED <<state, wiring, ready, counts, wakeups, waiters, mutex, holder, condition>>

Unwait(k, p) ==
    /\ At(k, p, "unwait")
    /\ wait_count' = wait_count - 1
    /\ Goto(p, "unwaiter")
    /\ UNCHANGED <<on, lock, state, wiring, ready, ready_count, wakeups, waiters, mutex, holder, condition>>

Unwaiter(k, p) ==
    /\ At(k, p, "unwaiter")
    /\ waiters' = <<stack[p].waiter>> \o waiters
    /\ Return(p, "retry")
    /\ UNCHANGED <<on, lock, state, wiring, ready, counts, wakeups, mutex, holder, condition>>

-----------------------------------------------------------------------------
(* cproc_waiting, on a waiting stack.                                      *)

Receive(k, w) ==
    /\ At(k, w, "receive")
    /\ wakeups > 0
    /\ wakeups' = wakeups - 1
    /\ Goto(w, "woken")
    /\ UNCHANGED <<on, lock, state, wiring, ready, counts, waiters, mutex, holder, condition>>

\* Mutant: the message that woke nobody is not counted off.
Woken_Uncounted(k, w) ==
    /\ At(k, w, "woken")
    /\ IF ready /= <<>>
       THEN /\ ready' = Tail(ready)
            /\ stack' = [stack EXCEPT ![w].pc = "resume", ![w].hand = <<Head(ready)>>]
            /\ UNCHANGED counts
       ELSE /\ wait_count' = wait_count + 1
            /\ UNCHANGED ready_count
            /\ Goto(w, "receive")
            /\ UNCHANGED ready
    /\ UNCHANGED <<on, lock, state, wiring, wakeups, waiters, mutex, holder, condition>>

Woken(k, w) ==
    /\ At(k, w, "woken")
    /\ IF ready /= <<>>
       THEN /\ ready' = Tail(ready)
            /\ stack' = [stack EXCEPT ![w].pc = "resume", ![w].hand = <<Head(ready)>>]
            /\ UNCHANGED counts
       ELSE /\ wait_count' = wait_count + 1
            /\ ready_count' = ready_count + 1
            /\ Goto(w, "receive")
            /\ UNCHANGED ready
    /\ UNCHANGED <<on, lock, state, wiring, wakeups, waiters, mutex, holder, condition>>

Resume(k, w) ==
    LET new == Head(stack[w].hand) IN
    /\ At(k, w, "resume")
    /\ ~lock[new]
    /\ state' = [state EXCEPT ![new] = {}]
    /\ Goto(w, "leave")
    /\ UNCHANGED <<on, lock, wiring, ready, counts, wakeups, waiters, mutex, holder, condition>>

\* The waiting stack is queued for another kernel thread before it is left.
Leave(k, w) ==
    /\ At(k, w, "leave")
    /\ ~lock[w]
    /\ waiters' = Append(waiters, w)
    /\ lock' = [lock EXCEPT ![w] = TRUE]
    /\ Goto(w, "leaving")
    /\ UNCHANGED <<on, state, wiring, ready, counts, wakeups, mutex, holder, condition>>

Leaving(k, w) ==
    /\ At(k, w, "leaving")
    /\ SwitchStacks(k, w, Head(stack[w].hand))
    /\ stack' = [stack EXCEPT ![w] = NewStack("receive")]
    /\ UNCHANGED <<state, wiring, ready, counts, wakeups, waiters, mutex, holder, condition>>

-----------------------------------------------------------------------------
(* The other calls.                                                        *)

\* cthread_yield, which queues the cproc before it is switched from.
Yield(k, p) ==
    /\ At(k, p, "user")
    /\ ~wired[p]
    /\ ready /= <<>>
    /\ ~lock[p]
    /\ ready' = Append(Tail(ready), p)
    /\ lock' = [lock EXCEPT ![p] = TRUE]
    /\ state' = [state EXCEPT ![p] = {"BLOCKED"}]
    /\ stack' = [stack EXCEPT ![p].pc = "switch", ![p].call = "yield", ![p].hand = <<Head(ready)>>]
    /\ UNCHANGED <<on, wiring, counts, wakeups, waiters, mutex, holder, condition>>

\* cproc_create: the child gets a kernel thread of its own, or becomes ready.
Create(k, p, child) ==
    LET created == {j \in KernelThreads : on[j] /= None} IN
    /\ At(k, p, "user")
    /\ child \in Cprocs
    /\ stack[child].pc = "none"
    /\ IF MaxKernelThreads = 0 \/ Cardinality(created) < MaxKernelThreads
       THEN /\ \E j \in KernelThreads \ created : on' = [on EXCEPT ![j] = child]
            /\ Goto(child, "user")
            /\ UNCHANGED state
       ELSE /\ state' = [state EXCEPT ![child] = {"BLOCKED"}]
            /\ stack' = [stack EXCEPT ![child].pc = "user", ![p].pc = "ready",
                                      ![p].call = "wake", ![p].hand = <<child>>]
            /\ UNCHANGED on
    /\ UNCHANGED <<lock, wiring, ready, counts, wakeups, waiters, mutex, holder, condition>>

\* cthread_wire and cthread_unwire, which allocate and destroy the port.
Wire(k, p) ==
    /\ At(k, p, "user")
    /\ MayWire
    /\ wired' = [wired EXCEPT ![p] = ~@]
    /\ messages' = [messages EXCEPT ![p] = 0]
    /\ UNCHANGED <<on, stack, lock, state, ready, counts, wakeups, waiters, mutex, holder, condition>>

-----------------------------------------------------------------------------
\* Calls of the program, and steps within calls and of idle kernel threads.
UserCall(k, p) ==
    \/ \E m \in Mutexes : MutexLock(k, p, m) \/ MutexUnlock(k, p, m)
    \/ \E c \in Conditions, m \in Mutexes : ConditionWait(k, p, c, m)
    \/ \E c \in Conditions : Wake(k, p, c)
    \/ Yield(k, p)
    \/ \E child \in Cprocs : Create(k, p, child)
    \/ Wire(k, p)

CprocStep(k, p) ==
    \/ SolidQueue(k, p) \/ SolidTry(k, p) \/ Retry(k, p)
    \/ LookForWaiters(k, p) \/ UnlockSolid(k, p) \/ UnlockDequeue(k, p)
    \/ WaitUnlock(k, p) \/ WaitBlock(k, p)
    \/ Ready(k, p) \/ Enqueue(k, p) \/ Send(k, p)
    \/ ReceiveWired(k, p) \/ DequeueReady(k, p) \/ BlockSwitch(k, p) \/ Switch(k, p)
    \/ GetWaiter(k, p) \/ BlockIdle(k, p) \/ StartWait(k, p)
    \/ Unwait(k, p) \/ Unwaiter(k, p)

WaiterStep(k, w) ==
    Receive(k, w) \/ Woken(k, w) \/ Resume(k, w) \/ Leave(k, w) \/ Leaving(k, w)

Step(k) ==
    \/ \E p \in Cprocs : CprocStep(k, p)
    \/ \E w \in Waiters : WaiterStep(k, w)

Next == \E k \in KernelThreads : Step(k) \/ \E p \in Cprocs : UserCall(k, p)

Spec == Init /\ [][Next]_vars

-----------------------------------------------------------------------------
(* Properties.                                                             *)

\* Each stack that p is executing belongs to no other kernel thread: a cproc
\* is queued before it is switched from, and its lock keeps others off.
OneThreadPerStack ==
    \A j, k \in KernelThreads : j /= k /\ on[j] = on[k] => on[j] = None

\* A mutex that a cproc has locked stays held until that cproc unlocks it,
\* though mutex_unlock_solid holds and releases mutexes that it does not own.
LockedMutexIsHeld ==
    \A m \in Mutexes : holder[m] /= None => mutex[m].held

(* What LockedMutexIsHeld rests on: a mutex is locked, or a cproc in        *)
(* mutex_unlock_solid keeps it held while it looks at the queue, one of    *)
(* the two and once; m->lock has one owner in mutex_lock_solid; and a      *)
(* cproc within a call of mutex_lock or condition_wait knows the mutex.    *)
StackFields == [pc: PCs, call: Calls, mutex: Mutexes \cup {None}, queued: BOOLEAN,
                waiter: Waiters \cup {None}, hand: Seq(Cprocs)]

NeedsMutex(pc, call) ==
    \/ pc \in {"solid", "try", "retry", "unlock", "unlock_solid", "unlock_deq",
              "wait_unlock", "wait_block", "wired", "block", "keep", "getwaiter",
              "idle", "startwait", "unwait", "unwaiter"}
    \/ pc = "switch" /\ call /= "yield"
    \/ call \in {"block", "wait"}
NeedsWaiter == {"idle", "startwait", "unwait", "unwaiter"}

StackRecords ==
    {r \in StackFields :
        /\ NeedsMutex(r.pc, r.call) => r.mutex \in Mutexes
        /\ r.pc \in {"ready", "enqueue", "keep"} => r.hand /= <<>>
        /\ r.pc \in NeedsWaiter => r.waiter \in Waiters}

MutexTypes ==
    /\ stack \in [Stacks -> StackRecords]
    /\ mutex \in [Mutexes -> [held: BOOLEAN, lock: BOOLEAN, queue: Seq(Cprocs)]]
    /\ holder \in [Mutexes -> Cprocs \cup {None}]
    /\ condition \in [Conditions -> Seq(Cprocs)]
    /\ ready \in Seq(Cprocs) /\ waiters \in Seq(Waiters)

OneTrier ==
    \A s \in Stacks : stack[s].pc = "try" =>
       /\ mutex[stack[s].mutex].lock
       /\ stack[s].queued => mutex[stack[s].mutex].queue /= <<>>
       /\ \A r \in Stacks : stack[r].pc = "try" /\ stack[r].mutex = stack[s].mutex => r = s

OneUnlocker ==
    \A s \in Stacks : stack[s].pc = "unlock_deq" =>
       /\ mutex[stack[s].mutex].held
       /\ holder[stack[s].mutex] = None
       /\ \A r \in Stacks : stack[r].pc = "unlock_deq" /\ stack[r].mutex = stack[s].mutex => r = s

WaitersHold ==
    \A s \in Stacks : stack[s].pc = "wait_unlock" => holder[stack[s].mutex] = s

MutexInv == MutexTypes /\ OneTrier /\ OneUnlocker /\ WaitersHold /\ LockedMutexIsHeld

Running(s) == \E k \in KernelThreads : on[k] = s

\* What is linked through p->next: queues, and what a caller has in hand.
Chains == {<<"ready", None>>} \cup ({"mutex"} \X Mutexes)
          \cup ({"condition"} \X Conditions) \cup ({"hand"} \X Stacks)
Chain(x) ==
    CASE x[1] = "ready" -> ready
      [] x[1] = "mutex" -> mutex[x[2]].queue
      [] x[1] = "condition" -> condition[x[2]]
      [] x[1] = "hand" -> stack[x[2]].hand

Links(p) == UNION {{<<x, i>> : i \in {j \in DOMAIN Chain(x) : Chain(x)[j] = p}} : x \in Chains}

\* A cproc is in one queue at a time, as it has one link; in none while it runs
\* its own code; and in one unless it runs, or nobody would ever run it again.
EachCprocInOnePlace ==
    \A p \in Cprocs :
        /\ Cardinality(Links(p)) <= 1
        /\ Running(p) /\ stack[p].pc = "user" => Cardinality(Links(p)) = 0
        /\ stack[p].pc /= "none" /\ ~Running(p) => Cardinality(Links(p)) = 1

PlaceTypes ==
    /\ on \in [KernelThreads -> Stacks \cup {None}]
    /\ lock \in [Stacks -> BOOLEAN]
    /\ state \in [Cprocs -> SUBSET {"SWITCHING", "BLOCKED", "CONDWAIT"}]
    /\ wired \in [Cprocs -> BOOLEAN]
    /\ messages \in [Cprocs -> Int]

(* What OneThreadPerStack and EachCprocInOnePlace rest on.  The chains are *)
(* disjoint; a cproc that is linked has been switched from, or its lock is *)
(* held until it has been, or cproc_ready will find that it has not blocked*)
(* yet.                                                                    *)
In(x, q) == q \in Range(Chain(x))
Linked(q) == \E x \in Chains : In(x, q)

OneLink ==
    /\ \A x \in Chains : IsInjective(Chain(x))
    /\ \A x, y \in Chains : \A q \in Cprocs : In(x, q) /\ In(y, q) => x = y

Handing == {"ready", "enqueue", "send", "keep", "switch", "resume", "leave", "leaving"}
Leavings == {"switch", "startwait", "leaving"}
InBlock == {"block", "keep", "getwaiter", "idle"}
\* From condition_wait, or the end of mutex_lock_solid, to cproc_block's decision.
Suspending(q) ==
    \/ stack[q].pc \in InBlock \cup {"wait_unlock", "wait_block", "wired"}
    \/ /\ stack[q].call = "wait"
       /\ stack[q].pc \in {"unlock", "unlock_solid", "unlock_deq", "ready", "enqueue", "send"}

\* How cproc_ready may find a cproc.
Blocked(q) ==
    /\ state[q] = {"BLOCKED"} /\ ~wired[q]
    /\ Running(q) => stack[q].pc \in {"switch", "startwait"}
Asking(q) ==
    /\ Running(q) /\ Suspending(q)
    /\ IF wired[q] THEN messages[q] = 0 ELSE "SWITCHING" \in state[q]
Trying(q) == stack[q].pc = "try" /\ stack[q].queued

\* What is in hand, by where the code of the stack is.
HandAgrees(s) ==
    LET h == stack[s].hand
        l == stack[s].pc IN
    /\ l \notin Handing => h = <<>>
    /\ s \notin Range(h)
    /\ l \in {"keep", "switch", "resume", "leave", "leaving"} => Len(h) = 1

\* A cproc by where it is linked.
LinkAgrees(q) ==
    /\ q \in Range(ready) => Blocked(q)
    /\ \A m \in Mutexes : q \in Range(mutex[m].queue) =>
          /\ stack[q].mutex = m /\ stack[q].call /= "yield"
          /\ stack[q].pc \in InBlock \cup {"try", "wired", "switch", "startwait", "retry"}
          /\ Trying(q) \/ Blocked(q) \/ Asking(q)
    /\ \A c \in Conditions : q \in Range(condition[c]) => Blocked(q) \/ Asking(q)
    /\ \A s \in Stacks : q \in Range(stack[s].hand) =>
          CASE stack[s].pc \in {"ready", "send"} -> Blocked(q) \/ Asking(q)
            [] stack[s].pc = "enqueue" -> Blocked(q) \/ (Asking(q) /\ q /= Head(stack[s].hand))
            [] stack[s].pc \in {"keep", "switch", "resume"} -> Blocked(q)
            [] OTHER -> ~Running(q) /\ ~wired[q] /\ state[q] = {}

\* A cproc by where its code is.
CprocAgrees(q) ==
    /\ stack[q].pc = "none" => ~Running(q) /\ ~Linked(q) /\ ~wired[q]
    /\ stack[q].pc /= "none" /\ ~Running(q) => Linked(q) /\ stack[q].pc \in {"user", "retry"}
    /\ Running(q) /\ Linked(q) =>
          Trying(q) \/ Suspending(q) \/ stack[q].pc \in {"switch", "startwait"}
    /\ Trying(q) => mutex[stack[q].mutex].queue = <<q>>
    /\ stack[q].pc \in {"switch", "startwait"} => Blocked(q) /\ Linked(q)
    /\ stack[q].pc \in InBlock => state[q] \in {{}, {"SWITCHING"}}
    /\ Suspending(q) /\ ~wired[q] /\ "SWITCHING" \in state[q] => Linked(q)
    /\ Suspending(q) /\ wired[q] /\ stack[q].pc /= "wired" => "SWITCHING" \in state[q]
    /\ wired[q] => Running(q) /\ stack[q].pc \notin InBlock \cup NeedsWaiter \cup {"switch"}
    /\ messages[q] \in {0, 1} /\ (messages[q] = 1 => wired[q] /\ Suspending(q) /\ ~Linked(q))

CprocsAgree == \A q \in Cprocs : CprocAgrees(q) /\ LinkAgrees(q)

\* Idle stacks are queued once, or with one cproc that is about to wait.
WaitersAgree ==
    /\ IsInjective(waiters)
    /\ \A s \in Stacks : stack[s].pc \notin NeedsWaiter => stack[s].waiter = None
    /\ \A s \in Stacks : stack[s].waiter \notin Range(waiters)
    /\ \A r, s \in Stacks : stack[r].waiter = stack[s].waiter /\ r /= s => stack[s].waiter = None
    /\ \A w \in Waiters : w \in Range(waiters) \/ (\E s \in Stacks : stack[s].waiter = w) =>
          stack[w].pc \in {"receive", "leaving"} /\ (Running(w) => stack[w].pc = "leaving")
    /\ \A w \in Waiters : stack[w].pc = "none" => ~Running(w)

\* The call that the code of a stack is in.
CallsAt(l) ==
    CASE l \in {"unlock", "unlock_solid", "unlock_deq"} -> {"unlock", "wait"}
      [] l \in {"ready", "enqueue", "send"} -> {"unlock", "wait", "block", "wake"}
      [] l = "switch" -> {"block", "yield"}
      [] l \in InBlock \cup NeedsWaiter \cup {"wired"} -> {"block"}
      [] OTHER -> {"none"}

StackAgrees(s) ==
    /\ stack[s].call \in CallsAt(stack[s].pc)
    /\ lock[s] <=> stack[s].pc \in Leavings
    /\ lock[s] => Running(s)
    /\ stack[s].pc /= "none" =>
          (s \in Waiters <=> stack[s].pc \in {"receive", "woken", "resume", "leave", "leaving"})
    /\ s \in Waiters /\ ~Running(s) => stack[s].pc \in {"none", "receive"}

StacksAgree == \A s \in Stacks : HandAgrees(s) /\ StackAgrees(s)

PlaceInv == OneThreadPerStack /\ OneLink /\ CprocsAgree /\ StacksAgree /\ WaitersAgree

\* Messages that are in wait_port, or sent or received but not yet so counted.
InFlight == wakeups + Cardinality({s \in Stacks : stack[s].pc \in {"send", "woken"}})
\* Kernel threads that wait in cproc_waiting, or are on their way into it.
WaitingThreads ==
    Cardinality({s \in Stacks :
        \/ s \in Cprocs /\ stack[s].pc \in {"getwaiter", "idle", "startwait", "unwait"}
        \/ s \in Waiters /\ stack[s].pc \in {"receive", "woken"} /\ Running(s)})

\* The comments at the counters: ready_count is the ready cprocs less the
\* messages sent, wait_count the waiters less the messages pending.
CountsExact ==
    /\ ready_count = Len(ready) - InFlight
    /\ wait_count = WaitingThreads - InFlight

Asleep(s) ==
    \/ stack[s].pc = "receive" /\ wakeups = 0
    \/ stack[s].pc = "wired" /\ messages[s] = 0

AllAsleep == \A k \in KernelThreads : on[k] /= None => Asleep(on[k])

\* When all kernel threads wait in cproc_waiting, no cproc is left ready, and none
\* is queued at a mutex that nobody has locked.
NothingLeftReady ==
    AllAsleep /\ (\A p \in Cprocs : ~wired[p])
        => /\ ready = <<>>
           /\ \A m \in Mutexes : mutex[m].queue /= <<>> => holder[m] /= None

\* p is queued at a mutex or a condition.
Queued(p) ==
    \/ \E m \in Mutexes : p \in Range(mutex[m].queue)
    \/ \E c \in Conditions : p \in Range(condition[c])
Unlocking(p) == stack[p].pc \in {"unlock", "unlock_solid", "unlock_deq"}
HasUnlocked(p) == stack[p].pc \in {"ready", "enqueue", "send"} /\ stack[p].call \in {"unlock", "wait"}
WillTry(p, m) ==
    /\ NeedsMutex(stack[p].pc, stack[p].call)
    /\ stack[p].mutex = m
    /\ Unlocking(p) \/ stack[p].pc = "try" \/ ~(Queued(p) \/ HasUnlocked(p))

\* While a mutex is free and has waiters, some cproc is unlocking it, or is on
\* its way to try it and so to wake the next one when it unlocks it.
MutexWaitersHaveWaker ==
    \A m \in Mutexes :
        ~mutex[m].held /\ mutex[m].queue /= <<>> => \E p \in Cprocs : WillTry(p, m)

(* What NothingLeftReady rests on besides: a mutex that is held and that   *)
(* nobody has locked is being unlocked; and while a message could be sent  *)
(* for a cproc that is ready, a cproc is awake that will find it.          *)
HeldHasHolder ==
    \A m \in Mutexes : mutex[m].held /\ holder[m] = None =>
        \E p \in Cprocs : stack[p].pc = "unlock_deq" /\ stack[p].mutex = m

AwakeLooks ==
    /\ \E s \in Stacks : Running(s)
    /\ \A p \in Cprocs : stack[p].pc = "wired" => wired[p]
    /\ ready_count > 0 /\ wait_count > 0 =>
          \E p \in Cprocs : Running(p) /\ stack[p].pc \notin {"getwaiter", "idle", "startwait"}

SleepInv == HeldHasHolder /\ AwakeLooks
=============================================================================
