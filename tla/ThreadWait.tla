----------------------------- MODULE ThreadWait -----------------------------
(***************************************************************************)
(* The thread state machine of the kernel: waiting and waking (sched_prim.c*)
(* and the timer queue of mach_clock.c), dispatching, and stopping threads *)
(* (thread_suspend, thread_resume, thread_abort of thread.c).              *)
(*                                                                         *)
(* One action is one critical section of a thread lock, or of an event     *)
(* bucket and the thread locks taken inside it.  A wakeup holds the bucket *)
(* for all its waiters; only an operation on another waiter can fall       *)
(* between two of them, which is as if each had been woken by itself.      *)
(* What the code reads without a lock is a step of its own if another      *)
(* thread may change it before the lock is taken.                          *)
(*                                                                         *)
(* A thread that leaves its processor is on no run queue until the thread  *)
(* that replaces it has dispatched it: at[t] = "switch".  A processor with *)
(* nothing to run runs its idle thread, which is not modelled, nor are     *)
(* priorities, processor sets, kernel stacks and swapping.                 *)
(***************************************************************************)
EXTENDS Naturals, FiniteSets

CONSTANTS
    Threads,
    NoThread,
    Events,         \* what threads wait for, besides threads to stop
    NoEvent,        \* wait_event 0
    NCPUS,          \* simple locks are there only when it is more than 1
    MACH_ASSERT,    \* the kernel is compiled with assertions
    Waiters,        \* threads whose system calls wait for events
    Suspenders,     \* threads that call thread_suspend and thread_resume
    Aborts,         \* <<t, u>>: t calls thread_abort on u
    MaxWork,        \* bound: waits within one system call
    MaxStops        \* bound: user_stop_count

ASSUME ThreadAssumption ==
    /\ IsFiniteSet(Threads)
    /\ NoThread \notin Threads
    /\ NoEvent \notin Threads \cup Events
    /\ Events \cap Threads = {}
    /\ NCPUS \in Nat \ {0, 1}
    /\ MACH_ASSERT \in BOOLEAN
    /\ Waiters \subseteq Threads
    /\ Suspenders \subseteq Threads
    /\ Aborts \subseteq Threads \X Threads
    /\ MaxWork \in Nat
    /\ MaxStops \in Nat

VARIABLES
    th,         \* thread -> struct thread
    at,         \* thread -> on a cpu, on a run queue, being switched, or off
    pc,         \* thread -> where its code is, or will go on once it runs
    call,       \* thread -> the call it is in that stops another thread
    target,     \* thread -> that other thread
    evt,        \* thread -> the event clear_wait() read under its first lock
    work,       \* thread -> waits left in the system call
    softclock,  \* the expired timer softclock() is handling
    stops,      \* stopped threads whose thread_wakeup(&wake_active) is due
    unheld_halt, \* history: a thread that nobody held has halted itself
    panicked

vars == <<th, at, pc, call, target, evt, work, softclock, stops, unheld_halt, panicked>>

Bits == {"WAIT", "SUSP", "RUN", "UNINT", "HALTED"}
Results == {"AWAKENED", "TIMED_OUT", "INTERRUPTED"}
\* The address &t->wake_active, as an event, is t.
AllEvents == Events \cup Threads \cup {NoEvent}
\* Each thread but the holder may hold a thread once, and the user once.
MaxHolds == Cardinality(Threads) + 1

ThreadStates ==
    [state: SUBSET Bits, wait_event: AllEvents, wait_result: Results,
     timer: BOOLEAN, suspend_count: 0..MaxHolds, user_stop_count: 0..MaxStops,
     wake_active: BOOLEAN, ast_halt: BOOLEAN]

PCs == {"user", "kernel", "asserted", "block", "halt_self", "halted",
        "dowait", "dowait_block", "dowait_woken", "dowait_wakeup", "suspended",
        "halt_block", "halt_woken", "halt_again", "halt_fail", "clear",
        "clear_event", "check", "release", "spin"}

TypeOK ==
    /\ th \in [Threads -> ThreadStates]
    /\ at \in [Threads -> {"cpu", "runq", "switch", "off"}]
    /\ pc \in [Threads -> PCs]
    /\ call \in [Threads -> {"none", "suspend", "abort"}]
    /\ target \in [Threads -> Threads \cup {NoThread}]
    /\ evt \in [Threads -> AllEvents]
    /\ work \in [Threads -> 0..MaxWork]
    /\ softclock \in [step: {"idle", "timeout", "clear", "failed"},
                      thread: Threads \cup {NoThread}, event: AllEvents]
    /\ softclock.step # "idle" => softclock.thread \in Threads
    /\ stops \subseteq Threads
    /\ unheld_halt \in BOOLEAN
    /\ panicked \in BOOLEAN

SoftclockIdle == [step |-> "idle", thread |-> NoThread, event |-> NoEvent]

\* Every thread is runnable, on its way to its user program.
Init ==
    /\ th = [t \in Threads |->
               [state |-> {"RUN"}, wait_event |-> NoEvent,
                wait_result |-> "AWAKENED", timer |-> FALSE,
                suspend_count |-> 0, user_stop_count |-> 0,
                wake_active |-> FALSE, ast_halt |-> FALSE]]
    /\ at = [t \in Threads |-> "runq"]
    /\ pc = [t \in Threads |-> "kernel"]
    /\ call = [t \in Threads |-> "none"]
    /\ target = [t \in Threads |-> NoThread]
    /\ evt = [t \in Threads |-> NoEvent]
    /\ work = [t \in Threads |-> 0]
    /\ softclock = SoftclockIdle
    /\ stops = {}
    /\ unheld_halt = FALSE
    /\ panicked = FALSE

-----------------------------------------------------------------------------
(* Waking                                                                  *)

Sched(k) == k.state \cap {"WAIT", "SUSP", "RUN", "UNINT"}

\* "Sleeping and not suspendable - put on run queue."
Sleeping(k) ==
    "WAIT" \in k.state /\ "RUN" \notin k.state
                       /\ ("SUSP" \in k.state => "UNINT" \in k.state)

\* Mutant: the woken thread keeps its event.
Woken_KeepsEvent(k, result) ==
    IF "WAIT" \notin k.state THEN [k EXCEPT !.timer = FALSE]
    ELSE [k EXCEPT !.state = (@ \ {"WAIT"}) \cup
                             (IF Sleeping(k) THEN {"RUN"} ELSE {}),
                   !.wait_result = result,
                   !.timer = FALSE]

\* The end of clear_wait, and of thread_wakeup_prim for one waiter.
Woken(k, result) ==
    IF "WAIT" \notin k.state THEN [k EXCEPT !.timer = FALSE]
    ELSE [k EXCEPT !.state = (@ \ {"WAIT"}) \cup
                             (IF Sleeping(k) THEN {"RUN"} ELSE {}),
                   !.wait_event = NoEvent,
                   !.wait_result = result,
                   !.timer = FALSE]

Waiting(e) == {t \in Threads : th[t].wait_event = e}

\* The thread structures once the threads in ts have been woken ...
WakeAll(ts, result) ==
    [t \in Threads |-> IF t \in ts THEN Woken(th[t], result) ELSE th[t]]

\* ... by thread_wakeup_prim(), which panics if one of them does not wait.
WakeupPanics(ts) == panicked' = \E t \in ts : "WAIT" \notin th[t].state

\* thread_setrun() of those that the wakeup made runnable.
SetRun(ts) ==
    at' = [t \in Threads |-> IF t \in ts /\ Sleeping(th[t]) THEN "runq" ELSE at[t]]

\* thread_wakeup_prim() on an event outside this module: from an interrupt or
\* from another thread's kernel code.
Wakeup(e) ==
    /\ \E ts \in {Waiting(e)} \cup {{t} : t \in Waiting(e)} :
         /\ ts # {}
         /\ th' = WakeAll(ts, "AWAKENED")
         /\ SetRun(ts)
         /\ WakeupPanics(ts)
    /\ UNCHANGED <<pc, call, target, evt, work, softclock, stops, unheld_halt>>

\* thread_go(), or clear_wait(t, THREAD_AWAKENED, FALSE), from an interrupt or
\* another thread's kernel code, on a thread that waits without an event.
ThreadGo(t) ==
    /\ "WAIT" \in th[t].state /\ th[t].wait_event = NoEvent
    /\ th' = WakeAll({t}, "AWAKENED")
    /\ SetRun({t})
    /\ UNCHANGED <<pc, call, target, evt, work, softclock, stops, unheld_halt, panicked>>

\* thread_wakeup(&u->wake_active), after u's lock has been dropped.
AnnounceStop(u) ==
    /\ u \in stops
    /\ stops' = stops \ {u}
    /\ th' = WakeAll(Waiting(u), "AWAKENED")
    /\ SetRun(Waiting(u))
    /\ WakeupPanics(Waiting(u))
    /\ UNCHANGED <<pc, call, target, evt, work, softclock, unheld_halt>>

\* clear_wait() with the bucket of e locked: still waiting for e?
ClearWaitEvent(u, e, result) ==
    LET ts == {t \in {u} : th[t].wait_event = e}
    IN th' = WakeAll(ts, result) /\ SetRun(ts)

-----------------------------------------------------------------------------
(* softclock() and thread_timeout()                                        *)

\* The timer leaves the queue; the function is called without a lock.
SoftclockExpire(t) ==
    /\ softclock.step = "idle" /\ th[t].timer
    /\ th' = [th EXCEPT ![t].timer = FALSE]
    /\ softclock' = [step |-> "timeout", thread |-> t, event |-> NoEvent]
    /\ UNCHANGED <<at, pc, call, target, evt, work, stops, unheld_halt, panicked>>

\* assert(thread->timer.set == TELT_UNSET)
TimerAsserted(t) == MACH_ASSERT => ~th[t].timer

\* Mutant: does nothing unless the timer is set, but it has just been unset.
ThreadTimeout_NeedsSet ==
    LET t == softclock.thread
        e == th[t].wait_event
    IN /\ softclock.step = "timeout"
       /\ IF th[t].timer
          THEN softclock' = [softclock EXCEPT !.step = "clear", !.event = e]
          ELSE softclock' = SoftclockIdle
       /\ UNCHANGED <<th, at, pc, call, target, evt, work, stops, unheld_halt, panicked>>

\* thread_timeout() calls clear_wait(), which reads wait_event and unlocks.
ThreadTimeout ==
    LET t == softclock.thread
        e == th[t].wait_event
    IN /\ softclock.step = "timeout"
       /\ IF ~TimerAsserted(t)
          THEN softclock' = [softclock EXCEPT !.step = "failed"] /\ UNCHANGED <<th, at>>
          ELSE IF e = NoEvent
          THEN /\ ClearWaitEvent(t, NoEvent, "TIMED_OUT")
               /\ softclock' = SoftclockIdle
          ELSE /\ softclock' = [softclock EXCEPT !.step = "clear", !.event = e]
               /\ UNCHANGED <<th, at>>
       /\ UNCHANGED <<pc, call, target, evt, work, stops, unheld_halt, panicked>>

ThreadTimeoutClear ==
    /\ softclock.step = "clear"
    /\ ClearWaitEvent(softclock.thread, softclock.event, "TIMED_OUT")
    /\ softclock' = SoftclockIdle
    /\ UNCHANGED <<pc, call, target, evt, work, stops, unheld_halt, panicked>>

-----------------------------------------------------------------------------
(* Dispatching                                                             *)

On(t, p) == at[t] = "cpu" /\ pc[t] = p

Goto(t, p) == pc' = [pc EXCEPT ![t] = p]

\* thread_select, thread_invoke: t gets a processor and is interruptible.
Run(t) ==
    /\ at[t] = "runq"
    /\ Cardinality({u \in Threads : at[u] = "cpu"}) < NCPUS
    /\ at' = [at EXCEPT ![t] = "cpu"]
    /\ th' = [th EXCEPT ![t].state = @ \ {"UNINT"}]
    /\ UNCHANGED <<pc, call, target, evt, work, softclock, stops, unheld_halt, panicked>>

AfterBlock(p) ==
    CASE p = "halt_block"   -> "halt_woken"
      [] p = "dowait_block" -> "dowait_woken"
      [] OTHER              -> "kernel"

\* thread_block: the thread itself is chosen again, or another one.  From
\* "kernel" it is the context switch of ast_taken(), which has looked for a
\* halt request before.
ThreadBlock(t) ==
    /\ at[t] = "cpu"
    /\ pc[t] \in {"asserted", "block", "halt_block", "dowait_block", "halted", "kernel"}
    /\ pc[t] = "kernel" => ~th[t].ast_halt
    /\ Goto(t, AfterBlock(pc[t]))
    /\ \/ th[t].state = {"RUN"} /\ pc[t] # "kernel" /\ UNCHANGED at
       \/ at' = [at EXCEPT ![t] = "switch"]
    /\ UNCHANGED <<th, call, target, evt, work, softclock, stops, unheld_halt, panicked>>

\* The states in which thread_dispatch stops, requeues or just drops a thread.
StopStates == {{"RUN", "SUSP"}, {"RUN", "SUSP", "HALTED"}, {"RUN", "WAIT", "SUSP"}}
RunStates  == {{"RUN"}, {"RUN", "UNINT"}, {"RUN", "SUSP", "UNINT"}}
WaitStates == {{"RUN", "WAIT"}, {"RUN", "WAIT", "UNINT"},
               {"RUN", "WAIT", "SUSP", "UNINT"}}

\* thread_dispatch, and the dispatch of old_thread in thread_invoke.
ThreadDispatch(t) ==
    LET k == th[t]
    IN /\ at[t] = "switch"
       /\ at' = [at EXCEPT ![t] = IF k.state \in RunStates THEN "runq" ELSE "off"]
       /\ th' = [th EXCEPT ![t].state =
                             IF k.state \in StopStates \cup WaitStates
                             THEN @ \ {"RUN"} ELSE @,
                           ![t].wake_active = @ /\ k.state \notin StopStates]
       /\ stops' = IF k.state \in StopStates /\ k.wake_active
                   THEN stops \cup {t} ELSE stops
       /\ panicked' = (k.state \notin StopStates \cup RunStates \cup WaitStates)
       /\ UNCHANGED <<pc, call, target, evt, work, softclock, unheld_halt>>

-----------------------------------------------------------------------------
(* Kernel entry and exit, and waits                                        *)

\* A trap, or an interrupt that finds an AST: then there is nothing to do.
EnterKernel(t) ==
    /\ On(t, "user")
    /\ Goto(t, "kernel")
    /\ work' \in {[work EXCEPT ![t] = w] : w \in {0, MaxWork}}
    /\ UNCHANGED <<th, at, call, target, evt, softclock, stops, unheld_halt, panicked>>

\* ast_taken() found no reason to stay.
ReturnToUser(t) ==
    /\ On(t, "kernel")
    /\ ~th[t].ast_halt /\ "SUSP" \notin th[t].state
    /\ Goto(t, "user")
    /\ work' = [work EXCEPT ![t] = 0]
    /\ UNCHANGED <<th, at, call, target, evt, softclock, stops, unheld_halt, panicked>>

\* ast_taken() sees thread_should_halt(self), without a lock ...
AstHalt(t) ==
    /\ On(t, "kernel") /\ th[t].ast_halt
    /\ Goto(t, "halt_self")
    /\ UNCHANGED <<th, at, call, target, evt, work, softclock, stops, unheld_halt, panicked>>

\* ... and calls thread_halt_self(), which goes on to thread_block().
ThreadHaltSelf(t) ==
    /\ On(t, "halt_self")
    /\ th' = [th EXCEPT ![t].state = @ \cup {"HALTED"}, ![t].ast_halt = FALSE]
    /\ Goto(t, "halted")
    /\ work' = [work EXCEPT ![t] = 0]
    /\ unheld_halt' = (unheld_halt \/ "SUSP" \notin th[t].state)
    /\ UNCHANGED <<at, call, target, evt, softclock, stops, panicked>>

InCall(t, callers) == t \in callers /\ On(t, "kernel") /\ work[t] > 0
SpendWork(t) == work' = [work EXCEPT ![t] = @ - 1]

\* assert_wait(): th with k's wait for e, or for no event, asserted.
AssertWait(k, e, interruptible) ==
    [k EXCEPT !.wait_event = e,
              !.state = @ \cup (IF interruptible THEN {"WAIT"} ELSE {"WAIT", "UNINT"})]

AssertEventWait(t) ==
    /\ InCall(t, Waiters)
    /\ IF th[t].wait_event # NoEvent
       THEN panicked' = TRUE /\ UNCHANGED th
       ELSE /\ \E e \in Events \cup {NoEvent}, interruptible \in BOOLEAN :
                 th' = [th EXCEPT ![t] = AssertWait(@, e, interruptible)]
            /\ UNCHANGED panicked
    /\ Goto(t, "asserted")
    /\ SpendWork(t)
    /\ UNCHANGED <<at, call, target, evt, softclock, stops, unheld_halt>>

\* thread_will_wait() and thread_will_wait_with_timeout(), for thread_go().
ThreadWillWait(t) ==
    /\ InCall(t, Waiters)
    /\ \E timed \in BOOLEAN :
         th' = [th EXCEPT ![t].state = @ \cup {"WAIT"}, ![t].timer = @ \/ timed]
    /\ Goto(t, "block")
    /\ SpendWork(t)
    /\ UNCHANGED <<at, call, target, evt, softclock, stops, unheld_halt, panicked>>

\* "Must be called between assert_wait() and thread_block()."
ThreadSetTimeout(t) ==
    /\ On(t, "asserted")
    /\ th' = [th EXCEPT ![t].timer = @ \/ "WAIT" \in th[t].state]
    /\ Goto(t, "block")
    /\ UNCHANGED <<at, call, target, evt, work, softclock, stops, unheld_halt, panicked>>

-----------------------------------------------------------------------------
(* Holding and releasing                                                   *)

\* thread_hold()
Held(k) == [k EXCEPT !.suspend_count = @ + 1, !.state = @ \cup {"SUSP"}]

\* "was only suspended": the thread becomes runnable when its last hold goes.
OnlySuspended(k) ==
    k.suspend_count = 1 /\ k.state \cap {"WAIT", "RUN"} = {}

\* Mutant: the suspended bit stays.
Released_KeepsBit(k) ==
    [k EXCEPT !.suspend_count = @ - 1,
              !.state = IF k.suspend_count # 1 THEN @
                        ELSE (@ \ {"HALTED"}) \cup
                             (IF OnlySuspended(k) THEN {"RUN"} ELSE {})]

Released(k) ==
    [k EXCEPT !.suspend_count = @ - 1,
              !.state = IF k.suspend_count # 1 THEN @
                        ELSE (@ \ {"SUSP", "HALTED"}) \cup
                             (IF OnlySuspended(k) THEN {"RUN"} ELSE {})]

Requeue(u, cond) == at' = IF cond THEN [at EXCEPT ![u] = "runq"] ELSE at

Begin(t, c, u) ==
    call' = [call EXCEPT ![t] = c] /\ target' = [target EXCEPT ![t] = u]

EndCall(t) == Begin(t, "none", NoThread) /\ Goto(t, "kernel")

ThreadSuspend(t, u) ==
    LET stop(k) == [k EXCEPT !.user_stop_count = @ + 1]
        first   == th[u].user_stop_count = 0
    IN /\ InCall(t, Suspenders)
       /\ th[u].user_stop_count < MaxStops
       /\ th' = [th EXCEPT ![u] = IF first THEN Held(stop(@)) ELSE stop(@)]
       /\ Begin(t, "suspend", u)
       /\ Goto(t, IF first /\ u # t THEN "dowait" ELSE "suspended")
       /\ SpendWork(t)
       /\ UNCHANGED <<at, evt, softclock, stops, unheld_halt, panicked>>

\* thread_suspend() returns KERN_SUCCESS.
SuspendReturn(t) ==
    /\ On(t, "suspended")
    /\ EndCall(t)
    /\ UNCHANGED <<th, at, evt, work, softclock, stops, unheld_halt, panicked>>

ThreadResume(t, u) ==
    LET last == th[u].user_stop_count = 1
        k    == [th[u] EXCEPT !.user_stop_count = @ - 1]
    IN /\ InCall(t, Suspenders)
       /\ th[u].user_stop_count > 0
       /\ th' = [th EXCEPT ![u] = IF last THEN Released(k) ELSE k]
       /\ Requeue(u, last /\ OnlySuspended(k))
       /\ SpendWork(t)
       /\ UNCHANGED <<pc, call, target, evt, softclock, stops, unheld_halt, panicked>>

-----------------------------------------------------------------------------
(* thread_dowait: "Wait for a thread to actually enter stopped state."     *)

\* thread_sleep on &u->wake_active with u's lock held, up to thread_block.
SleepOnStop(t, u, p) ==
    /\ th' = [th EXCEPT ![u].wake_active = TRUE, ![t] = AssertWait(@, u, TRUE)]
    /\ Goto(t, p)

AfterDowait(t) == IF call[t] = "suspend" THEN "suspended" ELSE "clear"

\* "Thread is already suspended, or sleeping in an interruptible wait", or it
\* need not stop any more.
Stopped(s) == s \in {{"SUSP"}, {"WAIT", "SUSP"}} \/ "SUSP" \notin s

\* Mutant: takes the thread off the run queue without looking who waits for it.
AfterRemRunq_NoWakeup(t, u) == AfterDowait(t)

AfterRemRunq(t, u) ==
    IF th[u].wake_active THEN "dowait_wakeup" ELSE AfterDowait(t)

\* One round of the loop, u's lock held.
DowaitRound(t) ==
    LET u == target[t]
        s == Sched(th[u])
        queued == s = {"RUN", "SUSP"} /\ at[u] = "runq"
    IN \/ /\ Stopped(s)
          /\ Goto(t, AfterDowait(t))
          /\ UNCHANGED <<th, at>>
       \/ /\ queued
          /\ th' = [th EXCEPT ![u].state = @ \ {"RUN"}, ![u].wake_active = FALSE]
          /\ at' = [at EXCEPT ![u] = "off"]
          /\ Goto(t, AfterRemRunq(t, u))
       \/ /\ ~Stopped(s) /\ ~queued
          /\ SleepOnStop(t, u, "dowait_block")
          /\ UNCHANGED at

Dowait(t) ==
    /\ On(t, "dowait")
    /\ DowaitRound(t)
    /\ UNCHANGED <<call, target, evt, work, softclock, stops, unheld_halt, panicked>>

\* must_halt is FALSE only for thread_abort: it fails when interrupted.
DowaitWoken(t) ==
    /\ On(t, "dowait_woken")
    /\ IF th[t].wait_result # "AWAKENED" /\ call[t] = "abort"
       THEN Goto(t, "halt_fail") /\ UNCHANGED <<th, at>>
       ELSE DowaitRound(t)
    /\ UNCHANGED <<call, target, evt, work, softclock, stops, unheld_halt, panicked>>

DowaitWakeup(t) ==
    /\ On(t, "dowait_wakeup")
    /\ th' = WakeAll(Waiting(target[t]), "AWAKENED")
    /\ SetRun(Waiting(target[t]))
    /\ WakeupPanics(Waiting(target[t]))
    /\ Goto(t, AfterDowait(t))
    /\ UNCHANGED <<call, target, evt, work, softclock, stops, unheld_halt>>

-----------------------------------------------------------------------------
(* thread_abort: thread_halt(u, FALSE), then thread_release(u)             *)

\* Mutant: does not wait for the thread that already halts u.
HaltRound_NoWait(t, u, k) ==
    /\ th' = [th EXCEPT ![u] = [k EXCEPT !.ast_halt = TRUE]]
    /\ Goto(t, "dowait")

\* The loop of thread_halt that waits for another halt of u, u's lock held.
HaltRound(t, u, k) ==
    IF k.ast_halt /\ "HALTED" \notin k.state
    THEN /\ th' = [th EXCEPT ![u] = [k EXCEPT !.wake_active = TRUE],
                             ![t] = AssertWait(@, u, TRUE)]
         /\ Goto(t, "halt_block")
    ELSE /\ th' = [th EXCEPT ![u] = [k EXCEPT !.ast_halt = TRUE]]
         /\ Goto(t, "dowait")

\* "Break the cycle by interrupting anyone who is trying to halt us", with the
\* locks of t and u held.  The wakeup takes each waiter's lock: if u itself
\* waits for t, it spins, having woken those that are before u in the queue.
BreakHaltCycle(t, u) ==
    \/ /\ u \notin Waiting(t)
       /\ th' = WakeAll(Waiting(t), "INTERRUPTED") /\ SetRun(Waiting(t))
       /\ WakeupPanics(Waiting(t))
       /\ UNCHANGED pc
    \/ /\ u \in Waiting(t)
       /\ \E ts \in SUBSET (Waiting(t) \ {u}) :
            /\ th' = WakeAll(ts, "INTERRUPTED") /\ SetRun(ts)
            /\ WakeupPanics(ts)
       /\ Goto(t, "spin")

InAbort(t, u) == InCall(t, {v \in Threads : <<v, u>> \in Aborts}) /\ u # t

\* Mutant: halts u although somebody is halting t.
ThreadAbort_NoCycleTest(t, u) ==
    /\ InAbort(t, u)
    /\ SpendWork(t)
    /\ "HALTED" \notin th[u].state
    /\ HaltRound(t, u, Held(th[u]))
    /\ Begin(t, "abort", u)
    /\ UNCHANGED <<at, evt, softclock, stops, unheld_halt, panicked>>

ThreadAbort(t, u) ==
    /\ InAbort(t, u)
    /\ SpendWork(t)
    /\ \/ /\ "HALTED" \in th[u].state
          /\ th' = [th EXCEPT ![u].suspend_count = @ + 1]
          /\ Begin(t, "abort", u)
          /\ Goto(t, "release")
          /\ UNCHANGED <<at, panicked>>
       \/ /\ "HALTED" \notin th[u].state /\ th[t].ast_halt
          /\ BreakHaltCycle(t, u)
          /\ UNCHANGED <<call, target>>
       \/ /\ "HALTED" \notin th[u].state /\ ~th[t].ast_halt
          /\ HaltRound(t, u, Held(th[u]))
          /\ Begin(t, "abort", u)
          /\ UNCHANGED <<at, panicked>>
    /\ UNCHANGED <<evt, softclock, stops, unheld_halt>>

\* After the sleep, TH_HALTED is read without u's lock ...
HaltWoken(t) ==
    /\ On(t, "halt_woken")
    /\ Goto(t, IF "HALTED" \in th[target[t]].state \/ th[t].wait_result # "AWAKENED"
               THEN "release" ELSE "halt_again")
    /\ UNCHANGED <<th, at, call, target, evt, work, softclock, stops, unheld_halt, panicked>>

\* ... and the loop goes on with it: u may have been halted in between.
HaltAgain(t) ==
    /\ On(t, "halt_again")
    /\ HaltRound(t, target[t], th[target[t]])
    /\ UNCHANGED <<at, call, target, evt, work, softclock, stops, unheld_halt, panicked>>

\* thread_dowait failed: drop the request and wake whoever waits for the halt.
HaltFail(t) ==
    LET u == target[t]
    IN /\ On(t, "halt_fail")
       /\ th' = [WakeAll(Waiting(u), "INTERRUPTED") EXCEPT ![u].ast_halt = FALSE]
       /\ SetRun(Waiting(u))
       /\ WakeupPanics(Waiting(u))
       /\ Goto(t, "release")
       /\ UNCHANGED <<call, target, evt, work, softclock, stops, unheld_halt>>

\* Mutant: has no second critical section.
HaltClear_NoEvent(t) ==
    LET u == target[t]
    IN /\ On(t, "clear")
       /\ Goto(t, "check")
       /\ IF th[u].wait_event = NoEvent
          THEN ClearWaitEvent(u, NoEvent, "INTERRUPTED")
          ELSE UNCHANGED <<th, at>>
       /\ UNCHANGED <<call, target, evt, work, softclock, stops, unheld_halt, panicked>>

\* clear_wait(u, THREAD_INTERRUPTED, TRUE), in its two critical sections.
HaltClear(t) ==
    LET u == target[t]
        e == th[u].wait_event
    IN /\ On(t, "clear")
       /\ IF "UNINT" \in th[u].state \/ e = NoEvent
          THEN /\ IF "UNINT" \in th[u].state THEN UNCHANGED <<th, at>>
                  ELSE ClearWaitEvent(u, NoEvent, "INTERRUPTED")
               /\ Goto(t, "check")
               /\ UNCHANGED evt
          ELSE /\ evt' = [evt EXCEPT ![t] = e]
               /\ Goto(t, "clear_event")
               /\ UNCHANGED <<th, at>>
       /\ UNCHANGED <<call, target, work, softclock, stops, unheld_halt, panicked>>

HaltClearEvent(t) ==
    /\ On(t, "clear_event")
    /\ ClearWaitEvent(target[t], evt[t], "INTERRUPTED")
    /\ evt' = [evt EXCEPT ![t] = NoEvent]
    /\ Goto(t, "check")
    /\ UNCHANGED <<call, target, work, softclock, stops, unheld_halt, panicked>>

\* u is at a clean point, at a continuation that can be cleaned up (any wait
\* or exit of a system call may be one), or is made to run until it is.
HaltCheck(t) ==
    LET u == target[t]
    IN /\ On(t, "check")
       /\ \/ /\ "HALTED" \in th[u].state
             /\ Goto(t, "release")
             /\ UNCHANGED <<th, at, work, panicked>>
          \/ /\ "HALTED" \notin th[u].state /\ pc[u] = "kernel"
             /\ th' = [th EXCEPT ![u].state = @ \cup {"HALTED"},
                                 ![u].ast_halt = FALSE]
             /\ work' = [work EXCEPT ![u] = 0]
             /\ Goto(t, "release")
             /\ UNCHANGED <<at, panicked>>
          \/ /\ "HALTED" \notin th[u].state
             /\ IF Sched(th[u]) = {"SUSP"}
                THEN /\ th' = [th EXCEPT ![u].state = @ \cup {"RUN", "UNINT"}]
                     /\ at' = [at EXCEPT ![u] = "runq"]
                     /\ UNCHANGED panicked
                ELSE panicked' = TRUE /\ UNCHANGED <<th, at>>
             /\ Goto(t, "dowait")
             /\ UNCHANGED work
       /\ UNCHANGED <<call, target, evt, softclock, stops, unheld_halt>>

\* thread_release(u), and thread_abort() returns.
AbortRelease(t) ==
    LET u == target[t]
    IN /\ On(t, "release")
       /\ th' = [th EXCEPT ![u] = Released(@)]
       /\ Requeue(u, OnlySuspended(th[u]))
       /\ EndCall(t)
       /\ UNCHANGED <<evt, work, softclock, stops, unheld_halt, panicked>>

-----------------------------------------------------------------------------

\* Steps a thread takes by itself once it has a processor.
Continue(t) ==
    \/ ThreadBlock(t) \/ ReturnToUser(t) \/ AstHalt(t) \/ ThreadHaltSelf(t)
    \/ SuspendReturn(t) \/ Dowait(t) \/ DowaitWoken(t) \/ DowaitWakeup(t)
    \/ HaltWoken(t) \/ HaltAgain(t) \/ HaltFail(t) \/ HaltClear(t) \/ HaltClearEvent(t)
    \/ HaltCheck(t) \/ AbortRelease(t)

Call(t) ==
    \/ EnterKernel(t) \/ AssertEventWait(t) \/ ThreadWillWait(t) \/ ThreadSetTimeout(t)
    \/ \E u \in Threads : ThreadSuspend(t, u) \/ ThreadResume(t, u) \/ ThreadAbort(t, u)

Schedule(t) == Run(t) \/ ThreadDispatch(t) \/ AnnounceStop(t)

Softclock ==
    \/ \E t \in Threads : SoftclockExpire(t)
    \/ ThreadTimeout
    \/ ThreadTimeoutClear

\* A processor waits for a lock it holds, at splsched.
Spins == \E t \in Threads : pc[t] = "spin"

\* After a panic or a failed assertion, or with a processor that spins, the
\* machine does not go on.
Running == ~panicked /\ ~Spins /\ softclock.step # "failed"

Next ==
    /\ Running
    /\ \/ \E t \in Threads : Continue(t) \/ Call(t) \/ Schedule(t)
       \/ Softclock
       \/ \E e \in Events : Wakeup(e)
       \/ \E t \in Threads : ThreadGo(t)

Spec == Init /\ [][Next]_vars

\* A processor goes on with its thread, a runnable thread gets a processor, and
\* cause_ast_check() brings a thread that must stop from its user program into
\* the kernel.
Proceed(t) ==
    \/ Continue(t)
    \/ Run(t)
    \/ ThreadDispatch(t)
    \/ EnterKernel(t) /\ ("SUSP" \in th[t].state \/ th[t].ast_halt)

\* What is waited for uninterruptibly is something the kernel brings about;
\* anything else may never happen.
AwaitedUninterruptibly(e) ==
    \E t \in Threads : th[t].wait_event = e /\ "UNINT" \in th[t].state

\* The clock interrupts; the timer queue is in order of expiration, so that
\* later timeouts do not hold up an earlier one.
FairSpec ==
    /\ Spec
    /\ \A t \in Threads : WF_vars(Running /\ Proceed(t))
    /\ \A t \in Threads : WF_vars(Running /\ AnnounceStop(t))
    /\ WF_vars(Running /\ (ThreadTimeout \/ ThreadTimeoutClear))
    /\ \A t \in Threads : SF_vars(Running /\ SoftclockExpire(t))
    /\ \A e \in Events : WF_vars(Running /\ AwaitedUninterruptibly(e) /\ Wakeup(e))
    /\ \A t \in Threads : WF_vars(Running /\ "UNINT" \in th[t].state /\ ThreadGo(t))

-----------------------------------------------------------------------------
(* Properties                                                              *)

\* "It is not possible to be waiting and runnable at the same time": the state
\* bits, the run queues, the processors and the event queues agree.
StateMatchesQueues ==
    unheld_halt \/ \A t \in Threads :
        LET k == th[t]
        IN /\ "RUN" \in k.state <=> at[t] # "off"
           /\ "WAIT" \in k.state => at[t] # "runq"
           /\ k.wait_event # NoEvent => "WAIT" \in k.state
           /\ at[t] = "off" => k.state \cap {"WAIT", "SUSP"} # {}

\* The calls that have put a hold on u and not released it.
HoldingCalls(u) == {t \in Threads : call[t] = "abort" /\ target[t] = u}

\* suspend_count counts the holds: one for the user's stops, whatever their
\* number, and one for each thread_abort in progress; TH_SUSP says it is not 0.
HoldsBalanced ==
    unheld_halt \/ \A u \in Threads :
        LET k == th[u]
        IN /\ k.suspend_count = Cardinality(HoldingCalls(u)) +
                                (IF k.user_stop_count > 0 THEN 1 ELSE 0)
           /\ "SUSP" \in k.state <=> k.suspend_count > 0

\* Whoever sleeps until u stops will be told: wake_active is set, or a wakeup
\* that was decided under u's lock has still to be made.
StopIsAnnounced ==
    unheld_halt \/ \A t \in Threads : LET u == th[t].wait_event IN
        u \in Threads =>
            \/ th[u].wake_active
            \/ u \in stops
            \/ \E v \in Threads : pc[v] = "dowait_wakeup" /\ target[v] = u

\* "Don't need a lock because it really is stopped": once thread_dowait has
\* succeeded for thread_halt, nothing makes the thread run under its hands.
ReallyStopped ==
    unheld_halt \/ \A t \in Threads :
        pc[t] \in {"clear", "clear_event", "check"} => at[target[t]] = "off"

\* "We know that the thread is suspended and not waiting", once clear_wait has
\* been called: thread_halt never finds it otherwise.
NotWaitingWhenForced ==
    unheld_halt \/ \A t \in Threads : pc[t] = "check" => Sched(th[target[t]]) = {"SUSP"}

\* A timer is on the queue only while its thread waits, so that no wait starts
\* with a timer set, which set_timeout would put on the queue a second time.
TimerOnlyWhileWaiting == \A t \in Threads : th[t].timer => "WAIT" \in th[t].state

\* thread_halt_self, "Thread was asked to halt", is called only in a thread that
\* is held until it has halted: thread_dispatch panics for any other.
NoPanic == ~panicked

\* "Break the cycle by interrupting anyone who is trying to halt us, and causing
\* this operation to fail": a thread that aborts the one that aborts it goes on.
CyclesBroken == ~Spins

\* assert(thread->timer.set == TELT_UNSET), when thread_timeout is called.
TimeoutAssertion == softclock.step # "failed"

\* thread_dowait: "indicate that we are waiting for it to stop so that it can
\* wake us up when it does stop"; a suspender that is not itself held returns.
SuspendReturns ==
    \A t \in Threads :
        call[t] = "suspend" ~> (call[t] = "none" \/ "SUSP" \in th[t].state)

\* thread_abort returns, whatever the thread that it aborts waits for and whoever
\* aborts the caller meanwhile, unless the cycle is one that CyclesBroken is about.
\* "If someone else is halting it, wait for that to complete".
AbortReturns ==
    \A t \in Threads : call[t] = "abort" ~> (call[t] = "none" \/ unheld_halt \/ Spins)

\* A wait with a timeout ends even if its event never happens, whatever timers
\* and waits the thread had before.
TimedWaitEnds ==
    \A t \in Waiters : th[t].timer ~> ("WAIT" \notin th[t].state \/ panicked)
-----------------------------------------------------------------------------
(* What the safety properties rest on                                      *)

BlockPCs == {"asserted", "block", "halt_block", "dowait_block"}
DowaitPCs == {"dowait", "dowait_block", "dowait_woken", "dowait_wakeup"}
StoppedPCs == {"clear", "clear_event", "check"}
RequestPCs == DowaitPCs \cup StoppedPCs \cup {"halt_fail"}
AbortPCs == StoppedPCs \cup
            {"halt_block", "halt_woken", "halt_again", "halt_fail", "release"}

\* The code of t is at p, which fits the call c that it is in, on u.
CallAgrees(t, p, c, u) ==
    /\ p \in DowaitPCs => c # "none"
    /\ p \in AbortPCs => c = "abort"
    /\ p = "suspended" => c = "suspend"
    /\ c = "abort" => p \in DowaitPCs \cup AbortPCs
    /\ p \in DowaitPCs \cup AbortPCs => u \in Threads \ {t}

CallsAgree == \A t \in Threads : CallAgrees(t, pc[t], call[t], target[t])

HoldsCounted ==
    \A u \in Threads :
        th[u].suspend_count = Cardinality(HoldingCalls(u)) +
                              (IF th[u].user_stop_count > 0 THEN 1 ELSE 0)

\* t has asked u to halt, and has not yet found it halted or given up.
Asks(p, c) == c = "abort" /\ p \in RequestPCs
Requests(t, u) == Asks(pc[t], call[t]) /\ target[t] = u

\* Two threads may both ask u only if it is already halted: it stays so until
\* both have released it.
OneRequest ==
    \A u \in Threads : \A t \in Threads :
        Requests(t, u) /\ "HALTED" \notin th[u].state =>
            /\ th[u].ast_halt
            /\ \A v \in Threads : Requests(v, u) => v = t

\* A thread with structure k, which is at a with its code at p.
WaitAgrees(k) ==
    /\ k.wait_event # NoEvent => "WAIT" \in k.state
    /\ k.timer => "WAIT" \in k.state

ThreadAgrees(k, a, p) ==
    /\ "SUSP" \in k.state <=> k.suspend_count > 0
    /\ "RUN" \in k.state <=> a # "off"
    /\ "WAIT" \in k.state => a # "runq"
    /\ a = "off" => "WAIT" \in k.state \/ "SUSP" \in k.state
    /\ "HALTED" \in k.state =>
          /\ "SUSP" \in k.state /\ "WAIT" \notin k.state /\ "UNINT" \notin k.state
          /\ a # "runq" /\ (a = "cpu" => p = "halted")
    /\ a = "cpu" /\ p \notin BlockPCs => "WAIT" \notin k.state /\ "UNINT" \notin k.state

\* The same thread once thread_dowait has found it stopped: the aborter is at
\* p and has read the event e.
TargetStays(k, a, p, e) ==
    /\ a = "off" /\ "UNINT" \notin k.state
    /\ p = "clear_event" /\ "WAIT" \in k.state => k.wait_event = e
    /\ p \in {"check", "dowait_wakeup"} => "WAIT" \notin k.state

HasStopped(p, c) == c = "abort" /\ p \in StoppedPCs \cup {"dowait_wakeup"}

TargetsStopped ==
    \A t \in Threads :
        HasStopped(pc[t], call[t]) => TargetStays(th[target[t]], at[target[t]], pc[t], evt[t])

ThreadInv ==
    /\ TypeOK /\ CallsAgree /\ HoldsCounted /\ OneRequest
    /\ \A t \in Threads : WaitAgrees(th[t])
    /\ ~unheld_halt => /\ \A t \in Threads : ThreadAgrees(th[t], at[t], pc[t])
                       /\ TargetsStopped
                       /\ ~panicked
=============================================================================
