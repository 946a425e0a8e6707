---------------------------- MODULE CthreadsFork ----------------------------
(***************************************************************************)
(* Fork, join, detach and exit of C threads (user/threads/cthreads.c) on   *)
(* the cprocs, mutexes and conditions that CThreads models.                *)
(*                                                                         *)
(* What the code does under cthread_lock, under the lock of a cthread or   *)
(* under free_lock is one action; a condition is the queue of those that   *)
(* wait for it.  A cthread that is freed is used again by the next fork,   *)
(* whatever others still hold a pointer to it.                             *)
(***************************************************************************)
EXTENDS Integers, FiniteSets, SequencesExt

CONSTANTS
    Cprocs,         \* bound: those that can be created
    Main,           \* the cproc of the main thread
    Threads,        \* the cthread structures malloc can give
    Limits,         \* the limits that cthread_set_limit is given
    MaxForks,       \* bound: the calls of cthread_fork, for each limit
    Jobs,           \* their numbers
    None

ASSUME CthreadsForkAssumption ==
    /\ Main \in Cprocs
    /\ None \notin Cprocs \cup Threads
    /\ Limits \subseteq Nat
    /\ MaxForks \in [Limits -> Nat]
    /\ Jobs \subseteq Nat \ {0}
    /\ \A l \in Limits : 1..MaxForks[l] \subseteq Jobs

VARIABLES
    cproc,          \* cproc -> where it is, the thread it is and its locals
    thread,         \* cthread structure -> its fields
    forks,          \* the calls of cthread_fork so far
    handle,         \* job -> the cthread its forker was given
    unjoined,       \* jobs that the program has not joined or detached yet
    results,        \* job -> what cthread_join returned
    cthreads,       \* the forked threads that no cproc has taken yet
    cthread_cthreads,
    cthread_cprocs,
    cthread_needed, \* conditions
    cthread_idle,
    free_cthreads,
    cthread_max_cprocs  \* set before the first fork, 0 for no limit

counts == <<cthread_cthreads, cthread_cprocs>>
conditions == <<cthread_needed, cthread_idle>>
calls == <<forks, handle, unjoined, results>>
vars == <<cproc, thread, calls, cthreads, counts, conditions, free_cthreads,
          cthread_max_cprocs>>

PCs == {"none", "body", "needed", "user", "fork", "signal", "return", "done",
        "join", "joining", "free", "exit", "exiting", "exited"}

Init ==
    /\ cproc = [p \in Cprocs |-> [pc |-> IF p = Main THEN "user" ELSE "none",
                                  self |-> None, t |-> None]]
    /\ thread = [t \in Threads |-> [job |-> 0, state |-> {}, result |-> 0, done |-> <<>>]]
    /\ forks = 0
    /\ handle = [j \in Jobs |-> None]
    /\ unjoined = {}
    /\ results = [j \in Jobs |-> None]
    /\ cthreads = <<>>
    /\ cthread_cthreads = 1
    /\ cthread_cprocs = 1
    /\ cthread_needed = <<>>
    /\ cthread_idle = <<>>
    /\ free_cthreads = <<>>
    /\ cthread_max_cprocs \in Limits

At(p, pc) == cproc[p].pc = pc

Goto(p, pc) == [cproc EXCEPT ![p].pc = pc]

\* condition_signal: cond wakes at most one of those that wait for it, who
\* goes on at pc.
Woken(cps, cond, pc) ==
    IF cond = <<>> THEN cps ELSE [cps EXCEPT ![Head(cond)].pc = pc]
Rest(cond) == IF cond = <<>> THEN cond ELSE Tail(cond)

\* cthread_alloc takes the first of the free list, or else what malloc gives:
\* a structure that has never been used, and which one makes no difference.
Unused == {t \in Threads : \A j \in Jobs : handle[j] /= t}
Allocated ==
    CASE free_cthreads /= <<>> -> {Head(free_cthreads)}
      [] free_cthreads = <<>> /\ Unused /= {} -> {CHOOSE t \in Unused : TRUE}
      [] OTHER -> {}
Unborn == {p \in Cprocs : At(p, "none")}
NewCproc == CHOOSE p \in Unborn : TRUE

\* A fork creates a cproc while there are fewer of them than threads.
CreatesCproc ==
    /\ cthread_cthreads + 1 > cthread_cprocs
    /\ cthread_max_cprocs = 0 \/ cthread_cprocs < cthread_max_cprocs

\* A cproc runs the main thread's code or a forked function, which calls the
\* library.
Fork(p) ==
    /\ At(p, "user")
    /\ forks < MaxForks[cthread_max_cprocs]
    /\ CreatesCproc => Unborn /= {}
    /\ forks' = forks + 1
    /\ \E t \in Allocated :
       LET forker == [cproc EXCEPT ![p].pc = "fork", ![p].t = t] IN
          /\ handle' = [handle EXCEPT ![forks + 1] = t]
          /\ thread' = [thread EXCEPT ![t] = [job |-> forks + 1, state |-> {},
                                              result |-> 0, done |-> <<>>]]
          /\ cthreads' = Append(cthreads, t)
          /\ cthread_cthreads' = cthread_cthreads + 1
          /\ IF CreatesCproc
             THEN /\ cthread_cprocs' = cthread_cprocs + 1
                  /\ cproc' = [forker EXCEPT ![NewCproc].pc = "body"]
             ELSE /\ cproc' = forker
                  /\ UNCHANGED cthread_cprocs
    /\ free_cthreads' = Rest(free_cthreads)
    /\ unjoined' = unjoined \cup {forks + 1}
    /\ UNCHANGED <<results, conditions>>

ForkSignal(p) ==
    /\ At(p, "fork")
    /\ cproc' = Woken([cproc EXCEPT ![p].pc = "user", ![p].t = None], cthread_needed, "body")
    /\ cthread_needed' = Rest(cthread_needed)
    /\ UNCHANGED <<thread, calls, cthreads, counts, cthread_idle, free_cthreads>>

\* The program joins or detaches a thread once, when its forker has got it
\* or from the thread itself, by cthread_self.
Knows(p, j) ==
    /\ j \in unjoined
    /\ cproc[p].self = handle[j] \/ ~\E q \in Cprocs : At(q, "fork") /\ cproc[q].t = handle[j]

Detach(p, j) ==
    /\ At(p, "user")
    /\ Knows(p, j)
    /\ unjoined' = unjoined \ {j}
    /\ LET t == handle[j] IN
       IF "RETURNED" \in thread[t].state
       THEN /\ cproc' = [cproc EXCEPT ![p].pc = "free", ![p].t = t]
            /\ UNCHANGED thread
       ELSE /\ thread' = [thread EXCEPT ![t].state = @ \cup {"DETACHED"}]
            /\ UNCHANGED cproc
    /\ UNCHANGED <<forks, handle, results, cthreads, counts, conditions, free_cthreads>>

StartJoin(p, j) ==
    /\ At(p, "user")
    /\ Knows(p, j)
    /\ cproc[p].self /= handle[j]
    /\ unjoined' = unjoined \ {j}
    /\ cproc' = [cproc EXCEPT ![p].pc = "join", ![p].t = handle[j]]
    /\ UNCHANGED <<thread, forks, handle, results, cthreads, counts, conditions, free_cthreads>>

Join(p) ==
    /\ At(p, "join")
    /\ "RETURNED" \in thread[cproc[p].t].state
    /\ \E j \in Jobs :
          /\ j = thread[cproc[p].t].job
          /\ results' = [results EXCEPT ![j] = thread[cproc[p].t].result]
    /\ cproc' = Goto(p, "free")
    /\ UNCHANGED <<thread, forks, handle, unjoined, cthreads, counts, conditions, free_cthreads>>

JoinWait(p) ==
    /\ At(p, "join")
    /\ "RETURNED" \notin thread[cproc[p].t].state
    /\ thread' = [thread EXCEPT ![cproc[p].t].done = Append(@, p)]
    /\ cproc' = Goto(p, "joining")
    /\ UNCHANGED <<calls, cthreads, counts, conditions, free_cthreads>>

\* cthread_free, called with the lock of the thread unlocked.  The cproc of
\* a thread goes back to its loop.
Free(p) ==
    /\ At(p, "free")
    /\ free_cthreads' = <<cproc[p].t>> \o free_cthreads
    /\ cproc' = [cproc EXCEPT ![p].t = None,
                              ![p].pc = IF cproc[p].t = cproc[p].self THEN "done" ELSE "user"]
    /\ UNCHANGED <<thread, calls, cthreads, counts, conditions>>

\* Mutant: an idle cproc does not tell the main thread.
NextThread_Silent(p) ==
    IF cthreads /= <<>>
    THEN /\ cthreads' = Tail(cthreads)
         /\ cproc' = [cproc EXCEPT ![p] = [pc |-> "user", self |-> Head(cthreads), t |-> None]]
         /\ UNCHANGED conditions
    ELSE /\ cproc' = [cproc EXCEPT ![p] = [pc |-> "needed", self |-> None, t |-> None]]
         /\ cthread_needed' = Append(cthread_needed, p)
         /\ UNCHANGED <<cthreads, cthread_idle>>

\* The loop of cthread_body, under cthread_lock from cthread_queue_deq to
\* the end of condition_wait.
NextThread(p) ==
    IF cthreads /= <<>>
    THEN /\ cthreads' = Tail(cthreads)
         /\ cproc' = [cproc EXCEPT ![p] = [pc |-> "user", self |-> Head(cthreads), t |-> None]]
         /\ UNCHANGED conditions
    ELSE /\ cproc' = Woken([cproc EXCEPT ![p] = [pc |-> "needed", self |-> None, t |-> None]],
                           cthread_idle, "exit")
         /\ cthread_idle' = Rest(cthread_idle)
         /\ cthread_needed' = Append(cthread_needed, p)
         /\ UNCHANGED cthreads

Body(p) ==
    /\ At(p, "body")
    /\ NextThread(p)
    /\ UNCHANGED <<thread, calls, counts, free_cthreads>>

\* The function returns, or calls cthread_exit.
FunctionReturns(p) ==
    /\ At(p, "user")
    /\ p /= Main
    /\ thread' = [thread EXCEPT ![cproc[p].self].result = thread[cproc[p].self].job]
    /\ cproc' = Goto(p, "return")
    /\ UNCHANGED <<calls, cthreads, counts, conditions, free_cthreads>>

\* Mutant: the cthread is freed without a look at T_DETACHED.
Return_Frees(p) ==
    /\ At(p, "return")
    /\ thread' = [thread EXCEPT ![cproc[p].self].state = @ \cup {"RETURNED"}]
    /\ cproc' = [cproc EXCEPT ![p].pc = "free", ![p].t = cproc[p].self]
    /\ UNCHANGED <<calls, cthreads, counts, conditions, free_cthreads>>

Return(p) ==
    /\ At(p, "return")
    /\ IF "DETACHED" \in thread[cproc[p].self].state
       THEN /\ cproc' = [cproc EXCEPT ![p].pc = "free", ![p].t = cproc[p].self]
            /\ UNCHANGED thread
       ELSE /\ thread' = [thread EXCEPT ![cproc[p].self].state = @ \cup {"RETURNED"}]
            /\ cproc' = Goto(p, "signal")
    /\ UNCHANGED <<calls, cthreads, counts, conditions, free_cthreads>>

\* condition_signal(&t->done), when t may already be another thread's.
SignalDone(p) ==
    /\ At(p, "signal")
    /\ LET t == cproc[p].self IN
       /\ cproc' = Woken(Goto(p, "done"), thread[t].done, "join")
       /\ thread' = [thread EXCEPT ![t].done = Rest(@)]
    /\ UNCHANGED <<calls, cthreads, counts, conditions, free_cthreads>>

Done(p) ==
    /\ At(p, "done")
    /\ cthread_cthreads' = cthread_cthreads - 1
    /\ NextThread(p)
    /\ UNCHANGED <<thread, calls, cthread_cprocs, free_cthreads>>

\* cthread_exit of the main thread.
StartExit ==
    /\ At(Main, "user")
    /\ cproc' = Goto(Main, "exit")
    /\ UNCHANGED <<thread, calls, cthreads, counts, conditions, free_cthreads>>

Exit ==
    /\ At(Main, "exit")
    /\ IF cthread_cthreads > 1
       THEN /\ cproc' = Goto(Main, "exiting")
            /\ cthread_idle' = Append(cthread_idle, Main)
       ELSE /\ cproc' = Goto(Main, "exited")
            /\ UNCHANGED cthread_idle
    /\ UNCHANGED <<thread, calls, cthreads, counts, cthread_needed, free_cthreads>>

\* What a cproc does in the library, and what the program does.
Library(p) ==
    \/ ForkSignal(p) \/ Join(p) \/ JoinWait(p) \/ Free(p) \/ Body(p)
    \/ Return(p) \/ SignalDone(p) \/ Done(p)
    \/ (p = Main /\ Exit)
Program(p) ==
    \/ Fork(p) \/ FunctionReturns(p) \/ (p = Main /\ StartExit)
    \/ \E j \in Jobs : Detach(p, j) \/ StartJoin(p, j)

\* exit ends all cprocs.
LibraryStep(p) == ~At(Main, "exited") /\ UNCHANGED cthread_max_cprocs /\ Library(p)
ProgramStep(p) == ~At(Main, "exited") /\ UNCHANGED cthread_max_cprocs /\ Program(p)

Next == \E p \in Cprocs : LibraryStep(p) \/ ProgramStep(p)

Spec == Init /\ [][Next]_vars /\ \A p \in Cprocs : WF_vars(LibraryStep(p))

-----------------------------------------------------------------------------
(* Properties.                                                             *)

\* Cprocs that run a thread, to when they have given its result away.
Runs(p, t) == cproc[p].self = t /\ cproc[p].pc \notin {"signal", "done"}

\* Cprocs that have taken t's result, or found that nobody will, and free it.
Frees(p, t) == At(p, "free") /\ cproc[p].t = t

CprocFields == [pc : PCs, self : Threads \cup {None}, t : Threads \cup {None}]
ThreadFields ==
    [job : Nat, state : SUBSET {"RETURNED", "DETACHED"}, result : Nat, done : Seq(Cprocs)]

TypeOK ==
    /\ cproc \in [Cprocs -> CprocFields]
    /\ thread \in [Threads -> ThreadFields]
    /\ forks \in Nat
    /\ handle \in [Jobs -> Threads \cup {None}]
    /\ unjoined \subseteq Jobs
    /\ results \in [Jobs -> Nat \cup {None}]
    /\ cthreads \in Seq(Threads) /\ free_cthreads \in Seq(Threads)
    /\ cthread_needed \in Seq(Cprocs) /\ cthread_idle \in Seq(Cprocs)
    /\ cthread_cthreads \in Int /\ cthread_cprocs \in Int
    /\ cthread_max_cprocs \in Limits

JobState(j) ==
    LET t == handle[j] IN
    CASE j > forks -> "unborn"
      [] j <= forks /\ thread[t].job /= j -> "over"
      [] j <= forks /\ thread[t].job = j ->
            IF Contains(cthreads, t) THEN "forked"
            ELSE IF Contains(free_cthreads, t) \/ (\E p \in Cprocs : Frees(p, t)) THEN "over"
            ELSE IF "RETURNED" \in thread[t].state THEN "returned" ELSE "running"

(* A cthread is freed once, by the last who uses it: on the free list it   *)
(* is there once, and no cproc runs it, no fork waits to be taken, nobody  *)
(* joins it or frees it and no one is still to join or detach it.  The     *)
(* cproc that is about to signal it is the exception: cthread_body has     *)
(* unlocked it before.                                                     *)
FreedOnce ==
    /\ IsInjective(free_cthreads)
    /\ \A t \in Range(free_cthreads) :
          /\ t \notin Range(cthreads)
          /\ \A p \in Cprocs : ~Runs(p, t) /\ (cproc[p].t = t => At(p, "fork"))
          /\ \A j \in unjoined : handle[j] /= t

(* What FreedOnce rests on: the cprocs and the conditions they wait for    *)
(* agree; a thread is forked or run by one cproc, and one holds the claim  *)
(* to its result, until T_RETURNED and T_DETACHED say which end is done.   *)
Claims(p, t) == cproc[p].pc \in {"join", "joining", "free"} /\ cproc[p].t = t

Places ==
    /\ cproc[Main].self = None
    /\ cproc[Main].pc \in {"user", "fork", "join", "joining", "free", "exit", "exiting", "exited"}
    /\ \A p \in Cprocs \ {Main} :
          /\ cproc[p].pc \notin {"exit", "exiting", "exited"}
          /\ cproc[p].self = None <=> cproc[p].pc \in {"none", "body", "needed"}
    /\ \A p \in Cprocs : cproc[p].t = None <=> cproc[p].pc \notin {"fork", "join", "joining", "free"}

Queues ==
    /\ IsInjective(cthread_needed) /\ \A p \in Range(cthread_needed) : At(p, "needed")
    /\ IsInjective(cthread_idle) /\ \A p \in Range(cthread_idle) : At(p, "exiting")
    /\ \A t \in Threads :
          /\ IsInjective(thread[t].done)
          /\ \A p \in Range(thread[t].done) : At(p, "joining") /\ cproc[p].t = t

Given(t) == \E j \in Jobs : handle[j] = t

Handles ==
    /\ unjoined \subseteq 1 .. forks
    /\ \A j \in Jobs : handle[j] = None <=> j \notin 1 .. forks
    /\ \A t \in Range(cthreads) \cup Range(free_cthreads) : Given(t)
    /\ \A p \in Cprocs : /\ cproc[p].self /= None => Given(cproc[p].self)
                         /\ cproc[p].t /= None => Given(cproc[p].t)

OneRunner ==
    /\ IsInjective(cthreads)
    /\ \A t \in Threads, p \in Cprocs : Runs(p, t) =>
          /\ t \notin Range(cthreads)
          /\ \A q \in Cprocs : Runs(q, t) => q = p

OneClaimant ==
    /\ \A j, k \in unjoined : handle[j] = handle[k] => j = k
    /\ \A t \in Threads, p \in Cprocs : Claims(p, t) =>
          /\ \A j \in unjoined : handle[j] /= t
          /\ \A q \in Cprocs : Claims(q, t) => q = p

StatesAgree ==
    \A t \in Threads :
       /\ "RETURNED" \in thread[t].state =>
             t \notin Range(cthreads) /\ \A p \in Cprocs : ~Runs(p, t)
       /\ "DETACHED" \in thread[t].state =>
             /\ \A j \in unjoined : handle[j] /= t
             /\ \A p \in Cprocs : Claims(p, t) => At(p, "free") /\ cproc[p].self = t
       /\ \A p \in Cprocs : Frees(p, t) =>
             \/ "RETURNED" \in thread[t].state
             \/ "DETACHED" \in thread[t].state /\ cproc[p].self = t

ForkInv ==
    /\ TypeOK /\ Places /\ Queues /\ Handles
    /\ OneRunner /\ OneClaimant /\ StatesAgree /\ FreedOnce

(* What the steps of ForkJoin rest on: a record is that of the last job    *)
(* it was given to; a job has its runner, its place in the queue or its    *)
(* result; and the counts that decide whether a fork creates a cproc and   *)
(* whether the main thread may exit are those of the cprocs and threads.   *)
Records ==
    /\ \A t \in Threads : Given(t) => \E j \in Jobs : thread[t].job = j /\ handle[j] = t
    /\ \A j \in unjoined : thread[handle[j]].job = j
    /\ \A t \in Threads : "RETURNED" \in thread[t].state => thread[t].result = thread[t].job
    /\ \A p \in Cprocs : At(p, "return") =>
          thread[cproc[p].self].result = thread[cproc[p].self].job

NoneLost ==
    \A t \in Threads : Given(t) => \/ t \in Range(cthreads) \/ t \in Range(free_cthreads)
                                   \/ "RETURNED" \in thread[t].state
                                   \/ \E p \in Cprocs : Runs(p, t)

Started == {p \in Cprocs \ {Main} : cproc[p].pc /= "none"}
HaveThread == {p \in Cprocs : cproc[p].self /= None}

CountsExact ==
    /\ IsFiniteSet(Started)
    /\ cthread_cprocs = 1 + Cardinality(Started)
    /\ cthread_max_cprocs = 0 \/ cthread_cprocs <= cthread_max_cprocs
    /\ cthread_cthreads = 1 + Len(cthreads) + Cardinality(HaveThread)

JobInv == ForkInv /\ Records /\ NoneLost /\ CountsExact

(* The implementation of ForkJoin: the record of a thread says how far it  *)
(* is, until it is freed.  Each thread runs once, its joiner gets its own  *)
(* result although records are used again, every thread gets a cproc as    *)
(* long as the limit allows, and exit of the main thread waits for all     *)
(* others and for nothing else.                                            *)
Job == [j \in Jobs |-> JobState(j)]
Detached == {j \in Jobs : JobState(j) \in {"forked", "running"}
                          /\ "DETACHED" \in thread[handle[j]].state}
MainState ==
    CASE cproc[Main].pc \in {"exit", "exiting"} -> "exiting"
      [] cproc[Main].pc = "exited" -> "exited"
      [] OTHER -> "alive"

Promises == INSTANCE ForkJoin WITH
    limit <- cthread_max_cprocs, job <- Job, detached <- Detached, main <- MainState
Implements == Promises!Spec
=============================================================================
