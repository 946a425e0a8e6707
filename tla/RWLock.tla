------------------------------- MODULE RWLock -------------------------------
(***************************************************************************)
(* The multiple-reader/single-writer "complex lock" of kern/lock.c, with   *)
(* upgrade, downgrade and recursion, as compiled for NCPUS > 1.            *)
(*                                                                         *)
(* Every field of struct lock is read and written under the interlock, a   *)
(* spin lock, so one action is one critical section of the interlock.      *)
(* thread_sleep() asserts the wait before it drops the interlock and       *)
(* thread_wakeup() is called with it held, so going to sleep is part of    *)
(* the critical section that decided to.  The wait is uninterruptible:     *)
(* only thread_wakeup(l) ends it.  Spinning for lock_wait_time rereads the *)
(* fields without the interlock and then takes it again: a step that       *)
(* changes nothing, so a thread that neither proceeds nor sleeps stutters. *)
(***************************************************************************)
EXTENDS Naturals, FiniteSets

CONSTANTS
    Threads,
    NoThread,               \* (struct thread *)-1 in l->thread
    MaxWork,                \* bound: operations a client does within one hold
    MaxNest,                \* bound: recursive holds outstanding at a time
    RecursiveAfterUpgrade   \* may a writer by upgrade call lock_set_recursive?

\* read_count:16 and recursion_depth:12 in struct lock.
CountMod == 65536
DepthMod == 4096

ASSUME LockAssumption ==
    /\ IsFiniteSet(Threads)
    /\ NoThread \notin Threads
    /\ MaxWork \in Nat
    /\ MaxNest \in Nat
    /\ RecursiveAfterUpgrade \in BOOLEAN
    /\ Cardinality(Threads) + MaxNest < CountMod
    /\ MaxNest < DepthMod

VARIABLES
    l,          \* struct lock
    asleep,     \* threads waiting on the event l in thread_sleep
    pc,         \* thread -> the wait loop of lock.c it is in, or "run"
    mode,       \* thread -> the outermost hold it has been granted
    nest,       \* thread -> its recursive holds, read and write
    work,       \* thread -> operations left before it must release
    panicked    \* panic() was called

vars == <<l, asleep, pc, mode, nest, work, panicked>>

Locks == [thread: Threads \cup {NoThread}, read_count: 0..(CountMod - 1),
          want_upgrade: BOOLEAN, want_write: BOOLEAN, waiting: BOOLEAN,
          can_sleep: BOOLEAN, recursion_depth: 0..(DepthMod - 1)]

Calls == {"run", "lock_write", "lock_write_readers", "lock_read", "upgrade",
          "try_upgrade"}
Modes == {"none", "read", "write"}
Nests == [read: 0..MaxNest, write: 0..MaxNest]

NoNest == [read |-> 0, write |-> 0]

TypeOK ==
    /\ l \in Locks
    /\ asleep \subseteq Threads
    /\ pc \in [Threads -> Calls]
    /\ mode \in [Threads -> Modes]
    /\ nest \in [Threads -> Nests]
    /\ work \in [Threads -> 0..MaxWork]
    /\ panicked \in BOOLEAN

\* Mutant: the owner is left as bzero() made it.
lock_init_NullOwner(can_sleep) ==
    [thread |-> 0, read_count |-> 0, want_upgrade |-> FALSE,
     want_write |-> FALSE, waiting |-> FALSE, can_sleep |-> can_sleep,
     recursion_depth |-> 0]

lock_init(can_sleep) ==
    [thread |-> NoThread, read_count |-> 0, want_upgrade |-> FALSE,
     want_write |-> FALSE, waiting |-> FALSE, can_sleep |-> can_sleep,
     recursion_depth |-> 0]

Init ==
    /\ l \in {lock_init(b) : b \in BOOLEAN}
    /\ asleep = {}
    /\ pc = [t \in Threads |-> "run"]
    /\ mode = [t \in Threads |-> "none"]
    /\ nest = [t \in Threads |-> NoNest]
    /\ work = [t \in Threads |-> 0]
    /\ panicked = FALSE

-----------------------------------------------------------------------------
(* The fields.                                                             *)

Plus(n, mod)  == (n + 1) % mod
Minus(n, mod) == (n + (mod - 1)) % mod

IncRead(k)  == [k EXCEPT !.read_count = Plus(@, CountMod)]
DecRead(k)  == [k EXCEPT !.read_count = Minus(@, CountMod)]
IncDepth(k) == [k EXCEPT !.recursion_depth = Plus(@, DepthMod)]
DecDepth(k) == [k EXCEPT !.recursion_depth = Minus(@, DepthMod)]

\* What lock_done and lock_write_to_read clear when they give up write access.
DropWrite(k) ==
    IF k.recursion_depth # 0 THEN DecDepth(k)
    ELSE IF k.want_upgrade THEN [k EXCEPT !.want_upgrade = FALSE]
    ELSE [k EXCEPT !.want_write = FALSE]

\* Store k, waking every sleeper when cond holds and somebody waits.
StoreAndWake(k, cond) ==
    IF k.waiting /\ cond
    THEN l' = [k EXCEPT !.waiting = FALSE] /\ asleep' = {}
    ELSE l' = k /\ UNCHANGED asleep

Sleep(t) ==
    /\ l.can_sleep
    /\ l' = [l EXCEPT !.waiting = TRUE]
    /\ asleep' = asleep \cup {t}
    /\ UNCHANGED <<pc, mode, nest, work, panicked>>

\* Mutants: a condition of a wait loop is incomplete or off by one.
ReadersBlock_NoUpgrade(k) == k.read_count # 0
ReaderBlocked_NoUpgrade == l.want_write
UpgradeBlocked_Own(k) == k.read_count > 1

\* The conditions of the wait loops.
WriterBlocked == l.want_write
ReadersBlock(k) == k.read_count # 0 \/ k.want_upgrade
ReaderBlocked == l.want_write \/ l.want_upgrade
UpgradeBlocked(k) == k.read_count # 0

-----------------------------------------------------------------------------
(* The clients.  A thread acquires, does at most MaxWork operations within *)
(* the hold and releases.  A recursive hold for write or for update is     *)
(* taken only while the outermost hold is for write: vm_map_pageable says  *)
(* "Because of problems in the recursive lock package, we cannot upgrade   *)
(* to a write lock in vm_map_lookup" once it has downgraded.               *)

Idle(t)     == pc[t] = "run" /\ mode[t] = "none"
Owner(t)    == l.thread = t
Nested(t)   == nest[t].read + nest[t].write
HasWork(t)  == pc[t] = "run" /\ mode[t] # "none" /\ work[t] > 0
SpendWork(t) == work' = [work EXCEPT ![t] = @ - 1]
MayNest(t)  == Owner(t) /\ HasWork(t) /\ Nested(t) < MaxNest

Grant(t, m) ==
    /\ pc' = [pc EXCEPT ![t] = "run"]
    /\ mode' = [mode EXCEPT ![t] = m]

StartWork(t) == work' = [work EXCEPT ![t] = MaxWork]
EndWork(t)   == work' = [work EXCEPT ![t] = 0]

-----------------------------------------------------------------------------
(* lock_write                                                              *)

LockWriteNested(t) ==
    /\ MayNest(t) /\ mode[t] = "write"
    /\ l' = IncDepth(l)
    /\ nest' = [nest EXCEPT ![t].write = @ + 1]
    /\ SpendWork(t)
    /\ UNCHANGED <<asleep, pc, mode, panicked>>

LockWriteCall(t) ==
    /\ Idle(t) /\ ~Owner(t)
    /\ pc' = [pc EXCEPT ![t] = "lock_write"]
    /\ UNCHANGED <<l, asleep, mode, nest, work, panicked>>

\* while (l->want_write) sleep; l->want_write = TRUE; then, the interlock
\* still held, the first test of the second loop.
LockWriteWant(t) ==
    /\ pc[t] = "lock_write" /\ t \notin asleep
    /\ \/ WriterBlocked /\ Sleep(t)
       \/ /\ ~WriterBlocked
          /\ l' = [l EXCEPT !.want_write = TRUE]
          /\ IF ReadersBlock(l)
             THEN /\ pc' = [pc EXCEPT ![t] = "lock_write_readers"]
                  /\ UNCHANGED <<mode, work>>
             ELSE Grant(t, "write") /\ StartWork(t)
          /\ UNCHANGED <<asleep, nest, panicked>>

\* while (l->read_count != 0 || l->want_upgrade) sleep.
LockWriteReaders(t) ==
    /\ pc[t] = "lock_write_readers" /\ t \notin asleep
    /\ \/ ReadersBlock(l) /\ Sleep(t)
       \/ /\ ~ReadersBlock(l)
          /\ Grant(t, "write") /\ StartWork(t)
          /\ UNCHANGED <<l, asleep, nest, panicked>>

(* lock_read                                                               *)

LockReadNested(t) ==
    /\ MayNest(t)
    /\ l' = IncRead(l)
    /\ nest' = [nest EXCEPT ![t].read = @ + 1]
    /\ SpendWork(t)
    /\ UNCHANGED <<asleep, pc, mode, panicked>>

LockReadCall(t) ==
    /\ Idle(t) /\ ~Owner(t)
    /\ pc' = [pc EXCEPT ![t] = "lock_read"]
    /\ UNCHANGED <<l, asleep, mode, nest, work, panicked>>

LockReadWait(t) ==
    /\ pc[t] = "lock_read" /\ t \notin asleep
    /\ \/ ReaderBlocked /\ Sleep(t)
       \/ /\ ~ReaderBlocked
          /\ l' = IncRead(l)
          /\ Grant(t, "read") /\ StartWork(t)
          /\ UNCHANGED <<asleep, nest, panicked>>

(* lock_read_to_write                                                      *)

LockReadToWriteNested(t) ==
    /\ Owner(t) /\ HasWork(t) /\ mode[t] = "write" /\ nest[t].read > 0
    /\ l' = IncDepth(DecRead(l))
    /\ nest' = [nest EXCEPT ![t].read = @ - 1, ![t].write = @ + 1]
    /\ SpendWork(t)
    /\ UNCHANGED <<asleep, pc, mode, panicked>>

\* Mutant: gives the read hold up without waking the other upgrader.
LockReadToWriteFails_NoWakeup(t) ==
    /\ ~Owner(t) /\ HasWork(t) /\ mode[t] = "read"
    /\ l.want_upgrade
    /\ l' = DecRead(l)
    /\ mode' = [mode EXCEPT ![t] = "none"]
    /\ EndWork(t)
    /\ UNCHANGED <<asleep, pc, nest, panicked>>

\* Somebody else is upgrading: the read hold is lost and TRUE returned.
LockReadToWriteFails(t) ==
    /\ ~Owner(t) /\ HasWork(t) /\ mode[t] = "read"
    /\ l.want_upgrade
    /\ LET k == DecRead(l) IN StoreAndWake(k, k.read_count = 0)
    /\ mode' = [mode EXCEPT ![t] = "none"]
    /\ EndWork(t)
    /\ UNCHANGED <<pc, nest, panicked>>

LockReadToWrite(t) ==
    /\ ~Owner(t) /\ HasWork(t) /\ mode[t] = "read"
    /\ ~l.want_upgrade
    /\ LET k == DecRead(l)
       IN /\ l' = [k EXCEPT !.want_upgrade = TRUE]
          /\ IF UpgradeBlocked(k)
             THEN /\ pc' = [pc EXCEPT ![t] = "upgrade"]
                  /\ UNCHANGED mode
             ELSE Grant(t, "write")
    /\ SpendWork(t)
    /\ UNCHANGED <<asleep, nest, panicked>>

UpgradeWait(t) ==
    /\ pc[t] = "upgrade" /\ t \notin asleep
    /\ \/ UpgradeBlocked(l) /\ Sleep(t)
       \/ /\ ~UpgradeBlocked(l)
          /\ Grant(t, "write")
          /\ UNCHANGED <<l, asleep, nest, work, panicked>>

(* lock_write_to_read                                                      *)

LockWriteToRead(t) ==
    /\ HasWork(t) /\ mode[t] = "write"
    /\ StoreAndWake(DropWrite(IncRead(l)), TRUE)
    /\ \/ /\ Nested(t) = 0
          /\ mode' = [mode EXCEPT ![t] = "read"]
          /\ UNCHANGED nest
       \/ /\ nest[t].write > 0
          /\ nest' = [nest EXCEPT ![t].write = @ - 1, ![t].read = @ + 1]
          /\ UNCHANGED mode
    /\ SpendWork(t)
    /\ UNCHANGED <<pc, panicked>>

-----------------------------------------------------------------------------
(* lock_done                                                               *)

\* Mutant: looks at the upgrade bit before the readers.
Released_UpgradeFirst(k) ==
    IF k.want_upgrade THEN [k EXCEPT !.want_upgrade = FALSE]
    ELSE IF k.read_count # 0 THEN DecRead(k)
    ELSE DropWrite(k)

Released(k) == IF k.read_count # 0 THEN DecRead(k) ELSE DropWrite(k)

\* The caller knows which of its holds it ends, the lock does not.
LockDone(t) ==
    /\ pc[t] = "run" /\ mode[t] # "none"
    /\ LET k == Released(l) IN StoreAndWake(k, k.read_count = 0)
    /\ \/ /\ Nested(t) = 0 /\ ~Owner(t)
          /\ mode' = [mode EXCEPT ![t] = "none"]
          /\ EndWork(t)
          /\ UNCHANGED nest
       \/ /\ nest[t].read > 0
          /\ nest' = [nest EXCEPT ![t].read = @ - 1]
          /\ UNCHANGED <<mode, work>>
       \/ /\ nest[t].write > 0
          /\ nest' = [nest EXCEPT ![t].write = @ - 1]
          /\ UNCHANGED <<mode, work>>
    /\ UNCHANGED <<pc, panicked>>

-----------------------------------------------------------------------------
(* The try operations; one that fails changes nothing.                     *)

LockTryWrite(t) ==
    /\ ~Owner(t) /\ Idle(t)
    /\ ~(l.want_write \/ l.want_upgrade \/ l.read_count # 0)
    /\ l' = [l EXCEPT !.want_write = TRUE]
    /\ Grant(t, "write") /\ StartWork(t)
    /\ UNCHANGED <<asleep, nest, panicked>>

LockTryRead(t) ==
    /\ ~Owner(t) /\ Idle(t)
    /\ ~(l.want_write \/ l.want_upgrade)
    /\ l' = IncRead(l)
    /\ Grant(t, "read") /\ StartWork(t)
    /\ UNCHANGED <<asleep, nest, panicked>>

\* while (l->read_count != 0) sleep.  Unlike lock_read_to_write, sleeps even
\* when ~can_sleep.
TryUpgradeLoop(t, k) ==
    IF UpgradeBlocked(k)
    THEN /\ l' = [k EXCEPT !.waiting = TRUE]
         /\ asleep' = asleep \cup {t}
         /\ pc' = [pc EXCEPT ![t] = "try_upgrade"]
         /\ UNCHANGED mode
    ELSE l' = k /\ Grant(t, "write") /\ UNCHANGED asleep

LockTryReadToWrite(t) ==
    /\ ~Owner(t) /\ HasWork(t) /\ mode[t] = "read"
    /\ ~l.want_upgrade
    /\ TryUpgradeLoop(t, [DecRead(l) EXCEPT !.want_upgrade = TRUE])
    /\ SpendWork(t)
    /\ UNCHANGED <<nest, panicked>>

TryUpgradeWait(t) ==
    /\ pc[t] = "try_upgrade" /\ t \notin asleep
    /\ TryUpgradeLoop(t, l)
    /\ UNCHANGED <<nest, work, panicked>>

-----------------------------------------------------------------------------
(* Recursion and sleepability                                              *)

LockSetRecursive(t) ==
    /\ HasWork(t) /\ mode[t] = "write" /\ ~Owner(t)
    /\ l.want_upgrade => RecursiveAfterUpgrade
    /\ IF l.want_write
       THEN l' = [l EXCEPT !.thread = t] /\ UNCHANGED panicked
       ELSE panicked' = TRUE /\ UNCHANGED l
    /\ SpendWork(t)
    /\ UNCHANGED <<asleep, pc, mode, nest>>

LockClearRecursive(t) ==
    /\ pc[t] = "run" /\ Owner(t) /\ Nested(t) = 0
    /\ l' = [l EXCEPT !.thread = IF l.recursion_depth = 0 THEN NoThread ELSE @]
    /\ UNCHANGED <<asleep, pc, mode, nest, work, panicked>>

LockSleepable(can_sleep) ==
    /\ l' = [l EXCEPT !.can_sleep = can_sleep]
    /\ UNCHANGED <<asleep, pc, mode, nest, work, panicked>>

-----------------------------------------------------------------------------

\* Steps a thread takes without being asked to: it goes on with a call it is
\* in and gives up what it holds.
Continue(t) ==
    \/ LockWriteWant(t) \/ LockWriteReaders(t) \/ LockReadWait(t)
    \/ UpgradeWait(t) \/ TryUpgradeWait(t)
    \/ LockDone(t) \/ LockClearRecursive(t)

Call(t) ==
    \/ LockWriteCall(t) \/ LockWriteNested(t) \/ LockReadCall(t) \/ LockReadNested(t)
    \/ LockReadToWrite(t) \/ LockReadToWriteFails(t) \/ LockReadToWriteNested(t)
    \/ LockWriteToRead(t) \/ LockTryWrite(t) \/ LockTryRead(t)
    \/ LockTryReadToWrite(t) \/ LockSetRecursive(t)

Next ==
    /\ ~panicked
    /\ \/ \E t \in Threads : Continue(t) \/ Call(t)
       \/ \E can_sleep \in BOOLEAN : LockSleepable(can_sleep)

Spec == Init /\ [][Next]_vars

\* A thread inside lock.c keeps running until it sleeps, and a holder ends its
\* hold: every lock_read/lock_write of the kernel is paired with a lock_done.
FairSpec == Spec /\ \A t \in Threads : WF_vars(~panicked /\ Continue(t))

-----------------------------------------------------------------------------
(* Properties                                                              *)

\* A write hold excludes every other hold: while one thread writes, no other
\* reads, writes or waits for an upgrade of a read hold.
MutualExclusion ==
    \A t, u \in Threads :
        mode[t] = "write" /\ mode[u] # "none" => t = u

\* The holds that read_count counts.
CountedReaders == {t \in Threads : mode[t] = "read" /\ pc[t] = "run"}
NestedReads == IF l.thread = NoThread THEN 0 ELSE nest[l.thread].read

\* "Number of accepted readers" (struct lock): read_count is the number of read
\* holds, the owner's recursive ones included, at every point of every upgrade,
\* downgrade and release, although lock_done guesses which hold it ends.
ReadCountExact == l.read_count = Cardinality(CountedReaders) + NestedReads

Blocked(t) ==
    CASE pc[t] = "lock_write"         -> WriterBlocked
      [] pc[t] = "lock_write_readers" -> ReadersBlock(l)
      [] pc[t] = "lock_read"          -> ReaderBlocked
      [] OTHER                        -> UpgradeBlocked(l)

\* No wakeup is lost: whenever a thread sleeps, what it waits for is still
\* missing and the waiting bit will make the release that supplies it wake it.
\* lock_done and a failed upgrade skip the wakeup while read_count is not zero.
NoLostWakeup == \A t \in asleep : l.waiting /\ Blocked(t)

\* Once every hold has ended the lock is back in the state lock_init left it in:
\* no path through recursion, upgrade and downgrade leaves a bit behind.
QuiescentLockIsFree ==
    (\A t \in Threads : Idle(t)) => l = lock_init(l.can_sleep)

\* A reader that was promised an upgrade gets it: no writer that asked earlier,
\* no reader and no second upgrader can hold it up for ever.
UpgradeCompletes ==
    \A t \in Threads : pc[t] \in {"upgrade", "try_upgrade"} ~> mode[t] = "write"

\* A writer that has the want_write bit is not starved by readers or upgrades:
\* it shuts out new readers and in the end writes.
AcceptedWriterProceeds ==
    \A t \in Threads : pc[t] = "lock_write_readers" ~> mode[t] = "write"

\* Sleep is never for ever.
SleepersAreWoken == \A t \in Threads : t \in asleep ~> t \notin asleep

-----------------------------------------------------------------------------
(* Why mutual exclusion holds: the bits of the lock against the threads'   *)
(* places in lock.c.                                                       *)

Pending(t)   == pc[t] = "lock_write_readers"
Upgrading(t) == pc[t] \in {"upgrade", "try_upgrade"}
Writing(t)   == mode[t] = "write"

NestedWrites == IF l.thread = NoThread THEN 0 ELSE nest[l.thread].write

\* A thread waits to acquire before it holds and to upgrade while it reads.
WaitersHold ==
    \A t \in Threads :
        /\ pc[t] \in {"lock_write", "lock_write_readers", "lock_read"} => mode[t] = "none"
        /\ Upgrading(t) => mode[t] = "read"

\* Recursive holds belong to the owner, which holds the lock and is not on its
\* way to another hold; those for write come on top of a write hold.
OwnersHold ==
    \A t \in Threads :
        /\ Owner(t) => mode[t] # "none" /\ pc[t] = "run"
        /\ Nested(t) > 0 => Owner(t)
        /\ nest[t].write > 0 => Writing(t)

\* Each bit has one taker: a writer that came by lock_write or the one on its
\* way in has want_write, a writer by upgrade or the upgrader has want_upgrade.
BitsHaveTakers ==
    /\ \A t \in Threads :
        /\ Pending(t) => l.want_write
        /\ Upgrading(t) => l.want_upgrade
        /\ Writing(t) /\ ~l.want_upgrade => l.want_write
    /\ \A t, u \in Threads : t # u =>
        /\ ~(Pending(t) /\ Pending(u))
        /\ ~(Upgrading(t) /\ Upgrading(u))
        /\ ~(Pending(t) /\ Writing(u) /\ ~l.want_upgrade)

\* The inductive invariant behind MutualExclusion and ReadCountExact, for at
\* most one recursive hold outstanding: the lock's counters count the holds, its
\* bits have one taker each, and a write hold is alone, at every step of every
\* upgrade, downgrade and recursive hold.
LockInv ==
    /\ MutualExclusion
    /\ ReadCountExact
    /\ l.recursion_depth = NestedWrites
    /\ WaitersHold
    /\ OwnersHold
    /\ BitsHaveTakers

\* The complex lock implements the abstract reader/writer lock.
RW == INSTANCE ReadersWriter
Implements == RW!Spec
=============================================================================
