# TLA+ models of Mach 3.0

Specifications of the parts of Mach 3.0 (`src/`) whose
correctness depends on how threads, processors and messages interleave, with the
TLC configurations that check them and TLAPS proofs of the most important facts.
Every definition is translated from the C source; `PROJECT.json` ("map") gives the
lines each definition stands for.

1. Inventory
2. The modules and the code
3. The runs, their bounds and the fairness they assume
4. Where the code and its comments disagree
5. What is proved
6. Plan
7. What is not modelled

## 1. Inventory

The kernel (`kernel/kern`, `kernel/ipc`, `kernel/vm`, `kernel/norma`,
`kernel/device`) is multi-threaded and, with NCPUS > 1, multiprocessor code: all of its
state is shared memory guarded by simple (spin) locks at raised interrupt
priority, and by the sleeping readers/writer locks built on them. The user side is
the C threads library, the libraries and the bootstrap task with its default pager.

| component | state | operations | interacts with | hard behaviour | correct when |
|---|---|---|---|---|---|
| **Complex locks**, `kern/lock.c` | `struct lock`: read count, want_write, want_upgrade, waiting, owner, recursion depth | read, write, try, upgrade, downgrade, done, recursive, sleepable | `thread_sleep`, `thread_wakeup`; used by vm_map, devices | upgrades racing writers and each other, one waiting bit for all sleepers, `lock_done` infers which hold ends | writers alone, counts exact, no lost wakeup, upgrades complete; implements a readers/writer lock |
| **Waiting, dispatching and stopping threads**, `kern/sched_prim.c`, `kern/thread.c`, `kern/mach_clock.c`, `kern/ast.c` | state bits, wait event, timer, suspend and stop counts, wake_active, ASTs, run queues, event hash | assert_wait, clear_wait, wakeup, timeouts, thread_block, dispatch, suspend, resume, abort, halt | everything that blocks | thread and bucket locks dropped in between, timeouts that come late, threads that stop each other | bits agree with the queues, holds balance, stops are announced, aborts return |
| **IPC queues, ports as queues, port sets**, `ipc/ipc_mqueue.c`, `ipc_port.c`, `ipc_pset.c`, `kern/ipc_sched.c` | messages and receivers per queue, blocked senders, msgcount, qlimit, seqno, set membership | send, receive, set and move, change limits, destroy, transfer of receive rights | the thread's wait state, rights | hand-over to a receiver that times out, slots given to senders that time out, ports that move or die meanwhile | each message once and in order, counts exact, nobody sleeps beside a free slot or a message |
| **C threads**, `user/threads/cprocs.c`, `cthreads.h` | stacks, ready queue, counts of ready cprocs and waiting kernel threads, mutex and condition queues | mutex lock/unlock, condition wait/signal/broadcast, yield, create, wire | mach_msg as a semaphore | a cproc is queued before its stack is left; unlock looks for waiters after releasing | a stack run by one kernel thread, every cproc in one place, waiters are woken |
| **C threads: fork and join**, `user/threads/cthreads.c` | thread records, free list, forked threads, counts of threads and cprocs | fork, exit, join, detach, limit of cprocs | C threads | a record freed, and used again, while its condition is signalled | each thread runs once, its result is delivered once, the main thread outlives all; implements fork and join |
| IPC rights, `ipc/ipc_right.c`, `ipc_entry.c`, `ipc_hash.c`, `ipc_splay.c`, `ipc_space.c`, `mach_port.c` | entries, user reference counts, reverse table, rights per port | allocate, copyin, copyout, mod_refs, destroy, dead-name requests | ports, notifications | the space unlocked while a port is examined; reference overflow | counts of rights equal the rights, a name denotes one right |
| Notifications and send-possible requests, `ipc_notify.c`, `ipc_marequest.c` | request slots, hash of marequests | request, cancel, send on death or no-senders | ports, queues | cancelled as it fires | each notification at most once |
| Message copying and the trap, `ipc_kmsg.c`, `mach_msg.c` | message bodies, kmsg caches | copyin, copyout, fast send/receive | rights, queues, handoff | a second copy of the queueing code under other locks, back-out when one right of several fails | the fast path does what the slow path does |
| Event counters, `kern/eventcount.c` | count, one waiting thread | wait, wait_clear, signal from interrupts, abort | thread state | signal against a thread between assert_wait and dispatch | no event lost, one waiter |
| Processors and sets, `kern/processor.c`, `machine.c` | assignment, idle queues, shutdown state | assign, start, exit, shutdown thread | dispatch | assignment while running | a thread in one set, a shut processor runs nothing |
| Scheduling policy, `priority.c`, `timer.c`, `mach_factor.c` | usage, priorities, quanta | update, depress | run queues | arithmetic only | priorities in range |
| Tasks, creation, termination, swapping, `task.c`, `thread.c`, `thread_swap.c`, `ipc_tt.c` | thread lists, reference counts, swap state, reaper queue | create, hold, terminate, reap, swapin | thread stopping | termination against itself and against lookups | a thread reaped once, nobody runs swapped out |
| Allocators, `zalloc.c`, `kalloc.c` | free lists, sizes, doing_alloc | alloc, free, collect | VM | waiters for another's expansion | counts exact, no waiter forgotten |
| Exceptions, kernel RPC, `exception.c`, `ipc_mig.c`, `ipc_kobject.c`, ... | reply ports | raise, server calls | IPC | handoff paths | a reply is used once |
| **Address maps** (one entry), `vm_map.c`, `vm_user.c`, `vm_kern.c` | entries, timestamps, wiring | enter, remove, protect, copy, inherit, lookup, verify | complex locks, objects | map unlocked while a fault waits | stale lookups are found out |
| **Faults, copy-on-write, shadow chains**, `vm_fault.c`, `vm_object.c` (partly `vm_pageout.c`, `memory_object.c`, `vm_resident.c`) | pages, busy/absent/wanted, paging_in_progress, shadow and copy objects, references | fault, copy, push, collapse, bypass, page out, terminate | maps, pagers | pages and chains that change while unlocked | a page seen through any chain is the newest and a copy keeps its value; no page busy for ever; counts exact |
| NORMA delivery, `norma/ipc_unreliable.c`, `ipc_net.c`, `ipc_output.c`, `ipc_input.c` | sequence numbers, timers, incarnations, deferred interrupts | send, receive, ack, nack, sync, timeout | the network, kernel IPC | loss, duplication, reboots, interrupts during processing | each packet delivered once, in order |
| NORMA proxies, `ipc_transit.c`, `ipc_migrate.c`, ... | distributed send-right counts, tokens | transit, migrate, dead names | delivery | migration against sends | counts conserved across nodes |
| XMM, `norma/xmm_*.c` | per-page access of each kernel | supply, invalidate, clean | memory objects | concurrent faults of several kernels | one writer or many readers |
| Devices, `device/*.c` | open counts, I/O queues, filters | open, close, read, write, set_filter | IPC | open against close | no I/O after close |
| **Default pager**, `bootstrap/default_pager.c` | sequence number, readers and writers, page map, partition | init, data_request, data_write, data_initialize, terminate, no-senders, listing | the kernel's VM, IPC, disks | threads that receive in any order, transfers without locks, objects mapped again | requests in port order, the newest content, terminate after the transfers; implements a store of pages |
| libmach, debuggers, drivers, machine-dependent code, interfaces | | | | | not a subject here |

The rows in bold are modelled. Every blocking
operation of the kernel goes through `assert_wait`/`thread_block`, every service is
reached through a message queue, the same multiplexing is done once more in user
space, and a task's memory is what the fault handler and its pager make of it.
`PROJECT.json` lists every component with its files,
and under "hazards" what in this code is hard to test, each with the properties
that catch it or the reason why none does yet.

## 2. The modules and the code

| module | what it is |
|---|---|
| `ReadersWriter` | abstract: what a complex lock promises |
| `RWLock` | `kern/lock.c` |
| `RWLockProofs` | theorems about `RWLock` |
| `PortQueue` | abstract: what a port promises |
| `MessageQueue` | `ipc_mqueue.c`, `ipc_pset.c`, the queue side of `ipc_port.c` |
| `MessageQueueProofs` | theorems about `MessageQueue` |
| `MessageQueueImplements` | theorem that `MessageQueue` implements `PortQueue` |
| `ThreadWait` | `sched_prim.c`, the timers of `mach_clock.c`, the stopping half of `thread.c`, `ast.c` |
| `ThreadWaitProofs` | theorems about `ThreadWait` |
| `CThreads` | `user/threads/cprocs.c`, the mutex macros of `cthreads.h`, `csw.s` |
| `CThreadsProofs` | theorems about `CThreads`: mutexes; where cprocs and stacks are |
| `CThreadsWakeups` | theorems about `CThreads`: counts and wakeups |
| `PageStream` | abstract: what NORMA delivery promises between two nodes |
| `NetIPC` | `norma/ipc_unreliable.c`, the sending side of `ipc_output.c`, delivery in `ipc_input.c`, pages in `ipc_net.c` |
| `ForkJoin` | abstract: what fork, join and detach promise |
| `CthreadsFork` | `user/threads/cthreads.c` |
| `CthreadsForkProofs` | theorems about `CthreadsFork`: its invariants, and that its steps are those of `ForkJoin` |
| `PagedStore` | abstract: what a pager promises about its pages |
| `DefaultPager` | `bootstrap/default_pager.c`, with the kernel as `vm_fault.c`, `vm_pageout.c` and `vm_object.c` use a pager |
| `CowMemory` | abstract: what inherited memory promises |
| `DefaultPagerProofs` | theorems about `DefaultPager` |
| `VmFault` | `vm_fault.c`, the chains of `vm_object.c`, and what `vm_map.c` and `vm_pageout.c` do to them |
| `MC...` | instances for TLC: symmetry sets, views, constraints |

A module's mutants (operators named `X_Something`, each "Mutant: ..." of the
definition `X`) stand just before the definition they change. They are plausible bugs of that
code; the property named with them in `PROJECT.json` fails when the mutant takes the
place of `X`, which shows that the property depends on what the code does there.

### RWLock

All fields of `struct lock` are read and written under the interlock, so **an
action is one critical section of the interlock**. `thread_sleep` asserts the wait
before it releases the interlock, and `thread_wakeup` is called with it held: falling
asleep belongs to the section that decided to. The waits are uninterruptible. Spinning
rereads fields without the interlock and then repeats the section: a stutter.

`l` is the struct, with the widths of `read_count:16` and `recursion_depth:12`;
`pc[t]` says in which wait loop of `lock.c` thread t is; `asleep` is the set of threads
in `thread_sleep`. `mode` and `nest` are history: what each client has been granted.
Clients keep the protocol of the header (release what they hold, recurse only as the
owner), which `work` and `nest` bound. `RecursiveAfterUpgrade` says whether
`lock_set_recursive` may be called by a writer that came by `lock_read_to_write`: then it
panics, so the runs set it FALSE.

The refinement mapping to `ReadersWriter` is the history variable `mode`.

### ThreadWait

**An action is one critical section of a thread lock**, or of an event bucket with
the thread locks taken inside it. `th[t]` holds the fields of `struct thread`; `at[t]` says
whether t is on a processor, on a run queue, being switched away from, or on none of
them. A thread that leaves its processor is `"switch"` until the thread that replaces it has
run `thread_dispatch` on it: that is the window in which it is waiting and still
running, and in which wakeups, suspensions and aborts find `RUN|WAIT`. `pc` names the
position in the blocking calls (`thread_dowait`, `thread_halt`, `clear_wait`,
`thread_halt_self`), since each releases its locks several times. `softclock` is the one timer
the clock interrupt has taken off the queue and not yet run.

What the code reads without a lock is a step of its own when it may change before the lock is
taken: `HaltWoken` is the look at `TH_HALTED` after `thread_block`, `HaltAgain` the loop on
`AST_HALT` under the lock that follows it, and `AstHalt` the look of `ast_taken` on which `ThreadHaltSelf` acts. Where an operation takes a thread lock that its caller already holds (`Spins`), the processor
spins at high priority; like a panic or a failed assertion, that stops the system as far
as the model is concerned (`Running`). `MACH_ASSERT` says whether the kernel is compiled with assertions.
`NCPUS` is more than 1: simple locks exist only then, and with one processor
some of these steps cannot be separated (nothing runs between `ast_taken` and `thread_halt_self`).
Two events are taken to be in different buckets, and the order of bucket and thread locks is not modelled.

`unheld_halt` is history: it becomes TRUE when a thread that nobody holds halts itself, on a request that has
been withdrawn, or that was set after it had been halted and left behind (section 4). The code goes on to panic from there, so the
safety properties say nothing of that thread, and `BeforeUnheldHalt` lets TLC stop
following such behaviours; the run `thread_left` is about them. `View` leaves out
`wait_result` of threads that will not read it.

### MessageQueue

**An action is what a thread does under a port lock, under a queue lock, or under
both** when the second is taken before the first is released, which is the code's
usual step from port to queue. A receive is therefore: find the queue and wait
(`Receive`), be handed a message or wake for another reason (`ReceiveWoken`), and later
count the message off its port (`ReceiveDone`); a send may block at its port
(`ip_blocked`), be woken and try again. `ThreadTimeout` and `ThreadAbort` are the
part of `clear_wait` that IPC sees. `Senders` hold send rights, so ports die under
them; ports move between sets, their receive rights go into transit and come back, and
dead sets keep their members until those are next used, as in the code. Sequence
numbers are counted modulo `SeqnoLimit`.

The refinement mapping to `PortQueue` takes the messages of a port from whichever queue
the port uses, and the messages received from the fields `ith_kmsg` and `ith_seqno`.

### CThreads

A kernel thread executes the stack it is on; **an action is what it does under one
spin lock, or one atomic operation**. Where the code of a stack is, with its locals, is
kept with the stack (`stack[s].pc`, `.hand` for the cprocs it has taken off a queue),
so that switching stacks is changing `on[k]`. `lock[s]` is `p->lock`, which protects a
stack from being resumed until `cproc_switch` has left it, and mutexes have the spin
lock and the `held` bit of the header. `wait_port` is a counter of messages with its
queue limit; `cproc_waiting` receives from it. `ready_count` and `wait_count`
are the code's own counters. `wait_count` may be negative: a thread that counted itself
as a waiter may be saved by the queue after a message was sent for it. The code then sends
messages although nobody waits, and `mach_msg` would block the sender
inside `cproc_ready` once the port is full (`QLimit`); with the bounds used it is not.
Wired cprocs wait on their own port (`messages`).

### NetIPC

Everything in the NORMA layer runs under the netipc lock, which defers interrupts
until it is released: **an action is a whole interrupt handler, or what a thread does
while it holds the lock**. The operators with a first argument `n` and a second `k` (a
node's variables before a call) give these variables after it, so that a handler is
the composition of the calls it makes; `FoldLeft` is its loop over a queue of pcs.
`node[n]` holds `netipc_sending`, `netipc_self_stopped`, the list of pages, the three
queues, the `struct pcs` of each remote and the `netipc_packet` being sent to it (`dp`).
`pcs_incarnation` is only 0 or right while nobody reboots: `known`. `net` is a set of
packets: a receive may leave the packet there (a duplicate), any packet can be lost, and
a set has no order. `Implements` maps to `PageStream`: `got` is the page delivered last
and `freed` what `dp_finish` has freed.

`panicked` is a failed assertion. `corrupt` is noted when `netipc_recv_nack` takes a pcs
off a queue it is not on (section 4); both stop the node, since what the code does
then depends on its layout in memory.

### CthreadsFork

What cprocs do between fork and exit, over the mutexes and conditions that
`CThreads` models: **an action is what the code does under `cthread_lock`, under the
lock of a thread, or under `free_lock`**, and a condition is the queue of those who wait
for it, so that a signal is lost when nobody waits. `cthread_fork` puts the
thread on its queue and decides whether a cproc is to be created (`Fork`), and only then,
with nothing locked, signals `cthread_needed` (`Signal`);
`cthread_body` runs a thread, notes its result under `t->lock`, signals `t->done` after
it has unlocked it (a record that the joiner may have freed by then, and a fork taken again), and takes
the next. A record is freed to a list that the next fork takes it from. `handle`,
`unjoined` and `results` are what the program knows: it joins or
detaches each thread once, as the manual asks.

`ForkJoin` says how far each thread is; the mapping reads that from the records and, as a
record may be used again, from whose it is (`thread[t].job`). Its fairness is implemented too: a forked
thread gets a cproc as long as the limit allows it, and the exit of the main thread waits for
the others and for nothing else. `Cprocs` bounds the cprocs that can be created: a fork that
would need one more is not made.

### DefaultPager

`Threads` are the server threads of one port set; `queue` and `received` are the port's
messages and its next sequence number, and a message is received by any thread that
is free. **An action is what a thread does under `ds->lock`, under the lock of the
block map or that of the partition, or one transfer, for which nothing is locked.** `Lock` is
`pager_port_lock`: a thread whose message has not its turn sleeps for `seqno`. Reads and writes
count themselves in `readers` and `writers`, wake the next message and go on unlocked.
`Fault`, `Modify`, `PageOut`, `Initialize`, `Terminate`, `Map` and `NoMoreSenders` are the
kernel, one request for an absent page: they are read from `vm_fault.c`, `vm_pageout.c` and
`vm_object.c`. A page comes clean and is not precious, as the pager asks; `unwritten` are the pages that came for a fault that
wants to write and has not done so yet. That such a fault goes on before its page is paged out again is not what the code
ensures, only what is usual: the passing runs assume it (`Written`), `SlowWriters` drops it, and `DefaultPager_unwritten.cfg` shows what follows.
`MayAbort` and `LateInitialize` name two more things the passing runs leave out (section 4). `lister` is `default_pager_objects`, which takes references to the name
port while `terminate` waits to give them away.

`content` is history, the last content of each page; `PagedStore` says that the kernel
gets it back, however reads and writes overlap, blocks are given up, and the
object is terminated and mapped again, unless the pager has had to say that a
transfer failed or that there was no room (`Broken`); and that every request is answered.

### VmFault

Each map has one entry, each object one page: what remains is the chain. **An action
is what is done while the lock of an object is held, or handed down from an object to its
shadow** (`Look` follows the shadows to where the fault stops: at a real page, at a busy
one, at a pager, at the end). Between actions only what the code leaves behind keeps others
away: the busy page, the place-holder in the first object, references
and `paging_in_progress`. `thread[t]` is `vm_fault_page`'s state (`first`, `cur`, the copy object
it last looked at, what it may map), `stale` says that the version of the map has changed since the
lookup, and `pmap` is what the task has mapped, which is what a write without a fault uses.

`Lookup` gives an entry its object, or a shadow if it needs a copy; `CopyUp`, `Insert` and `Push`
copy a page to the first object or to the copy object; `Verify`, `Relookup` and `Enter` are the end
of `vm_fault`. `ForkShare` and `ForkCopy` are `vm_map_fork`: symmetric copies, or for
objects that maps share the delayed copy with its copy object, used again as long as nothing
was pushed into it. `Collapse` is `vm_object_collapse`, which absorbs or bypasses backing objects; `Scan`,
`PageOut`, `PagedOut` are the daemon. `Deallocate` is `vm_object_deallocate`, which goes on with the shadow of what it
terminates; an object with paging in progress is terminated by `Terminate`, when that has ended.

Choices that the build or the hardware makes are constants:

* `MACH_PAGEMAP`: whether the kernel knows which pages of its own objects the pager has;
* `SlowWakeups`: whether a thread that has been awakened may run only after a push from
  the page it slept for. FALSE in the passing runs (section 4);
* `Multiprocessor`: whether another thread can run between the unlocking of an object and the
  `pmap_enter` after it, where a uniprocessor kernel does not switch threads. FALSE in the passing runs (section 4);
* `ReuseAtOnce`: whether the allocator may give an object the address of one that a fault has
  noted as copy object. FALSE in the passing runs (section 4).

`CowMemory` is what a user of inheritance believes: maps that share a page see each
other's writes, a copy keeps its value. The mapping computes what a task would read now,
through its mapping or by following the chain; its `writes` is the counter of the module.

## 3. The runs

| run | bounds | what it shows |
|---|---|---|
| `rwlock_all` | 3 threads, 4 operations within a hold, one recursive hold | safety and liveness of the lock, and that it implements `ReadersWriter` |
| `thread_all` | 2 threads on 2 processors, both wait, suspend, resume and abort; stop counts to 2 | bits, queues and holds agree |
| `thread_three` | 3 threads; one suspends, two abort | stops are announced to all who wait for them; a halted thread stays stopped while it is examined |
| `thread_liveness` | 2 threads that abort each other, one also waits; no assertions | timed waits end; aborts return unless both are in the cycle of `ThreadWait_cycle.cfg` |
| `thread_left` | 3 threads, two abort the third | violated: a thread that nobody holds halts itself on a request that was left behind, and `thread_dispatch` panics (section 4) |
| `queue_all` | 2 senders, 2 receivers (one thread is both), 1 port, 1 set, 2 messages, limit 1 | no message is lost, doubled or passed over; messages and receivers are where others look; counts are exact; slots reach senders; FIFO |
| `cthreads_all` | 3 cprocs, 2 kernel threads, 1 mutex, 1 condition | stacks, queues, counters and wakeups |
| `netipc_all` | 2 nodes; one message of 2 pages one way and one of 1 page the other; 2 packets under way; a receiver that has one page and may find more | no assertion fails, every unacknowledged packet is watched, pages arrive once and in order |
| `netipc_liveness` | one message of 1 page, the same network, a receiver that starts without a page | it arrives, and its sender learns of it |
| `fork_all` | 3 records, 4 cprocs, limits of 2, 3 and none, up to 3 forks | records are freed once, and `ForkJoin` with its liveness |
| `pager_all` | one object of 2 pages with one block, the kernel's own or mapped twice; 2 server threads; one message waits; transfers may fail when the object is the kernel's own | transfers end before terminate, no panic, blocks conserved, and `PagedStore` with its liveness |
| `fault_all` | 3 maps, 3 objects at a time, 2 tasks made, 1 write, 2 faults at a time, 1 page-out | no busy page is orphaned, no assertion fails, counts are exact, and `CowMemory` |

Further instances are kept for those who change a module; they ask variations of the same
questions and are not part of the list in `PROJECT.json`. With TLC each finishes in less than five minutes.

| configuration | result |
|---|---|
| `RWLock_more.cfg` | passes: the inductive invariant `LockInv` of the proofs, `QuiescentLockIsFree`, and liveness of writers and sleepers |
| `CthreadsFork_more.cfg` | passes: the inductive invariant `JobInv` of the proofs, of which `ForkInv` is a part |
| `ThreadWait_more.cfg` | passes: the inductive invariant `ThreadInv` of the proofs, and that a timer runs only while its thread waits |
| `ThreadWait_chain.cfg` | passes: 3 threads, of which the first aborts the second and that the third; `AbortReturns` although the caller is aborted itself |
| `CThreads_more.cfg` | passes: the type invariant, and the inductive invariants of the proofs: `MutexInv`, `PlaceInv` with `PlaceTypes`, and `SleepInv` (the rest of `WakeInv` is checked by `CThreads_all.cfg`) |
| `DefaultPager_more.cfg` | passes: the inductive invariant `PagerInv` of the proofs; the object is mapped twice, transfers fail, faults are aborted, pages are paged out before they are written |
| `MessageQueue_sets.cfg` | passes: the inductive invariant `QueueInv` of the proofs; 2 ports that enter, leave and outlive a set; 1 sender, 1 receiver |
| `VmFault_history.cfg` | passes: one thread, 3 tasks made and 2 writes between: copies of copies, copy objects used again, collapses |
| `ThreadWait_cycle.cfg`, `ThreadWait_timer.cfg`, `ThreadWait_lost_resume.cfg`, `MessageQueue_stray.cfg`, `DefaultPager_unwritten.cfg`, `VmFault_restart.cfg`, `VmFault_gone.cfg`, `VmFault_smp.cfg` | violated: see section 4 |

*Why these bounds.* The lock has three roles whose races matter at once (a
reader that upgrades, the second upgrader that fails, a writer already accepted): three threads
fill them, and one recursive hold is the most the lock supports. A race of stopping involves a
stopper, its target and a third that resumes or wakes: with two threads everybody is both, and
`thread_three`, `thread_left` and `ThreadWait_chain.cfg` add the third. In the queues a limit of 1 with two senders makes the
slot contended and two messages make order visible; the second port is only needed for the order
of moves between sets (`MessageQueue_sets.cfg`). Three cprocs are one that runs, one ready and one queued, with one kernel thread more
than is busy; two kernel threads suffice for a stack to be wanted by another one.
With stop and wait a sender has one data packet under way, and its copies; the
network holds two different packets, which is enough for a late one to overtake its
successor, and a message of two pages uses all four combinations of slots and answers.
Three forks with three records make a record be used again while the first thread's signal is
still to come. One block for two pages makes the partition full, and a second life of the object
meets what the first has left behind. In `VmFault` two tasks made give a
parent, a copy and a copy of the copy or a share of it, so that every kind of chain of three
objects occurs; two faults at a time meet on a page, and one write tells the value before from
the one after. Named bounds in the modules (`MaxForks`, `MaxWrites`, `MaxPageOuts`, `MaxActors`, `MaxObject`, `MaxQueue`, `MaxLives`, `MaxWork`, `MaxNest`, `MaxStops`, `MaxQlimit`, `SeqnoLimit`,
`MaxPages`, `NetSize`) only limit what clients do, or are the code's own limits. `CHECK_DEADLOCK FALSE`
stands where the clients may stop calling, or have used up their bounds.

*Symmetry* is used in runs without liveness properties, over threads or messages with
the same role; the specifications mention no particular one of them. `DefaultPager` is checked up to
a rotation of the sequence numbers of an object (`View` of `MCDefaultPager`), which compares them with each other and with nothing else: states that
differ by it have the same steps and the same threads to be fair to, so this is sound for liveness too.

*Fairness.* A thread inside `lock.c` keeps running until it sleeps and a holder
eventually releases (`WF` of `Continue`, not of new calls): every
lock call of the kernel is paired with a `lock_done`. In `ThreadWait` a processor goes on
with its thread, runnable threads get a processor, and `cause_ast_check` brings a stopped
thread into the kernel (`Proceed`); clock ticks happen, and since the timer queue
is ordered by expiration an expired timer cannot be overtaken for ever (`SF` of
`SoftclockExpire`); an event waited for *uninterruptibly* is one the kernel itself
brings about (with `thread_wakeup` or `thread_go`), as all such waits are for the kernel's own resources. A processor that spins and a kernel that has
panicked do nothing more. Other events need never happen: aborts and timeouts
must end waits without them. No fairness is assumed of calls, suspends or resumes.
In `NetIPC` interrupts that are due are taken and the netipc thread finds pages (`WF`);
a network that is given the same kind of up-to-date packet again and again delivers one
(`SF` for each link and kind), without which nothing can be promised, and does not
repeat an outdated one for ever. Nothing bounds how late the timer interrupt is or how
long a send takes; section 4 has what follows for traffic in both directions.
In `CthreadsFork` cprocs run (`WF` of the library's steps, not of the program's calls: a thread that waits
to join need not be given what it waits for by anybody but the library). In `DefaultPager` the server threads run
and the kernel need not do anything; a thread that waits for references to the name port gets
the lock before they are all given away again (`SF` of `TerminateObject` for each object: 10000 are added at a time). `VmFault` is checked for safety only:
`BusyHasHolder` says that whoever sleeps has somebody to wake it.

## 4. Where the code and its comments disagree

One run must find its property violated; `PROJECT.json` quotes the line.

* `thread_left`: of two threads that abort a third, the second is woken, finds it not yet halted, and loops on `AST_HALT`; the first marks it
  halted and clears `AST_HALT` in between; so the second sets `AST_HALT` on a halted thread and leaves it there. When nobody holds the thread it halts itself again
  (RUN|HALTED without a hold), for which `thread_dispatch` panics.

Shown by the further instances of section 3:

* `ThreadWait_cycle.cfg`: two threads `thread_abort` each other. "Break the cycle by interrupting anyone who is trying to halt us"
  is done with the locks of both threads held, and the wakeup locks each thread it wakes: in a cycle of two, that is the other of
  these two threads, and the processor spins for ever.
* `ThreadWait_chain.cfg`, with `SPECIFICATION Spec` and `INVARIANT NoPanic`: `ast_taken` sees `AST_HALT` without a lock and `thread_halt_self` does not look again. If whoever asked has given up
  in between (it was aborted itself) and released its hold, the thread goes RUN|HALTED with no hold, for which `thread_dispatch` panics.
* `ThreadWait_left.cfg`, with `SPECIFICATION FairSpec` and `PROPERTY AbortReturns`: a halt that completes at a continuation marks the thread halted and wakes nobody: a second thread that waits "for that to
  complete" sleeps on.
* `ThreadWait_timer.cfg`: `thread_timeout` asserts that the timer is unset, but the thread may have been woken while `softclock` was on its way and have set the
  timer of another wait. Without assertions that wait just ends early.
* `DefaultPager_unwritten.cfg`: `default_read` gives up the only block of a page that is requested to be written, trusting to the precious
  attribute ("it uses the precious attribute in data_supply to reduce paging space usage"), but supplies it with `precious` FALSE. The pageout
  daemon may free it, clean as it is, before the task has written it (or though nobody will, if the fault only wired it); it then comes back as zeroes.
* The same with `MayAbort` TRUE and `SlowWriters` FALSE: the same loss without a page-out. If the fault is aborted and the object terminated, a task that
  maps it again is told that there is no data and gets zeroes ("we must avoid returning stale data").
* `ThreadWait_lost_resume.cfg`: a `thread_resume` between a `thread_suspend` and the stop takes the
  hold away but wakes nobody in `thread_dowait`: the suspender sleeps until the thread is suspended again.
* `MessageQueue_stray.cfg`: `ipc_mqueue_send` wakes the receiver after it has unlocked the queue,
  when a timeout may already have let it go; the wakeup ends a later wait, in which
  `ipc_mqueue_receive` asserts that this does not happen.
* `VmFault_restart.cfg` (`SlowWakeups`): "we must restart any faults that are waiting here", but a fault that slept for
  the page and was awakened a moment before the push is not restarted; it takes the page below as its own
  object's and copies what was written after the copy was made.
* `VmFault_gone.cfg`: a shared entry is deleted with `vm_object_pmap_remove`, which looks at the pages of the first object only;
  what the task had mapped of a shadowed object stays mapped ("we must remove *all* references to this data").
* `VmFault_smp.cfg` (`Multiprocessor`): `vm_fault` compares the copy object with the one it has seen, unlocks the object, and then calls
  `PMAP_ENTER`; a copy that another map makes of the shared object in between is not protected from the write permission entered
  ("If the copy object changed while the top-level object was unlocked, then we must take away write permission").

Seen while modelling, without a run:

* a lock whose owner takes a recursive read and a recursive write ends the wrong one,
  and an upgrade then decrements a zero `read_count`; `lock_set_recursive` panics for a
  writer by upgrade;
* `wait_count` can be negative (above); `cproc_ready` leaves out a wakeup because its
  caller "will block momentarily", but its `condition_wait` may return without blocking;
* a blocked sender waits for a full timeout again each time the slot it was woken for
  is gone;
* `netipc_recv_nack` with a second nack before the send interrupt has dealt with the first
  untables `pcs_timer` again: `queue_remove` writes through the links it left behind
  (`corrupt` in `netipc_all`);
* `_netipc_send_intr` goes on with the next node after a retransmission and may start a
  second packet: an assertion fails with three nodes;
* "We may blow away a preceeding ctl, which is unfortunate but not fatal": with
  unacknowledged packets in both directions, and sends as slow as the timer, each
  node's sync overwrites its nack for ever. `EverythingArrives` is therefore stated
  for one direction;
* `vm_fault` recognises a changed copy object by its address alone: with `ReuseAtOnce`, a copy object that is freed while
  a fault is under way, and another allocated at its place, leave the write permission (12 steps, with `MaxForks = 3`);
* without `MACH_PAGEMAP` a page of the copy object that is absent, because a second fault has asked the pager for it, counts as
  a page that need not be pushed; with three faults at a time the copy then loses the old content;
* on a multiprocessor a read mapping of a page entered between the copy of it and its insertion is left when the
  collapse frees that page;
* `memory_object_data_initialize` may overtake an earlier write of the same page, since the pager serves both in parallel
  (`LateInitialize`; the comment "assumes that the default_pager is single-threaded");
* `destroy_paging_partition` moves pages while transfers use them, and leaves `part->p_lock` locked when it fails; `pager_alloc_page` returns
  without unlocking when the partition is going away; a broadcast after `pager_port_unlock` may touch an object that `no_senders` has freed.

## 5. What is proved

For every value of the constants, unless a hypothesis is named. TLAPS
proves each theorem to its last leaf. The assumptions are those of the modules, which the runs
evaluate: `LockAssumption` (finite threads, fewer of them than the counters can count) for
`RWLock`, `ThreadAssumption` (finite threads; threads, events and the two null values differ; more than one processor) for `ThreadWait`,
`CThreadsAssumption` and `CthreadsForkAssumption` (the types of the constants; finite sets of cprocs, waiting stacks and kernel threads; threads are numbered from 1 as they are forked) for the C threads, `DefaultPagerAssumption` (finite threads, and at least as many sequence numbers as
threads, since more than that many messages are never between the port and their turn; contents are positive numbers, so that
0 is the empty page) for `DefaultPager`, `MessageQueueAssumption` (finite threads and messages, null values that differ from the others, ports that are no sets,
limits that are natural numbers) for `MessageQueue`. The queues of `CThreads` and `MessageQueue` and the ports of `DefaultPager` are unbounded sequences; nothing in the proofs
depends on `MaxWork`, `MaxStops`, `MaxQueue`, `MaxLives` or another bound of a run.

| theorem | module | says | hypothesis |
|---|---|---|---|
| `TypeCorrect` | RWLockProofs | `Spec => []TypeOK` | none |
| `Exclusion` | RWLockProofs | `[]MutualExclusion` | `MaxNest <= 1` |
| `ExactCount` | RWLockProofs | `[]ReadCountExact` | `MaxNest <= 1` |
| `LockImplements` | RWLockProofs | `Spec => Abstract!Spec` | `MaxNest <= 1` |
| `WakeupsArrive` | RWLockProofs | `[]NoLostWakeup` | `MaxNest <= 1` |
| `ThreadInvariant`, `ThreadTypeCorrect` | ThreadWaitProofs | `[]ThreadInv`, `[]TypeOK` | none |
| `HoldsAreBalanced` | ThreadWaitProofs | `[]HoldsBalanced` | none |
| `StatesMatchQueues` | ThreadWaitProofs | `[]StateMatchesQueues` | none |
| `TargetsReallyStopped` | ThreadWaitProofs | `[]ReallyStopped` | none |
| `NeverWaitingWhenForced` | ThreadWaitProofs | `[]NotWaitingWhenForced` | none |
| `StopsAreAnnounced` | ThreadWaitProofs | `[]StopIsAnnounced` | none |
| `TimersOnlyWhileWaiting` | ThreadWaitProofs | `[]TimerOnlyWhileWaiting` | none |
| `OnlyAnUnheldHaltPanics` | ThreadWaitProofs | `[](panicked => unheld_halt)` | none |
| `MutexInvariant` | CThreadsProofs | `[]MutexInv` | none |
| `LockedMutexStaysHeld` | CThreadsProofs | `[]LockedMutexIsHeld` | none |
| `PlaceInvariant` | CThreadsProofs | `[](PlaceTypes /\ PlaceInv)` | none |
| `OneThreadOnAStack` | CThreadsProofs | `[]OneThreadPerStack` | none |
| `CprocsInOnePlace` | CThreadsProofs | `[]EachCprocInOnePlace` | none |
| `WakeInvariant`, `SleepInvariant` | CThreadsWakeups | `[]WakeInv`, `[]SleepInv` | none |
| `CountsStayExact` | CThreadsWakeups | `[]CountsExact` | none |
| `MutexWaitersWoken` | CThreadsWakeups | `[]MutexWaitersHaveWaker` | none |
| `NobodyLeftReady` | CThreadsWakeups | `[]NothingLeftReady` | none |
| `ForkInvariant` | CthreadsForkProofs | `[]ForkInv` | none |
| `RecordsFreedOnce` | CthreadsForkProofs | `[]FreedOnce` | none |
| `JobInvariant` | CthreadsForkProofs | `[]JobInv` | none |
| `ThreadsImplement` | CthreadsForkProofs | `Spec => Promises!Init /\ [][Promises!Next]_Promises!vars` | none |
| `QueueInvariant` | MessageQueueProofs | `[]QueueInv` | none |
| `MessagesOnce` | MessageQueueProofs | `[]EachMessageOnce` | none |
| `MsgcountIsExact` | MessageQueueProofs | `[]MsgcountExact` | none |
| `SlotsArePromised` | MessageQueueProofs | `[]FreeSlotsPromised` | none |
| `NobodyPassedOver` | MessageQueueProofs | `[]NoMessagePassedOver` | none |
| `MessagesAreFound` | MessageQueueProofs | `[]MessagesWhereReceived` | none |
| `WaitersAreListed` | MessageQueueProofs | `[]WaitersListed` | none |
| `QueuesImplement` | MessageQueueImplements | `Spec => Implements` | none |
| `PagerInvariant` | DefaultPagerProofs | `[]PagerInv` | none |
| `TransfersEnd` | DefaultPagerProofs | `[]TransfersEndFirst` | none |
| `NeverPanics` | DefaultPagerProofs | `[]NoPanic` | none |
| `BlocksAreExact` | DefaultPagerProofs | `[]BlocksExact` | none |

Mutual exclusion is not inductive: that a writer is alone follows from the
bits of the lock, and those only from who may have set them. `LockInv` adds:
the recursive counts equal the recursive holds (`ReadCountExact`, `recursion_depth`);
waiting threads hold what their call says (`WaitersHold`); recursive holds belong
to the owner (`OwnersHold`); and each of `want_write` and `want_upgrade` has exactly
one taker (`BitsHaveTakers`). The argument is in the last: an upgrader sets
`want_upgrade` while it still counts as a reader, so the writer that has `want_write`
waits for it, and no second thread can take either bit; `read_count = 0` then means
that nobody else holds the lock, because the count is exact. The count is exact as
`lock_done` cannot mistake the hold it ends, which is where `MaxNest <= 1` is needed
(with `MaxNest = 2` TLC finds it false). TLC checks `LockInv` as an
invariant of `RWLock_more.cfg`. `NoLostWakeup` needs more: for each place a thread sleeps,
which releases can make its condition true, and that these see `waiting`. The
refinement follows from the same invariant, one abstract step or none for every
critical section.

`ThreadInv` goes from the calls to the bits. `suspend_count` is the number of calls under way that hold the
thread, and one more while the user has it suspended (`HoldsCounted`), so whoever is being aborted has `TH_SUSP`. Of all
calls of `thread_halt` that name a thread, one at a time has an open request as long as the thread is not halted (`OneRequest`): the others find `AST_HALT`
and wait, so what one of them examines none of the others forces. Once it is halted a second call may ask again, as `thread_left` shows, but
finds `TH_HALTED` and has nothing to force. `ThreadAgrees` ties the bits of a thread
to its place (processor, run queue, being switched away from, off): `TH_RUN` unless it is off, no wait on a run queue, and
`TH_HALTED` only with `TH_SUSP` and without a wait. `TargetsStopped` is the comment "it really is stopped": a target that was found off, in
an interruptible wait and held is put on no run queue by an event, a timeout or a `thread_resume`, because with `TH_SUSP` set
each of these only takes `TH_WAIT` away; and it can only have lost, not changed, the wait event that the aborter has read. Every state
that `thread_dispatch` finds is then one it knows. The last two, with `~panicked`, hold until a thread that nobody holds halts itself (`unheld_halt`, section 4):
this is the only step of the model that breaks them, which is what `OnlyAnUnheldHaltPanics` says.
`StopIsAnnounced` needs an invariant of its own: for each thread that
sleeps until another stops, that one has `wake_active`, or its wakeup is due, or the thread that took it off its run queue is about
to wake all sleepers. `wake_active` is set by each sleeper in the section that asserts its wait, and cleared only by these two; a
wakeup leaves no sleeper of that thread.

`LockedMutexIsHeld` rests on the fact that `m->held` may be taken without owning the mutex in one place only:
`mutex_unlock_solid` tries to take it, under `m->lock`, to look at the queue. `MutexInv` says that at most one cproc
does so at a time and that nobody owns the mutex then (`OneUnlocker`), that `m->lock` has one holder among those which try to take the mutex
before they queue (`OneTrier`), and that the waiter which unlocks in `condition_wait` owns the mutex (`WaitersHold`). A cproc that clears
`held` is then its owner or that one. `MutexTypes` is
the part of the type invariant this needs: who is inside one of these calls has a mutex in its locals.

`PlaceInv` says where every cproc and every waiting stack is. The queues and what each caller of `cproc_ready` has in hand are chains
through one link, so they are disjoint and have no repetitions (`OneLink`). How `cproc_ready` may find the cproc that it takes off a chain is
the heart of it (`LinkAgrees`): it has been switched from or keeps its lock until it has been (`Blocked`), or it is still on its way into `cproc_block` and has
`CPROC_SWITCHING` set, or no message yet if it is wired (`Asking`), or it has put itself into the empty queue of a mutex and is about to try it (`Trying`).
`CprocAgrees` is the converse, by the place of the cproc's code: who does not run is linked, who has been saved is linked no more. `StackAgrees` says that
`p->lock` outlives an action only between the decision to leave the stack and the switch, which is why whoever resumes a stack finds
that nobody runs it: `OneThreadPerStack`. Waiting stacks are queued, or in the hand of one cproc that is about to wait, and nobody runs them
except a thread that is leaving (`WaitersAgree`).

`WakeInv` stands on both. `CountsExact` is inductive given where the stacks are: every action moves one stack from one place to another, except `StartWait`, in which
a waiting cproc is replaced by a waiting stack. For mutexes it says that a free one with waiters has a cproc
that will try it (`MutexWaitersHaveWaker`), and that one that is held though nobody has locked it is being unlocked (`HeldHasHolder`). The first needs both orders of the race:
`mutex_unlock` clears `held` before it reads the queue, and `mutex_lock_solid` queues before it tries `held`; a waiter that was taken off the queue has no link,
does not run yet, and will try. The last part, `AwakeLooks`, is why `cproc_ready` may leave a message out: while `ready_count` and `wait_count` are both
positive, a cproc runs that has not counted itself as a waiter; it either finds the ready cproc in `cproc_block` or returns to its program. A thread falls
asleep only after it has seen the queue empty, when `ready_count` is not positive. `NothingLeftReady` follows: when all threads sleep
nobody is at a place where a message is on its way, so the counts are the lengths of the queues; nobody is awake, so `ready` is empty; and the cproc
that would try a free mutex would be linked nowhere.

`FreedOnce` is not inductive either: that nobody uses a freed record follows from who could
have freed it. `ForkInv` adds: a thread is on `cthreads` or has one cproc that runs it (`OneRunner`);
one job may still be joined or detached under a record, or one cproc has the claim to it (`OneClaimant`);
`T_RETURNED` says that the first end is done and `T_DETACHED` the second, and that the
cproc which frees it found the other end done (`StatesAgree`). The two meet under `t->lock`, so that exactly
one of them frees. Signals need `Queues`: who waits for a condition is at the wait and nowhere else, since the signal of
a thread that has gone may wake a joiner of the next one with the same record; that joiner looks at `T_RETURNED` again, and
nothing is freed early. `Places` and `Handles` tie a cproc's position to the thread it is and the records that have been given out.

`ThreadsImplement` takes `ForkInv` and three facts more, which make `JobInv`. `Records`: a record that has been given out belongs to the job
whose handle it is, as long as that job may be joined or detached, and the result in it is that of this job; so a joiner
gets its own thread's result although records are used again. `NoneLost`: a record in use is on `cthreads`, on the free list,
`T_RETURNED`, or run by a cproc; so the state of a job, which the refinement reads off its record, only changes when a step of
`ForkJoin` says so. `CountsExact`: `cthread_cprocs` is 1 and the number of cprocs created, never more than the limit, and `cthread_cthreads` is
1, for the main thread, and the number of queued threads and of cprocs that have one. The limit of `ForkJoin` holds because the
running jobs have different cprocs, all of them created, and one that takes a thread from the queue runs none yet. The exit
of the main thread finds `cthread_cthreads <= 1`: by the exact count
no thread is queued or running then. TLC checks `JobInv` in `CthreadsFork_more.cfg`.

`QueueInv` ties each thread to its place in `ipc_mqueue_send` or `ipc_mqueue_receive`, to the call it made, and to what `ith_state` tells it
(`ThreadsAgree`): it is on the list of its call's port or queue exactly while it is told to wait (`WaitersListed`), it has a message exactly
where the code says that it has been handed one, and a thread that sleeps after it has been told why not to is about to be woken (`ToldAreWoken`).
A message is the user's, with one thread, or in one queue (`MessagesApart`); `EachMessageOnce` counts these places. Since lists and states agree, a timeout or an abort,
which only ends the wait, leaves everything in place until the thread locks its queue: it finds a message or a slot that has been given to it, or takes itself
off the list. `MsgcountExact` holds across the two locks of a receive because a message in a thread's hands counts until `ReceiveDone`.
`FreeSlotsPromised` compares the slots with the senders that have been woken and have not run: every operation that frees a slot or raises the limit takes
as many from `ip_blocked`, and a woken sender that gives its slot up by a timeout has not been taken from the list, so it was promised none.
The proof has its own form of the invariant, `Base`, in which the queues and threads are parameters (`Fine`, `Housed`): the operations on sets and receive rights go through states
that no action ends in, a message taken from one queue and not yet put in the other, and the lemmas about `Move`, `Changed`, `PsetAdd` and `PsetRemove`
are about these. `BaseSays` gives `QueueInv`.

What a loop does to a queue of any length needs an induction. The induction theorems of the library cannot be used, as they take an operator, but
a set of numbers serves as well: `Least` gives the least number of a set from the well-founded order of the naturals, and `Induction` follows. With it are proved
that the recursive function in `Only` selects what it should, in its order (`OnlyIs`, `OnlySome`), and what `ipc_mqueue_move` has done after each message (`AllDealt`).

That `MessageQueue` implements `PortQueue` has one more invariant, `Rights`: only a living port has a receive right or a number to be set, and only such ports are in sets.
Each step is then one step of `PortQueue` or none (`Conforms`). What `PortQueue` calls the queue of a port is `Held`: the messages of this port, in their order, in whatever queue
they are in. `ipc_mqueue_move` takes a port's messages from one queue to another in which threads may already wait. `Turn` says that it hands the first ones, in their order and under
consecutive numbers, to these threads, and that the others follow in the new queue in the same order: if threads wait the queue was empty,
and no message of the port waits behind one of its own. The messages of other ports keep their places. So a move is an `Exchange` that accepts nothing, and a send one
of a message that is handed over, only if none of its port's waits, or queued last. `ReceiveDone` is a `Consume`, `SetSeqno` a `Renumber`,
`PortDestroy` a `Destroy`, each step of `DestroyQueued` a `Discard`; timeouts, aborts and the wakeups of senders are not seen at all.

`PagerInv` looks at one paging object at a time: its structure, its port, the kernel's object and its *crew*, the threads that
work for it. All messages that have not been served, in threads and in the port, form one *line*, in which a thread's place is
the distance of its sequence number from `ds->seqno`, modulo the range of the numbers. `TurnsAgree` says that the places of the
threads are the first ones, each taken once, and that the next message received goes behind them: this is why one thread at
a time has its turn although it unlocks the object while it waits for readers, writers or references. `LineAgrees` says that the line is
in the order in which the kernel sent it and goes on with the story of the object where the pager is: behind life `s`, in whose middle the
pager is while it has the request port, the inits and terminates of all later lives, with the requests of each between them, and
`no_senders` last. The message whose turn it is can then only be one that the panics allow (`NoPanic`).
`TransfersAgree` counts the reads and writes under way, all of life `s`, for `TransfersEndFirst`; a thread that has passed
`wait_readers` keeps its turn, so none begins behind its back. `OneRequest` says that
the kernel asks for a page once, until it has it: without this the second of two reads could find, in `pager_release_offset`, that the block has gone,
and give back none. It is what `vm_fault_page` guarantees by leaving a busy page in the object. `NamesAgree` is the part for
`default_pager_objects`, and `BlocksOwned` the one for `BlocksExact`, which
needs the last: a block is released once. The lemmas about a step of one object have the states before and after it as parameters;
`CrewStep` and `AroundStep` carry them over to the actions, as no step touches the crew of two objects. TLC checks `PagerInv` in `DefaultPager_more.cfg`.

Only model-checked are:

* liveness, whose proofs need ENABLED: of `CthreadsFork` as an implementation of `ForkJoin` only this part is left to TLC;
* that `DefaultPager` implements `PagedStore`: its steps are left to the plan;
* `NetIPC`, where the runs bound what is under way;
* `TypeOK` of `CThreads`, whose bounds on the lengths of queues follow from `OneLink` by an induction over the queue, and `VmFault`.

No module uses RECURSIVE operators, and the invariants are conjunctions of named parts.

## 6. Plan

In this order; each module with an abstract specification where one is named.

1. *(done)* `RWLock` => `ReadersWriter`; `ThreadWait`; `MessageQueue` => `PortQueue`; `CThreads`;
   `NetIPC` => `PageStream`; `CthreadsFork` => `ForkJoin`; `DefaultPager` => `PagedStore`; `VmFault` => `CowMemory`.
2. More of `VmFault`: interrupted and failing faults, wiring, `memory_object_lock_request`; liveness of
   `vm_object_terminate` and of faults under contention.
3. More of `NetIPC`: reboots and incarnations, acks with a status, three nodes. Theorem: no
   packet delivered twice, from an invariant that relates `last_sent`, `last_received` and
   the packets in the network.
4. `IpcRight`: entries, user references, dead names and notifications, over
   `MessageQueue`'s ports. Theorem: the send-right count of a port is the number of rights.
5. `EventCount` over the thread states of `ThreadWait`; locks of `ThreadWait` at the grain
   of single lock operations, for the order of bucket and thread locks; `CThreads` shown to implement the
   monitors on which `CthreadsFork` stands, and `cthread_mach_msg`.
6. The mach_msg fast path against `MessageQueue`; zones.
7. Proofs: the steps of `DefaultPager` implement those of `PagedStore`; `BusyHasHolder` of `VmFault`.

## 7. What is not modelled, and why

In `ThreadWait`: uniprocessor kernels, whose simple locks are empty; events that share a bucket. Elsewhere
within the modelled components: priorities, quanta and processor sets (any runnable
thread may run: more behaviours, not fewer); kernel stacks and swapping; thread
termination; `thread_handoff` and the fast path of `mach_msg_trap`, which repeat
modelled code under other locks; kernel ports, NORMA forwarding and messages that
carry rights (no message is circular); time, except that a timer may expire at any moment
while it is set. In `NetIPC`: reboots, acknowledgements of messages to ports that have moved or
died, several ports per destination, continuations of page lists. In `CthreadsFork`: `cthread_fork_prepare` and its
relatives, a change of the limit while threads run, and the look that `mutex_unlock` takes at the queue of a
mutex it has released, which may be in a record used again; `Join` reports the result of the job whose record it reads now, so that `ForkJoin` alone
would not see a joiner that takes another job's result: that the record is still its own job's is the part `Records` of `JobInv`, which is proved and checked. In `DefaultPager`: partitions that are added and
removed, pages that are only wired, the two-level block map (a function here), the requests the kernel never sends, several objects of one
partition beyond the blocks they share. In `VmFault`: several entries or pages (`OtherPage` is all that one page
learns of another), clean pages that are reclaimed without a write, failing and interrupted faults, memory shortage,
page locks, wiring, permanent objects; in `Release` (`vm_object_deallocate`) the branch that takes the reference back and waits
until the pager has been initialised, and the places where it is between two objects of a shadow chain, which is given up in one step; the pager answers at once; a fault that must be tried again has ended and is met again; the
place where `vm_object_collapse` unlocks in the middle, and `vm_pageout_scan`'s call of it without a reference. One action stands for a whole critical section, so the order of the
spin locks inside one is not visible.

Whole components: see `PROJECT.json`. Drivers, machine-dependent code and the
debuggers are out because their state is hardware; libmach and the MIG glue
keep no state; the rest is in the plan.
