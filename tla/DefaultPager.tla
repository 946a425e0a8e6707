---------------------------- MODULE DefaultPager ----------------------------
(***************************************************************************)
(* The default pager (bootstrap/default_pager.c, PARALLEL): server threads *)
(* that receive the kernel's messages about a paging object in any order   *)
(* of scheduling and serve them by their sequence numbers, with reads and  *)
(* writes of the paging partition in parallel.                             *)
(*                                                                         *)
(* What a thread does under the lock of the object (ds->lock), of its      *)
(* block map (dpager.lock) or of the partition is one action, and so is a  *)
(* transfer to or from the disk, for which no lock is held.  The kernel's  *)
(* side is not in this file: it is as vm_fault.c, vm_pageout.c and         *)
(* vm_object.c use the interface, one request per absent page.             *)
(***************************************************************************)
EXTENDS Integers, FiniteSets, SequencesExt

CONSTANTS
    Objects,        \* memory objects, each of one life
    Pages,
    Blocks,         \* the blocks of the paging partition
    Threads,        \* the server threads
    None,
    MaxUrefs,       \* default_pager_max_urefs
    SeqnoModulus,   \* sequence numbers wrap around
    Versions,       \* bound: page -> the contents it gets, in their order
    MaxQueue,       \* bound: messages queued on the port of an object
    MaxLives,       \* bound: how often an object is mapped
    MayFail,        \* bound: transfers fail for the kernel's own objects (TRUE), for others (FALSE)
    MayAbort,       \* whether faults are aborted while they wait for a page
    LateInitialize, \* whether the kernel initializes pages it has written
    SlowWriters     \* whether a page may go again before the fault that wants to write it has

ASSUME DefaultPagerAssumption ==
    /\ None \notin Blocks \cup Threads \cup Objects
    /\ MaxUrefs \in Nat \ {0}
    /\ IsFiniteSet(Threads)
    /\ SeqnoModulus \in Nat \ {0} /\ SeqnoModulus >= Cardinality(Threads)
    /\ Versions \in [Pages -> (SUBSET (Nat \ {0})) \ {{}}]
    /\ MayFail \subseteq BOOLEAN /\ MayAbort \in BOOLEAN /\ LateInitialize \in BOOLEAN
    /\ SlowWriters \in BOOLEAN

VARIABLES
    ds,             \* object -> its struct dstruct
    waiting,        \* object -> condition -> the threads that wait for it
    thread,         \* server thread -> where it is, and its message
    lister,         \* the thread of default_pager_objects
    free,           \* the free blocks of the partition's bitmap
    disk,           \* block -> its content
    queue,          \* object -> messages in its port
    received,       \* object -> sequence number of the next message
    kernel,         \* object -> what the kernel has of it
    content         \* history: object -> page -> its last content

pager == <<ds, waiting, lister>>
store == <<free, disk>>
port == <<queue, received>>
vars == <<ds, waiting, thread, lister, free, disk, queue, received, kernel, content>>

Values == {0} \cup UNION {Versions[p] : p \in Pages}
Newer(o, p) == {v \in Versions[p] : v >= content[o][p]}
Out == -1
Wanted == -2
Conditions == {"seqno", "read", "write", "refs"}

\* Fields of a message that its operation does not use are 0 or FALSE.
NoMessage == [op |-> "none", page |-> 0, data |-> 0, write |-> FALSE, life |-> 0]
Message(op, o) == [NoMessage EXCEPT !.op = op, !.life = kernel[o].life]

NewThread == [pc |-> "idle", o |-> None, m |-> NoMessage, seqno |-> 0,
              block |-> None, data |-> 0, rc |-> "none"]

\* seqnos_memory_object_create for the kernel's own (internal) objects, and
\* default_pager_object_create for those that a task asks for and maps.
NewObject(internal) ==
    [seqno |-> 0, readers |-> 0, writers |-> 0, errors |-> FALSE,
     request |-> internal, name_refs |-> IF internal THEN 1 ELSE 0,
     map |-> [p \in Pages |-> None], deleted |-> FALSE]

NewKernel(internal) ==
    [internal |-> internal, active |-> internal, ready |-> internal, senders |-> TRUE,
     life |-> IF internal THEN 1 ELSE 0, dirty |-> {}, unwritten |-> {},
     memory |-> [p \in Pages |-> Out]]

Init ==
    /\ \E internal \in [Objects -> BOOLEAN] :
          /\ ds = [o \in Objects |-> NewObject(internal[o])]
          /\ kernel = [o \in Objects |-> NewKernel(internal[o])]
    /\ waiting = [o \in Objects |-> [c \in Conditions |-> {}]]
    /\ thread = [t \in Threads |-> NewThread]
    /\ lister = None
    /\ free = Blocks
    /\ disk = [b \in Blocks |-> 0]
    /\ queue = [o \in Objects |-> <<>>]
    /\ received = [o \in Objects |-> 0]
    /\ content = [o \in Objects |-> [p \in Pages |-> 0]]

-----------------------------------------------------------------------------
(* The kernel.  It sends one message at a time to the port of an object.   *)

Send(o, m) ==
    /\ Len(queue[o]) < MaxQueue
    /\ queue' = [queue EXCEPT ![o] = Append(@, m)]

Memory(o, p) == kernel[o].memory[p]

\* vm_fault_page: the first fault on an absent page asks the pager.
Fault(o, p, write) ==
    /\ kernel[o].active /\ kernel[o].ready
    /\ Memory(o, p) = Out
    /\ kernel' = [kernel EXCEPT ![o].memory[p] = Wanted]
    /\ Send(o, [Message("request", o) EXCEPT !.page = p, !.write = write])
    /\ UNCHANGED <<pager, thread, store, received, content>>

Modify(o, p) ==
    /\ Memory(o, p) \in Values
    /\ \E v \in Newer(o, p) :
          /\ content' = [content EXCEPT ![o][p] = v]
          /\ kernel' = [kernel EXCEPT ![o].memory[p] = v, ![o].dirty = @ \cup {p},
                                      ![o].unwritten = @ \ {p}]
    /\ UNCHANGED <<pager, thread, store, port>>

\* The faults that asked for these pages to write them have gone on to do so.
Written(o, P) == SlowWriters \/ P \cap kernel[o].unwritten = {}

\* vm_pageout_scan frees a clean page, and writes a dirty one.
PageOut(o, p) ==
    /\ Memory(o, p) \in Values
    /\ Written(o, {p})
    /\ kernel' = [kernel EXCEPT ![o].memory[p] = Out, ![o].dirty = @ \ {p},
                                ![o].unwritten = @ \ {p}]
    /\ IF p \in kernel[o].dirty
       THEN Send(o, [Message("write", o) EXCEPT !.page = p, !.data = Memory(o, p)])
       ELSE UNCHANGED queue
    /\ UNCHANGED <<pager, thread, store, received, content>>

\* vm_fault_page pushes a page into a copy object that does not have it in
\* memory.  It does not know whether the pager has it.
Initialize(o, p) ==
    /\ kernel[o].active /\ kernel[o].internal
    /\ Memory(o, p) = Out
    /\ content[o][p] = 0 \/ LateInitialize
    /\ content' = [content EXCEPT ![o][p] = IF @ = 0 THEN Min(Versions[p]) ELSE @]
    /\ Send(o, [Message("initialize", o) EXCEPT !.page = p, !.data = Min(Versions[p])])
    /\ UNCHANGED <<pager, thread, store, received, kernel>>

\* vm_object_terminate, which writes the dirty pages first unless the
\* object is temporary.  Pages are still absent "if some faults on this
\* object were aborted".
Terminate(o) ==
    /\ kernel[o].active
    /\ kernel[o].internal \/ (kernel[o].dirty = {} /\ Written(o, Pages))
    /\ MayAbort \/ \A p \in Pages : Memory(o, p) /= Wanted
    /\ kernel' = [kernel EXCEPT ![o].active = FALSE, ![o].dirty = {}, ![o].unwritten = {},
                                ![o].memory = [p \in Pages |-> Out]]
    /\ Send(o, Message("terminate", o))
    /\ UNCHANGED <<pager, thread, store, received, content>>

\* vm_object_enter: a task maps the object.
Map(o) ==
    /\ kernel[o].senders /\ ~kernel[o].internal
    /\ ~kernel[o].active
    /\ kernel[o].life < MaxLives
    /\ kernel' = [kernel EXCEPT ![o].active = TRUE, ![o].ready = FALSE, ![o].life = @ + 1]
    /\ Send(o, [Message("init", o) EXCEPT !.life = @ + 1])
    /\ UNCHANGED <<pager, thread, store, received, content>>

\* The last send right to the port dies: the kernel's, with an object of its
\* own, or that of the task.
NoMoreSenders(o) ==
    /\ kernel[o].senders
    /\ ~kernel[o].active
    /\ kernel' = [kernel EXCEPT ![o].senders = FALSE]
    /\ Send(o, Message("no_senders", o))
    /\ UNCHANGED <<pager, thread, store, received, content>>

-----------------------------------------------------------------------------
(* The server threads.                                                     *)

Asleep(t) == \E o \in Objects, c \in Conditions : t \in waiting[o][c]
At(t, pc) == thread[t].pc = pc /\ ~Asleep(t)
Goto(t, pc) == thread' = [thread EXCEPT ![t].pc = pc]
Obj(t) == thread[t].o
Msg(t) == thread[t].m

\* What is left to do after the transfer.
Ending(t) == [NewThread EXCEPT !.pc = "finish", !.o = Obj(t), !.m = [NoMessage EXCEPT !.op = Msg(t).op]]

\* condition_wait, which unlocks ds->lock and locks it again when the
\* thread has been woken.
Wait(t, c) ==
    /\ waiting' = [waiting EXCEPT ![Obj(t)][c] = @ \cup {t}]
    /\ UNCHANGED <<ds, thread, lister, store, port, kernel, content>>

Receive(t, o) ==
    /\ At(t, "idle")
    /\ queue[o] /= <<>>
    /\ thread' = [thread EXCEPT ![t] = [NewThread EXCEPT !.pc = "lock", !.o = o,
                                        !.m = Head(queue[o]), !.seqno = received[o]]]
    /\ queue' = [queue EXCEPT ![o] = Tail(@)]
    /\ received' = [received EXCEPT ![o] = (@ + 1) % SeqnoModulus]
    /\ UNCHANGED <<pager, store, kernel, content>>

\* Where a thread goes when its turn has come.
Serve(op) ==
    CASE op = "request" -> "request"
      [] op \in {"write", "initialize"} -> "start_write"
      [] op = "init" -> "init"
      [] op = "terminate" -> "wait_readers"
      [] op = "no_senders" -> "no_senders"

\* Mutant: the message is served when the lock is free.
Lock_AnyTurn(t) ==
    /\ At(t, "lock")
    /\ thread' = [thread EXCEPT ![t].pc = Serve(Msg(t).op), ![t].seqno = 0]
    /\ UNCHANGED <<pager, store, port, kernel, content>>

\* pager_port_lock.  From here to pager_port_unlock the lock counts for
\* nothing, and pager_port_check_request does unlock it: the others that
\* would serve a message wait for the sequence number.
Lock(t) ==
    /\ At(t, "lock")
    /\ IF ds[Obj(t)].seqno = thread[t].seqno
       THEN /\ thread' = [thread EXCEPT ![t].pc = Serve(Msg(t).op), ![t].seqno = 0]
            /\ UNCHANGED <<pager, store, port, kernel, content>>
       ELSE Wait(t, "seqno")

\* pager_port_unlock, up to its broadcast.
Unlocked(o, d) == ds' = [ds EXCEPT ![o] = [d EXCEPT !.seqno = (@ + 1) % SeqnoModulus]]

\* Mutant: a read does not wait for the writes before it.
StartRead_Parallel(t) ==
    /\ At(t, "request")
    /\ Unlocked(Obj(t), [ds[Obj(t)] EXCEPT !.readers = @ + 1])
    /\ thread' = [thread EXCEPT ![t].pc = "broadcast",
                                ![t].rc = IF ds[Obj(t)].errors THEN "error" ELSE "none"]
    /\ UNCHANGED <<waiting, lister, store, port, kernel, content>>

StartRead(t) ==
    /\ At(t, "request")
    /\ IF ds[Obj(t)].writers /= 0
       THEN Wait(t, "write")
       ELSE /\ Unlocked(Obj(t), [ds[Obj(t)] EXCEPT !.readers = @ + 1])
            /\ thread' = [thread EXCEPT ![t].pc = "broadcast",
                                        ![t].rc = IF ds[Obj(t)].errors THEN "error" ELSE "none"]
            /\ UNCHANGED <<waiting, lister, store, port, kernel, content>>

StartWrite(t) ==
    /\ At(t, "start_write")
    /\ Unlocked(Obj(t), [ds[Obj(t)] EXCEPT !.writers = @ + 1])
    /\ Goto(t, "broadcast")
    /\ UNCHANGED <<waiting, lister, store, port, kernel, content>>

\* The broadcast of pager_port_unlock, when ds is unlocked.
Broadcast(t) ==
    /\ At(t, "broadcast")
    /\ waiting' = [waiting EXCEPT ![Obj(t)]["seqno"] = {}]
    /\ thread' = [thread EXCEPT ![t] =
          CASE Msg(t).op = "request" /\ @.rc = "error" -> [@ EXCEPT !.pc = "reply"]
            [] Msg(t).op = "request" /\ @.rc /= "error" -> [@ EXCEPT !.pc = "read_offset"]
            [] Msg(t).op = "initialize" -> [@ EXCEPT !.pc = "has_page"]
            [] Msg(t).op = "write" -> [@ EXCEPT !.pc = "write_offset"]
            [] OTHER -> NewThread]
    /\ UNCHANGED <<ds, lister, store, port, kernel, content>>

\* default_read: pager_read_offset.
ReadOffset(t) ==
    /\ At(t, "read_offset")
    /\ LET b == ds[Obj(t)].map[Msg(t).page] IN
       thread' = [thread EXCEPT ![t].block = b,
                                ![t].pc = IF b = None THEN "reply" ELSE "read",
                                ![t].rc = IF b = None THEN "absent" ELSE "none"]
    /\ UNCHANGED <<pager, store, port, kernel, content>>

ReadDisk(t) ==
    /\ At(t, "read")
    /\ thread' = [thread EXCEPT ![t].data = disk[thread[t].block], ![t].rc = "success", ![t].block = None,
                                ![t].pc = IF Msg(t).write THEN "release" ELSE "reply"]
    /\ UNCHANGED <<pager, store, port, kernel, content>>

ReadFails(t) ==
    /\ At(t, "read")
    /\ kernel[Obj(t)].internal \in MayFail
    /\ thread' = [thread EXCEPT ![t].rc = "error", ![t].pc = "reply", ![t].block = None]
    /\ UNCHANGED <<pager, store, port, kernel, content>>

\* Mutant: the block is forgotten, not given back.
Release_Leaks(t) ==
    /\ At(t, "release")
    /\ ds' = [ds EXCEPT ![Obj(t)].map[Msg(t).page] = None]
    /\ Goto(t, "reply")
    /\ UNCHANGED <<waiting, lister, store, port, kernel, content>>

\* pager_release_offset: a page that will be written needs no block.
Release(t) ==
    /\ At(t, "release")
    /\ free' = free \cup {ds[Obj(t)].map[Msg(t).page]}
    /\ ds' = [ds EXCEPT ![Obj(t)].map[Msg(t).page] = None]
    /\ Goto(t, "reply")
    /\ UNCHANGED <<waiting, lister, disk, port, kernel, content>>

\* The kernel ignores what is sent for an object it has terminated.  The page
\* is clean, and not precious even when its block has been released; the fault
\* that asked for it has yet to write it.
Reply(t) ==
    /\ At(t, "reply")
    /\ LET k == kernel[Obj(t)]
           p == Msg(t).page IN
       kernel' = IF ~k.active \/ k.life /= Msg(t).life \/ k.memory[p] /= Wanted
                 THEN kernel
                 ELSE [kernel EXCEPT ![Obj(t)] =
                        CASE thread[t].rc = "success" ->
                               [k EXCEPT !.memory[p] = thread[t].data,
                                         !.unwritten = IF Msg(t).write THEN @ \cup {p} ELSE @]
                          [] thread[t].rc = "absent" -> [k EXCEPT !.memory[p] = 0]
                          [] thread[t].rc = "error" -> [k EXCEPT !.memory[p] = Out]]
    /\ thread' = [thread EXCEPT ![t] = Ending(t)]
    /\ UNCHANGED <<pager, store, port, content>>

\* pager_port_finish_read and pager_port_finish_write.
Finish(t) ==
    /\ At(t, "finish")
    /\ LET d == IF Msg(t).op = "request"
                THEN [ds[Obj(t)] EXCEPT !.readers = @ - 1]
                ELSE [ds[Obj(t)] EXCEPT !.writers = @ - 1]
           left == IF Msg(t).op = "request" THEN d.readers ELSE d.writers
       IN /\ ds' = [ds EXCEPT ![Obj(t)] = d]
          /\ thread' = [thread EXCEPT ![t] = IF left = 0 THEN [@ EXCEPT !.pc = "finished"]
                                             ELSE NewThread]
    /\ UNCHANGED <<waiting, lister, store, port, kernel, content>>

Finished(t) ==
    /\ At(t, "finished")
    /\ waiting' = [waiting EXCEPT ![Obj(t)][IF Msg(t).op = "request" THEN "read" ELSE "write"] = {}]
    /\ thread' = [thread EXCEPT ![t] = NewThread]
    /\ UNCHANGED <<ds, lister, store, port, kernel, content>>

\* default_has_page, for memory_object_data_initialize.
HasPage(t) ==
    /\ At(t, "has_page")
    /\ thread' = [thread EXCEPT ![t] = IF ds[Obj(t)].map[Msg(t).page] = None
                                       THEN [@ EXCEPT !.pc = "write_offset"] ELSE Ending(t)]
    /\ UNCHANGED <<pager, store, port, kernel, content>>

\* default_write: pager_write_offset finds the block of the page, or takes
\* a free one.
WriteOffset(t) ==
    /\ At(t, "write_offset")
    /\ LET b == ds[Obj(t)].map[Msg(t).page]
           new == IF b = None /\ free /= {} THEN CHOOSE f \in free : TRUE ELSE b
       IN /\ thread' = [thread EXCEPT ![t].block = new,
                                      ![t].pc = IF new = None THEN "write_error" ELSE "write"]
          /\ ds' = [ds EXCEPT ![Obj(t)].map[Msg(t).page] = new]
          /\ free' = free \ {new}
    /\ UNCHANGED <<waiting, lister, disk, port, kernel, content>>

WriteDisk(t) ==
    /\ At(t, "write")
    /\ disk' = [disk EXCEPT ![thread[t].block] = Msg(t).data]
    /\ thread' = [thread EXCEPT ![t] = Ending(t)]
    /\ UNCHANGED <<pager, free, port, kernel, content>>

WriteFails(t) ==
    /\ At(t, "write")
    /\ kernel[Obj(t)].internal \in MayFail
    /\ Goto(t, "write_error")
    /\ UNCHANGED <<pager, store, port, kernel, content>>

WriteError(t) ==
    /\ At(t, "write_error")
    /\ ds' = [ds EXCEPT ![Obj(t)].errors = TRUE]
    /\ thread' = [thread EXCEPT ![t] = Ending(t)]
    /\ UNCHANGED <<waiting, lister, store, port, kernel, content>>

\* seqnos_memory_object_init, which sets the attributes of the kernel's object.
InitObject(t) ==
    /\ At(t, "init")
    /\ Unlocked(Obj(t), [ds[Obj(t)] EXCEPT !.request = TRUE, !.name_refs = 1])
    /\ kernel' = IF kernel[Obj(t)].active /\ kernel[Obj(t)].life = Msg(t).life
                 THEN [kernel EXCEPT ![Obj(t)].ready = TRUE] ELSE kernel
    /\ Goto(t, "broadcast")
    /\ UNCHANGED <<waiting, lister, store, port, content>>

\* seqnos_memory_object_terminate.
WaitForReaders(t) ==
    /\ At(t, "wait_readers")
    /\ IF ds[Obj(t)].readers /= 0
       THEN Wait(t, "read")
       ELSE /\ Goto(t, "wait_writers")
            /\ UNCHANGED <<pager, store, port, kernel, content>>

\* Mutant: terminate waits for the reads alone.
WaitForWriters_Not(t) ==
    /\ At(t, "wait_writers")
    /\ Goto(t, "terminate")
    /\ UNCHANGED <<pager, store, port, kernel, content>>

WaitForWriters(t) ==
    /\ At(t, "wait_writers")
    /\ IF ds[Obj(t)].writers /= 0
       THEN Wait(t, "write")
       ELSE /\ Goto(t, "terminate")
            /\ UNCHANGED <<pager, store, port, kernel, content>>

WaitForRefs(t) ==
    /\ At(t, "terminate")
    /\ ds[Obj(t)].name_refs = 0
    /\ Wait(t, "refs")

TerminateObject(t) ==
    /\ At(t, "terminate")
    /\ ds[Obj(t)].name_refs /= 0
    /\ Unlocked(Obj(t), [ds[Obj(t)] EXCEPT !.request = FALSE, !.name_refs = 0])
    /\ Goto(t, "broadcast")
    /\ UNCHANGED <<waiting, lister, store, port, kernel, content>>

\* default_pager_no_senders: it waits for all_pagers.lock and gives back the
\* blocks; it does not increment the sequence number.
NoSenders(t) ==
    /\ At(t, "no_senders")
    /\ lister = None
    /\ ds' = [ds EXCEPT ![Obj(t)].deleted = TRUE, ![Obj(t)].map = [p \in Pages |-> None]]
    /\ free' = free \cup (Range(ds[Obj(t)].map) \ {None})
    /\ thread' = [thread EXCEPT ![t] = NewThread]
    /\ UNCHANGED <<waiting, lister, disk, port, kernel, content>>

-----------------------------------------------------------------------------
(* default_pager_objects, which keeps all_pagers.lock while it gives away  *)
(* one reference to the name of each object.                               *)

ListObject(o) ==
    /\ lister = None
    /\ ~ds[o].deleted
    /\ ds[o].request            \* pager_name is valid when pager_request is
    /\ ds' = [ds EXCEPT ![o].name_refs = @ - 1]
    /\ lister' = IF ds[o].name_refs = 1 THEN o ELSE None
    /\ UNCHANGED <<waiting, thread, store, port, kernel, content>>

MoreNameRefs ==
    /\ lister /= None
    /\ ds' = [ds EXCEPT ![lister].name_refs = @ + MaxUrefs]
    /\ waiting' = [waiting EXCEPT ![lister]["refs"] = {}]
    /\ lister' = None
    /\ UNCHANGED <<thread, store, port, kernel, content>>

-----------------------------------------------------------------------------
Server(t) ==
    \/ \E o \in Objects : Receive(t, o)
    \/ Lock(t) \/ StartRead(t) \/ StartWrite(t) \/ Broadcast(t)
    \/ ReadOffset(t) \/ ReadDisk(t) \/ ReadFails(t) \/ Release(t) \/ Reply(t)
    \/ Finish(t) \/ Finished(t)
    \/ HasPage(t) \/ WriteOffset(t) \/ WriteDisk(t) \/ WriteFails(t) \/ WriteError(t)
    \/ InitObject(t) \/ NoSenders(t)
    \/ WaitForReaders(t) \/ WaitForWriters(t) \/ WaitForRefs(t) \/ TerminateObject(t)

Kernel(o) ==
    \/ \E p \in Pages : \/ \E write \in BOOLEAN : Fault(o, p, write)
                        \/ Modify(o, p) \/ PageOut(o, p) \/ Initialize(o, p)
    \/ Terminate(o) \/ Map(o) \/ NoMoreSenders(o)

Next ==
    \/ \E t \in Threads : Server(t)
    \/ \E o \in Objects : Kernel(o) \/ ListObject(o)
    \/ MoreNameRefs

\* Threads of a task run; the kernel need not do anything.  A thread that is
\* woken because there are references again gets the lock before all of them,
\* 10000 in the code, have been given away.
Spec ==
    /\ Init /\ [][Next]_vars
    /\ \A t \in Threads : WF_vars(Server(t))
    /\ \A o \in Objects : SF_vars(\E t \in Threads : Obj(t) = o /\ TerminateObject(t))
    /\ WF_vars(MoreNameRefs)

-----------------------------------------------------------------------------
(* Properties.                                                             *)

Transfers == {"read_offset", "read", "release", "reply", "finish", "has_page",
              "write_offset", "write", "write_error"}

(* terminate waits for earlier reads and writes: while a thread transfers  *)
(* a page, the object has its request port, and the counts of readers and  *)
(* writers say so.                                                         *)
TransfersEndFirst ==
    \A o \in Objects :
       LET in(ops) == {t \in Threads : Obj(t) = o /\ Msg(t).op \in ops
                                       /\ (thread[t].pc \in Transfers
                                           \/ (thread[t].pc = "broadcast"))}
       IN /\ Cardinality(in({"request"})) = ds[o].readers
          /\ Cardinality(in({"write", "initialize"})) = ds[o].writers
          /\ ds[o].readers + ds[o].writers > 0 => ds[o].request /\ ~ds[o].deleted

(* The checks at which the pager panics: it is given a request port when   *)
(* it has one, or told that nobody has its port while the kernel uses it.  *)
NoPanic ==
    \A t \in Threads :
       thread[t].pc \in {"init", "no_senders"} => ~ds[Obj(t)].request /\ ~ds[Obj(t)].deleted

(* Every block of the partition is free or belongs to one page of one      *)
(* object.                                                                 *)
BlocksExact ==
    /\ \A b \in Blocks :
          Cardinality({x \in Objects \X Pages : ds[x[1]].map[x[2]] = b})
             = (IF b \in free THEN 0 ELSE 1)
    /\ free \subseteq Blocks

(* The kernel never has a page in memory with an older content: "we must   *)
(* avoid returning stale data".  That default_read gives up the block of a *)
(* page that is read to be written needs what the history of the file says *)
(* of the pager, "it uses the precious attribute in data_supply": without  *)
(* it the kernel drops a page that nobody has written yet.                 *)
NeverStale ==
    \A o \in Objects, p \in Pages : Memory(o, p) \in Values => Memory(o, p) = content[o][p]

Broken ==
    \/ \E o \in Objects : ds[o].errors
    \/ \E t \in Threads : thread[t].rc = "error" \/ thread[t].pc = "write_error"

Store == INSTANCE PagedStore WITH
    Pages <- Objects \X Pages,
    Empty <- 0,
    content <- [x \in Objects \X Pages |-> content[x[1]][x[2]]],
    memory <- [x \in Objects \X Pages |-> Memory(x[1], x[2])],
    broken <- Broken
(* The pager as a PagedStore: the kernel never gets a page with an older   *)
(* content, although pages are read and written in parallel, blocks are    *)
(* given up when a page is read to be written, and the object is           *)
(* terminated and used again; and every request is answered.               *)
Implements == Store!Spec

-----------------------------------------------------------------------------
(* What the safety properties rest on.  An object is looked at with its    *)
(* crew: the threads that work for it, and where they are.                 *)

PageOps == {"request", "write", "initialize"}
Ops == PageOps \cup {"init", "terminate", "no_senders"}
Turns == {"request", "start_write", "init", "wait_readers", "wait_writers", "terminate",
          "no_senders"}
ReadPCs == {"read_offset", "read", "release", "reply"}
WritePCs == {"write_offset", "write", "write_error"}
Moving == ReadPCs \cup WritePCs \cup {"has_page", "broadcast"}
PCs == {"idle", "lock", "finish", "finished"} \cup Turns \cup Moving
Seqnos == 0..(SeqnoModulus - 1)

Requests ==
    [op: Ops \cup {"none"}, page: Pages \cup {0}, data: Values, write: BOOLEAN, life: Nat]
Messages == {m \in Requests : m.op /= "none" /\ (m.op \in PageOps => m.page \in Pages)}

\* The operation of the message that a thread serves at pc.
OpsAt(pc) ==
    CASE pc = "idle" -> {"none"}
      [] pc = "lock" -> Ops
      [] pc \in {"request"} \cup ReadPCs -> {"request"}
      [] pc \in {"start_write"} \cup WritePCs -> {"write", "initialize"}
      [] pc = "has_page" -> {"initialize"}
      [] pc = "broadcast" -> Ops \ {"no_senders"}
      [] pc = "init" -> {"init"}
      [] pc \in {"wait_readers", "wait_writers", "terminate"} -> {"terminate"}
      [] pc = "no_senders" -> {"no_senders"}
      [] pc \in {"finish", "finished"} -> PageOps

ThreadFields ==
    [pc: PCs, o: Objects \cup {None}, m: Requests, seqno: Seqnos,
     block: Blocks \cup {None}, data: Values, rc: {"none", "success", "absent", "error"}]
ThreadRecords ==
    {r \in ThreadFields :
        /\ r.o = None <=> r.pc = "idle"
        /\ r.m.op \in OpsAt(r.pc)
        /\ r.pc \in {"lock"} \cup Turns \cup Moving => r.m \in Messages
        /\ r.pc \in {"read", "write"} => r.block /= None
        /\ r.pc \in {"release", "reply"} => r.rc /= "none"}

Dstructs ==
    [seqno: Seqnos, readers: Nat, writers: Nat, errors: BOOLEAN, request: BOOLEAN,
     name_refs: Nat, map: [Pages -> Blocks \cup {None}], deleted: BOOLEAN]
KernelObjects ==
    [internal: BOOLEAN, active: BOOLEAN, ready: BOOLEAN, senders: BOOLEAN, life: Nat,
     dirty: SUBSET Pages, unwritten: SUBSET Pages, memory: [Pages -> Values \cup {Out, Wanted}]]

TypeOK ==
    /\ ds \in [Objects -> Dstructs]
    /\ waiting \in [Objects -> [Conditions -> SUBSET Threads]]
    /\ thread \in [Threads -> ThreadRecords]
    /\ lister \in Objects \cup {None}
    /\ free \subseteq Blocks
    /\ disk \in [Blocks -> Values]
    /\ queue \in [Objects -> Seq(Messages)]
    /\ received \in [Objects -> Seqnos]
    /\ kernel \in [Objects -> KernelObjects]
    /\ content \in [Objects -> [Pages -> Values]]

\* The threads of th that work for o.
CrewOf(th, o) == [t \in {u \in Threads : th[u].o = o} |-> th[t]]

\* The threads of crew c that have not served their message, the turns each
\* has to wait for, and all messages not served: in threads and in the queue.
Pending(c) == {t \in DOMAIN c : c[t].pc \in {"lock"} \cup Turns}
After(a, b) == IF b >= a THEN b - a ELSE b + SeqnoModulus - a
Place(c, n, t) == IF c[t].pc = "lock" THEN After(n, c[t].seqno) ELSE 0
Line(c, n, q) ==
    {<<Place(c, n, t), c[t].m>> : t \in Pending(c)}
       \cup {<<Cardinality(Pending(c)) + i - 1, q[i]>> : i \in DOMAIN q}

TurnsAgree(c, d, r) ==
    LET waits == Cardinality(Pending(c)) IN
    /\ \A t \in Pending(c) : Place(c, d.seqno, t) < waits
    /\ \A t, u \in Pending(c) : Place(c, d.seqno, t) = Place(c, d.seqno, u) => t = u
    /\ ~d.deleted => After(d.seqno, r) \in {waits, waits - SeqnoModulus}

\* The kernel's messages about one life of an object are an init, requests
\* and a terminate, and when nobody can have another life, no_senders.
Precedes(m, n) ==
    /\ m.op /= "no_senders"
    /\ \/ n.op = "no_senders"
       \/ m.life < n.life
       \/ (m.life = n.life /\ m.op /= "terminate" /\ n.op /= "init")

InOrder(L) ==
    \A x, y \in L : /\ x[1] = y[1] => x = y
                    /\ x[1] < y[1] => Precedes(x[2], y[2])

\* The pager has seen the init of the lives up to s, and not yet those of
\* the lives after; d.request tells whether it has seen the terminate of s.
Current(L, s, d, k) ==
    \A x \in L :
       LET m == x[2] IN
       /\ m.life <= k.life
       /\ m.op = "init" => s < m.life
       /\ m.op \in PageOps \cup {"terminate"} => s < m.life \/ (s = m.life /\ d.request)
       /\ m.op = "terminate" /\ m.life = k.life => ~k.active
       /\ m.op = "no_senders" => ~k.senders

Has(L, op, life) == \E x \in L : x[2].op = op /\ x[2].life = life
Complete(L, s, d, k) ==
    /\ \A n \in (s + 1)..k.life : Has(L, "init", n)
    /\ \A n \in 1..k.life :
          (n > s \/ (n = s /\ d.request)) /\ (n < k.life \/ ~k.active)
             => Has(L, "terminate", n)
    /\ d.request => s > 0
    /\ k.active => k.senders /\ k.life > 0 /\ (s = k.life => d.request)
    /\ ~k.active => k.memory = [p \in Pages |-> Out]
    /\ d.deleted => L = {} /\ ~k.senders /\ ~d.request

LineAgrees(L, s, d, k) == InOrder(L) /\ Current(L, s, d, k) /\ Complete(L, s, d, k)

Reading(c) == {t \in DOMAIN c : c[t].m.op = "request" /\ c[t].pc \in Moving \cup {"finish"}}
Writing(c) == {t \in DOMAIN c : c[t].m.op \in {"write", "initialize"}
                                /\ c[t].pc \in Moving \cup {"finish"}}

\* The transfers under way, which are those of life s.
TransfersAgree(c, s, d) ==
    /\ Cardinality(Reading(c)) = d.readers
    /\ Cardinality(Writing(c)) = d.writers
    /\ d.readers + d.writers > 0 => d.request
    /\ \A t \in DOMAIN c :
          /\ c[t].pc \in Moving /\ c[t].m.op \in PageOps => c[t].m.life = s
          /\ c[t].pc = "wait_writers" => d.readers = 0
          /\ c[t].pc = "terminate" => d.readers = 0 /\ d.writers = 0
          /\ c[t].pc \in {"read", "release"} => d.map[c[t].m.page] /= None

\* The request for a page is the only one, until the kernel has the page.
Asked(m, n) == m.op = "request" /\ n.op = "request" /\ m.page = n.page /\ m.life = n.life
Waited(m, k) ==
    m.op = "request" /\ k.active /\ m.life = k.life => k.memory[m.page] = Wanted
OneRequest(c, L, k) ==
    LET reads == {t \in Reading(c) : c[t].pc \in Moving} IN
    /\ \A x, y \in L : Asked(x[2], y[2]) => x = y
    /\ \A t \in reads, x \in L : ~Asked(c[t].m, x[2])
    /\ \A t, u \in reads : Asked(c[t].m, c[u].m) => t = u
    /\ \A x \in L : Waited(x[2], k)
    /\ \A t \in reads : Waited(c[t].m, k)

\* The name port has references while the object has its request port, but
\* for the moment in which default_pager_objects adds some.
NamesAgree(d, listed) ==
    IF listed THEN d.request /\ d.name_refs = 0 ELSE d.request => d.name_refs > 0

ObjectAgrees(c, d, q, r, k, listed) ==
    /\ TurnsAgree(c, d, r)
    /\ NamesAgree(d, listed)
    /\ \E s \in 0..k.life :
          /\ LineAgrees(Line(c, d.seqno, q), s, d, k)
          /\ OneRequest(c, Line(c, d.seqno, q), k)
          /\ TransfersAgree(c, s, d)

BlocksOwned ==
    \A b \in Blocks :
       /\ b \in free <=> \A o \in Objects, p \in Pages : ds[o].map[p] /= b
       /\ \A o, o2 \in Objects, p, p2 \in Pages :
             ds[o].map[p] = b /\ ds[o2].map[p2] = b => o = o2 /\ p = p2

PagerInv ==
    /\ TypeOK
    /\ BlocksOwned
    /\ \A o \in Objects :
          ObjectAgrees(CrewOf(thread, o), ds[o], queue[o], received[o], kernel[o], lister = o)
=============================================================================
