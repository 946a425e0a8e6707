------------------------------ MODULE VmFault ------------------------------
(***************************************************************************)
(* Page faults on memory that is inherited (vm/vm_fault.c, vm_object.c and *)
(* vm_map.c): a chain of objects below each map, of which the first with   *)
(* the page has its content.  A copy is symmetric (both maps get a shadow  *)
(* when they write) or, of an object that maps share, delayed: the object  *)
(* has a copy object above it, into which a page is pushed before it is    *)
(* written.  Faults look for a page, copy it up, push it and collapse the  *)
(* chain while other faults, forks, deletions and the pageout daemon do.   *)
(*                                                                         *)
(* Every map has one entry, and every object one page.  What is done while *)
(* the lock of an object is held, or passed from an object to its shadow,  *)
(* is one action; the busy page, the references and the paging references  *)
(* are all that is left of an operation when it lets go of its locks.      *)
(***************************************************************************)
EXTENDS Integers, FiniteSets, FiniteSetsExt

CONSTANTS
    Maps,
    Threads,
    MaxObject,      \* bound: objects in use at a time
    MaxWrites,      \* bound: writes by the tasks
    MaxForks,       \* bound: tasks that are made
    None,
    MaxPageOuts,    \* bound: pages that the pageout daemon takes
    MaxActors,      \* bound: faults at a time, and pages taken by the daemon
    MACH_PAGEMAP,   \* whether the kernel knows which pages a pager has
    SlowWakeups,    \* whether a thread that is awakened may run after others
    Multiprocessor, \* whether others run between unlock and pmap_enter
    ReuseAtOnce     \* whether an object may be allocated where one was that a fault remembers

ASSUME VmFaultAssumption ==
    /\ MaxObject \in Nat \ {0} /\ None \notin 1 .. MaxObject
    /\ {MACH_PAGEMAP, SlowWakeups, Multiprocessor, ReuseAtOnce} \subseteq BOOLEAN

VARIABLES
    obj,            \* object -> its struct vm_object and its page
    map,            \* map -> its entry
    pmap,           \* map -> the page that is mapped, by its object, and how
    thread,         \* thread -> the fault it is in
    daemon,         \* the pageout daemon
    writes,         \* how often tasks have written
    forks,          \* how many tasks have been made
    pageouts        \* how many pages the daemon has taken

counts == <<writes, forks, pageouts>>
vars == <<obj, map, pmap, thread, daemon, counts>>

Objects == 1 .. MaxObject

\* The page: a busy placeholder, busy and absent until the pager answers,
\* absent when it has not the page, or a real page, busy or not.
Pages == {"none", "held", "wanted", "absent", "busy", "here"}
Busy == {"held", "wanted", "busy"}
Real == {"busy", "here"}

NoObject == [ref |-> 0, used |-> FALSE, shadow |-> None, copy |-> None, shared |-> FALSE,
             shadowed |-> FALSE, pager |-> FALSE, pip |-> 0, page |-> "none", data |-> 0,
             stored |-> None]

\* vm_object_allocate
NewObject == [NoObject EXCEPT !.ref = 1, !.used = TRUE]

NoEntry == [live |-> FALSE, object |-> None, needs_copy |-> FALSE, is_shared |-> FALSE]
Unmapped == [o |-> None, write |-> FALSE]
NewThread == [pc |-> "idle", m |-> None, write |-> FALSE, grant |-> FALSE, stale |-> FALSE,
              first |-> None, cur |-> None, top |-> FALSE, copy |-> None, data |-> 0]

Init ==
    /\ obj = [o \in Objects |-> NoObject]
    /\ \E m \in Maps : map = [n \in Maps |-> IF n = m THEN [NoEntry EXCEPT !.live = TRUE]
                                             ELSE NoEntry]
    /\ pmap = [m \in Maps |-> Unmapped]
    /\ thread = [t \in Threads |-> NewThread]
    /\ daemon = [pc |-> "idle", o |-> None, data |-> 0]
    /\ writes = 0 /\ forks = 0 /\ pageouts = 0

\* Where zalloc finds an object.
Unused(os) ==
    {o \in Objects : ~os[o].used /\ (ReuseAtOnce \/ \A t \in Threads : thread[t].copy /= o)}
Fresh(os) == Min(Unused(os))

-----------------------------------------------------------------------------
(* Objects.  The operators take the objects, os, and return them changed.  *)

Shadow(os, o) == os[o].shadow

\* A round of the loop of vm_object_deallocate, on s.obj and s.o.  The last
\* reference terminates the object, which goes on with its shadow, at once
\* unless paging is in progress: that waits for Terminate.
Release(s) ==
    LET gone == [s.obj EXCEPT ![s.o].ref = @ - 1]
        x == Shadow(s.obj, s.o)
        alone == IF x = None THEN gone ELSE [gone EXCEPT ![x].copy = None]
    IN CASE s.o = None -> s
         [] s.o /= None /\ gone[s.o].ref > 0 -> [obj |-> gone, o |-> None]
         [] s.o /= None /\ gone[s.o].ref = 0 ->
               IF gone[s.o].pip > 0 THEN [obj |-> alone, o |-> None]
               ELSE [obj |-> [alone EXCEPT ![s.o] = NoObject], o |-> x]

\* vm_object_deallocate
Deallocate(os, o) ==
    LET after[i \in 0 .. MaxObject] ==
           IF i = 0 THEN [obj |-> os, o |-> o] ELSE Release(after[i - 1])
    IN after[MaxObject].obj

\* vm_object_shadow: the reference of the map goes to the new object.
Shadowed(os, o) == [os EXCEPT ![Fresh(os)] = [NewObject EXCEPT !.shadow = o]]

\* A copy object nobody has changed is used again.
CanReuse(os, o) ==
    LET c == os[o].copy IN c /= None /\ os[c].page = "none" /\ ~os[c].pager

\* vm_object_copy_delayed
CopyDelayed(os, o) ==
    LET c == os[o].copy
        new == Fresh(os)
        made == [os EXCEPT ![new] = [NewObject EXCEPT !.shadow = o, !.shadowed = TRUE],
                           ![o].copy = new, ![o].ref = @ + 1]
    IN CASE CanReuse(os, o) -> [os EXCEPT ![c].ref = @ + 1]
         [] c = None -> made
         [] OTHER -> [made EXCEPT ![c].shadow = new, ![new].ref = @ + 1, ![o].ref = @ - 1]

\* pmap_page_protect and pmap_protect
Unmap(pm, o) == [m \in Maps |-> IF pm[m].o = o THEN Unmapped ELSE pm[m]]
ReadOnly(pm, ms) == [m \in Maps |-> IF m \in ms THEN [pm[m] EXCEPT !.write = FALSE] ELSE pm[m]]
MappersOf(o) == {m \in Maps : pmap[m].o = o}

\* The conditions that vm_object_collapse looks at.
\*
\* Mutant: a copy object can be the backing object.
CanCollapse_CopyObject(os, o) ==
    LET b == Shadow(os, o) IN
    /\ ~os[o].pager /\ os[o].pip = 0 /\ os[o].page \notin {"wanted", "absent"}
    /\ b /= None /\ os[b].pip = 0

CanCollapse(os, o) ==
    LET b == Shadow(os, o) IN
    /\ ~os[o].pager /\ os[o].pip = 0 /\ os[o].page \notin {"wanted", "absent"}
    /\ b /= None /\ os[b].pip = 0
    /\ Shadow(os, b) = None \/ os[Shadow(os, b)].copy = None

Absorb(s, o) ==
    LET os == s.obj
        b == Shadow(os, o)
        up == os[o].page = "none"
        with == [os[o] EXCEPT !.page = IF up THEN os[b].page ELSE @,
                              !.data = IF up THEN os[b].data ELSE @,
                              !.pager = os[b].pager, !.stored = os[b].stored,
                              !.shadow = os[b].shadow]
    IN [obj |-> [os EXCEPT ![o] = with, ![b] = NoObject],
        pmap |-> [m \in Maps |-> IF up /\ s.pmap[m].o = b THEN [s.pmap[m] EXCEPT !.o = o]
                                 ELSE s.pmap[m]]]

\* Mutant: the object that is bypassed keeps the reference.
Bypass_KeepsRef(s, o) ==
    LET b == Shadow(s.obj, o)
        next == Shadow(s.obj, b)
        os == [s.obj EXCEPT ![o].shadow = next, ![b].copy = IF @ = o THEN None ELSE @]
    IN [s EXCEPT !.obj = IF next = None THEN os ELSE [os EXCEPT ![next].ref = @ + 1]]

Bypass(s, o) ==
    LET b == Shadow(s.obj, o)
        next == Shadow(s.obj, b)
        os == [s.obj EXCEPT ![o].shadow = next,
                            ![b].ref = @ - 1,
                            ![b].copy = IF @ = o THEN None ELSE @]
    IN [s EXCEPT !.obj = IF next = None THEN os ELSE [os EXCEPT ![next].ref = @ + 1]]

\* An iteration of vm_object_collapse, on s.obj and s.pmap: the backing
\* object goes away if the object has its only reference, or is bypassed
\* when the object has all of its pages.
CollapseOnce(s, o) ==
    LET b == Shadow(s.obj, o) IN
    CASE ~CanCollapse(s.obj, o) -> s
      [] CanCollapse(s.obj, o) /\ s.obj[b].ref = 1 -> Absorb(s, o)
      [] CanCollapse(s.obj, o) /\ s.obj[b].ref > 1 ->
            IF s.obj[b].pager \/ (s.obj[b].page /= "none" /\ s.obj[o].page = "none")
            THEN s ELSE Bypass(s, o)

Collapse(os, pm, o) ==
    LET after[i \in 0 .. MaxObject] ==
           IF i = 0 THEN [obj |-> os, pmap |-> pm] ELSE CollapseOnce(after[i - 1], o)
    IN after[MaxObject]

-----------------------------------------------------------------------------
(* Threads.                                                                *)

At(t, pc) == thread[t].pc = pc
First(t) == thread[t].first
Cur(t) == thread[t].cur

\* PAGE_WAKEUP on the page of o.
Wake(th, o) ==
    [t \in Threads |->
       CASE th[t].cur = o /\ th[t].pc = "sleep" -> [th[t] EXCEPT !.pc = "look"]
         [] th[t].cur = o /\ th[t].pc = "backoff" -> [th[t] EXCEPT !.pc = "again"]
         [] OTHER -> th[t]]

\* thread_wakeup_with_result(m, THREAD_RESTART)
Restart(th, o) ==
    [t \in Threads |->
       CASE th[t].cur = o /\ th[t].pc = "sleep" -> [th[t] EXCEPT !.pc = "restarted"]
         [] th[t].cur = o /\ th[t].pc = "backoff" -> [th[t] EXCEPT !.pc = "again"]
         [] OTHER -> th[t]]

\* vm_fault_cleanup: t is done with the page of its object, and with the
\* placeholder in the first one.
Cleanup(os, t) ==
    LET done == [os EXCEPT ![Cur(t)].pip = @ - 1]
    IN IF thread[t].top THEN [done EXCEPT ![First(t)].page = "none", ![First(t)].pip = @ - 1] ELSE done

\* Mutant: nobody is told that the placeholder goes.
WakeTop_Not(th, t) == th

WakeTop(th, t) == IF thread[t].top THEN Wake(th, First(t)) ELSE th

\* A lock of map m for writing waits for the faults that have it for
\* reading, and gives it a new version.
Writable(m) == \A t \in Threads : thread[t].m = m => thread[t].pc /= "enter"
Stale(th, m) == [t \in Threads |-> IF th[t].m = m THEN [th[t] EXCEPT !.stale = TRUE] ELSE th[t]]

Actors == Cardinality({t \in Threads : ~At(t, "idle")}) + pageouts
Missing(m, write) == pmap[m].o = None \/ (write /\ ~pmap[m].write)

\* vm_fault, and vm_map_lookup, which gives an entry without an object a new
\* one, and one that needs a copy a shadow if the fault is to write.  A fault
\* that fails or has to start again (RetryFault) has ended: the task meets it
\* again if it still needs the page.
Lookup(t, m, write) ==
    /\ At(t, "idle") /\ Actors < MaxActors
    /\ map[m].live /\ Missing(m, write)
    /\ LET e == map[m]
           change == e.object = None \/ (e.needs_copy /\ write)
           made == CASE e.object = None -> [obj EXCEPT ![Fresh(obj)] = NewObject]
                     [] e.object /= None /\ change -> Shadowed(obj, e.object)
                     [] OTHER -> obj
           o == IF change THEN Fresh(obj) ELSE e.object
       IN /\ change => Unused(obj) /= {} /\ Writable(m)
          /\ map' = [map EXCEPT ![m].object = o, ![m].needs_copy = @ /\ ~write]
          /\ obj' = [made EXCEPT ![o].ref = @ + 1, ![o].pip = @ + 1]
          /\ thread' = [IF e.needs_copy /\ change THEN Stale(thread, m) ELSE thread
                        EXCEPT ![t] = [NewThread EXCEPT !.pc = "look", !.m = m, !.write = write,
                                       !.grant = ~e.needs_copy \/ write, !.first = o, !.cur = o]]
    /\ UNCHANGED <<pmap, daemon, counts>>

\* look_for_page
LookForPage(o) == obj[o].pager /\ (MACH_PAGEMAP => obj[o].stored /= None)

\* Where the search from o ends: at a page, at a pager that may have it, or
\* at the last object.
Landing(o) ==
    LET land[x \in Objects] ==
           IF \/ obj[x].page \in Busy \cup Real
              \/ obj[x].page = "none" /\ LookForPage(x)
              \/ Shadow(obj, x) = None
           THEN x ELSE land[Shadow(obj, x)]
    IN land[o]

Chain(os, o) ==
    LET chain[x \in Objects] == {x} \cup IF Shadow(os, x) = None THEN {} ELSE chain[Shadow(os, x)]
    IN chain[o]

\* The objects that have been passed on the way to l: a placeholder stays
\* in the first, and a page that is absent goes.
Passed(t, l) ==
    LET above == Chain(obj, Cur(t)) \ Chain(obj, l) IN
    [o \in Objects |->
       LET moved == (IF o = l /\ l /= Cur(t) THEN 1 ELSE 0)
                    - (IF o = Cur(t) /\ l /= o /\ o /= First(t) THEN 1 ELSE 0)
       IN [obj[o] EXCEPT !.pip = @ + moved,
                         !.page = CASE o \in above /\ o = First(t) -> "held"
                                    [] o \in above /\ o /= First(t) /\ @ = "absent" -> "none"
                                    [] OTHER -> @]]

\* The search of vm_fault_page, from the object where it was to the one
\* where it ends.  Objects are locked before their shadows are, and unlocked
\* afterwards.
Look(t) ==
    /\ At(t, "look")
    /\ LET l == Landing(Cur(t))
           os == Passed(t, l)
           top == thread[t].top \/ l /= First(t)
           to(pc, cur) == [thread[t] EXCEPT !.pc = pc, !.cur = cur, !.top = top]
       IN CASE obj[l].page \in Busy ->
                 /\ obj' = os
                 /\ thread' = [thread EXCEPT ![t] = to("sleep", l)]
            [] obj[l].page = "none" /\ LookForPage(l) ->
                 /\ obj' = [os EXCEPT ![l].page = "wanted"]
                 /\ thread' = [thread EXCEPT ![t] = to("sleep", l)]
            [] obj[l].page = "here" ->
                 /\ obj' = [os EXCEPT ![l].page = "busy"]
                 /\ thread' = [thread EXCEPT ![t] =
                       IF thread[t].write
                       THEN to(IF l = First(t) THEN "push" ELSE "copy", l)
                       ELSE [to("verify", l) EXCEPT !.grant = @ /\ l = First(t) /\ obj[l].copy = None,
                                                    !.copy = obj[l].copy]]
            [] OTHER ->         \* the last object has no page either: zero fill
                 LET f == First(t)
                     zero == [os EXCEPT ![l].page = "none", ![l].pip = IF l = f THEN @ ELSE @ - 1]
                 IN /\ obj' = [zero EXCEPT ![f].page = "busy", ![f].data = 0]
                    /\ thread' = [thread EXCEPT ![t] =
                          IF thread[t].write
                          THEN [@ EXCEPT !.pc = "push", !.cur = f, !.top = FALSE]
                          ELSE [@ EXCEPT !.pc = "verify", !.cur = f, !.top = FALSE, !.copy = obj[f].copy,
                                         !.grant = @ /\ obj[f].copy = None]]
    /\ UNCHANGED <<map, pmap, daemon, counts>>

\* THREAD_RESTART: the page has been pushed above the thread.
Restarted(t) ==
    /\ At(t, "restarted")
    /\ obj' = Deallocate(Cleanup(obj, t), First(t))
    /\ thread' = [WakeTop(thread, t) EXCEPT ![t] = NewThread]
    /\ UNCHANGED <<map, pmap, daemon, counts>>

\* The page of another object will be written: it is copied, and removed from
\* all maps, "since we can't distinguish those which want the original from
\* those which need the new copy".
CopyUp(t) ==
    /\ At(t, "copy")
    /\ LET o == Cur(t) IN
       /\ obj' = [obj EXCEPT ![o].page = "here", ![o].pip = @ - 1]
       /\ pmap' = Unmap(pmap, o)
       /\ thread' = [Wake(thread, o) EXCEPT ![t].pc = "insert", ![t].data = obj[o].data,
                                            ![t].cur = First(t)]
    /\ UNCHANGED <<map, daemon, counts>>

\* The copy takes the place of the placeholder, and the object is collapsed,
\* for which its paging reference is given up.
Insert(t) ==
    /\ At(t, "insert")
    /\ LET o == First(t)
           placed == [obj EXCEPT ![o].page = "busy", ![o].data = thread[t].data, ![o].pip = @ - 1]
           after == Collapse(placed, pmap, o)
       IN /\ obj' = [after.obj EXCEPT ![o].pip = @ + 1]
          /\ pmap' = after.pmap
          /\ thread' = [Wake(thread, o) EXCEPT ![t].pc = "push", ![t].top = FALSE, ![t].data = 0]
    /\ UNCHANGED <<map, daemon, counts>>

\* The page of the first object is ready to be written: it is pushed into
\* the copy object first, if that does not have it.
PushDone(t) == [thread[t] EXCEPT !.pc = "verify", !.write = FALSE, !.copy = obj[First(t)].copy]

\* Those who could not be awakened in time for the restart are late.
InTime(t) ==
    SlowWakeups \/ \A u \in Threads \ {t} : thread[u].pc = "look" => thread[u].cur /= First(t)

NeedNotPush(t) ==
    /\ At(t, "push")
    /\ LET c == obj[First(t)].copy IN IF c = None THEN TRUE ELSE obj[c].page \in {"here", "absent"}
    /\ thread' = [thread EXCEPT ![t] = PushDone(t)]
    /\ UNCHANGED <<obj, map, pmap, daemon, counts>>

\* block_and_backoff: the page of the copy object is busy.
Backoff(t) ==
    /\ At(t, "push")
    /\ LET o == First(t)
           c == obj[o].copy
       IN /\ c /= None /\ obj[c].page \in Busy
          /\ obj' = [obj EXCEPT ![o].page = "here", ![o].pip = @ - 1]
          /\ thread' = [Wake(thread, o) EXCEPT ![t].pc = "backoff", ![t].cur = c]
    /\ UNCHANGED <<map, pmap, daemon, counts>>

Again(t) ==
    /\ At(t, "again")
    /\ obj' = Deallocate(obj, First(t))
    /\ thread' = [thread EXCEPT ![t] = NewThread]
    /\ UNCHANGED <<map, pmap, daemon, counts>>

\* Mutant: faults that wait for the page are not restarted.
Push_NoRestart(t) ==
    /\ At(t, "push") /\ InTime(t)
    /\ LET o == First(t)
           c == obj[o].copy
       IN /\ c /= None /\ obj[c].page = "none" /\ ~obj[c].pager
          /\ obj' = [obj EXCEPT ![c].page = "here", ![c].data = obj[o].data]
          /\ pmap' = Unmap(pmap, o)
          /\ thread' = [thread EXCEPT ![t] = PushDone(t)]
    /\ UNCHANGED <<map, daemon, counts>>

\* "Because we're pushing a page upward in the object tree, we must restart
\* any faults that are waiting here."
Push(t) ==
    /\ At(t, "push") /\ InTime(t)
    /\ LET o == First(t)
           c == obj[o].copy
       IN /\ c /= None /\ obj[c].page = "none" /\ ~obj[c].pager
          /\ obj' = [obj EXCEPT ![c].page = "here", ![c].data = obj[o].data]
          /\ pmap' = Unmap(pmap, o)
          /\ thread' = [Restart(thread, o) EXCEPT ![t] = PushDone(t)]
    /\ UNCHANGED <<map, daemon, counts>>

\* The copy object has a pager: vm_pageout_page writes the copy at once, while
\* nothing is locked.
PushOut(t) ==
    /\ At(t, "push") /\ InTime(t)
    /\ LET o == First(t)
           c == obj[o].copy
       IN /\ c /= None /\ obj[c].page = "none" /\ obj[c].pager
          /\ obj' = [obj EXCEPT ![c].ref = @ + 1, ![c].pip = @ + 1, ![c].page = "held"]
          /\ pmap' = Unmap(pmap, o)
          /\ thread' = [thread EXCEPT ![t].pc = "pushed", ![t].copy = c, ![t].data = obj[o].data]
    /\ UNCHANGED <<map, daemon, counts>>

\* The pager does not take an initial content for a page that it has.
Initialized(o, v) == IF obj[o].stored = None THEN v ELSE obj[o].stored

Pushed(t) ==
    /\ At(t, "pushed") /\ InTime(t)
    /\ LET o == First(t)
           c == thread[t].copy
           sent == [obj EXCEPT ![c].stored = Initialized(c, thread[t].data),
                               ![c].page = "none", ![c].pip = @ - 1]
           woken == Wake(thread, c)
           hard == sent[c].shadow /= o \/ sent[c].ref = 1
       IN /\ obj' = Deallocate(sent, c)
          /\ thread' = IF hard
                       THEN [woken EXCEPT ![t].pc = "push", ![t].copy = None, ![t].data = 0]
                       ELSE [Restart(woken, o) EXCEPT ![t] = [PushDone(t) EXCEPT !.data = 0]]
    /\ UNCHANGED <<map, pmap, daemon, counts>>

\* The page is given back, and with it the placeholder and the reference.
Ended(os, t) == Deallocate(Cleanup([os EXCEPT ![Cur(t)].page = "here"], t), First(t))
WakeAll(t) == WakeTop(Wake(thread, Cur(t)), t)

\* vm_fault when the map has changed: it looks at the entry again, but does
\* not ask for write permission.
Relookup(t) ==
    /\ At(t, "verify")
    /\ thread[t].stale
    /\ LET e == map[thread[t].m]
       IN IF e.live /\ e.object = First(t)
          THEN /\ thread' = [thread EXCEPT ![t].stale = FALSE, ![t].grant = @ /\ ~e.needs_copy]
               /\ UNCHANGED obj
          ELSE /\ obj' = Ended(obj, t)
               /\ thread' = [WakeAll(t) EXCEPT ![t] = NewThread]
    /\ UNCHANGED <<map, pmap, daemon, counts>>

\* "If the copy object changed while the top-level object was unlocked, then
\* we must take away write permission."
Granted(t) == thread[t].grant /\ obj[Cur(t)].copy = thread[t].copy

\* The map is verified, and stays locked for reading.
Verify(t) ==
    /\ At(t, "verify")
    /\ ~thread[t].stale
    /\ thread' = [thread EXCEPT ![t].pc = "enter",
                                ![t].grant = IF Multiprocessor THEN Granted(t) ELSE @]
    /\ UNCHANGED <<obj, map, pmap, daemon, counts>>

\* PMAP_ENTER, and the end of the fault.  On a multiprocessor others may run
\* since the copy object was looked at, for the object is unlocked again.
Enter(t) ==
    /\ At(t, "enter")
    /\ pmap' = [pmap EXCEPT ![thread[t].m] =
          [o |-> Cur(t), write |-> IF Multiprocessor THEN thread[t].grant ELSE Granted(t)]]
    /\ obj' = Ended(obj, t)
    /\ thread' = [WakeAll(t) EXCEPT ![t] = NewThread]
    /\ UNCHANGED <<map, daemon, counts>>

-----------------------------------------------------------------------------
(* Maps, tasks and pagers.                                                 *)

\* A task writes through its mapping.
Write(m) ==
    /\ pmap[m].write
    /\ writes < MaxWrites
    /\ writes' = writes + 1
    /\ obj' = [obj EXCEPT ![pmap[m].o].data = writes + 1]
    /\ UNCHANGED <<map, pmap, thread, daemon, forks, pageouts>>

\* The map of a new task.  The name of a map is used again when it is gone.
Born(n) ==
    /\ ~map[n].live /\ \A t \in Threads : thread[t].m /= n
    /\ forks < MaxForks /\ forks' = forks + 1
NewPmap(n) == [pmap EXCEPT ![n] = Unmapped]

\* vm_map_fork of an entry that is inherited shared.
ForkShare(m, n) ==
    /\ map[m].live /\ Born(n)
    /\ Writable(m)
    /\ LET e == map[m]
           shadow == e.object /= None /\ (e.needs_copy \/ obj[e.object].shadowed)
           new == e.object = None \/ shadow
           o == IF new THEN Fresh(obj) ELSE e.object
           made == CASE shadow -> Shadowed(obj, e.object)
                     [] e.object = None -> [obj EXCEPT ![o] = NewObject]
                     [] OTHER -> obj
           entry == [e EXCEPT !.object = o, !.needs_copy = FALSE, !.is_shared = TRUE]
       IN /\ new => Unused(obj) /= {}
          /\ obj' = [made EXCEPT ![o].shared = TRUE, ![o].ref = @ + 1]
          /\ map' = [map EXCEPT ![m] = entry, ![n] = entry]
          /\ pmap' = ReadOnly(NewPmap(n), IF shadow /\ ~e.needs_copy THEN {m} ELSE {})
    /\ thread' = Stale(thread, m)
    /\ UNCHANGED <<daemon, writes, pageouts>>

\* vm_map_fork of an entry that is inherited as a copy, with
\* vm_object_copy_temporary.
ForkCopy(m, n) ==
    /\ map[m].live /\ Born(n)
    /\ Writable(m)
    /\ LET e == map[m]
           o == e.object
       IN CASE o = None ->
                 /\ map' = [map EXCEPT ![n] = [e EXCEPT !.is_shared = FALSE]]
                 /\ pmap' = NewPmap(n)
                 /\ UNCHANGED obj
            [] o /= None /\ obj[o].shared ->
                 /\ CanReuse(obj, o) \/ Unused(obj) /= {}
                 /\ obj' = CopyDelayed(obj, o)
                 /\ map' = [map EXCEPT ![n] = [e EXCEPT !.object = obj'[o].copy, !.needs_copy = TRUE,
                                                        !.is_shared = FALSE]]
                 /\ pmap' = ReadOnly(NewPmap(n), IF CanReuse(obj, o) THEN {} ELSE MappersOf(o))
            [] o /= None /\ ~obj[o].shared ->
                 /\ obj' = [obj EXCEPT ![o].ref = @ + 1, ![o].shadowed = TRUE]
                 /\ map' = [map EXCEPT ![m].needs_copy = TRUE,
                                       ![n] = [e EXCEPT !.needs_copy = TRUE, !.is_shared = FALSE]]
                 /\ pmap' = ReadOnly(NewPmap(n), CASE e.needs_copy -> {}
                                                    [] ~e.needs_copy /\ e.is_shared -> MappersOf(o)
                                                    [] OTHER -> {m})
    /\ thread' = Stale(thread, m)
    /\ UNCHANGED <<daemon, writes, pageouts>>

\* vm_map_entry_delete: "we must remove *all* references to this data, since
\* we can't find all of the physical maps which are sharing it".
Delete(m) ==
    /\ map[m].live
    /\ Writable(m)
    /\ LET e == map[m] IN
       /\ map' = [map EXCEPT ![m] = NoEntry]
       /\ obj' = IF e.object = None THEN obj ELSE Deallocate(obj, e.object)
       /\ pmap' = CASE e.object = None -> pmap
                    [] e.object /= None /\ e.is_shared -> Unmap(pmap, e.object)
                    [] OTHER -> [pmap EXCEPT ![m] = Unmapped]
    /\ thread' = Stale(thread, m)
    /\ UNCHANGED <<daemon, counts>>

\* The end of vm_object_terminate that had to wait until no paging was in
\* progress.
Terminate(o) ==
    /\ obj[o].used /\ obj[o].ref = 0 /\ obj[o].pip = 0
    /\ LET s == Shadow(obj, o)
           freed == [obj EXCEPT ![o] = NoObject]
       IN obj' = IF s = None THEN freed ELSE Deallocate(freed, s)
    /\ thread' = Wake(thread, o)
    /\ UNCHANGED <<map, pmap, daemon, counts>>

\* The default pager answers a request: memory_object_data_supply, or
\* memory_object_data_unavailable.
Answer(o) ==
    /\ obj[o].page = "wanted"
    /\ obj' = IF obj[o].stored /= None
              THEN [obj EXCEPT ![o].page = "here", ![o].data = obj[o].stored]
              ELSE [obj EXCEPT ![o].page = "absent"]
    /\ thread' = Wake(thread, o)
    /\ UNCHANGED <<map, pmap, daemon, counts>>

\* vm_pageout_scan takes a page, and tries to collapse its object before it
\* makes a pager for it.
Scan(o) ==
    /\ pageouts < MaxPageOuts /\ Actors < MaxActors /\ pageouts' = pageouts + 1
    /\ daemon.pc = "idle"
    /\ obj[o].page = "here" /\ obj[o].ref > 0
    /\ LET taken == [obj EXCEPT ![o].page = "busy"]
           s == Collapse(taken, Unmap(pmap, o), o)
       IN /\ obj' = [s.obj EXCEPT ![o].pager = TRUE, ![o].pip = @ + 1]
          /\ pmap' = s.pmap
          /\ daemon' = [daemon EXCEPT !.pc = IF s.obj[o].pager THEN "page" ELSE "create", !.o = o]
    /\ UNCHANGED <<map, thread, writes, forks>>

\* vm_object_pager_create is done.
PagerCreated ==
    /\ daemon.pc = "create"
    /\ daemon' = [daemon EXCEPT !.pc = "page"]
    /\ UNCHANGED <<obj, map, pmap, thread, counts>>

\* vm_pageout_setup leaves a placeholder in the object.
PageOut ==
    /\ daemon.pc = "page"
    /\ LET o == daemon.o IN
       /\ obj' = [obj EXCEPT ![o].page = "held", ![o].data = 0]
       /\ thread' = Wake(thread, o)
       /\ daemon' = [daemon EXCEPT !.pc = "send", !.data = obj[o].data]
    /\ UNCHANGED <<map, pmap, counts>>

PagedOut ==
    /\ daemon.pc = "send"
    /\ LET o == daemon.o IN
       /\ obj' = [obj EXCEPT ![o].page = "none", ![o].pip = @ - 1, ![o].stored = daemon.data]
       /\ thread' = Wake(thread, o)
       /\ daemon' = [pc |-> "idle", o |-> None, data |-> 0]
    /\ UNCHANGED <<map, pmap, counts>>

\* Another page of the object has been paged out.
OtherPage(o) ==
    /\ pageouts < MaxPageOuts /\ Actors < MaxActors /\ pageouts' = pageouts + 1
    /\ obj[o].ref > 0 /\ obj[o].pip = 0 /\ ~obj[o].pager
    /\ obj' = [obj EXCEPT ![o].pager = TRUE]
    /\ UNCHANGED <<map, pmap, thread, daemon, writes, forks>>

-----------------------------------------------------------------------------
Step(t) ==
    \/ Look(t) \/ Restarted(t) \/ CopyUp(t)
    \/ NeedNotPush(t) \/ Backoff(t) \/ Again(t) \/ Push(t) \/ PushOut(t) \/ Pushed(t)
    \/ Relookup(t) \/ Verify(t) \/ Enter(t)

Paging == \/ PagerCreated \/ PageOut \/ PagedOut
          \/ \E o \in Objects : Answer(o) \/ Terminate(o)

\* On a uniprocessor a thread that has copied a page goes on until it has
\* inserted the copy.
Uninterrupted == Multiprocessor \/ \A t \in Threads : ~At(t, "insert")

Next ==
    \/ \E t \in Threads : Insert(t)
    \/ /\ Uninterrupted
       /\ \/ \E t \in Threads : Step(t) \/ \E m \in Maps, write \in BOOLEAN : Lookup(t, m, write)
          \/ Paging
          \/ \E m \in Maps : \/ Write(m) \/ Delete(m)
                             \/ \E n \in Maps : ForkShare(m, n) \/ ForkCopy(m, n)
          \/ \E o \in Objects : Scan(o) \/ OtherPage(o)

Spec == Init /\ [][Next]_vars

-----------------------------------------------------------------------------
(* Properties.                                                             *)

InFault(t) == thread[t].pc /= "idle"
PageHeld(t) == thread[t].pc \in {"copy", "push", "pushed", "verify", "enter"}
Seeks(t) == thread[t].pc \in {"look", "sleep", "restarted", "copy", "verify", "enter", "insert",
                              "push", "pushed"}
Count(S) == Cardinality(S)

(* The references of an object are those of maps, of objects above it and  *)
(* of faults, and so are its paging references: nothing else keeps the     *)
(* object, or keeps it from being collapsed, while it is not locked.       *)
CountsExact ==
    \A o \in Objects : obj[o].used =>
       LET first == Count({t \in Threads : First(t) = o /\ InFault(t)})
           seeking == Count({t \in Threads : First(t) = o /\ Seeks(t)})
           below == Count({t \in Threads : Cur(t) = o /\ First(t) /= o /\ Seeks(t)})
           pushed == Count({t \in Threads : thread[t].copy = o /\ At(t, "pushed")})
       IN /\ obj[o].ref = Count({m \in Maps : map[m].object = o})
                          + Count({x \in Objects : obj[x].shadow = o}) + first + pushed
          /\ obj[o].pip = seeking + below + pushed + (IF daemon.o = o THEN 1 ELSE 0)

(* "We must either have the object lock or a busy page": a busy page is    *)
(* that of exactly one fault, of the pageout daemon or of a pager, and no  *)
(* thread sleeps for a page that nobody has.                               *)
HoldersOf(o) ==
    {t \in Threads : \/ PageHeld(t) /\ Cur(t) = o
                     \/ thread[t].top /\ First(t) = o
                     \/ thread[t].pc = "pushed" /\ thread[t].copy = o}

BusyHasHolder ==
    /\ \A o \in Objects : obj[o].used =>
          Count(HoldersOf(o)) + (IF daemon.o = o THEN 1 ELSE 0)
             = (IF obj[o].page \in {"held", "busy"} THEN 1 ELSE 0)
    /\ \A t \in Threads : thread[t].pc \in {"sleep", "backoff"} => obj[Cur(t)].page \in Busy

(* The assertions and panics of the code, and no map has a page that is    *)
(* gone from its object.                                                   *)
NoPanic ==
    /\ \A o \in Objects : obj[o].used =>
          /\ obj[o].page \in {"held", "busy"} => obj[o].pip > 0
          /\ obj[o].ref = 0 /\ obj[o].pip = 0 => obj[o].page \notin {"held", "busy"}
          /\ obj[o].ref > 0 /\ obj[o].shadow /= None => obj[obj[o].shadow].copy \in {None, o}
          /\ obj[o].copy /= None => obj[obj[o].copy].ref > 0 /\ obj[obj[o].copy].shadow = o
    /\ \A m \in Maps : map[m].live =>
          /\ pmap[m].o /= None => obj[pmap[m].o].page \in Real
          /\ map[m].is_shared => ~obj[map[m].object].shadowed /\ ~map[m].needs_copy

(* What a deleted entry had mapped is no longer mapped: "If the object is  *)
(* shared, we must remove *all* references to this data".                  *)
DeletedIsUnmapped == \A m \in Maps : ~map[m].live => pmap[m].o = None

(* The maps as a CowMemory: what a task reads, through its mapping or when *)
(* it faults, is what was last written by a map that shares the page with  *)
(* its own, whatever faults, forks, collapses and pageouts are under way.  *)
InTransit(o) ==
    IF daemon.pc = "send" /\ daemon.o = o THEN {daemon.data}
    ELSE {Initialized(o, thread[t].data) : t \in {u \in Threads : thread[u].pc = "pushed"
                                                                  /\ thread[u].copy = o}}

Contents(o) ==
    IF obj[o].page \in Real THEN {obj[o].data}
    ELSE IF obj[o].page = "held" /\ InTransit(o) /= {} THEN InTransit(o)
    ELSE IF obj[o].stored = None THEN {} ELSE {obj[o].stored}

Content(o) ==
    LET content[x \in Objects] ==
           LET here == Contents(x) IN
           IF here /= {} THEN CHOOSE v \in here : TRUE
           ELSE IF Shadow(obj, x) = None THEN 0 ELSE content[Shadow(obj, x)]
    IN content[o]

Reads(m) ==
    CASE ~map[m].live -> 0
      [] map[m].live /\ pmap[m].o /= None -> obj[pmap[m].o].data
      [] map[m].live /\ pmap[m].o = None ->
            IF map[m].object = None THEN 0 ELSE Content(map[m].object)

Sharing(m) ==
    IF ~map[m].live THEN {}
    ELSE {m} \cup {n \in Maps : /\ map[n].live /\ map[n].object = map[m].object
                                /\ map[m].is_shared /\ map[n].is_shared}

Memory == INSTANCE CowMemory WITH
    live <- {m \in Maps : map[m].live},
    value <- [m \in Maps |-> Reads(m)],
    sharing <- [m \in Maps |-> Sharing(m)]
Implements == Memory!Spec
=============================================================================
