--------------------------- MODULE CThreadsProofs ---------------------------
(***************************************************************************)
(* Proofs about CThreads for any sets of cprocs, kernel threads, mutexes   *)
(* and conditions: first mutexes, then where cprocs are.                   *)
(***************************************************************************)
EXTENDS CThreads, FiniteSetTheorems, TLAPS

LEMMA Names ==
    /\ \A x \in {"none", "user", "solid", "try", "retry", "block", "keep", "switch",
                 "getwaiter", "idle", "startwait", "unwait", "unwaiter", "wired",
                 "ready", "enqueue", "send", "unlock", "unlock_solid", "unlock_deq",
                 "wait_unlock", "wait_block", "receive", "woken", "resume", "leave",
                 "leaving"} : x \in PCs
    /\ \A x \in {"none", "unlock", "wait", "block", "wake", "yield"} : x \in Calls
  BY DEF PCs, Calls

LEMMA StackIs ==
    /\ Cprocs \subseteq Stacks /\ Waiters \subseteq Stacks /\ None \notin Stacks
    /\ \A p \in Cprocs : p \notin Waiters
  BY CThreadsAssumption DEF Stacks

\* Stack s goes on at l.
Moves(s, l) ==
    /\ stack' \in [Stacks -> StackRecords]
    /\ \A r \in Stacks \ {s} : stack'[r] = stack[r]
    /\ stack'[s].pc = l

LEMMA Record ==
    ASSUME NEW r \in StackRecords
    PROVE  /\ r \in StackFields
           /\ r = [pc |-> r.pc, call |-> r.call, mutex |-> r.mutex, queued |-> r.queued,
                   waiter |-> r.waiter, hand |-> r.hand]
           /\ r.pc \in PCs /\ r.call \in Calls /\ r.mutex \in Mutexes \cup {None}
           /\ r.queued \in BOOLEAN /\ r.waiter \in Waiters \cup {None} /\ r.hand \in Seq(Cprocs)
           /\ NeedsMutex(r.pc, r.call) => r.mutex \in Mutexes
           /\ r.pc \in {"ready", "enqueue", "keep"} => r.hand /= <<>>
           /\ r.pc \in NeedsWaiter => r.waiter \in Waiters
  BY DEF StackRecords, StackFields

LEMMA NewRecord ==
    ASSUME NEW pc \in PCs, NEW call \in Calls, NEW m \in Mutexes \cup {None}, NEW queued \in BOOLEAN,
           NEW w \in Waiters \cup {None}, NEW hand \in Seq(Cprocs),
           NeedsMutex(pc, call) => m \in Mutexes,
           pc \in {"ready", "enqueue", "keep"} => hand /= <<>>,
           pc \in NeedsWaiter => w \in Waiters
    PROVE  [pc |-> pc, call |-> call, mutex |-> m, queued |-> queued, waiter |-> w, hand |-> hand]
              \in StackRecords
  BY DEF StackRecords, StackFields

LEMMA WithMutex ==
    ASSUME NEW pc, NEW call, NEW m, NEW queued, NEW w, NEW hand, NEW x
    PROVE  [[pc |-> pc, call |-> call, mutex |-> m, queued |-> queued, waiter |-> w, hand |-> hand]
               EXCEPT !.mutex = x]
             = [pc |-> pc, call |-> call, mutex |-> x, queued |-> queued, waiter |-> w, hand |-> hand]
  OBVIOUS

LEMMA Goes ==
    ASSUME stack \in [Stacks -> StackRecords], NEW s \in Stacks, NEW l \in PCs, Goto(s, l),
           NeedsMutex(l, stack[s].call) => stack[s].mutex \in Mutexes,
           l \in {"ready", "enqueue", "keep"} => stack[s].hand /= <<>>,
           l \in NeedsWaiter => stack[s].waiter \in Waiters
    PROVE  Moves(s, l) /\ stack'[s].mutex = stack[s].mutex
  <1> DEFINE r == stack[s]
             n == [pc |-> l, call |-> r.call, mutex |-> r.mutex, queued |-> r.queued,
                   waiter |-> r.waiter, hand |-> r.hand]
  <1>1. n \in StackRecords
    BY Record, NewRecord
  <1>2. [r EXCEPT !.pc = l] = n
    BY Record
  <1>3. stack' = [stack EXCEPT ![s] = n]
    BY <1>2 DEF Goto
  <1> QED BY <1>1, <1>3 DEF Moves

LEMMA Returns ==
    ASSUME stack \in [Stacks -> StackRecords], NEW s \in Stacks, NEW l \in PCs, Return(s, l),
           l \notin {"ready", "enqueue", "keep", "switch"} \cup NeedsWaiter,
           NeedsMutex(l, "none") => stack[s].mutex \in Mutexes
    PROVE  Moves(s, l) /\ (l /= "user" => stack'[s].mutex = stack[s].mutex)
  <1> DEFINE m == IF l = "user" THEN None ELSE stack[s].mutex
             n == [pc |-> l, call |-> "none", mutex |-> m, queued |-> FALSE,
                   waiter |-> None, hand |-> <<>>]
  <1>1. m \in Mutexes \cup {None}
    BY Record
  <1>2. "none" \in Calls /\ ~NeedsMutex("user", "none")
    BY Names DEF NeedsMutex
  <1>3. NeedsMutex(l, "none") => m \in Mutexes
    BY <1>2
  <1>4. n \in StackRecords
    <2>1. FALSE \in BOOLEAN /\ None \in Waiters \cup {None} /\ <<>> \in Seq(Cprocs)
      OBVIOUS
    <2> HIDE DEF m
    <2> QED BY <1>1, <1>2, <1>3, <2>1, NewRecord
  <1>5. [NewStack(l) EXCEPT !.mutex = m] = n
    <2> DEFINE no == FALSE
    <2>1. NewStack(l) = [pc |-> l, call |-> "none", mutex |-> None, queued |-> no,
                         waiter |-> None, hand |-> <<>>]
      BY DEF NewStack
    <2>2. n = [pc |-> l, call |-> "none", mutex |-> m, queued |-> no, waiter |-> None, hand |-> <<>>]
      OBVIOUS
    <2> HIDE DEF m, n, no
    <2> QED BY <2>1, <2>2, WithMutex
  <1>6. stack' = [stack EXCEPT ![s] = n]
    BY <1>5 DEF Return
  <1> QED BY <1>4, <1>6 DEF Moves

\* After cproc_ready.
LEMMA GoesOn ==
    ASSUME stack \in [Stacks -> StackRecords], NEW s \in Stacks,
           stack[s].pc \in {"ready", "enqueue", "send", "unlock", "unlock_solid", "unlock_deq"},
           Return(s, AfterReady(stack[s].call))
    PROVE  \E l \in {"user", "retry", "wait_block"} : Moves(s, l)
  <1> DEFINE l == AfterReady(stack[s].call)
  <1>1. l \in {"user", "retry", "wait_block"} /\ (l /= "user" => stack[s].call \in {"block", "wait"})
    BY DEF AfterReady
  <1>2. l \in PCs /\ l \notin {"ready", "enqueue", "keep", "switch"} \cup NeedsWaiter
    BY <1>1, Names DEF NeedsWaiter
  <1>3. NeedsMutex(l, "none") => stack[s].mutex \in Mutexes
    BY <1>1, Record DEF NeedsMutex
  <1> QED BY <1>1, <1>2, <1>3, Returns

LEMMA Readies ==
    ASSUME stack \in [Stacks -> StackRecords], NEW s \in Stacks, NEW rest \in Seq(Cprocs),
           stack[s].pc \in {"ready", "enqueue", "send"},
           Readied(s, rest)
    PROVE  \E l \in {"ready", "user", "retry", "wait_block"} : Moves(s, l)
  <1>1. CASE rest = <<>>
    BY <1>1, GoesOn DEF Readied
  <1>2. CASE rest /= <<>>
    <2> DEFINE r == stack[s]
               n == [pc |-> "ready", call |-> r.call, mutex |-> r.mutex, queued |-> r.queued,
                     waiter |-> r.waiter, hand |-> rest]
    <2>1. NeedsMutex("ready", r.call) => r.mutex \in Mutexes
      BY Record DEF NeedsMutex
    <2>2. n \in StackRecords
      BY <1>2, <2>1, Record, NewRecord, Names DEF NeedsWaiter
    <2> DEFINE h == [pc |-> r.pc, call |-> r.call, mutex |-> r.mutex, queued |-> r.queued,
                     waiter |-> r.waiter, hand |-> rest]
    <2>3. [r EXCEPT !.hand = rest] = h
      BY Record
    <2>4. [h EXCEPT !.pc = "ready"] = n
      OBVIOUS
    <2>5. [[stack EXCEPT ![s].hand = rest] EXCEPT ![s].pc = "ready"] = [stack EXCEPT ![s] = n]
      BY <2>3, <2>4
    <2>6. stack' = [stack EXCEPT ![s] = n]
      BY <1>2, <2>5 DEF Readied
    <2> QED BY <2>2, <2>6 DEF Moves
  <1> QED BY <1>1, <1>2

\* What leaves mutexes alone.
LEMMA Elsewhere ==
    ASSUME MutexInv, MutexTypes', UNCHANGED <<mutex, holder>>,
           \A s \in Stacks : stack'[s].pc \in {"try", "unlock_deq", "wait_unlock"} => stack'[s] = stack[s]
    PROVE  MutexInv'
  BY DEF MutexInv, OneTrier, OneUnlocker, WaitersHold, LockedMutexIsHeld

\* The same, when one stack moves.
LEMMA MovesElsewhere ==
    ASSUME MutexInv, NEW s \in Stacks, NEW l \in PCs \ {"try", "unlock_deq", "wait_unlock"}, Moves(s, l),
           UNCHANGED <<mutex, holder>>, condition' \in [Conditions -> Seq(Cprocs)],
           ready' \in Seq(Cprocs), waiters' \in Seq(Waiters)
    PROVE  MutexInv'
  <1>1. MutexTypes'
    BY DEF MutexInv, MutexTypes, Moves
  <1>2. \A r \in Stacks : stack'[r].pc \in {"try", "unlock_deq", "wait_unlock"} => stack'[r] = stack[r]
    BY DEF Moves
  <1> QED BY <1>1, <1>2, Elsewhere

(* EXCEPT with several fields of one stack.                                *)
LEMMA SetPcMutex ==
    ASSUME stack \in [Stacks -> StackRecords], NEW s \in Stacks, NEW a, NEW m
    PROVE  [stack EXCEPT ![s].pc = a, ![s].mutex = m]
             = [stack EXCEPT ![s] =
                [pc |-> a, call |-> stack[s].call, mutex |-> m, queued |-> stack[s].queued,
                 waiter |-> stack[s].waiter, hand |-> stack[s].hand]]
  <1> DEFINE r == stack[s]
             r1 == [pc |-> a, call |-> r.call, mutex |-> r.mutex, queued |-> r.queued,
                   waiter |-> r.waiter, hand |-> r.hand]
             r2 == [pc |-> a, call |-> r.call, mutex |-> m, queued |-> r.queued,
                   waiter |-> r.waiter, hand |-> r.hand]
  <1>1. [r EXCEPT !.pc = a] = r1
    BY Record
  <1>2. [r1 EXCEPT !.mutex = m] = r2
    OBVIOUS
  <1> HIDE DEF r1, r2
  <1>3. [stack EXCEPT ![s].pc = a] = [stack EXCEPT ![s] = r1]
    BY <1>1
  <1>4. [[stack EXCEPT ![s] = r1] EXCEPT ![s].mutex = m] = [stack EXCEPT ![s] = r2]
    BY <1>2
  <1> QED BY <1>3, <1>4 DEF r2

\* StartBlock, in mutex_lock_solid and in condition_wait.
LEMMA Blocks ==
    ASSUME stack \in [Stacks -> StackRecords], NEW s \in Stacks, StartBlock(s),
           stack[s].mutex \in Mutexes
    PROVE  \E l \in {"wired", "block"} : Moves(s, l)
  <1> DEFINE no == FALSE
             l == IF wired[s] THEN "wired" ELSE "block"
             b == "block"
             n == [stack[s] EXCEPT !.pc = l, !.call = b, !.queued = no]
  <1>1. l \in PCs /\ b \in Calls /\ l \in {"wired", "block"} /\ no \in BOOLEAN
    BY Names
  <1>2. stack' = [stack EXCEPT ![s].pc = l, ![s].call = b, ![s].queued = no]
    BY DEF StartBlock
  <1>3. l \notin {"ready", "enqueue", "keep"} \cup NeedsWaiter
    BY DEF NeedsWaiter
  <1> HIDE DEF no, l, b
  <1>4. stack' = [stack EXCEPT ![s] = n]
    BY <1>2
  <1>5. n \in StackFields /\ n.pc = l /\ n.mutex = stack[s].mutex
    <2>1. stack[s] \in StackFields
      BY Record
    <2> QED BY <1>1, <2>1 DEF StackFields
  <1>6. n \in StackRecords
    BY <1>3, <1>5 DEF StackRecords
  <1> HIDE DEF n
  <1> QED BY <1>1, <1>4, <1>5, <1>6 DEF Moves

\* spin_try_lock(&m->held) succeeds in a call that locks the mutex.
LEMMA Takes ==
    ASSUME MutexInv, NEW p \in Cprocs, NEW m \in Mutexes, Take(p, m), ~mutex[m].held,
           mutex' \in [Mutexes -> [held: BOOLEAN, lock: BOOLEAN, queue: Seq(Cprocs)]],
           mutex'[m].held,
           \A x \in Mutexes \ {m} : mutex'[x] = mutex[x],
           \A s \in Stacks \ {p} : stack[s].pc = "try" /\ stack[s].mutex = m =>
              mutex'[m].lock = mutex[m].lock /\ mutex'[m].queue = mutex[m].queue,
           UNCHANGED <<condition, ready, waiters>>
    PROVE  MutexInv'
  <1>1. Moves(p, "user") /\ p \in Stacks
    <2>1. "user" \in PCs /\ "user" \notin {"ready", "enqueue", "keep", "switch"} \cup NeedsWaiter
          /\ ~NeedsMutex("user", "none")
      BY Names DEF NeedsWaiter, NeedsMutex
    <2> QED BY <2>1, Returns, StackIs DEF MutexInv, MutexTypes, Take
  <1>2. holder' = [holder EXCEPT ![m] = p] /\ holder' \in [Mutexes -> Cprocs \cup {None}]
    BY DEF Take, MutexInv, MutexTypes
  <1>3. MutexTypes'
    BY <1>1, <1>2 DEF MutexInv, MutexTypes, Moves
  <1>4. \A s \in Stacks : stack'[s].pc /= "user" => s /= p /\ stack'[s] = stack[s]
    BY <1>1 DEF Moves
  <1>5. \A s \in Stacks : stack[s].pc \in {"try", "unlock_deq", "wait_unlock"} => stack[s].mutex \in Mutexes
    BY Record DEF MutexInv, MutexTypes, NeedsMutex
  <1>6. OneTrier'
    <2> SUFFICES ASSUME NEW s \in Stacks, stack'[s].pc = "try"
                 PROVE  /\ mutex'[stack'[s].mutex].lock
                        /\ stack'[s].queued => mutex'[stack'[s].mutex].queue /= <<>>
                        /\ \A r \in Stacks : stack'[r].pc = "try" /\ stack'[r].mutex = stack'[s].mutex => r = s
      BY DEF OneTrier
    <2>1. s /= p /\ stack'[s] = stack[s] /\ stack[s].mutex \in Mutexes
      BY <1>4, <1>5
    <2>2. mutex'[stack[s].mutex].lock = mutex[stack[s].mutex].lock
          /\ mutex'[stack[s].mutex].queue = mutex[stack[s].mutex].queue
      BY <2>1
    <2> QED BY <1>4, <2>1, <2>2 DEF MutexInv, OneTrier
  <1>7. OneUnlocker'
    <2> SUFFICES ASSUME NEW s \in Stacks, stack'[s].pc = "unlock_deq"
                 PROVE  /\ mutex'[stack'[s].mutex].held
                        /\ holder'[stack'[s].mutex] = None
                        /\ \A r \in Stacks : stack'[r].pc = "unlock_deq" /\ stack'[r].mutex = stack'[s].mutex => r = s
      BY DEF OneUnlocker
    <2>1. s /= p /\ stack'[s] = stack[s] /\ stack[s].mutex \in Mutexes
      BY <1>4, <1>5
    <2>2. mutex[stack[s].mutex].held /\ holder[stack[s].mutex] = None
          /\ \A r \in Stacks : stack[r].pc = "unlock_deq" /\ stack[r].mutex = stack[s].mutex => r = s
      BY <2>1 DEF MutexInv, OneUnlocker
    <2>3. stack[s].mutex /= m
      BY <2>2
    <2> QED BY <1>2, <1>4, <2>1, <2>2, <2>3, ZenonT(60) DEF MutexInv, MutexTypes
  <1>8. WaitersHold'
    <2> SUFFICES ASSUME NEW s \in Stacks, stack'[s].pc = "wait_unlock"
                 PROVE  holder'[stack'[s].mutex] = s
      BY DEF WaitersHold
    <2>1. stack'[s] = stack[s] /\ stack[s].mutex \in Mutexes
      BY <1>4, <1>5
    <2>2. holder[stack[s].mutex] = s /\ s /= None
      BY <2>1, StackIs DEF MutexInv, WaitersHold
    <2>3. stack[s].mutex /= m
      BY <2>1, <2>2 DEF MutexInv, LockedMutexIsHeld
    <2> QED BY <1>2, <2>1, <2>2, <2>3 DEF MutexInv, MutexTypes
  <1>9. LockedMutexIsHeld'
    BY <1>2 DEF MutexInv, MutexTypes, LockedMutexIsHeld
  <1> QED BY <1>3, <1>6, <1>7, <1>8, <1>9 DEF MutexInv

\* The owner releases the mutex.
LEMMA Releases ==
    ASSUME MutexInv, NEW p \in Cprocs, NEW m \in Mutexes, NEW call \in {"unlock", "wait"},
           holder[m] = p, Release(p, m, call), UNCHANGED <<condition, ready, waiters>>
    PROVE  MutexInv'
  <1>1. p \in Stacks /\ p /= None
    BY StackIs
  <1>2. Moves(p, "unlock")
    <2> DEFINE l == "unlock"
               n == [stack[p] EXCEPT !.pc = l, !.call = call, !.mutex = m]
    <2>1. stack \in [Stacks -> StackRecords] /\ l \in PCs /\ call \in Calls
      BY Names DEF MutexInv, MutexTypes
    <2>2. stack' = [stack EXCEPT ![p].pc = l, ![p].call = call, ![p].mutex = m]
      BY DEF Release
    <2>3. l \notin {"ready", "enqueue", "keep"} \cup NeedsWaiter
      BY DEF NeedsWaiter
    <2> HIDE DEF l
    <2>4. stack' = [stack EXCEPT ![p] = n]
      BY <1>1, <2>1, <2>2
    <2>5. n \in StackFields /\ n.pc = l /\ n.mutex = m
      <3>1. stack[p] \in StackFields
        BY <1>1, <2>1, Record
      <3> QED BY <2>1, <3>1 DEF StackFields
    <2>6. n \in StackRecords
      BY <2>3, <2>5 DEF StackRecords
    <2> HIDE DEF n
    <2>7. Moves(p, l)
      BY <1>1, <2>1, <2>4, <2>5, <2>6 DEF Moves
    <2> QED BY <2>7 DEF l
  <1>3. /\ holder' = [holder EXCEPT ![m] = None]
        /\ \A x \in Mutexes : /\ mutex'[x].lock = mutex[x].lock /\ mutex'[x].queue = mutex[x].queue
                              /\ x /= m => mutex'[x] = mutex[x]
        /\ mutex' \in [Mutexes -> [held: BOOLEAN, lock: BOOLEAN, queue: Seq(Cprocs)]]
    BY DEF Release, MutexInv, MutexTypes
  <1>4. MutexTypes'
    BY <1>2, <1>3 DEF MutexInv, MutexTypes, Moves
  <1>5. \A s \in Stacks : stack'[s].pc /= "unlock" => s /= p /\ stack'[s] = stack[s]
    BY <1>2 DEF Moves
  <1>6. \A s \in Stacks : stack[s].pc \in {"try", "unlock_deq", "wait_unlock"} => stack[s].mutex \in Mutexes
    BY Record DEF MutexInv, MutexTypes, NeedsMutex
  <1>7. OneTrier'
    <2> SUFFICES ASSUME NEW s \in Stacks, stack'[s].pc = "try"
                 PROVE  /\ mutex'[stack'[s].mutex].lock
                        /\ stack'[s].queued => mutex'[stack'[s].mutex].queue /= <<>>
                        /\ \A r \in Stacks : stack'[r].pc = "try" /\ stack'[r].mutex = stack'[s].mutex => r = s
      BY DEF OneTrier
    <2>1. stack'[s] = stack[s] /\ stack[s].mutex \in Mutexes
      BY <1>5, <1>6
    <2>2. mutex'[stack[s].mutex].lock = mutex[stack[s].mutex].lock
          /\ mutex'[stack[s].mutex].queue = mutex[stack[s].mutex].queue
      BY <1>3, <2>1
    <2> QED BY <1>5, <2>1, <2>2 DEF MutexInv, OneTrier
  <1>8. OneUnlocker'
    <2> SUFFICES ASSUME NEW s \in Stacks, stack'[s].pc = "unlock_deq"
                 PROVE  /\ mutex'[stack'[s].mutex].held
                        /\ holder'[stack'[s].mutex] = None
                        /\ \A r \in Stacks : stack'[r].pc = "unlock_deq" /\ stack'[r].mutex = stack'[s].mutex => r = s
      BY DEF OneUnlocker
    <2>1. stack'[s] = stack[s] /\ stack[s].mutex \in Mutexes
      BY <1>5, <1>6
    <2>2. mutex[stack[s].mutex].held /\ holder[stack[s].mutex] = None
          /\ \A r \in Stacks : stack[r].pc = "unlock_deq" /\ stack[r].mutex = stack[s].mutex => r = s
      BY <2>1 DEF MutexInv, OneUnlocker
    <2>3. stack[s].mutex /= m
      BY <1>1, <2>2
    <2> QED BY <1>3, <1>5, <2>1, <2>2, <2>3, SMTT(30) DEF MutexInv, MutexTypes
  <1>9. WaitersHold'
    <2> SUFFICES ASSUME NEW s \in Stacks, stack'[s].pc = "wait_unlock"
                 PROVE  holder'[stack'[s].mutex] = s
      BY DEF WaitersHold
    <2>1. s /= p /\ stack'[s] = stack[s] /\ stack[s].mutex \in Mutexes
      BY <1>5, <1>6
    <2>2. holder[stack[s].mutex] = s
      BY <2>1 DEF MutexInv, WaitersHold
    <2>3. stack[s].mutex /= m
      BY <2>1, <2>2
    <2> QED BY <1>3, <2>1, <2>2, <2>3 DEF MutexInv, MutexTypes
  <1>10. LockedMutexIsHeld'
    BY <1>3 DEF MutexInv, MutexTypes, LockedMutexIsHeld
  <1> QED BY <1>4, <1>7, <1>8, <1>9, <1>10 DEF MutexInv

LEMMA Knows ==
    ASSUME MutexInv, NEW s \in Stacks
    PROVE  /\ s /= None /\ stack \in [Stacks -> StackRecords]
           /\ stack[s].hand \in Seq(Cprocs)
           /\ stack[s].pc \in {"ready", "enqueue", "keep"} => stack[s].hand /= <<>>
           /\ stack[s].pc \in NeedsWaiter => stack[s].waiter \in Waiters
           /\ NeedsMutex(stack[s].pc, stack[s].call) => stack[s].mutex \in Mutexes
  BY StackIs, Record DEF MutexInv, MutexTypes

LEMMA MutexLockStep ==
    ASSUME MutexInv, NEW k, NEW p \in Cprocs, NEW m \in Mutexes, MutexLock(k, p, m)
    PROVE  MutexInv'
  <1>1. p \in Stacks
    BY StackIs
  <1>2. CASE mutex[m].held
    <2> DEFINE n == [pc |-> "solid", call |-> stack[p].call, mutex |-> m, queued |-> stack[p].queued,
                     waiter |-> stack[p].waiter, hand |-> stack[p].hand]
    <2>1. stack' = [stack EXCEPT ![p] = n]
      BY <1>1, <1>2, Knows, SetPcMutex DEF MutexLock
    <2>2. n \in StackRecords
      BY <1>1, Knows, Record, NewRecord, Names DEF NeedsWaiter
    <2>3. Moves(p, "solid")
      BY <2>1, <2>2, <1>1, Knows DEF Moves
    <2>4. "solid" \in PCs \ {"try", "unlock_deq", "wait_unlock"}
      BY Names
    <2> QED BY <1>2, <2>3, <2>4, <1>1, Knows, MovesElsewhere DEF MutexLock, MutexInv, MutexTypes
  <1>3. CASE ~mutex[m].held
    <2>1. mutex' = [mutex EXCEPT ![m].held = TRUE] /\ Take(p, m) /\ UNCHANGED <<condition, ready, waiters>>
      BY <1>3 DEF MutexLock
    <2>2. /\ mutex' \in [Mutexes -> [held: BOOLEAN, lock: BOOLEAN, queue: Seq(Cprocs)]]
          /\ mutex'[m].held /\ mutex'[m].lock = mutex[m].lock /\ mutex'[m].queue = mutex[m].queue
          /\ \A x \in Mutexes \ {m} : mutex'[x] = mutex[x]
      BY <2>1 DEF MutexInv, MutexTypes
    <2> QED BY <1>3, <2>1, <2>2, Takes
  <1> QED BY <1>2, <1>3

LEMMA Sets ==
    ASSUME stack \in [Stacks -> StackRecords], NEW s \in Stacks, NEW n \in StackRecords,
           stack' = [stack EXCEPT ![s] = n]
    PROVE  Moves(s, n.pc) /\ stack'[s] = n
  BY DEF Moves

\* Stack s goes on at l, with the cprocs of h in hand.
LEMMA MovesWithHand ==
    ASSUME stack \in [Stacks -> StackRecords], NEW s \in Stacks, NEW l \in PCs, NEW h \in Seq(Cprocs),
           stack' = [stack EXCEPT ![s].pc = l, ![s].hand = h],
           NeedsMutex(l, stack[s].call) => stack[s].mutex \in Mutexes,
           l \in {"ready", "enqueue", "keep"} => h /= <<>>, l \notin NeedsWaiter
    PROVE  Moves(s, l)
  <1> DEFINE n == [stack[s] EXCEPT !.pc = l, !.hand = h]
  <1>1. stack' = [stack EXCEPT ![s] = n]
    OBVIOUS
  <1>2. n \in StackFields /\ n.pc = l /\ n.call = stack[s].call /\ n.mutex = stack[s].mutex /\ n.hand = h
    <2>1. stack[s] \in StackFields
      BY Record
    <2> QED BY <2>1 DEF StackFields
  <1>3. n \in StackRecords
    BY <1>2 DEF StackRecords
  <1> HIDE DEF n
  <1>4. Moves(s, n.pc)
    BY <1>1, <1>3, Sets
  <1> QED BY <1>2, <1>4

\* The same, in call b.
LEMMA MovesInCall ==
    ASSUME stack \in [Stacks -> StackRecords], NEW s \in Stacks, NEW l \in PCs, NEW b \in Calls,
           NEW h \in Seq(Cprocs),
           stack' = [stack EXCEPT ![s].pc = l, ![s].call = b, ![s].hand = h],
           NeedsMutex(l, b) => stack[s].mutex \in Mutexes,
           l \in {"ready", "enqueue", "keep"} => h /= <<>>, l \notin NeedsWaiter
    PROVE  Moves(s, l)
  <1> DEFINE n == [stack[s] EXCEPT !.pc = l, !.call = b, !.hand = h]
  <1>1. stack' = [stack EXCEPT ![s] = n]
    OBVIOUS
  <1>2. n \in StackFields /\ n.pc = l /\ n.call = b /\ n.mutex = stack[s].mutex /\ n.hand = h
    <2>1. stack[s] \in StackFields
      BY Record
    <2> QED BY <2>1 DEF StackFields
  <1>3. n \in StackRecords
    BY <1>2 DEF StackRecords
  <1> HIDE DEF n
  <1>4. Moves(s, n.pc)
    BY <1>1, <1>3, Sets
  <1> QED BY <1>2, <1>4

LEMMA SolidQueueStep ==
    ASSUME MutexInv, NEW k, NEW p \in Cprocs, SolidQueue(k, p)
    PROVE  MutexInv'
  <1> DEFINE m == stack[p].mutex
             first == mutex[m].queue = <<>>
             yes == TRUE
             q == IF first THEN <<p>> ELSE mutex[m].queue
  <1>1. p \in Stacks /\ m \in Mutexes /\ ~mutex[m].lock
    BY StackIs, Knows DEF SolidQueue, At, NeedsMutex
  <1>2. stack \in [Stacks -> StackRecords]
        /\ mutex \in [Mutexes -> [held: BOOLEAN, lock: BOOLEAN, queue: Seq(Cprocs)]]
        /\ holder \in [Mutexes -> Cprocs \cup {None}]
    BY DEF MutexInv, MutexTypes
  <1>3. mutex' = [mutex EXCEPT ![m].lock = yes, ![m].queue = q]
    BY DEF SolidQueue
  <1>4. q \in Seq(Cprocs) /\ yes \in BOOLEAN /\ yes /\ (first => q /= <<>>)
    BY <1>1, <1>2
  <1> HIDE DEF first, yes, q
  <1>5. /\ mutex' \in [Mutexes -> [held: BOOLEAN, lock: BOOLEAN, queue: Seq(Cprocs)]]
        /\ \A x \in Mutexes : mutex'[x].held = mutex[x].held /\ (x /= m => mutex'[x] = mutex[x])
        /\ mutex'[m].lock /\ (first => mutex'[m].queue /= <<>>)
    BY <1>1, <1>2, <1>3, <1>4
  <1>6. Moves(p, "try") /\ stack'[p].mutex = m /\ stack'[p].queued = first
    <2> DEFINE l == "try"
               n == [stack[p] EXCEPT !.pc = l, !.queued = first]
    <2>1. l \in PCs /\ first \in BOOLEAN
      BY Names DEF first
    <2>2. stack' = [stack EXCEPT ![p].pc = l, ![p].queued = first]
      BY DEF SolidQueue, first
    <2>3. l \notin {"ready", "enqueue", "keep"} \cup NeedsWaiter
      BY DEF NeedsWaiter
    <2> HIDE DEF l
    <2>4. stack' = [stack EXCEPT ![p] = n]
      BY <1>1, <1>2, <2>2
    <2>5. n \in StackFields /\ n.pc = l /\ n.mutex = m /\ n.queued = first
      <3>1. stack[p] \in StackFields
        BY <1>1, <1>2, Record
      <3> QED BY <2>1, <3>1 DEF StackFields
    <2>6. n \in StackRecords
      BY <1>1, <2>3, <2>5 DEF StackRecords
    <2> HIDE DEF n
    <2>7. Moves(p, l) /\ stack'[p].mutex = m /\ stack'[p].queued = first
      BY <1>1, <1>2, <2>4, <2>5, <2>6 DEF Moves
    <2> QED BY <2>7 DEF l
  <1>7. MutexTypes'
    BY <1>5, <1>6 DEF MutexInv, MutexTypes, Moves, SolidQueue
  <1>8. \A s \in Stacks \ {p} : stack'[s] = stack[s]
    BY <1>6 DEF Moves
  <1>9. \A s \in Stacks : stack[s].pc \in {"try", "unlock_deq", "wait_unlock"} => stack[s].mutex \in Mutexes
    BY <1>2, Record DEF NeedsMutex
  <1>10. \A s \in Stacks : stack[s].pc = "try" => stack[s].mutex \in Mutexes \ {m}
    BY <1>1, <1>9 DEF MutexInv, OneTrier
  <1>11. stack'[p].pc = "try"
    BY <1>6 DEF Moves
  <1>12. OneTrier'
    <2> SUFFICES ASSUME NEW s \in Stacks, stack'[s].pc = "try"
                 PROVE  /\ mutex'[stack'[s].mutex].lock
                        /\ stack'[s].queued => mutex'[stack'[s].mutex].queue /= <<>>
                        /\ \A r \in Stacks : stack'[r].pc = "try" /\ stack'[r].mutex = stack'[s].mutex => r = s
      BY DEF OneTrier
    <2> HIDE DEF m
    <2>1. CASE s = p
      <3>1. stack'[s].mutex = m /\ mutex'[m].lock
        BY <2>1, <1>5, <1>6
      <3>2. stack'[s].queued => mutex'[m].queue /= <<>>
        BY <2>1, <1>5, <1>6
      <3>3. \A r \in Stacks \ {p} : stack'[r].pc = "try" => stack'[r].mutex /= m
        BY <1>8, <1>10
      <3> QED BY <2>1, <3>1, <3>2, <3>3
    <2>2. CASE s /= p
      <3>1. stack'[s] = stack[s] /\ stack[s].mutex \in Mutexes \ {m} /\ mutex'[stack[s].mutex] = mutex[stack[s].mutex]
        BY <2>2, <1>5, <1>8, <1>10
      <3> QED BY <3>1, <1>6, <1>8 DEF MutexInv, OneTrier
    <2> QED BY <2>1, <2>2
  <1>13. holder' = holder
    BY DEF SolidQueue
  <1>14. OneUnlocker'
    <2> SUFFICES ASSUME NEW s \in Stacks, stack'[s].pc = "unlock_deq"
                 PROVE  /\ mutex'[stack'[s].mutex].held
                        /\ holder'[stack'[s].mutex] = None
                        /\ \A r \in Stacks : stack'[r].pc = "unlock_deq" /\ stack'[r].mutex = stack'[s].mutex => r = s
      BY DEF OneUnlocker
    <2>1. stack'[s] = stack[s] /\ stack[s].mutex \in Mutexes
      BY <1>8, <1>9, <1>11
    <2>2. mutex'[stack[s].mutex].held = mutex[stack[s].mutex].held
      BY <1>5, <2>1
    <2> QED BY <1>8, <1>11, <1>13, <2>1, <2>2 DEF MutexInv, OneUnlocker
  <1>15. WaitersHold'
    BY <1>8, <1>11, <1>13 DEF MutexInv, WaitersHold
  <1>16. LockedMutexIsHeld'
    BY <1>5, <1>13 DEF MutexInv, LockedMutexIsHeld
  <1> QED BY <1>7, <1>12, <1>14, <1>15, <1>16 DEF MutexInv

LEMMA SolidTryStep ==
    ASSUME MutexInv, NEW k, NEW p \in Cprocs, SolidTry(k, p)
    PROVE  MutexInv'
  <1> DEFINE m == stack[p].mutex
             queued == stack[p].queued
  <1>1. p \in Stacks /\ stack[p].pc = "try" /\ m \in Mutexes
    BY StackIs, Knows DEF SolidTry, At, NeedsMutex
  <1>2. /\ stack \in [Stacks -> StackRecords]
        /\ mutex \in [Mutexes -> [held: BOOLEAN, lock: BOOLEAN, queue: Seq(Cprocs)]]
        /\ queued => mutex[m].queue /= <<>>
    BY <1>1 DEF MutexInv, MutexTypes, OneTrier
  <1>3. \A s \in Stacks \ {p} : stack[s].pc = "try" => stack[s].mutex /= m
    BY <1>1 DEF MutexInv, OneTrier
  <1>4. \A s \in Stacks : stack[s].pc \in {"try", "unlock_deq", "wait_unlock"} => stack[s].mutex \in Mutexes
    BY <1>2, Record DEF NeedsMutex
  <1>5. CASE mutex[m].held
    <2> DEFINE no == FALSE
               q == IF queued THEN mutex[m].queue ELSE Append(mutex[m].queue, p)
    <2>1. mutex' = [mutex EXCEPT ![m].lock = no, ![m].queue = q]
      BY <1>5 DEF SolidTry
    <2>2. q \in Seq(Cprocs) /\ no \in BOOLEAN
      BY <1>1, <1>2
    <2> HIDE DEF no, q
    <2>3. /\ mutex' \in [Mutexes -> [held: BOOLEAN, lock: BOOLEAN, queue: Seq(Cprocs)]]
          /\ \A x \in Mutexes : mutex'[x].held = mutex[x].held /\ (x /= m => mutex'[x] = mutex[x])
      BY <1>1, <1>2, <2>1, <2>2
    <2>4. StartBlock(p) /\ UNCHANGED <<holder, condition, ready, waiters>>
      BY <1>5 DEF SolidTry
    <2>5. PICK l \in {"wired", "block"} : Moves(p, l)
      BY <1>1, <1>2, <2>4, Blocks
    <2>6. MutexTypes'
      BY <2>3, <2>4, <2>5 DEF MutexInv, MutexTypes, Moves
    <2>7. \A s \in Stacks : stack'[s].pc \in {"try", "unlock_deq", "wait_unlock"} => s /= p /\ stack'[s] = stack[s]
      BY <2>5 DEF Moves
    <2>8. OneTrier'
      <3> SUFFICES ASSUME NEW s \in Stacks, stack'[s].pc = "try"
                   PROVE  /\ mutex'[stack'[s].mutex].lock
                          /\ stack'[s].queued => mutex'[stack'[s].mutex].queue /= <<>>
                          /\ \A r \in Stacks : stack'[r].pc = "try" /\ stack'[r].mutex = stack'[s].mutex => r = s
        BY DEF OneTrier
      <3>1. stack'[s] = stack[s] /\ stack[s].mutex \in Mutexes /\ stack[s].mutex /= m
        BY <1>3, <1>4, <2>7
      <3>2. mutex'[stack[s].mutex] = mutex[stack[s].mutex]
        BY <2>3, <3>1
      <3> QED BY <2>7, <3>1, <3>2 DEF MutexInv, OneTrier
    <2>9. OneUnlocker'
      <3> SUFFICES ASSUME NEW s \in Stacks, stack'[s].pc = "unlock_deq"
                   PROVE  /\ mutex'[stack'[s].mutex].held
                          /\ holder'[stack'[s].mutex] = None
                          /\ \A r \in Stacks : stack'[r].pc = "unlock_deq" /\ stack'[r].mutex = stack'[s].mutex => r = s
        BY DEF OneUnlocker
      <3>1. stack'[s] = stack[s] /\ stack[s].mutex \in Mutexes
        BY <1>4, <2>7
      <3>2. mutex'[stack[s].mutex].held = mutex[stack[s].mutex].held
        BY <2>3, <3>1
      <3> QED BY <2>4, <2>7, <3>1, <3>2 DEF MutexInv, OneUnlocker
    <2>10. WaitersHold'
      BY <2>4, <2>7 DEF MutexInv, WaitersHold
    <2>11. LockedMutexIsHeld'
      BY <2>3, <2>4 DEF MutexInv, LockedMutexIsHeld
    <2> QED BY <2>6, <2>8, <2>9, <2>10, <2>11 DEF MutexInv
  <1>6. CASE ~mutex[m].held
    <2> DEFINE no == FALSE
               yes == TRUE
               q == IF queued THEN Tail(mutex[m].queue) ELSE mutex[m].queue
    <2>1. mutex' = [mutex EXCEPT ![m].lock = no, ![m].held = yes, ![m].queue = q]
      BY <1>6 DEF SolidTry
    <2>2. q \in Seq(Cprocs) /\ no \in BOOLEAN /\ yes \in BOOLEAN /\ yes
      BY <1>1, <1>2
    <2> HIDE DEF no, yes, q
    <2>3. /\ mutex' \in [Mutexes -> [held: BOOLEAN, lock: BOOLEAN, queue: Seq(Cprocs)]]
          /\ mutex'[m].held
          /\ \A x \in Mutexes \ {m} : mutex'[x] = mutex[x]
      <3> DEFINE n == [mutex[m] EXCEPT !.lock = no, !.held = yes, !.queue = q]
      <3>1. mutex' = [mutex EXCEPT ![m] = n]
        BY <1>1, <1>2, <2>1
      <3>2. mutex[m] \in [held: BOOLEAN, lock: BOOLEAN, queue: Seq(Cprocs)]
        BY <1>1, <1>2
      <3>3. n \in [held: BOOLEAN, lock: BOOLEAN, queue: Seq(Cprocs)] /\ n.held
        BY <2>2, <3>2
      <3> HIDE DEF n
      <3> QED BY <1>1, <1>2, <3>1, <3>3
    <2>4. Take(p, m) /\ UNCHANGED <<condition, ready, waiters>>
      BY <1>6 DEF SolidTry
    <2> HIDE DEF m
    <2> QED BY <1>1, <1>3, <1>6, <2>3, <2>4, Takes
  <1> QED BY <1>5, <1>6

LEMMA RetryStep ==
    ASSUME MutexInv, NEW k, NEW p \in Cprocs, Retry(k, p)
    PROVE  MutexInv'
  <1> DEFINE m == stack[p].mutex
  <1>1. p \in Stacks /\ stack[p].pc = "retry" /\ m \in Mutexes /\ stack \in [Stacks -> StackRecords]
    BY StackIs, Knows DEF Retry, At, NeedsMutex
  <1>2. UNCHANGED <<condition, ready, waiters>>
    BY DEF Retry
  <1>3. CASE mutex[m].held
    <2>1. Goto(p, "solid") /\ UNCHANGED <<mutex, holder>>
      BY <1>3 DEF Retry
    <2>2. "solid" \in PCs \ {"try", "unlock_deq", "wait_unlock"} /\ "solid" \notin {"ready", "enqueue", "keep"} \cup NeedsWaiter
      BY Names DEF NeedsWaiter
    <2>3. Moves(p, "solid")
      BY <1>1, <2>1, <2>2, Goes
    <2> QED BY <1>1, <1>2, <2>1, <2>2, <2>3, MovesElsewhere DEF MutexInv, MutexTypes
  <1>4. CASE ~mutex[m].held
    <2>1. mutex' = [mutex EXCEPT ![m].held = TRUE] /\ Take(p, m)
      BY <1>4 DEF Retry
    <2>2. /\ mutex' \in [Mutexes -> [held: BOOLEAN, lock: BOOLEAN, queue: Seq(Cprocs)]]
          /\ mutex'[m].held /\ mutex'[m].lock = mutex[m].lock /\ mutex'[m].queue = mutex[m].queue
          /\ \A x \in Mutexes \ {m} : mutex'[x] = mutex[x]
      BY <1>1, <2>1 DEF MutexInv, MutexTypes
    <2> HIDE DEF m
    <2> QED BY <1>1, <1>2, <1>4, <2>1, <2>2, Takes
  <1> QED BY <1>3, <1>4

LEMMA MutexUnlockStep ==
    ASSUME MutexInv, NEW k, NEW p \in Cprocs, NEW m \in Mutexes, MutexUnlock(k, p, m)
    PROVE  MutexInv'
  BY Releases DEF MutexUnlock

LEMMA WaitUnlockStep ==
    ASSUME MutexInv, NEW k, NEW p \in Cprocs, WaitUnlock(k, p)
    PROVE  MutexInv'
  <1>1. p \in Stacks /\ stack[p].pc = "wait_unlock" /\ stack[p].mutex \in Mutexes
    BY StackIs, Knows DEF WaitUnlock, At, NeedsMutex
  <1>2. holder[stack[p].mutex] = p
    BY <1>1 DEF MutexInv, WaitersHold
  <1> QED BY <1>1, <1>2, Releases DEF WaitUnlock

LEMMA LookForWaitersStep ==
    ASSUME MutexInv, NEW k, NEW p \in Cprocs, LookForWaiters(k, p)
    PROVE  MutexInv'
  <1>1. /\ p \in Stacks /\ stack[p].pc = "unlock" /\ stack[p].mutex \in Mutexes
        /\ stack \in [Stacks -> StackRecords]
    BY StackIs, Knows DEF LookForWaiters, At, NeedsMutex
  <1>2. UNCHANGED <<mutex, holder, condition, ready, waiters>>
    BY DEF LookForWaiters
  <1>3. \E l \in {"user", "retry", "wait_block", "unlock_solid"} : Moves(p, l)
    <2>1. CASE Return(p, AfterReady(stack[p].call))
      BY <1>1, <2>1, GoesOn
    <2>2. CASE Goto(p, "unlock_solid")
      <3>1. "unlock_solid" \in PCs /\ "unlock_solid" \notin {"ready", "enqueue", "keep"} \cup NeedsWaiter
        BY Names DEF NeedsWaiter
      <3> QED BY <1>1, <2>2, <3>1, Goes
    <2> QED BY <2>1, <2>2 DEF LookForWaiters
  <1>4. {"user", "retry", "wait_block", "unlock_solid"} \subseteq PCs \ {"try", "unlock_deq", "wait_unlock"}
    BY Names
  <1> QED BY <1>1, <1>2, <1>3, <1>4, MovesElsewhere DEF MutexInv, MutexTypes

LEMMA UnlockSolidStep ==
    ASSUME MutexInv, NEW k, NEW p \in Cprocs, UnlockSolid(k, p)
    PROVE  MutexInv'
  <1> DEFINE m == stack[p].mutex
  <1>1. /\ p \in Stacks /\ stack[p].pc = "unlock_solid" /\ m \in Mutexes
        /\ stack \in [Stacks -> StackRecords]
    BY StackIs, Knows DEF UnlockSolid, At, NeedsMutex
  <1>2. UNCHANGED <<holder, condition, ready, waiters>> /\ mutex' = [mutex EXCEPT ![m].held = TRUE]
    BY DEF UnlockSolid
  <1>3. mutex \in [Mutexes -> [held: BOOLEAN, lock: BOOLEAN, queue: Seq(Cprocs)]]
    BY DEF MutexInv, MutexTypes
  <1>4. /\ mutex' \in [Mutexes -> [held: BOOLEAN, lock: BOOLEAN, queue: Seq(Cprocs)]]
        /\ mutex'[m].held
        /\ \A x \in Mutexes : /\ mutex'[x].lock = mutex[x].lock /\ mutex'[x].queue = mutex[x].queue
                              /\ mutex[x].held => mutex'[x].held
    BY <1>1, <1>2, <1>3
  <1>5. \A s \in Stacks : stack[s].pc \in {"try", "unlock_deq", "wait_unlock"} => stack[s].mutex \in Mutexes
    BY <1>1, Record DEF NeedsMutex
  <1>6. \E l \in {"user", "retry", "wait_block", "unlock_deq"} :
           Moves(p, l) /\ (l = "unlock_deq" => ~mutex[m].held /\ stack'[p].mutex = m)
    <2>1. CASE mutex[m].held /\ Return(p, AfterReady(stack[p].call))
      BY <1>1, <2>1, GoesOn
    <2>2. CASE ~mutex[m].held /\ Goto(p, "unlock_deq")
      <3>1. "unlock_deq" \in PCs /\ "unlock_deq" \notin {"ready", "enqueue", "keep"} \cup NeedsWaiter
        BY Names DEF NeedsWaiter
      <3> QED BY <1>1, <2>2, <3>1, Goes
    <2> QED BY <2>1, <2>2 DEF UnlockSolid
  <1>7. PICK l \in {"user", "retry", "wait_block", "unlock_deq"} :
           Moves(p, l) /\ (l = "unlock_deq" => ~mutex[m].held /\ stack'[p].mutex = m)
    BY <1>6
  <1>8. \A s \in Stacks \ {p} : stack'[s] = stack[s]
    BY <1>7 DEF Moves
  <1>9. stack'[p].pc \notin {"try", "wait_unlock"}
        /\ (stack'[p].pc = "unlock_deq" => ~mutex[m].held /\ stack'[p].mutex = m)
    BY <1>7 DEF Moves
  <1>10. MutexTypes'
    BY <1>2, <1>4, <1>7 DEF MutexInv, MutexTypes, Moves
  <1> HIDE DEF m
  <1>11. OneTrier'
    <2> SUFFICES ASSUME NEW s \in Stacks, stack'[s].pc = "try"
                 PROVE  /\ mutex'[stack'[s].mutex].lock
                        /\ stack'[s].queued => mutex'[stack'[s].mutex].queue /= <<>>
                        /\ \A r \in Stacks : stack'[r].pc = "try" /\ stack'[r].mutex = stack'[s].mutex => r = s
      BY DEF OneTrier
    <2>1. stack'[s] = stack[s] /\ stack[s].mutex \in Mutexes
      BY <1>5, <1>8, <1>9
    <2>2. mutex'[stack[s].mutex].lock = mutex[stack[s].mutex].lock
          /\ mutex'[stack[s].mutex].queue = mutex[stack[s].mutex].queue
      BY <1>4, <2>1
    <2> QED BY <1>8, <1>9, <2>1, <2>2 DEF MutexInv, OneTrier
  <1>12. OneUnlocker'
    <2> SUFFICES ASSUME NEW s \in Stacks, stack'[s].pc = "unlock_deq"
                 PROVE  /\ mutex'[stack'[s].mutex].held
                        /\ holder'[stack'[s].mutex] = None
                        /\ \A r \in Stacks : stack'[r].pc = "unlock_deq" /\ stack'[r].mutex = stack'[s].mutex => r = s
      BY DEF OneUnlocker
    <2>1. \A r \in Stacks \ {p} : stack[r].pc = "unlock_deq" =>
             stack[r].mutex \in Mutexes /\ mutex[stack[r].mutex].held /\ holder[stack[r].mutex] = None
      BY <1>5 DEF MutexInv, OneUnlocker
    <2>2. CASE s = p
      <3>1. ~mutex[m].held /\ stack'[s].mutex = m
        BY <1>9, <2>2
      <3>2. holder[m] = None
        BY <1>1, <3>1 DEF MutexInv, LockedMutexIsHeld
      <3>3. \A r \in Stacks \ {p} : stack'[r].pc = "unlock_deq" => stack'[r].mutex /= m
        BY <1>8, <2>1, <3>1
      <3> QED BY <1>2, <1>4, <2>2, <3>1, <3>2, <3>3
    <2>3. CASE s /= p
      <3>1. stack'[s] = stack[s] /\ stack[s].mutex \in Mutexes /\ mutex[stack[s].mutex].held
            /\ holder[stack[s].mutex] = None
        BY <1>8, <2>1, <2>3
      <3>2. \A r \in Stacks \ {p} : stack'[r].pc = "unlock_deq" /\ stack'[r].mutex = stack[s].mutex => r = s
        BY <1>8, <3>1 DEF MutexInv, OneUnlocker
      <3>3. stack'[p].pc = "unlock_deq" => stack'[p].mutex /= stack[s].mutex
        BY <1>9, <3>1
      <3> QED BY <1>2, <1>4, <3>1, <3>2, <3>3
    <2> QED BY <2>2, <2>3
  <1>13. WaitersHold'
    BY <1>2, <1>8, <1>9 DEF MutexInv, WaitersHold
  <1>14. LockedMutexIsHeld'
    BY <1>2, <1>4 DEF MutexInv, LockedMutexIsHeld
  <1> QED BY <1>10, <1>11, <1>12, <1>13, <1>14 DEF MutexInv

LEMMA UnlockDequeueStep ==
    ASSUME MutexInv, NEW k, NEW p \in Cprocs, UnlockDequeue(k, p)
    PROVE  MutexInv'
  <1> DEFINE m == stack[p].mutex
             q == mutex[m].queue
  <1>1. /\ p \in Stacks /\ stack[p].pc = "unlock_deq" /\ m \in Mutexes /\ ~mutex[m].lock
        /\ stack \in [Stacks -> StackRecords]
    BY StackIs, Knows DEF UnlockDequeue, At, NeedsMutex
  <1>2. mutex \in [Mutexes -> [held: BOOLEAN, lock: BOOLEAN, queue: Seq(Cprocs)]]
    BY DEF MutexInv, MutexTypes
  <1>3. q \in Seq(Cprocs)
    BY <1>1, <1>2
  <1>4. holder[m] = None /\ \A s \in Stacks \ {p} : stack[s].pc = "unlock_deq" => stack[s].mutex /= m
    BY <1>1 DEF MutexInv, OneUnlocker
  <1>5. UNCHANGED <<holder, condition, ready, waiters>>
    BY DEF UnlockDequeue
  <1>6. /\ mutex' \in [Mutexes -> [held: BOOLEAN, lock: BOOLEAN, queue: Seq(Cprocs)]]
        /\ \A x \in Mutexes \ {m} : mutex'[x] = mutex[x]
    <2> DEFINE no == FALSE
               rest == IF q = <<>> THEN q ELSE Tail(q)
    <2>1. mutex' = [mutex EXCEPT ![m].held = no, ![m].queue = rest]
      BY DEF UnlockDequeue
    <2>2. no \in BOOLEAN /\ rest \in Seq(Cprocs)
      BY <1>3
    <2> HIDE DEF no, rest, m
    <2> QED BY <1>1, <1>2, <2>1, <2>2
  <1>7. \E l \in {"user", "retry", "wait_block", "ready"} : Moves(p, l)
    <2>1. CASE q = <<>>
      BY <1>1, <2>1, GoesOn DEF UnlockDequeue
    <2>2. CASE q /= <<>>
      <3> DEFINE h == <<Head(q)>>
                 l == "ready"
      <3>1. stack' = [stack EXCEPT ![p].pc = l, ![p].hand = h]
        BY <2>2 DEF UnlockDequeue
      <3>2. l \in PCs /\ l \notin NeedsWaiter /\ h \in Seq(Cprocs) /\ h /= <<>>
        BY <1>3, <2>2, Names DEF NeedsWaiter
      <3> HIDE DEF h, l
      <3>3. Moves(p, l)
        BY <1>1, <3>1, <3>2, MovesWithHand
      <3> QED BY <3>3 DEF l
    <2> QED BY <2>1, <2>2
  <1>8. PICK l \in {"user", "retry", "wait_block", "ready"} : Moves(p, l)
    BY <1>7
  <1>9. \A s \in Stacks : stack'[s].pc \in {"try", "unlock_deq", "wait_unlock"} => s /= p /\ stack'[s] = stack[s]
    BY <1>8 DEF Moves
  <1>10. \A s \in Stacks : stack[s].pc \in {"try", "unlock_deq", "wait_unlock"} => stack[s].mutex \in Mutexes
    BY <1>1, Record DEF NeedsMutex
  <1>11. MutexTypes'
    BY <1>5, <1>6, <1>8 DEF MutexInv, MutexTypes, Moves
  <1>12. OneTrier'
    <2> SUFFICES ASSUME NEW s \in Stacks, stack'[s].pc = "try"
                 PROVE  /\ mutex'[stack'[s].mutex].lock
                        /\ stack'[s].queued => mutex'[stack'[s].mutex].queue /= <<>>
                        /\ \A r \in Stacks : stack'[r].pc = "try" /\ stack'[r].mutex = stack'[s].mutex => r = s
      BY DEF OneTrier
    <2>1. stack'[s] = stack[s] /\ stack[s].mutex \in Mutexes
      BY <1>9, <1>10
    <2>2. mutex[stack[s].mutex].lock
      BY <2>1 DEF MutexInv, OneTrier
    <2>3. mutex'[stack[s].mutex] = mutex[stack[s].mutex]
      BY <1>1, <1>6, <2>1, <2>2
    <2> QED BY <1>9, <2>1, <2>3 DEF MutexInv, OneTrier
  <1>13. OneUnlocker'
    <2> SUFFICES ASSUME NEW s \in Stacks, stack'[s].pc = "unlock_deq"
                 PROVE  /\ mutex'[stack'[s].mutex].held
                        /\ holder'[stack'[s].mutex] = None
                        /\ \A r \in Stacks : stack'[r].pc = "unlock_deq" /\ stack'[r].mutex = stack'[s].mutex => r = s
      BY DEF OneUnlocker
    <2>1. stack'[s] = stack[s] /\ stack[s].mutex \in Mutexes \ {m}
      BY <1>4, <1>9, <1>10
    <2>2. mutex'[stack[s].mutex] = mutex[stack[s].mutex]
      BY <1>6, <2>1
    <2> QED BY <1>5, <1>9, <2>1, <2>2 DEF MutexInv, OneUnlocker
  <1>14. WaitersHold'
    BY <1>5, <1>9 DEF MutexInv, WaitersHold
  <1>15. LockedMutexIsHeld'
    BY <1>4, <1>5, <1>6 DEF MutexInv, LockedMutexIsHeld
  <1> QED BY <1>11, <1>12, <1>13, <1>14, <1>15 DEF MutexInv

LEMMA ConditionWaitStep ==
    ASSUME MutexInv, NEW k, NEW p \in Cprocs, NEW c \in Conditions, NEW m \in Mutexes,
           ConditionWait(k, p, c, m)
    PROVE  MutexInv'
  <1>1. p \in Stacks /\ holder[m] = p /\ stack \in [Stacks -> StackRecords]
    BY StackIs DEF ConditionWait, MutexInv, MutexTypes
  <1>2. UNCHANGED <<mutex, holder, ready, waiters>> /\ condition' \in [Conditions -> Seq(Cprocs)]
    BY DEF ConditionWait, MutexInv, MutexTypes
  <1>3. Moves(p, "wait_unlock") /\ stack'[p].mutex = m
    <2> DEFINE l == "wait_unlock"
               n == [stack[p] EXCEPT !.pc = l, !.mutex = m]
    <2>1. l \in PCs /\ l \notin {"ready", "enqueue", "keep"} \cup NeedsWaiter
      BY Names DEF NeedsWaiter
    <2>2. stack' = [stack EXCEPT ![p].pc = l, ![p].mutex = m]
      BY DEF ConditionWait
    <2> HIDE DEF l
    <2>3. stack' = [stack EXCEPT ![p] = n]
      BY <1>1, <2>2
    <2>4. n \in StackFields /\ n.pc = l /\ n.mutex = m
      <3>1. stack[p] \in StackFields
        BY <1>1, Record
      <3> QED BY <2>1, <3>1 DEF StackFields
    <2>5. n \in StackRecords
      BY <2>1, <2>4 DEF StackRecords
    <2> HIDE DEF n
    <2>6. Moves(p, l) /\ stack'[p].mutex = m
      BY <1>1, <2>3, <2>4, <2>5, Sets
    <2> QED BY <2>6 DEF l
  <1>4. stack'[p].pc = "wait_unlock" /\ \A s \in Stacks \ {p} : stack'[s] = stack[s]
    BY <1>3 DEF Moves
  <1>5. MutexTypes'
    BY <1>2, <1>3 DEF MutexInv, MutexTypes, Moves
  <1>6. OneTrier'
    BY <1>2, <1>4, SMTT(30) DEF MutexInv, OneTrier
  <1>7. OneUnlocker'
    BY <1>2, <1>4 DEF MutexInv, OneUnlocker
  <1>8. WaitersHold'
    BY <1>1, <1>2, <1>3, <1>4 DEF MutexInv, WaitersHold
  <1>9. LockedMutexIsHeld'
    BY <1>2 DEF MutexInv, LockedMutexIsHeld
  <1> QED BY <1>5, <1>6, <1>7, <1>8, <1>9 DEF MutexInv

LEMMA WaitBlockStep ==
    ASSUME MutexInv, NEW k, NEW p \in Cprocs, WaitBlock(k, p)
    PROVE  MutexInv'
  <1>1. /\ p \in Stacks /\ stack[p].pc = "wait_block" /\ stack[p].mutex \in Mutexes
        /\ stack \in [Stacks -> StackRecords]
    BY StackIs, Knows DEF WaitBlock, At, NeedsMutex
  <1>2. UNCHANGED <<mutex, holder, condition, ready, waiters>>
    BY DEF WaitBlock
  <1>3. \E l \in {"wired", "block", "retry"} : Moves(p, l)
    <2>1. CASE StartBlock(p)
      BY <1>1, <2>1, Blocks
    <2>2. CASE Return(p, "retry")
      <3>1. "retry" \in PCs /\ "retry" \notin {"ready", "enqueue", "keep", "switch"} \cup NeedsWaiter
        BY Names DEF NeedsWaiter
      <3> QED BY <1>1, <2>2, <3>1, Returns
    <2> QED BY <2>1, <2>2 DEF WaitBlock
  <1>4. {"wired", "block", "retry"} \subseteq PCs \ {"try", "unlock_deq", "wait_unlock"}
    BY Names
  <1> QED BY <1>1, <1>2, <1>3, <1>4, MovesElsewhere DEF MutexInv, MutexTypes

LEMMA WakeStep ==
    ASSUME MutexInv, NEW k, NEW p \in Cprocs, NEW c \in Conditions, Wake(k, p, c)
    PROVE  MutexInv'
  <1>1. p \in Stacks /\ stack[p].pc = "user" /\ stack \in [Stacks -> StackRecords]
    BY StackIs, Knows DEF Wake, At
  <1>2. UNCHANGED <<mutex, holder, ready, waiters>> /\ condition[c] \in Seq(Cprocs) /\ condition[c] /= <<>>
    BY DEF Wake, MutexInv, MutexTypes
  <1>3. PICK n \in {1, Len(condition[c])} :
          /\ condition' = [condition EXCEPT ![c] = SubSeq(condition[c], n + 1, Len(condition[c]))]
          /\ stack' = [stack EXCEPT ![p].pc = "ready", ![p].call = "wake",
                                    ![p].hand = SubSeq(condition[c], 1, n)]
    BY DEF Wake
  <1>4. Len(condition[c]) \in Nat /\ Len(condition[c]) > 0 /\ n \in 1..Len(condition[c])
    BY <1>2
  <1>5. SubSeq(condition[c], n + 1, Len(condition[c])) \in Seq(Cprocs)
    BY <1>2, <1>4
  <1>6. SubSeq(condition[c], 1, n) \in Seq(Cprocs) /\ SubSeq(condition[c], 1, n) /= <<>>
    BY <1>2, <1>4
  <1>7. condition' \in [Conditions -> Seq(Cprocs)]
    BY <1>3, <1>5 DEF MutexInv, MutexTypes
  <1>8. Moves(p, "ready")
    <2> DEFINE l == "ready"
               b == "wake"
               h == SubSeq(condition[c], 1, n)
    <2>1. stack' = [stack EXCEPT ![p].pc = l, ![p].call = b, ![p].hand = h]
      BY <1>3
    <2>2. l \in PCs /\ b \in Calls /\ l \notin NeedsWaiter /\ ~NeedsMutex(l, b)
      BY Names DEF NeedsWaiter, NeedsMutex
    <2>3. h \in Seq(Cprocs) /\ h /= <<>>
      BY <1>6
    <2> HIDE DEF l, b, h
    <2>4. Moves(p, l)
      BY <1>1, <2>1, <2>2, <2>3, MovesInCall
    <2> QED BY <2>4 DEF l
  <1>9. "ready" \in PCs \ {"try", "unlock_deq", "wait_unlock"}
    BY Names
  <1> QED BY <1>1, <1>2, <1>7, <1>8, <1>9, MovesElsewhere DEF MutexInv, MutexTypes

LEMMA FreshStack ==
    /\ \A l \in {"none", "user", "receive"} : NewStack(l) \in StackRecords /\ NewStack(l).pc = l
    /\ \A m \in Mutexes : [NewStack("retry") EXCEPT !.mutex = m] \in StackRecords
                         /\ [NewStack("retry") EXCEPT !.mutex = m].pc = "retry"
  <1> DEFINE no == FALSE
  <1>1. no \in BOOLEAN /\ "none" \in Calls /\ "retry" \in PCs /\ \A l \in {"none", "user", "receive"} : l \in PCs
    BY Names
  <1>2. \A l : NewStack(l) = [pc |-> l, call |-> "none", mutex |-> None, queued |-> no,
                              waiter |-> None, hand |-> <<>>]
    BY DEF NewStack
  <1> HIDE DEF no
  <1>3. ASSUME NEW l \in {"none", "user", "receive"}
        PROVE  NewStack(l) \in StackRecords /\ NewStack(l).pc = l
    <2>1. ~NeedsMutex(l, "none") /\ l \notin {"ready", "enqueue", "keep"} \cup NeedsWaiter
      BY DEF NeedsMutex, NeedsWaiter
    <2>2. <<>> \in Seq(Cprocs)
      OBVIOUS
    <2> QED BY <1>1, <1>2, <2>1, <2>2, NewRecord
  <1>4. ASSUME NEW m \in Mutexes
        PROVE  [NewStack("retry") EXCEPT !.mutex = m] \in StackRecords
               /\ [NewStack("retry") EXCEPT !.mutex = m].pc = "retry"
    <2> DEFINE l == "retry"
               n == [pc |-> l, call |-> "none", mutex |-> m, queued |-> no, waiter |-> None, hand |-> <<>>]
    <2>1. l \notin {"ready", "enqueue", "keep"} \cup NeedsWaiter /\ <<>> \in Seq(Cprocs)
      BY DEF NeedsWaiter
    <2>2. n \in StackRecords
      BY <1>1, <2>1, NewRecord
    <2>3. [NewStack(l) EXCEPT !.mutex = m] = n
      BY <1>2
    <2> QED BY <2>2, <2>3
  <1> QED BY <1>3, <1>4

LEMMA ReadyStep ==
    ASSUME MutexInv, NEW k, NEW p \in Cprocs, Ready(k, p)
    PROVE  MutexInv'
  <1>1. /\ p \in Stacks /\ stack[p].pc = "ready" /\ stack \in [Stacks -> StackRecords]
        /\ NeedsMutex("ready", stack[p].call) => stack[p].mutex \in Mutexes
        /\ stack[p].hand \in Seq(Cprocs) /\ stack[p].hand /= <<>>
    BY StackIs, Knows DEF Ready, At
  <1>2. UNCHANGED <<mutex, holder, condition>> /\ ready' \in Seq(Cprocs) /\ waiters' \in Seq(Waiters)
    BY <1>1 DEF Ready, MutexInv, MutexTypes
  <1>3. \E l \in {"ready", "user", "retry", "wait_block", "enqueue"} : Moves(p, l)
    <2>1. CASE Readied(p, Tail(stack[p].hand))
      <3>1. Tail(stack[p].hand) \in Seq(Cprocs)
        BY <1>1
      <3> QED BY <1>1, <2>1, <3>1, Readies
    <2>2. CASE Goto(p, "enqueue")
      <3>1. "enqueue" \in PCs /\ "enqueue" \notin NeedsWaiter
        BY Names DEF NeedsWaiter
      <3>2. NeedsMutex("enqueue", stack[p].call) => stack[p].mutex \in Mutexes
        BY <1>1 DEF NeedsMutex
      <3> QED BY <1>1, <2>2, <3>1, <3>2, Goes
    <2> QED BY <2>1, <2>2 DEF Ready
  <1>4. {"ready", "user", "retry", "wait_block", "enqueue"} \subseteq PCs \ {"try", "unlock_deq", "wait_unlock"}
    BY Names
  <1> QED BY <1>1, <1>2, <1>3, <1>4, MovesElsewhere DEF MutexInv, MutexTypes

LEMMA EnqueueStep ==
    ASSUME MutexInv, NEW k, NEW p \in Cprocs, Enqueue(k, p)
    PROVE  MutexInv'
  <1>1. /\ p \in Stacks /\ stack[p].pc = "enqueue" /\ stack \in [Stacks -> StackRecords]
        /\ NeedsMutex("enqueue", stack[p].call) => stack[p].mutex \in Mutexes
        /\ stack[p].hand \in Seq(Cprocs) /\ stack[p].hand /= <<>>
    BY StackIs, Knows DEF Enqueue, At
  <1>2. UNCHANGED <<mutex, holder, condition>> /\ ready' \in Seq(Cprocs) /\ waiters' \in Seq(Waiters)
    <2>1. Head(stack[p].hand) \in Cprocs /\ ready \in Seq(Cprocs)
      BY <1>1 DEF MutexInv, MutexTypes
    <2>2. <<Head(stack[p].hand)>> \in Seq(Cprocs)
      BY <2>1
    <2>3. <<Head(stack[p].hand)>> \o ready \in Seq(Cprocs) /\ Append(ready, Head(stack[p].hand)) \in Seq(Cprocs)
      BY <2>1, <2>2
    <2> QED BY <2>3 DEF Enqueue, MutexInv, MutexTypes
  <1>3. \E l \in {"ready", "user", "retry", "wait_block", "send"} : Moves(p, l)
    <2>1. Tail(stack[p].hand) \in Seq(Cprocs)
      BY <1>1
    <2>2. CASE Readied(p, Tail(stack[p].hand))
      BY <1>1, <2>1, <2>2, Readies
    <2>3. CASE stack' = [stack EXCEPT ![p].pc = "send", ![p].hand = Tail(stack[p].hand)]
      <3> DEFINE l == "send"
                 h == Tail(stack[p].hand)
      <3>1. l \in PCs /\ l \notin {"ready", "enqueue", "keep"} \cup NeedsWaiter
        BY Names DEF NeedsWaiter
      <3>2. NeedsMutex(l, stack[p].call) => stack[p].mutex \in Mutexes
        BY <1>1 DEF NeedsMutex
      <3>3. stack' = [stack EXCEPT ![p].pc = l, ![p].hand = h]
        BY <2>3
      <3> HIDE DEF l, h
      <3>4. Moves(p, l)
        BY <1>1, <2>1, <3>1, <3>2, <3>3, MovesWithHand DEF h
      <3> QED BY <3>4 DEF l
    <2>4. stack' = [stack EXCEPT ![p].pc = "send", ![p].hand = Tail(@)]
          => stack' = [stack EXCEPT ![p].pc = "send", ![p].hand = Tail(stack[p].hand)]
      BY <1>1
    <2> QED BY <2>2, <2>3, <2>4 DEF Enqueue
  <1>4. {"ready", "user", "retry", "wait_block", "send"} \subseteq PCs \ {"try", "unlock_deq", "wait_unlock"}
    BY Names
  <1> QED BY <1>1, <1>2, <1>3, <1>4, MovesElsewhere DEF MutexInv, MutexTypes

LEMMA SendStep ==
    ASSUME MutexInv, NEW k, NEW p \in Cprocs, Send(k, p)
    PROVE  MutexInv'
  <1>1. /\ p \in Stacks /\ stack[p].pc = "send" /\ stack \in [Stacks -> StackRecords]
        /\ NeedsMutex("send", stack[p].call) => stack[p].mutex \in Mutexes
        /\ stack[p].hand \in Seq(Cprocs)
    BY StackIs, Knows DEF Send, At
  <1>2. UNCHANGED <<mutex, holder, condition>> /\ ready' \in Seq(Cprocs) /\ waiters' \in Seq(Waiters)
    BY <1>1 DEF Send, MutexInv, MutexTypes
  <1>3. \E l \in {"ready", "user", "retry", "wait_block"} : Moves(p, l)
    BY <1>1, Readies DEF Send
  <1>4. {"ready", "user", "retry", "wait_block"} \subseteq PCs \ {"try", "unlock_deq", "wait_unlock"}
    BY Names
  <1> QED BY <1>1, <1>2, <1>3, <1>4, MovesElsewhere DEF MutexInv, MutexTypes

LEMMA ReceiveWiredStep ==
    ASSUME MutexInv, NEW k, NEW p \in Cprocs, ReceiveWired(k, p)
    PROVE  MutexInv'
  <1>1. /\ p \in Stacks /\ stack[p].pc = "wired" /\ stack \in [Stacks -> StackRecords]
        /\ NeedsMutex("wired", stack[p].call) => stack[p].mutex \in Mutexes
    BY StackIs, Knows DEF ReceiveWired, At
  <1>2. UNCHANGED <<mutex, holder, condition>> /\ ready' \in Seq(Cprocs) /\ waiters' \in Seq(Waiters)
    BY <1>1 DEF ReceiveWired, MutexInv, MutexTypes
  <1>3. \E l \in {"retry"} : Moves(p, l)
    <2>1. Return(p, "retry")
      BY DEF ReceiveWired
    <2>2. "retry" \in PCs /\ "retry" \notin {"ready", "enqueue", "keep", "switch"} \cup NeedsWaiter
      BY Names DEF NeedsWaiter
    <2>3. NeedsMutex("retry", "none") => stack[p].mutex \in Mutexes
      BY <1>1 DEF NeedsMutex
    <2> QED BY <1>1, <2>1, <2>2, <2>3, Returns
  <1>4. {"retry"} \subseteq PCs \ {"try", "unlock_deq", "wait_unlock"}
    BY Names
  <1> QED BY <1>1, <1>2, <1>3, <1>4, MovesElsewhere DEF MutexInv, MutexTypes

LEMMA DequeueReadyStep ==
    ASSUME MutexInv, NEW k, NEW p \in Cprocs, DequeueReady(k, p)
    PROVE  MutexInv'
  <1>1. /\ p \in Stacks /\ stack[p].pc = "block" /\ stack \in [Stacks -> StackRecords]
        /\ NeedsMutex("block", stack[p].call) => stack[p].mutex \in Mutexes
    BY StackIs, Knows DEF DequeueReady, At
  <1>2. UNCHANGED <<mutex, holder, condition>> /\ ready' \in Seq(Cprocs) /\ waiters' \in Seq(Waiters)
        /\ ready \in Seq(Cprocs)
    <2>1. ready \in Seq(Cprocs) /\ waiters \in Seq(Waiters) /\ condition \in [Conditions -> Seq(Cprocs)]
      BY DEF MutexInv, MutexTypes
    <2>2. ready /= <<>> => Tail(ready) \in Seq(Cprocs)
      BY <2>1
    <2> QED BY <2>1, <2>2 DEF DequeueReady
  <1>3. \E l \in {"keep", "getwaiter"} : Moves(p, l)
    <2>1. CASE ready /= <<>>
      <3> DEFINE l == "keep"
                 h == <<Head(ready)>>
      <3>1. l \in PCs /\ l \notin NeedsWaiter
        BY Names DEF NeedsWaiter
      <3>2. NeedsMutex(l, stack[p].call) => stack[p].mutex \in Mutexes
        BY <1>1 DEF NeedsMutex
      <3>3. stack' = [stack EXCEPT ![p].pc = l, ![p].hand = h]
        BY <2>1 DEF DequeueReady
      <3>4. h \in Seq(Cprocs) /\ h /= <<>>
        BY <1>2, <2>1
      <3> HIDE DEF l, h
      <3>5. Moves(p, l)
        BY <1>1, <3>1, <3>2, <3>3, <3>4, MovesWithHand
      <3> QED BY <3>5 DEF l
    <2>2. CASE Goto(p, "getwaiter")
    <3>1. "getwaiter" \in PCs /\ "getwaiter" \notin {"ready", "enqueue", "keep"} \cup NeedsWaiter
      BY Names DEF NeedsWaiter
    <3>2. NeedsMutex("getwaiter", stack[p].call) => stack[p].mutex \in Mutexes
      BY <1>1 DEF NeedsMutex
    <3> QED BY <1>1, <2>2, <3>1, <3>2, Goes
    <2> QED BY <2>1, <2>2 DEF DequeueReady
  <1>4. {"keep", "getwaiter"} \subseteq PCs \ {"try", "unlock_deq", "wait_unlock"}
    BY Names
  <1> QED BY <1>1, <1>2, <1>3, <1>4, MovesElsewhere DEF MutexInv, MutexTypes

LEMMA BlockSwitchStep ==
    ASSUME MutexInv, NEW k, NEW p \in Cprocs, BlockSwitch(k, p)
    PROVE  MutexInv'
  <1>1. /\ p \in Stacks /\ stack[p].pc = "keep" /\ stack \in [Stacks -> StackRecords]
        /\ NeedsMutex("keep", stack[p].call) => stack[p].mutex \in Mutexes
        /\ stack[p].hand /= <<>>
    BY StackIs, Knows DEF BlockSwitch, At
  <1>2. UNCHANGED <<mutex, holder, condition>> /\ ready' \in Seq(Cprocs) /\ waiters' \in Seq(Waiters)
    BY <1>1 DEF BlockSwitch, MutexInv, MutexTypes
  <1>3. \E l \in {"ready", "switch"} : Moves(p, l)
    <2>1. CASE Goto(p, "ready")
      <3>1. "ready" \in PCs /\ "ready" \notin NeedsWaiter
        BY Names DEF NeedsWaiter
      <3>2. NeedsMutex("ready", stack[p].call) => stack[p].mutex \in Mutexes
        BY <1>1 DEF NeedsMutex
      <3> QED BY <1>1, <2>1, <3>1, <3>2, Goes
    <2>2. CASE Goto(p, "switch")
    <3>1. "switch" \in PCs /\ "switch" \notin {"ready", "enqueue", "keep"} \cup NeedsWaiter
      BY Names DEF NeedsWaiter
    <3>2. NeedsMutex("switch", stack[p].call) => stack[p].mutex \in Mutexes
      BY <1>1 DEF NeedsMutex
    <3> QED BY <1>1, <2>2, <3>1, <3>2, Goes
    <2> QED BY <2>1, <2>2 DEF BlockSwitch, KeepOrBlock
  <1>4. {"ready", "switch"} \subseteq PCs \ {"try", "unlock_deq", "wait_unlock"}
    BY Names
  <1> QED BY <1>1, <1>2, <1>3, <1>4, MovesElsewhere DEF MutexInv, MutexTypes

LEMMA SwitchStep ==
    ASSUME MutexInv, NEW k, NEW p \in Cprocs, Switch(k, p)
    PROVE  MutexInv'
  <1>1. /\ p \in Stacks /\ stack[p].pc = "switch" /\ stack \in [Stacks -> StackRecords]
        /\ NeedsMutex("switch", stack[p].call) => stack[p].mutex \in Mutexes
    BY StackIs, Knows DEF Switch, At
  <1>2. UNCHANGED <<mutex, holder, condition>> /\ ready' \in Seq(Cprocs) /\ waiters' \in Seq(Waiters)
    BY <1>1 DEF Switch, MutexInv, MutexTypes
  <1>3. \E l \in {"user", "retry"} : Moves(p, l)
    <2>1. CASE stack[p].call = "yield"
      <3>1. Return(p, "user")
        BY <2>1 DEF Switch, AfterBlock
    <3>2. "user" \in PCs /\ "user" \notin {"ready", "enqueue", "keep", "switch"} \cup NeedsWaiter
      BY Names DEF NeedsWaiter
    <3>3. NeedsMutex("user", "none") => stack[p].mutex \in Mutexes
      BY <1>1 DEF NeedsMutex
    <3> QED BY <1>1, <3>1, <3>2, <3>3, Returns
    <2>2. CASE stack[p].call /= "yield"
      <3>1. Return(p, "retry")
        BY <2>2 DEF Switch, AfterBlock
    <3>2. "retry" \in PCs /\ "retry" \notin {"ready", "enqueue", "keep", "switch"} \cup NeedsWaiter
      BY Names DEF NeedsWaiter
    <3>3. NeedsMutex("retry", "none") => stack[p].mutex \in Mutexes
      BY <1>1, <2>2 DEF NeedsMutex
    <3> QED BY <1>1, <3>1, <3>2, <3>3, Returns
    <2> QED BY <2>1, <2>2
  <1>4. {"user", "retry"} \subseteq PCs \ {"try", "unlock_deq", "wait_unlock"}
    BY Names
  <1> QED BY <1>1, <1>2, <1>3, <1>4, MovesElsewhere DEF MutexInv, MutexTypes

LEMMA BlockIdleStep ==
    ASSUME MutexInv, NEW k, NEW p \in Cprocs, BlockIdle(k, p)
    PROVE  MutexInv'
  <1>1. /\ p \in Stacks /\ stack[p].pc = "idle" /\ stack \in [Stacks -> StackRecords]
        /\ NeedsMutex("idle", stack[p].call) => stack[p].mutex \in Mutexes
        /\ stack[p].waiter \in Waiters
    BY StackIs, Knows DEF BlockIdle, At, NeedsWaiter
  <1>2. UNCHANGED <<mutex, holder, condition>> /\ ready' \in Seq(Cprocs) /\ waiters' \in Seq(Waiters)
    BY <1>1 DEF BlockIdle, MutexInv, MutexTypes
  <1>3. \E l \in {"unwait", "startwait"} : Moves(p, l)
    <2>1. CASE Goto(p, "unwait")
    <3>1. "unwait" \in PCs /\ "unwait" \notin {"ready", "enqueue", "keep"}
      BY Names
    <3>2. NeedsMutex("unwait", stack[p].call) => stack[p].mutex \in Mutexes
      BY <1>1 DEF NeedsMutex
    <3> QED BY <1>1, <2>1, <3>1, <3>2, Goes
    <2>2. CASE Goto(p, "startwait")
    <3>1. "startwait" \in PCs /\ "startwait" \notin {"ready", "enqueue", "keep"}
      BY Names
    <3>2. NeedsMutex("startwait", stack[p].call) => stack[p].mutex \in Mutexes
      BY <1>1 DEF NeedsMutex
    <3> QED BY <1>1, <2>2, <3>1, <3>2, Goes
    <2> QED BY <2>1, <2>2 DEF BlockIdle, KeepOrBlock
  <1>4. {"unwait", "startwait"} \subseteq PCs \ {"try", "unlock_deq", "wait_unlock"}
    BY Names
  <1> QED BY <1>1, <1>2, <1>3, <1>4, MovesElsewhere DEF MutexInv, MutexTypes

LEMMA UnwaitStep ==
    ASSUME MutexInv, NEW k, NEW p \in Cprocs, Unwait(k, p)
    PROVE  MutexInv'
  <1>1. /\ p \in Stacks /\ stack[p].pc = "unwait" /\ stack \in [Stacks -> StackRecords]
        /\ NeedsMutex("unwait", stack[p].call) => stack[p].mutex \in Mutexes
        /\ stack[p].waiter \in Waiters
    BY StackIs, Knows DEF Unwait, At, NeedsWaiter
  <1>2. UNCHANGED <<mutex, holder, condition>> /\ ready' \in Seq(Cprocs) /\ waiters' \in Seq(Waiters)
    BY <1>1 DEF Unwait, MutexInv, MutexTypes
  <1>3. \E l \in {"unwaiter"} : Moves(p, l)
    <2>1. Goto(p, "unwaiter")
      BY DEF Unwait
    <2>2. "unwaiter" \in PCs /\ "unwaiter" \notin {"ready", "enqueue", "keep"}
      BY Names
    <2>3. NeedsMutex("unwaiter", stack[p].call) => stack[p].mutex \in Mutexes
      BY <1>1 DEF NeedsMutex
    <2> QED BY <1>1, <2>1, <2>2, <2>3, Goes
  <1>4. {"unwaiter"} \subseteq PCs \ {"try", "unlock_deq", "wait_unlock"}
    BY Names
  <1> QED BY <1>1, <1>2, <1>3, <1>4, MovesElsewhere DEF MutexInv, MutexTypes

LEMMA UnwaiterStep ==
    ASSUME MutexInv, NEW k, NEW p \in Cprocs, Unwaiter(k, p)
    PROVE  MutexInv'
  <1>1. /\ p \in Stacks /\ stack[p].pc = "unwaiter" /\ stack \in [Stacks -> StackRecords]
        /\ NeedsMutex("unwaiter", stack[p].call) => stack[p].mutex \in Mutexes
        /\ stack[p].waiter \in Waiters
    BY StackIs, Knows DEF Unwaiter, At, NeedsWaiter
  <1>2. UNCHANGED <<mutex, holder, condition>> /\ ready' \in Seq(Cprocs) /\ waiters' \in Seq(Waiters)
    <2>1. <<stack[p].waiter>> \in Seq(Waiters) /\ waiters \in Seq(Waiters)
      BY <1>1 DEF MutexInv, MutexTypes
    <2>2. <<stack[p].waiter>> \o waiters \in Seq(Waiters)
      BY <2>1
    <2> QED BY <2>2 DEF Unwaiter, MutexInv, MutexTypes
  <1>3. \E l \in {"retry"} : Moves(p, l)
    <2>1. Return(p, "retry")
      BY DEF Unwaiter
    <2>2. "retry" \in PCs /\ "retry" \notin {"ready", "enqueue", "keep", "switch"} \cup NeedsWaiter
      BY Names DEF NeedsWaiter
    <2>3. NeedsMutex("retry", "none") => stack[p].mutex \in Mutexes
      BY <1>1 DEF NeedsMutex
    <2> QED BY <1>1, <2>1, <2>2, <2>3, Returns
  <1>4. {"retry"} \subseteq PCs \ {"try", "unlock_deq", "wait_unlock"}
    BY Names
  <1> QED BY <1>1, <1>2, <1>3, <1>4, MovesElsewhere DEF MutexInv, MutexTypes

LEMMA ReceiveStep ==
    ASSUME MutexInv, NEW k, NEW w \in Waiters, Receive(k, w)
    PROVE  MutexInv'
  <1>1. /\ w \in Stacks /\ stack[w].pc = "receive" /\ stack \in [Stacks -> StackRecords]
        /\ NeedsMutex("receive", stack[w].call) => stack[w].mutex \in Mutexes
    BY StackIs, Knows DEF Receive, At
  <1>2. UNCHANGED <<mutex, holder, condition>> /\ ready' \in Seq(Cprocs) /\ waiters' \in Seq(Waiters)
    BY <1>1 DEF Receive, MutexInv, MutexTypes
  <1>3. \E l \in {"woken"} : Moves(w, l)
    <2>1. Goto(w, "woken")
      BY DEF Receive
    <2>2. "woken" \in PCs /\ "woken" \notin {"ready", "enqueue", "keep"} \cup NeedsWaiter
      BY Names DEF NeedsWaiter
    <2>3. NeedsMutex("woken", stack[w].call) => stack[w].mutex \in Mutexes
      BY <1>1 DEF NeedsMutex
    <2> QED BY <1>1, <2>1, <2>2, <2>3, Goes
  <1>4. {"woken"} \subseteq PCs \ {"try", "unlock_deq", "wait_unlock"}
    BY Names
  <1> QED BY <1>1, <1>2, <1>3, <1>4, MovesElsewhere DEF MutexInv, MutexTypes

LEMMA WokenStep ==
    ASSUME MutexInv, NEW k, NEW w \in Waiters, Woken(k, w)
    PROVE  MutexInv'
  <1>1. /\ w \in Stacks /\ stack[w].pc = "woken" /\ stack \in [Stacks -> StackRecords]
        /\ NeedsMutex("woken", stack[w].call) => stack[w].mutex \in Mutexes
    BY StackIs, Knows DEF Woken, At
  <1>2. UNCHANGED <<mutex, holder, condition>> /\ ready' \in Seq(Cprocs) /\ waiters' \in Seq(Waiters)
        /\ ready \in Seq(Cprocs)
    <2>1. ready \in Seq(Cprocs) /\ waiters \in Seq(Waiters) /\ condition \in [Conditions -> Seq(Cprocs)]
      BY DEF MutexInv, MutexTypes
    <2>2. ready /= <<>> => Tail(ready) \in Seq(Cprocs)
      BY <2>1
    <2> QED BY <2>1, <2>2 DEF Woken
  <1>3. \E l \in {"resume", "receive"} : Moves(w, l)
    <2>1. CASE ready /= <<>>
      <3> DEFINE l == "resume"
                 h == <<Head(ready)>>
      <3>1. l \in PCs /\ l \notin {"ready", "enqueue", "keep"} \cup NeedsWaiter
        BY Names DEF NeedsWaiter
      <3>2. NeedsMutex(l, stack[w].call) => stack[w].mutex \in Mutexes
        BY <1>1 DEF NeedsMutex
      <3>3. stack' = [stack EXCEPT ![w].pc = l, ![w].hand = h]
        BY <2>1 DEF Woken
      <3>4. h \in Seq(Cprocs)
        BY <1>2, <2>1
      <3> HIDE DEF l, h
      <3>5. Moves(w, l)
        BY <1>1, <3>1, <3>2, <3>3, <3>4, MovesWithHand
      <3> QED BY <3>5 DEF l
    <2>2. CASE Goto(w, "receive")
    <3>1. "receive" \in PCs /\ "receive" \notin {"ready", "enqueue", "keep"} \cup NeedsWaiter
      BY Names DEF NeedsWaiter
    <3>2. NeedsMutex("receive", stack[w].call) => stack[w].mutex \in Mutexes
      BY <1>1 DEF NeedsMutex
    <3> QED BY <1>1, <2>2, <3>1, <3>2, Goes
    <2> QED BY <2>1, <2>2 DEF Woken
  <1>4. {"resume", "receive"} \subseteq PCs \ {"try", "unlock_deq", "wait_unlock"}
    BY Names
  <1> QED BY <1>1, <1>2, <1>3, <1>4, MovesElsewhere DEF MutexInv, MutexTypes

LEMMA ResumeStep ==
    ASSUME MutexInv, NEW k, NEW w \in Waiters, Resume(k, w)
    PROVE  MutexInv'
  <1>1. /\ w \in Stacks /\ stack[w].pc = "resume" /\ stack \in [Stacks -> StackRecords]
        /\ NeedsMutex("resume", stack[w].call) => stack[w].mutex \in Mutexes
    BY StackIs, Knows DEF Resume, At
  <1>2. UNCHANGED <<mutex, holder, condition>> /\ ready' \in Seq(Cprocs) /\ waiters' \in Seq(Waiters)
    BY <1>1 DEF Resume, MutexInv, MutexTypes
  <1>3. \E l \in {"leave"} : Moves(w, l)
    <2>1. Goto(w, "leave")
      BY DEF Resume
    <2>2. "leave" \in PCs /\ "leave" \notin {"ready", "enqueue", "keep"} \cup NeedsWaiter
      BY Names DEF NeedsWaiter
    <2>3. NeedsMutex("leave", stack[w].call) => stack[w].mutex \in Mutexes
      BY <1>1 DEF NeedsMutex
    <2> QED BY <1>1, <2>1, <2>2, <2>3, Goes
  <1>4. {"leave"} \subseteq PCs \ {"try", "unlock_deq", "wait_unlock"}
    BY Names
  <1> QED BY <1>1, <1>2, <1>3, <1>4, MovesElsewhere DEF MutexInv, MutexTypes

LEMMA LeaveStep ==
    ASSUME MutexInv, NEW k, NEW w \in Waiters, Leave(k, w)
    PROVE  MutexInv'
  <1>1. /\ w \in Stacks /\ stack[w].pc = "leave" /\ stack \in [Stacks -> StackRecords]
        /\ NeedsMutex("leave", stack[w].call) => stack[w].mutex \in Mutexes
    BY StackIs, Knows DEF Leave, At
  <1>2. UNCHANGED <<mutex, holder, condition>> /\ ready' \in Seq(Cprocs) /\ waiters' \in Seq(Waiters)
    BY <1>1 DEF Leave, MutexInv, MutexTypes
  <1>3. \E l \in {"leaving"} : Moves(w, l)
    <2>1. Goto(w, "leaving")
      BY DEF Leave
    <2>2. "leaving" \in PCs /\ "leaving" \notin {"ready", "enqueue", "keep"} \cup NeedsWaiter
      BY Names DEF NeedsWaiter
    <2>3. NeedsMutex("leaving", stack[w].call) => stack[w].mutex \in Mutexes
      BY <1>1 DEF NeedsMutex
    <2> QED BY <1>1, <2>1, <2>2, <2>3, Goes
  <1>4. {"leaving"} \subseteq PCs \ {"try", "unlock_deq", "wait_unlock"}
    BY Names
  <1> QED BY <1>1, <1>2, <1>3, <1>4, MovesElsewhere DEF MutexInv, MutexTypes

LEMMA LeavingStep ==
    ASSUME MutexInv, NEW k, NEW w \in Waiters, Leaving(k, w)
    PROVE  MutexInv'
  <1>1. /\ w \in Stacks /\ stack[w].pc = "leaving" /\ stack \in [Stacks -> StackRecords]
        /\ NeedsMutex("leaving", stack[w].call) => stack[w].mutex \in Mutexes
    BY StackIs, Knows DEF Leaving, At
  <1>2. UNCHANGED <<mutex, holder, condition>> /\ ready' \in Seq(Cprocs) /\ waiters' \in Seq(Waiters)
    BY <1>1 DEF Leaving, MutexInv, MutexTypes
  <1>3. \E l \in {"receive"} : Moves(w, l)
    <2>1. stack' = [stack EXCEPT ![w] = NewStack("receive")]
      BY DEF Leaving
    <2>2. NewStack("receive") \in StackRecords /\ NewStack("receive").pc = "receive"
      BY FreshStack
    <2> QED BY <1>1, <2>1, <2>2, Sets
  <1>4. {"receive"} \subseteq PCs \ {"try", "unlock_deq", "wait_unlock"}
    BY Names
  <1> QED BY <1>1, <1>2, <1>3, <1>4, MovesElsewhere DEF MutexInv, MutexTypes

LEMMA GetWaiterStep ==
    ASSUME MutexInv, NEW k, NEW p \in Cprocs, GetWaiter(k, p)
    PROVE  MutexInv'
  <1>1. /\ p \in Stacks /\ stack[p].pc = "getwaiter" /\ stack \in [Stacks -> StackRecords]
        /\ stack[p].mutex \in Mutexes /\ waiters \in Seq(Waiters)
    BY StackIs, Knows DEF GetWaiter, At, NeedsMutex, MutexInv, MutexTypes
  <1>2. UNCHANGED <<mutex, holder, condition, ready>> /\ waiters' \in Seq(Waiters)
    <2>1. waiters /= <<>> => Tail(waiters) \in Seq(Waiters)
      BY <1>1
    <2> QED BY <1>1, <2>1 DEF GetWaiter
  <1>3. ASSUME NEW w \in Waiters
        PROVE  [stack[p] EXCEPT !.pc = "idle", !.waiter = w] \in StackRecords
               /\ [stack[p] EXCEPT !.pc = "idle", !.waiter = w].pc = "idle"
    <2> DEFINE l == "idle"
               n == [stack[p] EXCEPT !.pc = l, !.waiter = w]
    <2>1. l \in PCs /\ l \notin {"ready", "enqueue", "keep"} /\ w \in Waiters \cup {None}
      BY Names
    <2> HIDE DEF l
    <2>2. n \in StackFields /\ n.pc = l /\ n.mutex = stack[p].mutex /\ n.waiter = w
      <3>1. stack[p] \in StackFields
        BY <1>1, Record
      <3> QED BY <2>1, <3>1 DEF StackFields
    <2>3. n \in StackRecords
      BY <1>1, <2>1, <2>2 DEF StackRecords
    <2> QED BY <2>2, <2>3 DEF l
  <1>4. CASE waiters /= <<>>
    <2> DEFINE w == Head(waiters)
               n == [stack[p] EXCEPT !.pc = "idle", !.waiter = w]
    <2>1. w \in Waiters
      BY <1>1, <1>4
    <2>2. n \in StackRecords /\ n.pc = "idle"
      BY <1>3, <2>1
    <2>3. stack' = [stack EXCEPT ![p] = n]
      <3> HIDE DEF w
      <3>1. stack' = [stack EXCEPT ![p].pc = "idle", ![p].waiter = w]
        BY <1>4 DEF GetWaiter, w
      <3> QED BY <1>1, <3>1
    <2> HIDE DEF n
    <2>4. Moves(p, "idle")
      BY <1>1, <2>2, <2>3, Sets
    <2>5. "idle" \in PCs \ {"try", "unlock_deq", "wait_unlock"}
      BY Names
    <2> QED BY <1>1, <1>2, <2>4, <2>5, MovesElsewhere DEF MutexInv, MutexTypes
  <1>5. CASE waiters = <<>>
    <2>1. PICK w \in Waiters :
             /\ stack[w].pc = "none"
             /\ stack' = [stack EXCEPT ![p].pc = "idle", ![p].waiter = w, ![w].pc = "receive"]
      BY <1>5 DEF GetWaiter
    <2> DEFINE n == [stack[p] EXCEPT !.pc = "idle", !.waiter = w]
               l == "receive"
               x == [stack[w] EXCEPT !.pc = l]
    <2>2. w \in Stacks /\ w /= p
      BY <1>1, <2>1, StackIs
    <2>3. n \in StackRecords /\ n.pc = "idle"
      BY <1>3
    <2>4. x \in StackRecords /\ x.pc = l
      <3>1. l \in PCs /\ l \notin {"ready", "enqueue", "keep"} \cup NeedsWaiter
        BY Names DEF NeedsWaiter
      <3>2. stack[w] \in StackFields /\ (NeedsMutex("none", stack[w].call) => stack[w].mutex \in Mutexes)
        BY <1>1, <2>1, <2>2, Record
      <3>3. NeedsMutex(l, stack[w].call) => stack[w].mutex \in Mutexes
        BY <3>2 DEF NeedsMutex
      <3> HIDE DEF l
      <3>4. x \in StackFields /\ x.pc = l /\ x.call = stack[w].call /\ x.mutex = stack[w].mutex
        BY <3>1, <3>2 DEF StackFields
      <3> HIDE DEF x
      <3> QED BY <3>1, <3>3, <3>4 DEF StackRecords
    <2>5. stack' = [stack EXCEPT ![p] = n, ![w] = x]
      <3>1. [stack EXCEPT ![p].pc = "idle", ![p].waiter = w] = [stack EXCEPT ![p] = n]
        BY <1>1
      <3>2. stack' = [[stack EXCEPT ![p].pc = "idle", ![p].waiter = w] EXCEPT ![w].pc = "receive"]
        BY <2>1
      <3>3. [stack EXCEPT ![p] = n][w] = stack[w]
        BY <1>1, <2>2
      <3> HIDE DEF n
      <3> QED BY <3>1, <3>2, <3>3
    <2>6. l \in PCs /\ l \notin {"try", "unlock_deq", "wait_unlock"}
      BY Names
    <2> HIDE DEF n, x
    <2>7. stack' \in [Stacks -> StackRecords]
      BY <1>1, <2>3, <2>4, <2>5
    <2>8. \A s \in Stacks : stack'[s].pc \in {"try", "unlock_deq", "wait_unlock"} => stack'[s] = stack[s]
      <3>1. \A s \in Stacks \ {p, w} : stack'[s] = stack[s]
        BY <1>1, <2>5
      <3>2. stack'[p].pc = "idle" /\ stack'[w].pc = l
        BY <1>1, <2>2, <2>3, <2>4, <2>5
      <3> QED BY <2>6, <3>1, <3>2
    <2>9. MutexTypes'
      BY <1>2, <2>7 DEF MutexInv, MutexTypes
    <2> QED BY <1>2, <2>8, <2>9, Elsewhere
  <1> QED BY <1>4, <1>5

LEMMA StartWaitStep ==
    ASSUME MutexInv, NEW k, NEW p \in Cprocs, StartWait(k, p)
    PROVE  MutexInv'
  <1> DEFINE w == stack[p].waiter
             x == NewStack("receive")
             n == [NewStack("retry") EXCEPT !.mutex = stack[p].mutex]
  <1>1. /\ p \in Stacks /\ stack[p].pc = "startwait" /\ stack \in [Stacks -> StackRecords]
        /\ stack[p].mutex \in Mutexes /\ w \in Waiters
    BY StackIs, Knows DEF StartWait, At, NeedsMutex, NeedsWaiter
  <1>2. UNCHANGED <<mutex, holder, condition, ready, waiters>>
    BY DEF StartWait
  <1>3. stack' = [stack EXCEPT ![p] = n, ![w] = x]
    BY DEF StartWait
  <1>4. n \in StackRecords /\ n.pc = "retry" /\ x \in StackRecords /\ x.pc = "receive"
    BY <1>1, FreshStack
  <1>5. w \in Stacks /\ w /= p
    BY <1>1, StackIs
  <1> HIDE DEF w, n, x
  <1>6. stack' \in [Stacks -> StackRecords]
    BY <1>1, <1>3, <1>4
  <1>7. \A s \in Stacks : stack'[s].pc \in {"try", "unlock_deq", "wait_unlock"} => stack'[s] = stack[s]
    <2>1. \A s \in Stacks \ {p, w} : stack'[s] = stack[s]
      BY <1>1, <1>3
    <2>2. stack'[p].pc = "retry" /\ stack'[w].pc = "receive"
      BY <1>1, <1>3, <1>4, <1>5
    <2> QED BY <2>1, <2>2
  <1>8. MutexTypes'
    BY <1>2, <1>6 DEF MutexInv, MutexTypes
  <1> QED BY <1>2, <1>7, <1>8, Elsewhere

LEMMA YieldStep ==
    ASSUME MutexInv, NEW k, NEW p \in Cprocs, Yield(k, p)
    PROVE  MutexInv'
  <1>1. p \in Stacks /\ stack \in [Stacks -> StackRecords] /\ ready \in Seq(Cprocs) /\ ready /= <<>>
    BY StackIs DEF Yield, MutexInv, MutexTypes
  <1>2. UNCHANGED <<mutex, holder, condition, waiters>> /\ ready' \in Seq(Cprocs)
    <2>1. Tail(ready) \in Seq(Cprocs)
      BY <1>1
    <2>2. Append(Tail(ready), p) \in Seq(Cprocs)
      BY <2>1
    <2> QED BY <2>2 DEF Yield
  <1>3. Moves(p, "switch")
    <2> DEFINE l == "switch"
               b == "yield"
               h == <<Head(ready)>>
    <2>1. stack' = [stack EXCEPT ![p].pc = l, ![p].call = b, ![p].hand = h]
      BY DEF Yield
    <2>2. l \in PCs /\ b \in Calls /\ l \notin {"ready", "enqueue", "keep"} \cup NeedsWaiter /\ ~NeedsMutex(l, b)
      BY Names DEF NeedsWaiter, NeedsMutex
    <2>3. h \in Seq(Cprocs)
      BY <1>1
    <2> HIDE DEF l, b, h
    <2>4. Moves(p, l)
      BY <1>1, <2>1, <2>2, <2>3, MovesInCall
    <2> QED BY <2>4 DEF l
  <1>4. "switch" \in PCs \ {"try", "unlock_deq", "wait_unlock"}
    BY Names
  <1> QED BY <1>1, <1>2, <1>3, <1>4, MovesElsewhere DEF MutexInv, MutexTypes

LEMMA CreateStep ==
    ASSUME MutexInv, NEW k, NEW p \in Cprocs, NEW child \in Cprocs, Create(k, p, child)
    PROVE  MutexInv'
  <1>1. /\ p \in Stacks /\ child \in Stacks /\ p /= child /\ stack \in [Stacks -> StackRecords]
        /\ stack[p].pc = "user" /\ stack[child].pc = "none"
    BY StackIs DEF Create, At, MutexInv, MutexTypes
  <1>2. UNCHANGED <<mutex, holder, condition, ready, waiters>>
    BY DEF Create
  <1>3. "user" \in PCs /\ "user" \notin {"ready", "enqueue", "keep"} \cup NeedsWaiter
    BY Names DEF NeedsWaiter
  <1>4. NeedsMutex("user", stack[child].call) => stack[child].mutex \in Mutexes
    <2>1. NeedsMutex("none", stack[child].call) => stack[child].mutex \in Mutexes
      BY <1>1, Record
    <2> QED BY <2>1 DEF NeedsMutex
  <1>5. CASE Goto(child, "user")
    <2>1. Moves(child, "user")
      BY <1>1, <1>3, <1>4, <1>5, Goes
    <2> QED BY <1>1, <1>2, <1>3, <2>1, MovesElsewhere DEF MutexInv, MutexTypes
  <1>6. CASE stack' = [stack EXCEPT ![child].pc = "user", ![p].pc = "ready", ![p].call = "wake",
                                    ![p].hand = <<child>>]
    <2> DEFINE u == "user"
               x == [stack[child] EXCEPT !.pc = u]
               l == "ready"
               b == "wake"
               n == [stack[p] EXCEPT !.pc = l, !.call = b, !.hand = <<child>>]
    <2>1. stack' = [stack EXCEPT ![child].pc = u, ![p].pc = l, ![p].call = b, ![p].hand = <<child>>]
      BY <1>6
    <2>2. x \in StackRecords /\ x.pc = u
      <3>1. stack[child] \in StackFields
        BY <1>1, Record
      <3>2. u \in PCs /\ u \notin {"ready", "enqueue", "keep"} \cup NeedsWaiter
            /\ (NeedsMutex(u, stack[child].call) => stack[child].mutex \in Mutexes)
        BY <1>3, <1>4
      <3> HIDE DEF u
      <3>3. x \in StackFields /\ x.pc = u /\ x.call = stack[child].call /\ x.mutex = stack[child].mutex
        BY <3>1, <3>2 DEF StackFields
      <3> HIDE DEF x
      <3> QED BY <3>2, <3>3 DEF StackRecords
    <2>3. n \in StackRecords /\ n.pc = l
      <3>1. stack[p] \in StackFields
        BY <1>1, Record
      <3>2. l \in PCs /\ b \in Calls /\ l \notin NeedsWaiter /\ ~NeedsMutex(l, b)
            /\ <<child>> \in Seq(Cprocs) /\ <<child>> /= <<>>
        BY Names DEF NeedsWaiter, NeedsMutex
      <3> DEFINE h == <<child>>
      <3>3. h \in Seq(Cprocs) /\ h /= <<>>
        BY <3>2
      <3> HIDE DEF l, b, h
      <3>4. n \in StackFields /\ n.pc = l /\ n.call = b /\ n.hand = h
        BY <3>1, <3>2, <3>3 DEF StackFields, h
      <3> HIDE DEF n
      <3> QED BY <3>2, <3>3, <3>4 DEF StackRecords
    <2>4. stack' = [stack EXCEPT ![child] = x, ![p] = n]
      <3> HIDE DEF u, l, b
      <3>1. [stack EXCEPT ![child].pc = u] = [stack EXCEPT ![child] = x]
        BY <1>1
      <3>2. [stack EXCEPT ![child] = x][p] = stack[p] /\ DOMAIN [stack EXCEPT ![child] = x] = Stacks
        BY <1>1
      <3> DEFINE t == [stack EXCEPT ![child] = x]
      <3>3. stack' = [t EXCEPT ![p].pc = l, ![p].call = b, ![p].hand = <<child>>]
        BY <2>1, <3>1
      <3>4. t[p] = stack[p] /\ DOMAIN t = Stacks
        BY <3>2
      <3> HIDE DEF t
      <3>5. stack' = [t EXCEPT ![p] = [t[p] EXCEPT !.pc = l, !.call = b, !.hand = <<child>>]]
        BY <1>1, <3>3, <3>4
      <3>6. stack' = [t EXCEPT ![p] = n]
        BY <3>4, <3>5
      <3> QED BY <3>6 DEF t
    <2>5. u = "user" /\ l = "ready"
      OBVIOUS
    <2> HIDE DEF x, n, u, l
    <2>6. stack' \in [Stacks -> StackRecords]
      BY <1>1, <2>2, <2>3, <2>4
    <2>7. \A s \in Stacks : stack'[s].pc \in {"try", "unlock_deq", "wait_unlock"} => stack'[s] = stack[s]
      <3>1. \A s \in Stacks \ {p, child} : stack'[s] = stack[s]
        BY <1>1, <2>4
      <3>2. stack'[child].pc = u /\ stack'[p].pc = l
        BY <1>1, <2>2, <2>3, <2>4
      <3> QED BY <2>5, <3>1, <3>2
    <2>8. MutexTypes'
      BY <1>2, <2>6 DEF MutexInv, MutexTypes
    <2> QED BY <1>2, <2>7, <2>8, Elsewhere
  <1> QED BY <1>5, <1>6 DEF Create

LEMMA WireStep ==
    ASSUME MutexInv, NEW k, NEW p \in Cprocs, Wire(k, p)
    PROVE  MutexInv'
  <1>1. UNCHANGED <<stack, mutex, holder, condition, ready, waiters>>
    BY DEF Wire
  <1>2. MutexTypes'
    BY <1>1 DEF MutexInv, MutexTypes
  <1> QED BY <1>1, <1>2, Elsewhere

LEMMA MutexInit ==
    ASSUME Init
    PROVE  MutexInv
  <1>1. stack \in [Stacks -> StackRecords] /\ \A s \in Stacks : stack[s].pc \in {"none", "user"}
    <2> DEFINE l(s) == IF s = Main THEN "user" ELSE "none"
    <2>1. \A s : l(s) \in {"none", "user", "receive"} /\ l(s) \in {"none", "user"}
      OBVIOUS
    <2>2. stack = [s \in Stacks |-> NewStack(l(s))]
      BY DEF Init
    <2> HIDE DEF l
    <2> QED BY <2>1, <2>2, FreshStack
  <1>2. mutex = [m \in Mutexes |-> [held |-> FALSE, lock |-> FALSE, queue |-> <<>>]]
        /\ holder = [m \in Mutexes |-> None] /\ condition = [c \in Conditions |-> <<>>]
        /\ ready = <<>> /\ waiters = <<>>
    BY DEF Init
  <1>3. MutexTypes
    BY <1>1, <1>2 DEF MutexTypes
  <1> QED BY <1>1, <1>2, <1>3 DEF MutexInv, OneTrier, OneUnlocker, WaitersHold, LockedMutexIsHeld

LEMMA MutexStep ==
    ASSUME MutexInv, [Next]_vars
    PROVE  MutexInv'
  <1>1. CASE UNCHANGED vars
    <2>1. MutexTypes'
      BY <1>1 DEF vars, MutexInv, MutexTypes
    <2> QED BY <1>1, <2>1, Elsewhere DEF vars
  <1>2. ASSUME NEW k \in KernelThreads, NEW p \in Cprocs, UserCall(k, p)
        PROVE  MutexInv'
    BY <1>2, MutexLockStep, MutexUnlockStep, ConditionWaitStep, WakeStep, YieldStep, CreateStep, WireStep
       DEF UserCall
  <1>3. ASSUME NEW k \in KernelThreads, NEW p \in Cprocs, CprocStep(k, p)
        PROVE  MutexInv'
    BY <1>3, SolidQueueStep, SolidTryStep, RetryStep, LookForWaitersStep, UnlockSolidStep,
       UnlockDequeueStep, WaitUnlockStep, WaitBlockStep, ReadyStep, EnqueueStep, SendStep,
       ReceiveWiredStep, DequeueReadyStep, BlockSwitchStep, SwitchStep, GetWaiterStep,
       BlockIdleStep, StartWaitStep, UnwaitStep, UnwaiterStep
       DEF CprocStep
  <1>4. ASSUME NEW k \in KernelThreads, NEW w \in Waiters, WaiterStep(k, w)
        PROVE  MutexInv'
    BY <1>4, ReceiveStep, WokenStep, ResumeStep, LeaveStep, LeavingStep DEF WaiterStep
  <1> QED BY <1>1, <1>2, <1>3, <1>4 DEF Next, Step

(* A mutex is locked by one cproc, or kept held by one cproc that looks at *)
(* its queue, in mutex_lock, mutex_unlock and condition_wait.              *)
THEOREM MutexInvariant == Spec => []MutexInv
  <1>1. Init => MutexInv
    BY MutexInit
  <1>2. MutexInv /\ [Next]_vars => MutexInv'
    BY MutexStep
  <1> QED BY <1>1, <1>2, PTL DEF Spec

(* A mutex that a cproc has locked stays held until that cproc unlocks it, *)
(* though mutex_unlock_solid takes and clears m->held of mutexes that it   *)
(* does not own.                                                           *)
THEOREM LockedMutexStaysHeld == Spec => []LockedMutexIsHeld
  <1>1. MutexInv => LockedMutexIsHeld
    BY DEF MutexInv
  <1> QED BY <1>1, MutexInvariant, PTL

-----------------------------------------------------------------------------
(* Queues of distinct cprocs.                                              *)

LEMMA Headed ==
    ASSUME NEW S, NEW s \in Seq(S), s /= <<>>, IsInjective(s)
    PROVE  /\ Head(s) \in S /\ Tail(s) \in Seq(S) /\ Head(s) \in Range(s)
           /\ Range(Tail(s)) = Range(s) \ {Head(s)} /\ IsInjective(Tail(s))
           /\ Len(s) = 1 => Tail(s) = <<>> /\ s = <<Head(s)>>
  <1>1. Len(s) \in Nat /\ Len(s) >= 1 /\ DOMAIN s = 1..Len(s) /\ Head(s) = s[1]
    OBVIOUS
  <1>2. Tail(s) \in Seq(S) /\ Len(Tail(s)) = Len(s) - 1 /\ DOMAIN Tail(s) = 1..(Len(s) - 1)
        /\ \A i \in 1..(Len(s) - 1) : Tail(s)[i] = s[i + 1]
    OBVIOUS
  <1>3. IsInjective(Tail(s))
    BY <1>1, <1>2 DEF IsInjective
  <1>4. ASSUME NEW x \in Range(s) \ {Head(s)}
        PROVE  x \in Range(Tail(s))
    <2>1. PICK i \in 1..Len(s) : s[i] = x
      BY <1>1 DEF Range
    <2>2. i - 1 \in 1..(Len(s) - 1) /\ Tail(s)[i - 1] = x
      BY <1>1, <1>2, <2>1
    <2> QED BY <1>2, <2>2 DEF Range
  <1>5. ASSUME NEW x \in Range(Tail(s))
        PROVE  x \in Range(s) \ {Head(s)}
    <2>1. PICK i \in 1..(Len(s) - 1) : Tail(s)[i] = x
      BY <1>2 DEF Range
    <2>2. i + 1 \in 1..Len(s) /\ s[i + 1] = x
      BY <1>1, <1>2, <2>1
    <2> QED BY <1>1, <2>2 DEF Range, IsInjective
  <1>6. Head(s) \in S /\ Head(s) \in Range(s)
    BY <1>1 DEF Range
  <1>7. Len(s) = 1 => Tail(s) = <<>> /\ s = <<Head(s)>>
    BY <1>1, <1>2
  <1> QED BY <1>2, <1>3, <1>4, <1>5, <1>6, <1>7

LEMMA Appended ==
    ASSUME NEW S, NEW s \in Seq(S), NEW x \in S, x \notin Range(s), IsInjective(s)
    PROVE  /\ Append(s, x) \in Seq(S) /\ Range(Append(s, x)) = Range(s) \cup {x}
           /\ IsInjective(Append(s, x))
  <1>1. Len(s) \in Nat /\ DOMAIN s = 1..Len(s)
    OBVIOUS
  <1>2. /\ Append(s, x) \in Seq(S) /\ DOMAIN Append(s, x) = 1..(Len(s) + 1)
        /\ Append(s, x)[Len(s) + 1] = x /\ \A i \in 1..Len(s) : Append(s, x)[i] = s[i]
    OBVIOUS
  <1>3. \A i \in 1..Len(s) : s[i] /= x
    BY <1>1 DEF Range
  <1>4. IsInjective(Append(s, x))
    BY <1>1, <1>2, <1>3 DEF IsInjective
  <1>5. Range(Append(s, x)) = Range(s) \cup {x}
    BY <1>1, <1>2 DEF Range
  <1> QED BY <1>2, <1>4, <1>5

LEMMA Prepended ==
    ASSUME NEW S, NEW s \in Seq(S), NEW x \in S, x \notin Range(s), IsInjective(s)
    PROVE  /\ <<x>> \o s \in Seq(S) /\ Range(<<x>> \o s) = Range(s) \cup {x}
           /\ IsInjective(<<x>> \o s)
  <1> DEFINE t == <<x>> \o s
  <1>1. Len(s) \in Nat /\ DOMAIN s = 1..Len(s)
    OBVIOUS
  <1>2. /\ t \in Seq(S) /\ DOMAIN t = 1..(Len(s) + 1)
        /\ t[1] = x /\ \A i \in 2..(Len(s) + 1) : t[i] = s[i - 1]
    OBVIOUS
  <1>3. \A i \in 1..Len(s) : s[i] /= x /\ t[i + 1] = s[i]
    BY <1>1, <1>2 DEF Range
  <1> HIDE DEF t
  <1>4. \A i \in 1..(Len(s) + 1) : i = 1 \/ (i - 1 \in 1..Len(s) /\ t[i] = s[i - 1])
    BY <1>1, <1>2
  <1>5. IsInjective(t)
    <2> SUFFICES ASSUME NEW i \in 1..(Len(s) + 1), NEW j \in 1..(Len(s) + 1), t[i] = t[j]
                 PROVE  i = j
      BY <1>2 DEF IsInjective
    <2>1. CASE i = 1 \/ j = 1
      BY <1>2, <1>3, <1>4, <2>1
    <2>2. CASE i /= 1 /\ j /= 1
      <3>1. i - 1 \in DOMAIN s /\ j - 1 \in DOMAIN s /\ s[i - 1] = s[j - 1]
        BY <1>1, <1>4, <2>2
      <3>2. i - 1 = j - 1
        BY <3>1 DEF IsInjective
      <3> QED BY <3>2
    <2> QED BY <2>1, <2>2
  <1>6. Range(t) \subseteq Range(s) \cup {x}
    BY <1>1, <1>2, <1>4 DEF Range
  <1>7. Range(s) \cup {x} \subseteq Range(t)
    <2> SUFFICES ASSUME NEW y \in Range(s) PROVE y \in Range(t)
      <3>1. 1 \in DOMAIN t /\ t[1] = x
        BY <1>1, <1>2
      <3> QED BY <3>1 DEF Range
    <2>1. PICK i \in 1..Len(s) : s[i] = y
      BY <1>1 DEF Range
    <2>2. i + 1 \in DOMAIN t /\ t[i + 1] = y
      BY <1>1, <1>2, <1>3, <2>1
    <2> QED BY <2>2 DEF Range
  <1> QED BY <1>2, <1>5, <1>6, <1>7 DEF t

LEMMA Single ==
    ASSUME NEW x
    PROVE  Range(<<x>>) = {x} /\ IsInjective(<<x>>) /\ Head(<<x>>) = x /\ Len(<<x>>) = 1
           /\ <<x>> /= <<>> /\ Tail(<<x>>) = <<>>
  BY DEF Range, IsInjective

LEMMA NoCprocs == Range(<<>>) = {} /\ IsInjective(<<>>)
  BY DEF Range, IsInjective

\* The first n and the rest of a queue.
LEMMA OneLong ==
    ASSUME NEW S, NEW s \in Seq(S), Len(s) = 1
    PROVE  s /= <<>>
  OBVIOUS

LEMMA Parted ==
    ASSUME NEW S, NEW s \in Seq(S), IsInjective(s), NEW n \in 1..Len(s)
    PROVE  LET f == SubSeq(s, 1, n)
               r == SubSeq(s, n + 1, Len(s)) IN
           /\ f \in Seq(S) /\ f /= <<>> /\ IsInjective(f) /\ Range(f) \subseteq Range(s)
           /\ r \in Seq(S) /\ IsInjective(r) /\ Range(r) = Range(s) \ Range(f)
  <1> DEFINE f == SubSeq(s, 1, n)
             r == SubSeq(s, n + 1, Len(s))
  <1>1. Len(s) \in Nat /\ DOMAIN s = 1..Len(s)
    OBVIOUS
  <1>2. /\ f \in Seq(S) /\ Len(f) = n /\ DOMAIN f = 1..n /\ \A i \in 1..n : f[i] = s[i]
    OBVIOUS
  <1>3. /\ r \in Seq(S) /\ DOMAIN r = 1..(Len(s) - n) /\ \A i \in 1..(Len(s) - n) : r[i] = s[i + n]
    OBVIOUS
  <1> HIDE DEF f, r
  <1>4. ASSUME NEW i \in DOMAIN r
        PROVE  i \in Nat /\ n \in Nat /\ i + n \in DOMAIN s /\ r[i] = s[i + n] /\ i + n \notin 1..n
    <2>1. n \in Nat /\ Len(s) \in Nat /\ i \in 1..(Len(s) - n)
      BY <1>3
    <2>2. i + n > n /\ i + n \in 1..Len(s)
      BY <2>1
    <2> QED BY <1>1, <1>3, <2>1, <2>2
  <1>5. IsInjective(f) /\ Range(f) \subseteq Range(s) /\ f /= <<>>
    BY <1>1, <1>2 DEF IsInjective, Range
  <1>6. IsInjective(r)
    <2> SUFFICES ASSUME NEW i \in DOMAIN r, NEW j \in DOMAIN r, r[i] = r[j]
                 PROVE  i = j
      BY DEF IsInjective
    <2>1. i + n = j + n
      BY <1>4 DEF IsInjective
    <2> QED BY <1>4, <2>1
  <1>7. Range(r) \subseteq Range(s) \ Range(f)
    <2> SUFFICES ASSUME NEW i \in DOMAIN r PROVE r[i] \in Range(s) \ Range(f)
      BY DEF Range
    <2>1. \A j \in 1..n : j \in DOMAIN s /\ f[j] = s[j] /\ s[j] /= s[i + n]
      BY <1>1, <1>2, <1>4 DEF IsInjective
    <2> QED BY <1>2, <1>4, <2>1 DEF Range
  <1>8. ASSUME NEW x \in Range(s) \ Range(f)
        PROVE  x \in Range(r)
    <2>1. PICK i \in 1..Len(s) : s[i] = x
      BY <1>1 DEF Range
    <2>2. i \notin 1..n
      BY <1>2, <2>1 DEF Range
    <2>3. PICK k : k = i - n
      OBVIOUS
    <2>4. i \in 1..Len(s) /\ Len(s) \in Nat /\ n \in Nat
      BY <1>1
    <2>5. k \in 1..(Len(s) - n) /\ k + n = i
      BY ONLY <2>2, <2>3, <2>4
    <2>6. k \in DOMAIN r /\ r[k] = x
      BY <1>3, <2>1, <2>5
    <2> QED BY <2>6 DEF Range
  <1>9. f \in Seq(S) /\ f /= <<>> /\ IsInjective(f) /\ Range(f) \subseteq Range(s)
        /\ r \in Seq(S) /\ IsInjective(r) /\ Range(r) = Range(s) \ Range(f)
    BY <1>2, <1>3, <1>5, <1>6, <1>7, <1>8
  <1> QED BY <1>9 DEF f, r


-----------------------------------------------------------------------------
(* The chains, one by one.                                                 *)

Apart ==
    /\ IsInjective(ready)
    /\ \A m \in Mutexes : IsInjective(mutex[m].queue)
    /\ \A c \in Conditions : IsInjective(condition[c])
    /\ \A s \in Stacks : IsInjective(stack[s].hand)
    /\ \A q \in Cprocs : q \in Range(ready) =>
          /\ \A m \in Mutexes : q \notin Range(mutex[m].queue)
          /\ \A c \in Conditions : q \notin Range(condition[c])
          /\ \A s \in Stacks : q \notin Range(stack[s].hand)
    /\ \A q \in Cprocs, m \in Mutexes : q \in Range(mutex[m].queue) =>
          /\ \A n \in Mutexes \ {m} : q \notin Range(mutex[n].queue)
          /\ \A c \in Conditions : q \notin Range(condition[c])
          /\ \A s \in Stacks : q \notin Range(stack[s].hand)
    /\ \A q \in Cprocs, c \in Conditions : q \in Range(condition[c]) =>
          /\ \A d \in Conditions \ {c} : q \notin Range(condition[d])
          /\ \A s \in Stacks : q \notin Range(stack[s].hand)
    /\ \A q \in Cprocs, s \in Stacks : q \in Range(stack[s].hand) =>
          \A r \in Stacks \ {s} : q \notin Range(stack[r].hand)

OnChain(q) ==
    \/ q \in Range(ready)
    \/ \E m \in Mutexes : q \in Range(mutex[m].queue)
    \/ \E c \in Conditions : q \in Range(condition[c])
    \/ \E s \in Stacks : q \in Range(stack[s].hand)

LEMMA ChainsAre ==
    /\ <<"ready", None>> \in Chains /\ Chain(<<"ready", None>>) = ready
    /\ \A m \in Mutexes : <<"mutex", m>> \in Chains /\ Chain(<<"mutex", m>>) = mutex[m].queue
    /\ \A c \in Conditions : <<"condition", c>> \in Chains /\ Chain(<<"condition", c>>) = condition[c]
    /\ \A s \in Stacks : <<"hand", s>> \in Chains /\ Chain(<<"hand", s>>) = stack[s].hand
    /\ \A x \in Chains : \/ x = <<"ready", None>>
                         \/ \E m \in Mutexes : x = <<"mutex", m>>
                         \/ \E c \in Conditions : x = <<"condition", c>>
                         \/ \E s \in Stacks : x = <<"hand", s>>
  BY DEF Chains, Chain

ChainsApart == (OneLink <=> Apart) /\ (\A q : Linked(q) <=> OnChain(q))

LEMMA ChainsAreApart == ChainsApart
  <1>1. ASSUME OneLink PROVE Apart
    <2>1. /\ IsInjective(ready)
          /\ \A m \in Mutexes : IsInjective(mutex[m].queue)
          /\ \A c \in Conditions : IsInjective(condition[c])
          /\ \A s \in Stacks : IsInjective(stack[s].hand)
      <3>1. IsInjective(ready)
        BY <1>1, ChainsAre DEF OneLink
      <3>2. ASSUME NEW m \in Mutexes PROVE IsInjective(mutex[m].queue)
        BY <1>1, ChainsAre DEF OneLink
      <3>3. ASSUME NEW c \in Conditions PROVE IsInjective(condition[c])
        BY <1>1, ChainsAre DEF OneLink
      <3>4. ASSUME NEW s \in Stacks PROVE IsInjective(stack[s].hand)
        BY <1>1, ChainsAre DEF OneLink
      <3> QED BY <3>1, <3>2, <3>3, <3>4
    <2>2. \A x, y \in Chains : \A q \in Cprocs : In(x, q) /\ In(y, q) => x = y
      BY <1>1 DEF OneLink
    <2>3. \A q \in Cprocs : In(<<"ready", None>>, q) <=> q \in Range(ready)
      BY ChainsAre DEF In
    <2>4. \A q \in Cprocs, m \in Mutexes : In(<<"mutex", m>>, q) <=> q \in Range(mutex[m].queue)
      BY ChainsAre DEF In
    <2>5. \A q \in Cprocs, c \in Conditions : In(<<"condition", c>>, q) <=> q \in Range(condition[c])
      BY ChainsAre DEF In
    <2>6. \A q \in Cprocs, s \in Stacks : In(<<"hand", s>>, q) <=> q \in Range(stack[s].hand)
      BY ChainsAre DEF In
    <2>7. \A q \in Cprocs : q \in Range(ready) =>
             /\ \A m \in Mutexes : q \notin Range(mutex[m].queue)
             /\ \A c \in Conditions : q \notin Range(condition[c])
             /\ \A s \in Stacks : q \notin Range(stack[s].hand)
      <3> SUFFICES ASSUME NEW q \in Cprocs, In(<<"ready", None>>, q)
                   PROVE  /\ \A m \in Mutexes : ~In(<<"mutex", m>>, q)
                          /\ \A c \in Conditions : ~In(<<"condition", c>>, q)
                          /\ \A s \in Stacks : ~In(<<"hand", s>>, q)
        BY <2>3, <2>4, <2>5, <2>6
      <3> QED BY <2>2, ChainsAre
    <2>8. \A q \in Cprocs, m \in Mutexes : q \in Range(mutex[m].queue) =>
             /\ \A n \in Mutexes \ {m} : q \notin Range(mutex[n].queue)
             /\ \A c \in Conditions : q \notin Range(condition[c])
             /\ \A s \in Stacks : q \notin Range(stack[s].hand)
      <3> SUFFICES ASSUME NEW q \in Cprocs, NEW m \in Mutexes, In(<<"mutex", m>>, q)
                   PROVE  /\ \A n \in Mutexes \ {m} : ~In(<<"mutex", n>>, q)
                          /\ \A c \in Conditions : ~In(<<"condition", c>>, q)
                          /\ \A s \in Stacks : ~In(<<"hand", s>>, q)
        BY <2>4, <2>5, <2>6
      <3> QED BY <2>2, ChainsAre
    <2>9. \A q \in Cprocs, c \in Conditions : q \in Range(condition[c]) =>
             /\ \A d \in Conditions \ {c} : q \notin Range(condition[d])
             /\ \A s \in Stacks : q \notin Range(stack[s].hand)
      <3> SUFFICES ASSUME NEW q \in Cprocs, NEW c \in Conditions, In(<<"condition", c>>, q)
                   PROVE  /\ \A d \in Conditions \ {c} : ~In(<<"condition", d>>, q)
                          /\ \A s \in Stacks : ~In(<<"hand", s>>, q)
        BY <2>5, <2>6
      <3> QED BY <2>2, ChainsAre
    <2>10. \A q \in Cprocs, s \in Stacks : q \in Range(stack[s].hand) =>
             \A r \in Stacks \ {s} : q \notin Range(stack[r].hand)
      <3> SUFFICES ASSUME NEW q \in Cprocs, NEW s \in Stacks, In(<<"hand", s>>, q)
                   PROVE  \A r \in Stacks \ {s} : ~In(<<"hand", r>>, q)
        BY <2>6
      <3> QED BY <2>2, ChainsAre
    <2> QED BY <2>1, <2>7, <2>8, <2>9, <2>10 DEF Apart
  <1>2. ASSUME Apart PROVE OneLink
    <2>1. ASSUME NEW x \in Chains PROVE IsInjective(Chain(x))
      BY <1>2, ChainsAre DEF Apart
    <2>2. ASSUME NEW x \in Chains, NEW y \in Chains, NEW q \in Cprocs, In(x, q), In(y, q)
          PROVE  x = y
      <3>1. q \in Range(Chain(x)) /\ q \in Range(Chain(y))
        BY <2>2 DEF In
      <3>2. CASE x = <<"ready", None>>
        BY <1>2, <3>1, <3>2, ChainsAre DEF Apart
      <3>3. ASSUME NEW m \in Mutexes, x = <<"mutex", m>> PROVE x = y
        BY <1>2, <3>1, <3>3, ChainsAre DEF Apart
      <3>4. ASSUME NEW c \in Conditions, x = <<"condition", c>> PROVE x = y
        BY <1>2, <3>1, <3>4, ChainsAre DEF Apart
      <3>5. ASSUME NEW s \in Stacks, x = <<"hand", s>> PROVE x = y
        BY <1>2, <3>1, <3>5, ChainsAre DEF Apart
      <3> QED BY <3>2, <3>3, <3>4, <3>5, ChainsAre
    <2> QED BY <2>1, <2>2 DEF OneLink
  <1>3. ASSUME NEW q PROVE Linked(q) <=> OnChain(q)
    <2>1. ASSUME NEW x \in Chains, In(x, q) PROVE OnChain(q)
      BY <2>1, ChainsAre DEF In, OnChain
    <2>2. ASSUME OnChain(q) PROVE \E x \in Chains : In(x, q)
      BY <2>2, ChainsAre DEF In, OnChain
    <2> QED BY <2>1, <2>2 DEF Linked
  <1> QED BY <1>1, <1>2, <1>3 DEF ChainsApart

LEMMA ChainsAreApartNext == ChainsApart'
  BY ChainsAreApart, PTL

-----------------------------------------------------------------------------
(* How a step changes a stack.                                             *)

Becomes(s, pc, call, m, queued, w, hand) ==
    /\ stack'[s].pc = pc /\ stack'[s].call = call /\ stack'[s].mutex = m
    /\ stack'[s].queued = queued /\ stack'[s].waiter = w /\ stack'[s].hand = hand
    /\ \A r \in Stacks \ {s} : stack'[r] = stack[r]

LEMMA GotoBecomes ==
    ASSUME MutexInv, NEW s \in Stacks, NEW l, Goto(s, l)
    PROVE  Becomes(s, l, stack[s].call, stack[s].mutex, stack[s].queued, stack[s].waiter, stack[s].hand)
  BY Record DEF MutexInv, MutexTypes, Goto, Becomes

LEMMA ReturnBecomes ==
    ASSUME MutexInv, NEW s \in Stacks, NEW l, Return(s, l)
    PROVE  Becomes(s, l, "none", IF l = "user" THEN None ELSE stack[s].mutex, FALSE, None, <<>>)
  BY Record DEF MutexInv, MutexTypes, Return, NewStack, Becomes

LEMMA ReadiedBecomes ==
    ASSUME MutexInv, NEW s \in Stacks, NEW rest, Readied(s, rest)
    PROVE  IF rest = <<>>
           THEN LET l == AfterReady(stack[s].call) IN
                Becomes(s, l, "none", IF l = "user" THEN None ELSE stack[s].mutex, FALSE, None, <<>>)
           ELSE Becomes(s, "ready", stack[s].call, stack[s].mutex, stack[s].queued, stack[s].waiter, rest)
  <1>1. CASE rest = <<>>
    BY <1>1, ReturnBecomes DEF Readied
  <1>2. CASE rest /= <<>>
    <2>1. stack' = [stack EXCEPT ![s].hand = rest, ![s].pc = "ready"]
      BY <1>2 DEF Readied
    <2> QED BY <1>2, <2>1, Record DEF MutexInv, MutexTypes, Becomes
  <1> QED BY <1>1, <1>2

LEMMA BlockBecomes ==
    ASSUME MutexInv, NEW s \in Stacks, StartBlock(s)
    PROVE  Becomes(s, IF wired[s] THEN "wired" ELSE "block", "block", stack[s].mutex, FALSE,
                   stack[s].waiter, stack[s].hand)
  BY Record DEF MutexInv, MutexTypes, StartBlock, Becomes

LEMMA HandBecomes ==
    ASSUME MutexInv, NEW s \in Stacks, NEW l, NEW h, stack' = [stack EXCEPT ![s].pc = l, ![s].hand = h]
    PROVE  Becomes(s, l, stack[s].call, stack[s].mutex, stack[s].queued, stack[s].waiter, h)
  BY Record DEF MutexInv, MutexTypes, Becomes

LEMMA CallBecomes ==
    ASSUME MutexInv, NEW s \in Stacks, NEW l, NEW b, NEW h,
           stack' = [stack EXCEPT ![s].pc = l, ![s].call = b, ![s].hand = h]
    PROVE  Becomes(s, l, b, stack[s].mutex, stack[s].queued, stack[s].waiter, h)
  BY Record DEF MutexInv, MutexTypes, Becomes

LEMMA MutexBecomes ==
    ASSUME MutexInv, NEW s \in Stacks, NEW l, NEW m,
           stack' = [stack EXCEPT ![s].pc = l, ![s].mutex = m]
    PROVE  Becomes(s, l, stack[s].call, m, stack[s].queued, stack[s].waiter, stack[s].hand)
  BY Record DEF MutexInv, MutexTypes, Becomes

LEMMA ReleaseBecomes ==
    ASSUME MutexInv, NEW s \in Stacks, NEW m, NEW b, Release(s, m, b)
    PROVE  Becomes(s, "unlock", b, m, stack[s].queued, stack[s].waiter, stack[s].hand)
  BY Record DEF MutexInv, MutexTypes, Release, Becomes

LEMMA QueuedBecomes ==
    ASSUME MutexInv, NEW s \in Stacks, NEW l, NEW q,
           stack' = [stack EXCEPT ![s].pc = l, ![s].queued = q]
    PROVE  Becomes(s, l, stack[s].call, stack[s].mutex, q, stack[s].waiter, stack[s].hand)
  BY Record DEF MutexInv, MutexTypes, Becomes

LEMMA WaiterBecomes ==
    ASSUME MutexInv, NEW s \in Stacks, NEW l, NEW w,
           stack' = [stack EXCEPT ![s].pc = l, ![s].waiter = w]
    PROVE  Becomes(s, l, stack[s].call, stack[s].mutex, stack[s].queued, w, stack[s].hand)
  BY Record DEF MutexInv, MutexTypes, Becomes

-----------------------------------------------------------------------------
(* Whoever a step does not concern stays as it is.                         *)

Agrees(q) == CprocAgrees(q) /\ LinkAgrees(q)

SameState(q) ==
    /\ stack'[q] = stack[q] /\ state'[q] = state[q]
    /\ wired'[q] = wired[q] /\ messages'[q] = messages[q]
    /\ Running(q)' <=> Running(q)
    /\ Trying(q) => mutex'[stack[q].mutex].queue = mutex[stack[q].mutex].queue

SamePlace(q) ==
    /\ OnChain(q)' <=> OnChain(q)
    /\ q \in Range(ready') => q \in Range(ready)
    /\ \A m \in Mutexes : q \in Range(mutex'[m].queue) => q \in Range(mutex[m].queue)
    /\ \A c \in Conditions : q \in Range(condition'[c]) => q \in Range(condition[c])
    /\ \A s \in Stacks : q \in Range(stack'[s].hand) =>
          /\ q \in Range(stack[s].hand)
          /\ stack'[s].pc = stack[s].pc
          /\ stack'[s].pc = "enqueue" => stack'[s].hand = stack[s].hand

LEMMA SameFits ==
    ASSUME NEW q, SameState(q)
    PROVE  /\ Blocked(q)' <=> Blocked(q)
           /\ Asking(q)' <=> Asking(q)
           /\ Trying(q)' <=> Trying(q)
           /\ Suspending(q)' <=> Suspending(q)
  BY DEF SameState, Blocked, Asking, Trying, Suspending

LEMMA Bystander ==
    ASSUME NEW q \in Cprocs, Agrees(q), SameState(q), SamePlace(q)
    PROVE  Agrees(q)'
  <1>1. Linked(q)' <=> Linked(q)
    BY ChainsAreApart, ChainsAreApartNext DEF ChainsApart, SamePlace
  <1>2. CprocAgrees(q)'
    BY <1>1, SameFits DEF Agrees, CprocAgrees, SameState, Trying
  <1>3. LinkAgrees(q)'
    <2>1. (q \in Range(ready))' => Blocked(q)'
      BY SameFits DEF Agrees, LinkAgrees, SamePlace
    <2>2. \A m \in Mutexes : (q \in Range(mutex[m].queue))' =>
             /\ stack'[q].mutex = m /\ stack'[q].call /= "yield"
             /\ stack'[q].pc \in InBlock \cup {"try", "wired", "switch", "startwait", "retry"}
             /\ Trying(q)' \/ Blocked(q)' \/ Asking(q)'
      BY SameFits DEF Agrees, LinkAgrees, SamePlace, SameState
    <2>3. \A c \in Conditions : (q \in Range(condition[c]))' => Blocked(q)' \/ Asking(q)'
      BY SameFits DEF Agrees, LinkAgrees, SamePlace
    <2>4. ASSUME NEW s \in Stacks, q \in Range(stack'[s].hand)
          PROVE  CASE stack'[s].pc \in {"ready", "send"} -> Blocked(q)' \/ Asking(q)'
                   [] stack'[s].pc = "enqueue" -> Blocked(q)' \/ (Asking(q)' /\ q /= Head(stack'[s].hand))
                   [] stack'[s].pc \in {"keep", "switch", "resume"} -> Blocked(q)'
                   [] OTHER -> ~Running(q)' /\ ~wired'[q] /\ state'[q] = {}
      BY <2>4, SameFits DEF Agrees, LinkAgrees, SamePlace, SameState
    <2> QED BY <2>1, <2>2, <2>3, <2>4 DEF LinkAgrees
  <1> QED BY <1>2, <1>3 DEF Agrees

LEMMA Keeps ==
    ASSUME PlaceInv, OneThreadPerStack', NEW S, NEW T,
           \A r \in Stacks \ T : stack'[r] = stack[r] /\ lock'[r] = lock[r] /\ (Running(r)' <=> Running(r)),
           Apart',
           \A q \in Cprocs \ S : SameState(q) /\ SamePlace(q),
           \A q \in Cprocs \cap S : Agrees(q)',
           \A r \in Stacks \cap T : HandAgrees(r)' /\ StackAgrees(r)',
           WaitersAgree'
    PROVE  PlaceInv'
  <1>1. OneLink'
    BY ChainsAreApartNext DEF ChainsApart
  <1>2. \A q \in Cprocs : Agrees(q)'
    BY Bystander DEF PlaceInv, CprocsAgree, Agrees
  <1>3. \A r \in Stacks : HandAgrees(r)' /\ StackAgrees(r)'
    BY DEF PlaceInv, StacksAgree, HandAgrees, StackAgrees
  <1> QED BY <1>1, <1>2, <1>3 DEF PlaceInv, CprocsAgree, StacksAgree, Agrees

LEMMA StepKeeps ==
    ASSUME PlaceInv, on' = on, NEW s \in Stacks, NEW S,
           \A r \in Stacks \ {s} : stack'[r] = stack[r] /\ lock'[r] = lock[r],
           Apart',
           \A q \in Cprocs : q \notin S /\ q /= s => SameState(q) /\ SamePlace(q),
           \A q \in Cprocs : q \in S \/ q = s => Agrees(q)',
           HandAgrees(s)', StackAgrees(s)', WaitersAgree'
    PROVE  PlaceInv'
  <1>1. OneThreadPerStack' /\ \A q : Running(q)' <=> Running(q)
    BY DEF PlaceInv, OneThreadPerStack, Running
  <1> DEFINE U == S \cup {s}
             T == {s}
  <1>2. /\ \A r \in Stacks \ T : stack'[r] = stack[r] /\ lock'[r] = lock[r] /\ (Running(r)' <=> Running(r))
        /\ \A q \in Cprocs \ U : SameState(q) /\ SamePlace(q)
        /\ \A q \in Cprocs \cap U : Agrees(q)'
        /\ \A r \in Stacks \cap T : HandAgrees(r)' /\ StackAgrees(r)'
    BY <1>1
  <1> HIDE DEF U, T
  <1> QED BY <1>1, <1>2, Keeps

\* Nothing is linked or unlinked.
LEMMA StillApart ==
    ASSUME PlaceInv, NEW s \in Stacks, UNCHANGED <<ready, condition>>,
           \A m \in Mutexes : mutex'[m].queue = mutex[m].queue,
           \A r \in Stacks \ {s} : stack'[r] = stack[r], stack'[s].hand = stack[s].hand
    PROVE  /\ Apart'
           /\ \A q : OnChain(q)' <=> OnChain(q)
           /\ \A q \in Cprocs : q \notin Range(stack[s].hand) => SamePlace(q)
           /\ stack'[s].pc = stack[s].pc => \A q \in Cprocs : SamePlace(q)
  <1>1. Apart
    BY ChainsAreApart DEF PlaceInv, ChainsApart
  <1>2. \A r \in Stacks : stack'[r].hand = stack[r].hand
    OBVIOUS
  <1>3. Apart'
    BY <1>1, <1>2 DEF Apart
  <1>4. \A q : OnChain(q)' <=> OnChain(q)
    BY <1>2 DEF OnChain
  <1> QED BY <1>2, <1>3, <1>4 DEF SamePlace

\* The waiting stacks stay where they are.
LEMMA WaitersKept ==
    ASSUME MutexInv, PlaceInv, \A w \in Waiters : Running(w)' <=> Running(w), NEW s \in Stacks, waiters' = waiters,
           \A r \in Stacks \ {s} : stack'[r] = stack[r], stack'[s].waiter = stack[s].waiter,
           stack'[s].pc \notin NeedsWaiter => stack'[s].waiter = None,
           s \in Cprocs \/ (stack'[s].pc /= "none"
                            /\ (stack[s].pc \in {"receive", "leaving"} /\ (Running(s) => stack[s].pc = "leaving")
                                => stack'[s].pc \in {"receive", "leaving"}
                                   /\ (Running(s) => stack'[s].pc = "leaving")))
    PROVE  WaitersAgree'
  <1>1. WaitersAgree /\ \A r \in Stacks : stack'[r].waiter = stack[r].waiter
    BY DEF PlaceInv
  <1>2. \A w \in Waiters : w \in Stacks /\ w \notin Cprocs
    BY StackIs
  <1>3. /\ IsInjective(waiters') /\ \A r \in Stacks : stack'[r].waiter \notin Range(waiters')
        /\ \A r, t \in Stacks : stack'[r].waiter = stack'[t].waiter /\ r /= t => stack'[t].waiter = None
    BY <1>1 DEF WaitersAgree
  <1>4. \A r \in Stacks : stack'[r].pc \notin NeedsWaiter => stack'[r].waiter = None
    BY <1>1 DEF WaitersAgree
  <1>5. ASSUME NEW w \in Waiters, w \in Range(waiters) \/ \E r \in Stacks : stack[r].waiter = w
        PROVE  stack'[w].pc \in {"receive", "leaving"} /\ (Running(w)' => stack'[w].pc = "leaving")
    BY <1>1, <1>2, <1>5 DEF WaitersAgree
  <1>6. ASSUME NEW w \in Waiters, stack'[w].pc = "none"
        PROVE  ~Running(w)'
    BY <1>1, <1>2, <1>6 DEF WaitersAgree
  <1> QED BY <1>1, <1>3, <1>4, <1>5, <1>6 DEF WaitersAgree

LEMMA Here ==
    ASSUME MutexInv, PlaceInv, NEW k \in KernelThreads, NEW s \in Stacks, NEW l, At(k, s, l)
    PROVE  /\ on[k] = s /\ stack[s].pc = l /\ Running(s) /\ s /= None
           /\ l \notin Handing => stack[s].hand = <<>>
           /\ l \notin NeedsWaiter => stack[s].waiter = None
           /\ stack[s].hand \in Seq(Cprocs) /\ stack[s].call \in Calls
           /\ NeedsMutex(l, stack[s].call) => stack[s].mutex \in Mutexes
           /\ HandAgrees(s) /\ StackAgrees(s) /\ (s \in Cprocs => Agrees(s))
           /\ stack[s].call \in CallsAt(l)
  BY Knows, Record DEF StackAgrees, At, Running, PlaceInv, CprocsAgree, StacksAgree, WaitersAgree, HandAgrees, Agrees

LEMMA AfterReadyIs ==
    ASSUME NEW c \in Calls
    PROVE  /\ AfterReady(c) \in {"user", "retry", "wait_block"}
           /\ (AfterReady(c) = "wait_block") <=> (c = "wait")
           /\ (AfterReady(c) = "retry") <=> (c = "block")
           /\ CallsAt(AfterReady(c)) = {"none"}
           /\ AfterReady(c) \in PCs
  BY Names DEF AfterReady, Calls, CallsAt, InBlock, NeedsWaiter

LEMMA WaitersStay ==
    ASSUME MutexInv, PlaceInv, on' = on, NEW s \in Stacks, waiters' = waiters,
           \A r \in Stacks \ {s} : stack'[r] = stack[r], stack'[s].waiter = stack[s].waiter,
           stack'[s].pc \notin NeedsWaiter => stack'[s].waiter = None,
           s \in Cprocs \/ (stack'[s].pc /= "none"
                            /\ (stack[s].pc \in {"receive", "leaving"} /\ (Running(s) => stack[s].pc = "leaving")
                                => stack'[s].pc \in {"receive", "leaving"}
                                   /\ (Running(s) => stack'[s].pc = "leaving")))
    PROVE  WaitersAgree'
  <1>1. \A w \in Waiters : Running(w)' <=> Running(w)
    BY DEF Running
  <1> QED BY <1>1, WaitersKept

\* The mutex that a cproc needs is one, and its fields are those of its type.
LEMMA MutexFields ==
    ASSUME MutexInv
    PROVE  /\ \A m \in Mutexes : mutex[m].queue \in Seq(Cprocs) /\ Range(mutex[m].queue) \subseteq Cprocs
           /\ \A c \in Conditions : condition[c] \in Seq(Cprocs) /\ Range(condition[c]) \subseteq Cprocs
           /\ ready \in Seq(Cprocs) /\ Range(ready) \subseteq Cprocs
           /\ \A s \in Stacks : stack[s].hand \in Seq(Cprocs) /\ Range(stack[s].hand) \subseteq Cprocs
           /\ mutex \in [Mutexes -> [held: BOOLEAN, lock: BOOLEAN, queue: Seq(Cprocs)]]
           /\ condition \in [Conditions -> Seq(Cprocs)]
  <1>1. ASSUME NEW q \in Seq(Cprocs) PROVE Range(q) \subseteq Cprocs
    BY DEF Range
  <1> QED BY <1>1, Knows DEF MutexInv, MutexTypes

LEMMA HeldOnly ==
    ASSUME MutexInv, NEW m \in Mutexes, NEW h, mutex' = [mutex EXCEPT ![m].held = h] \/ mutex' = mutex
    PROVE  \A n \in Mutexes : mutex'[n].queue = mutex[n].queue /\ mutex'[n].lock = mutex[n].lock
  BY MutexFields

-----------------------------------------------------------------------------
(* What moves from a queue to another.                                     *)

Injective ==
    /\ IsInjective(ready)
    /\ \A m \in Mutexes : IsInjective(mutex[m].queue)
    /\ \A c \in Conditions : IsInjective(condition[c])
    /\ \A s \in Stacks : IsInjective(stack[s].hand)

\* After the step q is in the queues where it was; or in y if in any.
Stays(q) ==
    /\ q \in Range(ready') <=> q \in Range(ready)
    /\ \A m \in Mutexes : q \in Range(mutex'[m].queue) <=> q \in Range(mutex[m].queue)
    /\ \A c \in Conditions : q \in Range(condition'[c]) <=> q \in Range(condition[c])
    /\ \A s \in Stacks : q \in Range(stack'[s].hand) <=> q \in Range(stack[s].hand)
OnlyAt(q, y) ==
    /\ q \in Range(ready') => y = <<"ready", None>>
    /\ \A m \in Mutexes : q \in Range(mutex'[m].queue) => y = <<"mutex", m>>
    /\ \A c \in Conditions : q \in Range(condition'[c]) => y = <<"condition", c>>
    /\ \A s \in Stacks : q \in Range(stack'[s].hand) => y = <<"hand", s>>

LEMMA Moved ==
    ASSUME PlaceInv, NEW S, Injective',
           \A q \in Cprocs \ S : Stays(q),
           \A q \in Cprocs \cap S : \E y : OnlyAt(q, y)
    PROVE  Apart'
  <1>1. Apart
    BY ChainsAreApart DEF PlaceInv, ChainsApart
  <1>2. ASSUME NEW q \in Cprocs, Stays(q)
        PROVE  /\ q \in Range(ready') =>
                    /\ \A m \in Mutexes : q \notin Range(mutex'[m].queue)
                    /\ \A c \in Conditions : q \notin Range(condition'[c])
                    /\ \A s \in Stacks : q \notin Range(stack'[s].hand)
               /\ \A m \in Mutexes : q \in Range(mutex'[m].queue) =>
                    /\ \A n \in Mutexes \ {m} : q \notin Range(mutex'[n].queue)
                    /\ \A c \in Conditions : q \notin Range(condition'[c])
                    /\ \A s \in Stacks : q \notin Range(stack'[s].hand)
               /\ \A c \in Conditions : q \in Range(condition'[c]) =>
                    /\ \A d \in Conditions \ {c} : q \notin Range(condition'[d])
                    /\ \A s \in Stacks : q \notin Range(stack'[s].hand)
               /\ \A s \in Stacks : q \in Range(stack'[s].hand) =>
                    \A r \in Stacks \ {s} : q \notin Range(stack'[r].hand)
    BY <1>1, <1>2 DEF Apart, Stays
  <1>3. ASSUME NEW q \in Cprocs, NEW y, OnlyAt(q, y)
        PROVE  /\ q \in Range(ready') =>
                    /\ \A m \in Mutexes : q \notin Range(mutex'[m].queue)
                    /\ \A c \in Conditions : q \notin Range(condition'[c])
                    /\ \A s \in Stacks : q \notin Range(stack'[s].hand)
               /\ \A m \in Mutexes : q \in Range(mutex'[m].queue) =>
                    /\ \A n \in Mutexes \ {m} : q \notin Range(mutex'[n].queue)
                    /\ \A c \in Conditions : q \notin Range(condition'[c])
                    /\ \A s \in Stacks : q \notin Range(stack'[s].hand)
               /\ \A c \in Conditions : q \in Range(condition'[c]) =>
                    /\ \A d \in Conditions \ {c} : q \notin Range(condition'[d])
                    /\ \A s \in Stacks : q \notin Range(stack'[s].hand)
               /\ \A s \in Stacks : q \in Range(stack'[s].hand) =>
                    \A r \in Stacks \ {s} : q \notin Range(stack'[r].hand)
    BY <1>3 DEF OnlyAt
  <1> QED BY <1>2, <1>3 DEF Apart, Injective

\* What follows for a cproc from where it is after the step.
LEMMA StaysLinked ==
    ASSUME NEW q, Stays(q)
    PROVE  (OnChain(q)' <=> OnChain(q)) /\ (Linked(q)' <=> Linked(q))
  <1>1. OnChain(q)' <=> OnChain(q)
    BY DEF Stays, OnChain
  <1> QED BY <1>1, ChainsAreApart, ChainsAreApartNext DEF ChainsApart

LEMMA AtQueue ==
    ASSUME NEW q \in Cprocs
    PROVE  /\ OnlyAt(q, <<"ready", None>>) /\ Blocked(q)' => LinkAgrees(q)'
           /\ \A m \in Mutexes :
                 OnlyAt(q, <<"mutex", m>>) /\ stack'[q].mutex = m /\ stack'[q].call /= "yield"
                 /\ stack'[q].pc \in InBlock \cup {"try", "wired", "switch", "startwait", "retry"}
                 /\ (Trying(q)' \/ Blocked(q)' \/ Asking(q)') => LinkAgrees(q)'
           /\ \A c \in Conditions :
                 OnlyAt(q, <<"condition", c>>) /\ (Blocked(q)' \/ Asking(q)') => LinkAgrees(q)'
  BY DEF OnlyAt, LinkAgrees

HandFits(q, s) ==
    CASE stack[s].pc \in {"ready", "send"} -> Blocked(q) \/ Asking(q)
      [] stack[s].pc = "enqueue" -> Blocked(q) \/ (Asking(q) /\ q /= Head(stack[s].hand))
      [] stack[s].pc \in {"keep", "switch", "resume"} -> Blocked(q)
      [] OTHER -> ~Running(q) /\ ~wired[q] /\ state[q] = {}

LEMMA AtHand ==
    ASSUME NEW q \in Cprocs, NEW s \in Stacks, OnlyAt(q, <<"hand", s>>), HandFits(q, s)'
    PROVE  LinkAgrees(q)'
  <1>1. \A r \in Stacks : q \in Range(stack'[r].hand) => r = s
    BY DEF OnlyAt
  <1>2. \A r \in Stacks : q \in Range(stack'[r].hand) =>
           CASE stack'[r].pc \in {"ready", "send"} -> Blocked(q)' \/ Asking(q)'
             [] stack'[r].pc = "enqueue" -> Blocked(q)' \/ (Asking(q)' /\ q /= Head(stack'[r].hand))
             [] stack'[r].pc \in {"keep", "switch", "resume"} -> Blocked(q)'
             [] OTHER -> ~Running(q)' /\ ~wired'[q] /\ state'[q] = {}
    BY <1>1 DEF HandFits
  <1> QED BY <1>2 DEF OnlyAt, LinkAgrees

LEMMA Unlinked ==
    ASSUME NEW q \in Cprocs, ~OnChain(q)'
    PROVE  LinkAgrees(q)' /\ ~Linked(q)' /\ \A y : OnlyAt(q, y)
  BY ChainsAreApartNext DEF ChainsApart, LinkAgrees, OnChain, OnlyAt

\* A cproc that only goes from one queue to another.
LEMMA OnlyMoved ==
    ASSUME NEW q \in Cprocs, Agrees(q), SameState(q), Linked(q)' <=> Linked(q), LinkAgrees(q)'
    PROVE  Agrees(q)'
  BY SameFits DEF Agrees, CprocAgrees, SameState, Trying

\* The cprocs in S go from one queue to another; in a step of the stack s, which
\* then has h in hand, the others stay as they are.
Relinks(S) ==
    /\ Injective'
    /\ \A q \in Cprocs \ S : Stays(q)
    /\ \A q \in Cprocs \cap S : \E y : OnlyAt(q, y)
Others(s, S, h) ==
    \A q \in Cprocs : q \notin S /\ q /= s =>
        /\ state'[q] = state[q] /\ wired'[q] = wired[q] /\ messages'[q] = messages[q]
        /\ q \notin Range(h)
        /\ Trying(q) => mutex'[stack[q].mutex].queue = mutex[stack[q].mutex].queue
MovedAgree(S) == \A q \in Cprocs \cap S : Agrees(q)'

\* A step of the stack s, by which the cprocs in S go from one queue to another.
LEMMA Transfer ==
    ASSUME MutexInv, PlaceInv, on' = on, NEW s \in Stacks,
           NEW l, NEW b, NEW n, NEW queued, NEW w, NEW h, Becomes(s, l, b, n, queued, w, h),
           \A r \in Stacks \ {s} : lock'[r] = lock[r],
           NEW S, Relinks(S), Others(s, S, h), MovedAgree(S \cup {s}),
           HandAgrees(s)', StackAgrees(s)', WaitersAgree'
    PROVE  PlaceInv'
  <1>1. \A r \in Stacks \ {s} : stack'[r] = stack[r]
    BY DEF Becomes
  <1>2. Apart'
    BY Moved DEF Relinks
  <1>3. ASSUME NEW q \in Cprocs, q \notin S, q /= s
        PROVE  SameState(q) /\ SamePlace(q)
    <2>1. q \in Stacks /\ stack'[q] = stack[q] /\ (Running(q)' <=> Running(q))
      BY <1>1, <1>3, StackIs DEF Running
    <2>2. SameState(q)
      BY <1>3, <2>1 DEF SameState, Others
    <2>3. OnChain(q)' <=> OnChain(q)
      BY <1>3, StaysLinked DEF Relinks
    <2>4. \A r \in Stacks : q \in Range(stack'[r].hand) => r /= s
      BY <1>3 DEF Becomes, Others
    <2> QED BY <1>1, <1>3, <2>2, <2>3, <2>4 DEF SamePlace, Stays, Relinks
  <1> QED BY <1>1, <1>2, <1>3, StepKeeps DEF MovedAgree

\* What p is in, and that p goes on there, while p is in the middle of
\* condition_wait or linked nowhere.
LEMMA ActorAgrees ==
    ASSUME MutexInv, PlaceInv, on' = on, NEW p \in Cprocs, Running(p), Stays(p),
           p \notin Range(stack'[p].hand),
           \A r \in Stacks \ {p} : p \in Range(stack'[r].hand) => stack'[r] = stack[r],
           wired'[p] = wired[p], messages'[p] = messages[p],
           "SWITCHING" \in state'[p] <=> "SWITCHING" \in state[p],
           stack[p].pc \notin Leavings \cup {"try", "none"},
           stack'[p].pc \notin Leavings \cup {"try", "none"},
           Suspending(p)' <=> Suspending(p),
           stack'[p].pc \in InBlock => state'[p] \in {{}, {"SWITCHING"}},
           stack'[p].call \in CallsAt(stack'[p].pc),
           stack[p].pc \in InBlock \cup {"wired"} =>
              stack'[p].pc \in InBlock \cup {"wired"} /\ stack'[p].mutex = stack[p].mutex,
           wired[p] => stack'[p].pc \notin InBlock \cup NeedsWaiter
    PROVE  Agrees(p)'
  <1>1. p \in Stacks
    BY StackIs
  <1>2. Running(p)' /\ Agrees(p)
    BY DEF Running, PlaceInv, CprocsAgree, Agrees
  <1>3. Linked(p)' <=> Linked(p)
    BY StaysLinked
  <1>4. /\ Asking(p)' <=> Asking(p)
        /\ ~Trying(p) /\ ~Trying(p)'
    BY <1>2 DEF Asking, Trying
  <1>5. ~Blocked(p)
    BY DEF Blocked, Leavings
  <1>6. CprocAgrees(p)'
    BY <1>2, <1>3, <1>4 DEF Agrees, CprocAgrees, Leavings
  <1>7. LinkAgrees(p)'
    <2>1. ASSUME NEW s \in Stacks, p \in Range(stack'[s].hand)
          PROVE  s /= p /\ stack'[s] = stack[s] /\ p \in Range(stack[s].hand)
      BY <2>1, <1>1 DEF Stays
    <2>2. \A s \in Stacks : p \in Range(stack'[s].hand) =>
             CASE stack'[s].pc \in {"ready", "send"} -> Blocked(p)' \/ Asking(p)'
               [] stack'[s].pc = "enqueue" -> Blocked(p)' \/ (Asking(p)' /\ p /= Head(stack'[s].hand))
               [] stack'[s].pc \in {"keep", "switch", "resume"} -> Blocked(p)'
               [] OTHER -> ~Running(p)' /\ ~wired'[p] /\ state'[p] = {}
      BY <1>2, <1>4, <1>5, <2>1 DEF Agrees, LinkAgrees
    <2>3. (p \in Range(ready))' => Blocked(p)'
      BY <1>2, <1>5 DEF Agrees, LinkAgrees, Stays
    <2>4. \A m \in Mutexes : (p \in Range(mutex[m].queue))' =>
             /\ stack'[p].mutex = m /\ stack'[p].call /= "yield"
             /\ stack'[p].pc \in InBlock \cup {"try", "wired", "switch", "startwait", "retry"}
             /\ Trying(p)' \/ Blocked(p)' \/ Asking(p)'
      <3>1. ASSUME NEW m \in Mutexes, p \in Range(mutex[m].queue)
            PROVE  stack[p].mutex = m /\ stack[p].pc \in InBlock \cup {"wired"} /\ Asking(p)
        BY <1>2, <1>4, <1>5, <3>1 DEF Agrees, LinkAgrees, Asking, Suspending
      <3>2. stack'[p].call = "yield" => stack'[p].pc = "switch"
        BY DEF CallsAt
      <3> QED BY <1>4, <3>1, <3>2 DEF Stays, Leavings
    <2>5. \A c \in Conditions : (p \in Range(condition[c]))' => Blocked(p)' \/ Asking(p)'
      BY <1>2, <1>4, <1>5 DEF Agrees, LinkAgrees, Stays
    <2> QED BY <2>2, <2>3, <2>4, <2>5 DEF LinkAgrees
  <1> QED BY <1>6, <1>7 DEF Agrees

\* Where a cproc may be linked that runs.
LEMMA Unsuspended ==
    ASSUME PlaceInv, NEW p \in Cprocs, Running(p), ~Trying(p), ~Suspending(p),
           stack[p].pc \notin {"switch", "startwait"}
    PROVE  ~Linked(p) /\ ~OnChain(p)
  BY ChainsAreApart DEF ChainsApart, PlaceInv, CprocsAgree, CprocAgrees

\* A cproc goes on in its code and nothing else is changed.
LEMMA Quiet ==
    ASSUME MutexInv, PlaceInv, NEW p \in Cprocs, Running(p), stack[p].hand = <<>>,
           UNCHANGED <<on, lock, state, wired, messages, ready, condition, waiters>>,
           \A m \in Mutexes : mutex'[m].queue = mutex[m].queue,
           NEW l, NEW b, NEW n, NEW queued, NEW w, Becomes(p, l, b, n, queued, w, <<>>),
           stack[p].pc \notin Leavings \cup {"try", "none"},
           l \in PCs, l \notin Leavings \cup Handing \cup {"try", "none", "receive", "woken"},
           Suspending(p)' <=> Suspending(p),
           l \in InBlock => stack[p].pc \in InBlock, b \in CallsAt(l),
           stack[p].pc \in InBlock \cup {"wired"} =>
              l \in InBlock \cup {"wired"} /\ n = stack[p].mutex,
           wired[p] => l \notin InBlock \cup NeedsWaiter,
           w = stack[p].waiter, l \notin NeedsWaiter => w = None
    PROVE  PlaceInv'
  <1>1. p \in Stacks /\ p \notin Waiters
    BY StackIs
  <1>2. /\ \A r \in Stacks \ {p} : stack'[r] = stack[r] /\ lock'[r] = lock[r]
        /\ stack'[p].pc = l /\ stack'[p].mutex = n /\ stack'[p].hand = stack[p].hand /\ stack'[p].waiter = w
        /\ stack'[p].call = b
    BY DEF Becomes
  <1>3. Running(p)' /\ \A q : Running(q)' <=> Running(q)
    BY DEF Running
  <1>4. /\ Apart' /\ (\A q : OnChain(q)' <=> OnChain(q))
        /\ \A q \in Cprocs : SamePlace(q)
    BY <1>1, <1>2, StillApart, NoCprocs
  <1>5. \A q \in Cprocs \ {p} : SameState(q)
    <2>1. \A q \in Cprocs : Trying(q) => stack[q].mutex \in Mutexes
      BY StackIs, Knows DEF Trying, NeedsMutex
    <2> QED BY <1>1, <1>2, <1>3, <2>1, StackIs DEF SameState
  <1>7. Agrees(p)'
    <2>1. Stays(p)
      BY <1>2 DEF Becomes, Stays
    <2>2. p \notin Range(stack'[p].hand)
      BY <1>2, NoCprocs
    <2>3. l \in InBlock => state'[p] \in {{}, {"SWITCHING"}}
      BY DEF PlaceInv, CprocsAgree, CprocAgrees
    <2> QED BY <1>2, <2>1, <2>2, <2>3, ActorAgrees DEF Leavings
  <1>8. HandAgrees(p)' /\ StackAgrees(p)'
    <2>1. HandAgrees(p) /\ StackAgrees(p)
      BY <1>1 DEF PlaceInv, StacksAgree
    <2>2. HandAgrees(p)'
      BY <1>2, NoCprocs DEF HandAgrees, Handing
    <2>3. ~lock[p]
      BY <2>1 DEF StackAgrees
    <2> QED BY <1>1, <1>2, <1>3, <2>2, <2>3 DEF StackAgrees, Leavings, Handing
  <1>9. WaitersAgree'
    BY <1>1, <1>2, WaitersStay
  <1>10. \A r \in Stacks \ {p} : stack'[r] = stack[r] /\ lock'[r] = lock[r]
    BY <1>2
  <1> DEFINE S == {p}
  <1>11. /\ \A q \in Cprocs : q \notin S /\ q /= p => SameState(q) /\ SamePlace(q)
         /\ \A q \in Cprocs : q \in S \/ q = p => Agrees(q)'
    BY <1>4, <1>5, <1>7
  <1>12. Apart' /\ on' = on
    BY <1>4
  <1> HIDE DEF S
  <1> QED BY <1>1, <1>8, <1>9, <1>10, <1>11, <1>12, StepKeeps

\* A step of the running cproc p that takes no lock.
LEMMA CprocTransfer ==
    ASSUME MutexInv, PlaceInv, on' = on, lock' = lock, waiters' = waiters,
           NEW p \in Cprocs, Running(p), stack[p].pc \notin Leavings,
           NEW l, NEW b, NEW n, NEW queued, NEW w, NEW h, Becomes(p, l, b, n, queued, w, h),
           w = stack[p].waiter, l \notin NeedsWaiter => w = None,
           l \notin Leavings \cup {"none", "receive", "woken", "resume", "leave"}, b \in CallsAt(l),
           l \notin Handing => h = <<>>, p \notin Range(h), l = "keep" => Len(h) = 1,
           NEW S, Relinks(S), Others(p, S, h), MovedAgree(S \ {p}), Agrees(p)'
    PROVE  PlaceInv'
  <1>1. p \in Stacks /\ p \notin Waiters
    BY StackIs
  <1>2. /\ \A r \in Stacks \ {p} : stack'[r] = stack[r]
        /\ stack'[p].pc = l /\ stack'[p].call = b /\ stack'[p].waiter = w /\ stack'[p].hand = h
        /\ Running(p)'
    BY DEF Becomes, Running
  <1>3. HandAgrees(p)'
    BY <1>1, <1>2 DEF HandAgrees, Leavings
  <1>4. StackAgrees(p)'
    <2>1. StackAgrees(p)
      BY <1>1 DEF PlaceInv, StacksAgree
    <2> QED BY <1>1, <1>2, <2>1 DEF StackAgrees, Leavings
  <1>5. WaitersAgree'
    BY <1>1, <1>2, WaitersStay
  <1>6. /\ \A r \in Stacks \ {p} : lock'[r] = lock[r]
        /\ MovedAgree(S \cup {p})
    BY DEF MovedAgree
  <1> QED BY <1>1, <1>3, <1>4, <1>5, <1>6, Transfer

\* How p finds what it has in hand; and how whoever is queued at a mutex, or at a
\* condition, is found.
LEMMA Linkings ==
    ASSUME PlaceInv, NEW q \in Cprocs
    PROVE  /\ Agrees(q) /\ (q \in Range(ready) => Blocked(q))
           /\ \A s \in Stacks : q \in Range(stack[s].hand) => HandFits(q, s)
           /\ \A m \in Mutexes : q \in Range(mutex[m].queue) =>
                 stack[q].mutex = m /\ (Trying(q) \/ Blocked(q) \/ Asking(q))
           /\ \A c \in Conditions : q \in Range(condition[c]) => Blocked(q) \/ Asking(q)
  <1>1. Agrees(q)
    BY DEF PlaceInv, CprocsAgree, Agrees
  <1>2. \A s \in Stacks : q \in Range(stack[s].hand) => HandFits(q, s)
    BY <1>1 DEF Agrees, LinkAgrees, HandFits
  <1> QED BY <1>1, <1>2 DEF Agrees, LinkAgrees

LEMMA PlacesApart ==
    ASSUME PlaceInv
    PROVE  Apart
  BY ChainsAreApart DEF PlaceInv, ChainsApart

\* Who is trying a mutex has its lock.
LEMMA Triers ==
    ASSUME MutexInv, NEW q \in Cprocs, Trying(q)
    PROVE  /\ stack[q].mutex \in Mutexes /\ mutex[stack[q].mutex].lock
  BY StackIs, Knows DEF Trying, NeedsMutex, MutexInv, OneTrier

\* A cproc that runs, and that cproc_ready has found, is linked no more.
LEMMA Unasked ==
    ASSUME PlaceInv, NEW p \in Cprocs, Running(p), ~wired[p], "SWITCHING" \notin state[p],
           stack[p].pc \notin {"try", "switch", "startwait"}
    PROVE  ~OnChain(p) /\ ~Linked(p)
  <1>1. ~Asking(p) /\ ~Blocked(p) /\ ~Trying(p)
    BY DEF Asking, Blocked, Trying
  <1>2. p \notin Range(ready) /\ (\A m \in Mutexes : p \notin Range(mutex[m].queue))
        /\ \A c \in Conditions : p \notin Range(condition[c])
    BY <1>1, Linkings
  <1>3. \A s \in Stacks : p \notin Range(stack[s].hand)
    BY <1>1, Linkings DEF HandFits
  <1> QED BY <1>2, <1>3, ChainsAreApart DEF OnChain, ChainsApart

\* A cproc that has saved itself, and is to be switched from.
LEMMA BlocksAgrees ==
    ASSUME PlaceInv, NEW p \in Cprocs, Running(p), stack[p].pc \in InBlock, state[p] /= {},
           UNCHANGED <<on, wired, messages, ready, mutex, condition>>, state'[p] = {"BLOCKED"},
           stack'[p].pc \in {"switch", "startwait"}, stack'[p].mutex = stack[p].mutex,
           stack'[p].call = "block", \A r \in Stacks : stack'[r].hand = stack[r].hand,
           \A r \in Stacks \ {p} : stack'[r] = stack[r]
    PROVE  Agrees(p)'
  <1>1. p \in Stacks /\ p \notin Range(stack[p].hand)
    BY StackIs DEF PlaceInv, StacksAgree, HandAgrees
  <1>2. /\ Agrees(p) /\ Running(p)' /\ state[p] = {"SWITCHING"} /\ ~wired[p] /\ messages[p] = 0
        /\ Suspending(p) /\ ~Blocked(p) /\ ~Trying(p)
    BY Linkings DEF Agrees, CprocAgrees, Running, Suspending, Blocked, Trying, InBlock
  <1>3. Linked(p) /\ Stays(p)
    BY <1>2 DEF Agrees, CprocAgrees, Stays
  <1>4. Linked(p)'
    BY <1>3, StaysLinked
  <1>5. Blocked(p)' /\ ~Trying(p)' /\ ~Suspending(p)'
    BY <1>2 DEF Blocked, Trying, Suspending, InBlock
  <1>6. CprocAgrees(p)'
    BY <1>2, <1>4, <1>5 DEF CprocAgrees, InBlock, NeedsWaiter
  <1>7. LinkAgrees(p)'
    <2>1. \A s \in Stacks : p \in Range(stack'[s].hand) =>
             CASE stack'[s].pc \in {"ready", "send"} -> Blocked(p)' \/ Asking(p)'
               [] stack'[s].pc = "enqueue" -> Blocked(p)' \/ (Asking(p)' /\ p /= Head(stack'[s].hand))
               [] stack'[s].pc \in {"keep", "switch", "resume"} -> Blocked(p)'
               [] OTHER -> ~Running(p)' /\ ~wired'[p] /\ state'[p] = {}
      BY <1>1, <1>2, <1>5 DEF Agrees, LinkAgrees
    <2> QED BY <1>2, <1>5, <2>1 DEF Agrees, LinkAgrees
  <1> QED BY <1>6, <1>7 DEF Agrees

\* The kernel thread k leaves the stack s for t.
LEMMA Switched ==
    ASSUME PlaceTypes, PlaceInv, NEW k \in KernelThreads, NEW s \in Stacks, NEW t \in Stacks, on[k] = s,
           ~Running(t), on' = [on EXCEPT ![k] = t]
    PROVE  /\ OneThreadPerStack' /\ ~Running(s)' /\ Running(t)' /\ s /= t
           /\ \A r \in Stacks \ {s, t} : Running(r)' <=> Running(r)
  <1>1. on'[k] = t /\ \A j \in KernelThreads \ {k} : on'[j] = on[j] /\ on[j] /= t
    BY DEF PlaceTypes, Running
  <1>2. \A j \in KernelThreads \ {k} : on[j] /= s
    BY StackIs DEF PlaceInv, OneThreadPerStack
  <1>3. OneThreadPerStack'
    BY <1>1 DEF PlaceInv, OneThreadPerStack
  <1>4. s /= t /\ Running(t)'
    BY <1>1 DEF Running
  <1> QED BY <1>1, <1>2, <1>3, <1>4 DEF Running

LEMMA BlockedIsLeft ==
    ASSUME PlaceInv, NEW q \in Cprocs, Blocked(q), ~lock[q]
    PROVE  ~Running(q)
  BY StackIs DEF Blocked, PlaceInv, StacksAgree, StackAgrees, Leavings

\* A cproc that has been switched from.
LEMMA LeftAgrees ==
    ASSUME PlaceInv, NEW p \in Cprocs, Running(p), stack[p].pc \in {"switch", "startwait"}, ~Running(p)',
           stack'[p].pc = IF stack[p].call = "yield" THEN "user" ELSE "retry", stack'[p].call = "none",
           stack[p].call /= "yield" => stack'[p].mutex = stack[p].mutex, Stays(p),
           state'[p] = state[p], wired'[p] = wired[p], messages'[p] = messages[p],
           p \notin Range(stack'[p].hand),
           \A r \in Stacks \ {p} : p \in Range(stack'[r].hand) => stack'[r] = stack[r]
    PROVE  Agrees(p)'
  <1>1. /\ Agrees(p) /\ Blocked(p) /\ Linked(p) /\ ~wired[p] /\ messages[p] = 0
    BY Linkings DEF Agrees, CprocAgrees, Blocked
  <1>2. Linked(p)' /\ Blocked(p)' /\ ~Trying(p)' /\ ~Suspending(p)' /\ ~Trying(p) /\ ~Asking(p)
    BY <1>1, StaysLinked DEF Blocked, Trying, Suspending, InBlock, Asking
  <1>3. CprocAgrees(p)'
    BY <1>1, <1>2 DEF CprocAgrees, InBlock, NeedsWaiter
  <1>4. LinkAgrees(p)'
    <2>1. \A s \in Stacks : p \in Range(stack'[s].hand) => stack'[s] = stack[s] /\ p \in Range(stack[s].hand)
      BY DEF Stays
    <2>2. \A s \in Stacks : p \in Range(stack'[s].hand) =>
             CASE stack'[s].pc \in {"ready", "send"} -> Blocked(p)' \/ Asking(p)'
               [] stack'[s].pc = "enqueue" -> Blocked(p)' \/ (Asking(p)' /\ p /= Head(stack'[s].hand))
               [] stack'[s].pc \in {"keep", "switch", "resume"} -> Blocked(p)'
               [] OTHER -> ~Running(p)' /\ ~wired'[p] /\ state'[p] = {}
      BY <1>1, <1>2, <2>1 DEF Agrees, LinkAgrees
    <2>3. \A m \in Mutexes : p \in Range(mutex[m].queue) => stack[p].mutex = m /\ stack[p].call /= "yield"
      BY <1>1 DEF Agrees, LinkAgrees
    <2> QED BY <1>1, <1>2, <2>2, <2>3 DEF LinkAgrees, Stays
  <1> QED BY <1>3, <1>4 DEF Agrees

\* A cproc that has been switched to.
LEMMA TakenAgrees ==
    ASSUME PlaceInv, NEW q \in Cprocs, ~Running(q), Linked(q), ~wired[q], Running(q)', ~OnChain(q)',
           stack'[q] = stack[q], wired'[q] = wired[q], messages'[q] = messages[q]
    PROVE  Agrees(q)'
  <1>1. Agrees(q) /\ stack[q].pc \in {"user", "retry"} /\ messages[q] = 0
    BY Linkings DEF Agrees, CprocAgrees
  <1>2. ~Trying(q)' /\ ~Suspending(q)'
    BY <1>1 DEF Trying, Suspending, InBlock
  <1> QED BY <1>1, <1>2, Unlinked DEF Agrees, CprocAgrees, InBlock, NeedsWaiter

-----------------------------------------------------------------------------
(* The steps, one by one.                                                  *)

LEMMA MutexLockPlaces ==
    ASSUME MutexInv, PlaceInv, NEW k \in KernelThreads, NEW p \in Cprocs, NEW m \in Mutexes,
           MutexLock(k, p, m)
    PROVE  PlaceInv'
  <1>1. p \in Stacks /\ At(k, p, "user")
    BY StackIs DEF MutexLock
  <1>2. UNCHANGED <<on, lock, state, wired, messages, ready, condition, waiters>>
        /\ \A n \in Mutexes : mutex'[n].queue = mutex[n].queue
    BY HeldOnly DEF MutexLock, wiring
  <1>3. stack[p].pc = "user" /\ Running(p) /\ stack[p].hand = <<>> /\ stack[p].waiter = None
        /\ stack[p].call \in CallsAt("user")
    BY <1>1, Here DEF Handing, NeedsWaiter
  <1>4. CASE mutex[m].held
    <2> DEFINE b == stack[p].call
               queued == stack[p].queued
    <2>1. Becomes(p, "solid", b, m, queued, None, <<>>)
      BY <1>1, <1>3, <1>4, MutexBecomes DEF MutexLock
    <2>2. Suspending(p)' <=> Suspending(p)
      BY <1>3, <2>1 DEF Becomes, Suspending, InBlock
    <2>3. b \in CallsAt("solid")
      BY <1>3 DEF CallsAt, InBlock, NeedsWaiter
    <2> HIDE DEF b, queued
    <2> QED BY <1>2, <1>3, <2>1, <2>2, <2>3, Names, Quiet DEF Leavings, Handing, InBlock, NeedsWaiter
  <1>5. CASE ~mutex[m].held
    <2>1. Becomes(p, "user", "none", None, FALSE, None, <<>>)
      BY <1>1, <1>5, ReturnBecomes DEF MutexLock, Take
    <2>2. Suspending(p)' <=> Suspending(p)
      BY <1>3, <2>1 DEF Becomes, Suspending, InBlock
    <2>3. "none" \in CallsAt("user")
      BY DEF CallsAt, InBlock, NeedsWaiter
    <2> QED BY <1>2, <1>3, <2>1, <2>2, <2>3, Names, Quiet DEF Leavings, Handing, InBlock, NeedsWaiter
  <1> QED BY <1>4, <1>5

LEMMA Wiredness ==
    ASSUME PlaceInv, NEW p \in Cprocs, wired[p]
    PROVE  Running(p) /\ stack[p].pc \notin InBlock \cup NeedsWaiter \cup {"switch"}
  BY DEF PlaceInv, CprocsAgree, CprocAgrees

LEMMA RetryPlaces ==
    ASSUME MutexInv, PlaceInv, NEW k \in KernelThreads, NEW p \in Cprocs, Retry(k, p)
    PROVE  PlaceInv'
  <1>1. p \in Stacks /\ At(k, p, "retry")
    BY StackIs DEF Retry
  <1>2. /\ stack[p].pc = "retry" /\ Running(p) /\ stack[p].hand = <<>> /\ stack[p].call \in Calls
        /\ stack[p].call \in CallsAt("retry")
        /\ NeedsMutex("retry", stack[p].call) => stack[p].mutex \in Mutexes
        /\ stack[p].waiter = None
    BY <1>1, Here DEF Handing, NeedsWaiter
  <1>3. UNCHANGED <<on, lock, state, wired, messages, ready, condition, waiters>>
        /\ \A n \in Mutexes : mutex'[n].queue = mutex[n].queue
    BY <1>2, HeldOnly DEF Retry, wiring, NeedsMutex
  <1>4. CASE mutex[stack[p].mutex].held
    <2> DEFINE l == "solid"
           b == stack[p].call
           m == stack[p].mutex
           queued == stack[p].queued
    <2>14. Becomes(p, l, b, m, queued, None, <<>>)
      BY <1>1, <1>2, <1>4, GotoBecomes DEF Retry
    <2>24.
          /\ stack[p].pc \notin Leavings \cup {"try", "none"}
          /\ l \in PCs /\ l \notin Leavings \cup Handing \cup {"try", "none", "receive", "woken"}
          /\ l \in InBlock => stack[p].pc \in InBlock
          /\ stack[p].pc \in InBlock \cup {"wired"} => l \in InBlock \cup {"wired"} /\ m = stack[p].mutex
          /\ None = stack[p].waiter /\ (l \notin NeedsWaiter => None = None)
          /\ b \in CallsAt(l)
          /\ wired[p] => l \notin InBlock \cup NeedsWaiter
      BY <1>2, <1>4, Names, AfterReadyIs DEF CallsAt, Leavings, Handing, InBlock, NeedsWaiter
    <2>34. Suspending(p)' <=> Suspending(p)
      BY <1>2, <1>4, <2>14, AfterReadyIs DEF Becomes, Suspending, InBlock, CallsAt, NeedsWaiter
    <2> HIDE DEF l, b, m, queued
    <2> QED BY <1>2, <1>3, <2>14, <2>24, <2>34, Quiet
  <1>5. CASE ~mutex[stack[p].mutex].held
    <2> DEFINE l == "user"
           b == "none"
           m == IF l = "user" THEN None ELSE stack[p].mutex
           queued == FALSE
    <2>15. Becomes(p, l, b, m, queued, None, <<>>)
      BY <1>1, <1>2, <1>5, ReturnBecomes DEF Retry, Take
    <2>25.
          /\ stack[p].pc \notin Leavings \cup {"try", "none"}
          /\ l \in PCs /\ l \notin Leavings \cup Handing \cup {"try", "none", "receive", "woken"}
          /\ l \in InBlock => stack[p].pc \in InBlock
          /\ stack[p].pc \in InBlock \cup {"wired"} => l \in InBlock \cup {"wired"} /\ m = stack[p].mutex
          /\ None = stack[p].waiter /\ (l \notin NeedsWaiter => None = None)
          /\ b \in CallsAt(l)
          /\ wired[p] => l \notin InBlock \cup NeedsWaiter
      BY <1>2, <1>5, Names, AfterReadyIs DEF CallsAt, Leavings, Handing, InBlock, NeedsWaiter
    <2>35. Suspending(p)' <=> Suspending(p)
      BY <1>2, <1>5, <2>15, AfterReadyIs DEF Becomes, Suspending, InBlock, CallsAt, NeedsWaiter
    <2> HIDE DEF l, b, m, queued
    <2> QED BY <1>2, <1>3, <2>15, <2>25, <2>35, Quiet
  <1> QED BY <1>4, <1>5

LEMMA MutexUnlockPlaces ==
    ASSUME MutexInv, PlaceInv, NEW k \in KernelThreads, NEW p \in Cprocs, NEW m0 \in Mutexes, MutexUnlock(k, p, m0)
    PROVE  PlaceInv'
  <1>1. p \in Stacks /\ At(k, p, "user")
    BY StackIs DEF MutexUnlock
  <1>2. /\ stack[p].pc = "user" /\ Running(p) /\ stack[p].hand = <<>> /\ stack[p].call \in Calls
        /\ stack[p].call \in CallsAt("user")
        /\ NeedsMutex("user", stack[p].call) => stack[p].mutex \in Mutexes
        /\ stack[p].waiter = None
    BY <1>1, Here DEF Handing, NeedsWaiter
  <1>3. UNCHANGED <<on, lock, state, wired, messages, ready, condition, waiters>>
        /\ \A n \in Mutexes : mutex'[n].queue = mutex[n].queue
    BY <1>2, HeldOnly DEF MutexUnlock, wiring, Release
  <1> DEFINE l == "unlock"
         b == "unlock"
         m == m0
         queued == stack[p].queued
  <1>14. Becomes(p, l, b, m, queued, None, <<>>)
    BY <1>1, <1>2, ReleaseBecomes DEF MutexUnlock
  <1>24.
        /\ stack[p].pc \notin Leavings \cup {"try", "none"}
        /\ l \in PCs /\ l \notin Leavings \cup Handing \cup {"try", "none", "receive", "woken"}
        /\ l \in InBlock => stack[p].pc \in InBlock
        /\ stack[p].pc \in InBlock \cup {"wired"} => l \in InBlock \cup {"wired"} /\ m = stack[p].mutex
        /\ None = stack[p].waiter /\ (l \notin NeedsWaiter => None = None)
        /\ b \in CallsAt(l)
        /\ wired[p] => l \notin InBlock \cup NeedsWaiter
    BY <1>2, Names, AfterReadyIs DEF CallsAt, Leavings, Handing, InBlock, NeedsWaiter
  <1>34. Suspending(p)' <=> Suspending(p)
    BY <1>2, <1>14, AfterReadyIs DEF Becomes, Suspending, InBlock, CallsAt, NeedsWaiter
  <1> HIDE DEF l, b, m, queued
  <1> QED BY <1>2, <1>3, <1>14, <1>24, <1>34, Quiet

LEMMA WaitUnlockPlaces ==
    ASSUME MutexInv, PlaceInv, NEW k \in KernelThreads, NEW p \in Cprocs, WaitUnlock(k, p)
    PROVE  PlaceInv'
  <1>1. p \in Stacks /\ At(k, p, "wait_unlock")
    BY StackIs DEF WaitUnlock
  <1>2. /\ stack[p].pc = "wait_unlock" /\ Running(p) /\ stack[p].hand = <<>> /\ stack[p].call \in Calls
        /\ stack[p].call \in CallsAt("wait_unlock")
        /\ NeedsMutex("wait_unlock", stack[p].call) => stack[p].mutex \in Mutexes
        /\ stack[p].waiter = None
    BY <1>1, Here DEF Handing, NeedsWaiter
  <1>3. UNCHANGED <<on, lock, state, wired, messages, ready, condition, waiters>>
        /\ \A n \in Mutexes : mutex'[n].queue = mutex[n].queue
    BY <1>2, HeldOnly DEF WaitUnlock, wiring, Release, NeedsMutex
  <1> DEFINE l == "unlock"
         b == "wait"
         m == stack[p].mutex
         queued == stack[p].queued
  <1>14. Becomes(p, l, b, m, queued, None, <<>>)
    BY <1>1, <1>2, ReleaseBecomes DEF WaitUnlock
  <1>24.
        /\ stack[p].pc \notin Leavings \cup {"try", "none"}
        /\ l \in PCs /\ l \notin Leavings \cup Handing \cup {"try", "none", "receive", "woken"}
        /\ l \in InBlock => stack[p].pc \in InBlock
        /\ stack[p].pc \in InBlock \cup {"wired"} => l \in InBlock \cup {"wired"} /\ m = stack[p].mutex
        /\ None = stack[p].waiter /\ (l \notin NeedsWaiter => None = None)
        /\ b \in CallsAt(l)
        /\ wired[p] => l \notin InBlock \cup NeedsWaiter
    BY <1>2, Names, AfterReadyIs DEF CallsAt, Leavings, Handing, InBlock, NeedsWaiter
  <1>34. Suspending(p)' <=> Suspending(p)
    BY <1>2, <1>14, AfterReadyIs DEF Becomes, Suspending, InBlock, CallsAt, NeedsWaiter
  <1> HIDE DEF l, b, m, queued
  <1> QED BY <1>2, <1>3, <1>14, <1>24, <1>34, Quiet

LEMMA LookForWaitersPlaces ==
    ASSUME MutexInv, PlaceInv, NEW k \in KernelThreads, NEW p \in Cprocs, LookForWaiters(k, p)
    PROVE  PlaceInv'
  <1>1. p \in Stacks /\ At(k, p, "unlock")
    BY StackIs DEF LookForWaiters
  <1>2. /\ stack[p].pc = "unlock" /\ Running(p) /\ stack[p].hand = <<>> /\ stack[p].call \in Calls
        /\ stack[p].call \in CallsAt("unlock")
        /\ NeedsMutex("unlock", stack[p].call) => stack[p].mutex \in Mutexes
        /\ stack[p].waiter = None
    BY <1>1, Here DEF Handing, NeedsWaiter
  <1>3. UNCHANGED <<on, lock, state, wired, messages, ready, condition, waiters>>
        /\ \A n \in Mutexes : mutex'[n].queue = mutex[n].queue
    BY <1>2, HeldOnly DEF LookForWaiters, wiring
  <1>4. CASE mutex[stack[p].mutex].queue = <<>>
    <2> DEFINE l == AfterReady(stack[p].call)
           b == "none"
           m == IF l = "user" THEN None ELSE stack[p].mutex
           queued == FALSE
    <2>14. Becomes(p, l, b, m, queued, None, <<>>)
      BY <1>1, <1>2, <1>4, ReturnBecomes DEF LookForWaiters
    <2>24.
          /\ stack[p].pc \notin Leavings \cup {"try", "none"}
          /\ l \in PCs /\ l \notin Leavings \cup Handing \cup {"try", "none", "receive", "woken"}
          /\ l \in InBlock => stack[p].pc \in InBlock
          /\ stack[p].pc \in InBlock \cup {"wired"} => l \in InBlock \cup {"wired"} /\ m = stack[p].mutex
          /\ None = stack[p].waiter /\ (l \notin NeedsWaiter => None = None)
          /\ b \in CallsAt(l)
          /\ wired[p] => l \notin InBlock \cup NeedsWaiter
      BY <1>2, <1>4, Names, AfterReadyIs DEF CallsAt, Leavings, Handing, InBlock, NeedsWaiter
    <2>34. Suspending(p)' <=> Suspending(p)
      BY <1>2, <1>4, <2>14, AfterReadyIs DEF Becomes, Suspending, InBlock, CallsAt, NeedsWaiter
    <2> HIDE DEF l, b, m, queued
    <2> QED BY <1>2, <1>3, <2>14, <2>24, <2>34, Quiet
  <1>5. CASE mutex[stack[p].mutex].queue /= <<>>
    <2> DEFINE l == "unlock_solid"
           b == stack[p].call
           m == stack[p].mutex
           queued == stack[p].queued
    <2>15. Becomes(p, l, b, m, queued, None, <<>>)
      BY <1>1, <1>2, <1>5, GotoBecomes DEF LookForWaiters
    <2>25.
          /\ stack[p].pc \notin Leavings \cup {"try", "none"}
          /\ l \in PCs /\ l \notin Leavings \cup Handing \cup {"try", "none", "receive", "woken"}
          /\ l \in InBlock => stack[p].pc \in InBlock
          /\ stack[p].pc \in InBlock \cup {"wired"} => l \in InBlock \cup {"wired"} /\ m = stack[p].mutex
          /\ None = stack[p].waiter /\ (l \notin NeedsWaiter => None = None)
          /\ b \in CallsAt(l)
          /\ wired[p] => l \notin InBlock \cup NeedsWaiter
      BY <1>2, <1>5, Names, AfterReadyIs DEF CallsAt, Leavings, Handing, InBlock, NeedsWaiter
    <2>35. Suspending(p)' <=> Suspending(p)
      BY <1>2, <1>5, <2>15, AfterReadyIs DEF Becomes, Suspending, InBlock, CallsAt, NeedsWaiter
    <2> HIDE DEF l, b, m, queued
    <2> QED BY <1>2, <1>3, <2>15, <2>25, <2>35, Quiet
  <1> QED BY <1>4, <1>5

LEMMA UnlockSolidPlaces ==
    ASSUME MutexInv, PlaceInv, NEW k \in KernelThreads, NEW p \in Cprocs, UnlockSolid(k, p)
    PROVE  PlaceInv'
  <1>1. p \in Stacks /\ At(k, p, "unlock_solid")
    BY StackIs DEF UnlockSolid
  <1>2. /\ stack[p].pc = "unlock_solid" /\ Running(p) /\ stack[p].hand = <<>> /\ stack[p].call \in Calls
        /\ stack[p].call \in CallsAt("unlock_solid")
        /\ NeedsMutex("unlock_solid", stack[p].call) => stack[p].mutex \in Mutexes
        /\ stack[p].waiter = None
    BY <1>1, Here DEF Handing, NeedsWaiter
  <1>3. UNCHANGED <<on, lock, state, wired, messages, ready, condition, waiters>>
        /\ \A n \in Mutexes : mutex'[n].queue = mutex[n].queue
    BY <1>2, HeldOnly DEF UnlockSolid, wiring, NeedsMutex
  <1>4. CASE mutex[stack[p].mutex].held
    <2> DEFINE l == AfterReady(stack[p].call)
           b == "none"
           m == IF l = "user" THEN None ELSE stack[p].mutex
           queued == FALSE
    <2>14. Becomes(p, l, b, m, queued, None, <<>>)
      BY <1>1, <1>2, <1>4, ReturnBecomes DEF UnlockSolid
    <2>24.
          /\ stack[p].pc \notin Leavings \cup {"try", "none"}
          /\ l \in PCs /\ l \notin Leavings \cup Handing \cup {"try", "none", "receive", "woken"}
          /\ l \in InBlock => stack[p].pc \in InBlock
          /\ stack[p].pc \in InBlock \cup {"wired"} => l \in InBlock \cup {"wired"} /\ m = stack[p].mutex
          /\ None = stack[p].waiter /\ (l \notin NeedsWaiter => None = None)
          /\ b \in CallsAt(l)
          /\ wired[p] => l \notin InBlock \cup NeedsWaiter
      BY <1>2, <1>4, Names, AfterReadyIs DEF CallsAt, Leavings, Handing, InBlock, NeedsWaiter
    <2>34. Suspending(p)' <=> Suspending(p)
      BY <1>2, <1>4, <2>14, AfterReadyIs DEF Becomes, Suspending, InBlock, CallsAt, NeedsWaiter
    <2> HIDE DEF l, b, m, queued
    <2> QED BY <1>2, <1>3, <2>14, <2>24, <2>34, Quiet
  <1>5. CASE ~mutex[stack[p].mutex].held
    <2> DEFINE l == "unlock_deq"
           b == stack[p].call
           m == stack[p].mutex
           queued == stack[p].queued
    <2>15. Becomes(p, l, b, m, queued, None, <<>>)
      BY <1>1, <1>2, <1>5, GotoBecomes DEF UnlockSolid
    <2>25.
          /\ stack[p].pc \notin Leavings \cup {"try", "none"}
          /\ l \in PCs /\ l \notin Leavings \cup Handing \cup {"try", "none", "receive", "woken"}
          /\ l \in InBlock => stack[p].pc \in InBlock
          /\ stack[p].pc \in InBlock \cup {"wired"} => l \in InBlock \cup {"wired"} /\ m = stack[p].mutex
          /\ None = stack[p].waiter /\ (l \notin NeedsWaiter => None = None)
          /\ b \in CallsAt(l)
          /\ wired[p] => l \notin InBlock \cup NeedsWaiter
      BY <1>2, <1>5, Names, AfterReadyIs DEF CallsAt, Leavings, Handing, InBlock, NeedsWaiter
    <2>35. Suspending(p)' <=> Suspending(p)
      BY <1>2, <1>5, <2>15, AfterReadyIs DEF Becomes, Suspending, InBlock, CallsAt, NeedsWaiter
    <2> HIDE DEF l, b, m, queued
    <2> QED BY <1>2, <1>3, <2>15, <2>25, <2>35, Quiet
  <1> QED BY <1>4, <1>5

LEMMA UnwaitPlaces ==
    ASSUME MutexInv, PlaceInv, NEW k \in KernelThreads, NEW p \in Cprocs, Unwait(k, p)
    PROVE  PlaceInv'
  <1>1. p \in Stacks /\ At(k, p, "unwait")
    BY StackIs DEF Unwait
  <1>2. /\ stack[p].pc = "unwait" /\ Running(p) /\ stack[p].hand = <<>> /\ stack[p].call \in Calls
        /\ stack[p].call \in CallsAt("unwait")
        /\ NeedsMutex("unwait", stack[p].call) => stack[p].mutex \in Mutexes
        /\ stack[p].waiter = stack[p].waiter
    BY <1>1, Here DEF Handing, NeedsWaiter
  <1>3. UNCHANGED <<on, lock, state, wired, messages, ready, condition, waiters>>
        /\ \A n \in Mutexes : mutex'[n].queue = mutex[n].queue
    BY <1>2, HeldOnly DEF Unwait, wiring
  <1> DEFINE l == "unwaiter"
         b == stack[p].call
         m == stack[p].mutex
         queued == stack[p].queued
  <1>14. Becomes(p, l, b, m, queued, stack[p].waiter, <<>>)
    BY <1>1, <1>2, GotoBecomes DEF Unwait
  <1>24.
        /\ stack[p].pc \notin Leavings \cup {"try", "none"}
        /\ l \in PCs /\ l \notin Leavings \cup Handing \cup {"try", "none", "receive", "woken"}
        /\ l \in InBlock => stack[p].pc \in InBlock
        /\ stack[p].pc \in InBlock \cup {"wired"} => l \in InBlock \cup {"wired"} /\ m = stack[p].mutex
        /\ stack[p].waiter = stack[p].waiter /\ (l \notin NeedsWaiter => stack[p].waiter = None)
        /\ b \in CallsAt(l)
        /\ wired[p] => l \notin InBlock \cup NeedsWaiter
    BY <1>2, Names, AfterReadyIs, Wiredness DEF CallsAt, Leavings, Handing, InBlock, NeedsWaiter
  <1>34. Suspending(p)' <=> Suspending(p)
    BY <1>2, <1>14, AfterReadyIs DEF Becomes, Suspending, InBlock, CallsAt, NeedsWaiter
  <1> HIDE DEF l, b, m, queued
  <1> QED BY <1>2, <1>3, <1>14, <1>24, <1>34, Quiet

LEMMA SolidQueuePlaces ==
    ASSUME MutexInv, PlaceInv, NEW k \in KernelThreads, NEW p \in Cprocs, SolidQueue(k, p)
    PROVE  PlaceInv'
  <1>1. p \in Stacks /\ At(k, p, "solid")
    BY StackIs DEF SolidQueue
  <1>2. /\ stack[p].pc = "solid" /\ Running(p) /\ stack[p].hand = <<>> /\ stack[p].waiter = None
        /\ stack[p].call \in CallsAt("solid") /\ stack[p].mutex \in Mutexes /\ Agrees(p)
    BY <1>1, Here DEF Handing, NeedsWaiter, NeedsMutex
  <1>3. ~OnChain(p) /\ ~Linked(p)
    BY <1>2, Unsuspended DEF Trying, Suspending, InBlock
  <1>4. PICK m \in Mutexes : m = stack[p].mutex
    BY <1>2
  <1>5. PICK first : first = (mutex[m].queue = <<>>)
    OBVIOUS
  <1>6. /\ ~mutex[m].lock /\ UNCHANGED <<on, lock, state, wired, messages, ready, condition, waiters>>
        /\ mutex' = [mutex EXCEPT ![m].lock = TRUE, ![m].queue = IF first THEN <<p>> ELSE @]
        /\ stack' = [stack EXCEPT ![p].pc = "try", ![p].queued = first]
    BY <1>4, <1>5 DEF SolidQueue, wiring
  <1>7. /\ mutex'[m].queue = IF first THEN <<p>> ELSE mutex[m].queue
        /\ \A n \in Mutexes \ {m} : mutex'[n].queue = mutex[n].queue
    BY <1>6, MutexFields
  <1>8. Becomes(p, "try", stack[p].call, m, first, None, <<>>)
    BY <1>1, <1>2, <1>4, <1>6, QueuedBecomes
  <1>9. Apart /\ \A s \in Stacks : stack'[s].hand = stack[s].hand
    BY <1>2, <1>8, ChainsAreApart DEF PlaceInv, ChainsApart, Becomes
  <1>10. Injective'
    <2>1. \A n \in Mutexes : IsInjective(mutex'[n].queue)
      BY <1>7, <1>9, Single DEF Apart
    <2> QED BY <1>6, <1>9, <2>1 DEF Injective, Apart
  <1>11. \A q \in Cprocs \ {p} : Stays(q)
    <2>1. first => Range(mutex'[m].queue) = {p} /\ Range(mutex[m].queue) = {}
      BY <1>5, <1>7, Single, NoCprocs
    <2> QED BY <1>6, <1>7, <1>9, <2>1 DEF Stays
  <1>12. OnlyAt(p, <<"mutex", m>>)
    BY <1>2, <1>3, <1>6, <1>7, <1>8, NoCprocs DEF OnlyAt, Becomes, OnChain
  <1>13. \A q \in Cprocs \ {p} : Trying(q) => mutex'[stack[q].mutex].queue = mutex[stack[q].mutex].queue
    <2>1. \A q \in Cprocs : Trying(q) => stack[q].mutex \in Mutexes /\ mutex[stack[q].mutex].lock
      BY StackIs, Knows DEF Trying, NeedsMutex, MutexInv, OneTrier
    <2> QED BY <1>6, <1>7, <2>1
  <1>14. Agrees(p)'
    <2>1. Running(p)' /\ ~Suspending(p)' /\ (Trying(p)' <=> first) /\ stack'[p].pc = "try"
          /\ stack'[p].mutex = m /\ stack'[p].call = "none"
      BY <1>2, <1>6, <1>8 DEF Running, Becomes, Suspending, InBlock, Trying, CallsAt, NeedsWaiter
    <2>2. CASE first
      <3>1. LinkAgrees(p)'
        BY <1>12, <2>1, <2>2, AtQueue
      <3>2. CprocAgrees(p)'
        BY <1>2, <1>6, <1>7, <2>1, <2>2 DEF Agrees, CprocAgrees, Suspending, Trying, InBlock, NeedsWaiter
      <3> QED BY <3>1, <3>2 DEF Agrees
    <2>3. CASE ~first
      <3>1. Stays(p)
        BY <1>2, <1>6, <1>7, <1>8, <2>3 DEF Stays, Becomes
      <3>2. LinkAgrees(p)' /\ ~Linked(p)'
        BY <1>3, <3>1, StaysLinked, Unlinked
      <3>3. CprocAgrees(p)'
        BY <1>2, <1>6, <1>7, <2>1, <2>3, <3>2 DEF Agrees, CprocAgrees, Suspending, Trying, InBlock, NeedsWaiter
      <3> QED BY <3>2, <3>3 DEF Agrees
    <2> QED BY <2>2, <2>3
  <1>15. "none" \in CallsAt("try") /\ stack[p].call = "none"
    BY <1>2 DEF CallsAt, InBlock, NeedsWaiter
  <1>16. p \notin Range(<<>>) /\ \A q : q \notin Range(<<>>)
    BY NoCprocs
  <1> DEFINE S == {p}
  <1>17. Relinks(S) /\ Others(p, S, <<>>) /\ MovedAgree(S \ {p})
    BY <1>6, <1>10, <1>11, <1>12, <1>13, <1>16 DEF Relinks, Others, MovedAgree
  <1>18. /\ Running(p) /\ stack[p].pc \notin Leavings /\ None = stack[p].waiter
         /\ "try" \notin Leavings \cup {"none", "receive", "woken", "resume", "leave"}
    BY <1>2 DEF Leavings
  <1> HIDE DEF S
  <1> QED BY <1>18, <1>6, <1>8, <1>14, <1>15, <1>16, <1>17, CprocTransfer

LEMMA SolidTryPlaces ==
    ASSUME MutexInv, PlaceTypes, PlaceInv, NEW k \in KernelThreads, NEW p \in Cprocs, SolidTry(k, p)
    PROVE  PlaceInv'
  <1>1. p \in Stacks /\ At(k, p, "try")
    BY StackIs DEF SolidTry
  <1>2. /\ stack[p].pc = "try" /\ Running(p) /\ stack[p].hand = <<>> /\ stack[p].waiter = None
        /\ stack[p].call \in CallsAt("try") /\ stack[p].mutex \in Mutexes /\ Agrees(p)
    BY <1>1, Here DEF Handing, NeedsWaiter, NeedsMutex
  <1>3. PICK m \in Mutexes : m = stack[p].mutex
    BY <1>2
  <1>4. /\ ~Suspending(p) /\ stack[p].pc \notin {"switch", "startwait"}
        /\ stack[p].queued => mutex[m].queue = <<p>>
        /\ ~stack[p].queued => ~OnChain(p) /\ ~Linked(p)
        /\ messages[p] = 0
    BY <1>2, <1>3, Unsuspended DEF Trying, Suspending, InBlock, Agrees, CprocAgrees
  <1>5. UNCHANGED <<on, lock, wired, messages, ready, condition, waiters>>
    BY DEF SolidTry, wiring
  <1>6. Apart
    BY ChainsAreApart DEF PlaceInv, ChainsApart
  <1>7. Running(p)' /\ None = stack[p].waiter /\ stack[p].pc \notin Leavings
        /\ p \notin Range(<<>>) /\ (\A q : q \notin Range(<<>>))
    BY <1>2, <1>5, NoCprocs DEF Running, Leavings
  <1>8. mutex[m].queue \in Seq(Cprocs) /\ IsInjective(mutex[m].queue)
    BY <1>6, MutexFields DEF Apart
  <1>9. \A q \in Cprocs \ {p} : Trying(q) => stack[q].mutex \in Mutexes \ {m}
    BY <1>1, <1>2, <1>3, StackIs, Knows DEF Trying, NeedsMutex, MutexInv, OneTrier
  <1>10. stack[p].queued => /\ Range(mutex[m].queue) = {p}
                            /\ p \in Range(mutex[m].queue)
    BY <1>4, Single
  <1>11. stack[p].queued =>
            /\ p \notin Range(ready) /\ (\A n \in Mutexes \ {m} : p \notin Range(mutex[n].queue))
            /\ (\A c \in Conditions : p \notin Range(condition[c]))
            /\ (\A s \in Stacks : p \notin Range(stack[s].hand))
    BY <1>6, <1>10 DEF Apart
  <1>12. ~stack[p].queued =>
            /\ p \notin Range(ready) /\ (\A n \in Mutexes : p \notin Range(mutex[n].queue))
            /\ (\A c \in Conditions : p \notin Range(condition[c]))
            /\ (\A s \in Stacks : p \notin Range(stack[s].hand))
    BY <1>4 DEF OnChain
  <1> DEFINE S == {p}
  <1>13. CASE mutex[m].held
    <2>1. /\ StartBlock(p)
          /\ mutex' = [mutex EXCEPT ![m].lock = FALSE,
                                    ![m].queue = IF stack[p].queued THEN @ ELSE Append(@, p)]
      BY <1>3, <1>13 DEF SolidTry
    <2>2. /\ mutex'[m].queue = IF stack[p].queued THEN mutex[m].queue ELSE Append(mutex[m].queue, p)
          /\ \A n \in Mutexes \ {m} : mutex'[n].queue = mutex[n].queue
      BY <2>1, MutexFields
    <2>3. PICK l : l = IF wired[p] THEN "wired" ELSE "block"
      OBVIOUS
    <2>4. Becomes(p, l, "block", m, FALSE, None, <<>>)
      BY <1>1, <1>2, <1>3, <2>1, <2>3, BlockBecomes
    <2>5. IsInjective(mutex'[m].queue) /\ Range(mutex'[m].queue) = Range(mutex[m].queue) \cup {p}
      BY <1>8, <1>10, <1>12, <2>2, Appended
    <2>6. \A s \in Stacks : stack'[s].hand = stack[s].hand
      BY <1>2, <2>4 DEF Becomes
    <2>7. Injective'
      <3>1. \A n \in Mutexes : IsInjective(mutex'[n].queue)
        BY <1>6, <2>2, <2>5 DEF Apart
      <3> QED BY <1>5, <1>6, <2>6, <3>1 DEF Injective, Apart
    <2>8. \A q \in Cprocs \ {p} : Stays(q)
      BY <1>5, <2>2, <2>5, <2>6 DEF Stays
    <2>9. OnlyAt(p, <<"mutex", m>>)
      BY <1>5, <1>11, <1>12, <2>2, <2>6 DEF OnlyAt
    <2>10. /\ \A q \in Cprocs \ {p} : state'[q] = state[q]
           /\ ~wired[p] => state'[p] = {"SWITCHING"}
      BY <2>1 DEF StartBlock, PlaceTypes
    <2>11. Agrees(p)'
      <3>1. /\ stack'[p].pc = l /\ l \in {"wired", "block"} /\ stack'[p].mutex = m /\ stack'[p].call = "block"
            /\ wired'[p] = wired[p] /\ messages'[p] = 0
        BY <1>4, <1>5, <2>3, <2>4 DEF Becomes
      <3>2. Suspending(p)' /\ Asking(p)' /\ ~Trying(p)'
        BY <1>7, <2>3, <2>10, <3>1 DEF Suspending, Asking, Trying, InBlock
      <3>3. LinkAgrees(p)'
        BY <2>9, <3>1, <3>2, AtQueue DEF InBlock
      <3>4. Linked(p)'
        <4>1. OnChain(p)'
          BY <2>5 DEF OnChain
        <4> QED BY <4>1, ChainsAreApartNext DEF ChainsApart
      <3>5. CprocAgrees(p)'
        BY <1>7, <2>3, <2>10, <3>1, <3>2, <3>4 DEF CprocAgrees, InBlock, NeedsWaiter
      <3> QED BY <3>3, <3>5 DEF Agrees
    <2>12. Relinks(S) /\ Others(p, S, <<>>) /\ MovedAgree(S \ {p})
      BY <1>5, <1>7, <1>9, <2>2, <2>7, <2>8, <2>9, <2>10 DEF Relinks, Others, MovedAgree
    <2>13. l \notin Leavings \cup {"none", "receive", "woken", "resume", "leave"} /\ "block" \in CallsAt(l)
           /\ l /= "keep"
      BY <2>3 DEF Leavings, CallsAt, InBlock, NeedsWaiter
    <2> HIDE DEF S
    <2> QED BY <1>2, <1>5, <1>7, <2>4, <2>11, <2>12, <2>13, CprocTransfer
  <1>14. CASE ~mutex[m].held
    <2>1. /\ Take(p, m) /\ state' = state
          /\ mutex' = [mutex EXCEPT ![m].lock = FALSE, ![m].held = TRUE,
                                    ![m].queue = IF stack[p].queued THEN Tail(@) ELSE @]
      BY <1>3, <1>14 DEF SolidTry
    <2>2. /\ mutex'[m].queue = IF stack[p].queued THEN Tail(mutex[m].queue) ELSE mutex[m].queue
          /\ \A n \in Mutexes \ {m} : mutex'[n].queue = mutex[n].queue
      BY <2>1, MutexFields
    <2>3. Becomes(p, "user", "none", None, FALSE, None, <<>>)
      BY <1>1, <2>1, ReturnBecomes DEF Take
    <2>4. IsInjective(mutex'[m].queue) /\ Range(mutex'[m].queue) = Range(mutex[m].queue) \ {p}
      BY <1>4, <1>8, <1>12, <2>2, Single, NoCprocs
    <2>5. \A s \in Stacks : stack'[s].hand = stack[s].hand
      BY <1>2, <2>3 DEF Becomes
    <2>6. Injective'
      <3>1. \A n \in Mutexes : IsInjective(mutex'[n].queue)
        BY <1>6, <2>2, <2>4 DEF Apart
      <3> QED BY <1>5, <1>6, <2>5, <3>1 DEF Injective, Apart
    <2>7. \A q \in Cprocs \ {p} : Stays(q)
      BY <1>5, <2>2, <2>4, <2>5 DEF Stays
    <2>8. ~OnChain(p)'
      BY <1>5, <1>11, <1>12, <2>2, <2>4, <2>5 DEF OnChain
    <2>9. Agrees(p)'
      <3>1. /\ stack'[p].pc = "user" /\ stack'[p].call = "none"
            /\ wired'[p] = wired[p] /\ messages'[p] = 0
        BY <1>4, <1>5, <2>3 DEF Becomes
      <3>2. ~Suspending(p)' /\ ~Trying(p)'
        BY <3>1 DEF Suspending, Trying, InBlock
      <3> QED BY <1>7, <2>8, <3>1, <3>2, Unlinked DEF Agrees, CprocAgrees, InBlock, NeedsWaiter
    <2>10. Relinks(S) /\ Others(p, S, <<>>) /\ MovedAgree(S \ {p})
      BY <1>5, <1>7, <1>9, <2>1, <2>2, <2>6, <2>7, <2>8, Unlinked DEF Relinks, Others, MovedAgree
    <2>11. "user" \notin Leavings \cup {"none", "receive", "woken", "resume", "leave"} /\ "none" \in CallsAt("user")
      BY DEF Leavings, CallsAt, InBlock, NeedsWaiter
    <2> HIDE DEF S
    <2> QED BY <1>2, <1>5, <1>7, <2>3, <2>9, <2>10, <2>11, CprocTransfer
  <1> QED BY <1>13, <1>14

LEMMA UnlockDequeuePlaces ==
    ASSUME MutexInv, PlaceTypes, PlaceInv, NEW k \in KernelThreads, NEW p \in Cprocs, UnlockDequeue(k, p)
    PROVE  PlaceInv'
  <1>1. p \in Stacks /\ At(k, p, "unlock_deq")
    BY StackIs DEF UnlockDequeue
  <1>2. /\ stack[p].pc = "unlock_deq" /\ Running(p) /\ stack[p].hand = <<>> /\ stack[p].waiter = None
        /\ stack[p].call \in Calls /\ stack[p].call \in CallsAt("unlock_deq") /\ stack[p].mutex \in Mutexes
        /\ Agrees(p)
    BY <1>1, Here DEF Handing, NeedsWaiter, NeedsMutex
  <1>3. PICK m \in Mutexes : m = stack[p].mutex
    BY <1>2
  <1>4. /\ UNCHANGED <<on, lock, state, wired, messages, ready, condition, waiters>> /\ ~mutex[m].lock
        /\ mutex' = [mutex EXCEPT ![m].held = FALSE,
                                  ![m].queue = IF mutex[m].queue = <<>> THEN mutex[m].queue
                                               ELSE Tail(mutex[m].queue)]
    BY <1>3 DEF UnlockDequeue, wiring
  <1>5. /\ mutex'[m].queue = IF mutex[m].queue = <<>> THEN mutex[m].queue ELSE Tail(mutex[m].queue)
        /\ \A n \in Mutexes \ {m} : mutex'[n].queue = mutex[n].queue
    BY <1>4, MutexFields
  <1>6. CASE mutex[m].queue = <<>>
    <2>1. PICK l : l = AfterReady(stack[p].call)
      OBVIOUS
    <2>2. PICK n : n = IF l = "user" THEN None ELSE stack[p].mutex
      OBVIOUS
    <2>3. Becomes(p, l, "none", n, FALSE, None, <<>>)
      BY <1>1, <1>3, <1>6, <2>1, <2>2, ReturnBecomes DEF UnlockDequeue
    <2>4. /\ stack[p].pc \notin Leavings \cup {"try", "none"}
          /\ l \in PCs /\ l \notin Leavings \cup Handing \cup {"try", "none", "receive", "woken"}
          /\ l \notin InBlock \cup NeedsWaiter
          /\ stack[p].pc \notin InBlock \cup {"wired"}
          /\ "none" \in CallsAt(l)
      BY <1>2, <2>1, Names, AfterReadyIs DEF CallsAt, Leavings, Handing, InBlock, NeedsWaiter
    <2>5. Suspending(p)' <=> Suspending(p)
      BY <1>2, <2>1, <2>3, AfterReadyIs DEF Becomes, Suspending, InBlock
    <2>6. \A x \in Mutexes : mutex'[x].queue = mutex[x].queue
      BY <1>5, <1>6
    <2> QED BY <1>2, <1>4, <2>3, <2>4, <2>5, <2>6, Quiet
  <1>7. CASE mutex[m].queue /= <<>>
    <2>1. PICK h : h = Head(mutex[m].queue)
      OBVIOUS
    <2>2. /\ mutex[m].queue \in Seq(Cprocs) /\ IsInjective(mutex[m].queue) /\ Apart
      BY MutexFields, PlacesApart DEF Apart
    <2>3. /\ h \in Cprocs /\ h \in Range(mutex[m].queue)
          /\ Range(mutex'[m].queue) = Range(mutex[m].queue) \ {h} /\ IsInjective(mutex'[m].queue)
      BY <1>5, <1>7, <2>1, <2>2, Headed
    <2>4. /\ ~Trying(h) /\ (Blocked(h) \/ Asking(h)) /\ Agrees(h) /\ h /= p
          /\ stack[h].pc \in InBlock \cup {"try", "wired", "switch", "startwait", "retry"}
      BY <1>2, <1>4, <2>3, Linkings, Triers DEF Agrees, LinkAgrees, InBlock
    <2>5. Becomes(p, "ready", stack[p].call, m, stack[p].queued, None, <<h>>)
      <3>1. stack' = [stack EXCEPT ![p].pc = "ready", ![p].hand = <<h>>]
        BY <1>3, <1>7, <2>1 DEF UnlockDequeue
      <3> QED BY <1>1, <1>2, <1>3, <3>1, HandBecomes
    <2>6. /\ stack'[p].hand = <<h>> /\ Range(<<h>>) = {h} /\ IsInjective(<<h>>)
          /\ stack'[p].pc = "ready" /\ stack'[p].call = stack[p].call /\ stack'[p].mutex = m
          /\ \A r \in Stacks \ {p} : stack'[r] = stack[r]
      BY <2>5, Single DEF Becomes
    <2>7. Injective'
      <3>1. \A n \in Mutexes : IsInjective(mutex'[n].queue)
        BY <1>5, <2>2, <2>3 DEF Apart
      <3>2. \A s \in Stacks : IsInjective(stack'[s].hand)
        BY <2>2, <2>6 DEF Apart
      <3> QED BY <1>4, <2>2, <3>1, <3>2 DEF Injective, Apart
    <2>8. \A q \in Cprocs \ {h} : Stays(q)
      BY <1>2, <1>4, <1>5, <2>3, <2>6, NoCprocs DEF Stays
    <2>9. OnlyAt(h, <<"hand", p>>)
      BY <1>4, <1>5, <2>2, <2>3, <2>6 DEF OnlyAt, Apart
    <2>10. Agrees(h)'
      <3>1. SameState(h)
        BY <1>4, <2>3, <2>4, <2>6, StackIs DEF SameState, Running
      <3>2. LinkAgrees(h)'
        BY <1>1, <2>3, <2>4, <2>6, <2>9, <3>1, SameFits, AtHand DEF HandFits
      <3>3. Linked(h) /\ Linked(h)'
        <4>1. OnChain(h) /\ OnChain(h)'
          BY <1>1, <2>3, <2>6 DEF OnChain
        <4> QED BY <4>1, ChainsAreApart, ChainsAreApartNext DEF ChainsApart
      <3> QED BY <2>3, <2>4, <3>1, <3>2, <3>3, OnlyMoved
    <2>11. Agrees(p)'
      <3>1. Suspending(p)' <=> Suspending(p)
        BY <1>2, <2>6 DEF Suspending, InBlock
      <3>2. stack[p].call \in CallsAt("ready")
        BY <1>2 DEF CallsAt, InBlock, NeedsWaiter
      <3> QED BY <1>2, <1>4, <2>3, <2>4, <2>6, <2>8, <3>1, <3>2, ActorAgrees DEF Leavings, InBlock, NeedsWaiter
    <2> DEFINE S == {h}
    <2>12. Relinks(S) /\ Others(p, S, <<h>>) /\ MovedAgree(S \ {p})
      <3>1. \A q \in Cprocs : Trying(q) => mutex'[stack[q].mutex].queue = mutex[stack[q].mutex].queue
        BY <1>4, <1>5, Triers
      <3> QED BY <1>4, <2>6, <2>7, <2>8, <2>9, <2>10, <3>1 DEF Relinks, Others, MovedAgree
    <2>13. /\ "ready" \notin Leavings \cup {"none", "receive", "woken", "resume", "leave"}
           /\ "ready" \in Handing /\ stack[p].call \in CallsAt("ready") /\ stack[p].pc \notin Leavings
           /\ p \notin Range(<<h>>)
      BY <1>2, <2>4, <2>6 DEF Leavings, CallsAt, Handing, InBlock, NeedsWaiter
    <2> HIDE DEF S
    <2> QED BY <1>2, <1>4, <2>5, <2>11, <2>12, <2>13, CprocTransfer
  <1> QED BY <1>6, <1>7

LEMMA ConditionWaitPlaces ==
    ASSUME MutexInv, PlaceTypes, PlaceInv, NEW k \in KernelThreads, NEW p \in Cprocs,
           NEW c \in Conditions, NEW m \in Mutexes, ConditionWait(k, p, c, m)
    PROVE  PlaceInv'
  <1>1. p \in Stacks /\ At(k, p, "user")
    BY StackIs DEF ConditionWait
  <1>2. /\ stack[p].pc = "user" /\ Running(p) /\ stack[p].hand = <<>> /\ stack[p].waiter = None
        /\ stack[p].call \in CallsAt("user") /\ Agrees(p)
    BY <1>1, Here DEF Handing, NeedsWaiter
  <1>3. /\ UNCHANGED <<on, lock, wired, messages, ready, mutex, waiters>>
        /\ condition' = [condition EXCEPT ![c] = Append(@, p)]
        /\ state' = [state EXCEPT ![p] = {"CONDWAIT", "SWITCHING"}]
        /\ stack' = [stack EXCEPT ![p].pc = "wait_unlock", ![p].mutex = m]
    BY DEF ConditionWait, wiring
  <1>4. Becomes(p, "wait_unlock", stack[p].call, m, stack[p].queued, None, <<>>)
    BY <1>1, <1>2, <1>3, MutexBecomes
  <1>5. ~Suspending(p) /\ ~OnChain(p) /\ ~Linked(p) /\ stack[p].call = "none" /\ messages[p] = 0 /\ Apart
    BY <1>2, Unsuspended, PlacesApart
       DEF Trying, Suspending, InBlock, CallsAt, NeedsWaiter, Agrees, CprocAgrees
  <1>6. /\ Range(condition'[c]) = Range(condition[c]) \cup {p} /\ IsInjective(condition'[c])
        /\ \A d \in Conditions \ {c} : condition'[d] = condition[d]
    BY <1>3, <1>5, MutexFields, Appended DEF OnChain, Apart
  <1>7. /\ Running(p)' /\ stack'[p].pc = "wait_unlock" /\ stack'[p].call = "none"
        /\ state'[p] = {"CONDWAIT", "SWITCHING"} /\ \A q \in Cprocs \ {p} : state'[q] = state[q]
        /\ \A s \in Stacks : stack'[s].hand = stack[s].hand
    BY <1>2, <1>3, <1>4, <1>5 DEF Running, Becomes, PlaceTypes
  <1>8. Injective'
    <2>1. \A d \in Conditions : IsInjective(condition'[d])
      BY <1>5, <1>6 DEF Apart
    <2> QED BY <1>3, <1>5, <1>7, <2>1 DEF Injective, Apart
  <1>9. \A q \in Cprocs \ {p} : Stays(q)
    BY <1>3, <1>6, <1>7 DEF Stays
  <1>10. OnlyAt(p, <<"condition", c>>)
    BY <1>3, <1>5, <1>6, <1>7 DEF OnlyAt, OnChain
  <1>11. Agrees(p)'
    <2>1. Suspending(p)' /\ Asking(p)' /\ ~Trying(p)'
      BY <1>3, <1>5, <1>7 DEF Suspending, Asking, Trying
    <2>2. LinkAgrees(p)'
      BY <1>10, <2>1, AtQueue
    <2>3. Linked(p)'
      <3>1. OnChain(p)'
        BY <1>6 DEF OnChain
      <3> QED BY <3>1, ChainsAreApartNext DEF ChainsApart
    <2>4. CprocAgrees(p)'
      BY <1>3, <1>5, <1>7, <2>1, <2>3 DEF CprocAgrees, InBlock, NeedsWaiter
    <2> QED BY <2>2, <2>4 DEF Agrees
  <1> DEFINE S == {p}
  <1>12. Relinks(S) /\ Others(p, S, <<>>) /\ MovedAgree(S \ {p})
    BY <1>3, <1>7, <1>8, <1>9, <1>10, NoCprocs DEF Relinks, Others, MovedAgree
  <1>13. /\ "wait_unlock" \notin Leavings \cup {"none", "receive", "woken", "resume", "leave"}
         /\ stack[p].call \in CallsAt("wait_unlock") /\ stack[p].pc \notin Leavings
         /\ p \notin Range(<<>>)
    BY <1>2, <1>5, NoCprocs DEF Leavings, CallsAt, InBlock, NeedsWaiter
  <1> HIDE DEF S
  <1> QED BY <1>2, <1>3, <1>4, <1>11, <1>12, <1>13, CprocTransfer

LEMMA WaitBlockPlaces ==
    ASSUME MutexInv, PlaceTypes, PlaceInv, NEW k \in KernelThreads, NEW p \in Cprocs, WaitBlock(k, p)
    PROVE  PlaceInv'
  <1>1. p \in Stacks /\ At(k, p, "wait_block")
    BY StackIs DEF WaitBlock
  <1>2. /\ stack[p].pc = "wait_block" /\ Running(p) /\ stack[p].hand = <<>> /\ stack[p].waiter = None
        /\ stack[p].call \in CallsAt("wait_block") /\ Agrees(p)
    BY <1>1, Here DEF Handing, NeedsWaiter
  <1>3. UNCHANGED <<on, lock, wired, messages, ready, mutex, condition, waiters>>
    BY DEF WaitBlock, wiring
  <1>4. Running(p)' /\ Suspending(p) /\ ~Trying(p) /\ ~Blocked(p) /\ Apart /\ p \notin Range(<<>>)
        /\ \A q : q \notin Range(<<>>)
    BY <1>2, <1>3, PlacesApart, NoCprocs DEF Running, Suspending, Trying, Blocked
  <1> DEFINE S == {}
  <1>5. ASSUME NEW l, NEW b, NEW n, NEW queued, Becomes(p, l, b, n, queued, None, <<>>),
               \A q \in Cprocs \ {p} : state'[q] = state[q], Agrees(p)',
               l \in {"wired", "block", "retry"}, b \in CallsAt(l)
        PROVE  PlaceInv'
    <2>1. \A s \in Stacks : stack'[s].hand = stack[s].hand
      BY <1>2, <1>5 DEF Becomes
    <2>2. Injective'
      BY <1>3, <1>4, <2>1 DEF Injective, Apart
    <2>3. Relinks(S) /\ Others(p, S, <<>>) /\ MovedAgree(S \ {p})
      BY <1>3, <1>4, <1>5, <2>1, <2>2 DEF Relinks, Others, MovedAgree, Stays
    <2>4. /\ l \notin Leavings \cup {"none", "receive", "woken", "resume", "leave"} /\ l /= "keep"
          /\ stack[p].pc \notin Leavings
      BY <1>2, <1>5 DEF Leavings
    <2> HIDE DEF S
    <2> QED BY <1>2, <1>3, <1>4, <1>5, <2>3, <2>4, CprocTransfer
  <1>6. CASE "SWITCHING" \in state[p]
    <2>1. StartBlock(p)
      BY <1>6 DEF WaitBlock
    <2>2. PICK l : l = IF wired[p] THEN "wired" ELSE "block"
      OBVIOUS
    <2>3. Becomes(p, l, "block", stack[p].mutex, FALSE, None, <<>>)
      BY <1>1, <1>2, <2>1, <2>2, BlockBecomes
    <2>4. /\ \A q \in Cprocs \ {p} : state'[q] = state[q]
          /\ state'[p] = IF wired[p] THEN state[p] ELSE {"SWITCHING"}
      BY <2>1 DEF StartBlock, PlaceTypes
    <2>5. "block" \in CallsAt(l)
      BY <2>2 DEF CallsAt, InBlock, NeedsWaiter
    <2>6. Agrees(p)'
      <3>1. /\ stack'[p].pc = l /\ l \in {"wired", "block"} /\ stack'[p].call = "block"
            /\ stack'[p].hand = <<>> /\ \A r \in Stacks \ {p} : stack'[r] = stack[r]
        BY <2>2, <2>3 DEF Becomes
      <3>2. Suspending(p)'
        BY <3>1 DEF Suspending, InBlock
      <3>3. Stays(p)
        BY <1>2, <1>3, <3>1 DEF Stays
      <3> QED BY <1>2, <1>3, <1>4, <1>6, <2>2, <2>4, <2>5, <3>1, <3>2, <3>3, ActorAgrees
              DEF Leavings, InBlock, NeedsWaiter
    <2> QED BY <1>5, <2>2, <2>3, <2>4, <2>5, <2>6
  <1>7. CASE "SWITCHING" \notin state[p]
    <2>1. Return(p, "retry") /\ state' = [state EXCEPT ![p] = {}]
      BY <1>7 DEF WaitBlock
    <2>2. Becomes(p, "retry", "none", stack[p].mutex, FALSE, None, <<>>)
      BY <1>1, <2>1, ReturnBecomes
    <2>3. \A q \in Cprocs \ {p} : state'[q] = state[q]
      BY <2>1
    <2>4. ~wired[p] /\ ~Asking(p) /\ messages[p] = 0
      BY <1>2, <1>4, <1>7 DEF Agrees, CprocAgrees, Asking
    <2>5. ~OnChain(p)
      BY <1>2, <1>7, <2>4, Unasked
    <2>6. Agrees(p)'
      <3>1. /\ stack'[p].pc = "retry" /\ stack'[p].call = "none"
            /\ stack'[p].hand = <<>> /\ \A r \in Stacks \ {p} : stack'[r] = stack[r]
        BY <2>2 DEF Becomes
      <3>2. Stays(p)
        BY <1>2, <1>3, <3>1 DEF Stays
      <3>3. ~OnChain(p)'
        BY <2>5, <3>2, StaysLinked
      <3>4. ~Suspending(p)' /\ ~Trying(p)'
        BY <3>1 DEF Suspending, Trying, InBlock
      <3> QED BY <1>3, <1>4, <2>4, <3>1, <3>3, <3>4, Unlinked DEF Agrees, CprocAgrees, InBlock, NeedsWaiter
    <2>7. "none" \in CallsAt("retry")
      BY DEF CallsAt, InBlock, NeedsWaiter
    <2> QED BY <1>5, <2>2, <2>3, <2>6, <2>7
  <1> QED BY <1>6, <1>7

LEMMA WakePlaces ==
    ASSUME MutexInv, PlaceTypes, PlaceInv, NEW k \in KernelThreads, NEW p \in Cprocs,
           NEW c \in Conditions, Wake(k, p, c)
    PROVE  PlaceInv'
  <1>1. p \in Stacks /\ At(k, p, "user") /\ condition[c] /= <<>>
    BY StackIs DEF Wake
  <1>2. /\ stack[p].pc = "user" /\ Running(p) /\ stack[p].hand = <<>> /\ stack[p].waiter = None
        /\ stack[p].call \in CallsAt("user") /\ Agrees(p)
    BY <1>1, Here DEF Handing, NeedsWaiter
  <1>3. PICK n \in {1, Len(condition[c])} :
           /\ condition' = [condition EXCEPT ![c] = SubSeq(@, n + 1, Len(@))]
           /\ stack' = [stack EXCEPT ![p].pc = "ready", ![p].call = "wake",
                                     ![p].hand = SubSeq(condition[c], 1, n)]
    BY DEF Wake
  <1>4. UNCHANGED <<on, lock, state, wired, messages, ready, mutex, waiters>>
    BY DEF Wake, wiring
  <1>5. PICK h, r : h = SubSeq(condition[c], 1, n) /\ r = SubSeq(condition[c], n + 1, Len(condition[c]))
    OBVIOUS
  <1>6. /\ condition[c] \in Seq(Cprocs) /\ IsInjective(condition[c]) /\ Apart
        /\ condition'[c] = r /\ \A d \in Conditions \ {c} : condition'[d] = condition[d]
    BY <1>3, <1>5, MutexFields, PlacesApart DEF Apart
  <1>7. /\ h \in Seq(Cprocs) /\ h /= <<>> /\ IsInjective(h) /\ Range(h) \subseteq Range(condition[c])
        /\ IsInjective(r) /\ Range(r) = Range(condition[c]) \ Range(h) /\ Range(h) \subseteq Cprocs
    <2>1. n \in 1..Len(condition[c])
      BY <1>1, <1>6
    <2>2. Range(condition[c]) \subseteq Cprocs
      BY MutexFields
    <2>3. LET f == SubSeq(condition[c], 1, n)
              t == SubSeq(condition[c], n + 1, Len(condition[c])) IN
          /\ f \in Seq(Cprocs) /\ f /= <<>> /\ IsInjective(f) /\ Range(f) \subseteq Range(condition[c])
          /\ t \in Seq(Cprocs) /\ IsInjective(t) /\ Range(t) = Range(condition[c]) \ Range(f)
      BY <1>6, <2>1, Parted
    <2> QED BY <1>5, <2>2, <2>3
  <1>8. Becomes(p, "ready", "wake", stack[p].mutex, stack[p].queued, None, h)
    BY <1>1, <1>2, <1>3, <1>5, CallBecomes
  <1>9. /\ stack'[p].hand = h /\ stack'[p].pc = "ready" /\ stack'[p].call = "wake"
        /\ \A s \in Stacks \ {p} : stack'[s] = stack[s]
    BY <1>8 DEF Becomes
  <1>10. ~Suspending(p) /\ ~OnChain(p) /\ ~Linked(p) /\ messages[p] = 0 /\ Running(p)'
    BY <1>2, <1>4, Unsuspended
       DEF Trying, Suspending, InBlock, CallsAt, NeedsWaiter, Agrees, CprocAgrees, Running
  <1>11. p \notin Range(h)
    BY <1>7, <1>10 DEF OnChain
  <1>12. Injective'
    <2>1. \A d \in Conditions : IsInjective(condition'[d])
      BY <1>6, <1>7 DEF Apart
    <2>2. \A s \in Stacks : IsInjective(stack'[s].hand)
      BY <1>6, <1>7, <1>9 DEF Apart
    <2> QED BY <1>4, <1>6, <2>1, <2>2 DEF Injective, Apart
  <1> DEFINE S == Range(h)
  <1>13. \A q \in Cprocs \ S : Stays(q)
    BY <1>2, <1>4, <1>6, <1>7, <1>9, NoCprocs DEF Stays
  <1>14. \A q \in S : OnlyAt(q, <<"hand", p>>)
    BY <1>4, <1>6, <1>7, <1>9 DEF OnlyAt, Apart
  <1>15. ASSUME NEW q \in S
         PROVE  Agrees(q)'
    <2>1. q \in Cprocs /\ q \in Range(condition[c]) /\ Agrees(q) /\ (Blocked(q) \/ Asking(q)) /\ q /= p
      BY <1>7, <1>11, Linkings
    <2>2. SameState(q)
      BY <1>4, <1>9, <2>1, StackIs DEF SameState, Running
    <2>3. HandFits(q, p)'
      BY <1>9, <2>1, <2>2, SameFits DEF HandFits
    <2>4. LinkAgrees(q)'
      BY <1>1, <1>14, <2>1, <2>3, AtHand
    <2>5. Linked(q) /\ Linked(q)'
      <3>1. OnChain(q) /\ OnChain(q)'
        BY <1>1, <1>9, <2>1 DEF OnChain
      <3> QED BY <3>1, ChainsAreApart, ChainsAreApartNext DEF ChainsApart
    <2> QED BY <2>1, <2>2, <2>4, <2>5, OnlyMoved
  <1>16. "wake" \in CallsAt("ready")
    BY DEF CallsAt, InBlock, NeedsWaiter
  <1>17. Agrees(p)'
    <2>1. Stays(p)
      BY <1>11, <1>13
    <2>2. ~Suspending(p)' /\ ~Trying(p)'
      BY <1>9 DEF Suspending, Trying, InBlock
    <2>3. ~OnChain(p)'
      BY <1>10, <2>1, StaysLinked
    <2> QED BY <1>4, <1>9, <1>10, <2>2, <2>3, Unlinked DEF Agrees, CprocAgrees, InBlock, NeedsWaiter
  <1>18. Relinks(S) /\ Others(p, S, h) /\ MovedAgree(S \ {p})
    BY <1>4, <1>12, <1>13, <1>14, <1>15 DEF Relinks, Others, MovedAgree
  <1>19. /\ "ready" \notin Leavings \cup {"none", "receive", "woken", "resume", "leave"}
         /\ "ready" \in Handing /\ stack[p].pc \notin Leavings
    BY <1>2 DEF Leavings, Handing
  <1> HIDE DEF S
  <1> QED BY <1>2, <1>4, <1>8, <1>11, <1>16, <1>17, <1>18, <1>19, CprocTransfer

\* In cproc_ready, where p goes on with the rest of what it has in hand.
LEMMA ReadiedGoes ==
    ASSUME MutexInv, PlaceInv, NEW p \in Cprocs, Running(p), on' = on,
           stack[p].pc \in {"ready", "enqueue", "send"}, NEW rest, Readied(p, rest)
    PROVE  \E l, b, n, queued :
              /\ Becomes(p, l, b, n, queued, None, rest)
              /\ l \in {"ready", "user", "retry", "wait_block"} /\ (l = "ready" <=> rest /= <<>>)
              /\ b \in CallsAt(l) /\ (Suspending(p)' <=> Suspending(p))
  <1>1. p \in Stacks /\ stack[p].call \in Calls /\ stack[p].waiter = None
        /\ stack[p].call \in {"unlock", "wait", "block", "wake"}
    <2>1. p \in Stacks /\ stack[p].call \in Calls
      BY StackIs, Knows, Record
    <2>2. stack[p].waiter = None /\ stack[p].call \in CallsAt(stack[p].pc)
      BY <2>1 DEF PlaceInv, WaitersAgree, StacksAgree, StackAgrees, NeedsWaiter
    <2> QED BY <2>1, <2>2 DEF CallsAt, InBlock, NeedsWaiter
  <1>2. CASE rest = <<>>
    <2>1. PICK l : l = AfterReady(stack[p].call)
      OBVIOUS
    <2>2. PICK n : n = IF l = "user" THEN None ELSE stack[p].mutex
      OBVIOUS
    <2>3. Becomes(p, l, "none", n, FALSE, None, rest)
      BY <1>1, <1>2, <2>1, <2>2, ReadiedBecomes
    <2>4. l \in {"user", "retry", "wait_block"} /\ "none" \in CallsAt(l)
          /\ (l = "wait_block" <=> stack[p].call = "wait")
      BY <1>1, <2>1, AfterReadyIs
    <2>5. Suspending(p)' <=> Suspending(p)
      BY <1>1, <2>3, <2>4 DEF Becomes, Suspending, InBlock
    <2> QED BY <1>2, <2>3, <2>4, <2>5
  <1>3. CASE rest /= <<>>
    <2>1. PICK b, n, queued : b = stack[p].call /\ n = stack[p].mutex /\ queued = stack[p].queued
      OBVIOUS
    <2>2. Becomes(p, "ready", b, n, queued, None, rest)
      BY <1>1, <1>3, <2>1, ReadiedBecomes
    <2>3. b \in CallsAt("ready")
      BY <1>1, <2>1 DEF CallsAt, InBlock, NeedsWaiter
    <2>4. Suspending(p)' <=> Suspending(p)
      BY <1>1, <2>1, <2>2 DEF Becomes, Suspending, InBlock
    <2> QED BY <1>3, <2>2, <2>3, <2>4
  <1> QED BY <1>2, <1>3

\* A step of cproc_ready.
LEMMA HandStep ==
    ASSUME MutexInv, PlaceInv, NEW p \in Cprocs, Running(p), stack[p].pc \in {"ready", "enqueue", "send"},
           UNCHANGED <<on, lock, waiters, wired, mutex, condition>>,
           state'[p] = state[p], messages'[p] = messages[p],
           p \in Range(ready') <=> p \in Range(ready),
           NEW l, NEW b, NEW n, NEW queued, NEW h, Becomes(p, l, b, n, queued, None, h),
           l \in {"ready", "enqueue", "send", "user", "retry", "wait_block"},
           l \notin Handing => h = <<>>, b \in CallsAt(l), Suspending(p)' <=> Suspending(p),
           IsInjective(h), IsInjective(ready'), Range(h) \subseteq Range(stack[p].hand),
           \A q \in Cprocs \ Range(stack[p].hand) :
              /\ q \in Range(ready') <=> q \in Range(ready)
              /\ state'[q] = state[q] /\ messages'[q] = messages[q],
           \A q \in Range(stack[p].hand) : (\E y : OnlyAt(q, y)) /\ Agrees(q)'
    PROVE  PlaceInv'
  <1>1. p \in Stacks /\ stack[p].waiter = None /\ p \notin Range(stack[p].hand) /\ Apart
    BY StackIs, PlacesApart DEF PlaceInv, WaitersAgree, StacksAgree, HandAgrees, NeedsWaiter
  <1>2. /\ stack'[p].hand = h /\ stack'[p].pc = l /\ stack'[p].call = b
        /\ \A r \in Stacks \ {p} : stack'[r] = stack[r]
    BY DEF Becomes
  <1>3. Injective'
    <2>1. \A s \in Stacks : IsInjective(stack'[s].hand)
      BY <1>1, <1>2 DEF Apart
    <2> QED BY <1>1, <2>1 DEF Injective, Apart
  <1> DEFINE S == Range(stack[p].hand)
  <1>4. \A q \in Cprocs \ S : Stays(q)
    BY <1>2 DEF Stays
  <1>5. Agrees(p)'
    BY <1>1, <1>2, <1>4, ActorAgrees DEF Leavings, InBlock, NeedsWaiter
  <1>6. Relinks(S) /\ Others(p, S, h) /\ MovedAgree(S \ {p})
    BY <1>3, <1>4 DEF Relinks, Others, MovedAgree
  <1>7. /\ l \notin Leavings \cup {"none", "receive", "woken", "resume", "leave"} /\ l /= "keep"
        /\ stack[p].pc \notin Leavings /\ p \notin Range(h)
    BY <1>1 DEF Leavings
  <1> HIDE DEF S
  <1> QED BY <1>1, <1>5, <1>6, <1>7, CprocTransfer

\* Who stays in the hand of p.
LEMMA RestAgrees ==
    ASSUME PlaceInv, NEW p \in Cprocs, NEW q \in Range(stack[p].hand), q \in Cprocs, q /= p,
           Blocked(q) \/ Asking(q), UNCHANGED <<on, mutex, condition, wired>>,
           state'[q] = state[q], messages'[q] = messages[q],
           \A r \in Stacks \ {p} : stack'[r] = stack[r],
           q \in Range(stack'[p].hand), q \notin Range(ready'),
           \/ stack'[p].pc \in {"ready", "send"}
           \/ stack'[p].pc = "enqueue" /\ (Blocked(q) \/ q /= Head(stack'[p].hand))
    PROVE  OnlyAt(q, <<"hand", p>>) /\ Agrees(q)'
  <1>1. p \in Stacks /\ q \in Stacks /\ Apart
    BY StackIs, PlacesApart
  <1>2. OnlyAt(q, <<"hand", p>>)
    BY <1>1 DEF OnlyAt, Apart
  <1>3. SameState(q)
    BY <1>1 DEF SameState, Running
  <1>4. HandFits(q, p)'
    BY <1>3, SameFits DEF HandFits
  <1>5. LinkAgrees(q)'
    BY <1>1, <1>2, <1>4, AtHand
  <1>6. Linked(q) /\ Linked(q)'
    <2>1. OnChain(q) /\ OnChain(q)'
      BY <1>1 DEF OnChain
    <2> QED BY <2>1, ChainsAreApart, ChainsAreApartNext DEF ChainsApart
  <1> QED BY <1>2, <1>3, <1>5, <1>6, OnlyMoved, Linkings

\* What p has in hand in cproc_ready.
LEMMA InReady ==
    ASSUME MutexInv, PlaceInv, NEW k \in KernelThreads, NEW p \in Cprocs, NEW l, At(k, p, l),
           l \in {"ready", "enqueue", "send"}
    PROVE  /\ p \in Stacks /\ stack[p].pc = l /\ Running(p) /\ Apart /\ p \notin Range(stack[p].hand)
           /\ stack[p].hand \in Seq(Cprocs) /\ IsInjective(stack[p].hand)
           /\ Range(stack[p].hand) \subseteq Cprocs /\ stack[p].call \in CallsAt(l)
           /\ l /= "send" =>
                 /\ Head(stack[p].hand) \in Range(stack[p].hand) /\ IsInjective(Tail(stack[p].hand))
                 /\ Range(Tail(stack[p].hand)) = Range(stack[p].hand) \ {Head(stack[p].hand)}
                 /\ Tail(stack[p].hand) \in Seq(Cprocs)
           /\ \A q \in Range(stack[p].hand) :
                 /\ q \in Cprocs /\ q /= p /\ Agrees(q) /\ (Blocked(q) \/ Asking(q))
                 /\ l = "enqueue" /\ q = Head(stack[p].hand) => Blocked(q)
                 /\ q \notin Range(ready)
  <1>1. p \in Stacks
    BY StackIs
  <1>2. /\ stack[p].pc = l /\ Running(p) /\ Apart /\ HandAgrees(p) /\ stack[p].hand \in Seq(Cprocs)
        /\ IsInjective(stack[p].hand) /\ Range(stack[p].hand) \subseteq Cprocs /\ stack[p].call \in CallsAt(l)
        /\ l /= "send" => stack[p].hand /= <<>>
    BY <1>1, Here, PlacesApart, MutexFields, Knows DEF Apart
  <1>3. p \notin Range(stack[p].hand)
    BY <1>2 DEF HandAgrees
  <1>4. ASSUME NEW q \in Range(stack[p].hand)
        PROVE  /\ q \in Cprocs /\ q /= p /\ Agrees(q) /\ (Blocked(q) \/ Asking(q))
               /\ l = "enqueue" /\ q = Head(stack[p].hand) => Blocked(q)
               /\ q \notin Range(ready)
    <2>1. q \in Cprocs /\ q /= p /\ HandFits(q, p) /\ Agrees(q)
      BY <1>1, <1>2, <1>3, Linkings
    <2> QED BY <1>1, <1>2, <2>1 DEF HandFits, Apart
  <1>5. l /= "send" =>
           /\ Head(stack[p].hand) \in Range(stack[p].hand) /\ IsInjective(Tail(stack[p].hand))
           /\ Range(Tail(stack[p].hand)) = Range(stack[p].hand) \ {Head(stack[p].hand)}
           /\ Tail(stack[p].hand) \in Seq(Cprocs)
    BY <1>2, Headed
  <1> QED BY <1>1, <1>2, <1>3, <1>4, <1>5

\* Whoever cproc_ready has told that it is ready, and who is linked no more.
LEMMA ReadiedAgrees ==
    ASSUME MutexInv, PlaceInv, NEW p \in Cprocs, NEW q \in Range(stack[p].hand), q \in Cprocs, q /= p,
           Asking(q), Agrees(q), UNCHANGED <<on, mutex, condition, ready, wired>>,
           \A r \in Stacks \ {p} : stack'[r] = stack[r],
           q \notin Range(stack'[p].hand),
           IF wired[q] THEN messages'[q] = 1 /\ state'[q] = state[q]
           ELSE messages'[q] = messages[q] /\ state'[q] = state[q] \ {"SWITCHING"}
    PROVE  (\E y : OnlyAt(q, y)) /\ Agrees(q)'
  <1>1. p \in Stacks /\ q \in Stacks /\ Apart
    BY StackIs, PlacesApart
  <1>2. ~OnChain(q)'
    BY <1>1 DEF OnChain, Apart
  <1>3. /\ Running(q) /\ Running(q)' /\ stack'[q] = stack[q] /\ Suspending(q) /\ Suspending(q)'
        /\ ~Trying(q)'
    BY <1>1 DEF Asking, Running, Suspending, Trying, InBlock
  <1>4. CprocAgrees(q)'
    BY <1>2, <1>3, Unlinked DEF Agrees, CprocAgrees, Suspending, InBlock, NeedsWaiter
  <1> QED BY <1>2, <1>4, Unlinked DEF Agrees

LEMMA ReadyPlaces ==
    ASSUME MutexInv, PlaceTypes, PlaceInv, NEW k \in KernelThreads, NEW p \in Cprocs, Ready(k, p)
    PROVE  PlaceInv'
  <1>1. At(k, p, "ready")
    BY DEF Ready
  <1>2. PICK h0, q : h0 = stack[p].hand /\ q = Head(h0)
    OBVIOUS
  <1>3. /\ p \in Stacks /\ stack[p].pc = "ready" /\ Running(p) /\ Apart /\ p \notin Range(h0)
        /\ h0 \in Seq(Cprocs) /\ IsInjective(h0) /\ Range(h0) \subseteq Cprocs
        /\ stack[p].call \in CallsAt("ready")
        /\ q \in Range(h0) /\ IsInjective(Tail(h0)) /\ Range(Tail(h0)) = Range(h0) \ {q}
        /\ \A x \in Range(h0) : x \in Cprocs /\ x /= p /\ Agrees(x) /\ (Blocked(x) \/ Asking(x))
                               /\ x \notin Range(ready)
    BY <1>1, <1>2, InReady
  <1>4. UNCHANGED <<on, lock, wired, ready, mutex, condition, waiters>> /\ IsInjective(ready)
    BY <1>3 DEF Ready, Apart
  <1>5. \A x : x \in Range(ready') <=> x \in Range(ready)
    BY <1>4
  <1>6. ASSUME Readied(p, Tail(h0)), Asking(q),
               \A x \in Cprocs \ {q} : messages'[x] = messages[x] /\ state'[x] = state[x],
               IF wired[q] THEN messages'[q] = 1 /\ state'[q] = state[q]
               ELSE messages'[q] = messages[q] /\ state'[q] = state[q] \ {"SWITCHING"}
        PROVE  PlaceInv'
    <2>1. PICK l, b, n, queued :
             /\ Becomes(p, l, b, n, queued, None, Tail(h0))
             /\ l \in {"ready", "user", "retry", "wait_block"} /\ (l = "ready" <=> Tail(h0) /= <<>>)
             /\ b \in CallsAt(l) /\ (Suspending(p)' <=> Suspending(p))
      BY <1>3, <1>4, <1>6, ReadiedGoes
    <2>2. /\ stack'[p].hand = Tail(h0) /\ stack'[p].pc = l
          /\ \A r \in Stacks \ {p} : stack'[r] = stack[r]
      BY <2>1 DEF Becomes
    <2>3. ASSUME NEW x \in Range(h0)
          PROVE  (\E y : OnlyAt(x, y)) /\ Agrees(x)'
      <3>1. CASE x = q
        BY <1>2, <1>3, <1>4, <1>6, <2>2, <3>1, ReadiedAgrees
      <3>2. CASE x /= q
        <4>1. x \in Range(Tail(h0)) /\ l = "ready"
          BY <1>3, <2>1, <2>3, <3>2, NoCprocs
        <4> QED BY <1>2, <1>3, <1>4, <1>6, <2>2, <2>3, <3>2, <4>1, RestAgrees
      <3> QED BY <3>1, <3>2
    <2>4. /\ state'[p] = state[p] /\ messages'[p] = messages[p]
          /\ \A x \in Cprocs \ Range(h0) : state'[x] = state[x] /\ messages'[x] = messages[x]
      BY <1>3, <1>6
    <2>5. /\ l \in {"ready", "enqueue", "send", "user", "retry", "wait_block"}
          /\ l \notin Handing => Tail(h0) = <<>>
      BY <2>1 DEF Handing
    <2> QED BY <1>2, <1>3, <1>4, <1>5, <2>1, <2>3, <2>4, <2>5, HandStep
  <1>7. CASE wired[q]
    <2>1. Asking(q) /\ messages[q] = 0
      BY <1>3, <1>7 DEF Blocked, Asking
    <2>2. Readied(p, Tail(h0)) /\ state' = state /\ messages' = [messages EXCEPT ![q] = @ + 1]
      BY <1>2, <1>7 DEF Ready
    <2>3. messages'[q] = 1 /\ \A x \in Cprocs \ {q} : messages'[x] = messages[x]
      BY <1>3, <2>1, <2>2 DEF PlaceTypes
    <2> QED BY <1>6, <1>7, <2>1, <2>2, <2>3
  <1>8. CASE ~wired[q] /\ "SWITCHING" \in state[q]
    <2>1. Asking(q)
      BY <1>3, <1>8 DEF Blocked
    <2>2. Readied(p, Tail(h0)) /\ messages' = messages /\ state' = [state EXCEPT ![q] = @ \ {"SWITCHING"}]
      BY <1>2, <1>8 DEF Ready
    <2>3. state'[q] = state[q] \ {"SWITCHING"} /\ \A x \in Cprocs \ {q} : state'[x] = state[x]
      BY <1>3, <2>2 DEF PlaceTypes
    <2> QED BY <1>6, <1>8, <2>1, <2>2, <2>3
  <1>9. CASE ~wired[q] /\ "SWITCHING" \notin state[q]
    <2>1. Blocked(q)
      BY <1>3, <1>9 DEF Asking
    <2>2. Goto(p, "enqueue") /\ messages' = messages /\ state' = state
      BY <1>2, <1>9 DEF Ready
    <2>3. PICK b, n, queued : b = stack[p].call /\ n = stack[p].mutex /\ queued = stack[p].queued
      OBVIOUS
    <2>4. Becomes(p, "enqueue", b, n, queued, None, h0)
      <3>1. stack[p].waiter = None
        BY <1>1, <1>3, Here DEF NeedsWaiter
      <3> QED BY <1>2, <1>3, <2>2, <2>3, <3>1, GotoBecomes
    <2>5. /\ stack'[p].hand = h0 /\ stack'[p].pc = "enqueue" /\ stack'[p].call = stack[p].call
          /\ \A r \in Stacks \ {p} : stack'[r] = stack[r]
      BY <2>3, <2>4 DEF Becomes
    <2>6. /\ Suspending(p)' <=> Suspending(p)
          /\ b \in CallsAt("enqueue") /\ "enqueue" \in Handing
      BY <1>3, <2>3, <2>5 DEF Suspending, InBlock, CallsAt, NeedsWaiter, Handing
    <2>7. ASSUME NEW x \in Range(h0)
          PROVE  (\E y : OnlyAt(x, y)) /\ Agrees(x)'
      <3>1. Blocked(x) \/ x /= Head(stack'[p].hand)
        BY <1>2, <2>1, <2>5
      <3> QED BY <1>2, <1>3, <1>4, <2>2, <2>5, <3>1, RestAgrees
    <2> QED BY <1>2, <1>3, <1>4, <1>5, <2>2, <2>4, <2>6, <2>7, HandStep
  <1> QED BY <1>7, <1>8, <1>9

LEMMA EnqueuePlaces ==
    ASSUME MutexInv, PlaceInv, NEW k \in KernelThreads, NEW p \in Cprocs, Enqueue(k, p)
    PROVE  PlaceInv'
  <1>1. At(k, p, "enqueue")
    BY DEF Enqueue
  <1>2. PICK h0, q : h0 = stack[p].hand /\ q = Head(h0)
    OBVIOUS
  <1>3. /\ p \in Stacks /\ stack[p].pc = "enqueue" /\ Running(p) /\ Apart /\ p \notin Range(h0)
        /\ h0 \in Seq(Cprocs) /\ IsInjective(h0) /\ Range(h0) \subseteq Cprocs
        /\ stack[p].call \in CallsAt("enqueue") /\ Blocked(q)
        /\ q \in Range(h0) /\ IsInjective(Tail(h0)) /\ Range(Tail(h0)) = Range(h0) \ {q}
        /\ \A x \in Range(h0) : x \in Cprocs /\ x /= p /\ Agrees(x) /\ (Blocked(x) \/ Asking(x))
                               /\ x \notin Range(ready)
    BY <1>1, <1>2, InReady
  <1>4. UNCHANGED <<on, lock, state, wired, messages, mutex, condition, waiters>>
    BY DEF Enqueue, wiring
  <1>5. IsInjective(ready') /\ Range(ready') = Range(ready) \cup {q}
    <2>1. ready \in Seq(Cprocs) /\ IsInjective(ready)
      BY <1>3, MutexFields DEF Apart
    <2>2. ready' = IF stack[p].call = "block" THEN <<q>> \o ready ELSE Append(ready, q)
      BY <1>2 DEF Enqueue
    <2> QED BY <1>3, <2>1, <2>2, Appended, Prepended
  <1>6. ASSUME NEW l, NEW b, NEW n, NEW queued, Becomes(p, l, b, n, queued, None, Tail(h0)),
               l \in {"ready", "send", "user", "retry", "wait_block"},
               l \in {"ready", "send"} \/ Tail(h0) = <<>>,
               b \in CallsAt(l), Suspending(p)' <=> Suspending(p)
        PROVE  PlaceInv'
    <2>1. /\ stack'[p].hand = Tail(h0) /\ stack'[p].pc = l
          /\ \A r \in Stacks \ {p} : stack'[r] = stack[r]
      BY <1>6 DEF Becomes
    <2>2. ASSUME NEW x \in Range(h0)
          PROVE  (\E y : OnlyAt(x, y)) /\ Agrees(x)'
      <3>1. CASE x = q
        <4>1. OnlyAt(q, <<"ready", None>>)
          BY <1>2, <1>3, <1>4, <2>1 DEF OnlyAt, Apart
        <4>2. q \in Cprocs /\ q \in Stacks /\ q /= p
          BY <1>3, StackIs
        <4>3. SameState(q)
          BY <1>4, <2>1, <4>2 DEF SameState, Running
        <4>4. LinkAgrees(q)'
          BY <1>3, <4>1, <4>2, <4>3, SameFits, AtQueue
        <4>5. Linked(q) /\ Linked(q)'
          <5>1. OnChain(q) /\ OnChain(q)'
            BY <1>2, <1>3, <1>5 DEF OnChain
          <5> QED BY <5>1, ChainsAreApart, ChainsAreApartNext DEF ChainsApart
        <4> QED BY <1>3, <3>1, <4>1, <4>2, <4>3, <4>4, <4>5, OnlyMoved
      <3>2. CASE x /= q
        <4>1. x \in Range(Tail(h0)) /\ l \in {"ready", "send"}
          BY <1>3, <1>6, <2>2, <3>2, NoCprocs
        <4> QED BY <1>2, <1>3, <1>4, <1>5, <2>1, <2>2, <3>2, <4>1, RestAgrees
      <3> QED BY <3>1, <3>2
    <2>3. /\ p \in Range(ready') <=> p \in Range(ready)
          /\ \A x \in Cprocs \ Range(h0) : /\ x \in Range(ready') <=> x \in Range(ready)
                                         /\ state'[x] = state[x] /\ messages'[x] = messages[x]
      BY <1>3, <1>4, <1>5
    <2>4. /\ l \in {"ready", "enqueue", "send", "user", "retry", "wait_block"}
          /\ l \notin Handing => Tail(h0) = <<>>
      BY <1>6 DEF Handing
    <2> QED BY <1>2, <1>3, <1>4, <1>5, <1>6, <2>2, <2>3, <2>4, HandStep
  <1>7. CASE Readied(p, Tail(h0))
    <2>1. PICK l, b, n, queued :
             /\ Becomes(p, l, b, n, queued, None, Tail(h0))
             /\ l \in {"ready", "user", "retry", "wait_block"} /\ (l = "ready" <=> Tail(h0) /= <<>>)
             /\ b \in CallsAt(l) /\ (Suspending(p)' <=> Suspending(p))
      BY <1>3, <1>4, <1>7, ReadiedGoes
    <2> QED BY <1>6, <2>1
  <1>8. CASE stack' = [stack EXCEPT ![p].pc = "send", ![p].hand = Tail(@)]
    <2>1. PICK b, n, queued : b = stack[p].call /\ n = stack[p].mutex /\ queued = stack[p].queued
      OBVIOUS
    <2>2. Becomes(p, "send", b, n, queued, None, Tail(h0))
      <3>1. stack[p].waiter = None
        BY <1>1, <1>3, Here DEF NeedsWaiter
      <3>2. stack' = [stack EXCEPT ![p].pc = "send", ![p].hand = Tail(h0)]
        BY <1>2, <1>8
      <3> QED BY <1>3, <2>1, <3>1, <3>2, HandBecomes
    <2>3. /\ Suspending(p)' <=> Suspending(p)
          /\ b \in CallsAt("send")
      BY <1>3, <2>1, <2>2 DEF Becomes, Suspending, InBlock, CallsAt, NeedsWaiter
    <2> QED BY <1>6, <2>2, <2>3
  <1> QED BY <1>2, <1>7, <1>8 DEF Enqueue

LEMMA SendPlaces ==
    ASSUME MutexInv, PlaceInv, NEW k \in KernelThreads, NEW p \in Cprocs, Send(k, p)
    PROVE  PlaceInv'
  <1>1. At(k, p, "send")
    BY DEF Send
  <1>2. PICK h0 : h0 = stack[p].hand
    OBVIOUS
  <1>3. /\ p \in Stacks /\ stack[p].pc = "send" /\ Running(p) /\ Apart /\ p \notin Range(h0)
        /\ IsInjective(h0)
        /\ \A x \in Range(h0) : x \in Cprocs /\ x /= p /\ (Blocked(x) \/ Asking(x)) /\ x \notin Range(ready)
    BY <1>1, <1>2, InReady
  <1>4. UNCHANGED <<on, lock, state, wired, messages, mutex, condition, waiters, ready>> /\ IsInjective(ready)
    BY <1>3 DEF Send, wiring, Apart
  <1>5. PICK l, b, n, queued :
           /\ Becomes(p, l, b, n, queued, None, h0)
           /\ l \in {"ready", "user", "retry", "wait_block"} /\ (l = "ready" <=> h0 /= <<>>)
           /\ b \in CallsAt(l) /\ (Suspending(p)' <=> Suspending(p))
    BY <1>2, <1>3, <1>4, ReadiedGoes DEF Send
  <1>6. /\ stack'[p].hand = h0 /\ stack'[p].pc = l
        /\ \A r \in Stacks \ {p} : stack'[r] = stack[r]
    BY <1>5 DEF Becomes
  <1>7. ASSUME NEW x \in Range(h0)
        PROVE  (\E y : OnlyAt(x, y)) /\ Agrees(x)'
    <2>1. l = "ready"
      BY <1>5, <1>7, NoCprocs
    <2> QED BY <1>2, <1>3, <1>4, <1>6, <1>7, <2>1, RestAgrees
  <1>8. /\ p \in Range(ready') <=> p \in Range(ready)
        /\ \A x \in Cprocs \ Range(h0) : /\ x \in Range(ready') <=> x \in Range(ready)
                                       /\ state'[x] = state[x] /\ messages'[x] = messages[x]
    BY <1>4
  <1>9. /\ l \in {"ready", "enqueue", "send", "user", "retry", "wait_block"}
        /\ l \notin Handing => h0 = <<>>
    BY <1>5 DEF Handing
  <1> QED BY <1>2, <1>3, <1>4, <1>5, <1>7, <1>8, <1>9, HandStep

LEMMA ReceiveWiredPlaces ==
    ASSUME MutexInv, PlaceTypes, PlaceInv, NEW k \in KernelThreads, NEW p \in Cprocs, ReceiveWired(k, p)
    PROVE  PlaceInv'
  <1>1. p \in Stacks /\ At(k, p, "wired") /\ messages[p] > 0
    BY StackIs DEF ReceiveWired
  <1>2. /\ stack[p].pc = "wired" /\ Running(p) /\ stack[p].hand = <<>> /\ stack[p].waiter = None
        /\ Agrees(p) /\ Apart
    BY <1>1, Here, PlacesApart DEF Handing, NeedsWaiter
  <1>3. UNCHANGED <<on, lock, state, wired, ready, mutex, condition, waiters>>
        /\ messages' = [messages EXCEPT ![p] = @ - 1] /\ Return(p, "retry")
    BY DEF ReceiveWired
  <1>4. /\ messages[p] = 1 /\ ~Linked(p) /\ messages'[p] = 0
        /\ \A q \in Cprocs \ {p} : messages'[q] = messages[q]
    BY <1>1, <1>2, <1>3 DEF Agrees, CprocAgrees, PlaceTypes
  <1>5. PICK n : n = stack[p].mutex
    OBVIOUS
  <1>6. Becomes(p, "retry", "none", n, FALSE, None, <<>>)
    BY <1>1, <1>3, <1>5, ReturnBecomes
  <1>7. /\ stack'[p].pc = "retry" /\ stack'[p].call = "none" /\ Running(p)'
        /\ \A s \in Stacks : stack'[s].hand = stack[s].hand
    BY <1>2, <1>3, <1>6 DEF Becomes, Running
  <1> DEFINE S == {}
  <1>8. Injective' /\ \A q : Stays(q)
    BY <1>2, <1>3, <1>7 DEF Injective, Apart, Stays
  <1>9. Agrees(p)'
    <2>1. ~Suspending(p)' /\ ~Trying(p)'
      BY <1>7 DEF Suspending, Trying, InBlock
    <2>2. ~OnChain(p) /\ ~OnChain(p)'
      BY <1>4, <1>8, StaysLinked, ChainsAreApart DEF ChainsApart
    <2> QED BY <1>3, <1>4, <1>7, <2>1, <2>2, Unlinked DEF Agrees, CprocAgrees, InBlock, NeedsWaiter
  <1>10. Relinks(S) /\ Others(p, S, <<>>) /\ MovedAgree(S \ {p})
    BY <1>3, <1>4, <1>8, NoCprocs DEF Relinks, Others, MovedAgree
  <1>11. /\ "retry" \notin Leavings \cup {"none", "receive", "woken", "resume", "leave"}
         /\ "none" \in CallsAt("retry") /\ stack[p].pc \notin Leavings /\ p \notin Range(<<>>)
    BY <1>2, NoCprocs DEF Leavings, CallsAt, InBlock, NeedsWaiter
  <1> HIDE DEF S
  <1> QED BY <1>2, <1>3, <1>6, <1>9, <1>10, <1>11, CprocTransfer

LEMMA DequeueReadyPlaces ==
    ASSUME MutexInv, PlaceInv, NEW k \in KernelThreads, NEW p \in Cprocs, DequeueReady(k, p)
    PROVE  PlaceInv'
  <1>1. p \in Stacks /\ At(k, p, "block")
    BY StackIs DEF DequeueReady
  <1>2. /\ stack[p].pc = "block" /\ Running(p) /\ stack[p].hand = <<>> /\ stack[p].waiter = None
        /\ stack[p].call \in CallsAt("block") /\ Agrees(p) /\ Apart
    BY <1>1, Here, PlacesApart DEF Handing, NeedsWaiter
  <1>3. UNCHANGED <<on, lock, state, wired, messages, mutex, condition, waiters>>
    BY DEF DequeueReady, wiring
  <1>4. PICK b, n, queued : b = stack[p].call /\ n = stack[p].mutex /\ queued = stack[p].queued
    OBVIOUS
  <1>5. stack[p].call = "block" /\ ~wired[p]
    BY <1>2 DEF CallsAt, InBlock, NeedsWaiter, Agrees, CprocAgrees
  <1>6. CASE ready = <<>>
    <2>1. ready' = ready /\ Goto(p, "getwaiter")
      BY <1>6 DEF DequeueReady
    <2>2. Becomes(p, "getwaiter", b, n, queued, None, <<>>)
      BY <1>1, <1>2, <1>4, <2>1, GotoBecomes
    <2>3. /\ stack[p].pc \notin Leavings \cup {"try", "none"}
          /\ "getwaiter" \in PCs
          /\ "getwaiter" \notin Leavings \cup Handing \cup {"try", "none", "receive", "woken"}
          /\ "getwaiter" \in InBlock /\ stack[p].pc \in InBlock
          /\ b \in CallsAt("getwaiter")
      BY <1>2, <1>4, Names DEF CallsAt, Leavings, Handing, InBlock, NeedsWaiter
    <2>4. Suspending(p)' <=> Suspending(p)
      BY <1>2, <2>2 DEF Becomes, Suspending, InBlock
    <2> QED BY <1>2, <1>3, <1>4, <1>5, <2>1, <2>2, <2>3, <2>4, Quiet
  <1>7. CASE ready /= <<>>
    <2>1. PICK h : h = Head(ready)
      OBVIOUS
    <2>2. ready' = Tail(ready) /\ stack' = [stack EXCEPT ![p].pc = "keep", ![p].hand = <<h>>]
      BY <1>7, <2>1 DEF DequeueReady
    <2>3. /\ h \in Cprocs /\ h \in Range(ready)
          /\ Range(ready') = Range(ready) \ {h} /\ IsInjective(ready')
      <3>1. ready \in Seq(Cprocs) /\ IsInjective(ready)
        BY <1>2, MutexFields DEF Apart
      <3> QED BY <1>7, <2>1, <2>2, <3>1, Headed
    <2>4. /\ Blocked(h) /\ Agrees(h) /\ h /= p
      BY <1>2, <2>3, Linkings DEF Blocked
    <2>5. Becomes(p, "keep", b, n, queued, None, <<h>>)
      BY <1>1, <1>2, <1>4, <2>2, HandBecomes
    <2>6. /\ stack'[p].hand = <<h>> /\ Range(<<h>>) = {h} /\ IsInjective(<<h>>) /\ Len(<<h>>) = 1
          /\ stack'[p].pc = "keep" /\ stack'[p].call = stack[p].call /\ stack'[p].mutex = stack[p].mutex
          /\ \A r \in Stacks \ {p} : stack'[r] = stack[r]
      BY <1>4, <2>5, Single DEF Becomes
    <2>7. Injective'
      <3>1. \A s \in Stacks : IsInjective(stack'[s].hand)
        BY <1>2, <2>6 DEF Apart
      <3> QED BY <1>2, <1>3, <2>3, <3>1 DEF Injective, Apart
    <2>8. \A q \in Cprocs \ {h} : Stays(q)
      BY <1>2, <1>3, <2>3, <2>6, NoCprocs DEF Stays
    <2>9. OnlyAt(h, <<"hand", p>>)
      BY <1>2, <1>3, <2>3, <2>6 DEF OnlyAt, Apart
    <2>10. Agrees(h)'
      <3>1. SameState(h)
        BY <1>3, <2>3, <2>4, <2>6, StackIs DEF SameState, Running
      <3>2. LinkAgrees(h)'
        BY <1>1, <2>3, <2>4, <2>6, <2>9, <3>1, SameFits, AtHand DEF HandFits
      <3>3. Linked(h) /\ Linked(h)'
        <4>1. OnChain(h) /\ OnChain(h)'
          BY <1>1, <2>3, <2>6 DEF OnChain
        <4> QED BY <4>1, ChainsAreApart, ChainsAreApartNext DEF ChainsApart
      <3> QED BY <2>3, <2>4, <3>1, <3>2, <3>3, OnlyMoved
    <2>11. stack[p].call \in CallsAt("keep")
      BY <1>5 DEF CallsAt, InBlock, NeedsWaiter
    <2>12. Agrees(p)'
      <3>1. Suspending(p)' <=> Suspending(p)
        BY <1>2, <2>6 DEF Suspending, InBlock
      <3>2. state[p] \in {{}, {"SWITCHING"}}
        BY <1>2 DEF Agrees, CprocAgrees, InBlock
      <3> QED BY <1>2, <1>3, <1>5, <2>4, <2>6, <2>8, <2>11, <3>1, <3>2, ActorAgrees
              DEF Leavings, InBlock, NeedsWaiter
    <2> DEFINE S == {h}
    <2>13. Relinks(S) /\ Others(p, S, <<h>>) /\ MovedAgree(S \ {p})
      BY <1>3, <2>6, <2>7, <2>8, <2>9, <2>10 DEF Relinks, Others, MovedAgree
    <2>14. /\ "keep" \notin Leavings \cup {"none", "receive", "woken", "resume", "leave"}
           /\ "keep" \in Handing /\ stack[p].pc \notin Leavings
           /\ p \notin Range(<<h>>)
      BY <1>2, <2>4, <2>6 DEF Leavings, Handing
    <2> HIDE DEF S
    <2> QED BY <1>2, <1>3, <1>4, <2>5, <2>6, <2>11, <2>12, <2>13, <2>14, CprocTransfer
  <1> QED BY <1>6, <1>7

LEMMA BlockSwitchPlaces ==
    ASSUME MutexInv, PlaceTypes, PlaceInv, NEW k \in KernelThreads, NEW p \in Cprocs, BlockSwitch(k, p)
    PROVE  PlaceInv'
  <1>1. p \in Stacks /\ At(k, p, "keep") /\ ~lock[p]
    BY StackIs DEF BlockSwitch, KeepOrBlock
  <1>2. PICK h, b, n, queued :
           h = stack[p].hand /\ b = stack[p].call /\ n = stack[p].mutex /\ queued = stack[p].queued
    OBVIOUS
  <1>3. /\ stack[p].pc = "keep" /\ Running(p) /\ stack[p].waiter = None /\ stack[p].call = "block"
        /\ Agrees(p) /\ Apart /\ h \in Seq(Cprocs) /\ Len(h) = 1 /\ p \notin Range(h) /\ Range(h) \subseteq Cprocs
    BY <1>1, <1>2, Here, PlacesApart, MutexFields DEF Handing, NeedsWaiter, CallsAt, InBlock, HandAgrees
  <1>4. UNCHANGED <<on, wired, messages, ready, mutex, condition, waiters>>
    BY DEF BlockSwitch, wiring
  <1>5. /\ ~wired[p] /\ Running(p)' /\ p \notin Waiters /\ messages[p] = 0
    BY <1>3, <1>4, StackIs DEF Agrees, CprocAgrees, InBlock, Running
  <1> DEFINE S == Range(h)
  <1>6. ASSUME NEW l, Becomes(p, l, b, n, queued, None, h), l \in {"ready", "switch"},
               \A q \in Cprocs \ {p} : state'[q] = state[q]
        PROVE  /\ Relinks(S) /\ Others(p, S, h) /\ MovedAgree(S)
               /\ \A r \in Stacks : stack'[r].hand = stack[r].hand
               /\ \A r \in Stacks \ {p} : stack'[r] = stack[r]
               /\ stack'[p].pc = l /\ stack'[p].call = "block" /\ stack'[p].mutex = n
               /\ stack'[p].waiter = None
    <2>1. /\ \A r \in Stacks : stack'[r].hand = stack[r].hand
          /\ \A r \in Stacks \ {p} : stack'[r] = stack[r]
          /\ stack'[p].pc = l /\ stack'[p].call = "block" /\ stack'[p].mutex = n
          /\ stack'[p].waiter = None
      BY <1>2, <1>3, <1>6 DEF Becomes
    <2>2. Injective' /\ \A q : Stays(q)
      BY <1>3, <1>4, <2>1 DEF Injective, Apart, Stays
    <2>3. ASSUME NEW q \in S
          PROVE  OnlyAt(q, <<"hand", p>>) /\ Agrees(q)'
      <3>1. q \in Cprocs /\ q \in Stacks /\ q /= p /\ Blocked(q) /\ Agrees(q)
        BY <1>1, <1>2, <1>3, StackIs, Linkings DEF HandFits
      <3>2. OnlyAt(q, <<"hand", p>>)
        BY <1>1, <1>2, <1>3, <1>4, <2>1, <3>1 DEF OnlyAt, Apart
      <3>3. SameState(q)
        BY <1>4, <1>6, <2>1, <3>1 DEF SameState, Running
      <3>4. LinkAgrees(q)'
        BY <1>1, <1>6, <2>1, <3>1, <3>2, <3>3, SameFits, AtHand DEF HandFits
      <3> QED BY <2>2, <3>1, <3>2, <3>3, <3>4, StaysLinked, OnlyMoved
    <2> QED BY <1>4, <1>6, <2>1, <2>2, <2>3 DEF Relinks, Others, MovedAgree
  <1>7. CASE state[p] = {}
    <2>1. Goto(p, "ready") /\ lock' = lock /\ state' = state
      BY <1>7 DEF BlockSwitch, KeepOrBlock
    <2>2. Becomes(p, "ready", b, n, queued, None, h)
      BY <1>1, <1>2, <1>3, <2>1, GotoBecomes
    <2>3. /\ Relinks(S) /\ Others(p, S, h) /\ MovedAgree(S)
          /\ \A r \in Stacks : stack'[r].hand = stack[r].hand
          /\ stack'[p].pc = "ready" /\ stack'[p].call = "block"
      BY <1>6, <2>1, <2>2
    <2>4. Agrees(p)'
      <3>1. ~OnChain(p)
        BY <1>3, <1>5, <1>7, Unasked
      <3>2. Stays(p)
        BY <1>4, <2>3 DEF Stays
      <3>3. ~OnChain(p)'
        BY <3>1, <3>2, StaysLinked
      <3>4. ~Suspending(p)' /\ ~Trying(p)'
        BY <2>3 DEF Suspending, Trying, InBlock
      <3> QED BY <1>4, <1>5, <2>3, <3>3, <3>4, Unlinked DEF Agrees, CprocAgrees, InBlock, NeedsWaiter
    <2>5. /\ "ready" \notin Leavings \cup {"none", "receive", "woken", "resume", "leave"}
          /\ "ready" \in Handing /\ b \in CallsAt("ready") /\ stack[p].pc \notin Leavings
          /\ MovedAgree(S \ {p})
      BY <1>2, <1>3, <2>3 DEF Leavings, Handing, CallsAt, InBlock, NeedsWaiter, MovedAgree
    <2> HIDE DEF S
    <2> QED BY <1>3, <1>4, <2>1, <2>2, <2>3, <2>4, <2>5, CprocTransfer
  <1>8. CASE state[p] /= {}
    <2>1. /\ Goto(p, "switch") /\ lock' = [lock EXCEPT ![p] = TRUE]
          /\ state' = [state EXCEPT ![p] = {"BLOCKED"}]
      BY <1>8 DEF BlockSwitch, KeepOrBlock
    <2>2. Becomes(p, "switch", b, n, queued, None, h)
      BY <1>1, <1>2, <1>3, <2>1, GotoBecomes
    <2>3. /\ state'[p] = {"BLOCKED"} /\ lock'[p] /\ (\A q \in Cprocs \ {p} : state'[q] = state[q])
          /\ \A r \in Stacks \ {p} : lock'[r] = lock[r]
      BY <1>1, <2>1 DEF PlaceTypes
    <2>4. /\ Relinks(S) /\ Others(p, S, h) /\ MovedAgree(S)
          /\ \A r \in Stacks : stack'[r].hand = stack[r].hand
          /\ \A r \in Stacks \ {p} : stack'[r] = stack[r]
          /\ stack'[p].pc = "switch" /\ stack'[p].call = "block" /\ stack'[p].mutex = n
          /\ stack'[p].waiter = None
      BY <1>6, <2>2, <2>3
    <2>5. Agrees(p)'
      <3>1. stack[p].pc \in InBlock
        BY <1>3 DEF InBlock
      <3> QED BY <1>2, <1>3, <1>4, <1>8, <2>3, <2>4, <3>1, BlocksAgrees
    <2>6. HandAgrees(p)' /\ StackAgrees(p)'
      <3>1. stack'[p].hand = stack[p].hand
        BY <1>1, <2>4
      <3>2. HandAgrees(p)'
        BY <1>2, <1>3, <1>5, <2>4, <3>1 DEF HandAgrees, Handing
      <3>3. "block" \in CallsAt(stack'[p].pc)
        BY <2>4 DEF CallsAt, InBlock, NeedsWaiter
      <3>4. StackAgrees(p)'
        BY <1>5, <2>3, <2>4, <3>3 DEF StackAgrees, Leavings
      <3> QED BY <3>2, <3>4
    <2>7. WaitersAgree'
      BY <1>1, <1>3, <1>4, <2>4, WaitersStay
    <2>8. MovedAgree(S \cup {p})
      BY <2>4, <2>5 DEF MovedAgree
    <2> HIDE DEF S
    <2> QED BY <1>1, <1>4, <2>2, <2>3, <2>4, <2>6, <2>7, <2>8, Transfer
  <1> QED BY <1>7, <1>8

LEMMA BlockIdlePlaces ==
    ASSUME MutexInv, PlaceTypes, PlaceInv, NEW k \in KernelThreads, NEW p \in Cprocs, BlockIdle(k, p)
    PROVE  PlaceInv'
  <1>1. p \in Stacks /\ At(k, p, "idle") /\ ~lock[p]
    BY StackIs DEF BlockIdle, KeepOrBlock
  <1>2. PICK w, b, n, queued :
           w = stack[p].waiter /\ b = stack[p].call /\ n = stack[p].mutex /\ queued = stack[p].queued
    OBVIOUS
  <1>3. /\ stack[p].pc = "idle" /\ Running(p) /\ stack[p].hand = <<>> /\ stack[p].call = "block"
        /\ Agrees(p) /\ Apart
    BY <1>1, Here, PlacesApart DEF Handing, CallsAt, InBlock, NeedsWaiter
  <1>4. UNCHANGED <<on, wired, messages, ready, mutex, condition, waiters>>
    BY DEF BlockIdle, wiring
  <1>5. /\ ~wired[p] /\ Running(p)' /\ p \notin Waiters /\ messages[p] = 0
        /\ p \notin Range(<<>>) /\ (\A q : q \notin Range(<<>>))
    BY <1>3, <1>4, StackIs, NoCprocs DEF Agrees, CprocAgrees, InBlock, Running
  <1> DEFINE S == {}
  <1>6. ASSUME NEW l, Becomes(p, l, b, n, queued, w, <<>>),
               \A q \in Cprocs \ {p} : state'[q] = state[q]
        PROVE  /\ Relinks(S) /\ Others(p, S, <<>>) /\ MovedAgree(S \ {p})
               /\ \A r \in Stacks : stack'[r].hand = stack[r].hand
               /\ \A r \in Stacks \ {p} : stack'[r] = stack[r]
               /\ stack'[p].pc = l /\ stack'[p].call = "block" /\ stack'[p].mutex = n
               /\ stack'[p].waiter = w
    <2>1. /\ \A r \in Stacks : stack'[r].hand = stack[r].hand
          /\ \A r \in Stacks \ {p} : stack'[r] = stack[r]
          /\ stack'[p].pc = l /\ stack'[p].call = "block" /\ stack'[p].mutex = n
          /\ stack'[p].waiter = w
      BY <1>2, <1>3, <1>6 DEF Becomes
    <2>2. Injective' /\ \A q : Stays(q)
      BY <1>3, <1>4, <2>1 DEF Injective, Apart, Stays
    <2> QED BY <1>4, <1>5, <1>6, <2>1, <2>2 DEF Relinks, Others, MovedAgree
  <1>7. CASE state[p] = {}
    <2>1. Goto(p, "unwait") /\ lock' = lock /\ state' = state
      BY <1>7 DEF BlockIdle, KeepOrBlock
    <2>2. Becomes(p, "unwait", b, n, queued, w, <<>>)
      BY <1>1, <1>2, <1>3, <2>1, GotoBecomes
    <2>3. /\ Relinks(S) /\ Others(p, S, <<>>) /\ MovedAgree(S \ {p})
          /\ \A r \in Stacks : stack'[r].hand = stack[r].hand
          /\ stack'[p].pc = "unwait" /\ stack'[p].call = "block"
      BY <1>6, <2>1, <2>2
    <2>4. Agrees(p)'
      <3>1. ~OnChain(p)
        BY <1>3, <1>5, <1>7, Unasked
      <3>2. Stays(p)
        BY <1>4, <2>3 DEF Stays
      <3>3. ~OnChain(p)'
        BY <3>1, <3>2, StaysLinked
      <3>4. ~Suspending(p)' /\ ~Trying(p)'
        BY <2>3 DEF Suspending, Trying, InBlock
      <3> QED BY <1>4, <1>5, <2>3, <3>3, <3>4, Unlinked DEF Agrees, CprocAgrees, InBlock, NeedsWaiter
    <2>5. /\ "unwait" \notin Leavings \cup {"none", "receive", "woken", "resume", "leave"}
          /\ "unwait" \in NeedsWaiter /\ b \in CallsAt("unwait") /\ stack[p].pc \notin Leavings
      BY <1>2, <1>3 DEF Leavings, CallsAt, InBlock, NeedsWaiter
    <2> HIDE DEF S
    <2> QED BY <1>2, <1>3, <1>4, <1>5, <2>1, <2>2, <2>3, <2>4, <2>5, CprocTransfer
  <1>8. CASE state[p] /= {}
    <2>1. /\ Goto(p, "startwait") /\ lock' = [lock EXCEPT ![p] = TRUE]
          /\ state' = [state EXCEPT ![p] = {"BLOCKED"}]
      BY <1>8 DEF BlockIdle, KeepOrBlock
    <2>2. Becomes(p, "startwait", b, n, queued, w, <<>>)
      BY <1>1, <1>2, <1>3, <2>1, GotoBecomes
    <2>3. /\ state'[p] = {"BLOCKED"} /\ lock'[p] /\ (\A q \in Cprocs \ {p} : state'[q] = state[q])
          /\ \A r \in Stacks \ {p} : lock'[r] = lock[r]
      BY <1>1, <2>1 DEF PlaceTypes
    <2>4. /\ Relinks(S) /\ Others(p, S, <<>>) /\ MovedAgree(S \ {p})
          /\ \A r \in Stacks : stack'[r].hand = stack[r].hand
          /\ \A r \in Stacks \ {p} : stack'[r] = stack[r]
          /\ stack'[p].pc = "startwait" /\ stack'[p].call = "block" /\ stack'[p].mutex = n
          /\ stack'[p].waiter = w
      BY <1>6, <2>2, <2>3
    <2>5. Agrees(p)'
      <3>1. stack[p].pc \in InBlock
        BY <1>3 DEF InBlock
      <3> QED BY <1>2, <1>3, <1>4, <1>8, <2>3, <2>4, <3>1, BlocksAgrees
    <2>6. HandAgrees(p)' /\ StackAgrees(p)'
      <3>1. stack'[p].hand = stack[p].hand
        BY <1>1, <2>4
      <3>2. HandAgrees(p)'
        BY <1>2, <1>3, <1>5, <2>4, <3>1 DEF HandAgrees, Handing
      <3>3. "block" \in CallsAt(stack'[p].pc)
        BY <2>4 DEF CallsAt, InBlock, NeedsWaiter
      <3>4. StackAgrees(p)'
        BY <1>5, <2>3, <2>4, <3>3 DEF StackAgrees, Leavings
      <3> QED BY <3>2, <3>4
    <2>7. WaitersAgree'
      BY <1>1, <1>2, <1>3, <1>4, <2>4, WaitersStay DEF NeedsWaiter
    <2>8. MovedAgree(S \cup {p})
      BY <2>4, <2>5 DEF MovedAgree
    <2> HIDE DEF S
    <2> QED BY <1>1, <1>4, <2>2, <2>3, <2>4, <2>6, <2>7, <2>8, Transfer
  <1> QED BY <1>7, <1>8

LEMMA SwitchPlaces ==
    ASSUME MutexInv, PlaceTypes, PlaceInv, NEW k \in KernelThreads, NEW p \in Cprocs, Switch(k, p)
    PROVE  PlaceInv'
  <1>1. p \in Stacks /\ At(k, p, "switch")
    BY StackIs DEF Switch
  <1>2. PICK new, l, n : /\ new = Head(stack[p].hand)
                        /\ l = AfterBlock(stack[p].call)
                        /\ n = IF l = "user" THEN None ELSE stack[p].mutex
    OBVIOUS
  <1>3. /\ ~lock[new] /\ state' = [state EXCEPT ![new] = {}] /\ Return(p, l)
        /\ on' = [on EXCEPT ![k] = new] /\ lock' = [lock EXCEPT ![p] = FALSE]
        /\ UNCHANGED <<wired, messages, ready, mutex, condition, waiters>>
    BY <1>2 DEF Switch, SwitchStacks, wiring
  <1>4. /\ stack[p].pc = "switch" /\ on[k] = p /\ Running(p) /\ stack[p].waiter = None
        /\ stack[p].call \in {"block", "yield"} /\ Agrees(p) /\ Apart
        /\ stack[p].hand \in Seq(Cprocs) /\ Len(stack[p].hand) = 1 /\ p \notin Range(stack[p].hand)
        /\ IsInjective(stack[p].hand)
    BY <1>1, Here, PlacesApart DEF Handing, NeedsWaiter, CallsAt, InBlock, HandAgrees, Apart
  <1>5. /\ new \in Cprocs /\ new \in Stacks /\ new /= p /\ Range(stack[p].hand) = {new}
    <2>1. stack[p].hand /= <<>>
      BY <1>4, OneLong
    <2>2. new \in Cprocs /\ stack[p].hand = <<new>>
      BY <1>2, <1>4, <2>1, Headed
    <2> QED BY <1>4, <2>2, Single, StackIs
  <1>6. /\ Blocked(new) /\ Agrees(new) /\ Linked(new) /\ ~wired[new] /\ messages[new] = 0
    <2>1. HandFits(new, p) /\ Agrees(new)
      BY <1>1, <1>5, Linkings
    <2>2. Blocked(new)
      BY <1>4, <2>1 DEF HandFits
    <2>3. OnChain(new)
      BY <1>1, <1>5 DEF OnChain
    <2> QED BY <2>1, <2>2, <2>3, ChainsAreApart DEF ChainsApart, Blocked, Agrees, CprocAgrees
  <1>7. ~Running(new)
    BY <1>3, <1>5, <1>6, BlockedIsLeft
  <1>8. /\ OneThreadPerStack' /\ ~Running(p)' /\ Running(new)'
        /\ \A r \in Stacks \ {p, new} : Running(r)' <=> Running(r)
    BY <1>1, <1>3, <1>4, <1>5, <1>7, Switched
  <1>9. Becomes(p, l, "none", n, FALSE, None, <<>>)
    BY <1>1, <1>2, <1>3, ReturnBecomes
  <1>10. /\ stack'[p].pc = l /\ stack'[p].call = "none" /\ stack'[p].mutex = n /\ stack'[p].waiter = None
         /\ stack'[p].hand = <<>> /\ \A r \in Stacks \ {p} : stack'[r] = stack[r]
    BY <1>9 DEF Becomes
  <1>11. /\ state'[new] = {} /\ (\A q \in Cprocs \ {new} : state'[q] = state[q])
         /\ lock'[p] = FALSE /\ (\A r \in Stacks \ {p} : lock'[r] = lock[r])
    BY <1>1, <1>3, <1>5 DEF PlaceTypes
  <1>12. l = IF stack[p].call = "yield" THEN "user" ELSE "retry"
    BY <1>2, <1>4 DEF AfterBlock
  <1>13. Injective'
    <2>1. \A s \in Stacks : IsInjective(stack'[s].hand)
      BY <1>4, <1>10, NoCprocs DEF Apart
    <2> QED BY <1>3, <1>4, <2>1 DEF Injective, Apart
  <1>14. \A q \in Cprocs \ {new} : Stays(q)
    BY <1>3, <1>5, <1>10, NoCprocs DEF Stays
  <1>15. ~OnChain(new)'
    BY <1>1, <1>3, <1>4, <1>5, <1>10, NoCprocs DEF OnChain, Apart
  <1>16. Apart'
    <2> DEFINE S == {new}
    <2>1. /\ \A q \in Cprocs \ S : Stays(q)
          /\ \A q \in Cprocs \cap S : \E y : OnlyAt(q, y)
      BY <1>5, <1>14, <1>15, Unlinked
    <2> HIDE DEF S
    <2> QED BY <1>13, <2>1, Moved
  <1>17. Agrees(p)'
    BY <1>2, <1>3, <1>4, <1>5, <1>8, <1>10, <1>11, <1>12, <1>14, NoCprocs, LeftAgrees
  <1>18. Agrees(new)'
    BY <1>3, <1>5, <1>6, <1>7, <1>8, <1>10, <1>15, TakenAgrees
  <1>19. ASSUME NEW q \in Cprocs \ {p, new}
         PROVE  SameState(q) /\ SamePlace(q)
    <2>1. q \in Stacks /\ (OnChain(q)' <=> OnChain(q)) /\ Stays(q)
      BY <1>14, StackIs, StaysLinked
    <2>2. SameState(q)
      BY <1>3, <1>8, <1>10, <1>11, <2>1 DEF SameState
    <2>3. \A r \in Stacks : q \in Range(stack'[r].hand) => r /= p
      BY <1>10, NoCprocs
    <2> QED BY <1>10, <2>1, <2>2, <2>3 DEF SamePlace, Stays
  <1>20. HandAgrees(p)' /\ StackAgrees(p)'
    <2>1. HandAgrees(p)'
      BY <1>10, <1>12, NoCprocs DEF HandAgrees
    <2>2. StackAgrees(p)'
      BY <1>10, <1>11, <1>12, StackIs DEF StackAgrees, Leavings, CallsAt, InBlock, NeedsWaiter
    <2> QED BY <2>1, <2>2
  <1>21. HandAgrees(new)' /\ StackAgrees(new)'
    <2>1. HandAgrees(new) /\ StackAgrees(new)
      BY <1>5 DEF PlaceInv, StacksAgree
    <2>2. HandAgrees(new)'
      BY <1>5, <1>10, <2>1 DEF HandAgrees
    <2>3. StackAgrees(new)'
      BY <1>3, <1>5, <1>8, <1>10, <1>11, <2>1, StackIs DEF StackAgrees
    <2> QED BY <2>2, <2>3
  <1>22. WaitersAgree'
    <2>1. \A w \in Waiters : Running(w)' <=> Running(w)
      BY <1>5, <1>8, StackIs
    <2> QED BY <1>1, <1>3, <1>4, <1>10, <2>1, WaitersKept
  <1> DEFINE S == {p, new}
  <1>23. /\ \A r \in Stacks \ S : stack'[r] = stack[r] /\ lock'[r] = lock[r] /\ (Running(r)' <=> Running(r))
         /\ \A q \in Cprocs \ S : SameState(q) /\ SamePlace(q)
         /\ \A q \in Cprocs \cap S : Agrees(q)'
         /\ \A r \in Stacks \cap S : HandAgrees(r)' /\ StackAgrees(r)'
    BY <1>8, <1>10, <1>11, <1>17, <1>18, <1>19, <1>20, <1>21
  <1> HIDE DEF S
  <1> QED BY <1>8, <1>16, <1>22, <1>23, Keeps

-----------------------------------------------------------------------------
(* The waiting stacks.                                                     *)

\* The cproc p takes or gives back a waiting stack; of the stacks in T, only
\* the one of p had been executed.
LEMMA Waited ==
    ASSUME MutexInv, PlaceInv, NEW p \in Cprocs, Running(p), stack[p].hand = <<>>,
           stack[p].pc \in {"getwaiter", "unwaiter"},
           UNCHANGED <<on, lock, state, wired, messages, ready, mutex, condition>>,
           stack'[p].pc = IF stack[p].pc = "getwaiter" THEN "idle" ELSE "retry",
           stack'[p].call \in CallsAt(stack'[p].pc), stack'[p].mutex = stack[p].mutex,
           stack'[p].hand = <<>>, NEW T, p \in T,
           \A r \in Stacks \ T : stack'[r] = stack[r],
           \A r \in Stacks \cap T : r /= p =>
              /\ r \in Waiters /\ stack[r].hand = <<>> /\ stack'[r].hand = <<>>
              /\ HandAgrees(r)' /\ StackAgrees(r)',
           WaitersAgree'
    PROVE  PlaceInv'
  <1>1. p \in Stacks /\ p \notin Waiters /\ Agrees(p) /\ HandAgrees(p) /\ StackAgrees(p)
    BY StackIs DEF PlaceInv, CprocsAgree, StacksAgree, Agrees
  <1>2. \A r \in Stacks : stack'[r].hand = stack[r].hand
    OBVIOUS
  <1>3. \A q : Running(q)' <=> Running(q)
    BY DEF Running
  <1>4. Apart' /\ \A q : (OnChain(q)' <=> OnChain(q)) /\ Stays(q)
    BY <1>2, PlacesApart DEF Apart, OnChain, Stays
  <1>5. ASSUME NEW q \in Cprocs, q /= p
        PROVE  SameState(q) /\ SamePlace(q)
    <2>1. q \in Stacks /\ stack'[q] = stack[q]
      BY <1>5, StackIs
    <2>2. \A r \in Stacks : q \in Range(stack'[r].hand) => stack'[r] = stack[r]
      BY NoCprocs
    <2> QED BY <1>2, <1>3, <1>4, <2>1, <2>2 DEF SameState, SamePlace
  <1>6. Agrees(p)'
    <2>1. \A r \in Stacks \ {p} : p \in Range(stack'[r].hand) => stack'[r] = stack[r]
      BY NoCprocs
    <2>2. p \notin Range(stack'[p].hand)
      BY NoCprocs
    <2>3. ~wired[p]
      BY Wiredness DEF InBlock, NeedsWaiter
    <2>4. stack[p].pc = "getwaiter" => state[p] \in {{}, {"SWITCHING"}}
      BY <1>1 DEF Agrees, CprocAgrees, InBlock
    <2>5. Suspending(p)' <=> Suspending(p)
      BY <1>1 DEF Suspending, InBlock, StackAgrees, CallsAt, NeedsWaiter
    <2>6. /\ stack[p].pc \notin Leavings \cup {"try", "none"}
          /\ stack'[p].pc \notin Leavings \cup {"try", "none"}
          /\ stack'[p].pc \in InBlock => state'[p] \in {{}, {"SWITCHING"}}
          /\ stack[p].pc \in InBlock \cup {"wired"} =>
                stack'[p].pc \in InBlock \cup {"wired"} /\ stack'[p].mutex = stack[p].mutex
      BY <2>4 DEF Leavings, InBlock
    <2> QED BY <1>4, <2>1, <2>2, <2>3, <2>5, <2>6, ActorAgrees
  <1>7. HandAgrees(p)' /\ StackAgrees(p)'
    <2>1. HandAgrees(p)'
      BY NoCprocs DEF HandAgrees
    <2> QED BY <1>1, <1>3, <2>1 DEF StackAgrees, Leavings
  <1>8. OneThreadPerStack'
    BY DEF PlaceInv, OneThreadPerStack
  <1> DEFINE S == {p}
  <1>9. /\ \A r \in Stacks \ T : stack'[r] = stack[r] /\ lock'[r] = lock[r] /\ (Running(r)' <=> Running(r))
        /\ \A q \in Cprocs \ S : SameState(q) /\ SamePlace(q)
        /\ \A q \in Cprocs \cap S : Agrees(q)'
        /\ \A r \in Stacks \cap T : HandAgrees(r)' /\ StackAgrees(r)'
    BY <1>3, <1>5, <1>6, <1>7
  <1> HIDE DEF S
  <1> QED BY <1>4, <1>8, <1>9, Keeps

LEMMA GetWaiterPlaces ==
    ASSUME MutexInv, PlaceTypes, PlaceInv, NEW k \in KernelThreads, NEW p \in Cprocs, GetWaiter(k, p)
    PROVE  PlaceInv'
  <1>1. p \in Stacks /\ At(k, p, "getwaiter") /\ p \notin Waiters
    BY StackIs DEF GetWaiter
  <1>2. /\ stack[p].pc = "getwaiter" /\ Running(p) /\ stack[p].hand = <<>> /\ stack[p].waiter = None
        /\ stack[p].call \in CallsAt("getwaiter") /\ WaitersAgree
    BY <1>1, Here DEF Handing, NeedsWaiter, PlaceInv
  <1>3. stack[p].call \in CallsAt("idle")
    BY <1>2 DEF CallsAt, InBlock, NeedsWaiter
  <1>4. UNCHANGED <<on, lock, state, wired, messages, ready, mutex, condition>>
    BY DEF GetWaiter, wiring
  <1>5. waiters \in Seq(Waiters) /\ IsInjective(waiters)
    BY <1>2 DEF MutexInv, MutexTypes, WaitersAgree
  <1>6. CASE waiters /= <<>>
    <2>1. PICK w : w = Head(waiters)
      OBVIOUS
    <2>2. /\ waiters' = Tail(waiters)
          /\ stack' = [stack EXCEPT ![p].pc = "idle", ![p].waiter = w]
      BY <1>6, <2>1 DEF GetWaiter
    <2>3. Becomes(p, "idle", stack[p].call, stack[p].mutex, stack[p].queued, w, stack[p].hand)
      BY <1>1, <2>2, WaiterBecomes
    <2>4. /\ w \in Waiters /\ w \in Range(waiters) /\ Range(waiters') = Range(waiters) \ {w}
          /\ IsInjective(waiters')
      BY <1>5, <1>6, <2>1, <2>2, Headed
    <2>5. /\ stack'[p].pc = "idle" /\ stack'[p].waiter = w
          /\ \A r \in Stacks \ {p} : stack'[r] = stack[r]
      BY <2>3 DEF Becomes
    <2>6. WaitersAgree'
      <3>1. \A s \in Stacks : stack'[s].pc \notin NeedsWaiter => stack'[s].waiter = None
        BY <1>2, <2>5 DEF WaitersAgree, NeedsWaiter
      <3>2. \A s \in Stacks : stack'[s].waiter \notin Range(waiters')
        BY <1>2, <2>4, <2>5 DEF WaitersAgree
      <3>3. ASSUME NEW r \in Stacks, NEW s \in Stacks, stack'[r].waiter = stack'[s].waiter, r /= s
            PROVE  stack'[s].waiter = None
        <4>1. \A t \in Stacks : stack[t].waiter /= w
          BY <1>2, <2>4 DEF WaitersAgree
        <4> QED BY <1>2, <2>5, <3>3, <4>1 DEF WaitersAgree
      <3>4. ASSUME NEW v \in Waiters, v \in Range(waiters') \/ \E s \in Stacks : stack'[s].waiter = v
            PROVE  stack'[v].pc \in {"receive", "leaving"} /\ (Running(v)' => stack'[v].pc = "leaving")
        <4>1. v \in Range(waiters) \/ \E s \in Stacks : stack[s].waiter = v
          BY <2>4, <2>5, <3>4
        <4>2. v \in Stacks /\ stack'[v] = stack[v] /\ (Running(v)' <=> Running(v))
          BY <1>1, <1>4, <2>5, StackIs DEF Running
        <4> QED BY <1>2, <4>1, <4>2 DEF WaitersAgree
      <3>5. \A v \in Waiters : stack'[v].pc = "none" => ~Running(v)'
        BY <1>1, <1>2, <1>4, <2>5, StackIs DEF WaitersAgree, Running
      <3> QED BY <2>4, <3>1, <3>2, <3>3, <3>4, <3>5 DEF WaitersAgree
    <2>7. /\ stack'[p].call \in CallsAt(stack'[p].pc) /\ stack'[p].mutex = stack[p].mutex
          /\ stack'[p].hand = <<>>
      BY <1>2, <1>3, <2>3 DEF Becomes
    <2> DEFINE T == {p}
    <2>8. /\ \A r \in Stacks \ T : stack'[r] = stack[r]
          /\ \A r \in Stacks \cap T : r /= p =>
                /\ r \in Waiters /\ stack[r].hand = <<>> /\ stack'[r].hand = <<>>
                /\ HandAgrees(r)' /\ StackAgrees(r)'
          /\ p \in T
      BY <2>5
    <2> HIDE DEF T
    <2> QED BY <1>2, <1>4, <2>5, <2>6, <2>7, <2>8, Waited
  <1>7. CASE waiters = <<>>
    <2>1. PICK w \in Waiters :
             /\ stack[w].pc = "none"
             /\ stack' = [stack EXCEPT ![p].pc = "idle", ![p].waiter = w, ![w].pc = "receive"]
      BY <1>7 DEF GetWaiter
    <2>2. waiters' = waiters
      BY <1>7 DEF GetWaiter
    <2>3. w \in Stacks /\ w /= p /\ stack[p] \in StackRecords /\ stack[w] \in StackRecords
          /\ stack \in [Stacks -> StackRecords]
      BY <1>1, StackIs DEF MutexInv, MutexTypes
    <2>4. /\ stack'[p].pc = "idle" /\ stack'[p].waiter = w /\ stack'[p].call = stack[p].call
          /\ stack'[p].mutex = stack[p].mutex /\ stack'[p].hand = stack[p].hand
          /\ stack'[w].pc = "receive" /\ stack'[w].waiter = stack[w].waiter
          /\ stack'[w].hand = stack[w].hand /\ stack'[w].call = stack[w].call
          /\ \A r \in Stacks \ {p, w} : stack'[r] = stack[r]
      BY <1>1, <2>1, <2>3, Record
    <2>5. /\ ~Running(w) /\ stack[w].waiter = None /\ w \notin Range(waiters)
          /\ \A s \in Stacks : stack[s].waiter /= w
      <3>1. ~(w \in Range(waiters) \/ \E s \in Stacks : stack[s].waiter = w)
        BY <1>2, <2>1 DEF WaitersAgree
      <3> QED BY <1>2, <2>1, <2>3, <3>1 DEF WaitersAgree, NeedsWaiter
    <2>6. WaitersAgree'
      <3>1. \A s \in Stacks : stack'[s].pc \notin NeedsWaiter => stack'[s].waiter = None
        BY <1>2, <2>4, <2>5 DEF WaitersAgree, NeedsWaiter
      <3>2. \A s \in Stacks : stack'[s].waiter \notin Range(waiters')
        BY <1>2, <2>2, <2>4, <2>5 DEF WaitersAgree
      <3>3. \A r, s \in Stacks : stack'[r].waiter = stack'[s].waiter /\ r /= s => stack'[s].waiter = None
        BY <1>2, <2>4, <2>5 DEF WaitersAgree
      <3>4. ASSUME NEW v \in Waiters, v \in Range(waiters') \/ \E s \in Stacks : stack'[s].waiter = v
            PROVE  stack'[v].pc \in {"receive", "leaving"} /\ (Running(v)' => stack'[v].pc = "leaving")
        <4>1. v = w \/ v \in Range(waiters) \/ \E s \in Stacks : stack[s].waiter = v
          BY <2>2, <2>4, <2>5, <3>4
        <4>2. v \in Stacks /\ v /= p /\ (v /= w => stack'[v] = stack[v]) /\ (Running(v)' <=> Running(v))
          BY <1>1, <1>4, <2>4, StackIs DEF Running
        <4> QED BY <1>2, <2>4, <2>5, <4>1, <4>2 DEF WaitersAgree
      <3>5. \A v \in Waiters : stack'[v].pc = "none" => ~Running(v)'
        BY <1>1, <1>2, <1>4, <2>4, StackIs DEF WaitersAgree, Running
      <3> QED BY <1>2, <2>2, <3>1, <3>2, <3>3, <3>4, <3>5 DEF WaitersAgree
    <2>7. HandAgrees(w)' /\ StackAgrees(w)' /\ stack[w].hand = <<>>
      <3>1. HandAgrees(w) /\ StackAgrees(w)
        BY <2>3 DEF PlaceInv, StacksAgree
      <3>2. stack[w].hand = <<>>
        BY <2>1, <3>1 DEF HandAgrees, Handing
      <3>3. stack[w].call \in CallsAt("receive") /\ ~lock[w]
        BY <2>1, <3>1 DEF StackAgrees, CallsAt, InBlock, NeedsWaiter, Leavings
      <3>4. HandAgrees(w)'
        BY <2>4, <3>2, NoCprocs DEF HandAgrees
      <3>5. StackAgrees(w)'
        BY <1>4, <2>4, <3>3 DEF StackAgrees, Leavings
      <3> QED BY <3>2, <3>4, <3>5
    <2> DEFINE T == {p, w}
    <2>8. /\ \A r \in Stacks \ T : stack'[r] = stack[r]
          /\ \A r \in Stacks \cap T : r /= p =>
                /\ r \in Waiters /\ stack[r].hand = <<>> /\ stack'[r].hand = <<>>
                /\ HandAgrees(r)' /\ StackAgrees(r)'
          /\ p \in T
      BY <2>4, <2>7
    <2>9. stack'[p].call \in CallsAt(stack'[p].pc) /\ stack'[p].hand = <<>>
      BY <1>2, <1>3, <2>4
    <2> HIDE DEF T
    <2> QED BY <1>2, <1>4, <2>4, <2>6, <2>8, <2>9, Waited
  <1> QED BY <1>6, <1>7

LEMMA UnwaiterPlaces ==
    ASSUME MutexInv, PlaceTypes, PlaceInv, NEW k \in KernelThreads, NEW p \in Cprocs, Unwaiter(k, p)
    PROVE  PlaceInv'
  <1>1. p \in Stacks /\ At(k, p, "unwaiter") /\ p \notin Waiters
    BY StackIs DEF Unwaiter
  <1>2. /\ stack[p].pc = "unwaiter" /\ Running(p) /\ stack[p].hand = <<>> /\ stack[p].waiter \in Waiters
        /\ WaitersAgree
    BY <1>1, Here, Knows DEF Handing, NeedsWaiter, PlaceInv
  <1>3. PICK w : w = stack[p].waiter
    OBVIOUS
  <1>4. /\ UNCHANGED <<on, lock, state, wired, messages, ready, mutex, condition>>
        /\ waiters' = <<w>> \o waiters /\ Return(p, "retry")
    BY <1>3 DEF Unwaiter, wiring
  <1>5. Becomes(p, "retry", "none", stack[p].mutex, FALSE, None, <<>>)
    BY <1>1, <1>4, ReturnBecomes
  <1>6. /\ stack'[p].pc = "retry" /\ stack'[p].waiter = None /\ stack'[p].call = "none"
        /\ stack'[p].mutex = stack[p].mutex /\ stack'[p].hand = <<>>
        /\ \A r \in Stacks \ {p} : stack'[r] = stack[r]
    BY <1>5 DEF Becomes
  <1>7. w \in Waiters /\ w \notin Range(waiters) /\ w /= None
    BY <1>1, <1>2, <1>3, StackIs DEF WaitersAgree
  <1>8. Range(waiters') = Range(waiters) \cup {w} /\ IsInjective(waiters')
    <2>1. waiters \in Seq(Waiters) /\ IsInjective(waiters)
      BY <1>2 DEF MutexInv, MutexTypes, WaitersAgree
    <2> QED BY <1>4, <1>7, <2>1, Prepended
  <1>9. WaitersAgree'
    <2>1. \A s \in Stacks : stack'[s].pc \notin NeedsWaiter => stack'[s].waiter = None
      BY <1>2, <1>6 DEF WaitersAgree
    <2>2. ASSUME NEW s \in Stacks
          PROVE  stack'[s].waiter \notin Range(waiters')
      <3>1. \A r \in Stacks : r /= p => stack[r].waiter /= w
        BY <1>1, <1>2, <1>3, <1>7 DEF WaitersAgree
      <3>2. None \notin Range(waiters)
        <4>1. waiters \in Seq(Waiters) /\ None \notin Waiters
          BY StackIs DEF MutexInv, MutexTypes
        <4> QED BY <4>1 DEF Range
      <3> QED BY <1>2, <1>6, <1>7, <1>8, <3>1, <3>2 DEF WaitersAgree
    <2>3. \A r, s \in Stacks : stack'[r].waiter = stack'[s].waiter /\ r /= s => stack'[s].waiter = None
      BY <1>2, <1>6 DEF WaitersAgree
    <2>4. ASSUME NEW v \in Waiters, v \in Range(waiters') \/ \E s \in Stacks : stack'[s].waiter = v
          PROVE  stack'[v].pc \in {"receive", "leaving"} /\ (Running(v)' => stack'[v].pc = "leaving")
      <3>1. v \in Range(waiters) \/ \E s \in Stacks : stack[s].waiter = v
        <4>1. v /= None
          BY StackIs
        <4> QED BY <1>1, <1>3, <1>6, <1>8, <2>4, <4>1
      <3>2. v \in Stacks /\ stack'[v] = stack[v] /\ (Running(v)' <=> Running(v))
        BY <1>1, <1>4, <1>6, StackIs DEF Running
      <3> QED BY <1>2, <3>1, <3>2 DEF WaitersAgree
    <2>5. \A v \in Waiters : stack'[v].pc = "none" => ~Running(v)'
      BY <1>1, <1>2, <1>4, <1>6, StackIs DEF WaitersAgree, Running
    <2> QED BY <1>8, <2>1, <2>2, <2>3, <2>4, <2>5 DEF WaitersAgree
  <1>10. stack'[p].call \in CallsAt(stack'[p].pc)
    BY <1>6 DEF CallsAt, InBlock, NeedsWaiter
  <1> DEFINE T == {p}
  <1>11. /\ \A r \in Stacks \ T : stack'[r] = stack[r]
         /\ \A r \in Stacks \cap T : r /= p =>
               /\ r \in Waiters /\ stack[r].hand = <<>> /\ stack'[r].hand = <<>>
               /\ HandAgrees(r)' /\ StackAgrees(r)'
         /\ p \in T
    BY <1>6
  <1> HIDE DEF T
  <1> QED BY <1>2, <1>4, <1>6, <1>9, <1>10, <1>11, Waited

LEMMA StartWaitPlaces ==
    ASSUME MutexInv, PlaceTypes, PlaceInv, NEW k \in KernelThreads, NEW p \in Cprocs, StartWait(k, p)
    PROVE  PlaceInv'
  <1>1. p \in Stacks /\ At(k, p, "startwait") /\ p \notin Waiters
    BY StackIs DEF StartWait
  <1>2. /\ stack[p].pc = "startwait" /\ on[k] = p /\ Running(p) /\ stack[p].hand = <<>>
        /\ stack[p].waiter \in Waiters /\ stack[p].call \in CallsAt("startwait")
        /\ WaitersAgree /\ Apart
    BY <1>1, Here, Knows, PlacesApart DEF Handing, NeedsWaiter, PlaceInv
  <1>3. PICK w : w = stack[p].waiter
    OBVIOUS
  <1>4. /\ ~lock[w] /\ on' = [on EXCEPT ![k] = w] /\ lock' = [lock EXCEPT ![p] = FALSE]
        /\ stack' = [stack EXCEPT ![p] = [NewStack("retry") EXCEPT !.mutex = stack[p].mutex],
                                  ![w] = NewStack("receive")]
        /\ UNCHANGED <<state, wired, messages, ready, mutex, condition, waiters>>
    BY <1>3 DEF StartWait, SwitchStacks, wiring
  <1>5. /\ w \in Waiters /\ w \in Stacks /\ w /= p /\ w /= None /\ w \notin Range(waiters)
        /\ w \notin Cprocs
    BY <1>1, <1>2, <1>3, StackIs DEF WaitersAgree
  <1>6. /\ stack'[p].pc = "retry" /\ stack'[p].call = "none" /\ stack'[p].mutex = stack[p].mutex
        /\ stack'[p].waiter = None /\ stack'[p].hand = <<>>
        /\ stack'[w].pc = "receive" /\ stack'[w].call = "none" /\ stack'[w].waiter = None
        /\ stack'[w].hand = <<>>
        /\ \A r \in Stacks \ {p, w} : stack'[r] = stack[r]
    <2>1. stack \in [Stacks -> StackRecords]
      BY DEF MutexInv, MutexTypes
    <2> QED BY <1>1, <1>4, <1>5, <2>1 DEF NewStack
  <1>7. /\ HandAgrees(w) /\ StackAgrees(w) /\ stack[w].pc \in {"receive", "leaving"}
        /\ (Running(w) => stack[w].pc = "leaving")
    BY <1>1, <1>2, <1>3, <1>5 DEF WaitersAgree, PlaceInv, StacksAgree
  <1>8. stack[w].pc = "receive" /\ ~Running(w) /\ stack[w].hand = <<>> /\ stack[w].waiter = None
    <2>1. stack[w].pc = "receive"
      BY <1>4, <1>7 DEF StackAgrees, Leavings
    <2> QED BY <1>2, <1>5, <1>7, <2>1 DEF HandAgrees, Handing, WaitersAgree, NeedsWaiter
  <1>9. /\ OneThreadPerStack' /\ ~Running(p)' /\ Running(w)'
        /\ \A r \in Stacks \ {p, w} : Running(r)' <=> Running(r)
    BY <1>1, <1>2, <1>4, <1>5, <1>8, Switched
  <1>10. /\ lock'[p] = FALSE /\ \A r \in Stacks \ {p} : lock'[r] = lock[r]
    BY <1>1, <1>4 DEF PlaceTypes
  <1>11. \A r \in Stacks : stack'[r].hand = stack[r].hand
    BY <1>2, <1>6, <1>8
  <1>12. Apart' /\ \A q : (OnChain(q)' <=> OnChain(q)) /\ Stays(q)
    BY <1>2, <1>4, <1>11 DEF Apart, OnChain, Stays
  <1>13. ASSUME NEW q \in Cprocs, q /= p
         PROVE  SameState(q) /\ SamePlace(q)
    <2>1. q \in Stacks /\ q /= w /\ stack'[q] = stack[q] /\ (Running(q)' <=> Running(q))
      BY <1>5, <1>6, <1>9, <1>13, StackIs
    <2>2. \A r \in Stacks : q \in Range(stack'[r].hand) => stack'[r] = stack[r]
      BY <1>6, NoCprocs
    <2> QED BY <1>4, <1>11, <1>12, <2>1, <2>2 DEF SameState, SamePlace
  <1>14. Agrees(p)'
    <2>1. stack[p].call = "block"
      BY <1>2 DEF CallsAt, InBlock, NeedsWaiter
    <2>2. \A r \in Stacks \ {p} : p \in Range(stack'[r].hand) => stack'[r] = stack[r]
      BY <1>6, NoCprocs
    <2>3. p \notin Range(stack'[p].hand)
      BY <1>6, NoCprocs
    <2> QED BY <1>2, <1>4, <1>6, <1>9, <1>12, <2>1, <2>2, <2>3, LeftAgrees
  <1>15. HandAgrees(p)' /\ StackAgrees(p)' /\ HandAgrees(w)' /\ StackAgrees(w)'
    <2>1. HandAgrees(p)' /\ HandAgrees(w)'
      BY <1>6, NoCprocs DEF HandAgrees
    <2>2. StackAgrees(p)'
      BY <1>1, <1>6, <1>9, <1>10 DEF StackAgrees, Leavings, CallsAt, InBlock, NeedsWaiter
    <2>3. StackAgrees(w)'
      <3>1. ~lock'[w]
        BY <1>4, <1>5, <1>10
      <3>2. "none" \in CallsAt("receive")
        BY DEF CallsAt, InBlock, NeedsWaiter
      <3> QED BY <1>5, <1>6, <3>1, <3>2 DEF StackAgrees, Leavings
    <2> QED BY <2>1, <2>2, <2>3
  <1>16. WaitersAgree'
    <2>1. \A s \in Stacks : s /= p => stack[s].waiter /= w
      BY <1>1, <1>2, <1>3, <1>5 DEF WaitersAgree
    <2>2. \A s \in Stacks : stack'[s].pc \notin NeedsWaiter => stack'[s].waiter = None
      BY <1>2, <1>6 DEF WaitersAgree
    <2>3. \A s \in Stacks : stack'[s].waiter \notin Range(waiters')
      <3>1. stack[w].waiter \notin Range(waiters)
        BY <1>2, <1>5 DEF WaitersAgree
      <3> QED BY <1>2, <1>4, <1>6, <1>8, <3>1 DEF WaitersAgree
    <2>4. \A r, s \in Stacks : stack'[r].waiter = stack'[s].waiter /\ r /= s => stack'[s].waiter = None
      BY <1>2, <1>6 DEF WaitersAgree
    <2>5. ASSUME NEW v \in Waiters, v \in Range(waiters') \/ \E s \in Stacks : stack'[s].waiter = v
          PROVE  stack'[v].pc \in {"receive", "leaving"} /\ (Running(v)' => stack'[v].pc = "leaving")
      <3>1. v /= None
        BY StackIs
      <3>2. v /= w /\ (v \in Range(waiters) \/ \E s \in Stacks : stack[s].waiter = v)
        BY <1>4, <1>5, <1>6, <2>1, <2>5, <3>1
      <3>3. v \in Stacks /\ v /= p /\ stack'[v] = stack[v] /\ (Running(v)' <=> Running(v))
        BY <1>1, <1>6, <1>9, <3>2, StackIs
      <3> QED BY <1>2, <3>2, <3>3 DEF WaitersAgree
    <2>6. \A v \in Waiters : stack'[v].pc = "none" => ~Running(v)'
      BY <1>1, <1>2, <1>6, <1>9, StackIs DEF WaitersAgree
    <2> QED BY <1>2, <1>4, <2>2, <2>3, <2>4, <2>5, <2>6 DEF WaitersAgree
  <1> DEFINE S == {p}
  <1> DEFINE T == {p, w}
  <1>17. /\ \A r \in Stacks \ T : stack'[r] = stack[r] /\ lock'[r] = lock[r] /\ (Running(r)' <=> Running(r))
         /\ \A q \in Cprocs \ S : SameState(q) /\ SamePlace(q)
         /\ \A q \in Cprocs \cap S : Agrees(q)'
         /\ \A r \in Stacks \cap T : HandAgrees(r)' /\ StackAgrees(r)'
    BY <1>6, <1>9, <1>10, <1>13, <1>14, <1>15
  <1> HIDE DEF S, T
  <1> QED BY <1>9, <1>12, <1>16, <1>17, Keeps

\* A step within cproc_waiting.
LEMMA WaiterTransfer ==
    ASSUME MutexInv, PlaceInv, on' = on, lock' = lock, waiters' = waiters,
           NEW w \in Waiters, Running(w), stack[w].pc \in {"receive", "woken", "resume"},
           NEW l, NEW n, NEW queued, NEW h, Becomes(w, l, "none", n, queued, None, h),
           stack[w].waiter = None, l \in {"receive", "woken", "resume", "leave"},
           l \notin Handing => h = <<>>, l \in Handing => Len(h) = 1, w \notin Range(h),
           NEW S, Relinks(S), Others(w, S, h), MovedAgree(S)
    PROVE  PlaceInv'
  <1>1. w \in Stacks /\ w \notin Cprocs
    BY StackIs
  <1>2. /\ \A r \in Stacks \ {w} : stack'[r] = stack[r]
        /\ stack'[w].pc = l /\ stack'[w].call = "none" /\ stack'[w].waiter = None /\ stack'[w].hand = h
        /\ Running(w)'
    BY DEF Becomes, Running
  <1>3. HandAgrees(w)'
    BY <1>2 DEF HandAgrees, Handing
  <1>4. StackAgrees(w)'
    <2>1. StackAgrees(w)
      BY <1>1 DEF PlaceInv, StacksAgree
    <2>2. "none" \in CallsAt(l)
      BY DEF CallsAt, InBlock, NeedsWaiter
    <2> QED BY <1>1, <1>2, <2>1, <2>2 DEF StackAgrees, Leavings
  <1>5. WaitersAgree'
    BY <1>1, <1>2, WaitersStay
  <1>6. /\ \A r \in Stacks \ {w} : lock'[r] = lock[r]
        /\ MovedAgree(S \cup {w})
    BY <1>1 DEF MovedAgree
  <1> QED BY <1>1, <1>3, <1>4, <1>5, <1>6, Transfer

LEMMA WaiterHere ==
    ASSUME MutexInv, PlaceInv, NEW k \in KernelThreads, NEW w \in Waiters, NEW l, At(k, w, l),
           l \in {"receive", "woken", "resume", "leave", "leaving"}
    PROVE  /\ w \in Stacks /\ w \notin Cprocs /\ stack[w].pc = l /\ Running(w) /\ on[k] = w
           /\ stack[w].waiter = None /\ stack[w].call = "none" /\ Apart
           /\ l \in {"receive", "woken"} => stack[w].hand = <<>>
           /\ l \in {"resume", "leave", "leaving"} =>
                 LET new == Head(stack[w].hand) IN
                 /\ new \in Cprocs /\ new \in Stacks /\ new /= w /\ stack[w].hand = <<new>>
                 /\ HandFits(new, w) /\ Agrees(new) /\ OnChain(new) /\ Linked(new)
                 /\ ~wired[new] /\ messages[new] = 0
                 /\ \A m \in Mutexes : new \notin Range(mutex[m].queue)
                 /\ \A c \in Conditions : new \notin Range(condition[c])
                 /\ new \notin Range(ready)
                 /\ \A r \in Stacks \ {w} : new \notin Range(stack[r].hand)
  <1>1. w \in Stacks /\ w \notin Cprocs
    BY StackIs
  <1>2. /\ stack[w].pc = l /\ Running(w) /\ on[k] = w /\ stack[w].hand \in Seq(Cprocs)
        /\ HandAgrees(w) /\ stack[w].call \in CallsAt(l) /\ stack[w].waiter = None /\ Apart
    BY <1>1, Here, PlacesApart DEF NeedsWaiter
  <1>3. stack[w].call = "none"
    BY <1>2 DEF CallsAt, InBlock, NeedsWaiter
  <1>4. l \in {"receive", "woken"} => stack[w].hand = <<>>
    BY <1>2 DEF HandAgrees, Handing
  <1>5. ASSUME l \in {"resume", "leave", "leaving"}
        PROVE  LET new == Head(stack[w].hand) IN
                 /\ new \in Cprocs /\ new \in Stacks /\ new /= w /\ stack[w].hand = <<new>>
                 /\ HandFits(new, w) /\ Agrees(new) /\ OnChain(new) /\ Linked(new)
                 /\ ~wired[new] /\ messages[new] = 0
                 /\ \A m \in Mutexes : new \notin Range(mutex[m].queue)
                 /\ \A c \in Conditions : new \notin Range(condition[c])
                 /\ new \notin Range(ready)
                 /\ \A r \in Stacks \ {w} : new \notin Range(stack[r].hand)
    <2>1. PICK new : new = Head(stack[w].hand)
      OBVIOUS
    <2>2. Len(stack[w].hand) = 1 /\ IsInjective(stack[w].hand)
      BY <1>1, <1>2, <1>5 DEF HandAgrees, Apart
    <2>3. stack[w].hand /= <<>>
      BY <1>2, <2>2, OneLong
    <2>4. new \in Cprocs /\ stack[w].hand = <<new>> /\ new \in Range(stack[w].hand)
      BY <1>2, <2>1, <2>2, <2>3, Headed
    <2>5. HandFits(new, w) /\ Agrees(new)
      BY <1>1, <2>4, Linkings
    <2>6. OnChain(new) /\ Linked(new)
      BY <1>1, <2>4, ChainsAreApart DEF OnChain, ChainsApart
    <2>7. ~wired[new]
      BY <1>2, <1>5, <2>5 DEF HandFits, Blocked
    <2>8. messages[new] = 0
      BY <2>5, <2>7 DEF Agrees, CprocAgrees
    <2>9. /\ \A m \in Mutexes : new \notin Range(mutex[m].queue)
          /\ \A c \in Conditions : new \notin Range(condition[c])
          /\ new \notin Range(ready)
          /\ \A r \in Stacks \ {w} : new \notin Range(stack[r].hand)
      BY <1>1, <1>2, <2>4 DEF Apart
    <2>10. new \in Stacks /\ new /= w
      BY <1>1, <2>4, StackIs
    <2> QED BY <2>1, <2>4, <2>5, <2>6, <2>7, <2>8, <2>9, <2>10
  <1> QED BY <1>1, <1>2, <1>3, <1>4, <1>5

\* A step of cproc_waiting that moves no cproc.
LEMMA WaiterQuiet ==
    ASSUME MutexInv, PlaceInv, NEW w \in Waiters, Running(w), stack[w].hand = <<>>,
           UNCHANGED <<on, lock, state, wired, messages, ready, mutex, condition, waiters>>,
           stack[w].pc \in {"receive", "woken"}, stack[w].waiter = None, stack[w].call = "none",
           NEW l \in {"receive", "woken"}, Goto(w, l)
    PROVE  PlaceInv'
  <1>1. w \in Stacks /\ w \notin Cprocs /\ Apart
    BY StackIs, PlacesApart
  <1>2. PICK n, queued : n = stack[w].mutex /\ queued = stack[w].queued
    OBVIOUS
  <1>3. Becomes(w, l, "none", n, queued, None, <<>>)
    BY <1>1, <1>2, GotoBecomes
  <1>4. \A r \in Stacks : stack'[r].hand = stack[r].hand
    BY <1>3 DEF Becomes
  <1> DEFINE S == {}
  <1>5. Relinks(S) /\ Others(w, S, <<>>) /\ MovedAgree(S)
    <2>1. Injective' /\ \A q : Stays(q)
      BY <1>1, <1>4 DEF Injective, Apart, Stays
    <2> QED BY <2>1, NoCprocs DEF Relinks, Others, MovedAgree
  <1>6. l \notin Handing /\ w \notin Range(<<>>)
    BY NoCprocs DEF Handing
  <1> HIDE DEF S
  <1> QED BY <1>3, <1>5, <1>6, WaiterTransfer

LEMMA ReceivePlaces ==
    ASSUME MutexInv, PlaceInv, NEW k \in KernelThreads, NEW w \in Waiters, Receive(k, w)
    PROVE  PlaceInv'
  <1>1. At(k, w, "receive") /\ Goto(w, "woken")
        /\ UNCHANGED <<on, lock, state, wired, messages, ready, mutex, condition, waiters>>
    BY DEF Receive, wiring
  <1>2. /\ stack[w].pc = "receive" /\ Running(w) /\ stack[w].hand = <<>> /\ stack[w].waiter = None
        /\ stack[w].call = "none"
    BY <1>1, WaiterHere
  <1> QED BY <1>1, <1>2, WaiterQuiet

LEMMA WokenPlaces ==
    ASSUME MutexInv, PlaceInv, NEW k \in KernelThreads, NEW w \in Waiters, Woken(k, w)
    PROVE  PlaceInv'
  <1>1. At(k, w, "woken")
        /\ UNCHANGED <<on, lock, state, wired, messages, mutex, condition, waiters>>
    BY DEF Woken, wiring
  <1>2. /\ stack[w].pc = "woken" /\ Running(w) /\ stack[w].hand = <<>> /\ stack[w].waiter = None
        /\ stack[w].call = "none" /\ w \in Stacks /\ w \notin Cprocs /\ Apart
    BY <1>1, WaiterHere
  <1>3. CASE ready = <<>>
    <2>1. ready' = ready /\ Goto(w, "receive")
      BY <1>3 DEF Woken
    <2> QED BY <1>1, <1>2, <2>1, WaiterQuiet
  <1>4. CASE ready /= <<>>
    <2>1. PICK h, n, queued : h = Head(ready) /\ n = stack[w].mutex /\ queued = stack[w].queued
      OBVIOUS
    <2>2. ready' = Tail(ready) /\ stack' = [stack EXCEPT ![w].pc = "resume", ![w].hand = <<h>>]
      BY <1>4, <2>1 DEF Woken
    <2>3. /\ h \in Cprocs /\ h \in Range(ready)
          /\ Range(ready') = Range(ready) \ {h} /\ IsInjective(ready')
      <3>1. ready \in Seq(Cprocs) /\ IsInjective(ready)
        BY <1>2, MutexFields DEF Apart
      <3> QED BY <1>4, <2>1, <2>2, <3>1, Headed
    <2>4. /\ Blocked(h) /\ Agrees(h) /\ h /= w
      BY <1>2, <2>3, Linkings
    <2>5. Becomes(w, "resume", "none", n, queued, None, <<h>>)
      BY <1>2, <2>1, <2>2, HandBecomes
    <2>6. /\ stack'[w].hand = <<h>> /\ Range(<<h>>) = {h} /\ IsInjective(<<h>>) /\ Len(<<h>>) = 1
          /\ stack'[w].pc = "resume" /\ \A r \in Stacks \ {w} : stack'[r] = stack[r]
      BY <2>5, Single DEF Becomes
    <2>7. Injective'
      <3>1. \A s \in Stacks : IsInjective(stack'[s].hand)
        BY <1>2, <2>6 DEF Apart
      <3> QED BY <1>1, <1>2, <2>3, <3>1 DEF Injective, Apart
    <2>8. \A q \in Cprocs \ {h} : Stays(q)
      BY <1>1, <1>2, <2>3, <2>6, NoCprocs DEF Stays
    <2>9. OnlyAt(h, <<"hand", w>>)
      BY <1>1, <1>2, <2>3, <2>6 DEF OnlyAt, Apart
    <2>10. Agrees(h)'
      <3>1. SameState(h)
        BY <1>1, <2>3, <2>4, <2>6, StackIs DEF SameState, Running
      <3>2. LinkAgrees(h)'
        BY <1>2, <2>3, <2>4, <2>6, <2>9, <3>1, SameFits, AtHand DEF HandFits
      <3>3. Linked(h) /\ Linked(h)'
        <4>1. OnChain(h) /\ OnChain(h)'
          BY <1>2, <2>3, <2>6 DEF OnChain
        <4> QED BY <4>1, ChainsAreApart, ChainsAreApartNext DEF ChainsApart
      <3> QED BY <2>3, <2>4, <3>1, <3>2, <3>3, OnlyMoved
    <2> DEFINE S == {h}
    <2>11. Relinks(S) /\ Others(w, S, <<h>>) /\ MovedAgree(S)
      BY <1>1, <2>6, <2>7, <2>8, <2>9, <2>10 DEF Relinks, Others, MovedAgree
    <2>12. "resume" \in Handing /\ w \notin Range(<<h>>)
      BY <2>4, <2>6 DEF Handing
    <2> HIDE DEF S
    <2> QED BY <1>1, <1>2, <2>5, <2>6, <2>11, <2>12, WaiterTransfer
  <1> QED BY <1>3, <1>4

LEMMA ResumePlaces ==
    ASSUME MutexInv, PlaceTypes, PlaceInv, NEW k \in KernelThreads, NEW w \in Waiters, Resume(k, w)
    PROVE  PlaceInv'
  <1>1. PICK new, n, queued : new = Head(stack[w].hand) /\ n = stack[w].mutex /\ queued = stack[w].queued
    OBVIOUS
  <1>2. /\ At(k, w, "resume") /\ ~lock[new] /\ Goto(w, "leave")
        /\ state' = [state EXCEPT ![new] = {}]
        /\ UNCHANGED <<on, lock, wired, messages, ready, mutex, condition, waiters>>
    BY <1>1 DEF Resume, wiring
  <1>3. /\ stack[w].pc = "resume" /\ Running(w) /\ stack[w].waiter = None
        /\ stack[w].call = "none" /\ w \in Stacks /\ w \notin Cprocs /\ Apart
        /\ new \in Cprocs /\ new /= w /\ stack[w].hand = <<new>>
        /\ HandFits(new, w) /\ Agrees(new) /\ OnChain(new) /\ Linked(new)
        /\ ~wired[new] /\ messages[new] = 0
    BY <1>1, <1>2, WaiterHere
  <1>4. Becomes(w, "leave", "none", n, queued, None, <<new>>)
    BY <1>1, <1>2, <1>3, GotoBecomes
  <1>5. /\ stack'[w].pc = "leave" /\ (\A r \in Stacks : stack'[r].hand = stack[r].hand)
        /\ \A r \in Stacks \ {w} : stack'[r] = stack[r]
    BY <1>3, <1>4 DEF Becomes
  <1>6. state'[new] = {} /\ \A q \in Cprocs \ {new} : state'[q] = state[q]
    BY <1>2, <1>3 DEF PlaceTypes
  <1>7. Injective' /\ \A q : Stays(q)
    BY <1>2, <1>3, <1>5 DEF Injective, Apart, Stays
  <1>8. Range(<<new>>) = {new} /\ Len(<<new>>) = 1
    BY Single
  <1>9. OnlyAt(new, <<"hand", w>>)
    <2>1. /\ \A m \in Mutexes : new \notin Range(mutex[m].queue)
          /\ \A c \in Conditions : new \notin Range(condition[c])
          /\ new \notin Range(ready)
          /\ \A r \in Stacks \ {w} : new \notin Range(stack[r].hand)
      BY <1>1, <1>2, WaiterHere
    <2> QED BY <1>2, <1>5, <2>1 DEF OnlyAt
  <1>10. Agrees(new)'
    <2>1. Blocked(new)
      BY <1>3 DEF HandFits
    <2>2. ~Running(new) /\ ~Running(new)'
      BY <1>2, <1>3, <2>1, BlockedIsLeft DEF Running
    <2>3. HandFits(new, w)'
      BY <1>2, <1>3, <1>5, <1>6, <2>2 DEF HandFits
    <2>4. LinkAgrees(new)'
      BY <1>3, <1>9, <2>3, AtHand
    <2>5. new \in Stacks /\ stack'[new] = stack[new] /\ Linked(new)'
      BY <1>3, <1>5, <1>7, StaysLinked, StackIs
    <2>6. stack[new].pc \in {"user", "retry", "none"}
      BY <1>3, <2>2 DEF Agrees, CprocAgrees
    <2>7. ~Trying(new)' /\ ~Suspending(new)' /\ stack[new].pc /= "none"
      BY <1>3, <2>5, <2>6 DEF Trying, Suspending, InBlock, Agrees, CprocAgrees
    <2>8. CprocAgrees(new)'
      BY <1>2, <1>3, <1>6, <2>2, <2>5, <2>6, <2>7 DEF CprocAgrees, InBlock, NeedsWaiter
    <2> QED BY <2>4, <2>8 DEF Agrees
  <1> DEFINE S == {new}
  <1>11. Relinks(S) /\ Others(w, S, <<new>>) /\ MovedAgree(S)
    BY <1>2, <1>6, <1>7, <1>8, <1>9, <1>10 DEF Relinks, Others, MovedAgree
  <1>12. "leave" \in Handing /\ w \notin Range(<<new>>)
    BY <1>3, <1>8 DEF Handing
  <1> HIDE DEF S
  <1> QED BY <1>2, <1>3, <1>4, <1>8, <1>11, <1>12, WaiterTransfer

LEMMA LeavePlaces ==
    ASSUME MutexInv, PlaceTypes, PlaceInv, NEW k \in KernelThreads, NEW w \in Waiters, Leave(k, w)
    PROVE  PlaceInv'
  <1>1. PICK new, n, queued : new = Head(stack[w].hand) /\ n = stack[w].mutex /\ queued = stack[w].queued
    OBVIOUS
  <1>2. /\ At(k, w, "leave") /\ Goto(w, "leaving") /\ waiters' = Append(waiters, w)
        /\ lock' = [lock EXCEPT ![w] = TRUE]
        /\ UNCHANGED <<on, state, wired, messages, ready, mutex, condition>>
    BY DEF Leave, wiring
  <1>3. /\ stack[w].pc = "leave" /\ Running(w) /\ stack[w].waiter = None
        /\ stack[w].call = "none" /\ w \in Stacks /\ w \notin Cprocs /\ Apart
        /\ new \in Cprocs /\ new \in Stacks /\ new /= w /\ stack[w].hand = <<new>>
        /\ HandFits(new, w) /\ Agrees(new) /\ OnChain(new) /\ Linked(new)
    BY <1>1, <1>2, WaiterHere
  <1>4. Becomes(w, "leaving", "none", n, queued, None, <<new>>)
    BY <1>1, <1>2, <1>3, GotoBecomes
  <1>5. /\ stack'[w].pc = "leaving" /\ stack'[w].waiter = None /\ stack'[w].call = "none"
        /\ (\A r \in Stacks : stack'[r].hand = stack[r].hand)
        /\ \A r \in Stacks \ {w} : stack'[r] = stack[r]
    BY <1>3, <1>4 DEF Becomes
  <1>6. lock'[w] /\ \A r \in Stacks \ {w} : lock'[r] = lock[r]
    BY <1>2, <1>3 DEF PlaceTypes
  <1>7. Injective' /\ \A q : Stays(q)
    BY <1>2, <1>3, <1>5 DEF Injective, Apart, Stays
  <1>8. Range(<<new>>) = {new} /\ Len(<<new>>) = 1
    BY Single
  <1>9. OnlyAt(new, <<"hand", w>>)
    <2>1. /\ \A m \in Mutexes : new \notin Range(mutex[m].queue)
          /\ \A c \in Conditions : new \notin Range(condition[c])
          /\ new \notin Range(ready)
          /\ \A r \in Stacks \ {w} : new \notin Range(stack[r].hand)
      BY <1>1, <1>2, WaiterHere
    <2> QED BY <1>2, <1>5, <2>1 DEF OnlyAt
  <1>10. Agrees(new)'
    <2>1. SameState(new)
      BY <1>2, <1>3, <1>5 DEF SameState, Running
    <2>2. HandFits(new, w)'
      BY <1>2, <1>3, <1>5 DEF HandFits, Running
    <2>3. Linked(new)' <=> Linked(new)
      BY <1>7, StaysLinked
    <2> QED BY <1>3, <1>9, <2>1, <2>2, <2>3, AtHand, OnlyMoved
  <1>11. HandAgrees(w)' /\ StackAgrees(w)'
    <2>1. stack'[w].hand = <<new>>
      BY <1>3, <1>5
    <2>2. HandAgrees(w)'
      BY <1>3, <1>5, <1>8, <2>1 DEF HandAgrees, Handing
    <2>3. "none" \in CallsAt("leaving") /\ Running(w)'
      BY <1>2, <1>3 DEF CallsAt, InBlock, NeedsWaiter, Running
    <2>4. StackAgrees(w)'
      BY <1>3, <1>5, <1>6, <2>3 DEF StackAgrees, Leavings
    <2> QED BY <2>2, <2>4
  <1>12. WaitersAgree'
    <2>1. WaitersAgree
      BY DEF PlaceInv
    <2>2. w \notin Range(waiters) /\ \A s \in Stacks : stack[s].waiter /= w
      BY <1>3, <2>1 DEF WaitersAgree
    <2>3. Range(waiters') = Range(waiters) \cup {w} /\ IsInjective(waiters')
      <3>1. waiters \in Seq(Waiters) /\ IsInjective(waiters)
        BY <2>1 DEF MutexInv, MutexTypes, WaitersAgree
      <3> QED BY <1>2, <2>2, <3>1, Appended
    <2>4. \A s \in Stacks : stack'[s].waiter = stack[s].waiter
      BY <1>3, <1>5
    <2>5. \A s \in Stacks : stack'[s].pc \notin NeedsWaiter => stack'[s].waiter = None
      BY <1>5, <2>1 DEF WaitersAgree
    <2>6. ASSUME NEW v \in Waiters, v \in Range(waiters') \/ \E s \in Stacks : stack'[s].waiter = v
          PROVE  stack'[v].pc \in {"receive", "leaving"} /\ (Running(v)' => stack'[v].pc = "leaving")
      <3>1. v = w \/ v \in Range(waiters) \/ \E s \in Stacks : stack[s].waiter = v
        BY <2>3, <2>4, <2>6
      <3>2. v \in Stacks /\ (v /= w => stack'[v] = stack[v]) /\ (Running(v)' <=> Running(v))
        BY <1>2, <1>5, StackIs DEF Running
      <3> QED BY <1>5, <2>1, <3>1, <3>2 DEF WaitersAgree
    <2>7. \A v \in Waiters : stack'[v].pc = "none" => ~Running(v)'
      BY <1>2, <1>5, <2>1, StackIs DEF WaitersAgree, Running
    <2> QED BY <2>1, <2>2, <2>3, <2>4, <2>5, <2>6, <2>7 DEF WaitersAgree
  <1> DEFINE S == {new}
  <1>13. Relinks(S) /\ Others(w, S, <<new>>) /\ MovedAgree(S \cup {w})
    BY <1>2, <1>3, <1>7, <1>8, <1>9, <1>10 DEF Relinks, Others, MovedAgree
  <1> HIDE DEF S
  <1> QED BY <1>2, <1>3, <1>4, <1>6, <1>11, <1>12, <1>13, Transfer

LEMMA LeavingPlaces ==
    ASSUME MutexInv, PlaceTypes, PlaceInv, NEW k \in KernelThreads, NEW w \in Waiters, Leaving(k, w)
    PROVE  PlaceInv'
  <1>1. PICK new : new = Head(stack[w].hand)
    OBVIOUS
  <1>2. /\ At(k, w, "leaving") /\ on' = [on EXCEPT ![k] = new] /\ lock' = [lock EXCEPT ![w] = FALSE]
        /\ stack' = [stack EXCEPT ![w] = NewStack("receive")]
        /\ UNCHANGED <<state, wired, messages, ready, mutex, condition, waiters>>
    BY <1>1 DEF Leaving, SwitchStacks, wiring
  <1>3. /\ stack[w].pc = "leaving" /\ Running(w) /\ on[k] = w /\ stack[w].waiter = None
        /\ stack[w].call = "none" /\ w \in Stacks /\ w \notin Cprocs /\ Apart
        /\ new \in Cprocs /\ new \in Stacks /\ new /= w /\ stack[w].hand = <<new>>
        /\ HandFits(new, w) /\ Agrees(new) /\ OnChain(new) /\ Linked(new)
        /\ ~wired[new] /\ messages[new] = 0
    BY <1>1, <1>2, WaiterHere
  <1>4. /\ stack'[w].pc = "receive" /\ stack'[w].call = "none" /\ stack'[w].waiter = None
        /\ stack'[w].hand = <<>> /\ \A r \in Stacks \ {w} : stack'[r] = stack[r]
    <2>1. stack \in [Stacks -> StackRecords]
      BY DEF MutexInv, MutexTypes
    <2> QED BY <1>2, <1>3, <2>1 DEF NewStack
  <1>5. ~Running(new)
    BY <1>3 DEF HandFits
  <1>6. /\ OneThreadPerStack' /\ ~Running(w)' /\ Running(new)'
        /\ \A r \in Stacks \ {w, new} : Running(r)' <=> Running(r)
    BY <1>2, <1>3, <1>5, Switched
  <1>7. lock'[w] = FALSE /\ \A r \in Stacks \ {w} : lock'[r] = lock[r]
    BY <1>2, <1>3 DEF PlaceTypes
  <1>8. Range(<<new>>) = {new}
    BY Single
  <1>9. Injective'
    <2>1. \A s \in Stacks : IsInjective(stack'[s].hand)
      BY <1>3, <1>4, NoCprocs DEF Apart
    <2> QED BY <1>2, <1>3, <2>1 DEF Injective, Apart
  <1>10. \A q \in Cprocs \ {new} : Stays(q)
    BY <1>2, <1>3, <1>4, <1>8, NoCprocs DEF Stays
  <1>11. ~OnChain(new)'
    <2>1. /\ \A m \in Mutexes : new \notin Range(mutex[m].queue)
          /\ \A c \in Conditions : new \notin Range(condition[c])
          /\ new \notin Range(ready)
          /\ \A r \in Stacks \ {w} : new \notin Range(stack[r].hand)
      BY <1>1, <1>2, WaiterHere
    <2> QED BY <1>2, <1>4, <2>1, NoCprocs DEF OnChain
  <1>12. Apart'
    <2> DEFINE S == {new}
    <2>1. /\ \A q \in Cprocs \ S : Stays(q)
          /\ \A q \in Cprocs \cap S : \E y : OnlyAt(q, y)
      BY <1>10, <1>11, Unlinked
    <2> HIDE DEF S
    <2> QED BY <1>9, <2>1, Moved
  <1>13. Agrees(new)'
    BY <1>2, <1>3, <1>4, <1>5, <1>6, <1>11, TakenAgrees
  <1>14. ASSUME NEW q \in Cprocs \ {new}
         PROVE  SameState(q) /\ SamePlace(q)
    <2>1. q \in Stacks /\ q /= w /\ (OnChain(q)' <=> OnChain(q)) /\ Stays(q)
      BY <1>3, <1>10, StackIs, StaysLinked
    <2>2. SameState(q)
      BY <1>2, <1>4, <1>6, <2>1 DEF SameState
    <2>3. \A r \in Stacks : q \in Range(stack'[r].hand) => r /= w
      BY <1>4, NoCprocs
    <2> QED BY <1>4, <2>1, <2>2, <2>3 DEF SamePlace, Stays
  <1>15. HandAgrees(w)' /\ StackAgrees(w)'
    <2>1. HandAgrees(w)'
      BY <1>4, NoCprocs DEF HandAgrees
    <2>2. "none" \in CallsAt("receive")
      BY DEF CallsAt, InBlock, NeedsWaiter
    <2>3. StackAgrees(w)'
      BY <1>4, <1>7, <2>2 DEF StackAgrees, Leavings
    <2> QED BY <2>1, <2>3
  <1>16. HandAgrees(new)' /\ StackAgrees(new)'
    <2>1. HandAgrees(new) /\ StackAgrees(new)
      BY <1>3 DEF PlaceInv, StacksAgree
    <2>2. HandAgrees(new)'
      BY <1>3, <1>4, <2>1 DEF HandAgrees
    <2>3. StackAgrees(new)'
      BY <1>3, <1>4, <1>6, <1>7, <2>1, StackIs DEF StackAgrees
    <2> QED BY <2>2, <2>3
  <1>17. WaitersAgree'
    <2>1. WaitersAgree
      BY DEF PlaceInv
    <2>2. \A s \in Stacks : stack'[s].waiter = stack[s].waiter
      BY <1>3, <1>4
    <2>3. \A s \in Stacks : stack'[s].pc \notin NeedsWaiter => stack'[s].waiter = None
      BY <1>4, <2>1 DEF WaitersAgree
    <2>4. ASSUME NEW v \in Waiters, v \in Range(waiters') \/ \E s \in Stacks : stack'[s].waiter = v
          PROVE  stack'[v].pc \in {"receive", "leaving"} /\ (Running(v)' => stack'[v].pc = "leaving")
      <3>1. v \in Range(waiters) \/ \E s \in Stacks : stack[s].waiter = v
        BY <1>2, <2>2, <2>4
      <3>2. v \in Stacks /\ v /= new
        BY <1>3, StackIs
      <3> QED BY <1>4, <1>6, <2>1, <3>1, <3>2 DEF WaitersAgree
    <2>5. \A v \in Waiters : stack'[v].pc = "none" => ~Running(v)'
      BY <1>3, <1>4, <1>6, <2>1, StackIs DEF WaitersAgree
    <2> QED BY <1>2, <2>1, <2>2, <2>3, <2>4, <2>5 DEF WaitersAgree
  <1> DEFINE S == {new}
  <1> DEFINE T == {w, new}
  <1>18. /\ \A r \in Stacks \ T : stack'[r] = stack[r] /\ lock'[r] = lock[r] /\ (Running(r)' <=> Running(r))
         /\ \A q \in Cprocs \ S : SameState(q) /\ SamePlace(q)
         /\ \A q \in Cprocs \cap S : Agrees(q)'
         /\ \A r \in Stacks \cap T : HandAgrees(r)' /\ StackAgrees(r)'
    BY <1>4, <1>6, <1>7, <1>13, <1>14, <1>15, <1>16
  <1> HIDE DEF S, T
  <1> QED BY <1>6, <1>12, <1>17, <1>18, Keeps

-----------------------------------------------------------------------------
(* The other calls.                                                        *)

\* A cproc at its own code.
LEMMA AtUser ==
    ASSUME MutexInv, PlaceInv, NEW k \in KernelThreads, NEW p \in Cprocs, At(k, p, "user")
    PROVE  /\ p \in Stacks /\ p \notin Waiters /\ stack[p].pc = "user" /\ Running(p)
           /\ stack[p].hand = <<>> /\ stack[p].waiter = None /\ stack[p].call = "none"
           /\ ~Suspending(p) /\ ~Trying(p) /\ ~OnChain(p) /\ ~Linked(p) /\ messages[p] \in {0, 1}
           /\ messages[p] /= 1 /\ Agrees(p) /\ Apart /\ HandAgrees(p) /\ StackAgrees(p)
  <1>1. p \in Stacks /\ p \notin Waiters
    BY StackIs
  <1>2. /\ stack[p].pc = "user" /\ Running(p) /\ stack[p].hand = <<>> /\ stack[p].waiter = None
        /\ stack[p].call \in CallsAt("user") /\ Agrees(p) /\ Apart /\ HandAgrees(p) /\ StackAgrees(p)
    BY <1>1, Here, PlacesApart DEF Handing, NeedsWaiter
  <1>3. ~Suspending(p) /\ ~Trying(p) /\ stack[p].call = "none"
    BY <1>2 DEF Trying, Suspending, InBlock, CallsAt, NeedsWaiter
  <1>4. ~OnChain(p) /\ ~Linked(p)
    BY <1>2, <1>3, Unsuspended
  <1> QED BY <1>1, <1>2, <1>3, <1>4 DEF Agrees, CprocAgrees

LEMMA YieldPlaces ==
    ASSUME MutexInv, PlaceTypes, PlaceInv, NEW k \in KernelThreads, NEW p \in Cprocs, Yield(k, p)
    PROVE  PlaceInv'
  <1>1. PICK h, n, queued : h = Head(ready) /\ n = stack[p].mutex /\ queued = stack[p].queued
    OBVIOUS
  <1>2. /\ At(k, p, "user") /\ ~wired[p] /\ ready /= <<>>
        /\ ready' = Append(Tail(ready), p)
        /\ lock' = [lock EXCEPT ![p] = TRUE]
        /\ state' = [state EXCEPT ![p] = {"BLOCKED"}]
        /\ stack' = [stack EXCEPT ![p].pc = "switch", ![p].call = "yield", ![p].hand = <<h>>]
        /\ UNCHANGED <<on, wired, messages, mutex, condition, waiters>>
    BY <1>1 DEF Yield, wiring
  <1>3. /\ p \in Stacks /\ p \notin Waiters /\ stack[p].pc = "user" /\ Running(p)
        /\ stack[p].hand = <<>> /\ stack[p].waiter = None /\ Apart
        /\ ~OnChain(p) /\ ~Linked(p) /\ messages[p] = 0
    BY <1>2, AtUser
  <1>4. ready \in Seq(Cprocs) /\ IsInjective(ready)
    BY <1>3, MutexFields DEF Apart
  <1>5. /\ h \in Cprocs /\ h \in Range(ready) /\ Tail(ready) \in Seq(Cprocs)
        /\ Range(Tail(ready)) = Range(ready) \ {h} /\ IsInjective(Tail(ready))
    BY <1>1, <1>2, <1>4, Headed
  <1>6. p \notin Range(ready) /\ p /= h
    BY <1>3, <1>5 DEF OnChain
  <1>7. Range(ready') = (Range(ready) \ {h}) \cup {p} /\ IsInjective(ready')
    <2>1. PICK u : u = Tail(ready)
      OBVIOUS
    <2>2. u \in Seq(Cprocs) /\ IsInjective(u) /\ p \notin Range(u)
      BY <1>5, <1>6, <2>1
    <2>3. Range(Append(u, p)) = Range(u) \cup {p} /\ IsInjective(Append(u, p))
      BY <1>3, <2>2, Appended
    <2> QED BY <1>2, <1>5, <2>1, <2>3
  <1>8. Becomes(p, "switch", "yield", n, queued, None, <<h>>)
    BY <1>1, <1>2, <1>3, CallBecomes
  <1>9. /\ stack'[p].hand = <<h>> /\ Range(<<h>>) = {h} /\ IsInjective(<<h>>) /\ Len(<<h>>) = 1
        /\ stack'[p].pc = "switch" /\ stack'[p].call = "yield" /\ stack'[p].waiter = None
        /\ \A r \in Stacks \ {p} : stack'[r] = stack[r]
    BY <1>8, Single DEF Becomes
  <1>10. /\ lock'[p] /\ (\A r \in Stacks \ {p} : lock'[r] = lock[r])
         /\ state'[p] = {"BLOCKED"} /\ (\A q \in Cprocs \ {p} : state'[q] = state[q]) /\ Running(p)'
    BY <1>2, <1>3 DEF PlaceTypes, Running
  <1>11. Injective'
    <2>1. \A s \in Stacks : IsInjective(stack'[s].hand)
      BY <1>3, <1>9 DEF Apart
    <2> QED BY <1>2, <1>3, <1>7, <2>1 DEF Injective, Apart
  <1>12. \A q \in Cprocs \ {h, p} : Stays(q)
    BY <1>2, <1>3, <1>7, <1>9, NoCprocs DEF Stays
  <1>13. OnlyAt(h, <<"hand", p>>)
    BY <1>2, <1>3, <1>5, <1>6, <1>7, <1>9 DEF OnlyAt, Apart
  <1>14. OnlyAt(p, <<"ready", None>>)
    BY <1>2, <1>3, <1>6, <1>9 DEF OnlyAt, OnChain
  <1>15. Agrees(h)'
    <2>1. Blocked(h) /\ Agrees(h)
      BY <1>5, Linkings
    <2>2. SameState(h)
      BY <1>2, <1>5, <1>6, <1>9, <1>10, StackIs DEF SameState, Running
    <2>3. LinkAgrees(h)'
      BY <1>3, <1>5, <1>9, <1>13, <2>1, <2>2, SameFits, AtHand DEF HandFits
    <2>4. Linked(h) /\ Linked(h)'
      <3>1. OnChain(h) /\ OnChain(h)'
        BY <1>3, <1>5, <1>9 DEF OnChain
      <3> QED BY <3>1, ChainsAreApart, ChainsAreApartNext DEF ChainsApart
    <2> QED BY <1>5, <2>1, <2>2, <2>3, <2>4, OnlyMoved
  <1>16. Agrees(p)'
    <2>1. Blocked(p)' /\ ~Trying(p)' /\ ~Suspending(p)'
      BY <1>2, <1>9, <1>10 DEF Blocked, Trying, Suspending, InBlock
    <2>2. LinkAgrees(p)'
      BY <1>14, <2>1, AtQueue
    <2>3. Linked(p)'
      <3>1. OnChain(p)'
        BY <1>7 DEF OnChain
      <3> QED BY <3>1, ChainsAreApartNext DEF ChainsApart
    <2>4. CprocAgrees(p)'
      BY <1>2, <1>3, <1>9, <1>10, <2>1, <2>3 DEF CprocAgrees, InBlock, NeedsWaiter
    <2> QED BY <2>2, <2>4 DEF Agrees
  <1>17. HandAgrees(p)' /\ StackAgrees(p)'
    <2>1. HandAgrees(p)'
      BY <1>6, <1>9 DEF HandAgrees, Handing
    <2>2. "yield" \in CallsAt("switch")
      BY DEF CallsAt, InBlock, NeedsWaiter
    <2>3. StackAgrees(p)'
      BY <1>3, <1>9, <1>10, <2>2 DEF StackAgrees, Leavings
    <2> QED BY <2>1, <2>3
  <1>18. WaitersAgree'
    BY <1>2, <1>3, <1>9, WaitersStay
  <1> DEFINE S == {h, p}
  <1>19. Relinks(S) /\ Others(p, S, <<h>>) /\ MovedAgree(S \cup {p})
    BY <1>2, <1>9, <1>10, <1>11, <1>12, <1>13, <1>14, <1>15, <1>16 DEF Relinks, Others, MovedAgree
  <1> HIDE DEF S
  <1> QED BY <1>2, <1>3, <1>8, <1>10, <1>17, <1>18, <1>19, Transfer

LEMMA CreatePlaces ==
    ASSUME MutexInv, PlaceTypes, PlaceInv, NEW k \in KernelThreads, NEW p \in Cprocs,
           NEW child \in Cprocs, Create(k, p, child)
    PROVE  PlaceInv'
  <1>1. /\ At(k, p, "user") /\ stack[child].pc = "none"
        /\ UNCHANGED <<lock, wired, messages, ready, mutex, condition, waiters>>
    BY DEF Create, wiring
  <1>2. /\ p \in Stacks /\ p \notin Waiters /\ stack[p].pc = "user" /\ Running(p)
        /\ stack[p].hand = <<>> /\ stack[p].waiter = None /\ stack[p].call = "none"
        /\ ~Suspending(p) /\ ~Trying(p) /\ Apart /\ HandAgrees(p) /\ StackAgrees(p)
    BY <1>1, AtUser
  <1>3. /\ child \in Stacks /\ child \notin Waiters /\ child /= p /\ child /= None
        /\ HandAgrees(child) /\ StackAgrees(child) /\ Agrees(child) /\ WaitersAgree
    BY <1>1, <1>2, StackIs, Linkings DEF PlaceInv, StacksAgree
  <1>4. /\ ~Running(child) /\ ~Linked(child) /\ ~OnChain(child) /\ ~wired[child] /\ messages[child] = 0
        /\ stack[child].hand = <<>> /\ stack[child].waiter = None /\ stack[child].call = "none"
        /\ ~lock[child]
    <2>1. ~Running(child) /\ ~Linked(child) /\ ~wired[child] /\ messages[child] = 0
      BY <1>1, <1>3 DEF Agrees, CprocAgrees
    <2>2. stack[child].hand = <<>> /\ stack[child].waiter = None
      BY <1>1, <1>3 DEF HandAgrees, Handing, WaitersAgree, NeedsWaiter
    <2>3. stack[child].call = "none" /\ ~lock[child]
      BY <1>1, <1>3 DEF StackAgrees, CallsAt, InBlock, NeedsWaiter, Leavings
    <2> QED BY <2>1, <2>2, <2>3, ChainsAreApart DEF ChainsApart
  <1>5. stack \in [Stacks -> StackRecords]
    BY DEF MutexInv, MutexTypes
  <1>6. CASE /\ \E j \in KernelThreads \ {j \in KernelThreads : on[j] /= None} : on' = [on EXCEPT ![j] = child]
             /\ Goto(child, "user") /\ state' = state
    <2>1. PICK j \in KernelThreads : on[j] = None /\ on' = [on EXCEPT ![j] = child]
      BY <1>6
    <2>2. /\ stack'[child].pc = "user" /\ stack'[child].call = "none" /\ stack'[child].hand = <<>>
          /\ stack'[child].waiter = None /\ stack'[child].queued = stack[child].queued
          /\ \A r \in Stacks \ {child} : stack'[r] = stack[r]
      BY <1>3, <1>4, <1>6, GotoBecomes DEF Becomes
    <2>3. /\ OneThreadPerStack' /\ Running(child)'
          /\ \A r \in Stacks \ {child} : Running(r)' <=> Running(r)
      <3>1. OneThreadPerStack /\ on \in [KernelThreads -> Stacks \cup {None}] /\ None \notin Stacks
        BY StackIs DEF PlaceInv, PlaceTypes
      <3>2. on'[j] = child /\ \A i \in KernelThreads \ {j} : on'[i] = on[i]
        BY <2>1, <3>1
      <3>3. \A i \in KernelThreads : on[i] /= child
        BY <1>4 DEF Running
      <3> QED BY <2>1, <3>1, <3>2, <3>3 DEF OneThreadPerStack, Running
    <2>4. \A r \in Stacks : stack'[r].hand = stack[r].hand
      BY <1>4, <2>2
    <2>5. Apart' /\ \A q : OnChain(q)' <=> OnChain(q)
      BY <1>1, <1>2, <2>4 DEF Apart, OnChain
    <2>6. ASSUME NEW q \in Cprocs \ {child}
          PROVE  SameState(q) /\ SamePlace(q)
      <3>1. q \in Stacks /\ stack'[q] = stack[q] /\ (Running(q)' <=> Running(q))
        BY <2>2, <2>3, StackIs
      <3>2. \A r \in Stacks : q \in Range(stack'[r].hand) => r /= child
        BY <2>2, NoCprocs
      <3> QED BY <1>1, <1>6, <2>2, <2>4, <2>5, <3>1, <3>2 DEF SameState, SamePlace
    <2>7. Agrees(child)'
      <3>1. ~OnChain(child)' /\ ~Trying(child)' /\ ~Suspending(child)'
        BY <1>4, <2>2, <2>5 DEF Trying, Suspending, InBlock
      <3> QED BY <1>1, <1>4, <2>2, <2>3, <3>1, Unlinked DEF Agrees, CprocAgrees, InBlock, NeedsWaiter
    <2>8. HandAgrees(child)' /\ StackAgrees(child)'
      <3>1. HandAgrees(child)'
        BY <2>2, NoCprocs DEF HandAgrees
      <3>2. "none" \in CallsAt("user") /\ ~lock'[child]
        BY <1>1, <1>4 DEF CallsAt, InBlock, NeedsWaiter
      <3>3. StackAgrees(child)'
        BY <1>3, <2>2, <3>2 DEF StackAgrees, Leavings
      <3> QED BY <3>1, <3>3
    <2>9. WaitersAgree'
      <3>1. \A v \in Waiters : Running(v)' <=> Running(v)
        BY <1>3, <2>3, StackIs
      <3> QED BY <1>1, <1>3, <1>4, <2>2, <3>1, WaitersKept
    <2> DEFINE S == {child}
    <2>10. /\ \A r \in Stacks \ S : stack'[r] = stack[r] /\ lock'[r] = lock[r] /\ (Running(r)' <=> Running(r))
           /\ \A q \in Cprocs \ S : SameState(q) /\ SamePlace(q)
           /\ \A q \in Cprocs \cap S : Agrees(q)'
           /\ \A r \in Stacks \cap S : HandAgrees(r)' /\ StackAgrees(r)'
      BY <1>1, <2>2, <2>3, <2>6, <2>7, <2>8
    <2> HIDE DEF S
    <2> QED BY <2>3, <2>5, <2>9, <2>10, Keeps
  <1>7. CASE /\ state' = [state EXCEPT ![child] = {"BLOCKED"}]
             /\ stack' = [stack EXCEPT ![child].pc = "user", ![p].pc = "ready",
                                       ![p].call = "wake", ![p].hand = <<child>>]
             /\ on' = on
    <2>1. stack[p] \in StackRecords /\ stack[child] \in StackRecords
      BY <1>2, <1>3, <1>5
    <2>2. /\ stack'[child].pc = "user" /\ stack'[child].call = "none" /\ stack'[child].hand = <<>>
          /\ stack'[child].waiter = None
          /\ stack'[p].pc = "ready" /\ stack'[p].call = "wake" /\ stack'[p].hand = <<child>>
          /\ stack'[p].waiter = None /\ stack'[p].mutex = stack[p].mutex
          /\ \A r \in Stacks \ {child, p} : stack'[r] = stack[r]
      BY <1>2, <1>3, <1>4, <1>5, <1>7, <2>1, Record
    <2>3. \A r : Running(r)' <=> Running(r)
      BY <1>7 DEF Running
    <2>4. Range(<<child>>) = {child} /\ IsInjective(<<child>>)
      BY Single
    <2>5. state'[child] = {"BLOCKED"} /\ \A q \in Cprocs \ {child} : state'[q] = state[q]
      BY <1>7 DEF PlaceTypes
    <2>6. Injective'
      <3>1. \A s \in Stacks : IsInjective(stack'[s].hand)
        BY <1>2, <2>2, <2>4, NoCprocs DEF Apart
      <3> QED BY <1>1, <1>2, <3>1 DEF Injective, Apart
    <2>7. \A q \in Cprocs \ {child} : Stays(q)
      BY <1>1, <1>2, <1>4, <2>2, <2>4, NoCprocs DEF Stays
    <2>8. OnlyAt(child, <<"hand", p>>)
      BY <1>1, <1>4, <2>2, NoCprocs DEF OnlyAt, OnChain
    <2>9. Apart'
      <3> DEFINE S == {child}
      <3>1. /\ \A q \in Cprocs \ S : Stays(q)
            /\ \A q \in Cprocs \cap S : \E y : OnlyAt(q, y)
        BY <2>7, <2>8
      <3> HIDE DEF S
      <3> QED BY <2>6, <3>1, Moved
    <2>10. Agrees(child)'
      <3>1. Blocked(child)' /\ ~Running(child)'
        BY <1>1, <1>4, <2>3, <2>5 DEF Blocked
      <3>2. HandFits(child, p)'
        BY <2>2, <3>1 DEF HandFits
      <3>3. LinkAgrees(child)'
        BY <1>2, <2>8, <3>2, AtHand
      <3>4. Linked(child)'
        <4>1. OnChain(child)'
          BY <1>2, <2>2, <2>4 DEF OnChain
        <4> QED BY <4>1, ChainsAreApartNext DEF ChainsApart
      <3>5. ~Trying(child)' /\ ~Suspending(child)'
        BY <2>2 DEF Trying, Suspending, InBlock
      <3>6. CprocAgrees(child)'
        BY <1>1, <1>4, <2>2, <3>1, <3>4, <3>5 DEF CprocAgrees, InBlock, NeedsWaiter
      <3> QED BY <3>3, <3>6 DEF Agrees
    <2>11. Agrees(p)'
      <3>1. ~Suspending(p)'
        BY <2>2 DEF Suspending, InBlock
      <3>2. p \notin Range(stack'[p].hand)
        BY <1>3, <2>2, <2>4
      <3>3. \A r \in Stacks \ {p} : p \in Range(stack'[r].hand) => stack'[r] = stack[r]
        BY <2>2, NoCprocs
      <3>4. "wake" \in CallsAt("ready") /\ state'[p] = state[p] /\ Stays(p)
        BY <1>3, <2>5, <2>7 DEF CallsAt, InBlock, NeedsWaiter
      <3>5. /\ "user" \notin Leavings \cup {"try", "none"} /\ "ready" \notin Leavings \cup {"try", "none"}
            /\ "ready" \notin InBlock \cup NeedsWaiter /\ "user" \notin InBlock \cup {"wired"}
        BY DEF Leavings, InBlock, NeedsWaiter
      <3> QED BY <1>1, <1>2, <1>7, <2>2, <3>1, <3>2, <3>3, <3>4, <3>5, ActorAgrees
    <2>12. ASSUME NEW q \in Cprocs \ {child, p}
           PROVE  SameState(q) /\ SamePlace(q)
      <3>1. q \in Stacks /\ stack'[q] = stack[q] /\ (OnChain(q)' <=> OnChain(q)) /\ Stays(q)
        BY <2>2, <2>7, StackIs, StaysLinked
      <3>2. SameState(q)
        BY <1>1, <2>3, <2>5, <3>1 DEF SameState
      <3>3. \A r \in Stacks : q \in Range(stack'[r].hand) => r \notin {child, p}
        BY <2>2, <2>4, NoCprocs
      <3> QED BY <2>2, <3>1, <3>2, <3>3 DEF SamePlace, Stays
    <2>13. /\ HandAgrees(child)' /\ StackAgrees(child)'
           /\ HandAgrees(p)' /\ StackAgrees(p)'
      <3>1. HandAgrees(child)'
        BY <2>2, NoCprocs DEF HandAgrees
      <3>2. /\ "none" \in CallsAt("user") /\ ~lock'[child]
            /\ "wake" \in CallsAt("ready") /\ ~lock'[p]
        BY <1>1, <1>2, <1>4 DEF CallsAt, InBlock, NeedsWaiter, StackAgrees, Leavings
      <3>3. StackAgrees(child)'
        BY <1>3, <2>2, <3>2 DEF StackAgrees, Leavings
      <3>4. HandAgrees(p)'
        BY <1>3, <2>2, <2>4 DEF HandAgrees, Handing
      <3>5. StackAgrees(p)'
        BY <1>2, <2>2, <3>2 DEF StackAgrees, Leavings
      <3> QED BY <3>1, <3>3, <3>4, <3>5
    <2>14. WaitersAgree'
      <3>1. \A s \in Stacks : stack'[s].waiter = stack[s].waiter
        BY <1>2, <1>4, <2>2
      <3>2. \A s \in Stacks : stack'[s].pc \notin NeedsWaiter => stack'[s].waiter = None
        BY <1>3, <2>2 DEF WaitersAgree
      <3>3. \A v \in Waiters : v \in Stacks /\ stack'[v] = stack[v]
        BY <1>2, <1>3, <2>2, StackIs
      <3> QED BY <1>1, <1>3, <2>3, <3>1, <3>2, <3>3 DEF WaitersAgree
    <2> DEFINE S == {child, p}
    <2>15. /\ \A r \in Stacks \ S : stack'[r] = stack[r] /\ lock'[r] = lock[r] /\ (Running(r)' <=> Running(r))
           /\ \A q \in Cprocs \ S : SameState(q) /\ SamePlace(q)
           /\ \A q \in Cprocs \cap S : Agrees(q)'
           /\ \A r \in Stacks \cap S : HandAgrees(r)' /\ StackAgrees(r)'
      BY <1>1, <2>2, <2>3, <2>10, <2>11, <2>12, <2>13
    <2>16. OneThreadPerStack'
      BY <1>7 DEF PlaceInv, OneThreadPerStack
    <2> HIDE DEF S
    <2> QED BY <2>9, <2>14, <2>15, <2>16, Keeps
  <1> QED BY <1>6, <1>7 DEF Create

LEMMA WirePlaces ==
    ASSUME MutexInv, PlaceTypes, PlaceInv, NEW k \in KernelThreads, NEW p \in Cprocs, Wire(k, p)
    PROVE  PlaceInv'
  <1>1. /\ At(k, p, "user") /\ wired' = [wired EXCEPT ![p] = ~@] /\ messages' = [messages EXCEPT ![p] = 0]
        /\ UNCHANGED <<on, stack, lock, state, ready, mutex, condition, waiters>>
    BY DEF Wire
  <1>2. /\ p \in Stacks /\ p \notin Waiters /\ stack[p].pc = "user" /\ Running(p)
        /\ ~Suspending(p) /\ ~Trying(p) /\ ~OnChain(p) /\ Apart /\ HandAgrees(p) /\ StackAgrees(p)
    BY <1>1, AtUser
  <1>3. /\ messages'[p] = 0
        /\ \A q \in Cprocs \ {p} : wired'[q] = wired[q] /\ messages'[q] = messages[q]
    BY <1>1 DEF PlaceTypes
  <1>4. Apart' /\ (\A q : OnChain(q)' <=> OnChain(q)) /\ (\A q : Running(q)' <=> Running(q))
    BY <1>1, <1>2 DEF Apart, OnChain, Running
  <1>5. \A q \in Cprocs : q /= p => SameState(q) /\ SamePlace(q)
    BY <1>1, <1>3, <1>4 DEF SameState, SamePlace
  <1>6. Agrees(p)'
    <2>1. ~Trying(p)' /\ ~Suspending(p)' /\ ~OnChain(p)' /\ Running(p)'
      BY <1>1, <1>2, <1>4 DEF Trying, Suspending
    <2> QED BY <1>1, <1>2, <1>3, <2>1, Unlinked DEF Agrees, CprocAgrees, InBlock, NeedsWaiter
  <1>7. HandAgrees(p)' /\ StackAgrees(p)' /\ WaitersAgree'
    BY <1>1, <1>2, <1>4 DEF HandAgrees, StackAgrees, WaitersAgree, PlaceInv
  <1> DEFINE S == {}
  <1>8. /\ \A q \in Cprocs : q \notin S /\ q /= p => SameState(q) /\ SamePlace(q)
        /\ \A q \in Cprocs : q \in S \/ q = p => Agrees(q)'
        /\ \A r \in Stacks \ {p} : stack'[r] = stack[r] /\ lock'[r] = lock[r]
    BY <1>1, <1>5, <1>6
  <1> HIDE DEF S
  <1> QED BY <1>1, <1>2, <1>4, <1>7, <1>8, StepKeeps

-----------------------------------------------------------------------------
(* Every step.                                                             *)

LEMMA InHand ==
    ASSUME MutexInv, PlaceInv, NEW s \in Stacks, stack[s].pc \in {"switch", "leaving"}
    PROVE  Head(stack[s].hand) \in Stacks
  <1>1. stack[s].hand \in Seq(Cprocs) /\ Len(stack[s].hand) = 1
    BY MutexFields DEF PlaceInv, StacksAgree, HandAgrees
  <1>2. stack[s].hand /= <<>>
    BY <1>1, OneLong
  <1> QED BY <1>1, <1>2, StackIs

LEMMA CprocTypes ==
    ASSUME MutexInv, PlaceTypes, PlaceInv, NEW k \in KernelThreads, NEW p \in Cprocs, CprocStep(k, p)
    PROVE  PlaceTypes'
  <1>1. p \in Stacks
    BY StackIs
  <1>2. CASE SolidQueue(k, p)
    BY <1>1, <1>2 DEF SolidQueue, PlaceTypes, wiring
  <1>3. CASE SolidTry(k, p)
    BY <1>1, <1>3 DEF SolidTry, PlaceTypes, wiring, StartBlock
  <1>4. CASE Retry(k, p)
    BY <1>1, <1>4 DEF Retry, PlaceTypes, wiring
  <1>5. CASE LookForWaiters(k, p)
    BY <1>1, <1>5 DEF LookForWaiters, PlaceTypes, wiring
  <1>6. CASE UnlockSolid(k, p)
    BY <1>1, <1>6 DEF UnlockSolid, PlaceTypes, wiring
  <1>7. CASE UnlockDequeue(k, p)
    BY <1>1, <1>7 DEF UnlockDequeue, PlaceTypes, wiring
  <1>8. CASE WaitUnlock(k, p)
    BY <1>1, <1>8 DEF WaitUnlock, PlaceTypes, wiring
  <1>9. CASE WaitBlock(k, p)
    BY <1>1, <1>9 DEF WaitBlock, PlaceTypes, wiring, StartBlock
  <1>10. CASE Ready(k, p)
    BY <1>1, <1>10 DEF Ready, PlaceTypes, wiring
  <1>11. CASE Enqueue(k, p)
    BY <1>1, <1>11 DEF Enqueue, PlaceTypes, wiring
  <1>12. CASE Send(k, p)
    BY <1>1, <1>12 DEF Send, PlaceTypes, wiring
  <1>13. CASE ReceiveWired(k, p)
    BY <1>1, <1>13 DEF ReceiveWired, PlaceTypes, wiring
  <1>14. CASE DequeueReady(k, p)
    BY <1>1, <1>14 DEF DequeueReady, PlaceTypes, wiring
  <1>15. CASE BlockSwitch(k, p)
    BY <1>1, <1>15 DEF BlockSwitch, PlaceTypes, wiring, KeepOrBlock
  <1>16. CASE Switch(k, p)
    <2>1. Head(stack[p].hand) \in Stacks
      BY <1>1, <1>16, InHand DEF Switch, At
    <2> QED BY <1>1, <1>16, <2>1 DEF Switch, SwitchStacks, PlaceTypes, wiring
  <1>17. CASE GetWaiter(k, p)
    BY <1>1, <1>17 DEF GetWaiter, PlaceTypes, wiring
  <1>18. CASE BlockIdle(k, p)
    BY <1>1, <1>18 DEF BlockIdle, PlaceTypes, wiring, KeepOrBlock
  <1>19. CASE StartWait(k, p)
    <2>1. stack[p].waiter \in Stacks
      BY <1>1, <1>19, Knows, StackIs DEF StartWait, At, NeedsWaiter
    <2> QED BY <1>1, <1>19, <2>1 DEF StartWait, SwitchStacks, PlaceTypes, wiring
  <1>20. CASE Unwait(k, p)
    BY <1>1, <1>20 DEF Unwait, PlaceTypes, wiring
  <1>21. CASE Unwaiter(k, p)
    BY <1>1, <1>21 DEF Unwaiter, PlaceTypes, wiring
  <1> QED BY <1>2, <1>3, <1>4, <1>5, <1>6, <1>7, <1>8, <1>9, <1>10, <1>11, <1>12, <1>13, <1>14, <1>15, <1>16, <1>17, <1>18, <1>19, <1>20, <1>21 DEF CprocStep

LEMMA UserTypes ==
    ASSUME PlaceTypes, NEW k \in KernelThreads, NEW p \in Cprocs, UserCall(k, p)
    PROVE  PlaceTypes'
  <1>1. p \in Stacks
    BY StackIs
  <1>2. CASE \E m \in Mutexes : MutexLock(k, p, m) \/ MutexUnlock(k, p, m)
    BY <1>2 DEF MutexLock, MutexUnlock, PlaceTypes, wiring
  <1>3. CASE \E c \in Conditions, m \in Mutexes : ConditionWait(k, p, c, m)
    BY <1>3 DEF ConditionWait, PlaceTypes, wiring
  <1>4. CASE \E c \in Conditions : Wake(k, p, c)
    BY <1>4 DEF Wake, PlaceTypes, wiring
  <1>5. CASE Yield(k, p)
    BY <1>1, <1>5 DEF Yield, PlaceTypes, wiring
  <1>6. ASSUME NEW child \in Cprocs, Create(k, p, child)
        PROVE  PlaceTypes'
    <2>1. UNCHANGED <<lock, wired, messages>>
      BY <1>6 DEF Create, wiring
    <2>2. \/ state' = state /\ \E j \in KernelThreads : on' = [on EXCEPT ![j] = child]
          \/ state' = [state EXCEPT ![child] = {"BLOCKED"}] /\ on' = on
      BY <1>6 DEF Create
    <2>3. child \in Stacks
      BY StackIs
    <2>4. CASE state' = state /\ \E j \in KernelThreads : on' = [on EXCEPT ![j] = child]
      BY <2>1, <2>3, <2>4 DEF PlaceTypes
    <2>5. CASE state' = [state EXCEPT ![child] = {"BLOCKED"}] /\ on' = on
      BY <2>1, <2>5 DEF PlaceTypes
    <2> QED BY <2>2, <2>4, <2>5
  <1>7. CASE Wire(k, p)
    BY <1>7 DEF Wire, PlaceTypes
  <1> QED BY <1>2, <1>3, <1>4, <1>5, <1>6, <1>7 DEF UserCall

LEMMA WaiterTypes ==
    ASSUME MutexInv, PlaceTypes, PlaceInv, NEW k \in KernelThreads, NEW w \in Waiters, WaiterStep(k, w)
    PROVE  PlaceTypes'
  <1>1. w \in Stacks
    BY StackIs
  <1>2. CASE Receive(k, w)
    BY <1>2 DEF Receive, PlaceTypes, wiring
  <1>3. CASE Woken(k, w)
    BY <1>3 DEF Woken, PlaceTypes, wiring
  <1>4. CASE Resume(k, w)
    BY <1>4 DEF Resume, PlaceTypes, wiring
  <1>5. CASE Leave(k, w)
    BY <1>1, <1>5 DEF Leave, PlaceTypes, wiring
  <1>6. CASE Leaving(k, w)
    <2>1. Head(stack[w].hand) \in Stacks
      BY <1>1, <1>6, InHand DEF Leaving, At
    <2> QED BY <1>1, <1>6, <2>1 DEF Leaving, SwitchStacks, PlaceTypes, wiring
  <1> QED BY <1>2, <1>3, <1>4, <1>5, <1>6 DEF WaiterStep

LEMMA CprocPlaces ==
    ASSUME MutexInv, PlaceTypes, PlaceInv, NEW k \in KernelThreads, NEW p \in Cprocs, CprocStep(k, p)
    PROVE  PlaceInv'
  <1>1. SolidQueue(k, p) => PlaceInv'
    BY SolidQueuePlaces
  <1>2. SolidTry(k, p) => PlaceInv'
    BY SolidTryPlaces
  <1>3. Retry(k, p) => PlaceInv'
    BY RetryPlaces
  <1>4. LookForWaiters(k, p) => PlaceInv'
    BY LookForWaitersPlaces
  <1>5. UnlockSolid(k, p) => PlaceInv'
    BY UnlockSolidPlaces
  <1>6. UnlockDequeue(k, p) => PlaceInv'
    BY UnlockDequeuePlaces
  <1>7. WaitUnlock(k, p) => PlaceInv'
    BY WaitUnlockPlaces
  <1>8. WaitBlock(k, p) => PlaceInv'
    BY WaitBlockPlaces
  <1>9. Ready(k, p) => PlaceInv'
    BY ReadyPlaces
  <1>10. Enqueue(k, p) => PlaceInv'
    BY EnqueuePlaces
  <1>11. Send(k, p) => PlaceInv'
    BY SendPlaces
  <1>12. ReceiveWired(k, p) => PlaceInv'
    BY ReceiveWiredPlaces
  <1>13. DequeueReady(k, p) => PlaceInv'
    BY DequeueReadyPlaces
  <1>14. BlockSwitch(k, p) => PlaceInv'
    BY BlockSwitchPlaces
  <1>15. Switch(k, p) => PlaceInv'
    BY SwitchPlaces
  <1>16. GetWaiter(k, p) => PlaceInv'
    BY GetWaiterPlaces
  <1>17. BlockIdle(k, p) => PlaceInv'
    BY BlockIdlePlaces
  <1>18. StartWait(k, p) => PlaceInv'
    BY StartWaitPlaces
  <1>19. Unwait(k, p) => PlaceInv'
    BY UnwaitPlaces
  <1>20. Unwaiter(k, p) => PlaceInv'
    BY UnwaiterPlaces
  <1> QED BY <1>1, <1>2, <1>3, <1>4, <1>5, <1>6, <1>7, <1>8, <1>9, <1>10, <1>11, <1>12, <1>13, <1>14, <1>15, <1>16, <1>17, <1>18, <1>19, <1>20 DEF CprocStep

LEMMA UserPlaces ==
    ASSUME MutexInv, PlaceTypes, PlaceInv, NEW k \in KernelThreads, NEW p \in Cprocs, UserCall(k, p)
    PROVE  PlaceInv'
  <1>1. \A m \in Mutexes : MutexLock(k, p, m) \/ MutexUnlock(k, p, m) => PlaceInv'
    BY MutexLockPlaces, MutexUnlockPlaces
  <1>2. \A c \in Conditions, m \in Mutexes : ConditionWait(k, p, c, m) => PlaceInv'
    BY ConditionWaitPlaces
  <1>3. \A c \in Conditions : Wake(k, p, c) => PlaceInv'
    BY WakePlaces
  <1>4. Yield(k, p) \/ Wire(k, p) => PlaceInv'
    BY YieldPlaces, WirePlaces
  <1>5. \A child \in Cprocs : Create(k, p, child) => PlaceInv'
    BY CreatePlaces
  <1> QED BY <1>1, <1>2, <1>3, <1>4, <1>5 DEF UserCall

LEMMA WaiterPlaces ==
    ASSUME MutexInv, PlaceTypes, PlaceInv, NEW k \in KernelThreads, NEW w \in Waiters, WaiterStep(k, w)
    PROVE  PlaceInv'
  <1>1. Receive(k, w) => PlaceInv'
    BY ReceivePlaces
  <1>2. Woken(k, w) => PlaceInv'
    BY WokenPlaces
  <1>3. Resume(k, w) => PlaceInv'
    BY ResumePlaces
  <1>4. Leave(k, w) => PlaceInv'
    BY LeavePlaces
  <1>5. Leaving(k, w) => PlaceInv'
    BY LeavingPlaces
  <1> QED BY <1>1, <1>2, <1>3, <1>4, <1>5 DEF WaiterStep

Places == PlaceTypes /\ PlaceInv

LEMMA PlaceStep ==
    ASSUME MutexInv, Places, [Next]_vars
    PROVE  Places'
  <1>1. CASE UNCHANGED vars
    <2>1. PlaceTypes'
      BY <1>1 DEF Places, PlaceTypes, vars, wiring
    <2>2. UNCHANGED <<on, stack, lock, state, wired, messages, ready, mutex, condition, waiters>>
      BY <1>1 DEF vars, wiring
    <2>3. Apart' /\ \A q : OnChain(q)' <=> OnChain(q)
      BY <2>2, PlacesApart DEF Apart, OnChain, Places
    <2>4. \A q : Running(q)' <=> Running(q)
      BY <2>2 DEF Running
    <2>5. \A q \in Cprocs : SameState(q) /\ SamePlace(q)
      BY <2>2, <2>3, <2>4 DEF SameState, SamePlace
    <2>6. OneThreadPerStack' /\ WaitersAgree'
      BY <2>2, <2>4 DEF Places, PlaceInv, OneThreadPerStack, WaitersAgree
    <2> DEFINE S == {}
    <2>7. /\ \A r \in Stacks \ S : stack'[r] = stack[r] /\ lock'[r] = lock[r] /\ (Running(r)' <=> Running(r))
          /\ \A q \in Cprocs \ S : SameState(q) /\ SamePlace(q)
          /\ \A q \in Cprocs \cap S : Agrees(q)'
          /\ \A r \in Stacks \cap S : HandAgrees(r)' /\ StackAgrees(r)'
      BY <2>2, <2>4, <2>5
    <2> HIDE DEF S
    <2>8. PlaceInv
      BY DEF Places
    <2>9. PlaceInv'
      BY <2>3, <2>6, <2>7, <2>8, Keeps
    <2> QED BY <2>1, <2>9 DEF Places
  <1>2. CASE Next
    <2>1. PICK k \in KernelThreads : Step(k) \/ \E p \in Cprocs : UserCall(k, p)
      BY <1>2 DEF Next
    <2>2. ASSUME NEW p \in Cprocs, CprocStep(k, p)
          PROVE  Places'
      BY <2>2, CprocTypes, CprocPlaces DEF Places
    <2>3. ASSUME NEW w \in Waiters, WaiterStep(k, w)
          PROVE  Places'
      BY <2>3, WaiterTypes, WaiterPlaces DEF Places
    <2>4. ASSUME NEW p \in Cprocs, UserCall(k, p)
          PROVE  Places'
      BY <2>4, UserTypes, UserPlaces DEF Places
    <2> QED BY <2>1, <2>2, <2>3, <2>4 DEF Step
  <1> QED BY <1>1, <1>2

LEMMA PlaceInit == Init => Places
  <1> SUFFICES ASSUME Init PROVE Places
    OBVIOUS
  <1>1. /\ \A s \in Stacks : /\ stack[s].pc = IF s = Main THEN "user" ELSE "none"
                             /\ stack[s].call = "none" /\ stack[s].hand = <<>> /\ stack[s].waiter = None
                             /\ stack[s].mutex = None /\ stack[s].queued = FALSE /\ lock[s] = FALSE
        /\ \A p \in Cprocs : state[p] = {} /\ wired[p] = FALSE /\ messages[p] = 0
        /\ ready = <<>> /\ waiters = <<>>
        /\ \A m \in Mutexes : mutex[m].queue = <<>>
        /\ \A c \in Conditions : condition[c] = <<>>
    BY DEF Init, NewStack
  <1>2. Main \in Cprocs /\ Main \in Stacks /\ Main \notin Waiters /\ None \notin Stacks
    BY CThreadsAssumption, StackIs
  <1>3. PICK k0 \in KernelThreads : on = [k \in KernelThreads |-> IF k = k0 THEN Main ELSE None]
    BY DEF Init
  <1>4. \A s \in Stacks : Running(s) <=> s = Main
    BY <1>2, <1>3 DEF Running
  <1>5. PlaceTypes
    BY <1>2, <1>3 DEF Init, PlaceTypes
  <1>6. OneThreadPerStack
    BY <1>2, <1>3 DEF OneThreadPerStack
  <1>7. Apart /\ \A q \in Cprocs : ~OnChain(q)
    BY <1>1, NoCprocs DEF Apart, OnChain
  <1>8. OneLink /\ \A q \in Cprocs : ~Linked(q)
    BY <1>7, ChainsAreApart DEF ChainsApart
  <1>9. ASSUME NEW q \in Cprocs
        PROVE  CprocAgrees(q) /\ LinkAgrees(q)
    <2>1. q \in Stacks /\ ~Trying(q) /\ ~Suspending(q) /\ stack[q].pc \in {"user", "none"}
      BY <1>1, StackIs DEF Trying, Suspending, InBlock
    <2>2. CprocAgrees(q)
      BY <1>1, <1>4, <1>8, <2>1 DEF CprocAgrees, InBlock, NeedsWaiter
    <2>3. LinkAgrees(q)
      BY <1>7 DEF LinkAgrees, OnChain
    <2> QED BY <2>2, <2>3
  <1>10. ASSUME NEW s \in Stacks
         PROVE  HandAgrees(s) /\ StackAgrees(s)
    <2>1. HandAgrees(s)
      BY <1>1, NoCprocs DEF HandAgrees
    <2>2. stack[s].call \in CallsAt(stack[s].pc)
      BY <1>1 DEF CallsAt, InBlock, NeedsWaiter
    <2> QED BY <1>1, <1>2, <2>1, <2>2 DEF StackAgrees, Leavings
  <1>11. WaitersAgree
    <2>1. \A w \in Waiters : w \in Stacks /\ w /= None /\ w /= Main
      BY <1>2, StackIs
    <2> QED BY <1>1, <1>4, <2>1, NoCprocs DEF WaitersAgree
  <1> QED BY <1>5, <1>6, <1>8, <1>9, <1>10, <1>11 DEF Places, PlaceInv, CprocsAgree, StacksAgree

(* Where cprocs and waiting stacks are, in every reachable state: the      *)
(* chains are disjoint, and every cproc that is linked has been switched   *)
(* from, or holds its lock until it has been, or has not yet decided in    *)
(* cproc_block whether to block.                                           *)
THEOREM PlaceInvariant == Spec => [](PlaceTypes /\ PlaceInv)
  <1>1. Init => Places
    BY PlaceInit
  <1>2. MutexInv /\ Places /\ [Next]_vars => Places'
    BY PlaceStep
  <1>3. Spec => []Places
    BY <1>1, <1>2, MutexInvariant, PTL DEF Spec
  <1>4. Places => PlaceTypes /\ PlaceInv
    BY DEF Places
  <1> QED BY <1>3, <1>4, PTL

(* No two kernel threads execute the same stack: a cproc is queued before  *)
(* it is switched from, and whoever takes it off the queue waits for its   *)
(* lock, which cproc_switch and cproc_start_wait release once the stack    *)
(* has been left.                                                          *)
THEOREM OneThreadOnAStack == Spec => []OneThreadPerStack
  <1>1. PlaceTypes /\ PlaceInv => OneThreadPerStack
    BY DEF PlaceInv
  <1> QED BY <1>1, PlaceInvariant, PTL

LEMMA LinksAre ==
    ASSUME MutexInv, PlaceInv, NEW p \in Cprocs
    PROVE  /\ IsFiniteSet(Links(p)) /\ Cardinality(Links(p)) <= 1
           /\ Cardinality(Links(p)) = 0 <=> ~Linked(p)
  <1>1. ASSUME ~Linked(p)
        PROVE  Links(p) = {}
    BY <1>1 DEF Links, Linked, In, Range
  <1>2. ASSUME Linked(p)
        PROVE  \E z : Links(p) = {z}
    <2>1. PICK x \in Chains : In(x, p)
      BY <1>2 DEF Linked
    <2>2. PICK i \in DOMAIN Chain(x) : Chain(x)[i] = p
      BY <2>1 DEF In, Range
    <2>3. \A y \in Chains : \A j \in DOMAIN Chain(y) : Chain(y)[j] = p => y = x /\ j = i
      <3>1. ASSUME NEW y \in Chains, NEW j \in DOMAIN Chain(y), Chain(y)[j] = p
            PROVE  y = x /\ j = i
        <4>1. In(y, p)
          BY <3>1 DEF In, Range
        <4>2. y = x /\ IsInjective(Chain(x))
          BY <2>1, <4>1 DEF PlaceInv, OneLink
        <4> QED BY <2>2, <3>1, <4>2 DEF IsInjective
      <3> QED BY <3>1
    <2>4. Links(p) = {<<x, i>>}
      BY <2>2, <2>3 DEF Links
    <2> QED BY <2>4
  <1>3. CASE Linked(p)
    <2>1. PICK z : Links(p) = {z}
      BY <1>2, <1>3
    <2>2. IsFiniteSet({z}) /\ Cardinality({z}) = 1
      BY FS_Singleton
    <2> QED BY <1>3, <2>1, <2>2
  <1>4. CASE ~Linked(p)
    BY <1>1, <1>4, FS_EmptySet
  <1> QED BY <1>3, <1>4

(* A cproc is linked once, as it has one link, nowhere while it runs its   *)
(* own code, and once unless it runs: nobody is left behind by the races   *)
(* between cproc_block, which queues itself or not, and cproc_ready, which *)
(* may come before the stack has been left.                                *)
THEOREM CprocsInOnePlace == Spec => []EachCprocInOnePlace
  <1>1. MutexInv /\ PlaceTypes /\ PlaceInv => EachCprocInOnePlace
    <2> SUFFICES ASSUME MutexInv, PlaceInv, NEW p \in Cprocs
                 PROVE  /\ Cardinality(Links(p)) <= 1
                        /\ Running(p) /\ stack[p].pc = "user" => Cardinality(Links(p)) = 0
                        /\ stack[p].pc /= "none" /\ ~Running(p) => Cardinality(Links(p)) = 1
      BY DEF EachCprocInOnePlace
    <2>1. /\ Cardinality(Links(p)) \in Nat /\ Cardinality(Links(p)) <= 1
          /\ Cardinality(Links(p)) = 0 <=> ~Linked(p)
      BY LinksAre, FS_CardinalityType
    <2>2. Running(p) /\ stack[p].pc = "user" => ~Linked(p)
      <3>1. ASSUME Running(p), stack[p].pc = "user"
            PROVE  ~Linked(p)
        <4>1. p \in Stacks /\ StackAgrees(p)
          BY StackIs DEF PlaceInv, StacksAgree
        <4>2. ~Trying(p) /\ ~Suspending(p)
          BY <3>1, <4>1 DEF Trying, Suspending, InBlock, StackAgrees, CallsAt, NeedsWaiter
        <4> QED BY <3>1, <4>2, Unsuspended
      <3> QED BY <3>1
    <2>3. stack[p].pc /= "none" /\ ~Running(p) => Linked(p)
      BY DEF PlaceInv, CprocsAgree, CprocAgrees
    <2> QED BY <2>1, <2>2, <2>3
  <1> QED BY <1>1, MutexInvariant, PlaceInvariant, PTL

=============================================================================
