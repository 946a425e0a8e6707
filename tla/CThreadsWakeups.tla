-------------------------- MODULE CThreadsWakeups ---------------------------
(***************************************************************************)
(* Proofs about CThreads, continued: the counts are exact, a free mutex    *)
(* with waiters has somebody who will wake them, and no cproc is left ready*)
(* when all kernel threads wait, for any sets of cprocs, kernel threads,   *)
(* mutexes and conditions.                                                 *)
(***************************************************************************)
EXTENDS CThreadsProofs

-----------------------------------------------------------------------------
(* How the code of a stack goes on, step by step.                          *)

\* Stack s goes on at l, within the call b, with the mutex m.
Walks(s, l, b, m) ==
    /\ stack'[s].pc = l /\ stack'[s].call = b /\ stack'[s].mutex = m
    /\ \A r \in Stacks \ {s} : stack'[r] = stack[r]

LEMMA BecomesWalks ==
    ASSUME NEW s, NEW l, NEW b, NEW m, NEW q, NEW w, NEW h, Becomes(s, l, b, m, q, w, h)
    PROVE  Walks(s, l, b, m)
  BY DEF Becomes, Walks

\* A stack that is executed, at l.
Stands(k, s, l) ==
    /\ s \in Stacks /\ Running(s) /\ on[k] = s /\ stack[s].pc = l /\ stack[s].call \in CallsAt(l)
    /\ NeedsMutex(l, stack[s].call) => stack[s].mutex \in Mutexes

LEMMA Standing ==
    ASSUME MutexInv, PlaceInv, NEW k \in KernelThreads, NEW s \in Stacks, NEW l, At(k, s, l)
    PROVE  Stands(k, s, l)
  BY Here DEF Stands

\* p goes back to the caller of cproc_ready, or to its loop.
Back(p) ==
    LET l == AfterReady(stack[p].call) IN
    Walks(p, l, "none", IF l = "user" THEN None ELSE stack[p].mutex)

Onward(p) == Back(p) \/ Walks(p, "ready", stack[p].call, stack[p].mutex)

LEMMA ReadiedWalks ==
    ASSUME MutexInv, NEW p \in Stacks, NEW rest, Readied(p, rest)
    PROVE  Onward(p)
  <1>1. CASE rest = <<>>
    <2>1. PICK l, m : l = AfterReady(stack[p].call) /\ m = (IF l = "user" THEN None ELSE stack[p].mutex)
      OBVIOUS
    <2>2. Becomes(p, l, "none", m, FALSE, None, <<>>)
      BY <1>1, <2>1, ReadiedBecomes
    <2> QED BY <2>1, <2>2, BecomesWalks DEF Onward, Back
  <1>2. CASE rest /= <<>>
    BY <1>2, ReadiedBecomes, BecomesWalks DEF Onward
  <1> QED BY <1>1, <1>2

\* Where p goes back to.
LEMMA BackWalks ==
    ASSUME NEW p, Back(p), stack[p].call \in Calls
    PROVE  \/ stack[p].call \in {"unlock", "wake"} /\ Walks(p, "user", "none", None)
           \/ stack[p].call \in {"none", "yield"} /\ Walks(p, "user", "none", None)
           \/ stack[p].call = "wait" /\ Walks(p, "wait_block", "none", stack[p].mutex)
           \/ stack[p].call = "block" /\ Walks(p, "retry", "none", stack[p].mutex)
  BY DEF Back, AfterReady, Calls

LEMMA MutexLockWalks ==
    ASSUME MutexInv, PlaceInv, NEW k \in KernelThreads, NEW p \in Cprocs, NEW m \in Mutexes, MutexLock(k, p, m)
    PROVE  /\ Stands(k, p, "user")
           /\ \/ /\ mutex[m].held /\ UNCHANGED <<mutex, holder>>
                 /\ Walks(p, "solid", stack[p].call, m)
              \/ /\ ~mutex[m].held /\ mutex' = [mutex EXCEPT ![m].held = TRUE]
                 /\ holder' = [holder EXCEPT ![m] = p] /\ Walks(p, "user", "none", None)
  <1>1. Stands(k, p, "user") /\ p \in Stacks
    BY Standing, StackIs DEF MutexLock
  <1>2. CASE mutex[m].held
    <2>1. stack' = [stack EXCEPT ![p].pc = "solid", ![p].mutex = m] /\ UNCHANGED <<mutex, holder>>
      BY <1>2 DEF MutexLock
    <2> QED BY <1>1, <1>2, <2>1, MutexBecomes, BecomesWalks
  <1>3. CASE ~mutex[m].held
    <2>1. /\ Return(p, "user") /\ mutex' = [mutex EXCEPT ![m].held = TRUE]
          /\ holder' = [holder EXCEPT ![m] = p]
      BY <1>3 DEF MutexLock, Take
    <2> QED BY <1>1, <1>3, <2>1, ReturnBecomes, BecomesWalks
  <1> QED BY <1>2, <1>3

LEMMA ReleaseWalks ==
    ASSUME MutexInv, NEW s \in Stacks, NEW m, NEW b, Release(s, m, b)
    PROVE  /\ mutex' = [mutex EXCEPT ![m].held = FALSE] /\ holder' = [holder EXCEPT ![m] = None]
           /\ Walks(s, "unlock", b, m)
  BY ReleaseBecomes, BecomesWalks DEF Release

LEMMA RetryWalks ==
    ASSUME MutexInv, PlaceInv, NEW k \in KernelThreads, NEW p \in Cprocs, Retry(k, p)
    PROVE  LET m == stack[p].mutex IN
           /\ Stands(k, p, "retry")
           /\ \/ /\ UNCHANGED <<mutex, holder>> /\ Walks(p, "solid", stack[p].call, m)
              \/ /\ ~mutex[m].held /\ mutex' = [mutex EXCEPT ![m].held = TRUE]
                 /\ holder' = [holder EXCEPT ![m] = p] /\ Walks(p, "user", "none", None)
  <1>1. Stands(k, p, "retry") /\ p \in Stacks
    BY Standing, StackIs DEF Retry
  <1>2. PICK m : m = stack[p].mutex
    OBVIOUS
  <1>3. CASE mutex[m].held
    <2>1. Goto(p, "solid") /\ UNCHANGED <<mutex, holder>>
      BY <1>2, <1>3 DEF Retry
    <2> QED BY <1>1, <1>2, <2>1, GotoBecomes, BecomesWalks
  <1>4. CASE ~mutex[m].held
    <2>1. /\ Return(p, "user") /\ mutex' = [mutex EXCEPT ![m].held = TRUE]
          /\ holder' = [holder EXCEPT ![m] = p]
      BY <1>2, <1>4 DEF Retry, Take
    <2> QED BY <1>1, <1>2, <1>4, <2>1, ReturnBecomes, BecomesWalks
  <1> QED BY <1>3, <1>4

LEMMA SolidQueueWalks ==
    ASSUME MutexInv, PlaceInv, NEW k \in KernelThreads, NEW p \in Cprocs, SolidQueue(k, p)
    PROVE  LET m == stack[p].mutex
               first == mutex[m].queue = <<>> IN
           /\ Stands(k, p, "solid") /\ Walks(p, "try", stack[p].call, m)
           /\ mutex' = [mutex EXCEPT ![m].lock = TRUE, ![m].queue = IF first THEN <<p>> ELSE @]
           /\ UNCHANGED holder
  <1>1. Stands(k, p, "solid") /\ p \in Stacks
    BY Standing, StackIs DEF SolidQueue
  <1>2. PICK q : stack' = [stack EXCEPT ![p].pc = "try", ![p].queued = q]
    BY DEF SolidQueue
  <1>3. Walks(p, "try", stack[p].call, stack[p].mutex)
    BY <1>1, <1>2, QueuedBecomes, BecomesWalks
  <1> QED BY <1>1, <1>3 DEF SolidQueue

LEMMA SolidTryWalks ==
    ASSUME MutexInv, PlaceInv, NEW k \in KernelThreads, NEW p \in Cprocs, SolidTry(k, p)
    PROVE  LET m == stack[p].mutex IN
           /\ Stands(k, p, "try")
           /\ \/ /\ mutex[m].held /\ UNCHANGED holder
                 /\ mutex' = [mutex EXCEPT ![m].lock = FALSE,
                                           ![m].queue = IF stack[p].queued THEN @ ELSE Append(@, p)]
                 /\ Walks(p, IF wired[p] THEN "wired" ELSE "block", "block", m)
              \/ /\ ~mutex[m].held
                 /\ mutex' = [mutex EXCEPT ![m].lock = FALSE, ![m].held = TRUE,
                                           ![m].queue = IF stack[p].queued THEN Tail(@) ELSE @]
                 /\ holder' = [holder EXCEPT ![m] = p] /\ Walks(p, "user", "none", None)
  <1>1. Stands(k, p, "try") /\ p \in Stacks
    BY Standing, StackIs DEF SolidTry
  <1>2. PICK m : m = stack[p].mutex
    OBVIOUS
  <1>3. CASE mutex[m].held
    <2>1. /\ StartBlock(p) /\ UNCHANGED holder
          /\ mutex' = [mutex EXCEPT ![m].lock = FALSE,
                                    ![m].queue = IF stack[p].queued THEN @ ELSE Append(@, p)]
      BY <1>2, <1>3 DEF SolidTry
    <2> QED BY <1>1, <1>2, <1>3, <2>1, BlockBecomes, BecomesWalks
  <1>4. CASE ~mutex[m].held
    <2>1. /\ Return(p, "user") /\ holder' = [holder EXCEPT ![m] = p]
          /\ mutex' = [mutex EXCEPT ![m].lock = FALSE, ![m].held = TRUE,
                                    ![m].queue = IF stack[p].queued THEN Tail(@) ELSE @]
      BY <1>2, <1>4 DEF SolidTry, Take
    <2> QED BY <1>1, <1>2, <1>4, <2>1, ReturnBecomes, BecomesWalks
  <1> QED BY <1>3, <1>4

LEMMA UnlockedWalks ==
    ASSUME MutexInv, PlaceInv, NEW k \in KernelThreads, NEW p \in Cprocs, NEW l, At(k, p, l),
           l \in {"unlock", "unlock_solid", "unlock_deq"}, Return(p, AfterReady(stack[p].call))
    PROVE  \/ Walks(p, "user", "none", None)
           \/ stack[p].call = "wait" /\ Walks(p, "wait_block", "none", stack[p].mutex)
  <1>1. Stands(k, p, l) /\ p \in Stacks
    BY Standing, StackIs
  <1>2. stack[p].call \in {"unlock", "wait"}
    BY <1>1 DEF Stands, CallsAt, InBlock, NeedsWaiter
  <1>3. CASE stack[p].call = "unlock"
    <2>1. Return(p, "user")
      BY <1>3 DEF AfterReady
    <2> QED BY <1>1, <2>1, ReturnBecomes, BecomesWalks
  <1>4. CASE stack[p].call = "wait"
    <2>1. Return(p, "wait_block")
      BY <1>4 DEF AfterReady
    <2> QED BY <1>1, <1>4, <2>1, ReturnBecomes, BecomesWalks
  <1> QED BY <1>2, <1>3, <1>4

LEMMA LookForWaitersWalks ==
    ASSUME MutexInv, PlaceInv, NEW k \in KernelThreads, NEW p \in Cprocs, LookForWaiters(k, p)
    PROVE  LET m == stack[p].mutex IN
           /\ Stands(k, p, "unlock")
           /\ \/ /\ mutex[m].queue = <<>>
                 /\ \/ Walks(p, "user", "none", None)
                    \/ Walks(p, "wait_block", "none", m)
              \/ Walks(p, "unlock_solid", stack[p].call, m)
  <1>1. Stands(k, p, "unlock") /\ p \in Stacks /\ At(k, p, "unlock")
    BY Standing, StackIs DEF LookForWaiters
  <1>2. CASE Goto(p, "unlock_solid")
    BY <1>1, <1>2, GotoBecomes, BecomesWalks
  <1>3. CASE mutex[stack[p].mutex].queue = <<>> /\ Return(p, AfterReady(stack[p].call))
    BY <1>1, <1>3, UnlockedWalks
  <1> QED BY <1>1, <1>2, <1>3 DEF LookForWaiters

LEMMA UnlockSolidWalks ==
    ASSUME MutexInv, PlaceInv, NEW k \in KernelThreads, NEW p \in Cprocs, UnlockSolid(k, p)
    PROVE  LET m == stack[p].mutex IN
           /\ Stands(k, p, "unlock_solid") /\ mutex' = [mutex EXCEPT ![m].held = TRUE]
           /\ UNCHANGED holder
           /\ \/ /\ mutex[m].held
                 /\ \/ Walks(p, "user", "none", None)
                    \/ Walks(p, "wait_block", "none", m)
              \/ Walks(p, "unlock_deq", stack[p].call, m)
  <1>1. Stands(k, p, "unlock_solid") /\ p \in Stacks /\ At(k, p, "unlock_solid")
    BY Standing, StackIs DEF UnlockSolid
  <1>2. CASE Goto(p, "unlock_deq")
    BY <1>1, <1>2, GotoBecomes, BecomesWalks DEF UnlockSolid
  <1>3. CASE mutex[stack[p].mutex].held /\ Return(p, AfterReady(stack[p].call))
    BY <1>1, <1>3, UnlockedWalks DEF UnlockSolid
  <1> QED BY <1>1, <1>2, <1>3 DEF UnlockSolid

LEMMA UnlockDequeueWalks ==
    ASSUME MutexInv, PlaceInv, NEW k \in KernelThreads, NEW p \in Cprocs, UnlockDequeue(k, p)
    PROVE  LET m == stack[p].mutex
               q == mutex[m].queue IN
           /\ Stands(k, p, "unlock_deq") /\ UNCHANGED holder
           /\ mutex' = [mutex EXCEPT ![m].held = FALSE, ![m].queue = IF q = <<>> THEN q ELSE Tail(q)]
           /\ \/ /\ q = <<>>
                 /\ \/ Walks(p, "user", "none", None)
                    \/ Walks(p, "wait_block", "none", m)
              \/ q /= <<>> /\ Walks(p, "ready", stack[p].call, m)
  <1>1. Stands(k, p, "unlock_deq") /\ p \in Stacks /\ At(k, p, "unlock_deq")
    BY Standing, StackIs DEF UnlockDequeue
  <1>2. PICK m, q : m = stack[p].mutex /\ q = mutex[m].queue
    OBVIOUS
  <1>3. mutex' = [mutex EXCEPT ![m].held = FALSE, ![m].queue = IF q = <<>> THEN q ELSE Tail(q)]
        /\ UNCHANGED holder
    BY <1>2 DEF UnlockDequeue
  <1>4. CASE q = <<>>
    <2>1. Return(p, AfterReady(stack[p].call))
      BY <1>2, <1>4 DEF UnlockDequeue
    <2> QED BY <1>1, <1>2, <1>3, <1>4, <2>1, UnlockedWalks
  <1>5. CASE q /= <<>>
    <2>1. PICK h : h = <<Head(q)>>
      OBVIOUS
    <2>2. stack' = [stack EXCEPT ![p].pc = "ready", ![p].hand = h]
      BY <1>2, <1>5, <2>1 DEF UnlockDequeue
    <2> QED BY <1>1, <1>2, <1>3, <1>5, <2>2, HandBecomes, BecomesWalks
  <1> QED BY <1>4, <1>5

LEMMA ConditionWaitWalks ==
    ASSUME MutexInv, PlaceInv, NEW k \in KernelThreads, NEW p \in Cprocs,
           NEW c \in Conditions, NEW m \in Mutexes, ConditionWait(k, p, c, m)
    PROVE  /\ Stands(k, p, "user") /\ Walks(p, "wait_unlock", stack[p].call, m)
           /\ condition' = [condition EXCEPT ![c] = Append(@, p)]
  <1>1. Stands(k, p, "user") /\ p \in Stacks
    BY Standing, StackIs DEF ConditionWait
  <1>2. stack' = [stack EXCEPT ![p].pc = "wait_unlock", ![p].mutex = m]
    BY DEF ConditionWait
  <1>3. Walks(p, "wait_unlock", stack[p].call, m)
    BY <1>1, <1>2, MutexBecomes, BecomesWalks
  <1> QED BY <1>1, <1>3 DEF ConditionWait

LEMMA WaitBlockWalks ==
    ASSUME MutexInv, PlaceInv, NEW k \in KernelThreads, NEW p \in Cprocs, WaitBlock(k, p)
    PROVE  LET m == stack[p].mutex IN
           /\ Stands(k, p, "wait_block")
           /\ \/ Walks(p, "retry", "none", m)
              \/ Walks(p, IF wired[p] THEN "wired" ELSE "block", "block", m)
  <1>1. Stands(k, p, "wait_block") /\ p \in Stacks
    BY Standing, StackIs DEF WaitBlock
  <1>2. CASE Return(p, "retry")
    BY <1>1, <1>2, ReturnBecomes, BecomesWalks
  <1>3. CASE StartBlock(p)
    BY <1>1, <1>3, BlockBecomes, BecomesWalks
  <1> QED BY <1>2, <1>3 DEF WaitBlock

LEMMA WakeWalks ==
    ASSUME MutexInv, PlaceInv, NEW k \in KernelThreads, NEW p \in Cprocs,
           NEW c \in Conditions, Wake(k, p, c)
    PROVE  /\ Stands(k, p, "user") /\ Walks(p, "ready", "wake", stack[p].mutex)
           /\ \A d \in Conditions : Range(condition'[d]) \subseteq Range(condition[d])
  <1>1. Stands(k, p, "user") /\ p \in Stacks
    BY Standing, StackIs DEF Wake
  <1>2. PICK n \in {1, Len(condition[c])} :
           /\ condition' = [condition EXCEPT ![c] = SubSeq(@, n + 1, Len(@))]
           /\ stack' = [stack EXCEPT ![p].pc = "ready", ![p].call = "wake",
                                     ![p].hand = SubSeq(condition[c], 1, n)]
    BY DEF Wake
  <1>3. Walks(p, "ready", "wake", stack[p].mutex)
    <2>1. PICK h : h = SubSeq(condition[c], 1, n)
      OBVIOUS
    <2>2. stack' = [stack EXCEPT ![p].pc = "ready", ![p].call = "wake", ![p].hand = h]
      BY <1>2, <2>1
    <2> QED BY <1>1, <2>2, CallBecomes, BecomesWalks
  <1>4. ASSUME NEW d \in Conditions
        PROVE  Range(condition'[d]) \subseteq Range(condition[d])
    <2>1. condition \in [Conditions -> Seq(Cprocs)] /\ IsInjective(condition[c])
      BY MutexFields, PlacesApart DEF Apart
    <2>2. CASE d /= c
      BY <1>2, <2>1, <2>2
    <2>3. CASE d = c
      <3>1. condition[c] \in Seq(Cprocs) /\ condition[c] /= <<>>
        BY <2>1 DEF Wake
      <3>2. n \in 1..Len(condition[c])
        BY <3>1
      <3>3. PICK f, r : f = SubSeq(condition[c], 1, n) /\ r = SubSeq(condition[c], n + 1, Len(condition[c]))
        OBVIOUS
      <3>4. Range(r) = Range(condition[c]) \ Range(f)
        BY <2>1, <3>1, <3>2, <3>3, Parted
      <3>5. condition'[c] = r
        BY <1>2, <2>1, <3>3
      <3> QED BY <2>3, <3>4, <3>5
    <2> QED BY <2>2, <2>3
  <1> QED BY <1>1, <1>3, <1>4

LEMMA ReadyWalks ==
    ASSUME MutexInv, PlaceInv, NEW k \in KernelThreads, NEW p \in Cprocs, Ready(k, p)
    PROVE  /\ Stands(k, p, "ready")
           /\ Onward(p) \/ Walks(p, "enqueue", stack[p].call, stack[p].mutex)
  <1>1. Stands(k, p, "ready") /\ p \in Stacks
    BY Standing, StackIs DEF Ready
  <1>2. CASE Readied(p, Tail(stack[p].hand))
    BY <1>1, <1>2, ReadiedWalks
  <1>3. CASE Goto(p, "enqueue")
    BY <1>1, <1>3, GotoBecomes, BecomesWalks
  <1>4. Readied(p, Tail(stack[p].hand)) \/ Goto(p, "enqueue")
    BY DEF Ready
  <1> QED BY <1>1, <1>2, <1>3, <1>4

LEMMA EnqueueWalks ==
    ASSUME MutexInv, PlaceInv, NEW k \in KernelThreads, NEW p \in Cprocs, Enqueue(k, p)
    PROVE  /\ Stands(k, p, "enqueue") /\ Len(ready') = Len(ready) + 1
           /\ \/ /\ ready_count' = ready_count /\ wait_count' = wait_count - 1
                 /\ Walks(p, "send", stack[p].call, stack[p].mutex)
              \/ ready_count' = ready_count + 1 /\ wait_count' = wait_count /\ Onward(p)
  <1>1. Stands(k, p, "enqueue") /\ p \in Stacks
    BY Standing, StackIs DEF Enqueue
  <1>2. Len(ready') = Len(ready) + 1
    <2>1. ready \in Seq(Cprocs) /\ stack[p].hand \in Seq(Cprocs) /\ stack[p].hand /= <<>>
      BY <1>1, MutexFields, Knows DEF Stands
    <2>2. PICK q \in Cprocs : q = Head(stack[p].hand)
      BY <2>1
    <2>3. ready' = <<q>> \o ready \/ ready' = Append(ready, q)
      BY <2>2 DEF Enqueue
    <2> QED BY <2>1, <2>3
  <1>3. CASE ~LeavesWakeup(p) /\ ready_count + 1 > 0 /\ wait_count /= 0
    <2>1. PICK h : h = Tail(stack[p].hand)
      OBVIOUS
    <2>2. /\ stack' = [stack EXCEPT ![p].pc = "send", ![p].hand = Tail(@)]
          /\ ready_count' = ready_count /\ wait_count' = wait_count - 1
      BY <1>3 DEF Enqueue
    <2>3. stack' = [stack EXCEPT ![p].pc = "send", ![p].hand = h]
      BY <2>1, <2>2
    <2> QED BY <1>1, <1>2, <2>2, <2>3, HandBecomes, BecomesWalks
  <1>4. CASE ~(~LeavesWakeup(p) /\ ready_count + 1 > 0 /\ wait_count /= 0)
    <2>1. Readied(p, Tail(stack[p].hand)) /\ ready_count' = ready_count + 1 /\ wait_count' = wait_count
      BY <1>4 DEF Enqueue
    <2> QED BY <1>1, <1>2, <2>1, ReadiedWalks
  <1> QED BY <1>3, <1>4

LEMMA SendWalks ==
    ASSUME MutexInv, PlaceInv, NEW k \in KernelThreads, NEW p \in Cprocs, Send(k, p)
    PROVE  Stands(k, p, "send") /\ Onward(p)
  <1>1. Stands(k, p, "send") /\ p \in Stacks
    BY Standing, StackIs DEF Send
  <1> QED BY <1>1, ReadiedWalks DEF Send

LEMMA ReceiveWiredWalks ==
    ASSUME MutexInv, PlaceInv, NEW k \in KernelThreads, NEW p \in Cprocs, ReceiveWired(k, p)
    PROVE  Stands(k, p, "wired") /\ Walks(p, "retry", "none", stack[p].mutex)
  <1>1. Stands(k, p, "wired") /\ p \in Stacks
    BY Standing, StackIs DEF ReceiveWired
  <1>2. Return(p, "retry")
    BY DEF ReceiveWired
  <1> QED BY <1>1, <1>2, ReturnBecomes, BecomesWalks

LEMMA DequeueReadyWalks ==
    ASSUME MutexInv, PlaceInv, NEW k \in KernelThreads, NEW p \in Cprocs, DequeueReady(k, p)
    PROVE  /\ Stands(k, p, "block")
           /\ \/ /\ Len(ready') = Len(ready) - 1 /\ ready_count' = ready_count - 1
                 /\ wait_count' = wait_count /\ Walks(p, "keep", stack[p].call, stack[p].mutex)
              \/ /\ ready = <<>> /\ ready' = ready /\ ready_count' = ready_count
                 /\ wait_count' = wait_count + 1 /\ Walks(p, "getwaiter", stack[p].call, stack[p].mutex)
  <1>1. Stands(k, p, "block") /\ p \in Stacks
    BY Standing, StackIs DEF DequeueReady
  <1>2. CASE ready /= <<>>
    <2>1. PICK h : h = <<Head(ready)>>
      OBVIOUS
    <2>2. /\ stack' = [stack EXCEPT ![p].pc = "keep", ![p].hand = h] /\ ready' = Tail(ready)
          /\ ready_count' = ready_count - 1 /\ wait_count' = wait_count
      BY <1>2, <2>1 DEF DequeueReady
    <2>3. Len(ready') = Len(ready) - 1
      BY <1>2, <2>2, MutexFields
    <2> QED BY <1>1, <2>2, <2>3, HandBecomes, BecomesWalks
  <1>3. CASE ready = <<>>
    <2>1. /\ Goto(p, "getwaiter") /\ ready' = ready /\ ready_count' = ready_count
          /\ wait_count' = wait_count + 1
      BY <1>3 DEF DequeueReady
    <2> QED BY <1>1, <1>3, <2>1, GotoBecomes, BecomesWalks
  <1> QED BY <1>2, <1>3

LEMMA KeepsOrBlocks ==
    ASSUME MutexInv, NEW p \in Stacks, NEW l, NEW b, KeepOrBlock(p, l, b)
    PROVE  Walks(p, l, stack[p].call, stack[p].mutex) \/ Walks(p, b, stack[p].call, stack[p].mutex)
  <1>1. Goto(p, l) \/ Goto(p, b)
    BY DEF KeepOrBlock
  <1> QED BY <1>1, GotoBecomes, BecomesWalks

LEMMA BlockSwitchWalks ==
    ASSUME MutexInv, PlaceInv, NEW k \in KernelThreads, NEW p \in Cprocs, BlockSwitch(k, p)
    PROVE  /\ Stands(k, p, "keep")
           /\ \/ Walks(p, "ready", stack[p].call, stack[p].mutex)
              \/ Walks(p, "switch", stack[p].call, stack[p].mutex)
  <1>1. Stands(k, p, "keep") /\ p \in Stacks
    BY Standing, StackIs DEF BlockSwitch
  <1> QED BY <1>1, KeepsOrBlocks DEF BlockSwitch

LEMMA BlockIdleWalks ==
    ASSUME MutexInv, PlaceInv, NEW k \in KernelThreads, NEW p \in Cprocs, BlockIdle(k, p)
    PROVE  /\ Stands(k, p, "idle")
           /\ \/ Walks(p, "unwait", stack[p].call, stack[p].mutex)
              \/ Walks(p, "startwait", stack[p].call, stack[p].mutex)
  <1>1. Stands(k, p, "idle") /\ p \in Stacks
    BY Standing, StackIs DEF BlockIdle
  <1> QED BY <1>1, KeepsOrBlocks DEF BlockIdle

LEMMA UnwaitWalks ==
    ASSUME MutexInv, PlaceInv, NEW k \in KernelThreads, NEW p \in Cprocs, Unwait(k, p)
    PROVE  Stands(k, p, "unwait") /\ Walks(p, "unwaiter", stack[p].call, stack[p].mutex)
  <1>1. Stands(k, p, "unwait") /\ p \in Stacks
    BY Standing, StackIs DEF Unwait
  <1> QED BY <1>1, GotoBecomes, BecomesWalks DEF Unwait

LEMMA UnwaiterWalks ==
    ASSUME MutexInv, PlaceInv, NEW k \in KernelThreads, NEW p \in Cprocs, Unwaiter(k, p)
    PROVE  Stands(k, p, "unwaiter") /\ Walks(p, "retry", "none", stack[p].mutex)
  <1>1. Stands(k, p, "unwaiter") /\ p \in Stacks
    BY Standing, StackIs DEF Unwaiter
  <1>2. Return(p, "retry")
    BY DEF Unwaiter
  <1> QED BY <1>1, <1>2, ReturnBecomes, BecomesWalks

LEMMA YieldWalks ==
    ASSUME MutexInv, PlaceInv, NEW k \in KernelThreads, NEW p \in Cprocs, Yield(k, p)
    PROVE  /\ Stands(k, p, "user") /\ Walks(p, "switch", "yield", stack[p].mutex)
           /\ Len(ready') = Len(ready)
  <1>1. Stands(k, p, "user") /\ p \in Stacks
    BY Standing, StackIs DEF Yield
  <1>2. PICK h : h = <<Head(ready)>>
    OBVIOUS
  <1>3. stack' = [stack EXCEPT ![p].pc = "switch", ![p].call = "yield", ![p].hand = h]
    BY <1>2 DEF Yield
  <1>4. ready /= <<>> /\ ready' = Append(Tail(ready), p)
    BY DEF Yield
  <1>5. Len(ready') = Len(ready)
    BY <1>4, MutexFields
  <1> QED BY <1>1, <1>3, <1>5, CallBecomes, BecomesWalks

-----------------------------------------------------------------------------
(* Kernel threads that leave a stack, and waiting stacks.                  *)

\* The stack s goes on at l.
Passes(s, l) == stack'[s].pc = l /\ \A r \in Stacks \ {s} : stack'[r] = stack[r]

LEMMA WalksPasses ==
    ASSUME NEW s, NEW l, NEW b, NEW m, Walks(s, l, b, m)
    PROVE  Passes(s, l)
  BY DEF Walks, Passes

\* A kernel thread leaves s for t.
Leaves(s, t) ==
    /\ Running(s) /\ ~Running(s)' /\ ~Running(t) /\ Running(t)' /\ s /= t
    /\ \A r \in Stacks \ {s, t} : Running(r)' <=> Running(r)

LEMMA SwitchWalks ==
    ASSUME MutexInv, PlaceTypes, PlaceInv, NEW k \in KernelThreads, NEW p \in Cprocs, Switch(k, p)
    PROVE  /\ Stands(k, p, "switch")
           /\ \/ stack[p].call = "yield" /\ Walks(p, "user", "none", None)
              \/ stack[p].call = "block" /\ Walks(p, "retry", "none", stack[p].mutex)
           /\ \E new \in Cprocs : Leaves(p, new) /\ stack[new].pc \in {"user", "retry"}
  <1>1. Stands(k, p, "switch") /\ p \in Stacks /\ At(k, p, "switch")
    BY Standing, StackIs DEF Switch
  <1>2. stack[p].call \in {"block", "yield"} /\ HandAgrees(p) /\ stack[p].hand \in Seq(Cprocs)
    BY <1>1, Here DEF CallsAt, InBlock, NeedsWaiter
  <1>3. \/ stack[p].call = "yield" /\ Walks(p, "user", "none", None)
        \/ stack[p].call = "block" /\ Walks(p, "retry", "none", stack[p].mutex)
    <2>1. Return(p, AfterBlock(stack[p].call))
      BY DEF Switch
    <2>2. CASE stack[p].call = "yield"
      <3>1. Return(p, "user")
        BY <2>1, <2>2 DEF AfterBlock
      <3> QED BY <1>1, <2>2, <3>1, ReturnBecomes, BecomesWalks
    <2>3. CASE stack[p].call = "block"
      <3>1. Return(p, "retry")
        BY <2>1, <2>3 DEF AfterBlock
      <3> QED BY <1>1, <2>3, <3>1, ReturnBecomes, BecomesWalks
    <2> QED BY <1>2, <2>2, <2>3
  <1>4. PICK new : new = Head(stack[p].hand)
    OBVIOUS
  <1>5. ~lock[new] /\ on' = [on EXCEPT ![k] = new]
    BY <1>4 DEF Switch, SwitchStacks
  <1>6. /\ new \in Cprocs /\ new \in Stacks /\ new /= p /\ new \in Range(stack[p].hand)
    <2>1. Len(stack[p].hand) = 1 /\ p \notin Range(stack[p].hand)
      BY <1>1, <1>2 DEF HandAgrees, Stands
    <2>2. stack[p].hand /= <<>> /\ IsInjective(stack[p].hand)
      BY <1>1, <1>2, <2>1, OneLong, PlacesApart DEF Apart
    <2> QED BY <1>2, <1>4, <2>1, <2>2, Headed, StackIs
  <1>7. Blocked(new) /\ Linked(new)
    BY <1>1, <1>6, Linkings, ChainsAreApart DEF HandFits, OnChain, ChainsApart, Stands
  <1>8. ~Running(new)
    BY <1>5, <1>6, <1>7, BlockedIsLeft
  <1>9. Leaves(p, new)
    BY <1>1, <1>5, <1>6, <1>8, Switched DEF Leaves, Stands
  <1>10. stack[new].pc \in {"user", "retry"}
    BY <1>6, <1>7, <1>8, Linkings DEF Agrees, CprocAgrees
  <1> QED BY <1>1, <1>3, <1>6, <1>9, <1>10

LEMMA LeavingWalks ==
    ASSUME MutexInv, PlaceTypes, PlaceInv, NEW k \in KernelThreads, NEW w \in Waiters, Leaving(k, w)
    PROVE  /\ stack[w].pc = "leaving" /\ Passes(w, "receive")
           /\ \E new \in Cprocs : Leaves(w, new) /\ stack[new].pc \in {"user", "retry"}
  <1>1. PICK new : new = Head(stack[w].hand)
    OBVIOUS
  <1>2. /\ At(k, w, "leaving") /\ on' = [on EXCEPT ![k] = new]
        /\ stack' = [stack EXCEPT ![w] = NewStack("receive")]
    BY <1>1 DEF Leaving, SwitchStacks
  <1>3. /\ stack[w].pc = "leaving" /\ Running(w) /\ on[k] = w /\ w \in Stacks
        /\ new \in Cprocs /\ new \in Stacks /\ new /= w /\ stack[w].hand = <<new>>
        /\ HandFits(new, w) /\ Agrees(new) /\ Linked(new)
    BY <1>1, <1>2, WaiterHere
  <1>4. Passes(w, "receive")
    <2>1. stack \in [Stacks -> StackRecords]
      BY DEF MutexInv, MutexTypes
    <2> QED BY <1>2, <1>3, <2>1 DEF NewStack, Passes
  <1>5. new \in Range(stack[w].hand)
    BY <1>3, Single
  <1>6. ~Running(new)
    BY <1>3, <1>5 DEF HandFits
  <1>7. Leaves(w, new)
    BY <1>2, <1>3, <1>6, Switched DEF Leaves
  <1>8. stack[new].pc \in {"user", "retry"}
    <2>1. stack[new].pc /= "none"
      BY <1>3 DEF Agrees, CprocAgrees
    <2> QED BY <1>3, <1>6, <2>1 DEF Agrees, CprocAgrees
  <1> QED BY <1>3, <1>4, <1>7, <1>8

LEMMA StartWaitWalks ==
    ASSUME MutexInv, PlaceTypes, PlaceInv, NEW k \in KernelThreads, NEW p \in Cprocs, StartWait(k, p)
    PROVE  /\ Stands(k, p, "startwait")
           /\ \E w \in Waiters :
                 /\ Leaves(p, w) /\ stack[w].pc = "receive" /\ stack'[w].pc = "receive"
                 /\ stack'[p].pc = "retry" /\ stack'[p].call = "none" /\ stack'[p].mutex = stack[p].mutex
                 /\ \A r \in Stacks \ {p, w} : stack'[r] = stack[r]
  <1>1. p \in Stacks /\ At(k, p, "startwait") /\ p \notin Waiters /\ Stands(k, p, "startwait")
    BY Standing, StackIs DEF StartWait
  <1>2. on[k] = p /\ Running(p) /\ stack[p].waiter \in Waiters /\ WaitersAgree
    BY <1>1, Here, Knows DEF NeedsWaiter, PlaceInv
  <1>3. PICK w : w = stack[p].waiter
    OBVIOUS
  <1>4. /\ ~lock[w] /\ on' = [on EXCEPT ![k] = w]
        /\ stack' = [stack EXCEPT ![p] = [NewStack("retry") EXCEPT !.mutex = stack[p].mutex],
                                  ![w] = NewStack("receive")]
    BY <1>3 DEF StartWait, SwitchStacks
  <1>5. w \in Waiters /\ w \in Stacks /\ w /= p
    BY <1>1, <1>2, <1>3, StackIs
  <1>6. /\ stack'[p].pc = "retry" /\ stack'[p].call = "none" /\ stack'[p].mutex = stack[p].mutex
        /\ stack'[w].pc = "receive" /\ \A r \in Stacks \ {p, w} : stack'[r] = stack[r]
    <2>1. stack \in [Stacks -> StackRecords]
      BY DEF MutexInv, MutexTypes
    <2> QED BY <1>1, <1>4, <1>5, <2>1 DEF NewStack
  <1>7. /\ StackAgrees(w) /\ stack[w].pc \in {"receive", "leaving"}
        /\ (Running(w) => stack[w].pc = "leaving")
    BY <1>1, <1>2, <1>3, <1>5 DEF WaitersAgree, PlaceInv, StacksAgree
  <1>8. stack[w].pc = "receive" /\ ~Running(w)
    BY <1>4, <1>7 DEF StackAgrees, Leavings
  <1>9. Leaves(p, w)
    BY <1>1, <1>2, <1>4, <1>5, <1>8, Switched DEF Leaves
  <1> QED BY <1>1, <1>5, <1>6, <1>8, <1>9

LEMMA GetWaiterWalks ==
    ASSUME MutexInv, PlaceInv, NEW k \in KernelThreads, NEW p \in Cprocs, GetWaiter(k, p)
    PROVE  /\ Stands(k, p, "getwaiter")
           /\ stack'[p].pc = "idle" /\ stack'[p].call = stack[p].call /\ stack'[p].mutex = stack[p].mutex
           /\ \/ \A r \in Stacks \ {p} : stack'[r] = stack[r]
              \/ \E w \in Waiters :
                    /\ ~Running(w) /\ stack[w].pc = "none" /\ stack'[w].pc = "receive"
                    /\ \A r \in Stacks \ {p, w} : stack'[r] = stack[r]
  <1>1. p \in Stacks /\ p \notin Waiters /\ Stands(k, p, "getwaiter")
    BY Standing, StackIs DEF GetWaiter
  <1>2. CASE waiters /= <<>>
    <2>1. PICK w : w = Head(waiters)
      OBVIOUS
    <2>2. stack' = [stack EXCEPT ![p].pc = "idle", ![p].waiter = w]
      BY <1>2, <2>1 DEF GetWaiter
    <2>3. Walks(p, "idle", stack[p].call, stack[p].mutex)
      BY <1>1, <2>2, WaiterBecomes, BecomesWalks
    <2> QED BY <1>1, <2>3 DEF Walks
  <1>3. CASE waiters = <<>>
    <2>1. PICK w \in Waiters :
             /\ stack[w].pc = "none"
             /\ stack' = [stack EXCEPT ![p].pc = "idle", ![p].waiter = w, ![w].pc = "receive"]
      BY <1>3 DEF GetWaiter
    <2>2. w \in Stacks /\ w /= p /\ ~Running(w)
      BY <1>1, <2>1, StackIs DEF PlaceInv, WaitersAgree
    <2>3. stack \in [Stacks -> StackRecords]
      BY DEF MutexInv, MutexTypes
    <2>4. /\ stack'[p].pc = "idle" /\ stack'[p].call = stack[p].call /\ stack'[p].mutex = stack[p].mutex
          /\ stack'[w].pc = "receive" /\ \A r \in Stacks \ {p, w} : stack'[r] = stack[r]
      BY <1>1, <2>1, <2>2, <2>3, Record
    <2> QED BY <1>1, <2>1, <2>2, <2>4
  <1> QED BY <1>2, <1>3

LEMMA ReceiveWalks ==
    ASSUME MutexInv, PlaceInv, NEW k \in KernelThreads, NEW w \in Waiters, Receive(k, w)
    PROVE  stack[w].pc = "receive" /\ Running(w) /\ Passes(w, "woken")
  BY WaiterHere, GotoBecomes DEF Receive, Becomes, Passes

LEMMA WokenWalks ==
    ASSUME MutexInv, PlaceInv, NEW k \in KernelThreads, NEW w \in Waiters, Woken(k, w)
    PROVE  /\ stack[w].pc = "woken" /\ Running(w)
           /\ \/ /\ Len(ready') = Len(ready) - 1 /\ UNCHANGED <<ready_count, wait_count>>
                 /\ Passes(w, "resume")
              \/ /\ ready = <<>> /\ ready' = ready /\ wait_count' = wait_count + 1
                 /\ ready_count' = ready_count + 1 /\ Passes(w, "receive")
  <1>1. w \in Stacks /\ stack[w].pc = "woken" /\ Running(w)
    BY WaiterHere DEF Woken
  <1>2. CASE ready /= <<>>
    <2>1. PICK h : h = <<Head(ready)>>
      OBVIOUS
    <2>2. /\ stack' = [stack EXCEPT ![w].pc = "resume", ![w].hand = h] /\ ready' = Tail(ready)
          /\ UNCHANGED <<ready_count, wait_count>>
      BY <1>2, <2>1 DEF Woken, counts
    <2>3. Len(ready') = Len(ready) - 1
      BY <1>2, <2>2, MutexFields
    <2> QED BY <1>1, <2>2, <2>3, HandBecomes DEF Becomes, Passes
  <1>3. CASE ready = <<>>
    <2>1. /\ Goto(w, "receive") /\ ready' = ready /\ ready_count' = ready_count + 1
          /\ wait_count' = wait_count + 1
      BY <1>3 DEF Woken
    <2> QED BY <1>1, <1>3, <2>1, GotoBecomes DEF Becomes, Passes
  <1> QED BY <1>2, <1>3

LEMMA ResumeWalks ==
    ASSUME MutexInv, PlaceInv, NEW k \in KernelThreads, NEW w \in Waiters, Resume(k, w)
    PROVE  stack[w].pc = "resume" /\ Running(w) /\ Passes(w, "leave")
  BY WaiterHere, GotoBecomes DEF Resume, Becomes, Passes

LEMMA LeaveWalks ==
    ASSUME MutexInv, PlaceInv, NEW k \in KernelThreads, NEW w \in Waiters, Leave(k, w)
    PROVE  stack[w].pc = "leave" /\ Running(w) /\ Passes(w, "leaving")
  BY WaiterHere, GotoBecomes DEF Leave, Becomes, Passes

LEMMA CreateWalks ==
    ASSUME MutexInv, PlaceTypes, PlaceInv, NEW k \in KernelThreads, NEW p \in Cprocs,
           NEW child \in Cprocs, Create(k, p, child)
    PROVE  /\ Stands(k, p, "user") /\ Running(p)' /\ \A r \in Stacks : Running(r) => Running(r)'
           /\ \A r \in Waiters : Running(r)' => Running(r)
           /\ child /= p /\ stack[child].pc = "none" /\ stack[child].call = "none"
           /\ \A r \in Stacks \ {p, child} : stack'[r] = stack[r]
           /\ stack'[child].pc = "user" /\ stack'[p].pc \in {"user", "ready"}
  <1>1. /\ At(k, p, "user") /\ stack[child].pc = "none"
    BY DEF Create
  <1>2. p \in Stacks /\ stack[p].pc = "user" /\ Running(p) /\ Stands(k, p, "user")
    BY <1>1, AtUser, Standing
  <1>3. child \in Stacks /\ child \notin Waiters /\ child /= p /\ StackAgrees(child) /\ ~Running(child)
    BY <1>1, <1>2, StackIs, Linkings DEF PlaceInv, StacksAgree, Agrees, CprocAgrees
  <1>4. stack[child].call = "none"
    BY <1>1, <1>3 DEF StackAgrees, CallsAt, InBlock, NeedsWaiter
  <1>5. stack \in [Stacks -> StackRecords]
    BY DEF MutexInv, MutexTypes
  <1>6. CASE /\ \E j \in KernelThreads \ {j \in KernelThreads : on[j] /= None} : on' = [on EXCEPT ![j] = child]
             /\ Goto(child, "user")
    <2>1. PICK j \in KernelThreads : on[j] = None /\ on' = [on EXCEPT ![j] = child]
      BY <1>6
    <2>2. stack'[child].pc = "user" /\ \A r \in Stacks \ {child} : stack'[r] = stack[r]
      BY <1>3, <1>6, GotoBecomes DEF Becomes
    <2>3. on'[j] = child /\ \A i \in KernelThreads \ {j} : on'[i] = on[i]
      BY <2>1 DEF PlaceTypes
    <2>4. \A r \in Stacks : Running(r) => Running(r)'
      BY <2>1, <2>3, StackIs DEF Running
    <2>5. \A r \in Waiters : Running(r)' => Running(r)
      BY <1>3, <2>3 DEF Running
    <2> QED BY <1>1, <1>2, <1>3, <1>4, <2>2, <2>4, <2>5
  <1>7. CASE /\ stack' = [stack EXCEPT ![child].pc = "user", ![p].pc = "ready",
                                      ![p].call = "wake", ![p].hand = <<child>>]
             /\ on' = on
    <2>1. /\ stack'[child].pc = "user" /\ stack'[p].pc = "ready"
          /\ \A r \in Stacks \ {p, child} : stack'[r] = stack[r]
      BY <1>2, <1>3, <1>5, <1>7, Record
    <2>2. \A r \in Stacks : Running(r)' <=> Running(r)
      BY <1>7 DEF Running
    <2> QED BY <1>1, <1>2, <1>3, <1>4, <2>1, <2>2, StackIs
  <1> QED BY <1>6, <1>7 DEF Create

-----------------------------------------------------------------------------
(* The counts.                                                             *)

LEMMA OneCounted ==
    ASSUME NEW T, IsFiniteSet(T), NEW A \in SUBSET T, NEW B \in SUBSET T, NEW s \in T,
           \A r \in T \ {s} : r \in A <=> r \in B
    PROVE  /\ Cardinality(A) \in Nat /\ Cardinality(B) \in Nat
           /\ s \in A /\ s \in B => Cardinality(B) = Cardinality(A)
           /\ s \notin A /\ s \notin B => Cardinality(B) = Cardinality(A)
           /\ s \notin A /\ s \in B => Cardinality(B) = Cardinality(A) + 1
           /\ s \in A /\ s \notin B => Cardinality(B) = Cardinality(A) - 1
  <1>1. IsFiniteSet(A) /\ IsFiniteSet(B) /\ Cardinality(A) \in Nat /\ Cardinality(B) \in Nat
    BY FS_Subset, FS_CardinalityType
  <1>2. CASE s \in A <=> s \in B
    <2>1. A = B
      BY <1>2
    <2> QED BY <1>1, <1>2, <2>1
  <1>3. CASE s \notin A /\ s \in B
    <2>1. B = A \cup {s}
      BY <1>3
    <2> QED BY <1>1, <1>3, <2>1, FS_AddElement
  <1>4. CASE s \in A /\ s \notin B
    <2>1. B = A \ {s}
      BY <1>4
    <2> QED BY <1>1, <1>4, <2>1, FS_RemoveElement
  <1> QED BY <1>2, <1>3, <1>4

Messaging(s) == stack[s].pc \in {"send", "woken"}
Waits(s) ==
    \/ s \in Cprocs /\ stack[s].pc \in {"getwaiter", "idle", "startwait", "unwait"}
    \/ s \in Waiters /\ stack[s].pc \in {"receive", "woken"} /\ Running(s)
MessagingStacks == {s \in Stacks : Messaging(s)}
WaitingStacks == {s \in Stacks : Waits(s)}

\* What CountsExact rests on.
CountInv == wakeups \in Nat /\ CountsExact

CountsAre ==
    /\ CountsExact <=> /\ ready_count = Len(ready) - (wakeups + Cardinality(MessagingStacks))
                       /\ wait_count = Cardinality(WaitingStacks) - (wakeups + Cardinality(MessagingStacks))
    /\ Cardinality(MessagingStacks) \in Nat /\ Cardinality(WaitingStacks) \in Nat

LEMMA StacksFinite == IsFiniteSet(Stacks)
  BY CThreadsAssumption, FS_Union DEF Stacks

LEMMA CountsAreExact == CountsAre
  <1>1. CountsExact <=> /\ ready_count = Len(ready) - (wakeups + Cardinality(MessagingStacks))
                        /\ wait_count = Cardinality(WaitingStacks) - (wakeups + Cardinality(MessagingStacks))
    BY DEF CountsExact, InFlight, WaitingThreads, MessagingStacks, WaitingStacks, Messaging, Waits
  <1>2. Cardinality(MessagingStacks) \in Nat /\ Cardinality(WaitingStacks) \in Nat
    BY StacksFinite, FS_Subset, FS_CardinalityType DEF MessagingStacks, WaitingStacks
  <1> QED BY <1>1, <1>2 DEF CountsAre

LEMMA CountsAreExactNext == CountsAre'
  BY CountsAreExact, PTL

\* What s adds to the counts.
AddsMessage(s) == IF Messaging(s) THEN 1 ELSE 0
AddsWaiter(s) == IF Waits(s) THEN 1 ELSE 0

LEMMA CountsMove ==
    ASSUME CountInv, NEW s \in Stacks,
           \A r \in Stacks \ {s} : (Messaging(r)' <=> Messaging(r)) /\ (Waits(r)' <=> Waits(r)),
           NEW f, NEW w, f = AddsMessage(s)' - AddsMessage(s), w = AddsWaiter(s)' - AddsWaiter(s),
           wakeups' \in Nat, Len(ready) \in Nat, Len(ready') \in Nat,
           ready_count' = ready_count + (Len(ready') - Len(ready)) - (wakeups' - wakeups) - f,
           wait_count' = wait_count + w - (wakeups' - wakeups) - f
    PROVE  CountInv'
  <1>1. /\ Cardinality(MessagingStacks') = Cardinality(MessagingStacks) + f
        /\ Cardinality(MessagingStacks) \in Nat /\ f \in Int
    <2>1. PICK A, B : A = MessagingStacks /\ B = MessagingStacks'
      OBVIOUS
    <2>2. /\ A \in SUBSET Stacks /\ B \in SUBSET Stacks /\ \A r \in Stacks \ {s} : r \in A <=> r \in B
          /\ (s \in A <=> Messaging(s)) /\ (s \in B <=> Messaging(s)')
      BY <2>1 DEF MessagingStacks
    <2>3. /\ Cardinality(A) \in Nat /\ Cardinality(B) \in Nat
          /\ s \in A /\ s \in B => Cardinality(B) = Cardinality(A)
          /\ s \notin A /\ s \notin B => Cardinality(B) = Cardinality(A)
          /\ s \notin A /\ s \in B => Cardinality(B) = Cardinality(A) + 1
          /\ s \in A /\ s \notin B => Cardinality(B) = Cardinality(A) - 1
      BY <2>2, OneCounted, StacksFinite
    <2> QED BY <2>1, <2>2, <2>3 DEF AddsMessage, AddsWaiter
  <1>2. /\ Cardinality(WaitingStacks') = Cardinality(WaitingStacks) + w
        /\ Cardinality(WaitingStacks) \in Nat /\ w \in Int
    <2>1. PICK A, B : A = WaitingStacks /\ B = WaitingStacks'
      OBVIOUS
    <2>2. /\ A \in SUBSET Stacks /\ B \in SUBSET Stacks /\ \A r \in Stacks \ {s} : r \in A <=> r \in B
          /\ (s \in A <=> Waits(s)) /\ (s \in B <=> Waits(s)')
      BY <2>1 DEF WaitingStacks
    <2>3. /\ Cardinality(A) \in Nat /\ Cardinality(B) \in Nat
          /\ s \in A /\ s \in B => Cardinality(B) = Cardinality(A)
          /\ s \notin A /\ s \notin B => Cardinality(B) = Cardinality(A)
          /\ s \notin A /\ s \in B => Cardinality(B) = Cardinality(A) + 1
          /\ s \in A /\ s \notin B => Cardinality(B) = Cardinality(A) - 1
      BY <2>2, OneCounted, StacksFinite
    <2> QED BY <2>1, <2>2, <2>3 DEF AddsMessage, AddsWaiter
  <1>3. PICK M, W, M1, W1 : /\ M = Cardinality(MessagingStacks) /\ W = Cardinality(WaitingStacks)
                            /\ M1 = Cardinality(MessagingStacks') /\ W1 = Cardinality(WaitingStacks')
    OBVIOUS
  <1>4. ready_count = Len(ready) - (wakeups + M) /\ wait_count = W - (wakeups + M) /\ wakeups \in Nat
    BY <1>3, CountsAreExact DEF CountsAre, CountInv
  <1>5. ready_count' = Len(ready') - (wakeups' + M1) /\ wait_count' = W1 - (wakeups' + M1)
    <2>1. M1 = M + f /\ W1 = W + w /\ M \in Nat /\ W \in Nat /\ f \in Int /\ w \in Int
      BY <1>1, <1>2, <1>3
    <2>2. PICK a, b, u, v : a = Len(ready) /\ b = Len(ready') /\ u = wakeups /\ v = wakeups'
      OBVIOUS
    <2>3. a \in Nat /\ b \in Nat /\ u \in Nat /\ v \in Nat
      BY <2>2 DEF CountInv
    <2>4. ready_count' = (a - (u + M)) + (b - a) - (v - u) - f
      BY <1>4, <2>2
    <2>5. wait_count' = (W - (u + M)) + w - (v - u) - f
      BY <1>4, <2>2
    <2>6. ready_count' = b - (v + M1)
      BY ONLY <2>1, <2>3, <2>4
    <2>7. wait_count' = W1 - (v + M1)
      BY ONLY <2>1, <2>3, <2>5
    <2> QED BY <2>2, <2>6, <2>7
  <1> QED BY <1>3, <1>5, CountsAreExactNext DEF CountsAre, CountInv

LEMMA CountsStay ==
    ASSUME CountInv, \A r \in Stacks : (Messaging(r)' <=> Messaging(r)) /\ (Waits(r)' <=> Waits(r)),
           UNCHANGED <<wakeups, ready_count, wait_count>>, Len(ready') = Len(ready)
    PROVE  CountInv'
  <1>1. MessagingStacks' = MessagingStacks /\ WaitingStacks' = WaitingStacks
    BY DEF MessagingStacks, WaitingStacks
  <1> QED BY <1>1, CountsAreExact, CountsAreExactNext DEF CountsAre, CountInv

\* Who is not concerned by a step of s counts as before.
LEMMA OthersCount ==
    ASSUME NEW s, NEW l, Passes(s, l), \A r \in Waiters \ {s} : Running(r)' <=> Running(r)
    PROVE  \A r \in Stacks \ {s} : (Messaging(r)' <=> Messaging(r)) /\ (Waits(r)' <=> Waits(r))
  BY DEF Passes, Messaging, Waits

Sends(l) == IF l = "send" THEN 1 ELSE 0
WaitsAt(l) == IF l \in {"getwaiter", "idle", "startwait", "unwait"} THEN 1 ELSE 0

\* A cproc goes on from l to n.
LEMMA CprocCounts ==
    ASSUME MutexInv, CountInv, NEW p \in Cprocs, NEW l, NEW n, stack[p].pc = l, Passes(p, n),
           l /= "woken", n /= "woken",
           \A r \in Waiters : Running(r)' <=> Running(r),
           wakeups' \in Nat, Len(ready') \in Nat,
           ready_count' = ready_count + (Len(ready') - Len(ready)) - (wakeups' - wakeups)
                          - (Sends(n) - Sends(l)),
           wait_count' = wait_count + (WaitsAt(n) - WaitsAt(l)) - (wakeups' - wakeups)
                          - (Sends(n) - Sends(l))
    PROVE  CountInv'
  <1>1. p \in Stacks /\ p \notin Waiters /\ Len(ready) \in Nat
    BY StackIs, MutexFields
  <1>2. PICK f, w : f = AddsMessage(p)' - AddsMessage(p) /\ w = AddsWaiter(p)' - AddsWaiter(p)
    OBVIOUS
  <1>3. f = Sends(n) - Sends(l)
    BY <1>2 DEF Passes, Messaging, AddsMessage, Sends
  <1>4. w = WaitsAt(n) - WaitsAt(l)
    BY <1>1, <1>2 DEF Passes, Waits, AddsWaiter, WaitsAt
  <1>5. \A r \in Stacks \ {p} : (Messaging(r)' <=> Messaging(r)) /\ (Waits(r)' <=> Waits(r))
    BY OthersCount
  <1>6. /\ ready_count' = ready_count + (Len(ready') - Len(ready)) - (wakeups' - wakeups) - f
        /\ wait_count' = wait_count + w - (wakeups' - wakeups) - f
    BY <1>3, <1>4
  <1> QED BY <1>1, <1>2, <1>5, <1>6, CountsMove

-----------------------------------------------------------------------------
(* Mutexes that are free and have waiters, or are held by nobody.          *)

Needy(m) == ~mutex[m].held /\ mutex[m].queue /= <<>>
HeldFree(m) == mutex[m].held /\ holder[m] = None
Dequeues(p, m) == stack[p].pc = "unlock_deq" /\ stack[p].mutex = m

MutexesFine ==
    \A m \in Mutexes :
        /\ Needy(m) => \E p \in Cprocs : WillTry(p, m)
        /\ HeldFree(m) => \E p \in Cprocs : Dequeues(p, m)

MutexesFineMeans == MutexesFine <=> MutexWaitersHaveWaker /\ HeldHasHolder

LEMMA MutexesAreFine == MutexesFineMeans
  BY DEF MutexesFineMeans, MutexesFine, Needy, HeldFree, Dequeues, MutexWaitersHaveWaker, HeldHasHolder

\* Whoever is not concerned goes on as before.
LEMMA MutexesFineStep ==
    ASSUME MutexesFine, NEW P \in SUBSET Cprocs,
           \A q \in Cprocs \ P : stack'[q] = stack[q] /\ (Queued(q)' => Queued(q)),
           \A m \in Mutexes : Needy(m)' =>
               \/ Needy(m) /\ \A p \in P : WillTry(p, m) => WillTry(p, m)'
               \/ \E q \in Cprocs : WillTry(q, m)',
           \A m \in Mutexes : HeldFree(m)' =>
               \/ HeldFree(m) /\ \A p \in P : ~Dequeues(p, m)
               \/ \E q \in Cprocs : Dequeues(q, m)'
    PROVE  MutexesFine'
  <1>1. ASSUME NEW m \in Mutexes, Needy(m)' PROVE \E q \in Cprocs : WillTry(q, m)'
    <2>1. CASE Needy(m) /\ \A p \in P : WillTry(p, m) => WillTry(p, m)'
      <3>1. PICK q \in Cprocs : WillTry(q, m)
        BY <2>1 DEF MutexesFine
      <3>2. CASE q \notin P
        BY <3>1, <3>2 DEF WillTry, Unlocking, HasUnlocked
      <3> QED BY <2>1, <3>1, <3>2
    <2> QED BY <1>1, <2>1
  <1>2. ASSUME NEW m \in Mutexes, HeldFree(m)' PROVE \E q \in Cprocs : Dequeues(q, m)'
    <2>1. CASE HeldFree(m) /\ \A p \in P : ~Dequeues(p, m)
      <3>1. PICK q \in Cprocs : Dequeues(q, m)
        BY <2>1 DEF MutexesFine
      <3> QED BY <2>1, <3>1 DEF Dequeues
    <2> QED BY <1>2, <2>1
  <1> QED BY <1>1, <1>2 DEF MutexesFine

\* Where a cproc waits for a mutex, or is on its way to it.
KeepsTrying(p, l, b, m) ==
    \/ ~NeedsMutex(stack[p].pc, stack[p].call)
    \/ HasUnlocked(p)
    \/ /\ NeedsMutex(l, b) /\ m = stack[p].mutex
       /\ ~(l \in {"ready", "enqueue", "send"} /\ b \in {"unlock", "wait"})

LEMMA TriesOn ==
    ASSUME NEW p, NEW l, NEW b, NEW m, Walks(p, l, b, m), KeepsTrying(p, l, b, m),
           ~Unlocking(p), stack[p].pc /= "try", Queued(p)' => Queued(p)
    PROVE  \A n : WillTry(p, n) => WillTry(p, n)'
  BY DEF Walks, KeepsTrying, WillTry, Unlocking, HasUnlocked

\* A cproc goes on and leaves the mutexes alone.
LEMMA MutexesQuiet ==
    ASSUME MutexesFine, NEW p \in Cprocs, NEW l, NEW b, NEW m, Walks(p, l, b, m), KeepsTrying(p, l, b, m),
           ~Unlocking(p), stack[p].pc /= "try", UNCHANGED <<mutex, holder>>,
           \A q \in Cprocs \ {p} : Queued(q)' => Queued(q),
           NeedsMutex(stack[p].pc, stack[p].call) => (Queued(p)' => Queued(p))
    PROVE  MutexesFine'
  <1>1. \A q \in Cprocs \ {p} : stack'[q] = stack[q] /\ (Queued(q)' => Queued(q))
    BY StackIs DEF Walks
  <1>2. \A n : WillTry(p, n) => WillTry(p, n)'
    BY TriesOn DEF WillTry
  <1>3. \A n \in Mutexes : (Needy(n)' => Needy(n)) /\ (HeldFree(n)' => HeldFree(n)) /\ ~Dequeues(p, n)
    BY DEF Needy, HeldFree, Dequeues, Unlocking
  <1>4. PICK P : P = {p}
    OBVIOUS
  <1>5. /\ P \in SUBSET Cprocs /\ \A q \in Cprocs \ P : stack'[q] = stack[q] /\ (Queued(q)' => Queued(q))
        /\ \A n \in Mutexes : (Needy(n)' => Needy(n) /\ \A q \in P : WillTry(q, n) => WillTry(q, n)')
                              /\ (HeldFree(n)' => HeldFree(n) /\ \A q \in P : ~Dequeues(q, n))
    BY <1>1, <1>2, <1>3, <1>4
  <1> QED BY <1>5, MutexesFineStep

\* Queues that are left alone.
LEMMA QueuedAsBefore ==
    ASSUME \A m \in Mutexes : mutex'[m].queue = mutex[m].queue, condition' = condition
    PROVE  \A q : Queued(q)' <=> Queued(q)
  BY DEF Queued

-----------------------------------------------------------------------------
(* Who is awake.                                                           *)

Idling == {"getwaiter", "idle", "startwait"}
Awake(p) == Running(p) /\ stack[p].pc \notin Idling

LEMMA LooksStep ==
    ASSUME AwakeLooks, \E s \in Stacks : Running(s)',
           \A q \in Cprocs : stack'[q].pc = "wired" =>
               wired'[q] \/ (stack[q].pc = "wired" /\ wired'[q] = wired[q]),
           \/ ready_count' <= 0
           \/ \E q \in Cprocs : Awake(q)'
           \/ ready_count' = ready_count /\ wait_count' = wait_count /\ \A q \in Cprocs : Awake(q) => Awake(q)',
           ready_count' \in Int
    PROVE  AwakeLooks'
  <1>1. \A p \in Cprocs : stack'[p].pc = "wired" => wired'[p]
    BY DEF AwakeLooks
  <1>2. ASSUME ready_count' > 0, wait_count' > 0
        PROVE  \E p \in Cprocs : Awake(p)'
    <2>1. ~(ready_count' <= 0)
      BY <1>2
    <2> QED BY <1>2, <2>1 DEF AwakeLooks, Awake, Idling
  <1> QED BY <1>1, <1>2 DEF AwakeLooks, Awake, Idling

WakeInv == CountInv /\ MutexesFine /\ AwakeLooks

CountTypes == CountInv => ready_count \in Int /\ wait_count \in Int

LEMMA CountsAreInts == MutexInv => CountTypes
  <1> SUFFICES ASSUME MutexInv, CountInv PROVE ready_count \in Int /\ wait_count \in Int
    BY DEF CountTypes
  <1>1. PICK a, m, n : a = Len(ready) /\ m = Cardinality(MessagingStacks) /\ n = Cardinality(WaitingStacks)
    OBVIOUS
  <1>2. a \in Int /\ m \in Int /\ n \in Int /\ wakeups \in Int
    BY <1>1, MutexFields, CountsAreExact DEF CountsAre, CountInv
  <1>3. ready_count = a - (wakeups + m) /\ wait_count = n - (wakeups + m)
    BY <1>1, CountsAreExact DEF CountsAre, CountInv
  <1> QED BY <1>2, <1>3

LEMMA CountsAreIntsNext == (MutexInv => CountTypes)'
  BY CountsAreInts, PTL

\* A cproc goes on and stays awake.
LEMMA LooksOn ==
    ASSUME MutexInv', CountInv', AwakeLooks, NEW p \in Cprocs, NEW l, Running(p), Passes(p, l), on' = on, wired' = wired,
           l = "wired" => wired[p], l \notin Idling
    PROVE  AwakeLooks'
  <1>1. p \in Stacks /\ Running(p)' /\ Awake(p)'
    BY StackIs DEF Passes, Running, Awake
  <1>2. \A q \in Cprocs : stack'[q].pc = "wired" =>
               wired'[q] \/ (stack[q].pc = "wired" /\ wired'[q] = wired[q])
    BY StackIs DEF Passes
  <1>3. ready_count' \in Int
    BY CountsAreIntsNext DEF CountTypes
  <1> QED BY <1>1, <1>2, <1>3, LooksStep

\* A cproc goes on, and the counts stay.
LEMMA SameCounts ==
    ASSUME MutexInv, CountInv, NEW p \in Cprocs, NEW l, Passes(p, l), on' = on,
           stack[p].pc \notin {"send", "woken", "getwaiter", "idle", "startwait", "unwait"},
           l \notin {"send", "woken", "getwaiter", "idle", "startwait", "unwait"},
           UNCHANGED <<wakeups, ready_count, wait_count>>, Len(ready') = Len(ready)
    PROVE  CountInv'
  <1>1. p \in Stacks /\ p \notin Waiters
    BY StackIs
  <1>2. \A r \in Waiters \ {p} : Running(r)' <=> Running(r)
    BY DEF Running
  <1>3. \A r \in Stacks \ {p} : (Messaging(r)' <=> Messaging(r)) /\ (Waits(r)' <=> Waits(r))
    BY <1>2, OthersCount
  <1>4. (Messaging(p)' <=> Messaging(p)) /\ (Waits(p)' <=> Waits(p))
    BY <1>1 DEF Passes, Messaging, Waits
  <1> QED BY <1>3, <1>4, CountsStay

\* A cproc does what has to do with mutexes only.
LEMMA MutexOnly ==
    ASSUME MutexInv, MutexInv', WakeInv, NEW p \in Cprocs, NEW l, Running(p), Passes(p, l),
           UNCHANGED <<on, wired, ready, ready_count, wait_count, wakeups>>,
           stack[p].pc \notin {"send", "woken", "getwaiter", "idle", "startwait", "unwait"},
           l \notin {"send", "woken", "getwaiter", "idle", "startwait", "unwait"},
           l = "wired" => wired[p], MutexesFine'
    PROVE  WakeInv'
  <1>1. CountInv'
    BY SameCounts DEF WakeInv
  <1>2. AwakeLooks'
    BY <1>1, LooksOn DEF WakeInv, Idling
  <1> QED BY <1>1, <1>2 DEF WakeInv

-----------------------------------------------------------------------------
(* The actions that have to do with mutexes.                               *)

\* p acts on the mutex n.
LEMMA AtMutex ==
    ASSUME MutexesFine, NEW p \in Cprocs, NEW n \in Mutexes,
           \A q \in Cprocs \ {p} : stack'[q] = stack[q] /\ (Queued(q)' => Queued(q)),
           \A m \in Mutexes \ {n} : mutex'[m] = mutex[m] /\ holder'[m] = holder[m],
           stack[p].mutex = n \/ (~NeedsMutex(stack[p].pc, stack[p].call) /\ stack[p].pc /= "unlock_deq"),
           Needy(n)' => \E q \in Cprocs : WillTry(q, n)',
           HeldFree(n)' => (HeldFree(n) /\ ~Dequeues(p, n)) \/ Dequeues(p, n)'
    PROVE  MutexesFine'
  <1>1. PICK P : P = {p}
    OBVIOUS
  <1>2. P \in SUBSET Cprocs /\ \A q \in Cprocs \ P : stack'[q] = stack[q] /\ (Queued(q)' => Queued(q))
    BY <1>1
  <1>3. ASSUME NEW m \in Mutexes, Needy(m)'
        PROVE  \/ Needy(m) /\ \A q \in P : WillTry(q, m) => WillTry(q, m)'
               \/ \E q \in Cprocs : WillTry(q, m)'
    <2>1. CASE m = n
      BY <1>3, <2>1
    <2>2. CASE m /= n
      BY <1>1, <1>3, <2>2 DEF Needy, WillTry
    <2> QED BY <2>1, <2>2
  <1>4. ASSUME NEW m \in Mutexes, HeldFree(m)'
        PROVE  \/ HeldFree(m) /\ \A q \in P : ~Dequeues(q, m)
               \/ \E q \in Cprocs : Dequeues(q, m)'
    <2>1. CASE m = n
      BY <1>1, <1>4, <2>1
    <2>2. CASE m /= n
      BY <1>1, <1>4, <2>2 DEF HeldFree, Dequeues
    <2> QED BY <2>1, <2>2
  <1> QED BY <1>2, <1>3, <1>4, MutexesFineStep

LEMMA AtUserNeedsNone ==
    ASSUME NEW k, NEW p, Stands(k, p, "user")
    PROVE  ~NeedsMutex(stack[p].pc, stack[p].call) /\ ~Unlocking(p) /\ stack[p].call = "none"
  BY DEF Stands, CallsAt, InBlock, NeedsWaiter, NeedsMutex, Unlocking

LEMMA MutexLockWakeups ==
    ASSUME MutexInv, MutexInv', PlaceInv, WakeInv, NEW k \in KernelThreads, NEW p \in Cprocs,
           NEW m \in Mutexes, MutexLock(k, p, m)
    PROVE  WakeInv'
  <1>1. Stands(k, p, "user") /\ ~NeedsMutex(stack[p].pc, stack[p].call) /\ ~Unlocking(p)
    BY MutexLockWalks, AtUserNeedsNone
  <1>2. UNCHANGED <<on, wired, ready, ready_count, wait_count, wakeups, condition>>
    BY DEF MutexLock, wiring, counts
  <1>3. CASE /\ mutex[m].held /\ UNCHANGED <<mutex, holder>>
             /\ Walks(p, "solid", stack[p].call, m)
    <2>1. \A q \in Cprocs : Queued(q)' => Queued(q)
      BY <1>2, <1>3, QueuedAsBefore
    <2>2. MutexesFine'
      BY <1>1, <1>3, <2>1, MutexesQuiet DEF KeepsTrying, WakeInv, Stands
    <2> QED BY <1>1, <1>2, <1>3, <2>2, WalksPasses, MutexOnly DEF Stands
  <1>4. CASE /\ ~mutex[m].held /\ mutex' = [mutex EXCEPT ![m].held = TRUE]
             /\ holder' = [holder EXCEPT ![m] = p] /\ Walks(p, "user", "none", None)
    <2>1. \A q \in Cprocs : Queued(q)' => Queued(q)
      BY <1>2, <1>4, HeldOnly, QueuedAsBefore
    <2>2. /\ \A n \in Mutexes \ {m} : mutex'[n] = mutex[n] /\ holder'[n] = holder[n]
          /\ mutex'[m].held /\ holder'[m] = p /\ p /= None
      BY <1>4, StackIs DEF MutexInv, MutexTypes
    <2>3. MutexesFine'
      <3>1. \A q \in Cprocs \ {p} : stack'[q] = stack[q]
        BY <1>4, StackIs DEF Walks
      <3> QED BY <1>1, <2>1, <2>2, <3>1, AtMutex DEF Needy, HeldFree, WakeInv, Stands
    <2> QED BY <1>1, <1>2, <1>4, <2>3, WalksPasses, MutexOnly DEF Stands
  <1> QED BY <1>3, <1>4, MutexLockWalks

\* mutex_unlock, and its beginning in condition_wait.
LEMMA ReleaseWakeups ==
    ASSUME MutexInv, MutexInv', PlaceInv, WakeInv, NEW p \in Cprocs, NEW m \in Mutexes, NEW b,
           Release(p, m, b), Running(p), UNCHANGED <<on, wired, ready, counts, wakeups, condition>>,
           b \in {"unlock", "wait"}, stack[p].pc \in {"user", "wait_unlock"},
           stack[p].mutex = m \/ ~NeedsMutex(stack[p].pc, stack[p].call)
    PROVE  WakeInv'
  <1>1. p \in Stacks
    BY StackIs
  <1>2. /\ mutex' = [mutex EXCEPT ![m].held = FALSE] /\ holder' = [holder EXCEPT ![m] = None]
        /\ Walks(p, "unlock", b, m)
    BY <1>1, ReleaseWalks
  <1>3. \A q \in Cprocs : Queued(q)' => Queued(q)
    BY <1>2, HeldOnly, QueuedAsBefore
  <1>4. /\ \A n \in Mutexes \ {m} : mutex'[n] = mutex[n] /\ holder'[n] = holder[n]
        /\ ~mutex'[m].held
    BY <1>2 DEF MutexInv, MutexTypes
  <1>5. \A q \in Cprocs \ {p} : stack'[q] = stack[q]
    BY <1>2, StackIs DEF Walks
  <1>6. WillTry(p, m)'
    BY <1>2 DEF Walks, WillTry, Unlocking, NeedsMutex
  <1>7. MutexesFine'
    BY <1>3, <1>4, <1>5, <1>6, AtMutex DEF HeldFree, WakeInv
  <1> QED BY <1>2, <1>7, WalksPasses, MutexOnly DEF counts

LEMMA MutexUnlockWakeups ==
    ASSUME MutexInv, MutexInv', PlaceInv, WakeInv, NEW k \in KernelThreads, NEW p \in Cprocs,
           NEW m \in Mutexes, MutexUnlock(k, p, m)
    PROVE  WakeInv'
  <1>1. Stands(k, p, "user") /\ ~NeedsMutex(stack[p].pc, stack[p].call)
    BY Standing, StackIs, AtUserNeedsNone DEF MutexUnlock
  <1> QED BY <1>1, ReleaseWakeups DEF MutexUnlock, Stands, wiring

LEMMA WaitUnlockWakeups ==
    ASSUME MutexInv, MutexInv', PlaceInv, WakeInv, NEW k \in KernelThreads, NEW p \in Cprocs, WaitUnlock(k, p)
    PROVE  WakeInv'
  <1>1. Stands(k, p, "wait_unlock") /\ stack[p].mutex \in Mutexes
    BY Standing, StackIs DEF WaitUnlock, Stands, NeedsMutex
  <1> QED BY <1>1, ReleaseWakeups DEF WaitUnlock, Stands, wiring

LEMMA RetryWakeups ==
    ASSUME MutexInv, MutexInv', PlaceInv, WakeInv, NEW k \in KernelThreads, NEW p \in Cprocs, Retry(k, p)
    PROVE  WakeInv'
  <1>1. PICK m : m = stack[p].mutex
    OBVIOUS
  <1>2. Stands(k, p, "retry") /\ m \in Mutexes
    BY <1>1, RetryWalks DEF Stands, NeedsMutex
  <1>3. UNCHANGED <<on, wired, ready, ready_count, wait_count, wakeups, condition>>
    BY DEF Retry, wiring, counts
  <1>4. CASE UNCHANGED <<mutex, holder>> /\ Walks(p, "solid", stack[p].call, m)
    <2>1. \A q \in Cprocs : Queued(q)' => Queued(q)
      BY <1>3, <1>4, QueuedAsBefore
    <2>2. KeepsTrying(p, "solid", stack[p].call, m)
      BY <1>1 DEF KeepsTrying, NeedsMutex
    <2>3. MutexesFine'
      BY <1>2, <1>4, <2>1, <2>2, MutexesQuiet DEF WakeInv, Stands, Unlocking
    <2> QED BY <1>2, <1>3, <1>4, <2>3, WalksPasses, MutexOnly DEF Stands
  <1>5. CASE /\ ~mutex[m].held /\ mutex' = [mutex EXCEPT ![m].held = TRUE]
             /\ holder' = [holder EXCEPT ![m] = p] /\ Walks(p, "user", "none", None)
    <2>1. \A q \in Cprocs : Queued(q)' => Queued(q)
      BY <1>2, <1>3, <1>5, HeldOnly, QueuedAsBefore
    <2>2. /\ \A n \in Mutexes \ {m} : mutex'[n] = mutex[n] /\ holder'[n] = holder[n]
          /\ mutex'[m].held /\ holder'[m] = p /\ p /= None
      BY <1>2, <1>5, StackIs DEF MutexInv, MutexTypes
    <2>3. MutexesFine'
      <3>1. \A q \in Cprocs \ {p} : stack'[q] = stack[q]
        BY <1>5, StackIs DEF Walks
      <3> QED BY <1>1, <1>2, <2>1, <2>2, <3>1, AtMutex DEF Needy, HeldFree, WakeInv
    <2> QED BY <1>2, <1>3, <1>5, <2>3, WalksPasses, MutexOnly DEF Stands
  <1> QED BY <1>1, <1>4, <1>5, RetryWalks

LEMMA SolidQueueWakeups ==
    ASSUME MutexInv, MutexInv', PlaceInv, WakeInv, NEW k \in KernelThreads, NEW p \in Cprocs, SolidQueue(k, p)
    PROVE  WakeInv'
  <1>1. PICK m : m = stack[p].mutex
    OBVIOUS
  <1>2. /\ Stands(k, p, "solid") /\ m \in Mutexes /\ Walks(p, "try", stack[p].call, m)
        /\ mutex' = [mutex EXCEPT ![m].lock = TRUE, ![m].queue = IF mutex[m].queue = <<>> THEN <<p>> ELSE @]
        /\ UNCHANGED holder
    <2>1. PICK first : first = (mutex[m].queue = <<>>)
      OBVIOUS
    <2>2. /\ Stands(k, p, "solid") /\ Walks(p, "try", stack[p].call, m)
          /\ mutex' = [mutex EXCEPT ![m].lock = TRUE, ![m].queue = IF first THEN <<p>> ELSE @]
          /\ UNCHANGED holder
      BY <1>1, <2>1, SolidQueueWalks
    <2> QED BY <1>1, <2>1, <2>2 DEF Stands, NeedsMutex
  <1>3. UNCHANGED <<on, wired, ready, ready_count, wait_count, wakeups, condition>>
    BY DEF SolidQueue, wiring, counts
  <1>4. /\ \A n \in Mutexes \ {m} : mutex'[n] = mutex[n]
        /\ mutex'[m].queue = (IF mutex[m].queue = <<>> THEN <<p>> ELSE mutex[m].queue)
        /\ mutex'[m].held = mutex[m].held
    BY <1>2, MutexFields
  <1>5. ASSUME NEW q \in Cprocs \ {p}
        PROVE  stack'[q] = stack[q] /\ (Queued(q)' => Queued(q))
    <2>1. \A n \in Mutexes : q \in Range(mutex'[n].queue) => q \in Range(mutex[n].queue)
      BY <1>4, Single
    <2> QED BY <1>2, <1>3, <2>1, StackIs DEF Walks, Queued
  <1>6. WillTry(p, m)'
    BY <1>2 DEF Walks, WillTry, NeedsMutex
  <1>7. MutexesFine'
    <2>1. HeldFree(m)' => HeldFree(m) /\ ~Dequeues(p, m)
      BY <1>2, <1>4 DEF HeldFree, Dequeues, Stands
    <2> QED BY <1>1, <1>2, <1>4, <1>5, <1>6, <2>1, AtMutex DEF WakeInv
  <1> QED BY <1>2, <1>3, <1>7, WalksPasses, MutexOnly DEF Stands

LEMMA SolidTryWakeups ==
    ASSUME MutexInv, MutexInv', PlaceInv, WakeInv, NEW k \in KernelThreads, NEW p \in Cprocs, SolidTry(k, p)
    PROVE  WakeInv'
  <1>1. PICK m : m = stack[p].mutex
    OBVIOUS
  <1>2. Stands(k, p, "try") /\ m \in Mutexes /\ p \in Stacks
    BY <1>1, SolidTryWalks DEF Stands, NeedsMutex
  <1>3. UNCHANGED <<on, wired, ready, ready_count, wait_count, wakeups, condition>>
    BY DEF SolidTry, wiring, counts
  <1>4. CASE /\ mutex[m].held /\ UNCHANGED holder
             /\ mutex' = [mutex EXCEPT ![m].lock = FALSE,
                                       ![m].queue = IF stack[p].queued THEN @ ELSE Append(@, p)]
             /\ Walks(p, IF wired[p] THEN "wired" ELSE "block", "block", m)
    <2>1. /\ \A n \in Mutexes \ {m} : mutex'[n] = mutex[n]
          /\ mutex'[m].queue = (IF stack[p].queued THEN mutex[m].queue ELSE Append(mutex[m].queue, p))
          /\ mutex'[m].held
      BY <1>2, <1>4, MutexFields
    <2>2. ASSUME NEW q \in Cprocs \ {p}
          PROVE  stack'[q] = stack[q] /\ (Queued(q)' => Queued(q))
      <3>1. q \in Range(mutex'[m].queue) => q \in Range(mutex[m].queue)
        <4>1. PICK s \in Seq(Cprocs) : s = mutex[m].queue
          BY <1>2, MutexFields
        <4>2. q \in Range(Append(s, p)) => q \in Range(s)
          BY DEF Range
        <4> QED BY <2>1, <4>1, <4>2
      <3>2. \A n \in Mutexes : q \in Range(mutex'[n].queue) => q \in Range(mutex[n].queue)
        BY <2>1, <3>1
      <3> QED BY <1>3, <1>4, <3>2, StackIs DEF Walks, Queued
    <2>3. MutexesFine'
      <3>1. HeldFree(m)' => HeldFree(m) /\ ~Dequeues(p, m)
        BY <1>2, <1>4, <2>1 DEF HeldFree, Dequeues, Stands
      <3> QED BY <1>1, <1>2, <1>4, <2>1, <2>2, <3>1, AtMutex DEF WakeInv, Needy
    <2>4. PICK l \in {"wired", "block"} : l = IF wired[p] THEN "wired" ELSE "block"
      OBVIOUS
    <2>5. Passes(p, l) /\ (l = "wired" => wired[p])
      BY <1>4, <2>4, WalksPasses
    <2> QED BY <1>2, <1>3, <2>3, <2>5, MutexOnly DEF Stands
  <1>5. CASE /\ ~mutex[m].held
             /\ mutex' = [mutex EXCEPT ![m].lock = FALSE, ![m].held = TRUE,
                                       ![m].queue = IF stack[p].queued THEN Tail(@) ELSE @]
             /\ holder' = [holder EXCEPT ![m] = p] /\ Walks(p, "user", "none", None)
    <2>1. /\ \A n \in Mutexes \ {m} : mutex'[n] = mutex[n] /\ holder'[n] = holder[n]
          /\ mutex'[m].queue = (IF stack[p].queued THEN Tail(mutex[m].queue) ELSE mutex[m].queue)
          /\ mutex'[m].held /\ holder'[m] = p /\ p /= None
      BY <1>2, <1>5, MutexFields, StackIs DEF MutexInv, MutexTypes
    <2>2. ASSUME NEW q \in Cprocs \ {p}
          PROVE  stack'[q] = stack[q] /\ (Queued(q)' => Queued(q))
      <3>1. q \in Range(mutex'[m].queue) => q \in Range(mutex[m].queue)
        <4>1. PICK s \in Seq(Cprocs) : s = mutex[m].queue
          BY <1>2, MutexFields
        <4>2. s /= <<>> \/ ~stack[p].queued
          BY <1>1, <1>2, <4>1 DEF MutexInv, OneTrier, Stands
        <4>3. s /= <<>> => (q \in Range(Tail(s)) => q \in Range(s))
          BY DEF Range
        <4> QED BY <2>1, <4>1, <4>2, <4>3
      <3>2. \A n \in Mutexes : q \in Range(mutex'[n].queue) => q \in Range(mutex[n].queue)
        BY <2>1, <3>1
      <3> QED BY <1>3, <1>5, <3>2, StackIs DEF Walks, Queued
    <2>3. MutexesFine'
      BY <1>1, <1>2, <2>1, <2>2, AtMutex DEF WakeInv, Needy, HeldFree
    <2> QED BY <1>2, <1>3, <1>5, <2>3, WalksPasses, MutexOnly DEF Stands
  <1> QED BY <1>1, <1>4, <1>5, SolidTryWalks

\* p goes on from looking at the queue of a mutex.
LEMMA LookForWaitersWakeups ==
    ASSUME MutexInv, MutexInv', PlaceInv, WakeInv, NEW k \in KernelThreads, NEW p \in Cprocs, LookForWaiters(k, p)
    PROVE  WakeInv'
  <1>1. PICK m : m = stack[p].mutex
    OBVIOUS
  <1>2. Stands(k, p, "unlock") /\ m \in Mutexes
    BY <1>1, LookForWaitersWalks DEF Stands, NeedsMutex
  <1>3. UNCHANGED <<on, wired, ready, ready_count, wait_count, wakeups, condition, mutex, holder>>
    BY DEF LookForWaiters, wiring, counts
  <1>4. PICK l, b, n :
           /\ l \in {"user", "wait_block", "unlock_solid"}
           /\ Walks(p, l, b, n)
           /\ mutex[m].queue = <<>> \/ (l = "unlock_solid" /\ n = m)
    BY <1>1, LookForWaitersWalks
  <1>5. \A q \in Cprocs \ {p} : stack'[q] = stack[q] /\ (Queued(q)' => Queued(q))
    BY <1>3, <1>4, StackIs, QueuedAsBefore DEF Walks
  <1>6. Needy(m)' => WillTry(p, m)'
    BY <1>3, <1>4 DEF Walks, WillTry, Unlocking, NeedsMutex, Needy
  <1>7. MutexesFine'
    <2>1. HeldFree(m)' => HeldFree(m) /\ ~Dequeues(p, m)
      BY <1>2, <1>3 DEF HeldFree, Dequeues, Stands
    <2> QED BY <1>1, <1>2, <1>3, <1>5, <1>6, <2>1, AtMutex DEF WakeInv
  <1> QED BY <1>2, <1>3, <1>4, <1>7, WalksPasses, MutexOnly DEF Stands

LEMMA UnlockSolidWakeups ==
    ASSUME MutexInv, MutexInv', PlaceInv, WakeInv, NEW k \in KernelThreads, NEW p \in Cprocs, UnlockSolid(k, p)
    PROVE  WakeInv'
  <1>1. PICK m : m = stack[p].mutex
    OBVIOUS
  <1>2. /\ Stands(k, p, "unlock_solid") /\ m \in Mutexes
        /\ mutex' = [mutex EXCEPT ![m].held = TRUE] /\ UNCHANGED holder
    BY <1>1, UnlockSolidWalks DEF Stands, NeedsMutex
  <1>3. UNCHANGED <<on, wired, ready, ready_count, wait_count, wakeups, condition>>
    BY DEF UnlockSolid, wiring, counts
  <1>4. PICK l, b, n :
           /\ l \in {"user", "wait_block", "unlock_deq"}
           /\ Walks(p, l, b, n)
           /\ mutex[m].held \/ (l = "unlock_deq" /\ n = m)
    <2>1. CASE mutex[m].held /\ Walks(p, "user", "none", None)
      BY <2>1
    <2>2. CASE mutex[m].held /\ Walks(p, "wait_block", "none", m)
      BY <2>2
    <2>3. CASE Walks(p, "unlock_deq", stack[p].call, m)
      BY <2>3
    <2> QED BY <1>1, <2>1, <2>2, <2>3, UnlockSolidWalks
  <1>5. \A q \in Cprocs \ {p} : stack'[q] = stack[q] /\ (Queued(q)' => Queued(q))
    BY <1>2, <1>3, <1>4, StackIs, HeldOnly, QueuedAsBefore DEF Walks
  <1>6. \A n1 \in Mutexes \ {m} : mutex'[n1] = mutex[n1]
    BY <1>2
  <1>7. mutex'[m].held
    BY <1>2, MutexFields
  <1>8. HeldFree(m)' => (HeldFree(m) /\ ~Dequeues(p, m)) \/ Dequeues(p, m)'
    <2>1. CASE mutex[m].held
      BY <1>2, <2>1 DEF HeldFree, Dequeues, Stands
    <2>2. CASE l = "unlock_deq" /\ n = m
      BY <1>4, <2>2 DEF Dequeues, Walks
    <2> QED BY <1>4, <2>1, <2>2
  <1>9. MutexesFine'
    BY <1>1, <1>2, <1>5, <1>6, <1>7, <1>8, AtMutex DEF WakeInv, Needy
  <1> QED BY <1>2, <1>3, <1>4, <1>9, WalksPasses, MutexOnly DEF Stands

LEMMA UnlockDequeueWakeups ==
    ASSUME MutexInv, MutexInv', PlaceInv, WakeInv, NEW k \in KernelThreads, NEW p \in Cprocs,
           UnlockDequeue(k, p)
    PROVE  WakeInv'
  <1>1. PICK m, q : m = stack[p].mutex /\ q = mutex[m].queue
    OBVIOUS
  <1>2. /\ Stands(k, p, "unlock_deq") /\ m \in Mutexes /\ UNCHANGED holder
        /\ mutex' = [mutex EXCEPT ![m].held = FALSE, ![m].queue = IF q = <<>> THEN q ELSE Tail(q)]
    BY <1>1, UnlockDequeueWalks DEF Stands, NeedsMutex
  <1>3. UNCHANGED <<on, wired, ready, ready_count, wait_count, wakeups, condition>>
    BY DEF UnlockDequeue, wiring, counts
  <1>4. PICK l, b, n : l \in {"user", "wait_block", "ready"} /\ Walks(p, l, b, n)
    <2>1. CASE Walks(p, "user", "none", None)
      BY <2>1
    <2>2. CASE Walks(p, "wait_block", "none", m)
      BY <2>2
    <2>3. CASE Walks(p, "ready", stack[p].call, m)
      BY <2>3
    <2> QED BY <1>1, <2>1, <2>2, <2>3, UnlockDequeueWalks
  <1>5. /\ \A j \in Mutexes \ {m} : mutex'[j] = mutex[j]
        /\ mutex'[m].queue = (IF q = <<>> THEN q ELSE Tail(q))
        /\ ~mutex'[m].held
    BY <1>2, MutexFields
  <1>6. q \in Seq(Cprocs) /\ IsInjective(q) /\ Apart
    BY <1>1, <1>2, MutexFields, PlacesApart DEF Apart
  <1>7. q /= <<>> => Head(q) \in Range(q) /\ Head(q) \in Cprocs /\ Range(Tail(q)) = Range(q) \ {Head(q)}
    BY <1>6, Headed
  <1>8. ASSUME NEW r \in Cprocs \ {p}
        PROVE  stack'[r] = stack[r] /\ (Queued(r)' => Queued(r))
    <2>1. r \in Range(mutex'[m].queue) => r \in Range(mutex[m].queue)
      BY <1>1, <1>5, <1>7
    <2>2. \A j \in Mutexes : r \in Range(mutex'[j].queue) => r \in Range(mutex[j].queue)
      BY <1>5, <2>1
    <2> QED BY <1>3, <1>4, <2>2, StackIs DEF Walks, Queued
  <1>9. ASSUME Needy(m)' PROVE \E r \in Cprocs : WillTry(r, m)'
    <2>1. PICK h : h = Head(q)
      OBVIOUS
    <2>2. q /= <<>> /\ h \in Cprocs /\ h \in Range(mutex[m].queue) /\ h \notin Range(mutex'[m].queue)
      BY <1>1, <1>5, <1>7, <1>9, <2>1 DEF Needy
    <2>3. /\ stack[h].mutex = m /\ stack[h].call /= "yield"
          /\ stack[h].pc \in InBlock \cup {"try", "wired", "switch", "startwait", "retry"}
      BY <1>2, <2>2, Linkings DEF Agrees, LinkAgrees
    <2>4. h /= p /\ NeedsMutex(stack[h].pc, stack[h].call) /\ ~HasUnlocked(h) /\ stack[h].pc \notin {"ready", "enqueue", "send"}
      BY <1>2, <2>3 DEF Stands, InBlock, NeedsMutex, HasUnlocked
    <2>5. ~Queued(h)'
      <3>1. \A j \in Mutexes \ {m} : h \notin Range(mutex[j].queue)
        BY <1>2, <1>6, <2>2 DEF Apart
      <3>2. \A c \in Conditions : h \notin Range(condition[c])
        BY <1>2, <1>6, <2>2 DEF Apart
      <3> QED BY <1>3, <1>5, <2>2, <3>1, <3>2 DEF Queued
    <2>6. stack'[h] = stack[h]
      BY <1>8, <2>2, <2>4
    <2>7. WillTry(h, m)'
      BY <2>3, <2>4, <2>5, <2>6 DEF WillTry, HasUnlocked
    <2> QED BY <2>2, <2>7
  <1>10. MutexesFine'
    BY <1>1, <1>2, <1>5, <1>8, <1>9, AtMutex DEF WakeInv, HeldFree
  <1> QED BY <1>2, <1>3, <1>4, <1>10, WalksPasses, MutexOnly DEF Stands

LEMMA ConditionWaitWakeups ==
    ASSUME MutexInv, MutexInv', PlaceInv, WakeInv, NEW k \in KernelThreads, NEW p \in Cprocs,
           NEW c \in Conditions, NEW m \in Mutexes, ConditionWait(k, p, c, m)
    PROVE  WakeInv'
  <1>1. /\ Stands(k, p, "user") /\ Walks(p, "wait_unlock", stack[p].call, m)
        /\ condition' = [condition EXCEPT ![c] = Append(@, p)]
    BY ConditionWaitWalks
  <1>2. ~NeedsMutex(stack[p].pc, stack[p].call) /\ ~Unlocking(p) /\ stack[p].pc /= "try"
    BY <1>1, AtUserNeedsNone DEF Stands
  <1>3. UNCHANGED <<on, wired, ready, ready_count, wait_count, wakeups, mutex, holder>>
    BY DEF ConditionWait, wiring, counts
  <1>4. ASSUME NEW q \in Cprocs \ {p}, Queued(q)' PROVE Queued(q)
    <2>1. ASSUME NEW d \in Conditions, q \in Range(condition'[d]) PROVE q \in Range(condition[d])
      <3>1. PICK s \in Seq(Cprocs) : s = condition[c]
        BY MutexFields
      <3>2. q \in Range(Append(s, p)) => q \in Range(s)
        BY DEF Range
      <3>3. CASE d = c
        BY <1>1, <2>1, <3>1, <3>2, <3>3, MutexFields
      <3>4. CASE d /= c
        BY <1>1, <2>1, <3>4, MutexFields
      <3> QED BY <3>3, <3>4
    <2> QED BY <1>3, <1>4, <2>1 DEF Queued
  <1>5. MutexesFine'
    BY <1>1, <1>2, <1>3, <1>4, MutexesQuiet DEF KeepsTrying, WakeInv
  <1> QED BY <1>1, <1>3, <1>5, WalksPasses, MutexOnly DEF Stands

LEMMA WaitBlockWakeups ==
    ASSUME MutexInv, MutexInv', PlaceInv, WakeInv, NEW k \in KernelThreads, NEW p \in Cprocs, WaitBlock(k, p)
    PROVE  WakeInv'
  <1>1. PICK m : m = stack[p].mutex
    OBVIOUS
  <1>2. Stands(k, p, "wait_block")
    BY WaitBlockWalks
  <1>3. UNCHANGED <<on, wired, ready, ready_count, wait_count, wakeups, mutex, holder, condition>>
    BY DEF WaitBlock, wiring, counts
  <1>4. PICK l, b : l \in {"retry", "wired", "block"} /\ (l = "wired" => wired[p]) /\ Walks(p, l, b, m)
    BY <1>1, WaitBlockWalks
  <1>5. \A q \in Cprocs : Queued(q)' => Queued(q)
    BY <1>3, QueuedAsBefore
  <1>6. KeepsTrying(p, l, b, m)
    BY <1>1, <1>4 DEF KeepsTrying, NeedsMutex
  <1>7. MutexesFine'
    BY <1>2, <1>3, <1>4, <1>5, <1>6, MutexesQuiet DEF WakeInv, Stands, Unlocking
  <1> QED BY <1>2, <1>3, <1>4, <1>7, WalksPasses, MutexOnly DEF Stands

LEMMA WakeWakeups ==
    ASSUME MutexInv, MutexInv', PlaceInv, WakeInv, NEW k \in KernelThreads, NEW p \in Cprocs,
           NEW c \in Conditions, Wake(k, p, c)
    PROVE  WakeInv'
  <1>1. /\ Stands(k, p, "user") /\ Walks(p, "ready", "wake", stack[p].mutex)
        /\ \A d \in Conditions : Range(condition'[d]) \subseteq Range(condition[d])
    BY WakeWalks
  <1>2. ~NeedsMutex(stack[p].pc, stack[p].call) /\ ~Unlocking(p) /\ stack[p].pc /= "try"
    BY <1>1, AtUserNeedsNone DEF Stands
  <1>3. UNCHANGED <<on, wired, ready, ready_count, wait_count, wakeups, mutex, holder>>
    BY DEF Wake, wiring, counts
  <1>4. \A q \in Cprocs : Queued(q)' => Queued(q)
    BY <1>1, <1>3 DEF Queued
  <1>5. MutexesFine'
    BY <1>1, <1>2, <1>3, <1>4, MutexesQuiet DEF KeepsTrying, WakeInv
  <1> QED BY <1>1, <1>3, <1>5, WalksPasses, MutexOnly DEF Stands

-----------------------------------------------------------------------------
(* cproc_ready and cproc_block.                                            *)

LEMMA MutexesLeft ==
    ASSUME MutexesFine, NEW p \in Cprocs, NEW l, NEW b, NEW m, Walks(p, l, b, m), KeepsTrying(p, l, b, m),
           ~Unlocking(p), stack[p].pc /= "try", UNCHANGED <<mutex, holder, condition>>
    PROVE  MutexesFine'
  <1>1. \A q \in Cprocs : Queued(q)' => Queued(q)
    BY QueuedAsBefore
  <1> QED BY <1>1, MutexesQuiet

\* Where p goes on from cproc_ready.
LEMMA OnwardWalks ==
    ASSUME NEW k, NEW p, NEW a, a \in {"ready", "enqueue", "send"}, Stands(k, p, a), Onward(p)
    PROVE  \E l, b, m : /\ l \in {"user", "wait_block", "retry", "ready"}
                        /\ Walks(p, l, b, m) /\ KeepsTrying(p, l, b, m)
  <1>1. stack[p].pc = a /\ stack[p].call \in {"unlock", "wait", "block", "wake"}
    BY DEF Stands, CallsAt, InBlock, NeedsWaiter
  <1>2. CASE stack[p].call \in {"unlock", "wait", "wake"}
    <2>1. \A l, b, m : KeepsTrying(p, l, b, m)
      BY <1>1, <1>2 DEF KeepsTrying, NeedsMutex, HasUnlocked
    <2>2. CASE Walks(p, "ready", stack[p].call, stack[p].mutex)
      BY <2>1, <2>2
    <2>3. CASE Back(p)
      <3>1. stack[p].call \in Calls
        BY <1>1 DEF Calls
      <3>2. Walks(p, "user", "none", None) \/ Walks(p, "wait_block", "none", stack[p].mutex)
        BY <1>2, <2>3, <3>1, BackWalks
      <3>3. CASE Walks(p, "user", "none", None)
        BY <2>1, <3>3
      <3>4. CASE Walks(p, "wait_block", "none", stack[p].mutex)
        BY <2>1, <3>4
      <3> QED BY <3>2, <3>3, <3>4
    <2> QED BY <2>2, <2>3 DEF Onward
  <1>3. CASE stack[p].call = "block"
    <2>1. CASE Walks(p, "ready", stack[p].call, stack[p].mutex)
      <3>1. KeepsTrying(p, "ready", stack[p].call, stack[p].mutex)
        BY <1>3 DEF KeepsTrying, NeedsMutex
      <3> QED BY <2>1, <3>1
    <2>2. CASE Back(p)
      <3>1. stack[p].call \in Calls
        BY <1>1 DEF Calls
      <3>2. Walks(p, "retry", "none", stack[p].mutex)
        BY <1>3, <2>2, <3>1, BackWalks
      <3>3. KeepsTrying(p, "retry", "none", stack[p].mutex)
        BY DEF KeepsTrying, NeedsMutex
      <3> QED BY <3>2, <3>3
    <2> QED BY <2>1, <2>2 DEF Onward
  <1> QED BY <1>1, <1>2, <1>3

\* p goes on and the mutexes are left alone.
LEMMA GoesOnAwake ==
    ASSUME MutexInv', WakeInv, NEW k, NEW p \in Cprocs, NEW a, Stands(k, p, a),
           NEW l, NEW b, NEW m, Walks(p, l, b, m), KeepsTrying(p, l, b, m),
           a \notin {"unlock", "unlock_solid", "unlock_deq", "try"},
           UNCHANGED <<on, wired, mutex, holder, condition>>,
           l = "wired" => wired[p], l \notin Idling, CountInv'
    PROVE  WakeInv'
  <1>1. ~Unlocking(p) /\ stack[p].pc /= "try" /\ Running(p) /\ Passes(p, l)
    BY WalksPasses DEF Stands, Unlocking
  <1>2. MutexesFine'
    BY <1>1, MutexesLeft DEF WakeInv
  <1>3. AwakeLooks'
    BY <1>1, LooksOn DEF WakeInv
  <1> QED BY <1>2, <1>3 DEF WakeInv

\* A cproc goes on from a to l; f more messages are under way and w more threads wait.
LEMMA GoesCounted ==
    ASSUME MutexInv, MutexInv', CountInv, NEW p \in Cprocs, NEW a, stack[p].pc = a, NEW l, Passes(p, l), on' = on,
           a /= "woken", l /= "woken",
           NEW f, NEW w, NEW d, f = Sends(l) - Sends(a), w = WaitsAt(l) - WaitsAt(a),
           NEW v, v \in Int, d \in Int, wakeups' = wakeups + v, wakeups' \in Nat, Len(ready') = Len(ready) + d,
           ready_count' = ready_count + d - v - f, wait_count' = wait_count + w - v - f
    PROVE  CountInv'
  <1>1. \A r \in Waiters : Running(r)' <=> Running(r)
    BY DEF Running
  <1>2. PICK x, y, z : x = Len(ready) /\ y = Len(ready') /\ z = wakeups
    OBVIOUS
  <1>3. x \in Nat /\ y \in Nat /\ z \in Nat
    <2>1. ready \in Seq(Cprocs) /\ ready' \in Seq(Cprocs)
      BY DEF MutexInv, MutexTypes
    <2> QED BY <1>2, <2>1 DEF CountInv
  <1>4. y - x = d /\ (z + v) - z = v /\ wakeups' = z + v
    <2>1. y = x + d /\ wakeups' = z + v
      BY <1>2
    <2> QED BY ONLY <1>3, <2>1, v \in Int, d \in Int
  <1>5. /\ ready_count' = ready_count + (Len(ready') - Len(ready)) - (wakeups' - wakeups) - (Sends(l) - Sends(a))
        /\ wait_count' = wait_count + (WaitsAt(l) - WaitsAt(a)) - (wakeups' - wakeups) - (Sends(l) - Sends(a))
    BY <1>2, <1>4
  <1>6. Len(ready') \in Nat
    BY <1>2, <1>3
  <1> QED BY <1>1, <1>5, <1>6, CprocCounts

LEMMA ReadyWakeups ==
    ASSUME MutexInv, MutexInv', PlaceInv, WakeInv, NEW k \in KernelThreads, NEW p \in Cprocs, Ready(k, p)
    PROVE  WakeInv'
  <1>1. /\ Stands(k, p, "ready")
        /\ Onward(p) \/ Walks(p, "enqueue", stack[p].call, stack[p].mutex)
    BY ReadyWalks
  <1>2. UNCHANGED <<on, wired, ready, ready_count, wait_count, wakeups, mutex, holder, condition>>
    BY DEF Ready, counts
  <1>3. PICK l, b, m : /\ l \in {"user", "wait_block", "retry", "ready", "enqueue"}
                       /\ Walks(p, l, b, m) /\ KeepsTrying(p, l, b, m)
    <2>1. CASE Onward(p)
      BY <1>1, <2>1, OnwardWalks
    <2>2. CASE Walks(p, "enqueue", stack[p].call, stack[p].mutex)
      <3>1. stack[p].pc = "ready"
        BY <1>1 DEF Stands
      <3>2. KeepsTrying(p, "enqueue", stack[p].call, stack[p].mutex)
        BY <3>1 DEF KeepsTrying, NeedsMutex, HasUnlocked
      <3> QED BY <2>2, <3>2
    <2> QED BY <1>1, <2>1, <2>2
  <1>4. CountInv'
    BY <1>1, <1>2, <1>3, WalksPasses, SameCounts DEF WakeInv, Stands
  <1> QED BY <1>1, <1>2, <1>3, <1>4, GoesOnAwake DEF Idling

LEMMA EnqueueWakeups ==
    ASSUME MutexInv, MutexInv', PlaceInv, WakeInv, NEW k \in KernelThreads, NEW p \in Cprocs, Enqueue(k, p)
    PROVE  WakeInv'
  <1>1. Stands(k, p, "enqueue") /\ Len(ready') = Len(ready) + 1 /\ stack[p].pc = "enqueue"
    BY EnqueueWalks DEF Stands
  <1>2. UNCHANGED <<on, wired, wakeups, mutex, holder, condition>>
    BY DEF Enqueue, wiring
  <1>3. ready_count \in Int /\ wait_count \in Int /\ wakeups \in Nat
    BY CountsAreInts DEF CountTypes, WakeInv, CountInv
  <1>4. PICK f0, f1, w, d, v : f0 = 0 /\ f1 = 1 /\ w = 0 /\ d = 1 /\ v = 0
    OBVIOUS
  <1>5. CASE /\ ready_count' = ready_count /\ wait_count' = wait_count - 1
             /\ Walks(p, "send", stack[p].call, stack[p].mutex)
    <2>1. f1 = Sends("send") - Sends("enqueue") /\ w = WaitsAt("send") - WaitsAt("enqueue")
      BY <1>4 DEF Sends, WaitsAt
    <2>2. wakeups' = wakeups + v /\ ready_count' = ready_count + d - v - f1 /\ wait_count' = wait_count + w - v - f1
      BY <1>2, <1>3, <1>4, <1>5
    <2>3. CountInv'
      <3>1. /\ v \in Int /\ d \in Int /\ wakeups' \in Nat /\ Len(ready') = Len(ready) + d
            /\ Passes(p, "send") /\ CountInv
        BY <1>1, <1>2, <1>3, <1>4, <1>5, WalksPasses DEF WakeInv
      <3> QED BY <1>1, <1>2, <2>1, <2>2, <3>1, GoesCounted
    <2>4. KeepsTrying(p, "send", stack[p].call, stack[p].mutex)
      BY <1>1 DEF KeepsTrying, NeedsMutex, HasUnlocked
    <2> QED BY <1>1, <1>2, <1>5, <2>3, <2>4, GoesOnAwake DEF Idling
  <1>6. CASE ready_count' = ready_count + 1 /\ wait_count' = wait_count /\ Onward(p)
    <2>1. PICK l, b, m : /\ l \in {"user", "wait_block", "retry", "ready"}
                         /\ Walks(p, l, b, m) /\ KeepsTrying(p, l, b, m)
      BY <1>1, <1>6, OnwardWalks
    <2>2. f0 = Sends(l) - Sends("enqueue") /\ w = WaitsAt(l) - WaitsAt("enqueue")
      BY <1>4, <2>1 DEF Sends, WaitsAt
    <2>3. wakeups' = wakeups + v /\ ready_count' = ready_count + d - v - f0 /\ wait_count' = wait_count + w - v - f0
      BY <1>2, <1>3, <1>4, <1>6
    <2>4. CountInv'
      <3>1. /\ v \in Int /\ d \in Int /\ wakeups' \in Nat /\ Len(ready') = Len(ready) + d
            /\ Passes(p, l) /\ l /= "woken" /\ CountInv
        BY <1>1, <1>2, <1>3, <1>4, <2>1, WalksPasses DEF WakeInv
      <3> QED BY <1>1, <1>2, <2>2, <2>3, <3>1, GoesCounted
    <2> QED BY <1>1, <1>2, <2>1, <2>4, GoesOnAwake DEF Idling
  <1> QED BY <1>5, <1>6, EnqueueWalks

LEMMA SendWakeups ==
    ASSUME MutexInv, MutexInv', PlaceInv, WakeInv, NEW k \in KernelThreads, NEW p \in Cprocs, Send(k, p)
    PROVE  WakeInv'
  <1>1. Stands(k, p, "send") /\ Onward(p) /\ stack[p].pc = "send"
    BY SendWalks DEF Stands
  <1>2. UNCHANGED <<on, wired, ready, ready_count, wait_count, mutex, holder, condition>> /\ wakeups' = wakeups + 1
    BY DEF Send, wiring, counts
  <1>3. ready_count \in Int /\ wait_count \in Int /\ wakeups \in Nat
    BY CountsAreInts DEF CountTypes, WakeInv, CountInv
  <1>4. PICK f, w, d, v : f = -1 /\ w = 0 /\ d = 0 /\ v = 1
    OBVIOUS
  <1>5. PICK l, b, m : /\ l \in {"user", "wait_block", "retry", "ready"}
                       /\ Walks(p, l, b, m) /\ KeepsTrying(p, l, b, m)
    BY <1>1, OnwardWalks
  <1>6. f = Sends(l) - Sends("send") /\ w = WaitsAt(l) - WaitsAt("send")
    BY <1>4, <1>5 DEF Sends, WaitsAt
  <1>7. wakeups' = wakeups + v /\ ready_count' = ready_count + d - v - f /\ wait_count' = wait_count + w - v - f
    BY <1>2, <1>3, <1>4
  <1>8. CountInv'
    <2>1. /\ v \in Int /\ d \in Int /\ wakeups' \in Nat /\ Len(ready') = Len(ready) + d
          /\ Passes(p, l) /\ l /= "woken" /\ CountInv
      BY <1>2, <1>3, <1>4, <1>5, WalksPasses, MutexFields DEF WakeInv
    <2> QED BY <1>1, <1>2, <1>6, <1>7, <2>1, GoesCounted
  <1> QED BY <1>1, <1>2, <1>5, <1>8, GoesOnAwake DEF Idling

LEMMA ReceiveWiredWakeups ==
    ASSUME MutexInv, MutexInv', PlaceInv, WakeInv, NEW k \in KernelThreads, NEW p \in Cprocs, ReceiveWired(k, p)
    PROVE  WakeInv'
  <1>1. Stands(k, p, "wired") /\ Walks(p, "retry", "none", stack[p].mutex)
    BY ReceiveWiredWalks
  <1>2. UNCHANGED <<on, wired, ready, ready_count, wait_count, wakeups, mutex, holder, condition>>
    BY DEF ReceiveWired, counts
  <1>3. CountInv'
    BY <1>1, <1>2, WalksPasses, SameCounts DEF WakeInv, Stands
  <1>4. KeepsTrying(p, "retry", "none", stack[p].mutex)
    BY DEF KeepsTrying, NeedsMutex
  <1> QED BY <1>1, <1>2, <1>3, <1>4, GoesOnAwake DEF Idling

LEMMA BlockSwitchWakeups ==
    ASSUME MutexInv, MutexInv', PlaceInv, WakeInv, NEW k \in KernelThreads, NEW p \in Cprocs, BlockSwitch(k, p)
    PROVE  WakeInv'
  <1>1. Stands(k, p, "keep") /\ stack[p].call = "block"
    BY BlockSwitchWalks DEF Stands, CallsAt, InBlock, NeedsWaiter
  <1>2. UNCHANGED <<on, wired, ready, ready_count, wait_count, wakeups, mutex, holder, condition>>
    BY DEF BlockSwitch, wiring, counts
  <1>3. PICK l : l \in {"ready", "switch"} /\ Walks(p, l, stack[p].call, stack[p].mutex)
    BY BlockSwitchWalks
  <1>4. CountInv'
    BY <1>1, <1>2, <1>3, WalksPasses, SameCounts DEF WakeInv, Stands
  <1>5. KeepsTrying(p, l, stack[p].call, stack[p].mutex)
    BY <1>1 DEF KeepsTrying, NeedsMutex
  <1> QED BY <1>1, <1>2, <1>3, <1>4, <1>5, GoesOnAwake DEF Idling

LEMMA UnwaiterWakeups ==
    ASSUME MutexInv, MutexInv', PlaceInv, WakeInv, NEW k \in KernelThreads, NEW p \in Cprocs, Unwaiter(k, p)
    PROVE  WakeInv'
  <1>1. Stands(k, p, "unwaiter") /\ Walks(p, "retry", "none", stack[p].mutex)
    BY UnwaiterWalks
  <1>2. UNCHANGED <<on, wired, ready, ready_count, wait_count, wakeups, mutex, holder, condition>>
    BY DEF Unwaiter, wiring, counts
  <1>3. CountInv'
    BY <1>1, <1>2, WalksPasses, SameCounts DEF WakeInv, Stands
  <1>4. KeepsTrying(p, "retry", "none", stack[p].mutex)
    BY DEF KeepsTrying, NeedsMutex
  <1> QED BY <1>1, <1>2, <1>3, <1>4, GoesOnAwake DEF Idling

LEMMA UnwaitWakeups ==
    ASSUME MutexInv, MutexInv', PlaceInv, WakeInv, NEW k \in KernelThreads, NEW p \in Cprocs, Unwait(k, p)
    PROVE  WakeInv'
  <1>1. /\ Stands(k, p, "unwait") /\ stack[p].pc = "unwait" /\ stack[p].call = "block"
        /\ Walks(p, "unwaiter", stack[p].call, stack[p].mutex)
    BY UnwaitWalks DEF Stands, CallsAt, InBlock, NeedsWaiter
  <1>2. UNCHANGED <<on, wired, ready, ready_count, wakeups, mutex, holder, condition>> /\ wait_count' = wait_count - 1
    BY DEF Unwait, wiring
  <1>3. ready_count \in Int /\ wait_count \in Int /\ wakeups \in Nat
    BY CountsAreInts DEF CountTypes, WakeInv, CountInv
  <1>4. PICK f, w, d, v : f = 0 /\ w = -1 /\ d = 0 /\ v = 0
    OBVIOUS
  <1>5. f = Sends("unwaiter") - Sends("unwait") /\ w = WaitsAt("unwaiter") - WaitsAt("unwait")
    BY <1>4 DEF Sends, WaitsAt
  <1>6. wakeups' = wakeups + v /\ ready_count' = ready_count + d - v - f /\ wait_count' = wait_count + w - v - f
    BY <1>2, <1>3, <1>4
  <1>7. CountInv'
    <2>1. /\ v \in Int /\ d \in Int /\ wakeups' \in Nat /\ Len(ready') = Len(ready) + d
          /\ Passes(p, "unwaiter") /\ CountInv
      BY <1>1, <1>2, <1>3, <1>4, WalksPasses, MutexFields DEF WakeInv
    <2> QED BY <1>1, <1>2, <1>5, <1>6, <2>1, GoesCounted
  <1>8. KeepsTrying(p, "unwaiter", stack[p].call, stack[p].mutex)
    BY <1>1 DEF KeepsTrying, NeedsMutex
  <1> QED BY <1>1, <1>2, <1>7, <1>8, GoesOnAwake DEF Idling

LEMMA YieldWakeups ==
    ASSUME MutexInv, MutexInv', PlaceInv, WakeInv, NEW k \in KernelThreads, NEW p \in Cprocs, Yield(k, p)
    PROVE  WakeInv'
  <1>1. Stands(k, p, "user") /\ Walks(p, "switch", "yield", stack[p].mutex) /\ Len(ready') = Len(ready)
    BY YieldWalks
  <1>2. UNCHANGED <<on, wired, ready_count, wait_count, wakeups, mutex, holder, condition>>
    BY DEF Yield, wiring, counts
  <1>3. CountInv'
    BY <1>1, <1>2, WalksPasses, SameCounts DEF WakeInv, Stands
  <1>4. KeepsTrying(p, "switch", "yield", stack[p].mutex)
    BY <1>1, AtUserNeedsNone DEF KeepsTrying
  <1> QED BY <1>1, <1>2, <1>3, <1>4, GoesOnAwake DEF Idling

-----------------------------------------------------------------------------
(* Threads that fall asleep, and waiting stacks.                           *)

\* Nothing is ready: no more ready cprocs than messages are counted.
NoneReady == CountInv /\ ready = <<>> => ready_count <= 0

LEMMA NothingToCount == NoneReady
  <1> SUFFICES ASSUME CountInv, ready = <<>> PROVE ready_count <= 0
    BY DEF NoneReady
  <1>1. PICK m : m = Cardinality(MessagingStacks)
    OBVIOUS
  <1>2. m \in Nat /\ wakeups \in Nat /\ ready_count = Len(ready) - (wakeups + m)
    BY <1>1, CountsAreExact DEF CountsAre, CountInv
  <1>3. Len(ready) = 0
    OBVIOUS
  <1> QED BY <1>2, <1>3

LEMMA NothingToCountNext == NoneReady'
  BY NothingToCount, PTL

LEMMA SomeRuns ==
    ASSUME AwakeLooks, on' = on
    PROVE  \E s \in Stacks : Running(s)'
  BY DEF AwakeLooks, Running

\* p goes on, with its mutex; the other cprocs do not.
LEMMA MutexesLeftBy ==
    ASSUME MutexesFine, NEW p \in Cprocs, \A q \in Cprocs \ {p} : stack'[q] = stack[q],
           NEW l, NEW b, NEW m, stack'[p].pc = l, stack'[p].call = b, stack'[p].mutex = m,
           KeepsTrying(p, l, b, m), ~Unlocking(p), stack[p].pc /= "try",
           UNCHANGED <<mutex, holder, condition>>
    PROVE  MutexesFine'
  <1>1. \A q : Queued(q)' <=> Queued(q)
    BY QueuedAsBefore
  <1>2. \A n : WillTry(p, n) => WillTry(p, n)'
    BY <1>1 DEF KeepsTrying, WillTry, Unlocking, HasUnlocked
  <1>3. \A n \in Mutexes : (Needy(n)' => Needy(n)) /\ (HeldFree(n)' => HeldFree(n)) /\ ~Dequeues(p, n)
    BY DEF Needy, HeldFree, Dequeues, Unlocking
  <1>4. PICK P : P = {p}
    OBVIOUS
  <1>5. /\ P \in SUBSET Cprocs /\ \A q \in Cprocs \ P : stack'[q] = stack[q] /\ (Queued(q)' => Queued(q))
        /\ \A n \in Mutexes : (Needy(n)' => Needy(n) /\ \A q \in P : WillTry(q, n) => WillTry(q, n)')
                              /\ (HeldFree(n)' => HeldFree(n) /\ \A q \in P : ~Dequeues(q, n))
    BY <1>1, <1>2, <1>3, <1>4
  <1> QED BY <1>5, MutexesFineStep

LEMMA DequeueReadyWakeups ==
    ASSUME MutexInv, MutexInv', PlaceInv, WakeInv, NEW k \in KernelThreads, NEW p \in Cprocs, DequeueReady(k, p)
    PROVE  WakeInv'
  <1>1. Stands(k, p, "block") /\ stack[p].pc = "block" /\ stack[p].call = "block"
    BY DequeueReadyWalks DEF Stands, CallsAt, InBlock, NeedsWaiter
  <1>2. UNCHANGED <<on, wired, wakeups, mutex, holder, condition>>
    BY DEF DequeueReady, wiring
  <1>3. ready_count \in Int /\ wait_count \in Int /\ wakeups \in Nat
    BY CountsAreInts DEF CountTypes, WakeInv, CountInv
  <1>4. \A l : KeepsTrying(p, l, stack[p].call, stack[p].mutex) \/ l \in {"ready", "enqueue", "send"}
    BY <1>1 DEF KeepsTrying, NeedsMutex
  <1>5. CASE /\ Len(ready') = Len(ready) - 1 /\ ready_count' = ready_count - 1
             /\ wait_count' = wait_count /\ Walks(p, "keep", stack[p].call, stack[p].mutex)
    <2>1. PICK f, w, d, v : f = 0 /\ w = 0 /\ d = -1 /\ v = 0
      OBVIOUS
    <2>2. f = Sends("keep") - Sends("block") /\ w = WaitsAt("keep") - WaitsAt("block")
      BY <2>1 DEF Sends, WaitsAt
    <2>3. wakeups' = wakeups + v /\ ready_count' = ready_count + d - v - f /\ wait_count' = wait_count + w - v - f
      BY <1>2, <1>3, <1>5, <2>1
    <2>4. CountInv'
      <3>1. /\ v \in Int /\ d \in Int /\ wakeups' \in Nat /\ Len(ready') = Len(ready) + d
            /\ Passes(p, "keep") /\ CountInv
        BY <1>2, <1>3, <1>5, <2>1, WalksPasses, MutexFields DEF WakeInv
      <3> QED BY <1>1, <1>2, <2>2, <2>3, <3>1, GoesCounted
    <2>5. KeepsTrying(p, "keep", stack[p].call, stack[p].mutex)
      BY <1>4
    <2> QED BY <1>1, <1>2, <1>5, <2>4, <2>5, GoesOnAwake DEF Idling
  <1>6. CASE /\ ready = <<>> /\ ready' = ready /\ ready_count' = ready_count
             /\ wait_count' = wait_count + 1 /\ Walks(p, "getwaiter", stack[p].call, stack[p].mutex)
    <2>1. PICK f, w, d, v : f = 0 /\ w = 1 /\ d = 0 /\ v = 0
      OBVIOUS
    <2>2. f = Sends("getwaiter") - Sends("block") /\ w = WaitsAt("getwaiter") - WaitsAt("block")
      BY <2>1 DEF Sends, WaitsAt
    <2>3. wakeups' = wakeups + v /\ ready_count' = ready_count + d - v - f /\ wait_count' = wait_count + w - v - f
      BY <1>2, <1>3, <1>6, <2>1
    <2>4. CountInv'
      <3>1. /\ v \in Int /\ d \in Int /\ wakeups' \in Nat /\ Len(ready') = Len(ready) + d
            /\ Passes(p, "getwaiter") /\ CountInv
        BY <1>2, <1>3, <1>6, <2>1, WalksPasses, MutexFields DEF WakeInv
      <3> QED BY <1>1, <1>2, <2>2, <2>3, <3>1, GoesCounted
    <2>5. MutexesFine'
      <3>1. ~Unlocking(p) /\ KeepsTrying(p, "getwaiter", stack[p].call, stack[p].mutex)
        BY <1>1, <1>4 DEF Unlocking
      <3> QED BY <1>1, <1>2, <1>6, <3>1, MutexesLeft DEF WakeInv
    <2>6. AwakeLooks'
      <3>1. ready_count' <= 0
        BY <1>6, <2>4, NothingToCountNext DEF NoneReady
      <3>2. ready_count' \in Int /\ \E s \in Stacks : Running(s)'
        BY <1>2, <1>3, <1>6, SomeRuns DEF WakeInv
      <3>3. \A q \in Cprocs : stack'[q].pc = "wired" => stack[q].pc = "wired" /\ wired'[q] = wired[q]
        BY <1>2, <1>6, StackIs DEF Walks
      <3> QED BY <3>1, <3>2, <3>3, LooksStep DEF WakeInv
    <2> QED BY <2>4, <2>5, <2>6 DEF WakeInv
  <1> QED BY <1>5, <1>6, DequeueReadyWalks

LEMMA BlockIdleWakeups ==
    ASSUME MutexInv, MutexInv', PlaceInv, WakeInv, NEW k \in KernelThreads, NEW p \in Cprocs, BlockIdle(k, p)
    PROVE  WakeInv'
  <1>1. Stands(k, p, "idle") /\ stack[p].pc = "idle" /\ stack[p].call = "block" /\ p \in Stacks /\ p \notin Waiters
    BY BlockIdleWalks, StackIs DEF Stands, CallsAt, InBlock, NeedsWaiter
  <1>2. UNCHANGED <<on, wired, ready, ready_count, wait_count, wakeups, mutex, holder, condition>>
    BY DEF BlockIdle, wiring, counts
  <1>3. PICK l : l \in {"unwait", "startwait"} /\ Walks(p, l, stack[p].call, stack[p].mutex)
    BY BlockIdleWalks
  <1>4. CountInv'
    <2>1. \A r \in Waiters \ {p} : Running(r)' <=> Running(r)
      BY <1>2 DEF Running
    <2>2. Passes(p, l)
      BY <1>3, WalksPasses
    <2>3. (Messaging(p)' <=> Messaging(p)) /\ (Waits(p)' <=> Waits(p))
      BY <1>1, <1>3, <2>2 DEF Passes, Messaging, Waits
    <2> QED BY <1>2, <2>1, <2>2, <2>3, OthersCount, CountsStay DEF WakeInv
  <1>5. MutexesFine'
    <2>1. ~Unlocking(p) /\ KeepsTrying(p, l, stack[p].call, stack[p].mutex)
      BY <1>1, <1>3 DEF Unlocking, KeepsTrying, NeedsMutex
    <2> QED BY <1>1, <1>2, <1>3, <2>1, MutexesLeft DEF WakeInv
  <1>6. AwakeLooks'
    <2>1. ready_count' \in Int /\ \E s \in Stacks : Running(s)'
      BY <1>2, <1>4, SomeRuns, CountsAreIntsNext DEF WakeInv, CountTypes
    <2>2. \A q \in Cprocs : stack'[q].pc = "wired" => stack[q].pc = "wired" /\ wired'[q] = wired[q]
      BY <1>2, <1>3, StackIs DEF Walks
    <2>3. \A q \in Cprocs : Awake(q) => Awake(q)'
      BY <1>1, <1>2, <1>3, StackIs DEF Walks, Awake, Running, Idling
    <2> QED BY <1>2, <2>1, <2>2, <2>3, LooksStep DEF WakeInv
  <1> QED BY <1>4, <1>5, <1>6 DEF WakeInv

LEMMA GetWaiterWakeups ==
    ASSUME MutexInv, MutexInv', PlaceInv, WakeInv, NEW k \in KernelThreads, NEW p \in Cprocs, GetWaiter(k, p)
    PROVE  WakeInv'
  <1>1. /\ Stands(k, p, "getwaiter") /\ stack[p].pc = "getwaiter" /\ stack[p].call = "block"
        /\ p \in Stacks /\ p \notin Waiters
        /\ stack'[p].pc = "idle" /\ stack'[p].call = stack[p].call /\ stack'[p].mutex = stack[p].mutex
    BY GetWaiterWalks, StackIs DEF Stands, CallsAt, InBlock, NeedsWaiter
  <1>2. UNCHANGED <<on, wired, ready, ready_count, wait_count, wakeups, mutex, holder, condition>>
    BY DEF GetWaiter, wiring, counts
  <1>3. PICK W : /\ W \in SUBSET Waiters /\ \A r \in Stacks \ ({p} \cup W) : stack'[r] = stack[r]
                 /\ \A w \in W : ~Running(w) /\ stack[w].pc = "none" /\ stack'[w].pc = "receive"
    <2>1. CASE \A r \in Stacks \ {p} : stack'[r] = stack[r]
      <3>1. PICK W : W = {}
        OBVIOUS
      <3>2. /\ W \in SUBSET Waiters /\ \A r \in Stacks \ ({p} \cup W) : stack'[r] = stack[r]
            /\ \A w \in W : ~Running(w) /\ stack[w].pc = "none" /\ stack'[w].pc = "receive"
        BY <2>1, <3>1
      <3> QED BY <3>2
    <2>2. CASE \E w \in Waiters :
                  /\ ~Running(w) /\ stack[w].pc = "none" /\ stack'[w].pc = "receive"
                  /\ \A r \in Stacks \ {p, w} : stack'[r] = stack[r]
      <3>1. PICK x \in Waiters :
               /\ ~Running(x) /\ stack[x].pc = "none" /\ stack'[x].pc = "receive"
               /\ \A r \in Stacks \ {p, x} : stack'[r] = stack[r]
        BY <2>2
      <3>2. PICK W : W = {x}
        OBVIOUS
      <3>3. /\ W \in SUBSET Waiters /\ \A r \in Stacks \ ({p} \cup W) : stack'[r] = stack[r]
            /\ \A w \in W : ~Running(w) /\ stack[w].pc = "none" /\ stack'[w].pc = "receive"
        BY <3>1, <3>2
      <3> QED BY <3>3
    <2> QED BY <2>1, <2>2, GetWaiterWalks
  <1>4. \A q \in Cprocs \ {p} : stack'[q] = stack[q]
    BY <1>3, StackIs
  <1>5. CountInv'
    <2>1. ASSUME NEW r \in Stacks PROVE (Messaging(r)' <=> Messaging(r)) /\ (Waits(r)' <=> Waits(r))
      <3>1. Running(r)' <=> Running(r)
        BY <1>2 DEF Running
      <3>2. CASE r = p
        BY <1>1, <3>2 DEF Messaging, Waits
      <3>3. CASE r \in W
        BY <1>3, <3>1, <3>3, StackIs DEF Messaging, Waits
      <3>4. CASE r \notin {p} \cup W
        BY <1>3, <3>1, <3>4 DEF Messaging, Waits
      <3> QED BY <3>2, <3>3, <3>4
    <2> QED BY <1>2, <2>1, CountsStay DEF WakeInv
  <1>6. MutexesFine'
    <2>1. ~Unlocking(p) /\ KeepsTrying(p, "idle", stack[p].call, stack[p].mutex)
      BY <1>1 DEF Unlocking, KeepsTrying, NeedsMutex
    <2> QED BY <1>1, <1>2, <1>4, <2>1, MutexesLeftBy DEF WakeInv
  <1>7. AwakeLooks'
    <2>1. ready_count' \in Int /\ \E s \in Stacks : Running(s)'
      BY <1>2, <1>5, SomeRuns, CountsAreIntsNext DEF WakeInv, CountTypes
    <2>2. \A q \in Cprocs : stack'[q].pc = "wired" => stack[q].pc = "wired" /\ wired'[q] = wired[q]
      BY <1>1, <1>2, <1>4
    <2>3. \A q \in Cprocs : Awake(q) => Awake(q)'
      BY <1>1, <1>2, <1>4 DEF Awake, Running, Idling
    <2> QED BY <1>2, <2>1, <2>2, <2>3, LooksStep DEF WakeInv
  <1> QED BY <1>5, <1>6, <1>7 DEF WakeInv

\* A waiting stack goes on, and no cproc does; f more messages are under way and
\* w more threads wait.
LEMMA WaitersCounted ==
    ASSUME MutexInv, MutexInv', CountInv, NEW s \in Waiters, NEW l, Passes(s, l),
           \A r \in Waiters \ {s} : Running(r)' <=> Running(r),
           NEW f, NEW w, NEW d, NEW v, f = AddsMessage(s)' - AddsMessage(s), w = AddsWaiter(s)' - AddsWaiter(s),
           v \in Int, d \in Int, wakeups' = wakeups + v, wakeups' \in Nat, Len(ready') = Len(ready) + d,
           ready_count' = ready_count + d - v - f, wait_count' = wait_count + w - v - f
    PROVE  CountInv'
  <1>1. s \in Stacks /\ Len(ready) \in Nat /\ Len(ready') \in Nat /\ wakeups \in Nat
    <2>1. ready \in Seq(Cprocs) /\ ready' \in Seq(Cprocs)
      BY DEF MutexInv, MutexTypes
    <2> QED BY <2>1, StackIs DEF CountInv
  <1>2. PICK x, y, z : x = Len(ready) /\ y = Len(ready') /\ z = wakeups
    OBVIOUS
  <1>3. y - x = d /\ (z + v) - z = v /\ wakeups' = z + v
    <2>1. y = x + d /\ x \in Nat /\ y \in Nat /\ z \in Nat /\ wakeups' = z + v
      BY <1>1, <1>2
    <2> QED BY ONLY <2>1, v \in Int, d \in Int
  <1>4. /\ ready_count' = ready_count + (Len(ready') - Len(ready)) - (wakeups' - wakeups) - f
        /\ wait_count' = wait_count + w - (wakeups' - wakeups) - f
    BY <1>2, <1>3
  <1>5. \A r \in Stacks \ {s} : (Messaging(r)' <=> Messaging(r)) /\ (Waits(r)' <=> Waits(r))
    BY OthersCount
  <1> QED BY <1>1, <1>4, <1>5, CountsMove

\* No cproc goes on.
LEMMA MutexesAlone ==
    ASSUME MutexesFine, \A q \in Cprocs : stack'[q] = stack[q], UNCHANGED <<mutex, holder, condition>>
    PROVE  MutexesFine'
  <1>1. \A q : Queued(q)' <=> Queued(q)
    BY QueuedAsBefore
  <1>2. PICK P : P = {}
    OBVIOUS
  <1>3. /\ P \in SUBSET Cprocs /\ \A q \in Cprocs \ P : stack'[q] = stack[q] /\ (Queued(q)' => Queued(q))
        /\ \A n \in Mutexes : (Needy(n)' => Needy(n) /\ \A q \in P : WillTry(q, n) => WillTry(q, n)')
                              /\ (HeldFree(n)' => HeldFree(n) /\ \A q \in P : ~Dequeues(q, n))
    BY <1>1, <1>2 DEF Needy, HeldFree
  <1> QED BY <1>3, MutexesFineStep

\* A waiting stack goes on, and the kernel thread stays on it.
LEMMA WaiterGoesOn ==
    ASSUME MutexInv', WakeInv, NEW s \in Waiters, NEW l, Passes(s, l),
           UNCHANGED <<on, wired, mutex, holder, condition>>, CountInv',
           ready_count' <= 0 \/ UNCHANGED <<ready_count, wait_count>>
    PROVE  WakeInv'
  <1>1. \A q \in Cprocs : stack'[q] = stack[q]
    BY StackIs DEF Passes
  <1>2. MutexesFine'
    BY <1>1, MutexesAlone DEF WakeInv
  <1>3. AwakeLooks'
    <2>1. ready_count' \in Int /\ \E r \in Stacks : Running(r)'
      BY SomeRuns, CountsAreIntsNext DEF WakeInv, CountTypes
    <2>2. \A q \in Cprocs : stack'[q].pc = "wired" => stack[q].pc = "wired" /\ wired'[q] = wired[q]
      BY <1>1
    <2>3. \A q \in Cprocs : Awake(q) => Awake(q)'
      BY <1>1 DEF Awake, Running, Idling
    <2> QED BY <2>1, <2>2, <2>3, LooksStep DEF WakeInv
  <1> QED BY <1>2, <1>3 DEF WakeInv

LEMMA ReceiveWakeups ==
    ASSUME MutexInv, MutexInv', PlaceInv, WakeInv, NEW k \in KernelThreads, NEW s \in Waiters, Receive(k, s)
    PROVE  WakeInv'
  <1>1. stack[s].pc = "receive" /\ Running(s) /\ Passes(s, "woken") /\ s \in Stacks /\ s \notin Cprocs
    BY ReceiveWalks, StackIs
  <1>2. /\ UNCHANGED <<on, wired, ready, ready_count, wait_count, mutex, holder, condition>>
        /\ wakeups > 0 /\ wakeups' = wakeups - 1
    BY DEF Receive, wiring, counts
  <1>3. ready_count \in Int /\ wait_count \in Int /\ wakeups \in Nat /\ Len(ready) \in Nat
    BY CountsAreInts, MutexFields DEF CountTypes, WakeInv, CountInv
  <1>4. PICK f, w, d, v : f = 1 /\ w = 0 /\ d = 0 /\ v = -1
    OBVIOUS
  <1>5. \A r \in Stacks : Running(r)' <=> Running(r)
    BY <1>2 DEF Running
  <1>6. f = AddsMessage(s)' - AddsMessage(s) /\ w = AddsWaiter(s)' - AddsWaiter(s)
    BY <1>1, <1>4, <1>5 DEF Passes, AddsMessage, AddsWaiter, Messaging, Waits
  <1>7. /\ v \in Int /\ d \in Int /\ wakeups' = wakeups + v /\ wakeups' \in Nat /\ Len(ready') = Len(ready) + d
        /\ ready_count' = ready_count + d - v - f /\ wait_count' = wait_count + w - v - f
    BY <1>2, <1>3, <1>4
  <1>8. CountInv'
    BY <1>1, <1>5, <1>6, <1>7, StackIs, WaitersCounted DEF WakeInv
  <1> QED BY <1>1, <1>2, <1>8, WaiterGoesOn

LEMMA WokenWakeups ==
    ASSUME MutexInv, MutexInv', PlaceInv, WakeInv, NEW k \in KernelThreads, NEW s \in Waiters, Woken(k, s)
    PROVE  WakeInv'
  <1>1. stack[s].pc = "woken" /\ Running(s) /\ s \in Stacks /\ s \notin Cprocs
    BY WokenWalks, StackIs
  <1>2. UNCHANGED <<on, wired, wakeups, mutex, holder, condition>>
    BY DEF Woken, wiring
  <1>3. ready_count \in Int /\ wait_count \in Int /\ wakeups \in Nat /\ Len(ready) \in Nat
    BY CountsAreInts, MutexFields DEF CountTypes, WakeInv, CountInv
  <1>4. \A r \in Stacks : Running(r)' <=> Running(r)
    BY <1>2 DEF Running
  <1>5. CASE /\ Len(ready') = Len(ready) - 1 /\ UNCHANGED <<ready_count, wait_count>>
             /\ Passes(s, "resume")
    <2>1. PICK f, w, d, v : f = -1 /\ w = -1 /\ d = -1 /\ v = 0
      OBVIOUS
    <2>2. f = AddsMessage(s)' - AddsMessage(s) /\ w = AddsWaiter(s)' - AddsWaiter(s)
      BY <1>1, <1>4, <1>5, <2>1 DEF Passes, AddsMessage, AddsWaiter, Messaging, Waits
    <2>3. /\ v \in Int /\ d \in Int /\ wakeups' = wakeups + v /\ wakeups' \in Nat /\ Len(ready') = Len(ready) + d
          /\ ready_count' = ready_count + d - v - f /\ wait_count' = wait_count + w - v - f
      BY <1>2, <1>3, <1>5, <2>1
    <2>4. CountInv'
      BY <1>1, <1>4, <1>5, <2>2, <2>3, StackIs, WaitersCounted DEF WakeInv
    <2> QED BY <1>1, <1>2, <1>5, <2>4, WaiterGoesOn
  <1>6. CASE /\ ready = <<>> /\ ready' = ready /\ wait_count' = wait_count + 1
             /\ ready_count' = ready_count + 1 /\ Passes(s, "receive")
    <2>1. PICK f, w, d, v : f = -1 /\ w = 0 /\ d = 0 /\ v = 0
      OBVIOUS
    <2>2. f = AddsMessage(s)' - AddsMessage(s) /\ w = AddsWaiter(s)' - AddsWaiter(s)
      BY <1>1, <1>4, <1>6, <2>1 DEF Passes, AddsMessage, AddsWaiter, Messaging, Waits
    <2>3. /\ v \in Int /\ d \in Int /\ wakeups' = wakeups + v /\ wakeups' \in Nat /\ Len(ready') = Len(ready) + d
          /\ ready_count' = ready_count + d - v - f /\ wait_count' = wait_count + w - v - f
      BY <1>2, <1>3, <1>6, <2>1
    <2>4. CountInv'
      BY <1>1, <1>4, <1>6, <2>2, <2>3, StackIs, WaitersCounted DEF WakeInv
    <2>5. ready_count' <= 0
      BY <1>6, <2>4, NothingToCountNext DEF NoneReady
    <2> QED BY <1>1, <1>2, <1>6, <2>4, <2>5, WaiterGoesOn
  <1> QED BY <1>5, <1>6, WokenWalks

\* A waiting stack goes on within cproc_waiting, and the counts stay.
LEMMA WaiterStays ==
    ASSUME MutexInv, MutexInv', WakeInv, NEW s \in Waiters, NEW l, Passes(s, l),
           stack[s].pc \notin {"send", "receive", "woken"}, l \notin {"send", "receive", "woken"},
           UNCHANGED <<on, wired, ready, ready_count, wait_count, wakeups, mutex, holder, condition>>
    PROVE  WakeInv'
  <1>1. \A r \in Waiters \ {s} : Running(r)' <=> Running(r)
    BY DEF Running
  <1>2. (Messaging(s)' <=> Messaging(s)) /\ (Waits(s)' <=> Waits(s))
    BY StackIs DEF Passes, Messaging, Waits
  <1>3. CountInv'
    BY <1>1, <1>2, OthersCount, CountsStay DEF WakeInv
  <1>4. UNCHANGED <<on, wired, mutex, holder, condition>> /\ UNCHANGED <<ready_count, wait_count>>
    OBVIOUS
  <1> QED BY <1>3, <1>4, WaiterGoesOn

LEMMA ResumeWakeups ==
    ASSUME MutexInv, MutexInv', PlaceInv, WakeInv, NEW k \in KernelThreads, NEW s \in Waiters, Resume(k, s)
    PROVE  WakeInv'
  <1>1. UNCHANGED <<on, wired, ready, ready_count, wait_count, wakeups, mutex, holder, condition>>
    BY DEF Resume, wiring, counts
  <1>2. stack[s].pc = "resume" /\ Passes(s, "leave")
    BY ResumeWalks
  <1> QED BY <1>1, <1>2, WaiterStays

LEMMA LeaveWakeups ==
    ASSUME MutexInv, MutexInv', PlaceInv, WakeInv, NEW k \in KernelThreads, NEW s \in Waiters, Leave(k, s)
    PROVE  WakeInv'
  <1>1. UNCHANGED <<on, wired, ready, ready_count, wait_count, wakeups, mutex, holder, condition>>
    BY DEF Leave, wiring, counts
  <1>2. stack[s].pc = "leave" /\ Passes(s, "leaving")
    BY LeaveWalks
  <1> QED BY <1>1, <1>2, WaiterStays

-----------------------------------------------------------------------------
(* Kernel threads that leave a stack, and calls that concern another cproc.*)

\* A kernel thread leaves s for the cproc t, which does not go on yet.
LEMMA LeftFor ==
    ASSUME MutexInv', CountInv', AwakeLooks, NEW s \in Stacks, NEW t \in Cprocs, NEW l, Leaves(s, t), Passes(s, l),
           l /= "wired", stack[t].pc \in {"user", "retry"}, wired' = wired
    PROVE  AwakeLooks'
  <1>1. t \in Stacks /\ stack'[t] = stack[t] /\ Running(t)'
    BY StackIs DEF Leaves, Passes
  <1>2. Awake(t)'
    BY <1>1 DEF Awake, Idling
  <1>3. ready_count' \in Int
    BY CountsAreIntsNext DEF CountTypes
  <1>4. \A q \in Cprocs : stack'[q].pc = "wired" => stack[q].pc = "wired" /\ wired'[q] = wired[q]
    BY StackIs DEF Passes
  <1> QED BY <1>1, <1>2, <1>3, <1>4, LooksStep

LEMMA SwitchWakeups ==
    ASSUME MutexInv, MutexInv', PlaceTypes, PlaceInv, WakeInv, NEW k \in KernelThreads, NEW p \in Cprocs, Switch(k, p)
    PROVE  WakeInv'
  <1>1. Stands(k, p, "switch") /\ stack[p].pc = "switch" /\ p \in Stacks /\ p \notin Waiters
    BY SwitchWalks, StackIs DEF Stands
  <1>2. UNCHANGED <<wired, ready, ready_count, wait_count, wakeups, mutex, holder, condition>>
    BY DEF Switch, wiring, counts
  <1>3. PICK new \in Cprocs : Leaves(p, new) /\ stack[new].pc \in {"user", "retry"}
    BY SwitchWalks
  <1>4. PICK l, b, m : l \in {"user", "retry"} /\ Walks(p, l, b, m) /\ KeepsTrying(p, l, b, m)
    <2>1. CASE stack[p].call = "yield" /\ Walks(p, "user", "none", None)
      <3>1. KeepsTrying(p, "user", "none", None)
        BY <1>1, <2>1 DEF KeepsTrying, NeedsMutex
      <3> QED BY <2>1, <3>1
    <2>2. CASE stack[p].call = "block" /\ Walks(p, "retry", "none", stack[p].mutex)
      <3>1. KeepsTrying(p, "retry", "none", stack[p].mutex)
        BY DEF KeepsTrying, NeedsMutex
      <3> QED BY <2>2, <3>1
    <2> QED BY <2>1, <2>2, SwitchWalks
  <1>5. Passes(p, l)
    BY <1>4, WalksPasses
  <1>6. CountInv'
    <2>1. \A r \in Waiters \ {p} : Running(r)' <=> Running(r)
      BY <1>3, StackIs DEF Leaves
    <2>2. (Messaging(p)' <=> Messaging(p)) /\ (Waits(p)' <=> Waits(p))
      BY <1>1, <1>4, <1>5 DEF Passes, Messaging, Waits
    <2> QED BY <1>2, <1>5, <2>1, <2>2, OthersCount, CountsStay DEF WakeInv
  <1>7. MutexesFine'
    BY <1>1, <1>2, <1>4, MutexesLeft DEF WakeInv, Unlocking
  <1>8. AwakeLooks'
    BY <1>1, <1>2, <1>3, <1>4, <1>5, <1>6, LeftFor DEF WakeInv
  <1> QED BY <1>6, <1>7, <1>8 DEF WakeInv

LEMMA LeavingWakeups ==
    ASSUME MutexInv, MutexInv', PlaceTypes, PlaceInv, WakeInv, NEW k \in KernelThreads, NEW s \in Waiters, Leaving(k, s)
    PROVE  WakeInv'
  <1>1. stack[s].pc = "leaving" /\ Passes(s, "receive") /\ s \in Stacks /\ s \notin Cprocs
    BY LeavingWalks, StackIs
  <1>2. UNCHANGED <<wired, ready, ready_count, wait_count, wakeups, mutex, holder, condition>>
    BY DEF Leaving, wiring, counts
  <1>3. PICK new \in Cprocs : Leaves(s, new) /\ stack[new].pc \in {"user", "retry"}
    BY LeavingWalks
  <1>4. CountInv'
    <2>1. \A r \in Waiters \ {s} : Running(r)' <=> Running(r)
      BY <1>3, StackIs DEF Leaves
    <2>2. (Messaging(s)' <=> Messaging(s)) /\ (Waits(s)' <=> Waits(s))
      BY <1>1, <1>3 DEF Passes, Leaves, Messaging, Waits
    <2> QED BY <1>1, <1>2, <2>1, <2>2, OthersCount, CountsStay DEF WakeInv
  <1>5. MutexesFine'
    <2>1. \A q \in Cprocs : stack'[q] = stack[q]
      BY <1>1, StackIs DEF Passes
    <2> QED BY <1>2, <2>1, MutexesAlone DEF WakeInv
  <1>6. AwakeLooks'
    BY <1>1, <1>2, <1>3, <1>4, LeftFor DEF WakeInv
  <1> QED BY <1>4, <1>5, <1>6 DEF WakeInv

LEMMA OneForAnother ==
    ASSUME NEW T, IsFiniteSet(T), NEW A \in SUBSET T, NEW B \in SUBSET T, NEW s \in T, NEW t \in T,
           s \in A, t \notin A, s \notin B, t \in B, \A r \in T \ {s, t} : r \in A <=> r \in B
    PROVE  Cardinality(A) = Cardinality(B)
  <1>1. PICK C : C = A \ {s}
    OBVIOUS
  <1>2. C \in SUBSET T /\ s \notin C /\ t \notin C
    BY <1>1
  <1>3. Cardinality(A) \in Nat /\ Cardinality(C) \in Nat /\ Cardinality(C) = Cardinality(A) - 1
    <2>1. \A r \in T \ {s} : r \in A <=> r \in C
      BY <1>1
    <2> QED BY <1>2, <2>1, OneCounted
  <1>4. Cardinality(B) \in Nat /\ Cardinality(B) = Cardinality(C) + 1
    <2>1. \A r \in T \ {t} : r \in C <=> r \in B
      BY <1>1
    <2> QED BY <1>2, <2>1, OneCounted
  <1> QED BY <1>3, <1>4

LEMMA StartWaitWakeups ==
    ASSUME MutexInv, MutexInv', PlaceTypes, PlaceInv, WakeInv, NEW k \in KernelThreads, NEW p \in Cprocs, StartWait(k, p)
    PROVE  WakeInv'
  <1>1. Stands(k, p, "startwait") /\ stack[p].pc = "startwait" /\ p \in Stacks /\ p \notin Waiters
    BY StartWaitWalks, StackIs DEF Stands
  <1>2. UNCHANGED <<wired, ready, ready_count, wait_count, wakeups, mutex, holder, condition>>
    BY DEF StartWait, wiring, counts
  <1>3. PICK s \in Waiters :
           /\ Leaves(p, s) /\ stack[s].pc = "receive" /\ stack'[s].pc = "receive"
           /\ stack'[p].pc = "retry" /\ stack'[p].call = "none" /\ stack'[p].mutex = stack[p].mutex
           /\ \A r \in Stacks \ {p, s} : stack'[r] = stack[r]
    BY StartWaitWalks
  <1>4. s \in Stacks /\ s \notin Cprocs /\ s /= p
    BY <1>1, StackIs
  <1>5. CountInv'
    <2>1. \A r \in Stacks : Messaging(r)' <=> Messaging(r)
      BY <1>1, <1>3 DEF Messaging
    <2>2. \A r \in Stacks \ {p, s} : Waits(r)' <=> Waits(r)
      BY <1>3 DEF Waits, Leaves
    <2>3. Waits(p) /\ ~Waits(s) /\ ~Waits(p)' /\ Waits(s)'
      BY <1>1, <1>3, <1>4 DEF Waits, Leaves
    <2>4. MessagingStacks' = MessagingStacks
      BY <2>1 DEF MessagingStacks
    <2>5. Cardinality(WaitingStacks') = Cardinality(WaitingStacks)
      <3>1. PICK A, B : A = WaitingStacks /\ B = WaitingStacks'
        OBVIOUS
      <3>2. /\ A \in SUBSET Stacks /\ B \in SUBSET Stacks /\ p \in A /\ s \notin A /\ p \notin B /\ s \in B
            /\ \A r \in Stacks \ {p, s} : r \in A <=> r \in B
        BY <1>1, <1>4, <2>2, <2>3, <3>1 DEF WaitingStacks
      <3>3. Cardinality(A) = Cardinality(B)
        BY <1>1, <1>4, <3>2, OneForAnother, StacksFinite
      <3> QED BY <3>1, <3>3
    <2> QED BY <1>2, <2>4, <2>5, CountsAreExact, CountsAreExactNext DEF CountsAre, CountInv, WakeInv
  <1>6. \A q \in Cprocs \ {p} : stack'[q] = stack[q]
    BY <1>3, <1>4, StackIs
  <1>7. MutexesFine'
    <2>1. PICK m : m = stack[p].mutex
      OBVIOUS
    <2>2. ~Unlocking(p) /\ KeepsTrying(p, "retry", "none", m)
      BY <1>1, <2>1 DEF Unlocking, KeepsTrying, NeedsMutex
    <2> QED BY <1>1, <1>2, <1>3, <1>6, <2>1, <2>2, MutexesLeftBy DEF WakeInv
  <1>8. AwakeLooks'
    <2>1. ready_count' \in Int /\ \E r \in Stacks : Running(r)'
      BY <1>3, <1>4, <1>5, CountsAreIntsNext DEF Leaves, CountTypes
    <2>2. \A q \in Cprocs : stack'[q].pc = "wired" => stack[q].pc = "wired" /\ wired'[q] = wired[q]
      BY <1>2, <1>3, <1>6
    <2>3. \A q \in Cprocs : Awake(q) => Awake(q)'
      BY <1>1, <1>3, <1>4, <1>6, StackIs DEF Leaves, Awake, Idling
    <2> QED BY <1>2, <2>1, <2>2, <2>3, LooksStep DEF WakeInv
  <1> QED BY <1>5, <1>7, <1>8 DEF WakeInv

LEMMA CreateWakeups ==
    ASSUME MutexInv, MutexInv', PlaceTypes, PlaceInv, WakeInv, NEW k \in KernelThreads, NEW p \in Cprocs,
           NEW child \in Cprocs, Create(k, p, child)
    PROVE  WakeInv'
  <1>1. /\ Stands(k, p, "user") /\ stack[p].pc = "user" /\ p \in Stacks /\ child \in Stacks
        /\ p \notin Waiters /\ child \notin Waiters
        /\ Running(p)' /\ child /= p /\ stack[child].pc = "none" /\ stack[child].call = "none"
        /\ stack'[child].pc = "user" /\ stack'[p].pc \in {"user", "ready"}
    BY CreateWalks, StackIs DEF Stands
  <1>2. \A r \in Stacks \ {p, child} : stack'[r] = stack[r]
    BY CreateWalks
  <1>3. UNCHANGED <<wired, ready, ready_count, wait_count, wakeups, mutex, holder, condition>>
    BY DEF Create, wiring, counts
  <1>4. CountInv'
    <2>1. ASSUME NEW r \in Stacks PROVE (Messaging(r)' <=> Messaging(r)) /\ (Waits(r)' <=> Waits(r))
      <3>1. CASE r \in {p, child}
        BY <1>1, <3>1 DEF Messaging, Waits
      <3>2. CASE r \notin {p, child}
        <4>1. r \in Waiters => (Running(r)' <=> Running(r))
          BY CreateWalks
        <4> QED BY <1>2, <3>2, <4>1 DEF Messaging, Waits
      <3> QED BY <3>1, <3>2
    <2> QED BY <1>3, <2>1, CountsStay DEF WakeInv
  <1>5. MutexesFine'
    <2>1. /\ ~NeedsMutex(stack[p].pc, stack[p].call) /\ stack[p].pc /= "unlock_deq"
          /\ ~NeedsMutex(stack[child].pc, stack[child].call) /\ stack[child].pc /= "unlock_deq"
      BY <1>1, AtUserNeedsNone DEF NeedsMutex
    <2>2. PICK P : P = {p, child}
      OBVIOUS
    <2>3. \A q : Queued(q)' <=> Queued(q)
      BY <1>3, QueuedAsBefore
    <2>4. \A q \in P : \A n : ~WillTry(q, n) /\ ~Dequeues(q, n)
      BY <2>1, <2>2 DEF WillTry, Dequeues
    <2>5. \A n \in Mutexes : (Needy(n)' => Needy(n)) /\ (HeldFree(n)' => HeldFree(n))
      BY <1>3 DEF Needy, HeldFree
    <2>6. P \in SUBSET Cprocs /\ \A q \in Cprocs \ P : stack'[q] = stack[q]
      BY <1>2, <2>2, StackIs
    <2>7. \A n \in Mutexes : (Needy(n)' => Needy(n) /\ \A q \in P : WillTry(q, n) => WillTry(q, n)')
                             /\ (HeldFree(n)' => HeldFree(n) /\ \A q \in P : ~Dequeues(q, n))
      BY <2>4, <2>5
    <2> QED BY <2>3, <2>6, <2>7, MutexesFineStep DEF WakeInv
  <1>6. AwakeLooks'
    <2>1. ready_count' \in Int /\ \E r \in Stacks : Running(r)'
      BY <1>1, <1>4, CountsAreIntsNext DEF CountTypes
    <2>2. \A q \in Cprocs : stack'[q].pc = "wired" => stack[q].pc = "wired" /\ wired'[q] = wired[q]
      BY <1>1, <1>2, <1>3, StackIs
    <2>3. Awake(p)'
      BY <1>1 DEF Awake, Idling
    <2> QED BY <2>1, <2>2, <2>3, LooksStep DEF WakeInv
  <1> QED BY <1>4, <1>5, <1>6 DEF WakeInv

LEMMA WireWakeups ==
    ASSUME MutexInv, MutexInv', PlaceTypes, PlaceInv, WakeInv, NEW k \in KernelThreads, NEW p \in Cprocs, Wire(k, p)
    PROVE  WakeInv'
  <1>1. Stands(k, p, "user") /\ stack[p].pc = "user" /\ Running(p)
    BY Standing, StackIs DEF Wire, Stands
  <1>2. /\ UNCHANGED <<on, stack, ready, ready_count, wait_count, wakeups, mutex, holder, condition>>
        /\ wired' = [wired EXCEPT ![p] = ~wired[p]]
    BY DEF Wire, counts
  <1>3. CountInv'
    <2>1. \A r \in Stacks : (Messaging(r)' <=> Messaging(r)) /\ (Waits(r)' <=> Waits(r))
      BY <1>2 DEF Messaging, Waits, Running
    <2> QED BY <1>2, <2>1, CountsStay DEF WakeInv
  <1>4. MutexesFine'
    BY <1>2, MutexesAlone DEF WakeInv
  <1>5. AwakeLooks'
    <2>1. ready_count' \in Int /\ \E r \in Stacks : Running(r)'
      BY <1>2, <1>3, SomeRuns, CountsAreIntsNext DEF WakeInv, CountTypes
    <2>2. \A q \in Cprocs : stack'[q].pc = "wired" => stack[q].pc = "wired" /\ wired'[q] = wired[q]
      BY <1>1, <1>2 DEF PlaceTypes
    <2>3. Awake(p)'
      BY <1>1, <1>2 DEF Awake, Running, Idling
    <2> QED BY <2>1, <2>2, <2>3, LooksStep DEF WakeInv
  <1> QED BY <1>3, <1>4, <1>5 DEF WakeInv

-----------------------------------------------------------------------------
(* The invariant.                                                          *)

LEMMA WakeInvInit == Init => WakeInv
  <1> SUFFICES ASSUME Init PROVE WakeInv
    OBVIOUS
  <1>1. /\ \A s \in Stacks : stack[s].pc = IF s = Main THEN "user" ELSE "none"
        /\ ready = <<>> /\ ready_count = 0 /\ wait_count = 0 /\ wakeups = 0
        /\ \A m \in Mutexes : ~mutex[m].held /\ mutex[m].queue = <<>>
    BY DEF Init, NewStack
  <1>2. Main \in Cprocs /\ Main \in Stacks /\ Running(Main)
    BY CThreadsAssumption, StackIs DEF Init, Running
  <1>3. CountInv
    <2>1. MessagingStacks = {} /\ WaitingStacks = {}
      BY <1>1 DEF MessagingStacks, WaitingStacks, Messaging, Waits
    <2>2. Cardinality(MessagingStacks) = 0 /\ Cardinality(WaitingStacks) = 0 /\ Len(ready) = 0
      BY <1>1, <2>1, FS_EmptySet
    <2> QED BY <1>1, <2>2, CountsAreExact DEF CountsAre, CountInv
  <1>4. MutexesFine
    BY <1>1 DEF MutexesFine, Needy, HeldFree
  <1>5. AwakeLooks
    BY <1>1, <1>2, StackIs DEF AwakeLooks
  <1> QED BY <1>3, <1>4, <1>5 DEF WakeInv

LEMMA WakeInvStep ==
    ASSUME MutexInv, MutexInv', PlaceTypes, PlaceInv, WakeInv, [Next]_vars
    PROVE  WakeInv'
  <1>1. CASE UNCHANGED vars
    <2>1. UNCHANGED <<on, stack, wired, ready, ready_count, wait_count, wakeups, mutex, holder, condition>>
      BY <1>1 DEF vars, wiring, counts
    <2>2. CountInv'
      <3>1. \A r \in Stacks : (Messaging(r)' <=> Messaging(r)) /\ (Waits(r)' <=> Waits(r))
        BY <2>1 DEF Messaging, Waits, Running
      <3> QED BY <2>1, <3>1, CountsStay DEF WakeInv
    <2>3. MutexesFine'
      BY <2>1, MutexesAlone DEF WakeInv
    <2>4. AwakeLooks'
      BY <2>1 DEF WakeInv, AwakeLooks, Running
    <2> QED BY <2>2, <2>3, <2>4 DEF WakeInv
  <1>2. ASSUME NEW k \in KernelThreads, NEW p \in Cprocs, UserCall(k, p)
        PROVE  WakeInv'
    BY <1>2, MutexLockWakeups, MutexUnlockWakeups, ConditionWaitWakeups, WakeWakeups, YieldWakeups,
       CreateWakeups, WireWakeups
       DEF UserCall
  <1>3. ASSUME NEW k \in KernelThreads, NEW p \in Cprocs, CprocStep(k, p)
        PROVE  WakeInv'
    BY <1>3, SolidQueueWakeups, SolidTryWakeups, RetryWakeups, LookForWaitersWakeups, UnlockSolidWakeups,
       UnlockDequeueWakeups, WaitUnlockWakeups, WaitBlockWakeups, ReadyWakeups, EnqueueWakeups, SendWakeups,
       ReceiveWiredWakeups, DequeueReadyWakeups, BlockSwitchWakeups, SwitchWakeups, GetWaiterWakeups,
       BlockIdleWakeups, StartWaitWakeups, UnwaitWakeups, UnwaiterWakeups
       DEF CprocStep
  <1>4. ASSUME NEW k \in KernelThreads, NEW s \in Waiters, WaiterStep(k, s)
        PROVE  WakeInv'
    BY <1>4, ReceiveWakeups, WokenWakeups, ResumeWakeups, LeaveWakeups, LeavingWakeups DEF WaiterStep
  <1> QED BY <1>1, <1>2, <1>3, <1>4 DEF Next, Step

(* Who will wake whom, in every reachable state: the counts are exact, a   *)
(* free mutex with waiters has a cproc that will try it, one that is held  *)
(* without having been locked is being unlocked, and while the counts say  *)
(* that a message is due, a cproc is awake that will send it or find what  *)
(* is ready.                                                               *)
THEOREM WakeInvariant == Spec => []WakeInv
  <1>1. Init => WakeInv
    BY WakeInvInit
  <1>2. MutexInv /\ MutexInv' /\ (PlaceTypes /\ PlaceInv) /\ WakeInv /\ [Next]_vars => WakeInv'
    BY WakeInvStep
  <1> QED BY <1>1, <1>2, MutexInvariant, PlaceInvariant, PTL DEF Spec

(* ready_count is the number of ready cprocs less the messages sent for    *)
(* them, and wait_count the number of kernel threads that wait less those  *)
(* messages, whatever cproc_ready, cproc_block and cproc_waiting do at the *)
(* same time: no message is lost, and none counted twice.                  *)
THEOREM CountsStayExact == Spec => []CountsExact
  <1>1. WakeInv => CountsExact
    BY DEF WakeInv, CountInv
  <1> QED BY <1>1, WakeInvariant, PTL

(* While a mutex is free and has waiters, some cproc is unlocking it, or is*)
(* on its way to try it: mutex_unlock, which reads the queue after it has  *)
(* let go of the mutex, does not miss a waiter that mutex_lock_solid queues*)
(* before it tries the mutex once more.                                    *)
THEOREM MutexWaitersWoken == Spec => []MutexWaitersHaveWaker
  <1>1. WakeInv => MutexWaitersHaveWaker
    BY MutexesAreFine DEF WakeInv, MutexesFineMeans
  <1> QED BY <1>1, WakeInvariant, PTL

(* What NothingLeftReady rests on: a mutex that is held though nobody has  *)
(* locked it is being unlocked, and a cproc is awake while a message could *)
(* be sent for a ready one.                                                *)
THEOREM SleepInvariant == Spec => []SleepInv
  <1>1. WakeInv => SleepInv
    BY MutexesAreFine DEF WakeInv, MutexesFineMeans, SleepInv
  <1> QED BY <1>1, WakeInvariant, PTL

\* All kernel threads wait in cproc_waiting.
AllWait == AllAsleep /\ \A p \in Cprocs : ~wired[p]

LEMMA AllWaitAt ==
    ASSUME MutexInv, PlaceInv, WakeInv, AllWait, NEW s \in Stacks
    PROVE  /\ Running(s) => s \in Waiters /\ stack[s].pc = "receive" /\ wakeups = 0
           /\ ~Running(s) => stack[s].pc \in {"none", "user", "retry", "receive"}
  <1>1. StackAgrees(s)
    BY DEF PlaceInv, StacksAgree
  <1>2. ASSUME Running(s)
        PROVE  s \in Waiters /\ stack[s].pc = "receive" /\ wakeups = 0
    <2>1. Asleep(s)
      BY <1>2, StackIs DEF AllWait, AllAsleep, Running
    <2>2. stack[s].pc /= "wired"
      <3>1. ASSUME stack[s].pc = "wired"
            PROVE  FALSE
        <4>1. s \notin Waiters
          BY <1>1, <3>1 DEF StackAgrees
        <4> QED BY <3>1, <4>1, StackIs DEF AllWait, WakeInv, AwakeLooks, Stacks
      <3> QED BY <3>1
    <2>3. stack[s].pc = "receive" /\ wakeups = 0
      BY <2>1, <2>2 DEF Asleep
    <2> QED BY <1>1, <2>3 DEF StackAgrees
  <1>3. ASSUME ~Running(s)
        PROVE  stack[s].pc \in {"none", "user", "retry", "receive"}
    <2>1. CASE s \in Waiters
      BY <1>1, <1>3, <2>1 DEF StackAgrees
    <2>2. CASE s \in Cprocs
      BY <1>3, <2>2 DEF PlaceInv, CprocsAgree, CprocAgrees
    <2> QED BY <2>1, <2>2 DEF Stacks
  <1> QED BY <1>2, <1>3

LEMMA NothingIsReady ==
    ASSUME MutexInv, PlaceInv, WakeInv, AllWait
    PROVE  ready = <<>>
  <1>1. PICK s \in Stacks : Running(s)
    BY DEF WakeInv, AwakeLooks
  <1>2. s \in Waiters /\ stack[s].pc = "receive" /\ wakeups = 0
    BY <1>1, AllWaitAt
  <1>3. MessagingStacks = {}
    BY AllWaitAt DEF MessagingStacks, Messaging
  <1>4. s \in WaitingStacks
    BY <1>1, <1>2 DEF WaitingStacks, Waits
  <1>5. Cardinality(MessagingStacks) = 0
    BY <1>3, FS_EmptySet
  <1>6. Cardinality(WaitingStacks) \in Nat /\ Cardinality(WaitingStacks) /= 0
    <2>1. IsFiniteSet(WaitingStacks) /\ WaitingStacks /= {}
      BY <1>4, StacksFinite, FS_Subset DEF WaitingStacks
    <2> QED BY <2>1, FS_EmptySet, FS_CardinalityType
  <1>7. ready_count = Len(ready) /\ wait_count > 0
    <2>1. PICK a, w : a = Len(ready) /\ w = Cardinality(WaitingStacks)
      OBVIOUS
    <2>2. a \in Nat /\ w \in Nat /\ w /= 0
      BY <1>6, <2>1, MutexFields
    <2>3. ready_count = a - (0 + 0) /\ wait_count = w - (0 + 0)
      BY <1>2, <1>5, <2>1, CountsAreExact DEF CountsAre, CountInv, WakeInv
    <2> QED BY <2>1, <2>2, <2>3
  <1>8. ~(ready_count > 0)
    <2>1. ASSUME NEW p \in Cprocs, Running(p)
          PROVE  FALSE
      <3>1. p \in Stacks /\ p \notin Waiters
        BY StackIs
      <3> QED BY <2>1, <3>1, AllWaitAt
    <2> QED BY <1>7, <2>1 DEF WakeInv, AwakeLooks
  <1>9. ready \in Seq(Cprocs) /\ Len(ready) \in Nat
    BY MutexFields
  <1> QED BY <1>7, <1>8, <1>9

LEMMA WaitersAreLocked ==
    ASSUME MutexInv, PlaceInv, WakeInv, AllWait, NEW m \in Mutexes, mutex[m].queue /= <<>>
    PROVE  holder[m] /= None
  <1> SUFFICES ASSUME holder[m] = None PROVE FALSE
    OBVIOUS
  <1>1. \A p \in Cprocs : p \in Stacks /\ ~Running(p) /\ stack[p].pc \in {"none", "user", "retry"}
    <2>1. ASSUME NEW p \in Cprocs
          PROVE  p \in Stacks /\ ~Running(p) /\ stack[p].pc \in {"none", "user", "retry"}
      <3>1. p \in Stacks /\ p \notin Waiters
        BY StackIs
      <3>2. ~Running(p)
        BY <3>1, AllWaitAt
      <3> QED BY <3>1, <3>2 DEF PlaceInv, CprocsAgree, CprocAgrees
    <2> QED BY <2>1
  <1>2. CASE mutex[m].held
    <2>1. PICK p \in Cprocs : Dequeues(p, m)
      BY <1>2 DEF WakeInv, MutexesFine, HeldFree
    <2> QED BY <1>1, <2>1 DEF Dequeues
  <1>3. CASE ~mutex[m].held
    <2>1. PICK p \in Cprocs : WillTry(p, m)
      BY <1>3 DEF WakeInv, MutexesFine, Needy
    <2>2. stack[p].pc = "retry"
      <3>1. StackAgrees(p)
        BY <1>1 DEF PlaceInv, StacksAgree
      <3>2. stack[p].pc \in {"none", "user"} => stack[p].call = "none"
        BY <3>1 DEF StackAgrees, CallsAt, InBlock, NeedsWaiter
      <3> QED BY <1>1, <2>1, <3>2 DEF WillTry, NeedsMutex
    <2>3. ~Queued(p)
      BY <2>1, <2>2 DEF WillTry, Unlocking, HasUnlocked
    <2>4. OnChain(p)
      <3>1. Linked(p)
        BY <1>1, <2>2 DEF PlaceInv, CprocsAgree, CprocAgrees
      <3> QED BY <3>1, ChainsAreApart DEF ChainsApart
    <2>5. p \notin Range(ready)
      BY NothingIsReady, NoCprocs
    <2>6. PICK s \in Stacks : p \in Range(stack[s].hand)
      BY <2>3, <2>4, <2>5 DEF OnChain, Queued
    <2>7. stack[s].hand /= <<>>
      BY <2>6, NoCprocs
    <2>8. stack[s].pc \in Handing
      BY <2>7 DEF PlaceInv, StacksAgree, HandAgrees
    <2> QED BY <2>8, AllWaitAt DEF Handing
  <1> QED BY <1>2, <1>3

(* When all kernel threads wait in cproc_waiting, with no message sent to  *)
(* wake one, no cproc is left ready, and no mutex that nobody has locked   *)
(* has waiters: the library has not lost a wakeup.                         *)
THEOREM NobodyLeftReady == Spec => []NothingLeftReady
  <1>1. MutexInv /\ (PlaceTypes /\ PlaceInv) /\ WakeInv => NothingLeftReady
    BY NothingIsReady, WaitersAreLocked DEF NothingLeftReady, AllWait
  <1> QED BY <1>1, MutexInvariant, PlaceInvariant, WakeInvariant, PTL

=============================================================================
