---------------------------- MODULE RWLockProofs ----------------------------
(***************************************************************************)
(* Proofs about RWLock for any finite set of threads.                      *)
(***************************************************************************)
EXTENDS RWLock, FiniteSetTheorems, TLAPS

(* Type correctness needs only that the recursive holds of one thread stay *)
(* within the bound.                                                       *)
NestBound == \A t \in Threads : Nested(t) <= MaxNest

TypeInv == TypeOK /\ NestBound

LEMMA PlusType ==
    ASSUME NEW mod \in Nat \ {0}, NEW n \in 0..(mod - 1)
    PROVE  Plus(n, mod) \in 0..(mod - 1) /\ Minus(n, mod) \in 0..(mod - 1)
  BY DEF Plus, Minus

LEMMA ModNat == CountMod \in Nat \ {0} /\ DepthMod \in Nat \ {0}
  BY DEF CountMod, DepthMod

\* The operations on the fields keep the structure's type.
LEMMA FieldTypes ==
    ASSUME NEW k \in Locks
    PROVE  /\ IncRead(k) \in Locks
           /\ DecRead(k) \in Locks
           /\ IncDepth(k) \in Locks
           /\ DropWrite(k) \in Locks
           /\ Released(k) \in Locks
  <1>1. /\ k.read_count \in 0..(CountMod - 1)
        /\ k.recursion_depth \in 0..(DepthMod - 1)
    BY DEF Locks
  <1>2. /\ Plus(k.read_count, CountMod) \in 0..(CountMod - 1)
        /\ Minus(k.read_count, CountMod) \in 0..(CountMod - 1)
        /\ Plus(k.recursion_depth, DepthMod) \in 0..(DepthMod - 1)
        /\ Minus(k.recursion_depth, DepthMod) \in 0..(DepthMod - 1)
    BY <1>1, PlusType, ModNat
  <1>3. /\ IncRead(k) \in Locks
        /\ DecRead(k) \in Locks
        /\ IncDepth(k) \in Locks
        /\ DecDepth(k) \in Locks
    BY <1>2 DEF IncRead, DecRead, IncDepth, DecDepth, Locks
  <1>4. DropWrite(k) \in Locks
    BY <1>3 DEF DropWrite, Locks
  <1>5. Released(k) \in Locks
    BY <1>3, <1>4 DEF Released
  <1>6. QED
    BY <1>3, <1>4, <1>5

LEMMA MaxWorkNat == MaxWork \in Nat /\ MaxNest \in Nat
  BY LockAssumption

LEMMA InitTypeInv == Init => TypeInv
  <1> SUFFICES ASSUME Init
               PROVE  TypeInv
    OBVIOUS
  <1>0. PICK can_sleep \in BOOLEAN : l = lock_init(can_sleep)
    BY DEF Init
  <1>1. l \in Locks
    BY <1>0, ModNat DEF lock_init, Locks
  <1>2. nest \in [Threads -> Nests] /\ NestBound
    BY MaxWorkNat DEF Init, NoNest, Nests, NestBound, Nested
  <1>4. pc \in [Threads -> Calls] /\ mode \in [Threads -> Modes]
    BY DEF Init, Calls, Modes
  <1>5. work \in [Threads -> 0..MaxWork]
    BY MaxWorkNat DEF Init
  <1>6. QED
    BY <1>1, <1>2, <1>4, <1>5 DEF Init, TypeInv, TypeOK

LEMMA StoreAndWakeType ==
    ASSUME asleep \subseteq Threads, NEW k \in Locks, NEW cond \in BOOLEAN,
           StoreAndWake(k, cond)
    PROVE  l' \in Locks /\ asleep' \subseteq Threads
  <1>1. [k EXCEPT !.waiting = FALSE] \in Locks
    BY DEF Locks
  <1>2. QED
    BY <1>1 DEF StoreAndWake

LEMMA SleepType ==
    ASSUME TypeOK, NEW t \in Threads, Sleep(t)
    PROVE  TypeOK'
  BY DEF Sleep, TypeOK, Locks

LEMMA GrantType ==
    ASSUME TypeOK, NEW t \in Threads, NEW m \in Modes, Grant(t, m)
    PROVE  pc' \in [Threads -> Calls] /\ mode' \in [Threads -> Modes]
  BY DEF Grant, TypeOK, Calls

LEMMA WorkType ==
    ASSUME TypeOK, NEW t \in Threads,
           StartWork(t) \/ EndWork(t) \/ (HasWork(t) /\ SpendWork(t))
    PROVE  work' \in [Threads -> 0..MaxWork]
  BY MaxWorkNat DEF StartWork, EndWork, HasWork, SpendWork, TypeOK

LEMMA ModesAre == "none" \in Modes /\ "read" \in Modes /\ "write" \in Modes
  BY DEF Modes

LEMMA NextTypeInv == TypeInv /\ [Next]_vars => TypeInv'
  <1> SUFFICES ASSUME TypeInv, [Next]_vars
               PROVE  TypeInv'
    OBVIOUS
  <1> USE MaxWorkNat, GrantType, WorkType, ModesAre DEF TypeInv, NestBound, Nested
  <1>a. TypeOK /\ l \in Locks
    BY DEF TypeOK
  <1>b. /\ IncRead(l) \in Locks
        /\ DecRead(l) \in Locks
        /\ IncDepth(l) \in Locks
        /\ Released(l) \in Locks
        /\ IncDepth(DecRead(l)) \in Locks
        /\ DropWrite(IncRead(l)) \in Locks
        /\ [l EXCEPT !.want_write = TRUE] \in Locks
        /\ [DecRead(l) EXCEPT !.want_upgrade = TRUE] \in Locks
    <2>1. /\ IncRead(l) \in Locks
          /\ DecRead(l) \in Locks
          /\ IncDepth(l) \in Locks
          /\ Released(l) \in Locks
      BY <1>a, FieldTypes
    <2>2. IncDepth(DecRead(l)) \in Locks /\ DropWrite(IncRead(l)) \in Locks
      BY <2>1, FieldTypes
    <2>3. /\ [l EXCEPT !.want_write = TRUE] \in Locks
          /\ [DecRead(l) EXCEPT !.want_upgrade = TRUE] \in Locks
      BY <1>a, <2>1 DEF Locks
    <2>4. QED
      BY <2>1, <2>2, <2>3
  <1>c. ASSUME NEW k \in Locks, NEW t \in Threads, TryUpgradeLoop(t, k)
        PROVE  /\ l' \in Locks /\ asleep' \subseteq Threads
               /\ pc' \in [Threads -> Calls]
               /\ mode' \in [Threads -> Modes]
    <2>1. [k EXCEPT !.waiting = TRUE] \in Locks
      BY DEF Locks
    <2>2. QED
      BY <1>a, <1>c, <2>1, GrantType DEF TryUpgradeLoop, TypeOK, Calls
  <1>1. ASSUME NEW t \in Threads, Continue(t)
        PROVE  TypeInv'
    <2>1. CASE LockWriteWant(t)
      <3>1. CASE Sleep(t)
        BY <3>1, <1>a, SleepType DEF Sleep
      <3>2. CASE ~Sleep(t)
        BY <2>1, <3>2, <1>b DEF LockWriteWant, TypeOK, Calls
      <3>3. QED
        BY <3>1, <3>2
    <2>2. CASE LockWriteReaders(t)
      <3>1. CASE Sleep(t)
        BY <3>1, <1>a, SleepType DEF Sleep
      <3>2. CASE ~Sleep(t)
        BY <2>2, <3>2 DEF LockWriteReaders, TypeOK
      <3>3. QED
        BY <3>1, <3>2
    <2>3. CASE LockReadWait(t)
      <3>1. CASE Sleep(t)
        BY <3>1, <1>a, SleepType DEF Sleep
      <3>2. CASE ~Sleep(t)
        BY <2>3, <3>2, <1>b DEF LockReadWait, TypeOK
      <3>3. QED
        BY <3>1, <3>2
    <2>4. CASE UpgradeWait(t)
      <3>1. CASE Sleep(t)
        BY <3>1, <1>a, SleepType DEF Sleep
      <3>2. CASE ~Sleep(t)
        BY <2>4, <3>2 DEF UpgradeWait, TypeOK
      <3>3. QED
        BY <3>1, <3>2
    <2>5. CASE TryUpgradeWait(t)
      BY <2>5, <1>a, <1>c DEF TryUpgradeWait, TypeOK
    <2>6. CASE LockDone(t)
      <3>1. l' \in Locks /\ asleep' \subseteq Threads
        BY <2>6, <1>b, StoreAndWakeType DEF LockDone, TypeOK
      <3>2. nest' \in [Threads -> Nests] /\ NestBound'
        BY <2>6 DEF LockDone, TypeOK, Nests
      <3>3. mode' \in [Threads -> Modes] /\ work' \in [Threads -> 0..MaxWork]
        BY <2>6 DEF LockDone, TypeOK
      <3>4. QED
        BY <2>6, <3>1, <3>2, <3>3 DEF LockDone, TypeOK
    <2>7. CASE LockClearRecursive(t)
      <3>1. l' \in Locks
        BY <2>7, <1>a DEF LockClearRecursive, Locks
      <3>2. QED
        BY <2>7, <3>1 DEF LockClearRecursive, TypeOK
    <2>8. QED
      BY <1>1, <2>1, <2>2, <2>3, <2>4, <2>5, <2>6, <2>7 DEF Continue
  <1>2. ASSUME NEW t \in Threads, Call(t)
        PROVE  TypeInv'
    <2>1. CASE LockWriteCall(t) \/ LockReadCall(t)
      BY <2>1 DEF LockWriteCall, LockReadCall, TypeOK, Calls
    <2>2. CASE LockWriteNested(t)
      BY <2>2, <1>b DEF LockWriteNested, MayNest, TypeOK, Nests
    <2>3. CASE LockReadNested(t)
      BY <2>3, <1>b DEF LockReadNested, MayNest, TypeOK, Nests
    <2>4. CASE LockReadToWrite(t)
      BY <2>4, <1>b DEF LockReadToWrite, TypeOK, Calls
    <2>5. CASE LockReadToWriteFails(t)
      <3>1. l' \in Locks /\ asleep' \subseteq Threads
        BY <2>5, <1>b, StoreAndWakeType DEF LockReadToWriteFails, TypeOK
      <3>2. QED
        BY <2>5, <3>1 DEF LockReadToWriteFails, TypeOK
    <2>6. CASE LockReadToWriteNested(t)
      BY <2>6, <1>b DEF LockReadToWriteNested, TypeOK, Nests
    <2>7. CASE LockWriteToRead(t)
      <3>1. l' \in Locks /\ asleep' \subseteq Threads
        BY <2>7, <1>b, StoreAndWakeType DEF LockWriteToRead, TypeOK
      <3>2. QED
        BY <2>7, <3>1 DEF LockWriteToRead, TypeOK, Nests
    <2>8. CASE LockTryWrite(t) \/ LockTryRead(t)
      BY <2>8, <1>b DEF LockTryWrite, LockTryRead, TypeOK
    <2>9. CASE LockTryReadToWrite(t)
      BY <2>9, <1>b, <1>c DEF LockTryReadToWrite, TypeOK
    <2>10. CASE LockSetRecursive(t)
      <3>1. l' \in Locks
        BY <2>10, <1>a DEF LockSetRecursive, Locks
      <3>2. QED
        BY <2>10, <3>1 DEF LockSetRecursive, TypeOK
    <2>11. QED
      BY <1>2, <2>1, <2>2, <2>3, <2>4, <2>5, <2>6, <2>7, <2>8, <2>9, <2>10 DEF Call
  <1>3. ASSUME NEW b \in BOOLEAN, LockSleepable(b)
        PROVE  TypeInv'
    <2>1. l' \in Locks
      BY <1>3, <1>a DEF LockSleepable, Locks
    <2>2. QED
      BY <1>3, <2>1 DEF LockSleepable, TypeOK
  <1>4. CASE UNCHANGED vars
    BY <1>4 DEF vars, TypeOK
  <1>5. QED
    BY <1>1, <1>2, <1>3, <1>4 DEF Next

\* Type correctness of the complex lock: the bit fields of struct lock keep
\* their widths, no client is given more recursive holds than it may take.
THEOREM TypeCorrect == Spec => []TypeOK
  <1>1. TypeInv => TypeOK
    BY DEF TypeInv
  <1>2. QED
    BY InitTypeInv, NextTypeInv, <1>1, PTL DEF Spec

-----------------------------------------------------------------------------
(* The complex lock excludes: while one thread writes no other thread      *)
(* holds the lock, and read_count is the number of read holds, for any     *)
(* finite set of threads, if at most one recursive hold is outstanding.    *)
(* With two of them lock_done ends the wrong hold and neither is true.     *)

Inv == TypeInv /\ LockInv

-----------------------------------------------------------------------------
(* Counting.                                                               *)

LEMMA CountedSets ==
    ASSUME NEW S \in SUBSET Threads
    PROVE  /\ Cardinality(S) \in Nat
           /\ Cardinality(S) <= Cardinality(Threads)
           /\ \A t \in Threads \ S : Cardinality(S \cup {t}) = Cardinality(S) + 1
           /\ \A t \in S : Cardinality(S \ {t}) = Cardinality(S) - 1
           /\ Cardinality(S) = 0 => S = {}
  <1>1. IsFiniteSet(Threads)
    BY LockAssumption
  <1>2. IsFiniteSet(S) /\ Cardinality(S) <= Cardinality(Threads)
    BY <1>1, FS_Subset
  <1>3. Cardinality(S) \in Nat
    BY <1>2, FS_CardinalityType
  <1>4. \A t \in Threads \ S : Cardinality(S \cup {t}) = Cardinality(S) + 1
    BY <1>2, FS_AddElement
  <1>5. \A t \in S : Cardinality(S \ {t}) = Cardinality(S) - 1
    BY <1>2, FS_RemoveElement
  <1>6. Cardinality(S) = 0 => S = {}
    BY <1>2, FS_EmptySet
  <1>7. QED
    BY <1>2, <1>3, <1>4, <1>5, <1>6

\* Counters that stay below their modulus do not wrap.
LEMMA NoWrap ==
    ASSUME NEW mod \in Nat, NEW n \in Nat
    PROVE  /\ n + 1 < mod => Plus(n, mod) = n + 1
           /\ 0 < n /\ n < mod => Minus(n, mod) = n - 1
  <1>1. ASSUME n + 1 < mod PROVE Plus(n, mod) = n + 1
    BY <1>1 DEF Plus
  <1>2. ASSUME 0 < n, n < mod PROVE Minus(n, mod) = n - 1
    <2>1. n + (mod - 1) = mod + (n - 1) /\ n - 1 \in 0..(mod - 1)
      BY <1>2
    <2>2. (mod + (n - 1)) % mod = n - 1
      BY <1>2, <2>1
    <2>3. QED
      BY <2>1, <2>2 DEF Minus
  <1>3. QED
    BY <1>1, <1>2

\* The bound of the 16 bits of read_count, in terms of the holds.
LEMMA CountBound ==
    ASSUME TypeInv
    PROVE  /\ CountedReaders \in SUBSET Threads
           /\ Cardinality(CountedReaders) \in Nat
           /\ NestedReads \in 0..MaxNest
           /\ NestedWrites \in 0..MaxNest
           /\ Cardinality(Threads) \in Nat
           /\ Cardinality(Threads) + MaxNest < CountMod
           /\ MaxNest < DepthMod
  <1>1. CountedReaders \in SUBSET Threads
    BY DEF CountedReaders
  <1>2. Cardinality(Threads) \in Nat
    BY LockAssumption, FS_CardinalityType
  <1>3. NestedReads \in 0..MaxNest /\ NestedWrites \in 0..MaxNest
    <2>1. l.thread \in Threads \cup {NoThread}
      BY DEF TypeInv, TypeOK, Locks
    <2>2. QED
      BY <2>1, MaxWorkNat DEF TypeInv, TypeOK, Nests, NestedReads, NestedWrites
  <1>4. QED
    BY <1>1, <1>2, <1>3, CountedSets, LockAssumption

-----------------------------------------------------------------------------
(* What a step leaves alone.  The invariant reads five fields of the lock  *)
(* (not waiting, not can_sleep), and pc, mode and nest.                    *)

SameCounts(k) ==
    k.read_count = l.read_count /\ k.recursion_depth = l.recursion_depth
SameBits(k) == k.want_write = l.want_write /\ k.want_upgrade = l.want_upgrade
SameOwner(k) == k.thread = l.thread

LEMMA WakeFields ==
    ASSUME NEW k \in Locks, NEW cond, StoreAndWake(k, cond)
    PROVE  /\ l'.thread = k.thread
           /\ l'.read_count = k.read_count
           /\ l'.recursion_depth = k.recursion_depth
           /\ l'.want_write = k.want_write
           /\ l'.want_upgrade = k.want_upgrade
  BY DEF StoreAndWake, Locks

\* Steps that move no hold: to sleep, into a wait loop, can_sleep.
LEMMA Idling ==
    ASSUME Inv, l' \in Locks, SameCounts(l'), SameBits(l'), SameOwner(l'),
           UNCHANGED <<mode, nest>>,
           \/ UNCHANGED pc
           \/ \E t \in Threads, c \in {"lock_write", "lock_read"} :
                 /\ pc[t] = "run" /\ mode[t] = "none" /\ ~Owner(t)
                 /\ pc' = [pc EXCEPT ![t] = c]
    PROVE  LockInv'
  <1> USE DEF Inv, LockInv, SameCounts, SameBits, SameOwner
  <1>1. CountedReaders' = CountedReaders
    BY DEF CountedReaders, TypeInv, TypeOK
  <1>2. NestedReads' = NestedReads /\ NestedWrites' = NestedWrites
    BY DEF NestedReads, NestedWrites
  <1>3. MutualExclusion' /\ ReadCountExact' /\ l'.recursion_depth = NestedWrites'
    BY <1>1, <1>2 DEF MutualExclusion, ReadCountExact
  <1>4. WaitersHold'
    BY DEF WaitersHold, Upgrading, TypeInv, TypeOK
  <1>5. OwnersHold'
    BY DEF OwnersHold, Owner, Nested, Writing, TypeInv, TypeOK
  <1>6. BitsHaveTakers'
    BY DEF BitsHaveTakers, Pending, Upgrading, Writing, TypeInv, TypeOK
  <1>7. QED
    BY <1>3, <1>4, <1>5, <1>6

-----------------------------------------------------------------------------
(* What the fields say of the threads.                                     *)

LEMMA FieldsTell ==
    ASSUME Inv
    PROVE  /\ l.read_count = 0 => CountedReaders = {} /\ NestedReads = 0
           /\ ~l.want_write /\ ~l.want_upgrade => \A t \in Threads : ~Writing(t)
           /\ \A t \in CountedReaders : 0 < l.read_count
           /\ \A t \in Threads : l.thread = t => 
                  nest[t].read = NestedReads /\ nest[t].write = NestedWrites
           /\ \A t \in Threads : Writing(t) =>
                  /\ CountedReaders = {}
                  /\ ~Owner(t) => l.thread = NoThread /\ l.read_count = 0 /\ l.recursion_depth = 0
  <1> USE CountBound DEF Inv, LockInv
  <1>1. ASSUME l.read_count = 0 PROVE CountedReaders = {} /\ NestedReads = 0
    BY <1>1, CountedSets DEF ReadCountExact
  <1>2. ASSUME ~l.want_write, ~l.want_upgrade, NEW t \in Threads PROVE ~Writing(t)
    BY <1>2 DEF BitsHaveTakers
  <1>3. ASSUME NEW t \in CountedReaders PROVE 0 < l.read_count
    <2>1. CountedReaders # {}
      OBVIOUS
    <2>2. Cardinality(CountedReaders) # 0
      BY <2>1, CountedSets
    <2>3. QED
      BY <2>2 DEF ReadCountExact
  <1>4. ASSUME NEW t \in Threads, l.thread = t
        PROVE  nest[t].read = NestedReads /\ nest[t].write = NestedWrites
    BY <1>4, LockAssumption DEF NestedReads, NestedWrites
  <1>5. ASSUME NEW t \in Threads, Writing(t) PROVE CountedReaders = {}
    BY <1>5 DEF MutualExclusion, CountedReaders, Writing
  <1>6. ASSUME NEW t \in Threads, Writing(t), ~Owner(t)
        PROVE  l.thread = NoThread /\ l.read_count = 0 /\ l.recursion_depth = 0
    <2>1. l.thread \in Threads \cup {NoThread}
      BY DEF TypeInv, TypeOK, Locks
    <2>2. l.thread = NoThread
      BY <1>6, <2>1 DEF MutualExclusion, OwnersHold, Owner, Writing
    <2>3. Cardinality(CountedReaders) = 0
      <3>1. CountedReaders = {}
        BY <1>5, <1>6
      <3>2. QED
        BY <3>1, FS_EmptySet
    <2>4. QED
      BY <2>2, <2>3 DEF ReadCountExact, NestedReads, NestedWrites
  <1>7. QED
    BY <1>1, <1>2, <1>3, <1>4, <1>5, <1>6

\* read_count has room for one more while a thread is not counted, or the owner
\* may take one more recursive hold.
LEMMA CountUp ==
    ASSUME Inv, Threads \ CountedReaders # {} \/ NestedReads < MaxNest
    PROVE  Plus(l.read_count, CountMod) = l.read_count + 1
  <1>1. /\ CountedReaders \in SUBSET Threads /\ Cardinality(CountedReaders) \in Nat
        /\ NestedReads \in 0..MaxNest /\ Cardinality(Threads) \in Nat
        /\ Cardinality(Threads) + MaxNest < CountMod
    BY CountBound DEF Inv
  <1>2. l.read_count = Cardinality(CountedReaders) + NestedReads
    BY DEF Inv, LockInv, ReadCountExact
  <1>3. l.read_count + 1 <= Cardinality(Threads) + MaxNest
    <2>1. CASE NestedReads < MaxNest
      <3>1. Cardinality(CountedReaders) <= Cardinality(Threads)
        BY <1>1, CountedSets
      <3>2. QED
        BY <1>1, <1>2, <2>1, <3>1, MaxWorkNat
    <2>2. CASE Threads \ CountedReaders # {}
      <3>1. PICK t \in Threads \ CountedReaders : TRUE
        BY <2>2
      <3>2. /\ CountedReaders \cup {t} \in SUBSET Threads
            /\ Cardinality(CountedReaders \cup {t}) = Cardinality(CountedReaders) + 1
        BY <1>1, <3>1, CountedSets
      <3>3. Cardinality(CountedReaders \cup {t}) <= Cardinality(Threads)
        BY <3>2, CountedSets
      <3>4. QED
        BY <1>1, <1>2, <3>2, <3>3, MaxWorkNat
    <2>3. QED
      BY <2>1, <2>2
  <1>4. l.read_count \in Nat /\ l.read_count + 1 < CountMod /\ CountMod \in Nat
    BY <1>1, <1>2, <1>3, MaxWorkNat, ModNat
  <1>5. QED
    BY <1>4, NoWrap

-----------------------------------------------------------------------------
(* One lemma per way in which holds move.                                  *)

\* A writer takes want_write and waits for the readers and the upgrader.
LEMMA WriterPends ==
    ASSUME Inv, NEW t \in Threads, l' \in Locks,
           SameCounts(l'), SameOwner(l'),
           pc[t] = "lock_write", ~l.want_write, l'.want_write,
           l'.want_upgrade = l.want_upgrade,
           pc' = [pc EXCEPT ![t] = "lock_write_readers"],
           UNCHANGED <<mode, nest>>
    PROVE  LockInv'
  <1> USE DEF Inv, LockInv, SameCounts, SameOwner
  <1>1. CountedReaders' = CountedReaders
    BY DEF CountedReaders, TypeInv, TypeOK
  <1>2. NestedReads' = NestedReads /\ NestedWrites' = NestedWrites
    BY DEF NestedReads, NestedWrites
  <1>3. MutualExclusion' /\ ReadCountExact' /\ l'.recursion_depth = NestedWrites'
    BY <1>1, <1>2 DEF MutualExclusion, ReadCountExact
  <1>4. WaitersHold'
    BY DEF WaitersHold, Upgrading, TypeInv, TypeOK
  <1>5. OwnersHold'
    BY DEF OwnersHold, Owner, Nested, Writing, TypeInv, TypeOK
  <1>6. BitsHaveTakers'
    BY DEF BitsHaveTakers, Pending, Upgrading, Writing, TypeInv, TypeOK
  <1>7. QED
    BY <1>3, <1>4, <1>5, <1>6

\* A writer that found nobody in writes: want_write is its own, no reader is
\* counted and no upgrade is wanted.
LEMMA WriterEnters ==
    ASSUME Inv, NEW t \in Threads, l' \in Locks,
           SameCounts(l'), SameOwner(l'),
           mode[t] = "none", pc[t] \in {"run", "lock_write", "lock_write_readers"},
           l.want_write => Pending(t), l'.want_write,
           ~l.want_upgrade, ~l'.want_upgrade, l.read_count = 0,
           pc' = [pc EXCEPT ![t] = "run"],
           mode' = [mode EXCEPT ![t] = "write"],
           UNCHANGED nest
    PROVE  LockInv'
  <1> USE DEF Inv, LockInv, SameCounts, SameOwner
  <1>1. CountedReaders = {} /\ \A u \in Threads : ~Writing(u) /\ ~Upgrading(u)
    BY FieldsTell DEF BitsHaveTakers, Writing
  <1>2. \A u \in Threads \ {t} : mode[u] = "none" /\ ~Pending(u)
    <2>1. ASSUME NEW u \in Threads \ {t} PROVE mode[u] = "none"
      <3>1. mode[u] # "write" /\ mode[u] \in Modes /\ pc[u] \in Calls
        BY <1>1 DEF Writing, TypeInv, TypeOK
      <3>2. mode[u] # "read"
        BY <1>1, <3>1 DEF CountedReaders, WaitersHold, Upgrading, Calls
      <3>3. QED
        BY <3>1, <3>2 DEF Modes
    <2>2. ASSUME NEW u \in Threads \ {t} PROVE ~Pending(u)
      BY DEF BitsHaveTakers, Pending
    <2>3. QED
      BY <2>1, <2>2
  <1>3. CountedReaders' = CountedReaders
    BY <1>1 DEF CountedReaders, TypeInv, TypeOK
  <1>4. NestedReads' = NestedReads /\ NestedWrites' = NestedWrites
    BY DEF NestedReads, NestedWrites
  <1>5. ReadCountExact' /\ l'.recursion_depth = NestedWrites'
    BY <1>3, <1>4 DEF ReadCountExact
  <1>6. MutualExclusion'
    BY <1>2 DEF MutualExclusion, TypeInv, TypeOK
  <1>7. WaitersHold'
    BY DEF WaitersHold, Upgrading, TypeInv, TypeOK
  <1>8. OwnersHold'
    BY DEF OwnersHold, Owner, Nested, Writing, TypeInv, TypeOK
  <1>9. BitsHaveTakers'
    BY <1>1, <1>2 DEF BitsHaveTakers, Pending, Upgrading, Writing, TypeInv, TypeOK
  <1>10. QED
    BY <1>5, <1>6, <1>7, <1>8, <1>9

\* A reader enters while no bit is set.
LEMMA ReaderEnters ==
    ASSUME Inv, NEW t \in Threads, l' \in Locks,
           l' = IncRead(l),
           mode[t] = "none", pc[t] \in {"run", "lock_read"},
           ~l.want_write, ~l.want_upgrade,
           pc' = [pc EXCEPT ![t] = "run"],
           mode' = [mode EXCEPT ![t] = "read"],
           UNCHANGED nest
    PROVE  LockInv'
  <1> USE DEF Inv, LockInv
  <1>0. \A u \in Threads : ~Writing(u) /\ ~Upgrading(u) /\ ~Pending(u)
    BY FieldsTell DEF BitsHaveTakers
  <1>1. CountedReaders' = CountedReaders \cup {t} /\ t \in Threads \ CountedReaders
    BY DEF CountedReaders, TypeInv, TypeOK
  <1>2. /\ l'.thread = l.thread /\ l'.recursion_depth = l.recursion_depth
        /\ l'.want_write = l.want_write /\ l'.want_upgrade = l.want_upgrade
        /\ l'.read_count = Plus(l.read_count, CountMod)
    BY DEF IncRead, TypeInv, TypeOK, Locks
  <1>3. NestedReads' = NestedReads /\ NestedWrites' = NestedWrites
    BY <1>2 DEF NestedReads, NestedWrites
  <1>4. ReadCountExact'
    <2>1. /\ CountedReaders' \in SUBSET Threads
          /\ Cardinality(CountedReaders') = Cardinality(CountedReaders) + 1
      BY <1>1, CountBound, CountedSets
    <2>2. l.read_count + 1 = Cardinality(CountedReaders') + NestedReads
      BY <2>1, CountBound DEF ReadCountExact
    <2>3. Plus(l.read_count, CountMod) = l.read_count + 1
      BY <1>1, CountUp
    <2>4. QED
      BY <1>2, <1>3, <2>2, <2>3 DEF ReadCountExact
  <1>6. MutualExclusion' /\ l'.recursion_depth = NestedWrites'
    BY <1>0, <1>2, <1>3 DEF MutualExclusion, Writing, TypeInv, TypeOK
  <1>7. WaitersHold'
    BY DEF WaitersHold, Upgrading, TypeInv, TypeOK
  <1>8. OwnersHold'
    BY <1>2 DEF OwnersHold, Owner, Nested, Writing, TypeInv, TypeOK
  <1>9. BitsHaveTakers'
    BY <1>0, <1>2 DEF BitsHaveTakers, Pending, Upgrading, Writing, TypeInv, TypeOK
  <1>10. QED
    BY <1>4, <1>6, <1>7, <1>8, <1>9

\* A counted reader stops being counted: it wants to upgrade, or is told that
\* somebody else does, or is done.
LEMMA ReaderUncounted ==
    ASSUME Inv, NEW t \in CountedReaders
    PROVE  /\ DecRead(l).read_count = l.read_count - 1
           /\ l.read_count - 1 = Cardinality(CountedReaders \ {t}) + NestedReads
           /\ DecRead(l).thread = l.thread
           /\ DecRead(l).recursion_depth = l.recursion_depth
           /\ DecRead(l).want_write = l.want_write
           /\ DecRead(l).want_upgrade = l.want_upgrade
           /\ t \in Threads
           /\ DecRead(l) \in Locks
  <1>1. l \in Locks /\ t \in Threads
    BY DEF Inv, TypeInv, TypeOK, CountedReaders
  <1>2. l.read_count \in 0..(CountMod - 1) /\ 0 < l.read_count
    BY <1>1, FieldsTell DEF Locks
  <1>3. Minus(l.read_count, CountMod) = l.read_count - 1
    <2>1. CountMod \in Nat /\ l.read_count \in Nat /\ l.read_count < CountMod
      BY <1>2, ModNat
    <2>2. QED
      BY <1>2, <2>1, NoWrap
  <1>4. l.read_count - 1 = Cardinality(CountedReaders \ {t}) + NestedReads
    <2>1. /\ Cardinality(CountedReaders \ {t}) = Cardinality(CountedReaders) - 1
          /\ Cardinality(CountedReaders) \in Nat /\ NestedReads \in Nat
      BY CountBound, CountedSets DEF Inv
    <2>2. l.read_count = Cardinality(CountedReaders) + NestedReads
      BY DEF Inv, LockInv, ReadCountExact
    <2>3. QED
      BY <2>1, <2>2
  <1>5. DecRead(l) \in Locks
    BY <1>1, FieldTypes
  <1>6. QED
    BY <1>1, <1>3, <1>4, <1>5 DEF DecRead, Locks

LEMMA ReaderLeaves ==
    ASSUME Inv, NEW t \in CountedReaders, ~Owner(t), l' \in Locks,
           l'.thread = l.thread, l'.read_count = l.read_count - 1,
           l'.recursion_depth = l.recursion_depth, SameBits(l'),
           UNCHANGED <<pc, nest>>,
           mode' = [mode EXCEPT ![t] = "none"]
    PROVE  LockInv'
  <1> USE DEF Inv, LockInv, SameBits
  <1>1. t \in Threads /\ mode[t] = "read" /\ pc[t] = "run"
    BY DEF CountedReaders
  <1>2. CountedReaders' = CountedReaders \ {t}
    BY <1>1 DEF CountedReaders, TypeInv, TypeOK
  <1>3. NestedReads' = NestedReads /\ NestedWrites' = NestedWrites
    BY DEF NestedReads, NestedWrites
  <1>4. ReadCountExact' /\ l'.recursion_depth = NestedWrites'
    BY <1>2, <1>3, ReaderUncounted DEF ReadCountExact
  <1>5. MutualExclusion'
    BY <1>1 DEF MutualExclusion, TypeInv, TypeOK
  <1>6. WaitersHold'
    BY <1>1 DEF WaitersHold, Upgrading, TypeInv, TypeOK
  <1>7. OwnersHold'
    BY <1>1 DEF OwnersHold, Owner, Nested, Writing, TypeInv, TypeOK
  <1>8. BitsHaveTakers'
    BY <1>1 DEF BitsHaveTakers, Pending, Upgrading, Writing, TypeInv, TypeOK
  <1>9. QED
    BY <1>4, <1>5, <1>6, <1>7, <1>8

\* A reader takes want_upgrade and waits for the other readers.
LEMMA UpgradePends ==
    ASSUME Inv, NEW t \in CountedReaders, ~Owner(t), l' \in Locks,
           l'.thread = l.thread, l'.read_count = l.read_count - 1,
           l'.recursion_depth = l.recursion_depth,
           l'.want_write = l.want_write, ~l.want_upgrade, l'.want_upgrade,
           NEW c \in {"upgrade", "try_upgrade"},
           pc' = [pc EXCEPT ![t] = c],
           UNCHANGED <<mode, nest>>
    PROVE  LockInv'
  <1> USE DEF Inv, LockInv
  <1>1. t \in Threads /\ mode[t] = "read" /\ pc[t] = "run"
    BY DEF CountedReaders
  <1>2. CountedReaders' = CountedReaders \ {t}
    BY <1>1 DEF CountedReaders, TypeInv, TypeOK
  <1>3. NestedReads' = NestedReads /\ NestedWrites' = NestedWrites
    BY DEF NestedReads, NestedWrites
  <1>4. ReadCountExact' /\ l'.recursion_depth = NestedWrites'
    BY <1>2, <1>3, ReaderUncounted DEF ReadCountExact
  <1>5. MutualExclusion'
    BY DEF MutualExclusion
  <1>6. WaitersHold'
    BY <1>1 DEF WaitersHold, Upgrading, TypeInv, TypeOK
  <1>7. OwnersHold'
    BY <1>1 DEF OwnersHold, Owner, Nested, Writing, TypeInv, TypeOK
  <1>8. BitsHaveTakers'
    BY <1>1 DEF BitsHaveTakers, Pending, Upgrading, Writing, TypeInv, TypeOK
  <1>9. QED
    BY <1>4, <1>5, <1>6, <1>7, <1>8

\* The upgrader enters once no reader is counted: at once, when it was the last
\* one, or from its wait.
LEMMA UpgraderEnters ==
    ASSUME Inv, NEW t \in Threads, ~Owner(t), mode[t] = "read", l' \in Locks,
           \/ Upgrading(t) /\ l'.read_count = l.read_count
           \/ pc[t] = "run" /\ ~l.want_upgrade /\ l'.read_count = l.read_count - 1,
           l'.read_count = 0, l'.thread = l.thread,
           l'.recursion_depth = l.recursion_depth,
           l'.want_write = l.want_write, l'.want_upgrade,
           pc' = [pc EXCEPT ![t] = "run"],
           mode' = [mode EXCEPT ![t] = "write"],
           UNCHANGED nest
    PROVE  LockInv'
  <1> USE DEF Inv, LockInv
  <1>1. /\ CountedReaders \ {t} = {} /\ NestedReads = 0
        /\ \A u \in Threads \ {t} : ~Upgrading(u)
    <2>1. CASE Upgrading(t) /\ l'.read_count = l.read_count
      BY <2>1, FieldsTell DEF BitsHaveTakers
    <2>2. CASE pc[t] = "run" /\ ~l.want_upgrade /\ l'.read_count = l.read_count - 1
      <3>1. t \in CountedReaders
        BY <2>2 DEF CountedReaders
      <3>2. 0 = Cardinality(CountedReaders \ {t}) + NestedReads
        BY <2>2, <3>1, ReaderUncounted
      <3>3. CountedReaders \ {t} \in SUBSET Threads
        BY DEF CountedReaders
      <3>4. Cardinality(CountedReaders \ {t}) = 0 /\ NestedReads = 0
        BY <3>2, <3>3, CountedSets, CountBound, MaxWorkNat
      <3>5. QED
        BY <2>2, <3>3, <3>4, CountedSets DEF BitsHaveTakers
    <2>3. QED
      BY <2>1, <2>2
  <1>2. \A u \in Threads \ {t} : mode[u] = "none"
    <2>1. ASSUME NEW u \in Threads \ {t} PROVE mode[u] = "none"
      <3>1. mode[u] \in Modes /\ pc[u] \in Calls
        BY DEF TypeInv, TypeOK
      <3>2. mode[u] # "write"
        BY DEF MutualExclusion
      <3>3. mode[u] # "read"
        BY <1>1, <3>1 DEF CountedReaders, WaitersHold, Upgrading, Calls
      <3>4. QED
        BY <3>1, <3>2, <3>3 DEF Modes
    <2>2. QED
      BY <2>1
  <1>3. CountedReaders' = {}
    BY <1>2 DEF CountedReaders, TypeInv, TypeOK
  <1>4. NestedReads' = 0 /\ NestedWrites' = NestedWrites
    BY <1>1 DEF NestedReads, NestedWrites
  <1>5. ReadCountExact' /\ l'.recursion_depth = NestedWrites'
    BY <1>3, <1>4, FS_EmptySet DEF ReadCountExact
  <1>6. MutualExclusion'
    BY <1>2 DEF MutualExclusion, TypeInv, TypeOK
  <1>7. WaitersHold'
    BY DEF WaitersHold, Upgrading, TypeInv, TypeOK
  <1>8. OwnersHold'
    BY DEF OwnersHold, Owner, Nested, Writing, TypeInv, TypeOK
  <1>9. BitsHaveTakers'
    BY <1>1 DEF BitsHaveTakers, Pending, Upgrading, Writing, TypeInv, TypeOK
  <1>10. QED
    BY <1>5, <1>6, <1>7, <1>8, <1>9

\* What DropWrite does for a writer without recursive write holds: it clears
\* the one bit that this writer took.
LEMMA WriterDropsItsBit ==
    ASSUME Inv, NEW k \in Locks, k.recursion_depth = 0, SameBits(k)
    PROVE  /\ DropWrite(k).thread = k.thread
           /\ DropWrite(k).read_count = k.read_count
           /\ DropWrite(k).recursion_depth = 0
           /\ ~DropWrite(k).want_upgrade
           /\ DropWrite(k).want_write = (l.want_upgrade /\ l.want_write)
           /\ DropWrite(k) \in Locks
  <1>1. DropWrite(k) \in Locks
    BY FieldTypes
  <1>2. QED
    BY <1>1 DEF DropWrite, SameBits, Locks, Inv, TypeInv, TypeOK

\* A writer ends its hold, or turns it into a read hold: the bit it clears is
\* its own, whether it came by lock_write or by an upgrade.
LEMMA WriterStops ==
    ASSUME Inv, NEW t \in Threads, Writing(t), NEW m \in {"none", "read"},
           l' \in Locks, l'.thread = l.thread,
           l'.recursion_depth = l.recursion_depth,
           m = "none" => ~Owner(t) /\ l'.read_count = l.read_count,
           m = "read" => l'.read_count = l.read_count + 1,
           ~l'.want_upgrade, l'.want_write = (l.want_upgrade /\ l.want_write),
           Nested(t) = 0,
           mode' = [mode EXCEPT ![t] = m],
           UNCHANGED <<pc, nest>>
    PROVE  LockInv'
  <1> USE DEF Inv, LockInv
  <1>1. CountedReaders = {} /\ pc[t] = "run"
    <2>1. pc[t] \in Calls
      BY DEF TypeInv, TypeOK
    <2>2. QED
      BY <2>1, FieldsTell DEF WaitersHold, Writing, Upgrading, Calls
  <1>2. \A u \in Threads \ {t} : mode[u] = "none"
    BY DEF MutualExclusion, Writing
  <1>3. \A u \in Threads : ~Upgrading(u)
    BY <1>2 DEF WaitersHold, Writing
  <1>4. CountedReaders' = IF m = "read" THEN {t} ELSE {}
    BY <1>1, <1>2 DEF CountedReaders, TypeInv, TypeOK
  <1>5. NestedReads' = NestedReads /\ NestedWrites' = NestedWrites
    BY DEF NestedReads, NestedWrites
  <1>6. ReadCountExact' /\ l'.recursion_depth = NestedWrites'
    <2>1. Cardinality(CountedReaders) = 0
      BY <1>1, FS_EmptySet
    <2>2. Cardinality(CountedReaders') = IF m = "read" THEN 1 ELSE 0
      BY <1>4, FS_EmptySet, FS_Singleton
    <2>3. NestedReads \in Nat
      BY CountBound
    <2>4. QED
      BY <1>5, <2>1, <2>2, <2>3 DEF ReadCountExact
  <1>7. MutualExclusion'
    BY <1>2 DEF MutualExclusion, TypeInv, TypeOK
  <1>8. WaitersHold'
    BY <1>1 DEF WaitersHold, Upgrading, TypeInv, TypeOK
  <1>9. OwnersHold'
    BY <1>1 DEF OwnersHold, Owner, Nested, Writing, TypeInv, TypeOK, Nests
  <1>10. BitsHaveTakers'
    BY <1>1, <1>2, <1>3 DEF BitsHaveTakers, Pending, Upgrading, Writing, TypeInv, TypeOK
  <1>11. QED
    BY <1>6, <1>7, <1>8, <1>9, <1>10

\* The owner takes, trades or ends recursive holds.
LEMMA OwnerNests ==
    ASSUME Inv, NEW t \in Threads, Owner(t), l' \in Locks, NEW n \in Nests,
           l'.thread = l.thread, SameBits(l'),
           l'.read_count - n.read = l.read_count - nest[t].read,
           l'.recursion_depth = n.write,
           n.write > 0 => Writing(t),
           nest' = [nest EXCEPT ![t] = n],
           UNCHANGED <<pc, mode>>
    PROVE  LockInv'
  <1> USE DEF Inv, LockInv, SameBits
  <1>1. CountedReaders' = CountedReaders
    BY DEF CountedReaders
  <1>2. NestedReads' = n.read /\ NestedWrites' = n.write /\ NestedReads = nest[t].read
    BY LockAssumption DEF NestedReads, NestedWrites, Owner, TypeInv, TypeOK
  <1>3. ReadCountExact' /\ l'.recursion_depth = NestedWrites'
    <2>1. n.read \in Nat /\ nest[t].read \in Nat
      BY MaxWorkNat DEF Nests, TypeInv, TypeOK
    <2>2. l.read_count \in Nat /\ l'.read_count \in Nat
      BY ModNat DEF Locks, TypeInv, TypeOK
    <2>3. QED
      BY <1>1, <1>2, <2>1, <2>2, CountBound DEF ReadCountExact
  <1>4. MutualExclusion'
    BY DEF MutualExclusion
  <1>5. WaitersHold'
    BY DEF WaitersHold, Upgrading
  <1>6. OwnersHold'
    BY DEF OwnersHold, Owner, Nested, Writing, TypeInv, TypeOK
  <1>7. BitsHaveTakers'
    BY DEF BitsHaveTakers, Pending, Upgrading, Writing
  <1>8. QED
    BY <1>3, <1>4, <1>5, <1>6, <1>7

\* A writer becomes the owner, or an owner without recursive holds stops being
\* it: no counter is concerned.
LEMMA OwnerChanges ==
    ASSUME Inv, NEW t \in Threads, l' \in Locks, SameCounts(l'), SameBits(l'),
           \/ Writing(t) /\ ~Owner(t) /\ l'.thread = t
           \/ Owner(t) /\ Nested(t) = 0 /\ l'.thread = NoThread,
           UNCHANGED <<pc, mode, nest>>
    PROVE  LockInv'
  <1> USE DEF Inv, LockInv, SameCounts, SameBits
  <1>1. CountedReaders' = CountedReaders
    BY DEF CountedReaders
  <1>2. nest[t].read = 0 /\ nest[t].write = 0
    BY MaxWorkNat DEF OwnersHold, Nested, TypeInv, TypeOK, Nests
  <1>3. /\ NestedReads' = NestedReads /\ NestedReads = 0
        /\ NestedWrites' = NestedWrites /\ NestedWrites = 0
    BY <1>2, FieldsTell, LockAssumption DEF NestedReads, NestedWrites, Owner
  <1>4. MutualExclusion' /\ ReadCountExact' /\ l'.recursion_depth = NestedWrites'
    BY <1>1, <1>3 DEF MutualExclusion, ReadCountExact
  <1>5. WaitersHold'
    BY DEF WaitersHold, Upgrading
  <1>6. OwnersHold'
    <2>1. CASE Writing(t) /\ ~Owner(t) /\ l'.thread = t
      <3>1. pc[t] = "run" /\ mode[t] # "none"
        BY <2>1 DEF WaitersHold, Writing, Upgrading, TypeInv, TypeOK, Calls
      <3>2. l.thread = NoThread
        BY <2>1, FieldsTell
      <3>3. QED
        BY <2>1, <3>1, <3>2, LockAssumption DEF OwnersHold, Owner, Nested, Writing
    <2>2. CASE Owner(t) /\ Nested(t) = 0 /\ l'.thread = NoThread
      BY <2>2, <1>2, LockAssumption DEF OwnersHold, Owner, Nested, Writing
    <2>3. QED
      BY <2>1, <2>2
  <1>7. BitsHaveTakers'
    BY DEF BitsHaveTakers, Pending, Upgrading, Writing
  <1>8. QED
    BY <1>4, <1>5, <1>6, <1>7

-----------------------------------------------------------------------------
(* The actions.                                                            *)

LEMMA InitLockInv == Init => LockInv
  <1> SUFFICES ASSUME Init PROVE LockInv
    OBVIOUS
  <1>1. l.thread = NoThread /\ l.read_count = 0 /\ l.recursion_depth = 0
    BY DEF Init, lock_init
  <1>2. CountedReaders = {}
    BY DEF Init, CountedReaders
  <1>3. ReadCountExact /\ l.recursion_depth = NestedWrites
    BY <1>1, <1>2, FS_EmptySet DEF ReadCountExact, NestedReads, NestedWrites
  <1>4. MutualExclusion /\ WaitersHold
    BY DEF Init, MutualExclusion, WaitersHold, Upgrading
  <1>5. OwnersHold
    BY <1>1, LockAssumption DEF Init, OwnersHold, Owner, Nested, NoNest, Writing
  <1>6. BitsHaveTakers
    BY DEF Init, BitsHaveTakers, Pending, Upgrading, Writing
  <1>7. QED
    BY <1>3, <1>4, <1>5, <1>6 DEF LockInv

LEMMA SleepKeeps ==
    ASSUME Inv, NEW t \in Threads, Sleep(t)
    PROVE  LockInv'
  <1>1. l' \in Locks /\ SameCounts(l') /\ SameBits(l') /\ SameOwner(l')
    BY DEF Sleep, Inv, TypeInv, TypeOK, Locks, SameCounts, SameBits, SameOwner
  <1>2. QED
    BY <1>1, Idling DEF Sleep

LEMMA ContinueKeeps ==
    ASSUME Inv, TypeInv', MaxNest <= 1, NEW t \in Threads, Continue(t)
    PROVE  LockInv'
  <1>a. l \in Locks /\ l' \in Locks /\ nest' \in [Threads -> Nests]
    BY DEF Inv, TypeInv, TypeOK
  <1>b. MutualExclusion /\ WaitersHold /\ OwnersHold /\ BitsHaveTakers
    BY DEF Inv, LockInv
  <1>c. pc[t] \in {"lock_write", "lock_write_readers", "lock_read"}
            => ~Owner(t) /\ mode[t] = "none"
    BY <1>b DEF WaitersHold, OwnersHold
  <1>d. Upgrading(t) => ~Owner(t) /\ mode[t] = "read"
    BY <1>b DEF WaitersHold, OwnersHold, Upgrading
  <1>1. CASE LockWriteWant(t)
    <2>1. CASE Sleep(t)
      BY <2>1, SleepKeeps
    <2>2. CASE ~Sleep(t)
      <3>1. /\ pc[t] = "lock_write" /\ ~l.want_write
            /\ l' = [l EXCEPT !.want_write = TRUE] /\ UNCHANGED nest
        BY <1>1, <2>2 DEF LockWriteWant, WriterBlocked
      <3>2. /\ SameCounts(l') /\ SameOwner(l') /\ l'.want_write
            /\ l'.want_upgrade = l.want_upgrade
        BY <1>a, <3>1 DEF SameCounts, SameOwner, Locks
      <3>3. CASE ReadersBlock(l)
        <4>1. pc' = [pc EXCEPT ![t] = "lock_write_readers"] /\ UNCHANGED mode
          BY <1>1, <2>2, <3>3 DEF LockWriteWant
        <4>2. QED
          BY <1>a, <3>1, <3>2, <4>1, WriterPends
      <3>4. CASE ~ReadersBlock(l)
        <4>1. ~l.want_upgrade /\ l.read_count = 0 /\ Grant(t, "write")
          BY <1>1, <2>2, <3>4 DEF LockWriteWant, ReadersBlock
        <4>2. QED
          BY <1>a, <1>c, <3>1, <3>2, <4>1, WriterEnters DEF Grant
      <3>5. QED
        BY <3>3, <3>4
    <2>3. QED
      BY <2>1, <2>2
  <1>2. CASE LockWriteReaders(t)
    <2>1. CASE Sleep(t)
      BY <2>1, SleepKeeps
    <2>2. CASE ~Sleep(t)
      <3>1. /\ pc[t] = "lock_write_readers" /\ ~l.want_upgrade /\ l.read_count = 0
            /\ Grant(t, "write") /\ UNCHANGED <<l, nest>>
        BY <1>2, <2>2 DEF LockWriteReaders, ReadersBlock
      <3>2. Pending(t) /\ l.want_write
        BY <1>b, <3>1 DEF Pending, BitsHaveTakers
      <3>3. SameCounts(l') /\ SameOwner(l')
        BY <3>1 DEF SameCounts, SameOwner
      <3>4. QED
        BY <1>a, <1>c, <3>1, <3>2, <3>3, WriterEnters DEF Grant
    <2>3. QED
      BY <2>1, <2>2
  <1>3. CASE LockReadWait(t)
    <2>1. CASE Sleep(t)
      BY <2>1, SleepKeeps
    <2>2. CASE ~Sleep(t)
      <3>1. /\ pc[t] = "lock_read" /\ ~l.want_write /\ ~l.want_upgrade
            /\ l' = IncRead(l) /\ Grant(t, "read") /\ UNCHANGED nest
        BY <1>3, <2>2 DEF LockReadWait, ReaderBlocked
      <3>2. QED
        BY <1>a, <1>c, <3>1, ReaderEnters DEF Grant
    <2>3. QED
      BY <2>1, <2>2
  <1>4. CASE UpgradeWait(t)
    <2>1. CASE Sleep(t)
      BY <2>1, SleepKeeps
    <2>2. CASE ~Sleep(t)
      <3>1. /\ Upgrading(t) /\ l.read_count = 0
            /\ Grant(t, "write") /\ UNCHANGED <<l, nest>>
        BY <1>4, <2>2 DEF UpgradeWait, UpgradeBlocked, Upgrading
      <3>2. l.want_upgrade
        BY <1>b, <3>1 DEF BitsHaveTakers
      <3>3. QED
        BY <1>a, <1>d, <3>1, <3>2, UpgraderEnters DEF Grant
    <2>3. QED
      BY <2>1, <2>2
  <1>5. CASE TryUpgradeWait(t)
    <2>1. pc[t] = "try_upgrade" /\ UNCHANGED nest /\ TryUpgradeLoop(t, l)
      BY <1>5 DEF TryUpgradeWait
    <2>2. CASE UpgradeBlocked(l)
      <3>1. l' = [l EXCEPT !.waiting = TRUE] /\ UNCHANGED <<pc, mode, nest>>
        BY <2>1, <2>2 DEF TryUpgradeLoop, Inv, TypeInv, TypeOK
      <3>2. SameCounts(l') /\ SameBits(l') /\ SameOwner(l')
        BY <1>a, <3>1 DEF SameCounts, SameBits, SameOwner, Locks
      <3>3. QED
        BY <1>a, <3>1, <3>2, Idling
    <2>3. CASE ~UpgradeBlocked(l)
      <3>1. /\ Upgrading(t) /\ l.read_count = 0
            /\ Grant(t, "write") /\ UNCHANGED <<l, nest>>
        BY <2>1, <2>3 DEF TryUpgradeLoop, UpgradeBlocked, Upgrading
      <3>2. l.want_upgrade
        BY <1>b, <3>1 DEF BitsHaveTakers
      <3>3. QED
        BY <1>a, <1>d, <3>1, <3>2, UpgraderEnters DEF Grant
    <2>4. QED
      BY <2>2, <2>3
  <1>6. CASE LockDone(t)
    <2> DEFINE k == Released(l)
    <2>1. /\ pc[t] = "run" /\ mode[t] # "none" /\ UNCHANGED pc
          /\ StoreAndWake(k, k.read_count = 0)
      BY <1>6 DEF LockDone
    <2>2. k \in Locks
      BY <1>a, FieldTypes
    <2>3. /\ l'.thread = k.thread /\ l'.read_count = k.read_count
          /\ l'.recursion_depth = k.recursion_depth
          /\ l'.want_write = k.want_write /\ l'.want_upgrade = k.want_upgrade
      BY <2>1, <2>2, WakeFields
    <2> HIDE DEF k
    <2>4. CASE /\ Nested(t) = 0 /\ ~Owner(t) /\ UNCHANGED nest
               /\ mode' = [mode EXCEPT ![t] = "none"]
      <3>1. CASE mode[t] = "read"
        <4>1. t \in CountedReaders
          BY <2>1, <3>1 DEF CountedReaders
        <4>2. l.read_count # 0
          BY <4>1, FieldsTell
        <4>3. k = DecRead(l)
          BY <4>2 DEF k, Released
        <4>4. QED
          BY <1>a, <2>1, <2>3, <2>4, <4>1, <4>3, ReaderUncounted, ReaderLeaves DEF SameBits
      <3>2. CASE Writing(t)
        <4>1. l.read_count = 0 /\ l.recursion_depth = 0
          BY <2>4, <3>2, FieldsTell
        <4>2. k = DropWrite(l)
          BY <4>1 DEF k, Released
        <4>3. SameBits(l)
          BY DEF SameBits
        <4>4. /\ k.thread = l.thread /\ k.read_count = l.read_count
              /\ k.recursion_depth = 0 /\ ~k.want_upgrade
              /\ k.want_write = (l.want_upgrade /\ l.want_write)
          BY <1>a, <4>1, <4>2, <4>3, WriterDropsItsBit
        <4>5. QED
          BY <1>a, <2>1, <2>3, <2>4, <3>2, <4>1, <4>4, WriterStops
      <3>3. QED
        BY <2>1, <3>1, <3>2 DEF Writing, Inv, TypeInv, TypeOK, Modes
    <2>5. CASE /\ nest[t].read > 0 /\ UNCHANGED mode
               /\ nest' = [nest EXCEPT ![t].read = @ - 1]
      <3> DEFINE n == [nest[t] EXCEPT !.read = @ - 1]
      <3>1. n \in Nests /\ nest' = [nest EXCEPT ![t] = n]
        BY <1>a, <2>5 DEF Inv, TypeInv, TypeOK
      <3>2. nest[t].write > 0 => Writing(t)
        BY <1>b, <2>5 DEF OwnersHold
      <3>3. Owner(t)
        BY <1>b, <2>5, MaxWorkNat DEF OwnersHold, Nested, Nests, Inv, TypeInv, TypeOK
      <3>4. l.recursion_depth = nest[t].write
        BY <3>3, FieldsTell DEF Owner, Inv, LockInv
      <3>5. l.read_count \in 0..(CountMod - 1) /\ l.read_count # 0
        BY <1>a, <2>5, <3>3, FieldsTell, CountBound
        DEF Owner, Inv, LockInv, ReadCountExact, Locks
      <3>6. k = DecRead(l)
        BY <3>5 DEF k, Released
      <3>7. k.read_count = l.read_count - 1
        <4>1. /\ CountMod \in Nat /\ l.read_count \in Nat
              /\ 0 < l.read_count /\ l.read_count < CountMod
          BY <3>5, ModNat
        <4>2. Minus(l.read_count, CountMod) = l.read_count - 1
          BY <4>1, NoWrap
        <4>3. QED
          BY <1>a, <3>6, <4>2 DEF DecRead, Locks
      <3>8. /\ k.thread = l.thread /\ k.recursion_depth = l.recursion_depth
            /\ SameBits(k)
        BY <1>a, <3>6 DEF DecRead, Locks, SameBits
      <3>9. n.read = nest[t].read - 1 /\ n.write = nest[t].write
        BY DEF Nests, Inv, TypeInv, TypeOK
      <3>10. l'.read_count - n.read = l.read_count - nest[t].read
        <4>1. nest[t].read \in Nat /\ l.read_count \in Nat
          BY <3>5, MaxWorkNat, ModNat DEF Nests, Inv, TypeInv, TypeOK
        <4>2. QED
          BY <2>3, <3>7, <3>9, <4>1
      <3> HIDE DEF n
      <3>11. /\ l'.thread = l.thread /\ SameBits(l') /\ l'.recursion_depth = n.write
             /\ n.write > 0 => Writing(t)
        BY <2>3, <3>2, <3>4, <3>8, <3>9 DEF SameBits
      <3>12. UNCHANGED <<pc, mode>>
        BY <2>1, <2>5
      <3>13. QED
        BY <1>a, <3>1, <3>3, <3>10, <3>11, <3>12, OwnerNests
    <2>6. CASE /\ nest[t].write > 0 /\ UNCHANGED mode
               /\ nest' = [nest EXCEPT ![t].write = @ - 1]
      <3> DEFINE n == [nest[t] EXCEPT !.write = @ - 1]
      <3>1. n \in Nests /\ nest' = [nest EXCEPT ![t] = n]
        BY <1>a, <2>6 DEF Inv, TypeInv, TypeOK
      <3>2. Writing(t)
        BY <1>b, <2>6 DEF OwnersHold
      <3>3. nest[t] \in Nests /\ Nested(t) <= MaxNest
        BY DEF Inv, TypeInv, TypeOK, NestBound
      <3>4. nest[t].read = 0 /\ nest[t].write = 1 /\ Owner(t)
        BY <1>b, <2>6, <3>3, MaxWorkNat DEF OwnersHold, Nested, Nests
      <3>5. l.read_count = 0 /\ l.recursion_depth = 1
        <4>1. Cardinality(CountedReaders) = 0
          BY <3>2, FieldsTell, FS_EmptySet
        <4>2. QED
          BY <3>4, <4>1, FieldsTell DEF Owner, Inv, LockInv, ReadCountExact
      <3>6. k = DecDepth(l)
        BY <3>5 DEF k, Released, DropWrite
      <3>7. k.recursion_depth = 0
        <4>1. Minus(1, DepthMod) = 0
          BY DEF Minus, DepthMod
        <4>2. QED
          BY <1>a, <3>5, <3>6, <4>1 DEF DecDepth, Locks
      <3>8. k.thread = l.thread /\ k.read_count = l.read_count /\ SameBits(k)
        BY <1>a, <3>6 DEF DecDepth, Locks, SameBits
      <3>9. n.read = nest[t].read /\ n.write = 0
        BY <3>4 DEF Nests, Inv, TypeInv, TypeOK
      <3> HIDE DEF n
      <3>10. /\ l'.thread = l.thread /\ SameBits(l') /\ l'.recursion_depth = n.write
             /\ l'.read_count - n.read = l.read_count - nest[t].read
        BY <2>3, <3>7, <3>8, <3>9 DEF SameBits
      <3>11. UNCHANGED <<pc, mode>>
        BY <2>1, <2>6
      <3>12. QED
        BY <1>a, <3>1, <3>2, <3>4, <3>10, <3>11, OwnerNests
    <2>7. QED
      BY <1>6, <2>4, <2>5, <2>6 DEF LockDone
  <1>7. CASE LockClearRecursive(t)
    <2>1. l' = [l EXCEPT !.thread = IF l.recursion_depth = 0 THEN NoThread ELSE @]
      BY <1>7 DEF LockClearRecursive
    <2>2. SameCounts(l') /\ SameBits(l')
      BY <1>a, <2>1 DEF SameCounts, SameBits, Locks
    <2>3. Owner(t) /\ Nested(t) = 0 /\ UNCHANGED <<pc, mode, nest>>
      BY <1>7 DEF LockClearRecursive
    <2>4. l.recursion_depth = 0
      BY <2>3, MaxWorkNat, LockAssumption
      DEF Owner, Nested, NestedWrites, Inv, LockInv, TypeInv, TypeOK, Nests
    <2>5. l'.thread = NoThread
      BY <1>a, <2>1, <2>4 DEF Locks
    <2>6. QED
      BY <1>a, <2>2, <2>3, <2>5, OwnerChanges
  <1>8. QED
    BY <1>1, <1>2, <1>3, <1>4, <1>5, <1>6, <1>7 DEF Continue

LEMMA CallKeeps ==
    ASSUME Inv, TypeInv', MaxNest <= 1, NEW t \in Threads, Call(t)
    PROVE  LockInv'
  <1>a. l \in Locks /\ l' \in Locks /\ nest[t] \in Nests /\ nest' \in [Threads -> Nests]
    BY DEF Inv, TypeInv, TypeOK
  <1>b. MutualExclusion /\ WaitersHold /\ OwnersHold /\ BitsHaveTakers
    BY DEF Inv, LockInv
  <1>c. /\ nest[t].read \in Nat /\ nest[t].write \in Nat
        /\ nest[t].read <= MaxNest /\ nest[t].write <= MaxNest
    BY <1>a, MaxWorkNat DEF Nests
  <1>d. l.read_count \in Nat /\ l.recursion_depth \in Nat
    BY <1>a, ModNat DEF Locks
  <1>e. Owner(t) => /\ NestedReads = nest[t].read
                    /\ l.recursion_depth = nest[t].write
    BY FieldsTell DEF Owner, Inv, LockInv
  <1>f. pc[t] = "run" => (mode[t] = "read" <=> t \in CountedReaders)
    BY DEF CountedReaders
  <1>1. CASE LockWriteCall(t) \/ LockReadCall(t)
    <2>1. SameCounts(l') /\ SameBits(l') /\ SameOwner(l')
      BY <1>1 DEF LockWriteCall, LockReadCall, SameCounts, SameBits, SameOwner
    <2>2. QED
      BY <1>a, <1>1, <2>1, Idling DEF LockWriteCall, LockReadCall, Idle
  <1>2. CASE LockWriteNested(t)
    <2> DEFINE n == [nest[t] EXCEPT !.write = @ + 1]
    <2>1. /\ Owner(t) /\ Writing(t) /\ Nested(t) < MaxNest
          /\ l' = IncDepth(l) /\ UNCHANGED <<pc, mode>>
      BY <1>2 DEF LockWriteNested, MayNest, Writing
    <2>2. nest' = [nest EXCEPT ![t] = n] /\ n \in Nests
      BY <1>2, <1>a DEF LockWriteNested, Inv, TypeInv, TypeOK
    <2>3. n.read = nest[t].read /\ n.write = nest[t].write + 1
      BY <1>a DEF Nests
    <2>4. Plus(l.recursion_depth, DepthMod) = n.write
      <3>1. l.recursion_depth + 1 < DepthMod /\ DepthMod \in Nat
        BY <1>c, <1>e, <2>1, LockAssumption, ModNat DEF Nested
      <3>2. QED
        BY <1>d, <1>e, <2>1, <2>3, <3>1, NoWrap
    <2>5. /\ l'.thread = l.thread /\ SameBits(l') /\ l'.recursion_depth = n.write
          /\ l'.read_count = l.read_count
      BY <1>a, <2>1, <2>4 DEF IncDepth, Locks, SameBits
    <2>6. l'.read_count - n.read = l.read_count - nest[t].read
      BY <2>3, <2>5
    <2> HIDE DEF n
    <2>7. QED
      BY <1>a, <2>1, <2>2, <2>5, <2>6, OwnerNests
  <1>3. CASE LockReadNested(t)
    <2> DEFINE n == [nest[t] EXCEPT !.read = @ + 1]
    <2>1. /\ Owner(t) /\ Nested(t) < MaxNest
          /\ l' = IncRead(l) /\ UNCHANGED <<pc, mode>>
      BY <1>3 DEF LockReadNested, MayNest
    <2>2. nest' = [nest EXCEPT ![t] = n] /\ n \in Nests
      BY <1>3, <1>a DEF LockReadNested, Inv, TypeInv, TypeOK
    <2>3. n.read = nest[t].read + 1 /\ n.write = nest[t].write
      BY <1>a DEF Nests
    <2>4. Plus(l.read_count, CountMod) = l.read_count + 1
      BY <1>c, <1>e, <2>1, MaxWorkNat, CountUp DEF Nested
    <2>5. /\ l'.thread = l.thread /\ SameBits(l') /\ l'.recursion_depth = n.write
          /\ l'.read_count = l.read_count + 1
      BY <1>a, <1>e, <2>1, <2>3, <2>4 DEF IncRead, Locks, SameBits
    <2>6. l'.read_count - n.read = l.read_count - nest[t].read
      BY <1>c, <1>d, <2>3, <2>5
    <2>7. n.write > 0 => Writing(t)
      BY <1>b, <2>3 DEF OwnersHold
    <2> HIDE DEF n
    <2>8. QED
      BY <1>a, <2>1, <2>2, <2>5, <2>6, <2>7, OwnerNests
  <1>4. CASE LockReadToWrite(t)
    <2>1. /\ ~Owner(t) /\ t \in CountedReaders /\ pc[t] = "run" /\ mode[t] = "read"
          /\ ~l.want_upgrade /\ UNCHANGED nest
          /\ l' = [DecRead(l) EXCEPT !.want_upgrade = TRUE]
      BY <1>4, <1>f DEF LockReadToWrite, HasWork
    <2>2. /\ l'.thread = l.thread /\ l'.read_count = l.read_count - 1
          /\ l'.recursion_depth = l.recursion_depth
          /\ l'.want_write = l.want_write /\ l'.want_upgrade
          /\ DecRead(l).read_count = l'.read_count
      BY <2>1, ReaderUncounted DEF Locks
    <2>3. CASE UpgradeBlocked(DecRead(l))
      <3>1. pc' = [pc EXCEPT ![t] = "upgrade"] /\ UNCHANGED <<mode, nest>>
        BY <1>4, <2>1, <2>3 DEF LockReadToWrite
      <3>2. QED
        BY <1>a, <2>1, <2>2, <3>1, UpgradePends
    <2>4. CASE ~UpgradeBlocked(DecRead(l))
      <3>1. Grant(t, "write") /\ l'.read_count = 0
        BY <1>4, <2>2, <2>4 DEF LockReadToWrite, UpgradeBlocked
      <3>2. QED
        BY <1>a, <2>1, <2>2, <3>1, UpgraderEnters DEF Grant
    <2>5. QED
      BY <2>3, <2>4
  <1>5. CASE LockReadToWriteFails(t)
    <2>1. /\ ~Owner(t) /\ t \in CountedReaders /\ UNCHANGED <<pc, nest>>
          /\ StoreAndWake(DecRead(l), DecRead(l).read_count = 0)
          /\ mode' = [mode EXCEPT ![t] = "none"]
      BY <1>5, <1>f DEF LockReadToWriteFails, HasWork
    <2>2. DecRead(l) \in Locks
      BY <1>a, FieldTypes
    <2>3. /\ l'.thread = l.thread /\ l'.read_count = l.read_count - 1
          /\ l'.recursion_depth = l.recursion_depth /\ SameBits(l')
      BY <2>1, <2>2, WakeFields, ReaderUncounted DEF SameBits
    <2>4. QED
      BY <1>a, <2>1, <2>3, ReaderLeaves
  <1>6. CASE LockReadToWriteNested(t)
    <2> DEFINE n == [nest[t] EXCEPT !.read = @ - 1, !.write = @ + 1]
    <2>1. /\ Owner(t) /\ Writing(t) /\ nest[t].read > 0
          /\ l' = IncDepth(DecRead(l)) /\ UNCHANGED <<pc, mode>>
      BY <1>6 DEF LockReadToWriteNested, Writing
    <2>2. nest' = [nest EXCEPT ![t] = n]
      BY <1>6, <1>a DEF LockReadToWriteNested, Inv, TypeInv, TypeOK
    <2>3. n \in Nests
      BY <1>a, <2>2 DEF Inv, TypeInv, TypeOK
    <2>4. nest[t].read = 1 /\ nest[t].write = 0
      BY <1>c, <2>1, MaxWorkNat DEF Inv, TypeInv, NestBound, Nested
    <2>5. n.read = 0 /\ n.write = 1
      BY <1>a, <2>4 DEF Nests
    <2>6. l.read_count > 0 /\ l.recursion_depth = 0
      BY <1>d, <1>e, <2>1, <2>4, CountBound DEF Inv, LockInv, ReadCountExact
    <2>7. Minus(l.read_count, CountMod) = l.read_count - 1 /\ Plus(0, DepthMod) = 1
      <3>1. l.read_count < CountMod /\ CountMod \in Nat
        BY <1>a, ModNat DEF Locks
      <3>2. Plus(0, DepthMod) = 1
        BY DEF Plus, DepthMod
      <3>3. QED
        BY <1>d, <2>6, <3>1, <3>2, NoWrap
    <2>8. /\ l'.thread = l.thread /\ SameBits(l') /\ l'.recursion_depth = n.write
          /\ l'.read_count = l.read_count - 1
      BY <1>a, <2>1, <2>5, <2>6, <2>7 DEF IncDepth, DecRead, Locks, SameBits
    <2>9. l'.read_count - n.read = l.read_count - nest[t].read
      BY <1>d, <2>4, <2>5, <2>8
    <2> HIDE DEF n
    <2>10. QED
      BY <1>a, <2>1, <2>2, <2>3, <2>8, <2>9, OwnerNests
  <1>7. CASE LockWriteToRead(t)
    <2> DEFINE i == IncRead(l)
               k == DropWrite(i)
    <2>1. /\ Writing(t) /\ UNCHANGED pc /\ StoreAndWake(k, TRUE)
      BY <1>7 DEF LockWriteToRead, Writing
    <2>2. i.read_count = l.read_count + 1
      <3>1. t \in Threads \ CountedReaders
        BY <2>1 DEF Writing, CountedReaders
      <3>2. QED
        BY <1>a, <3>1, CountUp DEF IncRead, Locks
    <2>3. /\ i \in Locks /\ k \in Locks
          /\ i.thread = l.thread /\ i.recursion_depth = l.recursion_depth /\ SameBits(i)
      BY <1>a, FieldTypes DEF IncRead, Locks, SameBits
    <2>4. /\ l'.thread = k.thread /\ l'.read_count = k.read_count
          /\ l'.recursion_depth = k.recursion_depth
          /\ l'.want_write = k.want_write /\ l'.want_upgrade = k.want_upgrade
      BY <2>1, <2>3, WakeFields
    <2>5. CASE /\ Nested(t) = 0 /\ UNCHANGED nest
               /\ mode' = [mode EXCEPT ![t] = "read"]
      <3>1. l.recursion_depth = 0
        BY <1>c, <1>e, <2>1, <2>5, FieldsTell DEF Nested
      <3>2. /\ k.thread = l.thread /\ k.read_count = l.read_count + 1
            /\ k.recursion_depth = 0 /\ ~k.want_upgrade
            /\ k.want_write = (l.want_upgrade /\ l.want_write)
        BY <2>2, <2>3, <3>1, WriterDropsItsBit
      <3> HIDE DEF k
      <3>3. QED
        BY <1>a, <2>1, <2>4, <2>5, <3>1, <3>2, WriterStops
    <2>6. CASE /\ nest[t].write > 0 /\ UNCHANGED mode
               /\ nest' = [nest EXCEPT ![t].write = @ - 1, ![t].read = @ + 1]
      <3> DEFINE n == [nest[t] EXCEPT !.write = @ - 1, !.read = @ + 1]
      <3>1. nest' = [nest EXCEPT ![t] = n]
        BY <2>6, <1>a DEF Inv, TypeInv, TypeOK
      <3>2. n \in Nests
        BY <1>a, <3>1 DEF Inv, TypeInv, TypeOK
      <3>3. nest[t].read = 0 /\ nest[t].write = 1 /\ Owner(t)
        BY <1>b, <1>c, <2>6, MaxWorkNat DEF OwnersHold, Inv, TypeInv, NestBound, Nested
      <3>4. n.read = 1 /\ n.write = 0
        BY <1>a, <3>3 DEF Nests
      <3>5. i.recursion_depth = 1 /\ Minus(1, DepthMod) = 0
        BY <1>e, <2>3, <3>3 DEF Minus, DepthMod
      <3>6. /\ k.thread = l.thread /\ SameBits(k) /\ k.recursion_depth = 0
            /\ k.read_count = l.read_count + 1
        <4>1. k = DecDepth(i)
          BY <3>5 DEF DropWrite
        <4> HIDE DEF i, k
        <4>2. QED
          BY <2>2, <2>3, <3>5, <4>1 DEF DecDepth, SameBits, Locks
      <3>7. /\ l'.thread = l.thread /\ SameBits(l') /\ l'.recursion_depth = n.write
            /\ l'.read_count - n.read = l.read_count - nest[t].read
        BY <1>d, <2>4, <3>3, <3>4, <3>6 DEF SameBits
      <3>8. UNCHANGED <<pc, mode>>
        BY <2>1, <2>6
      <3> HIDE DEF n
      <3>9. QED
        BY <1>a, <2>1, <3>1, <3>2, <3>3, <3>7, <3>8, OwnerNests
    <2>7. QED
      BY <1>7, <2>5, <2>6 DEF LockWriteToRead
  <1>8. CASE LockTryWrite(t)
    <2>1. /\ mode[t] = "none" /\ pc[t] = "run"
          /\ ~l.want_write /\ ~l.want_upgrade /\ l.read_count = 0
          /\ l' = [l EXCEPT !.want_write = TRUE] /\ Grant(t, "write") /\ UNCHANGED nest
      BY <1>8 DEF LockTryWrite, Idle
    <2>2. /\ SameCounts(l') /\ SameOwner(l') /\ l'.want_write /\ ~l'.want_upgrade
      BY <1>a, <2>1 DEF SameCounts, SameOwner, Locks
    <2>3. QED
      BY <1>a, <2>1, <2>2, WriterEnters DEF Grant
  <1>9. CASE LockTryRead(t)
    BY <1>9, <1>a, ReaderEnters DEF LockTryRead, Idle, Grant
  <1>10. CASE LockTryReadToWrite(t)
    <2> DEFINE k == [DecRead(l) EXCEPT !.want_upgrade = TRUE]
    <2>1. /\ ~Owner(t) /\ t \in CountedReaders /\ pc[t] = "run" /\ mode[t] = "read"
          /\ ~l.want_upgrade /\ UNCHANGED nest /\ TryUpgradeLoop(t, k)
      BY <1>10, <1>f DEF LockTryReadToWrite, HasWork
    <2>2. /\ k.thread = l.thread /\ k.read_count = l.read_count - 1
          /\ k.recursion_depth = l.recursion_depth
          /\ k.want_write = l.want_write /\ k.want_upgrade /\ k \in Locks
      BY <2>1, ReaderUncounted DEF Locks
    <2> HIDE DEF k
    <2>3. CASE UpgradeBlocked(k)
      <3>1. /\ l' = [k EXCEPT !.waiting = TRUE]
            /\ pc' = [pc EXCEPT ![t] = "try_upgrade"] /\ UNCHANGED <<mode, nest>>
        BY <2>1, <2>3 DEF TryUpgradeLoop
      <3>2. /\ l'.thread = l.thread /\ l'.read_count = l.read_count - 1
            /\ l'.recursion_depth = l.recursion_depth
            /\ l'.want_write = l.want_write /\ l'.want_upgrade
        BY <2>2, <3>1 DEF Locks
      <3>3. QED
        BY <1>a, <2>1, <3>1, <3>2, UpgradePends
    <2>4. CASE ~UpgradeBlocked(k)
      <3>1. Grant(t, "write") /\ l' = k /\ k.read_count = 0
        BY <2>1, <2>4 DEF TryUpgradeLoop, UpgradeBlocked
      <3>2. QED
        BY <1>a, <2>1, <2>2, <3>1, UpgraderEnters DEF Grant
    <2>5. QED
      BY <2>3, <2>4
  <1>11. CASE LockSetRecursive(t)
    <2>1. /\ Writing(t) /\ ~Owner(t) /\ UNCHANGED <<pc, mode, nest>>
      BY <1>11 DEF LockSetRecursive, Writing
    <2>2. CASE l.want_write
      <3>1. l' = [l EXCEPT !.thread = t]
        BY <1>11, <2>2 DEF LockSetRecursive
      <3>2. l'.thread = t /\ SameCounts(l') /\ SameBits(l')
        BY <1>a, <3>1 DEF SameCounts, SameBits, Locks
      <3>3. QED
        BY <1>a, <2>1, <3>2, OwnerChanges
    <2>3. CASE ~l.want_write
      <3>1. UNCHANGED l
        BY <1>11, <2>3 DEF LockSetRecursive
      <3>2. SameCounts(l') /\ SameBits(l') /\ SameOwner(l')
        BY <3>1 DEF SameCounts, SameBits, SameOwner
      <3>3. QED
        BY <1>a, <2>1, <3>2, Idling
    <2>4. QED
      BY <2>2, <2>3
  <1>12. QED
    BY <1>1, <1>2, <1>3, <1>4, <1>5, <1>6, <1>7, <1>8, <1>9, <1>10, <1>11 DEF Call

LEMMA NextInv == ASSUME MaxNest <= 1 PROVE Inv /\ [Next]_vars => Inv'
  <1> SUFFICES ASSUME Inv, [Next]_vars PROVE Inv'
    OBVIOUS
  <1>1. TypeInv'
    BY NextTypeInv DEF Inv
  <1>2. l' \in Locks
    BY <1>1 DEF TypeInv, TypeOK
  <1>3. CASE \E t \in Threads : Continue(t) \/ Call(t)
    BY <1>1, <1>3, ContinueKeeps, CallKeeps DEF Inv
  <1>4. CASE \E can_sleep \in BOOLEAN : LockSleepable(can_sleep)
    <2>1. /\ SameCounts(l') /\ SameBits(l') /\ SameOwner(l')
          /\ UNCHANGED <<pc, mode, nest>>
      BY <1>4 DEF LockSleepable, SameCounts, SameBits, SameOwner, Inv, TypeInv, TypeOK, Locks
    <2>2. QED
      BY <1>1, <1>2, <2>1, Idling DEF Inv
  <1>5. CASE UNCHANGED vars
    <2>1. /\ SameCounts(l') /\ SameBits(l') /\ SameOwner(l')
          /\ UNCHANGED <<pc, mode, nest>>
      BY <1>5 DEF vars, SameCounts, SameBits, SameOwner
    <2>2. QED
      BY <1>1, <1>2, <2>1, Idling DEF Inv
  <1>6. QED
    BY <1>3, <1>4, <1>5 DEF Next

\* A write hold excludes every other hold, for any number of threads: no race
\* between writers, upgrades, downgrades and recursive holds lets two in.
THEOREM Exclusion == ASSUME MaxNest <= 1 PROVE Spec => []MutualExclusion
  <1>1. Init => Inv
    BY InitTypeInv, InitLockInv DEF Inv
  <1>2. Inv /\ [Next]_vars => Inv'
    BY NextInv
  <1>3. Inv => MutualExclusion
    BY DEF Inv, LockInv
  <1>4. QED
    BY <1>1, <1>2, <1>3, PTL DEF Spec

\* read_count counts the read holds whatever lock_done takes the hold it ends
\* for, and never wraps.
THEOREM ExactCount == ASSUME MaxNest <= 1 PROVE Spec => []ReadCountExact
  <1>1. Init => Inv
    BY InitTypeInv, InitLockInv DEF Inv
  <1>2. Inv /\ [Next]_vars => Inv'
    BY NextInv
  <1>3. Inv => ReadCountExact
    BY DEF Inv, LockInv
  <1>4. QED
    BY <1>1, <1>2, <1>3, PTL DEF Spec

-----------------------------------------------------------------------------
(* The lock implements the abstract readers/writer lock.  That nobody      *)
(* excluded is there when a hold is granted is mutual exclusion after the  *)
(* step; what remains is which way an outermost hold may turn.             *)

Turns(t) ==
    \/ mode[t] = "none" /\ mode' = [mode EXCEPT ![t] = "read"]
    \/ mode[t] \in {"none", "read"} /\ mode' = [mode EXCEPT ![t] = "write"]
    \/ mode[t] = "write" /\ mode' = [mode EXCEPT ![t] = "read"]
    \/ mode[t] # "none" /\ mode' = [mode EXCEPT ![t] = "none"]

LEMMA HoldsTurn ==
    ASSUME Inv, [Next]_vars
    PROVE  UNCHANGED mode \/ \E t \in Threads : Turns(t)
  <1>1. ASSUME NEW t \in Threads, Continue(t)
        PROVE  UNCHANGED mode \/ Turns(t)
    <2>1. /\ pc[t] \in {"lock_write", "lock_write_readers", "lock_read"} => mode[t] = "none"
          /\ pc[t] \in {"upgrade", "try_upgrade"} => mode[t] = "read"
      BY DEF Inv, LockInv, WaitersHold, Upgrading
    <2>2. CASE LockWriteWant(t) \/ LockWriteReaders(t) \/ LockReadWait(t)
      BY <2>1, <2>2 DEF LockWriteWant, LockWriteReaders, LockReadWait, Sleep, Grant, Turns
    <2>3. CASE UpgradeWait(t) \/ TryUpgradeWait(t)
      BY <2>1, <2>3 DEF UpgradeWait, TryUpgradeWait, TryUpgradeLoop, Sleep, Grant, Turns
    <2>4. CASE LockDone(t) \/ LockClearRecursive(t)
      BY <2>4 DEF LockDone, LockClearRecursive, Turns
    <2>5. QED
      BY <1>1, <2>2, <2>3, <2>4 DEF Continue
  <1>2. ASSUME NEW t \in Threads, Call(t)
        PROVE  UNCHANGED mode \/ Turns(t)
    <2>1. CASE LockWriteCall(t) \/ LockWriteNested(t) \/ LockReadCall(t) \/ LockReadNested(t)
      BY <2>1 DEF LockWriteCall, LockWriteNested, LockReadCall, LockReadNested
    <2>2. CASE LockReadToWrite(t) \/ LockReadToWriteFails(t) \/ LockReadToWriteNested(t)
      BY <2>2 DEF LockReadToWrite, LockReadToWriteFails, LockReadToWriteNested, Grant, Turns
    <2>3. CASE LockWriteToRead(t) \/ LockSetRecursive(t)
      BY <2>3 DEF LockWriteToRead, LockSetRecursive, Turns
    <2>4. CASE LockTryWrite(t) \/ LockTryRead(t) \/ LockTryReadToWrite(t)
      BY <2>4 DEF LockTryWrite, LockTryRead, LockTryReadToWrite, TryUpgradeLoop, Idle, Grant, Turns
    <2>5. QED
      BY <1>2, <2>1, <2>2, <2>3, <2>4 DEF Call
  <1>3. CASE (\E can_sleep \in BOOLEAN : LockSleepable(can_sleep)) \/ UNCHANGED vars
    BY <1>3 DEF LockSleepable, vars
  <1>4. QED
    BY <1>1, <1>2, <1>3 DEF Next

LEMMA StepImplements ==
    ASSUME Inv, Inv', [Next]_vars
    PROVE  [RW!Next]_mode
  <1>1. CASE UNCHANGED mode
    BY <1>1
  <1>2. ASSUME NEW t \in Threads, Turns(t)
        PROVE  RW!Next
    <2>1. mode \in [Threads -> Modes] /\ MutualExclusion'
      BY DEF Inv, LockInv, TypeInv, TypeOK
    <2>2. mode[t] = "none" /\ mode' = [mode EXCEPT ![t] = "read"] => RW!AcquireRead(t)
      BY <2>1 DEF MutualExclusion, RW!AcquireRead, RW!Others
    <2>3. mode[t] \in {"none", "read"} /\ mode' = [mode EXCEPT ![t] = "write"]
            => RW!AcquireWrite(t)
      BY <2>1 DEF MutualExclusion, RW!AcquireWrite, RW!Others
    <2>4. QED
      BY <1>2, <2>2, <2>3 DEF Turns, RW!Next, RW!Downgrade, RW!Release
  <1>3. QED
    BY <1>1, <1>2, HoldsTurn

\* Every step of lock.c is a step of the abstract lock, or none that the holders
\* can tell: an upgrade is atomic, a failed one gives the read hold up, a
\* downgrade lets no writer in between.
THEOREM LockImplements == ASSUME MaxNest <= 1 PROVE Spec => Implements
  <1>1. Init => Inv
    BY InitTypeInv, InitLockInv DEF Inv
  <1>2. Inv /\ [Next]_vars => Inv'
    BY NextInv
  <1>3. Init => RW!Init
    BY DEF Init, RW!Init
  <1>4. Inv /\ Inv' /\ [Next]_vars => [RW!Next]_mode
    BY StepImplements
  <1>5. QED
    BY <1>1, <1>2, <1>3, <1>4, PTL DEF Spec, Implements, RW!Spec

-----------------------------------------------------------------------------
(* No wakeup of the complex lock is lost, for any finite set of threads    *)
(* and at most one recursive hold outstanding.                             *)

\* A sleeper is inside a wait loop; together with NoLostWakeup this is
\* inductive, given what the lock's fields say of the threads.
SleepersWait == \A t \in asleep : pc[t] # "run"

WakeInv == NoLostWakeup /\ SleepersWait

LEMMA InitWakeInv == Init => WakeInv
  BY DEF Init, WakeInv, NoLostWakeup, SleepersWait

\* Nobody is left asleep.
LEMMA AllAwake == ASSUME asleep' = {} PROVE WakeInv'
  BY DEF WakeInv, NoLostWakeup, SleepersWait

\* The step of an awake thread that takes nothing away from what the sleepers
\* wait for.  read_count may drop to zero unannounced when an upgrade begins or
\* the owner trades a recursive hold: then no upgrader sleeps, and a pending
\* writer is held up by want_upgrade.
Keeps ==
    /\ l.want_write => l'.want_write
    /\ l.want_upgrade => l'.want_upgrade
    /\ \/ l.read_count # 0 => l'.read_count # 0
       \/ \A u \in asleep : ~Upgrading(u) /\ (Pending(u) => l'.want_upgrade)

LEMMA StayAsleep ==
    ASSUME WakeInv, TypeOK, NEW t \in Threads, t \notin asleep, asleep' = asleep,
           l.waiting => l'.waiting, Keeps,
           UNCHANGED pc \/ \E c \in Calls : pc' = [pc EXCEPT ![t] = c]
    PROVE  WakeInv'
  <1> SUFFICES ASSUME NEW u \in asleep
               PROVE  pc'[u] # "run" /\ l'.waiting /\ Blocked(u)'
    BY DEF WakeInv, NoLostWakeup, SleepersWait
  <1>1. u \in Threads /\ u # t /\ pc'[u] = pc[u] /\ pc[u] \in Calls
    BY DEF TypeOK
  <1>2. pc[u] # "run" /\ l.waiting /\ Blocked(u)
    BY DEF WakeInv, NoLostWakeup, SleepersWait
  <1>3. CASE pc[u] = "lock_write"
    BY <1>1, <1>2, <1>3 DEF Blocked, WriterBlocked, Keeps
  <1>4. CASE pc[u] = "lock_write_readers"
    BY <1>1, <1>2, <1>4 DEF Blocked, ReadersBlock, Pending, Keeps
  <1>5. CASE pc[u] = "lock_read"
    BY <1>1, <1>2, <1>5 DEF Blocked, ReaderBlocked, Keeps
  <1>6. CASE pc[u] \in {"upgrade", "try_upgrade"}
    BY <1>1, <1>2, <1>6 DEF Blocked, UpgradeBlocked, Upgrading, Keeps
  <1>7. QED
    BY <1>1, <1>2, <1>3, <1>4, <1>5, <1>6 DEF Calls

\* A thread goes to sleep on what blocks it.
LEMMA FallsAsleep ==
    ASSUME WakeInv, TypeOK, NEW t \in Threads, Sleep(t), pc[t] # "run", Blocked(t)
    PROVE  WakeInv'
  <1>1. /\ asleep' = asleep \cup {t} /\ pc' = pc /\ l'.waiting
        /\ l'.want_write = l.want_write /\ l'.want_upgrade = l.want_upgrade
        /\ l'.read_count = l.read_count
    BY DEF Sleep, TypeOK, Locks
  <1>2. \A u \in asleep' : Blocked(u)
    BY <1>1 DEF WakeInv, NoLostWakeup
  <1>3. \A u \in asleep' : Blocked(u)'
    BY <1>1, <1>2 DEF Blocked, WriterBlocked, ReadersBlock, ReaderBlocked, UpgradeBlocked
  <1>4. QED
    BY <1>1, <1>3 DEF WakeInv, NoLostWakeup, SleepersWait

\* A release that skips the wakeup leaves readers behind.
LEMMA ReleaseWakes ==
    ASSUME WakeInv, TypeOK, NEW t \in Threads, t \notin asleep, NEW k \in Locks,
           StoreAndWake(k, k.read_count = 0), k.waiting = l.waiting,
           k.read_count # 0 =>
               k.want_write = l.want_write /\ k.want_upgrade = l.want_upgrade,
           UNCHANGED pc
    PROVE  WakeInv'
  <1>1. CASE k.waiting /\ k.read_count = 0
    BY <1>1, AllAwake DEF StoreAndWake
  <1>2. CASE ~k.waiting
    <2>1. asleep = {}
      BY <1>2 DEF WakeInv, NoLostWakeup
    <2>2. QED
      BY <1>2, <2>1, AllAwake DEF StoreAndWake
  <1>3. CASE k.waiting /\ k.read_count # 0
    <2>1. l' = k /\ asleep' = asleep
      BY <1>3 DEF StoreAndWake
    <2>2. QED
      BY <1>3, <2>1, StayAsleep DEF Keeps
  <1>4. QED
    BY <1>1, <1>2, <1>3

LEMMA ContinueWakes ==
    ASSUME Inv, WakeInv, NEW t \in Threads, Continue(t)
    PROVE  WakeInv'
  <1>a. TypeOK /\ l \in Locks
    BY DEF Inv, TypeInv, TypeOK
  <1>b. pc[t] = "run" => t \notin asleep
    BY DEF WakeInv, SleepersWait
  <1>c. "run" \in Calls /\ "lock_write_readers" \in Calls /\ "try_upgrade" \in Calls
    BY DEF Calls
  <1>1. CASE LockWriteWant(t)
    <2>1. CASE WriterBlocked /\ Sleep(t)
      BY <1>1, <1>a, <2>1, FallsAsleep DEF LockWriteWant, Blocked
    <2>2. CASE ~(WriterBlocked /\ Sleep(t))
      <3>1. /\ t \notin asleep /\ asleep' = asleep /\ l' = [l EXCEPT !.want_write = TRUE]
            /\ \E c \in Calls : pc' = [pc EXCEPT ![t] = c]
        BY <1>1, <1>c, <2>2 DEF LockWriteWant, Grant
      <3>2. l.waiting = l'.waiting /\ Keeps
        BY <1>a, <3>1 DEF Keeps, Locks
      <3>3. QED
        BY <1>a, <3>1, <3>2, StayAsleep
    <2>3. QED
      BY <2>1, <2>2
  <1>2. CASE LockWriteReaders(t)
    <2>1. CASE ReadersBlock(l) /\ Sleep(t)
      BY <1>2, <1>a, <2>1, FallsAsleep DEF LockWriteReaders, Blocked
    <2>2. CASE ~(ReadersBlock(l) /\ Sleep(t))
      BY <1>2, <1>a, <1>c, <2>2, StayAsleep DEF LockWriteReaders, Grant, Keeps
    <2>3. QED
      BY <2>1, <2>2
  <1>3. CASE LockReadWait(t)
    <2>1. CASE ReaderBlocked /\ Sleep(t)
      BY <1>3, <1>a, <2>1, FallsAsleep DEF LockReadWait, Blocked
    <2>2. CASE ~(ReaderBlocked /\ Sleep(t))
      <3>1. /\ t \notin asleep /\ asleep' = asleep /\ l' = IncRead(l)
            /\ pc' = [pc EXCEPT ![t] = "run"]
            /\ pc[t] = "lock_read"
        BY <1>3, <2>2 DEF LockReadWait, Grant
      <3>2. Threads \ CountedReaders # {}
        BY <3>1 DEF CountedReaders
      <3>3. l'.waiting = l.waiting /\ Keeps
        BY <1>a, <3>1, <3>2, CountUp, ModNat DEF IncRead, Keeps, Locks
      <3>4. QED
        BY <1>a, <1>c, <3>1, <3>3, StayAsleep
    <2>3. QED
      BY <2>1, <2>2
  <1>4. CASE UpgradeWait(t)
    <2>1. CASE UpgradeBlocked(l) /\ Sleep(t)
      BY <1>4, <1>a, <2>1, FallsAsleep DEF UpgradeWait, Blocked
    <2>2. CASE ~(UpgradeBlocked(l) /\ Sleep(t))
      BY <1>4, <1>a, <1>c, <2>2, StayAsleep DEF UpgradeWait, Grant, Keeps
    <2>3. QED
      BY <2>1, <2>2
  <1>5. CASE TryUpgradeWait(t)
    <2>1. pc[t] = "try_upgrade" /\ t \notin asleep /\ TryUpgradeLoop(t, l)
      BY <1>5 DEF TryUpgradeWait
    <2>2. CASE UpgradeBlocked(l)
      <3>1. /\ l' = [l EXCEPT !.waiting = TRUE] /\ asleep' = asleep \cup {t} /\ pc' = pc
        BY <1>a, <2>1, <2>2 DEF TryUpgradeLoop, TypeOK
      <3>2. /\ l'.waiting
            /\ l'.want_write = l.want_write /\ l'.want_upgrade = l.want_upgrade
            /\ l'.read_count = l.read_count
        BY <1>a, <3>1 DEF Locks
      <3>3. \A u \in asleep' : Blocked(u)
        BY <2>1, <2>2, <3>1 DEF WakeInv, NoLostWakeup, Blocked
      <3>4. \A u \in asleep' : Blocked(u)'
        BY <3>1, <3>2, <3>3 DEF Blocked, WriterBlocked, ReadersBlock, ReaderBlocked, UpgradeBlocked
      <3>5. QED
        BY <2>1, <3>1, <3>2, <3>4 DEF WakeInv, NoLostWakeup, SleepersWait
    <2>3. CASE ~UpgradeBlocked(l)
      BY <1>a, <1>c, <2>1, <2>3, StayAsleep DEF TryUpgradeLoop, Grant, Keeps
    <2>4. QED
      BY <2>2, <2>3
  <1>6. CASE LockDone(t)
    <2> DEFINE k == Released(l)
    <2>1. k \in Locks /\ t \notin asleep /\ UNCHANGED pc /\ StoreAndWake(k, k.read_count = 0)
      BY <1>6, <1>a, <1>b, FieldTypes DEF LockDone
    <2>2. k.waiting = l.waiting
      BY <1>a DEF Released, DecRead, DropWrite, DecDepth, Locks
    <2>3. k.read_count # 0 => k.want_write = l.want_write /\ k.want_upgrade = l.want_upgrade
      <3>1. CASE l.read_count # 0
        BY <1>a, <3>1 DEF Released, DecRead, Locks
      <3>2. CASE l.read_count = 0
        BY <1>a, <3>2 DEF Released, DropWrite, DecDepth, Locks
      <3>3. QED
        BY <3>1, <3>2
    <2> HIDE DEF k
    <2>4. QED
      BY <1>a, <2>1, <2>2, <2>3, ReleaseWakes
  <1>7. CASE LockClearRecursive(t)
    <2>1. l'.waiting = l.waiting /\ Keeps
      BY <1>7, <1>a DEF LockClearRecursive, Keeps, Locks
    <2>2. QED
      BY <1>7, <1>a, <1>b, <2>1, StayAsleep DEF LockClearRecursive
  <1>8. QED
    BY <1>1, <1>2, <1>3, <1>4, <1>5, <1>6, <1>7 DEF Continue

LEMMA CallWakes ==
    ASSUME Inv, MaxNest <= 1, WakeInv, NEW t \in Threads, Call(t)
    PROVE  WakeInv'
  <1>a. TypeOK /\ l \in Locks /\ l.read_count \in Nat
    BY ModNat DEF Inv, TypeInv, TypeOK, Locks
  <1>b. pc[t] = "run" => t \notin asleep
    BY DEF WakeInv, SleepersWait
  <1>c. \A c \in {"run", "lock_write", "lock_read", "upgrade", "try_upgrade"} : c \in Calls
    BY DEF Calls
  <1>d. ~l.want_upgrade => \A u \in asleep : ~Upgrading(u)
    BY <1>a DEF Inv, LockInv, BitsHaveTakers, TypeOK
  <1>1. CASE LockWriteCall(t) \/ LockReadCall(t)
    BY <1>1, <1>a, <1>b, <1>c, StayAsleep DEF LockWriteCall, LockReadCall, Idle, Keeps
  <1>2. CASE LockWriteNested(t)
    <2>1. l'.waiting = l.waiting /\ Keeps
      BY <1>2, <1>a DEF LockWriteNested, IncDepth, Keeps, Locks
    <2>2. QED
      BY <1>2, <1>a, <1>b, <2>1, StayAsleep DEF LockWriteNested, MayNest, HasWork
  <1>3. CASE LockReadNested(t)
    <2>1. Plus(l.read_count, CountMod) = l.read_count + 1
      <3>1. NestedReads < MaxNest
        <4>1. nest[t] \in Nests /\ Nested(t) < MaxNest /\ Owner(t)
          BY <1>3, <1>a DEF LockReadNested, MayNest, TypeOK
        <4>2. NestedReads = nest[t].read
          BY <4>1, FieldsTell DEF Owner
        <4>3. QED
          BY <4>1, <4>2, MaxWorkNat DEF Nested, Nests
      <3>2. QED
        BY <3>1, CountUp
    <2>2. l'.waiting = l.waiting /\ Keeps
      BY <1>3, <1>a, <2>1 DEF LockReadNested, IncRead, Keeps, Locks
    <2>3. QED
      BY <1>3, <1>a, <1>b, <2>2, StayAsleep DEF LockReadNested, MayNest, HasWork
  <1>4. CASE LockReadToWrite(t)
    <2>1. l'.waiting = l.waiting /\ Keeps
      BY <1>4, <1>a, <1>d DEF LockReadToWrite, DecRead, Keeps, Locks
    <2>2. UNCHANGED pc \/ \E c \in Calls : pc' = [pc EXCEPT ![t] = c]
      BY <1>4, <1>c DEF LockReadToWrite, Grant
    <2>3. QED
      BY <1>4, <1>a, <1>b, <2>1, <2>2, StayAsleep DEF LockReadToWrite, HasWork
  <1>5. CASE LockReadToWriteFails(t)
    <2>1. DecRead(l) \in Locks
      BY <1>a, FieldTypes
    <2>2. /\ DecRead(l).waiting = l.waiting /\ DecRead(l).want_write = l.want_write
          /\ DecRead(l).want_upgrade = l.want_upgrade
      BY <1>a DEF DecRead, Locks
    <2>3. QED
      BY <1>5, <1>a, <1>b, <2>1, <2>2, ReleaseWakes DEF LockReadToWriteFails, HasWork
  <1>6. CASE LockReadToWriteNested(t)
    <2>1. /\ l' = IncDepth(DecRead(l)) /\ Writing(t) /\ t \notin asleep
          /\ asleep' = asleep /\ UNCHANGED pc
      BY <1>6, <1>b DEF LockReadToWriteNested, HasWork, Writing
    <2>2. /\ l'.waiting = l.waiting /\ l'.want_write = l.want_write
          /\ l'.want_upgrade = l.want_upgrade
      BY <1>a, <2>1 DEF IncDepth, DecRead, Locks
    <2>3. \A u \in asleep : u # t /\ u \in Threads
      BY <1>a, <2>1 DEF TypeOK
    <2>4. \A u \in asleep : ~Upgrading(u)
      BY <2>1, <2>3 DEF Inv, LockInv, MutualExclusion, WaitersHold, Writing
    <2>5. \A u \in asleep : Pending(u) => l.want_upgrade
      BY <2>1, <2>3 DEF Inv, LockInv, BitsHaveTakers
    <2>6. Keeps
      BY <2>2, <2>4, <2>5 DEF Keeps
    <2>7. QED
      BY <1>a, <2>1, <2>2, <2>6, StayAsleep
  <1>7. CASE LockWriteToRead(t)
    <2> DEFINE k == DropWrite(IncRead(l))
    <2>1. k \in Locks /\ k.waiting = l.waiting /\ StoreAndWake(k, TRUE)
      BY <1>7, <1>a, FieldTypes DEF LockWriteToRead, DropWrite, IncRead, DecDepth, Locks
    <2> HIDE DEF k
    <2>2. asleep' = {}
      BY <2>1 DEF StoreAndWake, WakeInv, NoLostWakeup
    <2>3. QED
      BY <2>2, AllAwake
  <1>8. CASE LockTryWrite(t)
    <2>1. l'.waiting = l.waiting /\ Keeps
      BY <1>8, <1>a DEF LockTryWrite, Keeps, Locks
    <2>2. QED
      BY <1>8, <1>a, <1>b, <1>c, <2>1, StayAsleep DEF LockTryWrite, Idle, Grant
  <1>9. CASE LockTryRead(t)
    <2>1. Threads \ CountedReaders # {}
      BY <1>9 DEF LockTryRead, Idle, CountedReaders
    <2>2. l'.waiting = l.waiting /\ Keeps
      BY <1>9, <1>a, <2>1, CountUp DEF LockTryRead, IncRead, Keeps, Locks
    <2>3. QED
      BY <1>9, <1>a, <1>b, <1>c, <2>2, StayAsleep DEF LockTryRead, Idle, Grant
  <1>10. CASE LockTryReadToWrite(t)
    <2> DEFINE k == [DecRead(l) EXCEPT !.want_upgrade = TRUE]
    <2>1. /\ t \notin asleep /\ TryUpgradeLoop(t, k) /\ \A u \in asleep : ~Upgrading(u)
      BY <1>10, <1>b, <1>d DEF LockTryReadToWrite, HasWork
    <2>2. /\ k.waiting = l.waiting /\ k.want_write = l.want_write /\ k.want_upgrade
          /\ k \in Locks
      <3>1. DecRead(l) \in Locks
        BY <1>a, FieldTypes
      <3>2. QED
        BY <1>a, <3>1 DEF DecRead, Locks
    <2> HIDE DEF k
    <2>3. CASE UpgradeBlocked(k)
      <3>1. /\ l' = [k EXCEPT !.waiting = TRUE] /\ asleep' = asleep \cup {t}
            /\ pc' = [pc EXCEPT ![t] = "try_upgrade"]
        BY <2>1, <2>3 DEF TryUpgradeLoop
      <3>2. /\ l'.waiting /\ l'.want_write = l.want_write /\ l'.want_upgrade
            /\ l'.read_count = k.read_count
        BY <2>2, <3>1 DEF Locks
      <3>3. pc'[t] = "try_upgrade" /\ Blocked(t)'
        BY <1>a, <2>3, <3>1, <3>2 DEF TypeOK, Blocked, UpgradeBlocked
      <3>4. ASSUME NEW u \in asleep PROVE pc'[u] # "run" /\ Blocked(u)'
        <4>1. pc'[u] = pc[u] /\ pc[u] \in Calls /\ pc[u] # "run" /\ Blocked(u) /\ ~Upgrading(u)
          BY <1>a, <2>1, <3>1 DEF TypeOK, WakeInv, NoLostWakeup, SleepersWait
        <4>2. QED
          BY <3>2, <4>1
          DEF Blocked, WriterBlocked, ReadersBlock, ReaderBlocked, Upgrading, Calls
      <3>5. QED
        BY <3>1, <3>2, <3>3, <3>4 DEF WakeInv, NoLostWakeup, SleepersWait
    <2>4. CASE ~UpgradeBlocked(k)
      <3>1. l' = k /\ asleep' = asleep /\ \E c \in Calls : pc' = [pc EXCEPT ![t] = c]
        BY <1>c, <2>1, <2>4 DEF TryUpgradeLoop, Grant
      <3>2. Keeps
        BY <2>1, <2>2, <3>1 DEF Keeps
      <3>3. QED
        BY <1>a, <2>1, <2>2, <3>1, <3>2, StayAsleep
    <2>5. QED
      BY <2>3, <2>4
  <1>11. CASE LockSetRecursive(t)
    <2>1. l'.waiting = l.waiting /\ Keeps
      BY <1>11, <1>a DEF LockSetRecursive, Keeps, Locks
    <2>2. QED
      BY <1>11, <1>a, <1>b, <2>1, StayAsleep DEF LockSetRecursive, HasWork
  <1>12. QED
    BY <1>1, <1>2, <1>3, <1>4, <1>5, <1>6, <1>7, <1>8, <1>9, <1>10, <1>11 DEF Call

\* No wakeup is lost: while a thread sleeps in lock.c, what it waits for is
\* missing and the waiting bit is set, although a release that leaves readers
\* behind wakes nobody and one waiting bit stands for all sleepers.
THEOREM WakeupsArrive == ASSUME MaxNest <= 1 PROVE Spec => []NoLostWakeup
  <1>1. Init => Inv /\ WakeInv
    BY InitTypeInv, InitLockInv, InitWakeInv DEF Inv
  <1>2. Inv /\ WakeInv /\ [Next]_vars => Inv' /\ WakeInv'
    <2> SUFFICES ASSUME Inv, WakeInv, [Next]_vars PROVE Inv' /\ WakeInv'
      OBVIOUS
    <2>1. Inv'
      BY NextInv
    <2>2. CASE \E t \in Threads : Continue(t) \/ Call(t)
      BY <2>1, <2>2, ContinueWakes, CallWakes
    <2>3. CASE (\E can_sleep \in BOOLEAN : LockSleepable(can_sleep)) \/ UNCHANGED vars
      <3>1. l \in Locks
        BY DEF Inv, TypeInv, TypeOK
      <3>2. /\ l'.waiting = l.waiting /\ l'.want_write = l.want_write
            /\ l'.want_upgrade = l.want_upgrade /\ l'.read_count = l.read_count
            /\ UNCHANGED <<asleep, pc>>
        BY <2>3, <3>1 DEF LockSleepable, vars, Locks
      <3>3. QED
        BY <2>1, <3>2
        DEF WakeInv, NoLostWakeup, SleepersWait, Blocked, WriterBlocked, ReadersBlock,
            ReaderBlocked, UpgradeBlocked
    <2>4. QED
      BY <2>2, <2>3 DEF Next
  <1>3. WakeInv => NoLostWakeup
    BY DEF WakeInv
  <1>4. QED
    BY <1>1, <1>2, <1>3, PTL DEF Spec

=============================================================================
