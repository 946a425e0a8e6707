-------------------------- MODULE ThreadWaitProofs --------------------------
(***************************************************************************)
(* Proofs about ThreadWait for any threads, events and processors.         *)
(*                                                                         *)
(* The invariant (ThreadInv, in ThreadWait) goes from the calls to the     *)
(* bits.  Who aborts a thread holds it, and a hold is counted, so a thread *)
(* that thread_abort works on has TH_SUSP; at most one thread asks another *)
(* to halt until it is halted, so what it found stopped is nobody else's   *)
(* to force, and who asks a halted thread again has nothing to force; a    *)
(* stopped and held thread, whose wait is interruptible, is put on no run  *)
(* queue by any wakeup; and TH_HALTED is only there with TH_SUSP and       *)
(* without a wait, which are the states that thread_dispatch knows.  What  *)
(* is about stopped threads holds until a thread that nobody holds halts   *)
(* itself, for a request that has been dropped or was left behind          *)
(* (unheld_halt): the code lets that happen, as run thread_left shows.     *)
(*                                                                         *)
(* First what each operator does to the structure of a thread, then what   *)
(* that structure, its place and its code promise each other, then one     *)
(* lemma for each action.                                                  *)
(***************************************************************************)
EXTENDS ThreadWait, FiniteSetTheorems, TLAPS

-----------------------------------------------------------------------------
(* What the operators on a thread structure do                             *)

\* The fields of k and n other than those that a wakeup changes.
SameHolds(k, n) ==
    /\ n.suspend_count = k.suspend_count /\ n.user_stop_count = k.user_stop_count
    /\ n.wake_active = k.wake_active /\ n.ast_halt = k.ast_halt

\* n has the bits of k, but for those in bits.
SameBits(k, n, bits) == \A b \in Bits \ bits : b \in n.state <=> b \in k.state

LEMMA BitNames == Bits = {"WAIT", "SUSP", "RUN", "UNINT", "HALTED"}
  BY DEF Bits

LEMMA HoldsType == MaxHolds \in Nat /\ MaxHolds = Cardinality(Threads) + 1
  BY ThreadAssumption, FS_CardinalityType DEF MaxHolds

LEMMA Fields ==
    ASSUME NEW k \in ThreadStates
    PROVE  /\ k.state \in SUBSET Bits /\ k.wait_event \in AllEvents /\ k.wait_result \in Results
           /\ k.timer \in BOOLEAN /\ k.suspend_count \in 0..MaxHolds
           /\ k.user_stop_count \in 0..MaxStops
           /\ k.wake_active \in BOOLEAN /\ k.ast_halt \in BOOLEAN
  BY DEF ThreadStates

LEMMA WokenIs ==
    ASSUME NEW k \in ThreadStates, NEW r \in Results
    PROVE  LET n == Woken(k, r)
           IN /\ n \in ThreadStates /\ SameHolds(k, n) /\ SameBits(k, n, {"WAIT", "RUN"})
              /\ "WAIT" \notin n.state
              /\ "RUN" \in n.state <=> "RUN" \in k.state \/ Sleeping(k)
              /\ n.wait_event = IF "WAIT" \in k.state THEN NoEvent ELSE k.wait_event
              /\ ~n.timer
  <1> DEFINE n == Woken(k, r)
             s == (k.state \ {"WAIT"}) \cup (IF Sleeping(k) THEN {"RUN"} ELSE {})
  <1>1. CASE "WAIT" \notin k.state
    <2>1. n = [k EXCEPT !.timer = FALSE]
      BY <1>1 DEF Woken
    <2> HIDE DEF n
    <2>2. n \in ThreadStates
      BY <2>1 DEF ThreadStates
    <2>3. n.state = k.state /\ n.wait_event = k.wait_event /\ ~n.timer
          /\ n.suspend_count = k.suspend_count /\ n.user_stop_count = k.user_stop_count
          /\ n.wake_active = k.wake_active /\ n.ast_halt = k.ast_halt
      BY <2>1 DEF ThreadStates
    <2> QED BY <1>1, <2>2, <2>3 DEF SameHolds, SameBits, Sleeping, n
  <1>2. CASE "WAIT" \in k.state
    <2>1. n = [k EXCEPT !.state = s, !.wait_event = NoEvent, !.wait_result = r, !.timer = FALSE]
      BY <1>2 DEF Woken
    <2>2. s \in SUBSET Bits /\ "WAIT" \notin s /\ ("RUN" \in s <=> "RUN" \in k.state \/ Sleeping(k))
          /\ \A b \in Bits \ {"WAIT", "RUN"} : b \in s <=> b \in k.state
      BY Fields DEF Bits
    <2>3. NoEvent \in AllEvents
      BY DEF AllEvents
    <2> HIDE DEF n, s
    <2>4. n \in ThreadStates
      BY <2>1, <2>2, <2>3 DEF ThreadStates
    <2>5. n.state = s /\ n.wait_event = NoEvent /\ ~n.timer
          /\ n.suspend_count = k.suspend_count /\ n.user_stop_count = k.user_stop_count
          /\ n.wake_active = k.wake_active /\ n.ast_halt = k.ast_halt
      BY <2>1 DEF ThreadStates
    <2> QED BY <1>2, <2>2, <2>4, <2>5 DEF SameHolds, SameBits, n
  <1> QED BY <1>1, <1>2

LEMMA HeldIs ==
    ASSUME NEW k \in ThreadStates, k.suspend_count < MaxHolds
    PROVE  LET n == Held(k)
           IN /\ n \in ThreadStates /\ SameBits(k, n, {"SUSP"}) /\ "SUSP" \in n.state
              /\ n.suspend_count = k.suspend_count + 1 /\ n.user_stop_count = k.user_stop_count
              /\ n.wait_event = k.wait_event /\ n.timer = k.timer
              /\ n.wake_active = k.wake_active /\ n.ast_halt = k.ast_halt
  <1> DEFINE n == Held(k)
             s == k.state \cup {"SUSP"}
             c == k.suspend_count + 1
  <1>1. n = [k EXCEPT !.suspend_count = c, !.state = s]
    BY DEF Held
  <1>2. s \in SUBSET Bits /\ "SUSP" \in s
        /\ \A b \in Bits \ {"SUSP"} : b \in s <=> b \in k.state
    BY Fields DEF Bits
  <1>3. c \in 0..MaxHolds
    BY Fields, HoldsType
  <1> HIDE DEF n, s
  <1>4. n \in ThreadStates
    BY <1>1, <1>2, <1>3 DEF ThreadStates
  <1>5. n.state = s /\ n.suspend_count = c /\ n.user_stop_count = k.user_stop_count
        /\ n.wait_event = k.wait_event /\ n.timer = k.timer
        /\ n.wake_active = k.wake_active /\ n.ast_halt = k.ast_halt
    BY <1>1 DEF ThreadStates
  <1> QED BY <1>2, <1>4, <1>5 DEF SameBits, n

LEMMA ReleasedIs ==
    ASSUME NEW k \in ThreadStates, k.suspend_count > 0
    PROVE  LET n == Released(k)
           IN /\ n \in ThreadStates
              /\ n.suspend_count = k.suspend_count - 1 /\ n.user_stop_count = k.user_stop_count
              /\ k.suspend_count # 1 => n.state = k.state
              /\ k.suspend_count = 1 => /\ SameBits(k, n, {"SUSP", "HALTED", "RUN"})
                                        /\ "SUSP" \notin n.state /\ "HALTED" \notin n.state
                                        /\ "RUN" \in n.state <=> "RUN" \in k.state \/ OnlySuspended(k)
              /\ n.wait_event = k.wait_event /\ n.timer = k.timer
              /\ n.wake_active = k.wake_active /\ n.ast_halt = k.ast_halt
  <1> DEFINE n == Released(k)
             s == IF k.suspend_count # 1 THEN k.state
                  ELSE (k.state \ {"SUSP", "HALTED"}) \cup (IF OnlySuspended(k) THEN {"RUN"} ELSE {})
             c == k.suspend_count - 1
  <1>1. n = [k EXCEPT !.suspend_count = c, !.state = s]
    BY DEF Released
  <1>2. s \in SUBSET Bits
    BY Fields DEF Bits
  <1>3. c \in 0..MaxHolds
    BY Fields, HoldsType
  <1>4. /\ k.suspend_count # 1 => s = k.state
        /\ k.suspend_count = 1 => /\ "SUSP" \notin s /\ "HALTED" \notin s
                                  /\ "RUN" \in s <=> "RUN" \in k.state \/ OnlySuspended(k)
                                  /\ \A b \in Bits \ {"SUSP", "HALTED", "RUN"} :
                                        b \in s <=> b \in k.state
    BY DEF Bits
  <1> HIDE DEF n, s
  <1>5. n \in ThreadStates
    BY <1>1, <1>2, <1>3 DEF ThreadStates
  <1>6. n.state = s /\ n.suspend_count = c /\ n.user_stop_count = k.user_stop_count
        /\ n.wait_event = k.wait_event /\ n.timer = k.timer
        /\ n.wake_active = k.wake_active /\ n.ast_halt = k.ast_halt
    BY <1>1 DEF ThreadStates
  <1> QED BY <1>4, <1>5, <1>6 DEF SameBits, n

LEMMA AssertWaitIs ==
    ASSUME NEW k \in ThreadStates, NEW e \in AllEvents, NEW i \in BOOLEAN
    PROVE  LET n == AssertWait(k, e, i)
           IN /\ n \in ThreadStates /\ SameHolds(k, n) /\ SameBits(k, n, {"WAIT", "UNINT"})
              /\ "WAIT" \in n.state /\ n.wait_event = e /\ n.timer = k.timer
  <1> DEFINE n == AssertWait(k, e, i)
             s == k.state \cup (IF i THEN {"WAIT"} ELSE {"WAIT", "UNINT"})
  <1>1. n = [k EXCEPT !.wait_event = e, !.state = s]
    BY DEF AssertWait
  <1>2. s \in SUBSET Bits /\ "WAIT" \in s
        /\ \A b \in Bits \ {"WAIT", "UNINT"} : b \in s <=> b \in k.state
    BY Fields DEF Bits
  <1> HIDE DEF n, s
  <1>3. n \in ThreadStates
    BY <1>1, <1>2 DEF ThreadStates
  <1>4. n.state = s /\ n.wait_event = e /\ n.timer = k.timer
        /\ n.suspend_count = k.suspend_count /\ n.user_stop_count = k.user_stop_count
        /\ n.wake_active = k.wake_active /\ n.ast_halt = k.ast_halt
    BY <1>1 DEF ThreadStates
  <1> QED BY <1>2, <1>3, <1>4 DEF SameHolds, SameBits, n

-----------------------------------------------------------------------------
(* What one thread's structure, place and position promise, after a change *)

Places == {"cpu", "runq", "switch", "off"}

LEMMA WokenAgrees ==
    ASSUME NEW k \in ThreadStates, NEW r \in Results, NEW a, WaitAgrees(k)
    PROVE  LET n == Woken(k, r)
               b == IF Sleeping(k) THEN "runq" ELSE a
           IN /\ WaitAgrees(n)
              /\ \A p : ThreadAgrees(k, a, p) => ThreadAgrees(n, b, p)
              /\ \A p, e : TargetStays(k, a, p, e) /\ "SUSP" \in k.state => TargetStays(n, b, p, e)
  <1> DEFINE n == Woken(k, r)
             b == IF Sleeping(k) THEN "runq" ELSE a
  <1>1. /\ n \in ThreadStates /\ SameHolds(k, n) /\ SameBits(k, n, {"WAIT", "RUN"})
        /\ "WAIT" \notin n.state
        /\ "RUN" \in n.state <=> "RUN" \in k.state \/ Sleeping(k)
        /\ n.wait_event = IF "WAIT" \in k.state THEN NoEvent ELSE k.wait_event
        /\ ~n.timer
    BY WokenIs
  <1>2. /\ "SUSP" \in n.state <=> "SUSP" \in k.state
        /\ "UNINT" \in n.state <=> "UNINT" \in k.state
        /\ "HALTED" \in n.state <=> "HALTED" \in k.state
        /\ n.suspend_count = k.suspend_count
    BY <1>1 DEF SameBits, SameHolds, Bits
  <1> HIDE DEF n
  <1>3. WaitAgrees(n)
    BY <1>1 DEF WaitAgrees
  <1>4. ASSUME NEW p, ThreadAgrees(k, a, p)
        PROVE  ThreadAgrees(n, b, p)
    BY <1>1, <1>2, <1>4 DEF ThreadAgrees, Sleeping
  <1>5. ASSUME NEW p, NEW e, TargetStays(k, a, p, e), "SUSP" \in k.state
        PROVE  TargetStays(n, b, p, e)
    BY <1>1, <1>2, <1>5 DEF TargetStays, Sleeping
  <1> QED BY <1>3, <1>4, <1>5 DEF n

\* A thread on a processor that neither blocks nor halts has only RUN and SUSP.
LEMMA OnCpu ==
    ASSUME NEW k, NEW p, ThreadAgrees(k, "cpu", p), p \notin BlockPCs, p # "halted"
    PROVE  /\ "RUN" \in k.state /\ "WAIT" \notin k.state /\ "UNINT" \notin k.state
           /\ "HALTED" \notin k.state
           /\ \A l : ThreadAgrees(k, "cpu", l)
  BY DEF ThreadAgrees

-----------------------------------------------------------------------------
(* What a step leaves alone                                                *)

\* Only the threads in ts go on with their code.
OnlyMove(ts) ==
    \A v \in Threads \ ts : /\ pc'[v] = pc[v] /\ call'[v] = call[v]
                            /\ target'[v] = target[v] /\ evt'[v] = evt[v]

LEMMA CallsStay ==
    ASSUME CallsAgree, NEW ts, OnlyMove(ts), \A t \in ts : CallAgrees(t, pc'[t], call'[t], target'[t])
    PROVE  CallsAgree'
  BY DEF CallsAgree, CallAgrees, OnlyMove

LEMMA HoldsStay ==
    ASSUME HoldsCounted, call' = call, target' = target,
           \A u \in Threads : /\ th'[u].suspend_count = th[u].suspend_count
                              /\ th'[u].user_stop_count = th[u].user_stop_count
    PROVE  HoldsCounted'
  <1>1. \A u \in Threads : HoldingCalls(u)' = HoldingCalls(u)
    BY DEF HoldingCalls
  <1> QED BY <1>1 DEF HoldsCounted

LEMMA RequestsStay ==
    ASSUME OneRequest, NEW ts, OnlyMove(ts),
           \A t \in ts : /\ Asks(pc'[t], call'[t]) <=> Asks(pc[t], call[t])
                         /\ Asks(pc[t], call[t]) => target'[t] = target[t],
           \A u \in Threads : /\ th'[u].ast_halt = th[u].ast_halt
                              /\ "HALTED" \in th'[u].state <=> "HALTED" \in th[u].state
    PROVE  OneRequest'
  <1>1. \A t, u \in Threads : Requests(t, u)' <=> Requests(t, u)
    BY DEF Requests, Asks, OnlyMove
  <1> QED BY <1>1 DEF OneRequest

LEMMA TargetsStay ==
    ASSUME NEW ts, OnlyMove(ts),
           \A t \in ts : HasStopped(pc'[t], call'[t]) => TargetStays(th'[target'[t]], at'[target'[t]], pc'[t], evt'[t]),
           \A t \in Threads \ ts :
              HasStopped(pc[t], call[t]) => TargetStays(th'[target[t]], at'[target[t]], pc[t], evt[t])
    PROVE  TargetsStopped'
  <1> SUFFICES ASSUME NEW t \in Threads, HasStopped(pc'[t], call'[t])
               PROVE  TargetStays(th'[target'[t]], at'[target'[t]], pc'[t], evt'[t])
    BY DEF TargetsStopped
  <1>1. CASE t \notin ts
    <2>1. pc'[t] = pc[t] /\ call'[t] = call[t] /\ target'[t] = target[t] /\ evt'[t] = evt[t]
      BY <1>1 DEF OnlyMove
    <2> QED BY <1>1, <2>1 DEF HasStopped
  <1> QED BY <1>1

\* Whoever has stopped a thread for thread_halt holds it.
LEMMA StoppedIsHeld ==
    ASSUME ThreadInv, NEW t \in Threads, call[t] = "abort"
    PROVE  /\ target[t] \in Threads /\ target[t] # t
           /\ t \in HoldingCalls(target[t])
           /\ th[target[t]].suspend_count \in Nat /\ th[target[t]].suspend_count > 0
           /\ ~unheld_halt => "SUSP" \in th[target[t]].state
           /\ HasStopped(pc[t], call[t]) /\ ~unheld_halt =>
                 /\ TargetStays(th[target[t]], at[target[t]], pc[t], evt[t])
                 /\ at[target[t]] = "off"
  <1> DEFINE u == target[t]
             h == HoldingCalls(u)
  <1>1. u \in Threads /\ u # t
    BY DEF ThreadInv, CallsAgree, CallAgrees
  <1>2. t \in h /\ h \subseteq Threads
    BY DEF HoldingCalls
  <1>3. IsFiniteSet(h) /\ Cardinality(h) \in Nat /\ Cardinality(h) # 0
    BY <1>2, FS_Subset, FS_CardinalityType, FS_EmptySet, ThreadAssumption
  <1>4. th[u].suspend_count \in Nat /\ th[u].suspend_count > 0
    <2> HIDE DEF u, h
    <2>1. th[u].suspend_count = Cardinality(h) + (IF th[u].user_stop_count > 0 THEN 1 ELSE 0)
      BY <1>1 DEF ThreadInv, HoldsCounted, h
    <2> QED BY <1>3, <2>1
  <1>5. ~unheld_halt => "SUSP" \in th[u].state
    BY <1>1, <1>4 DEF ThreadInv, ThreadAgrees
  <1>6. HasStopped(pc[t], call[t]) /\ ~unheld_halt => TargetStays(th[u], at[u], pc[t], evt[t]) /\ at[u] = "off"
    BY DEF ThreadInv, TargetsStopped, TargetStays
  <1> QED BY <1>1, <1>2, <1>4, <1>5, <1>6

-----------------------------------------------------------------------------
(* Wakeups                                                                 *)

LEMMA Woke ==
    ASSUME ThreadInv, NEW ts, NEW r \in Results, NEW f, f = WakeAll(ts, r), SetRun(ts)
    PROVE  /\ f \in [Threads -> ThreadStates] /\ at' \in [Threads -> Places]
           /\ \A x \in Threads :
                 /\ SameHolds(th[x], f[x]) /\ SameBits(th[x], f[x], {"WAIT", "RUN"})
                 /\ WaitAgrees(f[x])
                 /\ \A p : ThreadAgrees(th[x], at[x], p) => ThreadAgrees(f[x], at'[x], p)
                 /\ \A p, e : TargetStays(th[x], at[x], p, e) /\ "SUSP" \in th[x].state
                                 => TargetStays(f[x], at'[x], p, e)
                 /\ "RUN" \in th[x].state => at'[x] = at[x]
  <1>1. th \in [Threads -> ThreadStates] /\ at \in [Threads -> Places]
    BY DEF ThreadInv, TypeOK, Places
  <1>2. /\ f = [t \in Threads |-> IF t \in ts THEN Woken(th[t], r) ELSE th[t]]
        /\ at' = [t \in Threads |-> IF t \in ts /\ Sleeping(th[t]) THEN "runq" ELSE at[t]]
    BY DEF WakeAll, SetRun
  <1>3. ASSUME NEW x \in Threads
        PROVE  /\ f[x] \in ThreadStates /\ at'[x] \in Places
               /\ SameHolds(th[x], f[x]) /\ SameBits(th[x], f[x], {"WAIT", "RUN"})
               /\ WaitAgrees(f[x])
               /\ \A p : ThreadAgrees(th[x], at[x], p) => ThreadAgrees(f[x], at'[x], p)
               /\ \A p, e : TargetStays(th[x], at[x], p, e) /\ "SUSP" \in th[x].state
                               => TargetStays(f[x], at'[x], p, e)
               /\ "RUN" \in th[x].state => at'[x] = at[x]
    <2>1. th[x] \in ThreadStates /\ at[x] \in Places /\ WaitAgrees(th[x])
      BY <1>1 DEF ThreadInv
    <2>2. CASE x \in ts
      <3> DEFINE n == Woken(th[x], r)
                 b == IF Sleeping(th[x]) THEN "runq" ELSE at[x]
      <3>1. f[x] = n /\ at'[x] = b
        BY <1>2, <2>2
      <3>2. /\ n \in ThreadStates /\ SameHolds(th[x], n) /\ SameBits(th[x], n, {"WAIT", "RUN"})
        BY <2>1, WokenIs
      <3>3. /\ WaitAgrees(n)
            /\ \A p : ThreadAgrees(th[x], at[x], p) => ThreadAgrees(n, b, p)
            /\ \A p, e : TargetStays(th[x], at[x], p, e) /\ "SUSP" \in th[x].state
                            => TargetStays(n, b, p, e)
        BY <2>1, WokenAgrees
      <3>4. b \in Places /\ ("RUN" \in th[x].state => b = at[x])
        BY <2>1 DEF Places, Sleeping
      <3> QED BY <3>1, <3>2, <3>3, <3>4
    <2>3. CASE x \notin ts
      <3>1. f[x] = th[x] /\ at'[x] = at[x]
        BY <1>2, <2>3
      <3> QED BY <2>1, <3>1 DEF SameHolds, SameBits
    <2> QED BY <2>2, <2>3
  <1>4. f \in [Threads -> ThreadStates] /\ at' \in [Threads -> Places]
    BY <1>2, <1>3
  <1> QED BY <1>3, <1>4

LEMMA SameIs ==
    ASSUME NEW k, NEW n, SameHolds(k, n), SameBits(k, n, {"WAIT", "RUN"})
    PROVE  /\ n.suspend_count = k.suspend_count /\ n.user_stop_count = k.user_stop_count
           /\ n.wake_active = k.wake_active /\ n.ast_halt = k.ast_halt
           /\ "HALTED" \in n.state <=> "HALTED" \in k.state
           /\ "SUSP" \in n.state <=> "SUSP" \in k.state
           /\ "UNINT" \in n.state <=> "UNINT" \in k.state
  BY DEF SameHolds, SameBits, Bits

\* The threads in ts go on within their calls, and no hold or request changes.
LEMMA Goes ==
    ASSUME ThreadInv, TypeOK', NEW ts \in SUBSET Threads, OnlyMove(ts),
           UNCHANGED <<call, target, unheld_halt>>,
           \A t \in ts : /\ CallAgrees(t, pc'[t], call'[t], target'[t])
                         /\ Asks(pc'[t], call[t]) <=> Asks(pc[t], call[t]),
           \A x \in Threads :
              /\ th'[x].suspend_count = th[x].suspend_count
              /\ th'[x].user_stop_count = th[x].user_stop_count
              /\ th'[x].ast_halt = th[x].ast_halt
              /\ "HALTED" \in th'[x].state <=> "HALTED" \in th[x].state
              /\ WaitAgrees(th'[x]),
           ~unheld_halt => ~panicked' /\ \A x \in Threads :
              /\ ThreadAgrees(th'[x], at'[x], pc'[x])
              /\ \A p, e : TargetStays(th[x], at[x], p, e) /\ "SUSP" \in th[x].state
                              => TargetStays(th'[x], at'[x], p, e),
           ~unheld_halt => \A t \in ts :
              HasStopped(pc'[t], call'[t]) => TargetStays(th'[target'[t]], at'[target'[t]], pc'[t], evt'[t])
    PROVE  ThreadInv'
  <1>1. CallsAgree'
    <2>1. \A t \in ts : CallAgrees(t, pc'[t], call'[t], target'[t])
      OBVIOUS
    <2>2. CallsAgree /\ OnlyMove(ts)
      BY DEF ThreadInv
    <2> QED BY <2>1, <2>2, CallsStay
  <1>2. HoldsCounted'
    BY HoldsStay DEF ThreadInv
  <1>3. OneRequest'
    BY RequestsStay DEF ThreadInv
  <1>4. ~unheld_halt => TargetsStopped'
    <2> SUFFICES ASSUME ~unheld_halt PROVE TargetsStopped'
      OBVIOUS
    <2>1. \A t \in Threads : HasStopped(pc[t], call[t]) => TargetStays(th'[target[t]], at'[target[t]], pc[t], evt[t])
      BY StoppedIsHeld DEF HasStopped
    <2> QED BY <2>1, TargetsStay
  <1> QED BY <1>1, <1>2, <1>3, <1>4 DEF ThreadInv

\* A wakeup changes no hold and no request, and breaks no promise.
LEMMA WokeKeeps ==
    ASSUME ThreadInv, NEW ts, NEW r \in Results, th' = WakeAll(ts, r), SetRun(ts)
    PROVE  \A x \in Threads :
           /\ th'[x].suspend_count = th[x].suspend_count
           /\ th'[x].user_stop_count = th[x].user_stop_count
           /\ th'[x].ast_halt = th[x].ast_halt
           /\ "HALTED" \in th'[x].state <=> "HALTED" \in th[x].state
           /\ WaitAgrees(th'[x])
           /\ \A p : ThreadAgrees(th[x], at[x], p) => ThreadAgrees(th'[x], at'[x], p)
           /\ \A p, e : TargetStays(th[x], at[x], p, e) /\ "SUSP" \in th[x].state
                           => TargetStays(th'[x], at'[x], p, e)
  <1> TAKE x \in Threads
  <1>1. /\ SameHolds(th[x], th'[x]) /\ SameBits(th[x], th'[x], {"WAIT", "RUN"})
        /\ WaitAgrees(th'[x])
        /\ \A p : ThreadAgrees(th[x], at[x], p) => ThreadAgrees(th'[x], at'[x], p)
        /\ \A p, e : TargetStays(th[x], at[x], p, e) /\ "SUSP" \in th[x].state
                        => TargetStays(th'[x], at'[x], p, e)
    BY Woke
  <1> QED BY <1>1, SameIs

LEMMA WokeOnly ==
    ASSUME ThreadInv, NEW ts, NEW r \in Results, th' = WakeAll(ts, r), SetRun(ts), TypeOK',
           UNCHANGED <<pc, call, target, evt, unheld_halt>>, ~panicked => ~panicked'
    PROVE  ThreadInv'
  <1>1. \A x \in Threads :
           /\ th'[x].suspend_count = th[x].suspend_count
           /\ th'[x].user_stop_count = th[x].user_stop_count
           /\ th'[x].ast_halt = th[x].ast_halt
           /\ "HALTED" \in th'[x].state <=> "HALTED" \in th[x].state
           /\ WaitAgrees(th'[x])
           /\ \A p : ThreadAgrees(th[x], at[x], p) => ThreadAgrees(th'[x], at'[x], p)
           /\ \A p, e : TargetStays(th[x], at[x], p, e) /\ "SUSP" \in th[x].state
                           => TargetStays(th'[x], at'[x], p, e)
    BY WokeKeeps
  <1>2. OnlyMove({})
    BY DEF OnlyMove
  <1>3. ~unheld_halt => ~panicked' /\ \A x \in Threads : ThreadAgrees(th[x], at[x], pc[x])
    BY DEF ThreadInv
  <1> QED BY <1>1, <1>2, <1>3, Goes

\* Who is listed for an event waits: thread_wakeup_prim does not panic.
LEMMA ListedWait ==
    ASSUME ThreadInv, NEW e, e # NoEvent, NEW ts \in SUBSET Waiting(e), WakeupPanics(ts)
    PROVE  panicked' \in BOOLEAN /\ ~panicked'
  <1>1. ASSUME NEW t \in ts
        PROVE  "WAIT" \in th[t].state
    <2>1. t \in Threads /\ th[t].wait_event = e
      BY DEF Waiting
    <2> QED BY <2>1 DEF ThreadInv, WaitAgrees
  <1> QED BY <1>1 DEF WakeupPanics

LEMMA EventNames ==
    /\ \A e \in Events : e # NoEvent
    /\ \A u \in Threads : u # NoEvent
  BY ThreadAssumption

\* The types of what a wakeup leaves alone.
LEMMA WokeType ==
    ASSUME ThreadInv, NEW ts, NEW r \in Results, th' = WakeAll(ts, r), SetRun(ts)
    PROVE  th' \in [Threads -> ThreadStates] /\ at' \in [Threads -> {"cpu", "runq", "switch", "off"}]
  BY Woke DEF Places

LEMMA ResultNames == "AWAKENED" \in Results /\ "TIMED_OUT" \in Results /\ "INTERRUPTED" \in Results
  BY DEF Results

LEMMA WakeupStep ==
    ASSUME ThreadInv, NEW e \in Events, Wakeup(e)
    PROVE  ThreadInv'
  <1>1. PICK ts \in {Waiting(e)} \cup {{t} : t \in Waiting(e)} :
           th' = WakeAll(ts, "AWAKENED") /\ SetRun(ts) /\ WakeupPanics(ts)
    BY DEF Wakeup
  <1>2. th' \in [Threads -> ThreadStates] /\ at' \in [Threads -> {"cpu", "runq", "switch", "off"}]
    BY <1>1, WokeType, ResultNames
  <1>3. panicked' \in BOOLEAN /\ ~panicked'
    BY <1>1, ListedWait, EventNames
  <1>4. TypeOK'
    BY <1>2, <1>3 DEF Wakeup, ThreadInv, TypeOK
  <1> QED BY <1>1, <1>3, <1>4, WokeOnly, ResultNames DEF Wakeup

LEMMA ThreadGoStep ==
    ASSUME ThreadInv, NEW t \in Threads, ThreadGo(t)
    PROVE  ThreadInv'
  <1>1. th' = WakeAll({t}, "AWAKENED") /\ SetRun({t})
    BY DEF ThreadGo
  <1>2. th' \in [Threads -> ThreadStates] /\ at' \in [Threads -> {"cpu", "runq", "switch", "off"}]
    BY <1>1, WokeType, ResultNames
  <1>3. TypeOK'
    BY <1>2 DEF ThreadGo, ThreadInv, TypeOK
  <1> QED BY <1>1, <1>3, WokeOnly, ResultNames DEF ThreadGo

LEMMA AnnounceStopStep ==
    ASSUME ThreadInv, NEW u \in Threads, AnnounceStop(u)
    PROVE  ThreadInv'
  <1>1. th' = WakeAll(Waiting(u), "AWAKENED") /\ SetRun(Waiting(u)) /\ WakeupPanics(Waiting(u))
    BY DEF AnnounceStop
  <1>2. th' \in [Threads -> ThreadStates] /\ at' \in [Threads -> {"cpu", "runq", "switch", "off"}]
    BY <1>1, WokeType, ResultNames
  <1>3. panicked' \in BOOLEAN /\ ~panicked'
    BY <1>1, ListedWait, EventNames
  <1>4. TypeOK'
    BY <1>2, <1>3 DEF AnnounceStop, ThreadInv, TypeOK
  <1> QED BY <1>1, <1>3, <1>4, WokeOnly, ResultNames DEF AnnounceStop

LEMMA NothingMoves ==
    ASSUME ThreadInv, TypeOK',
           UNCHANGED <<th, at, pc, call, target, evt, unheld_halt, panicked>>
    PROVE  ThreadInv'
  <1>1. OnlyMove({})
    BY DEF OnlyMove
  <1> QED BY <1>1, Goes DEF ThreadInv

LEMMA EventType ==
    ASSUME ThreadInv, NEW u \in Threads
    PROVE  th[u].wait_event \in AllEvents
  BY Fields DEF ThreadInv, TypeOK

LEMMA ClockTypes ==
    /\ SoftclockIdle \in [step: {"idle", "timeout", "clear", "failed"},
                          thread: Threads \cup {NoThread}, event: AllEvents]
    /\ NoEvent \in AllEvents
  BY DEF SoftclockIdle, AllEvents

LEMMA ThreadTimeoutStep ==
    ASSUME ThreadInv, ThreadTimeout
    PROVE  ThreadInv'
  <1> DEFINE t == softclock.thread
             e == th[t].wait_event
  <1>1. t \in Threads /\ e \in AllEvents
    BY EventType DEF ThreadTimeout, ThreadInv, TypeOK
  <1>2. CASE ~TimerAsserted(t)
    <2>1. softclock' = [softclock EXCEPT !.step = "failed"] /\ UNCHANGED <<th, at>>
      BY <1>2 DEF ThreadTimeout
    <2>2. softclock' \in [step: {"idle", "timeout", "clear", "failed"},
                          thread: Threads \cup {NoThread}, event: AllEvents]
          /\ softclock'.thread = t
      BY <2>1 DEF ThreadInv, TypeOK
    <2>3. TypeOK'
      BY <1>1, <2>1, <2>2 DEF ThreadTimeout, ThreadInv, TypeOK
    <2> QED BY <2>1, <2>3, NothingMoves DEF ThreadTimeout
  <1>3. CASE TimerAsserted(t) /\ e = NoEvent
    <2>1. PICK ts : th' = WakeAll(ts, "TIMED_OUT") /\ SetRun(ts)
      BY <1>3 DEF ThreadTimeout, ClearWaitEvent
    <2>2. th' \in [Threads -> ThreadStates] /\ at' \in [Threads -> {"cpu", "runq", "switch", "off"}]
      BY <2>1, WokeType, ResultNames
    <2>3. softclock' = SoftclockIdle
      BY <1>3 DEF ThreadTimeout
    <2>4. TypeOK'
      BY <2>2, <2>3, ClockTypes DEF ThreadTimeout, SoftclockIdle, ThreadInv, TypeOK
    <2> QED BY <2>1, <2>4, WokeOnly, ResultNames DEF ThreadTimeout
  <1>4. CASE TimerAsserted(t) /\ e # NoEvent
    <2>1. softclock' = [softclock EXCEPT !.step = "clear", !.event = e] /\ UNCHANGED <<th, at>>
      BY <1>4 DEF ThreadTimeout
    <2>2. softclock' \in [step: {"idle", "timeout", "clear", "failed"},
                          thread: Threads \cup {NoThread}, event: AllEvents]
          /\ softclock'.thread = t
      BY <1>1, <2>1 DEF ThreadInv, TypeOK
    <2>3. TypeOK'
      BY <1>1, <2>1, <2>2 DEF ThreadTimeout, ThreadInv, TypeOK
    <2> QED BY <2>1, <2>3, NothingMoves DEF ThreadTimeout
  <1> QED BY <1>2, <1>3, <1>4

LEMMA ThreadTimeoutClearStep ==
    ASSUME ThreadInv, ThreadTimeoutClear
    PROVE  ThreadInv'
  <1>1. PICK ts : th' = WakeAll(ts, "TIMED_OUT") /\ SetRun(ts)
    BY DEF ThreadTimeoutClear, ClearWaitEvent
  <1>2. th' \in [Threads -> ThreadStates] /\ at' \in [Threads -> {"cpu", "runq", "switch", "off"}]
    BY <1>1, WokeType, ResultNames
  <1>3. TypeOK'
    BY <1>2, ClockTypes DEF ThreadTimeoutClear, SoftclockIdle, ThreadInv, TypeOK
  <1> QED BY <1>1, <1>3, WokeOnly, ResultNames DEF ThreadTimeoutClear

-----------------------------------------------------------------------------
(* Steps that change one thread and no hold                                *)

LEMMA Typed ==
    ASSUME ThreadInv, NEW t \in Threads
    PROVE  /\ th[t] \in ThreadStates /\ th[t].state \in SUBSET Bits
           /\ at[t] \in Places /\ pc[t] \in PCs
           /\ WaitAgrees(th[t]) /\ CallAgrees(t, pc[t], call[t], target[t])
           /\ ~unheld_halt => ThreadAgrees(th[t], at[t], pc[t]) /\ ~panicked
  BY Fields DEF ThreadInv, TypeOK, Places, CallsAgree

\* u changes: it has now structure n, and is at b.
Changes(u, n, b) == th' = [th EXCEPT ![u] = n] /\ at' = [at EXCEPT ![u] = b]

LEMMA OneChanges ==
    ASSUME ThreadInv, TypeOK', NEW ts \in SUBSET Threads, OnlyMove(ts),
           UNCHANGED <<call, target, unheld_halt>>,
           \A t \in ts : /\ CallAgrees(t, pc'[t], call'[t], target'[t])
                         /\ Asks(pc'[t], call[t]) <=> Asks(pc[t], call[t]),
           NEW u \in Threads, NEW n, NEW b,
           Changes(u, n, b),
           n.suspend_count = th[u].suspend_count, n.user_stop_count = th[u].user_stop_count,
           n.ast_halt = th[u].ast_halt,
           "HALTED" \in n.state <=> "HALTED" \in th[u].state,
           WaitAgrees(n),
           ~unheld_halt => /\ ~panicked' /\ ThreadAgrees(n, b, pc'[u])
                           /\ \A t \in ts \ {u} : ThreadAgrees(th[t], at[t], pc'[t])
                           /\ \A p, e : TargetStays(th[u], at[u], p, e) /\ "SUSP" \in th[u].state
                                           => TargetStays(n, b, p, e)
                           /\ \A t \in ts :
                                 HasStopped(pc'[t], call'[t]) => TargetStays(th'[target'[t]], at'[target'[t]], pc'[t], evt'[t])
    PROVE  ThreadInv'
  <1>1. th \in [Threads -> ThreadStates] /\ at \in [Threads -> Places]
    BY DEF ThreadInv, TypeOK, Places
  <1>2. th'[u] = n /\ at'[u] = b
        /\ \A x \in Threads \ {u} : th'[x] = th[x] /\ at'[x] = at[x]
    BY <1>1 DEF Changes
  <1>3. \A x \in Threads : /\ th'[x].suspend_count = th[x].suspend_count
                           /\ th'[x].user_stop_count = th[x].user_stop_count
                           /\ th'[x].ast_halt = th[x].ast_halt
                           /\ "HALTED" \in th'[x].state <=> "HALTED" \in th[x].state
                           /\ WaitAgrees(th'[x])
    BY <1>2 DEF ThreadInv
  <1>4. ASSUME ~unheld_halt, NEW x \in Threads
        PROVE  /\ ThreadAgrees(th'[x], at'[x], pc'[x])
               /\ \A p, e : TargetStays(th[x], at[x], p, e) /\ "SUSP" \in th[x].state
                               => TargetStays(th'[x], at'[x], p, e)
    <2>1. CASE x = u
      BY <1>2, <1>4, <2>1
    <2>2. CASE x # u /\ x \in ts
      BY <1>2, <1>4, <2>2
    <2>3. CASE x # u /\ x \notin ts
      <3>1. th'[x] = th[x] /\ at'[x] = at[x] /\ pc'[x] = pc[x]
        BY <1>2, <2>3 DEF OnlyMove
      <3> QED BY <1>4, <3>1, Typed
    <2> QED BY <2>1, <2>2, <2>3
  <1> QED BY <1>3, <1>4, Goes

LEMMA SoftclockExpireStep ==
    ASSUME ThreadInv, NEW t \in Threads, SoftclockExpire(t)
    PROVE  ThreadInv'
  <1> DEFINE n == [th[t] EXCEPT !.timer = FALSE]
  <1>1. Changes(t, n, at[t])
    BY DEF Changes, SoftclockExpire, ThreadInv, TypeOK
  <1>2. n \in ThreadStates /\ n.state = th[t].state /\ n.wait_event = th[t].wait_event /\ ~n.timer
        /\ n.suspend_count = th[t].suspend_count /\ n.user_stop_count = th[t].user_stop_count
        /\ n.ast_halt = th[t].ast_halt
    BY Typed DEF ThreadStates
  <1> HIDE DEF n
  <1>3. softclock' \in [step: {"idle", "timeout", "clear", "failed"},
                        thread: Threads \cup {NoThread}, event: AllEvents]
        /\ softclock'.thread = t
    BY ClockTypes DEF SoftclockExpire
  <1>4. TypeOK'
    <2>1. th' \in [Threads -> ThreadStates]
      BY <1>1, <1>2 DEF Changes, ThreadInv, TypeOK
    <2> QED BY <1>3, <2>1 DEF SoftclockExpire, ThreadInv, TypeOK
  <1>5. WaitAgrees(n)
    BY <1>2, Typed DEF WaitAgrees
  <1>6. ~unheld_halt => ThreadAgrees(n, at[t], pc[t])
    BY <1>2, Typed DEF ThreadAgrees
  <1>7. \A p, e : TargetStays(th[t], at[t], p, e) => TargetStays(n, at[t], p, e)
    BY <1>2 DEF TargetStays
  <1>8. OnlyMove({}) /\ UNCHANGED <<pc, call, target, evt, unheld_halt, panicked>>
    BY DEF SoftclockExpire, OnlyMove
  <1> QED BY <1>1, <1>2, <1>4, <1>5, <1>6, <1>7, <1>8, Typed, OneChanges

LEMMA RunStep ==
    ASSUME ThreadInv, NEW t \in Threads, Run(t)
    PROVE  ThreadInv'
  <1> DEFINE s == th[t].state \ {"UNINT"}
             n == [th[t] EXCEPT !.state = s]
  <1>1. Changes(t, n, "cpu") /\ at[t] = "runq"
    BY DEF Changes, Run, ThreadInv, TypeOK
  <1>2. s \in SUBSET Bits /\ "UNINT" \notin s
        /\ \A b \in {"WAIT", "SUSP", "RUN", "HALTED"} : b \in s <=> b \in th[t].state
    BY Typed
  <1> HIDE DEF s
  <1>3. n \in ThreadStates /\ n.state = s /\ n.wait_event = th[t].wait_event
        /\ n.timer = th[t].timer
        /\ n.suspend_count = th[t].suspend_count /\ n.user_stop_count = th[t].user_stop_count
        /\ n.ast_halt = th[t].ast_halt
    BY <1>2, Typed DEF ThreadStates
  <1> HIDE DEF n
  <1>4. TypeOK'
    <2>1. th' \in [Threads -> ThreadStates] /\ at' \in [Threads -> {"cpu", "runq", "switch", "off"}]
      BY <1>1, <1>3 DEF Changes, ThreadInv, TypeOK
    <2> QED BY <2>1 DEF Run, ThreadInv, TypeOK
  <1>5. WaitAgrees(n)
    BY <1>2, <1>3, Typed DEF WaitAgrees
  <1>6. ~unheld_halt => ThreadAgrees(n, "cpu", pc[t])
    BY <1>1, <1>2, <1>3, Typed DEF ThreadAgrees
  <1>7. \A p, e : ~TargetStays(th[t], at[t], p, e)
    BY <1>1 DEF TargetStays
  <1>8. OnlyMove({}) /\ UNCHANGED <<pc, call, target, evt, unheld_halt, panicked>>
    BY DEF Run, OnlyMove
  <1>9. "HALTED" \in n.state <=> "HALTED" \in th[t].state
    BY <1>2, <1>3
  <1> HIDE DEF TargetStays
  <1> QED BY <1>1, <1>3, <1>4, <1>5, <1>6, <1>7, <1>8, <1>9, Typed, OneChanges

\* thread_dispatch does not panic for a thread whose bits agree.
LEMMA Dispatchable ==
    ASSUME NEW k \in ThreadStates, NEW p, ThreadAgrees(k, "switch", p)
    PROVE  k.state \in StopStates \cup RunStates \cup WaitStates
  <1>1. k.state \subseteq {"WAIT", "SUSP", "RUN", "UNINT", "HALTED"}
    BY Fields DEF Bits
  <1>2. "RUN" \in k.state
    BY DEF ThreadAgrees
  <1>3. CASE "HALTED" \in k.state
    <2>1. k.state = {"RUN", "SUSP", "HALTED"}
      BY <1>1, <1>2, <1>3 DEF ThreadAgrees
    <2> QED BY <2>1 DEF StopStates
  <1>4. CASE "HALTED" \notin k.state /\ "WAIT" \in k.state
    <2>1. k.state \in {{"RUN", "WAIT"}, {"RUN", "WAIT", "UNINT"}, {"RUN", "WAIT", "SUSP", "UNINT"},
                       {"RUN", "WAIT", "SUSP"}}
      BY <1>1, <1>2, <1>4
    <2> QED BY <2>1 DEF StopStates, WaitStates
  <1>5. CASE "HALTED" \notin k.state /\ "WAIT" \notin k.state
    <2>1. k.state \in {{"RUN"}, {"RUN", "UNINT"}, {"RUN", "SUSP", "UNINT"}, {"RUN", "SUSP"}}
      BY <1>1, <1>2, <1>5
    <2> QED BY <2>1 DEF StopStates, RunStates
  <1> QED BY <1>3, <1>4, <1>5

LEMMA DispatchStates ==
    /\ \A s \in RunStates : /\ "RUN" \in s /\ "WAIT" \notin s /\ "HALTED" \notin s
                            /\ "SUSP" \in s => "UNINT" \in s
    /\ \A s \in StopStates \cup WaitStates :
          /\ "WAIT" \in s \/ "SUSP" \in s
          /\ "WAIT" \in s \/ "HALTED" \in s \/ ("SUSP" \in s /\ "UNINT" \notin s)
  BY DEF RunStates, StopStates, WaitStates

LEMMA DispatchStep ==
    ASSUME ThreadInv, NEW t \in Threads, ThreadDispatch(t)
    PROVE  ThreadInv'
  <1> DEFINE k == th[t]
             b == IF k.state \in RunStates THEN "runq" ELSE "off"
             s == IF k.state \in StopStates \cup WaitStates THEN k.state \ {"RUN"} ELSE k.state
             w == k.wake_active /\ k.state \notin StopStates
             n == [k EXCEPT !.state = s, !.wake_active = w]
  <1>1. Changes(t, n, b) /\ at[t] = "switch"
    <2>1. th' = [th EXCEPT ![t].state = s, ![t].wake_active = w]
      BY DEF ThreadDispatch
    <2>2. th' = [th EXCEPT ![t] = n]
      BY <2>1 DEF ThreadInv, TypeOK
    <2> QED BY <2>2 DEF Changes, ThreadDispatch
  <1>2. k \in ThreadStates
    BY Typed
  <1>3. s \in SUBSET Bits /\ \A x \in {"WAIT", "SUSP", "UNINT", "HALTED"} : x \in s <=> x \in k.state
    BY Typed
  <1>4. w \in BOOLEAN
    OBVIOUS
  <1>5. ~unheld_halt => ~panicked' /\ ("RUN" \in s <=> b # "off")
                       /\ (b = "runq" => "WAIT" \notin s /\ "HALTED" \notin s)
                       /\ (b # "runq" => "WAIT" \in s \/ "SUSP" \in s)
    <2> SUFFICES ASSUME ~unheld_halt
                 PROVE  /\ ~panicked' /\ ("RUN" \in s <=> b # "off")
                        /\ (b = "runq" => "WAIT" \notin s /\ "HALTED" \notin s)
                        /\ (b # "runq" => "WAIT" \in s \/ "SUSP" \in s)
      OBVIOUS
    <2>1. ThreadAgrees(k, "switch", pc[t])
      BY <1>1, Typed
    <2>2. k.state \in StopStates \cup RunStates \cup WaitStates
      BY <1>2, <2>1, Dispatchable
    <2>3. ~panicked'
      BY <2>2 DEF ThreadDispatch
    <2>4. CASE k.state \in RunStates
      <3>1. "RUN" \in k.state /\ "WAIT" \notin k.state /\ "HALTED" \notin k.state
        BY <2>4, DispatchStates
      <3>2. k.state \notin StopStates \cup WaitStates
        BY <3>1, <2>4, DispatchStates
      <3> QED BY <2>3, <2>4, <3>1, <3>2
    <2>5. CASE k.state \in StopStates \cup WaitStates
      <3>1. "WAIT" \in k.state \/ "SUSP" \in k.state
        BY <2>5, DispatchStates
      <3>2. k.state \notin RunStates
        BY <2>5, DispatchStates
      <3> QED BY <2>3, <2>5, <3>1, <3>2
    <2> QED BY <2>2, <2>4, <2>5
  <1>6. b \in {"runq", "off"}
    OBVIOUS
  <1> HIDE DEF b, s, w
  <1>7. n \in ThreadStates /\ n.state = s /\ n.wait_event = k.wait_event /\ n.timer = k.timer
        /\ n.suspend_count = k.suspend_count /\ n.user_stop_count = k.user_stop_count
        /\ n.ast_halt = k.ast_halt
    BY <1>2, <1>3, <1>4 DEF ThreadStates
  <1> HIDE DEF n
  <1>8. TypeOK'
    <2>1. th' \in [Threads -> ThreadStates] /\ at' \in [Threads -> {"cpu", "runq", "switch", "off"}]
      BY <1>1, <1>6, <1>7 DEF Changes, ThreadInv, TypeOK
    <2>2. stops' \subseteq Threads /\ panicked' \in BOOLEAN
      BY DEF ThreadDispatch, ThreadInv, TypeOK
    <2> QED BY <2>1, <2>2 DEF ThreadDispatch, ThreadInv, TypeOK
  <1>9. WaitAgrees(n)
    BY <1>3, <1>7, Typed DEF WaitAgrees
  <1>10. ~unheld_halt => ThreadAgrees(n, b, pc[t])
    BY <1>1, <1>3, <1>5, <1>6, <1>7, Typed DEF ThreadAgrees
  <1>11. \A p, e : ~TargetStays(th[t], at[t], p, e)
    BY <1>1 DEF TargetStays
  <1>12. OnlyMove({}) /\ UNCHANGED <<pc, call, target, evt, unheld_halt>>
    BY DEF ThreadDispatch, OnlyMove
  <1>13. "HALTED" \in n.state <=> "HALTED" \in k.state
    BY <1>3, <1>7
  <1> QED BY <1>1, <1>5, <1>7, <1>8, <1>9, <1>10, <1>11, <1>12, <1>13, OneChanges

-----------------------------------------------------------------------------
(* Steps of a thread that change no hold and no request                    *)

\* t goes on at l, with structure n, and is at b; no other thread changes.
LEMMA Advances ==
    ASSUME ThreadInv, NEW t \in Threads, NEW l \in PCs, Goto(t, l), NEW n \in ThreadStates,
           NEW b \in Places, Changes(t, n, b), at[t] # "off",
           work' \in [Threads -> 0..MaxWork], panicked' \in BOOLEAN,
           UNCHANGED <<call, target, evt, softclock, stops, unheld_halt>>,
           CallAgrees(t, l, call[t], target[t]),
           Asks(l, call[t]) <=> Asks(pc[t], call[t]),
           n.suspend_count = th[t].suspend_count, n.user_stop_count = th[t].user_stop_count,
           n.ast_halt = th[t].ast_halt,
           "HALTED" \in n.state <=> "HALTED" \in th[t].state,
           WaitAgrees(n),
           ~unheld_halt => /\ ~panicked' /\ ThreadAgrees(n, b, l)
                           /\ HasStopped(l, call[t])
                                 => TargetStays(th[target[t]], at[target[t]], l, evt[t])
    PROVE  ThreadInv'
  <1>1. pc' \in [Threads -> PCs] /\ pc'[t] = l /\ \A x \in Threads \ {t} : pc'[x] = pc[x]
    BY DEF Goto, ThreadInv, TypeOK
  <1>2. OnlyMove({t})
    BY <1>1 DEF OnlyMove
  <1>3. TypeOK'
    <2>1. th' \in [Threads -> ThreadStates] /\ at' \in [Threads -> {"cpu", "runq", "switch", "off"}]
      BY DEF Changes, Places, ThreadInv, TypeOK
    <2> QED BY <1>1, <2>1 DEF ThreadInv, TypeOK
  <1>4. \A p, e : ~TargetStays(th[t], at[t], p, e)
    BY DEF TargetStays
  <1>5. ~unheld_halt => (HasStopped(pc'[t], call'[t])
                           => TargetStays(th'[target'[t]], at'[target'[t]], pc'[t], evt'[t]))
    <2> SUFFICES ASSUME ~unheld_halt, HasStopped(l, call[t])
                 PROVE  TargetStays(th'[target[t]], at'[target[t]], l, evt[t])
      BY <1>1
    <2>1. call[t] = "abort"
      BY DEF HasStopped
    <2>2. target[t] \in Threads \ {t}
      BY <2>1, StoppedIsHeld
    <2>3. th'[target[t]] = th[target[t]] /\ at'[target[t]] = at[target[t]]
      BY <2>2 DEF Changes, ThreadInv, TypeOK
    <2> QED BY <2>3
  <1> QED BY <1>1, <1>2, <1>3, <1>4, <1>5, OneChanges

\* t goes on at l, and no thread changes.
LEMMA MovesOn ==
    ASSUME ThreadInv, NEW t \in Threads, NEW l \in PCs, Goto(t, l), at[t] = "cpu",
           pc[t] \notin BlockPCs, pc[t] # "halted",
           work' \in [Threads -> 0..MaxWork],
           UNCHANGED <<th, at, call, target, evt, softclock, stops, unheld_halt, panicked>>,
           CallAgrees(t, l, call[t], target[t]),
           Asks(l, call[t]) <=> Asks(pc[t], call[t]),
           ~unheld_halt => (HasStopped(l, call[t])
                              => TargetStays(th[target[t]], at[target[t]], l, evt[t]))
    PROVE  ThreadInv'
  <1>1. Changes(t, th[t], at[t])
    BY DEF Changes, ThreadInv, TypeOK
  <1>2. ~unheld_halt => ThreadAgrees(th[t], at[t], l)
    BY Typed, OnCpu
  <1>3. panicked \in BOOLEAN /\ at[t] \in Places /\ at[t] # "off"
    BY DEF ThreadInv, TypeOK, Places
  <1> QED BY <1>1, <1>2, <1>3, Typed, Advances

LEMMA PCNames ==
    /\ {"user", "kernel", "asserted", "block", "halt_self", "halted", "suspended"} \subseteq PCs
    /\ DowaitPCs \subseteq PCs /\ AbortPCs \subseteq PCs
  BY DEF PCs, DowaitPCs, AbortPCs, StoppedPCs

\* Where a thread is that is in no call of another thread's, or no longer.
Elsewhere == {"user", "kernel", "asserted", "block", "halt_self", "halted", "spin"}

LEMMA ElsewhereIs ==
    /\ Elsewhere \cap (DowaitPCs \cup AbortPCs \cup {"suspended"}) = {}
    /\ RequestPCs \subseteq DowaitPCs \cup AbortPCs
    /\ StoppedPCs \subseteq AbortPCs /\ "dowait_wakeup" \in DowaitPCs
    /\ BlockPCs \cap {"user", "kernel", "halt_self", "halted"} = {}
    /\ Elsewhere \subseteq PCs
  BY DEF Elsewhere, DowaitPCs, AbortPCs, StoppedPCs, RequestPCs, BlockPCs, PCs

LEMMA StaysElsewhere ==
    ASSUME NEW t, NEW l \in Elsewhere, NEW p \in Elsewhere, NEW c, NEW u, CallAgrees(t, p, c, u)
    PROVE  CallAgrees(t, l, c, u) /\ ~Asks(l, c) /\ ~Asks(p, c) /\ ~HasStopped(l, c)
  BY ElsewhereIs DEF CallAgrees, Asks, HasStopped

LEMMA ElsewhereStep ==
    ASSUME ThreadInv, NEW t \in Threads, NEW l \in Elsewhere, Goto(t, l),
           at[t] = "cpu", pc[t] \in {"user", "kernel"}, work' \in [Threads -> 0..MaxWork],
           UNCHANGED <<th, at, call, target, evt, softclock, stops, unheld_halt, panicked>>
    PROVE  ThreadInv'
  <1>1. pc[t] \in Elsewhere
    BY DEF Elsewhere
  <1>2. CallAgrees(t, l, call[t], target[t]) /\ ~Asks(l, call[t])
        /\ ~Asks(pc[t], call[t]) /\ ~HasStopped(l, call[t])
    BY <1>1, StaysElsewhere, Typed
  <1>3. pc[t] \notin BlockPCs /\ l \in PCs /\ pc[t] # "halted"
    BY ElsewhereIs
  <1> QED BY <1>2, <1>3, MovesOn

LEMMA EnterKernelStep ==
    ASSUME ThreadInv, NEW t \in Threads, EnterKernel(t)
    PROVE  ThreadInv'
  <1>1. work' \in [Threads -> 0..MaxWork]
    BY ThreadAssumption DEF EnterKernel, ThreadInv, TypeOK
  <1> QED BY <1>1, ElsewhereStep DEF EnterKernel, On, Elsewhere

LEMMA ReturnToUserStep ==
    ASSUME ThreadInv, NEW t \in Threads, ReturnToUser(t)
    PROVE  ThreadInv'
  <1>1. work' \in [Threads -> 0..MaxWork]
    BY ThreadAssumption DEF ReturnToUser, ThreadInv, TypeOK
  <1> QED BY <1>1, ElsewhereStep DEF ReturnToUser, On, Elsewhere

LEMMA AstHaltStep ==
    ASSUME ThreadInv, NEW t \in Threads, AstHalt(t)
    PROVE  ThreadInv'
  <1>1. work' \in [Threads -> 0..MaxWork]
    BY DEF AstHalt, ThreadInv, TypeOK
  <1> QED BY <1>1, ElsewhereStep DEF AstHalt, On, Elsewhere

LEMMA AfterBlockIs ==
    ASSUME NEW p \in Elsewhere \cup {"halt_block", "dowait_block"}
    PROVE  /\ AfterBlock(p) \in PCs /\ AfterBlock(p) \notin BlockPCs \cup {"halted"}
           /\ \A t, c, u : CallAgrees(t, p, c, u) =>
                 /\ CallAgrees(t, AfterBlock(p), c, u)
                 /\ Asks(AfterBlock(p), c) <=> Asks(p, c)
                 /\ ~HasStopped(AfterBlock(p), c)
  <1>1. CASE p = "halt_block"
    <2>1. AfterBlock(p) = "halt_woken"
      BY <1>1 DEF AfterBlock
    <2> QED BY <1>1, <2>1 DEF PCs, BlockPCs, CallAgrees, Asks, HasStopped, DowaitPCs, AbortPCs,
                              StoppedPCs, RequestPCs
  <1>2. CASE p = "dowait_block"
    <2>1. AfterBlock(p) = "dowait_woken"
      BY <1>2 DEF AfterBlock
    <2> QED BY <1>2, <2>1 DEF PCs, BlockPCs, CallAgrees, Asks, HasStopped, DowaitPCs, AbortPCs,
                              StoppedPCs, RequestPCs
  <1>3. CASE p \in Elsewhere
    <2>1. AfterBlock(p) = "kernel" /\ "kernel" \in Elsewhere
      BY <1>3 DEF AfterBlock, Elsewhere
    <2>2. "kernel" \in PCs /\ "kernel" \notin BlockPCs \cup {"halted"}
      BY PCNames, ElsewhereIs
    <2> QED BY <1>3, <2>1, <2>2, StaysElsewhere
  <1> QED BY <1>1, <1>2, <1>3

LEMMA ThreadBlockStep ==
    ASSUME ThreadInv, NEW t \in Threads, ThreadBlock(t)
    PROVE  ThreadInv'
  <1> DEFINE l == AfterBlock(pc[t])
  <1>1. at[t] = "cpu" /\ pc[t] \in Elsewhere \cup {"halt_block", "dowait_block"} /\ Goto(t, l)
    BY DEF ThreadBlock, Elsewhere
  <1>2. l \in PCs /\ CallAgrees(t, l, call[t], target[t])
        /\ (Asks(l, call[t]) <=> Asks(pc[t], call[t])) /\ ~HasStopped(l, call[t])
    BY <1>1, AfterBlockIs, Typed
  <1> HIDE DEF l
  <1>3. PICK b \in {"cpu", "switch"} : Changes(t, th[t], b) /\ (b = "cpu" => th[t].state = {"RUN"})
    <2>1. CASE th[t].state = {"RUN"} /\ UNCHANGED at
      <3>1. Changes(t, th[t], "cpu")
        BY <1>1, <2>1 DEF Changes, ThreadBlock, ThreadInv, TypeOK
      <3> QED BY <2>1, <3>1
    <2>2. CASE at' = [at EXCEPT ![t] = "switch"]
      <3>1. Changes(t, th[t], "switch")
        BY <2>2 DEF Changes, ThreadBlock, ThreadInv, TypeOK
      <3> QED BY <3>1
    <2> QED BY <2>1, <2>2 DEF ThreadBlock
  <1>4. ~unheld_halt => ThreadAgrees(th[t], b, l)
    <2>1. b = "cpu" => "WAIT" \notin th[t].state /\ "UNINT" \notin th[t].state
                       /\ "HALTED" \notin th[t].state
      BY <1>3
    <2> QED BY <1>1, <1>3, <2>1, Typed DEF ThreadAgrees
  <1>5. b \in Places /\ at[t] # "off" /\ work' \in [Threads -> 0..MaxWork] /\ panicked' \in BOOLEAN
    BY <1>1, <1>3 DEF Places, ThreadBlock, ThreadInv, TypeOK
  <1>6. UNCHANGED <<call, target, evt, softclock, stops, unheld_halt, panicked>>
    BY DEF ThreadBlock
  <1> QED BY <1>1, <1>2, <1>3, <1>4, <1>5, <1>6, Typed, Advances

LEMMA WorkType ==
    ASSUME ThreadInv, NEW t \in Threads, work[t] > 0, SpendWork(t)
    PROVE  work' \in [Threads -> 0..MaxWork]
  <1>1. work[t] \in 0..MaxWork
    BY DEF ThreadInv, TypeOK
  <1>2. work[t] - 1 \in 0..MaxWork
    BY <1>1, ThreadAssumption
  <1> QED BY <1>2 DEF SpendWork, ThreadInv, TypeOK

LEMMA EventsAre ==
    /\ Events \subseteq AllEvents /\ Threads \subseteq AllEvents /\ NoEvent \in AllEvents
    /\ NoEvent \notin Events /\ NoEvent \notin Threads
  BY ThreadAssumption DEF AllEvents

LEMMA AssertEventWaitStep ==
    ASSUME ThreadInv, NEW t \in Threads, AssertEventWait(t)
    PROVE  ThreadInv'
  <1> DEFINE k == th[t]
  <1>1. pc[t] = "kernel" /\ at[t] = "cpu" /\ Goto(t, "asserted")
    BY DEF AssertEventWait, InCall, On
  <1>2. UNCHANGED <<at, call, target, evt, softclock, stops, unheld_halt>>
    BY DEF AssertEventWait
  <1>3. work' \in [Threads -> 0..MaxWork]
    BY WorkType DEF AssertEventWait, InCall
  <1>4. "asserted" \in PCs /\ "asserted" \in BlockPCs
        /\ CallAgrees(t, "asserted", call[t], target[t]) /\ ~Asks("asserted", call[t])
        /\ ~Asks(pc[t], call[t]) /\ ~HasStopped("asserted", call[t])
    <2>1. "asserted" \in Elsewhere /\ "kernel" \in Elsewhere /\ "asserted" \in BlockPCs
      BY DEF Elsewhere, BlockPCs
    <2> QED BY <1>1, <2>1, StaysElsewhere, ElsewhereIs, Typed
  <1>5. ~unheld_halt => /\ "RUN" \in k.state /\ "WAIT" \notin k.state
                        /\ "UNINT" \notin k.state /\ "HALTED" \notin k.state
                        /\ \A l : ThreadAgrees(k, "cpu", l)
    BY <1>1, ElsewhereIs, Typed, OnCpu
  <1>6. at[t] # "off" /\ "cpu" \in Places
    BY <1>1 DEF Places
  <1>7. CASE k.wait_event # NoEvent
    <2>1. Changes(t, k, "cpu")
      BY <1>1, <1>2, <1>7 DEF Changes, AssertEventWait, ThreadInv, TypeOK
    <2>2. unheld_halt
      BY <1>5, <1>7, Typed DEF WaitAgrees
    <2>3. panicked' \in BOOLEAN
      BY <1>7 DEF AssertEventWait
    <2> QED BY <1>1, <1>2, <1>3, <1>4, <1>6, <2>1, <2>2, <2>3, Typed, Advances
  <1>8. CASE k.wait_event = NoEvent
    <2>1. PICK e \in Events \cup {NoEvent}, i \in BOOLEAN :
             th' = [th EXCEPT ![t] = AssertWait(k, e, i)]
      BY <1>8 DEF AssertEventWait
    <2> DEFINE n == AssertWait(k, e, i)
    <2>2. Changes(t, n, "cpu")
      BY <1>1, <1>2, <2>1 DEF Changes, ThreadInv, TypeOK
    <2>3. n \in ThreadStates /\ SameHolds(k, n) /\ SameBits(k, n, {"WAIT", "UNINT"})
          /\ "WAIT" \in n.state /\ n.wait_event = e /\ n.timer = k.timer
      BY EventsAre, Typed, AssertWaitIs
    <2> HIDE DEF n
    <2>4. n.suspend_count = k.suspend_count /\ n.user_stop_count = k.user_stop_count
          /\ n.ast_halt = k.ast_halt
          /\ \A x \in {"SUSP", "RUN", "HALTED"} : x \in n.state <=> x \in k.state
      BY <2>3 DEF SameHolds, SameBits, Bits
    <2>5. WaitAgrees(n)
      BY <2>3, EventsAre DEF WaitAgrees
    <2>6. ~unheld_halt => ThreadAgrees(n, "cpu", "asserted") /\ ~panicked'
      <3>1. panicked' = panicked
        BY <1>8 DEF AssertEventWait
      <3> QED BY <1>1, <1>4, <1>5, <2>3, <2>4, <3>1, Typed DEF ThreadAgrees
    <2>7. panicked' \in BOOLEAN
      BY <1>8 DEF AssertEventWait, ThreadInv, TypeOK
    <2>8. "HALTED" \in n.state <=> "HALTED" \in k.state
      BY <2>4
    <2> QED BY <1>1, <1>2, <1>3, <1>4, <1>6, <2>2, <2>3, <2>4, <2>5, <2>6, <2>7, <2>8, Advances
  <1> QED BY <1>7, <1>8

LEMMA ThreadSetTimeoutStep ==
    ASSUME ThreadInv, NEW t \in Threads, ThreadSetTimeout(t)
    PROVE  ThreadInv'
  <1> DEFINE k == th[t]
             b == k.timer \/ "WAIT" \in k.state
             n == [k EXCEPT !.timer = b]
  <1>1. pc[t] = "asserted" /\ at[t] = "cpu" /\ Goto(t, "block")
    BY DEF ThreadSetTimeout, On
  <1>2. Changes(t, n, "cpu")
    BY <1>1 DEF Changes, ThreadSetTimeout, ThreadInv, TypeOK
  <1>3. b \in BOOLEAN /\ (b => "WAIT" \in k.state)
    BY Typed DEF WaitAgrees
  <1> HIDE DEF b
  <1>4. n \in ThreadStates /\ n.state = k.state /\ n.wait_event = k.wait_event /\ n.timer = b
        /\ n.suspend_count = k.suspend_count /\ n.user_stop_count = k.user_stop_count
        /\ n.ast_halt = k.ast_halt
    BY <1>3, Typed DEF ThreadStates
  <1> HIDE DEF n
  <1>5. "block" \in PCs /\ "block" \in BlockPCs
        /\ CallAgrees(t, "block", call[t], target[t]) /\ ~Asks("block", call[t])
        /\ ~Asks(pc[t], call[t]) /\ ~HasStopped("block", call[t])
    <2>1. "asserted" \in Elsewhere /\ "block" \in Elsewhere /\ "block" \in BlockPCs
      BY DEF Elsewhere, BlockPCs
    <2> QED BY <1>1, <2>1, StaysElsewhere, ElsewhereIs, Typed
  <1>6. ~unheld_halt => ThreadAgrees(n, "cpu", "block") /\ ~panicked
    BY <1>1, <1>4, <1>5, Typed DEF ThreadAgrees
  <1>7. WaitAgrees(n)
    BY <1>3, <1>4, Typed DEF WaitAgrees
  <1>8. at[t] # "off" /\ "cpu" \in Places
        /\ work' \in [Threads -> 0..MaxWork] /\ panicked' \in BOOLEAN
    BY <1>1 DEF Places, ThreadSetTimeout, ThreadInv, TypeOK
  <1>9. UNCHANGED <<call, target, evt, softclock, stops, unheld_halt, panicked>>
    BY DEF ThreadSetTimeout
  <1> QED BY <1>1, <1>2, <1>4, <1>5, <1>6, <1>7, <1>8, <1>9, Typed, Advances

LEMMA ThreadWillWaitStep ==
    ASSUME ThreadInv, NEW t \in Threads, ThreadWillWait(t)
    PROVE  ThreadInv'
  <1> DEFINE k == th[t]
             s == k.state \cup {"WAIT"}
  <1>1. pc[t] = "kernel" /\ at[t] = "cpu" /\ Goto(t, "block")
        /\ UNCHANGED <<at, call, target, evt, softclock, stops, unheld_halt, panicked>>
    BY DEF ThreadWillWait, InCall, On
  <1>2. work' \in [Threads -> 0..MaxWork]
    BY WorkType DEF ThreadWillWait, InCall
  <1>3. PICK timed \in BOOLEAN :
           th' = [th EXCEPT ![t].state = @ \cup {"WAIT"}, ![t].timer = @ \/ timed]
    BY DEF ThreadWillWait
  <1> DEFINE b == k.timer \/ timed
             n == [k EXCEPT !.state = s, !.timer = b]
  <1>4. Changes(t, n, "cpu")
    BY <1>1, <1>3 DEF Changes, ThreadInv, TypeOK
  <1>5. b \in BOOLEAN /\ s \in SUBSET Bits /\ "WAIT" \in s
        /\ \A x \in {"SUSP", "RUN", "UNINT", "HALTED"} : x \in s <=> x \in k.state
    BY Typed, Fields DEF Bits
  <1> HIDE DEF b, s
  <1>6. n \in ThreadStates /\ n.state = s /\ n.wait_event = k.wait_event
        /\ n.suspend_count = k.suspend_count /\ n.user_stop_count = k.user_stop_count
        /\ n.ast_halt = k.ast_halt
    BY <1>5, Typed DEF ThreadStates
  <1> HIDE DEF n
  <1>7. "block" \in PCs /\ "block" \in BlockPCs
        /\ CallAgrees(t, "block", call[t], target[t]) /\ ~Asks("block", call[t])
        /\ ~Asks(pc[t], call[t]) /\ ~HasStopped("block", call[t])
    <2>1. "kernel" \in Elsewhere /\ "block" \in Elsewhere /\ "block" \in BlockPCs
      BY DEF Elsewhere, BlockPCs
    <2> QED BY <1>1, <2>1, StaysElsewhere, ElsewhereIs, Typed
  <1>8. ~unheld_halt => ThreadAgrees(n, "cpu", "block") /\ ~panicked
    <2>1. ~unheld_halt => "HALTED" \notin k.state /\ ThreadAgrees(k, "cpu", "kernel")
      BY <1>1, Typed, OnCpu DEF BlockPCs
    <2> QED BY <1>5, <1>6, <1>7, <2>1, Typed DEF ThreadAgrees
  <1>9. WaitAgrees(n)
    BY <1>5, <1>6 DEF WaitAgrees
  <1>10. at[t] # "off" /\ "cpu" \in Places /\ panicked' \in BOOLEAN
    BY <1>1 DEF Places, ThreadInv, TypeOK
  <1>11. "HALTED" \in n.state <=> "HALTED" \in k.state
    BY <1>5, <1>6
  <1> QED BY <1>1, <1>2, <1>4, <1>6, <1>7, <1>8, <1>9, <1>10, <1>11, Advances

-----------------------------------------------------------------------------
(* Holds                                                                   *)

LEMMA HoldsAre ==
    ASSUME ThreadInv, NEW u \in Threads
    PROVE  /\ HoldingCalls(u) \subseteq Threads /\ IsFiniteSet(HoldingCalls(u))
           /\ Cardinality(HoldingCalls(u)) \in Nat
           /\ Cardinality(HoldingCalls(u)) <= Cardinality(Threads)
           /\ \A t \in Threads \ HoldingCalls(u) :
                 /\ Cardinality(HoldingCalls(u) \cup {t}) = Cardinality(HoldingCalls(u)) + 1
                 /\ Cardinality(HoldingCalls(u)) + 1 <= Cardinality(Threads)
           /\ \A t \in HoldingCalls(u) :
                 Cardinality(HoldingCalls(u) \ {t}) = Cardinality(HoldingCalls(u)) - 1
           /\ th[u].suspend_count = Cardinality(HoldingCalls(u)) +
                                    (IF th[u].user_stop_count > 0 THEN 1 ELSE 0)
  <1> DEFINE h == HoldingCalls(u)
  <1>1. h \subseteq Threads
    BY DEF HoldingCalls
  <1>2. th[u].suspend_count = Cardinality(h) + (IF th[u].user_stop_count > 0 THEN 1 ELSE 0)
    BY DEF ThreadInv, HoldsCounted
  <1> HIDE DEF h
  <1>3. IsFiniteSet(h) /\ Cardinality(h) \in Nat /\ Cardinality(h) <= Cardinality(Threads)
    BY <1>1, FS_Subset, FS_CardinalityType, ThreadAssumption
  <1>4. ASSUME NEW t \in Threads \ h
        PROVE  /\ Cardinality(h \cup {t}) = Cardinality(h) + 1
               /\ Cardinality(h) + 1 <= Cardinality(Threads)
    <2>1. Cardinality(h \cup {t}) = Cardinality(h) + 1
      BY <1>3, FS_AddElement
    <2>2. Cardinality(h \cup {t}) <= Cardinality(Threads)
      BY <1>1, FS_Subset, ThreadAssumption
    <2> QED BY <2>1, <2>2
  <1>5. \A t \in h : Cardinality(h \ {t}) = Cardinality(h) - 1
    BY <1>3, FS_RemoveElement
  <1> QED BY <1>1, <1>2, <1>3, <1>4, <1>5 DEF h

\* Two holds are more than one.
LEMMA TwoHolds ==
    ASSUME ThreadInv, NEW u \in Threads, NEW v \in HoldingCalls(u),
           th[u].user_stop_count > 0 \/ \E t \in HoldingCalls(u) : t # v
    PROVE  th[u].suspend_count > 1
  <1> DEFINE h == HoldingCalls(u)
             c == Cardinality(h)
  <1>1. c \in Nat /\ IsFiniteSet(h) /\ th[u].suspend_count = c + (IF th[u].user_stop_count > 0 THEN 1 ELSE 0)
    BY HoldsAre
  <1>2. Cardinality(h \ {v}) = c - 1 /\ IsFiniteSet(h \ {v}) /\ Cardinality(h \ {v}) \in Nat
    BY <1>1, FS_RemoveElement, FS_CardinalityType
  <1>3. CASE th[u].user_stop_count > 0
    <2> HIDE DEF c
    <2> QED BY <1>1, <1>2, <1>3
  <1>4. CASE \E t \in h : t # v
    <2>1. h \ {v} # {}
      BY <1>4
    <2>2. Cardinality(h \ {v}) # 0
      BY <1>2, <2>1, FS_EmptySet
    <2> HIDE DEF c
    <2> QED BY <1>1, <1>2, <2>2
  <1> QED BY <1>3, <1>4

LEMMA HeldAgrees ==
    ASSUME NEW k \in ThreadStates, k.suspend_count < MaxHolds, NEW a, WaitAgrees(k)
    PROVE  /\ WaitAgrees(Held(k))
           /\ \A p : ThreadAgrees(k, a, p) => ThreadAgrees(Held(k), a, p)
           /\ \A p, e : TargetStays(k, a, p, e) => TargetStays(Held(k), a, p, e)
  <1> DEFINE n == Held(k)
  <1>1. /\ n \in ThreadStates /\ SameBits(k, n, {"SUSP"}) /\ "SUSP" \in n.state
        /\ n.suspend_count = k.suspend_count + 1
        /\ n.wait_event = k.wait_event /\ n.timer = k.timer
    BY HeldIs
  <1>2. \A b \in {"WAIT", "RUN", "UNINT", "HALTED"} : b \in n.state <=> b \in k.state
    BY <1>1 DEF SameBits, Bits
  <1>3. n.suspend_count > 0
    BY <1>1, Fields
  <1> HIDE DEF n
  <1> QED BY <1>1, <1>2, <1>3 DEF WaitAgrees, ThreadAgrees, TargetStays, n

LEMMA ReleasedAgrees ==
    ASSUME NEW k \in ThreadStates, k.suspend_count > 0, NEW a, WaitAgrees(k)
    PROVE  LET b == IF OnlySuspended(k) THEN "runq" ELSE a
           IN /\ WaitAgrees(Released(k))
              /\ \A p : ThreadAgrees(k, a, p) => ThreadAgrees(Released(k), b, p)
              /\ k.suspend_count > 1 => Released(k).state = k.state /\ b = a
  <1> DEFINE n == Released(k)
             b == IF OnlySuspended(k) THEN "runq" ELSE a
  <1>1. /\ n \in ThreadStates
        /\ n.suspend_count = k.suspend_count - 1
        /\ k.suspend_count # 1 => n.state = k.state
        /\ k.suspend_count = 1 => /\ SameBits(k, n, {"SUSP", "HALTED", "RUN"})
                                  /\ "SUSP" \notin n.state /\ "HALTED" \notin n.state
                                  /\ "RUN" \in n.state <=> "RUN" \in k.state \/ OnlySuspended(k)
        /\ n.wait_event = k.wait_event /\ n.timer = k.timer
    BY ReleasedIs
  <1>2. \A x \in {"WAIT", "UNINT"} : x \in n.state <=> x \in k.state
    BY <1>1 DEF SameBits, Bits
  <1>3. OnlySuspended(k) <=> k.suspend_count = 1 /\ "WAIT" \notin k.state /\ "RUN" \notin k.state
    BY DEF OnlySuspended
  <1>4. k.suspend_count \in Nat
    BY Fields, HoldsType
  <1> HIDE DEF n
  <1>5. WaitAgrees(n)
    BY <1>1, <1>2 DEF WaitAgrees
  <1>6. ASSUME NEW p, ThreadAgrees(k, a, p)
        PROVE  ThreadAgrees(n, b, p)
    <2>1. CASE k.suspend_count # 1
      BY <1>1, <1>3, <1>4, <1>6, <2>1 DEF ThreadAgrees
    <2>2. CASE k.suspend_count = 1
      BY <1>1, <1>2, <1>3, <1>6, <2>2 DEF ThreadAgrees
    <2> QED BY <2>1, <2>2
  <1> QED BY <1>1, <1>3, <1>5, <1>6 DEF n

-----------------------------------------------------------------------------
(* Steps that begin, end or go on with a call                              *)

\* t goes on in or after a call, or at the start of one; u changes.
LEMMA CallStep ==
    ASSUME ThreadInv, TypeOK', HoldsCounted', OneRequest', NEW t \in Threads, OnlyMove({t}),
           at[t] = "cpu", pc[t] \notin BlockPCs, pc[t] # "halted",
           CallAgrees(t, pc'[t], call'[t], target'[t]), ~HasStopped(pc'[t], call'[t]),
           UNCHANGED <<unheld_halt, panicked>>,
           NEW u \in Threads, NEW n, NEW b, Changes(u, n, b), WaitAgrees(n),
           ~unheld_halt =>
              /\ \A p : ThreadAgrees(th[u], at[u], p) => ThreadAgrees(n, b, p)
              /\ \A v \in Threads \ {t} :
                    HasStopped(pc[v], call[v]) /\ target[v] = u => TargetStays(n, b, pc[v], evt[v])
    PROVE  ThreadInv'
  <1>1. th'[u] = n /\ at'[u] = b /\ \A x \in Threads \ {u} : th'[x] = th[x] /\ at'[x] = at[x]
    BY DEF Changes, ThreadInv, TypeOK
  <1>2. CallsAgree'
    BY CallsStay DEF ThreadInv
  <1>3. \A x \in Threads : WaitAgrees(th'[x])
    BY <1>1, Typed
  <1>4. ASSUME ~unheld_halt, NEW x \in Threads
        PROVE  ThreadAgrees(th'[x], at'[x], pc'[x])
    <2>1. ThreadAgrees(th[x], at[x], pc[x]) /\ ThreadAgrees(th[x], at[x], pc'[x])
      <3>1. CASE x = t
        BY <1>4, <3>1, Typed, OnCpu
      <3>2. CASE x # t
        <4>1. pc'[x] = pc[x]
          BY <3>2 DEF OnlyMove
        <4> QED BY <1>4, <4>1, Typed
      <3> QED BY <3>1, <3>2
    <2> QED BY <1>1, <1>4, <2>1
  <1>5. ~unheld_halt => TargetsStopped'
    <2> SUFFICES ASSUME ~unheld_halt PROVE TargetsStopped'
      OBVIOUS
    <2>1. ASSUME NEW v \in Threads \ {t}, HasStopped(pc[v], call[v])
          PROVE  TargetStays(th'[target[v]], at'[target[v]], pc[v], evt[v])
      <3>1. target[v] \in Threads /\ TargetStays(th[target[v]], at[target[v]], pc[v], evt[v])
        BY <2>1, StoppedIsHeld DEF HasStopped
      <3> QED BY <1>1, <2>1, <3>1
    <2>2. \A v \in {t} : HasStopped(pc'[v], call'[v])
             => TargetStays(th'[target'[v]], at'[target'[v]], pc'[v], evt'[v])
      OBVIOUS
    <2> QED BY <2>1, <2>2, TargetsStay
  <1> QED BY <1>2, <1>3, <1>4, <1>5, Typed DEF ThreadInv

\* No call of thread_abort begins or ends.
LEMMA HoldsSame ==
    ASSUME ThreadInv, NEW t \in Threads, OnlyMove({t}),
           call[t] # "abort", call'[t] # "abort", NEW u \in Threads
    PROVE  HoldingCalls(u)' = HoldingCalls(u)
  BY DEF HoldingCalls, OnlyMove

LEMMA Begins ==
    ASSUME ThreadInv, NEW t \in Threads, NEW c \in {"none", "suspend", "abort"},
           NEW u \in Threads \cup {NoThread}, Begin(t, c, u), NEW l \in PCs, Goto(t, l), UNCHANGED evt
    PROVE  /\ OnlyMove({t}) /\ pc'[t] = l /\ call'[t] = c /\ target'[t] = u
           /\ pc' \in [Threads -> PCs] /\ call' \in [Threads -> {"none", "suspend", "abort"}]
           /\ target' \in [Threads -> Threads \cup {NoThread}]
  BY DEF Begin, Goto, OnlyMove, ThreadInv, TypeOK

\* Whose code is in no call has no hold and no request.
LEMMA IdleCall ==
    ASSUME ThreadInv, NEW t \in Threads, pc[t] \in Elsewhere \cup {"suspended"}
    PROVE  call[t] # "abort" /\ ~Asks(pc[t], call[t])
  <1>1. pc[t] \notin DowaitPCs \cup AbortPCs
    BY DEF Elsewhere, DowaitPCs, AbortPCs, StoppedPCs
  <1>2. CallAgrees(t, pc[t], call[t], target[t])
    BY Typed
  <1> QED BY <1>1, <1>2 DEF CallAgrees, Asks

LEMMA SuspendReturnStep ==
    ASSUME ThreadInv, NEW t \in Threads, SuspendReturn(t)
    PROVE  ThreadInv'
  <1>1. pc[t] = "suspended" /\ at[t] = "cpu"
    BY DEF SuspendReturn, On
  <1>2. OnlyMove({t}) /\ pc'[t] = "kernel" /\ call'[t] = "none" /\ target'[t] = NoThread
        /\ pc' \in [Threads -> PCs] /\ call' \in [Threads -> {"none", "suspend", "abort"}]
        /\ target' \in [Threads -> Threads \cup {NoThread}]
    BY PCNames, Begins DEF SuspendReturn, EndCall
  <1>3. TypeOK'
    BY <1>2 DEF SuspendReturn, ThreadInv, TypeOK
  <1>4. Changes(t, th[t], at[t])
    BY DEF Changes, SuspendReturn, ThreadInv, TypeOK
  <1>5. call[t] # "abort" /\ ~Asks(pc[t], call[t])
    BY <1>1, IdleCall
  <1>6. HoldsCounted'
    <2>1. \A u \in Threads : HoldingCalls(u)' = HoldingCalls(u)
      BY <1>2, <1>5, HoldsSame
    <2> QED BY <2>1 DEF SuspendReturn, ThreadInv, HoldsCounted
  <1>7. OneRequest'
    <2>1. ~Asks(pc'[t], call'[t])
      BY <1>2 DEF Asks
    <2> QED BY <1>2, <1>5, <2>1, RequestsStay DEF SuspendReturn, ThreadInv
  <1>8. CallAgrees(t, pc'[t], call'[t], target'[t]) /\ ~HasStopped(pc'[t], call'[t])
    BY <1>2 DEF CallAgrees, HasStopped, DowaitPCs, AbortPCs, StoppedPCs
  <1>9. pc[t] \notin BlockPCs /\ pc[t] # "halted"
    BY <1>1 DEF BlockPCs
  <1>10. UNCHANGED <<unheld_halt, panicked>>
    BY DEF SuspendReturn
  <1>11. ~unheld_halt => \A v \in Threads \ {t} :
            HasStopped(pc[v], call[v]) /\ target[v] = t => TargetStays(th[t], at[t], pc[v], evt[v])
    BY StoppedIsHeld DEF HasStopped
  <1> QED BY <1>1, <1>2, <1>3, <1>4, <1>6, <1>7, <1>8, <1>9, <1>10, <1>11, Typed, CallStep

LEMMA ThreadSuspendStep ==
    ASSUME ThreadInv, NEW t \in Threads, NEW u \in Threads, ThreadSuspend(t, u)
    PROVE  ThreadInv'
  <1> DEFINE k == th[u]
             c == k.user_stop_count + 1
             stop == [k EXCEPT !.user_stop_count = c]
             first == k.user_stop_count = 0
             n == IF first THEN Held(stop) ELSE stop
             l == IF first /\ u # t THEN "dowait" ELSE "suspended"
  <1>1. pc[t] = "kernel" /\ at[t] = "cpu" /\ work' \in [Threads -> 0..MaxWork]
    BY WorkType DEF ThreadSuspend, InCall, On
  <1>2. UNCHANGED <<at, evt, softclock, stops, unheld_halt, panicked>>
    BY DEF ThreadSuspend
  <1>3. l \in PCs /\ l \notin BlockPCs /\ (l = "dowait" => u # t) /\ l \in {"dowait", "suspended"}
    BY DEF PCs, BlockPCs
  <1>4. Changes(u, n, at[u])
    <2>1. th' = [th EXCEPT ![u] = n]
      BY DEF ThreadSuspend
    <2> QED BY <1>2, <2>1 DEF Changes, ThreadInv, TypeOK
  <1>5. Goto(t, l) /\ Begin(t, "suspend", u)
    BY DEF ThreadSuspend
  <1> HIDE DEF l
  <1>6. OnlyMove({t}) /\ pc'[t] = l /\ call'[t] = "suspend" /\ target'[t] = u
        /\ pc' \in [Threads -> PCs] /\ call' \in [Threads -> {"none", "suspend", "abort"}]
        /\ target' \in [Threads -> Threads \cup {NoThread}]
    BY <1>2, <1>3, <1>5, Begins
  <1>7. k \in ThreadStates /\ k.user_stop_count < MaxStops /\ WaitAgrees(k)
    BY Typed DEF ThreadSuspend
  <1>8. c \in 0..MaxStops /\ c > 0
    BY <1>7, Fields, ThreadAssumption
  <1> HIDE DEF c
  <1>9. /\ stop \in ThreadStates /\ stop.user_stop_count = c
        /\ stop.suspend_count = k.suspend_count /\ stop.state = k.state
        /\ stop.wait_event = k.wait_event /\ stop.timer = k.timer
        /\ stop.wake_active = k.wake_active /\ stop.ast_halt = k.ast_halt
    BY <1>7, <1>8 DEF ThreadStates
  <1> HIDE DEF stop
  <1>10. /\ WaitAgrees(stop)
         /\ \A p : ThreadAgrees(k, at[u], p) => ThreadAgrees(stop, at[u], p)
         /\ \A p, e : TargetStays(k, at[u], p, e) => TargetStays(stop, at[u], p, e)
    BY <1>7, <1>9 DEF WaitAgrees, ThreadAgrees, TargetStays
  <1>11. first => k.suspend_count < MaxHolds
    <2> DEFINE h == Cardinality(HoldingCalls(u))
               m == Cardinality(Threads)
    <2>1. h \in Nat /\ h <= m /\ m \in Nat
      BY HoldsAre, FS_CardinalityType, ThreadAssumption
    <2>2. k.suspend_count = h + (IF k.user_stop_count > 0 THEN 1 ELSE 0)
      BY HoldsAre
    <2>3. MaxHolds = m + 1
      BY HoldsType
    <2> HIDE DEF h, m
    <2> QED BY <2>1, <2>2, <2>3
  <1>12. /\ n \in ThreadStates /\ n.user_stop_count = c
         /\ n.suspend_count = k.suspend_count + (IF first THEN 1 ELSE 0)
         /\ n.ast_halt = k.ast_halt /\ ("HALTED" \in n.state <=> "HALTED" \in k.state)
         /\ WaitAgrees(n)
         /\ \A p : ThreadAgrees(k, at[u], p) => ThreadAgrees(n, at[u], p)
         /\ \A p, e : TargetStays(k, at[u], p, e) => TargetStays(n, at[u], p, e)
    <2>1. CASE first
      <3>1. stop.suspend_count < MaxHolds
        BY <1>9, <1>11, <2>1
      <3>2. /\ Held(stop) \in ThreadStates /\ SameBits(stop, Held(stop), {"SUSP"})
            /\ Held(stop).suspend_count = stop.suspend_count + 1
            /\ Held(stop).user_stop_count = stop.user_stop_count
            /\ Held(stop).ast_halt = stop.ast_halt
        BY <1>9, <3>1, HeldIs
      <3>3. "HALTED" \in Held(stop).state <=> "HALTED" \in stop.state
        BY <3>2 DEF SameBits, Bits
      <3> QED BY <1>9, <1>10, <2>1, <3>1, <3>2, <3>3, HeldAgrees
    <2>2. CASE ~first
      <3>1. k.suspend_count + 0 = k.suspend_count
        BY <1>7, Fields, HoldsType
      <3> QED BY <1>9, <1>10, <2>2, <3>1
    <2> QED BY <2>1, <2>2
  <1> HIDE DEF n
  <1>13. th'[u] = n /\ \A x \in Threads \ {u} : th'[x] = th[x]
    BY <1>4 DEF Changes, ThreadInv, TypeOK
  <1>14. call[t] # "abort" /\ ~Asks(pc[t], call[t])
    BY <1>1, IdleCall DEF Elsewhere
  <1>15. HoldsCounted'
    <2>1. \A x \in Threads : HoldingCalls(x)' = HoldingCalls(x)
      BY <1>6, <1>14, HoldsSame
    <2>2. Cardinality(HoldingCalls(u)) \in Nat
          /\ k.suspend_count = Cardinality(HoldingCalls(u)) + (IF first THEN 0 ELSE 1)
      BY HoldsAre, <1>7, Fields
    <2>3. n.suspend_count = Cardinality(HoldingCalls(u)) + (IF n.user_stop_count > 0 THEN 1 ELSE 0)
      BY <1>8, <1>12, <2>2
    <2> QED BY <1>13, <2>1, <2>3, HoldsAre DEF HoldsCounted
  <1>16. OneRequest'
    <2>1. ~Asks(pc'[t], call'[t])
      BY <1>6 DEF Asks
    <2> QED BY <1>2, <1>6, <1>12, <1>13, <1>14, <2>1, RequestsStay DEF ThreadInv
  <1>17. TypeOK'
    <2>1. th' \in [Threads -> ThreadStates]
      BY <1>4, <1>12 DEF Changes, ThreadInv, TypeOK
    <2> QED BY <1>1, <1>2, <1>6, <2>1 DEF ThreadInv, TypeOK
  <1>18. CallAgrees(t, pc'[t], call'[t], target'[t]) /\ ~HasStopped(pc'[t], call'[t])
    BY <1>3, <1>6 DEF CallAgrees, HasStopped, DowaitPCs, AbortPCs, StoppedPCs
  <1>19. pc[t] \notin BlockPCs /\ pc[t] # "halted"
    BY <1>1 DEF BlockPCs
  <1>20. ~unheld_halt => \A v \in Threads \ {t} :
            HasStopped(pc[v], call[v]) /\ target[v] = u => TargetStays(n, at[u], pc[v], evt[v])
    BY <1>12, StoppedIsHeld DEF HasStopped
  <1> QED BY <1>1, <1>2, <1>4, <1>6, <1>12, <1>15, <1>16, <1>17, <1>18, <1>19, <1>20, CallStep

LEMMA RequestsReleased ==
    ASSUME ThreadInv, NEW t \in Threads, NEW u \in Threads, OnlyMove({t}), UNCHANGED unheld_halt,
           ~Asks(pc[t], call[t]), ~Asks(pc'[t], call'[t]),
           \A x \in Threads \ {u} : th'[x] = th[x],
           th'[u].ast_halt = th[u].ast_halt,
           "HALTED" \in th'[u].state => "HALTED" \in th[u].state,
           \A v \in HoldingCalls(u) \ {t} : th'[u].state = th[u].state
    PROVE  OneRequest'
  <1>1. \A v, x \in Threads : Requests(v, x)' <=> Requests(v, x)
    BY DEF OnlyMove, Requests, Asks
  <1>2. \A v \in Threads : Requests(v, u) => th'[u].state = th[u].state
    BY DEF Requests, Asks, HoldingCalls
  <1>3. OneRequest
    BY DEF ThreadInv
  <1>4. ASSUME NEW x \in Threads, NEW v \in Threads, Requests(v, x), "HALTED" \notin th'[x].state
        PROVE  th'[x].ast_halt /\ \A w \in Threads : Requests(w, x) => w = v
    <2>1. CASE x = u
      BY <1>2, <1>3, <1>4, <2>1 DEF OneRequest
    <2>2. CASE x # u
      BY <1>3, <1>4, <2>2 DEF OneRequest
    <2> QED BY <2>1, <2>2
  <1> QED BY <1>1, <1>4 DEF OneRequest

\* What thread_release leaves of a thread u whose count is that of k.
LEMMA ReleasedHold ==
    ASSUME ThreadInv, NEW t \in Threads, NEW u \in Threads, NEW k \in ThreadStates,
           k.state = th[u].state, k.suspend_count = th[u].suspend_count, k.suspend_count > 0,
           k.wait_event = th[u].wait_event, k.timer = th[u].timer, k.ast_halt = th[u].ast_halt,
           \A v \in HoldingCalls(u) \ {t} : k.suspend_count > 1
    PROVE  LET n == Released(k)
               b == IF OnlySuspended(k) THEN "runq" ELSE at[u]
           IN /\ n \in ThreadStates /\ WaitAgrees(n) /\ b \in Places
              /\ n.suspend_count = k.suspend_count - 1 /\ n.user_stop_count = k.user_stop_count
              /\ n.ast_halt = k.ast_halt
              /\ "HALTED" \in n.state => "HALTED" \in k.state
              /\ \A v \in HoldingCalls(u) \ {t} : n.state = k.state
              /\ \A p : ThreadAgrees(th[u], at[u], p) => ThreadAgrees(n, b, p)
              /\ ~unheld_halt => \A v \in Threads \ {t} :
                    HasStopped(pc[v], call[v]) /\ target[v] = u => TargetStays(n, b, pc[v], evt[v])
  <1> DEFINE n == Released(k)
             b == IF OnlySuspended(k) THEN "runq" ELSE at[u]
  <1>1. WaitAgrees(k) /\ (\A p : ThreadAgrees(th[u], at[u], p) => ThreadAgrees(k, at[u], p))
        /\ (\A p, e : TargetStays(th[u], at[u], p, e) => TargetStays(k, at[u], p, e))
    BY Typed DEF WaitAgrees, ThreadAgrees, TargetStays
  <1>2. /\ n \in ThreadStates
        /\ n.suspend_count = k.suspend_count - 1 /\ n.user_stop_count = k.user_stop_count
        /\ k.suspend_count # 1 => n.state = k.state
        /\ k.suspend_count = 1 => "HALTED" \notin n.state
        /\ n.wait_event = k.wait_event /\ n.ast_halt = k.ast_halt
    BY ReleasedIs
  <1>3. /\ WaitAgrees(n)
        /\ \A p : ThreadAgrees(k, at[u], p) => ThreadAgrees(n, b, p)
        /\ k.suspend_count > 1 => n.state = k.state /\ b = at[u]
    BY <1>1, ReleasedAgrees
  <1>4. b \in Places
    BY Typed DEF Places
  <1> HIDE DEF n, b
  <1>5. ASSUME ~unheld_halt, NEW v \in Threads \ {t}, HasStopped(pc[v], call[v]), target[v] = u
        PROVE  TargetStays(n, b, pc[v], evt[v])
    <2>1. v \in HoldingCalls(u) \ {t} /\ TargetStays(th[u], at[u], pc[v], evt[v])
      BY <1>5, StoppedIsHeld DEF HasStopped
    <2>2. n.state = k.state /\ b = at[u] /\ n.wait_event = k.wait_event
      BY <1>2, <1>3, <2>1
    <2> QED BY <2>1, <2>2 DEF TargetStays
  <1>6. "HALTED" \in n.state => "HALTED" \in k.state
    BY <1>2
  <1>7. \A v \in HoldingCalls(u) \ {t} : n.state = k.state
    BY <1>3
  <1> QED BY <1>1, <1>2, <1>3, <1>4, <1>5, <1>6, <1>7 DEF n, b

LEMMA AbortReleaseStep ==
    ASSUME ThreadInv, NEW t \in Threads, AbortRelease(t)
    PROVE  ThreadInv'
  <1>1. pc[t] = "release" /\ at[t] = "cpu"
        /\ UNCHANGED <<evt, work, softclock, stops, unheld_halt, panicked>>
    BY DEF AbortRelease, On
  <1>2. call[t] = "abort"
    BY <1>1, Typed DEF CallAgrees, AbortPCs
  <1>3. PICK u \in Threads : u = target[t]
    BY <1>2, StoppedIsHeld
  <1> DEFINE k == th[u]
             n == Released(k)
             b == IF OnlySuspended(k) THEN "runq" ELSE at[u]
             h == HoldingCalls(u)
  <1>4. t \in h /\ k.suspend_count > 0 /\ k \in ThreadStates
    BY <1>2, <1>3, StoppedIsHeld, Typed
  <1>5. Changes(u, n, b)
    BY <1>3 DEF Changes, AbortRelease, Requeue, ThreadInv, TypeOK
  <1>6. OnlyMove({t}) /\ pc'[t] = "kernel" /\ call'[t] = "none" /\ target'[t] = NoThread
        /\ pc' \in [Threads -> PCs] /\ call' \in [Threads -> {"none", "suspend", "abort"}]
        /\ target' \in [Threads -> Threads \cup {NoThread}]
    BY <1>1, PCNames, Begins DEF AbortRelease, EndCall
  <1>7. \A v \in h \ {t} : k.suspend_count > 1
    BY <1>4, TwoHolds
  <1>8. /\ n \in ThreadStates /\ WaitAgrees(n) /\ b \in Places
        /\ n.suspend_count = k.suspend_count - 1 /\ n.user_stop_count = k.user_stop_count
        /\ n.ast_halt = k.ast_halt
        /\ "HALTED" \in n.state => "HALTED" \in k.state
        /\ \A v \in h \ {t} : n.state = k.state
        /\ \A p : ThreadAgrees(k, at[u], p) => ThreadAgrees(n, b, p)
        /\ ~unheld_halt => \A v \in Threads \ {t} :
              HasStopped(pc[v], call[v]) /\ target[v] = u => TargetStays(n, b, pc[v], evt[v])
    BY <1>4, <1>7, ReleasedHold
  <1> HIDE DEF n, b
  <1>9. th'[u] = n /\ \A x \in Threads \ {u} : th'[x] = th[x]
    BY <1>5 DEF Changes, ThreadInv, TypeOK
  <1>10. HoldsCounted'
    <2>1. h' = h \ {t} /\ \A x \in Threads \ {u} : HoldingCalls(x)' = HoldingCalls(x)
      BY <1>3, <1>6 DEF HoldingCalls, OnlyMove
    <2>2. Cardinality(h') = Cardinality(h) - 1 /\ Cardinality(h) \in Nat
          /\ k.suspend_count = Cardinality(h) + (IF k.user_stop_count > 0 THEN 1 ELSE 0)
      BY <1>4, <2>1, HoldsAre
    <2> DEFINE c == Cardinality(h)
               d == Cardinality(h')
    <2>3. n.suspend_count = d + (IF n.user_stop_count > 0 THEN 1 ELSE 0)
      <3> HIDE DEF c, d
      <3>1. d = c - 1 /\ c \in Nat
            /\ k.suspend_count = c + (IF k.user_stop_count > 0 THEN 1 ELSE 0)
        BY <2>2 DEF c, d
      <3> QED BY <1>8, <3>1
    <2> QED BY <1>9, <2>1, <2>3, HoldsAre DEF HoldsCounted
  <1>11. ~Asks(pc[t], call[t]) /\ ~Asks(pc'[t], call'[t])
    BY <1>1, <1>6 DEF Asks, RequestPCs, DowaitPCs, StoppedPCs
  <1>12. OneRequest'
    BY <1>1, <1>6, <1>8, <1>9, <1>11, RequestsReleased
  <1>13. TypeOK'
    <2>1. th' \in [Threads -> ThreadStates] /\ at' \in [Threads -> {"cpu", "runq", "switch", "off"}]
      BY <1>5, <1>8 DEF Changes, Places, ThreadInv, TypeOK
    <2> QED BY <1>1, <1>6, <2>1 DEF ThreadInv, TypeOK
  <1>14. CallAgrees(t, pc'[t], call'[t], target'[t]) /\ ~HasStopped(pc'[t], call'[t])
    BY <1>6 DEF CallAgrees, HasStopped, DowaitPCs, AbortPCs, StoppedPCs
  <1>15. pc[t] \notin BlockPCs /\ pc[t] # "halted"
    BY <1>1 DEF BlockPCs
  <1> QED BY <1>1, <1>5, <1>6, <1>8, <1>10, <1>12, <1>13, <1>14, <1>15, CallStep

LEMMA ThreadResumeStep ==
    ASSUME ThreadInv, NEW t \in Threads, NEW u \in Threads, ThreadResume(t, u)
    PROVE  ThreadInv'
  <1> DEFINE c == th[u].user_stop_count - 1
             last == th[u].user_stop_count = 1
             k == [th[u] EXCEPT !.user_stop_count = c]
             n == IF last THEN Released(k) ELSE k
             b == IF last /\ OnlySuspended(k) THEN "runq" ELSE at[u]
             h == HoldingCalls(u)
  <1>1. pc[t] = "kernel" /\ at[t] = "cpu" /\ work' \in [Threads -> 0..MaxWork]
        /\ th[u].user_stop_count > 0
    BY WorkType DEF ThreadResume, InCall, On
  <1>2. UNCHANGED <<pc, call, target, evt, softclock, stops, unheld_halt, panicked>>
    BY DEF ThreadResume
  <1>3. Changes(u, n, b)
    BY DEF Changes, ThreadResume, Requeue, ThreadInv, TypeOK
  <1>4. th[u] \in ThreadStates /\ c \in 0..MaxStops /\ (last <=> c = 0) /\ WaitAgrees(th[u])
    <2>1. th[u].user_stop_count \in 0..MaxStops
      BY Typed, Fields
    <2> QED BY <1>1, <2>1, Typed, ThreadAssumption
  <1> HIDE DEF c
  <1>5. /\ k \in ThreadStates /\ k.user_stop_count = c
        /\ k.suspend_count = th[u].suspend_count /\ k.state = th[u].state
        /\ k.wait_event = th[u].wait_event /\ k.timer = th[u].timer
        /\ k.wake_active = th[u].wake_active /\ k.ast_halt = th[u].ast_halt
    BY <1>4 DEF ThreadStates
  <1> HIDE DEF k
  <1>6. Cardinality(h) \in Nat /\ k.suspend_count = Cardinality(h) + 1 /\ k.suspend_count > 0
    <2> DEFINE d == Cardinality(h)
    <2>1. d \in Nat /\ th[u].suspend_count = d + (IF th[u].user_stop_count > 0 THEN 1 ELSE 0)
      BY HoldsAre
    <2> HIDE DEF d
    <2>2. k.suspend_count = d + 1 /\ k.suspend_count > 0
      BY <1>1, <1>5, <2>1
    <2> QED BY <2>1, <2>2 DEF d
  <1>7. \A v \in h \ {t} : k.suspend_count > 1
    BY <1>1, <1>5, TwoHolds
  <1>8. /\ n \in ThreadStates /\ WaitAgrees(n) /\ b \in Places
        /\ n.suspend_count = k.suspend_count - (IF last THEN 1 ELSE 0)
        /\ n.user_stop_count = k.user_stop_count
        /\ n.ast_halt = th[u].ast_halt
        /\ "HALTED" \in n.state => "HALTED" \in th[u].state
        /\ \A v \in h \ {t} : n.state = th[u].state
        /\ \A p : ThreadAgrees(th[u], at[u], p) => ThreadAgrees(n, b, p)
        /\ ~unheld_halt => \A v \in Threads \ {t} :
              HasStopped(pc[v], call[v]) /\ target[v] = u => TargetStays(n, b, pc[v], evt[v])
    <2>1. CASE last
      <3>1. n = Released(k) /\ b = IF OnlySuspended(k) THEN "runq" ELSE at[u]
        BY <2>1
      <3> HIDE DEF n, b
      <3>2. /\ n \in ThreadStates /\ WaitAgrees(n) /\ b \in Places
            /\ n.suspend_count = k.suspend_count - 1 /\ n.user_stop_count = k.user_stop_count
            /\ n.ast_halt = k.ast_halt
            /\ "HALTED" \in n.state => "HALTED" \in k.state
            /\ \A v \in h \ {t} : n.state = k.state
            /\ \A p : ThreadAgrees(th[u], at[u], p) => ThreadAgrees(n, b, p)
            /\ ~unheld_halt => \A v \in Threads \ {t} :
                  HasStopped(pc[v], call[v]) /\ target[v] = u => TargetStays(n, b, pc[v], evt[v])
        BY <1>5, <1>6, <1>7, <3>1, ReleasedHold
      <3> QED BY <1>5, <2>1, <3>2
    <2>2. CASE ~last
      <3>1. n = k /\ b = at[u]
        BY <2>2
      <3>2. /\ WaitAgrees(k)
            /\ \A p : ThreadAgrees(th[u], at[u], p) => ThreadAgrees(k, at[u], p)
            /\ \A p, e : TargetStays(th[u], at[u], p, e) => TargetStays(k, at[u], p, e)
        BY <1>4, <1>5 DEF WaitAgrees, ThreadAgrees, TargetStays
      <3>3. ~unheld_halt => \A v \in Threads \ {t} :
               HasStopped(pc[v], call[v]) /\ target[v] = u => TargetStays(k, at[u], pc[v], evt[v])
        BY <3>2, StoppedIsHeld DEF HasStopped
      <3>4. k.suspend_count - 0 = k.suspend_count
        BY <1>6
      <3> QED BY <1>5, <2>2, <3>1, <3>2, <3>3, <3>4, Typed
    <2> QED BY <2>1, <2>2
  <1> HIDE DEF n, b
  <1>9. th'[u] = n /\ \A x \in Threads \ {u} : th'[x] = th[x]
    BY <1>3 DEF Changes, ThreadInv, TypeOK
  <1>10. HoldsCounted'
    <2>1. \A x \in Threads : HoldingCalls(x)' = HoldingCalls(x)
      BY <1>2 DEF HoldingCalls
    <2> DEFINE d == Cardinality(h)
    <2>2. n.suspend_count = d + (IF n.user_stop_count > 0 THEN 1 ELSE 0)
      <3>1. d \in Nat /\ k.suspend_count = d + 1
        BY <1>6
      <3> HIDE DEF d
      <3> QED BY <1>4, <1>5, <1>8, <3>1
    <2> QED BY <1>9, <2>1, <2>2, HoldsAre DEF HoldsCounted
  <1>11. OnlyMove({t})
    BY <1>2 DEF OnlyMove
  <1>12. call[t] # "abort" /\ ~Asks(pc[t], call[t])
    BY <1>1, IdleCall DEF Elsewhere
  <1>13. OneRequest'
    BY <1>2, <1>8, <1>9, <1>11, <1>12, RequestsReleased
  <1>14. TypeOK'
    <2>1. th' \in [Threads -> ThreadStates] /\ at' \in [Threads -> {"cpu", "runq", "switch", "off"}]
      BY <1>3, <1>8 DEF Changes, Places, ThreadInv, TypeOK
    <2> QED BY <1>1, <1>2, <2>1 DEF ThreadInv, TypeOK
  <1>15. CallAgrees(t, pc'[t], call'[t], target'[t]) /\ ~HasStopped(pc'[t], call'[t])
    BY <1>2, <1>12, Typed DEF HasStopped
  <1>16. pc[t] \notin BlockPCs /\ pc[t] # "halted"
    BY <1>1 DEF BlockPCs
  <1> QED BY <1>1, <1>2, <1>3, <1>8, <1>10, <1>11, <1>13, <1>14, <1>15, <1>16, CallStep

\* t, which is on a processor and does not halt, asserts a wait for u to stop.
LEMMA SleeperIs ==
    ASSUME ThreadInv, NEW t \in Threads, NEW u \in Threads,
           at[t] = "cpu", pc[t] \notin BlockPCs, pc[t] # "halted"
    PROVE  LET n == AssertWait(th[t], u, TRUE)
           IN /\ n \in ThreadStates /\ WaitAgrees(n)
              /\ n.suspend_count = th[t].suspend_count
              /\ n.user_stop_count = th[t].user_stop_count
              /\ n.ast_halt = th[t].ast_halt
              /\ "HALTED" \in n.state <=> "HALTED" \in th[t].state
              /\ ~unheld_halt => \A l \in BlockPCs : ThreadAgrees(n, "cpu", l)
  <1> DEFINE n == AssertWait(th[t], u, TRUE)
  <1>1. n \in ThreadStates /\ SameHolds(th[t], n) /\ SameBits(th[t], n, {"WAIT", "UNINT"})
        /\ "WAIT" \in n.state /\ n.wait_event = u /\ n.timer = th[t].timer
    BY EventsAre, Typed, AssertWaitIs
  <1>2. n.suspend_count = th[t].suspend_count /\ n.user_stop_count = th[t].user_stop_count
        /\ n.ast_halt = th[t].ast_halt
        /\ \A x \in {"SUSP", "RUN", "HALTED"} : x \in n.state <=> x \in th[t].state
    BY <1>1 DEF SameHolds, SameBits, Bits
  <1> HIDE DEF n
  <1>3. WaitAgrees(n)
    BY <1>1, EventsAre DEF WaitAgrees
  <1>4. ASSUME ~unheld_halt, NEW l \in BlockPCs
        PROVE  ThreadAgrees(n, "cpu", l)
    <2>1. "HALTED" \notin th[t].state /\ ThreadAgrees(th[t], "cpu", pc[t])
      BY <1>4, Typed, OnCpu
    <2> QED BY <1>2, <2>1 DEF ThreadAgrees
  <1>5. "HALTED" \in n.state <=> "HALTED" \in th[t].state
    BY <1>2
  <1> QED BY <1>1, <1>2, <1>3, <1>4, <1>5 DEF n

\* ... and u, with structure n, will announce that it stops.
LEMMA SleepStep ==
    ASSUME ThreadInv, TypeOK', HoldsCounted', OneRequest', NEW t \in Threads, OnlyMove({t}),
           at[t] = "cpu", pc[t] \notin BlockPCs, pc[t] # "halted", pc'[t] \in BlockPCs,
           CallAgrees(t, pc'[t], call'[t], target'[t]), ~HasStopped(pc'[t], call'[t]),
           UNCHANGED <<at, unheld_halt, panicked>>,
           NEW u \in Threads \ {t}, NEW n,
           th' = [th EXCEPT ![u] = n, ![t] = AssertWait(th[t], u, TRUE)], WaitAgrees(n),
           \A p : ThreadAgrees(th[u], at[u], p) => ThreadAgrees(n, at[u], p),
           \A p, e : TargetStays(th[u], at[u], p, e) => TargetStays(n, at[u], p, e)
    PROVE  ThreadInv'
  <1> DEFINE m == AssertWait(th[t], u, TRUE)
  <1>1. WaitAgrees(m) /\ (~unheld_halt => \A l \in BlockPCs : ThreadAgrees(m, "cpu", l))
    BY SleeperIs
  <1> HIDE DEF m
  <1>2. th'[u] = n /\ th'[t] = m /\ \A x \in Threads \ {u, t} : th'[x] = th[x]
    BY DEF ThreadInv, TypeOK, m
  <1>3. CallsAgree'
    BY CallsStay DEF ThreadInv
  <1>4. \A x \in Threads : WaitAgrees(th'[x])
    BY <1>1, <1>2, Typed
  <1>5. ASSUME ~unheld_halt, NEW x \in Threads
        PROVE  ThreadAgrees(th'[x], at'[x], pc'[x])
    <2>1. CASE x = t
      BY <1>1, <1>2, <1>5, <2>1
    <2>2. CASE x # t
      <3>1. pc'[x] = pc[x] /\ at'[x] = at[x] /\ ThreadAgrees(th[x], at[x], pc[x])
        BY <1>5, <2>2, Typed DEF OnlyMove
      <3> QED BY <1>2, <2>2, <3>1
    <2> QED BY <2>1, <2>2
  <1>6. ~unheld_halt => TargetsStopped'
    <2> SUFFICES ASSUME ~unheld_halt PROVE TargetsStopped'
      OBVIOUS
    <2>1. ASSUME NEW v \in Threads \ {t}, HasStopped(pc[v], call[v])
          PROVE  TargetStays(th'[target[v]], at'[target[v]], pc[v], evt[v])
      <3>1. target[v] \in Threads /\ TargetStays(th[target[v]], at[target[v]], pc[v], evt[v])
            /\ at[target[v]] = "off"
        BY <2>1, StoppedIsHeld DEF HasStopped
      <3>2. \A x \in Threads \ {u, t} : th'[x] = th[x] /\ at'[x] = at[x]
        BY <1>2
      <3>3. CASE target[v] = u
        BY <1>2, <3>1, <3>3
      <3>4. CASE target[v] # u
        BY <3>1, <3>2, <3>4
      <3> QED BY <3>3, <3>4
    <2>2. \A v \in {t} : HasStopped(pc'[v], call'[v])
             => TargetStays(th'[target'[v]], at'[target'[v]], pc'[v], evt'[v])
      OBVIOUS
    <2> QED BY <2>1, <2>2, TargetsStay
  <1> QED BY <1>3, <1>4, <1>5, <1>6, Typed DEF ThreadInv

LEMMA WakeActive ==
    ASSUME NEW k \in ThreadStates, NEW w \in BOOLEAN
    PROVE  LET n == [k EXCEPT !.wake_active = w]
           IN /\ n \in ThreadStates /\ n.state = k.state
              /\ n.suspend_count = k.suspend_count /\ n.user_stop_count = k.user_stop_count
              /\ n.ast_halt = k.ast_halt
              /\ WaitAgrees(k) => WaitAgrees(n)
              /\ \A a, p : ThreadAgrees(k, a, p) => ThreadAgrees(n, a, p)
              /\ \A a, p, e : TargetStays(k, a, p, e) => TargetStays(n, a, p, e)
  <1> DEFINE n == [k EXCEPT !.wake_active = w]
  <1>1. n \in ThreadStates
    BY DEF ThreadStates
  <1>2. n.state = k.state /\ n.suspend_count = k.suspend_count
        /\ n.user_stop_count = k.user_stop_count /\ n.ast_halt = k.ast_halt
        /\ n.wait_event = k.wait_event /\ n.timer = k.timer
    BY DEF ThreadStates
  <1> HIDE DEF n
  <1> QED BY <1>1, <1>2 DEF WaitAgrees, ThreadAgrees, TargetStays, n

LEMMA AstHaltIs ==
    ASSUME NEW k \in ThreadStates, NEW w \in BOOLEAN
    PROVE  LET n == [k EXCEPT !.ast_halt = w]
           IN /\ n \in ThreadStates /\ n.state = k.state
              /\ n.suspend_count = k.suspend_count /\ n.user_stop_count = k.user_stop_count
              /\ n.ast_halt = w
              /\ WaitAgrees(k) => WaitAgrees(n)
              /\ \A a, p : ThreadAgrees(k, a, p) => ThreadAgrees(n, a, p)
              /\ \A a, p, e : TargetStays(k, a, p, e) => TargetStays(n, a, p, e)
  <1> DEFINE n == [k EXCEPT !.ast_halt = w]
  <1>1. n \in ThreadStates
    BY DEF ThreadStates
  <1>2. n.state = k.state /\ n.suspend_count = k.suspend_count
        /\ n.user_stop_count = k.user_stop_count /\ n.ast_halt = w
        /\ n.wait_event = k.wait_event /\ n.timer = k.timer
    BY DEF ThreadStates
  <1> HIDE DEF n
  <1> QED BY <1>1, <1>2 DEF WaitAgrees, ThreadAgrees, TargetStays, n

\* t is now in thread_abort of u, if it was not before.
AbortsNow(t, u) ==
    /\ call'[t] = "abort" /\ target'[t] = u
    /\ call[t] = "abort" => target[t] = u
    /\ call' \in [Threads -> {"none", "suspend", "abort"}]
    /\ target' \in [Threads -> Threads \cup {NoThread}]
    /\ \A v \in Threads \ {t} : call'[v] = call[v] /\ target'[v] = target[v]

LEMMA AbortsHolds ==
    ASSUME ThreadInv, NEW t \in Threads, NEW u \in Threads, AbortsNow(t, u)
    PROVE  /\ HoldingCalls(u)' = HoldingCalls(u) \cup {t}
           /\ \A x \in Threads \ {u} : HoldingCalls(x)' = HoldingCalls(x)
  BY DEF AbortsNow, HoldingCalls

LEMMA HaltRoundStep ==
    ASSUME ThreadInv, NEW t \in Threads, NEW u \in Threads \ {t}, NEW k \in ThreadStates,
           at[t] = "cpu", pc[t] \in {"kernel", "halt_again"}, HaltRound(t, u, k),
           "HALTED" \in k.state <=> "HALTED" \in th[u].state,
           k.ast_halt = th[u].ast_halt, WaitAgrees(k),
           \A p : ThreadAgrees(th[u], at[u], p) => ThreadAgrees(k, at[u], p),
           \A p, e : TargetStays(th[u], at[u], p, e) => TargetStays(k, at[u], p, e),
           k.suspend_count = Cardinality(HoldingCalls(u) \cup {t}) +
                             (IF k.user_stop_count > 0 THEN 1 ELSE 0),
           AbortsNow(t, u), work' \in [Threads -> 0..MaxWork],
           UNCHANGED <<at, evt, softclock, stops, unheld_halt, panicked>>
    PROVE  ThreadInv'
  <1>1. pc[t] \notin BlockPCs /\ pc[t] # "halted" /\ ~Asks(pc[t], call[t])
    BY DEF BlockPCs, Asks, RequestPCs, DowaitPCs, StoppedPCs
  <1>2. call'[t] = "abort" /\ target'[t] = u
        /\ call' \in [Threads -> {"none", "suspend", "abort"}]
        /\ target' \in [Threads -> Threads \cup {NoThread}]
        /\ \A v \in Threads \ {t} : call'[v] = call[v] /\ target'[v] = target[v]
    BY DEF AbortsNow
  <1>3. HoldingCalls(u)' = HoldingCalls(u) \cup {t}
        /\ \A x \in Threads \ {u} : HoldingCalls(x)' = HoldingCalls(x)
    BY AbortsHolds
  <1>4. ASSUME NEW l \in PCs, Goto(t, l)
        PROVE  OnlyMove({t}) /\ pc' \in [Threads -> PCs] /\ pc'[t] = l
    BY <1>2, <1>4 DEF Goto, OnlyMove, ThreadInv, TypeOK
  <1>5. CASE k.ast_halt /\ "HALTED" \notin k.state
    <2> DEFINE n == [k EXCEPT !.wake_active = TRUE]
               m == AssertWait(th[t], u, TRUE)
    <2>1. th' = [th EXCEPT ![u] = n, ![t] = m] /\ Goto(t, "halt_block")
      BY <1>5 DEF HaltRound
    <2>2. OnlyMove({t}) /\ pc' \in [Threads -> PCs] /\ pc'[t] = "halt_block"
      BY <1>4, <2>1 DEF PCs
    <2>3. /\ n \in ThreadStates /\ n.state = k.state
          /\ n.suspend_count = k.suspend_count /\ n.user_stop_count = k.user_stop_count
          /\ n.ast_halt = k.ast_halt /\ WaitAgrees(n)
          /\ \A p : ThreadAgrees(th[u], at[u], p) => ThreadAgrees(n, at[u], p)
          /\ \A p, e : TargetStays(th[u], at[u], p, e) => TargetStays(n, at[u], p, e)
      BY WakeActive
    <2>4. /\ m \in ThreadStates /\ m.suspend_count = th[t].suspend_count
          /\ m.user_stop_count = th[t].user_stop_count
          /\ m.ast_halt = th[t].ast_halt /\ ("HALTED" \in m.state <=> "HALTED" \in th[t].state)
      BY <1>1, SleeperIs
    <2> HIDE DEF n, m
    <2>5. th'[u] = n /\ th'[t] = m /\ \A x \in Threads \ {u, t} : th'[x] = th[x]
      BY <2>1 DEF ThreadInv, TypeOK
    <2>6. TypeOK'
      <3>1. th' \in [Threads -> ThreadStates]
        BY <2>1, <2>3, <2>4 DEF ThreadInv, TypeOK
      <3> QED BY <1>2, <2>2, <3>1 DEF ThreadInv, TypeOK
    <2>7. HoldsCounted'
      <3>1. ASSUME NEW x \in Threads
            PROVE  th'[x].suspend_count = Cardinality(HoldingCalls(x)') +
                                          (IF th'[x].user_stop_count > 0 THEN 1 ELSE 0)
        <4>1. CASE x = u
          BY <1>3, <2>3, <2>5, <4>1
        <4>2. CASE x # u
          <5>1. th'[x].suspend_count = th[x].suspend_count
                /\ th'[x].user_stop_count = th[x].user_stop_count
            BY <2>4, <2>5, <4>2
          <5> QED BY <1>3, <4>2, <5>1, HoldsAre
        <4> QED BY <4>1, <4>2
      <3> QED BY <3>1 DEF HoldsCounted
    <2>8. OneRequest'
      <3>1. ~Asks(pc'[t], call'[t])
        BY <2>2 DEF Asks, RequestPCs, DowaitPCs, StoppedPCs
      <3>2. \A x \in Threads : /\ th'[x].ast_halt = th[x].ast_halt
                               /\ "HALTED" \in th'[x].state <=> "HALTED" \in th[x].state
        BY <2>3, <2>4, <2>5
      <3> QED BY <1>1, <2>2, <3>1, <3>2, RequestsStay DEF ThreadInv
    <2>9. CallAgrees(t, pc'[t], call'[t], target'[t]) /\ ~HasStopped(pc'[t], call'[t])
          /\ pc'[t] \in BlockPCs
      BY <1>2, <2>2 DEF CallAgrees, HasStopped, DowaitPCs, AbortPCs, StoppedPCs, BlockPCs
    <2>10. th' = [th EXCEPT ![u] = n, ![t] = AssertWait(th[t], u, TRUE)]
      BY <2>1 DEF m
    <2> QED BY <1>1, <2>2, <2>3, <2>6, <2>7, <2>8, <2>9, <2>10, SleepStep
  <1>6. CASE ~(k.ast_halt /\ "HALTED" \notin k.state)
    <2> DEFINE n == [k EXCEPT !.ast_halt = TRUE]
    <2>1. th' = [th EXCEPT ![u] = n] /\ Goto(t, "dowait")
      BY <1>6 DEF HaltRound
    <2>2. OnlyMove({t}) /\ pc' \in [Threads -> PCs] /\ pc'[t] = "dowait"
      BY <1>4, <2>1 DEF PCs
    <2>3. /\ n \in ThreadStates /\ n.state = k.state
          /\ n.suspend_count = k.suspend_count /\ n.user_stop_count = k.user_stop_count
          /\ n.ast_halt /\ WaitAgrees(n)
          /\ \A p : ThreadAgrees(th[u], at[u], p) => ThreadAgrees(n, at[u], p)
          /\ \A p, e : TargetStays(th[u], at[u], p, e) => TargetStays(n, at[u], p, e)
      BY AstHaltIs
    <2> HIDE DEF n
    <2>4. Changes(u, n, at[u])
      BY <2>1 DEF Changes, ThreadInv, TypeOK
    <2>5. th'[u] = n /\ \A x \in Threads \ {u} : th'[x] = th[x]
      BY <2>1 DEF ThreadInv, TypeOK
    <2>6. TypeOK'
      <3>1. th' \in [Threads -> ThreadStates]
        BY <2>1, <2>3 DEF ThreadInv, TypeOK
      <3> QED BY <1>2, <2>2, <3>1 DEF ThreadInv, TypeOK
    <2>7. HoldsCounted'
      <3>1. ASSUME NEW x \in Threads
            PROVE  th'[x].suspend_count = Cardinality(HoldingCalls(x)') +
                                          (IF th'[x].user_stop_count > 0 THEN 1 ELSE 0)
        <4>1. CASE x = u
          BY <1>3, <2>3, <2>5, <4>1
        <4>2. CASE x # u
          BY <1>3, <2>5, <4>2, HoldsAre
        <4> QED BY <4>1, <4>2
      <3> QED BY <3>1 DEF HoldsCounted
    <2>8. OneRequest'
      <3>1. "HALTED" \notin th[u].state => \A v \in Threads : ~Requests(v, u)
        BY <1>6 DEF ThreadInv, OneRequest
      <3>2. Asks("dowait", "abort")
        BY DEF Asks, RequestPCs, DowaitPCs
      <3>3. \A v \in Threads \ {t} : \A x \in Threads : Requests(v, x)' <=> Requests(v, x)
        BY <2>2 DEF Requests, Asks, OnlyMove
      <3>4. \A x \in Threads : Requests(t, x)' <=> x = u
        BY <1>2, <2>2, <3>2 DEF Requests, Asks
      <3>5. \A x \in Threads : ~Requests(t, x)
        BY <1>1 DEF Requests
      <3>6. ASSUME NEW x \in Threads, NEW v \in Threads, Requests(v, x)', "HALTED" \notin th'[x].state
            PROVE  th'[x].ast_halt /\ \A w \in Threads : Requests(w, x)' => w = v
        <4>1. CASE x = u
          <5>1. \A w \in Threads : ~Requests(w, u)
            BY <2>3, <2>5, <3>1, <3>6, <4>1
          <5> QED BY <2>3, <2>5, <3>3, <3>6, <4>1, <5>1
        <4>2. CASE x # u
          <5>1. \A w \in Threads : Requests(w, x)' <=> Requests(w, x)
            BY <3>3, <3>4, <3>5, <4>2
          <5> QED BY <2>5, <3>6, <4>2, <5>1 DEF ThreadInv, OneRequest
        <4> QED BY <4>1, <4>2
      <3> QED BY <3>6 DEF OneRequest
    <2>9. CallAgrees(t, pc'[t], call'[t], target'[t]) /\ ~HasStopped(pc'[t], call'[t])
      BY <1>2, <2>2 DEF CallAgrees, HasStopped, DowaitPCs, AbortPCs, StoppedPCs
    <2>10. ~unheld_halt => \A v \in Threads \ {t} :
              HasStopped(pc[v], call[v]) /\ target[v] = u => TargetStays(n, at[u], pc[v], evt[v])
      BY <2>3, StoppedIsHeld DEF HasStopped
    <2> QED BY <1>1, <2>2, <2>3, <2>4, <2>6, <2>7, <2>8, <2>9, <2>10, CallStep
  <1> QED BY <1>5, <1>6

\* One more thread may hold u.
LEMMA RoomForHold ==
    ASSUME ThreadInv, NEW u \in Threads, NEW t \in Threads \ HoldingCalls(u)
    PROVE  /\ th[u].suspend_count < MaxHolds
           /\ th[u].suspend_count + 1 = Cardinality(HoldingCalls(u) \cup {t}) +
                                        (IF th[u].user_stop_count > 0 THEN 1 ELSE 0)
  <1> DEFINE k == th[u]
             c == Cardinality(HoldingCalls(u))
             d == Cardinality(HoldingCalls(u) \cup {t})
             m == Cardinality(Threads)
             bit == IF k.user_stop_count > 0 THEN 1 ELSE 0
  <1>1. c \in Nat /\ d = c + 1 /\ c + 1 <= m /\ m \in Nat
    BY HoldsAre, FS_CardinalityType, ThreadAssumption
  <1>2. k.suspend_count = c + bit /\ bit \in {0, 1}
    BY HoldsAre
  <1>3. MaxHolds = m + 1
    BY HoldsType
  <1> HIDE DEF c, d, m, bit, k
  <1>4. k.suspend_count < MaxHolds /\ k.suspend_count + 1 = d + bit
    BY <1>1, <1>2, <1>3
  <1> QED BY <1>4 DEF c, d, m, bit, k

LEMMA AbortTypes ==
    ASSUME ThreadInv, NEW t \in Threads, NEW u \in Threads, Begin(t, "abort", u),
           call[t] = "abort" => target[t] = u
    PROVE  AbortsNow(t, u)
  BY DEF Begin, AbortsNow, ThreadInv, TypeOK

\* Nobody is woken.
LEMMA WokeNone ==
    ASSUME ThreadInv, NEW r, UNCHANGED <<th, at>>
    PROVE  th' = WakeAll({}, r) /\ SetRun({})
  BY DEF WakeAll, SetRun, ThreadInv, TypeOK

\* t goes on at l within its call, having woken the threads in ts.
LEMMA WakesAndGoes ==
    ASSUME ThreadInv, NEW t \in Threads, NEW l \in PCs, Goto(t, l), at[t] = "cpu",
           pc[t] \notin BlockPCs, pc[t] # "halted",
           NEW ts, NEW r \in Results, th' = WakeAll(ts, r), SetRun(ts),
           evt' \in [Threads -> AllEvents], \A v \in Threads \ {t} : evt'[v] = evt[v],
           work' \in [Threads -> 0..MaxWork], panicked' \in BOOLEAN, ~panicked => ~panicked',
           UNCHANGED <<call, target, softclock, stops, unheld_halt>>,
           CallAgrees(t, l, call[t], target[t]), Asks(l, call[t]) <=> Asks(pc[t], call[t]),
           ~unheld_halt => (HasStopped(l, call[t])
                              => TargetStays(th'[target[t]], at'[target[t]], l, evt'[t]))
    PROVE  ThreadInv'
  <1>1. pc' \in [Threads -> PCs] /\ pc'[t] = l /\ \A x \in Threads \ {t} : pc'[x] = pc[x]
    BY DEF Goto, ThreadInv, TypeOK
  <1>2. OnlyMove({t})
    BY <1>1 DEF OnlyMove
  <1>3. th' \in [Threads -> ThreadStates] /\ at' \in [Threads -> {"cpu", "runq", "switch", "off"}]
    BY WokeType
  <1>4. TypeOK'
    BY <1>1, <1>3 DEF ThreadInv, TypeOK
  <1>5. \A x \in Threads :
           /\ th'[x].suspend_count = th[x].suspend_count
           /\ th'[x].user_stop_count = th[x].user_stop_count
           /\ th'[x].ast_halt = th[x].ast_halt
           /\ "HALTED" \in th'[x].state <=> "HALTED" \in th[x].state
           /\ WaitAgrees(th'[x])
           /\ \A p : ThreadAgrees(th[x], at[x], p) => ThreadAgrees(th'[x], at'[x], p)
           /\ \A p, e : TargetStays(th[x], at[x], p, e) /\ "SUSP" \in th[x].state
                           => TargetStays(th'[x], at'[x], p, e)
    BY WokeKeeps
  <1>6. ASSUME ~unheld_halt, NEW x \in Threads
        PROVE  ThreadAgrees(th[x], at[x], pc'[x])
    <2>1. CASE x = t
      BY <1>1, <1>6, <2>1, Typed, OnCpu
    <2>2. CASE x # t
      BY <1>1, <1>6, <2>2, Typed
    <2> QED BY <2>1, <2>2
  <1>7. ~unheld_halt => ~panicked'
    BY Typed
  <1> QED BY <1>1, <1>2, <1>4, <1>5, <1>6, <1>7, Goes

LEMMA ThreadAbortStep ==
    ASSUME ThreadInv, NEW t \in Threads, NEW u \in Threads, ThreadAbort(t, u)
    PROVE  ThreadInv'
  <1> DEFINE k == th[u]
             h == HoldingCalls(u)
             bit == IF k.user_stop_count > 0 THEN 1 ELSE 0
  <1>1. pc[t] = "kernel" /\ at[t] = "cpu" /\ u # t /\ work' \in [Threads -> 0..MaxWork]
    BY WorkType DEF ThreadAbort, InAbort, InCall, On
  <1>2. UNCHANGED <<evt, softclock, stops, unheld_halt>>
    BY DEF ThreadAbort
  <1>3. call[t] # "abort" /\ ~Asks(pc[t], call[t])
    BY <1>1, IdleCall DEF Elsewhere
  <1>4. k \in ThreadStates /\ WaitAgrees(k)
    BY Typed
  <1>5. k.suspend_count < MaxHolds /\ k.suspend_count + 1 = Cardinality(h \cup {t}) + bit
    <2>1. t \notin h
      BY <1>3 DEF HoldingCalls
    <2> QED BY <2>1, RoomForHold
  <1>6. CASE /\ "HALTED" \in k.state /\ Begin(t, "abort", u) /\ Goto(t, "release")
             /\ th' = [th EXCEPT ![u].suspend_count = @ + 1] /\ UNCHANGED <<at, panicked>>
    <2> DEFINE c == k.suspend_count + 1
               n == [k EXCEPT !.suspend_count = c]
    <2>1. Changes(u, n, at[u]) /\ Goto(t, "release")
      BY <1>6 DEF Changes, ThreadInv, TypeOK
    <2>2. OnlyMove({t}) /\ pc'[t] = "release" /\ call'[t] = "abort" /\ target'[t] = u
          /\ pc' \in [Threads -> PCs] /\ call' \in [Threads -> {"none", "suspend", "abort"}]
          /\ target' \in [Threads -> Threads \cup {NoThread}]
      <3>1. "release" \in PCs
        BY DEF PCs
      <3> QED BY <1>2, <1>6, <2>1, <3>1, Begins
    <2>3. c \in 0..MaxHolds /\ c > 0 /\ k.suspend_count >= 0
      BY <1>4, <1>5, Fields, HoldsType
    <2>4. n \in ThreadStates /\ n.state = k.state /\ n.suspend_count = c
          /\ n.user_stop_count = k.user_stop_count /\ n.ast_halt = k.ast_halt
          /\ n.wait_event = k.wait_event /\ n.timer = k.timer
      BY <1>4, <2>3 DEF ThreadStates
    <2> HIDE DEF n
    <2>5. WaitAgrees(n)
      BY <1>4, <2>4 DEF WaitAgrees
    <2>6. \A p : ThreadAgrees(k, at[u], p) => ThreadAgrees(n, at[u], p)
      BY <1>6, <2>3, <2>4 DEF ThreadAgrees
    <2>7. ~unheld_halt => \A v \in Threads \ {t} :
             HasStopped(pc[v], call[v]) /\ target[v] = u => TargetStays(n, at[u], pc[v], evt[v])
      <3>1. \A p, e : TargetStays(k, at[u], p, e) => TargetStays(n, at[u], p, e)
        BY <2>4 DEF TargetStays
      <3> QED BY <3>1, StoppedIsHeld DEF HasStopped
    <2>8. th'[u] = n /\ \A x \in Threads \ {u} : th'[x] = th[x]
      BY <2>1 DEF Changes, ThreadInv, TypeOK
    <2>9. HoldsCounted'
      <3>1. HoldingCalls(u)' = h \cup {t} /\ \A x \in Threads \ {u} : HoldingCalls(x)' = HoldingCalls(x)
        BY <1>3, <1>6, AbortTypes, AbortsHolds
      <3>2. n.suspend_count = Cardinality(h \cup {t}) + (IF n.user_stop_count > 0 THEN 1 ELSE 0)
        BY <1>5, <2>4
      <3>3. ASSUME NEW x \in Threads
            PROVE  th'[x].suspend_count = Cardinality(HoldingCalls(x)') +
                                          (IF th'[x].user_stop_count > 0 THEN 1 ELSE 0)
        <4>1. CASE x = u
          BY <2>8, <3>1, <3>2, <4>1
        <4>2. CASE x # u
          BY <2>8, <3>1, <4>2, HoldsAre
        <4> QED BY <4>1, <4>2
      <3> QED BY <3>3 DEF HoldsCounted
    <2>10. OneRequest'
      <3>1. ~Asks(pc'[t], call'[t])
        BY <2>2 DEF Asks, RequestPCs, DowaitPCs, StoppedPCs
      <3>2. \A x \in Threads : /\ th'[x].ast_halt = th[x].ast_halt
                               /\ "HALTED" \in th'[x].state <=> "HALTED" \in th[x].state
        BY <2>4, <2>8
      <3> QED BY <1>2, <1>3, <2>2, <3>1, <3>2, RequestsStay DEF ThreadInv
    <2>11. TypeOK'
      <3>1. th' \in [Threads -> ThreadStates] /\ at' \in [Threads -> {"cpu", "runq", "switch", "off"}]
        BY <2>1, <2>4 DEF Changes, ThreadInv, TypeOK
      <3> QED BY <1>1, <1>2, <1>6, <2>2, <3>1 DEF ThreadInv, TypeOK
    <2>12. CallAgrees(t, pc'[t], call'[t], target'[t]) /\ ~HasStopped(pc'[t], call'[t])
      BY <1>1, <2>2 DEF CallAgrees, HasStopped, DowaitPCs, AbortPCs, StoppedPCs
    <2>13. pc[t] \notin BlockPCs /\ pc[t] # "halted"
      BY <1>1 DEF BlockPCs
    <2> QED BY <1>1, <1>2, <1>6, <2>1, <2>2, <2>5, <2>6, <2>7, <2>9, <2>10, <2>11, <2>12, <2>13, CallStep
  <1>7. CASE BreakHaltCycle(t, u) /\ UNCHANGED <<call, target>>
    <2>1. \A ts \in SUBSET Waiting(t) : WakeupPanics(ts) => panicked' \in BOOLEAN /\ ~panicked'
      BY EventNames, ListedWait
    <2>2. CASE /\ th' = WakeAll(Waiting(t), "INTERRUPTED") /\ SetRun(Waiting(t))
               /\ WakeupPanics(Waiting(t)) /\ UNCHANGED pc
      <3>1. th' \in [Threads -> ThreadStates] /\ at' \in [Threads -> {"cpu", "runq", "switch", "off"}]
        BY <2>2, WokeType, ResultNames
      <3>2. panicked' \in BOOLEAN /\ ~panicked'
        BY <2>1, <2>2
      <3>3. TypeOK'
        BY <1>1, <1>2, <1>7, <2>2, <3>1, <3>2 DEF ThreadInv, TypeOK
      <3> QED BY <1>2, <1>7, <2>2, <3>2, <3>3, WokeOnly, ResultNames
    <2>3. CASE /\ \E ts \in SUBSET (Waiting(t) \ {u}) :
                     th' = WakeAll(ts, "INTERRUPTED") /\ SetRun(ts) /\ WakeupPanics(ts)
               /\ Goto(t, "spin")
      <3>1. PICK ts \in SUBSET (Waiting(t) \ {u}) :
               th' = WakeAll(ts, "INTERRUPTED") /\ SetRun(ts) /\ WakeupPanics(ts)
        BY <2>3
      <3>2. panicked' \in BOOLEAN /\ ~panicked'
        BY <2>1, <3>1
      <3>3. /\ "spin" \in PCs /\ CallAgrees(t, "spin", call[t], target[t])
            /\ ~Asks("spin", call[t]) /\ ~HasStopped("spin", call[t])
            /\ pc[t] \notin BlockPCs /\ pc[t] # "halted"
        BY <1>1, <1>3 DEF PCs, CallAgrees, Asks, HasStopped, RequestPCs, DowaitPCs, AbortPCs,
                          StoppedPCs, BlockPCs
      <3>4. evt' \in [Threads -> AllEvents] /\ \A v \in Threads \ {t} : evt'[v] = evt[v]
        BY <1>2 DEF ThreadInv, TypeOK
      <3> QED BY <1>1, <1>2, <1>3, <1>7, <2>3, <3>1, <3>2, <3>3, <3>4, ResultNames, WakesAndGoes
    <2> QED BY <1>7, <2>2, <2>3 DEF BreakHaltCycle
  <1>8. CASE HaltRound(t, u, Held(k)) /\ Begin(t, "abort", u) /\ UNCHANGED <<at, panicked>>
    <2> DEFINE n == Held(k)
    <2>1. /\ n \in ThreadStates /\ SameBits(k, n, {"SUSP"})
          /\ n.suspend_count = k.suspend_count + 1 /\ n.user_stop_count = k.user_stop_count
          /\ n.ast_halt = k.ast_halt
      BY <1>4, <1>5, HeldIs
    <2>2. /\ WaitAgrees(n)
          /\ \A p : ThreadAgrees(k, at[u], p) => ThreadAgrees(n, at[u], p)
          /\ \A p, e : TargetStays(k, at[u], p, e) => TargetStays(n, at[u], p, e)
      BY <1>4, <1>5, HeldAgrees
    <2>3. "HALTED" \in n.state <=> "HALTED" \in k.state
      BY <2>1 DEF SameBits, Bits
    <2>4. AbortsNow(t, u)
      BY <1>3, <1>8, AbortTypes
    <2>5. n.suspend_count = Cardinality(h \cup {t}) + (IF n.user_stop_count > 0 THEN 1 ELSE 0)
      BY <1>5, <2>1
    <2>6. HaltRound(t, u, n)
      BY <1>8
    <2> HIDE DEF n
    <2> QED BY <1>1, <1>2, <1>8, <2>1, <2>2, <2>3, <2>4, <2>5, <2>6, HaltRoundStep
  <1> QED BY <1>6, <1>7, <1>8 DEF ThreadAbort

LEMMA HaltWokenStep ==
    ASSUME ThreadInv, NEW t \in Threads, HaltWoken(t)
    PROVE  ThreadInv'
  <1>1. pc[t] = "halt_woken" /\ at[t] = "cpu"
        /\ UNCHANGED <<at, call, target, evt, work, softclock, stops, unheld_halt, panicked>>
    BY DEF HaltWoken, On
  <1>2. call[t] = "abort"
    BY <1>1, Typed DEF CallAgrees, AbortPCs
  <1>3. PICK u \in Threads \ {t} : u = target[t]
    BY <1>2, StoppedIsHeld
  <1>4. work' \in [Threads -> 0..MaxWork] /\ UNCHANGED th
    BY <1>1 DEF HaltWoken, ThreadInv, TypeOK
  <1>5. PICK l \in {"release", "halt_again"} : Goto(t, l)
    BY DEF HaltWoken
  <1>6. l \in PCs /\ pc[t] \notin BlockPCs /\ pc[t] # "halted"
    BY <1>1 DEF PCs, BlockPCs
  <1>7. CallAgrees(t, l, call[t], target[t]) /\ ~HasStopped(l, call[t])
        /\ ~Asks(l, call[t]) /\ ~Asks(pc[t], call[t])
    BY <1>1, <1>2, <1>3 DEF CallAgrees, HasStopped, Asks, RequestPCs, DowaitPCs, AbortPCs, StoppedPCs
  <1> QED BY <1>1, <1>4, <1>5, <1>6, <1>7, MovesOn

LEMMA HaltAgainStep ==
    ASSUME ThreadInv, NEW t \in Threads, HaltAgain(t)
    PROVE  ThreadInv'
  <1>1. pc[t] = "halt_again" /\ at[t] = "cpu"
        /\ UNCHANGED <<at, call, target, evt, work, softclock, stops, unheld_halt, panicked>>
    BY DEF HaltAgain, On
  <1>2. call[t] = "abort"
    BY <1>1, Typed DEF CallAgrees, AbortPCs
  <1>3. PICK u \in Threads \ {t} : u = target[t]
    BY <1>2, StoppedIsHeld
  <1>4. work' \in [Threads -> 0..MaxWork]
    BY <1>1 DEF ThreadInv, TypeOK
  <1>5. HaltRound(t, u, th[u])
    BY <1>3 DEF HaltAgain
  <1>6. AbortsNow(t, u)
    BY <1>1, <1>2, <1>3 DEF AbortsNow, ThreadInv, TypeOK
  <1>7. HoldingCalls(u) \cup {t} = HoldingCalls(u)
    BY <1>2, <1>3 DEF HoldingCalls
  <1>8. th[u].suspend_count = Cardinality(HoldingCalls(u) \cup {t}) +
                              (IF th[u].user_stop_count > 0 THEN 1 ELSE 0)
    BY <1>7, HoldsAre
  <1> QED BY <1>1, <1>4, <1>5, <1>6, <1>8, Typed, HaltRoundStep

-----------------------------------------------------------------------------
(* Steps of thread_dowait and thread_halt                                  *)

\* What becomes of a thread that a wakeup may have woken.
LEMMA WokeWait ==
    ASSUME ThreadInv, NEW ts, NEW r \in Results, NEW u \in Threads
    PROVE  "WAIT" \in WakeAll(ts, r)[u].state => u \notin ts /\ "WAIT" \in th[u].state
  <1>1. WakeAll(ts, r)[u] = IF u \in ts THEN Woken(th[u], r) ELSE th[u]
    BY DEF WakeAll
  <1>2. "WAIT" \notin Woken(th[u], r).state
    BY Typed, WokenIs
  <1> QED BY <1>1, <1>2

\* A thread in thread_dowait is in a call that stops another one.
LEMMA DowaitIs ==
    ASSUME ThreadInv, NEW t \in Threads, pc[t] \in DowaitPCs
    PROVE  /\ target[t] \in Threads \ {t} /\ call[t] \in {"suspend", "abort"}
           /\ AfterDowait(t) \in PCs \ (BlockPCs \cup {"dowait_wakeup", "check", "clear_event"})
           /\ CallAgrees(t, AfterDowait(t), call[t], target[t])
           /\ Asks(AfterDowait(t), call[t]) <=> Asks(pc[t], call[t])
           /\ HasStopped(AfterDowait(t), call[t]) => call[t] = "abort" /\ AfterDowait(t) = "clear"
           /\ \A p \in DowaitPCs : /\ CallAgrees(t, p, call[t], target[t])
                                   /\ Asks(p, call[t]) <=> Asks(pc[t], call[t])
  <1>1. CallAgrees(t, pc[t], call[t], target[t]) /\ call[t] \in {"none", "suspend", "abort"}
    BY Typed DEF ThreadInv, TypeOK
  <1>2. target[t] \in Threads \ {t} /\ call[t] \in {"suspend", "abort"}
    BY <1>1 DEF CallAgrees
  <1>3. \A p \in DowaitPCs : p \in RequestPCs /\ p \notin AbortPCs \cup {"suspended"}
    BY DEF RequestPCs, AbortPCs, DowaitPCs, StoppedPCs
  <1>4. \A p \in DowaitPCs : /\ CallAgrees(t, p, call[t], target[t])
                             /\ Asks(p, call[t]) <=> Asks(pc[t], call[t])
    BY <1>2, <1>3 DEF CallAgrees, Asks
  <1>5. CASE call[t] = "suspend"
    <2>1. AfterDowait(t) = "suspended"
      BY <1>5 DEF AfterDowait
    <2> QED BY <1>2, <1>4, <1>5, <2>1 DEF CallAgrees, Asks, HasStopped, PCs, BlockPCs, DowaitPCs,
                                         AbortPCs, StoppedPCs
  <1>6. CASE call[t] = "abort"
    <2>1. AfterDowait(t) = "clear"
      BY <1>6 DEF AfterDowait
    <2>2. "clear" \in PCs \ (BlockPCs \cup {"dowait_wakeup", "check", "clear_event", "suspended"})
          /\ "clear" \in RequestPCs /\ "clear" \notin DowaitPCs /\ "clear" \in AbortPCs
      BY DEF PCs, BlockPCs, RequestPCs, DowaitPCs, AbortPCs, StoppedPCs
    <2> QED BY <1>2, <1>3, <1>4, <1>6, <2>1, <2>2 DEF CallAgrees, Asks
  <1> QED BY <1>2, <1>5, <1>6

LEMMA DowaitWakeupStep ==
    ASSUME ThreadInv, NEW t \in Threads, DowaitWakeup(t)
    PROVE  ThreadInv'
  <1> DEFINE l == AfterDowait(t)
  <1>1. pc[t] = "dowait_wakeup" /\ at[t] = "cpu" /\ pc[t] \in DowaitPCs
        /\ UNCHANGED <<call, target, evt, work, softclock, stops, unheld_halt>>
    BY DEF DowaitWakeup, On, DowaitPCs
  <1>2. PICK u \in Threads \ {t} : u = target[t]
    BY <1>1, DowaitIs
  <1>3. /\ l \in PCs /\ CallAgrees(t, l, call[t], target[t])
        /\ Asks(l, call[t]) <=> Asks(pc[t], call[t])
        /\ HasStopped(l, call[t]) => call[t] = "abort" /\ l = "clear"
    BY <1>1, DowaitIs
  <1>4. th' = WakeAll(Waiting(u), "AWAKENED") /\ SetRun(Waiting(u)) /\ Goto(t, l)
    BY <1>2 DEF DowaitWakeup
  <1> HIDE DEF l
  <1>5. ASSUME ~unheld_halt, HasStopped(l, call[t])
        PROVE  TargetStays(th'[u], at'[u], l, evt'[t])
    <2>1. call[t] = "abort" /\ l = "clear"
      BY <1>3, <1>5
    <2>2. TargetStays(th[u], at[u], "dowait_wakeup", evt[t]) /\ "SUSP" \in th[u].state
      BY <1>1, <1>2, <1>5, <2>1, StoppedIsHeld DEF HasStopped
    <2>3. TargetStays(th'[u], at'[u], "dowait_wakeup", evt[t])
      BY <1>4, <2>2, Woke, ResultNames
    <2> QED BY <2>1, <2>3 DEF TargetStays
  <1>6. pc[t] \notin BlockPCs /\ pc[t] # "halted"
    BY <1>1 DEF BlockPCs
  <1>7. evt' \in [Threads -> AllEvents] /\ work' \in [Threads -> 0..MaxWork]
        /\ \A v \in Threads \ {t} : evt'[v] = evt[v]
    BY <1>1 DEF ThreadInv, TypeOK
  <1>8. panicked' \in BOOLEAN /\ ~panicked'
    BY <1>2, EventNames, ListedWait DEF DowaitWakeup
  <1> QED BY <1>1, <1>2, <1>3, <1>4, <1>5, <1>6, <1>7, <1>8, ResultNames, WakesAndGoes

\* A thread that thread_abort clears is in a call of it.
LEMMA ClearIs ==
    ASSUME ThreadInv, NEW t \in Threads, pc[t] \in StoppedPCs \cup {"halt_fail"}
    PROVE  /\ call[t] = "abort" /\ target[t] \in Threads \ {t}
           /\ pc[t] \notin BlockPCs /\ pc[t] # "halted" /\ Asks(pc[t], call[t])
           /\ \A l \in StoppedPCs \cup {"dowait", "release", "halt_fail"} :
                 l \in PCs /\ CallAgrees(t, l, call[t], target[t])
           /\ \A l \in StoppedPCs \cup {"dowait", "halt_fail"} : Asks(l, call[t])
           /\ ~Asks("release", call[t])
           /\ \A l \in {"dowait", "release", "halt_fail"} : ~HasStopped(l, call[t])
           /\ Requests(t, target[t])
  <1>1. pc[t] \in AbortPCs
    BY DEF AbortPCs
  <1>2. CallAgrees(t, pc[t], call[t], target[t])
    BY Typed
  <1>3. call[t] = "abort" /\ target[t] \in Threads \ {t}
    BY <1>1, <1>2 DEF CallAgrees
  <1>4. /\ pc[t] \notin BlockPCs /\ pc[t] # "halted" /\ pc[t] \in RequestPCs
        /\ "release" \notin RequestPCs
    BY DEF StoppedPCs, BlockPCs, RequestPCs, DowaitPCs
  <1>5. \A l \in StoppedPCs \cup {"dowait", "release", "halt_fail"} :
           /\ l \in PCs /\ l # "suspended" /\ l \in DowaitPCs \cup AbortPCs
    BY DEF PCs, StoppedPCs, DowaitPCs, AbortPCs
  <1>6. \A l \in StoppedPCs \cup {"dowait", "halt_fail"} : l \in RequestPCs
    BY DEF RequestPCs, DowaitPCs
  <1>7. \A l \in {"dowait", "release", "halt_fail"} : l \notin StoppedPCs \cup {"dowait_wakeup"}
    BY DEF StoppedPCs
  <1> QED BY <1>3, <1>4, <1>5, <1>6, <1>7 DEF CallAgrees, Asks, HasStopped, Requests

LEMMA HaltClearStep ==
    ASSUME ThreadInv, NEW t \in Threads, HaltClear(t)
    PROVE  ThreadInv'
  <1>1. pc[t] = "clear" /\ at[t] = "cpu" /\ pc[t] \in StoppedPCs
        /\ UNCHANGED <<call, target, work, softclock, stops, unheld_halt, panicked>>
    BY DEF HaltClear, On, StoppedPCs
  <1>2. PICK u \in Threads \ {t} : u = target[t]
    BY <1>1, ClearIs
  <1> DEFINE e == th[u].wait_event
  <1>3. /\ call[t] = "abort" /\ pc[t] \notin BlockPCs /\ pc[t] # "halted"
        /\ \A l \in {"check", "clear_event"} :
              /\ l \in PCs /\ CallAgrees(t, l, call[t], target[t])
              /\ Asks(l, call[t]) <=> Asks(pc[t], call[t])
    BY <1>1, ClearIs DEF StoppedPCs
  <1>4. ~unheld_halt => TargetStays(th[u], at[u], "clear", evt[t]) /\ "SUSP" \in th[u].state
    BY <1>1, <1>2, <1>3, StoppedIsHeld DEF HasStopped
  <1>5. evt \in [Threads -> AllEvents] /\ e \in AllEvents
        /\ work' \in [Threads -> 0..MaxWork] /\ panicked' \in BOOLEAN /\ panicked' = panicked
    BY <1>1, EventType DEF ThreadInv, TypeOK
  <1>6. CASE "UNINT" \in th[u].state
    <2>1. UNCHANGED <<th, at>> /\ Goto(t, "check") /\ UNCHANGED evt
      BY <1>2, <1>6 DEF HaltClear
    <2>2. th' = WakeAll({}, "INTERRUPTED") /\ SetRun({})
      BY <2>1, WokeNone
    <2>3. unheld_halt
      BY <1>4, <1>6 DEF TargetStays
    <2> QED BY <1>1, <1>3, <1>5, <2>1, <2>2, <2>3, ResultNames, WakesAndGoes
  <1>7. CASE "UNINT" \notin th[u].state /\ e = NoEvent
    <2>1. ClearWaitEvent(u, NoEvent, "INTERRUPTED") /\ Goto(t, "check") /\ UNCHANGED evt
      BY <1>2, <1>7 DEF HaltClear
    <2>2. PICK ts : th' = WakeAll(ts, "INTERRUPTED") /\ SetRun(ts) /\ u \in ts
      BY <1>7, <2>1 DEF ClearWaitEvent
    <2>3. "WAIT" \notin th'[u].state
      BY <2>2, WokeWait, ResultNames
    <2>4. ~unheld_halt => TargetStays(th'[u], at'[u], "check", evt'[t])
      <3>1. ~unheld_halt => TargetStays(th'[u], at'[u], "clear", evt[t])
        BY <1>4, <2>2, Woke, ResultNames
      <3> QED BY <2>3, <3>1 DEF TargetStays
    <2> QED BY <1>1, <1>2, <1>3, <1>5, <2>1, <2>2, <2>4, ResultNames, WakesAndGoes
  <1>8. CASE "UNINT" \notin th[u].state /\ e # NoEvent
    <2>1. UNCHANGED <<th, at>> /\ Goto(t, "clear_event") /\ evt' = [evt EXCEPT ![t] = e]
      BY <1>2, <1>8 DEF HaltClear
    <2>2. th' = WakeAll({}, "INTERRUPTED") /\ SetRun({})
      BY <2>1, WokeNone
    <2>3. evt' \in [Threads -> AllEvents] /\ evt'[t] = e /\ \A v \in Threads \ {t} : evt'[v] = evt[v]
      BY <1>5, <2>1
    <2>4. ~unheld_halt => TargetStays(th'[u], at'[u], "clear_event", evt'[t])
      BY <1>4, <2>1, <2>3 DEF TargetStays
    <2> QED BY <1>1, <1>2, <1>3, <1>5, <2>1, <2>2, <2>3, <2>4, ResultNames, WakesAndGoes
  <1> QED BY <1>6, <1>7, <1>8

LEMMA HaltClearEventStep ==
    ASSUME ThreadInv, NEW t \in Threads, HaltClearEvent(t)
    PROVE  ThreadInv'
  <1>1. pc[t] = "clear_event" /\ at[t] = "cpu" /\ pc[t] \in StoppedPCs /\ Goto(t, "check")
        /\ UNCHANGED <<call, target, work, softclock, stops, unheld_halt, panicked>>
    BY DEF HaltClearEvent, On, StoppedPCs
  <1>2. PICK u \in Threads \ {t} : u = target[t]
    BY <1>1, ClearIs
  <1>3. /\ call[t] = "abort" /\ pc[t] \notin BlockPCs /\ pc[t] # "halted"
        /\ "check" \in PCs /\ CallAgrees(t, "check", call[t], target[t])
        /\ Asks("check", call[t]) <=> Asks(pc[t], call[t])
    BY <1>1, ClearIs DEF StoppedPCs
  <1>4. ~unheld_halt => TargetStays(th[u], at[u], "clear_event", evt[t]) /\ "SUSP" \in th[u].state
    BY <1>1, <1>2, <1>3, StoppedIsHeld DEF HasStopped
  <1> DEFINE ts == {v \in {u} : th[v].wait_event = evt[t]}
  <1>5. th' = WakeAll(ts, "INTERRUPTED") /\ SetRun(ts)
    BY <1>2 DEF HaltClearEvent, ClearWaitEvent
  <1>6. ~unheld_halt => "WAIT" \notin th'[u].state
    <2>1. u \notin ts /\ ~unheld_halt => "WAIT" \notin th[u].state
      BY <1>4 DEF TargetStays
    <2> HIDE DEF ts
    <2> QED BY <1>5, <2>1, WokeWait, ResultNames
  <1> HIDE DEF ts
  <1>7. evt' \in [Threads -> AllEvents] /\ (\A v \in Threads \ {t} : evt'[v] = evt[v])
        /\ work' \in [Threads -> 0..MaxWork] /\ panicked' \in BOOLEAN /\ panicked' = panicked
    BY ClockTypes DEF HaltClearEvent, ThreadInv, TypeOK
  <1>8. ~unheld_halt => TargetStays(th'[u], at'[u], "check", evt'[t])
    <2>1. ~unheld_halt => TargetStays(th'[u], at'[u], "clear_event", evt[t])
      BY <1>4, <1>5, Woke, ResultNames
    <2> QED BY <1>6, <2>1 DEF TargetStays
  <1> QED BY <1>1, <1>2, <1>3, <1>5, <1>7, <1>8, ResultNames, WakesAndGoes

\* What is left of thread k when it leaves the run queue.
LEMMA RemRunqIs ==
    ASSUME NEW k \in ThreadStates, WaitAgrees(k), Sched(k) = {"RUN", "SUSP"}
    PROVE  LET n == [k EXCEPT !.state = k.state \ {"RUN"}, !.wake_active = FALSE]
           IN /\ n \in ThreadStates /\ WaitAgrees(n)
              /\ n.suspend_count = k.suspend_count /\ n.user_stop_count = k.user_stop_count
              /\ n.ast_halt = k.ast_halt
              /\ "HALTED" \in n.state <=> "HALTED" \in k.state
              /\ \A p : ThreadAgrees(k, "runq", p) => ThreadAgrees(n, "off", p)
              /\ \A p \in PCs \ {"clear_event"} : \A e : TargetStays(n, "off", p, e)
  <1> DEFINE s == k.state \ {"RUN"}
             n == [k EXCEPT !.state = s, !.wake_active = FALSE]
  <1>1. s \in SUBSET Bits /\ "RUN" \notin s
        /\ \A b \in {"WAIT", "SUSP", "UNINT", "HALTED"} : b \in s <=> b \in k.state
    BY Fields
  <1>2. "SUSP" \in s /\ "WAIT" \notin s /\ "UNINT" \notin s
    BY DEF Sched
  <1> HIDE DEF s
  <1>3. n \in ThreadStates /\ n.state = s /\ n.suspend_count = k.suspend_count
        /\ n.user_stop_count = k.user_stop_count /\ n.ast_halt = k.ast_halt
        /\ n.wait_event = k.wait_event /\ n.timer = k.timer
    BY <1>1 DEF ThreadStates
  <1> HIDE DEF n
  <1>4. WaitAgrees(n)
    BY <1>1, <1>3 DEF WaitAgrees
  <1>5. \A p : ThreadAgrees(k, "runq", p) => ThreadAgrees(n, "off", p)
    BY <1>1, <1>2, <1>3 DEF ThreadAgrees
  <1>6. \A p \in PCs \ {"clear_event"} : \A e : TargetStays(n, "off", p, e)
    BY <1>2, <1>3 DEF TargetStays
  <1>7. "HALTED" \in n.state <=> "HALTED" \in k.state
    BY <1>1, <1>3
  <1> QED BY <1>3, <1>4, <1>5, <1>6, <1>7 DEF n, s

\* A held thread that thread_dowait finds stopped is off the queues.
LEMMA StoppedIsOff ==
    ASSUME NEW k, NEW a, NEW p, ThreadAgrees(k, a, p), Stopped(Sched(k)), "SUSP" \in k.state
    PROVE  a = "off" /\ "UNINT" \notin k.state
  <1>1. Sched(k) \in {{"SUSP"}, {"WAIT", "SUSP"}}
    BY DEF Stopped, Sched
  <1>2. "RUN" \notin k.state /\ "UNINT" \notin k.state
    BY <1>1 DEF Sched
  <1> QED BY <1>2 DEF ThreadAgrees

LEMMA DowaitRoundStep ==
    ASSUME ThreadInv, NEW t \in Threads, at[t] = "cpu", pc[t] \in {"dowait", "dowait_woken"},
           DowaitRound(t),
           UNCHANGED <<call, target, evt, work, softclock, stops, unheld_halt, panicked>>
    PROVE  ThreadInv'
  <1>1. pc[t] \in DowaitPCs /\ pc[t] \notin BlockPCs /\ pc[t] # "halted"
        /\ {"dowait_wakeup", "dowait_block"} \subseteq DowaitPCs
    BY DEF DowaitPCs, BlockPCs
  <1>2. PICK u \in Threads \ {t} : u = target[t]
    BY <1>1, DowaitIs
  <1> DEFINE k == th[u]
             l == AfterDowait(t)
  <1>3. /\ l \in PCs \ (BlockPCs \cup {"dowait_wakeup", "check", "clear_event"})
        /\ CallAgrees(t, l, call[t], target[t])
        /\ Asks(l, call[t]) <=> Asks(pc[t], call[t])
        /\ HasStopped(l, call[t]) => call[t] = "abort" /\ l = "clear"
        /\ \A p \in DowaitPCs : /\ CallAgrees(t, p, call[t], target[t])
                                /\ Asks(p, call[t]) <=> Asks(pc[t], call[t])
    BY <1>1, DowaitIs
  <1>4. k \in ThreadStates /\ WaitAgrees(k) /\ work \in [Threads -> 0..MaxWork]
    BY Typed DEF ThreadInv, TypeOK
  <1> HIDE DEF l
  <1>5. ~unheld_halt => \A p : ThreadAgrees(th[t], at[t], p)
    BY <1>1, Typed, OnCpu
  <1>6. CASE Stopped(Sched(k)) /\ Goto(t, l) /\ UNCHANGED <<th, at>>
    <2>1. ASSUME ~unheld_halt, HasStopped(l, call[t])
          PROVE  TargetStays(k, at[u], l, evt[t])
      <3>1. call[t] = "abort" /\ l = "clear"
        BY <1>3, <2>1
      <3>2. "SUSP" \in k.state /\ ThreadAgrees(k, at[u], pc[u])
        BY <1>2, <2>1, <3>1, StoppedIsHeld, Typed
      <3>3. at[u] = "off" /\ "UNINT" \notin k.state
        BY <1>6, <3>2, StoppedIsOff
      <3> QED BY <3>1, <3>3 DEF TargetStays
    <2> QED BY <1>1, <1>2, <1>3, <1>4, <1>6, <2>1, MovesOn
  <1>7. CASE /\ Sched(k) = {"RUN", "SUSP"} /\ at[u] = "runq"
             /\ th' = [th EXCEPT ![u].state = @ \ {"RUN"}, ![u].wake_active = FALSE]
             /\ at' = [at EXCEPT ![u] = "off"]
             /\ Goto(t, AfterRemRunq(t, u))
    <2> DEFINE n == [k EXCEPT !.state = k.state \ {"RUN"}, !.wake_active = FALSE]
    <2>1. Changes(u, n, "off")
      BY <1>7 DEF Changes, ThreadInv, TypeOK
    <2>2. PICK m \in {l, "dowait_wakeup"} : Goto(t, m)
      BY <1>7 DEF AfterRemRunq, l
    <2>3. m \in PCs \ {"clear_event"} /\ CallAgrees(t, m, call[t], target[t])
          /\ (Asks(m, call[t]) <=> Asks(pc[t], call[t]))
      <3>1. "dowait_wakeup" \in PCs
        BY DEF PCs
      <3> QED BY <1>1, <1>3, <3>1
    <2>4. OnlyMove({t}) /\ pc' \in [Threads -> PCs] /\ pc'[t] = m /\ pc'[u] = pc[u]
      BY <2>2, <2>3 DEF Goto, OnlyMove, ThreadInv, TypeOK
    <2>5. /\ n \in ThreadStates /\ WaitAgrees(n)
          /\ n.suspend_count = k.suspend_count /\ n.user_stop_count = k.user_stop_count
          /\ n.ast_halt = k.ast_halt
          /\ "HALTED" \in n.state <=> "HALTED" \in k.state
          /\ \A p : ThreadAgrees(k, "runq", p) => ThreadAgrees(n, "off", p)
          /\ \A p \in PCs \ {"clear_event"} : \A e : TargetStays(n, "off", p, e)
      BY <1>4, <1>7, RemRunqIs
    <2> HIDE DEF n
    <2>6. th'[u] = n /\ at'[u] = "off"
      BY <2>1 DEF Changes, ThreadInv, TypeOK
    <2>7. TypeOK'
      <3>1. th' \in [Threads -> ThreadStates] /\ at' \in [Threads -> {"cpu", "runq", "switch", "off"}]
        BY <2>1, <2>5 DEF Changes, ThreadInv, TypeOK
      <3> QED BY <2>4, <3>1 DEF ThreadInv, TypeOK
    <2>8. TargetStays(th'[target'[t]], at'[target'[t]], pc'[t], evt'[t])
      BY <1>2, <2>3, <2>4, <2>5, <2>6
    <2>9. \A p, e : ~TargetStays(k, at[u], p, e)
      BY <1>7 DEF TargetStays
    <2>10. ~unheld_halt => ThreadAgrees(n, "off", pc'[u]) /\ ~panicked'
      BY <1>7, <2>4, <2>5, Typed
    <2> QED BY <1>2, <1>5, <2>1, <2>3, <2>4, <2>5, <2>7, <2>8, <2>9, <2>10, OneChanges
  <1>8. CASE SleepOnStop(t, u, "dowait_block") /\ UNCHANGED at
    <2> DEFINE n == [k EXCEPT !.wake_active = TRUE]
               m == AssertWait(th[t], u, TRUE)
    <2>1. th' = [th EXCEPT ![u] = n, ![t] = m] /\ Goto(t, "dowait_block")
      BY <1>8 DEF SleepOnStop, ThreadInv, TypeOK
    <2>2. OnlyMove({t}) /\ pc' \in [Threads -> PCs] /\ pc'[t] = "dowait_block"
      BY <2>1 DEF Goto, OnlyMove, PCs, ThreadInv, TypeOK
    <2>3. /\ n \in ThreadStates /\ n.state = k.state
          /\ n.suspend_count = k.suspend_count /\ n.user_stop_count = k.user_stop_count
          /\ n.ast_halt = k.ast_halt /\ WaitAgrees(n)
          /\ \A p : ThreadAgrees(k, at[u], p) => ThreadAgrees(n, at[u], p)
          /\ \A p, e : TargetStays(k, at[u], p, e) => TargetStays(n, at[u], p, e)
      BY <1>4, WakeActive
    <2>4. /\ m \in ThreadStates /\ m.suspend_count = th[t].suspend_count
          /\ m.user_stop_count = th[t].user_stop_count
          /\ m.ast_halt = th[t].ast_halt /\ ("HALTED" \in m.state <=> "HALTED" \in th[t].state)
      BY <1>1, SleeperIs
    <2> HIDE DEF n, m
    <2>5. th'[u] = n /\ th'[t] = m /\ \A x \in Threads \ {u, t} : th'[x] = th[x]
      BY <2>1 DEF ThreadInv, TypeOK
    <2>6. \A x \in Threads : /\ th'[x].suspend_count = th[x].suspend_count
                             /\ th'[x].user_stop_count = th[x].user_stop_count
                             /\ th'[x].ast_halt = th[x].ast_halt
                             /\ "HALTED" \in th'[x].state <=> "HALTED" \in th[x].state
      BY <2>3, <2>4, <2>5
    <2>7. TypeOK'
      <3>1. th' \in [Threads -> ThreadStates]
        BY <2>1, <2>3, <2>4 DEF ThreadInv, TypeOK
      <3> QED BY <1>8, <2>2, <3>1 DEF ThreadInv, TypeOK
    <2>8. HoldsCounted'
      BY <2>6, HoldsStay DEF ThreadInv
    <2>9. CallAgrees(t, pc'[t], call'[t], target'[t]) /\ ~HasStopped(pc'[t], call'[t])
          /\ pc'[t] \in BlockPCs /\ (Asks(pc'[t], call'[t]) <=> Asks(pc[t], call[t]))
      <3>1. "dowait_block" \in BlockPCs /\ "dowait_block" \notin StoppedPCs
        BY DEF BlockPCs, StoppedPCs
      <3> QED BY <1>1, <1>3, <2>2, <3>1 DEF HasStopped
    <2>10. OneRequest'
      BY <2>2, <2>6, <2>9, RequestsStay DEF ThreadInv
    <2>11. th' = [th EXCEPT ![u] = n, ![t] = AssertWait(th[t], u, TRUE)]
      BY <2>1 DEF m
    <2> QED BY <1>1, <1>8, <2>2, <2>3, <2>7, <2>8, <2>9, <2>10, <2>11, SleepStep
  <1> QED BY <1>2, <1>6, <1>7, <1>8 DEF DowaitRound, l

LEMMA DowaitStep ==
    ASSUME ThreadInv, NEW t \in Threads, Dowait(t)
    PROVE  ThreadInv'
  BY DowaitRoundStep DEF Dowait, On

LEMMA DowaitWokenStep ==
    ASSUME ThreadInv, NEW t \in Threads, DowaitWoken(t)
    PROVE  ThreadInv'
  <1>1. pc[t] = "dowait_woken" /\ at[t] = "cpu"
        /\ UNCHANGED <<call, target, evt, work, softclock, stops, unheld_halt, panicked>>
    BY DEF DowaitWoken, On
  <1>2. CASE call[t] = "abort" /\ Goto(t, "halt_fail") /\ UNCHANGED <<th, at>>
    <2>1. pc[t] \in DowaitPCs /\ pc[t] \notin BlockPCs /\ pc[t] # "halted" /\ "halt_fail" \in PCs
      BY <1>1 DEF DowaitPCs, BlockPCs, PCs
    <2>2. target[t] \in Threads \ {t}
      BY <2>1, DowaitIs
    <2>3. CallAgrees(t, "halt_fail", call[t], target[t]) /\ ~HasStopped("halt_fail", call[t])
          /\ Asks("halt_fail", call[t]) /\ Asks(pc[t], call[t])
      BY <1>2, <2>1, <2>2 DEF CallAgrees, HasStopped, Asks, RequestPCs, DowaitPCs, AbortPCs, StoppedPCs
    <2>4. work' \in [Threads -> 0..MaxWork]
      BY <1>1 DEF ThreadInv, TypeOK
    <2> QED BY <1>1, <1>2, <2>1, <2>3, <2>4, MovesOn
  <1>3. CASE DowaitRound(t)
    BY <1>1, <1>3, DowaitRoundStep
  <1> QED BY <1>2, <1>3 DEF DowaitWoken

\* t, which had asked u to halt, asks no more: nobody else asks, or u is halted.
LEMMA RequestEnds ==
    ASSUME ThreadInv, NEW t \in Threads, NEW u \in Threads, Requests(t, u), OnlyMove({t}),
           ~Asks(pc'[t], call'[t]), "HALTED" \in th[u].state => "HALTED" \in th'[u].state,
           \A x \in Threads \ {u} : /\ th'[x].ast_halt = th[x].ast_halt
                                    /\ "HALTED" \in th'[x].state <=> "HALTED" \in th[x].state
    PROVE  OneRequest'
  <1>1. \A v \in Threads \ {t}, x \in Threads : Requests(v, x)' <=> Requests(v, x)
    BY DEF OnlyMove, Requests, Asks
  <1>2. \A x \in Threads : ~Requests(t, x)'
    BY DEF Requests, Asks
  <1>3. OneRequest
    BY DEF ThreadInv
  <1>4. "HALTED" \notin th'[u].state => \A v \in Threads : ~Requests(v, u)'
    BY <1>1, <1>2, <1>3 DEF OneRequest
  <1>5. \A x \in Threads \ {u} : ~Requests(t, x)
    BY DEF Requests
  <1>6. ASSUME NEW x \in Threads, NEW v \in Threads, Requests(v, x)', "HALTED" \notin th'[x].state
        PROVE  th'[x].ast_halt /\ \A w \in Threads : Requests(w, x)' => w = v
    <2>1. CASE x = u
      BY <1>4, <1>6, <2>1
    <2>2. CASE x # u
      <3>1. \A w \in Threads : Requests(w, x)' <=> Requests(w, x)
        BY <1>1, <1>2, <1>5, <2>2
      <3> QED BY <1>3, <1>6, <2>2, <3>1 DEF OneRequest
    <2> QED BY <2>1, <2>2
  <1> QED BY <1>6 DEF OneRequest

LEMMA HaltFailStep ==
    ASSUME ThreadInv, NEW t \in Threads, HaltFail(t)
    PROVE  ThreadInv'
  <1>1. pc[t] = "halt_fail" /\ at[t] = "cpu" /\ Goto(t, "release")
        /\ UNCHANGED <<call, target, evt, work, softclock, stops, unheld_halt>>
    BY DEF HaltFail, On
  <1>2. PICK u \in Threads \ {t} : u = target[t]
    BY <1>1, ClearIs
  <1> DEFINE f == WakeAll(Waiting(u), "INTERRUPTED")
             n == [f[u] EXCEPT !.ast_halt = FALSE]
  <1>3. /\ pc[t] \notin BlockPCs /\ pc[t] # "halted" /\ "release" \in PCs
        /\ CallAgrees(t, "release", call[t], target[t])
        /\ ~Asks("release", call[t]) /\ ~HasStopped("release", call[t]) /\ Requests(t, u)
    BY <1>1, <1>2, ClearIs
  <1>4. SetRun(Waiting(u))
    BY <1>2 DEF HaltFail
  <1>5. /\ f \in [Threads -> ThreadStates] /\ at' \in [Threads -> Places]
        /\ \A x \in Threads :
              /\ SameHolds(th[x], f[x]) /\ SameBits(th[x], f[x], {"WAIT", "RUN"})
              /\ WaitAgrees(f[x])
              /\ \A p : ThreadAgrees(th[x], at[x], p) => ThreadAgrees(f[x], at'[x], p)
              /\ \A p, e : TargetStays(th[x], at[x], p, e) /\ "SUSP" \in th[x].state
                              => TargetStays(f[x], at'[x], p, e)
    BY <1>4, Woke, ResultNames
  <1>6. th' = [f EXCEPT ![u] = n]
    <2>1. th' = [f EXCEPT ![u].ast_halt = FALSE]
      BY <1>2 DEF HaltFail
    <2> HIDE DEF f
    <2> QED BY <1>5, <2>1
  <1> HIDE DEF f
  <1>7. /\ n \in ThreadStates /\ n.state = f[u].state
        /\ n.suspend_count = f[u].suspend_count /\ n.user_stop_count = f[u].user_stop_count
        /\ ~n.ast_halt
        /\ WaitAgrees(n)
        /\ \A a, p : ThreadAgrees(f[u], a, p) => ThreadAgrees(n, a, p)
        /\ \A a, p, e : TargetStays(f[u], a, p, e) => TargetStays(n, a, p, e)
    BY <1>5, AstHaltIs
  <1> HIDE DEF n
  <1>8. th'[u] = n /\ (\A x \in Threads \ {u} : th'[x] = f[x]) /\ th' \in [Threads -> ThreadStates]
    BY <1>5, <1>6, <1>7
  <1>9. pc' \in [Threads -> PCs] /\ pc'[t] = "release" /\ \A x \in Threads \ {t} : pc'[x] = pc[x]
    BY <1>1, <1>3 DEF Goto, ThreadInv, TypeOK
  <1>10. OnlyMove({t})
    BY <1>1, <1>9 DEF OnlyMove
  <1>11. panicked' \in BOOLEAN /\ ~panicked'
    BY <1>2, EventNames, ListedWait DEF HaltFail
  <1>12. TypeOK'
    <2>1. at' \in [Threads -> {"cpu", "runq", "switch", "off"}]
      BY <1>5 DEF Places
    <2>2. panicked' \in BOOLEAN
      BY <1>11
    <2> QED BY <1>1, <1>8, <1>9, <2>1, <2>2 DEF ThreadInv, TypeOK
  <1>13. CallsAgree'
    <2>1. \A v \in {t} : CallAgrees(v, pc'[v], call'[v], target'[v])
      BY <1>1, <1>3, <1>9
    <2> QED BY <1>10, <2>1, CallsStay DEF ThreadInv
  <1>14. \A x \in Threads : /\ f[x].suspend_count = th[x].suspend_count
                            /\ f[x].user_stop_count = th[x].user_stop_count
                            /\ f[x].ast_halt = th[x].ast_halt
                            /\ "HALTED" \in f[x].state <=> "HALTED" \in th[x].state
    BY <1>5, SameIs
  <1>15. HoldsCounted'
    <2>1. \A x \in Threads : /\ th'[x].suspend_count = th[x].suspend_count
                             /\ th'[x].user_stop_count = th[x].user_stop_count
      BY <1>7, <1>8, <1>14
    <2> QED BY <1>1, <2>1, HoldsStay DEF ThreadInv
  <1>16. OneRequest'
    <2>1. \A x \in Threads \ {u} : /\ th'[x].ast_halt = th[x].ast_halt
                                   /\ "HALTED" \in th'[x].state <=> "HALTED" \in th[x].state
      BY <1>8, <1>14
    <2>2. "HALTED" \in th[u].state => "HALTED" \in th'[u].state
      BY <1>7, <1>8, <1>14
    <2> QED BY <1>1, <1>3, <1>9, <1>10, <2>1, <2>2, RequestEnds
  <1>17. \A x \in Threads : WaitAgrees(th'[x])
    BY <1>5, <1>7, <1>8
  <1>18. ASSUME ~unheld_halt, NEW x \in Threads
         PROVE  ThreadAgrees(th'[x], at'[x], pc'[x])
    <2>1. ThreadAgrees(th[x], at[x], pc'[x])
      <3>1. CASE x = t
        BY <1>1, <1>3, <1>18, <3>1, Typed, OnCpu
      <3>2. CASE x # t
        BY <1>9, <1>18, <3>2, Typed
      <3> QED BY <3>1, <3>2
    <2> QED BY <1>5, <1>7, <1>8, <2>1
  <1>19. ASSUME ~unheld_halt PROVE TargetsStopped'
    <2>1. ASSUME NEW v \in Threads \ {t}, HasStopped(pc[v], call[v])
          PROVE  TargetStays(th'[target[v]], at'[target[v]], pc[v], evt[v])
      <3>1. target[v] \in Threads /\ TargetStays(th[target[v]], at[target[v]], pc[v], evt[v])
            /\ "SUSP" \in th[target[v]].state
        BY <1>19, <2>1, StoppedIsHeld DEF HasStopped
      <3>2. TargetStays(f[target[v]], at'[target[v]], pc[v], evt[v])
        BY <1>5, <3>1
      <3> QED BY <1>7, <1>8, <3>1, <3>2
    <2>2. \A v \in {t} : HasStopped(pc'[v], call'[v])
             => TargetStays(th'[target'[v]], at'[target'[v]], pc'[v], evt'[v])
      BY <1>1, <1>3, <1>9
    <2> QED BY <1>10, <2>1, <2>2, TargetsStay
  <1>20. unheld_halt' = unheld_halt
    BY <1>1
  <1> QED BY <1>12, <1>13, <1>15, <1>16, <1>17, <1>18, <1>19, <1>11, <1>20 DEF ThreadInv

\* What a thread_abort that has cleared u's wait, and found it stopped, knows.
LEMMA CheckIs ==
    ASSUME ThreadInv, NEW t \in Threads, pc[t] = "check", NEW u \in Threads, u = target[t],
           ~unheld_halt
    PROVE  /\ th[u].state \ {"HALTED"} = {"SUSP"} /\ at[u] = "off"
           /\ ThreadAgrees(th[u], at[u], pc[u])
           /\ "HALTED" \notin th[u].state =>
                 \A v \in Threads \ {t} : HasStopped(pc[v], call[v]) => target[v] # u
  <1>1. call[t] = "abort" /\ Requests(t, u)
    BY ClearIs DEF StoppedPCs
  <1>2. TargetStays(th[u], at[u], "check", evt[t]) /\ "SUSP" \in th[u].state
    BY <1>1, StoppedIsHeld DEF HasStopped, StoppedPCs
  <1>3. ThreadAgrees(th[u], at[u], pc[u]) /\ th[u].state \in SUBSET Bits
    BY Typed
  <1>4. at[u] = "off" /\ "RUN" \notin th[u].state /\ "WAIT" \notin th[u].state
        /\ "UNINT" \notin th[u].state
    BY <1>2, <1>3 DEF TargetStays, ThreadAgrees
  <1>5. ASSUME "HALTED" \notin th[u].state,
               NEW v \in Threads \ {t}, HasStopped(pc[v], call[v]), target[v] = u
        PROVE  FALSE
    <2>1. Requests(v, u)
      BY <1>5 DEF HasStopped, Requests, Asks, RequestPCs, DowaitPCs
    <2> QED BY <1>1, <1>5, <2>1 DEF ThreadInv, OneRequest
  <1>6. th[u].state \ {"HALTED"} = {"SUSP"}
    BY <1>2, <1>3, <1>4 DEF Bits
  <1> QED BY <1>3, <1>4, <1>5, <1>6

LEMMA HaltCheckStep ==
    ASSUME ThreadInv, NEW t \in Threads, HaltCheck(t)
    PROVE  ThreadInv'
  <1>1. pc[t] = "check" /\ at[t] = "cpu" /\ pc[t] \in StoppedPCs
        /\ UNCHANGED <<call, target, evt, softclock, stops, unheld_halt>>
    BY DEF HaltCheck, On, StoppedPCs
  <1>2. PICK u \in Threads \ {t} : u = target[t]
    BY <1>1, ClearIs
  <1> DEFINE k == th[u]
  <1>3. /\ pc[t] \notin BlockPCs /\ pc[t] # "halted" /\ Requests(t, u) /\ Asks(pc[t], call[t])
        /\ \A l \in {"dowait", "release"} :
              /\ l \in PCs /\ CallAgrees(t, l, call[t], target[t]) /\ ~HasStopped(l, call[t])
        /\ ~Asks("release", call[t]) /\ Asks("dowait", call[t])
    BY <1>1, <1>2, ClearIs
  <1>4. k \in ThreadStates /\ k.state \in SUBSET Bits /\ WaitAgrees(k)
        /\ work \in [Threads -> 0..MaxWork]
    BY Typed DEF ThreadInv, TypeOK
  <1>5. ~unheld_halt => /\ k.state \ {"HALTED"} = {"SUSP"} /\ at[u] = "off"
                        /\ ThreadAgrees(k, at[u], pc[u])
                        /\ "HALTED" \notin k.state =>
                              \A v \in Threads \ {t} : HasStopped(pc[v], call[v]) => target[v] # u
    BY <1>1, <1>2, CheckIs
  <1>6. ASSUME NEW l \in PCs, Goto(t, l)
        PROVE  OnlyMove({t}) /\ pc' \in [Threads -> PCs] /\ pc'[t] = l
    BY <1>1, <1>6 DEF Goto, OnlyMove, ThreadInv, TypeOK
  \* Whatever of u changes but its holds, as long as it agrees; nothing if it is halted.
  <1>7. ASSUME NEW l \in {"dowait", "release"}, Goto(t, l), NEW n \in ThreadStates, NEW b \in Places,
               Changes(u, n, b), work' \in [Threads -> 0..MaxWork], UNCHANGED panicked,
               n.suspend_count = k.suspend_count, n.user_stop_count = k.user_stop_count,
               WaitAgrees(n), OneRequest', "HALTED" \in k.state => n = k /\ b = at[u],
               ~unheld_halt => \A p : ThreadAgrees(k, at[u], p) => ThreadAgrees(n, b, p)
        PROVE  ThreadInv'
    <2>1. OnlyMove({t}) /\ pc' \in [Threads -> PCs] /\ pc'[t] = l
      BY <1>3, <1>6, <1>7
    <2>2. th'[u] = n /\ \A x \in Threads \ {u} : th'[x] = th[x]
      BY <1>7 DEF Changes, ThreadInv, TypeOK
    <2>3. TypeOK'
      <3>1. th' \in [Threads -> ThreadStates] /\ at' \in [Threads -> {"cpu", "runq", "switch", "off"}]
        BY <1>7 DEF Changes, Places, ThreadInv, TypeOK
      <3> QED BY <1>1, <1>7, <2>1, <3>1 DEF ThreadInv, TypeOK
    <2>4. HoldsCounted'
      BY <1>1, <1>7, <2>2, HoldsStay DEF ThreadInv
    <2>5. CallAgrees(t, pc'[t], call'[t], target'[t]) /\ ~HasStopped(pc'[t], call'[t])
      BY <1>1, <1>3, <2>1
    <2>6. ~unheld_halt => \A v \in Threads \ {t} :
             HasStopped(pc[v], call[v]) /\ target[v] = u => TargetStays(n, b, pc[v], evt[v])
      <3>1. CASE "HALTED" \in k.state
        BY <1>7, <3>1, StoppedIsHeld DEF HasStopped
      <3>2. CASE "HALTED" \notin k.state
        BY <1>5, <3>2
      <3> QED BY <3>1, <3>2
    <2> QED BY <1>1, <1>3, <1>7, <2>1, <2>3, <2>4, <2>5, <2>6, CallStep
  <1>8. CASE "HALTED" \in k.state /\ Goto(t, "release") /\ UNCHANGED <<th, at, work, panicked>>
    <2>1. OnlyMove({t}) /\ pc'[t] = "release"
      BY <1>3, <1>6, <1>8
    <2>2. OneRequest'
      BY <1>1, <1>3, <1>8, <2>1, RequestEnds
    <2>3. Changes(u, k, at[u])
      BY <1>8 DEF Changes, ThreadInv, TypeOK
    <2>4. at[u] \in Places
      BY Typed
    <2> QED BY <1>4, <1>7, <1>8, <2>2, <2>3, <2>4
  <1>9. CASE /\ "HALTED" \notin k.state /\ pc[u] = "kernel"
             /\ th' = [th EXCEPT ![u].state = @ \cup {"HALTED"}, ![u].ast_halt = FALSE]
             /\ work' = [work EXCEPT ![u] = 0]
             /\ Goto(t, "release")
             /\ UNCHANGED <<at, panicked>>
    <2> DEFINE s == k.state \cup {"HALTED"}
               n == [k EXCEPT !.state = s, !.ast_halt = FALSE]
    <2>1. Changes(u, n, at[u])
      BY <1>9 DEF Changes, ThreadInv, TypeOK
    <2>2. s \in SUBSET Bits /\ "HALTED" \in s
          /\ \A x \in {"WAIT", "SUSP", "RUN", "UNINT"} : x \in s <=> x \in k.state
      BY <1>4 DEF Bits
    <2> HIDE DEF s
    <2>3. n \in ThreadStates /\ n.state = s /\ n.suspend_count = k.suspend_count
          /\ n.user_stop_count = k.user_stop_count /\ ~n.ast_halt
          /\ n.wait_event = k.wait_event /\ n.timer = k.timer
      BY <1>4, <2>2 DEF ThreadStates
    <2> HIDE DEF n
    <2>4. WaitAgrees(n)
      BY <1>4, <2>2, <2>3 DEF WaitAgrees
    <2>5. ~unheld_halt => \A p : ThreadAgrees(k, at[u], p) => ThreadAgrees(n, at[u], p)
      <3>1. ~unheld_halt => at[u] = "off" /\ "SUSP" \in k.state /\ "WAIT" \notin k.state
                           /\ "UNINT" \notin k.state
        BY <1>5
      <3> QED BY <2>2, <2>3, <3>1 DEF ThreadAgrees
    <2>6. OnlyMove({t}) /\ pc'[t] = "release"
      BY <1>3, <1>6, <1>9
    <2>7. th'[u] = n /\ \A x \in Threads \ {u} : th'[x] = th[x]
      BY <2>1 DEF Changes, ThreadInv, TypeOK
    <2>8. OneRequest'
      BY <1>1, <1>3, <1>9, <2>6, <2>7, RequestEnds
    <2>9. work' \in [Threads -> 0..MaxWork]
      BY <1>4, <1>9, ThreadAssumption
    <2>10. at[u] \in Places
      BY Typed
    <2> QED BY <1>7, <1>9, <2>1, <2>3, <2>4, <2>5, <2>8, <2>9, <2>10
  <1>10. CASE /\ "HALTED" \notin k.state /\ Sched(k) = {"SUSP"}
              /\ th' = [th EXCEPT ![u].state = @ \cup {"RUN", "UNINT"}]
              /\ at' = [at EXCEPT ![u] = "runq"]
              /\ Goto(t, "dowait") /\ UNCHANGED <<work, panicked>>
    <2> DEFINE s == k.state \cup {"RUN", "UNINT"}
               n == [k EXCEPT !.state = s]
    <2>1. Changes(u, n, "runq")
      BY <1>10 DEF Changes, ThreadInv, TypeOK
    <2>2. s \in SUBSET Bits /\ "RUN" \in s /\ "HALTED" \notin s /\ "WAIT" \notin s
          /\ \A x \in {"WAIT", "SUSP", "HALTED"} : x \in s <=> x \in k.state
      BY <1>4, <1>10 DEF Bits, Sched
    <2> HIDE DEF s
    <2>3. n \in ThreadStates /\ n.state = s /\ n.suspend_count = k.suspend_count
          /\ n.user_stop_count = k.user_stop_count /\ n.ast_halt = k.ast_halt
          /\ n.wait_event = k.wait_event /\ n.timer = k.timer
      BY <1>4, <2>2 DEF ThreadStates
    <2> HIDE DEF n
    <2>4. WaitAgrees(n)
      BY <1>4, <2>2, <2>3 DEF WaitAgrees
    <2>5. \A p : ThreadAgrees(k, at[u], p) => ThreadAgrees(n, "runq", p)
      BY <2>2, <2>3 DEF ThreadAgrees
    <2>6. OnlyMove({t}) /\ pc'[t] = "dowait"
      BY <1>3, <1>6, <1>10
    <2>7. th'[u] = n /\ \A x \in Threads \ {u} : th'[x] = th[x]
      BY <2>1 DEF Changes, ThreadInv, TypeOK
    <2>8. OneRequest'
      <3>1. \A x \in Threads : /\ th'[x].ast_halt = th[x].ast_halt
                               /\ "HALTED" \in th'[x].state <=> "HALTED" \in th[x].state
        BY <2>2, <2>3, <2>7
      <3> QED BY <1>1, <1>3, <2>6, <3>1, RequestsStay DEF ThreadInv
    <2> QED BY <1>4, <1>7, <1>10, <2>1, <2>3, <2>4, <2>5, <2>8 DEF Places
  <1>11. CASE /\ "HALTED" \notin k.state /\ Sched(k) # {"SUSP"}
              /\ panicked' = TRUE /\ UNCHANGED <<th, at, work>> /\ Goto(t, "dowait")
    <2>1. unheld_halt
      <3>1. k.state \ {"HALTED"} = {"SUSP"} => Sched(k) = {"SUSP"}
        BY DEF Sched
      <3> QED BY <1>5, <1>11, <3>1
    <2>2. Changes(t, th[t], at[t])
      BY <1>11 DEF Changes, ThreadInv, TypeOK
    <2>3. panicked' \in BOOLEAN /\ at[t] # "off"
      BY <1>1, <1>11
    <2> QED BY <1>1, <1>3, <1>4, <1>11, <2>1, <2>2, <2>3, Typed, Advances
  <1> QED BY <1>2, <1>8, <1>9, <1>10, <1>11 DEF HaltCheck

LEMMA ThreadHaltSelfStep ==
    ASSUME ThreadInv, NEW t \in Threads, ThreadHaltSelf(t)
    PROVE  ThreadInv'
  <1> DEFINE k == th[t]
             s == k.state \cup {"HALTED"}
             n == [k EXCEPT !.state = s, !.ast_halt = FALSE]
  <1>1. pc[t] = "halt_self" /\ at[t] = "cpu" /\ Goto(t, "halted") /\ work' = [work EXCEPT ![t] = 0]
        /\ unheld_halt' = (unheld_halt \/ "SUSP" \notin k.state)
        /\ UNCHANGED <<at, call, target, evt, softclock, stops, panicked>>
    BY DEF ThreadHaltSelf, On
  <1>2. th' = [th EXCEPT ![t] = n]
    BY DEF ThreadHaltSelf, ThreadInv, TypeOK
  <1>3. k \in ThreadStates /\ k.state \in SUBSET Bits /\ WaitAgrees(k)
    BY Typed
  <1>4. s \in SUBSET Bits /\ "HALTED" \in s
        /\ \A x \in {"WAIT", "SUSP", "RUN", "UNINT"} : x \in s <=> x \in k.state
    BY <1>3 DEF Bits
  <1> HIDE DEF s
  <1>5. n \in ThreadStates /\ n.state = s /\ n.suspend_count = k.suspend_count
        /\ n.user_stop_count = k.user_stop_count /\ ~n.ast_halt
        /\ n.wait_event = k.wait_event /\ n.timer = k.timer
    BY <1>3, <1>4 DEF ThreadStates
  <1> HIDE DEF n
  <1>6. th'[t] = n /\ (\A x \in Threads \ {t} : th'[x] = th[x]) /\ th' \in [Threads -> ThreadStates]
    BY <1>2, <1>5 DEF ThreadInv, TypeOK
  <1>7. pc' \in [Threads -> PCs] /\ pc'[t] = "halted" /\ \A x \in Threads \ {t} : pc'[x] = pc[x]
    BY <1>1, PCNames DEF Goto, ThreadInv, TypeOK
  <1>8. OnlyMove({t})
    BY <1>1, <1>7 DEF OnlyMove
  <1>9. CallAgrees(t, "halted", call[t], target[t]) /\ ~Asks("halted", call[t])
        /\ ~Asks(pc[t], call[t]) /\ ~HasStopped("halted", call[t]) /\ pc[t] \notin BlockPCs
    <2>1. "halted" \in Elsewhere /\ pc[t] \in Elsewhere
      BY <1>1 DEF Elsewhere
    <2> QED BY <1>1, <2>1, StaysElsewhere, ElsewhereIs, Typed
  <1>10. TypeOK'
    <2>1. work' \in [Threads -> 0..MaxWork] /\ unheld_halt' \in BOOLEAN
      BY <1>1, ThreadAssumption DEF ThreadInv, TypeOK
    <2> QED BY <1>1, <1>6, <1>7, <2>1 DEF ThreadInv, TypeOK
  <1>11. CallsAgree'
    <2>1. \A v \in {t} : CallAgrees(v, pc'[v], call'[v], target'[v])
      BY <1>1, <1>7, <1>9
    <2> QED BY <1>8, <2>1, CallsStay DEF ThreadInv
  <1>12. HoldsCounted'
    <2>1. \A x \in Threads : /\ th'[x].suspend_count = th[x].suspend_count
                             /\ th'[x].user_stop_count = th[x].user_stop_count
      BY <1>5, <1>6
    <2> QED BY <1>1, <2>1, HoldsStay DEF ThreadInv
  <1>13. OneRequest'
    <2>1. \A v, x \in Threads : Requests(v, x)' <=> Requests(v, x)
      BY <1>1, <1>7, <1>8, <1>9 DEF Requests, Asks, OnlyMove
    <2>2. \A x \in Threads : "HALTED" \notin th'[x].state => th'[x] = th[x]
      BY <1>4, <1>5, <1>6
    <2> QED BY <2>1, <2>2 DEF ThreadInv, OneRequest
  <1>14. \A x \in Threads : WaitAgrees(th'[x])
    <2>1. WaitAgrees(n)
      BY <1>3, <1>4, <1>5 DEF WaitAgrees
    <2> QED BY <1>6, <2>1, Typed
  <1>15. ASSUME ~unheld_halt', NEW x \in Threads
         PROVE  ThreadAgrees(th'[x], at'[x], pc'[x])
    <2>1. ~unheld_halt /\ "SUSP" \in k.state
      BY <1>1, <1>15
    <2>2. CASE x = t
      <3>1. ThreadAgrees(k, "cpu", "halt_self")
        BY <1>1, <2>1, Typed
      <3>2. "WAIT" \notin k.state /\ "UNINT" \notin k.state
        BY <1>1, <1>9, <3>1 DEF ThreadAgrees
      <3>3. ThreadAgrees(n, "cpu", "halted")
        BY <1>4, <1>5, <2>1, <3>1, <3>2 DEF ThreadAgrees
      <3> QED BY <1>1, <1>6, <1>7, <2>2, <3>3
    <2>3. CASE x # t
      BY <1>1, <1>6, <1>7, <2>1, <2>3, Typed
    <2> QED BY <2>2, <2>3
  <1>16. ASSUME ~unheld_halt' PROVE TargetsStopped'
    <2>1. ~unheld_halt
      BY <1>1, <1>16
    <2>2. ASSUME NEW v \in Threads \ {t}, HasStopped(pc[v], call[v])
          PROVE  TargetStays(th'[target[v]], at'[target[v]], pc[v], evt[v])
      <3>1. target[v] \in Threads /\ TargetStays(th[target[v]], at[target[v]], pc[v], evt[v])
            /\ at[target[v]] = "off"
        BY <2>1, <2>2, StoppedIsHeld DEF HasStopped
      <3> QED BY <1>1, <1>6, <3>1
    <2>3. \A v \in {t} : HasStopped(pc'[v], call'[v])
             => TargetStays(th'[target'[v]], at'[target'[v]], pc'[v], evt'[v])
      BY <1>1, <1>7, <1>9
    <2> QED BY <1>8, <2>2, <2>3, TargetsStay
  <1>17. ~unheld_halt' => ~panicked'
    BY <1>1, Typed
  <1> QED BY <1>10, <1>11, <1>12, <1>13, <1>14, <1>15, <1>16, <1>17 DEF ThreadInv

-----------------------------------------------------------------------------
(* The theorems                                                            *)

LEMMA ThreadInit ==
    ASSUME Init
    PROVE  ThreadInv
  <1> DEFINE k == [state |-> {"RUN"}, wait_event |-> NoEvent,
                   wait_result |-> "AWAKENED", timer |-> FALSE,
                   suspend_count |-> 0, user_stop_count |-> 0,
                   wake_active |-> FALSE, ast_halt |-> FALSE]
  <1>1. k \in ThreadStates
    <2>1. {"RUN"} \in SUBSET Bits /\ NoEvent \in AllEvents /\ 0 \in 0..MaxHolds /\ 0 \in 0..MaxStops
      BY HoldsType, ThreadAssumption, ClockTypes DEF Bits
    <2> QED BY <2>1, ResultNames DEF ThreadStates
  <1>2. /\ k.state = {"RUN"} /\ k.wait_event = NoEvent /\ ~k.timer /\ k.suspend_count = 0
        /\ k.user_stop_count = 0 /\ ~k.ast_halt
    OBVIOUS
  <1>3. th = [t \in Threads |-> k]
    BY DEF Init
  <1> HIDE DEF k
  <1>4. \A t \in Threads : /\ th[t] = k /\ at[t] = "runq" /\ pc[t] = "kernel"
                           /\ call[t] = "none" /\ target[t] = NoThread
    BY <1>3 DEF Init
  <1>5. TypeOK
    <2>1. "kernel" \in PCs
      BY DEF PCs
    <2>2. th \in [Threads -> ThreadStates] /\ pc \in [Threads -> PCs]
      BY <1>1, <1>3, <2>1 DEF Init
    <2>3. work \in [Threads -> 0..MaxWork] /\ evt \in [Threads -> AllEvents]
      BY ClockTypes, ThreadAssumption DEF Init
    <2>4. softclock \in [step: {"idle", "timeout", "clear", "failed"},
                         thread: Threads \cup {NoThread}, event: AllEvents]
          /\ softclock.step = "idle"
      BY ClockTypes DEF Init, SoftclockIdle
    <2> QED BY <2>2, <2>3, <2>4 DEF Init, TypeOK
  <1>6. CallsAgree
    BY <1>4 DEF CallsAgree, CallAgrees, DowaitPCs, AbortPCs, StoppedPCs
  <1>7. HoldsCounted
    <2>1. \A u \in Threads : Cardinality(HoldingCalls(u)) = 0
      <3>1. \A u \in Threads : HoldingCalls(u) = {}
        BY <1>4 DEF HoldingCalls
      <3> QED BY <3>1, FS_EmptySet
    <2> QED BY <1>2, <1>4, <2>1 DEF HoldsCounted
  <1>8. OneRequest
    BY <1>2, <1>4 DEF OneRequest, Requests, Asks
  <1>9. \A t \in Threads : WaitAgrees(th[t]) /\ ThreadAgrees(th[t], at[t], pc[t])
    BY <1>2, <1>4 DEF WaitAgrees, ThreadAgrees
  <1>10. TargetsStopped
    BY <1>4 DEF TargetsStopped, HasStopped
  <1> QED BY <1>5, <1>6, <1>7, <1>8, <1>9, <1>10 DEF ThreadInv, Init

LEMMA ThreadNext ==
    ASSUME ThreadInv, [Next]_vars
    PROVE  ThreadInv'
  <1>1. ASSUME NEW t \in Threads, Continue(t)
        PROVE  ThreadInv'
    BY <1>1, ThreadBlockStep, ReturnToUserStep, AstHaltStep, ThreadHaltSelfStep, SuspendReturnStep,
       DowaitStep, DowaitWokenStep, DowaitWakeupStep, HaltWokenStep, HaltAgainStep, HaltFailStep,
       HaltClearStep, HaltClearEventStep, HaltCheckStep, AbortReleaseStep DEF Continue
  <1>2. ASSUME NEW t \in Threads, Call(t)
        PROVE  ThreadInv'
    BY <1>2, EnterKernelStep, AssertEventWaitStep, ThreadWillWaitStep, ThreadSetTimeoutStep,
       ThreadSuspendStep, ThreadResumeStep, ThreadAbortStep DEF Call
  <1>3. ASSUME NEW t \in Threads, Schedule(t)
        PROVE  ThreadInv'
    BY <1>3, RunStep, DispatchStep, AnnounceStopStep DEF Schedule
  <1>4. CASE Softclock
    BY <1>4, SoftclockExpireStep, ThreadTimeoutStep, ThreadTimeoutClearStep DEF Softclock
  <1>5. ASSUME NEW e \in Events, Wakeup(e)
        PROVE  ThreadInv'
    BY <1>5, WakeupStep
  <1>6. ASSUME NEW t \in Threads, ThreadGo(t)
        PROVE  ThreadInv'
    BY <1>6, ThreadGoStep
  <1>7. CASE UNCHANGED vars
    <2>1. UNCHANGED <<th, at, pc, call, target, evt, work, softclock, stops, unheld_halt, panicked>>
      BY <1>7 DEF vars
    <2>2. TypeOK'
      BY <2>1 DEF ThreadInv, TypeOK
    <2> QED BY <2>1, <2>2, NothingMoves
  <1> QED BY <1>1, <1>2, <1>3, <1>4, <1>5, <1>6, <1>7 DEF Next

\* The inductive invariant of thread_abort, thread_suspend and thread_resume: the
\* holds of a thread are those of the calls that stop it, at most one of them asks
\* it to halt before it is halted, and, until a thread that nobody holds halts
\* itself, the bits of every thread agree with the queues, a stopped target stays
\* stopped and nothing panics.
THEOREM ThreadInvariant == Spec => []ThreadInv
  BY ThreadInit, ThreadNext, PTL DEF Spec

\* Every variable has its type; in particular suspend_count stays within one
\* hold of each other thread and one of the user.
THEOREM ThreadTypeCorrect == Spec => []TypeOK
  <1>1. ThreadInv => TypeOK
    BY DEF ThreadInv
  <1> QED BY <1>1, ThreadInvariant, PTL

\* A timer is on the queue only while its thread waits (set_timeout,
\* thread_set_timeout and the reset in clear_wait and thread_wakeup_prim).
THEOREM TimersOnlyWhileWaiting == Spec => []TimerOnlyWhileWaiting
  <1>1. ThreadInv => TimerOnlyWhileWaiting
    BY DEF ThreadInv, WaitAgrees, TimerOnlyWhileWaiting
  <1> QED BY <1>1, ThreadInvariant, PTL

\* thread_hold and thread_release, thread_suspend and thread_resume: the
\* suspend_count is that of the calls and of the user, and TH_SUSP says so.
THEOREM HoldsAreBalanced == Spec => []HoldsBalanced
  <1>1. ASSUME ThreadInv PROVE HoldsBalanced
    <2>1. ASSUME ~unheld_halt, NEW u \in Threads
          PROVE  /\ th[u].suspend_count = Cardinality(HoldingCalls(u)) +
                                          (IF th[u].user_stop_count > 0 THEN 1 ELSE 0)
                 /\ "SUSP" \in th[u].state <=> th[u].suspend_count > 0
      BY <1>1, <2>1, HoldsAre, Typed DEF ThreadAgrees
    <2> QED BY <2>1 DEF HoldsBalanced
  <1> QED BY <1>1, ThreadInvariant, PTL

\* The state bits of every thread agree with the run queues, the processors and
\* the event queues, through every wakeup, dispatch, hold, release and halt, until
\* a thread that nobody holds halts itself.
THEOREM StatesMatchQueues == Spec => []StateMatchesQueues
  <1>1. ASSUME ThreadInv PROVE StateMatchesQueues
    <2>1. ASSUME ~unheld_halt, NEW t \in Threads
          PROVE  /\ "RUN" \in th[t].state <=> at[t] # "off"
                 /\ "WAIT" \in th[t].state => at[t] # "runq"
                 /\ th[t].wait_event # NoEvent => "WAIT" \in th[t].state
                 /\ at[t] = "off" => th[t].state \cap {"WAIT", "SUSP"} # {}
      BY <1>1, <2>1, Typed DEF WaitAgrees, ThreadAgrees
    <2> QED BY <2>1 DEF StateMatchesQueues
  <1> QED BY <1>1, ThreadInvariant, PTL

\* "Don't need a lock because it really is stopped" (thread_halt): between the
\* return of thread_dowait and the end of the check, nothing runs the target,
\* until a thread that nobody holds halts itself.
THEOREM TargetsReallyStopped == Spec => []ReallyStopped
  <1>1. ASSUME ThreadInv PROVE ReallyStopped
    <2>1. ASSUME ~unheld_halt, NEW t \in Threads, pc[t] \in {"clear", "clear_event", "check"}
          PROVE  at[target[t]] = "off"
      <3>1. pc[t] \in StoppedPCs
        BY <2>1 DEF StoppedPCs
      <3> QED BY <1>1, <2>1, <3>1, ClearIs, StoppedIsHeld DEF HasStopped
    <2> QED BY <2>1 DEF ReallyStopped
  <1> QED BY <1>1, ThreadInvariant, PTL

\* "We know that the thread is suspended and not waiting" (thread_halt): the
\* target that is made to run to a clean point has no other bit, until a thread
\* that nobody holds halts itself.
THEOREM NeverWaitingWhenForced == Spec => []NotWaitingWhenForced
  <1>1. ASSUME ThreadInv PROVE NotWaitingWhenForced
    <2>1. ASSUME ~unheld_halt, NEW t \in Threads, pc[t] = "check"
          PROVE  Sched(th[target[t]]) = {"SUSP"}
      <3>1. pc[t] \in StoppedPCs
        BY <2>1 DEF StoppedPCs
      <3>2. target[t] \in Threads
        BY <1>1, <3>1, ClearIs
      <3>3. th[target[t]].state \ {"HALTED"} = {"SUSP"}
        BY <1>1, <2>1, <3>2, CheckIs
      <3> QED BY <3>3 DEF Sched
    <2> QED BY <2>1 DEF NotWaitingWhenForced
  <1> QED BY <1>1, ThreadInvariant, PTL

\* The panics of thread_dispatch, thread_halt, assert_wait and thread_wakeup have
\* one cause: a thread that nobody held went through thread_halt_self, whose
\* request was dropped or left behind, as the run thread_left shows.
THEOREM OnlyAnUnheldHaltPanics == Spec => [](panicked => unheld_halt)
  <1>1. ThreadInv => (panicked => unheld_halt)
    BY DEF ThreadInv
  <1> QED BY <1>1, ThreadInvariant, PTL

-----------------------------------------------------------------------------
(* Stops are announced                                                     *)

\* Somebody will wake those that wait for u to stop.
Announced(u) ==
    \/ th[u].wake_active
    \/ u \in stops
    \/ \E v \in Threads : pc[v] = "dowait_wakeup" /\ target[v] = u

StopsAnnounced == \A t, u \in Threads : th[t].wait_event = u => Announced(u)

LEMMA AnnouncedStays ==
    ASSUME StopsAnnounced,
           \A u \in Threads : Announced(u) => Announced(u)' \/ \A x \in Threads : th'[x].wait_event # u,
           \A x, u \in Threads : th'[x].wait_event = u => th[x].wait_event = u \/ Announced(u)'
    PROVE  StopsAnnounced'
  <1> SUFFICES ASSUME NEW x \in Threads, NEW u \in Threads, th'[x].wait_event = u
               PROVE  Announced(u)'
    BY DEF StopsAnnounced
  <1> QED BY DEF StopsAnnounced

\* A thread with structure n has no wait that it did not have with k.
SameWait(k, n) ==
    /\ n.wake_active = k.wake_active
    /\ n.wait_event = k.wait_event \/ n.wait_event \notin Threads

SameWaits == \A x \in Threads : SameWait(th[x], th'[x])

\* A thread about to wake those that wait for another thread stays about to.
WakersStay ==
    \A v \in Threads : pc[v] = "dowait_wakeup" => pc'[v] = "dowait_wakeup" /\ target'[v] = target[v]

LEMMA QuietStep ==
    ASSUME StopsAnnounced, stops' = stops, WakersStay, SameWaits
    PROVE  StopsAnnounced'
  BY AnnouncedStays DEF Announced, WakersStay, SameWaits, SameWait

LEMMA SameWaitIs ==
    ASSUME NEW k \in ThreadStates
    PROVE  /\ \A r : SameWait(k, Woken(k, r))
           /\ SameWait(k, Held(k)) /\ SameWait(k, Released(k))
           /\ \A s : SameWait(k, [k EXCEPT !.state = s])
           /\ \A c : SameWait(k, [k EXCEPT !.suspend_count = c])
           /\ \A c : SameWait(k, [k EXCEPT !.user_stop_count = c])
           /\ \A b : SameWait(k, [k EXCEPT !.timer = b])
           /\ \A b : SameWait(k, [k EXCEPT !.ast_halt = b])
           /\ \A s, b : SameWait(k, [k EXCEPT !.state = s, !.ast_halt = b])
           /\ \A s, b : SameWait(k, [k EXCEPT !.state = s, !.timer = b])
           /\ \A e \in Events \cup {NoEvent} : \A i : SameWait(k, AssertWait(k, e, i))
  <1>1. \A r : SameWait(k, Woken(k, r))
    BY EventsAre DEF Woken, SameWait, ThreadStates
  <1>2. SameWait(k, Held(k)) /\ SameWait(k, Released(k))
    BY DEF Held, Released, SameWait, ThreadStates
  <1>3. \A e \in Events \cup {NoEvent} : \A i : SameWait(k, AssertWait(k, e, i))
    BY ThreadAssumption DEF AssertWait, SameWait, ThreadStates
  <1>4. /\ \A s : SameWait(k, [k EXCEPT !.state = s])
        /\ \A c : SameWait(k, [k EXCEPT !.suspend_count = c])
        /\ \A c : SameWait(k, [k EXCEPT !.user_stop_count = c])
        /\ \A b : SameWait(k, [k EXCEPT !.timer = b])
        /\ \A b : SameWait(k, [k EXCEPT !.ast_halt = b])
        /\ \A s, b : SameWait(k, [k EXCEPT !.state = s, !.ast_halt = b])
        /\ \A s, b : SameWait(k, [k EXCEPT !.state = s, !.timer = b])
    BY DEF SameWait, ThreadStates
  <1> QED BY <1>1, <1>2, <1>3, <1>4

LEMMA WokeWaits ==
    ASSUME ThreadInv, NEW ts, NEW r, NEW u \in Threads
    PROVE  SameWait(th[u], WakeAll(ts, r)[u])
  <1>1. WakeAll(ts, r)[u] = IF u \in ts THEN Woken(th[u], r) ELSE th[u]
    BY DEF WakeAll
  <1> QED BY <1>1, Typed, SameWaitIs DEF SameWait

LEMMA OneWaits ==
    ASSUME ThreadInv, NEW u \in Threads, NEW n, SameWait(th[u], n), th' = [th EXCEPT ![u] = n]
    PROVE  SameWaits
  BY DEF SameWait, SameWaits, ThreadInv, TypeOK

LEMMA WakersGo ==
    ASSUME ThreadInv, NEW t \in Threads, pc[t] # "dowait_wakeup",
           NEW l, Goto(t, l), UNCHANGED target \/ \E c, u : Begin(t, c, u)
    PROVE  WakersStay
  BY DEF WakersStay, Goto, Begin, ThreadInv, TypeOK

\* Steps that change no structure.
LEMMA PlainAnnounced ==
    ASSUME ThreadInv, StopsAnnounced, NEW t \in Threads,
           \/ ThreadBlock(t) \/ ReturnToUser(t) \/ AstHalt(t) \/ SuspendReturn(t) \/ EnterKernel(t)
    PROVE  StopsAnnounced'
  <1>1. UNCHANGED <<th, stops>>
    BY DEF ThreadBlock, ReturnToUser, AstHalt, SuspendReturn, EnterKernel
  <1>2. SameWaits
    BY <1>1 DEF SameWaits, SameWait
  <1>3. pc[t] # "dowait_wakeup"
    BY DEF ThreadBlock, ReturnToUser, AstHalt, SuspendReturn, EnterKernel, On
  <1>4. \E l : Goto(t, l)
    BY DEF ThreadBlock, ReturnToUser, AstHalt, SuspendReturn, EnterKernel, EndCall
  <1>5. UNCHANGED target \/ \E c, u : Begin(t, c, u)
    BY DEF ThreadBlock, ReturnToUser, AstHalt, SuspendReturn, EnterKernel, EndCall
  <1>6. WakersStay
    BY <1>3, <1>4, <1>5, WakersGo
  <1> QED BY <1>1, <1>2, <1>6, QuietStep

\* Steps that change one structure, and no wait for a thread.
LEMMA OneAnnounced ==
    ASSUME ThreadInv, StopsAnnounced, NEW t \in Threads,
           \/ ThreadHaltSelf(t) \/ AbortRelease(t) \/ HaltCheck(t)
           \/ AssertEventWait(t) \/ ThreadWillWait(t) \/ ThreadSetTimeout(t)
           \/ \E u \in Threads : ThreadSuspend(t, u)
    PROVE  StopsAnnounced'
  <1>1. \A x \in Threads : th[x] \in ThreadStates
    BY Typed
  <1>2. \E l : Goto(t, l)
    BY DEF ThreadHaltSelf, AbortRelease, HaltCheck, AssertEventWait, ThreadWillWait, ThreadSetTimeout,
           ThreadSuspend, EndCall
  <1>3. UNCHANGED target \/ \E c, u : Begin(t, c, u)
    BY DEF ThreadHaltSelf, AbortRelease, HaltCheck, AssertEventWait, ThreadWillWait, ThreadSetTimeout,
           ThreadSuspend, EndCall
  <1>4. stops' = stops /\ pc[t] # "dowait_wakeup"
    BY DEF ThreadHaltSelf, AbortRelease, HaltCheck, AssertEventWait, ThreadWillWait, ThreadSetTimeout,
           ThreadSuspend, InCall, On
  <1>5. WakersStay
    BY <1>2, <1>3, <1>4, WakersGo
  <1>6. CASE ThreadHaltSelf(t)
    <2>1. PICK s, b : th' = [th EXCEPT ![t] = [th[t] EXCEPT !.state = s, !.ast_halt = b]]
      BY <1>6 DEF ThreadHaltSelf, ThreadInv, TypeOK
    <2>2. SameWait(th[t], [th[t] EXCEPT !.state = s, !.ast_halt = b])
      BY <1>1, SameWaitIs
    <2>3. SameWaits
      BY <2>1, <2>2, OneWaits
    <2> QED BY <1>4, <1>5, <2>3, QuietStep
  <1>7. CASE AbortRelease(t)
    <2>1. target[t] \in Threads
      <3>1. call[t] = "abort"
        BY <1>7, Typed DEF AbortRelease, On, CallAgrees, AbortPCs
      <3> QED BY <3>1, StoppedIsHeld
    <2>2. th' = [th EXCEPT ![target[t]] = Released(th[target[t]])]
      BY <1>7, <2>1 DEF AbortRelease, ThreadInv, TypeOK
    <2>3. SameWaits
      BY <1>1, <2>1, <2>2, SameWaitIs, OneWaits
    <2> QED BY <1>4, <1>5, <2>3, QuietStep
  <1>8. CASE HaltCheck(t)
    <2>1. PICK u \in Threads : u = target[t]
      BY <1>8, ClearIs DEF HaltCheck, On, StoppedPCs
    <2> DEFINE s == th[u].state
    <2>2. PICK n \in {th[u], [th[u] EXCEPT !.state = s \cup {"HALTED"}, !.ast_halt = FALSE],
                      [th[u] EXCEPT !.state = s \cup {"RUN", "UNINT"}]} :
             th' = [th EXCEPT ![u] = n]
      BY <1>8, <2>1 DEF HaltCheck, ThreadInv, TypeOK
    <2> HIDE DEF s
    <2>3. SameWait(th[u], n)
      <3>1. SameWait(th[u], th[u])
        BY DEF SameWait
      <3>2. SameWait(th[u], [th[u] EXCEPT !.state = s \cup {"HALTED"}, !.ast_halt = FALSE])
        BY <1>1, SameWaitIs
      <3>3. SameWait(th[u], [th[u] EXCEPT !.state = s \cup {"RUN", "UNINT"}])
        BY <1>1, SameWaitIs
      <3> QED BY <2>2, <3>1, <3>2, <3>3
    <2>4. SameWaits
      BY <2>2, <2>3, OneWaits
    <2> QED BY <1>4, <1>5, <2>4, QuietStep
  <1>9. CASE AssertEventWait(t)
    <2>1. UNCHANGED th \/ \E e \in Events \cup {NoEvent}, i \in BOOLEAN :
                            th' = [th EXCEPT ![t] = AssertWait(th[t], e, i)]
      BY <1>9 DEF AssertEventWait
    <2>2. SameWaits
      <3>1. CASE UNCHANGED th
        BY <3>1 DEF SameWaits, SameWait
      <3>2. CASE \E e \in Events \cup {NoEvent}, i \in BOOLEAN : th' = [th EXCEPT ![t] = AssertWait(th[t], e, i)]
        <4>1. PICK e \in Events \cup {NoEvent}, i \in BOOLEAN : th' = [th EXCEPT ![t] = AssertWait(th[t], e, i)]
          BY <3>2
        <4>2. SameWait(th[t], AssertWait(th[t], e, i))
          BY <1>1, SameWaitIs
        <4> QED BY <4>1, <4>2, OneWaits
      <3> QED BY <2>1, <3>1, <3>2
    <2> QED BY <1>4, <1>5, <2>2, QuietStep
  <1>10. CASE ThreadSetTimeout(t)
    <2>1. \E b : th' = [th EXCEPT ![t] = [th[t] EXCEPT !.timer = b]]
      BY <1>10 DEF ThreadSetTimeout, ThreadInv, TypeOK
    <2>2. SameWaits
      BY <1>1, <2>1, SameWaitIs, OneWaits
    <2> QED BY <1>4, <1>5, <2>2, QuietStep
  <1>11. ASSUME NEW u \in Threads, ThreadSuspend(t, u)
         PROVE  StopsAnnounced'
    <2> DEFINE k == [th[u] EXCEPT !.user_stop_count = th[u].user_stop_count + 1]
               n == IF th[u].user_stop_count = 0 THEN Held(k) ELSE k
    <2>1. th' = [th EXCEPT ![u] = n]
      BY <1>11 DEF ThreadSuspend
    <2>2. k.wake_active = th[u].wake_active /\ k.wait_event = th[u].wait_event
          /\ Held(k).wake_active = k.wake_active /\ Held(k).wait_event = k.wait_event
      BY <1>1 DEF Held, ThreadStates
    <2>3. SameWait(th[u], n)
      BY <2>2 DEF SameWait
    <2> HIDE DEF n
    <2>4. SameWaits
      BY <2>1, <2>3, OneWaits
    <2> QED BY <1>4, <1>5, <2>4, QuietStep
  <1>12. CASE ThreadWillWait(t)
    <2>1. PICK s, b : th' = [th EXCEPT ![t] = [th[t] EXCEPT !.state = s, !.timer = b]]
      <3>1. PICK timed \in BOOLEAN : th' = [th EXCEPT ![t].state = @ \cup {"WAIT"},
                                                    ![t].timer = @ \/ timed]
        BY <1>12 DEF ThreadWillWait
      <3> DEFINE s == th[t].state \cup {"WAIT"}
                 b == th[t].timer \/ timed
      <3>2. th' = [th EXCEPT ![t] = [th[t] EXCEPT !.state = s, !.timer = b]]
        <4>1. th' = [th EXCEPT ![t].state = s, ![t].timer = b]
          BY <3>1
        <4> HIDE DEF s, b
        <4> QED BY <4>1 DEF ThreadInv, TypeOK
      <3> QED BY <3>2
    <2>2. SameWait(th[t], [th[t] EXCEPT !.state = s, !.timer = b])
      BY <1>1, SameWaitIs
    <2>3. SameWaits
      BY <2>1, <2>2, OneWaits
    <2> QED BY <1>4, <1>5, <2>3, QuietStep
  <1> QED BY <1>6, <1>7, <1>8, <1>9, <1>10, <1>11, <1>12

\* Wakeups, which end waits.
LEMMA WakeAnnounced ==
    ASSUME ThreadInv, StopsAnnounced, stops' = stops, WakersStay,
           NEW ts, NEW r, th' = WakeAll(ts, r)
    PROVE  StopsAnnounced'
  <1>1. SameWaits
    BY WokeWaits DEF SameWaits
  <1> QED BY <1>1, QuietStep

LEMMA ClockAnnounced ==
    ASSUME ThreadInv, StopsAnnounced,
           \/ \E e \in Events : Wakeup(e)
           \/ \E t \in Threads : ThreadGo(t)
           \/ \E t \in Threads : SoftclockExpire(t)
           \/ ThreadTimeout
           \/ ThreadTimeoutClear
    PROVE  StopsAnnounced'
  <1>1. stops' = stops /\ WakersStay
    BY DEF Wakeup, ThreadGo, SoftclockExpire, ThreadTimeout, ThreadTimeoutClear, WakersStay
  <1>2. CASE \E ts, r : th' = WakeAll(ts, r)
    BY <1>1, <1>2, WakeAnnounced
  <1>3. CASE UNCHANGED th
    <2>1. SameWaits
      BY <1>3 DEF SameWaits, SameWait
    <2> QED BY <1>1, <2>1, QuietStep
  <1>4. ASSUME NEW t \in Threads, SoftclockExpire(t)
        PROVE  StopsAnnounced'
    <2>1. th' = [th EXCEPT ![t] = [th[t] EXCEPT !.timer = FALSE]]
      BY <1>4 DEF SoftclockExpire, ThreadInv, TypeOK
    <2>2. SameWait(th[t], [th[t] EXCEPT !.timer = FALSE])
      BY Typed, SameWaitIs
    <2>3. SameWaits
      BY <2>1, <2>2, OneWaits
    <2> QED BY <1>1, <2>3, QuietStep
  <1> QED BY <1>2, <1>3, <1>4 DEF Wakeup, ThreadGo, ThreadTimeout, ThreadTimeoutClear, ClearWaitEvent

LEMMA WokeNotWaiting ==
    ASSUME ThreadInv, NEW u \in Threads, NEW r \in Results, NEW x \in Threads
    PROVE  WakeAll(Waiting(u), r)[x].wait_event # u
  <1>1. WakeAll(Waiting(u), r)[x] = IF th[x].wait_event = u THEN Woken(th[x], r) ELSE th[x]
    BY DEF WakeAll, Waiting
  <1>2. CASE th[x].wait_event = u
    <2>1. "WAIT" \in th[x].state /\ th[x] \in ThreadStates
      BY <1>2, Typed, EventsAre DEF WaitAgrees
    <2>2. Woken(th[x], r).wait_event = NoEvent
      BY <2>1, WokenIs
    <2> QED BY <1>1, <1>2, <2>2, EventsAre
  <1> QED BY <1>1, <1>2

\* The wakeup that a stop made due leaves nobody waiting for it.
LEMMA AnnounceAnnounced ==
    ASSUME ThreadInv, StopsAnnounced, NEW u \in Threads, AnnounceStop(u)
    PROVE  StopsAnnounced'
  <1>1. /\ stops' = stops \ {u} /\ th' = WakeAll(Waiting(u), "AWAKENED")
        /\ UNCHANGED <<pc, target>>
    BY DEF AnnounceStop
  <1>2. \A x \in Threads : SameWait(th[x], th'[x])
    BY <1>1, WokeWaits
  <1>3. \A x \in Threads : th'[x].wait_event # u
    BY <1>1, WokeNotWaiting, ResultNames
  <1>4. \A x \in Threads \ {u} : Announced(x) => Announced(x)'
    BY <1>1, <1>2 DEF Announced, SameWait
  <1>5. \A x, v \in Threads : th'[x].wait_event = v => th[x].wait_event = v
    BY <1>2 DEF SameWait
  <1> QED BY <1>3, <1>4, <1>5, AnnouncedStays

\* The stop that clears wake_active makes the wakeup due.
LEMMA DispatchAnnounced ==
    ASSUME ThreadInv, StopsAnnounced, NEW t \in Threads, ThreadDispatch(t)
    PROVE  StopsAnnounced'
  <1>1. /\ \A x \in Threads : th'[x].wait_event = th[x].wait_event
        /\ \A x \in Threads \ {t} : th'[x] = th[x]
        /\ th[t].wake_active => th'[t].wake_active \/ t \in stops'
    <2> DEFINE s == IF th[t].state \in StopStates \cup WaitStates THEN th[t].state \ {"RUN"} ELSE th[t].state
               w == th[t].wake_active /\ th[t].state \notin StopStates
               n == [th[t] EXCEPT !.state = s, !.wake_active = w]
    <2>1. th' = [th EXCEPT ![t] = n]
      <3>1. th' = [th EXCEPT ![t].state = s, ![t].wake_active = w]
        BY DEF ThreadDispatch
      <3> QED BY <3>1 DEF ThreadInv, TypeOK
    <2>2. th[t].wake_active => w \/ t \in stops'
      BY DEF ThreadDispatch
    <2> HIDE DEF s, w
    <2>3. n.wait_event = th[t].wait_event /\ n.wake_active = w
      BY Typed DEF ThreadStates
    <2> HIDE DEF n
    <2> QED BY <2>1, <2>2, <2>3 DEF ThreadInv, TypeOK
  <1>2. UNCHANGED <<pc, target>> /\ stops \subseteq stops'
    BY DEF ThreadDispatch
  <1>3. \A u \in Threads : Announced(u) => Announced(u)'
    BY <1>1, <1>2 DEF Announced
  <1> QED BY <1>1, <1>3, AnnouncedStays

\* The threads that t's call touches have no wait for a thread that they did not
\* have, but for t itself, and whoever t waits for has wake_active.
LEMMA SleepAnnounced ==
    ASSUME ThreadInv, StopsAnnounced, stops' = stops, WakersStay,
           NEW t \in Threads, NEW u \in Threads \ {t}, NEW n, NEW m,
           th' = [th EXCEPT ![u] = n, ![t] = m],
           n.wake_active, n.wait_event = th[u].wait_event,
           m.wake_active = th[t].wake_active, m.wait_event = u
    PROVE  StopsAnnounced'
  <1>1. th'[u] = n /\ th'[t] = m /\ \A x \in Threads \ {u, t} : th'[x] = th[x]
    BY DEF ThreadInv, TypeOK
  <1>2. \A x \in Threads : Announced(x) => Announced(x)'
    <2>1. \A x \in Threads : th[x].wake_active => th'[x].wake_active
      BY <1>1
    <2> QED BY <2>1 DEF Announced, WakersStay
  <1>3. Announced(u)'
    BY <1>1 DEF Announced
  <1>4. \A x \in Threads \ {t} : th'[x].wait_event = th[x].wait_event
    BY <1>1
  <1>5. \A x, v \in Threads : th'[x].wait_event = v => th[x].wait_event = v \/ Announced(v)'
    <2> SUFFICES ASSUME NEW x \in Threads, NEW v \in Threads, th'[x].wait_event = v
                 PROVE  th[x].wait_event = v \/ Announced(v)'
      OBVIOUS
    <2>1. CASE x = t
      <3>1. v = u
        BY <1>1, <2>1
      <3> QED BY <1>3, <3>1
    <2>2. CASE x # t
      BY <1>4, <2>2
    <2> QED BY <2>1, <2>2
  <1> QED BY <1>2, <1>5, AnnouncedStays

LEMMA SleeperWaits ==
    ASSUME ThreadInv, NEW t \in Threads, NEW u
    PROVE  LET m == AssertWait(th[t], u, TRUE)
           IN m.wake_active = th[t].wake_active /\ m.wait_event = u
  BY Typed DEF AssertWait, ThreadStates

LEMMA RoundAnnounced ==
    ASSUME ThreadInv, StopsAnnounced, stops' = stops, WakersStay,
           NEW t \in Threads, NEW u \in Threads \ {t}, NEW k \in ThreadStates, HaltRound(t, u, k),
           SameWait(th[u], k), k.wait_event = th[u].wait_event
    PROVE  StopsAnnounced'
  <1>1. CASE k.ast_halt /\ "HALTED" \notin k.state
    <2> DEFINE n == [k EXCEPT !.wake_active = TRUE]
               m == AssertWait(th[t], u, TRUE)
    <2>1. th' = [th EXCEPT ![u] = n, ![t] = m]
      BY <1>1 DEF HaltRound, ThreadInv, TypeOK
    <2>2. n.wake_active /\ n.wait_event = th[u].wait_event
      BY DEF ThreadStates
    <2>3. m.wake_active = th[t].wake_active /\ m.wait_event = u
      BY SleeperWaits
    <2> HIDE DEF n, m
    <2> QED BY <2>1, <2>2, <2>3, SleepAnnounced
  <1>2. CASE ~(k.ast_halt /\ "HALTED" \notin k.state)
    <2> DEFINE n == [k EXCEPT !.ast_halt = TRUE]
    <2>1. th' = [th EXCEPT ![u] = n]
      BY <1>2 DEF HaltRound
    <2>2. SameWait(th[u], n)
      BY DEF SameWait, ThreadStates
    <2> HIDE DEF n
    <2>3. SameWaits
      BY <2>1, <2>2, OneWaits
    <2> QED BY <2>3, QuietStep
  <1> QED BY <1>1, <1>2

LEMMA ResumeAnnounced ==
    ASSUME ThreadInv, StopsAnnounced, NEW t \in Threads, NEW u \in Threads, ThreadResume(t, u)
    PROVE  StopsAnnounced'
  <1> DEFINE k == [th[u] EXCEPT !.user_stop_count = th[u].user_stop_count - 1]
             n == IF th[u].user_stop_count = 1 THEN Released(k) ELSE k
  <1>1. th' = [th EXCEPT ![u] = n]
    BY DEF ThreadResume
  <1>2. k.wake_active = th[u].wake_active /\ k.wait_event = th[u].wait_event
        /\ Released(k).wake_active = k.wake_active /\ Released(k).wait_event = k.wait_event
    BY Typed DEF Released, ThreadStates
  <1>3. SameWait(th[u], n)
    BY <1>2 DEF SameWait
  <1> HIDE DEF n
  <1>4. SameWaits
    BY <1>1, <1>3, OneWaits
  <1>5. stops' = stops /\ WakersStay
    BY DEF ThreadResume, WakersStay
  <1> QED BY <1>4, <1>5, QuietStep

LEMMA AbortAnnounced ==
    ASSUME ThreadInv, StopsAnnounced, NEW t \in Threads, NEW u \in Threads, ThreadAbort(t, u)
    PROVE  StopsAnnounced'
  <1>1. stops' = stops /\ pc[t] # "dowait_wakeup" /\ u # t /\ th[u] \in ThreadStates
    BY Typed DEF ThreadAbort, InAbort, InCall, On
  <1>2. WakersStay
    <2>1. CASE UNCHANGED <<pc, target>>
      BY <2>1 DEF WakersStay
    <2>2. CASE \E l : Goto(t, l) /\ (UNCHANGED target \/ Begin(t, "abort", u))
      BY <1>1, <2>2, WakersGo
    <2> QED BY <2>1, <2>2 DEF ThreadAbort, BreakHaltCycle, HaltRound
  <1>3. CASE th' = [th EXCEPT ![u].suspend_count = @ + 1]
    <2> DEFINE n == [th[u] EXCEPT !.suspend_count = th[u].suspend_count + 1]
    <2>1. th' = [th EXCEPT ![u] = n]
      BY <1>3 DEF ThreadInv, TypeOK
    <2>2. SameWait(th[u], n)
      BY <1>1, SameWaitIs
    <2> HIDE DEF n
    <2>3. SameWaits
      BY <2>1, <2>2, OneWaits
    <2> QED BY <1>1, <1>2, <2>3, QuietStep
  <1>4. CASE BreakHaltCycle(t, u)
    BY <1>1, <1>2, <1>4, WakeAnnounced DEF BreakHaltCycle
  <1>5. CASE HaltRound(t, u, Held(th[u]))
    <2>1. SameWait(th[u], Held(th[u])) /\ Held(th[u]).wait_event = th[u].wait_event
      BY <1>1 DEF Held, SameWait, ThreadStates
    <2>2. Held(th[u]) \in ThreadStates
      <3>1. call[t] # "abort"
        BY IdleCall DEF ThreadAbort, InAbort, InCall, On, Elsewhere
      <3>2. th[u].suspend_count < MaxHolds
        BY <3>1, RoomForHold DEF HoldingCalls
      <3> QED BY <1>1, <3>2, HeldIs
    <2> QED BY <1>1, <1>2, <1>5, <2>1, <2>2, RoundAnnounced
  <1> QED BY <1>3, <1>4, <1>5 DEF ThreadAbort

\* Steps of thread_halt once t has asked u to halt.
LEMMA HaltAnnounced ==
    ASSUME ThreadInv, StopsAnnounced, NEW t \in Threads,
           \/ HaltWoken(t) \/ HaltAgain(t) \/ HaltFail(t) \/ HaltClear(t) \/ HaltClearEvent(t)
    PROVE  StopsAnnounced'
  <1>1. pc[t] # "dowait_wakeup" /\ UNCHANGED <<target, stops>> /\ \E l : Goto(t, l)
    BY DEF HaltWoken, HaltAgain, HaltFail, HaltClear, HaltClearEvent, HaltRound, On
  <1>2. WakersStay
    BY <1>1, WakersGo
  <1>3. PICK u \in Threads \ {t} : u = target[t]
    <2>1. CallAgrees(t, pc[t], call[t], target[t])
      BY Typed
    <2> QED BY <2>1 DEF HaltWoken, HaltAgain, HaltFail, HaltClear, HaltClearEvent, On, CallAgrees,
                        AbortPCs, StoppedPCs
  <1>4. CASE UNCHANGED th
    <2>1. SameWaits
      BY <1>4 DEF SameWaits, SameWait
    <2> QED BY <1>1, <1>2, <2>1, QuietStep
  <1>5. CASE \E ts, r : th' = WakeAll(ts, r)
    BY <1>1, <1>2, <1>5, WakeAnnounced
  <1>6. CASE HaltRound(t, u, th[u])
    BY <1>1, <1>2, <1>6, Typed, RoundAnnounced DEF SameWait
  <1>7. CASE HaltFail(t)
    <2> DEFINE f == WakeAll(Waiting(u), "INTERRUPTED")
    <2>1. f \in [Threads -> ThreadStates] /\ \A x \in Threads : SameWait(th[x], f[x])
      <3>1. SetRun(Waiting(u))
        BY <1>3, <1>7 DEF HaltFail
      <3> QED BY <3>1, Woke, WokeWaits, ResultNames
    <2>2. th' = [f EXCEPT ![u].ast_halt = FALSE]
      BY <1>3, <1>7 DEF HaltFail
    <2> HIDE DEF f
    <2>3. \A x \in Threads : th'[x].wake_active = f[x].wake_active /\ th'[x].wait_event = f[x].wait_event
      BY <2>1, <2>2 DEF ThreadStates
    <2>4. SameWaits
      BY <2>1, <2>3 DEF SameWaits, SameWait
    <2> QED BY <1>1, <1>2, <2>4, QuietStep
  <1>8. CASE HaltWoken(t) \/ HaltAgain(t)
    BY <1>3, <1>4, <1>6, <1>8 DEF HaltWoken, HaltAgain
  <1>9. CASE HaltClear(t) \/ HaltClearEvent(t)
    BY <1>4, <1>5, <1>9 DEF HaltClear, HaltClearEvent, ClearWaitEvent
  <1> QED BY <1>7, <1>8, <1>9

\* Steps of thread_dowait.
LEMMA DowaitAnnounced ==
    ASSUME ThreadInv, StopsAnnounced, NEW t \in Threads, Dowait(t) \/ DowaitWoken(t)
    PROVE  StopsAnnounced'
  <1>1. pc[t] \in {"dowait", "dowait_woken"} /\ UNCHANGED <<target, stops>>
    BY DEF Dowait, DowaitWoken, On
  <1>2. PICK u \in Threads \ {t} : u = target[t]
    BY <1>1, DowaitIs DEF DowaitPCs
  <1>3. \E l : Goto(t, l)
    BY DEF Dowait, DowaitWoken, DowaitRound, SleepOnStop
  <1>4. WakersStay
    BY <1>1, <1>3, WakersGo
  <1>5. CASE UNCHANGED th
    <2>1. SameWaits
      BY <1>5 DEF SameWaits, SameWait
    <2> QED BY <1>1, <1>4, <2>1, QuietStep
  <1>6. CASE SleepOnStop(t, u, "dowait_block")
    <2> DEFINE n == [th[u] EXCEPT !.wake_active = TRUE]
               m == AssertWait(th[t], u, TRUE)
    <2>1. th' = [th EXCEPT ![u] = n, ![t] = m]
      BY <1>6 DEF SleepOnStop, ThreadInv, TypeOK
    <2>2. n.wake_active /\ n.wait_event = th[u].wait_event
      BY Typed DEF ThreadStates
    <2>3. m.wake_active = th[t].wake_active /\ m.wait_event = u
      BY SleeperWaits
    <2> HIDE DEF n, m
    <2> QED BY <1>1, <1>4, <2>1, <2>2, <2>3, SleepAnnounced
  <1>7. CASE /\ th' = [th EXCEPT ![u].state = @ \ {"RUN"}, ![u].wake_active = FALSE]
             /\ Goto(t, AfterRemRunq(t, u))
    <2> DEFINE s == th[u].state \ {"RUN"}
               n == [th[u] EXCEPT !.state = s, !.wake_active = FALSE]
    <2>1. th' = [th EXCEPT ![u] = n]
      BY <1>7 DEF ThreadInv, TypeOK
    <2> HIDE DEF s
    <2>2. n.wait_event = th[u].wait_event
      BY Typed DEF ThreadStates
    <2> HIDE DEF n
    <2>3. th'[u] = n /\ \A x \in Threads \ {u} : th'[x] = th[x]
      BY <2>1 DEF ThreadInv, TypeOK
    <2>4. th[u].wake_active => pc'[t] = "dowait_wakeup" /\ target'[t] = u
      BY <1>1, <1>2, <1>7 DEF AfterRemRunq, Goto, ThreadInv, TypeOK
    <2>5. \A x \in Threads : Announced(x) => Announced(x)'
      <3>1. \A x \in Threads \ {u} : Announced(x) => Announced(x)'
        BY <1>1, <1>4, <2>3 DEF Announced, WakersStay
      <3>2. Announced(u) => Announced(u)'
        BY <1>1, <1>4, <2>4 DEF Announced, WakersStay
      <3> QED BY <3>1, <3>2
    <2>6. \A x \in Threads : th'[x].wait_event = th[x].wait_event
      BY <2>2, <2>3
    <2> QED BY <2>5, <2>6, AnnouncedStays
  <1> QED BY <1>2, <1>5, <1>6, <1>7 DEF Dowait, DowaitWoken, DowaitRound

LEMMA DowaitWakeupAnnounced ==
    ASSUME ThreadInv, StopsAnnounced, NEW t \in Threads, DowaitWakeup(t)
    PROVE  StopsAnnounced'
  <1>1. pc[t] = "dowait_wakeup" /\ UNCHANGED <<target, stops>>
    BY DEF DowaitWakeup, On
  <1>2. PICK u \in Threads \ {t} : u = target[t]
    BY <1>1, DowaitIs DEF DowaitPCs
  <1>3. th' = WakeAll(Waiting(u), "AWAKENED") /\ \A v \in Threads \ {t} : pc'[v] = pc[v]
    BY <1>2 DEF DowaitWakeup, Goto, ThreadInv, TypeOK
  <1>4. \A x \in Threads : SameWait(th[x], th'[x])
    BY <1>3, WokeWaits
  <1>5. \A x \in Threads : th'[x].wait_event # u
    BY <1>3, WokeNotWaiting, ResultNames
  <1>6. \A x \in Threads \ {u} : Announced(x) => Announced(x)'
    BY <1>1, <1>2, <1>3, <1>4 DEF Announced, SameWait
  <1>7. \A x, v \in Threads : th'[x].wait_event = v => th[x].wait_event = v
    BY <1>4 DEF SameWait
  <1> QED BY <1>5, <1>6, <1>7, AnnouncedStays

LEMMA RunAnnounced ==
    ASSUME ThreadInv, StopsAnnounced, NEW t \in Threads, Run(t)
    PROVE  StopsAnnounced'
  <1> DEFINE n == [th[t] EXCEPT !.state = th[t].state \ {"UNINT"}]
  <1>1. th' = [th EXCEPT ![t] = n]
    BY DEF Run, ThreadInv, TypeOK
  <1>2. SameWait(th[t], n)
    BY Typed, SameWaitIs
  <1> HIDE DEF n
  <1>3. SameWaits
    BY <1>1, <1>2, OneWaits
  <1>4. stops' = stops /\ WakersStay
    BY DEF Run, WakersStay
  <1> QED BY <1>3, <1>4, QuietStep

LEMMA NextAnnounced ==
    ASSUME ThreadInv, StopsAnnounced, [Next]_vars
    PROVE  StopsAnnounced'
  <1>1. ASSUME NEW t \in Threads, Continue(t)
        PROVE  StopsAnnounced'
    BY <1>1, PlainAnnounced, OneAnnounced, DowaitAnnounced, DowaitWakeupAnnounced, HaltAnnounced
       DEF Continue
  <1>2. ASSUME NEW t \in Threads, Call(t)
        PROVE  StopsAnnounced'
    BY <1>2, PlainAnnounced, OneAnnounced, ResumeAnnounced, AbortAnnounced DEF Call
  <1>3. ASSUME NEW t \in Threads, Schedule(t)
        PROVE  StopsAnnounced'
    BY <1>3, RunAnnounced, DispatchAnnounced, AnnounceAnnounced DEF Schedule
  <1>4. CASE Softclock \/ (\E e \in Events : Wakeup(e)) \/ \E t \in Threads : ThreadGo(t)
    BY <1>4, ClockAnnounced DEF Softclock
  <1>5. CASE UNCHANGED vars
    BY <1>5 DEF vars, StopsAnnounced, Announced
  <1> QED BY <1>1, <1>2, <1>3, <1>4, <1>5 DEF Next

\* thread_dowait, thread_halt, thread_dispatch: whoever sleeps until a thread
\* stops is woken when it does, whichever of them stops or dequeues it.
THEOREM StopsAreAnnounced == Spec => []StopIsAnnounced
  <1>1. ThreadInv /\ StopsAnnounced => StopIsAnnounced
    BY DEF StopsAnnounced, Announced, StopIsAnnounced
  <1>2. Init => StopsAnnounced
    BY ThreadAssumption DEF Init, StopsAnnounced
  <1>3. ThreadInv /\ StopsAnnounced /\ [Next]_vars => StopsAnnounced'
    BY NextAnnounced
  <1> QED BY <1>1, <1>2, <1>3, ThreadInvariant, PTL DEF Spec
=============================================================================
