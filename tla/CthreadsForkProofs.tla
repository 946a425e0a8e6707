------------------------- MODULE CthreadsForkProofs -------------------------
(***************************************************************************)
(* Proofs about CthreadsFork for any sets of cprocs and structures: its    *)
(* invariants, and that its steps are those of ForkJoin.                   *)
(***************************************************************************)
EXTENDS CthreadsFork, FiniteSetTheorems, TLAPS

(* What the operations of a queue do to its elements.                      *)
LEMMA QueueTail ==
    ASSUME NEW S, NEW s \in Seq(S), s /= <<>>
    PROVE  /\ Head(s) \in S /\ Tail(s) \in Seq(S)
           /\ Range(s) = {Head(s)} \cup Range(Tail(s))
           /\ IsInjective(s) => IsInjective(Tail(s)) /\ Head(s) \notin Range(Tail(s))
  <1>1. /\ Len(s) \in Nat \ {0} /\ DOMAIN s = 1 .. Len(s) /\ Head(s) = s[1]
        /\ Tail(s) \in Seq(S) /\ DOMAIN Tail(s) = 1 .. Len(s) - 1
        /\ \A i \in 1 .. Len(s) - 1 : Tail(s)[i] = s[i + 1]
        /\ \A i \in 1 .. Len(s) : s[i] \in S
    OBVIOUS
  <1>2. Range(s) = {Head(s)} \cup Range(Tail(s))
    <2>1. ASSUME NEW x \in Range(s) PROVE x \in {Head(s)} \cup Range(Tail(s))
      <3>1. PICK i \in 1 .. Len(s) : x = s[i]
        BY <1>1, <2>1 DEF Range
      <3>2. CASE i = 1
        BY <1>1, <3>1, <3>2
      <3>3. CASE i /= 1
        <4>1. i - 1 \in 1 .. Len(s) - 1 /\ Tail(s)[i - 1] = x
          BY <1>1, <3>1, <3>3
        <4> QED BY <1>1, <4>1 DEF Range
      <3> QED BY <3>2, <3>3
    <2>2. ASSUME NEW x \in Range(Tail(s)) PROVE x \in Range(s)
      BY <1>1, <2>2 DEF Range
    <2>3. Head(s) \in Range(s)
      BY <1>1 DEF Range
    <2> QED BY <2>1, <2>2, <2>3
  <1>3. ASSUME IsInjective(s) PROVE IsInjective(Tail(s)) /\ Head(s) \notin Range(Tail(s))
    <2>1. \A i, j \in 1 .. Len(s) : s[i] = s[j] => i = j
      BY <1>1, <1>3 DEF IsInjective
    <2>2. IsInjective(Tail(s))
      BY <1>1, <2>1 DEF IsInjective
    <2>3. Head(s) \notin Range(Tail(s))
      BY <1>1, <2>1 DEF Range
    <2> QED BY <2>2, <2>3
  <1> QED BY <1>1, <1>2, <1>3

LEMMA QueueAppend ==
    ASSUME NEW S, NEW s \in Seq(S), NEW x \in S
    PROVE  /\ Append(s, x) \in Seq(S)
           /\ Range(Append(s, x)) = Range(s) \cup {x}
           /\ IsInjective(s) /\ x \notin Range(s) => IsInjective(Append(s, x))
  <1>1. /\ Len(s) \in Nat /\ DOMAIN s = 1 .. Len(s)
        /\ Append(s, x) \in Seq(S) /\ DOMAIN Append(s, x) = 1 .. Len(s) + 1
        /\ \A i \in 1 .. Len(s) : Append(s, x)[i] = s[i]
        /\ Append(s, x)[Len(s) + 1] = x
    OBVIOUS
  <1>2. Range(Append(s, x)) = Range(s) \cup {x}
    BY <1>1 DEF Range
  <1>3. ASSUME IsInjective(s), x \notin Range(s) PROVE IsInjective(Append(s, x))
    BY <1>1, <1>3 DEF IsInjective, Range
  <1> QED BY <1>1, <1>2, <1>3

LEMMA QueuePush ==
    ASSUME NEW S, NEW s \in Seq(S), NEW x \in S
    PROVE  /\ <<x>> \o s \in Seq(S)
           /\ Range(<<x>> \o s) = Range(s) \cup {x}
           /\ IsInjective(s) /\ x \notin Range(s) => IsInjective(<<x>> \o s)
  <1> DEFINE u == <<x>> \o s
  <1>1. /\ Len(s) \in Nat /\ DOMAIN s = 1 .. Len(s)
        /\ u \in Seq(S) /\ DOMAIN u = 1 .. Len(s) + 1 /\ u[1] = x
        /\ \A i \in 2 .. Len(s) + 1 : u[i] = s[i - 1] /\ i - 1 \in 1 .. Len(s)
        /\ \A i \in 1 .. Len(s) : u[i + 1] = s[i] /\ i + 1 \in 1 .. Len(s) + 1
    OBVIOUS
  <1> HIDE DEF u
  <1>2. Range(u) = Range(s) \cup {x}
    <2>1. ASSUME NEW y \in Range(u) PROVE y \in Range(s) \cup {x}
      <3>1. PICK i \in 1 .. Len(s) + 1 : y = u[i]
        BY <1>1, <2>1 DEF Range
      <3>2. CASE i = 1
        BY <1>1, <3>1, <3>2
      <3>3. CASE i /= 1
        <4>1. i - 1 \in 1 .. Len(s) /\ y = s[i - 1]
          BY <1>1, <3>1, <3>3
        <4> QED BY <1>1, <4>1 DEF Range
      <3> QED BY <3>2, <3>3
    <2>2. ASSUME NEW y \in Range(s) PROVE y \in Range(u)
      BY <1>1, <2>2 DEF Range
    <2>3. x \in Range(u)
      BY <1>1 DEF Range
    <2> QED BY <2>1, <2>2, <2>3
  <1>3. ASSUME IsInjective(s), x \notin Range(s),
               NEW i \in 1 .. Len(s) + 1, NEW k \in 1 .. Len(s) + 1, u[i] = u[k]
        PROVE  i = k
    <2>1. \A a, b \in 1 .. Len(s) : s[a] = s[b] => a = b
      BY <1>1, <1>3 DEF IsInjective
    <2>2. \A a \in 1 .. Len(s) : s[a] /= x
      BY <1>1, <1>3 DEF Range
    <2>3. CASE i = 1 \/ k = 1
      BY <1>1, <1>3, <2>2, <2>3
    <2>4. CASE i /= 1 /\ k /= 1
      <3>1. i \in 2 .. Len(s) + 1 /\ k \in 2 .. Len(s) + 1
        BY <1>1, <2>4
      <3> QED BY <1>1, <1>3, <2>1, <3>1
    <2> QED BY <2>3, <2>4
  <1> QED BY <1>1, <1>2, <1>3 DEF u, IsInjective

LEMMA QueueRange ==
    ASSUME NEW S, NEW s \in Seq(S)
    PROVE  Range(s) \subseteq S
  BY DEF Range

LEMMA Elements ==
    ASSUME TypeOK
    PROVE  /\ Range(cthreads) \subseteq Threads /\ Range(free_cthreads) \subseteq Threads
           /\ Range(cthread_needed) \subseteq Cprocs /\ Range(cthread_idle) \subseteq Cprocs
           /\ \A t \in Threads : Range(thread[t].done) \subseteq Cprocs
  BY QueueRange DEF TypeOK, ThreadFields

(* condition_signal: what it does to the cprocs and to the queue.          *)
LEMMA Signalled ==
    ASSUME NEW cps \in [Cprocs -> CprocFields], NEW cond \in Seq(Cprocs), IsInjective(cond),
           NEW pc \in PCs
    PROVE  /\ Woken(cps, cond, pc) \in [Cprocs -> CprocFields]
           /\ \A q \in Cprocs :
                 /\ Woken(cps, cond, pc)[q].self = cps[q].self
                 /\ Woken(cps, cond, pc)[q].t = cps[q].t
                 /\ q \notin Range(cond) => Woken(cps, cond, pc)[q].pc = cps[q].pc
                 /\ q \in Range(cond) =>
                       Woken(cps, cond, pc)[q].pc = IF q \in Range(Rest(cond)) THEN cps[q].pc ELSE pc
           /\ Rest(cond) \in Seq(Cprocs) /\ IsInjective(Rest(cond))
           /\ Range(Rest(cond)) \subseteq Range(cond)
  <1>1. CASE cond = <<>>
    BY <1>1 DEF Woken, Rest, Range
  <1>2. CASE cond /= <<>>
    <2>1. /\ Head(cond) \in Cprocs /\ Tail(cond) \in Seq(Cprocs)
          /\ Range(cond) = {Head(cond)} \cup Range(Tail(cond))
          /\ IsInjective(Tail(cond)) /\ Head(cond) \notin Range(Tail(cond))
      BY <1>2, QueueTail
    <2>2. Woken(cps, cond, pc) = [cps EXCEPT ![Head(cond)].pc = pc] /\ Rest(cond) = Tail(cond)
      BY <1>2 DEF Woken, Rest
    <2>3. \A q \in Cprocs : [cps[q] EXCEPT !.pc = pc] \in CprocFields
      BY DEF CprocFields
    <2> QED BY <2>1, <2>2, <2>3 DEF CprocFields
  <1> QED BY <1>1, <1>2

\* Those who do not wait for a condition may go on without it.
LEMMA KnownPCs ==
    /\ "none" \in PCs /\ "body" \in PCs /\ "needed" \in PCs /\ "user" \in PCs /\ "fork" \in PCs
    /\ "signal" \in PCs /\ "return" \in PCs /\ "done" \in PCs /\ "join" \in PCs
    /\ "joining" \in PCs /\ "free" \in PCs /\ "exit" \in PCs /\ "exiting" \in PCs
    /\ "exited" \in PCs
  BY DEF PCs

LEMMA QueuesKept ==
    ASSUME ForkInv, UNCHANGED conditions,
           \A q \in Cprocs : cproc[q].pc \in {"needed", "exiting", "joining"} => cproc'[q] = cproc[q],
           \A t \in Threads : thread'[t].done = thread[t].done
    PROVE  Queues'
  <1>1. /\ \A q \in Range(cthread_needed) : q \in Cprocs /\ cproc[q].pc = "needed"
        /\ \A q \in Range(cthread_idle) : q \in Cprocs /\ cproc[q].pc = "exiting"
    BY Elements DEF ForkInv, Queues, At
  <1>2. \A t \in Threads : \A q \in Range(thread[t].done) :
           q \in Cprocs /\ cproc[q].pc = "joining" /\ cproc[q].t = t
    BY Elements DEF ForkInv, Queues, At
  <1>3. \A t \in Threads : /\ IsInjective(thread'[t].done)
                           /\ \A q \in Range(thread'[t].done) : At(q, "joining")' /\ cproc'[q].t = t
    BY <1>2 DEF ForkInv, Queues, At
  <1> QED BY <1>1, <1>3 DEF ForkInv, Queues, At, conditions

\* A cproc goes on at pc with x.
LEMMA Moved ==
    ASSUME cproc \in [Cprocs -> CprocFields], NEW p \in Cprocs, NEW pc \in PCs,
           NEW x \in Threads \cup {None}
    PROVE  [cproc EXCEPT ![p].pc = pc, ![p].t = x]
              = [cproc EXCEPT ![p] = [pc |-> pc, self |-> cproc[p].self, t |-> x]]
  <1> DEFINE r == [pc |-> pc, self |-> cproc[p].self, t |-> cproc[p].t]
  <1>1. [cproc[p] EXCEPT !.pc = pc] = r
    BY DEF CprocFields
  <1>2. [r EXCEPT !.t = x] = [pc |-> pc, self |-> cproc[p].self, t |-> x]
    OBVIOUS
  <1> HIDE DEF r
  <1>3. [cproc EXCEPT ![p].pc = pc] = [cproc EXCEPT ![p] = r]
    BY <1>1
  <1>4. [[cproc EXCEPT ![p] = r] EXCEPT ![p].t = x] = [cproc EXCEPT ![p] = [r EXCEPT !.t = x]]
    OBVIOUS
  <1> QED BY <1>2, <1>3, <1>4

\* Nobody gets a thread to run, to join or to free.
LEMMA NobodyGetsOne ==
    ASSUME ForkInv, UNCHANGED <<handle, unjoined, cthreads, free_cthreads>>,
           \A x \in Threads : thread'[x].state = thread[x].state,
           \A q \in Cprocs, x \in Threads :
              /\ Runs(q, x)' => Runs(q, x)
              /\ Claims(q, x)' => Claims(q, x) /\ cproc'[q].self = cproc[q].self
              /\ Frees(q, x)' => Frees(q, x)
              /\ cproc'[q].t = x => cproc[q].t = x,
           \A q \in Cprocs :
              /\ At(q, "free") => At(q, "free")'
              /\ At(q, "fork") /\ cproc'[q].t /= None => At(q, "fork")'
    PROVE  OneRunner' /\ OneClaimant' /\ StatesAgree' /\ FreedOnce'
  <1>1. OneRunner'
    BY DEF ForkInv, OneRunner
  <1>2. OneClaimant'
    BY DEF ForkInv, OneClaimant
  <1>3. StatesAgree'
    <2>1. \A q \in Cprocs, x \in Threads : Frees(q, x)' => cproc'[q].self = cproc[q].self
      BY DEF Frees, Claims, At
    <2> QED BY <2>1 DEF ForkInv, StatesAgree
  <1>4. FreedOnce'
    <2>1. \A x \in Range(free_cthreads) : x \in Threads /\ x /= None
      BY Elements, CthreadsForkAssumption DEF ForkInv
    <2> QED BY <2>1 DEF ForkInv, FreedOnce
  <1> QED BY <1>1, <1>2, <1>3, <1>4

LEMMA JoinWaitStep ==
    ASSUME ForkInv, NEW p \in Cprocs, JoinWait(p), UNCHANGED cthread_max_cprocs
    PROVE  ForkInv'
  <1> DEFINE t == cproc[p].t
  <1>1. t \in Threads /\ At(p, "join") /\ Claims(p, t) /\ p \notin Range(thread[t].done)
    BY DEF ForkInv, TypeOK, CprocFields, Places, Queues, JoinWait, At, Claims
  <1>2. /\ Append(thread[t].done, p) \in Seq(Cprocs)
        /\ Range(Append(thread[t].done, p)) = Range(thread[t].done) \cup {p}
        /\ IsInjective(Append(thread[t].done, p))
    BY <1>1, QueueAppend DEF ForkInv, TypeOK, ThreadFields, Queues
  <1>3. /\ cproc' = [cproc EXCEPT ![p].pc = "joining"]
        /\ thread' = [thread EXCEPT ![t].done = Append(@, p)]
        /\ UNCHANGED <<calls, cthreads, counts, conditions, free_cthreads, cthread_max_cprocs>>
    BY DEF JoinWait, Goto
  <1> HIDE DEF t
  <1>4. TypeOK'
    <2>1. cproc' \in [Cprocs -> CprocFields]
      BY <1>1, <1>2, <1>3, KnownPCs DEF ForkInv, TypeOK, CprocFields
    <2>2. thread' \in [Threads -> ThreadFields]
      BY <1>1, <1>2, <1>3 DEF ForkInv, TypeOK, ThreadFields
    <2> QED BY <1>1, <1>2, <1>3, <2>1, <2>2 DEF ForkInv, TypeOK, calls, counts, conditions
  <1>5. Places'
    BY <1>1, <1>2, <1>3 DEF ForkInv, TypeOK, CprocFields, Places, At
  <1>6. Queues'
    <2>1. /\ \A q \in Cprocs \ {p} : cproc'[q] = cproc[q]
          /\ At(p, "joining")' /\ cproc'[p].t = t
      BY <1>1, <1>3 DEF ForkInv, TypeOK, CprocFields, At, t
    <2>2. /\ thread'[t].done = Append(thread[t].done, p)
          /\ \A x \in Threads \ {t} : thread'[x].done = thread[x].done
      BY <1>1, <1>3 DEF ForkInv, TypeOK, ThreadFields
    <2>3. \A x \in Threads : /\ IsInjective(thread'[x].done)
                             /\ \A q \in Range(thread'[x].done) : At(q, "joining")' /\ cproc'[q].t = x
      <3> TAKE x \in Threads
      <3>1. CASE x = t
        <4>1. Range(thread'[t].done) = Range(thread[t].done) \cup {p} /\ IsInjective(thread'[t].done)
          BY <1>2, <2>2
        <4>2. \A q \in Range(thread[t].done) :
                 q \in Cprocs \ {p} /\ At(q, "joining") /\ cproc[q].t = t
          BY <1>1, Elements DEF ForkInv, Queues, At
        <4> QED BY <2>1, <3>1, <4>1, <4>2 DEF At
      <3>2. CASE x /= t
        BY <1>1, <2>1, <2>2, <3>2, Elements DEF ForkInv, Queues, At
      <3> QED BY <3>1, <3>2
    <2>4. /\ \A q \in Range(cthread_needed) : At(q, "needed")'
          /\ \A q \in Range(cthread_idle) : At(q, "exiting")'
      BY <1>1, <2>1, Elements DEF ForkInv, Queues, At
    <2> QED BY <1>3, <2>3, <2>4 DEF ForkInv, Queues, conditions
  <1>7. Handles'
    BY <1>1, <1>2, <1>3 DEF ForkInv, TypeOK, CprocFields, Handles, Given, calls
  <1>8. OneRunner'
    BY <1>1, <1>2, <1>3 DEF ForkInv, TypeOK, CprocFields, OneRunner, Runs, At
  <1>9. OneClaimant'
    BY <1>1, <1>2, <1>3 DEF ForkInv, TypeOK, CprocFields, OneClaimant, Claims, At, calls
  <1>10. StatesAgree'
    <2>1. \A x \in Threads : thread'[x].state = thread[x].state
      BY <1>1, <1>3 DEF ForkInv, TypeOK, ThreadFields
    <2>2. \A x \in Threads, q \in Cprocs :
             /\ Runs(q, x)' <=> Runs(q, x)
             /\ Claims(q, x)' <=> Claims(q, x)
             /\ Frees(q, x)' <=> Frees(q, x)
             /\ At(q, "free")' <=> At(q, "free")
             /\ cproc'[q].self = cproc[q].self
      BY <1>1, <1>3 DEF ForkInv, TypeOK, CprocFields, Claims, Frees, Runs, At
    <2> QED BY <1>1, <1>3, <2>1, <2>2 DEF ForkInv, StatesAgree, calls
  <1>11. FreedOnce'
    BY <1>1, <1>2, <1>3 DEF ForkInv, TypeOK, CprocFields, FreedOnce, Runs, At, calls
  <1> QED BY <1>4, <1>5, <1>6, <1>7, <1>8, <1>9, <1>10, <1>11 DEF ForkInv

LEMMA JoinStep ==
    ASSUME ForkInv, NEW p \in Cprocs, Join(p), UNCHANGED cthread_max_cprocs
    PROVE  ForkInv'
  <1> DEFINE t == cproc[p].t
  <1>1. t \in Threads /\ At(p, "join") /\ "RETURNED" \in thread[t].state /\ results' \in [Jobs -> Nat \cup {None}]
    BY DEF ForkInv, TypeOK, CprocFields, ThreadFields, Places, Join, At
  <1>2. /\ cproc' = [cproc EXCEPT ![p].pc = "free"]
        /\ UNCHANGED <<thread, forks, handle, unjoined, cthreads, counts, conditions, free_cthreads,
                       cthread_max_cprocs>>
    BY DEF Join, Goto
  <1> HIDE DEF t
  <1>3. TypeOK'
    <2>1. cproc' \in [Cprocs -> CprocFields]
      BY <1>1, <1>2, KnownPCs DEF ForkInv, TypeOK, CprocFields
    <2>2. thread' \in [Threads -> ThreadFields]
      BY <1>1, <1>2 DEF ForkInv, TypeOK, ThreadFields
    <2> QED BY <1>1, <1>2, <2>1, <2>2 DEF ForkInv, TypeOK, calls, counts, conditions
  <1>4. Places'
    BY <1>1, <1>2 DEF ForkInv, TypeOK, CprocFields, Places, At, t
  <1>5. Queues'
    <2>1. /\ \A q \in Cprocs : cproc[q].pc \in {"needed", "exiting", "joining"} => cproc'[q] = cproc[q]
          /\ \A x \in Threads : thread'[x].done = thread[x].done
      BY <1>1, <1>2 DEF ForkInv, TypeOK, ThreadFields, At
    <2> QED BY <1>1, <1>2, <2>1, QueuesKept DEF conditions
  <1>6. Handles'
    BY <1>1, <1>2 DEF ForkInv, TypeOK, CprocFields, Handles, Given, calls, t
  <1>7. OneRunner'
    BY <1>1, <1>2 DEF ForkInv, TypeOK, CprocFields, OneRunner, Runs, At, t
  <1>8. OneClaimant'
    BY <1>1, <1>2 DEF ForkInv, TypeOK, CprocFields, OneClaimant, Claims, At, calls, t
  <1>9. StatesAgree'
    BY <1>1, <1>2 DEF ForkInv, TypeOK, CprocFields, ThreadFields, StatesAgree, Claims, Frees, Runs, At, calls, t
  <1>10. FreedOnce'
    BY <1>1, <1>2 DEF ForkInv, TypeOK, CprocFields, FreedOnce, Runs, At, calls, t
  <1> QED BY <1>3, <1>4, <1>5, <1>6, <1>7, <1>8, <1>9, <1>10 DEF ForkInv

LEMMA StartExitStep ==
    ASSUME ForkInv, StartExit, UNCHANGED cthread_max_cprocs
    PROVE  ForkInv'
  <1>1. At(Main, "user") /\ Main \in Cprocs
    BY CthreadsForkAssumption DEF StartExit
  <1>2. /\ cproc' = [cproc EXCEPT ![Main].pc = "exit"]
        /\ UNCHANGED <<thread, calls, cthreads, counts, conditions, free_cthreads, cthread_max_cprocs>>
    BY DEF StartExit, Goto
  <1>3. TypeOK'
    <2>1. cproc' \in [Cprocs -> CprocFields]
      BY <1>1, <1>2, KnownPCs DEF ForkInv, TypeOK, CprocFields
    <2>2. thread' \in [Threads -> ThreadFields]
      BY <1>1, <1>2 DEF ForkInv, TypeOK, ThreadFields
    <2> QED BY <1>1, <1>2, <2>1, <2>2 DEF ForkInv, TypeOK, calls, counts, conditions
  <1>4. Places'
    BY <1>1, <1>2 DEF ForkInv, TypeOK, CprocFields, Places, At
  <1>5. Queues'
    <2>1. /\ \A q \in Cprocs : cproc[q].pc \in {"needed", "exiting", "joining"} => cproc'[q] = cproc[q]
          /\ \A x \in Threads : thread'[x].done = thread[x].done
      BY <1>1, <1>2 DEF ForkInv, TypeOK, ThreadFields, At
    <2> QED BY <1>1, <1>2, <2>1, QueuesKept DEF conditions
  <1>6. Handles'
    BY <1>1, <1>2 DEF ForkInv, TypeOK, CprocFields, Handles, Given, calls
  <1>7. OneRunner'
    BY <1>1, <1>2 DEF ForkInv, TypeOK, CprocFields, OneRunner, Runs, At
  <1>8. OneClaimant'
    BY <1>1, <1>2 DEF ForkInv, TypeOK, CprocFields, OneClaimant, Claims, At, calls
  <1>9. StatesAgree'
    BY <1>1, <1>2 DEF ForkInv, TypeOK, CprocFields, ThreadFields, StatesAgree, Claims, Frees, Runs, At, calls
  <1>10. FreedOnce'
    BY <1>1, <1>2 DEF ForkInv, TypeOK, CprocFields, FreedOnce, Runs, At, calls
  <1> QED BY <1>3, <1>4, <1>5, <1>6, <1>7, <1>8, <1>9, <1>10 DEF ForkInv

LEMMA FunctionReturnsStep ==
    ASSUME ForkInv, NEW p \in Cprocs, FunctionReturns(p), UNCHANGED cthread_max_cprocs
    PROVE  ForkInv'
  <1> DEFINE t == cproc[p].self
  <1>1. t \in Threads /\ At(p, "user") /\ p /= Main
    BY DEF ForkInv, TypeOK, CprocFields, Places, FunctionReturns, At
  <1>2. /\ cproc' = [cproc EXCEPT ![p].pc = "return"]
        /\ thread' = [thread EXCEPT ![t].result = thread[t].job]
        /\ UNCHANGED <<calls, cthreads, counts, conditions, free_cthreads, cthread_max_cprocs>>
    BY DEF FunctionReturns, Goto
  <1> HIDE DEF t
  <1>3. TypeOK'
    <2>1. cproc' \in [Cprocs -> CprocFields]
      BY <1>1, <1>2, KnownPCs DEF ForkInv, TypeOK, CprocFields
    <2>2. thread' \in [Threads -> ThreadFields]
      BY <1>1, <1>2 DEF ForkInv, TypeOK, ThreadFields
    <2> QED BY <1>1, <1>2, <2>1, <2>2 DEF ForkInv, TypeOK, calls, counts, conditions
  <1>4. Places'
    BY <1>1, <1>2 DEF ForkInv, TypeOK, CprocFields, Places, At
  <1>5. Queues'
    <2>1. /\ \A q \in Cprocs : cproc[q].pc \in {"needed", "exiting", "joining"} => cproc'[q] = cproc[q]
          /\ \A x \in Threads : thread'[x].done = thread[x].done
      BY <1>1, <1>2 DEF ForkInv, TypeOK, ThreadFields, At
    <2> QED BY <1>1, <1>2, <2>1, QueuesKept DEF conditions
  <1>6. Handles'
    BY <1>1, <1>2 DEF ForkInv, TypeOK, CprocFields, Handles, Given, calls
  <1>7. OneRunner'
    BY <1>1, <1>2 DEF ForkInv, TypeOK, CprocFields, OneRunner, Runs, At
  <1>8. OneClaimant'
    BY <1>1, <1>2 DEF ForkInv, TypeOK, CprocFields, OneClaimant, Claims, At, calls
  <1>9. StatesAgree'
    <2>1. \A x \in Threads : thread'[x].state = thread[x].state
      BY <1>1, <1>2 DEF ForkInv, TypeOK, ThreadFields
    <2>2. \A x \in Threads, q \in Cprocs :
             /\ Runs(q, x)' <=> Runs(q, x)
             /\ Claims(q, x)' <=> Claims(q, x)
             /\ Frees(q, x)' <=> Frees(q, x)
             /\ At(q, "free")' <=> At(q, "free")
             /\ cproc'[q].self = cproc[q].self
      BY <1>1, <1>2 DEF ForkInv, TypeOK, CprocFields, Claims, Frees, Runs, At
    <2> QED BY <1>1, <1>2, <2>1, <2>2 DEF ForkInv, StatesAgree, calls
  <1>10. FreedOnce'
    BY <1>1, <1>2 DEF ForkInv, TypeOK, CprocFields, FreedOnce, Runs, At, calls
  <1> QED BY <1>3, <1>4, <1>5, <1>6, <1>7, <1>8, <1>9, <1>10 DEF ForkInv

LEMMA StartJoinStep ==
    ASSUME ForkInv, NEW p \in Cprocs, NEW j \in Jobs, StartJoin(p, j), UNCHANGED cthread_max_cprocs
    PROVE  ForkInv'
  <1> DEFINE t == handle[j]
  <1>1. /\ t \in Threads /\ At(p, "user") /\ j \in unjoined /\ cproc[p].self /= t /\ cproc[p].t = None
        /\ \A q \in Cprocs : ~Claims(q, t)
        /\ t \notin Range(free_cthreads) /\ "DETACHED" \notin thread[t].state
    <2>1. At(p, "user") /\ j \in unjoined /\ cproc[p].self /= t
      BY DEF StartJoin, Knows
    <2>2. t \in Threads /\ cproc[p].t = None
      BY <2>1 DEF ForkInv, TypeOK, Places, Handles, At
    <2> QED BY <2>1, <2>2 DEF ForkInv, OneClaimant, StatesAgree, FreedOnce
  <1>2. /\ unjoined' = unjoined \ {j}
        /\ UNCHANGED <<thread, forks, handle, results, cthreads, counts, conditions, free_cthreads,
                       cthread_max_cprocs>>
        /\ cproc' = [cproc EXCEPT ![p] = [pc |-> "join", self |-> cproc[p].self, t |-> t]]
    BY <1>1, Moved, KnownPCs DEF ForkInv, TypeOK, StartJoin
  <1>3. \A k \in unjoined' : k \in unjoined /\ handle[k] /= t
    BY <1>1, <1>2 DEF ForkInv, OneClaimant
  <1> HIDE DEF t
  <1>4. TypeOK'
    <2>1. cproc' \in [Cprocs -> CprocFields]
      BY <1>1, <1>2, <1>3, KnownPCs DEF ForkInv, TypeOK, CprocFields
    <2>2. thread' \in [Threads -> ThreadFields]
      BY <1>1, <1>2, <1>3 DEF ForkInv, TypeOK, ThreadFields
    <2> QED BY <1>1, <1>2, <1>3, <2>1, <2>2 DEF ForkInv, TypeOK, calls, counts, conditions
  <1>5. Places'
    BY <1>1, <1>2, CthreadsForkAssumption DEF ForkInv, TypeOK, CprocFields, Places, At
  <1>6. Queues'
    <2>1. /\ \A q \in Cprocs : cproc[q].pc \in {"needed", "exiting", "joining"} => cproc'[q] = cproc[q]
          /\ \A x \in Threads : thread'[x].done = thread[x].done
      BY <1>1, <1>2 DEF ForkInv, TypeOK, ThreadFields, At
    <2> QED BY <1>1, <1>2, <2>1, QueuesKept DEF conditions
  <1>7. Handles'
    BY <1>1, <1>2, <1>3 DEF ForkInv, TypeOK, CprocFields, Handles, Given, calls, t
  <1>8. OneRunner'
    BY <1>1, <1>2, <1>3 DEF ForkInv, TypeOK, CprocFields, OneRunner, Runs, At, t
  <1>9. OneClaimant'
    BY <1>1, <1>2, <1>3 DEF ForkInv, TypeOK, CprocFields, OneClaimant, Claims, At, calls, t
  <1>10. StatesAgree'
    BY <1>1, <1>2, <1>3 DEF ForkInv, TypeOK, CprocFields, ThreadFields, StatesAgree, Claims, Frees, Runs, At, calls, t
  <1>11. FreedOnce'
    BY <1>1, <1>2, <1>3 DEF ForkInv, TypeOK, CprocFields, FreedOnce, Runs, At, calls, t
  <1> QED BY <1>4, <1>5, <1>6, <1>7, <1>8, <1>9, <1>10, <1>11 DEF ForkInv

LEMMA DetachReturnedStep ==
    ASSUME ForkInv, NEW p \in Cprocs, NEW j \in Jobs, Detach(p, j),
           "RETURNED" \in thread[handle[j]].state, UNCHANGED cthread_max_cprocs
    PROVE  ForkInv'
  <1> DEFINE t == handle[j]
  <1>1. /\ t \in Threads /\ At(p, "user") /\ j \in unjoined /\ cproc[p].t = None
        /\ \A q \in Cprocs : ~Claims(q, t)
        /\ t \notin Range(free_cthreads) /\ "DETACHED" \notin thread[t].state
    <2>1. At(p, "user") /\ j \in unjoined
      BY DEF Detach, Knows
    <2>2. t \in Threads /\ cproc[p].t = None
      BY <2>1 DEF ForkInv, TypeOK, Places, Handles, At
    <2> QED BY <2>1, <2>2 DEF ForkInv, OneClaimant, StatesAgree, FreedOnce
  <1>2. /\ unjoined' = unjoined \ {j}
        /\ UNCHANGED <<thread, forks, handle, results, cthreads, counts, conditions, free_cthreads,
                       cthread_max_cprocs>>
        /\ cproc' = [cproc EXCEPT ![p] = [pc |-> "free", self |-> cproc[p].self, t |-> t]]
    BY <1>1, Moved, KnownPCs DEF ForkInv, TypeOK, Detach
  <1>3. \A k \in unjoined' : k \in unjoined /\ handle[k] /= t
    BY <1>1, <1>2 DEF ForkInv, OneClaimant
  <1>4. "RETURNED" \in thread[t].state /\ \A q \in Cprocs : ~Runs(q, t)
    BY <1>1 DEF ForkInv, StatesAgree
  <1> HIDE DEF t
  <1>5. TypeOK'
    <2>1. cproc' \in [Cprocs -> CprocFields]
      BY <1>1, <1>2, <1>3, <1>4, KnownPCs DEF ForkInv, TypeOK, CprocFields
    <2>2. thread' \in [Threads -> ThreadFields]
      BY <1>1, <1>2, <1>3, <1>4 DEF ForkInv, TypeOK, ThreadFields
    <2> QED BY <1>1, <1>2, <1>3, <1>4, <2>1, <2>2 DEF ForkInv, TypeOK, calls, counts, conditions
  <1>6. Places'
    BY <1>1, <1>2, CthreadsForkAssumption DEF ForkInv, TypeOK, CprocFields, Places, At
  <1>7. Queues'
    <2>1. /\ \A q \in Cprocs : cproc[q].pc \in {"needed", "exiting", "joining"} => cproc'[q] = cproc[q]
          /\ \A x \in Threads : thread'[x].done = thread[x].done
      BY <1>1, <1>2 DEF ForkInv, TypeOK, ThreadFields, At
    <2> QED BY <1>1, <1>2, <2>1, QueuesKept DEF conditions
  <1>8. Handles'
    BY <1>1, <1>2, <1>3, <1>4 DEF ForkInv, TypeOK, CprocFields, Handles, Given, calls, t
  <1>9. OneRunner'
    BY <1>1, <1>2, <1>3, <1>4 DEF ForkInv, TypeOK, CprocFields, OneRunner, Runs, At, t
  <1>10. OneClaimant'
    BY <1>1, <1>2, <1>3, <1>4 DEF ForkInv, TypeOK, CprocFields, OneClaimant, Claims, At, calls, t
  <1>11. StatesAgree'
    BY <1>1, <1>2, <1>3, <1>4 DEF ForkInv, TypeOK, CprocFields, ThreadFields, StatesAgree, Claims, Frees, Runs, At, calls, t
  <1>12. FreedOnce'
    BY <1>1, <1>2, <1>3, <1>4 DEF ForkInv, TypeOK, CprocFields, FreedOnce, Runs, At, calls, t
  <1> QED BY <1>5, <1>6, <1>7, <1>8, <1>9, <1>10, <1>11, <1>12 DEF ForkInv

LEMMA DetachRunningStep ==
    ASSUME ForkInv, NEW p \in Cprocs, NEW j \in Jobs, Detach(p, j),
           "RETURNED" \notin thread[handle[j]].state, UNCHANGED cthread_max_cprocs
    PROVE  ForkInv'
  <1> DEFINE t == handle[j]
  <1>1. /\ t \in Threads /\ At(p, "user") /\ j \in unjoined /\ cproc[p].t = None
        /\ \A q \in Cprocs : ~Claims(q, t)
        /\ t \notin Range(free_cthreads) /\ "DETACHED" \notin thread[t].state
    <2>1. At(p, "user") /\ j \in unjoined
      BY DEF Detach, Knows
    <2>2. t \in Threads /\ cproc[p].t = None
      BY <2>1 DEF ForkInv, TypeOK, Places, Handles, At
    <2> QED BY <2>1, <2>2 DEF ForkInv, OneClaimant, StatesAgree, FreedOnce
  <1>2. /\ unjoined' = unjoined \ {j}
        /\ UNCHANGED <<cproc, forks, handle, results, cthreads, counts, conditions, free_cthreads,
                       cthread_max_cprocs>>
        /\ thread' = [thread EXCEPT ![t].state = @ \cup {"DETACHED"}]
    BY <1>1 DEF ForkInv, TypeOK, Detach
  <1>3. \A k \in unjoined' : k \in unjoined /\ handle[k] /= t
    BY <1>1, <1>2 DEF ForkInv, OneClaimant
  <1> HIDE DEF t
  <1>4. TypeOK'
    <2>1. [thread[t] EXCEPT !.state = @ \cup {"DETACHED"}] \in ThreadFields
      <3>1. thread[t] \in ThreadFields
        BY <1>1 DEF ForkInv, TypeOK
      <3> QED BY <3>1 DEF ThreadFields
    <2>2. thread' \in [Threads -> ThreadFields]
      BY <1>2, <2>1 DEF ForkInv, TypeOK
    <2> QED BY <1>2, <1>3, <2>2 DEF ForkInv, TypeOK, calls, counts, conditions
  <1>5. Places'
    BY <1>1, <1>2, <1>3 DEF ForkInv, TypeOK, CprocFields, Places, At, t
  <1>6. Queues'
    <2>1. /\ \A q \in Cprocs : cproc[q].pc \in {"needed", "exiting", "joining"} => cproc'[q] = cproc[q]
          /\ \A x \in Threads : thread'[x].done = thread[x].done
      BY <1>1, <1>2 DEF ForkInv, TypeOK, ThreadFields, At
    <2> QED BY <1>1, <1>2, <2>1, QueuesKept DEF conditions
  <1>7. Handles'
    BY <1>1, <1>2, <1>3 DEF ForkInv, TypeOK, CprocFields, Handles, Given, calls, t
  <1>8. OneRunner'
    BY <1>1, <1>2, <1>3 DEF ForkInv, TypeOK, CprocFields, OneRunner, Runs, At, t
  <1>9. OneClaimant'
    BY <1>1, <1>2, <1>3 DEF ForkInv, TypeOK, CprocFields, OneClaimant, Claims, At, calls, t
  <1>10. StatesAgree'
    BY <1>1, <1>2, <1>3 DEF ForkInv, TypeOK, CprocFields, ThreadFields, StatesAgree, Claims, Frees, Runs, At, calls, t
  <1>11. FreedOnce'
    BY <1>1, <1>2, <1>3 DEF ForkInv, TypeOK, CprocFields, FreedOnce, Runs, At, calls, t
  <1> QED BY <1>4, <1>5, <1>6, <1>7, <1>8, <1>9, <1>10, <1>11 DEF ForkInv

LEMMA FreeStep ==
    ASSUME ForkInv, NEW p \in Cprocs, Free(p), UNCHANGED cthread_max_cprocs
    PROVE  ForkInv'
  <1> DEFINE t == cproc[p].t
             pc == IF t = cproc[p].self THEN "done" ELSE "user"
  <1>1. /\ t \in Threads /\ At(p, "free") /\ Claims(p, t) /\ Frees(p, t)
        /\ \A q \in Cprocs \ {p} : ~Claims(q, t)
        /\ \A k \in unjoined : handle[k] /= t
        /\ t \notin Range(free_cthreads)
    <2>1. t \in Threads /\ At(p, "free") /\ Claims(p, t) /\ Frees(p, t)
      BY DEF ForkInv, TypeOK, CprocFields, Places, Free, Claims, Frees, At
    <2> QED BY <2>1 DEF ForkInv, OneClaimant, FreedOnce, At
  <1>2. /\ t \notin Range(cthreads)
        /\ \A q \in Cprocs \ {p} : ~Runs(q, t)
        /\ Runs(p, t) <=> cproc[p].self = t
        /\ p = Main <=> cproc[p].self = None
    <2>1. Runs(p, t) <=> cproc[p].self = t
      BY <1>1 DEF Runs, At
    <2>2. p = Main <=> cproc[p].self = None
      BY <1>1 DEF ForkInv, Places, At
    <2> QED BY <1>1, <2>1, <2>2 DEF ForkInv, OneRunner, StatesAgree
  <1>3. /\ <<t>> \o free_cthreads \in Seq(Threads)
        /\ Range(<<t>> \o free_cthreads) = Range(free_cthreads) \cup {t}
        /\ IsInjective(<<t>> \o free_cthreads)
    BY <1>1, QueuePush DEF ForkInv, TypeOK, FreedOnce
  <1>4. /\ free_cthreads' = <<t>> \o free_cthreads
        /\ cproc' = [cproc EXCEPT ![p] = [pc |-> pc, self |-> cproc[p].self, t |-> None]]
        /\ UNCHANGED <<thread, calls, cthreads, counts, conditions, cthread_max_cprocs>>
    <2>1. pc \in PCs
      BY KnownPCs
    <2>2. [cproc EXCEPT ![p].pc = pc, ![p].t = None]
             = [cproc EXCEPT ![p] = [pc |-> pc, self |-> cproc[p].self, t |-> None]]
      BY <2>1, Moved DEF ForkInv, TypeOK
    <2>3. [cproc EXCEPT ![p].t = None, ![p].pc = pc] = [cproc EXCEPT ![p].pc = pc, ![p].t = None]
      BY DEF ForkInv, TypeOK, CprocFields
    <2> QED BY <2>2, <2>3 DEF Free
  <1> HIDE DEF t
  <1>5. TypeOK'
    <2>1. cproc' \in [Cprocs -> CprocFields]
      BY <1>1, <1>2, <1>3, <1>4, KnownPCs DEF ForkInv, TypeOK, CprocFields
    <2>2. thread' \in [Threads -> ThreadFields]
      BY <1>1, <1>2, <1>3, <1>4 DEF ForkInv, TypeOK, ThreadFields
    <2> QED BY <1>1, <1>2, <1>3, <1>4, <2>1, <2>2 DEF ForkInv, TypeOK, calls, counts, conditions
  <1>6. Places'
    BY <1>1, <1>2, <1>4, CthreadsForkAssumption DEF ForkInv, TypeOK, CprocFields, Places, At
  <1>7. Queues'
    <2>1. /\ \A q \in Cprocs : cproc[q].pc \in {"needed", "exiting", "joining"} => cproc'[q] = cproc[q]
          /\ \A x \in Threads : thread'[x].done = thread[x].done
      BY <1>1, <1>4 DEF ForkInv, TypeOK, ThreadFields, At
    <2> QED BY <1>1, <1>4, <2>1, QueuesKept DEF conditions
  <1>8. Handles'
    <2>1. Given(t) /\ \A x : Given(x)' <=> Given(x)
      BY <1>1, <1>4, CthreadsForkAssumption DEF ForkInv, Handles, Given, calls, t
    <2>2. \A q \in Cprocs : /\ cproc'[q].self = cproc[q].self
                            /\ cproc'[q].t /= None => cproc'[q].t = cproc[q].t
      BY <1>4 DEF ForkInv, TypeOK
    <2>3. \A x \in Range(cthreads') \cup Range(free_cthreads') : Given(x)
      BY <1>3, <1>4, <2>1 DEF ForkInv, Handles
    <2> QED BY <1>4, <2>1, <2>2, <2>3 DEF ForkInv, Handles, calls
  <1>9. OneRunner'
    BY <1>1, <1>2, <1>3, <1>4 DEF ForkInv, TypeOK, CprocFields, OneRunner, Runs, At, t
  <1>10. OneClaimant'
    BY <1>1, <1>2, <1>3, <1>4 DEF ForkInv, TypeOK, CprocFields, OneClaimant, Claims, At, calls, t
  <1>11. StatesAgree'
    <2>1. \A x \in Threads, q \in Cprocs :
             /\ Runs(q, x)' => Runs(q, x)
             /\ Claims(q, x)' => Claims(q, x) /\ cproc'[q] = cproc[q]
             /\ Frees(q, x)' => Frees(q, x) /\ cproc'[q] = cproc[q]
      BY <1>1, <1>2, <1>4 DEF ForkInv, TypeOK, CprocFields, Claims, Frees, Runs, At
    <2> QED BY <1>1, <1>2, <1>4, <2>1 DEF ForkInv, StatesAgree, At, calls
  <1>12. FreedOnce'
    <2>1. \A x \in Threads, q \in Cprocs :
             /\ Runs(q, x)' => Runs(q, x) /\ x /= t
             /\ cproc'[q].t = x => x /= t \/ At(q, "fork")'
      BY <1>1, <1>2, <1>4, CthreadsForkAssumption DEF ForkInv, TypeOK, CprocFields, Runs, Claims, Places, At
    <2>2. \A x \in Range(free_cthreads), q \in Cprocs : cproc'[q].t = x => At(q, "fork")'
      BY <1>1, <1>4, CthreadsForkAssumption, Elements DEF ForkInv, TypeOK, FreedOnce, At
    <2>3. ASSUME NEW x \in Range(free_cthreads')
          PROVE  /\ x \notin Range(cthreads')
                 /\ \A q \in Cprocs : ~Runs(q, x)' /\ (cproc'[q].t = x => At(q, "fork")')
                 /\ \A k \in unjoined' : handle'[k] /= x
      <3>1. CASE x = t
        BY <1>1, <1>2, <1>4, <2>1, <3>1 DEF calls
      <3>2. CASE x /= t
        <4>1. x \in Range(free_cthreads) /\ x \in Threads
          BY <1>3, <1>4, <2>3, <3>2, Elements DEF ForkInv
        <4> QED BY <1>4, <2>1, <2>2, <4>1 DEF ForkInv, FreedOnce, calls
      <3> QED BY <3>1, <3>2
    <2> QED BY <1>3, <1>4, <2>3 DEF FreedOnce
  <1> QED BY <1>5, <1>6, <1>7, <1>8, <1>9, <1>10, <1>11, <1>12 DEF ForkInv

LEMMA ReturnDetachedStep ==
    ASSUME ForkInv, NEW p \in Cprocs, Return(p),
           "DETACHED" \in thread[cproc[p].self].state, UNCHANGED cthread_max_cprocs
    PROVE  ForkInv'
  <1> DEFINE t == cproc[p].self
  <1>1. /\ t \in Threads /\ At(p, "return") /\ Runs(p, t) /\ p /= Main /\ cproc[p].t = None
        /\ t \notin Range(free_cthreads) /\ t \notin Range(cthreads)
        /\ \A q \in Cprocs \ {p} : ~Runs(q, t)
    <2>1. At(p, "return") /\ p /= Main /\ cproc[p].t = None /\ t \in Threads
      BY DEF ForkInv, TypeOK, CprocFields, Places, Return, At
    <2>2. Runs(p, t)
      BY <2>1 DEF Runs, At
    <2> QED BY <2>1, <2>2 DEF ForkInv, OneRunner, FreedOnce
  <1>2. /\ UNCHANGED <<thread, calls, cthreads, counts, conditions, free_cthreads, cthread_max_cprocs>>
        /\ cproc' = [cproc EXCEPT ![p] = [pc |-> "free", self |-> t, t |-> t]]
    BY <1>1, Moved, KnownPCs DEF ForkInv, TypeOK, Return
  <1>3. /\ "DETACHED" \in thread[t].state
        /\ \A q \in Cprocs : ~Claims(q, t)
        /\ \A k \in unjoined : handle[k] /= t
    BY <1>1 DEF ForkInv, StatesAgree, Claims, Runs, At
  <1> HIDE DEF t
  <1>4. TypeOK'
    <2>1. cproc' \in [Cprocs -> CprocFields]
      BY <1>1, <1>2, <1>3, KnownPCs DEF ForkInv, TypeOK, CprocFields
    <2>2. thread' \in [Threads -> ThreadFields]
      BY <1>1, <1>2, <1>3 DEF ForkInv, TypeOK, ThreadFields
    <2> QED BY <1>1, <1>2, <1>3, <2>1, <2>2 DEF ForkInv, TypeOK, calls, counts, conditions
  <1>5. Places'
    BY <1>1, <1>2, CthreadsForkAssumption DEF ForkInv, TypeOK, CprocFields, Places, At
  <1>6. Queues'
    <2>1. /\ \A q \in Cprocs : cproc[q].pc \in {"needed", "exiting", "joining"} => cproc'[q] = cproc[q]
          /\ \A x \in Threads : thread'[x].done = thread[x].done
      BY <1>1, <1>2 DEF ForkInv, TypeOK, ThreadFields, At
    <2> QED BY <1>1, <1>2, <2>1, QueuesKept DEF conditions
  <1>7. Handles'
    BY <1>1, <1>2, <1>3 DEF ForkInv, TypeOK, CprocFields, Handles, Given, calls, t
  <1>8. OneRunner'
    BY <1>1, <1>2, <1>3 DEF ForkInv, TypeOK, CprocFields, OneRunner, Runs, At, t
  <1>9. OneClaimant'
    BY <1>1, <1>2, <1>3 DEF ForkInv, TypeOK, CprocFields, OneClaimant, Claims, At, calls, t
  <1>10. StatesAgree'
    BY <1>1, <1>2, <1>3 DEF ForkInv, TypeOK, CprocFields, ThreadFields, StatesAgree, Claims, Frees, Runs, At, calls, t
  <1>11. FreedOnce'
    BY <1>1, <1>2, <1>3 DEF ForkInv, TypeOK, CprocFields, FreedOnce, Runs, At, calls, t
  <1> QED BY <1>4, <1>5, <1>6, <1>7, <1>8, <1>9, <1>10, <1>11 DEF ForkInv

LEMMA ReturnUndetachedStep ==
    ASSUME ForkInv, NEW p \in Cprocs, Return(p),
           "DETACHED" \notin thread[cproc[p].self].state, UNCHANGED cthread_max_cprocs
    PROVE  ForkInv'
  <1> DEFINE t == cproc[p].self
  <1>1. /\ t \in Threads /\ At(p, "return") /\ Runs(p, t) /\ p /= Main /\ cproc[p].t = None
        /\ t \notin Range(free_cthreads) /\ t \notin Range(cthreads)
        /\ \A q \in Cprocs \ {p} : ~Runs(q, t)
    <2>1. At(p, "return") /\ p /= Main /\ cproc[p].t = None /\ t \in Threads
      BY DEF ForkInv, TypeOK, CprocFields, Places, Return, At
    <2>2. Runs(p, t)
      BY <2>1 DEF Runs, At
    <2> QED BY <2>1, <2>2 DEF ForkInv, OneRunner, FreedOnce
  <1>2. /\ UNCHANGED <<calls, cthreads, counts, conditions, free_cthreads, cthread_max_cprocs>>
        /\ thread' = [thread EXCEPT ![t].state = @ \cup {"RETURNED"}]
        /\ cproc' = [cproc EXCEPT ![p].pc = "signal"]
    BY <1>1 DEF ForkInv, TypeOK, Return, Goto
  <1> HIDE DEF t
  <1>3. TypeOK'
    <2>1. [cproc[p] EXCEPT !.pc = "signal"] \in CprocFields
      BY KnownPCs DEF ForkInv, TypeOK, CprocFields
    <2>2. thread' \in [Threads -> ThreadFields]
      <3>1. [thread[t] EXCEPT !.state = @ \cup {"RETURNED"}] \in ThreadFields
        <4>1. thread[t] \in ThreadFields
          BY <1>1 DEF ForkInv, TypeOK
        <4> QED BY <4>1 DEF ThreadFields
      <3> QED BY <1>2, <3>1 DEF ForkInv, TypeOK
    <2> QED BY <1>2, <2>1, <2>2 DEF ForkInv, TypeOK, calls, counts, conditions
  <1>4. Places'
    BY <1>1, <1>2, CthreadsForkAssumption DEF ForkInv, TypeOK, CprocFields, Places, At
  <1>5. Queues'
    <2>1. /\ \A q \in Cprocs : cproc[q].pc \in {"needed", "exiting", "joining"} => cproc'[q] = cproc[q]
          /\ \A x \in Threads : thread'[x].done = thread[x].done
      BY <1>1, <1>2 DEF ForkInv, TypeOK, ThreadFields, At
    <2> QED BY <1>1, <1>2, <2>1, QueuesKept DEF conditions
  <1>6. Handles'
    BY <1>1, <1>2 DEF ForkInv, TypeOK, CprocFields, Handles, Given, calls, t
  <1>7. OneRunner'
    BY <1>1, <1>2 DEF ForkInv, TypeOK, CprocFields, OneRunner, Runs, At, t
  <1>8. OneClaimant'
    BY <1>1, <1>2 DEF ForkInv, TypeOK, CprocFields, OneClaimant, Claims, At, calls, t
  <1>9. StatesAgree'
    BY <1>1, <1>2 DEF ForkInv, TypeOK, CprocFields, ThreadFields, StatesAgree, Claims, Frees, Runs, At, calls, t
  <1>10. FreedOnce'
    BY <1>1, <1>2 DEF ForkInv, TypeOK, CprocFields, FreedOnce, Runs, At, calls, t
  <1> QED BY <1>3, <1>4, <1>5, <1>6, <1>7, <1>8, <1>9, <1>10 DEF ForkInv

LEMMA ExitWaitsStep ==
    ASSUME ForkInv, Exit, cthread_cthreads > 1, UNCHANGED cthread_max_cprocs
    PROVE  ForkInv'
  <1>1. At(Main, "exit") /\ Main \in Cprocs /\ Main \notin Range(cthread_idle)
    BY CthreadsForkAssumption DEF Exit, ForkInv, Queues, At
  <1>2. /\ cthread_idle' \in Seq(Cprocs) /\ IsInjective(cthread_idle')
        /\ Range(cthread_idle') = Range(cthread_idle) \cup {Main}
    <2>1. cthread_idle' = Append(cthread_idle, Main)
      BY DEF Exit
    <2>2. cthread_idle \in Seq(Cprocs) /\ IsInjective(cthread_idle)
      BY DEF ForkInv, TypeOK, Queues
    <2> QED BY <1>1, <2>1, <2>2, QueueAppend
  <1>3. /\ cproc' = [cproc EXCEPT ![Main].pc = "exiting"]
        /\ UNCHANGED <<thread, calls, cthreads, counts, cthread_needed, free_cthreads, cthread_max_cprocs>>
    BY DEF Exit, Goto
  <1>4. TypeOK'
    <2>1. cproc' \in [Cprocs -> CprocFields]
      BY <1>1, <1>2, <1>3, KnownPCs DEF ForkInv, TypeOK, CprocFields
    <2>2. thread' \in [Threads -> ThreadFields]
      BY <1>1, <1>2, <1>3 DEF ForkInv, TypeOK, ThreadFields
    <2> QED BY <1>1, <1>2, <1>3, <2>1, <2>2 DEF ForkInv, TypeOK, calls, counts, conditions
  <1>5. Places'
    BY <1>1, <1>3, CthreadsForkAssumption DEF ForkInv, TypeOK, CprocFields, Places, At
  <1>6. Queues'
    <2>1. \A q \in Cprocs \ {Main} : cproc'[q] = cproc[q]
      BY <1>3 DEF ForkInv, TypeOK
    <2>2. cproc'[Main].pc = "exiting"
      BY <1>1, <1>3 DEF ForkInv, TypeOK, CprocFields
    <2>3. \A x \in Threads : \A q \in Range(thread[x].done) : At(q, "joining")' /\ cproc'[q].t = x
      BY <1>1, <2>1, Elements DEF ForkInv, Queues, At
    <2>4. \A q \in Range(cthread_needed) : At(q, "needed")'
      BY <1>1, <2>1, Elements DEF ForkInv, Queues, At
    <2>5. \A q \in Range(cthread_idle') : At(q, "exiting")'
      BY <1>2, <2>1, <2>2, Elements DEF ForkInv, Queues, At
    <2> QED BY <1>2, <1>3, <2>3, <2>4, <2>5 DEF ForkInv, Queues
  <1>7. Handles'
    BY <1>1, <1>2, <1>3 DEF ForkInv, TypeOK, CprocFields, Handles, Given, calls
  <1>8. OneRunner'
    BY <1>1, <1>2, <1>3 DEF ForkInv, TypeOK, CprocFields, OneRunner, Runs, At
  <1>9. OneClaimant'
    BY <1>1, <1>2, <1>3 DEF ForkInv, TypeOK, CprocFields, OneClaimant, Claims, At, calls
  <1>10. StatesAgree'
    BY <1>1, <1>2, <1>3 DEF ForkInv, TypeOK, CprocFields, ThreadFields, StatesAgree, Claims, Frees, Runs, At, calls
  <1>11. FreedOnce'
    BY <1>1, <1>2, <1>3 DEF ForkInv, TypeOK, CprocFields, FreedOnce, Runs, At, calls
  <1> QED BY <1>4, <1>5, <1>6, <1>7, <1>8, <1>9, <1>10, <1>11 DEF ForkInv

LEMMA ExitsStep ==
    ASSUME ForkInv, Exit, ~(cthread_cthreads > 1), UNCHANGED cthread_max_cprocs
    PROVE  ForkInv'
  <1>1. At(Main, "exit") /\ Main \in Cprocs
    BY CthreadsForkAssumption DEF Exit
  <1>2. /\ cproc' = [cproc EXCEPT ![Main].pc = "exited"]
        /\ UNCHANGED <<thread, calls, cthreads, counts, conditions, free_cthreads, cthread_max_cprocs>>
    BY DEF Exit, Goto, conditions
  <1>3. TypeOK'
    <2>1. cproc' \in [Cprocs -> CprocFields]
      BY <1>1, <1>2, KnownPCs DEF ForkInv, TypeOK, CprocFields
    <2>2. thread' \in [Threads -> ThreadFields]
      BY <1>1, <1>2 DEF ForkInv, TypeOK, ThreadFields
    <2> QED BY <1>1, <1>2, <2>1, <2>2 DEF ForkInv, TypeOK, calls, counts, conditions
  <1>4. Places'
    BY <1>1, <1>2 DEF ForkInv, TypeOK, CprocFields, Places, At
  <1>5. Queues'
    <2>1. /\ \A q \in Cprocs : cproc[q].pc \in {"needed", "exiting", "joining"} => cproc'[q] = cproc[q]
          /\ \A x \in Threads : thread'[x].done = thread[x].done
      BY <1>1, <1>2 DEF ForkInv, TypeOK, ThreadFields, At
    <2> QED BY <1>1, <1>2, <2>1, QueuesKept DEF conditions
  <1>6. Handles'
    BY <1>1, <1>2 DEF ForkInv, TypeOK, CprocFields, Handles, Given, calls
  <1>7. OneRunner'
    BY <1>1, <1>2 DEF ForkInv, TypeOK, CprocFields, OneRunner, Runs, At
  <1>8. OneClaimant'
    BY <1>1, <1>2 DEF ForkInv, TypeOK, CprocFields, OneClaimant, Claims, At, calls
  <1>9. StatesAgree'
    BY <1>1, <1>2 DEF ForkInv, TypeOK, CprocFields, ThreadFields, StatesAgree, Claims, Frees, Runs, At, calls
  <1>10. FreedOnce'
    BY <1>1, <1>2 DEF ForkInv, TypeOK, CprocFields, FreedOnce, Runs, At, calls
  <1> QED BY <1>3, <1>4, <1>5, <1>6, <1>7, <1>8, <1>9, <1>10 DEF ForkInv

LEMMA ForkSignalStep ==
    ASSUME ForkInv, NEW p \in Cprocs, ForkSignal(p), UNCHANGED cthread_max_cprocs
    PROVE  ForkInv'
  <1> DEFINE went == [cproc EXCEPT ![p] = [pc |-> "user", self |-> cproc[p].self, t |-> None]]
  <1>1. At(p, "fork") /\ went \in [Cprocs -> CprocFields]
    BY KnownPCs DEF ForkInv, TypeOK, CprocFields, ForkSignal
  <1>2. /\ cproc' = Woken(went, cthread_needed, "body")
        /\ cthread_needed' = Rest(cthread_needed)
        /\ UNCHANGED <<thread, calls, cthreads, counts, cthread_idle, free_cthreads, cthread_max_cprocs>>
    BY Moved, KnownPCs DEF ForkSignal, ForkInv, TypeOK
  <1> HIDE DEF went
  <1>3. /\ cproc' \in [Cprocs -> CprocFields]
        /\ \A q \in Cprocs :
              /\ cproc'[q].self = went[q].self
              /\ cproc'[q].t = went[q].t
              /\ q \notin Range(cthread_needed) => cproc'[q].pc = went[q].pc
              /\ q \in Range(cthread_needed) =>
                    cproc'[q].pc = IF q \in Range(cthread_needed') THEN went[q].pc ELSE "body"
        /\ cthread_needed' \in Seq(Cprocs) /\ IsInjective(cthread_needed')
        /\ Range(cthread_needed') \subseteq Range(cthread_needed)
    <2>1. cthread_needed \in Seq(Cprocs) /\ IsInjective(cthread_needed) /\ "body" \in PCs
      BY KnownPCs DEF ForkInv, TypeOK, Queues
    <2> QED BY <1>1, <1>2, <2>1, Signalled
  <1>4. \A q \in Cprocs : q \in Range(cthread_needed) => cproc[q].pc = "needed" /\ q /= p
    BY <1>1 DEF ForkInv, Queues, At
  <1>5. \A q \in Cprocs :
           /\ cproc'[q].self = cproc[q].self
           /\ cproc'[q].t = IF q = p THEN None ELSE cproc[q].t
           /\ q = p => cproc'[q].pc = "user"
           /\ q /= p => \/ cproc'[q].pc = cproc[q].pc
                        \/ cproc[q].pc = "needed" /\ cproc'[q].pc = "body"
           /\ q \in Range(cthread_needed') => cproc'[q].pc = "needed"
    BY <1>3, <1>4 DEF went, ForkInv, TypeOK
  <1>6. \A q \in Cprocs : cproc[q].pc = "needed" => cproc[q].self = None /\ cproc[q].t = None
    BY DEF ForkInv, Places, At
  <1>7. \A q \in Cprocs, x \in Threads :
           /\ Runs(q, x)' => Runs(q, x)
           /\ Claims(q, x)' => Claims(q, x) /\ cproc'[q].self = cproc[q].self
           /\ Frees(q, x)' => Frees(q, x)
           /\ cproc'[q].t = x => cproc[q].t = x
    BY <1>1, <1>5, <1>6, CthreadsForkAssumption DEF Runs, Claims, Frees, At
  <1>8. \A q \in Cprocs :
           /\ At(q, "free") => At(q, "free")'
           /\ At(q, "fork") /\ cproc'[q].t /= None => At(q, "fork")'
    BY <1>1, <1>5 DEF At
  <1>9. OneRunner' /\ OneClaimant' /\ StatesAgree' /\ FreedOnce'
    BY <1>2, <1>5, <1>7, <1>8, NobodyGetsOne DEF calls
  <1>10. TypeOK'
    BY <1>2, <1>3 DEF ForkInv, TypeOK, calls, counts, conditions
  <1>11. Places'
    <2>1. cproc[Main].self = None /\ Main \in Cprocs /\ cproc[Main].pc /= "needed"
      BY CthreadsForkAssumption DEF ForkInv, Places
    <2>2. cproc'[Main].self = None /\ cproc'[Main].pc = IF p = Main THEN "user" ELSE cproc[Main].pc
      BY <1>5, <2>1
    <2>3. ASSUME NEW q \in Cprocs \ {Main}
          PROVE  /\ cproc'[q].pc \notin {"exit", "exiting", "exited"}
                 /\ cproc'[q].self = None <=> cproc'[q].pc \in {"none", "body", "needed"}
      BY <1>1, <1>5 DEF ForkInv, Places, At
    <2>4. ASSUME NEW q \in Cprocs
          PROVE  cproc'[q].t = None <=> cproc'[q].pc \notin {"fork", "join", "joining", "free"}
      BY <1>1, <1>5, <1>6 DEF ForkInv, Places, At
    <2> QED BY <2>1, <2>2, <2>3, <2>4 DEF ForkInv, Places
  <1>12. Queues'
    <2>1. \A q \in Range(cthread_needed') : At(q, "needed")'
      BY <1>3, <1>5, Elements DEF ForkInv, At
    <2>2. \A q \in Range(cthread_idle) : At(q, "exiting")'
      BY <1>1, <1>5, Elements DEF ForkInv, Queues, At
    <2>3. \A x \in Threads : \A q \in Range(thread[x].done) : At(q, "joining")' /\ cproc'[q].t = x
      BY <1>1, <1>5, Elements DEF ForkInv, Queues, At
    <2> QED BY <1>2, <1>3, <2>1, <2>2, <2>3 DEF ForkInv, Queues
  <1>13. Handles'
    BY <1>1, <1>2, <1>5 DEF ForkInv, TypeOK, CprocFields, Handles, Given, calls
  <1>14. OneRunner'
    BY <1>9
  <1>15. OneClaimant'
    BY <1>9
  <1>16. StatesAgree'
    BY <1>9
  <1>17. FreedOnce'
    BY <1>9
  <1> QED BY <1>10, <1>11, <1>12, <1>13, <1>14, <1>15, <1>16, <1>17 DEF ForkInv

LEMMA SignalDoneStep ==
    ASSUME ForkInv, NEW p \in Cprocs, SignalDone(p), UNCHANGED cthread_max_cprocs
    PROVE  ForkInv'
  <1> DEFINE t == cproc[p].self
             cond == thread[t].done
             went == [cproc EXCEPT ![p].pc = "done"]
  <1>1. At(p, "signal") /\ went \in [Cprocs -> CprocFields] /\ t \in Threads /\ p /= Main
    <2>1. At(p, "signal") /\ t \in Threads /\ p /= Main
      BY DEF ForkInv, TypeOK, CprocFields, Places, At, SignalDone
    <2>2. [cproc[p] EXCEPT !.pc = "done"] \in CprocFields
      BY KnownPCs DEF ForkInv, TypeOK, CprocFields
    <2> QED BY <2>1, <2>2 DEF ForkInv, TypeOK
  <1>2. /\ cproc' = Woken(went, cond, "join")
        /\ thread' = [thread EXCEPT ![t].done = Rest(@)]
        /\ UNCHANGED <<calls, cthreads, counts, conditions, free_cthreads, cthread_max_cprocs>>
    BY DEF SignalDone, Goto
  <1>3. cond \in Seq(Cprocs) /\ IsInjective(cond)
    BY <1>1 DEF ForkInv, TypeOK, ThreadFields, Queues
  <1> HIDE DEF went, cond
  <1>4. /\ cproc' \in [Cprocs -> CprocFields]
        /\ \A q \in Cprocs :
              /\ cproc'[q].self = went[q].self
              /\ cproc'[q].t = went[q].t
              /\ q \notin Range(cond) => cproc'[q].pc = went[q].pc
              /\ q \in Range(cond) => cproc'[q].pc = IF q \in Range(Rest(cond)) THEN went[q].pc ELSE "join"
        /\ Rest(cond) \in Seq(Cprocs) /\ IsInjective(Rest(cond))
        /\ Range(Rest(cond)) \subseteq Range(cond)
    <2>1. went \in [Cprocs -> CprocFields] /\ "join" \in PCs
      BY <1>1, KnownPCs
    <2> QED BY <1>2, <1>3, <2>1, Signalled
  <1>5. \A q \in Cprocs : q \in Range(cond) => cproc[q].pc = "joining" /\ cproc[q].t = t /\ q /= p
    BY <1>1 DEF ForkInv, Queues, At, cond
  <1>6. \A q \in Cprocs :
           /\ cproc'[q].self = cproc[q].self
           /\ cproc'[q].t = cproc[q].t
           /\ q = p => cproc'[q].pc = "done"
           /\ q /= p => \/ cproc'[q].pc = cproc[q].pc
                        \/ cproc[q].pc = "joining" /\ cproc'[q].pc = "join" /\ cproc[q].t = t
           /\ q \in Range(Rest(cond)) => cproc'[q].pc = "joining" /\ cproc'[q].t = t
    BY <1>4, <1>5 DEF went, ForkInv, TypeOK, CprocFields
  <1>7. \A q \in Range(Rest(cond)) : q \in Cprocs
    BY <1>4, <1>3, QueueRange
  <1>8. \A q \in Cprocs, x \in Threads :
           /\ Runs(q, x)' => Runs(q, x)
           /\ Claims(q, x)' => Claims(q, x) /\ cproc'[q].self = cproc[q].self
           /\ Frees(q, x)' => Frees(q, x)
           /\ cproc'[q].t = x => cproc[q].t = x
    <2>1. cproc[p].t = None
      BY <1>1 DEF ForkInv, Places, At
    <2> QED BY <1>1, <1>6, <2>1, CthreadsForkAssumption DEF Runs, Claims, Frees, At
  <1>9. \A q \in Cprocs :
           /\ At(q, "free") => At(q, "free")'
           /\ At(q, "fork") /\ cproc'[q].t /= None => At(q, "fork")'
    BY <1>1, <1>6 DEF At
  <1>10. /\ thread' \in [Threads -> ThreadFields]
         /\ thread'[t].done = Rest(cond)
         /\ \A x \in Threads \ {t} : thread'[x].done = thread[x].done
         /\ \A x \in Threads : thread'[x].state = thread[x].state
    <2> DEFINE r == [thread[t] EXCEPT !.done = Rest(cond)]
    <2>1. r \in ThreadFields /\ r.done = Rest(cond) /\ r.state = thread[t].state
      <3>1. thread[t] \in ThreadFields /\ Rest(cond) \in Seq(Cprocs)
        BY <1>1, <1>4 DEF ForkInv, TypeOK
      <3> QED BY <3>1 DEF ThreadFields
    <2>2. thread' = [thread EXCEPT ![t] = r]
      BY <1>1, <1>2 DEF ForkInv, TypeOK, cond
    <2> HIDE DEF r
    <2> QED BY <1>1, <2>1, <2>2 DEF ForkInv, TypeOK
  <1>11. OneRunner' /\ OneClaimant' /\ StatesAgree' /\ FreedOnce'
    BY <1>2, <1>8, <1>9, <1>10, NobodyGetsOne DEF calls
  <1> HIDE DEF t
  <1>12. TypeOK'
    BY <1>2, <1>4, <1>10 DEF ForkInv, TypeOK, calls, counts, conditions
  <1>13. Places'
    <2>1. cproc[Main].self = None /\ Main \in Cprocs
      BY CthreadsForkAssumption DEF ForkInv, Places
    <2>2. /\ cproc'[Main].self = None
          /\ cproc'[Main].pc = cproc[Main].pc \/ cproc'[Main].pc = "join"
      BY <1>1, <1>6, <2>1
    <2>3. ASSUME NEW q \in Cprocs \ {Main}
          PROVE  /\ cproc'[q].pc \notin {"exit", "exiting", "exited"}
                 /\ cproc'[q].self = None <=> cproc'[q].pc \in {"none", "body", "needed"}
      BY <1>1, <1>6 DEF ForkInv, Places, At
    <2>4. ASSUME NEW q \in Cprocs
          PROVE  cproc'[q].t = None <=> cproc'[q].pc \notin {"fork", "join", "joining", "free"}
      BY <1>1, <1>6 DEF ForkInv, Places, At
    <2> QED BY <2>1, <2>2, <2>3, <2>4 DEF ForkInv, Places
  <1>14. Queues'
    <2>1. \A q \in Range(cthread_needed) : At(q, "needed")'
      BY <1>1, <1>6, Elements DEF ForkInv, Queues, At
    <2>2. \A q \in Range(cthread_idle) : At(q, "exiting")'
      BY <1>1, <1>6, Elements DEF ForkInv, Queues, At
    <2>3. ASSUME NEW x \in Threads
          PROVE  IsInjective(thread'[x].done) /\ \A q \in Range(thread'[x].done) : At(q, "joining")' /\ cproc'[q].t = x
      <3>1. CASE x = t
        BY <1>4, <1>6, <1>7, <1>10, <3>1 DEF At
      <3>2. CASE x /= t
        BY <1>1, <1>6, <1>10, <3>2, Elements DEF ForkInv, Queues, At
      <3> QED BY <3>1, <3>2
    <2> QED BY <1>2, <2>1, <2>2, <2>3 DEF ForkInv, Queues, conditions
  <1>15. Handles'
    BY <1>1, <1>2, <1>6 DEF ForkInv, TypeOK, CprocFields, Handles, Given, calls
  <1>16. OneRunner'
    BY <1>11
  <1>17. OneClaimant'
    BY <1>11
  <1>18. StatesAgree'
    BY <1>11
  <1>19. FreedOnce'
    BY <1>11
  <1> QED BY <1>12, <1>13, <1>14, <1>15, <1>16, <1>17, <1>18, <1>19 DEF ForkInv

LEMMA TakeThreadStep ==
    ASSUME ForkInv, NEW p \in Cprocs, At(p, "body") \/ At(p, "done"), NextThread(p),
           UNCHANGED <<thread, calls, free_cthreads>>, cthread_cthreads' \in Int, cthread_cprocs' \in Int,
           cthreads /= <<>>, UNCHANGED cthread_max_cprocs
    PROVE  ForkInv'
  <1>1. /\ p /= Main /\ cproc[p].t = None
        /\ \A x \in Threads : ~Runs(p, x) /\ ~Claims(p, x)
        /\ p \notin Range(cthread_needed) /\ p \notin Range(cthread_idle)
    BY CthreadsForkAssumption DEF ForkInv, Places, Queues, Runs, Claims, At
  <1> DEFINE t == Head(cthreads)
  <1>2. /\ t \in Threads /\ cthreads' \in Seq(Threads)
        /\ Range(cthreads) = {t} \cup Range(cthreads')
        /\ IsInjective(cthreads') /\ t \notin Range(cthreads')
    <2>1. cthreads' = Tail(cthreads)
      BY DEF NextThread
    <2>2. cthreads \in Seq(Threads) /\ IsInjective(cthreads)
      BY DEF ForkInv, TypeOK, OneRunner
    <2> QED BY <2>1, <2>2, QueueTail
  <1>3. /\ t \notin Range(free_cthreads) /\ "RETURNED" \notin thread[t].state /\ Given(t)
        /\ \A q \in Cprocs : ~Runs(q, t)
    BY <1>2 DEF ForkInv, StatesAgree, FreedOnce, Handles, OneRunner
  <1>4. /\ cproc' = [cproc EXCEPT ![p] = [pc |-> "user", self |-> t, t |-> None]]
        /\ UNCHANGED <<thread, calls, conditions, free_cthreads, cthread_max_cprocs>>
    BY DEF NextThread
  <1> HIDE DEF t
  <1>5. TypeOK'
    <2>1. cproc' \in [Cprocs -> CprocFields]
      BY <1>2, <1>4, KnownPCs DEF ForkInv, TypeOK, CprocFields
    <2> QED BY <1>2, <1>4, <2>1 DEF ForkInv, TypeOK, calls, conditions
  <1>6. Places'
    BY <1>1, <1>2, <1>4, CthreadsForkAssumption DEF ForkInv, TypeOK, CprocFields, Places, At
  <1>7. Queues'
    <2>1. /\ \A q \in Cprocs : cproc[q].pc \in {"needed", "exiting", "joining"} => cproc'[q] = cproc[q]
          /\ \A x \in Threads : thread'[x].done = thread[x].done
      BY <1>1, <1>4 DEF ForkInv, TypeOK, ThreadFields, At
    <2> QED BY <1>1, <1>4, <2>1, QueuesKept DEF conditions
  <1>8. Handles'
    BY <1>1, <1>2, <1>3, <1>4 DEF ForkInv, TypeOK, CprocFields, Handles, Given, calls
  <1>9. OneRunner'
    BY <1>1, <1>2, <1>3, <1>4 DEF ForkInv, TypeOK, CprocFields, OneRunner, Runs, At
  <1>10. OneClaimant'
    BY <1>1, <1>2, <1>3, <1>4 DEF ForkInv, TypeOK, CprocFields, OneClaimant, Claims, At, calls
  <1>11. StatesAgree'
    <2>1. \A x \in Threads, q \in Cprocs :
             /\ Runs(q, x)' => Runs(q, x) \/ x = t
             /\ Claims(q, x)' => Claims(q, x) /\ cproc'[q] = cproc[q]
             /\ Frees(q, x)' => Frees(q, x) /\ cproc'[q] = cproc[q]
      BY <1>1, <1>2, <1>3, <1>4 DEF ForkInv, TypeOK, CprocFields, Claims, Frees, Runs, At
    <2> QED BY <1>1, <1>2, <1>3, <1>4, <2>1 DEF ForkInv, StatesAgree, At, calls
  <1>12. FreedOnce'
    BY <1>1, <1>2, <1>3, <1>4 DEF ForkInv, TypeOK, CprocFields, FreedOnce, Runs, At, calls
  <1> QED BY <1>5, <1>6, <1>7, <1>8, <1>9, <1>10, <1>11, <1>12 DEF ForkInv

LEMMA NeedThreadStep ==
    ASSUME ForkInv, NEW p \in Cprocs, At(p, "body") \/ At(p, "done"), NextThread(p),
           UNCHANGED <<thread, calls, free_cthreads>>, cthread_cthreads' \in Int, cthread_cprocs' \in Int,
           cthreads = <<>>, UNCHANGED cthread_max_cprocs
    PROVE  ForkInv'
  <1>1. /\ p /= Main /\ cproc[p].t = None
        /\ \A x \in Threads : ~Runs(p, x) /\ ~Claims(p, x)
        /\ p \notin Range(cthread_needed) /\ p \notin Range(cthread_idle)
    BY CthreadsForkAssumption DEF ForkInv, Places, Queues, Runs, Claims, At
  <1> DEFINE went == [cproc EXCEPT ![p] = [pc |-> "needed", self |-> None, t |-> None]]
  <1>2. /\ cproc' = Woken(went, cthread_idle, "exit")
        /\ cthread_idle' = Rest(cthread_idle)
        /\ cthread_needed' = Append(cthread_needed, p)
        /\ UNCHANGED <<thread, calls, cthreads, free_cthreads, cthread_max_cprocs>>
    BY DEF NextThread
  <1>3. went \in [Cprocs -> CprocFields]
    BY KnownPCs DEF ForkInv, TypeOK, CprocFields
  <1> HIDE DEF went
  <1>4. /\ cproc' \in [Cprocs -> CprocFields]
        /\ \A q \in Cprocs :
              /\ cproc'[q].self = went[q].self
              /\ cproc'[q].t = went[q].t
              /\ q \notin Range(cthread_idle) => cproc'[q].pc = went[q].pc
              /\ q \in Range(cthread_idle) =>
                    cproc'[q].pc = IF q \in Range(cthread_idle') THEN went[q].pc ELSE "exit"
        /\ cthread_idle' \in Seq(Cprocs) /\ IsInjective(cthread_idle')
        /\ Range(cthread_idle') \subseteq Range(cthread_idle)
    <2>1. cthread_idle \in Seq(Cprocs) /\ IsInjective(cthread_idle) /\ "exit" \in PCs
      BY KnownPCs DEF ForkInv, TypeOK, Queues
    <2> QED BY <1>2, <1>3, <2>1, Signalled
  <1>5. /\ cthread_needed' \in Seq(Cprocs) /\ IsInjective(cthread_needed')
         /\ Range(cthread_needed') = Range(cthread_needed) \cup {p}
    BY <1>1, <1>2, QueueAppend DEF ForkInv, TypeOK, Queues
  <1>6. \A q \in Cprocs : q \in Range(cthread_idle) => cproc[q].pc = "exiting" /\ q = Main
    BY DEF ForkInv, Queues, Places, At
  <1>7. \A q \in Cprocs :
           /\ q = p => cproc'[q].pc = "needed" /\ cproc'[q].self = None /\ cproc'[q].t = None
           /\ q /= p => cproc'[q].self = cproc[q].self /\ cproc'[q].t = cproc[q].t
           /\ q /= p => \/ cproc'[q].pc = cproc[q].pc
                        \/ cproc[q].pc = "exiting" /\ cproc'[q].pc = "exit" /\ q = Main
           /\ q \in Range(cthread_idle') => cproc'[q].pc = "exiting"
    BY <1>1, <1>4, <1>6 DEF went, ForkInv, TypeOK, CprocFields
  <1>8. \A q \in Cprocs, x \in Threads :
           /\ Runs(q, x)' => Runs(q, x)
           /\ Claims(q, x)' => Claims(q, x) /\ cproc'[q].self = cproc[q].self
           /\ Frees(q, x)' => Frees(q, x)
           /\ cproc'[q].t = x => cproc[q].t = x
    BY <1>1, <1>7, CthreadsForkAssumption DEF Runs, Claims, Frees, At
  <1>9. \A q \in Cprocs :
           /\ At(q, "free") => At(q, "free")'
           /\ At(q, "fork") /\ cproc'[q].t /= None => At(q, "fork")'
    BY <1>1, <1>7 DEF At
  <1>10. OneRunner' /\ OneClaimant' /\ StatesAgree' /\ FreedOnce'
    BY <1>2, <1>8, <1>9, NobodyGetsOne DEF calls
  <1>11. TypeOK'
    BY <1>2, <1>4, <1>5 DEF ForkInv, TypeOK, calls
  <1>12. Places'
    <2>1. cproc[Main].self = None /\ Main \in Cprocs
      BY CthreadsForkAssumption DEF ForkInv, Places
    <2>2. /\ cproc'[Main].self = None
          /\ cproc'[Main].pc = cproc[Main].pc \/ cproc'[Main].pc = "exit"
      BY <1>1, <1>7, <2>1
    <2>3. ASSUME NEW q \in Cprocs \ {Main}
          PROVE  /\ cproc'[q].pc \notin {"exit", "exiting", "exited"}
                 /\ cproc'[q].self = None <=> cproc'[q].pc \in {"none", "body", "needed"}
      BY <1>1, <1>7 DEF ForkInv, Places, At
    <2>4. ASSUME NEW q \in Cprocs
          PROVE  cproc'[q].t = None <=> cproc'[q].pc \notin {"fork", "join", "joining", "free"}
      BY <1>1, <1>7 DEF ForkInv, Places, At
    <2> QED BY <2>1, <2>2, <2>3, <2>4 DEF ForkInv, Places
  <1>13. Queues'
    <2>1. \A q \in Range(cthread_needed') : At(q, "needed")'
      BY <1>1, <1>7, <1>5, Elements DEF ForkInv, Queues, At
    <2>2. \A q \in Range(cthread_idle') : At(q, "exiting")'
      BY <1>4, <1>7, Elements DEF ForkInv, At
    <2>3. \A x \in Threads : \A q \in Range(thread[x].done) : At(q, "joining")' /\ cproc'[q].t = x
      BY <1>1, <1>7, Elements DEF ForkInv, Queues, At
    <2> QED BY <1>2, <1>4, <1>5, <2>1, <2>2, <2>3 DEF ForkInv, Queues
  <1>14. Handles'
    <2>1. \A x : Given(x)' <=> Given(x)
      BY <1>2 DEF Given, calls
    <2>2. \A q \in Cprocs : /\ cproc'[q].self /= None => Given(cproc'[q].self)
                            /\ cproc'[q].t /= None => Given(cproc'[q].t)
      BY <1>7 DEF ForkInv, Handles
    <2> QED BY <1>2, <2>1, <2>2 DEF ForkInv, Handles, calls
  <1>15. OneRunner'
    BY <1>10
  <1>16. OneClaimant'
    BY <1>10
  <1>17. StatesAgree'
    BY <1>10
  <1>18. FreedOnce'
    BY <1>10
  <1> QED BY <1>11, <1>12, <1>13, <1>14, <1>15, <1>16, <1>17, <1>18 DEF ForkInv

\* What cthread_alloc gives is nobody's.
LEMMA AllocatedIsFree ==
    ASSUME ForkInv, NEW t \in Allocated
    PROVE  /\ t \in Threads /\ t \notin Range(cthreads)
           /\ \A q \in Cprocs : ~Runs(q, t) /\ ~Claims(q, t)
           /\ \A j \in unjoined : handle[j] /= t
           /\ Rest(free_cthreads) \in Seq(Threads) /\ IsInjective(Rest(free_cthreads))
           /\ Range(Rest(free_cthreads)) \subseteq Range(free_cthreads)
           /\ t \notin Range(Rest(free_cthreads))
  <1>1. CASE free_cthreads /= <<>>
    <2>1. t = Head(free_cthreads) /\ Rest(free_cthreads) = Tail(free_cthreads)
      BY <1>1 DEF Allocated, Rest
    <2>2. /\ t \in Threads /\ Tail(free_cthreads) \in Seq(Threads)
          /\ Range(free_cthreads) = {t} \cup Range(Tail(free_cthreads))
          /\ IsInjective(Tail(free_cthreads)) /\ t \notin Range(Tail(free_cthreads))
      BY <1>1, <2>1, QueueTail DEF ForkInv, TypeOK, FreedOnce
    <2>3. \A q \in Cprocs : ~Runs(q, t) /\ (cproc[q].t = t => At(q, "fork"))
      BY <2>2 DEF ForkInv, FreedOnce
    <2> QED BY <2>1, <2>2, <2>3 DEF ForkInv, FreedOnce, Claims, At
  <1>2. CASE free_cthreads = <<>>
    <2>1. Unused /= {} /\ t \in Unused
      <3>1. Allocated = IF Unused /= {} THEN {CHOOSE x \in Unused : TRUE} ELSE {}
        BY <1>2 DEF Allocated
      <3> QED BY <3>1
    <2>2. t \in Threads /\ ~Given(t)
      BY <2>1 DEF Unused, Given
    <2>3. Rest(free_cthreads) = <<>> /\ Range(Rest(free_cthreads)) = {} /\ IsInjective(Rest(free_cthreads))
      BY <1>2 DEF Rest, Range, IsInjective
    <2>4. /\ t \notin Range(cthreads)
          /\ \A q \in Cprocs : cproc[q].self /= t /\ cproc[q].t /= t
      BY <2>2, CthreadsForkAssumption DEF ForkInv, Handles
    <2>5. \A j \in unjoined : handle[j] /= t
      BY <2>2 DEF ForkInv, TypeOK, Given
    <2> QED BY <2>2, <2>3, <2>4, <2>5 DEF Runs, Claims
  <1> QED BY <1>1, <1>2

LEMMA ForkStep ==
    ASSUME ForkInv, NEW p \in Cprocs, Fork(p), UNCHANGED cthread_max_cprocs
    PROVE  ForkInv'
  <1> DEFINE went(t) == [cproc EXCEPT ![p] = [pc |-> "fork", self |-> cproc[p].self, t |-> t]]
             new(t) == [job |-> forks + 1, state |-> {}, result |-> 0, done |-> <<>>]
             j == forks + 1
  <1>1. PICK t \in Allocated :
           /\ handle' = [handle EXCEPT ![j] = t]
           /\ thread' = [thread EXCEPT ![t] = new(t)]
           /\ cthreads' = Append(cthreads, t)
           /\ cthread_cthreads' = cthread_cthreads + 1
           /\ \/ cproc' = [cproc EXCEPT ![p].pc = "fork", ![p].t = t] /\ UNCHANGED cthread_cprocs
              \/ /\ Unborn /= {} /\ cthread_cprocs' = cthread_cprocs + 1
                 /\ cproc' = [[cproc EXCEPT ![p].pc = "fork", ![p].t = t] EXCEPT ![NewCproc].pc = "body"]
    BY DEF Fork
  <1>2. /\ t \in Threads /\ t \notin Range(cthreads)
        /\ \A q \in Cprocs : ~Runs(q, t) /\ ~Claims(q, t)
        /\ \A k \in unjoined : handle[k] /= t
        /\ free_cthreads' \in Seq(Threads) /\ IsInjective(free_cthreads')
        /\ Range(free_cthreads') \subseteq Range(free_cthreads)
        /\ t \notin Range(free_cthreads')
    BY <1>1, AllocatedIsFree DEF Fork
  <1>3. /\ cthreads' \in Seq(Threads) /\ IsInjective(cthreads')
        /\ Range(cthreads') = Range(cthreads) \cup {t}
    <2>1. cthreads \in Seq(Threads) /\ IsInjective(cthreads)
      BY DEF ForkInv, TypeOK, OneRunner
    <2> QED BY <1>1, <1>2, <2>1, QueueAppend
  <1>4. /\ At(p, "user") /\ j \in Jobs /\ j \notin unjoined /\ handle[j] = None /\ j \in Nat
        /\ forks' = j /\ unjoined' = unjoined \cup {j}
        /\ UNCHANGED <<results, conditions, cthread_max_cprocs>>
    <2>1. forks \in Nat /\ cthread_max_cprocs \in Limits
      BY DEF ForkInv, TypeOK
    <2>2. j \in 1 .. MaxForks[cthread_max_cprocs] /\ j \notin 1 .. forks
      BY <2>1, CthreadsForkAssumption DEF Fork
    <2>3. j \in Jobs
      BY <2>1, <2>2, CthreadsForkAssumption
    <2> QED BY <2>1, <2>2, <2>3 DEF Fork, ForkInv, Handles
  <1>5. /\ cproc' \in [Cprocs -> CprocFields]
        /\ \A q \in Cprocs :
           /\ cproc'[q].self = cproc[q].self
           /\ cproc'[q].t = IF q = p THEN t ELSE cproc[q].t
           /\ q = p => cproc'[q].pc = "fork"
           /\ q /= p => \/ cproc'[q].pc = cproc[q].pc
                        \/ cproc[q].pc = "none" /\ cproc'[q].pc = "body"
    <2>1. [cproc EXCEPT ![p].pc = "fork", ![p].t = t] = went(t) /\ went(t) \in [Cprocs -> CprocFields]
      BY <1>2, Moved, KnownPCs DEF ForkInv, TypeOK, CprocFields
    <2>2. CASE cproc' = went(t)
      BY <2>1, <2>2 DEF ForkInv, TypeOK
    <2>3. CASE Unborn /= {} /\ cproc' = [went(t) EXCEPT ![NewCproc].pc = "body"]
      <3>1. NewCproc \in Cprocs /\ cproc[NewCproc].pc = "none" /\ NewCproc /= p
        BY <1>4, <2>3 DEF Unborn, NewCproc, At
      <3> DEFINE n == NewCproc
                 w == went(t)
      <3>2. /\ \A q \in Cprocs \ {p} : w[q] = cproc[q]
            /\ w[p].self = cproc[p].self /\ w[p].t = t /\ w[p].pc = "fork"
        BY DEF ForkInv, TypeOK
      <3> HIDE DEF n, w
      <3>3. [w[n] EXCEPT !.pc = "body"] \in CprocFields
        BY <2>1, <3>1, KnownPCs DEF CprocFields, n, w
      <3>4. cproc' \in [Cprocs -> CprocFields]
        BY <2>1, <2>3, <3>3 DEF n, w
      <3>5. /\ \A q \in Cprocs \ {n} : cproc'[q] = w[q]
            /\ cproc'[n].self = w[n].self /\ cproc'[n].t = w[n].t /\ cproc'[n].pc = "body"
        BY <2>1, <2>3, <3>1 DEF n, w, CprocFields
      <3> QED BY <3>1, <3>2, <3>4, <3>5 DEF n
    <2> QED BY <1>1, <2>1, <2>2, <2>3
  <1>6. /\ thread' \in [Threads -> ThreadFields]
        /\ thread'[t].state = {} /\ thread'[t].done = <<>>
        /\ \A x \in Threads \ {t} : thread'[x] = thread[x]
    <2>1. new(t) \in ThreadFields
      BY <1>4 DEF ThreadFields
    <2> QED BY <1>1, <1>2, <2>1 DEF ForkInv, TypeOK
  <1>7. /\ handle' \in [Jobs -> Threads \cup {None}] /\ handle'[j] = t
        /\ \A k \in Jobs \ {j} : handle'[k] = handle[k]
    BY <1>1, <1>2, <1>4 DEF ForkInv, TypeOK
  <1> HIDE DEF went, new, j
  <1>8. /\ cproc[p].t = None /\ t /= None
        /\ \A q \in Cprocs : cproc[q].pc = "none" => cproc[q].self = None /\ cproc[q].t = None
    BY <1>2, <1>4, CthreadsForkAssumption DEF ForkInv, Places, At
  <1>9. \A q \in Cprocs, x \in Threads :
           /\ Runs(q, x)' <=> Runs(q, x)
           /\ Claims(q, x)' <=> Claims(q, x)
           /\ Frees(q, x)' <=> Frees(q, x)
           /\ cproc'[q].t = x => cproc[q].t = x \/ (q = p /\ x = t)
    BY <1>4, <1>5, <1>8, CthreadsForkAssumption DEF Runs, Claims, Frees, At
  <1>10. \A q \in Cprocs : /\ At(q, "free")' <=> At(q, "free")
                           /\ At(q, "fork") => At(q, "fork")'
    BY <1>4, <1>5 DEF At
  <1>11. TypeOK'
    BY <1>1, <1>2, <1>3, <1>4, <1>5, <1>6, <1>7 DEF ForkInv, TypeOK, conditions
  <1>12. Places'
    <2>1. cproc[Main].self = None /\ Main \in Cprocs /\ cproc[Main].pc /= "none"
      BY CthreadsForkAssumption DEF ForkInv, Places
    <2>2. cproc'[Main].self = None /\ cproc'[Main].pc = IF p = Main THEN "fork" ELSE cproc[Main].pc
      BY <1>5, <2>1
    <2>3. ASSUME NEW q \in Cprocs \ {Main}
          PROVE  /\ cproc'[q].pc \notin {"exit", "exiting", "exited"}
                 /\ cproc'[q].self = None <=> cproc'[q].pc \in {"none", "body", "needed"}
      BY <1>4, <1>5 DEF ForkInv, Places, At
    <2>4. ASSUME NEW q \in Cprocs
          PROVE  cproc'[q].t = None <=> cproc'[q].pc \notin {"fork", "join", "joining", "free"}
      BY <1>4, <1>5, <1>8 DEF ForkInv, Places, At
    <2> QED BY <2>1, <2>2, <2>3, <2>4 DEF ForkInv, Places
  <1>13. Queues'
    <2>1. \A q \in Range(cthread_needed) : At(q, "needed")'
      BY <1>4, <1>5, Elements DEF ForkInv, Queues, At
    <2>2. \A q \in Range(cthread_idle) : At(q, "exiting")'
      BY <1>4, <1>5, Elements DEF ForkInv, Queues, At
    <2>3. ASSUME NEW x \in Threads
          PROVE  IsInjective(thread'[x].done) /\ \A q \in Range(thread'[x].done) : At(q, "joining")' /\ cproc'[q].t = x
      <3>1. CASE x = t
        <4>1. Range(<<>>) = {} /\ IsInjective(<<>>)
          BY DEF Range, IsInjective
        <4> QED BY <1>6, <3>1, <4>1
      <3>2. CASE x /= t
        BY <1>4, <1>5, <1>6, <3>2, Elements DEF ForkInv, Queues, At
      <3> QED BY <3>1, <3>2
    <2> QED BY <1>4, <2>1, <2>2, <2>3 DEF ForkInv, Queues, conditions
  <1>14. Handles'
    <2> DEFINE Now(x) == \E k \in Jobs : handle'[k] = x
    <2>1. \A x : Given(x) /\ x /= None => Now(x)
      BY <1>4, <1>7 DEF Given
    <2>2. Now(t)
      BY <1>4, <1>7
    <2> HIDE DEF Now
    <2>3. ASSUME NEW q \in Cprocs
          PROVE  /\ cproc'[q].self /= None => Now(cproc'[q].self)
                 /\ cproc'[q].t /= None => Now(cproc'[q].t)
      <3>1. /\ cproc[q].self /= None => Given(cproc[q].self)
            /\ cproc[q].t /= None => Given(cproc[q].t)
        BY DEF ForkInv, Handles
      <3> QED BY <1>5, <2>1, <2>2, <3>1
    <2>4. \A x \in Range(cthreads') \cup Range(free_cthreads') : Now(x)
      <3>1. \A x \in Range(cthreads) \cup Range(free_cthreads) : x /= None /\ Given(x)
        BY Elements, CthreadsForkAssumption DEF ForkInv, Handles
      <3> QED BY <1>2, <1>3, <2>1, <2>2, <3>1
    <2>5. \A k \in Jobs : handle'[k] = None <=> k \notin 1 .. forks'
      BY <1>4, <1>7, <1>8, CthreadsForkAssumption DEF ForkInv, TypeOK, Handles, j
    <2>6. unjoined' \subseteq 1 .. forks'
      BY <1>4 DEF ForkInv, TypeOK, Handles, j
    <2> QED BY <2>3, <2>4, <2>5, <2>6 DEF Handles, Given, Now
  <1>15. OneRunner'
    BY <1>2, <1>3, <1>9 DEF ForkInv, OneRunner
  <1>16. OneClaimant'
    <2>1. \A a, b \in unjoined' : handle'[a] = handle'[b] => a = b
      BY <1>2, <1>4, <1>7 DEF ForkInv, TypeOK, OneClaimant
    <2>2. \A k \in unjoined' : handle'[k] = t \/ (k \in unjoined /\ handle'[k] = handle[k])
      BY <1>4, <1>7 DEF ForkInv, TypeOK
    <2> QED BY <1>2, <1>9, <2>1, <2>2 DEF ForkInv, OneClaimant
  <1>17. StatesAgree'
    <2>1. \A k \in unjoined' : handle'[k] = t \/ (k \in unjoined /\ handle'[k] = handle[k])
      BY <1>4, <1>7 DEF ForkInv, TypeOK
    <2>2. \A q \in Cprocs : ~Claims(q, t)' /\ ~Frees(q, t)' /\ ~Runs(q, t)'
      BY <1>2, <1>9 DEF Frees, Claims, At
    <2>3. ASSUME NEW x \in Threads \ {t}
          PROVE  /\ "RETURNED" \in thread[x].state =>
                       x \notin Range(cthreads') /\ \A q \in Cprocs : ~Runs(q, x)'
                 /\ "DETACHED" \in thread[x].state =>
                       /\ \A k \in unjoined' : handle'[k] /= x
                       /\ \A q \in Cprocs : Claims(q, x)' => At(q, "free")' /\ cproc'[q].self = x
                 /\ \A q \in Cprocs : Frees(q, x)' =>
                       \/ "RETURNED" \in thread[x].state
                       \/ "DETACHED" \in thread[x].state /\ cproc'[q].self = x
      <3>1. \A q \in Cprocs : cproc'[q].self = cproc[q].self
        BY <1>5
      <3> QED BY <1>3, <1>9, <1>10, <2>1, <3>1 DEF ForkInv, StatesAgree
    <2> QED BY <1>6, <2>2, <2>3 DEF StatesAgree
  <1>18. FreedOnce'
    <2>1. \A k \in unjoined' : handle'[k] = t \/ (k \in unjoined /\ handle'[k] = handle[k])
      BY <1>4, <1>7 DEF ForkInv, TypeOK
    <2>2. \A x \in Range(free_cthreads') : x \in Threads /\ x \in Range(free_cthreads) /\ x /= t
      BY <1>2, Elements DEF ForkInv
    <2> QED BY <1>2, <1>3, <1>9, <1>10, <2>1, <2>2 DEF ForkInv, FreedOnce
  <1> QED BY <1>11, <1>12, <1>13, <1>14, <1>15, <1>16, <1>17, <1>18 DEF ForkInv

LEMMA InitHolds == Init => ForkInv
  <1> SUFFICES ASSUME Init PROVE ForkInv
    OBVIOUS
  <1>1. Range(<<>>) = {} /\ IsInjective(<<>>) /\ \A S : <<>> \in Seq(S)
    BY DEF Range, IsInjective
  <1>2. /\ \A p \in Cprocs : /\ cproc[p].pc = IF p = Main THEN "user" ELSE "none"
                             /\ cproc[p].self = None /\ cproc[p].t = None
        /\ \A t \in Threads : thread[t].state = {} /\ thread[t].done = <<>>
    BY DEF Init
  <1>3. TypeOK
    <2>1. cproc \in [Cprocs -> CprocFields] /\ thread \in [Threads -> ThreadFields]
      BY <1>1, KnownPCs DEF Init, CprocFields, ThreadFields
    <2> QED BY <1>1, <2>1, CthreadsForkAssumption DEF Init, TypeOK
  <1>4. Places
    BY <1>2, CthreadsForkAssumption DEF Places
  <1>5. Queues
    BY <1>1, <1>2 DEF Init, Queues
  <1>6. Handles
    BY <1>1, <1>2, CthreadsForkAssumption DEF Init, Handles
  <1>7. \A p \in Cprocs, t \in Threads : ~Runs(p, t) /\ ~Claims(p, t) /\ ~Frees(p, t)
    BY <1>2, CthreadsForkAssumption DEF Runs, Claims, Frees, At
  <1>8. OneRunner /\ OneClaimant /\ StatesAgree /\ FreedOnce
    BY <1>1, <1>2, <1>7 DEF Init, OneRunner, OneClaimant, StatesAgree, FreedOnce
  <1> QED BY <1>3, <1>4, <1>5, <1>6, <1>8 DEF ForkInv

LEMMA StepHolds == ForkInv /\ [Next]_vars => ForkInv'
  <1> SUFFICES ASSUME ForkInv, [Next]_vars PROVE ForkInv'
    OBVIOUS
  <1>1. CASE UNCHANGED vars
    BY <1>1 DEF ForkInv, TypeOK, Places, Queues, Handles, Given, OneRunner, OneClaimant, StatesAgree,
       FreedOnce, Runs, Claims, Frees, At, vars, calls, counts, conditions
  <1>2. ASSUME NEW p \in Cprocs, LibraryStep(p) PROVE ForkInv'
    <2> USE <1>2 DEF LibraryStep
    <2>1. CASE ForkSignal(p)
      BY <2>1, ForkSignalStep
    <2>2. CASE Join(p)
      BY <2>2, JoinStep
    <2>3. CASE JoinWait(p)
      BY <2>3, JoinWaitStep
    <2>4. CASE Free(p)
      BY <2>4, FreeStep
    <2>5. CASE Body(p)
      <3>1. /\ At(p, "body") /\ NextThread(p) /\ UNCHANGED <<thread, calls, free_cthreads>>
            /\ cthread_cthreads' \in Int /\ cthread_cprocs' \in Int
        BY <2>5 DEF Body, counts, ForkInv, TypeOK
      <3> QED BY <3>1, TakeThreadStep, NeedThreadStep
    <2>6. CASE Return(p)
      BY <2>6, ReturnDetachedStep, ReturnUndetachedStep
    <2>7. CASE SignalDone(p)
      BY <2>7, SignalDoneStep
    <2>8. CASE Done(p)
      <3>1. /\ At(p, "done") /\ NextThread(p) /\ UNCHANGED <<thread, calls, free_cthreads>>
            /\ cthread_cthreads' \in Int /\ cthread_cprocs' \in Int
        BY <2>8 DEF Done, ForkInv, TypeOK
      <3> QED BY <3>1, TakeThreadStep, NeedThreadStep
    <2>9. CASE p = Main /\ Exit
      BY <2>9, ExitWaitsStep, ExitsStep
    <2> QED BY <2>1, <2>2, <2>3, <2>4, <2>5, <2>6, <2>7, <2>8, <2>9 DEF Library
  <1>3. ASSUME NEW p \in Cprocs, ProgramStep(p) PROVE ForkInv'
    <2> USE <1>3 DEF ProgramStep
    <2>1. CASE Fork(p)
      BY <2>1, ForkStep
    <2>2. CASE FunctionReturns(p)
      BY <2>2, FunctionReturnsStep
    <2>3. CASE p = Main /\ StartExit
      BY <2>3, StartExitStep
    <2>4. ASSUME NEW j \in Jobs, Detach(p, j) PROVE ForkInv'
      BY <2>4, DetachReturnedStep, DetachRunningStep
    <2>5. ASSUME NEW j \in Jobs, StartJoin(p, j) PROVE ForkInv'
      BY <2>5, StartJoinStep
    <2> QED BY <2>1, <2>2, <2>3, <2>4, <2>5 DEF Program
  <1> QED BY <1>1, <1>2, <1>3 DEF Next

(* The invariant that FreedOnce rests on: one runner and one claimant of   *)
(* each thread, from cthread_fork to cthread_free.                         *)
THEOREM ForkInvariant == Spec => []ForkInv
  BY InitHolds, StepHolds, PTL DEF Spec

(* FreedOnce for any program, whatever the limits: a record is freed by    *)
(* the last who uses it, except for the cproc that will signal t->done.    *)
THEOREM RecordsFreedOnce == Spec => []FreedOnce
  <1>1. ForkInv => FreedOnce
    BY DEF ForkInv
  <1> QED BY <1>1, ForkInvariant, PTL

-----------------------------------------------------------------------------
(* The steps of CthreadsFork are those of ForkJoin.                        *)

(* What JobState says of a job, by the record it was given.                *)
Over(x) == x \in Range(free_cthreads) \/ \E p \in Cprocs : Frees(p, x)

Described(j) ==
    LET x == handle[j] IN
    /\ j > forks => JobState(j) = "unborn"
    /\ j <= forks /\ thread[x].job /= j => JobState(j) = "over"
    /\ j <= forks /\ thread[x].job = j =>
          /\ x \in Range(cthreads) => JobState(j) = "forked"
          /\ x \notin Range(cthreads) =>
                /\ Over(x) => JobState(j) = "over"
                /\ ~Over(x) => JobState(j) = IF "RETURNED" \in thread[x].state THEN "returned"
                                             ELSE "running"

LEMMA Contained ==
    ASSUME NEW S, NEW s \in Seq(S), NEW x
    PROVE  Contains(s, x) <=> x \in Range(s)
  BY DEF Contains, Range

AllDescribed == TypeOK => \A j \in Jobs : Described(j)

LEMMA EachDescribed == AllDescribed
  <1> SUFFICES ASSUME TypeOK, NEW j \in Jobs PROVE Described(j)
    BY DEF AllDescribed
  <1> DEFINE x == handle[j]
  <1>1. forks \in Nat /\ j \in Nat
    BY CthreadsForkAssumption DEF TypeOK
  <1>2. /\ Contains(cthreads, x) <=> x \in Range(cthreads)
        /\ Contains(free_cthreads, x) <=> x \in Range(free_cthreads)
    BY Contained DEF TypeOK
  <1>3. CASE j > forks
    BY <1>1, <1>3 DEF Described, JobState
  <1>4. CASE j <= forks /\ thread[x].job /= j
    BY <1>1, <1>4 DEF Described, JobState
  <1>5. CASE j <= forks /\ thread[x].job = j
    <2>1. JobState(j) = IF x \in Range(cthreads) THEN "forked"
                        ELSE IF Over(x) THEN "over"
                        ELSE IF "RETURNED" \in thread[x].state THEN "returned" ELSE "running"
      BY <1>1, <1>2, <1>5 DEF JobState, Over
    <2> QED BY <1>1, <1>5, <2>1 DEF Described
  <1> QED BY <1>1, <1>3, <1>4, <1>5

(* A job stays where it is when its record does, or is not its any more.   *)
SameRecord(x) ==
    /\ thread'[x].job = thread[x].job
    /\ thread'[x].state = thread[x].state
    /\ x \in Range(cthreads') <=> x \in Range(cthreads)
    /\ Over(x)' <=> Over(x)

Kept(j) == JobState(j)' = JobState(j) /\ (j \in Detached' <=> j \in Detached)

LEMMA BothDescribed ==
    ASSUME TypeOK, TypeOK', NEW j \in Jobs
    PROVE  Described(j) /\ Described(j)'
  <1>1. AllDescribed'
    BY EachDescribed, PTL
  <1> QED BY <1>1, EachDescribed DEF AllDescribed

LEMMA KeepsJob ==
    ASSUME TypeOK, TypeOK', NEW j \in Jobs, handle'[j] = handle[j], j <= forks' <=> j <= forks,
           j <= forks => \/ SameRecord(handle[j])
                         \/ thread[handle[j]].job /= j /\ thread'[handle[j]].job /= j
    PROVE  Kept(j)
  <1>1. Described(j) /\ Described(j)'
    BY BothDescribed
  <1>2. forks \in Nat /\ forks' \in Nat /\ j \in Nat
    BY CthreadsForkAssumption DEF TypeOK
  <1>3. JobState(j)' = JobState(j)
    BY <1>1, <1>2 DEF Described, SameRecord
  <1>4. j > forks \/ thread[handle[j]].job /= j => j \notin Detached /\ j \notin Detached'
    BY <1>1, <1>2, <1>3 DEF Described, Detached
  <1> QED BY <1>2, <1>3, <1>4 DEF Kept, Detached, SameRecord

\* All jobs stay where they are.
LEMMA KeepsJobs ==
    ASSUME TypeOK, TypeOK', UNCHANGED <<forks, handle>>, Handles,
           \A x \in Threads : SameRecord(x)
    PROVE  UNCHANGED <<Job, Detached>>
  <1>1. ASSUME NEW j \in Jobs PROVE Kept(j)
    <2>1. j <= forks => handle[j] \in Threads
      BY CthreadsForkAssumption DEF TypeOK, Handles
    <2> QED BY <2>1, KeepsJob
  <1>2. Job' = Job
    BY <1>1 DEF Job, Kept
  <1>3. Detached' = Detached
    BY <1>1 DEF Detached, Kept
  <1> QED BY <1>2, <1>3

\* One job moves on.
LEMMA MovesOne ==
    ASSUME NEW j \in Jobs, \A k \in Jobs \ {j} : Kept(k)
    PROVE  /\ Job \in [Jobs -> {JobState(k) : k \in Jobs}]
           /\ Job[j] = JobState(j)
           /\ Job' = [Job EXCEPT ![j] = JobState(j)']
           /\ j \in Detached' => Detached' = Detached \cup {j}
           /\ j \notin Detached' => Detached' = Detached \ {j}
  <1>1. Job' = [Job EXCEPT ![j] = JobState(j)']
    BY DEF Job, Kept
  <1>2. \A k \in Detached \cup Detached' : k \in Jobs
    BY DEF Detached
  <1>3. \A k \in Jobs \ {j} : k \in Detached' <=> k \in Detached
    BY DEF Kept
  <1> QED BY <1>1, <1>2, <1>3 DEF Job

-----------------------------------------------------------------------------
(* Steps that no job moves in.                                             *)

LEMMA KeepsMain ==
    ASSUME \/ cproc'[Main].pc = cproc[Main].pc
           \/ /\ cproc[Main].pc \notin {"exit", "exiting", "exited"}
              /\ cproc'[Main].pc \notin {"exit", "exiting", "exited"}
           \/ /\ cproc[Main].pc \in {"exit", "exiting"}
              /\ cproc'[Main].pc \in {"exit", "exiting"}
    PROVE  MainState' = MainState
  BY DEF MainState

\* The results that have been given stay, and so does that of a return.
LEMMA KeepsRecords ==
    ASSUME Records, ForkInv, UNCHANGED <<forks, handle>>, unjoined' \subseteq unjoined,
           \A x \in Threads :
              /\ thread'[x].job = thread[x].job
              /\ "RETURNED" \in thread'[x].state => thread'[x].result = thread'[x].job,
           \A q \in Cprocs : At(q, "return")' =>
              thread'[cproc'[q].self].result = thread'[cproc'[q].self].job
    PROVE  Records'
  <1>1. \A x \in Threads : Given(x)' <=> Given(x)
    BY DEF Given
  <1>2. \A j \in unjoined : handle[j] \in Threads
    BY CthreadsForkAssumption DEF ForkInv, TypeOK, Handles
  <1> QED BY <1>1, <1>2 DEF Records

LEMMA KeepsNoneLost ==
    ASSUME NoneLost, handle' = handle,
           \A x \in Threads :
              /\ x \in Range(cthreads) => x \in Range(cthreads')
              /\ x \in Range(free_cthreads) => x \in Range(free_cthreads')
              /\ "RETURNED" \in thread[x].state => "RETURNED" \in thread'[x].state,
           \A q \in Cprocs :
              /\ cproc'[q].self = cproc[q].self
              /\ \/ cproc'[q].pc \notin {"signal", "done"}
                 \/ cproc[q].pc \in {"signal", "done"}
                 \/ "RETURNED" \in thread'[cproc[q].self].state
    PROVE  NoneLost'
  <1>1. \A x \in Threads : Given(x)' <=> Given(x)
    BY DEF Given
  <1>2. \A x \in Threads : \A q \in Cprocs :
           Runs(q, x) => Runs(q, x)' \/ "RETURNED" \in thread'[x].state
    BY DEF Runs
  <1> QED BY <1>1, <1>2 DEF NoneLost, Runs, Given

LEMMA KeepsCounts ==
    ASSUME CountsExact, UNCHANGED <<cthreads, counts, cthread_max_cprocs>>,
           \A q \in Cprocs : /\ cproc'[q].self = cproc[q].self
                             /\ cproc'[q].pc = "none" <=> cproc[q].pc = "none"
    PROVE  CountsExact'
  <1>1. Started' = Started /\ HaveThread' = HaveThread
    BY DEF Started, HaveThread
  <1> QED BY <1>1 DEF CountsExact, counts

\* A record and a cproc that only those can tell from before who use them.
QuietRecord(x) ==
    /\ thread'[x].job = thread[x].job
    /\ thread'[x].state = thread[x].state
    /\ "RETURNED" \in thread[x].state => thread'[x].result = thread[x].result
    /\ Over(x)' <=> Over(x)
    /\ x \in Range(free_cthreads) => x \in Range(free_cthreads')
    /\ \A q \in Cprocs : Runs(q, x) => Runs(q, x)' \/ x \in Range(free_cthreads')

QuietCproc(q) ==
    /\ cproc'[q].self = cproc[q].self
    /\ cproc'[q].pc = "none" <=> cproc[q].pc = "none"
    /\ At(q, "return")' => thread'[cproc[q].self].result = thread'[cproc[q].self].job

LEMMA Quiet ==
    ASSUME JobInv, ForkInv', unjoined' \subseteq unjoined,
           UNCHANGED <<forks, handle, cthread_max_cprocs, cthreads, counts>>,
           \A x \in Threads : QuietRecord(x),
           \A q \in Cprocs : QuietCproc(q)
    PROVE  JobInv' /\ UNCHANGED <<Job, Detached>>
  <1>1. Records'
    <2>1. \A x \in Threads :
             "RETURNED" \in thread'[x].state => thread'[x].result = thread'[x].job
      BY DEF JobInv, Records, QuietRecord
    <2> QED BY <2>1, KeepsRecords DEF JobInv, QuietRecord, QuietCproc
  <1>2. NoneLost'
    BY DEF JobInv, NoneLost, Given, QuietRecord
  <1>3. CountsExact'
    BY KeepsCounts DEF JobInv, QuietCproc
  <1>4. UNCHANGED <<Job, Detached>>
    BY KeepsJobs DEF JobInv, ForkInv, SameRecord, QuietRecord
  <1> QED BY <1>1, <1>2, <1>3, <1>4 DEF JobInv

\* A cproc stays, or moves on while it runs the same thread, or none.
Strolls(q) ==
    /\ cproc'[q].self = cproc[q].self
    /\ \/ cproc'[q].pc = cproc[q].pc /\ cproc'[q].t = cproc[q].t
       \/ /\ {cproc[q].pc, cproc'[q].pc} \cap {"none", "free"} = {}
          /\ cproc'[q].pc \in {"signal", "done"} <=> cproc[q].pc \in {"signal", "done"}

LEMMA Stroll ==
    ASSUME JobInv, ForkInv', unjoined' \subseteq unjoined,
           UNCHANGED <<forks, handle, cthread_max_cprocs, cthreads, counts,
                       free_cthreads>>,
           \A x \in Threads :
              /\ thread'[x].job = thread[x].job /\ thread'[x].state = thread[x].state
              /\ "RETURNED" \in thread[x].state => thread'[x].result = thread[x].result,
           \A q \in Cprocs : Strolls(q),
           \A q \in Cprocs : cproc'[q].pc = "return" =>
              thread'[cproc[q].self].result = thread'[cproc[q].self].job
    PROVE  JobInv' /\ UNCHANGED <<Job, Detached>>
  <1>1. \A x \in Threads : QuietRecord(x)
    <2> TAKE x \in Threads
    <2>1. Over(x)' <=> Over(x)
      BY DEF Over, Frees, At, Strolls
    <2>2. \A q \in Cprocs : Runs(q, x) => Runs(q, x)'
      BY DEF Runs, Strolls
    <2> QED BY <2>1, <2>2 DEF QuietRecord, Runs
  <1>2. \A q \in Cprocs : QuietCproc(q)
    BY DEF QuietCproc, Strolls, At
  <1> QED BY <1>1, <1>2, Quiet

\* Those who return have a thread.
LEMMA Returning ==
    ASSUME JobInv
    PROVE  /\ Main \in Cprocs
           /\ \A q \in Cprocs : cproc[q].pc = "return" =>
                 /\ cproc[q].self \in Threads
                 /\ thread[cproc[q].self].result = thread[cproc[q].self].job
  <1>1. \A q \in Cprocs : cproc[q].pc = "return" => q /= Main /\ cproc[q].self /= None
    BY DEF JobInv, ForkInv, Places
  <1>2. \A q \in Cprocs : cproc[q].self \in Threads \cup {None}
    BY DEF JobInv, ForkInv, TypeOK, CprocFields
  <1>3. \A q \in Cprocs : cproc[q].pc = "return" =>
           thread[cproc[q].self].result = thread[cproc[q].self].job
    BY DEF JobInv, Records, At
  <1> QED BY <1>1, <1>2, <1>3, CthreadsForkAssumption

LEMMA JoinWaitImplements ==
    ASSUME JobInv, ForkInv', NEW p \in Cprocs, JoinWait(p), UNCHANGED cthread_max_cprocs
    PROVE  JobInv' /\ UNCHANGED Promises!vars
  <1>1. /\ cproc \in [Cprocs -> CprocFields] /\ thread \in [Threads -> ThreadFields]
        /\ At(p, "join") /\ cproc[p].t \in Threads
    BY DEF JobInv, ForkInv, TypeOK, CprocFields, Places, JoinWait, At
  <1>2. /\ cproc' = [cproc EXCEPT ![p].pc = "joining"]
        /\ thread' = [thread EXCEPT ![cproc[p].t].done = Append(@, p)]
        /\ UNCHANGED <<calls, cthreads, counts, free_cthreads>>
    BY DEF JoinWait, Goto
  <1>3. /\ \A q \in Cprocs : /\ cproc'[q].self = cproc[q].self /\ cproc'[q].t = cproc[q].t
                             /\ cproc'[q].pc = IF q = p THEN "joining" ELSE cproc[q].pc
        /\ \A x \in Threads : /\ thread'[x].job = thread[x].job
                              /\ thread'[x].state = thread[x].state
                              /\ thread'[x].result = thread[x].result
    BY <1>1, <1>2 DEF CprocFields, ThreadFields
  <1>4. MainState' = MainState
    BY <1>1, <1>3, Returning, KeepsMain DEF At
  <1>5. \A q \in Cprocs : Strolls(q)
    BY <1>1, <1>3 DEF Strolls, At
  <1> QED BY <1>2, <1>3, <1>4, <1>5, Returning, Stroll DEF calls, Promises!vars

LEMMA StartJoinImplements ==
    ASSUME JobInv, ForkInv', NEW p \in Cprocs, NEW j \in Jobs, StartJoin(p, j),
           UNCHANGED cthread_max_cprocs
    PROVE  JobInv' /\ UNCHANGED Promises!vars
  <1>1. cproc \in [Cprocs -> CprocFields] /\ At(p, "user")
    BY DEF JobInv, ForkInv, TypeOK, StartJoin
  <1>2. /\ cproc' = [cproc EXCEPT ![p].pc = "join", ![p].t = handle[j]]
        /\ unjoined' = unjoined \ {j}
        /\ UNCHANGED <<thread, forks, handle, results, cthreads, counts, free_cthreads>>
    BY DEF StartJoin
  <1>3. \A q \in Cprocs : /\ cproc'[q].self = cproc[q].self
                          /\ q /= p => cproc'[q] = cproc[q]
                          /\ q = p => cproc'[q].pc = "join"
    BY <1>1, <1>2 DEF CprocFields
  <1>4. MainState' = MainState
    BY <1>1, <1>3, Returning, KeepsMain DEF At
  <1>5. \A q \in Cprocs : Strolls(q)
    BY <1>1, <1>3 DEF Strolls, At
  <1>6. \A q \in Cprocs : cproc'[q].pc = "return" => cproc[q].pc = "return"
    BY <1>3
  <1> QED BY <1>2, <1>4, <1>5, <1>6, Returning, Stroll DEF Promises!vars

LEMMA FunctionReturnsImplements ==
    ASSUME JobInv, ForkInv', NEW p \in Cprocs, FunctionReturns(p), UNCHANGED cthread_max_cprocs
    PROVE  JobInv' /\ UNCHANGED Promises!vars
  <1> DEFINE t == cproc[p].self
  <1>1. /\ cproc \in [Cprocs -> CprocFields] /\ thread \in [Threads -> ThreadFields]
        /\ At(p, "user") /\ t \in Threads /\ p /= Main
    BY DEF JobInv, ForkInv, TypeOK, CprocFields, Places, FunctionReturns, At
  <1>2. /\ cproc' = [cproc EXCEPT ![p].pc = "return"]
        /\ thread' = [thread EXCEPT ![t].result = thread[t].job]
        /\ UNCHANGED <<calls, cthreads, counts, free_cthreads>>
    BY DEF FunctionReturns, Goto
  <1>3. \A q \in Cprocs : /\ cproc'[q].self = cproc[q].self /\ cproc'[q].t = cproc[q].t
                          /\ cproc'[q].pc = IF q = p THEN "return" ELSE cproc[q].pc
    BY <1>1, <1>2 DEF CprocFields
  <1>4. \A x \in Threads : /\ thread'[x].job = thread[x].job
                           /\ thread'[x].state = thread[x].state
                           /\ thread'[x].result = IF x = t THEN thread[t].job
                                                  ELSE thread[x].result
    BY <1>1, <1>2 DEF ThreadFields
  <1>5. "RETURNED" \notin thread[t].state
    BY <1>1 DEF JobInv, ForkInv, StatesAgree, Runs, At
  <1>6. MainState' = MainState
    BY <1>1, <1>3, Returning, KeepsMain
  <1>7. \A q \in Cprocs : Strolls(q)
    BY <1>1, <1>3 DEF Strolls, At
  <1>8. \A q \in Cprocs : cproc'[q].pc = "return" =>
           thread'[cproc[q].self].result = thread'[cproc[q].self].job
    BY <1>1, <1>3, <1>4, Returning
  <1>9. \A x \in Threads :
           /\ thread'[x].job = thread[x].job /\ thread'[x].state = thread[x].state
           /\ "RETURNED" \in thread[x].state => thread'[x].result = thread[x].result
    BY <1>4, <1>5
  <1> HIDE DEF t
  <1> QED BY <1>2, <1>6, <1>7, <1>8, <1>9, Stroll DEF calls, Promises!vars

LEMMA ExitWaitsImplements ==
    ASSUME JobInv, ForkInv', Exit, cthread_cthreads > 1, UNCHANGED cthread_max_cprocs
    PROVE  JobInv' /\ UNCHANGED Promises!vars
  <1>1. /\ cproc \in [Cprocs -> CprocFields] /\ At(Main, "exit")
        /\ cproc' = [cproc EXCEPT ![Main].pc = "exiting"]
        /\ UNCHANGED <<thread, calls, cthreads, counts, free_cthreads>>
    BY DEF JobInv, ForkInv, TypeOK, Exit, Goto
  <1>2. \A q \in Cprocs : /\ cproc'[q].self = cproc[q].self /\ cproc'[q].t = cproc[q].t
                          /\ cproc'[q].pc = IF q = Main THEN "exiting" ELSE cproc[q].pc
    BY <1>1 DEF CprocFields
  <1>3. MainState' = MainState
    BY <1>1, <1>2, Returning, KeepsMain DEF At
  <1>4. \A q \in Cprocs : Strolls(q)
    BY <1>1, <1>2 DEF Strolls, At
  <1> QED BY <1>1, <1>2, <1>3, <1>4, Returning, Stroll DEF calls, Promises!vars

LEMMA Awakened ==
    ASSUME NEW cps \in [Cprocs -> CprocFields], NEW cond \in Seq(Cprocs), IsInjective(cond),
           NEW pc \in PCs
    PROVE  \A q \in Cprocs :
              LET w == Woken(cps, cond, pc)[q] IN
              /\ w.self = cps[q].self /\ w.t = cps[q].t
              /\ w.pc = cps[q].pc \/ (q \in Range(cond) /\ w.pc = pc)
  <1> DEFINE w == Woken(cps, cond, pc)
  <1>1. \A q \in Cprocs :
           /\ w[q].self = cps[q].self
           /\ w[q].t = cps[q].t
           /\ q \notin Range(cond) => w[q].pc = cps[q].pc
           /\ q \in Range(cond) => w[q].pc = IF q \in Range(Rest(cond)) THEN cps[q].pc ELSE pc
    BY Signalled, Z3
  <1> HIDE DEF w
  <1>2. \A q \in Cprocs : /\ w[q].self = cps[q].self /\ w[q].t = cps[q].t
                          /\ w[q].pc = cps[q].pc \/ (q \in Range(cond) /\ w[q].pc = pc)
    BY <1>1
  <1> QED BY <1>2 DEF w

LEMMA ForkSignalImplements ==
    ASSUME JobInv, ForkInv', NEW p \in Cprocs, ForkSignal(p), UNCHANGED cthread_max_cprocs
    PROVE  JobInv' /\ UNCHANGED Promises!vars
  <1> DEFINE cps == [cproc EXCEPT ![p].pc = "user", ![p].t = None]
  <1>1. /\ cproc \in [Cprocs -> CprocFields] /\ cproc[p].pc = "fork"
        /\ cthread_needed \in Seq(Cprocs) /\ IsInjective(cthread_needed)
        /\ \A q \in Range(cthread_needed) : cproc[q].pc = "needed"
    BY DEF JobInv, ForkInv, TypeOK, Queues, ForkSignal, At
  <1>2. /\ cps \in [Cprocs -> CprocFields]
        /\ \A q \in Cprocs : /\ cps[q].self = cproc[q].self
                             /\ q /= p => cps[q] = cproc[q]
                             /\ q = p => cps[q].pc = "user"
    BY <1>1, KnownPCs DEF CprocFields
  <1>3. /\ cproc' = Woken(cps, cthread_needed, "body")
        /\ UNCHANGED <<thread, calls, cthreads, counts, free_cthreads>>
    BY DEF ForkSignal
  <1> HIDE DEF cps
  <1>4. \A q \in Cprocs :
           /\ cproc'[q].self = cps[q].self /\ cproc'[q].t = cps[q].t
           /\ \/ cproc'[q].pc = cps[q].pc
              \/ cps[q].pc = "needed" /\ cproc'[q].pc = "body"
    <2>1. p \notin Range(cthread_needed)
      BY <1>1
    <2>2. \A q \in Range(cthread_needed) : cps[q].pc = "needed"
      BY <1>1, <1>2, <2>1, QueueRange
    <2>3. \A q \in Cprocs :
             LET w == Woken(cps, cthread_needed, "body")[q] IN
             /\ w.self = cps[q].self /\ w.t = cps[q].t
             /\ w.pc = cps[q].pc \/ (q \in Range(cthread_needed) /\ w.pc = "body")
      BY <1>1, <1>2, KnownPCs, Awakened
    <2> QED BY <1>1, <1>2, <1>3, <2>2, <2>3
  <1>5. \A q \in Cprocs : Strolls(q)
    BY <1>1, <1>2, <1>4 DEF Strolls
  <1>6. MainState' = MainState
    <2>1. cproc[Main].pc /= "needed"
      BY DEF JobInv, ForkInv, Places
    <2> QED BY <1>1, <1>2, <1>4, <2>1, Returning, KeepsMain
  <1>7. \A q \in Cprocs : cproc'[q].pc = "return" => cproc[q].pc = "return"
    BY <1>2, <1>4
  <1> QED BY <1>3, <1>5, <1>6, <1>7, Returning, Stroll DEF calls, Promises!vars

LEMMA SignalDoneImplements ==
    ASSUME JobInv, ForkInv', NEW p \in Cprocs, SignalDone(p), UNCHANGED cthread_max_cprocs
    PROVE  JobInv' /\ UNCHANGED Promises!vars
  <1> DEFINE t == cproc[p].self
             cps == [cproc EXCEPT ![p].pc = "done"]
             done == thread[t].done
  <1>1. /\ cproc \in [Cprocs -> CprocFields] /\ thread \in [Threads -> ThreadFields]
        /\ cproc[p].pc = "signal" /\ p /= Main /\ t \in Threads
    BY DEF JobInv, ForkInv, TypeOK, CprocFields, Places, SignalDone, At
  <1>2. /\ done \in Seq(Cprocs) /\ IsInjective(done)
        /\ \A q \in Range(done) : cproc[q].pc = "joining"
    BY <1>1 DEF JobInv, ForkInv, Queues, ThreadFields, At
  <1>3. /\ cps \in [Cprocs -> CprocFields]
        /\ \A q \in Cprocs : /\ cps[q].self = cproc[q].self
                             /\ q /= p => cps[q] = cproc[q]
                             /\ q = p => cps[q].pc = "done"
    BY <1>1, KnownPCs DEF CprocFields
  <1>4. /\ cproc' = Woken(cps, done, "join")
        /\ thread' = [thread EXCEPT ![t].done = Rest(@)]
        /\ UNCHANGED <<calls, cthreads, counts, free_cthreads>>
    BY DEF SignalDone, Goto
  <1>5. \A x \in Threads : /\ thread'[x].job = thread[x].job
                           /\ thread'[x].state = thread[x].state
                           /\ thread'[x].result = thread[x].result
    BY <1>1, <1>4 DEF ThreadFields
  <1> HIDE DEF cps, done, t
  <1>6. \A q \in Cprocs :
           /\ cproc'[q].self = cps[q].self /\ cproc'[q].t = cps[q].t
           /\ \/ cproc'[q].pc = cps[q].pc
              \/ cps[q].pc = "joining" /\ cproc'[q].pc = "join"
    <2>1. p \notin Range(done)
      BY <1>1, <1>2
    <2>2. \A q \in Range(done) : cps[q].pc = "joining"
      BY <1>2, <1>3, <2>1, QueueRange
    <2>3. \A q \in Cprocs :
             LET w == Woken(cps, done, "join")[q] IN
             /\ w.self = cps[q].self /\ w.t = cps[q].t
             /\ w.pc = cps[q].pc \/ (q \in Range(done) /\ w.pc = "join")
      BY <1>2, <1>3, KnownPCs, Awakened
    <2> QED BY <1>2, <1>3, <1>4, <2>2, <2>3
  <1>7. \A q \in Cprocs : Strolls(q)
    BY <1>1, <1>3, <1>6 DEF Strolls
  <1>8. MainState' = MainState
    BY <1>1, <1>3, <1>6, Returning, KeepsMain
  <1>9. \A q \in Cprocs : cproc'[q].pc = "return" => cproc[q].pc = "return"
    BY <1>3, <1>6
  <1> QED BY <1>4, <1>5, <1>7, <1>8, <1>9, Returning, Stroll DEF calls, Promises!vars

LEMMA FreeImplements ==
    ASSUME JobInv, ForkInv', NEW p \in Cprocs, Free(p), UNCHANGED cthread_max_cprocs
    PROVE  JobInv' /\ UNCHANGED Promises!vars
  <1> DEFINE t == cproc[p].t
             pc == IF t = cproc[p].self THEN "done" ELSE "user"
  <1>1. /\ cproc \in [Cprocs -> CprocFields] /\ t \in Threads /\ cproc[p].pc = "free"
        /\ free_cthreads \in Seq(Threads)
        /\ p = Main => pc = "user"
    BY CthreadsForkAssumption DEF JobInv, ForkInv, TypeOK, CprocFields, Places, Free, At
  <1>2. /\ cproc' = [cproc EXCEPT ![p].t = None, ![p].pc = pc]
        /\ free_cthreads' = <<t>> \o free_cthreads
        /\ UNCHANGED <<thread, calls, cthreads, counts>>
    BY DEF Free
  <1>3. /\ \A q \in Cprocs : q /= p => cproc'[q] = cproc[q]
        /\ cproc'[p].self = cproc[p].self /\ cproc'[p].pc = pc
    BY <1>1, <1>2 DEF CprocFields
  <1>4. Range(free_cthreads') = Range(free_cthreads) \cup {t}
    BY <1>1, <1>2, QueuePush
  <1>5. MainState' = MainState
    BY <1>1, <1>3, Returning, KeepsMain
  <1>6. \A x \in Threads : QuietRecord(x)
    <2> TAKE x \in Threads
    <2>1. Over(x)' <=> Over(x)
      <3>1. \A q \in Cprocs : /\ cproc'[q].pc = "free" => cproc[q].pc = "free" /\ q /= p
                              /\ q /= p => cproc'[q] = cproc[q]
        BY <1>3
      <3> QED BY <1>1, <1>4, <3>1 DEF Over, Frees, At
    <2>2. \A q \in Cprocs : Runs(q, x) => Runs(q, x)' \/ x \in Range(free_cthreads')
      BY <1>1, <1>3, <1>4 DEF Runs
    <2> QED BY <1>2, <1>4, <2>1, <2>2 DEF QuietRecord, Runs
  <1>7. \A q \in Cprocs : QuietCproc(q)
    BY <1>1, <1>2, <1>3, Returning DEF QuietCproc, At
  <1> QED BY <1>2, <1>5, <1>6, <1>7, Quiet DEF calls, Promises!vars

-----------------------------------------------------------------------------
(* The loop of cthread_body.                                               *)

\* The cprocs that have a thread are started, and those are finitely many.
LEMMA FewHaveThread ==
    ASSUME JobInv
    PROVE  /\ IsFiniteSet(HaveThread) /\ Cardinality(HaveThread) \in Nat
           /\ IsFiniteSet(Started) /\ Cardinality(Started) \in Nat
           /\ HaveThread \subseteq Started
  <1>1. HaveThread \subseteq Started
    BY CthreadsForkAssumption DEF JobInv, ForkInv, Places, HaveThread, Started
  <1>2. IsFiniteSet(Started)
    BY DEF JobInv, CountsExact
  <1> QED BY <1>1, <1>2, FS_Subset, FS_CardinalityType

\* A cproc in the loop of cthread_body, which has given its thread away.
Loops(p) ==
    /\ cproc[p].pc \in {"body", "done"}
    /\ UNCHANGED <<thread, calls, free_cthreads, cthread_cprocs, cthread_max_cprocs>>
    /\ cthread_cthreads' = cthread_cthreads - (IF p \in HaveThread THEN 1 ELSE 0)

LEMMA Looping ==
    ASSUME JobInv, NEW p \in Cprocs, Loops(p)
    PROVE  p /= Main /\ p \in Started /\ cproc[p].t = None /\ \A x \in Threads : ~Runs(p, x)
  BY CthreadsForkAssumption DEF JobInv, ForkInv, Places, Loops, Started, Runs

LEMMA NeedThreadImplements ==
    ASSUME JobInv, ForkInv', NEW p \in Cprocs, Loops(p), NextThread(p), cthreads = <<>>
    PROVE  JobInv' /\ UNCHANGED Promises!vars
  <1> DEFINE cps == [cproc EXCEPT ![p] = [pc |-> "needed", self |-> None, t |-> None]]
  <1>1. /\ cproc \in [Cprocs -> CprocFields]
        /\ cthread_idle \in Seq(Cprocs) /\ IsInjective(cthread_idle)
        /\ \A q \in Range(cthread_idle) : cproc[q].pc = "exiting"
        /\ p /= Main /\ p \in Started /\ \A x \in Threads : ~Runs(p, x)
        /\ cproc[p].pc \in {"body", "done"}
    BY Looping DEF JobInv, ForkInv, TypeOK, Queues, At, Loops
  <1>2. /\ cps \in [Cprocs -> CprocFields]
        /\ \A q \in Cprocs : q /= p => cps[q] = cproc[q]
        /\ cps[p].pc = "needed" /\ cps[p].self = None
    BY <1>1, KnownPCs DEF CprocFields
  <1>3. /\ cproc' = Woken(cps, cthread_idle, "exit")
        /\ UNCHANGED cthreads
    BY DEF NextThread
  <1> HIDE DEF cps
  <1>4. \A q \in Cprocs :
           /\ cproc'[q].self = cps[q].self /\ cproc'[q].t = cps[q].t
           /\ \/ cproc'[q].pc = cps[q].pc
              \/ cps[q].pc = "exiting" /\ cproc'[q].pc = "exit"
    <2>1. p \notin Range(cthread_idle)
      BY <1>1
    <2>2. \A q \in Range(cthread_idle) : cps[q].pc = "exiting"
      BY <1>1, <1>2, <2>1, QueueRange
    <2>3. \A q \in Cprocs :
             LET w == Woken(cps, cthread_idle, "exit")[q] IN
             /\ w.self = cps[q].self /\ w.t = cps[q].t
             /\ w.pc = cps[q].pc \/ (q \in Range(cthread_idle) /\ w.pc = "exit")
      BY <1>1, <1>2, KnownPCs, Awakened
    <2> QED BY <1>1, <1>2, <1>3, <2>2, <2>3
  <1>5. /\ cproc'[p].pc = "needed" /\ cproc'[p].self = None
        /\ \A q \in Cprocs : q /= p =>
              /\ cproc'[q].self = cproc[q].self /\ cproc'[q].t = cproc[q].t
              /\ \/ cproc'[q].pc = cproc[q].pc
                 \/ cproc[q].pc = "exiting" /\ cproc'[q].pc = "exit"
    BY <1>2, <1>4
  <1>6. UNCHANGED <<thread, calls, free_cthreads, cthread_cprocs, cthread_max_cprocs>>
    BY DEF Loops
  <1>7. Records'
    <2>1. \A q \in Cprocs : At(q, "return")' =>
             thread'[cproc'[q].self].result = thread'[cproc'[q].self].job
      BY <1>5, <1>6, Returning DEF At
    <2> QED BY <1>6, <2>1, KeepsRecords DEF JobInv, Records, calls
  <1>8. NoneLost'
    <2>1. \A x \in Threads : \A q \in Cprocs : Runs(q, x) => Runs(q, x)'
      BY <1>1, <1>5 DEF Runs
    <2> QED BY <1>3, <1>6, <2>1 DEF JobInv, NoneLost, Given, Runs, calls
  <1>9. CountsExact'
    <2>1. Started' = Started /\ HaveThread' = HaveThread \ {p}
      BY <1>1, <1>5 DEF Started, HaveThread
    <2>2. Cardinality(HaveThread \ {p}) =
             IF p \in HaveThread THEN Cardinality(HaveThread) - 1 ELSE Cardinality(HaveThread)
      BY FewHaveThread, FS_RemoveElement
    <2>3. cthread_cthreads' = cthread_cthreads - (IF p \in HaveThread THEN 1 ELSE 0)
      BY DEF Loops
    <2>4. Len(cthreads) \in Nat /\ Cardinality(HaveThread) \in Nat
      BY FewHaveThread DEF JobInv, ForkInv, TypeOK
    <2>5. cthread_cthreads' = 1 + Len(cthreads) + Cardinality(HaveThread \ {p})
      BY <2>2, <2>3, <2>4 DEF JobInv, CountsExact
    <2> QED BY <1>3, <1>6, <2>1, <2>5 DEF JobInv, CountsExact
  <1>10. UNCHANGED Promises!vars
    <2>1. MainState' = MainState
      BY <1>1, <1>5, Returning, KeepsMain
    <2>2. \A x \in Threads : Over(x)' <=> Over(x)
      BY <1>1, <1>5, <1>6 DEF Over, Frees, At
    <2>3. \A x \in Threads : SameRecord(x)
      BY <1>3, <1>6, <2>2 DEF SameRecord
    <2> QED BY <1>6, <2>1, <2>3, KeepsJobs DEF JobInv, ForkInv, calls, Promises!vars
  <1> QED BY <1>7, <1>8, <1>9, <1>10 DEF JobInv

\* The FiniteSets that ForkJoin extends is this one.
LEMMA SameCardinality ==
    ASSUME NEW S
    PROVE  Promises!Cardinality(S) = Cardinality(S)
  BY DEF Promises!Cardinality, Cardinality

\* A job that runs has a cproc of its own, which is neither the main thread's
\* nor one that looks for a thread: so the limit leaves room for one more.
LEMMA RoomToRun ==
    ASSUME JobInv, NEW p \in Cprocs, Loops(p)
    PROVE  cthread_max_cprocs = 0 \/ Cardinality(Promises!Running) < cthread_max_cprocs - 1
  <1> DEFINE R == Promises!Running
             f == [j \in R |-> CHOOSE q \in Cprocs : Runs(q, handle[j])]
  <1>1. ASSUME NEW j \in R
        PROVE  /\ handle[j] \in Threads /\ thread[handle[j]].job = j
               /\ \E q \in Cprocs : Runs(q, handle[j])
    <2>1. j \in Jobs /\ JobState(j) = "running"
      BY DEF Promises!Running, Job
    <2>2. Described(j)
      BY <2>1, EachDescribed DEF AllDescribed, JobInv, ForkInv
    <2>3. forks \in Nat /\ j \in Nat \ {0}
      BY <2>1, CthreadsForkAssumption DEF JobInv, ForkInv, TypeOK
    <2>4. /\ j <= forks /\ thread[handle[j]].job = j
          /\ handle[j] \notin Range(cthreads) /\ handle[j] \notin Range(free_cthreads)
          /\ "RETURNED" \notin thread[handle[j]].state
      BY <2>1, <2>2, <2>3 DEF Described, Over
    <2>5. handle[j] \in Threads
      BY <2>1, <2>3, <2>4, CthreadsForkAssumption DEF JobInv, ForkInv, TypeOK, Handles
    <2>6. Given(handle[j])
      BY <2>1 DEF Given
    <2> QED BY <2>4, <2>5, <2>6 DEF JobInv, NoneLost
  <1> HIDE DEF R
  <1>2. \A j \in R : f[j] \in Cprocs /\ Runs(f[j], handle[j])
    BY <1>1
  <1> HIDE DEF f
  <1>3. \A j \in R : f[j] \in Started \ {p}
    <2>1. cproc[Main].self = None /\ \A q \in Cprocs \ {Main} :
             cproc[q].pc = "none" => cproc[q].self = None
      BY DEF JobInv, ForkInv, Places
    <2> QED BY <1>1, <1>2, <2>1, Looping, CthreadsForkAssumption DEF Runs, Started
  <1>4. \A j, k \in R : f[j] = f[k] => j = k
    BY <1>1, <1>2 DEF Runs
  <1>5. f \in Injection(R, Started \ {p})
    <2>1. f = [j \in R |-> f[j]]
      BY DEF f
    <2>2. f \in [R -> Started \ {p}]
      BY <1>3, <2>1
    <2> QED BY <1>4, <2>2 DEF Injection, IsInjective
  <1>6. /\ IsFiniteSet(Started \ {p})
        /\ Cardinality(Started \ {p}) = Cardinality(Started) - 1
    BY Looping, FewHaveThread, FS_RemoveElement
  <1>7. Cardinality(R) <= Cardinality(Started) - 1 /\ Cardinality(R) \in Nat
    BY <1>5, <1>6, FS_Injection, FS_CardinalityType
  <1>8. /\ cthread_cprocs = 1 + Cardinality(Started) /\ Cardinality(Started) \in Nat
        /\ cthread_max_cprocs = 0 \/ cthread_cprocs <= cthread_max_cprocs
        /\ cthread_max_cprocs \in Nat
    BY FewHaveThread, CthreadsForkAssumption DEF JobInv, CountsExact, ForkInv, TypeOK
  <1> QED BY <1>7, <1>8 DEF R

LEMMA TakeThreadInvariant ==
    ASSUME JobInv, ForkInv', NEW p \in Cprocs, Loops(p), NextThread(p), cthreads /= <<>>
    PROVE  JobInv'
  <1> PICK t : t = Head(cthreads)
    OBVIOUS
  <1>1. /\ cproc \in [Cprocs -> CprocFields] /\ cthreads \in Seq(Threads)
        /\ t \in Threads /\ t /= None /\ Range(cthreads) = {t} \cup Range(Tail(cthreads))
        /\ p /= Main /\ p \in Started /\ \A x \in Threads : ~Runs(p, x)
    <2>1. cthreads \in Seq(Threads)
      BY DEF JobInv, ForkInv, TypeOK
    <2>2. t \in Threads /\ Range(cthreads) = {t} \cup Range(Tail(cthreads))
      BY <2>1, QueueTail
    <2> QED BY <2>1, <2>2, Looping, CthreadsForkAssumption DEF JobInv, ForkInv, TypeOK
  <1>2. /\ cthreads' = Tail(cthreads)
        /\ cproc' = [cproc EXCEPT ![p] = [pc |-> "user", self |-> t, t |-> None]]
        /\ UNCHANGED <<thread, calls, free_cthreads, cthread_cprocs, cthread_max_cprocs>>
    BY DEF NextThread, Loops
  <1>3. /\ \A q \in Cprocs : q /= p => cproc'[q] = cproc[q]
        /\ cproc'[p].pc = "user" /\ cproc'[p].self = t
    BY <1>1, <1>2
  <1>4. Records'
    <2>1. \A q \in Cprocs : At(q, "return")' =>
             thread'[cproc'[q].self].result = thread'[cproc'[q].self].job
      BY <1>2, <1>3, Returning DEF At
    <2> QED BY <1>2, <2>1, KeepsRecords DEF JobInv, Records, calls
  <1>5. NoneLost'
    <2>1. \A x \in Threads : \A q \in Cprocs : Runs(q, x) => Runs(q, x)'
      BY <1>1, <1>3 DEF Runs
    <2>2. Runs(p, t)'
      BY <1>3 DEF Runs
    <2> QED BY <1>1, <1>2, <2>1, <2>2 DEF JobInv, NoneLost, Given, Runs, calls
  <1>6. CountsExact'
    <2>1. Started' = Started /\ HaveThread' = HaveThread \cup {p}
      BY <1>1, <1>3 DEF Started, HaveThread
    <2>2. Cardinality(HaveThread \cup {p}) =
             IF p \in HaveThread THEN Cardinality(HaveThread) ELSE Cardinality(HaveThread) + 1
      BY FewHaveThread, FS_AddElement
    <2>3. cthread_cthreads' = cthread_cthreads - (IF p \in HaveThread THEN 1 ELSE 0)
      BY DEF Loops
    <2>4. Len(cthreads) \in Nat /\ Cardinality(HaveThread) \in Nat
          /\ Len(Tail(cthreads)) = Len(cthreads) - 1
      BY <1>1, FewHaveThread
    <2>5. cthread_cthreads' = 1 + Len(Tail(cthreads)) + Cardinality(HaveThread \cup {p})
      BY <2>2, <2>3, <2>4 DEF JobInv, CountsExact
    <2> QED BY <1>2, <2>1, <2>5 DEF JobInv, CountsExact
  <1> QED BY <1>4, <1>5, <1>6 DEF JobInv

\* Who frees a record has run it, or has the last claim to its result.
LEMMA NobodyFrees ==
    ASSUME JobInv, NEW x \in Threads, "RETURNED" \notin thread[x].state,
           NEW q \in Cprocs, Frees(q, x)
    PROVE  Runs(q, x) /\ "DETACHED" \in thread[x].state
  <1>1. cproc[q].self = x /\ "DETACHED" \in thread[x].state
    BY DEF JobInv, ForkInv, StatesAgree
  <1> QED BY <1>1 DEF Runs, Frees, At

LEMMA TakeThreadImplements ==
    ASSUME JobInv, ForkInv', NEW p \in Cprocs, Loops(p), NextThread(p), cthreads /= <<>>
    PROVE  Promises!Next
  <1> PICK t : t = Head(cthreads)
    OBVIOUS
  <1>1. /\ cproc \in [Cprocs -> CprocFields] /\ cthreads \in Seq(Threads)
        /\ t \in Threads /\ t \in Range(cthreads)
        /\ Range(cthreads) = {t} \cup Range(Tail(cthreads)) /\ t \notin Range(Tail(cthreads))
        /\ p /= Main /\ cproc[p].pc \in {"body", "done"}
    BY Looping, QueueTail DEF JobInv, ForkInv, TypeOK, OneRunner, Loops
  <1>2. /\ cthreads' = Tail(cthreads)
        /\ cproc' = [cproc EXCEPT ![p] = [pc |-> "user", self |-> t, t |-> None]]
        /\ UNCHANGED <<thread, forks, handle, results, free_cthreads, cthread_max_cprocs>>
    BY DEF NextThread, Loops, calls
  <1>3. /\ "RETURNED" \notin thread[t].state /\ t \notin Range(free_cthreads) /\ Given(t)
        /\ \A q \in Cprocs : ~Runs(q, t)
    BY <1>1 DEF JobInv, ForkInv, StatesAgree, OneRunner, FreedOnce, Handles
  <1>4. /\ \A q \in Cprocs : q /= p => cproc'[q] = cproc[q]
        /\ cproc'[p].pc = "user"
    BY <1>1, <1>2
  <1>5. PICK j \in Jobs : thread[t].job = j /\ handle[j] = t
    BY <1>1, <1>3 DEF JobInv, Records
  <1>6. \A x \in Threads : Over(x)' <=> Over(x)
    BY <1>1, <1>2, <1>4 DEF Over, Frees, At
  <1>7. ~Over(t)
    BY <1>1, <1>3, NobodyFrees DEF Over
  <1>8. j \in Nat \ {0} /\ forks \in Nat /\ j <= forks
    BY <1>1, <1>5, CthreadsForkAssumption DEF JobInv, ForkInv, TypeOK, Handles
  <1>9. Described(j) /\ Described(j)'
    BY BothDescribed DEF JobInv, ForkInv
  <1>10. JobState(j) = "forked"
    BY <1>1, <1>5, <1>8, <1>9 DEF Described
  <1>11. JobState(j)' = "running"
    <2>1. ~Over(t)'
      BY <1>1, <1>6, <1>7
    <2> QED BY <1>1, <1>2, <1>3, <1>5, <1>8, <1>9, <2>1 DEF Described
  <1>12. ASSUME NEW k \in Jobs \ {j} PROVE Kept(k)
    <2>1. k <= forks => handle[k] \in Threads
      BY CthreadsForkAssumption DEF JobInv, ForkInv, TypeOK, Handles
    <2>2. \A x \in Threads \ {t} : SameRecord(x)
      BY <1>1, <1>2, <1>6 DEF SameRecord
    <2>3. thread[t].job /= k /\ thread'[t].job /= k
      BY <1>2, <1>5
    <2> QED BY <1>2, <2>1, <2>2, <2>3, KeepsJob DEF JobInv, ForkInv
  <1>13. Detached' = Detached
    <2>1. j \in Detached' <=> j \in Detached
      BY <1>2, <1>10, <1>11 DEF Detached
    <2> QED BY <1>12, <2>1 DEF Detached, Kept
  <1>14. MainState' = MainState
    BY <1>1, <1>4, Returning, KeepsMain
  <1>15. Job[j] = "forked" /\ Job' = [Job EXCEPT ![j] = "running"]
    BY <1>10, <1>11, <1>12, MovesOne
  <1>16. Promises!Run(j)
    <2>1. cthread_max_cprocs = 0 \/ Cardinality(Promises!Running) < cthread_max_cprocs - 1
      BY RoomToRun
    <2>2. UNCHANGED <<cthread_max_cprocs, Detached, results, MainState>>
      BY <1>2, <1>13, <1>14
    <2> QED BY <1>15, <2>1, <2>2, SameCardinality DEF Promises!Run
  <1> QED BY <1>16 DEF Promises!Next

-----------------------------------------------------------------------------
(* Steps that one job moves in.                                            *)

LEMMA Moves ==
    ASSUME JobInv, ForkInv', UNCHANGED <<forks, handle>>,
           NEW j \in Jobs, NEW t \in Threads, handle[j] = t, thread[t].job = j,
           thread'[t].job = j, \A x \in Threads \ {t} : SameRecord(x)
    PROVE  /\ j <= forks /\ forks \in Nat /\ j \in Nat
           /\ Described(j) /\ Described(j)'
           /\ Job[j] = JobState(j)
           /\ Job' = [Job EXCEPT ![j] = JobState(j)']
           /\ j \in Detached' => Detached' = Detached \cup {j}
           /\ j \notin Detached' => Detached' = Detached \ {j}
  <1>1. j \in Nat \ {0} /\ forks \in Nat /\ j <= forks
    BY CthreadsForkAssumption DEF JobInv, ForkInv, TypeOK, Handles
  <1>2. Described(j) /\ Described(j)'
    BY BothDescribed DEF JobInv, ForkInv
  <1>3. ASSUME NEW k \in Jobs \ {j} PROVE Kept(k)
    <2>1. k <= forks => handle[k] \in Threads
      BY CthreadsForkAssumption DEF JobInv, ForkInv, TypeOK, Handles
    <2> QED BY <2>1, KeepsJob DEF JobInv, ForkInv
  <1> QED BY <1>1, <1>2, <1>3, MovesOne

\* The job that a record in use is that of.
LEMMA ItsJob ==
    ASSUME JobInv, NEW t \in Threads, Given(t)
    PROVE  \E j \in Jobs : handle[j] = t /\ thread[t].job = j
  BY DEF JobInv, Records

LEMMA JoinImplements ==
    ASSUME JobInv, ForkInv', NEW p \in Cprocs, Join(p), UNCHANGED cthread_max_cprocs
    PROVE  JobInv' /\ Promises!Next
  <1> PICK t : t = cproc[p].t
    OBVIOUS
  <1>1. /\ cproc \in [Cprocs -> CprocFields] /\ cproc[p].pc = "join"
        /\ t \in Threads /\ Given(t) /\ "RETURNED" \in thread[t].state
    BY DEF JobInv, ForkInv, TypeOK, CprocFields, Places, Handles, Join, At
  <1>2. PICK j \in Jobs : handle[j] = t /\ thread[t].job = j
    BY <1>1, ItsJob
  <1>3. /\ cproc' = [cproc EXCEPT ![p].pc = "free"]
        /\ results' = [results EXCEPT ![j] = thread[t].result]
        /\ UNCHANGED <<thread, forks, handle, unjoined, cthreads, counts, free_cthreads>>
    BY <1>2 DEF Join, Goto
  <1>4. \A q \in Cprocs : /\ cproc'[q].self = cproc[q].self /\ cproc'[q].t = cproc[q].t
                          /\ cproc'[q].pc = IF q = p THEN "free" ELSE cproc[q].pc
    BY <1>1, <1>3 DEF CprocFields
  <1>5. /\ t \notin Range(cthreads) /\ t \notin Range(free_cthreads)
        /\ \A q \in Cprocs : ~Frees(q, t)
    <2>1. Claims(p, t)
      BY <1>1 DEF Claims
    <2>2. \A q \in Cprocs : Frees(q, t) => q = p
      BY <1>1, <2>1 DEF JobInv, ForkInv, OneClaimant, Claims, Frees, At
    <2>3. t \notin Range(free_cthreads)
      BY <1>1 DEF JobInv, ForkInv, FreedOnce, At
    <2> QED BY <1>1, <2>2, <2>3 DEF JobInv, ForkInv, StatesAgree, Frees, At
  <1>6. Records'
    <2>1. \A q \in Cprocs : At(q, "return")' =>
             thread'[cproc'[q].self].result = thread'[cproc'[q].self].job
      BY <1>3, <1>4, Returning DEF At
    <2> QED BY <1>3, <2>1, KeepsRecords DEF JobInv, Records
  <1>7. NoneLost'
    BY <1>1, <1>3, <1>4, KeepsNoneLost DEF JobInv
  <1>8. CountsExact'
    BY <1>1, <1>3, <1>4, KeepsCounts DEF JobInv
  <1>9. MainState' = MainState
    BY <1>1, <1>4, Returning, KeepsMain
  <1>10. \A x \in Threads \ {t} : SameRecord(x)
    BY <1>1, <1>3, <1>4 DEF SameRecord, Over, Frees, At
  <1>11. JobState(j) = "returned" /\ JobState(j)' = "over"
    <2>1. Over(t)' /\ ~Over(t)
      BY <1>1, <1>4, <1>5 DEF Over, Frees, At
    <2> QED BY <1>1, <1>2, <1>3, <1>5, <1>10, <2>1, Moves DEF Described
  <1>12. Job[j] = "returned" /\ Job' = [Job EXCEPT ![j] = "over"] /\ Detached' = Detached
    <2>1. j \notin Detached /\ j \notin Detached'
      BY <1>11 DEF Detached
    <2>2. /\ Job[j] = JobState(j) /\ Job' = [Job EXCEPT ![j] = JobState(j)']
          /\ Detached' = Detached \ {j}
      BY <1>1, <1>2, <1>3, <1>10, <2>1, Moves
    <2> QED BY <1>11, <2>1, <2>2
  <1>13. results' = [results EXCEPT ![j] = j]
    BY <1>1, <1>2, <1>3 DEF JobInv, Records
  <1>14. Promises!Join(j)
    BY <1>9, <1>12, <1>13 DEF Promises!Join
  <1> QED BY <1>6, <1>7, <1>8, <1>14 DEF JobInv, Promises!Next

LEMMA DetachReturnedImplements ==
    ASSUME JobInv, ForkInv', NEW p \in Cprocs, NEW j \in Jobs, Detach(p, j),
           "RETURNED" \in thread[handle[j]].state, UNCHANGED cthread_max_cprocs
    PROVE  JobInv' /\ Promises!Next
  <1> PICK t : t = handle[j]
    OBVIOUS
  <1>1. /\ cproc \in [Cprocs -> CprocFields] /\ cproc[p].pc = "user" /\ j \in unjoined
        /\ t \in Threads /\ thread[t].job = j /\ "RETURNED" \in thread[t].state
    BY CthreadsForkAssumption
       DEF JobInv, ForkInv, TypeOK, Handles, Records, Detach, Knows, At
  <1>2. /\ cproc' = [cproc EXCEPT ![p].pc = "free", ![p].t = t]
        /\ unjoined' = unjoined \ {j}
        /\ UNCHANGED <<thread, forks, handle, results, cthreads, counts, free_cthreads>>
    BY DEF Detach
  <1>3. /\ \A q \in Cprocs : q /= p => cproc'[q] = cproc[q]
        /\ cproc'[p].self = cproc[p].self /\ cproc'[p].t = t /\ cproc'[p].pc = "free"
    BY <1>1, <1>2 DEF CprocFields
  <1>4. /\ t \notin Range(cthreads) /\ t \notin Range(free_cthreads)
        /\ \A q \in Cprocs : ~Frees(q, t)
    BY <1>1 DEF JobInv, ForkInv, OneClaimant, FreedOnce, StatesAgree, Claims, Frees, At
  <1>5. Records'
    <2>1. \A q \in Cprocs : At(q, "return")' =>
             thread'[cproc'[q].self].result = thread'[cproc'[q].self].job
      BY <1>2, <1>3, Returning DEF At
    <2> QED BY <1>2, <2>1, KeepsRecords DEF JobInv, Records
  <1>6. NoneLost'
    BY <1>1, <1>2, <1>3, KeepsNoneLost DEF JobInv
  <1>7. CountsExact'
    BY <1>1, <1>2, <1>3, KeepsCounts DEF JobInv
  <1>8. MainState' = MainState
    BY <1>1, <1>3, Returning, KeepsMain
  <1>9. \A x \in Threads \ {t} : SameRecord(x)
    BY <1>1, <1>2, <1>3 DEF SameRecord, Over, Frees, At
  <1>10. JobState(j) = "returned" /\ JobState(j)' = "over"
    <2>1. Over(t)' /\ ~Over(t)
      BY <1>1, <1>3, <1>4 DEF Over, Frees, At
    <2> QED BY <1>1, <1>2, <1>4, <1>9, <2>1, Moves DEF Described
  <1>11. Job[j] = "returned" /\ Job' = [Job EXCEPT ![j] = "over"]
         /\ Detached' = Detached /\ j \notin Detached
    <2>1. j \notin Detached /\ j \notin Detached'
      BY <1>10 DEF Detached
    <2>2. /\ Job[j] = JobState(j) /\ Job' = [Job EXCEPT ![j] = JobState(j)']
          /\ Detached' = Detached \ {j}
      BY <1>1, <1>2, <1>9, <2>1, Moves
    <2> QED BY <1>10, <2>1, <2>2
  <1>12. Promises!Detach(j)
    BY <1>2, <1>8, <1>11 DEF Promises!Detach
  <1> QED BY <1>5, <1>6, <1>7, <1>12 DEF JobInv, Promises!Next

LEMMA DetachRunningImplements ==
    ASSUME JobInv, ForkInv', NEW p \in Cprocs, NEW j \in Jobs, Detach(p, j),
           "RETURNED" \notin thread[handle[j]].state, UNCHANGED cthread_max_cprocs
    PROVE  JobInv' /\ Promises!Next
  <1> PICK t : t = handle[j]
    OBVIOUS
  <1>1. /\ thread \in [Threads -> ThreadFields] /\ j \in unjoined
        /\ t \in Threads /\ thread[t].job = j /\ "RETURNED" \notin thread[t].state
    BY CthreadsForkAssumption
       DEF JobInv, ForkInv, TypeOK, Handles, Records, Detach, Knows, At
  <1>2. /\ thread' = [thread EXCEPT ![t].state = @ \cup {"DETACHED"}]
        /\ unjoined' = unjoined \ {j}
        /\ UNCHANGED <<cproc, forks, handle, results, cthreads, counts, free_cthreads>>
    BY DEF Detach
  <1>3. \A x \in Threads : /\ thread'[x].job = thread[x].job
                           /\ thread'[x].result = thread[x].result
                           /\ "RETURNED" \in thread'[x].state <=> "RETURNED" \in thread[x].state
                           /\ x /= t => thread'[x] = thread[x]
                           /\ x = t => "DETACHED" \in thread'[x].state
    BY <1>1, <1>2 DEF ThreadFields
  <1>4. "DETACHED" \notin thread[t].state /\ t \notin Range(free_cthreads)
    BY <1>1 DEF JobInv, ForkInv, StatesAgree, FreedOnce
  <1>5. ~Over(t)
    BY <1>1, <1>4, NobodyFrees DEF Over
  <1>6. Records'
    <2>1. \A q \in Cprocs : At(q, "return")' =>
             thread'[cproc'[q].self].result = thread'[cproc'[q].self].job
      BY <1>2, <1>3, Returning DEF At
    <2> QED BY <1>2, <1>3, <2>1, KeepsRecords DEF JobInv, Records
  <1>7. NoneLost'
    BY <1>2, <1>3, KeepsNoneLost DEF JobInv
  <1>8. CountsExact'
    BY <1>2, KeepsCounts DEF JobInv
  <1>9. MainState' = MainState
    BY <1>2 DEF MainState
  <1>10. \A x \in Threads : Over(x)' <=> Over(x)
    BY <1>2 DEF Over, Frees, At
  <1>11. \A x \in Threads \ {t} : SameRecord(x)
    BY <1>2, <1>3, <1>10 DEF SameRecord
  <1>12. JobState(j)' = JobState(j) /\ JobState(j) \in {"forked", "running"}
    <2>1. j <= forks /\ forks \in Nat /\ j \in Nat /\ Described(j) /\ Described(j)'
      BY <1>1, <1>2, <1>3, <1>11, Moves
    <2>2. ~Over(t)'
      BY <1>1, <1>5, <1>10
    <2> QED BY <1>1, <1>2, <1>3, <1>5, <2>1, <2>2 DEF Described
  <1>13. j \in Detached' /\ j \notin Detached
    BY <1>1, <1>2, <1>3, <1>4, <1>12 DEF Detached
  <1>14. Job[j] = JobState(j) /\ Job' = [Job EXCEPT ![j] = JobState(j)]
         /\ Detached' = Detached \cup {j}
    BY <1>1, <1>2, <1>3, <1>11, <1>12, <1>13, Moves
  <1>15. Job' = Job
    BY <1>14 DEF Job
  <1>16. Promises!Detach(j)
    BY <1>2, <1>9, <1>12, <1>13, <1>14, <1>15 DEF Promises!Detach
  <1> QED BY <1>6, <1>7, <1>8, <1>16 DEF JobInv, Promises!Next

\* The record of a function that returns.
LEMMA ReturningJob ==
    ASSUME JobInv, NEW p \in Cprocs, At(p, "return"), NEW t, t = cproc[p].self
    PROVE  /\ t \in Threads /\ p /= Main /\ cproc[p].pc = "return"
           /\ "RETURNED" \notin thread[t].state /\ thread[t].result = thread[t].job
           /\ t \notin Range(cthreads) /\ t \notin Range(free_cthreads) /\ ~Over(t)
           /\ \A q \in Cprocs : ~Frees(q, t)
           /\ \E j \in Jobs : handle[j] = t /\ thread[t].job = j
  <1>1. t \in Threads /\ t /= None /\ thread[t].result = thread[t].job /\ cproc[p].pc = "return"
    BY Returning, CthreadsForkAssumption DEF At
  <1>2. p /= Main
    BY <1>1 DEF JobInv, ForkInv, Places
  <1>3. Runs(p, t)
    BY <1>1 DEF Runs
  <1>4. "RETURNED" \notin thread[t].state /\ t \notin Range(cthreads) /\ t \notin Range(free_cthreads)
    BY <1>1, <1>3 DEF JobInv, ForkInv, StatesAgree, OneRunner, FreedOnce
  <1>5. ASSUME NEW q \in Cprocs, Frees(q, t) PROVE FALSE
    <2>1. Runs(q, t)
      BY <1>1, <1>4, <1>5, NobodyFrees
    <2>2. q = p
      BY <1>1, <1>3, <2>1 DEF JobInv, ForkInv, OneRunner
    <2> QED BY <1>1, <1>5, <2>2 DEF Frees, At
  <1>6. Given(t)
    BY <1>1 DEF JobInv, ForkInv, Handles
  <1> QED BY <1>1, <1>2, <1>4, <1>5, <1>6, ItsJob DEF Over

LEMMA ReturnDetachedImplements ==
    ASSUME JobInv, ForkInv', NEW p \in Cprocs, Return(p),
           "DETACHED" \in thread[cproc[p].self].state, UNCHANGED cthread_max_cprocs
    PROVE  JobInv' /\ Promises!Next
  <1> PICK t : t = cproc[p].self
    OBVIOUS
  <1>1. /\ cproc \in [Cprocs -> CprocFields] /\ At(p, "return")
        /\ "DETACHED" \in thread[t].state
    BY DEF JobInv, ForkInv, TypeOK, Return
  <1>2. /\ t \in Threads /\ p /= Main /\ cproc[p].pc = "return"
        /\ "RETURNED" \notin thread[t].state
        /\ t \notin Range(cthreads) /\ t \notin Range(free_cthreads) /\ ~Over(t)
        /\ \A q \in Cprocs : ~Frees(q, t)
    BY <1>1, ReturningJob
  <1>3. PICK j \in Jobs : handle[j] = t /\ thread[t].job = j
    BY <1>1, ReturningJob
  <1>4. /\ cproc' = [cproc EXCEPT ![p].pc = "free", ![p].t = t]
        /\ UNCHANGED <<thread, calls, cthreads, counts, free_cthreads>>
    BY <1>1 DEF Return
  <1>5. /\ \A q \in Cprocs : q /= p => cproc'[q] = cproc[q]
        /\ cproc'[p].self = cproc[p].self /\ cproc'[p].t = t /\ cproc'[p].pc = "free"
    BY <1>1, <1>4 DEF CprocFields
  <1>6. Records'
    <2>1. \A q \in Cprocs : At(q, "return")' =>
             thread'[cproc'[q].self].result = thread'[cproc'[q].self].job
      BY <1>4, <1>5, Returning DEF At
    <2> QED BY <1>4, <2>1, KeepsRecords DEF JobInv, Records, calls
  <1>7. NoneLost'
    BY <1>4, <1>5, KeepsNoneLost DEF JobInv, calls
  <1>8. CountsExact'
    BY <1>2, <1>4, <1>5, KeepsCounts DEF JobInv
  <1>9. MainState' = MainState
    BY <1>2, <1>5, Returning, KeepsMain
  <1>10. \A x \in Threads \ {t} : SameRecord(x)
    BY <1>2, <1>4, <1>5 DEF SameRecord, Over, Frees, At
  <1>11. UNCHANGED <<forks, handle, results>>
    BY <1>4 DEF calls
  <1>12. JobState(j) = "running" /\ JobState(j)' = "over"
    <2>1. Over(t)'
      BY <1>5 DEF Over, Frees, At
    <2>2. j <= forks /\ forks \in Nat /\ j \in Nat /\ Described(j) /\ Described(j)'
      BY <1>2, <1>3, <1>4, <1>10, <1>11, Moves
    <2> QED BY <1>2, <1>3, <1>4, <1>11, <2>1, <2>2 DEF Described
  <1>13. j \in Detached /\ j \notin Detached'
    BY <1>1, <1>3, <1>12 DEF Detached
  <1>14. Job[j] = "running" /\ Job' = [Job EXCEPT ![j] = "over"] /\ Detached' = Detached \ {j}
    <2>1. /\ Job[j] = JobState(j) /\ Job' = [Job EXCEPT ![j] = JobState(j)']
          /\ Detached' = Detached \ {j}
      BY <1>2, <1>3, <1>4, <1>10, <1>11, <1>13, Moves
    <2> QED BY <1>12, <2>1
  <1>15. Promises!Return(j)
    BY <1>9, <1>11, <1>13, <1>14 DEF Promises!Return
  <1> QED BY <1>6, <1>7, <1>8, <1>15 DEF JobInv, Promises!Next

LEMMA ReturnUndetachedImplements ==
    ASSUME JobInv, ForkInv', NEW p \in Cprocs, Return(p),
           "DETACHED" \notin thread[cproc[p].self].state, UNCHANGED cthread_max_cprocs
    PROVE  JobInv' /\ Promises!Next
  <1> PICK t : t = cproc[p].self
    OBVIOUS
  <1>1. /\ cproc \in [Cprocs -> CprocFields] /\ thread \in [Threads -> ThreadFields]
        /\ At(p, "return") /\ "DETACHED" \notin thread[t].state
    BY DEF JobInv, ForkInv, TypeOK, Return
  <1>2. /\ t \in Threads /\ p /= Main /\ cproc[p].pc = "return"
        /\ "RETURNED" \notin thread[t].state /\ thread[t].result = thread[t].job
        /\ t \notin Range(cthreads) /\ t \notin Range(free_cthreads) /\ ~Over(t)
        /\ \A q \in Cprocs : ~Frees(q, t)
    BY <1>1, ReturningJob
  <1>3. PICK j \in Jobs : handle[j] = t /\ thread[t].job = j
    BY <1>1, ReturningJob
  <1>4. /\ cproc' = [cproc EXCEPT ![p].pc = "signal"]
        /\ thread' = [thread EXCEPT ![t].state = @ \cup {"RETURNED"}]
        /\ UNCHANGED <<calls, cthreads, counts, free_cthreads>>
    BY <1>1 DEF Return, Goto
  <1>5. \A q \in Cprocs : /\ cproc'[q].self = cproc[q].self /\ cproc'[q].t = cproc[q].t
                          /\ cproc'[q].pc = IF q = p THEN "signal" ELSE cproc[q].pc
    BY <1>1, <1>4 DEF CprocFields
  <1>6. \A x \in Threads : /\ thread'[x].job = thread[x].job
                           /\ thread'[x].result = thread[x].result
                           /\ x /= t => thread'[x] = thread[x]
                           /\ x = t => /\ "RETURNED" \in thread'[x].state
                                       /\ "DETACHED" \notin thread'[x].state
    BY <1>1, <1>2, <1>4 DEF ThreadFields
  <1>7. Records'
    <2>1. \A q \in Cprocs : At(q, "return")' =>
             thread'[cproc'[q].self].result = thread'[cproc'[q].self].job
      BY <1>5, <1>6, Returning DEF At
    <2>2. \A x \in Threads :
             "RETURNED" \in thread'[x].state => thread'[x].result = thread'[x].job
      BY <1>2, <1>6 DEF JobInv, Records
    <2> QED BY <1>4, <1>6, <2>1, <2>2, KeepsRecords DEF JobInv, calls
  <1>8. NoneLost'
    BY <1>4, <1>5, <1>6, <1>2, KeepsNoneLost DEF JobInv, calls
  <1>9. CountsExact'
    BY <1>2, <1>4, <1>5, KeepsCounts DEF JobInv
  <1>10. MainState' = MainState
    BY <1>2, <1>5, Returning, KeepsMain
  <1>11. \A x \in Threads : Over(x)' <=> Over(x)
    BY <1>2, <1>4, <1>5 DEF Over, Frees, At
  <1>12. \A x \in Threads \ {t} : SameRecord(x)
    BY <1>4, <1>6, <1>11 DEF SameRecord
  <1>13. UNCHANGED <<forks, handle, results>>
    BY <1>4 DEF calls
  <1>14. JobState(j) = "running" /\ JobState(j)' = "returned"
    <2>1. ~Over(t)'
      BY <1>2, <1>11
    <2>2. j <= forks /\ forks \in Nat /\ j \in Nat /\ Described(j) /\ Described(j)'
      BY <1>2, <1>3, <1>6, <1>12, <1>13, Moves
    <2> QED BY <1>2, <1>3, <1>4, <1>6, <1>13, <2>1, <2>2 DEF Described
  <1>15. j \notin Detached /\ j \notin Detached'
    BY <1>1, <1>3, <1>14 DEF Detached
  <1>16. Job[j] = "running" /\ Job' = [Job EXCEPT ![j] = "returned"]
         /\ Detached' = Detached \ {j}
    <2>1. /\ Job[j] = JobState(j) /\ Job' = [Job EXCEPT ![j] = JobState(j)']
          /\ Detached' = Detached \ {j}
      BY <1>2, <1>3, <1>6, <1>12, <1>13, <1>15, Moves
    <2> QED BY <1>14, <2>1
  <1>17. Promises!Return(j)
    BY <1>10, <1>13, <1>15, <1>16 DEF Promises!Return
  <1> QED BY <1>7, <1>8, <1>9, <1>17 DEF JobInv, Promises!Next

-----------------------------------------------------------------------------
(* cthread_fork.                                                           *)

\* What it does to the cprocs: one more may be started.
ForkedBy(p) ==
    /\ cproc[p].pc = "user" /\ cproc'[p].pc = "fork"
    /\ \A q \in Cprocs : cproc'[q].self = cproc[q].self
    /\ \/ /\ \A q \in Cprocs \ {p} : cproc'[q] = cproc[q]
          /\ UNCHANGED cthread_cprocs
       \/ \E n \in Cprocs \ {p} :
             /\ cproc[n].pc = "none" /\ cproc'[n].pc = "body"
             /\ \A q \in Cprocs \ {p, n} : cproc'[q] = cproc[q]
             /\ cthread_cprocs' = cthread_cprocs + 1
             /\ cthread_max_cprocs = 0 \/ cthread_cprocs < cthread_max_cprocs

\* And to the records: t is that of the new job.
Gets(j, t) ==
    /\ t \in Threads /\ j \in Jobs /\ j = forks + 1 /\ forks \in Nat
    /\ handle[j] = None /\ forks' = j /\ unjoined' = unjoined \cup {j}
    /\ handle'[j] = t /\ \A k \in Jobs \ {j} : handle'[k] = handle[k]
    /\ thread'[t].job = j /\ thread'[t].state = {}
    /\ \A x \in Threads \ {t} : thread'[x] = thread[x]
    /\ Range(cthreads') = Range(cthreads) \cup {t} /\ Len(cthreads') = Len(cthreads) + 1
    /\ \A x \in Threads \ {t} : x \in Range(free_cthreads') <=> x \in Range(free_cthreads)
    /\ t \notin Range(cthreads) /\ (Given(t) => t \in Range(free_cthreads))
    /\ \A q \in Cprocs : ~Runs(q, t)
    /\ \A k \in unjoined : handle[k] /= t
    /\ cthread_cthreads' = cthread_cthreads + 1
    /\ UNCHANGED <<results, cthread_max_cprocs>>

LEMMA ForkMoves ==
    ASSUME ForkInv, NEW p \in Cprocs, Fork(p), UNCHANGED cthread_max_cprocs
    PROVE  ForkedBy(p)
  <1>1. PICK t \in Allocated :
           \/ /\ ~CreatesCproc /\ UNCHANGED cthread_cprocs
              /\ cproc' = [cproc EXCEPT ![p].pc = "fork", ![p].t = t]
           \/ /\ CreatesCproc /\ Unborn /= {} /\ cthread_cprocs' = cthread_cprocs + 1
              /\ cproc' = [[cproc EXCEPT ![p].pc = "fork", ![p].t = t]
                           EXCEPT ![NewCproc].pc = "body"]
    BY DEF Fork
  <1>2. t \in Threads /\ cproc \in [Cprocs -> CprocFields] /\ cproc[p].pc = "user"
    BY AllocatedIsFree DEF ForkInv, TypeOK, Fork, At
  <1>3. PICK w : w = [cproc EXCEPT ![p].pc = "fork", ![p].t = t]
    OBVIOUS
  <1>4. /\ w \in [Cprocs -> CprocFields]
        /\ w[p].self = cproc[p].self /\ w[p].pc = "fork"
        /\ \A q \in Cprocs \ {p} : w[q] = cproc[q]
    BY <1>2, <1>3, KnownPCs DEF CprocFields
  <1>5. CASE cproc' = w /\ UNCHANGED cthread_cprocs
    BY <1>2, <1>4, <1>5 DEF ForkedBy
  <1>6. CASE /\ CreatesCproc /\ Unborn /= {} /\ cthread_cprocs' = cthread_cprocs + 1
             /\ cproc' = [w EXCEPT ![NewCproc].pc = "body"]
    <2>1. PICK n \in Unborn : n = NewCproc
      BY <1>6 DEF NewCproc
    <2>2. n \in Cprocs \ {p} /\ cproc[n].pc = "none"
      BY <1>2, <2>1 DEF Unborn, At
    <2>3. /\ cproc'[n].pc = "body" /\ cproc'[n].self = w[n].self
          /\ \A q \in Cprocs \ {n} : cproc'[q] = w[q]
      BY <1>4, <1>6, <2>1, <2>2 DEF CprocFields
    <2> QED BY <1>2, <1>4, <1>6, <2>2, <2>3 DEF ForkedBy, CreatesCproc
  <1> QED BY <1>1, <1>3, <1>5, <1>6

LEMMA ForkGives ==
    ASSUME ForkInv, NEW p \in Cprocs, Fork(p), UNCHANGED cthread_max_cprocs
    PROVE  \E t \in Threads : Gets(forks + 1, t)
  <1> PICK j : j = forks + 1
    OBVIOUS
  <1>1. PICK t \in Allocated :
           /\ handle' = [handle EXCEPT ![j] = t]
           /\ thread' = [thread EXCEPT ![t] = [job |-> j, state |-> {}, result |-> 0,
                                               done |-> <<>>]]
           /\ cthreads' = Append(cthreads, t)
           /\ cthread_cthreads' = cthread_cthreads + 1
    BY DEF Fork
  <1>2. /\ forks' = j /\ unjoined' = unjoined \cup {j} /\ free_cthreads' = Rest(free_cthreads)
        /\ UNCHANGED <<results, cthread_max_cprocs>>
    BY DEF Fork
  <1>3. /\ t \in Threads /\ t \notin Range(cthreads)
        /\ \A q \in Cprocs : ~Runs(q, t)
        /\ \A k \in unjoined : handle[k] /= t
    BY AllocatedIsFree
  <1>4. j \in Jobs /\ forks \in Nat /\ handle[j] = None
    <2>1. forks \in Nat /\ cthread_max_cprocs \in Limits
      BY DEF ForkInv, TypeOK
    <2>2. j \in 1 .. MaxForks[cthread_max_cprocs] /\ j \notin 1 .. forks
      BY <2>1, CthreadsForkAssumption DEF Fork
    <2>3. j \in Jobs
      BY <2>1, <2>2, CthreadsForkAssumption
    <2> QED BY <2>1, <2>2, <2>3 DEF ForkInv, Handles
  <1>5. /\ handle'[j] = t /\ \A k \in Jobs \ {j} : handle'[k] = handle[k]
        /\ thread'[t].job = j /\ thread'[t].state = {}
        /\ \A x \in Threads \ {t} : thread'[x] = thread[x]
    BY <1>1, <1>3, <1>4 DEF ForkInv, TypeOK
  <1>6. Range(cthreads') = Range(cthreads) \cup {t} /\ Len(cthreads') = Len(cthreads) + 1
    <2>1. cthreads \in Seq(Threads)
      BY DEF ForkInv, TypeOK
    <2>2. Range(Append(cthreads, t)) = Range(cthreads) \cup {t}
      BY <1>3, <2>1, QueueAppend
    <2> QED BY <1>1, <1>3, <2>1, <2>2
  <1>7. /\ \A x \in Threads \ {t} : x \in Range(free_cthreads') <=> x \in Range(free_cthreads)
        /\ Given(t) => t \in Range(free_cthreads)
    <2>1. CASE free_cthreads = <<>>
      <3>1. Allocated = IF Unused /= {} THEN {CHOOSE x \in Unused : TRUE} ELSE {}
        BY <2>1 DEF Allocated
      <3>2. t \in Unused
        BY <3>1
      <3> QED BY <1>2, <2>1, <3>2 DEF Rest, Unused, Given
    <2>2. CASE free_cthreads /= <<>>
      <3>1. t = Head(free_cthreads) /\ free_cthreads' = Tail(free_cthreads)
        BY <1>2, <2>2 DEF Allocated, Rest
      <3>2. free_cthreads \in Seq(Threads)
        BY DEF ForkInv, TypeOK
      <3>3. Range(free_cthreads) = {t} \cup Range(Tail(free_cthreads))
        BY <2>2, <3>1, <3>2, QueueTail
      <3> QED BY <3>1, <3>3
    <2> QED BY <2>1, <2>2
  <1>8. Gets(j, t)
    BY <1>1, <1>2, <1>3, <1>4, <1>5, <1>6, <1>7 DEF Gets
  <1> QED BY <1>3, <1>8

LEMMA ForkKeepsInvariant ==
    ASSUME JobInv, ForkInv', NEW p \in Cprocs, ForkedBy(p),
           NEW j, NEW t \in Threads, Gets(j, t)
    PROVE  JobInv'
  <1>1. \A x \in Threads \ {t} : Given(x)' <=> Given(x)
    BY CthreadsForkAssumption DEF Gets, Given
  <1>2. Records'
    <2>1. ASSUME NEW x \in Threads, Given(x)'
          PROVE  \E k \in Jobs : thread'[x].job = k /\ handle'[k] = x
      <3>1. CASE x = t
        BY <3>1 DEF Gets
      <3>2. CASE x /= t
        <4>1. PICK k \in Jobs : thread[x].job = k /\ handle[k] = x
          BY <1>1, <2>1, <3>2 DEF JobInv, Records
        <4>2. k /= j
          BY <4>1, CthreadsForkAssumption DEF Gets
        <4> QED BY <3>2, <4>1, <4>2 DEF Gets
      <3> QED BY <3>1, <3>2
    <2>2. \A k \in unjoined' : thread'[handle'[k]].job = k
      <3>1. ASSUME NEW k \in unjoined, k /= j PROVE thread'[handle'[k]].job = k
        <4>1. handle[k] \in Threads /\ handle[k] /= t /\ handle'[k] = handle[k]
          BY <3>1, CthreadsForkAssumption DEF JobInv, ForkInv, TypeOK, Handles, Gets
        <4> QED BY <3>1, <4>1 DEF JobInv, Records, Gets
      <3> QED BY <3>1 DEF Gets
    <2>3. \A x \in Threads :
             "RETURNED" \in thread'[x].state => thread'[x].result = thread'[x].job
      BY DEF JobInv, Records, Gets
    <2>4. ASSUME NEW q \in Cprocs, cproc'[q].pc = "return"
          PROVE  thread'[cproc'[q].self].result = thread'[cproc'[q].self].job
      <3>1. cproc[q].pc = "return" /\ cproc'[q].self = cproc[q].self
        BY <2>4 DEF ForkedBy
      <3>2. cproc[q].self /= t /\ cproc[q].self \in Threads
        BY <3>1, Returning DEF Gets, Runs
      <3> QED BY <3>1, <3>2, Returning DEF Gets
    <2> QED BY <2>1, <2>2, <2>3, <2>4 DEF Records, At
  <1>3. NoneLost'
    <2>1. \A x \in Threads : \A q \in Cprocs : Runs(q, x) => Runs(q, x)'
      BY DEF Runs, ForkedBy
    <2>2. t \in Range(cthreads')
      BY DEF Gets
    <2>3. ASSUME NEW x \in Threads \ {t}, Given(x)'
          PROVE  \/ x \in Range(cthreads') \/ x \in Range(free_cthreads')
                 \/ "RETURNED" \in thread'[x].state
                 \/ (\E q \in Cprocs : Runs(q, x))'
      <3>1. Given(x)
        BY <1>1, <2>3
      <3> QED BY <2>1, <3>1 DEF JobInv, NoneLost, Gets, Runs
    <2> QED BY <2>2, <2>3 DEF NoneLost
  <1>4. CountsExact'
    <2>1. HaveThread' = HaveThread
      BY DEF HaveThread, ForkedBy
    <2>2. Len(cthreads) \in Nat /\ Cardinality(HaveThread) \in Nat
      BY FewHaveThread DEF JobInv, ForkInv, TypeOK
    <2>3. cthread_cthreads' = 1 + Len(cthreads') + Cardinality(HaveThread)
      BY <2>2 DEF JobInv, CountsExact, Gets
    <2>4. /\ IsFiniteSet(Started)' /\ cthread_cprocs' = 1 + Cardinality(Started)'
          /\ cthread_max_cprocs' = 0 \/ cthread_cprocs' <= cthread_max_cprocs'
      <3>1. cthread_max_cprocs \in Nat /\ cthread_cprocs = 1 + Cardinality(Started)
            /\ Cardinality(Started) \in Nat /\ IsFiniteSet(Started)
        BY FewHaveThread, CthreadsForkAssumption DEF JobInv, CountsExact, ForkInv, TypeOK
      <3>2. CASE (\A q \in Cprocs \ {p} : cproc'[q] = cproc[q]) /\ UNCHANGED cthread_cprocs
        <4>1. Started' = Started
          BY <3>2 DEF Started, ForkedBy
        <4> QED BY <3>1, <3>2, <4>1 DEF JobInv, CountsExact, Gets
      <3>3. CASE \E n \in Cprocs \ {p} :
                    /\ cproc[n].pc = "none" /\ cproc'[n].pc = "body"
                    /\ \A q \in Cprocs \ {p, n} : cproc'[q] = cproc[q]
                    /\ cthread_cprocs' = cthread_cprocs + 1
                    /\ cthread_max_cprocs = 0 \/ cthread_cprocs < cthread_max_cprocs
        <4>1. PICK n \in Cprocs \ {p} :
                    /\ cproc[n].pc = "none" /\ cproc'[n].pc = "body"
                    /\ \A q \in Cprocs \ {p, n} : cproc'[q] = cproc[q]
                    /\ cthread_cprocs' = cthread_cprocs + 1
                    /\ cthread_max_cprocs = 0 \/ cthread_cprocs < cthread_max_cprocs
          BY <3>3
        <4>2. n /= Main /\ n \notin Started
          BY <4>1 DEF JobInv, ForkInv, Places, Started
        <4>3. Started' = Started \cup {n}
          BY <4>1, <4>2 DEF Started, ForkedBy
        <4>4. IsFiniteSet(Started \cup {n})
              /\ Cardinality(Started \cup {n}) = Cardinality(Started) + 1
          BY <3>1, <4>2, FS_AddElement
        <4> QED BY <3>1, <4>1, <4>3, <4>4 DEF Gets
      <3> QED BY <3>2, <3>3 DEF ForkedBy
    <2> QED BY <2>1, <2>3, <2>4 DEF CountsExact
  <1> QED BY <1>2, <1>3, <1>4 DEF JobInv

LEMMA ForkImplements ==
    ASSUME JobInv, ForkInv', NEW p \in Cprocs, ForkedBy(p),
           NEW j \in Jobs, NEW t \in Threads, Gets(j, t)
    PROVE  Promises!Next
  <1>1. /\ j \in Nat \ {0} /\ forks \in Nat /\ j > forks
        /\ forks' \in Nat /\ j <= forks'
        /\ \A k \in Jobs \ {j} : k \in Nat /\ (k <= forks' <=> k <= forks)
    BY CthreadsForkAssumption DEF Gets
  <1>2. \A x \in Threads \ {t} : SameRecord(x)
    <2>1. \A q \in Cprocs : /\ cproc'[q].pc = "free" <=> cproc[q].pc = "free"
                            /\ cproc[q].pc = "free" => cproc'[q].t = cproc[q].t
      BY DEF ForkedBy
    <2>2. \A x \in Threads \ {t} : Over(x)' <=> Over(x)
      BY <2>1 DEF Over, Frees, At, Gets
    <2> QED BY <2>2 DEF SameRecord, Gets
  <1>3. ASSUME NEW k \in Jobs \ {j} PROVE Kept(k)
    <2>1. k <= forks => handle[k] \in Threads
      BY <1>1, CthreadsForkAssumption DEF JobInv, ForkInv, TypeOK, Handles
    <2>2. CASE handle[k] /= t
      BY <1>1, <1>2, <2>1, <2>2, KeepsJob DEF JobInv, ForkInv, Gets
    <2>3. CASE handle[k] = t
      <3>1. Given(t) /\ Described(k) /\ Described(k)' /\ handle'[k] = t
        BY <2>3, BothDescribed DEF Given, JobInv, ForkInv, Gets
      <3>2. Over(t) /\ t \notin Range(cthreads) /\ thread'[t].job /= k
        BY <3>1 DEF Over, Gets
      <3>3. k \in Nat /\ (k > forks' <=> k > forks) /\ (k <= forks' <=> k <= forks)
            /\ (k > forks \/ k <= forks)
        BY <1>1
      <3>4. CASE k > forks
        <4>1. JobState(k) = "unborn"
          BY <3>1, <3>4 DEF Described
        <4>2. JobState(k)' = "unborn"
          BY <3>1, <3>3, <3>4 DEF Described
        <4> QED BY <4>1, <4>2 DEF Kept, Detached
      <3>5. CASE k <= forks
        <4>1. JobState(k) = "over"
          BY <2>3, <3>1, <3>2, <3>5 DEF Described
        <4>2. JobState(k)' = "over"
          BY <3>1, <3>2, <3>3, <3>5 DEF Described
        <4> QED BY <4>1, <4>2 DEF Kept, Detached
      <3> QED BY <3>3, <3>4, <3>5
    <2> QED BY <2>2, <2>3
  <1>4. JobState(j) = "unborn" /\ JobState(j)' = "forked"
    <2>1. Described(j) /\ Described(j)'
      BY BothDescribed DEF JobInv, ForkInv
    <2> QED BY <1>1, <2>1 DEF Described, Gets
  <1>5. j \notin Detached /\ j \notin Detached'
    BY <1>4 DEF Detached, Gets
  <1>6. Job[j] = "unborn" /\ Job' = [Job EXCEPT ![j] = "forked"] /\ Detached' = Detached
    <2>1. /\ Job[j] = JobState(j) /\ Job' = [Job EXCEPT ![j] = JobState(j)']
          /\ Detached' = Detached \ {j}
      BY <1>3, <1>5, MovesOne
    <2> QED BY <1>4, <1>5, <2>1
  <1>7. MainState' = MainState
    <2>1. cproc[Main].pc /= "none"
      BY DEF JobInv, ForkInv, Places
    <2> QED BY <2>1, Returning, KeepsMain DEF ForkedBy
  <1>8. Promises!Fork(j)
    BY <1>6, <1>7 DEF Promises!Fork, Gets
  <1> QED BY <1>8 DEF Promises!Next

-----------------------------------------------------------------------------
(* cthread_exit of the main thread.                                        *)

LEMMA StartExitImplements ==
    ASSUME JobInv, ForkInv', StartExit, UNCHANGED cthread_max_cprocs
    PROVE  JobInv' /\ Promises!Next
  <1>1. /\ cproc \in [Cprocs -> CprocFields] /\ cproc[Main].pc = "user" /\ Main \in Cprocs
        /\ cproc' = [cproc EXCEPT ![Main].pc = "exit"]
        /\ UNCHANGED <<thread, calls, cthreads, counts, free_cthreads>>
    BY CthreadsForkAssumption DEF JobInv, ForkInv, TypeOK, StartExit, Goto, At
  <1>2. \A q \in Cprocs : /\ cproc'[q].self = cproc[q].self /\ cproc'[q].t = cproc[q].t
                          /\ cproc'[q].pc = IF q = Main THEN "exit" ELSE cproc[q].pc
    BY <1>1 DEF CprocFields
  <1>3. \A q \in Cprocs : Strolls(q)
    BY <1>1, <1>2 DEF Strolls
  <1>4. JobInv' /\ UNCHANGED <<Job, Detached>>
    BY <1>1, <1>2, <1>3, Returning, Stroll DEF calls
  <1>5. MainState = "alive" /\ MainState' = "exiting"
    BY <1>1, <1>2 DEF MainState
  <1>6. Promises!StartExit
    BY <1>1, <1>4, <1>5 DEF Promises!StartExit, calls
  <1> QED BY <1>4, <1>6 DEF Promises!Next

\* The main thread exits when its count says that there is no other: then
\* none is queued, and no cproc has one.
LEMMA ExitsImplements ==
    ASSUME JobInv, ForkInv', Exit, ~(cthread_cthreads > 1), UNCHANGED cthread_max_cprocs
    PROVE  JobInv' /\ Promises!Next
  <1>1. /\ cproc \in [Cprocs -> CprocFields] /\ cproc[Main].pc = "exit" /\ Main \in Cprocs
        /\ cproc' = [cproc EXCEPT ![Main].pc = "exited"]
        /\ UNCHANGED <<thread, calls, cthreads, counts, free_cthreads>>
    BY CthreadsForkAssumption DEF JobInv, ForkInv, TypeOK, Exit, Goto, At
  <1>2. \A q \in Cprocs : /\ cproc'[q].self = cproc[q].self /\ cproc'[q].t = cproc[q].t
                          /\ cproc'[q].pc = IF q = Main THEN "exited" ELSE cproc[q].pc
    BY <1>1 DEF CprocFields
  <1>3. \A q \in Cprocs : Strolls(q)
    BY <1>1, <1>2 DEF Strolls
  <1>4. JobInv' /\ UNCHANGED <<Job, Detached>>
    BY <1>1, <1>2, <1>3, Returning, Stroll DEF calls
  <1>5. MainState = "exiting" /\ MainState' = "exited"
    BY <1>1, <1>2 DEF MainState
  <1>6. cthreads = <<>> /\ HaveThread = {}
    <2>1. cthreads \in Seq(Threads) /\ Cardinality(HaveThread) \in Nat /\ IsFiniteSet(HaveThread)
      BY FewHaveThread DEF JobInv, ForkInv, TypeOK
    <2>2. Len(cthreads) \in Nat /\ (Len(cthreads) = 0 => cthreads = <<>>)
      BY <2>1
    <2>3. Len(cthreads) = 0 /\ Cardinality(HaveThread) = 0
      BY <2>1, <2>2 DEF JobInv, CountsExact
    <2> QED BY <2>1, <2>2, <2>3, FS_EmptySet
  <1>7. ASSUME NEW j \in Jobs PROVE JobState(j) \in {"unborn", "returned", "over"}
    <2>1. Described(j) /\ forks \in Nat /\ j \in Nat
      BY EachDescribed, CthreadsForkAssumption DEF AllDescribed, JobInv, ForkInv, TypeOK
    <2>2. \A x : x \notin Range(cthreads)
      BY <1>6 DEF Range
    <2>3. \A x \in Threads, q \in Cprocs : ~Runs(q, x)
      BY <1>6, CthreadsForkAssumption DEF HaveThread, Runs
    <2>4. j <= forks => handle[j] \in Threads /\ Given(handle[j])
      BY CthreadsForkAssumption DEF JobInv, ForkInv, TypeOK, Handles, Given
    <2>5. j <= forks => Over(handle[j]) \/ "RETURNED" \in thread[handle[j]].state
      BY <2>2, <2>3, <2>4 DEF JobInv, NoneLost, Over
    <2> QED BY <2>1, <2>2, <2>5 DEF Described
  <1>8. \A j \in Jobs : Job[j] \in {"unborn", "returned", "over"}
    BY <1>7 DEF Job
  <1>9. Promises!Exit
    BY <1>1, <1>4, <1>5, <1>8 DEF Promises!Exit, calls
  <1> QED BY <1>4, <1>9 DEF Promises!Next

-----------------------------------------------------------------------------
(* Every step, from the first.                                             *)

LEMMA InitJobs == Init => JobInv /\ Promises!Init
  <1> SUFFICES ASSUME Init PROVE JobInv /\ Promises!Init
    OBVIOUS
  <1>1. ForkInv
    BY InitHolds
  <1>2. /\ Main \in Cprocs /\ forks = 0 /\ unjoined = {} /\ cthreads = <<>>
        /\ \A p \in Cprocs : /\ cproc[p].pc = IF p = Main THEN "user" ELSE "none"
                             /\ cproc[p].self = None
        /\ \A t \in Threads : thread[t].state = {} /\ ~Given(t)
    BY CthreadsForkAssumption DEF Init, Given
  <1>3. Records /\ NoneLost
    BY <1>2 DEF Records, NoneLost, At
  <1>4. CountsExact
    <2>1. Started = {} /\ HaveThread = {} /\ Len(cthreads) = 0
      BY <1>2 DEF Started, HaveThread
    <2>2. cthread_max_cprocs \in Nat /\ cthread_cprocs = 1 /\ cthread_cthreads = 1
      BY CthreadsForkAssumption DEF Init
    <2> QED BY <2>1, <2>2, FS_EmptySet DEF CountsExact
  <1>5. ASSUME NEW j \in Jobs PROVE JobState(j) = "unborn"
    <2>1. Described(j)
      BY <1>1, EachDescribed DEF AllDescribed, ForkInv
    <2> QED BY <1>2, <2>1, CthreadsForkAssumption DEF Described
  <1>6. Job = [j \in Jobs |-> "unborn"] /\ Detached = {}
    BY <1>5 DEF Job, Detached
  <1>7. MainState = "alive"
    BY <1>2 DEF MainState
  <1> QED BY <1>1, <1>3, <1>4, <1>6, <1>7 DEF JobInv, Promises!Init, Init

LEMMA BodyLoops ==
    ASSUME JobInv, NEW p \in Cprocs, Body(p) \/ Done(p), UNCHANGED cthread_max_cprocs
    PROVE  Loops(p) /\ NextThread(p)
  <1>1. cthread_cthreads \in Int
    BY DEF JobInv, ForkInv, TypeOK
  <1>2. CASE Body(p)
    <2>1. p \notin HaveThread
      BY <1>2, CthreadsForkAssumption DEF JobInv, ForkInv, Places, HaveThread, Body, At
    <2> QED BY <1>1, <1>2, <2>1 DEF Body, Loops, At, counts
  <1>3. CASE Done(p)
    <2>1. p \in HaveThread
      BY <1>3, CthreadsForkAssumption DEF JobInv, ForkInv, Places, HaveThread, Done, At
    <2> QED BY <1>1, <1>3, <2>1 DEF Done, Loops, At
  <1> QED BY <1>2, <1>3

LEMMA StepImplements ==
    ASSUME JobInv, [Next]_vars
    PROVE  JobInv' /\ [Promises!Next]_Promises!vars
  <1>1. ForkInv'
    BY StepHolds DEF JobInv
  <1>2. CASE UNCHANGED vars
    <2>1. Records' /\ NoneLost' /\ CountsExact'
      BY <1>2 DEF JobInv, Records, NoneLost, CountsExact, Started, HaveThread, Given, Runs, At,
         vars, calls, counts
    <2>2. UNCHANGED Promises!vars
      BY <1>2 DEF vars, calls, counts, Promises!vars, Job, Detached, MainState, JobState, Frees, At
    <2> QED BY <1>1, <2>1, <2>2 DEF JobInv
  <1>3. ASSUME NEW p \in Cprocs, LibraryStep(p)
        PROVE  JobInv' /\ [Promises!Next]_Promises!vars
    <2> USE <1>1, <1>3 DEF LibraryStep
    <2>1. CASE ForkSignal(p)
      BY <2>1, ForkSignalImplements
    <2>2. CASE Join(p)
      BY <2>2, JoinImplements
    <2>3. CASE JoinWait(p)
      BY <2>3, JoinWaitImplements
    <2>4. CASE Free(p)
      BY <2>4, FreeImplements
    <2>5. CASE Body(p) \/ Done(p)
      <3>1. Loops(p) /\ NextThread(p)
        BY <2>5, BodyLoops
      <3> QED BY <3>1, NeedThreadImplements, TakeThreadInvariant, TakeThreadImplements
    <2>6. CASE Return(p)
      BY <2>6, ReturnDetachedImplements, ReturnUndetachedImplements
    <2>7. CASE SignalDone(p)
      BY <2>7, SignalDoneImplements
    <2>8. CASE p = Main /\ Exit
      BY <2>8, ExitWaitsImplements, ExitsImplements
    <2> QED BY <2>1, <2>2, <2>3, <2>4, <2>5, <2>6, <2>7, <2>8 DEF Library
  <1>4. ASSUME NEW p \in Cprocs, ProgramStep(p)
        PROVE  JobInv' /\ [Promises!Next]_Promises!vars
    <2> USE <1>1, <1>4 DEF ProgramStep
    <2>1. CASE Fork(p)
      <3>1. ForkedBy(p)
        BY <2>1, ForkMoves DEF JobInv
      <3>2. PICK t \in Threads : Gets(forks + 1, t)
        BY <2>1, ForkGives DEF JobInv
      <3>3. forks + 1 \in Jobs
        BY <3>2 DEF Gets
      <3> QED BY <3>1, <3>2, <3>3, ForkKeepsInvariant, ForkImplements
    <2>2. CASE FunctionReturns(p)
      BY <2>2, FunctionReturnsImplements
    <2>3. CASE p = Main /\ StartExit
      BY <2>3, StartExitImplements
    <2>4. ASSUME NEW j \in Jobs, Detach(p, j)
          PROVE  JobInv' /\ [Promises!Next]_Promises!vars
      BY <2>4, DetachReturnedImplements, DetachRunningImplements
    <2>5. ASSUME NEW j \in Jobs, StartJoin(p, j)
          PROVE  JobInv' /\ [Promises!Next]_Promises!vars
      BY <2>5, StartJoinImplements
    <2> QED BY <2>1, <2>2, <2>3, <2>4, <2>5 DEF Program
  <1> QED BY <1>2, <1>3, <1>4 DEF Next

(* The counts that cthread_fork and cthread_exit go by are those of the    *)
(* cprocs and of the threads, and no record in use is ever forgotten.      *)
THEOREM JobInvariant == Spec => []JobInv
  <1>1. Init => JobInv
    BY InitJobs
  <1>2. JobInv /\ [Next]_vars => JobInv'
    BY StepImplements
  <1> QED BY <1>1, <1>2, PTL DEF Spec

(* Every step of cthreads.c is a step of ForkJoin, or none that the        *)
(* program can tell: a forked thread runs once and within the limit, its   *)
(* joiner gets its own result although records are used again, and exit of *)
(* the main thread is after all others, whatever the limits and the        *)
(* numbers of cprocs and records.                                          *)
THEOREM ThreadsImplement == Spec => Promises!Init /\ [][Promises!Next]_Promises!vars
  <1>1. Init => JobInv /\ Promises!Init
    BY InitJobs
  <1>2. JobInv /\ [Next]_vars => JobInv' /\ [Promises!Next]_Promises!vars
    BY StepImplements
  <1> QED BY <1>1, <1>2, PTL DEF Spec

=============================================================================
