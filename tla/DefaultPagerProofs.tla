------------------------- MODULE DefaultPagerProofs -------------------------
(***************************************************************************)
(* The safety of the default pager's threads, for any number of objects,   *)
(* pages, blocks and threads, and any modulus of the sequence numbers that *)
(* is at least the number of threads.                                      *)
(*                                                                         *)
(* The inductive invariant, PagerInv, looks at one object at a time, with  *)
(* its crew (the threads that work for it), its structure, its port and    *)
(* the kernel's object.  Its main part is the line: the messages not yet   *)
(* served, in threads and in the queue, each with the number of turns it   *)
(* has to wait for.  A step of a thread keeps the line, or takes away its  *)
(* first message and moves the others up; the kernel adds one at the end.  *)
(* The lemmas are about one object, with the state before and after a step *)
(* as parameters, and about no variable; only then are they applied to the *)
(* actions.                                                                *)
(***************************************************************************)
EXTENDS DefaultPager, FiniteSetTheorems, WellFoundedInduction, TLAPS

-----------------------------------------------------------------------------
(* Types                                                                   *)

\* Sets of natural numbers have a least element, which Min chooses.
LEMMA MinIn ==
    ASSUME NEW S, S \subseteq Nat, S # {}
    PROVE  Min(S) \in S
  <1> DEFINE R == OpToRel(<, Nat)
  <1>1. IsWellFoundedOn(R, Nat)
    BY NatLessThanWellFounded, Zenon
  <1>2. R = {ss \in Nat \X Nat : ss[1] < ss[2]}
    BY Zenon DEF OpToRel
  <1> HIDE DEF R
  <1>3. PICK x \in S : \A y \in S : ~ (<<y, x>> \in R)
    BY <1>1, WFMin
  <1>4. \A y \in S : x =< y
    <2> SUFFICES ASSUME NEW y \in S
                 PROVE  x =< y
      OBVIOUS
    <2>1. ~ (<<y, x>> \in R)
      BY <1>3
    <2>2. x \in Nat /\ y \in Nat
      OBVIOUS
    <2>3. ~ (y < x)
      BY <2>1, <2>2, <1>2
    <2> QED BY <2>2, <2>3
  <1> QED BY <1>3, <1>4 DEF Min

LEMMA VersionsAre ==
    /\ 0 \in Values /\ Values \subseteq Nat
    /\ \A p \in Pages : Versions[p] \subseteq Values /\ Versions[p] \subseteq Nat
                        /\ Min(Versions[p]) \in Values
    /\ Out \notin Values /\ Wanted \notin Values /\ Out # Wanted
  <1>1. \A p \in Pages : Versions[p] \subseteq Nat \ {0} /\ Versions[p] # {}
    BY DefaultPagerAssumption
  <1>2. 0 \in Values /\ Values \subseteq Nat /\ \A p \in Pages : Versions[p] \subseteq Values
    BY <1>1 DEF Values
  <1>3. \A p \in Pages : Min(Versions[p]) \in Versions[p]
    BY <1>1, MinIn
  <1> QED BY <1>1, <1>2, <1>3 DEF Out, Wanted

LEMMA NewerIs ==
    ASSUME NEW o, NEW p \in Pages, NEW v \in Newer(o, p)
    PROVE  v \in Values
  <1>1. Newer(o, p) \subseteq Versions[p]
    BY DEF Newer
  <1> QED BY <1>1, VersionsAre

LEMMA ModulusIs ==
    /\ SeqnoModulus \in Nat \ {0} /\ Seqnos = 0..(SeqnoModulus - 1)
    /\ 0 \in Seqnos /\ Seqnos \subseteq Nat
    /\ Cardinality(Threads) \in Nat /\ Cardinality(Threads) <= SeqnoModulus
    /\ IsFiniteSet(Threads)
  BY DefaultPagerAssumption, FS_CardinalityType DEF Seqnos

\* The number after n.
Succ(n) == (n + 1) % SeqnoModulus

LEMMA SuccIs ==
    ASSUME NEW n \in Seqnos
    PROVE  /\ Succ(n) = IF n = SeqnoModulus - 1 THEN 0 ELSE n + 1
           /\ Succ(n) \in Seqnos
  <1>1. n \in Nat /\ n <= SeqnoModulus - 1 /\ SeqnoModulus \in Nat \ {0}
    BY ModulusIs
  <1>2. CASE n = SeqnoModulus - 1
    BY <1>1, <1>2, ModulusIs DEF Succ
  <1>3. CASE n # SeqnoModulus - 1
    BY <1>1, <1>3, ModulusIs DEF Succ
  <1> QED BY <1>2, <1>3

LEMMA AfterIs ==
    ASSUME NEW a \in Seqnos, NEW b \in Seqnos
    PROVE  /\ After(a, b) \in Nat /\ After(a, b) < SeqnoModulus
           /\ After(a, b) = 0 <=> a = b
           /\ a # b => After(Succ(a), b) = After(a, b) - 1
           /\ a = b => After(Succ(a), b) = SeqnoModulus - 1
           /\ After(a, Succ(b)) \in {After(a, b) + 1, After(a, b) + 1 - SeqnoModulus}
  <1>1. a \in Nat /\ b \in Nat /\ a < SeqnoModulus /\ b < SeqnoModulus /\ SeqnoModulus \in Nat \ {0}
    BY ModulusIs
  <1>2. Succ(a) = (IF a = SeqnoModulus - 1 THEN 0 ELSE a + 1)
        /\ Succ(b) = (IF b = SeqnoModulus - 1 THEN 0 ELSE b + 1)
    BY SuccIs
  <1> QED BY <1>1, <1>2 DEF After

LEMMA OpsAre ==
    /\ OpsAt("idle") = {"none"} /\ OpsAt("lock") = Ops /\ OpsAt("has_page") = {"initialize"}
    /\ \A x \in {"request"} \cup ReadPCs : OpsAt(x) = {"request"}
    /\ \A x \in {"start_write"} \cup WritePCs : OpsAt(x) = {"write", "initialize"}
    /\ OpsAt("broadcast") = Ops \ {"no_senders"} /\ OpsAt("init") = {"init"}
    /\ \A x \in {"wait_readers", "wait_writers", "terminate"} : OpsAt(x) = {"terminate"}
    /\ OpsAt("no_senders") = {"no_senders"}
    /\ OpsAt("finish") = PageOps /\ OpsAt("finished") = PageOps
    /\ PageOps = {"request", "write", "initialize"}
    /\ Ops = {"request", "write", "initialize", "init", "terminate", "no_senders"}
  BY DEF OpsAt, ReadPCs, WritePCs, PageOps, Ops

LEMMA PCsAre ==
    /\ ReadPCs = {"read_offset", "read", "release", "reply"}
    /\ WritePCs = {"write_offset", "write", "write_error"}
    /\ Moving = {"read_offset", "read", "release", "reply", "write_offset", "write",
                 "write_error", "has_page", "broadcast"}
    /\ Turns = {"request", "start_write", "init", "wait_readers", "wait_writers", "terminate",
                "no_senders"}
    /\ \A x \in {"idle", "lock", "finish", "finished"} \cup Turns \cup Moving : x \in PCs
  BY DEF ReadPCs, WritePCs, Moving, Turns, PCs

LEMMA MessageIs ==
    ASSUME NEW m \in Messages
    PROVE  /\ m \in Requests /\ m.op \in Ops /\ m.life \in Nat /\ m.op # "none"
           /\ m.op \in PageOps => m.page \in Pages
           /\ m.write \in BOOLEAN /\ m.data \in Values
  BY DEF Messages, Requests

LEMMA ThreadIs ==
    ASSUME NEW r \in ThreadRecords
    PROVE  /\ r \in ThreadFields
           /\ r.pc \in PCs /\ r.o \in Objects \cup {None} /\ r.m \in Requests /\ r.seqno \in Seqnos
           /\ r.block \in Blocks \cup {None} /\ r.data \in Values
           /\ r.rc \in {"none", "success", "absent", "error"}
           /\ r.m.life \in Nat
           /\ r.o = None <=> r.pc = "idle"
           /\ r.m.op \in OpsAt(r.pc)
           /\ r.pc \in {"lock"} \cup Turns \cup Moving => r.m \in Messages
           /\ r.pc \in {"read", "write"} => r.block # None
           /\ r.pc \in {"release", "reply"} => r.rc # "none"
  BY DEF ThreadRecords, ThreadFields, Requests

-----------------------------------------------------------------------------
(* Crews and their lines                                                   *)

Upd(f, x, v) == [f EXCEPT ![x] = v]

Crews == UNION {[S -> ThreadRecords] : S \in SUBSET Threads}
Put(c, t, n) == [u \in DOMAIN c \cup {t} |-> IF u = t THEN n ELSE c[u]]
Drop(c, t) == [u \in DOMAIN c \ {t} |-> c[u]]

\* Thread t of the crew is at n afterwards.
Changed(c, t, n) == IF n.o = None THEN Drop(c, t) ELSE Put(c, t, n)

LEMMA CrewIs ==
    ASSUME NEW c \in Crews
    PROVE  /\ DOMAIN c \subseteq Threads /\ IsFiniteSet(DOMAIN c)
           /\ \A t \in DOMAIN c : c[t] \in ThreadRecords
           /\ c = [t \in DOMAIN c |-> c[t]]
  <1>1. PICK S \in SUBSET Threads : c \in [S -> ThreadRecords]
    BY DEF Crews
  <1>2. DOMAIN c = S
    BY <1>1
  <1>3. IsFiniteSet(S)
    BY <1>1, ModulusIs, FS_Subset
  <1> QED BY <1>1, <1>2, <1>3

LEMMA PutIs ==
    ASSUME NEW c \in Crews, NEW t \in Threads, NEW n \in ThreadRecords, NEW c2, c2 = Put(c, t, n)
    PROVE  /\ c2 \in Crews /\ \A u : u \in DOMAIN c2 <=> u \in DOMAIN c \/ u = t
           /\ c2[t] = n /\ \A u \in DOMAIN c \ {t} : c2[u] = c[u]
  <1>1. DOMAIN c \subseteq Threads /\ \A u \in DOMAIN c : c[u] \in ThreadRecords
    BY CrewIs
  <1>2. Put(c, t, n) \in [DOMAIN c \cup {t} -> ThreadRecords]
    BY <1>1 DEF Put
  <1>3. DOMAIN c \cup {t} \in SUBSET Threads
    BY <1>1
  <1>4. Put(c, t, n) \in Crews
    BY <1>2, <1>3 DEF Crews
  <1> QED BY <1>2, <1>4 DEF Put

LEMMA DropIs ==
    ASSUME NEW c \in Crews, NEW t \in Threads, NEW c2, c2 = Drop(c, t)
    PROVE  /\ c2 \in Crews /\ \A u : u \in DOMAIN c2 <=> u \in DOMAIN c /\ u # t
           /\ \A u \in DOMAIN c \ {t} : c2[u] = c[u]
  <1>1. DOMAIN c \subseteq Threads /\ \A u \in DOMAIN c : c[u] \in ThreadRecords
    BY CrewIs
  <1>2. Drop(c, t) \in [DOMAIN c \ {t} -> ThreadRecords]
    BY <1>1 DEF Drop
  <1>3. DOMAIN c \ {t} \in SUBSET Threads
    BY <1>1
  <1>4. Drop(c, t) \in Crews
    BY <1>2, <1>3 DEF Crews
  <1> QED BY <1>2, <1>4 DEF Drop

LEMMA CrewOfIs ==
    ASSUME NEW th \in [Threads -> ThreadRecords], NEW o
    PROVE  /\ CrewOf(th, o) \in Crews
           /\ DOMAIN CrewOf(th, o) = {u \in Threads : th[u].o = o}
           /\ \A t \in Threads : th[t].o = o => t \in DOMAIN CrewOf(th, o) /\ CrewOf(th, o)[t] = th[t]
  <1> DEFINE S == {u \in Threads : th[u].o = o}
  <1>1. CrewOf(th, o) = [t \in S |-> th[t]]
    BY DEF CrewOf
  <1>2. S \in SUBSET Threads /\ \A t \in S : th[t] \in ThreadRecords
    OBVIOUS
  <1>3. CrewOf(th, o) \in [S -> ThreadRecords]
    BY <1>1, <1>2
  <1>4. CrewOf(th, o) \in Crews
    BY <1>2, <1>3 DEF Crews
  <1> QED BY <1>1, <1>4

LEMMA CrewHas ==
    ASSUME NEW th \in [Threads -> ThreadRecords], NEW t \in Threads
    PROVE  /\ CrewOf(th, th[t].o) \in Crews
           /\ t \in DOMAIN CrewOf(th, th[t].o) /\ CrewOf(th, th[t].o)[t] = th[t]
  <1>1. CrewOf(th, th[t].o) \in Crews
    BY CrewOfIs
  <1>2. t \in {u \in Threads : th[u].o = th[t].o}
    OBVIOUS
  <1> QED BY <1>1, <1>2 DEF CrewOf

\* When thread t of th becomes n, which is idle or still works for the same object.
LEMMA CrewChange ==
    ASSUME NEW th \in [Threads -> ThreadRecords], NEW t \in Threads, NEW o \in Objects,
           NEW n \in ThreadRecords, th[t].o \in {o, None}, n.o \in {o, None}
    PROVE  LET c == CrewOf(th, o)
               th2 == Upd(th, t, n)
           IN /\ th2 \in [Threads -> ThreadRecords]
              /\ CrewOf(th2, o) = Changed(c, t, n)
              /\ \A x \in Objects \ {o} : CrewOf(th2, x) = CrewOf(th, x)
  <1> DEFINE th2 == Upd(th, t, n)
  <1>1. th2 \in [Threads -> ThreadRecords] /\ th2[t] = n /\ \A u \in Threads \ {t} : th2[u] = th[u]
    BY DEF Upd
  <1>2. o # None /\ None \notin Objects
    BY DefaultPagerAssumption
  <1> HIDE DEF th2
  <1>3. \A x \in Objects \ {o} : CrewOf(th2, x) = CrewOf(th, x)
    <2> SUFFICES ASSUME NEW x \in Objects \ {o}
                 PROVE  CrewOf(th2, x) = CrewOf(th, x)
      OBVIOUS
    <2>1. \A u \in Threads : th2[u].o = x <=> th[u].o = x
      BY <1>1, <1>2
    <2>2. {u \in Threads : th2[u].o = x} = {u \in Threads : th[u].o = x}
      BY <2>1
    <2>3. \A u \in {v \in Threads : th[v].o = x} : th2[u] = th[u]
      BY <1>1, <1>2
    <2> QED BY <2>2, <2>3 DEF CrewOf
  <1>4. CASE n.o = None
    <2>1. {u \in Threads : th2[u].o = o} = {u \in Threads : th[u].o = o} \ {t}
      BY <1>1, <1>2, <1>4
    <2> DEFINE S == {u \in Threads : th[u].o = o}
    <2>2. DOMAIN CrewOf(th, o) = S /\ \A u \in S : CrewOf(th, o)[u] = th[u]
      BY DEF CrewOf
    <2>3. CrewOf(th2, o) = [u \in S \ {t} |-> th2[u]]
      BY <2>1 DEF CrewOf
    <2>4. \A u \in S \ {t} : th2[u] = CrewOf(th, o)[u]
      BY <1>1, <2>2
    <2> HIDE DEF S
    <2>5. Drop(CrewOf(th, o), t) = [u \in S \ {t} |-> CrewOf(th, o)[u]]
      BY <2>2 DEF Drop
    <2> QED BY <1>1, <1>3, <1>4, <2>3, <2>4, <2>5 DEF th2, Changed
  <1>5. CASE n.o = o
    <2>1. {u \in Threads : th2[u].o = o} = {u \in Threads : th[u].o = o} \cup {t}
      BY <1>1, <1>2, <1>5
    <2> DEFINE S == {u \in Threads : th[u].o = o}
    <2>2. DOMAIN CrewOf(th, o) = S /\ \A u \in S : CrewOf(th, o)[u] = th[u]
      BY DEF CrewOf
    <2>3. CrewOf(th2, o) = [u \in S \cup {t} |-> th2[u]]
      BY <2>1 DEF CrewOf
    <2>4. \A u \in S \cup {t} : th2[u] = IF u = t THEN n ELSE CrewOf(th, o)[u]
      BY <1>1, <2>2
    <2> HIDE DEF S
    <2>5. Put(CrewOf(th, o), t, n)
            = [u \in S \cup {t} |-> IF u = t THEN n ELSE CrewOf(th, o)[u]]
      BY <2>2 DEF Put
    <2>6. CrewOf(th2, o) = Put(CrewOf(th, o), t, n)
      <3> DEFINE P == Put(CrewOf(th, o), t, n)
                 C == CrewOf(th2, o)
                 f(u) == IF u = t THEN n ELSE CrewOf(th, o)[u]
      <3>1. C = [u \in S \cup {t} |-> th2[u]] /\ P = [u \in S \cup {t} |-> f(u)]
        BY <2>3, <2>5
      <3>2. \A u \in S \cup {t} : th2[u] = f(u)
        BY <2>4
      <3> HIDE DEF P, C, f
      <3>3. C = P
        BY <3>1, <3>2
      <3> QED BY <3>3 DEF P, C
    <2>7. n.o # None
      BY <1>2, <1>5
    <2> QED BY <1>1, <1>3, <2>6, <2>7 DEF th2, Changed
  <1> QED BY <1>4, <1>5

LEMMA PendingIs ==
    ASSUME NEW c \in Crews
    PROVE  /\ Pending(c) \subseteq DOMAIN c /\ IsFiniteSet(Pending(c))
           /\ Cardinality(Pending(c)) \in Nat
           /\ Cardinality(Pending(c)) <= SeqnoModulus
           /\ \A t \in Pending(c) : c[t].m \in Messages
           /\ \A t \in DOMAIN c : t \in Pending(c) <=> c[t].pc \in {"lock"} \cup Turns
  <1>1. Pending(c) \subseteq DOMAIN c /\ DOMAIN c \subseteq Threads
    BY CrewIs DEF Pending
  <1>2. IsFiniteSet(Pending(c)) /\ Cardinality(Pending(c)) <= Cardinality(Threads)
    BY <1>1, ModulusIs, FS_Subset
  <1>3. Cardinality(Pending(c)) \in Nat
    BY <1>2, FS_CardinalityType
  <1>4. \A t \in Pending(c) : c[t].m \in Messages
    BY CrewIs, ThreadIs DEF Pending
  <1> QED BY <1>1, <1>2, <1>3, <1>4, ModulusIs DEF Pending

LEMMA PlaceIs ==
    ASSUME NEW c \in Crews, NEW n \in Seqnos, NEW t \in DOMAIN c
    PROVE  Place(c, n, t) \in Nat
  <1>1. c[t].seqno \in Seqnos
    BY CrewIs, ThreadIs
  <1> QED BY <1>1, AfterIs, ModulusIs DEF Place

\* Lines are sets of pairs of a place and a message.
Lines == SUBSET (Nat \X Messages)

\* The ways into a line.
InThread(c, n, x) == \E t \in Pending(c) : x = <<Place(c, n, t), c[t].m>>
InQueue(c, q, x) == \E i \in 1..Len(q) : x = <<Cardinality(Pending(c)) + i - 1, q[i]>>

LEMMA LineIs ==
    ASSUME NEW c \in Crews, NEW n \in Seqnos, NEW q \in Seq(Messages)
    PROVE  /\ Line(c, n, q) \in Lines
           /\ \A t \in Pending(c) : <<Place(c, n, t), c[t].m>> \in Line(c, n, q)
           /\ \A i \in 1..Len(q) : <<Cardinality(Pending(c)) + i - 1, q[i]>> \in Line(c, n, q)
           /\ \A x \in Line(c, n, q) : InThread(c, n, x) \/ InQueue(c, q, x)
  <1> DEFINE w == Cardinality(Pending(c))
  <1>1. w \in Nat
    BY PendingIs
  <1>2. \A t \in Pending(c) : Place(c, n, t) \in Nat /\ c[t].m \in Messages
    BY PendingIs, PlaceIs
  <1>3. \A i \in 1..Len(q) : q[i] \in Messages /\ DOMAIN q = 1..Len(q) /\ Len(q) \in Nat
    OBVIOUS
  <1>4. DOMAIN q = 1..Len(q) /\ Len(q) \in Nat
    OBVIOUS
  <1> HIDE DEF w
  <1>5. \A i \in 1..Len(q) : w + i - 1 \in Nat
    BY <1>1, <1>4
  <1>6. Line(c, n, q) = {<<Place(c, n, t), c[t].m>> : t \in Pending(c)}
                          \cup {<<w + i - 1, q[i]>> : i \in 1..Len(q)}
    BY <1>4 DEF Line, w
  <1>7. Line(c, n, q) \subseteq Nat \X Messages
    BY <1>2, <1>3, <1>5, <1>6
  <1> QED BY <1>6, <1>7 DEF Lines, w, InThread, InQueue

LEMMA SameLine ==
    ASSUME NEW c \in Crews, NEW c2 \in Crews, NEW q \in Seq(Messages),
           NEW d \in Dstructs, NEW d2 \in Dstructs, NEW r \in Seqnos,
           TurnsAgree(c, d, r), d2.seqno = d.seqno, d2.deleted = d.deleted,
           Pending(c2) = Pending(c),
           \A u \in Pending(c) : Place(c2, d.seqno, u) = Place(c, d.seqno, u) /\ c2[u].m = c[u].m
    PROVE  TurnsAgree(c2, d2, r) /\ Line(c2, d2.seqno, q) = Line(c, d.seqno, q)
  <1> DEFINE n == d.seqno
             w == Cardinality(Pending(c))
  <1>1. TurnsAgree(c2, d2, r)
    BY DEF TurnsAgree
  <1>2. {<<Place(c2, n, u), c2[u].m>> : u \in Pending(c2)}
          = {<<Place(c, n, u), c[u].m>> : u \in Pending(c)}
    OBVIOUS
  <1>3. {<<Cardinality(Pending(c2)) + i - 1, q[i]>> : i \in DOMAIN q}
          = {<<Cardinality(Pending(c)) + i - 1, q[i]>> : i \in DOMAIN q}
    OBVIOUS
  <1> QED BY <1>1, <1>2, <1>3 DEF Line

\* A thread that does not have a message to serve, before and after a step.
LEMMA OutOfLine ==
    ASSUME NEW c \in Crews, NEW t \in Threads, NEW n \in ThreadRecords, NEW c2 \in Crews,
           c2 \in {Put(c, t, n), Drop(c, t)},
           t \in DOMAIN c => c[t].pc \notin {"lock"} \cup Turns,
           n.pc \notin {"lock"} \cup Turns,
           NEW q \in Seq(Messages), NEW d \in Dstructs, NEW d2 \in Dstructs, NEW r \in Seqnos,
           TurnsAgree(c, d, r), d2.seqno = d.seqno, d2.deleted = d.deleted
    PROVE  TurnsAgree(c2, d2, r) /\ Line(c2, d2.seqno, q) = Line(c, d.seqno, q)
  <1>1. /\ \A u : u \in DOMAIN c /\ u # t => u \in DOMAIN c2
        /\ \A u : u \in DOMAIN c2 => u \in DOMAIN c \/ u = t
        /\ t \in DOMAIN c2 => c2[t] = n
        /\ \A u \in DOMAIN c \ {t} : c2[u] = c[u]
    <2>1. CASE c2 = Put(c, t, n)
      BY <2>1, PutIs
    <2>2. CASE c2 = Drop(c, t)
      BY <2>2, DropIs
    <2> QED BY <2>1, <2>2
  <1>2. \A u \in DOMAIN c2 \ {t} : u \in DOMAIN c
    BY <1>1
  <1>3. Pending(c2) = Pending(c)
    BY <1>1, <1>2 DEF Pending
  <1>4. \A u \in Pending(c) : c2[u] = c[u]
    BY <1>1, <1>3 DEF Pending
  <1>5. \A u \in Pending(c) : Place(c2, d.seqno, u) = Place(c, d.seqno, u)
    BY <1>4 DEF Place
  <1> QED BY <1>3, <1>4, <1>5, SameLine

\* A thread whose turn it is, and which keeps it.
LEMMA KeepsTurn ==
    ASSUME NEW c \in Crews, NEW t \in Pending(c), NEW n \in ThreadRecords,
           NEW q \in Seq(Messages), NEW d \in Dstructs, NEW r \in Seqnos,
           TurnsAgree(c, d, r), Place(c, d.seqno, t) = 0, n.pc \in Turns, n.m = c[t].m
    PROVE  /\ TurnsAgree(Put(c, t, n), d, r)
           /\ Line(Put(c, t, n), d.seqno, q) = Line(c, d.seqno, q)
  <1> DEFINE c2 == Put(c, t, n)
  <1>1. t \in Threads /\ t \in DOMAIN c
    BY CrewIs, PendingIs
  <1> HIDE DEF c2
  <1>2. /\ c2 \in Crews /\ \A u : u \in DOMAIN c2 <=> u \in DOMAIN c
        /\ c2[t] = n /\ \A u \in DOMAIN c \ {t} : c2[u] = c[u]
    BY <1>1, PutIs DEF c2
  <1>3. n.pc # "lock"
    BY PCsAre
  <1>4. Pending(c2) = Pending(c)
    BY <1>1, <1>2 DEF Pending
  <1>5. \A u \in Pending(c) : Place(c2, d.seqno, u) = Place(c, d.seqno, u) /\ c2[u].m = c[u].m
    BY <1>2, <1>3 DEF Place, Pending
  <1>6. TurnsAgree(c2, d, r) /\ Line(c2, d.seqno, q) = Line(c, d.seqno, q)
    BY <1>2, <1>4, <1>5, SameLine
  <1> QED BY <1>6 DEF c2

Shift(L) == {<<x[1] - 1, x[2]>> : x \in {y \in L : y[1] > 0}}

LEMMA ShiftIs ==
    ASSUME NEW L \in Lines
    PROVE  /\ Shift(L) \in Lines
           /\ \A x \in L : x[1] > 0 => <<x[1] - 1, x[2]>> \in Shift(L)
           /\ \A y \in Shift(L) : \E x \in L : x[1] > 0 /\ y = <<x[1] - 1, x[2]>>
  <1>1. \A x \in L : x[1] \in Nat /\ x[2] \in Messages
    BY DEF Lines
  <1>2. \A x \in L : x[1] > 0 => x[1] - 1 \in Nat
    BY <1>1
  <1> QED BY <1>1, <1>2 DEF Shift, Lines

\* pager_port_unlock: the next message may be served.
LEMMA NextTurn ==
    ASSUME NEW c \in Crews, NEW t \in Pending(c), NEW c2 \in Crews,
           Pending(c2) = Pending(c) \ {t}, \A u \in Pending(c) \ {t} : c2[u] = c[u],
           NEW q \in Seq(Messages), NEW d \in Dstructs, NEW d2 \in Dstructs, NEW r \in Seqnos,
           TurnsAgree(c, d, r), Place(c, d.seqno, t) = 0,
           d2.seqno = Succ(d.seqno), d2.deleted = d.deleted
    PROVE  TurnsAgree(c2, d2, r) /\ Line(c2, d2.seqno, q) = Shift(Line(c, d.seqno, q))
  <1> DEFINE s == d.seqno
             s2 == d2.seqno
             w == Cardinality(Pending(c))
             w2 == Cardinality(Pending(c2))
             L == Line(c, s, q)
  <1>1. s \in Seqnos /\ s2 \in Seqnos /\ s2 = Succ(s)
    BY DEF Dstructs
  <1>2. w \in Nat /\ w2 \in Nat /\ w = w2 + 1 /\ w <= SeqnoModulus /\ SeqnoModulus \in Nat \ {0}
    <2>1. IsFiniteSet(Pending(c)) /\ w \in Nat /\ w2 \in Nat /\ w <= SeqnoModulus
      BY PendingIs
    <2>2. w2 = w - 1
      BY <2>1, FS_RemoveElement
    <2> QED BY <2>1, <2>2, ModulusIs
  <1>3. \A u \in Pending(c) \ {t} :
          /\ c[u].pc = "lock" /\ Place(c, s, u) = After(s, c[u].seqno)
          /\ Place(c, s, u) \in Nat /\ Place(c, s, u) > 0 /\ Place(c, s, u) < w
          /\ Place(c2, s2, u) = Place(c, s, u) - 1
    <2> SUFFICES ASSUME NEW u \in Pending(c) \ {t}
                 PROVE  /\ c[u].pc = "lock" /\ Place(c, s, u) = After(s, c[u].seqno)
                        /\ Place(c, s, u) \in Nat /\ Place(c, s, u) > 0 /\ Place(c, s, u) < w
                        /\ Place(c2, s2, u) = Place(c, s, u) - 1
      OBVIOUS
    <2>1. Place(c, s, u) # 0 /\ Place(c, s, u) < w
      BY DEF TurnsAgree
    <2>2. c[u].pc = "lock" /\ Place(c, s, u) = After(s, c[u].seqno)
      BY <2>1 DEF Place
    <2>3. c[u].seqno \in Seqnos /\ u \in DOMAIN c
      BY CrewIs, ThreadIs, PendingIs
    <2>4. After(s, c[u].seqno) \in Nat /\ After(s2, c[u].seqno) = After(s, c[u].seqno) - 1
      <3> DEFINE b == c[u].seqno
      <3>1. b \in Seqnos /\ After(s, b) # 0
        BY <2>1, <2>2, <2>3
      <3> HIDE DEF b, s, s2
      <3>2. After(s, b) \in Nat /\ After(s2, b) = After(s, b) - 1
        BY <1>1, <3>1, AfterIs
      <3> QED BY <3>2 DEF b
    <2>5. c2[u] = c[u]
      OBVIOUS
    <2>6. Place(c2, s2, u) = After(s2, c[u].seqno)
      BY <2>2, <2>5 DEF Place
    <2> QED BY <2>1, <2>2, <2>4, <2>6
  <1>4. ~d2.deleted => After(s2, r) \in {w2, w2 - SeqnoModulus}
    <2>1. ~d2.deleted => After(s, r) \in {w, w - SeqnoModulus}
      BY DEF TurnsAgree
    <2>2. After(s, r) \in Nat /\ (After(s, r) = 0 <=> s = r)
          /\ (s # r => After(s2, r) = After(s, r) - 1)
          /\ (s = r => After(s2, r) = SeqnoModulus - 1)
      <3> HIDE DEF s, s2
      <3> QED BY <1>1, AfterIs
    <2> HIDE DEF w, w2, s, s2
    <2> QED BY <1>2, <2>1, <2>2
  <1>5. TurnsAgree(c2, d2, r)
    <2>1. \A u \in Pending(c2) : Place(c2, s2, u) < w2
      <3> HIDE DEF w, w2, s, s2
      <3> QED BY <1>2, <1>3
    <2>2. \A u, v \in Pending(c2) : Place(c2, s2, u) = Place(c2, s2, v) => u = v
      <3> SUFFICES ASSUME NEW u \in Pending(c2), NEW v \in Pending(c2),
                          Place(c2, s2, u) = Place(c2, s2, v)
                   PROVE  u = v
        OBVIOUS
      <3>1. Place(c, s, u) = Place(c, s, v)
        BY <1>3
      <3> QED BY <3>1 DEF TurnsAgree
    <2> QED BY <1>4, <2>1, <2>2 DEF TurnsAgree
  <1>6. ASSUME NEW x \in Line(c2, s2, q)
        PROVE  x \in Shift(L)
    <2>1. CASE InThread(c2, s2, x)
      <3>1. PICK u \in Pending(c2) : x = <<Place(c2, s2, u), c2[u].m>>
        BY <2>1 DEF InThread
      <3> DEFINE y == <<Place(c, s, u), c[u].m>>
      <3>2. y \in L
        BY <1>1, LineIs
      <3>3. x = <<y[1] - 1, y[2]>> /\ y[1] > 0
        BY <1>3, <3>1
      <3> HIDE DEF y
      <3> QED BY <3>2, <3>3 DEF Shift
    <2>2. CASE InQueue(c2, q, x)
      <3>1. PICK i \in 1..Len(q) : x = <<w2 + i - 1, q[i]>>
        BY <2>2 DEF InQueue
      <3> DEFINE y == <<w + i - 1, q[i]>>
      <3>2. y \in L
        BY <1>1, LineIs
      <3>3. x = <<y[1] - 1, y[2]>> /\ y[1] > 0
        <4> HIDE DEF w, w2
        <4> QED BY <1>2, <3>1
      <3> HIDE DEF y
      <3> QED BY <3>2, <3>3 DEF Shift
    <2> QED BY <1>1, <1>6, <2>1, <2>2, LineIs
  <1>7. ASSUME NEW y \in L, y[1] > 0
        PROVE  <<y[1] - 1, y[2]>> \in Line(c2, s2, q)
    <2>1. CASE InThread(c, s, y)
      <3>1. PICK u \in Pending(c) : y = <<Place(c, s, u), c[u].m>>
        BY <2>1 DEF InThread
      <3>2. u # t
        BY <1>7, <3>1
      <3>3. <<Place(c2, s2, u), c2[u].m>> \in Line(c2, s2, q)
        BY <1>1, <3>2, LineIs
      <3>4. Place(c2, s2, u) = y[1] - 1 /\ c2[u].m = y[2]
        BY <1>3, <3>1, <3>2
      <3> QED BY <3>3, <3>4
    <2>2. CASE InQueue(c, q, y)
      <3>1. PICK i \in 1..Len(q) : y = <<w + i - 1, q[i]>>
        BY <2>2 DEF InQueue
      <3>2. <<w2 + i - 1, q[i]>> \in Line(c2, s2, q)
        BY <1>1, LineIs
      <3>3. w2 + i - 1 = y[1] - 1 /\ q[i] = y[2]
        <4> HIDE DEF w, w2
        <4> QED BY <1>2, <3>1
      <3> QED BY <3>2, <3>3
    <2> QED BY <1>1, <2>1, <2>2, LineIs
  <1>8. Shift(L) \subseteq Line(c2, s2, q)
    BY <1>7 DEF Shift
  <1> QED BY <1>5, <1>6, <1>8

\* Receive: the first message of the queue goes to a thread.
LEMMA ReceiveKeepsLine ==
    ASSUME NEW c \in Crews, NEW t \in Threads, t \notin DOMAIN c, NEW n \in ThreadRecords,
           NEW c2, c2 = Put(c, t, n),
           NEW q \in Seq(Messages), q # <<>>, NEW d \in Dstructs, NEW r \in Seqnos,
           TurnsAgree(c, d, r), ~d.deleted, n.pc = "lock", n.m = Head(q), n.seqno = r
    PROVE  TurnsAgree(c2, d, Succ(r)) /\ Line(c2, d.seqno, Tail(q)) = Line(c, d.seqno, q)
  <1> DEFINE s == d.seqno
             w == Cardinality(Pending(c))
             w2 == Cardinality(Pending(c2))
  <1>1. s \in Seqnos
    BY DEF Dstructs
  <1>2. /\ c2 \in Crews /\ c2[t] = n /\ \A u \in DOMAIN c : c2[u] = c[u]
        /\ \A u : u \in DOMAIN c2 <=> u \in DOMAIN c \/ u = t
    BY PutIs
  <1>3. Pending(c2) = Pending(c) \cup {t} /\ t \notin Pending(c)
    BY <1>2 DEF Pending
  <1>4. w \in Nat /\ w2 = w + 1 /\ w < SeqnoModulus /\ SeqnoModulus \in Nat \ {0}
    <2>1. IsFiniteSet(Pending(c)) /\ w \in Nat /\ w2 <= SeqnoModulus
      BY <1>2, PendingIs
    <2>2. w2 = w + 1
      BY <1>3, <2>1, FS_AddElement
    <2> QED BY <2>1, <2>2, ModulusIs
  <1>5. After(s, r) = w /\ After(s, Succ(r)) \in {w2, w2 - SeqnoModulus}
    <2>1. After(s, r) \in {w, w - SeqnoModulus}
      BY DEF TurnsAgree
    <2>2. /\ After(s, r) \in Nat
          /\ After(s, Succ(r)) \in {After(s, r) + 1, After(s, r) + 1 - SeqnoModulus}
      <3> HIDE DEF s
      <3> QED BY <1>1, AfterIs
    <2> HIDE DEF w, w2, s
    <2> QED BY <1>4, <2>1, <2>2
  <1>6. \A u \in Pending(c) : Place(c2, s, u) = Place(c, s, u) /\ c2[u].m = c[u].m
    BY <1>2 DEF Place, Pending
  <1>7. Place(c2, s, t) = w /\ c2[t].m = Head(q)
    BY <1>2, <1>5 DEF Place
  <1>8. \A u \in Pending(c) : Place(c, s, u) < w /\ Place(c, s, u) \in Nat
    BY <1>1, PlaceIs, PendingIs DEF TurnsAgree
  <1>9. TurnsAgree(c2, d, Succ(r))
    <2>1. \A u \in Pending(c2) : Place(c2, s, u) < w2
      <3>1. \A u \in Pending(c) : Place(c2, s, u) < w2
        <4> HIDE DEF w, w2, s
        <4> QED BY <1>4, <1>6, <1>8
      <3>2. Place(c2, s, t) < w2
        <4> HIDE DEF w, w2, s
        <4> QED BY <1>4, <1>7
      <3> QED BY <1>3, <3>1, <3>2
    <2>2. \A u, v \in Pending(c2) : Place(c2, s, u) = Place(c2, s, v) => u = v
      <3>1. \A u \in Pending(c) : Place(c2, s, u) # Place(c2, s, t)
        <4> HIDE DEF w, w2, s
        <4> QED BY <1>4, <1>6, <1>7, <1>8
      <3>2. \A u, v \in Pending(c) : Place(c2, s, u) = Place(c2, s, v) => u = v
        BY <1>6 DEF TurnsAgree
      <3> QED BY <1>3, <3>1, <3>2
    <2> QED BY <1>5, <2>1, <2>2 DEF TurnsAgree
  <1>10. /\ Tail(q) \in Seq(Messages) /\ Len(q) \in Nat \ {0} /\ Len(Tail(q)) = Len(q) - 1
         /\ Head(q) = q[1] /\ \A i \in 1..Len(Tail(q)) : Tail(q)[i] = q[i + 1]
    OBVIOUS
  <1> DEFINE L == Line(c, s, q)
             q2 == Tail(q)
             L2 == Line(c2, s, q2)
  <1> HIDE DEF q2
  <1>11. ASSUME NEW x \in L
         PROVE  x \in L2
    <2>1. CASE InThread(c, s, x)
      <3>1. PICK u \in Pending(c) : x = <<Place(c, s, u), c[u].m>>
        BY <2>1 DEF InThread
      <3>2. <<Place(c2, s, u), c2[u].m>> \in L2
        BY <1>1, <1>2, <1>3, <1>10, LineIs DEF q2
      <3> QED BY <1>6, <3>1, <3>2
    <2>2. CASE InQueue(c, q, x)
      <3>1. PICK i \in 1..Len(q) : x = <<w + i - 1, q[i]>>
        BY <2>2 DEF InQueue
      <3>2. CASE i = 1
        <4>1. <<Place(c2, s, t), c2[t].m>> \in L2
          BY <1>1, <1>2, <1>3, <1>10, LineIs DEF q2
        <4>2. w + i - 1 = w /\ q[i] = Head(q)
          BY <1>4, <1>10, <3>2
        <4> QED BY <1>7, <3>1, <4>1, <4>2
      <3>3. CASE i # 1
        <4> DEFINE j == i - 1
        <4>1. j \in 1..Len(q2) /\ q2[j] = q[i]
          BY <1>10, <3>3 DEF q2
        <4>2. <<w2 + j - 1, q2[j]>> \in L2
          BY <1>1, <1>2, <1>10, <4>1, LineIs DEF q2
        <4>3. w2 + j - 1 = w + i - 1
          <5> HIDE DEF w, w2
          <5> QED BY <1>4
        <4> QED BY <3>1, <4>1, <4>2, <4>3
      <3> QED BY <3>2, <3>3
    <2> QED BY <1>1, <1>11, <2>1, <2>2, LineIs
  <1>12. ASSUME NEW x \in L2
         PROVE  x \in L
    <2>1. CASE InThread(c2, s, x)
      <3>1. PICK u \in Pending(c2) : x = <<Place(c2, s, u), c2[u].m>>
        BY <2>1 DEF InThread
      <3>2. CASE u = t
        <4>1. 1 \in 1..Len(q) /\ w + 1 - 1 = w
          BY <1>4, <1>10
        <4>2. <<w + 1 - 1, q[1]>> \in L
          BY <1>1, <4>1, LineIs
        <4> QED BY <1>7, <1>10, <3>1, <3>2, <4>1, <4>2
      <3>3. CASE u # t
        <4>1. u \in Pending(c)
          BY <1>3, <3>3
        <4>2. <<Place(c, s, u), c[u].m>> \in L
          BY <1>1, <4>1, LineIs
        <4> QED BY <1>6, <3>1, <4>1, <4>2
      <3> QED BY <3>2, <3>3
    <2>2. CASE InQueue(c2, q2, x)
      <3>1. PICK j \in 1..Len(q2) : x = <<w2 + j - 1, q2[j]>>
        BY <2>2 DEF InQueue
      <3>2. j + 1 \in 1..Len(q) /\ q2[j] = q[j + 1]
        BY <1>10 DEF q2
      <3>3. <<w + (j + 1) - 1, q[j + 1]>> \in L
        BY <1>1, <3>2, LineIs
      <3>4. w + (j + 1) - 1 = w2 + j - 1
        <4> HIDE DEF w, w2
        <4> QED BY <1>4
      <3> QED BY <3>1, <3>2, <3>3, <3>4
    <2> QED BY <1>1, <1>2, <1>10, <1>12, <2>1, <2>2, LineIs DEF q2
  <1> QED BY <1>9, <1>11, <1>12 DEF q2

\* Send: the message is the last of the line.
LEMMA SendIs ==
    ASSUME NEW c \in Crews, NEW q \in Seq(Messages), NEW d \in Dstructs, NEW r,
           TurnsAgree(c, d, r), NEW m \in Messages
    PROVE  \E e \in Nat :
              /\ Line(c, d.seqno, Append(q, m)) = Line(c, d.seqno, q) \cup {<<e, m>>}
              /\ \A x \in Line(c, d.seqno, q) : x[1] < e
  <1> DEFINE s == d.seqno
             w == Cardinality(Pending(c))
             e == w + Len(q)
             q2 == Append(q, m)
             L == Line(c, s, q)
             L2 == Line(c, s, q2)
  <1>1. s \in Seqnos
    BY DEF Dstructs
  <1>2. w \in Nat /\ Len(q) \in Nat /\ e \in Nat
    BY PendingIs
  <1>3. /\ q2 \in Seq(Messages) /\ Len(q2) = Len(q) + 1 /\ q2[Len(q) + 1] = m
        /\ \A i \in 1..Len(q) : q2[i] = q[i]
    OBVIOUS
  <1>4. \A u \in Pending(c) : Place(c, s, u) < w /\ Place(c, s, u) \in Nat
    BY <1>1, PlaceIs, PendingIs DEF TurnsAgree
  <1> HIDE DEF q2
  <1>5. ASSUME NEW x \in L
        PROVE  x \in L2 /\ x[1] < e
    <2>1. CASE InThread(c, s, x)
      <3>1. PICK u \in Pending(c) : x = <<Place(c, s, u), c[u].m>>
        BY <2>1 DEF InThread
      <3>2. <<Place(c, s, u), c[u].m>> \in L2
        BY <1>1, <1>3, LineIs
      <3>3. Place(c, s, u) < e
        <4> HIDE DEF w, s
        <4> QED BY <1>2, <1>4
      <3> QED BY <3>1, <3>2, <3>3
    <2>2. CASE InQueue(c, q, x)
      <3>1. PICK i \in 1..Len(q) : x = <<w + i - 1, q[i]>>
        BY <2>2 DEF InQueue
      <3>2. i \in 1..Len(q2) /\ q2[i] = q[i]
        BY <1>2, <1>3
      <3>3. <<w + i - 1, q2[i]>> \in L2
        BY <1>1, <1>3, <3>2, LineIs
      <3>4. w + i - 1 < e
        <4> HIDE DEF w
        <4> QED BY <1>2
      <3> QED BY <3>1, <3>2, <3>3, <3>4
    <2> QED BY <1>1, <1>5, <2>1, <2>2, LineIs
  <1>6. <<e, m>> \in L2
    <2> DEFINE i == Len(q) + 1
    <2>1. i \in 1..Len(q2) /\ q2[i] = m /\ w + i - 1 = e
      <3> HIDE DEF w
      <3> QED BY <1>2, <1>3
    <2> HIDE DEF i, e
    <2>2. <<w + i - 1, q2[i]>> \in L2
      BY <1>1, <1>3, <2>1, LineIs
    <2> QED BY <2>1, <2>2
  <1>7. ASSUME NEW x \in L2
        PROVE  x \in L \cup {<<e, m>>}
    <2>1. CASE InThread(c, s, x)
      <3>1. PICK u \in Pending(c) : x = <<Place(c, s, u), c[u].m>>
        BY <2>1 DEF InThread
      <3>2. <<Place(c, s, u), c[u].m>> \in L
        BY <1>1, LineIs
      <3> QED BY <3>1, <3>2
    <2>2. CASE InQueue(c, q2, x)
      <3>1. PICK i \in 1..Len(q2) : x = <<w + i - 1, q2[i]>>
        BY <2>2 DEF InQueue
      <3>2. CASE i \in 1..Len(q)
        <4>1. <<w + i - 1, q[i]>> \in L
          BY <1>1, <3>2, LineIs
        <4> QED BY <1>3, <3>1, <3>2, <4>1
      <3>3. CASE i \notin 1..Len(q)
        <4>1. i = Len(q) + 1 /\ w + i - 1 = e
          <5> HIDE DEF w
          <5> QED BY <1>2, <1>3, <3>3
        <4> QED BY <1>3, <3>1, <4>1
      <3> QED BY <3>2, <3>3
    <2> QED BY <1>1, <1>3, <1>7, <2>1, <2>2, LineIs
  <1>8. L2 = L \cup {<<e, m>>} /\ \A x \in L : x[1] < e
    BY <1>5, <1>6, <1>7
  <1> QED BY <1>2, <1>8 DEF q2

-----------------------------------------------------------------------------
(* What is served, and what is left of the line                            *)

LEMMA LineElements ==
    ASSUME NEW L \in Lines, NEW x \in L
    PROVE  /\ x[1] \in Nat /\ x[2] \in Messages /\ x = <<x[1], x[2]>>
           /\ x[2].life \in Nat /\ x[2].op \in Ops
  <1>1. x \in Nat \X Messages
    BY DEF Lines
  <1> QED BY <1>1, MessageIs

LEMMA DstructIs ==
    ASSUME NEW d \in Dstructs
    PROVE  /\ d.seqno \in Seqnos /\ d.readers \in Nat /\ d.writers \in Nat
           /\ d.errors \in BOOLEAN /\ d.request \in BOOLEAN /\ d.deleted \in BOOLEAN
           /\ d.name_refs \in Nat /\ d.map \in [Pages -> Blocks \cup {None}]
  BY DEF Dstructs

LEMMA KernelIs ==
    ASSUME NEW k \in KernelObjects
    PROVE  /\ k.active \in BOOLEAN /\ k.senders \in BOOLEAN /\ k.internal \in BOOLEAN
           /\ k.ready \in BOOLEAN /\ k.life \in Nat /\ k.dirty \in SUBSET Pages
           /\ k.unwritten \in SUBSET Pages
           /\ k.memory \in [Pages -> Values \cup {Out, Wanted}]
  BY DEF KernelObjects

\* The message whose turn it is belongs to the present life of the object.
LEMMA FirstIs ==
    ASSUME NEW L \in Lines, NEW s \in Nat, NEW d \in Dstructs, NEW k \in KernelObjects,
           LineAgrees(L, s, d, k), s <= k.life, NEW m, <<0, m>> \in L
    PROVE  /\ m.op \in PageOps \cup {"terminate"} => m.life = s /\ d.request
           /\ m.op = "init" => m.life = s + 1 /\ m.life <= k.life /\ ~d.request
           /\ m.op = "no_senders" => L = {<<0, m>>} /\ ~d.request /\ ~k.senders
           /\ ~d.deleted
  <1> DEFINE x == <<0, m>>
  <1>1. InOrder(L) /\ Current(L, s, d, k) /\ Complete(L, s, d, k) /\ k.life \in Nat
    BY KernelIs DEF LineAgrees
  <1>2. \A y \in L : y # x => y[1] > 0 /\ Precedes(m, y[2])
    <2> SUFFICES ASSUME NEW y \in L, y # x
                 PROVE  y[1] > 0 /\ Precedes(m, y[2])
      OBVIOUS
    <2>1. y[1] \in Nat /\ x[1] = 0 /\ x[2] = m
      BY LineElements
    <2>2. y[1] # 0
      BY <1>1, <2>1 DEF InOrder
    <2>3. x[1] < y[1]
      BY <2>1, <2>2
    <2>4. Precedes(x[2], y[2])
      BY <1>1, <2>3 DEF InOrder
    <2> QED BY <2>1, <2>3, <2>4
  <1>3. x \in L /\ x[2] = m /\ m.life \in Nat /\ m.op \in Ops
    BY LineElements
  <1>4. \A y \in L : y[2].life \in Nat
    BY LineElements
  <1>5. ~d.deleted
    BY <1>1 DEF Complete, Has
  <1>6. /\ m.life <= k.life
        /\ m.op = "init" => s < m.life
        /\ m.op \in PageOps \cup {"terminate"} => s < m.life \/ (s = m.life /\ d.request)
        /\ m.op = "no_senders" => ~k.senders
    BY <1>1, <1>3 DEF Current
  <1> HIDE DEF x
  <1>7. ASSUME m.op # "init", s < k.life
        PROVE  m.op # "no_senders" /\ m.life <= s
    <2>1. s + 1 \in (s + 1)..k.life
      BY <1>1, <1>7
    <2>2. PICK y \in L : y[2].op = "init" /\ y[2].life = s + 1
      BY <1>1, <2>1 DEF Complete, Has
    <2>3. y # x
      BY <1>3, <1>7, <2>2
    <2>4. Precedes(m, y[2])
      BY <1>2, <2>3
    <2> QED BY <1>3, <2>2, <2>4 DEF Precedes
  <1>8. ASSUME d.request, s < k.life \/ ~k.active
        PROVE  m.op \notin {"init", "no_senders"}
    <2>1. s \in 1..k.life
      BY <1>1, <1>8 DEF Complete, Has
    <2>2. PICK y \in L : y[2].op = "terminate" /\ y[2].life = s
      BY <1>1, <1>8, <2>1 DEF Complete, Has
    <2>3. CASE y = x
      BY <1>3, <2>2, <2>3
    <2>4. CASE y # x
      <3>1. Precedes(m, y[2])
        BY <1>2, <2>4
      <3> QED BY <1>3, <1>6, <2>2, <3>1 DEF Precedes
    <2> QED BY <2>3, <2>4
  <1>9. ASSUME m.op \in PageOps \cup {"terminate"}
        PROVE  m.life = s /\ d.request
    <2>1. m.op # "init"
      BY <1>9 DEF PageOps
    <2> QED BY <1>1, <1>3, <1>6, <1>7, <1>9, <2>1
  <1>10. ASSUME m.op = "init"
         PROVE  m.life = s + 1 /\ ~d.request
    <2>1. s < k.life
      BY <1>1, <1>3, <1>6, <1>10
    <2>2. PICK y \in L : y[2].op = "init" /\ y[2].life = s + 1
      BY <1>1, <2>1 DEF Complete, Has
    <2>3. y = x
      <3>1. SUFFICES ASSUME y # x PROVE FALSE
        OBVIOUS
      <3>2. Precedes(m, y[2])
        BY <1>2, <3>1
      <3> QED BY <1>3, <1>6, <1>10, <2>2, <3>2 DEF Precedes
    <2> QED BY <1>3, <1>8, <1>10, <2>1, <2>2, <2>3
  <1>11. ASSUME m.op = "no_senders"
         PROVE  L = {x} /\ ~d.request
    <2>1. \A y \in L : y = x
      BY <1>2, <1>11 DEF Precedes
    <2>2. ~k.active
      BY <1>1, <1>6, <1>11 DEF Complete, Has
    <2> QED BY <1>3, <1>8, <1>11, <2>1, <2>2
  <1> QED BY <1>5, <1>6, <1>9, <1>10, <1>11 DEF x

LEMMA ShiftInOrder ==
    ASSUME NEW L \in Lines, InOrder(L)
    PROVE  InOrder(Shift(L))
  <1> SUFFICES ASSUME NEW x \in Shift(L), NEW y \in Shift(L)
               PROVE  (x[1] = y[1] => x = y) /\ (x[1] < y[1] => Precedes(x[2], y[2]))
    BY DEF InOrder
  <1>1. PICK a \in L : x = <<a[1] - 1, a[2]>>
    BY ShiftIs
  <1>2. PICK b \in L : y = <<b[1] - 1, b[2]>>
    BY ShiftIs
  <1>3. a[1] \in Nat /\ b[1] \in Nat /\ a = <<a[1], a[2]>> /\ b = <<b[1], b[2]>>
    BY LineElements
  <1>4. (a[1] = b[1] => a = b) /\ (a[1] < b[1] => Precedes(a[2], b[2]))
    BY DEF InOrder
  <1> QED BY <1>1, <1>2, <1>3, <1>4

\* Everything but the first message is still there.
LEMMA ShiftHas ==
    ASSUME NEW L \in Lines, InOrder(L), NEW m, <<0, m>> \in L
    PROVE  /\ \A x \in L : x # <<0, m>> => \E y \in Shift(L) : y[2] = x[2]
           /\ \A y \in Shift(L) : \E x \in L : x # <<0, m>> /\ x[1] > 0 /\ y[2] = x[2]
                                              /\ Precedes(m, x[2])
  <1> DEFINE f == <<0, m>>
  <1>1. f[1] = 0 /\ f[2] = m /\ f \in L
    OBVIOUS
  <1> HIDE DEF f
  <1>2. ASSUME NEW x \in L, x # f
        PROVE  x[1] > 0 /\ Precedes(m, x[2])
    <2>1. x[1] \in Nat
      BY LineElements
    <2>2. x[1] # 0
      BY <1>1, <1>2 DEF InOrder
    <2>3. f[1] < x[1]
      BY <1>1, <2>1, <2>2
    <2> QED BY <1>1, <2>1, <2>2, <2>3 DEF InOrder
  <1>3. ASSUME NEW x \in L, x # f
        PROVE  \E y \in Shift(L) : y[2] = x[2]
    <2>1. x[1] > 0
      BY <1>2, <1>3
    <2>2. <<x[1] - 1, x[2]>> \in Shift(L)
      BY <2>1, ShiftIs
    <2> QED BY <2>2
  <1>4. ASSUME NEW y \in Shift(L)
        PROVE  \E x \in L : x # f /\ x[1] > 0 /\ y[2] = x[2] /\ Precedes(m, x[2])
    <2>1. PICK x \in L : x[1] > 0 /\ y = <<x[1] - 1, x[2]>>
      BY <1>4, ShiftIs
    <2>2. x # f
      BY <1>1, <2>1
    <2> QED BY <1>2, <2>1, <2>2
  <1> QED BY <1>3, <1>4 DEF f

\* Steps that change nothing that the messages are about.
SameStory(d, d2, k, k2) ==
    /\ d2.request = d.request /\ d2.deleted = d.deleted
    /\ k2.life = k.life /\ k2.active = k.active /\ k2.senders = k.senders
    /\ ~k.active => k2.memory = k.memory

LEMMA StoryStays ==
    ASSUME NEW L, NEW s, NEW d, NEW d2, NEW k, NEW k2,
           LineAgrees(L, s, d, k), SameStory(d, d2, k, k2)
    PROVE  LineAgrees(L, s, d2, k2)
  BY DEF LineAgrees, SameStory, Current, Complete

LEMMA AfterPageOp ==
    ASSUME NEW L \in Lines, NEW s \in Nat, NEW d \in Dstructs, NEW d2 \in Dstructs,
           NEW k \in KernelObjects, LineAgrees(L, s, d, k), s <= k.life,
           NEW m, <<0, m>> \in L, m.op \in PageOps,
           d2.request = d.request, d2.deleted = d.deleted
    PROVE  LineAgrees(Shift(L), s, d2, k)
  <1>1. InOrder(L) /\ Current(L, s, d, k) /\ Complete(L, s, d, k)
    BY DEF LineAgrees
  <1>2. ~d.deleted
    BY FirstIs
  <1>3. /\ \A x \in L : x # <<0, m>> => \E y \in Shift(L) : y[2] = x[2]
        /\ \A y \in Shift(L) : \E x \in L : y[2] = x[2]
    BY <1>1, ShiftHas
  <1>4. Current(Shift(L), s, d2, k)
    BY <1>1, <1>3 DEF Current
  <1>5. \A x \in L : x[2].op \in {"init", "terminate"} => x # <<0, m>>
    BY DEF PageOps
  <1>6. Complete(Shift(L), s, d2, k)
    <2>1. \A n \in (s + 1)..k.life : \E y \in Shift(L) : y[2].op = "init" /\ y[2].life = n
      BY <1>1, <1>3, <1>5 DEF Complete, Has
    <2>2. \A n \in 1..k.life :
             (n > s \/ (n = s /\ d2.request)) /\ (n < k.life \/ ~k.active)
                => \E y \in Shift(L) : y[2].op = "terminate" /\ y[2].life = n
      BY <1>1, <1>3, <1>5 DEF Complete, Has
    <2> QED BY <1>1, <1>2, <2>1, <2>2 DEF Complete, Has
  <1> QED BY <1>1, <1>4, <1>6, ShiftInOrder DEF LineAgrees

LEMMA AfterTerminate ==
    ASSUME NEW L \in Lines, NEW s \in Nat, NEW d \in Dstructs, NEW d2 \in Dstructs,
           NEW k \in KernelObjects, LineAgrees(L, s, d, k), s <= k.life,
           NEW m, <<0, m>> \in L, m.op = "terminate", ~d2.request, d2.deleted = d.deleted
    PROVE  LineAgrees(Shift(L), s, d2, k)
  <1>1. InOrder(L) /\ Current(L, s, d, k) /\ Complete(L, s, d, k) /\ k.life \in Nat
    BY KernelIs DEF LineAgrees
  <1>2. ~d.deleted /\ m.life = s /\ d.request
    BY FirstIs
  <1>3. /\ \A x \in L : x # <<0, m>> => \E y \in Shift(L) : y[2] = x[2]
        /\ \A y \in Shift(L) : \E x \in L : y[2] = x[2] /\ Precedes(m, x[2])
    BY <1>1, ShiftHas
  <1>4. Current(Shift(L), s, d2, k)
    <2> SUFFICES ASSUME NEW y \in Shift(L)
                 PROVE  LET n == y[2] IN
                        /\ n.life <= k.life
                        /\ n.op = "init" => s < n.life
                        /\ n.op \in PageOps \cup {"terminate"} => s < n.life
                        /\ n.op = "terminate" /\ n.life = k.life => ~k.active
                        /\ n.op = "no_senders" => ~k.senders
      BY DEF Current
    <2>1. PICK x \in L : y[2] = x[2] /\ Precedes(m, x[2])
      BY <1>3
    <2>2. x[2].op \in PageOps \cup {"terminate"} => s < x[2].life
      BY <1>2, <2>1 DEF Precedes, PageOps
    <2> QED BY <1>1, <2>1, <2>2 DEF Current
  <1>5. \A x \in L : x[2].op = "init" \/ x[2].life # s => x # <<0, m>>
    BY <1>2
  <1>6. Complete(Shift(L), s, d2, k)
    <2>1. \A n \in (s + 1)..k.life : \E y \in Shift(L) : y[2].op = "init" /\ y[2].life = n
      BY <1>1, <1>3, <1>5 DEF Complete, Has
    <2>2. \A n \in 1..k.life :
             (n > s \/ (n = s /\ d2.request)) /\ (n < k.life \/ ~k.active)
                => \E y \in Shift(L) : y[2].op = "terminate" /\ y[2].life = n
      <3> SUFFICES ASSUME NEW n \in 1..k.life, n > s, n < k.life \/ ~k.active
                   PROVE  \E y \in Shift(L) : y[2].op = "terminate" /\ y[2].life = n
        OBVIOUS
      <3>1. PICK x \in L : x[2].op = "terminate" /\ x[2].life = n
        BY <1>1 DEF Complete, Has
      <3>2. x[2].life # s
        BY <3>1
      <3> QED BY <1>3, <1>5, <3>1, <3>2
    <2>3. k.active => s # k.life
      <3>1. m.life = k.life => ~k.active
        BY <1>1 DEF Current
      <3> QED BY <1>2, <3>1
    <2> QED BY <1>1, <1>2, <2>1, <2>2, <2>3 DEF Complete, Has
  <1> QED BY <1>1, <1>4, <1>6, ShiftInOrder DEF LineAgrees

LEMMA AfterInit ==
    ASSUME NEW L \in Lines, NEW s \in Nat, NEW d \in Dstructs, NEW d2 \in Dstructs,
           NEW k \in KernelObjects, NEW k2 \in KernelObjects, LineAgrees(L, s, d, k), s <= k.life,
           NEW m, <<0, m>> \in L, m.op = "init", d2.request, d2.deleted = d.deleted,
           k2.life = k.life, k2.active = k.active, k2.senders = k.senders, k2.memory = k.memory
    PROVE  s + 1 <= k.life /\ LineAgrees(Shift(L), s + 1, d2, k2)
  <1>1. InOrder(L) /\ Current(L, s, d, k) /\ Complete(L, s, d, k) /\ k.life \in Nat
    BY KernelIs DEF LineAgrees
  <1>2. ~d.deleted /\ m.life = s + 1 /\ m.life <= k.life /\ ~d.request
    BY FirstIs
  <1>3. /\ \A x \in L : x # <<0, m>> => \E y \in Shift(L) : y[2] = x[2]
        /\ \A y \in Shift(L) : \E x \in L : y[2] = x[2] /\ Precedes(m, x[2])
    BY <1>1, ShiftHas
  <1>4. Current(Shift(L), s + 1, d2, k2)
    <2> SUFFICES ASSUME NEW y \in Shift(L)
                 PROVE  LET n == y[2] IN
                        /\ n.life <= k.life
                        /\ n.op = "init" => s + 1 < n.life
                        /\ n.op \in PageOps \cup {"terminate"} => s + 1 < n.life \/ s + 1 = n.life
                        /\ n.op = "terminate" /\ n.life = k.life => ~k.active
                        /\ n.op = "no_senders" => ~k.senders
      BY DEF Current
    <2>1. PICK x \in L : y[2] = x[2] /\ Precedes(m, x[2])
      BY <1>3
    <2>2. x[2].life \in Nat
      BY LineElements
    <2>3. x[2].op # "no_senders" => s + 1 < x[2].life \/ (s + 1 = x[2].life /\ x[2].op # "init")
      BY <1>2, <2>1, <2>2 DEF Precedes
    <2> QED BY <1>1, <2>1, <2>3 DEF Current, PageOps
  <1>5. \A x \in L : x[2].op = "terminate" \/ x[2].life # s + 1 => x # <<0, m>>
    BY <1>2
  <1>6. Complete(Shift(L), s + 1, d2, k2)
    <2>1. \A n \in ((s + 1) + 1)..k.life : \E y \in Shift(L) : y[2].op = "init" /\ y[2].life = n
      <3> SUFFICES ASSUME NEW n \in ((s + 1) + 1)..k.life
                   PROVE  \E y \in Shift(L) : y[2].op = "init" /\ y[2].life = n
        OBVIOUS
      <3>1. n \in (s + 1)..k.life /\ n # s + 1
        BY <1>1
      <3>2. PICK x \in L : x[2].op = "init" /\ x[2].life = n
        BY <1>1, <3>1 DEF Complete, Has
      <3> QED BY <1>3, <1>5, <3>1, <3>2
    <2>2. \A n \in 1..k.life :
             (n > s + 1 \/ (n = s + 1 /\ d2.request)) /\ (n < k.life \/ ~k.active)
                => \E y \in Shift(L) : y[2].op = "terminate" /\ y[2].life = n
      <3> SUFFICES ASSUME NEW n \in 1..k.life, n > s, n < k.life \/ ~k.active
                   PROVE  \E y \in Shift(L) : y[2].op = "terminate" /\ y[2].life = n
        OBVIOUS
      <3>1. PICK x \in L : x[2].op = "terminate" /\ x[2].life = n
        BY <1>1 DEF Complete, Has
      <3> QED BY <1>3, <1>5, <3>1
    <2> QED BY <1>1, <1>2, <2>1, <2>2 DEF Complete, Has
  <1> QED BY <1>1, <1>2, <1>4, <1>6, ShiftInOrder DEF LineAgrees

LEMMA AfterNoSenders ==
    ASSUME NEW L \in Lines, NEW s \in Nat, NEW d \in Dstructs, NEW d2 \in Dstructs,
           NEW k \in KernelObjects, LineAgrees(L, s, d, k), s <= k.life,
           NEW m, <<0, m>> \in L, m.op = "no_senders", ~d2.request
    PROVE  L = {<<0, m>>} /\ LineAgrees({}, s, d2, k)
  <1>1. Complete(L, s, d, k) /\ k.life \in Nat
    BY KernelIs DEF LineAgrees
  <1>2. L = {<<0, m>>} /\ ~d.request /\ ~k.senders
    BY FirstIs
  <1>3. ~k.active
    BY <1>1, <1>2 DEF Complete, Has
  <1>4. s = k.life
    <2> SUFFICES ASSUME s # k.life
                 PROVE  FALSE
      OBVIOUS
    <2>1. s + 1 \in (s + 1)..k.life
      BY <1>1
    <2>2. PICK x \in L : x[2].op = "init"
      BY <1>1, <2>1 DEF Complete, Has
    <2> QED BY <1>2, <2>2
  <1>5. InOrder({}) /\ Current({}, s, d2, k)
    BY DEF InOrder, Current
  <1>6. Complete({}, s, d2, k)
    BY <1>1, <1>2, <1>3, <1>4 DEF Complete, Has
  <1> QED BY <1>2, <1>5, <1>6 DEF LineAgrees

-----------------------------------------------------------------------------
(* What the kernel sends comes last in the line                            *)

Sent(L, e, m) == L \cup {<<e, m>>}

LEMMA SentIs ==
    ASSUME NEW L \in Lines, NEW e \in Nat, NEW m \in Messages
    PROVE  /\ Sent(L, e, m) \in Lines
           /\ \A x \in L : x \in Sent(L, e, m)
           /\ \E x \in Sent(L, e, m) : x[2] = m
           /\ \A x \in Sent(L, e, m) : x \in L \/ x[2] = m
  <1> DEFINE f == <<e, m>>
  <1>1. f \in Nat \X Messages /\ f[2] = m
    OBVIOUS
  <1>2. Sent(L, e, m) = L \cup {f}
    BY DEF Sent
  <1> HIDE DEF f
  <1> QED BY <1>1, <1>2 DEF Lines

LEMMA SentHas ==
    ASSUME NEW L \in Lines, NEW e \in Nat, NEW m \in Messages
    PROVE  /\ \A op, n : Has(L, op, n) => Has(Sent(L, e, m), op, n)
           /\ Has(Sent(L, e, m), m.op, m.life)
  BY SentIs DEF Has

LEMMA SentInOrder ==
    ASSUME NEW L \in Lines, InOrder(L), NEW e \in Nat, NEW m \in Messages,
           \A x \in L : x[1] < e /\ Precedes(x[2], m)
    PROVE  InOrder(Sent(L, e, m))
  <1> DEFINE f == <<e, m>>
  <1>1. f[1] = e /\ f[2] = m /\ Sent(L, e, m) = L \cup {f}
    BY DEF Sent
  <1> HIDE DEF f
  <1> SUFFICES ASSUME NEW x \in L \cup {f}, NEW y \in L \cup {f}
               PROVE  (x[1] = y[1] => x = y) /\ (x[1] < y[1] => Precedes(x[2], y[2]))
    BY <1>1 DEF InOrder
  <1>2. \A z \in L : z[1] \in Nat /\ z[1] < e /\ Precedes(z[2], m)
    BY LineElements
  <1>3. CASE x \in L /\ y \in L
    BY <1>3 DEF InOrder
  <1>4. CASE x \in L /\ y = f
    BY <1>1, <1>2, <1>4
  <1>5. CASE x = f /\ y \in L
    BY <1>1, <1>2, <1>5
  <1>6. CASE x = f /\ y = f
    BY <1>1, <1>6
  <1> QED BY <1>3, <1>4, <1>5, <1>6

LEMMA SendPageOp ==
    ASSUME NEW L \in Lines, NEW s \in Nat, NEW d \in Dstructs, NEW k \in KernelObjects, NEW k2,
           LineAgrees(L, s, d, k), s <= k.life, SameStory(d, d, k, k2),
           NEW e \in Nat, \A x \in L : x[1] < e,
           NEW m \in Messages, m.op \in PageOps, m.life = k.life, k.active
    PROVE  LineAgrees(Sent(L, e, m), s, d, k2)
  <1>1. InOrder(L) /\ Current(L, s, d, k) /\ Complete(L, s, d, k) /\ k.life \in Nat
    BY KernelIs DEF LineAgrees
  <1>2. m.op \notin {"init", "terminate", "no_senders"}
    BY DEF PageOps
  <1>3. \A x \in L : Precedes(x[2], m)
    <2> SUFFICES ASSUME NEW x \in L
                 PROVE  Precedes(x[2], m)
      OBVIOUS
    <2>1. x[2].life \in Nat /\ x[2].life <= k.life /\ x[2].op # "no_senders"
          /\ (x[2].op = "terminate" => x[2].life # k.life)
      BY <1>1, LineElements DEF Current, Complete
    <2> QED BY <1>1, <1>2, <2>1 DEF Precedes
  <1>4. InOrder(Sent(L, e, m))
    BY <1>1, <1>3, SentInOrder
  <1>5. s < m.life \/ (s = m.life /\ d.request)
    BY <1>1 DEF Complete
  <1>6. Current(Sent(L, e, m), s, d, k2)
    BY <1>1, <1>2, <1>5, SentIs DEF Current, SameStory
  <1>7. Complete(Sent(L, e, m), s, d, k2)
    <2>1. ~d.deleted
      BY <1>1 DEF Complete
    <2> QED BY <1>1, <2>1, SentHas DEF Complete, SameStory
  <1> QED BY <1>4, <1>6, <1>7 DEF LineAgrees

LEMMA SendTerminate ==
    ASSUME NEW L \in Lines, NEW s \in Nat, NEW d \in Dstructs, NEW k \in KernelObjects,
           NEW k2 \in KernelObjects, LineAgrees(L, s, d, k), s <= k.life,
           NEW e \in Nat, \A x \in L : x[1] < e,
           NEW m \in Messages, m.op = "terminate", m.life = k.life, k.active,
           ~k2.active, k2.life = k.life, k2.senders = k.senders, k2.memory = [p \in Pages |-> Out]
    PROVE  LineAgrees(Sent(L, e, m), s, d, k2)
  <1>1. InOrder(L) /\ Current(L, s, d, k) /\ Complete(L, s, d, k) /\ k.life \in Nat
    BY KernelIs DEF LineAgrees
  <1>3. \A x \in L : Precedes(x[2], m)
    <2> SUFFICES ASSUME NEW x \in L
                 PROVE  Precedes(x[2], m)
      OBVIOUS
    <2>1. x[2].life \in Nat /\ x[2].life <= k.life /\ x[2].op # "no_senders"
          /\ (x[2].op = "terminate" => x[2].life # k.life)
      BY <1>1, LineElements DEF Current, Complete
    <2> QED BY <1>1, <2>1 DEF Precedes
  <1>4. InOrder(Sent(L, e, m))
    BY <1>1, <1>3, SentInOrder
  <1>5. s < m.life \/ (s = m.life /\ d.request)
    BY <1>1 DEF Complete
  <1>6. Current(Sent(L, e, m), s, d, k2)
    BY <1>1, <1>5, SentIs DEF Current
  <1>7. Complete(Sent(L, e, m), s, d, k2)
    <2>1. \A n \in (s + 1)..k2.life : Has(Sent(L, e, m), "init", n)
      BY <1>1, SentHas DEF Complete
    <2>2. \A n \in 1..k2.life : (n > s \/ (n = s /\ d.request))
             => Has(Sent(L, e, m), "terminate", n)
      <3> SUFFICES ASSUME NEW n \in 1..k2.life, n > s \/ (n = s /\ d.request)
                   PROVE  Has(Sent(L, e, m), "terminate", n)
        OBVIOUS
      <3>1. CASE n = k.life
        BY <3>1, SentHas
      <3>2. CASE n # k.life
        <4>1. n \in 1..k.life /\ n < k.life
          BY <1>1, <3>2
        <4>2. Has(L, "terminate", n)
          BY <1>1, <4>1 DEF Complete
        <4> QED BY <4>2, SentHas
      <3> QED BY <3>1, <3>2
    <2> QED BY <1>1, <2>1, <2>2 DEF Complete
  <1> QED BY <1>4, <1>6, <1>7 DEF LineAgrees

LEMMA SendInit ==
    ASSUME NEW L \in Lines, NEW s \in Nat, NEW d \in Dstructs, NEW k \in KernelObjects,
           NEW k2 \in KernelObjects, LineAgrees(L, s, d, k), s <= k.life,
           NEW e \in Nat, \A x \in L : x[1] < e,
           NEW m \in Messages, m.op = "init", m.life = k.life + 1, ~k.active, k.senders,
           k2.active, k2.life = k.life + 1, k2.senders, k2.memory = k.memory
    PROVE  LineAgrees(Sent(L, e, m), s, d, k2)
  <1>1. InOrder(L) /\ Current(L, s, d, k) /\ Complete(L, s, d, k) /\ k.life \in Nat
    BY KernelIs DEF LineAgrees
  <1>3. \A x \in L : Precedes(x[2], m) /\ x[2].op # "no_senders" /\ x[2].life <= k.life
                     /\ x[2].life \in Nat
    BY <1>1, LineElements DEF Precedes, Current
  <1>4. InOrder(Sent(L, e, m))
    BY <1>1, <1>3, SentInOrder
  <1>5. \A x \in L : x[2].life <= k2.life /\ x[2].life # k2.life
    BY <1>1, <1>3
  <1>6. Current(Sent(L, e, m), s, d, k2)
    <2>1. \A x \in L :
             /\ x[2].op = "init" => s < x[2].life
             /\ x[2].op \in PageOps \cup {"terminate"}
                   => s < x[2].life \/ (s = x[2].life /\ d.request)
      BY <1>1 DEF Current
    <2>2. s < m.life /\ m.op \notin PageOps \cup {"terminate"}
      BY <1>1 DEF PageOps
    <2>3. ASSUME NEW x \in Sent(L, e, m)
          PROVE  /\ x[2].life <= k2.life
                 /\ x[2].op = "init" => s < x[2].life
                 /\ x[2].op \in PageOps \cup {"terminate"}
                       => s < x[2].life \/ (s = x[2].life /\ d.request)
                 /\ ~(x[2].op = "terminate" /\ x[2].life = k2.life)
                 /\ x[2].op # "no_senders"
      <3>1. CASE x \in L
        <4>1. x[2].life <= k2.life /\ x[2].life # k2.life /\ x[2].op # "no_senders"
          BY <1>3, <1>5, <3>1
        <4>2. /\ x[2].op = "init" => s < x[2].life
              /\ x[2].op \in PageOps \cup {"terminate"}
                    => s < x[2].life \/ (s = x[2].life /\ d.request)
          BY <2>1, <3>1
        <4> QED BY <4>1, <4>2
      <3>2. CASE x \notin L
        <4>1. x[2] = m
          BY <3>2, SentIs
        <4>2. m.life <= k2.life
          BY <1>1
        <4> QED BY <2>2, <4>1, <4>2
      <3> QED BY <3>1, <3>2
    <2> QED BY <2>3 DEF Current
  <1>7. Complete(Sent(L, e, m), s, d, k2)
    <2>1. \A n \in (s + 1)..k2.life : Has(Sent(L, e, m), "init", n)
      <3> SUFFICES ASSUME NEW n \in (s + 1)..k2.life
                   PROVE  Has(Sent(L, e, m), "init", n)
        OBVIOUS
      <3>1. CASE n = k2.life
        BY <3>1, SentHas
      <3>2. CASE n # k2.life
        <4>1. n \in (s + 1)..k.life
          BY <1>1, <3>2
        <4>2. Has(L, "init", n)
          BY <1>1, <4>1 DEF Complete
        <4> QED BY <4>2, SentHas
      <3> QED BY <3>1, <3>2
    <2>2. \A n \in 1..k2.life : (n > s \/ (n = s /\ d.request)) /\ n < k2.life
             => Has(Sent(L, e, m), "terminate", n)
      <3> SUFFICES ASSUME NEW n \in 1..k2.life, n > s \/ (n = s /\ d.request), n < k2.life
                   PROVE  Has(Sent(L, e, m), "terminate", n)
        OBVIOUS
      <3>1. n \in 1..k.life
        BY <1>1
      <3>2. Has(L, "terminate", n)
        BY <1>1, <3>1 DEF Complete
      <3> QED BY <3>2, SentHas
    <2>3. s # k2.life /\ ~d.deleted /\ k2.life > 0
      BY <1>1 DEF Complete
    <2> QED BY <1>1, <2>1, <2>2, <2>3 DEF Complete
  <1> QED BY <1>4, <1>6, <1>7 DEF LineAgrees

LEMMA SendNoSenders ==
    ASSUME NEW L \in Lines, NEW s \in Nat, NEW d \in Dstructs, NEW k \in KernelObjects,
           NEW k2 \in KernelObjects, LineAgrees(L, s, d, k), s <= k.life,
           NEW e \in Nat, \A x \in L : x[1] < e,
           NEW m \in Messages, m.op = "no_senders", m.life = k.life, ~k.active, k.senders,
           ~k2.active, k2.life = k.life, ~k2.senders, k2.memory = k.memory
    PROVE  LineAgrees(Sent(L, e, m), s, d, k2)
  <1>1. InOrder(L) /\ Current(L, s, d, k) /\ Complete(L, s, d, k) /\ k.life \in Nat
    BY KernelIs DEF LineAgrees
  <1>3. \A x \in L : Precedes(x[2], m)
    BY <1>1 DEF Precedes, Current
  <1>4. InOrder(Sent(L, e, m))
    BY <1>1, <1>3, SentInOrder
  <1>6. Current(Sent(L, e, m), s, d, k2)
    BY <1>1, SentIs DEF Current, PageOps
  <1>7. Complete(Sent(L, e, m), s, d, k2)
    <2>1. ~d.deleted
      BY <1>1 DEF Complete
    <2> QED BY <1>1, <2>1, SentHas DEF Complete
  <1> QED BY <1>4, <1>6, <1>7 DEF LineAgrees

-----------------------------------------------------------------------------
(* One request for a page                                                  *)

\* The threads that serve a request that has had its turn, and how they
\* are when they answer.
Reads(c) == {t \in Reading(c) : c[t].pc \in Moving}

LEMMA ReadsAre ==
    ASSUME NEW c, NEW t
    PROVE  t \in Reads(c) <=> t \in DOMAIN c /\ c[t].m.op = "request" /\ c[t].pc \in Moving
  BY DEF Reads, Reading

LEMMA OneRequestIs ==
    ASSUME NEW c, NEW L, NEW k
    PROVE  OneRequest(c, L, k) <=>
             /\ \A x \in L : \A y \in L : Asked(x[2], y[2]) => x = y
             /\ \A t \in Reads(c) : \A x \in L : ~Asked(c[t].m, x[2])
             /\ \A t \in Reads(c) : \A u \in Reads(c) : Asked(c[t].m, c[u].m) => t = u
             /\ \A x \in L : Waited(x[2], k)
             /\ \A t \in Reads(c) : Waited(c[t].m, k)
  BY DEF OneRequest, Reads

\* No new request, and whoever waits still does.
LEMMA RequestsStay ==
    ASSUME NEW c, NEW c2, NEW L, NEW L2, NEW k, NEW k2, OneRequest(c, L, k),
           \A x \in L2 : x \in L \/ x[2].op # "request",
           \A u \in Reads(c2) : u \in Reads(c) /\ c2[u].m = c[u].m,
           \A x \in L : Waited(x[2], k) => Waited(x[2], k2),
           \A u \in Reads(c2) : Waited(c[u].m, k) => Waited(c[u].m, k2)
    PROVE  OneRequest(c2, L2, k2)
  <1>1. \A x \in L2 : \A y \in L2 : Asked(x[2], y[2]) => x = y
    BY OneRequestIs DEF Asked
  <1>2. \A t \in Reads(c2) : \A x \in L2 : ~Asked(c2[t].m, x[2])
    BY OneRequestIs DEF Asked
  <1>3. \A t \in Reads(c2) : \A u \in Reads(c2) : Asked(c2[t].m, c2[u].m) => t = u
    BY OneRequestIs
  <1>4. \A x \in L2 : Waited(x[2], k2)
    <2>1. \A x \in L2 : x[2].op # "request" => Waited(x[2], k2)
      BY DEF Waited
    <2> QED BY <2>1, OneRequestIs
  <1>5. \A t \in Reads(c2) : Waited(c2[t].m, k2)
    BY OneRequestIs
  <1> QED BY <1>1, <1>2, <1>3, <1>4, <1>5, OneRequestIs

LEMMA RequestsShift ==
    ASSUME NEW c, NEW c2, NEW L \in Lines, NEW k, NEW k2, OneRequest(c, L, k),
           \A u \in Reads(c2) : u \in Reads(c) /\ c2[u].m = c[u].m,
           k2.active = k.active, k2.life = k.life, k2.memory = k.memory
    PROVE  OneRequest(c2, Shift(L), k2)
  <1>1. \A x \in Shift(L) : \E a \in L : x = <<a[1] - 1, a[2]>>
    BY ShiftIs
  <1>2. ASSUME NEW x \in Shift(L), NEW y \in Shift(L), Asked(x[2], y[2])
        PROVE  x = y
    <2>1. PICK a \in L : x = <<a[1] - 1, a[2]>>
      BY <1>1
    <2>2. PICK b \in L : y = <<b[1] - 1, b[2]>>
      BY <1>1
    <2>3. a = b
      BY <1>2, <2>1, <2>2, OneRequestIs
    <2> QED BY <2>1, <2>2, <2>3
  <1>3. \A m : Waited(m, k) => Waited(m, k2)
    BY DEF Waited
  <1>4. \A x \in Shift(L) : \E a \in L : x[2] = a[2]
    BY <1>1
  <1>5. \A x \in Shift(L) : Waited(x[2], k2)
    BY <1>3, <1>4, OneRequestIs
  <1>6. \A t \in Reads(c2) : \A x \in Shift(L) : ~Asked(c2[t].m, x[2])
    BY <1>4, OneRequestIs
  <1>7. \A t \in Reads(c2) : Waited(c2[t].m, k2)
    BY <1>3, OneRequestIs
  <1>8. \A t \in Reads(c2) : \A u \in Reads(c2) : Asked(c2[t].m, c2[u].m) => t = u
    BY OneRequestIs
  <1> QED BY <1>2, <1>5, <1>6, <1>7, <1>8, OneRequestIs

\* pager_port_unlock of a read: the request leaves the line.
LEMMA RequestStarts ==
    ASSUME NEW c, NEW c2, NEW L \in Lines, NEW k, OneRequest(c, L, k), InOrder(L),
           NEW t, c2[t].m = c[t].m, <<0, c[t].m>> \in L,
           \A u \in Reads(c2) : u = t \/ (u \in Reads(c) /\ c2[u].m = c[u].m)
    PROVE  OneRequest(c2, Shift(L), k)
  <1> DEFINE m == c[t].m
             f == <<0, m>>
  <1>0. f \in L /\ f[1] = 0 /\ f[2] = m /\ c2[t].m = m
    OBVIOUS
  <1> HIDE DEF m, f
  <1>1. \A x \in Shift(L) : \E a \in L : a[1] > 0 /\ x = <<a[1] - 1, a[2]>>
    BY ShiftIs
  <1>2. ASSUME NEW x \in Shift(L), NEW y \in Shift(L), Asked(x[2], y[2])
        PROVE  x = y
    <2>1. PICK a \in L : x = <<a[1] - 1, a[2]>>
      BY <1>1
    <2>2. PICK b \in L : y = <<b[1] - 1, b[2]>>
      BY <1>1
    <2>3. a = b
      BY <1>2, <2>1, <2>2, OneRequestIs
    <2> QED BY <2>1, <2>2, <2>3
  <1>3. \A x \in Shift(L) : \E a \in L : a # f /\ x[2] = a[2]
    <2> SUFFICES ASSUME NEW x \in Shift(L)
                 PROVE  \E a \in L : a # f /\ x[2] = a[2]
      OBVIOUS
    <2>1. PICK a \in L : a[1] > 0 /\ x = <<a[1] - 1, a[2]>>
      BY <1>1
    <2>2. a # f
      BY <1>0, <2>1
    <2> QED BY <2>1, <2>2
  <1>4. \A x \in Shift(L) : ~Asked(m, x[2]) /\ Waited(x[2], k)
    BY <1>0, <1>3, OneRequestIs
  <1>5. \A u \in Reads(c) : ~Asked(c[u].m, m) /\ ~Asked(m, c[u].m) /\ Waited(c[u].m, k)
    <2>1. \A u \in Reads(c) : ~Asked(c[u].m, m) /\ Waited(c[u].m, k)
      BY <1>0, OneRequestIs
    <2> QED BY <2>1 DEF Asked
  <1>6. Waited(m, k)
    BY <1>0, OneRequestIs
  <1>7. \A u \in Reads(c2) : Waited(c2[u].m, k)
    BY <1>0, <1>5, <1>6
  <1>8. \A u \in Reads(c2) : \A x \in Shift(L) : ~Asked(c2[u].m, x[2])
    BY <1>0, <1>3, <1>4, OneRequestIs
  <1>9. \A u \in Reads(c2) : \A v \in Reads(c2) : Asked(c2[u].m, c2[v].m) => u = v
    <2> SUFFICES ASSUME NEW u \in Reads(c2), NEW v \in Reads(c2), Asked(c2[u].m, c2[v].m), u # v
                 PROVE  FALSE
      OBVIOUS
    <2>1. CASE u = t
      BY <1>0, <1>5, <2>1
    <2>2. CASE v = t
      BY <1>0, <1>5, <2>2
    <2>3. CASE u # t /\ v # t
      BY <2>3, OneRequestIs
    <2> QED BY <2>1, <2>2, <2>3
  <1> QED BY <1>2, <1>4, <1>7, <1>8, <1>9, OneRequestIs

\* vm_fault_page: the first fault on a page.
LEMMA RequestSent ==
    ASSUME NEW c, NEW L \in Lines, NEW k, NEW k2, OneRequest(c, L, k),
           NEW e \in Nat, NEW m \in Messages, m.op = "request", m.life = k.life, k.active,
           k.memory[m.page] # Wanted, k2.memory[m.page] = Wanted,
           \A x \in L : Waited(x[2], k) => Waited(x[2], k2),
           \A u \in Reads(c) : Waited(c[u].m, k) => Waited(c[u].m, k2)
    PROVE  OneRequest(c, Sent(L, e, m), k2)
  <1> DEFINE f == <<e, m>>
  <1>1. Sent(L, e, m) = L \cup {f} /\ f[2] = m
    BY DEF Sent
  <1> HIDE DEF f
  <1>2. \A n : Waited(n, k) => ~Asked(m, n) /\ ~Asked(n, m)
    BY DEF Waited, Asked
  <1>3. \A x \in L : ~Asked(m, x[2]) /\ ~Asked(x[2], m) /\ Waited(x[2], k2)
    BY <1>2, OneRequestIs
  <1>4. \A u \in Reads(c) : ~Asked(c[u].m, m) /\ Waited(c[u].m, k2)
    BY <1>2, OneRequestIs
  <1>5. Waited(m, k2)
    BY DEF Waited
  <1>6. \A x \in Sent(L, e, m) : \A y \in Sent(L, e, m) : Asked(x[2], y[2]) => x = y
    BY <1>1, <1>3, OneRequestIs
  <1>7. \A u \in Reads(c) : \A x \in Sent(L, e, m) : ~Asked(c[u].m, x[2])
    BY <1>1, <1>4, OneRequestIs
  <1>8. \A x \in Sent(L, e, m) : Waited(x[2], k2)
    BY <1>1, <1>3, <1>5
  <1>9. \A u \in Reads(c) : \A v \in Reads(c) : Asked(c[u].m, c[v].m) => u = v
    BY OneRequestIs
  <1> QED BY <1>4, <1>6, <1>7, <1>8, <1>9, OneRequestIs

-----------------------------------------------------------------------------
(* The transfers under way                                                 *)

LEMMA TransfersAre ==
    ASSUME NEW c \in Crews
    PROVE  /\ IsFiniteSet(Reading(c)) /\ Cardinality(Reading(c)) \in Nat
           /\ IsFiniteSet(Writing(c)) /\ Cardinality(Writing(c)) \in Nat
           /\ Cardinality(Reading(c)) = 0 <=> Reading(c) = {}
           /\ Cardinality(Writing(c)) = 0 <=> Writing(c) = {}
           /\ \A t : t \in Reading(c) <=> t \in DOMAIN c /\ c[t].m.op = "request"
                                          /\ c[t].pc \in Moving \cup {"finish"}
           /\ \A t : t \in Writing(c) <=> t \in DOMAIN c /\ c[t].m.op \in {"write", "initialize"}
                                          /\ c[t].pc \in Moving \cup {"finish"}
  <1>1. IsFiniteSet(Reading(c)) /\ IsFiniteSet(Writing(c))
    BY CrewIs, FS_Subset DEF Reading, Writing
  <1>2. /\ Cardinality(Reading(c)) \in Nat /\ (Cardinality(Reading(c)) = 0 <=> Reading(c) = {})
        /\ Cardinality(Writing(c)) \in Nat /\ (Cardinality(Writing(c)) = 0 <=> Writing(c) = {})
    BY <1>1, FS_CardinalityType, FS_EmptySet
  <1> QED BY <1>1, <1>2 DEF Reading, Writing

\* What the transfers require of a thread that is at r.
Fits(r, s, d) ==
    /\ r.pc \in Moving /\ r.m.op \in PageOps => r.m.life = s
    /\ r.pc = "wait_writers" => d.readers = 0
    /\ r.pc = "terminate" => d.readers = 0 /\ d.writers = 0
    /\ r.pc \in {"read", "release"} => d.map[r.m.page] # None

LEMMA TransfersAgreeIs ==
    ASSUME NEW c, NEW s, NEW d
    PROVE  TransfersAgree(c, s, d) <=>
             /\ Cardinality(Reading(c)) = d.readers
             /\ Cardinality(Writing(c)) = d.writers
             /\ d.readers + d.writers > 0 => d.request
             /\ \A t \in DOMAIN c : Fits(c[t], s, d)
  BY DEF TransfersAgree, Fits

\* None begins, none ends.
LEMMA TransfersStay ==
    ASSUME NEW c \in Crews, NEW c2, NEW s, NEW s2, NEW d, NEW d2, TransfersAgree(c, s, d),
           Reading(c2) = Reading(c), Writing(c2) = Writing(c),
           d2.readers = d.readers, d2.writers = d.writers,
           d.readers + d.writers > 0 => d2.request,
           \A u \in DOMAIN c2 :
              \/ Fits(c2[u], s2, d2)
              \/ u \in DOMAIN c /\ (Fits(c[u], s, d) => Fits(c2[u], s2, d2))
    PROVE  TransfersAgree(c2, s2, d2)
  BY TransfersAgreeIs

LEMMA ReadStarts ==
    ASSUME NEW c \in Crews, NEW c2, NEW s, NEW d \in Dstructs, NEW d2, TransfersAgree(c, s, d),
           NEW t, t \notin Reading(c), Reading(c2) = Reading(c) \cup {t}, Writing(c2) = Writing(c),
           d2.readers = d.readers + 1, d2.writers = d.writers, d2.map = d.map, d2.request,
           \A u \in DOMAIN c2 : \/ Fits(c2[u], s, d2)
                                \/ u \in DOMAIN c /\ c2[u] = c[u] /\ c[u].pc \notin Turns
    PROVE  TransfersAgree(c2, s, d2)
  <1>1. Cardinality(Reading(c2)) = Cardinality(Reading(c)) + 1
    <2>1. IsFiniteSet(Reading(c))
      BY TransfersAre
    <2>2. Cardinality(Reading(c) \cup {t}) = Cardinality(Reading(c)) + 1
      BY <2>1, FS_AddElement
    <2> QED BY <2>2
  <1>2. ASSUME NEW r, r.pc \notin Turns, Fits(r, s, d)
        PROVE  Fits(r, s, d2)
    BY <1>2, PCsAre DEF Fits
  <1> QED BY <1>1, <1>2, TransfersAgreeIs

LEMMA WriteStarts ==
    ASSUME NEW c \in Crews, NEW c2, NEW s, NEW d \in Dstructs, NEW d2, TransfersAgree(c, s, d),
           NEW t, t \notin Writing(c), Writing(c2) = Writing(c) \cup {t}, Reading(c2) = Reading(c),
           d2.writers = d.writers + 1, d2.readers = d.readers, d2.map = d.map, d2.request,
           \A u \in DOMAIN c2 : \/ Fits(c2[u], s, d2)
                                \/ u \in DOMAIN c /\ c2[u] = c[u] /\ c[u].pc \notin Turns
    PROVE  TransfersAgree(c2, s, d2)
  <1>1. Cardinality(Writing(c2)) = Cardinality(Writing(c)) + 1
    <2>1. IsFiniteSet(Writing(c))
      BY TransfersAre
    <2>2. Cardinality(Writing(c) \cup {t}) = Cardinality(Writing(c)) + 1
      BY <2>1, FS_AddElement
    <2> QED BY <2>2
  <1>2. ASSUME NEW r, r.pc \notin Turns, Fits(r, s, d)
        PROVE  Fits(r, s, d2)
    BY <1>2, PCsAre DEF Fits
  <1> QED BY <1>1, <1>2, TransfersAgreeIs

\* pager_port_finish_read: there is a read to finish.
LEMMA ReadEnds ==
    ASSUME NEW c \in Crews, NEW c2, NEW s, NEW d \in Dstructs, NEW d2, TransfersAgree(c, s, d),
           NEW t \in Reading(c), Reading(c2) = Reading(c) \ {t}, Writing(c2) = Writing(c),
           d2.readers = d.readers - 1, d2.writers = d.writers, d2.map = d.map,
           d2.request = d.request,
           \A u \in DOMAIN c2 : \/ Fits(c2[u], s, d2)
                                \/ u \in DOMAIN c /\ c2[u] = c[u]
    PROVE  d.readers > 0 /\ TransfersAgree(c2, s, d2)
  <1>1. Cardinality(Reading(c2)) = Cardinality(Reading(c)) - 1
    <2>1. IsFiniteSet(Reading(c))
      BY TransfersAre
    <2>2. Cardinality(Reading(c) \ {t}) = Cardinality(Reading(c)) - 1
      BY <2>1, FS_RemoveElement
    <2> QED BY <2>2
  <1>2. d.readers \in Nat /\ d.writers \in Nat /\ d.readers # 0
    <2>1. Reading(c) # {}
      OBVIOUS
    <2> QED BY <2>1, TransfersAre, TransfersAgreeIs, DstructIs
  <1>3. ASSUME NEW r, Fits(r, s, d)
        PROVE  Fits(r, s, d2)
    BY <1>2, <1>3 DEF Fits
  <1>4. d2.readers + d2.writers > 0 => d2.request
    BY <1>2, TransfersAgreeIs
  <1>5. Cardinality(Reading(c2)) = d2.readers /\ Cardinality(Writing(c2)) = d2.writers
    BY <1>1, TransfersAgreeIs
  <1>6. \A u \in DOMAIN c2 : Fits(c2[u], s, d2)
    BY <1>3, TransfersAgreeIs
  <1>7. TransfersAgree(c2, s, d2)
    BY <1>4, <1>5, <1>6, TransfersAgreeIs
  <1> QED BY <1>2, <1>7

LEMMA WriteEnds ==
    ASSUME NEW c \in Crews, NEW c2, NEW s, NEW d \in Dstructs, NEW d2, TransfersAgree(c, s, d),
           NEW t \in Writing(c), Writing(c2) = Writing(c) \ {t}, Reading(c2) = Reading(c),
           d2.writers = d.writers - 1, d2.readers = d.readers, d2.map = d.map,
           d2.request = d.request,
           \A u \in DOMAIN c2 : \/ Fits(c2[u], s, d2)
                                \/ u \in DOMAIN c /\ c2[u] = c[u]
    PROVE  d.writers > 0 /\ TransfersAgree(c2, s, d2)
  <1>1. Cardinality(Writing(c2)) = Cardinality(Writing(c)) - 1
    <2>1. IsFiniteSet(Writing(c))
      BY TransfersAre
    <2>2. Cardinality(Writing(c) \ {t}) = Cardinality(Writing(c)) - 1
      BY <2>1, FS_RemoveElement
    <2> QED BY <2>2
  <1>2. d.readers \in Nat /\ d.writers \in Nat /\ d.writers # 0
    <2>1. Writing(c) # {}
      OBVIOUS
    <2> QED BY <2>1, TransfersAre, TransfersAgreeIs, DstructIs
  <1>3. ASSUME NEW r, Fits(r, s, d)
        PROVE  Fits(r, s, d2)
    BY <1>2, <1>3 DEF Fits
  <1>4. d2.readers + d2.writers > 0 => d2.request
    BY <1>2, TransfersAgreeIs
  <1>5. Cardinality(Reading(c2)) = d2.readers /\ Cardinality(Writing(c2)) = d2.writers
    BY <1>1, TransfersAgreeIs
  <1>6. \A u \in DOMAIN c2 : Fits(c2[u], s, d2)
    BY <1>3, TransfersAgreeIs
  <1>7. TransfersAgree(c2, s, d2)
    BY <1>4, <1>5, <1>6, TransfersAgreeIs
  <1> QED BY <1>2, <1>7

-----------------------------------------------------------------------------
(* The steps of a thread, for the object it works for                      *)

Agree(c, L, s, d, k) == LineAgrees(L, s, d, k) /\ OneRequest(c, L, k) /\ TransfersAgree(c, s, d)

LEMMA ObjectIs ==
    ASSUME NEW c, NEW d, NEW q, NEW r, NEW k, NEW l
    PROVE  ObjectAgrees(c, d, q, r, k, l) <=>
             /\ TurnsAgree(c, d, r)
             /\ NamesAgree(d, l)
             /\ \E s \in 0..k.life : Agree(c, Line(c, d.seqno, q), s, d, k)
  BY DEF ObjectAgrees, Agree

Becomes(c, c2, t, n) == c2 = Changed(c, t, n)

LEMMA BecomesIs ==
    ASSUME NEW c \in Crews, NEW t \in Threads, NEW n \in ThreadRecords, NEW c2, Becomes(c, c2, t, n)
    PROVE  /\ c2 \in Crews
           /\ c2 \in {Put(c, t, n), Drop(c, t)}
           /\ \A u : u \in DOMAIN c2 <=> (u \in DOMAIN c /\ u # t) \/ (u = t /\ n.o # None)
           /\ t \in DOMAIN c2 => c2[t] = n
           /\ \A u \in DOMAIN c \ {t} : c2[u] = c[u]
  <1>1. CASE n.o = None
    <2>1. c2 = Drop(c, t)
      BY <1>1 DEF Becomes, Changed
    <2> QED BY <1>1, <2>1, DropIs
  <1>2. CASE n.o # None
    <2>1. c2 = Put(c, t, n)
      BY <1>2 DEF Becomes, Changed
    <2> QED BY <1>2, <2>1, PutIs
  <1> QED BY <1>1, <1>2

\* Whether a thread at r reads or writes.
Reads1(r) == r.m.op = "request" /\ r.pc \in Moving \cup {"finish"}
Writes1(r) == r.m.op \in {"write", "initialize"} /\ r.pc \in Moving \cup {"finish"}

LEMMA SameTransfers ==
    ASSUME NEW c \in Crews, NEW t \in Threads, NEW n \in ThreadRecords, NEW c2, Becomes(c, c2, t, n),
           IF t \in DOMAIN c THEN Reads1(c[t]) <=> Reads1(n) ELSE ~Reads1(n),
           IF t \in DOMAIN c THEN Writes1(c[t]) <=> Writes1(n) ELSE ~Writes1(n)
    PROVE  Reading(c2) = Reading(c) /\ Writing(c2) = Writing(c)
  <1>1. c2 \in Crews
    BY BecomesIs
  <1>2. n.o = None => ~Reads1(n) /\ ~Writes1(n)
    BY ThreadIs, PCsAre DEF Reads1, Writes1
  <1>3. \A u : (u \in Reading(c) <=> u \in DOMAIN c /\ Reads1(c[u]))
               /\ (u \in Writing(c) <=> u \in DOMAIN c /\ Writes1(c[u]))
    BY TransfersAre DEF Reads1, Writes1
  <1>4. \A u : (u \in Reading(c2) <=> u \in DOMAIN c2 /\ Reads1(c2[u]))
               /\ (u \in Writing(c2) <=> u \in DOMAIN c2 /\ Writes1(c2[u]))
    BY <1>1, TransfersAre DEF Reads1, Writes1
  <1>5. ASSUME NEW u
        PROVE  (u \in Reading(c2) <=> u \in Reading(c)) /\ (u \in Writing(c2) <=> u \in Writing(c))
    <2>1. CASE u # t
      BY <1>3, <1>4, <2>1, BecomesIs
    <2>2. CASE u = t
      <3>1. t \in DOMAIN c2 <=> n.o # None
        BY BecomesIs
      <3>2. t \in DOMAIN c2 => c2[t] = n
        BY BecomesIs
      <3>3. (t \in Reading(c2) <=> Reads1(n)) /\ (t \in Writing(c2) <=> Writes1(n))
        BY <1>2, <1>4, <3>1, <3>2
      <3> QED BY <1>3, <2>2, <3>3
    <2> QED BY <2>1, <2>2
  <1> QED BY <1>5

\* A thread that has had its turn, or not yet one, does not begin or end a
\* transfer.
LEMMA QuietStep ==
    ASSUME NEW c \in Crews, NEW t \in DOMAIN c, NEW n \in ThreadRecords, NEW c2, Becomes(c, c2, t, n),
           c[t].pc \notin {"lock"} \cup Turns, n.pc \notin {"lock"} \cup Turns,
           Reads1(c[t]) <=> Reads1(n), Writes1(c[t]) <=> Writes1(n),
           n.pc \in Moving => c[t].pc \in Moving /\ n.m = c[t].m,
           NEW d \in Dstructs, NEW d2 \in Dstructs, NEW q \in Seq(Messages), NEW r \in Seqnos,
           NEW k \in KernelObjects, NEW l, ObjectAgrees(c, d, q, r, k, l),
           d2.seqno = d.seqno, d2.deleted = d.deleted, d2.request = d.request,
           d2.readers = d.readers, d2.writers = d.writers, d2.name_refs = d.name_refs,
           \A s : Fits(c[t], s, d) => Fits(n, s, d2),
           \A p \in Pages : d2.map[p] = None
                            => d.map[p] = None \/ (c[t].pc = "release" /\ p = c[t].m.page)
    PROVE  ObjectAgrees(c2, d2, q, r, k, l)
  <1>1. PICK s \in 0..k.life : Agree(c, Line(c, d.seqno, q), s, d, k)
    BY ObjectIs
  <1> DEFINE L == Line(c, d.seqno, q)
  <1>2. t \in Threads
    BY CrewIs
  <1>3. TurnsAgree(c2, d2, r) /\ Line(c2, d2.seqno, q) = L
    BY <1>2, ObjectIs, BecomesIs, OutOfLine
  <1> HIDE DEF L
  <1>4. LineAgrees(L, s, d, k) /\ OneRequest(c, L, k) /\ TransfersAgree(c, s, d)
    BY <1>1 DEF Agree, L
  <1>5. LineAgrees(L, s, d2, k)
    BY <1>4, StoryStays DEF SameStory
  <1>6. Reading(c2) = Reading(c) /\ Writing(c2) = Writing(c)
    BY <1>2, SameTransfers
  <1>7. /\ \A u \in DOMAIN c2 : u = t => c2[u] = n
        /\ \A u \in DOMAIN c2 : u # t => u \in DOMAIN c /\ c2[u] = c[u]
    BY <1>2, BecomesIs
  <1>8. \A u \in Reads(c2) : u \in Reads(c) /\ c2[u].m = c[u].m
    <2> SUFFICES ASSUME NEW u \in Reads(c2)
                 PROVE  u \in Reads(c) /\ c2[u].m = c[u].m
      OBVIOUS
    <2>1. u \in DOMAIN c2 /\ c2[u].m.op = "request" /\ c2[u].pc \in Moving
      BY ReadsAre
    <2>2. CASE u # t
      BY <1>7, <2>1, <2>2, ReadsAre
    <2>3. CASE u = t
      <3>1. c2[u] = n /\ n.m = c[t].m /\ c[t].pc \in Moving
        BY <1>7, <2>1, <2>3
      <3> QED BY <2>1, <2>3, <3>1, ReadsAre
    <2> QED BY <2>2, <2>3
  <1>9. OneRequest(c2, L, k)
    BY <1>4, <1>8, RequestsStay
  <1>10. ASSUME NEW u \in DOMAIN c2
         PROVE  \/ Fits(c2[u], s, d2)
                \/ u \in DOMAIN c /\ (Fits(c[u], s, d) => Fits(c2[u], s, d2))
    <2>1. CASE u = t
      BY <1>7, <1>4, <2>1, TransfersAgreeIs
    <2>2. CASE u # t
      <3>1. u \in DOMAIN c /\ c2[u] = c[u]
        BY <1>7, <1>10, <2>2
      <3>2. ASSUME Fits(c[u], s, d), c[u].pc \in {"read", "release"}
            PROVE  d2.map[c[u].m.page] # None
        <4> SUFFICES ASSUME d2.map[c[u].m.page] = None
                     PROVE  FALSE
          OBVIOUS
        <4>1. d.map[c[u].m.page] # None
          BY <3>2 DEF Fits
        <4>2. c[t].pc = "release" /\ c[t].m.page = c[u].m.page
          <5>1. c[u] \in ThreadRecords
            BY <3>1, CrewIs
          <5>2. c[u].m \in Messages /\ c[u].m.op \in PageOps
            BY <3>2, <5>1, ThreadIs, OpsAre, PCsAre
          <5>3. c[u].m.page \in Pages
            BY <5>2, MessageIs
          <5> QED BY <4>1, <5>3
        <4>3. c[u].m.op = "request" /\ c[t].m.op = "request" /\ c[u].m.life = s /\ c[t].m.life = s
          <5>1. c[u] \in ThreadRecords /\ c[t] \in ThreadRecords
            BY <3>1, CrewIs
          <5>2. c[u].m.op = "request" /\ c[t].m.op = "request"
            BY <3>2, <4>2, <5>1, ThreadIs, OpsAre, PCsAre
          <5>3. Fits(c[t], s, d)
            BY <1>4, TransfersAgreeIs
          <5> QED BY <3>2, <4>2, <5>2, <5>3, PCsAre, OpsAre DEF Fits
        <4>4. u \in Reads(c) /\ t \in Reads(c)
          BY <3>1, <3>2, <4>2, <4>3, ReadsAre, PCsAre
        <4>5. Asked(c[t].m, c[u].m)
          BY <4>2, <4>3 DEF Asked
        <4> QED BY <1>4, <2>2, <4>4, <4>5, OneRequestIs
      <3> QED BY <3>1, <3>2 DEF Fits
    <2> QED BY <2>1, <2>2
  <1>11. TransfersAgree(c2, s, d2)
    <2>1. d.readers + d.writers > 0 => d2.request
      BY <1>4, TransfersAgreeIs
    <2> QED BY <1>4, <1>6, <1>10, <2>1, TransfersStay
  <1>12. NamesAgree(d2, l)
    BY ObjectIs DEF NamesAgree
  <1> QED BY <1>3, <1>5, <1>9, <1>11, <1>12, ObjectIs DEF Agree

\* The kernel is answered: the page it waited for need not be waited for.
LEMMA ReplyStep ==
    ASSUME NEW c \in Crews, NEW t \in DOMAIN c, NEW n \in ThreadRecords, NEW c2, Becomes(c, c2, t, n),
           c[t].pc = "reply", n.pc = "finish", n.m.op = "request",
           NEW d \in Dstructs, NEW q \in Seq(Messages), NEW r \in Seqnos,
           NEW k \in KernelObjects, NEW k2, NEW l, ObjectAgrees(c, d, q, r, k, l),
           k2.life = k.life, k2.active = k.active, k2.senders = k.senders,
           k2.memory # k.memory => k.active /\ k.life = c[t].m.life,
           \A p \in Pages : p # c[t].m.page => k2.memory[p] = k.memory[p]
    PROVE  ObjectAgrees(c2, d, q, r, k2, l)
  <1>1. PICK s \in 0..k.life : Agree(c, Line(c, d.seqno, q), s, d, k)
    BY ObjectIs
  <1> DEFINE L == Line(c, d.seqno, q)
  <1>2. t \in Threads /\ c[t] \in ThreadRecords
    BY CrewIs
  <1>3. TurnsAgree(c2, d, r) /\ Line(c2, d.seqno, q) = L
    BY <1>2, ObjectIs, BecomesIs, OutOfLine, PCsAre
  <1>4. L \in Lines
    BY DstructIs, LineIs
  <1> HIDE DEF L
  <1>5. LineAgrees(L, s, d, k) /\ OneRequest(c, L, k) /\ TransfersAgree(c, s, d)
    BY <1>1 DEF Agree, L
  <1>6. LineAgrees(L, s, d, k2)
    BY <1>5, StoryStays DEF SameStory
  <1>7. c[t].m.op = "request" /\ t \in Reads(c) /\ c[t].m \in Messages
    BY <1>2, ThreadIs, OpsAre, PCsAre, ReadsAre
  <1>8. Reading(c2) = Reading(c) /\ Writing(c2) = Writing(c)
    BY <1>2, <1>7, SameTransfers, PCsAre DEF Reads1, Writes1
  <1>9. /\ \A u \in DOMAIN c2 : u = t => c2[u] = n
        /\ \A u \in DOMAIN c2 : u # t => u \in DOMAIN c /\ c2[u] = c[u]
    BY <1>2, BecomesIs
  <1>10. \A u \in Reads(c2) : u \in Reads(c) /\ c2[u].m = c[u].m /\ u # t
    BY <1>9, ReadsAre, PCsAre
  <1>11. ASSUME NEW m \in Messages, Waited(m, k), ~Asked(c[t].m, m)
         PROVE  Waited(m, k2)
    <2> SUFFICES ASSUME m.op = "request", k.active, m.life = k.life
                 PROVE  k2.memory[m.page] = Wanted
      BY DEF Waited
    <2>1. m.page \in Pages /\ k.memory[m.page] = Wanted
      BY <1>11, MessageIs, OpsAre DEF Waited
    <2>2. CASE k2.memory = k.memory
      BY <2>1, <2>2
    <2>3. CASE k2.memory # k.memory
      <3>1. m.page # c[t].m.page
        BY <1>7, <1>11, <2>3 DEF Asked
      <3> QED BY <2>1, <3>1
    <2> QED BY <2>2, <2>3
  <1>12. \A x \in L : x[2] \in Messages /\ Waited(x[2], k) /\ ~Asked(c[t].m, x[2])
    BY <1>4, <1>5, <1>7, LineElements, OneRequestIs
  <1>13. \A u \in Reads(c2) : c[u].m \in Messages /\ Waited(c[u].m, k) /\ ~Asked(c[t].m, c[u].m)
    <2>1. \A u \in Reads(c) : c[u].m \in Messages
      BY ReadsAre, CrewIs, ThreadIs
    <2> QED BY <1>5, <1>7, <1>10, <2>1, OneRequestIs
  <1>14. OneRequest(c2, L, k2)
    BY <1>5, <1>10, <1>11, <1>12, <1>13, RequestsStay
  <1>15. TransfersAgree(c2, s, d)
    <2>1. Fits(n, s, d)
      BY PCsAre DEF Fits
    <2>2. d.readers + d.writers > 0 => d.request
      BY <1>5, TransfersAgreeIs
    <2> QED BY <1>5, <1>8, <1>9, <2>1, <2>2, TransfersStay
  <1> QED BY <1>3, <1>6, <1>14, <1>15, ObjectIs DEF Agree

\* A transfer ends.
LEMMA FinishStep ==
    ASSUME NEW c \in Crews, NEW t \in DOMAIN c, NEW n \in ThreadRecords, NEW c2, Becomes(c, c2, t, n),
           c[t].pc = "finish", n.pc \in {"finished", "idle"},
           NEW d \in Dstructs, NEW d2 \in Dstructs, NEW q \in Seq(Messages), NEW r \in Seqnos,
           NEW k \in KernelObjects, NEW l, ObjectAgrees(c, d, q, r, k, l),
           d2.seqno = d.seqno, d2.deleted = d.deleted, d2.request = d.request,
           d2.map = d.map, d2.name_refs = d.name_refs,
           IF c[t].m.op = "request" THEN d2.readers = d.readers - 1 /\ d2.writers = d.writers
                                    ELSE d2.writers = d.writers - 1 /\ d2.readers = d.readers
    PROVE  ObjectAgrees(c2, d2, q, r, k, l)
  <1>1. PICK s \in 0..k.life : Agree(c, Line(c, d.seqno, q), s, d, k)
    BY ObjectIs
  <1> DEFINE L == Line(c, d.seqno, q)
  <1>2. t \in Threads /\ c[t] \in ThreadRecords /\ c[t].m.op \in PageOps
    BY CrewIs, ThreadIs, OpsAre
  <1>3. TurnsAgree(c2, d2, r) /\ Line(c2, d2.seqno, q) = L
    BY <1>2, ObjectIs, BecomesIs, OutOfLine, PCsAre
  <1> HIDE DEF L
  <1>5. LineAgrees(L, s, d, k) /\ OneRequest(c, L, k) /\ TransfersAgree(c, s, d)
    BY <1>1 DEF Agree, L
  <1>6. LineAgrees(L, s, d2, k)
    BY <1>5, StoryStays DEF SameStory
  <1>7. c2 \in Crews
    BY <1>2, BecomesIs
  <1>9. /\ \A u \in DOMAIN c2 : u = t => c2[u] = n
        /\ \A u \in DOMAIN c2 : u # t => u \in DOMAIN c /\ c2[u] = c[u]
        /\ \A u \in DOMAIN c : u # t => u \in DOMAIN c2
    BY <1>2, BecomesIs
  <1>10. \A u \in Reads(c2) : u \in Reads(c) /\ c2[u].m = c[u].m
    BY <1>9, ReadsAre, PCsAre
  <1>11. OneRequest(c2, L, k)
    BY <1>5, <1>10, RequestsStay
  <1>12. Fits(n, s, d2)
    BY PCsAre DEF Fits
  <1>13. \A u : /\ u \in Reading(c2) <=> u \in Reading(c) /\ u # t
                /\ u \in Writing(c2) <=> u \in Writing(c) /\ u # t
    BY <1>7, <1>9, TransfersAre, PCsAre
  <1>14. CASE c[t].m.op = "request"
    <2>1. t \in Reading(c) /\ t \notin Writing(c)
      BY <1>14, TransfersAre
    <2>2. Reading(c2) = Reading(c) \ {t} /\ Writing(c2) = Writing(c)
      BY <1>13, <2>1
    <2>3. TransfersAgree(c2, s, d2)
      BY <1>5, <1>9, <1>12, <1>14, <2>1, <2>2, ReadEnds
    <2> QED BY <1>3, <1>6, <1>11, <2>3, ObjectIs DEF Agree, NamesAgree
  <1>15. CASE c[t].m.op # "request"
    <2>1. t \in Writing(c) /\ t \notin Reading(c)
      BY <1>2, <1>15, TransfersAre, OpsAre
    <2>2. Writing(c2) = Writing(c) \ {t} /\ Reading(c2) = Reading(c)
      BY <1>13, <2>1
    <2>3. TransfersAgree(c2, s, d2)
      BY <1>5, <1>9, <1>12, <1>15, <2>1, <2>2, WriteEnds
    <2> QED BY <1>3, <1>6, <1>11, <2>3, ObjectIs DEF Agree, NamesAgree
  <1> QED BY <1>14, <1>15

\* pager_port_lock, and the waits of terminate: the thread has the turn.
LEMMA TurnStep ==
    ASSUME NEW c \in Crews, NEW t \in DOMAIN c, NEW n \in ThreadRecords, NEW c2, Becomes(c, c2, t, n),
           c[t].pc \in {"lock"} \cup Turns, n.pc \in Turns, n.m = c[t].m, n.o # None,
           NEW d \in Dstructs, NEW q \in Seq(Messages), NEW r \in Seqnos,
           NEW k \in KernelObjects, NEW l, ObjectAgrees(c, d, q, r, k, l),
           Place(c, d.seqno, t) = 0, \A s : Fits(c[t], s, d) => Fits(n, s, d)
    PROVE  ObjectAgrees(c2, d, q, r, k, l)
  <1>1. PICK s \in 0..k.life : Agree(c, Line(c, d.seqno, q), s, d, k)
    BY ObjectIs
  <1> DEFINE L == Line(c, d.seqno, q)
  <1>2. t \in Threads /\ t \in Pending(c) /\ c2 = Put(c, t, n)
    BY CrewIs DEF Pending, Becomes, Changed
  <1>3. TurnsAgree(c2, d, r) /\ Line(c2, d.seqno, q) = L
    BY <1>2, ObjectIs, KeepsTurn
  <1> HIDE DEF L
  <1>5. LineAgrees(L, s, d, k) /\ OneRequest(c, L, k) /\ TransfersAgree(c, s, d)
    BY <1>1 DEF Agree, L
  <1>6. c[t].pc \notin Moving \cup {"finish"} /\ n.pc \notin Moving \cup {"finish"}
    BY PCsAre
  <1>7. Reading(c2) = Reading(c) /\ Writing(c2) = Writing(c)
    BY <1>2, <1>6, SameTransfers DEF Reads1, Writes1
  <1>9. /\ \A u \in DOMAIN c2 : u = t => c2[u] = n
        /\ \A u \in DOMAIN c2 : u # t => u \in DOMAIN c /\ c2[u] = c[u]
    BY <1>2, BecomesIs
  <1>10. \A u \in Reads(c2) : u \in Reads(c) /\ c2[u].m = c[u].m
    BY <1>6, <1>9, ReadsAre
  <1>11. OneRequest(c2, L, k)
    BY <1>5, <1>10, RequestsStay
  <1>12. TransfersAgree(c2, s, d)
    <2>1. d.readers + d.writers > 0 => d.request
      BY <1>5, TransfersAgreeIs
    <2>2. Fits(n, s, d)
      BY <1>5, TransfersAgreeIs
    <2> QED BY <1>5, <1>7, <1>9, <2>1, <2>2, TransfersStay
  <1> QED BY <1>3, <1>5, <1>11, <1>12, ObjectIs DEF Agree

\* A thread that has the turn is alone, and its message the first.
LEMMA TurnIs ==
    ASSUME NEW c \in Crews, NEW t \in DOMAIN c, c[t].pc \in Turns,
           NEW d \in Dstructs, NEW q \in Seq(Messages), NEW r \in Seqnos,
           NEW k \in KernelObjects, NEW l, ObjectAgrees(c, d, q, r, k, l)
    PROVE  /\ t \in Pending(c) /\ Place(c, d.seqno, t) = 0
           /\ c[t] \in ThreadRecords /\ c[t].m \in Messages
           /\ <<0, c[t].m>> \in Line(c, d.seqno, q)
           /\ \A u \in DOMAIN c \ {t} : c[u].pc \notin Turns
  <1>1. t \in Pending(c) /\ Place(c, d.seqno, t) = 0
    BY PCsAre DEF Pending, Place
  <1>2. <<0, c[t].m>> \in Line(c, d.seqno, q)
    <2>1. d.seqno \in Seqnos
      BY DstructIs
    <2>2. <<Place(c, d.seqno, t), c[t].m>> \in Line(c, d.seqno, q)
      BY <1>1, <2>1, LineIs
    <2> QED BY <1>1, <2>2
  <1>3. ASSUME NEW u \in DOMAIN c \ {t}, c[u].pc \in Turns
        PROVE  FALSE
    <2>1. u \in Pending(c) /\ Place(c, d.seqno, u) = 0
      BY <1>3, PCsAre DEF Pending, Place
    <2>2. TurnsAgree(c, d, r)
      BY ObjectIs
    <2> QED BY <1>1, <1>3, <2>1, <2>2 DEF TurnsAgree
  <1> QED BY <1>1, <1>2, <1>3, CrewIs, PendingIs

\* pager_port_unlock: the line moves up.
LEMMA UnlockIs ==
    ASSUME NEW c \in Crews, NEW t \in DOMAIN c, NEW n \in ThreadRecords, NEW c2, Becomes(c, c2, t, n),
           c[t].pc \in Turns, n.pc = "broadcast", n.m = c[t].m, n.o # None,
           NEW d \in Dstructs, NEW d2 \in Dstructs, NEW q \in Seq(Messages), NEW r \in Seqnos,
           NEW k \in KernelObjects, NEW l, ObjectAgrees(c, d, q, r, k, l),
           d2.seqno = Succ(d.seqno), d2.deleted = d.deleted
    PROVE  /\ TurnsAgree(c2, d2, r) /\ Line(c2, d2.seqno, q) = Shift(Line(c, d.seqno, q))
           /\ Line(c, d.seqno, q) \in Lines
           /\ c2 \in Crews
           /\ \A u \in DOMAIN c2 : u = t => c2[u] = n
           /\ \A u \in DOMAIN c2 : u # t => u \in DOMAIN c /\ c2[u] = c[u] /\ c[u].pc \notin Turns
           /\ \A u \in DOMAIN c : u \in DOMAIN c2
           /\ \A u \in Reads(c2) : u # t => u \in Reads(c) /\ c2[u].m = c[u].m
           /\ t \notin Reading(c) /\ t \notin Writing(c)
           /\ \A u : /\ u \in Reading(c2) <=> u \in Reading(c) \/ (u = t /\ n.m.op = "request")
                     /\ u \in Writing(c2) <=> u \in Writing(c)
                                              \/ (u = t /\ n.m.op \in {"write", "initialize"})
  <1>1. t \in Threads /\ t \in Pending(c) /\ Place(c, d.seqno, t) = 0
        /\ \A u \in DOMAIN c \ {t} : c[u].pc \notin Turns
    BY CrewIs, TurnIs
  <1>2. /\ c2 \in Crews
        /\ \A u : u \in DOMAIN c2 <=> u \in DOMAIN c
        /\ c2[t] = n /\ \A u \in DOMAIN c \ {t} : c2[u] = c[u]
    BY <1>1, BecomesIs
  <1>3. Pending(c2) = Pending(c) \ {t}
    BY <1>2, PCsAre DEF Pending
  <1>4. \A u \in Pending(c) \ {t} : c2[u] = c[u]
    BY <1>2, PendingIs
  <1>5. TurnsAgree(c, d, r)
    BY ObjectIs
  <1>6. TurnsAgree(c2, d2, r) /\ Line(c2, d2.seqno, q) = Shift(Line(c, d.seqno, q))
    BY <1>1, <1>2, <1>3, <1>4, <1>5, NextTurn
  <1>7. Line(c, d.seqno, q) \in Lines
    BY DstructIs, LineIs
  <1>8. c[t].pc \notin Moving \cup {"finish"}
    BY PCsAre
  <1>9. t \notin Reading(c) /\ t \notin Writing(c)
    BY <1>8, TransfersAre
  <1>10. ASSUME NEW u
         PROVE  /\ u \in Reading(c2) <=> u \in Reading(c) \/ (u = t /\ n.m.op = "request")
                /\ u \in Writing(c2) <=> u \in Writing(c)
                                         \/ (u = t /\ n.m.op \in {"write", "initialize"})
    <2>1. CASE u = t
      BY <1>2, <1>9, <2>1, TransfersAre, PCsAre
    <2>2. CASE u # t
      BY <1>2, <2>2, TransfersAre
    <2> QED BY <2>1, <2>2
  <1>11. \A u \in Reads(c2) : u # t => u \in Reads(c) /\ c2[u].m = c[u].m
    BY <1>2, ReadsAre
  <1> QED BY <1>1, <1>2, <1>6, <1>7, <1>9, <1>10, <1>11

\* A transfer begins, when the thread has its turn.
LEMMA StartStep ==
    ASSUME NEW c \in Crews, NEW t \in DOMAIN c, NEW n \in ThreadRecords, NEW c2, Becomes(c, c2, t, n),
           c[t].pc \in {"request", "start_write"}, n.pc = "broadcast", n.m = c[t].m, n.o # None,
           NEW d \in Dstructs, NEW d2 \in Dstructs, NEW q \in Seq(Messages), NEW r \in Seqnos,
           NEW k \in KernelObjects, NEW l, ObjectAgrees(c, d, q, r, k, l),
           d2.seqno = Succ(d.seqno), d2.deleted = d.deleted, d2.request = d.request,
           d2.map = d.map, d2.name_refs = d.name_refs,
           IF c[t].pc = "request" THEN d2.readers = d.readers + 1 /\ d2.writers = d.writers
                                  ELSE d2.writers = d.writers + 1 /\ d2.readers = d.readers
    PROVE  ObjectAgrees(c2, d2, q, r, k, l)
  <1> DEFINE L == Line(c, d.seqno, q)
             m == c[t].m
  <1>1. PICK s \in 0..k.life : Agree(c, L, s, d, k)
    BY ObjectIs
  <1>2. c[t].pc \in Turns
    BY PCsAre
  <1>3. /\ c[t] \in ThreadRecords /\ m \in Messages /\ <<0, m>> \in L
    BY <1>2, TurnIs
  <1>4. /\ TurnsAgree(c2, d2, r) /\ Line(c2, d2.seqno, q) = Shift(L)
        /\ L \in Lines
        /\ c2 \in Crews
        /\ \A u \in DOMAIN c2 : u = t => c2[u] = n
        /\ \A u \in DOMAIN c2 : u # t => u \in DOMAIN c /\ c2[u] = c[u] /\ c[u].pc \notin Turns
        /\ \A u \in DOMAIN c : u \in DOMAIN c2
        /\ \A u \in Reads(c2) : u # t => u \in Reads(c) /\ c2[u].m = c[u].m
        /\ t \notin Reading(c) /\ t \notin Writing(c)
        /\ \A u : /\ u \in Reading(c2) <=> u \in Reading(c) \/ (u = t /\ n.m.op = "request")
                  /\ u \in Writing(c2) <=> u \in Writing(c)
                                           \/ (u = t /\ n.m.op \in {"write", "initialize"})
    BY <1>2, UnlockIs
  <1> HIDE DEF L, m
  <1>5. LineAgrees(L, s, d, k) /\ OneRequest(c, L, k) /\ TransfersAgree(c, s, d)
    BY <1>1 DEF Agree
  <1>6. s \in Nat /\ s <= k.life /\ k.life \in Nat
    BY KernelIs
  <1>7. m.op \in PageOps /\ (IF c[t].pc = "request" THEN m.op = "request"
                                                    ELSE m.op \in {"write", "initialize"})
    BY <1>3, ThreadIs, OpsAre DEF m
  <1>8. m.life = s /\ d.request
    BY <1>3, <1>4, <1>5, <1>6, <1>7, FirstIs
  <1>9. LineAgrees(Shift(L), s, d2, k)
    BY <1>3, <1>4, <1>5, <1>6, <1>7, AfterPageOp
  <1>10. Fits(n, s, d2)
    BY <1>8, PCsAre DEF Fits, m
  <1>11. c2[t] = n /\ n.m = m
    BY <1>4 DEF m
  <1>12. InOrder(L)
    BY <1>5 DEF LineAgrees
  <1>13. NamesAgree(d2, l)
    BY ObjectIs DEF NamesAgree
  <1>14. CASE c[t].pc = "request"
    <2>1. OneRequest(c2, Shift(L), k)
      <3>1. c2[t].m = c[t].m /\ <<0, c[t].m>> \in L
        BY <1>3, <1>11 DEF m
      <3>2. \A u \in Reads(c2) : u = t \/ (u \in Reads(c) /\ c2[u].m = c[u].m)
        BY <1>4
      <3> QED BY <1>4, <1>5, <1>12, <3>1, <3>2, RequestStarts
    <2>2. Reading(c2) = Reading(c) \cup {t} /\ Writing(c2) = Writing(c)
      <3>1. n.m.op = "request"
        BY <1>7, <1>11, <1>14
      <3> QED BY <1>4, <3>1
    <2>3. TransfersAgree(c2, s, d2)
      BY <1>4, <1>5, <1>8, <1>10, <1>14, <2>2, ReadStarts
    <2> QED BY <1>4, <1>9, <1>13, <2>1, <2>3, ObjectIs DEF Agree
  <1>15. CASE c[t].pc # "request"
    <2>0. n.m.op \in {"write", "initialize"}
      BY <1>7, <1>11, <1>15
    <2>1. OneRequest(c2, Shift(L), k)
      <3>1. t \notin Reads(c2)
        BY <1>11, <2>0, ReadsAre
      <3>2. \A u \in Reads(c2) : u \in Reads(c) /\ c2[u].m = c[u].m
        BY <1>4, <3>1
      <3> QED BY <1>4, <1>5, <3>2, RequestsShift
    <2>2. Writing(c2) = Writing(c) \cup {t} /\ Reading(c2) = Reading(c)
      BY <1>4, <2>0
    <2>3. TransfersAgree(c2, s, d2)
      BY <1>4, <1>5, <1>8, <1>10, <1>15, <2>2, WriteStarts
    <2> QED BY <1>4, <1>9, <1>13, <2>1, <2>3, ObjectIs DEF Agree
  <1> QED BY <1>14, <1>15

\* A life begins or ends.
LEMMA LifeStep ==
    ASSUME NEW c \in Crews, NEW t \in DOMAIN c, NEW n \in ThreadRecords, NEW c2, Becomes(c, c2, t, n),
           c[t].pc \in {"init", "terminate"}, n.pc = "broadcast", n.m = c[t].m, n.o # None,
           NEW d \in Dstructs, NEW d2 \in Dstructs, NEW q \in Seq(Messages), NEW r \in Seqnos,
           NEW k \in KernelObjects, NEW k2 \in KernelObjects, NEW l,
           ObjectAgrees(c, d, q, r, k, l),
           d2.seqno = Succ(d.seqno), d2.deleted = d.deleted, d2.map = d.map,
           d2.readers = d.readers, d2.writers = d.writers,
           IF c[t].pc = "init" THEN d2.request /\ d2.name_refs = 1
                               ELSE ~d2.request /\ d.name_refs # 0,
           k2.life = k.life, k2.active = k.active, k2.senders = k.senders, k2.memory = k.memory,
           c[t].pc = "terminate" => k2 = k
    PROVE  ObjectAgrees(c2, d2, q, r, k2, l)
  <1> DEFINE L == Line(c, d.seqno, q)
             m == c[t].m
  <1>1. PICK s \in 0..k.life : Agree(c, L, s, d, k)
    BY ObjectIs
  <1>2. c[t].pc \in Turns
    BY PCsAre
  <1>3. /\ c[t] \in ThreadRecords /\ m \in Messages /\ <<0, m>> \in L
    BY <1>2, TurnIs
  <1>4. /\ TurnsAgree(c2, d2, r) /\ Line(c2, d2.seqno, q) = Shift(L)
        /\ L \in Lines
        /\ c2 \in Crews
        /\ \A u \in DOMAIN c2 : u = t => c2[u] = n
        /\ \A u \in DOMAIN c2 : u # t => u \in DOMAIN c /\ c2[u] = c[u] /\ c[u].pc \notin Turns
        /\ \A u \in DOMAIN c : u \in DOMAIN c2
        /\ \A u \in Reads(c2) : u # t => u \in Reads(c) /\ c2[u].m = c[u].m
        /\ t \notin Reading(c) /\ t \notin Writing(c)
        /\ \A u : /\ u \in Reading(c2) <=> u \in Reading(c) \/ (u = t /\ n.m.op = "request")
                  /\ u \in Writing(c2) <=> u \in Writing(c)
                                           \/ (u = t /\ n.m.op \in {"write", "initialize"})
    BY <1>2, UnlockIs
  <1> HIDE DEF L, m
  <1>5. LineAgrees(L, s, d, k) /\ OneRequest(c, L, k) /\ TransfersAgree(c, s, d)
    BY <1>1 DEF Agree
  <1>6. s \in Nat /\ s <= k.life /\ k.life \in Nat
    BY KernelIs
  <1>7. m.op = c[t].pc
    BY <1>3, ThreadIs, OpsAre DEF m
  <1>8. c2[t] = n /\ n.m = m /\ n.m.op \notin PageOps
    BY <1>4, <1>7, OpsAre DEF m
  <1>9. Reading(c2) = Reading(c) /\ Writing(c2) = Writing(c)
    <2>1. n.m.op # "request" /\ n.m.op \notin {"write", "initialize"}
      BY <1>8, OpsAre
    <2>2. \A u : (u \in Reading(c2) <=> u \in Reading(c)) /\ (u \in Writing(c2) <=> u \in Writing(c))
      BY <1>4, <2>1
    <2> QED BY <2>2
  <1>10. OneRequest(c2, Shift(L), k2)
    <2>1. t \notin Reads(c2)
      BY <1>8, ReadsAre, OpsAre
    <2>2. \A u \in Reads(c2) : u \in Reads(c) /\ c2[u].m = c[u].m
      BY <1>4, <2>1
    <2> QED BY <1>4, <1>5, <2>2, RequestsShift
  <1>11. d.readers + d.writers = 0 /\ d.readers \in Nat /\ d.writers \in Nat
    <2>1. d.readers \in Nat /\ d.writers \in Nat
      BY DstructIs
    <2>2. CASE c[t].pc = "init"
      <3>1. ~d.request
        BY <1>3, <1>4, <1>5, <1>6, <1>7, <2>2, FirstIs
      <3> QED BY <1>5, <2>1, <3>1, TransfersAgreeIs
    <2>3. CASE c[t].pc = "terminate"
      <3>1. Fits(c[t], s, d)
        BY <1>5, TransfersAgreeIs
      <3> QED BY <2>1, <2>3, <3>1 DEF Fits
    <2> QED BY <2>2, <2>3
  <1>12. ASSUME NEW z
         PROVE  TransfersAgree(c2, z, d2)
    <2>1. Reading(c) = {} /\ Writing(c) = {}
      BY <1>5, <1>11, TransfersAre, TransfersAgreeIs
    <2>2. ASSUME NEW u \in DOMAIN c2, u # t
          PROVE  Fits(c2[u], z, d2)
      <3>1. u \in DOMAIN c /\ c2[u] = c[u] /\ c[u].pc \notin Turns
        BY <1>4, <2>2
      <3>2. c[u] \in ThreadRecords /\ u \notin Reading(c) /\ u \notin Writing(c)
        BY <2>1, <3>1, CrewIs
      <3>3. c[u].pc \in Moving => c[u].m.op \notin PageOps
        BY <3>1, <3>2, TransfersAre, OpsAre
      <3>4. c[u].pc \notin {"read", "release"}
        BY <3>2, <3>3, ThreadIs, OpsAre, PCsAre
      <3> QED BY <3>1, <3>3, <3>4, PCsAre DEF Fits
    <2>3. Fits(n, z, d2)
      BY <1>8 DEF Fits
    <2>4. \A u \in DOMAIN c2 : Fits(c2[u], z, d2)
      BY <1>8, <2>2, <2>3
    <2>5. ~(d2.readers + d2.writers > 0)
      BY <1>11
    <2> QED BY <1>5, <1>9, <2>4, <2>5, TransfersAgreeIs
  <1>13. CASE c[t].pc = "init"
    <2>1. s + 1 <= k.life /\ LineAgrees(Shift(L), s + 1, d2, k2)
      BY <1>3, <1>4, <1>5, <1>6, <1>7, <1>13, AfterInit
    <2>2. s + 1 \in 0..k2.life
      BY <1>6, <2>1
    <2>3. ~d.request
      BY <1>3, <1>4, <1>5, <1>6, <1>7, <1>13, FirstIs
    <2>4. NamesAgree(d2, l)
      BY <1>13, <2>3, ObjectIs DEF NamesAgree
    <2> QED BY <1>4, <1>10, <1>12, <2>1, <2>2, <2>4, ObjectIs DEF Agree
  <1>14. CASE c[t].pc = "terminate"
    <2>1. LineAgrees(Shift(L), s, d2, k2)
      BY <1>3, <1>4, <1>5, <1>6, <1>7, <1>14, AfterTerminate
    <2>2. NamesAgree(d2, l)
      BY <1>14, ObjectIs DEF NamesAgree
    <2> QED BY <1>4, <1>6, <1>10, <1>12, <2>1, <2>2, ObjectIs DEF Agree
  <1> QED BY <1>13, <1>14

\* default_pager_no_senders, the last message.
LEMMA DeleteStep ==
    ASSUME NEW c \in Crews, NEW t \in DOMAIN c, NEW n \in ThreadRecords, NEW c2, Becomes(c, c2, t, n),
           c[t].pc = "no_senders", n.pc = "idle",
           NEW d \in Dstructs, NEW d2 \in Dstructs, NEW q \in Seq(Messages), NEW r \in Seqnos,
           NEW k \in KernelObjects, ObjectAgrees(c, d, q, r, k, FALSE),
           d2.seqno = d.seqno, d2.deleted, d2.request = d.request,
           d2.readers = d.readers, d2.writers = d.writers
    PROVE  ObjectAgrees(c2, d2, q, r, k, FALSE) /\ ~d.request /\ ~d.deleted
  <1> DEFINE L == Line(c, d.seqno, q)
             m == c[t].m
             w == Cardinality(Pending(c))
  <1>1. PICK s \in 0..k.life : Agree(c, L, s, d, k)
    BY ObjectIs
  <1>2. t \in Threads /\ c[t].pc \in Turns /\ n.o = None /\ d.seqno \in Seqnos
    BY CrewIs, PCsAre, ThreadIs, DstructIs
  <1>3. /\ c[t] \in ThreadRecords /\ m \in Messages /\ <<0, m>> \in L /\ t \in Pending(c)
        /\ Place(c, d.seqno, t) = 0 /\ \A u \in DOMAIN c \ {t} : c[u].pc \notin Turns
    BY <1>2, TurnIs
  <1>4. L \in Lines
    BY <1>2, LineIs
  <1>5. m.op = "no_senders"
    BY <1>3, ThreadIs, OpsAre
  <1>6. LineAgrees(L, s, d, k) /\ OneRequest(c, L, k) /\ TransfersAgree(c, s, d)
    BY <1>1 DEF Agree
  <1>7. s \in Nat /\ s <= k.life /\ k.life \in Nat
    BY KernelIs
  <1> HIDE DEF L, m
  <1>8. ~d.request /\ ~d.deleted
    BY <1>3, <1>4, <1>5, <1>6, <1>7, FirstIs
  <1>9. L = {<<0, m>>} /\ LineAgrees({}, s, d2, k)
    BY <1>3, <1>4, <1>5, <1>6, <1>7, <1>8, AfterNoSenders
  <1>10. ASSUME NEW u \in Pending(c)
         PROVE  u = t
    <2>1. <<Place(c, d.seqno, u), c[u].m>> \in Line(c, d.seqno, q)
      BY <1>2, LineIs
    <2>2. Place(c, d.seqno, u) = 0
      BY <1>9, <2>1 DEF L
    <2>3. TurnsAgree(c, d, r)
      BY ObjectIs
    <2> QED BY <1>3, <2>2, <2>3 DEF TurnsAgree
  <1>11. w = 1
    <2>1. Pending(c) = {t}
      BY <1>3, <1>10
    <2> QED BY <2>1, FS_Singleton
  <1>12. q = <<>>
    <2> SUFFICES ASSUME q # <<>>
                 PROVE  FALSE
      OBVIOUS
    <2>1. 1 \in 1..Len(q)
      OBVIOUS
    <2>2. <<w + 1 - 1, q[1]>> \in Line(c, d.seqno, q)
      BY <1>2, <2>1, LineIs
    <2>3. w + 1 - 1 = 0
      BY <1>9, <2>2 DEF L
    <2> HIDE DEF w
    <2> QED BY <1>11, <2>3
  <1>13. /\ c2 \in Crews
         /\ \A u : u \in DOMAIN c2 <=> u \in DOMAIN c /\ u # t
         /\ \A u \in DOMAIN c2 : c2[u] = c[u]
    BY <1>2, BecomesIs
  <1>14. Pending(c2) = {}
    BY <1>10, <1>13 DEF Pending
  <1>15. Line(c2, d2.seqno, q) = {}
    <2>1. \A x \in Line(c2, d2.seqno, q) : InThread(c2, d2.seqno, x) \/ InQueue(c2, q, x)
      BY <1>2, <1>13, LineIs
    <2> QED BY <1>12, <1>14, <2>1 DEF InThread, InQueue
  <1>16. TurnsAgree(c2, d2, r)
    BY <1>14 DEF TurnsAgree
  <1>17. c[t].pc \notin Moving \cup {"finish"} /\ ~Reads1(n) /\ ~Writes1(n)
    BY <1>2, PCsAre DEF Reads1, Writes1
  <1>18. Reading(c2) = Reading(c) /\ Writing(c2) = Writing(c)
    BY <1>2, <1>17, SameTransfers DEF Reads1, Writes1
  <1>19. \A u \in Reads(c2) : u \in Reads(c) /\ c2[u].m = c[u].m
    BY <1>13, ReadsAre
  <1>20. OneRequest(c2, {}, k)
    BY <1>6, <1>19, RequestsStay
  <1>21. TransfersAgree(c2, s, d2)
    <2>1. d.readers \in Nat /\ d.writers \in Nat /\ ~(d.readers + d.writers > 0)
      BY <1>6, <1>8, DstructIs, TransfersAgreeIs
    <2>2. d.readers = 0 /\ d.writers = 0
      BY <2>1
    <2>3. Reading(c) = {}
      BY <1>6, <2>2, TransfersAre, TransfersAgreeIs
    <2>4. ASSUME NEW u \in DOMAIN c2
          PROVE  Fits(c2[u], s, d2)
      <3>1. u \in DOMAIN c /\ c2[u] = c[u] /\ Fits(c[u], s, d) /\ c[u] \in ThreadRecords
        BY <1>6, <1>13, CrewIs, TransfersAgreeIs
      <3>2. c[u].pc \notin {"read", "release"}
        BY <2>3, <3>1, ThreadIs, OpsAre, PCsAre, TransfersAre
      <3> QED BY <3>1, <3>2 DEF Fits
    <2> QED BY <1>6, <1>18, <2>1, <2>4, TransfersAgreeIs
  <1>22. NamesAgree(d2, FALSE)
    BY <1>8 DEF NamesAgree
  <1> QED BY <1>7, <1>8, <1>9, <1>15, <1>16, <1>20, <1>21, <1>22, ObjectIs DEF Agree

LEMMA ReceiveStep ==
    ASSUME NEW c \in Crews, NEW t \in Threads, t \notin DOMAIN c, NEW n \in ThreadRecords,
           NEW c2, Becomes(c, c2, t, n),
           NEW d \in Dstructs, NEW q \in Seq(Messages), q # <<>>, NEW r \in Seqnos,
           NEW k \in KernelObjects, NEW l, ObjectAgrees(c, d, q, r, k, l),
           n.o # None, n.pc = "lock", n.m = Head(q), n.seqno = r
    PROVE  ObjectAgrees(c2, d, Tail(q), Succ(r), k, l)
  <1> DEFINE L == Line(c, d.seqno, q)
  <1>1. PICK s \in 0..k.life : Agree(c, L, s, d, k)
    BY ObjectIs
  <1>2. d.seqno \in Seqnos
    BY DstructIs
  <1>3. L # {}
    <2>1. 1 \in 1..Len(q)
      OBVIOUS
    <2>2. <<Cardinality(Pending(c)) + 1 - 1, q[1]>> \in L
      BY <1>2, <2>1, LineIs
    <2> QED BY <2>2
  <1>4. c2 = Put(c, t, n)
    BY DEF Becomes, Changed
  <1>6. LineAgrees(L, s, d, k) /\ OneRequest(c, L, k) /\ TransfersAgree(c, s, d)
    BY <1>1 DEF Agree
  <1>7. ~d.deleted
    BY <1>3, <1>6 DEF LineAgrees, Complete
  <1>8. TurnsAgree(c2, d, Succ(r)) /\ Line(c2, d.seqno, Tail(q)) = L
    BY <1>4, <1>7, ObjectIs, ReceiveKeepsLine
  <1> HIDE DEF L
  <1>9. ~Reads1(n) /\ ~Writes1(n) /\ n.pc \notin Moving
    BY PCsAre DEF Reads1, Writes1
  <1>10. Reading(c2) = Reading(c) /\ Writing(c2) = Writing(c)
    BY <1>9, SameTransfers
  <1>11. /\ \A u \in DOMAIN c2 : u = t => c2[u] = n
         /\ \A u \in DOMAIN c2 : u # t => u \in DOMAIN c /\ c2[u] = c[u]
    BY BecomesIs
  <1>12. \A u \in Reads(c2) : u \in Reads(c) /\ c2[u].m = c[u].m
    BY <1>9, <1>11, ReadsAre
  <1>13. OneRequest(c2, L, k)
    BY <1>6, <1>12, RequestsStay
  <1>14. TransfersAgree(c2, s, d)
    <2>1. Fits(n, s, d)
      BY <1>9 DEF Fits
    <2>2. d.readers + d.writers > 0 => d.request
      BY <1>6, TransfersAgreeIs
    <2> QED BY <1>6, <1>10, <1>11, <2>1, <2>2, TransfersStay
  <1> QED BY <1>6, <1>8, <1>13, <1>14, ObjectIs DEF Agree

-----------------------------------------------------------------------------
(* The steps of the kernel                                                 *)

LEMMA MemoryStep ==
    ASSUME NEW c \in Crews, NEW d \in Dstructs, NEW q \in Seq(Messages), NEW r \in Seqnos,
           NEW k \in KernelObjects, NEW k2, NEW l, ObjectAgrees(c, d, q, r, k, l),
           k2.life = k.life, k2.active = k.active, k2.senders = k.senders,
           ~k.active => k2.memory = k.memory,
           \A p \in Pages : k.memory[p] = Wanted => k2.memory[p] = Wanted
    PROVE  ObjectAgrees(c, d, q, r, k2, l)
  <1> DEFINE L == Line(c, d.seqno, q)
  <1>1. PICK s \in 0..k.life : Agree(c, L, s, d, k)
    BY ObjectIs
  <1>2. L \in Lines
    BY DstructIs, LineIs
  <1> HIDE DEF L
  <1>3. LineAgrees(L, s, d, k) /\ OneRequest(c, L, k) /\ TransfersAgree(c, s, d)
    BY <1>1 DEF Agree
  <1>4. LineAgrees(L, s, d, k2)
    BY <1>3, StoryStays DEF SameStory
  <1>5. \A m \in Messages : Waited(m, k) => Waited(m, k2)
    BY MessageIs, OpsAre DEF Waited
  <1>6. \A x \in L : x[2] \in Messages
    BY <1>2, LineElements
  <1>7. \A u \in Reads(c) : c[u].m \in Messages
    BY ReadsAre, CrewIs, ThreadIs
  <1>8. OneRequest(c, L, k2)
    BY <1>3, <1>5, <1>6, <1>7, RequestsStay
  <1> QED BY <1>3, <1>4, <1>8, ObjectIs DEF Agree, L

\* Messages of the present life, of which the object is not told otherwise.
LEMMA PageMessageStep ==
    ASSUME NEW c \in Crews, NEW d \in Dstructs, NEW q \in Seq(Messages), NEW r \in Seqnos,
           NEW k \in KernelObjects, NEW k2, NEW l, ObjectAgrees(c, d, q, r, k, l),
           NEW m \in Messages, m.op \in PageOps, m.life = k.life, k.active,
           k2.life = k.life, k2.active = k.active, k2.senders = k.senders,
           \A p \in Pages : k.memory[p] = Wanted => k2.memory[p] = Wanted,
           m.op = "request" => k.memory[m.page] # Wanted /\ k2.memory[m.page] = Wanted
    PROVE  ObjectAgrees(c, d, Append(q, m), r, k2, l)
  <1> DEFINE L == Line(c, d.seqno, q)
             L2 == Line(c, d.seqno, Append(q, m))
  <1>1. PICK s \in 0..k.life : Agree(c, L, s, d, k)
    BY ObjectIs
  <1>2. L \in Lines /\ TurnsAgree(c, d, r)
    BY DstructIs, LineIs, ObjectIs
  <1>3. PICK e \in Nat : L2 = Sent(L, e, m) /\ \A x \in L : x[1] < e
    BY <1>2, SendIs DEF Sent
  <1> HIDE DEF L, L2
  <1>4. LineAgrees(L, s, d, k) /\ OneRequest(c, L, k) /\ TransfersAgree(c, s, d)
    BY <1>1 DEF Agree
  <1>5. s \in Nat /\ s <= k.life /\ SameStory(d, d, k, k2)
    BY KernelIs DEF SameStory
  <1>6. LineAgrees(L2, s, d, k2)
    BY <1>2, <1>3, <1>4, <1>5, SendPageOp
  <1>7. \A n \in Messages : Waited(n, k) => Waited(n, k2)
    BY MessageIs, OpsAre DEF Waited
  <1>8. /\ \A x \in L : x[2] \in Messages
        /\ \A u \in Reads(c) : c[u].m \in Messages
    BY <1>2, LineElements, ReadsAre, CrewIs, ThreadIs
  <1>9. CASE m.op = "request"
    <2>1. OneRequest(c, L2, k2)
      BY <1>2, <1>3, <1>4, <1>7, <1>8, <1>9, RequestSent
    <2> QED BY <1>2, <1>4, <1>5, <1>6, <2>1, ObjectIs DEF Agree, L2
  <1>10. CASE m.op # "request"
    <2>1. \A x \in L2 : x \in L \/ x[2].op # "request"
      BY <1>2, <1>3, <1>10, SentIs
    <2>2. OneRequest(c, L2, k2)
      BY <1>4, <1>7, <1>8, <2>1, RequestsStay
    <2> QED BY <1>2, <1>4, <1>5, <1>6, <2>2, ObjectIs DEF Agree, L2
  <1> QED BY <1>9, <1>10

\* Messages with which a life begins or ends, or the last one.
LEMMA LifeMessageStep ==
    ASSUME NEW c \in Crews, NEW d \in Dstructs, NEW q \in Seq(Messages), NEW r \in Seqnos,
           NEW k \in KernelObjects, NEW k2 \in KernelObjects, NEW l, ObjectAgrees(c, d, q, r, k, l),
           NEW m \in Messages,
           \/ /\ m.op = "terminate" /\ m.life = k.life /\ k.active /\ ~k2.active
              /\ k2.life = k.life /\ k2.senders = k.senders /\ k2.memory = [p \in Pages |-> Out]
           \/ /\ m.op = "init" /\ m.life = k.life + 1 /\ ~k.active /\ k.senders /\ k2.active
              /\ k2.life = k.life + 1 /\ k2.senders /\ k2.memory = k.memory
           \/ /\ m.op = "no_senders" /\ m.life = k.life /\ ~k.active /\ k.senders /\ ~k2.active
              /\ k2.life = k.life /\ ~k2.senders /\ k2.memory = k.memory
    PROVE  ObjectAgrees(c, d, Append(q, m), r, k2, l)
  <1> DEFINE L == Line(c, d.seqno, q)
             L2 == Line(c, d.seqno, Append(q, m))
  <1>1. PICK s \in 0..k.life : Agree(c, L, s, d, k)
    BY ObjectIs
  <1>2. L \in Lines /\ TurnsAgree(c, d, r)
    BY DstructIs, LineIs, ObjectIs
  <1>3. PICK e \in Nat : L2 = Sent(L, e, m) /\ \A x \in L : x[1] < e
    BY <1>2, SendIs DEF Sent
  <1> HIDE DEF L, L2
  <1>4. LineAgrees(L, s, d, k) /\ OneRequest(c, L, k) /\ TransfersAgree(c, s, d)
    BY <1>1 DEF Agree
  <1>5. s \in Nat /\ s <= k.life /\ k.life \in Nat
    BY KernelIs
  <1>6. LineAgrees(L2, s, d, k2)
    <2>1. CASE m.op = "terminate"
      BY <1>2, <1>3, <1>4, <1>5, <2>1, SendTerminate
    <2>2. CASE m.op = "init"
      BY <1>2, <1>3, <1>4, <1>5, <2>2, SendInit
    <2>3. CASE m.op = "no_senders"
      BY <1>2, <1>3, <1>4, <1>5, <2>3, SendNoSenders
    <2> QED BY <2>1, <2>2, <2>3
  <1>7. \A x \in L2 : x \in L \/ x[2].op # "request"
    BY <1>2, <1>3, SentIs
  <1>8. \A n : n.life \in Nat /\ n.life <= k.life => Waited(n, k2)
    BY <1>5 DEF Waited
  <1>9. \A x \in L : x[2].life \in Nat /\ x[2].life <= k.life
    BY <1>2, <1>4, LineElements DEF LineAgrees, Current
  <1>10. \A u \in Reads(c) : c[u].m.life \in Nat /\ c[u].m.life <= k.life
    <2> SUFFICES ASSUME NEW u \in Reads(c)
                 PROVE  c[u].m.life = s
      BY <1>5
    <2>1. u \in DOMAIN c /\ c[u].m.op = "request" /\ c[u].pc \in Moving
      BY ReadsAre
    <2>2. Fits(c[u], s, d)
      BY <1>4, <2>1, TransfersAgreeIs
    <2> QED BY <2>1, <2>2, OpsAre DEF Fits
  <1>11. OneRequest(c, L2, k2)
    BY <1>4, <1>7, <1>8, <1>9, <1>10, RequestsStay
  <1>12. s \in 0..k2.life
    BY <1>5
  <1> QED BY <1>2, <1>4, <1>6, <1>11, <1>12, ObjectIs DEF Agree, L2

-----------------------------------------------------------------------------
(* From an object to the state                                             *)

Objs(th, D, Q, R, K, l) ==
    \A o \in Objects : ObjectAgrees(CrewOf(th, o), D[o], Q[o], R[o], K[o], l = o)

OwnedBy(D, F) ==
    \A b \in Blocks :
       /\ b \in F <=> \A o \in Objects, p \in Pages : D[o].map[p] # b
       /\ \A o, o2 \in Objects, p, p2 \in Pages :
             D[o].map[p] = b /\ D[o2].map[p2] = b => o = o2 /\ p = p2

LEMMA PagerInvIs ==
    /\ PagerInv <=> TypeOK /\ OwnedBy(ds, free) /\ Objs(thread, ds, queue, received, kernel, lister)
    /\ PagerInv' <=> /\ TypeOK' /\ OwnedBy(ds', free')
                     /\ Objs(thread', ds', queue', received', kernel', lister')
  BY DEF PagerInv, BlocksOwned, OwnedBy, Objs

LEMMA TypesAre ==
    ASSUME PagerInv
    PROVE  /\ ds \in [Objects -> Dstructs] /\ waiting \in [Objects -> [Conditions -> SUBSET Threads]]
           /\ thread \in [Threads -> ThreadRecords] /\ lister \in Objects \cup {None}
           /\ free \subseteq Blocks /\ disk \in [Blocks -> Values]
           /\ queue \in [Objects -> Seq(Messages)] /\ received \in [Objects -> Seqnos]
           /\ kernel \in [Objects -> KernelObjects] /\ content \in [Objects -> [Pages -> Values]]
  BY DEF PagerInv, TypeOK

\* Thread t, which works for o or has begun to, is n afterwards.
Works(th, t, o, n) ==
    /\ th \in [Threads -> ThreadRecords] /\ t \in Threads /\ o \in Objects
    /\ th[t].o \in {o, None}
    /\ n \in ThreadRecords /\ n.o \in {o, None}

LEMMA WorksIs ==
    ASSUME NEW th, NEW t, NEW o, NEW n, Works(th, t, o, n)
    PROVE  /\ CrewOf(Upd(th, t, n), o) = Changed(CrewOf(th, o), t, n)
           /\ \A x \in Objects \ {o} : CrewOf(Upd(th, t, n), x) = CrewOf(th, x)
  <1>1. /\ th \in [Threads -> ThreadRecords] /\ t \in Threads /\ o \in Objects
        /\ th[t].o \in {o, None}
        /\ n \in ThreadRecords /\ n.o \in {o, None}
    BY DEF Works
  <1> QED BY <1>1, CrewChange

LEMMA CrewStep ==
    ASSUME NEW th, NEW t, NEW o \in Objects, NEW n, Works(th, t, o, n),
           NEW D, NEW Q, NEW R, NEW K, NEW l,
           DOMAIN D = Objects, DOMAIN Q = Objects, DOMAIN R = Objects, DOMAIN K = Objects,
           Objs(th, D, Q, R, K, l), NEW d2, NEW q2, NEW r2, NEW k2,
           ObjectAgrees(Changed(CrewOf(th, o), t, n), d2, q2, r2, k2, l = o)
    PROVE  Objs(Upd(th, t, n), Upd(D, o, d2), Upd(Q, o, q2), Upd(R, o, r2), Upd(K, o, k2), l)
  <1> DEFINE th2 == Upd(th, t, n)
             D2 == Upd(D, o, d2)
             Q2 == Upd(Q, o, q2)
             R2 == Upd(R, o, r2)
             K2 == Upd(K, o, k2)
  <1>1. /\ CrewOf(th2, o) = Changed(CrewOf(th, o), t, n)
        /\ \A x \in Objects \ {o} : CrewOf(th2, x) = CrewOf(th, x)
    BY WorksIs
  <1>2. /\ D2[o] = d2 /\ Q2[o] = q2 /\ R2[o] = r2 /\ K2[o] = k2
        /\ \A x \in Objects \ {o} : D2[x] = D[x] /\ Q2[x] = Q[x] /\ R2[x] = R[x] /\ K2[x] = K[x]
    BY DEF Upd
  <1> HIDE DEF th2, D2, Q2, R2, K2
  <1>3. ASSUME NEW x \in Objects
        PROVE  ObjectAgrees(CrewOf(th2, x), D2[x], Q2[x], R2[x], K2[x], l = x)
    <2>1. CASE x = o
      BY <1>1, <1>2, <2>1
    <2>2. CASE x # o
      <3>1. ObjectAgrees(CrewOf(th, x), D[x], Q[x], R[x], K[x], l = x)
        BY DEF Objs
      <3> QED BY <1>1, <1>2, <2>2, <3>1
    <2> QED BY <2>1, <2>2
  <1>4. Objs(th2, D2, Q2, R2, K2, l)
    BY <1>3 DEF Objs
  <1> QED BY <1>4 DEF th2, D2, Q2, R2, K2

\* What a step of thread t changes in the state, and of what type it is.
Changes(t, o, n, d2, q2, r2, k2) ==
    /\ Works(thread, t, o, n) /\ thread' = Upd(thread, t, n)
    /\ d2 \in Dstructs /\ ds' = Upd(ds, o, d2)
    /\ q2 \in Seq(Messages) /\ queue' = Upd(queue, o, q2)
    /\ r2 \in Seqnos /\ received' = Upd(received, o, r2)
    /\ k2 \in KernelObjects /\ kernel' = Upd(kernel, o, k2)
    /\ waiting' \in [Objects -> [Conditions -> SUBSET Threads]]
    /\ disk' \in [Blocks -> Values]
    /\ UNCHANGED <<lister, content>>

LEMMA ServerStep ==
    ASSUME PagerInv, NEW t, NEW o, NEW n, NEW d2, NEW q2, NEW r2, NEW k2,
           Changes(t, o, n, d2, q2, r2, k2),
           ObjectAgrees(Changed(CrewOf(thread, o), t, n), d2, q2, r2, k2, lister = o),
           OwnedBy(ds', free'), free' \subseteq Blocks
    PROVE  PagerInv'
  <1>1. thread' \in [Threads -> ThreadRecords] /\ ds' \in [Objects -> Dstructs]
        /\ queue' \in [Objects -> Seq(Messages)] /\ received' \in [Objects -> Seqnos]
        /\ kernel' \in [Objects -> KernelObjects]
    BY TypesAre DEF Changes, Works, Upd
  <1>2. /\ waiting' \in [Objects -> [Conditions -> SUBSET Threads]]
        /\ disk' \in [Blocks -> Values] /\ lister' = lister /\ content' = content
    BY DEF Changes
  <1>3. TypeOK'
    BY <1>1, <1>2, TypesAre DEF TypeOK
  <1>4. Works(thread, t, o, n) /\ o \in Objects
    BY DEF Changes, Works
  <1>5. /\ DOMAIN ds = Objects /\ DOMAIN queue = Objects /\ DOMAIN received = Objects
        /\ DOMAIN kernel = Objects
    BY TypesAre
  <1>6. Objs(thread, ds, queue, received, kernel, lister)
    BY PagerInvIs
  <1>7. Objs(Upd(thread, t, n), Upd(ds, o, d2), Upd(queue, o, q2), Upd(received, o, r2),
             Upd(kernel, o, k2), lister)
    BY <1>4, <1>5, <1>6, CrewStep
  <1>8. Objs(thread', ds', queue', received', kernel', lister')
    BY <1>2, <1>7 DEF Changes
  <1> QED BY <1>3, <1>8, PagerInvIs

\* A thread that is not idle works for an object.
LEMMA AtWork ==
    ASSUME PagerInv, NEW t \in Threads, thread[t].pc # "idle"
    PROVE  LET o == Obj(t)
               c == CrewOf(thread, o)
           IN /\ o \in Objects /\ thread[t] \in ThreadRecords
              /\ c \in Crews /\ t \in DOMAIN c /\ c[t] = thread[t]
              /\ ds[o] \in Dstructs /\ queue[o] \in Seq(Messages) /\ received[o] \in Seqnos
              /\ kernel[o] \in KernelObjects
              /\ ObjectAgrees(c, ds[o], queue[o], received[o], kernel[o], lister = o)
  <1> DEFINE o == Obj(t)
  <1>1. thread[t] \in ThreadRecords /\ o \in Objects
    BY TypesAre, ThreadIs DEF Obj
  <1>2. CrewOf(thread, o) \in Crews /\ t \in DOMAIN CrewOf(thread, o)
        /\ CrewOf(thread, o)[t] = thread[t]
    BY TypesAre, CrewHas DEF Obj
  <1>3. Objs(thread, ds, queue, received, kernel, lister)
    BY PagerInvIs
  <1> HIDE DEF o
  <1>4. ObjectAgrees(CrewOf(thread, o), ds[o], queue[o], received[o], kernel[o], lister = o)
    BY <1>1, <1>3 DEF Objs
  <1> QED BY <1>1, <1>2, <1>4, TypesAre DEF o

LEMMA UnchangedAt ==
    ASSUME NEW o \in Objects, PagerInv
    PROVE  /\ ds = Upd(ds, o, ds[o]) /\ queue = Upd(queue, o, queue[o])
           /\ received = Upd(received, o, received[o]) /\ kernel = Upd(kernel, o, kernel[o])
  BY TypesAre DEF Upd

\* Nothing changes but the thread, and what the crews are not about.
ThreadChanges(t, n) ==
    /\ n \in ThreadRecords /\ n.o \in {Obj(t), None} /\ thread' = Upd(thread, t, n)
    /\ UNCHANGED <<ds, lister, free, queue, received, kernel, content>>
    /\ waiting' \in [Objects -> [Conditions -> SUBSET Threads]] /\ disk' \in [Blocks -> Values]

LEMMA ThreadStep ==
    ASSUME PagerInv, NEW t \in Threads, thread[t].pc # "idle", NEW n, ThreadChanges(t, n),
           ObjectAgrees(Changed(CrewOf(thread, Obj(t)), t, n), ds[Obj(t)], queue[Obj(t)],
                        received[Obj(t)], kernel[Obj(t)], lister = Obj(t))
    PROVE  PagerInv'
  <1> DEFINE o == Obj(t)
             d2 == ds[o]
             q2 == queue[o]
             r2 == received[o]
             k2 == kernel[o]
  <1>1. o \in Objects /\ d2 \in Dstructs /\ q2 \in Seq(Messages) /\ r2 \in Seqnos
        /\ k2 \in KernelObjects /\ thread[t].o = o
    BY AtWork DEF Obj
  <1>2. Works(thread, t, o, n)
    BY <1>1, TypesAre DEF Works, ThreadChanges
  <1>3. ds' = Upd(ds, o, d2) /\ queue' = Upd(queue, o, q2) /\ received' = Upd(received, o, r2)
        /\ kernel' = Upd(kernel, o, k2)
    BY TypesAre DEF Upd, ThreadChanges
  <1>4. OwnedBy(ds', free') /\ free' \subseteq Blocks
    BY PagerInvIs, TypesAre DEF ThreadChanges
  <1>5. ObjectAgrees(Changed(CrewOf(thread, o), t, n), d2, q2, r2, k2, lister = o)
    OBVIOUS
  <1> HIDE DEF o, d2, q2, r2, k2
  <1>6. Changes(t, o, n, d2, q2, r2, k2)
    BY <1>1, <1>2, <1>3 DEF Changes, ThreadChanges
  <1> QED BY <1>4, <1>5, <1>6, ServerStep

\* condition_wait.
LEMMA WaitStep ==
    ASSUME PagerInv, NEW t \in Threads, thread[t].pc # "idle", NEW w \in Conditions, Wait(t, w)
    PROVE  PagerInv'
  <1>1. Obj(t) \in Objects
    BY AtWork
  <1>2. waiting' \in [Objects -> [Conditions -> SUBSET Threads]]
    BY <1>1, TypesAre DEF Wait
  <1>3. UNCHANGED <<ds, thread, lister, free, disk, queue, received, kernel, content>>
    BY DEF Wait, store, port
  <1>4. TypeOK'
    BY <1>2, <1>3, TypesAre DEF TypeOK
  <1> QED BY <1>3, <1>4, PagerInvIs

-----------------------------------------------------------------------------
(* The server threads                                                      *)

LEMMA RecordIs ==
    ASSUME NEW n \in ThreadFields,
           n.o = None <=> n.pc = "idle", n.m.op \in OpsAt(n.pc),
           n.pc \in {"lock"} \cup Turns \cup Moving => n.m \in Messages,
           n.pc \in {"read", "write"} => n.block # None,
           n.pc \in {"release", "reply"} => n.rc # "none"
    PROVE  n \in ThreadRecords
  BY DEF ThreadRecords

LEMMA NewThreadIs ==
    /\ NewThread \in ThreadRecords /\ NewThread \in ThreadFields
    /\ NewThread.pc = "idle" /\ NewThread.o = None /\ NewThread.m.op = "none"
    /\ NoMessage \in Requests
  <1>1. NoMessage \in Requests /\ NoMessage.op = "none"
    BY VersionsAre DEF NoMessage, Requests
  <1>2. "idle" \in PCs
    BY PCsAre
  <1>3. NewThread \in ThreadFields
    BY <1>1, <1>2, VersionsAre, ModulusIs DEF NewThread, ThreadFields
  <1>4. NewThread.pc = "idle" /\ NewThread.o = None /\ NewThread.m.op = "none"
    BY <1>1 DEF NewThread
  <1>5. NewThread.pc \notin {"lock", "read", "write", "release", "reply"} \cup Turns \cup Moving
    BY <1>4, PCsAre
  <1> QED BY <1>1, <1>3, <1>4, <1>5, OpsAre, RecordIs

\* After a transfer.
LEMMA EndingIs ==
    ASSUME NEW t, Obj(t) \in Objects, Msg(t).op \in PageOps
    PROVE  /\ Ending(t) \in ThreadRecords /\ Ending(t) \in ThreadFields
           /\ Ending(t).pc = "finish" /\ Ending(t).o = Obj(t) /\ Ending(t).m.op = Msg(t).op
  <1> DEFINE m == [NoMessage EXCEPT !.op = Msg(t).op]
             n == Ending(t)
  <1>1. m \in Requests /\ m.op = Msg(t).op
    <2>1. Msg(t).op \in Ops \cup {"none"}
      BY OpsAre
    <2> QED BY <2>1, NewThreadIs DEF Requests
  <1> HIDE DEF m
  <1>2. n = [NewThread EXCEPT !.pc = "finish", !.o = Obj(t), !.m = m]
    BY DEF Ending, m
  <1>3. "finish" \in PCs
    BY PCsAre
  <1>4. n \in ThreadFields
    BY <1>1, <1>2, <1>3, NewThreadIs DEF ThreadFields
  <1>5. n.pc = "finish" /\ n.o = Obj(t) /\ n.m = m
    BY <1>2, NewThreadIs DEF ThreadFields
  <1> HIDE DEF n
  <1>6. n.o # None
    BY <1>5, DefaultPagerAssumption
  <1>7. n.pc \notin {"lock", "read", "write", "release", "reply"} \cup Turns \cup Moving
    BY <1>5, PCsAre
  <1>8. n \in ThreadRecords
    BY <1>1, <1>4, <1>5, <1>6, <1>7, OpsAre, RecordIs
  <1> QED BY <1>1, <1>4, <1>5, <1>8 DEF n

\* Between r and n nothing begins or ends that the object has to know of.
Quiet(r, n, d, d2) ==
    /\ r.pc \notin {"idle", "lock"} \cup Turns /\ n.pc \notin {"lock"} \cup Turns
    /\ Reads1(r) <=> Reads1(n)
    /\ Writes1(r) <=> Writes1(n)
    /\ n.pc \in Moving => r.pc \in Moving /\ n.m = r.m
    /\ \A s : Fits(r, s, d) => Fits(n, s, d2)
    /\ \A p \in Pages : d2.map[p] = None
                        => d.map[p] = None \/ (r.pc = "release" /\ p = r.m.page)

LEMMA QuietThread ==
    ASSUME PagerInv, NEW t \in Threads, NEW n, ThreadChanges(t, n),
           Quiet(thread[t], n, ds[Obj(t)], ds[Obj(t)])
    PROVE  PagerInv'
  <1> DEFINE o == Obj(t)
             d == ds[o]
             c == CrewOf(thread, o)
             c2 == Changed(c, t, n)
  <1>1. thread[t].pc # "idle" /\ n \in ThreadRecords
    BY DEF Quiet, ThreadChanges
  <1>2. /\ c \in Crews /\ t \in DOMAIN c /\ c[t] = thread[t] /\ d \in Dstructs
        /\ queue[o] \in Seq(Messages) /\ received[o] \in Seqnos /\ kernel[o] \in KernelObjects
        /\ ObjectAgrees(c, d, queue[o], received[o], kernel[o], lister = o)
    BY <1>1, AtWork
  <1>3. Becomes(c, c2, t, n)
    BY DEF Becomes
  <1>4. Quiet(c[t], n, d, d)
    BY <1>2
  <1> HIDE DEF c, c2, d, o
  <1>5. ObjectAgrees(c2, d, queue[o], received[o], kernel[o], lister = o)
    BY <1>1, <1>2, <1>3, <1>4, QuietStep DEF Quiet
  <1> QED BY <1>1, <1>5, ThreadStep DEF c, c2, d, o

\* A thread that goes on as it is.
LEMMA GotoIs ==
    ASSUME NEW r \in ThreadRecords, NEW x \in PCs, NEW n, n = [r EXCEPT !.pc = x],
           x # "idle", r.pc # "idle", r.m.op \in OpsAt(x),
           x \in {"lock"} \cup Turns \cup Moving => r.m \in Messages,
           x \in {"read", "write"} => r.block # None, x \in {"release", "reply"} => r.rc # "none"
    PROVE  /\ n \in ThreadRecords /\ n.pc = x /\ n.o = r.o /\ n.m = r.m
           /\ n.block = r.block /\ n.rc = r.rc
  <1>1. r \in ThreadFields
    BY ThreadIs
  <1>2. /\ n \in ThreadFields /\ n.pc = x /\ n.o = r.o /\ n.m = r.m /\ n.block = r.block
        /\ n.rc = r.rc
    BY <1>1 DEF ThreadFields
  <1>3. n.o # None
    BY <1>2, ThreadIs
  <1> QED BY <1>2, <1>3, RecordIs

LEMMA BroadcastStep ==
    ASSUME PagerInv, NEW t \in Threads, Broadcast(t)
    PROVE  PagerInv'
  <1> DEFINE r == thread[t]
             n == CASE r.m.op = "request" /\ r.rc = "error" -> [r EXCEPT !.pc = "reply"]
                    [] r.m.op = "request" /\ r.rc /= "error" -> [r EXCEPT !.pc = "read_offset"]
                    [] r.m.op = "initialize" -> [r EXCEPT !.pc = "has_page"]
                    [] r.m.op = "write" -> [r EXCEPT !.pc = "write_offset"]
                    [] OTHER -> NewThread
  <1>1. r.pc = "broadcast" /\ thread' = Upd(thread, t, n)
        /\ UNCHANGED <<ds, lister, free, disk, queue, received, kernel, content>>
    BY DEF Broadcast, At, Msg, Upd, store, port
  <1>2. Obj(t) \in Objects /\ r \in ThreadRecords /\ r.o = Obj(t)
    BY <1>1, AtWork DEF Obj
  <1>3. waiting' \in [Objects -> [Conditions -> SUBSET Threads]]
    BY <1>2, TypesAre DEF Broadcast
  <1>4. r.m \in Messages /\ r.m.op \in Ops \ {"no_senders"} /\ r.pc \in Moving
    BY <1>1, <1>2, ThreadIs, OpsAre, PCsAre
  <1> HIDE DEF r
  <1>5. /\ n \in ThreadRecords /\ n.o \in {r.o, None}
        /\ n.pc \in {"reply", "read_offset"} => n.m = r.m /\ r.m.op = "request"
        /\ n.pc = "has_page" => n.m = r.m /\ r.m.op = "initialize"
        /\ n.pc = "write_offset" => n.m = r.m /\ r.m.op = "write"
        /\ n.pc = "idle" => n.m.op = "none" /\ r.m.op \notin PageOps
        /\ n.pc \in {"reply", "read_offset", "has_page", "write_offset", "idle"}
    <2>1. CASE r.m.op = "request" /\ r.rc = "error"
      <3>1. n = [r EXCEPT !.pc = "reply"]
        BY <2>1
      <3> HIDE DEF n
      <3> QED BY <1>1, <1>2, <1>4, <2>1, <3>1, GotoIs, PCsAre, OpsAre
    <2>2. CASE r.m.op = "request" /\ r.rc # "error"
      <3>1. n = [r EXCEPT !.pc = "read_offset"]
        BY <2>2
      <3> HIDE DEF n
      <3> QED BY <1>1, <1>2, <1>4, <2>2, <3>1, GotoIs, PCsAre, OpsAre
    <2>3. CASE r.m.op = "initialize"
      <3>1. n = [r EXCEPT !.pc = "has_page"]
        BY <2>3
      <3> HIDE DEF n
      <3> QED BY <1>1, <1>2, <1>4, <2>3, <3>1, GotoIs, PCsAre, OpsAre
    <2>4. CASE r.m.op = "write"
      <3>1. n = [r EXCEPT !.pc = "write_offset"]
        BY <2>4
      <3> HIDE DEF n
      <3> QED BY <1>1, <1>2, <1>4, <2>4, <3>1, GotoIs, PCsAre, OpsAre
    <2>5. CASE r.m.op \notin PageOps
      <3>1. n = NewThread
        BY <2>5, OpsAre
      <3> HIDE DEF n
      <3> QED BY <2>5, <3>1, NewThreadIs
    <2> QED BY <2>1, <2>2, <2>3, <2>4, <2>5, OpsAre
  <1> HIDE DEF n
  <1>6. ThreadChanges(t, n)
    BY <1>1, <1>2, <1>3, <1>5, TypesAre DEF ThreadChanges
  <1>7. ASSUME NEW d
        PROVE  Quiet(r, n, d, d)
    <2>1. (Reads1(r) <=> Reads1(n)) /\ (Writes1(r) <=> Writes1(n))
      BY <1>1, <1>5, OpsAre, PCsAre DEF Reads1, Writes1
    <2>2. \A s : Fits(r, s, d) => Fits(n, s, d)
      BY <1>4, <1>5, PCsAre DEF Fits
    <2> QED BY <1>1, <1>4, <1>5, <2>1, <2>2, PCsAre DEF Quiet
  <1> QED BY <1>6, <1>7, QuietThread DEF r

LEMMA ReadOffsetStep ==
    ASSUME PagerInv, NEW t \in Threads, ReadOffset(t)
    PROVE  PagerInv'
  <1> DEFINE r == thread[t]
             d == ds[Obj(t)]
             b == d.map[r.m.page]
             n == [r EXCEPT !.block = b, !.pc = IF b = None THEN "reply" ELSE "read",
                            !.rc = IF b = None THEN "absent" ELSE "none"]
  <1>1. r.pc = "read_offset" /\ thread' = Upd(thread, t, n)
        /\ UNCHANGED <<ds, waiting, lister, free, disk, queue, received, kernel, content>>
    BY DEF ReadOffset, At, Msg, Upd, pager, store, port
  <1>2. Obj(t) \in Objects /\ r \in ThreadRecords /\ r.o = Obj(t) /\ d \in Dstructs
    BY <1>1, AtWork DEF Obj
  <1>3. r.m \in Messages /\ r.m.op = "request" /\ r.pc \in Moving /\ r.m.page \in Pages
    BY <1>1, <1>2, ThreadIs, MessageIs, OpsAre, PCsAre
  <1>4. b \in Blocks \cup {None}
    BY <1>2, <1>3, DstructIs
  <1> HIDE DEF r, d, b
  <1>5. /\ n \in ThreadFields /\ n.o = r.o /\ n.m = r.m /\ n.block = b
        /\ b = None => n.pc = "reply" /\ n.rc = "absent"
        /\ b # None => n.pc = "read" /\ n.rc = "none"
    BY <1>2, <1>4, ThreadIs, PCsAre DEF ThreadFields
  <1> HIDE DEF n
  <1>6. n.pc \in {"read", "reply"} /\ n.pc \in Moving
    BY <1>5, PCsAre
  <1>7. n \in ThreadRecords
    <2>1. n.o # None /\ n.pc # "idle" /\ n.pc \notin {"write"}
      BY <1>1, <1>2, <1>5, <1>6, ThreadIs
    <2>2. n.m.op \in OpsAt(n.pc)
      BY <1>3, <1>5, <1>6, OpsAre, PCsAre
    <2> QED BY <1>3, <1>5, <2>1, <2>2, RecordIs
  <1>8. ThreadChanges(t, n)
    BY <1>1, <1>2, <1>5, <1>7, TypesAre DEF ThreadChanges
  <1>9. Quiet(r, n, d, d)
    <2>1. (Reads1(r) <=> Reads1(n)) /\ (Writes1(r) <=> Writes1(n))
      BY <1>3, <1>5, <1>6 DEF Reads1, Writes1
    <2>2. \A s : Fits(r, s, d) => Fits(n, s, d)
      BY <1>3, <1>5, <1>6 DEF Fits, b
    <2> QED BY <1>1, <1>3, <1>5, <1>6, <2>1, <2>2, PCsAre DEF Quiet
  <1> QED BY <1>8, <1>9, QuietThread DEF r, d

LEMMA ReadDiskStep ==
    ASSUME PagerInv, NEW t \in Threads, ReadDisk(t)
    PROVE  PagerInv'
  <1> DEFINE r == thread[t]
             d == ds[Obj(t)]
             n == [r EXCEPT !.data = disk[r.block], !.rc = "success", !.block = None,
                            !.pc = IF r.m.write THEN "release" ELSE "reply"]
  <1>1. r.pc = "read" /\ thread' = Upd(thread, t, n)
        /\ UNCHANGED <<ds, waiting, lister, free, disk, queue, received, kernel, content>>
    BY DEF ReadDisk, At, Msg, Upd, pager, store, port
  <1>2. Obj(t) \in Objects /\ r \in ThreadRecords /\ r.o = Obj(t) /\ d \in Dstructs
    BY <1>1, AtWork DEF Obj
  <1>3. r.m \in Messages /\ r.m.op = "request" /\ r.pc \in Moving /\ r.m.write \in BOOLEAN
    BY <1>1, <1>2, ThreadIs, MessageIs, OpsAre, PCsAre
  <1>4. disk[r.block] \in Values
    BY <1>1, <1>2, ThreadIs, TypesAre
  <1> HIDE DEF r, d
  <1>5. /\ n \in ThreadFields /\ n.o = r.o /\ n.m = r.m /\ n.rc = "success"
        /\ n.pc \in {"release", "reply"}
    BY <1>2, <1>3, <1>4, ThreadIs, PCsAre DEF ThreadFields
  <1> HIDE DEF n
  <1>6. n.pc \in Moving
    BY <1>5, PCsAre
  <1>7. n \in ThreadRecords
    <2>1. n.o # None /\ n.pc \notin {"idle", "read", "write"}
      BY <1>1, <1>2, <1>5, ThreadIs
    <2>2. n.m.op \in OpsAt(n.pc)
      BY <1>3, <1>5, OpsAre, PCsAre
    <2> QED BY <1>3, <1>5, <2>1, <2>2, RecordIs
  <1>8. ThreadChanges(t, n)
    BY <1>1, <1>2, <1>5, <1>7, TypesAre DEF ThreadChanges
  <1>9. Quiet(r, n, d, d)
    <2>1. (Reads1(r) <=> Reads1(n)) /\ (Writes1(r) <=> Writes1(n))
      BY <1>3, <1>5, <1>6 DEF Reads1, Writes1
    <2>2. \A s : Fits(r, s, d) => Fits(n, s, d)
      BY <1>1, <1>3, <1>5, <1>6 DEF Fits
    <2> QED BY <1>1, <1>3, <1>5, <1>6, <2>1, <2>2, PCsAre DEF Quiet
  <1> QED BY <1>8, <1>9, QuietThread DEF r, d

LEMMA ReadFailsStep ==
    ASSUME PagerInv, NEW t \in Threads, ReadFails(t)
    PROVE  PagerInv'
  <1> DEFINE r == thread[t]
             d == ds[Obj(t)]
             n == [r EXCEPT !.rc = "error", !.pc = "reply", !.block = None]
  <1>1. r.pc = "read" /\ thread' = Upd(thread, t, n)
        /\ UNCHANGED <<ds, waiting, lister, free, disk, queue, received, kernel, content>>
    BY DEF ReadFails, At, Msg, Upd, pager, store, port
  <1>2. Obj(t) \in Objects /\ r \in ThreadRecords /\ r.o = Obj(t) /\ d \in Dstructs
    BY <1>1, AtWork DEF Obj
  <1>3. r.m \in Messages /\ r.m.op = "request" /\ r.pc \in Moving
    BY <1>1, <1>2, ThreadIs, MessageIs, OpsAre, PCsAre
  <1> HIDE DEF r, d
  <1>5. n \in ThreadFields /\ n.o = r.o /\ n.m = r.m /\ n.rc = "error" /\ n.pc = "reply"
    BY <1>2, <1>3, ThreadIs, PCsAre DEF ThreadFields
  <1> HIDE DEF n
  <1>6. n.pc \in Moving
    BY <1>5, PCsAre
  <1>7. n \in ThreadRecords
    <2>1. n.o # None
      BY <1>1, <1>2, <1>5, ThreadIs
    <2>2. n.m.op \in OpsAt(n.pc)
      BY <1>3, <1>5, OpsAre, PCsAre
    <2> QED BY <1>3, <1>5, <2>1, <2>2, RecordIs
  <1>8. ThreadChanges(t, n)
    BY <1>1, <1>2, <1>5, <1>7, TypesAre DEF ThreadChanges
  <1>9. Quiet(r, n, d, d)
    <2>1. (Reads1(r) <=> Reads1(n)) /\ (Writes1(r) <=> Writes1(n))
      BY <1>3, <1>5, <1>6 DEF Reads1, Writes1
    <2>2. \A s : Fits(r, s, d) => Fits(n, s, d)
      BY <1>3, <1>5 DEF Fits
    <2> QED BY <1>1, <1>3, <1>5, <1>6, <2>1, <2>2, PCsAre DEF Quiet
  <1> QED BY <1>8, <1>9, QuietThread DEF r, d

LEMMA FinishedStep ==
    ASSUME PagerInv, NEW t \in Threads, Finished(t)
    PROVE  PagerInv'
  <1> DEFINE r == thread[t]
             d == ds[Obj(t)]
             n == NewThread
  <1>1. r.pc = "finished" /\ thread' = Upd(thread, t, n)
        /\ UNCHANGED <<ds, lister, free, disk, queue, received, kernel, content>>
    BY DEF Finished, At, Msg, Upd, store, port
  <1>2. Obj(t) \in Objects
    BY <1>1, AtWork DEF Obj
  <1>3. waiting' \in [Objects -> [Conditions -> SUBSET Threads]]
    <2> DEFINE w == IF r.m.op = "request" THEN "read" ELSE "write"
    <2>1. waiting' = [waiting EXCEPT ![Obj(t)][w] = {}]
      BY DEF Finished, Msg
    <2> HIDE DEF w
    <2> QED BY <1>2, <2>1, TypesAre
  <1> HIDE DEF r, d
  <1>4. ThreadChanges(t, n)
    BY <1>1, <1>2, <1>3, NewThreadIs, TypesAre DEF ThreadChanges
  <1>5. Quiet(r, n, d, d)
    <2>1. (Reads1(r) <=> Reads1(n)) /\ (Writes1(r) <=> Writes1(n))
      BY <1>1, NewThreadIs, PCsAre DEF Reads1, Writes1
    <2>2. \A s : Fits(r, s, d) => Fits(n, s, d)
      BY NewThreadIs, PCsAre DEF Fits
    <2> QED BY <1>1, <2>1, <2>2, NewThreadIs, PCsAre DEF Quiet
  <1> QED BY <1>4, <1>5, QuietThread DEF r, d

LEMMA HasPageStep ==
    ASSUME PagerInv, NEW t \in Threads, HasPage(t)
    PROVE  PagerInv'
  <1> DEFINE r == thread[t]
             d == ds[Obj(t)]
             n == IF d.map[r.m.page] = None THEN [r EXCEPT !.pc = "write_offset"] ELSE Ending(t)
  <1>1. r.pc = "has_page" /\ thread' = Upd(thread, t, n)
        /\ UNCHANGED <<ds, waiting, lister, free, disk, queue, received, kernel, content>>
    BY DEF HasPage, At, Msg, Upd, pager, store, port
  <1>2. Obj(t) \in Objects /\ r \in ThreadRecords /\ r.o = Obj(t) /\ Msg(t) = r.m
    BY <1>1, AtWork DEF Obj, Msg
  <1>3. r.m \in Messages /\ r.m.op = "initialize" /\ r.pc \in Moving
    BY <1>1, <1>2, ThreadIs, MessageIs, OpsAre, PCsAre
  <1> HIDE DEF r, d
  <1>4. /\ n \in ThreadRecords /\ n.o = r.o /\ n.m.op = r.m.op
        /\ n.pc = "write_offset" => n.m = r.m
        /\ n.pc \in {"write_offset", "finish"}
    <2>1. CASE d.map[r.m.page] = None
      <3>1. n = [r EXCEPT !.pc = "write_offset"]
        BY <2>1
      <3> HIDE DEF n
      <3> QED BY <1>1, <1>2, <1>3, <3>1, GotoIs, PCsAre, OpsAre
    <2>2. CASE d.map[r.m.page] # None
      <3>1. n = Ending(t)
        BY <2>2
      <3> HIDE DEF n
      <3> QED BY <1>2, <1>3, <3>1, EndingIs, OpsAre
    <2> QED BY <2>1, <2>2
  <1> HIDE DEF n
  <1>8. ThreadChanges(t, n)
    BY <1>1, <1>2, <1>4, TypesAre DEF ThreadChanges
  <1>9. Quiet(r, n, d, d)
    <2>1. (Reads1(r) <=> Reads1(n)) /\ (Writes1(r) <=> Writes1(n))
      BY <1>3, <1>4, PCsAre DEF Reads1, Writes1
    <2>2. \A s : Fits(r, s, d) => Fits(n, s, d)
      BY <1>3, <1>4, PCsAre DEF Fits
    <2> QED BY <1>1, <1>3, <1>4, <2>1, <2>2, PCsAre DEF Quiet
  <1> QED BY <1>8, <1>9, QuietThread DEF r, d

LEMMA WriteDiskStep ==
    ASSUME PagerInv, NEW t \in Threads, WriteDisk(t)
    PROVE  PagerInv'
  <1> DEFINE r == thread[t]
             d == ds[Obj(t)]
             n == Ending(t)
  <1>1. r.pc = "write" /\ thread' = Upd(thread, t, n)
        /\ UNCHANGED <<ds, waiting, lister, free, queue, received, kernel, content>>
        /\ disk' = [disk EXCEPT ![r.block] = r.m.data]
    BY DEF WriteDisk, At, Msg, Upd, pager, port
  <1>2. Obj(t) \in Objects /\ r \in ThreadRecords /\ r.o = Obj(t) /\ Msg(t) = r.m
    BY <1>1, AtWork DEF Obj, Msg
  <1>3. r.m \in Messages /\ r.m.op \in {"write", "initialize"} /\ r.pc \in Moving
    BY <1>1, <1>2, ThreadIs, MessageIs, OpsAre, PCsAre
  <1>4. disk' \in [Blocks -> Values]
    BY <1>1, <1>3, MessageIs, TypesAre
  <1> HIDE DEF r, d
  <1>5. n \in ThreadRecords /\ n.pc = "finish" /\ n.o = Obj(t) /\ n.m.op = r.m.op
    BY <1>2, <1>3, EndingIs, OpsAre
  <1> HIDE DEF n
  <1>8. ThreadChanges(t, n)
    BY <1>1, <1>2, <1>4, <1>5, TypesAre DEF ThreadChanges
  <1>9. Quiet(r, n, d, d)
    <2>1. (Reads1(r) <=> Reads1(n)) /\ (Writes1(r) <=> Writes1(n))
      BY <1>3, <1>5, PCsAre DEF Reads1, Writes1
    <2>2. \A s : Fits(r, s, d) => Fits(n, s, d)
      BY <1>5, PCsAre DEF Fits
    <2> QED BY <1>1, <1>3, <1>5, <2>1, <2>2, PCsAre DEF Quiet
  <1> QED BY <1>8, <1>9, QuietThread DEF r, d

LEMMA WriteFailsStep ==
    ASSUME PagerInv, NEW t \in Threads, WriteFails(t)
    PROVE  PagerInv'
  <1> DEFINE r == thread[t]
             d == ds[Obj(t)]
             n == [r EXCEPT !.pc = "write_error"]
  <1>1. r.pc = "write" /\ thread' = Upd(thread, t, n)
        /\ UNCHANGED <<ds, waiting, lister, free, disk, queue, received, kernel, content>>
    BY DEF WriteFails, At, Goto, Upd, pager, store, port
  <1>2. Obj(t) \in Objects /\ r \in ThreadRecords /\ r.o = Obj(t)
    BY <1>1, AtWork DEF Obj
  <1>3. r.m \in Messages /\ r.m.op \in {"write", "initialize"} /\ r.pc \in Moving
    BY <1>1, <1>2, ThreadIs, MessageIs, OpsAre, PCsAre
  <1> HIDE DEF r, d
  <1>5. n \in ThreadRecords /\ n.pc = "write_error" /\ n.o = r.o /\ n.m = r.m
    BY <1>1, <1>2, <1>3, GotoIs, PCsAre, OpsAre
  <1> HIDE DEF n
  <1>8. ThreadChanges(t, n)
    BY <1>1, <1>2, <1>5, TypesAre DEF ThreadChanges
  <1>9. Quiet(r, n, d, d)
    <2>1. (Reads1(r) <=> Reads1(n)) /\ (Writes1(r) <=> Writes1(n))
      BY <1>3, <1>5, PCsAre DEF Reads1, Writes1
    <2>2. \A s : Fits(r, s, d) => Fits(n, s, d)
      BY <1>3, <1>5, PCsAre DEF Fits
    <2> QED BY <1>1, <1>3, <1>5, <2>1, <2>2, PCsAre DEF Quiet
  <1> QED BY <1>8, <1>9, QuietThread DEF r, d

\* A step that also changes the block map of the object, or its errors.
SameCounts(d, d2) ==
    /\ d2.seqno = d.seqno /\ d2.deleted = d.deleted /\ d2.request = d.request
    /\ d2.readers = d.readers /\ d2.writers = d.writers /\ d2.name_refs = d.name_refs

LEMMA QuietServer ==
    ASSUME PagerInv, NEW t \in Threads, NEW n, NEW d2,
           Quiet(thread[t], n, ds[Obj(t)], d2), SameCounts(ds[Obj(t)], d2),
           Changes(t, Obj(t), n, d2, queue[Obj(t)], received[Obj(t)], kernel[Obj(t)]),
           OwnedBy(ds', free'), free' \subseteq Blocks
    PROVE  PagerInv'
  <1> DEFINE o == Obj(t)
             d == ds[o]
             c == CrewOf(thread, o)
             c2 == Changed(c, t, n)
  <1>1. thread[t].pc # "idle" /\ n \in ThreadRecords /\ d2 \in Dstructs
    BY DEF Quiet, Changes, Works
  <1>2. /\ c \in Crews /\ t \in DOMAIN c /\ c[t] = thread[t] /\ d \in Dstructs
        /\ queue[o] \in Seq(Messages) /\ received[o] \in Seqnos /\ kernel[o] \in KernelObjects
        /\ ObjectAgrees(c, d, queue[o], received[o], kernel[o], lister = o)
    BY <1>1, AtWork
  <1>3. Becomes(c, c2, t, n)
    BY DEF Becomes
  <1>4. Quiet(c[t], n, d, d2) /\ SameCounts(d, d2)
    BY <1>2
  <1> HIDE DEF c, c2, d, o
  <1>5. ObjectAgrees(c2, d2, queue[o], received[o], kernel[o], lister = o)
    BY <1>1, <1>2, <1>3, <1>4, QuietStep DEF Quiet, SameCounts
  <1> QED BY <1>5, ServerStep DEF c, c2, d, o

-----------------------------------------------------------------------------
(* Blocks                                                                  *)

LEMMA SameBlocks ==
    ASSUME NEW D, NEW D2, NEW F, OwnedBy(D, F),
           \A x \in Objects, p \in Pages : D2[x].map[p] = D[x].map[p]
    PROVE  OwnedBy(D2, F)
  BY DEF OwnedBy

LEMMA GiveBlock ==
    ASSUME NEW D, NEW D2, NEW F, OwnedBy(D, F), NEW o \in Objects, NEW p \in Pages,
           D2[o].map[p] = None,
           \A x \in Objects, q \in Pages : x # o \/ q # p => D2[x].map[q] = D[x].map[q]
    PROVE  OwnedBy(D2, F \cup {D[o].map[p]})
  <1>1. SUFFICES ASSUME NEW b \in Blocks
                 PROVE  /\ b \in F \cup {D[o].map[p]}
                              <=> \A x \in Objects, q \in Pages : D2[x].map[q] # b
                        /\ \A x, x2 \in Objects, q, q2 \in Pages :
                              D2[x].map[q] = b /\ D2[x2].map[q2] = b => x = x2 /\ q = q2
    BY DEF OwnedBy
  <1>2. b # None
    BY DefaultPagerAssumption
  <1>3. \A x \in Objects, q \in Pages :
           D2[x].map[q] = b <=> D[x].map[q] = b /\ ~(x = o /\ q = p)
    BY <1>2
  <1>4. /\ b \in F <=> \A x \in Objects, q \in Pages : D[x].map[q] # b
        /\ \A x, x2 \in Objects, q, q2 \in Pages :
              D[x].map[q] = b /\ D[x2].map[q2] = b => x = x2 /\ q = q2
    BY DEF OwnedBy
  <1>5. ASSUME b \in F \cup {D[o].map[p]}, NEW x \in Objects, NEW q \in Pages
        PROVE  D2[x].map[q] # b
    BY <1>3, <1>4, <1>5
  <1>6. ASSUME \A x \in Objects, q \in Pages : D2[x].map[q] # b
        PROVE  b \in F \cup {D[o].map[p]}
    BY <1>3, <1>4, <1>6
  <1> QED BY <1>3, <1>4, <1>5, <1>6

LEMMA TakeBlock ==
    ASSUME NEW D, NEW D2, NEW F, OwnedBy(D, F), F \subseteq Blocks, NEW f \in F,
           NEW o \in Objects, NEW p \in Pages, D[o].map[p] = None, D2[o].map[p] = f,
           \A x \in Objects, q \in Pages : x # o \/ q # p => D2[x].map[q] = D[x].map[q]
    PROVE  OwnedBy(D2, F \ {f})
  <1>1. SUFFICES ASSUME NEW b \in Blocks
                 PROVE  /\ b \in F \ {f} <=> \A x \in Objects, q \in Pages : D2[x].map[q] # b
                        /\ \A x, x2 \in Objects, q, q2 \in Pages :
                              D2[x].map[q] = b /\ D2[x2].map[q2] = b => x = x2 /\ q = q2
    BY DEF OwnedBy
  <1>2. b # None /\ f \in Blocks
    BY DefaultPagerAssumption
  <1>3. \A x \in Objects, q \in Pages :
           D2[x].map[q] = b <=> D[x].map[q] = b \/ (x = o /\ q = p /\ b = f)
    BY <1>2
  <1>4. /\ b \in F <=> \A x \in Objects, q \in Pages : D[x].map[q] # b
        /\ \A x, x2 \in Objects, q, q2 \in Pages :
              D[x].map[q] = b /\ D[x2].map[q2] = b => x = x2 /\ q = q2
    BY DEF OwnedBy
  <1>5. ASSUME b \in F \ {f}, NEW x \in Objects, NEW q \in Pages
        PROVE  D2[x].map[q] # b
    BY <1>3, <1>4, <1>5
  <1>6. ASSUME \A x \in Objects, q \in Pages : D2[x].map[q] # b
        PROVE  b \in F \ {f}
    BY <1>3, <1>4, <1>6
  <1> QED BY <1>3, <1>4, <1>5, <1>6

LEMMA GiveAll ==
    ASSUME NEW D, NEW D2, NEW F, OwnedBy(D, F), NEW o \in Objects,
           D[o].map \in [Pages -> Blocks \cup {None}],
           \A q \in Pages : D2[o].map[q] = None,
           \A x \in Objects, q \in Pages : x # o => D2[x].map[q] = D[x].map[q]
    PROVE  OwnedBy(D2, F \cup (Range(D[o].map) \ {None}))
  <1> DEFINE G == Range(D[o].map) \ {None}
  <1>1. SUFFICES ASSUME NEW b \in Blocks
                 PROVE  /\ b \in F \cup G <=> \A x \in Objects, q \in Pages : D2[x].map[q] # b
                        /\ \A x, x2 \in Objects, q, q2 \in Pages :
                              D2[x].map[q] = b /\ D2[x2].map[q2] = b => x = x2 /\ q = q2
    BY DEF OwnedBy
  <1>2. b # None
    BY DefaultPagerAssumption
  <1>3. \A x \in Objects, q \in Pages : D2[x].map[q] = b <=> D[x].map[q] = b /\ x # o
    BY <1>2
  <1>4. /\ b \in F <=> \A x \in Objects, q \in Pages : D[x].map[q] # b
        /\ \A x, x2 \in Objects, q, q2 \in Pages :
              D[x].map[q] = b /\ D[x2].map[q2] = b => x = x2 /\ q = q2
    BY DEF OwnedBy
  <1>5. b \in G <=> \E q \in Pages : D[o].map[q] = b
    BY <1>2 DEF Range
  <1> HIDE DEF G
  <1>6. ASSUME b \in F \cup G, NEW x \in Objects, NEW q \in Pages
        PROVE  D2[x].map[q] # b
    BY <1>3, <1>4, <1>5, <1>6
  <1>7. ASSUME \A x \in Objects, q \in Pages : D2[x].map[q] # b
        PROVE  b \in F \cup G
    BY <1>3, <1>4, <1>5, <1>7
  <1> QED BY <1>3, <1>4, <1>6, <1>7

LEMMA ReleaseStep ==
    ASSUME PagerInv, NEW t \in Threads, Release(t)
    PROVE  PagerInv'
  <1> DEFINE r == thread[t]
             o == Obj(t)
             d == ds[o]
             p == r.m.page
             n == [r EXCEPT !.pc = "reply"]
             d2 == [d EXCEPT !.map = [@ EXCEPT ![p] = None]]
  <1>1. r.pc = "release" /\ thread' = Upd(thread, t, n)
        /\ UNCHANGED <<waiting, lister, disk, queue, received, kernel, content>>
        /\ ds' = [ds EXCEPT ![o].map[p] = None] /\ free' = free \cup {ds[o].map[p]}
    BY DEF Release, At, Goto, Msg, Upd, port
  <1>2. o \in Objects /\ r \in ThreadRecords /\ r.o = o /\ d \in Dstructs
        /\ queue[o] \in Seq(Messages) /\ received[o] \in Seqnos /\ kernel[o] \in KernelObjects
        /\ ObjectAgrees(CrewOf(thread, o), d, queue[o], received[o], kernel[o], lister = o)
        /\ CrewOf(thread, o)[t] = r /\ t \in DOMAIN CrewOf(thread, o)
    BY <1>1, AtWork DEF Obj
  <1>3. r.m \in Messages /\ r.m.op = "request" /\ r.pc \in Moving /\ p \in Pages
    BY <1>1, <1>2, ThreadIs, MessageIs, OpsAre, PCsAre
  <1>4. d.map[p] # None
    <2>1. PICK s : TransfersAgree(CrewOf(thread, o), s, d)
      BY <1>2, ObjectIs DEF Agree
    <2>2. Fits(r, s, d)
      BY <1>2, <2>1, TransfersAgreeIs
    <2> QED BY <1>1, <2>2 DEF Fits
  <1>5. ds' = Upd(ds, o, d2)
    <2>1. ds \in [Objects -> Dstructs]
      BY TypesAre
    <2> QED BY <1>1, <1>2, <2>1 DEF Upd
  <1> HIDE DEF r, d, o, p
  <1>6. d2 \in Dstructs /\ SameCounts(d, d2) /\ d2.map = [d.map EXCEPT ![p] = None]
    BY <1>2 DEF Dstructs, SameCounts
  <1>7. d2.map[p] = None /\ \A q \in Pages : q # p => d2.map[q] = d.map[q]
    BY <1>2, <1>3, <1>6, DstructIs
  <1> HIDE DEF d2
  <1>8. n \in ThreadRecords /\ n.pc = "reply" /\ n.o = r.o /\ n.m = r.m
    BY <1>1, <1>2, <1>3, ThreadIs, GotoIs, PCsAre, OpsAre
  <1> HIDE DEF n
  <1>9. OwnedBy(ds', free') /\ free' \subseteq Blocks
    <2>1. ds'[o] = d2 /\ \A x \in Objects : x # o => ds'[x] = ds[x]
      BY <1>2, <1>5, TypesAre DEF Upd
    <2>2. /\ ds'[o].map[p] = None
          /\ \A x \in Objects, q \in Pages : x # o \/ q # p => ds'[x].map[q] = ds[x].map[q]
      BY <1>7, <2>1 DEF d
    <2>3. OwnedBy(ds', free \cup {ds[o].map[p]})
      BY <1>2, <1>3, <2>2, GiveBlock, PagerInvIs
    <2>4. d.map[p] \in Blocks
      BY <1>2, <1>3, <1>4, DstructIs
    <2> QED BY <1>1, <2>3, <2>4, TypesAre DEF d
  <1>10. Quiet(r, n, d, d2)
    <2>1. (Reads1(r) <=> Reads1(n)) /\ (Writes1(r) <=> Writes1(n))
      BY <1>3, <1>8, PCsAre DEF Reads1, Writes1
    <2>2. \A s : Fits(r, s, d) => Fits(n, s, d2)
      BY <1>3, <1>8, PCsAre DEF Fits
    <2> QED BY <1>1, <1>3, <1>7, <1>8, <2>1, <2>2, PCsAre DEF Quiet, p
  <1>11. Changes(t, o, n, d2, queue[o], received[o], kernel[o])
    BY <1>1, <1>2, <1>5, <1>6, <1>8, UnchangedAt, TypesAre DEF Changes, Works, r
  <1> QED BY <1>6, <1>9, <1>10, <1>11, QuietServer DEF r, o, d

\* pager_write_offset keeps the block of the page or takes a free one.
LEMMA WriteOffsetStep ==
    ASSUME PagerInv, NEW t \in Threads, WriteOffset(t)
    PROVE  PagerInv'
  <1> DEFINE r == thread[t]
             o == Obj(t)
             d == ds[o]
             p == r.m.page
             b == d.map[p]
             new == IF b = None /\ free /= {} THEN CHOOSE f \in free : TRUE ELSE b
             x == IF new = None THEN "write_error" ELSE "write"
             n == [r EXCEPT !.block = new, !.pc = x]
             d2 == [d EXCEPT !.map = [@ EXCEPT ![p] = new]]
  <1>1. r.pc = "write_offset" /\ thread' = Upd(thread, t, n)
        /\ UNCHANGED <<waiting, lister, disk, queue, received, kernel, content>>
        /\ ds' = [ds EXCEPT ![o].map[p] = new] /\ free' = free \ {new}
    BY DEF WriteOffset, At, Msg, Upd, port
  <1>2. o \in Objects /\ r \in ThreadRecords /\ r.o = o /\ d \in Dstructs
        /\ queue[o] \in Seq(Messages) /\ received[o] \in Seqnos /\ kernel[o] \in KernelObjects
    BY <1>1, AtWork DEF Obj
  <1>3. r.m \in Messages /\ r.m.op \in {"write", "initialize"} /\ r.pc \in Moving /\ p \in Pages
    <2>1. r.m \in Messages /\ r.m.op \in {"write", "initialize"} /\ r.pc \in Moving
      <3>1. r.pc = "write_offset" /\ r \in ThreadRecords
        BY <1>1, <1>2
      <3> HIDE DEF r
      <3>2. r.pc \in Moving /\ r.pc \in {"start_write"} \cup WritePCs
        BY <3>1, PCsAre
      <3>3. OpsAt(r.pc) = {"write", "initialize"}
        BY <3>2, OpsAre
      <3> QED BY <3>1, <3>2, <3>3, ThreadIs
    <2>2. r.m.op \in PageOps
      BY <2>1, OpsAre
    <2>3. p \in Pages
      BY <2>1, <2>2, MessageIs
    <2> QED BY <2>1, <2>3
  <1>4. free \subseteq Blocks /\ OwnedBy(ds, free) /\ ds \in [Objects -> Dstructs]
    BY TypesAre, PagerInvIs
  <1>5. ds' = Upd(ds, o, d2)
    BY <1>1, <1>2, <1>4 DEF Upd
  <1>6. b \in Blocks \cup {None} /\ (b # None => b \notin free)
    <2>1. b \in Blocks \cup {None}
      BY <1>2, <1>3, DstructIs
    <2>2. b \in Blocks => b \notin free
      BY <1>2, <1>3, <1>4 DEF OwnedBy
    <2> QED BY <2>1, <2>2
  <1>7. \/ new = b /\ new \notin free
        \/ new \in free /\ b = None
    <2>1. CASE b = None /\ free # {}
      BY <2>1
    <2>2. CASE ~(b = None /\ free # {})
      BY <1>4, <1>6, <2>2, DefaultPagerAssumption
    <2> QED BY <2>1, <2>2
  <1>8. new \in Blocks \cup {None}
    BY <1>4, <1>6, <1>7
  <1> HIDE DEF new, b, d, r, o, p
  <1>9. d2 \in Dstructs /\ SameCounts(d, d2) /\ d2.map = [d.map EXCEPT ![p] = new]
    BY <1>2, <1>8 DEF Dstructs, SameCounts
  <1>10. d2.map[p] = new /\ \A q \in Pages : q # p => d2.map[q] = d.map[q]
    BY <1>2, <1>3, <1>9, DstructIs
  <1> HIDE DEF d2
  <1>11. x \in {"write", "write_error"} /\ (x = "write" => new # None)
    OBVIOUS
  <1> HIDE DEF x
  <1>12. n \in ThreadRecords /\ n.pc = x /\ n.o = r.o /\ n.m = r.m
    <2>1. r \in ThreadFields /\ x \in PCs
      BY <1>2, <1>11, ThreadIs, PCsAre
    <2>2. n \in ThreadFields /\ n.pc = x /\ n.o = r.o /\ n.m = r.m /\ n.block = new
      BY <1>8, <2>1 DEF ThreadFields
    <2> HIDE DEF n
    <2>3. n.o # None
      BY <1>2, <2>2, DefaultPagerAssumption
    <2>4. n.m.op \in OpsAt(n.pc)
      <3>1. n.pc \in {"start_write"} \cup WritePCs
        BY <1>11, <2>2, PCsAre
      <3> QED BY <1>3, <2>2, <3>1, OpsAre
    <2>5. n.pc \notin {"release", "reply", "idle"} /\ (n.pc \in {"read", "write"} => n.block # None)
      BY <1>11, <2>2
    <2>6. n \in ThreadRecords
      BY <1>3, <2>2, <2>3, <2>4, <2>5, RecordIs
    <2> QED BY <2>2, <2>6
  <1> HIDE DEF n
  <1>13. OwnedBy(ds', free') /\ free' \subseteq Blocks
    <2>1. ds'[o] = d2 /\ \A y \in Objects : y # o => ds'[y] = ds[y]
      BY <1>2, <1>5, TypesAre DEF Upd
    <2>2. /\ ds'[o].map[p] = new
          /\ \A y \in Objects, q \in Pages : y # o \/ q # p => ds'[y].map[q] = ds[y].map[q]
      BY <1>10, <2>1 DEF d
    <2>3. CASE new \in free /\ b = None
      <3>1. OwnedBy(ds', free \ {new})
        BY <1>2, <1>3, <1>4, <2>2, <2>3, TakeBlock DEF b, d
      <3> QED BY <1>1, <1>4, <3>1
    <2>4. CASE new = b /\ new \notin free
      <3>1. \A y \in Objects, q \in Pages : ds'[y].map[q] = ds[y].map[q]
        BY <2>2, <2>4 DEF b, d
      <3>2. free' = free
        BY <1>1, <2>4
      <3> QED BY <1>4, <3>1, <3>2, SameBlocks
    <2> QED BY <1>7, <2>3, <2>4
  <1>14. Quiet(r, n, d, d2)
    <2>1. (Reads1(r) <=> Reads1(n)) /\ (Writes1(r) <=> Writes1(n))
      BY <1>3, <1>11, <1>12, PCsAre DEF Reads1, Writes1
    <2>2. \A s : Fits(r, s, d) => Fits(n, s, d2)
      BY <1>3, <1>11, <1>12, PCsAre DEF Fits
    <2>3. \A q \in Pages : d2.map[q] = None => d.map[q] = None
      BY <1>7, <1>10 DEF b
    <2> QED BY <1>1, <1>3, <1>11, <1>12, <2>1, <2>2, <2>3, PCsAre DEF Quiet
  <1>15. Changes(t, o, n, d2, queue[o], received[o], kernel[o])
    BY <1>1, <1>2, <1>5, <1>9, <1>12, UnchangedAt, TypesAre DEF Changes, Works, r
  <1> QED BY <1>9, <1>13, <1>14, <1>15, QuietServer DEF r, o, d

LEMMA WriteErrorStep ==
    ASSUME PagerInv, NEW t \in Threads, WriteError(t)
    PROVE  PagerInv'
  <1> DEFINE r == thread[t]
             o == Obj(t)
             d == ds[o]
             n == Ending(t)
             d2 == [d EXCEPT !.errors = TRUE]
  <1>1. r.pc = "write_error" /\ thread' = Upd(thread, t, n)
        /\ UNCHANGED <<waiting, lister, free, disk, queue, received, kernel, content>>
        /\ ds' = [ds EXCEPT ![o].errors = TRUE]
    BY DEF WriteError, At, Upd, store, port
  <1>2. o \in Objects /\ r \in ThreadRecords /\ r.o = o /\ d \in Dstructs /\ Msg(t) = r.m
        /\ queue[o] \in Seq(Messages) /\ received[o] \in Seqnos /\ kernel[o] \in KernelObjects
    BY <1>1, AtWork DEF Obj, Msg
  <1>3. r.m \in Messages /\ r.m.op \in {"write", "initialize"} /\ r.pc \in Moving
    BY <1>1, <1>2, ThreadIs, MessageIs, OpsAre, PCsAre
  <1>4. free \subseteq Blocks /\ OwnedBy(ds, free) /\ ds \in [Objects -> Dstructs]
    BY TypesAre, PagerInvIs
  <1>5. ds' = Upd(ds, o, d2)
    BY <1>1, <1>2, <1>4 DEF Upd
  <1>6. n \in ThreadRecords /\ n.pc = "finish" /\ n.o = o /\ n.m.op = r.m.op
    BY <1>2, <1>3, EndingIs, OpsAre
  <1> HIDE DEF d, r, o, n
  <1>7. d2 \in Dstructs /\ SameCounts(d, d2) /\ d2.map = d.map
    BY <1>2 DEF Dstructs, SameCounts
  <1> HIDE DEF d2
  <1>8. OwnedBy(ds', free') /\ free' \subseteq Blocks
    <2>1. ds'[o] = d2 /\ \A y \in Objects : y # o => ds'[y] = ds[y]
      BY <1>2, <1>5, TypesAre DEF Upd
    <2>2. \A y \in Objects, q \in Pages : ds'[y].map[q] = ds[y].map[q]
      BY <1>7, <2>1 DEF d
    <2>3. OwnedBy(ds', free)
      BY <1>4, <2>2, SameBlocks
    <2>4. free' = free
      BY <1>1
    <2> QED BY <1>4, <2>3, <2>4
  <1>9. Quiet(r, n, d, d2)
    <2>1. (Reads1(r) <=> Reads1(n)) /\ (Writes1(r) <=> Writes1(n))
      BY <1>3, <1>6, PCsAre DEF Reads1, Writes1
    <2>2. \A s : Fits(r, s, d) => Fits(n, s, d2)
      BY <1>6, PCsAre DEF Fits
    <2> QED BY <1>1, <1>3, <1>6, <1>7, <2>1, <2>2, PCsAre DEF Quiet
  <1>10. Changes(t, o, n, d2, queue[o], received[o], kernel[o])
    BY <1>1, <1>2, <1>5, <1>6, <1>7, UnchangedAt, TypesAre DEF Changes, Works, r
  <1> QED BY <1>7, <1>8, <1>9, <1>10, QuietServer DEF r, o, d

\* A step that keeps the block map.
LEMMA MapStays ==
    ASSUME PagerInv, NEW t, NEW o, NEW n, NEW d2, NEW q2, NEW r2, NEW k2,
           Changes(t, o, n, d2, q2, r2, k2),
           ObjectAgrees(Changed(CrewOf(thread, o), t, n), d2, q2, r2, k2, lister = o),
           d2.map = ds[o].map, free' = free
    PROVE  PagerInv'
  <1>1. o \in Objects /\ ds' = Upd(ds, o, d2)
    BY DEF Changes, Works
  <1>2. free \subseteq Blocks /\ OwnedBy(ds, free) /\ ds \in [Objects -> Dstructs]
    BY TypesAre, PagerInvIs
  <1>3. \A y \in Objects, q \in Pages : ds'[y].map[q] = ds[y].map[q]
    BY <1>1, <1>2 DEF Upd
  <1>4. OwnedBy(ds', free') /\ free' \subseteq Blocks
    BY <1>2, <1>3, SameBlocks
  <1> QED BY <1>4, ServerStep

LEMMA ReplyAction ==
    ASSUME PagerInv, NEW t \in Threads, Reply(t)
    PROVE  PagerInv'
  <1> DEFINE r == thread[t]
             o == Obj(t)
             d == ds[o]
             k == kernel[o]
             p == r.m.page
             n == Ending(t)
             c == CrewOf(thread, o)
             k2 == IF ~k.active \/ k.life /= r.m.life \/ k.memory[p] /= Wanted
                   THEN k
                   ELSE CASE r.rc = "success" ->
                               [k EXCEPT !.memory = [@ EXCEPT ![p] = r.data],
                                         !.unwritten = IF r.m.write THEN @ \cup {p} ELSE @]
                          [] r.rc = "absent" -> [k EXCEPT !.memory = [@ EXCEPT ![p] = 0]]
                          [] r.rc = "error" -> [k EXCEPT !.memory = [@ EXCEPT ![p] = Out]]
  <1>1. r.pc = "reply" /\ thread' = Upd(thread, t, n)
        /\ UNCHANGED <<ds, waiting, lister, free, disk, queue, received, content>>
    BY DEF Reply, At, Upd, pager, store, port
  <1>2. o \in Objects /\ r \in ThreadRecords /\ r.o = o /\ d \in Dstructs /\ Msg(t) = r.m
        /\ queue[o] \in Seq(Messages) /\ received[o] \in Seqnos /\ k \in KernelObjects
        /\ ObjectAgrees(c, d, queue[o], received[o], k, lister = o)
        /\ c \in Crews /\ c[t] = r /\ t \in DOMAIN c
    BY <1>1, AtWork DEF Obj, Msg
  <1>3. kernel \in [Objects -> KernelObjects]
    BY TypesAre
  <1>4. kernel' = Upd(kernel, o, k2)
    <2>1. CASE ~k.active \/ k.life /= r.m.life \/ k.memory[p] /= Wanted
      BY <1>2, <1>3, <2>1 DEF Reply, Upd, Msg
    <2>2. CASE ~(~k.active \/ k.life /= r.m.life \/ k.memory[p] /= Wanted)
      <3>1. r.rc \in {"success", "absent", "error"}
        BY <1>1, <1>2, ThreadIs
      <3>2. kernel' = [kernel EXCEPT ![o] =
                        CASE r.rc = "success" ->
                               [k EXCEPT !.memory[p] = r.data,
                                         !.unwritten = IF r.m.write THEN @ \cup {p} ELSE @]
                          [] r.rc = "absent" -> [k EXCEPT !.memory[p] = 0]
                          [] r.rc = "error" -> [k EXCEPT !.memory[p] = Out]]
        BY <2>2 DEF Reply, Msg
      <3>3. CASE r.rc = "success"
        BY <2>2, <3>2, <3>3 DEF Upd
      <3>4. CASE r.rc = "absent"
        BY <2>2, <3>2, <3>4 DEF Upd
      <3>5. CASE r.rc = "error"
        BY <2>2, <3>2, <3>5 DEF Upd
      <3> QED BY <3>1, <3>3, <3>4, <3>5
    <2> QED BY <2>1, <2>2
  <1>5. r.m \in Messages /\ r.m.op = "request" /\ p \in Pages /\ r.data \in Values
        /\ r.rc \in {"success", "absent", "error"}
    BY <1>1, <1>2, ThreadIs, MessageIs, OpsAre, PCsAre
  <1>6. n \in ThreadRecords /\ n.pc = "finish" /\ n.o = o /\ n.m.op = r.m.op
    BY <1>2, <1>5, EndingIs, OpsAre
  <1> HIDE DEF n, d, c, k, r, o, p
  <1>7. 0 \in Values
    BY VersionsAre
  <1>8. /\ k2 \in KernelObjects
        /\ k2.life = k.life /\ k2.active = k.active /\ k2.senders = k.senders
        /\ k2.memory # k.memory => k.active /\ k.life = r.m.life
        /\ \A q \in Pages : q # p => k2.memory[q] = k.memory[q]
    <2>1. CASE ~k.active \/ k.life /= r.m.life \/ k.memory[p] /= Wanted
      BY <1>2, <2>1
    <2>2. CASE k.active /\ k.life = r.m.life /\ k.memory[p] = Wanted
      <3>1. PICK v \in Values \cup {Out}, D \in SUBSET Pages :
               k2 = [k EXCEPT !.memory = [@ EXCEPT ![p] = v], !.unwritten = D]
        <4>1. CASE r.rc = "success"
          <5> DEFINE D == IF r.m.write THEN k.unwritten \cup {p} ELSE k.unwritten
          <5>1. D \in SUBSET Pages
            BY <1>2, <1>5, KernelIs
          <5>2. k2 = [k EXCEPT !.memory = [@ EXCEPT ![p] = r.data], !.unwritten = D]
            BY <1>2, <2>2, <4>1 DEF KernelObjects
          <5> HIDE DEF D
          <5> QED BY <1>5, <5>1, <5>2
        <4>2. CASE r.rc = "absent"
          <5>1. k.unwritten \in SUBSET Pages
            BY <1>2, KernelIs
          <5>2. k2 = [k EXCEPT !.memory = [@ EXCEPT ![p] = 0], !.unwritten = k.unwritten]
            BY <1>2, <2>2, <4>2 DEF KernelObjects
          <5> QED BY <1>7, <5>1, <5>2
        <4>3. CASE r.rc = "error"
          <5>1. k.unwritten \in SUBSET Pages
            BY <1>2, KernelIs
          <5>2. k2 = [k EXCEPT !.memory = [@ EXCEPT ![p] = Out], !.unwritten = k.unwritten]
            BY <1>2, <2>2, <4>3 DEF KernelObjects
          <5> QED BY <5>1, <5>2
        <4> QED BY <1>5, <4>1, <4>2, <4>3
      <3> HIDE DEF k2
      <3> DEFINE M == [k.memory EXCEPT ![p] = v]
      <3>2. M \in [Pages -> Values \cup {Out, Wanted}] /\ \A q \in Pages : q # p => M[q] = k.memory[q]
        BY <1>2, KernelIs
      <3> HIDE DEF M
      <3>3. k2 \in KernelObjects /\ k2.memory = M
            /\ k2.life = k.life /\ k2.active = k.active /\ k2.senders = k.senders
        BY <1>2, <3>1, <3>2 DEF KernelObjects, M
      <3> QED BY <2>2, <3>2, <3>3
    <2> QED BY <2>1, <2>2
  <1> HIDE DEF k2
  <1> DEFINE c2 == Changed(c, t, n)
  <1>9. Becomes(c, c2, t, n)
    BY DEF Becomes
  <1> HIDE DEF c2
  <1>10. ObjectAgrees(c2, d, queue[o], received[o], k2, lister = o)
    BY <1>1, <1>2, <1>5, <1>6, <1>8, <1>9, ReplyStep DEF p
  <1>11. Changes(t, o, n, d, queue[o], received[o], k2)
    BY <1>1, <1>2, <1>4, <1>6, <1>8, UnchangedAt, TypesAre DEF Changes, Works, r, d
  <1> QED BY <1>1, <1>10, <1>11, MapStays DEF c, c2, d

\* A thread that reads or writes is counted.
LEMMA Counted ==
    ASSUME NEW c \in Crews, NEW t \in DOMAIN c, NEW s, NEW d \in Dstructs, TransfersAgree(c, s, d)
    PROVE  (Reads1(c[t]) => d.readers > 0) /\ (Writes1(c[t]) => d.writers > 0)
  <1>1. /\ Cardinality(Reading(c)) = d.readers /\ Cardinality(Writing(c)) = d.writers
        /\ d.readers \in Nat /\ d.writers \in Nat
    BY TransfersAgreeIs, DstructIs
  <1>2. Reads1(c[t]) => d.readers # 0
    BY <1>1, TransfersAre DEF Reads1
  <1>3. Writes1(c[t]) => d.writers # 0
    BY <1>1, TransfersAre DEF Writes1
  <1> QED BY <1>1, <1>2, <1>3

LEMMA FinishAction ==
    ASSUME PagerInv, NEW t \in Threads, Finish(t)
    PROVE  PagerInv'
  <1> DEFINE r == thread[t]
             o == Obj(t)
             d == ds[o]
             c == CrewOf(thread, o)
             d2 == IF r.m.op = "request" THEN [d EXCEPT !.readers = @ - 1]
                                         ELSE [d EXCEPT !.writers = @ - 1]
             left == IF r.m.op = "request" THEN d2.readers ELSE d2.writers
             n == IF left = 0 THEN [r EXCEPT !.pc = "finished"] ELSE NewThread
  <1>1. r.pc = "finish" /\ UNCHANGED <<waiting, lister, free, disk, queue, received, kernel, content>>
        /\ thread' = Upd(thread, t, n) /\ ds' = Upd(ds, o, d2)
    BY DEF Finish, At, Msg, Upd, store, port
  <1>2. o \in Objects /\ r \in ThreadRecords /\ r.o = o /\ d \in Dstructs
        /\ queue[o] \in Seq(Messages) /\ received[o] \in Seqnos /\ kernel[o] \in KernelObjects
        /\ ObjectAgrees(c, d, queue[o], received[o], kernel[o], lister = o)
        /\ c \in Crews /\ c[t] = r /\ t \in DOMAIN c
    BY <1>1, AtWork DEF Obj
  <1>3. r.m.op \in PageOps
    BY <1>1, <1>2, ThreadIs, OpsAre, PCsAre
  <1> HIDE DEF left, c, r, o
  <1>4. n \in ThreadRecords /\ n.pc \in {"finished", "idle"} /\ n.o \in {o, None}
    <2>1. CASE left = 0
      <3>1. [r EXCEPT !.pc = "finished"] \in ThreadRecords
            /\ [r EXCEPT !.pc = "finished"].pc = "finished"
            /\ [r EXCEPT !.pc = "finished"].o = r.o
        BY <1>1, <1>2, <1>3, GotoIs, PCsAre, OpsAre
      <3> QED BY <1>2, <2>1, <3>1
    <2>2. CASE left # 0
      BY <2>2, NewThreadIs
    <2> QED BY <2>1, <2>2
  <1> HIDE DEF n, d
  <1>5. (r.m.op = "request" => d.readers > 0) /\ (r.m.op # "request" => d.writers > 0)
    <2>1. PICK s : TransfersAgree(c, s, d)
      BY <1>2, ObjectIs DEF Agree
    <2>2. (Reads1(r) => d.readers > 0) /\ (Writes1(r) => d.writers > 0)
      BY <1>2, <2>1, Counted
    <2> QED BY <1>1, <1>3, <2>2, OpsAre, PCsAre DEF Reads1, Writes1
  <1>6. d.readers \in Nat /\ d.writers \in Nat
    BY <1>2, DstructIs
  <1>7. /\ d2 \in Dstructs
        /\ d2.seqno = d.seqno /\ d2.deleted = d.deleted /\ d2.request = d.request
        /\ d2.map = d.map /\ d2.name_refs = d.name_refs
        /\ IF r.m.op = "request" THEN d2.readers = d.readers - 1 /\ d2.writers = d.writers
                                 ELSE d2.writers = d.writers - 1 /\ d2.readers = d.readers
    <2>1. CASE r.m.op = "request"
      <3> DEFINE y == d.readers - 1
      <3>1. y \in Nat
        BY <1>5, <1>6, <2>1
      <3> HIDE DEF y
      <3>2. d2 = [d EXCEPT !.readers = y]
        BY <1>2, <2>1 DEF Dstructs, y
      <3> HIDE DEF d2
      <3> QED BY <1>2, <2>1, <3>1, <3>2 DEF Dstructs, y
    <2>2. CASE r.m.op # "request"
      <3> DEFINE y == d.writers - 1
      <3>1. y \in Nat
        BY <1>5, <1>6, <2>2
      <3> HIDE DEF y
      <3>2. d2 = [d EXCEPT !.writers = y]
        BY <1>2, <2>2 DEF Dstructs, y
      <3> HIDE DEF d2
      <3> QED BY <1>2, <2>2, <3>1, <3>2 DEF Dstructs, y
    <2> QED BY <2>1, <2>2
  <1> HIDE DEF d2
  <1> DEFINE c2 == Changed(c, t, n)
  <1>8. Becomes(c, c2, t, n)
    BY DEF Becomes
  <1> HIDE DEF c2
  <1>9. ObjectAgrees(c2, d2, queue[o], received[o], kernel[o], lister = o)
    BY <1>1, <1>2, <1>4, <1>7, <1>8, FinishStep
  <1>10. Changes(t, o, n, d2, queue[o], received[o], kernel[o])
    BY <1>1, <1>2, <1>4, <1>7, UnchangedAt, TypesAre DEF Changes, Works, r
  <1> QED BY <1>1, <1>7, <1>9, <1>10, MapStays DEF c, c2, d

\* A thread goes on to the next part of its turn.
LEMMA TurnThread ==
    ASSUME PagerInv, NEW t \in Threads, NEW n, ThreadChanges(t, n),
           thread[t].pc \in {"lock"} \cup Turns, n.pc \in Turns, n.m = thread[t].m,
           thread[t].pc = "lock" => ds[Obj(t)].seqno = thread[t].seqno,
           \A s : Fits(thread[t], s, ds[Obj(t)]) => Fits(n, s, ds[Obj(t)])
    PROVE  PagerInv'
  <1> DEFINE o == Obj(t)
             d == ds[o]
             c == CrewOf(thread, o)
             c2 == Changed(c, t, n)
  <1>1. thread[t].pc # "idle" /\ n \in ThreadRecords /\ n.o # None
    BY PCsAre, ThreadIs DEF ThreadChanges
  <1>2. /\ c \in Crews /\ t \in DOMAIN c /\ c[t] = thread[t] /\ d \in Dstructs
        /\ queue[o] \in Seq(Messages) /\ received[o] \in Seqnos /\ kernel[o] \in KernelObjects
        /\ ObjectAgrees(c, d, queue[o], received[o], kernel[o], lister = o)
    BY <1>1, AtWork
  <1>3. Becomes(c, c2, t, n)
    BY DEF Becomes
  <1>4. /\ c[t].pc \in {"lock"} \cup Turns /\ n.m = c[t].m
        /\ c[t].pc = "lock" => d.seqno = c[t].seqno
        /\ \A s : Fits(c[t], s, d) => Fits(n, s, d)
    BY <1>2
  <1> HIDE DEF c, c2, d, o
  <1>5. Place(c, d.seqno, t) = 0
    <2>1. CASE c[t].pc = "lock"
      <3>1. d.seqno \in Seqnos
        BY <1>2, DstructIs
      <3>2. After(d.seqno, d.seqno) = 0
        BY <3>1, ModulusIs DEF After, Seqnos
      <3> QED BY <1>4, <2>1, <3>2 DEF Place
    <2>2. CASE c[t].pc # "lock"
      BY <2>2 DEF Place
    <2> QED BY <2>1, <2>2
  <1>6. ObjectAgrees(c2, d, queue[o], received[o], kernel[o], lister = o)
    BY <1>1, <1>2, <1>3, <1>4, <1>5, TurnStep
  <1> QED BY <1>1, <1>6, ThreadStep DEF c, c2, d, o

LEMMA LockStep ==
    ASSUME PagerInv, NEW t \in Threads, Lock(t)
    PROVE  PagerInv'
  <1> DEFINE r == thread[t]
             d == ds[Obj(t)]
             x == Serve(r.m.op)
             n == [r EXCEPT !.pc = x, !.seqno = 0]
  <1>1. r.pc = "lock"
    BY DEF Lock, At
  <1>2. Obj(t) \in Objects /\ r \in ThreadRecords /\ r.o = Obj(t)
    BY <1>1, AtWork DEF Obj
  <1>3. CASE d.seqno # r.seqno
    <2>1. Wait(t, "seqno")
      BY <1>3 DEF Lock
    <2> QED BY <1>1, <2>1, WaitStep DEF Conditions
  <1>4. CASE d.seqno = r.seqno
    <2>1. thread' = Upd(thread, t, n)
          /\ UNCHANGED <<ds, waiting, lister, free, disk, queue, received, kernel, content>>
      BY <1>4 DEF Lock, Msg, Upd, pager, store, port
    <2> HIDE DEF r, d
    <2>2. r.m \in Messages /\ r.m.op \in Ops
      BY <1>1, <1>2, ThreadIs, OpsAre
    <2>3. x \in {"request", "start_write", "init", "wait_readers", "no_senders"}
          /\ r.m.op \in OpsAt(x)
      <3>1. CASE r.m.op = "request"
        BY <3>1, OpsAre DEF Serve
      <3>2. CASE r.m.op \in {"write", "initialize"}
        BY <3>2, OpsAre DEF Serve
      <3>3. CASE r.m.op = "init"
        BY <3>3, OpsAre DEF Serve
      <3>4. CASE r.m.op = "terminate"
        BY <3>4, OpsAre DEF Serve
      <3>5. CASE r.m.op = "no_senders"
        BY <3>5, OpsAre DEF Serve
      <3> QED BY <2>2, <3>1, <3>2, <3>3, <3>4, <3>5, OpsAre
    <2> HIDE DEF x
    <2>4. n \in ThreadRecords /\ n.pc = x /\ n.o = r.o /\ n.m = r.m
      <3>1. r \in ThreadFields /\ x \in PCs /\ 0 \in Seqnos
        BY <1>2, <2>3, ThreadIs, PCsAre, ModulusIs
      <3>2. n \in ThreadFields /\ n.pc = x /\ n.o = r.o /\ n.m = r.m
        BY <3>1 DEF ThreadFields
      <3> HIDE DEF n
      <3>3. n.o # None
        BY <1>2, <3>2, DefaultPagerAssumption
      <3>4. n.pc \notin {"idle", "read", "write", "release", "reply"}
        BY <2>3, <3>2
      <3>5. n \in ThreadRecords
        BY <2>2, <2>3, <3>2, <3>3, <3>4, RecordIs
      <3> QED BY <3>2, <3>5
    <2> HIDE DEF n
    <2>5. ThreadChanges(t, n)
      BY <1>2, <2>1, <2>4, TypesAre DEF ThreadChanges
    <2>6. n.pc \in Turns /\ \A s : Fits(n, s, d)
      BY <2>3, <2>4, PCsAre DEF Fits
    <2> QED BY <1>1, <1>4, <2>4, <2>5, <2>6, TurnThread DEF r, d
  <1> QED BY <1>3, <1>4

\* seqnos_memory_object_terminate.
LEMMA WaitForStep ==
    ASSUME PagerInv, NEW t \in Threads, NEW x \in {"wait_writers", "terminate"},
           thread[t].pc \in {"wait_readers", "wait_writers"}, Goto(t, x),
           UNCHANGED <<pager, store, port, kernel, content>>,
           \A s : Fits(thread[t], s, ds[Obj(t)])
                  => Fits([thread[t] EXCEPT !.pc = x], s, ds[Obj(t)])
    PROVE  PagerInv'
  <1> DEFINE r == thread[t]
             d == ds[Obj(t)]
             n == [r EXCEPT !.pc = x]
  <1>1. thread' = Upd(thread, t, n)
        /\ UNCHANGED <<ds, waiting, lister, free, disk, queue, received, kernel, content>>
    BY DEF Goto, Upd, pager, store, port
  <1>2. Obj(t) \in Objects /\ r \in ThreadRecords /\ r.o = Obj(t)
    BY AtWork DEF Obj
  <1>3. \A s : Fits(r, s, d) => Fits(n, s, d)
    OBVIOUS
  <1>4. r.pc \in {"wait_readers", "wait_writers"}
    OBVIOUS
  <1> HIDE DEF r, d
  <1>5. r.m \in Messages /\ r.m.op \in OpsAt(x)
    BY <1>2, <1>4, ThreadIs, OpsAre, PCsAre
  <1>6. n \in ThreadRecords /\ n.pc = x /\ n.o = r.o /\ n.m = r.m
    BY <1>2, <1>4, <1>5, GotoIs, PCsAre
  <1> HIDE DEF n
  <1>7. ThreadChanges(t, n)
    BY <1>1, <1>2, <1>6, TypesAre DEF ThreadChanges
  <1> QED BY <1>3, <1>4, <1>6, <1>7, PCsAre, TurnThread DEF r, d

LEMMA WaitForReadersStep ==
    ASSUME PagerInv, NEW t \in Threads, WaitForReaders(t)
    PROVE  PagerInv'
  <1>1. thread[t].pc = "wait_readers"
    BY DEF WaitForReaders, At
  <1>2. thread[t] \in ThreadRecords
    BY <1>1, AtWork
  <1>3. CASE ds[Obj(t)].readers # 0
    BY <1>1, <1>3, WaitStep DEF WaitForReaders, Conditions
  <1>4. CASE ds[Obj(t)].readers = 0
    <2> DEFINE n == [thread[t] EXCEPT !.pc = "wait_writers"]
    <2>1. n.pc = "wait_writers" /\ n.m = thread[t].m
      BY <1>2 DEF ThreadRecords, ThreadFields
    <2> HIDE DEF n
    <2>2. \A s : Fits(n, s, ds[Obj(t)])
      BY <1>4, <2>1, PCsAre DEF Fits
    <2>3. Goto(t, "wait_writers") /\ UNCHANGED <<pager, store, port, kernel, content>>
      BY <1>4 DEF WaitForReaders
    <2> QED BY <1>1, <2>2, <2>3, WaitForStep DEF n
  <1> QED BY <1>3, <1>4

LEMMA WaitForWritersStep ==
    ASSUME PagerInv, NEW t \in Threads, WaitForWriters(t)
    PROVE  PagerInv'
  <1>1. thread[t].pc = "wait_writers"
    BY DEF WaitForWriters, At
  <1>2. thread[t] \in ThreadRecords
    BY <1>1, AtWork
  <1>3. CASE ds[Obj(t)].writers # 0
    BY <1>1, <1>3, WaitStep DEF WaitForWriters, Conditions
  <1>4. CASE ds[Obj(t)].writers = 0
    <2> DEFINE n == [thread[t] EXCEPT !.pc = "terminate"]
    <2>1. n.pc = "terminate" /\ n.m = thread[t].m
      BY <1>2 DEF ThreadRecords, ThreadFields
    <2> HIDE DEF n
    <2>2. \A s : Fits(thread[t], s, ds[Obj(t)]) => Fits(n, s, ds[Obj(t)])
      BY <1>1, <1>4, <2>1, PCsAre DEF Fits
    <2>3. Goto(t, "terminate") /\ UNCHANGED <<pager, store, port, kernel, content>>
      BY <1>4 DEF WaitForWriters
    <2> QED BY <1>1, <2>2, <2>3, WaitForStep DEF n
  <1> QED BY <1>3, <1>4

LEMMA WaitForRefsStep ==
    ASSUME PagerInv, NEW t \in Threads, WaitForRefs(t)
    PROVE  PagerInv'
  BY WaitStep DEF WaitForRefs, At, Conditions

\* pager_port_unlock, at the end of the turn of t.
Ends(t, n, d, d2, k2) ==
    /\ thread[t].pc \in Turns
    /\ n \in ThreadRecords /\ n.o = Obj(t) /\ n.pc = "broadcast" /\ n.m = thread[t].m
    /\ thread' = Upd(thread, t, n)
    /\ d = ds[Obj(t)]
    /\ d2 \in Dstructs /\ ds' = Upd(ds, Obj(t), d2)
    /\ d2.seqno = Succ(d.seqno) /\ d2.deleted = d.deleted /\ d2.map = d.map
    /\ k2 \in KernelObjects /\ kernel' = Upd(kernel, Obj(t), k2)
    /\ UNCHANGED <<waiting, lister, free, disk, queue, received, content>>

LEMMA EndOfTurn ==
    ASSUME PagerInv, NEW t \in Threads, NEW n, NEW d, NEW d2, NEW k2, Ends(t, n, d, d2, k2),
           ObjectAgrees(Changed(CrewOf(thread, Obj(t)), t, n), d2, queue[Obj(t)],
                        received[Obj(t)], k2, lister = Obj(t))
    PROVE  PagerInv'
  <1> DEFINE o == Obj(t)
             q == queue[o]
             r == received[o]
  <1>1. thread[t].pc # "idle"
    BY PCsAre DEF Ends
  <1>2. o \in Objects /\ thread[t].o = o /\ q \in Seq(Messages) /\ r \in Seqnos
    BY <1>1, AtWork DEF Obj
  <1>3. queue' = Upd(queue, o, q) /\ received' = Upd(received, o, r)
    BY <1>2, UnchangedAt DEF Ends
  <1>4. d2.map = ds[o].map /\ free' = free
    BY DEF Ends
  <1>5. ObjectAgrees(Changed(CrewOf(thread, o), t, n), d2, q, r, k2, lister = o)
    OBVIOUS
  <1> HIDE DEF q, r
  <1>6. Changes(t, o, n, d2, q, r, k2)
    BY <1>2, <1>3, TypesAre DEF Changes, Works, Ends
  <1> HIDE DEF o
  <1> QED BY <1>4, <1>5, <1>6, MapStays

\* The thread after pager_port_unlock.
LEMMA BroadcastsIs ==
    ASSUME NEW r \in ThreadRecords, r.pc \in Turns \ {"no_senders"}, NEW n, NEW e \in {"none", "error"},
           \/ n = [r EXCEPT !.pc = "broadcast"]
           \/ n = [r EXCEPT !.pc = "broadcast", !.rc = e]
    PROVE  n \in ThreadRecords /\ n.pc = "broadcast" /\ n.o = r.o /\ n.m = r.m
  <1>1. r \in ThreadFields /\ r.o # None /\ r.m \in Messages /\ "broadcast" \in PCs
    BY PCsAre, ThreadIs
  <1>2. r.m.op \in OpsAt("broadcast")
    <2>1. r.m.op \in OpsAt(r.pc)
      BY ThreadIs
    <2>2. OpsAt(r.pc) \in {{"request"}, {"write", "initialize"}, {"init"}, {"terminate"}}
      BY OpsAre, PCsAre
    <2> QED BY <2>1, <2>2, OpsAre
  <1>3. n \in ThreadFields /\ n.pc = "broadcast" /\ n.o = r.o /\ n.m = r.m
    BY <1>1 DEF ThreadFields
  <1>4. n \in ThreadRecords
    BY <1>1, <1>2, <1>3, RecordIs
  <1> QED BY <1>3, <1>4

LEMMA StartReadStep ==
    ASSUME PagerInv, NEW t \in Threads, StartRead(t)
    PROVE  PagerInv'
  <1> DEFINE r == thread[t]
             o == Obj(t)
             d == ds[o]
             c == CrewOf(thread, o)
             e == IF d.errors THEN "error" ELSE "none"
             n == [r EXCEPT !.pc = "broadcast", !.rc = e]
             d2 == [d EXCEPT !.readers = @ + 1, !.seqno = Succ(d.seqno)]
  <1>1. r.pc = "request"
    BY DEF StartRead, At
  <1>2. o \in Objects /\ r \in ThreadRecords /\ r.o = o /\ d \in Dstructs
        /\ queue[o] \in Seq(Messages) /\ received[o] \in Seqnos /\ kernel[o] \in KernelObjects
        /\ ObjectAgrees(c, d, queue[o], received[o], kernel[o], lister = o)
        /\ c \in Crews /\ c[t] = r /\ t \in DOMAIN c
    BY <1>1, AtWork DEF Obj
  <1>3. CASE d.writers # 0
    BY <1>1, <1>3, WaitStep DEF StartRead, Conditions
  <1>4. CASE d.writers = 0
    <2>1. thread' = Upd(thread, t, n)
          /\ UNCHANGED <<waiting, lister, free, disk, queue, received, kernel, content>>
      BY <1>4 DEF StartRead, Upd, store, port
    <2>2. ds' = Upd(ds, o, d2)
      <3>1. Unlocked(o, [d EXCEPT !.readers = @ + 1])
        BY <1>4 DEF StartRead
      <3>2. [[d EXCEPT !.readers = @ + 1] EXCEPT !.seqno = (@ + 1) % SeqnoModulus] = d2
        BY <1>2 DEF Dstructs, Succ
      <3> QED BY <3>1, <3>2 DEF Unlocked, Upd
    <2>3. kernel' = Upd(kernel, o, kernel[o])
      BY <1>2, <2>1, UnchangedAt
    <2>4. Succ(d.seqno) \in Seqnos /\ d.readers + 1 \in Nat
      BY <1>2, DstructIs, SuccIs
    <2> HIDE DEF r, o, d, c, e
    <2>5. /\ d2 \in Dstructs
          /\ d2.seqno = Succ(d.seqno) /\ d2.deleted = d.deleted /\ d2.request = d.request
          /\ d2.map = d.map /\ d2.name_refs = d.name_refs
          /\ d2.readers = d.readers + 1 /\ d2.writers = d.writers
      BY <1>2, <2>4 DEF Dstructs
    <2> HIDE DEF d2
    <2>6. n \in ThreadRecords /\ n.pc = "broadcast" /\ n.o = r.o /\ n.m = r.m
      <3>1. e \in {"none", "error"}
        BY DEF e
      <3> QED BY <1>1, <1>2, <3>1, PCsAre, BroadcastsIs
    <2> HIDE DEF n
    <2> DEFINE c2 == Changed(c, t, n)
    <2>7. Becomes(c, c2, t, n)
      BY DEF Becomes
    <2>8. n.o # None
      BY <1>2, <2>6, DefaultPagerAssumption
    <2> HIDE DEF c2
    <2>9. ObjectAgrees(c2, d2, queue[o], received[o], kernel[o], lister = o)
      BY <1>1, <1>2, <2>5, <2>6, <2>7, <2>8, StartStep
    <2>10. Ends(t, n, d, d2, kernel[o])
      BY <1>1, <1>2, <2>1, <2>2, <2>3, <2>5, <2>6, PCsAre DEF Ends, r, d, o
    <2> QED BY <2>9, <2>10, EndOfTurn DEF c2, c, o
  <1> QED BY <1>3, <1>4

LEMMA StartWriteStep ==
    ASSUME PagerInv, NEW t \in Threads, StartWrite(t)
    PROVE  PagerInv'
  <1> DEFINE r == thread[t]
             o == Obj(t)
             d == ds[o]
             c == CrewOf(thread, o)
             n == [r EXCEPT !.pc = "broadcast"]
             d2 == [d EXCEPT !.writers = @ + 1, !.seqno = Succ(d.seqno)]
  <1>1. r.pc = "start_write" /\ thread' = Upd(thread, t, n)
        /\ UNCHANGED <<waiting, lister, free, disk, queue, received, kernel, content>>
    BY DEF StartWrite, At, Goto, Upd, store, port
  <1>2. o \in Objects /\ r \in ThreadRecords /\ r.o = o /\ d \in Dstructs
        /\ queue[o] \in Seq(Messages) /\ received[o] \in Seqnos /\ kernel[o] \in KernelObjects
        /\ ObjectAgrees(c, d, queue[o], received[o], kernel[o], lister = o)
        /\ c \in Crews /\ c[t] = r /\ t \in DOMAIN c
    BY <1>1, AtWork DEF Obj
  <1>3. ds' = Upd(ds, o, d2)
    <2>1. Unlocked(o, [d EXCEPT !.writers = @ + 1])
      BY DEF StartWrite
    <2>2. [[d EXCEPT !.writers = @ + 1] EXCEPT !.seqno = (@ + 1) % SeqnoModulus] = d2
      BY <1>2 DEF Dstructs, Succ
    <2> QED BY <2>1, <2>2 DEF Unlocked, Upd
  <1>4. kernel' = Upd(kernel, o, kernel[o])
    BY <1>1, <1>2, UnchangedAt
  <1>5. Succ(d.seqno) \in Seqnos /\ d.writers + 1 \in Nat
    BY <1>2, DstructIs, SuccIs
  <1> HIDE DEF r, o, d, c
  <1>6. /\ d2 \in Dstructs
        /\ d2.seqno = Succ(d.seqno) /\ d2.deleted = d.deleted /\ d2.request = d.request
        /\ d2.map = d.map /\ d2.name_refs = d.name_refs
        /\ d2.writers = d.writers + 1 /\ d2.readers = d.readers
    BY <1>2, <1>5 DEF Dstructs
  <1> HIDE DEF d2
  <1>7. n \in ThreadRecords /\ n.pc = "broadcast" /\ n.o = r.o /\ n.m = r.m
    BY <1>1, <1>2, PCsAre, BroadcastsIs
  <1> HIDE DEF n
  <1> DEFINE c2 == Changed(c, t, n)
  <1>8. Becomes(c, c2, t, n) /\ n.o # None
    BY <1>2, <1>7, DefaultPagerAssumption DEF Becomes
  <1> HIDE DEF c2
  <1>9. ObjectAgrees(c2, d2, queue[o], received[o], kernel[o], lister = o)
    BY <1>1, <1>2, <1>6, <1>7, <1>8, StartStep
  <1>10. Ends(t, n, d, d2, kernel[o])
    BY <1>1, <1>2, <1>3, <1>4, <1>6, <1>7, PCsAre DEF Ends, r, d, o
  <1> QED BY <1>9, <1>10, EndOfTurn DEF c2, c, o

LEMMA InitObjectStep ==
    ASSUME PagerInv, NEW t \in Threads, InitObject(t)
    PROVE  PagerInv'
  <1> DEFINE r == thread[t]
             o == Obj(t)
             d == ds[o]
             k == kernel[o]
             c == CrewOf(thread, o)
             n == [r EXCEPT !.pc = "broadcast"]
             d2 == [d EXCEPT !.request = TRUE, !.name_refs = 1, !.seqno = Succ(d.seqno)]
             k2 == IF k.active /\ k.life = r.m.life THEN [k EXCEPT !.ready = TRUE] ELSE k
  <1>1. r.pc = "init" /\ thread' = Upd(thread, t, n)
        /\ UNCHANGED <<waiting, lister, free, disk, queue, received, content>>
    BY DEF InitObject, At, Goto, Upd, store, port
  <1>2. o \in Objects /\ r \in ThreadRecords /\ r.o = o /\ d \in Dstructs
        /\ queue[o] \in Seq(Messages) /\ received[o] \in Seqnos /\ k \in KernelObjects
        /\ ObjectAgrees(c, d, queue[o], received[o], k, lister = o)
        /\ c \in Crews /\ c[t] = r /\ t \in DOMAIN c
    BY <1>1, AtWork DEF Obj
  <1>3. ds' = Upd(ds, o, d2)
    <2>1. Unlocked(o, [d EXCEPT !.request = TRUE, !.name_refs = 1])
      BY DEF InitObject
    <2>2. [[d EXCEPT !.request = TRUE, !.name_refs = 1] EXCEPT !.seqno = (@ + 1) % SeqnoModulus] = d2
      BY <1>2 DEF Dstructs, Succ
    <2> QED BY <2>1, <2>2 DEF Unlocked, Upd
  <1>4. kernel' = Upd(kernel, o, k2)
    <2>1. kernel \in [Objects -> KernelObjects]
      BY TypesAre
    <2>2. CASE k.active /\ k.life = r.m.life
      BY <1>2, <2>1, <2>2 DEF InitObject, Upd, Msg
    <2>3. CASE ~(k.active /\ k.life = r.m.life)
      BY <1>2, <2>1, <2>3 DEF InitObject, Upd, Msg
    <2> QED BY <2>2, <2>3
  <1>5. Succ(d.seqno) \in Seqnos
    BY <1>2, DstructIs, SuccIs
  <1> HIDE DEF r, o, d, c, k
  <1>6. /\ d2 \in Dstructs
        /\ d2.seqno = Succ(d.seqno) /\ d2.deleted = d.deleted /\ d2.map = d.map
        /\ d2.readers = d.readers /\ d2.writers = d.writers /\ d2.request /\ d2.name_refs = 1
    BY <1>2, <1>5 DEF Dstructs
  <1> HIDE DEF d2
  <1>7. /\ k2 \in KernelObjects /\ k2.life = k.life /\ k2.active = k.active
        /\ k2.senders = k.senders /\ k2.memory = k.memory
    <2>1. CASE k2 = k
      BY <1>2, <2>1
    <2>2. CASE k2 = [k EXCEPT !.ready = TRUE]
      BY <1>2, <2>2 DEF KernelObjects
    <2> QED BY <2>1, <2>2
  <1> HIDE DEF k2
  <1>8. n \in ThreadRecords /\ n.pc = "broadcast" /\ n.o = r.o /\ n.m = r.m
    BY <1>1, <1>2, PCsAre, BroadcastsIs
  <1> HIDE DEF n
  <1> DEFINE c2 == Changed(c, t, n)
  <1>9. Becomes(c, c2, t, n) /\ n.o # None
    BY <1>2, <1>8, DefaultPagerAssumption DEF Becomes
  <1> HIDE DEF c2
  <1>10. ObjectAgrees(c2, d2, queue[o], received[o], k2, lister = o)
    BY <1>1, <1>2, <1>6, <1>7, <1>8, <1>9, LifeStep
  <1>11. Ends(t, n, d, d2, k2)
    BY <1>1, <1>2, <1>3, <1>4, <1>6, <1>7, <1>8, PCsAre DEF Ends, r, d, o
  <1> QED BY <1>10, <1>11, EndOfTurn DEF c2, c, o

LEMMA TerminateObjectStep ==
    ASSUME PagerInv, NEW t \in Threads, TerminateObject(t)
    PROVE  PagerInv'
  <1> DEFINE r == thread[t]
             o == Obj(t)
             d == ds[o]
             k == kernel[o]
             c == CrewOf(thread, o)
             n == [r EXCEPT !.pc = "broadcast"]
             d2 == [d EXCEPT !.request = FALSE, !.name_refs = 0, !.seqno = Succ(d.seqno)]
  <1>1. r.pc = "terminate" /\ thread' = Upd(thread, t, n) /\ d.name_refs # 0
        /\ UNCHANGED <<waiting, lister, free, disk, queue, received, kernel, content>>
    BY DEF TerminateObject, At, Goto, Upd, store, port
  <1>2. o \in Objects /\ r \in ThreadRecords /\ r.o = o /\ d \in Dstructs
        /\ queue[o] \in Seq(Messages) /\ received[o] \in Seqnos /\ k \in KernelObjects
        /\ ObjectAgrees(c, d, queue[o], received[o], k, lister = o)
        /\ c \in Crews /\ c[t] = r /\ t \in DOMAIN c
    BY <1>1, AtWork DEF Obj
  <1>3. ds' = Upd(ds, o, d2)
    <2>1. Unlocked(o, [d EXCEPT !.request = FALSE, !.name_refs = 0])
      BY DEF TerminateObject
    <2>2. [[d EXCEPT !.request = FALSE, !.name_refs = 0] EXCEPT !.seqno = (@ + 1) % SeqnoModulus] = d2
      BY <1>2 DEF Dstructs, Succ
    <2> QED BY <2>1, <2>2 DEF Unlocked, Upd
  <1>4. kernel' = Upd(kernel, o, k)
    BY <1>1, <1>2, UnchangedAt
  <1>5. Succ(d.seqno) \in Seqnos
    BY <1>2, DstructIs, SuccIs
  <1> HIDE DEF r, o, d, c, k
  <1>6. /\ d2 \in Dstructs
        /\ d2.seqno = Succ(d.seqno) /\ d2.deleted = d.deleted /\ d2.map = d.map
        /\ d2.readers = d.readers /\ d2.writers = d.writers /\ ~d2.request
    BY <1>2, <1>5, ModulusIs DEF Dstructs
  <1> HIDE DEF d2
  <1>7. n \in ThreadRecords /\ n.pc = "broadcast" /\ n.o = r.o /\ n.m = r.m
    BY <1>1, <1>2, PCsAre, BroadcastsIs
  <1> HIDE DEF n
  <1> DEFINE c2 == Changed(c, t, n)
  <1>8. Becomes(c, c2, t, n) /\ n.o # None
    BY <1>2, <1>7, DefaultPagerAssumption DEF Becomes
  <1> HIDE DEF c2
  <1>9. ObjectAgrees(c2, d2, queue[o], received[o], k, lister = o)
    BY <1>1, <1>2, <1>6, <1>7, <1>8, LifeStep
  <1>10. Ends(t, n, d, d2, k)
    BY <1>1, <1>2, <1>3, <1>4, <1>6, <1>7, PCsAre DEF Ends, r, d, o
  <1> QED BY <1>9, <1>10, EndOfTurn DEF c2, c, o

\* default_pager_no_senders.
LEMMA NoSendersStep ==
    ASSUME PagerInv, NEW t \in Threads, NoSenders(t)
    PROVE  PagerInv'
  <1> DEFINE r == thread[t]
             o == Obj(t)
             d == ds[o]
             k == kernel[o]
             c == CrewOf(thread, o)
             n == NewThread
             none == [p \in Pages |-> None]
             d2 == [d EXCEPT !.deleted = TRUE, !.map = none]
             c2 == Changed(c, t, n)
  <1>1. r.pc = "no_senders" /\ thread' = Upd(thread, t, n) /\ lister = None
        /\ free' = free \cup (Range(d.map) \ {None})
        /\ UNCHANGED <<waiting, lister, disk, queue, received, kernel, content>>
    BY DEF NoSenders, At, Upd, port
  <1>2. o \in Objects /\ r \in ThreadRecords /\ r.o = o /\ d \in Dstructs
        /\ queue[o] \in Seq(Messages) /\ received[o] \in Seqnos /\ k \in KernelObjects
        /\ ObjectAgrees(c, d, queue[o], received[o], k, lister = o)
        /\ c \in Crews /\ c[t] = r /\ t \in DOMAIN c
    BY <1>1, AtWork DEF Obj
  <1>3. free \subseteq Blocks /\ OwnedBy(ds, free) /\ ds \in [Objects -> Dstructs]
    BY TypesAre, PagerInvIs
  <1>4. ds' = Upd(ds, o, d2)
    <2>1. ds' = [ds EXCEPT ![o].deleted = TRUE, ![o].map = none]
      BY DEF NoSenders
    <2> HIDE DEF none
    <2> QED BY <1>2, <1>3, <2>1 DEF Upd
  <1>5. lister # o /\ (lister = o) = FALSE
    BY <1>1, <1>2, DefaultPagerAssumption
  <1>6. none \in [Pages -> Blocks \cup {None}] /\ \A q \in Pages : none[q] = None
    OBVIOUS
  <1> HIDE DEF r, o, d, k, c, none
  <1>7. n \in ThreadRecords /\ n.pc = "idle" /\ n.o = None
    BY NewThreadIs
  <1> HIDE DEF n
  <1>8. d2 \in Dstructs /\ d2.map = none
        /\ d2.seqno = d.seqno /\ d2.deleted /\ d2.request = d.request
        /\ d2.readers = d.readers /\ d2.writers = d.writers
    BY <1>2, <1>6 DEF Dstructs
  <1> HIDE DEF d2
  <1>9. Becomes(c, c2, t, n)
    BY DEF Becomes
  <1> HIDE DEF c2
  <1>10. ObjectAgrees(c, d, queue[o], received[o], k, FALSE)
    BY <1>2, <1>5
  <1>11. ObjectAgrees(c2, d2, queue[o], received[o], k, FALSE)
    BY <1>1, <1>2, <1>7, <1>8, <1>9, <1>10, DeleteStep
  <1>12. ObjectAgrees(c2, d2, queue[o], received[o], k, lister = o)
    BY <1>5, <1>11
  <1>13. OwnedBy(ds', free') /\ free' \subseteq Blocks
    <2>1. ds'[o] = d2 /\ \A y \in Objects : y # o => ds'[y] = ds[y]
      BY <1>2, <1>3, <1>4 DEF Upd
    <2>2. /\ \A q \in Pages : ds'[o].map[q] = None
          /\ \A y \in Objects, q \in Pages : y # o => ds'[y].map[q] = ds[y].map[q]
      BY <1>6, <1>8, <2>1
    <2>3. ds[o].map \in [Pages -> Blocks \cup {None}]
      BY <1>2, <1>3, DstructIs
    <2>4. OwnedBy(ds', free \cup (Range(ds[o].map) \ {None}))
      BY <1>2, <1>3, <2>2, <2>3, GiveAll
    <2>5. Range(ds[o].map) \ {None} \subseteq Blocks
      BY <2>3 DEF Range
    <2> QED BY <1>1, <1>3, <2>4, <2>5 DEF d
  <1>14. Changes(t, o, n, d2, queue[o], received[o], k)
    BY <1>1, <1>2, <1>4, <1>7, <1>8, UnchangedAt, TypesAre DEF Changes, Works, r, k
  <1> QED BY <1>12, <1>13, <1>14, ServerStep DEF c2, c

LEMMA ReceiveAction ==
    ASSUME PagerInv, NEW t \in Threads, NEW o \in Objects, Receive(t, o)
    PROVE  PagerInv'
  <1> DEFINE r == thread[t]
             d == ds[o]
             k == kernel[o]
             q == queue[o]
             c == CrewOf(thread, o)
             n == [NewThread EXCEPT !.pc = "lock", !.o = o, !.m = Head(q), !.seqno = received[o]]
             c2 == Changed(c, t, n)
             r2 == Succ(received[o])
  <1>1. r.pc = "idle" /\ q # <<>> /\ thread' = Upd(thread, t, n)
        /\ queue' = Upd(queue, o, Tail(q)) /\ received' = Upd(received, o, r2)
        /\ UNCHANGED <<ds, waiting, lister, free, disk, kernel, content>>
    BY DEF Receive, At, Upd, pager, store, Succ
  <1>2. r \in ThreadRecords /\ d \in Dstructs /\ q \in Seq(Messages) /\ received[o] \in Seqnos
        /\ k \in KernelObjects /\ thread \in [Threads -> ThreadRecords]
    BY TypesAre
  <1>3. ObjectAgrees(c, d, q, received[o], k, lister = o)
    BY PagerInvIs DEF Objs
  <1>4. r.o = None /\ o # None
    BY <1>1, <1>2, ThreadIs, DefaultPagerAssumption
  <1>5. c \in Crews /\ t \notin DOMAIN c
    <2>1. c \in Crews /\ DOMAIN c = {u \in Threads : thread[u].o = o}
      BY <1>2, CrewOfIs
    <2> HIDE DEF c
    <2> QED BY <1>4, <2>1
  <1>6. Head(q) \in Messages /\ Tail(q) \in Seq(Messages) /\ r2 \in Seqnos
    <2>1. r2 \in Seqnos
      BY <1>2, SuccIs
    <2> HIDE DEF q
    <2> QED BY <1>1, <1>2, <2>1
  <1> HIDE DEF q, r, d, k, c
  <1>7. n \in ThreadRecords /\ n.o = o /\ n.pc = "lock" /\ n.m = Head(q) /\ n.seqno = received[o]
    <2>1. Head(q) \in Requests /\ Head(q).op \in Ops
      BY <1>6, MessageIs
    <2>2. "lock" \in PCs
      BY PCsAre
    <2>3. n \in ThreadFields /\ n.o = o /\ n.pc = "lock" /\ n.m = Head(q) /\ n.seqno = received[o]
      BY <1>2, <2>1, <2>2, NewThreadIs DEF ThreadFields
    <2> HIDE DEF n
    <2>4. n.m.op \in OpsAt(n.pc)
      BY <2>1, <2>3, OpsAre
    <2>5. n \in ThreadRecords
      BY <1>4, <1>6, <2>3, <2>4, RecordIs
    <2> QED BY <2>3, <2>5
  <1> HIDE DEF n
  <1>8. Becomes(c, c2, t, n)
    BY DEF Becomes
  <1> HIDE DEF c2
  <1>9. ObjectAgrees(c2, d, Tail(q), r2, k, lister = o)
    BY <1>1, <1>2, <1>3, <1>4, <1>5, <1>7, <1>8, ReceiveStep
  <1> DEFINE q2 == Tail(q)
  <1>10. q2 \in Seq(Messages) /\ queue' = Upd(queue, o, q2)
    BY <1>1, <1>6
  <1>11. ObjectAgrees(c2, d, q2, r2, k, lister = o)
    BY <1>9
  <1> HIDE DEF q2, r2
  <1>12. Changes(t, o, n, d, q2, r2, k)
    BY <1>1, <1>2, <1>4, <1>6, <1>7, <1>10, UnchangedAt, TypesAre DEF Changes, Works, r, d, k
  <1> QED BY <1>1, <1>11, <1>12, MapStays DEF c2, c, d

-----------------------------------------------------------------------------
(* default_pager_objects and the kernel                                    *)

\* A step of object o that no server thread takes part in.
Around(o, d2, q2, k2) ==
    /\ d2 \in Dstructs /\ ds' = Upd(ds, o, d2) /\ d2.map = ds[o].map
    /\ q2 \in Seq(Messages) /\ queue' = Upd(queue, o, q2)
    /\ k2 \in KernelObjects /\ kernel' = Upd(kernel, o, k2)
    /\ waiting' \in [Objects -> [Conditions -> SUBSET Threads]]
    /\ lister' \in Objects \cup {None}
    /\ \A x \in Objects \ {o} : lister' = x <=> lister = x
    /\ content' \in [Objects -> [Pages -> Values]]
    /\ UNCHANGED <<thread, free, disk, received>>

LEMMA AroundStep ==
    ASSUME PagerInv, NEW o \in Objects, NEW d2, NEW q2, NEW k2, Around(o, d2, q2, k2),
           ObjectAgrees(CrewOf(thread, o), d2, q2, received[o], k2, lister' = o)
    PROVE  PagerInv'
  <1>1. /\ ds' \in [Objects -> Dstructs] /\ queue' \in [Objects -> Seq(Messages)]
        /\ kernel' \in [Objects -> KernelObjects]
    BY TypesAre DEF Around, Upd
  <1>2. TypeOK'
    BY <1>1, TypesAre DEF Around, TypeOK
  <1>3. OwnedBy(ds, free) /\ Objs(thread, ds, queue, received, kernel, lister)
    BY PagerInvIs
  <1>4. /\ ds'[o] = d2 /\ queue'[o] = q2 /\ kernel'[o] = k2
        /\ \A x \in Objects : x # o => /\ ds'[x] = ds[x] /\ queue'[x] = queue[x]
                                       /\ kernel'[x] = kernel[x]
    BY TypesAre DEF Around, Upd
  <1>5. \A x \in Objects, p \in Pages : ds'[x].map[p] = ds[x].map[p]
    BY <1>4 DEF Around
  <1>6. OwnedBy(ds', free')
    <2>1. OwnedBy(ds', free)
      BY <1>3, <1>5, SameBlocks
    <2> QED BY <2>1 DEF Around
  <1>7. thread' = thread /\ received' = received
    BY DEF Around
  <1>8. ASSUME NEW x \in Objects
        PROVE  ObjectAgrees(CrewOf(thread, x), ds'[x], queue'[x], received[x], kernel'[x], lister' = x)
    <2>1. CASE x = o
      BY <1>4, <2>1
    <2>2. CASE x # o
      <3>1. ObjectAgrees(CrewOf(thread, x), ds[x], queue[x], received[x], kernel[x], lister = x)
        BY <1>3 DEF Objs
      <3>2. (lister' = x) = (lister = x)
        BY <2>2 DEF Around
      <3> QED BY <1>4, <2>2, <3>1, <3>2
    <2> QED BY <2>1, <2>2
  <1>9. Objs(thread, ds', queue', received, kernel', lister')
    BY <1>8 DEF Objs
  <1>10. Objs(thread', ds', queue', received', kernel', lister')
    BY <1>7, <1>9
  <1> QED BY <1>2, <1>6, <1>10, PagerInvIs

\* Only the references to the name change.
LEMMA NamesStep ==
    ASSUME NEW c \in Crews, NEW d \in Dstructs, NEW d2, NEW q \in Seq(Messages), NEW r, NEW k,
           NEW l, NEW l2, ObjectAgrees(c, d, q, r, k, l),
           d2.seqno = d.seqno, d2.deleted = d.deleted, d2.request = d.request,
           d2.readers = d.readers, d2.writers = d.writers, d2.map = d.map,
           NamesAgree(d2, l2)
    PROVE  ObjectAgrees(c, d2, q, r, k, l2)
  <1>1. PICK s \in 0..k.life : Agree(c, Line(c, d.seqno, q), s, d, k)
    BY ObjectIs
  <1>2. TurnsAgree(c, d2, r)
    BY ObjectIs DEF TurnsAgree
  <1>3. LineAgrees(Line(c, d2.seqno, q), s, d2, k)
    BY <1>1 DEF Agree, LineAgrees, Current, Complete
  <1>4. TransfersAgree(c, s, d2)
    BY <1>1 DEF Agree, TransfersAgree
  <1>5. Agree(c, Line(c, d2.seqno, q), s, d2, k)
    BY <1>1, <1>3, <1>4 DEF Agree
  <1> QED BY <1>2, <1>5, ObjectIs

LEMMA ListStep ==
    ASSUME PagerInv, NEW o \in Objects, ListObject(o)
    PROVE  PagerInv'
  <1> DEFINE d == ds[o]
             d2 == [d EXCEPT !.name_refs = @ - 1]
  <1>1. lister = None /\ d.request /\ ds' = Upd(ds, o, d2)
        /\ lister' = (IF d.name_refs = 1 THEN o ELSE None)
        /\ UNCHANGED <<waiting, thread, free, disk, queue, received, kernel, content>>
    <2>1. ds \in [Objects -> Dstructs]
      BY TypesAre
    <2> QED BY <2>1 DEF ListObject, Upd, store, port
  <1>2. d \in Dstructs /\ queue[o] \in Seq(Messages) /\ kernel[o] \in KernelObjects
        /\ CrewOf(thread, o) \in Crews
    BY TypesAre, CrewOfIs
  <1>3. ObjectAgrees(CrewOf(thread, o), d, queue[o], received[o], kernel[o], lister = o)
    BY PagerInvIs DEF Objs
  <1>4. o # None
    BY DefaultPagerAssumption
  <1> HIDE DEF d
  <1>5. d.name_refs \in Nat /\ d.name_refs > 0
    <2>1. NamesAgree(d, lister = o)
      BY <1>3, ObjectIs
    <2> QED BY <1>1, <1>2, <1>4, <2>1, DstructIs DEF NamesAgree
  <1> DEFINE y == d.name_refs - 1
  <1>6. y \in Nat /\ (y = 0 <=> d.name_refs = 1)
    BY <1>5
  <1>7. d2 \in Dstructs /\ d2.seqno = d.seqno /\ d2.deleted = d.deleted /\ d2.request = d.request
        /\ d2.readers = d.readers /\ d2.writers = d.writers /\ d2.map = d.map /\ d2.name_refs = y
    <2>1. d2 = [d EXCEPT !.name_refs = y]
      BY <1>2 DEF Dstructs
    <2> HIDE DEF d2, y
    <2> QED BY <1>2, <1>6, <2>1 DEF Dstructs
  <1> HIDE DEF d2, y
  <1>8. NamesAgree(d2, lister' = o)
    <2>1. CASE d.name_refs = 1
      BY <1>1, <1>6, <1>7, <2>1 DEF NamesAgree
    <2>2. CASE d.name_refs # 1
      <3>1. lister' # o /\ y > 0
        BY <1>1, <1>4, <1>6, <2>2
      <3> QED BY <1>7, <3>1 DEF NamesAgree
    <2> QED BY <2>1, <2>2
  <1>9. ObjectAgrees(CrewOf(thread, o), d2, queue[o], received[o], kernel[o], lister' = o)
    BY <1>2, <1>3, <1>7, <1>8, NamesStep
  <1>10. /\ lister' \in Objects \cup {None}
         /\ \A x \in Objects \ {o} : lister' = x <=> lister = x
    BY <1>1, DefaultPagerAssumption
  <1>11. Around(o, d2, queue[o], kernel[o])
    BY <1>1, <1>2, <1>7, <1>10, UnchangedAt, TypesAre DEF Around, d
  <1> QED BY <1>9, <1>11, AroundStep

LEMMA MoreNamesStep ==
    ASSUME PagerInv, MoreNameRefs
    PROVE  PagerInv'
  <1> DEFINE o == lister
             d == ds[o]
             d2 == [d EXCEPT !.name_refs = @ + MaxUrefs]
  <1>1. o \in Objects
    BY TypesAre DEF MoreNameRefs
  <1>2. ds' = Upd(ds, o, d2) /\ lister' = None
        /\ UNCHANGED <<thread, free, disk, queue, received, kernel, content>>
    <2>1. ds \in [Objects -> Dstructs]
      BY TypesAre
    <2> QED BY <1>1, <2>1 DEF MoreNameRefs, Upd, store, port
  <1>3. waiting' \in [Objects -> [Conditions -> SUBSET Threads]]
    BY <1>1, TypesAre DEF MoreNameRefs
  <1>4. d \in Dstructs /\ queue[o] \in Seq(Messages) /\ kernel[o] \in KernelObjects
        /\ CrewOf(thread, o) \in Crews
    BY <1>1, TypesAre, CrewOfIs
  <1>5. ObjectAgrees(CrewOf(thread, o), d, queue[o], received[o], kernel[o], TRUE)
    <2>1. Objs(thread, ds, queue, received, kernel, lister)
      BY PagerInvIs
    <2> QED BY <1>1, <2>1 DEF Objs
  <1>6. o # None /\ lister' # o
    BY <1>1, <1>2, DefaultPagerAssumption
  <1>7. d.request /\ d.name_refs = 0
    <2>1. NamesAgree(d, TRUE)
      BY <1>5, ObjectIs
    <2> QED BY <2>1 DEF NamesAgree
  <1>8. MaxUrefs \in Nat /\ MaxUrefs > 0
    BY DefaultPagerAssumption
  <1> HIDE DEF d
  <1>9. d2 \in Dstructs /\ d2.seqno = d.seqno /\ d2.deleted = d.deleted /\ d2.request = d.request
        /\ d2.readers = d.readers /\ d2.writers = d.writers /\ d2.map = d.map
        /\ d2.name_refs = MaxUrefs
    <2>1. d2 = [d EXCEPT !.name_refs = MaxUrefs]
      BY <1>4, <1>7, <1>8 DEF Dstructs
    <2> HIDE DEF d2
    <2> QED BY <1>4, <1>8, <2>1 DEF Dstructs
  <1> HIDE DEF d2
  <1>10. NamesAgree(d2, lister' = o)
    BY <1>6, <1>8, <1>9 DEF NamesAgree
  <1>11. ObjectAgrees(CrewOf(thread, o), d2, queue[o], received[o], kernel[o], lister' = o)
    BY <1>4, <1>5, <1>9, <1>10, NamesStep
  <1>12. /\ lister' \in Objects \cup {None}
         /\ \A x \in Objects \ {o} : lister' = x <=> lister = x
    BY <1>2, DefaultPagerAssumption
  <1>13. content' \in [Objects -> [Pages -> Values]] /\ queue' = Upd(queue, o, queue[o])
         /\ kernel' = Upd(kernel, o, kernel[o])
    BY <1>1, <1>2, UnchangedAt, TypesAre
  <1>14. d2.map = ds[o].map
    BY <1>9 DEF d
  <1> HIDE DEF o
  <1>15. Around(o, d2, queue[o], kernel[o])
    BY <1>2, <1>3, <1>4, <1>9, <1>12, <1>13, <1>14 DEF Around
  <1> QED BY <1>1, <1>11, <1>15, AroundStep

\* The kernel's steps.
KernelDoes(o, q2, k2) ==
    /\ q2 \in Seq(Messages) /\ queue' = Upd(queue, o, q2)
    /\ k2 \in KernelObjects /\ kernel' = Upd(kernel, o, k2)
    /\ content' \in [Objects -> [Pages -> Values]]
    /\ UNCHANGED <<ds, waiting, thread, lister, free, disk, received>>

LEMMA KernelStep ==
    ASSUME PagerInv, NEW o \in Objects, NEW q2, NEW k2, KernelDoes(o, q2, k2),
           ObjectAgrees(CrewOf(thread, o), ds[o], q2, received[o], k2, lister = o)
    PROVE  PagerInv'
  <1>1. ds[o] \in Dstructs /\ ds' = Upd(ds, o, ds[o])
    BY UnchangedAt, TypesAre DEF KernelDoes
  <1>2. Around(o, ds[o], q2, k2)
    BY <1>1, TypesAre DEF KernelDoes, Around
  <1>3. (lister' = o) = (lister = o)
    BY DEF KernelDoes
  <1> QED BY <1>2, <1>3, AroundStep

LEMMA KernelHas ==
    ASSUME PagerInv, NEW o \in Objects
    PROVE  /\ ds[o] \in Dstructs /\ queue[o] \in Seq(Messages) /\ received[o] \in Seqnos
           /\ kernel[o] \in KernelObjects /\ CrewOf(thread, o) \in Crews
           /\ content[o] \in [Pages -> Values]
           /\ ObjectAgrees(CrewOf(thread, o), ds[o], queue[o], received[o], kernel[o], lister = o)
  BY TypesAre, CrewOfIs, PagerInvIs DEF Objs

\* The messages it sends.
Letter(op, life) == [NoMessage EXCEPT !.op = op, !.life = life]

LEMMA LetterIs ==
    ASSUME NEW op \in Ops, NEW life \in Nat
    PROVE  /\ Letter(op, life) \in Requests
           /\ Letter(op, life).op = op /\ Letter(op, life).life = life
           /\ op \notin PageOps => Letter(op, life) \in Messages
  <1> DEFINE m == Letter(op, life)
  <1>1. m \in Requests /\ m.op = op /\ m.life = life
    BY NewThreadIs DEF Requests, Letter
  <1>2. op # "none"
    BY OpsAre
  <1> HIDE DEF m
  <1>3. op \notin PageOps => m \in Messages
    BY <1>1, <1>2 DEF Messages
  <1> QED BY <1>1, <1>3 DEF m

Asks(life, p, w) == [Letter("request", life) EXCEPT !.page = p, !.write = w]
Carries(op, life, p, v) == [Letter(op, life) EXCEPT !.page = p, !.data = v]

LEMMA AsksIs ==
    ASSUME NEW life \in Nat, NEW p \in Pages, NEW w \in BOOLEAN
    PROVE  LET m == Asks(life, p, w)
           IN m \in Messages /\ m.op = "request" /\ m.life = life /\ m.page = p
  <1> DEFINE n == Letter("request", life)
             m == Asks(life, p, w)
  <1>1. "request" \in Ops /\ "request" \in PageOps
    BY OpsAre
  <1>2. n \in Requests /\ n.op = "request" /\ n.life = life
    BY <1>1, LetterIs
  <1>3. m = [n EXCEPT !.page = p, !.write = w]
    BY DEF Asks
  <1> HIDE DEF n, m
  <1>4. m \in Requests /\ m.op = "request" /\ m.life = life /\ m.page = p
    BY <1>2, <1>3 DEF Requests
  <1>5. m \in Messages
    BY <1>1, <1>4 DEF Messages
  <1> QED BY <1>4, <1>5 DEF m

LEMMA CarriesIs ==
    ASSUME NEW op \in {"write", "initialize"}, NEW life \in Nat, NEW p \in Pages, NEW v \in Values
    PROVE  LET m == Carries(op, life, p, v)
           IN m \in Messages /\ m.op = op /\ m.life = life /\ m.page = p
  <1> DEFINE n == Letter(op, life)
             m == Carries(op, life, p, v)
  <1>1. op \in Ops /\ op \in PageOps /\ op # "none"
    BY OpsAre
  <1>2. n \in Requests /\ n.op = op /\ n.life = life
    BY <1>1, LetterIs
  <1>3. m = [n EXCEPT !.page = p, !.data = v]
    BY DEF Carries
  <1> HIDE DEF n, m
  <1>4. m \in Requests /\ m.op = op /\ m.life = life /\ m.page = p
    BY <1>2, <1>3 DEF Requests
  <1>5. m \in Messages
    BY <1>1, <1>4 DEF Messages
  <1> QED BY <1>4, <1>5 DEF m

LEMMA FaultStep ==
    ASSUME PagerInv, NEW o \in Objects, NEW p \in Pages, NEW w \in BOOLEAN, Fault(o, p, w)
    PROVE  PagerInv'
  <1> DEFINE d == ds[o]
             k == kernel[o]
             q == queue[o]
             m == [Message("request", o) EXCEPT !.page = p, !.write = w]
             q2 == Append(q, m)
             k2 == [k EXCEPT !.memory = [@ EXCEPT ![p] = Wanted]]
  <1>1. k.active /\ k.memory[p] = Out /\ queue' = Upd(queue, o, q2)
        /\ UNCHANGED <<ds, waiting, thread, lister, free, disk, received, content>>
    BY DEF Fault, Memory, Send, Upd, pager, store
  <1>2. d \in Dstructs /\ q \in Seq(Messages) /\ received[o] \in Seqnos /\ k \in KernelObjects
        /\ CrewOf(thread, o) \in Crews
        /\ ObjectAgrees(CrewOf(thread, o), d, q, received[o], k, lister = o)
    BY KernelHas
  <1>3. kernel' = Upd(kernel, o, k2)
    <2>1. kernel \in [Objects -> KernelObjects]
      BY TypesAre
    <2> QED BY <2>1 DEF Fault, Upd
  <1>5. k.life \in Nat /\ k.memory \in [Pages -> Values \cup {Out, Wanted}] /\ Out # Wanted
    BY <1>2, KernelIs DEF Out, Wanted
  <1>6. m \in Messages /\ m.op = "request" /\ m.life = k.life /\ m.page = p
    <2>1. m = Asks(k.life, p, w)
      BY DEF Message, Letter, Asks
    <2> HIDE DEF m, k
    <2> QED BY <1>5, <2>1, AsksIs
  <1> HIDE DEF m, q, k, d
  <1>7. k2 \in KernelObjects /\ k2.life = k.life /\ k2.active = k.active /\ k2.senders = k.senders
        /\ k2.memory = [k.memory EXCEPT ![p] = Wanted]
    BY <1>2, <1>5 DEF KernelObjects
  <1> HIDE DEF k2
  <1>8. k2.memory[p] = Wanted /\ (\A x \in Pages : k.memory[x] = Wanted => k2.memory[x] = Wanted)
    BY <1>5, <1>7
  <1>9. q2 \in Seq(Messages)
    BY <1>2, <1>6
  <1>10. ObjectAgrees(CrewOf(thread, o), d, Append(q, m), received[o], k2, lister = o)
    <2>1. m.op \in PageOps /\ k.memory[m.page] # Wanted /\ k2.memory[m.page] = Wanted
      BY <1>1, <1>5, <1>6, <1>8, OpsAre
    <2> QED BY <1>1, <1>2, <1>6, <1>7, <1>8, <2>1, PageMessageStep
  <1>11. ObjectAgrees(CrewOf(thread, o), d, q2, received[o], k2, lister = o)
    BY <1>10
  <1> HIDE DEF q2
  <1>12. KernelDoes(o, q2, k2)
    BY <1>1, <1>3, <1>7, <1>9, TypesAre DEF KernelDoes
  <1> QED BY <1>11, <1>12, KernelStep DEF d

\* Only the kernel's object of a life has pages.
LEMMA ActiveIs ==
    ASSUME NEW c, NEW d, NEW q, NEW r, NEW k, NEW l, ObjectAgrees(c, d, q, r, k, l),
           k \in KernelObjects, NEW p \in Pages, k.memory[p] \in Values
    PROVE  k.active
  <1>1. ~k.active => k.memory = [x \in Pages |-> Out]
    BY ObjectIs DEF Agree, LineAgrees, Complete
  <1> QED BY <1>1, VersionsAre, KernelIs

LEMMA ModifyStep ==
    ASSUME PagerInv, NEW o \in Objects, NEW p \in Pages, Modify(o, p)
    PROVE  PagerInv'
  <1> DEFINE d == ds[o]
             k == kernel[o]
             q == queue[o]
             dirty == k.dirty \cup {p}
             rest == k.unwritten \ {p}
  <1>0. PICK v \in Newer(o, p) :
            /\ content' = [content EXCEPT ![o][p] = v]
            /\ kernel' = [kernel EXCEPT ![o].memory[p] = v, ![o].dirty = @ \cup {p},
                                        ![o].unwritten = @ \ {p}]
    BY DEF Modify
  <1> DEFINE k2 == [k EXCEPT !.memory = [@ EXCEPT ![p] = v], !.dirty = dirty, !.unwritten = rest]
  <1>1. k.memory[p] \in Values /\ content' = [content EXCEPT ![o][p] = v]
        /\ UNCHANGED <<ds, waiting, thread, lister, free, disk, queue, received>>
    BY <1>0 DEF Modify, Memory, pager, store, port
  <1>2. d \in Dstructs /\ q \in Seq(Messages) /\ received[o] \in Seqnos /\ k \in KernelObjects
        /\ CrewOf(thread, o) \in Crews /\ content[o] \in [Pages -> Values]
        /\ ObjectAgrees(CrewOf(thread, o), d, q, received[o], k, lister = o)
    BY KernelHas
  <1>3. kernel' = Upd(kernel, o, k2)
    <2>1. kernel \in [Objects -> KernelObjects]
      BY TypesAre
    <2> QED BY <1>0, <2>1 DEF Upd
  <1>4. v \in Values
    BY NewerIs
  <1>5. content' \in [Objects -> [Pages -> Values]] /\ queue' = Upd(queue, o, q)
    BY <1>1, <1>4, UnchangedAt, TypesAre
  <1> HIDE DEF q, k, d
  <1>6. k.memory \in [Pages -> Values \cup {Out, Wanted}] /\ Out # Wanted
        /\ Out \notin Values /\ Wanted \notin Values /\ dirty \in SUBSET Pages
        /\ rest \in SUBSET Pages
    <2>1. dirty \in SUBSET Pages /\ rest \in SUBSET Pages
      BY <1>2, KernelIs
    <2> QED BY <1>2, <2>1, KernelIs, VersionsAre DEF Out, Wanted
  <1> HIDE DEF dirty, rest
  <1>7. k2 \in KernelObjects /\ k2.life = k.life /\ k2.active = k.active /\ k2.senders = k.senders
        /\ k2.memory = [k.memory EXCEPT ![p] = v]
    BY <1>2, <1>4, <1>6 DEF KernelObjects
  <1> HIDE DEF k2
  <1>8. \A x \in Pages : k.memory[x] = Wanted => k2.memory[x] = Wanted
    BY <1>1, <1>6, <1>7
  <1>9. k.active
    BY <1>1, <1>2, ActiveIs
  <1>10. ObjectAgrees(CrewOf(thread, o), d, q, received[o], k2, lister = o)
    BY <1>2, <1>7, <1>8, <1>9, MemoryStep
  <1>11. KernelDoes(o, q, k2)
    BY <1>1, <1>2, <1>3, <1>5, <1>7 DEF KernelDoes
  <1> QED BY <1>10, <1>11, KernelStep DEF d

LEMMA PageOutStep ==
    ASSUME PagerInv, NEW o \in Objects, NEW p \in Pages, PageOut(o, p)
    PROVE  PagerInv'
  <1> DEFINE d == ds[o]
             k == kernel[o]
             q == queue[o]
             v == k.memory[p]
             m == [Message("write", o) EXCEPT !.page = p, !.data = v]
             dirty == k.dirty \ {p}
             rest == k.unwritten \ {p}
             k2 == [k EXCEPT !.memory = [@ EXCEPT ![p] = Out], !.dirty = dirty, !.unwritten = rest]
             q2 == IF p \in k.dirty THEN Append(q, m) ELSE q
  <1>1. v \in Values /\ UNCHANGED <<ds, waiting, thread, lister, free, disk, received, content>>
    BY DEF PageOut, Memory, pager, store
  <1>2. d \in Dstructs /\ q \in Seq(Messages) /\ received[o] \in Seqnos /\ k \in KernelObjects
        /\ CrewOf(thread, o) \in Crews
        /\ ObjectAgrees(CrewOf(thread, o), d, q, received[o], k, lister = o)
    BY KernelHas
  <1>3. kernel' = Upd(kernel, o, k2)
    <2>1. kernel \in [Objects -> KernelObjects]
      BY TypesAre
    <2>2. kernel' = [kernel EXCEPT ![o].memory[p] = Out, ![o].dirty = @ \ {p},
                                  ![o].unwritten = @ \ {p}]
      BY DEF PageOut
    <2> QED BY <2>1, <2>2 DEF Upd
  <1>4. queue' = Upd(queue, o, q2)
    <2>1. CASE p \in k.dirty
      BY <2>1 DEF PageOut, Send, Upd, Memory
    <2>2. CASE p \notin k.dirty
      BY <2>2, UnchangedAt DEF PageOut
    <2> QED BY <2>1, <2>2
  <1>5. k.life \in Nat /\ k.memory \in [Pages -> Values \cup {Out, Wanted}] /\ Out # Wanted
        /\ Out \notin Values /\ Wanted \notin Values /\ dirty \in SUBSET Pages
        /\ rest \in SUBSET Pages
    <2>1. dirty \in SUBSET Pages /\ rest \in SUBSET Pages
      BY <1>2, KernelIs
    <2> QED BY <1>2, <2>1, KernelIs, VersionsAre DEF Out, Wanted
  <1>6. m \in Messages /\ m.op = "write" /\ m.life = k.life
    <2>1. m = Carries("write", k.life, p, v)
      BY DEF Message, Letter, Carries
    <2> HIDE DEF m, k, v
    <2> QED BY <1>1, <1>5, <2>1, CarriesIs
  <1> HIDE DEF m, q, d, dirty, rest
  <1>7. k.active
    BY <1>1, <1>2, ActiveIs
  <1> HIDE DEF k
  <1>8. k2 \in KernelObjects /\ k2.life = k.life /\ k2.active = k.active /\ k2.senders = k.senders
        /\ k2.memory = [k.memory EXCEPT ![p] = Out]
    BY <1>2, <1>5 DEF KernelObjects
  <1> HIDE DEF k2
  <1>9. \A x \in Pages : k.memory[x] = Wanted => k2.memory[x] = Wanted
    BY <1>1, <1>5, <1>8 DEF v
  <1>10. ObjectAgrees(CrewOf(thread, o), d, q2, received[o], k2, lister = o) /\ q2 \in Seq(Messages)
    <2>1. CASE p \in k.dirty
      <3>1. m.op \in PageOps /\ m.op # "request"
        BY <1>6, OpsAre
      <3>2. ObjectAgrees(CrewOf(thread, o), d, Append(q, m), received[o], k2, lister = o)
        BY <1>2, <1>6, <1>7, <1>8, <1>9, <3>1, PageMessageStep
      <3> QED BY <1>2, <1>6, <2>1, <3>2
    <2>2. CASE p \notin k.dirty
      <3>1. ObjectAgrees(CrewOf(thread, o), d, q, received[o], k2, lister = o)
        BY <1>2, <1>7, <1>8, <1>9, MemoryStep
      <3> QED BY <1>2, <2>2, <3>1
    <2> QED BY <2>1, <2>2
  <1> HIDE DEF q2
  <1>11. KernelDoes(o, q2, k2)
    BY <1>1, <1>3, <1>4, <1>8, <1>10, TypesAre DEF KernelDoes
  <1> QED BY <1>10, <1>11, KernelStep DEF d

LEMMA InitializeStep ==
    ASSUME PagerInv, NEW o \in Objects, NEW p \in Pages, Initialize(o, p)
    PROVE  PagerInv'
  <1> DEFINE d == ds[o]
             k == kernel[o]
             q == queue[o]
             v == Min(Versions[p])
             x == IF content[o][p] = 0 THEN v ELSE content[o][p]
             m == [Message("initialize", o) EXCEPT !.page = p, !.data = v]
             q2 == Append(q, m)
  <1>1. k.active /\ content' = [content EXCEPT ![o][p] = x] /\ queue' = Upd(queue, o, q2)
        /\ UNCHANGED <<ds, waiting, thread, lister, free, disk, received, kernel>>
    BY DEF Initialize, Send, Upd, pager, store
  <1>2. d \in Dstructs /\ q \in Seq(Messages) /\ received[o] \in Seqnos /\ k \in KernelObjects
        /\ CrewOf(thread, o) \in Crews /\ content[o] \in [Pages -> Values]
        /\ ObjectAgrees(CrewOf(thread, o), d, q, received[o], k, lister = o)
    BY KernelHas
  <1>3. v \in Values
    BY VersionsAre
  <1>4. x \in Values
    BY <1>2, <1>3
  <1>5. kernel' = Upd(kernel, o, k)
    BY <1>1, UnchangedAt
  <1>6. k.life \in Nat
    BY <1>2, KernelIs
  <1>7. m \in Messages /\ m.op = "initialize" /\ m.life = k.life
    <2>1. m = Carries("initialize", k.life, p, v)
      BY DEF Message, Letter, Carries
    <2> HIDE DEF m, k, v
    <2> QED BY <1>3, <1>6, <2>1, CarriesIs
  <1> HIDE DEF m, q, d, k, v, x
  <1>8. content' \in [Objects -> [Pages -> Values]]
    BY <1>1, <1>4, TypesAre
  <1>9. m.op \in PageOps /\ m.op # "request"
    BY <1>7, OpsAre
  <1>10. ObjectAgrees(CrewOf(thread, o), d, Append(q, m), received[o], k, lister = o)
    BY <1>1, <1>2, <1>7, <1>9, PageMessageStep
  <1>11. ObjectAgrees(CrewOf(thread, o), d, q2, received[o], k, lister = o) /\ q2 \in Seq(Messages)
    BY <1>2, <1>7, <1>10
  <1> HIDE DEF q2
  <1>12. KernelDoes(o, q2, k)
    BY <1>1, <1>2, <1>5, <1>8, <1>11 DEF KernelDoes
  <1> QED BY <1>11, <1>12, KernelStep DEF d

LEMMA TerminateStep ==
    ASSUME PagerInv, NEW o \in Objects, Terminate(o)
    PROVE  PagerInv'
  <1> DEFINE d == ds[o]
             k == kernel[o]
             q == queue[o]
             m == Message("terminate", o)
             q2 == Append(q, m)
             out == [p \in Pages |-> Out]
             k2 == [k EXCEPT !.active = FALSE, !.dirty = {}, !.unwritten = {}, !.memory = out]
  <1>1. k.active /\ queue' = Upd(queue, o, q2)
        /\ UNCHANGED <<ds, waiting, thread, lister, free, disk, received, content>>
    BY DEF Terminate, Send, Upd, pager, store
  <1>2. d \in Dstructs /\ q \in Seq(Messages) /\ received[o] \in Seqnos /\ k \in KernelObjects
        /\ CrewOf(thread, o) \in Crews
        /\ ObjectAgrees(CrewOf(thread, o), d, q, received[o], k, lister = o)
    BY KernelHas
  <1>3. kernel' = Upd(kernel, o, k2)
    <2>1. kernel \in [Objects -> KernelObjects]
      BY TypesAre
    <2>2. kernel' = [kernel EXCEPT ![o].active = FALSE, ![o].dirty = {}, ![o].unwritten = {},
                                  ![o].memory = out]
      BY DEF Terminate
    <2> HIDE DEF out
    <2> QED BY <2>1, <2>2 DEF Upd
  <1>4. m \in Messages /\ m.op = "terminate" /\ m.life = k.life
    <2>1. m = Letter("terminate", k.life)
      BY DEF Message, Letter
    <2>2. "terminate" \in Ops /\ "terminate" \notin PageOps /\ k.life \in Nat
      BY <1>2, KernelIs, OpsAre
    <2> HIDE DEF m, k
    <2> QED BY <2>1, <2>2, LetterIs
  <1>5. out \in [Pages -> Values \cup {Out, Wanted}]
    OBVIOUS
  <1> HIDE DEF m, q, d, k
  <1>6. k2 \in KernelObjects /\ k2.life = k.life /\ ~k2.active /\ k2.senders = k.senders
        /\ k2.memory = [p \in Pages |-> Out]
    <2>1. k2.memory = out
      BY <1>2 DEF KernelObjects
    <2> HIDE DEF out
    <2>2. k2 \in KernelObjects /\ k2.life = k.life /\ ~k2.active /\ k2.senders = k.senders
      BY <1>2, <1>5 DEF KernelObjects
    <2> QED BY <2>1, <2>2 DEF out
  <1> HIDE DEF k2, out
  <1>7. ObjectAgrees(CrewOf(thread, o), d, Append(q, m), received[o], k2, lister = o)
    BY <1>1, <1>2, <1>4, <1>6, LifeMessageStep
  <1>8. ObjectAgrees(CrewOf(thread, o), d, q2, received[o], k2, lister = o) /\ q2 \in Seq(Messages)
    BY <1>2, <1>4, <1>7
  <1> HIDE DEF q2
  <1>9. KernelDoes(o, q2, k2)
    BY <1>1, <1>3, <1>6, <1>8, TypesAre DEF KernelDoes
  <1> QED BY <1>8, <1>9, KernelStep DEF d

LEMMA MapStep ==
    ASSUME PagerInv, NEW o \in Objects, Map(o)
    PROVE  PagerInv'
  <1> DEFINE d == ds[o]
             k == kernel[o]
             q == queue[o]
             m == [Message("init", o) EXCEPT !.life = @ + 1]
             q2 == Append(q, m)
             life == k.life + 1
             k2 == [k EXCEPT !.active = TRUE, !.ready = FALSE, !.life = life]
  <1>1. k.senders /\ ~k.active /\ queue' = Upd(queue, o, q2)
        /\ UNCHANGED <<ds, waiting, thread, lister, free, disk, received, content>>
    BY DEF Map, Send, Upd, pager, store
  <1>2. d \in Dstructs /\ q \in Seq(Messages) /\ received[o] \in Seqnos /\ k \in KernelObjects
        /\ CrewOf(thread, o) \in Crews
        /\ ObjectAgrees(CrewOf(thread, o), d, q, received[o], k, lister = o)
    BY KernelHas
  <1>3. kernel' = Upd(kernel, o, k2)
    <2>1. kernel \in [Objects -> KernelObjects]
      BY TypesAre
    <2>2. kernel' = [kernel EXCEPT ![o].active = TRUE, ![o].ready = FALSE, ![o].life = @ + 1]
      BY DEF Map
    <2> QED BY <2>1, <2>2 DEF Upd
  <1>4. life \in Nat
    BY <1>2, KernelIs
  <1>5. m \in Messages /\ m.op = "init" /\ m.life = life
    <2> DEFINE n == Letter("init", k.life)
    <2>1. "init" \in Ops /\ "init" # "none" /\ "init" \notin PageOps /\ k.life \in Nat
      BY <1>2, KernelIs, OpsAre
    <2>2. n \in Requests /\ n.op = "init" /\ n.life = k.life
      BY <2>1, LetterIs
    <2>3. m = [n EXCEPT !.life = @ + 1]
      BY DEF Message, Letter
    <2> HIDE DEF m, k, n, life
    <2>4. m = [n EXCEPT !.life = life]
      BY <2>2, <2>3 DEF Requests, life
    <2>5. m \in Requests /\ m.op = "init" /\ m.life = life
      BY <1>4, <2>2, <2>4 DEF Requests
    <2> QED BY <2>1, <2>5 DEF Messages
  <1> HIDE DEF m, q, d, k
  <1>6. k2 \in KernelObjects /\ k2.life = k.life + 1 /\ k2.active /\ k2.senders = k.senders
        /\ k2.memory = k.memory
    <2> HIDE DEF life
    <2>1. k2 \in KernelObjects /\ k2.life = life /\ k2.active /\ k2.senders = k.senders
          /\ k2.memory = k.memory
      BY <1>2, <1>4 DEF KernelObjects
    <2> QED BY <2>1 DEF life
  <1> HIDE DEF k2
  <1>7. ObjectAgrees(CrewOf(thread, o), d, Append(q, m), received[o], k2, lister = o)
    BY <1>1, <1>2, <1>5, <1>6, LifeMessageStep
  <1>8. ObjectAgrees(CrewOf(thread, o), d, q2, received[o], k2, lister = o) /\ q2 \in Seq(Messages)
    BY <1>2, <1>5, <1>7
  <1> HIDE DEF q2
  <1>9. KernelDoes(o, q2, k2)
    BY <1>1, <1>3, <1>6, <1>8, TypesAre DEF KernelDoes
  <1> QED BY <1>8, <1>9, KernelStep DEF d

LEMMA NoMoreSendersStep ==
    ASSUME PagerInv, NEW o \in Objects, NoMoreSenders(o)
    PROVE  PagerInv'
  <1> DEFINE d == ds[o]
             k == kernel[o]
             q == queue[o]
             m == Message("no_senders", o)
             q2 == Append(q, m)
             k2 == [k EXCEPT !.senders = FALSE]
  <1>1. k.senders /\ ~k.active /\ queue' = Upd(queue, o, q2)
        /\ UNCHANGED <<ds, waiting, thread, lister, free, disk, received, content>>
    BY DEF NoMoreSenders, Send, Upd, pager, store
  <1>2. d \in Dstructs /\ q \in Seq(Messages) /\ received[o] \in Seqnos /\ k \in KernelObjects
        /\ CrewOf(thread, o) \in Crews
        /\ ObjectAgrees(CrewOf(thread, o), d, q, received[o], k, lister = o)
    BY KernelHas
  <1>3. kernel' = Upd(kernel, o, k2)
    <2>1. kernel \in [Objects -> KernelObjects]
      BY TypesAre
    <2> QED BY <2>1 DEF NoMoreSenders, Upd
  <1>4. m \in Messages /\ m.op = "no_senders" /\ m.life = k.life
    <2>1. m = Letter("no_senders", k.life)
      BY DEF Message, Letter
    <2>2. "no_senders" \in Ops /\ "no_senders" \notin PageOps /\ k.life \in Nat
      BY <1>2, KernelIs, OpsAre
    <2> HIDE DEF m, k
    <2> QED BY <2>1, <2>2, LetterIs
  <1> HIDE DEF m, q, d, k
  <1>5. k2 \in KernelObjects /\ k2.life = k.life /\ ~k2.active /\ ~k2.senders
        /\ k2.memory = k.memory
    BY <1>1, <1>2 DEF KernelObjects
  <1> HIDE DEF k2
  <1>6. ObjectAgrees(CrewOf(thread, o), d, Append(q, m), received[o], k2, lister = o)
    BY <1>1, <1>2, <1>4, <1>5, LifeMessageStep
  <1>7. ObjectAgrees(CrewOf(thread, o), d, q2, received[o], k2, lister = o) /\ q2 \in Seq(Messages)
    BY <1>2, <1>4, <1>6
  <1> HIDE DEF q2
  <1>8. KernelDoes(o, q2, k2)
    BY <1>1, <1>3, <1>5, <1>7, TypesAre DEF KernelDoes
  <1> QED BY <1>7, <1>8, KernelStep DEF d

-----------------------------------------------------------------------------
(* The invariant                                                           *)

LEMMA NewObjectIs ==
    ASSUME NEW i \in BOOLEAN, NEW c \in Crews, DOMAIN c = {}
    PROVE  /\ NewObject(i) \in Dstructs /\ NewKernel(i) \in KernelObjects
           /\ ObjectAgrees(c, NewObject(i), <<>>, 0, NewKernel(i), FALSE)
  <1> DEFINE d == NewObject(i)
             k == NewKernel(i)
             s == IF i THEN 1 ELSE 0
             L == Line(c, d.seqno, <<>>)
  <1>1. d \in Dstructs
    <2>1. [p \in Pages |-> None] \in [Pages -> Blocks \cup {None}] /\ 0 \in Seqnos
      BY ModulusIs
    <2> QED BY <2>1 DEF NewObject, Dstructs
  <1>2. k \in KernelObjects
    <2>1. [p \in Pages |-> Out] \in [Pages -> Values \cup {Out, Wanted}]
      OBVIOUS
    <2> QED BY <2>1 DEF NewKernel, KernelObjects
  <1>3. /\ d.seqno = 0 /\ d.readers = 0 /\ d.writers = 0 /\ d.request = i /\ ~d.deleted
        /\ i => d.name_refs > 0
    BY DEF NewObject
  <1>4. k.active = i /\ k.senders /\ k.life = s /\ k.memory = [p \in Pages |-> Out]
    BY DEF NewKernel
  <1> HIDE DEF d, k
  <1>5. Pending(c) = {} /\ Reading(c) = {} /\ Writing(c) = {} /\ Reads(c) = {}
    BY DEF Pending, Reading, Writing, Reads
  <1>6. Cardinality({}) = 0
    BY FS_EmptySet
  <1>7. TurnsAgree(c, d, 0)
    <2>1. After(0, 0) = 0
      BY DEF After
    <2> QED BY <1>3, <1>5, <1>6, <2>1 DEF TurnsAgree
  <1>8. NamesAgree(d, FALSE)
    BY <1>3 DEF NamesAgree
  <1>9. L = {}
    BY <1>5 DEF Line
  <1> HIDE DEF L
  <1>10. s \in 0..k.life /\ (i => s = 1) /\ (~i => s = 0)
    BY <1>4
  <1> HIDE DEF s
  <1>11. InOrder(L) /\ Current(L, s, d, k)
    BY <1>9 DEF InOrder, Current
  <1>12. Complete(L, s, d, k)
    BY <1>3, <1>4, <1>9, <1>10 DEF Complete
  <1>13. OneRequest(c, L, k)
    BY <1>5, <1>9, OneRequestIs
  <1>14. TransfersAgree(c, s, d)
    <2>1. Cardinality(Reading(c)) = d.readers /\ Cardinality(Writing(c)) = d.writers
      BY <1>3, <1>5, <1>6
    <2>2. ~(d.readers + d.writers > 0) /\ \A t \in DOMAIN c : Fits(c[t], s, d)
      BY <1>3
    <2> QED BY <2>1, <2>2, TransfersAgreeIs
  <1>15. Agree(c, L, s, d, k)
    BY <1>11, <1>12, <1>13, <1>14 DEF Agree, LineAgrees
  <1>16. ObjectAgrees(c, d, <<>>, 0, k, FALSE)
    BY <1>7, <1>8, <1>10, <1>15, ObjectIs DEF L
  <1> QED BY <1>1, <1>2, <1>16 DEF d, k

LEMMA InitHolds ==
    ASSUME Init
    PROVE  PagerInv
  <1>1. PICK internal \in [Objects -> BOOLEAN] :
           /\ ds = [o \in Objects |-> NewObject(internal[o])]
           /\ kernel = [o \in Objects |-> NewKernel(internal[o])]
    BY DEF Init
  <1>2. 0 \in Values /\ 0 \in Seqnos /\ NewThread \in ThreadRecords /\ NewThread.o = None
    BY VersionsAre, ModulusIs, NewThreadIs
  <1>3. /\ thread = [t \in Threads |-> NewThread] /\ lister = None /\ free = Blocks
        /\ queue = [o \in Objects |-> <<>>] /\ received = [o \in Objects |-> 0]
    BY DEF Init
  <1>4. thread \in [Threads -> ThreadRecords]
    BY <1>2, <1>3
  <1>5. ASSUME NEW o \in Objects
        PROVE  /\ ds[o] \in Dstructs /\ kernel[o] \in KernelObjects
               /\ \A p \in Pages : ds[o].map[p] = None
               /\ ObjectAgrees(CrewOf(thread, o), ds[o], queue[o], received[o], kernel[o], lister = o)
    <2>1. CrewOf(thread, o) \in Crews /\ DOMAIN CrewOf(thread, o) = {u \in Threads : thread[u].o = o}
      BY <1>4, CrewOfIs
    <2>2. \A u \in Threads : thread[u].o # o
      BY <1>2, <1>3, DefaultPagerAssumption
    <2>3. DOMAIN CrewOf(thread, o) = {}
      BY <2>1, <2>2
    <2>4. internal[o] \in BOOLEAN
      OBVIOUS
    <2>5. /\ NewObject(internal[o]) \in Dstructs /\ NewKernel(internal[o]) \in KernelObjects
          /\ ObjectAgrees(CrewOf(thread, o), NewObject(internal[o]), <<>>, 0, NewKernel(internal[o]), FALSE)
      BY <2>1, <2>3, <2>4, NewObjectIs
    <2>6. (lister = o) = FALSE
      BY <1>3, DefaultPagerAssumption
    <2>7. \A p \in Pages : NewObject(internal[o]).map[p] = None
      BY DEF NewObject
    <2>8. ds[o] = NewObject(internal[o]) /\ kernel[o] = NewKernel(internal[o])
          /\ queue[o] = <<>> /\ received[o] = 0
      BY <1>1, <1>3
    <2> QED BY <2>5, <2>6, <2>7, <2>8
  <1>6. /\ waiting \in [Objects -> [Conditions -> SUBSET Threads]]
        /\ disk \in [Blocks -> Values] /\ content \in [Objects -> [Pages -> Values]]
        /\ queue \in [Objects -> Seq(Messages)] /\ received \in [Objects -> Seqnos]
    BY <1>2 DEF Init
  <1>7. ds \in [Objects -> Dstructs] /\ kernel \in [Objects -> KernelObjects]
    BY <1>1, <1>5
  <1>8. TypeOK
    BY <1>3, <1>4, <1>6, <1>7 DEF TypeOK
  <1>9. OwnedBy(ds, free)
    BY <1>3, <1>5, DefaultPagerAssumption DEF OwnedBy
  <1>10. Objs(thread, ds, queue, received, kernel, lister)
    BY <1>5 DEF Objs
  <1> QED BY <1>8, <1>9, <1>10, PagerInvIs

LEMMA NextHolds ==
    ASSUME PagerInv, [Next]_vars
    PROVE  PagerInv'
  <1>1. CASE UNCHANGED vars
    <2>1. UNCHANGED <<ds, waiting, lister, free, disk, queue, received, thread, kernel, content>>
      BY <1>1 DEF vars
    <2>2. TypeOK' /\ OwnedBy(ds', free')
      BY <2>1, TypesAre, PagerInvIs DEF TypeOK
    <2>3. Objs(thread', ds', queue', received', kernel', lister')
      BY <2>1, PagerInvIs
    <2> QED BY <2>2, <2>3, PagerInvIs
  <1>2. ASSUME NEW t \in Threads, Server(t)
        PROVE  PagerInv'
    <2>1. CASE \E o \in Objects : Receive(t, o)
      BY <2>1, ReceiveAction
    <2>2. CASE Lock(t) \/ StartRead(t) \/ StartWrite(t) \/ Broadcast(t)
      BY <2>2, LockStep, StartReadStep, StartWriteStep, BroadcastStep
    <2>3. CASE ReadOffset(t) \/ ReadDisk(t) \/ ReadFails(t) \/ Release(t) \/ Reply(t)
      BY <2>3, ReadOffsetStep, ReadDiskStep, ReadFailsStep, ReleaseStep, ReplyAction
    <2>4. CASE Finish(t) \/ Finished(t)
      BY <2>4, FinishAction, FinishedStep
    <2>5. CASE HasPage(t) \/ WriteOffset(t) \/ WriteDisk(t) \/ WriteFails(t) \/ WriteError(t)
      BY <2>5, HasPageStep, WriteOffsetStep, WriteDiskStep, WriteFailsStep, WriteErrorStep
    <2>6. CASE InitObject(t) \/ NoSenders(t)
      BY <2>6, InitObjectStep, NoSendersStep
    <2>7. CASE WaitForReaders(t) \/ WaitForWriters(t) \/ WaitForRefs(t) \/ TerminateObject(t)
      BY <2>7, WaitForReadersStep, WaitForWritersStep, WaitForRefsStep, TerminateObjectStep
    <2> QED BY <1>2, <2>1, <2>2, <2>3, <2>4, <2>5, <2>6, <2>7 DEF Server
  <1>3. ASSUME NEW o \in Objects, Kernel(o)
        PROVE  PagerInv'
    <2>1. CASE \E p \in Pages : \E write \in BOOLEAN : Fault(o, p, write)
      BY <2>1, FaultStep
    <2>2. CASE \E p \in Pages : Modify(o, p) \/ PageOut(o, p) \/ Initialize(o, p)
      BY <2>2, ModifyStep, PageOutStep, InitializeStep
    <2>3. CASE Terminate(o) \/ Map(o) \/ NoMoreSenders(o)
      BY <2>3, TerminateStep, MapStep, NoMoreSendersStep
    <2> QED BY <1>3, <2>1, <2>2, <2>3 DEF Kernel
  <1>4. CASE \E o \in Objects : ListObject(o)
    BY <1>4, ListStep
  <1>5. CASE MoreNameRefs
    BY <1>5, MoreNamesStep
  <1> QED BY <1>1, <1>2, <1>3, <1>4, <1>5 DEF Next

(* The messages of an object that are not served are one line, from the    *)
(* thread whose turn it is, over the threads that wait for theirs, to the  *)
(* queue of the port: their sequence numbers are consecutive, the kernel   *)
(* sent them in this order, and they tell one story of the object's lives. *)
THEOREM PagerInvariant == Spec => []PagerInv
  <1>1. Init => PagerInv
    BY InitHolds
  <1>2. PagerInv /\ [Next]_vars => PagerInv'
    BY NextHolds
  <1> QED BY <1>1, <1>2, PTL DEF Spec

-----------------------------------------------------------------------------
(* What follows                                                            *)

(* The terminate of an object (default_pager.c, seqnos_memory_object_      *)
(* terminate) and its no_senders come after the transfers of the life: the *)
(* counts that pager_port_wait_for_readers and _writers look at are those  *)
(* of the threads at work, and the object has its ports as long as one is. *)
THEOREM TransfersEnd == Spec => []TransfersEndFirst
  <1>1. ASSUME PagerInv
        PROVE  TransfersEndFirst
    <2>1. SUFFICES ASSUME NEW o \in Objects
                   PROVE  LET in(ops) == {t \in Threads : Obj(t) = o /\ Msg(t).op \in ops
                                                  /\ (thread[t].pc \in Transfers
                                                      \/ (thread[t].pc = "broadcast"))}
                          IN /\ Cardinality(in({"request"})) = ds[o].readers
                             /\ Cardinality(in({"write", "initialize"})) = ds[o].writers
                             /\ ds[o].readers + ds[o].writers > 0 => ds[o].request /\ ~ds[o].deleted
      BY DEF TransfersEndFirst
    <2> DEFINE c == CrewOf(thread, o)
               in(ops) == {t \in Threads : Obj(t) = o /\ Msg(t).op \in ops
                                           /\ (thread[t].pc \in Transfers
                                               \/ (thread[t].pc = "broadcast"))}
    <2>2. c \in Crews /\ ObjectAgrees(c, ds[o], queue[o], received[o], kernel[o], lister = o)
      BY <1>1, KernelHas
    <2>3. PICK s : Agree(c, Line(c, ds[o].seqno, queue[o]), s, ds[o], kernel[o])
      BY <2>2, ObjectIs
    <2>4. TransfersAgree(c, s, ds[o]) /\ (ds[o].deleted => ~ds[o].request)
      BY <2>3 DEF Agree, LineAgrees, Complete
    <2>5. thread \in [Threads -> ThreadRecords] /\ DOMAIN c = {u \in Threads : thread[u].o = o}
      BY <1>1, TypesAre, CrewOfIs
    <2>6. \A t \in DOMAIN c : c[t] = thread[t]
      BY DEF CrewOf
    <2>7. Transfers \cup {"broadcast"} = Moving \cup {"finish"}
      BY PCsAre DEF Transfers
    <2> HIDE DEF c
    <2>8. in({"request"}) = Reading(c)
      BY <2>5, <2>6, <2>7 DEF Reading, Obj, Msg
    <2>9. in({"write", "initialize"}) = Writing(c)
      BY <2>5, <2>6, <2>7 DEF Writing, Obj, Msg
    <2>10. /\ Cardinality(in({"request"})) = ds[o].readers
           /\ Cardinality(in({"write", "initialize"})) = ds[o].writers
           /\ ds[o].readers + ds[o].writers > 0 => ds[o].request
      BY <2>4, <2>8, <2>9, TransfersAgreeIs
    <2> QED BY <2>4, <2>10
  <1> QED BY <1>1, PagerInvariant, PTL

(* The pager never panics because it is given a request port it has, or is *)
(* told of no senders while it has one.                                    *)
THEOREM NeverPanics == Spec => []NoPanic
  <1>1. ASSUME PagerInv
        PROVE  NoPanic
    <2>1. SUFFICES ASSUME NEW t \in Threads, thread[t].pc \in {"init", "no_senders"}
                   PROVE  ~ds[Obj(t)].request /\ ~ds[Obj(t)].deleted
      BY DEF NoPanic
    <2> DEFINE o == Obj(t)
               c == CrewOf(thread, o)
               d == ds[o]
               m == thread[t].m
               L == Line(c, d.seqno, queue[o])
    <2>2. /\ c \in Crews /\ t \in DOMAIN c /\ c[t] = thread[t] /\ d \in Dstructs
          /\ thread[t] \in ThreadRecords
          /\ queue[o] \in Seq(Messages) /\ received[o] \in Seqnos /\ kernel[o] \in KernelObjects
          /\ ObjectAgrees(c, d, queue[o], received[o], kernel[o], lister = o)
      BY <1>1, <2>1, AtWork
    <2>3. m.op \in {"init", "no_senders"}
      BY <2>1, <2>2, ThreadIs, OpsAre
    <2> HIDE DEF c, d, o
    <2>4. thread[t].pc \in Turns
      BY <2>1, PCsAre
    <2>5. <<0, m>> \in L
      BY <2>2, <2>4, TurnIs
    <2>6. PICK s \in 0..kernel[o].life : Agree(c, L, s, d, kernel[o])
      BY <2>2, ObjectIs
    <2>7. LineAgrees(L, s, d, kernel[o])
      BY <2>6 DEF Agree
    <2>8. L \in Lines
      BY <2>2, LineIs, DstructIs
    <2>9. s \in Nat /\ s <= kernel[o].life
      BY <2>2, KernelIs
    <2> HIDE DEF L, m
    <2> QED BY <2>2, <2>3, <2>5, <2>7, <2>8, <2>9, FirstIs DEF d, o
  <1> QED BY <1>1, PagerInvariant, PTL

(* No block of the partition is lost or given to two pages, whatever       *)
(* becomes of the transfers and of the objects.                            *)
THEOREM BlocksAreExact == Spec => []BlocksExact
  <1>1. ASSUME PagerInv
        PROVE  BlocksExact
    <2>1. free \subseteq Blocks /\ OwnedBy(ds, free)
      BY <1>1, TypesAre, PagerInvIs
    <2>2. ASSUME NEW b \in Blocks
          PROVE  Cardinality({x \in Objects \X Pages : ds[x[1]].map[x[2]] = b})
                    = (IF b \in free THEN 0 ELSE 1)
      <3> DEFINE S == {x \in Objects \X Pages : ds[x[1]].map[x[2]] = b}
      <3>1. /\ b \in free <=> \A o \in Objects, p \in Pages : ds[o].map[p] # b
            /\ \A o, o2 \in Objects, p, p2 \in Pages :
                  ds[o].map[p] = b /\ ds[o2].map[p2] = b => o = o2 /\ p = p2
        BY <2>1 DEF OwnedBy
      <3>2. CASE b \in free
        <4>1. S = {}
          BY <3>1, <3>2
        <4> QED BY <3>2, <4>1, FS_EmptySet
      <3>3. CASE b \notin free
        <4>1. PICK o \in Objects, p \in Pages : ds[o].map[p] = b
          BY <3>1, <3>3
        <4>2. S = {<<o, p>>}
          BY <3>1, <4>1
        <4>3. Cardinality({<<o, p>>}) = 1
          BY FS_Singleton
        <4> QED BY <3>3, <4>2, <4>3
      <3> QED BY <3>2, <3>3
    <2> QED BY <2>1, <2>2 DEF BlocksExact
  <1> QED BY <1>1, PagerInvariant, PTL
=============================================================================
