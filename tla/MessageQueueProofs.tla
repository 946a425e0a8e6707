------------------------- MODULE MessageQueueProofs -------------------------
(***************************************************************************)
(* Proofs about MessageQueue for any threads, ports, port sets, messages   *)
(* and limits.                                                             *)
(***************************************************************************)
EXTENDS MessageQueue, FiniteSetTheorems, WellFoundedInduction, TLAPS

-----------------------------------------------------------------------------
(* Induction over the numbers up to n: the numbers for which it fails have *)
(* a least element.                                                        *)

LEMMA Least ==
    ASSUME NEW T, T \subseteq Nat, T # {}
    PROVE  \E x \in T : \A y \in T : x <= y
  <1> DEFINE R == {r \in Nat \X Nat : r[1] < r[2]}
  <1>1. R = OpToRel(<, Nat)
    BY DEF OpToRel
  <1>2. IsWellFoundedOn(R, Nat)
    BY <1>1, NatLessThanWellFounded
  <1> HIDE DEF R
  <1>3. \E x \in T : \A y \in T : ~ (<<y, x>> \in R)
    BY <1>2, WFMin
  <1>4. \A x, y \in T : ~ (<<y, x>> \in R) => x <= y
    BY DEF R
  <1> QED BY <1>3, <1>4

\* A set of numbers with 0 and the successor of each member up to n has all up to n.
LEMMA Induction ==
    ASSUME NEW n \in Nat, NEW T, 0 \in T, \A i \in 1..n : i - 1 \in T => i \in T
    PROVE  \A i \in 0..n : i \in T
  <1> SUFFICES ASSUME NEW j \in 0..n, j \notin T PROVE FALSE
    OBVIOUS
  <1> DEFINE U == {i \in 0..n : i \notin T}
  <1>0. U \subseteq Nat /\ U /= {}
    OBVIOUS
  <1>1. PICK x \in U : \A y \in U : x <= y
    <2> HIDE DEF U
    <2> QED BY <1>0, Least
  <1>2. x \in 1..n /\ x - 1 \in 0..n /\ x - 1 < x
    BY <1>1
  <1>3. x - 1 \in T
    BY <1>1, <1>2
  <1> QED BY <1>1, <1>2, <1>3


-----------------------------------------------------------------------------
(* Queues without repetitions.                                             *)

LEMMA Headed ==
    ASSUME NEW S, NEW s \in Seq(S), s /= <<>>, IsInjective(s)
    PROVE  /\ Head(s) \in S /\ Tail(s) \in Seq(S) /\ Head(s) \in Range(s)
           /\ Range(Tail(s)) = Range(s) \ {Head(s)} /\ IsInjective(Tail(s))
           /\ Len(s) = 1 => Tail(s) = <<>> /\ s = <<Head(s)>>
  <1>1. Len(s) \in Nat /\ Len(s) >= 1 /\ DOMAIN s = 1..Len(s) /\ Head(s) = s[1]
    OBVIOUS
  <1>2. Tail(s) \in Seq(S) /\ Len(Tail(s)) = Len(s) - 1 /\ DOMAIN Tail(s) = 1..(Len(s) - 1)
        /\ \A i \in 1..(Len(s) - 1) : Tail(s)[i] = s[i + 1]
    OBVIOUS
  <1>3. IsInjective(Tail(s))
    BY <1>1, <1>2 DEF IsInjective
  <1>4. ASSUME NEW x \in Range(s) \ {Head(s)}
        PROVE  x \in Range(Tail(s))
    <2>1. PICK i \in 1..Len(s) : s[i] = x
      BY <1>1 DEF Range
    <2>2. i - 1 \in 1..(Len(s) - 1) /\ Tail(s)[i - 1] = x
      BY <1>1, <1>2, <2>1
    <2> QED BY <1>2, <2>2 DEF Range
  <1>5. ASSUME NEW x \in Range(Tail(s))
        PROVE  x \in Range(s) \ {Head(s)}
    <2>1. PICK i \in 1..(Len(s) - 1) : Tail(s)[i] = x
      BY <1>2 DEF Range
    <2>2. i + 1 \in 1..Len(s) /\ s[i + 1] = x
      BY <1>1, <1>2, <2>1
    <2> QED BY <1>1, <2>2 DEF Range, IsInjective
  <1>6. Head(s) \in S /\ Head(s) \in Range(s)
    BY <1>1 DEF Range
  <1>7. Len(s) = 1 => Tail(s) = <<>> /\ s = <<Head(s)>>
    BY <1>1, <1>2
  <1> QED BY <1>2, <1>3, <1>4, <1>5, <1>6, <1>7

LEMMA Appended ==
    ASSUME NEW S, NEW s \in Seq(S), NEW x \in S, x \notin Range(s), IsInjective(s)
    PROVE  /\ Append(s, x) \in Seq(S) /\ Range(Append(s, x)) = Range(s) \cup {x}
           /\ IsInjective(Append(s, x))
  <1>1. Len(s) \in Nat /\ DOMAIN s = 1..Len(s)
    OBVIOUS
  <1>2. /\ Append(s, x) \in Seq(S) /\ DOMAIN Append(s, x) = 1..(Len(s) + 1)
        /\ Append(s, x)[Len(s) + 1] = x /\ \A i \in 1..Len(s) : Append(s, x)[i] = s[i]
    OBVIOUS
  <1>3. \A i \in 1..Len(s) : s[i] /= x
    BY <1>1 DEF Range
  <1>4. IsInjective(Append(s, x))
    BY <1>1, <1>2, <1>3 DEF IsInjective
  <1>5. Range(Append(s, x)) = Range(s) \cup {x}
    BY <1>1, <1>2 DEF Range
  <1> QED BY <1>2, <1>4, <1>5

LEMMA Nobody == Range(<<>>) = {} /\ IsInjective(<<>>)
  BY DEF Range, IsInjective

LEMMA Parted ==
    ASSUME NEW S, NEW s \in Seq(S), IsInjective(s), NEW n \in 1..Len(s)
    PROVE  LET f == SubSeq(s, 1, n)
               r == SubSeq(s, n + 1, Len(s)) IN
           /\ f \in Seq(S) /\ f /= <<>> /\ IsInjective(f) /\ Range(f) \subseteq Range(s)
           /\ r \in Seq(S) /\ IsInjective(r) /\ Range(r) = Range(s) \ Range(f)
  <1> DEFINE f == SubSeq(s, 1, n)
             r == SubSeq(s, n + 1, Len(s))
  <1>1. Len(s) \in Nat /\ DOMAIN s = 1..Len(s)
    OBVIOUS
  <1>2. /\ f \in Seq(S) /\ Len(f) = n /\ DOMAIN f = 1..n /\ \A i \in 1..n : f[i] = s[i]
    OBVIOUS
  <1>3. /\ r \in Seq(S) /\ DOMAIN r = 1..(Len(s) - n) /\ \A i \in 1..(Len(s) - n) : r[i] = s[i + n]
    OBVIOUS
  <1> HIDE DEF f, r
  <1>4. ASSUME NEW i \in DOMAIN r
        PROVE  i \in Nat /\ n \in Nat /\ i + n \in DOMAIN s /\ r[i] = s[i + n] /\ i + n \notin 1..n
    <2>1. n \in Nat /\ Len(s) \in Nat /\ i \in 1..(Len(s) - n)
      BY <1>3
    <2>2. i + n > n /\ i + n \in 1..Len(s)
      BY <2>1
    <2> QED BY <1>1, <1>3, <2>1, <2>2
  <1>5. IsInjective(f) /\ Range(f) \subseteq Range(s) /\ f /= <<>>
    BY <1>1, <1>2 DEF IsInjective, Range
  <1>6. IsInjective(r)
    <2> SUFFICES ASSUME NEW i \in DOMAIN r, NEW j \in DOMAIN r, r[i] = r[j]
                 PROVE  i = j
      BY DEF IsInjective
    <2>1. i + n = j + n
      BY <1>4 DEF IsInjective
    <2> QED BY <1>4, <2>1
  <1>7. Range(r) \subseteq Range(s) \ Range(f)
    <2> SUFFICES ASSUME NEW i \in DOMAIN r PROVE r[i] \in Range(s) \ Range(f)
      BY DEF Range
    <2>1. \A j \in 1..n : j \in DOMAIN s /\ f[j] = s[j] /\ s[j] /= s[i + n]
      BY <1>1, <1>2, <1>4 DEF IsInjective
    <2> QED BY <1>2, <1>4, <2>1 DEF Range
  <1>8. ASSUME NEW x \in Range(s) \ Range(f)
        PROVE  x \in Range(r)
    <2>1. PICK i \in 1..Len(s) : s[i] = x
      BY <1>1 DEF Range
    <2>2. i \notin 1..n
      BY <1>2, <2>1 DEF Range
    <2>3. PICK k : k = i - n
      OBVIOUS
    <2>4. i \in 1..Len(s) /\ Len(s) \in Nat /\ n \in Nat
      BY <1>1
    <2>5. k \in 1..(Len(s) - n) /\ k + n = i
      BY ONLY <2>2, <2>3, <2>4
    <2>6. k \in DOMAIN r /\ r[k] = x
      BY <1>3, <2>1, <2>5
    <2> QED BY <2>6 DEF Range
  <1>9. f \in Seq(S) /\ f /= <<>> /\ IsInjective(f) /\ Range(f) \subseteq Range(s)
        /\ r \in Seq(S) /\ IsInjective(r) /\ Range(r) = Range(s) \ Range(f)
    BY <1>2, <1>3, <1>5, <1>6, <1>7, <1>8
  <1> QED BY <1>9 DEF f, r

-----------------------------------------------------------------------------
(* The members of S in a queue.                                            *)

\* The recursive function of Only is defined for every queue.
LEMMA OnlyIs ==
    ASSUME NEW X, NEW s \in Seq(X), NEW S
    PROVE  \E f : /\ f[0] = <<>>
                  /\ \A i \in 1..Len(s) : f[i] = IF s[i] \in S THEN Append(f[i-1], s[i]) ELSE f[i-1]
                  /\ Only(s, S) = f[Len(s)]
  <1> DEFINE Def(f, k) == f = [i \in 0..k |-> IF i = 0 THEN <<>> ELSE IF s[i] \in S THEN Append(f[i-1], s[i]) ELSE f[i-1]]
             T == {k \in Nat : \E f : Def(f, k)}
  <1>1. 0 \in T
    <2> DEFINE f == [i \in 0..0 |-> <<>>]
    <2>1. Def(f, 0)
      OBVIOUS
    <2> QED BY <2>1
  <1>2. ASSUME NEW k \in 1..Len(s), k - 1 \in T
        PROVE  k \in T
    <2>1. PICK g : Def(g, k - 1)
      BY <1>2
    <2> DEFINE f == [i \in 0..k |-> IF i = k THEN IF s[k] \in S THEN Append(g[k-1], s[k]) ELSE g[k-1] ELSE g[i]]
    <2>2. ASSUME NEW i \in 0..k
          PROVE  f[i] = IF i = 0 THEN <<>> ELSE IF s[i] \in S THEN Append(f[i-1], s[i]) ELSE f[i-1]
      <3>1. CASE i = k
        BY <3>1
      <3>2. CASE i \in 0..(k - 1)
        <4>1. f[i] = g[i] /\ (i /= 0 => f[i - 1] = g[i - 1])
          BY <3>2
        <4> HIDE DEF f
        <4> QED BY <2>1, <3>2, <4>1
      <3> QED BY <3>1, <3>2
    <2>3. f = [i \in 0..k |-> f[i]]
      OBVIOUS
    <2>4. Def(f, k)
      <3> HIDE DEF f
      <3> QED BY <2>2, <2>3
    <2> HIDE DEF f, Def
    <2> QED BY <2>4
  <1>3. Len(s) \in T
    <2> HIDE DEF T
    <2>1. Len(s) \in Nat /\ Len(s) \in 0..Len(s)
      OBVIOUS
    <2>2. \A i \in 1..Len(s) : i - 1 \in T => i \in T
      BY <1>2
    <2>3. \A i \in 0..Len(s) : i \in T
      BY ONLY <1>1, <2>1, <2>2, Induction
    <2> QED BY <2>1, <2>3
  <1>4. \E f : Def(f, Len(s))
    BY <1>3
  <1> DEFINE f == CHOOSE f : Def(f, Len(s))
  <1>5. Def(f, Len(s))
    <2> HIDE DEF Def
    <2> QED BY <1>4
  <1>6. Only(s, S) = f[Len(s)]
    BY DEF Only
  <1> HIDE DEF f
  <1>7. f[0] = <<>> /\ \A i \in 1..Len(s) : f[i] = IF s[i] \in S THEN Append(f[i-1], s[i]) ELSE f[i-1]
    <2>1. PICK e : e = [i \in 0..Len(s) |-> IF i = 0 THEN <<>> ELSE IF s[i] \in S THEN Append(f[i-1], s[i]) ELSE f[i-1]]
      OBVIOUS
    <2>2. e = f
      BY <1>5, <2>1
    <2>3. Len(s) \in Nat /\ e[0] = <<>>
      BY <2>1
    <2>4. \A i \in 1..Len(s) : e[i] = IF s[i] \in S THEN Append(f[i-1], s[i]) ELSE f[i-1]
      BY <2>1
    <2> QED BY <2>2, <2>3, <2>4
  <1> QED BY <1>6, <1>7

LEMMA OnlySome ==
    ASSUME NEW X, NEW s \in Seq(X), NEW S, IsInjective(s)
    PROVE  /\ Only(s, S) \in Seq(X) /\ IsInjective(Only(s, S))
           /\ Range(Only(s, S)) = Range(s) \cap S
  <1>1. PICK f : /\ f[0] = <<>>
                 /\ \A i \in 1..Len(s) : f[i] = IF s[i] \in S THEN Append(f[i-1], s[i]) ELSE f[i-1]
                 /\ Only(s, S) = f[Len(s)]
    BY OnlyIs
  <1>2. Len(s) \in Nat /\ DOMAIN s = 1..Len(s) /\ \A i \in 1..Len(s) : s[i] \in X
    OBVIOUS
  <1> DEFINE Upto(k) == {s[i] : i \in 1..k} \cap S
             Good(k) == f[k] \in Seq(X) /\ IsInjective(f[k]) /\ Range(f[k]) = Upto(k)
             T == {k \in 0..Len(s) : Good(k)}
  <1>3. 0 \in T
    <2>1. Range(<<>>) = {} /\ IsInjective(<<>>) /\ <<>> \in Seq(X)
      BY Nobody
    <2>2. Upto(0) = {}
      OBVIOUS
    <2>3. Good(0) /\ 0 \in 0..Len(s)
      BY <1>1, <1>2, <2>1, <2>2
    <2> QED BY <2>3
  <1>4. ASSUME NEW k \in 1..Len(s), k - 1 \in T
        PROVE  k \in T
    <2>1. Good(k - 1)
      BY <1>4
    <2>2. k \in 0..Len(s) /\ s[k] \in X
      BY <1>2
    <2>3. Upto(k) = Upto(k - 1) \cup ({s[k]} \cap S) /\ s[k] \notin Upto(k - 1)
      <3>1. \A i \in 1..k : i = k \/ i \in 1..(k - 1)
        BY <1>2
      <3>2. \A i \in 1..(k - 1) : i \in 1..k /\ s[i] /= s[k]
        BY <1>2 DEF IsInjective
      <3>3. k \in 1..k
        BY <1>2
      <3> QED BY <3>1, <3>2, <3>3
    <2>4. CASE s[k] \in S
      <3>1. f[k] = Append(f[k - 1], s[k])
        BY <1>1, <2>4
      <3> HIDE DEF Upto
      <3>2. PICK g : g = f[k - 1]
        OBVIOUS
      <3>3. g \in Seq(X) /\ IsInjective(g) /\ Range(g) = Upto(k - 1) /\ s[k] \notin Range(g)
        BY <2>1, <2>3, <3>2
      <3>4. /\ Append(g, s[k]) \in Seq(X) /\ Range(Append(g, s[k])) = Range(g) \cup {s[k]}
            /\ IsInjective(Append(g, s[k]))
        BY <2>2, <3>3, Appended
      <3>5. Good(k)
        BY <2>3, <2>4, <3>1, <3>2, <3>3, <3>4
      <3> QED BY <2>2, <3>5
    <2>5. CASE s[k] \notin S
      <3>1. f[k] = f[k - 1]
        BY <1>1, <2>5
      <3> HIDE DEF Upto
      <3> QED BY <2>1, <2>2, <2>3, <2>5, <3>1
    <2> QED BY <2>4, <2>5
  <1>5. Len(s) \in T
    <2> HIDE DEF T
    <2>1. Len(s) \in 0..Len(s)
      BY <1>2
    <2>2. \A i \in 1..Len(s) : i - 1 \in T => i \in T
      BY <1>4
    <2>3. \A i \in 0..Len(s) : i \in T
      BY ONLY <1>2, <1>3, <2>2, Induction
    <2> QED BY <2>1, <2>3
  <1>6. Range(s) \cap S = Upto(Len(s))
    BY <1>2 DEF Range
  <1> HIDE DEF Upto
  <1> QED BY <1>1, <1>5, <1>6

\* Before, at and after place i of a queue.
LEMMA Around ==
    ASSUME NEW S, NEW s \in Seq(S), IsInjective(s), NEW i \in 1..Len(s)
    PROVE  LET a == SubSeq(s, 1, i - 1)
               c == SubSeq(s, i + 1, Len(s)) IN
           /\ c \in Seq(S) /\ IsInjective(c) /\ s[i] \in S
           /\ Range(s) = Range(a) \cup {s[i]} \cup Range(c)
           /\ s[i] \notin Range(a) \cup Range(c) /\ Range(a) \cap Range(c) = {}
  <1> DEFINE a == SubSeq(s, 1, i - 1)
             c == SubSeq(s, i + 1, Len(s))
  <1>1. Len(s) \in Nat /\ DOMAIN s = 1..Len(s) /\ s[i] \in S /\ i \in Nat
    OBVIOUS
  <1>2. DOMAIN a = 1..(i - 1) /\ \A j \in 1..(i - 1) : a[j] = s[j] /\ j \in DOMAIN s /\ j /= i
    OBVIOUS
  <1>3. /\ c \in Seq(S) /\ DOMAIN c = 1..(Len(s) - i)
        /\ \A j \in 1..(Len(s) - i) : c[j] = s[j + i]
    OBVIOUS
  <1> HIDE DEF a, c
  <1>4. ASSUME NEW j \in 1..(Len(s) - i)
        PROVE  j + i \in DOMAIN s /\ j + i > i
    BY <1>1
  <1>5. IsInjective(c)
    <2> SUFFICES ASSUME NEW j \in DOMAIN c, NEW k \in DOMAIN c, c[j] = c[k]
                 PROVE  j = k
      BY DEF IsInjective
    <2>1. j + i = k + i
      BY <1>3, <1>4 DEF IsInjective
    <2> QED BY <1>1, <1>3, <2>1
  <1>6. Range(a) = {s[j] : j \in 1..(i - 1)}
    BY <1>2 DEF Range
  <1>7. Range(c) = {s[j] : j \in (i + 1)..Len(s)}
    <2>1. ASSUME NEW j \in (i + 1)..Len(s)
          PROVE  s[j] \in Range(c)
      <3>1. j - i \in 1..(Len(s) - i) /\ (j - i) + i = j
        BY <1>1
      <3>2. c[j - i] = s[j]
        BY <1>3, <3>1
      <3> QED BY <1>3, <3>1, <3>2 DEF Range
    <2>2. ASSUME NEW j \in 1..(Len(s) - i)
          PROVE  j + i \in (i + 1)..Len(s)
      BY <1>1
    <2>3. ASSUME NEW x \in Range(c)
          PROVE  x \in {s[j] : j \in (i + 1)..Len(s)}
      <3>1. PICK j \in 1..(Len(s) - i) : c[j] = x
        BY <1>3 DEF Range
      <3>2. x = s[j + i] /\ j + i \in (i + 1)..Len(s)
        BY <1>3, <2>2, <3>1
      <3> QED BY <3>2
    <2> QED BY <2>1, <2>3
  <1>8. Range(s) = {s[j] : j \in 1..Len(s)}
    BY <1>1 DEF Range
  <1>9. 1..Len(s) = 1..(i - 1) \cup {i} \cup (i + 1)..Len(s)
    BY <1>1
  <1>10. \A j \in 1..(i - 1), k \in (i + 1)..Len(s) :
            s[j] /= s[k] /\ s[j] /= s[i] /\ s[k] /= s[i]
    <2> SUFFICES ASSUME NEW j \in 1..(i - 1), NEW k \in (i + 1)..Len(s)
                 PROVE  s[j] /= s[k] /\ s[j] /= s[i] /\ s[k] /= s[i]
      OBVIOUS
    <2>1. j \in DOMAIN s /\ k \in DOMAIN s /\ i \in DOMAIN s /\ j /= k /\ j /= i /\ k /= i
      BY <1>1
    <2> QED BY <2>1 DEF IsInjective
  <1>11. (\A j \in 1..(i - 1) : s[j] /= s[i]) /\ (\A k \in (i + 1)..Len(s) : s[k] /= s[i])
    <2>1. \A j \in 1..(i - 1) : j \in DOMAIN s /\ i \in DOMAIN s /\ j /= i
      BY <1>1
    <2>2. \A k \in (i + 1)..Len(s) : k \in DOMAIN s /\ i \in DOMAIN s /\ k /= i
      BY <1>1
    <2> QED BY <2>1, <2>2 DEF IsInjective
  <1>12. Range(s) = Range(a) \cup {s[i]} \cup Range(c)
    BY <1>6, <1>7, <1>8, <1>9
  <1>13. s[i] \notin Range(a) \cup Range(c) /\ Range(a) \cap Range(c) = {}
    BY <1>6, <1>7, <1>10, <1>11
  <1> QED BY <1>1, <1>3, <1>5, <1>12, <1>13 DEF a, c

-----------------------------------------------------------------------------
(* Messages that are offered to the receivers of a queue.                  *)

Offers ==
    [kmsgs: Seq(Messages), waiters: Seq(Receivers), seqno: Seqnos,
     th: [Threads -> ThreadRecords]]

Offerable(o) ==
    /\ o \in Offers
    /\ IsInjective(o.kmsgs) /\ IsInjective(o.waiters)
    /\ o.waiters # <<>> => o.kmsgs = <<>>
    /\ \A t \in Range(o.waiters) : o.th[t].kmsg = NoMessage

Left(a, b) == Range(a.waiters) \ Range(b.waiters)

\* b is a after the messages in M have been offered: each is queued or with one
\* of the receivers that have left.
Dealt(a, b, M) ==
    /\ Offerable(b)
    /\ Range(b.waiters) \subseteq Range(a.waiters)
    /\ Range(a.kmsgs) \subseteq Range(b.kmsgs) /\ Range(b.kmsgs) \subseteq Range(a.kmsgs) \cup M
    /\ \A t \in Threads \ Left(a, b) : b.th[t] = a.th[t]
    /\ \A t \in Left(a, b) :
          \/ b.th[t].state = "TOO_LARGE" /\ b.th[t].kmsg = NoMessage
          \/ b.th[t].state = "SUCCESS" /\ b.th[t].kmsg \in M \ Range(b.kmsgs)
    /\ \A m \in M : m \in Range(b.kmsgs) \/ \E t \in Left(a, b) : b.th[t].kmsg = m
    /\ \A t, u \in Left(a, b) : b.th[t].kmsg = b.th[u].kmsg /\ b.th[t].kmsg # NoMessage => t = u

LEMMA FirstFitIs ==
    ASSUME NEW m, NEW w \in Seq(Receivers)
    PROVE  FirstFit(m, w) = 0 \/ FirstFit(m, w) \in 1..Len(w)
  <1> DEFINE fits == {i \in DOMAIN w : Fits(m, w[i])}
  <1>1. Len(w) \in Nat /\ DOMAIN w = 1..Len(w)
    OBVIOUS
  <1>2. CASE fits = {}
    BY <1>2 DEF FirstFit
  <1>3. CASE fits /= {}
    <2>1. fits \subseteq Nat
      BY <1>1
    <2> HIDE DEF fits
    <2>2. \E x \in fits : \A y \in fits : x <= y
      BY <1>3, <2>1, Least
    <2>3. Min(fits) \in fits
      BY <2>2 DEF Min
    <2>4. FirstFit(m, w) \in fits
      BY <1>3, <2>3 DEF FirstFit, fits
    <2> QED BY <1>1, <2>4 DEF fits
  <1> QED BY <1>2, <1>3

LEMMA WakeIs ==
    ASSUME NEW k \in [Threads -> ThreadRecords], NEW T, NEW state \in IthStates,
           NEW f, f = Wake(k, T, state)
    PROVE  /\ f \in [Threads -> ThreadRecords]
           /\ \A t \in Threads \ T : f[t] = k[t]
           /\ \A t \in Threads \cap T :
                 f[t].state = state /\ f[t].kmsg = k[t].kmsg /\ ~f[t].waiting
  <1>1. ASSUME NEW t \in Threads
        PROVE  LET g == Go([k[t] EXCEPT !.state = state]) IN
               g \in ThreadRecords /\ g.state = state /\ g.kmsg = k[t].kmsg /\ ~g.waiting
    BY DEF Go, ThreadRecords
  <1>2. f = [t \in Threads |-> IF t \in T THEN Go([k[t] EXCEPT !.state = state]) ELSE k[t]]
    BY DEF Wake
  <1>3. \A t \in Threads : f[t] = IF t \in T THEN Go([k[t] EXCEPT !.state = state]) ELSE k[t]
    BY <1>2
  <1>4. f \in [Threads -> ThreadRecords]
    BY <1>1, <1>2
  <1> QED BY <1>1, <1>3, <1>4

LEMMA FollowingIs ==
    ASSUME NEW n \in Seqnos
    PROVE  Following(n) \in Seqnos
  BY MessageQueueAssumption DEF Following, Seqnos

\* Nobody takes m: it is queued.
LEMMA OfferQueues ==
    ASSUME NEW o, Offerable(o), NEW m \in Messages, m \notin Range(o.kmsgs),
           FirstFit(m, o.waiters) = 0
    PROVE  /\ Dealt(o, Offer(o, m), {m}) /\ Chosen(o, m) = NoThread
           /\ Offer(o, m).kmsgs = Append(o.kmsgs, m) /\ Offer(o, m).waiters = <<>>
           /\ Offer(o, m).seqno = o.seqno
           /\ \A t \in Left(o, Offer(o, m)) : ~Offer(o, m).th[t].waiting
  <1> DEFINE b == Offer(o, m)
             told == Wake(o.th, Range(o.waiters), "TOO_LARGE")
  <1>1. /\ o.kmsgs \in Seq(Messages) /\ o.waiters \in Seq(Receivers) /\ o.seqno \in Seqnos
        /\ o.th \in [Threads -> ThreadRecords] /\ IsInjective(o.kmsgs)
    BY DEF Offerable, Offers
  <1>2. b = [kmsgs |-> Append(o.kmsgs, m), waiters |-> <<>>, seqno |-> o.seqno, th |-> told]
    BY DEF Offer, Offerable, Offers
  <1>3. b.kmsgs = Append(o.kmsgs, m) /\ b.waiters = <<>> /\ b.seqno = o.seqno /\ b.th = told
    BY <1>2
  <1>4. /\ told \in [Threads -> ThreadRecords]
        /\ \A t \in Threads \ Range(o.waiters) : told[t] = o.th[t]
        /\ \A t \in Threads \cap Range(o.waiters) :
              told[t].state = "TOO_LARGE" /\ told[t].kmsg = o.th[t].kmsg /\ ~told[t].waiting
    <2>1. PICK a \in IthStates : a = "TOO_LARGE"
      BY DEF IthStates
    <2>2. PICK k \in [Threads -> ThreadRecords] : k = o.th
      BY <1>1
    <2>3. PICK T : T = Range(o.waiters)
      OBVIOUS
    <2>4. PICK f : f = told
      OBVIOUS
    <2>5. f = Wake(k, T, a)
      BY <2>1, <2>2, <2>3, <2>4
    <2> HIDE DEF told
    <2>6. /\ f \in [Threads -> ThreadRecords]
          /\ \A t \in Threads \ T : f[t] = k[t]
          /\ \A t \in Threads \cap T :
                f[t].state = a /\ f[t].kmsg = k[t].kmsg /\ ~f[t].waiting
      BY <2>5, WakeIs
    <2> QED BY <2>1, <2>2, <2>3, <2>4, <2>6
  <1>5. /\ Append(o.kmsgs, m) \in Seq(Messages) /\ IsInjective(Append(o.kmsgs, m))
        /\ Range(Append(o.kmsgs, m)) = Range(o.kmsgs) \cup {m}
    BY <1>1, Appended
  <1>6. Range(<<>>) = {} /\ IsInjective(<<>>) /\ <<>> \in Seq(Receivers)
    BY Nobody
  <1>7. Range(o.waiters) \subseteq Threads
    BY <1>1, MessageQueueAssumption DEF Range
  <1>8. Left(o, b) = Range(o.waiters)
    BY <1>3, <1>6 DEF Left
  <1>9. Offerable(b)
    <2>1. b \in Offers
      BY <1>1, <1>2, <1>4, <1>5, <1>6 DEF Offers
    <2> HIDE DEF b
    <2> QED BY <1>3, <1>5, <1>6, <2>1 DEF Offerable
  <1>10. Chosen(o, m) = NoThread
    BY DEF Chosen
  <1> HIDE DEF b, told
  <1>11. /\ \A t \in Threads \ Left(o, b) : b.th[t] = o.th[t]
         /\ \A t \in Left(o, b) :
               b.th[t].state = "TOO_LARGE" /\ b.th[t].kmsg = NoMessage /\ ~b.th[t].waiting
    BY <1>3, <1>4, <1>7, <1>8 DEF Offerable
  <1>12. Dealt(o, b, {m})
    BY <1>3, <1>5, <1>6, <1>9, <1>11 DEF Dealt
  <1> QED BY <1>3, <1>10, <1>11, <1>12 DEF b

\* The first receiver with room for m gets it.
LEMMA OfferHandsOver ==
    ASSUME NEW o, Offerable(o), NEW m \in Messages, m \notin Range(o.kmsgs),
           FirstFit(m, o.waiters) \in 1..Len(o.waiters)
    PROVE  LET b == Offer(o, m)
               r == Chosen(o, m) IN
           /\ Dealt(o, b, {m}) /\ r \in Left(o, b) /\ r \in Threads
           /\ b.kmsgs = o.kmsgs /\ b.th[r].kmsg = m
           /\ b.seqno = Following(o.seqno)
           /\ \A t \in Left(o, b) \ {r} : ~b.th[t].waiting
  <1> DEFINE b == Offer(o, m)
             i == FirstFit(m, o.waiters)
             before == SubSeq(o.waiters, 1, i - 1)
             after == SubSeq(o.waiters, i + 1, Len(o.waiters))
             told == Wake(o.th, Range(before), "TOO_LARGE")
             r == o.waiters[i]
             given == [told EXCEPT ![r].state = "SUCCESS", ![r].kmsg = m, ![r].seqno = o.seqno]
  <1>1. /\ o.kmsgs \in Seq(Messages) /\ o.waiters \in Seq(Receivers) /\ o.seqno \in Seqnos
        /\ o.th \in [Threads -> ThreadRecords] /\ IsInjective(o.kmsgs) /\ IsInjective(o.waiters)
        /\ Len(o.waiters) \in Nat
    BY DEF Offerable, Offers
  <1>2. i # 0 /\ i \in 1..Len(o.waiters)
    BY <1>1
  <1>3. b = [kmsgs |-> o.kmsgs, waiters |-> after, seqno |-> Following(o.seqno), th |-> given]
    <2> DEFINE rest == [o EXCEPT !.th = told]
    <2>1. b = HandOver(rest, m, i)
      BY <1>2 DEF Offer
    <2>2. /\ rest = [kmsgs |-> o.kmsgs, waiters |-> o.waiters, seqno |-> o.seqno, th |-> told]
      BY DEF Offerable, Offers
    <2> HIDE DEF told, b, i
    <2> QED BY <2>1, <2>2 DEF HandOver
  <1>4. b.kmsgs = o.kmsgs /\ b.waiters = after /\ b.seqno = Following(o.seqno) /\ b.th = given
    <2> HIDE DEF given, told, after, b
    <2> QED BY <1>3
  <1>5. Chosen(o, m) = r
    BY <1>2 DEF Chosen
  <1> HIDE DEF b, i
  <1>6. /\ after \in Seq(Receivers) /\ IsInjective(after) /\ r \in Receivers
        /\ Range(o.waiters) = Range(before) \cup {r} \cup Range(after)
        /\ r \notin Range(before) \cup Range(after) /\ Range(before) \cap Range(after) = {}
    BY <1>1, <1>2, Around
  <1>7. Range(o.waiters) \subseteq Threads /\ r \in Threads
    BY <1>1, <1>6, MessageQueueAssumption DEF Range
  <1> HIDE DEF before, after, r
  <1>8. /\ told \in [Threads -> ThreadRecords]
        /\ \A t \in Threads \ Range(before) : told[t] = o.th[t]
        /\ \A t \in Threads \cap Range(before) :
              told[t].state = "TOO_LARGE" /\ told[t].kmsg = o.th[t].kmsg /\ ~told[t].waiting
    <2>1. PICK a \in IthStates : a = "TOO_LARGE"
      BY DEF IthStates
    <2>2. PICK k \in [Threads -> ThreadRecords] : k = o.th
      BY <1>1
    <2>3. PICK T : T = Range(before)
      OBVIOUS
    <2>4. PICK f : f = told
      OBVIOUS
    <2>5. f = Wake(k, T, a)
      BY <2>1, <2>2, <2>3, <2>4
    <2> HIDE DEF told
    <2>6. /\ f \in [Threads -> ThreadRecords]
          /\ \A t \in Threads \ T : f[t] = k[t]
          /\ \A t \in Threads \cap T :
                f[t].state = a /\ f[t].kmsg = k[t].kmsg /\ ~f[t].waiting
      BY <2>5, WakeIs
    <2> QED BY <2>1, <2>2, <2>3, <2>4, <2>6
  <1> HIDE DEF told
  <1>9. /\ given \in [Threads -> ThreadRecords]
        /\ \A t \in Threads \ {r} : given[t] = told[t]
        /\ given[r].state = "SUCCESS" /\ given[r].kmsg = m
    <2>1. given = [told EXCEPT ![r] = [told[r] EXCEPT !.state = "SUCCESS", !.kmsg = m, !.seqno = o.seqno]]
      BY <1>7, <1>8
    <2>2. told[r] \in ThreadRecords
      BY <1>7, <1>8
    <2>3. LET k == [told[r] EXCEPT !.state = "SUCCESS", !.kmsg = m, !.seqno = o.seqno] IN
          k \in ThreadRecords /\ k.state = "SUCCESS" /\ k.kmsg = m
      BY <1>1, <2>2 DEF ThreadRecords, IthStates
    <2> HIDE DEF given
    <2> QED BY <1>7, <1>8, <2>1, <2>3
  <1> HIDE DEF given
  <1>10. Left(o, b) = Range(before) \cup {r}
    BY <1>4, <1>6 DEF Left
  <1>11. Following(o.seqno) \in Seqnos
    BY <1>1, FollowingIs
  <1>12. /\ \A t \in Threads \ Left(o, b) : b.th[t] = o.th[t]
         /\ \A t \in Range(before) :
               b.th[t].state = "TOO_LARGE" /\ b.th[t].kmsg = NoMessage /\ ~b.th[t].waiting
         /\ b.th[r].state = "SUCCESS" /\ b.th[r].kmsg = m
    <2>1. \A t \in Range(before) : t \in Threads /\ t /= r /\ o.th[t].kmsg = NoMessage
      BY <1>6, <1>7 DEF Offerable
    <2> QED BY <1>4, <1>8, <1>9, <1>10, <2>1
  <1>13. Offerable(b)
    <2>1. b \in Offers
      BY <1>1, <1>3, <1>6, <1>9, <1>11 DEF Offers
    <2>2. o.waiters # <<>> /\ o.kmsgs = <<>>
      BY <1>1, <1>2 DEF Offerable
    <2>3. \A t \in Range(after) : b.th[t] = o.th[t] /\ o.th[t].kmsg = NoMessage
      BY <1>6, <1>7, <1>10, <1>12 DEF Offerable
    <2> QED BY <1>1, <1>4, <1>6, <2>1, <2>2, <2>3 DEF Offerable
  <1>14. m # NoMessage
    BY MessageQueueAssumption
  <1>15. Dealt(o, b, {m})
    BY <1>4, <1>6, <1>10, <1>12, <1>13, <1>14 DEF Dealt
  <1> QED BY <1>4, <1>5, <1>7, <1>10, <1>12, <1>15 DEF b

LEMMA OfferAndWakeDeals ==
    ASSUME NEW o, Offerable(o), NEW m \in Messages, m \notin Range(o.kmsgs)
    PROVE  /\ Dealt(o, OfferAndWake(o, m), {m})
           /\ \A t \in Left(o, OfferAndWake(o, m)) : ~OfferAndWake(o, m).th[t].waiting
  <1> DEFINE b == Offer(o, m)
             c == OfferAndWake(o, m)
             r == Chosen(o, m)
  <1>1. o.waiters \in Seq(Receivers) /\ Len(o.waiters) \in Nat
    BY DEF Offerable, Offers
  <1>2. CASE FirstFit(m, o.waiters) = 0
    <2>1. /\ Dealt(o, b, {m}) /\ r = NoThread /\ \A t \in Left(o, b) : ~b.th[t].waiting
      BY <1>2, OfferQueues
    <2>2. c = b
      BY <2>1 DEF OfferAndWake
    <2> QED BY <2>1, <2>2
  <1>3. CASE FirstFit(m, o.waiters) \in 1..Len(o.waiters)
    <2>1. /\ Dealt(o, b, {m}) /\ r \in Left(o, b) /\ r \in Threads
          /\ \A t \in Left(o, b) \ {r} : ~b.th[t].waiting
      BY <1>3, OfferHandsOver
    <2>2. r # NoThread
      BY <2>1, MessageQueueAssumption
    <2>3. c = [b EXCEPT !.th[r] = Go(@)]
      BY <2>2 DEF OfferAndWake
    <2> HIDE DEF b, c, r
    <2>4. b \in Offers
      BY <2>1 DEF Dealt, Offerable
    <2>5. /\ c = [b EXCEPT !.th = [b.th EXCEPT ![r] = Go(b.th[r])]]
          /\ b.th \in [Threads -> ThreadRecords] /\ b.th[r] \in ThreadRecords
      BY <2>1, <2>3, <2>4 DEF Offers
    <2>6. LET g == Go(b.th[r]) IN
          g \in ThreadRecords /\ g.state = b.th[r].state /\ g.kmsg = b.th[r].kmsg /\ ~g.waiting
      BY <2>5 DEF Go, ThreadRecords
    <2>7. /\ c.kmsgs = b.kmsgs /\ c.waiters = b.waiters /\ c \in Offers
          /\ c.th = [b.th EXCEPT ![r] = Go(b.th[r])]
      BY <2>4, <2>5, <2>6 DEF Offers
    <2>8. /\ \A t \in Threads : c.th[t].state = b.th[t].state /\ c.th[t].kmsg = b.th[t].kmsg
          /\ \A t \in Threads \ {r} : c.th[t] = b.th[t]
          /\ ~c.th[r].waiting
      BY <2>1, <2>5, <2>6, <2>7
    <2>9. Left(o, c) = Left(o, b)
      BY <2>7 DEF Left
    <2>10. Range(b.waiters) \subseteq Threads /\ Left(o, b) \subseteq Threads
      BY <1>1, <2>4, MessageQueueAssumption DEF Range, Offers, Left
    <2>11. Offerable(c)
      BY <2>1, <2>7, <2>8, <2>10 DEF Offerable, Dealt
    <2>12. Dealt(o, c, {m})
      BY <2>1, <2>7, <2>8, <2>9, <2>10, <2>11 DEF Dealt
    <2>13. \A t \in Left(o, c) : ~c.th[t].waiting
      BY <2>1, <2>8, <2>9, <2>10
    <2> QED BY <2>12, <2>13 DEF c
  <1> QED BY <1>1, <1>2, <1>3, FirstFitIs

LEMMA DealtMore ==
    ASSUME NEW a, NEW b, NEW c, NEW M, NEW m, NEW S, NEW N, S = {m}, N = M \cup S,
           Offerable(a), Dealt(a, b, M), Dealt(b, c, S), m \notin M, NoMessage \notin N
    PROVE  Dealt(a, c, N)
  <1>1. /\ Range(c.waiters) \subseteq Range(b.waiters) /\ Range(b.waiters) \subseteq Range(a.waiters)
        /\ Left(a, c) = Left(a, b) \cup Left(b, c) /\ Left(a, b) \cap Left(b, c) = {}
    BY DEF Dealt, Left
  <1>2. \A o : Offerable(o) => Range(o.waiters) \subseteq Threads
    BY MessageQueueAssumption DEF Offerable, Offers, Range
  <1>3. Left(a, b) \subseteq Threads /\ Left(b, c) \subseteq Threads
    BY <1>2 DEF Left, Dealt
  <1>4. \A t \in Left(a, b) : c.th[t] = b.th[t]
    BY <1>1, <1>3 DEF Dealt
  <1>5. \A t \in Threads \ Left(a, c) : c.th[t] = a.th[t]
    BY <1>1 DEF Dealt
  <1>6. ASSUME NEW t \in Left(a, c)
        PROVE  \/ c.th[t].state = "TOO_LARGE" /\ c.th[t].kmsg = NoMessage
               \/ c.th[t].state = "SUCCESS" /\ c.th[t].kmsg \in (M \cup {m}) \ Range(c.kmsgs)
    <2>1. CASE t \in Left(a, b)
      <3>1. c.th[t] = b.th[t]
        BY <1>4, <2>1
      <3>2. \A x \in M \ Range(b.kmsgs) : x \notin Range(c.kmsgs)
        BY DEF Dealt
      <3> QED BY <2>1, <3>1, <3>2 DEF Dealt
    <2>2. CASE t \in Left(b, c)
      BY <2>2 DEF Dealt
    <2> QED BY <1>1, <2>1, <2>2
  <1>7. ASSUME NEW x \in M \cup {m}
        PROVE  x \in Range(c.kmsgs) \/ \E t \in Left(a, c) : c.th[t].kmsg = x
    <2>1. CASE x = m
      BY <1>1, <2>1 DEF Dealt
    <2>2. CASE x \in Range(b.kmsgs)
      BY <2>2 DEF Dealt
    <2>3. CASE x \in M /\ x \notin Range(b.kmsgs)
      <3>1. PICK t \in Left(a, b) : b.th[t].kmsg = x
        BY <2>3 DEF Dealt
      <3> QED BY <1>1, <1>4, <3>1
    <2> QED BY <2>1, <2>2, <2>3
  <1>8. ASSUME NEW t \in Left(a, c), NEW u \in Left(a, c),
               c.th[t].kmsg = c.th[u].kmsg, c.th[t].kmsg # NoMessage
        PROVE  t = u
    <2>1. CASE t \in Left(a, b) /\ u \in Left(a, b)
      BY <1>4, <1>8, <2>1 DEF Dealt
    <2>2. CASE t \in Left(b, c) /\ u \in Left(b, c)
      BY <1>8, <2>2 DEF Dealt
    <2>3. \A v \in Left(a, b) : c.th[v].kmsg \in M \cup {NoMessage}
      BY <1>4 DEF Dealt
    <2>4. \A v \in Left(b, c) : c.th[v].kmsg \in {m, NoMessage}
      BY DEF Dealt
    <2> QED BY <1>1, <1>8, <2>1, <2>2, <2>3, <2>4
  <1>9. /\ Offerable(c) /\ Range(c.waiters) \subseteq Range(a.waiters)
        /\ Range(a.kmsgs) \subseteq Range(c.kmsgs)
        /\ Range(c.kmsgs) \subseteq Range(a.kmsgs) \cup (M \cup {m})
    BY <1>1 DEF Dealt
  <1> QED BY <1>1, <1>5, <1>6, <1>7, <1>8, <1>9 DEF Dealt

\* All the messages of a queue are offered, one after the other.
LEMMA AllDealt ==
    ASSUME NEW a, Offerable(a), NEW ms \in Seq(Messages), IsInjective(ms),
           Range(ms) \cap Range(a.kmsgs) = {},
           NEW f, f[0] = a, \A i \in 1..Len(ms) : f[i] = OfferAndWake(f[i - 1], ms[i])
    PROVE  LET b == f[Len(ms)] IN
           /\ Dealt(a, b, Range(ms))
           /\ \A t \in Left(a, b) : ~b.th[t].waiting
  <1>1. Len(ms) \in Nat /\ DOMAIN ms = 1..Len(ms) /\ \A i \in 1..Len(ms) : ms[i] \in Messages
    OBVIOUS
  <1> DEFINE Upto(k) == {ms[i] : i \in 1..k}
             Good(k) == Dealt(a, f[k], Upto(k)) /\ \A t \in Left(a, f[k]) : ~f[k].th[t].waiting
             T == {k \in 0..Len(ms) : Good(k)}
  <1>2. 0 \in T
    <2>1. Upto(0) = {} /\ 0 \in 0..Len(ms)
      BY <1>1
    <2>2. Left(a, a) = {}
      BY DEF Left
    <2>3. Dealt(a, a, {})
      BY <2>2 DEF Dealt
    <2>4. Good(0)
      <3> HIDE DEF Upto
      <3> QED BY <2>1, <2>2, <2>3
    <2> HIDE DEF Good
    <2> QED BY <2>1, <2>4
  <1>3. ASSUME NEW k \in 1..Len(ms), k - 1 \in T
        PROVE  k \in T
    <2>1. Good(k - 1) /\ k \in 0..Len(ms) /\ ms[k] \in Messages
      <3> HIDE DEF Good
      <3> QED BY <1>1, <1>3
    <2>2. Upto(k) = Upto(k - 1) \cup {ms[k]} /\ ms[k] \notin Upto(k - 1)
          /\ Upto(k) \subseteq Range(ms) /\ Upto(k) \subseteq Messages
      <3>1. \A i \in 1..k : i = k \/ i \in 1..(k - 1)
        BY <1>1
      <3>2. \A i \in 1..(k - 1) : i \in 1..k /\ ms[i] /= ms[k]
        BY <1>1 DEF IsInjective
      <3>3. \A i \in 1..k : i \in 1..Len(ms)
        BY <1>1
      <3>4. k \in 1..k
        BY <1>1
      <3>5. Upto(k) \subseteq Range(ms)
        BY <1>1, <3>3 DEF Range
      <3>6. Upto(k) \subseteq Messages
        BY <1>1, <3>3
      <3>7. Upto(k) = Upto(k - 1) \cup {ms[k]}
        BY <3>1, <3>2, <3>4
      <3>8. ms[k] \notin Upto(k - 1)
        BY <3>2
      <3> QED BY <3>5, <3>6, <3>7, <3>8
    <2> HIDE DEF Upto
    <2>3. PICK m \in Messages : m = ms[k]
      BY <2>1
    <2>4. PICK b : b = f[k - 1]
      OBVIOUS
    <2>5. f[k] = OfferAndWake(b, m)
      BY <2>3, <2>4
    <2>6. Dealt(a, b, Upto(k - 1)) /\ Offerable(b)
      BY <2>1, <2>4 DEF Dealt
    <2>7. m \notin Range(b.kmsgs)
      BY <2>2, <2>3, <2>6 DEF Dealt
    <2>8. PICK c : c = OfferAndWake(b, m)
      OBVIOUS
    <2>9. Dealt(b, c, {m}) /\ \A t \in Left(b, c) : ~c.th[t].waiting
      BY <2>6, <2>7, <2>8, OfferAndWakeDeals
    <2>10. PICK M : M = Upto(k - 1)
      OBVIOUS
    <2>11. m \notin M /\ NoMessage \notin M \cup {m} /\ Dealt(a, b, M)
      BY <2>2, <2>3, <2>6, <2>10, MessageQueueAssumption
    <2>12. Dealt(a, c, M \cup {m}) /\ Left(a, c) = Left(a, b) \cup Left(b, c)
      <3>1. PICK S : S = {m}
        OBVIOUS
      <3>2. PICK N : N = M \cup S
        OBVIOUS
      <3>3. Offerable(a) /\ Dealt(b, c, S) /\ m \notin M /\ NoMessage \notin N /\ Dealt(a, b, M)
        BY <2>9, <2>11, <3>1, <3>2
      <3>4. Dealt(a, c, N)
        BY ONLY <3>1, <3>2, <3>3, DealtMore
      <3>5. Left(a, c) = Left(a, b) \cup Left(b, c)
        BY <3>3 DEF Dealt, Left
      <3> QED BY <3>1, <3>2, <3>4, <3>5
    <2>13. \A t \in Left(a, b) : c.th[t] = b.th[t]
      <3>1. Left(a, b) \subseteq Threads /\ Left(a, b) \cap Left(b, c) = {}
        BY MessageQueueAssumption DEF Left, Offerable, Offers, Range
      <3> QED BY <2>9, <3>1 DEF Dealt
    <2>14. \A t \in Left(a, b) : ~b.th[t].waiting
      BY <2>1, <2>4
    <2>15. \A t \in Left(a, c) : ~c.th[t].waiting
      BY <2>9, <2>12, <2>13, <2>14
    <2>16. f[k] = c /\ Upto(k) = M \cup {m}
      BY <2>2, <2>3, <2>5, <2>8, <2>10
    <2>17. Good(k)
      BY <2>12, <2>15, <2>16
    <2> HIDE DEF Good
    <2> QED BY <2>1, <2>17
  <1>4. Len(ms) \in T
    <2> HIDE DEF T
    <2>1. Len(ms) \in 0..Len(ms)
      BY <1>1
    <2>2. \A i \in 1..Len(ms) : i - 1 \in T => i \in T
      BY <1>3
    <2>3. \A i \in 0..Len(ms) : i \in T
      BY ONLY <1>1, <1>2, <2>2, Induction
    <2> QED BY <2>1, <2>3
  <1>5. Range(ms) = Upto(Len(ms))
    BY <1>1 DEF Range
  <1> HIDE DEF Upto
  <1> QED BY <1>4, <1>5

-----------------------------------------------------------------------------
(* Threads, queues and messages in order, for the queues q and threads k   *)
(* that an operation has got to.                                           *)

\* Where a thread is agrees with what it called and has been told.
Order(t, k, at, c) ==
    /\ at \in {"user", "send_go", "got"} => k.state = "SUCCESS"
    /\ at = "send_block" =>
          /\ t \in Senders /\ c.queue \in Ports /\ c.option # "poll"
          /\ k.state \in {"SUCCESS", "SEND_IN_PROGRESS"}
    /\ at = "send_go" => c.receiver \in Threads
    /\ at = "receive_block" =>
          /\ t \in Receivers /\ c.queue \in Queues
          /\ k.state # "SEND_IN_PROGRESS"
    /\ c.msg # NoMessage <=> at = "send_block"
    /\ k.kmsg # NoMessage <=> at = "got" \/ (at = "receive_block" /\ k.state = "SUCCESS")

\* It is on the list of what it waits for, and on no other.
Listed(t, k, c, bl, q) ==
    /\ \A p \in Ports : t \in Range(bl[p]) <=> (k.state = "SEND_IN_PROGRESS" /\ c.queue = p)
    /\ \A x \in Queues : t \in Range(q[x].waiters) <=> (k.state = "RCV_IN_PROGRESS" /\ c.queue = x)

Awake(k, at, c) ==
    \A t \in Threads :
        k[t].waiting /\ k[t].state \notin {"SEND_IN_PROGRESS", "RCV_IN_PROGRESS"} =>
            \E u \in Threads : at[u] = "send_go" /\ c[u].receiver = t

\* The messages in queues, and the message each thread carries.
InQueues(q) == {m \in Messages : \E x \in Queues : m \in Range(q[x].kmsgs)}
Load(k, at, c) == [t \in Threads |-> IF at[t] = "send_block" THEN c[t].msg ELSE k[t].kmsg]

\* Every message is in the queues I, with one thread, or free.
Apart(I, car, fr) ==
    /\ \A t, u \in Threads : car[t] = car[u] /\ car[t] # NoMessage => t = u
    /\ \A t \in Threads : car[t] \notin I
    /\ \A m \in Messages : m \in fr <=> m \notin I /\ \A t \in Threads : car[t] # m

QueuesOK(q) ==
    /\ q \in [Queues -> QueueRecords]
    /\ \A x \in Queues : IsInjective(q[x].kmsgs) /\ IsInjective(q[x].waiters)
    /\ \A x \in Queues : q[x].waiters # <<>> => q[x].kmsgs = <<>>
    /\ \A x, y \in Queues : x # y => Range(q[x].kmsgs) \cap Range(q[y].kmsgs) = {}

Fine(q, k) ==
    /\ QueuesOK(q) /\ k \in [Threads -> ThreadRecords]
    /\ \A t \in Threads : Order(t, k[t], pc[t], call[t]) /\ Listed(t, k[t], call[t], blocked, q)
    /\ Awake(k, pc, call)
    /\ Apart(InQueues(q), Load(k, pc, call), free)

\* Messages are taken out of queues.
LEMMA ApartTaken ==
    ASSUME NEW I, NEW car, NEW fr, NEW M, Apart(I, car, fr), M \subseteq I, M \subseteq Messages
    PROVE  Apart(I \ M, car, fr \cup M)
  BY DEF Apart

\* Messages that no queue or thread has are put into queues and with threads.
LEMMA ApartDealt ==
    ASSUME NEW I, NEW car, NEW fr, NEW I2, NEW car2, NEW W, NEW M,
           Apart(I, car, fr), M \subseteq fr, M \subseteq Messages, W \subseteq Threads,
           NoMessage \notin I2,
           \A t \in W : car[t] = NoMessage,
           \A t \in Threads \ W : car2[t] = car[t],
           \A t \in W : car2[t] = NoMessage \/ car2[t] \in M \ I2,
           I \subseteq I2, I2 \subseteq I \cup M,
           \A m \in M : m \in I2 \/ \E t \in W : car2[t] = m,
           \A t, u \in W : car2[t] = car2[u] /\ car2[t] # NoMessage => t = u
    PROVE  Apart(I2, car2, fr \ M)
  <1>1. \A m \in M : m \in Messages /\ m \notin I /\ \A t \in Threads : car[t] # m
    BY DEF Apart
  <1>2. ASSUME NEW t \in Threads, NEW u \in Threads, car2[t] = car2[u], car2[t] # NoMessage
        PROVE  t = u
    <2>1. CASE t \in W /\ u \in W
      BY <1>2, <2>1
    <2>2. CASE t \in W /\ u \notin W
      BY <1>1, <1>2, <2>2
    <2>3. CASE t \notin W /\ u \in W
      BY <1>1, <1>2, <2>3
    <2>4. CASE t \notin W /\ u \notin W
      BY <1>2, <2>4 DEF Apart
    <2> QED BY <2>1, <2>2, <2>3, <2>4
  <1>3. ASSUME NEW t \in Threads
        PROVE  car2[t] \notin I2
    <2>1. CASE t \in W
      BY <2>1
    <2>2. CASE t \notin W
      BY <1>1, <2>2 DEF Apart
    <2> QED BY <2>1, <2>2
  <1>4. ASSUME NEW m \in Messages
        PROVE  m \in fr \ M <=> m \notin I2 /\ \A t \in Threads : car2[t] # m
    <2>1. CASE m \in M
      BY <2>1
    <2>2. CASE m \notin M
      <3>1. m \in I <=> m \in I2
        BY <2>2
      <3>2. m # NoMessage
        BY MessageQueueAssumption
      <3>3. \A t \in W : car2[t] # m /\ car[t] # m
        BY <2>2, <3>2
      <3>4. \A t \in Threads : car2[t] = m <=> car[t] = m
        BY <3>3
      <3> QED BY <2>2, <3>1, <3>4 DEF Apart
    <2> QED BY <2>1, <2>2
  <1> QED BY <1>2, <1>3, <1>4 DEF Apart

Moving(f, ms, s, to, from, p) ==
    LET o == f[Len(ms)] IN
    /\ f[0] = [kmsgs |-> s.mq[to].kmsgs, waiters |-> s.mq[to].waiters,
               seqno |-> s.port[p].seqno, th |-> s.th]
    /\ \A i \in 1..Len(ms) : f[i] = OfferAndWake(f[i - 1], ms[i])
    /\ Move(s, to, from, p) =
          [s EXCEPT !.mq[from].kmsgs = OthersThan(p, @),
                    !.mq[to] = [kmsgs |-> o.kmsgs, waiters |-> o.waiters],
                    !.th = o.th,
                    !.port[p].seqno = o.seqno]

\* The queues and threads of Move are what its messages have been dealt to.
LEMMA MoveIs ==
    ASSUME NEW s, NEW to, NEW from, NEW p, s.mq \in [Queues -> QueueRecords],
           from \in Queues, NEW ms, ms = MessagesOf(p, s.mq[from].kmsgs), ms \in Seq(Messages)
    PROVE  \E f : Moving(f, ms, s, to, from, p)
  <1> DEFINE a == [kmsgs |-> s.mq[to].kmsgs, waiters |-> s.mq[to].waiters,
                   seqno |-> s.port[p].seqno, th |-> s.th]
             Def(f, k) == f = [i \in 0..k |-> IF i = 0 THEN a ELSE OfferAndWake(f[i-1], ms[i])]
             T == {k \in Nat : \E f : Def(f, k)}
  <1>0. Len(ms) \in Nat /\ Len(ms) \in 0..Len(ms) /\ ms = MovedInOrder(p, s.mq[from].kmsgs)
    BY DEF MovedInOrder
  <1>1. 0 \in T
    <2> DEFINE f == [i \in 0..0 |-> a]
    <2>1. Def(f, 0)
      OBVIOUS
    <2> QED BY <2>1
  <1>2. ASSUME NEW k \in 1..Len(ms), k - 1 \in T
        PROVE  k \in T
    <2>1. PICK g : Def(g, k - 1)
      BY <1>2
    <2> DEFINE f == [i \in 0..k |-> IF i = k THEN OfferAndWake(g[k-1], ms[k]) ELSE g[i]]
    <2> HIDE DEF a
    <2>2. ASSUME NEW i \in 0..k
          PROVE  f[i] = IF i = 0 THEN a ELSE OfferAndWake(f[i-1], ms[i])
      <3>1. CASE i = k
        BY <3>1
      <3>2. CASE i \in 0..(k - 1)
        <4>1. f[i] = g[i] /\ (i /= 0 => f[i - 1] = g[i - 1])
          BY <3>2
        <4> HIDE DEF f
        <4> QED BY <2>1, <3>2, <4>1
      <3> QED BY <3>1, <3>2
    <2>3. f = [i \in 0..k |-> f[i]]
      OBVIOUS
    <2>4. Def(f, k)
      <3> HIDE DEF f
      <3> QED BY <2>2, <2>3
    <2> HIDE DEF f, Def
    <2> QED BY <2>4
  <1>3. Len(ms) \in T
    <2> HIDE DEF T
    <2>1. \A i \in 1..Len(ms) : i - 1 \in T => i \in T
      BY <1>2
    <2>2. \A i \in 0..Len(ms) : i \in T
      BY ONLY <1>0, <1>1, <2>1, Induction
    <2> QED BY <1>0, <2>2
  <1>4. \E f : Def(f, Len(ms))
    BY <1>3
  <1> DEFINE f == CHOOSE f : Def(f, Len(ms))
             o == f[Len(ms)]
  <1>5. Def(f, Len(ms))
    <2> HIDE DEF Def
    <2> QED BY <1>4
  <1>6. Move(s, to, from, p) =
            [s EXCEPT !.mq[from].kmsgs = OthersThan(p, @),
                      !.mq[to] = [kmsgs |-> o.kmsgs, waiters |-> o.waiters],
                      !.th = o.th,
                      !.port[p].seqno = o.seqno]
    BY <1>0 DEF Move
  <1> HIDE DEF f
  <1>7. f[0] = a /\ \A i \in 1..Len(ms) : f[i] = OfferAndWake(f[i - 1], ms[i])
    <2> HIDE DEF a
    <2>1. PICK e : e = [i \in 0..Len(ms) |-> IF i = 0 THEN a ELSE OfferAndWake(f[i-1], ms[i])]
      OBVIOUS
    <2>2. e = f
      BY <1>5, <2>1
    <2>3. e[0] = a
      BY <1>0, <2>1
    <2>4. \A i \in 1..Len(ms) : e[i] = OfferAndWake(f[i - 1], ms[i])
      BY <2>1
    <2> QED BY <2>2, <2>3, <2>4
  <1> QED BY <1>6, <1>7 DEF Moving

States ==
    [mq: [Queues -> QueueRecords], th: [Threads -> ThreadRecords], port: [Ports -> PortRecords]]

\* Types of what operations on queues do not change.
Settled ==
    /\ blocked \in [Ports -> Seq(Senders)]
    /\ pc \in [Threads -> {"user", "send_block", "send_go", "receive_block", "got"}]
    /\ call \in [Threads -> CallRecords]
    /\ free \subseteq Messages

\* A receiver that leaves its queue, sent away or with a message.
LEMMA OneLeaves ==
    ASSUME Settled, NEW q, NEW k, Fine(q, k), NEW x \in Queues, NEW t \in Threads,
           t \in Range(q[x].waiters), NEW g, NEW q2,
           \/ g.state \in {"TOO_LARGE", "PORT_DIED", "PORT_CHANGED"} /\ g.kmsg = NoMessage
           \/ g.state = "SUCCESS" /\ g.kmsg # NoMessage,
           \A y \in Queues : t \notin Range(q2[y].waiters)
    PROVE  /\ Order(t, g, pc[t], call[t]) /\ Listed(t, g, call[t], blocked, q2)
           /\ pc[t] = "receive_block" /\ k[t].kmsg = NoMessage
           /\ k[t].state = "RCV_IN_PROGRESS" /\ call[t].queue = x
  <1>1. Order(t, k[t], pc[t], call[t]) /\ Listed(t, k[t], call[t], blocked, q)
    BY DEF Fine
  <1>2. k[t].state = "RCV_IN_PROGRESS" /\ call[t].queue = x
    BY <1>1 DEF Listed
  <1>3. pc[t] = "receive_block" /\ k[t].kmsg = NoMessage
    BY <1>1, <1>2 DEF Order, Settled
  <1>4. Order(t, g, pc[t], call[t])
    BY <1>1, <1>3 DEF Order
  <1>5. \A pp \in Ports : t \notin Range(blocked[pp])
    BY <1>1, <1>2 DEF Listed
  <1>6. Listed(t, g, call[t], blocked, q2)
    BY <1>5 DEF Listed
  <1> QED BY <1>2, <1>3, <1>4, <1>6

LEMMA RangesIn ==
    ASSUME NEW q, QueuesOK(q), NEW x \in Queues
    PROVE  /\ q[x].kmsgs \in Seq(Messages) /\ Range(q[x].kmsgs) \subseteq Messages
           /\ q[x].waiters \in Seq(Receivers) /\ Range(q[x].waiters) \subseteq Threads
           /\ IsInjective(q[x].kmsgs) /\ IsInjective(q[x].waiters)
           /\ q[x] = [kmsgs |-> q[x].kmsgs, waiters |-> q[x].waiters]
  <1>1. /\ q[x].kmsgs \in Seq(Messages) /\ q[x].waiters \in Seq(Receivers)
        /\ IsInjective(q[x].kmsgs) /\ IsInjective(q[x].waiters)
        /\ q[x] = [kmsgs |-> q[x].kmsgs, waiters |-> q[x].waiters]
    BY DEF QueuesOK, QueueRecords
  <1>2. Range(q[x].kmsgs) \subseteq Messages /\ Range(q[x].waiters) \subseteq Receivers
    BY <1>1 DEF Range
  <1> QED BY <1>1, <1>2, MessageQueueAssumption

\* The messages M of queue x have been offered to the receivers of queue y.
LEMMA DealtFine ==
    ASSUME Settled, NEW q, NEW k, Fine(q, k), NEW x \in Queues, NEW y \in Queues, x # y,
           NEW M, M \subseteq Range(q[x].kmsgs), NEW a, NEW b,
           a.kmsgs = q[y].kmsgs, a.waiters = q[y].waiters, a.th = k, Dealt(a, b, M),
           NEW q2, q2 \in [Queues -> QueueRecords], q2[y].kmsgs = b.kmsgs, q2[y].waiters = b.waiters,
           q2[x].waiters = q[x].waiters, IsInjective(q2[x].kmsgs),
           Range(q2[x].kmsgs) = Range(q[x].kmsgs) \ M,
           \A z \in Queues \ {x, y} : q2[z] = q[z],
           \A t \in Left(a, b) : ~b.th[t].waiting
    PROVE  Fine(q2, b.th)
  <1> DEFINE W == Left(a, b)
  <1>1. QueuesOK(q) /\ k \in [Threads -> ThreadRecords] /\ NoMessage \notin Messages
    BY MessageQueueAssumption DEF Fine
  <1>2. /\ Range(q[x].kmsgs) \subseteq Messages /\ M \subseteq Messages
        /\ Range(q[y].waiters) \subseteq Threads /\ Range(q[y].kmsgs) \subseteq Messages
    BY <1>1, RangesIn
  <1>3. /\ Offerable(b) /\ b \in Offers /\ W \subseteq Threads /\ W \subseteq Range(q[y].waiters)
        /\ Range(b.waiters) = Range(q[y].waiters) \ W
        /\ Range(b.kmsgs) \subseteq Range(q[y].kmsgs) \cup M /\ Range(q[y].kmsgs) \subseteq Range(b.kmsgs)
    BY <1>2 DEF Dealt, Left, Offerable
  <1>4. \A z \in Queues : Range(q2[z].waiters) = Range(q[z].waiters) \ W
    <2>1. ASSUME NEW z \in Queues \ {y}, NEW t \in W
          PROVE  t \notin Range(q[z].waiters)
      <3>1. t \in Range(q[y].waiters) /\ t \in Threads
        BY <1>3
      <3>2. Listed(t, k[t], call[t], blocked, q)
        BY <3>1 DEF Fine
      <3> QED BY <3>1, <3>2 DEF Listed
    <2>2. \A z \in Queues \ {y} : q2[z].waiters = q[z].waiters
      OBVIOUS
    <2> HIDE DEF W
    <2>3. \A z \in Queues \ {y} : Range(q2[z].waiters) = Range(q[z].waiters) \ W
      BY <2>1, <2>2
    <2> QED BY <1>3, <2>3
  <1>5. QueuesOK(q2)
    <2>1. \A z \in Queues : IsInjective(q2[z].kmsgs) /\ IsInjective(q2[z].waiters)
      BY <1>1, <1>3 DEF QueuesOK, Offerable
    <2>2. ASSUME NEW z \in Queues, q2[z].waiters # <<>>
          PROVE  q2[z].kmsgs = <<>>
      <3>1. CASE z = y
        BY <1>3, <2>2, <3>1 DEF Offerable
      <3>2. CASE z = x
        <4>1. q[x].kmsgs = <<>>
          BY <1>1, <2>2, <3>2 DEF QueuesOK
        <4>2. Range(q2[x].kmsgs) = {}
          BY <4>1, Nobody
        <4>3. q2[x].kmsgs \in Seq(Messages)
          BY DEF QueueRecords
        <4>4. q2[x].kmsgs = <<>>
          <5> DEFINE u == q2[x].kmsgs
          <5>1. u \in Seq(Messages) /\ Range(u) = {}
            BY <4>2, <4>3
          <5> HIDE DEF u
          <5>2. u # <<>> => u[1] \in Range(u)
            BY <5>1 DEF Range
          <5>3. u = <<>>
            BY <5>1, <5>2
          <5> QED BY <5>3 DEF u
        <4> QED BY <3>2, <4>4
      <3>3. CASE z \notin {x, y}
        BY <1>1, <2>2, <3>3 DEF QueuesOK
      <3> QED BY <3>1, <3>2, <3>3
    <2>3. ASSUME NEW z \in Queues, NEW w \in Queues, z # w
          PROVE  Range(q2[z].kmsgs) \cap Range(q2[w].kmsgs) = {}
      <3>1. Range(q[z].kmsgs) \cap Range(q[w].kmsgs) = {} /\ Range(q[z].kmsgs) \cap Range(q[x].kmsgs) \in {{}, Range(q[x].kmsgs)}
        BY <1>1, <2>3 DEF QueuesOK
      <3>2. \A v \in Queues \ {y} : Range(q2[v].kmsgs) \subseteq Range(q[v].kmsgs) /\ Range(q2[v].kmsgs) \cap M = {}
        <4> SUFFICES ASSUME NEW v \in Queues \ {y}
                     PROVE  Range(q2[v].kmsgs) \subseteq Range(q[v].kmsgs) /\ Range(q2[v].kmsgs) \cap M = {}
          OBVIOUS
        <4>1. CASE v = x
          BY <4>1
        <4>2. CASE v # x
          BY <1>1, <4>2 DEF QueuesOK
        <4> QED BY <4>1, <4>2
      <3>3. Range(q2[y].kmsgs) \subseteq Range(q[y].kmsgs) \cup M
        BY <1>3
      <3> QED BY <2>3, <3>1, <3>2, <3>3
    <2> QED BY <2>1, <2>2, <2>3 DEF QueuesOK
  <1>6. b.th \in [Threads -> ThreadRecords] /\ \A t \in Threads \ W : b.th[t] = k[t]
    BY <1>3 DEF Offers, Dealt
  <1>7. \A t \in W : \/ b.th[t].state = "TOO_LARGE" /\ b.th[t].kmsg = NoMessage
                     \/ b.th[t].state = "SUCCESS" /\ b.th[t].kmsg \in M \ Range(b.kmsgs)
    BY DEF Dealt
  <1>8. ASSUME NEW t \in Threads
        PROVE  /\ Order(t, b.th[t], pc[t], call[t]) /\ Listed(t, b.th[t], call[t], blocked, q2)
               /\ t \in W => pc[t] = "receive_block" /\ k[t].kmsg = NoMessage
    <2>1. CASE t \in W
      <3> DEFINE g == b.th[t]
      <3>1. t \in Range(q[y].waiters)
        BY <1>3, <2>1
      <3>2. \/ g.state \in {"TOO_LARGE", "PORT_DIED", "PORT_CHANGED"} /\ g.kmsg = NoMessage
            \/ g.state = "SUCCESS" /\ g.kmsg # NoMessage
        BY <1>1, <1>2, <1>7, <2>1
      <3>3. \A z \in Queues : t \notin Range(q2[z].waiters)
        BY <1>4, <2>1
      <3> HIDE DEF g, W
      <3>4. /\ Order(t, g, pc[t], call[t]) /\ Listed(t, g, call[t], blocked, q2)
            /\ pc[t] = "receive_block" /\ k[t].kmsg = NoMessage
        BY <3>1, <3>2, <3>3, OneLeaves
      <3> QED BY <3>4 DEF g
    <2>2. CASE t \notin W
      <3>1. Order(t, k[t], pc[t], call[t]) /\ Listed(t, k[t], call[t], blocked, q)
        BY DEF Fine
      <3>2. b.th[t] = k[t] /\ \A z \in Queues : t \in Range(q2[z].waiters) <=> t \in Range(q[z].waiters)
        BY <1>4, <1>6, <2>2
      <3> QED BY <2>2, <3>1, <3>2 DEF Listed
    <2> QED BY <2>1, <2>2
  <1>9. Awake(b.th, pc, call)
    BY <1>6 DEF Fine, Awake
  <1>10. Apart(InQueues(q2), Load(b.th, pc, call), free)
    <2> DEFINE I == InQueues(q)
               car == Load(k, pc, call)
               I2 == InQueues(q2)
               car2 == Load(b.th, pc, call)
    <2>1. Apart(I, car, free) /\ M \subseteq I /\ M \cap free = {}
      BY <1>2 DEF Fine, InQueues, Apart
    <2>2. I2 \subseteq Messages /\ NoMessage \notin I2
      BY <1>1 DEF InQueues
    <2>3. I \ M \subseteq I2
      <3> SUFFICES ASSUME NEW m \in Messages, m \notin M, NEW z \in Queues, m \in Range(q[z].kmsgs)
                   PROVE  \E w \in Queues : m \in Range(q2[w].kmsgs)
        BY DEF InQueues
      <3>1. m \in Range(q2[z].kmsgs)
        <4>1. CASE z = y
          BY <1>3, <4>1
        <4>2. CASE z # y
          BY <4>2
        <4> QED BY <4>1, <4>2
      <3> QED BY <3>1
    <2>4. I2 \subseteq (I \ M) \cup M
      <3> SUFFICES ASSUME NEW m \in Messages, NEW z \in Queues, m \in Range(q2[z].kmsgs), m \notin M
                   PROVE  \E w \in Queues : m \in Range(q[w].kmsgs)
        BY DEF InQueues
      <3>1. m \in Range(q[z].kmsgs)
        <4>1. CASE z = y
          BY <1>3, <4>1
        <4>2. CASE z # y
          BY <4>2
        <4> QED BY <4>1, <4>2
      <3> QED BY <3>1
    <2>5. \A t \in Threads : t \in W => car[t] = NoMessage /\ car2[t] = b.th[t].kmsg
      BY <1>8 DEF Load
    <2>6. \A t \in Threads \ W : car2[t] = car[t]
      BY <1>6 DEF Load
    <2>7. \A m \in M : m \notin Range(b.kmsgs) => m \notin I2
      <3> SUFFICES ASSUME NEW m \in M, m \notin Range(b.kmsgs), NEW z \in Queues, m \in Range(q2[z].kmsgs)
                   PROVE  FALSE
        BY DEF InQueues
      <3>1. z # y /\ z # x
        OBVIOUS
      <3>2. m \in Range(q[x].kmsgs) /\ m \in Range(q[z].kmsgs)
        BY <3>1
      <3> QED BY <1>1, <3>1, <3>2 DEF QueuesOK
    <2>8. \A m \in M : m \in I2 \/ \E t \in W : car2[t] = m
      <3> SUFFICES ASSUME NEW m \in M, m \notin I2 PROVE \E t \in W : car2[t] = m
        OBVIOUS
      <3>1. m \notin Range(b.kmsgs) /\ m \in Messages
        BY <1>2 DEF InQueues
      <3>2. \E t \in W : b.th[t].kmsg = m
        BY <3>1 DEF Dealt
      <3> QED BY <1>3, <2>5, <3>2
    <2>9. \A t, u \in W : car2[t] = car2[u] /\ car2[t] # NoMessage => t = u
      BY <1>3, <2>5 DEF Dealt
    <2>10. \A t \in W : car2[t] = NoMessage \/ car2[t] \in M \ I2
      BY <1>3, <1>7, <2>5, <2>7
    <2>11. \A t \in W : car[t] = NoMessage
      BY <1>3, <2>5
    <2> HIDE DEF I, car, I2, car2, W
    <2>12. PICK ii, cc, ff, jj, dd : ii = I /\ cc = car /\ ff = free /\ jj = I2 /\ dd = car2
      OBVIOUS
    <2>13. Apart(ii \ M, cc, ff \cup M)
      BY <1>2, <2>1, <2>12, ApartTaken
    <2>14. PICK i1, f1 : i1 = ii \ M /\ f1 = ff \cup M
      OBVIOUS
    <2>15. /\ Apart(i1, cc, f1) /\ M \subseteq f1 /\ M \subseteq Messages /\ W \subseteq Threads
           /\ NoMessage \notin jj /\ \A t \in W : cc[t] = NoMessage
           /\ \A t \in Threads \ W : dd[t] = cc[t]
      BY <1>2, <1>3, <2>2, <2>6, <2>11, <2>12, <2>13, <2>14
    <2>16. /\ \A t \in W : dd[t] = NoMessage \/ dd[t] \in M \ jj
           /\ i1 \subseteq jj /\ jj \subseteq i1 \cup M
           /\ \A m \in M : m \in jj \/ \E t \in W : dd[t] = m
           /\ \A t, u \in W : dd[t] = dd[u] /\ dd[t] # NoMessage => t = u
      BY <2>3, <2>4, <2>8, <2>9, <2>10, <2>12, <2>14
    <2>17. Apart(jj, dd, f1 \ M)
      BY <2>15, <2>16, ApartDealt
    <2>18. f1 \ M = free
      BY <2>1, <2>12, <2>14
    <2> QED BY <2>12, <2>17, <2>18 DEF I2, car2
  <1> QED BY <1>5, <1>6, <1>8, <1>9, <1>10 DEF Fine

-----------------------------------------------------------------------------
(* The operations on sets and receive rights.                              *)

\* Everything of a port but its number.
SameCounts(a, b) ==
    /\ a.active = b.active /\ a.owned = b.owned /\ a.msgcount = b.msgcount
    /\ a.qlimit = b.qlimit

\* s after p's messages have been moved.
MovedTo(s, r, to, from, p) ==
    /\ \A z \in Ports : SameCounts(r.port[z], s.port[z]) /\ r.port[z].pset = s.port[z].pset
    /\ \A z \in Queues \ {to, from} : r.mq[z] = s.mq[z]
    /\ r.mq[from].waiters = s.mq[from].waiters
    /\ Range(r.mq[to].waiters) \subseteq Range(s.mq[to].waiters)
    /\ \A m \in Range(r.mq[from].kmsgs) : m \in Range(s.mq[from].kmsgs) /\ dest[m] # p
    /\ \A m \in Range(r.mq[to].kmsgs) :
          m \in Range(s.mq[to].kmsgs) \/ (m \in Range(s.mq[from].kmsgs) /\ dest[m] = p)

LEMMA MoveFine ==
    ASSUME Settled, NEW s \in States, Fine(s.mq, s.th), NEW to \in Queues, NEW from \in Queues,
           to # from, NEW p \in Ports, NEW r, r = Move(s, to, from, p)
    PROVE  r \in States /\ Fine(r.mq, r.th) /\ MovedTo(s, r, to, from, p)
           /\ \A t \in Threads : s.th[t].state # "RCV_IN_PROGRESS" => r.th[t] = s.th[t]
  <1> DEFINE q == s.mq
             k == s.th
  <1>1. /\ q \in [Queues -> QueueRecords] /\ k \in [Threads -> ThreadRecords]
        /\ s.port \in [Ports -> PortRecords] /\ QueuesOK(q)
    BY DEF States, Fine
  <1>2. /\ q[from].kmsgs \in Seq(Messages) /\ Range(q[from].kmsgs) \subseteq Messages
        /\ q[from].waiters \in Seq(Receivers) /\ IsInjective(q[from].kmsgs)
        /\ q[to].kmsgs \in Seq(Messages) /\ q[to].waiters \in Seq(Receivers)
        /\ Range(q[to].waiters) \subseteq Threads
        /\ IsInjective(q[to].kmsgs) /\ IsInjective(q[to].waiters)
    BY <1>1, RangesIn
  <1>3. PICK S, R, u : S = {m \in Messages : dest[m] = p} /\ R = {m \in Messages : dest[m] # p}
                       /\ u = q[from].kmsgs
    OBVIOUS
  <1>4. u \in Seq(Messages) /\ IsInjective(u) /\ Range(u) \subseteq Messages
    BY <1>2, <1>3
  <1>5. PICK ms, os : ms = Only(u, S) /\ os = Only(u, R)
    OBVIOUS
  <1>6. ms = MessagesOf(p, q[from].kmsgs) /\ os = OthersThan(p, q[from].kmsgs)
    BY <1>3, <1>5 DEF MessagesOf, OthersThan
  <1>7. /\ ms \in Seq(Messages) /\ IsInjective(ms) /\ Range(ms) = Range(u) \cap S
        /\ os \in Seq(Messages) /\ IsInjective(os) /\ Range(os) = Range(u) \cap R
    BY <1>4, <1>5, OnlySome
  <1>8. PICK f : Moving(f, ms, s, to, from, p)
    BY <1>1, <1>6, <1>7, MoveIs
  <1>9. PICK a, b, M : a = f[0] /\ b = f[Len(ms)] /\ M = Range(ms)
    OBVIOUS
  <1>10. /\ a = [kmsgs |-> q[to].kmsgs, waiters |-> q[to].waiters,
                 seqno |-> s.port[p].seqno, th |-> k]
         /\ a.kmsgs = q[to].kmsgs /\ a.waiters = q[to].waiters /\ a.th = k
    BY <1>8, <1>9 DEF Moving
  <1>11. Offerable(a)
    <2>1. a \in Offers
      BY <1>1, <1>2, <1>10 DEF Offers, PortRecords
    <2>2. \A t \in Range(q[to].waiters) : k[t].kmsg = NoMessage
      <3> SUFFICES ASSUME NEW t \in Range(q[to].waiters) PROVE k[t].kmsg = NoMessage
        OBVIOUS
      <3>1. t \in Threads
        BY <1>2
      <3>2. Order(t, k[t], pc[t], call[t]) /\ Listed(t, k[t], call[t], blocked, q)
        BY <3>1 DEF Fine
      <3>3. k[t].state = "RCV_IN_PROGRESS"
        BY <3>2 DEF Listed
      <3> QED BY <3>1, <3>2, <3>3 DEF Order, Settled
    <2> QED BY <1>1, <1>2, <1>10, <2>1, <2>2 DEF Offerable, QueuesOK
  <1>12. M \subseteq Range(q[from].kmsgs) /\ M \cap Range(a.kmsgs) = {}
    BY <1>1, <1>3, <1>7, <1>9, <1>10 DEF QueuesOK
  <1>13. Dealt(a, b, M) /\ \A t \in Left(a, b) : ~b.th[t].waiting
    <2>1. f[0] = a /\ \A i \in 1..Len(ms) : f[i] = OfferAndWake(f[i - 1], ms[i])
      BY <1>8, <1>9 DEF Moving
    <2>2. Range(ms) \cap Range(a.kmsgs) = {}
      BY <1>9, <1>12
    <2>3. LET e == f[Len(ms)] IN Dealt(a, e, Range(ms)) /\ \A t \in Left(a, e) : ~e.th[t].waiting
      BY <1>7, <1>11, <2>1, <2>2, AllDealt
    <2> QED BY <1>9, <2>3
  <1>14. b \in Offers /\ Offerable(b)
    BY <1>13 DEF Dealt, Offerable
  <1>15. /\ b.kmsgs \in Seq(Messages) /\ b.waiters \in Seq(Receivers) /\ b.seqno \in Seqnos
         /\ b.th \in [Threads -> ThreadRecords]
    BY <1>14 DEF Offers
  <1>16. /\ r.mq = [q EXCEPT ![from] = [kmsgs |-> os, waiters |-> q[from].waiters],
                             ![to] = [kmsgs |-> b.kmsgs, waiters |-> b.waiters]]
         /\ r.th = b.th
         /\ r.port = [s.port EXCEPT ![p] = [s.port[p] EXCEPT !.seqno = b.seqno]]
         /\ r = [mq |-> r.mq, th |-> r.th, port |-> r.port]
    <2>1. r = [s EXCEPT !.mq[from].kmsgs = os,
                        !.mq[to] = [kmsgs |-> b.kmsgs, waiters |-> b.waiters],
                        !.th = b.th,
                        !.port[p].seqno = b.seqno]
      BY <1>6, <1>8, <1>9 DEF Moving
    <2>2. s = [mq |-> q, th |-> k, port |-> s.port]
      BY DEF States
    <2>3. [q[from] EXCEPT !.kmsgs = os] = [kmsgs |-> os, waiters |-> q[from].waiters]
      BY <1>1 DEF QueueRecords
    <2>4. r = [mq |-> [q EXCEPT ![from] = [q[from] EXCEPT !.kmsgs = os],
                                ![to] = [kmsgs |-> b.kmsgs, waiters |-> b.waiters]],
               th |-> b.th,
               port |-> [s.port EXCEPT ![p] = [s.port[p] EXCEPT !.seqno = b.seqno]]]
      <3> HIDE DEF q, k
      <3>1. PICK g, h : g = [q[from] EXCEPT !.kmsgs = os] /\ h = [kmsgs |-> b.kmsgs, waiters |-> b.waiters]
        OBVIOUS
      <3>2. PICK s1 : s1 = [s EXCEPT !.mq[from].kmsgs = os]
        OBVIOUS
      <3>3. s1 = [mq |-> [q EXCEPT ![from] = g], th |-> k, port |-> s.port]
        BY <2>2, <3>1, <3>2
      <3>4. PICK s2 : s2 = [s1 EXCEPT !.mq[to] = h]
        OBVIOUS
      <3>5. s2 = [mq |-> [q EXCEPT ![from] = g, ![to] = h], th |-> k, port |-> s.port]
        BY <3>3, <3>4
      <3>6. r = [s2 EXCEPT !.th = b.th, !.port[p].seqno = b.seqno]
        BY <2>1, <3>1, <3>2, <3>4
      <3> QED BY <3>1, <3>5, <3>6
    <2> QED BY <2>3, <2>4
  <1>17. PICK q2 : q2 = r.mq
    OBVIOUS
  <1> DEFINE atTo == [kmsgs |-> b.kmsgs, waiters |-> b.waiters]
             atFrom == [kmsgs |-> os, waiters |-> q[from].waiters]
  <1>18. atTo \in QueueRecords /\ atFrom \in QueueRecords
    BY <1>2, <1>7, <1>15 DEF QueueRecords
  <1>19. atTo.kmsgs = b.kmsgs /\ atTo.waiters = b.waiters
         /\ atFrom.kmsgs = os /\ atFrom.waiters = q[from].waiters
    OBVIOUS
  <1> HIDE DEF atTo, atFrom
  <1>20. q2 = [q EXCEPT ![from] = atFrom, ![to] = atTo]
    BY <1>16, <1>17 DEF atTo, atFrom
  <1>21. /\ q2 \in [Queues -> QueueRecords] /\ q2[to] = atTo /\ q2[from] = atFrom
         /\ \A z \in Queues \ {from, to} : q2[z] = q[z]
    BY <1>1, <1>18, <1>20
  <1>22. /\ q2[to].kmsgs = b.kmsgs /\ q2[to].waiters = b.waiters
         /\ q2[from].waiters = q[from].waiters /\ q2[from].kmsgs = os
    BY <1>19, <1>21
  <1>23. Range(q2[from].kmsgs) = Range(q[from].kmsgs) \ M /\ IsInjective(q2[from].kmsgs)
    BY <1>3, <1>4, <1>7, <1>9, <1>22
  <1>24. Fine(q2, b.th)
    <2> HIDE DEF q, k
    <2>1. PICK qq, kk : qq = q /\ kk = k
      OBVIOUS
    <2>2. Fine(qq, kk) /\ M \subseteq Range(qq[from].kmsgs)
      BY <1>12, <2>1 DEF q, k
    <2>3. a.kmsgs = qq[to].kmsgs /\ a.waiters = qq[to].waiters /\ a.th = kk /\ Dealt(a, b, M)
      BY <1>10, <1>13, <2>1
    <2>4. /\ q2 \in [Queues -> QueueRecords] /\ q2[to].kmsgs = b.kmsgs /\ q2[to].waiters = b.waiters
          /\ q2[from].waiters = qq[from].waiters /\ IsInjective(q2[from].kmsgs)
          /\ Range(q2[from].kmsgs) = Range(qq[from].kmsgs) \ M
      BY <1>21, <1>22, <1>23, <2>1
    <2>5. \A z \in Queues \ {from, to} : q2[z] = qq[z]
      BY <1>21, <2>1
    <2>6. \A t \in Left(a, b) : ~b.th[t].waiting
      BY <1>13
    <2> QED BY <2>2, <2>3, <2>4, <2>5, <2>6, DealtFine
  <1>25. Fine(r.mq, r.th)
    BY <1>16, <1>17, <1>24
  <1>26. /\ r.port \in [Ports -> PortRecords]
         /\ \A z \in Ports : SameCounts(r.port[z], s.port[z]) /\ r.port[z].pset = s.port[z].pset
    <2>1. PICK e \in PortRecords : e = s.port[p]
      BY <1>1
    <2>2. PICK g : g = [e EXCEPT !.seqno = b.seqno]
      OBVIOUS
    <2>3. g \in PortRecords /\ SameCounts(g, e) /\ g.pset = e.pset
      BY <1>15, <2>2 DEF PortRecords, SameCounts
    <2>4. r.port = [s.port EXCEPT ![p] = g]
      BY <1>16, <2>1, <2>2
    <2>5. \A e1 : SameCounts(e1, e1)
      BY DEF SameCounts
    <2> QED BY <1>1, <2>1, <2>3, <2>4, <2>5
  <1>27. r \in States
    BY <1>15, <1>16, <1>17, <1>21, <1>26 DEF States
  <1>28. MovedTo(s, r, to, from, p)
    <2>1. \A m \in Range(q2[from].kmsgs) : m \in Range(q[from].kmsgs) /\ dest[m] # p
      BY <1>3, <1>7, <1>22
    <2>2. \A m \in Range(q2[to].kmsgs) :
             m \in Range(q[to].kmsgs) \/ (m \in Range(q[from].kmsgs) /\ dest[m] = p)
      BY <1>3, <1>7, <1>9, <1>10, <1>13, <1>22 DEF Dealt
    <2>3. Range(q2[to].waiters) \subseteq Range(q[to].waiters)
      BY <1>10, <1>13, <1>22 DEF Dealt
    <2> QED BY <1>17, <1>21, <1>22, <1>26, <2>1, <2>2, <2>3 DEF MovedTo
  <1>29. \A t \in Threads : k[t].state # "RCV_IN_PROGRESS" => r.th[t] = k[t]
    <2> SUFFICES ASSUME NEW t \in Threads, k[t].state # "RCV_IN_PROGRESS" PROVE b.th[t] = k[t]
      BY <1>16
    <2>1. Listed(t, k[t], call[t], blocked, q)
      BY DEF Fine
    <2>2. t \notin Left(a, b)
      BY <1>10, <2>1 DEF Listed, Left
    <2> QED BY <1>10, <1>13, <2>2 DEF Dealt
  <1> QED BY <1>25, <1>27, <1>28, <1>29

Home(po, p) == IF po[p].pset = NoPset THEN p ELSE po[p].pset

\* Messages and receivers are where the others look for them.
Housed(q, po, as) ==
    /\ \A x \in Queues : \A m \in Range(q[x].kmsgs) : dest[m] \in Ports /\ Home(po, dest[m]) = x
    /\ \A p \in Ports : q[p].waiters # <<>> => po[p].owned /\ po[p].pset = NoPset
    /\ \A ps \in Psets : q[ps].waiters # <<>> => ps \in as

LEMMA Emptied ==
    ASSUME NEW S, NEW s \in Seq(S), Range(s) = {}
    PROVE  s = <<>>
  <1>1. s # <<>> => s[1] \in Range(s)
    BY DEF Range
  <1> QED BY <1>1

LEMMA ChangedFine ==
    ASSUME Settled, NEW s \in States, Fine(s.mq, s.th), NEW x \in Queues,
           NEW state, state = "PORT_DIED" \/ state = "PORT_CHANGED", NEW r, r = Changed(s, x, state)
    PROVE  /\ r \in States /\ Fine(r.mq, r.th) /\ r.port = s.port
           /\ r.mq[x].kmsgs = s.mq[x].kmsgs /\ r.mq[x].waiters = <<>>
           /\ \A z \in Queues \ {x} : r.mq[z] = s.mq[z]
           /\ \A t \in Threads : s.th[t].state # "RCV_IN_PROGRESS" => r.th[t] = s.th[t]
  <1>1. PICK q, k, po : q = s.mq /\ k = s.th /\ po = s.port
    OBVIOUS
  <1>2. /\ q \in [Queues -> QueueRecords] /\ k \in [Threads -> ThreadRecords]
        /\ po \in [Ports -> PortRecords] /\ s = [mq |-> q, th |-> k, port |-> po]
        /\ Fine(q, k) /\ QueuesOK(q)
    BY <1>1 DEF States, Fine
  <1>3. /\ q[x] = [kmsgs |-> q[x].kmsgs, waiters |-> q[x].waiters]
        /\ q[x].kmsgs \in Seq(Messages) /\ Range(q[x].waiters) \subseteq Threads
    BY <1>2, RangesIn
  <1>4. PICK W, k2, g : W = Range(q[x].waiters) /\ k2 = Wake(k, W, state)
                        /\ g = [kmsgs |-> q[x].kmsgs, waiters |-> <<>>]
    OBVIOUS
  <1>5. state \in IthStates
    BY DEF IthStates
  <1>6. /\ k2 \in [Threads -> ThreadRecords]
        /\ \A t \in Threads \ W : k2[t] = k[t]
        /\ \A t \in Threads \cap W : k2[t].state = state /\ k2[t].kmsg = k[t].kmsg /\ ~k2[t].waiting
    BY <1>2, <1>4, <1>5, WakeIs
  <1>7. PICK q2 : q2 = [q EXCEPT ![x] = g]
    OBVIOUS
  <1>8. r = [mq |-> q2, th |-> k2, port |-> po]
    <2>1. [q[x] EXCEPT !.waiters = <<>>] = g
      BY <1>3, <1>4
    <2>2. r = [s EXCEPT !.th = k2, !.mq[x].waiters = <<>>]
      BY <1>1, <1>4 DEF Changed
    <2> QED BY <1>2, <1>7, <2>1, <2>2
  <1>9. g \in QueueRecords /\ g.kmsgs = q[x].kmsgs /\ g.waiters = <<>>
    BY <1>3, <1>4 DEF QueueRecords
  <1>10. /\ q2 \in [Queues -> QueueRecords] /\ q2[x] = g /\ \A z \in Queues \ {x} : q2[z] = q[z]
    BY <1>2, <1>7, <1>9
  <1>11. QueuesOK(q2)
    <2>1. \A z \in Queues : /\ q2[z].kmsgs = q[z].kmsgs
                            /\ q2[z].waiters = q[z].waiters \/ q2[z].waiters = <<>>
      BY <1>9, <1>10
    <2> QED BY <1>2, <1>10, <2>1, Nobody DEF QueuesOK
  <1>12. \A t \in W, z \in Queues : t \in Range(q[z].waiters) => z = x
    <2> SUFFICES ASSUME NEW t \in W, NEW z \in Queues, t \in Range(q[z].waiters) PROVE z = x
      OBVIOUS
    <2>1. t \in Threads /\ t \in Range(q[x].waiters)
      BY <1>3, <1>4
    <2>2. Listed(t, k[t], call[t], blocked, q)
      BY <1>2, <2>1 DEF Fine
    <2> QED BY <2>1, <2>2 DEF Listed
  <1>13. \A z \in Queues : Range(q2[z].waiters) = Range(q[z].waiters) \ W
    BY <1>4, <1>9, <1>10, <1>12, Nobody
  <1>14. ASSUME NEW t \in Threads
         PROVE  /\ Order(t, k2[t], pc[t], call[t]) /\ Listed(t, k2[t], call[t], blocked, q2)
                /\ t \in W => k[t].kmsg = NoMessage /\ k[t].state = "RCV_IN_PROGRESS"
    <2>1. CASE t \in W
      <3>1. PICK h : h = k2[t]
        OBVIOUS
      <3>2. k[t].kmsg = NoMessage
        <4>1. Order(t, k[t], pc[t], call[t]) /\ Listed(t, k[t], call[t], blocked, q)
          BY <1>2 DEF Fine
        <4>2. k[t].state = "RCV_IN_PROGRESS"
          BY <1>4, <2>1, <4>1 DEF Listed
        <4> QED BY <4>1, <4>2 DEF Order, Settled
      <3>3. h.state \in {"TOO_LARGE", "PORT_DIED", "PORT_CHANGED"} /\ h.kmsg = NoMessage
        BY <1>6, <2>1, <3>1, <3>2
      <3>4. t \in Range(q[x].waiters) /\ \A z \in Queues : t \notin Range(q2[z].waiters)
        BY <1>4, <1>13, <2>1
      <3>5. /\ Order(t, h, pc[t], call[t]) /\ Listed(t, h, call[t], blocked, q2)
            /\ k[t].state = "RCV_IN_PROGRESS"
        BY <1>2, <3>3, <3>4, OneLeaves
      <3> QED BY <3>1, <3>2, <3>5
    <2>2. CASE t \notin W
      <3>1. Order(t, k[t], pc[t], call[t]) /\ Listed(t, k[t], call[t], blocked, q)
        BY <1>2 DEF Fine
      <3>2. k2[t] = k[t] /\ \A z \in Queues : t \in Range(q2[z].waiters) <=> t \in Range(q[z].waiters)
        BY <1>6, <1>13, <2>2
      <3> QED BY <2>2, <3>1, <3>2 DEF Listed
    <2> QED BY <2>1, <2>2
  <1>15. Awake(k2, pc, call)
    BY <1>2, <1>6 DEF Fine, Awake
  <1>16. InQueues(q2) = InQueues(q)
    BY <1>9, <1>10 DEF InQueues
  <1>17. Load(k2, pc, call) = Load(k, pc, call)
    <2>1. \A t \in Threads : k2[t].kmsg = k[t].kmsg
      BY <1>6
    <2> QED BY <2>1 DEF Load
  <1>18. Fine(q2, k2)
    BY <1>2, <1>6, <1>11, <1>14, <1>15, <1>16, <1>17 DEF Fine
  <1>19. r \in States
    BY <1>2, <1>6, <1>8, <1>10 DEF States
  <1>20. \A t \in Threads : k[t].state # "RCV_IN_PROGRESS" => k2[t] = k[t]
    BY <1>6, <1>14
  <1> QED BY <1>1, <1>8, <1>9, <1>10, <1>18, <1>19, <1>20

\* What an operation on p's place makes of s: p is in the set ps.
Effect(s, r, p, ps, as) ==
    /\ r \in States /\ Fine(r.mq, r.th) /\ Housed(r.mq, r.port, as)
    /\ \A z \in Ports : SameCounts(r.port[z], s.port[z])
    /\ \A z \in Ports \ {p} : r.port[z].pset = s.port[z].pset
    /\ r.port[p].pset = ps
    /\ \A t \in Threads : s.th[t].state # "RCV_IN_PROGRESS" => r.th[t] = s.th[t]

LEMMA PsetRemoveIs ==
    ASSUME Settled, NEW s \in States, Fine(s.mq, s.th), NEW as, Housed(s.mq, s.port, as),
           NEW p \in Ports, NEW r, r = PsetRemove(s, p)
    PROVE  Effect(s, r, p, NoPset, as)
           /\ (s.port[p].pset # NoPset => r.mq[p].waiters = <<>>)
  <1>1. CASE s.port[p].pset = NoPset
    <2>1. r = s
      BY <1>1 DEF PsetRemove
    <2> QED BY <1>1, <2>1 DEF Effect, SameCounts
  <1>2. CASE s.port[p].pset # NoPset
    <2>1. PICK q, k, po, ps : q = s.mq /\ k = s.th /\ po = s.port /\ ps = po[p].pset
      OBVIOUS
    <2>2. /\ q \in [Queues -> QueueRecords] /\ k \in [Threads -> ThreadRecords]
          /\ po \in [Ports -> PortRecords] /\ s = [mq |-> q, th |-> k, port |-> po]
          /\ po[p] \in PortRecords /\ Fine(q, k) /\ QueuesOK(q)
      BY <2>1 DEF States, Fine
    <2>3. PICK g : g = [po[p] EXCEPT !.pset = NoPset]
      OBVIOUS
    <2>4. g \in PortRecords /\ SameCounts(g, po[p]) /\ g.pset = NoPset
      BY <2>2, <2>3 DEF PortRecords, SameCounts
    <2>5. PICK s1 : s1 = [mq |-> q, th |-> k, port |-> [po EXCEPT ![p] = g]]
      OBVIOUS
    <2>6. ps \in Psets /\ ps \in Queues /\ p \in Queues /\ p # ps
      BY <1>2, <2>1, <2>2, MessageQueueAssumption DEF PortRecords, Queues
    <2>7. r = Move(s1, p, ps, p)
      <3>1. s1 = [s EXCEPT !.port[p].pset = NoPset]
        BY <2>2, <2>3, <2>5
      <3> QED BY <1>2, <2>1, <3>1 DEF PsetRemove
    <2>8. /\ s1 \in States /\ s1.mq = q /\ s1.th = k /\ s1.port \in [Ports -> PortRecords]
          /\ \A z \in Ports : SameCounts(s1.port[z], po[z])
          /\ \A z \in Ports \ {p} : s1.port[z].pset = po[z].pset
          /\ s1.port[p].pset = NoPset
      <3>1. \A e1 : SameCounts(e1, e1)
        BY DEF SameCounts
      <3>2. [po EXCEPT ![p] = g] \in [Ports -> PortRecords]
        BY <2>2, <2>4
      <3> QED BY <2>2, <2>4, <2>5, <3>1, <3>2 DEF States
    <2>9. Fine(s1.mq, s1.th)
      BY <2>2, <2>8
    <2>10. /\ r \in States /\ Fine(r.mq, r.th) /\ MovedTo(s1, r, p, ps, p)
           /\ \A t \in Threads : s1.th[t].state # "RCV_IN_PROGRESS" => r.th[t] = s1.th[t]
      BY <2>6, <2>7, <2>8, <2>9, MoveFine
    <2>11. q[p].waiters = <<>>
      BY <1>2, <2>1 DEF Housed
    <2>12. r.mq[p].waiters = <<>>
      <3>1. r.mq[p].waiters \in Seq(Receivers)
        BY <2>6, <2>10 DEF States, QueueRecords
      <3>2. Range(r.mq[p].waiters) = {}
        BY <2>8, <2>10, <2>11, Nobody DEF MovedTo
      <3> QED BY <3>1, <3>2, Emptied
    <2>13. \A z \in Ports : SameCounts(r.port[z], po[z])
      BY <2>8, <2>10 DEF MovedTo, SameCounts
    <2>14. /\ \A z \in Ports \ {p} : r.port[z].pset = po[z].pset
           /\ r.port[p].pset = NoPset
      BY <2>8, <2>10 DEF MovedTo
    <2>15. ASSUME NEW x \in Queues, NEW m \in Range(r.mq[x].kmsgs)
           PROVE  dest[m] \in Ports /\ Home(r.port, dest[m]) = x
      <3>1. \A y \in Queues : \A e \in Range(q[y].kmsgs) : dest[e] \in Ports /\ Home(po, dest[e]) = y
        BY <2>1 DEF Housed
      <3>2. CASE x = p
        <4>1. m \in Range(q[p].kmsgs) \/ (m \in Range(q[ps].kmsgs) /\ dest[m] = p)
          BY <2>8, <2>10, <3>2 DEF MovedTo
        <4>2. m \notin Range(q[p].kmsgs)
          <5> SUFFICES ASSUME m \in Range(q[p].kmsgs) PROVE FALSE
            OBVIOUS
          <5>1. dest[m] \in Ports /\ Home(po, dest[m]) = p
            BY <2>6, <3>1
          <5>2. po[dest[m]] \in PortRecords
            BY <2>2, <5>1
          <5>3. po[dest[m]].pset \in Psets \cup {NoPset} /\ p \notin Psets
            BY <5>2, MessageQueueAssumption DEF PortRecords
          <5> QED BY <1>2, <2>1, <5>1, <5>3 DEF Home
        <4> QED BY <2>14, <3>2, <4>1, <4>2 DEF Home
      <3>3. CASE x = ps
        <4>1. m \in Range(q[ps].kmsgs) /\ dest[m] # p
          BY <2>8, <2>10, <3>3 DEF MovedTo
        <4> QED BY <2>6, <2>14, <3>1, <3>3, <4>1 DEF Home
      <3>4. CASE x \notin {p, ps}
        <4>1. m \in Range(q[x].kmsgs)
          BY <2>8, <2>10, <3>4 DEF MovedTo
        <4>2. dest[m] # p
          BY <1>2, <2>1, <3>1, <3>4, <4>1 DEF Home
        <4> QED BY <2>14, <3>1, <4>1, <4>2 DEF Home
      <3> QED BY <3>2, <3>3, <3>4
    <2>16. \A z \in Ports : r.mq[z].waiters # <<>> => r.port[z].owned /\ r.port[z].pset = NoPset
      <3> SUFFICES ASSUME NEW z \in Ports, r.mq[z].waiters # <<>>
                   PROVE  r.port[z].owned /\ r.port[z].pset = NoPset
        OBVIOUS
      <3>1. z # p /\ z \in Queues /\ z # ps
        BY <2>6, <2>12, MessageQueueAssumption DEF Queues
      <3>2. r.mq[z] = q[z]
        BY <2>8, <2>10, <3>1 DEF MovedTo
      <3>3. po[z].owned /\ po[z].pset = NoPset
        BY <2>1, <3>2 DEF Housed
      <3> QED BY <2>13, <2>14, <3>1, <3>3 DEF SameCounts
    <2>17. \A z \in Psets : r.mq[z].waiters # <<>> => z \in as
      <3> SUFFICES ASSUME NEW z \in Psets, r.mq[z].waiters # <<>> PROVE z \in as
        OBVIOUS
      <3>1. r.mq[z].waiters = q[z].waiters
        BY <2>6, <2>8, <2>10, MessageQueueAssumption DEF MovedTo, Queues
      <3> QED BY <2>1, <3>1 DEF Housed
    <2>18. Housed(r.mq, r.port, as)
      BY <2>15, <2>16, <2>17 DEF Housed
    <2> QED BY <2>1, <2>8, <2>10, <2>12, <2>13, <2>14, <2>18 DEF Effect
  <1> QED BY <1>1, <1>2

LEMMA PsetAddIs ==
    ASSUME Settled, NEW s \in States, Fine(s.mq, s.th), NEW as, Housed(s.mq, s.port, as),
           NEW p \in Ports, s.port[p].pset = NoPset, NEW ps \in Psets, ps \in as,
           NEW r, r = PsetAdd(s, ps, p)
    PROVE  Effect(s, r, p, ps, as)
  <1>1. PICK q, k, po : q = s.mq /\ k = s.th /\ po = s.port
    OBVIOUS
  <1>2. /\ q \in [Queues -> QueueRecords] /\ k \in [Threads -> ThreadRecords]
        /\ po \in [Ports -> PortRecords] /\ s = [mq |-> q, th |-> k, port |-> po]
        /\ po[p] \in PortRecords /\ Fine(q, k) /\ QueuesOK(q)
    BY <1>1 DEF States, Fine
  <1>3. PICK g : g = [po[p] EXCEPT !.pset = ps]
    OBVIOUS
  <1>4. g \in PortRecords /\ SameCounts(g, po[p]) /\ g.pset = ps
    BY <1>2, <1>3 DEF PortRecords, SameCounts
  <1>5. PICK s1 : s1 = [mq |-> q, th |-> k, port |-> [po EXCEPT ![p] = g]]
    OBVIOUS
  <1>6. ps \in Queues /\ p \in Queues /\ p # ps /\ p \notin Psets
    BY MessageQueueAssumption DEF Queues
  <1>7. PICK s2 : s2 = Move(s1, ps, p, p)
    OBVIOUS
  <1>8. r = Changed(s2, p, "PORT_CHANGED")
    <2>1. s1 = [s EXCEPT !.port[p].pset = ps]
      BY <1>2, <1>3, <1>5
    <2> QED BY <1>7, <2>1 DEF PsetAdd
  <1>9. /\ s1 \in States /\ s1.mq = q /\ s1.th = k /\ s1.port \in [Ports -> PortRecords]
        /\ \A z \in Ports : SameCounts(s1.port[z], po[z])
        /\ \A z \in Ports \ {p} : s1.port[z].pset = po[z].pset
        /\ s1.port[p].pset = ps
    <2>1. \A e1 : SameCounts(e1, e1)
      BY DEF SameCounts
    <2>2. [po EXCEPT ![p] = g] \in [Ports -> PortRecords]
      BY <1>2, <1>4
    <2> QED BY <1>2, <1>4, <1>5, <2>1, <2>2 DEF States
  <1>10. Fine(s1.mq, s1.th)
    BY <1>2, <1>9
  <1>11. /\ s2 \in States /\ Fine(s2.mq, s2.th) /\ MovedTo(s1, s2, ps, p, p)
         /\ \A t \in Threads : s1.th[t].state # "RCV_IN_PROGRESS" => s2.th[t] = s1.th[t]
    BY <1>6, <1>7, <1>9, <1>10, MoveFine
  <1>12. /\ r \in States /\ Fine(r.mq, r.th) /\ r.port = s2.port
         /\ r.mq[p].kmsgs = s2.mq[p].kmsgs /\ r.mq[p].waiters = <<>>
         /\ \A z \in Queues \ {p} : r.mq[z] = s2.mq[z]
         /\ \A t \in Threads : s2.th[t].state # "RCV_IN_PROGRESS" => r.th[t] = s2.th[t]
    <2>1. PICK state : state = "PORT_CHANGED"
      OBVIOUS
    <2>2. r = Changed(s2, p, state)
      BY <1>8, <2>1
    <2> QED BY <1>6, <1>11, <2>1, <2>2, ChangedFine
  <1>13. \A z \in Ports : SameCounts(r.port[z], po[z])
    BY <1>9, <1>11, <1>12 DEF MovedTo, SameCounts
  <1>14. /\ \A z \in Ports \ {p} : r.port[z].pset = po[z].pset
         /\ r.port[p].pset = ps
    BY <1>9, <1>11, <1>12 DEF MovedTo
  <1>15. \A t \in Threads : k[t].state # "RCV_IN_PROGRESS" => r.th[t] = k[t]
    BY <1>9, <1>11, <1>12
  <1>16. ASSUME NEW x \in Queues, NEW m \in Range(r.mq[x].kmsgs)
         PROVE  dest[m] \in Ports /\ Home(r.port, dest[m]) = x
    <2>1. \A y \in Queues : \A e \in Range(q[y].kmsgs) : dest[e] \in Ports /\ Home(po, dest[e]) = y
      BY <1>1 DEF Housed
    <2>2. Home(po, p) = p /\ Home(r.port, p) = ps
      <3>1. ps # NoPset
        BY MessageQueueAssumption
      <3> QED BY <1>1, <1>14, <3>1 DEF Home
    <2>3. \A d \in Ports \ {p} : Home(r.port, d) = Home(po, d)
      BY <1>14 DEF Home
    <2>4. m \in Range(s2.mq[x].kmsgs)
      BY <1>12
    <2>5. CASE x = ps
      <3>1. m \in Range(q[ps].kmsgs) \/ (m \in Range(q[p].kmsgs) /\ dest[m] = p)
        BY <1>9, <1>11, <2>4, <2>5 DEF MovedTo
      <3>2. m \in Range(q[ps].kmsgs) => dest[m] # p
        BY <1>6, <2>1, <2>2
      <3> QED BY <1>6, <2>1, <2>2, <2>3, <2>5, <3>1, <3>2
    <2>6. CASE x = p
      <3>1. m \in Range(q[p].kmsgs) /\ dest[m] # p
        BY <1>9, <1>11, <2>4, <2>6 DEF MovedTo
      <3>2. dest[m] \in Ports /\ Home(po, dest[m]) = p
        BY <1>6, <2>1, <3>1
      <3>3. po[dest[m]] \in PortRecords
        BY <1>2, <3>2
      <3>4. po[dest[m]].pset \in Psets \cup {NoPset}
        BY <3>3 DEF PortRecords
      <3> QED BY <1>6, <3>1, <3>2, <3>4 DEF Home
    <2>7. CASE x \notin {p, ps}
      <3>1. m \in Range(q[x].kmsgs)
        BY <1>9, <1>11, <2>4, <2>7 DEF MovedTo
      <3>2. dest[m] # p
        BY <2>1, <2>2, <2>7, <3>1
      <3> QED BY <2>1, <2>3, <3>1, <3>2
    <2> QED BY <2>5, <2>6, <2>7
  <1>17. \A z \in Ports : r.mq[z].waiters # <<>> => r.port[z].owned /\ r.port[z].pset = NoPset
    <2> SUFFICES ASSUME NEW z \in Ports, r.mq[z].waiters # <<>>
                 PROVE  r.port[z].owned /\ r.port[z].pset = NoPset
      OBVIOUS
    <2>1. z # p /\ z \in Queues /\ z # ps
      BY <1>12, MessageQueueAssumption DEF Queues
    <2>2. r.mq[z] = q[z]
      BY <1>9, <1>11, <1>12, <2>1 DEF MovedTo
    <2>3. po[z].owned /\ po[z].pset = NoPset
      BY <1>1, <2>2 DEF Housed
    <2> QED BY <1>13, <1>14, <2>1, <2>3 DEF SameCounts
  <1>18. \A z \in Psets : r.mq[z].waiters # <<>> => z \in as
    <2> SUFFICES ASSUME NEW z \in Psets, z # ps, r.mq[z].waiters # <<>> PROVE z \in as
      OBVIOUS
    <2>1. z \in Queues \ {p, ps}
      BY MessageQueueAssumption DEF Queues
    <2>2. r.mq[z].waiters = q[z].waiters
      BY <1>9, <1>11, <1>12, <2>1 DEF MovedTo
    <2> QED BY <1>1, <2>2 DEF Housed
  <1>19. Housed(r.mq, r.port, as)
    BY <1>16, <1>17, <1>18 DEF Housed
  <1> QED BY <1>1, <1>12, <1>13, <1>14, <1>15, <1>19 DEF Effect

LEMMA LeaveDeadSetIs ==
    ASSUME Settled, NEW s \in States, Fine(s.mq, s.th), NEW as, Housed(s.mq, s.port, as),
           NEW p \in Ports, NEW r, r = LeaveDeadSet(s, p)
    PROVE  /\ Effect(s, r, p, r.port[p].pset, as)
           /\ r.port[p].pset = NoPset \/ r.port[p].pset \in active_set
  <1>1. CASE s.port[p].pset \in active_set
    <2>1. r = s
      BY <1>1 DEF LeaveDeadSet
    <2> QED BY <1>1, <2>1 DEF Effect, SameCounts
  <1>2. CASE s.port[p].pset \notin active_set
    <2>1. r = PsetRemove(s, p)
      BY <1>2 DEF LeaveDeadSet
    <2>2. Effect(s, r, p, NoPset, as)
      BY <2>1, PsetRemoveIs
    <2>3. r.port[p].pset = NoPset
      BY <2>2 DEF Effect
    <2> QED BY <2>2, <2>3
  <1> QED BY <1>1, <1>2

\* The receive right has no receivers of its own, and no set.
LEMMA ClearReceiverIs ==
    ASSUME Settled, NEW s \in States, Fine(s.mq, s.th), NEW as, Housed(s.mq, s.port, as),
           NEW p \in Ports, s = State, NEW r, r = ClearReceiver(p)
    PROVE  Effect(s, r, p, NoPset, as) /\ r.mq[p].waiters = <<>>
  <1>0. s.port = port /\ p \in Queues /\ 0 \in Seqnos
    BY MessageQueueAssumption DEF State, Queues, Seqnos
  <1>1. PICK s2 : s2 = IF port[p].pset # NoPset THEN PsetRemove(s, p)
                                                ELSE Changed(s, p, "PORT_DIED")
    OBVIOUS
  <1>2. r = [s2 EXCEPT !.port[p].seqno = 0]
    BY <1>1 DEF ClearReceiver
  <1>3. Effect(s, s2, p, NoPset, as) /\ s2.mq[p].waiters = <<>>
    <2>1. CASE port[p].pset # NoPset
      <3>1. s2 = PsetRemove(s, p)
        BY <1>1, <2>1
      <3> QED BY <1>0, <2>1, <3>1, PsetRemoveIs
    <2>2. CASE port[p].pset = NoPset
      <3>1. PICK state : state = "PORT_DIED"
        OBVIOUS
      <3>2. s2 = Changed(s, p, state)
        BY <1>1, <2>2, <3>1
      <3>3. /\ s2 \in States /\ Fine(s2.mq, s2.th) /\ s2.port = s.port
            /\ s2.mq[p].kmsgs = s.mq[p].kmsgs /\ s2.mq[p].waiters = <<>>
            /\ \A z \in Queues \ {p} : s2.mq[z] = s.mq[z]
            /\ \A t \in Threads : s.th[t].state # "RCV_IN_PROGRESS" => s2.th[t] = s.th[t]
        BY <1>0, <3>1, <3>2, ChangedFine
      <3>4. \A z \in Queues : /\ s2.mq[z].kmsgs = s.mq[z].kmsgs
                              /\ s2.mq[z].waiters = s.mq[z].waiters \/ s2.mq[z].waiters = <<>>
        BY <3>3
      <3>5. Ports \subseteq Queues /\ Psets \subseteq Queues
        BY DEF Queues
      <3>6. Housed(s2.mq, s2.port, as)
        <4>1. PICK q, q2, po : q = s.mq /\ q2 = s2.mq /\ po = s.port
          OBVIOUS
        <4>2. \A z \in Queues : /\ q2[z].kmsgs = q[z].kmsgs
                                /\ q2[z].waiters = q[z].waiters \/ q2[z].waiters = <<>>
          BY <3>4, <4>1
        <4>3. Housed(q, po, as)
          BY <4>1
        <4>4. Housed(q2, po, as)
          BY <3>5, <4>2, <4>3 DEF Housed
        <4> QED BY <3>3, <4>1, <4>4
      <3>7. \A e1 : SameCounts(e1, e1)
        BY DEF SameCounts
      <3> QED BY <1>0, <2>2, <3>3, <3>6, <3>7 DEF Effect
    <2> QED BY <2>1, <2>2
  <1>4. PICK q, k, po : q = s2.mq /\ k = s2.th /\ po = s2.port
    OBVIOUS
  <1>5. /\ s2 = [mq |-> q, th |-> k, port |-> po] /\ s2 \in States
        /\ q \in [Queues -> QueueRecords] /\ k \in [Threads -> ThreadRecords]
        /\ po \in [Ports -> PortRecords] /\ po[p] \in PortRecords
    BY <1>3, <1>4 DEF Effect, States
  <1>6. PICK g : g = [po[p] EXCEPT !.seqno = 0]
    OBVIOUS
  <1>7. g \in PortRecords /\ SameCounts(g, po[p]) /\ g.pset = po[p].pset
    BY <1>0, <1>5, <1>6 DEF PortRecords, SameCounts
  <1>8. PICK po2 : po2 = [po EXCEPT ![p] = g]
    OBVIOUS
  <1>9. r = [mq |-> q, th |-> k, port |-> po2]
    BY <1>2, <1>5, <1>6, <1>8
  <1>10. /\ po2 \in [Ports -> PortRecords]
         /\ \A z \in Ports : SameCounts(po2[z], po[z]) /\ po2[z].pset = po[z].pset
    <2>1. \A e1 : SameCounts(e1, e1)
      BY DEF SameCounts
    <2> QED BY <1>5, <1>7, <1>8, <2>1
  <1>11. r \in States /\ r.mq = q /\ r.th = k /\ r.port = po2
    BY <1>5, <1>9, <1>10 DEF States
  <1>12. Housed(q, po2, as)
    <2>1. Housed(q, po, as)
      BY <1>3, <1>4 DEF Effect
    <2>2. \A z \in Ports : Home(po2, z) = Home(po, z) /\ po2[z].owned = po[z].owned
      BY <1>10 DEF Home, SameCounts
    <2> QED BY <1>10, <2>1, <2>2 DEF Housed
  <1>13. \A z \in Ports : SameCounts(po2[z], s.port[z])
    BY <1>3, <1>4, <1>10 DEF Effect, SameCounts
  <1> QED BY <1>3, <1>4, <1>10, <1>11, <1>12, <1>13 DEF Effect

-----------------------------------------------------------------------------
(* The inductive invariant: QueueInv in the terms of the lemmas above.     *)

Types ==
    /\ port \in [Ports -> PortRecords]
    /\ Settled
    /\ \A p \in Ports : IsInjective(blocked[p])
    /\ active_set \subseteq Psets
    /\ dest \in [Messages -> Ports \cup {NoPort}]
    /\ panicked \in BOOLEAN

\* The messages of p that are queued or handed out.
Counted(p) == {m \in Messages : dest[m] = p /\ m \notin free /\ \A t \in Threads : call[t].msg # m}
CountsExact == \A p \in Ports : port[p].active => port[p].msgcount = Cardinality(Counted(p))

\* The senders that a slot of p is promised to.
Promised(p) ==
    {t \in Threads : pc[t] = "send_block" /\ call[t].queue = p /\ t \notin Range(blocked[p])}
SlotsPromised ==
    \A p \in Ports : port[p].active /\ blocked[p] # <<>> =>
        port[p].qlimit <= port[p].msgcount + Cardinality(Promised(p))

Base ==
    /\ Types
    /\ Fine(mq, th)
    /\ Housed(mq, port, active_set)
    /\ \A m \in Messages \ free : dest[m] \in Ports
    /\ CountsExact
    /\ SlotsPromised

LEMMA Starts == Init => Base
  <1> SUFFICES ASSUME Init PROVE Base
    OBVIOUS
  <1>0. /\ Range(<<>>) = {} /\ IsInjective(<<>>)
        /\ Cardinality(Messages) \in Nat /\ Cardinality({}) = 0 /\ 0 \in 0..Cardinality(Messages)
    BY Nobody, MessageQueueAssumption, FS_CardinalityType, FS_EmptySet
  <1>1. PICK g : g = [active |-> TRUE, owned |-> TRUE, pset |-> NoPset,
                      msgcount |-> 0, qlimit |-> QlimitDefault, seqno |-> 0]
    OBVIOUS
  <1>2. g \in PortRecords /\ g.pset = NoPset /\ g.msgcount = 0
    BY <1>0, <1>1, MessageQueueAssumption DEF PortRecords, Seqnos
  <1>3. port = [p \in Ports |-> g]
    BY <1>1 DEF Init
  <1>4. IdleThread \in ThreadRecords /\ NoCall \in CallRecords
    BY MessageQueueAssumption
       DEF IdleThread, NoCall, ThreadRecords, CallRecords, IthStates, Seqnos, Sizes, AllOptions
  <1>5. /\ IdleThread.state = "SUCCESS" /\ IdleThread.kmsg = NoMessage /\ ~IdleThread.waiting
        /\ NoCall.msg = NoMessage
    BY DEF IdleThread, NoCall
  <1>6. PICK h : h = [kmsgs |-> <<>>, waiters |-> <<>>]
    OBVIOUS
  <1>7. h \in QueueRecords /\ h.kmsgs = <<>> /\ h.waiters = <<>>
    BY <1>6 DEF QueueRecords
  <1>8. mq = [q \in Queues |-> h]
    BY <1>6 DEF Init
  <1>9. QueuesOK(mq)
    BY <1>0, <1>7, <1>8 DEF QueuesOK
  <1>10. th = [t \in Threads |-> IdleThread] /\ call = [t \in Threads |-> NoCall]
         /\ pc = [t \in Threads |-> "user"] /\ blocked = [p \in Ports |-> <<>>]
    BY DEF Init
  <1>11. \A t \in Threads :
            /\ Order(t, th[t], pc[t], call[t]) /\ Listed(t, th[t], call[t], blocked, mq)
            /\ ~th[t].waiting /\ th[t].kmsg = NoMessage
    BY <1>0, <1>5, <1>7, <1>8, <1>10 DEF Order, Listed
  <1>12. InQueues(mq) = {}
    BY <1>0, <1>7, <1>8 DEF InQueues
  <1>13. \A t \in Threads : Load(th, pc, call)[t] = NoMessage
    BY <1>10, <1>11 DEF Load
  <1>14. Apart(InQueues(mq), Load(th, pc, call), free)
    BY <1>12, <1>13, MessageQueueAssumption DEF Apart, Init
  <1>15. Fine(mq, th)
    BY <1>4, <1>9, <1>10, <1>11, <1>14 DEF Fine, Awake
  <1>16. Types
    <2>1. port \in [Ports -> PortRecords] /\ call \in [Threads -> CallRecords]
      BY <1>2, <1>3, <1>4, <1>10
    <2>2. pc \in [Threads -> {"user", "send_block", "send_go", "receive_block", "got"}]
      BY <1>10
    <2>3. blocked \in [Ports -> Seq(Senders)] /\ \A p \in Ports : IsInjective(blocked[p])
      BY <1>0, <1>10
    <2>4. /\ active_set \subseteq Psets /\ dest \in [Messages -> Ports \cup {NoPort}]
          /\ panicked \in BOOLEAN /\ free \subseteq Messages
      BY DEF Init
    <2> QED BY <2>1, <2>2, <2>3, <2>4 DEF Types, Settled
  <1>17. Housed(mq, port, active_set)
    <2>1. Ports \subseteq Queues /\ Psets \subseteq Queues
      BY DEF Queues
    <2> QED BY <1>0, <1>7, <1>8, <2>1 DEF Housed
  <1>18. \A p \in Ports : Counted(p) = {}
    BY DEF Counted, Init
  <1>19. CountsExact /\ SlotsPromised
    BY <1>0, <1>2, <1>3, <1>10, <1>18 DEF CountsExact, SlotsPromised
  <1> QED BY <1>15, <1>16, <1>17, <1>19 DEF Base, Init

\* What it says of the messages.
LEMMA WhereMessagesAre ==
    ASSUME Base, NEW m \in Messages
    PROVE  /\ \A t \in Threads : call[t].msg = m \/ th[t].kmsg = m <=> Load(th, pc, call)[t] = m
           /\ \A t, u \in Threads : Load(th, pc, call)[t] = m /\ Load(th, pc, call)[u] = m => t = u
           /\ \A t \in Threads : ~(call[t].msg = m /\ th[t].kmsg = m)
           /\ \A t \in Threads, q \in Queues :
                 m \in Range(mq[q].kmsgs) => Load(th, pc, call)[t] # m
           /\ m \in free <=> /\ \A q \in Queues : m \notin Range(mq[q].kmsgs)
                             /\ \A t \in Threads : Load(th, pc, call)[t] # m
  <1>1. m # NoMessage
    BY MessageQueueAssumption
  <1>2. \A t \in Threads : Order(t, th[t], pc[t], call[t])
    BY DEF Base, Fine
  <1>3. \A t \in Threads : Load(th, pc, call)[t] = IF pc[t] = "send_block" THEN call[t].msg ELSE th[t].kmsg
    BY DEF Load
  <1>4. \A t \in Threads : /\ pc[t] # "send_block" => call[t].msg = NoMessage
                           /\ pc[t] = "send_block" => th[t].kmsg = NoMessage
    BY <1>2 DEF Order
  <1>5. Apart(InQueues(mq), Load(th, pc, call), free)
    BY DEF Base, Fine
  <1>6. m \in InQueues(mq) <=> \E q \in Queues : m \in Range(mq[q].kmsgs)
    BY DEF InQueues
  <1>7. PICK car, I : car = Load(th, pc, call) /\ I = InQueues(mq)
    OBVIOUS
  <1>8. /\ \A t, u \in Threads : car[t] = m /\ car[u] = m => t = u
        /\ \A t \in Threads : m \in I => car[t] # m
        /\ m \in free <=> m \notin I /\ \A t \in Threads : car[t] # m
    BY <1>1, <1>5, <1>7 DEF Apart
  <1>9. \A t \in Threads : (call[t].msg = m \/ th[t].kmsg = m) <=> car[t] = m
    BY <1>1, <1>3, <1>4, <1>7
  <1> QED BY <1>1, <1>4, <1>6, <1>7, <1>8, <1>9

LEMMA BaseSays ==
    ASSUME Base
    PROVE  QueueInv /\ EachMessageOnce
  <1>1. TypeOK
    BY DEF Base, Types, Settled, Fine, QueuesOK, TypeOK
  <1>2. \A t \in Threads : Order(t, th[t], pc[t], call[t]) /\ Listed(t, th[t], call[t], blocked, mq)
    BY DEF Base, Fine
  <1>3. ThreadsAgree
    BY <1>2 DEF ThreadsAgree, Order
  <1>4. ToldAreWoken
    BY DEF Base, Fine, Awake, ToldAreWoken
  <1>5. WaitersListed
    <2> SUFFICES ASSUME NEW t \in Threads
                 PROVE  /\ {p \in Ports : t \in Range(blocked[p])} =
                             IF th[t].state = "SEND_IN_PROGRESS" THEN {call[t].queue} ELSE {}
                        /\ {q \in Queues : t \in Range(mq[q].waiters)} =
                             IF th[t].state = "RCV_IN_PROGRESS" THEN {call[t].queue} ELSE {}
      BY DEF WaitersListed
    <2>1. pc[t] \in {"user", "send_block", "send_go", "receive_block", "got"}
      BY DEF Base, Types, Settled
    <2>2. /\ th[t].state = "SEND_IN_PROGRESS" => call[t].queue \in Ports
          /\ th[t].state = "RCV_IN_PROGRESS" => call[t].queue \in Queues
      BY <1>2, <2>1 DEF Order
    <2>3. {p \in Ports : t \in Range(blocked[p])} =
             IF th[t].state = "SEND_IN_PROGRESS" THEN {call[t].queue} ELSE {}
      BY <1>2, <2>2 DEF Listed
    <2>4. {q \in Queues : t \in Range(mq[q].waiters)} =
             IF th[t].state = "RCV_IN_PROGRESS" THEN {call[t].queue} ELSE {}
      BY <1>2, <2>2 DEF Listed
    <2> QED BY <2>3, <2>4
  <1>6. MessagesApart
    <2> SUFFICES ASSUME NEW m \in Messages
                 PROVE  /\ \A t, u \in SentBy(m) \cup Holders(m) : t = u
                        /\ SentBy(m) \cup Holders(m) # {} => Queued(m) = {}
                        /\ m \in free <=> Queued(m) = {} /\ SentBy(m) \cup Holders(m) = {}
                        /\ m \notin free => dest[m] \in Ports
      BY DEF MessagesApart
    <2>1. SentBy(m) \cup Holders(m) = {t \in Threads : Load(th, pc, call)[t] = m}
      BY WhereMessagesAre DEF SentBy, Holders
    <2>2. Queued(m) = {q \in Queues : m \in Range(mq[q].kmsgs)}
      BY DEF Queued
    <2> QED BY <2>1, <2>2, WhereMessagesAre DEF Base
  <1>7. MsgcountExact
    <2> SUFFICES ASSUME NEW p \in Ports
                 PROVE  {m \in Messages : dest[m] = p /\ (Queued(m) # {} \/ Holders(m) # {})} = Counted(p)
      BY DEF Base, CountsExact, MsgcountExact
    <2> SUFFICES ASSUME NEW m \in Messages
                 PROVE  (Queued(m) # {} \/ Holders(m) # {})
                            <=> (m \notin free /\ \A t \in Threads : call[t].msg # m)
      BY DEF Counted
    <2>1. Queued(m) # {} <=> \E q \in Queues : m \in Range(mq[q].kmsgs)
      BY DEF Queued
    <2>2. Holders(m) # {} <=> \E t \in Threads : th[t].kmsg = m
      BY DEF Holders
    <2> QED BY <2>1, <2>2, WhereMessagesAre
  <1>8. FreeSlotsPromised
    BY DEF Base, SlotsPromised, Promised, FreeSlotsPromised
  <1>9. NoMessagePassedOver
    BY DEF Base, Fine, QueuesOK, NoMessagePassedOver
  <1>10. MessagesWhereReceived
    BY DEF Base, Housed, Home, Mqueue, MessagesWhereReceived
  <1>11. EachMessageOnce
    <2> SUFFICES ASSUME NEW m \in Messages
                 PROVE  Cardinality(Queued(m)) + Cardinality(SentBy(m)) + Cardinality(Holders(m))
                            = IF m \in free THEN 0 ELSE 1
      BY DEF EachMessageOnce
    <2>1. Cardinality({}) = 0
      BY FS_EmptySet
    <2>2. CASE m \in free
      <3>1. Queued(m) = {} /\ SentBy(m) = {} /\ Holders(m) = {}
        BY <2>2, WhereMessagesAre DEF Queued, SentBy, Holders
      <3> QED BY <2>1, <2>2, <3>1
    <2>3. CASE \E q \in Queues : m \in Range(mq[q].kmsgs)
      <3>1. PICK q \in Queues : m \in Range(mq[q].kmsgs)
        BY <2>3
      <3>2. \A x \in Queues : m \in Range(mq[x].kmsgs) => x = q
        BY <3>1 DEF Base, Fine, QueuesOK
      <3>3. Queued(m) = {q}
        BY <3>1, <3>2 DEF Queued
      <3>4. SentBy(m) = {} /\ Holders(m) = {} /\ m \notin free
        BY <3>1, WhereMessagesAre DEF SentBy, Holders
      <3>5. Cardinality({q}) = 1
        BY FS_Singleton
      <3> QED BY <2>1, <3>3, <3>4, <3>5
    <2>4. CASE m \notin free /\ \A q \in Queues : m \notin Range(mq[q].kmsgs)
      <3>1. PICK t \in Threads : Load(th, pc, call)[t] = m
        BY <2>4, WhereMessagesAre
      <3>2. Queued(m) = {}
        BY <2>4 DEF Queued
      <3>3. \/ SentBy(m) = {t} /\ Holders(m) = {}
            \/ SentBy(m) = {} /\ Holders(m) = {t}
        BY <3>1, WhereMessagesAre DEF SentBy, Holders
      <3>4. Cardinality({t}) = 1
        BY FS_Singleton
      <3>5. PICK a, b, c : a = Cardinality(Queued(m)) /\ b = Cardinality(SentBy(m))
                           /\ c = Cardinality(Holders(m))
        OBVIOUS
      <3>6. a = 0
        BY <2>1, <3>2, <3>5
      <3>7. (b = 1 /\ c = 0) \/ (b = 0 /\ c = 1)
        BY <2>1, <3>3, <3>4, <3>5
      <3>8. a + b + c = 1
        BY <3>6, <3>7
      <3> QED BY <2>4, <3>5, <3>8
    <2> QED BY <2>2, <2>3, <2>4
  <1> QED BY <1>1, <1>3, <1>4, <1>5, <1>6, <1>7, <1>8, <1>9, <1>10, <1>11 DEF QueueInv

-----------------------------------------------------------------------------
(* Steps that change queues, receivers and ports' places only.             *)

LEMMA QueuesReached ==
    ASSUME Base, NEW s, s = State
    PROVE  /\ Settled /\ s \in States /\ Fine(s.mq, s.th) /\ Housed(s.mq, s.port, active_set)
           /\ s.mq = mq /\ s.th = th /\ s.port = port
  <1>1. s = [mq |-> mq, th |-> th, port |-> port]
    BY DEF State
  <1>2. mq \in [Queues -> QueueRecords] /\ th \in [Threads -> ThreadRecords] /\ port \in [Ports -> PortRecords]
    BY DEF Base, Types, Fine, QueuesOK
  <1> QED BY <1>1, <1>2 DEF Base, Types, States

LEMMA QueueStep ==
    ASSUME Base, NEW r, r \in States, Fine(r.mq, r.th), Housed(r.mq, r.port, active_set'),
           \A z \in Ports : /\ r.port[z].active = port[z].active
                            /\ r.port[z].msgcount = port[z].msgcount
                            /\ r.port[z].qlimit = port[z].qlimit,
           mq' = r.mq, th' = r.th, port' = r.port, active_set' \subseteq Psets,
           UNCHANGED <<blocked, pc, call, dest, free, panicked>>
    PROVE  Base'
  <1>1. Types'
    BY DEF Base, Types, Settled, States
  <1>2. Fine(mq, th)'
    BY DEF Fine
  <1>3. Housed(mq, port, active_set)'
    BY DEF Housed
  <1>4. CountsExact'
    <2>1. \A p \in Ports : Counted(p)' = Counted(p)
      BY DEF Counted
    <2> QED BY <2>1 DEF Base, CountsExact
  <1>5. SlotsPromised'
    <2>1. \A p \in Ports : Promised(p)' = Promised(p)
      BY DEF Promised
    <2> QED BY <2>1 DEF Base, SlotsPromised
  <1> QED BY <1>1, <1>2, <1>3, <1>4, <1>5 DEF Base

\* One port is changed.
PutPort(s, r, p, g) ==
    /\ r \in States /\ r.mq = s.mq /\ r.th = s.th
    /\ r.port[p] = g /\ \A z \in Ports \ {p} : r.port[z] = s.port[z]

LEMMA PortSet ==
    ASSUME NEW s \in States, NEW p \in Ports, NEW g \in PortRecords, NEW r,
           r = [s EXCEPT !.port[p] = g]
    PROVE  PutPort(s, r, p, g)
  <1>1. /\ s = [mq |-> s.mq, th |-> s.th, port |-> s.port] /\ s.port \in [Ports -> PortRecords]
        /\ s.mq \in [Queues -> QueueRecords] /\ s.th \in [Threads -> ThreadRecords]
    BY DEF States
  <1>2. r = [mq |-> s.mq, th |-> s.th, port |-> [s.port EXCEPT ![p] = g]]
    BY <1>1
  <1>3. [s.port EXCEPT ![p] = g] \in [Ports -> PortRecords]
    BY <1>1
  <1> QED BY <1>1, <1>2, <1>3 DEF States, PutPort

LEMMA StepSetSeqno ==
    ASSUME Base, NEW p \in Ports, NEW n \in Seqnos, SetSeqno(p, n)
    PROVE  Base'
  <1>1. PICK s : s = State
    OBVIOUS
  <1>2. /\ Settled /\ s \in States /\ Fine(s.mq, s.th) /\ Housed(s.mq, s.port, active_set)
        /\ s.mq = mq /\ s.th = th /\ s.port = port
    BY <1>1, QueuesReached
  <1>3. PICK s2 : s2 = LeaveDeadSet(s, p)
    OBVIOUS
  <1>4. PICK as : as = active_set
    OBVIOUS
  <1>5. Effect(s, s2, p, s2.port[p].pset, as)
    BY <1>2, <1>3, <1>4, LeaveDeadSetIs
  <1>6. PICK g : g = [s2.port[p] EXCEPT !.seqno = n]
    OBVIOUS
  <1>7. s2 \in States /\ s2.port[p] \in PortRecords
    BY <1>5 DEF Effect, States
  <1>8. g \in PortRecords /\ SameCounts(g, s2.port[p]) /\ g.pset = s2.port[p].pset
    BY <1>6, <1>7 DEF PortRecords, SameCounts
  <1>9. PICK r : r = [s2 EXCEPT !.port[p] = g]
    OBVIOUS
  <1>10. r = [s2 EXCEPT !.port[p].seqno = n]
    BY <1>6, <1>9
  <1>11. /\ mq' = r.mq /\ th' = r.th /\ port' = r.port
         /\ UNCHANGED <<blocked, active_set, pc, call, dest, free, panicked>>
    BY <1>1, <1>3, <1>10 DEF SetSeqno, ChangeTo, Apply
  <1>12. /\ r \in States /\ r.mq = s2.mq /\ r.th = s2.th
         /\ r.port[p] = g /\ \A z \in Ports \ {p} : r.port[z] = s2.port[z]
    BY <1>7, <1>8, <1>9, PortSet DEF PutPort
  <1>13. \A z \in Ports : SameCounts(r.port[z], port[z]) /\ r.port[z].pset = s2.port[z].pset
                          /\ r.port[z].owned = s2.port[z].owned
    BY <1>2, <1>5, <1>8, <1>12 DEF Effect, SameCounts
  <1>14. Fine(r.mq, r.th)
    BY <1>5, <1>12 DEF Effect
  <1>15. Housed(r.mq, r.port, active_set')
    <2>1. Housed(s2.mq, s2.port, active_set)
      BY <1>4, <1>5 DEF Effect
    <2> QED BY <1>11, <1>12, <1>13, <2>1 DEF Housed, Home
  <1>16. \A z \in Ports : /\ r.port[z].active = port[z].active
                          /\ r.port[z].msgcount = port[z].msgcount
                          /\ r.port[z].qlimit = port[z].qlimit
    BY <1>13 DEF SameCounts
  <1>17. active_set' \subseteq Psets
    BY <1>11 DEF Base, Types
  <1> QED BY <1>11, <1>12, <1>14, <1>15, <1>16, <1>17, QueueStep

LEMMA StepPsetMove ==
    ASSUME Base, NEW p \in Ports, NEW ns \in Psets \cup {NoPset}, PsetMove(p, ns)
    PROVE  Base'
  <1>1. PICK s : s = State
    OBVIOUS
  <1>2. /\ Settled /\ s \in States /\ Fine(s.mq, s.th) /\ Housed(s.mq, s.port, active_set)
        /\ s.mq = mq /\ s.th = th /\ s.port = port
    BY <1>1, QueuesReached
  <1>3. PICK out, as : out = PsetRemove(s, p) /\ as = active_set
    OBVIOUS
  <1>4. Effect(s, out, p, NoPset, as)
    BY <1>2, <1>3, PsetRemoveIs
  <1>5. PICK r : r = IF ns = NoPset THEN out ELSE PsetAdd(out, ns, p)
    OBVIOUS
  <1>6. /\ mq' = r.mq /\ th' = r.th /\ port' = r.port
        /\ UNCHANGED <<blocked, active_set, pc, call, dest, free, panicked>>
        /\ ns \in active_set \cup {NoPset}
    BY <1>1, <1>3, <1>5 DEF PsetMove, ChangeTo, Apply
  <1>7. /\ r \in States /\ Fine(r.mq, r.th) /\ Housed(r.mq, r.port, as)
        /\ \A z \in Ports : SameCounts(r.port[z], s.port[z])
    <2>1. CASE ns = NoPset
      BY <1>4, <1>5, <2>1 DEF Effect
    <2>2. CASE ns # NoPset
      <3>1. r = PsetAdd(out, ns, p) /\ ns \in Psets /\ ns \in as
        BY <1>3, <1>5, <1>6, <2>2
      <3>2. /\ out \in States /\ Fine(out.mq, out.th) /\ Housed(out.mq, out.port, as)
            /\ out.port[p].pset = NoPset
        BY <1>4 DEF Effect
      <3>3. Effect(out, r, p, ns, as)
        BY <1>2, <3>1, <3>2, PsetAddIs
      <3> QED BY <1>4, <3>3 DEF Effect, SameCounts
    <2> QED BY <2>1, <2>2
  <1>8. \A z \in Ports : /\ r.port[z].active = port[z].active
                         /\ r.port[z].msgcount = port[z].msgcount
                         /\ r.port[z].qlimit = port[z].qlimit
    BY <1>2, <1>7 DEF SameCounts
  <1>9. active_set' \subseteq Psets /\ Housed(r.mq, r.port, active_set')
    BY <1>3, <1>6, <1>7 DEF Base, Types
  <1> QED BY <1>6, <1>7, <1>8, <1>9, QueueStep

LEMMA StepPsetDestroy ==
    ASSUME Base, NEW ps \in Psets, PsetDestroy(ps)
    PROVE  Base'
  <1>1. PICK s : s = State
    OBVIOUS
  <1>2. /\ Settled /\ s \in States /\ Fine(s.mq, s.th) /\ Housed(s.mq, s.port, active_set)
        /\ s.mq = mq /\ s.th = th /\ s.port = port
    BY <1>1, QueuesReached
  <1>3. PICK state : state = "PORT_DIED"
    OBVIOUS
  <1>4. PICK r : r = Changed(s, ps, state)
    OBVIOUS
  <1>5. /\ mq' = r.mq /\ th' = r.th /\ port' = r.port /\ active_set' = active_set \ {ps}
        /\ UNCHANGED <<blocked, pc, call, dest, free, panicked>>
    BY <1>1, <1>3, <1>4 DEF PsetDestroy, Apply
  <1>6. ps \in Queues /\ Ports \subseteq Queues /\ Psets \subseteq Queues
    BY DEF Queues
  <1>7. /\ r \in States /\ Fine(r.mq, r.th) /\ r.port = s.port
        /\ r.mq[ps].kmsgs = s.mq[ps].kmsgs /\ r.mq[ps].waiters = <<>>
        /\ \A z \in Queues \ {ps} : r.mq[z] = s.mq[z]
    BY <1>2, <1>3, <1>4, <1>6, ChangedFine
  <1>8. Housed(r.mq, r.port, active_set')
    <2>1. PICK q, q2, po, as, as2 : q = s.mq /\ q2 = r.mq /\ po = s.port /\ as = active_set /\ as2 = active_set'
      OBVIOUS
    <2>2. \A z \in Queues : /\ q2[z].kmsgs = q[z].kmsgs
                            /\ q2[z].waiters = q[z].waiters \/ q2[z].waiters = <<>>
                            /\ z = ps => q2[z].waiters = <<>>
      BY <1>7, <2>1
    <2>3. Housed(q, po, as) /\ as2 = as \ {ps}
      BY <1>2, <1>5, <2>1
    <2>4. Housed(q2, po, as2)
      BY <1>6, <2>2, <2>3 DEF Housed
    <2> QED BY <1>7, <2>1, <2>4
  <1>9. active_set' \subseteq Psets
    BY <1>5 DEF Base, Types
  <1>10. \A z \in Ports : r.port[z] = port[z]
    BY <1>2, <1>7
  <1> QED BY <1>5, <1>7, <1>8, <1>9, <1>10, QueueStep

LEMMA StepCopyinReceiveRight ==
    ASSUME Base, NEW p \in Ports, CopyinReceiveRight(p)
    PROVE  Base'
  <1>1. PICK s : s = State
    OBVIOUS
  <1>2. /\ Settled /\ s \in States /\ Fine(s.mq, s.th) /\ Housed(s.mq, s.port, active_set)
        /\ s.mq = mq /\ s.th = th /\ s.port = port
    BY <1>1, QueuesReached
  <1>3. PICK s2, as : s2 = ClearReceiver(p) /\ as = active_set
    OBVIOUS
  <1>4. Effect(s, s2, p, NoPset, as) /\ s2.mq[p].waiters = <<>>
    BY <1>1, <1>2, <1>3, ClearReceiverIs
  <1>5. PICK g : g = [s2.port[p] EXCEPT !.owned = FALSE]
    OBVIOUS
  <1>6. s2 \in States /\ s2.port[p] \in PortRecords
    BY <1>4 DEF Effect, States
  <1>7. /\ g \in PortRecords /\ g.active = s2.port[p].active /\ g.msgcount = s2.port[p].msgcount
        /\ g.qlimit = s2.port[p].qlimit /\ g.pset = s2.port[p].pset
    BY <1>5, <1>6 DEF PortRecords
  <1>8. PICK r : r = [s2 EXCEPT !.port[p] = g]
    OBVIOUS
  <1>9. r = [s2 EXCEPT !.port[p].owned = FALSE]
    BY <1>5, <1>8
  <1>10. /\ mq' = r.mq /\ th' = r.th /\ port' = r.port
         /\ UNCHANGED <<blocked, active_set, pc, call, dest, free, panicked>>
    BY <1>3, <1>9 DEF CopyinReceiveRight, ChangeTo, Apply
  <1>11. /\ r \in States /\ r.mq = s2.mq /\ r.th = s2.th
         /\ r.port[p] = g /\ \A z \in Ports \ {p} : r.port[z] = s2.port[z]
    BY <1>6, <1>7, <1>8, PortSet DEF PutPort
  <1>12. \A z \in Ports : /\ r.port[z].active = port[z].active
                          /\ r.port[z].msgcount = port[z].msgcount
                          /\ r.port[z].qlimit = port[z].qlimit
    BY <1>2, <1>4, <1>7, <1>11 DEF Effect, SameCounts
  <1>13. Fine(r.mq, r.th)
    BY <1>4, <1>11 DEF Effect
  <1>14. Housed(r.mq, r.port, active_set')
    <2>1. PICK q, po, po2 : q = s2.mq /\ po = s2.port /\ po2 = r.port
      OBVIOUS
    <2>2. Housed(q, po, as) /\ q[p].waiters = <<>>
      BY <1>4, <2>1 DEF Effect
    <2>3. \A z \in Ports : po2[z].pset = po[z].pset /\ (z # p => po2[z] = po[z])
      BY <1>7, <1>11, <2>1
    <2>4. \A z \in Ports : Home(po2, z) = Home(po, z)
      BY <2>3 DEF Home
    <2>5. Housed(q, po2, as)
      BY <2>2, <2>3, <2>4 DEF Housed
    <2> QED BY <1>3, <1>10, <1>11, <2>1, <2>5
  <1>15. active_set' \subseteq Psets
    BY <1>10 DEF Base, Types
  <1> QED BY <1>10, <1>11, <1>12, <1>13, <1>14, <1>15, QueueStep

LEMMA StepCopyoutReceiveRight ==
    ASSUME Base, NEW p \in Ports, CopyoutReceiveRight(p)
    PROVE  Base'
  <1>1. PICK s : s = State
    OBVIOUS
  <1>2. /\ Settled /\ s \in States /\ Fine(s.mq, s.th) /\ Housed(s.mq, s.port, active_set)
        /\ s.mq = mq /\ s.th = th /\ s.port = port
    BY <1>1, QueuesReached
  <1>3. PICK g : g = [s.port[p] EXCEPT !.owned = TRUE]
    OBVIOUS
  <1>4. s.port[p] \in PortRecords
    BY <1>2 DEF States
  <1>5. /\ g \in PortRecords /\ g.active = s.port[p].active /\ g.msgcount = s.port[p].msgcount
        /\ g.qlimit = s.port[p].qlimit /\ g.pset = s.port[p].pset /\ g.owned
    BY <1>3, <1>4 DEF PortRecords
  <1>6. PICK r : r = [s EXCEPT !.port[p] = g]
    OBVIOUS
  <1>7. r = [s EXCEPT !.port[p].owned = TRUE]
    BY <1>3, <1>6
  <1>8. /\ mq' = r.mq /\ th' = r.th /\ port' = r.port
        /\ UNCHANGED <<blocked, active_set, pc, call, dest, free, panicked>>
    BY <1>1, <1>7 DEF CopyoutReceiveRight, ChangeTo, Apply
  <1>9. /\ r \in States /\ r.mq = s.mq /\ r.th = s.th
        /\ r.port[p] = g /\ \A z \in Ports \ {p} : r.port[z] = s.port[z]
    <2>1. s \in States /\ g \in PortRecords /\ p \in Ports
      BY <1>2, <1>5
    <2>2. PutPort(s, r, p, g)
      BY ONLY <1>6, <2>1, PortSet
    <2> QED BY <2>2 DEF PutPort
  <1>10. \A z \in Ports : /\ r.port[z].active = port[z].active
                          /\ r.port[z].msgcount = port[z].msgcount
                          /\ r.port[z].qlimit = port[z].qlimit
    BY <1>2, <1>5, <1>9
  <1>11. Fine(r.mq, r.th)
    BY <1>2, <1>9
  <1>12. Housed(r.mq, r.port, active_set')
    <2>1. PICK q, po, po2, as : q = s.mq /\ po = s.port /\ po2 = r.port /\ as = active_set
      OBVIOUS
    <2>2. Housed(q, po, as)
      BY <1>2, <2>1
    <2>3. \A z \in Ports : po2[z].pset = po[z].pset /\ (po[z].owned => po2[z].owned)
      BY <1>5, <1>9, <2>1
    <2>4. \A z \in Ports : Home(po2, z) = Home(po, z)
      BY <2>3 DEF Home
    <2>5. Housed(q, po2, as)
      BY <2>2, <2>3, <2>4 DEF Housed
    <2> QED BY <1>8, <1>9, <2>1, <2>5
  <1>13. active_set' \subseteq Psets
    BY <1>8 DEF Base, Types
  <1> QED BY <1>8, <1>9, <1>10, <1>11, <1>12, <1>13, QueueStep

-----------------------------------------------------------------------------
(* Steps that wake senders, or end one wait.                               *)

LEMMA FirstOf ==
    ASSUME NEW S, NEW s \in Seq(S), IsInjective(s), NEW n \in 0..Len(s)
    PROVE  LET f == SubSeq(s, 1, n)
               r == SubSeq(s, n + 1, Len(s)) IN
           /\ IsFiniteSet(Range(f)) /\ Cardinality(Range(f)) = n /\ Range(f) \subseteq Range(s)
           /\ r \in Seq(S) /\ IsInjective(r) /\ Range(r) = Range(s) \ Range(f)
           /\ r # <<>> => n < Len(s)
  <1> DEFINE Upto(k) == {s[i] : i \in 1..k}
             T == {k \in 0..n : IsFiniteSet(Upto(k)) /\ Cardinality(Upto(k)) = k}
  <1>1. Len(s) \in Nat /\ n \in Nat /\ n <= Len(s) /\ DOMAIN s = 1..Len(s)
    OBVIOUS
  <1>2. 0 \in T
    <2>1. Upto(0) = {}
      OBVIOUS
    <2> HIDE DEF Upto
    <2>2. IsFiniteSet(Upto(0)) /\ Cardinality(Upto(0)) = 0
      BY <2>1, FS_EmptySet
    <2> QED BY <1>1, <2>2
  <1>3. ASSUME NEW k \in 1..n, k - 1 \in T
        PROVE  k \in T
    <2>1. \A i \in 1..k : i = k \/ i \in 1..(k - 1)
      BY <1>1
    <2>2. \A i \in 1..(k - 1) : i \in 1..k /\ s[i] /= s[k]
      BY <1>1 DEF IsInjective
    <2>3. k \in 1..k /\ k \in 0..n /\ (k - 1) + 1 = k
      BY <1>1
    <2>4. Upto(k) = Upto(k - 1) \cup {s[k]}
      BY <2>1, <2>2, <2>3
    <2>5. s[k] \notin Upto(k - 1)
      BY <2>2
    <2>6. IsFiniteSet(Upto(k - 1)) /\ Cardinality(Upto(k - 1)) = k - 1
      BY <1>3
    <2> HIDE DEF Upto
    <2>7. IsFiniteSet(Upto(k)) /\ Cardinality(Upto(k)) = (k - 1) + 1
      <3>1. PICK U, x : U = Upto(k - 1) /\ x = s[k]
        OBVIOUS
      <3>2. IsFiniteSet(U) /\ x \notin U /\ Cardinality(U) = k - 1
        BY <2>5, <2>6, <3>1
      <3>3. IsFiniteSet(U \cup {x}) /\ Cardinality(U \cup {x}) = Cardinality(U) + 1
        BY <3>2, FS_AddElement
      <3> QED BY <2>4, <3>1, <3>2, <3>3
    <2> QED BY <2>3, <2>7
  <1>4. n \in T
    <2> HIDE DEF T
    <2>1. \A i \in 1..n : i - 1 \in T => i \in T
      BY <1>3
    <2>2. \A i \in 0..n : i \in T
      BY ONLY <1>1, <1>2, <2>1, Induction
    <2> QED BY <1>1, <2>2
  <1> DEFINE f == SubSeq(s, 1, n)
             r == SubSeq(s, n + 1, Len(s))
  <1>5. Range(f) = Upto(n)
    <2>1. DOMAIN f = 1..n /\ \A i \in 1..n : f[i] = s[i]
      BY <1>1
    <2> HIDE DEF f
    <2> QED BY <2>1 DEF Range
  <1>6. /\ Range(f) \subseteq Range(s)
        /\ r \in Seq(S) /\ IsInjective(r) /\ Range(r) = Range(s) \ Range(f)
    <2>1. CASE n = 0
      <3>1. r = s
        BY <1>1, <2>1
      <3>2. Range(f) = {}
        BY <1>5, <2>1
      <3> QED BY <3>1, <3>2
    <2>2. CASE n \in 1..Len(s)
      BY <2>2, Parted
    <2> QED BY <1>1, <2>1, <2>2
  <1>7. r # <<>> => n < Len(s)
    BY <1>1
  <1> HIDE DEF Upto, f, r
  <1>8. IsFiniteSet(Range(f)) /\ Cardinality(Range(f)) = n
    BY <1>4, <1>5
  <1> QED BY <1>6, <1>7, <1>8 DEF f, r

\* The threads and lists after senders of p have been woken.
Roused(q, k, k2, bl, V) ==
    /\ k2 \in [Threads -> ThreadRecords]
    /\ \A t \in Threads : Order(t, k2[t], pc[t], call[t]) /\ Listed(t, k2[t], call[t], bl, q)
    /\ \A t \in Threads \ V : k2[t] = k[t]
    /\ Awake(k2, pc, call)
    /\ Load(k2, pc, call) = Load(k, pc, call)

LEMMA RousedFine ==
    ASSUME Settled, NEW q, NEW k, Fine(q, k), NEW p \in Ports, NEW V, V \subseteq Range(blocked[p]),
           NEW state, state = "SUCCESS", NEW k2, k2 = Wake(k, V, state),
           NEW bl, Range(bl[p]) = Range(blocked[p]) \ V, \A z \in Ports \ {p} : bl[z] = blocked[z]
    PROVE  /\ Roused(q, k, k2, bl, V)
           /\ \A t \in V : t \in Threads /\ pc[t] = "send_block" /\ call[t].queue = p
                           /\ k[t].state = "SEND_IN_PROGRESS"
  <1>1. V \subseteq Threads
    <2>1. blocked[p] \in Seq(Senders)
      BY DEF Settled
    <2>2. Range(blocked[p]) \subseteq Senders
      BY <2>1 DEF Range
    <2> QED BY <2>2, MessageQueueAssumption
  <1>2. k \in [Threads -> ThreadRecords] /\ state \in IthStates
    BY DEF Fine, IthStates
  <1>3. /\ k2 \in [Threads -> ThreadRecords]
        /\ \A t \in Threads \ V : k2[t] = k[t]
        /\ \A t \in Threads \cap V : k2[t].state = state /\ k2[t].kmsg = k[t].kmsg /\ ~k2[t].waiting
    BY <1>2, WakeIs
  <1>4. \A t \in Threads : Order(t, k[t], pc[t], call[t]) /\ Listed(t, k[t], call[t], blocked, q)
    BY DEF Fine
  <1>5. \A t \in V : /\ t \in Threads /\ pc[t] = "send_block" /\ call[t].queue = p
                     /\ k[t].state = "SEND_IN_PROGRESS"
    <2> SUFFICES ASSUME NEW t \in V
                 PROVE  /\ t \in Threads /\ pc[t] = "send_block" /\ call[t].queue = p
                        /\ k[t].state = "SEND_IN_PROGRESS"
      OBVIOUS
    <2>1. t \in Threads /\ t \in Range(blocked[p])
      BY <1>1
    <2>2. k[t].state = "SEND_IN_PROGRESS" /\ call[t].queue = p
      BY <1>4, <2>1 DEF Listed
    <2> QED BY <1>4, <2>1, <2>2 DEF Order, Settled
  <1>6. ASSUME NEW t \in Threads
        PROVE  Order(t, k2[t], pc[t], call[t]) /\ Listed(t, k2[t], call[t], bl, q)
    <2>1. CASE t \in V
      <3>1. PICK h, g : h = k2[t] /\ g = k[t]
        OBVIOUS
      <3>2. h.state = "SUCCESS" /\ h.kmsg = g.kmsg /\ g.state = "SEND_IN_PROGRESS"
            /\ pc[t] = "send_block" /\ call[t].queue = p
        BY <1>3, <1>5, <2>1, <3>1
      <3>3. Order(t, g, pc[t], call[t]) /\ Listed(t, g, call[t], blocked, q)
        BY <1>4, <3>1
      <3>4. Order(t, h, pc[t], call[t])
        BY <3>2, <3>3 DEF Order
      <3>5. \A z \in Ports : t \notin Range(bl[z])
        BY <2>1, <3>2, <3>3 DEF Listed
      <3>6. Listed(t, h, call[t], bl, q)
        BY <3>2, <3>3, <3>5 DEF Listed
      <3> QED BY <3>1, <3>4, <3>6
    <2>2. CASE t \notin V
      <3>1. k2[t] = k[t] /\ \A z \in Ports : t \in Range(bl[z]) <=> t \in Range(blocked[z])
        BY <1>3, <2>2
      <3> QED BY <1>4, <3>1 DEF Listed
    <2> QED BY <2>1, <2>2
  <1>7. Awake(k2, pc, call)
    BY <1>1, <1>3 DEF Fine, Awake
  <1>8. \A t \in Threads : k2[t].kmsg = k[t].kmsg
    BY <1>3
  <1>9. Load(k2, pc, call) = Load(k, pc, call)
    BY <1>8 DEF Load
  <1> QED BY <1>3, <1>5, <1>6, <1>7, <1>9 DEF Roused

LEMMA StepEndWait ==
    ASSUME Base, NEW t \in Threads, NEW result \in {"TIMED_OUT", "INTERRUPTED"}, EndWait(t, result)
    PROVE  Base'
  <1>1. PICK g : g = [th[t] EXCEPT !.waiting = FALSE, !.timer = FALSE, !.wait_result = result]
    OBVIOUS
  <1>2. th \in [Threads -> ThreadRecords] /\ th[t] \in ThreadRecords
    BY DEF Base, Fine
  <1>3. g \in ThreadRecords /\ g.state = th[t].state /\ g.kmsg = th[t].kmsg /\ ~g.waiting
    BY <1>1, <1>2 DEF ThreadRecords
  <1>4. th' = [th EXCEPT ![t] = g]
    BY <1>1, <1>2 DEF EndWait
  <1>5. UNCHANGED <<port, blocked, active_set, mq, pc, call, dest, free, panicked>>
    BY DEF EndWait
  <1>6. /\ th' \in [Threads -> ThreadRecords]
        /\ \A u \in Threads : /\ th'[u].state = th[u].state /\ th'[u].kmsg = th[u].kmsg
                              /\ th'[u].waiting => th[u].waiting
    BY <1>2, <1>3, <1>4
  <1>7. Fine(mq, th)'
    <2>1. \A u \in Threads : Order(u, th'[u], pc[u], call[u]) /\ Listed(u, th'[u], call[u], blocked, mq)
      <3>1. \A u \in Threads : Order(u, th[u], pc[u], call[u]) /\ Listed(u, th[u], call[u], blocked, mq)
        BY DEF Base, Fine
      <3> QED BY <1>6, <3>1 DEF Order, Listed
    <2>2. Awake(th', pc, call)
      BY <1>6 DEF Base, Fine, Awake
    <2>3. Load(th', pc, call) = Load(th, pc, call)
      BY <1>6 DEF Load
    <2> QED BY <1>5, <1>6, <2>1, <2>2, <2>3 DEF Base, Fine
  <1>8. Types' /\ Housed(mq, port, active_set)' /\ (\A m \in Messages \ free : dest[m] \in Ports)'
    BY <1>5 DEF Base, Types, Settled, Housed
  <1>9. CountsExact' /\ SlotsPromised'
    <2>1. \A p \in Ports : Counted(p)' = Counted(p) /\ Promised(p)' = Promised(p)
      BY <1>5 DEF Counted, Promised
    <2> QED BY <1>5, <2>1 DEF Base, CountsExact, SlotsPromised
  <1> QED BY <1>7, <1>8, <1>9 DEF Base

LEMMA StepSetQlimit ==
    ASSUME Base, NEW p \in Ports, NEW qlimit \in 0..MaxQlimit, SetQlimit(p, qlimit)
    PROVE  Base'
  <1>1. PICK s, more, n : /\ s = blocked[p]
                          /\ more = IF qlimit > port[p].qlimit THEN qlimit - port[p].qlimit ELSE 0
                          /\ n = IF more < Len(s) THEN more ELSE Len(s)
    OBVIOUS
  <1>2. /\ s \in Seq(Senders) /\ IsInjective(s) /\ port \in [Ports -> PortRecords] /\ port[p] \in PortRecords
        /\ blocked \in [Ports -> Seq(Senders)]
    BY <1>1 DEF Base, Types, Settled
  <1>3. port[p].qlimit \in Nat /\ qlimit \in Nat /\ Len(s) \in Nat /\ port[p].msgcount \in Nat
    BY <1>2, MessageQueueAssumption, FS_CardinalityType DEF PortRecords
  <1>4. more \in Nat /\ n \in 0..Len(s) /\ qlimit <= port[p].qlimit + more /\ (n < Len(s) => n = more)
    BY <1>1, <1>3
  <1>5. PICK f, r, V : f = SubSeq(s, 1, n) /\ r = SubSeq(s, n + 1, Len(s)) /\ V = Range(f)
    OBVIOUS
  <1>6. /\ IsFiniteSet(V) /\ Cardinality(V) = n /\ V \subseteq Range(s)
        /\ r \in Seq(Senders) /\ IsInjective(r) /\ Range(r) = Range(s) \ V
        /\ r # <<>> => n < Len(s)
    BY <1>2, <1>4, <1>5, FirstOf
  <1>7. /\ th' = Wake(th, V, "SUCCESS")
        /\ blocked' = [blocked EXCEPT ![p] = r]
        /\ port' = [port EXCEPT ![p].qlimit = qlimit]
        /\ UNCHANGED <<active_set, mq, pc, call, dest, free, panicked>>
    BY <1>1, <1>5 DEF SetQlimit
  <1>8. PICK state, q, k, k2, bl : state = "SUCCESS" /\ q = mq /\ k = th /\ k2 = th' /\ bl = blocked'
    OBVIOUS
  <1>9. /\ Roused(q, k, k2, bl, V)
        /\ \A t \in V : t \in Threads /\ pc[t] = "send_block" /\ call[t].queue = p
                        /\ k[t].state = "SEND_IN_PROGRESS"
    <2>1. Settled /\ Fine(q, k)
      BY <1>8 DEF Base, Types
    <2>2. V \subseteq Range(blocked[p]) /\ k2 = Wake(k, V, state)
      BY <1>1, <1>6, <1>7, <1>8
    <2>3. Range(bl[p]) = Range(blocked[p]) \ V /\ \A z \in Ports \ {p} : bl[z] = blocked[z]
      BY <1>1, <1>2, <1>6, <1>7, <1>8
    <2> QED BY <1>8, <2>1, <2>2, <2>3, RousedFine
  <1>10. Fine(mq, th)'
    BY <1>7, <1>8, <1>9 DEF Base, Fine, Roused
  <1>11. PICK g : g = [port[p] EXCEPT !.qlimit = qlimit]
    OBVIOUS
  <1>12. /\ g \in PortRecords /\ g.active = port[p].active /\ g.owned = port[p].owned
         /\ g.msgcount = port[p].msgcount /\ g.pset = port[p].pset /\ g.qlimit = qlimit
    BY <1>2, <1>11 DEF PortRecords
  <1>13. /\ port' \in [Ports -> PortRecords] /\ port'[p] = g
         /\ \A z \in Ports \ {p} : port'[z] = port[z]
    BY <1>2, <1>7, <1>11, <1>12
  <1>14. /\ blocked' \in [Ports -> Seq(Senders)] /\ blocked'[p] = r
         /\ \A z \in Ports \ {p} : blocked'[z] = blocked[z]
    BY <1>2, <1>6, <1>7
  <1>15. Types'
    BY <1>6, <1>7, <1>13, <1>14 DEF Base, Types, Settled
  <1>16. Housed(mq, port, active_set)' /\ (\A m \in Messages \ free : dest[m] \in Ports)'
    <2>1. \A z \in Ports : Home(port', z) = Home(port, z) /\ port'[z].owned = port[z].owned
                           /\ port'[z].pset = port[z].pset
      BY <1>12, <1>13 DEF Home
    <2> QED BY <1>7, <2>1 DEF Base, Housed
  <1>17. CountsExact'
    <2>1. \A z \in Ports : Counted(z)' = Counted(z)
      BY <1>7 DEF Counted
    <2>2. \A z \in Ports : port'[z].active = port[z].active /\ port'[z].msgcount = port[z].msgcount
      BY <1>12, <1>13
    <2> QED BY <2>1, <2>2 DEF Base, CountsExact
  <1>18. SlotsPromised'
    <2> SUFFICES ASSUME NEW z \in Ports, port'[z].active, blocked'[z] # <<>>
                 PROVE  port'[z].qlimit <= port'[z].msgcount + Cardinality(Promised(z)')
      BY DEF SlotsPromised
    <2>1. CASE z # p
      <3>1. Promised(z)' = Promised(z)
        BY <1>7, <1>14, <2>1 DEF Promised
      <3> QED BY <1>13, <1>14, <2>1, <3>1 DEF Base, SlotsPromised
    <2>2. CASE z = p
      <3>1. n = more /\ s # <<>>
        BY <1>4, <1>6, <1>14, <2>2, <1>3
      <3>2. port[p].qlimit <= port[p].msgcount + Cardinality(Promised(p))
        BY <1>1, <1>12, <1>13, <2>2, <3>1 DEF Base, SlotsPromised
      <3>3. Promised(p)' = Promised(p) \cup V /\ Promised(p) \cap V = {}
        BY <1>1, <1>6, <1>7, <1>9, <1>14 DEF Promised
      <3>4. IsFiniteSet(Promised(p)) /\ Cardinality(Promised(p)) \in Nat
        <4>1. Promised(p) \subseteq Threads
          BY DEF Promised
        <4> QED BY <4>1, MessageQueueAssumption, FS_Subset, FS_CardinalityType
      <3>5. Cardinality(Promised(p)') = Cardinality(Promised(p)) + n
        <4>1. PICK A : A = Promised(p)
          OBVIOUS
        <4>2. IsFiniteSet(A) /\ IsFiniteSet(V) /\ A \cap V = {}
          BY <1>6, <3>3, <3>4, <4>1
        <4>3. Cardinality(A \cup V) = Cardinality(A) + Cardinality(V) - Cardinality(A \cap V)
          BY <4>2, FS_Union
        <4>4. Cardinality(A \cap V) = 0
          BY <4>2, FS_EmptySet
        <4>5. Cardinality(A) \in Nat /\ Cardinality(V) = n /\ n \in Nat
          BY <1>4, <1>6, <3>4, <4>1
        <4>6. Cardinality(A \cup V) = Cardinality(A) + n
          BY <4>3, <4>4, <4>5
        <4> QED BY <3>3, <4>1, <4>6
      <3> QED BY <1>3, <1>4, <1>12, <1>13, <2>2, <3>1, <3>2, <3>4, <3>5
    <2> QED BY <2>1, <2>2
  <1> QED BY <1>10, <1>15, <1>16, <1>17, <1>18 DEF Base

LEMMA StepPortDestroy ==
    ASSUME Base, NEW p \in Ports, PortDestroy(p)
    PROVE  Base'
  <1>1. PICK s, as : s = State /\ as = active_set
    OBVIOUS
  <1>2. /\ Settled /\ s \in States /\ Fine(s.mq, s.th) /\ Housed(s.mq, s.port, as)
        /\ s.mq = mq /\ s.th = th /\ s.port = port
    BY <1>1, QueuesReached
  <1>3. PICK s2 : s2 = IF port[p].owned THEN ClearReceiver(p) ELSE State
    OBVIOUS
  <1>4. /\ s2 \in States /\ Fine(s2.mq, s2.th) /\ Housed(s2.mq, s2.port, as)
        /\ \A z \in Ports : SameCounts(s2.port[z], port[z])
        /\ s2.mq[p].waiters = <<>>
    <2>1. CASE port[p].owned
      <3>1. s2 = ClearReceiver(p)
        BY <1>3, <2>1
      <3>2. Effect(s, s2, p, NoPset, as) /\ s2.mq[p].waiters = <<>>
        BY <1>1, <1>2, <3>1, ClearReceiverIs
      <3> QED BY <1>2, <3>2 DEF Effect
    <2>2. CASE ~port[p].owned
      <3>1. s2 = s
        BY <1>1, <1>3, <2>2
      <3>2. s2.mq[p].waiters = <<>>
        BY <1>2, <2>2, <3>1 DEF Housed
      <3> QED BY <1>2, <3>1, <3>2 DEF SameCounts
    <2> QED BY <2>1, <2>2
  <1>5. PICK q, k, po, V, state : /\ q = s2.mq /\ k = s2.th /\ po = s2.port
                                  /\ V = Range(blocked[p]) /\ state = "SUCCESS"
    OBVIOUS
  <1>6. /\ s2 = [mq |-> q, th |-> k, port |-> po] /\ q \in [Queues -> QueueRecords]
        /\ k \in [Threads -> ThreadRecords] /\ po \in [Ports -> PortRecords] /\ po[p] \in PortRecords
    BY <1>4, <1>5 DEF States
  <1>7. PICK g : g = [po[p] EXCEPT !.active = FALSE, !.owned = FALSE]
    OBVIOUS
  <1>8. /\ g \in PortRecords /\ ~g.active /\ g.pset = po[p].pset /\ g.msgcount = po[p].msgcount
        /\ g.qlimit = po[p].qlimit
    BY <1>6, <1>7 DEF PortRecords
  <1>9. PICK k2 : k2 = Wake(k, V, state)
    OBVIOUS
  <1>10. /\ mq' = q /\ th' = k2 /\ port' = [po EXCEPT ![p] = g]
         /\ blocked' = [blocked EXCEPT ![p] = <<>>]
         /\ UNCHANGED <<active_set, pc, call, dest, free, panicked>>
    <2>1. PICK r : r = [s2 EXCEPT !.port[p].active = FALSE, !.port[p].owned = FALSE,
                                  !.th = Rouse(s2.th, p)]
      OBVIOUS
    <2>2. Rouse(s2.th, p) = k2
      BY <1>5, <1>9 DEF Rouse
    <2>3. r = [mq |-> q, th |-> k2, port |-> [po EXCEPT ![p] = g]]
      BY <1>6, <1>7, <2>1, <2>2
    <2>4. Apply(r) /\ blocked' = [blocked EXCEPT ![p] = <<>>]
          /\ UNCHANGED <<active_set, pc, call, dest, free, panicked>>
      BY <1>3, <2>1 DEF PortDestroy
    <2> QED BY <2>3, <2>4 DEF Apply
  <1>11. PICK bl : bl = blocked'
    OBVIOUS
  <1>12. /\ bl \in [Ports -> Seq(Senders)] /\ bl[p] = <<>> /\ \A z \in Ports \ {p} : bl[z] = blocked[z]
    BY <1>2, <1>10, <1>11 DEF Settled
  <1>13. Roused(q, k, k2, bl, V)
    <2>1. Fine(q, k) /\ V \subseteq Range(blocked[p]) /\ Range(bl[p]) = Range(blocked[p]) \ V
      BY <1>4, <1>5, <1>12, Nobody
    <2> QED BY <1>2, <1>5, <1>9, <1>12, <2>1, RousedFine
  <1>14. Fine(mq, th)'
    <2>1. QueuesOK(q) /\ Apart(InQueues(q), Load(k, pc, call), free)
      BY <1>4, <1>5 DEF Fine
    <2> QED BY <1>10, <1>11, <1>13, <2>1 DEF Fine, Roused
  <1>15. PICK po2 : po2 = port'
    OBVIOUS
  <1>16. /\ po2 \in [Ports -> PortRecords] /\ po2[p] = g
         /\ \A z \in Ports \ {p} : po2[z] = po[z]
    BY <1>6, <1>8, <1>10, <1>15
  <1>17. Types'
    BY <1>10, <1>11, <1>12, <1>15, <1>16, Nobody DEF Base, Types, Settled
  <1>18. Housed(mq, port, active_set)'
    <2>1. Housed(q, po, as) /\ q[p].waiters = <<>>
      BY <1>4, <1>5
    <2>2. \A z \in Ports : Home(po2, z) = Home(po, z)
      BY <1>8, <1>16 DEF Home
    <2>3. Housed(q, po2, as)
      BY <1>16, <2>1, <2>2 DEF Housed
    <2> QED BY <1>1, <1>10, <1>15, <2>3 DEF Housed
  <1>19. CountsExact'
    <2>1. \A z \in Ports : Counted(z)' = Counted(z)
      BY <1>10 DEF Counted
    <2>2. \A z \in Ports : po2[z].active => /\ z # p /\ port[z].active
                                            /\ po2[z].msgcount = port[z].msgcount
      BY <1>4, <1>5, <1>8, <1>16 DEF SameCounts
    <2> QED BY <1>15, <2>1, <2>2 DEF Base, CountsExact
  <1>20. SlotsPromised'
    <2> SUFFICES ASSUME NEW z \in Ports, po2[z].active, bl[z] # <<>>
                 PROVE  po2[z].qlimit <= po2[z].msgcount + Cardinality(Promised(z)')
      BY <1>11, <1>15 DEF SlotsPromised
    <2>1. /\ z # p /\ port[z].active /\ po2[z].qlimit = port[z].qlimit
          /\ po2[z].msgcount = port[z].msgcount /\ blocked[z] # <<>> /\ blocked'[z] = blocked[z]
      BY <1>4, <1>5, <1>8, <1>11, <1>12, <1>16 DEF SameCounts
    <2>2. Promised(z)' = Promised(z)
      BY <1>10, <2>1 DEF Promised
    <2> QED BY <2>1, <2>2 DEF Base, SlotsPromised
  <1>21. (\A m \in Messages \ free : dest[m] \in Ports)'
    BY <1>10 DEF Base
  <1> QED BY <1>14, <1>17, <1>18, <1>19, <1>20, <1>21 DEF Base

LEMMA StepDestroyQueued ==
    ASSUME Base, NEW p \in Ports, DestroyQueued(p)
    PROVE  Base'
  <1>1. PICK m, u : u = mq[p].kmsgs /\ m = Head(u)
    OBVIOUS
  <1>2. /\ ~port[p].active /\ u # <<>>
        /\ mq' = [mq EXCEPT ![p].kmsgs = Tail(@)]
        /\ free' = free \cup {m} /\ dest' = [dest EXCEPT ![m] = NoPort]
        /\ UNCHANGED <<port, blocked, active_set, th, pc, call, panicked>>
    BY <1>1 DEF DestroyQueued, Release
  <1>3. PICK q : q = mq
    OBVIOUS
  <1>4. /\ Settled /\ Fine(q, th) /\ QueuesOK(q) /\ p \in Queues /\ q \in [Queues -> QueueRecords]
        /\ dest \in [Messages -> Ports \cup {NoPort}]
    BY <1>3 DEF Base, Types, Fine, QueuesOK, Queues
  <1>5. /\ u \in Seq(Messages) /\ Range(u) \subseteq Messages /\ IsInjective(u)
        /\ q[p] = [kmsgs |-> u, waiters |-> q[p].waiters]
    BY <1>1, <1>3, <1>4, RangesIn
  <1>6. /\ m \in Messages /\ Tail(u) \in Seq(Messages) /\ m \in Range(u)
        /\ Range(Tail(u)) = Range(u) \ {m} /\ IsInjective(Tail(u))
    BY <1>1, <1>2, <1>5, Headed
  <1>7. PICK w, g : w = Tail(u) /\ g = [kmsgs |-> w, waiters |-> q[p].waiters]
    OBVIOUS
  <1>8. g \in QueueRecords /\ g.kmsgs = w /\ g.waiters = q[p].waiters
    <2>1. q[p] \in QueueRecords
      BY <1>4
    <2> QED BY <1>6, <1>7, <2>1 DEF QueueRecords
  <1>9. PICK q2 : q2 = mq'
    OBVIOUS
  <1>10. q2 = [q EXCEPT ![p] = g]
    <2>1. [q[p] EXCEPT !.kmsgs = Tail(q[p].kmsgs)] = g
      <3>1. PICK e, ws : e = q[p] /\ ws = e.waiters
        OBVIOUS
      <3>2. e = [kmsgs |-> u, waiters |-> ws] /\ g = [kmsgs |-> w, waiters |-> ws]
        BY <1>5, <1>7, <3>1
      <3>3. [e EXCEPT !.kmsgs = w] = g
        BY <3>2
      <3>4. Tail(q[p].kmsgs) = w
        BY <1>1, <1>3, <1>7
      <3> QED BY <3>1, <3>3, <3>4
    <2> QED BY <1>2, <1>3, <1>9, <2>1
  <1>11. q2 \in [Queues -> QueueRecords] /\ q2[p] = g /\ \A z \in Queues \ {p} : q2[z] = q[z]
    BY <1>4, <1>8, <1>10
  <1>12. \A z \in Queues : /\ Range(q2[z].kmsgs) = Range(q[z].kmsgs) \ {m}
                           /\ q2[z].waiters = q[z].waiters
    <2>1. \A z \in Queues \ {p} : m \notin Range(q[z].kmsgs)
      BY <1>1, <1>3, <1>4, <1>6 DEF QueuesOK
    <2> QED BY <1>1, <1>3, <1>6, <1>7, <1>8, <1>11, <2>1
  <1>13. QueuesOK(q2)
    <2>1. \A z \in Queues : q2[z].waiters # <<>> => q2[z].kmsgs = <<>>
      <3>1. q[p].waiters = <<>>
        BY <1>1, <1>2, <1>3, <1>4 DEF QueuesOK
      <3> QED BY <1>4, <1>8, <1>11, <3>1 DEF QueuesOK
    <2>2. \A z \in Queues : IsInjective(q2[z].kmsgs) /\ IsInjective(q2[z].waiters)
      BY <1>4, <1>6, <1>7, <1>8, <1>11 DEF QueuesOK
    <2> QED BY <1>4, <1>11, <1>12, <2>1, <2>2 DEF QueuesOK
  <1>14. Fine(mq, th)'
    <2>1. PICK I, I2, car, fr, M : /\ I = InQueues(q) /\ I2 = InQueues(q2) /\ car = Load(th, pc, call)
                                   /\ fr = free /\ M = {m}
      OBVIOUS
    <2>2. Apart(I, car, fr) /\ M \subseteq I /\ M \subseteq Messages
      BY <1>1, <1>3, <1>4, <1>6, <2>1 DEF Fine, InQueues
    <2>3. Apart(I \ M, car, fr \cup M)
      BY <2>2, ApartTaken
    <2>4. I2 = I \ M
      BY <1>12, <2>1 DEF InQueues
    <2>5. \A t \in Threads : Listed(t, th[t], call[t], blocked, q2)
      BY <1>4, <1>12 DEF Fine, Listed
    <2>6. Apart(InQueues(q2), Load(th, pc, call), free \cup {m})
      BY <2>1, <2>3, <2>4
    <2> QED BY <1>2, <1>4, <1>9, <1>13, <2>5, <2>6 DEF Fine
  <1>15. /\ dest' \in [Messages -> Ports \cup {NoPort}] /\ dest'[m] = NoPort
         /\ \A x \in Messages \ {m} : dest'[x] = dest[x]
    BY <1>2, <1>4, <1>6
  <1>16. Types'
    BY <1>2, <1>6, <1>15 DEF Base, Types, Settled
  <1>17. Housed(mq, port, active_set)'
    <2>1. \A x \in Queues : \A e \in Range(q2[x].kmsgs) : e \in Range(q[x].kmsgs) /\ dest'[e] = dest[e]
      <3>1. \A x \in Queues : Range(q[x].kmsgs) \subseteq Messages
        BY <1>4, RangesIn
      <3> QED BY <1>12, <1>15, <3>1
    <2> QED BY <1>2, <1>3, <1>9, <1>12, <2>1, MessageQueueAssumption DEF Base, Housed, Queues
  <1>18. (\A x \in Messages \ free : dest[x] \in Ports)'
    BY <1>2, <1>15 DEF Base
  <1>19. dest[m] = p
    <2>1. dest[m] \in Ports /\ Home(port, dest[m]) = p
      BY <1>1, <1>4, <1>6 DEF Base, Housed
    <2>2. port[dest[m]].pset \in Psets \cup {NoPset}
      <3>1. port[dest[m]] \in PortRecords
        BY <2>1 DEF Base, Types
      <3> QED BY <3>1 DEF PortRecords
    <2> QED BY <2>1, <2>2, MessageQueueAssumption DEF Home
  <1>20. CountsExact'
    <2>1. \A z \in Ports \ {p} : Counted(z)' = Counted(z)
      BY <1>2, <1>15, <1>19, MessageQueueAssumption DEF Counted, Queues
    <2> QED BY <1>2, <2>1 DEF Base, CountsExact
  <1>21. SlotsPromised'
    <2>1. \A z \in Ports : Promised(z)' = Promised(z)
      BY <1>2 DEF Promised
    <2> QED BY <1>2, <2>1 DEF Base, SlotsPromised
  <1> QED BY <1>14, <1>16, <1>17, <1>18, <1>20, <1>21 DEF Base

-----------------------------------------------------------------------------
(* Steps of one thread.                                                    *)

\* t has nothing left: its message, or one it had not taken yet, is free.
LEMMA ApartFreed ==
    ASSUME NEW I, NEW car, NEW fr, NEW car2, NEW t \in Threads, NEW m \in Messages,
           Apart(I, car, fr), car[t] = m \/ (m \in fr /\ car[t] = NoMessage), NoMessage \notin I,
           car2[t] = NoMessage, \A u \in Threads \ {t} : car2[u] = car[u]
    PROVE  Apart(I, car2, fr \cup {m})
  <1>1. m # NoMessage /\ m \notin I
    BY MessageQueueAssumption DEF Apart
  <1>2. \A u \in Threads : car2[u] # NoMessage => u # t /\ car2[u] = car[u]
    OBVIOUS
  <1>3. \A u \in Threads \ {t} : car[u] # m
    BY <1>1 DEF Apart
  <1>4. \A x \in Messages : x # NoMessage
    BY MessageQueueAssumption
  <1>5. ASSUME NEW x \in Messages
        PROVE  x \in fr \cup {m} <=> x \notin I /\ \A u \in Threads : car2[u] # x
    <2>1. CASE x = m
      BY <1>1, <1>2, <1>3, <2>1
    <2>2. CASE x # m
      <3>1. \A u \in Threads : car2[u] = x <=> car[u] = x
        BY <1>4, <2>2
      <3>2. x \in fr <=> x \notin I /\ \A u \in Threads : car[u] # x
        BY DEF Apart
      <3> QED BY <2>2, <3>1, <3>2
    <2> QED BY <2>1, <2>2
  <1>6. \A u \in Threads : car2[u] \notin I
    BY <1>2 DEF Apart
  <1>7. \A u, v \in Threads : car2[u] = car2[v] /\ car2[u] # NoMessage => u = v
    BY <1>2 DEF Apart
  <1> QED BY <1>5, <1>6, <1>7 DEF Apart

\* t takes a free message.
LEMMA ApartHeld ==
    ASSUME NEW I, NEW car, NEW fr, NEW car2, NEW t \in Threads, NEW m \in Messages,
           Apart(I, car, fr), m \in fr, car[t] = NoMessage,
           car2[t] = m, \A u \in Threads \ {t} : car2[u] = car[u]
    PROVE  Apart(I, car2, fr \ {m})
  <1>1. m # NoMessage /\ m \notin I /\ \A u \in Threads : car[u] # m
    BY MessageQueueAssumption DEF Apart
  <1>2. \A x \in Messages : x # NoMessage
    BY MessageQueueAssumption
  <1> QED BY <1>1, <1>2 DEF Apart

LEMMA StepSendGo ==
    ASSUME Base, NEW t \in Threads, SendGo(t)
    PROVE  Base'
  <1>1. PICK r : r = call[t].receiver
    OBVIOUS
  <1>2. \A u \in Threads : Order(u, th[u], pc[u], call[u]) /\ Listed(u, th[u], call[u], blocked, mq)
    BY DEF Base, Fine
  <1>3. pc[t] = "send_go" /\ r \in Threads /\ th[t].state = "SUCCESS" /\ th[t].kmsg = NoMessage
        /\ call[t].msg = NoMessage
    BY <1>1, <1>2 DEF SendGo, Order
  <1>4. /\ th \in [Threads -> ThreadRecords]
        /\ pc \in [Threads -> {"user", "send_block", "send_go", "receive_block", "got"}]
        /\ call \in [Threads -> CallRecords]
    BY DEF Base, Types, Settled, Fine
  <1>5. PICK g : g = Go(th[r])
    OBVIOUS
  <1>6. /\ g \in ThreadRecords /\ g.state = th[r].state /\ g.kmsg = th[r].kmsg /\ ~g.waiting
    <2>1. th[r] \in ThreadRecords
      BY <1>3, <1>4
    <2> QED BY <1>5, <2>1 DEF Go, ThreadRecords
  <1>7. /\ th' = [th EXCEPT ![r] = g] /\ pc' = [pc EXCEPT ![t] = "user"]
        /\ call' = [call EXCEPT ![t] = NoCall]
        /\ UNCHANGED <<port, blocked, active_set, mq, dest, free, panicked>>
    BY <1>1, <1>5 DEF SendGo, EndCall
  <1>8. NoCall \in CallRecords /\ NoCall.msg = NoMessage
    BY DEF NoCall, CallRecords, Sizes, AllOptions
  <1>9. /\ th' \in [Threads -> ThreadRecords] /\ ~th'[r].waiting
        /\ \A u \in Threads : th'[u].state = th[u].state /\ th'[u].kmsg = th[u].kmsg
        /\ \A u \in Threads \ {r} : th'[u] = th[u]
    BY <1>3, <1>4, <1>6, <1>7
  <1>10. /\ pc' \in [Threads -> {"user", "send_block", "send_go", "receive_block", "got"}]
         /\ call' \in [Threads -> CallRecords] /\ pc'[t] = "user" /\ call'[t].msg = NoMessage
         /\ \A u \in Threads \ {t} : pc'[u] = pc[u] /\ call'[u] = call[u]
    BY <1>4, <1>7, <1>8
  <1>11. ASSUME NEW u \in Threads
         PROVE  Order(u, th'[u], pc'[u], call'[u]) /\ Listed(u, th'[u], call'[u], blocked', mq')
    <2>1. CASE u = t
      <3>1. Order(t, th'[t], pc'[t], call'[t])
        BY <1>3, <1>9, <1>10 DEF Order
      <3>2. th[t].state = "SUCCESS" /\ th'[t].state = "SUCCESS" /\ blocked' = blocked /\ mq' = mq
        BY <1>3, <1>7, <1>9
      <3>3. Listed(t, th'[t], call'[t], blocked', mq')
        BY <1>2, <3>2 DEF Listed
      <3> QED BY <2>1, <3>1, <3>3
    <2>2. CASE u # t
      BY <1>2, <1>7, <1>9, <1>10, <2>2 DEF Order, Listed
    <2> QED BY <2>1, <2>2
  <1>12. Awake(th', pc', call')
    <2> SUFFICES ASSUME NEW u \in Threads, th'[u].waiting,
                        th'[u].state \notin {"SEND_IN_PROGRESS", "RCV_IN_PROGRESS"}
                 PROVE  \E v \in Threads : pc'[v] = "send_go" /\ call'[v].receiver = u
      BY DEF Awake
    <2>1. u # r /\ th'[u] = th[u]
      BY <1>9
    <2>2. PICK v \in Threads : pc[v] = "send_go" /\ call[v].receiver = u
      BY <2>1 DEF Base, Fine, Awake
    <2>3. v # t
      BY <1>1, <2>1, <2>2
    <2> QED BY <1>10, <2>2, <2>3
  <1>13. Load(th', pc', call') = Load(th, pc, call)
    <2>1. \A u \in Threads : (IF pc'[u] = "send_block" THEN call'[u].msg ELSE th'[u].kmsg)
                              = (IF pc[u] = "send_block" THEN call[u].msg ELSE th[u].kmsg)
      BY <1>3, <1>9, <1>10
    <2> QED BY <2>1 DEF Load
  <1>14. Fine(mq, th)'
    BY <1>7, <1>9, <1>11, <1>12, <1>13 DEF Base, Fine
  <1>15. Types' /\ Housed(mq, port, active_set)' /\ (\A m \in Messages \ free : dest[m] \in Ports)'
    BY <1>7, <1>10 DEF Base, Types, Settled, Housed
  <1>16. CountsExact' /\ SlotsPromised'
    <2>1. \A u \in Threads : call'[u].msg = call[u].msg
      BY <1>3, <1>10
    <2>2. \A p \in Ports : Counted(p)' = Counted(p)
      BY <1>7, <2>1 DEF Counted
    <2>3. \A p \in Ports : Promised(p)' = Promised(p)
      BY <1>3, <1>7, <1>10 DEF Promised
    <2> QED BY <1>7, <2>2, <2>3 DEF Base, CountsExact, SlotsPromised
  <1> QED BY <1>14, <1>15, <1>16 DEF Base

LEMMA IdleIs ==
    /\ IdleThread \in ThreadRecords /\ NoCall \in CallRecords
    /\ IdleThread.state = "SUCCESS" /\ IdleThread.kmsg = NoMessage /\ ~IdleThread.waiting
    /\ NoCall.msg = NoMessage
  <1>1. IdleThread \in ThreadRecords /\ NoCall \in CallRecords
    BY MessageQueueAssumption
       DEF IdleThread, NoCall, ThreadRecords, CallRecords, IthStates, Seqnos, Sizes, AllOptions
  <1>2. /\ IdleThread.state = "SUCCESS" /\ IdleThread.kmsg = NoMessage /\ ~IdleThread.waiting
        /\ NoCall.msg = NoMessage
    BY DEF IdleThread, NoCall
  <1> QED BY <1>1, <1>2

LEMMA StepReceiveDone ==
    ASSUME Base, NEW t \in Threads, ReceiveDone(t)
    PROVE  Base'
  <1>1. PICK m, p : m = th[t].kmsg /\ p = dest[m]
    OBVIOUS
  <1>2. /\ pc[t] = "got" /\ port' = CountOff(p) /\ pc' = [pc EXCEPT ![t] = "user"]
        /\ call' = [call EXCEPT ![t] = NoCall]
        /\ free' = free \cup {m} /\ dest' = [dest EXCEPT ![m] = NoPort]
        /\ UNCHANGED <<active_set, mq, panicked>>
    BY <1>1 DEF ReceiveDone, EndCall, Release
  <1>3. \A u \in Threads : Order(u, th[u], pc[u], call[u]) /\ Listed(u, th[u], call[u], blocked, mq)
    BY DEF Base, Fine
  <1>4. /\ th \in [Threads -> ThreadRecords] /\ port \in [Ports -> PortRecords]
        /\ pc \in [Threads -> {"user", "send_block", "send_go", "receive_block", "got"}]
        /\ call \in [Threads -> CallRecords] /\ blocked \in [Ports -> Seq(Senders)]
        /\ dest \in [Messages -> Ports \cup {NoPort}] /\ \A z \in Ports : IsInjective(blocked[z])
        /\ Settled /\ QueuesOK(mq)
    BY DEF Base, Types, Settled, Fine
  <1>5. th[t].state = "SUCCESS" /\ m # NoMessage /\ call[t].msg = NoMessage
    BY <1>1, <1>2, <1>3 DEF Order
  <1>6. m \in Messages
    <2>1. th[t] \in ThreadRecords
      BY <1>4
    <2> QED BY <1>1, <1>5, <2>1 DEF ThreadRecords
  <1>7. /\ Load(th, pc, call)[t] = m /\ m \notin free /\ p \in Ports
        /\ \A x \in Queues : m \notin Range(mq[x].kmsgs)
        /\ \A u \in Threads : call[u].msg # m
    <2>1. Load(th, pc, call)[t] = m
      BY <1>1, <1>2 DEF Load
    <2>2. m \notin free
      BY <1>6, <2>1, WhereMessagesAre
    <2>3. p \in Ports
      BY <1>1, <1>6, <2>2 DEF Base
    <2>4. \A u \in Threads : call[u].msg = m => u = t
      BY <1>6, <2>1, WhereMessagesAre
    <2>5. \A u \in Threads : call[u].msg # m
      BY <1>5, <2>4
    <2>6. \A x \in Queues : m \notin Range(mq[x].kmsgs)
      BY <1>6, <2>1, WhereMessagesAre
    <2> QED BY <2>1, <2>2, <2>3, <2>5, <2>6
  <1>8. m \in Counted(p)
    BY <1>1, <1>6, <1>7 DEF Counted
  <1>9. port[p] \in PortRecords /\ port[p].msgcount \in Nat /\ port[p].qlimit \in Nat
        /\ Cardinality(Messages) \in Nat /\ port[p].msgcount <= Cardinality(Messages)
    <2>1. port[p] \in PortRecords /\ Cardinality(Messages) \in Nat
      BY <1>4, <1>7, MessageQueueAssumption, FS_CardinalityType
    <2> QED BY <2>1, MessageQueueAssumption DEF PortRecords
  \* The sender that is woken, if any, and what that makes of threads and lists.
  <1>10. PICK V, k1 : /\ V = IF WakesSender(p) THEN {Head(blocked[p])} ELSE {}
                      /\ k1 = IF WakesSender(p) THEN Wake(th, V, "SUCCESS") ELSE th
    OBVIOUS
  <1>11. PICK bl, q, k : bl = blocked' /\ q = mq /\ k = th
    OBVIOUS
  <1>12. /\ bl \in [Ports -> Seq(Senders)] /\ \A z \in Ports \ {p} : bl[z] = blocked[z]
         /\ \A z \in Ports : IsInjective(bl[z])
         /\ V \subseteq Range(blocked[p]) /\ Range(bl[p]) = Range(blocked[p]) \ V
         /\ ~WakesSender(p) => bl = blocked
         /\ WakesSender(p) => blocked[p] # <<>>
    <2>1. CASE WakesSender(p)
      <3>1. PICK u : u = blocked[p]
        OBVIOUS
      <3>2. u # <<>> /\ u \in Seq(Senders) /\ IsInjective(u) /\ V = {Head(u)}
            /\ bl = [blocked EXCEPT ![p] = Tail(u)]
        BY <1>1, <1>4, <1>7, <1>10, <1>11, <2>1, <3>1 DEF WakesSender, ReceiveDone
      <3>3. /\ Tail(u) \in Seq(Senders) /\ Head(u) \in Range(u)
            /\ Range(Tail(u)) = Range(u) \ {Head(u)} /\ IsInjective(Tail(u))
        BY <3>2, Headed
      <3> QED BY <1>4, <1>7, <2>1, <3>1, <3>2, <3>3
    <2>2. CASE ~WakesSender(p)
      <3>1. bl = blocked /\ V = {}
        BY <1>1, <1>10, <1>11, <2>2 DEF ReceiveDone
      <3> QED BY <1>4, <2>2, <3>1
    <2> QED BY <2>1, <2>2
  <1>13. /\ Roused(q, k, k1, bl, V)
         /\ \A u \in V : u \in Threads /\ pc[u] = "send_block" /\ call[u].queue = p
                         /\ k[u].state = "SEND_IN_PROGRESS"
    <2>1. CASE WakesSender(p)
      <3>1. PICK state : state = "SUCCESS"
        OBVIOUS
      <3>2. Fine(q, k) /\ k1 = Wake(k, V, state)
        BY <1>10, <1>11, <2>1, <3>1 DEF Base
      <3>3. /\ V \subseteq Range(blocked[p]) /\ Range(bl[p]) = Range(blocked[p]) \ V
            /\ \A z \in Ports \ {p} : bl[z] = blocked[z]
            /\ p \in Ports /\ Settled
        BY <1>4, <1>7, <1>12
      <3> QED BY ONLY <3>1, <3>2, <3>3, RousedFine
    <2>2. CASE ~WakesSender(p)
      BY <1>3, <1>4, <1>10, <1>11, <1>12, <2>2 DEF Base, Fine, Roused
    <2> QED BY <2>1, <2>2
  <1>14. t \notin V
    BY <1>5, <1>11, <1>13
  <1>15. PICK k2 : k2 = th'
    OBVIOUS
  <1>16. /\ k2 \in [Threads -> ThreadRecords] /\ k2[t] = IdleThread
         /\ \A u \in Threads \ {t} : k2[u] = k1[u]
    <2>1. CASE WakesSender(p)
      <3>1. PICK left : left = [th EXCEPT ![t] = IdleThread]
        OBVIOUS
      <3>2. k2 = Wake(left, V, "SUCCESS") /\ k1 = Wake(th, V, "SUCCESS")
        BY <1>1, <1>10, <1>15, <2>1, <3>1 DEF ReceiveDone
      <3>3. left[t] = IdleThread /\ \A u \in Threads \ {t} : left[u] = th[u]
        BY <1>4, <3>1
      <3>4. k2 = [u \in Threads |-> IF u \in V THEN Go([left[u] EXCEPT !.state = "SUCCESS"]) ELSE left[u]]
        BY <3>2 DEF Wake
      <3>5. k1 = [u \in Threads |-> IF u \in V THEN Go([th[u] EXCEPT !.state = "SUCCESS"]) ELSE th[u]]
        BY <3>2 DEF Wake
      <3>6. k2[t] = IdleThread /\ \A u \in Threads \ {t} : k2[u] = k1[u]
        BY <1>14, <3>3, <3>4, <3>5
      <3>7. k1 \in [Threads -> ThreadRecords]
        BY <1>13 DEF Roused
      <3>8. k2 = [u \in Threads |-> k2[u]]
        BY <3>4
      <3> QED BY <3>6, <3>7, <3>8, IdleIs
    <2>2. CASE ~WakesSender(p)
      <3>1. k2 = [th EXCEPT ![t] = IdleThread] /\ k1 = th
        BY <1>1, <1>10, <1>15, <2>2 DEF ReceiveDone
      <3> QED BY <1>4, <3>1, IdleIs
    <2> QED BY <2>1, <2>2
  <1>17. /\ pc' \in [Threads -> {"user", "send_block", "send_go", "receive_block", "got"}]
         /\ call' \in [Threads -> CallRecords] /\ pc'[t] = "user" /\ call'[t].msg = NoMessage
         /\ \A u \in Threads \ {t} : pc'[u] = pc[u] /\ call'[u] = call[u]
    BY <1>2, <1>4, IdleIs
  <1>18. ASSUME NEW u \in Threads
         PROVE  Order(u, k2[u], pc'[u], call'[u]) /\ Listed(u, k2[u], call'[u], bl, q)
    <2>1. CASE u = t
      <3>1. Order(t, k2[t], pc'[t], call'[t])
        BY <1>16, <1>17, IdleIs DEF Order
      <3>2. Listed(t, k1[t], call[t], bl, q) /\ k1[t] = k[t]
        BY <1>13, <1>14 DEF Roused
      <3>3. Listed(t, k2[t], call'[t], bl, q)
        BY <1>5, <1>11, <1>16, <3>2, IdleIs DEF Listed
      <3> QED BY <2>1, <3>1, <3>3
    <2>2. CASE u # t
      BY <1>13, <1>16, <1>17, <2>2 DEF Roused
    <2> QED BY <2>1, <2>2
  <1>19. Awake(k2, pc', call')
    <2> SUFFICES ASSUME NEW u \in Threads, k2[u].waiting,
                        k2[u].state \notin {"SEND_IN_PROGRESS", "RCV_IN_PROGRESS"}
                 PROVE  \E v \in Threads : pc'[v] = "send_go" /\ call'[v].receiver = u
      BY DEF Awake
    <2>1. u # t /\ k2[u] = k1[u]
      BY <1>16, IdleIs
    <2>2. PICK v \in Threads : pc[v] = "send_go" /\ call[v].receiver = u
      BY <1>13, <2>1 DEF Roused, Awake
    <2>3. v # t
      BY <1>2, <2>2
    <2> QED BY <1>17, <2>2, <2>3
  <1>20. Apart(InQueues(q), Load(k2, pc', call'), free')
    <2>1. PICK I, car, fr, car2 : /\ I = InQueues(q) /\ car = Load(k, pc, call) /\ fr = free
                                  /\ car2 = Load(k2, pc', call')
      OBVIOUS
    <2>2. Apart(I, car, fr) /\ car[t] = m /\ car = Load(k1, pc, call)
      BY <1>7, <1>11, <1>13, <2>1 DEF Base, Fine, Roused
    <2>3. NoMessage \notin I
      BY <2>1, MessageQueueAssumption DEF InQueues
    <2>4. car2[t] = NoMessage /\ \A u \in Threads \ {t} : car2[u] = car[u]
      <3>1. \A u \in Threads : car2[u] = IF pc'[u] = "send_block" THEN call'[u].msg ELSE k2[u].kmsg
        BY <2>1 DEF Load
      <3>2. \A u \in Threads : car[u] = IF pc[u] = "send_block" THEN call[u].msg ELSE k1[u].kmsg
        BY <2>2 DEF Load
      <3> QED BY <1>16, <1>17, <3>1, <3>2, IdleIs
    <2>5. Apart(I, car2, fr \cup {m})
      BY <1>6, <2>2, <2>3, <2>4, ApartFreed
    <2> QED BY <1>2, <2>1, <2>5
  <1>21. Fine(mq, th)'
    BY <1>2, <1>4, <1>11, <1>15, <1>16, <1>18, <1>19, <1>20 DEF Fine
  <1>22. /\ dest' \in [Messages -> Ports \cup {NoPort}] /\ dest'[m] = NoPort
         /\ \A x \in Messages \ {m} : dest'[x] = dest[x]
    BY <1>2, <1>4, <1>6
  <1>23. PICK g : g = IF port[p].active THEN [port[p] EXCEPT !.msgcount = port[p].msgcount - 1] ELSE port[p]
    OBVIOUS
  <1>24. IsFiniteSet(Counted(p)) /\ Cardinality(Counted(p)) \in Nat /\ Cardinality(Counted(p)) >= 1
    <2>1. IsFiniteSet(Counted(p))
      BY MessageQueueAssumption, FS_Subset DEF Counted
    <2> QED BY <1>8, <2>1, FS_CardinalityType, FS_EmptySet
  <1>25. /\ g \in PortRecords /\ g.active = port[p].active /\ g.owned = port[p].owned
         /\ g.pset = port[p].pset /\ g.qlimit = port[p].qlimit
         /\ port[p].active => g.msgcount = port[p].msgcount - 1 /\ port[p].msgcount >= 1
    <2>1. CASE port[p].active
      <3>1. port[p].msgcount >= 1
        BY <1>7, <1>24, <2>1 DEF Base, CountsExact
      <3>2. PICK e \in PortRecords : e = port[p]
        BY <1>9
      <3>3. g = [e EXCEPT !.msgcount = e.msgcount - 1]
        BY <1>23, <2>1, <3>2
      <3>4. e.msgcount - 1 \in 0..Cardinality(Messages)
        BY <1>9, <3>1, <3>2
      <3> QED BY <2>1, <3>1, <3>2, <3>3, <3>4 DEF PortRecords
    <2>2. CASE ~port[p].active
      BY <1>9, <1>23, <2>2
    <2> QED BY <2>1, <2>2
  <1>26. PICK po : po = port'
    OBVIOUS
  <1>27. /\ po \in [Ports -> PortRecords] /\ po[p] = g
         /\ \A z \in Ports \ {p} : po[z] = port[z]
    <2>1. po = [port EXCEPT ![p] = g] \/ (po = port /\ g = port[p])
      BY <1>2, <1>23, <1>26 DEF CountOff
    <2> QED BY <1>4, <1>7, <1>25, <2>1
  <1>28. Types'
    BY <1>2, <1>6, <1>11, <1>12, <1>17, <1>22, <1>26, <1>27 DEF Base, Types, Settled
  <1>29. Housed(mq, port, active_set)'
    <2>1. \A x \in Queues : \A e \in Range(mq[x].kmsgs) : dest'[e] = dest[e]
      <3>1. \A x \in Queues : Range(mq[x].kmsgs) \subseteq Messages
        BY <1>4, <1>11, RangesIn
      <3> QED BY <1>7, <1>22, <3>1
    <2>2. \A z \in Ports : Home(po, z) = Home(port, z) /\ po[z].owned = port[z].owned
                           /\ po[z].pset = port[z].pset
      BY <1>25, <1>27 DEF Home
    <2> QED BY <1>2, <1>26, <2>1, <2>2 DEF Base, Housed
  <1>30. (\A x \in Messages \ free : dest[x] \in Ports)'
    BY <1>2, <1>22 DEF Base
  <1>31. CountsExact'
    <2>1. \A u \in Threads : call'[u].msg = call[u].msg
      BY <1>5, <1>17
    <2>2. \A z \in Ports \ {p} : Counted(z)' = Counted(z)
      BY <1>1, <1>2, <1>22, <2>1, MessageQueueAssumption DEF Counted, Queues
    <2>3. Counted(p)' = Counted(p) \ {m}
      BY <1>1, <1>2, <1>7, <1>22, <2>1, MessageQueueAssumption DEF Counted, Queues
    <2>4. port[p].active => g.msgcount = Cardinality(Counted(p)')
      <3>1. PICK C : C = Counted(p)
        OBVIOUS
      <3>2. Cardinality(C \ {m}) = Cardinality(C) - 1
        BY <1>8, <1>24, <3>1, FS_RemoveElement
      <3> QED BY <1>7, <1>25, <2>3, <3>1, <3>2 DEF Base, CountsExact
    <2> QED BY <1>25, <1>26, <1>27, <2>2, <2>4 DEF Base, CountsExact
  <1>32. SlotsPromised'
    <2> SUFFICES ASSUME NEW z \in Ports, po[z].active, bl[z] # <<>>
                 PROVE  po[z].qlimit <= po[z].msgcount + Cardinality(Promised(z)')
      BY <1>11, <1>26 DEF SlotsPromised
    <2>0. \A u \in Threads : pc'[u] = "send_block" <=> pc[u] = "send_block"
      BY <1>2, <1>17
    <2>1. CASE z # p
      <3>1. Promised(z)' = Promised(z)
        <4>1. blocked'[z] = blocked[z]
          BY <1>11, <1>12, <2>1
        <4>2. \A u \in Threads : pc[u] = "send_block" => call'[u] = call[u]
          BY <1>2, <1>17
        <4> QED BY <2>0, <4>1, <4>2 DEF Promised
      <3> QED BY <1>12, <1>27, <2>1, <3>1 DEF Base, SlotsPromised
    <2>2. CASE z = p
      <3>1. g.msgcount = port[p].msgcount - 1 /\ port[p].msgcount >= 1 /\ port[p].active
            /\ g.qlimit = port[p].qlimit
        BY <1>25, <1>27, <2>2
      <3>2. IsFiniteSet(Promised(p)) /\ Cardinality(Promised(p)) \in Nat
            /\ IsFiniteSet(Promised(p)') /\ Cardinality(Promised(p)') \in Nat
        <4>1. Promised(p) \subseteq Threads /\ Promised(p)' \subseteq Threads
          BY DEF Promised
        <4> QED BY <4>1, MessageQueueAssumption, FS_Subset, FS_CardinalityType
      <3>3. CASE WakesSender(p)
        <4>1. PICK h : V = {h}
          BY <1>10, <3>3
        <4>2. Promised(p)' = Promised(p) \cup {h} /\ h \notin Promised(p)
          <5>1. \A u \in Threads : pc[u] = "send_block" => call'[u] = call[u]
            BY <1>2, <1>17
          <5> QED BY <1>11, <1>12, <1>13, <2>0, <4>1, <5>1 DEF Promised
        <4>3. Cardinality(Promised(p)') = Cardinality(Promised(p)) + 1
          <5>1. PICK A : A = Promised(p)
            OBVIOUS
          <5>2. Cardinality(A \cup {h}) = Cardinality(A) + 1
            BY <3>2, <4>2, <5>1, FS_AddElement
          <5> QED BY <4>2, <5>1, <5>2
        <4>4. port[p].qlimit <= port[p].msgcount + Cardinality(Promised(p))
          BY <1>7, <1>12, <3>1, <3>3 DEF Base, SlotsPromised
        <4> QED BY <1>9, <1>27, <2>2, <3>1, <3>2, <4>3, <4>4
      <3>4. CASE ~WakesSender(p)
        <4>1. blocked[p] # <<>>
          BY <1>12, <2>2, <3>4
        <4>2. ~(port[p].msgcount - 1 < port[p].qlimit)
          BY <3>1, <3>4, <4>1 DEF WakesSender
        <4> QED BY <1>9, <1>27, <2>2, <3>1, <3>2, <4>2
      <3> QED BY <3>3, <3>4
    <2> QED BY <2>1, <2>2
  <1> QED BY <1>21, <1>28, <1>29, <1>30, <1>31, <1>32 DEF Base

\* The part of Fine that is about threads, for other places, calls and lists.
Ordered(q, k, at, c, bl) ==
    /\ k \in [Threads -> ThreadRecords]
    /\ \A t \in Threads : Order(t, k[t], at[t], c[t]) /\ Listed(t, k[t], c[t], bl, q)
    /\ Awake(k, at, c)

\* One thread, that is not about to wake another, gets to another place in order.
LEMMA OneActs ==
    ASSUME NEW q, NEW k, NEW at, NEW c, NEW bl, Ordered(q, k, at, c, bl),
           NEW t \in Threads, at[t] # "send_go",
           NEW q2, NEW k2, NEW at2, NEW c2, NEW bl2, k2 \in [Threads -> ThreadRecords],
           \A u \in Threads \ {t} : k2[u] = k[u] /\ at2[u] = at[u] /\ c2[u] = c[u],
           \A u \in Threads \ {t} : /\ \A z \in Ports : u \in Range(bl2[z]) <=> u \in Range(bl[z])
                                    /\ \A x \in Queues : u \in Range(q2[x].waiters) <=> u \in Range(q[x].waiters),
           Order(t, k2[t], at2[t], c2[t]), Listed(t, k2[t], c2[t], bl2, q2),
           k2[t].waiting => k2[t].state \in {"SEND_IN_PROGRESS", "RCV_IN_PROGRESS"}
    PROVE  Ordered(q2, k2, at2, c2, bl2)
  <1>1. \A u \in Threads : Order(u, k[u], at[u], c[u]) /\ Listed(u, k[u], c[u], bl, q)
    BY DEF Ordered
  <1>2. ASSUME NEW u \in Threads
        PROVE  Order(u, k2[u], at2[u], c2[u]) /\ Listed(u, k2[u], c2[u], bl2, q2)
    <2>1. CASE u = t
      BY <2>1
    <2>2. CASE u # t
      <3>1. Order(u, k2[u], at2[u], c2[u])
        BY <1>1, <2>2
      <3>2. Listed(u, k2[u], c2[u], bl2, q2)
        BY <1>1, <2>2 DEF Listed
      <3> QED BY <3>1, <3>2
    <2> QED BY <2>1, <2>2
  <1>3. ASSUME NEW u \in Threads, k2[u].waiting,
               k2[u].state \notin {"SEND_IN_PROGRESS", "RCV_IN_PROGRESS"}
        PROVE  \E v \in Threads : at2[v] = "send_go" /\ c2[v].receiver = u
    <2>1. u # t /\ k2[u] = k[u]
      BY <1>3
    <2>2. PICK v \in Threads : at[v] = "send_go" /\ c[v].receiver = u
      BY <1>3, <2>1 DEF Ordered, Awake
    <2>3. v # t
      BY <2>2
    <2> QED BY <2>2, <2>3
  <1>4. Awake(k2, at2, c2)
    BY <1>3 DEF Awake
  <1> QED BY <1>2, <1>4 DEF Ordered

\* The queue x loses its first message m, its receivers staying as they are.
Shortened(q, x) == [q EXCEPT ![x].kmsgs = Tail(@)]
Took(q, q2, x, m) ==
    /\ QueuesOK(q2) /\ m \in Messages /\ m \in Range(q[x].kmsgs)
    /\ \A z \in Queues : /\ Range(q2[z].kmsgs) = Range(q[z].kmsgs) \ {m}
                         /\ q2[z].waiters = q[z].waiters
    /\ InQueues(q2) = InQueues(q) \ {m}

LEMMA HeadTaken ==
    ASSUME NEW q, QueuesOK(q), NEW x \in Queues, q[x].kmsgs # <<>>, NEW m, m = Head(q[x].kmsgs),
           NEW q2, q2 = Shortened(q, x)
    PROVE  Took(q, q2, x, m)
  <1>1. PICK u, ws : u = q[x].kmsgs /\ ws = q[x].waiters
    OBVIOUS
  <1>2. /\ u \in Seq(Messages) /\ IsInjective(u) /\ IsInjective(ws) /\ ws \in Seq(Receivers)
        /\ q[x] = [kmsgs |-> u, waiters |-> ws] /\ q \in [Queues -> QueueRecords]
    BY <1>1, RangesIn DEF QueuesOK
  <1>3. /\ m \in Messages /\ Tail(u) \in Seq(Messages) /\ m \in Range(u)
        /\ Range(Tail(u)) = Range(u) \ {m} /\ IsInjective(Tail(u))
    BY <1>1, <1>2, Headed
  <1>4. PICK w, g : w = Tail(u) /\ g = [kmsgs |-> w, waiters |-> ws]
    OBVIOUS
  <1>5. g \in QueueRecords /\ g.kmsgs = w /\ g.waiters = ws
    BY <1>2, <1>3, <1>4 DEF QueueRecords
  <1>6. q2 = [q EXCEPT ![x] = g]
    <2>1. PICK e : e = q[x]
      OBVIOUS
    <2>2. e = [kmsgs |-> u, waiters |-> ws] /\ Tail(e.kmsgs) = w
      BY <1>1, <1>2, <1>4, <2>1
    <2>3. [e EXCEPT !.kmsgs = w] = g
      <3>1. e = [kmsgs |-> u, waiters |-> ws] /\ g = [kmsgs |-> w, waiters |-> ws]
        BY <1>4, <2>2
      <3> QED BY ONLY <3>1
    <2> QED BY <2>1, <2>2, <2>3 DEF Shortened
  <1>7. q2 \in [Queues -> QueueRecords] /\ q2[x] = g /\ \A z \in Queues \ {x} : q2[z] = q[z]
    BY <1>2, <1>5, <1>6
  <1>8. \A z \in Queues : /\ Range(q2[z].kmsgs) = Range(q[z].kmsgs) \ {m}
                          /\ q2[z].waiters = q[z].waiters
    <2>1. \A z \in Queues \ {x} : m \notin Range(q[z].kmsgs)
      BY <1>1, <1>3 DEF QueuesOK
    <2> QED BY <1>1, <1>3, <1>4, <1>5, <1>7, <2>1
  <1>9. \A z \in Queues : q2[z].waiters # <<>> => q2[z].kmsgs = <<>>
    <2>1. ws = <<>>
      BY <1>1 DEF QueuesOK
    <2> QED BY <1>5, <1>7, <2>1 DEF QueuesOK
  <1>10. \A z \in Queues : IsInjective(q2[z].kmsgs) /\ IsInjective(q2[z].waiters)
    BY <1>2, <1>3, <1>4, <1>5, <1>7 DEF QueuesOK
  <1>11. QueuesOK(q2)
    BY <1>7, <1>8, <1>9, <1>10 DEF QueuesOK
  <1>12. InQueues(q2) = InQueues(q) \ {m}
    BY <1>8 DEF InQueues
  <1> QED BY <1>1, <1>3, <1>8, <1>11, <1>12 DEF Took

\* A step of a thread that is not sending: no message is freed or counted.
LEMMA ReceiverStep ==
    ASSUME Base, NEW t \in Threads, pc[t] \in {"user", "receive_block"},
           NEW r, r \in States, mq' = r.mq, th' = r.th, port' = r.port,
           UNCHANGED <<blocked, active_set, dest, free, panicked>>,
           \A z \in Ports : SameCounts(r.port[z], port[z]),
           pc' \in [Threads -> {"user", "send_block", "send_go", "receive_block", "got"}],
           pc'[t] \in {"user", "receive_block", "got"},
           call' \in [Threads -> CallRecords], call'[t].msg = NoMessage,
           \A u \in Threads \ {t} : pc'[u] = pc[u] /\ call'[u] = call[u],
           QueuesOK(r.mq), Ordered(r.mq, r.th, pc', call', blocked),
           Apart(InQueues(r.mq), Load(r.th, pc', call'), free),
           Housed(r.mq, r.port, active_set)
    PROVE  Base'
  <1>1. Types'
    BY DEF Base, Types, Settled, States
  <1>2. Fine(mq, th)'
    BY DEF Fine, Ordered
  <1>3. Housed(mq, port, active_set)' /\ (\A x \in Messages \ free : dest[x] \in Ports)'
    BY DEF Base, Housed
  <1>4. call[t].msg = NoMessage
    <2>1. Order(t, th[t], pc[t], call[t])
      BY DEF Base, Fine
    <2> QED BY <2>1 DEF Order
  <1>5. \A z \in Ports : Counted(z)' = Counted(z)
    <2>1. \A u \in Threads : call'[u].msg = call[u].msg
      BY <1>4
    <2> QED BY <2>1 DEF Counted
  <1>6. \A z \in Ports : Promised(z)' = Promised(z)
    BY DEF Promised
  <1>7. CountsExact' /\ SlotsPromised'
    BY <1>5, <1>6 DEF Base, CountsExact, SlotsPromised, SameCounts
  <1> QED BY <1>1, <1>2, <1>3, <1>7 DEF Base

\* t's receive ends without a message; it has left the list it was on, if any.
LEMMA ReceiverIdles ==
    ASSUME Base, NEW t \in Threads, pc[t] \in {"user", "receive_block"}, th[t].kmsg = NoMessage,
           NEW q, NEW s, s \in States, Fine(q, s.th), QueuesOK(s.mq),
           Housed(s.mq, s.port, active_set),
           \A z \in Ports : SameCounts(s.port[z], port[z]), s.th[t] = th[t],
           \A z \in Queues : /\ Range(s.mq[z].kmsgs) = Range(q[z].kmsgs)
                             /\ Range(s.mq[z].waiters) = Range(q[z].waiters) \ {t},
           NEW r, r = [s EXCEPT !.th[t] = IdleThread],
           mq' = r.mq, th' = r.th, port' = r.port, EndCall(t),
           UNCHANGED <<blocked, active_set, dest, free, panicked>>
    PROVE  Base'
  <1>1. PICK q1, k, po : q1 = s.mq /\ k = s.th /\ po = s.port
    OBVIOUS
  <1>2. /\ q1 \in [Queues -> QueueRecords] /\ k \in [Threads -> ThreadRecords]
        /\ po \in [Ports -> PortRecords] /\ s = [mq |-> q1, th |-> k, port |-> po]
    BY <1>1 DEF States
  <1>3. PICK k2 : k2 = [k EXCEPT ![t] = IdleThread]
    OBVIOUS
  <1>4. r = [mq |-> q1, th |-> k2, port |-> po]
    BY <1>2, <1>3
  <1>5. /\ k2 \in [Threads -> ThreadRecords] /\ k2[t] = IdleThread
        /\ \A u \in Threads \ {t} : k2[u] = k[u]
    BY <1>2, <1>3, IdleIs
  <1>6. r \in States /\ r.mq = q1 /\ r.th = k2 /\ r.port = po
    BY <1>2, <1>4, <1>5 DEF States
  <1>7. /\ pc \in [Threads -> {"user", "send_block", "send_go", "receive_block", "got"}]
        /\ call \in [Threads -> CallRecords]
    BY DEF Base, Types, Settled
  <1>8. /\ pc' \in [Threads -> {"user", "send_block", "send_go", "receive_block", "got"}]
        /\ call' \in [Threads -> CallRecords] /\ pc'[t] = "user" /\ call'[t] = NoCall
        /\ \A u \in Threads \ {t} : pc'[u] = pc[u] /\ call'[u] = call[u]
    BY <1>7, IdleIs DEF EndCall
  <1>9. Ordered(q, k, pc, call, blocked)
    BY <1>1 DEF Fine, Ordered
  <1>10. Order(t, k[t], pc[t], call[t]) /\ Listed(t, k[t], call[t], blocked, q)
    BY <1>9 DEF Ordered
  <1>11. k[t].state # "SEND_IN_PROGRESS" /\ k[t].kmsg = NoMessage
    BY <1>1, <1>10 DEF Order
  <1>12. Order(t, k2[t], pc'[t], call'[t])
    BY <1>5, <1>8, IdleIs DEF Order
  <1>13. Listed(t, k2[t], call'[t], blocked, q1)
    <2>1. \A p \in Ports : t \notin Range(blocked[p])
      BY <1>10, <1>11 DEF Listed
    <2>2. \A x \in Queues : t \notin Range(q1[x].waiters)
      BY <1>1
    <2>3. k2[t].state = "SUCCESS"
      BY <1>5, IdleIs
    <2> QED BY <2>1, <2>2, <2>3 DEF Listed
  <1>14. Ordered(q1, k2, pc', call', blocked)
    <2>1. \A u \in Threads \ {t} :
             /\ \A z \in Ports : u \in Range(blocked[z]) <=> u \in Range(blocked[z])
             /\ \A x \in Queues : u \in Range(q1[x].waiters) <=> u \in Range(q[x].waiters)
      BY <1>1
    <2>2. k2[t].waiting => k2[t].state \in {"SEND_IN_PROGRESS", "RCV_IN_PROGRESS"}
      BY <1>5, IdleIs
    <2>3. pc[t] # "send_go"
      OBVIOUS
    <2>4. PICK at2, c2 : at2 = pc' /\ c2 = call'
      OBVIOUS
    <2>5. /\ \A u \in Threads \ {t} : k2[u] = k[u] /\ at2[u] = pc[u] /\ c2[u] = call[u]
          /\ Order(t, k2[t], at2[t], c2[t]) /\ Listed(t, k2[t], c2[t], blocked, q1)
      BY <1>5, <1>8, <1>12, <1>13, <2>4
    <2>6. k2 \in [Threads -> ThreadRecords]
      BY <1>5
    <2>7. Ordered(q1, k2, at2, c2, blocked)
      BY ONLY <1>9, <2>1, <2>2, <2>3, <2>5, <2>6, t \in Threads, OneActs
    <2> QED BY <2>4, <2>7
  <1>15. InQueues(q1) = InQueues(q)
    BY <1>1 DEF InQueues
  <1>16. Load(k2, pc', call') = Load(k, pc, call)
    <2>1. \A u \in Threads : (IF pc'[u] = "send_block" THEN call'[u].msg ELSE k2[u].kmsg)
                              = (IF pc[u] = "send_block" THEN call[u].msg ELSE k[u].kmsg)
      BY <1>5, <1>8, <1>11, IdleIs
    <2> QED BY <2>1 DEF Load
  <1>17. Apart(InQueues(r.mq), Load(r.th, pc', call'), free)
    BY <1>1, <1>6, <1>15, <1>16 DEF Fine
  <1>18. QueuesOK(r.mq) /\ Ordered(r.mq, r.th, pc', call', blocked)
         /\ Housed(r.mq, r.port, active_set) /\ \A z \in Ports : SameCounts(r.port[z], port[z])
    BY <1>1, <1>6, <1>14
  <1>19. call'[t].msg = NoMessage /\ pc'[t] \in {"user", "receive_block", "got"}
    BY <1>8, IdleIs
  <1> QED BY <1>6, <1>8, <1>17, <1>18, <1>19, ReceiverStep

\* t leaves the list of the queue it waits at.
Leaving(t, x) == [State EXCEPT !.mq[x].waiters = Without(t, @)]
HasLeft(t, x, s) ==
    /\ s \in States /\ QueuesOK(s.mq) /\ s.th = th /\ s.port = port
    /\ Housed(s.mq, s.port, active_set) /\ x \in Queues
    /\ \A z \in Queues : /\ s.mq[z].kmsgs = mq[z].kmsgs
                         /\ Range(s.mq[z].waiters) = Range(mq[z].waiters) \ {t}

LEMMA ReceiverLeaves ==
    ASSUME Base, NEW t \in Threads, pc[t] = "receive_block", NEW x, x = call[t].queue,
           NEW s, s = Leaving(t, x)
    PROVE  HasLeft(t, x, s)
  <1>1. PICK e : e = State
    OBVIOUS
  <1>2. /\ Settled /\ e \in States /\ Fine(e.mq, e.th) /\ Housed(e.mq, e.port, active_set)
        /\ e.mq = mq /\ e.th = th /\ e.port = port
    BY <1>1, QueuesReached
  <1>3. /\ mq \in [Queues -> QueueRecords] /\ th \in [Threads -> ThreadRecords]
        /\ port \in [Ports -> PortRecords] /\ QueuesOK(mq) /\ e = [mq |-> mq, th |-> th, port |-> port]
    BY <1>2 DEF States, Fine
  <1>4. Order(t, th[t], pc[t], call[t]) /\ Listed(t, th[t], call[t], blocked, mq)
    BY DEF Base, Fine
  <1>5. x \in Queues
    BY <1>4 DEF Order
  <1>6. PICK u, ws : u = mq[x].kmsgs /\ ws = mq[x].waiters
    OBVIOUS
  <1>7. /\ u \in Seq(Messages) /\ IsInjective(u) /\ ws \in Seq(Receivers) /\ IsInjective(ws)
        /\ Range(ws) \subseteq Threads /\ mq[x] = [kmsgs |-> u, waiters |-> ws]
    BY <1>3, <1>5, <1>6, RangesIn
  <1>8. PICK S, w : S = Threads \ {t} /\ w = Only(ws, S)
    OBVIOUS
  <1>9. w \in Seq(Receivers) /\ IsInjective(w) /\ Range(w) = Range(ws) \cap S
    BY <1>7, <1>8, OnlySome
  <1>10. Range(w) = Range(ws) \ {t} /\ w = Without(t, ws)
    BY <1>7, <1>8, <1>9 DEF Without
  <1>11. PICK g : g = [kmsgs |-> u, waiters |-> w]
    OBVIOUS
  <1>12. g \in QueueRecords /\ g.kmsgs = u /\ g.waiters = w
    BY <1>7, <1>9, <1>11 DEF QueueRecords
  <1>13. PICK q2 : q2 = [mq EXCEPT ![x] = g]
    OBVIOUS
  <1>14. q2 \in [Queues -> QueueRecords] /\ q2[x] = g /\ \A z \in Queues \ {x} : q2[z] = mq[z]
    BY <1>3, <1>5, <1>12, <1>13
  <1>15. s = [mq |-> q2, th |-> th, port |-> port]
    <2>1. PICK f : f = mq[x]
      OBVIOUS
    <2>2. f = [kmsgs |-> u, waiters |-> ws] /\ Without(t, f.waiters) = w
      BY <1>7, <1>10, <2>1
    <2>3. [f EXCEPT !.waiters = w] = g
      <3>1. f = [kmsgs |-> u, waiters |-> ws] /\ g = [kmsgs |-> u, waiters |-> w]
        BY <1>11, <2>2
      <3> QED BY ONLY <3>1
    <2>4. s = [e EXCEPT !.mq[x].waiters = Without(t, @)]
      BY <1>1 DEF Leaving
    <2>5. s = [e EXCEPT !.mq = [mq EXCEPT ![x] = [f EXCEPT !.waiters = Without(t, f.waiters)]]]
      BY <1>3, <2>1, <2>4
    <2>6. s = [e EXCEPT !.mq = q2]
      BY <1>13, <2>2, <2>3, <2>5
    <2> QED BY <1>3, <2>6
  <1>16. s \in States /\ s.mq = q2 /\ s.th = th /\ s.port = port
    <2>1. s.mq = q2 /\ s.th = th /\ s.port = port
      BY ONLY <1>15
    <2>2. [mq |-> q2, th |-> th, port |-> port] \in States
      BY ONLY <1>3, <1>14 DEF States
    <2> QED BY ONLY <1>15, <2>1, <2>2
  <1>17. \A z \in Queues : /\ q2[z].kmsgs = mq[z].kmsgs
                           /\ Range(q2[z].waiters) = Range(mq[z].waiters) \ {t}
    <2>1. \A z \in Queues \ {x} : t \notin Range(mq[z].waiters)
      BY <1>4, <1>5 DEF Listed
    <2> QED BY <1>6, <1>10, <1>12, <1>14, <2>1
  <1>18. \A z \in Queues : q2[z].waiters # <<>> => mq[z].waiters # <<>>
    <2>1. Range(<<>>) = {}
      BY Nobody
    <2>2. \A z \in Queues : q2[z].waiters \in Seq(Receivers)
      BY <1>14 DEF QueueRecords
    <2> QED BY <1>17, <2>1, <2>2, Emptied
  <1>19. QueuesOK(q2)
    <2>1. \A z \in Queues : IsInjective(q2[z].kmsgs) /\ IsInjective(q2[z].waiters)
      BY <1>3, <1>7, <1>9, <1>12, <1>14 DEF QueuesOK
    <2> QED BY <1>3, <1>14, <1>17, <1>18, <2>1 DEF QueuesOK
  <1>20. Housed(q2, port, active_set)
    <2>1. Ports \subseteq Queues /\ Psets \subseteq Queues /\ Housed(mq, port, active_set)
      BY DEF Queues, Base
    <2> QED BY <1>17, <1>18, <2>1 DEF Housed
  <1> QED BY <1>5, <1>16, <1>17, <1>19, <1>20 DEF HasLeft

\* t takes the first message of a queue.
LEMMA ReceiverTakes ==
    ASSUME Base, NEW t \in Threads, pc[t] = "user",
           NEW s, s \in States, Fine(s.mq, s.th), Housed(s.mq, s.port, active_set),
           \A z \in Ports : SameCounts(s.port[z], port[z]), s.th[t] = th[t],
           NEW x \in Queues, s.mq[x].kmsgs # <<>>, NEW m, m = Head(s.mq[x].kmsgs),
           NEW p, p = dest[m],
           NEW r, r = [s EXCEPT !.mq[x].kmsgs = Tail(@), !.port[p].seqno = Following(@),
                                !.th[t] = [IdleThread EXCEPT !.kmsg = m, !.seqno = s.port[p].seqno]],
           mq' = r.mq, th' = r.th, port' = r.port,
           pc' = [pc EXCEPT ![t] = "got"], call' = [call EXCEPT ![t] = NoCall],
           UNCHANGED <<blocked, active_set, dest, free, panicked>>
    PROVE  Base'
  <1>1. PICK q, k, po : q = s.mq /\ k = s.th /\ po = s.port
    OBVIOUS
  <1>2. /\ q \in [Queues -> QueueRecords] /\ k \in [Threads -> ThreadRecords]
        /\ po \in [Ports -> PortRecords] /\ s = [mq |-> q, th |-> k, port |-> po]
        /\ QueuesOK(q) /\ Fine(q, k)
    BY <1>1 DEF States, Fine
  <1>3. PICK q2 : q2 = [q EXCEPT ![x].kmsgs = Tail(@)]
    OBVIOUS
  <1>4. /\ QueuesOK(q2) /\ m \in Messages /\ m \in Range(q[x].kmsgs)
        /\ \A z \in Queues : /\ Range(q2[z].kmsgs) = Range(q[z].kmsgs) \ {m}
                             /\ q2[z].waiters = q[z].waiters
        /\ InQueues(q2) = InQueues(q) \ {m}
    <2>1. q[x].kmsgs # <<>> /\ m = Head(q[x].kmsgs)
      BY <1>1
    <2>2. x \in Queues /\ QueuesOK(q)
      BY <1>2
    <2>3. q2 = Shortened(q, x)
      BY <1>3 DEF Shortened
    <2>4. Took(q, q2, x, m)
      BY ONLY <2>1, <2>2, <2>3, HeadTaken
    <2> QED BY ONLY <2>4 DEF Took
  <1>5. p \in Ports
    BY <1>1, <1>4 DEF Housed
  <1>6. PICK n, g : n = po[p].seqno /\ g = [po[p] EXCEPT !.seqno = Following(n)]
    OBVIOUS
  <1>7. n \in Seqnos /\ g \in PortRecords /\ SameCounts(g, po[p]) /\ g.pset = po[p].pset
    <2>1. po[p] \in PortRecords
      BY <1>2, <1>5
    <2>2. n \in Seqnos
      BY <1>6, <2>1 DEF PortRecords
    <2>3. Following(n) \in Seqnos
      BY <2>2, FollowingIs
    <2> QED BY <1>6, <2>1, <2>2, <2>3 DEF PortRecords, SameCounts
  <1>8. PICK po2, h : po2 = [po EXCEPT ![p] = g] /\ h = [IdleThread EXCEPT !.kmsg = m, !.seqno = n]
    OBVIOUS
  <1>9. /\ h \in ThreadRecords /\ h.kmsg = m /\ h.state = "SUCCESS" /\ ~h.waiting
    BY <1>4, <1>7, <1>8 DEF IdleThread, ThreadRecords, IthStates
  <1>10. PICK k2 : k2 = [k EXCEPT ![t] = h]
    OBVIOUS
  <1>11. r = [mq |-> q2, th |-> k2, port |-> po2]
    <2>1. r = [s EXCEPT !.mq = [q EXCEPT ![x].kmsgs = Tail(@)],
                        !.port = [po EXCEPT ![p] = [po[p] EXCEPT !.seqno = Following(n)]],
                        !.th = [k EXCEPT ![t] = [IdleThread EXCEPT !.kmsg = m, !.seqno = n]]]
      BY <1>2, <1>6
    <2>2. r = [s EXCEPT !.mq = q2, !.port = po2, !.th = k2]
      BY <1>3, <1>6, <1>8, <1>10, <2>1
    <2> QED BY ONLY <1>2, <2>2
  <1>12. /\ k2 \in [Threads -> ThreadRecords] /\ k2[t] = h
         /\ \A u \in Threads \ {t} : k2[u] = k[u]
    BY <1>2, <1>9, <1>10
  <1>13. /\ po2 \in [Ports -> PortRecords]
         /\ \A z \in Ports : SameCounts(po2[z], po[z]) /\ po2[z].pset = po[z].pset
    <2>1. \A e1 : SameCounts(e1, e1)
      BY DEF SameCounts
    <2> QED BY <1>2, <1>5, <1>7, <1>8, <2>1
  <1>14. r \in States /\ r.mq = q2 /\ r.th = k2 /\ r.port = po2
    <2>1. r.mq = q2 /\ r.th = k2 /\ r.port = po2
      BY ONLY <1>11
    <2>2. q2 \in [Queues -> QueueRecords]
      BY <1>4 DEF QueuesOK
    <2>3. [mq |-> q2, th |-> k2, port |-> po2] \in States
      BY ONLY <1>12, <1>13, <2>2 DEF States
    <2> QED BY ONLY <1>11, <2>1, <2>3
  <1>15. /\ pc \in [Threads -> {"user", "send_block", "send_go", "receive_block", "got"}]
         /\ call \in [Threads -> CallRecords]
    BY DEF Base, Types, Settled
  <1>16. /\ pc' \in [Threads -> {"user", "send_block", "send_go", "receive_block", "got"}]
         /\ call' \in [Threads -> CallRecords] /\ pc'[t] = "got" /\ call'[t] = NoCall
         /\ \A u \in Threads \ {t} : pc'[u] = pc[u] /\ call'[u] = call[u]
    BY <1>15, IdleIs
  <1>17. m # NoMessage /\ NoMessage \notin Messages
    BY <1>4, MessageQueueAssumption
  <1>18. Ordered(q, k, pc, call, blocked)
    BY <1>2 DEF Fine, Ordered
  <1>19. Order(t, k[t], pc[t], call[t]) /\ Listed(t, k[t], call[t], blocked, q)
    BY <1>18 DEF Ordered
  <1>20. k[t].state = "SUCCESS" /\ k[t].kmsg = NoMessage
    BY <1>19 DEF Order
  <1>21. Order(t, k2[t], pc'[t], call'[t])
    BY <1>9, <1>12, <1>16, <1>17, IdleIs DEF Order
  <1>22. Listed(t, k2[t], call'[t], blocked, q2)
    <2>1. \A z \in Ports : t \notin Range(blocked[z])
      BY <1>19, <1>20 DEF Listed
    <2>2. \A z \in Queues : t \notin Range(q2[z].waiters)
      BY <1>4, <1>19, <1>20 DEF Listed
    <2> QED BY <1>9, <1>12, <2>1, <2>2 DEF Listed
  <1>23. Ordered(q2, k2, pc', call', blocked)
    <2>1. \A u \in Threads \ {t} :
             /\ \A z \in Ports : u \in Range(blocked[z]) <=> u \in Range(blocked[z])
             /\ \A z \in Queues : u \in Range(q2[z].waiters) <=> u \in Range(q[z].waiters)
      BY <1>4
    <2>2. k2[t].waiting => k2[t].state \in {"SEND_IN_PROGRESS", "RCV_IN_PROGRESS"}
      BY <1>9, <1>12
    <2>3. pc[t] # "send_go" /\ k2 \in [Threads -> ThreadRecords]
      BY <1>12
    <2>4. PICK at2, c2 : at2 = pc' /\ c2 = call'
      OBVIOUS
    <2>5. /\ \A u \in Threads \ {t} : k2[u] = k[u] /\ at2[u] = pc[u] /\ c2[u] = call[u]
          /\ Order(t, k2[t], at2[t], c2[t]) /\ Listed(t, k2[t], c2[t], blocked, q2)
      BY <1>12, <1>16, <1>21, <1>22, <2>4
    <2>6. Ordered(q2, k2, at2, c2, blocked)
      BY ONLY <1>18, <2>1, <2>2, <2>3, <2>5, t \in Threads, OneActs
    <2> QED BY <2>4, <2>6
  <1>24. Apart(InQueues(q2), Load(k2, pc', call'), free)
    <2>1. PICK I, J, car, car2, M, fr : /\ I = InQueues(q) /\ J = InQueues(q2) /\ M = {m}
                                        /\ car = Load(k, pc, call) /\ car2 = Load(k2, pc', call')
                                        /\ fr = free \cup M
      OBVIOUS
    <2>2. Apart(I, car, free)
      BY <1>2, <2>1 DEF Fine
    <2>3. m \in I /\ M \subseteq I /\ M \subseteq Messages /\ J = I \ M
      BY <1>4, <2>1 DEF InQueues
    <2>4. Apart(J, car, fr)
      <3>1. Apart(I \ M, car, free \cup M)
        BY ONLY <2>2, <2>3, ApartTaken
      <3> QED BY <2>1, <2>3, <3>1
    <2>5. car[t] = NoMessage /\ car2[t] = m /\ \A u \in Threads \ {t} : car2[u] = car[u]
      BY <1>9, <1>12, <1>16, <1>20, <2>1 DEF Load
    <2>6. m \in fr
      BY <2>1
    <2>7. Apart(J, car2, fr \ {m})
      BY ONLY <1>4, <2>4, <2>5, <2>6, t \in Threads, ApartHeld
    <2>8. m \notin free
      BY <1>4, <2>2, <2>3 DEF Apart
    <2>9. fr \ {m} = free
      BY <2>1, <2>8
    <2> QED BY <2>1, <2>7, <2>9
  <1>25. Housed(q2, po2, active_set)
    <2>1. Housed(q, po, active_set)
      BY <1>1
    <2>2. \A z \in Ports : Home(po2, z) = Home(po, z) /\ po2[z].owned = po[z].owned
      BY <1>13 DEF Home, SameCounts
    <2>3. Ports \subseteq Queues /\ Psets \subseteq Queues
      BY DEF Queues
    <2> QED BY <1>4, <1>13, <2>1, <2>2, <2>3 DEF Housed
  <1>26. QueuesOK(r.mq) /\ Ordered(r.mq, r.th, pc', call', blocked)
         /\ Housed(r.mq, r.port, active_set) /\ Apart(InQueues(r.mq), Load(r.th, pc', call'), free)
    BY <1>4, <1>14, <1>23, <1>24, <1>25
  <1>27. \A z \in Ports : SameCounts(r.port[z], port[z])
    BY <1>1, <1>13, <1>14 DEF SameCounts
  <1>28. /\ call'[t].msg = NoMessage /\ pc'[t] \in {"user", "receive_block", "got"}
         /\ pc[t] \in {"user", "receive_block"}
    BY <1>16, IdleIs
  <1> QED BY <1>14, <1>16, <1>26, <1>27, <1>28, ReceiverStep

\* What thread_will_wait() makes of a thread.
LEMMA WillWaitIs ==
    ASSUME NEW state \in IthStates, NEW option, NEW h, h = WillWait(state, option)
    PROVE  h \in ThreadRecords /\ h.state = state /\ h.kmsg = NoMessage
  <1>1. h = [waiting |-> TRUE, timer |-> (option = "timed"), wait_result |-> "NONE",
             state |-> state, kmsg |-> NoMessage, seqno |-> 0]
    BY DEF WillWait, IdleThread
  <1>2. 0 \in Seqnos
    BY MessageQueueAssumption DEF Seqnos
  <1>3. PICK b : b = (option = "timed")
    OBVIOUS
  <1>4. b \in BOOLEAN
    BY <1>3
  <1>5. h = [waiting |-> TRUE, timer |-> b, wait_result |-> "NONE",
             state |-> state, kmsg |-> NoMessage, seqno |-> 0]
    BY <1>1, <1>3
  <1>6. h \in ThreadRecords
    BY <1>2, <1>4, <1>5 DEF ThreadRecords
  <1> QED BY <1>5, <1>6

\* t waits at an empty queue that it may receive from.
LEMMA ReceiverWaits ==
    ASSUME Base, NEW t \in Receivers, pc[t] = "user",
           NEW s, s \in States, Fine(s.mq, s.th), Housed(s.mq, s.port, active_set),
           \A z \in Ports : SameCounts(s.port[z], port[z]), s.th[t] = th[t],
           NEW x \in Queues, s.mq[x].kmsgs = <<>>,
           x \in Ports => s.port[x].owned /\ s.port[x].pset = NoPset,
           x \in Psets => x \in active_set,
           NEW size \in Sizes, NEW option \in AllOptions,
           NEW r, r = [s EXCEPT !.mq[x].waiters = Append(@, t),
                                !.th[t] = WillWait("RCV_IN_PROGRESS", option)],
           mq' = r.mq, th' = r.th, port' = r.port,
           pc' = [pc EXCEPT ![t] = "receive_block"],
           call' = [call EXCEPT ![t] = [NoCall EXCEPT !.queue = x, !.size = size,
                                                      !.option = option]],
           UNCHANGED <<blocked, active_set, dest, free, panicked>>
    PROVE  Base'
  <1>1. PICK q, k, po : q = s.mq /\ k = s.th /\ po = s.port
    OBVIOUS
  <1>2. /\ q \in [Queues -> QueueRecords] /\ k \in [Threads -> ThreadRecords]
        /\ po \in [Ports -> PortRecords] /\ s = [mq |-> q, th |-> k, port |-> po]
        /\ QueuesOK(q) /\ Fine(q, k) /\ t \in Threads
    BY <1>1, MessageQueueAssumption DEF States, Fine
  <1>3. PICK ws : ws = q[x].waiters
    OBVIOUS
  <1>4. /\ ws \in Seq(Receivers) /\ IsInjective(ws) /\ q[x] = [kmsgs |-> <<>>, waiters |-> ws]
    BY <1>1, <1>2, <1>3, RangesIn
  <1>5. Ordered(q, k, pc, call, blocked)
    BY <1>2 DEF Fine, Ordered
  <1>6. Order(t, k[t], pc[t], call[t]) /\ Listed(t, k[t], call[t], blocked, q)
    BY <1>2, <1>5 DEF Ordered
  <1>7. k[t].state = "SUCCESS" /\ k[t].kmsg = NoMessage
    BY <1>6 DEF Order
  <1>8. /\ \A z \in Queues : t \notin Range(q[z].waiters)
        /\ \A z \in Ports : t \notin Range(blocked[z])
    BY <1>6, <1>7 DEF Listed
  <1>9. PICK w : w = Append(ws, t)
    OBVIOUS
  <1>10. w \in Seq(Receivers) /\ IsInjective(w) /\ Range(w) = Range(ws) \cup {t}
    <2>1. t \notin Range(ws)
      BY <1>3, <1>8
    <2> QED BY <1>4, <1>9, <2>1, Appended
  <1>11. PICK g, q2 : g = [kmsgs |-> <<>>, waiters |-> w] /\ q2 = [q EXCEPT ![x] = g]
    OBVIOUS
  <1>12. g \in QueueRecords /\ g.kmsgs = <<>> /\ g.waiters = w
    BY <1>10, <1>11 DEF QueueRecords
  <1>13. q2 \in [Queues -> QueueRecords] /\ q2[x] = g /\ \A z \in Queues \ {x} : q2[z] = q[z]
    BY <1>2, <1>11, <1>12
  <1>14. PICK h : h = WillWait("RCV_IN_PROGRESS", option)
    OBVIOUS
  <1>15. h \in ThreadRecords /\ h.state = "RCV_IN_PROGRESS" /\ h.kmsg = NoMessage
    <2>1. PICK state : state = "RCV_IN_PROGRESS"
      OBVIOUS
    <2>2. state \in IthStates /\ h = WillWait(state, option)
      BY <1>14, <2>1 DEF IthStates
    <2>3. h \in ThreadRecords /\ h.state = state /\ h.kmsg = NoMessage
      BY ONLY <2>2, WillWaitIs
    <2> QED BY <2>1, <2>3
  <1>16. PICK k2 : k2 = [k EXCEPT ![t] = h]
    OBVIOUS
  <1>17. /\ k2 \in [Threads -> ThreadRecords] /\ k2[t] = h
         /\ \A u \in Threads \ {t} : k2[u] = k[u]
    BY <1>2, <1>15, <1>16
  <1>18. r = [mq |-> q2, th |-> k2, port |-> po]
    <2>1. PICK e : e = q[x]
      OBVIOUS
    <2>2. e = [kmsgs |-> <<>>, waiters |-> ws] /\ Append(e.waiters, t) = w
      BY <1>4, <1>9, <2>1
    <2>3. [e EXCEPT !.waiters = w] = g
      <3>1. e = [kmsgs |-> <<>>, waiters |-> ws] /\ g = [kmsgs |-> <<>>, waiters |-> w]
        BY <1>11, <2>2
      <3> QED BY ONLY <3>1
    <2>4. r = [s EXCEPT !.mq = [q EXCEPT ![x] = [e EXCEPT !.waiters = Append(e.waiters, t)]],
                        !.th = [k EXCEPT ![t] = h]]
      BY <1>2, <1>14, <2>1
    <2>5. r = [s EXCEPT !.mq = q2, !.th = k2]
      BY <1>11, <1>16, <2>2, <2>3, <2>4
    <2> QED BY ONLY <1>2, <2>5
  <1>19. r \in States /\ r.mq = q2 /\ r.th = k2 /\ r.port = po
    <2>1. r.mq = q2 /\ r.th = k2 /\ r.port = po
      BY ONLY <1>18
    <2>2. [mq |-> q2, th |-> k2, port |-> po] \in States
      BY ONLY <1>2, <1>13, <1>17 DEF States
    <2> QED BY ONLY <1>18, <2>1, <2>2
  <1>20. PICK c : c = [NoCall EXCEPT !.queue = x, !.size = size, !.option = option]
    OBVIOUS
  <1>21. c \in CallRecords /\ c.queue = x /\ c.msg = NoMessage
    BY <1>20 DEF NoCall, CallRecords
  <1>22. /\ pc \in [Threads -> {"user", "send_block", "send_go", "receive_block", "got"}]
         /\ call \in [Threads -> CallRecords]
    BY DEF Base, Types, Settled
  <1>23. /\ pc' \in [Threads -> {"user", "send_block", "send_go", "receive_block", "got"}]
         /\ call' \in [Threads -> CallRecords] /\ pc'[t] = "receive_block" /\ call'[t] = c
         /\ \A u \in Threads \ {t} : pc'[u] = pc[u] /\ call'[u] = call[u]
    BY <1>2, <1>20, <1>21, <1>22
  <1>24. /\ \A z \in Queues : q2[z].kmsgs = q[z].kmsgs
         /\ \A z \in Queues \ {x} : q2[z].waiters = q[z].waiters
         /\ Range(q2[x].waiters) = Range(q[x].waiters) \cup {t}
    <2>1. q[x].kmsgs = <<>> /\ q2[x].kmsgs = <<>>
      BY <1>1, <1>12, <1>13
    <2>2. Range(q2[x].waiters) = Range(q[x].waiters) \cup {t}
      BY <1>3, <1>10, <1>12, <1>13
    <2>3. \A z \in Queues \ {x} : q2[z].kmsgs = q[z].kmsgs /\ q2[z].waiters = q[z].waiters
      BY <1>13
    <2> QED BY <2>1, <2>2, <2>3
  <1>25. QueuesOK(q2)
    <2>1. \A z \in Queues : IsInjective(q2[z].kmsgs) /\ IsInjective(q2[z].waiters)
      BY <1>2, <1>10, <1>12, <1>13, <1>24 DEF QueuesOK
    <2>2. \A z \in Queues : q2[z].waiters # <<>> => q2[z].kmsgs = <<>>
      BY <1>2, <1>12, <1>13 DEF QueuesOK
    <2> QED BY <1>2, <1>13, <1>24, <2>1, <2>2 DEF QueuesOK
  <1>26. Order(t, k2[t], pc'[t], call'[t])
    BY <1>15, <1>17, <1>21, <1>23 DEF Order
  <1>27. Listed(t, k2[t], call'[t], blocked, q2)
    BY <1>8, <1>15, <1>17, <1>21, <1>23, <1>24 DEF Listed
  <1>28. Ordered(q2, k2, pc', call', blocked)
    <2>1. \A u \in Threads \ {t} :
             /\ \A z \in Ports : u \in Range(blocked[z]) <=> u \in Range(blocked[z])
             /\ \A z \in Queues : u \in Range(q2[z].waiters) <=> u \in Range(q[z].waiters)
      BY <1>24
    <2>2. k2[t].waiting => k2[t].state \in {"SEND_IN_PROGRESS", "RCV_IN_PROGRESS"}
      BY <1>15, <1>17
    <2>3. pc[t] # "send_go" /\ k2 \in [Threads -> ThreadRecords] /\ t \in Threads
      BY <1>2, <1>17
    <2>4. PICK at2, c2 : at2 = pc' /\ c2 = call'
      OBVIOUS
    <2>5. /\ \A u \in Threads \ {t} : k2[u] = k[u] /\ at2[u] = pc[u] /\ c2[u] = call[u]
          /\ Order(t, k2[t], at2[t], c2[t]) /\ Listed(t, k2[t], c2[t], blocked, q2)
      BY <1>17, <1>23, <1>26, <1>27, <2>4
    <2>6. Ordered(q2, k2, at2, c2, blocked)
      BY ONLY <1>5, <2>1, <2>2, <2>3, <2>5, OneActs
    <2> QED BY <2>4, <2>6
  <1>29. Apart(InQueues(q2), Load(k2, pc', call'), free)
    <2>1. InQueues(q2) = InQueues(q)
      BY <1>24 DEF InQueues
    <2>2. Load(k2, pc', call') = Load(k, pc, call)
      <3>1. \A u \in Threads : (IF pc'[u] = "send_block" THEN call'[u].msg ELSE k2[u].kmsg)
                                = (IF pc[u] = "send_block" THEN call[u].msg ELSE k[u].kmsg)
        BY <1>7, <1>15, <1>17, <1>23
      <3> QED BY <3>1 DEF Load
    <2> QED BY <1>2, <2>1, <2>2 DEF Fine
  <1>30. Housed(q2, po, active_set)
    <2>1. Housed(q, po, active_set)
      BY <1>1
    <2>2. Ports \subseteq Queues /\ Psets \subseteq Queues
      BY DEF Queues
    <2> QED BY <1>1, <1>24, <2>1, <2>2 DEF Housed
  <1>31. QueuesOK(r.mq) /\ Ordered(r.mq, r.th, pc', call', blocked)
         /\ Housed(r.mq, r.port, active_set) /\ Apart(InQueues(r.mq), Load(r.th, pc', call'), free)
         /\ \A z \in Ports : SameCounts(r.port[z], port[z])
    BY <1>1, <1>19, <1>25, <1>28, <1>29, <1>30
  <1>32. /\ call'[t].msg = NoMessage /\ pc'[t] \in {"user", "receive_block", "got"}
         /\ pc[t] \in {"user", "receive_block"} /\ t \in Threads
    BY <1>2, <1>21, <1>23
  <1> QED BY <1>19, <1>23, <1>31, <1>32, ReceiverStep

LEMMA ReceiveLoopStep ==
    ASSUME Base, NEW t \in Receivers, pc[t] = "user",
           NEW s, s \in States, Fine(s.mq, s.th), Housed(s.mq, s.port, active_set),
           \A z \in Ports : SameCounts(s.port[z], port[z]), s.th[t] = th[t],
           NEW x \in Queues,
           x \in Ports => s.port[x].owned /\ s.port[x].pset = NoPset,
           x \in Psets => x \in active_set,
           NEW size \in Sizes, NEW option \in AllOptions,
           ReceiveLoop(t, x, size, option, s)
    PROVE  Base'
  <1>0. t \in Threads /\ UNCHANGED <<blocked, active_set, dest, free, panicked>>
    BY MessageQueueAssumption DEF ReceiveLoop
  <1>1. PICK kmsgs : kmsgs = s.mq[x].kmsgs
    OBVIOUS
  <1>2. \/ /\ EndCall(t) /\ Apply([s EXCEPT !.th[t] = IdleThread])
        \/ /\ kmsgs # <<>>
           /\ LET p == dest[Head(kmsgs)]
              IN Apply([s EXCEPT !.mq[x].kmsgs = Tail(@),
                                 !.port[p].seqno = Following(@),
                                 !.th[t] = [IdleThread EXCEPT
                                              !.kmsg = Head(kmsgs),
                                              !.seqno = s.port[p].seqno]])
           /\ pc' = [pc EXCEPT ![t] = "got"] /\ call' = [call EXCEPT ![t] = NoCall]
        \/ /\ kmsgs = <<>>
           /\ Apply([s EXCEPT !.mq[x].waiters = Append(@, t),
                              !.th[t] = WillWait("RCV_IN_PROGRESS", option)])
           /\ pc' = [pc EXCEPT ![t] = "receive_block"]
           /\ call' = [call EXCEPT ![t] = [NoCall EXCEPT !.queue = x, !.size = size,
                                                         !.option = option]]
    BY <1>1 DEF ReceiveLoop
  <1>3. CASE EndCall(t) /\ Apply([s EXCEPT !.th[t] = IdleThread])
    <2>1. PICK r : r = [s EXCEPT !.th[t] = IdleThread]
      OBVIOUS
    <2>2. mq' = r.mq /\ th' = r.th /\ port' = r.port
      BY <1>3, <2>1 DEF Apply
    <2>3. PICK q : q = s.mq
      OBVIOUS
    <2>4. Order(t, th[t], pc[t], call[t]) /\ Listed(t, s.th[t], call[t], blocked, q)
      BY <1>0, <2>3 DEF Base, Fine
    <2>5. th[t].kmsg = NoMessage /\ th[t].state = "SUCCESS"
      BY <2>4 DEF Order
    <2>6. \A z \in Queues : /\ Range(s.mq[z].kmsgs) = Range(q[z].kmsgs)
                            /\ Range(s.mq[z].waiters) = Range(q[z].waiters) \ {t}
      BY <2>3, <2>4, <2>5 DEF Listed
    <2>7. Fine(q, s.th) /\ QueuesOK(s.mq)
      BY <2>3 DEF Fine
    <2> QED BY <1>0, <1>3, <2>1, <2>2, <2>5, <2>6, <2>7, ReceiverIdles
  <1>4. CASE /\ kmsgs # <<>>
             /\ LET p == dest[Head(kmsgs)]
                IN Apply([s EXCEPT !.mq[x].kmsgs = Tail(@),
                                   !.port[p].seqno = Following(@),
                                   !.th[t] = [IdleThread EXCEPT
                                                !.kmsg = Head(kmsgs),
                                                !.seqno = s.port[p].seqno]])
             /\ pc' = [pc EXCEPT ![t] = "got"] /\ call' = [call EXCEPT ![t] = NoCall]
    <2>1. PICK m : m = Head(kmsgs)
      OBVIOUS
    <2>2. PICK p : p = dest[m]
      OBVIOUS
    <2>3. PICK r : r = [s EXCEPT !.mq[x].kmsgs = Tail(@), !.port[p].seqno = Following(@),
                                 !.th[t] = [IdleThread EXCEPT !.kmsg = m, !.seqno = s.port[p].seqno]]
      OBVIOUS
    <2>4. mq' = r.mq /\ th' = r.th /\ port' = r.port
      BY <1>4, <2>1, <2>2, <2>3 DEF Apply
    <2>5. s.mq[x].kmsgs # <<>> /\ m = Head(s.mq[x].kmsgs)
      BY <1>1, <1>4, <2>1
    <2>6. pc' = [pc EXCEPT ![t] = "got"] /\ call' = [call EXCEPT ![t] = NoCall]
      BY <1>4
    <2> QED BY <1>0, <2>2, <2>3, <2>4, <2>5, <2>6, ReceiverTakes
  <1>5. CASE /\ kmsgs = <<>>
             /\ Apply([s EXCEPT !.mq[x].waiters = Append(@, t),
                                !.th[t] = WillWait("RCV_IN_PROGRESS", option)])
             /\ pc' = [pc EXCEPT ![t] = "receive_block"]
             /\ call' = [call EXCEPT ![t] = [NoCall EXCEPT !.queue = x, !.size = size,
                                                           !.option = option]]
    <2>1. PICK r : r = [s EXCEPT !.mq[x].waiters = Append(@, t),
                                 !.th[t] = WillWait("RCV_IN_PROGRESS", option)]
      OBVIOUS
    <2>2. mq' = r.mq /\ th' = r.th /\ port' = r.port
      BY <1>5, <2>1 DEF Apply
    <2>3. s.mq[x].kmsgs = <<>>
      BY <1>1, <1>5
    <2> QED BY <1>0, <1>5, <2>1, <2>2, <2>3, ReceiverWaits
  <1> QED BY <1>2, <1>3, <1>4, <1>5

LEMMA StepReceive ==
    ASSUME Base, NEW t \in Threads, NEW x \in Queues, NEW size \in Sizes, NEW option \in AllOptions,
           Receive(t, x, size, option)
    PROVE  Base'
  <1>1. t \in Receivers /\ pc[t] = "user"
    BY DEF Receive
  <1>2. PICK e : e = State
    OBVIOUS
  <1>3. /\ Settled /\ e \in States /\ Fine(e.mq, e.th) /\ Housed(e.mq, e.port, active_set)
        /\ e.mq = mq /\ e.th = th /\ e.port = port
    BY <1>2, QueuesReached
  <1>4. Order(t, th[t], pc[t], call[t])
    BY DEF Base, Fine
  <1>5. th[t].state # "RCV_IN_PROGRESS"
    BY <1>1, <1>4 DEF Order
  <1>6. CASE /\ x \in Ports /\ port[x].owned /\ port[x].pset \notin active_set
             /\ ReceiveLoop(t, x, size, option, LeaveDeadSet(State, x))
    <2>1. PICK s : s = LeaveDeadSet(e, x)
      OBVIOUS
    <2>2. s = PsetRemove(e, x) /\ ReceiveLoop(t, x, size, option, s) /\ x \in Ports
      BY <1>2, <1>3, <1>6, <2>1 DEF LeaveDeadSet
    <2>3. Effect(e, s, x, NoPset, active_set)
      BY <1>3, <2>2, PsetRemoveIs
    <2>4. /\ s \in States /\ Fine(s.mq, s.th) /\ Housed(s.mq, s.port, active_set)
          /\ \A z \in Ports : SameCounts(s.port[z], port[z])
          /\ s.port[x].pset = NoPset /\ s.th[t] = th[t]
      BY <1>3, <1>5, <2>3 DEF Effect
    <2>5. s.port[x].owned /\ x \notin Psets
      BY <1>6, <2>2, <2>4, MessageQueueAssumption DEF SameCounts
    <2> QED BY <1>1, <2>2, <2>4, <2>5, ReceiveLoopStep
  <1>7. CASE x \in active_set /\ ReceiveLoop(t, x, size, option, State)
    <2>1. x \notin Ports
      BY <1>7, MessageQueueAssumption DEF Base, Types
    <2>2. \A z \in Ports : SameCounts(e.port[z], port[z])
      BY <1>3 DEF SameCounts
    <2>3. ReceiveLoop(t, x, size, option, e) /\ e.th[t] = th[t]
      BY <1>2, <1>3, <1>7
    <2> QED BY <1>1, <1>3, <1>7, <2>1, <2>2, <2>3, ReceiveLoopStep
  <1> QED BY <1>6, <1>7 DEF Receive

\* t finds that it has been handed a message.
LEMMA ReceiverHasIt ==
    ASSUME Base, NEW t \in Threads, pc[t] = "receive_block", ~th[t].waiting,
           th[t].state = "SUCCESS",
           pc' = [pc EXCEPT ![t] = "got"], call' = [call EXCEPT ![t] = NoCall],
           UNCHANGED <<port, blocked, active_set, mq, th, dest, free, panicked>>
    PROVE  Base'
  <1>1. PICK r : r = State
    OBVIOUS
  <1>2. /\ r \in States /\ Fine(r.mq, r.th) /\ Housed(r.mq, r.port, active_set)
        /\ r.mq = mq /\ r.th = th /\ r.port = port
    BY <1>1, QueuesReached
  <1>3. /\ pc \in [Threads -> {"user", "send_block", "send_go", "receive_block", "got"}]
        /\ call \in [Threads -> CallRecords]
    BY DEF Base, Types, Settled
  <1>4. /\ pc' \in [Threads -> {"user", "send_block", "send_go", "receive_block", "got"}]
        /\ call' \in [Threads -> CallRecords] /\ pc'[t] = "got" /\ call'[t] = NoCall
        /\ \A u \in Threads \ {t} : pc'[u] = pc[u] /\ call'[u] = call[u]
    BY <1>3, IdleIs
  <1>5. Ordered(mq, th, pc, call, blocked)
    BY <1>2 DEF Fine, Ordered
  <1>6. Order(t, th[t], pc[t], call[t]) /\ Listed(t, th[t], call[t], blocked, mq)
    BY <1>5 DEF Ordered
  <1>7. Order(t, th[t], pc'[t], call'[t])
    BY <1>4, <1>6, IdleIs DEF Order
  <1>8. Listed(t, th[t], call'[t], blocked, mq)
    BY <1>6 DEF Listed
  <1>9. Ordered(mq, th, pc', call', blocked)
    <2>1. \A u \in Threads \ {t} :
             /\ \A z \in Ports : u \in Range(blocked[z]) <=> u \in Range(blocked[z])
             /\ \A z \in Queues : u \in Range(mq[z].waiters) <=> u \in Range(mq[z].waiters)
      OBVIOUS
    <2>2. th[t].waiting => th[t].state \in {"SEND_IN_PROGRESS", "RCV_IN_PROGRESS"}
      OBVIOUS
    <2>3. pc[t] # "send_go" /\ th \in [Threads -> ThreadRecords] /\ t \in Threads
      BY <1>5 DEF Ordered
    <2>4. PICK at2, c2 : at2 = pc' /\ c2 = call'
      OBVIOUS
    <2>5. /\ \A u \in Threads \ {t} : th[u] = th[u] /\ at2[u] = pc[u] /\ c2[u] = call[u]
          /\ Order(t, th[t], at2[t], c2[t]) /\ Listed(t, th[t], c2[t], blocked, mq)
      BY <1>4, <1>7, <1>8, <2>4
    <2>6. Ordered(mq, th, at2, c2, blocked)
      BY ONLY <1>5, <2>1, <2>2, <2>3, <2>5, OneActs
    <2> QED BY <2>4, <2>6
  <1>10. Apart(InQueues(mq), Load(th, pc', call'), free)
    <2>1. Load(th, pc', call') = Load(th, pc, call)
      <3>1. \A u \in Threads : (IF pc'[u] = "send_block" THEN call'[u].msg ELSE th[u].kmsg)
                                = (IF pc[u] = "send_block" THEN call[u].msg ELSE th[u].kmsg)
        BY <1>4
      <3> QED BY <3>1 DEF Load
    <2> QED BY <2>1 DEF Base, Fine
  <1>11. QueuesOK(r.mq) /\ Ordered(r.mq, r.th, pc', call', blocked)
         /\ Housed(r.mq, r.port, active_set) /\ Apart(InQueues(r.mq), Load(r.th, pc', call'), free)
         /\ \A z \in Ports : SameCounts(r.port[z], port[z])
    BY <1>2, <1>9, <1>10 DEF Fine, SameCounts
  <1>12. /\ call'[t].msg = NoMessage /\ pc'[t] \in {"user", "receive_block", "got"}
         /\ pc[t] \in {"user", "receive_block"}
         /\ mq' = r.mq /\ th' = r.th /\ port' = r.port
    BY <1>2, <1>4, IdleIs
  <1> QED BY <1>2, <1>4, <1>11, <1>12, ReceiverStep

\* t's receive ends without a message, with t on the list of its queue or on none.
LEMMA ReceiverEnds ==
    ASSUME Base, NEW t \in Threads, pc[t] = "receive_block", th[t].state # "SUCCESS",
           NEW x, x = call[t].queue,
           NEW s, s = Leaving(t, x),
           Apply([s EXCEPT !.th[t] = IdleThread]), EndCall(t),
           UNCHANGED <<blocked, active_set, dest, free, panicked>>
    PROVE  Base'
  <1>1. /\ s \in States /\ QueuesOK(s.mq) /\ s.th = th /\ s.port = port
        /\ Housed(s.mq, s.port, active_set) /\ x \in Queues
        /\ \A z \in Queues : /\ s.mq[z].kmsgs = mq[z].kmsgs
                             /\ Range(s.mq[z].waiters) = Range(mq[z].waiters) \ {t}
    <2>1. HasLeft(t, x, s)
      BY ReceiverLeaves
    <2> QED BY ONLY <2>1 DEF HasLeft
  <1>2. PICK q : q = mq
    OBVIOUS
  <1>3. Fine(q, s.th)
    BY <1>1, <1>2 DEF Base
  <1>4. th[t].kmsg = NoMessage
    <2>1. Order(t, th[t], pc[t], call[t])
      BY DEF Base, Fine
    <2> QED BY <2>1 DEF Order
  <1>5. PICK r : r = [s EXCEPT !.th[t] = IdleThread]
    OBVIOUS
  <1>6. mq' = r.mq /\ th' = r.th /\ port' = r.port
    BY <1>5 DEF Apply
  <1>7. \A z \in Ports : SameCounts(s.port[z], port[z])
    BY <1>1 DEF SameCounts
  <1>8. \A z \in Queues : /\ Range(s.mq[z].kmsgs) = Range(q[z].kmsgs)
                          /\ Range(s.mq[z].waiters) = Range(q[z].waiters) \ {t}
    BY <1>1, <1>2
  <1>9. /\ Base /\ pc[t] \in {"user", "receive_block"} /\ s.th[t] = th[t] /\ EndCall(t)
        /\ t \in Threads /\ UNCHANGED <<blocked, active_set, dest, free, panicked>>
    BY <1>1
  <1> QED BY ONLY <1>1, <1>3, <1>4, <1>5, <1>6, <1>7, <1>8, <1>9, ReceiverIdles

LEMMA StepReceiveWoken ==
    ASSUME Base, NEW t \in Threads, ReceiveWoken(t)
    PROVE  Base'
  <1>1. PICK x : x = call[t].queue
    OBVIOUS
  <1>2. PICK s : s = Leaving(t, x)
    OBVIOUS
  <1>3. pc[t] = "receive_block" /\ ~th[t].waiting
    BY DEF ReceiveWoken
  <1>4. Order(t, th[t], pc[t], call[t]) /\ Listed(t, th[t], call[t], blocked, mq)
    BY DEF Base, Fine
  <1>5. CASE /\ th[t].state = "SUCCESS"
             /\ pc' = [pc EXCEPT ![t] = "got"]
             /\ call' = [call EXCEPT ![t] = NoCall]
             /\ UNCHANGED <<port, blocked, active_set, mq, th, dest, free, panicked>>
    BY <1>3, <1>5, ReceiverHasIt
  <1>6. CASE /\ th[t].state \in {"TOO_LARGE", "PORT_DIED", "PORT_CHANGED"}
             /\ EndCall(t)
             /\ th' = [th EXCEPT ![t] = IdleThread]
             /\ UNCHANGED <<port, blocked, active_set, mq, dest, free, panicked>>
    <2>1. PICK e : e = State
      OBVIOUS
    <2>2. /\ e \in States /\ Fine(e.mq, e.th) /\ Housed(e.mq, e.port, active_set)
          /\ e.mq = mq /\ e.th = th /\ e.port = port
      BY <2>1, QueuesReached
    <2>3. PICK r : r = [e EXCEPT !.th[t] = IdleThread]
      OBVIOUS
    <2>4. r.mq = mq /\ r.th = [th EXCEPT ![t] = IdleThread] /\ r.port = port
      <3>1. e = [mq |-> mq, th |-> th, port |-> port]
        BY <2>1 DEF State
      <3> QED BY ONLY <2>3, <3>1
    <2>5. mq' = r.mq /\ th' = r.th /\ port' = r.port
      BY <1>6, <2>4
    <2>6. PICK q : q = mq
      OBVIOUS
    <2>7. \A z \in Queues : /\ Range(e.mq[z].kmsgs) = Range(q[z].kmsgs)
                            /\ Range(e.mq[z].waiters) = Range(q[z].waiters) \ {t}
      BY <1>4, <1>6, <2>2, <2>6 DEF Listed
    <2>8. Fine(q, e.th) /\ QueuesOK(e.mq) /\ \A z \in Ports : SameCounts(e.port[z], port[z])
      BY <2>2, <2>6 DEF Fine, SameCounts
    <2>9. th[t].kmsg = NoMessage /\ pc[t] \in {"user", "receive_block"} /\ e.th[t] = th[t]
      BY <1>3, <1>4, <1>6, <2>2 DEF Order
    <2>10. EndCall(t) /\ UNCHANGED <<blocked, active_set, dest, free, panicked>>
      BY <1>6
    <2> QED BY <2>2, <2>3, <2>5, <2>7, <2>8, <2>9, <2>10, ReceiverIdles
  <1>7. CASE th[t].state = "RCV_IN_PROGRESS" /\ ReceiveLoop(t, x, call[t].size, "poll", s)
    <2>1. s.mq[x].kmsgs = mq[x].kmsgs /\ x \in Queues
      <3>1. HasLeft(t, x, s)
        BY <1>1, <1>2, <1>3, ReceiverLeaves
      <3> QED BY ONLY <3>1 DEF HasLeft
    <2>2. t \in Range(mq[x].waiters)
      BY <1>1, <1>4, <1>7, <2>1 DEF Listed
    <2>3. mq[x].waiters # <<>>
      BY <2>2, Nobody
    <2>4. s.mq[x].kmsgs = <<>>
      BY <2>1, <2>3 DEF Base, Fine, QueuesOK
    <2>5. Apply([s EXCEPT !.th[t] = IdleThread]) /\ EndCall(t)
          /\ UNCHANGED <<blocked, active_set, dest, free, panicked>>
      BY <1>7, <2>4 DEF ReceiveLoop
    <2> QED BY <1>1, <1>2, <1>3, <1>7, <2>5, ReceiverEnds
  <1>8. CASE /\ ReceiveGivesUp(t)
             /\ Apply([s EXCEPT !.th[t] = IdleThread])
             /\ EndCall(t)
             /\ UNCHANGED <<blocked, active_set, dest, free, panicked>>
    <2>1. th[t].state # "SUCCESS"
      BY <1>8 DEF ReceiveGivesUp
    <2> QED BY <1>1, <1>2, <1>3, <1>8, <2>1, ReceiverEnds
  <1>9. CASE /\ panicked' = TRUE
             /\ UNCHANGED <<port, blocked, active_set, mq, th, pc, call, dest, free>>
    <2>1. \A p \in Ports : Counted(p)' = Counted(p) /\ Promised(p)' = Promised(p)
      BY <1>9 DEF Counted, Promised
    <2> QED BY <1>9, <2>1 DEF Base, Types, Settled, Fine, Housed, CountsExact, SlotsPromised
  <1> QED BY <1>1, <1>2, <1>5, <1>6, <1>7, <1>8, <1>9 DEF ReceiveWoken, Leaving

-----------------------------------------------------------------------------
(* A sender with its message m: the user's, or of a send that had blocked. *)

Bears(t, m) ==
    \/ pc[t] = "user" /\ m \in free
    \/ pc[t] = "send_block" /\ call[t].msg = m

\* t is not among the senders that wait, all others are where they were.
Unlisted(t, bl) ==
    /\ bl \in [Ports -> Seq(Senders)] /\ \A z \in Ports : IsInjective(bl[z])
    /\ \A z \in Ports : Range(bl[z]) = Range(blocked[z]) \ {t}

LEMMA SenderBears ==
    ASSUME Base, NEW t \in Threads, NEW m \in Messages, Bears(t, m)
    PROVE  /\ \A x \in Queues : m \notin Range(mq[x].kmsgs) /\ t \notin Range(mq[x].waiters)
           /\ \A u \in Threads \ {t} : call[u].msg # m
           /\ th[t].kmsg = NoMessage /\ call[t].msg \in {m, NoMessage}
           /\ Load(th, pc, call)[t] = m \/ (m \in free /\ Load(th, pc, call)[t] = NoMessage)
           /\ \A p \in Ports : m \notin Counted(p)
           /\ th[t].state \in {"SUCCESS", "SEND_IN_PROGRESS"} /\ pc[t] # "send_go"
           /\ m # NoMessage
  <1>1. m # NoMessage
    BY MessageQueueAssumption
  <1>2. Order(t, th[t], pc[t], call[t]) /\ Listed(t, th[t], call[t], blocked, mq)
    BY DEF Base, Fine
  <1>3. th[t].kmsg = NoMessage /\ th[t].state \in {"SUCCESS", "SEND_IN_PROGRESS"}
        /\ pc[t] # "send_go"
    BY <1>2 DEF Bears, Order
  <1>4. call[t].msg \in {m, NoMessage}
    BY <1>2 DEF Bears, Order
  <1>5. Load(th, pc, call)[t] = m \/ (m \in free /\ Load(th, pc, call)[t] = NoMessage)
    BY <1>3 DEF Load, Bears
  <1>6. \A x \in Queues : t \notin Range(mq[x].waiters)
    BY <1>2, <1>3 DEF Listed
  <1>7. \A x \in Queues : m \notin Range(mq[x].kmsgs)
    BY <1>5, WhereMessagesAre
  <1>8. \A u \in Threads \ {t} : call[u].msg # m
    BY <1>5, WhereMessagesAre
  <1>9. \A p \in Ports : m \notin Counted(p)
    BY <1>1 DEF Bears, Counted
  <1> QED BY <1>1, <1>3, <1>4, <1>5, <1>6, <1>7, <1>8, <1>9

\* Who waits to send is not changed otherwise than by t's leaving.
LEMMA StillBlocked ==
    ASSUME Base, NEW t \in Threads, NEW bl, Unlisted(t, bl)
    PROVE  \A z \in Ports : bl[z] # <<>> => blocked[z] # <<>>
  <1> SUFFICES ASSUME NEW z \in Ports, blocked[z] = <<>>
               PROVE  bl[z] = <<>>
    OBVIOUS
  <1>1. bl[z] \in Seq(Senders) /\ Range(bl[z]) = {}
    BY Nobody DEF Unlisted
  <1> QED BY <1>1, Emptied

\* The send fails: t leaves with the message freed.
LEMMA SenderReleases ==
    ASSUME Base, NEW t \in Threads, NEW m \in Messages, Bears(t, m),
           th' = [th EXCEPT ![t] = IdleThread], EndCall(t), Release(m), Unlisted(t, blocked'),
           pc[t] = "send_block" /\ th[t].state = "SUCCESS" => ~port[call[t].queue].active,
           UNCHANGED <<port, active_set, mq, panicked>>
    PROVE  Base'
  <1>1. /\ \A x \in Queues : m \notin Range(mq[x].kmsgs) /\ t \notin Range(mq[x].waiters)
        /\ \A u \in Threads \ {t} : call[u].msg # m
        /\ th[t].kmsg = NoMessage /\ call[t].msg \in {m, NoMessage}
        /\ Load(th, pc, call)[t] = m \/ (m \in free /\ Load(th, pc, call)[t] = NoMessage)
        /\ \A p \in Ports : m \notin Counted(p)
        /\ th[t].state \in {"SUCCESS", "SEND_IN_PROGRESS"} /\ pc[t] # "send_go"
        /\ m # NoMessage
    BY SenderBears
  <1>2. /\ th \in [Threads -> ThreadRecords]
        /\ pc \in [Threads -> {"user", "send_block", "send_go", "receive_block", "got"}]
        /\ call \in [Threads -> CallRecords] /\ dest \in [Messages -> Ports \cup {NoPort}]
        /\ free \subseteq Messages
    BY DEF Base, Types, Settled, Fine
  <1>3. PICK k2, at2, c2, bl2 : k2 = th' /\ at2 = pc' /\ c2 = call' /\ bl2 = blocked'
    OBVIOUS
  <1>4. /\ k2 \in [Threads -> ThreadRecords] /\ k2[t] = IdleThread
        /\ \A u \in Threads \ {t} : k2[u] = th[u]
    BY <1>2, <1>3, IdleIs
  <1>5. /\ at2 \in [Threads -> {"user", "send_block", "send_go", "receive_block", "got"}]
        /\ c2 \in [Threads -> CallRecords] /\ at2[t] = "user" /\ c2[t] = NoCall
        /\ \A u \in Threads \ {t} : at2[u] = pc[u] /\ c2[u] = call[u]
    BY <1>2, <1>3, IdleIs DEF EndCall
  <1>6. /\ dest' \in [Messages -> Ports \cup {NoPort}]
        /\ \A x \in Messages \ {m} : dest'[x] = dest[x]
        /\ free' = free \cup {m}
    BY <1>2 DEF Release
  <1>7. /\ bl2 \in [Ports -> Seq(Senders)] /\ \A z \in Ports : IsInjective(bl2[z])
        /\ \A z \in Ports : Range(bl2[z]) = Range(blocked[z]) \ {t}
    BY <1>3 DEF Unlisted
  <1>8. Ordered(mq, th, pc, call, blocked)
    BY DEF Base, Fine, Ordered
  <1>9. Ordered(mq, k2, at2, c2, bl2)
    <2>1. Order(t, k2[t], at2[t], c2[t])
      BY <1>4, <1>5, IdleIs DEF Order
    <2>2. Listed(t, k2[t], c2[t], bl2, mq)
      BY <1>1, <1>4, <1>7, IdleIs DEF Listed
    <2>3. \A u \in Threads \ {t} :
             /\ \A z \in Ports : u \in Range(bl2[z]) <=> u \in Range(blocked[z])
             /\ \A x \in Queues : u \in Range(mq[x].waiters) <=> u \in Range(mq[x].waiters)
      BY <1>7
    <2>4. k2[t].waiting => k2[t].state \in {"SEND_IN_PROGRESS", "RCV_IN_PROGRESS"}
      BY <1>4, IdleIs
    <2>5. \A u \in Threads \ {t} : k2[u] = th[u] /\ at2[u] = pc[u] /\ c2[u] = call[u]
      BY <1>4, <1>5
    <2>6. pc[t] # "send_go" /\ k2 \in [Threads -> ThreadRecords] /\ t \in Threads
      BY <1>1, <1>4
    <2> QED BY ONLY <1>8, <2>1, <2>2, <2>3, <2>4, <2>5, <2>6, OneActs
  <1>10. Apart(InQueues(mq), Load(k2, at2, c2), free \cup {m})
    <2>1. PICK I, car, car2 : I = InQueues(mq) /\ car = Load(th, pc, call) /\ car2 = Load(k2, at2, c2)
      OBVIOUS
    <2>2. Apart(I, car, free) /\ NoMessage \notin I
      BY <2>1, MessageQueueAssumption DEF Base, Fine, InQueues
    <2>3. car2[t] = NoMessage /\ \A u \in Threads \ {t} : car2[u] = car[u]
      BY <1>4, <1>5, <2>1, IdleIs DEF Load
    <2>4. car[t] = m \/ (m \in free /\ car[t] = NoMessage)
      BY <1>1, <2>1
    <2>5. Apart(I, car2, free \cup {m})
      BY <2>2, <2>3, <2>4, ApartFreed
    <2> QED BY <2>1, <2>5
  <1>11. Fine(mq, th)'
    BY <1>3, <1>6, <1>9, <1>10 DEF Base, Fine, Ordered
  <1>12. Types'
    BY <1>3, <1>5, <1>6, <1>7 DEF Base, Types, Settled
  <1>13. Housed(mq, port, active_set)'
    <2>1. \A x \in Queues : \A e \in Range(mq[x].kmsgs) : dest'[e] = dest[e]
      <3>1. \A x \in Queues : Range(mq[x].kmsgs) \subseteq Messages
        BY RangesIn DEF Base, Fine
      <3> QED BY <1>1, <1>6, <3>1
    <2> QED BY <2>1 DEF Base, Housed
  <1>14. (\A x \in Messages \ free : dest[x] \in Ports)'
    BY <1>6 DEF Base
  <1>15. CountsExact'
    <2>1. ASSUME NEW x \in Messages, x # m, NEW u \in Threads
          PROVE  call'[u].msg # x <=> call[u].msg # x
      BY <1>1, <1>3, <1>5, <2>1, MessageQueueAssumption, IdleIs
    <2>2. ASSUME NEW p \in Ports, NEW x \in Messages
          PROVE  x \in Counted(p)' <=> x \in Counted(p)
      <3>1. CASE x = m
        BY <1>1, <1>6, <3>1 DEF Counted
      <3>2. CASE x # m
        BY <1>6, <2>1, <3>2 DEF Counted
      <3> QED BY <3>1, <3>2
    <2>3. \A p \in Ports : Counted(p)' = Counted(p)
      BY <2>2 DEF Counted
    <2> QED BY <2>3 DEF Base, CountsExact
  <1>16. SlotsPromised'
    <2> SUFFICES ASSUME NEW z \in Ports, port[z].active, bl2[z] # <<>>
                 PROVE  port[z].qlimit <= port[z].msgcount + Cardinality(Promised(z)')
      BY <1>3 DEF SlotsPromised
    <2>1. t \notin Promised(z)
      <3>1. Order(t, th[t], pc[t], call[t]) /\ Listed(t, th[t], call[t], blocked, mq)
        BY <1>8 DEF Ordered
      <3> QED BY <1>1, <3>1 DEF Promised, Listed
    <2>2. Promised(z)' = Promised(z)
      BY <1>3, <1>5, <1>7, <2>1 DEF Promised
    <2>3. blocked[z] # <<>>
      BY <1>3, StillBlocked
    <2> QED BY <2>2, <2>3 DEF Base, SlotsPromised
  <1> QED BY <1>11, <1>12, <1>13, <1>14, <1>15, <1>16 DEF Base

\* t waits for a slot, at the end of those that do.
LEMMA SenderBlocks ==
    ASSUME Base, NEW t \in Threads, t \in Senders, NEW m \in Messages, Bears(t, m),
           NEW p \in Ports, NEW option \in AllOptions, option # "poll",
           th[t].state = "SUCCESS", pc[t] = "send_block" => call[t].queue = p,
           ~MayQueue(p, option),
           th' = [th EXCEPT ![t] = WillWait("SEND_IN_PROGRESS", option)],
           blocked' = [blocked EXCEPT ![p] = Append(blocked[p], t)],
           pc' = [pc EXCEPT ![t] = "send_block"],
           call' = [call EXCEPT ![t] = [NoCall EXCEPT !.msg = m, !.queue = p, !.option = option]],
           Hold(m, p), UNCHANGED <<port, active_set, mq, panicked>>
    PROVE  Base'
  <1>1. /\ \A x \in Queues : m \notin Range(mq[x].kmsgs) /\ t \notin Range(mq[x].waiters)
        /\ \A u \in Threads \ {t} : call[u].msg # m
        /\ th[t].kmsg = NoMessage /\ call[t].msg \in {m, NoMessage}
        /\ Load(th, pc, call)[t] = m \/ (m \in free /\ Load(th, pc, call)[t] = NoMessage)
        /\ \A z \in Ports : m \notin Counted(z)
        /\ th[t].state \in {"SUCCESS", "SEND_IN_PROGRESS"} /\ pc[t] # "send_go"
        /\ m # NoMessage
    BY SenderBears
  <1>2. /\ th \in [Threads -> ThreadRecords] /\ port \in [Ports -> PortRecords]
        /\ pc \in [Threads -> {"user", "send_block", "send_go", "receive_block", "got"}]
        /\ call \in [Threads -> CallRecords] /\ dest \in [Messages -> Ports \cup {NoPort}]
        /\ free \subseteq Messages /\ blocked \in [Ports -> Seq(Senders)]
        /\ \A z \in Ports : IsInjective(blocked[z])
    BY DEF Base, Types, Settled, Fine
  <1>3. PICK h : h = WillWait("SEND_IN_PROGRESS", option)
    OBVIOUS
  <1>4. h \in ThreadRecords /\ h.state = "SEND_IN_PROGRESS" /\ h.kmsg = NoMessage
    <2>1. PICK state : state = "SEND_IN_PROGRESS"
      OBVIOUS
    <2>2. state \in IthStates /\ h = WillWait(state, option)
      BY <1>3, <2>1 DEF IthStates
    <2>3. h \in ThreadRecords /\ h.state = state /\ h.kmsg = NoMessage
      BY ONLY <2>2, WillWaitIs
    <2> QED BY <2>1, <2>3
  <1>5. PICK c : c = [NoCall EXCEPT !.msg = m, !.queue = p, !.option = option]
    OBVIOUS
  <1>6. c \in CallRecords /\ c.queue = p /\ c.msg = m /\ c.option = option
    BY <1>5 DEF NoCall, CallRecords, Queues, Sizes
  <1>7. PICK k2, at2, c2, bl2 : k2 = th' /\ at2 = pc' /\ c2 = call' /\ bl2 = blocked'
    OBVIOUS
  <1>8. /\ k2 \in [Threads -> ThreadRecords] /\ k2[t] = h
        /\ \A u \in Threads \ {t} : k2[u] = th[u]
    BY <1>2, <1>3, <1>4, <1>7
  <1>9. /\ at2 \in [Threads -> {"user", "send_block", "send_go", "receive_block", "got"}]
        /\ c2 \in [Threads -> CallRecords] /\ at2[t] = "send_block" /\ c2[t] = c
        /\ \A u \in Threads \ {t} : at2[u] = pc[u] /\ c2[u] = call[u]
    BY <1>2, <1>5, <1>6, <1>7
  <1>10. /\ dest' \in [Messages -> Ports \cup {NoPort}] /\ dest'[m] = p
         /\ \A x \in Messages \ {m} : dest'[x] = dest[x]
         /\ free' = free \ {m}
    BY <1>2 DEF Hold
  <1>11. Ordered(mq, th, pc, call, blocked)
    BY DEF Base, Fine, Ordered
  <1>12. \A z \in Ports : t \notin Range(blocked[z])
    <2>1. Listed(t, th[t], call[t], blocked, mq)
      BY <1>11 DEF Ordered
    <2> QED BY <2>1 DEF Listed
  <1>13. PICK w : w = Append(blocked[p], t)
    OBVIOUS
  <1>14. w \in Seq(Senders) /\ IsInjective(w) /\ Range(w) = Range(blocked[p]) \cup {t}
    <2>1. PICK v : v = blocked[p]
      OBVIOUS
    <2>2. v \in Seq(Senders) /\ IsInjective(v) /\ t \notin Range(v)
      BY <1>2, <1>12, <2>1
    <2> QED BY <1>13, <2>1, <2>2, Appended
  <1>15. /\ bl2 \in [Ports -> Seq(Senders)] /\ bl2[p] = w
         /\ \A z \in Ports \ {p} : bl2[z] = blocked[z]
         /\ \A z \in Ports : IsInjective(bl2[z])
    BY <1>2, <1>7, <1>13, <1>14
  <1>16. Ordered(mq, k2, at2, c2, bl2)
    <2>1. Order(t, k2[t], at2[t], c2[t])
      BY <1>1, <1>4, <1>6, <1>8, <1>9 DEF Order
    <2>2. Listed(t, k2[t], c2[t], bl2, mq)
      BY <1>1, <1>4, <1>6, <1>8, <1>9, <1>12, <1>14, <1>15 DEF Listed
    <2>3. \A u \in Threads \ {t} :
             /\ \A z \in Ports : u \in Range(bl2[z]) <=> u \in Range(blocked[z])
             /\ \A x \in Queues : u \in Range(mq[x].waiters) <=> u \in Range(mq[x].waiters)
      BY <1>14, <1>15
    <2>4. k2[t].waiting => k2[t].state \in {"SEND_IN_PROGRESS", "RCV_IN_PROGRESS"}
      BY <1>4, <1>8
    <2>5. \A u \in Threads \ {t} : k2[u] = th[u] /\ at2[u] = pc[u] /\ c2[u] = call[u]
      BY <1>8, <1>9
    <2>6. pc[t] # "send_go" /\ k2 \in [Threads -> ThreadRecords] /\ t \in Threads
      BY <1>1, <1>8
    <2> QED BY ONLY <1>11, <2>1, <2>2, <2>3, <2>4, <2>5, <2>6, OneActs
  <1>17. Apart(InQueues(mq), Load(k2, at2, c2), free \ {m})
    <2>1. PICK I, car, car1, car2, fr : /\ I = InQueues(mq) /\ car = Load(th, pc, call)
                                        /\ car1 = [u \in Threads |-> IF u = t THEN NoMessage ELSE car[u]]
                                        /\ car2 = Load(k2, at2, c2) /\ fr = free \cup {m}
      OBVIOUS
    <2>2. Apart(I, car, free) /\ NoMessage \notin I
      BY <2>1, MessageQueueAssumption DEF Base, Fine, InQueues
    <2>3. car1[t] = NoMessage /\ \A u \in Threads \ {t} : car1[u] = car[u]
      BY <2>1
    <2>4. car[t] = m \/ (m \in free /\ car[t] = NoMessage)
      BY <1>1, <2>1
    <2>5. Apart(I, car1, free \cup {m})
      BY <2>2, <2>3, <2>4, ApartFreed
    <2>6. Apart(I, car1, fr) /\ m \in fr
      BY <2>1, <2>5
    <2>7. car2[t] = m /\ \A u \in Threads \ {t} : car2[u] = car1[u]
      BY <1>6, <1>8, <1>9, <2>1 DEF Load
    <2>8. t \in Threads /\ m \in Messages
      OBVIOUS
    <2>9. Apart(I, car2, fr \ {m})
      BY ONLY <2>3, <2>6, <2>7, <2>8, ApartHeld
    <2>10. fr \ {m} = free \ {m}
      BY <2>1
    <2> QED BY <2>1, <2>9, <2>10
  <1>18. Fine(mq, th)'
    BY <1>7, <1>10, <1>16, <1>17 DEF Base, Fine, Ordered
  <1>19. Types'
    BY <1>7, <1>9, <1>10, <1>15 DEF Base, Types, Settled
  <1>20. Housed(mq, port, active_set)'
    <2>1. \A x \in Queues : \A e \in Range(mq[x].kmsgs) : dest'[e] = dest[e]
      <3>1. \A x \in Queues : Range(mq[x].kmsgs) \subseteq Messages
        BY RangesIn DEF Base, Fine
      <3> QED BY <1>1, <1>10, <3>1
    <2> QED BY <2>1 DEF Base, Housed
  <1>21. (\A x \in Messages \ free : dest[x] \in Ports)'
    BY <1>10 DEF Base
  <1>22. CountsExact'
    <2>1. ASSUME NEW x \in Messages, x # m, NEW u \in Threads
          PROVE  call'[u].msg # x <=> call[u].msg # x
      BY <1>1, <1>6, <1>7, <1>9, <2>1, MessageQueueAssumption
    <2>2. ASSUME NEW z \in Ports, NEW x \in Messages
          PROVE  x \in Counted(z)' <=> x \in Counted(z)
      <3>1. CASE x = m
        BY <1>1, <1>6, <1>7, <1>9, <3>1 DEF Counted
      <3>2. CASE x # m
        BY <1>10, <2>1, <3>2 DEF Counted
      <3> QED BY <3>1, <3>2
    <2>3. \A z \in Ports : Counted(z)' = Counted(z)
      BY <2>2 DEF Counted
    <2> QED BY <2>3 DEF Base, CountsExact
  <1>23. SlotsPromised'
    <2> SUFFICES ASSUME NEW z \in Ports, port[z].active, bl2[z] # <<>>
                 PROVE  port[z].qlimit <= port[z].msgcount + Cardinality(Promised(z)')
      BY <1>7 DEF SlotsPromised
    <2>1. CASE z # p
      <3>1. Promised(z)' = Promised(z)
        BY <1>6, <1>7, <1>9, <1>15, <2>1 DEF Promised
      <3> QED BY <1>15, <2>1, <3>1 DEF Base, SlotsPromised
    <2>2. CASE z = p
      <3>1. Cardinality(Promised(z)') \in Nat
        <4>1. Promised(z)' \subseteq Threads
          BY DEF Promised
        <4> QED BY <4>1, MessageQueueAssumption, FS_Subset, FS_CardinalityType
      <3>2. port[p] \in PortRecords
        BY <1>2
      <3>3. port[p].msgcount \in Nat /\ port[p].qlimit \in Nat
        <4>1. Cardinality(Messages) \in Nat /\ MaxQlimit \in Nat
          BY MessageQueueAssumption, FS_CardinalityType
        <4> QED BY <3>2, <4>1 DEF PortRecords
      <3>4. ~(port[p].msgcount < port[p].qlimit)
        BY DEF MayQueue
      <3> QED BY <2>2, <3>1, <3>3, <3>4
    <2> QED BY <2>1, <2>2
  <1> QED BY <1>18, <1>19, <1>20, <1>21, <1>22, <1>23 DEF Base

\* What t offers m to: the queue x of m's port p, t itself being idle.
Offered(t, p, x) ==
    [kmsgs |-> mq[x].kmsgs, waiters |-> mq[x].waiters, seqno |-> port[p].seqno,
     th |-> [th EXCEPT ![t] = IdleThread]]

\* b is what becomes of it; of those that leave t is still to wake one at most.
Given(t, m, p, x, o, b) ==
    /\ Offerable(o) /\ Dealt(o, b, {m})
    /\ o.kmsgs = mq[x].kmsgs /\ o.waiters = mq[x].waiters
    /\ o.th[t] = IdleThread /\ \A u \in Threads \ {t} : o.th[u] = th[u]
    /\ \A u \in Left(o, b) : ~b.th[u].waiting \/ (pc'[t] = "send_go" /\ call'[t].receiver = u)
    /\ pc'[t] = "user" \/ (pc'[t] = "send_go" /\ call'[t].receiver \in Threads)
    /\ pc' \in [Threads -> {"user", "send_block", "send_go", "receive_block", "got"}]
    /\ call' \in [Threads -> CallRecords] /\ call'[t].msg = NoMessage
    /\ \A u \in Threads \ {t} : pc'[u] = pc[u] /\ call'[u] = call[u]
    /\ port' = [port EXCEPT ![p].msgcount = @ + 1, ![p].seqno = b.seqno]
    /\ mq' = [mq EXCEPT ![x] = [kmsgs |-> b.kmsgs, waiters |-> b.waiters]]
    /\ th' = b.th

LEMMA AcceptIs ==
    ASSUME Base, NEW t \in Threads, NEW m \in Messages, Bears(t, m), NEW p \in Ports,
           Accept(t, m, p), NEW x \in Queues, x = Mqueue(p), NEW o, o = Offered(t, p, x),
           NEW b, b = Offer(o, m)
    PROVE  Given(t, m, p, x, o, b)
  <1>1. /\ \A z \in Queues : m \notin Range(mq[z].kmsgs) /\ t \notin Range(mq[z].waiters)
    BY SenderBears
  <1>2. /\ th \in [Threads -> ThreadRecords] /\ port \in [Ports -> PortRecords]
        /\ pc \in [Threads -> {"user", "send_block", "send_go", "receive_block", "got"}]
        /\ call \in [Threads -> CallRecords] /\ QueuesOK(mq)
    BY DEF Base, Types, Settled, Fine
  <1>3. PICK k : k = [th EXCEPT ![t] = IdleThread]
    OBVIOUS
  <1>4. k \in [Threads -> ThreadRecords] /\ k[t] = IdleThread /\ \A u \in Threads \ {t} : k[u] = th[u]
    BY <1>2, <1>3, IdleIs
  <1>5. PICK u, ws, n : u = mq[x].kmsgs /\ ws = mq[x].waiters /\ n = port[p].seqno
    OBVIOUS
  <1>6. o = [kmsgs |-> u, waiters |-> ws, seqno |-> n, th |-> k]
    BY <1>3, <1>5 DEF Offered
  <1>7. o.kmsgs = u /\ o.waiters = ws /\ o.seqno = n /\ o.th = k
    BY ONLY <1>6
  <1>8. /\ u \in Seq(Messages) /\ IsInjective(u) /\ ws \in Seq(Receivers) /\ IsInjective(ws)
        /\ Range(ws) \subseteq Threads
    BY <1>2, <1>5, RangesIn
  <1>9. n \in Seqnos
    <2>1. port[p] \in PortRecords
      BY <1>2
    <2> QED BY <1>5, <2>1 DEF PortRecords
  <1>10. \A r \in Range(ws) : k[r].kmsg = NoMessage
    <2> SUFFICES ASSUME NEW r \in Range(ws) PROVE k[r].kmsg = NoMessage
      OBVIOUS
    <2>1. r \in Threads /\ r # t
      BY <1>1, <1>5, <1>8
    <2>2. Order(r, th[r], pc[r], call[r]) /\ Listed(r, th[r], call[r], blocked, mq)
      BY <2>1 DEF Base, Fine
    <2>3. th[r].state = "RCV_IN_PROGRESS"
      BY <1>5, <2>2 DEF Listed
    <2>4. th[r].kmsg = NoMessage
      BY <1>2, <2>1, <2>2, <2>3 DEF Order
    <2> QED BY <1>4, <2>1, <2>4
  <1>11. Offerable(o)
    <2>1. o \in Offers
      BY <1>4, <1>6, <1>8, <1>9 DEF Offers
    <2>2. ws # <<>> => u = <<>>
      BY <1>2, <1>5 DEF QueuesOK
    <2> QED BY <1>7, <1>8, <1>10, <2>1, <2>2 DEF Offerable
  <1>12. m \notin Range(o.kmsgs)
    BY <1>1, <1>5, <1>7
  <1>13. PICK r : r = Chosen(o, m)
    OBVIOUS
  <1>14. /\ port' = [port EXCEPT ![p].msgcount = @ + 1, ![p].seqno = b.seqno]
         /\ mq' = [mq EXCEPT ![x] = [kmsgs |-> b.kmsgs, waiters |-> b.waiters]]
         /\ th' = b.th
         /\ IF r = NoThread
            THEN EndCall(t)
            ELSE /\ pc' = [pc EXCEPT ![t] = "send_go"]
                 /\ call' = [call EXCEPT ![t] = [NoCall EXCEPT !.receiver = r]]
    BY <1>13 DEF Accept, Offered
  <1>15. CASE FirstFit(m, o.waiters) = 0
    <2>1. Dealt(o, b, {m}) /\ r = NoThread /\ \A v \in Left(o, b) : ~b.th[v].waiting
      BY <1>11, <1>12, <1>13, <1>15, OfferQueues
    <2>2. /\ pc' \in [Threads -> {"user", "send_block", "send_go", "receive_block", "got"}]
          /\ call' \in [Threads -> CallRecords] /\ pc'[t] = "user" /\ call'[t].msg = NoMessage
          /\ \A v \in Threads \ {t} : pc'[v] = pc[v] /\ call'[v] = call[v]
      BY <1>2, <1>14, <2>1, IdleIs DEF EndCall
    <2> QED BY <1>4, <1>5, <1>7, <1>11, <1>14, <2>1, <2>2 DEF Given
  <1>16. CASE FirstFit(m, o.waiters) \in 1..Len(o.waiters)
    <2>1. /\ Dealt(o, b, {m}) /\ r \in Left(o, b) /\ r \in Threads
          /\ \A v \in Left(o, b) \ {r} : ~b.th[v].waiting
      BY <1>11, <1>12, <1>13, <1>16, OfferHandsOver
    <2>2. PICK c : c = [NoCall EXCEPT !.receiver = r]
      OBVIOUS
    <2>3. c \in CallRecords /\ c.receiver = r /\ c.msg = NoMessage
      BY <2>1, <2>2 DEF NoCall, CallRecords, Sizes, AllOptions
    <2>4. pc' = [pc EXCEPT ![t] = "send_go"] /\ call' = [call EXCEPT ![t] = c]
      BY <1>14, <2>1, <2>2, MessageQueueAssumption
    <2>5. /\ pc' \in [Threads -> {"user", "send_block", "send_go", "receive_block", "got"}]
          /\ call' \in [Threads -> CallRecords] /\ pc'[t] = "send_go" /\ call'[t] = c
          /\ \A v \in Threads \ {t} : pc'[v] = pc[v] /\ call'[v] = call[v]
      BY <1>2, <2>3, <2>4
    <2> QED BY <1>4, <1>5, <1>7, <1>11, <1>14, <2>1, <2>3, <2>5 DEF Given
  <1>17. o.waiters \in Seq(Receivers)
    BY <1>7, <1>8
  <1> QED BY <1>15, <1>16, <1>17, FirstFitIs

\* The queue and the threads after m has been given.
LEMMA GivenFine ==
    ASSUME Base, NEW t \in Threads, NEW m \in Messages, Bears(t, m), NEW p \in Ports,
           NEW x \in Queues, NEW o, NEW b, Given(t, m, p, x, o, b), Unlisted(t, blocked')
    PROVE  /\ QueuesOK(mq') /\ Ordered(mq', th', pc', call', blocked')
           /\ Apart(InQueues(mq'), Load(th', pc', call'), free \ {m})
           /\ \A z \in Queues : /\ Range(mq'[z].kmsgs) \subseteq Range(mq[z].kmsgs) \cup {m}
                                /\ mq'[z].waiters # <<>> => mq[z].waiters # <<>>
           /\ \A z \in Queues \ {x} : m \notin Range(mq'[z].kmsgs)
           /\ b.seqno \in Seqnos
  <1>1. /\ \A z \in Queues : m \notin Range(mq[z].kmsgs) /\ t \notin Range(mq[z].waiters)
        /\ \A u \in Threads \ {t} : call[u].msg # m
        /\ th[t].kmsg = NoMessage /\ call[t].msg \in {m, NoMessage}
        /\ Load(th, pc, call)[t] = m \/ (m \in free /\ Load(th, pc, call)[t] = NoMessage)
        /\ th[t].state \in {"SUCCESS", "SEND_IN_PROGRESS"} /\ pc[t] # "send_go"
        /\ m # NoMessage
    BY SenderBears
  <1>2. /\ th \in [Threads -> ThreadRecords] /\ QueuesOK(mq) /\ Settled /\ Fine(mq, th)
        /\ mq \in [Queues -> QueueRecords]
    BY DEF Base, Types, Settled, Fine, QueuesOK
  <1>3. PICK q2, k2, at2, c2, bl2, L :
            q2 = mq' /\ k2 = th' /\ at2 = pc' /\ c2 = call' /\ bl2 = blocked' /\ L = Left(o, b)
    OBVIOUS
  <1>4. /\ Offerable(o) /\ Dealt(o, b, {m})
        /\ o.kmsgs = mq[x].kmsgs /\ o.waiters = mq[x].waiters
        /\ o.th[t] = IdleThread /\ \A u \in Threads \ {t} : o.th[u] = th[u]
        /\ \A u \in L : ~k2[u].waiting \/ (at2[t] = "send_go" /\ c2[t].receiver = u)
        /\ at2[t] = "user" \/ (at2[t] = "send_go" /\ c2[t].receiver \in Threads)
        /\ at2 \in [Threads -> {"user", "send_block", "send_go", "receive_block", "got"}]
        /\ c2 \in [Threads -> CallRecords] /\ c2[t].msg = NoMessage
        /\ \A u \in Threads \ {t} : at2[u] = pc[u] /\ c2[u] = call[u]
        /\ k2 = b.th
        /\ q2 = [mq EXCEPT ![x] = [kmsgs |-> b.kmsgs, waiters |-> b.waiters]]
    BY <1>3 DEF Given
  <1>5. /\ Offerable(b) /\ b \in Offers /\ b.kmsgs \in Seq(Messages) /\ b.waiters \in Seq(Receivers)
        /\ b.seqno \in Seqnos /\ k2 \in [Threads -> ThreadRecords]
        /\ IsInjective(b.kmsgs) /\ IsInjective(b.waiters)
        /\ b.waiters # <<>> => b.kmsgs = <<>>
    BY <1>4 DEF Dealt, Offerable, Offers
  <1>6. /\ Range(mq[x].waiters) \subseteq Threads /\ Range(mq[x].kmsgs) \subseteq Messages
    BY <1>2, RangesIn
  <1>7. /\ L \subseteq Range(mq[x].waiters) /\ L \subseteq Threads /\ t \notin L
        /\ Range(b.waiters) = Range(mq[x].waiters) \ L
        /\ Range(mq[x].kmsgs) \subseteq Range(b.kmsgs)
        /\ Range(b.kmsgs) \subseteq Range(mq[x].kmsgs) \cup {m}
    BY <1>1, <1>3, <1>4, <1>6 DEF Dealt, Left
  <1>8. PICK g : g = [kmsgs |-> b.kmsgs, waiters |-> b.waiters]
    OBVIOUS
  <1>9. g \in QueueRecords /\ g.kmsgs = b.kmsgs /\ g.waiters = b.waiters
    BY <1>5, <1>8 DEF QueueRecords
  <1>10. q2 \in [Queues -> QueueRecords] /\ q2[x] = g /\ \A z \in Queues \ {x} : q2[z] = mq[z]
    BY <1>2, <1>4, <1>8, <1>9
  <1>11. QueuesOK(q2)
    <2>1. \A z \in Queues : IsInjective(q2[z].kmsgs) /\ IsInjective(q2[z].waiters)
      BY <1>2, <1>5, <1>9, <1>10 DEF QueuesOK
    <2>2. \A z \in Queues : q2[z].waiters # <<>> => q2[z].kmsgs = <<>>
      BY <1>2, <1>5, <1>9, <1>10 DEF QueuesOK
    <2>3. ASSUME NEW y \in Queues, NEW z \in Queues, y # z
          PROVE  Range(q2[y].kmsgs) \cap Range(q2[z].kmsgs) = {}
      <3>1. Range(mq[y].kmsgs) \cap Range(mq[z].kmsgs) = {}
        BY <1>2, <2>3 DEF QueuesOK
      <3>2. CASE y = x
        BY <1>1, <1>7, <1>9, <1>10, <2>3, <3>1, <3>2
      <3>3. CASE z = x
        BY <1>1, <1>7, <1>9, <1>10, <2>3, <3>1, <3>3
      <3>4. CASE y # x /\ z # x
        BY <1>10, <3>1, <3>4
      <3> QED BY <3>2, <3>3, <3>4
    <2> QED BY <1>10, <2>1, <2>2, <2>3 DEF QueuesOK
  <1>12. \A u \in Threads \ L : k2[u] = o.th[u]
    BY <1>3, <1>4 DEF Dealt
  <1>13. /\ k2[t] = IdleThread
         /\ \A u \in Threads : u \notin L /\ u # t => k2[u] = th[u]
    BY <1>4, <1>7, <1>12
  <1>14. \A u \in L : /\ k2[u].state \in {"TOO_LARGE", "SUCCESS"}
                      /\ k2[u].state = "TOO_LARGE" <=> k2[u].kmsg = NoMessage
                      /\ k2[u].kmsg \in {m, NoMessage}
                      /\ k2[u].kmsg = m => m \notin Range(b.kmsgs)
    BY <1>1, <1>3, <1>4 DEF Dealt
  <1>15. \A u \in Threads \ {t} : \A z \in Ports : u \in Range(bl2[z]) <=> u \in Range(blocked[z])
    BY <1>3 DEF Unlisted
  <1>16. \A u \in Threads \ L : \A z \in Queues : u \in Range(q2[z].waiters) <=> u \in Range(mq[z].waiters)
    BY <1>7, <1>9, <1>10
  <1>17. ASSUME NEW u \in L
         PROVE  /\ Order(u, k2[u], at2[u], c2[u]) /\ Listed(u, k2[u], c2[u], bl2, q2)
                /\ pc[u] = "receive_block" /\ th[u].kmsg = NoMessage
    <2>1. u \in Threads /\ u # t /\ u \in Range(mq[x].waiters)
      BY <1>7
    <2>2. \A y \in Queues : u \notin Range(q2[y].waiters)
      <3>1. Listed(u, th[u], call[u], blocked, mq)
        BY <1>2, <2>1 DEF Fine
      <3>2. \A y \in Queues \ {x} : u \notin Range(mq[y].waiters)
        BY <2>1, <3>1 DEF Listed
      <3> QED BY <1>7, <1>9, <1>10, <3>2
    <2>3. PICK h : h = k2[u]
      OBVIOUS
    <2>4. \/ h.state \in {"TOO_LARGE", "PORT_DIED", "PORT_CHANGED"} /\ h.kmsg = NoMessage
          \/ h.state = "SUCCESS" /\ h.kmsg # NoMessage
      BY <1>14, <2>3
    <2>5. /\ Order(u, h, pc[u], call[u]) /\ Listed(u, h, call[u], blocked, q2)
          /\ pc[u] = "receive_block" /\ th[u].kmsg = NoMessage
      BY <1>2, <2>1, <2>2, <2>4, OneLeaves
    <2>6. Order(u, h, at2[u], c2[u])
      BY <1>4, <2>1, <2>5
    <2>7. Listed(u, h, c2[u], bl2, q2)
      BY <1>4, <1>15, <2>1, <2>5 DEF Listed
    <2> QED BY <2>3, <2>5, <2>6, <2>7
  <1>18. ASSUME NEW u \in Threads, u \notin L, u # t
         PROVE  Order(u, k2[u], at2[u], c2[u]) /\ Listed(u, k2[u], c2[u], bl2, q2)
    <2>1. Order(u, th[u], pc[u], call[u]) /\ Listed(u, th[u], call[u], blocked, mq)
      BY <1>2 DEF Fine
    <2>2. Order(u, k2[u], at2[u], c2[u])
      BY <1>4, <1>13, <1>18, <2>1
    <2>3. Listed(u, k2[u], c2[u], bl2, q2)
      BY <1>4, <1>13, <1>15, <1>16, <1>18, <2>1 DEF Listed
    <2> QED BY <2>2, <2>3
  <1>19. Order(t, k2[t], at2[t], c2[t]) /\ Listed(t, k2[t], c2[t], bl2, q2)
    <2>1. Order(t, k2[t], at2[t], c2[t])
      BY <1>4, <1>13, IdleIs DEF Order
    <2>2. \A z \in Ports : t \notin Range(bl2[z])
      BY <1>3 DEF Unlisted
    <2>3. \A z \in Queues : t \notin Range(q2[z].waiters)
      BY <1>1, <1>7, <1>16
    <2> QED BY <1>13, <2>1, <2>2, <2>3, IdleIs DEF Listed
  <1>20. Awake(k2, at2, c2)
    <2> SUFFICES ASSUME NEW u \in Threads, k2[u].waiting,
                        k2[u].state \notin {"SEND_IN_PROGRESS", "RCV_IN_PROGRESS"}
                 PROVE  \E v \in Threads : at2[v] = "send_go" /\ c2[v].receiver = u
      BY DEF Awake
    <2>1. CASE u \in L
      BY <1>4, <2>1
    <2>2. CASE u \notin L
      <3>1. u # t /\ k2[u] = th[u]
        BY <1>13, <2>2, IdleIs
      <3>2. PICK v \in Threads : pc[v] = "send_go" /\ call[v].receiver = u
        BY <1>2, <3>1 DEF Fine, Awake
      <3> QED BY <1>1, <1>4, <3>2
    <2> QED BY <2>1, <2>2
  <1>21. Ordered(q2, k2, at2, c2, bl2)
    BY <1>5, <1>17, <1>18, <1>19, <1>20 DEF Ordered
  <1>22. Apart(InQueues(q2), Load(k2, at2, c2), free \ {m})
    <2>1. PICK I, J, car, car1, car2, fr, M :
              /\ I = InQueues(mq) /\ J = InQueues(q2) /\ car = Load(th, pc, call)
              /\ car1 = [u \in Threads |-> IF u = t THEN NoMessage ELSE car[u]]
              /\ car2 = Load(k2, at2, c2) /\ M = {m} /\ fr = free \cup M
      OBVIOUS
    <2>2. Apart(I, car, free) /\ NoMessage \notin I /\ NoMessage \notin J
      BY <1>2, <2>1, MessageQueueAssumption DEF Fine, InQueues
    <2>3. car1[t] = NoMessage /\ \A u \in Threads \ {t} : car1[u] = car[u]
      BY <2>1
    <2>4. car[t] = m \/ (m \in free /\ car[t] = NoMessage)
      BY <1>1, <2>1
    <2>5. Apart(I, car1, free \cup {m})
      BY <2>2, <2>3, <2>4, ApartFreed
    <2>6. Apart(I, car1, fr) /\ M \subseteq fr /\ M \subseteq Messages /\ L \subseteq Threads
      BY <1>7, <2>1, <2>5
    <2>7. \A u \in L : car1[u] = NoMessage /\ car2[u] = k2[u].kmsg
      BY <1>4, <1>7, <1>17, <2>1 DEF Load
    <2>8. \A u \in Threads \ L : car2[u] = car1[u]
      <3>1. car2[t] = NoMessage
        BY <1>4, <1>13, <2>1, IdleIs DEF Load
      <3>2. \A u \in Threads : u \notin L /\ u # t => car2[u] = car[u]
        BY <1>4, <1>13, <2>1 DEF Load
      <3> QED BY <2>3, <3>1, <3>2
    <2>9. \A y \in Messages : y \in J <=> y \in I \/ y \in Range(b.kmsgs)
      <3>1. \A z \in Queues \ {x} : Range(q2[z].kmsgs) = Range(mq[z].kmsgs)
        BY <1>10
      <3>2. Range(q2[x].kmsgs) = Range(b.kmsgs)
        BY <1>9, <1>10
      <3> QED BY <1>7, <2>1, <3>1, <3>2 DEF InQueues
    <2>10. I \subseteq J /\ J \subseteq I \cup M
      <3>1. \A y \in Range(mq[x].kmsgs) : y \in I
        BY <1>6, <2>1 DEF InQueues
      <3>2. I \subseteq Messages /\ J \subseteq Messages
        BY <2>1 DEF InQueues
      <3> QED BY <1>7, <2>1, <2>9, <3>1, <3>2
    <2>11. m \in J <=> m \in Range(b.kmsgs)
      <3>1. m \notin I
        BY <1>1, <2>1 DEF InQueues
      <3> QED BY <2>9, <3>1
    <2>12. \A u \in L : car2[u] = NoMessage \/ car2[u] \in M \ J
      BY <1>14, <2>1, <2>7, <2>11
    <2>13. \A y \in M : y \in J \/ \E u \in L : car2[u] = y
      <3>1. m \in Range(b.kmsgs) \/ \E u \in L : k2[u].kmsg = m
        BY <1>3, <1>4 DEF Dealt
      <3> QED BY <2>1, <2>7, <2>11, <3>1
    <2>14. \A u, v \in L : car2[u] = car2[v] /\ car2[u] # NoMessage => u = v
      <3>1. \A u, v \in L : k2[u].kmsg = k2[v].kmsg /\ k2[u].kmsg # NoMessage => u = v
        BY <1>3, <1>4 DEF Dealt
      <3> QED BY <2>7, <3>1
    <2>15. \A u \in L : car1[u] = NoMessage
      BY <2>7
    <2>16. Apart(J, car2, fr \ M)
      BY ONLY <2>2, <2>6, <2>8, <2>10, <2>12, <2>13, <2>14, <2>15, ApartDealt
    <2>17. fr \ M = free \ {m}
      BY <2>1
    <2> QED BY <2>1, <2>16, <2>17
  <1>23. \A z \in Queues : /\ Range(q2[z].kmsgs) \subseteq Range(mq[z].kmsgs) \cup {m}
                           /\ q2[z].waiters # <<>> => mq[z].waiters # <<>>
    <2>1. b.waiters # <<>> => mq[x].waiters # <<>>
      <3>1. mq[x].waiters = <<>> => Range(b.waiters) = {}
        BY <1>7, Nobody
      <3> QED BY <1>5, <3>1, Emptied
    <2> QED BY <1>7, <1>9, <1>10, <2>1
  <1>24. \A z \in Queues \ {x} : m \notin Range(q2[z].kmsgs)
    BY <1>1, <1>10
  <1> QED BY <1>3, <1>5, <1>11, <1>21, <1>22, <1>23, <1>24

\* The message is queued or handed over; t had been promised the slot it takes,
\* or found one free.
LEMMA SenderAccepted ==
    ASSUME Base, NEW t \in Threads, NEW m \in Messages, Bears(t, m), NEW p \in Ports,
           port[p].active, pc[t] = "send_block" => call[t].queue = p,
           Accept(t, m, p), Unlisted(t, blocked'), UNCHANGED <<active_set, panicked>>
    PROVE  Base'
  <1>1. PICK x : x = Mqueue(p)
    OBVIOUS
  <1>2. /\ port \in [Ports -> PortRecords] /\ port[p] \in PortRecords
        /\ mq \in [Queues -> QueueRecords] /\ QueuesOK(mq)
        /\ dest \in [Messages -> Ports \cup {NoPort}] /\ free \subseteq Messages
    BY DEF Base, Types, Settled, Fine, QueuesOK
  <1>3. x \in Queues /\ Home(port, p) = x
    BY <1>1, <1>2 DEF Mqueue, Home, Queues, PortRecords
  <1>4. PICK o : o = Offered(t, p, x)
    OBVIOUS
  <1>5. PICK b : b = Offer(o, m)
    OBVIOUS
  <1>6. Given(t, m, p, x, o, b)
    BY <1>1, <1>3, <1>4, <1>5, AcceptIs
  <1>7. /\ QueuesOK(mq') /\ Ordered(mq', th', pc', call', blocked')
        /\ Apart(InQueues(mq'), Load(th', pc', call'), free \ {m})
        /\ \A z \in Queues : /\ Range(mq'[z].kmsgs) \subseteq Range(mq[z].kmsgs) \cup {m}
                             /\ mq'[z].waiters # <<>> => mq[z].waiters # <<>>
        /\ \A z \in Queues \ {x} : m \notin Range(mq'[z].kmsgs)
        /\ b.seqno \in Seqnos
    BY <1>3, <1>6, GivenFine
  <1>8. /\ \A z \in Queues : m \notin Range(mq[z].kmsgs)
        /\ \A u \in Threads \ {t} : call[u].msg # m
        /\ call[t].msg \in {m, NoMessage}
        /\ \A z \in Ports : m \notin Counted(z)
        /\ m # NoMessage
    BY SenderBears
  <1>9. /\ dest' \in [Messages -> Ports \cup {NoPort}] /\ dest'[m] = p
        /\ \A y \in Messages \ {m} : dest'[y] = dest[y]
        /\ free' = free \ {m}
    BY <1>2 DEF Accept, Hold
  <1>10. /\ pc' \in [Threads -> {"user", "send_block", "send_go", "receive_block", "got"}]
         /\ pc'[t] \in {"user", "send_go"}
         /\ call' \in [Threads -> CallRecords] /\ call'[t].msg = NoMessage
         /\ \A u \in Threads \ {t} : pc'[u] = pc[u] /\ call'[u] = call[u]
         /\ port' = [port EXCEPT ![p].msgcount = @ + 1, ![p].seqno = b.seqno]
    BY <1>6 DEF Given
  <1>11. /\ blocked' \in [Ports -> Seq(Senders)] /\ \A z \in Ports : IsInjective(blocked'[z])
         /\ \A z \in Ports : Range(blocked'[z]) = Range(blocked[z]) \ {t}
    BY DEF Unlisted
  <1>12. ASSUME NEW y \in Messages, y # m, NEW u \in Threads
         PROVE  call'[u].msg # y <=> call[u].msg # y
    BY <1>8, <1>10, <1>12, MessageQueueAssumption
  <1>13. \A z \in Ports \ {p} : Counted(z)' = Counted(z)
    <2> SUFFICES ASSUME NEW z \in Ports \ {p}, NEW y \in Messages
                 PROVE  y \in Counted(z)' <=> y \in Counted(z)
      BY DEF Counted
    <2>1. CASE y = m
      BY <1>8, <1>9, <2>1 DEF Counted
    <2>2. CASE y # m
      BY <1>9, <1>12, <2>2 DEF Counted
    <2> QED BY <2>1, <2>2
  <1>14. Counted(p)' = Counted(p) \cup {m}
    <2> SUFFICES ASSUME NEW y \in Messages
                 PROVE  y \in Counted(p)' <=> y \in Counted(p) \/ y = m
      BY DEF Counted
    <2>1. CASE y = m
      <3>1. \A u \in Threads : call'[u].msg # m
        BY <1>8, <1>10
      <3> QED BY <1>9, <2>1, <3>1 DEF Counted
    <2>2. CASE y # m
      BY <1>9, <1>12, <2>2 DEF Counted
    <2> QED BY <2>1, <2>2
  <1>15. /\ port[p].msgcount \in Nat /\ port[p].qlimit \in Nat
         /\ port[p].msgcount = Cardinality(Counted(p))
         /\ Cardinality(Counted(p)') = port[p].msgcount + 1
         /\ port[p].msgcount + 1 \in 0..Cardinality(Messages)
    <2>1. Cardinality(Messages) \in Nat /\ MaxQlimit \in Nat /\ IsFiniteSet(Messages)
      BY MessageQueueAssumption, FS_CardinalityType
    <2>2. port[p].msgcount \in Nat /\ port[p].qlimit \in Nat
      BY <1>2, <2>1 DEF PortRecords
    <2>3. port[p].msgcount = Cardinality(Counted(p))
      BY DEF Base, CountsExact
    <2>4. PICK C, D : C = Counted(p) /\ D = Counted(p)'
      OBVIOUS
    <2>5. C \subseteq Messages /\ D \subseteq Messages /\ D = C \cup {m} /\ m \notin C
      BY <1>8, <1>14, <2>4 DEF Counted
    <2>6. IsFiniteSet(C) /\ IsFiniteSet(D) /\ Cardinality(D) <= Cardinality(Messages)
          /\ Cardinality(D) \in Nat
      BY <2>1, <2>5, FS_Subset, FS_CardinalityType
    <2>7. Cardinality(C \cup {m}) = Cardinality(C) + 1
      BY <2>5, <2>6, FS_AddElement
    <2> QED BY <2>1, <2>2, <2>3, <2>4, <2>5, <2>6, <2>7
  <1>16. PICK po, g : po = port' /\ g = [port[p] EXCEPT !.msgcount = port[p].msgcount + 1,
                                                        !.seqno = b.seqno]
    OBVIOUS
  <1>17. /\ g \in PortRecords /\ g.msgcount = port[p].msgcount + 1 /\ g.pset = port[p].pset
         /\ g.owned = port[p].owned /\ g.active = port[p].active /\ g.qlimit = port[p].qlimit
    BY <1>2, <1>7, <1>15, <1>16 DEF PortRecords
  <1>18. /\ po \in [Ports -> PortRecords] /\ po[p] = g
         /\ \A z \in Ports \ {p} : po[z] = port[z]
    <2>1. po = [port EXCEPT ![p] = g]
      BY <1>2, <1>10, <1>16
    <2> QED BY <1>2, <1>17, <2>1
  <1>19. Types'
    BY <1>9, <1>10, <1>11, <1>16, <1>18 DEF Base, Types, Settled
  <1>20. Fine(mq, th)'
    BY <1>7, <1>9 DEF Fine, Ordered
  <1>21. Housed(mq, port, active_set)'
    <2>1. \A z \in Ports : Home(po, z) = Home(port, z) /\ po[z].owned = port[z].owned
                           /\ po[z].pset = port[z].pset
      BY <1>17, <1>18 DEF Home
    <2>2. ASSUME NEW z \in Queues, NEW y \in Range(mq'[z].kmsgs)
          PROVE  dest'[y] \in Ports /\ Home(po, dest'[y]) = z
      <3>1. CASE y = m
        <4>1. z = x
          BY <1>7, <2>2, <3>1
        <4> QED BY <1>3, <1>9, <2>1, <3>1, <4>1
      <3>2. CASE y # m
        <4>1. y \in Range(mq[z].kmsgs)
          BY <1>7, <2>2, <3>2
        <4>2. y \in Messages
          BY <1>2, <4>1, RangesIn
        <4> QED BY <1>9, <2>1, <3>2, <4>1, <4>2 DEF Base, Housed
      <3> QED BY <3>1, <3>2
    <2>3. Ports \subseteq Queues /\ Psets \subseteq Queues
      BY DEF Queues
    <2> QED BY <1>7, <1>16, <2>1, <2>2, <2>3 DEF Base, Housed
  <1>22. (\A y \in Messages \ free : dest[y] \in Ports)'
    BY <1>9 DEF Base
  <1>23. CountsExact'
    <2> SUFFICES ASSUME NEW z \in Ports, po[z].active
                 PROVE  po[z].msgcount = Cardinality(Counted(z)')
      BY <1>16 DEF CountsExact
    <2>1. CASE z = p
      BY <1>15, <1>17, <1>18, <2>1
    <2>2. CASE z # p
      BY <1>13, <1>18, <2>2 DEF Base, CountsExact
    <2> QED BY <2>1, <2>2
  <1>24. SlotsPromised'
    <2> SUFFICES ASSUME NEW z \in Ports, po[z].active, blocked'[z] # <<>>
                 PROVE  po[z].qlimit <= po[z].msgcount + Cardinality(Promised(z)')
      BY <1>16 DEF SlotsPromised
    <2>1. blocked[z] # <<>>
      BY StillBlocked
    <2>2. Promised(z)' = Promised(z) \ {t}
      BY <1>10, <1>11 DEF Promised
    <2>3. CASE z # p
      <3>1. t \notin Promised(z)
        BY <2>3 DEF Promised
      <3> QED BY <1>18, <2>1, <2>2, <2>3, <3>1 DEF Base, SlotsPromised
    <2>4. CASE z = p
      <3>1. PICK P, P2 : P = Promised(p) /\ P2 = Promised(p)'
        OBVIOUS
      <3>2. IsFiniteSet(P) /\ Cardinality(P) \in Nat /\ P2 = P \ {t}
        <4>1. P \subseteq Threads
          BY <3>1 DEF Promised
        <4> QED BY <2>2, <2>4, <3>1, <4>1, MessageQueueAssumption, FS_Subset, FS_CardinalityType
      <3>3. Cardinality(P2) \in Nat /\ Cardinality(P) <= Cardinality(P2) + 1
        <4>1. CASE t \in P
          <5>1. Cardinality(P \ {t}) = Cardinality(P) - 1 /\ IsFiniteSet(P \ {t})
            BY <3>2, <4>1, FS_RemoveElement
          <5>2. Cardinality(P2) \in Nat
            BY <3>2, <5>1, FS_CardinalityType
          <5> QED BY <3>2, <5>1, <5>2
        <4>2. CASE t \notin P
          <5>1. P2 = P
            BY <3>2, <4>2
          <5>2. Cardinality(P2) = Cardinality(P)
            BY <5>1
          <5>3. \A d \in Nat : d <= d + 1
            OBVIOUS
          <5> QED BY <3>2, <5>2, <5>3
        <4> QED BY <4>1, <4>2
      <3>4. port[p].qlimit <= port[p].msgcount + Cardinality(P)
        BY <2>1, <2>4, <3>1 DEF Base, SlotsPromised
      <3>5. po[z].qlimit = port[p].qlimit /\ po[z].msgcount = port[p].msgcount + 1
        BY <1>17, <1>18, <2>4
      <3>6. PICK a, c, d, e : a = port[p].qlimit /\ c = port[p].msgcount
                              /\ d = Cardinality(P) /\ e = Cardinality(P2)
        OBVIOUS
      <3>7. a \in Nat /\ c \in Nat /\ d \in Nat /\ e \in Nat /\ a <= c + d /\ d <= e + 1
        BY <1>15, <3>2, <3>3, <3>4, <3>6
      <3>8. a <= c + 1 + e
        BY ONLY <3>7
      <3> QED BY <2>4, <3>1, <3>5, <3>6, <3>8
    <2> QED BY <2>3, <2>4
  <1> QED BY <1>19, <1>20, <1>21, <1>22, <1>23, <1>24 DEF Base

\* The loop of ipc_mqueue_send(): t has left the list of p, or is at its start.
LEMMA SendLoopStep ==
    ASSUME Base, NEW t \in Threads, t \in Senders, NEW m \in Messages, Bears(t, m),
           NEW p \in Ports, pc[t] = "send_block" => call[t].queue = p,
           NEW option \in AllOptions, NEW senders, Unlisted(t, [blocked EXCEPT ![p] = senders]),
           option = "poll" \/ (th[t].state = "SUCCESS" /\ senders = blocked[p]),
           pc[t] = "send_block" /\ th[t].state = "SUCCESS" => option # "poll",
           SendLoop(t, m, p, option, senders)
    PROVE  Base'
  <1>0. UNCHANGED <<active_set, panicked>>
    BY DEF SendLoop
  <1>1. CASE /\ ~port[p].active \/ (~MayQueue(p, option) /\ option = "poll")
             /\ EndCall(t)
             /\ Release(m)
             /\ th' = [th EXCEPT ![t] = IdleThread]
             /\ blocked' = [blocked EXCEPT ![p] = senders]
             /\ UNCHANGED <<port, mq>>
    <2>1. Unlisted(t, blocked')
      BY <1>1
    <2>2. pc[t] = "send_block" /\ th[t].state = "SUCCESS" => ~port[call[t].queue].active
      BY <1>1
    <2> QED BY <1>0, <1>1, <2>1, <2>2, SenderReleases
  <1>2. CASE /\ port[p].active /\ MayQueue(p, option)
             /\ Accept(t, m, p)
             /\ blocked' = [blocked EXCEPT ![p] = senders]
    <2>1. Unlisted(t, blocked')
      BY <1>2
    <2> QED BY <1>0, <1>2, <2>1, SenderAccepted
  <1>3. CASE /\ port[p].active /\ ~MayQueue(p, option) /\ option # "poll"
             /\ th' = [th EXCEPT ![t] = WillWait("SEND_IN_PROGRESS", option)]
             /\ blocked' = [blocked EXCEPT ![p] = Append(senders, t)]
             /\ pc' = [pc EXCEPT ![t] = "send_block"]
             /\ call' = [call EXCEPT ![t] = [NoCall EXCEPT !.msg = m, !.queue = p, !.option = option]]
             /\ Hold(m, p)
             /\ UNCHANGED <<port, mq>>
    <2>1. th[t].state = "SUCCESS" /\ blocked' = [blocked EXCEPT ![p] = Append(blocked[p], t)]
      BY <1>3
    <2> QED BY <1>0, <1>3, <2>1, SenderBlocks
  <1> QED BY <1>1, <1>2, <1>3 DEF SendLoop

\* t is on no list of senders unless it is told to wait.
LEMMA NotListed ==
    ASSUME Base, NEW t \in Threads, th[t].state = "SUCCESS", NEW p \in Ports
    PROVE  Unlisted(t, [blocked EXCEPT ![p] = blocked[p]])
  <1>1. blocked \in [Ports -> Seq(Senders)] /\ \A z \in Ports : IsInjective(blocked[z])
    BY DEF Base, Types, Settled
  <1>2. Listed(t, th[t], call[t], blocked, mq)
    BY DEF Base, Fine
  <1>3. \A z \in Ports : t \notin Range(blocked[z])
    BY <1>2 DEF Listed
  <1>4. [blocked EXCEPT ![p] = blocked[p]] = blocked
    BY <1>1
  <1>5. Unlisted(t, blocked)
    BY <1>1, <1>3 DEF Unlisted
  <1> QED BY <1>4, <1>5

LEMMA StepSend ==
    ASSUME Base, NEW t \in Threads, NEW m \in Messages, NEW p \in Ports, NEW option \in AllOptions,
           Send(t, m, p, option)
    PROVE  Base'
  <1>1. t \in Senders /\ pc[t] = "user" /\ m \in free /\ SendLoop(t, m, p, option, blocked[p])
    BY DEF Send
  <1>2. Order(t, th[t], pc[t], call[t])
    BY DEF Base, Fine
  <1>3. th[t].state = "SUCCESS" /\ Bears(t, m) /\ pc[t] # "send_block"
    BY <1>1, <1>2 DEF Order, Bears
  <1>4. PICK senders : senders = blocked[p]
    OBVIOUS
  <1>5. Unlisted(t, [blocked EXCEPT ![p] = senders])
    BY <1>3, <1>4, NotListed
  <1>6. SendLoop(t, m, p, option, senders)
    BY <1>1, <1>4
  <1> QED BY <1>1, <1>3, <1>4, <1>5, <1>6, SendLoopStep

LEMMA StepSendWoken ==
    ASSUME Base, NEW t \in Threads, SendWoken(t)
    PROVE  Base'
  <1>1. PICK m, p, option : m = call[t].msg /\ p = call[t].queue /\ option = call[t].option
    OBVIOUS
  <1>2. PICK others : others = Without(t, blocked[p])
    OBVIOUS
  <1>3. pc[t] = "send_block" /\ ~th[t].waiting
    BY DEF SendWoken
  <1>4. Order(t, th[t], pc[t], call[t]) /\ Listed(t, th[t], call[t], blocked, mq)
    BY DEF Base, Fine
  <1>5. call[t] \in CallRecords /\ blocked \in [Ports -> Seq(Senders)]
        /\ \A z \in Ports : IsInjective(blocked[z])
    BY DEF Base, Types, Settled
  <1>6. /\ t \in Senders /\ p \in Ports /\ m \in Messages /\ option \in AllOptions
        /\ option # "poll" /\ Bears(t, m)
    BY <1>1, <1>3, <1>4, <1>5 DEF Order, CallRecords, Bears
  <1>7. th[t].state = "SEND_IN_PROGRESS" => Unlisted(t, [blocked EXCEPT ![p] = others])
    <2> HAVE th[t].state = "SEND_IN_PROGRESS"
    <2>1. PICK v, S : v = blocked[p] /\ S = Threads \ {t}
      OBVIOUS
    <2>2. v \in Seq(Senders) /\ IsInjective(v) /\ others = Only(v, S)
      BY <1>2, <1>5, <1>6, <2>1 DEF Without
    <2>3. others \in Seq(Senders) /\ IsInjective(others) /\ Range(others) = Range(v) \cap S
      BY <2>2, OnlySome
    <2>4. Range(v) \subseteq Threads
      BY <2>2, MessageQueueAssumption DEF Range
    <2>5. Range(others) = Range(blocked[p]) \ {t}
      BY <2>1, <2>3, <2>4
    <2>6. \A z \in Ports \ {p} : t \notin Range(blocked[z])
      BY <1>1, <1>4 DEF Listed
    <2>7. PICK bl : bl = [blocked EXCEPT ![p] = others]
      OBVIOUS
    <2>8. /\ bl \in [Ports -> Seq(Senders)] /\ bl[p] = others
          /\ \A z \in Ports \ {p} : bl[z] = blocked[z]
      BY <1>5, <1>6, <2>3, <2>7
    <2>9. Unlisted(t, bl)
      <3>1. \A z \in Ports : IsInjective(bl[z])
        BY <1>5, <2>3, <2>8
      <3>2. ASSUME NEW z \in Ports
            PROVE  Range(bl[z]) = Range(blocked[z]) \ {t}
        <4>1. CASE z = p
          BY <2>5, <2>8, <4>1
        <4>2. CASE z # p
          BY <2>6, <2>8, <4>2
        <4> QED BY <4>1, <4>2
      <3> QED BY <2>8, <3>1, <3>2 DEF Unlisted
    <2> QED BY <2>7, <2>9
  <1>8. CASE th[t].state = "SUCCESS" /\ SendLoop(t, m, p, option, blocked[p])
    <2>1. PICK senders : senders = blocked[p]
      OBVIOUS
    <2>2. Unlisted(t, [blocked EXCEPT ![p] = senders])
      BY <1>6, <1>8, <2>1, NotListed
    <2>3. SendLoop(t, m, p, option, senders)
      BY <1>8, <2>1
    <2> QED BY <1>1, <1>6, <1>8, <2>1, <2>2, <2>3, SendLoopStep
  <1>9. CASE th[t].state = "SEND_IN_PROGRESS" /\ SendLoop(t, m, p, "poll", others)
    <2>1. PICK poll : poll = "poll"
      OBVIOUS
    <2>2. poll \in AllOptions /\ SendLoop(t, m, p, poll, others)
      BY <1>9, <2>1 DEF AllOptions
    <2> QED BY <1>1, <1>6, <1>7, <1>9, <2>1, <2>2, SendLoopStep
  <1>10. CASE /\ th[t].state = "SEND_IN_PROGRESS"
              /\ EndCall(t)
              /\ Release(m)
              /\ th' = [th EXCEPT ![t] = IdleThread]
              /\ blocked' = [blocked EXCEPT ![p] = others]
              /\ UNCHANGED <<port, active_set, mq, panicked>>
    <2>1. Unlisted(t, blocked')
      BY <1>7, <1>10
    <2> QED BY <1>6, <1>10, <2>1, SenderReleases
  <1>11. CASE /\ panicked' = TRUE
              /\ UNCHANGED <<port, blocked, active_set, mq, th, pc, call, dest, free>>
    <2>1. \A z \in Ports : Counted(z)' = Counted(z) /\ Promised(z)' = Promised(z)
      BY <1>11 DEF Counted, Promised
    <2> QED BY <1>11, <2>1 DEF Base, Types, Settled, Fine, Housed, CountsExact, SlotsPromised
  <1> QED BY <1>1, <1>2, <1>8, <1>9, <1>10, <1>11 DEF SendWoken

-----------------------------------------------------------------------------
(* All steps, and what holds in every state.                               *)

LEMMA NextKeeps == Base /\ [Next]_vars => Base'
  <1> SUFFICES ASSUME Base, [Next]_vars PROVE Base'
    OBVIOUS
  <1>1. Options \subseteq AllOptions /\ 0..(SeqnoLimit - 1) = Seqnos
    BY MessageQueueAssumption DEF Seqnos
  <1>2. ASSUME NEW t \in Threads, Call(t)
        PROVE  Base'
    <2>1. CASE \E m \in Messages, p \in Ports, o \in Options : Send(t, m, p, o)
      BY <1>1, <2>1, StepSend
    <2>2. CASE \E q \in Queues, z \in Sizes, o \in Options : Receive(t, q, z, o)
      BY <1>1, <2>2, StepReceive
    <2> QED BY <1>2, <2>1, <2>2 DEF Call
  <1>3. ASSUME NEW t \in Threads, Continue(t)
        PROVE  Base'
    BY <1>3, StepSendWoken, StepSendGo, StepReceiveWoken, StepReceiveDone DEF Continue
  <1>4. ASSUME NEW t \in Threads, ThreadTimeout(t) \/ ThreadAbort(t)
        PROVE  Base'
    <2>1. PICK result \in {"TIMED_OUT", "INTERRUPTED"} : EndWait(t, result)
      BY <1>4 DEF ThreadTimeout, ThreadAbort
    <2> QED BY <2>1, StepEndWait
  <1>5. ASSUME NEW p \in Ports, PortOperation(p)
        PROVE  Base'
    <2>1. CASE \E n \in 0..MaxQlimit : SetQlimit(p, n)
      BY <2>1, StepSetQlimit
    <2>2. CASE \E n \in 0..(SeqnoLimit - 1) : SetSeqno(p, n)
      BY <1>1, <2>2, StepSetSeqno
    <2>3. CASE \E ns \in Psets \cup {NoPset} : PsetMove(p, ns)
      BY <2>3, StepPsetMove
    <2>4. CASE CopyinReceiveRight(p)
      BY <2>4, StepCopyinReceiveRight
    <2>5. CASE CopyoutReceiveRight(p)
      BY <2>5, StepCopyoutReceiveRight
    <2>6. CASE PortDestroy(p)
      BY <2>6, StepPortDestroy
    <2>7. CASE DestroyQueued(p)
      BY <2>7, StepDestroyQueued
    <2> QED BY <1>5, <2>1, <2>2, <2>3, <2>4, <2>5, <2>6, <2>7 DEF PortOperation
  <1>6. ASSUME NEW ps \in Psets, PsetDestroy(ps)
        PROVE  Base'
    BY <1>6, StepPsetDestroy
  <1>7. CASE UNCHANGED vars
    <2>1. UNCHANGED <<port, blocked, active_set, mq, th, pc, call, dest, free, panicked>>
      BY <1>7 DEF vars
    <2>2. \A p \in Ports : Counted(p)' = Counted(p) /\ Promised(p)' = Promised(p)
      BY <2>1 DEF Counted, Promised
    <2> QED BY <2>1, <2>2 DEF Base, Types, Settled, Fine, Housed, CountsExact, SlotsPromised
  <1>8. CASE Next
    <2>1. \/ \E t \in Threads : Call(t) \/ Continue(t) \/ ThreadTimeout(t) \/ ThreadAbort(t)
          \/ \E p \in Ports : PortOperation(p)
          \/ \E ps \in Psets : PsetDestroy(ps)
      BY <1>8 DEF Next
    <2> QED BY <1>2, <1>3, <1>4, <1>5, <1>6, <2>1
  <1> QED BY <1>7, <1>8

LEMMA AlwaysBase == Spec => []Base
  <1> QED BY Starts, NextKeeps, PTL DEF Spec

(* QueueInv holds in every state, whatever the threads, ports, sets,       *)
(* messages, queue limits and bounds: ipc_mqueue_send and _receive, the    *)
(* operations on receive rights and sets and the ends of waits keep the    *)
(* lists, the places of messages and the counts in agreement.              *)
THEOREM QueueInvariant == Spec => []QueueInv
  <1>1. Base => QueueInv
    BY BaseSays
  <1> QED BY <1>1, AlwaysBase, PTL

(* No message is lost, duplicated or left in two places by a timeout, an   *)
(* abort, a move between sets or the death of its port.                    *)
THEOREM MessagesOnce == Spec => []EachMessageOnce
  <1>1. Base => EachMessageOnce
    BY BaseSays
  <1> QED BY <1>1, AlwaysBase, PTL

(* ip_msgcount counts the messages that are queued for the port or have    *)
(* been handed to a receiver that has not yet locked it.                   *)
THEOREM MsgcountIsExact == Spec => []MsgcountExact
  <1>1. Base => MsgcountExact
    BY BaseSays DEF QueueInv
  <1> QED BY <1>1, AlwaysBase, PTL

(* A slot that is free while senders wait for one is promised to a sender  *)
(* that has been woken: the wakeups of ipc_mqueue_receive and              *)
(* ipc_port_set_qlimit are neither too few nor lost to a timeout.          *)
THEOREM SlotsArePromised == Spec => []FreeSlotsPromised
  <1>1. Base => FreeSlotsPromised
    BY BaseSays DEF QueueInv
  <1> QED BY <1>1, AlwaysBase, PTL

(* A receiver never waits at a queue that holds a message: the assertion   *)
(* of ipc_mqueue_send and ipc_mqueue_move.                                 *)
THEOREM NobodyPassedOver == Spec => []NoMessagePassedOver
  <1>1. Base => NoMessagePassedOver
    BY BaseSays DEF QueueInv
  <1> QED BY <1>1, AlwaysBase, PTL

(* A port's messages are in the queue it uses, and receivers wait only     *)
(* where messages will come, through all moves of ports between sets.      *)
THEOREM MessagesAreFound == Spec => []MessagesWhereReceived
  <1>1. Base => MessagesWhereReceived
    BY BaseSays DEF QueueInv
  <1> QED BY <1>1, AlwaysBase, PTL

(* A thread is on exactly the list it will be woken from while it is told  *)
(* to wait, and on none when it has been told anything else.               *)
THEOREM WaitersAreListed == Spec => []WaitersListed
  <1>1. Base => WaitersListed
    BY BaseSays DEF QueueInv
  <1> QED BY <1>1, AlwaysBase, PTL
=============================================================================
