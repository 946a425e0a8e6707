----------------------- MODULE MessageQueueImplements -----------------------
(***************************************************************************)
(* Proof that MessageQueue implements PortQueue, for any sets of threads,  *)
(* ports, port sets and messages.                                          *)
(***************************************************************************)
EXTENDS MessageQueueProofs, SequenceTheorems

-----------------------------------------------------------------------------
(* The order of the messages in a queue.                                   *)

LEMMA OnlyNothing ==
    ASSUME NEW S
    PROVE  Only(<<>>, S) = <<>>
  <1>1. PICK s : s = <<>>
    OBVIOUS
  <1>2. s \in Seq(Messages) /\ Len(s) = 0
    BY <1>1
  <1>3. PICK f : /\ f[0] = <<>>
                 /\ \A i \in 1..Len(s) : f[i] = IF s[i] \in S THEN Append(f[i-1], s[i]) ELSE f[i-1]
                 /\ Only(s, S) = f[Len(s)]
    BY <1>2, OnlyIs
  <1> QED BY <1>1, <1>2, <1>3

\* A message at the end of a queue comes last.
LEMMA OnlyMore ==
    ASSUME NEW X, NEW s \in Seq(X), NEW x \in X, NEW S
    PROVE  Only(Append(s, x), S) = IF x \in S THEN Append(Only(s, S), x) ELSE Only(s, S)
  <1>1. PICK u : u = Append(s, x)
    OBVIOUS
  <1>2. /\ u \in Seq(X) /\ Len(u) = Len(s) + 1 /\ u[Len(s) + 1] = x /\ Len(s) \in Nat
        /\ \A i \in 1..Len(s) : u[i] = s[i]
    BY <1>1
  <1>3. PICK f : /\ f[0] = <<>>
                 /\ \A i \in 1..Len(s) : f[i] = IF s[i] \in S THEN Append(f[i-1], s[i]) ELSE f[i-1]
                 /\ Only(s, S) = f[Len(s)]
    BY OnlyIs
  <1>4. PICK g : /\ g[0] = <<>>
                 /\ \A i \in 1..Len(u) : g[i] = IF u[i] \in S THEN Append(g[i-1], u[i]) ELSE g[i-1]
                 /\ Only(u, S) = g[Len(u)]
    BY <1>2, OnlyIs
  <1> DEFINE T == {k \in 0..Len(s) : f[k] = g[k]}
  <1>5. 0 \in T
    BY <1>2, <1>3, <1>4
  <1>6. ASSUME NEW k \in 1..Len(s), k - 1 \in T
        PROVE  k \in T
    <2>1. k \in 0..Len(s) /\ k \in 1..Len(u) /\ u[k] = s[k]
      BY <1>2
    <2>2. f[k - 1] = g[k - 1]
      BY <1>6
    <2>3. f[k] = g[k]
      BY <1>3, <1>4, <2>1, <2>2
    <2> QED BY <2>1, <2>3
  <1> HIDE DEF T
  <1>7. \A i \in 0..Len(s) : i \in T
    BY ONLY <1>2, <1>5, <1>6, Induction
  <1>8. f[Len(s)] = g[Len(s)]
    BY <1>2, <1>7 DEF T
  <1>9. Len(u) \in 1..Len(u) /\ Len(u) - 1 = Len(s)
    BY <1>2
  <1>10. g[Len(u)] = IF u[Len(u)] \in S THEN Append(g[Len(u) - 1], u[Len(u)]) ELSE g[Len(u) - 1]
    BY <1>4, <1>9
  <1> QED BY <1>1, <1>2, <1>3, <1>4, <1>8, <1>9, <1>10

\* Only the members that are there matter.
LEMMA OnlySame ==
    ASSUME NEW X, NEW s \in Seq(X), NEW S, NEW R, Range(s) \cap S = Range(s) \cap R
    PROVE  Only(s, S) = Only(s, R)
  <1>1. PICK f : /\ f[0] = <<>>
                 /\ \A i \in 1..Len(s) : f[i] = IF s[i] \in S THEN Append(f[i-1], s[i]) ELSE f[i-1]
                 /\ Only(s, S) = f[Len(s)]
    BY OnlyIs
  <1>2. PICK g : /\ g[0] = <<>>
                 /\ \A i \in 1..Len(s) : g[i] = IF s[i] \in R THEN Append(g[i-1], s[i]) ELSE g[i-1]
                 /\ Only(s, R) = g[Len(s)]
    BY OnlyIs
  <1>3. Len(s) \in Nat /\ \A i \in 1..Len(s) : s[i] \in S <=> s[i] \in R
    BY DEF Range
  <1> DEFINE T == {k \in 0..Len(s) : f[k] = g[k]}
  <1>5. 0 \in T
    BY <1>1, <1>2, <1>3
  <1>6. ASSUME NEW k \in 1..Len(s), k - 1 \in T
        PROVE  k \in T
    <2>1. k \in 0..Len(s) /\ f[k - 1] = g[k - 1]
      BY <1>6
    <2>2. f[k] = g[k]
      BY <1>1, <1>2, <1>3, <2>1
    <2> QED BY <2>1, <2>2
  <1> HIDE DEF T
  <1>7. \A i \in 0..Len(s) : i \in T
    BY ONLY <1>3, <1>5, <1>6, Induction
  <1>8. f[Len(s)] = g[Len(s)]
    BY <1>3, <1>7 DEF T
  <1> QED BY <1>1, <1>2, <1>8

LEMMA OnlySeq ==
    ASSUME NEW X, NEW s \in Seq(X), NEW S
    PROVE  Only(s, S) \in Seq(X)
  <1>1. PICK f : /\ f[0] = <<>>
                 /\ \A i \in 1..Len(s) : f[i] = IF s[i] \in S THEN Append(f[i-1], s[i]) ELSE f[i-1]
                 /\ Only(s, S) = f[Len(s)]
    BY OnlyIs
  <1>2. Len(s) \in Nat
    OBVIOUS
  <1> DEFINE T == {k \in 0..Len(s) : f[k] \in Seq(X)}
  <1>5. 0 \in T
    <2>1. <<>> \in Seq(X) /\ 0 \in 0..Len(s)
      BY <1>2
    <2> QED BY <1>1, <2>1
  <1>6. ASSUME NEW k \in 1..Len(s), k - 1 \in T
        PROVE  k \in T
    <2>1. k \in 0..Len(s) /\ f[k - 1] \in Seq(X) /\ s[k] \in X
      BY <1>6
    <2>2. f[k] = IF s[k] \in S THEN Append(f[k - 1], s[k]) ELSE f[k - 1]
      BY <1>1
    <2>3. PICK h, x : h = f[k - 1] /\ x = s[k]
      OBVIOUS
    <2>4. Append(h, x) \in Seq(X) /\ h \in Seq(X)
      BY <2>1, <2>3
    <2>5. f[k] \in Seq(X)
      BY <2>2, <2>3, <2>4
    <2> QED BY <2>1, <2>5
  <1> HIDE DEF T
  <1>7. \A i \in 0..Len(s) : i \in T
    BY ONLY <1>2, <1>5, <1>6, Induction
  <1> QED BY <1>1, <1>2, <1>7 DEF T

\* What is taken from a queue by one of two rules, and by the narrower of them.
LEMMA OnlyOnly ==
    ASSUME NEW X, NEW s \in Seq(X), NEW S, NEW R, Range(s) \cap S \subseteq R
    PROVE  Only(Only(s, R), S) = Only(s, S)
  <1>1. PICK f : /\ f[0] = <<>>
                 /\ \A i \in 1..Len(s) : f[i] = IF s[i] \in S THEN Append(f[i-1], s[i]) ELSE f[i-1]
                 /\ Only(s, S) = f[Len(s)]
    BY OnlyIs
  <1>2. PICK g : /\ g[0] = <<>>
                 /\ \A i \in 1..Len(s) : g[i] = IF s[i] \in R THEN Append(g[i-1], s[i]) ELSE g[i-1]
                 /\ Only(s, R) = g[Len(s)]
    BY OnlyIs
  <1>3. Len(s) \in Nat /\ \A i \in 1..Len(s) : s[i] \in X /\ (s[i] \in S => s[i] \in R)
    BY DEF Range
  <1> DEFINE T == {k \in 0..Len(s) : g[k] \in Seq(X) /\ Only(g[k], S) = f[k]}
  <1>5. 0 \in T
    <2>1. g[0] = <<>> /\ f[0] = <<>> /\ <<>> \in Seq(X) /\ 0 \in 0..Len(s)
      BY <1>1, <1>2, <1>3
    <2> QED BY <2>1, OnlyNothing
  <1>6. ASSUME NEW k \in 1..Len(s), k - 1 \in T
        PROVE  k \in T
    <2>1. PICK h, x : h = g[k - 1] /\ x = s[k]
      OBVIOUS
    <2>2. /\ k \in 0..Len(s) /\ h \in Seq(X) /\ Only(h, S) = f[k - 1] /\ x \in X
          /\ x \in S => x \in R
      BY <1>3, <1>6, <2>1
    <2>3. g[k] = IF x \in R THEN Append(h, x) ELSE h
      BY <1>2, <2>1
    <2>4. f[k] = IF x \in S THEN Append(Only(h, S), x) ELSE Only(h, S)
      BY <1>1, <2>1, <2>2
    <2>5. Only(Append(h, x), S) = IF x \in S THEN Append(Only(h, S), x) ELSE Only(h, S)
      BY <2>2, OnlyMore
    <2>6. g[k] \in Seq(X)
      BY <2>2, <2>3
    <2>7. Only(g[k], S) = f[k]
      BY <2>2, <2>3, <2>4, <2>5
    <2> QED BY <2>2, <2>6, <2>7
  <1> HIDE DEF T
  <1>7. \A i \in 0..Len(s) : i \in T
    BY ONLY <1>3, <1>5, <1>6, Induction
  <1>8. Only(g[Len(s)], S) = f[Len(s)]
    BY <1>3, <1>7 DEF T
  <1> QED BY <1>1, <1>2, <1>8

\* Taking the first message of a queue takes the first of its port.
LEMMA OnlyTail ==
    ASSUME NEW X, NEW s \in Seq(X), s /= <<>>, NEW S
    PROVE  IF Head(s) \in S
           THEN /\ Only(s, S) /= <<>> /\ Head(Only(s, S)) = Head(s)
                /\ Only(Tail(s), S) = Tail(Only(s, S))
           ELSE Only(Tail(s), S) = Only(s, S)
  <1>1. PICK u, x : u = Tail(s) /\ x = Head(s)
    OBVIOUS
  <1>2. /\ u \in Seq(X) /\ x \in X /\ x = s[1] /\ Len(s) \in Nat /\ Len(s) >= 1
        /\ Len(u) = Len(s) - 1 /\ \A i \in 1..Len(u) : u[i] = s[i + 1]
    BY <1>1
  <1>3. PICK f : /\ f[0] = <<>>
                 /\ \A i \in 1..Len(s) : f[i] = IF s[i] \in S THEN Append(f[i-1], s[i]) ELSE f[i-1]
                 /\ Only(s, S) = f[Len(s)]
    BY OnlyIs
  <1>4. PICK g : /\ g[0] = <<>>
                 /\ \A i \in 1..Len(u) : g[i] = IF u[i] \in S THEN Append(g[i-1], u[i]) ELSE g[i-1]
                 /\ Only(u, S) = g[Len(u)]
    BY <1>2, OnlyIs
  <1> DEFINE First(a, b) == IF x \in S THEN a /= <<>> /\ Head(a) = x /\ b = Tail(a) ELSE b = a
             T == {k \in 0..Len(u) : g[k] \in Seq(X) /\ f[k + 1] \in Seq(X) /\ First(f[k + 1], g[k])}
  <1>5. 0 \in T
    <2>0. 1 \in 1..Len(s) /\ 1 - 1 = 0 /\ s[1] = x
      BY <1>2
    <2>1. f[1] = IF s[1] \in S THEN Append(f[1 - 1], s[1]) ELSE f[1 - 1]
      BY <1>3, <2>0
    <2>2. 0 \in 0..Len(u) /\ g[0] = <<>> /\ f[0] = <<>> /\ 0 + 1 = 1
      BY <1>2, <1>3, <1>4
    <2>6. Append(<<>>, x) = <<x>>
      BY <1>2
    <2>3. f[1] = IF x \in S THEN <<x>> ELSE <<>>
      <3>1. PICK e, z : e = f[1] /\ z = f[0]
        OBVIOUS
      <3>2. e = IF x \in S THEN Append(z, x) ELSE z
        BY <2>0, <2>1, <3>1
      <3> QED BY <2>2, <2>6, <3>1, <3>2
    <2>4. <<>> \in Seq(X) /\ <<x>> \in Seq(X) /\ <<x>> /= <<>> /\ Head(<<x>>) = x /\ Tail(<<x>>) = <<>>
      BY <1>2
    <2>5. f[1] \in Seq(X) /\ g[0] \in Seq(X) /\ First(f[1], g[0])
      BY <2>2, <2>3, <2>4
    <2> HIDE DEF First
    <2> QED BY <2>2, <2>5
  <1>6. ASSUME NEW k \in 1..Len(u), k - 1 \in T
        PROVE  k \in T
    <2>1. PICK a, b, y : a = f[k] /\ b = g[k - 1] /\ y = u[k]
      OBVIOUS
    <2>2. k \in 0..Len(u) /\ k + 1 \in 1..Len(s) /\ (k + 1) - 1 = k /\ (k - 1) + 1 = k /\ y = s[k + 1]
          /\ y \in X
      BY <1>2, <2>1
    <2>3. b \in Seq(X) /\ a \in Seq(X) /\ First(a, b)
      BY <1>6, <2>1, <2>2
    <2>4. g[k] = IF y \in S THEN Append(b, y) ELSE b
      BY <1>4, <2>1
    <2>5. f[k + 1] = IF y \in S THEN Append(a, y) ELSE a
      BY <1>3, <2>1, <2>2
    <2>6. /\ Append(a, y) \in Seq(X) /\ Append(b, y) \in Seq(X)
          /\ First(Append(a, y), Append(b, y))
      <3>1. a /= <<>> => Append(a, y) /= <<>> /\ Head(Append(a, y)) = Head(a) /\ Tail(Append(a, y)) = Append(Tail(a), y)
        <4> SUFFICES ASSUME a /= <<>> PROVE Append(a, y) /= <<>> /\ Head(Append(a, y)) = Head(a) /\ Tail(Append(a, y)) = Append(Tail(a), y)
          OBVIOUS
        <4>1. PICK v, w : v = Tail(Append(a, y)) /\ w = Append(Tail(a), y)
          OBVIOUS
        <4>2. Len(a) \in Nat /\ Len(a) >= 1 /\ Len(Append(a, y)) = Len(a) + 1 /\ Append(a, y) \in Seq(X)
          BY <2>2, <2>3
        <4>3. v \in Seq(X) /\ Len(v) = Len(a) /\ \A i \in 1..Len(a) : v[i] = Append(a, y)[i + 1]
          BY <4>1, <4>2
        <4>4. w \in Seq(X) /\ Len(w) = Len(a)
              /\ \A i \in 1..Len(a) : w[i] = IF i = Len(a) THEN y ELSE a[i + 1]
          BY <2>2, <2>3, <4>1, <4>2
        <4>5. \A i \in 1..Len(a) : v[i] = w[i]
          BY <2>2, <2>3, <4>2, <4>3, <4>4
        <4>6. v = w
          BY <4>3, <4>4, <4>5, SeqEqual
        <4> QED BY <2>2, <2>3, <4>1, <4>2, <4>6
      <3> QED BY <2>2, <2>3, <3>1
    <2> HIDE DEF First
    <2>7. g[k] \in Seq(X) /\ f[k + 1] \in Seq(X) /\ First(f[k + 1], g[k])
      BY <2>3, <2>4, <2>5, <2>6
    <2> QED BY <2>2, <2>7
  <1> HIDE DEF T
  <1>9. Len(u) \in Nat
    BY <1>2
  <1>7. \A i \in 0..Len(u) : i \in T
    BY ONLY <1>5, <1>6, <1>9, Induction
  <1>8. First(f[Len(s)], g[Len(u)])
    <2>1. Len(u) \in T /\ Len(u) + 1 = Len(s)
      BY <1>2, <1>7
    <2>2. First(f[Len(u) + 1], g[Len(u)])
      BY <2>1 DEF T
    <2> QED BY <2>1, <2>2
  <1> QED BY <1>1, <1>3, <1>4, <1>8

-----------------------------------------------------------------------------
(* Counting modulo L.                                                      *)

\* The remainder is unique.
LEMMA OneRemainder ==
    ASSUME NEW L \in Nat \ {0}, NEW a \in Int, NEW b \in Int,
           NEW r \in 0..(L - 1), NEW s \in 0..(L - 1), L * a + r = L * b + s
    PROVE  r = s
  <1>1. CASE a = b
    BY <1>1
  <1>2. CASE a > b
    <2>1. PICK d \in Int : d = a - b
      OBVIOUS
    <2>2. d >= 1 /\ L * d = L * a - L * b
      BY <1>2, <2>1
    <2>3. L * d >= L
      BY <2>2
    <2> QED BY <2>2, <2>3
  <1>3. CASE a < b
    <2>1. PICK d \in Int : d = b - a
      OBVIOUS
    <2>2. d >= 1 /\ L * d = L * b - L * a
      BY <1>3, <2>1
    <2>3. L * d >= L
      BY <2>2
    <2> QED BY <2>2, <2>3
  <1> QED BY <1>1, <1>2, <1>3

LEMMA Divided ==
    ASSUME NEW x \in Int, NEW L \in Int, L > 0
    PROVE  x = L * (x \div L) + (x % L)
  BY SMTT(60)

LEMMA OneMore ==
    ASSUME NEW x \in Nat, NEW L \in Nat \ {0}
    PROVE  ((x % L) + 1) % L = (x + 1) % L
  <1>1. PICK q, r : q = x \div L /\ r = x % L
    OBVIOUS
  <1>2. q \in Int /\ r \in 0..(L - 1)
    BY <1>1
  <1>3. x = L * q + r
    <2>1. x \in Int /\ L \in Int /\ L > 0
      OBVIOUS
    <2> QED BY <1>1, <2>1, Divided
  <1>4. PICK p, s : p = (x + 1) \div L /\ s = (x + 1) % L
    OBVIOUS
  <1>5. p \in Int /\ s \in 0..(L - 1)
    BY <1>4
  <1>6. x + 1 = L * p + s
    <2>1. PICK y : y = x + 1
      OBVIOUS
    <2>2. y \in Int /\ L \in Int /\ L > 0
      BY <2>1
    <2>3. y = L * (y \div L) + (y % L)
      BY ONLY <2>2, Divided
    <2> QED BY <1>4, <2>1, <2>3
  <1>7. CASE r + 1 < L
    <2>1. PICK e : e = r + 1
      OBVIOUS
    <2>2. e \in 0..(L - 1) /\ L * q + e = L * p + s
      BY <1>2, <1>3, <1>6, <1>7, <2>1
    <2>3. e = s
      BY ONLY <1>2, <1>5, <2>2, L \in Nat \ {0}, OneRemainder
    <2>4. e % L = e
      BY <2>2
    <2> QED BY <1>1, <1>4, <2>1, <2>3, <2>4
  <1>8. CASE r + 1 = L
    <2>1. PICK d, z : d = q + 1 /\ z = 0
      OBVIOUS
    <2>2. d \in Int /\ z \in 0..(L - 1)
      BY <1>2, <2>1
    <2>3. L * d = L * q + L
      BY <1>2, <2>1
    <2>4. L * d + z = L * p + s
      <3>1. L * q \in Int /\ L * p \in Int
        BY <1>2, <1>5
      <3> QED BY <1>2, <1>3, <1>5, <1>6, <1>8, <2>1, <2>3, <3>1
    <2>5. z = s
      BY ONLY <1>5, <2>2, <2>4, L \in Nat \ {0}, OneRemainder
    <2>6. L % L = 0
      OBVIOUS
    <2> QED BY <1>1, <1>4, <1>8, <2>1, <2>5, <2>6
  <1> QED BY <1>2, <1>7, <1>8

-----------------------------------------------------------------------------
(* The messages that receivers have been handed.                           *)

\* One more is counted modulo L as it is without.
LEMMA FollowingSum ==
    ASSUME NEW a \in Nat, NEW n \in Nat
    PROVE  Following((a + n) % SeqnoLimit) = (a + (n + 1)) % SeqnoLimit
  <1>1. PICK L \in Nat \ {0} : L = SeqnoLimit
    BY MessageQueueAssumption
  <1>2. PICK x : x = a + n
    OBVIOUS
  <1>3. x \in Nat /\ x + 1 = a + (n + 1)
    BY <1>2
  <1>4. ((x % L) + 1) % L = (x + 1) % L
    BY ONLY <1>1, <1>3, L \in Nat \ {0}, OneMore
  <1> QED BY <1>1, <1>2, <1>3, <1>4 DEF Following

LEMMA SeqnoIs ==
    ASSUME NEW a \in Seqnos
    PROVE  a \in Nat /\ a % SeqnoLimit = a
  <1>1. a \in 0..(SeqnoLimit - 1) /\ SeqnoLimit \in Nat \ {0}
    BY MessageQueueAssumption DEF Seqnos
  <1> QED BY <1>1

Delivery(m, p, n) == [msg |-> m, port |-> p, seqno |-> n]

Deliveries(k, d) ==
    {Delivery(k[t].kmsg, d[k[t].kmsg], k[t].seqno) : t \in {u \in Threads : k[u].kmsg # NoMessage}}

\* Who has been handed a message keeps it with its number.
Carries(k, k2, t) == k2[t].kmsg = k[t].kmsg /\ (k[t].kmsg # NoMessage => k2[t].seqno = k[t].seqno)

LEMMA SameDeliveries ==
    ASSUME NEW k, NEW k2, NEW d, NEW d2, \A t \in Threads : Carries(k, k2, t),
           \A t \in Threads : k[t].kmsg # NoMessage => d2[k[t].kmsg] = d[k[t].kmsg]
    PROVE  Deliveries(k2, d2) = Deliveries(k, d)
  <1>1. ASSUME NEW x \in Deliveries(k, d)
        PROVE  x \in Deliveries(k2, d2)
    <2>1. PICK t \in Threads : k[t].kmsg # NoMessage /\ x = Delivery(k[t].kmsg, d[k[t].kmsg], k[t].seqno)
      BY DEF Deliveries
    <2>2. k2[t].kmsg # NoMessage /\ x = Delivery(k2[t].kmsg, d2[k2[t].kmsg], k2[t].seqno)
      BY <2>1 DEF Carries
    <2> QED BY <2>2 DEF Deliveries
  <1>2. ASSUME NEW x \in Deliveries(k2, d2)
        PROVE  x \in Deliveries(k, d)
    <2>1. PICK t \in Threads : k2[t].kmsg # NoMessage /\ x = Delivery(k2[t].kmsg, d2[k2[t].kmsg], k2[t].seqno)
      BY DEF Deliveries
    <2>2. k[t].kmsg # NoMessage /\ x = Delivery(k[t].kmsg, d[k[t].kmsg], k[t].seqno)
      BY <2>1 DEF Carries
    <2> QED BY <2>2 DEF Deliveries
  <1> QED BY <1>1, <1>2

\* Thread r is handed m.
Handed(k, k2, r, m, n) ==
    /\ r \in Threads /\ k[r].kmsg = NoMessage /\ k2[r].kmsg = m /\ k2[r].seqno = n
    /\ \A t \in Threads \ {r} : Carries(k, k2, t)

LEMMA OneDelivery ==
    ASSUME NEW k, NEW k2, NEW d, NEW r, NEW m, m # NoMessage, NEW n, Handed(k, k2, r, m, n)
    PROVE  Deliveries(k2, d) = Deliveries(k, d) \cup {Delivery(m, d[m], n)}
  <1>1. ASSUME NEW x \in Deliveries(k, d)
        PROVE  x \in Deliveries(k2, d)
    <2>1. PICK t \in Threads : k[t].kmsg # NoMessage /\ x = Delivery(k[t].kmsg, d[k[t].kmsg], k[t].seqno)
      BY DEF Deliveries
    <2>2. t # r
      BY <2>1 DEF Handed
    <2>3. k2[t].kmsg # NoMessage /\ x = Delivery(k2[t].kmsg, d[k2[t].kmsg], k2[t].seqno)
      BY <2>1, <2>2 DEF Carries, Handed
    <2> QED BY <2>3 DEF Deliveries
  <1>2. ASSUME NEW x \in Deliveries(k2, d)
        PROVE  x \in Deliveries(k, d) \cup {Delivery(m, d[m], n)}
    <2>1. PICK t \in Threads : k2[t].kmsg # NoMessage /\ x = Delivery(k2[t].kmsg, d[k2[t].kmsg], k2[t].seqno)
      BY DEF Deliveries
    <2>2. CASE t = r
      BY <2>1, <2>2 DEF Handed
    <2>3. CASE t # r
      <3>1. k[t].kmsg # NoMessage /\ x = Delivery(k[t].kmsg, d[k[t].kmsg], k[t].seqno)
        BY <2>1, <2>3 DEF Carries, Handed
      <3> QED BY <3>1 DEF Deliveries
    <2> QED BY <2>2, <2>3
  <1>3. Delivery(m, d[m], n) \in Deliveries(k2, d)
    <2>1. r \in Threads /\ k2[r].kmsg # NoMessage /\ Delivery(m, d[m], n) = Delivery(k2[r].kmsg, d[k2[r].kmsg], k2[r].seqno)
      BY DEF Handed
    <2> QED BY <2>1 DEF Deliveries
  <1> QED BY <1>1, <1>2, <1>3

LEMMA WakeKeeps ==
    ASSUME NEW k \in [Threads -> ThreadRecords], NEW T, NEW state \in IthStates,
           NEW f, f = Wake(k, T, state)
    PROVE  \A t \in Threads : f[t].kmsg = k[t].kmsg /\ f[t].seqno = k[t].seqno
  <1>1. ASSUME NEW t \in Threads
        PROVE  LET g == Go([k[t] EXCEPT !.state = state]) IN
               g.kmsg = k[t].kmsg /\ g.seqno = k[t].seqno
    BY DEF Go, ThreadRecords
  <1>2. f = [t \in Threads |-> IF t \in T THEN Go([k[t] EXCEPT !.state = state]) ELSE k[t]]
    BY DEF Wake
  <1>3. \A t \in Threads : f[t] = IF t \in T THEN Go([k[t] EXCEPT !.state = state]) ELSE k[t]
    BY <1>2
  <1> QED BY <1>1, <1>3

LEMMA GoKeeps ==
    ASSUME NEW k \in ThreadRecords
    PROVE  Go(k) \in ThreadRecords /\ Go(k).kmsg = k.kmsg /\ Go(k).seqno = k.seqno /\ Go(k).state = k.state
  BY DEF Go, ThreadRecords

\* m is queued behind the others, or handed to a receiver under the next number.
Passed(o, b, m) ==
    \/ /\ b.kmsgs = Append(o.kmsgs, m) /\ b.waiters = <<>> /\ b.seqno = o.seqno
       /\ \A t \in Threads : Carries(o.th, b.th, t)
    \/ /\ o.waiters # <<>> /\ b.kmsgs = o.kmsgs /\ b.seqno = Following(o.seqno)
       /\ \E r \in Threads : Handed(o.th, b.th, r, m, o.seqno)

LEMMA OfferPasses ==
    ASSUME NEW o, Offerable(o), NEW m \in Messages, m \notin Range(o.kmsgs)
    PROVE  Passed(o, Offer(o, m), m)
  <1> DEFINE b == Offer(o, m)
             i == FirstFit(m, o.waiters)
             small == IF i = 0 THEN o.waiters ELSE SubSeq(o.waiters, 1, i - 1)
             told == Wake(o.th, Range(small), "TOO_LARGE")
  <1>1. /\ o.kmsgs \in Seq(Messages) /\ o.waiters \in Seq(Receivers) /\ o.seqno \in Seqnos
        /\ o.th \in [Threads -> ThreadRecords] /\ Len(o.waiters) \in Nat
        /\ i = 0 \/ i \in 1..Len(o.waiters)
    <2>1. o.waiters \in Seq(Receivers)
      BY DEF Offerable, Offers
    <2>2. i = 0 \/ i \in 1..Len(o.waiters)
      BY <2>1, FirstFitIs
    <2> QED BY <2>1, <2>2 DEF Offerable, Offers
  <1>2. told \in [Threads -> ThreadRecords] /\ \A t \in Threads : told[t].kmsg = o.th[t].kmsg /\ told[t].seqno = o.th[t].seqno
    <2>1. PICK a \in IthStates : a = "TOO_LARGE"
      BY DEF IthStates
    <2>2. PICK k \in [Threads -> ThreadRecords] : k = o.th
      BY <1>1
    <2>3. PICK T : T = Range(small)
      OBVIOUS
    <2>4. PICK f : f = told
      OBVIOUS
    <2>5. f = Wake(k, T, a)
      BY <2>1, <2>2, <2>3, <2>4
    <2> HIDE DEF told
    <2>6. f \in [Threads -> ThreadRecords] /\ \A t \in Threads : f[t].kmsg = k[t].kmsg /\ f[t].seqno = k[t].seqno
      BY <2>5, WakeIs, WakeKeeps
    <2> QED BY <2>2, <2>4, <2>6
  <1>3. CASE i = 0
    <2>1. b = [kmsgs |-> Append(o.kmsgs, m), waiters |-> <<>>, seqno |-> o.seqno, th |-> told]
      BY <1>3 DEF Offer, Offerable, Offers
    <2> HIDE DEF b, told
    <2> QED BY <1>2, <2>1 DEF Passed, Carries, b
  <1>4. CASE i \in 1..Len(o.waiters)
    <2> DEFINE r == o.waiters[i]
               after == SubSeq(o.waiters, i + 1, Len(o.waiters))
               given == [told EXCEPT ![r].state = "SUCCESS", ![r].kmsg = m, ![r].seqno = o.seqno]
               rest == [o EXCEPT !.th = told]
    <2>1. i # 0 /\ r \in Receivers /\ r \in Range(o.waiters) /\ o.waiters # <<>>
      BY <1>1, <1>4 DEF Range
    <2>2. r \in Threads /\ o.th[r].kmsg = NoMessage
      BY <2>1, MessageQueueAssumption DEF Offerable
    <2>3. b = HandOver(rest, m, i)
      BY <2>1 DEF Offer
    <2>4. /\ rest = [kmsgs |-> o.kmsgs, waiters |-> o.waiters, seqno |-> o.seqno, th |-> told]
      BY DEF Offerable, Offers
    <2>5. b = [kmsgs |-> o.kmsgs, waiters |-> after, seqno |-> Following(o.seqno), th |-> given]
      <3> HIDE DEF told, b, i
      <3> QED BY <2>3, <2>4 DEF HandOver
    <2> HIDE DEF told, b, i, r, after
    <2>6. given = [told EXCEPT ![r] = [told[r] EXCEPT !.state = "SUCCESS", !.kmsg = m, !.seqno = o.seqno]]
      BY <1>2, <2>2
    <2>7. told[r] \in ThreadRecords
      BY <1>2, <2>2
    <2>8. LET k == [told[r] EXCEPT !.state = "SUCCESS", !.kmsg = m, !.seqno = o.seqno] IN
          k.kmsg = m /\ k.seqno = o.seqno
      BY <2>7 DEF ThreadRecords
    <2> HIDE DEF given
    <2>9. /\ given[r].kmsg = m /\ given[r].seqno = o.seqno
          /\ \A t \in Threads \ {r} : given[t] = told[t]
      BY <1>2, <2>2, <2>6, <2>8
    <2>10. Handed(o.th, given, r, m, o.seqno)
      BY <1>2, <2>2, <2>9 DEF Handed, Carries
    <2>11. /\ o.waiters # <<>> /\ b.kmsgs = o.kmsgs /\ b.seqno = Following(o.seqno) /\ b.th = given
      BY <2>1, <2>5
    <2> QED BY <2>2, <2>10, <2>11 DEF Passed, b
  <1> QED BY <1>1, <1>3, <1>4

LEMMA OfferAndWakePasses ==
    ASSUME NEW o, Offerable(o), NEW m \in Messages, m \notin Range(o.kmsgs)
    PROVE  Passed(o, OfferAndWake(o, m), m)
  <1>1. PICK b, c, r : b = Offer(o, m) /\ c = OfferAndWake(o, m) /\ r = Chosen(o, m)
    OBVIOUS
  <1>2. Passed(o, b, m)
    BY <1>1, OfferPasses
  <1>3. c = IF r = NoThread THEN b ELSE [b EXCEPT !.th[r] = Go(@)]
    BY <1>1 DEF OfferAndWake
  <1>4. CASE r = NoThread
    BY <1>1, <1>2, <1>3, <1>4
  <1>5. CASE r # NoThread
    <2>1. b \in Offers
      <3>1. o.waiters \in Seq(Receivers)
        BY DEF Offerable, Offers
      <3>2. Offerable(b)
        BY <1>1, <3>1, FirstFitIs, OfferQueues, OfferHandsOver DEF Dealt
      <3> QED BY <3>2 DEF Offerable
    <2>2. r \in Threads
      <3>1. o.waiters \in Seq(Receivers)
        BY DEF Offerable, Offers
      <3>2. FirstFit(m, o.waiters) = 0 => r = NoThread
        BY <1>1 DEF Chosen
      <3>3. FirstFit(m, o.waiters) \in 1..Len(o.waiters)
        BY <1>5, <3>1, <3>2, FirstFitIs
      <3> QED BY <1>1, <3>3, OfferHandsOver
    <2>3. /\ c = [b EXCEPT !.th = [b.th EXCEPT ![r] = Go(b.th[r])]]
          /\ b.th \in [Threads -> ThreadRecords] /\ b.th[r] \in ThreadRecords
      BY <1>3, <1>5, <2>1, <2>2 DEF Offers
    <2>4. PICK g : g = Go(b.th[r])
      OBVIOUS
    <2>5. g.kmsg = b.th[r].kmsg /\ g.seqno = b.th[r].seqno
      BY <2>3, <2>4, GoKeeps
    <2>6. /\ c.kmsgs = b.kmsgs /\ c.waiters = b.waiters /\ c.seqno = b.seqno
          /\ c.th = [b.th EXCEPT ![r] = g]
      BY <2>1, <2>3, <2>4 DEF Offers
    <2>7. \A t \in Threads : c.th[t].kmsg = b.th[t].kmsg /\ c.th[t].seqno = b.th[t].seqno
      BY <2>2, <2>3, <2>5, <2>6
    <2>8. Passed(o, c, m)
      BY <1>2, <2>6, <2>7 DEF Passed, Carries, Handed
    <2> QED BY <1>1, <2>8
  <1> QED BY <1>4, <1>5

-----------------------------------------------------------------------------
(* The messages of a queue are offered one after the other: the first n    *)
(* are handed over, in order, and the others follow in order.              *)

\* The first n of ms with the numbers they are handed over under.
Handovers(ms, a, n) == {Delivery(ms[i], dest[ms[i]], (a + i - 1) % SeqnoLimit) : i \in 1..n}

\* k messages have been offered to a, n of them handed over.
Split(a, c, ms, k, n, S) ==
    /\ n > 0 => a.waiters # <<>>
    /\ n < k => c.waiters = <<>>
    /\ c.seqno = (a.seqno + n) % SeqnoLimit
    /\ Only(c.kmsgs, S) = SubSeq(ms, n + 1, k)
    /\ Deliveries(c.th, dest) = Deliveries(a.th, dest) \cup Handovers(ms, a.seqno, n)

Unmixed(a, c, M) == \A R : M \cap R = {} => Only(c.kmsgs, R) = Only(a.kmsgs, R)

LEMMA HandoversMore ==
    ASSUME NEW ms, NEW a \in Nat, NEW n \in Nat
    PROVE  Handovers(ms, a, n + 1) = Handovers(ms, a, n) \cup {Delivery(ms[n + 1], dest[ms[n + 1]], (a + n) % SeqnoLimit)}
  <1>1. \A i : i \in 1..(n + 1) <=> i \in 1..n \/ i = n + 1
    OBVIOUS
  <1>2. a + (n + 1) - 1 = a + n
    OBVIOUS
  <1>3. PICK g : g = [i \in 1..(n + 1) |-> Delivery(ms[i], dest[ms[i]], (a + i - 1) % SeqnoLimit)]
    OBVIOUS
  <1>4. g[n + 1] = Delivery(ms[n + 1], dest[ms[n + 1]], (a + n) % SeqnoLimit)
    BY <1>2, <1>3
  <1>5. Handovers(ms, a, n) = {g[i] : i \in 1..n} /\ Handovers(ms, a, n + 1) = {g[i] : i \in 1..(n + 1)}
    BY <1>1, <1>3 DEF Handovers
  <1>6. {g[i] : i \in 1..(n + 1)} = {g[i] : i \in 1..n} \cup {g[n + 1]}
    BY <1>1
  <1> QED BY <1>4, <1>5, <1>6

\* After j = k - 1 messages a has become b, and with the next, m, it becomes c.
Goes(a, b, c, ms, k, j, n, m, S) ==
    /\ Offerable(a) /\ Offerable(b) /\ ms \in Seq(Messages)
    /\ k \in 1..Len(ms) /\ j = k - 1 /\ n \in 0..j
    /\ m \in Messages /\ m = ms[k] /\ m \in S
    /\ Split(a, b, ms, j, n, S) /\ (b.waiters # <<>> => a.waiters # <<>>)
    /\ Passed(b, c, m)

Went(a, b, c, ms, k, m, S) ==
    /\ \E i \in 0..k : Split(a, c, ms, k, i, S)
    /\ \A R : m \notin R => Only(c.kmsgs, R) = Only(b.kmsgs, R)

LEMMA SplitMore ==
    ASSUME NEW a, NEW b, NEW c, NEW ms, NEW k, NEW j, NEW n, NEW m, NEW S,
           Goes(a, b, c, ms, k, j, n, m, S)
    PROVE  Went(a, b, c, ms, k, m, S)
  <1>0. /\ Offerable(a) /\ Offerable(b) /\ ms \in Seq(Messages)
        /\ k \in 1..Len(ms) /\ j = k - 1 /\ n \in 0..j
        /\ m \in Messages /\ m = ms[k] /\ m \in S
        /\ Split(a, b, ms, j, n, S) /\ (b.waiters # <<>> => a.waiters # <<>>)
        /\ Passed(b, c, m)
    BY DEF Goes
  <1>1. /\ b.kmsgs \in Seq(Messages) /\ a.seqno \in Seqnos /\ a.seqno \in Nat
        /\ n \in Nat /\ n \in 0..k /\ Len(ms) \in Nat /\ k \in Nat /\ n + 1 \in Nat
    <2>1. a.seqno \in Seqnos /\ b.kmsgs \in Seq(Messages)
      BY <1>0 DEF Offerable, Offers
    <2> QED BY <1>0, <2>1, SeqnoIs
  <1>2. CASE /\ c.kmsgs = Append(b.kmsgs, m) /\ c.waiters = <<>> /\ c.seqno = b.seqno
             /\ \A t \in Threads : Carries(b.th, c.th, t)
    <2>1. ASSUME NEW R
          PROVE  Only(c.kmsgs, R) = IF m \in R THEN Append(Only(b.kmsgs, R), m) ELSE Only(b.kmsgs, R)
      <3>1. PICK e : e = b.kmsgs
        OBVIOUS
      <3>2. e \in Seq(Messages)
        BY <1>0, <1>1, <3>1
      <3>4. m \in Messages
        BY <1>0
      <3>3. Only(Append(e, m), R) = IF m \in R THEN Append(Only(e, R), m) ELSE Only(e, R)
        BY ONLY <3>2, <3>4, OnlyMore
      <3> QED BY <1>0, <1>2, <3>1, <3>3
    <2>2. Deliveries(c.th, dest) = Deliveries(b.th, dest)
      BY <1>0, <1>2, SameDeliveries
    <2>3. SubSeq(ms, n + 1, k) = Append(SubSeq(ms, n + 1, k - 1), m)
      <3>1. PICK i : i = n + 1
        OBVIOUS
      <3>2. i \in 1..Len(ms) /\ k \in i..Len(ms)
        BY <1>0, <1>1, <3>1
      <3>3. SubSeq(ms, i, k) = SubSeq(ms, i, k - 1) \o <<ms[k]>>
        BY <3>2, SubSeqRecursiveSecond
      <3>4. PICK u : u = SubSeq(ms, i, k - 1)
        OBVIOUS
      <3>5. u \in Seq(Messages)
        BY <1>0, <1>1, <3>2, <3>4
      <3>6. u \o <<m>> = Append(u, m)
        BY <1>0, <3>5
      <3> QED BY <1>0, <3>1, <3>3, <3>4, <3>6
    <2>4. Split(a, c, ms, k, n, S)
      BY <1>0, <1>2, <2>1, <2>2, <2>3 DEF Split
    <2> QED BY <1>0, <1>1, <2>1, <2>4 DEF Went
  <1>3. CASE /\ b.waiters # <<>> /\ c.kmsgs = b.kmsgs /\ c.seqno = Following(b.seqno)
             /\ \E r \in Threads : Handed(b.th, c.th, r, m, b.seqno)
    <2>1. n = k - 1
      BY <1>0, <1>1, <1>3 DEF Split
    <2>2. PICK r \in Threads : Handed(b.th, c.th, r, m, b.seqno)
      BY <1>0, <1>3
    <2>3. Deliveries(c.th, dest) = Deliveries(b.th, dest) \cup {Delivery(m, dest[m], b.seqno)}
      <3>1. PICK e, g, s : e = b.th /\ g = c.th /\ s = b.seqno
        OBVIOUS
      <3>2. Handed(e, g, r, m, s) /\ m # NoMessage
        BY <1>0, <2>2, <3>1, MessageQueueAssumption
      <3>3. Deliveries(g, dest) = Deliveries(e, dest) \cup {Delivery(m, dest[m], s)}
        BY <3>2, OneDelivery
      <3> QED BY <3>1, <3>3
    <2>4. b.seqno = (a.seqno + n) % SeqnoLimit /\ ms[n + 1] = m /\ n + 1 = k
      BY <1>0, <1>1, <2>1 DEF Split
    <2>5. c.seqno = (a.seqno + (n + 1)) % SeqnoLimit
      <3>1. PICK x : x = a.seqno
        OBVIOUS
      <3>2. x \in Nat
        BY <1>0, <1>1, <3>1
      <3>3. Following((x + n) % SeqnoLimit) = (x + (n + 1)) % SeqnoLimit
        BY <1>0, <1>1, <3>2, FollowingSum
      <3> QED BY <1>0, <1>3, <2>4, <3>1, <3>3
    <2>6. Handovers(ms, a.seqno, n + 1) = Handovers(ms, a.seqno, n) \cup {Delivery(m, dest[m], b.seqno)}
      <3>1. PICK x : x = a.seqno
        OBVIOUS
      <3>2. x \in Nat
        BY <1>0, <1>1, <3>1
      <3>3. Handovers(ms, x, n + 1) = Handovers(ms, x, n) \cup {Delivery(ms[n + 1], dest[ms[n + 1]], (x + n) % SeqnoLimit)}
        BY <1>0, <1>1, <3>2, HandoversMore
      <3> QED BY <1>0, <2>4, <3>1, <3>3
    <2>7. SubSeq(ms, (n + 1) + 1, k) = <<>> /\ SubSeq(ms, n + 1, k - 1) = <<>>
      <3>1. (n + 1) + 1 \in Int /\ k \in Int /\ k < (n + 1) + 1 /\ n + 1 \in Int /\ k - 1 \in Int /\ k - 1 < n + 1
        BY <1>0, <1>1, <2>1
      <3> QED BY <3>1, SubSeqEmpty
    <2>8. Split(a, c, ms, k, n + 1, S)
      <3>1. a.waiters # <<>> /\ ~(n + 1 < k)
        BY <1>0, <1>1, <1>3, <2>1
      <3>2. Only(c.kmsgs, S) = SubSeq(ms, (n + 1) + 1, k)
        BY <1>0, <1>3, <2>7 DEF Split
      <3>3. Deliveries(c.th, dest) = Deliveries(a.th, dest) \cup Handovers(ms, a.seqno, n + 1)
        BY <1>0, <2>3, <2>6 DEF Split
      <3> QED BY <1>0, <2>5, <3>1, <3>2, <3>3 DEF Split
    <2>9. n + 1 \in 0..k
      BY <1>0, <1>1, <2>1
    <2> QED BY <1>0, <1>3, <2>8, <2>9 DEF Went
  <1> QED BY <1>0, <1>2, <1>3 DEF Passed, Went

LEMMA AllPassed ==
    ASSUME NEW a, Offerable(a), NEW ms \in Seq(Messages), IsInjective(ms),
           NEW S, Range(ms) \subseteq S, Range(a.kmsgs) \cap S = {},
           NEW f, f[0] = a, \A i \in 1..Len(ms) : f[i] = OfferAndWake(f[i - 1], ms[i])
    PROVE  /\ \E n \in 0..Len(ms) : Split(a, f[Len(ms)], ms, Len(ms), n, S)
           /\ Unmixed(a, f[Len(ms)], S)
  <1>1. Len(ms) \in Nat /\ DOMAIN ms = 1..Len(ms) /\ \A i \in 1..Len(ms) : ms[i] \in Messages
    OBVIOUS
  <1>2. a.kmsgs \in Seq(Messages) /\ a.seqno \in Nat /\ a.seqno % SeqnoLimit = a.seqno
    <2>1. a.kmsgs \in Seq(Messages) /\ a.seqno \in Seqnos
      BY DEF Offerable, Offers
    <2> QED BY <2>1, SeqnoIs
  <1> DEFINE Upto(k) == {ms[i] : i \in 1..k}
             Good(k) == /\ Offerable(f[k]) /\ Range(f[k].kmsgs) \subseteq Range(a.kmsgs) \cup Upto(k)
                        /\ f[k].waiters # <<>> => a.waiters # <<>>
                        /\ \E n \in 0..k : Split(a, f[k], ms, k, n, S)
                        /\ Unmixed(a, f[k], S)
             T == {k \in 0..Len(ms) : Good(k)}
  <1>3. 0 \in T
    <2>1. Only(a.kmsgs, S) = <<>>
      <3>1. PICK e, Z : e = a.kmsgs /\ Z = {}
        OBVIOUS
      <3>2. e \in Seq(Messages) /\ IsInjective(e) /\ Range(e) \cap S = {}
        BY <1>2, <3>1 DEF Offerable
      <3>3. Only(e, S) \in Seq(Messages) /\ Range(Only(e, S)) = {}
        BY <3>2, OnlySome
      <3>4. Only(e, S) = <<>>
        BY <3>3, Emptied
      <3> QED BY <3>1, <3>4
    <2>2. SubSeq(ms, 0 + 1, 0) = <<>>
      BY SubSeqEmpty
    <2>3. Handovers(ms, a.seqno, 0) = {}
      BY DEF Handovers
    <2>4. Split(a, a, ms, 0, 0, S)
      BY <1>2, <2>1, <2>2, <2>3 DEF Split
    <2>5. Unmixed(a, a, S)
      BY DEF Unmixed
    <2>6. 0 \in 0..0 /\ 0 \in 0..Len(ms)
      BY <1>1
    <2>7. Good(0)
      <3> HIDE DEF Upto
      <3> QED BY <2>4, <2>5, <2>6
    <2> HIDE DEF Good
    <2> QED BY <2>6, <2>7
  <1>4. ASSUME NEW k \in 1..Len(ms), k - 1 \in T
        PROVE  k \in T
    <2>1. Good(k - 1) /\ k \in 0..Len(ms) /\ ms[k] \in Messages
      <3> HIDE DEF Good
      <3> QED BY <1>1, <1>4
    <2>2. /\ ms[k] \notin Upto(k - 1) /\ Upto(k - 1) \subseteq Upto(k) /\ ms[k] \in Upto(k)
          /\ ms[k] \in S
      <3>1. \A i \in 1..(k - 1) : i \in 1..k /\ i \in 1..Len(ms) /\ i /= k /\ ms[i] /= ms[k]
        BY <1>1 DEF IsInjective
      <3>2. k \in 1..k
        BY <1>1
      <3>3. ms[k] \in S
        BY <1>1 DEF Range
      <3> QED BY <3>1, <3>2, <3>3
    <2> HIDE DEF Upto
    <2>3. PICK m \in Messages : m = ms[k]
      BY <2>1
    <2>4. PICK b, c : b = f[k - 1] /\ c = f[k]
      OBVIOUS
    <2>5. c = OfferAndWake(b, m)
      BY <2>3, <2>4
    <2>6. /\ Offerable(b) /\ Range(b.kmsgs) \subseteq Range(a.kmsgs) \cup Upto(k - 1)
          /\ b.waiters # <<>> => a.waiters # <<>>
          /\ \E n \in 0..(k - 1) : Split(a, b, ms, k - 1, n, S)
          /\ Unmixed(a, b, S)
      BY <2>1, <2>4
    <2>7. m \notin Range(b.kmsgs) /\ m \in S
      BY <2>2, <2>3, <2>6
    <2>8. Dealt(b, c, {m}) /\ Passed(b, c, m)
      BY <2>5, <2>6, <2>7, OfferAndWakeDeals, OfferAndWakePasses
    <2>15. PICK j : j = k - 1
      OBVIOUS
    <2>9. PICK n \in 0..j : Split(a, b, ms, j, n, S)
      BY <2>6, <2>15
    <2>16. Goes(a, b, c, ms, k, j, n, m, S)
      BY <2>3, <2>6, <2>7, <2>8, <2>9, <2>15 DEF Goes
    <2>17. Went(a, b, c, ms, k, m, S)
      BY ONLY <2>16, SplitMore
    <2>10. /\ \E i \in 0..k : Split(a, c, ms, k, i, S)
           /\ \A R : m \notin R => Only(c.kmsgs, R) = Only(b.kmsgs, R)
      BY <2>17 DEF Went
    <2>11. Unmixed(a, c, S)
      BY <2>6, <2>7, <2>10 DEF Unmixed
    <2>12. Offerable(c) /\ Range(c.kmsgs) \subseteq Range(a.kmsgs) \cup Upto(k)
      BY <2>2, <2>3, <2>6, <2>8 DEF Dealt
    <2>13. c.waiters # <<>> => b.waiters # <<>>
      BY <2>8 DEF Passed
    <2>14. Good(k)
      BY <2>4, <2>6, <2>10, <2>11, <2>12, <2>13
    <2> HIDE DEF Good
    <2> QED BY <2>1, <2>14
  <1>5. Len(ms) \in T
    <2> HIDE DEF T
    <2>1. \A i \in 0..Len(ms) : i \in T
      BY ONLY <1>1, <1>3, <1>4, Induction
    <2>2. Len(ms) \in 0..Len(ms)
      BY <1>1
    <2> QED BY <2>1, <2>2
  <1> HIDE DEF Upto
  <1> QED BY <1>5

-----------------------------------------------------------------------------
(* Moving a port's messages keeps their order and that of all others.      *)

\* How r is made of s by offering the messages ms of p in queue from to queue to.
Made(s, r, to, from, p, f, ms) ==
    /\ ms = MessagesOf(p, s.mq[from].kmsgs) /\ ms \in Seq(Messages) /\ IsInjective(ms)
    /\ Range(ms) = {m \in Range(s.mq[from].kmsgs) : dest[m] = p}
    /\ f[0] = [kmsgs |-> s.mq[to].kmsgs, waiters |-> s.mq[to].waiters,
               seqno |-> s.port[p].seqno, th |-> s.th]
    /\ \A i \in 1..Len(ms) : f[i] = OfferAndWake(f[i - 1], ms[i])
    /\ Offerable(f[0])
    /\ r.mq[to].kmsgs = f[Len(ms)].kmsgs
    /\ r.mq[from].kmsgs = OthersThan(p, s.mq[from].kmsgs)
    /\ \A z \in Queues \ {to, from} : r.mq[z] = s.mq[z]
    /\ r.th = f[Len(ms)].th
    /\ r.port = [s.port EXCEPT ![p] = [s.port[p] EXCEPT !.seqno = f[Len(ms)].seqno]]

LEMMA MoveMakes ==
    ASSUME Settled, NEW s \in States, Fine(s.mq, s.th), NEW to \in Queues, NEW from \in Queues,
           to # from, NEW p \in Ports, NEW r, r = Move(s, to, from, p)
    PROVE  \E f, ms : Made(s, r, to, from, p, f, ms)
  <1> DEFINE q == s.mq
             k == s.th
  <1>1. /\ q \in [Queues -> QueueRecords] /\ k \in [Threads -> ThreadRecords]
        /\ s.port \in [Ports -> PortRecords] /\ QueuesOK(q)
    BY DEF States, Fine
  <1>2. /\ q[from].kmsgs \in Seq(Messages) /\ Range(q[from].kmsgs) \subseteq Messages
        /\ q[from].waiters \in Seq(Receivers) /\ IsInjective(q[from].kmsgs)
        /\ q[to].kmsgs \in Seq(Messages) /\ q[to].waiters \in Seq(Receivers)
        /\ Range(q[to].waiters) \subseteq Threads
        /\ IsInjective(q[to].kmsgs) /\ IsInjective(q[to].waiters)
    BY <1>1, RangesIn
  <1>3. PICK S, u : S = {m \in Messages : dest[m] = p} /\ u = q[from].kmsgs
    OBVIOUS
  <1>4. u \in Seq(Messages) /\ IsInjective(u) /\ Range(u) \subseteq Messages
    BY <1>2, <1>3
  <1>5. PICK ms, os : ms = Only(u, S) /\ os = OthersThan(p, u)
    OBVIOUS
  <1>6. ms = MessagesOf(p, q[from].kmsgs) /\ os = OthersThan(p, q[from].kmsgs)
    BY <1>3, <1>5 DEF MessagesOf
  <1>7. ms \in Seq(Messages) /\ IsInjective(ms) /\ Range(ms) = Range(u) \cap S
    BY <1>4, <1>5, OnlySome
  <1>8. PICK f : Moving(f, ms, s, to, from, p)
    BY <1>1, <1>6, <1>7, MoveIs
  <1>9. PICK a, b : a = f[0] /\ b = f[Len(ms)]
    OBVIOUS
  <1>10. /\ a = [kmsgs |-> q[to].kmsgs, waiters |-> q[to].waiters,
                 seqno |-> s.port[p].seqno, th |-> k]
         /\ a.kmsgs = q[to].kmsgs /\ a.waiters = q[to].waiters /\ a.th = k
    BY <1>8, <1>9 DEF Moving
  <1>11. Offerable(a)
    <2>1. a \in Offers
      BY <1>1, <1>2, <1>10 DEF Offers, PortRecords
    <2>2. \A t \in Range(q[to].waiters) : k[t].kmsg = NoMessage
      <3> SUFFICES ASSUME NEW t \in Range(q[to].waiters) PROVE k[t].kmsg = NoMessage
        OBVIOUS
      <3>1. t \in Threads
        BY <1>2
      <3>2. Order(t, k[t], pc[t], call[t]) /\ Listed(t, k[t], call[t], blocked, q)
        BY <3>1 DEF Fine
      <3>3. k[t].state = "RCV_IN_PROGRESS"
        BY <3>2 DEF Listed
      <3> QED BY <3>1, <3>2, <3>3 DEF Order, Settled
    <2> QED BY <1>1, <1>2, <1>10, <2>1, <2>2 DEF Offerable, QueuesOK
  <1>12. /\ r.mq = [q EXCEPT ![from] = [kmsgs |-> os, waiters |-> q[from].waiters],
                             ![to] = [kmsgs |-> b.kmsgs, waiters |-> b.waiters]]
         /\ r.th = b.th
         /\ r.port = [s.port EXCEPT ![p] = [s.port[p] EXCEPT !.seqno = b.seqno]]
    <2>1. r = [s EXCEPT !.mq[from].kmsgs = os,
                        !.mq[to] = [kmsgs |-> b.kmsgs, waiters |-> b.waiters],
                        !.th = b.th,
                        !.port[p].seqno = b.seqno]
      BY <1>6, <1>8, <1>9 DEF Moving
    <2>2. s = [mq |-> q, th |-> k, port |-> s.port]
      BY DEF States
    <2>3. [q[from] EXCEPT !.kmsgs = os] = [kmsgs |-> os, waiters |-> q[from].waiters]
      BY <1>1 DEF QueueRecords
    <2>4. r = [mq |-> [q EXCEPT ![from] = [q[from] EXCEPT !.kmsgs = os],
                                ![to] = [kmsgs |-> b.kmsgs, waiters |-> b.waiters]],
               th |-> b.th,
               port |-> [s.port EXCEPT ![p] = [s.port[p] EXCEPT !.seqno = b.seqno]]]
      <3> HIDE DEF q, k
      <3>1. PICK g, h : g = [q[from] EXCEPT !.kmsgs = os] /\ h = [kmsgs |-> b.kmsgs, waiters |-> b.waiters]
        OBVIOUS
      <3>2. PICK s1 : s1 = [s EXCEPT !.mq[from].kmsgs = os]
        OBVIOUS
      <3>3. s1 = [mq |-> [q EXCEPT ![from] = g], th |-> k, port |-> s.port]
        BY <2>2, <3>1, <3>2
      <3>4. PICK s2 : s2 = [s1 EXCEPT !.mq[to] = h]
        OBVIOUS
      <3>5. s2 = [mq |-> [q EXCEPT ![from] = g, ![to] = h], th |-> k, port |-> s.port]
        BY <3>3, <3>4
      <3>6. r = [s2 EXCEPT !.th = b.th, !.port[p].seqno = b.seqno]
        BY <2>1, <3>1, <3>2, <3>4
      <3> QED BY <3>1, <3>5, <3>6
    <2> QED BY <2>3, <2>4
  <1>13. /\ r.mq[to].kmsgs = b.kmsgs /\ r.mq[from].kmsgs = os
         /\ \A z \in Queues \ {to, from} : r.mq[z] = q[z]
    <2>1. PICK g, h, q2 : /\ g = [kmsgs |-> os, waiters |-> q[from].waiters]
                          /\ h = [kmsgs |-> b.kmsgs, waiters |-> b.waiters] /\ q2 = r.mq
      OBVIOUS
    <2>2. q2 = [q EXCEPT ![from] = g, ![to] = h]
      BY <1>12, <2>1
    <2>3. q2[to] = h /\ q2[from] = g /\ \A z \in Queues \ {to, from} : q2[z] = q[z]
      BY <1>1, <2>2
    <2> QED BY <2>1, <2>3
  <1>14. Range(ms) = {m \in Range(q[from].kmsgs) : dest[m] = p}
    BY <1>3, <1>4, <1>7
  <1>15. f[0] = a /\ f[Len(ms)] = b /\ \A i \in 1..Len(ms) : f[i] = OfferAndWake(f[i - 1], ms[i])
    BY <1>8, <1>9 DEF Moving
  <1>16. Made(s, r, to, from, p, f, ms)
    <2>1. OthersThan(p, q[from].kmsgs) = os /\ a.kmsgs = q[to].kmsgs
      BY <1>6, <1>10
    <2> QED BY <1>6, <1>7, <1>10, <1>11, <1>12, <1>13, <1>14, <1>15, <2>1 DEF Made
  <1> QED BY <1>16

\* The first n messages of p in queue from are handed over, the others moved.
MovedInTurn(s, r, to, from, p, n) ==
    LET ms == MessagesOf(p, s.mq[from].kmsgs) IN
    /\ n \in 0..Len(ms) /\ ms \in Seq(Messages)
    /\ \A m \in Range(ms) : dest[m] = p
    /\ n > 0 => s.mq[to].waiters # <<>>
    /\ MessagesOf(p, r.mq[to].kmsgs) = SubSeq(ms, n + 1, Len(ms))
    /\ r.port[p].seqno = (s.port[p].seqno + n) % SeqnoLimit
    /\ Deliveries(r.th, dest) = Deliveries(s.th, dest) \cup Handovers(ms, s.port[p].seqno, n)
    /\ \A z \in Ports \ {p} :
          /\ r.port[z].seqno = s.port[z].seqno
          /\ \A x \in Queues : MessagesOf(z, r.mq[x].kmsgs) = MessagesOf(z, s.mq[x].kmsgs)

LEMMA MoveOrdered ==
    ASSUME Settled, NEW s \in States, Fine(s.mq, s.th), NEW to \in Queues, NEW from \in Queues,
           to # from, NEW p \in Ports, NEW r, r = Move(s, to, from, p),
           \A m \in Range(s.mq[to].kmsgs) : dest[m] # p
    PROVE  \E n : MovedInTurn(s, r, to, from, p, n)
  <1>1. PICK f, ms : Made(s, r, to, from, p, f, ms)
    BY MoveMakes
  <1>2. PICK a, b, S, u : a = f[0] /\ b = f[Len(ms)] /\ S = {m \in Messages : dest[m] = p}
                          /\ u = s.mq[from].kmsgs
    OBVIOUS
  <1>3. /\ a = [kmsgs |-> s.mq[to].kmsgs, waiters |-> s.mq[to].waiters,
                seqno |-> s.port[p].seqno, th |-> s.th]
        /\ Offerable(a) /\ ms \in Seq(Messages) /\ IsInjective(ms)
        /\ f[0] = a /\ \A i \in 1..Len(ms) : f[i] = OfferAndWake(f[i - 1], ms[i])
        /\ Range(ms) = {m \in Range(u) : dest[m] = p}
        /\ r.mq[to].kmsgs = b.kmsgs /\ r.mq[from].kmsgs = OthersThan(p, u)
        /\ r.th = b.th /\ ms = MessagesOf(p, u)
        /\ r.port = [s.port EXCEPT ![p] = [s.port[p] EXCEPT !.seqno = b.seqno]]
        /\ \A z \in Queues \ {to, from} : r.mq[z] = s.mq[z]
    BY <1>1, <1>2 DEF Made
  <1>4. a.kmsgs = s.mq[to].kmsgs /\ a.waiters = s.mq[to].waiters /\ a.seqno = s.port[p].seqno /\ a.th = s.th
    BY <1>3
  <1>5. u \in Seq(Messages) /\ Range(u) \subseteq Messages /\ Range(ms) \subseteq S /\ Range(a.kmsgs) \cap S = {}
    <2>1. u \in Seq(Messages) /\ Range(u) \subseteq Messages
      BY <1>2, RangesIn DEF Fine
    <2> QED BY <1>2, <1>3, <1>4, <2>1
  <1>6. /\ \E n \in 0..Len(ms) : Split(a, b, ms, Len(ms), n, S)
        /\ Unmixed(a, b, S)
    <2>1. LET e == f[Len(ms)] IN (\E n \in 0..Len(ms) : Split(a, e, ms, Len(ms), n, S)) /\ Unmixed(a, e, S)
      BY <1>3, <1>5, AllPassed
    <2> QED BY <1>2, <2>1
  <1>7. PICK n \in 0..Len(ms) : Split(a, b, ms, Len(ms), n, S)
    BY <1>6
  <1>8. MessagesOf(p, r.mq[to].kmsgs) = SubSeq(ms, n + 1, Len(ms))
    BY <1>2, <1>3, <1>7 DEF Split, MessagesOf
  <1>9. r.port[p].seqno = b.seqno /\ \A z \in Ports \ {p} : r.port[z].seqno = s.port[z].seqno
    <2>1. s.port \in [Ports -> PortRecords]
      BY DEF States
    <2>2. PICK g : g = [s.port[p] EXCEPT !.seqno = b.seqno]
      OBVIOUS
    <2>3. g.seqno = b.seqno
      BY <2>1, <2>2 DEF PortRecords
    <2> QED BY <1>3, <2>1, <2>2, <2>3
  <1>10. ASSUME NEW z \in Ports \ {p}, NEW x \in Queues
         PROVE  MessagesOf(z, r.mq[x].kmsgs) = MessagesOf(z, s.mq[x].kmsgs)
    <2>1. PICK R : R = {m \in Messages : dest[m] = z}
      OBVIOUS
    <2>2. CASE x = to
      <3>1. S \cap R = {}
        BY <1>2, <2>1
      <3>2. Only(b.kmsgs, R) = Only(a.kmsgs, R)
        BY ONLY <1>6, <3>1 DEF Unmixed
      <3> QED BY <1>3, <1>4, <2>1, <2>2, <3>2 DEF MessagesOf
    <2>3. CASE x = from
      <3>1. PICK Q : Q = {m \in Messages : dest[m] # p}
        OBVIOUS
      <3>2. Range(u) \cap R \subseteq Q
        BY <2>1, <3>1
      <3>3. Only(Only(u, Q), R) = Only(u, R)
        BY ONLY <1>5, <3>2, OnlyOnly
      <3>4. r.mq[x].kmsgs = Only(u, Q)
        BY <1>3, <2>3, <3>1 DEF OthersThan
      <3> QED BY <1>2, <2>1, <2>3, <3>3, <3>4 DEF MessagesOf
    <2>4. CASE x \in Queues \ {to, from}
      BY <1>3, <2>4
    <2> QED BY <2>2, <2>3, <2>4
  <1>11. MovedInTurn(s, r, to, from, p, n)
    <2>1. Deliveries(r.th, dest) = Deliveries(s.th, dest) \cup Handovers(ms, s.port[p].seqno, n)
      BY <1>3, <1>4, <1>7 DEF Split
    <2>2. r.port[p].seqno = (s.port[p].seqno + n) % SeqnoLimit /\ (n > 0 => s.mq[to].waiters # <<>>)
      BY <1>4, <1>7, <1>9 DEF Split
    <2>3. \A m \in Range(ms) : dest[m] = p
      BY <1>3
    <2>4. ms = MessagesOf(p, s.mq[from].kmsgs)
      BY <1>2, <1>3
    <2> QED BY <1>3, <1>8, <1>9, <1>10, <2>1, <2>2, <2>3, <2>4 DEF MovedInTurn
  <1> QED BY <1>11

-----------------------------------------------------------------------------
(* What operations on sets and receive rights do to a port's messages.     *)

\* The messages of p, in the queue where they are received.
Held(s, p) == MessagesOf(p, s.mq[Home(s.port, p)].kmsgs)

SameHeld(s, r) ==
    /\ \A z \in Ports : Held(r, z) = Held(s, z)
    /\ Deliveries(r.th, dest) = Deliveries(s.th, dest)

SameSeqnos(s, r) == \A z \in Ports : r.port[z].seqno = s.port[z].seqno

LEMMA ChangedHolds ==
    ASSUME NEW s \in States, NEW x \in Queues,
           NEW state, state = "PORT_DIED" \/ state = "PORT_CHANGED", NEW r, r = Changed(s, x, state)
    PROVE  /\ r.port = s.port /\ \A z \in Queues : r.mq[z].kmsgs = s.mq[z].kmsgs
           /\ Deliveries(r.th, dest) = Deliveries(s.th, dest)
  <1>1. PICK q, k, po : q = s.mq /\ k = s.th /\ po = s.port
    OBVIOUS
  <1>2. /\ q \in [Queues -> QueueRecords] /\ k \in [Threads -> ThreadRecords]
        /\ s = [mq |-> q, th |-> k, port |-> po]
    BY <1>1 DEF States
  <1>3. PICK g, w : g = [q[x] EXCEPT !.waiters = <<>>] /\ w = Wake(k, Range(q[x].waiters), state)
    OBVIOUS
  <1>4. PICK q2 : q2 = [q EXCEPT ![x] = g]
    OBVIOUS
  <1>5. r = [mq |-> q2, th |-> w, port |-> po]
    BY <1>1, <1>2, <1>3, <1>4 DEF Changed
  <1>6. g.kmsgs = q[x].kmsgs
    BY <1>2, <1>3 DEF QueueRecords
  <1>7. \A z \in Queues : q2[z].kmsgs = q[z].kmsgs
    BY <1>2, <1>4, <1>6
  <1>8. \A t \in Threads : w[t].kmsg = k[t].kmsg /\ w[t].seqno = k[t].seqno
    <2>1. state \in IthStates
      BY DEF IthStates
    <2> QED BY <1>2, <1>3, <2>1, WakeKeeps
  <1>9. \A t \in Threads : Carries(k, w, t)
    BY <1>8 DEF Carries
  <1>10. Deliveries(w, dest) = Deliveries(k, dest)
    BY <1>9, SameDeliveries
  <1> QED BY <1>1, <1>5, <1>7, <1>10

\* The port is taken out of its set.
LEMMA PsetRemoveHolds ==
    ASSUME Settled, NEW s \in States, Fine(s.mq, s.th), NEW as, Housed(s.mq, s.port, as),
           NEW p \in Ports, NEW r, r = PsetRemove(s, p)
    PROVE  SameHeld(s, r) /\ SameSeqnos(s, r)
  <1>1. CASE s.port[p].pset = NoPset
    <2>1. r = s
      BY <1>1 DEF PsetRemove
    <2> QED BY <2>1 DEF SameHeld, SameSeqnos
  <1>2. CASE s.port[p].pset # NoPset
    <2>1. PICK q, k, po, ps : q = s.mq /\ k = s.th /\ po = s.port /\ ps = po[p].pset
      OBVIOUS
    <2>2. /\ q \in [Queues -> QueueRecords] /\ k \in [Threads -> ThreadRecords]
          /\ po \in [Ports -> PortRecords] /\ s = [mq |-> q, th |-> k, port |-> po]
          /\ po[p] \in PortRecords /\ Fine(q, k) /\ QueuesOK(q)
      BY <2>1 DEF States, Fine
    <2>3. PICK g : g = [po[p] EXCEPT !.pset = NoPset]
      OBVIOUS
    <2>4. g \in PortRecords /\ g.seqno = po[p].seqno /\ po[p].seqno \in Seqnos
      BY <2>2, <2>3 DEF PortRecords
    <2>5. PICK s1 : s1 = [mq |-> q, th |-> k, port |-> [po EXCEPT ![p] = g]]
      OBVIOUS
    <2>6. ps \in Psets /\ ps \in Queues /\ p \in Queues /\ p # ps
      BY <1>2, <2>1, <2>2, MessageQueueAssumption DEF PortRecords, Queues
    <2>7. r = Move(s1, p, ps, p)
      <3>1. s1 = [s EXCEPT !.port[p].pset = NoPset]
        BY <2>2, <2>3, <2>5
      <3> QED BY <1>2, <2>1, <3>1 DEF PsetRemove
    <2>8. /\ s1 \in States /\ s1.mq = q /\ s1.th = k
          /\ \A z \in Ports : s1.port[z].seqno = po[z].seqno
      <3>1. [po EXCEPT ![p] = g] \in [Ports -> PortRecords]
        BY <2>2, <2>4
      <3> QED BY <2>2, <2>4, <2>5, <3>1 DEF States
    <2>9. Fine(s1.mq, s1.th)
      BY <2>2, <2>8
    <2>10. \A m \in Range(s1.mq[p].kmsgs) : dest[m] # p
      BY <1>2, <2>1, <2>6, <2>8 DEF Housed, Home
    <2>11. PICK n : MovedInTurn(s1, r, p, ps, p, n)
      BY <2>6, <2>7, <2>8, <2>9, <2>10, MoveOrdered
    <2>12. q[p].waiters = <<>>
      BY <1>2, <2>1 DEF Housed
    <2>13. n = 0
      BY <2>8, <2>11, <2>12 DEF MovedInTurn
    <2>14. PICK ms : ms = MessagesOf(p, q[ps].kmsgs)
      OBVIOUS
    <2>15. /\ ms \in Seq(Messages) /\ MessagesOf(p, r.mq[p].kmsgs) = SubSeq(ms, 1, Len(ms))
           /\ r.port[p].seqno = (po[p].seqno + 0) % SeqnoLimit
           /\ Deliveries(r.th, dest) = Deliveries(k, dest) \cup Handovers(ms, po[p].seqno, 0)
           /\ \A z \in Ports \ {p} :
                 /\ r.port[z].seqno = po[z].seqno
                 /\ \A x \in Queues : MessagesOf(z, r.mq[x].kmsgs) = MessagesOf(z, q[x].kmsgs)
      BY <2>8, <2>11, <2>13, <2>14 DEF MovedInTurn
    <2>16. SubSeq(ms, 1, Len(ms)) = ms
      BY <2>15, SubSeqFull
    <2>17. r.port[p].seqno = po[p].seqno
      <3>1. PICK e \in Seqnos : e = po[p].seqno
        BY <2>4
      <3>2. e \in Nat /\ e % SeqnoLimit = e
        BY SeqnoIs
      <3> QED BY <2>15, <3>1, <3>2
    <2>18. Deliveries(r.th, dest) = Deliveries(k, dest)
      BY <2>15 DEF Handovers
    <2>19. /\ \A z \in Ports \ {p} : r.port[z].pset = po[z].pset
           /\ r.port[p].pset = NoPset
      <3>1. Effect(s, r, p, NoPset, as)
        BY PsetRemoveIs
      <3> QED BY <2>1, <3>1 DEF Effect
    <2>20. Held(r, p) = Held(s, p)
      BY <1>2, <2>1, <2>14, <2>15, <2>16, <2>19 DEF Held, Home
    <2>21. ASSUME NEW z \in Ports \ {p}
           PROVE  Held(r, z) = Held(s, z)
      <3>1. PICK x : x = Home(po, z)
        OBVIOUS
      <3>2. x \in Queues /\ Home(r.port, z) = x
        BY <2>2, <2>19, <3>1 DEF Home, PortRecords, Queues
      <3> QED BY <2>1, <2>15, <3>1, <3>2 DEF Held
    <2> QED BY <2>1, <2>15, <2>17, <2>18, <2>20, <2>21 DEF SameHeld, SameSeqnos
  <1> QED BY <1>1, <1>2

LEMMA LeaveDeadSetHolds ==
    ASSUME Settled, NEW s \in States, Fine(s.mq, s.th), NEW as, Housed(s.mq, s.port, as),
           NEW p \in Ports, NEW r, r = LeaveDeadSet(s, p)
    PROVE  SameHeld(s, r) /\ SameSeqnos(s, r)
  <1>1. CASE s.port[p].pset \in active_set
    <2>1. r = s
      BY <1>1 DEF LeaveDeadSet
    <2> QED BY <2>1 DEF SameHeld, SameSeqnos
  <1>2. CASE s.port[p].pset \notin active_set
    <2>1. r = PsetRemove(s, p)
      BY <1>2 DEF LeaveDeadSet
    <2> QED BY <2>1, PsetRemoveHolds
  <1> QED BY <1>1, <1>2

\* The messages stay in their order, and numbers begin at 0.
LEMMA ClearReceiverHolds ==
    ASSUME Settled, NEW s \in States, Fine(s.mq, s.th), NEW as, Housed(s.mq, s.port, as),
           NEW p \in Ports, s = State, NEW r, r = ClearReceiver(p)
    PROVE  /\ SameHeld(s, r) /\ r.port[p].seqno = 0
           /\ \A z \in Ports \ {p} : r.port[z].seqno = s.port[z].seqno
  <1>1. s.port = port /\ p \in Queues
    BY DEF State, Queues
  <1>2. PICK s2 : s2 = IF port[p].pset # NoPset THEN PsetRemove(s, p)
                                                ELSE Changed(s, p, "PORT_DIED")
    OBVIOUS
  <1>3. r = [s2 EXCEPT !.port[p].seqno = 0]
    BY <1>2 DEF ClearReceiver
  <1>4. s2 \in States /\ SameHeld(s, s2) /\ SameSeqnos(s, s2)
    <2>1. CASE port[p].pset # NoPset
      <3>1. s2 = PsetRemove(s, p)
        BY <1>2, <2>1
      <3>2. Effect(s, s2, p, NoPset, as)
        BY <3>1, PsetRemoveIs
      <3> QED BY <3>1, <3>2, PsetRemoveHolds DEF Effect
    <2>2. CASE port[p].pset = NoPset
      <3>1. PICK state : state = "PORT_DIED"
        OBVIOUS
      <3>2. s2 = Changed(s, p, state)
        BY <1>2, <2>2, <3>1
      <3>3. /\ s2.port = s.port /\ \A z \in Queues : s2.mq[z].kmsgs = s.mq[z].kmsgs
            /\ Deliveries(s2.th, dest) = Deliveries(s.th, dest)
        BY <1>1, <3>1, <3>2, ChangedHolds
      <3>4. s2 \in States
        BY <1>1, <3>1, <3>2, ChangedFine
      <3>5. \A z \in Ports : Home(s.port, z) \in Queues
        BY DEF States, PortRecords, Home, Queues
      <3> QED BY <3>3, <3>4, <3>5 DEF SameHeld, SameSeqnos, Held
    <2> QED BY <2>1, <2>2
  <1>5. PICK g : g = [s2.port[p] EXCEPT !.seqno = 0]
    OBVIOUS
  <1>6. g \in PortRecords /\ g.seqno = 0 /\ g.pset = s2.port[p].pset
    <2>1. s2.port[p] \in PortRecords /\ 0 \in Seqnos
      BY <1>4, MessageQueueAssumption DEF States, Seqnos
    <2> QED BY <1>5, <2>1 DEF PortRecords
  <1>7. r = [s2 EXCEPT !.port[p] = g]
    BY <1>3, <1>4, <1>5 DEF States
  <1>8. PutPort(s2, r, p, g)
    BY <1>4, <1>6, <1>7, PortSet
  <1>9. \A z \in Ports : Home(r.port, z) = Home(s2.port, z)
    BY <1>6, <1>8 DEF PutPort, Home
  <1>10. SameHeld(s, r)
    BY <1>4, <1>8, <1>9 DEF PutPort, SameHeld, Held
  <1> QED BY <1>4, <1>6, <1>8, <1>10 DEF PutPort, SameSeqnos

\* n of p's messages are handed over, and nothing happens to other ports.
Turn(s, r, p, n) ==
    LET ms == Held(s, p) IN
    /\ n \in 0..Len(ms) /\ ms \in Seq(Messages)
    /\ \A m \in Range(ms) : dest[m] = p
    /\ Held(r, p) = SubSeq(ms, n + 1, Len(ms))
    /\ r.port[p].seqno = (s.port[p].seqno + n) % SeqnoLimit
    /\ Deliveries(r.th, dest) = Deliveries(s.th, dest) \cup Handovers(ms, s.port[p].seqno, n)
    /\ \A z \in Ports \ {p} : r.port[z].seqno = s.port[z].seqno /\ Held(r, z) = Held(s, z)

\* The port is put into a set: its messages go to receivers that wait there.
LEMMA PsetAddTurns ==
    ASSUME Settled, NEW s \in States, Fine(s.mq, s.th), NEW as, Housed(s.mq, s.port, as),
           NEW p \in Ports, s.port[p].pset = NoPset, NEW ps \in Psets, ps \in as,
           NEW r, r = PsetAdd(s, ps, p)
    PROVE  \E n : Turn(s, r, p, n)
  <1>1. PICK q, k, po : q = s.mq /\ k = s.th /\ po = s.port
    OBVIOUS
  <1>2. /\ q \in [Queues -> QueueRecords] /\ k \in [Threads -> ThreadRecords]
        /\ po \in [Ports -> PortRecords] /\ s = [mq |-> q, th |-> k, port |-> po]
        /\ po[p] \in PortRecords /\ Fine(q, k) /\ QueuesOK(q)
    BY <1>1 DEF States, Fine
  <1>3. PICK g : g = [po[p] EXCEPT !.pset = ps]
    OBVIOUS
  <1>4. g \in PortRecords /\ g.seqno = po[p].seqno
    BY <1>2, <1>3 DEF PortRecords
  <1>5. PICK s1 : s1 = [mq |-> q, th |-> k, port |-> [po EXCEPT ![p] = g]]
    OBVIOUS
  <1>6. ps \in Queues /\ p \in Queues /\ p # ps /\ p \notin Psets /\ ps # NoPset
    BY MessageQueueAssumption DEF Queues
  <1>7. PICK s2 : s2 = Move(s1, ps, p, p)
    OBVIOUS
  <1>8. r = Changed(s2, p, "PORT_CHANGED")
    <2>1. s1 = [s EXCEPT !.port[p].pset = ps]
      BY <1>2, <1>3, <1>5
    <2> QED BY <1>7, <2>1 DEF PsetAdd
  <1>9. /\ s1 \in States /\ s1.mq = q /\ s1.th = k
        /\ \A z \in Ports : s1.port[z].seqno = po[z].seqno
    <2>1. [po EXCEPT ![p] = g] \in [Ports -> PortRecords]
      BY <1>2, <1>4
    <2> QED BY <1>2, <1>4, <1>5, <2>1 DEF States
  <1>10. Fine(s1.mq, s1.th)
    BY <1>2, <1>9
  <1>11. \A m \in Range(s1.mq[ps].kmsgs) : dest[m] # p
    BY <1>1, <1>6, <1>9 DEF Housed, Home
  <1>12. s2 \in States
    BY <1>6, <1>7, <1>9, <1>10, MoveFine
  <1>13. PICK n : MovedInTurn(s1, s2, ps, p, p, n)
    BY <1>6, <1>7, <1>9, <1>10, <1>11, MoveOrdered
  <1>14. PICK state : state = "PORT_CHANGED"
    OBVIOUS
  <1>15. /\ r.port = s2.port /\ \A z \in Queues : r.mq[z].kmsgs = s2.mq[z].kmsgs
         /\ Deliveries(r.th, dest) = Deliveries(s2.th, dest)
    BY <1>6, <1>8, <1>12, <1>14, ChangedHolds
  <1>16. PICK ms : ms = MessagesOf(p, q[p].kmsgs)
    OBVIOUS
  <1>17. /\ n \in 0..Len(ms) /\ ms \in Seq(Messages) /\ \A m \in Range(ms) : dest[m] = p
         /\ MessagesOf(p, s2.mq[ps].kmsgs) = SubSeq(ms, n + 1, Len(ms))
         /\ s2.port[p].seqno = (po[p].seqno + n) % SeqnoLimit
         /\ Deliveries(s2.th, dest) = Deliveries(k, dest) \cup Handovers(ms, po[p].seqno, n)
         /\ \A z \in Ports \ {p} :
               /\ s2.port[z].seqno = po[z].seqno
               /\ \A x \in Queues : MessagesOf(z, s2.mq[x].kmsgs) = MessagesOf(z, q[x].kmsgs)
    BY <1>9, <1>13, <1>16 DEF MovedInTurn
  <1>18. /\ \A z \in Ports \ {p} : r.port[z].pset = po[z].pset
         /\ r.port[p].pset = ps
    <2>1. Effect(s, r, p, ps, as)
      BY PsetAddIs
    <2> QED BY <1>1, <2>1 DEF Effect
  <1>19. Held(s, p) = ms /\ Held(r, p) = SubSeq(ms, n + 1, Len(ms))
    BY <1>1, <1>6, <1>15, <1>16, <1>17, <1>18 DEF Held, Home
  <1>20. ASSUME NEW z \in Ports \ {p}
         PROVE  Held(r, z) = Held(s, z)
    <2>1. PICK x : x = Home(po, z)
      OBVIOUS
    <2>2. x \in Queues /\ Home(r.port, z) = x
      BY <1>2, <1>18, <2>1 DEF Home, PortRecords, Queues
    <2> QED BY <1>1, <1>15, <1>17, <2>1, <2>2 DEF Held
  <1>21. Turn(s, r, p, n)
    BY <1>1, <1>15, <1>17, <1>19, <1>20 DEF Turn
  <1> QED BY <1>21

-----------------------------------------------------------------------------
(* The promise of PortQueue, said of the queues.                           *)

Waiting == [p \in Ports |-> MessagesOf(p, mq[Mqueue(p)].kmsgs)]
HandedOut == Deliveries(th, dest)
Numbers == [p \in Ports |-> port[p].seqno]
Living == {p \in Ports : port[p].active}

LEMMA StuttersAbstractly ==
    ASSUME UNCHANGED <<Waiting, HandedOut, Numbers, Living>>
    PROVE  UNCHANGED Abstract!vars
  BY DEF Abstract!vars, Waiting, HandedOut, Numbers, Living, Deliveries, Delivery

LEMMA StartsAbstractly ==
    ASSUME Waiting = [p \in Ports |-> <<>>], HandedOut = {},
           Numbers = [p \in Ports |-> 0], Living = Ports
    PROVE  Abstract!Init
  BY DEF Abstract!Init, Waiting, HandedOut, Numbers, Living, Deliveries, Delivery

\* The first n of p's messages ms are handed over, the others wait.
Exchanges(p, ms, n) ==
    /\ p \in Living /\ n \in 0..Len(ms)
    /\ Waiting' = [Waiting EXCEPT ![p] = SubSeq(ms, n + 1, Len(ms))]
    /\ HandedOut' = HandedOut \cup {Delivery(ms[i], p, (Numbers[p] + i - 1) % SeqnoLimit) : i \in 1..n}
    /\ Numbers' = [Numbers EXCEPT ![p] = (Numbers[p] + n) % SeqnoLimit]
    /\ Living' = Living

LEMMA Exchanged ==
    ASSUME NEW p \in Ports, NEW a, a = <<>> \/ \E m \in Messages : a = <<m>>,
           NEW n, Exchanges(p, Waiting[p] \o a, n)
    PROVE  Abstract!Next
  <1>1. Abstract!Exchange(p, a)
    BY DEF Abstract!Exchange, Abstract!Numbered, Exchanges, Waiting, HandedOut, Numbers, Living, Deliveries, Delivery
  <1> QED BY <1>1 DEF Abstract!Next

LEMMA Consumed ==
    ASSUME NEW r \in HandedOut, HandedOut' = HandedOut \ {r}, UNCHANGED <<Waiting, Numbers, Living>>
    PROVE  Abstract!Next
  <1>1. Abstract!Consume(r)
    BY DEF Abstract!Consume, Waiting, HandedOut, Numbers, Living, Deliveries, Delivery
  <1> QED BY <1>1 DEF Abstract!Next, HandedOut, Deliveries, Delivery

LEMMA Renumbered ==
    ASSUME NEW p \in Ports, NEW n \in 0..(SeqnoLimit - 1), p \in Living,
           Numbers' = [Numbers EXCEPT ![p] = n], UNCHANGED <<Waiting, HandedOut, Living>>
    PROVE  Abstract!Next
  <1>1. Abstract!Renumber(p, n)
    BY DEF Abstract!Renumber, Waiting, HandedOut, Numbers, Living, Deliveries, Delivery
  <1> QED BY <1>1 DEF Abstract!Next

LEMMA Destroyed ==
    ASSUME NEW p \in Ports, Living' = Living \ {p},
           Numbers' = [Numbers EXCEPT ![p] = 0], UNCHANGED <<Waiting, HandedOut>>
    PROVE  Abstract!Next
  <1>1. Abstract!Destroy(p)
    BY DEF Abstract!Destroy, Waiting, HandedOut, Numbers, Living, Deliveries, Delivery
  <1> QED BY <1>1 DEF Abstract!Next

LEMMA Discarded ==
    ASSUME NEW p \in Ports, p \notin Living, Waiting[p] # <<>>,
           Waiting' = [Waiting EXCEPT ![p] = Tail(Waiting[p])], UNCHANGED <<HandedOut, Numbers, Living>>
    PROVE  Abstract!Next
  <1>1. Abstract!Discard(p)
    BY DEF Abstract!Discard, Waiting, HandedOut, Numbers, Living, Deliveries, Delivery
  <1> QED BY <1>1 DEF Abstract!Next

\* Receive rights: only living ports have them, only their ports are in sets
\* and count messages.
Rights(po) ==
    \A p \in Ports : /\ po[p].owned => po[p].active
                     /\ po[p].pset # NoPset => po[p].owned
                     /\ ~po[p].owned => po[p].seqno = 0

Conforms == Rights(port') /\ (Abstract!Next \/ UNCHANGED Abstract!vars)

\* The step takes the queues, threads and ports from s to r.
Steps(s, r) ==
    /\ s.mq = mq /\ s.th = th /\ s.port = port
    /\ mq' = r.mq /\ th' = r.th /\ port' = r.port /\ dest' = dest

LEMMA Seen ==
    ASSUME NEW s, NEW r, Steps(s, r)
    PROVE  /\ Waiting = [p \in Ports |-> Held(s, p)] /\ Waiting' = [p \in Ports |-> Held(r, p)]
           /\ HandedOut = Deliveries(s.th, dest) /\ HandedOut' = Deliveries(r.th, dest)
           /\ Numbers = [p \in Ports |-> s.port[p].seqno] /\ Numbers' = [p \in Ports |-> r.port[p].seqno]
           /\ Living = {p \in Ports : s.port[p].active} /\ Living' = {p \in Ports : r.port[p].active}
  <1>1. Waiting = [p \in Ports |-> Held(s, p)] /\ Waiting' = [p \in Ports |-> Held(r, p)]
    <2>1. \A u, p : (MessagesOf(p, u))' = MessagesOf(p, u')
      BY DEF Steps, MessagesOf
    <2> QED BY <2>1 DEF Steps, Waiting, Held, Home, Mqueue, MessagesOf
  <1> QED BY <1>1 DEF Steps, HandedOut, Numbers, Living, Deliveries

SameActive(s, r) == \A z \in Ports : r.port[z].active = s.port[z].active

LEMMA SameLiving ==
    ASSUME NEW s, NEW r, Steps(s, r), SameActive(s, r)
    PROVE  Living' = Living
  <1>1. \A z \in Ports : r.port[z].active = s.port[z].active
    BY DEF SameActive
  <1>2. {z \in Ports : r.port[z].active} = {z \in Ports : s.port[z].active}
    BY <1>1
  <1> QED BY <1>2, Seen

LEMMA StuttersWith ==
    ASSUME NEW s, NEW r, Steps(s, r), SameHeld(s, r), SameSeqnos(s, r), SameActive(s, r)
    PROVE  UNCHANGED Abstract!vars
  <1>1. Waiting' = Waiting /\ HandedOut' = HandedOut
    BY Seen DEF SameHeld
  <1>2. Numbers' = Numbers
    BY Seen DEF SameSeqnos
  <1>3. Living' = Living
    BY SameLiving
  <1> QED BY <1>1, <1>2, <1>3, StuttersAbstractly

LEMMA RenumbersWith ==
    ASSUME NEW s, NEW r, Steps(s, r), SameHeld(s, r), SameActive(s, r), NEW p \in Ports,
           s.port[p].active, NEW n \in Seqnos, r.port[p].seqno = n,
           \A z \in Ports \ {p} : r.port[z].seqno = s.port[z].seqno
    PROVE  Abstract!Next
  <1>1. Waiting' = Waiting /\ HandedOut' = HandedOut
    BY Seen DEF SameHeld
  <1>4. Living' = Living /\ p \in Living
    BY Seen, SameLiving
  <1>2. Numbers' = [Numbers EXCEPT ![p] = n]
    BY Seen
  <1>3. n \in 0..(SeqnoLimit - 1)
    BY DEF Seqnos
  <1> QED BY <1>1, <1>2, <1>3, <1>4, Renumbered

LEMMA ExchangesWith ==
    ASSUME NEW s, NEW r, Steps(s, r), SameActive(s, r), NEW p \in Ports,
           s.port[p].active, NEW n, Turn(s, r, p, n)
    PROVE  Abstract!Next
  <1>1. PICK ms : ms = Held(s, p)
    OBVIOUS
  <1>2. /\ n \in 0..Len(ms) /\ ms \in Seq(Messages) /\ \A m \in Range(ms) : dest[m] = p
        /\ Held(r, p) = SubSeq(ms, n + 1, Len(ms))
        /\ r.port[p].seqno = (s.port[p].seqno + n) % SeqnoLimit
        /\ Deliveries(r.th, dest) = Deliveries(s.th, dest) \cup Handovers(ms, s.port[p].seqno, n)
        /\ \A z \in Ports \ {p} : r.port[z].seqno = s.port[z].seqno /\ Held(r, z) = Held(s, z)
    BY <1>1 DEF Turn
  <1>3. Waiting[p] = ms /\ ms \o <<>> = ms /\ Numbers[p] = s.port[p].seqno
    BY <1>1, <1>2, Seen
  <1>4. Waiting' = [Waiting EXCEPT ![p] = SubSeq(ms, n + 1, Len(ms))]
    BY <1>2, Seen
  <1>5. Numbers' = [Numbers EXCEPT ![p] = (Numbers[p] + n) % SeqnoLimit]
    BY <1>2, <1>3, Seen
  <1>6. Living' = Living /\ p \in Living
    BY Seen, SameLiving
  <1>7. HandedOut' = HandedOut \cup {Delivery(ms[i], p, (Numbers[p] + i - 1) % SeqnoLimit) : i \in 1..n}
    <2>1. \A i \in 1..n : dest[ms[i]] = p
      <3>1. \A i \in 1..n : i \in DOMAIN ms
        BY <1>2
      <3> QED BY <1>2, <3>1 DEF Range
    <2>2. Handovers(ms, s.port[p].seqno, n) = {Delivery(ms[i], p, (s.port[p].seqno + i - 1) % SeqnoLimit) : i \in 1..n}
      BY <2>1 DEF Handovers
    <2> QED BY <1>2, <1>3, <2>2, Seen
  <1>8. PICK a : a = <<>>
    OBVIOUS
  <1>9. Exchanges(p, Waiting[p] \o a, n)
    BY <1>2, <1>3, <1>4, <1>5, <1>6, <1>7, <1>8 DEF Exchanges
  <1> QED BY <1>8, <1>9, Exchanged

\* Of each port, what the steps of Rights depend on is the same.
LEMMA RightsSame ==
    ASSUME NEW po, NEW po2, Rights(po),
           \A z \in Ports : /\ po2[z].active = po[z].active /\ po2[z].owned = po[z].owned
                            /\ po2[z].pset = po[z].pset /\ po2[z].seqno = po[z].seqno
    PROVE  Rights(po2)
  BY DEF Rights

\* Rights and activity as Effect leaves them.
LEMMA EffectRights ==
    ASSUME NEW s, NEW r, NEW p \in Ports, NEW ps, NEW as, Effect(s, r, p, ps, as), Rights(s.port),
           SameSeqnos(s, r), ps # NoPset => s.port[p].owned
    PROVE  Rights(r.port) /\ SameActive(s, r)
  <1>1. \A z \in Ports : r.port[z].active = s.port[z].active /\ r.port[z].owned = s.port[z].owned
    BY DEF Effect, SameCounts
  <1>2. \A z \in Ports : r.port[z].pset # NoPset => s.port[z].owned
    BY DEF Effect, Rights
  <1> QED BY <1>1, <1>2 DEF Rights, SameActive, SameSeqnos

LEMMA SetSeqnoConforms ==
    ASSUME Base, Rights(port), NEW p \in Ports, NEW n \in Seqnos, SetSeqno(p, n)
    PROVE  Conforms
  <1>1. PICK s, as : s = State /\ as = active_set
    OBVIOUS
  <1>2. /\ Settled /\ s \in States /\ Fine(s.mq, s.th) /\ Housed(s.mq, s.port, as)
        /\ s.mq = mq /\ s.th = th /\ s.port = port
    BY <1>1, QueuesReached
  <1>3. PICK s2 : s2 = LeaveDeadSet(s, p)
    OBVIOUS
  <1>4. PICK ps : ps = s2.port[p].pset
    OBVIOUS
  <1>5. Effect(s, s2, p, ps, as)
    BY <1>2, <1>3, <1>4, LeaveDeadSetIs
  <1>6. SameHeld(s, s2) /\ SameSeqnos(s, s2)
    BY <1>2, <1>3, LeaveDeadSetHolds
  <1>7. port[p].owned /\ port[p].active
    BY DEF SetSeqno, Rights
  <1>8. Rights(s2.port) /\ SameActive(s, s2)
    BY <1>2, <1>5, <1>6, <1>7, EffectRights
  <1>9. PICK g : g = [s2.port[p] EXCEPT !.seqno = n]
    OBVIOUS
  <1>10. s2 \in States /\ s2.port[p] \in PortRecords
    BY <1>5 DEF Effect, States
  <1>11. /\ g \in PortRecords /\ g.active = s2.port[p].active /\ g.owned = s2.port[p].owned
         /\ g.pset = s2.port[p].pset /\ g.seqno = n
    BY <1>9, <1>10 DEF PortRecords
  <1>12. PICK r : r = [s2 EXCEPT !.port[p] = g]
    OBVIOUS
  <1>13. r = [s2 EXCEPT !.port[p].seqno = n]
    BY <1>9, <1>12
  <1>14. mq' = r.mq /\ th' = r.th /\ port' = r.port /\ dest' = dest
    BY <1>1, <1>3, <1>13 DEF SetSeqno, ChangeTo, Apply
  <1>15. PutPort(s2, r, p, g)
    BY <1>10, <1>11, <1>12, PortSet
  <1>16. Steps(s, r)
    BY <1>2, <1>14 DEF Steps
  <1>17. \A z \in Ports : /\ r.port[z].active = s2.port[z].active /\ r.port[z].owned = s2.port[z].owned
                          /\ r.port[z].pset = s2.port[z].pset
    BY <1>11, <1>15 DEF PutPort
  <1>18. SameHeld(s, r) /\ SameActive(s, r)
    BY <1>6, <1>8, <1>15, <1>17 DEF PutPort, SameHeld, SameActive, Held, Home
  <1>19. r.port[p].seqno = n /\ \A z \in Ports \ {p} : r.port[z].seqno = s.port[z].seqno
    BY <1>6, <1>11, <1>15 DEF PutPort, SameSeqnos
  <1>20. Abstract!Next
    BY <1>2, <1>7, <1>16, <1>18, <1>19, RenumbersWith
  <1>21. Rights(r.port)
    <2>1. s2.port[p].owned
      BY <1>2, <1>5, <1>7 DEF Effect, SameCounts
    <2>2. \A z \in Ports \ {p} : r.port[z].seqno = s2.port[z].seqno
      BY <1>15 DEF PutPort
    <2> QED BY <1>8, <1>17, <2>1, <2>2 DEF Rights
  <1> QED BY <1>14, <1>20, <1>21 DEF Conforms

LEMMA PsetMoveConforms ==
    ASSUME Base, Rights(port), NEW p \in Ports, NEW ns \in Psets \cup {NoPset}, PsetMove(p, ns)
    PROVE  Conforms
  <1>1. PICK s, as : s = State /\ as = active_set
    OBVIOUS
  <1>2. /\ Settled /\ s \in States /\ Fine(s.mq, s.th) /\ Housed(s.mq, s.port, as)
        /\ s.mq = mq /\ s.th = th /\ s.port = port
    BY <1>1, QueuesReached
  <1>3. PICK out : out = PsetRemove(s, p)
    OBVIOUS
  <1>4. Effect(s, out, p, NoPset, as) /\ SameHeld(s, out) /\ SameSeqnos(s, out)
    BY <1>2, <1>3, PsetRemoveIs, PsetRemoveHolds
  <1>5. PICK r : r = IF ns = NoPset THEN out ELSE PsetAdd(out, ns, p)
    OBVIOUS
  <1>6. /\ mq' = r.mq /\ th' = r.th /\ port' = r.port /\ dest' = dest
        /\ ns \in as \cup {NoPset} /\ port[p].owned /\ port[p].active
    BY <1>1, <1>3, <1>5 DEF PsetMove, ChangeTo, Apply, Rights
  <1>7. Rights(out.port) /\ SameActive(s, out)
    BY <1>2, <1>4, EffectRights
  <1>8. Steps(s, r)
    BY <1>2, <1>6 DEF Steps
  <1>9. CASE ns = NoPset
    <2>1. r = out
      BY <1>5, <1>9
    <2>2. UNCHANGED Abstract!vars
      BY <1>4, <1>7, <1>8, <2>1, StuttersWith
    <2> QED BY <1>6, <1>7, <2>1, <2>2 DEF Conforms
  <1>10. CASE ns # NoPset
    <2>1. r = PsetAdd(out, ns, p) /\ ns \in Psets /\ ns \in as
      BY <1>5, <1>6, <1>10
    <2>2. /\ out \in States /\ Fine(out.mq, out.th) /\ Housed(out.mq, out.port, as)
          /\ out.port[p].pset = NoPset /\ out.port[p].owned = s.port[p].owned
      BY <1>4 DEF Effect, SameCounts
    <2>3. Effect(out, r, p, ns, as)
      BY <1>2, <2>1, <2>2, PsetAddIs
    <2>4. PICK n : Turn(out, r, p, n)
      BY <1>2, <2>1, <2>2, PsetAddTurns
    <2>5. Turn(s, r, p, n)
      BY <1>4, <2>4 DEF Turn, SameHeld, SameSeqnos
    <2>6. SameActive(s, r)
      BY <1>4, <2>3 DEF Effect, SameCounts, SameActive
    <2>7. Abstract!Next
      BY <1>2, <1>6, <1>8, <2>5, <2>6, ExchangesWith
    <2>8. Rights(r.port)
      <3>1. \A z \in Ports : r.port[z].active = out.port[z].active /\ r.port[z].owned = out.port[z].owned
        BY <2>3 DEF Effect, SameCounts
      <3>2. /\ \A z \in Ports \ {p} : r.port[z].pset = out.port[z].pset /\ r.port[z].seqno = out.port[z].seqno
            /\ out.port[p].owned
        BY <1>2, <1>6, <2>2, <2>3, <2>4 DEF Effect, Turn
      <3> QED BY <1>7, <3>1, <3>2 DEF Rights
    <2> QED BY <1>6, <2>7, <2>8 DEF Conforms
  <1> QED BY <1>9, <1>10

LEMMA PsetDestroyConforms ==
    ASSUME Base, Rights(port), NEW ps \in Psets, PsetDestroy(ps)
    PROVE  Conforms
  <1>1. PICK s : s = State
    OBVIOUS
  <1>2. /\ s \in States /\ s.mq = mq /\ s.th = th /\ s.port = port
    BY <1>1, QueuesReached
  <1>3. PICK state : state = "PORT_DIED"
    OBVIOUS
  <1>4. PICK r : r = Changed(s, ps, state)
    OBVIOUS
  <1>5. mq' = r.mq /\ th' = r.th /\ port' = r.port /\ dest' = dest
    BY <1>1, <1>3, <1>4 DEF PsetDestroy, Apply
  <1>6. ps \in Queues
    BY DEF Queues
  <1>7. /\ r.port = s.port /\ \A z \in Queues : r.mq[z].kmsgs = s.mq[z].kmsgs
        /\ Deliveries(r.th, dest) = Deliveries(s.th, dest)
    BY <1>2, <1>3, <1>4, <1>6, ChangedHolds
  <1>8. \A z \in Ports : Home(s.port, z) \in Queues
    BY <1>2 DEF States, PortRecords, Home, Queues
  <1>9. SameHeld(s, r) /\ SameSeqnos(s, r) /\ SameActive(s, r)
    BY <1>7, <1>8 DEF SameHeld, SameSeqnos, SameActive, Held
  <1>10. Steps(s, r)
    BY <1>2, <1>5 DEF Steps
  <1>11. UNCHANGED Abstract!vars
    BY <1>9, <1>10, StuttersWith
  <1> QED BY <1>2, <1>5, <1>7, <1>11 DEF Conforms

LEMMA CopyinConforms ==
    ASSUME Base, Rights(port), NEW p \in Ports, CopyinReceiveRight(p)
    PROVE  Conforms
  <1>1. PICK s, as : s = State /\ as = active_set
    OBVIOUS
  <1>2. /\ Settled /\ s \in States /\ Fine(s.mq, s.th) /\ Housed(s.mq, s.port, as)
        /\ s.mq = mq /\ s.th = th /\ s.port = port
    BY <1>1, QueuesReached
  <1>3. PICK s2 : s2 = ClearReceiver(p)
    OBVIOUS
  <1>4. Effect(s, s2, p, NoPset, as) /\ SameHeld(s, s2) /\ s2.port[p].seqno = 0
        /\ \A z \in Ports \ {p} : s2.port[z].seqno = s.port[z].seqno
    BY <1>1, <1>2, <1>3, ClearReceiverIs, ClearReceiverHolds
  <1>5. PICK g : g = [s2.port[p] EXCEPT !.owned = FALSE]
    OBVIOUS
  <1>6. s2 \in States /\ s2.port[p] \in PortRecords
    BY <1>4 DEF Effect, States
  <1>7. /\ g \in PortRecords /\ g.active = s2.port[p].active /\ ~g.owned
        /\ g.pset = s2.port[p].pset /\ g.seqno = s2.port[p].seqno
    BY <1>5, <1>6 DEF PortRecords
  <1>8. PICK r : r = [s2 EXCEPT !.port[p] = g]
    OBVIOUS
  <1>9. r = [s2 EXCEPT !.port[p].owned = FALSE]
    BY <1>5, <1>8
  <1>10. mq' = r.mq /\ th' = r.th /\ port' = r.port /\ dest' = dest
    BY <1>3, <1>9 DEF CopyinReceiveRight, ChangeTo, Apply
  <1>11. PutPort(s2, r, p, g)
    BY <1>6, <1>7, <1>8, PortSet
  <1>12. Steps(s, r)
    BY <1>2, <1>10 DEF Steps
  <1>13. \A z \in Ports : /\ r.port[z].active = s.port[z].active /\ r.port[z].pset = s2.port[z].pset
                          /\ r.port[z].seqno = s2.port[z].seqno
                          /\ z # p => r.port[z].owned = s.port[z].owned
    BY <1>4, <1>7, <1>11 DEF PutPort, Effect, SameCounts
  <1>14. SameHeld(s, r) /\ SameActive(s, r)
    BY <1>4, <1>11, <1>13 DEF PutPort, SameHeld, SameActive, Held, Home
  <1>15. port[p].active /\ 0 \in Seqnos
    BY MessageQueueAssumption DEF CopyinReceiveRight, Rights, Seqnos
  <1>16. r.port[p].seqno = 0 /\ \A z \in Ports \ {p} : r.port[z].seqno = s.port[z].seqno
    BY <1>4, <1>13
  <1>17. Abstract!Next
    BY <1>2, <1>12, <1>14, <1>15, <1>16, RenumbersWith
  <1>18. Rights(r.port)
    <2>1. ~r.port[p].owned /\ r.port[p].pset = NoPset
      BY <1>4, <1>7, <1>11, <1>13 DEF PutPort, Effect
    <2>2. \A z \in Ports \ {p} : r.port[z].pset = s.port[z].pset
      BY <1>4, <1>13 DEF Effect
    <2> QED BY <1>2, <1>13, <1>16, <2>1, <2>2 DEF Rights
  <1> QED BY <1>10, <1>17, <1>18 DEF Conforms

LEMMA CopyoutConforms ==
    ASSUME Base, Rights(port), NEW p \in Ports, CopyoutReceiveRight(p)
    PROVE  Conforms
  <1>1. PICK s : s = State
    OBVIOUS
  <1>2. s \in States /\ s.mq = mq /\ s.th = th /\ s.port = port
    BY <1>1, QueuesReached
  <1>3. PICK g : g = [s.port[p] EXCEPT !.owned = TRUE]
    OBVIOUS
  <1>4. s.port[p] \in PortRecords
    BY <1>2 DEF States
  <1>5. /\ g \in PortRecords /\ g.active = s.port[p].active /\ g.owned
        /\ g.pset = s.port[p].pset /\ g.seqno = s.port[p].seqno
    BY <1>3, <1>4 DEF PortRecords
  <1>6. PICK r : r = [s EXCEPT !.port[p] = g]
    OBVIOUS
  <1>7. r = [s EXCEPT !.port[p].owned = TRUE]
    BY <1>3, <1>6
  <1>8. mq' = r.mq /\ th' = r.th /\ port' = r.port /\ dest' = dest /\ port[p].active
    BY <1>1, <1>7 DEF CopyoutReceiveRight, ChangeTo, Apply
  <1>9. PutPort(s, r, p, g)
    BY <1>2, <1>5, <1>6, PortSet
  <1>10. SameHeld(s, r) /\ SameSeqnos(s, r) /\ SameActive(s, r)
    BY <1>5, <1>9 DEF PutPort, SameHeld, SameSeqnos, SameActive, Held, Home
  <1>11. Steps(s, r)
    BY <1>2, <1>8 DEF Steps
  <1>12. UNCHANGED Abstract!vars
    BY <1>10, <1>11, StuttersWith
  <1>13. Rights(r.port)
    BY <1>2, <1>5, <1>8, <1>9 DEF PutPort, Rights
  <1> QED BY <1>8, <1>12, <1>13 DEF Conforms

\* Nothing changes that PortQueue speaks of.
LEMMA ThreadsConform ==
    ASSUME Rights(port), UNCHANGED <<mq, dest>>,
           \A z \in Ports : /\ port'[z].active = port[z].active /\ port'[z].owned = port[z].owned
                            /\ port'[z].pset = port[z].pset /\ port'[z].seqno = port[z].seqno,
           \A t \in Threads : Carries(th, th', t)
    PROVE  Conforms
  <1>1. PICK s : s = State
    OBVIOUS
  <1>2. s.mq = mq /\ s.th = th /\ s.port = port
    BY <1>1 DEF State
  <1>3. PICK po, k : po = port' /\ k = th'
    OBVIOUS
  <1>4. PICK r : r = [mq |-> s.mq, th |-> k, port |-> po]
    OBVIOUS
  <1>5. r.mq = s.mq /\ r.th = k /\ r.port = po
    BY <1>4
  <1>6. Steps(s, r)
    BY <1>2, <1>3, <1>5 DEF Steps
  <1>7. \A z \in Ports : /\ po[z].active = s.port[z].active /\ po[z].owned = s.port[z].owned
                         /\ po[z].pset = s.port[z].pset /\ po[z].seqno = s.port[z].seqno
    BY <1>2, <1>3
  <1>8. Deliveries(k, dest) = Deliveries(s.th, dest)
    <2>1. \A t \in Threads : Carries(s.th, k, t)
      BY <1>2, <1>3
    <2> QED BY <2>1, SameDeliveries
  <1>9. SameHeld(s, r) /\ SameSeqnos(s, r) /\ SameActive(s, r)
    BY <1>5, <1>7, <1>8 DEF SameHeld, SameSeqnos, SameActive, Held, Home
  <1>10. UNCHANGED Abstract!vars
    BY <1>6, <1>9, StuttersWith
  <1>11. Rights(po)
    <2>1. Rights(s.port)
      BY <1>2
    <2> QED BY <1>7, <2>1, RightsSame
  <1> QED BY <1>3, <1>10, <1>11 DEF Conforms

LEMMA EndWaitConforms ==
    ASSUME Base, Rights(port), NEW t \in Threads, NEW result, EndWait(t, result)
    PROVE  Conforms
  <1>1. PICK g : g = [th[t] EXCEPT !.waiting = FALSE, !.timer = FALSE, !.wait_result = result]
    OBVIOUS
  <1>2. th \in [Threads -> ThreadRecords] /\ th[t] \in ThreadRecords
    BY DEF Base, Fine
  <1>3. g.kmsg = th[t].kmsg /\ g.seqno = th[t].seqno
    BY <1>1, <1>2 DEF ThreadRecords
  <1>4. th' = [th EXCEPT ![t] = g] /\ UNCHANGED <<port, mq, dest>>
    BY <1>1, <1>2 DEF EndWait
  <1>5. \A u \in Threads : Carries(th, th', u)
    BY <1>2, <1>3, <1>4 DEF Carries
  <1> QED BY <1>4, <1>5, ThreadsConform

LEMMA SetQlimitConforms ==
    ASSUME Base, Rights(port), NEW p \in Ports, NEW qlimit, SetQlimit(p, qlimit)
    PROVE  Conforms
  <1>1. PICK V : th' = Wake(th, V, "SUCCESS")
    BY DEF SetQlimit
  <1>2. port' = [port EXCEPT ![p].qlimit = qlimit] /\ UNCHANGED <<mq, dest>>
    BY DEF SetQlimit
  <1>3. /\ th \in [Threads -> ThreadRecords] /\ port \in [Ports -> PortRecords] /\ port[p] \in PortRecords
    BY DEF Base, Types, Fine
  <1>4. PICK k, k2, state : k = th /\ k2 = th' /\ state = "SUCCESS"
    OBVIOUS
  <1>5. \A t \in Threads : k2[t].kmsg = k[t].kmsg /\ k2[t].seqno = k[t].seqno
    <2>1. state \in IthStates /\ k2 = Wake(k, V, state) /\ k \in [Threads -> ThreadRecords]
      BY <1>1, <1>3, <1>4 DEF IthStates
    <2> QED BY <2>1, WakeKeeps
  <1>6. \A t \in Threads : Carries(th, th', t)
    BY <1>4, <1>5 DEF Carries
  <1>7. PICK g : g = [port[p] EXCEPT !.qlimit = qlimit]
    OBVIOUS
  <1>8. /\ g.active = port[p].active /\ g.owned = port[p].owned /\ g.pset = port[p].pset
        /\ g.seqno = port[p].seqno
    BY <1>3, <1>7 DEF PortRecords
  <1>9. port' = [port EXCEPT ![p] = g]
    BY <1>2, <1>3, <1>7
  <1>10. \A z \in Ports : /\ port'[z].active = port[z].active /\ port'[z].owned = port[z].owned
                          /\ port'[z].pset = port[z].pset /\ port'[z].seqno = port[z].seqno
    BY <1>3, <1>8, <1>9
  <1> QED BY <1>2, <1>6, <1>10, ThreadsConform

LEMMA SendGoConforms ==
    ASSUME Base, Rights(port), NEW t \in Threads, SendGo(t)
    PROVE  Conforms
  <1>1. th \in [Threads -> ThreadRecords] /\ Order(t, th[t], pc[t], call[t])
    BY DEF Base, Fine
  <1>2. PICK r : r = call[t].receiver
    OBVIOUS
  <1>3. r \in Threads
    BY <1>1, <1>2 DEF Order, SendGo
  <1>4. PICK g : g = Go(th[r])
    OBVIOUS
  <1>5. g.kmsg = th[r].kmsg /\ g.seqno = th[r].seqno
    <2>1. PICK k \in ThreadRecords : k = th[r]
      BY <1>1, <1>3
    <2>2. Go(k).kmsg = k.kmsg /\ Go(k).seqno = k.seqno
      BY GoKeeps
    <2> QED BY <1>4, <2>1, <2>2
  <1>6. th' = [th EXCEPT ![r] = g] /\ UNCHANGED <<port, mq, dest>>
    BY <1>1, <1>2, <1>3, <1>4 DEF SendGo
  <1>7. \A u \in Threads : Carries(th, th', u)
    BY <1>1, <1>3, <1>5, <1>6 DEF Carries
  <1> QED BY <1>6, <1>7, ThreadsConform

LEMMA PortDestroyConforms ==
    ASSUME Base, Rights(port), NEW p \in Ports, PortDestroy(p)
    PROVE  Conforms
  <1>1. PICK s, as : s = State /\ as = active_set
    OBVIOUS
  <1>2. /\ Settled /\ s \in States /\ Fine(s.mq, s.th) /\ Housed(s.mq, s.port, as)
        /\ s.mq = mq /\ s.th = th /\ s.port = port
    BY <1>1, QueuesReached
  <1>3. PICK s2 : s2 = IF port[p].owned THEN ClearReceiver(p) ELSE State
    OBVIOUS
  <1>4. /\ s2 \in States /\ SameHeld(s, s2) /\ s2.port[p].seqno = 0 /\ s2.port[p].pset = NoPset
        /\ \A z \in Ports \ {p} : s2.port[z].seqno = port[z].seqno /\ s2.port[z].pset = port[z].pset
        /\ \A z \in Ports : s2.port[z].active = port[z].active /\ s2.port[z].owned = port[z].owned
    <2>1. CASE port[p].owned
      <3>1. s2 = ClearReceiver(p)
        BY <1>3, <2>1
      <3>2. /\ Effect(s, s2, p, NoPset, as) /\ SameHeld(s, s2) /\ s2.port[p].seqno = 0
            /\ \A z \in Ports \ {p} : s2.port[z].seqno = s.port[z].seqno
        BY <1>1, <1>2, <3>1, ClearReceiverIs, ClearReceiverHolds
      <3> QED BY <1>2, <3>2 DEF Effect, SameCounts
    <2>2. CASE ~port[p].owned
      <3>1. s2 = s
        BY <1>1, <1>3, <2>2
      <3>2. port[p].seqno = 0 /\ port[p].pset = NoPset
        BY <2>2 DEF Rights
      <3> QED BY <1>2, <3>1, <3>2 DEF SameHeld
    <2> QED BY <2>1, <2>2
  <1>5. PICK q, k, po, V, state : /\ q = s2.mq /\ k = s2.th /\ po = s2.port
                                  /\ V = Range(blocked[p]) /\ state = "SUCCESS"
    OBVIOUS
  <1>6. /\ s2 = [mq |-> q, th |-> k, port |-> po] /\ q \in [Queues -> QueueRecords]
        /\ k \in [Threads -> ThreadRecords] /\ po \in [Ports -> PortRecords] /\ po[p] \in PortRecords
    BY <1>4, <1>5 DEF States
  <1>7. PICK g : g = [po[p] EXCEPT !.active = FALSE, !.owned = FALSE]
    OBVIOUS
  <1>8. ~g.active /\ ~g.owned /\ g.pset = po[p].pset /\ g.seqno = po[p].seqno
    BY <1>6, <1>7 DEF PortRecords
  <1>9. PICK k2 : k2 = Wake(k, V, state)
    OBVIOUS
  <1>10. PICK po2 : po2 = [po EXCEPT ![p] = g]
    OBVIOUS
  <1>11. PICK r : r = [mq |-> q, th |-> k2, port |-> po2]
    OBVIOUS
  <1>12. Steps(s, r)
    <2>1. PICK e : e = [s2 EXCEPT !.port[p].active = FALSE, !.port[p].owned = FALSE,
                                  !.th = Rouse(s2.th, p)]
      OBVIOUS
    <2>2. Rouse(s2.th, p) = k2
      BY <1>5, <1>9 DEF Rouse
    <2>3. e = [mq |-> q, th |-> k2, port |-> [po EXCEPT ![p] = g]]
      BY <1>6, <1>7, <2>1, <2>2
    <2>5. e = r
      BY <1>10, <1>11, <2>3
    <2>4. Apply(e) /\ dest' = dest
      BY <1>3, <2>1 DEF PortDestroy
    <2> QED BY <1>2, <2>5, <2>4 DEF Apply, Steps
  <1>13. r.mq = q /\ r.th = k2 /\ r.port = po2
    BY <1>11
  <1>14. /\ ~po2[p].active /\ ~po2[p].owned /\ po2[p].pset = NoPset /\ po2[p].seqno = 0
         /\ \A z \in Ports \ {p} : /\ po2[z].active = port[z].active /\ po2[z].owned = port[z].owned
                                   /\ po2[z].pset = port[z].pset /\ po2[z].seqno = port[z].seqno
         /\ \A z \in Ports : po2[z].pset = po[z].pset
    BY <1>4, <1>5, <1>6, <1>8, <1>10
  <1>15. Deliveries(k2, dest) = Deliveries(s.th, dest)
    <2>1. \A t \in Threads : k2[t].kmsg = k[t].kmsg /\ k2[t].seqno = k[t].seqno
      <3>1. state \in IthStates
        BY <1>5 DEF IthStates
      <3> QED BY <1>6, <1>9, <3>1, WakeKeeps
    <2>2. \A t \in Threads : Carries(k, k2, t)
      BY <2>1 DEF Carries
    <2>3. Deliveries(k2, dest) = Deliveries(k, dest)
      BY <2>2, SameDeliveries
    <2> QED BY <1>4, <1>5, <2>3 DEF SameHeld
  <1>16. SameHeld(s, r)
    <2>1. \A z \in Ports : Held(r, z) = Held(s2, z)
      BY <1>5, <1>13, <1>14 DEF Held, Home
    <2> QED BY <1>4, <1>13, <1>15, <2>1 DEF SameHeld
  <1>17. Waiting' = Waiting /\ HandedOut' = HandedOut
    BY <1>12, <1>16, Seen DEF SameHeld
  <1>18. Numbers' = [Numbers EXCEPT ![p] = 0]
    BY <1>2, <1>12, <1>13, <1>14, Seen
  <1>19. Living' = Living \ {p}
    BY <1>2, <1>12, <1>13, <1>14, Seen
  <1>20. Abstract!Next
    BY <1>17, <1>18, <1>19, Destroyed
  <1>21. Rights(po2)
    BY <1>14 DEF Rights
  <1>22. port' = po2
    BY <1>12, <1>13 DEF Steps
  <1> QED BY <1>20, <1>21, <1>22 DEF Conforms

\* s shows what s0 shows.
SameSeen(s0, s) ==
    s \in States /\ SameHeld(s0, s) /\ SameSeqnos(s0, s) /\ SameActive(s0, s) /\ Rights(s.port)

\* t ends a receive without a message, or waits for one.
LEMMA NoneTakenConforms ==
    ASSUME NEW s0, NEW s, SameSeen(s0, s), NEW t \in Threads, s.th[t].kmsg = NoMessage,
           NEW g, g.kmsg = NoMessage, NEW r, Steps(s0, r),
           r.port = s.port, r.th = [s.th EXCEPT ![t] = g],
           \A z \in Queues : r.mq[z].kmsgs = s.mq[z].kmsgs
    PROVE  Conforms
  <1>1. /\ s.th \in [Threads -> ThreadRecords] /\ s.port \in [Ports -> PortRecords]
        /\ SameHeld(s0, s) /\ SameSeqnos(s0, s) /\ SameActive(s0, s) /\ Rights(s.port)
    BY DEF SameSeen, States
  <1>2. \A u \in Threads : Carries(s.th, r.th, u)
    BY <1>1 DEF Carries
  <1>3. Deliveries(r.th, dest) = Deliveries(s.th, dest)
    <2>1. PICK k, k2 : k = s.th /\ k2 = r.th
      OBVIOUS
    <2>2. \A u \in Threads : Carries(k, k2, u)
      BY <1>2, <2>1
    <2>3. Deliveries(k2, dest) = Deliveries(k, dest)
      BY <2>2, SameDeliveries
    <2> QED BY <2>1, <2>3
  <1>4. \A z \in Ports : Home(s.port, z) \in Queues
    BY <1>1 DEF PortRecords, Home, Queues
  <1>5. SameHeld(s0, r) /\ SameSeqnos(s0, r) /\ SameActive(s0, r)
    BY <1>1, <1>3, <1>4 DEF SameHeld, SameSeqnos, SameActive, Held
  <1>6. UNCHANGED Abstract!vars
    BY <1>5, StuttersWith
  <1>7. Rights(port')
    BY <1>1 DEF Steps
  <1> QED BY <1>6, <1>7 DEF Conforms

\* From s to r, t takes m, numbered n, the first message of queue x, which is p's.
Taken(s, r, t, x, p, m, n) ==
    /\ r.mq[x].kmsgs = Tail(s.mq[x].kmsgs)
    /\ \A z \in Queues \ {x} : r.mq[z].kmsgs = s.mq[z].kmsgs
    /\ r.th[t].kmsg = m /\ r.th[t].seqno = n
    /\ \A u \in Threads \ {t} : r.th[u] = s.th[u]
    /\ r.port[p].seqno = Following(n)
    /\ \A z \in Ports \ {p} : r.port[z].seqno = s.port[z].seqno
    /\ \A z \in Ports : /\ r.port[z].active = s.port[z].active
                         /\ r.port[z].owned = s.port[z].owned
                         /\ r.port[z].pset = s.port[z].pset

LEMMA TakenIs ==
    ASSUME NEW s \in States, NEW t \in Threads, NEW x \in Queues, NEW p \in Ports, NEW m,
           NEW r, r = [s EXCEPT !.mq[x].kmsgs = Tail(@), !.port[p].seqno = Following(@),
                                !.th[t] = [IdleThread EXCEPT !.kmsg = m, !.seqno = s.port[p].seqno]]
    PROVE  Taken(s, r, t, x, p, m, s.port[p].seqno)
  <1>1. PICK q, k, po : q = s.mq /\ k = s.th /\ po = s.port
    OBVIOUS
  <1>2. /\ q \in [Queues -> QueueRecords] /\ k \in [Threads -> ThreadRecords]
        /\ po \in [Ports -> PortRecords] /\ s = [mq |-> q, th |-> k, port |-> po]
    BY <1>1 DEF States
  <1>3. PICK q2 : q2 = [q EXCEPT ![x].kmsgs = Tail(@)]
    OBVIOUS
  <1>4. PICK n, g : n = po[p].seqno /\ g = [po[p] EXCEPT !.seqno = Following(n)]
    OBVIOUS
  <1>5. /\ g.seqno = Following(n) /\ g.active = po[p].active
        /\ g.owned = po[p].owned /\ g.pset = po[p].pset
    BY ONLY <1>2, <1>4 DEF PortRecords
  <1>6. PICK po2, h : po2 = [po EXCEPT ![p] = g] /\ h = [IdleThread EXCEPT !.kmsg = m, !.seqno = n]
    OBVIOUS
  <1>7. h.kmsg = m /\ h.seqno = n
    BY ONLY <1>6 DEF IdleThread
  <1>8. PICK k2 : k2 = [k EXCEPT ![t] = h]
    OBVIOUS
  <1>9. r = [mq |-> q2, th |-> k2, port |-> po2]
    <2>1. r = [s EXCEPT !.mq = [q EXCEPT ![x].kmsgs = Tail(@)],
                        !.port = [po EXCEPT ![p] = [po[p] EXCEPT !.seqno = Following(n)]],
                        !.th = [k EXCEPT ![t] = [IdleThread EXCEPT !.kmsg = m, !.seqno = n]]]
      BY <1>2, <1>4
    <2>2. r = [s EXCEPT !.mq = q2, !.port = po2, !.th = k2]
      BY <1>3, <1>4, <1>6, <1>8, <2>1
    <2> QED BY ONLY <1>2, <2>2
  <1>10. r.mq = q2 /\ r.th = k2 /\ r.port = po2
    BY ONLY <1>9
  <1>11. q2[x].kmsgs = Tail(q[x].kmsgs) /\ \A z \in Queues \ {x} : q2[z].kmsgs = q[z].kmsgs
    BY ONLY <1>2, <1>3, x \in Queues DEF QueueRecords
  <1>12. k2[t] = h /\ \A u \in Threads \ {t} : k2[u] = k[u]
    BY ONLY <1>2, <1>8, t \in Threads
  <1>13. po2[p] = g /\ \A z \in Ports \ {p} : po2[z] = po[z]
    BY ONLY <1>2, <1>6, p \in Ports
  <1>14. \A z \in Ports : /\ po2[z].active = po[z].active /\ po2[z].owned = po[z].owned
                          /\ po2[z].pset = po[z].pset
    BY ONLY <1>5, <1>13
  <1> QED BY ONLY <1>1, <1>4, <1>5, <1>7, <1>10, <1>11, <1>12, <1>13, <1>14 DEF Taken

\* t takes the first message of queue x.
LEMMA FirstTakenConforms ==
    ASSUME NEW s0, NEW s, SameSeen(s0, s), NEW t \in Threads, s.th[t].kmsg = NoMessage,
           Fine(s.mq, s.th), NEW x \in Queues, s.mq[x].kmsgs # <<>>, NEW m, m = Head(s.mq[x].kmsgs),
           NEW p \in Ports, p = dest[m], Home(s.port, p) = x, s.port[p].owned,
           NEW r, Taken(s, r, t, x, p, m, s.port[p].seqno), Steps(s0, r)
    PROVE  Conforms
  <1>1. PICK q, k, po, q2, k2, po2 : /\ q = s.mq /\ k = s.th /\ po = s.port
                                     /\ q2 = r.mq /\ k2 = r.th /\ po2 = r.port
    OBVIOUS
  <1>2. /\ q \in [Queues -> QueueRecords] /\ k \in [Threads -> ThreadRecords]
        /\ po \in [Ports -> PortRecords]
        /\ QueuesOK(q) /\ SameHeld(s0, s) /\ SameSeqnos(s0, s) /\ SameActive(s0, s) /\ Rights(po)
    BY <1>1 DEF States, Fine, SameSeen
  <1>3. PICK n : n = po[p].seqno
    OBVIOUS
  <1>4. /\ q2[x].kmsgs = Tail(q[x].kmsgs)
        /\ \A z \in Queues \ {x} : q2[z].kmsgs = q[z].kmsgs
        /\ k2[t].kmsg = m /\ k2[t].seqno = n
        /\ \A u \in Threads \ {t} : k2[u] = k[u]
        /\ po2[p].seqno = Following(n)
        /\ \A z \in Ports \ {p} : po2[z].seqno = po[z].seqno
        /\ \A z \in Ports : /\ po2[z].active = po[z].active
                             /\ po2[z].owned = po[z].owned
                             /\ po2[z].pset = po[z].pset
    BY <1>1, <1>3 DEF Taken
  <1>5. n \in Seqnos
    BY <1>2, <1>3 DEF PortRecords
  <1>11. PICK u : u = q[x].kmsgs
    OBVIOUS
  <1>12. u \in Seq(Messages) /\ u # <<>> /\ m = Head(u) /\ m \in Messages
    <2>1. u \in Seq(Messages) /\ u # <<>> /\ m = Head(u)
      BY <1>1, <1>2, <1>11, RangesIn
    <2>2. Head(u) \in Messages
      BY ONLY <2>1
    <2> QED BY ONLY <2>1, <2>2
  <1>13. q2[x].kmsgs = Tail(u) /\ \A z \in Queues \ {x} : q2[z].kmsgs = q[z].kmsgs
    BY <1>4, <1>11
  <1>14. \A z \in Ports : Home(po2, z) = Home(po, z) /\ Home(po, z) \in Queues
    BY <1>2, <1>4 DEF Home, PortRecords, Queues
  <1>15. PICK ms : ms = MessagesOf(p, u)
    OBVIOUS
  <1>16. /\ ms \in Seq(Messages) /\ ms # <<>> /\ Head(ms) = m /\ MessagesOf(p, Tail(u)) = Tail(ms)
         /\ \A e \in Range(ms) : dest[e] = p
    <2>1. PICK S : S = {e \in Messages : dest[e] = p}
      OBVIOUS
    <2>2. ms = Only(u, S) /\ m \in S
      BY <1>12, <1>15, <2>1 DEF MessagesOf
    <2>3. IsInjective(u)
      BY <1>2, <1>11, RangesIn
    <2>4. ms \in Seq(Messages) /\ Range(ms) = Range(u) \cap S
      BY <1>12, <2>2, <2>3, OnlySome
    <2>5. Only(u, S) # <<>> /\ Head(Only(u, S)) = Head(u) /\ Only(Tail(u), S) = Tail(Only(u, S))
      BY <1>12, <2>2, OnlyTail
    <2> QED BY <1>12, <2>1, <2>2, <2>4, <2>5 DEF MessagesOf
  <1>17. \A z \in Ports \ {p} : MessagesOf(z, Tail(u)) = MessagesOf(z, u)
    <2> SUFFICES ASSUME NEW z \in Ports \ {p} PROVE MessagesOf(z, Tail(u)) = MessagesOf(z, u)
      OBVIOUS
    <2>1. PICK S : S = {e \in Messages : dest[e] = z}
      OBVIOUS
    <2>2. Head(u) \notin S
      BY <1>12, <2>1
    <2>3. Only(Tail(u), S) = Only(u, S)
      BY <1>12, <2>2, OnlyTail
    <2> QED BY <2>1, <2>3 DEF MessagesOf
  <1>18. Held(s, p) = ms /\ Held(r, p) = Tail(ms)
    BY <1>1, <1>11, <1>13, <1>14, <1>15, <1>16 DEF Held
  <1>19. \A z \in Ports \ {p} : Held(r, z) = Held(s, z)
    <2> SUFFICES ASSUME NEW z \in Ports \ {p} PROVE Held(r, z) = Held(s, z)
      OBVIOUS
    <2>1. CASE Home(po, z) = x
      <3>1. /\ Held(s, z) = MessagesOf(z, u)
            /\ Held(r, z) = MessagesOf(z, Tail(u))
        BY ONLY <1>1, <1>11, <1>13, <1>14, <2>1, z \in Ports DEF Held
      <3> QED BY ONLY <3>1, <1>17, z \in Ports \ {p}
    <2>2. CASE Home(po, z) # x
      BY <1>1, <1>13, <1>14, <2>2 DEF Held
    <2> QED BY <2>1, <2>2
  <1>20. Deliveries(k2, dest) = Deliveries(k, dest) \cup {Delivery(m, dest[m], n)}
    <2>2. Handed(k, k2, t, m, n) /\ m # NoMessage
      BY <1>1, <1>4, <1>12, MessageQueueAssumption DEF Handed, Carries
    <2>3. PICK d : d = dest
      OBVIOUS
    <2>4. Deliveries(k2, d) = Deliveries(k, d) \cup {Delivery(m, d[m], n)}
      BY ONLY <2>2, OneDelivery
    <2> QED BY ONLY <2>3, <2>4
  <1>21. Turn(s, r, p, 1)
    <2>1. Len(ms) \in Nat /\ 1 \in 0..Len(ms) /\ ms[1] = m
      BY ONLY <1>16
    <2>2. Tail(ms) = SubSeq(ms, 1 + 1, Len(ms))
      BY ONLY <1>16
    <2>3. Handovers(ms, n, 1) = {Delivery(m, dest[m], n)}
      <3>1. n \in Nat /\ n % SeqnoLimit = n
        BY <1>5, SeqnoIs
      <3>2. (n + 1) - 1 = n /\ 1..1 = {1}
        BY ONLY <3>1
      <3>3. Handovers(ms, n, 1) = {Delivery(ms[1], dest[ms[1]], (n + 1 - 1) % SeqnoLimit)}
        BY ONLY <3>2 DEF Handovers
      <3> QED BY ONLY <2>1, <3>1, <3>2, <3>3
    <2>4. r.port[p].seqno = (n + 1) % SeqnoLimit
      BY <1>1, <1>4 DEF Following
    <2>5. \A z \in Ports \ {p} : r.port[z].seqno = s.port[z].seqno
      BY <1>1, <1>4
    <2> QED BY <1>1, <1>3, <1>16, <1>18, <1>19, <1>20, <2>1, <2>2, <2>3, <2>4, <2>5 DEF Turn
  <1>22. Turn(s0, r, p, 1)
    BY <1>2, <1>21 DEF Turn, SameHeld, SameSeqnos
  <1>24. SameActive(s0, r) /\ s0.port[p].active
    <2>1. po[p].active
      BY <1>1, <1>2 DEF Rights
    <2> QED BY <1>1, <1>2, <1>4, <2>1 DEF SameActive
  <1>25. Abstract!Next
    BY <1>22, <1>24, ExchangesWith
  <1>26. Rights(po2)
    <2>1. po2[p].owned
      BY <1>1, <1>4
    <2> QED BY <1>2, <1>4, <2>1 DEF Rights
  <1> QED BY <1>1, <1>25, <1>26 DEF Conforms, Steps

LEMMA ThreadSetIs ==
    ASSUME NEW s \in States, NEW t \in Threads, NEW g, NEW r, r = [s EXCEPT !.th[t] = g]
    PROVE  r.mq = s.mq /\ r.port = s.port /\ r.th = [s.th EXCEPT ![t] = g]
  <1>1. s = [mq |-> s.mq, th |-> s.th, port |-> s.port]
    BY DEF States
  <1>2. r = [s EXCEPT !.th = [s.th EXCEPT ![t] = g]]
    OBVIOUS
  <1> QED BY ONLY <1>1, <1>2

AddsWaiter(s, r, t, g) ==
    /\ r.port = s.port /\ r.th = [s.th EXCEPT ![t] = g]
    /\ \A z \in Queues : r.mq[z].kmsgs = s.mq[z].kmsgs

LEMMA WaiterSetIs ==
    ASSUME NEW s \in States, NEW t \in Threads, NEW x \in Queues, NEW g,
           NEW r, r = [s EXCEPT !.mq[x].waiters = Append(@, t), !.th[t] = g]
    PROVE  AddsWaiter(s, r, t, g)
  <1>1. PICK q, k : q = s.mq /\ k = s.th
    OBVIOUS
  <1>2. q \in [Queues -> QueueRecords] /\ s = [mq |-> q, th |-> k, port |-> s.port]
    BY <1>1 DEF States
  <1>3. PICK q2 : q2 = [q EXCEPT ![x].waiters = Append(@, t)]
    OBVIOUS
  <1>4. r = [s EXCEPT !.mq = q2, !.th = [k EXCEPT ![t] = g]]
    BY <1>1, <1>3
  <1>5. r.port = s.port /\ r.th = [k EXCEPT ![t] = g] /\ r.mq = q2
    BY ONLY <1>2, <1>4
  <1>6. \A z \in Queues : q2[z].kmsgs = q[z].kmsgs
    BY ONLY <1>2, <1>3 DEF QueueRecords
  <1> QED BY ONLY <1>1, <1>5, <1>6 DEF AddsWaiter

\* The queue that t receives from, in state s.
MayReceive(s, x) ==
    /\ s \in States /\ Fine(s.mq, s.th) /\ Housed(s.mq, s.port, active_set) /\ x \in Queues
    /\ x \in Ports => s.port[x].owned /\ s.port[x].pset = NoPset

LEMMA ReceiveLoopConforms ==
    ASSUME NEW s0, NEW s, s0.mq = mq /\ s0.th = th /\ s0.port = port,
           SameSeen(s0, s), NEW t \in Threads, s.th[t].kmsg = NoMessage, NEW x, MayReceive(s, x),
           NEW size, NEW option, ReceiveLoop(t, x, size, option, s)
    PROVE  Conforms
  <1>0. /\ dest' = dest /\ s \in States /\ Fine(s.mq, s.th) /\ x \in Queues
    BY DEF ReceiveLoop, MayReceive
  <1>1. PICK kmsgs : kmsgs = s.mq[x].kmsgs
    OBVIOUS
  <1>2. \/ Apply([s EXCEPT !.th[t] = IdleThread])
        \/ /\ kmsgs # <<>>
           /\ LET p == dest[Head(kmsgs)]
              IN Apply([s EXCEPT !.mq[x].kmsgs = Tail(@),
                                 !.port[p].seqno = Following(@),
                                 !.th[t] = [IdleThread EXCEPT
                                              !.kmsg = Head(kmsgs),
                                              !.seqno = s.port[p].seqno]])
        \/ Apply([s EXCEPT !.mq[x].waiters = Append(@, t),
                           !.th[t] = WillWait("RCV_IN_PROGRESS", option)])
    BY <1>1 DEF ReceiveLoop
  <1>3. CASE Apply([s EXCEPT !.th[t] = IdleThread])
    <2>1. PICK g : g = IdleThread
      OBVIOUS
    <2>2. PICK r : r = [s EXCEPT !.th[t] = g]
      OBVIOUS
    <2>3. Steps(s0, r)
      BY <1>0, <1>3, <2>1, <2>2 DEF Apply, Steps
    <2>4. r.mq = s.mq /\ r.port = s.port /\ r.th = [s.th EXCEPT ![t] = g]
      BY ONLY <1>0, <2>2, t \in Threads, ThreadSetIs
    <2>5. g.kmsg = NoMessage
      BY ONLY <2>1 DEF IdleThread
    <2>6. \A z \in Queues : r.mq[z].kmsgs = s.mq[z].kmsgs
      BY ONLY <2>4
    <2> QED BY <2>3, <2>4, <2>5, <2>6, NoneTakenConforms
  <1>4. CASE /\ kmsgs # <<>>
             /\ LET p == dest[Head(kmsgs)]
                IN Apply([s EXCEPT !.mq[x].kmsgs = Tail(@),
                                   !.port[p].seqno = Following(@),
                                   !.th[t] = [IdleThread EXCEPT
                                                !.kmsg = Head(kmsgs),
                                                !.seqno = s.port[p].seqno]])
    <2>1. PICK m : m = Head(kmsgs)
      OBVIOUS
    <2>2. PICK p : p = dest[m]
      OBVIOUS
    <2>3. PICK r : r = [s EXCEPT !.mq[x].kmsgs = Tail(@), !.port[p].seqno = Following(@),
                                 !.th[t] = [IdleThread EXCEPT !.kmsg = m, !.seqno = s.port[p].seqno]]
      OBVIOUS
    <2>4. Steps(s0, r)
      BY <1>0, <1>4, <2>1, <2>2, <2>3 DEF Apply, Steps
    <2>5. s.mq[x].kmsgs # <<>> /\ m = Head(s.mq[x].kmsgs)
      BY ONLY <1>1, <1>4, <2>1
    <2>6. m \in Range(s.mq[x].kmsgs)
      <3>1. QueuesOK(s.mq)
        BY ONLY <1>0 DEF Fine
      <3>2. PICK q : q = s.mq
        OBVIOUS
      <3>3. q[x].kmsgs \in Seq(Messages)
        BY ONLY <1>0, <3>1, <3>2, RangesIn
      <3>4. PICK u : u = q[x].kmsgs
        OBVIOUS
      <3>5. 1 \in DOMAIN u /\ m = u[1]
        BY ONLY <2>5, <3>2, <3>3, <3>4
      <3> QED BY ONLY <3>2, <3>4, <3>5 DEF Range
    <2>7. p \in Ports /\ Home(s.port, p) = x
      BY <1>0, <2>2, <2>6 DEF MayReceive, Housed
    <2>8. s.port[p].owned
      <3>1. CASE s.port[p].pset # NoPset
        BY <2>7, <3>1 DEF SameSeen, Rights
      <3>2. CASE s.port[p].pset = NoPset
        <4>1. x = p
          BY ONLY <2>7, <3>2 DEF Home
        <4> QED BY ONLY <2>7, <4>1, MayReceive(s, x) DEF MayReceive
      <3> QED BY <3>1, <3>2
    <2>9. Taken(s, r, t, x, p, m, s.port[p].seqno)
      BY ONLY <1>0, <2>3, <2>7, t \in Threads, TakenIs
    <2> QED BY <1>0, <2>2, <2>4, <2>5, <2>7, <2>8, <2>9, FirstTakenConforms
  <1>5. CASE Apply([s EXCEPT !.mq[x].waiters = Append(@, t),
                             !.th[t] = WillWait("RCV_IN_PROGRESS", option)])
    <2>1. PICK g : g = WillWait("RCV_IN_PROGRESS", option)
      OBVIOUS
    <2>2. PICK r : r = [s EXCEPT !.mq[x].waiters = Append(@, t), !.th[t] = g]
      OBVIOUS
    <2>3. Steps(s0, r)
      BY <1>0, <1>5, <2>1, <2>2 DEF Apply, Steps
    <2>4. /\ r.port = s.port /\ r.th = [s.th EXCEPT ![t] = g]
          /\ \A z \in Queues : r.mq[z].kmsgs = s.mq[z].kmsgs
      <3>1. s \in States /\ x \in Queues
        BY ONLY <1>0
      <3>2. AddsWaiter(s, r, t, g)
        BY ONLY <2>2, <3>1, t \in Threads, WaiterSetIs
      <3> QED BY ONLY <3>2 DEF AddsWaiter
    <2>5. g.kmsg = NoMessage
      BY ONLY <2>1 DEF WillWait, IdleThread
    <2> QED BY <2>3, <2>4, <2>5, NoneTakenConforms
  <1> QED BY <1>2, <1>3, <1>4, <1>5

LEMMA ReceiveConforms ==
    ASSUME Base, Rights(port), NEW t \in Threads, NEW x \in Queues, NEW size, NEW option,
           Receive(t, x, size, option)
    PROVE  Conforms
  <1>2. PICK e : e = State
    OBVIOUS
  <1>3. /\ Settled /\ e \in States /\ Fine(e.mq, e.th) /\ Housed(e.mq, e.port, active_set)
        /\ e.mq = mq /\ e.th = th /\ e.port = port
    BY <1>2, QueuesReached
  <1>4. Order(t, th[t], pc[t], call[t]) /\ pc[t] = "user"
    BY DEF Base, Fine, Receive
  <1>5. th[t].state # "RCV_IN_PROGRESS" /\ th[t].kmsg = NoMessage
    BY <1>4 DEF Order
  <1>6. CASE /\ x \in Ports /\ port[x].owned /\ port[x].pset \notin active_set
             /\ ReceiveLoop(t, x, size, option, LeaveDeadSet(State, x))
    <2>1. PICK s, as : s = LeaveDeadSet(e, x) /\ as = active_set
      OBVIOUS
    <2>2. s = PsetRemove(e, x) /\ ReceiveLoop(t, x, size, option, s) /\ x \in Ports
      BY <1>2, <1>3, <1>6, <2>1 DEF LeaveDeadSet
    <2>3. Effect(e, s, x, NoPset, as)
      BY <1>3, <2>1, <2>2, PsetRemoveIs
    <2>4. SameHeld(e, s) /\ SameSeqnos(e, s)
      BY <1>3, <2>2, PsetRemoveHolds
    <2>5. Rights(s.port) /\ SameActive(e, s)
      BY <1>3, <2>2, <2>3, <2>4, EffectRights
    <2>6. /\ s \in States /\ Fine(s.mq, s.th) /\ Housed(s.mq, s.port, active_set)
          /\ \A z \in Ports : SameCounts(s.port[z], port[z])
          /\ s.port[x].pset = NoPset /\ s.th[t] = th[t]
      BY <1>3, <1>5, <2>1, <2>3 DEF Effect
    <2>7. SameSeen(e, s)
      BY ONLY <2>4, <2>5, <2>6 DEF SameSeen
    <2>8. MayReceive(s, x) /\ s.th[t].kmsg = NoMessage
      BY <1>5, <1>6, <2>6 DEF MayReceive, SameCounts
    <2> QED BY <1>3, <2>2, <2>7, <2>8, ReceiveLoopConforms
  <1>7. CASE x \in active_set /\ ReceiveLoop(t, x, size, option, State)
    <2>1. x \notin Ports
      BY <1>7, MessageQueueAssumption DEF Base, Types
    <2>2. SameSeen(e, e)
      BY <1>3 DEF SameSeen, SameHeld, SameSeqnos, SameActive
    <2>3. ReceiveLoop(t, x, size, option, e) /\ e.th[t].kmsg = NoMessage
      BY <1>2, <1>3, <1>5, <1>7
    <2>4. MayReceive(e, x)
      BY <1>3, <2>1 DEF MayReceive
    <2> QED BY <1>3, <2>2, <2>3, <2>4, ReceiveLoopConforms
  <1> QED BY <1>6, <1>7 DEF Receive

\* t ends its receive with nothing.
LEMMA ReceiverEndsConforms ==
    ASSUME Base, Rights(port), NEW t \in Threads, th[t].kmsg = NoMessage, NEW s, s \in States,
           s.th = th, s.port = port, \A z \in Queues : s.mq[z].kmsgs = mq[z].kmsgs,
           Apply([s EXCEPT !.th[t] = IdleThread]), dest' = dest
    PROVE  Conforms
  <1>1. PICK e : e = State
    OBVIOUS
  <1>2. e \in States /\ e.mq = mq /\ e.th = th /\ e.port = port
    BY <1>1, QueuesReached
  <1>3. \A z \in Ports : Home(port, z) \in Queues
    BY DEF Base, Types, PortRecords, Home, Queues
  <1>4. SameHeld(e, s) /\ SameSeqnos(e, s) /\ SameActive(e, s)
    BY <1>2, <1>3 DEF SameHeld, SameSeqnos, SameActive, Held
  <1>5. SameSeen(e, s) /\ s.th[t].kmsg = NoMessage
    BY <1>4 DEF SameSeen
  <1>6. PICK g : g = IdleThread
    OBVIOUS
  <1>7. PICK r : r = [s EXCEPT !.th[t] = g]
    OBVIOUS
  <1>8. Steps(e, r)
    BY <1>2, <1>6, <1>7 DEF Apply, Steps
  <1>9. r.mq = s.mq /\ r.port = s.port /\ r.th = [s.th EXCEPT ![t] = g]
    BY ONLY <1>7, s \in States, t \in Threads, ThreadSetIs
  <1>10. g.kmsg = NoMessage /\ \A z \in Queues : r.mq[z].kmsgs = s.mq[z].kmsgs
    BY ONLY <1>6, <1>9 DEF IdleThread
  <1> QED BY <1>5, <1>8, <1>9, <1>10, NoneTakenConforms

LEMMA ReceiveWokenConforms ==
    ASSUME Base, Rights(port), NEW t \in Threads, ReceiveWoken(t)
    PROVE  Conforms
  <1>1. PICK x : x = call[t].queue
    OBVIOUS
  <1>2. PICK s : s = Leaving(t, x)
    OBVIOUS
  <1>3. pc[t] = "receive_block" /\ ~th[t].waiting
    BY DEF ReceiveWoken
  <1>4. Order(t, th[t], pc[t], call[t]) /\ Listed(t, th[t], call[t], blocked, mq)
    BY DEF Base, Fine
  <1>5. th \in [Threads -> ThreadRecords] /\ IdleThread.kmsg = NoMessage
    BY DEF Base, Fine, IdleThread
  <1>6. CASE UNCHANGED <<port, mq, th, dest>>
    <2>1. \A u \in Threads : Carries(th, th', u)
      BY <1>6 DEF Carries
    <2> QED BY <1>6, <2>1, ThreadsConform
  <1>7. CASE /\ th[t].state \in {"TOO_LARGE", "PORT_DIED", "PORT_CHANGED"}
             /\ th' = [th EXCEPT ![t] = IdleThread]
             /\ UNCHANGED <<port, mq, dest>>
    <2>1. th[t].kmsg = NoMessage
      BY <1>3, <1>4, <1>7 DEF Order
    <2>2. \A u \in Threads : Carries(th, th', u)
      BY <1>5, <1>7, <2>1 DEF Carries
    <2> QED BY <1>7, <2>2, ThreadsConform
  <1>8. HasLeft(t, x, s)
    BY <1>1, <1>2, <1>3, ReceiverLeaves
  <1>9. /\ s \in States /\ s.th = th /\ s.port = port /\ x \in Queues
        /\ \A z \in Queues : s.mq[z].kmsgs = mq[z].kmsgs
    BY ONLY <1>8 DEF HasLeft
  <1>10. CASE th[t].state = "RCV_IN_PROGRESS" /\ ReceiveLoop(t, x, call[t].size, "poll", s)
    <2>2. t \in Range(mq[x].waiters)
      BY <1>1, <1>4, <1>9, <1>10 DEF Listed
    <2>3. mq[x].waiters # <<>>
      BY <2>2, Nobody
    <2>4. s.mq[x].kmsgs = <<>>
      BY <1>9, <2>3 DEF Base, Fine, QueuesOK
    <2>5. Apply([s EXCEPT !.th[t] = IdleThread]) /\ dest' = dest
      BY <1>10, <2>4 DEF ReceiveLoop
    <2>6. th[t].kmsg = NoMessage
      BY <1>3, <1>4, <1>10 DEF Order
    <2> QED BY <1>9, <2>5, <2>6, ReceiverEndsConforms
  <1>11. CASE /\ ReceiveGivesUp(t)
              /\ Apply([s EXCEPT !.th[t] = IdleThread])
              /\ dest' = dest
    <2>6. th[t].kmsg = NoMessage
      BY <1>3, <1>4, <1>11 DEF Order, ReceiveGivesUp
    <2> QED BY <1>9, <1>11, <2>6, ReceiverEndsConforms
  <1> QED BY <1>1, <1>2, <1>6, <1>7, <1>10, <1>11 DEF ReceiveWoken, Leaving

-----------------------------------------------------------------------------
(* Steps that give a message a port, or take it away.                      *)

\* The messages of p, if d says whose a message is.
Owned(d, p) == {e \in Messages : d[e] = p}
Filed(d, q, po, p) == Only(q[Home(po, p)].kmsgs, Owned(d, p))
SameButFor(m, d, d2) == \A e \in Messages \ {m} : d2[e] = d[e]

LEMMA FiledIs ==
    /\ Waiting = [z \in Ports |-> Filed(dest, mq, port, z)]
    /\ Waiting' = [z \in Ports |-> Filed(dest', mq', port', z)]
  BY DEF Waiting, Filed, Owned, Home, Mqueue, MessagesOf

\* Of a queue without m the order is the same whoever's m is.
LEMMA Refiled ==
    ASSUME NEW u \in Seq(Messages), NEW m, m \notin Range(u), NEW d, NEW d2,
           SameButFor(m, d, d2), NEW z
    PROVE  Only(u, Owned(d2, z)) = Only(u, Owned(d, z))
  <1>1. PICK S, R : S = Owned(d2, z) /\ R = Owned(d, z)
    OBVIOUS
  <1>2. Range(u) \cap S = Range(u) \cap R
    <2>1. Range(u) \subseteq Messages
      BY DEF Range
    <2> QED BY <1>1, <2>1 DEF Owned, SameButFor
  <1>3. Only(u, S) = Only(u, R)
    BY <1>2, OnlySame
  <1> QED BY <1>1, <1>3

LEMMA QueuesFiled ==
    ASSUME Base
    PROVE  /\ \A z \in Ports : Home(port, z) \in Queues
           /\ \A x \in Queues : mq[x].kmsgs \in Seq(Messages)
           /\ mq \in [Queues -> QueueRecords] /\ port \in [Ports -> PortRecords]
           /\ th \in [Threads -> ThreadRecords] /\ dest \in [Messages -> Ports \cup {NoPort}]
  <1>1. /\ mq \in [Queues -> QueueRecords] /\ port \in [Ports -> PortRecords]
        /\ th \in [Threads -> ThreadRecords] /\ dest \in [Messages -> Ports \cup {NoPort}]
    BY DEF Base, Types, Fine, QueuesOK
  <1> QED BY <1>1 DEF QueueRecords, PortRecords, Home, Queues

\* A sender that leaves with its message, or waits with it.
LEMMA SendEndsConforms ==
    ASSUME Base, Rights(port), NEW t \in Threads, NEW m \in Messages, Bears(t, m),
           NEW g, g.kmsg = NoMessage, th' = [th EXCEPT ![t] = g],
           NEW v, dest' = [dest EXCEPT ![m] = v], UNCHANGED <<mq, port>>
    PROVE  Conforms
  <1>1. /\ \A z \in Ports : Home(port, z) \in Queues
        /\ \A x \in Queues : mq[x].kmsgs \in Seq(Messages)
        /\ th \in [Threads -> ThreadRecords] /\ dest \in [Messages -> Ports \cup {NoPort}]
    BY QueuesFiled
  <1>2. (\A x \in Queues : m \notin Range(mq[x].kmsgs)) /\ th[t].kmsg = NoMessage
        /\ \A u \in Threads : th[u].kmsg # m
    <2>1. /\ \A x \in Queues : m \notin Range(mq[x].kmsgs)
          /\ th[t].kmsg = NoMessage /\ m # NoMessage
          /\ Load(th, pc, call)[t] = m \/ (m \in free /\ Load(th, pc, call)[t] = NoMessage)
      BY SenderBears
    <2>2. \A u \in Threads : th[u].kmsg = m => u = t
      BY <2>1, WhereMessagesAre
    <2> QED BY <2>1, <2>2
  <1>3. PICK k, k2, d, d2 : k = th /\ k2 = th' /\ d = dest /\ d2 = dest'
    OBVIOUS
  <1>4. SameButFor(m, d, d2)
    BY <1>1, <1>3 DEF SameButFor
  <1>5. Waiting' = Waiting
    <2>1. ASSUME NEW z \in Ports
          PROVE  Filed(d2, mq, port, z) = Filed(d, mq, port, z)
      <3>1. PICK u : u = mq[Home(port, z)].kmsgs
        OBVIOUS
      <3>2. u \in Seq(Messages) /\ m \notin Range(u)
        BY <1>1, <1>2, <3>1
      <3>3. Only(u, Owned(d2, z)) = Only(u, Owned(d, z))
        BY ONLY <1>4, <3>2, Refiled
      <3> QED BY <3>1, <3>3 DEF Filed
    <2> QED BY <1>3, <2>1, FiledIs
  <1>6. HandedOut' = HandedOut
    <2>1. \A u \in Threads : Carries(k, k2, u)
      BY <1>1, <1>2, <1>3 DEF Carries
    <2>2. \A u \in Threads : k[u].kmsg # NoMessage => d2[k[u].kmsg] = d[k[u].kmsg]
      BY <1>1, <1>2, <1>3, <1>4 DEF ThreadRecords, SameButFor
    <2>3. Deliveries(k2, d2) = Deliveries(k, d)
      BY <2>1, <2>2, SameDeliveries
    <2> QED BY <1>3, <2>3 DEF HandedOut, Deliveries
  <1>7. Numbers' = Numbers /\ Living' = Living
    BY DEF Numbers, Living
  <1> QED BY <1>5, <1>6, <1>7, StuttersAbstractly DEF Conforms

\* One of the deliveries is taken away.
Ended(k, k2, d, d2, t) ==
    /\ t \in Threads /\ k[t].kmsg # NoMessage /\ k2[t].kmsg = NoMessage
    /\ \A u \in Threads \ {t} : Carries(k, k2, u) /\ k[u].kmsg # k[t].kmsg
    /\ \A u \in Threads \ {t} : k[u].kmsg # NoMessage => d2[k[u].kmsg] = d[k[u].kmsg]

LEMMA DeliveryEnds ==
    ASSUME NEW k, NEW k2, NEW d, NEW d2, NEW t, Ended(k, k2, d, d2, t),
           NEW x, x = Delivery(k[t].kmsg, d[k[t].kmsg], k[t].seqno)
    PROVE  x \in Deliveries(k, d) /\ Deliveries(k2, d2) = Deliveries(k, d) \ {x}
  <1>1. /\ t \in Threads /\ k[t].kmsg # NoMessage /\ k2[t].kmsg = NoMessage
        /\ \A u \in Threads \ {t} : Carries(k, k2, u) /\ k[u].kmsg # k[t].kmsg
        /\ \A u \in Threads \ {t} : k[u].kmsg # NoMessage => d2[k[u].kmsg] = d[k[u].kmsg]
    BY DEF Ended
  <1>2. x \in Deliveries(k, d)
    BY <1>1 DEF Deliveries
  <1>3. ASSUME NEW y \in Deliveries(k, d), y # x
        PROVE  y \in Deliveries(k2, d2)
    <2>1. PICK u \in Threads : k[u].kmsg # NoMessage /\ y = Delivery(k[u].kmsg, d[k[u].kmsg], k[u].seqno)
      BY DEF Deliveries
    <2>2. u # t
      BY <1>1, <1>3, <2>1
    <2>3. k2[u].kmsg # NoMessage /\ y = Delivery(k2[u].kmsg, d2[k2[u].kmsg], k2[u].seqno)
      BY <1>1, <2>1, <2>2 DEF Carries
    <2> QED BY <2>3 DEF Deliveries
  <1>4. ASSUME NEW y \in Deliveries(k2, d2)
        PROVE  y \in Deliveries(k, d) /\ y # x
    <2>1. PICK u \in Threads : k2[u].kmsg # NoMessage /\ y = Delivery(k2[u].kmsg, d2[k2[u].kmsg], k2[u].seqno)
      BY DEF Deliveries
    <2>2. u # t
      BY <1>1, <2>1
    <2>3. k[u].kmsg # NoMessage /\ y = Delivery(k[u].kmsg, d[k[u].kmsg], k[u].seqno)
      BY <1>1, <2>1, <2>2 DEF Carries
    <2>4. y.msg = k[u].kmsg /\ x.msg = k[t].kmsg
      BY <2>3 DEF Delivery
    <2>5. y # x
      BY <1>1, <2>2, <2>4
    <2> QED BY <2>3, <2>5 DEF Deliveries
  <1>5. Deliveries(k2, d2) = Deliveries(k, d) \ {x}
    BY <1>3, <1>4
  <1> QED BY <1>2, <1>5

LEMMA ReceiveDoneConforms ==
    ASSUME Base, Rights(port), NEW t \in Threads, ReceiveDone(t)
    PROVE  Conforms
  <1>1. PICK m, p : m = th[t].kmsg /\ p = dest[m]
    OBVIOUS
  <1>2. /\ pc[t] = "got" /\ port' = CountOff(p) /\ dest' = [dest EXCEPT ![m] = NoPort] /\ mq' = mq
    BY <1>1 DEF ReceiveDone, Release
  <1>3. /\ \A z \in Ports : Home(port, z) \in Queues
        /\ \A x \in Queues : mq[x].kmsgs \in Seq(Messages)
        /\ port \in [Ports -> PortRecords]
        /\ th \in [Threads -> ThreadRecords] /\ dest \in [Messages -> Ports \cup {NoPort}]
    BY QueuesFiled
  <1>4. m \in Messages /\ m # NoMessage
    <2>1. Order(t, th[t], pc[t], call[t])
      BY DEF Base, Fine
    <2>2. m # NoMessage
      BY <1>1, <1>2, <2>1 DEF Order
    <2> QED BY <1>1, <1>3, <2>2 DEF ThreadRecords
  <1>5. /\ \A x \in Queues : m \notin Range(mq[x].kmsgs)
        /\ \A u \in Threads \ {t} : th[u].kmsg # m
    <2>1. Load(th, pc, call)[t] = m
      BY <1>1, <1>2 DEF Load
    <2> QED BY <1>4, <2>1, WhereMessagesAre
  <1>6. PICK k, k2, d, d2 : k = th /\ k2 = th' /\ d = dest /\ d2 = dest'
    OBVIOUS
  <1>7. SameButFor(m, d, d2)
    BY <1>2, <1>3, <1>6 DEF SameButFor
  <1>8. PICK po : po = port'
    OBVIOUS
  <1>9. \A z \in Ports : /\ po[z].active = port[z].active /\ po[z].owned = port[z].owned
                         /\ po[z].pset = port[z].pset /\ po[z].seqno = port[z].seqno
    <2>1. CASE p \in Ports /\ port[p].active
      <3>1. PICK g, n : n = port[p].msgcount - 1 /\ g = [port[p] EXCEPT !.msgcount = n]
        OBVIOUS
      <3>2. po = [port EXCEPT ![p] = g]
        BY <1>2, <1>8, <2>1, <3>1 DEF CountOff
      <3>3. port[p] \in PortRecords
        BY <1>3, <2>1
      <3>4. /\ g.active = port[p].active /\ g.owned = port[p].owned
            /\ g.pset = port[p].pset /\ g.seqno = port[p].seqno
        BY ONLY <3>1, <3>3 DEF PortRecords
      <3>5. po[p] = g /\ \A z \in Ports \ {p} : po[z] = port[z]
        BY <1>3, <2>1, <3>2
      <3> QED BY ONLY <3>4, <3>5
    <2>2. CASE p \notin Ports
      <3>1. po = port \/ po = [port EXCEPT ![p].msgcount = @ - 1]
        BY <1>2, <1>8 DEF CountOff
      <3>2. \A z \in Ports : po[z] = port[z]
        BY <1>3, <2>2, <3>1
      <3> QED BY ONLY <3>2
    <2>3. CASE ~port[p].active
      <3>1. po = port
        BY <1>2, <1>8, <2>3 DEF CountOff
      <3> QED BY ONLY <3>1
    <2> QED BY <2>1, <2>2, <2>3
  <1>10. Waiting' = Waiting
    <2>1. ASSUME NEW z \in Ports
          PROVE  Filed(d2, mq, po, z) = Filed(d, mq, port, z)
      <3>1. PICK u : u = mq[Home(port, z)].kmsgs
        OBVIOUS
      <3>2. u \in Seq(Messages) /\ m \notin Range(u)
        BY <1>3, <1>5, <3>1
      <3>3. Only(u, Owned(d2, z)) = Only(u, Owned(d, z))
        BY ONLY <1>7, <3>2, Refiled
      <3>4. Home(po, z) = Home(port, z)
        BY <1>9 DEF Home
      <3> QED BY <3>1, <3>3, <3>4 DEF Filed
    <2> QED BY <1>2, <1>6, <1>8, <2>1, FiledIs
  <1>11. k2[t].kmsg = NoMessage /\ \A u \in Threads \ {t} : Carries(k, k2, u)
    <2>1. PICK left : left = [k EXCEPT ![t] = IdleThread]
      OBVIOUS
    <2>2. left \in [Threads -> ThreadRecords] /\ left[t] = IdleThread /\ \A u \in Threads \ {t} : left[u] = k[u]
      BY <1>3, <1>6, <2>1, IdleIs
    <2>3. \A u \in Threads : k2[u].kmsg = left[u].kmsg /\ k2[u].seqno = left[u].seqno
      <3>1. CASE k2 = left
        BY <3>1
      <3>2. CASE WakesSender(p)
        <4>1. PICK V, state : V = {Head(blocked[p])} /\ state = "SUCCESS"
          OBVIOUS
        <4>2. k2 = Wake(left, V, state)
          BY <1>1, <1>6, <2>1, <3>2, <4>1 DEF ReceiveDone
        <4>3. state \in IthStates
          BY <4>1 DEF IthStates
        <4> QED BY <2>2, <4>2, <4>3, WakeKeeps
      <3> QED BY <1>1, <1>6, <2>1, <3>1, <3>2 DEF ReceiveDone
    <2> QED BY <2>2, <2>3 DEF Carries, IdleThread
  <1>12. PICK x : x = Delivery(k[t].kmsg, d[k[t].kmsg], k[t].seqno)
    OBVIOUS
  <1>13. x \in Deliveries(k, d) /\ Deliveries(k2, d2) = Deliveries(k, d) \ {x}
    <2>1. k[t].kmsg # NoMessage /\ \A u \in Threads \ {t} : k[u].kmsg # k[t].kmsg
      BY <1>1, <1>4, <1>5, <1>6
    <2>2. \A u \in Threads \ {t} : k[u].kmsg # NoMessage => d2[k[u].kmsg] = d[k[u].kmsg]
      BY <1>1, <1>3, <1>6, <1>7, <2>1 DEF ThreadRecords, SameButFor
    <2>3. Ended(k, k2, d, d2, t)
      BY <1>11, <2>1, <2>2 DEF Ended
    <2> QED BY ONLY <1>12, <2>3, DeliveryEnds
  <1>14. x \in HandedOut /\ HandedOut' = HandedOut \ {x}
    BY <1>6, <1>13 DEF HandedOut, Deliveries
  <1>15. Numbers' = Numbers /\ Living' = Living
    BY <1>8, <1>9 DEF Numbers, Living
  <1>16. Abstract!Next
    BY <1>10, <1>14, <1>15, Consumed
  <1>17. Rights(po)
    BY <1>9, RightsSame
  <1> QED BY <1>8, <1>16, <1>17 DEF Conforms

\* Nobody else has been handed the message of a sender, or a queued one.
LEMMA NotHanded ==
    ASSUME Base, NEW x \in Queues, NEW m \in Messages, m \in Range(mq[x].kmsgs)
    PROVE  \A u \in Threads : th[u].kmsg # m
  BY WhereMessagesAre

LEMMA DestroyQueuedConforms ==
    ASSUME Base, Rights(port), NEW p \in Ports, DestroyQueued(p)
    PROVE  Conforms
  <1>1. PICK m, u, v : u = mq[p].kmsgs /\ m = Head(u) /\ v = Tail(u)
    OBVIOUS
  <1>2. /\ ~port[p].active /\ u # <<>>
        /\ mq' = [mq EXCEPT ![p].kmsgs = v]
        /\ dest' = [dest EXCEPT ![m] = NoPort]
        /\ UNCHANGED <<port, th>>
    BY <1>1 DEF DestroyQueued, Release
  <1>3. /\ \A z \in Ports : Home(port, z) \in Queues
        /\ \A x \in Queues : mq[x].kmsgs \in Seq(Messages)
        /\ mq \in [Queues -> QueueRecords]
        /\ th \in [Threads -> ThreadRecords] /\ dest \in [Messages -> Ports \cup {NoPort}]
        /\ p \in Queues
    BY QueuesFiled DEF Queues
  <1>4. /\ u \in Seq(Messages) /\ m \in Messages /\ v \in Seq(Messages)
        /\ m \in Range(u) /\ m \notin Range(v)
        /\ \A x \in Queues \ {p} : m \notin Range(mq[x].kmsgs)
    <2>1. PICK q : q = mq
      OBVIOUS
    <2>2. QueuesOK(q)
      BY <2>1 DEF Base, Fine
    <2>3. u \in Seq(Messages) /\ Range(u) \subseteq Messages /\ IsInjective(u)
      BY <1>1, <1>3, <2>1, <2>2, RangesIn
    <2>4. /\ m \in Messages /\ v \in Seq(Messages) /\ m \in Range(u)
          /\ Range(v) = Range(u) \ {m}
      BY <1>1, <1>2, <2>3, Headed
    <2>5. \A x \in Queues \ {p} : m \notin Range(mq[x].kmsgs)
      BY <1>1, <1>3, <2>1, <2>2, <2>4 DEF QueuesOK
    <2> QED BY <2>3, <2>4, <2>5
  <1>5. /\ mq'[p].kmsgs = v /\ \A z \in Queues \ {p} : mq'[z] = mq[z]
    BY <1>2, <1>3 DEF QueueRecords
  <1>6. Home(port, p) = p /\ \A z \in Ports \ {p} : Home(port, z) \in Queues \ {p}
    <2>1. port[p].pset = NoPset
      BY <1>2 DEF Rights
    <2>2. \A z \in Ports \ {p} : Home(port, z) # p
      BY MessageQueueAssumption DEF Base, Types, PortRecords, Home
    <2> QED BY <1>3, <2>1, <2>2 DEF Home
  <1>7. dest[m] = p
    <2>1. dest[m] \in Ports /\ Home(port, dest[m]) = p
      BY <1>1, <1>3, <1>4 DEF Base, Housed
    <2> QED BY <1>6, <2>1
  <1>8. PICK k, d, d2 : k = th /\ d = dest /\ d2 = dest'
    OBVIOUS
  <1>9. SameButFor(m, d, d2)
    BY <1>2, <1>3, <1>8 DEF SameButFor
  <1>10. PICK ms : ms = Only(u, Owned(d, p))
    OBVIOUS
  <1>11. ms # <<>> /\ Only(v, Owned(d, p)) = Tail(ms)
    <2>1. PICK S : S = Owned(d, p)
      OBVIOUS
    <2>2. m \in S
      BY <1>4, <1>7, <1>8, <2>1 DEF Owned
    <2>3. Only(u, S) # <<>> /\ Only(Tail(u), S) = Tail(Only(u, S))
      BY <1>1, <1>2, <1>4, <2>2, OnlyTail
    <2> QED BY <1>1, <1>10, <2>1, <2>3
  <1>12. Filed(d, mq, port, p) = ms /\ Filed(d2, mq', port, p) = Tail(ms)
    <2>1. Only(v, Owned(d2, p)) = Only(v, Owned(d, p))
      BY ONLY <1>4, <1>9, Refiled
    <2> QED BY ONLY <1>1, <1>5, <1>6, <1>10, <1>11, <2>1 DEF Filed
  <1>13. ASSUME NEW z \in Ports \ {p}
         PROVE  Filed(d2, mq', port, z) = Filed(d, mq, port, z)
    <2>1. PICK w : w = mq[Home(port, z)].kmsgs
      OBVIOUS
    <2>2. w \in Seq(Messages) /\ m \notin Range(w) /\ mq'[Home(port, z)].kmsgs = w
      BY <1>3, <1>4, <1>5, <1>6, <2>1
    <2>3. Only(w, Owned(d2, z)) = Only(w, Owned(d, z))
      BY ONLY <1>9, <2>2, Refiled
    <2> QED BY ONLY <2>1, <2>2, <2>3 DEF Filed
  <1>14. Waiting' = [Waiting EXCEPT ![p] = Tail(Waiting[p])] /\ Waiting[p] # <<>>
    <2>1. Waiting[p] = ms
      BY <1>8, <1>12, FiledIs
    <2> QED BY <1>2, <1>8, <1>11, <1>12, <1>13, <2>1, FiledIs
  <1>15. HandedOut' = HandedOut
    <2>1. \A z \in Threads : k[z].kmsg # m
      BY <1>1, <1>3, <1>4, <1>8, NotHanded
    <2>2. \A z \in Threads : k[z].kmsg # NoMessage => d2[k[z].kmsg] = d[k[z].kmsg]
      BY <1>3, <1>8, <1>9, <2>1 DEF ThreadRecords, SameButFor
    <2>3. \A z \in Threads : Carries(k, k, z)
      BY DEF Carries
    <2>4. Deliveries(k, d2) = Deliveries(k, d)
      BY <2>2, <2>3, SameDeliveries
    <2>5. HandedOut = Deliveries(k, d) /\ HandedOut' = Deliveries(k, d2)
      <3>1. th' = th
        BY ONLY <1>2
      <3> QED BY ONLY <1>8, <3>1 DEF HandedOut, Deliveries
    <2> QED BY ONLY <2>4, <2>5
  <1>16. Numbers' = Numbers /\ Living' = Living /\ p \notin Living
    BY <1>2 DEF Numbers, Living
  <1>17. Abstract!Next
    BY <1>14, <1>15, <1>16, Discarded
  <1> QED BY <1>2, <1>17 DEF Conforms

-----------------------------------------------------------------------------
(* A message that is accepted.                                             *)

\* From the threads, queues, ports and owners k, q, po and d, those with 2 come
\* about by p's accepting m, which is in none of the queues.
Accepted(p, x, m, o, b, q, q2, po, po2, d, d2) ==
    /\ o.kmsgs = q[x].kmsgs /\ x = Home(po, p) /\ o.seqno = po[p].seqno
    /\ q2[x].kmsgs = b.kmsgs /\ \A z \in Queues \ {x} : q2[z] = q[z]
    /\ \A z \in Ports : /\ po2[z].active = po[z].active /\ po2[z].owned = po[z].owned
                        /\ po2[z].pset = po[z].pset
    /\ po2[p].seqno = b.seqno
    /\ \A z \in Ports \ {p} : po2[z].seqno = po[z].seqno
    /\ SameButFor(m, d, d2) /\ d2[m] = p
    /\ \A z \in Queues : q[z].kmsgs \in Seq(Messages) /\ m \notin Range(q[z].kmsgs)
    /\ \A z \in Ports : Home(po, z) \in Queues

\* It follows the others of p, or is handed over while none of p waits.
LEMMA AcceptedIsFiled ==
    ASSUME NEW p \in Ports, NEW x \in Queues, NEW m \in Messages, NEW o, NEW b, NEW q, NEW q2,
           NEW po, NEW po2, NEW d, NEW d2, Accepted(p, x, m, o, b, q, q2, po, po2, d, d2),
           b.kmsgs = Append(o.kmsgs, m)
    PROVE  /\ Filed(d2, q2, po2, p) = Append(Filed(d, q, po, p), m)
           /\ \A z \in Ports \ {p} : Filed(d2, q2, po2, z) = Filed(d, q, po, z)
  <1>1. /\ o.kmsgs = q[x].kmsgs /\ x = Home(po, p)
        /\ q2[x].kmsgs = b.kmsgs /\ \A z \in Queues \ {x} : q2[z] = q[z]
        /\ SameButFor(m, d, d2) /\ d2[m] = p
        /\ \A z \in Queues : q[z].kmsgs \in Seq(Messages) /\ m \notin Range(q[z].kmsgs)
        /\ \A z \in Ports : Home(po, z) \in Queues
    BY DEF Accepted
  <1>2. \A z \in Ports : Home(po2, z) = Home(po, z)
    BY DEF Accepted, Home
  <1>3. PICK u : u = q[x].kmsgs
    OBVIOUS
  <1>4. u \in Seq(Messages) /\ m \notin Range(u) /\ q2[x].kmsgs = Append(u, m)
    BY <1>1, <1>3
  <1>5. ASSUME NEW z \in Ports
        PROVE  Only(Append(u, m), Owned(d2, z)) =
                   IF z = p THEN Append(Only(u, Owned(d, z)), m) ELSE Only(u, Owned(d, z))
    <2>1. PICK S : S = Owned(d2, z)
      OBVIOUS
    <2>2. m \in S <=> z = p
      BY <1>1, <2>1 DEF Owned
    <2>3. Only(Append(u, m), S) = IF m \in S THEN Append(Only(u, S), m) ELSE Only(u, S)
      BY ONLY <1>4, m \in Messages, OnlyMore
    <2>4. Only(u, Owned(d2, z)) = Only(u, Owned(d, z))
      BY ONLY <1>1, <1>4, Refiled
    <2> QED BY ONLY <2>1, <2>2, <2>3, <2>4
  <1>6. Filed(d2, q2, po2, p) = Append(Filed(d, q, po, p), m)
    BY <1>1, <1>2, <1>3, <1>4, <1>5 DEF Filed
  <1>7. ASSUME NEW z \in Ports \ {p}
        PROVE  Filed(d2, q2, po2, z) = Filed(d, q, po, z)
    <2>1. CASE Home(po, z) = x
      BY <1>2, <1>3, <1>4, <1>5, <2>1 DEF Filed
    <2>2. CASE Home(po, z) # x
      <3>1. PICK w : w = q[Home(po, z)].kmsgs
        OBVIOUS
      <3>2. w \in Seq(Messages) /\ m \notin Range(w) /\ q2[Home(po, z)].kmsgs = w
        BY <1>1, <2>2, <3>1
      <3>3. Only(w, Owned(d2, z)) = Only(w, Owned(d, z))
        BY ONLY <1>1, <3>2, Refiled
      <3> QED BY <1>2, <3>1, <3>2, <3>3 DEF Filed
    <2> QED BY <2>1, <2>2
  <1> QED BY <1>6, <1>7

LEMMA HandedIsNotFiled ==
    ASSUME NEW p \in Ports, NEW x \in Queues, NEW m \in Messages, NEW o, NEW b, NEW q, NEW q2,
           NEW po, NEW po2, NEW d, NEW d2, Accepted(p, x, m, o, b, q, q2, po, po2, d, d2),
           b.kmsgs = o.kmsgs, o.kmsgs = <<>>
    PROVE  /\ Filed(d, q, po, p) = <<>>
           /\ \A z \in Ports : Filed(d2, q2, po2, z) = Filed(d, q, po, z)
  <1>1. /\ o.kmsgs = q[x].kmsgs /\ x = Home(po, p)
        /\ q2[x].kmsgs = b.kmsgs /\ \A z \in Queues \ {x} : q2[z] = q[z]
        /\ SameButFor(m, d, d2)
        /\ \A z \in Queues : q[z].kmsgs \in Seq(Messages) /\ m \notin Range(q[z].kmsgs)
        /\ \A z \in Ports : Home(po, z) \in Queues
    BY DEF Accepted
  <1>2. \A z \in Ports : Home(po2, z) = Home(po, z)
    BY DEF Accepted, Home
  <1>3. Filed(d, q, po, p) = <<>>
    <2>1. PICK S : S = Owned(d, p)
      OBVIOUS
    <2>2. Only(<<>>, S) = <<>>
      BY OnlyNothing
    <2> QED BY <1>1, <2>1, <2>2 DEF Filed
  <1>4. ASSUME NEW z \in Ports
        PROVE  Filed(d2, q2, po2, z) = Filed(d, q, po, z)
    <2>1. PICK w : w = q[Home(po, z)].kmsgs
      OBVIOUS
    <2>2. w \in Seq(Messages) /\ m \notin Range(w) /\ q2[Home(po, z)].kmsgs = w
      BY <1>1, <2>1
    <2>3. Only(w, Owned(d2, z)) = Only(w, Owned(d, z))
      BY ONLY <1>1, <2>2, Refiled
    <2> QED BY <1>2, <2>1, <2>2, <2>3 DEF Filed
  <1> QED BY <1>3, <1>4

LEMMA AcceptConforms ==
    ASSUME Base, Rights(port), NEW t \in Threads, NEW m \in Messages, Bears(t, m), NEW p \in Ports,
           port[p].active, Accept(t, m, p)
    PROVE  Conforms
  <1>1. PICK x : x = Mqueue(p)
    OBVIOUS
  <1>2. PICK o : o = Offered(t, p, x)
    OBVIOUS
  <1>3. PICK b : b = Offer(o, m)
    OBVIOUS
  <1>4. /\ \A z \in Ports : Home(port, z) \in Queues
        /\ \A z \in Queues : mq[z].kmsgs \in Seq(Messages)
        /\ mq \in [Queues -> QueueRecords] /\ port \in [Ports -> PortRecords]
        /\ th \in [Threads -> ThreadRecords] /\ dest \in [Messages -> Ports \cup {NoPort}]
    BY QueuesFiled
  <1>5. x = Home(port, p) /\ x \in Queues
    BY <1>1, <1>4 DEF Home, Mqueue
  <1>6. Given(t, m, p, x, o, b)
    BY <1>1, <1>2, <1>3, <1>5, AcceptIs
  <1>7. /\ Offerable(o) /\ o.kmsgs = mq[x].kmsgs /\ o.waiters = mq[x].waiters
        /\ o.th[t] = IdleThread /\ \A u \in Threads \ {t} : o.th[u] = th[u]
        /\ port' = [port EXCEPT ![p].msgcount = @ + 1, ![p].seqno = b.seqno]
        /\ mq' = [mq EXCEPT ![x] = [kmsgs |-> b.kmsgs, waiters |-> b.waiters]]
        /\ th' = b.th
    BY ONLY <1>6 DEF Given
  <1>8. o.seqno = port[p].seqno
    BY <1>2 DEF Offered
  <1>9. /\ \A z \in Queues : m \notin Range(mq[z].kmsgs)
        /\ th[t].kmsg = NoMessage /\ m # NoMessage
        /\ \A u \in Threads : th[u].kmsg # m
    <2>1. /\ \A z \in Queues : m \notin Range(mq[z].kmsgs)
          /\ th[t].kmsg = NoMessage /\ m # NoMessage
          /\ Load(th, pc, call)[t] = m \/ (m \in free /\ Load(th, pc, call)[t] = NoMessage)
      BY SenderBears
    <2>2. \A u \in Threads : th[u].kmsg = m => u = t
      BY <2>1, WhereMessagesAre
    <2> QED BY <2>1, <2>2
  <1>10. Passed(o, b, m)
    BY <1>3, <1>5, <1>7, <1>9, OfferPasses
  <1>11. PICK q, q2, po, po2, d, d2, k, k2 : /\ q = mq /\ q2 = mq' /\ po = port /\ po2 = port'
                                             /\ d = dest /\ d2 = dest' /\ k = th /\ k2 = th'
    OBVIOUS
  <1>12. /\ \A z \in Ports : /\ po2[z].active = po[z].active /\ po2[z].owned = po[z].owned
                             /\ po2[z].pset = po[z].pset
         /\ po2[p].seqno = b.seqno
         /\ \A z \in Ports \ {p} : po2[z].seqno = po[z].seqno
    <2>1. PICK g : g = [po[p] EXCEPT !.msgcount = @ + 1, !.seqno = b.seqno]
      OBVIOUS
    <2>2. po2 = [po EXCEPT ![p] = g]
      BY <1>7, <1>11, <2>1
    <2>3. po[p] \in PortRecords /\ po \in [Ports -> PortRecords]
      BY <1>4, <1>11
    <2>4. g.active = po[p].active /\ g.owned = po[p].owned /\ g.pset = po[p].pset /\ g.seqno = b.seqno
      BY ONLY <2>1, <2>3 DEF PortRecords
    <2> QED BY ONLY <2>2, <2>3, <2>4
  <1>13. d2[m] = p /\ SameButFor(m, d, d2)
    <2>1. d2 = [d EXCEPT ![m] = p]
      BY <1>11 DEF Accept, Hold
    <2> QED BY <1>4, <1>11, <2>1 DEF SameButFor
  <1>14. q2[x].kmsgs = b.kmsgs /\ \A z \in Queues \ {x} : q2[z] = q[z]
    BY <1>4, <1>5, <1>7, <1>11
  <1>15. Accepted(p, x, m, o, b, q, q2, po, po2, d, d2)
    BY <1>4, <1>5, <1>7, <1>8, <1>9, <1>11, <1>12, <1>13, <1>14 DEF Accepted
  <1>16. Deliveries(o.th, d2) = Deliveries(k, d)
    <2>1. PICK f : f = o.th
      OBVIOUS
    <2>2. \A u \in Threads : Carries(k, f, u)
      BY <1>7, <1>9, <1>11, <2>1 DEF Carries, IdleThread
    <2>3. \A u \in Threads : k[u].kmsg # NoMessage => d2[k[u].kmsg] = d[k[u].kmsg]
      BY <1>4, <1>9, <1>11, <1>13 DEF ThreadRecords, SameButFor
    <2>4. Deliveries(f, d2) = Deliveries(k, d)
      BY <2>2, <2>3, SameDeliveries
    <2> QED BY <2>1, <2>4
  <1>17. /\ Waiting = [z \in Ports |-> Filed(d, q, po, z)]
         /\ Waiting' = [z \in Ports |-> Filed(d2, q2, po2, z)]
         /\ HandedOut = Deliveries(k, d) /\ HandedOut' = Deliveries(b.th, d2)
         /\ Numbers = [z \in Ports |-> po[z].seqno] /\ Numbers' = [z \in Ports |-> po2[z].seqno]
         /\ Living' = Living /\ p \in Living
    <2>1. HandedOut = Deliveries(k, d) /\ HandedOut' = Deliveries(b.th, d2)
      BY <1>7, <1>11 DEF HandedOut, Deliveries
    <2>2. Living' = Living /\ p \in Living
      BY <1>11, <1>12 DEF Living
    <2> QED BY <1>11, <2>1, <2>2, FiledIs DEF Numbers
  <1>18. po[p].seqno \in Nat /\ po[p].seqno % SeqnoLimit = po[p].seqno
    <2>1. po[p].seqno \in Seqnos
      BY <1>4, <1>11 DEF PortRecords
    <2> QED BY <2>1, SeqnoIs
  <1>19. PICK w, ms, a : w = Filed(d, q, po, p) /\ a = <<m>> /\ ms = w \o a
    OBVIOUS
  <1>20. w \in Seq(Messages)
    <2>1. PICK u, S : u = q[x].kmsgs /\ S = Owned(d, p)
      OBVIOUS
    <2>2. u \in Seq(Messages) /\ IsInjective(u)
      BY <1>5, <1>4, <1>11, <2>1 DEF Base, Fine, QueuesOK
    <2>3. Only(u, S) \in Seq(Messages)
      BY <2>2, OnlySome
    <2> QED BY <1>5, <1>11, <1>19, <2>1, <2>3 DEF Filed
  <1>21. ms = Append(w, m) /\ Len(ms) \in Nat /\ ms \in Seq(Messages) /\ Waiting[p] = w
    BY <1>17, <1>19, <1>20
  <1>22. CASE /\ b.kmsgs = Append(o.kmsgs, m) /\ b.seqno = o.seqno
              /\ \A u \in Threads : Carries(o.th, b.th, u)
    <2>1. /\ Filed(d2, q2, po2, p) = Append(w, m)
          /\ \A z \in Ports \ {p} : Filed(d2, q2, po2, z) = Filed(d, q, po, z)
      BY ONLY <1>5, <1>15, <1>19, <1>22, p \in Ports, m \in Messages, AcceptedIsFiled
    <2>2. Deliveries(b.th, d2) = Deliveries(o.th, d2)
      <3>1. PICK f, f2 : f = o.th /\ f2 = b.th
        OBVIOUS
      <3>2. \A u \in Threads : Carries(f, f2, u)
        BY <1>22, <3>1
      <3>3. Deliveries(f2, d2) = Deliveries(f, d2)
        BY <3>2, SameDeliveries
      <3> QED BY <3>1, <3>3
    <2>3. HandedOut' = HandedOut \cup {Delivery(ms[i], p, (Numbers[p] + i - 1) % SeqnoLimit) : i \in 1..0}
      <3>1. 1..0 = {}
        OBVIOUS
      <3> QED BY <1>16, <1>17, <2>2, <3>1
    <2>4. Waiting' = [Waiting EXCEPT ![p] = SubSeq(ms, 0 + 1, Len(ms))]
      <3>1. SubSeq(ms, 0 + 1, Len(ms)) = ms
        BY ONLY <1>21
      <3> QED BY ONLY <1>17, <1>21, <2>1, <3>1
    <2>5. Numbers' = [Numbers EXCEPT ![p] = (Numbers[p] + 0) % SeqnoLimit]
      <3>1. (po[p].seqno + 0) % SeqnoLimit = po[p].seqno
        BY ONLY <1>18
      <3>2. \A z \in Ports : po2[z].seqno = po[z].seqno
        BY <1>8, <1>11, <1>12, <1>22
      <3> QED BY ONLY <1>17, <3>1, <3>2
    <2>6. 0 \in 0..Len(ms)
      BY ONLY <1>21
    <2>7. Exchanges(p, Waiting[p] \o a, 0)
      <3>1. Exchanges(p, ms, 0)
        BY ONLY <1>17, <2>3, <2>4, <2>5, <2>6 DEF Exchanges
      <3> QED BY ONLY <1>19, <1>21, <3>1
    <2>8. Abstract!Next
      BY <1>19, <2>7, Exchanged
    <2>9. Rights(po2)
      <3>1. \A z \in Ports : po2[z].seqno = po[z].seqno
        BY <1>8, <1>11, <1>12, <1>22
      <3> QED BY <1>11, <1>12, <3>1, RightsSame
    <2> QED BY <1>11, <2>8, <2>9 DEF Conforms
  <1>23. CASE /\ o.waiters # <<>> /\ b.kmsgs = o.kmsgs /\ b.seqno = Following(o.seqno)
              /\ \E r \in Threads : Handed(o.th, b.th, r, m, o.seqno)
    <2>1. o.kmsgs = <<>>
      BY <1>5, <1>7, <1>23 DEF Base, Fine, QueuesOK
    <2>2. w = <<>> /\ \A z \in Ports : Filed(d2, q2, po2, z) = Filed(d, q, po, z)
      BY ONLY <1>5, <1>15, <1>19, <1>23, <2>1, p \in Ports, m \in Messages, HandedIsNotFiled
    <2>3. ms = <<m>> /\ Len(ms) = 1 /\ ms[1] = m
      BY ONLY <1>19, <2>2
    <2>4. Deliveries(b.th, d2) = Deliveries(k, d) \cup {Delivery(m, p, po[p].seqno)}
      <3>1. PICK f, f2, n : f = o.th /\ f2 = b.th /\ n = o.seqno
        OBVIOUS
      <3>2. PICK r : Handed(f, f2, r, m, n)
        BY <1>23, <3>1
      <3>3. Deliveries(f2, d2) = Deliveries(f, d2) \cup {Delivery(m, d2[m], n)}
        BY <1>9, <3>2, OneDelivery
      <3> QED BY ONLY <1>8, <1>11, <1>13, <1>16, <3>1, <3>3
    <2>5. HandedOut' = HandedOut \cup {Delivery(ms[i], p, (Numbers[p] + i - 1) % SeqnoLimit) : i \in 1..1}
      <3>1. 1..1 = {1} /\ (po[p].seqno + 1 - 1) % SeqnoLimit = po[p].seqno
        BY ONLY <1>18
      <3>2. Numbers[p] = po[p].seqno
        BY ONLY <1>17, p \in Ports
      <3>3. {Delivery(ms[i], p, (Numbers[p] + i - 1) % SeqnoLimit) : i \in 1..1}
               = {Delivery(m, p, po[p].seqno)}
        BY ONLY <2>3, <3>1, <3>2
      <3> QED BY ONLY <1>17, <2>4, <3>3
    <2>6. Waiting' = [Waiting EXCEPT ![p] = SubSeq(ms, 1 + 1, Len(ms))]
      <3>1. SubSeq(ms, 1 + 1, Len(ms)) = <<>>
        BY ONLY <2>3
      <3> QED BY ONLY <1>17, <1>21, <2>2, <3>1
    <2>7. Numbers' = [Numbers EXCEPT ![p] = (Numbers[p] + 1) % SeqnoLimit]
      <3>1. po2[p].seqno = (po[p].seqno + 1) % SeqnoLimit
        BY <1>8, <1>11, <1>12, <1>23 DEF Following
      <3> QED BY ONLY <1>12, <1>17, <3>1, p \in Ports
    <2>8. 1 \in 0..Len(ms)
      BY ONLY <2>3
    <2>9. Exchanges(p, Waiting[p] \o a, 1)
      <3>1. Exchanges(p, ms, 1)
        BY ONLY <1>17, <2>5, <2>6, <2>7, <2>8 DEF Exchanges
      <3> QED BY ONLY <1>19, <1>21, <3>1
    <2>10. Abstract!Next
      BY <1>19, <2>9, Exchanged
    <2>11. po[p].owned
      <3>1. CASE x = p
        BY <1>7, <1>11, <1>23, <3>1 DEF Base, Housed
      <3>2. CASE x # p
        BY <1>5, <1>11, <3>2 DEF Home, Rights
      <3> QED BY <3>1, <3>2
    <2>12. Rights(po2)
      BY <1>11, <1>12, <2>11 DEF Rights
    <2> QED BY <1>11, <2>10, <2>12 DEF Conforms
  <1> QED BY <1>10, <1>22, <1>23 DEF Passed

LEMMA SendLoopConforms ==
    ASSUME Base, Rights(port), NEW t \in Threads, NEW m \in Messages, Bears(t, m), NEW p \in Ports,
           NEW option, NEW senders, SendLoop(t, m, p, option, senders)
    PROVE  Conforms
  <1>1. CASE Release(m) /\ th' = [th EXCEPT ![t] = IdleThread] /\ UNCHANGED <<port, mq>>
    <2>1. PICK g, v : g = IdleThread /\ v = NoPort
      OBVIOUS
    <2>2. /\ g.kmsg = NoMessage /\ th' = [th EXCEPT ![t] = g] /\ dest' = [dest EXCEPT ![m] = v]
      BY <1>1, <2>1 DEF Release, IdleThread
    <2> QED BY <1>1, <2>2, SendEndsConforms
  <1>2. CASE port[p].active /\ Accept(t, m, p)
    BY <1>2, AcceptConforms
  <1>3. CASE /\ th' = [th EXCEPT ![t] = WillWait("SEND_IN_PROGRESS", option)]
             /\ Hold(m, p) /\ UNCHANGED <<port, mq>>
    <2>1. PICK g, v : g = WillWait("SEND_IN_PROGRESS", option) /\ v = p
      OBVIOUS
    <2>2. /\ g.kmsg = NoMessage /\ th' = [th EXCEPT ![t] = g] /\ dest' = [dest EXCEPT ![m] = v]
      BY <1>3, <2>1 DEF Hold, WillWait, IdleThread
    <2> QED BY <1>3, <2>2, SendEndsConforms
  <1> QED BY <1>1, <1>2, <1>3 DEF SendLoop

LEMMA SendConforms ==
    ASSUME Base, Rights(port), NEW t \in Threads, NEW m \in Messages, NEW p \in Ports, NEW option,
           Send(t, m, p, option)
    PROVE  Conforms
  <1>1. PICK senders : senders = blocked[p]
    OBVIOUS
  <1>2. SendLoop(t, m, p, option, senders) /\ Bears(t, m)
    BY <1>1 DEF Send, Bears
  <1> QED BY <1>2, SendLoopConforms

LEMMA SendWokenConforms ==
    ASSUME Base, Rights(port), NEW t \in Threads, SendWoken(t)
    PROVE  Conforms
  <1>1. PICK m, p, option : m = call[t].msg /\ p = call[t].queue /\ option = call[t].option
    OBVIOUS
  <1>2. PICK others, senders : others = Without(t, blocked[p]) /\ senders = blocked[p]
    OBVIOUS
  <1>3. pc[t] = "send_block" /\ ~th[t].waiting
    BY DEF SendWoken
  <1>4. Order(t, th[t], pc[t], call[t]) /\ call[t] \in CallRecords
    BY DEF Base, Types, Settled, Fine
  <1>5. p \in Ports /\ m \in Messages /\ Bears(t, m)
    BY <1>1, <1>3, <1>4 DEF Order, CallRecords, Bears
  <1>6. CASE SendLoop(t, m, p, option, senders)
    BY <1>5, <1>6, SendLoopConforms
  <1>7. CASE SendLoop(t, m, p, "poll", others)
    <2>1. PICK poll : poll = "poll"
      OBVIOUS
    <2>2. SendLoop(t, m, p, poll, others)
      BY <1>7, <2>1
    <2> QED BY <1>5, <2>2, SendLoopConforms
  <1>8. CASE Release(m) /\ th' = [th EXCEPT ![t] = IdleThread] /\ UNCHANGED <<port, mq>>
    <2>1. PICK g, v : g = IdleThread /\ v = NoPort
      OBVIOUS
    <2>2. /\ g.kmsg = NoMessage /\ th' = [th EXCEPT ![t] = g] /\ dest' = [dest EXCEPT ![m] = v]
      BY <1>8, <2>1 DEF Release, IdleThread
    <2> QED BY <1>5, <1>8, <2>2, SendEndsConforms
  <1>9. CASE UNCHANGED <<port, mq, th, dest>>
    <2>1. \A u \in Threads : Carries(th, th', u)
      BY <1>9 DEF Carries
    <2> QED BY <1>9, <2>1, ThreadsConform
  <1> QED BY <1>1, <1>2, <1>6, <1>7, <1>8, <1>9 DEF SendWoken

-----------------------------------------------------------------------------
(* Every step is a step of PortQueue, or none.                             *)

LEMMA NextConforms ==
    ASSUME Base, Rights(port), [Next]_vars
    PROVE  Conforms
  <1>1. 0..(SeqnoLimit - 1) = Seqnos
    BY DEF Seqnos
  <1>2. ASSUME NEW t \in Threads, Call(t)
        PROVE  Conforms
    <2>1. CASE \E m \in Messages, p \in Ports, o \in Options : Send(t, m, p, o)
      BY <2>1, SendConforms
    <2>2. CASE \E q \in Queues, z \in Sizes, o \in Options : Receive(t, q, z, o)
      BY <2>2, ReceiveConforms
    <2> QED BY <1>2, <2>1, <2>2 DEF Call
  <1>3. ASSUME NEW t \in Threads, Continue(t)
        PROVE  Conforms
    BY <1>3, SendWokenConforms, SendGoConforms, ReceiveWokenConforms, ReceiveDoneConforms DEF Continue
  <1>4. ASSUME NEW t \in Threads, ThreadTimeout(t) \/ ThreadAbort(t)
        PROVE  Conforms
    <2>1. PICK result : EndWait(t, result)
      BY <1>4 DEF ThreadTimeout, ThreadAbort
    <2> QED BY <2>1, EndWaitConforms
  <1>5. ASSUME NEW p \in Ports, PortOperation(p)
        PROVE  Conforms
    <2>1. CASE \E n \in 0..MaxQlimit : SetQlimit(p, n)
      BY <2>1, SetQlimitConforms
    <2>2. CASE \E n \in 0..(SeqnoLimit - 1) : SetSeqno(p, n)
      BY <1>1, <2>2, SetSeqnoConforms
    <2>3. CASE \E ns \in Psets \cup {NoPset} : PsetMove(p, ns)
      BY <2>3, PsetMoveConforms
    <2>4. CASE CopyinReceiveRight(p)
      BY <2>4, CopyinConforms
    <2>5. CASE CopyoutReceiveRight(p)
      BY <2>5, CopyoutConforms
    <2>6. CASE PortDestroy(p)
      BY <2>6, PortDestroyConforms
    <2>7. CASE DestroyQueued(p)
      BY <2>7, DestroyQueuedConforms
    <2> QED BY <1>5, <2>1, <2>2, <2>3, <2>4, <2>5, <2>6, <2>7 DEF PortOperation
  <1>6. ASSUME NEW ps \in Psets, PsetDestroy(ps)
        PROVE  Conforms
    BY <1>6, PsetDestroyConforms
  <1>7. CASE UNCHANGED vars
    <2>1. UNCHANGED <<port, mq, th, dest>>
      BY <1>7 DEF vars
    <2>2. \A u \in Threads : Carries(th, th', u)
      BY <2>1 DEF Carries
    <2> QED BY <2>1, <2>2, ThreadsConform
  <1>8. CASE Next
    <2>1. \/ \E t \in Threads : Call(t) \/ Continue(t) \/ ThreadTimeout(t) \/ ThreadAbort(t)
          \/ \E p \in Ports : PortOperation(p)
          \/ \E ps \in Psets : PsetDestroy(ps)
      BY <1>8 DEF Next
    <2> QED BY <1>2, <1>3, <1>4, <1>5, <1>6, <2>1
  <1> QED BY <1>7, <1>8

LEMMA StartConforms == Init => Rights(port) /\ Abstract!Init
  <1> SUFFICES ASSUME Init PROVE Rights(port) /\ Abstract!Init
    OBVIOUS
  <1>1. \A p \in Ports : /\ port[p].active /\ port[p].owned /\ port[p].pset = NoPset
                         /\ port[p].seqno = 0
    BY DEF Init
  <1>2. Waiting = [p \in Ports |-> <<>>]
    <2>1. ASSUME NEW p \in Ports
          PROVE  MessagesOf(p, mq[Mqueue(p)].kmsgs) = <<>>
      <3>1. mq[Mqueue(p)].kmsgs = <<>>
        BY <1>1 DEF Init, Mqueue, Queues
      <3>2. PICK S : S = {m \in Messages : dest[m] = p}
        OBVIOUS
      <3>3. Only(<<>>, S) = <<>>
        BY OnlyNothing
      <3> QED BY <3>1, <3>2, <3>3 DEF MessagesOf
    <2> QED BY <2>1 DEF Waiting
  <1>3. HandedOut = {}
    BY DEF Init, IdleThread, HandedOut, Deliveries
  <1>4. Numbers = [p \in Ports |-> 0] /\ Living = Ports
    BY <1>1 DEF Numbers, Living
  <1>5. Abstract!Init
    BY <1>2, <1>3, <1>4, StartsAbstractly
  <1> QED BY <1>1, <1>5 DEF Rights

(* The messages a port has accepted are received in the order of their     *)
(* acceptance, each once, under consecutive numbers, whatever port sets    *)
(* the port is moved through and whatever receivers are sent away: the     *)
(* queues do what PortQueue promises (ipc_mqueue_send, ipc_mqueue_move,    *)
(* ipc_mqueue_receive).                                                    *)
THEOREM QueuesImplement == Spec => Implements
  <1>1. Init => Base /\ Rights(port) /\ Abstract!Init
    BY Starts, StartConforms
  <1>2. Base /\ Rights(port) /\ [Next]_vars => Base' /\ Rights(port)'
    <2> SUFFICES ASSUME Base, Rights(port), [Next]_vars PROVE Base' /\ Rights(port)'
      OBVIOUS
    <2>1. Rights(port')
      BY NextConforms DEF Conforms
    <2> QED BY <2>1, NextKeeps DEF Rights
  <1>3. Base /\ Rights(port) /\ [Next]_vars => [Abstract!Next]_(Abstract!vars)
    BY NextConforms DEF Conforms
  <1> QED BY <1>1, <1>2, <1>3, PTL DEF Spec, Implements, Abstract!Spec

=============================================================================
