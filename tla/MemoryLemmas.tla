---------------------------- MODULE MemoryLemmas ----------------------------
(***************************************************************************)
(* What the proofs about the two cluster memories share: facts about the   *)
(* locality index they keep, and about the stacks of free slots and record *)
(* indices they take from and give back to.                                *)
(***************************************************************************)
EXTENDS CpuLocality, TLAPS, FiniteSetTheorems, FunctionTheorems, SequenceTheorems

------------------------------------------------------------------------------
(* The order of the locality index.                                        *)

\* Removing slots from the index keeps the order of the others.
LEMMA RemoveKeepsOrder ==
  ASSUME BucketsOrdered, NEW S, recency' = LocalityRemove(S),
         Indexed' = Indexed \ S, \A s \in Indexed' : slotCode'[s] = slotCode[s]
  PROVE  BucketsOrdered'
<1>1. /\ recency \subseteq Indexed \X Indexed
      /\ \A p \in recency : slotCode[p[1]] = slotCode[p[2]] /\ p[1] # p[2]
      /\ \A s, t \in Indexed : (s # t /\ slotCode[s] = slotCode[t])
           => (<<s, t>> \in recency <=> <<t, s>> \notin recency)
      /\ \A p, q \in recency : p[2] = q[1] => <<p[1], q[2]>> \in recency
  BY DEF BucketsOrdered
<1>2. \A s, t : <<s, t>> \in recency' <=> <<s, t>> \in recency /\ s \notin S /\ t \notin S
  BY DEF LocalityRemove
<1>3. \A p \in recency' : p \in recency /\ p[1] \in Indexed' /\ p[2] \in Indexed' /\ p = <<p[1], p[2]>>
  BY <1>1 DEF LocalityRemove
<1>4. recency' \subseteq Indexed' \X Indexed'
  BY <1>3
<1>5. \A p \in recency' : slotCode'[p[1]] = slotCode'[p[2]] /\ p[1] # p[2]
  BY <1>1, <1>3
<1>6. \A s, t \in Indexed' : (s # t /\ slotCode'[s] = slotCode'[t])
        => (<<s, t>> \in recency' <=> <<t, s>> \notin recency')
  BY <1>1, <1>2
<1>7. \A p, q \in recency' : p[2] = q[1] => <<p[1], q[2]>> \in recency'
  BY <1>1, <1>2, <1>3
<1> QED BY <1>4, <1>5, <1>6, <1>7 DEF BucketsOrdered

\* An update puts the slots of S behind the others of their buckets, in the
\* order of their numbers, and keeps the order of the others.
LEMMA UpdateKeepsOrder ==
  ASSUME BucketsOrdered, NEW S, S \subseteq Int, NEW code, recency' = LocalityUpdate(S, code),
         Indexed' = Indexed \cup S,
         \A s \in Indexed' : slotCode'[s] = IF s \in S THEN code[s] ELSE slotCode[s]
  PROVE  BucketsOrdered'
<1>1. /\ recency \subseteq Indexed \X Indexed
      /\ \A p \in recency : slotCode[p[1]] = slotCode[p[2]] /\ p[1] # p[2]
      /\ \A s, t \in Indexed : (s # t /\ slotCode[s] = slotCode[t])
           => (<<s, t>> \in recency <=> <<t, s>> \notin recency)
      /\ \A p, q \in recency : p[2] = q[1] => <<p[1], q[2]>> \in recency
  BY DEF BucketsOrdered
<1> DEFINE Old(s, t) == <<s, t>> \in recency /\ s \notin S /\ t \notin S
           Moved(s, t) == s \in S /\ t \in Indexed \ S /\ slotCode[t] = code[s]
           Both(s, t) == s \in S /\ t \in S /\ s > t /\ code[s] = code[t]
<1>2. \A s, t : <<s, t>> \in recency' <=> Old(s, t) \/ Moved(s, t) \/ Both(s, t)
  BY DEF LocalityUpdate, LocalityRemove
<1>3. \A p \in recency' : p \in Indexed' \X Indexed' /\ p = <<p[1], p[2]>>
  BY <1>1 DEF LocalityUpdate, LocalityRemove
<1>4. \A s, t \in Indexed' : <<s, t>> \in recency' => slotCode'[s] = slotCode'[t] /\ s # t
  <2> SUFFICES ASSUME NEW s \in Indexed', NEW t \in Indexed', <<s, t>> \in recency'
               PROVE  slotCode'[s] = slotCode'[t] /\ s # t
    OBVIOUS
  <2>1. CASE Old(s, t)
    BY <1>1, <2>1
  <2>2. CASE Moved(s, t)
    BY <2>2
  <2>3. CASE Both(s, t)
    BY <2>3
  <2> QED BY <1>2, <2>1, <2>2, <2>3
<1>5. \A s, t \in Indexed' : (s # t /\ slotCode'[s] = slotCode'[t])
        => (<<s, t>> \in recency' <=> <<t, s>> \notin recency')
  <2> SUFFICES ASSUME NEW s \in Indexed', NEW t \in Indexed', s # t, slotCode'[s] = slotCode'[t]
               PROVE  <<s, t>> \in recency' <=> <<t, s>> \notin recency'
    OBVIOUS
  <2>1. CASE s \in S /\ t \in S
    BY <1>2, <2>1
  <2>2. CASE s \in S /\ t \notin S
    BY <1>2, <2>2
  <2>3. CASE s \notin S /\ t \in S
    BY <1>2, <2>3
  <2>4. CASE s \notin S /\ t \notin S
    BY <1>1, <1>2, <2>4
  <2> QED BY <2>1, <2>2, <2>3, <2>4
<1>6. \A a, m, b : <<a, m>> \in recency' /\ <<m, b>> \in recency' => <<a, b>> \in recency'
  <2> SUFFICES ASSUME NEW a, NEW m, NEW b, <<a, m>> \in recency', <<m, b>> \in recency'
               PROVE  <<a, b>> \in recency'
    OBVIOUS
  <2>1. CASE Old(a, m)
    BY <1>1, <1>2, <2>1
  <2>2. CASE Moved(a, m)
    <3>1. Old(m, b)
      BY <1>2, <2>2
    <3>2. b \in Indexed /\ slotCode[m] = slotCode[b]
      BY <1>1, <3>1
    <3> QED BY <1>2, <2>2, <3>1, <3>2
  <2>3. CASE Both(a, m)
    <3>1. CASE Moved(m, b)
      BY <1>2, <2>3, <3>1
    <3>2. CASE Both(m, b)
      BY <1>2, <2>3, <3>2
    <3> QED BY <1>2, <2>3, <3>1, <3>2
  <2> QED BY <1>2, <2>1, <2>2, <2>3
<1> HIDE DEF Old, Moved, Both
<1>7. /\ recency' \subseteq Indexed' \X Indexed'
      /\ \A p \in recency' : slotCode'[p[1]] = slotCode'[p[2]] /\ p[1] # p[2]
      /\ \A p, q \in recency' : p[2] = q[1] => <<p[1], q[2]>> \in recency'
  BY <1>3, <1>4, <1>6
<1> QED BY <1>5, <1>7 DEF BucketsOrdered

\* An update of the locality index orders nothing but slots.
LEMMA LocalityUpdateType ==
  ASSUME NEW T, recency \subseteq T \X T, DOMAIN slotCode \subseteq T,
         NEW S, S \subseteq T, NEW code
  PROVE  LocalityUpdate(S, code) \subseteq T \X T
<1>1. LocalityRemove(S) \subseteq T \X T
  BY DEF LocalityRemove
<1>2. Indexed \subseteq T
  BY DEF Indexed
<1>3. {p \in S \X (Indexed \ S) : slotCode[p[2]] = code[p[1]]} \subseteq T \X T
  BY <1>2
<1>4. {p \in S \X S : p[1] > p[2] /\ code[p[1]] = code[p[2]]} \subseteq T \X T
  OBVIOUS
<1> QED BY <1>1, <1>3, <1>4 DEF LocalityUpdate

\* A lookup proposes indexed slots only.
LEMMA CandidatesIndexed ==
  ASSUME NEW c \in Codes
  PROVE  Candidates(c) \subseteq Indexed
  BY DEF Candidates, InReach

------------------------------------------------------------------------------
(* Tables that grow, and stacks.                                           *)

\* The indices of a table are indices of every larger table.
LEMMA IndicesGrow ==
  ASSUME NEW a \in Int, NEW b \in Int, a <= b
  PROVE  0..(a - 1) \subseteq 0..(b - 1)
  OBVIOUS

\* Taking the top of a stack without repetitions leaves the others, once each.
LEMMA PopDistinct ==
  ASSUME NEW T, NEW p \in Seq(T), p # <<>>,
         \A i, j \in DOMAIN p : p[i] = p[j] => i = j
  PROVE  LET q == SubSeq(p, 1, Len(p) - 1)
         IN /\ q \in Seq(T) /\ Len(p) \in DOMAIN p /\ p[Len(p)] \in T
            /\ \A i, j \in DOMAIN q : q[i] = q[j] => i = j
            /\ \A x : (\E i \in DOMAIN q : q[i] = x)
                        <=> ((\E i \in DOMAIN p : p[i] = x) /\ x # p[Len(p)])
<1> DEFINE n == Len(p)
           q == SubSeq(p, 1, Len(p) - 1)
<1>1. n \in Nat \ {0} /\ DOMAIN p = 1..n
  BY EmptySeq, LenProperties
<1>2. q \in Seq(T) /\ DOMAIN q = 1..(n - 1) /\ \A i \in 1..(n - 1) : q[i] = p[i]
  BY <1>1, SubSeqProperties
<1>3. n \in DOMAIN p /\ p[n] \in T
  BY <1>1, ElementOfSeq
<1> HIDE DEF n, q
<1>4. \A i, j \in DOMAIN q : q[i] = q[j] => i = j
  BY <1>1, <1>2
<1>5. ASSUME NEW x
      PROVE  (\E i \in DOMAIN q : q[i] = x) <=> ((\E i \in DOMAIN p : p[i] = x) /\ x # p[n])
  <2>1. \A i \in DOMAIN p : i \in DOMAIN q \/ i = n
    BY <1>1, <1>2
  <2>2. \A i \in DOMAIN q : i \in DOMAIN p /\ i # n /\ q[i] = p[i]
    BY <1>1, <1>2
  <2>3. \A i \in DOMAIN q : p[i] # p[n]
    BY <1>3, <2>2
  <2> QED BY <2>1, <2>2, <2>3
<1> QED BY <1>2, <1>3, <1>4, <1>5 DEF n, q

\* Appending new elements, each once, to a stack without repetitions gives one
\* without repetitions of all of them: a free list that takes back what an
\* eviction released.
LEMMA AppendDistinct ==
  ASSUME NEW T, NEW S, NEW p \in Seq(T), NEW q \in Seq(T),
         \A i \in DOMAIN q : q[i] \in S,
         \A x \in S : \E i \in DOMAIN q : q[i] = x,
         \A i, j \in DOMAIN q : q[i] = q[j] => i = j,
         \A i, j \in DOMAIN p : p[i] = p[j] => i = j,
         \A i \in DOMAIN p : p[i] \notin S
  PROVE  /\ \A i, j \in DOMAIN (p \o q) : (p \o q)[i] = (p \o q)[j] => i = j
         /\ \A x : (\E i \in DOMAIN (p \o q) : (p \o q)[i] = x)
                     <=> ((\E i \in DOMAIN p : p[i] = x) \/ x \in S)
<1> DEFINE m == Len(p)
           n == Len(q)
           r == p \o q
<1>1. DOMAIN q = 1..n
  BY LenProperties
<1>2. m \in Nat /\ n \in Nat /\ DOMAIN p = 1..m
  BY <1>1, LenProperties
<1>3. /\ DOMAIN r = 1..(m + n)
      /\ \A i \in 1..(m + n) : r[i] = IF i <= m THEN p[i] ELSE q[i - m]
  <2>1. r \in Seq(T) /\ Len(r) = m + n
    BY <1>1, ConcatProperties
  <2>2. \A i \in 1..(m + n) : r[i] = IF i <= m THEN p[i] ELSE q[i - m]
    BY <1>1, ConcatProperties
  <2> QED BY <2>1, <2>2, LenProperties
<1> HIDE DEF m, n, r
<1>4. \A i \in 1..(m + n) : \/ i \in 1..m /\ r[i] = p[i] /\ r[i] \notin S
                            \/ ~(i <= m) /\ i - m \in 1..n /\ r[i] = q[i - m] /\ r[i] \in S
  <2> SUFFICES ASSUME NEW i \in 1..(m + n)
               PROVE  \/ i \in 1..m /\ r[i] = p[i] /\ r[i] \notin S
                      \/ ~(i <= m) /\ i - m \in 1..n /\ r[i] = q[i - m] /\ r[i] \in S
    OBVIOUS
  <2>1. CASE i <= m
    <3>1. i \in 1..m
      BY <1>2, <2>1
    <3>2. r[i] = p[i]
      BY <1>3, <2>1
    <3> QED BY <1>2, <3>1, <3>2
  <2>2. CASE ~(i <= m)
    <3>1. i - m \in 1..n
      BY <1>2, <2>2
    <3>2. r[i] = q[i - m]
      BY <1>3, <2>2
    <3> QED BY <1>1, <2>2, <3>1, <3>2
  <2> QED BY <2>1, <2>2
<1>5. \A i, j \in 1..(m + n) : r[i] = r[j] => i = j
  <2> SUFFICES ASSUME NEW i \in 1..(m + n), NEW j \in 1..(m + n), r[i] = r[j] PROVE i = j
    OBVIOUS
  <2>1. CASE r[i] \in S
    <3>1. i - m \in 1..n /\ j - m \in 1..n /\ q[i - m] = q[j - m]
      BY <1>4, <2>1
    <3>2. i - m = j - m
      BY <1>1, <3>1
    <3> QED BY <1>2, <3>2
  <2>2. CASE r[i] \notin S
    BY <1>2, <1>4, <2>2
  <2> QED BY <2>1, <2>2
<1>6. ASSUME NEW x
      PROVE  (\E i \in 1..(m + n) : r[i] = x) <=> ((\E i \in DOMAIN p : p[i] = x) \/ x \in S)
  <2>1. ASSUME NEW i \in 1..m
        PROVE  i \in 1..(m + n) /\ r[i] = p[i]
    BY <1>2, <1>3
  <2>2. ASSUME x \in S
        PROVE  \E i \in 1..(m + n) : r[i] = x
    <3>1. PICK k \in 1..n : q[k] = x
      BY <1>1, <2>2
    <3>2. k + m \in 1..(m + n) /\ r[k + m] = q[k]
      <4>1. k + m \in 1..(m + n) /\ ~(k + m <= m) /\ (k + m) - m = k
        BY <1>2
      <4> QED BY <1>3, <4>1
    <3> QED BY <3>1, <3>2
  <2> QED BY <1>2, <1>4, <2>1, <2>2
<1> QED BY <1>3, <1>5, <1>6 DEF r
==============================================================================
