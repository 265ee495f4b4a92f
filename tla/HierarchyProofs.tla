--------------------------- MODULE HierarchyProofs ---------------------------
(***************************************************************************)
(* The hierarchical memory for every value of the constants: the forest of *)
(* slots, the partition of the records among its leaves, what a reader can *)
(* reach, what a read of the past shows and what maintenance and eviction  *)
(* may touch; and the bridge between a router and such a memory.           *)
(***************************************************************************)
EXTENDS RouterBridge, TLAPS, FiniteSetTheorems, WellFoundedInduction

------------------------------------------------------------------------------
(* Numbers and iteration.  Induction is used through the least element of  *)
(* a set of numbers, as the provers cannot instantiate a predicate.        *)

\* A set of numbers that is not empty has a least element.
LEMMA LeastNumber ==
  ASSUME NEW T \in SUBSET Nat, T # {}
  PROVE  \E n \in T : \A m \in T : ~(m < n)
<1> DEFINE R == {ss \in Nat \X Nat : ss[1] < ss[2]}
<1>1. IsWellFoundedOn(R, Nat)
  BY NatLessThanWellFounded, Zenon DEF OpToRel
<1>2. \A p : p \in R <=> p \in Nat \X Nat /\ p[1] < p[2]
  OBVIOUS
<1> HIDE DEF R
<1>3. \E x \in T : \A y \in T : ~(<<y, x>> \in R)
  BY <1>1, WFMin, Zenon
<1> QED BY <1>2, <1>3

\* A set of numbers with zero and the successor of each of its elements has them all.
LEMMA AllNumbers ==
  ASSUME NEW S \in SUBSET Nat, 0 \in S, \A n \in S : n + 1 \in S
  PROVE  S = Nat
<1> SUFFICES ASSUME S # Nat PROVE FALSE
  OBVIOUS
<1> DEFINE T == Nat \ S
<1>1. PICK n \in T : \A m \in T : ~(m < n)
  BY LeastNumber
<1>2. n - 1 \in Nat /\ n - 1 \notin T
  BY <1>1
<1> QED BY <1>1, <1>2

\* The first N rounds of applying step.
IsIteration(f, N, start, step) == f[0] = start /\ \A n \in 1..N : f[n] = step[f[n - 1]]

\* The function that is defined by recursion up to N exists.
LEMMA Iteration ==
  ASSUME NEW N \in Nat, NEW A, NEW start \in A, NEW step \in [A -> A]
  PROVE  \E f \in [0..N -> A] : IsIteration(f, N, start, step)
<1> DEFINE S == {n \in Nat : \E f \in [0..n -> A] :
                   f[0] = start /\ \A k \in 1..n : f[k] = step[f[k - 1]]}
<1>1. 0 \in S
  <2> DEFINE f == [k \in 0..0 |-> start]
  <2>1. f \in [0..0 -> A] /\ f[0] = start /\ \A k \in 1..0 : f[k] = step[f[k - 1]]
    OBVIOUS
  <2> QED BY <2>1
<1>2. ASSUME NEW n \in S PROVE n + 1 \in S
  <2>1. PICK f \in [0..n -> A] : f[0] = start /\ \A k \in 1..n : f[k] = step[f[k - 1]]
    OBVIOUS
  <2> DEFINE g == [k \in 0..(n + 1) |-> IF k = n + 1 THEN step[f[n]] ELSE f[k]]
  <2>2. n \in Nat
    OBVIOUS
  <2>3. g \in [0..(n + 1) -> A]
    BY <2>1, <2>2
  <2>4. g[0] = start
    BY <2>1, <2>2
  <2>5. ASSUME NEW k \in 1..(n + 1) PROVE g[k] = step[g[k - 1]]
    <3>1. CASE k = n + 1
      BY <3>1, <2>2
    <3>2. CASE k # n + 1
      <4>1. k \in 1..n /\ k - 1 \in 0..n
        BY <3>2, <2>2
      <4> QED BY <2>1, <2>2, <4>1
    <3> QED BY <3>1, <3>2
  <2> HIDE DEF g
  <2>6. \E h \in [0..(n + 1) -> A] : h[0] = start /\ \A k \in 1..(n + 1) : h[k] = step[h[k - 1]]
    BY <2>3, <2>4, <2>5
  <2> QED BY <2>2, <2>6
<1>3. S = Nat
  BY <1>1, <1>2, AllNumbers
<1> QED BY <1>3 DEF IsIteration

\* A step only adds, and one that adds nothing of P ends the growth.
Driven(step, U, P) ==
  \A X \in SUBSET U :
    /\ X \subseteq step[X]
    /\ step[X] \cap P = X \cap P => step[step[X]] = step[X]

\* Growing sets whose growth within P drives all of it: after N steps nothing grows
\* any more, or each step has added to what they have of P.
LEMMA GrowthEnds ==
  ASSUME NEW U, NEW P, IsFiniteSet(P), NEW N \in Nat,
         NEW start \in SUBSET U, NEW step \in [SUBSET U -> SUBSET U],
         Driven(step, U, P), NEW f, IsIteration(f, N, start, step)
  PROVE  /\ \A n \in 0..N : f[n] \in SUBSET U
         /\ \A n \in 0..N : start \subseteq f[n] /\ f[n] \subseteq f[N]
         /\ \/ step[f[N]] = f[N]
            \/ step[start] # start /\ Cardinality(f[N] \cap P) >= Cardinality(start \cap P) + N
<1> DEFINE Grown(n) == \/ step[f[n]] = f[n]
                       \/ /\ step[start] # start
                          /\ Cardinality(f[n] \cap P) >= Cardinality(start \cap P) + n
           S == {n \in Nat : n <= N => f[n] \in SUBSET U /\ start \subseteq f[n] /\ Grown(n)}
<1> USE DEF Driven, IsIteration
<1>1. \A X : IsFiniteSet(X \cap P) /\ Cardinality(X \cap P) \in Nat
  BY FS_Subset, FS_CardinalityType
<1>2. 0 \in S
  <2> DEFINE c == Cardinality(start \cap P)
  <2>1. c \in Nat
    BY <1>1, Zenon
  <2> HIDE DEF c
  <2>2. c >= c + 0
    BY <2>1
  <2>3. f[0] \in SUBSET U /\ start \subseteq f[0] /\ Grown(0)
    BY <2>2 DEF c
  <2> HIDE DEF Grown
  <2> QED BY <2>3
<1>3. ASSUME NEW n \in S, n + 1 <= N PROVE f[n + 1] \in SUBSET U /\ start \subseteq f[n + 1] /\ Grown(n + 1)
  <2>1. n \in Nat /\ f[n] \in SUBSET U /\ start \subseteq f[n] /\ Grown(n)
    BY <1>3
  <2>2. f[n + 1] = step[f[n]]
    <3>1. n + 1 \in 1..N /\ (n + 1) - 1 = n
      BY <1>3, <2>1
    <3> QED BY <3>1
  <2>3. f[n + 1] \in SUBSET U /\ f[n] \subseteq f[n + 1]
    BY <2>1, <2>2
  <2>4. CASE step[f[n]] \cap P = f[n] \cap P
    <3>1. step[f[n + 1]] = f[n + 1]
      BY <2>1, <2>2, <2>4
    <3> QED BY <2>1, <2>3, <3>1
  <2>5. CASE step[f[n]] \cap P # f[n] \cap P
    <3> DEFINE a == f[n] \cap P
               b == f[n + 1] \cap P
    <3>1. a \subseteq b /\ a # b /\ step[f[n]] # f[n]
      BY <2>2, <2>3, <2>5
    <3>2. IsFiniteSet(b) /\ Cardinality(b) \in Nat /\ Cardinality(a) \in Nat /\ Cardinality(start \cap P) \in Nat
      BY <1>1
    <3>3. step[start] # start /\ Cardinality(a) >= Cardinality(start \cap P) + n
      BY <2>1, <3>1
    <3> HIDE DEF a, b
    <3>4. Cardinality(a) <= Cardinality(b) /\ Cardinality(a) # Cardinality(b)
      BY <3>1, <3>2, FS_Subset
    <3>5. Cardinality(b) >= Cardinality(start \cap P) + (n + 1)
      BY <3>2, <3>3, <3>4, <2>1
    <3>6. Grown(n + 1)
      BY <3>3, <3>5 DEF b
    <3> QED BY <2>1, <2>3, <3>6
  <2> QED BY <2>4, <2>5
<1>4. ASSUME NEW n \in S PROVE n + 1 \in S
  <2>1. n \in Nat
    OBVIOUS
  <2>2. n + 1 <= N => n \in S
    OBVIOUS
  <2> HIDE DEF S, Grown
  <2>3. n + 1 <= N => f[n + 1] \in SUBSET U /\ start \subseteq f[n + 1] /\ Grown(n + 1)
    BY <1>3, <2>2
  <2> QED BY <2>1, <2>3 DEF S
<1>5. S = Nat
  <2> HIDE DEF S
  <2>1. S \in SUBSET Nat
    BY DEF S
  <2> QED BY <2>1, <1>2, <1>4, AllNumbers
<1>6. ASSUME NEW n \in 0..N PROVE f[n] \in SUBSET U /\ start \subseteq f[n] /\ Grown(n)
  <2>1. n \in S /\ n <= N
    <3> HIDE DEF S
    <3> QED BY <1>5
  <2> HIDE DEF Grown
  <2> QED BY <2>1
<1>7. ASSUME NEW n \in 0..N PROVE f[n] \subseteq f[N]
  <2> DEFINE T == {m \in Nat : m <= N - n => f[n] \subseteq f[n + m]}
  <2>1. 0 \in T
    BY <1>7
  <2>2. ASSUME NEW m \in T PROVE m + 1 \in T
    <3>1. CASE m + 1 <= N - n
      <4>1. n + (m + 1) \in 1..N /\ (n + (m + 1)) - 1 = n + m /\ n + m \in 0..N /\ m <= N - n
        BY <3>1, <1>7
      <4>2. f[n] \subseteq f[n + m]
        BY <4>1
      <4>3. f[n + (m + 1)] = step[f[n + m]]
        BY <4>1
      <4>4. f[n + m] \in SUBSET U
        BY <4>1, <1>6
      <4>5. f[n] \subseteq f[n + (m + 1)]
        BY <4>2, <4>3, <4>4
      <4> QED BY <4>5
    <3>2. CASE ~(m + 1 <= N - n)
      BY <3>2
    <3> QED BY <3>1, <3>2
  <2>3. T = Nat
    <3> HIDE DEF T
    <3>1. T \in SUBSET Nat
      BY DEF T
    <3> QED BY <3>1, <2>1, <2>2, AllNumbers
  <2>4. N - n \in T /\ n + (N - n) = N
    BY <2>3, <1>7
  <2> QED BY <2>4
<1>8. Grown(N)
  <2> HIDE DEF Grown
  <2> QED BY <1>6
<1> QED BY <1>6, <1>7, <1>8

------------------------------------------------------------------------------
(* The parts of the invariant, of any leaves L, parents P and records R.   *)

\* The types of leaves, parents and records when n records and k slots were given out.
LeafType(n, k) ==
  [group : Groups, members : SUBSET (1..n), parent : 0..k, cooldown : Nat,
   pending : 0..Patience, basis : SUBSET (1..n), routed : SUBSET (1..n)]

ParentType(k) == [group : Groups, parent : 0..k, children : SUBSET (1..k)]

RecordType(n, now) ==
  [group : Groups, time : 0..now, supersededBy : 0..n, recalls : 0..MinRecalls,
   block : Blocks \cup {NoBlock}]

\* Everything has its type when n records and k slots were given out until now.
Typed(L, P, R, n, k, now) ==
  /\ n \in Nat /\ k \in Nat /\ now \in Nat
  /\ DOMAIN L \subseteq 1..k /\ \A s \in DOMAIN L : L[s] \in LeafType(n, k)
  /\ DOMAIN P \subseteq 1..k /\ \A s \in DOMAIN P : P[s] \in ParentType(k)
  /\ DOMAIN R \subseteq 1..n /\ \A r \in DOMAIN R : R[r] \in RecordType(n, now)

\* c is a slot below s.
Below(L, P, c, s) ==
  \/ c \in DOMAIN L /\ L[c].parent = s /\ L[c].group = P[s].group
  \/ c \in DOMAIN P /\ P[c].parent = s /\ P[c].group = P[s].group

\* The links between slots go both ways; ids grow from a parent to its children.
Linked(L, P) ==
  /\ DOMAIN L \cap DOMAIN P = {}
  /\ \A s \in DOMAIN P : P[s].children # {} /\ \A c \in P[s].children : Below(L, P, c, s)
  /\ \A s \in DOMAIN L :
       /\ L[s].parent < s
       /\ L[s].parent # None => L[s].parent \in DOMAIN P /\ s \in P[L[s].parent].children
  /\ \A s \in DOMAIN P :
       /\ P[s].parent < s
       /\ P[s].parent # None => P[s].parent \in DOMAIN P /\ s \in P[P[s].parent].children

\* Each record is in one leaf, of its group, and leaves list stored records only.
Placed(L, R) ==
  /\ \A r \in DOMAIN R :
       \E s \in DOMAIN L :
         /\ r \in L[s].members
         /\ L[s].group = R[r].group
         /\ \A q \in DOMAIN L \ {s} : r \notin L[q].members
  /\ \A s \in DOMAIN L : L[s].members \subseteq DOMAIN R

NoneEmpty(L) == \A s \in DOMAIN L : L[s].members # {}

\* The router index of a leaf is over all its members with a key.
Routes(L, R) ==
  \A s \in DOMAIN L : L[s].routed = {r \in L[s].members : R[r].block # NoBlock}

\* The statistics of a leaf are over all its members.
Fresh(L, R) == Routes(L, R) /\ \A s \in DOMAIN L : L[s].basis = L[s].members

\* The router index is up to date, the statistics are unless a read left them in the past.
UpToDate(L, R, past) == Routes(L, R) /\ (~past => Fresh(L, R))

\* All of it, but that a leaf may be empty.
Sound(L, P, R, n, k, now) == Typed(L, P, R, n, k, now) /\ Linked(L, P) /\ Placed(L, R)

Good(L, P, R, n, k, now) == Sound(L, P, R, n, k, now) /\ NoneEmpty(L)

\* An entry of a dictionary after an update and after a removal.
LEMMA Entries ==
  ASSUME NEW f, NEW j, NEW v, NEW S
  PROVE  /\ DOMAIN With(f, j, v) = DOMAIN f \cup {j} /\ With(f, j, v)[j] = v
         /\ \A x \in DOMAIN f : x # j => With(f, j, v)[x] = f[x]
         /\ DOMAIN Without(f, S) = DOMAIN f \ S
         /\ \A x \in DOMAIN f : x \notin S => Without(f, S)[x] = f[x]
  BY DEF With, Without

------------------------------------------------------------------------------
(* Refreshing and pruning.                                                 *)

\* A refreshed leaf differs in three fields.
LEMMA Refreshed ==
  ASSUME NEW n, NEW k, NEW L, \A s \in DOMAIN L : L[s] \in LeafType(n, k), NEW R, NEW t,
         NEW F, F = RefreshedLeaves(L, R, t)
  PROVE  /\ DOMAIN F = DOMAIN L
         /\ \A s \in DOMAIN L :
              /\ F[s] \in LeafType(n, k)
              /\ F[s].group = L[s].group
              /\ F[s].parent = L[s].parent
              /\ F[s].members = L[s].members \cap DOMAIN R
              /\ F[s].basis = {r \in F[s].members : R[r].time <= t}
              /\ F[s].routed = {r \in F[s].members : R[r].block # NoBlock}
<1>1. DOMAIN F = DOMAIN L
  BY DEF RefreshedLeaves
<1>2. ASSUME NEW s \in DOMAIN L
      PROVE  /\ F[s] \in LeafType(n, k)
             /\ F[s].group = L[s].group
             /\ F[s].parent = L[s].parent
             /\ F[s].members = L[s].members \cap DOMAIN R
             /\ F[s].basis = {r \in F[s].members : R[r].time <= t}
             /\ F[s].routed = {r \in F[s].members : R[r].block # NoBlock}
  <2> DEFINE v == L[s]
             m == v.members \cap DOMAIN R
             b == {r \in m : R[r].time <= t}
             d == {r \in m : R[r].block # NoBlock}
  <2>1. v \in LeafType(n, k)
    OBVIOUS
  <2>2. F[s] = [v EXCEPT !.members = m, !.basis = b, !.routed = d]
    BY DEF RefreshedLeaves
  <2> HIDE DEF v
  <2>3. m \in SUBSET (1..n) /\ b \in SUBSET (1..n) /\ d \in SUBSET (1..n)
    BY <2>1 DEF LeafType
  <2> HIDE DEF b, d, m
  <2>4. /\ F[s].members = m /\ F[s].basis = b /\ F[s].routed = d
        /\ F[s].group = v.group /\ F[s].parent = v.parent
    BY <2>1, <2>2 DEF LeafType
  <2>4a. F[s] \in LeafType(n, k)
    BY <2>1, <2>2, <2>3 DEF LeafType
  <2>5. F[s].basis = {r \in F[s].members : R[r].time <= t}
    BY <2>4 DEF b
  <2>6. F[s].routed = {r \in F[s].members : R[r].block # NoBlock}
    BY <2>4 DEF d
  <2>7. F[s].members = L[s].members \cap DOMAIN R
    BY <2>4 DEF m, v
  <2>8. F[s].group = L[s].group /\ F[s].parent = L[s].parent
    BY <2>4 DEF v
  <2> QED BY <2>4a, <2>5, <2>6, <2>7, <2>8
<1> QED BY <1>1, <1>2

\* Refreshing keeps every part of the invariant, and brings the statistics up to date
\* when all records were written until then.
LEMMA RefreshKeeps ==
  ASSUME NEW L, NEW P, NEW R, NEW n, NEW k, NEW now, Good(L, P, R, n, k, now), NEW t,
         NEW F, F = RefreshedLeaves(L, R, t)
  PROVE  /\ Good(F, P, R, n, k, now)
         /\ DOMAIN F = DOMAIN L
         /\ \A s \in DOMAIN L : F[s].members = L[s].members /\ F[s].group = L[s].group
                                /\ F[s].parent = L[s].parent
         /\ Routes(F, R)
         /\ t = now => Fresh(F, R)
<1>1. /\ DOMAIN F = DOMAIN L
      /\ \A s \in DOMAIN L :
           /\ F[s] \in LeafType(n, k)
           /\ F[s].group = L[s].group
           /\ F[s].parent = L[s].parent
           /\ F[s].members = L[s].members \cap DOMAIN R
           /\ F[s].basis = {r \in F[s].members : R[r].time <= t}
           /\ F[s].routed = {r \in F[s].members : R[r].block # NoBlock}
  BY Refreshed DEF Good, Sound, Typed
<1>2. ASSUME NEW s \in DOMAIN L
      PROVE  F[s].members = L[s].members /\ F[s].members \subseteq DOMAIN R
  <2>1. L[s].members \subseteq DOMAIN R
    BY DEF Good, Sound, Placed
  <2>2. L[s].members \cap DOMAIN R = L[s].members
    BY <2>1
  <2> QED BY <1>1, <2>1, <2>2
<1>3. Typed(F, P, R, n, k, now)
  BY <1>1 DEF Good, Sound, Typed
<1>4. Linked(F, P)
  BY <1>1 DEF Good, Sound, Linked, Below
<1>5. Placed(F, R) /\ NoneEmpty(F)
  BY <1>1, <1>2 DEF Good, Sound, Placed, NoneEmpty
<1>5a. Routes(F, R)
  BY <1>1 DEF Routes
<1>6. ASSUME t = now PROVE Fresh(F, R)
  <2>1. \A r \in DOMAIN R : R[r].time <= t
    BY <1>6 DEF Good, Sound, Typed, RecordType
  <2>2. ASSUME NEW s \in DOMAIN L PROVE F[s].basis = F[s].members
    <3> DEFINE m == F[s].members
    <3>1. \A r \in m : R[r].time <= t
      BY <1>2, <2>1
    <3>2. F[s].basis = {r \in m : R[r].time <= t}
      BY <1>1
    <3> HIDE DEF m
    <3>3. F[s].basis = m
      BY <3>1, <3>2
    <3> QED BY <3>3 DEF m
  <2> QED BY <1>1, <1>5a, <2>2 DEF Fresh
<1> QED BY <1>1, <1>2, <1>3, <1>4, <1>5, <1>5a, <1>6 DEF Good, Sound

\* A child that is no slot would be dropped, and there is none.
LEMMA RefreshedParentsKeep ==
  ASSUME NEW L, NEW P, NEW R, NEW n, NEW k, NEW now, Good(L, P, R, n, k, now),
         NEW F, F = RefreshedParents(P, L)
  PROVE  Good(L, F, R, n, k, now)
<1>1. DOMAIN F = DOMAIN P
  BY DEF RefreshedParents
<1>2. ASSUME NEW s \in DOMAIN P PROVE F[s] = P[s]
  <2>1. F[s] = [P[s] EXCEPT !.children = @ \cap (DOMAIN L \cup DOMAIN P)]
    BY DEF RefreshedParents
  <2>2. P[s] \in ParentType(k) /\ P[s].children \subseteq DOMAIN L \cup DOMAIN P
    BY DEF Good, Sound, Typed, Linked, Below
  <2>3. P[s].children \cap (DOMAIN L \cup DOMAIN P) = P[s].children
    BY <2>2
  <2> QED BY <2>1, <2>2, <2>3 DEF ParentType
<1>3. Typed(L, F, R, n, k, now)
  BY <1>1, <1>2 DEF Good, Sound, Typed
<1>4. Linked(L, F)
  BY <1>1, <1>2 DEF Good, Sound, Linked, Below
<1> QED BY <1>3, <1>4 DEF Good, Sound

\* The slots that pruning keeps: the leaves with members and the parents above them,
\* each of which has a child that is kept.
LEMMA OccupiedSlots ==
  ASSUME NEW L, NEW P, IsFiniteSet(DOMAIN P)
  PROVE  /\ \A s \in DOMAIN L : L[s].members # {} => s \in Occupied(L, P)
         /\ \A s \in Occupied(L, P) :
              \/ s \in DOMAIN L /\ L[s].members # {}
              \/ s \in DOMAIN P /\ P[s].children \cap Occupied(L, P) # {}
         /\ \A s \in DOMAIN P : P[s].children \cap Occupied(L, P) # {} => s \in Occupied(L, P)
<1> DEFINE D == DOMAIN P
           N == Cardinality(D)
           U == DOMAIN L \cup D
           start == {s \in DOMAIN L : L[s].members # {}}
           step == [X \in SUBSET U |-> X \cup {s \in D : P[s].children \cap X # {}}]
           level[n \in 0..N] ==
             IF n = 0 THEN {s \in DOMAIN L : L[s].members # {}}
             ELSE level[n - 1] \cup {s \in DOMAIN P : P[s].children \cap level[n - 1] # {}}
<1>1. N \in Nat
  BY FS_CardinalityType
<1>2. Occupied(L, P) = level[N]
  BY DEF Occupied
<1>3. start \in SUBSET U /\ step \in [SUBSET U -> SUBSET U]
  OBVIOUS
<1>4. PICK f \in [0..N -> SUBSET U] : IsIteration(f, N, start, step)
  <2> HIDE DEF step, start, N, U
  <2> QED BY <1>1, <1>3, Iteration
<1>7. Driven(step, U, D)
  <2> SUFFICES ASSUME NEW X \in SUBSET U
               PROVE  /\ X \subseteq step[X]
                      /\ step[X] \cap D = X \cap D => step[X] = X
    BY DEF Driven
  <2> QED OBVIOUS
<1>8. /\ \A n \in 0..N : f[n] \in SUBSET U
      /\ \A n \in 0..N : start \subseteq f[n] /\ f[n] \subseteq f[N]
      /\ \/ step[f[N]] = f[N]
         \/ step[start] # start /\ Cardinality(f[N] \cap D) >= Cardinality(start \cap D) + N
  <2>1. IsFiniteSet(D)
    OBVIOUS
  <2> HIDE DEF step, start, N, U, D
  <2> QED BY <2>1, <1>1, <1>3, <1>4, <1>7, GrowthEnds
<1>9. step[f[N]] = f[N]
  <2>1. CASE Cardinality(f[N] \cap D) >= Cardinality(start \cap D) + N
    <3>1. Cardinality(start \cap D) \in Nat /\ Cardinality(f[N] \cap D) \in Nat
      BY FS_Subset, FS_CardinalityType
    <3>2. Cardinality(f[N] \cap D) <= N /\ (Cardinality(f[N] \cap D) = N => f[N] \cap D = D)
      BY FS_Subset
    <3>3. D \subseteq f[N]
      <4> HIDE DEF D, N, start
      <4>1. Cardinality(f[N] \cap D) = N
        BY <1>1, <2>1, <3>1, <3>2
      <4> QED BY <4>1, <3>2
    <3>4. f[N] \in SUBSET U
      BY <1>1, <1>8
    <3> QED BY <3>3, <3>4
  <2> QED BY <1>8, <2>1
<1>10. f = [n \in 0..N |-> IF n = 0 THEN {s \in DOMAIN L : L[s].members # {}}
                          ELSE f[n - 1] \cup {s \in DOMAIN P : P[s].children \cap f[n - 1] # {}}]
  <2>1. \A n \in 0..N : f[n] = IF n = 0 THEN {s \in DOMAIN L : L[s].members # {}}
                               ELSE f[n - 1] \cup {s \in DOMAIN P : P[s].children \cap f[n - 1] # {}}
    <3> SUFFICES ASSUME NEW n \in 0..N
                 PROVE  f[n] = IF n = 0 THEN {s \in DOMAIN L : L[s].members # {}}
                               ELSE f[n - 1] \cup {s \in DOMAIN P : P[s].children \cap f[n - 1] # {}}
      OBVIOUS
    <3>1. CASE n = 0
      BY <3>1, <1>4 DEF IsIteration
    <3>2. CASE n # 0
      <4> HIDE DEF N
      <4>1. n \in 1..N /\ n - 1 \in 0..N
        BY <3>2, <1>1
      <4>2. f[n] = step[f[n - 1]] /\ f[n - 1] \in SUBSET U
        BY <4>1, <1>4, <1>8 DEF IsIteration
      <4>3. step[f[n - 1]] = f[n - 1] \cup {s \in D : P[s].children \cap f[n - 1] # {}}
        BY <4>2
      <4> QED BY <3>2, <4>2, <4>3
    <3> QED BY <3>1, <3>2
  <2>2. f = [n \in 0..N |-> f[n]]
    <3> HIDE DEF step, start
    <3> QED BY <1>4
  <2> HIDE DEF N
  <2> QED BY <2>1, <2>2
<1>11. level = [n \in 0..N |->
                  IF n = 0 THEN {s \in DOMAIN L : L[s].members # {}}
                  ELSE level[n - 1] \cup {s \in DOMAIN P : P[s].children \cap level[n - 1] # {}}]
  <2>1. \E g : g = [n \in 0..N |-> IF n = 0 THEN {s \in DOMAIN L : L[s].members # {}}
                         ELSE g[n - 1] \cup {s \in DOMAIN P : P[s].children \cap g[n - 1] # {}}]
    BY <1>10, Zenon
  <2> HIDE DEF N, D
  <2> QED BY <2>1, Zenon DEF level
<1>12. level[N] = f[N]
  <2> DEFINE Next1(X) == X \cup {s \in DOMAIN P : P[s].children \cap X # {}}
             S == {n \in Nat : n <= N => level[n] = f[n]}
  <2>1. level = [n \in 0..N |-> IF n = 0 THEN start ELSE Next1(level[n - 1])]
    BY <1>11
  <2>2. f = [n \in 0..N |-> IF n = 0 THEN start ELSE Next1(f[n - 1])]
    BY <1>10
  <2> HIDE DEF N, level, start, Next1
  <2>3. level[0] = start /\ f[0] = start
    BY <1>1, <2>1, <2>2
  <2>4. ASSUME NEW n \in S PROVE n + 1 \in S
    <3>1. CASE n + 1 <= N
      <4>1. n \in Nat /\ n + 1 \in 0..N /\ n + 1 # 0 /\ (n + 1) - 1 = n /\ level[n] = f[n]
        BY <3>1, <1>1
      <4>2. level[n + 1] = Next1(level[n])
        BY <4>1, <2>1
      <4>3. f[n + 1] = Next1(f[n])
        BY <4>1, <2>2
      <4> QED BY <4>1, <4>2, <4>3
    <3>2. CASE ~(n + 1 <= N)
      BY <3>2
    <3> QED BY <3>1, <3>2
  <2>5. 0 \in S /\ S \in SUBSET Nat
    BY <2>3
  <2>6. S = Nat
    <3> HIDE DEF S
    <3> QED BY <2>5, <2>4, AllNumbers
  <2> QED BY <1>1, <2>6
<1> DEFINE occupied == f[N]
<1>13. Occupied(L, P) = occupied
  BY <1>2, <1>12
<1>14. occupied \in SUBSET U /\ start \subseteq occupied /\ step[occupied] = occupied
  <2> HIDE DEF N, start, step, U
  <2>1. N \in 0..N
    BY <1>1
  <2> QED BY <2>1, <1>8, <1>9
<1>15. \A s \in D : P[s].children \cap occupied # {} => s \in occupied
  <2> HIDE DEF occupied
  <2> QED BY <1>14
<1>16. ASSUME NEW s \in occupied
       PROVE  s \in start \/ (s \in D /\ P[s].children \cap occupied # {})
  <2> DEFINE T == {n \in 0..N : s \in f[n]}
  <2>1. PICK n \in T : \A m \in T : ~(m < n)
    <3>1. T \in SUBSET Nat /\ N \in T
      BY <1>1, <1>16
    <3> HIDE DEF T
    <3> QED BY <3>1, LeastNumber
  <2>2. CASE n = 0
    BY <2>1, <2>2, <1>4 DEF IsIteration
  <2>3. CASE n # 0
    <3> HIDE DEF N
    <3>1. n \in 1..N /\ n - 1 \in 0..N /\ n - 1 < n
      BY <2>1, <2>3, <1>1
    <3>2. s \notin f[n - 1] /\ s \in f[n]
      BY <2>1, <3>1
    <3>3. f[n] = step[f[n - 1]] /\ f[n - 1] \in SUBSET U /\ f[n - 1] \subseteq occupied
      BY <3>1, <1>4, <1>8 DEF IsIteration
    <3>4. s \in D /\ P[s].children \cap f[n - 1] # {}
      BY <3>2, <3>3
    <3> QED BY <3>3, <3>4
  <2> QED BY <2>2, <2>3
<1> HIDE DEF occupied
<1> QED BY <1>13, <1>14, <1>15, <1>16

\* Pruning drops the empty leaves and what had nothing else below it.
LEMMA PruneKeeps ==
  ASSUME NEW L, NEW P, NEW R, NEW n, NEW k, NEW now, Sound(L, P, R, n, k, now),
         NEW F, F = PrunedLeaves(L, P), NEW G, G = PrunedParents(L, P)
  PROVE  /\ Good(F, G, R, n, k, now)
         /\ DOMAIN F = {s \in DOMAIN L : L[s].members # {}}
         /\ \A s \in DOMAIN F : F[s] = L[s]
<1> DEFINE kept == Occupied(L, P)
<1>1. IsFiniteSet(DOMAIN P)
  <2>1. k \in Nat /\ DOMAIN P \subseteq 1..k
    BY DEF Sound, Typed
  <2> QED BY <2>1, FS_Interval, FS_Subset
<1>2. /\ \A s \in DOMAIN L : L[s].members # {} => s \in kept
      /\ \A s \in kept : \/ s \in DOMAIN L /\ L[s].members # {}
                         \/ s \in DOMAIN P /\ P[s].children \cap kept # {}
      /\ \A s \in DOMAIN P : P[s].children \cap kept # {} => s \in kept
  BY <1>1, OccupiedSlots
<1>3. DOMAIN F = DOMAIN L \cap kept /\ \A s \in DOMAIN F : F[s] = L[s]
  BY DEF PrunedLeaves, Without
<1>4. /\ DOMAIN G = DOMAIN P \cap kept
      /\ \A s \in DOMAIN G : G[s] = [P[s] EXCEPT !.children = @ \cap kept]
  BY DEF PrunedParents, Without
<1> HIDE DEF kept
<1>5. ASSUME NEW s \in DOMAIN G
      PROVE  /\ G[s].group = P[s].group /\ G[s].parent = P[s].parent
             /\ G[s].children = P[s].children \cap kept
             /\ G[s] \in ParentType(k)
  <2> DEFINE v == P[s]
             c == v.children \cap kept
  <2>1. v \in ParentType(k) /\ G[s] = [v EXCEPT !.children = c]
    BY <1>4 DEF Sound, Typed
  <2> HIDE DEF v
  <2>2. c \in SUBSET (1..k)
    BY <2>1 DEF ParentType
  <2> HIDE DEF c
  <2>3. G[s].group = v.group /\ G[s].parent = v.parent /\ G[s].children = c
    BY <2>1 DEF ParentType
  <2>4. G[s] \in ParentType(k)
    BY <2>1, <2>2 DEF ParentType
  <2> QED BY <2>3, <2>4 DEF v, c
<1>6. DOMAIN L \cap DOMAIN P = {}
  BY DEF Sound, Linked
<1>7. DOMAIN F = {s \in DOMAIN L : L[s].members # {}}
  BY <1>2, <1>3, <1>6
<1>8. Typed(F, G, R, n, k, now)
  BY <1>3, <1>4, <1>5 DEF Sound, Typed
<1>9. Linked(F, G)
  <2>1. ASSUME NEW s \in DOMAIN G
        PROVE  G[s].children # {} /\ \A c \in G[s].children : Below(F, G, c, s)
    <3>1. s \in DOMAIN P /\ s \notin DOMAIN L /\ s \in kept
      BY <1>4, <1>6
    <3>2. G[s].children # {}
      BY <3>1, <1>2, <1>5
    <3>3. ASSUME NEW c \in G[s].children PROVE Below(F, G, c, s)
      <4>1. c \in kept /\ Below(L, P, c, s)
        BY <1>5, <3>1 DEF Sound, Linked
      <4>2. c \in DOMAIN L => c \in DOMAIN F /\ F[c] = L[c]
        BY <4>1, <1>3
      <4>3. c \in DOMAIN P => c \in DOMAIN G /\ G[c].parent = P[c].parent /\ G[c].group = P[c].group
        BY <4>1, <1>4, <1>5
      <4> QED BY <4>1, <4>2, <4>3, <1>5 DEF Below
    <3> QED BY <3>2, <3>3
  <2>2. ASSUME NEW s, s \in kept, NEW p \in DOMAIN P, s \in P[p].children
        PROVE  p \in DOMAIN G /\ s \in G[p].children
    <3>1. p \in kept
      BY <2>2, <1>2
    <3> QED BY <2>2, <3>1, <1>4, <1>5
  <2>3. ASSUME NEW s \in DOMAIN F
        PROVE  /\ F[s].parent < s
               /\ F[s].parent # None => F[s].parent \in DOMAIN G /\ s \in G[F[s].parent].children
    <3>1. s \in DOMAIN L /\ F[s] = L[s] /\ s \in kept
      BY <1>3
    <3>2. /\ L[s].parent < s
          /\ L[s].parent # None => L[s].parent \in DOMAIN P /\ s \in P[L[s].parent].children
      BY <3>1 DEF Sound, Linked
    <3> QED BY <3>1, <3>2, <2>2
  <2>4. ASSUME NEW s \in DOMAIN G
        PROVE  /\ G[s].parent < s
               /\ G[s].parent # None => G[s].parent \in DOMAIN G /\ s \in G[G[s].parent].children
    <3>1. s \in DOMAIN P /\ G[s].parent = P[s].parent /\ s \in kept
      BY <1>4, <1>5
    <3>2. /\ P[s].parent < s
          /\ P[s].parent # None => P[s].parent \in DOMAIN P /\ s \in P[P[s].parent].children
      BY <3>1 DEF Sound, Linked
    <3> QED BY <3>1, <3>2, <2>2
  <2> QED BY <1>3, <1>4, <1>6, <2>1, <2>3, <2>4 DEF Linked
<1>10. Placed(F, R) /\ NoneEmpty(F)
  <2>1. NoneEmpty(F)
    BY <1>3, <1>7 DEF NoneEmpty
  <2>2. ASSUME NEW r \in DOMAIN R
        PROVE  \E s \in DOMAIN F :
                 /\ r \in F[s].members
                 /\ F[s].group = R[r].group
                 /\ \A q \in DOMAIN F \ {s} : r \notin F[q].members
    <3>1. PICK s \in DOMAIN L : /\ r \in L[s].members
                                /\ L[s].group = R[r].group
                                /\ \A q \in DOMAIN L \ {s} : r \notin L[q].members
      BY DEF Sound, Placed
    <3>2. s \in DOMAIN F
      BY <3>1, <1>7
    <3> QED BY <3>1, <3>2, <1>3
  <2>3. \A s \in DOMAIN F : F[s].members \subseteq DOMAIN R
    BY <1>3 DEF Sound, Placed
  <2> QED BY <2>1, <2>2, <2>3 DEF Placed
<1> QED BY <1>3, <1>7, <1>8, <1>9, <1>10 DEF Good, Sound

------------------------------------------------------------------------------
(* Routing.                                                                *)

\* What routing reaches from the roots of a group: every root of the group, and with
\* a parent all its children.
LEMMA DescendReaches ==
  ASSUME NEW g, NEW k \in Nat, DOMAIN parents \subseteq 1..k, Linked(leaves, parents)
  PROVE  /\ \A s \in DOMAIN leaves : leaves[s].parent = None /\ leaves[s].group = g => s \in Descend(g)
         /\ \A s \in DOMAIN parents : parents[s].parent = None /\ parents[s].group = g => s \in Descend(g)
         /\ \A s \in DOMAIN parents : s \in Descend(g) => parents[s].children \subseteq Descend(g)
<1> DEFINE D == DOMAIN parents
           N == Cardinality(D)
           U == DOMAIN leaves \cup D
           start == {s \in DOMAIN leaves : leaves[s].parent = None /\ leaves[s].group = g} \cup
                    {s \in DOMAIN parents : parents[s].parent = None /\ parents[s].group = g}
           below(X) == UNION {parents[s].children : s \in X \cap DOMAIN parents}
           step == [X \in SUBSET U |-> X \cup below(X)]
           level[n \in 0..N] ==
             IF n = 0 THEN start
             ELSE level[n - 1] \cup UNION {parents[s].children : s \in level[n - 1] \cap DOMAIN parents}
<1>1. N \in Nat /\ IsFiniteSet(D)
  <2>1. IsFiniteSet(1..k) /\ D \subseteq 1..k
    BY FS_Interval
  <2>2. IsFiniteSet(D)
    <3> HIDE DEF D
    <3> QED BY <2>1, FS_Subset
  <2> QED BY <2>2, FS_CardinalityType
<1>2. Descend(g) = level[N]
  BY DEF Descend
<1>3. start \in SUBSET U /\ step \in [SUBSET U -> SUBSET U]
  <2>1. \A s \in D : parents[s].children \subseteq U
    BY DEF Linked, Below
  <2>2. \A X \in SUBSET U : below(X) \subseteq U
    BY <2>1
  <2> HIDE DEF below
  <2> QED BY <2>2
<1>4. PICK f \in [0..N -> SUBSET U] : IsIteration(f, N, start, step)
  <2> HIDE DEF step, start, N, U
  <2> QED BY <1>1, <1>3, Iteration
<1>5. Driven(step, U, D)
  <2> SUFFICES ASSUME NEW X \in SUBSET U
               PROVE  /\ X \subseteq step[X]
                      /\ step[X] \cap D = X \cap D => step[step[X]] = step[X]
    BY DEF Driven
  <2>1. step[X] = X \cup below(X) /\ step[X] \in SUBSET U
    BY <1>3
  <2>2. ASSUME step[X] \cap D = X \cap D PROVE step[step[X]] = step[X]
    <3>1. below(step[X]) = below(X)
      <4> HIDE DEF step
      <4> QED BY <2>2
    <3>2. step[step[X]] = step[X] \cup below(step[X])
      BY <2>1
    <3> HIDE DEF below, step
    <3> QED BY <2>1, <3>1, <3>2
  <2> QED BY <2>1, <2>2
<1>6. /\ \A n \in 0..N : f[n] \in SUBSET U
      /\ \A n \in 0..N : start \subseteq f[n] /\ f[n] \subseteq f[N]
      /\ \/ step[f[N]] = f[N]
         \/ step[start] # start /\ Cardinality(f[N] \cap D) >= Cardinality(start \cap D) + N
  <2> HIDE DEF step, start, N, U, D
  <2> QED BY <1>1, <1>3, <1>4, <1>5, GrowthEnds
<1>7. step[f[N]] = f[N]
  <2>1. ASSUME step[start] # start, Cardinality(f[N] \cap D) >= Cardinality(start \cap D) + N
        PROVE  FALSE
    <3>1. Cardinality(start \cap D) \in Nat /\ Cardinality(f[N] \cap D) \in Nat /\ IsFiniteSet(start \cap D)
      BY <1>1, FS_Subset, FS_CardinalityType
    <3>2. Cardinality(f[N] \cap D) <= N
      BY <1>1, FS_Subset
    <3>3. Cardinality(start \cap D) = 0
      <4> HIDE DEF start, D, N
      <4> QED BY <1>1, <2>1, <3>1, <3>2
    <3>4. start \cap D = {}
      <4> HIDE DEF start, D
      <4> QED BY <3>1, <3>3, FS_EmptySet
    <3>5. below(start) = {}
      <4> HIDE DEF start
      <4> QED BY <3>4
    <3>6. step[start] = start \cup below(start)
      BY <1>3
    <3> HIDE DEF step, start, below
    <3> QED BY <2>1, <3>5, <3>6
  <2> QED BY <1>6, <2>1
<1>8. \A n \in 0..N : f[n] = IF n = 0 THEN start ELSE f[n - 1] \cup below(f[n - 1])
  <2> SUFFICES ASSUME NEW n \in 0..N
               PROVE  f[n] = IF n = 0 THEN start ELSE f[n - 1] \cup below(f[n - 1])
    OBVIOUS
  <2> HIDE DEF N, start, below
  <2>1. CASE n = 0
    BY <2>1, <1>4 DEF IsIteration
  <2>2. CASE n # 0
    <3>1. n \in 1..N /\ n - 1 \in 0..N
      BY <2>2, <1>1
    <3>2. f[n] = step[f[n - 1]] /\ f[n - 1] \in SUBSET U
      BY <3>1, <1>4, <1>6 DEF IsIteration
    <3> QED BY <2>2, <3>2
  <2> QED BY <2>1, <2>2
<1>9. f = [n \in 0..N |-> IF n = 0 THEN start
                          ELSE f[n - 1] \cup UNION {parents[s].children : s \in f[n - 1] \cap DOMAIN parents}]
  <2>1. f = [n \in 0..N |-> f[n]]
    <3> HIDE DEF U, N, start
    <3> QED BY <1>4
  <2> HIDE DEF N, start, U
  <2> QED BY <1>8, <2>1
<1>10. level = [n \in 0..N |-> IF n = 0 THEN start
                               ELSE level[n - 1] \cup UNION {parents[s].children : s \in level[n - 1] \cap DOMAIN parents}]
  <2> HIDE DEF N, D, start
  <2>1. \E h : h = [n \in 0..N |-> IF n = 0 THEN start
                     ELSE h[n - 1] \cup UNION {parents[s].children : s \in h[n - 1] \cap DOMAIN parents}]
    BY <1>9, Zenon
  <2> QED BY <2>1, Zenon DEF level
<1>11. level[N] = f[N]
  <2> DEFINE S == {n \in Nat : n <= N => level[n] = f[n]}
  <2>1. level = [n \in 0..N |-> IF n = 0 THEN start ELSE level[n - 1] \cup below(level[n - 1])]
    BY <1>10
  <2>1a. f = [n \in 0..N |-> IF n = 0 THEN start ELSE f[n - 1] \cup below(f[n - 1])]
    BY <1>9
  <2> HIDE DEF N, level, start, below
  <2>2. level[0] = start /\ f[0] = start
    BY <1>1, <2>1, <2>1a
  <2>3. ASSUME NEW n \in S PROVE n + 1 \in S
    <3>1. CASE n + 1 <= N
      <4>1. n \in Nat /\ n + 1 \in 0..N /\ n + 1 # 0 /\ (n + 1) - 1 = n /\ level[n] = f[n]
        BY <3>1, <1>1
      <4>2. level[n + 1] = level[n] \cup below(level[n])
        BY <4>1, <2>1
      <4>3. f[n + 1] = f[n] \cup below(f[n])
        BY <4>1, <2>1a
      <4> HIDE DEF S
      <4>4. level[n + 1] = f[n + 1]
        BY <4>1, <4>2, <4>3
      <4> QED BY <4>1, <4>4 DEF S
    <3>2. CASE ~(n + 1 <= N)
      BY <3>2
    <3> QED BY <3>1, <3>2
  <2>4. 0 \in S /\ S \in SUBSET Nat
    BY <2>2
  <2>5. S = Nat
    <3> HIDE DEF S
    <3> QED BY <2>3, <2>4, AllNumbers
  <2> QED BY <1>1, <2>5
<1> DEFINE reached == f[N]
<1>12. Descend(g) = reached
  BY <1>2, <1>11
<1>13. start \subseteq reached /\ reached \in SUBSET U /\ reached = reached \cup below(reached)
  <2> HIDE DEF N, start, below, U
  <2>1. N \in 0..N
    BY <1>1
  <2> QED BY <2>1, <1>6, <1>7
<1>14. \A s \in DOMAIN parents : s \in reached => parents[s].children \subseteq reached
  <2> HIDE DEF reached
  <2> QED BY <1>13
<1> HIDE DEF reached
<1> QED BY <1>12, <1>13, <1>14

\* Every slot is reached from the root of its group: the first that is not would have
\* a parent before it that is.
LEMMA EverySlotReached ==
  ASSUME NEW R, NEW n, NEW k, NEW now, Good(leaves, parents, R, n, k, now), NEW g
  PROVE  /\ \A s \in DOMAIN leaves : leaves[s].group = g => s \in Descend(g)
         /\ \A s \in DOMAIN parents : parents[s].group = g => s \in Descend(g)
<1>1. k \in Nat /\ DOMAIN parents \subseteq 1..k /\ DOMAIN leaves \subseteq 1..k /\ Linked(leaves, parents)
  BY DEF Good, Sound, Typed
<1>2. /\ \A s \in DOMAIN leaves : leaves[s].parent = None /\ leaves[s].group = g => s \in Descend(g)
      /\ \A s \in DOMAIN parents : parents[s].parent = None /\ parents[s].group = g => s \in Descend(g)
      /\ \A s \in DOMAIN parents : s \in Descend(g) => parents[s].children \subseteq Descend(g)
  BY <1>1, DescendReaches
<1> DEFINE T == {s \in DOMAIN leaves : leaves[s].group = g /\ s \notin Descend(g)} \cup
                {s \in DOMAIN parents : parents[s].group = g /\ s \notin Descend(g)}
<1>3. T = {}
  <2> SUFFICES ASSUME T # {} PROVE FALSE
    OBVIOUS
  <2>1. T \in SUBSET Nat
    BY <1>1
  <2>2. PICK s \in T : \A m \in T : ~(m < s)
    <3> HIDE DEF T
    <3> QED BY <2>1, LeastNumber
  <2>3. ASSUME NEW p \in DOMAIN parents, p < s, s \in parents[p].children
        PROVE  FALSE
    <3>1. p \notin T
      BY <2>2, <2>3
    <3>2. Below(leaves, parents, s, p)
      BY <1>1, <2>3 DEF Linked
    <3>3. parents[p].group = g
      <4>1. DOMAIN leaves \cap DOMAIN parents = {}
        BY <1>1 DEF Linked
      <4>2. CASE s \in DOMAIN leaves
        BY <3>2, <4>1, <4>2, <2>2 DEF Below
      <4>3. CASE s \in DOMAIN parents
        BY <3>2, <4>1, <4>3, <2>2 DEF Below
      <4> QED BY <4>2, <4>3, <2>2
    <3>4. p \in Descend(g)
      BY <3>1, <3>3
    <3> QED BY <3>4, <1>2, <2>2, <2>3
  <2>4. CASE s \in DOMAIN leaves
    <3>1. leaves[s].group = g /\ leaves[s].parent < s
      BY <2>2, <2>4, <1>1 DEF Linked
    <3>2. leaves[s].parent # None => leaves[s].parent \in DOMAIN parents /\ s \in parents[leaves[s].parent].children
      BY <2>4, <1>1 DEF Linked
    <3> QED BY <3>1, <3>2, <2>2, <2>3, <2>4, <1>2
  <2>5. CASE s \in DOMAIN parents
    <3>1. parents[s].group = g /\ parents[s].parent < s
      BY <2>2, <2>5, <1>1 DEF Linked
    <3>2. parents[s].parent # None => parents[s].parent \in DOMAIN parents /\ s \in parents[parents[s].parent].children
      BY <2>5, <1>1 DEF Linked
    <3> QED BY <3>1, <3>2, <2>2, <2>3, <2>5, <1>2
  <2> QED BY <2>2, <2>4, <2>5
<1> QED BY <1>3

------------------------------------------------------------------------------
(* What the operations do to leaves, parents and records.                  *)

RecordsTyped(R, n, now) == DOMAIN R \subseteq 1..n /\ \A r \in DOMAIN R : R[r] \in RecordType(n, now)

\* Counters and the clock may be ahead.
LEMMA GoodLater ==
  ASSUME NEW L, NEW P, NEW R, NEW n, NEW k, NEW now, Good(L, P, R, n, k, now),
         NEW n2 \in Nat, NEW k2 \in Nat, NEW now2 \in Nat, n <= n2, k <= k2, now <= now2
  PROVE  Good(L, P, R, n2, k2, now2)
<1>1. Typed(L, P, R, n, k, now)
  BY DEF Good, Sound
<1>2. 1..n \subseteq 1..n2 /\ 1..k \subseteq 1..k2 /\ 0..k \subseteq 0..k2 /\ 0..n \subseteq 0..n2
      /\ 0..now \subseteq 0..now2
  BY <1>1 DEF Typed
<1>3. \A s \in DOMAIN L : L[s] \in LeafType(n2, k2)
  <2> SUFFICES ASSUME NEW s \in DOMAIN L PROVE L[s] \in LeafType(n2, k2)
    OBVIOUS
  <2>1. L[s] \in LeafType(n, k)
    BY <1>1 DEF Typed
  <2> QED BY <1>2, <2>1 DEF LeafType
<1>4. \A s \in DOMAIN P : P[s] \in ParentType(k2)
  <2> SUFFICES ASSUME NEW s \in DOMAIN P PROVE P[s] \in ParentType(k2)
    OBVIOUS
  <2>1. P[s] \in ParentType(k)
    BY <1>1 DEF Typed
  <2> QED BY <1>2, <2>1 DEF ParentType
<1>5. \A r \in DOMAIN R : R[r] \in RecordType(n2, now2)
  <2> SUFFICES ASSUME NEW r \in DOMAIN R PROVE R[r] \in RecordType(n2, now2)
    OBVIOUS
  <2>1. R[r] \in RecordType(n, now)
    BY <1>1 DEF Typed
  <2> QED BY <1>2, <2>1 DEF RecordType
<1>6. Typed(L, P, R, n2, k2, now2)
  BY <1>1, <1>2, <1>3, <1>4, <1>5 DEF Typed
<1> QED BY <1>6 DEF Good, Sound

\* The records after a write: all of them with the new one, which may supersede one.
Stored(R, n, old, g, b, t) ==
  With([r \in DOMAIN R |-> IF r = old THEN [R[r] EXCEPT !.supersededBy = n + 1] ELSE R[r]],
       n + 1, [group |-> g, time |-> t, supersededBy |-> None, recalls |-> 0, block |-> b])

\* S is R with the new record i.
HasNew(R, S, i, old, g, b, t) ==
  /\ DOMAIN S = DOMAIN R \cup {i}
  /\ S[i].group = g /\ S[i].time = t /\ S[i].block = b /\ S[i].supersededBy = None
  /\ \A r \in DOMAIN R :
       /\ S[r].group = R[r].group /\ S[r].time = R[r].time /\ S[r].block = R[r].block
       /\ S[r].recalls = R[r].recalls
       /\ S[r].supersededBy = IF r = old THEN i ELSE R[r].supersededBy

\* What write stores: the new record, and the one it supersedes under its new pointer.
LEMMA StoredRecords ==
  ASSUME NEW R, NEW n \in Nat, NEW now \in Nat, RecordsTyped(R, n, now), NEW now2 \in Nat, now <= now2,
         NEW old, NEW g \in Groups, NEW b \in Blocks \cup {NoBlock},
         NEW S, S = Stored(R, n, old, g, b, now2)
  PROVE  HasNew(R, S, n + 1, old, g, b, now2) /\ RecordsTyped(S, n + 1, now2) /\ n + 1 \notin DOMAIN R
<1> DEFINE new == [group |-> g, time |-> now2, supersededBy |-> None, recalls |-> 0, block |-> b]
           i == n + 1
<1>1. i \in Nat /\ i \notin DOMAIN R /\ 1..i = 1..n \cup {i}
  BY DEF RecordsTyped
<1>2. /\ DOMAIN S = DOMAIN R \cup {i} /\ S[i] = new
      /\ \A r \in DOMAIN R : S[r] = IF r = old THEN [R[r] EXCEPT !.supersededBy = i] ELSE R[r]
  <2> HIDE DEF i, new
  <2> QED BY <1>1 DEF Stored, With, i, new
<1>3. new \in RecordType(i, now2)
  BY HierarchyAssumption DEF RecordType, None
<1>4. ASSUME NEW r \in DOMAIN R
      PROVE  /\ S[r] \in RecordType(i, now2)
             /\ S[r].group = R[r].group /\ S[r].time = R[r].time /\ S[r].block = R[r].block
             /\ S[r].recalls = R[r].recalls
             /\ S[r].supersededBy = IF r = old THEN i ELSE R[r].supersededBy
  <2> DEFINE v == R[r]
  <2>1. v \in RecordType(n, now) /\ 0..n \subseteq 0..i /\ i \in 0..i /\ 0..now \subseteq 0..now2
    BY DEF RecordsTyped
  <2>2. v \in RecordType(i, now2)
    <3> HIDE DEF v, i
    <3> QED BY <2>1 DEF RecordType
  <2>3. S[r] = IF r = old THEN [v EXCEPT !.supersededBy = i] ELSE v
    BY <1>2
  <2> HIDE DEF v, i
  <2>4. CASE r = old
    <3>1. S[r] = [v EXCEPT !.supersededBy = i]
      BY <2>3, <2>4
    <3>2. S[r] \in RecordType(i, now2)
      BY <2>1, <2>2, <3>1 DEF RecordType
    <3>3. S[r].group = v.group /\ S[r].time = v.time /\ S[r].block = v.block /\ S[r].recalls = v.recalls
          /\ S[r].supersededBy = i
      BY <2>2, <3>1 DEF RecordType
    <3> QED BY <2>4, <3>2, <3>3 DEF v
  <2>5. CASE r # old
    BY <2>2, <2>3, <2>5 DEF v
  <2> QED BY <2>4, <2>5
<1>5. DOMAIN S \subseteq 1..i
  BY <1>1, <1>2 DEF RecordsTyped
<1>6. RecordsTyped(S, i, now2)
  BY <1>2, <1>3, <1>4, <1>5 DEF RecordsTyped
<1>7. S[i].group = g /\ S[i].time = now2 /\ S[i].block = b /\ S[i].supersededBy = None
  BY <1>2
<1>8. HasNew(R, S, i, old, g, b, now2)
  <2> HIDE DEF i
  <2> QED BY <1>2, <1>4, <1>7 DEF HasNew
<1> QED BY <1>1, <1>6, <1>8

\* A leaf with other members.
SetMembers(L, s, m) == [L EXCEPT ![s].members = m]

\* write adds a member to its own leaf and to no other.
LEMMA OtherMembers ==
  ASSUME NEW n, NEW k, NEW L, NEW s \in DOMAIN L, L[s] \in LeafType(n, k),
         NEW m \in SUBSET (1..n), NEW F, F = SetMembers(L, s, m)
  PROVE  /\ DOMAIN F = DOMAIN L
         /\ F[s] \in LeafType(n, k)
         /\ F[s].members = m /\ F[s].group = L[s].group /\ F[s].parent = L[s].parent
         /\ \A x \in DOMAIN L : x # s => F[x] = L[x]
<1> DEFINE v == L[s]
<1>1. DOMAIN F = DOMAIN L /\ F[s] = [v EXCEPT !.members = m] /\ \A x \in DOMAIN L : x # s => F[x] = L[x]
  BY DEF SetMembers
<1>2. v \in LeafType(n, k)
  OBVIOUS
<1> HIDE DEF v
<1>3. F[s] \in LeafType(n, k)
  BY <1>1, <1>2 DEF LeafType
<1>4. F[s].members = m /\ F[s].group = v.group /\ F[s].parent = v.parent
  BY <1>1, <1>2 DEF LeafType
<1> QED BY <1>1, <1>3, <1>4 DEF v

\* The leaves list a new record in one more leaf, or in a leaf of its own.
LEMMA RecordJoins ==
  ASSUME NEW L, NEW P, NEW R, NEW n, NEW k, NEW now, Good(L, P, R, n, k, now),
         NEW S, NEW i, DOMAIN S = DOMAIN R \cup {i}, RecordsTyped(S, n, now), i \notin DOMAIN R,
         \A r \in DOMAIN R : S[r].group = R[r].group,
         NEW s \in DOMAIN L, L[s].group = S[i].group,
         NEW F, DOMAIN F = DOMAIN L, F[s] \in LeafType(n, k), F[s].members = L[s].members \cup {i},
         F[s].group = L[s].group, F[s].parent = L[s].parent, \A x \in DOMAIN L : x # s => F[x] = L[x]
  PROVE  Good(F, P, S, n, k, now)
<1>1. \A x \in DOMAIN L : L[x] \in LeafType(n, k) /\ L[x].members # {} /\ L[x].members \subseteq DOMAIN R
  BY DEF Good, Sound, Typed, NoneEmpty, Placed
<1>2. \A x \in DOMAIN L : F[x] \in LeafType(n, k) /\ F[x].group = L[x].group /\ F[x].parent = L[x].parent
  BY <1>1
<1>3. \A x \in DOMAIN L : F[x].members = IF x = s THEN L[x].members \cup {i} ELSE L[x].members
  OBVIOUS
<1>4. Typed(F, P, S, n, k, now)
  BY <1>2 DEF Good, Sound, Typed, RecordsTyped
<1>5. Linked(F, P)
  BY <1>2 DEF Good, Sound, Linked, Below
<1>6. NoneEmpty(F)
  BY <1>1, <1>3 DEF NoneEmpty
<1>7. ASSUME NEW r \in DOMAIN S
       PROVE  \E x \in DOMAIN F :
                /\ r \in F[x].members
                /\ F[x].group = S[r].group
                /\ \A q \in DOMAIN F \ {x} : r \notin F[q].members
  <2>1. CASE r = i
    <3>1. \A q \in DOMAIN F \ {s} : r \notin F[q].members
      BY <2>1, <1>1
    <3> QED BY <2>1, <3>1
  <2>2. CASE r # i
    <3>1. r \in DOMAIN R
      BY <2>2
    <3>2. PICK x \in DOMAIN L : /\ r \in L[x].members
                                /\ L[x].group = R[r].group
                                /\ \A q \in DOMAIN L \ {x} : r \notin L[q].members
      BY <3>1 DEF Good, Sound, Placed
    <3>3. r \in F[x].members /\ F[x].group = S[r].group
      BY <3>1, <3>2, <1>2, <1>3
    <3>4. ASSUME NEW q \in DOMAIN F \ {x} PROVE r \notin F[q].members
      BY <2>2, <3>2, <1>3
    <3> QED BY <3>3, <3>4
  <2> QED BY <2>1, <2>2
<1>8. \A x \in DOMAIN F : F[x].members \subseteq DOMAIN S
  BY <1>1, <1>3
<1>9. Placed(F, S)
  BY <1>7, <1>8 DEF Placed
<1> QED BY <1>4, <1>5, <1>6, <1>9 DEF Good, Sound

\* The leaves F list record i in a leaf of its own, below no parent.
ListedAlone(L, s, i, F) ==
  /\ s \notin DOMAIN L /\ DOMAIN F = DOMAIN L \cup {s}
  /\ F[s].members = {i} /\ F[s].parent = None /\ \A x \in DOMAIN L : F[x] = L[x]

\* The new record gets a leaf of its own, with a new id, below no parent.
LEMMA RecordAlone ==
  ASSUME NEW L, NEW P, NEW R, NEW n, NEW k, NEW now, Good(L, P, R, n, k, now),
         NEW S, NEW i, DOMAIN S = DOMAIN R \cup {i}, RecordsTyped(S, n, now), i \notin DOMAIN R,
         \A r \in DOMAIN R : S[r].group = R[r].group,
         NEW s, s \in 1..k, s \notin DOMAIN P, NEW F, ListedAlone(L, s, i, F),
         F[s] \in LeafType(n, k), F[s].group = S[i].group
  PROVE  Good(F, P, S, n, k, now)
<1>0. /\ s \notin DOMAIN L /\ DOMAIN F = DOMAIN L \cup {s}
      /\ F[s].members = {i} /\ F[s].parent = None /\ \A x \in DOMAIN L : F[x] = L[x]
  BY DEF ListedAlone
<1>1. \A x \in DOMAIN L : L[x] \in LeafType(n, k) /\ L[x].members # {} /\ L[x].members \subseteq DOMAIN R
  BY <1>0 DEF Good, Sound, Typed, NoneEmpty, Placed
<1>2. k \in Nat
  BY <1>0 DEF Good, Sound, Typed
<1>3. Typed(F, P, S, n, k, now)
  BY <1>0, <1>1 DEF Good, Sound, Typed, RecordsTyped
<1>4. \A c, q : Below(L, P, c, q) => Below(F, P, c, q)
  BY <1>0 DEF Below
<1>5. None < s /\ s # None
  BY <1>0, <1>2 DEF None
<1>6. Linked(F, P)
  <2>1. DOMAIN F \cap DOMAIN P = {}
    BY <1>0 DEF Good, Sound, Linked
  <2>2. \A q \in DOMAIN P : P[q].children # {} /\ \A c \in P[q].children : Below(F, P, c, q)
    BY <1>0, <1>4 DEF Good, Sound, Linked
  <2>3. ASSUME NEW q \in DOMAIN F
        PROVE  /\ F[q].parent < q
               /\ F[q].parent # None => F[q].parent \in DOMAIN P /\ q \in P[F[q].parent].children
    <3>1. CASE q = s
      BY <1>0, <3>1, <1>5
    <3>2. CASE q # s
      BY <1>0, <3>2 DEF Good, Sound, Linked
    <3> QED BY <1>0, <3>1, <3>2
  <2>4. \A q \in DOMAIN P :
          /\ P[q].parent < q
          /\ P[q].parent # None => P[q].parent \in DOMAIN P /\ q \in P[P[q].parent].children
    BY <1>0 DEF Good, Sound, Linked
  <2> QED BY <1>0, <2>1, <2>2, <2>3, <2>4 DEF Linked
<1>7. NoneEmpty(F)
  BY <1>0, <1>1 DEF NoneEmpty
<1>8. ASSUME NEW r \in DOMAIN S
       PROVE  \E x \in DOMAIN F :
                /\ r \in F[x].members
                /\ F[x].group = S[r].group
                /\ \A q \in DOMAIN F \ {x} : r \notin F[q].members
  <2>1. CASE r = i
    <3>1. \A q \in DOMAIN F \ {s} : r \notin F[q].members
      BY <1>0, <2>1, <1>1
    <3> QED BY <1>0, <2>1, <3>1
  <2>2. CASE r # i
    <3>1. r \in DOMAIN R
      BY <1>0, <2>2
    <3>2. PICK x \in DOMAIN L : /\ r \in L[x].members
                                /\ L[x].group = R[r].group
                                /\ \A q \in DOMAIN L \ {x} : r \notin L[q].members
      BY <1>0, <3>1 DEF Good, Sound, Placed
    <3>3. r \in F[x].members /\ F[x].group = S[r].group
      BY <1>0, <3>1, <3>2
    <3>4. ASSUME NEW q \in DOMAIN F \ {x} PROVE r \notin F[q].members
      BY <1>0, <2>2, <3>2
    <3> QED BY <1>0, <3>3, <3>4
  <2> QED BY <1>0, <2>1, <2>2
<1>9. \A x \in DOMAIN F : F[x].members \subseteq DOMAIN S
  BY <1>0, <1>1
<1>10. Placed(F, S)
  BY <1>0, <1>8, <1>9 DEF Placed
<1> QED BY <1>3, <1>6, <1>7, <1>10 DEF Good, Sound

\* A recall changes the counts only, and by one at most.
LEMMA RecalledRecords ==
  ASSUME NEW R, NEW n, NEW now, RecordsTyped(R, n, now), NEW X, NEW F, F = Recalled(R, X)
  PROVE  /\ DOMAIN F = DOMAIN R
         /\ RecordsTyped(F, n, now)
         /\ \A r \in DOMAIN R :
              /\ F[r].group = R[r].group /\ F[r].time = R[r].time /\ F[r].block = R[r].block
              /\ F[r].supersededBy = R[r].supersededBy
              /\ F[r].recalls <= R[r].recalls + 1
<1>1. DOMAIN F = DOMAIN R
  BY DEF Recalled
<1>2. ASSUME NEW r \in DOMAIN R
      PROVE  /\ F[r] \in RecordType(n, now)
             /\ F[r].group = R[r].group /\ F[r].time = R[r].time /\ F[r].block = R[r].block
             /\ F[r].supersededBy = R[r].supersededBy
             /\ F[r].recalls <= R[r].recalls + 1
  <2> DEFINE v == R[r]
  <2>1. v \in RecordType(n, now)
    BY DEF RecordsTyped
  <2>2. F[r] = IF r \in X /\ v.recalls < MinRecalls THEN [v EXCEPT !.recalls = @ + 1] ELSE v
    BY DEF Recalled
  <2> HIDE DEF v
  <2>3. v.recalls \in 0..MinRecalls /\ MinRecalls \in Nat
    BY <2>1, HierarchyAssumption DEF RecordType
  <2>4. CASE r \in X /\ v.recalls < MinRecalls
    <3> DEFINE c == v.recalls + 1
    <3>1. c \in 0..MinRecalls /\ c <= v.recalls + 1
      BY <2>3, <2>4
    <3>2. F[r] = [v EXCEPT !.recalls = c]
      BY <2>2, <2>4
    <3> HIDE DEF c
    <3>3. F[r] \in RecordType(n, now)
      BY <2>1, <3>1, <3>2 DEF RecordType
    <3>4. F[r].group = v.group /\ F[r].time = v.time /\ F[r].block = v.block
          /\ F[r].supersededBy = v.supersededBy /\ F[r].recalls = c
      BY <2>1, <3>2 DEF RecordType
    <3> QED BY <3>1, <3>3, <3>4 DEF v
  <2>5. CASE ~(r \in X /\ v.recalls < MinRecalls)
    BY <2>1, <2>2, <2>3, <2>5 DEF v
  <2> QED BY <2>4, <2>5
<1>3. RecordsTyped(F, n, now)
  BY <1>1, <1>2 DEF RecordsTyped
<1> QED BY <1>1, <1>2, <1>3

\* Records of the same groups stay where they are.
LEMMA SameRecords ==
  ASSUME NEW L, NEW P, NEW R, NEW n, NEW k, NEW now, Good(L, P, R, n, k, now),
         NEW F, DOMAIN F = DOMAIN R, RecordsTyped(F, n, now),
         \A r \in DOMAIN R : F[r].group = R[r].group /\ F[r].block = R[r].block
  PROVE  /\ Good(L, P, F, n, k, now)
         /\ Routes(L, R) => Routes(L, F)
         /\ Fresh(L, R) => Fresh(L, F)
<1>1. Typed(L, P, F, n, k, now)
  BY DEF Good, Sound, Typed, RecordsTyped
<1>2. Placed(L, F)
  BY DEF Good, Sound, Placed
<1>3. ASSUME Routes(L, R) PROVE Routes(L, F)
  <2>1. ASSUME NEW s \in DOMAIN L
        PROVE  L[s].routed = {r \in L[s].members : F[r].block # NoBlock}
    <3> DEFINE m == L[s].members
    <3>1. L[s].routed = {r \in m : R[r].block # NoBlock}
      BY <1>3 DEF Routes
    <3>2. \A r \in m : F[r].block = R[r].block
      BY DEF Good, Sound, Placed
    <3> HIDE DEF m
    <3>3. L[s].routed = {r \in m : F[r].block # NoBlock}
      BY <3>1, <3>2
    <3> QED BY <3>3 DEF m
  <2> QED BY <2>1 DEF Routes
<1> QED BY <1>1, <1>2, <1>3 DEF Good, Sound, Fresh

\* The leaves F have other members in s only.
OnlyMembers(L, s, m, F) ==
  /\ DOMAIN F = DOMAIN L
  /\ F[s].members = m /\ F[s].group = L[s].group /\ F[s].parent = L[s].parent
  /\ \A x \in DOMAIN L : x # s => F[x] = L[x]

\* Evicted records leave the store and the only leaf that lists them, which may
\* become empty.
LEMMA EvictionSound ==
  ASSUME NEW L, NEW P, NEW R, NEW n, NEW k, NEW now, Good(L, P, R, n, k, now),
         NEW s \in DOMAIN L, NEW X \in SUBSET L[s].members,
         NEW S, DOMAIN S = DOMAIN R \ X, \A r \in DOMAIN S : S[r] = R[r],
         NEW F, F[s] \in LeafType(n, k), OnlyMembers(L, s, L[s].members \ X, F)
  PROVE  Sound(F, P, S, n, k, now)
<1>0. /\ DOMAIN F = DOMAIN L
      /\ F[s].members = L[s].members \ X
      /\ F[s].group = L[s].group /\ F[s].parent = L[s].parent
      /\ \A x \in DOMAIN L : x # s => F[x] = L[x]
  BY DEF OnlyMembers
<1>1. \A x \in DOMAIN L : L[x] \in LeafType(n, k) /\ L[x].members \subseteq DOMAIN R
  BY DEF Good, Sound, Typed, Placed
<1>2. \A x \in DOMAIN L : F[x] \in LeafType(n, k) /\ F[x].group = L[x].group /\ F[x].parent = L[x].parent
  BY <1>0, <1>1
<1>3. \A x \in DOMAIN L : F[x].members = IF x = s THEN L[x].members \ X ELSE L[x].members
  BY <1>0
<1>4. Typed(F, P, S, n, k, now)
  BY <1>0, <1>2 DEF Good, Sound, Typed
<1>5. Linked(F, P)
  BY <1>0, <1>2 DEF Good, Sound, Linked, Below
<1>6. ASSUME NEW r \in DOMAIN S
       PROVE  \E x \in DOMAIN F :
                /\ r \in F[x].members
                /\ F[x].group = S[r].group
                /\ \A q \in DOMAIN F \ {x} : r \notin F[q].members
  <2>1. r \in DOMAIN R /\ r \notin X /\ S[r] = R[r]
    OBVIOUS
  <2>2. PICK x \in DOMAIN L : /\ r \in L[x].members
                              /\ L[x].group = R[r].group
                              /\ \A q \in DOMAIN L \ {x} : r \notin L[q].members
    BY <1>0, <2>1 DEF Good, Sound, Placed
  <2>3. r \in F[x].members /\ F[x].group = S[r].group
    BY <1>0, <2>1, <2>2, <1>2, <1>3
  <2>4. ASSUME NEW q \in DOMAIN F \ {x} PROVE r \notin F[q].members
    BY <1>0, <2>2, <1>3
  <2> QED BY <1>0, <2>3, <2>4
<1>7. ASSUME NEW x \in DOMAIN F PROVE F[x].members \subseteq DOMAIN S
  <2>1. CASE x = s
    BY <1>0, <2>1, <1>1, <1>3
  <2>2. CASE x # s
    <3>1. ASSUME NEW r \in L[x].members PROVE r \notin X
      <4>1. r \in DOMAIN R
        BY <1>0, <1>1
      <4>2. PICK y \in DOMAIN L : \A q \in DOMAIN L \ {y} : r \notin L[q].members
        BY <1>0, <4>1 DEF Good, Sound, Placed
      <4>3. x = y
        BY <1>0, <4>2
      <4>4. r \notin L[s].members
        BY <1>0, <4>2, <4>3, <2>2
      <4> QED BY <4>4
    <3> QED BY <1>0, <2>2, <3>1, <1>1, <1>3
  <2> QED BY <1>0, <2>1, <2>2
<1>8. Placed(F, S)
  BY <1>0, <1>6, <1>7 DEF Placed
<1> QED BY <1>4, <1>5, <1>8 DEF Sound

\* A leaf whose members, group and parent stay.
LEMMA LeafStays ==
  ASSUME NEW L, NEW P, NEW R, NEW n, NEW k, NEW now, Good(L, P, R, n, k, now),
         NEW F, DOMAIN F = DOMAIN L,
         \A s \in DOMAIN L :
           /\ F[s] \in LeafType(n, k)
           /\ F[s].members = L[s].members /\ F[s].group = L[s].group /\ F[s].parent = L[s].parent
           /\ F[s].basis = L[s].basis /\ F[s].routed = L[s].routed
  PROVE  Good(F, P, R, n, k, now) /\ (Routes(L, R) => Routes(F, R)) /\ (Fresh(L, R) => Fresh(F, R))
<1>1. Typed(F, P, R, n, k, now)
  BY DEF Good, Sound, Typed
<1>2. Linked(F, P)
  BY DEF Good, Sound, Linked, Below
<1>3. Placed(F, R) /\ NoneEmpty(F)
  BY DEF Good, Sound, Placed, NoneEmpty
<1>4. (Routes(L, R) => Routes(F, R)) /\ (Fresh(L, R) => Fresh(F, R))
  BY DEF Routes, Fresh
<1> QED BY <1>1, <1>2, <1>3, <1>4 DEF Good, Sound

------------------------------------------------------------------------------
(* Splits and merges.                                                      *)

\* The leaves F and parents Q have s split into a, which takes left, and b.
SplitOf(L, P, s, a, b, left, F, Q) ==
  /\ s \in DOMAIN L /\ a # b /\ s < a /\ s < b
  /\ a \notin DOMAIN L /\ b \notin DOMAIN L /\ a \notin DOMAIN P /\ b \notin DOMAIN P
  /\ left \subseteq L[s].members /\ left # {} /\ left # L[s].members
  /\ DOMAIN F = (DOMAIN L \ {s}) \cup {a, b} /\ \A x \in DOMAIN L : x # s => F[x] = L[x]
  /\ F[a].members = left /\ F[a].group = L[s].group /\ F[a].parent = s
  /\ F[b].members = L[s].members \ left /\ F[b].group = L[s].group /\ F[b].parent = s
  /\ DOMAIN Q = DOMAIN P \cup {s} /\ \A x \in DOMAIN P : Q[x] = P[x]
  /\ Q[s].group = L[s].group /\ Q[s].parent = L[s].parent /\ Q[s].children = {a, b}

\* A leaf that is split becomes a parent; its two children share its members.
LEMMA SplitKeeps ==
  ASSUME NEW L, NEW P, NEW R, NEW n, NEW k, NEW now, Good(L, P, R, n, k, now),
         NEW s, NEW a, NEW b, NEW left, NEW F, NEW Q, SplitOf(L, P, s, a, b, left, F, Q),
         a \in 1..k, b \in 1..k, F[a] \in LeafType(n, k), F[b] \in LeafType(n, k), Q[s] \in ParentType(k)
  PROVE  Good(F, Q, R, n, k, now)
<1>0. /\ s \in DOMAIN L /\ a # b /\ s < a /\ s < b
      /\ a \notin DOMAIN L /\ b \notin DOMAIN L /\ a \notin DOMAIN P /\ b \notin DOMAIN P
      /\ left \subseteq L[s].members /\ left # {} /\ left # L[s].members
      /\ DOMAIN F = (DOMAIN L \ {s}) \cup {a, b} /\ \A x \in DOMAIN L : x # s => F[x] = L[x]
      /\ F[a].members = left /\ F[a].group = L[s].group /\ F[a].parent = s
      /\ F[b].members = L[s].members \ left /\ F[b].group = L[s].group /\ F[b].parent = s
      /\ DOMAIN Q = DOMAIN P \cup {s} /\ \A x \in DOMAIN P : Q[x] = P[x]
      /\ Q[s].group = L[s].group /\ Q[s].parent = L[s].parent /\ Q[s].children = {a, b}
  BY DEF SplitOf
<1>1. \A x \in DOMAIN L : L[x] \in LeafType(n, k) /\ L[x].members \subseteq DOMAIN R /\ L[x].members # {}
  BY <1>0 DEF Good, Sound, Typed, Placed, NoneEmpty
<1>2. DOMAIN L \cap DOMAIN P = {} /\ DOMAIN L \subseteq 1..k
  BY <1>0 DEF Good, Sound, Linked, Typed
<1>3. Typed(F, Q, R, n, k, now)
  <2>1. DOMAIN F \subseteq 1..k /\ DOMAIN Q \subseteq 1..k
    BY <1>0, <1>2 DEF Good, Sound, Typed
  <2>2. \A x \in DOMAIN F : F[x] \in LeafType(n, k)
    BY <1>0, <1>1
  <2>3. \A x \in DOMAIN Q : Q[x] \in ParentType(k)
    BY <1>0 DEF Good, Sound, Typed
  <2> QED BY <1>0, <2>1, <2>2, <2>3 DEF Good, Sound, Typed
<1>4. Linked(F, Q)
  <2>1. DOMAIN F \cap DOMAIN Q = {}
    BY <1>0, <1>2
  <2>2. ASSUME NEW q \in DOMAIN Q
        PROVE  Q[q].children # {} /\ \A c \in Q[q].children : Below(F, Q, c, q)
    <3>1. CASE q = s
      BY <1>0, <3>1 DEF Below
    <3>2. CASE q # s
      <4>1. q \in DOMAIN P /\ Q[q] = P[q]
        BY <1>0, <3>2
      <4>2. P[q].children # {} /\ \A c \in P[q].children : Below(L, P, c, q)
        BY <1>0, <4>1 DEF Good, Sound, Linked
      <4>3. ASSUME NEW c \in P[q].children PROVE Below(F, Q, c, q)
        <5>1. CASE c \in DOMAIN P /\ P[c].parent = q /\ P[c].group = P[q].group
          BY <1>0, <4>1, <5>1 DEF Below
        <5>2. CASE c \in DOMAIN L /\ L[c].parent = q /\ L[c].group = P[q].group
          <6>1. CASE c = s
            BY <1>0, <4>1, <5>2, <6>1 DEF Below
          <6>2. CASE c # s
            BY <1>0, <4>1, <5>2, <6>2 DEF Below
          <6> QED BY <1>0, <6>1, <6>2
        <5> QED BY <1>0, <4>2, <5>1, <5>2 DEF Below
      <4> QED BY <1>0, <4>1, <4>2, <4>3
    <3> QED BY <1>0, <3>1, <3>2
  <2>3. ASSUME NEW q \in DOMAIN F
        PROVE  /\ F[q].parent < q
               /\ F[q].parent # None => F[q].parent \in DOMAIN Q /\ q \in Q[F[q].parent].children
    <3>1. CASE q \in {a, b}
      BY <1>0, <3>1
    <3>2. CASE q \notin {a, b}
      <4>1. q \in DOMAIN L /\ F[q] = L[q]
        BY <1>0, <3>2
      <4>2. /\ L[q].parent < q
            /\ L[q].parent # None => L[q].parent \in DOMAIN P /\ q \in P[L[q].parent].children
        BY <1>0, <4>1 DEF Good, Sound, Linked
      <4> QED BY <1>0, <4>1, <4>2
    <3> QED BY <1>0, <3>1, <3>2
  <2>4. ASSUME NEW q \in DOMAIN Q
        PROVE  /\ Q[q].parent < q
               /\ Q[q].parent # None => Q[q].parent \in DOMAIN Q /\ q \in Q[Q[q].parent].children
    <3>1. CASE q = s
      <4>1. /\ L[s].parent < s
            /\ L[s].parent # None => L[s].parent \in DOMAIN P /\ s \in P[L[s].parent].children
        BY <1>0 DEF Good, Sound, Linked
      <4> QED BY <1>0, <3>1, <4>1
    <3>2. CASE q # s
      <4>1. q \in DOMAIN P /\ Q[q] = P[q]
        BY <1>0, <3>2
      <4>2. /\ P[q].parent < q
            /\ P[q].parent # None => P[q].parent \in DOMAIN P /\ q \in P[P[q].parent].children
        BY <1>0, <4>1 DEF Good, Sound, Linked
      <4> QED BY <1>0, <4>1, <4>2
    <3> QED BY <1>0, <3>1, <3>2
  <2> QED BY <2>1, <2>2, <2>3, <2>4 DEF Linked
<1>5. ASSUME NEW r \in DOMAIN R
       PROVE  \E x \in DOMAIN F :
                /\ r \in F[x].members
                /\ F[x].group = R[r].group
                /\ \A q \in DOMAIN F \ {x} : r \notin F[q].members
  <2>1. PICK x \in DOMAIN L : /\ r \in L[x].members
                              /\ L[x].group = R[r].group
                              /\ \A q \in DOMAIN L \ {x} : r \notin L[q].members
    BY <1>0 DEF Good, Sound, Placed
  <2>2. CASE x = s /\ r \in left
    <3>1. r \in F[a].members /\ F[a].group = R[r].group
      BY <1>0, <2>1, <2>2
    <3>2. ASSUME NEW q \in DOMAIN F \ {a} PROVE r \notin F[q].members
      BY <1>0, <2>1, <2>2
    <3> QED BY <1>0, <3>1, <3>2
  <2>3. CASE x = s /\ r \notin left
    <3>1. r \in F[b].members /\ F[b].group = R[r].group
      BY <1>0, <2>1, <2>3
    <3>2. ASSUME NEW q \in DOMAIN F \ {b} PROVE r \notin F[q].members
      BY <1>0, <2>1, <2>3
    <3> QED BY <1>0, <3>1, <3>2
  <2>4. CASE x # s
    <3>1. x \in DOMAIN F /\ r \in F[x].members /\ F[x].group = R[r].group
      BY <1>0, <2>1, <2>4
    <3>2. r \notin L[s].members
      BY <1>0, <2>1, <2>4
    <3>3. ASSUME NEW q \in DOMAIN F \ {x} PROVE r \notin F[q].members
      BY <1>0, <2>1, <3>2
    <3> QED BY <1>0, <3>1, <3>3
  <2> QED BY <1>0, <2>2, <2>3, <2>4
<1>6. Placed(F, R) /\ NoneEmpty(F)
  <2>1. \A x \in DOMAIN F : F[x].members \subseteq DOMAIN R
    BY <1>0, <1>1
  <2>2. \A x \in DOMAIN F : F[x].members # {}
    BY <1>0, <1>1
  <2> QED BY <1>5, <2>1, <2>2 DEF Placed, NoneEmpty
<1> QED BY <1>3, <1>4, <1>6 DEF Good, Sound

\* The leaves F list the members of l and r under m.
MergedInto(L, l, r, m, F) ==
  /\ l \in DOMAIN L /\ r \in DOMAIN L /\ l # r /\ L[l].group = L[r].group
  /\ m \notin DOMAIN L
  /\ DOMAIN F = (DOMAIN L \ {l, r}) \cup {m}
  /\ \A x \in DOMAIN L \ {l, r} : F[x] = L[x]
  /\ F[m].members = L[l].members \cup L[r].members /\ F[m].group = L[l].group

\* Two leaves of a group become one under another id: every record is in one leaf again.
LEMMA MergedLeaves ==
  ASSUME NEW L, NEW R, Placed(L, R), NoneEmpty(L),
         NEW l, NEW r, NEW m, NEW F, MergedInto(L, l, r, m, F)
  PROVE  Placed(F, R) /\ NoneEmpty(F)
<1>0. /\ l \in DOMAIN L /\ r \in DOMAIN L /\ l # r /\ L[l].group = L[r].group
      /\ m \notin DOMAIN L
      /\ DOMAIN F = (DOMAIN L \ {l, r}) \cup {m}
      /\ \A x \in DOMAIN L \ {l, r} : F[x] = L[x]
      /\ F[m].members = L[l].members \cup L[r].members /\ F[m].group = L[l].group
  BY DEF MergedInto
<1>1. \A x \in DOMAIN L : L[x].members \subseteq DOMAIN R /\ L[x].members # {}
  BY DEF Placed, NoneEmpty
<1>2. ASSUME NEW q \in DOMAIN R
      PROVE  \E x \in DOMAIN F :
                /\ q \in F[x].members
                /\ F[x].group = R[q].group
                /\ \A y \in DOMAIN F \ {x} : q \notin F[y].members
  <2>1. PICK x \in DOMAIN L : /\ q \in L[x].members
                              /\ L[x].group = R[q].group
                              /\ \A y \in DOMAIN L \ {x} : q \notin L[y].members
    BY DEF Placed
  <2>2. CASE x \in {l, r}
    <3>1. q \in F[m].members /\ F[m].group = R[q].group
      BY <2>1, <2>2, <1>0
    <3>2. ASSUME NEW y \in DOMAIN F \ {m} PROVE q \notin F[y].members
      BY <2>1, <2>2, <1>0
    <3>3. m \in DOMAIN F
      BY <1>0
    <3> QED BY <3>1, <3>2, <3>3
  <2>3. CASE x \notin {l, r}
    <3>1. x \in DOMAIN F /\ F[x] = L[x]
      BY <2>3, <1>0
    <3>2. q \notin F[m].members
      BY <2>1, <2>3, <1>0
    <3>3. ASSUME NEW y \in DOMAIN F \ {x} PROVE q \notin F[y].members
      BY <2>1, <3>2, <1>0
    <3> QED BY <2>1, <3>1, <3>3
  <2> QED BY <1>0, <2>1, <2>2, <2>3
<1>3. \A x \in DOMAIN F : F[x].members \subseteq DOMAIN R
  BY <1>0, <1>1
<1>4. \A x \in DOMAIN F : F[x].members # {}
  BY <1>0, <1>1
<1> QED BY <1>2, <1>3, <1>4 DEF Placed, NoneEmpty

\* The parents Q have m where l and r were below p.
Adopted(P, p, l, r, m, Q) ==
  /\ DOMAIN Q = DOMAIN P
  /\ \A x \in DOMAIN P : x # p => Q[x] = P[x]
  /\ p \in DOMAIN P =>
       /\ Q[p].group = P[p].group /\ Q[p].parent = P[p].parent
       /\ Q[p].children = (P[p].children \ {l, r}) \cup {m}

\* The merged leaf joins the other children of the parent, or has none.
LEMMA MergeKeeps ==
  ASSUME NEW L, NEW P, NEW R, NEW n, NEW k, NEW now, Good(L, P, R, n, k, now),
         NEW l, NEW r, NEW m, NEW F, MergedInto(L, l, r, m, F),
         NEW p, p = L[l].parent, p = L[r].parent, p < m,
         m \in 1..k, m \notin DOMAIN P, F[m] \in LeafType(n, k), F[m].parent = p,
         NEW Q, Adopted(P, p, l, r, m, Q), p \in DOMAIN P => Q[p] \in ParentType(k)
  PROVE  Good(F, Q, R, n, k, now)
<1>0. /\ l \in DOMAIN L /\ r \in DOMAIN L /\ l # r /\ L[l].group = L[r].group
      /\ m \notin DOMAIN L
      /\ DOMAIN F = (DOMAIN L \ {l, r}) \cup {m}
      /\ \A x \in DOMAIN L \ {l, r} : F[x] = L[x]
      /\ F[m].members = L[l].members \cup L[r].members /\ F[m].group = L[l].group
  BY DEF MergedInto
<1>a. /\ DOMAIN Q = DOMAIN P
      /\ \A x \in DOMAIN P : x # p => Q[x] = P[x]
      /\ p \in DOMAIN P =>
           /\ Q[p].group = P[p].group /\ Q[p].parent = P[p].parent
           /\ Q[p].children = (P[p].children \ {l, r}) \cup {m}
  BY DEF Adopted
<1>1. /\ \A x \in DOMAIN F : F[x] \in LeafType(n, k)
      /\ DOMAIN F \subseteq 1..k
  BY <1>0, <1>a DEF Good, Sound, Typed
<1>2. \A x \in DOMAIN P : Q[x].group = P[x].group /\ Q[x].parent = P[x].parent /\ Q[x] \in ParentType(k)
  BY <1>0, <1>a DEF Good, Sound, Typed
<1>3. \A x \in DOMAIN P : Q[x].children = IF x = p THEN (P[x].children \ {l, r}) \cup {m} ELSE P[x].children
  <2>1. ASSUME NEW x \in DOMAIN P, x = p PROVE Q[x].children = (P[x].children \ {l, r}) \cup {m}
    BY <1>0, <1>a, <2>1
  <2>2. ASSUME NEW x \in DOMAIN P, x # p PROVE Q[x].children = P[x].children
    BY <1>0, <1>a, <2>2
  <2> QED BY <1>0, <1>a, <2>1, <2>2
<1>4. L[r].parent = p /\ F[m].parent = p /\ p < m
  BY <1>0, <1>a
<1>5. Typed(F, Q, R, n, k, now)
  BY <1>0, <1>a, <1>1, <1>2 DEF Good, Sound, Typed
<1>6. /\ DOMAIN L \cap DOMAIN P = {}
      /\ \A s \in DOMAIN P : P[s].children # {} /\ \A c \in P[s].children : Below(L, P, c, s)
      /\ \A s \in DOMAIN L :
           /\ L[s].parent < s
           /\ L[s].parent # None => L[s].parent \in DOMAIN P /\ s \in P[L[s].parent].children
      /\ \A s \in DOMAIN P :
           /\ P[s].parent < s
           /\ P[s].parent # None => P[s].parent \in DOMAIN P /\ s \in P[P[s].parent].children
  BY <1>0, <1>a DEF Good, Sound, Linked
<1>7. Linked(F, Q)
  <2>1. DOMAIN F \cap DOMAIN Q = {}
    BY <1>0, <1>a, <1>6
  <2>2. ASSUME NEW s \in DOMAIN P
        PROVE  Q[s].children # {} /\ \A c \in Q[s].children : Below(F, Q, c, s)
    <3>1. ASSUME NEW c \in P[s].children, c \notin {l, r} PROVE Below(F, Q, c, s)
      <4>1. CASE c \in DOMAIN P /\ P[c].parent = s /\ P[c].group = P[s].group
        BY <1>0, <1>a, <4>1, <1>2 DEF Below
      <4>2. CASE c \in DOMAIN L /\ L[c].parent = s /\ L[c].group = P[s].group
        BY <1>0, <1>a, <3>1, <4>2, <1>2 DEF Below
      <4> QED BY <1>0, <1>a, <1>6, <4>1, <4>2 DEF Below
    <3>2. CASE s = p
      <4>1. l \in P[s].children
        <5>1. p # None
          BY <1>0, <1>a, <3>2, <1>6 DEF Good, Sound, Typed, None
        <5> QED BY <1>0, <1>a, <5>1, <3>2, <1>6
      <4>2. L[l].group = P[s].group
        BY <1>0, <1>a, <4>1, <1>6 DEF Below
      <4>3. Below(F, Q, m, s)
        BY <1>0, <1>a, <3>2, <4>2, <1>2, <1>4 DEF Below
      <4> QED BY <1>0, <1>a, <3>1, <3>2, <4>3, <1>3
    <3>3. CASE s # p
      <4>1. ASSUME NEW c \in P[s].children PROVE c \notin {l, r}
        <5>1. CASE c = l
          BY <1>0, <1>a, <3>3, <5>1, <1>6 DEF Below
        <5>2. CASE c = r
          BY <1>0, <1>a, <3>3, <5>2, <1>4, <1>6 DEF Below
        <5> QED BY <1>0, <1>a, <5>1, <5>2
      <4> QED BY <1>0, <1>a, <3>1, <3>3, <4>1, <1>3, <1>6
    <3> QED BY <1>0, <1>a, <3>2, <3>3
  <2>3. ASSUME NEW s \in DOMAIN F
        PROVE  /\ F[s].parent < s
               /\ F[s].parent # None => F[s].parent \in DOMAIN Q /\ s \in Q[F[s].parent].children
    <3>1. CASE s = m
      <4>1. p # None => p \in DOMAIN P
        BY <1>0, <1>a, <1>6
      <4> QED BY <1>0, <1>a, <3>1, <4>1, <1>3, <1>4
    <3>2. CASE s # m
      <4>1. s \in DOMAIN L \ {l, r} /\ F[s] = L[s]
        BY <1>0, <1>a, <3>2
      <4>2. L[s].parent # None => L[s].parent \in DOMAIN P /\ s \in P[L[s].parent].children
        BY <1>0, <1>a, <4>1, <1>6
      <4> QED BY <1>0, <1>a, <4>1, <4>2, <1>3, <1>6
    <3> QED BY <1>0, <1>a, <3>1, <3>2
  <2>4. ASSUME NEW s \in DOMAIN P
        PROVE  /\ Q[s].parent < s
               /\ Q[s].parent # None => Q[s].parent \in DOMAIN Q /\ s \in Q[Q[s].parent].children
    <3>1. s \notin {l, r}
      BY <1>0, <1>a, <1>6
    <3> QED BY <1>0, <1>a, <3>1, <1>2, <1>3, <1>6
  <2> QED BY <1>a, <2>1, <2>2, <2>3, <2>4 DEF Linked
<1>8. Placed(F, R) /\ NoneEmpty(F)
  <2>1. Placed(L, R) /\ NoneEmpty(L)
    BY <1>0, <1>a DEF Good, Sound
  <2> QED BY <2>1, MergedLeaves
<1> QED BY <1>5, <1>7, <1>8 DEF Good, Sound

\* The last two children of a parent: the merged leaf takes its place.
LEMMA CollapseKeeps ==
  ASSUME NEW L, NEW P, NEW R, NEW n, NEW k, NEW now, Good(L, P, R, n, k, now),
         NEW l, NEW r, NEW p, NEW F, MergedInto(L, l, r, p, F),
         p = L[l].parent, p = L[r].parent, p \in DOMAIN P, P[p].children = {l, r},
         F[p] \in LeafType(n, k), F[p].parent = P[p].parent,
         NEW Q, Q = Without(P, {p})
  PROVE  Good(F, Q, R, n, k, now)
<1>0. /\ l \in DOMAIN L /\ r \in DOMAIN L /\ l # r /\ L[l].group = L[r].group
      /\ p \notin DOMAIN L
      /\ DOMAIN F = (DOMAIN L \ {l, r}) \cup {p}
      /\ \A x \in DOMAIN L \ {l, r} : F[x] = L[x]
      /\ F[p].members = L[l].members \cup L[r].members /\ F[p].group = L[l].group
  BY DEF MergedInto
<1>a. DOMAIN Q = DOMAIN P \ {p} /\ \A x \in DOMAIN Q : Q[x] = P[x]
  BY DEF Without
<1>1. /\ \A x \in DOMAIN F : F[x] \in LeafType(n, k)
      /\ DOMAIN F \subseteq 1..k
  BY <1>0, <1>a DEF Good, Sound, Typed
<1>2. Typed(F, Q, R, n, k, now)
  BY <1>0, <1>a, <1>1 DEF Good, Sound, Typed
<1>3. /\ DOMAIN L \cap DOMAIN P = {}
      /\ \A s \in DOMAIN P : P[s].children # {} /\ \A c \in P[s].children : Below(L, P, c, s)
      /\ \A s \in DOMAIN L :
           /\ L[s].parent < s
           /\ L[s].parent # None => L[s].parent \in DOMAIN P /\ s \in P[L[s].parent].children
      /\ \A s \in DOMAIN P :
           /\ P[s].parent < s
           /\ P[s].parent # None => P[s].parent \in DOMAIN P /\ s \in P[P[s].parent].children
  BY <1>0, <1>a DEF Good, Sound, Linked
<1>4. L[l].group = P[p].group /\ p # None
  <2>1. Below(L, P, l, p)
    BY <1>0, <1>a, <1>3
  <2>2. p # None
    BY <1>0, <1>a DEF Good, Sound, Typed, None
  <2> QED BY <1>0, <1>a, <2>1, <2>2, <1>3 DEF Below
<1>5. Linked(F, Q)
  <2>1. DOMAIN F \cap DOMAIN Q = {}
    BY <1>0, <1>a, <1>3
  <2>2. ASSUME NEW s \in DOMAIN Q
        PROVE  Q[s].children # {} /\ \A c \in Q[s].children : Below(F, Q, c, s)
    <3>1. s \in DOMAIN P /\ s # p /\ Q[s] = P[s]
      BY <1>0, <1>a
    <3>2. ASSUME NEW c \in P[s].children PROVE Below(F, Q, c, s)
      <4>1. Below(L, P, c, s)
        BY <1>0, <1>a, <3>1, <1>3
      <4>2. CASE c = p
        <5>1. P[p].parent = s /\ P[p].group = P[s].group
          BY <4>1, <4>2, <1>3 DEF Below
        <5>2. F[p].parent = s /\ F[p].group = Q[s].group /\ p \in DOMAIN F
          BY <5>1, <3>1, <1>0, <1>4
        <5> QED BY <4>2, <5>2 DEF Below
      <4>3. CASE c # p /\ c \in DOMAIN P
        <5>1. P[c].parent = s /\ P[c].group = P[s].group
          BY <4>1, <4>3, <1>3 DEF Below
        <5>2. c \in DOMAIN Q /\ Q[c].parent = s /\ Q[c].group = Q[s].group
          BY <5>1, <4>3, <3>1, <1>a
        <5> QED BY <5>2 DEF Below
      <4>4. CASE c \in DOMAIN L
        <5>1. L[c].parent = s /\ L[c].group = P[s].group
          BY <1>0, <1>a, <4>1, <4>4, <1>3 DEF Below
        <5>2. c \notin {l, r}
          BY <1>0, <1>a, <5>1, <3>1
        <5>3. F[c] = L[c] /\ c \in DOMAIN F
          BY <1>0, <1>a, <5>2, <4>4
        <5> QED BY <5>1, <5>3, <3>1 DEF Below
      <4> QED BY <1>0, <1>a, <4>1, <4>2, <4>3, <4>4 DEF Below
    <3>3. P[s].children # {} /\ Q[s].children = P[s].children
      BY <3>1, <1>3
    <3> QED BY <3>2, <3>3
  <2>3. ASSUME NEW s \in DOMAIN F
        PROVE  /\ F[s].parent < s
               /\ F[s].parent # None => F[s].parent \in DOMAIN Q /\ s \in Q[F[s].parent].children
    <3>1. CASE s = p
      <4>1. /\ P[p].parent < p
            /\ P[p].parent # None => P[p].parent \in DOMAIN P /\ p \in P[P[p].parent].children
        BY <1>0, <1>a, <1>3
      <4>2. P[p].parent # p
        <5>1. P[p].parent \in Nat /\ p \in Nat
          BY <1>0, <1>a DEF Good, Sound, Typed, ParentType
        <5> QED BY <1>0, <1>a, <4>1, <5>1
      <4> QED BY <1>0, <1>a, <3>1, <4>1, <4>2
    <3>2. CASE s # p
      <4>1. s \in DOMAIN L \ {l, r} /\ F[s] = L[s]
        BY <1>0, <1>a, <3>2
      <4>2. /\ L[s].parent < s
            /\ L[s].parent # None => L[s].parent \in DOMAIN P /\ s \in P[L[s].parent].children
        BY <1>0, <1>a, <4>1, <1>3
      <4>3. L[s].parent # p
        <5>1. CASE L[s].parent = p
          BY <1>0, <1>a, <5>1, <4>1, <4>2, <1>4
        <5> QED BY <1>0, <1>a, <5>1
      <4> QED BY <1>0, <1>a, <4>1, <4>2, <4>3
    <3> QED BY <1>0, <1>a, <3>1, <3>2
  <2>4. ASSUME NEW s \in DOMAIN Q
        PROVE  /\ Q[s].parent < s
               /\ Q[s].parent # None => Q[s].parent \in DOMAIN Q /\ s \in Q[Q[s].parent].children
    <3>1. s \in DOMAIN P /\ Q[s] = P[s]
      BY <1>0, <1>a
    <3>2. /\ P[s].parent < s
          /\ P[s].parent # None => P[s].parent \in DOMAIN P /\ s \in P[P[s].parent].children
      BY <1>0, <1>a, <3>1, <1>3
    <3>3. P[s].parent # p
      <4>1. CASE P[s].parent = p
        BY <1>0, <1>a, <4>1, <3>1, <3>2, <1>3, <1>4
      <4> QED BY <1>0, <1>a, <4>1
    <3> QED BY <1>0, <1>a, <3>1, <3>2, <3>3
  <2> QED BY <2>1, <2>2, <2>3, <2>4 DEF Linked
<1>6. Placed(F, R) /\ NoneEmpty(F)
  <2>1. Placed(L, R) /\ NoneEmpty(L)
    BY DEF Good, Sound
  <2> QED BY <2>1, MergedLeaves
<1> QED BY <1>2, <1>5, <1>6 DEF Good, Sound

------------------------------------------------------------------------------
(* The inductive invariant.                                                *)

\* Whatever supersedes a stored record and is stored itself is in the history.
HistoryLinked(R, X) ==
  \A r \in DOMAIN R : R[r].supersededBy \in DOMAIN R => <<r, R[R[r].supersededBy].time>> \in X

\* The state fits together between any two steps, those within maintain included.
HierarchyInv ==
  /\ Good(leaves, parents, records, recordCount, slotCount, clock)
  /\ leftInPast \in BOOLEAN
  /\ UpToDate(leaves, records, leftInPast)
  /\ clock \in 0..MaxTime
  /\ phase \in {"idle", "split", "merge"}
  /\ todo \subseteq DOMAIN leaves
  /\ phase = "idle" => todo = {}
  /\ replaced \subseteq (1..recordCount) \X (0..clock)
  /\ HistoryLinked(records, replaced)

\* What was refreshed for now is up to date, whatever was read before.
LEMMA FreshIsUpToDate ==
  ASSUME NEW L, NEW R, NEW past, Fresh(L, R)
  PROVE  UpToDate(L, R, past)
  BY DEF UpToDate, Fresh

\* A tick of the clock stays within the times the types allow.
LEMMA TickBounds ==
  ASSUME HierarchyInv, NEW now \in Times
  PROVE  /\ clock \in Nat /\ recordCount \in Nat /\ slotCount \in Nat
         /\ now \in Nat /\ clock <= now /\ now \in 0..MaxTime
         /\ RecordsTyped(records, recordCount, clock)
         /\ DOMAIN leaves \subseteq 1..slotCount /\ DOMAIN parents \subseteq 1..slotCount
<1>1. MaxTime \in Nat
  BY HierarchyAssumption
<1>2. clock \in Nat /\ recordCount \in Nat /\ slotCount \in Nat
  BY DEF HierarchyInv, Good, Sound, Typed
<1>3. now \in Nat /\ clock <= now /\ now \in 0..MaxTime
  BY <1>1, <1>2 DEF Times
<1> QED BY <1>2, <1>3 DEF HierarchyInv, Good, Sound, Typed, RecordsTyped

\* The empty memory has no leaf, no parent and no record.
LEMMA InitInv ==
  ASSUME Init
  PROVE  HierarchyInv
<1>1. DOMAIN records = {} /\ DOMAIN leaves = {} /\ DOMAIN parents = {}
      /\ clock = 0 /\ recordCount = 0 /\ slotCount = 0 /\ phase = "idle" /\ todo = {} /\ replaced = {}
  BY DEF Init
<1>2. Good(leaves, parents, records, recordCount, slotCount, clock)
  BY <1>1 DEF Good, Sound, Typed, Linked, Placed, NoneEmpty
<1>3. UpToDate(leaves, records, leftInPast) /\ leftInPast = FALSE /\ HistoryLinked(records, replaced)
  BY <1>1 DEF UpToDate, Routes, Fresh, HistoryLinked, Init
<1>4. clock \in 0..MaxTime
  BY <1>1, HierarchyAssumption
<1> QED BY <1>1, <1>2, <1>3, <1>4 DEF HierarchyInv

\* A new leaf has its type, and everything it was given.
LEMMA NewLeafTyped ==
  ASSUME NEW n \in Nat, NEW k \in Nat, NEW g \in Groups, NEW m \in SUBSET (1..n), NEW p \in 0..k,
         NEW c \in Nat
  PROVE  /\ NewLeaf(g, m, p, c) \in LeafType(n, k)
         /\ NewLeaf(g, m, p, c).members = m /\ NewLeaf(g, m, p, c).group = g
         /\ NewLeaf(g, m, p, c).parent = p
  BY HierarchyAssumption DEF NewLeaf, LeafType

\* What write leaves after its call of _refresh_all.
LEMMA Settle ==
  ASSUME NEW L, NEW P, NEW R, NEW n, NEW k, NEW now, Good(L, P, R, n, k, now),
         NEW F, F = RefreshedLeaves(L, R, now), NEW Q, Q = RefreshedParents(P, F)
  PROVE  /\ Good(F, Q, R, n, k, now) /\ Fresh(F, R) /\ DOMAIN F = DOMAIN L
         /\ \A s \in DOMAIN L : F[s].members = L[s].members
<1>1. /\ Good(F, P, R, n, k, now) /\ Fresh(F, R) /\ DOMAIN F = DOMAIN L
      /\ \A s \in DOMAIN L : F[s].members = L[s].members
  BY RefreshKeeps
<1>2. Good(F, Q, R, n, k, now)
  BY <1>1, RefreshedParentsKeep
<1> QED BY <1>1, <1>2

\* write opens a root or descends, and keeps the invariant.
LEMMA WriteStep ==
  ASSUME HierarchyInv, NEW now \in Times, NEW g \in Groups, NEW b \in Blocks \cup {NoBlock},
         NEW old \in DOMAIN records \cup {None}, Write(g, b, old, now)
  PROVE  HierarchyInv'
<1> DEFINE n == recordCount + 1
           S == records'
<1>0. /\ clock \in Nat /\ recordCount \in Nat /\ slotCount \in Nat
      /\ now \in Nat /\ clock <= now /\ now \in 0..MaxTime
      /\ RecordsTyped(records, recordCount, clock)
      /\ DOMAIN leaves \subseteq 1..slotCount /\ DOMAIN parents \subseteq 1..slotCount
  BY TickBounds
<1>1. /\ phase = "idle" /\ phase' = phase /\ todo' = todo /\ clock' = now /\ recordCount' = n
      /\ replaced' = IF old = None THEN replaced ELSE replaced \cup {<<old, now>>}
      /\ S = Stored(records, recordCount, old, g, b, now)
      /\ parents' = RefreshedParents(parents, leaves') /\ leftInPast' = FALSE
  BY Zenon DEF Write, NewRecordId, Stored
<1>2. \/ \E s \in DOMAIN leaves :
           /\ leaves[s].group = g
           /\ leaves' = RefreshedLeaves([leaves EXCEPT ![s].members = @ \cup {n}], S, now)
           /\ slotCount' = slotCount
      \/ /\ slotCount' = slotCount + 1
         /\ leaves' = RefreshedLeaves(With(leaves, slotCount + 1, NewLeaf(g, {n}, None, 0)), S, now)
  BY <1>1, Zenon DEF Write, NewRecordId, Stored
<1>3. /\ DOMAIN S = DOMAIN records \cup {n}
      /\ RecordsTyped(S, n, now)
      /\ n \notin DOMAIN records
      /\ S[n].group = g /\ S[n].time = now /\ S[n].block = b /\ S[n].supersededBy = None
      /\ \A r \in DOMAIN records :
           /\ S[r].group = records[r].group /\ S[r].time = records[r].time
           /\ S[r].block = records[r].block /\ S[r].recalls = records[r].recalls
           /\ S[r].supersededBy = IF r = old THEN n ELSE records[r].supersededBy
  <2>1. S = Stored(records, recordCount, old, g, b, now)
    BY <1>1
  <2> HIDE DEF S, n
  <2>2. /\ HasNew(records, S, recordCount + 1, old, g, b, now)
        /\ RecordsTyped(S, recordCount + 1, now)
        /\ recordCount + 1 \notin DOMAIN records
    BY <1>0, <2>1, StoredRecords
  <2>3. HasNew(records, S, n, old, g, b, now) /\ RecordsTyped(S, n, now) /\ n \notin DOMAIN records
    BY <2>2 DEF n
  <2> QED BY <2>3 DEF HasNew
<1>n. n \in Nat /\ recordCount <= n /\ n \in 1..n
  BY <1>0
<1>4. Good(leaves', parents', S, n, slotCount', now) /\ Fresh(leaves', S)
  <2>1. CASE \E s \in DOMAIN leaves :
               /\ leaves[s].group = g
               /\ leaves' = RefreshedLeaves([leaves EXCEPT ![s].members = @ \cup {n}], S, now)
               /\ slotCount' = slotCount
    <3>1. PICK s \in DOMAIN leaves :
                 /\ leaves[s].group = g
                 /\ leaves' = RefreshedLeaves([leaves EXCEPT ![s].members = @ \cup {n}], S, now)
                 /\ slotCount' = slotCount
      BY <2>1
    <3> DEFINE F == [leaves EXCEPT ![s].members = @ \cup {n}]
               m == leaves[s].members \cup {n}
    <3>2. Good(leaves, parents, records, n, slotCount, now)
      <4> HIDE DEF n
      <4> QED BY <1>0, <1>n, GoodLater DEF HierarchyInv
    <3>3. leaves[s] \in LeafType(n, slotCount)
      <4> HIDE DEF n
      <4> QED BY <3>2 DEF Good, Sound, Typed
    <3> HIDE DEF n
    <3>4. m \in SUBSET (1..n)
      BY <3>3, <1>n DEF LeafType
    <3>5. F = SetMembers(leaves, s, m)
      BY DEF SetMembers
    <3> HIDE DEF F
    <3>6. /\ DOMAIN F = DOMAIN leaves
          /\ F[s] \in LeafType(n, slotCount)
          /\ F[s].members = m /\ F[s].group = leaves[s].group /\ F[s].parent = leaves[s].parent
          /\ \A x \in DOMAIN leaves : x # s => F[x] = leaves[x]
      <4> HIDE DEF m
      <4> QED BY <3>1, <3>3, <3>4, <3>5, OtherMembers
    <3>7. leaves[s].group = S[n].group
      BY <1>3, <3>1
    <3>8. Good(F, parents, S, n, slotCount, now)
      <4> HIDE DEF S
      <4> QED BY <1>3, <3>2, <3>6, <3>7, RecordJoins
    <3>9. leaves' = RefreshedLeaves(F, S, now)
      BY <3>1 DEF F
    <3> HIDE DEF S
    <3> QED BY <1>1, <3>1, <3>8, <3>9, Settle
  <2>2. CASE /\ slotCount' = slotCount + 1
             /\ leaves' = RefreshedLeaves(With(leaves, slotCount + 1, NewLeaf(g, {n}, None, 0)), S, now)
    <3> DEFINE s == slotCount + 1
               v == NewLeaf(g, {n}, None, 0)
               F == With(leaves, s, v)
    <3>1. s \in Nat /\ slotCount <= s /\ s \in 1..s /\ s \notin DOMAIN leaves /\ s \notin DOMAIN parents
      BY <1>0
    <3>2. leaves' = RefreshedLeaves(F, S, now)
      BY <2>2
    <3> HIDE DEF s, n
    <3>3. Good(leaves, parents, records, n, s, now)
      BY <1>0, <1>n, <3>1, GoodLater DEF HierarchyInv
    <3>4. v \in LeafType(n, s) /\ v.members = {n} /\ v.group = g /\ v.parent = None
      <4>1. {n} \in SUBSET (1..n) /\ None \in 0..s /\ 0 \in Nat
        BY <1>n, <3>1 DEF None
      <4> QED BY <4>1, <1>n, <3>1, NewLeafTyped
    <3> HIDE DEF v
    <3>5. DOMAIN F = DOMAIN leaves \cup {s} /\ F[s] = v /\ \A x \in DOMAIN leaves : F[x] = leaves[x]
      BY <3>1 DEF With
    <3> HIDE DEF F
    <3>6. /\ F[s] \in LeafType(n, s) /\ F[s].members = {n} /\ F[s].group = S[n].group /\ F[s].parent = None
      BY <1>3, <3>4, <3>5
    <3>7. Good(F, parents, S, n, s, now)
      <4>1. ListedAlone(leaves, s, n, F)
        BY <3>1, <3>5, <3>6 DEF ListedAlone
      <4> HIDE DEF S
      <4> QED BY <1>3, <3>1, <3>3, <3>6, <4>1, RecordAlone
    <3>8. slotCount' = s
      BY <2>2 DEF s
    <3> HIDE DEF S
    <3> QED BY <1>1, <3>2, <3>7, <3>8, Settle
  <2> QED BY <1>2, <2>1, <2>2
<1>5. replaced' \subseteq (1..n) \X (0..now)
  <2>1. replaced \subseteq (1..recordCount) \X (0..clock)
    BY DEF HierarchyInv
  <2>2. 1..recordCount \subseteq 1..n /\ 0..clock \subseteq 0..now /\ now \in 0..now
    BY <1>0
  <2>3. old # None => old \in 1..recordCount
    BY <1>0 DEF RecordsTyped
  <2> HIDE DEF n
  <2> QED BY <1>1, <2>1, <2>2, <2>3
<1>6. HistoryLinked(S, replaced')
  <2> SUFFICES ASSUME NEW r \in DOMAIN S, S[r].supersededBy \in DOMAIN S
               PROVE  <<r, S[S[r].supersededBy].time>> \in replaced'
    BY DEF HistoryLinked
  <2>1. None \notin DOMAIN S
    BY <1>n, <1>3 DEF RecordsTyped, None
  <2> HIDE DEF n
  <2>2. r \in DOMAIN records
    BY <1>3, <2>1
  <2>3. CASE r = old
    BY <2>1, <2>2, <2>3, <1>1, <1>3
  <2>4. CASE r # old
    <3>1. S[r].supersededBy = records[r].supersededBy /\ records[r].supersededBy # n
      <4>1. records[r].supersededBy \in 0..recordCount
        BY <2>2, <1>0 DEF RecordsTyped, RecordType
      <4>2. records[r].supersededBy # n
        BY <4>1, <1>0 DEF n
      <4> QED BY <4>2, <2>2, <2>4, <1>3
    <3>2. records[r].supersededBy \in DOMAIN records
      BY <3>1, <1>3
    <3>3. <<r, records[records[r].supersededBy].time>> \in replaced
      BY <2>2, <3>2 DEF HierarchyInv, HistoryLinked
    <3> QED BY <3>1, <3>2, <3>3, <1>1, <1>3
  <2> QED BY <2>3, <2>4
<1>7. todo' = {}
  BY <1>1 DEF HierarchyInv
<1>8. UpToDate(leaves', records', leftInPast')
  BY <1>4, FreshIsUpToDate
<1> HIDE DEF n
<1> QED BY <1>0, <1>1, <1>4, <1>5, <1>6, <1>7, <1>8 DEF HierarchyInv

\* The history of supersessions fits a later clock.
LEMMA HistoryLater ==
  ASSUME HierarchyInv, NEW now \in Times
  PROVE  replaced \subseteq (1..recordCount) \X (0..now)
<1>1. clock \in Nat /\ now \in Nat /\ clock <= now
  BY TickBounds
<1>2. 0..clock \subseteq 0..now
  BY <1>1
<1> QED BY <1>2 DEF HierarchyInv

\* A rejected write moves the clock and nothing else.
LEMMA RejectWriteStep ==
  ASSUME HierarchyInv, NEW now \in Times, RejectWrite(now)
  PROVE  HierarchyInv'
<1>1. /\ clock \in Nat /\ recordCount \in Nat /\ slotCount \in Nat
      /\ now \in Nat /\ clock <= now /\ now \in 0..MaxTime
  BY TickBounds
<1>2. /\ clock' = now /\ records' = records /\ leaves' = leaves /\ parents' = parents
      /\ recordCount' = recordCount /\ slotCount' = slotCount /\ phase' = phase /\ todo' = todo
      /\ replaced' = replaced /\ leftInPast' = leftInPast
  BY DEF RejectWrite
<1>3. Good(leaves, parents, records, recordCount, slotCount, now)
  BY <1>1, GoodLater DEF HierarchyInv
<1>4. replaced \subseteq (1..recordCount) \X (0..now)
  BY HistoryLater
<1> QED BY <1>1, <1>2, <1>3, <1>4 DEF HierarchyInv

\* retrieve refreshes the statistics of every leaf it reads, back to the present ones.
LEMMA RetrieveStep ==
  ASSUME HierarchyInv, NEW now \in Times, NEW g, NEW policy, NEW asOf, Retrieve(g, policy, asOf, now)
  PROVE  HierarchyInv'
<1>1. /\ clock \in Nat /\ recordCount \in Nat /\ slotCount \in Nat
      /\ now \in Nat /\ clock <= now /\ now \in 0..MaxTime
      /\ RecordsTyped(records, recordCount, clock)
  BY TickBounds
<1>2. /\ clock' = now /\ recordCount' = recordCount /\ slotCount' = slotCount /\ phase' = phase
      /\ todo' = todo /\ replaced' = replaced /\ leftInPast' = FALSE
      /\ leaves' = RefreshedLeaves(RefreshedLeaves(leaves, records, asOf), records, now)
      /\ parents' = RefreshedParents(parents, leaves)
  BY DEF Retrieve, Settled
<1>3. PICK X : records' = Recalled(records, X)
  BY Zenon DEF Retrieve
<1> DEFINE M == RefreshedLeaves(leaves, records, asOf)
<1>4. Good(leaves, parents, records, recordCount, slotCount, now)
  BY <1>1, GoodLater DEF HierarchyInv
<1>5. Good(M, parents, records, recordCount, slotCount, now) /\ DOMAIN M = DOMAIN leaves
  BY <1>4, RefreshKeeps
<1>6. leaves' = RefreshedLeaves(M, records, now)
  BY <1>2
<1> HIDE DEF M
<1>7. /\ Good(leaves', parents, records, recordCount, slotCount, now) /\ Fresh(leaves', records)
      /\ DOMAIN leaves' = DOMAIN leaves
  BY <1>5, <1>6, RefreshKeeps
<1>8. parents' = RefreshedParents(parents, leaves')
  BY <1>2, <1>7 DEF RefreshedParents
<1>9. Good(leaves', parents', records, recordCount, slotCount, now)
  BY <1>7, <1>8, RefreshedParentsKeep
<1>10. /\ DOMAIN records' = DOMAIN records
       /\ RecordsTyped(records', recordCount, clock)
       /\ \A r \in DOMAIN records :
            /\ records'[r].group = records[r].group /\ records'[r].time = records[r].time
            /\ records'[r].block = records[r].block
            /\ records'[r].supersededBy = records[r].supersededBy
  BY <1>1, <1>3, RecalledRecords
<1>11. RecordsTyped(records', recordCount, now)
  <2>1. 0..clock \subseteq 0..now
    BY <1>1
  <2> QED BY <1>10, <2>1 DEF RecordsTyped, RecordType
<1>12. Good(leaves', parents', records', recordCount, slotCount, now) /\ Fresh(leaves', records')
  BY <1>7, <1>9, <1>10, <1>11, SameRecords
<1>12a. UpToDate(leaves', records', leftInPast')
  BY <1>12, FreshIsUpToDate
<1>13. HistoryLinked(records', replaced)
  BY <1>10 DEF HierarchyInv, HistoryLinked
<1>14. replaced \subseteq (1..recordCount) \X (0..now)
  BY HistoryLater
<1> QED BY <1>1, <1>2, <1>7, <1>12, <1>12a, <1>13, <1>14 DEF HierarchyInv

\* A read that raises leaves statistics of the past, and everything else as it was.
LEMMA RetrieveFailsStep ==
  ASSUME HierarchyInv, NEW now \in Times, NEW g, NEW asOf \in 0..now,
         RetrieveFails(g, asOf, now)
  PROVE  HierarchyInv'
<1>1. /\ clock \in Nat /\ recordCount \in Nat /\ slotCount \in Nat
      /\ now \in Nat /\ clock <= now /\ now \in 0..MaxTime
  BY TickBounds
<1>2. /\ clock' = now /\ records' = records /\ recordCount' = recordCount /\ slotCount' = slotCount
      /\ phase' = phase /\ todo' = todo /\ replaced' = replaced /\ leftInPast' = (asOf < now)
      /\ leaves' = RefreshedLeaves(leaves, records, asOf)
      /\ parents' = RefreshedParents(parents, leaves)
  BY DEF RetrieveFails
<1>3. phase = "idle" /\ todo = {}
  BY DEF RetrieveFails, HierarchyInv
<1>4. Good(leaves, parents, records, recordCount, slotCount, now)
  BY <1>1, GoodLater DEF HierarchyInv
<1>5. /\ Good(leaves', parents, records, recordCount, slotCount, now)
      /\ DOMAIN leaves' = DOMAIN leaves /\ Routes(leaves', records)
      /\ asOf = now => Fresh(leaves', records)
  BY <1>2, <1>4, RefreshKeeps
<1>6. Good(leaves', parents', records, recordCount, slotCount, now)
  <2>1. parents' = RefreshedParents(parents, leaves')
    BY <1>2, <1>5 DEF RefreshedParents
  <2> QED BY <1>5, <2>1, RefreshedParentsKeep
<1>7. UpToDate(leaves', records, leftInPast')
  <2>1. CASE asOf < now
    <3>1. leftInPast'
      BY <2>1, <1>2, Zenon
    <3> QED BY <1>5, <3>1, Zenon DEF UpToDate
  <2>2. CASE ~(asOf < now)
    <3>1. asOf = now
      BY <1>1, <2>2
    <3> QED BY <1>5, <3>1, FreshIsUpToDate
  <2> QED BY <2>1, <2>2
<1>7a. leftInPast' \in BOOLEAN
  <2> DEFINE past == asOf < now
  <2>1. past \in BOOLEAN
    BY <1>1
  <2>2. leftInPast' = past
    BY <1>2
  <2> HIDE DEF past
  <2> QED BY <2>1, <2>2
<1>8. replaced \subseteq (1..recordCount) \X (0..now)
  BY HistoryLater
<1> QED BY <1>1, <1>2, <1>3, <1>5, <1>6, <1>7, <1>7a, <1>8 DEF HierarchyInv

\* What pruning and refreshing make of sound leaves.
LEMMA PruneAndSettle ==
  ASSUME NEW L, NEW P, NEW R, NEW n, NEW k, NEW now, Sound(L, P, R, n, k, now),
         NEW F, F = RefreshedLeaves(PrunedLeaves(L, P), R, now), NEW Q, Q = PrunedParents(L, P)
  PROVE  /\ Good(F, Q, R, n, k, now) /\ Fresh(F, R)
         /\ DOMAIN F \subseteq DOMAIN L
         /\ \A s \in DOMAIN F : F[s].members = L[s].members
<1> DEFINE M == PrunedLeaves(L, P)
<1>1. /\ Good(M, Q, R, n, k, now)
      /\ DOMAIN M = {s \in DOMAIN L : L[s].members # {}}
      /\ \A s \in DOMAIN M : M[s] = L[s]
  BY PruneKeeps
<1>2. F = RefreshedLeaves(M, R, now)
  OBVIOUS
<1> HIDE DEF M
<1>3. /\ Good(F, Q, R, n, k, now) /\ Fresh(F, R) /\ DOMAIN F = DOMAIN M
      /\ \A s \in DOMAIN M : F[s].members = M[s].members
  BY <1>1, <1>2, RefreshKeeps
<1> QED BY <1>1, <1>3

\* A recall observation evicts records and prunes what it emptied.
LEMMA ObserveRecallStep ==
  ASSUME HierarchyInv, NEW now \in Times, NEW s \in DOMAIN leaves, ObserveRecall(s, now)
  PROVE  HierarchyInv'
<1>1. /\ clock \in Nat /\ recordCount \in Nat /\ slotCount \in Nat
      /\ now \in Nat /\ clock <= now /\ now \in 0..MaxTime
      /\ RecordsTyped(records, recordCount, clock)
  BY TickBounds
<1> DEFINE R == Recalled(records, leaves[s].members)
<1>2. PICK X \in SUBSET Evictable(s, R, now) :
        /\ records' = Without(R, X)
        /\ leaves' = RefreshedLeaves(PrunedLeaves([leaves EXCEPT ![s].members = @ \ X], parents),
                                     records', now)
        /\ parents' = PrunedParents([leaves EXCEPT ![s].members = @ \ X], parents)
  BY Zenon DEF ObserveRecall
<1>3. /\ clock' = now /\ recordCount' = recordCount /\ slotCount' = slotCount /\ phase' = phase
      /\ todo' = {} /\ replaced' = replaced /\ leftInPast' = FALSE
  BY DEF ObserveRecall, HierarchyInv
<1>4. /\ DOMAIN R = DOMAIN records
      /\ RecordsTyped(R, recordCount, clock)
      /\ \A r \in DOMAIN records :
            /\ R[r].group = records[r].group /\ R[r].time = records[r].time
            /\ R[r].block = records[r].block
            /\ R[r].supersededBy = records[r].supersededBy
  BY <1>1, RecalledRecords
<1>5. X \subseteq leaves[s].members
  BY <1>2 DEF Evictable
<1> HIDE DEF R
<1>6. RecordsTyped(R, recordCount, now)
  <2>1. 0..clock \subseteq 0..now
    BY <1>1
  <2> QED BY <1>4, <2>1 DEF RecordsTyped, RecordType
<1>7. Good(leaves, parents, R, recordCount, slotCount, now)
  <2>1. Good(leaves, parents, records, recordCount, slotCount, now)
    BY <1>1, GoodLater DEF HierarchyInv
  <2> QED BY <2>1, <1>4, <1>6, SameRecords
<1> DEFINE m == leaves[s].members \ X
           F == [leaves EXCEPT ![s].members = @ \ X]
<1>8. leaves[s] \in LeafType(recordCount, slotCount) /\ m \in SUBSET (1..recordCount)
  BY <1>7 DEF Good, Sound, Typed, LeafType
<1>9. F = SetMembers(leaves, s, m)
  BY DEF SetMembers
<1>10. /\ leaves' = RefreshedLeaves(PrunedLeaves(F, parents), records', now)
       /\ parents' = PrunedParents(F, parents)
  BY <1>2
<1> HIDE DEF F
<1>11. /\ DOMAIN F = DOMAIN leaves
       /\ F[s] \in LeafType(recordCount, slotCount)
       /\ F[s].members = m /\ F[s].group = leaves[s].group /\ F[s].parent = leaves[s].parent
       /\ \A x \in DOMAIN leaves : x # s => F[x] = leaves[x]
  <2> HIDE DEF m
  <2> QED BY <1>8, <1>9, OtherMembers
<1>12. DOMAIN records' = DOMAIN R \ X /\ \A r \in DOMAIN records' : records'[r] = R[r]
  BY <1>2 DEF Without
<1>13. Sound(F, parents, records', recordCount, slotCount, now)
  <2>1. OnlyMembers(leaves, s, leaves[s].members \ X, F)
    BY <1>11 DEF OnlyMembers
  <2> QED BY <1>5, <1>7, <1>11, <1>12, <2>1, EvictionSound
<1>14. Good(leaves', parents', records', recordCount, slotCount, now) /\ Fresh(leaves', records')
  BY <1>10, <1>13, PruneAndSettle
<1>15. HistoryLinked(records', replaced)
  BY <1>4, <1>12 DEF HierarchyInv, HistoryLinked
<1>16. replaced \subseteq (1..recordCount) \X (0..now)
  BY HistoryLater
<1>17. UpToDate(leaves', records', leftInPast')
  BY <1>14, FreshIsUpToDate
<1> QED BY <1>1, <1>3, <1>14, <1>15, <1>16, <1>17 DEF HierarchyInv

\* maintain first prunes what is empty and refreshes every leaf.
LEMMA BeginMaintainStep ==
  ASSUME HierarchyInv, NEW now \in Times, BeginMaintain(now)
  PROVE  HierarchyInv'
<1>1. /\ clock \in Nat /\ recordCount \in Nat /\ slotCount \in Nat
      /\ now \in Nat /\ clock <= now /\ now \in 0..MaxTime
  BY TickBounds
<1>2. /\ clock' = now /\ records' = records /\ recordCount' = recordCount /\ slotCount' = slotCount
      /\ phase' = "split" /\ todo' = DOMAIN leaves' /\ replaced' = replaced /\ leftInPast' = FALSE
      /\ leaves' = RefreshedLeaves(PrunedLeaves(leaves, parents), records, now)
      /\ parents' = PrunedParents(leaves, parents)
  BY DEF BeginMaintain
<1>3. Good(leaves, parents, records, recordCount, slotCount, now)
  BY <1>1, GoodLater DEF HierarchyInv
<1>4. Good(leaves', parents', records, recordCount, slotCount, now) /\ Fresh(leaves', records)
  <2>1. Sound(leaves, parents, records, recordCount, slotCount, now)
    BY <1>3 DEF Good
  <2> QED BY <1>2, <2>1, PruneAndSettle
<1>5. replaced \subseteq (1..recordCount) \X (0..now)
  BY HistoryLater
<1>6. UpToDate(leaves', records', leftInPast')
  BY <1>2, <1>4, FreshIsUpToDate
<1> QED BY <1>1, <1>2, <1>4, <1>5, <1>6 DEF HierarchyInv

\* A step that brings no two records together in a leaf.
NoneJoin == \A x \in DOMAIN leaves' : \E q \in DOMAIN leaves : leaves'[x].members \subseteq leaves[q].members

\* maintain ends by pruning and refreshing again.
LEMMA EndMaintainStep ==
  ASSUME HierarchyInv, EndMaintain
  PROVE  HierarchyInv' /\ NoneJoin
<1>1. /\ clock' = clock /\ records' = records /\ recordCount' = recordCount /\ slotCount' = slotCount
      /\ phase' = "idle" /\ todo' = {} /\ replaced' = replaced /\ leftInPast' = leftInPast
      /\ leaves' = RefreshedLeaves(PrunedLeaves(leaves, parents), records, clock)
      /\ parents' = PrunedParents(leaves, parents)
  BY DEF EndMaintain
<1>2. /\ Good(leaves', parents', records, recordCount, slotCount, clock) /\ Fresh(leaves', records)
      /\ DOMAIN leaves' \subseteq DOMAIN leaves
      /\ \A s \in DOMAIN leaves' : leaves'[s].members = leaves[s].members
  <2>1. Sound(leaves, parents, records, recordCount, slotCount, clock)
    BY DEF HierarchyInv, Good
  <2> QED BY <1>1, <2>1, PruneAndSettle
<1>3. HierarchyInv'
  <2>1. UpToDate(leaves', records', leftInPast')
    BY <1>1, <1>2, FreshIsUpToDate
  <2> QED BY <1>1, <1>2, <2>1 DEF HierarchyInv
<1>4. NoneJoin
  BY <1>2 DEF NoneJoin
<1> QED BY <1>3, <1>4

\* A leaf that is not split changes at most its pending count.
LEMMA KeepLeafStep ==
  ASSUME HierarchyInv, NEW s \in DOMAIN leaves, KeepLeaf(s)
  PROVE  HierarchyInv' /\ NoneJoin
<1>1. /\ clock' = clock /\ records' = records /\ recordCount' = recordCount /\ slotCount' = slotCount
      /\ phase' = "split" /\ todo' = todo \ {s} /\ replaced' = replaced /\ parents' = parents /\ leftInPast' = leftInPast
  BY DEF KeepLeaf
<1>2. leaves' = leaves \/ \E pending \in 0..Patience : leaves' = [leaves EXCEPT ![s].pending = pending]
  <2>1. leaves[s].pending \in Nat /\ Patience \in Nat
    BY HierarchyAssumption DEF HierarchyInv, Good, Sound, Typed, LeafType
  <2>2. OneMorePending(s) \in 0..Patience /\ 0 \in 0..Patience
    BY <2>1 DEF OneMorePending
  <2> QED BY <2>2 DEF KeepLeaf
<1>3. /\ DOMAIN leaves' = DOMAIN leaves
      /\ \A x \in DOMAIN leaves : leaves'[x].members = leaves[x].members
      /\ Good(leaves', parents, records, recordCount, slotCount, clock)
      /\ UpToDate(leaves', records, leftInPast)
  <2>1. CASE leaves' = leaves
    BY <2>1 DEF HierarchyInv
  <2>2. CASE \E pending \in 0..Patience : leaves' = [leaves EXCEPT ![s].pending = pending]
    <3>1. PICK pending \in 0..Patience : leaves' = [leaves EXCEPT ![s].pending = pending]
      BY <2>2
    <3> DEFINE v == leaves[s]
    <3>2. v \in LeafType(recordCount, slotCount)
      BY DEF HierarchyInv, Good, Sound, Typed
    <3>3. /\ DOMAIN leaves' = DOMAIN leaves /\ leaves'[s] = [v EXCEPT !.pending = pending]
          /\ \A x \in DOMAIN leaves : x # s => leaves'[x] = leaves[x]
      BY <3>1
    <3> HIDE DEF v
    <3>4. leaves'[s] \in LeafType(recordCount, slotCount)
      BY <3>1, <3>2, <3>3 DEF LeafType
    <3>5. /\ leaves'[s].members = v.members /\ leaves'[s].group = v.group
          /\ leaves'[s].parent = v.parent /\ leaves'[s].basis = v.basis
          /\ leaves'[s].routed = v.routed
      BY <3>2, <3>3 DEF LeafType
    <3>6. \A x \in DOMAIN leaves :
            /\ leaves'[x] \in LeafType(recordCount, slotCount)
            /\ leaves'[x].members = leaves[x].members /\ leaves'[x].group = leaves[x].group
            /\ leaves'[x].parent = leaves[x].parent /\ leaves'[x].basis = leaves[x].basis
            /\ leaves'[x].routed = leaves[x].routed
      <4> SUFFICES ASSUME NEW x \in DOMAIN leaves
                   PROVE  /\ leaves'[x] \in LeafType(recordCount, slotCount)
                          /\ leaves'[x].members = leaves[x].members /\ leaves'[x].group = leaves[x].group
                          /\ leaves'[x].parent = leaves[x].parent /\ leaves'[x].basis = leaves[x].basis
                          /\ leaves'[x].routed = leaves[x].routed
        OBVIOUS
      <4>1. CASE x = s
        BY <4>1, <3>4, <3>5 DEF v
      <4>2. CASE x # s
        BY <4>2, <3>3 DEF HierarchyInv, Good, Sound, Typed
      <4> QED BY <4>1, <4>2
    <3>7. /\ Good(leaves', parents, records, recordCount, slotCount, clock)
          /\ Routes(leaves, records) => Routes(leaves', records)
          /\ Fresh(leaves, records) => Fresh(leaves', records)
      BY <3>3, <3>6, LeafStays DEF HierarchyInv
    <3> QED BY <3>3, <3>6, <3>7 DEF HierarchyInv, UpToDate
  <2> QED BY <1>2, <2>1, <2>2
<1>4. HierarchyInv'
  BY <1>1, <1>3 DEF HierarchyInv
<1>5. NoneJoin
  BY <1>3 DEF NoneJoin
<1> QED BY <1>4, <1>5

\* Merging begins with all leaves the splits have left.
LEMMA EndSplitsStep ==
  ASSUME HierarchyInv, EndSplits
  PROVE  HierarchyInv' /\ NoneJoin
<1>1. /\ clock' = clock /\ records' = records /\ recordCount' = recordCount /\ slotCount' = slotCount
      /\ phase' = "merge" /\ todo' = DOMAIN leaves /\ replaced' = replaced /\ parents' = parents
      /\ leaves' = leaves /\ leftInPast' = leftInPast
  BY DEF EndSplits
<1> QED BY <1>1 DEF HierarchyInv, NoneJoin

\* A split turns a leaf into a parent of two new leaves.
LEMMA SplitStep ==
  ASSUME HierarchyInv, NEW s \in DOMAIN leaves, Split(s)
  PROVE  HierarchyInv' /\ NoneJoin
<1> DEFINE a == slotCount + 1
           b == slotCount + 2
           cooldown == clock + SplitCooldown
           child(m) == NewLeaf(leaves[s].group, m, s, cooldown)
           Q == With(parents, s, [group |-> leaves[s].group, parent |-> leaves[s].parent,
                                  children |-> {a, b}])
<1>1. /\ clock' = clock /\ records' = records /\ recordCount' = recordCount /\ slotCount' = b
      /\ phase' = phase /\ todo' = todo \ {s} /\ replaced' = replaced /\ leftInPast' = leftInPast
      /\ parents' = Q
      /\ phase = "split"
  BY DEF Split
<1>2. PICK left \in (SUBSET leaves[s].members) \ {{}, leaves[s].members} :
        leaves' = RefreshedLeaves(With(With(Without(leaves, {s}), a, child(left)),
                                       b, child(leaves[s].members \ left)), records, clock)
  BY Zenon DEF Split
<1>3. /\ recordCount \in Nat /\ slotCount \in Nat /\ clock \in Nat
      /\ DOMAIN leaves \subseteq 1..slotCount /\ DOMAIN parents \subseteq 1..slotCount
      /\ DOMAIN leaves \cap DOMAIN parents = {}
  BY DEF HierarchyInv, Good, Sound, Typed, Linked
<1>4. s \in 1..slotCount
  BY <1>3
<1>5. /\ b \in Nat /\ slotCount <= b /\ a \in 1..b /\ b \in 1..b /\ a # b /\ s < a /\ s < b
      /\ a \notin DOMAIN leaves /\ b \notin DOMAIN leaves
      /\ a \notin DOMAIN parents /\ b \notin DOMAIN parents
      /\ s \in 0..b /\ s \in 1..b /\ s # a /\ s # b
  BY <1>3, <1>4
<1>6. cooldown \in Nat
  BY <1>3, HierarchyAssumption
<1> DEFINE right == leaves[s].members \ left
           u == child(left)
           v == child(right)
           F == With(With(Without(leaves, {s}), a, u), b, v)
<1>7. leaves' = RefreshedLeaves(F, records, clock)
  BY <1>2
<1> HIDE DEF a, b, cooldown
<1>8. Good(leaves, parents, records, recordCount, b, clock)
  BY <1>3, <1>5, GoodLater DEF HierarchyInv
<1>9. /\ leaves[s] \in LeafType(recordCount, b)
      /\ left \in SUBSET (1..recordCount) /\ right \in SUBSET (1..recordCount)
      /\ leaves[s].group \in Groups
  <2>1. leaves[s] \in LeafType(recordCount, b)
    BY <1>8 DEF Good, Sound, Typed
  <2> QED BY <2>1, <1>2 DEF LeafType
<1>10. /\ u \in LeafType(recordCount, b) /\ u.members = left /\ u.group = leaves[s].group /\ u.parent = s
       /\ v \in LeafType(recordCount, b) /\ v.members = right /\ v.group = leaves[s].group /\ v.parent = s
  <2> HIDE DEF right
  <2> QED BY <1>3, <1>5, <1>6, <1>9, NewLeafTyped
<1> HIDE DEF u, v
<1>11. /\ DOMAIN F = (DOMAIN leaves \ {s}) \cup {a, b}
       /\ F[a] = u /\ F[b] = v
       /\ \A x \in DOMAIN leaves : x # s => F[x] = leaves[x]
  BY <1>5 DEF With, Without
<1> HIDE DEF F
<1>12. /\ DOMAIN Q = DOMAIN parents \cup {s} /\ \A x \in DOMAIN parents : Q[x] = parents[x]
       /\ Q[s] = [group |-> leaves[s].group, parent |-> leaves[s].parent, children |-> {a, b}]
  BY <1>3 DEF With
<1> HIDE DEF Q
<1>13. /\ Q[s] \in ParentType(b) /\ Q[s].group = leaves[s].group /\ Q[s].parent = leaves[s].parent
       /\ Q[s].children = {a, b}
  BY <1>5, <1>9, <1>12 DEF ParentType, LeafType
<1>14. SplitOf(leaves, parents, s, a, b, left, F, Q)
  BY <1>2, <1>5, <1>10, <1>11, <1>12, <1>13 DEF SplitOf
<1>15. Good(F, Q, records, recordCount, b, clock)
  BY <1>5, <1>8, <1>10, <1>11, <1>13, <1>14, SplitKeeps
<1>16. /\ Good(leaves', Q, records, recordCount, b, clock) /\ Fresh(leaves', records)
       /\ DOMAIN leaves' = DOMAIN F /\ \A x \in DOMAIN F : leaves'[x].members = F[x].members
  BY <1>7, <1>15, RefreshKeeps
<1>17. todo' \subseteq DOMAIN leaves'
  BY <1>1, <1>11, <1>16 DEF HierarchyInv
<1>18. HierarchyInv'
  <2>1. UpToDate(leaves', records', leftInPast')
    BY <1>1, <1>16, FreshIsUpToDate
  <2> QED BY <1>1, <1>16, <1>17, <2>1 DEF HierarchyInv
<1>19. NoneJoin
  <2> SUFFICES ASSUME NEW x \in DOMAIN F
               PROVE  \E q \in DOMAIN leaves : F[x].members \subseteq leaves[q].members
    BY <1>16 DEF NoneJoin
  <2>1. CASE x \in {a, b}
    <3>1. F[x].members \subseteq leaves[s].members
      BY <2>1, <1>2, <1>10, <1>11 DEF right
    <3> QED BY <3>1
  <2>2. CASE x \notin {a, b}
    BY <2>2, <1>11
  <2> QED BY <2>1, <2>2
<1> QED BY <1>18, <1>19

\* A step that brings together no other records than those of l and of r.
JoinOnly(l, r) ==
  \A x \in DOMAIN leaves' :
    \/ leaves'[x].members \subseteq leaves[l].members \cup leaves[r].members
    \/ \E q \in DOMAIN leaves : leaves'[x].members \subseteq leaves[q].members

\* A merge joins two children of a parent, or collapses the parent into one leaf.
LEMMA MergeStep ==
  ASSUME HierarchyInv, NEW l \in DOMAIN leaves, NEW r \in DOMAIN leaves, Merge(l, r)
  PROVE  HierarchyInv' /\ JoinOnly(l, r)
<1> DEFINE p == leaves[l].parent
           k == slotCount + 1
           m == MergedId(l, r)
           cooldown == clock + MergeCooldown
           both == leaves[l].members \cup leaves[r].members
           v == NewLeaf(leaves[l].group, both, MergedParent(l, r), cooldown)
           F == With(Without(leaves, {l, r}), m, v)
           adopted == IF p \in DOMAIN parents
                        THEN [parents EXCEPT ![p].children = (@ \ {l, r}) \cup {m}]
                        ELSE parents
           Q == IF Collapses(l, r) THEN Without(parents, {p}) ELSE adopted
<1>1. /\ clock' = clock /\ records' = records /\ recordCount' = recordCount /\ slotCount' = k
      /\ phase' = phase /\ todo' = todo \ {l, r} /\ replaced' = replaced /\ leftInPast' = leftInPast
      /\ phase = "merge" /\ l # r
      /\ leaves[l].parent = leaves[r].parent /\ leaves[l].group = leaves[r].group
  BY DEF Merge, SlotsAfterMerge
<1>2. leaves' = RefreshedLeaves(F, records, clock) /\ parents' = RefreshedParents(Q, leaves')
  BY Zenon DEF Merge
<1>3. /\ recordCount \in Nat /\ slotCount \in Nat /\ clock \in Nat
      /\ DOMAIN leaves \subseteq 1..slotCount /\ DOMAIN parents \subseteq 1..slotCount
      /\ DOMAIN leaves \cap DOMAIN parents = {}
  BY DEF HierarchyInv, Good, Sound, Typed, Linked
<1>4. /\ k \in Nat /\ slotCount <= k /\ k \in 1..k
      /\ k \notin DOMAIN leaves /\ k \notin DOMAIN parents
  BY <1>3
<1>5. cooldown \in Nat
  BY <1>3, HierarchyAssumption
<1>6. Good(leaves, parents, records, recordCount, k, clock)
  <2> HIDE DEF k
  <2> QED BY <1>3, <1>4, GoodLater DEF HierarchyInv
<1>7. /\ both \in SUBSET (1..recordCount) /\ leaves[l].group \in Groups /\ p \in 0..slotCount
  <2>1. leaves[l] \in LeafType(recordCount, slotCount) /\ leaves[r] \in LeafType(recordCount, slotCount)
    BY DEF HierarchyInv, Good, Sound, Typed
  <2> QED BY <2>1 DEF LeafType
<1>8. p < k
  BY <1>3, <1>7
<1>9. 0..slotCount \subseteq 0..k
  BY <1>3, <1>4
<1> HIDE DEF k, cooldown, both
<1>10. CASE Collapses(l, r)
  <2>1. p \in DOMAIN parents /\ parents[p].children = {l, r}
        /\ m = p /\ MergedParent(l, r) = parents[p].parent /\ Q = Without(parents, {p})
    BY <1>10 DEF Collapses, MergedId, MergedParent
  <2>2. parents[p].parent \in 0..k
    BY <2>1, <1>6 DEF Good, Sound, Typed, ParentType
  <2>3. v \in LeafType(recordCount, k) /\ v.members = both /\ v.group = leaves[l].group
        /\ v.parent = parents[p].parent
    BY <2>1, <2>2, <1>3, <1>4, <1>5, <1>7, NewLeafTyped
  <2> HIDE DEF v, m, Q
  <2>4. p \notin DOMAIN leaves
    BY <2>1, <1>3
  <2>5. F = With(Without(leaves, {l, r}), p, v)
    BY <2>1
  <2> HIDE DEF F
  <2>6. /\ DOMAIN F = (DOMAIN leaves \ {l, r}) \cup {p} /\ F[p] = v
        /\ \A x \in DOMAIN leaves \ {l, r} : F[x] = leaves[x]
    BY <2>4, <2>5 DEF With, Without
  <2>7. MergedInto(leaves, l, r, p, F)
    BY <2>3, <2>4, <2>6, <1>1 DEF MergedInto, both
  <2>8. F[p] \in LeafType(recordCount, k) /\ F[p].parent = parents[p].parent
    BY <2>3, <2>6
  <2>9. p = leaves[l].parent /\ p = leaves[r].parent
    BY <1>1
  <2> HIDE DEF p
  <2>10. Good(F, Q, records, recordCount, k, clock)
    BY <2>1, <2>7, <2>8, <2>9, <1>6, CollapseKeeps
  <2>11. /\ Good(leaves', parents', records, recordCount, k, clock) /\ Fresh(leaves', records)
         /\ DOMAIN leaves' = DOMAIN F /\ \A x \in DOMAIN F : leaves'[x].members = F[x].members
    BY <1>2, <2>10, Settle
  <2>12. todo' \subseteq DOMAIN leaves'
    BY <2>6, <2>11, <1>1 DEF HierarchyInv
  <2>13. JoinOnly(l, r)
    BY <2>3, <2>6, <2>11 DEF JoinOnly, both
  <2>14. HierarchyInv'
    <3>1. UpToDate(leaves', records', leftInPast')
      BY <1>1, <2>11, FreshIsUpToDate
    <3> QED BY <1>1, <2>11, <2>12, <3>1 DEF HierarchyInv
  <2> QED BY <2>13, <2>14
<1>11. CASE ~Collapses(l, r)
  <2>1. m = k /\ MergedParent(l, r) = p /\ Q = adopted
    BY <1>11 DEF MergedId, MergedParent, k
  <2>2. p \in 0..k
    BY <1>7, <1>9
  <2>3. v \in LeafType(recordCount, k) /\ v.members = both /\ v.group = leaves[l].group /\ v.parent = p
    BY <2>1, <2>2, <1>3, <1>4, <1>5, <1>7, NewLeafTyped
  <2>4. F = With(Without(leaves, {l, r}), k, v)
    BY <2>1
  <2> HIDE DEF v, F, Q
  <2>5. /\ DOMAIN F = (DOMAIN leaves \ {l, r}) \cup {k} /\ F[k] = v
        /\ \A x \in DOMAIN leaves \ {l, r} : F[x] = leaves[x]
    BY <2>4, <1>4 DEF With, Without
  <2>6. MergedInto(leaves, l, r, k, F)
    BY <2>3, <2>5, <1>1, <1>4 DEF MergedInto, both
  <2>7. F[k] \in LeafType(recordCount, k) /\ F[k].parent = p
    BY <2>3, <2>5
  <2>8. Adopted(parents, p, l, r, k, Q) /\ (p \in DOMAIN parents => Q[p] \in ParentType(k))
    <3>1. CASE p \in DOMAIN parents
      <4> DEFINE w == parents[p]
                 c == (w.children \ {l, r}) \cup {k}
      <4>1. Q = [parents EXCEPT ![p].children = (@ \ {l, r}) \cup {m}]
        BY <2>1, <3>1
      <4>2. DOMAIN Q = DOMAIN parents /\ Q[p] = [w EXCEPT !.children = c]
            /\ \A x \in DOMAIN parents : x # p => Q[x] = parents[x]
        BY <4>1, <2>1, <3>1
      <4>3. w \in ParentType(k)
        BY <3>1, <1>6 DEF Good, Sound, Typed
      <4>4. c \in SUBSET (1..k)
        BY <4>3, <1>4 DEF ParentType
      <4> HIDE DEF c
      <4> HIDE DEF w
      <4>5. Q[p] \in ParentType(k)
        BY <4>2, <4>3, <4>4 DEF ParentType
      <4>6. Q[p].group = w.group /\ Q[p].parent = w.parent /\ Q[p].children = c
        BY <4>2, <4>3 DEF ParentType
      <4> HIDE DEF p
      <4> QED BY <4>2, <4>5, <4>6 DEF Adopted, c, w
    <3>2. CASE p \notin DOMAIN parents
      BY <2>1, <3>2 DEF Adopted
    <3> QED BY <3>1, <3>2
  <2>9. p = leaves[l].parent /\ p = leaves[r].parent
    BY <1>1
  <2> HIDE DEF p
  <2>10. Good(F, Q, records, recordCount, k, clock)
    BY <2>6, <2>7, <2>8, <2>9, <1>4, <1>6, <1>8, MergeKeeps
  <2>11. /\ Good(leaves', parents', records, recordCount, k, clock) /\ Fresh(leaves', records)
         /\ DOMAIN leaves' = DOMAIN F /\ \A x \in DOMAIN F : leaves'[x].members = F[x].members
    BY <1>2, <2>10, Settle
  <2>12. todo' \subseteq DOMAIN leaves'
    BY <2>5, <2>11, <1>1 DEF HierarchyInv
  <2>13. JoinOnly(l, r)
    BY <2>3, <2>5, <2>11 DEF JoinOnly, both
  <2>14. HierarchyInv'
    <3>1. UpToDate(leaves', records', leftInPast')
      BY <1>1, <2>11, FreshIsUpToDate
    <3> QED BY <1>1, <2>11, <2>12, <3>1 DEF HierarchyInv
  <2> QED BY <2>13, <2>14
<1> QED BY <1>10, <1>11

\* Every operation keeps the invariant.
LEMMA NextInv ==
  ASSUME HierarchyInv, Next
  PROVE  HierarchyInv'
<1>1. CASE \E now \in Times, g \in Groups, b \in Blocks \cup {NoBlock}, old \in DOMAIN records \cup {None} :
             Write(g, b, old, now)
  BY <1>1, WriteStep
<1>2. CASE \E now \in Times : RejectWrite(now)
  BY <1>2, RejectWriteStep
<1>3. CASE \E now \in Times, g \in Groups, policy \in {"current", "historical", "all"} :
             \E asOf \in IF policy = "historical" THEN 0..now ELSE {now} :
               Retrieve(g, policy, asOf, now) \/ RetrieveFails(g, asOf, now)
  <2>1. PICK now \in Times, g \in Groups, policy \in {"current", "historical", "all"} :
               \E asOf \in IF policy = "historical" THEN 0..now ELSE {now} :
                 Retrieve(g, policy, asOf, now) \/ RetrieveFails(g, asOf, now)
    BY <1>3
  <2>2. now \in 0..now
    BY TickBounds
  <2>3. PICK asOf \in 0..now : Retrieve(g, policy, asOf, now) \/ RetrieveFails(g, asOf, now)
    BY <2>1, <2>2
  <2> QED BY <2>3, RetrieveStep, RetrieveFailsStep
<1>4. CASE \E now \in Times, s \in DOMAIN leaves : ObserveRecall(s, now)
  BY <1>4, ObserveRecallStep
<1>5. CASE \E now \in Times : BeginMaintain(now)
  BY <1>5, BeginMaintainStep
<1>6. CASE \E s \in DOMAIN leaves : KeepLeaf(s) \/ Split(s)
  BY <1>6, KeepLeafStep, SplitStep
<1>7. CASE EndSplits
  BY <1>7, EndSplitsStep
<1>8. CASE \E l, r \in DOMAIN leaves : Merge(l, r)
  BY <1>8, MergeStep
<1>9. CASE EndMaintain
  BY <1>9, EndMaintainStep
<1> QED BY <1>1, <1>2, <1>3, <1>4, <1>5, <1>6, <1>7, <1>8, <1>9 DEF Next

\* A step that changes nothing keeps the invariant.
LEMMA StutterInv ==
  ASSUME HierarchyInv, UNCHANGED vars
  PROVE  HierarchyInv'
  BY DEF HierarchyInv, vars

------------------------------------------------------------------------------
\* Forest, records and statistics fit together whatever splits, collapses, merges,
\* evictions and reads of the past come before; a read of the past that raised leaves
\* the statistics of the past until the next refresh, and nothing else out of place.
THEOREM HierarchyHolds == Spec => []HierarchyInv
<1>1. Init => HierarchyInv
  BY InitInv
<1>2. HierarchyInv /\ [Next]_vars => HierarchyInv'
  BY NextInv, StutterInv
<1> QED BY <1>1, <1>2, PTL DEF Spec

\* The parts of the invariant about the forest give its consistency.
LEMMA InvGivesConsistent ==
  ASSUME HierarchyInv
  PROVE  HierarchyConsistent
<1>1. TypeOK
  <2>1. Typed(leaves, parents, records, recordCount, slotCount, clock)
    BY DEF HierarchyInv, Good, Sound
  <2>2. \A r \in DOMAIN records :
           records[r] \in [group : Groups, time : 0..clock, supersededBy : 0..recordCount,
                           recalls : 0..MinRecalls, block : Blocks \cup {NoBlock}]
    BY <2>1 DEF Typed, RecordType
  <2>3. \A s \in DOMAIN leaves :
           leaves[s] \in [group : Groups, members : SUBSET (1..recordCount), parent : 0..slotCount,
                          cooldown : Nat, pending : 0..Patience,
                          basis : SUBSET (1..recordCount), routed : SUBSET (1..recordCount)]
    BY <2>1 DEF Typed, LeafType
  <2>4. \A s \in DOMAIN parents :
           parents[s] \in [group : Groups, parent : 0..slotCount, children : SUBSET (1..slotCount)]
    BY <2>1 DEF Typed, ParentType
  <2>5. DOMAIN records \subseteq 1..recordCount /\ Slots \subseteq 1..slotCount
    BY <2>1 DEF Typed, Slots
  <2> QED BY <2>2, <2>3, <2>4, <2>5 DEF TypeOK, HierarchyInv
<1>2. ForestConsistent
  <2>1. Linked(leaves, parents)
    BY DEF HierarchyInv, Good, Sound
  <2>2. ASSUME NEW s \in DOMAIN parents, NEW c \in parents[s].children
        PROVE  c \in Slots /\ ParentOf(c) = s /\ GroupOf(c) = parents[s].group
    <3>1. Below(leaves, parents, c, s) /\ DOMAIN leaves \cap DOMAIN parents = {}
      BY <2>1 DEF Linked
    <3> QED BY <3>1 DEF Below, Slots, ParentOf, GroupOf
  <2>3. ASSUME NEW s \in Slots, ParentOf(s) # None
        PROVE  ParentOf(s) \in DOMAIN parents /\ s \in parents[ParentOf(s)].children
    BY <2>1, <2>3 DEF Linked, Slots, ParentOf
  <2>4. DOMAIN leaves \cap DOMAIN parents = {} /\ \A s \in DOMAIN parents : parents[s].children # {}
    BY <2>1 DEF Linked
  <2> QED BY <2>2, <2>3, <2>4 DEF ForestConsistent
<1>3. RecordsPartitioned
  BY DEF HierarchyInv, Good, Sound, Placed, NoneEmpty, RecordsPartitioned
<1> QED BY <1>1, <1>2, <1>3 DEF HierarchyConsistent

\* The reachability lemmas with the invariant give that every record can be routed to.
LEMMA InvGivesRoutable ==
  ASSUME HierarchyInv
  PROVE  EveryRecordRoutable
<1> SUFFICES ASSUME NEW r \in DOMAIN records PROVE r \in Reachable(records[r].group)
  BY DEF EveryRecordRoutable
<1>1. PICK s \in DOMAIN leaves : r \in leaves[s].members /\ leaves[s].group = records[r].group
  BY DEF HierarchyInv, Good, Sound, Placed
<1>2. s \in Descend(records[r].group)
  BY <1>1, EverySlotReached DEF HierarchyInv
<1> QED BY <1>1, <1>2 DEF Reachable

\* The part of the invariant about supersession gives what a read of the past relies on.
LEMMA InvGivesHistory ==
  ASSUME HierarchyInv
  PROVE  HistoryIsKept
<1>1. Typed(leaves, parents, records, recordCount, slotCount, clock) /\ HistoryLinked(records, replaced)
  BY DEF HierarchyInv, Good, Sound
<1>2. ASSUME NEW r \in DOMAIN records
      PROVE  records[r].time \in 0..clock /\ clock \in Nat
  <2>1. records[r] \in RecordType(recordCount, clock)
    BY <1>1 DEF Typed
  <2> QED BY <1>1, <2>1 DEF RecordType, Typed
<1>3. ASSUME NEW r \in DOMAIN records, NEW t \in records[r].time..clock,
             \A x \in replaced : x[1] = r => x[2] > t
      PROVE  VisibleAt(r, t)
  <2>1. records[r].time <= t
    BY <1>2
  <2>2. ASSUME records[r].supersededBy \in DOMAIN records
        PROVE  records[records[r].supersededBy].time > t
    <3> DEFINE x == <<r, records[records[r].supersededBy].time>>
    <3>1. x \in replaced
      BY <2>2, <1>1 DEF HistoryLinked
    <3>2. x[1] = r /\ x[2] = records[records[r].supersededBy].time
      OBVIOUS
    <3> HIDE DEF x
    <3> QED BY <3>1, <3>2, <1>3
  <2> QED BY <2>1, <2>2 DEF VisibleAt
<1>4. ASSUME NEW r \in DOMAIN records, VisibleAt(r, clock), records[r].supersededBy \in DOMAIN records
      PROVE  Current(r)
  <2>1. records[records[r].supersededBy].time > clock
    BY <1>4 DEF VisibleAt
  <2> QED BY <2>1, <1>2, <1>4
<1> QED BY <1>3, <1>4 DEF HistoryIsKept

\* The memory's slots, links, records and statistics match: no split, collapse, merge or
\* eviction leaves a record where hierarchical routing misses it, and no read of the past
\* leaves its statistics behind unless it raised and nothing was refreshed since.
THEOREM InReach == Spec => []RecordsInReach
<1>1. HierarchyInv => RecordsInReach
  <2> SUFFICES ASSUME HierarchyInv PROVE RecordsInReach
    OBVIOUS
  <2>1. StatisticsFresh
    BY DEF HierarchyInv, UpToDate, Routes, Fresh, StatisticsFresh
  <2> QED BY <2>1, InvGivesConsistent, InvGivesRoutable DEF RecordsInReach
<1> QED BY <1>1, HierarchyHolds, PTL

\* A read as of t shows what was current at t, unless the record itself was evicted.
THEOREM PastIsKept == Spec => []HistoryIsKept
<1>1. HierarchyInv => HistoryIsKept
  BY InvGivesHistory
<1> QED BY <1>1, HierarchyHolds, PTL

------------------------------------------------------------------------------
(* What a step may do.                                                     *)

\* An observation evicts from its own leaf, no more than leaves the floor, and only
\* what was recalled and is out of protection.
LEMMA ObservedEviction ==
  ASSUME HierarchyInv, NEW now \in Times, NEW s \in DOMAIN leaves, ObserveRecall(s, now),
         NEW r \in DOMAIN records \ DOMAIN records'
  PROVE  /\ phase = "idle" /\ phase' = "idle"
         /\ clock' - records[r].time >= Protection
         /\ records[r].recalls + 1 >= MinRecalls
         /\ DOMAIN records \ DOMAIN records' \subseteq leaves[s].members
         /\ Cardinality(leaves[s].members \cap DOMAIN records') >= KeepPerCluster
<1> DEFINE R == Recalled(records, leaves[s].members)
           m == leaves[s].members
<1>1. RecordsTyped(records, recordCount, clock) /\ recordCount \in Nat
  BY TickBounds
<1>2. PICK X \in SUBSET Evictable(s, R, now) :
        Cardinality(X) <= MostEvicted(s) /\ records' = Without(R, X)
  BY Zenon DEF ObserveRecall
<1>3. phase = "idle" /\ phase' = "idle" /\ clock' = now
  BY DEF ObserveRecall
<1>4. /\ DOMAIN R = DOMAIN records /\ RecordsTyped(R, recordCount, clock)
      /\ \A x \in DOMAIN records : R[x].time = records[x].time /\ R[x].recalls <= records[x].recalls + 1
  BY <1>1, RecalledRecords
<1>5. /\ X \subseteq m
      /\ \A x \in X : R[x].recalls >= MinRecalls /\ now - R[x].time >= Protection
  BY <1>2 DEF Evictable
<1> HIDE DEF R
<1>6. DOMAIN records' = DOMAIN records \ X
  BY <1>2, <1>4 DEF Without
<1>7. r \in X /\ DOMAIN records \ DOMAIN records' \subseteq m
  BY <1>5, <1>6
<1>8. records[r].recalls \in Nat /\ R[r].recalls \in Nat /\ MinRecalls \in Nat
  BY <1>1, <1>4, HierarchyAssumption DEF RecordsTyped, RecordType
<1>9. clock' - records[r].time >= Protection /\ records[r].recalls + 1 >= MinRecalls
  BY <1>3, <1>4, <1>5, <1>7, <1>8
<1>10. Cardinality(m \cap DOMAIN records') >= KeepPerCluster
  <2>1. m \subseteq 1..recordCount /\ m \subseteq DOMAIN records
    BY DEF HierarchyInv, Good, Sound, Typed, LeafType, Placed
  <2>2. IsFiniteSet(1..recordCount)
    BY <1>1, FS_Interval
  <2>3. IsFiniteSet(m)
    BY <2>1, <2>2, FS_Subset
  <2>4. m \cap DOMAIN records' = m \ X
    BY <1>5, <1>6, <2>1
  <2>5. IsFiniteSet(X) /\ m \cap X = X
    BY <1>5, <2>3, FS_Subset
  <2>6. Cardinality(m) \in Nat /\ Cardinality(X) \in Nat
    BY <2>3, <2>5, FS_CardinalityType
  <2>7. Cardinality(m \ X) = Cardinality(m) - Cardinality(X)
    BY <2>3, <2>5, FS_Difference
  <2>8. Cardinality(X) # 0
    BY <1>7, <2>5, FS_EmptySet
  <2>9. KeepPerCluster \in Nat
    BY HierarchyAssumption
  <2>10. Cardinality(X) <= Cardinality(m) - KeepPerCluster
    BY <1>2, <2>6, <2>8, <2>9 DEF MostEvicted
  <2> HIDE DEF m
  <2> QED BY <2>4, <2>6, <2>7, <2>9, <2>10
<1> QED BY <1>3, <1>7, <1>9, <1>10

\* No other operation removes a record.
LEMMA OthersKeepRecords ==
  ASSUME HierarchyInv, Next, ~(\E now \in Times, s \in DOMAIN leaves : ObserveRecall(s, now))
  PROVE  DOMAIN records \subseteq DOMAIN records'
<1>1. CASE \E now \in Times, g \in Groups, b \in Blocks \cup {NoBlock}, old \in DOMAIN records \cup {None} :
             Write(g, b, old, now)
  <2>1. PICK now \in Times, g \in Groups, b \in Blocks \cup {NoBlock}, old \in DOMAIN records \cup {None} :
             Write(g, b, old, now)
    BY <1>1, Zenon
  <2> DEFINE hidden == [r \in DOMAIN records |->
                          IF r = old THEN [records[r] EXCEPT !.supersededBy = NewRecordId] ELSE records[r]]
  <2>2. records' = With(hidden, NewRecordId, [group |-> g, time |-> now, supersededBy |-> None,
                                              recalls |-> 0, block |-> b])
    BY <2>1, Zenon DEF Write
  <2>3. DOMAIN records' = DOMAIN hidden \cup {NewRecordId}
    BY <2>2, Zenon DEF With
  <2> QED BY <2>3
<1>2. CASE \E now \in Times, g \in Groups, policy \in {"current", "historical", "all"} :
             \E asOf \in IF policy = "historical" THEN 0..now ELSE {now} : Retrieve(g, policy, asOf, now)
  <2>1. PICK X : records' = Recalled(records, X)
    BY <1>2, Zenon DEF Retrieve
  <2> QED BY <2>1 DEF Recalled
<1>3. CASE records' = records
  BY <1>3
<1> QED BY <1>1, <1>2, <1>3 DEF Next, RejectWrite, RetrieveFails, BeginMaintain, KeepLeaf, Split, EndSplits, Merge, EndMaintain

\* Records are lost to the recall of their own cluster only, never to maintenance, never
\* below the floor of the cluster, never before they were recalled often enough and are out
\* of protection.
THEOREM EvictionIsConfined == Spec => EvictionConfined
<1> DEFINE Lost(r) ==
      /\ phase = "idle" /\ phase' = "idle"
      /\ clock' - records[r].time >= Protection
      /\ records[r].recalls + 1 >= MinRecalls
      /\ \E s \in DOMAIN leaves :
           /\ DOMAIN records \ DOMAIN records' \subseteq leaves[s].members
           /\ Cardinality(leaves[s].members \cap DOMAIN records') >= KeepPerCluster
<1>1. HierarchyInv /\ [Next]_vars => [\A r \in DOMAIN records \ DOMAIN records' : Lost(r)]_vars
  <2> SUFFICES ASSUME HierarchyInv, Next, NEW r \in DOMAIN records \ DOMAIN records' PROVE Lost(r)
    BY DEF vars
  <2>1. CASE \E now \in Times, s \in DOMAIN leaves : ObserveRecall(s, now)
    BY <2>1, ObservedEviction
  <2>2. CASE ~(\E now \in Times, s \in DOMAIN leaves : ObserveRecall(s, now))
    BY <2>2, OthersKeepRecords
  <2> QED BY <2>1, <2>2
<1> QED BY <1>1, HierarchyHolds, PTL DEF Spec, EvictionConfined

\* Maintenance never brings a record and the version that supersedes it together in one
\* cluster: merges look for a supersession in both directions.
THEOREM VersionsAreApart == Spec => VersionsStayApart
<1> DEFINE Apart == \A s \in DOMAIN leaves', r \in DOMAIN records :
                      /\ phase # "idle"
                      /\ {r, records[r].supersededBy} \subseteq leaves'[s].members
                      => \E q \in DOMAIN leaves : {r, records[r].supersededBy} \subseteq leaves[q].members
<1>1. HierarchyInv /\ [Next]_vars => [Apart]_vars
  <2> SUFFICES ASSUME HierarchyInv, Next, NEW s \in DOMAIN leaves', NEW r \in DOMAIN records,
                      phase # "idle", {r, records[r].supersededBy} \subseteq leaves'[s].members
               PROVE  \E q \in DOMAIN leaves : {r, records[r].supersededBy} \subseteq leaves[q].members
    BY DEF vars
  <2>1. CASE NoneJoin
    BY <2>1 DEF NoneJoin
  <2>2. CASE \E x, y \in DOMAIN leaves : Merge(x, y)
    <3>1. PICK x \in DOMAIN leaves, y \in DOMAIN leaves : Merge(x, y)
      BY <2>2
    <3>2. JoinOnly(x, y)
      BY <3>1, MergeStep
    <3>3. ~CrossSupersession(x, y)
      BY <3>1 DEF Merge
    <3>4. CASE {r, records[r].supersededBy} \subseteq leaves[x].members \cup leaves[y].members
      <4>1. ~(r \in leaves[x].members /\ records[r].supersededBy \in leaves[y].members)
        BY <3>3 DEF CrossSupersession
      <4>2. ~(r \in leaves[y].members /\ records[r].supersededBy \in leaves[x].members)
        BY <3>3 DEF CrossSupersession
      <4> QED BY <3>4, <4>1, <4>2
    <3> QED BY <3>2, <3>4 DEF JoinOnly
  <2>3. CASE \E x \in DOMAIN leaves : KeepLeaf(x) \/ Split(x)
    BY <2>1, <2>3, KeepLeafStep, SplitStep
  <2>4. CASE EndSplits
    BY <2>1, <2>4, EndSplitsStep
  <2>5. CASE EndMaintain
    BY <2>1, <2>5, EndMaintainStep
  <2>6. \A now, g, b, old : ~Write(g, b, old, now) /\ ~RejectWrite(now)
    BY DEF Write, RejectWrite
  <2>7. \A now, g, policy, asOf : ~Retrieve(g, policy, asOf, now)
    BY DEF Retrieve
  <2>7a. \A now, g, asOf : ~RetrieveFails(g, asOf, now)
    BY DEF RetrieveFails
  <2>8. \A now, x : ~ObserveRecall(x, now) /\ ~BeginMaintain(now)
    BY DEF ObserveRecall, BeginMaintain
  <2> QED BY <2>2, <2>3, <2>4, <2>5, <2>6, <2>7, <2>7a, <2>8 DEF Next
<1> QED BY <1>1, HierarchyHolds, PTL DEF Spec, VersionsStayApart

------------------------------------------------------------------------------
(* The bridge: what it makes of the memory is a behaviour of the memory, and *)
(* the payloads beside it are those of the records they are kept for.       *)

\* A block is in ingest, and some of its records are not yet written.
InBlock ==
  /\ writing.block \in Blocks /\ writing.done \in Nat
  /\ writing.done < Len(Parts[writing.block])
  /\ begun[writing.block] >= 1

\* What payloads P, of record ids below n, have to do with the records R of memory.
PayloadsFit(P, R, n) ==
  /\ DOMAIN P \subseteq 1..n
  /\ \A r \in DOMAIN P : P[r] \in Blocks \X Nat
  /\ \A r \in DOMAIN R : r \in DOMAIN P /\ P[r][1] = R[r].block

\* Two payloads are equal only if their block was handed in more than once; while it is
\* written the first time, its payloads are those before the record that is due.
PayloadsDistinct(P, count, w) ==
  /\ \A r \in DOMAIN P : count[P[r][1]] >= 1
  /\ \A r, q \in DOMAIN P : P[r] = P[q] /\ count[P[r][1]] = 1 => r = q
  /\ \A r \in DOMAIN P : w # NotWriting /\ P[r][1] = w.block /\ count[w.block] = 1 => P[r][2] <= w.done

\* The reader's selection, as far as its payloads are still there.
HeldFits(H, P, n) ==
  /\ DOMAIN H \subseteq 1..n
  /\ \A r \in DOMAIN H \cap DOMAIN P : H[r] = P[r]

\* The bridge fits together between any two of its steps.
BridgeInv ==
  /\ HierarchyInv
  /\ begun \in [Blocks -> Nat]
  /\ writing # NotWriting => InBlock
  /\ PayloadsFit(payloads, records, recordCount)
  /\ PayloadsDistinct(payloads, begun, writing)
  /\ HeldFits(held, payloads, recordCount)

\* The empty bridge has no payload, no block and no selection.
LEMMA BridgeInitInv ==
  ASSUME BridgeInit
  PROVE  BridgeInv
<1>1. HierarchyInv
  BY InitInv DEF BridgeInit
<1>2. DOMAIN payloads = {} /\ DOMAIN held = {} /\ writing = NotWriting /\ begun = [b \in Blocks |-> 0]
      /\ DOMAIN records = {}
  BY DEF BridgeInit, Init
<1> QED BY <1>1, <1>2 DEF BridgeInv, PayloadsFit, PayloadsDistinct, HeldFits

\* A record that is due has a group of the memory, and its place in the block.
LEMMA DuePart ==
  ASSUME InBlock
  PROVE  /\ PartDue(writing.block, writing.done).group \in Groups
         /\ PartDue(writing.block, writing.done).position = writing.done + 1
         /\ writing.block # NoBlock
<1>1. Parts[writing.block] \in Seq(Groups)
  BY BridgeAssumption DEF InBlock
<1>2. writing.done + 1 \in 1..Len(Parts[writing.block])
  BY <1>1 DEF InBlock
<1>3. Parts[writing.block][writing.done + 1] \in Groups
  BY <1>1, <1>2
<1> QED BY <1>3, HierarchyAssumption DEF PartDue, InBlock

------------------------------------------------------------------------------
(* Every step of the bridge is a step of the memory, or leaves it alone.   *)

\* Every step of the bridge is a step of the memory or leaves it alone.
LEMMA BridgeStepsMemory ==
  ASSUME BridgeInv, BridgeNext
  PROVE  [Next]_vars
<1>1. CASE \E now \in Times : WriteRecord(now)
  <2>1. PICK now \in Times : WriteRecord(now)
    BY <1>1
  <2>2. InBlock
    BY <2>1 DEF WriteRecord, BetweenBlocks, BridgeInv
  <2>3. Write(PartDue(writing.block, writing.done).group, writing.block, None, now)
    BY <2>1 DEF WriteRecord
  <2>4. writing.block \in Blocks \cup {NoBlock} /\ None \in DOMAIN records \cup {None}
    BY <2>2 DEF InBlock
  <2> QED BY <2>1, <2>2, <2>3, <2>4, DuePart DEF Next
<1>2. CASE \E now \in Times : FailBlock(now)
  BY <1>2 DEF FailBlock, Next
<1>3. CASE MemoryOperation
  BY <1>3 DEF MemoryOperation, Next
<1>4. CASE (\E b \in Blocks : BeginBlock(b)) \/ (\E g \in Groups : SelectClusters(g)) \/ Synchronize
  <2>1. UNCHANGED vars
    BY <1>4 DEF BeginBlock, SelectClusters, Synchronize
  <2> QED BY <2>1
<1> QED BY <1>1, <1>2, <1>3, <1>4 DEF BridgeNext

\* So the bridge keeps the invariant of the memory.
LEMMA BridgeKeepsMemory ==
  ASSUME BridgeInv, BridgeNext
  PROVE  HierarchyInv'
<1>1. HierarchyInv
  BY DEF BridgeInv
<1>2. [Next]_vars
  BY BridgeStepsMemory
<1> QED BY <1>1, <1>2, NextInv, StutterInv

------------------------------------------------------------------------------
(* The invariant.                                                          *)

\* Between blocks memory evicts records and rearranges its slots, but a record that stays
\* keeps its block.
LEMMA OperationsKeepBlocks ==
  ASSUME BridgeInv, MemoryOperation
  PROVE  /\ recordCount' = recordCount /\ DOMAIN records' \subseteq DOMAIN records
         /\ \A r \in DOMAIN records' : records'[r].block = records[r].block
         /\ UNCHANGED bridgeVars
<1>1. RecordsTyped(records, recordCount, clock)
  BY DEF BridgeInv, HierarchyInv, Good, Sound, Typed, RecordsTyped
<1>2. UNCHANGED bridgeVars
  BY DEF MemoryOperation
<1>3. CASE \E now \in Times, s \in DOMAIN leaves : ObserveRecall(s, now)
  <2>1. PICK now \in Times, s \in DOMAIN leaves : ObserveRecall(s, now)
    BY <1>3
  <2> DEFINE R == Recalled(records, leaves[s].members)
  <2>2. \E X : records' = Without(R, X)
    BY <2>1, Zenon DEF ObserveRecall
  <2>3. DOMAIN R = DOMAIN records /\ \A r \in DOMAIN records : R[r].block = records[r].block
    BY <1>1, RecalledRecords
  <2>4. recordCount' = recordCount
    BY <2>1 DEF ObserveRecall
  <2> HIDE DEF R
  <2> QED BY <1>2, <2>2, <2>3, <2>4 DEF Without
<1>4. CASE records' = records /\ recordCount' = recordCount
  BY <1>2, <1>4
<1> QED BY <1>3, <1>4 DEF MemoryOperation, BeginMaintain, KeepLeaf, Split, EndSplits, Merge, EndMaintain

\* Maintenance, recalls and evictions touch no payload.
LEMMA MemoryOperationInv ==
  ASSUME BridgeInv, MemoryOperation
  PROVE  BridgeInv'
<1>1. HierarchyInv'
  BY BridgeKeepsMemory DEF BridgeNext
<1>2. /\ recordCount' = recordCount /\ DOMAIN records' \subseteq DOMAIN records
      /\ \A r \in DOMAIN records' : records'[r].block = records[r].block
      /\ payloads' = payloads /\ writing' = writing /\ held' = held /\ begun' = begun
  BY OperationsKeepBlocks DEF bridgeVars
<1>3. PayloadsFit(payloads, records', recordCount)
  BY <1>2 DEF BridgeInv, PayloadsFit
<1> QED BY <1>1, <1>2, <1>3 DEF BridgeInv, InBlock

\* Handing in a block touches no payload.
LEMMA BeginBlockInv ==
  ASSUME BridgeInv, NEW b \in Blocks, BeginBlock(b)
  PROVE  BridgeInv'
<1>1. HierarchyInv'
  BY BridgeKeepsMemory DEF BridgeNext
<1>2. /\ recordCount' = recordCount /\ records' = records /\ payloads' = payloads /\ held' = held
      /\ writing' = [block |-> b, done |-> 0] /\ begun' = [begun EXCEPT ![b] = @ + 1]
  BY DEF BeginBlock, vars
<1>3. begun' \in [Blocks -> Nat] /\ begun'[b] = begun[b] + 1
      /\ \A x \in Blocks : x # b => begun'[x] = begun[x]
  BY <1>2 DEF BridgeInv
<1>4. begun[b] \in Nat
  BY DEF BridgeInv
<1>5. InBlock'
  <2>1. Parts[b] \in Seq(Groups) /\ Parts[b] # <<>>
    BY BridgeAssumption
  <2>2. 0 < Len(Parts[b])
    BY <2>1
  <2>3. begun'[b] >= 1
    BY <1>3, <1>4
  <2> QED BY <1>2, <2>2, <2>3 DEF InBlock
<1>6. \A r \in DOMAIN payloads : payloads[r][1] \in Blocks
  BY DEF BridgeInv, PayloadsFit
<1>7. PayloadsDistinct(payloads, begun', writing')
  <2>1. \A r \in DOMAIN payloads : begun[payloads[r][1]] >= 1 /\ begun[payloads[r][1]] \in Nat
    BY <1>6 DEF BridgeInv, PayloadsDistinct
  <2>2. \A r \in DOMAIN payloads : payloads[r][1] = b => begun'[b] # 1
    BY <2>1, <1>3
  <2>3. \A r \in DOMAIN payloads : begun'[payloads[r][1]] >= 1
    <3> SUFFICES ASSUME NEW r \in DOMAIN payloads PROVE begun'[payloads[r][1]] >= 1
      OBVIOUS
    <3>1. CASE payloads[r][1] = b
      BY <3>1, <1>3, <1>4
    <3>2. CASE payloads[r][1] # b
      BY <3>2, <1>3, <1>6, <2>1
    <3> QED BY <3>1, <3>2
  <2>4. ASSUME NEW r \in DOMAIN payloads, NEW q \in DOMAIN payloads, payloads[r] = payloads[q],
               begun'[payloads[r][1]] = 1
        PROVE  r = q
    <3>1. payloads[r][1] # b
      BY <2>2, <2>4
    <3>2. begun[payloads[r][1]] = 1
      BY <3>1, <1>3, <1>6, <2>4
    <3> QED BY <3>2, <2>4 DEF BridgeInv, PayloadsDistinct
  <2>5. \A r \in DOMAIN payloads : writing' # NotWriting /\ payloads[r][1] = writing'.block
                                   /\ begun'[writing'.block] = 1 => payloads[r][2] <= writing'.done
    BY <1>2, <2>2
  <2> QED BY <2>3, <2>4, <2>5 DEF PayloadsDistinct
<1> QED BY <1>1, <1>2, <1>3, <1>5, <1>7 DEF BridgeInv

\* What memory.write adds.
LEMMA WrittenRecord ==
  ASSUME HierarchyInv, NEW now \in Times, NEW g \in Groups, NEW b \in Blocks, Write(g, b, None, now)
  PROVE  /\ recordCount' = recordCount + 1
         /\ DOMAIN records' = DOMAIN records \cup {recordCount + 1}
         /\ records'[recordCount + 1].block = b
         /\ \A r \in DOMAIN records : records'[r].block = records[r].block
<1> DEFINE S == records'
<1>1. /\ clock \in Nat /\ recordCount \in Nat /\ now \in Nat /\ clock <= now
      /\ RecordsTyped(records, recordCount, clock)
  BY TickBounds
<1>2. S = Stored(records, recordCount, None, g, b, now) /\ recordCount' = recordCount + 1
  BY Zenon DEF Write, NewRecordId, Stored
<1> HIDE DEF S
<1>3. HasNew(records, S, recordCount + 1, None, g, b, now)
  <2>1. b \in Blocks \cup {NoBlock}
    OBVIOUS
  <2> QED BY <1>1, <1>2, <2>1, StoredRecords
<1>4. /\ DOMAIN S = DOMAIN records \cup {recordCount + 1} /\ S[recordCount + 1].block = b
      /\ \A r \in DOMAIN records : S[r].block = records[r].block
  BY <1>3 DEF HasNew
<1> QED BY <1>2, <1>4 DEF S

\* A record is written and its payload registered under the new id.
LEMMA WriteRecordInv ==
  ASSUME BridgeInv, NEW now \in Times, WriteRecord(now)
  PROVE  BridgeInv'
<1>1. HierarchyInv'
  BY BridgeKeepsMemory DEF BridgeNext
<1> DEFINE b == writing.block
           d == writing.done
           i == recordCount + 1
<1>2. InBlock /\ writing # NotWriting
  BY DEF WriteRecord, BetweenBlocks, BridgeInv
<1>3. b \in Blocks /\ d \in Nat /\ begun[b] >= 1 /\ begun[b] \in Nat /\ recordCount \in Nat
  BY <1>2 DEF InBlock, BridgeInv, HierarchyInv, Good, Sound, Typed
<1>4. /\ PartDue(b, d).group \in Groups /\ PartDue(b, d).position = d + 1
  BY <1>2, DuePart
<1>5. /\ Write(PartDue(b, d).group, b, None, now)
      /\ payloads' = With(payloads, i, <<b, PartDue(b, d).position>>)
      /\ writing' = IF d + 1 = Len(Parts[b]) THEN NotWriting ELSE [writing EXCEPT !.done = @ + 1]
      /\ held' = held /\ begun' = begun
  BY Zenon DEF WriteRecord, Registered, NewRecordId
<1>6. /\ recordCount' = i /\ DOMAIN records' = DOMAIN records \cup {i}
      /\ records'[i].block = b /\ \A r \in DOMAIN records : records'[r].block = records[r].block
  <2>1. HierarchyInv
    BY DEF BridgeInv
  <2> QED BY <2>1, <1>3, <1>4, <1>5, WrittenRecord
<1>7. i \notin 1..recordCount /\ i \in 1..i /\ 1..recordCount \subseteq 1..i
  BY <1>3
<1>8. PayloadsFit(payloads, records, recordCount) /\ PayloadsDistinct(payloads, begun, writing)
      /\ HeldFits(held, payloads, recordCount)
  BY DEF BridgeInv
<1>9. i \notin DOMAIN payloads /\ i \notin DOMAIN held
  BY <1>7, <1>8 DEF PayloadsFit, HeldFits
<1>10. \/ writing'.block = b /\ writing'.done = d + 1
       \/ writing' = NotWriting
  BY <1>5 DEF BridgeInv
<1> HIDE DEF i
<1>11. /\ DOMAIN payloads' = DOMAIN payloads \cup {i} /\ payloads'[i] = <<b, d + 1>>
       /\ \A r \in DOMAIN payloads : payloads'[r] = payloads[r]
  BY <1>4, <1>5, <1>9 DEF With
<1>12. PayloadsFit(payloads', records', i)
  <2>1. <<b, d + 1>> \in Blocks \X Nat /\ <<b, d + 1>>[1] = b
    BY <1>3
  <2>2. DOMAIN payloads' \subseteq 1..i
    BY <1>7, <1>8, <1>11 DEF PayloadsFit
  <2>3. \A r \in DOMAIN payloads' : payloads'[r] \in Blocks \X Nat
    BY <1>8, <1>11, <2>1 DEF PayloadsFit
  <2>4. \A r \in DOMAIN records' : r \in DOMAIN payloads' /\ payloads'[r][1] = records'[r].block
    BY <1>6, <1>8, <1>11, <2>1 DEF PayloadsFit
  <2> QED BY <2>2, <2>3, <2>4 DEF PayloadsFit
<1>13. HeldFits(held, payloads', i)
  BY <1>7, <1>8, <1>9, <1>11 DEF HeldFits
<1>14. PayloadsDistinct(payloads', begun, writing')
  <2>1. <<b, d + 1>>[1] = b /\ <<b, d + 1>>[2] = d + 1
    OBVIOUS
  <2>2. \A r \in DOMAIN payloads : payloads[r][1] = b /\ begun[b] = 1 => payloads[r][2] <= d
    BY <1>2, <1>8 DEF PayloadsDistinct
  <2>3. \A r \in DOMAIN payloads : payloads[r][2] \in Nat
    BY <1>8 DEF PayloadsFit
  <2>4. \A r \in DOMAIN payloads : payloads[r] = <<b, d + 1>> => begun[b] # 1
    BY <2>1, <2>2, <1>3
  <2>5. \A r \in DOMAIN payloads' : begun[payloads'[r][1]] >= 1
    BY <2>1, <1>3, <1>8, <1>11 DEF PayloadsDistinct
  <2>6. ASSUME NEW r \in DOMAIN payloads', NEW q \in DOMAIN payloads', payloads'[r] = payloads'[q],
               begun[payloads'[r][1]] = 1
        PROVE  r = q
    <3>1. CASE r \in DOMAIN payloads /\ q \in DOMAIN payloads
      BY <3>1, <2>6, <1>8, <1>11 DEF PayloadsDistinct
    <3>2. CASE r = i \/ q = i
      <4>1. payloads'[r] = <<b, d + 1>> /\ payloads'[q] = <<b, d + 1>> /\ begun[b] = 1
        BY <3>2, <2>1, <2>6, <1>11
      <4> QED BY <4>1, <2>4, <1>11
    <3> QED BY <3>1, <3>2, <1>11
  <2>7. ASSUME NEW r \in DOMAIN payloads', writing' # NotWriting, payloads'[r][1] = writing'.block,
               begun[writing'.block] = 1
        PROVE  payloads'[r][2] <= writing'.done
    <3>1. writing'.block = b /\ writing'.done = d + 1
      BY <2>7, <1>10
    <3>2. CASE r = i
      BY <3>1, <3>2, <2>1, <1>3, <1>11
    <3>3. CASE r \in DOMAIN payloads
      BY <3>1, <3>3, <2>2, <2>3, <2>7, <1>3, <1>11
    <3> QED BY <3>2, <3>3, <1>11
  <2> QED BY <2>5, <2>6, <2>7 DEF PayloadsDistinct
<1>15. writing' # NotWriting => InBlock'
  <2> SUFFICES ASSUME writing' # NotWriting PROVE InBlock'
    OBVIOUS
  <2>1. writing'.block = b /\ writing'.done = d + 1 /\ d + 1 # Len(Parts[b])
    BY <1>5, <1>10
  <2>2. d < Len(Parts[b]) /\ Len(Parts[b]) \in Nat
    <3>1. Parts[b] \in Seq(Groups)
      BY <1>3, BridgeAssumption
    <3> QED BY <3>1, <1>2 DEF InBlock
  <2>3. d + 1 < Len(Parts[b]) /\ d + 1 \in Nat
    BY <2>1, <2>2, <1>3
  <2> QED BY <2>1, <2>3, <1>3, <1>5 DEF InBlock
<1> QED BY <1>1, <1>5, <1>6, <1>12, <1>13, <1>14, <1>15 DEF BridgeInv

\* A failed block leaves its written records and their payloads.
LEMMA FailBlockInv ==
  ASSUME BridgeInv, NEW now \in Times, FailBlock(now)
  PROVE  BridgeInv'
<1>1. HierarchyInv'
  BY BridgeKeepsMemory DEF BridgeNext
<1>2. /\ recordCount' = recordCount /\ records' = records /\ payloads' = payloads /\ held' = held
      /\ writing' = NotWriting /\ begun' = begun
  BY DEF FailBlock, RejectWrite
<1>3. PayloadsDistinct(payloads, begun, NotWriting)
  BY DEF BridgeInv, PayloadsDistinct
<1> QED BY <1>1, <1>2, <1>3 DEF BridgeInv

\* A selection names payloads that exist.
LEMMA SelectClustersInv ==
  ASSUME BridgeInv, NEW g \in Groups, SelectClusters(g)
  PROVE  BridgeInv'
<1>1. HierarchyInv'
  BY BridgeKeepsMemory DEF BridgeNext
<1>2. /\ recordCount' = recordCount /\ records' = records /\ payloads' = payloads
      /\ writing' = writing /\ begun' = begun
  BY DEF SelectClusters, vars
<1>3. DOMAIN held' \subseteq DOMAIN records /\ \A r \in DOMAIN held' : held'[r] = payloads[r]
  BY DEF SelectClusters
<1>4. DOMAIN records \subseteq 1..recordCount
  BY DEF BridgeInv, HierarchyInv, Good, Sound, Typed
<1>5. HeldFits(held', payloads, recordCount)
  BY <1>3, <1>4 DEF HeldFits
<1> QED BY <1>1, <1>2, <1>5 DEF BridgeInv, InBlock

\* The leaves list all stored records, and nothing else.
LEMMA ActiveAreStored ==
  ASSUME BridgeInv
  PROVE  ActiveRecords = DOMAIN records
  BY DEF ActiveRecords, BridgeInv, HierarchyInv, Good, Sound, Placed

\* synchronize drops the payloads of evicted records only.
LEMMA SynchronizeInv ==
  ASSUME BridgeInv, Synchronize
  PROVE  /\ BridgeInv'
         /\ DOMAIN payloads' = DOMAIN records /\ records' = records
<1>1. HierarchyInv'
  BY BridgeKeepsMemory DEF BridgeNext
<1>2. /\ recordCount' = recordCount /\ records' = records /\ held' = held
      /\ writing' = writing /\ begun' = begun
      /\ payloads' = Without(payloads, DOMAIN payloads \ DOMAIN records)
  BY ActiveAreStored DEF Synchronize, vars
<1>3. DOMAIN records \subseteq DOMAIN payloads
  BY DEF BridgeInv, PayloadsFit
<1>4. DOMAIN payloads' = DOMAIN records /\ \A r \in DOMAIN payloads' : payloads'[r] = payloads[r]
  BY <1>2, <1>3 DEF Without
<1>5. PayloadsFit(payloads', records, recordCount)
  BY <1>3, <1>4 DEF BridgeInv, PayloadsFit
<1>6. PayloadsDistinct(payloads', begun, writing)
  BY <1>3, <1>4 DEF BridgeInv, PayloadsDistinct
<1>7. HeldFits(held, payloads', recordCount)
  BY <1>3, <1>4 DEF BridgeInv, HeldFits
<1> QED BY <1>1, <1>2, <1>4, <1>5, <1>6, <1>7 DEF BridgeInv, InBlock

\* Every step of the bridge keeps its invariant.
LEMMA BridgeNextInv ==
  ASSUME BridgeInv, BridgeNext
  PROVE  BridgeInv'
  BY BeginBlockInv, WriteRecordInv, FailBlockInv, SelectClustersInv, SynchronizeInv, MemoryOperationInv
     DEF BridgeNext

\* A step that changes nothing keeps the invariant of the bridge.
LEMMA BridgeStutters ==
  ASSUME BridgeInv, UNCHANGED allVars
  PROVE  BridgeInv'
<1>1. HierarchyInv'
  BY StutterInv DEF BridgeInv, allVars
<1> QED BY <1>1 DEF BridgeInv, InBlock, allVars, vars, bridgeVars

\* Memory and payloads fit together in every state of the bridge.
THEOREM BridgeHolds == BridgeSpec => []BridgeInv
<1>1. BridgeInit => BridgeInv
  BY BridgeInitInv
<1>2. BridgeInv /\ [BridgeNext]_allVars => BridgeInv'
  BY BridgeNextInv, BridgeStutters
<1> QED BY <1>1, <1>2, PTL DEF BridgeSpec

------------------------------------------------------------------------------
(* What follows from it.                                                   *)

\* Behind the bridge the memory does nothing it would not do alone: a block that fails
\* half way, or comes again, is a behaviour of the memory too.
THEOREM BridgeIsAMemory == BridgeSpec => Spec
<1>1. BridgeInit => Init
  BY DEF BridgeInit
<1>2. BridgeInv /\ [BridgeNext]_allVars => [Next]_vars
  <2>1. BridgeInv /\ UNCHANGED allVars => UNCHANGED vars
    BY DEF allVars
  <2> QED BY <2>1, BridgeStepsMemory
<1> QED BY <1>1, <1>2, BridgeHolds, PTL DEF BridgeSpec, Spec

\* So its slots, links, records and statistics match behind the bridge as well.
THEOREM InReachBehindBridge == BridgeSpec => []RecordsInReach
  BY BridgeIsAMemory, InReach, PTL

\* And it loses records to the recall of their own cluster only.
THEOREM EvictionIsConfinedBehindBridge == BridgeSpec => EvictionConfined
  BY BridgeIsAMemory, EvictionIsConfined, PTL

\* What is selected now has a payload for each record and packs.
LEMMA PackedWhenFresh ==
  ASSUME BridgeInv
  PROVE  FreshSelectionPacks
<1> SUFFICES ASSUME NEW s \in DOMAIN leaves
             PROVE  /\ leaves[s].routed = leaves[s].members
                    /\ \A r \in leaves[s].members : r \in DOMAIN payloads /\ payloads[r][1] = records[r].block
                    /\ (\A r \in leaves[s].members : begun[records[r].block] = 1) => Packs(leaves[s].members)
  BY DEF FreshSelectionPacks
<1> DEFINE m == leaves[s].members
<1>1. m \subseteq DOMAIN records
  BY DEF BridgeInv, HierarchyInv, Good, Sound, Placed
<1>2. \A r \in DOMAIN records : r \in DOMAIN payloads /\ payloads[r][1] = records[r].block
                                /\ payloads[r][1] \in Blocks
  BY DEF BridgeInv, PayloadsFit
<1>3. leaves[s].routed = {r \in m : records[r].block # NoBlock}
  BY DEF BridgeInv, HierarchyInv, UpToDate, Routes
<1>4. \A r, q \in DOMAIN payloads : payloads[r] = payloads[q] /\ begun[payloads[r][1]] = 1 => r = q
  BY DEF BridgeInv, PayloadsDistinct
<1> HIDE DEF m
<1>5. \A r \in m : records[r].block # NoBlock
  BY <1>1, <1>2, HierarchyAssumption
<1>6. leaves[s].routed = m
  BY <1>3, <1>5
<1>7. (\A r \in m : begun[records[r].block] = 1) => Packs(m)
  BY <1>1, <1>2, <1>4 DEF Packs
<1> QED BY <1>1, <1>2, <1>6, <1>7 DEF m

\* A cluster just selected can be packed, whatever splits, merges, evictions, failed blocks
\* and synchronisations came before; two records share a position only when their block was
\* handed in twice.
THEOREM FreshSelectionsPack == BridgeSpec => []FreshSelectionPacks
<1>1. BridgeInv => FreshSelectionPacks
  BY PackedWhenFresh
<1> QED BY <1>1, BridgeHolds, PTL

\* A selection packed late raises or gives exactly the tokens it named: record ids are not
\* given twice, so what is there under an id is what was there.
THEOREM StaleSelectionsRaiseOrMatch == BridgeSpec => []StaleSelectionRaisesOrMatches
<1>1. BridgeInv => StaleSelectionRaisesOrMatches
  <2> SUFFICES ASSUME BridgeInv, Packs(DOMAIN held) PROVE View(DOMAIN held) = {held[r] : r \in DOMAIN held}
    BY DEF StaleSelectionRaisesOrMatches
  <2>1. \A r \in DOMAIN held : held[r] = payloads[r]
    BY DEF BridgeInv, HeldFits, Packs
  <2> QED BY <2>1 DEF View
<1> QED BY <1>1, BridgeHolds, PTL

\* A payload outlives its record until the next synchronisation and no longer; it is never
\* dropped while memory has the record.
THEOREM PayloadsAlwaysFollow == BridgeSpec => PayloadsFollowMemory
<1> DEFINE Follow == /\ \A r \in DOMAIN payloads \ DOMAIN payloads' : r \notin DOMAIN records
                     /\ DOMAIN payloads \subseteq DOMAIN payloads' \/ DOMAIN payloads' = DOMAIN records
<1>1. BridgeInv /\ [BridgeNext]_allVars => [Follow]_allVars
  <2> SUFFICES ASSUME BridgeInv, BridgeNext PROVE Follow
    OBVIOUS
  <2>1. CASE Synchronize
    BY <2>1, SynchronizeInv
  <2>2. CASE \E now \in Times : WriteRecord(now)
    <3>1. PICK id, v : payloads' = With(payloads, id, v)
      BY <2>2, Zenon DEF WriteRecord, Registered
    <3>2. DOMAIN payloads \subseteq DOMAIN payloads'
      BY <3>1 DEF With
    <3> QED BY <3>2
  <2>3. CASE UNCHANGED payloads
    BY <2>3
  <2> QED BY <2>1, <2>2, <2>3 DEF BridgeNext, BeginBlock, FailBlock, SelectClusters, MemoryOperation, bridgeVars
<1> QED BY <1>1, BridgeHolds, PTL DEF BridgeSpec, PayloadsFollowMemory
==============================================================================
