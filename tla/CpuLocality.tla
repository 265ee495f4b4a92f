----------------------------- MODULE CpuLocality -----------------------------
(***************************************************************************)
(* CpuLocalityIndex: the bounded lookup that proposes candidate clusters.  *)
(* Every indexed slot has one locality code; the slots of a code form a    *)
(* bucket ordered by their last update.  The buckets are represented by    *)
(* the codes and by the relation "s was updated after t" within a bucket.  *)
(* LocalityBuckets models the dictionaries of the code and shows that they *)
(* implement this index.                                                   *)
(***************************************************************************)
EXTENDS Integers, FiniteSets, Sequences

CONSTANTS
  Codes,              \* locality codes (random-hyperplane buckets)
  Probes,             \* code -> the sequence of codes a lookup probes
  CandidateCapacity   \* candidate_capacity

ASSUME CodesAssumption ==
  /\ Codes \subseteq Nat /\ Codes # {}
  /\ Probes \in [Codes -> Seq(Codes)]
  /\ \A c \in Codes : Probes[c] # <<>> /\ Probes[c][1] = c

ASSUME CapacityAssumption == CandidateCapacity \in Nat \ {0}

VARIABLES
  slotCode,  \* _slot_codes, NoCode for a slot that is not indexed
  recency    \* the order of the buckets: <<later, earlier>>

NoCode == -1

Indexed == {s \in DOMAIN slotCode : slotCode[s] # NoCode}

\* Mutant: remove forgets the code and leaves the slot in its bucket.
LocalityRemoveNothing(S) == recency

\* remove, for every slot of S.
LocalityRemove(S) == {p \in recency : p[1] \notin S /\ p[2] \notin S}

\* update, for every slot of S in ascending order: each moves to the end of the
\* bucket of its new code.
LocalityUpdate(S, code) ==
  LocalityRemove(S)
    \cup {p \in S \X (Indexed \ S) : slotCode[p[2]] = code[p[1]]}
    \cup {p \in S \X S : p[1] > p[2] /\ code[p[1]] = code[p[2]]}

\* The slots a lookup for code c can meet, and the order it meets them in:
\* by probe, and within a bucket the most recently updated first.
InReach(c) == {s \in Indexed : \E p \in DOMAIN Probes[c] : Probes[c][p] = slotCode[s]}

Ahead(c, s, t) ==
  IF slotCode[s] = slotCode[t]
    THEN <<s, t>> \in recency
    ELSE \E p \in DOMAIN Probes[c] :
           /\ Probes[c][p] = slotCode[s]
           /\ \A q \in 1..p : Probes[c][q] # slotCode[t]

Candidates(c) ==
  {s \in InReach(c) :
     Cardinality({t \in InReach(c) : Ahead(c, t, s)}) < CandidateCapacity}

\* The index on its own: it starts empty, and slots are updated or removed.
LocalityInit ==
  /\ slotCode = [s \in DOMAIN slotCode |-> NoCode]
  /\ recency = {}

Update(S, code) ==
  /\ slotCode' = [s \in DOMAIN slotCode |-> IF s \in S THEN code[s] ELSE slotCode[s]]
  /\ recency' = LocalityUpdate(S, code)

RemoveSlots(S) ==
  /\ slotCode' = [s \in DOMAIN slotCode |-> IF s \in S THEN NoCode ELSE slotCode[s]]
  /\ recency' = LocalityRemove(S)

LocalityNext ==
  \E S \in SUBSET DOMAIN slotCode :
    \/ \E code \in [S -> Codes] : Update(S, code)
    \/ RemoveSlots(S)

LocalitySpec == LocalityInit /\ [][LocalityNext]_<<slotCode, recency>>

\* Every bucket is totally ordered by its updates and nothing else is ordered.
BucketsOrdered ==
  /\ recency \subseteq Indexed \X Indexed
  /\ \A p \in recency : slotCode[p[1]] = slotCode[p[2]] /\ p[1] # p[2]
  /\ \A s, t \in Indexed : (s # t /\ slotCode[s] = slotCode[t])
       => (<<s, t>> \in recency <=> <<t, s>> \notin recency)
  /\ \A p, q \in recency : p[2] = q[1] => <<p[1], q[2]>> \in recency
==============================================================================
