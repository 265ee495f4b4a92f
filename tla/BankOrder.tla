------------------------------ MODULE BankOrder ------------------------------
(***************************************************************************)
(* What the token banks share: the order in which a write takes entries    *)
(* (free ones, then those this write left alone from the oldest on, then    *)
(* those it touched itself), and how entries age at the end of a write.     *)
(* An entry is a record with at least active, age and, as history, the      *)
(* write that touched it last (wrote).                                      *)
(***************************************************************************)
EXTENDS Integers, Sequences, FiniteSets

Category(entries, touched, i) ==
  CASE ~entries[i].active -> 0
    [] entries[i].active /\ i \notin touched -> 1
    [] OTHER -> 2

\* A sort of S: before is a strict order, and the first has none before it.
Sorted(S, before) ==
  LET earlier == [x \in S |-> Cardinality({y \in S : <<y, x>> \in before})]
  IN [k \in 1..Cardinality(S) |-> CHOOSE x \in S : earlier[x] = k - 1]

\* The record bank's stable sorts: by category, within it by descending age, within
\* it by index.
Before(entries, touched, i, j) ==
  LET c == Category(entries, touched, i)
      d == Category(entries, touched, j)
  IN IF c # d THEN c < d
     ELSE IF entries[i].age # entries[j].age THEN entries[i].age > entries[j].age
     ELSE i < j

AllocationOrder(entries, touched) ==
  Sorted(DOMAIN entries,
         {p \in (DOMAIN entries) \X (DOMAIN entries) : Before(entries, touched, p[1], p[2])})

\* The Camelot bank sorts by age only what this write left alone: free slots and
\* those it touched itself are taken by index.
CamelotBefore(entries, touched, i, j) ==
  LET c == Category(entries, touched, i)
      d == Category(entries, touched, j)
  IN IF c # d THEN c < d
     ELSE IF c = 1 /\ entries[i].age # entries[j].age THEN entries[i].age > entries[j].age
     ELSE i < j

CamelotOrder(entries, touched) ==
  Sorted(DOMAIN entries,
         {p \in (DOMAIN entries) \X (DOMAIN entries) : CamelotBefore(entries, touched, p[1], p[2])})

\* Mutant: an entry that is touched keeps its age.
AgedButNotReset(entries, touched) ==
  [i \in DOMAIN entries |->
     IF i \in touched \/ ~entries[i].active THEN entries[i]
     ELSE [entries[i] EXCEPT !.age = @ + 1]]

Aged(entries, touched) ==
  [i \in DOMAIN entries |->
     IF i \in touched THEN [entries[i] EXCEPT !.age = 0]
     ELSE IF entries[i].active THEN [entries[i] EXCEPT !.age = @ + 1]
     ELSE entries[i]]

\* Tensors grow by what the write may need, up to the configured capacity.
Grown(entries, added, capacity, blank) ==
  entries \o [i \in 1..(IF Len(entries) + added <= capacity
                           THEN added ELSE capacity - Len(entries)) |-> blank]
==============================================================================
