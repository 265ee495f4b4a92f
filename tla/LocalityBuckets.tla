--------------------------- MODULE LocalityBuckets ---------------------------
(***************************************************************************)
(* The dictionaries of CpuLocalityIndex: _slot_codes and, per code, an     *)
(* OrderedDict of slots.  A slot is updated at the end of its bucket; a    *)
(* lookup scans the probed buckets from their ends and stops when it has   *)
(* enough slots.  This module implements the index CpuLocality describes.  *)
(***************************************************************************)
EXTENDS Integers, FiniteSets, SequencesExt

CONSTANTS Codes, Probes, CandidateCapacity, Slots

VARIABLES
  codes,   \* _slot_codes: indexed slot -> code
  buckets  \* _buckets: code -> the slots of its OrderedDict, oldest first

vars == <<codes, buckets>>

NoCode == -1

Without(f, x) == [y \in DOMAIN f \ {x} |-> f[y]]

With(f, x, v) == [y \in DOMAIN f \cup {x} |-> IF y = x THEN v ELSE f[y]]

\* The buckets after slot s has left bucket c; an empty bucket is dropped.
BucketWithout(b, c, s) ==
  LET left == SelectSeq(b[c], LAMBDA t : t # s)
  IN IF left = <<>> THEN Without(b, c) ELSE With(b, c, left)

\* remove(slot), of an index given as a record.
Removed(index, s) ==
  IF s \notin DOMAIN index.codes THEN index
  ELSE [codes |-> Without(index.codes, s),
        buckets |-> BucketWithout(index.buckets, index.codes[s], s)]

\* Mutant: the slot is put at the front of its bucket.
UpdatedAtFront(index, s, c) ==
  LET cleared == Removed(index, s)
      bucket == IF c \in DOMAIN cleared.buckets THEN cleared.buckets[c] ELSE <<>>
  IN [codes |-> With(cleared.codes, s, c),
      buckets |-> With(cleared.buckets, c, <<s>> \o bucket)]

\* update(slot, code).
Updated(index, s, c) ==
  LET cleared == IF s \in DOMAIN index.codes /\ index.codes[s] = c THEN index
                 ELSE Removed(index, s)
      bucket == IF c \in DOMAIN cleared.buckets THEN cleared.buckets[c] ELSE <<>>
  IN [codes |-> With(cleared.codes, s, c),
      buckets |-> With(cleared.buckets, c, Append(SelectSeq(bucket, LAMBDA t : t # s), s))]

\* _refresh_cpu_locality updates the touched slots in ascending order.
UpdatedInOrder(index, S, code) ==
  FoldLeft(LAMBDA i, s : Updated(i, s, code[s]), index, SetToSortSeq(S, <))

RemovedAll(index, S) == FoldLeft(LAMBDA i, s : Removed(i, s), index, SetToSeq(S))

\* Mutant: a bucket is scanned from its oldest slot.
ScannedFromStart(c) ==
  FoldLeft(LAMBDA found, p :
             IF p \in DOMAIN buckets THEN found \o buckets[p] ELSE found,
           <<>>, Probes[c])

\* The slots of the probed buckets in the order candidates(code) meets them.
Scanned(c) ==
  FoldLeft(LAMBDA found, p :
             IF p \in DOMAIN buckets THEN found \o Reverse(buckets[p]) ELSE found,
           <<>>, Probes[c])

\* candidates(code): each slot once, and no more than the capacity.
Lookup(c) ==
  FoldLeft(LAMBDA result, s :
             IF Len(result) >= CandidateCapacity \/ Contains(result, s)
               THEN result ELSE Append(result, s),
           <<>>, Scanned(c))

Become(index) == codes' = index.codes /\ buckets' = index.buckets

Current == [codes |-> codes, buckets |-> buckets]

Init == codes = [s \in {} |-> 0] /\ buckets = [c \in {} |-> <<>>]

UpdateSlots == \E S \in SUBSET Slots : \E code \in [S -> Codes] :
  Become(UpdatedInOrder(Current, S, code))

RemoveSlots == \E S \in SUBSET Slots : Become(RemovedAll(Current, S))

Next == UpdateSlots \/ RemoveSlots

Spec == Init /\ [][Next]_vars

------------------------------------------------------------------------------
\* <<s, t>> where s comes after t in a bucket.
LaterPairs(bucket) ==
  {<<bucket[p[1]], bucket[p[2]]>> :
     p \in {q \in (DOMAIN bucket) \X (DOMAIN bucket) : q[1] > q[2]}}

\* The codes and the order an index given as a record stands for.
SlotCodes(index) ==
  [s \in Slots |-> IF s \in DOMAIN index.codes THEN index.codes[s] ELSE NoCode]

BucketOrder(index) == UNION {LaterPairs(index.buckets[c]) : c \in DOMAIN index.buckets}

Index == INSTANCE CpuLocality WITH slotCode <- SlotCodes(Current), recency <- BucketOrder(Current)

\* Every indexed slot is in the bucket of its code, once, and in no other, and
\* the dictionary keeps no empty bucket: its size is bounded by the live slots
\* however many codes were ever used.
BucketsMatchCodes ==
  /\ DOMAIN buckets = {codes[s] : s \in DOMAIN codes}
  /\ \A c \in DOMAIN buckets :
       /\ ToSet(buckets[c]) = {s \in DOMAIN codes : codes[s] = c}
       /\ IsInjective(buckets[c])

\* The buckets match the codes, and what a lookup returns is what CpuLocality
\* calls the candidates, in the order of the probes and most recently updated
\* first.
LookupFindsCandidates ==
  /\ BucketsMatchCodes
  /\ \A c \in Codes :
       /\ ToSet(Lookup(c)) = Index!Candidates(c)
       /\ \A i, j \in DOMAIN Lookup(c) : i < j => Index!Ahead(c, Lookup(c)[i], Lookup(c)[j])

\* The dictionaries implement the index: updating a chunk's slots one after the
\* other puts every one of them, also one whose code did not change, behind the
\* others of its bucket.
ImplementsLocality == Index!LocalitySpec
==============================================================================
