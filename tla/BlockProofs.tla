----------------------------- MODULE BlockProofs -----------------------------
(***************************************************************************)
(* The invariants of BlockMemory for every value of the constants: its     *)
(* tables always describe the same blocks, each stored once, and an id a   *)
(* reader holds never comes to name another block.  IInv is inductive; the *)
(* lemmas follow the actions, and for each action first say what it does   *)
(* to every slot and every record.  Then, the block memory implements the  *)
(* abstract ClusterStore, one block at a time: ingestion is an ingestion   *)
(* of one record, an observation evicts within the floor, and a reader     *)
(* changes nothing.                                                        *)
(*                                                                         *)
(* The second half is about the token banks of TokenMemory, in the same    *)
(* way: BankInv is inductive, the lemmas follow the actions, and a turn of *)
(* a write is first described slot by slot and record by record.           *)
(***************************************************************************)
EXTENDS BlockMemory, TokenMemory, MemoryLemmas

\* The empty memory and the reader that holds nothing are consistent.
LEMMA InitIInv == Init => IInv
<1> SUFFICES ASSUME Init PROVE IInv
  OBVIOUS
<1>1. InitialSlots \in Nat \ {0} /\ InitialRecords \in Nat \ {0} /\ MaxSerial \in Nat
  BY BlockConfigAssumption
<1>2. Slots = 0..(InitialSlots - 1) /\ Records = 0..(InitialRecords - 1)
  BY DEF Init, Slots, Records
<1>3. TypeOK
  BY <1>1, <1>2 DEF Init, TypeOK, NoId, NoSlot, NoBlock, NoCode
<1>4. /\ DOMAIN recordIndex = {} /\ DOMAIN blockIndex = {} /\ DOMAIN freeRecords = {}
      /\ DOMAIN held = {} /\ recency = {} /\ nextUnused = 0 /\ nextSerial = 0
      /\ \A s \in Slots : /\ slotRecords[s] = {} /\ slotId[s] = NoId /\ slotGeneration[s] = 0
                          /\ slotCount[s] = 0 /\ slotActive[s] = FALSE /\ slotCode[s] = NoCode
      /\ DOMAIN slotCode = Slots
      /\ \A r \in Records : recordSlot[r] = NoSlot /\ recordBlock[r] = NoBlock
  BY <1>2 DEF Init
<1>5. TablesPartitioned
  <2>1. freeSlots = [i \in 1..InitialSlots |-> InitialSlots - i]
    BY DEF Init
  <2>2. \A s \in Slots : \E i \in DOMAIN freeSlots : freeSlots[i] = s
    <3> SUFFICES ASSUME NEW s \in Slots PROVE \E i \in DOMAIN freeSlots : freeSlots[i] = s
      OBVIOUS
    <3>1. InitialSlots - s \in 1..InitialSlots /\ InitialSlots - (InitialSlots - s) = s
      BY <1>1, <1>2
    <3> QED BY <2>1, <3>1
  <2>3. \A i, j \in DOMAIN freeSlots : freeSlots[i] = freeSlots[j] => i = j
    BY <1>1, <2>1
  <2>4. \A r \in Records : ~(r < nextUnused)
    BY <1>1, <1>2, <1>4
  <2> QED BY <1>4, <2>2, <2>3, <2>4 DEF TablesPartitioned
<1>6. BlocksStoredOnce
  <2>1. NoSlot \notin Slots
    BY DEF Slots, NoSlot
  <2>2. \A s \in Slots : slotRecords[s] = {r \in Records : recordSlot[r] = s}
    BY <1>4, <2>1
  <2> QED BY <1>4, <2>2 DEF BlocksStoredOnce
<1>7. RoutingAgrees
  <2>1. Cardinality({}) = 0
    BY FS_EmptySet
  <2>2. Live = {} /\ Indexed = {}
    BY <1>4 DEF Live, Indexed
  <2> QED BY <1>4, <2>1, <2>2 DEF RoutingAgrees, BucketsOrdered
<1>8. IdsNameBlocks /\ UnusedAreInactive /\ HeldIdsNameTheirBlocks
  BY <1>4 DEF IdsNameBlocks, UnusedAreInactive, HeldIdsNameTheirBlocks
<1>9. GenerationInv
  BY <1>1, <1>4 DEF GenerationInv, Live
<1> QED BY <1>3, <1>5, <1>6, <1>7, <1>8, <1>9 DEF IInv, TablesConsistent

------------------------------------------------------------------------------
(* What the tables say together.                                           *)

\* A stored block, its record, its id and its cluster lead to each other.
LEMMA StoredFacts ==
  ASSUME IInv
  PROVE  /\ NoSlot \notin Slots /\ NoBlock \notin Blocks
         /\ \A r \in Records : recordSlot[r] # NoSlot =>
              /\ recordSlot[r] \in Slots /\ r \in slotRecords[recordSlot[r]]
              /\ recordBlock[r] \in Blocks /\ recordBlock[r] \in DOMAIN blockIndex
              /\ blockIndex[recordBlock[r]] = r
              /\ recordId[r] \in DOMAIN recordIndex /\ recordIndex[recordId[r]] = r
         /\ \A r \in Records : recordSlot[r] = NoSlot => recordBlock[r] = NoBlock
         /\ \A s \in Slots : /\ slotRecords[s] \subseteq Records /\ IsFiniteSet(slotRecords[s])
                             /\ \A r \in Records : r \in slotRecords[s] <=> recordSlot[r] = s
                             /\ slotRecords[s] # {} <=> slotId[s] # NoId
                             /\ slotRecords[s] # {} <=> slotCode[s] # NoCode
         /\ \A b \in DOMAIN blockIndex :
              /\ blockIndex[b] \in Records /\ recordBlock[blockIndex[b]] = b
              /\ recordSlot[blockIndex[b]] # NoSlot
         /\ \A d \in DOMAIN recordIndex :
              /\ recordIndex[d] \in Records /\ recordId[recordIndex[d]] = d
              /\ recordSlot[recordIndex[d]] # NoSlot
<1>1. TypeOK /\ BlocksStoredOnce /\ RoutingAgrees /\ IdsNameBlocks
  BY DEF IInv, TablesConsistent
<1>2. NoSlot \notin Slots /\ NoBlock \notin Blocks
  BY BlockConfigAssumption DEF NoSlot, NoBlock, Slots
<1>3. /\ recordSlot \in [Records -> Slots \cup {NoSlot}]
      /\ recordBlock \in [Records -> Blocks \cup {NoBlock}]
      /\ recordIndex \in [DOMAIN recordIndex -> Records]
      /\ blockIndex \in [DOMAIN blockIndex -> Records]
      /\ slotRecords \in [Slots -> SUBSET Records] /\ DOMAIN slotCode = Slots
  BY <1>1 DEF TypeOK
<1>4. IsFiniteSet(Records)
  <2>1. 0 \in Int /\ recordCapacity - 1 \in Int
    BY <1>1 DEF TypeOK
  <2> QED BY <2>1, FS_Interval DEF Records
<1>5. /\ DOMAIN blockIndex = {recordBlock[r] : r \in Records} \ {NoBlock}
      /\ \A r \in Records : recordBlock[r] # NoBlock =>
           /\ blockIndex[recordBlock[r]] = r
           /\ recordId[r] \in DOMAIN recordIndex /\ recordIndex[recordId[r]] = r
      /\ \A s \in Slots : slotRecords[s] = {r \in Records : recordSlot[r] = s}
      /\ \A r \in Records : recordSlot[r] # NoSlot <=> recordBlock[r] # NoBlock
  BY <1>1 DEF BlocksStoredOnce
<1>6. /\ Live = {s \in Slots : slotRecords[s] # {}} /\ Indexed = Live
  BY <1>1 DEF RoutingAgrees
<1>7. ASSUME NEW s \in Slots
      PROVE  /\ slotRecords[s] \subseteq Records /\ IsFiniteSet(slotRecords[s])
             /\ \A r \in Records : r \in slotRecords[s] <=> recordSlot[r] = s
             /\ slotRecords[s] # {} <=> slotId[s] # NoId
             /\ slotRecords[s] # {} <=> slotCode[s] # NoCode
  <2>1. slotRecords[s] \subseteq Records /\ IsFiniteSet(slotRecords[s])
    BY <1>3, <1>4, FS_Subset
  <2>2. slotRecords[s] # {} <=> s \in Live
    BY <1>6
  <2>3. s \in Live <=> slotId[s] # NoId
    BY DEF Live
  <2>4. s \in Indexed <=> slotCode[s] # NoCode
    BY <1>3 DEF Indexed
  <2> QED BY <1>5, <1>6, <2>1, <2>2, <2>3, <2>4
<1>8. ASSUME NEW r \in Records, recordSlot[r] # NoSlot
      PROVE  /\ recordSlot[r] \in Slots /\ r \in slotRecords[recordSlot[r]]
             /\ recordBlock[r] \in Blocks /\ recordBlock[r] \in DOMAIN blockIndex
             /\ blockIndex[recordBlock[r]] = r
             /\ recordId[r] \in DOMAIN recordIndex /\ recordIndex[recordId[r]] = r
  BY <1>3, <1>5, <1>8
<1>9. ASSUME NEW b \in DOMAIN blockIndex
      PROVE  /\ blockIndex[b] \in Records /\ recordBlock[blockIndex[b]] = b
             /\ recordSlot[blockIndex[b]] # NoSlot
  <2>1. PICK r \in Records : b = recordBlock[r] /\ b # NoBlock
    BY <1>5
  <2> QED BY <1>5, <2>1
<1>10. \A d \in DOMAIN recordIndex :
         /\ recordIndex[d] \in Records /\ recordId[recordIndex[d]] = d
         /\ recordSlot[recordIndex[d]] # NoSlot
  BY <1>1, <1>3 DEF IdsNameBlocks
<1> QED BY <1>2, <1>5, <1>7, <1>8, <1>9, <1>10

------------------------------------------------------------------------------
(* Ingestion: growth, and what it does to every slot and record.           *)

\* Whether or not the slot table grows, the stack holds the slots without
\* records, each once, and there is one to take.
LEMMA FreeAfterGrowth ==
  ASSUME IInv
  PROVE  LET T == 0..(SlotsAfter(TRUE) - 1)
             free == FreeAfter(TRUE)
         IN /\ SlotsAfter(TRUE) \in Nat \ {0} /\ Slots \subseteq T
            /\ free \in Seq(T) /\ free # <<>>
            /\ \A i, j \in DOMAIN free : free[i] = free[j] => i = j
            /\ \A s \in T : (\E i \in DOMAIN free : free[i] = s)
                              <=> (s \in Slots => slotRecords[s] = {})
<1> DEFINE n == SlotsAfter(TRUE)
           T == 0..(n - 1)
           free == FreeAfter(TRUE)
<1>1. slotCapacity \in Nat \ {0} /\ freeSlots \in Seq(Slots) /\ Slots = 0..(slotCapacity - 1)
  BY DEF IInv, TablesConsistent, TypeOK, Slots
<1>2. /\ \A i, j \in DOMAIN freeSlots : freeSlots[i] = freeSlots[j] => i = j
      /\ \A s \in Slots : slotRecords[s] = {} <=> \E i \in DOMAIN freeSlots : freeSlots[i] = s
  BY DEF IInv, TablesConsistent, TablesPartitioned
<1>0. IF freeSlots = <<>>
        THEN n = 2 * slotCapacity /\ free = [i \in 1..slotCapacity |-> 2 * slotCapacity - i]
        ELSE n = slotCapacity /\ free = freeSlots
  BY DEF SlotsAfter, FreeAfter
<1> HIDE DEF n, free
<1>3. CASE freeSlots = <<>>
  <2>1. n = 2 * slotCapacity /\ free = [i \in 1..slotCapacity |-> 2 * slotCapacity - i]
    BY <1>0, <1>3
  <2>2. free \in [1..slotCapacity -> T]
    BY <1>1, <2>1
  <2>3. free \in Seq(T) /\ Len(free) = slotCapacity /\ free # <<>>
    <3>0. slotCapacity \in Nat
      BY <1>1
    <3>1. free \in Seq(T)
      BY <3>0, <2>2, SeqDef
    <3>2. Len(free) = slotCapacity
      BY <1>1, <2>1
    <3> QED BY <1>1, <3>1, <3>2, EmptySeq
  <2>4. \A i, j \in DOMAIN free : free[i] = free[j] => i = j
    BY <1>1, <2>1
  <2>5. \A s \in Slots : slotRecords[s] # {}
    BY <1>2, <1>3
  <2>6. \A s \in T : (\E i \in DOMAIN free : free[i] = s) <=> s \notin Slots
    <3> SUFFICES ASSUME NEW s \in T
                 PROVE  (\E i \in DOMAIN free : free[i] = s) <=> s \notin Slots
      OBVIOUS
    <3>1. ASSUME NEW i \in DOMAIN free, free[i] = s PROVE s \notin Slots
      BY <1>1, <2>1, <3>1
    <3>2. ASSUME s \notin Slots PROVE \E i \in DOMAIN free : free[i] = s
      <4>1. 2 * slotCapacity - s \in 1..slotCapacity
        BY <1>1, <2>1, <3>2
      <4>2. free[2 * slotCapacity - s] = s
        BY <1>1, <2>1, <4>1
      <4>3. 2 * slotCapacity - s \in DOMAIN free
        BY <2>1, <4>1
      <4> QED BY <4>2, <4>3
    <3> QED BY <3>1, <3>2
  <2>7. n \in Nat \ {0} /\ Slots \subseteq T
    BY <1>1, <2>1
  <2> QED BY <2>3, <2>4, <2>5, <2>6, <2>7 DEF n, free
<1>4. CASE freeSlots # <<>>
  <2>1. n = slotCapacity /\ free = freeSlots /\ T = Slots
    BY <1>0, <1>1, <1>4
  <2> QED BY <1>1, <1>2, <1>4, <2>1 DEF n, free
<1> QED BY <1>3, <1>4

\* The slot a block goes to: one that holds no block when it opens a cluster,
\* a live one otherwise.
LEMMA IngestSlot ==
  ASSUME IInv, NEW b \in Blocks, NEW c \in Codes, NEW newCode \in Codes,
         NEW decision \in Slots \cup {NoSlot}, IngestBlock(b, c, decision, newCode),
         NEW slot, slot = IF decision = NoSlot THEN NextFreeSlot ELSE decision
  PROVE  /\ Slots' = 0..(SlotsAfter(decision = NoSlot) - 1) /\ Slots \subseteq Slots'
         /\ slot \in Slots' /\ slotCapacity' \in Nat \ {0}
         /\ slotCapacity' = SlotsAfter(decision = NoSlot)
         /\ decision = NoSlot => (slot \in Slots => slotRecords[slot] = {})
         /\ decision # NoSlot => slot \in Slots /\ slotRecords[slot] # {}
<1>1. slotCapacity' = SlotsAfter(decision = NoSlot) /\ decision \in {NoSlot} \cup Candidates(c)
  BY DEF IngestBlock
<1>2. Slots' = 0..(SlotsAfter(decision = NoSlot) - 1)
  BY <1>1 DEF Slots
<1>3. CASE decision = NoSlot
  <2>1. slot = FreeAfter(TRUE)[Len(FreeAfter(TRUE))] /\ SlotsAfter(decision = NoSlot) = SlotsAfter(TRUE)
    BY <1>3 DEF NextFreeSlot, SlotsAfter
  <2> DEFINE n == SlotsAfter(TRUE)
             T == 0..(n - 1)
             free == FreeAfter(TRUE)
  <2>2. /\ n \in Nat \ {0} /\ Slots \subseteq T
        /\ free \in Seq(T) /\ free # <<>>
        /\ \A s \in T : (\E i \in DOMAIN free : free[i] = s)
                              <=> (s \in Slots => slotRecords[s] = {})
    BY FreeAfterGrowth
  <2>4. slot = free[Len(free)] /\ slotCapacity' = n /\ Slots' = T
    BY <1>1, <1>2, <2>1
  <2> HIDE DEF n, free
  <2>3. Len(free) \in DOMAIN free /\ free[Len(free)] \in T
    BY <2>2, EmptySeq, LenProperties, ElementOfSeq
  <2>5. slot \in Slots => slotRecords[slot] = {}
    BY <2>2, <2>3, <2>4
  <2> QED BY <1>1, <1>2, <1>3, <2>2, <2>3, <2>4, <2>5
<1>4. CASE decision # NoSlot
  <2>1. SlotsAfter(decision = NoSlot) = slotCapacity /\ slotCapacity \in Nat \ {0}
    BY <1>4 DEF SlotsAfter, IInv, TablesConsistent, TypeOK
  <2>2. decision \in Indexed
    BY <1>1, <1>4, CandidatesIndexed
  <2>3. decision \in Slots /\ slotRecords[decision] # {}
    BY <2>2 DEF IInv, TablesConsistent, RoutingAgrees
  <2> QED BY <1>1, <1>2, <1>4, <2>1, <2>3 DEF Slots
<1> QED BY <1>3, <1>4

\* The record index a block gets was never used, or was given back.
LEMMA IngestRecord ==
  ASSUME IInv
  PROVE  /\ RecordsAfter \in Nat \ {0} /\ Records \subseteq 0..(RecordsAfter - 1)
         /\ NextRecord \in 0..(RecordsAfter - 1)
         /\ NextRecord \in Records => recordSlot[NextRecord] = NoSlot
         /\ freeRecords # <<>> => NextRecord \in Records /\ NextRecord < nextUnused
         /\ freeRecords = <<>> => NextRecord = nextUnused /\ nextUnused < RecordsAfter
<1>1. /\ recordCapacity \in Nat \ {0} /\ nextUnused \in Nat /\ nextUnused <= recordCapacity
      /\ freeRecords \in Seq(Records)
  BY DEF IInv, TablesConsistent, TypeOK
<1>2. Records = 0..(recordCapacity - 1)
  BY DEF Records
<1>3. RecordsAfter \in Nat \ {0} /\ recordCapacity <= RecordsAfter
  BY <1>1 DEF RecordsAfter, Greatest
<1>4. CASE freeRecords # <<>>
  <2>1. Len(freeRecords) \in DOMAIN freeRecords /\ NextRecord = freeRecords[Len(freeRecords)]
    BY <1>1, <1>4, EmptySeq, LenProperties DEF NextRecord
  <2>2. NextRecord \in Records
    BY <1>1, <2>1, ElementOfSeq
  <2>3. NextRecord < nextUnused /\ recordSlot[NextRecord] = NoSlot
    BY <2>1, <2>2 DEF IInv, TablesConsistent, TablesPartitioned
  <2> QED BY <1>1, <1>2, <1>3, <1>4, <2>2, <2>3
<1>5. CASE freeRecords = <<>>
  <2>1. NextRecord = nextUnused
    BY <1>5 DEF NextRecord
  <2>2. nextUnused < RecordsAfter
    BY <1>1, <1>5 DEF RecordsAfter, Greatest
  <2>3. nextUnused \in Records => recordSlot[nextUnused] = NoSlot
    <3>1. ~(nextUnused < nextUnused)
      BY <1>1
    <3> QED BY <3>1 DEF IInv, UnusedAreInactive
  <2> QED BY <1>1, <1>2, <1>3, <1>5, <2>1, <2>2, <2>3
<1> QED BY <1>4, <1>5

\* What ingestion does to the slots: one slot gets one more record.
LEMMA IngestSlots ==
  ASSUME IInv, NEW b \in Blocks, NEW c \in Codes, NEW newCode \in Codes,
         NEW decision \in Slots \cup {NoSlot}, IngestBlock(b, c, decision, newCode),
         NEW slot, slot = IF decision = NoSlot THEN NextFreeSlot ELSE decision
  PROVE  /\ \A s \in Slots' :
              /\ slotRecords'[s] = (IF s \in Slots THEN slotRecords[s] ELSE {})
                                     \cup (IF s = slot THEN {NextRecord} ELSE {})
              /\ slotCount'[s] = (IF s \in Slots THEN slotCount[s] ELSE 0)
                                   + (IF s = slot THEN 1 ELSE 0)
              /\ slotActive'[s] <=> s = slot \/ (s \in Slots /\ slotActive[s])
              /\ slotId'[s] = IF s = slot /\ decision = NoSlot THEN slotGeneration'[s]
                              ELSE IF s \in Slots THEN slotId[s] ELSE NoId
              /\ slotGeneration'[s] = (IF s \in Slots THEN slotGeneration[s] ELSE 0)
                                        + (IF s = slot /\ decision = NoSlot THEN 1 ELSE 0)
              /\ slotCode'[s] = IF s = slot THEN newCode
                                ELSE IF s \in Slots THEN slotCode[s] ELSE NoCode
         /\ /\ DOMAIN slotRecords' = Slots' /\ DOMAIN slotCount' = Slots'
            /\ DOMAIN slotActive' = Slots' /\ DOMAIN slotId' = Slots'
            /\ DOMAIN slotGeneration' = Slots' /\ DOMAIN slotCode' = Slots'
            /\ slotActive' \in [Slots' -> BOOLEAN]
<1> DEFINE m == SlotsAfter(decision = NoSlot)
           r == NextRecord
           generation == Extend(slotGeneration, m, 0)[slot] + 1
<1>1. /\ Slots' = 0..(m - 1) /\ Slots \subseteq 0..(m - 1) /\ slot \in 0..(m - 1)
      /\ decision = NoSlot => (slot \in Slots => slotRecords[slot] = {})
      /\ decision # NoSlot => slot \in Slots /\ slotRecords[slot] # {}
  BY IngestSlot
<1>2. /\ slotId \in [Slots -> Nat] /\ slotGeneration \in [Slots -> Nat]
      /\ DOMAIN slotRecords = Slots /\ slotCount \in [Slots -> Int]
      /\ slotActive \in [Slots -> BOOLEAN] /\ DOMAIN slotCode = Slots
  BY DEF IInv, TablesConsistent, TypeOK
<1>3. /\ slotGeneration' = IF decision = NoSlot
                             THEN [Extend(slotGeneration, m, 0) EXCEPT ![slot] = generation]
                             ELSE slotGeneration
      /\ slotId' = IF decision = NoSlot THEN [Extend(slotId, m, NoId) EXCEPT ![slot] = generation]
                                        ELSE slotId
  BY DEF IngestBlock
<1>4. /\ slotRecords' = [Extend(slotRecords, m, {}) EXCEPT ![slot] =
                           IF decision = NoSlot THEN {r} ELSE @ \cup {r}]
      /\ slotCount' = [Extend(slotCount, m, 0) EXCEPT ![slot] =
                         IF decision = NoSlot THEN 1 ELSE @ + 1]
      /\ slotCode' = [Extend(slotCode, m, NoCode) EXCEPT ![slot] = newCode]
  BY DEF IngestBlock
<1>5. slotActive' = [Extend(slotActive, m, FALSE) EXCEPT ![slot] = slotCount'[slot] > 0]
  BY DEF IngestBlock
<1>6. decision # NoSlot => 0..(m - 1) = Slots
  BY DEF SlotsAfter, Slots
<1>20. \A s \in Slots : slotCount[s] = Cardinality(slotRecords[s]) /\ IsFiniteSet(slotRecords[s])
  BY StoredFacts DEF IInv, TablesConsistent, RoutingAgrees
<1>21. slot \in Slots => slotCount[slot] \in Nat /\ (slotRecords[slot] = {} => slotCount[slot] = 0)
  BY <1>20, FS_EmptySet, FS_CardinalityType
<1> HIDE DEF m, r
<1>7. /\ DOMAIN slotRecords' = 0..(m - 1)
      /\ \A s \in 0..(m - 1) : slotRecords'[s] = (IF s \in Slots THEN slotRecords[s] ELSE {})
                                     \cup (IF s = slot THEN {r} ELSE {})
  <2>1. /\ DOMAIN Extend(slotRecords, m, {}) = 0..(m - 1)
        /\ \A i \in Slots : Extend(slotRecords, m, {})[i] = slotRecords[i]
        /\ \A i \in 0..(m - 1) : i \notin Slots => Extend(slotRecords, m, {})[i] = {}
    BY <1>1, <1>2 DEF Extend
  <2>2. /\ DOMAIN slotRecords' = 0..(m - 1)
        /\ \A s \in 0..(m - 1) : s # slot => slotRecords'[s] = Extend(slotRecords, m, {})[s]
        /\ slotRecords'[slot] = IF decision = NoSlot THEN {r}
                                ELSE Extend(slotRecords, m, {})[slot] \cup {r}
    BY <1>1, <1>4, <2>1
  <2>3. slotRecords'[slot] = (IF slot \in Slots THEN slotRecords[slot] ELSE {}) \cup {r}
    BY <1>1, <2>1, <2>2
  <2> QED BY <2>1, <2>2, <2>3
<1>8. /\ DOMAIN slotCount' = 0..(m - 1)
      /\ \A s \in 0..(m - 1) : slotCount'[s] = (IF s \in Slots THEN slotCount[s] ELSE 0)
                                   + (IF s = slot THEN 1 ELSE 0)
  <2>1. /\ DOMAIN Extend(slotCount, m, 0) = 0..(m - 1)
        /\ \A i \in Slots : Extend(slotCount, m, 0)[i] = slotCount[i]
        /\ \A i \in 0..(m - 1) : i \notin Slots => Extend(slotCount, m, 0)[i] = 0
    BY <1>1, <1>2 DEF Extend
  <2>2. /\ DOMAIN slotCount' = 0..(m - 1)
        /\ \A s \in 0..(m - 1) : s # slot => slotCount'[s] = Extend(slotCount, m, 0)[s]
        /\ slotCount'[slot] = IF decision = NoSlot THEN 1 ELSE Extend(slotCount, m, 0)[slot] + 1
    BY <1>1, <1>4, <2>1
  <2>3. slotCount'[slot] = (IF slot \in Slots THEN slotCount[slot] ELSE 0) + 1
    BY <1>1, <1>21, <2>1, <2>2
  <2>4. \A s \in 0..(m - 1) : s # slot => slotCount'[s] = (IF s \in Slots THEN slotCount[s] ELSE 0) + 0
    BY <1>2, <2>1, <2>2
  <2> QED BY <2>2, <2>3, <2>4
<1>9. slotCount'[slot] > 0
  BY <1>1, <1>8, <1>21
<1>10. /\ DOMAIN slotActive' = 0..(m - 1) /\ slotActive' \in [0..(m - 1) -> BOOLEAN]
       /\ \A s \in 0..(m - 1) : slotActive'[s] <=> s = slot \/ (s \in Slots /\ slotActive[s])
  <2>1. /\ DOMAIN Extend(slotActive, m, FALSE) = 0..(m - 1)
        /\ \A i \in Slots : Extend(slotActive, m, FALSE)[i] = slotActive[i]
        /\ \A i \in 0..(m - 1) : i \notin Slots => Extend(slotActive, m, FALSE)[i] = FALSE
    BY <1>1, <1>2 DEF Extend
  <2> DEFINE positive == slotCount'[slot] > 0
  <2>2. positive = TRUE
    BY <1>9
  <2> HIDE DEF positive
  <2>3. slotActive' = [Extend(slotActive, m, FALSE) EXCEPT ![slot] = TRUE]
    <3>1. slotActive' = [Extend(slotActive, m, FALSE) EXCEPT ![slot] = positive]
      BY <1>5 DEF positive
    <3> QED BY <2>2, <3>1
  <2>4. /\ DOMAIN slotActive' = 0..(m - 1) /\ slotActive'[slot] = TRUE
        /\ \A s \in 0..(m - 1) : s # slot => slotActive'[s] = Extend(slotActive, m, FALSE)[s]
    BY <1>1, <2>1, <2>3
  <2>5. \A s \in 0..(m - 1) : slotActive'[s] \in BOOLEAN
    BY <1>2, <2>1, <2>4, Zenon
  <2>6. slotActive' = [s \in 0..(m - 1) |-> slotActive'[s]]
    BY <1>5, <2>4 DEF Extend
  <2>7. slotActive' \in [0..(m - 1) -> BOOLEAN]
    BY <2>5, <2>6, Zenon
  <2>8. \A s \in 0..(m - 1) : slotActive'[s] <=> s = slot \/ (s \in Slots /\ slotActive[s])
    BY <1>2, <2>1, <2>4, Zenon
  <2> QED BY <2>4, <2>7, <2>8
<1>11. /\ DOMAIN slotCode' = 0..(m - 1)
       /\ \A s \in 0..(m - 1) : slotCode'[s] = IF s = slot THEN newCode
                                ELSE IF s \in Slots THEN slotCode[s] ELSE NoCode
  <2>1. /\ DOMAIN Extend(slotCode, m, NoCode) = 0..(m - 1)
        /\ \A i \in Slots : Extend(slotCode, m, NoCode)[i] = slotCode[i]
        /\ \A i \in 0..(m - 1) : i \notin Slots => Extend(slotCode, m, NoCode)[i] = NoCode
    BY <1>1, <1>2 DEF Extend
  <2> QED BY <1>1, <1>4, <2>1
<1>12. generation = (IF slot \in Slots THEN slotGeneration[slot] ELSE 0) + 1
  <2>1. Extend(slotGeneration, m, 0)[slot] = IF slot \in Slots THEN slotGeneration[slot] ELSE 0
    BY <1>1, <1>2 DEF Extend
  <2> QED BY <2>1
<1> HIDE DEF generation
<1>13. CASE decision = NoSlot
  <2>1. /\ DOMAIN Extend(slotGeneration, m, 0) = 0..(m - 1)
        /\ \A i \in Slots : Extend(slotGeneration, m, 0)[i] = slotGeneration[i]
        /\ \A i \in 0..(m - 1) : i \notin Slots => Extend(slotGeneration, m, 0)[i] = 0
    BY <1>1, <1>2 DEF Extend
  <2>2. /\ DOMAIN Extend(slotId, m, NoId) = 0..(m - 1)
        /\ \A i \in Slots : Extend(slotId, m, NoId)[i] = slotId[i]
        /\ \A i \in 0..(m - 1) : i \notin Slots => Extend(slotId, m, NoId)[i] = NoId
    BY <1>1, <1>2 DEF Extend
  <2>3. /\ slotGeneration' = [Extend(slotGeneration, m, 0) EXCEPT ![slot] = generation]
        /\ slotId' = [Extend(slotId, m, NoId) EXCEPT ![slot] = generation]
    BY <1>3, <1>13
  <2>4. /\ DOMAIN slotGeneration' = 0..(m - 1) /\ slotGeneration'[slot] = generation
        /\ \A s \in 0..(m - 1) : s # slot =>
             slotGeneration'[s] = (IF s \in Slots THEN slotGeneration[s] ELSE 0) + 0
    <3>1. /\ DOMAIN slotGeneration' = 0..(m - 1) /\ slotGeneration'[slot] = generation
          /\ \A s \in 0..(m - 1) : s # slot =>
               slotGeneration'[s] = Extend(slotGeneration, m, 0)[s]
      BY <1>1, <2>1, <2>3
    <3>2. \A s \in Slots : slotGeneration[s] + 0 = slotGeneration[s]
      BY <1>2
    <3> QED BY <2>1, <3>1, <3>2
  <2>5. /\ DOMAIN slotId' = 0..(m - 1) /\ slotId'[slot] = generation
        /\ \A s \in 0..(m - 1) : s # slot => slotId'[s] = IF s \in Slots THEN slotId[s] ELSE NoId
    BY <1>1, <2>2, <2>3
  <2>6. \A s \in 0..(m - 1) :
          /\ slotId'[s] = IF s = slot /\ decision = NoSlot THEN slotGeneration'[s]
                          ELSE IF s \in Slots THEN slotId[s] ELSE NoId
          /\ slotGeneration'[s] = (IF s \in Slots THEN slotGeneration[s] ELSE 0)
                                    + (IF s = slot /\ decision = NoSlot THEN 1 ELSE 0)
    BY <1>12, <1>13, <2>4, <2>5
  <2> QED BY <1>1, <1>7, <1>8, <1>10, <1>11, <2>4, <2>5, <2>6 DEF r
<1>14. CASE decision # NoSlot
  <2>1. slotGeneration' = slotGeneration /\ slotId' = slotId /\ 0..(m - 1) = Slots
    BY <1>3, <1>6, <1>14 DEF m
  <2>2. \A s \in Slots : slotGeneration[s] + 0 = slotGeneration[s]
    BY <1>2
  <2>3. \A s \in 0..(m - 1) :
          /\ slotId'[s] = IF s = slot /\ decision = NoSlot THEN slotGeneration'[s]
                          ELSE IF s \in Slots THEN slotId[s] ELSE NoId
          /\ slotGeneration'[s] = (IF s \in Slots THEN slotGeneration[s] ELSE 0)
                                    + (IF s = slot /\ decision = NoSlot THEN 1 ELSE 0)
    BY <1>14, <2>1, <2>2
  <2> QED BY <1>1, <1>2, <1>7, <1>8, <1>10, <1>11, <2>1, <2>3 DEF r
<1> QED BY <1>13, <1>14

\* What ingestion does to the records: one index that stored nothing stores b.
LEMMA IngestRecords ==
  ASSUME IInv, NEW b \in Blocks, NEW c \in Codes, NEW newCode \in Codes,
         NEW decision \in Slots \cup {NoSlot}, IngestBlock(b, c, decision, newCode),
         NEW slot, slot = IF decision = NoSlot THEN NextFreeSlot ELSE decision
  PROVE  /\ Records' = 0..(RecordsAfter - 1) /\ Records \subseteq Records' /\ NextRecord \in Records'
         /\ NextRecord \in Records => recordSlot[NextRecord] = NoSlot
         /\ b \notin DOMAIN blockIndex
         /\ /\ DOMAIN recordSlot' = Records' /\ DOMAIN recordId' = Records'
            /\ DOMAIN recordBlock' = Records'
         /\ recordSlot'[NextRecord] = slot /\ recordId'[NextRecord] = nextSerial + 1
         /\ recordBlock'[NextRecord] = b
         /\ \A q \in Records : q # NextRecord =>
              /\ recordSlot'[q] = recordSlot[q] /\ recordId'[q] = recordId[q]
              /\ recordBlock'[q] = recordBlock[q]
         /\ \A q \in Records' : q \notin Records /\ q # NextRecord =>
              recordSlot'[q] = NoSlot /\ recordId'[q] = NoId /\ recordBlock'[q] = NoBlock
<1>1. /\ Records' = 0..(RecordsAfter - 1) /\ Records \subseteq 0..(RecordsAfter - 1)
      /\ NextRecord \in 0..(RecordsAfter - 1)
      /\ NextRecord \in Records => recordSlot[NextRecord] = NoSlot
  BY IngestRecord DEF IngestBlock, Records
<1>2. DOMAIN recordSlot = Records /\ DOMAIN recordId = Records /\ DOMAIN recordBlock = Records
  BY DEF IInv, TablesConsistent, TypeOK
<1>3. /\ recordSlot' = [Extend(recordSlot, RecordsAfter, NoSlot) EXCEPT ![NextRecord] = slot]
      /\ recordId' = [Extend(recordId, RecordsAfter, NoId) EXCEPT ![NextRecord] = nextSerial + 1]
      /\ recordBlock' = [Extend(recordBlock, RecordsAfter, NoBlock) EXCEPT ![NextRecord] = b]
  BY DEF IngestBlock, NextId
<1>4. b \notin DOMAIN blockIndex
  BY DEF IngestBlock, AcceptsBlock
<1>5. /\ DOMAIN recordSlot' = Records' /\ recordSlot'[NextRecord] = slot
      /\ \A q \in Records : q # NextRecord => recordSlot'[q] = recordSlot[q]
      /\ \A q \in Records' : q \notin Records /\ q # NextRecord => recordSlot'[q] = NoSlot
  BY <1>1, <1>2, <1>3 DEF Extend
<1>6. /\ DOMAIN recordId' = Records' /\ recordId'[NextRecord] = nextSerial + 1
      /\ \A q \in Records : q # NextRecord => recordId'[q] = recordId[q]
      /\ \A q \in Records' : q \notin Records /\ q # NextRecord => recordId'[q] = NoId
  BY <1>1, <1>2, <1>3 DEF Extend
<1>7. /\ DOMAIN recordBlock' = Records' /\ recordBlock'[NextRecord] = b
      /\ \A q \in Records : q # NextRecord => recordBlock'[q] = recordBlock[q]
      /\ \A q \in Records' : q \notin Records /\ q # NextRecord => recordBlock'[q] = NoBlock
  BY <1>1, <1>2, <1>3 DEF Extend
<1> QED BY <1>1, <1>4, <1>5, <1>6, <1>7

\* The free slots after ingestion: those that held no block, without the one taken.
LEMMA IngestFreeSlots ==
  ASSUME IInv, NEW b \in Blocks, NEW c \in Codes, NEW newCode \in Codes,
         NEW decision \in Slots \cup {NoSlot}, IngestBlock(b, c, decision, newCode),
         NEW slot, slot = IF decision = NoSlot THEN NextFreeSlot ELSE decision
  PROVE  /\ freeSlots' \in Seq(Slots')
         /\ \A i, j \in DOMAIN freeSlots' : freeSlots'[i] = freeSlots'[j] => i = j
         /\ \A s \in Slots' : (\E i \in DOMAIN freeSlots' : freeSlots'[i] = s)
                                <=> (s # slot /\ (s \in Slots => slotRecords[s] = {}))
<1>1. /\ Slots' = 0..(SlotsAfter(decision = NoSlot) - 1) /\ Slots \subseteq Slots'
      /\ decision # NoSlot => slot \in Slots /\ slotRecords[slot] # {}
  BY IngestSlot
<1>2. CASE decision = NoSlot
  <2> DEFINE n == SlotsAfter(TRUE)
             T == 0..(n - 1)
             free == FreeAfter(TRUE)
  <2>1. /\ free \in Seq(T) /\ free # <<>>
        /\ \A i, j \in DOMAIN free : free[i] = free[j] => i = j
        /\ \A s \in T : (\E i \in DOMAIN free : free[i] = s)
                              <=> (s \in Slots => slotRecords[s] = {})
    BY FreeAfterGrowth
  <2>2. Slots' = T
    <3>1. SlotsAfter(decision = NoSlot) = n
      BY <1>2 DEF SlotsAfter
    <3> QED BY <1>1, <3>1
  <2>3. freeSlots' = SubSeq(free, 1, Len(free) - 1) /\ slot = free[Len(free)]
    BY <1>2 DEF IngestBlock, NextFreeSlot
  <2> HIDE DEF n, T, free
  <2>4. /\ freeSlots' \in Seq(T)
        /\ \A i, j \in DOMAIN freeSlots' : freeSlots'[i] = freeSlots'[j] => i = j
        /\ \A x : (\E i \in DOMAIN freeSlots' : freeSlots'[i] = x)
                    <=> ((\E i \in DOMAIN free : free[i] = x) /\ x # free[Len(free)])
    <3> DEFINE q == SubSeq(free, 1, Len(free) - 1)
    <3>1. /\ q \in Seq(T)
          /\ \A i, j \in DOMAIN q : q[i] = q[j] => i = j
          /\ \A x : (\E i \in DOMAIN q : q[i] = x)
                      <=> ((\E i \in DOMAIN free : free[i] = x) /\ x # free[Len(free)])
      BY <2>1, PopDistinct, Zenon
    <3> HIDE DEF q
    <3>2. freeSlots' = q
      BY <2>3 DEF q
    <3> QED BY <3>1, <3>2
  <2> QED BY <2>1, <2>2, <2>3, <2>4
<1>3. CASE decision # NoSlot
  <2>1. freeSlots' = freeSlots /\ Slots' = Slots
    BY <1>1, <1>3 DEF IngestBlock, SlotsAfter, Slots
  <2>2. /\ freeSlots \in Seq(Slots)
        /\ \A i, j \in DOMAIN freeSlots : freeSlots[i] = freeSlots[j] => i = j
        /\ \A s \in Slots : slotRecords[s] = {} <=> \E i \in DOMAIN freeSlots : freeSlots[i] = s
    BY DEF IInv, TablesConsistent, TypeOK, TablesPartitioned
  <2> QED BY <1>1, <1>3, <2>1, <2>2
<1> QED BY <1>2, <1>3

\* The free indices after ingestion: those that were, without the one taken; the
\* high-water mark rises over an index taken above it.
LEMMA IngestFreeRecords ==
  ASSUME IInv, NEW b \in Blocks, NEW c \in Codes, NEW newCode \in Codes,
         NEW decision \in Slots \cup {NoSlot}, IngestBlock(b, c, decision, newCode)
  PROVE  /\ freeRecords' \in Seq(Records) /\ nextUnused' \in 0..RecordsAfter
         /\ \A i, j \in DOMAIN freeRecords' : freeRecords'[i] = freeRecords'[j] => i = j
         /\ \A q \in 0..(RecordsAfter - 1) :
              /\ (\E i \in DOMAIN freeRecords' : freeRecords'[i] = q)
                   <=> /\ q # NextRecord /\ q \in Records
                       /\ q < nextUnused /\ recordSlot[q] = NoSlot
              /\ q < nextUnused' <=> q < nextUnused \/ q = NextRecord
<1>1. /\ freeRecords \in Seq(Records) /\ nextUnused \in 0..recordCapacity /\ recordCapacity \in Nat
      /\ Records = 0..(recordCapacity - 1)
      /\ \A i, j \in DOMAIN freeRecords : freeRecords[i] = freeRecords[j] => i = j
      /\ \A r \in Records : (\E i \in DOMAIN freeRecords : freeRecords[i] = r)
                              <=> (r < nextUnused /\ recordSlot[r] = NoSlot)
  BY DEF IInv, TablesConsistent, TypeOK, TablesPartitioned, Records
<1>2. /\ RecordsAfter \in Nat \ {0} /\ Records \subseteq 0..(RecordsAfter - 1)
      /\ NextRecord \in 0..(RecordsAfter - 1)
      /\ freeRecords # <<>> => NextRecord \in Records /\ NextRecord < nextUnused
      /\ freeRecords = <<>> => NextRecord = nextUnused /\ nextUnused < RecordsAfter
  BY IngestRecord
<1>3. \A i \in DOMAIN freeRecords : freeRecords[i] \in Records
  BY <1>1, LenProperties, ElementOfSeq
<1>4. recordCapacity <= RecordsAfter
  BY <1>1 DEF RecordsAfter, Greatest
<1>5. CASE freeRecords = <<>>
  <2>1. freeRecords' = <<>> /\ nextUnused' = nextUnused + 1
    BY <1>5 DEF IngestBlock
  <2>2. DOMAIN freeRecords' = {} /\ DOMAIN freeRecords = {} /\ freeRecords' \in Seq(Records)
    BY <1>5, <2>1, EmptySeq
  <2>3. \A q \in 0..(RecordsAfter - 1) : q < nextUnused' <=> q < nextUnused \/ q = NextRecord
    BY <1>1, <1>2, <1>5, <2>1
  <2>4. nextUnused' \in 0..RecordsAfter
    BY <1>1, <1>2, <1>5, <2>1
  <2> QED BY <1>1, <2>2, <2>3, <2>4
<1>6. CASE freeRecords # <<>>
  <2>1. /\ freeRecords' = SubSeq(freeRecords, 1, Len(freeRecords) - 1) /\ nextUnused' = nextUnused
        /\ NextRecord = freeRecords[Len(freeRecords)]
    BY <1>6 DEF IngestBlock, NextRecord
  <2>2. /\ freeRecords' \in Seq(Records)
        /\ \A i, j \in DOMAIN freeRecords' : freeRecords'[i] = freeRecords'[j] => i = j
        /\ \A x : (\E i \in DOMAIN freeRecords' : freeRecords'[i] = x)
                    <=> ((\E i \in DOMAIN freeRecords : freeRecords[i] = x)
                           /\ x # freeRecords[Len(freeRecords)])
    <3> DEFINE q == SubSeq(freeRecords, 1, Len(freeRecords) - 1)
    <3>1. /\ q \in Seq(Records)
          /\ \A i, j \in DOMAIN q : q[i] = q[j] => i = j
          /\ \A x : (\E i \in DOMAIN q : q[i] = x)
                      <=> ((\E i \in DOMAIN freeRecords : freeRecords[i] = x)
                             /\ x # freeRecords[Len(freeRecords)])
      BY <1>1, <1>6, PopDistinct, Zenon
    <3> HIDE DEF q
    <3>2. freeRecords' = q
      BY <2>1 DEF q
    <3> QED BY <3>1, <3>2
  <2>3. nextUnused' \in 0..RecordsAfter
    BY <1>1, <1>2, <1>4, <2>1
  <2>4. \A q \in 0..(RecordsAfter - 1) : q < nextUnused' <=> q < nextUnused \/ q = NextRecord
    BY <1>2, <1>6, <2>1
  <2>5. \A q : (\E i \in DOMAIN freeRecords : freeRecords[i] = q)
                <=> (q \in Records /\ q < nextUnused /\ recordSlot[q] = NoSlot)
    BY <1>1, <1>3
  <2>6. \A q : (\E i \in DOMAIN freeRecords' : freeRecords'[i] = q)
                <=> /\ q # NextRecord /\ q \in Records
                    /\ q < nextUnused /\ recordSlot[q] = NoSlot
    BY <2>1, <2>2, <2>5
  <2> QED BY <2>2, <2>3, <2>4, <2>6
<1> QED BY <1>5, <1>6

\* Ingestion of a block preserves the types, also when the tables grow.
LEMMA IngestTypeOK ==
  ASSUME IInv, NEW b \in Blocks, NEW c \in Codes, NEW newCode \in Codes,
         NEW decision \in Slots \cup {NoSlot}, IngestBlock(b, c, decision, newCode), held' = held
  PROVE  TypeOK'
<1>1. PICK slot : slot = IF decision = NoSlot THEN NextFreeSlot ELSE decision
  OBVIOUS
<1> DEFINE r == NextRecord
<1>2. TypeOK
  BY DEF IInv, TablesConsistent
<1>3. Slots \subseteq Slots' /\ slot \in Slots' /\ slotCapacity' \in Nat \ {0}
  BY <1>1, IngestSlot
<1>4. /\ \A s \in Slots' :
           /\ slotRecords'[s] = (IF s \in Slots THEN slotRecords[s] ELSE {})
                                  \cup (IF s = slot THEN {r} ELSE {})
           /\ slotCount'[s] = (IF s \in Slots THEN slotCount[s] ELSE 0)
                                + (IF s = slot THEN 1 ELSE 0)
           /\ slotId'[s] = IF s = slot /\ decision = NoSlot THEN slotGeneration'[s]
                           ELSE IF s \in Slots THEN slotId[s] ELSE NoId
           /\ slotGeneration'[s] = (IF s \in Slots THEN slotGeneration[s] ELSE 0)
                                     + (IF s = slot /\ decision = NoSlot THEN 1 ELSE 0)
           /\ slotCode'[s] = IF s = slot THEN newCode
                             ELSE IF s \in Slots THEN slotCode[s] ELSE NoCode
      /\ slotActive' \in [Slots' -> BOOLEAN]
      /\ DOMAIN slotId' = Slots' /\ DOMAIN slotGeneration' = Slots'
  BY <1>1, IngestSlots
<1>5. /\ slotId' = [s \in DOMAIN slotId' |-> slotId'[s]]
      /\ slotGeneration' = [s \in DOMAIN slotGeneration' |-> slotGeneration'[s]]
  <2>1. /\ slotId = [s \in DOMAIN slotId |-> slotId[s]]
        /\ slotGeneration = [s \in DOMAIN slotGeneration |-> slotGeneration[s]]
    BY <1>2 DEF TypeOK
  <2>2. CASE decision = NoSlot
    BY <2>2 DEF IngestBlock, Extend
  <2>3. CASE decision # NoSlot
    BY <2>1, <2>3 DEF IngestBlock
  <2> QED BY <2>2, <2>3
<1>6. /\ slotRecords' = [s \in Slots' |-> slotRecords'[s]]
      /\ slotCount' = [s \in Slots' |-> slotCount'[s]]
      /\ slotCode' = [s \in Slots' |-> slotCode'[s]]
  BY DEF IngestBlock, Extend, Slots
<1>7. /\ Records' = 0..(RecordsAfter - 1) /\ Records \subseteq Records' /\ r \in Records'
      /\ recordSlot'[r] = slot /\ recordId'[r] = nextSerial + 1 /\ recordBlock'[r] = b
      /\ \A q \in Records : q # r =>
           /\ recordSlot'[q] = recordSlot[q] /\ recordId'[q] = recordId[q]
           /\ recordBlock'[q] = recordBlock[q]
      /\ \A q \in Records' : q \notin Records /\ q # r =>
           recordSlot'[q] = NoSlot /\ recordId'[q] = NoId /\ recordBlock'[q] = NoBlock
  BY <1>1, IngestRecords
<1>8. /\ recordCapacity' = RecordsAfter /\ nextSerial' = nextSerial + 1
      /\ recordSlot' = [q \in Records' |-> recordSlot'[q]]
      /\ recordId' = [q \in Records' |-> recordId'[q]]
      /\ recordBlock' = [q \in Records' |-> recordBlock'[q]]
      /\ recordUsage' = [q \in Records' |-> IF q \in DOMAIN recordUsage THEN recordUsage[q] ELSE 0]
      /\ recordRecalls' = [q \in Records' |-> IF q \in DOMAIN recordRecalls THEN recordRecalls[q] ELSE 0]
  BY DEF IngestBlock, Extend, Records
<1>9. slotId' \in [Slots' -> Nat] /\ slotGeneration' \in [Slots' -> Nat]
  <2>1. slotId \in [Slots -> Nat] /\ slotGeneration \in [Slots -> Nat]
    BY <1>2 DEF TypeOK
  <2>2. \A s \in Slots' : slotGeneration'[s] \in Nat
    BY <1>4, <2>1
  <2>3. \A s \in Slots' : slotId'[s] \in Nat
    BY <1>4, <2>1, <2>2 DEF NoId
  <2> QED BY <1>4, <1>5, <2>2, <2>3
<1>10. slotCount' \in [Slots' -> Int]
  <2>1. slotCount \in [Slots -> Int]
    BY <1>2 DEF TypeOK
  <2>2. \A s \in Slots' : slotCount'[s] \in Int
    BY <1>4, <2>1
  <2> QED BY <1>6, <2>2
<1>11. slotRecords' \in [Slots' -> SUBSET Records'] /\ slotCode' \in [Slots' -> Codes \cup {NoCode}]
  <2>1. slotRecords \in [Slots -> SUBSET Records] /\ slotCode \in [Slots -> Codes \cup {NoCode}]
    BY <1>2 DEF TypeOK
  <2>2. \A s \in Slots' : slotRecords'[s] \in SUBSET Records'
    <3>1. \A s \in Slots : slotRecords[s] \subseteq Records
      BY <2>1
    <3>2. \A s \in Slots' : slotRecords'[s] = (IF s \in Slots THEN slotRecords[s] ELSE {})
                                              \cup (IF s = slot THEN {r} ELSE {})
      BY <1>4
    <3>3. Records \subseteq Records' /\ r \in Records'
      BY <1>7
    <3> QED BY <3>1, <3>2, <3>3
  <2>3. \A s \in Slots' : slotCode'[s] \in Codes \cup {NoCode}
    BY <1>4, <2>1
  <2> QED BY <1>6, <2>2, <2>3
<1>12. freeSlots' \in Seq(Slots')
  BY <1>1, IngestFreeSlots
<1>13. recency' \subseteq Slots' \X Slots'
  <2> DEFINE code == [s \in {slot} |-> newCode]
  <2>1. recency' = LocalityUpdate({slot}, code)
    BY <1>1 DEF IngestBlock
  <2>2. recency \subseteq Slots' \X Slots' /\ DOMAIN slotCode \subseteq Slots' /\ {slot} \subseteq Slots'
    BY <1>2, <1>3 DEF TypeOK
  <2> HIDE DEF code
  <2> QED BY <2>1, <2>2, LocalityUpdateType
<1>14. RecordsAfter \in Nat \ {0} /\ freeRecords' \in Seq(Records') /\ nextUnused' \in 0..RecordsAfter
  <2>1. freeRecords' \in Seq(Records) /\ nextUnused' \in 0..RecordsAfter
    BY IngestFreeRecords
  <2>2. freeRecords' \in Seq(Records')
    BY <1>7, <2>1, SeqMonotonic
  <2>3. RecordsAfter \in Nat \ {0}
    BY IngestRecord
  <2> QED BY <2>1, <2>2, <2>3
<1>15. nextSerial \in Nat /\ nextSerial' \in Nat
  BY <1>2, <1>8 DEF TypeOK
<1>16. /\ recordSlot' \in [Records' -> Slots' \cup {NoSlot}] /\ recordId' \in [Records' -> Nat]
       /\ recordBlock' \in [Records' -> Blocks \cup {NoBlock}]
  <2>1. /\ recordSlot \in [Records -> Slots \cup {NoSlot}] /\ recordId \in [Records -> Nat]
        /\ recordBlock \in [Records -> Blocks \cup {NoBlock}]
    BY <1>2 DEF TypeOK
  <2>2. \A q \in Records' : recordSlot'[q] \in Slots' \cup {NoSlot}
    BY <1>3, <1>7, <2>1
  <2>3. \A q \in Records' : recordId'[q] \in Nat
    BY <1>7, <1>15, <2>1 DEF NoId
  <2>4. \A q \in Records' : recordBlock'[q] \in Blocks \cup {NoBlock}
    BY <1>7, <2>1
  <2> QED BY <1>8, <2>2, <2>3, <2>4
<1>17. recordUsage' \in [Records' -> Nat] /\ recordRecalls' \in [Records' -> Nat]
  BY <1>2, <1>8 DEF TypeOK
<1>18. /\ recordIndex' \in [DOMAIN recordIndex' -> Records'] /\ DOMAIN recordIndex' \subseteq 1..nextSerial'
       /\ blockIndex' \in [DOMAIN blockIndex' -> Records'] /\ DOMAIN blockIndex' \subseteq Blocks
  <2>1. /\ recordIndex' = [d \in DOMAIN recordIndex \cup {nextSerial + 1} |->
                             IF d = nextSerial + 1 THEN r ELSE recordIndex[d]]
        /\ blockIndex' = [x \in DOMAIN blockIndex \cup {b} |-> IF x = b THEN r ELSE blockIndex[x]]
    BY DEF IngestBlock, NextId
  <2>2. /\ recordIndex \in [DOMAIN recordIndex -> Records] /\ DOMAIN recordIndex \subseteq 1..nextSerial
        /\ blockIndex \in [DOMAIN blockIndex -> Records] /\ DOMAIN blockIndex \subseteq Blocks
    BY <1>2 DEF TypeOK
  <2>3. DOMAIN recordIndex' \subseteq 1..nextSerial'
    <3>1. DOMAIN recordIndex' = DOMAIN recordIndex \cup {nextSerial + 1}
      BY <2>1
    <3> QED BY <1>8, <1>15, <2>2, <3>1
  <2> QED BY <1>7, <2>1, <2>2, <2>3
<1>19. held' \in [DOMAIN held' -> Blocks] /\ DOMAIN held' \subseteq 1..nextSerial'
  BY <1>2, <1>8, <1>15 DEF TypeOK
<1> HIDE DEF r
<1> QED
  BY <1>3, <1>4, <1>8, <1>9, <1>10, <1>11, <1>12, <1>13, <1>14, <1>15, <1>16, <1>17, <1>18, <1>19
  DEF TypeOK

\* When ids and block ids lead to the same indices and back, they are as many.
LEMMA AsManyIdsAsBlocks ==
  ASSUME NEW index, NEW blocks, NEW ids, NEW names, IsFiniteSet(DOMAIN index),
         \A d \in DOMAIN index : /\ names[index[d]] \in DOMAIN blocks
                                 /\ ids[index[d]] = d /\ blocks[names[index[d]]] = index[d],
         \A x \in DOMAIN blocks : /\ ids[blocks[x]] \in DOMAIN index
                                  /\ names[blocks[x]] = x /\ index[ids[blocks[x]]] = blocks[x]
  PROVE  Cardinality(DOMAIN index) = Cardinality(DOMAIN blocks)
<1> DEFINE h == [d \in DOMAIN index |-> names[index[d]]]
<1>1. h \in [DOMAIN index -> DOMAIN blocks]
  OBVIOUS
<1>2. \A d, e \in DOMAIN index : h[d] = h[e] => d = e
  <2> SUFFICES ASSUME NEW d \in DOMAIN index, NEW e \in DOMAIN index,
                      names[index[d]] = names[index[e]]
               PROVE  d = e
    OBVIOUS
  <2>1. index[d] = index[e]
    <3>1. blocks[names[index[d]]] = index[d] /\ blocks[names[index[e]]] = index[e]
      OBVIOUS
    <3> QED BY <3>1
  <2> QED BY <2>1
<1>3. \A x \in DOMAIN blocks : \E d \in DOMAIN index : h[d] = x
  <2> SUFFICES ASSUME NEW x \in DOMAIN blocks PROVE \E d \in DOMAIN index : h[d] = x
    OBVIOUS
  <2>1. ids[blocks[x]] \in DOMAIN index /\ names[index[ids[blocks[x]]]] = x
    OBVIOUS
  <2> QED BY <2>1
<1>4. h \in Bijection(DOMAIN index, DOMAIN blocks)
  BY <1>1, <1>2, <1>3 DEF Bijection, Injection, Surjection, IsInjective
<1>5. ExistsBijection(DOMAIN index, DOMAIN blocks)
  BY <1>4 DEF ExistsBijection
<1> QED BY <1>5, FS_Bijection

\* Ingestion takes the slot and the record index from their holders.
LEMMA IngestPartitioned ==
  ASSUME IInv, NEW b \in Blocks, NEW c \in Codes, NEW newCode \in Codes,
         NEW decision \in Slots \cup {NoSlot}, IngestBlock(b, c, decision, newCode)
  PROVE  TablesPartitioned' /\ UnusedAreInactive'
<1>1. PICK slot : slot = IF decision = NoSlot THEN NextFreeSlot ELSE decision
  OBVIOUS
<1> DEFINE r == NextRecord
<1>2. slot \in Slots' /\ NoSlot \notin Slots' /\ Slots \subseteq Slots'
  BY <1>1, IngestSlot DEF Slots, NoSlot
<1>3. \A s \in Slots' : slotRecords'[s] = (IF s \in Slots THEN slotRecords[s] ELSE {})
                                            \cup (IF s = slot THEN {r} ELSE {})
  BY <1>1, IngestSlots
<1>4. /\ \A i, j \in DOMAIN freeSlots' : freeSlots'[i] = freeSlots'[j] => i = j
      /\ \A s \in Slots' : (\E i \in DOMAIN freeSlots' : freeSlots'[i] = s)
                                <=> (s # slot /\ (s \in Slots => slotRecords[s] = {}))
  BY <1>1, IngestFreeSlots
<1>5. \A s \in Slots' : slotRecords'[s] = {} <=> \E i \in DOMAIN freeSlots' : freeSlots'[i] = s
  <2>1. \A s \in Slots' : slotRecords'[s] = {} <=> (s # slot /\ (s \in Slots => slotRecords[s] = {}))
    BY <1>3
  <2> QED BY <1>4, <2>1
<1>6. /\ Records' = 0..(RecordsAfter - 1) /\ recordSlot'[r] = slot
      /\ \A q \in Records : q # r => recordSlot'[q] = recordSlot[q]
      /\ \A q \in Records' : q \notin Records /\ q # r => recordSlot'[q] = NoSlot
  BY <1>1, IngestRecords
<1>7. /\ \A i, j \in DOMAIN freeRecords' : freeRecords'[i] = freeRecords'[j] => i = j
      /\ \A q \in Records' :
           /\ (\E i \in DOMAIN freeRecords' : freeRecords'[i] = q)
                <=> /\ q # r /\ q \in Records /\ q < nextUnused /\ recordSlot[q] = NoSlot
           /\ q < nextUnused' <=> q < nextUnused \/ q = r
  BY <1>6, IngestFreeRecords
<1>8. \A q \in Records' : q \notin Records => ~(q < nextUnused)
  <2>1. recordCapacity \in Nat /\ nextUnused \in 0..recordCapacity /\ RecordsAfter \in Nat
    BY IngestRecord DEF IInv, TablesConsistent, TypeOK
  <2> QED BY <1>6, <2>1 DEF Records
<1> HIDE DEF r
<1>9. \A q \in Records' : (\E i \in DOMAIN freeRecords' : freeRecords'[i] = q)
                            <=> (q < nextUnused' /\ recordSlot'[q] = NoSlot)
  <2> SUFFICES ASSUME NEW q \in Records'
               PROVE  (q # r /\ q \in Records /\ q < nextUnused /\ recordSlot[q] = NoSlot)
                        <=> (q < nextUnused' /\ recordSlot'[q] = NoSlot)
    BY <1>7
  <2>1. CASE q = r
    BY <1>2, <1>6, <2>1
  <2>2. CASE q # r
    BY <1>6, <1>7, <1>8, <2>2
  <2> QED BY <2>1, <2>2
<1>10. \A q \in Records : recordSlot[q] # NoSlot => q < nextUnused
  BY DEF IInv, UnusedAreInactive
<1>11. \A q \in Records' : recordSlot'[q] # NoSlot => q < nextUnused'
  BY <1>6, <1>7, <1>10
<1> QED BY <1>4, <1>5, <1>7, <1>9, <1>11 DEF TablesPartitioned, UnusedAreInactive

\* Ingestion stores its block once and leaves the others where they are.
LEMMA IngestStored ==
  ASSUME IInv, NEW b \in Blocks, NEW c \in Codes, NEW newCode \in Codes,
         NEW decision \in Slots \cup {NoSlot}, IngestBlock(b, c, decision, newCode), held' = held
  PROVE  BlocksStoredOnce' /\ IdsNameBlocks'
<1>1. PICK slot : slot = IF decision = NoSlot THEN NextFreeSlot ELSE decision
  OBVIOUS
<1> DEFINE r == NextRecord
           id == nextSerial + 1
<1>2. slot \in Slots' /\ NoSlot \notin Slots' /\ Slots \subseteq Slots'
  BY <1>1, IngestSlot DEF Slots, NoSlot
<1>3. \A s \in Slots' : slotRecords'[s] = (IF s \in Slots THEN slotRecords[s] ELSE {})
                                            \cup (IF s = slot THEN {r} ELSE {})
  BY <1>1, IngestSlots
<1>4. /\ Records \subseteq Records' /\ r \in Records' /\ (r \in Records => recordSlot[r] = NoSlot)
      /\ b \notin DOMAIN blockIndex
      /\ recordSlot'[r] = slot /\ recordId'[r] = id /\ recordBlock'[r] = b
      /\ \A q \in Records : q # r =>
           /\ recordSlot'[q] = recordSlot[q] /\ recordId'[q] = recordId[q]
           /\ recordBlock'[q] = recordBlock[q]
      /\ \A q \in Records' : q \notin Records /\ q # r =>
           recordSlot'[q] = NoSlot /\ recordId'[q] = NoId /\ recordBlock'[q] = NoBlock
  BY <1>1, IngestRecords
<1>5. /\ recordIndex' = [d \in DOMAIN recordIndex \cup {id} |->
                           IF d = id THEN r ELSE recordIndex[d]]
      /\ blockIndex' = [x \in DOMAIN blockIndex \cup {b} |-> IF x = b THEN r ELSE blockIndex[x]]
  BY DEF IngestBlock, NextId
<1>6. id \notin DOMAIN recordIndex /\ id # NoId /\ nextSerial' = id
  <2>1. nextSerial \in Nat /\ DOMAIN recordIndex \subseteq 1..nextSerial
    BY DEF IInv, TablesConsistent, TypeOK
  <2> QED BY <2>1 DEF IngestBlock, NoId
<1>7. /\ NoSlot \notin Slots /\ NoBlock \notin Blocks
      /\ \A q \in Records : recordSlot[q] # NoSlot =>
           /\ recordSlot[q] \in Slots
           /\ recordBlock[q] \in Blocks /\ recordBlock[q] \in DOMAIN blockIndex
           /\ blockIndex[recordBlock[q]] = q
           /\ recordId[q] \in DOMAIN recordIndex /\ recordIndex[recordId[q]] = q
      /\ \A q \in Records : recordSlot[q] = NoSlot => recordBlock[q] = NoBlock
      /\ \A s \in Slots : /\ slotRecords[s] \subseteq Records
                          /\ \A q \in Records : q \in slotRecords[s] <=> recordSlot[q] = s
      /\ \A x \in DOMAIN blockIndex :
           /\ blockIndex[x] \in Records /\ recordBlock[blockIndex[x]] = x
           /\ recordSlot[blockIndex[x]] # NoSlot
      /\ \A d \in DOMAIN recordIndex :
           /\ recordIndex[d] \in Records /\ recordId[recordIndex[d]] = d
           /\ recordSlot[recordIndex[d]] # NoSlot
  BY StoredFacts
<1> HIDE DEF r, id
<1>8. \A q \in Records' : q # r /\ recordSlot'[q] # NoSlot =>
        q \in Records /\ recordSlot[q] # NoSlot /\ recordBlock[q] # b /\ recordId[q] # id
  BY <1>4, <1>6, <1>7
<1>9. \A q \in Records' : recordSlot'[q] # NoSlot <=> recordBlock'[q] # NoBlock
  BY <1>2, <1>4, <1>7
<1>10. \A q \in Records' : recordBlock'[q] # NoBlock =>
         /\ recordBlock'[q] \in DOMAIN blockIndex' /\ blockIndex'[recordBlock'[q]] = q
         /\ recordId'[q] \in DOMAIN recordIndex' /\ recordIndex'[recordId'[q]] = q
  <2> SUFFICES ASSUME NEW q \in Records', recordBlock'[q] # NoBlock
               PROVE  /\ recordBlock'[q] \in DOMAIN blockIndex' /\ blockIndex'[recordBlock'[q]] = q
                      /\ recordId'[q] \in DOMAIN recordIndex' /\ recordIndex'[recordId'[q]] = q
    OBVIOUS
  <2>1. CASE q = r
    BY <1>4, <1>5, <2>1
  <2>2. CASE q # r
    <3>1. q \in Records /\ recordSlot[q] # NoSlot /\ recordBlock[q] # b /\ recordId[q] # id
      BY <1>8, <1>9, <2>2
    <3>2. recordBlock'[q] = recordBlock[q] /\ recordId'[q] = recordId[q]
      BY <1>4, <2>2, <3>1
    <3> QED BY <1>5, <1>7, <3>1, <3>2
  <2> QED BY <2>1, <2>2
<1>11. \A x \in DOMAIN blockIndex' :
         /\ blockIndex'[x] \in Records' /\ recordBlock'[blockIndex'[x]] = x
         /\ recordSlot'[blockIndex'[x]] # NoSlot /\ x # NoBlock
  <2> SUFFICES ASSUME NEW x \in DOMAIN blockIndex'
               PROVE  /\ blockIndex'[x] \in Records' /\ recordBlock'[blockIndex'[x]] = x
                      /\ recordSlot'[blockIndex'[x]] # NoSlot /\ x # NoBlock
    OBVIOUS
  <2>1. CASE x = b
    <3>1. blockIndex'[x] = r
      BY <1>5, <2>1
    <3> QED BY <1>2, <1>4, <1>7, <2>1, <3>1
  <2>2. CASE x # b
    <3>1. x \in DOMAIN blockIndex /\ blockIndex'[x] = blockIndex[x]
      BY <1>5, <2>2
    <3>2. blockIndex[x] \in Records /\ blockIndex[x] # r
      BY <1>4, <1>7, <3>1
    <3>3. x \in Blocks
      BY <1>7, <3>1
    <3> QED BY <1>4, <1>7, <3>1, <3>2, <3>3
  <2> QED BY <2>1, <2>2
<1>12. \A d \in DOMAIN recordIndex' :
         /\ recordIndex'[d] \in Records' /\ recordId'[recordIndex'[d]] = d
         /\ recordSlot'[recordIndex'[d]] # NoSlot
  <2> SUFFICES ASSUME NEW d \in DOMAIN recordIndex'
               PROVE  /\ recordIndex'[d] \in Records' /\ recordId'[recordIndex'[d]] = d
                      /\ recordSlot'[recordIndex'[d]] # NoSlot
    OBVIOUS
  <2>1. CASE d = id
    <3>1. recordIndex'[d] = r
      BY <1>5, <2>1
    <3> QED BY <1>2, <1>4, <2>1, <3>1
  <2>2. CASE d # id
    <3>1. d \in DOMAIN recordIndex /\ recordIndex'[d] = recordIndex[d]
      BY <1>5, <2>2
    <3>2. recordIndex[d] \in Records /\ recordIndex[d] # r
      BY <1>4, <1>7, <3>1
    <3> QED BY <1>4, <1>7, <3>1, <3>2
  <2> QED BY <2>1, <2>2
<1>13. DOMAIN blockIndex' = {recordBlock'[q] : q \in Records'} \ {NoBlock}
  BY <1>10, <1>11
<1>14. Cardinality(DOMAIN recordIndex') = Cardinality(DOMAIN blockIndex')
  <2>1. IsFiniteSet(DOMAIN recordIndex')
    <3>1. TypeOK'
      BY IngestTypeOK
    <3>2. DOMAIN recordIndex' \subseteq 1..nextSerial' /\ nextSerial' \in Nat
      BY <3>1 DEF TypeOK
    <3>3. IsFiniteSet(1..nextSerial')
      BY <3>2, FS_Interval
    <3> QED BY <3>2, <3>3, FS_Subset
  <2>2. \A d \in DOMAIN recordIndex' :
          /\ recordBlock'[recordIndex'[d]] \in DOMAIN blockIndex' /\ recordId'[recordIndex'[d]] = d
          /\ blockIndex'[recordBlock'[recordIndex'[d]]] = recordIndex'[d]
    BY <1>9, <1>10, <1>12
  <2>3. \A x \in DOMAIN blockIndex' :
          /\ recordId'[blockIndex'[x]] \in DOMAIN recordIndex' /\ recordBlock'[blockIndex'[x]] = x
          /\ recordIndex'[recordId'[blockIndex'[x]]] = blockIndex'[x]
    BY <1>9, <1>10, <1>11
  <2> QED BY <2>1, <2>2, <2>3, AsManyIdsAsBlocks
<1>15. \A s \in Slots' : slotRecords'[s] = {q \in Records' : recordSlot'[q] = s}
  <2> SUFFICES ASSUME NEW s \in Slots', NEW q
               PROVE  q \in slotRecords'[s] <=> q \in Records' /\ recordSlot'[q] = s
    OBVIOUS
  <2>1. CASE q = r
    <3>1. \A t \in Slots : r \notin slotRecords[t]
      BY <1>4, <1>7
    <3> QED BY <1>3, <1>4, <2>1, <3>1
  <2>2. CASE q # r /\ q \in Records
    <3>1. q \in slotRecords'[s] <=> s \in Slots /\ recordSlot[q] = s
      BY <1>3, <1>7, <2>2
    <3>2. recordSlot[q] = s => s \in Slots
      BY <1>2, <1>7, <2>2
    <3> QED BY <1>4, <2>2, <3>1, <3>2
  <2>3. CASE q # r /\ q \notin Records
    <3>1. q \notin slotRecords'[s]
      BY <1>3, <1>7, <2>3
    <3>2. q \in Records' => recordSlot'[q] = NoSlot
      BY <1>4, <2>3
    <3> QED BY <1>2, <3>1, <3>2
  <2> QED BY <2>1, <2>2, <2>3
<1> QED BY <1>9, <1>10, <1>12, <1>13, <1>14, <1>15 DEF BlocksStoredOnce, IdsNameBlocks

\* Counts, activity, liveness and the locality index follow the block that came.
LEMMA IngestRouting ==
  ASSUME IInv, NEW b \in Blocks, NEW c \in Codes, NEW newCode \in Codes,
         NEW decision \in Slots \cup {NoSlot}, IngestBlock(b, c, decision, newCode)
  PROVE  RoutingAgrees'
<1>1. PICK slot : slot = IF decision = NoSlot THEN NextFreeSlot ELSE decision
  OBVIOUS
<1> DEFINE r == NextRecord
<1>2. /\ Slots \subseteq Slots' /\ slot \in Slots'
      /\ decision = NoSlot => (slot \in Slots => slotRecords[slot] = {})
      /\ decision # NoSlot => slot \in Slots /\ slotRecords[slot] # {}
  BY <1>1, IngestSlot
<1>3. /\ \A s \in Slots' :
           /\ slotRecords'[s] = (IF s \in Slots THEN slotRecords[s] ELSE {})
                                  \cup (IF s = slot THEN {r} ELSE {})
           /\ slotCount'[s] = (IF s \in Slots THEN slotCount[s] ELSE 0)
                                + (IF s = slot THEN 1 ELSE 0)
           /\ slotActive'[s] <=> s = slot \/ (s \in Slots /\ slotActive[s])
           /\ slotId'[s] = IF s = slot /\ decision = NoSlot THEN slotGeneration'[s]
                           ELSE IF s \in Slots THEN slotId[s] ELSE NoId
           /\ slotGeneration'[s] = (IF s \in Slots THEN slotGeneration[s] ELSE 0)
                                     + (IF s = slot /\ decision = NoSlot THEN 1 ELSE 0)
           /\ slotCode'[s] = IF s = slot THEN newCode
                             ELSE IF s \in Slots THEN slotCode[s] ELSE NoCode
      /\ DOMAIN slotCode' = Slots'
  BY <1>1, IngestSlots
<1>4. /\ \A s \in Slots : /\ slotCount[s] = Cardinality(slotRecords[s])
                          /\ slotActive[s] <=> slotRecords[s] # {}
                          /\ slotRecords[s] \subseteq Records /\ IsFiniteSet(slotRecords[s])
                          /\ \A q \in Records : q \in slotRecords[s] <=> recordSlot[q] = s
                          /\ slotRecords[s] # {} <=> slotId[s] # NoId
                          /\ slotRecords[s] # {} <=> slotCode[s] # NoCode
      /\ NoSlot \notin Slots /\ BucketsOrdered
      /\ slotGeneration \in [Slots -> Nat] /\ DOMAIN slotCode = Slots
  BY StoredFacts DEF IInv, TablesConsistent, TypeOK, RoutingAgrees
<1>5. r \in Records => recordSlot[r] = NoSlot
  BY IngestRecord
<1>6. newCode # NoCode
  BY CodesAssumption DEF NoCode
<1> HIDE DEF r
<1>7. \A s \in Slots : r \notin slotRecords[s]
  BY <1>4, <1>5
<1>8. \A s \in Slots' : slotCount'[s] = Cardinality(slotRecords'[s])
  <2> SUFFICES ASSUME NEW s \in Slots' PROVE slotCount'[s] = Cardinality(slotRecords'[s])
    OBVIOUS
  <2> DEFINE old == IF s \in Slots THEN slotRecords[s] ELSE {}
  <2>1. /\ IsFiniteSet(old) /\ Cardinality(old) \in Nat /\ r \notin old
        /\ (IF s \in Slots THEN slotCount[s] ELSE 0) = Cardinality(old)
    <3>1. IsFiniteSet(old) /\ r \notin old
      BY <1>4, <1>7, FS_EmptySet
    <3>2. (IF s \in Slots THEN slotCount[s] ELSE 0) = Cardinality(old)
      BY <1>4, FS_EmptySet
    <3> QED BY <3>1, <3>2, FS_CardinalityType
  <2>2. slotRecords'[s] = old \cup (IF s = slot THEN {r} ELSE {})
        /\ slotCount'[s] = Cardinality(old) + (IF s = slot THEN 1 ELSE 0)
    BY <1>3, <2>1
  <2> HIDE DEF old
  <2>3. CASE s = slot
    <3>1. Cardinality(old \cup {r}) = Cardinality(old) + 1
      BY <2>1, FS_AddElement
    <3> QED BY <2>2, <2>3, <3>1
  <2>4. CASE s # slot
    BY <2>1, <2>2, <2>4
  <2> QED BY <2>3, <2>4
<1>9. \A s \in Slots' : slotRecords'[s] # {} <=> s = slot \/ (s \in Slots /\ slotRecords[s] # {})
  BY <1>3
<1>10. \A s \in Slots' : slotActive'[s] <=> slotRecords'[s] # {}
  BY <1>3, <1>4, <1>9
<1>11. \A s \in Slots' : slotId'[s] # NoId <=> slotRecords'[s] # {}
  <2>1. slotGeneration'[slot] # NoId \/ decision # NoSlot
    BY <1>2, <1>3, <1>4 DEF NoId
  <2> QED BY <1>2, <1>3, <1>4, <1>9, <2>1
<1>12. \A s \in Slots' : slotCode'[s] # NoCode <=> slotRecords'[s] # {}
  BY <1>3, <1>4, <1>6, <1>9
<1>13. Live' = {s \in Slots' : slotRecords'[s] # {}} /\ Indexed' = Live'
  BY <1>3, <1>11, <1>12 DEF Live, Indexed
<1>14. recency' = LocalityUpdate({slot}, [s \in {slot} |-> newCode])
  BY <1>1 DEF IngestBlock
<1> DEFINE code == [s \in {slot} |-> newCode]
<1>15. Indexed' = Indexed \cup {slot}
  BY <1>2, <1>3, <1>4, <1>6 DEF Indexed
<1>16. \A s \in Indexed' : slotCode'[s] = IF s \in {slot} THEN code[s] ELSE slotCode[s]
  BY <1>2, <1>3, <1>4 DEF Indexed
<1>17. {slot} \subseteq Int
  BY <1>2 DEF Slots
<1>18. BucketsOrdered'
  BY <1>4, <1>14, <1>15, <1>16, <1>17, UpdateKeepsOrder
<1> QED BY <1>8, <1>10, <1>13, <1>18 DEF RoutingAgrees

\* Generations grow no faster than the blocks that arrive, and a reader's ids,
\* older than the block that arrives, lead where they led.
LEMMA IngestRest ==
  ASSUME IInv, NEW b \in Blocks, NEW c \in Codes, NEW newCode \in Codes,
         NEW decision \in Slots \cup {NoSlot}, IngestBlock(b, c, decision, newCode), held' = held
  PROVE  GenerationInv' /\ HeldIdsNameTheirBlocks'
<1>1. PICK slot : slot = IF decision = NoSlot THEN NextFreeSlot ELSE decision
  OBVIOUS
<1>2. /\ \A s \in Live : slotId[s] = slotGeneration[s]
      /\ \A s \in Slots : slotGeneration[s] <= nextSerial
      /\ nextSerial \in Nat /\ MaxSerial \in Nat /\ nextSerial < MaxSerial
      /\ nextSerial' = nextSerial + 1
      /\ slotGeneration \in [Slots -> Nat] /\ slotId \in [Slots -> Nat]
      /\ DOMAIN recordIndex \subseteq 1..nextSerial /\ DOMAIN held \subseteq 1..nextSerial
  BY BlockConfigAssumption DEF IInv, GenerationInv, TablesConsistent, TypeOK, IngestBlock
<1>3. \A s \in Slots' :
        /\ slotId'[s] = IF s = slot /\ decision = NoSlot THEN slotGeneration'[s]
                        ELSE IF s \in Slots THEN slotId[s] ELSE NoId
        /\ slotGeneration'[s] = (IF s \in Slots THEN slotGeneration[s] ELSE 0)
                                  + (IF s = slot /\ decision = NoSlot THEN 1 ELSE 0)
  BY <1>1, IngestSlots
<1>4. GenerationInv'
  <2>1. \A s \in Slots' : slotGeneration'[s] <= nextSerial'
    BY <1>2, <1>3
  <2>2. \A s \in Live' : slotId'[s] = slotGeneration'[s]
    <3> SUFFICES ASSUME NEW s \in Slots', slotId'[s] # NoId
                 PROVE  slotId'[s] = slotGeneration'[s]
      BY DEF Live
    <3>1. CASE s = slot /\ decision = NoSlot
      BY <1>3, <3>1
    <3>2. CASE ~(s = slot /\ decision = NoSlot)
      <4>1. s \in Slots /\ slotId'[s] = slotId[s] /\ slotGeneration'[s] = slotGeneration[s] + 0
        BY <1>3, <3>2
      <4>2. s \in Live
        BY <4>1 DEF Live
      <4> QED BY <1>2, <4>1, <4>2
    <3> QED BY <3>1, <3>2
  <2>3. nextSerial' <= MaxSerial
    BY <1>2
  <2> QED BY <2>1, <2>2, <2>3 DEF GenerationInv
<1>5. HeldIdsNameTheirBlocks'
  <2> SUFFICES ASSUME NEW d \in DOMAIN held, d \in DOMAIN recordIndex'
               PROVE  recordBlock'[recordIndex'[d]] = held[d]
    BY DEF HeldIdsNameTheirBlocks
  <2>1. d # nextSerial + 1
    BY <1>2
  <2>2. d \in DOMAIN recordIndex /\ recordIndex'[d] = recordIndex[d]
    BY <2>1 DEF IngestBlock, NextId
  <2>3. recordIndex[d] \in Records /\ recordIndex[d] # NextRecord
    BY <2>2, StoredFacts, IngestRecord
  <2>4. recordBlock'[recordIndex[d]] = recordBlock[recordIndex[d]]
    BY <1>1, <2>3, IngestRecords
  <2> QED BY <2>2, <2>4 DEF IInv, HeldIdsNameTheirBlocks
<1> QED BY <1>4, <1>5

\* Ingestion preserves all of it.
LEMMA IngestIInv ==
  ASSUME IInv, Ingest
  PROVE  IInv'
<1>1. PICK b \in Blocks, c \in Codes, newCode \in Codes :
        \E decision \in Slots \cup {NoSlot} : IngestBlock(b, c, decision, newCode)
  BY DEF Ingest
<1>2. PICK decision \in Slots \cup {NoSlot} : IngestBlock(b, c, decision, newCode)
  BY <1>1
<1>3. held' = held
  BY DEF Ingest
<1>4. TypeOK' /\ BlocksStoredOnce' /\ IdsNameBlocks' /\ GenerationInv' /\ HeldIdsNameTheirBlocks'
  BY <1>2, <1>3, IngestTypeOK, IngestStored, IngestRest
<1>5. TablesPartitioned' /\ UnusedAreInactive' /\ RoutingAgrees'
  BY <1>2, IngestPartitioned, IngestRouting
<1> QED BY <1>4, <1>5 DEF IInv, TablesConsistent

------------------------------------------------------------------------------
(* Observation, with what it evicts.                                       *)

\* The moving average of two usage rates is a usage rate.
LEMMA UsageIsNat ==
  ASSUME NEW a \in Nat, NEW b \in Nat
  PROVE  (a * (EmaScale - EmaWeight) + b * EmaWeight) \div EmaScale \in Nat
<1>1. EmaScale \in Nat \ {0} /\ EmaWeight \in Nat /\ EmaScale - EmaWeight \in Nat
  BY BlockConfigAssumption
<1> DEFINE c == EmaScale - EmaWeight
           w == EmaWeight
<1>2. a * c \in Nat /\ b * w \in Nat
  <2>1. c \in Nat /\ w \in Nat
    BY <1>1
  <2> HIDE DEF c, w
  <2> QED BY <2>1
<1> DEFINE n == a * c + b * w
<1>3. n \in Nat
  BY <1>2
<1> HIDE DEF n
<1>4. n \div EmaScale \in Nat
  BY <1>1, <1>3
<1> QED BY <1>4 DEF n

\* A listing of a finite set is a sequence that has each element once.
LEMMA ListingType ==
  ASSUME NEW S, NEW T, IsFiniteSet(S), S \subseteq T, NEW q \in Listings(S)
  PROVE  /\ q \in Seq(T)
         /\ \A i \in DOMAIN q : q[i] \in S
         /\ \A x \in S : \E i \in DOMAIN q : q[i] = x
         /\ \A i, j \in DOMAIN q : q[i] = q[j] => i = j
<1>1. Cardinality(S) \in Nat
  BY FS_CardinalityType
<1>2. q \in [1..Cardinality(S) -> S]
  BY DEF Listings
<1>3. q \in Seq(S)
  BY <1>1, <1>2, SeqDef
<1>4. q \in Seq(T)
  BY <1>3, SeqMonotonic
<1> QED BY <1>2, <1>4 DEF Listings

\* What an observation that evicts E does to the slots and the records.
LEMMA ObserveEffect ==
  ASSUME IInv, NEW ids, NEW usage, NEW evicting, NEW E \in SUBSET IndicesOf(ids),
         ObserveRecallUsage(ids, usage, evicting, E)
  PROVE  /\ Slots' = Slots /\ Records' = Records /\ E \subseteq Records /\ IsFiniteSet(E)
         /\ \A r \in E : recordSlot[r] # NoSlot
         /\ UNCHANGED <<slotCapacity, slotGeneration, recordCapacity, nextUnused, nextSerial>>
         /\ \A s \in Slots : slotRecords'[s] = slotRecords[s] \ E
<1>1. /\ Slots' = Slots /\ Records' = Records
      /\ UNCHANGED <<slotCapacity, slotGeneration, recordCapacity, nextUnused, nextSerial>>
  BY DEF ObserveRecallUsage, Slots, Records
<1>2. EvictRecords(E) /\ ids \subseteq DOMAIN recordIndex
  BY DEF ObserveRecallUsage, Accepts
<1>3. \A r \in E : r \in Records /\ recordSlot[r] # NoSlot
  BY <1>2, StoredFacts DEF IndicesOf
<1>4. IsFiniteSet(E)
  <2>1. IsFiniteSet(Records)
    <3>1. 0 \in Int /\ recordCapacity - 1 \in Int
      BY DEF IInv, TablesConsistent, TypeOK
    <3> QED BY <3>1, FS_Interval DEF Records
  <2> QED BY <1>3, <2>1, FS_Subset
<1>5. \A s \in Slots : slotRecords'[s] = slotRecords[s] \ E
  BY <1>2 DEF EvictRecords
<1> QED BY <1>1, <1>3, <1>4, <1>5

\* The slots an eviction empties held a block and lose their last one.
LEMMA EmptiedSlots ==
  ASSUME IInv, NEW E
  PROVE  /\ Emptied(E) \subseteq Slots /\ IsFiniteSet(Emptied(E))
         /\ \A s \in Slots : s \in Emptied(E)
                               <=> slotRecords[s] # {} /\ slotRecords[s] \ E = {}
<1>1. 0 \in Int /\ slotCapacity - 1 \in Int
  BY DEF IInv, TablesConsistent, TypeOK
<1>2. IsFiniteSet(Slots)
  BY <1>1, FS_Interval DEF Slots
<1>3. Emptied(E) \subseteq Slots
  BY DEF Emptied
<1>4. \A s \in Slots : s \in Emptied(E) <=> slotRecords[s] # {} /\ slotRecords[s] \ E = {}
  BY DEF Emptied
<1> QED BY <1>2, <1>3, <1>4, FS_Subset

\* Both stacks take back what the eviction released, each slot and index once.
LEMMA ObserveFree ==
  ASSUME IInv, NEW ids, NEW usage, NEW evicting, NEW E \in SUBSET IndicesOf(ids),
         ObserveRecallUsage(ids, usage, evicting, E)
  PROVE  /\ freeSlots' \in Seq(Slots)
         /\ \A i, j \in DOMAIN freeSlots' : freeSlots'[i] = freeSlots'[j] => i = j
         /\ \A s : (\E i \in DOMAIN freeSlots' : freeSlots'[i] = s)
                     <=> ((\E i \in DOMAIN freeSlots : freeSlots[i] = s) \/ s \in Emptied(E))
         /\ freeRecords' \in Seq(Records)
         /\ \A i, j \in DOMAIN freeRecords' : freeRecords'[i] = freeRecords'[j] => i = j
         /\ \A r : (\E i \in DOMAIN freeRecords' : freeRecords'[i] = r)
                     <=> ((\E i \in DOMAIN freeRecords : freeRecords[i] = r) \/ r \in E)
<1>1. /\ freeSlots \in Seq(Slots) /\ freeRecords \in Seq(Records)
      /\ \A i, j \in DOMAIN freeSlots : freeSlots[i] = freeSlots[j] => i = j
      /\ \A s \in Slots : slotRecords[s] = {} <=> \E i \in DOMAIN freeSlots : freeSlots[i] = s
      /\ \A i, j \in DOMAIN freeRecords : freeRecords[i] = freeRecords[j] => i = j
      /\ \A r \in Records : (\E i \in DOMAIN freeRecords : freeRecords[i] = r)
                              <=> (r < nextUnused /\ recordSlot[r] = NoSlot)
  BY DEF IInv, TablesConsistent, TypeOK, TablesPartitioned
<1>2. EvictRecords(E)
  BY DEF ObserveRecallUsage
<1>3. E \subseteq Records /\ IsFiniteSet(E) /\ \A r \in E : recordSlot[r] # NoSlot
  BY ObserveEffect
<1>4. /\ Emptied(E) \subseteq Slots /\ IsFiniteSet(Emptied(E))
      /\ \A s \in Emptied(E) : slotRecords[s] # {}
  BY EmptiedSlots DEF Emptied
<1>5. PICK so \in Listings(Emptied(E)) : freeSlots' = freeSlots \o so
  BY <1>2 DEF EvictRecords
<1>6. PICK ro \in Listings(E) : freeRecords' = freeRecords \o ro
  BY <1>2 DEF EvictRecords, ByPosition
<1>7. /\ so \in Seq(Slots)
      /\ \A i \in DOMAIN so : so[i] \in Emptied(E)
      /\ \A x \in Emptied(E) : \E i \in DOMAIN so : so[i] = x
      /\ \A i, j \in DOMAIN so : so[i] = so[j] => i = j
  BY <1>4, ListingType, Zenon
<1>8. /\ ro \in Seq(Records)
      /\ \A i \in DOMAIN ro : ro[i] \in E
      /\ \A x \in E : \E i \in DOMAIN ro : ro[i] = x
      /\ \A i, j \in DOMAIN ro : ro[i] = ro[j] => i = j
  BY <1>3, ListingType, Zenon
<1>9. \A i \in DOMAIN freeSlots : freeSlots[i] \notin Emptied(E)
  BY <1>1, <1>4
<1>10. \A i \in DOMAIN freeRecords : freeRecords[i] \notin E
  BY <1>1, <1>3
<1>11. /\ freeSlots' \in Seq(Slots)
       /\ \A i, j \in DOMAIN freeSlots' : freeSlots'[i] = freeSlots'[j] => i = j
       /\ \A s : (\E i \in DOMAIN freeSlots' : freeSlots'[i] = s)
                   <=> ((\E i \in DOMAIN freeSlots : freeSlots[i] = s) \/ s \in Emptied(E))
  <2> DEFINE q == freeSlots \o so
  <2>1. /\ \A i, j \in DOMAIN q : q[i] = q[j] => i = j
        /\ \A x : (\E i \in DOMAIN q : q[i] = x)
                    <=> ((\E i \in DOMAIN freeSlots : freeSlots[i] = x) \/ x \in Emptied(E))
    <3>1. freeSlots \in Seq(Slots) /\ so \in Seq(Slots)
      BY <1>1, <1>7, <1>9
    <3>2. /\ \A i, j \in DOMAIN freeSlots : freeSlots[i] = freeSlots[j] => i = j
          /\ \A i \in DOMAIN freeSlots : freeSlots[i] \notin Emptied(E)
      BY <1>1, <1>7, <1>9
    <3>3. /\ \A i \in DOMAIN so : so[i] \in Emptied(E)
          /\ \A x \in Emptied(E) : \E i \in DOMAIN so : so[i] = x
          /\ \A i, j \in DOMAIN so : so[i] = so[j] => i = j
      BY <1>1, <1>7, <1>9
    <3> QED BY <3>1, <3>2, <3>3, AppendDistinct, Zenon
  <2>2. q \in Seq(Slots)
    BY <1>1, <1>7, ConcatProperties
  <2>3. freeSlots' = q
    BY <1>5
  <2> HIDE DEF q
  <2> QED BY <2>1, <2>2, <2>3
<1>12. /\ freeRecords' \in Seq(Records)
       /\ \A i, j \in DOMAIN freeRecords' : freeRecords'[i] = freeRecords'[j] => i = j
       /\ \A r : (\E i \in DOMAIN freeRecords' : freeRecords'[i] = r)
                   <=> ((\E i \in DOMAIN freeRecords : freeRecords[i] = r) \/ r \in E)
  <2> DEFINE q == freeRecords \o ro
  <2>1. /\ \A i, j \in DOMAIN q : q[i] = q[j] => i = j
        /\ \A x : (\E i \in DOMAIN q : q[i] = x)
                    <=> ((\E i \in DOMAIN freeRecords : freeRecords[i] = x) \/ x \in E)
    <3>1. freeRecords \in Seq(Records) /\ ro \in Seq(Records)
      BY <1>1, <1>8, <1>10
    <3>2. /\ \A i, j \in DOMAIN freeRecords : freeRecords[i] = freeRecords[j] => i = j
          /\ \A i \in DOMAIN freeRecords : freeRecords[i] \notin E
      BY <1>1, <1>8, <1>10
    <3>3. /\ \A i \in DOMAIN ro : ro[i] \in E
          /\ \A x \in E : \E i \in DOMAIN ro : ro[i] = x
          /\ \A i, j \in DOMAIN ro : ro[i] = ro[j] => i = j
      BY <1>1, <1>8, <1>10
    <3> QED BY <3>1, <3>2, <3>3, AppendDistinct, Zenon
  <2>2. q \in Seq(Records)
    BY <1>1, <1>8, ConcatProperties
  <2>3. freeRecords' = q
    BY <1>6
  <2> HIDE DEF q
  <2> QED BY <2>1, <2>2, <2>3
<1> QED BY <1>11, <1>12

\* An observation, with what it evicts, preserves the types.
LEMMA ObserveTypeOK ==
  ASSUME IInv, NEW ids, NEW usage \in [ids -> UsageRates], NEW evicting,
         NEW E \in SUBSET IndicesOf(ids), ObserveRecallUsage(ids, usage, evicting, E), held' = held
  PROVE  TypeOK'
<1>1. /\ Slots' = Slots /\ Records' = Records /\ E \subseteq Records
      /\ UNCHANGED <<slotCapacity, slotGeneration, recordCapacity, nextUnused, nextSerial>>
  BY ObserveEffect
<1>2. TypeOK /\ EvictRecords(E) /\ ids \subseteq DOMAIN recordIndex
  BY DEF IInv, TablesConsistent, ObserveRecallUsage, Accepts
<1>3. /\ slotId' \in [Slots -> Nat] /\ slotRecords' \in [Slots -> SUBSET Records]
      /\ slotCode' \in [Slots -> Codes \cup {NoCode}]
  BY <1>2 DEF EvictRecords, TypeOK, NoId
<1>4. slotCount \in [Slots -> Int] /\ slotActive \in [Slots -> BOOLEAN]
  BY <1>2 DEF TypeOK
<1>5. \A s \in Slots : Cardinality(slotRecords[s] \cap E) \in Nat
  <2> SUFFICES ASSUME NEW s \in Slots PROVE Cardinality(slotRecords[s] \cap E) \in Nat
    OBVIOUS
  <2>1. IsFiniteSet(slotRecords[s])
    BY StoredFacts
  <2>2. IsFiniteSet(slotRecords[s] \cap E)
    BY <2>1, FS_Subset
  <2> QED BY <2>2, FS_CardinalityType
<1> DEFINE left == [s \in Slots |-> slotCount[s] - Cardinality(slotRecords[s] \cap E)]
           hit == {s \in Slots : slotRecords[s] \cap E # {}}
<1>6. left \in [Slots -> Int]
  <2>1. \A s \in Slots : slotCount[s] - Cardinality(slotRecords[s] \cap E) \in Int
    BY <1>4, <1>5
  <2> QED BY <2>1, Zenon
<1>7. slotCount' = left
      /\ slotActive' = [s \in Slots |-> IF s \in hit THEN left[s] > 0 ELSE slotActive[s]]
  BY <1>2 DEF EvictRecords
<1>8. slotActive' \in [Slots -> BOOLEAN]
  <2> HIDE DEF left, hit
  <2>1. \A s \in Slots : (left[s] > 0) \in BOOLEAN
    OBVIOUS
  <2> QED BY <1>4, <1>7, <2>1, Zenon
<1>9. recency' \subseteq Slots \X Slots
  BY <1>2 DEF EvictRecords, TypeOK, LocalityRemove
<1>10. freeSlots' \in Seq(Slots) /\ freeRecords' \in Seq(Records)
  BY ObserveFree
<1>11. /\ recordSlot' \in [Records -> Slots \cup {NoSlot}] /\ recordId' \in [Records -> Nat]
       /\ recordBlock' \in [Records -> Blocks \cup {NoBlock}]
  BY <1>2 DEF EvictRecords, TypeOK, NoId
<1>12. /\ DOMAIN recordIndex' \subseteq 1..nextSerial
       /\ recordIndex' \in [DOMAIN recordIndex' -> Records]
  BY <1>2 DEF EvictRecords, TypeOK
<1>13. /\ DOMAIN blockIndex' \subseteq Blocks
       /\ blockIndex' \in [DOMAIN blockIndex' -> Records]
  BY <1>2 DEF EvictRecords, TypeOK, BlocksLeft
<1>14. \A r \in IndicesOf(ids) : UpdatedUsage(r, usage[recordId[r]]) \in Nat
  <2> SUFFICES ASSUME NEW r \in IndicesOf(ids) PROVE UpdatedUsage(r, usage[recordId[r]]) \in Nat
    OBVIOUS
  <2>1. r \in Records /\ recordId[r] \in ids
    BY <1>2, StoredFacts DEF IndicesOf
  <2>2. usage[recordId[r]] \in Nat
    BY <2>1, BlockConfigAssumption
  <2>3. recordUsage[r] \in Nat
    BY <1>2, <2>1 DEF TypeOK
  <2> QED BY <2>2, <2>3, UsageIsNat DEF UpdatedUsage
<1>15. recordUsage' \in [Records -> Nat] /\ recordRecalls' \in [Records -> Nat]
  <2>1. recordUsage \in [Records -> Nat] /\ recordRecalls \in [Records -> Nat]
    BY <1>2 DEF TypeOK
  <2>2. /\ recordUsage' = [r \in Records |->
              IF r \in E THEN 0
              ELSE IF r \in IndicesOf(ids) THEN UpdatedUsage(r, usage[recordId[r]])
              ELSE recordUsage[r]]
        /\ recordRecalls' = [r \in Records |->
              IF r \in E THEN 0
              ELSE IF r \in IndicesOf(ids) THEN recordRecalls[r] + 1
              ELSE recordRecalls[r]]
    BY DEF ObserveRecallUsage
  <2> QED BY <1>14, <2>1, <2>2
<1>16. held' \in [DOMAIN held' -> Blocks] /\ DOMAIN held' \subseteq 1..nextSerial
  BY <1>2 DEF TypeOK
<1> HIDE DEF left, hit
<1> QED
  BY <1>1, <1>2, <1>3, <1>6, <1>7, <1>8, <1>9, <1>10, <1>11, <1>12, <1>13, <1>15, <1>16 DEF TypeOK

\* What was evicted is with the free lists, and nothing else.
LEMMA ObservePartitioned ==
  ASSUME IInv, NEW ids, NEW usage, NEW evicting, NEW E \in SUBSET IndicesOf(ids),
         ObserveRecallUsage(ids, usage, evicting, E)
  PROVE  TablesPartitioned' /\ UnusedAreInactive'
<1>1. /\ Slots' = Slots /\ Records' = Records /\ E \subseteq Records /\ nextUnused' = nextUnused
      /\ \A r \in E : recordSlot[r] # NoSlot
      /\ \A s \in Slots : slotRecords'[s] = slotRecords[s] \ E
      /\ \A r \in Records : recordSlot'[r] = IF r \in E THEN NoSlot ELSE recordSlot[r]
  <2>0. EvictRecords(E)
    BY DEF ObserveRecallUsage
  <2>1. /\ Slots' = Slots /\ Records' = Records /\ E \subseteq Records
        /\ UNCHANGED <<slotCapacity, slotGeneration, recordCapacity, nextUnused, nextSerial>>
    BY ObserveEffect
  <2>2. /\ \A r \in E : recordSlot[r] # NoSlot
        /\ \A s \in Slots : slotRecords'[s] = slotRecords[s] \ E
    BY ObserveEffect
  <2>3. \A r \in Records : recordSlot'[r] = IF r \in E THEN NoSlot ELSE recordSlot[r]
    BY <2>0 DEF EvictRecords
  <2> QED BY <2>1, <2>2, <2>3
<1>2. /\ \A i, j \in DOMAIN freeSlots' : freeSlots'[i] = freeSlots'[j] => i = j
      /\ \A s : (\E i \in DOMAIN freeSlots' : freeSlots'[i] = s)
                  <=> ((\E i \in DOMAIN freeSlots : freeSlots[i] = s) \/ s \in Emptied(E))
      /\ \A i, j \in DOMAIN freeRecords' : freeRecords'[i] = freeRecords'[j] => i = j
      /\ \A r : (\E i \in DOMAIN freeRecords' : freeRecords'[i] = r)
                  <=> ((\E i \in DOMAIN freeRecords : freeRecords[i] = r) \/ r \in E)
  BY ObserveFree
<1>3. /\ \A s \in Slots : slotRecords[s] = {} <=> \E i \in DOMAIN freeSlots : freeSlots[i] = s
      /\ \A r \in Records : (\E i \in DOMAIN freeRecords : freeRecords[i] = r)
                              <=> (r < nextUnused /\ recordSlot[r] = NoSlot)
      /\ \A r \in Records : recordSlot[r] # NoSlot => r < nextUnused
  BY DEF IInv, TablesConsistent, TablesPartitioned, UnusedAreInactive
<1>4. \A s \in Slots : s \in Emptied(E) <=> slotRecords[s] # {} /\ slotRecords[s] \ E = {}
  BY EmptiedSlots
<1>5. \A s \in Slots : slotRecords'[s] = {} <=> \E i \in DOMAIN freeSlots' : freeSlots'[i] = s
  BY <1>1, <1>2, <1>3, <1>4
<1>6. \A r \in Records : (\E i \in DOMAIN freeRecords' : freeRecords'[i] = r)
                           <=> (r < nextUnused /\ recordSlot'[r] = NoSlot)
  BY <1>1, <1>2, <1>3
<1>7. \A r \in Records : recordSlot'[r] # NoSlot => r < nextUnused
  BY <1>1, <1>3
<1> QED BY <1>1, <1>2, <1>5, <1>6, <1>7 DEF TablesPartitioned, UnusedAreInactive

\* The blocks that are not evicted stay stored, under the same ids; of the others
\* no entry is left.
LEMMA ObserveStored ==
  ASSUME IInv, NEW ids, NEW usage \in [ids -> UsageRates], NEW evicting,
         NEW E \in SUBSET IndicesOf(ids), ObserveRecallUsage(ids, usage, evicting, E), held' = held
  PROVE  BlocksStoredOnce' /\ IdsNameBlocks' /\ HeldIdsNameTheirBlocks'
<1>1. /\ Slots' = Slots /\ Records' = Records /\ E \subseteq Records
      /\ \A s \in Slots : slotRecords'[s] = slotRecords[s] \ E
      /\ \A r \in Records :
           /\ recordSlot'[r] = IF r \in E THEN NoSlot ELSE recordSlot[r]
           /\ recordId'[r] = IF r \in E THEN NoId ELSE recordId[r]
           /\ recordBlock'[r] = IF r \in E THEN NoBlock ELSE recordBlock[r]
      /\ DOMAIN recordIndex' = DOMAIN recordIndex \ {recordId[r] : r \in E}
      /\ \A d \in DOMAIN recordIndex' : recordIndex'[d] = recordIndex[d]
      /\ DOMAIN blockIndex' = DOMAIN blockIndex \ {recordBlock[r] : r \in E}
      /\ \A x \in DOMAIN blockIndex' : blockIndex'[x] = blockIndex[x]
      /\ \A r \in E : recordSlot[r] # NoSlot
  <2>0. EvictRecords(E)
    BY DEF ObserveRecallUsage
  <2>1. /\ Slots' = Slots /\ Records' = Records /\ E \subseteq Records
        /\ \A s \in Slots : slotRecords'[s] = slotRecords[s] \ E
        /\ \A r \in E : recordSlot[r] # NoSlot
    BY ObserveEffect
  <2>2. \A r \in Records :
           /\ recordSlot'[r] = IF r \in E THEN NoSlot ELSE recordSlot[r]
           /\ recordId'[r] = IF r \in E THEN NoId ELSE recordId[r]
           /\ recordBlock'[r] = IF r \in E THEN NoBlock ELSE recordBlock[r]
    BY <2>0 DEF EvictRecords
  <2>3. /\ DOMAIN recordIndex' = DOMAIN recordIndex \ {recordId[r] : r \in E}
        /\ \A d \in DOMAIN recordIndex' : recordIndex'[d] = recordIndex[d]
    BY <2>0 DEF EvictRecords
  <2>4. /\ DOMAIN blockIndex' = DOMAIN blockIndex \ {recordBlock[r] : r \in E}
        /\ \A x \in DOMAIN blockIndex' : blockIndex'[x] = blockIndex[x]
    BY <2>0 DEF EvictRecords, BlocksLeft
  <2> QED BY <2>1, <2>2, <2>3, <2>4, Zenon
<1>2. /\ NoSlot \notin Slots /\ NoBlock \notin Blocks
      /\ \A q \in Records : recordSlot[q] # NoSlot =>
           /\ recordBlock[q] \in Blocks /\ recordBlock[q] \in DOMAIN blockIndex
           /\ blockIndex[recordBlock[q]] = q
           /\ recordId[q] \in DOMAIN recordIndex /\ recordIndex[recordId[q]] = q
      /\ \A q \in Records : recordSlot[q] = NoSlot => recordBlock[q] = NoBlock
      /\ \A s \in Slots : /\ slotRecords[s] \subseteq Records
                          /\ \A q \in Records : q \in slotRecords[s] <=> recordSlot[q] = s
      /\ \A x \in DOMAIN blockIndex :
           /\ blockIndex[x] \in Records /\ recordBlock[blockIndex[x]] = x
           /\ recordSlot[blockIndex[x]] # NoSlot
      /\ \A d \in DOMAIN recordIndex :
           /\ recordIndex[d] \in Records /\ recordId[recordIndex[d]] = d
           /\ recordSlot[recordIndex[d]] # NoSlot
  BY StoredFacts
<1>3. \A q \in Records : recordSlot'[q] # NoSlot <=> recordBlock'[q] # NoBlock
  BY <1>1, <1>2
<1>4. \A q \in Records : recordBlock'[q] # NoBlock =>
        /\ recordBlock'[q] \in DOMAIN blockIndex' /\ blockIndex'[recordBlock'[q]] = q
        /\ recordId'[q] \in DOMAIN recordIndex' /\ recordIndex'[recordId'[q]] = q
  <2> SUFFICES ASSUME NEW q \in Records, recordBlock'[q] # NoBlock
               PROVE  /\ recordBlock'[q] \in DOMAIN blockIndex' /\ blockIndex'[recordBlock'[q]] = q
                      /\ recordId'[q] \in DOMAIN recordIndex' /\ recordIndex'[recordId'[q]] = q
    OBVIOUS
  <2>1. /\ q \notin E /\ recordSlot[q] # NoSlot
        /\ recordBlock'[q] = recordBlock[q] /\ recordId'[q] = recordId[q]
    BY <1>1, <1>2
  <2>2. recordBlock[q] \notin {recordBlock[r] : r \in E}
    BY <1>1, <1>2, <2>1
  <2>3. recordId[q] \notin {recordId[r] : r \in E}
    BY <1>1, <1>2, <2>1
  <2> QED BY <1>1, <1>2, <2>1, <2>2, <2>3
<1>5. \A x \in DOMAIN blockIndex' :
        /\ blockIndex'[x] \in Records /\ recordBlock'[blockIndex'[x]] = x
        /\ recordSlot'[blockIndex'[x]] # NoSlot /\ x # NoBlock
  <2> SUFFICES ASSUME NEW x \in DOMAIN blockIndex'
               PROVE  /\ blockIndex'[x] \in Records /\ recordBlock'[blockIndex'[x]] = x
                      /\ recordSlot'[blockIndex'[x]] # NoSlot /\ x # NoBlock
    OBVIOUS
  <2>1. x \in DOMAIN blockIndex /\ blockIndex'[x] = blockIndex[x] /\ blockIndex[x] \notin E
    BY <1>1, <1>2
  <2> QED BY <1>1, <1>2, <2>1
<1>6. \A d \in DOMAIN recordIndex' :
        /\ recordIndex'[d] \in Records /\ recordId'[recordIndex'[d]] = d
        /\ recordSlot'[recordIndex'[d]] # NoSlot
        /\ recordIndex'[d] = recordIndex[d] /\ recordBlock'[recordIndex[d]] = recordBlock[recordIndex[d]]
  <2> SUFFICES ASSUME NEW d \in DOMAIN recordIndex'
               PROVE  /\ recordIndex'[d] \in Records /\ recordId'[recordIndex'[d]] = d
                      /\ recordSlot'[recordIndex'[d]] # NoSlot
                      /\ recordIndex'[d] = recordIndex[d]
                      /\ recordBlock'[recordIndex[d]] = recordBlock[recordIndex[d]]
    OBVIOUS
  <2>1. d \in DOMAIN recordIndex /\ recordIndex'[d] = recordIndex[d] /\ recordIndex[d] \notin E
    BY <1>1, <1>2
  <2> QED BY <1>1, <1>2, <2>1
<1>7. DOMAIN blockIndex' = {recordBlock'[q] : q \in Records} \ {NoBlock}
  BY <1>4, <1>5
<1>8. Cardinality(DOMAIN recordIndex') = Cardinality(DOMAIN blockIndex')
  <2>1. IsFiniteSet(DOMAIN recordIndex')
    <3>1. DOMAIN recordIndex \subseteq 1..nextSerial /\ nextSerial \in Nat
      BY DEF IInv, TablesConsistent, TypeOK
    <3>2. IsFiniteSet(1..nextSerial)
      BY <3>1, FS_Interval
    <3>3. DOMAIN recordIndex' \subseteq 1..nextSerial
      BY <1>1, <3>1
    <3> QED BY <3>2, <3>3, FS_Subset
  <2>2. \A d \in DOMAIN recordIndex' :
          /\ recordBlock'[recordIndex'[d]] \in DOMAIN blockIndex' /\ recordId'[recordIndex'[d]] = d
          /\ blockIndex'[recordBlock'[recordIndex'[d]]] = recordIndex'[d]
    BY <1>3, <1>4, <1>6
  <2>3. \A x \in DOMAIN blockIndex' :
          /\ recordId'[blockIndex'[x]] \in DOMAIN recordIndex' /\ recordBlock'[blockIndex'[x]] = x
          /\ recordIndex'[recordId'[blockIndex'[x]]] = blockIndex'[x]
    BY <1>3, <1>4, <1>5
  <2> QED BY <2>1, <2>2, <2>3, AsManyIdsAsBlocks
<1>9. \A s \in Slots : slotRecords'[s] = {q \in Records : recordSlot'[q] = s}
  <2> SUFFICES ASSUME NEW s \in Slots, NEW q
               PROVE  q \in slotRecords'[s] <=> q \in Records /\ recordSlot'[q] = s
    BY <1>1
  <2> QED BY <1>1, <1>2
<1>10. HeldIdsNameTheirBlocks'
  <2>1. \A d \in DOMAIN held \cap DOMAIN recordIndex' : recordBlock'[recordIndex'[d]] = held[d]
    BY <1>1, <1>6 DEF IInv, HeldIdsNameTheirBlocks
  <2> QED BY <2>1 DEF HeldIdsNameTheirBlocks
<1> QED BY <1>1, <1>3, <1>4, <1>6, <1>7, <1>8, <1>9, <1>10 DEF BlocksStoredOnce, IdsNameBlocks

\* Counts, activity, liveness and the locality index follow the blocks that go.
LEMMA ObserveRouting ==
  ASSUME IInv, NEW ids, NEW usage, NEW evicting, NEW E \in SUBSET IndicesOf(ids),
         ObserveRecallUsage(ids, usage, evicting, E)
  PROVE  RoutingAgrees' /\ GenerationInv'
<1>1. /\ Slots' = Slots /\ IsFiniteSet(E) /\ slotGeneration' = slotGeneration /\ nextSerial' = nextSerial
      /\ \A s \in Slots :
           /\ slotRecords'[s] = slotRecords[s] \ E
           /\ slotCount'[s] = slotCount[s] - Cardinality(slotRecords[s] \cap E)
           /\ slotId'[s] = IF s \in Emptied(E) THEN NoId ELSE slotId[s]
           /\ slotCode'[s] = IF s \in Emptied(E) THEN NoCode ELSE slotCode[s]
  <2>0. EvictRecords(E)
    BY DEF ObserveRecallUsage
  <2>1. /\ Slots' = Slots /\ IsFiniteSet(E)
        /\ UNCHANGED <<slotCapacity, slotGeneration, recordCapacity, nextUnused, nextSerial>>
    BY ObserveEffect
  <2>2. \A s \in Slots :
           /\ slotRecords'[s] = slotRecords[s] \ E
           /\ slotCount'[s] = slotCount[s] - Cardinality(slotRecords[s] \cap E)
    BY <2>0 DEF EvictRecords
  <2>3. \A s \in Slots :
           /\ slotId'[s] = IF s \in Emptied(E) THEN NoId ELSE slotId[s]
           /\ slotCode'[s] = IF s \in Emptied(E) THEN NoCode ELSE slotCode[s]
    BY <2>0 DEF EvictRecords
  <2> QED BY <2>1, <2>2, <2>3
<1>2. EvictRecords(E)
  BY DEF ObserveRecallUsage
<1>3. /\ \A s \in Slots : /\ slotCount[s] = Cardinality(slotRecords[s])
                          /\ slotActive[s] <=> slotRecords[s] # {}
                          /\ IsFiniteSet(slotRecords[s])
                          /\ slotRecords[s] # {} <=> slotId[s] # NoId
                          /\ slotRecords[s] # {} <=> slotCode[s] # NoCode
      /\ BucketsOrdered /\ DOMAIN slotCode = Slots
  BY StoredFacts DEF IInv, TablesConsistent, TypeOK, RoutingAgrees
<1>4. /\ Emptied(E) \subseteq Slots
      /\ \A s \in Slots : s \in Emptied(E) <=> slotRecords[s] # {} /\ slotRecords[s] \ E = {}
  BY EmptiedSlots
<1>5. ASSUME NEW s \in Slots
      PROVE  /\ slotCount'[s] = Cardinality(slotRecords'[s])
             /\ IsFiniteSet(slotRecords'[s])
  <2>1. /\ IsFiniteSet(slotRecords[s] \cap E) /\ IsFiniteSet(slotRecords[s] \ E)
    BY <1>3, FS_Subset
  <2>2. Cardinality(slotRecords[s]) =
          Cardinality(slotRecords[s] \ E) + Cardinality(slotRecords[s] \cap E)
    <3>1. Cardinality(slotRecords[s] \ E) = Cardinality(slotRecords[s]) - Cardinality(slotRecords[s] \cap E)
      BY <1>3, FS_Difference
    <3>2. Cardinality(slotRecords[s]) \in Nat /\ Cardinality(slotRecords[s] \cap E) \in Nat
      BY <1>3, <2>1, FS_CardinalityType
    <3> QED BY <3>1, <3>2
  <2>3. Cardinality(slotRecords[s] \ E) \in Nat /\ Cardinality(slotRecords[s] \cap E) \in Nat
    BY <2>1, FS_CardinalityType
  <2>4. slotRecords'[s] = slotRecords[s] \ E /\ slotCount[s] = Cardinality(slotRecords[s])
    BY <1>1, <1>3
  <2>5. slotCount'[s] = slotCount[s] - Cardinality(slotRecords[s] \cap E)
    BY <1>1
  <2> QED BY <2>1, <2>2, <2>3, <2>4, <2>5
<1>6. ASSUME NEW s \in Slots
      PROVE  slotActive'[s] <=> slotRecords'[s] # {}
  <2> DEFINE left == [t \in Slots |-> slotCount[t] - Cardinality(slotRecords[t] \cap E)]
             hit == {t \in Slots : slotRecords[t] \cap E # {}}
  <2>1. /\ slotActive' = [t \in Slots |-> IF t \in hit THEN left[t] > 0 ELSE slotActive[t]]
        /\ slotCount' = left
    BY <1>2 DEF EvictRecords
  <2>2. s \notin hit => slotRecords'[s] = slotRecords[s]
    BY <1>1
  <2>3. slotCount'[s] > 0 <=> slotRecords'[s] # {}
    <3>1. Cardinality(slotRecords'[s]) \in Nat /\ (Cardinality(slotRecords'[s]) = 0 <=> slotRecords'[s] = {})
      BY <1>5, FS_EmptySet, FS_CardinalityType
    <3> QED BY <1>5, <3>1
  <2> HIDE DEF left, hit
  <2>4. CASE s \in hit
    <3>1. slotActive'[s] = (left[s] > 0)
      BY <2>1, <2>4, Zenon
    <3>2. (left[s] > 0) <=> slotRecords'[s] # {}
      BY <2>1, <2>3
    <3> QED BY <3>1, <3>2, Zenon
  <2>5. CASE s \notin hit
    <3>1. slotActive'[s] = slotActive[s]
      BY <2>1, <2>5, Zenon
    <3>2. slotActive[s] <=> slotRecords'[s] # {}
      BY <1>3, <2>2, <2>5, Zenon
    <3> QED BY <3>1, <3>2, Zenon
  <2> QED BY <2>4, <2>5
<1>7. \A s \in Slots : /\ slotId'[s] # NoId <=> slotRecords'[s] # {}
                       /\ slotCode'[s] # NoCode <=> slotRecords'[s] # {}
                       /\ slotId'[s] # NoId => slotId'[s] = slotId[s] /\ slotId[s] # NoId
  BY <1>1, <1>3, <1>4
<1>8. DOMAIN slotCode' = Slots
  BY <1>2 DEF EvictRecords
<1>9. Live' = {s \in Slots : slotRecords'[s] # {}} /\ Indexed' = Live'
  BY <1>1, <1>7, <1>8 DEF Live, Indexed
<1>10. BucketsOrdered'
  <2>1. recency' = LocalityRemove(Emptied(E))
    BY <1>2 DEF EvictRecords
  <2>2. Indexed' = Indexed \ Emptied(E)
    BY <1>1, <1>3, <1>8 DEF Indexed
  <2>3. \A s \in Indexed' : slotCode'[s] = slotCode[s]
    BY <1>1, <1>3, <2>2 DEF Indexed
  <2> QED BY <1>3, <2>1, <2>2, <2>3, RemoveKeepsOrder
<1>11. GenerationInv'
  <2>1. \A s \in Live' : s \in Live /\ slotId'[s] = slotId[s]
    BY <1>1, <1>7 DEF Live
  <2> QED BY <1>1, <2>1 DEF IInv, GenerationInv
<1> QED BY <1>1, <1>5, <1>6, <1>9, <1>10, <1>11 DEF RoutingAgrees

\* An observation preserves all of it.
LEMMA ObserveIInv ==
  ASSUME IInv, Observe
  PROVE  IInv'
<1>1. PICK ids \in SUBSET DOMAIN held :
        \E usage \in [ids -> UsageRates] : \E evicting \in BOOLEAN :
        \E E \in SUBSET IndicesOf(ids \cap DOMAIN recordIndex) :
          ObserveRecallUsage(ids, usage, evicting, E)
  BY DEF Observe
<1>2. PICK usage \in [ids -> UsageRates], evicting \in BOOLEAN,
           E \in SUBSET IndicesOf(ids \cap DOMAIN recordIndex) :
        ObserveRecallUsage(ids, usage, evicting, E)
  BY <1>1
<1>3. ids \cap DOMAIN recordIndex = ids
  BY <1>2 DEF ObserveRecallUsage, Accepts
<1>4. E \in SUBSET IndicesOf(ids) /\ held' = held
  BY <1>3 DEF Observe
<1>5. TypeOK' /\ BlocksStoredOnce' /\ IdsNameBlocks' /\ HeldIdsNameTheirBlocks'
  BY <1>2, <1>4, ObserveTypeOK, ObserveStored
<1>6. TablesPartitioned' /\ UnusedAreInactive' /\ RoutingAgrees' /\ GenerationInv'
  BY <1>2, <1>4, ObservePartitioned, ObserveRouting
<1> QED BY <1>5, <1>6 DEF IInv, TablesConsistent

------------------------------------------------------------------------------
(* The reader, and the theorems.                                           *)

\* A step that leaves the memory alone keeps what its tables say.
LEMMA UnchangedTables ==
  ASSUME IInv, UNCHANGED <<slotVars, recordVars>>, held' \in [DOMAIN held' -> Blocks],
         DOMAIN held' \subseteq 1..nextSerial
  PROVE  TablesConsistent' /\ IdsNameBlocks' /\ UnusedAreInactive' /\ GenerationInv'
<1> USE DEF slotVars, recordVars
<1>1. Slots' = Slots /\ Records' = Records /\ Live' = Live /\ Indexed' = Indexed
  BY DEF Slots, Records, Live, Indexed
<1>2. TypeOK'
  BY <1>1 DEF IInv, TablesConsistent, TypeOK
<1>3. TablesPartitioned' /\ UnusedAreInactive'
  BY <1>1 DEF IInv, TablesConsistent, TablesPartitioned, UnusedAreInactive
<1>4. BlocksStoredOnce' /\ IdsNameBlocks'
  BY <1>1 DEF IInv, TablesConsistent, BlocksStoredOnce, IdsNameBlocks
<1>5. RoutingAgrees' /\ GenerationInv'
  BY <1>1 DEF IInv, TablesConsistent, RoutingAgrees, BucketsOrdered, GenerationInv
<1> QED BY <1>2, <1>3, <1>4, <1>5 DEF TablesConsistent

\* The ids a reader is handed name the blocks it is handed with them.
LEMMA RecallIInv ==
  ASSUME IInv, Recall
  PROVE  IInv'
<1>1. UNCHANGED <<slotVars, recordVars>>
  BY DEF Recall
<1>2. PICK S \in SUBSET {s \in Slots : slotActive[s]} :
        held' = [d \in {recordId[r] : r \in UNION {slotRecords[s] : s \in S}} |->
                   recordBlock[recordIndex[d]]]
  BY DEF Recall
<1>3. ASSUME NEW d \in DOMAIN held'
      PROVE  d \in DOMAIN recordIndex /\ held'[d] = recordBlock[recordIndex[d]] /\ held'[d] \in Blocks
  <2>0. PICK s \in S : \E r \in slotRecords[s] : d = recordId[r]
    BY <1>2
  <2>1. PICK r \in slotRecords[s] : d = recordId[r]
    BY <2>0
  <2>2. s \in Slots
    OBVIOUS
  <2>3. r \in Records /\ recordSlot[r] # NoSlot
    BY <2>2, StoredFacts
  <2>4. d \in DOMAIN recordIndex /\ recordIndex[d] = r /\ recordBlock[r] \in Blocks
    BY <2>1, <2>3, StoredFacts
  <2> QED BY <1>2, <2>4
<1>4. held' \in [DOMAIN held' -> Blocks]
  <2>1. held' = [d \in DOMAIN held' |-> held'[d]]
    BY <1>2
  <2> QED BY <1>3, <2>1
<1>5. DOMAIN held' \subseteq 1..nextSerial
  BY <1>3 DEF IInv, TablesConsistent, TypeOK
<1>6. HeldIdsNameTheirBlocks'
  BY <1>1, <1>3 DEF HeldIdsNameTheirBlocks, recordVars
<1> QED BY <1>1, <1>4, <1>5, <1>6, UnchangedTables DEF IInv

\* The induction hypothesis holds in every reachable state.
THEOREM BlockInvariance == Spec => []IInv
<1>1. Init => IInv
  BY InitIInv
<1>2. IInv /\ [Next]_vars => IInv'
  <2> SUFFICES ASSUME IInv, [Next]_vars PROVE IInv'
    OBVIOUS
  <2>1. CASE Ingest
    BY <2>1, IngestIInv
  <2>2. CASE Recall
    BY <2>2, RecallIInv
  <2>3. CASE Observe
    BY <2>3, ObserveIInv
  <2>4. CASE UNCHANGED vars
    <3>1. UNCHANGED <<slotVars, recordVars>> /\ held' = held
      BY <2>4 DEF vars
    <3>2. held' \in [DOMAIN held' -> Blocks] /\ DOMAIN held' \subseteq 1..nextSerial
      BY <3>1 DEF IInv, TablesConsistent, TypeOK
    <3>3. HeldIdsNameTheirBlocks'
      BY <3>1 DEF IInv, HeldIdsNameTheirBlocks, recordVars
    <3> QED BY <3>1, <3>2, <3>3, UnchangedTables DEF IInv
  <2> QED BY <2>1, <2>2, <2>3, <2>4 DEF Next
<1> QED BY <1>1, <1>2, PTL DEF Spec

\* Whatever blocks are ingested, evicted and ingested again, each is stored once and
\* all tables describe it alike, and an id a reader was handed names the block it was
\* handed with it or nothing (ingest_block, _evict_record_indices, kv_for_record_ids).
THEOREM BlocksAlwaysFound == Spec => []BlocksFoundByTheirIds
<1>1. IInv => BlocksFoundByTheirIds
  BY DEF IInv, BlocksFoundByTheirIds
<1> QED BY <1>1, BlockInvariance, PTL

------------------------------------------------------------------------------
(* The refinement mapping.                                                 *)

\* The clusters of the store and the ids given out, in this state and the next.
LEMMA StoreClustersAre ==
  /\ DOMAIN StoreClusters = {<<s, slotId[s]>> : s \in Live}
  /\ \A s \in Live : StoreClusters[<<s, slotId[s]>>] = {recordId[r] : r \in slotRecords[s]}
  BY DEF StoreClusters, ClusterId

\* The same in the next state.
LEMMA NextStoreClustersAre ==
  /\ DOMAIN StoreClusters' = {<<s, slotId'[s]>> : s \in Live'}
  /\ \A s \in Live' : StoreClusters'[<<s, slotId'[s]>>] = {recordId'[r] : r \in slotRecords'[s]}
  BY DEF StoreClusters, ClusterId

\* The ids given out so far, in this state and the next.
LEMMA StoreUsedAre ==
  \A c : c \in StoreUsed <=>
    \E s \in Slots, k \in 1..MaxSerial : c = <<s, k>> /\ k <= slotGeneration[s]
  BY DEF StoreUsed

\* The same in the next state.
LEMMA NextStoreUsedAre ==
  \A c : c \in StoreUsed' <=>
    \E s \in Slots', k \in 1..MaxSerial : c = <<s, k>> /\ k <= slotGeneration'[s]
  BY DEF StoreUsed

\* Live clusters have the last generation of their slot and hold the stored blocks.
LEMMA LiveIds ==
  ASSUME IInv
  PROVE  /\ slotGeneration \in [Slots -> Nat] /\ slotId \in [Slots -> Nat]
         /\ nextSerial \in Nat /\ nextSerial <= MaxSerial /\ MaxSerial \in Nat
         /\ \A s \in Slots : slotGeneration[s] <= nextSerial
         /\ Live = {s \in Slots : slotRecords[s] # {}}
         /\ \A s \in Live : slotId[s] = slotGeneration[s] /\ slotId[s] >= 1
<1>1. /\ slotGeneration \in [Slots -> Nat] /\ slotId \in [Slots -> Nat] /\ nextSerial \in Nat
      /\ Live = {s \in Slots : slotRecords[s] # {}}
  BY DEF IInv, TablesConsistent, TypeOK, RoutingAgrees
<1>2. /\ nextSerial <= MaxSerial /\ MaxSerial \in Nat
      /\ \A s \in Slots : slotGeneration[s] <= nextSerial
      /\ \A s \in Live : slotId[s] = slotGeneration[s]
  BY BlockConfigAssumption DEF IInv, GenerationInv
<1>3. \A s \in Live : s \in Slots /\ slotId[s] # 0
  BY DEF Live, NoId
<1> QED BY <1>1, <1>2, <1>3

\* A stored record keeps a serial that was given out.
LEMMA StoredSerials ==
  ASSUME IInv
  PROVE  \A s \in Slots : \A r \in slotRecords[s] :
           r \in Records /\ recordSlot[r] = s /\ recordSlot[r] # NoSlot /\ recordId[r] \in 1..nextSerial
<1> SUFFICES ASSUME NEW s \in Slots, NEW r \in slotRecords[s]
             PROVE  /\ r \in Records /\ recordSlot[r] = s /\ recordSlot[r] # NoSlot
                    /\ recordId[r] \in 1..nextSerial
  OBVIOUS
<1>1. r \in Records /\ recordSlot[r] = s /\ recordSlot[r] # NoSlot
  BY StoredFacts
<1>2. recordId[r] \in DOMAIN recordIndex
  BY <1>1, StoredFacts
<1> QED BY <1>1, <1>2 DEF IInv, TablesConsistent, TypeOK

\* The empty memory is the empty store.
LEMMA InitStore == Init => Store!Init
<1> SUFFICES ASSUME Init PROVE Store!Init
  OBVIOUS
<1>1. /\ \A s \in Slots : slotId[s] = NoId /\ slotGeneration[s] = 0
      /\ nextSerial = 0
  BY DEF Init, Slots
<1>2. Live = {}
  BY <1>1 DEF Live
<1>3. StoreClusters = [c \in {} |-> {}]
  BY <1>2 DEF StoreClusters
<1>4. StoreUsed = {}
  <2>1. \A c : c \notin StoreUsed
    BY <1>1, StoreUsedAre
  <2> QED BY <2>1
<1> QED BY <1>1, <1>3, <1>4 DEF Store!Init

------------------------------------------------------------------------------
(* The steps.                                                              *)

\* Ingesting a block adds one new record to one cluster; a cluster it opens gets an
\* id never used before.
LEMMA IngestIsIngest ==
  ASSUME IInv, NEW b \in Blocks, NEW c \in Codes, NEW newCode \in Codes,
         NEW decision \in Slots \cup {NoSlot}, IngestBlock(b, c, decision, newCode), held' = held
  PROVE  Store!Ingest
<1> DEFINE r == NextRecord
           NewIds == (nextSerial + 1)..nextSerial'
<1>1. PICK slot : slot = IF decision = NoSlot THEN NextFreeSlot ELSE decision
  OBVIOUS
<1>2. /\ Slots \subseteq Slots' /\ slot \in Slots'
      /\ decision = NoSlot => (slot \in Slots => slotRecords[slot] = {})
      /\ decision # NoSlot => slot \in Slots /\ slotRecords[slot] # {}
  BY <1>1, IngestSlot
<1>3. \A s \in Slots' :
        /\ slotRecords'[s] = (IF s \in Slots THEN slotRecords[s] ELSE {})
                               \cup (IF s = slot THEN {r} ELSE {})
        /\ slotId'[s] = IF s = slot /\ decision = NoSlot THEN slotGeneration'[s]
                        ELSE IF s \in Slots THEN slotId[s] ELSE NoId
        /\ slotGeneration'[s] = (IF s \in Slots THEN slotGeneration[s] ELSE 0)
                                  + (IF s = slot /\ decision = NoSlot THEN 1 ELSE 0)
  BY <1>1, IngestSlots
<1>4. /\ r \in Records => recordSlot[r] = NoSlot
      /\ recordId'[r] = nextSerial + 1
      /\ \A q \in Records : q # r => recordId'[q] = recordId[q]
  <2>1. r \in Records => recordSlot[r] = NoSlot
    BY IngestRecord
  <2>2. recordId'[r] = nextSerial + 1
    BY <1>1, IngestRecords
  <2>3. \A q \in Records : q # r => recordId'[q] = recordId[q]
    <3>1. recordId' = [Extend(recordId, RecordsAfter, NoId) EXCEPT ![r] = NextId]
      BY DEF IngestBlock
    <3>2. r \in 0..(RecordsAfter - 1) /\ Records \subseteq 0..(RecordsAfter - 1)
      BY IngestRecord
    <3>3. DOMAIN recordId = Records
      BY DEF IInv, TablesConsistent, TypeOK
    <3> HIDE DEF r
    <3> QED BY <3>1, <3>2, <3>3 DEF Extend
  <2> QED BY <2>1, <2>2, <2>3
<1>5. IInv'
  <2>1. Ingest
    BY DEF Ingest
  <2> QED BY <2>1, IngestIInv
<1>6. nextSerial' = nextSerial + 1
  BY DEF IngestBlock
<1>7. /\ slotGeneration \in [Slots -> Nat] /\ slotId \in [Slots -> Nat]
      /\ nextSerial \in Nat /\ MaxSerial \in Nat
      /\ Live = {s \in Slots : slotRecords[s] # {}}
      /\ \A s \in Live : slotId[s] = slotGeneration[s] /\ slotId[s] >= 1
  BY LiveIds
<1>8. /\ slotGeneration' \in [Slots' -> Nat] /\ slotId' \in [Slots' -> Nat]
      /\ nextSerial' <= MaxSerial
      /\ \A s \in Slots' : slotGeneration'[s] <= nextSerial'
      /\ Live' = {s \in Slots' : slotRecords'[s] # {}}
      /\ \A s \in Live' : slotId'[s] = slotGeneration'[s] /\ slotId'[s] >= 1
  <2>1. \A s \in Live' : slotId'[s] # 0
    BY DEF Live, NoId
  <2>2. /\ slotGeneration' \in [Slots' -> Nat] /\ slotId' \in [Slots' -> Nat]
        /\ Live' = {s \in Slots' : slotRecords'[s] # {}}
    BY <1>5 DEF IInv, TablesConsistent, TypeOK, RoutingAgrees
  <2>3. /\ nextSerial' <= MaxSerial
        /\ \A s \in Slots' : slotGeneration'[s] <= nextSerial'
        /\ \A s \in Live' : slotId'[s] = slotGeneration'[s]
    BY <1>5 DEF IInv, GenerationInv
  <2> QED BY <2>1, <2>2, <2>3
<1>9. \A s \in Slots : \A q \in slotRecords[s] :
        q # r /\ recordId'[q] = recordId[q] /\ recordId[q] \in 1..nextSerial
  BY <1>4, StoredSerials
<1> HIDE DEF r
<1>10. Live' = Live \cup {slot} /\ \A s \in Live : slotId'[s] = slotId[s]
  BY <1>2, <1>3, <1>7, <1>8
<1>11. slot \notin Live => /\ decision = NoSlot
                           /\ slotId'[slot] = slotGeneration'[slot]
                           /\ slot \in Slots => slotGeneration'[slot] = slotGeneration[slot] + 1
  BY <1>2, <1>3, <1>7
<1>12. /\ DOMAIN StoreClusters = {<<s, slotId[s]>> : s \in Live}
       /\ \A s \in Live : StoreClusters[<<s, slotId[s]>>] = {recordId[q] : q \in slotRecords[s]}
  BY StoreClustersAre
<1>13. /\ DOMAIN StoreClusters' = {<<s, slotId'[s]>> : s \in Live'}
       /\ \A s \in Live' :
            StoreClusters'[<<s, slotId'[s]>>] = {recordId'[q] : q \in slotRecords'[s]}
  BY NextStoreClustersAre
<1>14. DOMAIN StoreClusters \subseteq DOMAIN StoreClusters'
  BY <1>10, <1>12, <1>13
<1>15. (DOMAIN StoreClusters' \ DOMAIN StoreClusters) \cap StoreUsed = {}
  <2> SUFFICES ASSUME NEW x \in DOMAIN StoreClusters', x \notin DOMAIN StoreClusters, x \in StoreUsed
               PROVE  FALSE
    OBVIOUS
  <2>1. PICK s \in Live' : x = <<s, slotId'[s]>>
    BY <1>13
  <2>2. s = slot /\ s \notin Live
    BY <1>10, <1>12, <2>1
  <2>3. PICK t \in Slots, k \in 1..MaxSerial : x = <<t, k>> /\ k <= slotGeneration[t]
    BY StoreUsedAre
  <2>4. t = s /\ k = slotId'[s]
    BY <2>1, <2>3
  <2>5. slotId'[s] = slotGeneration[s] + 1 /\ slotGeneration[s] \in Nat
    BY <1>7, <1>11, <2>2, <2>4
  <2> QED BY <2>3, <2>4, <2>5
<1>16. StoreUsed' = StoreUsed \cup DOMAIN StoreClusters'
  <2>1. ASSUME NEW x \in StoreUsed' PROVE x \in StoreUsed \cup DOMAIN StoreClusters'
    <3>1. PICK s \in Slots', k \in 1..MaxSerial : x = <<s, k>> /\ k <= slotGeneration'[s]
      BY NextStoreUsedAre
    <3>2. CASE s \in Slots /\ k <= slotGeneration[s]
      BY <3>1, <3>2, StoreUsedAre
    <3>3. CASE ~(s \in Slots /\ k <= slotGeneration[s])
      <4>1. s = slot /\ decision = NoSlot /\ k = slotGeneration'[s]
        BY <1>3, <1>7, <3>1, <3>3
      <4>2. s \in Live' /\ x = <<s, slotId'[s]>>
        BY <1>10, <1>8, <3>1, <4>1
      <4> QED BY <1>13, <4>2
    <3> QED BY <3>2, <3>3
  <2>2. ASSUME NEW x \in StoreUsed PROVE x \in StoreUsed'
    <3>1. PICK s \in Slots, k \in 1..MaxSerial : x = <<s, k>> /\ k <= slotGeneration[s]
      BY StoreUsedAre
    <3>2. s \in Slots' /\ k <= slotGeneration'[s]
      BY <1>2, <1>3, <1>7, <3>1
    <3> QED BY <3>1, <3>2, NextStoreUsedAre
  <2>3. ASSUME NEW x \in DOMAIN StoreClusters' PROVE x \in StoreUsed'
    <3>1. PICK s \in Live' : x = <<s, slotId'[s]>>
      BY <1>13
    <3>2. s \in Slots' /\ slotId'[s] \in 1..MaxSerial /\ slotId'[s] <= slotGeneration'[s]
      BY <1>6, <1>7, <1>8
    <3> QED BY <3>1, <3>2, NextStoreUsedAre
  <2> QED BY <2>1, <2>2, <2>3
<1>17. NewIds = {nextSerial + 1} /\ nextSerial' - nextSerial \in 1..1
  BY <1>6, <1>7
<1>18. ASSUME NEW s \in Live', s # slot
       PROVE  /\ s \in Live
              /\ {recordId'[q] : q \in slotRecords'[s]} = {recordId[q] : q \in slotRecords[s]}
              /\ nextSerial + 1 \notin {recordId[q] : q \in slotRecords[s]}
  <2>1. s \in Live /\ s \in Slots /\ slotRecords'[s] = slotRecords[s]
    BY <1>2, <1>3, <1>7, <1>10, <1>18
  <2>2. \A q \in slotRecords[s] : recordId'[q] = recordId[q] /\ recordId[q] # nextSerial + 1
    BY <1>7, <1>9, <2>1
  <2> QED BY <2>1, <2>2
<1>19. LET before == IF slot \in Live THEN {recordId[q] : q \in slotRecords[slot]} ELSE {}
       IN /\ {recordId'[q] : q \in slotRecords'[slot]} = before \cup {nextSerial + 1}
          /\ nextSerial + 1 \notin before
  <2>1. slotRecords'[slot] = (IF slot \in Live THEN slotRecords[slot] ELSE {}) \cup {r}
    BY <1>2, <1>3, <1>7
  <2>2. slot \in Live => \A q \in slotRecords[slot] :
          recordId'[q] = recordId[q] /\ recordId[q] # nextSerial + 1
    BY <1>7, <1>9
  <2>3. CASE slot \in Live
    <3>1. slotRecords'[slot] = slotRecords[slot] \cup {r}
      BY <2>1, <2>3
    <3>2. {recordId'[q] : q \in slotRecords'[slot]}
            = {recordId'[q] : q \in slotRecords[slot]} \cup {recordId'[r]}
      BY <3>1
    <3>3. {recordId'[q] : q \in slotRecords[slot]} = {recordId[q] : q \in slotRecords[slot]}
      BY <2>2, <2>3
    <3>4. nextSerial + 1 \notin {recordId[q] : q \in slotRecords[slot]}
      BY <2>2, <2>3
    <3> QED BY <1>4, <2>3, <3>2, <3>3, <3>4
  <2>4. CASE slot \notin Live
    <3>1. slotRecords'[slot] = {r}
      BY <2>1, <2>4
    <3> QED BY <1>4, <2>4, <3>1
  <2> QED BY <2>3, <2>4
<1>20. ASSUME NEW x \in DOMAIN StoreClusters'
       PROVE  /\ StoreClusters'[x] # {}
              /\ StoreClusters'[x] \ NewIds = IF x \in DOMAIN StoreClusters THEN StoreClusters[x] ELSE {}
  <2>1. PICK s \in Live' : x = <<s, slotId'[s]>>
    BY <1>13
  <2>2. x \in DOMAIN StoreClusters <=> s \in Live
    BY <1>10, <1>12, <2>1
  <2>3. s \in Live => StoreClusters[x] = {recordId[q] : q \in slotRecords[s]}
    BY <1>10, <1>12, <2>1
  <2>4. StoreClusters'[x] = {recordId'[q] : q \in slotRecords'[s]}
    BY <1>13, <2>1
  <2>5. StoreClusters'[x] # {}
    BY <1>8, <2>4
  <2>6. CASE s = slot
    BY <1>17, <1>19, <2>2, <2>3, <2>4, <2>5, <2>6
  <2>7. CASE s # slot
    BY <1>17, <1>18, <2>2, <2>3, <2>4, <2>5, <2>7
  <2> QED BY <2>6, <2>7
<1>21. ASSUME NEW d \in NewIds
       PROVE  \E x \in DOMAIN StoreClusters' :
                /\ d \in StoreClusters'[x]
                /\ \A y \in DOMAIN StoreClusters' \ {x} : d \notin StoreClusters'[y]
  <2> DEFINE x == <<slot, slotId'[slot]>>
  <2>1. d = nextSerial + 1
    BY <1>17
  <2>2. x \in DOMAIN StoreClusters' /\ d \in StoreClusters'[x]
    BY <1>10, <1>13, <1>19, <2>1
  <2>3. ASSUME NEW y \in DOMAIN StoreClusters', y # x PROVE d \notin StoreClusters'[y]
    <3>1. PICK s \in Live' : y = <<s, slotId'[s]>>
      BY <1>13
    <3>2. s # slot
      BY <2>3, <3>1
    <3> QED BY <1>13, <1>18, <2>1, <3>1, <3>2
  <2> HIDE DEF x
  <2> QED BY <2>2, <2>3
<1> QED BY <1>14, <1>15, <1>16, <1>17, <1>20, <1>21 DEF Store!Ingest


\* The cardinality the store speaks of is the one of FiniteSets.
LEMMA StoreCardinality == \A S : Store!Cardinality(S) = Cardinality(S)
  BY Zenon DEF Store!Cardinality, Cardinality

\* The ids of the records of a cluster are as many as the records.
LEMMA IdsCountRecords ==
  ASSUME IInv, NEW s \in Slots, NEW E
  PROVE  Cardinality({recordId[r] : r \in slotRecords[s] \ E}) = Cardinality(slotRecords[s] \ E)
<1> DEFINE R == slotRecords[s] \ E
           D == {recordId[r] : r \in R}
           F == [r \in R |-> recordId[r]]
<1>1. IsFiniteSet(R)
  BY StoredFacts, FS_Difference
<1>2. \A q, r \in R : recordId[q] = recordId[r] => q = r
  <2>1. \A r \in R : recordIndex[recordId[r]] = r
    BY StoredSerials, StoredFacts
  <2> QED BY <2>1
<1> HIDE DEF R
<1>3. F \in [R -> D] /\ \A d \in D : \E r \in R : F[r] = d
  OBVIOUS
<1>4. \A q, r \in R : F[q] = F[r] => q = r
  BY <1>2
<1>5. ExistsBijection(R, D)
  BY <1>3, <1>4, Fun_IsBij, Fun_ExistsBij
<1> QED BY <1>1, <1>5, FS_Bijection DEF R

\* What an eviction leaves of a cluster it takes from is not below the floor.
LEMMA FloorKept ==
  ASSUME IInv, NEW ids, NEW usage, NEW evicting \in BOOLEAN, NEW E \in SUBSET IndicesOf(ids),
         ObserveRecallUsage(ids, usage, evicting, E),
         NEW s \in Slots, slotRecords[s] \cap E # {}
  PROVE  Cardinality(slotRecords[s] \ E) >= MinRecords
<1>1. /\ ids \subseteq DOMAIN recordIndex
      /\ IF evicting THEN EvictionPlan(E, ids, usage) ELSE E = {}
  BY DEF ObserveRecallUsage, Accepts
<1>2. EvictionPlan(E, ids, usage)
  BY <1>1
<1>3. s \in SlotsOf(ids)
  <2>1. PICK r \in slotRecords[s] : r \in E
    OBVIOUS
  <2>2. recordSlot[r] = s
    BY StoredSerials
  <2> QED BY <2>1, <2>2 DEF SlotsOf, IndicesOf
<1> DEFINE R == slotRecords[s]
           taken == E \cap R
           eligible == Eligible(s, usage)
<1>4. Cardinality(taken) = Least(Greatest(0, Cardinality(R) - MinRecords), Cardinality(eligible))
  BY <1>2, <1>3 DEF EvictionPlan
<1>5. IsFiniteSet(R) /\ eligible \subseteq R
  BY StoredFacts DEF Eligible
<1> HIDE DEF eligible
<1>6. /\ Cardinality(R) \in Nat /\ Cardinality(eligible) \in Nat
      /\ IsFiniteSet(taken) /\ Cardinality(taken) \in Nat
      /\ Cardinality(R \ E) = Cardinality(R) - Cardinality(R \cap E)
  BY <1>5, FS_Subset, FS_CardinalityType, FS_Difference
<1>7. Cardinality(taken) # 0 /\ taken = R \cap E
  BY <1>6, FS_EmptySet
<1> HIDE DEF taken, R
<1>8. Cardinality(R \ E) >= MinRecords
  <2>1. MinRecords \in Nat
    BY BlockConfigAssumption
  <2> QED BY <1>4, <1>6, <1>7, <2>1 DEF Least, Greatest
<1> QED BY <1>8 DEF R

\* An observation removes records within the floor; the clusters it empties are gone,
\* and their ids remain used.
LEMMA ObserveIsEvict ==
  ASSUME IInv, NEW ids, NEW usage \in [ids -> UsageRates], NEW evicting \in BOOLEAN,
         NEW E \in SUBSET IndicesOf(ids), ObserveRecallUsage(ids, usage, evicting, E), held' = held
  PROVE  Store!Evict
<1>1. /\ Slots' = Slots /\ \A s \in Slots : slotRecords'[s] = slotRecords[s] \ E
      /\ UNCHANGED <<slotCapacity, slotGeneration, recordCapacity, nextUnused, nextSerial>>
  BY ObserveEffect
<1>2. EvictRecords(E)
  BY DEF ObserveRecallUsage
<1>3. /\ \A s \in Slots : slotId'[s] = IF s \in Emptied(E) THEN NoId ELSE slotId[s]
      /\ \A r \in Records : r \notin E => recordId'[r] = recordId[r]
  BY <1>2 DEF EvictRecords
<1>4. Live = {s \in Slots : slotRecords[s] # {}}
  BY LiveIds
<1>5. \A s \in Slots : s \in Emptied(E) <=> slotRecords[s] # {} /\ slotRecords[s] \ E = {}
  BY EmptiedSlots
<1>6. \A s \in Slots : s \in Live' <=> slotRecords[s] \ E # {}
  <2>1. \A s \in Slots : slotRecords[s] # {} <=> slotId[s] # NoId
    BY StoredFacts
  <2> QED BY <1>1, <1>3, <1>5, <2>1 DEF Live
<1>7. Live' \subseteq Live /\ \A s \in Live' : s \in Slots /\ slotId'[s] = slotId[s]
  <2>1. Live' \subseteq Slots
    BY <1>1 DEF Live
  <2> QED BY <1>3, <1>4, <1>5, <1>6, <2>1
<1>8. /\ DOMAIN StoreClusters' = {<<s, slotId[s]>> : s \in Live'}
      /\ \A s \in Live' :
           StoreClusters'[<<s, slotId[s]>>] = {recordId[r] : r \in slotRecords[s] \ E}
  <2>1. ASSUME NEW s \in Live'
        PROVE  {recordId'[r] : r \in slotRecords'[s]} = {recordId[r] : r \in slotRecords[s] \ E}
    <3>1. s \in Slots
      BY <1>7
    <3>2. slotRecords'[s] = slotRecords[s] \ E /\ \A r \in slotRecords[s] \ E : recordId'[r] = recordId[r]
      BY <1>1, <1>3, <3>1, StoredSerials
    <3> QED BY <3>2
  <2>2. /\ DOMAIN StoreClusters' = {<<s, slotId'[s]>> : s \in Live'}
        /\ \A s \in Live' :
             StoreClusters'[<<s, slotId'[s]>>] = {recordId'[r] : r \in slotRecords'[s]}
    BY NextStoreClustersAre
  <2> QED BY <1>7, <2>1, <2>2
<1>9. /\ DOMAIN StoreClusters = {<<s, slotId[s]>> : s \in Live}
      /\ \A s \in Live : StoreClusters[<<s, slotId[s]>>] = {recordId[r] : r \in slotRecords[s]}
  BY StoreClustersAre
<1>10. ASSUME NEW x \in DOMAIN StoreClusters'
       PROVE  x \in DOMAIN StoreClusters /\ StoreClusters'[x] # {}
  <2>1. PICK s \in Live' : x = <<s, slotId[s]>>
    BY <1>8
  <2>2. s \in Live /\ s \in Slots /\ slotRecords[s] \ E # {}
    BY <1>6, <1>7
  <2> QED BY <1>8, <1>9, <2>1, <2>2
<1>11. ASSUME NEW x \in DOMAIN StoreClusters
       PROVE  LET left == IF x \in DOMAIN StoreClusters' THEN StoreClusters'[x] ELSE {}
              IN /\ left \subseteq StoreClusters[x]
                 /\ left = StoreClusters[x] \/ Cardinality(left) >= MinRecords
  <2> DEFINE left == IF x \in DOMAIN StoreClusters' THEN StoreClusters'[x] ELSE {}
  <2>1. PICK s \in Live : x = <<s, slotId[s]>>
    BY <1>9
  <2>2. s \in Slots /\ StoreClusters[x] = {recordId[r] : r \in slotRecords[s]}
    BY <1>4, <1>9, <2>1
  <2>3. x \in DOMAIN StoreClusters' <=> s \in Live'
    BY <1>8, <2>1
  <2>4. left = {recordId[r] : r \in slotRecords[s] \ E}
    <3>1. CASE s \in Live'
      BY <1>8, <2>1, <2>3, <3>1
    <3>2. CASE s \notin Live'
      <4>1. slotRecords[s] \ E = {}
        BY <1>6, <2>2, <3>2
      <4> QED BY <2>3, <3>2, <4>1
    <3> QED BY <3>1, <3>2
  <2> HIDE DEF left
  <2>5. left \subseteq StoreClusters[x]
    BY <2>2, <2>4
  <2>6. CASE slotRecords[s] \cap E = {}
    <3>1. slotRecords[s] \ E = slotRecords[s]
      BY <2>6
    <3> QED BY <2>2, <2>4, <2>5, <3>1 DEF left
  <2>7. CASE slotRecords[s] \cap E # {}
    <3>1. Cardinality(slotRecords[s] \ E) >= MinRecords
      BY <2>2, <2>7, FloorKept
    <3>2. Cardinality(left) = Cardinality(slotRecords[s] \ E)
      BY <2>2, <2>4, IdsCountRecords
    <3> QED BY <2>5, <3>1, <3>2 DEF left
  <2> QED BY <2>6, <2>7
<1>12. StoreUsed' = StoreUsed
  BY <1>1 DEF StoreUsed
<1>13. ASSUME NEW x \in DOMAIN StoreClusters
       PROVE  LET left == IF x \in DOMAIN StoreClusters' THEN StoreClusters'[x] ELSE {}
              IN /\ left \subseteq StoreClusters[x]
                 /\ left = StoreClusters[x] \/ Store!Cardinality(left) >= MinRecords
  BY <1>11, StoreCardinality
<1> QED BY <1>1, <1>10, <1>12, <1>13 DEF Store!Evict

\* Every step of the memory is a step of the cluster store or changes nothing in it.
LEMMA NextStore ==
  ASSUME IInv, [Next]_vars
  PROVE  [Store!Next]_Store!storeVars
<1>1. CASE Ingest
  <2>1. PICK b \in Blocks, c \in Codes, newCode \in Codes :
          \E decision \in Slots \cup {NoSlot} : IngestBlock(b, c, decision, newCode)
    BY <1>1 DEF Ingest
  <2>2. PICK decision \in Slots \cup {NoSlot} : IngestBlock(b, c, decision, newCode)
    BY <2>1
  <2>3. held' = held
    BY <1>1 DEF Ingest
  <2>4. Store!Ingest
    BY <2>2, <2>3, IngestIsIngest
  <2> QED BY <2>4 DEF Store!Next
<1>2. CASE Recall \/ UNCHANGED vars
  <2>1. UNCHANGED <<slotVars, recordVars>>
    BY <1>2 DEF Recall, vars
  <2>2. UNCHANGED Store!storeVars
    BY <2>1 DEF slotVars, recordVars, Store!storeVars, StoreClusters, StoreUsed, Live, Slots, ClusterId
  <2> QED BY <2>2
<1>3. CASE Observe
  <2>1. PICK ids \in SUBSET DOMAIN held :
          \E usage \in [ids -> UsageRates] : \E evicting \in BOOLEAN :
          \E E \in SUBSET IndicesOf(ids \cap DOMAIN recordIndex) :
            ObserveRecallUsage(ids, usage, evicting, E)
    BY <1>3 DEF Observe
  <2>2. PICK usage \in [ids -> UsageRates], evicting \in BOOLEAN,
             E \in SUBSET IndicesOf(ids \cap DOMAIN recordIndex) :
          ObserveRecallUsage(ids, usage, evicting, E)
    BY <2>1
  <2>3. ids \cap DOMAIN recordIndex = ids
    BY <2>2 DEF ObserveRecallUsage, Accepts
  <2>4. E \in SUBSET IndicesOf(ids) /\ held' = held
    BY <1>3, <2>3 DEF Observe
  <2>5. Store!Evict
    BY <2>2, <2>4, ObserveIsEvict
  <2> QED BY <2>5 DEF Store!Next
<1> QED BY <1>1, <1>2, <1>3 DEF Next

\* For all values of the constants the block memory behaves as the cluster store: a map
\* from ids never used twice to disjoint sets of records, which ingestion extends by one
\* record and evictions shrink within the floor (ingest_block, _evict_record_indices).
THEOREM BlockMemoryImplementsStore == Spec => ImplementsClusterStore
<1>1. Init => Store!Init
  BY InitStore
<1>2. IInv /\ [Next]_vars => [Store!Next]_Store!storeVars
  BY NextStore
<1> QED BY <1>1, <1>2, BlockInvariance, PTL DEF Spec, ImplementsClusterStore, Store!Spec

------------------------------------------------------------------------------
(* The order in which a bank takes its entries.                             *)

\* R orders S strictly: each element comes before or after each other one.
Orders(R, S) ==
  /\ \A x \in S : <<x, x>> \notin R
  /\ \A x, y, z \in S : <<x, y>> \in R /\ <<y, z>> \in R => <<x, z>> \in R
  /\ \A x, y \in S : x # y => <<x, y>> \in R \/ <<y, x>> \in R

\* o has every element of S once, in the order R.
Enumerates(o, S, R) ==
  LET n == Cardinality(S) IN
  /\ o \in [1..n -> S]
  /\ \A x \in S : \E k \in 1..n : o[k] = x
  /\ \A k, l \in 1..n : k < l => <<o[k], o[l]>> \in R /\ o[k] # o[l]

\* A sort yields every element once, in order: the numbers of elements before each
\* are different, and there are as many of them as places.
LEMMA SortedEnumerates ==
  ASSUME NEW S, IsFiniteSet(S), NEW R, Orders(R, S)
  PROVE  Enumerates(Sorted(S, R), S, R)
<1> DEFINE n == Cardinality(S)
           below == [x \in S |-> {y \in S : <<y, x>> \in R}]
           before == [x \in S |-> Cardinality({y \in S : <<y, x>> \in R})]
           place == [x \in S |-> before[x] + 1]
           o == Sorted(S, R)
<1>1. n \in Nat
  BY FS_CardinalityType
<1>2. \A x \in S : below[x] \subseteq S /\ x \notin below[x]
  BY DEF Orders
<1>3. \A x, y \in S : <<x, y>> \in R => below[x] \subseteq below[y] /\ x \in below[y]
  BY DEF Orders
<1>4. o = [k \in 1..n |-> CHOOSE x \in S : before[x] = k - 1]
  BY DEF Sorted
<1>5. \A x \in S : before[x] = Cardinality(below[x])
  OBVIOUS
<1> HIDE DEF below, before, o
<1>6. \A x \in S : IsFiniteSet(below[x]) /\ before[x] \in Nat /\ before[x] < n
  <2> TAKE x \in S
  <2>1. /\ IsFiniteSet(below[x]) /\ Cardinality(below[x]) \in Nat
        /\ Cardinality(below[x]) <= n /\ Cardinality(below[x]) # n
    BY <1>2, FS_Subset, FS_CardinalityType
  <2> QED BY <1>1, <1>5, <2>1
<1>7. \A x, y \in S : <<x, y>> \in R => before[x] < before[y]
  <2> SUFFICES ASSUME NEW x \in S, NEW y \in S, <<x, y>> \in R PROVE before[x] < before[y]
    OBVIOUS
  <2>1. below[x] \subseteq below[y] /\ below[x] # below[y] /\ IsFiniteSet(below[y])
    BY <1>2, <1>3, <1>6
  <2>2. Cardinality(below[x]) <= Cardinality(below[y]) /\ Cardinality(below[x]) # Cardinality(below[y])
    BY <2>1, FS_Subset
  <2> QED BY <1>5, <1>6, <2>2
<1>8. \A x, y \in S : x # y => <<x, y>> \in R \/ <<y, x>> \in R
  BY DEF Orders
<1>9. \A x, y \in S : /\ before[x] = before[y] => x = y
                      /\ before[x] < before[y] => <<x, y>> \in R
  <2> TAKE x, y \in S
  <2>1. before[x] \in Nat /\ before[y] \in Nat
    BY <1>6
  <2>2. <<x, y>> \in R => before[x] < before[y]
    BY <1>7
  <2>3. <<y, x>> \in R => before[y] < before[x]
    BY <1>7
  <2> QED BY <1>8, <2>1, <2>2, <2>3
<1>10. place \in Injection(S, 1..n)
  <2>1. \A x \in S : place[x] = before[x] + 1
    OBVIOUS
  <2>2. place \in [S -> 1..n]
    BY <1>1, <1>6
  <2> HIDE DEF place
  <2>3. \A x, y \in S : place[x] = place[y] => x = y
    <3> TAKE x, y \in S
    <3>1. place[x] = before[x] + 1 /\ place[y] = before[y] + 1
      BY <2>1
    <3>2. before[x] \in Nat /\ before[y] \in Nat /\ (before[x] = before[y] => x = y)
      BY <1>6, <1>9
    <3> QED BY <3>1, <3>2
  <2> QED BY <2>2, <2>3 DEF Injection, IsInjective
<1>11. place \in Surjection(S, 1..n)
  <2>1. IsFiniteSet(1..n) /\ Cardinality(1..n) = n
    BY <1>1, FS_Interval
  <2> HIDE DEF place
  <2> QED BY <1>10, <2>1, FS_Injection
<1>12. \A k \in 1..n : \E x \in S : before[x] = k - 1
  <2>1. \A k \in 1..n : \E x \in S : place[x] = k
    BY <1>11 DEF Surjection
  <2> QED BY <1>1, <1>6, <2>1
<1>13. \A k \in 1..n : o[k] \in S /\ before[o[k]] = k - 1
  BY <1>4, <1>12
<1>14. o \in [1..n -> S]
  BY <1>4, <1>13
<1>15. ASSUME NEW x \in S PROVE \E k \in 1..n : o[k] = x
  <2>1. before[x] + 1 \in 1..n
    BY <1>1, <1>6
  <2>2. before[o[before[x] + 1]] = before[x] /\ o[before[x] + 1] \in S
    BY <1>6, <1>13, <2>1
  <2> QED BY <1>9, <2>1, <2>2
<1>16. ASSUME NEW k \in 1..n, NEW l \in 1..n, k < l PROVE <<o[k], o[l]>> \in R /\ o[k] # o[l]
  <2>1. k \in Nat /\ l \in Nat
    BY <1>1
  <2>2. before[o[k]] < before[o[l]] /\ o[k] \in S /\ o[l] \in S
    BY <1>13, <1>16, <2>1
  <2> QED BY <1>6, <1>9, <2>2
<1> QED BY <1>14, <1>15, <1>16 DEF Enumerates, o

\* Entries as a sort looks at them.
Entries(es) ==
  /\ DOMAIN es = 1..Len(es) /\ Len(es) \in Nat
  /\ \A i \in DOMAIN es : es[i].active \in BOOLEAN /\ es[i].age \in Nat

\* o goes through the entries: everything that is not active comes before what is, and
\* what a write has left alone before what it has taken, the oldest first.
Allocates(o, es, taken) ==
  LET n == Len(es) IN
  /\ o \in [1..n -> DOMAIN es] /\ DOMAIN o = 1..n /\ Len(o) = n
  /\ \A i \in DOMAIN es : \E k \in 1..n : o[k] = i
  /\ \A k, l \in 1..n : k # l => o[k] # o[l]
  /\ \A k, l \in 1..n : k < l /\ es[o[k]].active /\ o[k] \in taken =>
       es[o[l]].active /\ o[l] \in taken
  /\ \A k, l \in 1..n :
       k < l /\ es[o[k]].active /\ o[k] \notin taken /\ es[o[l]].active /\ o[l] \notin taken =>
         es[o[k]].age >= es[o[l]].age

\* So does any sort by category that takes what the write has left alone by age.
LEMMA OrderFacts ==
  ASSUME NEW es, NEW taken, NEW R, Entries(es), Orders(R, DOMAIN es),
         \A x, y \in DOMAIN es : <<x, y>> \in R =>
           \/ Category(es, taken, x) < Category(es, taken, y)
           \/ /\ Category(es, taken, x) = Category(es, taken, y)
              /\ Category(es, taken, x) = 1 => es[x].age >= es[y].age
  PROVE  Allocates(Sorted(DOMAIN es, R), es, taken)
<1> DEFINE D == DOMAIN es
           o == Sorted(D, R)
<1>2. \A x \in D : Category(es, taken, x) \in 0..2 /\ es[x].age \in Nat /\ x \in Nat
  BY DEF Entries, Category
<1>6. IsFiniteSet(D) /\ Cardinality(D) = Len(es)
  BY FS_Interval DEF Entries
<1>8. Enumerates(o, D, R)
  <2>1. Orders(R, D)
    OBVIOUS
  <2> HIDE DEF D
  <2> QED BY <1>6, <2>1, SortedEnumerates DEF o
<1>9. /\ o \in [1..Len(es) -> D]
      /\ \A x \in D : \E k \in 1..Len(es) : o[k] = x
      /\ \A k, l \in 1..Len(es) : k < l => <<o[k], o[l]>> \in R /\ o[k] # o[l]
  <2> HIDE DEF D, o
  <2> QED BY <1>6, <1>8 DEF Enumerates
<1> HIDE DEF o
<1>11. \A k, l \in 1..Len(es) : k < l =>
         Category(es, taken, o[k]) < Category(es, taken, o[l])
         \/ (Category(es, taken, o[k]) = Category(es, taken, o[l])
            /\ (Category(es, taken, o[k]) = 1 => es[o[k]].age >= es[o[l]].age))
  <2> TAKE k, l \in 1..Len(es)
  <2>1. k < l => o[k] \in D /\ o[l] \in D /\ <<o[k], o[l]>> \in R
    BY <1>9
  <2> QED BY <2>1
<1>12. Len(es) \in Nat
  BY DEF Entries
<1>13. Len(o) = Len(es) /\ DOMAIN o = 1..Len(es)
  BY <1>9, <1>12
<1>14. \A k, l \in 1..Len(es) : k # l => o[k] # o[l]
  <2> TAKE k, l \in 1..Len(es)
  <2>1. k # l => k < l \/ l < k
    BY <1>12
  <2>2. k < l => o[k] # o[l]
    BY <1>9
  <2>3. l < k => o[k] # o[l]
    BY <1>9
  <2> QED BY <2>1, <2>2, <2>3
<1>15. \A i \in D : es[i].active \in BOOLEAN
  BY DEF Entries
<1>16. \A k, l \in 1..Len(es) : k < l /\ es[o[k]].active /\ o[k] \in taken =>
                 es[o[l]].active /\ o[l] \in taken
  BY <1>2, <1>9, <1>11, <1>15 DEF Category
<1>17. \A k, l \in 1..Len(es) :
                 k < l /\ es[o[k]].active /\ o[k] \notin taken /\ es[o[l]].active /\ o[l] \notin taken =>
                   es[o[k]].age >= es[o[l]].age
  BY <1>2, <1>9, <1>11, <1>15 DEF Category
<1> QED BY <1>9, <1>13, <1>14, <1>16, <1>17 DEF o, Allocates

\* The order of the record bank is such a sort.
LEMMA AllocationFacts ==
  ASSUME NEW es, NEW taken, Entries(es)
  PROVE  Allocates(AllocationOrder(es, taken), es, taken)
<1> DEFINE D == DOMAIN es
           R == {p \in D \X D : Before(es, taken, p[1], p[2])}
<1>1. \A x, y \in D : <<x, y>> \in R <=> Before(es, taken, x, y)
  OBVIOUS
<1>2. \A x \in D : Category(es, taken, x) \in 0..2 /\ es[x].age \in Nat /\ x \in Nat
  BY DEF Entries, Category
<1>3. /\ \A x \in D : ~Before(es, taken, x, x)
      /\ \A x, y \in D : x # y => Before(es, taken, x, y) \/ Before(es, taken, y, x)
  BY <1>2 DEF Before
<1>4. \A x, y, z \in D :
        Before(es, taken, x, y) /\ Before(es, taken, y, z) => Before(es, taken, x, z)
  BY <1>2 DEF Before
<1>5. Orders(R, D)
  <2> HIDE DEF R, D
  <2> QED BY <1>1, <1>3, <1>4 DEF Orders
<1>6. \A x, y \in D : <<x, y>> \in R =>
        \/ Category(es, taken, x) < Category(es, taken, y)
        \/ /\ Category(es, taken, x) = Category(es, taken, y)
           /\ Category(es, taken, x) = 1 => es[x].age >= es[y].age
  BY <1>1, <1>2 DEF Before
<1>7. AllocationOrder(es, taken) = Sorted(D, R)
  BY DEF AllocationOrder
<1> HIDE DEF R
<1>8. Allocates(Sorted(D, R), es, taken)
  BY <1>5, <1>6, OrderFacts
<1> QED BY <1>7, <1>8

\* The order of the Camelot bank is one too.
LEMMA CamelotFacts ==
  ASSUME NEW es, NEW taken, Entries(es)
  PROVE  Allocates(CamelotOrder(es, taken), es, taken)
<1> DEFINE D == DOMAIN es
           R == {p \in D \X D : CamelotBefore(es, taken, p[1], p[2])}
<1>1. \A x, y \in D : <<x, y>> \in R <=> CamelotBefore(es, taken, x, y)
  OBVIOUS
<1>2. \A x \in D : Category(es, taken, x) \in 0..2 /\ es[x].age \in Nat /\ x \in Nat
  BY DEF Entries, Category
<1>3. /\ \A x \in D : ~CamelotBefore(es, taken, x, x)
      /\ \A x, y \in D : x # y => CamelotBefore(es, taken, x, y) \/ CamelotBefore(es, taken, y, x)
  BY <1>2 DEF CamelotBefore
<1>4. \A x, y, z \in D :
        CamelotBefore(es, taken, x, y) /\ CamelotBefore(es, taken, y, z) => CamelotBefore(es, taken, x, z)
  BY <1>2 DEF CamelotBefore
<1>5. Orders(R, D)
  <2> HIDE DEF R, D
  <2> QED BY <1>1, <1>3, <1>4 DEF Orders
<1>6. \A x, y \in D : <<x, y>> \in R =>
        \/ Category(es, taken, x) < Category(es, taken, y)
        \/ /\ Category(es, taken, x) = Category(es, taken, y)
           /\ Category(es, taken, x) = 1 => es[x].age >= es[y].age
  BY <1>1, <1>2 DEF CamelotBefore
<1>7. CamelotOrder(es, taken) = Sorted(D, R)
  BY DEF CamelotOrder
<1> HIDE DEF R
<1>8. Allocates(Sorted(D, R), es, taken)
  BY <1>5, <1>6, OrderFacts
<1> QED BY <1>7, <1>8
------------------------------------------------------------------------------
(* The invariant of the banks.                                              *)

TokenIds == Nat \X Nat

SlotType == [active : BOOLEAN, age : Nat, wrote : Nat, count : Nat,
             sum : SUBSET TokenIds, basis : SUBSET TokenIds]

RecordType == [active : BOOLEAN, age : Nat, wrote : Nat, slot : Nat, token : TokenIds \cup {0}]

\* A write goes through its tokens in turns.
Writing == phase \in {"placing", "chunks"}

ShapeInv ==
  /\ method \in Methods
  /\ slots \in Seq(SlotType) /\ Len(slots) <= SlotCapacity
  /\ entries \in Seq(RecordType) /\ Len(entries) <= RecordCapacity
  /\ phase \in {"idle", "attending", "placing", "chunks"}
  /\ window \in Nat /\ tokens \in Nat /\ next \in Seq(TokenIds)
  /\ touched \subseteq DOMAIN slots /\ touchedRecords \subseteq DOMAIN entries
  /\ phase = "placing" => method = "camelot" /\ touchedRecords = {}
  /\ phase = "chunks" => method = "vmf_records"
  /\ ~Writing => touched = {} /\ touchedRecords = {} /\ next = <<>>

\* What a write has touched is of this window, and nothing is of a later one.
TimesInv ==
  /\ \A s \in DOMAIN slots : slots[s].wrote <= window
  /\ \A s \in touched : slots[s].wrote = window
  /\ \A r \in touchedRecords : entries[r].wrote = window

\* The tokens still to be placed are of this window, each once.
NextInv ==
  /\ \A k \in DOMAIN next : next[k][1] = window
  /\ \A k, l \in DOMAIN next : next[k] = next[l] => k = l

\* The tables have room for a chunk.
RoomInv ==
  phase = "chunks" =>
    /\ Len(next) <= Len(slots) \/ Len(slots) = SlotCapacity
    /\ Len(next) <= Len(entries) \/ Len(entries) = RecordCapacity

\* Every record is of one token, has a slot, and is touched with it by the write
\* that brings the token.
RecordsInv ==
  method = "vmf_records" =>
    /\ \A r \in ActiveOf(entries) :
         /\ entries[r].slot \in DOMAIN slots
         /\ entries[r].token \in TokenIds /\ entries[r].token[1] <= window
         /\ phase = "attending" => entries[r].token[1] < window
         /\ phase = "chunks" /\ entries[r].token[1] = window =>
              r \in touchedRecords /\ entries[r].slot \in touched
         /\ \A k \in DOMAIN next : entries[r].token # next[k]
    /\ \A r, q \in ActiveOf(entries) : entries[r].token = entries[q].token => r = q

\* The records of a slot, and their tokens.
Mine(es, s) == {r \in DOMAIN es : es[r].active /\ es[r].slot = s}
TokensIn(es, R) == {es[r].token : r \in R}

\* A slot sums and counts the records es, those of R.
SumsUp(slot, es, R) ==
  /\ slot.active <=> R # {}
  /\ slot.count = Cardinality(R)
  /\ slot.sum = TokensIn(es, R)

SumsInv ==
  method = "vmf_records" =>
    \A s \in DOMAIN slots :
      /\ SumsUp(slots[s], entries, Mine(entries, s))
      /\ slots[s].active => slots[s].basis = slots[s].sum

\* Slots of a Camelot bank have tokens, those of this window where the write has
\* touched them; and an older one is of an earlier window.
CamelotInv ==
  method = "camelot" =>
    /\ \A s \in touched : slots[s].active
    /\ \A s \in ActiveOf(slots) :
         /\ slots[s].sum # {}
         /\ \A x \in slots[s].sum :
              /\ x[1] <= window
              /\ phase = "attending" => x[1] < window
              /\ phase = "placing" /\ x[1] = window => s \in touched
    /\ \A s, t \in ActiveOf(slots) \ touched :
         slots[s].age >= slots[t].age => slots[s].wrote <= slots[t].wrote

WindowTokens == {Token(i) : i \in 1..tokens}
Waiting == {next[k] : k \in DOMAIN next}

AllSlotsWritten == \A s \in DOMAIN slots : slots[s].wrote = window
AllRecordsWritten == method = "vmf_records" /\ \A r \in DOMAIN entries : entries[r].wrote = window

\* Tokens of the window are still to be placed or held, unless the write has gone
\* through everything.
KeptInv ==
  phase # "attending" =>
    \/ WindowTokens \subseteq Waiting \cup Held
    \/ AllSlotsWritten
    \/ AllRecordsWritten

BankInv ==
  /\ ShapeInv /\ TimesInv /\ NextInv /\ RoomInv
  /\ RecordsInv /\ SumsInv /\ CamelotInv /\ KeptInv

------------------------------------------------------------------------------
(* Tables that grow and age.                                                *)

\* The limits of a bank are numbers.
LEMMA BankLimits ==
  /\ SlotCapacity \in Nat \ {0} /\ RecordCapacity \in Nat \ {0} /\ ChunkSize \in Nat \ {0}
  /\ MaxWindows \in Nat /\ WindowSizes \subseteq Nat \ {0}
BY TokenMemoryAssumption DEF TokenMemoryAssumption

\* A chunk fits into every table.
LEMMA ChunkLimitFacts ==
  /\ ChunkLimit \in Nat \ {0}
  /\ ChunkLimit <= ChunkSize /\ ChunkLimit <= SlotCapacity /\ ChunkLimit <= RecordCapacity
<1> DEFINE All == {ChunkSize, SlotCapacity, RecordCapacity}
<1>1. \E m \in All : \A k \in All : m <= k
  BY BankLimits
<1>2. ChunkLimit \in All /\ \A k \in All : ChunkLimit <= k
  <2> HIDE DEF All
  <2>1. ChunkLimit = CHOOSE m \in All : \A k \in All : m <= k
    BY Zenon DEF ChunkLimit, All
  <2> QED BY <1>1, <2>1
<1> QED BY <1>2, BankLimits

\* g is es with blank entries behind those there are, as many as are added or have room.
Grows(g, T, es, added, capacity, blank) ==
  /\ g \in Seq(T) /\ Len(g) <= capacity /\ Len(es) <= Len(g)
  /\ Len(g) = Len(es) + added \/ Len(g) = capacity
  /\ \A i \in DOMAIN es : i \in DOMAIN g /\ g[i] = es[i]
  /\ \A i \in DOMAIN g : i \notin DOMAIN es => g[i] = blank

\* A table grows up to its capacity.
LEMMA GrownFacts ==
  ASSUME NEW T, NEW es \in Seq(T), NEW added \in Nat, NEW capacity \in Nat, Len(es) <= capacity,
         NEW blank \in T
  PROVE  Grows(Grown(es, added, capacity, blank), T, es, added, capacity, blank)
<1> DEFINE n == IF Len(es) + added <= capacity THEN added ELSE capacity - Len(es)
           more == [i \in 1..n |-> blank]
<1>1. n \in Nat /\ Len(es) \in Nat
  OBVIOUS
<1>2. more \in Seq(T) /\ Len(more) = n
  <2> HIDE DEF n
  <2> QED BY <1>1
<1>3. Grown(es, added, capacity, blank) = es \o more
  BY DEF Grown
<1> DEFINE g == es \o more
<1>4. g \in Seq(T) /\ Len(g) = Len(es) + n
  BY <1>2
<1>5. \A i \in DOMAIN es : i \in DOMAIN g /\ g[i] = es[i]
  <2> HIDE DEF n
  <2> QED BY <1>1, <1>2
<1>6. \A i \in DOMAIN g : i \notin DOMAIN es => g[i] = blank
  <2> HIDE DEF n
  <2> QED BY <1>1, <1>2
<1> HIDE DEF g, more
<1> QED BY <1>1, <1>3, <1>4, <1>5, <1>6 DEF g, Grows

\* Slots age, and stay what they are.
LEMMA AgedSlots ==
  ASSUME NEW es \in Seq(SlotType), NEW taken
  PROVE  LET g == Aged(es, taken)
         IN /\ g \in Seq(SlotType) /\ Len(g) = Len(es) /\ DOMAIN g = DOMAIN es
            /\ \A i \in DOMAIN es :
                 /\ g[i].active = es[i].active /\ g[i].wrote = es[i].wrote
                 /\ g[i].count = es[i].count /\ g[i].sum = es[i].sum /\ g[i].basis = es[i].basis
                 /\ i \in taken => g[i].age = 0
                 /\ i \notin taken /\ es[i].active => g[i].age = es[i].age + 1
<1> DEFINE g == Aged(es, taken)
<1>1. DOMAIN es = 1..Len(es) /\ Len(es) \in Nat /\ \A i \in DOMAIN es : es[i] \in SlotType
  OBVIOUS
<1> DEFINE aged(i) == IF i \in taken THEN [es[i] EXCEPT !.age = 0]
                      ELSE IF es[i].active THEN [es[i] EXCEPT !.age = @ + 1] ELSE es[i]
<1>2. g = [i \in DOMAIN es |-> aged(i)]
  BY DEF Aged
<1>3. \A i \in DOMAIN es : aged(i) \in SlotType
  <2> TAKE i \in DOMAIN es
  <2>1. es[i] \in SlotType /\ es[i].age + 1 \in Nat
    BY <1>1 DEF SlotType
  <2> QED BY <2>1 DEF SlotType
<1> HIDE DEF g, aged
<1>4. DOMAIN g = DOMAIN es /\ \A i \in DOMAIN es : g[i] = aged(i)
  BY <1>2
<1>5. g \in [1..Len(es) -> SlotType]
  BY <1>1, <1>2, <1>3
<1>6. g \in Seq(SlotType) /\ Len(g) = Len(es)
  BY <1>1, <1>5
<1>7. \A i \in DOMAIN es :
                 /\ g[i].active = es[i].active /\ g[i].wrote = es[i].wrote
                 /\ g[i].count = es[i].count /\ g[i].sum = es[i].sum /\ g[i].basis = es[i].basis
                 /\ i \in taken => g[i].age = 0
                 /\ i \notin taken /\ es[i].active => g[i].age = es[i].age + 1
  BY <1>1, <1>4 DEF SlotType, aged
<1> QED BY <1>4, <1>6, <1>7 DEF g

\* So do records.
LEMMA AgedRecords ==
  ASSUME NEW es \in Seq(RecordType), NEW taken
  PROVE  LET g == Aged(es, taken)
         IN /\ g \in Seq(RecordType) /\ Len(g) = Len(es) /\ DOMAIN g = DOMAIN es
            /\ \A i \in DOMAIN es :
                 /\ g[i].active = es[i].active /\ g[i].wrote = es[i].wrote
                 /\ g[i].slot = es[i].slot /\ g[i].token = es[i].token
<1> DEFINE g == Aged(es, taken)
<1>1. DOMAIN es = 1..Len(es) /\ Len(es) \in Nat /\ \A i \in DOMAIN es : es[i] \in RecordType
  OBVIOUS
<1> DEFINE aged(i) == IF i \in taken THEN [es[i] EXCEPT !.age = 0]
                      ELSE IF es[i].active THEN [es[i] EXCEPT !.age = @ + 1] ELSE es[i]
<1>2. g = [i \in DOMAIN es |-> aged(i)]
  BY DEF Aged
<1>3. \A i \in DOMAIN es : aged(i) \in RecordType
  <2> TAKE i \in DOMAIN es
  <2>1. es[i] \in RecordType /\ es[i].age + 1 \in Nat
    BY <1>1 DEF RecordType
  <2> QED BY <2>1 DEF RecordType
<1> HIDE DEF g, aged
<1>4. DOMAIN g = DOMAIN es /\ \A i \in DOMAIN es : g[i] = aged(i)
  BY <1>2
<1>5. g \in [1..Len(es) -> RecordType]
  BY <1>1, <1>2, <1>3
<1>6. g \in Seq(RecordType) /\ Len(g) = Len(es)
  BY <1>1, <1>5
<1>7. \A i \in DOMAIN es :
                 /\ g[i].active = es[i].active /\ g[i].wrote = es[i].wrote
                 /\ g[i].slot = es[i].slot /\ g[i].token = es[i].token
  BY <1>1, <1>4 DEF RecordType, aged
<1> QED BY <1>4, <1>6, <1>7 DEF g

------------------------------------------------------------------------------
(* Steps that place no token.                                               *)

\* What the entries of the tables are.
LEMMA BankTypes ==
  ASSUME ShapeInv
  PROVE  /\ DOMAIN slots = 1..Len(slots) /\ Len(slots) \in Nat
         /\ DOMAIN entries = 1..Len(entries) /\ Len(entries) \in Nat
         /\ DOMAIN next = 1..Len(next) /\ Len(next) \in Nat
         /\ \A s \in DOMAIN slots :
              /\ slots[s] \in SlotType
              /\ slots[s].active \in BOOLEAN /\ slots[s].age \in Nat /\ slots[s].wrote \in Nat
              /\ slots[s].count \in Nat /\ slots[s].sum \subseteq TokenIds /\ slots[s].basis \subseteq TokenIds
         /\ \A r \in DOMAIN entries :
              /\ entries[r] \in RecordType
              /\ entries[r].active \in BOOLEAN /\ entries[r].age \in Nat /\ entries[r].wrote \in Nat
              /\ entries[r].slot \in Nat
         /\ \A k \in DOMAIN next : next[k] \in TokenIds
         /\ Entries(slots) /\ Entries(entries)
<1>1. slots \in Seq(SlotType) /\ entries \in Seq(RecordType) /\ next \in Seq(TokenIds)
  BY DEF ShapeInv
<1>2. /\ DOMAIN slots = 1..Len(slots) /\ Len(slots) \in Nat
      /\ DOMAIN entries = 1..Len(entries) /\ Len(entries) \in Nat
      /\ DOMAIN next = 1..Len(next) /\ Len(next) \in Nat
  BY <1>1
<1>3. /\ \A s \in DOMAIN slots : slots[s] \in SlotType
      /\ \A r \in DOMAIN entries : entries[r] \in RecordType
      /\ \A k \in DOMAIN next : next[k] \in TokenIds
  BY <1>1
<1>4. \A s \in DOMAIN slots :
        /\ slots[s].active \in BOOLEAN /\ slots[s].age \in Nat /\ slots[s].wrote \in Nat
        /\ slots[s].count \in Nat /\ slots[s].sum \subseteq TokenIds /\ slots[s].basis \subseteq TokenIds
  BY <1>3 DEF SlotType
<1>5. \A r \in DOMAIN entries :
        /\ entries[r].active \in BOOLEAN /\ entries[r].age \in Nat /\ entries[r].wrote \in Nat
        /\ entries[r].slot \in Nat
  BY <1>3 DEF RecordType
<1> QED BY <1>2, <1>3, <1>4, <1>5 DEF Entries

\* The empty sequence.
LEMMA EmptyFacts ==
  /\ <<>> \in Seq(SlotType) /\ <<>> \in Seq(RecordType) /\ <<>> \in Seq(TokenIds)
  /\ Len(<<>>) = 0 /\ DOMAIN <<>> = {}
OBVIOUS

\* A bank starts empty.
LEMMA BankStarts == ASSUME BankInit PROVE BankInv
<1>1. SlotCapacity \in Nat /\ RecordCapacity \in Nat
  BY BankLimits
<1>2. ShapeInv
  BY <1>1, EmptyFacts DEF BankInit, ShapeInv, Writing
<1>3. TimesInv /\ NextInv /\ RoomInv
  BY DEF BankInit, TimesInv, NextInv, RoomInv
<1>4. RecordsInv /\ SumsInv /\ CamelotInv
  BY DEF BankInit, RecordsInv, SumsInv, CamelotInv, ActiveOf
<1>5. KeptInv
  BY DEF BankInit, KeptInv, AllSlotsWritten
<1> QED BY <1>2, <1>3, <1>4, <1>5 DEF BankInv

\* So it does when it is reset.
LEMMA BankReset == ASSUME BankInv, Reset PROVE BankInv'
<1>1. /\ slots' = <<>> /\ entries' = <<>> /\ window' = 0 /\ tokens' = 0
      /\ phase = "idle" /\ UNCHANGED <<method, phase, next, touched, touchedRecords>>
      /\ touched = {} /\ touchedRecords = {} /\ next = <<>>
  BY DEF Reset, BankInv, ShapeInv, Writing
<1>2. SlotCapacity \in Nat /\ RecordCapacity \in Nat
  BY BankLimits
<1>3. ShapeInv'
  BY <1>1, <1>2, EmptyFacts DEF BankInv, ShapeInv, Writing
<1>4. (TimesInv /\ NextInv /\ RoomInv)'
  BY <1>1 DEF TimesInv, NextInv, RoomInv
<1>5. (RecordsInv /\ SumsInv /\ CamelotInv)'
  BY <1>1 DEF RecordsInv, SumsInv, CamelotInv, ActiveOf
<1>6. KeptInv'
  BY <1>1 DEF KeptInv, AllSlotsWritten
<1> QED BY <1>3, <1>4, <1>5, <1>6 DEF BankInv

\* A window that is retrieved for is later than all that is written.
LEMMA BankRetrieve == ASSUME BankInv, NEW n \in WindowSizes, Retrieve(n) PROVE BankInv'
<1>1. /\ phase = "idle" /\ phase' = "attending" /\ window' = window + 1 /\ tokens' = n
      /\ UNCHANGED <<method, slots, entries, next, touched, touchedRecords>>
      /\ touched = {} /\ touchedRecords = {} /\ next = <<>> /\ window \in Nat
  BY DEF Retrieve, BankInv, ShapeInv, Writing
<1>2. n \in Nat
  BY BankLimits
<1>3. ShapeInv'
  BY <1>1, <1>2 DEF BankInv, ShapeInv, Writing
<1>4. \A s \in DOMAIN slots : slots[s].wrote \in Nat
  BY BankTypes DEF BankInv
<1>5. (TimesInv /\ NextInv /\ RoomInv)'
  BY <1>1, <1>4 DEF BankInv, TimesInv, NextInv, RoomInv
<1>6. RecordsInv'
  BY <1>1 DEF BankInv, RecordsInv, ActiveOf, TokenIds
<1>7. SumsInv'
  BY <1>1 DEF BankInv, SumsInv
<1>8. \A s \in ActiveOf(slots) : slots[s].sum \subseteq TokenIds
  BY BankTypes DEF BankInv, ActiveOf
<1>9. CamelotInv'
  BY <1>1, <1>8 DEF BankInv, CamelotInv, ActiveOf, TokenIds
<1>10. KeptInv'
  BY <1>1 DEF KeptInv
<1> QED BY <1>3, <1>5, <1>6, <1>7, <1>9, <1>10 DEF BankInv

\* A window that is not written leaves nothing to be held.
LEMMA BankFails == ASSUME BankInv, AttentionFails PROVE BankInv'
<1>1. /\ phase = "attending" /\ phase' = "idle" /\ tokens' = 0
      /\ UNCHANGED <<method, slots, entries, window, next, touched, touchedRecords>>
      /\ touched = {} /\ touchedRecords = {} /\ next = <<>>
  BY DEF AttentionFails, BankInv, ShapeInv, Writing
<1>2. ShapeInv'
  BY <1>1 DEF BankInv, ShapeInv, Writing
<1>3. (TimesInv /\ NextInv /\ RoomInv)'
  BY <1>1 DEF BankInv, TimesInv, NextInv, RoomInv
<1>4. RecordsInv'
  BY <1>1 DEF BankInv, RecordsInv, ActiveOf
<1>5. SumsInv'
  BY <1>1 DEF BankInv, SumsInv
<1>6. CamelotInv'
  BY <1>1 DEF BankInv, CamelotInv, ActiveOf
<1>7. WindowTokens' = {}
  BY <1>1 DEF WindowTokens
<1>8. KeptInv'
  BY <1>1, <1>7 DEF KeptInv
<1> QED BY <1>2, <1>3, <1>4, <1>5, <1>6, <1>8 DEF BankInv

\* A Camelot write ends: what it has touched is the newest.
LEMMA BankCamelotFinish == ASSUME BankInv, CamelotFinish PROVE BankInv'
<1>1. /\ method = "camelot" /\ phase = "placing" /\ next = <<>>
      /\ slots' = Aged(slots, touched) /\ phase' = "idle" /\ touched' = {}
      /\ UNCHANGED <<method, entries, window, tokens, next, touchedRecords>>
  BY DEF CamelotFinish
<1>2. /\ slots' \in Seq(SlotType) /\ Len(slots') = Len(slots) /\ DOMAIN slots' = DOMAIN slots
      /\ \A i \in DOMAIN slots :
           /\ slots'[i].active = slots[i].active /\ slots'[i].wrote = slots[i].wrote
           /\ slots'[i].sum = slots[i].sum
           /\ i \in touched => slots'[i].age = 0
           /\ i \notin touched /\ slots[i].active => slots'[i].age = slots[i].age + 1
  BY <1>1, AgedSlots DEF BankInv, ShapeInv
<1>3. touchedRecords = {} /\ DOMAIN next = {}
  BY <1>1 DEF BankInv, ShapeInv
<1>4. /\ window \in Nat
      /\ \A s \in DOMAIN slots : slots[s].wrote \in Nat /\ slots[s].age \in Nat
  BY BankTypes DEF BankInv, ShapeInv
<1>5. ShapeInv'
  BY <1>1, <1>2, <1>3 DEF BankInv, ShapeInv, Writing
<1>6. TimesInv'
  BY <1>1, <1>2, <1>3 DEF BankInv, TimesInv
<1>7. (NextInv /\ RoomInv /\ RecordsInv /\ SumsInv)'
  BY <1>1 DEF BankInv, NextInv, RoomInv, RecordsInv, SumsInv
<1>8. ActiveOf(slots') = ActiveOf(slots)
  BY <1>2 DEF ActiveOf
<1>9. \A s \in ActiveOf(slots) :
        /\ slots'[s].sum # {}
        /\ \A x \in slots'[s].sum : x[1] <= window
  <2>1. \A s \in ActiveOf(slots) : s \in DOMAIN slots
    BY DEF ActiveOf
  <2> QED BY <1>1, <1>2, <2>1 DEF BankInv, CamelotInv
<1>10. \A s, t \in ActiveOf(slots) :
         slots'[s].age >= slots'[t].age => slots'[s].wrote <= slots'[t].wrote
  <2> SUFFICES ASSUME NEW s \in ActiveOf(slots), NEW t \in ActiveOf(slots),
                      slots'[s].age >= slots'[t].age
               PROVE  slots'[s].wrote <= slots'[t].wrote
    OBVIOUS
  <2>1. s \in DOMAIN slots /\ t \in DOMAIN slots /\ slots[s].active /\ slots[t].active
    BY DEF ActiveOf
  <2>2. /\ slots'[s].wrote = slots[s].wrote /\ slots'[t].wrote = slots[t].wrote
        /\ s \in touched => slots'[s].age = 0 /\ slots[s].wrote = window
        /\ t \in touched => slots'[t].age = 0 /\ slots[t].wrote = window
        /\ s \notin touched => slots'[s].age = slots[s].age + 1
        /\ t \notin touched => slots'[t].age = slots[t].age + 1
        /\ slots[s].wrote <= window /\ slots[t].wrote <= window
    BY <1>2, <2>1 DEF BankInv, TimesInv
  <2>3. s \notin touched /\ t \notin touched /\ slots[s].age >= slots[t].age => slots[s].wrote <= slots[t].wrote
    BY <1>1 DEF BankInv, CamelotInv
  <2>4. /\ slots[s].wrote \in Nat /\ slots[t].wrote \in Nat
        /\ slots[s].age \in Nat /\ slots[t].age \in Nat
    BY <1>4, <2>1
  <2> QED BY <1>4, <2>2, <2>3, <2>4
<1>11. CamelotInv'
  BY <1>1, <1>8, <1>9, <1>10 DEF CamelotInv
<1>12. Held' = Held /\ WindowTokens' = WindowTokens /\ Waiting' = Waiting
  <2>1. Held' = UNION {slots'[s].sum : s \in ActiveOf(slots)}
    BY <1>1, <1>8 DEF Held
  <2>2. \A s \in ActiveOf(slots) : slots'[s].sum = slots[s].sum
    BY <1>2 DEF ActiveOf
  <2>3. Held = UNION {slots[s].sum : s \in ActiveOf(slots)}
    BY <1>1 DEF Held
  <2> QED BY <1>1, <2>1, <2>2, <2>3 DEF WindowTokens, Waiting, Token
<1>13. KeptInv'
  BY <1>1, <1>2, <1>12 DEF BankInv, KeptInv, AllSlotsWritten, AllRecordsWritten
<1> QED BY <1>5, <1>6, <1>7, <1>11, <1>13 DEF BankInv

\* A write of the record bank ends.
LEMMA BankRecordsFinish == ASSUME BankInv, RecordsFinish PROVE BankInv'
<1>1. /\ method = "vmf_records" /\ phase = "chunks" /\ next = <<>>
      /\ slots' = Aged(slots, touched) /\ entries' = Aged(entries, touchedRecords)
      /\ phase' = "idle" /\ touched' = {} /\ touchedRecords' = {}
      /\ UNCHANGED <<method, window, tokens, next>>
  BY DEF RecordsFinish, BankInv, ShapeInv
<1>2. /\ slots' \in Seq(SlotType) /\ Len(slots') = Len(slots) /\ DOMAIN slots' = DOMAIN slots
      /\ \A i \in DOMAIN slots :
           /\ slots'[i].active = slots[i].active /\ slots'[i].wrote = slots[i].wrote
           /\ slots'[i].count = slots[i].count
           /\ slots'[i].sum = slots[i].sum /\ slots'[i].basis = slots[i].basis
  BY <1>1, AgedSlots DEF BankInv, ShapeInv
<1>3. /\ entries' \in Seq(RecordType) /\ Len(entries') = Len(entries) /\ DOMAIN entries' = DOMAIN entries
      /\ \A i \in DOMAIN entries :
           /\ entries'[i].active = entries[i].active /\ entries'[i].wrote = entries[i].wrote
           /\ entries'[i].slot = entries[i].slot /\ entries'[i].token = entries[i].token
  BY <1>1, AgedRecords DEF BankInv, ShapeInv
<1>4. ShapeInv'
  BY <1>1, <1>2, <1>3 DEF BankInv, ShapeInv, Writing
<1>5. TimesInv'
  BY <1>1, <1>2, <1>3 DEF BankInv, TimesInv
<1>6. (NextInv /\ RoomInv /\ CamelotInv)'
  BY <1>1 DEF BankInv, NextInv, RoomInv, CamelotInv
<1>7. ActiveOf(entries') = ActiveOf(entries) /\ ActiveOf(entries) \subseteq DOMAIN entries
  BY <1>3 DEF ActiveOf
<1>8. RecordsInv'
  BY <1>1, <1>2, <1>3, <1>7 DEF BankInv, RecordsInv
<1>9. \A s : Mine(entries', s) = Mine(entries, s) /\ Mine(entries, s) \subseteq DOMAIN entries
  BY <1>3 DEF Mine
<1>10. \A R \in SUBSET DOMAIN entries : TokensIn(entries', R) = TokensIn(entries, R)
  BY <1>3 DEF TokensIn
<1>11. SumsInv'
  BY <1>1, <1>2, <1>9, <1>10 DEF BankInv, SumsInv, SumsUp
<1>12. Held' = Held /\ WindowTokens' = WindowTokens /\ Waiting' = Waiting
  <2>1. Held = TokensIn(entries, ActiveOf(entries)) /\ Held' = TokensIn(entries', ActiveOf(entries))
    BY <1>1, <1>7 DEF Held, TokensIn
  <2> QED BY <1>1, <1>7, <1>10, <2>1 DEF WindowTokens, Waiting, Token
<1>13. KeptInv'
  BY <1>1, <1>2, <1>3, <1>12 DEF BankInv, KeptInv, AllSlotsWritten, AllRecordsWritten
<1> QED BY <1>4, <1>5, <1>6, <1>8, <1>11, <1>13 DEF BankInv

\* Tables grow by blank entries.
LEMMA BankRecordsGrow == ASSUME BankInv, RecordsGrow PROVE BankInv'
<1>1. /\ method = "vmf_records" /\ phase = "attending"
      /\ slots' = Grown(slots, tokens, SlotCapacity, BlankSlot)
      /\ entries' = Grown(entries, tokens, RecordCapacity, BlankRecord)
      /\ next' = [i \in 1..tokens |-> Token(i)] /\ phase' = "chunks"
      /\ UNCHANGED <<method, window, tokens, touched, touchedRecords>>
      /\ touched = {} /\ touchedRecords = {}
  BY DEF RecordsGrow, BankInv, ShapeInv, Writing
<1>2. window \in Nat /\ tokens \in Nat
  BY DEF BankInv, ShapeInv
<1>3. BlankSlot \in SlotType /\ BlankRecord \in RecordType
  BY DEF BlankSlot, BlankRecord, SlotType, RecordType, Unrouted
<1>4. /\ slots' \in Seq(SlotType) /\ Len(slots') <= SlotCapacity
      /\ Len(slots') = Len(slots) + tokens \/ Len(slots') = SlotCapacity
      /\ \A i \in DOMAIN slots : i \in DOMAIN slots' /\ slots'[i] = slots[i]
      /\ \A i \in DOMAIN slots' : i \notin DOMAIN slots => slots'[i] = BlankSlot
  <2>1. slots \in Seq(SlotType) /\ SlotCapacity \in Nat /\ Len(slots) <= SlotCapacity
    BY BankLimits DEF BankInv, ShapeInv
  <2>2. Grows(slots', SlotType, slots, tokens, SlotCapacity, BlankSlot)
    BY <1>1, <1>2, <1>3, <2>1, GrownFacts
  <2> QED BY <2>2 DEF Grows
<1>5. /\ entries' \in Seq(RecordType) /\ Len(entries') <= RecordCapacity
      /\ Len(entries') = Len(entries) + tokens \/ Len(entries') = RecordCapacity
      /\ \A i \in DOMAIN entries : i \in DOMAIN entries' /\ entries'[i] = entries[i]
      /\ \A i \in DOMAIN entries' : i \notin DOMAIN entries => entries'[i] = BlankRecord
  <2>1. entries \in Seq(RecordType) /\ RecordCapacity \in Nat /\ Len(entries) <= RecordCapacity
    BY BankLimits DEF BankInv, ShapeInv
  <2>2. Grows(entries', RecordType, entries, tokens, RecordCapacity, BlankRecord)
    BY <1>1, <1>2, <1>3, <2>1, GrownFacts
  <2> QED BY <2>2 DEF Grows
<1>6. /\ next' \in Seq(TokenIds) /\ Len(next') = tokens /\ DOMAIN next' = 1..tokens
      /\ \A k \in 1..tokens : next'[k] = <<window, k>>
  BY <1>1, <1>2 DEF Token, TokenIds
<1>7. ShapeInv'
  BY <1>1, <1>2, <1>4, <1>5, <1>6 DEF BankInv, ShapeInv, Writing
<1>8. TimesInv'
  <2>1. BlankSlot.wrote = 0
    BY DEF BlankSlot
  <2> QED BY <1>1, <1>2, <1>4, <2>1 DEF BankInv, TimesInv
<1>9. NextInv'
  BY <1>1, <1>6 DEF NextInv
<1>10. RoomInv'
  <2>1. Len(slots) \in Nat /\ Len(entries) \in Nat
    BY BankTypes DEF BankInv
  <2> QED BY <1>2, <1>4, <1>5, <1>6, <2>1 DEF RoomInv
<1>11. ActiveOf(entries') = ActiveOf(entries) /\ ActiveOf(entries) \subseteq DOMAIN entries
  <2>1. BlankRecord.active = FALSE
    BY DEF BlankRecord
  <2> QED BY <1>5, <2>1 DEF ActiveOf
<1>12. RecordsInv'
  <2>1. \A r \in ActiveOf(entries) :
          /\ entries'[r] = entries[r]
          /\ entries[r].slot \in DOMAIN slots'
          /\ entries[r].token \in TokenIds /\ entries[r].token[1] < window
    BY <1>1, <1>4, <1>5, <1>11 DEF BankInv, RecordsInv
  <2>2. \A r \in ActiveOf(entries) : entries[r].token[1] \in Nat
    BY <2>1 DEF TokenIds
  <2>3. \A k \in DOMAIN next' : next'[k][1] = window
    BY <1>6
  <2>4. \A r, q \in ActiveOf(entries) : entries[r].token = entries[q].token => r = q
    BY <1>1 DEF BankInv, RecordsInv
  <2>5. \A r \in ActiveOf(entries) : entries[r].token[1] <= window /\ entries[r].token[1] # window
    BY <1>2, <2>1, <2>2
  <2>6. \A r \in ActiveOf(entries), k \in DOMAIN next' : entries[r].token # next'[k]
    BY <2>3, <2>5
  <2> QED BY <1>1, <1>11, <2>1, <2>4, <2>5, <2>6 DEF RecordsInv
<1>13. SumsInv'
  <2>1. \A s : Mine(entries', s) = Mine(entries, s)
    <3>1. \A s : Mine(entries', s) = {r \in ActiveOf(entries) : entries'[r].slot = s}
      BY <1>11 DEF Mine, ActiveOf
    <3> QED BY <1>5, <1>11, <3>1 DEF Mine, ActiveOf
  <2>2. \A s : Mine(entries, s) \subseteq DOMAIN entries
    BY DEF Mine
  <2>3. \A s : TokensIn(entries', Mine(entries, s)) = TokensIn(entries, Mine(entries, s))
    BY <1>5, <2>2 DEF TokensIn
  <2>4. \A s \in DOMAIN slots : SumsUp(slots'[s], entries', Mine(entries', s))
                                /\ (slots'[s].active => slots'[s].basis = slots'[s].sum)
    BY <1>1, <1>4, <2>1, <2>3 DEF BankInv, SumsInv, SumsUp
  <2>5. \A s \in DOMAIN slots' : s \notin DOMAIN slots =>
          SumsUp(slots'[s], entries', Mine(entries', s))
                                /\ (slots'[s].active => slots'[s].basis = slots'[s].sum)
    <3> SUFFICES ASSUME NEW s \in DOMAIN slots', s \notin DOMAIN slots
                 PROVE  SumsUp(BlankSlot, entries', Mine(entries', s)) /\ ~BlankSlot.active
      BY <1>4
    <3>1. Mine(entries', s) = {}
      BY <1>1, <2>1 DEF Mine, BankInv, RecordsInv, ActiveOf
    <3>2. BlankSlot.active = FALSE /\ BlankSlot.count = 0 /\ BlankSlot.sum = {}
      BY DEF BlankSlot
    <3> QED BY <3>1, <3>2, FS_EmptySet DEF SumsUp, TokensIn
  <2> QED BY <1>1, <2>4, <2>5 DEF SumsInv
<1>14. CamelotInv'
  BY <1>1 DEF CamelotInv
<1>15. KeptInv'
  <2>1. WindowTokens' \subseteq Waiting'
    BY <1>1, <1>6 DEF WindowTokens, Waiting, Token
  <2> QED BY <2>1 DEF KeptInv
<1> QED BY <1>7, <1>8, <1>9, <1>10, <1>12, <1>13, <1>14, <1>15 DEF BankInv

------------------------------------------------------------------------------
(* The turns of a Camelot write.                                            *)

\* The slot x with the tokens T averaged into it by the window w.
Merge(x, T, w) == [x EXCEPT !.count = @ + Cardinality(T), !.sum = @ \cup T, !.wrote = w]

\* It stays a slot, and keeps its age and its tokens.
LEMMA MergeFacts ==
  ASSUME NEW x \in SlotType, NEW T \in SUBSET TokenIds, IsFiniteSet(T), NEW w \in Nat
  PROVE  /\ Merge(x, T, w) \in SlotType
         /\ Merge(x, T, w).active = x.active /\ Merge(x, T, w).age = x.age
         /\ Merge(x, T, w).sum = x.sum \cup T /\ Merge(x, T, w).wrote = w
<1>1. Cardinality(T) \in Nat
  BY FS_CardinalityType
<1> DEFINE c == Cardinality(T)
<1>2. c \in Nat
  BY <1>1
<1>3. Merge(x, T, w) = [x EXCEPT !.count = @ + c, !.sum = @ \cup T, !.wrote = w]
  BY DEF Merge
<1> HIDE DEF c
<1>4. x.count + c \in Nat /\ x.sum \cup T \in SUBSET TokenIds
  BY <1>2 DEF SlotType
<1> QED BY <1>3, <1>4 DEF SlotType

\* Any tokens of a window are finitely many.
LEMMA TokensCounted ==
  ASSUME window \in Nat, tokens \in Nat, NEW I \in SUBSET (1..tokens)
  PROVE  IsFiniteSet({Token(i) : i \in I}) /\ {Token(i) : i \in I} \subseteq TokenIds
<1> DEFINE f == [i \in I |-> Token(i)]
           T == {Token(i) : i \in I}
<1>1. IsFiniteSet(I)
  <2>1. IsFiniteSet(1..tokens)
    BY FS_Interval
  <2> QED BY <2>1, FS_Subset
<1>2. f \in Surjection(I, T)
  BY DEF Surjection
<1>3. IsFiniteSet(T)
  <2> HIDE DEF f, T
  <2> QED BY <1>1, <1>2, FS_Surjection
<1> QED BY <1>3 DEF Token, TokenIds

\* Familiar tokens are merged, the novel ones wait in order; no slot loses a token.
LEMMA BankConsolidate ==
  ASSUME BankInv, CamelotConsolidate
  PROVE  BankInv' /\ \A s \in DOMAIN slots : slots[s].sum \subseteq slots'[s].sum
<1>1. /\ method = "camelot" /\ phase = "attending" /\ phase' = "placing"
      /\ UNCHANGED <<method, entries, window, tokens, touchedRecords>>
      /\ touched = {} /\ touchedRecords = {}
  <2>1. /\ method = "camelot" /\ phase = "attending" /\ phase' = "placing"
        /\ UNCHANGED <<method, entries, window, tokens, touchedRecords>>
    BY Zenon DEF CamelotConsolidate
  <2> QED BY <2>1 DEF BankInv, ShapeInv, Writing
<1>2. PICK choice \in [1..tokens -> {New} \cup ActiveOf(slots)], most \in 0..tokens :
       LET familiar == {i \in 1..tokens : choice[i] # New}
           novel == (1..tokens) \ familiar
           merged == {choice[i] : i \in familiar}
           updated == [s \in DOMAIN slots |->
                         IF s \in merged
                           THEN LET added == {Token(i) : i \in {j \in familiar : choice[j] = s}} IN
                                Merge(slots[s], added, window)
                           ELSE slots[s]]
           order == Sorted(novel, {p \in novel \X novel : p[1] < p[2]})
       IN /\ slots' = Grown(updated, most, SlotCapacity, BlankSlot)
          /\ touched' = merged
          /\ next' = [k \in DOMAIN order |-> Token(order[k])]
  BY Zenon DEF CamelotConsolidate, Merge
<1> DEFINE familiar == {i \in 1..tokens : choice[i] # New}
           novel == (1..tokens) \ familiar
           merged == {choice[i] : i \in familiar}
           added(s) == {Token(i) : i \in {j \in familiar : choice[j] = s}}
           updated == [s \in DOMAIN slots |->
                         IF s \in merged THEN Merge(slots[s], added(s), window) ELSE slots[s]]
           order == Sorted(novel, {p \in novel \X novel : p[1] < p[2]})
<1>3. /\ slots' = Grown(updated, most, SlotCapacity, BlankSlot)
      /\ touched' = merged
      /\ next' = [k \in DOMAIN order |-> Token(order[k])]
  BY <1>2
<1>4. choice \in [1..tokens -> {New} \cup ActiveOf(slots)] /\ most \in Nat
      /\ window \in Nat /\ tokens \in Nat
  BY <1>2 DEF BankInv, ShapeInv
<1>5. familiar \subseteq 1..tokens /\ novel \subseteq 1..tokens /\ familiar \cup novel = 1..tokens
  OBVIOUS
<1>6. merged \subseteq ActiveOf(slots) /\ ActiveOf(slots) \subseteq DOMAIN slots
  BY <1>4 DEF ActiveOf
<1>7. \A s : IsFiniteSet(added(s)) /\ added(s) \subseteq TokenIds /\ \A x \in added(s) : x[1] = window
  <2> TAKE s
  <2> DEFINE I == {j \in familiar : choice[j] = s}
  <2>1. I \subseteq 1..tokens
    OBVIOUS
  <2>2. IsFiniteSet({Token(i) : i \in I}) /\ {Token(i) : i \in I} \subseteq TokenIds
    <3> HIDE DEF I
    <3> QED BY <1>4, <2>1, TokensCounted
  <2> QED BY <2>2 DEF Token
<1>8. \A i \in familiar : choice[i] \in merged /\ Token(i) \in added(choice[i])
  OBVIOUS
<1> HIDE DEF familiar, novel, merged, added
<1>9. \A s \in DOMAIN slots :
        /\ slots[s] \in SlotType
        /\ slots[s].age \in Nat /\ slots[s].wrote \in Nat
  BY BankTypes DEF BankInv
<1>10. \A s \in DOMAIN slots :
         /\ Merge(slots[s], added(s), window) \in SlotType
         /\ Merge(slots[s], added(s), window).active = slots[s].active
         /\ Merge(slots[s], added(s), window).age = slots[s].age
         /\ Merge(slots[s], added(s), window).sum = slots[s].sum \cup added(s)
         /\ Merge(slots[s], added(s), window).wrote = window
  BY <1>4, <1>7, <1>9, MergeFacts
<1>11. /\ DOMAIN updated = DOMAIN slots
       /\ \A s \in DOMAIN slots :
            updated[s] = IF s \in merged THEN Merge(slots[s], added(s), window) ELSE slots[s]
  OBVIOUS
<1>12. updated \in Seq(SlotType) /\ Len(updated) = Len(slots)
  <2>1. slots \in Seq(SlotType) /\ DOMAIN slots = 1..Len(slots) /\ Len(slots) \in Nat
    BY BankTypes DEF BankInv, ShapeInv
  <2>2. updated \in [1..Len(slots) -> SlotType]
    BY <1>9, <1>10, <2>1
  <2> HIDE DEF updated
  <2> QED BY <2>1, <2>2
<1> HIDE DEF updated
<1>13. /\ slots' \in Seq(SlotType) /\ Len(slots') <= SlotCapacity
       /\ \A s \in DOMAIN slots : s \in DOMAIN slots' /\ slots'[s] = updated[s]
       /\ \A s \in DOMAIN slots' : s \notin DOMAIN slots => slots'[s] = BlankSlot
  <2>1. SlotCapacity \in Nat /\ Len(updated) <= SlotCapacity
    BY <1>12, BankLimits DEF BankInv, ShapeInv
  <2>2. BlankSlot \in SlotType
    BY DEF BlankSlot, SlotType
  <2>3. Grows(slots', SlotType, updated, most, SlotCapacity, BlankSlot)
    BY <1>3, <1>4, <1>12, <2>1, <2>2, GrownFacts
  <2> QED BY <1>11, <2>3 DEF Grows
<1>14. \A s \in DOMAIN slots :
         /\ slots'[s].active = slots[s].active /\ slots'[s].age = slots[s].age
         /\ s \in merged => slots'[s].sum = slots[s].sum \cup added(s) /\ slots'[s].wrote = window
         /\ s \notin merged => slots'[s] = slots[s]
  BY <1>10, <1>11, <1>13
<1>15. ~BlankSlot.active /\ BlankSlot.wrote = 0
  BY DEF BlankSlot
<1>16. ActiveOf(slots') = ActiveOf(slots)
  BY <1>13, <1>14, <1>15 DEF ActiveOf
<1> DEFINE n == Cardinality(novel)
<1>17. /\ n \in Nat /\ DOMAIN order = 1..n
       /\ \A k \in 1..n : order[k] \in novel
       /\ \A i \in novel : \E k \in 1..n : order[k] = i
       /\ \A k, l \in 1..n : k < l => order[k] # order[l]
  <2> DEFINE R == {p \in novel \X novel : p[1] < p[2]}
  <2>1. IsFiniteSet(1..tokens)
    BY <1>4, FS_Interval
  <2>2. IsFiniteSet(novel)
    BY <1>5, <2>1, FS_Subset
  <2>3. \A i \in novel : i \in Nat
    BY <1>4, <1>5
  <2>4. \A i, j \in novel : <<i, j>> \in R <=> i < j
    OBVIOUS
  <2> HIDE DEF R
  <2>5. Orders(R, novel)
    BY <2>3, <2>4 DEF Orders
  <2>6. Enumerates(Sorted(novel, R), novel, R)
    BY <2>2, <2>5, SortedEnumerates
  <2>7. Sorted(novel, R) = order
    BY DEF R
  <2> HIDE DEF order
  <2> QED BY <2>2, <2>6, <2>7, FS_CardinalityType DEF Enumerates
<1> HIDE DEF order, n
<1>18. /\ next' \in Seq(TokenIds) /\ DOMAIN next' = 1..n
       /\ \A k \in 1..n : next'[k] = <<window, order[k]>> /\ next'[k] = Token(order[k])
  <2>1. \A k \in 1..n : order[k] \in Nat
    BY <1>4, <1>5, <1>17
  <2>2. next' = [k \in 1..n |-> Token(order[k])]
    BY <1>3, <1>17
  <2>3. \A k \in 1..n : Token(order[k]) \in TokenIds /\ Token(order[k]) = <<window, order[k]>>
    BY <1>4, <2>1 DEF Token, TokenIds
  <2>4. next' \in [1..n -> TokenIds]
    BY <2>2, <2>3
  <2> QED BY <1>17, <2>2, <2>3, <2>4
<1>19. ShapeInv'
  BY <1>1, <1>3, <1>4, <1>6, <1>13, <1>18 DEF BankInv, ShapeInv, Writing
<1>20. TimesInv'
  BY <1>1, <1>3, <1>4, <1>6, <1>13, <1>14, <1>15 DEF BankInv, TimesInv
<1>21. NextInv'
  <2>1. \A k, l \in 1..n : k # l => order[k] # order[l]
    <3> TAKE k, l \in 1..n
    <3>1. k # l => k < l \/ l < k
      BY <1>17
    <3>2. (k < l => order[k] # order[l]) /\ (l < k => order[l] # order[k])
      BY <1>17
    <3> QED BY <3>1, <3>2
  <2> QED BY <1>1, <1>18, <2>1 DEF NextInv
<1>22. (RoomInv /\ RecordsInv /\ SumsInv)'
  BY <1>1 DEF RoomInv, RecordsInv, SumsInv
<1>23. \A s \in ActiveOf(slots) :
         /\ slots[s].sum # {} /\ slots[s].sum \subseteq TokenIds
         /\ \A x \in slots[s].sum : x[1] \in Nat /\ x[1] < window
  <2>1. \A s \in ActiveOf(slots) : slots[s].sum \subseteq TokenIds
    BY BankTypes DEF BankInv, ActiveOf
  <2> QED BY <1>1, <2>1 DEF BankInv, CamelotInv, TokenIds
<1>24. \A s \in ActiveOf(slots) :
         /\ slots'[s].sum # {}
         /\ \A x \in slots'[s].sum : x[1] <= window /\ (x[1] = window => s \in merged)
  <2> TAKE s \in ActiveOf(slots)
  <2>1. s \in DOMAIN slots
    BY <1>6
  <2>2. CASE s \in merged
    BY <1>4, <1>7, <1>14, <1>23, <2>1, <2>2
  <2>3. CASE s \notin merged
    BY <1>4, <1>14, <1>23, <2>1, <2>3
  <2> QED BY <2>2, <2>3
<1>25. \A s, t \in ActiveOf(slots) \ merged :
         slots'[s].age >= slots'[t].age => slots'[s].wrote <= slots'[t].wrote
  <2>1. \A s, t \in ActiveOf(slots) : slots[s].age >= slots[t].age => slots[s].wrote <= slots[t].wrote
    BY <1>1 DEF BankInv, CamelotInv
  <2> QED BY <1>6, <1>14, <2>1
<1>26. CamelotInv'
  BY <1>1, <1>3, <1>6, <1>14, <1>16, <1>24, <1>25 DEF CamelotInv, ActiveOf
<1>27. KeptInv'
  <2>1. Held' = UNION {slots'[s].sum : s \in ActiveOf(slots)}
    BY <1>1, <1>16 DEF Held
  <2>2. ASSUME NEW i \in 1..tokens PROVE Token(i) \in Waiting' \cup Held'
    <3>1. CASE i \in familiar
      <4>1. /\ choice[i] \in ActiveOf(slots) /\ choice[i] \in DOMAIN slots
            /\ Token(i) \in slots'[choice[i]].sum
        BY <1>6, <1>8, <1>14, <3>1
      <4> QED BY <2>1, <4>1
    <3>2. CASE i \in novel
      <4>1. PICK k \in 1..n : order[k] = i
        BY <1>17, <3>2
      <4>2. next'[k] = Token(i) /\ k \in DOMAIN next'
        BY <1>18, <4>1
      <4> QED BY <4>2 DEF Waiting
    <3> QED BY <1>5, <3>1, <3>2
  <2>3. WindowTokens' = {Token(i) : i \in 1..tokens}
    BY <1>1 DEF WindowTokens, Token
  <2> QED BY <2>2, <2>3 DEF KeptInv
<1>28. \A s \in DOMAIN slots : slots[s].sum \subseteq slots'[s].sum
  BY <1>14
<1> QED BY <1>19, <1>20, <1>21, <1>22, <1>26, <1>27, <1>28 DEF BankInv

\* A slot of its own for the token x in the window w.
Placed(x, w) ==
  [active |-> TRUE, age |-> 0, wrote |-> w, count |-> 1, sum |-> {x}, basis |-> {}]

\* A slot with one token.
LEMMA PlacedFacts ==
  ASSUME NEW x \in TokenIds, NEW w \in Nat
  PROVE  /\ Placed(x, w) \in SlotType /\ Placed(x, w).active /\ Placed(x, w).wrote = w
         /\ Placed(x, w).sum = {x}
BY DEF Placed, SlotType

\* How a turn of the loop over novel tokens fills the slots it takes.
LEMMA PlaceStep ==
  ASSUME BankInv, CamelotPlace
  PROVE  LET o == CamelotOrder(slots, touched)
             size == IF Len(next) < Len(o) THEN Len(next) ELSE Len(o)
             taken == {o[i] : i \in 1..size}
         IN /\ size \in Nat /\ size <= Len(next) /\ size <= Len(slots)
            /\ touched' = touched \cup taken /\ taken \subseteq DOMAIN slots
            /\ next' = SubSeq(next, size + 1, Len(next))
            /\ slots' \in Seq(SlotType) /\ Len(slots') = Len(slots) /\ DOMAIN slots' = DOMAIN slots
            /\ \A s \in DOMAIN slots : s \notin taken => slots'[s] = slots[s]
            /\ \A i \in 1..size :
                 /\ slots'[o[i]].active /\ slots'[o[i]].wrote = window
                 /\ slots'[o[i]].sum = {next[i]}
<1> DEFINE o == CamelotOrder(slots, touched)
           size == IF Len(next) < Len(o) THEN Len(next) ELSE Len(o)
           taken == {o[i] : i \in 1..size}
           placed == [s \in taken |-> next[CHOOSE i \in 1..size : o[i] = s]]
<1>1. /\ method = "camelot" /\ phase = "placing"
      /\ slots' = [s \in DOMAIN slots |->
                     IF s \in DOMAIN placed THEN Placed(placed[s], window) ELSE slots[s]]
      /\ touched' = touched \cup DOMAIN placed
      /\ next' = SubSeq(next, size + 1, Len(next))
  BY Zenon DEF CamelotPlace, Placed
<1>2. /\ DOMAIN slots = 1..Len(slots) /\ Len(slots) \in Nat
      /\ DOMAIN next = 1..Len(next) /\ Len(next) \in Nat
      /\ \A s \in DOMAIN slots : slots[s] \in SlotType
      /\ \A k \in DOMAIN next : next[k] \in TokenIds
      /\ Entries(slots) /\ window \in Nat
  BY BankTypes DEF BankInv, ShapeInv
<1>3. /\ o \in [1..Len(slots) -> DOMAIN slots] /\ Len(o) = Len(slots)
      /\ \A k, l \in 1..Len(slots) : k # l => o[k] # o[l]
  BY <1>2, CamelotFacts DEF Allocates
<1> HIDE DEF o
<1>4. size \in Nat /\ size <= Len(next) /\ size <= Len(slots)
  BY <1>2, <1>3
<1> HIDE DEF size
<1>5. taken \subseteq DOMAIN slots
  BY <1>2, <1>3, <1>4
<1>6. \A i \in 1..size : (CHOOSE j \in 1..size : o[j] = o[i]) = i
  <2> TAKE i \in 1..size
  <2>1. \A j \in 1..size : o[j] = o[i] => j = i
    BY <1>2, <1>3, <1>4
  <2> QED BY <2>1
<1>7. \A i \in 1..size : o[i] \in taken /\ placed[o[i]] = next[i]
  BY <1>6
<1>8. DOMAIN placed = taken
  OBVIOUS
<1> HIDE DEF placed, taken
<1>9. \A s \in taken : \E i \in 1..size : s = o[i]
  BY DEF taken
<1>10. \A s \in taken : placed[s] \in TokenIds
  <2> TAKE s \in taken
  <2>1. PICK i \in 1..size : s = o[i]
    BY <1>9
  <2>2. i \in DOMAIN next
    BY <1>2, <1>4
  <2> QED BY <1>2, <1>7, <2>1, <2>2
<1>11. \A s \in taken :
         /\ Placed(placed[s], window) \in SlotType /\ Placed(placed[s], window).active
         /\ Placed(placed[s], window).wrote = window /\ Placed(placed[s], window).sum = {placed[s]}
  BY <1>2, <1>10, PlacedFacts
<1>12. /\ DOMAIN slots' = DOMAIN slots
       /\ \A s \in DOMAIN slots : slots'[s] = IF s \in taken THEN Placed(placed[s], window) ELSE slots[s]
  BY <1>1, <1>8
<1>13. slots' \in [1..Len(slots) -> SlotType]
  BY <1>1, <1>2, <1>8, <1>11
<1>14. slots' \in Seq(SlotType) /\ Len(slots') = Len(slots)
  BY <1>2, <1>13
<1>15. \A i \in 1..size :
                 /\ slots'[o[i]].active /\ slots'[o[i]].wrote = window
                 /\ slots'[o[i]].sum = {next[i]}
  BY <1>5, <1>7, <1>11, <1>12
<1>16. \A s \in DOMAIN slots : s \notin taken => slots'[s] = slots[s]
  BY <1>12
<1> QED BY <1>1, <1>4, <1>5, <1>8, <1>12, <1>14, <1>15, <1>16 DEF o, size, taken

\* What is left of a sequence behind its first n elements.
LEMMA Behind ==
  ASSUME NEW T, NEW q \in Seq(T), NEW n \in Nat, n <= Len(q)
  PROVE  LET r == SubSeq(q, n + 1, Len(q))
         IN /\ r \in Seq(T) /\ Len(r) = Len(q) - n /\ DOMAIN r = 1..(Len(q) - n)
            /\ \A k \in 1..(Len(q) - n) : r[k] = q[k + n] /\ k + n \in DOMAIN q
<1> DEFINE m == Len(q)
           r == SubSeq(q, n + 1, m)
<1>1. m \in Nat /\ DOMAIN q = 1..m /\ \A i \in 1..m : q[i] \in T
  OBVIOUS
<1>2. n + 1 \in Int /\ m \in Int /\ \A i \in (n + 1)..m : q[i] \in T
  BY <1>1
<1>3. /\ r \in Seq(T) /\ Len(r) = IF n + 1 <= m THEN m - (n + 1) + 1 ELSE 0
      /\ \A i \in 1..(m - (n + 1) + 1) : r[i] = q[(n + 1) + i - 1]
  <2> HIDE DEF m
  <2> QED BY <1>2, SubSeqProperties
<1>4. DOMAIN r = 1..Len(r)
  BY <1>3
<1> HIDE DEF r, m
<1>5. m - (n + 1) + 1 = m - n /\ n <= m /\ m - n \in Nat
  BY <1>1 DEF m
<1>6. Len(r) = m - n
  BY <1>1, <1>3, <1>5
<1>7. \A k \in 1..(m - n) : r[k] = q[k + n] /\ k + n \in DOMAIN q
  <2> TAKE k \in 1..(m - n)
  <2>1. r[k] = q[(n + 1) + k - 1] /\ k \in Nat
    BY <1>3, <1>5
  <2>2. (n + 1) + k - 1 = k + n /\ k + n \in 1..m
    BY <1>1, <1>5, <2>1
  <2> QED BY <1>1, <2>1, <2>2
<1> QED BY <1>3, <1>4, <1>6, <1>7 DEF r, m

\* The first n elements of a sequence.
LEMMA InFront ==
  ASSUME NEW T, NEW q \in Seq(T), NEW n \in Nat, n <= Len(q)
  PROVE  LET r == SubSeq(q, 1, n)
         IN DOMAIN r = 1..n /\ \A i \in 1..n : r[i] = q[i] /\ i \in DOMAIN q
<1> DEFINE r == SubSeq(q, 1, n)
<1>1. \A i \in 1..n : q[i] \in T /\ i \in DOMAIN q
  OBVIOUS
<1>2. 1 \in Int /\ n \in Int
  OBVIOUS
<1>3. /\ r \in Seq(T) /\ Len(r) = IF 1 <= n THEN n - 1 + 1 ELSE 0
      /\ \A i \in 1..(n - 1 + 1) : r[i] = q[1 + i - 1]
  BY <1>1, <1>2, SubSeqProperties
<1> HIDE DEF r
<1>4. Len(r) = n /\ n - 1 + 1 = n
  BY <1>3
<1>5. DOMAIN r = 1..n
  BY <1>3, <1>4
<1>6. \A i \in 1..n : r[i] = q[1 + i - 1]
  BY <1>3, <1>4
<1>7. \A i \in 1..n : 1 + i - 1 = i
  OBVIOUS
<1> QED BY <1>1, <1>5, <1>6, <1>7 DEF r

\* Tokens are placed; what the write itself has placed is taken last.
LEMMA BankPlace == ASSUME BankInv, CamelotPlace PROVE BankInv'
<1> DEFINE o == CamelotOrder(slots, touched)
           size == IF Len(next) < Len(o) THEN Len(next) ELSE Len(o)
           taken == {o[i] : i \in 1..size}
<1>1. /\ method = "camelot" /\ phase = "placing"
      /\ UNCHANGED <<method, entries, phase, window, tokens, touchedRecords>>
  BY Zenon DEF CamelotPlace
<1>2. /\ size \in Nat /\ size <= Len(next) /\ size <= Len(slots)
      /\ touched' = touched \cup taken /\ taken \subseteq DOMAIN slots
      /\ next' = SubSeq(next, size + 1, Len(next))
      /\ slots' \in Seq(SlotType) /\ Len(slots') = Len(slots) /\ DOMAIN slots' = DOMAIN slots
      /\ \A s \in DOMAIN slots : s \notin taken => slots'[s] = slots[s]
      /\ \A i \in 1..size :
           /\ slots'[o[i]].active /\ slots'[o[i]].wrote = window
           /\ slots'[o[i]].sum = {next[i]}
  BY PlaceStep
<1>3. /\ DOMAIN slots = 1..Len(slots) /\ Len(slots) \in Nat
      /\ DOMAIN next = 1..Len(next) /\ Len(next) \in Nat
      /\ \A s \in DOMAIN slots : slots[s].active \in BOOLEAN
      /\ Entries(slots) /\ window \in Nat /\ tokens \in Nat
  BY BankTypes DEF BankInv, ShapeInv
<1>4. /\ \A i \in DOMAIN slots : \E k \in 1..Len(slots) : o[k] = i
      /\ \A k, l \in 1..Len(slots) : k < l /\ slots[o[k]].active /\ o[k] \in touched =>
           slots[o[l]].active /\ o[l] \in touched
  BY <1>3, CamelotFacts DEF Allocates
<1>5. \A s \in taken : \E i \in 1..size : s = o[i]
  OBVIOUS
<1>6. \A i \in 1..size : o[i] \in taken
  OBVIOUS
<1> HIDE DEF o, size, taken
<1>7. /\ next' \in Seq(TokenIds) /\ Len(next') = Len(next) - size /\ DOMAIN next' = 1..(Len(next) - size)
      /\ \A k \in 1..(Len(next) - size) : next'[k] = next[k + size] /\ k + size \in DOMAIN next
  <2>1. next \in Seq(TokenIds)
    BY DEF BankInv, ShapeInv
  <2>2. size \in Nat /\ size <= Len(next) /\ next' = SubSeq(next, size + 1, Len(next))
    BY <1>2
  <2> QED BY <2>1, <2>2, Behind
<1>8. \A s \in taken : slots'[s].active /\ slots'[s].wrote = window
  BY <1>2, <1>5
<1>9. ShapeInv'
  BY <1>1, <1>2, <1>7 DEF BankInv, ShapeInv, Writing
<1>10. \A s \in DOMAIN slots : slots'[s] = slots[s] \/ s \in taken
  BY <1>2
<1>11. TimesInv'
  <2>1. \A s \in DOMAIN slots : slots[s].wrote <= window /\ (s \in touched => slots[s].wrote = window)
    BY DEF BankInv, TimesInv
  <2>2. \A s \in DOMAIN slots' : slots'[s].wrote <= window
    BY <1>2, <1>3, <1>8, <1>10, <2>1
  <2>3. \A s \in touched' : slots'[s].wrote = window
    <3> TAKE s \in touched'
    <3>1. s \in DOMAIN slots
      BY <1>2 DEF BankInv, ShapeInv
    <3> QED BY <1>2, <1>8, <1>10, <2>1, <3>1
  <2>4. \A r \in touchedRecords : entries[r].wrote = window
    BY DEF BankInv, TimesInv
  <2> QED BY <1>1, <2>2, <2>3, <2>4 DEF TimesInv
<1>12. NextInv'
  <2>1. \A k, l \in DOMAIN next' : next'[k] = next'[l] => k = l
    <3> TAKE k, l \in DOMAIN next'
    <3>1. k \in 1..(Len(next) - size) /\ l \in 1..(Len(next) - size)
      BY <1>7
    <3>2. /\ next'[k] = next[k + size] /\ k + size \in DOMAIN next
          /\ next'[l] = next[l + size] /\ l + size \in DOMAIN next
      BY <1>7, <3>1
    <3>3. next[k + size] = next[l + size] => k + size = l + size
      BY <3>2 DEF BankInv, NextInv
    <3>4. k \in Int /\ l \in Int /\ size \in Int
      BY <1>2, <1>3, <3>1
    <3>5. k + size = l + size => k = l
      BY <3>4
    <3> QED BY <3>2, <3>3, <3>5, Zenon
  <2>2. \A k \in DOMAIN next' : next'[k][1] = window
    BY <1>7 DEF BankInv, NextInv
  <2> QED BY <1>1, <2>1, <2>2 DEF NextInv
<1>13. (RoomInv /\ RecordsInv /\ SumsInv)'
  BY <1>1 DEF RoomInv, RecordsInv, SumsInv
<1>14. \A s \in DOMAIN slots : s \in touched => slots[s].active
  BY <1>1 DEF BankInv, CamelotInv
<1>15. CamelotInv'
  <2>1. ASSUME NEW s \in ActiveOf(slots')
        PROVE  /\ slots'[s].sum # {}
               /\ \A x \in slots'[s].sum : x[1] <= window /\ (x[1] = window => s \in touched')
    <3>0. s \in DOMAIN slots
      BY <1>2 DEF ActiveOf
    <3>1. CASE s \in taken
      <4>1. PICK i \in 1..size : s = o[i]
        BY <1>5, <3>1
      <4>2. slots'[s].sum = {next[i]} /\ i \in DOMAIN next
        <5>1. slots'[s].sum = {next[i]}
          BY <1>2, <4>1
        <5>2. i \in 1..Len(next)
          <6>1. i \in 1..size /\ size \in Nat /\ size <= Len(next) /\ Len(next) \in Nat
            BY <1>2, <1>3, <4>1
          <6> QED BY <6>1
        <5> QED BY <1>3, <5>1, <5>2
      <4>3. next[i][1] = window
        BY <4>2 DEF BankInv, NextInv
      <4> QED BY <1>2, <1>3, <3>1, <4>2, <4>3
    <3>2. CASE s \notin taken
      <4>1. slots'[s] = slots[s] /\ s \in ActiveOf(slots)
        BY <1>2, <3>0, <3>2 DEF ActiveOf
      <4> QED BY <1>1, <1>2, <4>1 DEF BankInv, CamelotInv
    <3> QED BY <3>1, <3>2
  <2>2. \A s \in touched' : slots'[s].active
    <3> TAKE s \in touched'
    <3>1. s \in DOMAIN slots
      BY <1>2 DEF BankInv, ShapeInv
    <3> QED BY <1>2, <1>8, <1>10, <1>14, <3>1
  <2>3. ASSUME NEW s \in ActiveOf(slots') \ touched', NEW t \in ActiveOf(slots') \ touched'
        PROVE  slots'[s].age >= slots'[t].age => slots'[s].wrote <= slots'[t].wrote
    <3>1. /\ s \in ActiveOf(slots) /\ slots'[s] = slots[s] /\ s \notin touched
          /\ t \in ActiveOf(slots) /\ slots'[t] = slots[t] /\ t \notin touched
      BY <1>2, <1>10 DEF ActiveOf
    <3> QED BY <1>1, <3>1 DEF BankInv, CamelotInv
  <2> QED BY <1>1, <2>1, <2>2, <2>3 DEF CamelotInv
\* When a slot is taken that the write has touched, everything is taken or touched.
<1>16. ASSUME NEW k \in 1..size, o[k] \in touched
       PROVE  AllSlotsWritten'
  <2>1. k \in 1..Len(slots) /\ k \in Nat
    BY <1>2, <1>3
  <2>2. o[k] \in DOMAIN slots /\ slots[o[k]].active
    BY <1>2, <1>6, <1>14, <1>16
  <2>3. ASSUME NEW s \in DOMAIN slots' PROVE slots'[s].wrote = window
    <3>1. PICK l \in 1..Len(slots) : o[l] = s
      BY <1>2, <1>4, <2>3
    <3>2. CASE l \in 1..size
      BY <1>6, <1>8, <3>1, <3>2
    <3>3. CASE ~(l \in 1..size)
      <4>1. k < l
        BY <1>2, <1>3, <2>1, <3>3
      <4>2. o[l] \in touched
        BY <1>4, <1>16, <2>1, <2>2, <4>1
      <4>3. s \in touched'
        BY <1>2, <3>1, <4>2
      <4> QED BY <1>1, <1>11, <4>3 DEF TimesInv
    <3> QED BY <3>2, <3>3
  <2> QED BY <1>1, <2>3 DEF AllSlotsWritten
<1>17. KeptInv'
  <2>1. CASE \E k \in 1..size : o[k] \in touched
    BY <1>16, <2>1 DEF KeptInv
  <2>2. CASE AllSlotsWritten
    <3>1. AllSlotsWritten'
      BY <1>1, <1>2, <1>8, <1>10, <2>2 DEF AllSlotsWritten
    <3> QED BY <3>1 DEF KeptInv
  <2>3. CASE (\A k \in 1..size : o[k] \notin touched) /\ ~AllSlotsWritten
    <3>1. WindowTokens \subseteq Waiting \cup Held /\ WindowTokens' = WindowTokens
      BY <1>1, <2>3 DEF BankInv, KeptInv, AllRecordsWritten, WindowTokens, Token
    <3>2. ASSUME NEW k \in DOMAIN next PROVE next[k] \in Waiting' \cup Held'
      <4>1. CASE k <= size
        <5>1. k \in 1..size
          BY <1>2, <1>3, <4>1
        <5>2. o[k] \in ActiveOf(slots') /\ next[k] \in slots'[o[k]].sum
          BY <1>2, <1>6, <5>1 DEF ActiveOf
        <5> QED BY <1>1, <5>2 DEF Held
      <4>2. CASE ~(k <= size)
        <5>1. k - size \in 1..(Len(next) - size) /\ (k - size) + size = k
          BY <1>2, <1>3, <4>2
        <5>2. k - size \in DOMAIN next' /\ next'[k - size] = next[k]
          BY <1>7, <5>1
        <5> QED BY <5>2 DEF Waiting
      <4> QED BY <4>1, <4>2
    <3>3. ASSUME NEW x \in Held, x \in WindowTokens PROVE x \in Held'
      <4>1. PICK s \in ActiveOf(slots) : x \in slots[s].sum
        BY <1>1 DEF Held
      <4>2. x[1] = window
        BY <3>3 DEF WindowTokens, Token
      <4>3. s \in touched /\ s \in DOMAIN slots /\ slots[s].active
        BY <1>1, <4>1, <4>2 DEF BankInv, CamelotInv, ActiveOf
      <4>4. s \notin taken
        BY <1>5, <2>3, <4>3
      <4>5. slots'[s] = slots[s] /\ s \in ActiveOf(slots')
        BY <1>2, <4>3, <4>4 DEF ActiveOf
      <4> QED BY <1>1, <4>1, <4>5 DEF Held
    <3>4. \A x \in Waiting : x \in Waiting' \cup Held'
      BY <3>2 DEF Waiting
    <3>5. WindowTokens' \subseteq Waiting' \cup Held'
      BY <3>1, <3>3, <3>4
    <3> QED BY <3>5 DEF KeptInv
  <2> QED BY <2>1, <2>2, <2>3
<1> QED BY <1>9, <1>11, <1>12, <1>13, <1>15, <1>17 DEF BankInv

\* Of two slots a Camelot write takes the one that was used longer ago.
LEMMA OldestTaken ==
  ASSUME BankInv, CamelotPlace, NEW s \in DOMAIN slots, NEW t \in DOMAIN slots,
         slots[s].active, slots[t].active, slots'[t] = slots[t], slots[s].sum \cap slots'[s].sum = {}
  PROVE  slots[s].wrote <= slots[t].wrote
<1> DEFINE o == CamelotOrder(slots, touched)
           size == IF Len(next) < Len(o) THEN Len(next) ELSE Len(o)
           taken == {o[i] : i \in 1..size}
<1>1. /\ size \in Nat /\ size <= Len(slots)
      /\ \A u \in DOMAIN slots : u \notin taken => slots'[u] = slots[u]
      /\ \A i \in 1..size : slots'[o[i]].wrote = window
  BY PlaceStep
<1>2. /\ DOMAIN slots = 1..Len(slots) /\ Len(slots) \in Nat /\ Entries(slots) /\ window \in Nat
      /\ slots[s].wrote \in Nat /\ slots[t].wrote \in Nat /\ slots[s].age \in Nat /\ slots[t].age \in Nat
  BY BankTypes DEF BankInv, ShapeInv
<1>3. /\ \A i \in DOMAIN slots : \E k \in 1..Len(slots) : o[k] = i
      /\ \A k, l \in 1..Len(slots) : k < l /\ slots[o[k]].active /\ o[k] \in touched =>
           slots[o[l]].active /\ o[l] \in touched
      /\ \A k, l \in 1..Len(slots) :
           k < l /\ slots[o[k]].active /\ o[k] \notin touched /\ slots[o[l]].active /\ o[l] \notin touched =>
             slots[o[k]].age >= slots[o[l]].age
  <2>1. Allocates(o, slots, touched)
    BY <1>2, CamelotFacts
  <2> HIDE DEF o
  <2> QED BY <2>1, Zenon DEF Allocates
<1>4. \A u \in taken : \E i \in 1..size : u = o[i]
  OBVIOUS
<1>5. \A i \in 1..size : o[i] \in taken
  OBVIOUS
<1> HIDE DEF o, size, taken
<1>6. method = "camelot" /\ phase = "placing"
  BY Zenon DEF CamelotPlace
<1>7. /\ slots[s].sum # {} /\ s \in ActiveOf(slots) /\ t \in ActiveOf(slots)
      /\ slots[s].wrote <= window /\ slots[t].wrote <= window
      /\ t \in touched => slots[t].wrote = window
      /\ s \notin touched /\ t \notin touched /\ slots[s].age >= slots[t].age => slots[s].wrote <= slots[t].wrote
  BY <1>6 DEF BankInv, CamelotInv, TimesInv, ActiveOf
<1>8. s \in taken
  BY <1>1, <1>7
<1>9. PICK k \in 1..size : s = o[k]
  BY <1>4, <1>8
<1>10. CASE t \in taken
  <2>1. slots'[t].wrote = window
    BY <1>1, <1>4, <1>10
  <2> QED BY <1>7, <2>1
<1>11. CASE t \notin taken
  <2>1. PICK l \in 1..Len(slots) : t = o[l]
    BY <1>3
  <2>2. k \in 1..Len(slots) /\ k < l
    <3>1. ~(l \in 1..size)
      BY <1>5, <1>11, <2>1
    <3> QED BY <1>1, <1>2, <3>1
  <2>3. s \in touched => t \in touched
    BY <1>3, <1>9, <2>1, <2>2
  <2>4. s \notin touched /\ t \notin touched => slots[s].age >= slots[t].age
    BY <1>3, <1>9, <2>1, <2>2
  <2> QED BY <1>7, <2>3, <2>4
<1> QED BY <1>10, <1>11

------------------------------------------------------------------------------
(* A chunk of a write of the record bank.                                   *)

\* What the chunk does to a slot: it is cleared when it is given away, loses n records
\* with the tokens T, gets n records with the tokens T in the window w, and is refreshed.
ClearedSlot(x) == [x EXCEPT !.active = FALSE, !.count = 0, !.sum = {}]
LessSlot(x, n, T) ==
  LET count == x.count - n IN
  IF count <= 0 THEN ClearedSlot(x) ELSE [x EXCEPT !.count = count, !.sum = @ \ T]
MoreSlot(x, n, T, w) ==
  [x EXCEPT !.active = TRUE, !.count = @ + n, !.wrote = w, !.sum = @ \cup T]
FreshBasis(x) == [x EXCEPT !.basis = x.sum]

\* Each leaves a slot, the other fields as they are.
LEMMA ClearedSlotFacts ==
  ASSUME NEW x \in SlotType
  PROVE  /\ ClearedSlot(x) \in SlotType /\ ClearedSlot(x).active = FALSE
         /\ ClearedSlot(x).count = 0 /\ ClearedSlot(x).sum = {}
         /\ ClearedSlot(x).wrote = x.wrote /\ ClearedSlot(x).basis = x.basis
BY DEF ClearedSlot, SlotType

Fuller(y, x, n, T, w) ==
  /\ y \in SlotType /\ y.active = TRUE /\ y.count = x.count + n
  /\ y.sum = x.sum \cup T /\ y.wrote = w /\ y.basis = x.basis

LEMMA MoreSlotFacts ==
  ASSUME NEW x \in SlotType, NEW n \in Nat, NEW T \in SUBSET TokenIds, NEW w \in Nat
  PROVE  Fuller(MoreSlot(x, n, T, w), x, n, T, w)
<1> DEFINE c == x.count + n
           Q == x.sum \cup T
<1>1. c \in Nat /\ Q \in SUBSET TokenIds
  BY DEF SlotType
<1>2. MoreSlot(x, n, T, w) = [x EXCEPT !.active = TRUE, !.count = c, !.wrote = w, !.sum = Q]
  BY DEF MoreSlot
<1> HIDE DEF c, Q
<1>3. LET y == MoreSlot(x, n, T, w)
      IN /\ y \in SlotType /\ y.active = TRUE /\ y.count = c
         /\ y.sum = Q /\ y.wrote = w /\ y.basis = x.basis
  BY <1>1, <1>2 DEF SlotType
<1> QED BY <1>3 DEF c, Q, Fuller

LEMMA FreshBasisFacts ==
  ASSUME NEW x \in SlotType
  PROVE  LET y == FreshBasis(x)
         IN /\ y \in SlotType /\ y.active = x.active /\ y.count = x.count
            /\ y.sum = x.sum /\ y.wrote = x.wrote /\ y.basis = x.sum
BY DEF FreshBasis, SlotType

\* A slot that sums the records R of es, without those of L.
OneEach(es, R) == \A r, q \in R : es[r].token = es[q].token => r = q
Emptier(y, x, es, R) ==
  y \in SlotType /\ SumsUp(y, es, R) /\ y.wrote = x.wrote /\ y.basis = x.basis

LEMMA LessSlotFacts ==
  ASSUME NEW x \in SlotType, NEW es, NEW R, NEW L \in SUBSET R, IsFiniteSet(R), SumsUp(x, es, R),
         OneEach(es, R)
  PROVE  Emptier(LessSlot(x, Cardinality(L), TokensIn(es, L)), x, es, R \ L)
<1> DEFINE n == Cardinality(L)
           T == TokensIn(es, L)
           y == LessSlot(x, n, T)
<1>1. /\ IsFiniteSet(L) /\ n \in Nat /\ Cardinality(R) \in Nat
      /\ IsFiniteSet(R \ L) /\ Cardinality(R \ L) = Cardinality(R) - n
  <2>1. IsFiniteSet(L) /\ R \cap L = L
    BY FS_Subset
  <2> QED BY <2>1, FS_CardinalityType, FS_Difference
<1>2. x.count = Cardinality(R) /\ x.sum = TokensIn(es, R)
  BY DEF SumsUp
<1>3. TokensIn(es, R) \ T = TokensIn(es, R \ L)
  BY DEF TokensIn, OneEach
<1>4. R \ L = {} <=> Cardinality(R \ L) = 0
  BY <1>1, FS_EmptySet
<1> HIDE DEF n, T
<1>5. CASE x.count - n <= 0
  <2>1. y = ClearedSlot(x)
    BY <1>5 DEF LessSlot
  <2>2. R \ L = {}
    <3>1. Cardinality(R \ L) \in Nat
      BY <1>1, FS_CardinalityType
    <3> QED BY <1>1, <1>2, <1>4, <1>5, <3>1
  <2>3. /\ ClearedSlot(x) \in SlotType /\ ClearedSlot(x).active = FALSE
        /\ ClearedSlot(x).count = 0 /\ ClearedSlot(x).sum = {}
        /\ ClearedSlot(x).wrote = x.wrote /\ ClearedSlot(x).basis = x.basis
    BY ClearedSlotFacts
  <2>4. Cardinality({}) = 0 /\ TokensIn(es, {}) = {}
    BY FS_EmptySet DEF TokensIn
  <2> HIDE DEF y
  <2> QED BY <2>1, <2>2, <2>3, <2>4 DEF SumsUp, Emptier, y, n, T
<1>6. CASE ~(x.count - n <= 0)
  <2> DEFINE c == x.count - n
             Q == x.sum \ T
  <2>1. y = [x EXCEPT !.count = c, !.sum = Q]
    BY <1>6 DEF LessSlot
  <2>2. c \in Nat /\ c # 0 /\ Q \in SUBSET TokenIds
    BY <1>1, <1>2, <1>6 DEF SlotType
  <2>3. c = Cardinality(R \ L) /\ Q = TokensIn(es, R \ L) /\ R # {} /\ R \ L # {}
    BY <1>1, <1>2, <1>3, <1>4, <2>2
  <2> HIDE DEF c, Q, y
  <2>4. /\ y \in SlotType /\ y.active = x.active /\ y.count = c /\ y.sum = Q
        /\ y.wrote = x.wrote /\ y.basis = x.basis
    BY <2>1, <2>2 DEF SlotType
  <2>5. x.active <=> R # {}
    BY DEF SumsUp
  <2>6. SumsUp(y, es, R \ L)
    BY <2>3, <2>4, <2>5, Zenon DEF SumsUp
  <2> QED BY <2>4, <2>6 DEF y, n, T, Emptier
<1> QED BY <1>5, <1>6

\* A slot that sums the records R of es, with those of M, which are not of R.
LEMMA MoreSlotSums ==
  ASSUME NEW x \in SlotType, NEW es, NEW R, NEW M, IsFiniteSet(R), IsFiniteSet(M), R \cap M = {},
         M # {}, SumsUp(x, es, R), NEW w, NEW y \in SlotType,
         y.active = TRUE, y.count = x.count + Cardinality(M), y.sum = x.sum \cup TokensIn(es, M)
  PROVE  SumsUp(y, es, R \cup M)
<1>1. Cardinality(R \cup M) = Cardinality(R) + Cardinality(M)
  <2>1. /\ Cardinality(R \cup M) = Cardinality(R) + Cardinality(M) - Cardinality(R \cap M)
        /\ Cardinality(R) \in Nat /\ Cardinality(M) \in Nat /\ Cardinality(R \cap M) = 0
    BY FS_Union, FS_CardinalityType, FS_EmptySet
  <2> QED BY <2>1
<1>2. TokensIn(es, R \cup M) = TokensIn(es, R) \cup TokensIn(es, M)
  BY DEF TokensIn
<1> QED BY <1>1, <1>2 DEF SumsUp

\* The tokens of a chunk that ask for a slot of their own.
Asking(choice, size) == {i \in 1..size : choice[i] = New}

\* They are given the first slots of the allocation order, every token has a slot.
LEMMA SelectedFacts ==
  ASSUME BankInv, NEW size \in Nat, size <= Len(slots), NEW choice \in ChoicesOf(size)
  PROVE  LET o == AllocationOrder(slots, touched)
             selected == Selected(choice)
         IN /\ selected \in [1..size -> DOMAIN slots]
            /\ \E m \in 0..Len(slots) : Fresh(choice, selected) = {o[k] : k \in 1..m}
<1> DEFINE o == AllocationOrder(slots, touched)
           N == Asking(choice, size)
           upTo == [i \in 1..size |-> {j \in 1..i : choice[j] = New}]
           rank == [i \in N |-> Cardinality(upTo[i])]
           selected == Selected(choice)
           m == Cardinality(N)
<1>1. /\ Len(slots) \in Nat /\ DOMAIN slots = 1..Len(slots)
      /\ choice \in [1..size -> {New} \cup ActiveOf(slots)] /\ DOMAIN choice = 1..size
  BY BankTypes DEF BankInv, ChoicesOf
<1>2. o \in [1..Len(slots) -> DOMAIN slots]
  <2>1. Allocates(o, slots, touched)
    BY BankTypes, AllocationFacts DEF BankInv
  <2> HIDE DEF o
  <2> QED BY <2>1, Zenon DEF Allocates
<1>3. N \subseteq 1..size
  BY DEF Asking
<1>4. IsFiniteSet(N) /\ m \in Nat /\ m <= size
  <2>1. IsFiniteSet(1..size) /\ Cardinality(1..size) = size
    BY FS_Interval
  <2>2. IsFiniteSet(N) /\ Cardinality(N) <= Cardinality(1..size)
    BY <1>3, <2>1, FS_Subset
  <2> HIDE DEF N
  <2> QED BY <2>1, <2>2, FS_CardinalityType
<1>5. \A i \in 1..size : upTo[i] = {j \in N : j <= i}
  <2> TAKE i \in 1..size
  <2>1. \A j \in 1..i : j \in 1..size /\ j <= i
    OBVIOUS
  <2>2. \A j \in 1..size : j <= i => j \in 1..i
    OBVIOUS
  <2> QED BY <2>1, <2>2 DEF Asking
<1>6. selected = [i \in 1..size |-> IF choice[i] = New THEN o[Cardinality(upTo[i])] ELSE choice[i]]
  BY <1>1 DEF Selected
<1>7. \A i \in N : i \in upTo[i] /\ upTo[i] \subseteq N /\ i \in Nat /\ i \in 1..size
  BY <1>3, <1>5
<1>8. \A i, j \in N : i < j => upTo[i] \subseteq upTo[j] /\ j \notin upTo[i]
  BY <1>3, <1>5
<1> HIDE DEF upTo, N, o
<1>9. \A i \in N : /\ IsFiniteSet(upTo[i]) /\ rank[i] = Cardinality(upTo[i])
                  /\ rank[i] \in Nat /\ rank[i] # 0 /\ rank[i] <= m
  <2> TAKE i \in N
  <2>1. IsFiniteSet(upTo[i]) /\ Cardinality(upTo[i]) <= m /\ upTo[i] # {}
    BY <1>4, <1>7, FS_Subset
  <2> QED BY <2>1, FS_CardinalityType, FS_EmptySet
<1> HIDE DEF rank, m
<1>10. \A i, j \in N : i < j => rank[i] < rank[j]
  <2> SUFFICES ASSUME NEW i \in N, NEW j \in N, i < j PROVE rank[i] < rank[j]
    OBVIOUS
  <2>1. upTo[i] \subseteq upTo[j] /\ upTo[i] # upTo[j] /\ IsFiniteSet(upTo[j])
    BY <1>7, <1>8, <1>9
  <2>2. Cardinality(upTo[i]) <= Cardinality(upTo[j]) /\ Cardinality(upTo[i]) # Cardinality(upTo[j])
    BY <2>1, FS_Subset
  <2> QED BY <1>9, <2>2
<1>11. rank \in Injection(N, 1..m)
  <2>1. rank \in [N -> 1..m]
    BY <1>4, <1>9 DEF rank
  <2>2. \A i, j \in N : rank[i] = rank[j] => i = j
    <3> TAKE i, j \in N
    <3>1. i \in Nat /\ j \in Nat /\ rank[i] \in Nat /\ rank[j] \in Nat
      BY <1>7, <1>9
    <3>2. (i < j => rank[i] < rank[j]) /\ (j < i => rank[j] < rank[i])
      BY <1>10
    <3> QED BY <3>1, <3>2
  <2> QED BY <2>1, <2>2 DEF Injection, IsInjective
<1>12. \A k \in 1..m : \E i \in N : rank[i] = k
  <2>1. IsFiniteSet(1..m) /\ Cardinality(1..m) = m
    BY <1>4, FS_Interval
  <2>2. rank \in Surjection(N, 1..m)
    BY <1>4, <1>11, <2>1, FS_Injection DEF m
  <2> QED BY <2>2 DEF Surjection
<1>13. \A i \in N : rank[i] \in 1..m /\ rank[i] \in 1..Len(slots)
  BY <1>1, <1>4, <1>9
<1>14. \A i \in 1..size : i \in N <=> choice[i] = New
  BY DEF N, Asking
<1>15. /\ DOMAIN selected = 1..size
       /\ \A i \in N : selected[i] = o[rank[i]]
       /\ \A i \in 1..size : i \notin N => selected[i] = choice[i]
  BY <1>6, <1>7, <1>9, <1>14
<1>16. \A i \in 1..size : selected[i] \in DOMAIN slots
  <2> TAKE i \in 1..size
  <2>1. CASE i \in N
    BY <1>2, <1>13, <1>15, <2>1
  <2>2. CASE i \notin N
    BY <1>1, <1>14, <1>15, <2>2 DEF ActiveOf
  <2> QED BY <2>1, <2>2
<1>17. selected \in [1..size -> DOMAIN slots]
  BY <1>6, <1>16
<1>18. Fresh(choice, selected) = {selected[i] : i \in N}
  BY <1>1, Zenon DEF Fresh, N, Asking
<1>19. {selected[i] : i \in N} = {o[k] : k \in 1..m}
  <2>1. \A i \in N : selected[i] = o[rank[i]] /\ rank[i] \in 1..m
    BY <1>13, <1>15
  <2> HIDE DEF selected
  <2> QED BY <1>12, <2>1
<1>20. m \in 0..Len(slots)
  BY <1>1, <1>4
<1> QED BY <1>17, <1>18, <1>19, <1>20 DEF o

\* A record that is evicted.
Dropped(x) == [x EXCEPT !.active = FALSE, !.slot = Unrouted]

LEMMA DroppedFacts ==
  ASSUME NEW x \in RecordType
  PROVE  Dropped(x) \in RecordType /\ Dropped(x).active = FALSE /\ Dropped(x).wrote = x.wrote
BY DEF Dropped, RecordType, Unrouted

\* The records that stay active are as they were; the others have no slot.
LEMMA EvictedFacts ==
  ASSUME BankInv, NEW fresh
  PROVE  LET kept == MembersEvicted(fresh)
         IN /\ kept \in Seq(RecordType) /\ Len(kept) = Len(entries) /\ DOMAIN kept = DOMAIN entries
            /\ Entries(kept)
            /\ \A r \in DOMAIN entries :
                 /\ kept[r].active <=> entries[r].active /\ entries[r].slot \notin fresh
                 /\ kept[r].active => kept[r] = entries[r]
                 /\ kept[r].wrote = entries[r].wrote
<1> DEFINE away(r) == entries[r].active /\ entries[r].slot \in fresh
           kept == MembersEvicted(fresh)
<1>1. /\ DOMAIN entries = 1..Len(entries) /\ Len(entries) \in Nat
      /\ \A r \in DOMAIN entries : entries[r] \in RecordType
  BY BankTypes DEF BankInv
<1>2. \A x \in RecordType : /\ Dropped(x) \in RecordType /\ Dropped(x).active = FALSE
                            /\ Dropped(x).wrote = x.wrote
  BY DroppedFacts
<1>3. kept = [r \in DOMAIN entries |-> IF away(r) THEN Dropped(entries[r]) ELSE entries[r]]
  BY Zenon DEF MembersEvicted, Dropped
<1> HIDE DEF kept
<1>4. DOMAIN kept = DOMAIN entries
      /\ \A r \in DOMAIN entries : kept[r] = IF away(r) THEN Dropped(entries[r]) ELSE entries[r]
  BY <1>3
<1>5. \A r \in DOMAIN entries : kept[r] \in RecordType
  BY <1>1, <1>2, <1>4
<1>6. kept \in [1..Len(entries) -> RecordType]
  BY <1>1, <1>3, <1>5
<1>7. kept \in Seq(RecordType) /\ Len(kept) = Len(entries)
  BY <1>1, <1>6
<1>8. \A r \in DOMAIN entries :
        /\ kept[r].active <=> entries[r].active /\ entries[r].slot \notin fresh
        /\ kept[r].active => kept[r] = entries[r]
        /\ kept[r].wrote = entries[r].wrote
  <2> TAKE r \in DOMAIN entries
  <2>1. entries[r].active \in BOOLEAN
    BY <1>1 DEF RecordType
  <2>2. CASE away(r)
    <3>1. kept[r] = Dropped(entries[r]) /\ entries[r] \in RecordType
      BY <1>1, <1>4, <2>2
    <3>2. kept[r].active = FALSE /\ kept[r].wrote = entries[r].wrote
      BY <1>2, <3>1
    <3> QED BY <2>2, <3>2
  <2>3. CASE ~away(r)
    <3>1. kept[r] = entries[r]
      BY <1>4, <2>3
    <3> QED BY <2>1, <2>3, <3>1
  <2> QED BY <2>2, <2>3
<1>9. Entries(kept)
  <2>1. \A r \in DOMAIN kept : kept[r].active \in BOOLEAN /\ kept[r].age \in Nat
    BY <1>4, <1>5 DEF RecordType
  <2> QED BY <1>1, <1>4, <1>7, <2>1 DEF Entries
<1> QED BY <1>4, <1>7, <1>8, <1>9 DEF kept

\* The record of the token x in the slot s.
Recorded(x, s, age, w) ==
  [active |-> TRUE, age |-> age, wrote |-> w, slot |-> s, token |-> x]

RecordOf(y, x, s, w) ==
  /\ y \in RecordType /\ y.active = TRUE /\ y.slot = s /\ y.token = x /\ y.wrote = w

LEMMA RecordedFacts ==
  ASSUME NEW x \in TokenIds, NEW s \in Nat, NEW age \in Nat, NEW w \in Nat
  PROVE  RecordOf(Recorded(x, s, age, w), x, s, w)
BY DEF Recorded, RecordOf, RecordType

\* A chunk of the given size: which slots its tokens are given, which are given away for
\* it and which records it takes, in the order o.
Taken(o, size) == {o[i] : i \in 1..size}
Left(kept, ids) == {kept[r].slot : r \in {q \in ids : kept[q].active}}

ChunkOf(size, selected, fresh, o) ==
  LET kept == MembersEvicted(fresh)
      ids == Taken(o, size)
      chunk == SubSeq(next, 1, size)
      at == [r \in ids |-> CHOOSE i \in 1..size : o[i] = r]
  IN /\ o = AllocationOrder(kept, touchedRecords)
     /\ slots' = Refreshed(Joined(WithoutOverwritten(Cleared(fresh), kept, ids), selected, chunk),
                           Left(kept, ids) \cup {selected[i] : i \in 1..size})
     /\ entries' = [r \in DOMAIN kept |->
          IF r \in ids THEN Recorded(chunk[at[r]], selected[at[r]], kept[r].age, window)
                       ELSE kept[r]]
     /\ touched' = touched \cup {selected[i] : i \in 1..size}
     /\ touchedRecords' = touchedRecords \cup ids
     /\ next' = SubSeq(next, size + 1, Len(next))

\* What its choices are like.
Fitting(size, selected, fresh) ==
  LET p == AllocationOrder(slots, touched)
  IN /\ size \in Nat /\ size <= Len(next) /\ size <= Len(slots) /\ size <= Len(entries)
     /\ selected \in [1..size -> DOMAIN slots]
     /\ fresh \subseteq {selected[i] : i \in 1..size}
     /\ \E m \in 0..Len(slots) : fresh = {p[k] : k \in 1..m}

LEMMA ChunkSteps ==
  ASSUME BankInv, RecordsChunk
  PROVE  /\ phase = "chunks" /\ method = "vmf_records"
         /\ UNCHANGED <<method, phase, window, tokens>>
         /\ \E size, selected, fresh, o :
              Fitting(size, selected, fresh) /\ ChunkOf(size, selected, fresh, o)
<1> DEFINE size == IF Len(next) < ChunkLimit THEN Len(next) ELSE ChunkLimit
           chunk == SubSeq(next, 1, size)
<1>1. /\ phase = "chunks" /\ UNCHANGED <<method, phase, window, tokens>>
      /\ next' = SubSeq(next, size + 1, Len(next))
  BY Zenon DEF RecordsChunk
<1>2. method = "vmf_records"
  BY <1>1 DEF BankInv, ShapeInv
<1>3. PICK choice \in ChoicesOf(size) :
             LET selected == Selected(choice)
                 fresh == Fresh(choice, selected)
                 kept == MembersEvicted(fresh)
                 o == AllocationOrder(kept, touchedRecords)
                 ids == Taken(o, size)
                 at == [r \in ids |-> CHOOSE i \in 1..size : o[i] = r]
             IN /\ slots' = Refreshed(Joined(WithoutOverwritten(Cleared(fresh), kept, ids),
                                         selected, chunk),
                                  Left(kept, ids) \cup {selected[i] : i \in 1..size})
                /\ entries' = [r \in DOMAIN kept |->
                     IF r \in ids
                       THEN Recorded(chunk[at[r]], selected[at[r]], kept[r].age, window)
                       ELSE kept[r]]
                /\ touched' = touched \cup {selected[i] : i \in 1..size}
                /\ touchedRecords' = touchedRecords \cup ids
  <2>1. \E choice \in ChoicesOf(size) :
             LET selected == Selected(choice)
                 fresh == Fresh(choice, selected)
                 kept == MembersEvicted(fresh)
                 order == AllocationOrder(kept, touchedRecords)
                 ids == {order[i] : i \in 1..size}
                 left == {kept[r].slot : r \in {q \in ids : kept[q].active}}
                 at == [r \in ids |-> CHOOSE i \in 1..size : order[i] = r]
             IN /\ slots' = Refreshed(Joined(WithoutOverwritten(Cleared(fresh), kept, ids),
                                         selected, chunk),
                                  left \cup {selected[i] : i \in 1..size})
                /\ entries' = [r \in DOMAIN kept |->
                     IF r \in ids
                       THEN [active |-> TRUE, age |-> kept[r].age, wrote |-> window,
                             slot |-> selected[at[r]], token |-> chunk[at[r]]]
                       ELSE kept[r]]
                /\ touched' = touched \cup {selected[i] : i \in 1..size}
                /\ touchedRecords' = touchedRecords \cup ids
    BY Zenon DEF RecordsChunk
  <2> HIDE DEF size, chunk
  <2> QED BY <2>1, Zenon DEF Taken, Left, Recorded
<1> DEFINE selected == Selected(choice)
           fresh == Fresh(choice, selected)
           o == AllocationOrder(MembersEvicted(fresh), touchedRecords)
<1>4. ChunkOf(size, selected, fresh, o)
  BY <1>1, <1>3, Zenon DEF ChunkOf
<1>5. size \in Nat /\ size <= Len(next) /\ size <= Len(slots) /\ size <= Len(entries)
  <2>1. Len(next) \in Nat /\ Len(slots) \in Nat /\ Len(entries) \in Nat
    BY BankTypes DEF BankInv
  <2>2. /\ Len(next) <= Len(slots) \/ Len(slots) = SlotCapacity
        /\ Len(next) <= Len(entries) \/ Len(entries) = RecordCapacity
    BY <1>1 DEF BankInv, RoomInv
  <2> QED BY <2>1, <2>2, ChunkLimitFacts, BankLimits
<1> HIDE DEF size
<1>6. /\ selected \in [1..size -> DOMAIN slots]
      /\ \E m \in 0..Len(slots) : fresh = {AllocationOrder(slots, touched)[k] : k \in 1..m}
  BY <1>5, SelectedFacts
<1>7. fresh \subseteq {selected[i] : i \in 1..size}
  <2>1. DOMAIN choice = 1..size
    BY DEF ChoicesOf
  <2> HIDE DEF selected
  <2> QED BY <2>1 DEF Fresh
<1> HIDE DEF selected, fresh
<1>8. Fitting(size, selected, fresh)
  BY <1>5, <1>6, <1>7, Zenon DEF Fitting
<1> QED BY <1>1, <1>2, <1>4, <1>8

\* The records after a chunk: those taken are of its tokens, in the slots selected.
TakenRecords(size, selected, fresh, o) ==
  LET kept == MembersEvicted(fresh)
      ids == Taken(o, size)
  IN /\ Allocates(o, kept, touchedRecords)
     /\ ids \subseteq DOMAIN entries
     /\ \A i, j \in 1..size : o[i] = o[j] => i = j
     /\ entries' \in Seq(RecordType) /\ Len(entries') = Len(entries) /\ DOMAIN entries' = DOMAIN entries
     /\ \A i \in 1..size :
          /\ o[i] \in ids /\ i \in DOMAIN next /\ entries'[o[i]].active = TRUE
          /\ entries'[o[i]].slot = selected[i] /\ entries'[o[i]].token = next[i]
          /\ entries'[o[i]].wrote = window
     /\ \A r \in DOMAIN entries : r \notin ids => entries'[r] = kept[r]

LEMMA ChunkRecords ==
  ASSUME BankInv, NEW size, NEW selected, NEW fresh, NEW o,
         Fitting(size, selected, fresh), ChunkOf(size, selected, fresh, o)
  PROVE  TakenRecords(size, selected, fresh, o)
<1> DEFINE kept == MembersEvicted(fresh)
           ids == Taken(o, size)
           chunk == SubSeq(next, 1, size)
           at == [r \in ids |-> CHOOSE i \in 1..size : o[i] = r]
           made(r) == Recorded(chunk[at[r]], selected[at[r]], kept[r].age, window)
<1>1. /\ kept \in Seq(RecordType) /\ Len(kept) = Len(entries) /\ DOMAIN kept = DOMAIN entries
      /\ Entries(kept)
  BY EvictedFacts
<1>2. o = AllocationOrder(kept, touchedRecords)
      /\ entries' = [r \in DOMAIN kept |-> IF r \in ids THEN made(r) ELSE kept[r]]
  BY Zenon DEF ChunkOf
<1> HIDE DEF kept
<1>3. Allocates(o, kept, touchedRecords)
  BY <1>1, <1>2, AllocationFacts
<1>4. /\ DOMAIN entries = 1..Len(entries) /\ Len(entries) \in Nat
      /\ DOMAIN slots = 1..Len(slots) /\ Len(slots) \in Nat
      /\ DOMAIN next = 1..Len(next) /\ Len(next) \in Nat
      /\ \A k \in DOMAIN next : next[k] \in TokenIds
      /\ window \in Nat
  BY BankTypes DEF BankInv, ShapeInv
<1>5. /\ size \in Nat /\ size <= Len(next) /\ size <= Len(entries)
      /\ selected \in [1..size -> DOMAIN slots]
  BY Zenon DEF Fitting
<1>6. /\ o \in [1..Len(entries) -> DOMAIN entries]
      /\ \A k, l \in 1..Len(entries) : k # l => o[k] # o[l]
  BY <1>1, <1>3, Zenon DEF Allocates
<1>7. \A i \in 1..size : i \in DOMAIN next /\ i \in 1..Len(entries)
  BY <1>4, <1>5
<1>8. /\ \A i \in 1..size : o[i] \in DOMAIN entries
      /\ \A i, j \in 1..size : o[i] = o[j] => i = j
  BY <1>6, <1>7
<1>9. ids \subseteq DOMAIN entries /\ \A i \in 1..size : o[i] \in ids
  BY <1>8 DEF Taken
<1>10. \A i \in 1..size : chunk[i] = next[i]
  <2>1. next \in Seq(TokenIds)
    BY DEF BankInv, ShapeInv
  <2> QED BY <1>5, <2>1, InFront
<1>11. \A r \in ids : \E i \in 1..size : o[i] = r
  BY DEF Taken
<1>12. \A r \in ids : at[r] \in 1..size /\ o[at[r]] = r
  BY <1>11
<1>13. \A i \in 1..size : at[o[i]] = i
  BY <1>8, <1>9, <1>12
<1> HIDE DEF at, ids, chunk
<1>14. \A r \in ids : /\ made(r) \in RecordType /\ made(r).active = TRUE
                      /\ made(r).slot = selected[at[r]] /\ made(r).token = next[at[r]]
                      /\ made(r).wrote = window
  <2> TAKE r \in ids
  <2>1. kept[r].age \in Nat
    BY <1>1, <1>9 DEF Entries
  <2>2. selected[at[r]] \in Nat /\ next[at[r]] \in TokenIds /\ chunk[at[r]] = next[at[r]]
    BY <1>4, <1>5, <1>7, <1>10, <1>12
  <2>3. window \in Nat
    BY <1>4
  <2> DEFINE x == chunk[at[r]]
             s == selected[at[r]]
             age == kept[r].age
  <2>4. x \in TokenIds /\ s \in Nat /\ age \in Nat
    BY <2>1, <2>2
  <2> HIDE DEF x, s, age
  <2>5. RecordOf(Recorded(x, s, age, window), x, s, window)
    BY <2>3, <2>4, RecordedFacts
  <2> QED BY <2>2, <2>5, Zenon DEF x, s, age, RecordOf
<1> HIDE DEF made
<1>15. DOMAIN entries' = DOMAIN entries
       /\ \A r \in DOMAIN entries : entries'[r] = IF r \in ids THEN made(r) ELSE kept[r]
  BY <1>1, <1>2
<1>16. entries' \in Seq(RecordType) /\ Len(entries') = Len(entries)
  <2>1. \A r \in DOMAIN entries : kept[r] \in RecordType
    BY <1>1
  <2>2. entries' \in [1..Len(entries) -> RecordType]
    BY <1>1, <1>2, <1>4, <1>14, <2>1
  <2> QED BY <1>4, <2>2
<1>17. \A i \in 1..size :
          /\ o[i] \in ids /\ i \in DOMAIN next /\ entries'[o[i]].active = TRUE
          /\ entries'[o[i]].slot = selected[i] /\ entries'[o[i]].token = next[i]
          /\ entries'[o[i]].wrote = window
  BY <1>7, <1>8, <1>9, <1>13, <1>14, <1>15
<1>18. \A r \in DOMAIN entries : r \notin ids => entries'[r] = kept[r]
  BY <1>15
<1> QED BY <1>3, <1>8, <1>9, <1>15, <1>16, <1>17, <1>18, Zenon DEF TakenRecords, kept, ids

\* What a chunk does to the slot s.
SlotAfter(size, selected, fresh, o, s) ==
  LET kept == MembersEvicted(fresh)
      ids == Taken(o, size)
      leaving == {r \in ids : kept[r].active /\ kept[r].slot = s}
      mine == {i \in 1..size : selected[i] = s}
      cleared == IF s \in fresh THEN ClearedSlot(slots[s]) ELSE slots[s]
      less == LessSlot(cleared, Cardinality(leaving), TokensIn(kept, leaving))
      more == IF mine = {} THEN less
              ELSE MoreSlot(less, Cardinality(mine), {next[i] : i \in mine}, window)
  IN slots'[s] = IF s \in Left(kept, ids) \cup {selected[i] : i \in 1..size}
                   THEN FreshBasis(more) ELSE more

LEMMA ChunkSlots ==
  ASSUME BankInv, NEW size, NEW selected, NEW fresh, NEW o,
         Fitting(size, selected, fresh), ChunkOf(size, selected, fresh, o)
  PROVE  /\ slots' = [s \in DOMAIN slots |-> slots'[s]]
         /\ \A s \in DOMAIN slots : SlotAfter(size, selected, fresh, o, s)
<1> DEFINE kept == MembersEvicted(fresh)
           ids == Taken(o, size)
           chunk == SubSeq(next, 1, size)
           leaving(s) == {r \in ids : kept[r].active /\ kept[r].slot = s}
           mine(s) == {i \in 1..size : selected[i] = s}
           affected == Left(kept, ids) \cup {selected[i] : i \in 1..size}
           C == Cleared(fresh)
           W == WithoutOverwritten(C, kept, ids)
           J == Joined(W, selected, chunk)
<1>1. DOMAIN chunk = 1..size /\ \A i \in 1..size : chunk[i] = next[i]
  <2>1. next \in Seq(TokenIds) /\ size \in Nat /\ size <= Len(next)
    BY DEF BankInv, ShapeInv, Fitting
  <2> QED BY <2>1, InFront
<1>2. C = [s \in DOMAIN slots |-> IF s \in fresh THEN ClearedSlot(slots[s]) ELSE slots[s]]
  BY Zenon DEF Cleared, ClearedSlot
<1>3. W = [s \in DOMAIN C |-> LessSlot(C[s], Cardinality(leaving(s)), TokensIn(kept, leaving(s)))]
  <2> HIDE DEF C, kept, ids
  <2> QED BY Zenon DEF WithoutOverwritten, LessSlot, ClearedSlot, TokensIn
<1>4. J = [s \in DOMAIN W |->
             IF mine(s) = {} THEN W[s]
             ELSE MoreSlot(W[s], Cardinality(mine(s)), {chunk[i] : i \in mine(s)}, window)]
  <2>1. J = [s \in DOMAIN W |->
             IF {i \in DOMAIN chunk : selected[i] = s} = {} THEN W[s]
             ELSE MoreSlot(W[s], Cardinality({i \in DOMAIN chunk : selected[i] = s}),
                           {chunk[i] : i \in {i \in DOMAIN chunk : selected[i] = s}}, window)]
    <3> HIDE DEF W, chunk
    <3> QED BY Zenon DEF Joined, MoreSlot
  <2> HIDE DEF W, chunk, J
  <2> QED BY <1>1, <2>1
<1>5. slots' = Refreshed(J, affected)
  BY Zenon DEF ChunkOf
<1>6. slots' = [s \in DOMAIN J |-> IF s \in affected THEN FreshBasis(J[s]) ELSE J[s]]
  <2> HIDE DEF J, affected
  <2> QED BY <1>5, Zenon DEF Refreshed, FreshBasis
<1> HIDE DEF C, W, J, kept, ids, affected, chunk
<1>7. /\ DOMAIN C = DOMAIN slots /\ DOMAIN W = DOMAIN slots
      /\ DOMAIN J = DOMAIN slots /\ DOMAIN slots' = DOMAIN slots
  BY <1>2, <1>3, <1>4, <1>6
<1>8. slots' = [s \in DOMAIN slots |-> slots'[s]]
  BY <1>6, <1>7
<1>9. ASSUME NEW s \in DOMAIN slots PROVE SlotAfter(size, selected, fresh, o, s)
  <2>1. C[s] = IF s \in fresh THEN ClearedSlot(slots[s]) ELSE slots[s]
    BY <1>2
  <2>2. W[s] = LessSlot(C[s], Cardinality(leaving(s)), TokensIn(kept, leaving(s)))
    BY <1>3, <1>7
  <2>3. {chunk[i] : i \in mine(s)} = {next[i] : i \in mine(s)}
    BY <1>1
  <2>4. J[s] = IF mine(s) = {} THEN W[s]
               ELSE MoreSlot(W[s], Cardinality(mine(s)), {next[i] : i \in mine(s)}, window)
    BY <1>4, <1>7, <2>3
  <2>5. slots'[s] = IF s \in affected THEN FreshBasis(J[s]) ELSE J[s]
    BY <1>6, <1>7
  <2> QED BY <2>1, <2>2, <2>4, <2>5, Zenon DEF SlotAfter, affected, kept, ids
<1> QED BY <1>8, <1>9

\* After a chunk the slot s sums and counts the records it has then.
SlotHolds(s, taken) ==
  /\ slots'[s] \in SlotType
  /\ SumsUp(slots'[s], entries', Mine(entries', s))
  /\ slots'[s].active => slots'[s].basis = slots'[s].sum
  /\ s \in taken => slots'[s].wrote = window
  /\ slots'[s].wrote \in {slots[s].wrote, window}

LEMMA SlotAfterSums ==
  ASSUME BankInv, method = "vmf_records", NEW size, NEW selected, NEW fresh, NEW o, NEW s \in DOMAIN slots,
         /\ Fitting(size, selected, fresh)
         /\ SlotAfter(size, selected, fresh, o, s)
         /\ TakenRecords(size, selected, fresh, o)
  PROVE  SlotHolds(s, {selected[i] : i \in 1..size})
<1> DEFINE kept == MembersEvicted(fresh)
           ids == Taken(o, size)
           R == Mine(kept, s)
           L == {r \in ids : kept[r].active /\ kept[r].slot = s}
           mine == {i \in 1..size : selected[i] = s}
           M == {o[i] : i \in mine}
           n == Cardinality(mine)
           T == {next[i] : i \in mine}
           C == IF s \in fresh THEN ClearedSlot(slots[s]) ELSE slots[s]
           W == LessSlot(C, Cardinality(L), TokensIn(kept, L))
           J == IF mine = {} THEN W ELSE MoreSlot(W, n, T, window)
           taken == {selected[i] : i \in 1..size}
           affected == Left(kept, ids) \cup taken
<1>1. /\ slots[s] \in SlotType /\ window \in Nat /\ size \in Nat
      /\ DOMAIN entries = 1..Len(entries) /\ Len(entries) \in Nat
      /\ \A k \in DOMAIN next : next[k] \in TokenIds
      /\ fresh \subseteq taken
  BY BankTypes, Zenon DEF BankInv, ShapeInv, Fitting
<1>2. /\ SumsUp(slots[s], entries, Mine(entries, s))
      /\ slots[s].active => slots[s].basis = slots[s].sum
      /\ \A r, q \in ActiveOf(entries) : entries[r].token = entries[q].token => r = q
  BY DEF BankInv, SumsInv, RecordsInv
<1>3. slots'[s] = IF s \in affected THEN FreshBasis(J) ELSE J
  BY Zenon DEF SlotAfter
<1>4. /\ DOMAIN kept = DOMAIN entries
      /\ \A r \in DOMAIN entries :
           /\ kept[r].active <=> entries[r].active /\ entries[r].slot \notin fresh
           /\ kept[r].active => kept[r] = entries[r]
  BY EvictedFacts
<1>5. /\ ids \subseteq DOMAIN entries
      /\ \A i, j \in 1..size : o[i] = o[j] => i = j
      /\ DOMAIN entries' = DOMAIN entries
      /\ \A i \in 1..size :
          /\ o[i] \in ids /\ i \in DOMAIN next /\ entries'[o[i]].active = TRUE
          /\ entries'[o[i]].slot = selected[i] /\ entries'[o[i]].token = next[i]
      /\ \A r \in DOMAIN entries : r \notin ids => entries'[r] = kept[r]
  BY Zenon DEF TakenRecords
<1>6. \A r \in ids : \E i \in 1..size : r = o[i]
  BY DEF Taken
<1>7. \A r \in ids : kept[r].active /\ kept[r].slot = s => s \in affected
  BY DEF Left
<1> HIDE DEF kept, ids
\* Cleared, it has the records that are kept.
<1>8. R \subseteq DOMAIN entries /\ (s \in fresh => R = {}) /\ (s \notin fresh => R = Mine(entries, s))
  BY <1>4 DEF Mine
<1>9. \A r \in R : kept[r] = entries[r] /\ r \in ActiveOf(entries)
  BY <1>4 DEF Mine, ActiveOf
<1>10. /\ C \in SlotType /\ SumsUp(C, kept, R) /\ C.wrote = slots[s].wrote
       /\ C.active => C.basis = C.sum
  <2>1. CASE s \in fresh
    <3>1. C = ClearedSlot(slots[s]) /\ R = {}
      BY <1>8, <2>1
    <3>2. Cardinality({}) = 0 /\ TokensIn(kept, {}) = {}
      BY FS_EmptySet DEF TokensIn
    <3> HIDE DEF C, R
    <3> QED BY <1>1, <3>1, <3>2, ClearedSlotFacts DEF SumsUp
  <2>2. CASE s \notin fresh
    <3>1. C = slots[s] /\ R = Mine(entries, s)
      BY <1>8, <2>2
    <3>2. TokensIn(kept, R) = TokensIn(entries, R)
      BY <1>9 DEF TokensIn
    <3> HIDE DEF C, R
    <3> QED BY <1>1, <1>2, <3>1, <3>2 DEF SumsUp
  <2> QED BY <2>1, <2>2
<1>11. L \subseteq R
  BY <1>4, <1>5 DEF Mine
<1>12. IsFiniteSet(R)
  <2>1. IsFiniteSet(DOMAIN entries)
    BY <1>1, FS_Interval
  <2> HIDE DEF R
  <2> QED BY <1>8, <2>1, FS_Subset
<1>13. \A r, q \in R : kept[r].token = kept[q].token => r = q
  BY <1>2, <1>9
<1>14. L = R \cap ids
  BY <1>4, <1>5 DEF Mine
<1> HIDE DEF C, R, L
\* Of those, the ones that are not overwritten stay.
<1>15. /\ W \in SlotType /\ SumsUp(W, kept, R \ L)
       /\ W.wrote = C.wrote /\ W.basis = C.basis
  <2>1. OneEach(kept, R)
    BY <1>13 DEF OneEach
  <2>2. Emptier(LessSlot(C, Cardinality(L), TokensIn(kept, L)), C, kept, R \ L)
    BY <1>10, <1>11, <1>12, <2>1, LessSlotFacts
  <2> QED BY <2>2 DEF Emptier
<1> HIDE DEF W
<1>16. SumsUp(W, entries', R \ L)
  <2>1. TokensIn(entries', R \ L) = TokensIn(kept, R \ L)
    BY <1>5, <1>8, <1>14 DEF TokensIn
  <2> QED BY <1>15, <2>1 DEF SumsUp
<1>17. Mine(entries', s) = (R \ L) \cup M
  <2>1. ASSUME NEW r \in DOMAIN entries, r \notin ids
        PROVE  r \in Mine(entries', s) <=> r \in (R \ L) \cup M
    <3>1. r \notin M /\ r \notin L
      BY <1>5, <1>14, <2>1
    <3>2. r \in Mine(entries', s) <=> r \in R
      BY <1>4, <1>5, <2>1 DEF Mine, R
    <3> QED BY <3>1, <3>2
  <2>2. ASSUME NEW r \in ids
        PROVE  r \in Mine(entries', s) <=> r \in (R \ L) \cup M
    <3>1. r \notin R \ L
      BY <1>14
    <3>2. PICK i \in 1..size : r = o[i]
      BY <1>6
    <3>3. r \in Mine(entries', s) <=> selected[i] = s
      BY <1>5, <3>2 DEF Mine
    <3>4. r \in M <=> selected[i] = s
      BY <1>5, <3>2
    <3> QED BY <3>1, <3>3, <3>4
  <2>3. /\ \A r \in Mine(entries', s) : r \in DOMAIN entries
        /\ \A r \in (R \ L) \cup M : r \in DOMAIN entries
    BY <1>5, <1>8 DEF Mine
  <2> QED BY <2>1, <2>2, <2>3
<1>18. (R \ L) \cap M = {}
  BY <1>5, <1>14
<1>19. IsFiniteSet(R \ L)
  BY <1>12, FS_Difference
<1>20. IsFiniteSet(M) /\ Cardinality(M) = n /\ n \in Nat
  <2> DEFINE f == [i \in mine |-> o[i]]
  <2>1. IsFiniteSet(mine)
    <3>1. IsFiniteSet(1..size)
      BY <1>1, FS_Interval
    <3> QED BY <3>1, FS_Subset
  <2>2. f \in Bijection(mine, M)
    BY <1>5 DEF Bijection, Injection, Surjection, IsInjective
  <2> HIDE DEF f, mine, M
  <2>3. IsFiniteSet(M) /\ Cardinality(M) = Cardinality(mine)
    BY <2>1, <2>2, FS_Bijection DEF ExistsBijection
  <2> QED BY <2>1, <2>3, FS_CardinalityType
<1>21. T = TokensIn(entries', M) /\ T \subseteq TokenIds
  BY <1>1, <1>5 DEF TokensIn
<1>22. mine = {} <=> M = {}
  OBVIOUS
<1>23. mine # {} <=> s \in taken
  OBVIOUS
<1> HIDE DEF n, T, M, mine, taken
\* The records of the chunk join them.
<1>24. /\ J \in SlotType /\ SumsUp(J, entries', Mine(entries', s)) /\ J.basis = C.basis
       /\ s \in taken => J.wrote = window
       /\ s \notin taken => J = W
       /\ J.wrote \in {slots[s].wrote, window}
  <2>1. CASE mine = {}
    <3>1. J = W /\ Mine(entries', s) = R \ L
      BY <1>17, <1>22, <2>1
    <3> HIDE DEF J
    <3> QED BY <1>10, <1>15, <1>16, <1>23, <2>1, <3>1
  <2>2. CASE mine # {}
    <3>1. J = MoreSlot(W, n, T, window)
      BY <2>2
    <3> HIDE DEF J
    <3>2. /\ J \in SlotType /\ J.active = TRUE /\ J.count = W.count + n
          /\ J.sum = W.sum \cup T /\ J.wrote = window /\ J.basis = W.basis
      <4>1. Fuller(MoreSlot(W, n, T, window), W, n, T, window)
        BY <1>1, <1>15, <1>20, <1>21, MoreSlotFacts
      <4> QED BY <3>1, <4>1 DEF Fuller
    <3>3. SumsUp(J, entries', (R \ L) \cup M)
      <4>1. M # {} /\ J.count = W.count + Cardinality(M) /\ J.sum = W.sum \cup TokensIn(entries', M)
        BY <1>20, <1>21, <1>22, <2>2, <3>2
      <4> QED BY <1>15, <1>16, <1>18, <1>19, <1>20, <3>2, <4>1, MoreSlotSums
    <3> QED BY <1>10, <1>15, <1>17, <1>23, <2>2, <3>2, <3>3
  <2> QED BY <2>1, <2>2
<1> HIDE DEF J
<1>25. CASE s \in affected
  <2>1. slots'[s] = FreshBasis(J)
    BY <1>3, <1>25
  <2>2. LET y == FreshBasis(J)
        IN /\ y \in SlotType /\ y.active = J.active /\ y.count = J.count
           /\ y.sum = J.sum /\ y.wrote = J.wrote /\ y.basis = J.sum
    BY <1>24, FreshBasisFacts
  <2>3. SumsUp(slots'[s], entries', Mine(entries', s))
    BY <1>24, <2>1, <2>2 DEF SumsUp
  <2> QED BY <1>24, <2>1, <2>2, <2>3 DEF SlotHolds, taken
\* A slot that is not refreshed is as it was.
<1>26. CASE s \notin affected
  <2>1. s \notin taken /\ s \notin fresh
    BY <1>1, <1>26
  <2>2. L = {} /\ slots'[s] = W /\ J = W /\ C = slots[s]
    BY <1>3, <1>7, <1>24, <1>26, <2>1 DEF L, C
  <2>3. R \ L = R
    BY <2>2
  <2>4. SumsUp(C, kept, R) /\ SumsUp(W, kept, R)
    BY <1>10, <1>15, <2>3
  <2>5. W.sum = C.sum /\ (W.active <=> C.active)
    BY <2>4 DEF SumsUp
  <2>6. W.active => W.basis = W.sum
    BY <1>10, <1>15, <2>5
  <2> QED BY <1>24, <2>1, <2>2, <2>6 DEF SlotHolds, taken
<1> QED BY <1>25, <1>26

\* A chunk of records is written; what the write itself has brought is taken last.
LEMMA BankChunk == ASSUME BankInv, RecordsChunk PROVE BankInv'
<1>1. /\ phase = "chunks" /\ method = "vmf_records"
      /\ UNCHANGED <<method, phase, window, tokens>>
  BY ChunkSteps
<1>2. PICK size, selected, fresh, o : Fitting(size, selected, fresh) /\ ChunkOf(size, selected, fresh, o)
  BY ChunkSteps
<1> DEFINE p == AllocationOrder(slots, touched)
           kept == MembersEvicted(fresh)
           ids == Taken(o, size)
           taken == {selected[i] : i \in 1..size}
<1>3. /\ touched' = touched \cup taken /\ touchedRecords' = touchedRecords \cup ids
      /\ next' = SubSeq(next, size + 1, Len(next))
  BY <1>2, Zenon DEF ChunkOf
<1>4. TakenRecords(size, selected, fresh, o)
  BY <1>2, ChunkRecords
<1>5. /\ slots' = [s \in DOMAIN slots |-> slots'[s]]
      /\ \A s \in DOMAIN slots : SlotHolds(s, taken)
  <2>1. /\ slots' = [s \in DOMAIN slots |-> slots'[s]]
        /\ \A s \in DOMAIN slots : SlotAfter(size, selected, fresh, o, s)
    BY <1>2, ChunkSlots
  <2>2. \A s \in DOMAIN slots : SlotHolds(s, {selected[i] : i \in 1..size})
    BY <1>1, <1>2, <1>4, <2>1, SlotAfterSums
  <2> QED BY <2>1, <2>2
<1>6. /\ size \in Nat /\ size <= Len(next) /\ size <= Len(slots) /\ size <= Len(entries)
      /\ selected \in [1..size -> DOMAIN slots] /\ fresh \subseteq taken
      /\ \E m \in 0..Len(slots) : fresh = {p[k] : k \in 1..m}
  BY <1>2, Zenon DEF Fitting
<1>7. taken \subseteq DOMAIN slots
  BY <1>6
<1>8. /\ DOMAIN slots = 1..Len(slots) /\ Len(slots) \in Nat
      /\ DOMAIN entries = 1..Len(entries) /\ Len(entries) \in Nat
      /\ DOMAIN next = 1..Len(next) /\ Len(next) \in Nat
      /\ \A k \in DOMAIN next : next[k] \in TokenIds /\ next[k][1] = window
      /\ window \in Nat /\ tokens \in Nat /\ next \in Seq(TokenIds)
      /\ Entries(slots)
  BY BankTypes DEF BankInv, ShapeInv, NextInv
<1>9. /\ next' \in Seq(TokenIds) /\ Len(next') = Len(next) - size /\ DOMAIN next' = 1..(Len(next) - size)
      /\ \A k \in 1..(Len(next) - size) : next'[k] = next[k + size] /\ k + size \in DOMAIN next
  <2>1. next \in Seq(TokenIds) /\ size \in Nat /\ size <= Len(next)
    BY <1>6, <1>8
  <2> QED BY <1>3, <2>1, Behind
<1>10. /\ DOMAIN kept = DOMAIN entries
       /\ \A r \in DOMAIN entries :
            /\ kept[r].active <=> entries[r].active /\ entries[r].slot \notin fresh
            /\ kept[r].active => kept[r] = entries[r]
            /\ kept[r].wrote = entries[r].wrote
  BY EvictedFacts
<1>11. /\ Allocates(o, kept, touchedRecords)
       /\ ids \subseteq DOMAIN entries
       /\ \A i, j \in 1..size : o[i] = o[j] => i = j
       /\ entries' \in Seq(RecordType) /\ Len(entries') = Len(entries) /\ DOMAIN entries' = DOMAIN entries
       /\ \A i \in 1..size :
            /\ o[i] \in ids /\ i \in DOMAIN next /\ entries'[o[i]].active = TRUE
            /\ entries'[o[i]].slot = selected[i] /\ entries'[o[i]].token = next[i]
            /\ entries'[o[i]].wrote = window
       /\ \A r \in DOMAIN entries : r \notin ids => entries'[r] = kept[r]
  BY <1>4, Zenon DEF TakenRecords
<1>12. \A r \in ids : \E i \in 1..size : r = o[i]
  BY DEF Taken
<1>13. \A s \in taken : \E i \in 1..size : s = selected[i]
  OBVIOUS
<1>14. \A i \in 1..size : selected[i] \in taken
  OBVIOUS
<1> HIDE DEF kept, ids, taken, p
<1>15. slots' \in Seq(SlotType) /\ Len(slots') = Len(slots) /\ DOMAIN slots' = DOMAIN slots
  <2>1. \A s \in DOMAIN slots : slots'[s] \in SlotType
    BY <1>5 DEF SlotHolds
  <2>2. slots' \in [1..Len(slots) -> SlotType]
    BY <1>5, <1>8, <2>1
  <2> QED BY <1>8, <2>2
<1>16. ShapeInv'
  BY <1>1, <1>3, <1>7, <1>9, <1>11, <1>15 DEF BankInv, ShapeInv, Writing
<1>17. \A s \in DOMAIN slots : /\ slots[s].wrote <= window
                               /\ s \in touched => slots[s].wrote = window
                               /\ slots'[s].wrote \in {slots[s].wrote, window}
                               /\ s \in touched \cup taken => slots'[s].wrote = window
  <2>1. \A s \in DOMAIN slots : slots[s].wrote <= window /\ (s \in touched => slots[s].wrote = window)
    BY DEF BankInv, TimesInv
  <2> QED BY <1>5, <2>1 DEF SlotHolds
<1>18. \A r \in DOMAIN entries : /\ r \in touchedRecords => entries[r].wrote = window
                                 /\ entries'[r].wrote \in {entries[r].wrote, window}
                                 /\ r \in touchedRecords \cup ids => entries'[r].wrote = window
  <2>1. \A r \in touchedRecords : entries[r].wrote = window
    BY DEF BankInv, TimesInv
  <2> TAKE r \in DOMAIN entries
  <2>2. CASE r \in ids
    <3>1. entries'[r].wrote = window
      BY <1>11, <1>12, <2>2
    <3> QED BY <2>1, <3>1
  <2>3. CASE r \notin ids
    <3>1. entries'[r].wrote = entries[r].wrote
      BY <1>10, <1>11, <2>3
    <3> QED BY <2>1, <2>3, <3>1
  <2> QED BY <2>2, <2>3
<1>19. TimesInv'
  <2>1. touched' \subseteq DOMAIN slots /\ touchedRecords' \subseteq DOMAIN entries
    BY <1>3, <1>7, <1>11 DEF BankInv, ShapeInv
  <2>2. \A s \in DOMAIN slots' : slots'[s].wrote <= window
    BY <1>8, <1>15, <1>17
  <2>3. \A s \in touched' : slots'[s].wrote = window
    BY <1>3, <1>17, <2>1
  <2>4. \A r \in touchedRecords' : entries'[r].wrote = window
    BY <1>3, <1>18, <2>1
  <2> QED BY <1>1, <2>2, <2>3, <2>4 DEF TimesInv
<1>20. \A k, l \in DOMAIN next : next[k] = next[l] => k = l
  BY DEF BankInv, NextInv
<1>21. NextInv'
  <2>1. \A k, l \in DOMAIN next' : next'[k] = next'[l] => k = l
    <3> TAKE k, l \in DOMAIN next'
    <3>1. k \in 1..(Len(next) - size) /\ l \in 1..(Len(next) - size)
      BY <1>9
    <3>2. /\ next'[k] = next[k + size] /\ k + size \in DOMAIN next
          /\ next'[l] = next[l + size] /\ l + size \in DOMAIN next
      BY <1>9, <3>1
    <3>3. next[k + size] = next[l + size] => k + size = l + size
      BY <1>20, <3>2
    <3>4. k \in Int /\ l \in Int /\ size \in Int
      BY <1>6, <1>8, <3>1
    <3>5. k + size = l + size => k = l
      BY <3>4
    <3> QED BY <3>2, <3>3, <3>5, Zenon
  <2>2. \A k \in DOMAIN next' : next'[k][1] = window
    BY <1>8, <1>9
  <2> QED BY <1>1, <2>1, <2>2 DEF NextInv
<1>22. RoomInv'
  <2>1. /\ Len(next) <= Len(slots) \/ Len(slots) = SlotCapacity
        /\ Len(next) <= Len(entries) \/ Len(entries) = RecordCapacity
    BY <1>1 DEF BankInv, RoomInv
  <2>2. Len(next') <= Len(next) /\ Len(next') \in Int
    BY <1>6, <1>8, <1>9
  <2> QED BY <1>8, <1>11, <1>15, <2>1, <2>2 DEF RoomInv
\* A record that is active then was active before, or has one of the chunk's tokens.
<1>23. \A r \in ActiveOf(entries') : r \notin ids =>
         /\ r \in ActiveOf(entries) /\ entries'[r] = entries[r] /\ kept[r].active
  BY <1>10, <1>11 DEF ActiveOf
<1>24. \A r \in ids : r \in ActiveOf(entries')
                      /\ \E i \in 1..size : /\ entries'[r].token = next[i] /\ entries'[r].slot = selected[i]
                                            /\ r = o[i] /\ i \in DOMAIN next
  BY <1>11, <1>12 DEF ActiveOf
<1>25. \A k \in DOMAIN next', i \in 1..size : next'[k] # next[i]
  <2> TAKE k \in DOMAIN next', i \in 1..size
  <2>1. next'[k] = next[k + size] /\ k + size \in DOMAIN next /\ k \in Int /\ k >= 1
    BY <1>6, <1>8, <1>9
  <2>2. i \in DOMAIN next /\ k + size # i
    BY <1>6, <1>11, <2>1
  <2> QED BY <1>20, <2>1, <2>2
<1>26. /\ \A r \in ActiveOf(entries) :
            /\ entries[r].slot \in DOMAIN slots
            /\ entries[r].token \in TokenIds /\ entries[r].token[1] <= window
            /\ entries[r].token[1] = window => r \in touchedRecords /\ entries[r].slot \in touched
            /\ \A k \in DOMAIN next : entries[r].token # next[k]
       /\ \A r, q \in ActiveOf(entries) : entries[r].token = entries[q].token => r = q
  BY <1>1 DEF BankInv, RecordsInv
<1>27. RecordsInv'
  <2>1. ASSUME NEW r \in ActiveOf(entries')
        PROVE  /\ entries'[r].slot \in DOMAIN slots
               /\ entries'[r].token \in TokenIds /\ entries'[r].token[1] <= window
               /\ entries'[r].token[1] = window => r \in touchedRecords' /\ entries'[r].slot \in touched'
               /\ \A k \in DOMAIN next' : entries'[r].token # next'[k]
    <3>1. CASE r \in ids
      <4>1. PICK i \in 1..size : /\ entries'[r].token = next[i] /\ entries'[r].slot = selected[i]
                                 /\ i \in DOMAIN next
        BY <1>24, <3>1
      <4>2. next[i] \in TokenIds /\ next[i][1] = window /\ window <= window
        BY <1>8, <4>1
      <4>3. selected[i] \in taken /\ selected[i] \in DOMAIN slots
        BY <1>7, <1>14
      <4>4. \A k \in DOMAIN next' : entries'[r].token # next'[k]
        BY <1>25, <4>1
      <4> QED BY <1>3, <3>1, <4>1, <4>2, <4>3, <4>4
    <3>2. CASE r \notin ids
      <4>1. r \in ActiveOf(entries) /\ entries'[r] = entries[r]
        BY <1>23, <3>2
      <4>2. \A k \in DOMAIN next' : entries[r].token # next'[k]
        BY <1>9, <1>26, <4>1
      <4> QED BY <1>3, <1>26, <4>1, <4>2
    <3> QED BY <3>1, <3>2
  <2>2. ASSUME NEW r \in ActiveOf(entries'), NEW q \in ActiveOf(entries'),
               entries'[r].token = entries'[q].token
        PROVE  r = q
    <3>1. CASE r \in ids /\ q \in ids
      BY <1>20, <1>24, <2>2, <3>1
    <3>2. CASE r \in ids /\ q \notin ids
      BY <1>23, <1>24, <1>26, <2>2, <3>2
    <3>3. CASE r \notin ids /\ q \in ids
      BY <1>23, <1>24, <1>26, <2>2, <3>3
    <3>4. CASE r \notin ids /\ q \notin ids
      BY <1>23, <1>26, <2>2, <3>4
    <3> QED BY <3>1, <3>2, <3>3, <3>4
  <2>3. DOMAIN slots' = DOMAIN slots
    BY <1>15
  <2> QED BY <1>1, <2>1, <2>2, <2>3 DEF RecordsInv
<1>28. SumsInv'
  <2>1. \A s \in DOMAIN slots' :
          /\ SumsUp(slots'[s], entries', Mine(entries', s))
          /\ slots'[s].active => slots'[s].basis = slots'[s].sum
    BY <1>5, <1>15 DEF SlotHolds
  <2> QED BY <2>1 DEF SumsInv
<1>29. CamelotInv'
  BY <1>1 DEF CamelotInv
\* When a slot is given away that the write has touched, every slot is.
<1>30. ASSUME NEW s \in fresh, s \in touched, slots[s].active PROVE AllSlotsWritten'
  <2>1. PICK m \in 0..Len(slots) : fresh = {p[k] : k \in 1..m}
    BY <1>6
  <2>2. PICK k \in 1..m : s = p[k]
    BY <1>30, <2>1
  <2>3. Allocates(p, slots, touched)
    BY <1>8, AllocationFacts DEF p
  <2>4. /\ \A i \in DOMAIN slots : \E l \in 1..Len(slots) : p[l] = i
        /\ \A i, l \in 1..Len(slots) : i < l /\ slots[p[i]].active /\ p[i] \in touched =>
             slots[p[l]].active /\ p[l] \in touched
    BY <2>3, Zenon DEF Allocates
  <2>5. m \in Nat /\ m <= Len(slots) /\ k \in Nat /\ k \in 1..Len(slots)
    BY <1>8, <2>1, <2>2
  <2>6. ASSUME NEW u \in DOMAIN slots PROVE u \in touched \cup taken
    <3>1. PICK l \in 1..Len(slots) : p[l] = u
      BY <2>4
    <3>2. CASE l <= m
      <4>1. u \in fresh
        <5>1. l \in 1..m
          BY <1>8, <2>5, <3>2
        <5> QED BY <2>1, <3>1, <5>1
      <4> QED BY <1>6, <4>1
    <3>3. CASE ~(l <= m)
      <4>1. k < l
        BY <1>8, <2>2, <2>5, <3>3
      <4>2. p[l] \in touched
        BY <1>30, <2>2, <2>4, <2>5, <4>1
      <4> QED BY <3>1, <4>2
    <3> QED BY <3>2, <3>3
  <2>7. \A u \in DOMAIN slots' : slots'[u].wrote = window
    BY <1>15, <1>17, <2>6
  <2> QED BY <1>1, <2>7 DEF AllSlotsWritten
\* When a record is overwritten that the write has brought, every record is.
<1>31. ASSUME NEW r \in ids, r \in touchedRecords, kept[r].active PROVE AllRecordsWritten'
  <2>1. PICK k \in 1..size : r = o[k]
    BY <1>12
  <2>2. Len(kept) = Len(entries)
    BY EvictedFacts DEF kept
  <2>3. /\ \A i \in DOMAIN kept : \E l \in 1..Len(kept) : o[l] = i
        /\ \A i, l \in 1..Len(kept) : i < l /\ kept[o[i]].active /\ o[i] \in touchedRecords =>
             kept[o[l]].active /\ o[l] \in touchedRecords
    BY <1>11, Zenon DEF Allocates
  <2>4. k \in Nat /\ k <= size /\ k \in 1..Len(kept)
    BY <1>6, <1>8, <2>1, <2>2
  <2>5. ASSUME NEW q \in DOMAIN entries PROVE q \in touchedRecords \cup ids
    <3>1. PICK l \in 1..Len(kept) : o[l] = q
      BY <1>10, <2>3
    <3>2. CASE l <= size
      <4>1. l \in 1..size
        BY <1>6, <1>8, <2>2, <3>2
      <4> QED BY <1>11, <3>1, <4>1
    <3>3. CASE ~(l <= size)
      <4>1. k < l
        BY <1>6, <1>8, <2>2, <2>4, <3>3
      <4>2. o[l] \in touchedRecords
        BY <1>31, <2>1, <2>3, <2>4, <4>1
      <4> QED BY <3>1, <4>2
    <3> QED BY <3>2, <3>3
  <2>6. \A q \in DOMAIN entries' : entries'[q].wrote = window
    BY <1>11, <1>18, <2>5
  <2> QED BY <1>1, <2>6 DEF AllRecordsWritten
<1>32. KeptInv'
  <2>1. CASE AllSlotsWritten
    <3>1. AllSlotsWritten'
      BY <1>1, <1>15, <1>17, <2>1 DEF AllSlotsWritten
    <3> QED BY <3>1 DEF KeptInv
  <2>2. CASE AllRecordsWritten
    <3>1. AllRecordsWritten'
      BY <1>1, <1>11, <1>18, <2>2 DEF AllRecordsWritten
    <3> QED BY <3>1 DEF KeptInv
  <2>3. CASE WindowTokens \subseteq Waiting \cup Held /\ ~AllSlotsWritten' /\ ~AllRecordsWritten'
    <3>1. Held = {entries[r].token : r \in ActiveOf(entries)}
          /\ Held' = {entries'[r].token : r \in ActiveOf(entries')}
      BY <1>1 DEF Held
    <3>2. ASSUME NEW k \in DOMAIN next PROVE next[k] \in Waiting' \cup Held'
      <4>1. CASE k <= size
        <5>1. k \in 1..size
          BY <1>6, <1>8, <4>1
        <5>2. o[k] \in ActiveOf(entries') /\ entries'[o[k]].token = next[k]
          BY <1>11, <5>1 DEF ActiveOf
        <5> QED BY <3>1, <5>2
      <4>2. CASE ~(k <= size)
        <5>1. k - size \in 1..(Len(next) - size) /\ (k - size) + size = k
          BY <1>6, <1>8, <4>2
        <5>2. k - size \in DOMAIN next' /\ next'[k - size] = next[k]
          BY <1>9, <5>1
        <5> QED BY <5>2 DEF Waiting
      <4> QED BY <4>1, <4>2
    <3>3. ASSUME NEW x \in Held, x \in WindowTokens PROVE x \in Held'
      <4>1. PICK r \in ActiveOf(entries) : x = entries[r].token
        BY <3>1
      <4>2. x[1] = window
        BY <3>3 DEF WindowTokens, Token
      <4>3. r \in touchedRecords /\ entries[r].slot \in touched /\ entries[r].slot \in DOMAIN slots
        BY <1>26, <4>1, <4>2
      <4>4. slots[entries[r].slot].active
        <5>1. r \in Mine(entries, entries[r].slot)
          BY <4>1 DEF Mine, ActiveOf
        <5>2. SumsUp(slots[entries[r].slot], entries, Mine(entries, entries[r].slot))
          BY <1>1, <4>3 DEF BankInv, SumsInv
        <5> QED BY <5>1, <5>2 DEF SumsUp
      <4>5. entries[r].slot \notin fresh
        BY <1>30, <2>3, <4>3, <4>4
      <4>6. r \in DOMAIN entries /\ kept[r].active /\ kept[r] = entries[r]
        BY <1>10, <4>1, <4>5 DEF ActiveOf
      <4>7. r \notin ids
        BY <1>31, <2>3, <4>3, <4>6
      <4>8. r \in ActiveOf(entries') /\ entries'[r].token = x
        BY <1>11, <4>1, <4>6, <4>7 DEF ActiveOf
      <4> QED BY <3>1, <4>8
    <3>4. \A x \in Waiting : x \in Waiting' \cup Held'
      BY <3>2 DEF Waiting
    <3>5. WindowTokens' = WindowTokens
      BY <1>1 DEF WindowTokens, Token
    <3>6. WindowTokens' \subseteq Waiting' \cup Held'
      BY <2>3, <3>3, <3>4, <3>5
    <3> QED BY <3>6 DEF KeptInv
  <2>4. CASE AllSlotsWritten' \/ AllRecordsWritten'
    BY <2>4 DEF KeptInv
  <2>5. WindowTokens \subseteq Waiting \cup Held \/ AllSlotsWritten \/ AllRecordsWritten
    BY <1>1 DEF BankInv, KeptInv
  <2> QED BY <2>1, <2>2, <2>3, <2>4, <2>5
<1> QED BY <1>16, <1>19, <1>21, <1>22, <1>27, <1>28, <1>29, <1>32 DEF BankInv

------------------------------------------------------------------------------
(* The banks.                                                               *)

\* The invariant holds of a bank that nothing has been written to, and every step of
\* its controller keeps it.
LEMMA BankStepsHold == ASSUME BankInv, [BankNext]_bankVars PROVE BankInv'
<1>1. CASE UNCHANGED bankVars
  <2>1. UNCHANGED <<method, slots, entries, phase, window, tokens, next, touched, touchedRecords>>
    BY <1>1 DEF bankVars
  <2>2. (ShapeInv /\ TimesInv /\ NextInv /\ RoomInv)'
    BY <2>1 DEF BankInv, ShapeInv, TimesInv, NextInv, RoomInv, Writing
  <2>3. (RecordsInv /\ SumsInv)'
    BY <2>1 DEF BankInv, RecordsInv, SumsInv
  <2>4. (CamelotInv /\ KeptInv)'
    BY <2>1 DEF BankInv, CamelotInv, KeptInv, WindowTokens, Waiting, Token, Held,
                AllSlotsWritten, AllRecordsWritten
  <2> QED BY <2>2, <2>3, <2>4 DEF BankInv
<1>2. CASE BankNext
  <2>1. \/ \E n \in WindowSizes : Retrieve(n)
        \/ AttentionFails \/ CamelotConsolidate \/ CamelotPlace \/ CamelotFinish
        \/ RecordsGrow \/ RecordsChunk \/ RecordsFinish \/ Reset
    BY <1>2, Zenon DEF BankNext
  <2> QED BY <2>1, BankRetrieve, BankFails, BankConsolidate, BankPlace, BankCamelotFinish,
             BankRecordsGrow, BankChunk, BankRecordsFinish, BankReset
<1> QED BY <1>1, <1>2

THEOREM BankHolds == BankSpec => []BankInv
<1>1. BankInit => BankInv
  BY BankStarts
<1>2. BankInv /\ [BankNext]_bankVars => BankInv'
  BY BankStepsHold
<1> QED BY <1>1, <1>2, PTL DEF BankSpec

\* The slots a record bank routes to have the records they count and sum.
LEMMA SlotsTellTheTruth == ASSUME BankInv PROVE SlotsSumTheirRecords
<1> SUFFICES ASSUME method = "vmf_records"
             PROVE  /\ \A S \in (SUBSET ActiveOf(slots)) \ {{}} : Retrievable(S) \subseteq Routed(S)
                    /\ \A s \in DOMAIN slots :
                         LET mine == Routed({s}) IN
                         /\ slots[s].active <=> mine # {}
                         /\ slots[s].count = Cardinality(mine)
                         /\ slots[s].sum = {entries[r].token : r \in mine}
                         /\ slots[s].active => slots[s].basis = slots[s].sum
  BY DEF SlotsSumTheirRecords
<1>1. \A s \in DOMAIN slots :
        /\ SumsUp(slots[s], entries, Mine(entries, s))
        /\ slots[s].active => slots[s].basis = slots[s].sum
  BY DEF BankInv, SumsInv
<1>2. \A s : Routed({s}) = Mine(entries, s)
  BY DEF Routed, Mine, ActiveOf
<1>3. ASSUME NEW s \in DOMAIN slots
      PROVE  /\ slots[s].active <=> Routed({s}) # {}
             /\ slots[s].count = Cardinality(Routed({s}))
             /\ slots[s].sum = {entries[r].token : r \in Routed({s})}
             /\ slots[s].active => slots[s].basis = slots[s].sum
  <2>1. SumsUp(slots[s], entries, Routed({s}))
    BY <1>1, <1>2
  <2> QED BY <1>1, <2>1 DEF SumsUp, TokensIn
<1>4. ASSUME NEW S \in (SUBSET ActiveOf(slots)) \ {{}} PROVE Retrievable(S) \subseteq Routed(S)
  <2>1. PICK s \in S : s \in DOMAIN slots /\ slots[s].active
    BY DEF ActiveOf
  <2>2. PICK r \in Routed({s}) : TRUE
    BY <1>3, <2>1
  <2>3. r \in Routed(S)
    BY <2>1, <2>2 DEF Routed
  <2> QED BY <2>3 DEF Retrievable
<1> QED BY <1>3, <1>4

\* A token of the last window is gone only when its write has gone through everything.
LEMMA OldestIsGivenUp == ASSUME BankInv PROVE OlderGoesFirst
<1> SUFFICES ASSUME phase = "idle", {Token(i) : i \in 1..tokens} \ Held # {}
             PROVE  \/ \A s \in DOMAIN slots : slots[s].wrote = window
                    \/ method = "vmf_records" /\ \A r \in DOMAIN entries : entries[r].wrote = window
  BY DEF OlderGoesFirst
<1>1. Waiting = {}
  BY DEF BankInv, ShapeInv, Writing, Waiting
<1>2. ~(WindowTokens \subseteq Waiting \cup Held)
  BY <1>1 DEF WindowTokens
<1>3. phase # "attending"
  OBVIOUS
<1> QED BY <1>2, <1>3 DEF BankInv, KeptInv, AllSlotsWritten, AllRecordsWritten

\* Slots are active, counted and directed as their records, and a write loses a token it
\* brings only when it has gone through all slots or all records: whatever the capacities
\* and the chunk size, and whatever is routed, evicted, given away and joined.
THEOREM BankSlotsSumWhatIsKept == BankSpec => []SlotsSumWhatIsKept
<1>1. BankInv => SlotsSumWhatIsKept
  BY SlotsTellTheTruth, OldestIsGivenUp DEF SlotsSumWhatIsKept
<1> QED BY <1>1, BankHolds, PTL

\* No step but a turn of the loop over novel tokens takes the tokens of a Camelot slot.
LEMMA TokensStay ==
  ASSUME BankInv, [BankNext]_bankVars, method = "camelot", ~CamelotPlace,
         NEW s \in DOMAIN slots, s \in DOMAIN slots', slots[s].active
  PROVE  slots[s].sum \cap slots'[s].sum # {}
<1>1. slots[s].sum # {}
  BY DEF BankInv, CamelotInv, ActiveOf
<1>2. slots[s].sum \subseteq slots'[s].sum
  <2>1. CASE UNCHANGED slots
    BY <2>1
  <2>2. CASE CamelotConsolidate
    BY <2>2, BankConsolidate
  <2>3. CASE CamelotFinish
    <3>1. slots' = Aged(slots, touched) /\ slots \in Seq(SlotType)
      BY <2>3, Zenon DEF CamelotFinish, BankInv, ShapeInv
    <3>2. slots'[s].sum = slots[s].sum
      BY <3>1, AgedSlots
    <3> QED BY <3>2
  <2>4. CASE Reset
    <3>1. slots' = <<>>
      BY <2>4 DEF Reset
    <3>2. DOMAIN slots' = {}
      BY <3>1
    <3> QED BY <3>2
  <2>5. ~RecordsGrow /\ ~RecordsChunk /\ ~RecordsFinish
    <3>1. ~RecordsGrow
      BY DEF RecordsGrow
    <3>2. phase # "chunks"
      BY DEF BankInv, ShapeInv
    <3> QED BY <3>1, <3>2, Zenon DEF RecordsChunk, RecordsFinish
  <2>6. CASE AttentionFails \/ \E n \in WindowSizes : Retrieve(n)
    <3>1. UNCHANGED slots
      BY <2>6 DEF AttentionFails, Retrieve
    <3> QED BY <3>1
  <2> QED BY <2>1, <2>2, <2>3, <2>4, <2>5, <2>6 DEF BankNext, bankVars
<1> QED BY <1>1, <1>2

\* Ages order the slots of a Camelot bank by last use: a slot loses its tokens only when
\* every slot that was used longer ago is taken too, whatever the capacity.
THEOREM BankOldestIsTaken == BankSpec => LeastRecentlyUsedGoesFirst
<1> DEFINE Oldest == method = "camelot" =>
       \A s, t \in DOMAIN slots \cap DOMAIN slots' :
         /\ slots[s].active /\ slots[s].sum \cap slots'[s].sum = {}
         /\ slots[t].active /\ slots'[t] = slots[t]
         => slots[s].wrote <= slots[t].wrote
<1>1. ASSUME BankInv, [BankNext]_bankVars PROVE Oldest
  <2> SUFFICES ASSUME method = "camelot", NEW s \in DOMAIN slots, NEW t \in DOMAIN slots,
                      s \in DOMAIN slots',
                      slots[s].active /\ slots[t].active /\ slots'[t] = slots[t],
                      slots[s].sum \cap slots'[s].sum = {}
               PROVE  slots[s].wrote <= slots[t].wrote
    OBVIOUS
  <2>1. CASE CamelotPlace
    BY <1>1, <2>1, OldestTaken
  <2>2. CASE ~CamelotPlace
    BY <1>1, <2>2, TokensStay
  <2> QED BY <2>1, <2>2
<1>2. BankInv /\ [BankNext]_bankVars => [Oldest]_bankVars
  BY <1>1
<1> QED BY <1>2, BankHolds, PTL DEF BankSpec, LeastRecentlyUsedGoesFirst
==============================================================================
