---------------------------- MODULE ClusterProofs ----------------------------
(***************************************************************************)
(* The invariants of ClusterSession for every value of the constants, then *)
(* what routing, the posterior and eviction read of a memory, and that it  *)
(* implements the abstract ClusterStore.                                   *)
(*                                                                         *)
(* IInv, the conjunction of MemoryInv and SessionInv, is inductive: one    *)
(* lemma per action and conjunct, then the theorems at the end.  MemoryInv *)
(* needs nothing of the session; SessionInv rests on MemoryInv, because    *)
(* what a recalled id means depends on slots and indices being free before *)
(* they are given out again.                                               *)
(*                                                                         *)
(* The last part is about the calibration of such a memory: the files of   *)
(* one that ended are those of one run (CalibrationInv).                   *)
(***************************************************************************)
EXTENDS ClusterSession, Calibration, MemoryLemmas

------------------------------------------------------------------------------
(* Type correctness, action by action.                                     *)

\* The empty memory and the session that has recalled nothing are well typed.
LEMMA InitTypeOK == Init => TypeOK
  BY ConfigAssumption
  DEF Init, MemoryInit, TypeOK, MemoryTypeOK, Slots, Records, RowType, NoSlot, NoId, NoCode

\* A table extended to a larger capacity keeps its values, and the new
\* entries hold the default.
LEMMA ExtendType ==
  ASSUME NEW T, NEW n \in Nat, NEW m \in Nat, n <= m,
         NEW f \in [0..(n-1) -> T], NEW d \in T
  PROVE  /\ Extend(f, m, d) \in [0..(m-1) -> T]
         /\ \A i \in 0..(n-1) : Extend(f, m, d)[i] = f[i]
         /\ \A i \in n..(m-1) : Extend(f, m, d)[i] = d
  BY DEF Extend

\* The first half of a chunk (reserving record indices, deciding the rows)
\* preserves the types, also when the record table grows.
LEMMA BeginTypeOK ==
  ASSUME MemoryTypeOK,
         NEW n \in 1..WriteChunk,
         NEW code \in [1..n -> Codes], NEW choice \in [1..n -> Slots \cup {NoSlot}],
         BeginChunk(n, code, choice)
  PROVE  MemoryTypeOK'
<1>1. n \in Nat \ {0}
  <2>1. WriteChunk \in Nat
    BY ConfigAssumption
  <2> QED BY <2>1
<1>2. /\ freeRecords \in Seq(Records)
      /\ nextUnused \in Nat
      /\ recordCapacity \in Nat
      /\ nextUnused <= recordCapacity
  BY DEF MemoryTypeOK
<1>3. Len(freeRecords) \in Nat
  BY <1>2
<1>4. Recycled(n) \in 0..n /\ Recycled(n) \in 0..Len(freeRecords)
  BY <1>1, <1>3 DEF Recycled, Least
<1>5. recordCapacity' = RecordCapacityFor(n) /\ nextUnused' = UnusedAfter(n)
  BY DEF BeginChunk
<1>6. /\ recordCapacity' \in Nat /\ recordCapacity <= recordCapacity'
      /\ nextUnused' \in 0..recordCapacity'
      /\ nextUnused' = nextUnused + (n - Recycled(n))
  BY <1>1, <1>2, <1>4, <1>5 DEF GrownCapacity, Greatest, RecordCapacityFor, UnusedAfter
<1>7. Records \subseteq Records'
  <2>1. recordCapacity \in Int /\ recordCapacity' \in Int /\ recordCapacity <= recordCapacity'
    BY <1>2, <1>6
  <2>2. 0..(recordCapacity - 1) \subseteq 0..(recordCapacity' - 1)
    BY <2>1, IndicesGrow
  <2> QED BY <2>2 DEF Records
<1>8. \A i \in 1..n : ReservedIndex(n, i) \in Records'
  <2> SUFFICES ASSUME NEW i \in 1..n PROVE ReservedIndex(n, i) \in Records'
    OBVIOUS
  <2>1. CASE i <= Recycled(n)
    <3>1. Len(freeRecords) - i + 1 \in 1..Len(freeRecords)
      BY <1>3, <1>4, <2>1
    <3>2. freeRecords[Len(freeRecords) - i + 1] \in Records
      BY <1>2, <3>1, ElementOfSeq
    <3> QED BY <3>2, <1>7, <2>1 DEF ReservedIndex
  <2>2. CASE ~(i <= Recycled(n))
    <3>1. ReservedIndex(n, i) = nextUnused + (i - Recycled(n) - 1)
      BY <2>2 DEF ReservedIndex
    <3>2. nextUnused \in Nat
      BY <1>2
    <3>3. ReservedIndex(n, i) \in 0..(recordCapacity' - 1)
      BY <1>1, <1>4, <1>6, <2>2, <3>1, <3>2
    <3> QED BY <3>3 DEF Records
  <2> QED BY <2>1, <2>2
<1>9. UNCHANGED <<slotVars, recordIndex, nextSerial>> /\ Slots' = Slots
  BY DEF BeginChunk, slotVars, Slots
<1>10. chunk' \in Seq(RowType)'
  <2>1. chunk' = [i \in 1..n |-> [index |-> ReservedIndex(n, i), code |-> code[i],
                              chosen |-> choice[i], slot |-> choice[i]]]
    BY DEF BeginChunk
  <2>2. chunk' \in [1..n -> RowType']
    BY <2>1, <1>8, <1>9 DEF RowType
  <2> QED BY <1>1, <2>2, IsASeq
<1>11. freeRecords' \in Seq(Records')
  <2>1. freeRecords' = SubSeq(freeRecords, 1, Len(freeRecords) - Recycled(n))
    BY DEF BeginChunk
  <2>2. freeRecords' \in Seq(Records)
    BY <1>2, <1>3, <1>4, <2>1
  <2> QED BY <2>2, <1>7, SeqMonotonic
<1>12. /\ recordSlot' \in [Records' -> Slots \cup {NoSlot}]
       /\ recordId' \in [Records' -> Nat]
       /\ recordUsage' \in [Records' -> Nat]
       /\ recordRecalls' \in [Records' -> Nat]
  <2>1. /\ recordSlot \in [Records -> Slots \cup {NoSlot}]
        /\ recordId \in [Records -> Nat]
        /\ recordUsage \in [Records -> Nat]
        /\ recordRecalls \in [Records -> Nat]
    BY DEF MemoryTypeOK
  <2>2. /\ recordSlot' = Extend(recordSlot, recordCapacity', NoSlot)
        /\ recordId' = Extend(recordId, recordCapacity', NoId)
        /\ recordUsage' = Extend(recordUsage, recordCapacity', 0)
        /\ recordRecalls' = Extend(recordRecalls, recordCapacity', 0)
    BY <1>5 DEF BeginChunk
  <2>3. NoId \in Nat /\ NoSlot \in Slots \cup {NoSlot}
    BY DEF NoId
  <2> QED BY <1>2, <1>6, <2>1, <2>2, <2>3, ExtendType DEF Records
<1>13. /\ slotRecords' \in [Slots -> SUBSET Records']
       /\ recordIndex' \in [DOMAIN recordIndex' -> Records']
       /\ DOMAIN recordIndex' \subseteq 1..nextSerial'
       /\ nextSerial' \in Nat
  BY <1>7, <1>9 DEF slotVars, MemoryTypeOK
<1> QED
  BY <1>6, <1>9, <1>10, <1>11, <1>12, <1>13 DEF slotVars, MemoryTypeOK

(* The free stack after growth: well typed, not empty, without repetition. *)
\* Whether or not the slot table grows, there is a free slot to take and it
\* is a slot of the (grown) table.
LEMMA GrowthProperties ==
  ASSUME MemoryTypeOK
  PROVE  /\ SlotsAfterGrowth \in Nat \ {0}
         /\ slotCapacity <= SlotsAfterGrowth
         /\ FreeAfterGrowth \in Seq(0..(SlotsAfterGrowth - 1))
         /\ Len(FreeAfterGrowth) \in Nat \ {0}
         /\ NextFreeSlot \in 0..(SlotsAfterGrowth - 1)
<1>1. slotCapacity \in Nat \ {0} /\ freeSlots \in Seq(0..(slotCapacity - 1))
  BY DEF MemoryTypeOK, Slots
<1>2. CASE freeSlots = <<>>
  <2>1. SlotsAfterGrowth = 2 * slotCapacity
    BY <1>2 DEF SlotsAfterGrowth
  <2>2. FreeAfterGrowth = [i \in 1..slotCapacity |-> 2 * slotCapacity - i]
    BY <1>2 DEF FreeAfterGrowth
  <2>3. FreeAfterGrowth \in [1..slotCapacity -> 0..(2 * slotCapacity - 1)]
    BY <1>1, <2>2
  <2>4. FreeAfterGrowth \in Seq(0..(SlotsAfterGrowth - 1)) /\ Len(FreeAfterGrowth) = slotCapacity
    BY <1>1, <2>1, <2>3, IsASeq, LenProperties
  <2>5. NextFreeSlot \in 0..(SlotsAfterGrowth - 1)
    BY <1>1, <2>1, <2>3, <2>4 DEF NextFreeSlot
  <2> QED BY <1>1, <2>1, <2>4, <2>5
<1>3. CASE freeSlots # <<>>
  <2>1. SlotsAfterGrowth = slotCapacity /\ FreeAfterGrowth = freeSlots
    BY <1>3 DEF SlotsAfterGrowth, FreeAfterGrowth
  <2>2. Len(freeSlots) \in Nat \ {0}
    BY <1>1, <1>3, EmptySeq
  <2>3. freeSlots[Len(freeSlots)] \in 0..(slotCapacity - 1)
    BY <1>1, <2>2, ElementOfSeq
  <2> QED BY <1>1, <2>1, <2>2, <2>3 DEF NextFreeSlot
<1> QED BY <1>2, <1>3

\* A slot table after growth: its type, its old values and its new ones.
LEMMA GrownType ==
  ASSUME MemoryTypeOK, NEW T, NEW f \in [Slots -> T], NEW d \in T
  PROVE  /\ Grown(f, d) \in [0..(SlotsAfterGrowth - 1) -> T]
         /\ \A s \in Slots : Grown(f, d)[s] = f[s]
         /\ \A s \in 0..(SlotsAfterGrowth - 1) : s \notin Slots => Grown(f, d)[s] = d
<1>1. Slots \subseteq 0..(SlotsAfterGrowth - 1)
  <2>1. slotCapacity \in Int /\ SlotsAfterGrowth \in Int /\ slotCapacity <= SlotsAfterGrowth
    <3>1. slotCapacity \in Nat /\ SlotsAfterGrowth \in Nat /\ slotCapacity <= SlotsAfterGrowth
      BY GrowthProperties DEF MemoryTypeOK
    <3> QED BY <3>1
  <2> QED BY <2>1, IndicesGrow DEF Slots
<1>2. Grown(f, d) = [s \in 0..(SlotsAfterGrowth - 1) |-> IF s \in Slots THEN f[s] ELSE d]
  BY DEF Grown, Extend
<1> QED BY <1>1, <1>2

\* Opening a cluster for a row (_allocate_slot) preserves the types.
LEMMA AllocateTypeOK ==
  ASSUME MemoryTypeOK, NEW i \in DOMAIN chunk, AllocateSlot(i)
  PROVE  MemoryTypeOK'
<1>1. slotCapacity' = SlotsAfterGrowth /\ Slots' = 0..(SlotsAfterGrowth - 1)
  BY DEF AllocateSlot, Slots
<1>2. slotCapacity' \in Nat \ {0} /\ NextFreeSlot \in Slots' /\ slotCapacity <= slotCapacity'
  BY <1>1, GrowthProperties
<1>3. slotCapacity \in Nat \ {0}
  BY DEF MemoryTypeOK
<1>4. Slots \subseteq Slots'
  BY <1>1, <1>2, <1>3 DEF Slots
<1>5. Records' = Records /\ UNCHANGED recordVars
  BY DEF AllocateSlot, recordVars, Records
<1>6. chunk \in Seq(RowType) /\ chunk[i] \in RowType
  <2>1. chunk \in Seq(RowType)
    BY DEF MemoryTypeOK
  <2> QED BY <2>1, ElementOfSeq, LenProperties
<1>7. chunk[i].code \in Codes
  BY <1>6 DEF RowType
<1>8. /\ slotGeneration' \in [Slots' -> Nat]
      /\ slotId' \in [Slots' -> Nat]
      /\ slotRecords' \in [Slots' -> SUBSET Records']
      /\ slotCount' \in [Slots' -> Int]
      /\ slotActive' \in [Slots' -> BOOLEAN]
      /\ slotCode' \in [Slots' -> Codes \cup {NoCode}]
  <2>1. /\ slotId \in [Slots -> Nat]
        /\ slotGeneration \in [Slots -> Nat]
        /\ slotRecords \in [Slots -> SUBSET Records]
        /\ slotCount \in [Slots -> Int]
        /\ slotActive \in [Slots -> BOOLEAN]
        /\ slotCode \in [Slots -> Codes \cup {NoCode}]
    BY DEF MemoryTypeOK
  <2>2. /\ Grown(slotId, NoId) \in [Slots' -> Nat]
        /\ Grown(slotGeneration, 0) \in [Slots' -> Nat]
        /\ Grown(slotRecords, {}) \in [Slots' -> SUBSET Records]
        /\ Grown(slotCount, 0) \in [Slots' -> Int]
        /\ Grown(slotActive, FALSE) \in [Slots' -> BOOLEAN]
        /\ Grown(slotCode, NoCode) \in [Slots' -> Codes \cup {NoCode}]
    <3>1. /\ {} \in SUBSET Records /\ NoId \in Nat /\ 0 \in Int /\ FALSE \in BOOLEAN
          /\ NoCode \in Codes \cup {NoCode}
      BY DEF NoId
    <3> QED
      BY <1>1, <1>2, <1>3, <2>1, <3>1, GrownType
  <2>3. /\ slotGeneration' \in [Slots' -> Nat]
        /\ slotId' \in [Slots' -> Nat]
    BY <1>2, <2>2 DEF AllocateSlot
  <2>4. slotRecords' \in [Slots' -> SUBSET Records']
    BY <1>2, <1>5, <2>2 DEF AllocateSlot
  <2>5. slotCount' \in [Slots' -> Int]
    BY <1>2, <2>2 DEF AllocateSlot
  <2>6. slotActive' \in [Slots' -> BOOLEAN]
    BY <1>2, <2>2 DEF AllocateSlot
  <2>7. slotCode' \in [Slots' -> Codes \cup {NoCode}]
    BY <1>2, <1>7, <2>2 DEF AllocateSlot
  <2> QED BY <2>3, <2>4, <2>5, <2>6, <2>7
<1>9. freeSlots' \in Seq(Slots')
  <2>1. freeSlots' = SubSeq(FreeAfterGrowth, 1, Len(FreeAfterGrowth) - 1)
    BY DEF AllocateSlot
  <2>2. FreeAfterGrowth \in Seq(Slots') /\ Len(FreeAfterGrowth) \in Nat \ {0}
    BY <1>1, GrowthProperties
  <2> QED BY <2>1, <2>2
<1>10. recency' \subseteq Slots' \X Slots'
  <2> DEFINE code == [s \in {NextFreeSlot} |-> chunk[i].code]
  <2>1. recency' = LocalityUpdate({NextFreeSlot}, code)
    BY DEF AllocateSlot
  <2>2. recency \subseteq Slots \X Slots /\ DOMAIN slotCode = Slots
    BY DEF MemoryTypeOK
  <2>3. recency \subseteq Slots' \X Slots' /\ DOMAIN slotCode \subseteq Slots' /\ {NextFreeSlot} \subseteq Slots'
    BY <1>2, <1>4, <2>2
  <2> HIDE DEF code
  <2> QED BY <2>1, <2>3, LocalityUpdateType
<1>11. chunk' \in Seq(RowType')
  <2>1. chunk' = [chunk EXCEPT ![i].slot = NextFreeSlot]
    BY DEF AllocateSlot
  <2>2. RowType \subseteq RowType'
    BY <1>4, <1>5 DEF RowType
  <2>3. [chunk[i] EXCEPT !.slot = NextFreeSlot] \in RowType'
    BY <1>2, <1>4, <1>5, <1>6 DEF RowType
  <2>4. chunk \in Seq(RowType')
    BY <1>6, <2>2, SeqMonotonic
  <2> QED BY <2>1, <2>3, <2>4, ExceptSeq, LenProperties
<1>12. /\ recordSlot' \in [Records' -> Slots' \cup {NoSlot}]
       /\ recordId' \in [Records' -> Nat]
       /\ recordUsage' \in [Records' -> Nat]
       /\ recordRecalls' \in [Records' -> Nat]
       /\ recordCapacity' \in Nat
       /\ DOMAIN recordIndex' \subseteq 1..nextSerial'
       /\ recordIndex' \in [DOMAIN recordIndex' -> Records']
       /\ freeRecords' \in Seq(Records')
       /\ nextUnused' \in 0..recordCapacity'
       /\ nextSerial' \in Nat
  BY <1>4, <1>5 DEF MemoryTypeOK, recordVars
<1> QED
  BY <1>2, <1>8, <1>9, <1>10, <1>11, <1>12 DEF MemoryTypeOK

\* The fields of a row of the chunk in progress.
LEMMA ChunkTypes ==
  ASSUME MemoryTypeOK, NEW i \in DOMAIN chunk
  PROVE  /\ DOMAIN chunk = 1..Len(chunk) /\ Len(chunk) \in Nat
         /\ chunk[i] \in RowType
         /\ chunk[i].index \in Records
         /\ chunk[i].code \in Codes
         /\ chunk[i].slot \in Slots \cup {NoSlot}
         /\ chunk[i].chosen \in Slots \cup {NoSlot}
<1>1. chunk \in Seq(RowType)
  BY DEF MemoryTypeOK
<1>2. DOMAIN chunk = 1..Len(chunk) /\ Len(chunk) \in Nat
  BY <1>1, LenProperties
<1>3. chunk[i] \in RowType
  BY <1>1, <1>2, ElementOfSeq
<1> QED BY <1>2, <1>3 DEF RowType

\* The rows of one slot are finitely many, so that they can be counted.
LEMMA RowsFinite ==
  ASSUME MemoryTypeOK, NEW s
  PROVE  IsFiniteSet(RowsOf(s)) /\ Cardinality(RowsOf(s)) \in Nat
<1>1. DOMAIN chunk = 1..Len(chunk) /\ Len(chunk) \in Nat
  BY LenProperties DEF MemoryTypeOK
<1>2. IsFiniteSet(1..Len(chunk))
  BY <1>1, FS_Interval
<1>3. RowsOf(s) \subseteq 1..Len(chunk)
  BY <1>1 DEF RowsOf
<1> QED BY <1>2, <1>3, FS_Subset, FS_CardinalityType

\* The commit of a chunk preserves the types.
LEMMA CommitTypeOK ==
  ASSUME MemoryTypeOK, NEW newCode \in [Touched -> Codes], CommitChunk(newCode)
  PROVE  MemoryTypeOK'
<1>1. /\ UNCHANGED <<slotCapacity, slotId, slotGeneration, freeSlots, recordCapacity,
                     recordUsage, recordRecalls, freeRecords, nextUnused>>
      /\ Slots' = Slots /\ Records' = Records
  BY DEF CommitChunk, Slots, Records
<1>2. \A i \in DOMAIN chunk : chunk[i].slot \in Slots
  BY ChunkTypes DEF CommitChunk, Unallocated
<1>3. Touched \subseteq Slots
  BY <1>2 DEF Touched
<1>4. /\ slotCode' = [s \in Slots |-> IF s \in Touched THEN newCode[s] ELSE slotCode[s]]
      /\ slotRecords' = [s \in Slots |-> slotRecords[s] \cup {chunk[i].index : i \in RowsOf(s)}]
      /\ slotCount' = [s \in Slots |-> slotCount[s] + Cardinality(RowsOf(s))]
      /\ slotActive' = [s \in Slots |-> IF s \in Touched
                                      THEN slotCount[s] + Cardinality(RowsOf(s)) > 0
                                      ELSE slotActive[s]]
      /\ recency' = LocalityUpdate(Touched, newCode)
      /\ recordSlot' = [r \in Records |-> IF r \in Reserved THEN chunk[RowAt(r)].slot
                                                        ELSE recordSlot[r]]
      /\ recordId' = [r \in Records |-> IF r \in Reserved THEN nextSerial + RowAt(r)
                                                      ELSE recordId[r]]
      /\ recordIndex' = [d \in DOMAIN recordIndex \cup (nextSerial + 1)..(nextSerial + Len(chunk))
                       |-> IF d > nextSerial THEN chunk[d - nextSerial].index
                                             ELSE recordIndex[d]]
      /\ nextSerial' = nextSerial + Len(chunk)
      /\ chunk' = <<>>
  BY DEF CommitChunk
<1>5. /\ slotId \in [Slots -> Nat]
      /\ slotGeneration \in [Slots -> Nat]
      /\ slotRecords \in [Slots -> SUBSET Records]
      /\ slotCount \in [Slots -> Int]
      /\ slotActive \in [Slots -> BOOLEAN]
      /\ slotCode \in [Slots -> Codes \cup {NoCode}]
      /\ recency \subseteq Slots \X Slots
  BY DEF MemoryTypeOK
<1>6. slotCode' \in [Slots -> Codes \cup {NoCode}]
  BY <1>4, <1>5
<1>7. slotRecords' \in [Slots -> SUBSET Records]
  <2>1. \A s \in Slots : {chunk[i].index : i \in RowsOf(s)} \subseteq Records
    BY ChunkTypes DEF RowsOf
  <2> QED BY <1>4, <1>5, <2>1
<1>8. \A s \in Slots : Cardinality(RowsOf(s)) \in Nat
  BY RowsFinite
<1>9. slotCount' \in [Slots -> Int] /\ slotActive' \in [Slots -> BOOLEAN]
  <2>1. \A s \in Slots : slotCount[s] + Cardinality(RowsOf(s)) \in Int
    BY <1>5, <1>8
  <2>2. slotCount' \in [Slots -> Int]
    BY <1>4, <2>1, Zenon
  <2>3. slotActive' \in [Slots -> BOOLEAN]
    <3>1. \A s \in Slots : (slotCount[s] + Cardinality(RowsOf(s)) > 0) \in BOOLEAN
      OBVIOUS
    <3> QED BY <1>4, <1>5, <3>1, Zenon
  <2> QED BY <2>2, <2>3
<1>10. recency' \subseteq Slots \X Slots
  <2>1. recency \subseteq Slots \X Slots /\ DOMAIN slotCode \subseteq Slots
    BY DEF MemoryTypeOK
  <2> QED BY <1>3, <1>4, <2>1, LocalityUpdateType
<1>11. \A r \in Reserved : RowAt(r) \in DOMAIN chunk
  BY DEF Reserved, RowAt
<1>12. recordSlot' \in [Records -> Slots \cup {NoSlot}]
  <2>1. recordSlot \in [Records -> Slots \cup {NoSlot}]
    BY DEF MemoryTypeOK
  <2> QED BY <1>2, <1>4, <1>11, <2>1
<1>13. recordId' \in [Records -> Nat]
  <2>1. recordId \in [Records -> Nat] /\ nextSerial \in Nat
    BY DEF MemoryTypeOK
  <2>2. \A r \in Reserved : RowAt(r) \in Nat
    BY <1>11, ChunkTypes
  <2> QED BY <1>4, <2>1, <2>2
<1>14. /\ DOMAIN recordIndex' \subseteq 1..nextSerial'
       /\ recordIndex' \in [DOMAIN recordIndex' -> Records]
       /\ nextSerial' \in Nat
  <2>1. /\ DOMAIN recordIndex \subseteq 1..nextSerial
        /\ recordIndex \in [DOMAIN recordIndex -> Records]
        /\ nextSerial \in Nat
    BY DEF MemoryTypeOK
  <2>2. Len(chunk) \in Nat /\ DOMAIN chunk = 1..Len(chunk)
    BY LenProperties DEF MemoryTypeOK
  <2>3. \A d \in (nextSerial + 1)..(nextSerial + Len(chunk)) :
          d - nextSerial \in DOMAIN chunk
    BY <2>1, <2>2
  <2>4. \A d \in DOMAIN recordIndex' : recordIndex'[d] \in Records
    <3> SUFFICES ASSUME NEW d \in DOMAIN recordIndex' PROVE recordIndex'[d] \in Records
      OBVIOUS
    <3>1. CASE d \in DOMAIN recordIndex /\ ~(d > nextSerial)
      BY <1>4, <2>1, <3>1
    <3>2. CASE d \in (nextSerial + 1)..(nextSerial + Len(chunk))
      BY <1>4, <2>1, <2>2, <2>3, <3>2, ChunkTypes
    <3> QED BY <1>4, <2>1, <3>1, <3>2
  <2>5. DOMAIN recordIndex' = DOMAIN recordIndex \cup (nextSerial + 1)..(nextSerial + Len(chunk))
    BY <1>4
  <2>6. DOMAIN recordIndex' \subseteq 1..nextSerial' /\ nextSerial' \in Nat
    BY <1>4, <2>1, <2>2, <2>5
  <2>7. recordIndex' \in [DOMAIN recordIndex' -> Records]
    BY <1>4, <2>4
  <2> QED BY <2>6, <2>7
<1>15. chunk' \in Seq(RowType')
  BY <1>4, EmptySeq
<1> QED
  BY <1>1, <1>6, <1>7, <1>9, <1>10, <1>12, <1>13, <1>14, <1>15 DEF MemoryTypeOK

(* What an accepted observation reads is what the tables hold.            *)
\* The moving average of two usage rates is a usage rate.
LEMMA UsageIsNat ==
  ASSUME NEW a \in Nat, NEW b \in Nat
  PROVE  (a * (EmaScale - EmaWeight) + b * EmaWeight) \div EmaScale \in Nat
<1>1. EmaScale \in Nat \ {0} /\ EmaWeight \in Nat /\ EmaScale - EmaWeight \in Nat
  BY ConfigAssumption
<1> DEFINE c == EmaScale - EmaWeight
           w == EmaWeight
<1>2. a * c \in Nat /\ b * w \in Nat
  <2>1. c \in Nat /\ w \in Nat
    BY <1>1
  <2> HIDE DEF c, w
  <2> QED BY <2>1
<1> DEFINE n == a * c + b * w
<1>3. n \in Nat
  BY <1>2
<1> HIDE DEF n
<1>4. n \div EmaScale \in Nat
  BY <1>1, <1>3
<1> QED BY <1>4 DEF n

\* A listing of a finite set is a sequence that has each element once.
LEMMA ListingType ==
  ASSUME NEW S, NEW T, IsFiniteSet(S), S \subseteq T, NEW q \in Listings(S)
  PROVE  /\ q \in Seq(T)
         /\ DOMAIN q = 1..Len(q)
         /\ \A i \in DOMAIN q : q[i] \in S
         /\ \A x \in S : \E i \in DOMAIN q : q[i] = x
         /\ \A i, j \in DOMAIN q : q[i] = q[j] => i = j
<1>1. Cardinality(S) \in Nat
  BY FS_CardinalityType
<1>2. q \in [1..Cardinality(S) -> S]
  BY DEF Listings
<1>3. q \in Seq(S)
  BY <1>1, <1>2, IsASeq
<1>4. q \in Seq(T)
  BY <1>3, SeqMonotonic
<1> QED BY <1>2, <1>3, <1>4, LenProperties DEF Listings

\* A set of slots is finite.
LEMMA SlotsFinite ==
  ASSUME MemoryTypeOK, NEW S, S \subseteq Slots
  PROVE  IsFiniteSet(S)
<1>1. slotCapacity - 1 \in Int
  BY DEF MemoryTypeOK
<1>2. IsFiniteSet(Slots)
  BY <1>1, FS_Interval DEF Slots
<1> QED BY <1>2, FS_Subset

\* A set of record indices is finite.
LEMMA RecordsFinite ==
  ASSUME MemoryTypeOK, NEW S, S \subseteq Records
  PROVE  IsFiniteSet(S)
<1>1. recordCapacity - 1 \in Int
  BY DEF MemoryTypeOK
<1>2. IsFiniteSet(Records)
  BY <1>1, FS_Interval DEF Records
<1> QED BY <1>2, FS_Subset

(* The evicted records are among those reported, and those are records.    *)
LEMMA EvictedAreRecords ==
  ASSUME MemoryTypeOK, NEW ids, Known(ids), NEW E \in SUBSET IndicesOf(ids)
  PROVE  IndicesOf(ids) \subseteq Records /\ E \subseteq Records /\ IsFiniteSet(E)
<1>1. recordIndex \in [DOMAIN recordIndex -> Records]
  BY DEF MemoryTypeOK
<1>2. IndicesOf(ids) \subseteq Records
  BY <1>1 DEF IndicesOf, Known
<1> QED BY <1>2, RecordsFinite

\* An observation, with what it evicts, preserves the types.
LEMMA ObserveTypeOK ==
  ASSUME MemoryTypeOK, MembershipConsistent,
         NEW ids \in SUBSET DOMAIN recordIndex, NEW usage \in [ids -> UsageRates],
         NEW evicting \in BOOLEAN, NEW E \in SUBSET IndicesOf(ids),
         ObserveRecallUsage(ids, usage, evicting, E)
  PROVE  MemoryTypeOK'
<1>1. /\ UNCHANGED <<slotCapacity, slotGeneration, recordCapacity, nextUnused,
                     nextSerial, chunk>>
      /\ Slots' = Slots /\ Records' = Records
  BY DEF ObserveRecallUsage, Slots, Records
<1>2. EvictRecords(E) /\ Known(ids)
  BY DEF ObserveRecallUsage, Known
<1>3. IndicesOf(ids) \subseteq Records /\ E \subseteq Records /\ IsFiniteSet(E)
  BY <1>2, EvictedAreRecords
<1>4. /\ slotId' \in [Slots -> Nat]
      /\ slotRecords' \in [Slots -> SUBSET Records]
      /\ slotCode' \in [Slots -> Codes \cup {NoCode}]
  BY <1>2 DEF EvictRecords, MemoryTypeOK, NoId
<1>5. \A s \in Slots : slotRecords[s] \cap E \subseteq Records
  BY <1>3
<1>6. \A s \in Slots : Cardinality(slotRecords[s] \cap E) \in Nat
  BY <1>5, RecordsFinite, FS_CardinalityType
<1>7. slotCount \in [Slots -> Int] /\ slotActive \in [Slots -> BOOLEAN]
  BY DEF MemoryTypeOK
<1> DEFINE left == [s \in Slots |-> slotCount[s] - Cardinality(slotRecords[s] \cap E)]
           hit == {s \in Slots : slotRecords[s] \cap E # {}}
<1>8. left \in [Slots -> Int]
  <2>1. \A s \in Slots : slotCount[s] - Cardinality(slotRecords[s] \cap E) \in Int
    BY <1>6, <1>7
  <2> QED BY <2>1, Zenon
<1>9. slotCount' = left
      /\ slotActive' = [s \in Slots |-> IF s \in hit THEN left[s] > 0 ELSE slotActive[s]]
  BY <1>2 DEF EvictRecords
<1>10. slotActive' \in [Slots -> BOOLEAN]
  <2> HIDE DEF left, hit
  <2>1. \A s \in Slots : (left[s] > 0) \in BOOLEAN
    OBVIOUS
  <2> QED BY <1>7, <1>9, <2>1, Zenon
<1>11. recency' \subseteq Slots \X Slots
  BY <1>2 DEF EvictRecords, MemoryTypeOK, LocalityRemove
<1>12. freeSlots' \in Seq(Slots)
  <2>1. Emptied(E) \subseteq Slots
    BY DEF Emptied
  <2>2. IsFiniteSet(Emptied(E))
    BY <2>1, SlotsFinite
  <2>3. PICK order \in Listings(Emptied(E)) : freeSlots' = freeSlots \o order
    BY <1>2 DEF EvictRecords
  <2>4. order \in Seq(Slots)
    BY <2>1, <2>2, ListingType
  <2> QED BY <2>3, <2>4, ConcatProperties DEF MemoryTypeOK
<1>13. freeRecords' \in Seq(Records)
  <2>1. PICK order \in ByPosition(E) : freeRecords' = freeRecords \o order
    BY <1>2 DEF EvictRecords
  <2>2. order \in Listings(E)
    BY DEF ByPosition
  <2>3. order \in Seq(Records)
    BY <1>3, <2>2, ListingType
  <2> QED BY <2>1, <2>3, ConcatProperties DEF MemoryTypeOK
<1>14. /\ recordSlot' \in [Records -> Slots \cup {NoSlot}]
       /\ recordId' \in [Records -> Nat]
  BY <1>2 DEF EvictRecords, MemoryTypeOK, NoId
<1>15. /\ DOMAIN recordIndex' \subseteq 1..nextSerial
       /\ recordIndex' \in [DOMAIN recordIndex' -> Records]
  BY <1>2 DEF EvictRecords, MemoryTypeOK
<1>16. \A r \in IndicesOf(ids) : recordId[r] \in ids
  BY DEF IndicesOf, MembershipConsistent
<1>17. \A r \in IndicesOf(ids) : UpdatedUsage(r, usage[recordId[r]]) \in Nat
  <2> SUFFICES ASSUME NEW r \in IndicesOf(ids)
               PROVE UpdatedUsage(r, usage[recordId[r]]) \in Nat
    OBVIOUS
  <2>1. usage[recordId[r]] \in Nat
    BY <1>16, ConfigAssumption
  <2>2. recordUsage[r] \in Nat
    BY <1>3 DEF MemoryTypeOK
  <2> QED BY <2>1, <2>2, UsageIsNat DEF UpdatedUsage
<1>18. /\ recordUsage' \in [Records -> Nat]
       /\ recordRecalls' \in [Records -> Nat]
  <2>1. recordUsage \in [Records -> Nat] /\ recordRecalls \in [Records -> Nat]
    BY DEF MemoryTypeOK
  <2>2. /\ recordUsage' = [r \in Records |->
              IF r \in E THEN 0
              ELSE IF r \in IndicesOf(ids) THEN UpdatedUsage(r, usage[recordId[r]])
              ELSE recordUsage[r]]
        /\ recordRecalls' = [r \in Records |->
              IF r \in E THEN 0
              ELSE IF r \in IndicesOf(ids) THEN recordRecalls[r] + 1
              ELSE recordRecalls[r]]
    BY DEF ObserveRecallUsage
  <2> QED BY <1>17, <2>1, <2>2
<1>19. chunk' \in Seq(RowType')
  BY <1>1 DEF MemoryTypeOK, RowType
<1> QED
  BY <1>1, <1>4, <1>8, <1>9, <1>10, <1>11, <1>12, <1>13, <1>14, <1>15, <1>18, <1>19
  DEF MemoryTypeOK

------------------------------------------------------------------------------

(* The memory's consistency, action by action.                             *)

\* The empty memory is consistent.
LEMMA InitMemoryInv == Init => MemoryInv
<1> SUFFICES ASSUME Init PROVE MemoryInv
  OBVIOUS
<1>1. MemoryTypeOK
  BY InitTypeOK DEF TypeOK
<1>2. InitialSlots \in Nat \ {0}
  BY ConfigAssumption
<1>3. SlotsPartitioned
  <2>1. freeSlots = [i \in 1..InitialSlots |-> InitialSlots - i]
    BY DEF Init, MemoryInit
  <2>2. Slots = 0..(InitialSlots - 1)
    BY DEF Init, MemoryInit, Slots
  <2>3. \A s \in Slots : slotId[s] = NoId
    BY <2>2 DEF Init, MemoryInit
  <2>4. \A s \in Slots : \E i \in DOMAIN freeSlots : freeSlots[i] = s
    <3> SUFFICES ASSUME NEW s \in Slots PROVE \E i \in DOMAIN freeSlots : freeSlots[i] = s
      OBVIOUS
    <3>1. InitialSlots - s \in 1..InitialSlots /\ InitialSlots - (InitialSlots - s) = s
      BY <1>2, <2>2
    <3> QED BY <2>1, <3>1
  <2>5. \A i, j \in DOMAIN freeSlots : freeSlots[i] = freeSlots[j] => i = j
    BY <1>2, <2>1
  <2> QED BY <2>3, <2>4, <2>5 DEF SlotsPartitioned
<1>4. chunk = <<>> /\ freeRecords = <<>> /\ nextUnused = 0
  BY DEF Init, MemoryInit
<1>5. DOMAIN chunk = {} /\ DOMAIN freeRecords = {}
  BY <1>4
<1>6. Reserved = {}
  BY <1>5 DEF Reserved
<1>7. \A r \in Records : recordSlot[r] = NoSlot
  BY DEF Init, MemoryInit, Records
<1>8. RecordsPartitioned
  <2>1. \A r \in Records : ~(r < nextUnused)
    BY <1>1, <1>4 DEF Records, MemoryTypeOK
  <2> QED BY <1>5, <1>6, <1>7, <2>1 DEF RecordsPartitioned
<1>9. MembershipConsistent
  <2>1. DOMAIN recordIndex = {}
    BY DEF Init, MemoryInit
  <2>2. \A s \in Slots : slotRecords[s] = {} /\ s # NoSlot
    BY <1>2 DEF Init, MemoryInit, Slots, NoSlot
  <2> QED BY <1>7, <2>1, <2>2 DEF MembershipConsistent
<1>10. IndexedIffLive
  BY DEF Init, MemoryInit, Slots, IndexedIffLive
<1> QED BY <1>1, <1>3, <1>5, <1>8, <1>9, <1>10 DEF MemoryInv, ChunkSlotsProtected

\* A lookup in the locality index returns live slots only.
LEMMA CandidatesLive ==
  ASSUME MemoryInv, NEW c \in Codes, NEW s \in Candidates(c)
  PROVE  s \in Slots /\ slotId[s] # NoId
<1>1. s \in InReach(c)
  BY DEF Candidates
<1>2. PICK p \in DOMAIN Probes[c] : Probes[c][p] = slotCode[s]
  BY <1>1 DEF InReach
<1>3. slotCode[s] \in Codes
  <2>1. Probes[c] \in Seq(Codes)
    BY CodesAssumption
  <2> QED BY <1>2, <2>1, ElementOfSeq, LenProperties
<1>4. s \in Slots
  BY <1>1 DEF InReach, Indexed, MemoryInv, MemoryTypeOK
<1>5. slotCode[s] # NoCode
  BY <1>3, CodesAssumption DEF NoCode
<1> QED BY <1>4, <1>5 DEF MemoryInv, IndexedIffLive

(* The reserved indices of a chunk: distinct, and unused by anyone.        *)
LEMMA ReservedFresh ==
  ASSUME MemoryInv, NEW n \in Nat \ {0}
  PROVE  /\ Recycled(n) \in Nat /\ Recycled(n) <= n /\ Recycled(n) <= Len(freeRecords)
         /\ Len(freeRecords) \in Nat /\ nextUnused \in Nat
         /\ \A i \in 1..n : i <= Recycled(n) =>
              /\ Len(freeRecords) - i + 1 \in DOMAIN freeRecords
              /\ ReservedIndex(n, i) = freeRecords[Len(freeRecords) - i + 1]
              /\ ReservedIndex(n, i) < nextUnused
              /\ ReservedIndex(n, i) \in Records
         /\ \A i \in 1..n : ~(i <= Recycled(n)) =>
              /\ ReservedIndex(n, i) = nextUnused + (i - Recycled(n) - 1)
              /\ ReservedIndex(n, i) \in Nat
              /\ ReservedIndex(n, i) >= nextUnused
<1>1. freeRecords \in Seq(Records) /\ nextUnused \in Nat
  BY DEF MemoryInv, MemoryTypeOK
<1>2. Len(freeRecords) \in Nat /\ DOMAIN freeRecords = 1..Len(freeRecords)
  BY <1>1, LenProperties
<1>3. Recycled(n) \in Nat /\ Recycled(n) <= n /\ Recycled(n) <= Len(freeRecords)
  BY <1>2 DEF Recycled, Least
<1>4. ASSUME NEW i \in 1..n, i <= Recycled(n)
      PROVE  /\ Len(freeRecords) - i + 1 \in DOMAIN freeRecords
             /\ ReservedIndex(n, i) = freeRecords[Len(freeRecords) - i + 1]
             /\ ReservedIndex(n, i) < nextUnused
             /\ ReservedIndex(n, i) \in Records
  <2>1. Len(freeRecords) - i + 1 \in DOMAIN freeRecords
    BY <1>2, <1>3, <1>4
  <2>2. ReservedIndex(n, i) = freeRecords[Len(freeRecords) - i + 1]
    BY <1>4 DEF ReservedIndex
  <2>3. ReservedIndex(n, i) \in Records
    BY <1>1, <1>2, <2>1, <2>2, ElementOfSeq
  <2>4. ReservedIndex(n, i) < nextUnused
    BY <2>1, <2>2, <2>3 DEF MemoryInv, RecordsPartitioned
  <2> QED BY <2>1, <2>2, <2>3, <2>4
<1>5. ASSUME NEW i \in 1..n, ~(i <= Recycled(n))
      PROVE  /\ ReservedIndex(n, i) = nextUnused + (i - Recycled(n) - 1)
             /\ ReservedIndex(n, i) \in Nat
             /\ ReservedIndex(n, i) >= nextUnused
  <2>1. ReservedIndex(n, i) = nextUnused + (i - Recycled(n) - 1)
    BY <1>5 DEF ReservedIndex
  <2> QED BY <1>1, <1>3, <1>5, <2>1
<1> QED BY <1>1, <1>2, <1>3, <1>4, <1>5

\* Growing the record table keeps the assignment of every record.
LEMMA BeginKeepsRecords ==
  ASSUME MemoryTypeOK, NEW n \in Nat, NEW code, NEW choice, BeginChunk(n, code, choice)
  PROVE  /\ Records \subseteq Records'
         /\ \A r \in Records : recordSlot'[r] = recordSlot[r] /\ recordId'[r] = recordId[r]
<1>1. recordCapacity \in Nat /\ nextUnused \in Nat /\ freeRecords \in Seq(Records)
  BY DEF MemoryTypeOK
<1>2. Len(freeRecords) \in Nat
  BY <1>1, LenProperties
<1>3. Recycled(n) \in Nat /\ UnusedAfter(n) \in Int
  BY <1>1, <1>2 DEF Recycled, Least, UnusedAfter
<1>4. RecordCapacityFor(n) \in Int /\ recordCapacity <= RecordCapacityFor(n)
  BY <1>1, <1>3 DEF RecordCapacityFor, GrownCapacity, Greatest
<1>5. Records \subseteq 0..(RecordCapacityFor(n) - 1)
  <2>1. recordCapacity \in Int
    BY <1>1
  <2> QED BY <1>4, <2>1, IndicesGrow DEF Records
<1>6. Records' = 0..(RecordCapacityFor(n) - 1)
  BY DEF BeginChunk, Records
<1>7. DOMAIN recordSlot = Records /\ DOMAIN recordId = Records
  BY DEF MemoryTypeOK
<1> QED BY <1>5, <1>6, <1>7 DEF BeginChunk, Extend

\* The first half of a chunk keeps the memory consistent: reserved indices
\* are distinct and were free or unused, and the chosen slots are live.
LEMMA BeginMemoryInv ==
  ASSUME MemoryInv,
         NEW n \in 1..WriteChunk,
         NEW code \in [1..n -> Codes], NEW choice \in [1..n -> Slots \cup {NoSlot}],
         BeginChunk(n, code, choice)
  PROVE  MemoryInv'
<1>1. MemoryTypeOK /\ MemoryTypeOK'
  BY BeginTypeOK DEF MemoryInv
<1>2. n \in Nat \ {0}
  <2>1. WriteChunk \in Nat
    BY ConfigAssumption
  <2> QED BY <2>1
<1>3. UNCHANGED <<slotVars, recordIndex, nextSerial>> /\ Slots' = Slots
  BY DEF BeginChunk, slotVars, Slots
<1>4. SlotsPartitioned' /\ IndexedIffLive'
  BY <1>3 DEF MemoryInv, SlotsPartitioned, IndexedIffLive, slotVars
<1>5. /\ DOMAIN chunk' = 1..n
      /\ \A i \in 1..n : chunk'[i] = [index |-> ReservedIndex(n, i), code |-> code[i],
                                      chosen |-> choice[i], slot |-> choice[i]]
  BY DEF BeginChunk
<1>6. ChunkSlotsProtected'
  <2>1. \A i \in 1..n : choice[i] # NoSlot => slotId[choice[i]] # NoId
    BY CandidatesLive DEF BeginChunk, Decisions
  <2>2. slotId' = slotId
    BY <1>3 DEF slotVars
  <2>3. \A i \in DOMAIN chunk' : chunk'[i].slot # NoSlot => slotId'[chunk'[i].slot] # NoId
    BY <1>5, <2>1, <2>2
  <2>4. \A i \in DOMAIN chunk' : ~(chunk'[i].chosen = NoSlot /\ chunk'[i].slot # NoSlot)
    BY <1>5
  <2> QED BY <2>3, <2>4 DEF ChunkSlotsProtected
<1> DEFINE m == Recycled(n)
           L == Len(freeRecords)
<1>7. /\ freeRecords \in Seq(Records) /\ L \in Nat /\ DOMAIN freeRecords = 1..L
      /\ m \in Nat /\ m <= n /\ m <= L /\ nextUnused \in Nat
      /\ recordCapacity \in Nat /\ nextUnused <= recordCapacity
  <2>1. freeRecords \in Seq(Records) /\ recordCapacity \in Nat /\ nextUnused \in 0..recordCapacity
    BY <1>1 DEF MemoryTypeOK
  <2>2. m \in Nat /\ m <= n /\ m <= L /\ nextUnused \in Nat
    BY <1>2, ReservedFresh
  <2>3. L \in Nat /\ DOMAIN freeRecords = 1..L
    BY <2>1, LenProperties
  <2>4. nextUnused <= recordCapacity
    BY <2>1
  <2> QED BY <2>1, <2>2, <2>3, <2>4
<1>8. /\ DOMAIN freeRecords' = 1..(L - m)
      /\ \A i \in 1..(L - m) : freeRecords'[i] = freeRecords[i]
  BY <1>7, SubSeqProperties DEF BeginChunk
<1>9. nextUnused' = nextUnused + (n - m)
  BY DEF BeginChunk, UnusedAfter
<1>10. \A i \in 1..n : /\ i <= m => /\ L - i + 1 \in DOMAIN freeRecords
                                   /\ ReservedIndex(n, i) = freeRecords[L - i + 1]
                                   /\ ReservedIndex(n, i) \in Nat
                                   /\ ReservedIndex(n, i) < nextUnused
                       /\ ~(i <= m) => /\ ReservedIndex(n, i) = nextUnused + (i - m - 1)
                                       /\ ReservedIndex(n, i) \in Nat
                                       /\ ReservedIndex(n, i) >= nextUnused
  BY <1>2, <1>7, ReservedFresh DEF Records
<1>11. \A i, j \in DOMAIN freeRecords : freeRecords[i] = freeRecords[j] => i = j
  BY DEF MemoryInv, RecordsPartitioned
<1> HIDE DEF m, L
<1>12. \A i, j \in 1..n : ReservedIndex(n, i) = ReservedIndex(n, j) => i = j
  <2> SUFFICES ASSUME NEW i \in 1..n, NEW j \in 1..n,
                      ReservedIndex(n, i) = ReservedIndex(n, j)
               PROVE  i = j
    OBVIOUS
  <2>1. CASE i <= m /\ j <= m
    <3>1. L - i + 1 = L - j + 1
      BY <1>10, <1>11, <2>1
    <3> QED BY <1>2, <1>7, <3>1
  <2>2. CASE ~(i <= m) /\ ~(j <= m)
    BY <1>2, <1>7, <1>10, <2>2
  <2>3. CASE (i <= m) # (j <= m)
    BY <1>7, <1>10, <2>3
  <2> QED BY <2>1, <2>2, <2>3
<1>13. \A r \in Records' : /\ r \in Nat
                           /\ recordSlot'[r] = IF r \in Records THEN recordSlot[r] ELSE NoSlot
                           /\ r \notin Records => r >= nextUnused
  <2>1. recordCapacity' \in Nat /\ recordCapacity' = RecordCapacityFor(n)
    BY <1>1 DEF MemoryTypeOK, BeginChunk
  <2>2. \A r \in Records' : r \in Nat /\ (r \notin Records => r >= nextUnused)
    BY <1>7, <2>1 DEF Records
  <2>3. DOMAIN recordSlot = Records
    BY <1>1 DEF MemoryTypeOK
  <2>4. recordSlot' = Extend(recordSlot, recordCapacity', NoSlot)
    BY <2>1 DEF BeginChunk
  <2> QED BY <2>2, <2>3, <2>4 DEF Extend, Records
<1>14. Reserved' = {ReservedIndex(n, i) : i \in 1..n}
  BY <1>5 DEF Reserved
<1>15. RecordsPartitioned'
  <2>1. \A i, j \in DOMAIN freeRecords' : freeRecords'[i] = freeRecords'[j] => i = j
    BY <1>7, <1>8, <1>11
  <2>2. \A i, j \in DOMAIN chunk' : chunk'[i].index = chunk'[j].index => i = j
    BY <1>5, <1>12
  <2>3. ASSUME NEW r \in Records'
        PROVE  LET free == \E i \in DOMAIN freeRecords' : freeRecords'[i] = r
                   active == recordSlot'[r] # NoSlot
                   reserved == r \in Reserved'
               IN IF r < nextUnused'
                    THEN /\ free \/ active \/ reserved
                         /\ ~(free /\ active) /\ ~(free /\ reserved) /\ ~(active /\ reserved)
                    ELSE ~free /\ ~active /\ ~reserved
    <3> DEFINE free0 == \E i \in DOMAIN freeRecords : freeRecords[i] = r
               free == \E i \in DOMAIN freeRecords' : freeRecords'[i] = r
               reserved == r \in Reserved'
    <3>0. r \in Nat /\ n \in Nat
      BY <1>2, <1>13
    <3>1. CASE r < nextUnused
      <4>1. r \in Records /\ recordSlot'[r] = recordSlot[r]
        BY <1>7, <1>13, <3>0, <3>1
      <4>2. r \notin Reserved
        BY <4>1 DEF BeginChunk, Idle, Reserved
      <4>3. (free0 \/ recordSlot[r] # NoSlot) /\ ~(free0 /\ recordSlot[r] # NoSlot)
        BY <3>1, <4>1, <4>2 DEF MemoryInv, RecordsPartitioned
      <4>4. reserved <=> \E i \in 1..n : i <= m /\ freeRecords[L - i + 1] = r
        <5>1. reserved <=> \E i \in 1..n : ReservedIndex(n, i) = r
          BY <1>14
        <5>2. \A i \in 1..n : ReservedIndex(n, i) = r =>
                i <= m /\ ReservedIndex(n, i) = freeRecords[L - i + 1]
          BY <1>7, <1>10, <3>0, <3>1
        <5>3. \A i \in 1..n : i <= m => ReservedIndex(n, i) = freeRecords[L - i + 1]
          BY <1>10
        <5> QED BY <5>1, <5>2, <5>3
      <4>5. free <=> \E i \in 1..(L - m) : freeRecords[i] = r
        BY <1>8
      <4>6. free0 => free \/ reserved
        <5> SUFFICES ASSUME NEW k \in DOMAIN freeRecords, freeRecords[k] = r, ~free
                     PROVE reserved
          OBVIOUS
        <5>1. ~(k <= L - m) /\ k \in 1..L
          BY <1>7, <4>5
        <5>2. L - k + 1 \in 1..n /\ L - k + 1 <= m /\ L - (L - k + 1) + 1 = k
          BY <1>2, <1>7, <5>1
        <5>3. freeRecords[L - (L - k + 1) + 1] = r
          BY <5>2
        <5>4. \E i \in 1..n : i <= m /\ freeRecords[L - i + 1] = r
          <6> DEFINE i == L - k + 1
          <6>1. i \in 1..n /\ i <= m /\ freeRecords[L - i + 1] = r
            BY <5>2, <5>3
          <6> HIDE DEF i
          <6> QED BY <6>1
        <5> QED BY <4>4, <5>4
      <4>7. ~(free /\ reserved)
        <5> SUFFICES ASSUME NEW k \in 1..(L - m), freeRecords[k] = r,
                            NEW i \in 1..n, i <= m, freeRecords[L - i + 1] = r
                     PROVE FALSE
          BY <4>4, <4>5
        <5>1. k \in 1..L /\ L - i + 1 \in 1..L /\ k # L - i + 1
          BY <1>2, <1>7
        <5> QED BY <1>7, <1>11, <5>1
      <4>8. (free \/ reserved) => free0
        <5>1. free => free0
          BY <1>7, <4>5
        <5>2. reserved => free0
          BY <1>10, <4>4
        <5> QED BY <5>1, <5>2
      <4>9. r < nextUnused'
        BY <1>2, <1>7, <1>9, <3>0, <3>1
      <4> QED BY <4>1, <4>3, <4>6, <4>7, <4>8, <4>9
    <3>2. CASE ~(r < nextUnused)
      <4>1. recordSlot'[r] = NoSlot
        BY <1>13, <3>2 DEF MemoryInv, RecordsPartitioned
      <4>2. ~free0
        <5> SUFFICES ASSUME NEW i \in DOMAIN freeRecords, freeRecords[i] = r PROVE FALSE
          OBVIOUS
        <5>1. r \in Records
          BY <1>7, ElementOfSeq
        <5> QED BY <3>2, <5>1 DEF MemoryInv, RecordsPartitioned
      <4>3. ~free
        BY <1>7, <1>8, <4>2
      <4>4. reserved <=> \E i \in 1..n : ~(i <= m) /\ r = nextUnused + (i - m - 1)
        BY <1>7, <1>10, <1>14, <3>0, <3>2
      <4>5. reserved <=> r < nextUnused'
        <5>1. ASSUME NEW i \in 1..n, ~(i <= m), r = nextUnused + (i - m - 1)
              PROVE  r < nextUnused'
          BY <1>2, <1>7, <1>9, <5>1
        <5>2. ASSUME r < nextUnused'
              PROVE  \E i \in 1..n : ~(i <= m) /\ r = nextUnused + (i - m - 1)
          <6>1. r - nextUnused + m + 1 \in 1..n
            BY <1>2, <1>7, <1>9, <3>0, <3>2, <5>2
          <6>2. /\ ~(r - nextUnused + m + 1 <= m)
                /\ r = nextUnused + ((r - nextUnused + m + 1) - m - 1)
            BY <1>7, <3>0, <3>2
          <6> QED BY <6>1, <6>2
        <5> QED BY <4>4, <5>1, <5>2
      <4> QED BY <4>1, <4>3, <4>5
    <3> QED BY <3>1, <3>2
  <2> QED BY <2>1, <2>2, <2>3 DEF RecordsPartitioned
<1>16. MembershipConsistent'
  <2>1. \A r \in Records : /\ r \in Records'
                           /\ recordSlot'[r] = recordSlot[r] /\ recordId'[r] = recordId[r]
    BY <1>1, <1>2, BeginKeepsRecords
  <2>2. \A r \in Records' : recordSlot'[r] # NoSlot => r \in Records
    BY <1>13
  <2>3. MembershipConsistent
    BY DEF MemoryInv
  <2>4. recordIndex \in [DOMAIN recordIndex -> Records] /\ slotRecords \in [Slots -> SUBSET Records]
    BY <1>1 DEF MemoryTypeOK
  <2>5. \A s \in Slots : s # NoSlot
    BY DEF Slots, NoSlot
  <2>6. \A r \in Records', s \in Slots : r \in slotRecords[s] <=> recordSlot'[r] = s
    BY <2>1, <2>2, <2>3, <2>4, <2>5 DEF MembershipConsistent
  <2>7. \A r \in Records' : recordSlot'[r] # NoSlot =>
          /\ slotId[recordSlot'[r]] # NoId
          /\ recordId'[r] \in DOMAIN recordIndex
          /\ recordIndex[recordId'[r]] = r
    BY <2>1, <2>2, <2>3 DEF MembershipConsistent
  <2>8. \A d \in DOMAIN recordIndex :
          recordId'[recordIndex[d]] = d /\ recordSlot'[recordIndex[d]] # NoSlot
    BY <2>1, <2>3, <2>4 DEF MembershipConsistent
  <2> QED BY <1>3, <2>6, <2>7, <2>8 DEF MembershipConsistent, slotVars
<1> QED BY <1>1, <1>4, <1>6, <1>15, <1>16 DEF MemoryInv

\* The values of a slot table after growth, whatever their type.
LEMMA GrownValues ==
  ASSUME MemoryTypeOK, NEW f, NEW d, DOMAIN f = Slots
  PROVE  /\ \A s \in Slots : Grown(f, d)[s] = f[s]
         /\ \A s \in 0..(SlotsAfterGrowth - 1) : s \notin Slots => Grown(f, d)[s] = d
<1>1. Slots \subseteq 0..(SlotsAfterGrowth - 1)
  <2>1. slotCapacity \in Int /\ SlotsAfterGrowth \in Int /\ slotCapacity <= SlotsAfterGrowth
    <3>1. slotCapacity \in Nat /\ SlotsAfterGrowth \in Nat /\ slotCapacity <= SlotsAfterGrowth
      BY GrowthProperties DEF MemoryTypeOK
    <3> QED BY <3>1
  <2> QED BY <2>1, IndicesGrow DEF Slots
<1>2. Grown(f, d) = [s \in 0..(SlotsAfterGrowth - 1) |-> IF s \in Slots THEN f[s] ELSE d]
  BY DEF Grown, Extend
<1> QED BY <1>1, <1>2

\* After a possible growth the free stack lists each free slot exactly once.
LEMMA FreeAfterGrowthExact ==
  ASSUME MemoryInv
  PROVE  /\ \A i, j \in DOMAIN FreeAfterGrowth : FreeAfterGrowth[i] = FreeAfterGrowth[j] => i = j
         /\ \A s \in 0..(SlotsAfterGrowth - 1) :
              Grown(slotId, NoId)[s] = NoId
                <=> \E i \in DOMAIN FreeAfterGrowth : FreeAfterGrowth[i] = s
<1>1. slotCapacity \in Nat \ {0} /\ freeSlots \in Seq(Slots) /\ slotId \in [Slots -> Nat]
  BY DEF MemoryInv, MemoryTypeOK
<1>2. /\ \A i, j \in DOMAIN freeSlots : freeSlots[i] = freeSlots[j] => i = j
      /\ \A s \in Slots : slotId[s] = NoId <=> \E i \in DOMAIN freeSlots : freeSlots[i] = s
  BY DEF MemoryInv, SlotsPartitioned
<1>3. /\ \A s \in Slots : Grown(slotId, NoId)[s] = slotId[s]
      /\ \A s \in 0..(SlotsAfterGrowth - 1) : s \notin Slots => Grown(slotId, NoId)[s] = NoId
  <2>1. MemoryTypeOK /\ DOMAIN slotId = Slots
    BY <1>1 DEF MemoryInv
  <2> QED BY <2>1, GrownValues
<1>4. CASE freeSlots = <<>>
  <2>1. SlotsAfterGrowth = 2 * slotCapacity
    BY <1>4 DEF SlotsAfterGrowth
  <2>2. FreeAfterGrowth = [i \in 1..slotCapacity |-> 2 * slotCapacity - i]
    BY <1>4 DEF FreeAfterGrowth
  <2>3. \A i, j \in DOMAIN FreeAfterGrowth : FreeAfterGrowth[i] = FreeAfterGrowth[j] => i = j
    BY <1>1, <2>2
  <2>4. \A s \in Slots : slotId[s] # NoId
    BY <1>2, <1>4
  <2>5. ASSUME NEW s \in 0..(SlotsAfterGrowth - 1)
        PROVE  s \notin Slots <=> \E i \in DOMAIN FreeAfterGrowth : FreeAfterGrowth[i] = s
    <3>1. s \in Slots <=> s < slotCapacity
      BY <1>1, <2>1 DEF Slots
    <3>2. ASSUME NEW i \in DOMAIN FreeAfterGrowth, FreeAfterGrowth[i] = s
          PROVE  ~(s < slotCapacity)
      BY <1>1, <2>2, <3>2
    <3>3. ASSUME ~(s < slotCapacity)
          PROVE  \E i \in DOMAIN FreeAfterGrowth : FreeAfterGrowth[i] = s
      <4>1. /\ 2 * slotCapacity - s \in 1..slotCapacity
            /\ 2 * slotCapacity - (2 * slotCapacity - s) = s
        BY <1>1, <2>1, <3>3
      <4> QED BY <2>2, <4>1
    <3> QED BY <3>1, <3>2, <3>3
  <2> QED BY <1>3, <2>3, <2>4, <2>5
<1>5. CASE freeSlots # <<>>
  <2>1. FreeAfterGrowth = freeSlots /\ 0..(SlotsAfterGrowth - 1) = Slots
    BY <1>5 DEF FreeAfterGrowth, SlotsAfterGrowth, Slots
  <2> QED BY <1>2, <1>3, <2>1
<1> QED BY <1>4, <1>5

\* The slot _allocate_slot takes has no cluster.
LEMMA NextFreeSlotIsFree ==
  ASSUME MemoryInv
  PROVE  Grown(slotId, NoId)[NextFreeSlot] = NoId
<1>1. /\ Len(FreeAfterGrowth) \in Nat \ {0} /\ DOMAIN FreeAfterGrowth = 1..Len(FreeAfterGrowth)
      /\ NextFreeSlot \in 0..(SlotsAfterGrowth - 1)
  BY GrowthProperties, LenProperties DEF MemoryInv
<1>2. Len(FreeAfterGrowth) \in DOMAIN FreeAfterGrowth
  BY <1>1
<1> QED BY <1>1, <1>2, FreeAfterGrowthExact DEF NextFreeSlot

\* Opening a cluster keeps the memory consistent: the slot taken is no other
\* row's, holds no record and leaves the free stack.
LEMMA AllocateMemoryInv ==
  ASSUME MemoryInv, NEW i \in DOMAIN chunk, AllocateSlot(i)
  PROVE  MemoryInv'
<1>1. MemoryTypeOK /\ MemoryTypeOK'
  BY AllocateTypeOK DEF MemoryInv
<1> DEFINE f == NextFreeSlot
           F == FreeAfterGrowth
<1>2. slotCapacity' = SlotsAfterGrowth /\ Slots' = 0..(SlotsAfterGrowth - 1)
  BY DEF AllocateSlot, Slots
<1>3. /\ F \in Seq(Slots') /\ Len(F) \in Nat \ {0} /\ f \in Slots' /\ f = F[Len(F)]
      /\ DOMAIN F = 1..Len(F)
  BY <1>1, <1>2, GrowthProperties, LenProperties DEF NextFreeSlot
<1>4. Slots \subseteq Slots'
  <2>1. slotCapacity \in Int /\ slotCapacity' \in Int /\ slotCapacity <= slotCapacity'
    <3>1. slotCapacity \in Nat /\ SlotsAfterGrowth \in Nat /\ slotCapacity <= SlotsAfterGrowth
      BY <1>1, GrowthProperties DEF MemoryTypeOK
    <3> QED BY <1>2, <3>1
  <2> QED BY <2>1, IndicesGrow DEF Slots
<1>5. /\ \A j, k \in DOMAIN F : F[j] = F[k] => j = k
      /\ \A s \in Slots' : Grown(slotId, NoId)[s] = NoId <=> \E j \in DOMAIN F : F[j] = s
  BY <1>2, FreeAfterGrowthExact
<1>6. /\ DOMAIN freeSlots' = 1..(Len(F) - 1)
      /\ \A j \in 1..(Len(F) - 1) : freeSlots'[j] = F[j]
  BY <1>3, SubSeqProperties DEF AllocateSlot
<1>7. \A s \in Slots : /\ Grown(slotId, NoId)[s] = slotId[s]
                       /\ Grown(slotCode, NoCode)[s] = slotCode[s]
                       /\ Grown(slotRecords, {})[s] = slotRecords[s]
  <2>1. DOMAIN slotId = Slots /\ DOMAIN slotCode = Slots /\ DOMAIN slotRecords = Slots
    BY <1>1 DEF MemoryTypeOK
  <2>2. \A s \in Slots : Grown(slotId, NoId)[s] = slotId[s]
    BY <1>1, <2>1, GrownValues
  <2>3. \A s \in Slots : Grown(slotCode, NoCode)[s] = slotCode[s]
    BY <1>1, <2>1, GrownValues
  <2>4. \A s \in Slots : Grown(slotRecords, {})[s] = slotRecords[s]
    BY <1>1, <2>1, GrownValues
  <2> QED BY <2>2, <2>3, <2>4
<1>8. \A s \in Slots' : s \notin Slots => /\ Grown(slotId, NoId)[s] = NoId
                                          /\ Grown(slotCode, NoCode)[s] = NoCode
                                          /\ Grown(slotRecords, {})[s] = {}
  <2>1. DOMAIN slotId = Slots /\ DOMAIN slotCode = Slots /\ DOMAIN slotRecords = Slots
    BY <1>1 DEF MemoryTypeOK
  <2>2. \A s \in 0..(SlotsAfterGrowth - 1) : s \notin Slots => Grown(slotId, NoId)[s] = NoId
    BY <1>1, <2>1, GrownValues
  <2>3. \A s \in 0..(SlotsAfterGrowth - 1) : s \notin Slots => Grown(slotCode, NoCode)[s] = NoCode
    BY <1>1, <2>1, GrownValues
  <2>4. \A s \in 0..(SlotsAfterGrowth - 1) : s \notin Slots => Grown(slotRecords, {})[s] = {}
    BY <1>1, <2>1, GrownValues
  <2> QED BY <1>2, <2>2, <2>3, <2>4
<1>9. /\ DOMAIN Grown(slotId, NoId) = Slots' /\ DOMAIN Grown(slotCode, NoCode) = Slots'
      /\ DOMAIN Grown(slotRecords, {}) = Slots' /\ DOMAIN Grown(slotGeneration, 0) = Slots'
  BY <1>2 DEF Grown, Extend
<1>10. slotId'[f] # NoId
  <2>1. slotGeneration \in [Slots -> Nat] /\ 0 \in Nat
    BY <1>1 DEF MemoryTypeOK
  <2>2. Grown(slotGeneration, 0)[f] \in Nat
    <3>1. Grown(slotGeneration, 0) \in [0..(SlotsAfterGrowth - 1) -> Nat]
      BY <1>1, <2>1, GrownType, Zenon
    <3> QED BY <1>2, <1>3, <3>1
  <2>3. slotId'[f] = Grown(slotGeneration, 0)[f] + 1
    BY <1>3, <1>9 DEF AllocateSlot
  <2> QED BY <2>2, <2>3 DEF NoId
<1>11. \A s \in Slots' : s # f => /\ slotId'[s] = Grown(slotId, NoId)[s]
                                  /\ slotCode'[s] = Grown(slotCode, NoCode)[s]
                                  /\ slotRecords'[s] = Grown(slotRecords, {})[s]
  BY <1>9 DEF AllocateSlot
<1>12. slotRecords'[f] = {} /\ slotCode'[f] = chunk[i].code
  BY <1>3, <1>9 DEF AllocateSlot
<1>13. \A s \in Slots : slotId[s] # NoId => s # f
  <2>1. Grown(slotId, NoId)[f] = NoId
    BY <1>3, <1>5
  <2> QED BY <1>7, <2>1
<1> HIDE DEF f, F
<1>14. SlotsPartitioned'
  <2>1. \A j, k \in DOMAIN freeSlots' : freeSlots'[j] = freeSlots'[k] => j = k
    BY <1>3, <1>5, <1>6
  <2>2. ASSUME NEW s \in Slots'
        PROVE  slotId'[s] = NoId <=> \E j \in DOMAIN freeSlots' : freeSlots'[j] = s
    <3>1. CASE s = f
      <4>1. \A j \in 1..(Len(F) - 1) : F[j] # f
        BY <1>3, <1>5
      <4> QED BY <1>6, <1>10, <3>1, <4>1
    <3>2. CASE s # f
      <4>1. slotId'[s] = NoId <=> \E j \in DOMAIN F : F[j] = s
        BY <1>5, <1>11, <3>2
      <4>2. (\E j \in DOMAIN F : F[j] = s) <=> \E j \in 1..(Len(F) - 1) : F[j] = s
        BY <1>3, <3>2
      <4> QED BY <1>6, <4>1, <4>2
    <3> QED BY <3>1, <3>2
  <2> QED BY <2>1, <2>2 DEF SlotsPartitioned
<1>15. /\ DOMAIN chunk' = DOMAIN chunk
       /\ chunk'[i].slot = f
       /\ \A j \in DOMAIN chunk : j # i => chunk'[j] = chunk[j]
       /\ \A j \in DOMAIN chunk : chunk'[j].index = chunk[j].index /\ chunk'[j].chosen = chunk[j].chosen
  <2>1. chunk[i] \in RowType
    BY <1>1, ChunkTypes
  <2>2. chunk' = [chunk EXCEPT ![i].slot = f]
    BY DEF AllocateSlot, f
  <2> QED BY <2>1, <2>2 DEF RowType
<1>16. \A j \in DOMAIN chunk : chunk[j].slot # NoSlot =>
         chunk[j].slot \in Slots /\ slotId[chunk[j].slot] # NoId /\ chunk[j].slot # f
  <2>1. \A j \in DOMAIN chunk : chunk[j].slot \in Slots \cup {NoSlot}
    BY <1>1, ChunkTypes
  <2> QED BY <1>13, <2>1 DEF MemoryInv, ChunkSlotsProtected
<1>17. ChunkSlotsProtected'
  <2>1. \A j \in DOMAIN chunk' : chunk'[j].slot # NoSlot => slotId'[chunk'[j].slot] # NoId
    BY <1>4, <1>7, <1>10, <1>11, <1>15, <1>16
  <2>2. f # NoSlot
    BY <1>3 DEF Slots, NoSlot
  <2>3. \A j, k \in DOMAIN chunk' :
          (chunk'[j].chosen = NoSlot /\ chunk'[j].slot # NoSlot /\ chunk'[j].slot = chunk'[k].slot)
            => j = k
    <3> SUFFICES ASSUME NEW j \in DOMAIN chunk, NEW k \in DOMAIN chunk,
                        chunk[j].chosen = NoSlot, chunk'[j].slot # NoSlot,
                        chunk'[j].slot = chunk'[k].slot
                 PROVE  j = k
      BY <1>15
    <3>1. CASE j = i
      BY <1>15, <1>16, <2>2, <3>1
    <3>2. CASE j # i /\ k = i
      BY <1>15, <1>16, <2>2, <3>2
    <3>3. CASE j # i /\ k # i
      BY <1>15, <3>3 DEF MemoryInv, ChunkSlotsProtected
    <3> QED BY <3>1, <3>2, <3>3
  <2> QED BY <2>1, <2>3 DEF ChunkSlotsProtected
<1>18. UNCHANGED recordVars /\ Records' = Records
  BY DEF AllocateSlot, recordVars, Records
<1>19. RecordsPartitioned'
  <2>1. Reserved' = Reserved
    BY <1>15 DEF Reserved
  <2>2. UNCHANGED <<freeRecords, recordSlot, nextUnused>>
    BY <1>18 DEF recordVars
  <2> QED BY <1>15, <1>18, <2>1, <2>2 DEF MemoryInv, RecordsPartitioned
<1>20. MembershipConsistent'
  <2>1. UNCHANGED <<recordSlot, recordId, recordIndex>>
    BY <1>18 DEF recordVars
  <2>2. MembershipConsistent /\ recordSlot \in [Records -> Slots \cup {NoSlot}]
    BY <1>1 DEF MemoryInv, MemoryTypeOK
  <2>3. NoSlot \notin Slots'
    BY DEF Slots, NoSlot
  <2>4. \A r \in Records : recordSlot[r] # NoSlot =>
          recordSlot[r] \in Slots /\ slotId[recordSlot[r]] # NoId /\ recordSlot[r] # f
    BY <1>13, <2>2 DEF MembershipConsistent
  <2>5. ASSUME NEW r \in Records, NEW s \in Slots'
        PROVE  r \in slotRecords'[s] <=> recordSlot[r] = s
    <3>1. CASE s = f
      BY <1>12, <2>3, <2>4, <3>1
    <3>2. CASE s # f /\ s \in Slots
      BY <1>7, <1>11, <2>2, <3>2 DEF MembershipConsistent
    <3>3. CASE s # f /\ s \notin Slots
      BY <1>8, <1>11, <2>2, <2>3, <3>3
    <3> QED BY <3>1, <3>2, <3>3
  <2>6. \A r \in Records : recordSlot[r] # NoSlot => slotId'[recordSlot[r]] # NoId
    BY <1>4, <1>7, <1>11, <2>4
  <2> QED BY <1>18, <2>1, <2>2, <2>5, <2>6 DEF MembershipConsistent
<1>21. IndexedIffLive'
  <2>1. chunk[i].code # NoCode
    BY <1>1, ChunkTypes, CodesAssumption DEF NoCode
  <2>2. \A s \in Slots : slotCode[s] # NoCode <=> slotId[s] # NoId
    BY DEF MemoryInv, IndexedIffLive
  <2>3. ASSUME NEW s \in Slots'
        PROVE  slotCode'[s] # NoCode <=> slotId'[s] # NoId
    <3>1. CASE s = f
      BY <1>10, <1>12, <2>1, <3>1
    <3>2. CASE s # f /\ s \in Slots
      BY <1>7, <1>11, <2>2, <3>2
    <3>3. CASE s # f /\ s \notin Slots
      BY <1>8, <1>11, <3>3
    <3> QED BY <3>1, <3>2, <3>3
  <2> QED BY <2>3 DEF IndexedIffLive
<1> QED BY <1>1, <1>14, <1>17, <1>19, <1>20, <1>21 DEF MemoryInv

\* Rows and reserved indices of a chunk correspond one to one.
LEMMA RowsAndIndices ==
  ASSUME MemoryInv
  PROVE  /\ \A i \in DOMAIN chunk : chunk[i].index \in Reserved /\ RowAt(chunk[i].index) = i
         /\ \A r \in Reserved : RowAt(r) \in DOMAIN chunk /\ chunk[RowAt(r)].index = r
<1>1. \A i, j \in DOMAIN chunk : chunk[i].index = chunk[j].index => i = j
  BY DEF MemoryInv, RecordsPartitioned
<1> QED BY <1>1 DEF RowAt, Reserved

\* The commit keeps the memory consistent: the reserved indices become active
\* in the slots of their rows, under fresh serials.
LEMMA CommitMemoryInv ==
  ASSUME MemoryInv, NEW newCode \in [Touched -> Codes], CommitChunk(newCode)
  PROVE  MemoryInv'
<1>1. MemoryTypeOK /\ MemoryTypeOK'
  BY CommitTypeOK DEF MemoryInv
<1>2. /\ UNCHANGED <<slotCapacity, slotId, freeSlots, recordCapacity, freeRecords, nextUnused>>
      /\ Slots' = Slots /\ Records' = Records /\ DOMAIN chunk' = {} /\ Reserved' = {}
  BY DEF CommitChunk, Slots, Records, Reserved
<1>3. \A i \in DOMAIN chunk : /\ chunk[i].slot \in Slots /\ slotId[chunk[i].slot] # NoId
                              /\ chunk[i].slot # NoSlot /\ chunk[i].index \in Records
  BY <1>1, ChunkTypes DEF CommitChunk, Unallocated, MemoryInv, ChunkSlotsProtected
<1>4. /\ \A i \in DOMAIN chunk : chunk[i].index \in Reserved /\ RowAt(chunk[i].index) = i
      /\ \A r \in Reserved : RowAt(r) \in DOMAIN chunk /\ chunk[RowAt(r)].index = r
  BY RowsAndIndices
<1>5. DOMAIN chunk = 1..Len(chunk) /\ Len(chunk) \in Nat /\ nextSerial \in Nat
  BY <1>1, LenProperties DEF MemoryTypeOK
<1>6. \A r \in Records : recordSlot'[r] = IF r \in Reserved THEN chunk[RowAt(r)].slot ELSE recordSlot[r]
  BY DEF CommitChunk
<1>7. \A r \in Reserved : r \in Records /\ recordSlot'[r] # NoSlot /\ recordSlot[r] = NoSlot
  <2>1. \A r \in Reserved : r \in Records
    BY <1>3, <1>4
  <2>2. \A r \in Reserved : recordSlot'[r] # NoSlot
    BY <1>3, <1>4, <1>6, <2>1
  <2>3. \A r \in Reserved : recordSlot[r] = NoSlot
    BY <2>1 DEF MemoryInv, RecordsPartitioned
  <2> QED BY <2>1, <2>2, <2>3
<1>8. SlotsPartitioned'
  BY <1>2 DEF MemoryInv, SlotsPartitioned
<1>9. ChunkSlotsProtected'
  BY <1>2 DEF ChunkSlotsProtected
<1>10. RecordsPartitioned'
  <2>1. ASSUME NEW r \in Records
        PROVE  (recordSlot'[r] # NoSlot) <=> (recordSlot[r] # NoSlot \/ r \in Reserved)
    BY <1>6, <1>7
  <2>2. ASSUME NEW r \in Records
        PROVE  LET free == \E i \in DOMAIN freeRecords : freeRecords[i] = r
                   active == recordSlot'[r] # NoSlot
               IN IF r < nextUnused
                    THEN (free \/ active) /\ ~(free /\ active)
                    ELSE ~free /\ ~active
    BY <2>1 DEF MemoryInv, RecordsPartitioned
  <2>3. \A i, j \in DOMAIN freeRecords : freeRecords[i] = freeRecords[j] => i = j
    BY DEF MemoryInv, RecordsPartitioned
  <2> QED BY <1>2, <2>2, <2>3 DEF RecordsPartitioned
<1>11. \A r \in Records : recordId'[r] = IF r \in Reserved THEN nextSerial + RowAt(r) ELSE recordId[r]
  BY DEF CommitChunk
<1>12. /\ DOMAIN recordIndex' = DOMAIN recordIndex \cup (nextSerial + 1)..(nextSerial + Len(chunk))
       /\ \A d \in DOMAIN recordIndex' :
            recordIndex'[d] = IF d > nextSerial THEN chunk[d - nextSerial].index ELSE recordIndex[d]
  BY DEF CommitChunk
<1>13. DOMAIN recordIndex \subseteq 1..nextSerial /\ recordIndex \in [DOMAIN recordIndex -> Records]
  BY <1>1 DEF MemoryTypeOK
<1>14. MembershipConsistent
  BY DEF MemoryInv
<1>15. ASSUME NEW r \in Records, NEW s \in Slots
       PROVE  r \in slotRecords'[s] <=> recordSlot'[r] = s
  <2>1. r \in slotRecords'[s] <=> r \in slotRecords[s] \/ \E i \in RowsOf(s) : chunk[i].index = r
    BY DEF CommitChunk
  <2>2. r \in slotRecords[s] <=> recordSlot[r] = s
    BY <1>14 DEF MembershipConsistent
  <2>3. s # NoSlot
    BY DEF Slots, NoSlot
  <2>4. CASE r \in Reserved
    <3>1. r \notin slotRecords[s]
      BY <1>7, <2>2, <2>3, <2>4
    <3>2. (\E i \in RowsOf(s) : chunk[i].index = r) <=> chunk[RowAt(r)].slot = s
      BY <1>4, <2>4 DEF RowsOf
    <3> QED BY <1>6, <2>1, <2>4, <3>1, <3>2
  <2>5. CASE r \notin Reserved
    <3>1. ~\E i \in RowsOf(s) : chunk[i].index = r
      BY <1>4, <2>5 DEF RowsOf
    <3> QED BY <1>6, <2>1, <2>2, <2>5, <3>1
  <2> QED BY <2>4, <2>5
<1>16. ASSUME NEW r \in Records, recordSlot'[r] # NoSlot
       PROVE  /\ slotId[recordSlot'[r]] # NoId
              /\ recordId'[r] \in DOMAIN recordIndex'
              /\ recordIndex'[recordId'[r]] = r
  <2>1. CASE r \in Reserved
    <3>1. RowAt(r) \in 1..Len(chunk) /\ chunk[RowAt(r)].index = r
      BY <1>4, <1>5, <2>1
    <3>2. recordId'[r] = nextSerial + RowAt(r)
      BY <1>11, <2>1
    <3>3. /\ recordId'[r] \in (nextSerial + 1)..(nextSerial + Len(chunk))
          /\ recordId'[r] > nextSerial /\ recordId'[r] - nextSerial = RowAt(r)
      BY <1>5, <3>1, <3>2
    <3>4. slotId[recordSlot'[r]] # NoId
      BY <1>3, <1>5, <1>6, <2>1, <3>1
    <3> QED BY <1>12, <3>1, <3>3, <3>4
  <2>2. CASE r \notin Reserved
    <3>1. recordSlot'[r] = recordSlot[r] /\ recordId'[r] = recordId[r]
      BY <1>6, <1>11, <2>2
    <3>2. /\ slotId[recordSlot[r]] # NoId /\ recordId[r] \in DOMAIN recordIndex
          /\ recordIndex[recordId[r]] = r
      BY <1>14, <1>16, <3>1 DEF MembershipConsistent
    <3>3. ~(recordId[r] > nextSerial)
      BY <1>5, <1>13, <3>2
    <3> QED BY <1>12, <3>1, <3>2, <3>3
  <2> QED BY <2>1, <2>2
<1>17. ASSUME NEW d \in DOMAIN recordIndex'
       PROVE  recordId'[recordIndex'[d]] = d /\ recordSlot'[recordIndex'[d]] # NoSlot
  <2>1. CASE d > nextSerial
    <3>1. d \in (nextSerial + 1)..(nextSerial + Len(chunk))
      BY <1>5, <1>12, <1>13, <2>1
    <3>2. d - nextSerial \in DOMAIN chunk /\ nextSerial + (d - nextSerial) = d
      BY <1>5, <3>1
    <3>3. recordIndex'[d] = chunk[d - nextSerial].index
      BY <1>12, <2>1
    <3>4. /\ recordIndex'[d] \in Reserved /\ RowAt(recordIndex'[d]) = d - nextSerial
          /\ recordIndex'[d] \in Records
      BY <1>3, <1>4, <3>2, <3>3
    <3> QED BY <1>7, <1>11, <3>2, <3>4
  <2>2. CASE ~(d > nextSerial)
    <3>1. d \in DOMAIN recordIndex
      BY <1>5, <1>12, <2>2
    <3>2. recordIndex'[d] = recordIndex[d] /\ recordIndex[d] \in Records
      BY <1>12, <1>13, <2>2, <3>1
    <3>3. recordId[recordIndex[d]] = d /\ recordSlot[recordIndex[d]] # NoSlot
      BY <1>14, <3>1 DEF MembershipConsistent
    <3>4. recordIndex[d] \notin Reserved
      BY <1>7, <3>3
    <3> QED BY <1>6, <1>11, <3>2, <3>3, <3>4
  <2> QED BY <2>1, <2>2
<1>18. MembershipConsistent'
  BY <1>2, <1>15, <1>16, <1>17 DEF MembershipConsistent
<1>19. IndexedIffLive'
  <2>1. \A s \in Slots : slotCode'[s] = IF s \in Touched THEN newCode[s] ELSE slotCode[s]
    BY DEF CommitChunk
  <2>2. \A s \in Touched : newCode[s] # NoCode /\ slotId[s] # NoId
    <3> TAKE s \in Touched
    <3>1. slotId[s] # NoId /\ newCode[s] \in Codes
      BY <1>3 DEF Touched
    <3>2. NoCode \notin Codes
      BY CodesAssumption DEF NoCode
    <3> QED BY <3>1, <3>2, Zenon
  <2>3. \A s \in Slots : slotCode[s] # NoCode <=> slotId[s] # NoId
    BY DEF MemoryInv, IndexedIffLive
  <2> QED BY <1>2, <2>1, <2>2, <2>3 DEF IndexedIffLive
<1> QED BY <1>1, <1>8, <1>9, <1>10, <1>18, <1>19 DEF MemoryInv

\* Appending a listing of new elements to a sequence without repetitions gives
\* a sequence without repetitions of all of them: a free list that takes back
\* what an eviction released.
LEMMA AppendListing ==
  ASSUME NEW T, NEW S, S \subseteq T, IsFiniteSet(S), NEW p \in Seq(T), NEW q \in Listings(S),
         \A i, j \in DOMAIN p : p[i] = p[j] => i = j,
         \A i \in DOMAIN p : p[i] \notin S
  PROVE  /\ \A i, j \in DOMAIN (p \o q) : (p \o q)[i] = (p \o q)[j] => i = j
         /\ \A x : (\E i \in DOMAIN (p \o q) : (p \o q)[i] = x)
                     <=> ((\E i \in DOMAIN p : p[i] = x) \/ x \in S)
<1>1. /\ q \in Seq(T)
      /\ \A i \in DOMAIN q : q[i] \in S
      /\ \A x \in S : \E i \in DOMAIN q : q[i] = x
      /\ \A i, j \in DOMAIN q : q[i] = q[j] => i = j
  BY ListingType
<1> QED BY <1>1, AppendDistinct, Zenon

\* An observation keeps the memory consistent: evicted indices and emptied
\* slots go back to their free lists, and no remaining record loses its cluster.
LEMMA ObserveMemoryInv ==
  ASSUME MemoryInv,
         NEW ids \in SUBSET DOMAIN recordIndex, NEW usage \in [ids -> UsageRates],
         NEW evicting \in BOOLEAN, NEW E \in SUBSET IndicesOf(ids),
         ObserveRecallUsage(ids, usage, evicting, E)
  PROVE  MemoryInv'
<1>1. MemoryTypeOK /\ MemoryTypeOK' /\ MembershipConsistent
  BY ObserveTypeOK DEF MemoryInv
<1>2. /\ UNCHANGED <<slotCapacity, slotGeneration, recordCapacity, nextUnused, nextSerial, chunk>>
      /\ Slots' = Slots /\ Records' = Records /\ chunk = <<>>
  BY DEF ObserveRecallUsage, Slots, Records, Idle
<1>3. DOMAIN chunk = {} /\ DOMAIN chunk' = {} /\ Reserved = {} /\ Reserved' = {}
  BY <1>2 DEF Reserved
<1>4. E \subseteq Records /\ IsFiniteSet(E)
  <2>1. Known(ids)
    BY DEF Known
  <2> QED BY <1>1, <2>1, EvictedAreRecords, Zenon
<1>5. EvictRecords(E)
  BY DEF ObserveRecallUsage
<1>6. /\ \A s \in Slots : slotRecords'[s] = slotRecords[s] \ E
      /\ \A s \in Slots : slotId'[s] = IF s \in Emptied(E) THEN NoId ELSE slotId[s]
      /\ \A s \in Slots : slotCode'[s] = IF s \in Emptied(E) THEN NoCode ELSE slotCode[s]
      /\ \A r \in Records : recordSlot'[r] = IF r \in E THEN NoSlot ELSE recordSlot[r]
      /\ \A r \in Records : recordId'[r] = IF r \in E THEN NoId ELSE recordId[r]
  BY <1>5 DEF EvictRecords
<1>7. /\ recordSlot \in [Records -> Slots \cup {NoSlot}] /\ slotRecords \in [Slots -> SUBSET Records]
      /\ recordIndex \in [DOMAIN recordIndex -> Records]
      /\ freeSlots \in Seq(Slots) /\ freeRecords \in Seq(Records)
  BY <1>1 DEF MemoryTypeOK
<1>8. NoSlot \notin Slots
  BY DEF Slots, NoSlot
<1>9. \A r \in E : recordSlot[r] # NoSlot
  BY <1>1 DEF IndicesOf, MembershipConsistent
<1>10. /\ \A r \in Records : \A s \in Slots : r \in slotRecords[s] <=> recordSlot[r] = s
       /\ \A r \in Records : recordSlot[r] # NoSlot =>
            /\ slotId[recordSlot[r]] # NoId
            /\ recordId[r] \in DOMAIN recordIndex
            /\ recordIndex[recordId[r]] = r
       /\ \A d \in DOMAIN recordIndex :
            recordId[recordIndex[d]] = d /\ recordSlot[recordIndex[d]] # NoSlot
  BY <1>1 DEF MembershipConsistent
<1>11. \A s \in Emptied(E) : s \in Slots /\ slotId[s] # NoId
  <2> SUFFICES ASSUME NEW s \in Emptied(E) PROVE s \in Slots /\ slotId[s] # NoId
    OBVIOUS
  <2>1. s \in Slots /\ slotRecords[s] # {}
    BY DEF Emptied
  <2>2. PICK r \in slotRecords[s] : r \in Records
    BY <1>7, <2>1
  <2>3. recordSlot[r] = s
    BY <1>10, <2>1, <2>2
  <2> QED BY <1>8, <1>10, <2>1, <2>2, <2>3
<1>12. SlotsPartitioned'
  <2>1. Emptied(E) \subseteq Slots /\ IsFiniteSet(Emptied(E))
    <3>1. Emptied(E) \subseteq Slots
      BY DEF Emptied
    <3> QED BY <1>1, <3>1, SlotsFinite, Zenon
  <2>2. PICK order \in Listings(Emptied(E)) : freeSlots' = freeSlots \o order
    BY <1>5 DEF EvictRecords
  <2>3. /\ \A i, j \in DOMAIN freeSlots : freeSlots[i] = freeSlots[j] => i = j
        /\ \A s \in Slots : slotId[s] = NoId <=> \E i \in DOMAIN freeSlots : freeSlots[i] = s
    BY DEF MemoryInv, SlotsPartitioned
  <2>4. \A i \in DOMAIN freeSlots : freeSlots[i] \notin Emptied(E)
    BY <1>11, <2>3
  <2>5. /\ \A i, j \in DOMAIN freeSlots' : freeSlots'[i] = freeSlots'[j] => i = j
        /\ \A x : (\E i \in DOMAIN freeSlots' : freeSlots'[i] = x)
                    <=> ((\E i \in DOMAIN freeSlots : freeSlots[i] = x) \/ x \in Emptied(E))
    <3> DEFINE p == freeSlots \o order
    <3>1. /\ \A i, j \in DOMAIN p : p[i] = p[j] => i = j
          /\ \A x : (\E i \in DOMAIN p : p[i] = x)
                      <=> ((\E i \in DOMAIN freeSlots : freeSlots[i] = x) \/ x \in Emptied(E))
      BY <1>7, <2>1, <2>3, <2>4, AppendListing, Zenon
    <3> QED BY <2>2, <3>1
  <2>6. \A s \in Slots : slotId'[s] = NoId <=> \E i \in DOMAIN freeSlots' : freeSlots'[i] = s
    BY <1>6, <2>3, <2>5
  <2> QED BY <1>2, <2>5, <2>6 DEF SlotsPartitioned
<1>13. ChunkSlotsProtected'
  BY <1>3 DEF ChunkSlotsProtected
<1>14. RecordsPartitioned'
  <2>1. PICK order \in Listings(E) : freeRecords' = freeRecords \o order
    BY <1>5 DEF EvictRecords, ByPosition
  <2>2. \A i, j \in DOMAIN freeRecords : freeRecords[i] = freeRecords[j] => i = j
    BY DEF MemoryInv, RecordsPartitioned
  <2>3. ASSUME NEW r \in Records
        PROVE  LET free == \E i \in DOMAIN freeRecords : freeRecords[i] = r
                   active == recordSlot[r] # NoSlot
               IN IF r < nextUnused
                    THEN (free \/ active) /\ ~(free /\ active)
                    ELSE ~free /\ ~active
    BY <1>3 DEF MemoryInv, RecordsPartitioned
  <2>4. \A i \in DOMAIN freeRecords : freeRecords[i] \notin E
    BY <1>4, <1>9, <2>3
  <2>5. /\ \A i, j \in DOMAIN freeRecords' : freeRecords'[i] = freeRecords'[j] => i = j
        /\ \A x : (\E i \in DOMAIN freeRecords' : freeRecords'[i] = x)
                    <=> ((\E i \in DOMAIN freeRecords : freeRecords[i] = x) \/ x \in E)
    <3> DEFINE p == freeRecords \o order
    <3>1. /\ \A i, j \in DOMAIN p : p[i] = p[j] => i = j
          /\ \A x : (\E i \in DOMAIN p : p[i] = x)
                      <=> ((\E i \in DOMAIN freeRecords : freeRecords[i] = x) \/ x \in E)
      BY <1>4, <1>7, <2>2, <2>4, AppendListing, Zenon
    <3> QED BY <2>1, <3>1
  <2>6. ASSUME NEW r \in Records
        PROVE  LET free == \E i \in DOMAIN freeRecords' : freeRecords'[i] = r
                   active == recordSlot'[r] # NoSlot
               IN IF r < nextUnused
                    THEN (free \/ active) /\ ~(free /\ active)
                    ELSE ~free /\ ~active
    BY <1>6, <1>9, <2>3, <2>5
  <2> QED BY <1>2, <1>3, <2>5, <2>6 DEF RecordsPartitioned
<1>15. /\ DOMAIN recordIndex' = DOMAIN recordIndex \ {recordId[r] : r \in E}
       /\ \A d \in DOMAIN recordIndex' : recordIndex'[d] = recordIndex[d]
  BY <1>5 DEF EvictRecords
<1>16. MembershipConsistent'
  <2>1. ASSUME NEW r \in Records, NEW s \in Slots
        PROVE  r \in slotRecords'[s] <=> recordSlot'[r] = s
    BY <1>6, <1>8, <1>10
  <2>2. ASSUME NEW r \in Records, recordSlot'[r] # NoSlot
        PROVE  /\ slotId'[recordSlot'[r]] # NoId
               /\ recordId'[r] \in DOMAIN recordIndex'
               /\ recordIndex'[recordId'[r]] = r
    <3>1. r \notin E /\ recordSlot'[r] = recordSlot[r] /\ recordId'[r] = recordId[r]
      BY <1>6, <2>2
    <3>2. recordSlot[r] \in Slots /\ r \in slotRecords[recordSlot[r]]
      BY <1>7, <1>10, <2>2, <3>1
    <3>3. recordSlot[r] \notin Emptied(E)
      BY <3>1, <3>2 DEF Emptied
    <3>4. \A q \in E : recordId[q] # recordId[r]
      BY <1>4, <1>9, <1>10, <2>2, <3>1
    <3> QED BY <1>6, <1>10, <1>15, <2>2, <3>1, <3>2, <3>3, <3>4
  <2>3. ASSUME NEW d \in DOMAIN recordIndex'
        PROVE  recordId'[recordIndex'[d]] = d /\ recordSlot'[recordIndex'[d]] # NoSlot
    <3>1. d \in DOMAIN recordIndex /\ recordIndex'[d] = recordIndex[d] /\ recordIndex[d] \in Records
      BY <1>7, <1>15
    <3>2. recordIndex[d] \notin E
      BY <1>10, <1>15, <3>1
    <3> QED BY <1>6, <1>10, <3>1, <3>2
  <2> QED BY <1>2, <2>1, <2>2, <2>3 DEF MembershipConsistent
<1>17. IndexedIffLive'
  <2>1. \A s \in Slots : slotCode[s] # NoCode <=> slotId[s] # NoId
    BY DEF MemoryInv, IndexedIffLive
  <2> QED BY <1>2, <1>6, <2>1 DEF IndexedIffLive
<1> QED BY <1>1, <1>12, <1>13, <1>14, <1>16, <1>17 DEF MemoryInv

\* The first half of a chunk leaves every recalled record where it was.
LEMMA BeginSessionInv ==
  ASSUME IInv,
         NEW n \in 1..WriteChunk,
         NEW code \in [1..n -> Codes], NEW choice \in [1..n -> Slots \cup {NoSlot}],
         BeginChunk(n, code, choice), UNCHANGED sessionVars
  PROVE  SessionInv'
<1>1. /\ UNCHANGED <<slotCapacity, slotId, slotGeneration, slotRecords, recordIndex, nextSerial>>
      /\ Slots' = Slots /\ Live' = Live
  BY DEF BeginChunk, slotVars, Slots, Live
<1>2. UNCHANGED <<recalled, recallOf, recallTime>>
  BY DEF sessionVars, recallVars
<1>3. MemoryTypeOK /\ SessionInv /\ n \in Nat
  <2>1. WriteChunk \in Nat
    BY ConfigAssumption
  <2> QED BY <2>1 DEF IInv, MemoryInv
<1>4. \A r \in Records : recordSlot'[r] = recordSlot[r] /\ recordId'[r] = recordId[r]
  BY <1>3, BeginKeepsRecords
<1>5. /\ recordIndex \in [DOMAIN recordIndex -> Records]
      /\ slotRecords \in [Slots -> SUBSET Records]
  BY <1>3 DEF MemoryTypeOK
<1>6. SummariesHold'
  <2>1. ASSUME NEW d \in DOMAIN recallOf \cap DOMAIN recordIndex
        PROVE  <<recordSlot'[recordIndex[d]], slotId[recordSlot'[recordIndex[d]]]>> = recallOf[d]
    BY <1>3, <1>4, <1>5 DEF SessionInv, SummariesHold, ClusterId
  <2>2. ASSUME NEW s \in Live, <<s, slotId[s]>> \in recalled,
               NEW r \in slotRecords[s], recordId'[r] <= recallTime
        PROVE  recordId'[r] \in DOMAIN recallOf /\ recallOf[recordId'[r]] = <<s, slotId[s]>>
    BY <1>3, <1>4, <1>5, <2>2 DEF SessionInv, SummariesHold, ClusterId, Live
  <2> QED BY <1>1, <1>2, <2>1, <2>2 DEF SummariesHold, ClusterId
<1> QED BY <1>1, <1>2, <1>3, <1>6 DEF SessionInv

\* A cluster that is opened has a generation no recalled id carries.
LEMMA AllocateSessionInv ==
  ASSUME IInv, NEW i \in DOMAIN chunk, AllocateSlot(i), UNCHANGED sessionVars
  PROVE  SessionInv'
<1> DEFINE f == NextFreeSlot
           g == Grown(slotGeneration, 0)
<1>1. MemoryInv /\ MemoryTypeOK /\ SessionInv
  BY DEF IInv, MemoryInv
<1>2. /\ UNCHANGED <<recalled, recallOf, recallTime>>
      /\ UNCHANGED <<recordSlot, recordId, recordIndex, nextSerial>>
      /\ Slots' = 0..(SlotsAfterGrowth - 1)
  BY DEF AllocateSlot, recordVars, sessionVars, recallVars, Slots
<1>3. f \in Slots' /\ Slots \subseteq Slots'
  <2>1. /\ slotCapacity \in Nat /\ SlotsAfterGrowth \in Nat /\ slotCapacity <= SlotsAfterGrowth
        /\ f \in 0..(SlotsAfterGrowth - 1)
    BY <1>1, GrowthProperties DEF MemoryTypeOK
  <2>2. Slots \subseteq 0..(SlotsAfterGrowth - 1)
    BY <2>1 DEF Slots
  <2> QED BY <1>2, <2>1, <2>2
<1>4. DOMAIN slotId = Slots /\ DOMAIN slotGeneration = Slots /\ DOMAIN slotRecords = Slots
  BY <1>1 DEF MemoryTypeOK
<1>5. /\ \A s \in Slots : Grown(slotId, NoId)[s] = slotId[s]
      /\ \A s \in Slots' : s \notin Slots => Grown(slotId, NoId)[s] = NoId
  BY <1>1, <1>2, <1>4, GrownValues
<1>6. /\ \A s \in Slots : g[s] = slotGeneration[s]
      /\ \A s \in Slots' : s \notin Slots => g[s] = 0
  BY <1>1, <1>2, <1>4, GrownValues
<1>7. \A s \in Slots : Grown(slotRecords, {})[s] = slotRecords[s]
  BY <1>1, <1>4, GrownValues
<1>8. \A s \in Slots' : g[s] \in Nat
  <2>1. slotGeneration \in [Slots -> Nat]
    BY <1>1 DEF MemoryTypeOK
  <2> QED BY <1>6, <2>1
<1>9. /\ slotGeneration' = [g EXCEPT ![f] = @ + 1]
      /\ slotId' = [Grown(slotId, NoId) EXCEPT ![f] = g[f] + 1]
      /\ slotRecords' = [Grown(slotRecords, {}) EXCEPT ![f] = {}]
      /\ DOMAIN g = Slots' /\ DOMAIN Grown(slotId, NoId) = Slots'
      /\ DOMAIN Grown(slotRecords, {}) = Slots'
  BY <1>2 DEF AllocateSlot, Grown, Extend
<1> HIDE DEF f, g
<1>10. /\ slotId'[f] = g[f] + 1 /\ slotGeneration'[f] = g[f] + 1 /\ slotRecords'[f] = {}
       /\ \A s \in Slots' : s # f => /\ slotId'[s] = Grown(slotId, NoId)[s]
                                     /\ slotGeneration'[s] = g[s]
                                     /\ slotRecords'[s] = Grown(slotRecords, {})[s]
  BY <1>3, <1>9
<1>11. \A s \in Slots : slotId[s] # NoId => s # f
  <2>1. Grown(slotId, NoId)[f] = NoId
    BY <1>1, <1>3, NextFreeSlotIsFree DEF f
  <2> QED BY <1>5, <2>1
<1>12. \A s \in Slots' : g[s] <= slotGeneration'[s]
  BY <1>8, <1>10
<1>13. \A s \in Live' : s = f \/ (s \in Live /\ slotId'[s] = slotId[s]
                                 /\ slotGeneration'[s] = slotGeneration[s]
                                 /\ slotRecords'[s] = slotRecords[s])
  <2> SUFFICES ASSUME NEW s \in Slots', slotId'[s] # NoId, s # f
               PROVE  /\ s \in Slots /\ slotId[s] # NoId /\ slotId'[s] = slotId[s]
                      /\ slotGeneration'[s] = slotGeneration[s]
                      /\ slotRecords'[s] = slotRecords[s]
    BY DEF Live
  <2>1. s \in Slots
    BY <1>5, <1>10
  <2> QED BY <1>5, <1>6, <1>7, <1>10, <2>1
<1>14. \A s \in Live' : slotId'[s] = slotGeneration'[s]
  BY <1>1, <1>10, <1>13 DEF SessionInv
<1>15. \A c \in recalled : c[2] <= slotGeneration'[c[1]]
  <2> SUFFICES ASSUME NEW c \in recalled PROVE c[2] <= slotGeneration'[c[1]]
    OBVIOUS
  <2>1. c[1] \in Slots /\ c[2] \in Nat /\ c[2] <= slotGeneration[c[1]]
    BY <1>1 DEF SessionInv
  <2>2. c[1] \in Slots' /\ g[c[1]] = slotGeneration[c[1]]
    BY <1>3, <1>6, <2>1
  <2>3. g[c[1]] \in Nat /\ slotGeneration'[c[1]] \in Nat /\ g[c[1]] <= slotGeneration'[c[1]]
    BY <1>8, <1>10, <1>12, <2>2
  <2> QED BY <2>1, <2>2, <2>3
<1>16. SummariesHold'
  <2>1. ASSUME NEW d \in DOMAIN recallOf \cap DOMAIN recordIndex
        PROVE  <<recordSlot[recordIndex[d]], slotId'[recordSlot[recordIndex[d]]]>> = recallOf[d]
    <3> DEFINE s == recordSlot[recordIndex[d]]
    <3>1. <<s, slotId[s]>> = recallOf[d]
      BY <1>1 DEF SessionInv, SummariesHold, ClusterId
    <3>2. s \in Slots /\ slotId[s] # NoId
      <4>1. recordIndex[d] \in Records /\ recordSlot \in [Records -> Slots \cup {NoSlot}]
        BY <1>1 DEF MemoryTypeOK
      <4> QED BY <1>1, <4>1 DEF MemoryInv, MembershipConsistent
    <3> HIDE DEF s
    <3>3. slotId'[s] = slotId[s]
      BY <1>3, <1>5, <1>10, <1>11, <3>2
    <3> QED BY <3>1, <3>3 DEF s
  <2>2. ASSUME NEW s \in Live', <<s, slotId'[s]>> \in recalled,
               NEW r \in slotRecords'[s], recordId[r] <= recallTime
        PROVE  recordId[r] \in DOMAIN recallOf /\ recallOf[recordId[r]] = <<s, slotId'[s]>>
    <3>1. s # f
      BY <1>10
    <3>2. s \in Live /\ slotId'[s] = slotId[s] /\ slotRecords'[s] = slotRecords[s]
      BY <1>13, <3>1
    <3> QED BY <1>1, <2>2, <3>2 DEF SessionInv, SummariesHold, ClusterId
  <2> QED BY <1>2, <2>1, <2>2 DEF SummariesHold, ClusterId
<1>17. recalled \subseteq Slots' \X Nat
  BY <1>1, <1>3 DEF SessionInv
<1> QED BY <1>1, <1>2, <1>14, <1>15, <1>16, <1>17 DEF SessionInv

\* Records committed after a recall are younger than all recalled ones.
LEMMA CommitSessionInv ==
  ASSUME IInv, NEW newCode \in [Touched -> Codes], CommitChunk(newCode), UNCHANGED sessionVars
  PROVE  SessionInv'
<1>1. MemoryInv /\ MemoryTypeOK /\ SessionInv
  BY DEF IInv, MemoryInv
<1>2. /\ UNCHANGED <<recalled, recallOf, recallTime>>
      /\ UNCHANGED <<slotCapacity, slotId, slotGeneration>>
      /\ Slots' = Slots /\ Live' = Live
  BY DEF CommitChunk, sessionVars, recallVars, Slots, Live
<1>3. /\ recallTime \in Nat /\ recallTime <= nextSerial /\ nextSerial \in Nat
      /\ DOMAIN recallOf \subseteq 1..recallTime
  BY <1>1 DEF SessionInv, MemoryTypeOK
<1>4. DOMAIN chunk = 1..Len(chunk) /\ Len(chunk) \in Nat
  BY <1>1, LenProperties DEF MemoryTypeOK
<1>5. /\ nextSerial' = nextSerial + Len(chunk)
      /\ recallTime \in 0..nextSerial'
  <2>1. nextSerial' = nextSerial + Len(chunk)
    BY DEF CommitChunk
  <2> QED BY <1>3, <1>4, <2>1
<1>6. /\ \A i \in DOMAIN chunk : chunk[i].index \in Reserved
      /\ \A r \in Reserved : RowAt(r) \in 1..Len(chunk) /\ chunk[RowAt(r)].index = r
  BY <1>1, <1>4, RowsAndIndices
<1>7. \A r \in Records : /\ r \in Reserved => recordId'[r] = nextSerial + RowAt(r)
                         /\ r \notin Reserved => /\ recordId'[r] = recordId[r]
                                                 /\ recordSlot'[r] = recordSlot[r]
  BY DEF CommitChunk
<1>8. \A r \in Reserved : r \in Records /\ recordSlot[r] = NoSlot
  <2>1. \A r \in Reserved : r \in Records
    BY <1>1, ChunkTypes DEF Reserved
  <2> QED BY <1>1, <2>1 DEF MemoryInv, RecordsPartitioned
<1>9. ASSUME NEW d \in DOMAIN recallOf, d \in DOMAIN recordIndex'
      PROVE  /\ d \in DOMAIN recordIndex /\ recordIndex'[d] = recordIndex[d]
             /\ recordSlot'[recordIndex[d]] = recordSlot[recordIndex[d]]
  <2>1. ~(d > nextSerial) /\ d \notin (nextSerial + 1)..(nextSerial + Len(chunk))
    BY <1>3, <1>4
  <2>2. d \in DOMAIN recordIndex /\ recordIndex'[d] = recordIndex[d]
    BY <1>9, <2>1 DEF CommitChunk
  <2>3. recordIndex[d] \in Records /\ recordSlot[recordIndex[d]] # NoSlot
    BY <1>1, <2>2 DEF MemoryInv, MembershipConsistent, MemoryTypeOK
  <2> QED BY <1>7, <1>8, <2>2, <2>3
<1>10. ASSUME NEW s \in Slots, NEW r \in slotRecords'[s], recordId'[r] <= recallTime
       PROVE  r \in slotRecords[s] /\ recordId'[r] = recordId[r]
  <2>1. slotRecords'[s] = slotRecords[s] \cup {chunk[i].index : i \in RowsOf(s)}
    BY DEF CommitChunk
  <2>2. slotRecords[s] \subseteq Records
    BY <1>1 DEF MemoryTypeOK
  <2>3. r \in slotRecords[s] \/ r \in Reserved
    BY <1>6, <2>1 DEF RowsOf
  <2>4. r \notin Reserved
    <3> SUFFICES ASSUME r \in Reserved PROVE FALSE
      OBVIOUS
    <3>1. recordId'[r] = nextSerial + RowAt(r) /\ RowAt(r) \in 1..Len(chunk)
      BY <1>6, <1>7, <1>8
    <3> QED BY <1>3, <1>4, <1>10, <3>1
  <2> QED BY <1>7, <2>2, <2>3, <2>4
<1>11. SummariesHold'
  <2>1. ASSUME NEW d \in DOMAIN recallOf \cap DOMAIN recordIndex'
        PROVE  <<recordSlot'[recordIndex'[d]], slotId[recordSlot'[recordIndex'[d]]]>> = recallOf[d]
    BY <1>1, <1>9 DEF SessionInv, SummariesHold, ClusterId
  <2>2. ASSUME NEW s \in Live, <<s, slotId[s]>> \in recalled,
               NEW r \in slotRecords'[s], recordId'[r] <= recallTime
        PROVE  recordId'[r] \in DOMAIN recallOf /\ recallOf[recordId'[r]] = <<s, slotId[s]>>
    <3>1. s \in Slots
      BY DEF Live
    <3>2. r \in slotRecords[s] /\ recordId'[r] = recordId[r]
      BY <1>10, <2>2, <3>1
    <3> QED BY <1>1, <2>2, <3>2 DEF SessionInv, SummariesHold, ClusterId
  <2> QED BY <1>2, <2>1, <2>2 DEF SummariesHold, ClusterId
<1> QED BY <1>1, <1>2, <1>5, <1>11 DEF SessionInv

\* An eviction removes records and cluster ids but changes none that remain.
LEMMA ObserveSessionInv ==
  ASSUME IInv,
         NEW ids \in SUBSET DOMAIN recordIndex, NEW usage \in [ids -> UsageRates],
         NEW evicting \in BOOLEAN, NEW E \in SUBSET IndicesOf(ids),
         ObserveRecallUsage(ids, usage, evicting, E), UNCHANGED recallVars
  PROVE  SessionInv'
<1>1. MemoryInv /\ MemoryTypeOK /\ SessionInv /\ MembershipConsistent
  BY DEF IInv, MemoryInv
<1>2. /\ UNCHANGED <<recalled, recallOf, recallTime>>
      /\ UNCHANGED <<slotCapacity, slotGeneration, nextSerial>>
      /\ Slots' = Slots /\ Records' = Records
  BY DEF ObserveRecallUsage, recallVars, Slots, Records
<1>3. EvictRecords(E)
  BY DEF ObserveRecallUsage
<1>4. /\ \A s \in Slots : slotRecords'[s] = slotRecords[s] \ E
      /\ \A s \in Slots : slotId'[s] = IF s \in Emptied(E) THEN NoId ELSE slotId[s]
      /\ \A r \in Records : r \notin E => recordSlot'[r] = recordSlot[r] /\ recordId'[r] = recordId[r]
      /\ DOMAIN recordIndex' = DOMAIN recordIndex \ {recordId[r] : r \in E}
      /\ \A d \in DOMAIN recordIndex' : recordIndex'[d] = recordIndex[d]
  BY <1>3 DEF EvictRecords
<1>5. \A s \in Live' : s \in Live /\ slotId'[s] = slotId[s]
  BY <1>2, <1>4 DEF Live
<1>6. ASSUME NEW d \in DOMAIN recallOf, d \in DOMAIN recordIndex'
      PROVE  <<recordSlot'[recordIndex'[d]], slotId'[recordSlot'[recordIndex'[d]]]>> = recallOf[d]
  <2> DEFINE r == recordIndex[d]
             s == recordSlot[r]
  <2>1. d \in DOMAIN recordIndex /\ recordIndex'[d] = r /\ recordId[r] = d /\ s # NoSlot
    BY <1>1, <1>4, <1>6 DEF MembershipConsistent
  <2>2. r \in Records /\ r \notin E
    BY <1>1, <1>4, <1>6, <2>1 DEF MemoryTypeOK
  <2>3. recordSlot'[r] = s
    BY <1>4, <2>2
  <2>4. s \in Slots /\ r \in slotRecords[s]
    BY <1>1, <2>1, <2>2 DEF MemoryTypeOK, MembershipConsistent
  <2>5. s \notin Emptied(E)
    BY <2>2, <2>4 DEF Emptied
  <2>6. slotId'[s] = slotId[s]
    BY <1>4, <2>4, <2>5
  <2>7. <<s, slotId[s]>> = recallOf[d]
    BY <1>1, <2>1 DEF SessionInv, SummariesHold, ClusterId
  <2> QED BY <2>1, <2>3, <2>6, <2>7
<1>7. ASSUME NEW s \in Live', <<s, slotId'[s]>> \in recalled,
             NEW r \in slotRecords'[s], recordId'[r] <= recallTime
      PROVE  recordId'[r] \in DOMAIN recallOf /\ recallOf[recordId'[r]] = <<s, slotId'[s]>>
  <2>1. s \in Slots /\ s \in Live /\ slotId'[s] = slotId[s]
    BY <1>5 DEF Live
  <2>2. r \in slotRecords[s] /\ r \notin E /\ r \in Records
    BY <1>1, <1>4, <2>1 DEF MemoryTypeOK
  <2>3. recordId'[r] = recordId[r]
    BY <1>4, <2>2
  <2> QED BY <1>1, <1>7, <2>1, <2>2, <2>3 DEF SessionInv, SummariesHold, ClusterId
<1>8. SummariesHold'
  BY <1>2, <1>6, <1>7 DEF SummariesHold, ClusterId
<1> QED BY <1>1, <1>2, <1>5, <1>8 DEF SessionInv

\* The summaries of a recall agree with the memory they were taken from.
LEMMA RecallSessionInv ==
  ASSUME IInv, Recall
  PROVE  SessionInv'
<1>1. MemoryInv /\ MemoryTypeOK /\ SessionInv /\ MembershipConsistent
  BY DEF IInv, MemoryInv
<1>2. /\ UNCHANGED <<slotCapacity, slotId, slotGeneration, slotRecords, recordSlot, recordId,
                     recordIndex, nextSerial>>
      /\ Slots' = Slots /\ Records' = Records /\ Live' = Live /\ recallTime' = nextSerial
  BY DEF Recall, memoryVars, slotVars, recordVars, Slots, Records, Live
<1>3. PICK S \in SUBSET {s \in Slots : slotActive[s]} :
        /\ recalled' = {ClusterId(s) : s \in S}
        /\ recallOf' = [d \in {recordId[r] : r \in UNION {slotRecords[s] : s \in S}} |->
                          ClusterId(CHOOSE s \in S : recordIndex[d] \in slotRecords[s])]
  BY DEF Recall
<1>4. /\ slotId \in [Slots -> Nat] /\ slotGeneration \in [Slots -> Nat]
      /\ slotRecords \in [Slots -> SUBSET Records] /\ nextSerial \in Nat
      /\ recordIndex \in [DOMAIN recordIndex -> Records]
      /\ DOMAIN recordIndex \subseteq 1..nextSerial
  BY <1>1 DEF MemoryTypeOK
<1>5. NoSlot \notin Slots
  BY DEF Slots, NoSlot
<1>6. ASSUME NEW s \in S, NEW r \in slotRecords[s]
      PROVE  /\ r \in Records /\ recordId[r] \in DOMAIN recordIndex
             /\ recordIndex[recordId[r]] = r /\ recordSlot[r] = s
             /\ recordId[r] \in DOMAIN recallOf' /\ recallOf'[recordId[r]] = <<s, slotId[s]>>
  <2>1. s \in Slots /\ r \in Records
    BY <1>4
  <2>2. recordSlot[r] = s /\ recordSlot[r] # NoSlot
    BY <1>1, <1>5, <2>1 DEF MembershipConsistent
  <2>3. recordId[r] \in DOMAIN recordIndex /\ recordIndex[recordId[r]] = r
    BY <1>1, <2>1, <2>2 DEF MembershipConsistent
  <2>4. \A t \in S : r \in slotRecords[t] => t = s
    BY <1>1, <2>1, <2>2 DEF MembershipConsistent
  <2>5. (CHOOSE t \in S : recordIndex[recordId[r]] \in slotRecords[t]) = s
    BY <2>3, <2>4
  <2>6. recordId[r] \in DOMAIN recallOf'
    BY <1>3
  <2>7. recallOf'[recordId[r]] = ClusterId(CHOOSE t \in S : recordIndex[recordId[r]] \in slotRecords[t])
    BY <1>3, <2>6
  <2> QED BY <2>1, <2>2, <2>3, <2>5, <2>6, <2>7 DEF ClusterId
<1>7. ASSUME NEW d \in DOMAIN recallOf'
      PROVE  \E s \in S : \E r \in slotRecords[s] : d = recordId[r]
  BY <1>3
<1>8. recalled' \subseteq Slots \X Nat /\ \A s \in S : <<s, slotId[s]>> \in recalled'
  BY <1>3, <1>4 DEF ClusterId
<1>9. \A s \in Slots : slotId[s] <= slotGeneration[s]
  <2>1. \A s \in Slots : slotId[s] = NoId \/ slotId[s] = slotGeneration[s]
    BY <1>1 DEF SessionInv, Live
  <2> QED BY <1>4, <2>1 DEF NoId
<1>10. \A c \in recalled' : c[2] <= slotGeneration[c[1]]
  BY <1>3, <1>9 DEF ClusterId
<1>11. DOMAIN recallOf' \subseteq 1..nextSerial
  BY <1>4, <1>6, <1>7
<1>12. recallOf' \in [DOMAIN recallOf' -> recalled']
  <2>1. \A d \in DOMAIN recallOf' : recallOf'[d] \in recalled'
    <3> SUFFICES ASSUME NEW d \in DOMAIN recallOf' PROVE recallOf'[d] \in recalled'
      OBVIOUS
    <3>1. PICK s \in S : \E r \in slotRecords[s] : d = recordId[r]
      BY <1>7
    <3>2. PICK r \in slotRecords[s] : d = recordId[r]
      BY <3>1
    <3>3. recallOf'[d] = <<s, slotId[s]>>
      BY <1>6, <3>2
    <3> QED BY <1>8, <3>3
  <2>2. recallOf' = [d \in DOMAIN recallOf' |-> recallOf'[d]]
    BY <1>3
  <2> QED BY <2>1, <2>2
<1>13. SummariesHold'
  <2>1. ASSUME NEW d \in DOMAIN recallOf'
        PROVE  <<recordSlot[recordIndex[d]], slotId[recordSlot[recordIndex[d]]]>> = recallOf'[d]
    <3>1. PICK s \in S : \E r \in slotRecords[s] : d = recordId[r]
      BY <1>7
    <3>2. PICK r \in slotRecords[s] : d = recordId[r]
      BY <3>1
    <3>3. recordIndex[d] = r /\ recordSlot[r] = s /\ recallOf'[d] = <<s, slotId[s]>>
      BY <1>6, <3>2
    <3> QED BY <3>3
  <2>2. ASSUME NEW s \in Live, <<s, slotId[s]>> \in recalled', NEW r \in slotRecords[s]
        PROVE  recordId[r] \in DOMAIN recallOf' /\ recallOf'[recordId[r]] = <<s, slotId[s]>>
    <3>1. s \in S
      BY <1>3, <2>2 DEF ClusterId
    <3> QED BY <1>6, <3>1
  <2> QED BY <1>2, <2>1, <2>2 DEF SummariesHold, ClusterId
<1>14. nextSerial \in 0..nextSerial
  BY <1>4
<1> QED BY <1>1, <1>2, <1>8, <1>10, <1>11, <1>12, <1>13, <1>14 DEF SessionInv

\* A step that leaves the memory alone keeps it consistent.
LEMMA UnchangedMemoryInv ==
  ASSUME MemoryInv, UNCHANGED memoryVars
  PROVE  MemoryInv'
<1> USE DEF memoryVars, slotVars, recordVars
<1>1. Slots' = Slots /\ Records' = Records /\ Reserved' = Reserved
  BY DEF Slots, Records, Reserved
<1>2. MemoryTypeOK'
  BY <1>1 DEF MemoryInv, MemoryTypeOK, RowType
<1>3. SlotsPartitioned' /\ ChunkSlotsProtected'
  BY <1>1 DEF MemoryInv, SlotsPartitioned, ChunkSlotsProtected
<1>4. RecordsPartitioned'
  BY <1>1 DEF MemoryInv, RecordsPartitioned
<1>5. MembershipConsistent' /\ IndexedIffLive'
  BY <1>1 DEF MemoryInv, MembershipConsistent, IndexedIffLive
<1> QED BY <1>2, <1>3, <1>4, <1>5 DEF MemoryInv

\* A step that changes nothing keeps the session's invariant.
LEMMA UnchangedSessionInv ==
  ASSUME SessionInv, UNCHANGED memoryVars, UNCHANGED sessionVars
  PROVE  SessionInv'
  BY DEF memoryVars, slotVars, recordVars, sessionVars, recallVars, SessionInv, SummariesHold,
         Live, Slots, ClusterId

\* A session that has recalled nothing holds nothing stale.
LEMMA InitSessionInv == Init => SessionInv
<1> SUFFICES ASSUME Init PROVE SessionInv
  OBVIOUS
<1>1. recalled = {} /\ recallOf = [d \in {} |-> <<0, 0>>] /\ recallTime = 0 /\ nextSerial = 0
  BY DEF Init, MemoryInit
<1>2. DOMAIN recallOf = {} /\ recallOf \in [DOMAIN recallOf -> recalled]
  BY <1>1
<1>3. Live = {}
  BY DEF Init, MemoryInit, Live, Slots
<1>4. SummariesHold
  BY <1>2, <1>3 DEF SummariesHold
<1> QED BY <1>1, <1>2, <1>3, <1>4 DEF SessionInv

\* While the ids of the slots stay, so does what they are apart from.
LEMMA KeepsEmptiedInv ==
  ASSUME EmptiedInv, UNCHANGED <<slotCapacity, slotId, recalled, emptied>>
  PROVE  EmptiedInv'
  BY DEF EmptiedInv, IdsNeverReused, Live, Slots, ClusterId

\* The generation of a slot that is opened is above that of every id of it held.
LEMMA AllocateEmptiedInv ==
  ASSUME IInv, NEW i \in DOMAIN chunk, AllocateSlot(i), UNCHANGED sessionVars
  PROVE  EmptiedInv'
<1> DEFINE f == NextFreeSlot
           g == Grown(slotGeneration, 0)
<1>1. MemoryInv /\ MemoryTypeOK /\ SessionInv /\ EmptiedInv
  BY DEF IInv, MemoryInv
<1>2. /\ recalled' = recalled /\ emptied' = emptied
      /\ Slots' = 0..(SlotsAfterGrowth - 1)
  BY DEF AllocateSlot, sessionVars, recallVars, Slots
<1>3. f \in Slots' /\ Slots \subseteq Slots'
  <2>1. /\ slotCapacity \in Nat /\ SlotsAfterGrowth \in Nat /\ slotCapacity <= SlotsAfterGrowth
        /\ f \in 0..(SlotsAfterGrowth - 1)
    BY <1>1, GrowthProperties DEF MemoryTypeOK
  <2>2. Slots \subseteq 0..(SlotsAfterGrowth - 1)
    BY <2>1 DEF Slots
  <2> QED BY <1>2, <2>1, <2>2
<1>4. /\ DOMAIN slotId = Slots /\ DOMAIN slotGeneration = Slots
      /\ slotGeneration \in [Slots -> Nat]
  BY <1>1 DEF MemoryTypeOK
<1>5. \A s \in Slots : Grown(slotId, NoId)[s] = slotId[s] /\ g[s] = slotGeneration[s]
  BY <1>1, <1>4, GrownValues
<1>6. /\ slotId' = [Grown(slotId, NoId) EXCEPT ![f] = g[f] + 1]
      /\ DOMAIN Grown(slotId, NoId) = Slots'
  BY <1>2 DEF AllocateSlot, Grown, Extend
<1> HIDE DEF f, g
<1>7. slotId'[f] = g[f] + 1 /\ \A s \in Slots' : s # f => slotId'[s] = Grown(slotId, NoId)[s]
  BY <1>3, <1>6
<1>8. ASSUME NEW s \in emptied, slotId'[s] # NoId, <<s, slotId'[s]>> \in recalled
      PROVE  FALSE
  <2>1. s \in Slots /\ s \in Slots'
    BY <1>1, <1>3 DEF EmptiedInv
  <2>2. CASE s = f
    <3>1. slotGeneration[s] \in Nat /\ slotId'[s] = slotGeneration[s] + 1
      BY <1>4, <1>5, <1>7, <2>1, <2>2
    <3>2. slotId'[s] <= slotGeneration[s]
      BY <1>1, <1>8 DEF SessionInv
    <3> QED BY <3>1, <3>2
  <2>3. CASE s # f
    <3>1. slotId'[s] = slotId[s]
      BY <1>5, <1>7, <2>1, <2>3
    <3> QED BY <1>1, <1>8, <2>1, <3>1 DEF EmptiedInv, IdsNeverReused, Live, ClusterId
  <2> QED BY <2>2, <2>3
<1>9. emptied' \subseteq Slots'
  BY <1>1, <1>2, <1>3 DEF EmptiedInv
<1> QED BY <1>2, <1>8, <1>9 DEF EmptiedInv, IdsNeverReused, Live, ClusterId

\* A slot an eviction empties is no longer live, and the others keep their ids.
LEMMA ObserveEmptiedInv ==
  ASSUME IInv, NEW E, EvictRecords(E), slotCapacity' = slotCapacity, recalled' = recalled,
         emptied' = emptied \cup Emptied(E)
  PROVE  EmptiedInv'
<1>1. EmptiedInv
  BY DEF IInv
<1>2. Slots' = Slots /\ Emptied(E) \subseteq Slots
  BY DEF Slots, Emptied
<1>3. \A s \in Slots : slotId'[s] = IF s \in Emptied(E) THEN NoId ELSE slotId[s]
  BY DEF EvictRecords
<1> QED BY <1>1, <1>2, <1>3 DEF EmptiedInv, IdsNeverReused, Live, ClusterId

\* The induction hypothesis holds in every reachable state, for all values of
\* the constants: no bound of the model-checking runs is assumed.
THEOREM Invariance == Spec => []IInv
<1>1. Init => IInv
  <2>1. Init => EmptiedInv
    BY DEF Init, EmptiedInv, IdsNeverReused
  <2> QED BY <2>1, InitMemoryInv, InitSessionInv DEF IInv
<1>2. IInv /\ [Next]_vars => IInv'
  <2> SUFFICES ASSUME IInv, [Next]_vars PROVE IInv'
    OBVIOUS
  <2>0. MemoryInv /\ SessionInv /\ EmptiedInv
    BY DEF IInv
  <2>1. CASE BeginSome /\ UNCHANGED sessionVars
    <3>1. PICK n \in 1..WriteChunk :
            \E code \in [1..n -> Codes], choice \in [1..n -> Slots \cup {NoSlot}] :
              BeginChunk(n, code, choice)
      BY <2>1 DEF BeginSome
    <3>2. PICK code \in [1..n -> Codes], choice \in [1..n -> Slots \cup {NoSlot}] :
            BeginChunk(n, code, choice)
      BY <3>1
    <3>3. MemoryInv'
      BY <2>0, <3>2, BeginMemoryInv
    <3>4. SessionInv'
      BY <2>1, <3>2, BeginSessionInv
    <3>5. EmptiedInv'
      BY <2>0, <2>1, <3>2, KeepsEmptiedInv DEF BeginChunk, slotVars, sessionVars, recallVars
    <3> QED BY <3>3, <3>4, <3>5 DEF IInv
  <2>2. CASE AllocateSome /\ UNCHANGED sessionVars
    BY <2>0, <2>2, AllocateMemoryInv, AllocateSessionInv, AllocateEmptiedInv DEF AllocateSome, IInv
  <2>3. CASE CommitSome /\ UNCHANGED sessionVars
    <3>1. MemoryInv' /\ SessionInv'
      BY <2>0, <2>3, CommitMemoryInv, CommitSessionInv DEF CommitSome
    <3>2. EmptiedInv'
      BY <2>0, <2>3, KeepsEmptiedInv DEF CommitSome, CommitChunk, sessionVars, recallVars
    <3> QED BY <3>1, <3>2 DEF IInv
  <2>4. CASE Recall
    <3>1. UNCHANGED memoryVars
      BY <2>4 DEF Recall
    <3>2. MemoryInv'
      BY <2>0, <3>1, UnchangedMemoryInv
    <3>3. EmptiedInv'
      BY <2>4 DEF Recall, EmptiedInv, IdsNeverReused
    <3> QED BY <2>4, <3>2, <3>3, RecallSessionInv DEF IInv
  <2>5. CASE Observe
    <3>1. PICK ids \in SUBSET DOMAIN recallOf :
            \E usage \in [ids -> UsageRates] : \E evicting \in BOOLEAN :
            \E E \in SUBSET IndicesOf(ids \cap DOMAIN recordIndex) :
              /\ ObserveRecallUsage(ids, usage, evicting, E)
              /\ emptied' = emptied \cup Emptied(E)
      BY <2>5 DEF Observe
    <3>2. PICK usage \in [ids -> UsageRates], evicting \in BOOLEAN,
               E \in SUBSET IndicesOf(ids \cap DOMAIN recordIndex) :
            /\ ObserveRecallUsage(ids, usage, evicting, E)
            /\ emptied' = emptied \cup Emptied(E)
      BY <3>1
    <3>3. ids \in SUBSET DOMAIN recordIndex /\ ids \cap DOMAIN recordIndex = ids
      BY <3>2 DEF ObserveRecallUsage, Accepts, Known
    <3>4. E \in SUBSET IndicesOf(ids)
      BY <3>3
    <3>5. UNCHANGED recallVars
      BY <2>5 DEF Observe
    <3>6. MemoryInv'
      BY <2>0, <3>2, <3>3, <3>4, ObserveMemoryInv
    <3>7. SessionInv'
      BY <3>2, <3>3, <3>4, <3>5, ObserveSessionInv
    <3>8. EmptiedInv'
      BY <2>0, <3>2, <3>5, ObserveEmptiedInv DEF ObserveRecallUsage, recallVars
    <3> QED BY <3>6, <3>7, <3>8 DEF IInv
  <2>6. CASE UNCHANGED vars
    <3>1. MemoryInv' /\ SessionInv'
      BY <2>0, <2>6, UnchangedMemoryInv, UnchangedSessionInv DEF vars
    <3>2. EmptiedInv'
      BY <2>0, <2>6, KeepsEmptiedInv DEF vars, memoryVars, slotVars, sessionVars, recallVars
    <3> QED BY <3>1, <3>2 DEF IInv
  <2> QED BY <2>1, <2>2, <2>3, <2>4, <2>5, <2>6 DEF Next
<1> QED BY <1>1, <1>2, PTL DEF Spec

\* Every variable of the memory and of its session always has its type.
THEOREM TypeCorrect == Spec => []TypeOK
<1>1. IInv => TypeOK
  BY DEF IInv, MemoryInv, SessionInv, EmptiedInv, TypeOK
<1> QED BY <1>1, Invariance, PTL

\* The memory never loses or duplicates a slot or a record index, its views of
\* cluster membership always agree, and a slot that a row of the current chunk
\* selected is not recycled before the commit (ingest_block, _evict_record_indices).
THEOREM MemoryConsistent ==
  Spec => []TablesConsistent
<1>1. IInv => TablesConsistent
  BY DEF IInv, MemoryInv, TablesConsistent
<1> QED BY <1>1, Invariance, PTL

\* However many chunks are ingested and records evicted after a recall, and
\* though slots and indices are recycled, what the frozen summaries say of the
\* records and clusters that still exist remains true, and no held id becomes
\* the id of a cluster opened in the slot of one that is gone (router_clusters,
\* _allocate_slot's generations).
THEOREM RecallStaysValid == Spec => []RecallNeverMisattributed
<1>1. IInv => RecallNeverMisattributed
  BY DEF IInv, SessionInv, EmptiedInv, RecallNeverMisattributed
<1> QED BY <1>1, Invariance, PTL


------------------------------------------------------------------------------
(* What the steps do to the tables.                                        *)

\* The slot tables after row i has opened its cluster.
LEMMA AllocateEffect ==
  ASSUME MemoryInv, NEW i \in DOMAIN chunk, AllocateSlot(i)
  PROVE  /\ Slots' = 0..(SlotsAfterGrowth - 1) /\ Slots \subseteq Slots' /\ NextFreeSlot \in Slots'
         /\ NextFreeSlot \in Slots => slotId[NextFreeSlot] = NoId
         /\ slotId'[NextFreeSlot] # NoId
         /\ \A s \in Slots' :
              /\ slotRecords'[s] = IF s \in Slots /\ s # NextFreeSlot THEN slotRecords[s] ELSE {}
              /\ slotCount'[s] = IF s \in Slots /\ s # NextFreeSlot THEN slotCount[s] ELSE 0
              /\ slotActive'[s] <=> s = NextFreeSlot \/ (s \in Slots /\ slotActive[s])
              /\ slotCode'[s] = IF s = NextFreeSlot THEN chunk[i].code
                                ELSE IF s \in Slots THEN slotCode[s] ELSE NoCode
              /\ s # NextFreeSlot => slotId'[s] = IF s \in Slots THEN slotId[s] ELSE NoId
              /\ slotGeneration'[s] = (IF s \in Slots THEN slotGeneration[s] ELSE 0)
                                        + (IF s = NextFreeSlot THEN 1 ELSE 0)
         /\ chunk' = [chunk EXCEPT ![i].slot = NextFreeSlot]
         /\ UNCHANGED recordVars
<1> DEFINE f == NextFreeSlot
           T == 0..(SlotsAfterGrowth - 1)
<1>1. MemoryTypeOK
  BY DEF MemoryInv
<1>2. Slots' = T
  BY DEF AllocateSlot, Slots
<1>3. f \in T /\ Slots \subseteq T
  <2>1. /\ slotCapacity \in Nat /\ SlotsAfterGrowth \in Nat /\ slotCapacity <= SlotsAfterGrowth
        /\ f \in T
    BY <1>1, GrowthProperties DEF MemoryTypeOK
  <2> QED BY <2>1 DEF Slots
<1>4. /\ DOMAIN slotId = Slots /\ DOMAIN slotGeneration = Slots /\ DOMAIN slotRecords = Slots
      /\ DOMAIN slotCount = Slots /\ DOMAIN slotActive = Slots /\ DOMAIN slotCode = Slots
      /\ slotGeneration \in [Slots -> Nat]
  BY <1>1 DEF MemoryTypeOK
<1>5. /\ \A s \in Slots : Grown(slotId, NoId)[s] = slotId[s]
      /\ \A s \in T : s \notin Slots => Grown(slotId, NoId)[s] = NoId
  BY <1>1, <1>4, GrownValues
<1>6. Grown(slotGeneration, 0)[f] = IF f \in Slots THEN slotGeneration[f] ELSE 0
  <2>1. /\ \A s \in Slots : Grown(slotGeneration, 0)[s] = slotGeneration[s]
        /\ \A s \in T : s \notin Slots => Grown(slotGeneration, 0)[s] = 0
    BY <1>1, <1>4, GrownValues
  <2> QED BY <1>3, <2>1
<1>7. f \in Slots => slotId[f] = NoId
  <2>1. Grown(slotId, NoId)[f] = NoId
    BY NextFreeSlotIsFree
  <2> QED BY <1>5, <2>1
<1>8. \A s \in T : slotRecords'[s] = IF s = f THEN {} ELSE IF s \in Slots THEN slotRecords[s] ELSE {}
  <2>1. DOMAIN Grown(slotRecords, {}) = T
    BY DEF Grown, Extend
  <2>2. /\ \A s \in Slots : Grown(slotRecords, {})[s] = slotRecords[s]
        /\ \A s \in T : s \notin Slots => Grown(slotRecords, {})[s] = {}
    BY <1>1, <1>4, GrownValues
  <2>3. slotRecords' = [Grown(slotRecords, {}) EXCEPT ![f] = {}]
    BY DEF AllocateSlot
  <2>4. slotRecords'[f] = {} /\ \A s \in T : s # f => slotRecords'[s] = Grown(slotRecords, {})[s]
    BY <1>3, <2>1, <2>3
  <2> QED BY <2>2, <2>4
<1>9. \A s \in T : slotCount'[s] = IF s = f THEN 0 ELSE IF s \in Slots THEN slotCount[s] ELSE 0
  <2>1. DOMAIN Grown(slotCount, 0) = T
    BY DEF Grown, Extend
  <2>2. /\ \A s \in Slots : Grown(slotCount, 0)[s] = slotCount[s]
        /\ \A s \in T : s \notin Slots => Grown(slotCount, 0)[s] = 0
    BY <1>1, <1>4, GrownValues
  <2>3. slotCount' = [Grown(slotCount, 0) EXCEPT ![f] = 0]
    BY DEF AllocateSlot
  <2>4. slotCount'[f] = 0 /\ \A s \in T : s # f => slotCount'[s] = Grown(slotCount, 0)[s]
    BY <1>3, <2>1, <2>3
  <2> QED BY <2>2, <2>4
<1>10. \A s \in T : slotActive'[s] = IF s = f THEN TRUE ELSE IF s \in Slots THEN slotActive[s] ELSE FALSE
  <2>1. DOMAIN Grown(slotActive, FALSE) = T
    BY DEF Grown, Extend
  <2>2. /\ \A s \in Slots : Grown(slotActive, FALSE)[s] = slotActive[s]
        /\ \A s \in T : s \notin Slots => Grown(slotActive, FALSE)[s] = FALSE
    BY <1>1, <1>4, GrownValues
  <2>3. slotActive' = [Grown(slotActive, FALSE) EXCEPT ![f] = TRUE]
    BY DEF AllocateSlot
  <2>4. slotActive'[f] = TRUE /\ \A s \in T : s # f => slotActive'[s] = Grown(slotActive, FALSE)[s]
    BY <1>3, <2>1, <2>3
  <2> QED BY <2>2, <2>4
<1>11. \A s \in T : slotCode'[s] = IF s = f THEN chunk[i].code ELSE IF s \in Slots THEN slotCode[s] ELSE NoCode
  <2>1. DOMAIN Grown(slotCode, NoCode) = T
    BY DEF Grown, Extend
  <2>2. /\ \A s \in Slots : Grown(slotCode, NoCode)[s] = slotCode[s]
        /\ \A s \in T : s \notin Slots => Grown(slotCode, NoCode)[s] = NoCode
    BY <1>1, <1>4, GrownValues
  <2>3. slotCode' = [Grown(slotCode, NoCode) EXCEPT ![f] = chunk[i].code]
    BY DEF AllocateSlot
  <2>4. slotCode'[f] = chunk[i].code /\ \A s \in T : s # f => slotCode'[s] = Grown(slotCode, NoCode)[s]
    BY <1>3, <2>1, <2>3
  <2> QED BY <2>2, <2>4
<1>12. \A s \in T : slotId'[s] = IF s = f THEN Grown(slotGeneration, 0)[f] + 1 ELSE IF s \in Slots THEN slotId[s] ELSE NoId
  <2>1. DOMAIN Grown(slotId, NoId) = T
    BY DEF Grown, Extend
  <2>2. /\ \A s \in Slots : Grown(slotId, NoId)[s] = slotId[s]
        /\ \A s \in T : s \notin Slots => Grown(slotId, NoId)[s] = NoId
    BY <1>1, <1>4, GrownValues
  <2>3. slotId' = [Grown(slotId, NoId) EXCEPT ![f] = Grown(slotGeneration, 0)[f] + 1]
    BY DEF AllocateSlot
  <2>4. slotId'[f] = Grown(slotGeneration, 0)[f] + 1 /\ \A s \in T : s # f => slotId'[s] = Grown(slotId, NoId)[s]
    BY <1>3, <2>1, <2>3
  <2> QED BY <2>2, <2>4
<1>13. \A s \in T : slotGeneration'[s] = IF s = f THEN Grown(slotGeneration, 0)[f] + 1 ELSE IF s \in Slots THEN slotGeneration[s] ELSE 0
  <2>1. DOMAIN Grown(slotGeneration, 0) = T
    BY DEF Grown, Extend
  <2>2. /\ \A s \in Slots : Grown(slotGeneration, 0)[s] = slotGeneration[s]
        /\ \A s \in T : s \notin Slots => Grown(slotGeneration, 0)[s] = 0
    BY <1>1, <1>4, GrownValues
  <2>3. slotGeneration' = [Grown(slotGeneration, 0) EXCEPT ![f] = Grown(slotGeneration, 0)[f] + 1]
    BY DEF AllocateSlot
  <2>4. slotGeneration'[f] = Grown(slotGeneration, 0)[f] + 1 /\ \A s \in T : s # f => slotGeneration'[s] = Grown(slotGeneration, 0)[s]
    BY <1>3, <2>1, <2>3
  <2> QED BY <2>2, <2>4
<1>14. chunk' = [chunk EXCEPT ![i].slot = f] /\ UNCHANGED recordVars
  BY DEF AllocateSlot
<1> HIDE DEF f, T
<1>15. slotId'[f] # NoId
  BY <1>3, <1>4, <1>6, <1>12 DEF NoId
<1>16. \A s \in T : slotGeneration'[s] = (IF s \in Slots THEN slotGeneration[s] ELSE 0)
                                          + (IF s = f THEN 1 ELSE 0)
  BY <1>3, <1>4, <1>6, <1>13
<1> QED BY <1>2, <1>3, <1>7, <1>8, <1>9, <1>10, <1>11, <1>12, <1>14, <1>15, <1>16 DEF f, T

\* What the commit of a chunk does to the clusters and the records.
LEMMA CommitEffect ==
  ASSUME MemoryInv, NEW newCode \in [Touched -> Codes], CommitChunk(newCode)
  PROVE  /\ Slots' = Slots /\ Records' = Records /\ slotId' = slotId /\ slotGeneration' = slotGeneration
         /\ DOMAIN chunk' = {} /\ DOMAIN chunk = 1..Len(chunk) /\ Len(chunk) \in Nat \ {0}
         /\ nextSerial \in Nat /\ nextSerial' = nextSerial + Len(chunk)
         /\ Touched \subseteq Live
         /\ \A s \in Slots :
              /\ slotRecords'[s] = slotRecords[s] \cup {chunk[i].index : i \in RowsOf(s)}
              /\ slotCount'[s] = slotCount[s] + Cardinality(RowsOf(s))
              /\ slotActive'[s] = IF s \in Touched THEN slotCount[s] + Cardinality(RowsOf(s)) > 0
                                                   ELSE slotActive[s]
              /\ slotCode'[s] = IF s \in Touched THEN newCode[s] ELSE slotCode[s]
         /\ \A i \in DOMAIN chunk : /\ chunk[i].index \in Reserved /\ RowAt(chunk[i].index) = i
                                    /\ chunk[i].slot \in Slots
         /\ \A r \in Reserved : /\ RowAt(r) \in DOMAIN chunk /\ chunk[RowAt(r)].index = r
                                /\ r \in Records /\ recordSlot[r] = NoSlot
         /\ \A r \in Records :
              /\ recordSlot'[r] = IF r \in Reserved THEN chunk[RowAt(r)].slot ELSE recordSlot[r]
              /\ recordId'[r] = IF r \in Reserved THEN nextSerial + RowAt(r) ELSE recordId[r]
         /\ recordRecalls' = recordRecalls
<1>1. MemoryTypeOK
  BY DEF MemoryInv
<1>2. /\ Slots' = Slots /\ Records' = Records /\ slotId' = slotId /\ slotGeneration' = slotGeneration
      /\ DOMAIN chunk' = {} /\ nextSerial' = nextSerial + Len(chunk) /\ recordRecalls' = recordRecalls
  BY DEF CommitChunk, Slots, Records
<1>3. DOMAIN chunk = 1..Len(chunk) /\ Len(chunk) \in Nat \ {0} /\ nextSerial \in Nat
  <2>1. DOMAIN chunk = 1..Len(chunk) /\ Len(chunk) \in Nat /\ nextSerial \in Nat /\ chunk \in Seq(RowType)
    BY <1>1, LenProperties DEF MemoryTypeOK
  <2>2. chunk # <<>>
    BY DEF CommitChunk, Idle
  <2> QED BY <2>1, <2>2, EmptySeq
<1>4. \A i \in DOMAIN chunk : /\ chunk[i].slot \in Slots /\ slotId[chunk[i].slot] # NoId
                              /\ chunk[i].index \in Records
  BY <1>1, ChunkTypes DEF CommitChunk, Unallocated, MemoryInv, ChunkSlotsProtected
<1>5. Touched \subseteq Live
  BY <1>4 DEF Touched, Live
<1>6. /\ \A i \in DOMAIN chunk : chunk[i].index \in Reserved /\ RowAt(chunk[i].index) = i
      /\ \A r \in Reserved : RowAt(r) \in DOMAIN chunk /\ chunk[RowAt(r)].index = r
  BY RowsAndIndices
<1>7. \A r \in Reserved : r \in Records /\ recordSlot[r] = NoSlot
  <2>1. \A r \in Reserved : r \in Records
    BY <1>4, <1>6
  <2> QED BY <2>1 DEF MemoryInv, RecordsPartitioned
<1>8. \A s \in Slots :
              /\ slotRecords'[s] = slotRecords[s] \cup {chunk[i].index : i \in RowsOf(s)}
              /\ slotCount'[s] = slotCount[s] + Cardinality(RowsOf(s))
              /\ slotActive'[s] = IF s \in Touched THEN slotCount[s] + Cardinality(RowsOf(s)) > 0
                                                   ELSE slotActive[s]
              /\ slotCode'[s] = IF s \in Touched THEN newCode[s] ELSE slotCode[s]
  BY DEF CommitChunk
<1>9. \A r \in Records :
              /\ recordSlot'[r] = IF r \in Reserved THEN chunk[RowAt(r)].slot ELSE recordSlot[r]
              /\ recordId'[r] = IF r \in Reserved THEN nextSerial + RowAt(r) ELSE recordId[r]
  BY DEF CommitChunk
<1> QED BY <1>2, <1>3, <1>4, <1>5, <1>6, <1>7, <1>8, <1>9

\* The members of a slot: active records of that slot, which is live.
LEMMA MembersAreActive ==
  ASSUME MemoryInv, NEW s \in Slots
  PROVE  /\ s # NoSlot /\ slotRecords[s] \subseteq Records /\ IsFiniteSet(slotRecords[s])
         /\ \A r \in slotRecords[s] : recordSlot[r] = s /\ slotId[s] # NoId
<1>1. slotRecords[s] \subseteq Records /\ s # NoSlot
  BY DEF MemoryInv, MemoryTypeOK, Slots, NoSlot
<1>2. IsFiniteSet(slotRecords[s])
  BY <1>1, RecordsFinite DEF MemoryInv
<1> QED BY <1>1, <1>2 DEF MemoryInv, MembershipConsistent

------------------------------------------------------------------------------
(* Counts and activity flags.                                              *)

\* A step that leaves the slot tables alone, taken between two calls or without
\* changing the chunk, leaves the counts in agreement.
LEMMA UnchangedCountsInv ==
  ASSUME CountsInv, UNCHANGED slotVars, chunk = <<>> \/ chunk' = chunk
  PROVE  CountsInv'
<1>1. /\ UNCHANGED <<slotCapacity, slotId, slotRecords, slotCount, slotActive>>
      /\ Slots' = Slots /\ Live' = Live
  BY DEF slotVars, Slots, Live
<1>2. \A s : s \in Touched => s \in Touched'
  <2>1. CASE chunk = <<>>
    BY <2>1 DEF Touched
  <2>2. CASE chunk' = chunk
    BY <2>2 DEF Touched
  <2> QED BY <2>1, <2>2
<1> QED BY <1>1, <1>2 DEF CountsInv

\* The rows of a slot are the records the commit adds to it, one by one.
LEMMA RowsCounted ==
  ASSUME MemoryInv, NEW s
  PROVE  /\ IsFiniteSet({chunk[i].index : i \in RowsOf(s)})
         /\ Cardinality({chunk[i].index : i \in RowsOf(s)}) = Cardinality(RowsOf(s))
<1> DEFINE I == RowsOf(s)
           R == {chunk[i].index : i \in I}
           F == [i \in I |-> chunk[i].index]
<1>1. I \subseteq DOMAIN chunk /\ \A i, j \in I : chunk[i].index = chunk[j].index => i = j
  BY DEF MemoryInv, RecordsPartitioned, RowsOf
<1>2. IsFiniteSet(I)
  BY RowsFinite DEF MemoryInv
<1> HIDE DEF I
<1>3. F \in [I -> R] /\ \A r \in R : \E i \in I : F[i] = r
  OBVIOUS
<1>4. \A i, j \in I : F[i] = F[j] => i = j
  BY <1>1
<1>5. F \in Bijection(I, R)
  BY <1>3, <1>4, Fun_IsBij
<1>6. ExistsBijection(I, R)
  BY <1>5, Fun_ExistsBij
<1> QED BY <1>2, <1>6, FS_Bijection DEF I

\* A slot just opened has no record and counts none.
LEMMA AllocateCountsInv ==
  ASSUME MemoryInv, CountsInv, NEW i \in DOMAIN chunk, AllocateSlot(i)
  PROVE  CountsInv'
<1> DEFINE f == NextFreeSlot
<1>1. /\ Slots \subseteq Slots' /\ f \in Slots'
      /\ f \in Slots => slotId[f] = NoId
      /\ slotId'[f] # NoId
      /\ \A s \in Slots' :
              /\ slotRecords'[s] = IF s \in Slots /\ s # f THEN slotRecords[s] ELSE {}
              /\ slotCount'[s] = IF s \in Slots /\ s # f THEN slotCount[s] ELSE 0
              /\ slotActive'[s] <=> s = f \/ (s \in Slots /\ slotActive[s])
              /\ s # f => slotId'[s] = IF s \in Slots THEN slotId[s] ELSE NoId
  BY AllocateEffect
<1>2. chunk' = [chunk EXCEPT ![i].slot = f] /\ chunk[i].slot = NoSlot
  BY DEF AllocateSlot, Unallocated
<1> HIDE DEF f
<1>3. \A s \in Slots' : slotCount'[s] = Cardinality(slotRecords'[s])
  BY <1>1, FS_EmptySet DEF CountsInv
<1>4. \A s \in Slots' : slotActive'[s] <=> slotId'[s] # NoId
  BY <1>1 DEF CountsInv
<1>5. f \in Touched' /\ \A s \in Slots : s \in Touched => s \in Touched'
  <2>1. chunk[i] \in RowType
    BY ChunkTypes DEF MemoryInv
  <2>2. DOMAIN chunk' = DOMAIN chunk /\ chunk'[i].slot = f
    BY <1>2, <2>1 DEF RowType
  <2>3. \A j \in DOMAIN chunk : j # i => chunk'[j] = chunk[j]
    BY <1>2
  <2>4. \A s \in Slots : s # NoSlot
    BY DEF Slots, NoSlot
  <2> QED BY <1>2, <2>2, <2>3, <2>4 DEF Touched
<1>6. \A s \in Live' : slotRecords'[s] # {} \/ s \in Touched'
  <2> SUFFICES ASSUME NEW s \in Slots', slotId'[s] # NoId, s # f
               PROVE  slotRecords'[s] # {} \/ s \in Touched'
    BY <1>5 DEF Live
  <2>1. s \in Slots /\ slotId[s] # NoId /\ slotRecords'[s] = slotRecords[s]
    BY <1>1
  <2> QED BY <1>5, <2>1 DEF CountsInv, Live
<1> QED BY <1>3, <1>4, <1>6 DEF CountsInv

\* The commit adds to every count the rows it adds to the slot's records, and
\* leaves no live slot empty.
LEMMA CommitCountsInv ==
  ASSUME MemoryInv, CountsInv, NEW newCode \in [Touched -> Codes], CommitChunk(newCode)
  PROVE  CountsInv'
<1>1. /\ Slots' = Slots /\ slotId' = slotId /\ DOMAIN chunk' = {} /\ Touched \subseteq Live
      /\ \A s \in Slots :
              /\ slotRecords'[s] = slotRecords[s] \cup {chunk[i].index : i \in RowsOf(s)}
              /\ slotCount'[s] = slotCount[s] + Cardinality(RowsOf(s))
              /\ slotActive'[s] = IF s \in Touched THEN slotCount[s] + Cardinality(RowsOf(s)) > 0
                                                   ELSE slotActive[s]
      /\ \A i \in DOMAIN chunk : chunk[i].index \in Reserved
      /\ \A r \in Reserved : r \in Records /\ recordSlot[r] = NoSlot
  BY CommitEffect
<1>2. \A s \in Slots : /\ IsFiniteSet(slotRecords[s]) /\ slotRecords[s] \subseteq Records
                       /\ Cardinality(slotRecords[s]) \in Nat
                       /\ slotCount[s] = Cardinality(slotRecords[s])
                       /\ Cardinality(RowsOf(s)) \in Nat /\ IsFiniteSet(RowsOf(s))
  <2> SUFFICES ASSUME NEW s \in Slots
               PROVE  /\ IsFiniteSet(slotRecords[s]) /\ slotRecords[s] \subseteq Records
                      /\ Cardinality(slotRecords[s]) \in Nat
                      /\ slotCount[s] = Cardinality(slotRecords[s])
                      /\ Cardinality(RowsOf(s)) \in Nat /\ IsFiniteSet(RowsOf(s))
    OBVIOUS
  <2>1. MemoryTypeOK /\ slotRecords[s] \subseteq Records
    BY DEF MemoryInv, MemoryTypeOK
  <2>2. IsFiniteSet(slotRecords[s])
    BY <2>1, RecordsFinite
  <2>3. Cardinality(slotRecords[s]) \in Nat
    BY <2>2, FS_CardinalityType
  <2>4. Cardinality(RowsOf(s)) \in Nat /\ IsFiniteSet(RowsOf(s))
    BY <2>1, RowsFinite
  <2> QED BY <2>1, <2>2, <2>3, <2>4 DEF CountsInv
<1>3. ASSUME NEW s \in Slots
      PROVE  slotCount'[s] = Cardinality(slotRecords'[s])
  <2> DEFINE R == {chunk[i].index : i \in RowsOf(s)}
  <2>1. IsFiniteSet(R) /\ Cardinality(R) = Cardinality(RowsOf(s))
    BY RowsCounted
  <2>2. slotRecords[s] \cap R = {}
    <3>1. \A r \in R : recordSlot[r] = NoSlot /\ r \in Records
      BY <1>1 DEF RowsOf
    <3>2. \A r \in slotRecords[s] : recordSlot[r] = s
      BY <1>2 DEF MemoryInv, MembershipConsistent
    <3>3. s # NoSlot
      BY DEF Slots, NoSlot
    <3> QED BY <3>1, <3>2, <3>3
  <2> HIDE DEF R
  <2>3. Cardinality(slotRecords[s] \cup R) = Cardinality(slotRecords[s]) + Cardinality(R) - Cardinality({})
    BY <1>2, <2>1, <2>2, FS_Union
  <2>4. Cardinality(slotRecords[s] \cup R) = slotCount[s] + Cardinality(RowsOf(s))
    BY <1>2, <2>1, <2>3, FS_EmptySet
  <2> QED BY <1>1, <2>4 DEF R
<1>4. \A s \in Slots : s \in Touched => RowsOf(s) # {} /\ Cardinality(RowsOf(s)) > 0
  <2>1. \A s \in Slots : s \in Touched => RowsOf(s) # {}
    BY DEF Touched, RowsOf
  <2> QED BY <1>2, <2>1, FS_EmptySet
<1>5. ASSUME NEW s \in Slots
      PROVE  slotActive'[s] <=> slotId'[s] # NoId
  <2>1. CASE s \in Touched
    <3>1. slotCount[s] + Cardinality(RowsOf(s)) > 0
      BY <1>2, <1>4, <2>1
    <3> QED BY <1>1, <2>1, <3>1 DEF Live
  <2>2. CASE s \notin Touched
    BY <1>1, <2>2 DEF CountsInv
  <2> QED BY <2>1, <2>2
<1>6. \A s \in Live : slotRecords'[s] # {}
  <2> SUFFICES ASSUME NEW s \in Live PROVE slotRecords'[s] # {}
    OBVIOUS
  <2>1. s \in Slots /\ (slotRecords[s] # {} \/ RowsOf(s) # {})
    BY <1>4 DEF Live, CountsInv
  <2>2. slotRecords'[s] = slotRecords[s] \cup {chunk[i].index : i \in RowsOf(s)}
    BY <1>1, <2>1
  <2>3. RowsOf(s) # {} => {chunk[i].index : i \in RowsOf(s)} # {}
    OBVIOUS
  <2> QED BY <2>1, <2>2, <2>3
<1>7. Live' = Live
  BY <1>1 DEF Live
<1> QED BY <1>1, <1>3, <1>5, <1>6, <1>7 DEF CountsInv

\* An eviction takes from every count what it takes from the slot's records, and
\* frees exactly the slots it empties.
LEMMA ObserveCountsInv ==
  ASSUME MemoryInv, CountsInv,
         NEW ids \in SUBSET DOMAIN recordIndex, NEW usage \in [ids -> UsageRates],
         NEW evicting \in BOOLEAN, NEW E \in SUBSET IndicesOf(ids),
         ObserveRecallUsage(ids, usage, evicting, E)
  PROVE  CountsInv'
<1>1. Slots' = Slots /\ chunk = <<>> /\ EvictRecords(E)
  BY DEF ObserveRecallUsage, Slots, Idle
<1>2. ASSUME NEW s \in Slots
      PROVE  /\ slotRecords'[s] = slotRecords[s] \ E
             /\ slotCount'[s] = Cardinality(slotRecords[s] \ E) /\ slotCount'[s] \in Nat
             /\ slotCount'[s] = 0 <=> slotRecords'[s] = {}
  <2>1. IsFiniteSet(slotRecords[s])
    BY MembersAreActive
  <2>2. /\ IsFiniteSet(slotRecords[s] \ E)
        /\ Cardinality(slotRecords[s] \ E) = Cardinality(slotRecords[s]) - Cardinality(slotRecords[s] \cap E)
    BY <2>1, FS_Difference
  <2>3. /\ slotRecords'[s] = slotRecords[s] \ E
        /\ slotCount'[s] = slotCount[s] - Cardinality(slotRecords[s] \cap E)
    BY <1>1 DEF EvictRecords
  <2>4. slotCount'[s] = Cardinality(slotRecords[s] \ E)
    BY <2>2, <2>3 DEF CountsInv
  <2>5. Cardinality(slotRecords[s] \ E) \in Nat
    BY <2>2, FS_CardinalityType
  <2>6. Cardinality(slotRecords[s] \ E) = 0 <=> slotRecords[s] \ E = {}
    BY <2>2, FS_EmptySet
  <2> QED BY <2>3, <2>4, <2>5, <2>6
<1>3. ASSUME NEW s \in Slots
      PROVE  slotActive'[s] <=> slotId'[s] # NoId
  <2>1. slotId'[s] = IF s \in Emptied(E) THEN NoId ELSE slotId[s]
    BY <1>1 DEF EvictRecords
  <2>2. CASE slotRecords[s] \cap E # {}
    <3>1. slotActive'[s] = (slotCount'[s] > 0)
      BY <1>1, <2>2 DEF EvictRecords
    <3>2. slotActive'[s] <=> slotRecords'[s] # {}
      <4>1. slotCount'[s] \in Nat /\ (slotCount'[s] = 0 <=> slotRecords'[s] = {})
        BY <1>2, Zenon
      <4>2. slotCount'[s] > 0 <=> slotCount'[s] # 0
        BY <4>1
      <4> QED BY <3>1, <4>1, <4>2, Zenon
    <3>3. slotId[s] # NoId
      BY <2>2, MembersAreActive
    <3>4. s \in Emptied(E) <=> slotRecords'[s] = {}
      BY <1>2, <2>2 DEF Emptied
    <3> QED BY <2>1, <3>2, <3>3, <3>4
  <2>3. CASE slotRecords[s] \cap E = {}
    <3>1. s \notin Emptied(E) /\ slotActive'[s] = slotActive[s]
      BY <1>1, <2>3 DEF Emptied, EvictRecords
    <3> QED BY <2>1, <3>1 DEF CountsInv
  <2> QED BY <2>2, <2>3
<1>4. \A s \in Live' : slotRecords'[s] # {}
  <2> SUFFICES ASSUME NEW s \in Slots, slotId'[s] # NoId PROVE slotRecords'[s] # {}
    BY <1>1 DEF Live
  <2>1. s \notin Emptied(E) /\ slotId[s] # NoId
    BY <1>1 DEF EvictRecords
  <2>2. Touched = {}
    BY <1>1 DEF Touched
  <2>3. slotRecords[s] # {}
    BY <2>1, <2>2 DEF CountsInv, Live
  <2> QED BY <1>2, <2>1, <2>3 DEF Emptied
<1> QED BY <1>1, <1>2, <1>3, <1>4 DEF CountsInv

------------------------------------------------------------------------------
(* The order of the buckets, step by step.                                 *)

\* A step that leaves the slot tables alone leaves the buckets alone.
LEMMA UnchangedBuckets ==
  ASSUME BucketsOrdered, UNCHANGED slotVars
  PROVE  BucketsOrdered'
  BY DEF slotVars, BucketsOrdered, Indexed

\* Opening a cluster puts its slot at the end of the bucket of its code.
LEMMA AllocateBuckets ==
  ASSUME MemoryInv, BucketsOrdered, NEW i \in DOMAIN chunk, AllocateSlot(i)
  PROVE  BucketsOrdered'
<1> DEFINE f == NextFreeSlot
           code == [s \in {f} |-> chunk[i].code]
<1>1. /\ Slots \subseteq Slots' /\ f \in Slots'
      /\ \A s \in Slots' : slotCode'[s] = IF s = f THEN chunk[i].code
                                          ELSE IF s \in Slots THEN slotCode[s] ELSE NoCode
  BY AllocateEffect
<1>2. DOMAIN slotCode = Slots /\ DOMAIN slotCode' = Slots'
  BY AllocateTypeOK DEF MemoryInv, MemoryTypeOK
<1>3. chunk[i].code # NoCode
  BY ChunkTypes, CodesAssumption DEF MemoryInv, NoCode
<1>4. recency' = LocalityUpdate({f}, code)
  BY DEF AllocateSlot
<1>5. code[f] = chunk[i].code
  OBVIOUS
<1>6. {f} \subseteq Int
  BY <1>1 DEF Slots
<1> HIDE DEF f, code
<1>7. Indexed' = Indexed \cup {f}
  BY <1>1, <1>2, <1>3 DEF Indexed
<1>8. \A s \in Indexed' : slotCode'[s] = IF s \in {f} THEN code[s] ELSE slotCode[s]
  BY <1>1, <1>2, <1>5, <1>7 DEF Indexed
<1> QED BY <1>4, <1>6, <1>7, <1>8, UpdateKeepsOrder

\* The commit moves the touched slots to the ends of the buckets of their codes.
LEMMA CommitBuckets ==
  ASSUME MemoryInv, BucketsOrdered, NEW newCode \in [Touched -> Codes], CommitChunk(newCode)
  PROVE  BucketsOrdered'
<1>1. Slots' = Slots /\ Touched \subseteq Live /\ Live \subseteq Slots
  BY CommitEffect DEF Live
<1>2. /\ slotCode' = [s \in Slots |-> IF s \in Touched THEN newCode[s] ELSE slotCode[s]]
      /\ recency' = LocalityUpdate(Touched, newCode)
  BY DEF CommitChunk
<1>3. DOMAIN slotCode = Slots /\ DOMAIN slotCode' = Slots
  BY <1>2 DEF MemoryInv, MemoryTypeOK
<1>4. \A s \in Touched : newCode[s] # NoCode
  BY CodesAssumption DEF NoCode
<1>5. Indexed' = Indexed \cup Touched
  BY <1>1, <1>2, <1>3, <1>4 DEF Indexed
<1>6. \A s \in Indexed' : slotCode'[s] = IF s \in Touched THEN newCode[s] ELSE slotCode[s]
  BY <1>2, <1>3 DEF Indexed
<1>7. Touched \subseteq Int
  BY <1>1 DEF Slots
<1> QED BY <1>2, <1>5, <1>6, <1>7, UpdateKeepsOrder

\* An eviction takes the slots it empties out of their buckets.
LEMMA ObserveBuckets ==
  ASSUME MemoryInv, BucketsOrdered,
         NEW ids \in SUBSET DOMAIN recordIndex, NEW usage \in [ids -> UsageRates],
         NEW evicting \in BOOLEAN, NEW E \in SUBSET IndicesOf(ids),
         ObserveRecallUsage(ids, usage, evicting, E)
  PROVE  BucketsOrdered'
<1>1. EvictRecords(E)
  BY DEF ObserveRecallUsage
<1>2. /\ slotCode' = [s \in Slots |-> IF s \in Emptied(E) THEN NoCode ELSE slotCode[s]]
      /\ recency' = LocalityRemove(Emptied(E))
  BY <1>1 DEF EvictRecords
<1>3. DOMAIN slotCode = Slots /\ DOMAIN slotCode' = Slots
  BY <1>2 DEF MemoryInv, MemoryTypeOK
<1>4. Indexed' = Indexed \ Emptied(E)
  BY <1>2, <1>3 DEF Indexed
<1>5. \A s \in Indexed' : slotCode'[s] = slotCode[s]
  BY <1>2, <1>3, <1>4 DEF Indexed
<1> QED BY <1>2, <1>4, <1>5, RemoveKeepsOrder

------------------------------------------------------------------------------
(* The observations of the records.                                        *)

\* A step that only grows the record table keeps the observations of the records
\* in it, and new indices have none.
LEMMA BeginUsageInv ==
  ASSUME MemoryInv, UsageInv,
         NEW n \in 1..WriteChunk,
         NEW code \in [1..n -> Codes], NEW choice \in [1..n -> Slots \cup {NoSlot}],
         BeginChunk(n, code, choice)
  PROVE  UsageInv'
<1>1. /\ UNCHANGED <<slotCapacity, slotRecords>> /\ Slots' = Slots
      /\ recordRecalls' = Extend(recordRecalls, RecordCapacityFor(n), 0)
      /\ recordCapacity' = RecordCapacityFor(n)
  BY DEF BeginChunk, slotVars, Slots
<1>2. /\ Records \subseteq Records'
      /\ \A r \in Records : recordSlot'[r] = recordSlot[r] /\ recordId'[r] = recordId[r]
  <2>1. n \in Nat
    BY ConfigAssumption
  <2> QED BY <2>1, BeginKeepsRecords DEF MemoryInv
<1>3. DOMAIN recordRecalls = Records
  BY DEF MemoryInv, MemoryTypeOK
<1>4. \A r \in Records' : recordRecalls'[r] = IF r \in Records THEN recordRecalls[r] ELSE 0
  BY <1>1, <1>3 DEF Extend, Records
<1>5. \A r \in Records' : recordSlot'[r] = NoSlot => recordRecalls'[r] = 0
  BY <1>2, <1>4 DEF UsageInv
<1>6. \A s \in Slots : slotRecords[s] \subseteq Records
  BY DEF MemoryInv, MemoryTypeOK
<1>7. ClusterMatesObservedTogether'
  BY <1>1, <1>2, <1>4, <1>6 DEF UsageInv, ClusterMatesObservedTogether
<1> QED BY <1>5, <1>7 DEF UsageInv

\* Opening a cluster observes nothing.
LEMMA AllocateUsageInv ==
  ASSUME MemoryInv, UsageInv, NEW i \in DOMAIN chunk, AllocateSlot(i)
  PROVE  UsageInv'
<1>1. /\ UNCHANGED <<recordCapacity, recordSlot, recordId, recordRecalls>> /\ Records' = Records
  BY DEF AllocateSlot, recordVars, Records
<1>2. \A s \in Slots' : slotRecords'[s] = IF s \in Slots /\ s # NextFreeSlot THEN slotRecords[s] ELSE {}
  BY AllocateEffect
<1> QED BY <1>1, <1>2 DEF UsageInv, ClusterMatesObservedTogether

\* The records of a committed chunk are younger than all others and not observed.
LEMMA CommitUsageInv ==
  ASSUME MemoryInv, UsageInv, NEW newCode \in [Touched -> Codes], CommitChunk(newCode)
  PROVE  UsageInv'
<1>1. /\ Slots' = Slots /\ Records' = Records /\ recordRecalls' = recordRecalls
      /\ \A s \in Slots : slotRecords'[s] = slotRecords[s] \cup {chunk[i].index : i \in RowsOf(s)}
      /\ \A i \in DOMAIN chunk : chunk[i].index \in Reserved /\ chunk[i].slot \in Slots
      /\ \A r \in Reserved : /\ RowAt(r) \in DOMAIN chunk
                             /\ r \in Records /\ recordSlot[r] = NoSlot
      /\ \A r \in Records :
              /\ recordSlot'[r] = IF r \in Reserved THEN chunk[RowAt(r)].slot ELSE recordSlot[r]
              /\ recordId'[r] = IF r \in Reserved THEN nextSerial + RowAt(r) ELSE recordId[r]
  BY CommitEffect
<1>2. DOMAIN chunk = 1..Len(chunk) /\ Len(chunk) \in Nat /\ nextSerial \in Nat
  BY CommitEffect
<1>3. NoSlot \notin Slots
  BY DEF Slots, NoSlot
<1>4. \A r \in Records : recordSlot'[r] = NoSlot => recordRecalls'[r] = 0
  BY <1>1, <1>3 DEF UsageInv
<1>5. \A r \in Reserved : recordRecalls[r] = 0 /\ recordId'[r] > nextSerial
  BY <1>1, <1>2 DEF UsageInv
<1>6. \A s \in Slots : \A r \in slotRecords[s] :
        r \in Records /\ r \notin Reserved /\ recordId'[r] = recordId[r] /\ recordId[r] <= nextSerial
  <2> SUFFICES ASSUME NEW s \in Slots, NEW r \in slotRecords[s]
               PROVE  /\ r \in Records /\ r \notin Reserved
                      /\ recordId'[r] = recordId[r] /\ recordId[r] <= nextSerial
    OBVIOUS
  <2>1. r \in Records /\ recordSlot[r] = s /\ s # NoSlot
    BY MembersAreActive
  <2>2. recordId[r] \in DOMAIN recordIndex /\ DOMAIN recordIndex \subseteq 1..nextSerial
    BY <2>1 DEF MemoryInv, MembershipConsistent, MemoryTypeOK
  <2> QED BY <1>1, <1>2, <2>1, <2>2
<1>7. recordRecalls \in [Records -> Nat] /\ \A r \in Records : recordId[r] \in Nat
  BY DEF MemoryInv, MemoryTypeOK
<1>8. ASSUME NEW s \in Slots, NEW q \in slotRecords'[s], NEW r \in slotRecords'[s],
             recordId'[q] < recordId'[r]
      PROVE  recordRecalls'[q] >= recordRecalls'[r]
  <2>1. /\ q \in slotRecords[s] \/ q \in Reserved
        /\ r \in slotRecords[s] \/ r \in Reserved
    BY <1>1 DEF RowsOf
  <2>2. q \in Records /\ r \in Records
    BY <1>1, <1>6, <2>1
  <2>3. CASE r \in Reserved
    BY <1>1, <1>5, <1>7, <2>2, <2>3
  <2>4. CASE r \notin Reserved
    <3>1. r \in slotRecords[s] /\ recordId'[r] <= nextSerial /\ recordId'[r] = recordId[r]
      BY <1>6, <2>1, <2>4
    <3>2. q \notin Reserved
      <4> SUFFICES ASSUME q \in Reserved PROVE FALSE
        OBVIOUS
      <4>1. recordId'[q] = nextSerial + RowAt(q) /\ RowAt(q) \in 1..Len(chunk)
        BY <1>1, <1>2
      <4>2. recordId'[r] \in Nat
        BY <1>7, <2>2, <3>1
      <4> QED BY <1>2, <1>8, <3>1, <4>1, <4>2
    <3>3. q \in slotRecords[s] /\ recordId'[q] = recordId[q]
      BY <1>6, <2>1, <3>2
    <3> QED BY <1>1, <1>8, <3>1, <3>3 DEF UsageInv, ClusterMatesObservedTogether
  <2> QED BY <2>3, <2>4
<1> QED BY <1>1, <1>4, <1>8 DEF UsageInv, ClusterMatesObservedTogether

\* An accepted observation covers whole clusters: of the records of one slot it
\* counts all or none.
LEMMA ObserveUsageInv ==
  ASSUME MemoryInv, UsageInv,
         NEW ids \in SUBSET DOMAIN recordIndex, NEW usage \in [ids -> UsageRates],
         NEW evicting \in BOOLEAN, NEW E \in SUBSET IndicesOf(ids),
         ObserveRecallUsage(ids, usage, evicting, E)
  PROVE  UsageInv'
<1> DEFINE I == IndicesOf(ids)
<1>1. /\ Slots' = Slots /\ Records' = Records /\ EvictRecords(E) /\ Covered(ids)
      /\ recordRecalls' = [r \in Records |-> IF r \in E THEN 0
                                             ELSE IF r \in I THEN recordRecalls[r] + 1
                                             ELSE recordRecalls[r]]
  BY DEF ObserveRecallUsage, Slots, Records, Accepts
<1>2. /\ \A s \in Slots : slotRecords'[s] = slotRecords[s] \ E
      /\ \A r \in Records : /\ recordSlot'[r] = IF r \in E THEN NoSlot ELSE recordSlot[r]
                            /\ recordId'[r] = IF r \in E THEN NoId ELSE recordId[r]
  BY <1>1 DEF EvictRecords
<1>3. \A r \in I : r \in Records /\ recordSlot[r] # NoSlot /\ slotRecords[recordSlot[r]] \subseteq I
  <2> SUFFICES ASSUME NEW d \in ids
               PROVE  /\ recordIndex[d] \in Records /\ recordSlot[recordIndex[d]] # NoSlot
                      /\ slotRecords[recordSlot[recordIndex[d]]] \subseteq I
    BY DEF IndicesOf
  <2>1. recordIndex[d] \in Records /\ recordSlot[recordIndex[d]] # NoSlot
    BY DEF MemoryInv, MemoryTypeOK, MembershipConsistent
  <2>2. slotRecords[recordSlot[recordIndex[d]]] \subseteq I
    BY <1>1 DEF Covered, SlotsOf
  <2> QED BY <2>1, <2>2
<1> HIDE DEF I
<1>4. \A r \in Records : recordSlot'[r] = NoSlot => recordRecalls'[r] = 0
  BY <1>1, <1>2, <1>3 DEF UsageInv
<1>5. \A s \in Slots : \A q, r \in slotRecords[s] : q \in I <=> r \in I
  BY <1>3, MembersAreActive
<1>6. recordRecalls \in [Records -> Nat] /\ \A s \in Slots : slotRecords[s] \subseteq Records
  BY DEF MemoryInv, MemoryTypeOK
<1>7. ASSUME NEW s \in Slots, NEW q \in slotRecords'[s], NEW r \in slotRecords'[s],
             recordId'[q] < recordId'[r]
      PROVE  recordRecalls'[q] >= recordRecalls'[r]
  <2>1. q \in slotRecords[s] /\ r \in slotRecords[s] /\ q \notin E /\ r \notin E
    BY <1>2
  <2>2. q \in Records /\ r \in Records /\ recordId'[q] = recordId[q] /\ recordId'[r] = recordId[r]
    BY <1>2, <1>6, <2>1
  <2>3. recordRecalls[q] >= recordRecalls[r]
    BY <1>7, <2>1, <2>2 DEF UsageInv, ClusterMatesObservedTogether
  <2>4. q \in I <=> r \in I
    BY <1>5, <2>1
  <2> QED BY <1>1, <1>6, <2>1, <2>2, <2>3, <2>4
<1> QED BY <1>1, <1>4, <1>7 DEF UsageInv, ClusterMatesObservedTogether

\* A step that leaves the memory alone observes nothing.
LEMMA UnchangedUsageInv ==
  ASSUME UsageInv, UNCHANGED memoryVars
  PROVE  UsageInv'
  BY DEF memoryVars, slotVars, recordVars, UsageInv, ClusterMatesObservedTogether, Slots, Records

------------------------------------------------------------------------------
(* The generations of the slots.                                           *)

\* Deciding the rows of a chunk opens nothing yet.
LEMMA BeginGenerationInv ==
  ASSUME MemoryInv, GenerationInv,
         NEW n \in 1..WriteChunk,
         NEW code \in [1..n -> Codes], NEW choice \in [1..n -> Slots \cup {NoSlot}],
         BeginChunk(n, code, choice)
  PROVE  GenerationInv'
<1>1. n \in Nat /\ n <= WriteChunk /\ nextSerial \in Nat /\ slotGeneration \in [Slots -> Nat]
  BY ConfigAssumption DEF MemoryInv, MemoryTypeOK
<1>2. /\ chunk = <<>> /\ nextSerial + n <= MaxSerial /\ UNCHANGED <<slotGeneration, nextSerial>>
      /\ Slots' = Slots
      /\ chunk' = [i \in 1..n |-> [index |-> ReservedIndex(n, i), code |-> code[i],
                                  chosen |-> choice[i], slot |-> choice[i]]]
  BY DEF BeginChunk, slotVars, Slots, Idle
<1>3. Len(chunk') = n /\ DOMAIN chunk' = 1..n
  BY <1>1, <1>2
<1>4. \A i \in DOMAIN chunk' : chunk'[i].slot = chunk'[i].chosen
  BY <1>2
<1>5. \A s \in Slots : slotGeneration[s] <= nextSerial
  <2>1. \A s : ~Opened(s)
    BY <1>2 DEF Opened
  <2> QED BY <1>1, <2>1 DEF GenerationInv
<1>6. \A s \in Slots : slotGeneration[s] <= nextSerial + (IF Opened(s)' THEN 1 ELSE 0)
  BY <1>1, <1>5
<1> QED BY <1>1, <1>2, <1>3, <1>4, <1>6 DEF GenerationInv

\* A slot's generation increases when a row opens it, which no other row does.
LEMMA AllocateGenerationInv ==
  ASSUME MemoryInv, GenerationInv, NEW i \in DOMAIN chunk, AllocateSlot(i)
  PROVE  GenerationInv'
<1> DEFINE f == NextFreeSlot
<1>1. /\ Slots \subseteq Slots' /\ f \in Slots'
      /\ f \in Slots => slotId[f] = NoId
      /\ \A s \in Slots' : slotGeneration'[s] = (IF s \in Slots THEN slotGeneration[s] ELSE 0)
                                                  + (IF s = f THEN 1 ELSE 0)
  BY AllocateEffect
<1>2. /\ chunk' = [chunk EXCEPT ![i].slot = f] /\ chunk[i].slot = NoSlot
      /\ nextSerial' = nextSerial
  BY DEF AllocateSlot, Unallocated, recordVars
<1>3. /\ nextSerial \in Nat /\ slotGeneration \in [Slots -> Nat] /\ chunk \in Seq(RowType)
      /\ Len(chunk) \in Nat /\ DOMAIN chunk = 1..Len(chunk)
      /\ f # NoSlot
  BY <1>1, LenProperties DEF MemoryInv, MemoryTypeOK, Slots, NoSlot
<1>4. chunk[i].chosen = NoSlot
  BY <1>2 DEF GenerationInv
<1> HIDE DEF f
<1>5. /\ DOMAIN chunk' = DOMAIN chunk /\ chunk'[i].slot = f
      /\ \A j \in DOMAIN chunk : j # i => chunk'[j] = chunk[j]
      /\ \A j \in DOMAIN chunk : chunk'[j].chosen = chunk[j].chosen
  <2>1. chunk[i] \in RowType
    BY ChunkTypes DEF MemoryInv
  <2> QED BY <1>2, <2>1 DEF RowType
<1>6. Len(chunk') = Len(chunk)
  BY <1>2, <1>3
<1>7. \A j \in DOMAIN chunk' : chunk'[j].chosen # NoSlot => chunk'[j].slot = chunk'[j].chosen
  BY <1>4, <1>5 DEF GenerationInv
<1>8. ASSUME NEW s \in Slots'
      PROVE  slotGeneration'[s] <= nextSerial + (IF Opened(s)' THEN 1 ELSE 0)
  <2>1. CASE s = f
    <3>1. Opened(s)'
      BY <1>4, <1>5, <2>1 DEF Opened
    <3>2. s \in Slots => ~Opened(s)
      BY <1>1, <1>3, <2>1 DEF MemoryInv, ChunkSlotsProtected, Opened
    <3>3. s \in Slots => slotGeneration[s] <= nextSerial
      BY <1>3, <3>2 DEF GenerationInv
    <3> QED BY <1>1, <1>3, <2>1, <3>1, <3>3
  <2>2. CASE s # f /\ s \in Slots
    <3>1. Opened(s) => Opened(s)'
      <4>1. s # NoSlot
        BY <2>2 DEF Slots, NoSlot
      <4> QED BY <1>2, <1>5, <4>1 DEF Opened
    <3>2. slotGeneration'[s] = slotGeneration[s]
      BY <1>1, <1>3, <2>2
    <3> QED BY <1>3, <2>2, <3>1, <3>2 DEF GenerationInv
  <2>3. CASE s # f /\ s \notin Slots
    BY <1>1, <1>3, <2>3
  <2> QED BY <2>1, <2>2, <2>3
<1> QED BY <1>2, <1>6, <1>7, <1>8 DEF GenerationInv

\* The commit pays for the generations the chunk opened with its records.
LEMMA CommitGenerationInv ==
  ASSUME MemoryInv, GenerationInv, NEW newCode \in [Touched -> Codes], CommitChunk(newCode)
  PROVE  GenerationInv'
<1>1. /\ Slots' = Slots /\ slotGeneration' = slotGeneration /\ chunk' = <<>>
      /\ nextSerial' = nextSerial + Len(chunk)
  BY DEF CommitChunk, Slots
<1>2. /\ Len(chunk) \in Nat /\ Len(chunk) >= 1 /\ nextSerial \in Nat /\ slotGeneration \in [Slots -> Nat]
  <2>1. Len(chunk) \in Nat \ {0} /\ nextSerial \in Nat
    BY CommitEffect
  <2> QED BY <2>1 DEF MemoryInv, MemoryTypeOK
<1>3. Len(chunk') = 0 /\ DOMAIN chunk' = {} /\ \A s : ~Opened(s)'
  BY <1>1 DEF Opened
<1>4. WriteChunk \in Nat /\ MaxSerial \in Nat
  BY ConfigAssumption
<1>5. nextSerial + Len(chunk) <= MaxSerial
  BY DEF GenerationInv
<1>6. \A s \in Slots : slotGeneration[s] <= nextSerial + Len(chunk)
  BY <1>2 DEF GenerationInv
<1>7. nextSerial' + Len(chunk') <= MaxSerial /\ Len(chunk') <= WriteChunk
  BY <1>1, <1>2, <1>3, <1>4, <1>5
<1>8. \A s \in Slots' : slotGeneration'[s] <= nextSerial' + (IF Opened(s)' THEN 1 ELSE 0)
  BY <1>1, <1>2, <1>3, <1>6
<1> QED BY <1>3, <1>7, <1>8 DEF GenerationInv

\* A step that leaves the generations, the chunk and the serial alone.
LEMMA UnchangedGenerationInv ==
  ASSUME GenerationInv, UNCHANGED <<slotCapacity, slotGeneration, nextSerial, chunk>>
  PROVE  GenerationInv'
  BY DEF GenerationInv, Opened, Slots

------------------------------------------------------------------------------
(* The strengthened invariant.                                             *)

\* An observation of the session is one of records that exist.
LEMMA ObserveCases ==
  ASSUME Observe
  PROVE  \E ids \in SUBSET DOMAIN recordIndex : \E usage \in [ids -> UsageRates] :
         \E evicting \in BOOLEAN : \E E \in SUBSET IndicesOf(ids) :
           /\ ids \subseteq DOMAIN recallOf
           /\ ObserveRecallUsage(ids, usage, evicting, E)
<1>1. PICK ids \in SUBSET DOMAIN recallOf :
        \E usage \in [ids -> UsageRates] : \E evicting \in BOOLEAN :
        \E E \in SUBSET IndicesOf(ids \cap DOMAIN recordIndex) :
          ObserveRecallUsage(ids, usage, evicting, E)
  BY DEF Observe
<1>2. PICK usage \in [ids -> UsageRates], evicting \in BOOLEAN,
           E \in SUBSET IndicesOf(ids \cap DOMAIN recordIndex) :
        ObserveRecallUsage(ids, usage, evicting, E)
  BY <1>1
<1>3. ids \in SUBSET DOMAIN recordIndex /\ ids \cap DOMAIN recordIndex = ids
  BY <1>2 DEF ObserveRecallUsage, Accepts, Known
<1>4. E \in SUBSET IndicesOf(ids)
  BY <1>3
<1> QED BY <1>2, <1>3, <1>4

\* The empty memory satisfies what the strengthening adds.
LEMMA InitFullInv == Init => CountsInv /\ BucketsOrdered /\ UsageInv /\ GenerationInv
<1> SUFFICES ASSUME Init PROVE CountsInv /\ BucketsOrdered /\ UsageInv /\ GenerationInv
  OBVIOUS
<1>1. /\ InitialSlots \in Nat /\ InitialRecords \in Nat /\ WriteChunk \in Nat \ {0}
      /\ MaxSerial \in Nat
  BY ConfigAssumption
<1>2. /\ \A s \in Slots : /\ slotRecords[s] = {} /\ slotCount[s] = 0 /\ ~slotActive[s]
                          /\ slotId[s] = NoId /\ slotGeneration[s] = 0
      /\ \A s \in DOMAIN slotCode : slotCode[s] = NoCode
      /\ \A r \in Records : recordRecalls[r] = 0
      /\ recency = {} /\ chunk = <<>> /\ nextSerial = 0
  BY DEF Init, MemoryInit, Slots, Records
<1>3. Live = {} /\ Indexed = {} /\ Len(chunk) = 0 /\ DOMAIN chunk = {}
  BY <1>2 DEF Live, Indexed
<1>4. CountsInv
  BY <1>2, <1>3, FS_EmptySet DEF CountsInv
<1>5. BucketsOrdered
  BY <1>2, <1>3 DEF BucketsOrdered
<1>6. UsageInv
  BY <1>2 DEF UsageInv, ClusterMatesObservedTogether
<1>7. GenerationInv
  BY <1>1, <1>2, <1>3 DEF GenerationInv, Opened
<1> QED BY <1>4, <1>5, <1>6, <1>7

\* Every step keeps what the strengthening adds.
LEMMA NextFullInv ==
  ASSUME FullInv, [Next]_vars
  PROVE  CountsInv' /\ BucketsOrdered' /\ UsageInv' /\ GenerationInv'
<1>1. MemoryInv /\ CountsInv /\ BucketsOrdered /\ UsageInv /\ GenerationInv
  BY DEF FullInv, IInv
<1>2. CASE BeginSome
  <2>1. PICK n \in 1..WriteChunk :
          \E code \in [1..n -> Codes], choice \in [1..n -> Slots \cup {NoSlot}] :
            BeginChunk(n, code, choice)
    BY <1>2 DEF BeginSome
  <2>2. PICK code \in [1..n -> Codes], choice \in [1..n -> Slots \cup {NoSlot}] :
          BeginChunk(n, code, choice)
    BY <2>1
  <2>3. UNCHANGED slotVars /\ chunk = <<>>
    BY <2>2 DEF BeginChunk, Idle
  <2>4. CountsInv' /\ BucketsOrdered'
    BY <1>1, <2>3, UnchangedCountsInv, UnchangedBuckets
  <2>5. UsageInv'
    BY <1>1, <2>2, BeginUsageInv
  <2>6. GenerationInv'
    BY <1>1, <2>2, BeginGenerationInv
  <2> QED BY <2>4, <2>5, <2>6
<1>3. CASE AllocateSome
  BY <1>1, <1>3, AllocateCountsInv, AllocateBuckets, AllocateUsageInv, AllocateGenerationInv
  DEF AllocateSome
<1>4. CASE CommitSome
  BY <1>1, <1>4, CommitCountsInv, CommitBuckets, CommitUsageInv, CommitGenerationInv
  DEF CommitSome
<1>5. CASE Recall \/ UNCHANGED vars
  <2>1. UNCHANGED memoryVars
    BY <1>5 DEF Recall, vars
  <2>2. UNCHANGED slotVars /\ UNCHANGED <<slotCapacity, slotGeneration, nextSerial, chunk>>
    BY <2>1 DEF memoryVars, slotVars, recordVars
  <2> QED BY <1>1, <2>1, <2>2, UnchangedCountsInv, UnchangedBuckets, UnchangedUsageInv,
             UnchangedGenerationInv
<1>6. CASE Observe
  <2>1. PICK ids \in SUBSET DOMAIN recordIndex : \E usage \in [ids -> UsageRates] :
          \E evicting \in BOOLEAN : \E E \in SUBSET IndicesOf(ids) :
            ObserveRecallUsage(ids, usage, evicting, E)
    BY <1>6, ObserveCases
  <2>2. PICK usage \in [ids -> UsageRates], evicting \in BOOLEAN, E \in SUBSET IndicesOf(ids) :
          ObserveRecallUsage(ids, usage, evicting, E)
    BY <2>1
  <2>3. CountsInv'
    BY <1>1, <2>2, ObserveCountsInv
  <2>4. BucketsOrdered'
    BY <1>1, <2>2, ObserveBuckets
  <2>5. UsageInv'
    BY <1>1, <2>2, ObserveUsageInv
  <2>6. UNCHANGED <<slotCapacity, slotGeneration, nextSerial, chunk>>
    BY <2>2 DEF ObserveRecallUsage
  <2> QED BY <1>1, <2>3, <2>4, <2>5, <2>6, UnchangedGenerationInv
<1> QED BY <1>2, <1>3, <1>4, <1>5, <1>6 DEF Next

\* The strengthened invariant holds in every reachable state, for all values of
\* the constants.
THEOREM FullInvariance == Spec => []FullInv
<1>1. Init /\ IInv => FullInv
  BY InitFullInv DEF FullInv
<1>2. FullInv /\ IInv' /\ [Next]_vars => FullInv'
  BY NextFullInv DEF FullInv
<1> QED BY <1>1, <1>2, Invariance, PTL DEF Spec

\* Counts, activity flags and the locality index always agree with the tables:
\* a lookup, the posterior and the router see every cluster that exists and
\* none that is gone, and each bucket is ordered by its updates.
THEOREM RoutingAlwaysConsistent == Spec => []RoutingConsistent
<1>1. FullInv => RoutingConsistent
  <2> SUFFICES ASSUME FullInv PROVE RoutingConsistent
    OBVIOUS
  <2>1. IndexedIffLive /\ BucketsOrdered /\ CountsInv
    BY DEF FullInv, IInv, MemoryInv
  <2>2. Idle => \A s \in Live : slotRecords[s] # {}
    <3>1. Idle => Touched = {}
      BY DEF Idle, Touched
    <3> QED BY <2>1, <3>1 DEF CountsInv
  <2>3. CountsAgree
    BY <2>1, <2>2 DEF CountsInv, CountsAgree
  <2> QED BY <2>1, <2>3 DEF RoutingConsistent, LocalityListsLiveSlots
<1> QED BY <1>1, FullInvariance, PTL

\* Usage is observed for whole clusters: of two records of a cluster the older
\* was observed at least as often, and no recycled index hands a new record the
\* observations of an earlier one (_prepare_recall_usage, _evict_record_indices).
THEOREM UsageCoversClusters == Spec => []ClusterMatesObservedTogether
<1>1. FullInv => ClusterMatesObservedTogether
  BY DEF FullInv, UsageInv
<1> QED BY <1>1, FullInvariance, PTL

------------------------------------------------------------------------------
(* Evictions.                                                              *)

\* A slot an observation evicts from was observed as a whole, loses only records
\* observed often enough and keeps the configured number of records.
LEMMA EvictionFacts ==
  ASSUME MemoryInv,
         NEW ids \in SUBSET DOMAIN recordIndex, NEW usage \in [ids -> UsageRates],
         NEW evicting \in BOOLEAN, NEW E \in SUBSET IndicesOf(ids),
         ObserveRecallUsage(ids, usage, evicting, E),
         NEW s \in Slots, slotRecords[s] \cap E # {}
  PROVE  /\ \A r \in slotRecords[s] : recordId[r] \in ids
         /\ \A r \in slotRecords[s] \cap E : recordRecalls[r] + 1 >= MinRecalls
         /\ Cardinality(slotRecords[s] \ E) >= MinRecords
<1>1. Covered(ids) /\ (IF evicting THEN EvictionPlan(E, ids, usage) ELSE E = {})
  BY DEF ObserveRecallUsage, Accepts
<1>2. EvictionPlan(E, ids, usage)
  BY <1>1
<1>3. \A d \in ids : recordId[recordIndex[d]] = d
  BY DEF MemoryInv, MembershipConsistent
<1>4. s \in SlotsOf(ids)
  <2>1. PICK r \in slotRecords[s] : r \in E
    OBVIOUS
  <2>2. recordSlot[r] = s
    BY MembersAreActive
  <2> QED BY <2>1, <2>2 DEF SlotsOf, IndicesOf
<1>5. slotRecords[s] \subseteq IndicesOf(ids)
  BY <1>1, <1>4 DEF Covered
<1>6. \A r \in slotRecords[s] : recordId[r] \in ids
  BY <1>3, <1>5 DEF IndicesOf
<1>7. \A r \in E : recordRecalls[r] + 1 >= MinRecalls
  BY <1>2 DEF EvictionPlan, Eligible
<1> DEFINE R == slotRecords[s]
           taken == E \cap R
           eligible == Eligible(s, usage)
<1>8. Cardinality(taken) = Least(Greatest(0, Cardinality(R) - MinRecords), Cardinality(eligible))
  BY <1>2, <1>4 DEF EvictionPlan
<1>9. IsFiniteSet(R) /\ eligible \subseteq R
  BY MembersAreActive DEF Eligible
<1> HIDE DEF eligible
<1>10. /\ Cardinality(R) \in Nat /\ Cardinality(eligible) \in Nat
       /\ IsFiniteSet(taken) /\ Cardinality(taken) \in Nat
       /\ Cardinality(R \ E) = Cardinality(R) - Cardinality(R \cap E)
  BY <1>9, FS_Subset, FS_CardinalityType, FS_Difference
<1>11. Cardinality(taken) # 0 /\ taken = R \cap E
  BY <1>10, FS_EmptySet
<1> HIDE DEF taken, R
<1>12. Cardinality(R \ E) >= MinRecords
  <2>1. MinRecords \in Nat
    BY ConfigAssumption
  <2> QED BY <1>8, <1>10, <1>11, <2>1 DEF Least, Greatest
<1> QED BY <1>6, <1>7, <1>12 DEF R

\* A step removes records only from clusters the session recalled as a whole,
\* only records observed often enough, and never goes below the configured
\* number of records in a cluster (plan_recall_eviction, _evict_record_indices).
THEOREM EvictionsAreConfined == Spec => EvictionConfined
<1> DEFINE Confined(s) == slotRecords[s] \ slotRecords'[s] # {} =>
              /\ \A r \in slotRecords[s] : recordId[r] \in DOMAIN recallOf
              /\ \A r \in slotRecords[s] \ slotRecords'[s] : recordRecalls[r] + 1 >= MinRecalls
              /\ Cardinality(slotRecords'[s]) >= MinRecords
<1>1. ASSUME IInv, [Next]_vars PROVE \A s \in Live : Confined(s)
  <2> SUFFICES ASSUME NEW s \in Live PROVE Confined(s)
    OBVIOUS
  <2>1. MemoryInv /\ s \in Slots /\ slotId[s] # NoId
    BY <1>1 DEF IInv, Live
  <2>2. CASE BeginSome
    <3>1. slotRecords' = slotRecords
      BY <2>2 DEF BeginSome, BeginChunk, slotVars
    <3> QED BY <3>1
  <2>3. CASE AllocateSome
    <3>1. PICK i \in DOMAIN chunk : AllocateSlot(i)
      BY <2>3 DEF AllocateSome
    <3>2. slotRecords'[s] = slotRecords[s]
      BY <2>1, <3>1, AllocateEffect
    <3> QED BY <3>2
  <2>4. CASE CommitSome
    <3>1. slotRecords[s] \subseteq slotRecords'[s]
      BY <2>1, <2>4 DEF CommitSome, CommitChunk
    <3> QED BY <3>1
  <2>5. CASE Recall \/ UNCHANGED vars
    <3>1. slotRecords' = slotRecords
      BY <2>5 DEF Recall, vars, memoryVars, slotVars
    <3> QED BY <3>1
  <2>6. CASE Observe
    <3>1. PICK ids \in SUBSET DOMAIN recordIndex : \E usage \in [ids -> UsageRates] :
            \E evicting \in BOOLEAN : \E E \in SUBSET IndicesOf(ids) :
              ids \subseteq DOMAIN recallOf /\ ObserveRecallUsage(ids, usage, evicting, E)
      BY <2>6, ObserveCases
    <3>2. PICK usage \in [ids -> UsageRates], evicting \in BOOLEAN, E \in SUBSET IndicesOf(ids) :
            ids \subseteq DOMAIN recallOf /\ ObserveRecallUsage(ids, usage, evicting, E)
      BY <3>1
    <3>3. slotRecords'[s] = slotRecords[s] \ E
      BY <2>1, <3>2 DEF ObserveRecallUsage, EvictRecords
    <3>4. slotRecords[s] \ slotRecords'[s] = slotRecords[s] \cap E
      BY <3>3
    <3>5. CASE slotRecords[s] \cap E # {}
      <4>1. /\ \A r \in slotRecords[s] : recordId[r] \in ids
            /\ \A r \in slotRecords[s] \cap E : recordRecalls[r] + 1 >= MinRecalls
            /\ Cardinality(slotRecords[s] \ E) >= MinRecords
        BY <2>1, <3>2, <3>5, EvictionFacts
      <4> QED BY <3>2, <3>3, <3>4, <4>1
    <3>6. CASE slotRecords[s] \cap E = {}
      BY <3>4, <3>6
    <3> QED BY <3>5, <3>6
  <2> QED BY <1>1, <2>2, <2>3, <2>4, <2>5, <2>6 DEF Next
<1>2. IInv /\ [Next]_vars => [\A s \in Live : Confined(s)]_vars
  BY <1>1
<1> QED BY <1>2, Invariance, PTL DEF Spec, EvictionConfined

------------------------------------------------------------------------------
(* The refinement mapping.                                                 *)

\* The clusters of the store, in this state and the next.
LEMMA StoreClustersAre ==
  /\ DOMAIN StoreClusters = {<<s, slotId[s]>> : s \in Populated}
  /\ \A s \in Populated : StoreClusters[<<s, slotId[s]>>] = {recordId[r] : r \in slotRecords[s]}
  BY DEF StoreClusters, ClusterId

\* The same in the next state.
LEMMA NextStoreClustersAre ==
  /\ DOMAIN StoreClusters' = {<<s, slotId'[s]>> : s \in Populated'}
  /\ \A s \in Populated' :
       StoreClusters'[<<s, slotId'[s]>>] = {recordId'[r] : r \in slotRecords'[s]}
  BY DEF StoreClusters, ClusterId

\* The ids given out so far, in this state and the next.
LEMMA StoreUsedAre ==
  \A c : c \in StoreUsed <=>
    \E s \in Slots, k \in 1..MaxSerial :
      /\ c = <<s, k>> /\ k <= slotGeneration[s]
      /\ k = slotId[s] => slotRecords[s] # {}
  BY DEF StoreUsed, ClusterId

\* The same in the next state.
LEMMA NextStoreUsedAre ==
  \A c : c \in StoreUsed' <=>
    \E s \in Slots', k \in 1..MaxSerial :
      /\ c = <<s, k>> /\ k <= slotGeneration'[s]
      /\ k = slotId'[s] => slotRecords'[s] # {}
  BY DEF StoreUsed, ClusterId

\* Clusters whose ids and records do not change are the same for the store.
LEMMA SameClusters ==
  ASSUME Populated' = Populated,
         \A s \in Populated : /\ slotId'[s] = slotId[s] /\ slotRecords'[s] = slotRecords[s]
                              /\ \A r \in slotRecords[s] : recordId'[r] = recordId[r]
  PROVE  StoreClusters' = StoreClusters
<1> DEFINE D == {<<s, slotId[s]>> : s \in Populated}
<1>1. {<<s, slotId'[s]>> : s \in Populated'} = D
  OBVIOUS
<1>2. ASSUME NEW c \in D
      PROVE  {recordId'[r] : r \in slotRecords'[c[1]]} = {recordId[r] : r \in slotRecords[c[1]]}
  <2>1. PICK s \in Populated : c = <<s, slotId[s]>>
    OBVIOUS
  <2>2. c[1] = s
    BY <2>1
  <2>3. slotRecords'[s] = slotRecords[s] /\ \A r \in slotRecords[s] : recordId'[r] = recordId[r]
    OBVIOUS
  <2>4. {recordId'[r] : r \in slotRecords'[s]} = {recordId[r] : r \in slotRecords[s]}
    BY <2>3
  <2> QED BY <2>2, <2>4
<1>3. StoreClusters = [c \in D |-> {recordId[r] : r \in slotRecords[c[1]]}]
  BY DEF StoreClusters, ClusterId
<1>4. StoreClusters' = [c \in D |-> {recordId'[r] : r \in slotRecords'[c[1]]}]
  BY <1>1 DEF StoreClusters, ClusterId
<1> HIDE DEF D
<1> QED BY <1>2, <1>3, <1>4

\* The ids of live slots are their generations, and no other slot holds records.
LEMMA LiveIds ==
  ASSUME FullInv
  PROVE  /\ slotGeneration \in [Slots -> Nat] /\ slotId \in [Slots -> Nat] /\ nextSerial \in Nat
         /\ \A s \in Live : slotId[s] = slotGeneration[s] /\ slotId[s] >= 1
         /\ Populated = {s \in Slots : slotRecords[s] # {}}
<1>1. MemoryInv /\ SessionInv
  BY DEF FullInv, IInv
<1>2. slotGeneration \in [Slots -> Nat] /\ slotId \in [Slots -> Nat] /\ nextSerial \in Nat
  BY <1>1 DEF MemoryInv, MemoryTypeOK
<1>3. \A s \in Live : s \in Slots /\ slotId[s] = slotGeneration[s] /\ slotId[s] # 0
  BY <1>1 DEF SessionInv, Live, NoId
<1>4. \A s \in Slots : slotRecords[s] # {} => slotId[s] # NoId
  <2> SUFFICES ASSUME NEW s \in Slots, NEW r \in slotRecords[s] PROVE slotId[s] # NoId
    OBVIOUS
  <2> QED BY <1>1, MembersAreActive
<1>5. Populated = {s \in Slots : slotRecords[s] # {}}
  BY <1>4 DEF Populated, Live
<1>6. \A s \in Live : slotId[s] >= 1
  BY <1>2, <1>3
<1> QED BY <1>2, <1>3, <1>5, <1>6

\* The empty memory is the empty store.
LEMMA InitStore == Init => Store!Init
<1> SUFFICES ASSUME Init PROVE Store!Init
  OBVIOUS
<1>1. /\ \A s \in Slots : slotRecords[s] = {} /\ slotGeneration[s] = 0
      /\ nextSerial = 0
  BY DEF Init, MemoryInit, Slots
<1>2. Populated = {}
  BY <1>1 DEF Populated, Live
<1>3. StoreClusters = [c \in {} |-> {}]
  BY <1>2 DEF StoreClusters
<1>4. StoreUsed = {}
  <2>1. \A c : c \notin StoreUsed
    BY <1>1, StoreUsedAre
  <2> QED BY <2>1
<1> QED BY <1>1, <1>3, <1>4 DEF Store!Init

\* Deciding the rows of a chunk changes nothing for the store.
LEMMA BeginIsStutter ==
  ASSUME FullInv,
         NEW n \in 1..WriteChunk,
         NEW code \in [1..n -> Codes], NEW choice \in [1..n -> Slots \cup {NoSlot}],
         BeginChunk(n, code, choice)
  PROVE  UNCHANGED Store!storeVars
<1>1. MemoryInv
  BY DEF FullInv, IInv
<1>2. UNCHANGED <<slotCapacity, slotId, slotGeneration, slotRecords, nextSerial>>
  BY DEF BeginChunk, slotVars
<1>3. Slots' = Slots /\ Populated' = Populated
  BY <1>2 DEF Slots, Populated, Live
<1>4. \A r \in Records : recordId'[r] = recordId[r]
  <2>1. n \in Nat
    BY ConfigAssumption
  <2> QED BY <1>1, <2>1, BeginKeepsRecords DEF MemoryInv
<1>5. \A s \in Populated : slotRecords[s] \subseteq Records
  BY <1>1, MembersAreActive DEF Populated, Live
<1>6. StoreClusters' = StoreClusters
  BY <1>2, <1>3, <1>4, <1>5, SameClusters
<1>7. StoreUsed' = StoreUsed
  BY <1>2, <1>3 DEF StoreUsed, ClusterId
<1> QED BY <1>2, <1>6, <1>7 DEF Store!storeVars

\* Opening a cluster changes nothing for the store: the new id is not given out
\* before the commit, and every earlier id of the slot stays used.
LEMMA AllocateIsStutter ==
  ASSUME FullInv, NEW i \in DOMAIN chunk, AllocateSlot(i)
  PROVE  UNCHANGED Store!storeVars
<1> DEFINE f == NextFreeSlot
<1>1. MemoryInv /\ MemoryInv'
  BY AllocateMemoryInv DEF FullInv, IInv
<1>2. /\ Slots \subseteq Slots' /\ f \in Slots'
      /\ f \in Slots => slotId[f] = NoId
      /\ slotId'[f] # NoId
      /\ \A s \in Slots' :
              /\ slotRecords'[s] = IF s \in Slots /\ s # f THEN slotRecords[s] ELSE {}
              /\ s # f => slotId'[s] = IF s \in Slots THEN slotId[s] ELSE NoId
              /\ slotGeneration'[s] = (IF s \in Slots THEN slotGeneration[s] ELSE 0)
                                        + (IF s = f THEN 1 ELSE 0)
  BY <1>1, AllocateEffect
<1>3. slotId'[f] = (IF f \in Slots THEN slotGeneration[f] ELSE 0) + 1
  <2>2. f \in 0..(SlotsAfterGrowth - 1)
    BY <1>1, GrowthProperties DEF MemoryInv
  <2>3. slotId' = [Grown(slotId, NoId) EXCEPT ![f] = Grown(slotGeneration, 0)[f] + 1]
    BY DEF AllocateSlot
  <2>4. DOMAIN Grown(slotId, NoId) = 0..(SlotsAfterGrowth - 1)
    BY DEF Grown, Extend
  <2>5. /\ \A s \in Slots : Grown(slotGeneration, 0)[s] = slotGeneration[s]
        /\ \A s \in 0..(SlotsAfterGrowth - 1) : s \notin Slots => Grown(slotGeneration, 0)[s] = 0
    <3>1. MemoryTypeOK /\ DOMAIN slotGeneration = Slots
      BY <1>1 DEF MemoryInv, MemoryTypeOK
    <3> QED BY <3>1, GrownValues
  <2> HIDE DEF f
  <2> QED BY <2>2, <2>3, <2>4, <2>5
<1>4. nextSerial' = nextSerial /\ recordId' = recordId
  BY DEF AllocateSlot, recordVars
<1>5. /\ slotGeneration \in [Slots -> Nat] /\ slotId \in [Slots -> Nat]
      /\ Populated = {s \in Slots : slotRecords[s] # {}}
  BY LiveIds
<1>6. Populated' = {s \in Slots' : slotRecords'[s] # {}}
  <2>1. \A s \in Slots' : slotRecords'[s] # {} => slotId'[s] # NoId
    BY <1>1, <1>2, MembersAreActive
  <2> QED BY <2>1 DEF Populated, Live
<1>7. f \in Slots => slotRecords[f] = {}
  BY <1>1, <1>2, MembersAreActive
<1> HIDE DEF f
<1>8. Populated' = Populated
  BY <1>2, <1>5, <1>6, <1>7
<1>9. \A s \in Populated : slotId'[s] = slotId[s] /\ slotRecords'[s] = slotRecords[s]
  BY <1>2, <1>5, <1>7
<1>10. StoreClusters' = StoreClusters
  BY <1>4, <1>8, <1>9, SameClusters
<1>11. ASSUME NEW s \in Slots', NEW k \in 1..MaxSerial
       PROVE  (k <= slotGeneration'[s] /\ (k = slotId'[s] => slotRecords'[s] # {}))
                <=> (s \in Slots /\ k <= slotGeneration[s] /\ (k = slotId[s] => slotRecords[s] # {}))
  <2>1. k \in Nat /\ k >= 1
    OBVIOUS
  <2>2. CASE s = f /\ s \in Slots
    BY <1>2, <1>3, <1>5, <2>1, <2>2 DEF NoId
  <2>3. CASE s = f /\ s \notin Slots
    BY <1>2, <1>3, <2>1, <2>3
  <2>4. CASE s # f /\ s \in Slots
    <3>1. slotGeneration'[s] = slotGeneration[s]
      BY <1>2, <1>5, <2>4
    <3> QED BY <1>2, <2>4, <3>1
  <2>5. CASE s # f /\ s \notin Slots
    BY <1>2, <2>1, <2>5
  <2> QED BY <2>2, <2>3, <2>4, <2>5
<1>12. \A c : c \in StoreUsed' <=> c \in StoreUsed
  BY <1>2, <1>11, StoreUsedAre, NextStoreUsedAre
<1>13. StoreUsed' = StoreUsed
  <2>1. StoreUsed' \subseteq StoreUsed /\ StoreUsed \subseteq StoreUsed'
    BY <1>12
  <2> QED BY <2>1
<1> QED BY <1>4, <1>10, <1>13 DEF Store!storeVars

\* The commit of a chunk ingests its rows: one batch of new records, each in one
\* cluster, and the clusters it opened get ids never used before.
LEMMA CommitIsIngest ==
  ASSUME FullInv, NEW newCode \in [Touched -> Codes], CommitChunk(newCode)
  PROVE  Store!Ingest
<1>1. MemoryInv /\ GenerationInv
  BY DEF FullInv, IInv
<1>2. /\ Slots' = Slots /\ slotId' = slotId /\ slotGeneration' = slotGeneration
      /\ DOMAIN chunk = 1..Len(chunk) /\ Len(chunk) \in Nat \ {0}
      /\ nextSerial \in Nat /\ nextSerial' = nextSerial + Len(chunk)
      /\ Touched \subseteq Live
      /\ \A s \in Slots : slotRecords'[s] = slotRecords[s] \cup {chunk[i].index : i \in RowsOf(s)}
      /\ \A i \in DOMAIN chunk : /\ chunk[i].index \in Reserved /\ RowAt(chunk[i].index) = i
                                 /\ chunk[i].slot \in Slots
      /\ \A r \in Reserved : /\ RowAt(r) \in DOMAIN chunk /\ chunk[RowAt(r)].index = r
                             /\ r \in Records /\ recordSlot[r] = NoSlot
      /\ \A r \in Records :
           recordId'[r] = IF r \in Reserved THEN nextSerial + RowAt(r) ELSE recordId[r]
  BY <1>1, CommitEffect
<1>3. /\ slotGeneration \in [Slots -> Nat] /\ slotId \in [Slots -> Nat]
      /\ \A s \in Live : slotId[s] = slotGeneration[s] /\ slotId[s] >= 1
      /\ Populated = {s \in Slots : slotRecords[s] # {}}
  BY LiveIds
<1>4. MaxSerial \in Nat /\ WriteChunk \in Nat
  BY ConfigAssumption
<1> DEFINE New == (nextSerial + 1)..nextSerial'
<1>5. /\ \A r \in Reserved : recordId'[r] \in New
      /\ \A s \in Slots : \A r \in slotRecords[s] :
           r \notin Reserved /\ recordId'[r] = recordId[r] /\ recordId[r] \notin New
  <2>1. \A r \in Reserved : recordId'[r] \in New
    BY <1>2
  <2>2. ASSUME NEW s \in Slots, NEW r \in slotRecords[s]
        PROVE  r \notin Reserved /\ recordId'[r] = recordId[r] /\ recordId[r] \notin New
    <3>1. r \in Records /\ recordSlot[r] = s /\ s # NoSlot
      BY <1>1, MembersAreActive
    <3>2. r \notin Reserved /\ recordId'[r] = recordId[r]
      BY <1>2, <3>1
    <3>3. recordId[r] \in 1..nextSerial
      BY <1>1, <3>1 DEF MemoryInv, MembershipConsistent, MemoryTypeOK
    <3> QED BY <1>2, <3>2, <3>3
  <2> QED BY <2>1, <2>2
<1>6. Populated' = Populated \cup Touched
  <2>1. Live' = Live
    BY <1>2 DEF Live
  <2>2. \A s \in Slots : slotRecords'[s] # {} <=> slotRecords[s] # {} \/ RowsOf(s) # {}
    <3> SUFFICES ASSUME NEW s \in Slots
                 PROVE  slotRecords'[s] # {} <=> slotRecords[s] # {} \/ RowsOf(s) # {}
      OBVIOUS
    <3>1. slotRecords'[s] = slotRecords[s] \cup {chunk[i].index : i \in RowsOf(s)}
      BY <1>2
    <3>2. {chunk[i].index : i \in RowsOf(s)} # {} <=> RowsOf(s) # {}
      OBVIOUS
    <3> QED BY <3>1, <3>2
  <2>3. \A s : s \in Touched <=> RowsOf(s) # {}
    BY DEF Touched, RowsOf
  <2> QED BY <1>2, <2>1, <2>2, <2>3 DEF Populated, Live
<1>7. /\ DOMAIN StoreClusters' = {<<s, slotId[s]>> : s \in Populated'}
      /\ \A s \in Populated' :
           StoreClusters'[<<s, slotId[s]>>] = {recordId'[r] : r \in slotRecords'[s]}
  BY <1>2, NextStoreClustersAre
<1>8. /\ DOMAIN StoreClusters = {<<s, slotId[s]>> : s \in Populated}
      /\ \A s \in Populated : StoreClusters[<<s, slotId[s]>>] = {recordId[r] : r \in slotRecords[s]}
  BY StoreClustersAre
<1>9. Populated' \subseteq Live
  BY <1>2, <1>6 DEF Populated
<1>10. DOMAIN StoreClusters \subseteq DOMAIN StoreClusters'
  BY <1>6, <1>7, <1>8
<1>11. (DOMAIN StoreClusters' \ DOMAIN StoreClusters) \cap StoreUsed = {}
  <2> SUFFICES ASSUME NEW s \in Populated', s \notin Populated, <<s, slotId[s]>> \in StoreUsed
               PROVE  FALSE
    BY <1>7, <1>8
  <2>1. s \in Slots /\ slotRecords[s] = {}
    BY <1>3, <1>9 DEF Live
  <2> QED BY <2>1, StoreUsedAre
<1>12. StoreUsed' = StoreUsed \cup DOMAIN StoreClusters'
  <2>1. \A s \in Populated' : slotId[s] \in 1..MaxSerial
    <3> SUFFICES ASSUME NEW s \in Populated' PROVE slotId[s] \in 1..MaxSerial
      OBVIOUS
    <3>1. s \in Slots /\ slotId[s] = slotGeneration[s] /\ slotId[s] >= 1 /\ slotId[s] \in Nat
      BY <1>3, <1>9 DEF Live
    <3>2. slotGeneration[s] <= nextSerial + (IF Opened(s) THEN 1 ELSE 0)
      BY <1>1, <3>1 DEF GenerationInv
    <3>3. nextSerial + Len(chunk) <= MaxSerial
      BY <1>1 DEF GenerationInv
    <3> QED BY <1>2, <1>4, <3>1, <3>2, <3>3
  <2>2. ASSUME NEW c \in StoreUsed' PROVE c \in StoreUsed \cup DOMAIN StoreClusters'
    <3>1. PICK s \in Slots, k \in 1..MaxSerial :
            /\ c = <<s, k>> /\ k <= slotGeneration[s] /\ (k = slotId[s] => slotRecords'[s] # {})
      BY <1>2, NextStoreUsedAre
    <3>2. CASE k = slotId[s] /\ slotRecords[s] = {}
      <4>1. slotId[s] # NoId /\ s \in Live'
        BY <1>2, <3>2 DEF Live, NoId
      <4>2. s \in Populated'
        BY <3>1, <3>2, <4>1 DEF Populated
      <4> QED BY <1>7, <3>1, <3>2, <4>2
    <3>3. CASE k = slotId[s] => slotRecords[s] # {}
      BY <3>1, <3>3, StoreUsedAre
    <3> QED BY <3>2, <3>3
  <2>3. ASSUME NEW c \in StoreUsed PROVE c \in StoreUsed'
    <3>1. PICK s \in Slots, k \in 1..MaxSerial :
            /\ c = <<s, k>> /\ k <= slotGeneration[s] /\ (k = slotId[s] => slotRecords[s] # {})
      BY StoreUsedAre
    <3>2. slotRecords[s] \subseteq slotRecords'[s]
      BY <1>2
    <3> QED BY <1>2, <3>1, <3>2, NextStoreUsedAre
  <2>4. ASSUME NEW s \in Populated' PROVE <<s, slotId[s]>> \in StoreUsed'
    <3>1. s \in Slots /\ slotId[s] <= slotGeneration[s] /\ slotRecords'[s] # {}
      BY <1>2, <1>3, <1>9 DEF Live, Populated
    <3> QED BY <1>2, <2>1, <3>1, NextStoreUsedAre
  <2>5. DOMAIN StoreClusters' \subseteq StoreUsed'
    BY <1>7, <2>4
  <2> QED BY <2>2, <2>3, <2>5
<1>13. nextSerial' - nextSerial \in 1..WriteChunk
  BY <1>1, <1>2, <1>4 DEF GenerationInv
<1>14. ASSUME NEW c \in DOMAIN StoreClusters'
       PROVE  /\ StoreClusters'[c] # {}
              /\ StoreClusters'[c] \ New = IF c \in DOMAIN StoreClusters THEN StoreClusters[c] ELSE {}
  <2>1. PICK s \in Populated' : c = <<s, slotId[s]>>
    BY <1>7
  <2>2. s \in Slots /\ slotRecords'[s] # {} /\ StoreClusters'[c] = {recordId'[r] : r \in slotRecords'[s]}
    BY <1>2, <1>7, <1>9, <2>1 DEF Populated, Live
  <2>3. \A r \in slotRecords'[s] : r \in slotRecords[s] \/ r \in Reserved
    BY <1>2, <2>2 DEF RowsOf
  <2>4. slotRecords[s] \subseteq slotRecords'[s]
    BY <1>2, <2>2
  <2>5. {recordId'[r] : r \in slotRecords'[s]} \ New = {recordId[r] : r \in slotRecords[s]}
    <3>1. \A r \in slotRecords[s] : recordId'[r] = recordId[r] /\ recordId[r] \notin New
      BY <1>5, <2>2
    <3>2. \A r \in slotRecords'[s] : r \notin slotRecords[s] => recordId'[r] \in New
      BY <1>5, <2>3
    <3> HIDE DEF New
    <3>3. \A r \in slotRecords'[s] : recordId'[r] \notin New =>
            \E q \in slotRecords[s] : recordId'[r] = recordId[q]
      BY <3>1, <3>2
    <3>4. \A q \in slotRecords[s] :
            recordId[q] \notin New /\ \E r \in slotRecords'[s] : recordId'[r] = recordId[q]
      BY <2>4, <3>1
    <3> DEFINE After == {recordId'[r] : r \in slotRecords'[s]}
               Earlier == {recordId[r] : r \in slotRecords[s]}
    <3>5. \A x \in After \ New : x \in Earlier
      BY <3>3
    <3>6. \A x \in Earlier : x \in After /\ x \notin New
      BY <3>4
    <3> HIDE DEF After, Earlier
    <3>7. After \ New = Earlier
      BY <3>5, <3>6
    <3> QED BY <3>7, Zenon DEF After, Earlier
  <2>6. StoreClusters'[c] # {} /\ StoreClusters'[c] \ New = {recordId[r] : r \in slotRecords[s]}
    <3>1. StoreClusters'[c] # {}
      BY <2>2
    <3> QED BY <2>2, <2>5, <3>1, Zenon
  <2>7. CASE s \in Populated
    <3>1. c \in DOMAIN StoreClusters /\ StoreClusters[c] = {recordId[r] : r \in slotRecords[s]}
      BY <1>8, <2>1, <2>7
    <3> QED BY <2>6, <3>1, Zenon
  <2>8. CASE s \notin Populated
    <3>1. c \notin DOMAIN StoreClusters
      BY <1>8, <2>1, <2>8
    <3>2. slotRecords[s] = {}
      BY <1>3, <2>2, <2>8
    <3>3. {recordId[r] : r \in slotRecords[s]} = {}
      BY <3>2
    <3> QED BY <2>6, <3>1, <3>3, Zenon
  <2> QED BY <2>7, <2>8
<1>15. ASSUME NEW d \in New
       PROVE  \E c \in DOMAIN StoreClusters' :
                /\ d \in StoreClusters'[c]
                /\ \A b \in DOMAIN StoreClusters' \ {c} : d \notin StoreClusters'[b]
  <2> DEFINE i == d - nextSerial
             r == chunk[i].index
             s == chunk[i].slot
             c == <<s, slotId[s]>>
  <2>1. i \in DOMAIN chunk /\ d = nextSerial + i
    BY <1>2
  <2>2. r \in Reserved /\ RowAt(r) = i /\ s \in Slots /\ i \in RowsOf(s) /\ s \in Touched
    BY <1>2, <2>1 DEF RowsOf, Touched
  <2>3. recordId'[r] = d
    BY <1>2, <2>1, <2>2
  <2>4. s \in Populated' /\ r \in slotRecords'[s]
    BY <1>2, <1>6, <2>2
  <2>5. c \in DOMAIN StoreClusters' /\ d \in StoreClusters'[c]
    BY <1>7, <2>3, <2>4
  <2>6. ASSUME NEW t \in Populated', d \in StoreClusters'[<<t, slotId[t]>>] PROVE t = s
    <3>1. t \in Slots
      BY <1>9 DEF Live
    <3>2. PICK q \in slotRecords'[t] : recordId'[q] = d
      BY <1>7, <2>6
    <3>3. q \notin slotRecords[t]
      BY <1>5, <3>1, <3>2
    <3>4. PICK j \in RowsOf(t) : q = chunk[j].index
      BY <1>2, <3>1, <3>2, <3>3
    <3>5. j \in DOMAIN chunk /\ chunk[j].slot = t
      BY DEF RowsOf
    <3>6. recordId'[q] = nextSerial + j /\ j \in Nat /\ i \in Nat
      BY <1>2, <2>1, <3>4, <3>5
    <3>7. j = i
      BY <1>2, <2>1, <3>2, <3>6
    <3> QED BY <3>5, <3>7
  <2> HIDE DEF c, s, r, i
  <2>7. \A b \in DOMAIN StoreClusters' \ {c} : d \notin StoreClusters'[b]
    BY <1>7, <2>6 DEF c
  <2> QED BY <2>5, <2>7
<1> QED BY <1>10, <1>11, <1>12, <1>13, <1>14, <1>15 DEF Store!Ingest

\* The cardinality the store speaks of is the one of FiniteSets.
LEMMA StoreCardinality == \A S : Store!Cardinality(S) = Cardinality(S)
  BY Zenon DEF Store!Cardinality, Cardinality

\* The ids of the members of a slot are as many as the members.
LEMMA IdsCountRecords ==
  ASSUME MemoryInv, NEW s \in Slots, NEW E
  PROVE  Cardinality({recordId[r] : r \in slotRecords[s] \ E}) = Cardinality(slotRecords[s] \ E)
<1> DEFINE R == slotRecords[s] \ E
           D == {recordId[r] : r \in R}
           F == [r \in R |-> recordId[r]]
<1>1. IsFiniteSet(R)
  BY MembersAreActive, FS_Difference
<1>2. \A q, r \in R : recordId[q] = recordId[r] => q = r
  <2>1. \A r \in R : recordIndex[recordId[r]] = r
    <3> SUFFICES ASSUME NEW r \in R PROVE recordIndex[recordId[r]] = r
      OBVIOUS
    <3>1. r \in Records /\ recordSlot[r] # NoSlot
      BY MembersAreActive
    <3> QED BY <3>1 DEF MemoryInv, MembershipConsistent
  <2> QED BY <2>1
<1> HIDE DEF R
<1>3. F \in [R -> D] /\ \A d \in D : \E r \in R : F[r] = d
  OBVIOUS
<1>4. \A q, r \in R : F[q] = F[r] => q = r
  BY <1>2
<1>5. ExistsBijection(R, D)
  BY <1>3, <1>4, Fun_IsBij, Fun_ExistsBij
<1> QED BY <1>1, <1>5, FS_Bijection DEF R

\* An observation removes records within the floor; the clusters it empties are
\* gone, and their ids remain used.
LEMMA ObserveIsEvict ==
  ASSUME FullInv,
         NEW ids \in SUBSET DOMAIN recordIndex, NEW usage \in [ids -> UsageRates],
         NEW evicting \in BOOLEAN, NEW E \in SUBSET IndicesOf(ids),
         ObserveRecallUsage(ids, usage, evicting, E)
  PROVE  Store!Evict
<1>1. MemoryInv
  BY DEF FullInv, IInv
<1>2. /\ Slots' = Slots /\ slotGeneration' = slotGeneration /\ nextSerial' = nextSerial
      /\ EvictRecords(E)
  BY DEF ObserveRecallUsage, Slots
<1>3. /\ \A s \in Slots : /\ slotRecords'[s] = slotRecords[s] \ E
                          /\ slotId'[s] = IF s \in Emptied(E) THEN NoId ELSE slotId[s]
      /\ \A r \in Records : r \notin E => recordId'[r] = recordId[r]
  BY <1>2 DEF EvictRecords
<1>4. /\ slotGeneration \in [Slots -> Nat] /\ slotId \in [Slots -> Nat]
      /\ Populated = {s \in Slots : slotRecords[s] # {}}
  BY LiveIds
<1>5. \A s \in Slots : s \in Emptied(E) <=> slotRecords[s] # {} /\ slotRecords[s] \subseteq E
  BY DEF Emptied
<1>6. ASSUME NEW s \in Slots
      PROVE  s \in Populated' <=> slotRecords[s] \ E # {}
  <2>1. slotRecords[s] \ E # {} => s \in Live /\ s \notin Emptied(E)
    BY <1>1, <1>5, MembersAreActive DEF Live
  <2>2. slotRecords[s] \ E # {} => slotId'[s] # NoId
    BY <1>3, <2>1 DEF Live
  <2> QED BY <1>2, <1>3, <2>2 DEF Populated, Live
<1>7. Populated' \subseteq Populated /\ \A s \in Populated' : slotId'[s] = slotId[s]
  <2>1. Populated' \subseteq Slots
    BY <1>2 DEF Populated, Live
  <2> QED BY <1>3, <1>4, <1>5, <1>6, <2>1
<1>8. /\ DOMAIN StoreClusters' = {<<s, slotId[s]>> : s \in Populated'}
      /\ \A s \in Populated' :
           StoreClusters'[<<s, slotId[s]>>] = {recordId[r] : r \in slotRecords[s] \ E}
  <2>1. \A s \in Populated' : {recordId'[r] : r \in slotRecords'[s]} = {recordId[r] : r \in slotRecords[s] \ E}
    <3> SUFFICES ASSUME NEW s \in Populated'
                 PROVE  {recordId'[r] : r \in slotRecords'[s]} = {recordId[r] : r \in slotRecords[s] \ E}
      OBVIOUS
    <3>1. s \in Slots
      BY <1>4, <1>7
    <3>2. slotRecords'[s] = slotRecords[s] \ E /\ \A r \in slotRecords[s] \ E : recordId'[r] = recordId[r]
      BY <1>1, <1>3, <3>1, MembersAreActive
    <3> QED BY <3>2
  <2>2. /\ DOMAIN StoreClusters' = {<<s, slotId'[s]>> : s \in Populated'}
        /\ \A s \in Populated' :
             StoreClusters'[<<s, slotId'[s]>>] = {recordId'[r] : r \in slotRecords'[s]}
    BY NextStoreClustersAre
  <2> QED BY <1>7, <2>1, <2>2
<1>9. /\ DOMAIN StoreClusters = {<<s, slotId[s]>> : s \in Populated}
      /\ \A s \in Populated : StoreClusters[<<s, slotId[s]>>] = {recordId[r] : r \in slotRecords[s]}
  BY StoreClustersAre
<1>10. ASSUME NEW c \in DOMAIN StoreClusters'
       PROVE  c \in DOMAIN StoreClusters /\ StoreClusters'[c] # {}
  <2>1. PICK s \in Populated' : c = <<s, slotId[s]>>
    BY <1>8
  <2>2. s \in Populated /\ s \in Slots /\ slotRecords[s] \ E # {}
    BY <1>4, <1>6, <1>7
  <2> QED BY <1>8, <1>9, <2>1, <2>2
<1>11. ASSUME NEW c \in DOMAIN StoreClusters
       PROVE  LET left == IF c \in DOMAIN StoreClusters' THEN StoreClusters'[c] ELSE {}
              IN /\ left \subseteq StoreClusters[c]
                 /\ left = StoreClusters[c] \/ Cardinality(left) >= MinRecords
  <2> DEFINE left == IF c \in DOMAIN StoreClusters' THEN StoreClusters'[c] ELSE {}
  <2>1. PICK s \in Populated : c = <<s, slotId[s]>>
    BY <1>9
  <2>2. s \in Slots /\ StoreClusters[c] = {recordId[r] : r \in slotRecords[s]}
    BY <1>4, <1>9, <2>1
  <2>3. c \in DOMAIN StoreClusters' <=> s \in Populated'
    BY <1>8, <2>1
  <2>4. left = {recordId[r] : r \in slotRecords[s] \ E}
    <3>1. CASE s \in Populated'
      BY <1>8, <2>1, <2>3, <3>1
    <3>2. CASE s \notin Populated'
      <4>1. slotRecords[s] \ E = {}
        BY <1>6, <2>2, <3>2
      <4> QED BY <2>3, <3>2, <4>1
    <3> QED BY <3>1, <3>2
  <2> HIDE DEF left
  <2>5. left \subseteq StoreClusters[c]
    BY <2>2, <2>4
  <2>6. CASE slotRecords[s] \cap E = {}
    <3>1. slotRecords[s] \ E = slotRecords[s]
      BY <2>6
    <3> QED BY <2>2, <2>4, <2>5, <3>1 DEF left
  <2>7. CASE slotRecords[s] \cap E # {}
    <3>1. Cardinality(slotRecords[s] \ E) >= MinRecords
      BY <1>1, <2>2, <2>7, EvictionFacts
    <3>2. Cardinality(left) = Cardinality(slotRecords[s] \ E)
      BY <1>1, <2>2, <2>4, IdsCountRecords
    <3> QED BY <2>5, <3>1, <3>2 DEF left
  <2> QED BY <2>6, <2>7
<1>12. ASSUME NEW s \in Slots, NEW k \in 1..MaxSerial
       PROVE  (k = slotId'[s] => slotRecords'[s] # {}) <=> (k = slotId[s] => slotRecords[s] # {})
  <2>1. k # NoId
    BY DEF NoId
  <2>2. CASE s \in Emptied(E)
    BY <1>3, <1>5, <2>1, <2>2
  <2>3. CASE s \notin Emptied(E)
    BY <1>3, <1>5, <2>3
  <2> QED BY <2>2, <2>3
<1>13. \A c : c \in StoreUsed' <=> c \in StoreUsed
  BY <1>2, <1>12, StoreUsedAre, NextStoreUsedAre
<1>14. StoreUsed' = StoreUsed
  <2>1. StoreUsed' \subseteq StoreUsed /\ StoreUsed \subseteq StoreUsed'
    BY <1>13
  <2> QED BY <2>1
<1>15. ASSUME NEW c \in DOMAIN StoreClusters
       PROVE  LET left == IF c \in DOMAIN StoreClusters' THEN StoreClusters'[c] ELSE {}
              IN /\ left \subseteq StoreClusters[c]
                 /\ left = StoreClusters[c] \/ Store!Cardinality(left) >= MinRecords
  BY <1>11, StoreCardinality
<1> QED BY <1>2, <1>10, <1>14, <1>15 DEF Store!Evict

\* Every step of the memory is a step of the cluster store or changes nothing
\* in it.
LEMMA NextStore ==
  ASSUME FullInv, [Next]_vars
  PROVE  [Store!Next]_Store!storeVars
<1>1. CASE BeginSome
  <2>1. PICK n \in 1..WriteChunk :
          \E code \in [1..n -> Codes], choice \in [1..n -> Slots \cup {NoSlot}] :
            BeginChunk(n, code, choice)
    BY <1>1 DEF BeginSome
  <2>2. PICK code \in [1..n -> Codes], choice \in [1..n -> Slots \cup {NoSlot}] :
          BeginChunk(n, code, choice)
    BY <2>1
  <2>3. UNCHANGED Store!storeVars
    BY <2>2, BeginIsStutter
  <2> QED BY <2>3
<1>2. CASE AllocateSome
  <2>1. UNCHANGED Store!storeVars
    BY <1>2, AllocateIsStutter DEF AllocateSome
  <2> QED BY <2>1
<1>3. CASE CommitSome
  <2>1. Store!Ingest
    BY <1>3, CommitIsIngest DEF CommitSome
  <2> QED BY <2>1 DEF Store!Next
<1>4. CASE Recall \/ UNCHANGED vars
  <2>1. UNCHANGED <<slotCapacity, slotId, slotGeneration, slotRecords, recordId, nextSerial>>
    BY <1>4 DEF Recall, vars, memoryVars, slotVars, recordVars
  <2>2. UNCHANGED Store!storeVars
    BY <2>1 DEF Store!storeVars, StoreClusters, StoreUsed, Populated, Live, Slots, ClusterId
  <2> QED BY <2>2
<1>5. CASE Observe
  <2>1. PICK ids \in SUBSET DOMAIN recordIndex : \E usage \in [ids -> UsageRates] :
          \E evicting \in BOOLEAN : \E E \in SUBSET IndicesOf(ids) :
            ObserveRecallUsage(ids, usage, evicting, E)
    BY <1>5, ObserveCases
  <2>2. PICK usage \in [ids -> UsageRates], evicting \in BOOLEAN, E \in SUBSET IndicesOf(ids) :
          ObserveRecallUsage(ids, usage, evicting, E)
    BY <2>1
  <2>3. Store!Evict
    BY <2>2, ObserveIsEvict
  <2> QED BY <2>3 DEF Store!Next
<1> QED BY <1>1, <1>2, <1>3, <1>4, <1>5 DEF Next

\* For all values of the constants the memory behaves as the cluster store: a
\* map from ids never used twice to disjoint sets of records, none of which ever
\* moves, which chunks extend and evictions shrink within the floor.
THEOREM MemoryImplementsStore == Spec => ImplementsClusterStore
<1>1. Init => Store!Init
  BY InitStore
<1>2. FullInv /\ [Next]_vars => [Store!Next]_Store!storeVars
  BY NextStore
<1> QED BY <1>1, <1>2, FullInvariance, PTL DEF Spec, ImplementsClusterStore, Store!Spec

------------------------------------------------------------------------------
(* The inductive invariant of a calibration.                                *)

\* Of a row the launch, the sample, the variant and the layer.
RowKeys == Nat \X Nat \X Nat \X Nat

Collecting == step \in {"capture", "variants", "ended"}

\* The rows that are due by now: all of earlier samples, of this one those of the
\* variants before the one that is next.
Due(k) ==
  /\ k[1] = launch /\ k[2] \in 1..sample /\ k[3] \in 1..setup.variants /\ k[4] \in 1..setup.layers
  /\ step = "variants" => k[2] < sample \/ k[3] < variant

CountersInv ==
  /\ setup \in Setups /\ launch \in Nat /\ sample \in Nat /\ variant \in Nat
  /\ step = "open" => sample = 0 /\ rows = <<>>
  /\ step = "variants" => variant \in 1..setup.variants /\ sample >= 1
  /\ step \in {"open", "capture", "variants", "ended"} => resolved = [launch |-> launch, setup |-> setup]

\* The file holds the rows that are due, each once.
FileInv ==
  Collecting =>
    /\ samples \in Seq(RowKeys)
    /\ \A i, j \in DOMAIN samples : samples[i] = samples[j] => i = j
    /\ \A k \in RowKeys : (\E i \in DOMAIN samples : samples[i] = k) <=> Due(k)

\* So does the memory, line by line.
MemoryOfRowsInv ==
  Collecting =>
    /\ \E S : rows \in Seq(S)
    /\ Len(rows) = Len(samples)
    /\ \A i \in DOMAIN rows : rows[i].sample = samples[i][2] /\ rows[i].variant = samples[i][3]

ResultInv ==
  step = "ended" =>
    /\ sample = setup.samples /\ metrics.launch = launch
    /\ metrics.measured = [i \in DOMAIN rows |-> <<rows[i].sample, rows[i].variant>>]

CalibrationInv == CountersInv /\ FileInv /\ MemoryOfRowsInv /\ ResultInv

\* The invariant holds before the first launch.
LEMMA CalibrationStarts == ASSUME CalibrationInit PROVE CalibrationInv
BY DEF CalibrationInit, CalibrationInv, CountersInv, FileInv, MemoryOfRowsInv, ResultInv, Collecting

\* A launch in the same directory keeps the invariant, whatever it finds there.
LEMMA CalibrationLaunch ==
  ASSUME CalibrationInv, Launch PROVE CalibrationInv'
<1>1. PICK s \in Setups :
        /\ setup' = s
        /\ resolved' = IF s.program = "block" /\ s.variants > MaximumVariants
                         THEN resolved ELSE Begin(s)
        /\ step' = IF s.variants > MaximumVariants THEN "failed" ELSE "open"
  BY DEF Launch
<1>2. launch' = launch + 1 /\ sample' = 0 /\ variant' = 0 /\ rows' = <<>>
  BY DEF Launch
<1>3. CountersInv'
  BY <1>1, <1>2 DEF CalibrationInv, CountersInv, Begin
<1> QED BY <1>1, <1>3 DEF CalibrationInv, FileInv, MemoryOfRowsInv, ResultInv, Collecting

\* So does emptying the sample file,
LEMMA CalibrationOpen ==
  ASSUME CalibrationInv, OpenSamples PROVE CalibrationInv'
<1>1. /\ step = "open" /\ step' = "capture" /\ samples' = <<>> /\ sample = 0 /\ rows = <<>>
      /\ UNCHANGED <<setup, sample, variant, rows, launch, resolved>>
  BY DEF OpenSamples, CalibrationInv, CountersInv
<1>2. CountersInv'
  BY <1>1 DEF CalibrationInv, CountersInv
<1>3. FileInv'
  BY <1>1 DEF FileInv, Collecting, Due
<1>4. MemoryOfRowsInv'
  <2>1. rows' = <<>> /\ rows' \in Seq(RowKeys)
    BY <1>1
  <2> QED BY <1>1, <2>1 DEF MemoryOfRowsInv
<1> QED BY <1>1, <1>2, <1>3, <1>4 DEF CalibrationInv, ResultInv

\* capturing a sample,
LEMMA CalibrationCapture ==
  ASSUME CalibrationInv, Capture PROVE CalibrationInv'
<1>1. /\ step = "capture" /\ sample < setup.samples
      /\ UNCHANGED <<setup, rows, launch, resolved, samples, metrics>>
      /\ \/ sample' = sample + 1 /\ variant' = 1 /\ step' = "variants"
         \/ step' = "failed" /\ UNCHANGED <<sample, variant>>
  BY DEF Capture
<1>2. CountersInv'
  BY CalibrationAssumption, <1>1 DEF CalibrationInv, CountersInv, CalibrationAssumption
<1>3. CASE step' = "failed"
  BY <1>2, <1>3 DEF CalibrationInv, FileInv, MemoryOfRowsInv, ResultInv, Collecting
<1>4. CASE sample' = sample + 1 /\ variant' = 1 /\ step' = "variants"
  <2>1. sample \in Nat
    BY DEF CalibrationInv, CountersInv
  <2>2. \A k \in RowKeys : Due(k)' <=> Due(k)
    BY <1>1, <1>4, <2>1 DEF Due, RowKeys
  <2>3. FileInv'
    BY <1>1, <1>4, <2>2 DEF CalibrationInv, FileInv, Collecting
  <2>4. MemoryOfRowsInv'
    BY <1>1, <1>4 DEF CalibrationInv, MemoryOfRowsInv, Collecting
  <2> QED BY <1>2, <1>4, <2>3, <2>4 DEF CalibrationInv, ResultInv
<1> QED BY <1>1, <1>3, <1>4

\* A sequence and one behind it.
LEMMA Appending ==
  ASSUME NEW S, NEW a \in Seq(S), NEW b \in Seq(S)
  PROVE  /\ a \o b \in Seq(S) /\ Len(a \o b) = Len(a) + Len(b)
         /\ \A i \in DOMAIN a : (a \o b)[i] = a[i]
         /\ \A i \in DOMAIN b : (a \o b)[Len(a) + i] = b[i]
         /\ \A i \in DOMAIN (a \o b) : i \in DOMAIN a \/ (i - Len(a) \in DOMAIN b /\ i = Len(a) + (i - Len(a)))
<1>1. Len(a) \in Nat /\ Len(b) \in Nat /\ DOMAIN a = 1..Len(a) /\ DOMAIN b = 1..Len(b)
  OBVIOUS
<1> QED BY <1>1

\* The rows of the variant that is next.
LEMMA KeysOfVariant ==
  ASSUME CalibrationInv, step = "variants"
  PROVE  /\ Keys \in Seq(RowKeys) /\ Len(Keys) = setup.layers /\ setup.layers \in Nat
         /\ DOMAIN Keys = 1..setup.layers
         /\ \A l \in 1..setup.layers : Keys[l] = <<launch, sample, variant, l>>
<1>1. setup.layers \in Nat /\ launch \in Nat /\ sample \in Nat /\ variant \in Nat
  BY CalibrationAssumption DEF CalibrationInv, CountersInv, CalibrationAssumption
<1>2. \A l \in 1..setup.layers : <<launch, sample, variant, l>> \in RowKeys
  BY <1>1 DEF RowKeys
<1> HIDE DEF RowKeys
<1> QED BY <1>1, <1>2 DEF Keys

\* measuring a variant, whose rows of all layers enter the file and the memory,
LEMMA CalibrationEvaluate ==
  ASSUME CalibrationInv, EvaluateVariant PROVE CalibrationInv'
<1> DEFINE new == Keys
           L == setup.layers
<1>1. /\ step = "variants" /\ samples' = samples \o new
      /\ UNCHANGED <<setup, sample, launch, resolved, metrics>>
      /\ \/ variant < setup.variants /\ variant' = variant + 1 /\ step' = step
         \/ ~(variant < setup.variants) /\ variant' = 0 /\ step' = "capture"
  BY DEF EvaluateVariant
<1> DEFINE outcomes == Outcomes
<1>2. \A o \in outcomes : o.sample = sample /\ o.variant = variant
  BY DEF Outcomes, Measures
<1>3. PICK more \in [1..L -> outcomes] : rows' = rows \o more
  BY DEF EvaluateVariant
<1> HIDE DEF outcomes
<1>4. /\ setup.variants \in Nat /\ L \in Nat /\ launch \in Nat /\ sample \in Nat /\ sample >= 1
      /\ variant \in 1..setup.variants
  BY CalibrationAssumption, <1>1 DEF CalibrationInv, CountersInv, CalibrationAssumption
<1>5. CountersInv'
  BY <1>1, <1>4 DEF CalibrationInv, CountersInv
<1>6. Collecting /\ Collecting' /\ step' # "ended"
  BY <1>1 DEF Collecting
<1>7. /\ new \in Seq(RowKeys) /\ Len(new) = L /\ DOMAIN new = 1..L
      /\ \A l \in 1..L : new[l] = <<launch, sample, variant, l>>
  BY <1>1, KeysOfVariant
<1> HIDE DEF new
<1>8. /\ samples \in Seq(RowKeys)
      /\ \A i, j \in DOMAIN samples : samples[i] = samples[j] => i = j
      /\ \A k \in RowKeys : (\E i \in DOMAIN samples : samples[i] = k) <=> Due(k)
  BY <1>6 DEF CalibrationInv, FileInv
<1>9. /\ samples' \in Seq(RowKeys) /\ Len(samples') = Len(samples) + L
      /\ \A i \in DOMAIN samples : samples'[i] = samples[i]
      /\ \A l \in 1..L : samples'[Len(samples) + l] = <<launch, sample, variant, l>>
      /\ \A i \in DOMAIN samples' : i \in DOMAIN samples \/ (i - Len(samples) \in 1..L /\ i = Len(samples) + (i - Len(samples)))
  <2> HIDE DEF RowKeys
  <2> QED BY <1>1, <1>7, <1>8, Appending
<1>10. Len(samples) \in Nat /\ DOMAIN samples = 1..Len(samples)
  BY <1>8
<1>11. \A k \in RowKeys : Due(k)' <=> Due(k) \/ \E l \in 1..L : k = <<launch, sample, variant, l>>
  <2> SUFFICES ASSUME NEW k \in RowKeys
               PROVE  Due(k)' <=> Due(k) \/ \E l \in 1..L : k = <<launch, sample, variant, l>>
    OBVIOUS
  <2>1. /\ k[1] \in Nat /\ k[2] \in Nat /\ k[3] \in Nat /\ k[4] \in Nat
        /\ k = <<k[1], k[2], k[3], k[4]>>
    BY DEF RowKeys
  <2>2. (\E l \in 1..L : k = <<launch, sample, variant, l>>)
          <=> k[1] = launch /\ k[2] = sample /\ k[3] = variant /\ k[4] \in 1..L
    BY <2>1
  <2>3. Due(k)' <=> /\ k[1] = launch /\ k[2] \in 1..sample /\ k[3] \in 1..setup.variants /\ k[4] \in 1..L
                    /\ step' = "variants" => k[2] < sample \/ k[3] < variant'
    BY <1>1 DEF Due
  <2>4. Due(k) <=> /\ k[1] = launch /\ k[2] \in 1..sample /\ k[3] \in 1..setup.variants /\ k[4] \in 1..L
                   /\ k[2] < sample \/ k[3] < variant
    BY <1>1 DEF Due
  <2> QED BY <1>1, <1>4, <2>1, <2>2, <2>3, <2>4
<1>12. \A i \in DOMAIN samples, l \in 1..L : samples[i] # <<launch, sample, variant, l>>
  <2> SUFFICES ASSUME NEW i \in DOMAIN samples, NEW l \in 1..L, samples[i] = <<launch, sample, variant, l>>
               PROVE  FALSE
    OBVIOUS
  <2>1. samples[i] \in RowKeys
    BY <1>8
  <2>2. Due(samples[i])
    BY <1>8, <2>1
  <2> QED BY <1>1, <1>4, <2>2 DEF Due
<1>13. FileInv'
  <2>1. \A i, j \in DOMAIN samples' : samples'[i] = samples'[j] => i = j
    <3> SUFFICES ASSUME NEW i \in DOMAIN samples', NEW j \in DOMAIN samples', samples'[i] = samples'[j]
                 PROVE  i = j
      OBVIOUS
    <3>1. CASE i \in DOMAIN samples /\ j \in DOMAIN samples
      BY <1>8, <1>9, <3>1
    <3>2. CASE i \in DOMAIN samples /\ j \notin DOMAIN samples
      BY <1>9, <1>12, <3>2
    <3>3. CASE i \notin DOMAIN samples /\ j \in DOMAIN samples
      BY <1>9, <1>12, <3>3
    <3>4. CASE i \notin DOMAIN samples /\ j \notin DOMAIN samples
      <4>1. PICK l \in 1..L : i = Len(samples) + l /\ samples'[i] = <<launch, sample, variant, l>>
        BY <1>9, <3>4
      <4>2. PICK m \in 1..L : j = Len(samples) + m /\ samples'[j] = <<launch, sample, variant, m>>
        BY <1>9, <3>4
      <4>3. l = m
        BY <4>1, <4>2
      <4> QED BY <4>1, <4>2, <4>3
    <3> QED BY <3>1, <3>2, <3>3, <3>4
  <2>2. \A k \in RowKeys : (\E i \in DOMAIN samples' : samples'[i] = k)
                             <=> Due(k) \/ \E l \in 1..L : k = <<launch, sample, variant, l>>
    <3> SUFFICES ASSUME NEW k \in RowKeys
                 PROVE  (\E i \in DOMAIN samples' : samples'[i] = k)
                             <=> (\E i \in DOMAIN samples : samples[i] = k) \/ \E l \in 1..L : k = <<launch, sample, variant, l>>
      BY <1>8
    <3>1. DOMAIN samples' = 1..(Len(samples) + L)
      BY <1>9
    <3>2. DOMAIN samples \subseteq DOMAIN samples' /\ \A l \in 1..L : Len(samples) + l \in DOMAIN samples'
      BY <1>4, <1>10, <3>1
    <3> QED BY <1>9, <3>2
  <2> QED BY <1>9, <1>11, <2>1, <2>2 DEF FileInv
<1>14. MemoryOfRowsInv'
  <2>1. /\ \E S : rows \in Seq(S)
        /\ Len(rows) = Len(samples)
        /\ \A i \in DOMAIN rows : rows[i].sample = samples[i][2] /\ rows[i].variant = samples[i][3]
    BY <1>6 DEF CalibrationInv, MemoryOfRowsInv
  <2>2. PICK S : rows \in Seq(S)
    BY <2>1
  <2>3. more \in Seq(outcomes) /\ Len(more) = L /\ DOMAIN more = 1..L
    BY <1>4
  <2>4. /\ rows' \in Seq(S \cup outcomes) /\ Len(rows') = Len(rows) + L
        /\ \A i \in DOMAIN rows : rows'[i] = rows[i]
        /\ \A l \in 1..L : rows'[Len(rows) + l] = more[l]
        /\ \A i \in DOMAIN rows' : i \in DOMAIN rows \/ (i - Len(rows) \in 1..L /\ i = Len(rows) + (i - Len(rows)))
    <3>1. rows \in Seq(S \cup outcomes) /\ more \in Seq(S \cup outcomes)
      BY <2>2, <2>3
    <3> QED BY <1>3, <2>3, <3>1, Appending
  <2>5. \A l \in 1..L : more[l].sample = sample /\ more[l].variant = variant
    BY <1>2
  <2>6. DOMAIN rows = DOMAIN samples
    BY <1>10, <2>1, <2>2
  <2>7. \A i \in DOMAIN rows' : rows'[i].sample = samples'[i][2] /\ rows'[i].variant = samples'[i][3]
    <3> SUFFICES ASSUME NEW i \in DOMAIN rows'
                 PROVE  rows'[i].sample = samples'[i][2] /\ rows'[i].variant = samples'[i][3]
      OBVIOUS
    <3>1. CASE i \in DOMAIN rows
      BY <1>9, <2>1, <2>4, <2>6, <3>1
    <3>2. CASE i \notin DOMAIN rows
      <4>1. PICK l \in 1..L : i = Len(rows) + l
        BY <2>4, <3>2
      <4>2. rows'[i] = more[l] /\ samples'[i] = <<launch, sample, variant, l>>
        BY <1>9, <2>1, <2>4, <4>1
      <4> QED BY <2>5, <4>2
    <3> QED BY <3>1, <3>2
  <2>8. Len(rows') = Len(samples')
    BY <1>9, <2>1, <2>4
  <2> QED BY <2>4, <2>7, <2>8 DEF MemoryOfRowsInv
<1> QED BY <1>5, <1>6, <1>13, <1>14 DEF CalibrationInv, ResultInv

\* writing the metrics and the choice,
LEMMA CalibrationPublish ==
  ASSUME CalibrationInv, Publish PROVE CalibrationInv'
<1>1. /\ step = "capture" /\ sample = setup.samples /\ step' = "ended"
      /\ UNCHANGED <<setup, sample, variant, rows, launch, resolved, samples>>
      /\ metrics'.launch = launch
      /\ metrics'.measured = [i \in DOMAIN rows |-> <<rows[i].sample, rows[i].variant>>]
  BY DEF Publish
<1>2. \A k \in RowKeys : Due(k)' <=> Due(k)
  BY <1>1 DEF Due
<1>3. CountersInv'
  BY <1>1 DEF CalibrationInv, CountersInv
<1>4. FileInv' /\ MemoryOfRowsInv'
  BY <1>1, <1>2 DEF CalibrationInv, FileInv, MemoryOfRowsInv, Collecting
<1>5. ResultInv'
  BY <1>1 DEF ResultInv
<1> QED BY <1>3, <1>4, <1>5 DEF CalibrationInv

\* and being killed.
LEMMA CalibrationKilled ==
  ASSUME CalibrationInv, Killed PROVE CalibrationInv'
<1>1. step' = "failed" /\ UNCHANGED <<setup, sample, variant, launch, resolved>>
  BY DEF Killed
<1> QED BY <1>1 DEF CalibrationInv, CountersInv, FileInv, MemoryOfRowsInv, ResultInv, Collecting

\* The invariant of a calibration, whatever launches went before it in its directory.
THEOREM CalibrationHolds ==
  CalibrationSpec => []CalibrationInv
<1>1. CalibrationInit => CalibrationInv
  BY CalibrationStarts
<1>2. CalibrationInv /\ [CalibrationNext]_calibrationVars => CalibrationInv'
  <2>1. CASE CalibrationNext
    BY <2>1, CalibrationLaunch, CalibrationOpen, CalibrationCapture, CalibrationEvaluate,
       CalibrationPublish, CalibrationKilled DEF CalibrationNext
  <2>2. CASE UNCHANGED calibrationVars
    BY <2>2 DEF calibrationVars, CalibrationInv, CountersInv, FileInv, MemoryOfRowsInv, ResultInv,
       Collecting, Due
  <2> QED BY <2>1, <2>2
<1> QED BY <1>1, <1>2, PTL DEF CalibrationSpec

\* A finished launch leaves one run: its own configuration, and of every sample,
\* variant and layer one row, the same in the file and behind the result.
THEOREM EndedLeavesOneRun ==
  CalibrationSpec => []EndedIsOneRun
<1>1. CalibrationInv => EndedIsOneRun
  <2> SUFFICES ASSUME CalibrationInv, step = "ended" PROVE
        /\ metrics.launch = launch /\ resolved = [launch |-> launch, setup |-> setup]
        /\ metrics.measured = [i \in DOMAIN samples |-> <<samples[i][2], samples[i][3]>>]
        /\ IsInjective(samples)
        /\ Range(samples) = {<<launch, s, v, l>> :
                               s \in 1..setup.samples, v \in 1..setup.variants, l \in 1..setup.layers}
    BY DEF EndedIsOneRun, Ended, Variants
  <2>1. /\ metrics.launch = launch /\ resolved = [launch |-> launch, setup |-> setup]
        /\ sample = setup.samples
        /\ metrics.measured = [i \in DOMAIN rows |-> <<rows[i].sample, rows[i].variant>>]
    BY DEF CalibrationInv, CountersInv, ResultInv
  <2>2. /\ samples \in Seq(RowKeys)
        /\ \A i, j \in DOMAIN samples : samples[i] = samples[j] => i = j
        /\ \A k \in RowKeys : (\E i \in DOMAIN samples : samples[i] = k) <=> Due(k)
    BY DEF CalibrationInv, FileInv, Collecting
  <2>3. /\ DOMAIN rows = DOMAIN samples
        /\ \A i \in DOMAIN rows : rows[i].sample = samples[i][2] /\ rows[i].variant = samples[i][3]
    <3>1. (\E S : rows \in Seq(S)) /\ Len(rows) = Len(samples)
      BY DEF CalibrationInv, MemoryOfRowsInv, Collecting
    <3>2. DOMAIN rows = DOMAIN samples
      BY <2>2, <3>1
    <3> QED BY <3>2 DEF CalibrationInv, MemoryOfRowsInv, Collecting
  <2>4. metrics.measured = [i \in DOMAIN samples |-> <<samples[i][2], samples[i][3]>>]
    BY <2>1, <2>3
  <2>5. IsInjective(samples)
    BY <2>2 DEF IsInjective
  <2>6. \A k : k \in Range(samples) <=>
               \E s \in 1..setup.samples, v \in 1..setup.variants, l \in 1..setup.layers : k = <<launch, s, v, l>>
    <3> TAKE k
    <3>1. setup.samples \in Nat /\ setup.variants \in Nat /\ setup.layers \in Nat /\ launch \in Nat
      BY CalibrationAssumption DEF CalibrationInv, CountersInv, CalibrationAssumption
    <3>2. k \in Range(samples) <=> \E i \in DOMAIN samples : samples[i] = k
      BY DEF Range
    <3>3. k \in Range(samples) => k \in RowKeys
      BY <2>2, <3>2
    <3>4. (\E s \in 1..setup.samples, v \in 1..setup.variants, l \in 1..setup.layers : k = <<launch, s, v, l>>)
            => k \in RowKeys
      BY <3>1 DEF RowKeys
    <3>5. ASSUME k \in RowKeys
          PROVE  Due(k) <=> \E s \in 1..setup.samples, v \in 1..setup.variants, l \in 1..setup.layers :
                              k = <<launch, s, v, l>>
      <4>1. k = <<k[1], k[2], k[3], k[4]>>
        BY <3>5 DEF RowKeys
      <4>2. Due(k) <=> k[1] = launch /\ k[2] \in 1..setup.samples /\ k[3] \in 1..setup.variants /\ k[4] \in 1..setup.layers
        BY <2>1 DEF Due
      <4> QED BY <4>1, <4>2
    <3> QED BY <2>2, <3>2, <3>3, <3>4, <3>5
  <2>7. Range(samples) = {<<launch, s, v, l>> :
                               s \in 1..setup.samples, v \in 1..setup.variants, l \in 1..setup.layers}
    BY <2>6
  <2> QED BY <2>1, <2>4, <2>5, <2>7
<1> QED BY <1>1, CalibrationHolds, PTL
==============================================================================
