---------------------------- MODULE ClusterMemory ----------------------------
(***************************************************************************)
(* One layer's cluster memory: GpuLocalClusterMemory on top of the         *)
(* CpuLocalityIndex.  Records live in a growable table of record indices,  *)
(* clusters in a growable table of slots; both tables recycle their        *)
(* entries through free lists.  Ingestion is a transaction over one write  *)
(* chunk: every row is scored against the state before the chunk, the rows *)
(* that open a cluster then allocate their slots one after the other, and  *)
(* all the rows are committed together.                                    *)
(*                                                                         *)
(* Data is abstracted to what the control depends on.  A direction is its  *)
(* locality code, the vMF posterior is a free choice among the candidate   *)
(* slots and the new-cluster hypothesis, and a usage rate is a natural     *)
(* number on the scale of the eviction threshold.  The caller feeds        *)
(* logical positions in increasing order, so the serial number of a record *)
(* also stands for its position.  record_active[i] is recordSlot[i] /=     *)
(* NoSlot: the code always assigns the two together.                       *)
(***************************************************************************)
EXTENDS CpuLocality

CONSTANTS
  WriteChunk,          \* config.write_chunk_size
  InitialSlots,        \* config.slot_capacity
  InitialRecords,      \* max(config.initial_record_capacity, write_chunk_size)
  UsageRates,          \* the usage rates a reader may report
  EmaWeight, EmaScale, \* config.usage_ema_rate = EmaWeight / EmaScale
  Threshold,           \* config.eviction_usage_threshold
  MinRecalls,          \* config.eviction_min_recall_count
  MinRecords,          \* config.eviction_min_records_per_cluster
  MaxSerial,           \* bound: records ever ingested
  MaxRecalls           \* bound: observations of one record

ASSUME ConfigAssumption ==
  /\ WriteChunk \in Nat \ {0}
  /\ InitialSlots \in Nat \ {0}
  /\ InitialRecords \in Nat \ {0}
  /\ UsageRates \subseteq Nat
  /\ EmaScale \in Nat \ {0}
  /\ EmaWeight \in 1..EmaScale
  /\ Threshold \in Nat
  /\ MinRecalls \in Nat \ {0}
  /\ MinRecords \in Nat
  /\ MaxSerial \in Nat
  /\ MaxRecalls \in Nat

VARIABLES
  slotCapacity,     \* slot_capacity
  slotId,           \* _slot_ids: the generation in the id, or NoId
  slotGeneration,   \* _slot_generations
  slotRecords,      \* _slot_records
  slotCount,        \* slot_counts
  slotActive,       \* slot_active
  freeSlots,        \* _free_slots, a stack whose top is the last element
  recordCapacity,   \* record_capacity
  recordSlot,       \* record_slots, NoSlot where record_active is false
  recordId,         \* _record_ids: the serial in the id, or NoId
  recordUsage,      \* record_usage_ema
  recordRecalls,    \* record_recall_counts
  recordIndex,      \* _record_id_to_index
  freeRecords,      \* _free_records, a stack
  nextUnused,       \* _next_unused_record_index
  nextSerial,       \* _next_record_serial
  chunk             \* the rows of the chunk being ingested, <<>> when idle

slotVars == <<slotCapacity, slotId, slotGeneration, slotRecords, slotCount,
              slotActive, freeSlots, slotCode, recency>>
recordVars == <<recordCapacity, recordSlot, recordId, recordUsage,
                recordRecalls, recordIndex, freeRecords, nextUnused,
                nextSerial>>
memoryVars == <<slotVars, recordVars, chunk>>

NoSlot == -1
NoId   == 0

Slots   == 0 .. (slotCapacity - 1)
Records == 0 .. (recordCapacity - 1)
Live    == {s \in Slots : slotId[s] # NoId}
Idle    == chunk = <<>>

\* Mutant: the id leaves the generation out.
ClusterIdOfSlot(s) == <<s, 1>>

\* The string "slot-<slot>-g<generation>" a reader is handed for a live slot.
ClusterId(s) == <<s, slotId[s]>>

Least(a, b) == IF a <= b THEN a ELSE b
Greatest(a, b) == IF a >= b THEN a ELSE b

------------------------------------------------------------------------------
(* Ingestion of one write chunk.                                           *)

\* _reserve_record_indices: recycled indices first, from the top of the stack,
\* then indices never used before.
Recycled(n) == Least(n, Len(freeRecords))

ReservedIndex(n, i) ==
  IF i <= Recycled(n)
    THEN freeRecords[Len(freeRecords) - i + 1]
    ELSE nextUnused + (i - Recycled(n) - 1)

GrownCapacity(required, old) ==
  IF required <= old THEN old ELSE Greatest(required, 2 * old)

Extend(f, capacity, default) ==
  [i \in 0..(capacity - 1) |-> IF i \in DOMAIN f THEN f[i] ELSE default]

UnusedAfter(n) == nextUnused + (n - Recycled(n))

\* Mutant: the record table does not grow.
RecordCapacityFixed(n) == recordCapacity

RecordCapacityFor(n) ==
  IF n = Recycled(n) THEN recordCapacity ELSE GrownCapacity(UnusedAfter(n), recordCapacity)

\* The decisions the posterior may take for a row of code c: an existing
\* candidate, or a new cluster; without a candidate a new cluster is forced.
Decisions(c) == {NoSlot} \cup Candidates(c)

\* The first half of a chunk of n rows: record indices are reserved and every
\* row is decided against the same, unchanged, clusters.
BeginChunk(n, code, choice) ==
  /\ Idle
  /\ nextSerial + n <= MaxSerial
  /\ \A i \in 1..n : choice[i] \in Decisions(code[i])
  /\ chunk' = [i \in 1..n |-> [index |-> ReservedIndex(n, i), code |-> code[i],
                              chosen |-> choice[i], slot |-> choice[i]]]
  /\ freeRecords' = SubSeq(freeRecords, 1, Len(freeRecords) - Recycled(n))
  /\ nextUnused' = UnusedAfter(n)
  /\ recordCapacity' = RecordCapacityFor(n)
  /\ recordSlot' = Extend(recordSlot, RecordCapacityFor(n), NoSlot)
  /\ recordId' = Extend(recordId, RecordCapacityFor(n), NoId)
  /\ recordUsage' = Extend(recordUsage, RecordCapacityFor(n), 0)
  /\ recordRecalls' = Extend(recordRecalls, RecordCapacityFor(n), 0)
  /\ UNCHANGED <<slotVars, recordIndex, nextSerial>>

Unallocated(i) == chunk[i].slot = NoSlot

\* _ensure_slot_capacity(slot_capacity + 1) when the stack is empty: the table
\* doubles and the new slots are stacked so that the lowest comes out first.
SlotsAfterGrowth == IF freeSlots = <<>> THEN 2 * slotCapacity ELSE slotCapacity

\* Mutant: the range of new slots starts one too low.
FreeAfterGrowthLow ==
  IF freeSlots = <<>>
    THEN [i \in 1..slotCapacity |-> 2 * slotCapacity - i - 1]
    ELSE freeSlots

FreeAfterGrowth ==
  IF freeSlots = <<>>
    THEN [i \in 1..slotCapacity |-> 2 * slotCapacity - i]
    ELSE freeSlots

NextFreeSlot == FreeAfterGrowth[Len(FreeAfterGrowth)]

Grown(f, default) == Extend(f, SlotsAfterGrowth, default)

\* _allocate_slot for row i, the first that still has to open its cluster.
AllocateSlot(i) ==
  /\ Unallocated(i)
  /\ \A j \in 1..(i - 1) : ~Unallocated(j)
  /\ slotCapacity' = SlotsAfterGrowth
  /\ freeSlots' = SubSeq(FreeAfterGrowth, 1, Len(FreeAfterGrowth) - 1)
  /\ slotGeneration' = [Grown(slotGeneration, 0) EXCEPT ![NextFreeSlot] = @ + 1]
  /\ slotId' = [Grown(slotId, NoId) EXCEPT
                  ![NextFreeSlot] = Grown(slotGeneration, 0)[NextFreeSlot] + 1]
  /\ slotRecords' = [Grown(slotRecords, {}) EXCEPT ![NextFreeSlot] = {}]
  /\ slotCount' = [Grown(slotCount, 0) EXCEPT ![NextFreeSlot] = 0]
  /\ slotActive' = [Grown(slotActive, FALSE) EXCEPT ![NextFreeSlot] = TRUE]
  /\ slotCode' = [Grown(slotCode, NoCode) EXCEPT ![NextFreeSlot] = chunk[i].code]
  /\ recency' = LocalityUpdate({NextFreeSlot}, [s \in {NextFreeSlot} |-> chunk[i].code])
  /\ chunk' = [chunk EXCEPT ![i].slot = NextFreeSlot]
  /\ UNCHANGED recordVars

RowsOf(s) == {i \in DOMAIN chunk : chunk[i].slot = s}
Touched   == {chunk[i].slot : i \in DOMAIN chunk}

RowAt(r)  == CHOOSE i \in DOMAIN chunk : chunk[i].index = r
Reserved  == {chunk[i].index : i \in DOMAIN chunk}

\* The commit of the whole chunk, with the recomputed locality code of every
\* touched slot.
CommitChunk(newCode) ==
  /\ ~Idle
  /\ \A i \in DOMAIN chunk : ~Unallocated(i)
  /\ slotCode' = [s \in Slots |-> IF s \in Touched THEN newCode[s] ELSE slotCode[s]]
  /\ recency' = LocalityUpdate(Touched, newCode)
  /\ slotRecords' = [s \in Slots |->
                       slotRecords[s] \cup {chunk[i].index : i \in RowsOf(s)}]
  /\ slotCount' = [s \in Slots |-> slotCount[s] + Cardinality(RowsOf(s))]
  /\ slotActive' = [s \in Slots |-> IF s \in Touched
                                      THEN slotCount[s] + Cardinality(RowsOf(s)) > 0
                                      ELSE slotActive[s]]
  /\ recordSlot' = [r \in Records |-> IF r \in Reserved THEN chunk[RowAt(r)].slot
                                                        ELSE recordSlot[r]]
  /\ recordId' = [r \in Records |-> IF r \in Reserved THEN nextSerial + RowAt(r)
                                                      ELSE recordId[r]]
  /\ recordIndex' = [d \in DOMAIN recordIndex \cup (nextSerial + 1)..(nextSerial + Len(chunk))
                       |-> IF d > nextSerial THEN chunk[d - nextSerial].index
                                             ELSE recordIndex[d]]
  /\ nextSerial' = nextSerial + Len(chunk)
  /\ chunk' = <<>>
  /\ UNCHANGED <<slotCapacity, slotId, slotGeneration, freeSlots, recordCapacity,
                 recordUsage, recordRecalls, freeRecords, nextUnused>>

------------------------------------------------------------------------------
(* Observed usage and eviction.                                            *)

\* Mutant: records never observed before need not be covered.
CoveredIfObserved(ids) ==
  \A s \in {recordSlot[recordIndex[d]] : d \in ids} : \A r \in slotRecords[s] :
    recordRecalls[r] = 0 \/ \E d \in ids : recordIndex[d] = r

Known(ids) == ids \subseteq DOMAIN recordIndex

IndicesOf(ids) == {recordIndex[d] : d \in ids}
SlotsOf(ids)   == {recordSlot[recordIndex[d]] : d \in ids}

\* _prepare_recall_usage accepts the call: every id is active, and every
\* recalled cluster is covered by the supplied records.
Covered(ids) ==
  \A s \in SlotsOf(ids) : slotRecords[s] \subseteq IndicesOf(ids)

Accepts(ids) == Known(ids) /\ Covered(ids)

UpdatedUsage(r, rate) ==
  IF recordRecalls[r] = 0
    THEN rate
    ELSE (recordUsage[r] * (EmaScale - EmaWeight) + rate * EmaWeight) \div EmaScale

\* Members of slot s that the usage policy may evict, and the order in which
\* it takes them: lowest usage first, then lowest position.
Eligible(s, usage) ==
  {r \in slotRecords[s] : /\ recordRecalls[r] + 1 >= MinRecalls
                          /\ UpdatedUsage(r, usage[recordId[r]]) < Threshold}

EvictedBefore(q, r, usage) ==
  LET uq == UpdatedUsage(q, usage[recordId[q]])
      ur == UpdatedUsage(r, usage[recordId[r]])
  IN uq < ur \/ (uq = ur /\ recordId[q] < recordId[r])

\* plan_recall_eviction: E takes from every recalled slot the first eligible
\* members, as many as the floor of MinRecords leaves.
EvictionPlan(E, ids, usage) ==
  /\ E \subseteq UNION {Eligible(s, usage) : s \in SlotsOf(ids)}
  /\ \A s \in SlotsOf(ids) :
       LET eligible == Eligible(s, usage)
           maximum == Greatest(0, Cardinality(slotRecords[s]) - MinRecords)
           taken == E \cap slotRecords[s]
       IN /\ Cardinality(taken) = Least(maximum, Cardinality(eligible))
          /\ \A q \in taken, r \in eligible \ taken : EvictedBefore(q, r, usage)

\* The sequences that list every element of S once.
Listings(S) ==
  {q \in [1..Cardinality(S) -> S] :
     /\ \A x \in S : \E i \in DOMAIN q : q[i] = x
     /\ \A i, j \in DOMAIN q : q[i] = q[j] => i = j}

\* Evicted indices reach the free stack in the order of their positions.
ByPosition(E) ==
  {q \in Listings(E) : \A i, j \in DOMAIN q : i < j => recordId[q[i]] < recordId[q[j]]}

\* Slots left without records after E is gone.
Emptied(E) == {s \in Slots : slotRecords[s] # {} /\ slotRecords[s] \subseteq E}

\* _evict_record_indices with _refresh_slots and _deactivate_empty_slots, which
\* frees the emptied slots in the unspecified order of a Python set.
EvictRecords(E) ==
  LET hit == {s \in Slots : slotRecords[s] \cap E # {}}
      left == [s \in Slots |-> slotCount[s] - Cardinality(slotRecords[s] \cap E)]
  IN
  /\ slotRecords' = [s \in Slots |-> slotRecords[s] \ E]
  /\ slotCount' = left
  /\ slotActive' = [s \in Slots |-> IF s \in hit THEN left[s] > 0 ELSE slotActive[s]]
  /\ slotId' = [s \in Slots |-> IF s \in Emptied(E) THEN NoId ELSE slotId[s]]
  /\ slotCode' = [s \in Slots |-> IF s \in Emptied(E) THEN NoCode ELSE slotCode[s]]
  /\ recency' = LocalityRemove(Emptied(E))
  /\ \E order \in Listings(Emptied(E)) : freeSlots' = freeSlots \o order
  /\ recordSlot' = [r \in Records |-> IF r \in E THEN NoSlot ELSE recordSlot[r]]
  /\ recordId' = [r \in Records |-> IF r \in E THEN NoId ELSE recordId[r]]
  /\ recordIndex' = [d \in DOMAIN recordIndex \ {recordId[r] : r \in E} |-> recordIndex[d]]
  /\ \E order \in ByPosition(E) : freeRecords' = freeRecords \o order

\* observe_recall_usage of a call that is accepted; E is what it evicts.
ObserveRecallUsage(ids, usage, evicting, E) ==
  /\ Idle
  /\ ids # {}
  /\ Accepts(ids)
  /\ \A r \in IndicesOf(ids) : recordRecalls[r] < MaxRecalls
  /\ IF evicting THEN EvictionPlan(E, ids, usage) ELSE E = {}
  /\ EvictRecords(E)
  /\ recordUsage' = [r \in Records |->
       IF r \in E THEN 0
       ELSE IF r \in IndicesOf(ids) THEN UpdatedUsage(r, usage[recordId[r]])
       ELSE recordUsage[r]]
  /\ recordRecalls' = [r \in Records |->
       IF r \in E THEN 0
       ELSE IF r \in IndicesOf(ids) THEN recordRecalls[r] + 1
       ELSE recordRecalls[r]]
  /\ UNCHANGED <<slotCapacity, slotGeneration, recordCapacity, nextUnused,
                 nextSerial, chunk>>

------------------------------------------------------------------------------
MemoryInit ==
  /\ slotCapacity = InitialSlots
  /\ slotId = [s \in 0..(InitialSlots - 1) |-> NoId]
  /\ slotGeneration = [s \in 0..(InitialSlots - 1) |-> 0]
  /\ slotRecords = [s \in 0..(InitialSlots - 1) |-> {}]
  /\ slotCount = [s \in 0..(InitialSlots - 1) |-> 0]
  /\ slotActive = [s \in 0..(InitialSlots - 1) |-> FALSE]
  /\ freeSlots = [i \in 1..InitialSlots |-> InitialSlots - i]
  /\ slotCode = [s \in 0..(InitialSlots - 1) |-> NoCode]
  /\ recency = {}
  /\ recordCapacity = InitialRecords
  /\ recordSlot = [r \in 0..(InitialRecords - 1) |-> NoSlot]
  /\ recordId = [r \in 0..(InitialRecords - 1) |-> NoId]
  /\ recordUsage = [r \in 0..(InitialRecords - 1) |-> 0]
  /\ recordRecalls = [r \in 0..(InitialRecords - 1) |-> 0]
  /\ recordIndex = [d \in {} |-> 0]
  /\ freeRecords = <<>>
  /\ nextUnused = 0
  /\ nextSerial = 0
  /\ chunk = <<>>

\* ingest_block of the next write chunk, half by half.
BeginSome ==
  \E n \in 1..WriteChunk :
  \E code \in [1..n -> Codes], choice \in [1..n -> Slots \cup {NoSlot}] :
    BeginChunk(n, code, choice)

AllocateSome == \E i \in DOMAIN chunk : AllocateSlot(i)

CommitSome == \E newCode \in [Touched -> Codes] : CommitChunk(newCode)

------------------------------------------------------------------------------
RowType == [index : Records, code : Codes,
            chosen : Slots \cup {NoSlot}, slot : Slots \cup {NoSlot}]

\* The types of the memory's variables.
MemoryTypeOK ==
  /\ slotCapacity \in Nat \ {0}
  /\ slotId \in [Slots -> Nat]
  /\ slotGeneration \in [Slots -> Nat]
  /\ slotRecords \in [Slots -> SUBSET Records]
  /\ slotCount \in [Slots -> Int]
  /\ slotActive \in [Slots -> BOOLEAN]
  /\ freeSlots \in Seq(Slots)
  /\ slotCode \in [Slots -> Codes \cup {NoCode}]
  /\ recency \subseteq Slots \X Slots
  /\ recordCapacity \in Nat
  /\ recordSlot \in [Records -> Slots \cup {NoSlot}]
  /\ recordId \in [Records -> Nat]
  /\ recordUsage \in [Records -> Nat]
  /\ recordRecalls \in [Records -> Nat]
  /\ DOMAIN recordIndex \subseteq 1..nextSerial
  /\ recordIndex \in [DOMAIN recordIndex -> Records]
  /\ freeRecords \in Seq(Records)
  /\ nextUnused \in 0..recordCapacity
  /\ nextSerial \in Nat
  /\ chunk \in Seq(RowType)

\* No slot is lost and none is handed out twice: every slot is either live,
\* with a cluster id, or on the free stack, exactly once.
SlotsPartitioned ==
  /\ \A i, j \in DOMAIN freeSlots : freeSlots[i] = freeSlots[j] => i = j
  /\ \A s \in Slots : slotId[s] = NoId <=> \E i \in DOMAIN freeSlots : freeSlots[i] = s

\* The slots a row of the chunk in progress was assigned stay live until the
\* commit, and a row that opens a cluster never takes the slot of another row:
\* the promise ingest_block's comment on protected_slots makes.
ChunkSlotsProtected ==
  /\ \A i \in DOMAIN chunk : chunk[i].slot # NoSlot => slotId[chunk[i].slot] # NoId
  /\ \A i, j \in DOMAIN chunk :
       (chunk[i].chosen = NoSlot /\ chunk[i].slot # NoSlot /\ chunk[i].slot = chunk[j].slot)
         => i = j

\* No record index is lost, none has two holders: an index below the high-water
\* mark is active, on the free stack or reserved for one row of the chunk.
RecordsPartitioned ==
  /\ \A i, j \in DOMAIN freeRecords : freeRecords[i] = freeRecords[j] => i = j
  /\ \A i, j \in DOMAIN chunk : chunk[i].index = chunk[j].index => i = j
  /\ \A r \in Records :
       LET free == \E i \in DOMAIN freeRecords : freeRecords[i] = r
           active == recordSlot[r] # NoSlot
           reserved == r \in Reserved
       IN IF r < nextUnused
            THEN /\ free \/ active \/ reserved
                 /\ ~(free /\ active) /\ ~(free /\ reserved) /\ ~(active /\ reserved)
            ELSE ~free /\ ~active /\ ~reserved

\* The three views of cluster membership agree: _slot_records, record_slots and
\* the external id tables.
MembershipConsistent ==
  /\ \A r \in Records, s \in Slots : r \in slotRecords[s] <=> recordSlot[r] = s
  /\ \A r \in Records : recordSlot[r] # NoSlot =>
       /\ slotId[recordSlot[r]] # NoId
       /\ recordId[r] \in DOMAIN recordIndex
       /\ recordIndex[recordId[r]] = r
  /\ \A d \in DOMAIN recordIndex :
       recordId[recordIndex[d]] = d /\ recordSlot[recordIndex[d]] # NoSlot

\* Slots, record indices and the views of who is where never disagree, whatever
\* was ingested, grown, evicted and recycled before.
TablesConsistent ==
  SlotsPartitioned /\ ChunkSlotsProtected /\ RecordsPartitioned /\ MembershipConsistent

\* The device-side counts and activity flags that routing and the posterior
\* read agree with the host-side sets that eviction reads, and between two
\* calls every live slot holds a record.
CountsAgree ==
  /\ \A s \in Slots : slotCount[s] = Cardinality(slotRecords[s])
  /\ \A s \in Slots : slotActive[s] <=> slotId[s] # NoId
  /\ Idle => \A s \in Live : slotRecords[s] # {}

IndexedIffLive == \A s \in Slots : slotCode[s] # NoCode <=> slotId[s] # NoId

\* The locality index lists exactly the live slots and orders each bucket: a
\* lookup returns only clusters that exist, and the bound on candidates cuts
\* the least recently updated ones.
LocalityListsLiveSlots == IndexedIffLive /\ BucketsOrdered

\* What a lookup, the posterior and the router read agrees with the tables: no
\* cluster is scored after it is gone, none that exists is missed.
RoutingConsistent == CountsAgree /\ LocalityListsLiveSlots

\* Usage is observed for whole clusters only: of two records of a cluster the
\* older was observed at least as often as the younger, so no partial recall
\* was taken for a lack of use and no record inherits the statistics of an
\* earlier holder of its index.
ClusterMatesObservedTogether ==
  \A s \in Slots : \A q, r \in slotRecords[s] :
    recordId[q] < recordId[r] => recordRecalls[q] >= recordRecalls[r]
==============================================================================
