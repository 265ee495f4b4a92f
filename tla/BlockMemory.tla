----------------------------- MODULE BlockMemory -----------------------------
(***************************************************************************)
(* GpuBlockClusterMemory: one layer's cluster memory whose records are     *)
(* complete blocks.  A block is classified on its own and committed at     *)
(* once; it carries the caller's block id, which may be stored only once   *)
(* at a time but may come back after its record was evicted.  A reader     *)
(* holds the record and block ids of the summaries it was handed while     *)
(* blocks are ingested and evicted.                                        *)
(*                                                                         *)
(* A block id is the number of its block in the stream, so it also stands  *)
(* for record_start_positions; directions, posterior and usage rates are   *)
(* abstracted as in ClusterMemory, and record_active[i] is recordSlot[i]   *)
(* /= NoSlot.                                                              *)
(***************************************************************************)
EXTENDS CpuLocality

CONSTANTS
  Blocks,              \* the block ids
  InitialSlots,        \* config.slot_capacity
  InitialRecords,      \* config.initial_record_capacity
  UsageRates,          \* the usage rates a reader may report
  EmaWeight, EmaScale, \* config.usage_ema_rate = EmaWeight / EmaScale
  Threshold,           \* config.eviction_usage_threshold
  MinRecalls,          \* config.eviction_min_recall_count
  MinRecords,          \* config.eviction_min_records_per_cluster
  MaxSerial,           \* bound: blocks ever ingested
  MaxRecalls           \* bound: observations of one record

ASSUME BlockConfigAssumption ==
  /\ Blocks \subseteq Nat
  /\ InitialSlots \in Nat \ {0}
  /\ InitialRecords \in Nat \ {0}
  /\ UsageRates \subseteq Nat
  /\ EmaScale \in Nat \ {0}
  /\ EmaWeight \in 1..EmaScale
  /\ Threshold \in Nat
  /\ MinRecalls \in Nat \ {0}
  /\ MinRecords \in Nat
  /\ MaxSerial \in Nat
  /\ MaxRecalls \in Nat

VARIABLES
  slotCapacity,     \* slot_capacity
  slotId,           \* _slot_ids: the generation in the id, or NoId
  slotGeneration,   \* _slot_generations
  slotRecords,      \* _slot_records
  slotCount,        \* slot_counts
  slotActive,       \* slot_active
  freeSlots,        \* _free_slots, a stack whose top is the last element
  recordCapacity,   \* record_capacity
  recordSlot,       \* record_slots, NoSlot where record_active is false
  recordId,         \* _record_ids: the serial in the id, or NoId
  recordBlock,      \* _record_block_ids, NoBlock for None
  recordUsage,      \* record_usage_ema
  recordRecalls,    \* record_recall_counts
  recordIndex,      \* _record_id_to_index
  blockIndex,       \* _block_id_to_index
  freeRecords,      \* _free_records, a stack
  nextUnused,       \* _next_unused_record_index
  nextSerial,       \* _next_record_serial
  held              \* the reader's: record id -> block id of the last summaries

slotVars == <<slotCapacity, slotId, slotGeneration, slotRecords, slotCount,
              slotActive, freeSlots, slotCode, recency>>
recordVars == <<recordCapacity, recordSlot, recordId, recordBlock, recordUsage,
                recordRecalls, recordIndex, blockIndex, freeRecords, nextUnused,
                nextSerial>>
vars == <<slotVars, recordVars, held>>

NoSlot  == -1
NoBlock == -1
NoId    == 0

Slots   == 0 .. (slotCapacity - 1)
Records == 0 .. (recordCapacity - 1)
Live    == {s \in Slots : slotId[s] # NoId}

\* Mutant: the id leaves the generation out.
ClusterIdOfSlot(s) == <<s, 1>>

\* The string "block-slot-<slot>-g<generation>" of a live slot.
ClusterId(s) == <<s, slotId[s]>>

Least(a, b) == IF a <= b THEN a ELSE b
Greatest(a, b) == IF a >= b THEN a ELSE b

Extend(f, capacity, default) ==
  [i \in 0..(capacity - 1) |-> IF i \in DOMAIN f THEN f[i] ELSE default]

------------------------------------------------------------------------------
(* Ingestion of one block.                                                 *)

\* _allocate_slot takes the top of the stack; an empty stack doubles the table.
SlotsAfter(opens) ==
  IF opens /\ freeSlots = <<>> THEN 2 * slotCapacity ELSE slotCapacity

FreeAfter(opens) ==
  IF opens /\ freeSlots = <<>>
    THEN [i \in 1..slotCapacity |-> 2 * slotCapacity - i]
    ELSE freeSlots

NextFreeSlot == FreeAfter(TRUE)[Len(FreeAfter(TRUE))]

\* _reserve_record_index: the top of the free list, or a never used index.
NextRecord == IF freeRecords # <<>> THEN freeRecords[Len(freeRecords)] ELSE nextUnused

RecordsAfter ==
  IF freeRecords = <<>> /\ nextUnused >= recordCapacity
    THEN Greatest(nextUnused + 1, 2 * recordCapacity)
    ELSE recordCapacity

\* Mutant: ids are numbered by the records that are active.
NextIdOfCount == Cardinality(DOMAIN recordIndex) + 1

\* The serial in the id of the next record.
NextId == nextSerial + 1

\* Mutant: the check for an active block id is left out.
AcceptsAny(b) == TRUE

\* ingest_block refuses a block id that is already active.
AcceptsBlock(b) == b \notin DOMAIN blockIndex

\* ingest_block of block b of locality code c: the posterior decides for one of
\* the candidates or for a new cluster, and newCode is the recomputed code of
\* the cluster it joins.
IngestBlock(b, c, decision, newCode) ==
  LET opens == decision = NoSlot
      slot == IF opens THEN NextFreeSlot ELSE decision
      generation == Extend(slotGeneration, SlotsAfter(opens), 0)[slot] + 1
      r == NextRecord
      Grown(f, default) == Extend(f, SlotsAfter(opens), default)
      GrownRecords(f, default) == Extend(f, RecordsAfter, default)
  IN
  /\ AcceptsBlock(b)
  /\ nextSerial < MaxSerial
  /\ decision \in {NoSlot} \cup Candidates(c)
  /\ slotCapacity' = SlotsAfter(opens)
  /\ freeSlots' = IF opens THEN SubSeq(FreeAfter(TRUE), 1, Len(FreeAfter(TRUE)) - 1)
                           ELSE freeSlots
  /\ slotGeneration' = IF opens THEN [Grown(slotGeneration, 0) EXCEPT ![slot] = generation]
                                ELSE slotGeneration
  /\ slotId' = IF opens THEN [Grown(slotId, NoId) EXCEPT ![slot] = generation] ELSE slotId
  /\ slotRecords' = [Grown(slotRecords, {}) EXCEPT ![slot] = IF opens THEN {r} ELSE @ \cup {r}]
  /\ slotCount' = [Grown(slotCount, 0) EXCEPT ![slot] = IF opens THEN 1 ELSE @ + 1]
  /\ slotActive' = [Grown(slotActive, FALSE) EXCEPT ![slot] = slotCount'[slot] > 0]
  /\ slotCode' = [Grown(slotCode, NoCode) EXCEPT ![slot] = newCode]
  /\ recency' = LocalityUpdate({slot}, [s \in {slot} |-> newCode])
  /\ freeRecords' = IF freeRecords = <<>> THEN <<>>
                    ELSE SubSeq(freeRecords, 1, Len(freeRecords) - 1)
  /\ nextUnused' = IF freeRecords = <<>> THEN nextUnused + 1 ELSE nextUnused
  /\ recordCapacity' = RecordsAfter
  /\ nextSerial' = nextSerial + 1
  /\ recordSlot' = [GrownRecords(recordSlot, NoSlot) EXCEPT ![r] = slot]
  /\ recordId' = [GrownRecords(recordId, NoId) EXCEPT ![r] = NextId]
  /\ recordBlock' = [GrownRecords(recordBlock, NoBlock) EXCEPT ![r] = b]
  /\ recordUsage' = GrownRecords(recordUsage, 0)
  /\ recordRecalls' = GrownRecords(recordRecalls, 0)
  /\ recordIndex' = [d \in DOMAIN recordIndex \cup {NextId} |->
                       IF d = NextId THEN r ELSE recordIndex[d]]
  /\ blockIndex' = [x \in DOMAIN blockIndex \cup {b} |-> IF x = b THEN r ELSE blockIndex[x]]

------------------------------------------------------------------------------
(* Observed usage and eviction.                                            *)

IndicesOf(ids) == {recordIndex[d] : d \in ids}
SlotsOf(ids)   == {recordSlot[recordIndex[d]] : d \in ids}

\* _prepare_recall_usage: the ids are active and cover every recalled cluster.
Accepts(ids) ==
  /\ ids \subseteq DOMAIN recordIndex
  /\ \A s \in SlotsOf(ids) : slotRecords[s] \subseteq IndicesOf(ids)

UpdatedUsage(r, rate) ==
  IF recordRecalls[r] = 0
    THEN rate
    ELSE (recordUsage[r] * (EmaScale - EmaWeight) + rate * EmaWeight) \div EmaScale

Eligible(s, usage) ==
  {r \in slotRecords[s] : /\ recordRecalls[r] + 1 >= MinRecalls
                          /\ UpdatedUsage(r, usage[recordId[r]]) < Threshold}

\* The order of eviction: lowest usage first, then lowest start position.
EvictedBefore(q, r, usage) ==
  LET uq == UpdatedUsage(q, usage[recordId[q]])
      ur == UpdatedUsage(r, usage[recordId[r]])
  IN uq < ur \/ (uq = ur /\ recordBlock[q] < recordBlock[r])

\* plan_recall_eviction.
EvictionPlan(E, ids, usage) ==
  /\ E \subseteq UNION {Eligible(s, usage) : s \in SlotsOf(ids)}
  /\ \A s \in SlotsOf(ids) :
       LET eligible == Eligible(s, usage)
           maximum == Greatest(0, Cardinality(slotRecords[s]) - MinRecords)
           taken == E \cap slotRecords[s]
       IN /\ Cardinality(taken) = Least(maximum, Cardinality(eligible))
          /\ \A q \in taken, r \in eligible \ taken : EvictedBefore(q, r, usage)

\* The sequences that list every element of S once.
Listings(S) ==
  {q \in [1..Cardinality(S) -> S] :
     /\ \A x \in S : \E i \in DOMAIN q : q[i] = x
     /\ \A i, j \in DOMAIN q : q[i] = q[j] => i = j}

ByPosition(E) ==
  {q \in Listings(E) : \A i, j \in DOMAIN q : i < j => recordBlock[q[i]] < recordBlock[q[j]]}

\* Slots left without records after E is gone.
Emptied(E) == {s \in Slots : slotRecords[s] # {} /\ slotRecords[s] \subseteq E}

\* The block ids _block_id_to_index keeps.
BlocksLeft(E) == DOMAIN blockIndex \ {recordBlock[r] : r \in E}

\* _evict_record_indices with _refresh_slots and _deactivate_empty_slots; the
\* locality code of a cluster that shrinks is not recomputed.
EvictRecords(E) ==
  LET hit == {s \in Slots : slotRecords[s] \cap E # {}}
      left == [s \in Slots |-> slotCount[s] - Cardinality(slotRecords[s] \cap E)]
  IN
  /\ slotRecords' = [s \in Slots |-> slotRecords[s] \ E]
  /\ slotCount' = left
  /\ slotActive' = [s \in Slots |-> IF s \in hit THEN left[s] > 0 ELSE slotActive[s]]
  /\ slotId' = [s \in Slots |-> IF s \in Emptied(E) THEN NoId ELSE slotId[s]]
  /\ slotCode' = [s \in Slots |-> IF s \in Emptied(E) THEN NoCode ELSE slotCode[s]]
  /\ recency' = LocalityRemove(Emptied(E))
  /\ \E order \in Listings(Emptied(E)) : freeSlots' = freeSlots \o order
  /\ recordSlot' = [r \in Records |-> IF r \in E THEN NoSlot ELSE recordSlot[r]]
  /\ recordId' = [r \in Records |-> IF r \in E THEN NoId ELSE recordId[r]]
  /\ recordBlock' = [r \in Records |-> IF r \in E THEN NoBlock ELSE recordBlock[r]]
  /\ recordIndex' = [d \in DOMAIN recordIndex \ {recordId[r] : r \in E} |-> recordIndex[d]]
  /\ blockIndex' = [b \in BlocksLeft(E) |-> blockIndex[b]]
  /\ \E order \in ByPosition(E) : freeRecords' = freeRecords \o order

\* observe_recall_usage of a call that is accepted; E is what it evicts.
ObserveRecallUsage(ids, usage, evicting, E) ==
  /\ ids # {}
  /\ Accepts(ids)
  /\ \A r \in IndicesOf(ids) : recordRecalls[r] < MaxRecalls
  /\ IF evicting THEN EvictionPlan(E, ids, usage) ELSE E = {}
  /\ EvictRecords(E)
  /\ recordUsage' = [r \in Records |->
       IF r \in E THEN 0
       ELSE IF r \in IndicesOf(ids) THEN UpdatedUsage(r, usage[recordId[r]])
       ELSE recordUsage[r]]
  /\ recordRecalls' = [r \in Records |->
       IF r \in E THEN 0
       ELSE IF r \in IndicesOf(ids) THEN recordRecalls[r] + 1
       ELSE recordRecalls[r]]
  /\ UNCHANGED <<slotCapacity, slotGeneration, recordCapacity, nextUnused, nextSerial>>

------------------------------------------------------------------------------
Init ==
  /\ slotCapacity = InitialSlots
  /\ slotId = [s \in 0..(InitialSlots - 1) |-> NoId]
  /\ slotGeneration = [s \in 0..(InitialSlots - 1) |-> 0]
  /\ slotRecords = [s \in 0..(InitialSlots - 1) |-> {}]
  /\ slotCount = [s \in 0..(InitialSlots - 1) |-> 0]
  /\ slotActive = [s \in 0..(InitialSlots - 1) |-> FALSE]
  /\ freeSlots = [i \in 1..InitialSlots |-> InitialSlots - i]
  /\ slotCode = [s \in 0..(InitialSlots - 1) |-> NoCode]
  /\ recency = {}
  /\ recordCapacity = InitialRecords
  /\ recordSlot = [r \in 0..(InitialRecords - 1) |-> NoSlot]
  /\ recordId = [r \in 0..(InitialRecords - 1) |-> NoId]
  /\ recordBlock = [r \in 0..(InitialRecords - 1) |-> NoBlock]
  /\ recordUsage = [r \in 0..(InitialRecords - 1) |-> 0]
  /\ recordRecalls = [r \in 0..(InitialRecords - 1) |-> 0]
  /\ recordIndex = [d \in {} |-> 0]
  /\ blockIndex = [b \in {} |-> 0]
  /\ freeRecords = <<>>
  /\ nextUnused = 0
  /\ nextSerial = 0
  /\ held = [d \in {} |-> 0]

Ingest ==
  /\ \E b \in Blocks, c \in Codes, newCode \in Codes :
     \E decision \in Slots \cup {NoSlot} : IngestBlock(b, c, decision, newCode)
  /\ UNCHANGED held

\* router_clusters summarises the active slots; the reader keeps some summaries.
Recall ==
  /\ \E S \in SUBSET {s \in Slots : slotActive[s]} :
       /\ S # {}
       /\ held' = [d \in {recordId[r] : r \in UNION {slotRecords[s] : s \in S}} |->
                     recordBlock[recordIndex[d]]]
  /\ UNCHANGED <<slotVars, recordVars>>

Observe ==
  /\ \E ids \in SUBSET DOMAIN held :
     \E usage \in [ids -> UsageRates] :
     \E evicting \in BOOLEAN :
     \E E \in SUBSET IndicesOf(ids \cap DOMAIN recordIndex) :
       ObserveRecallUsage(ids, usage, evicting, E)
  /\ UNCHANGED held

Next == Ingest \/ Recall \/ Observe

Spec == Init /\ [][Next]_vars

------------------------------------------------------------------------------
\* The type of every variable.
TypeOK ==
  /\ slotCapacity \in Nat \ {0}
  /\ slotId \in [Slots -> Nat]
  /\ slotGeneration \in [Slots -> Nat]
  /\ slotRecords \in [Slots -> SUBSET Records]
  /\ slotCount \in [Slots -> Int]
  /\ slotActive \in [Slots -> BOOLEAN]
  /\ freeSlots \in Seq(Slots)
  /\ slotCode \in [Slots -> Codes \cup {NoCode}]
  /\ recency \subseteq Slots \X Slots
  /\ recordCapacity \in Nat \ {0}
  /\ recordSlot \in [Records -> Slots \cup {NoSlot}]
  /\ recordId \in [Records -> Nat]
  /\ recordBlock \in [Records -> Blocks \cup {NoBlock}]
  /\ recordUsage \in [Records -> Nat]
  /\ recordRecalls \in [Records -> Nat]
  /\ recordIndex \in [DOMAIN recordIndex -> Records]
  /\ DOMAIN recordIndex \subseteq 1..nextSerial
  /\ blockIndex \in [DOMAIN blockIndex -> Records]
  /\ DOMAIN blockIndex \subseteq Blocks
  /\ freeRecords \in Seq(Records)
  /\ nextUnused \in 0..recordCapacity
  /\ nextSerial \in Nat
  /\ held \in [DOMAIN held -> Blocks]
  /\ DOMAIN held \subseteq 1..nextSerial

\* Every slot and every record index below the high-water mark has exactly one
\* holder: the free stack, or a cluster or block that is stored.
TablesPartitioned ==
  /\ \A i, j \in DOMAIN freeSlots : freeSlots[i] = freeSlots[j] => i = j
  /\ \A s \in Slots : slotRecords[s] = {} <=> \E i \in DOMAIN freeSlots : freeSlots[i] = s
  /\ \A i, j \in DOMAIN freeRecords : freeRecords[i] = freeRecords[j] => i = j
  /\ \A r \in Records :
       (\E i \in DOMAIN freeRecords : freeRecords[i] = r)
         <=> (r < nextUnused /\ recordSlot[r] = NoSlot)

\* The block index, the record ids and the clusters describe the same blocks,
\* each stored once: no block is lost, held twice, or found through a stale
\* entry after it was evicted and ingested again.
BlocksStoredOnce ==
  /\ DOMAIN blockIndex = {recordBlock[r] : r \in Records} \ {NoBlock}
  /\ \A r \in Records : recordBlock[r] # NoBlock =>
       /\ blockIndex[recordBlock[r]] = r
       /\ recordId[r] \in DOMAIN recordIndex
       /\ recordIndex[recordId[r]] = r
  /\ Cardinality(DOMAIN recordIndex) = Cardinality(DOMAIN blockIndex)
  /\ \A s \in Slots : slotRecords[s] = {r \in Records : recordSlot[r] = s}
  /\ \A r \in Records : recordSlot[r] # NoSlot <=> recordBlock[r] # NoBlock

\* The tensors that routing reads agree with the sets that eviction reads, and
\* the locality index lists exactly the clusters that hold a block.
RoutingAgrees ==
  /\ \A s \in Slots : slotCount[s] = Cardinality(slotRecords[s])
  /\ \A s \in Slots : slotActive[s] <=> slotRecords[s] # {}
  /\ Live = {s \in Slots : slotRecords[s] # {}}
  /\ Indexed = Live
  /\ BucketsOrdered

\* All tables of the memory describe the same blocks in the same clusters,
\* whatever was ingested, evicted and ingested again.
TablesConsistent == TypeOK /\ TablesPartitioned /\ BlocksStoredOnce /\ RoutingAgrees

\* kv_for_record_ids of an id a reader holds returns the block it was handed
\* with it, or fails; it never returns another block, although record indices
\* are recycled and a block id may come back under another record.
HeldIdsNameTheirBlocks ==
  \A d \in DOMAIN held \cap DOMAIN recordIndex : recordBlock[recordIndex[d]] = held[d]

\* All tables of the block memory describe the same blocks in the same clusters, and an
\* id a reader holds names the block it was handed with it or nothing, although indices
\* are recycled and blocks come back.
BlocksFoundByTheirIds == TablesConsistent /\ HeldIdsNameTheirBlocks

\* An id in the id index is the id of the stored block it leads to.
IdsNameBlocks ==
  \A d \in DOMAIN recordIndex :
    recordSlot[recordIndex[d]] # NoSlot /\ recordId[recordIndex[d]] = d

\* No index above the high-water mark is in use.
UnusedAreInactive == \A r \in Records : recordSlot[r] # NoSlot => r < nextUnused

\* A live cluster has the last generation of its slot; every generation took a block.
GenerationInv ==
  /\ \A s \in Live : slotId[s] = slotGeneration[s]
  /\ \A s \in Slots : slotGeneration[s] <= nextSerial
  /\ nextSerial <= MaxSerial

\* What is inductive: the tables with the facts that ingestion and eviction leave to
\* each other, and what a reader holds.
IInv ==
  /\ TablesConsistent
  /\ IdsNameBlocks
  /\ UnusedAreInactive
  /\ GenerationInv
  /\ HeldIdsNameTheirBlocks

\* The clusters by their ids, and the ids given out so far.
StoreClusters ==
  [c \in {ClusterId(s) : s \in Live} |-> {recordId[r] : r \in slotRecords[c[1]]}]

StoreUsed == {c \in Slots \X (1..MaxSerial) : c[2] <= slotGeneration[c[1]]}

\* The memory implements the cluster store, one block at a time.
Store == INSTANCE ClusterStore WITH
  WriteChunk <- 1,
  clusters <- StoreClusters,
  used <- StoreUsed,
  serial <- nextSerial

\* Every behaviour of the memory is a behaviour of the cluster store.
ImplementsClusterStore == Store!Spec
==============================================================================
