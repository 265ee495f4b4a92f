---------------------------- MODULE ClusterSession ----------------------------
(***************************************************************************)
(* A layer's cluster memory and a session that uses it: it ingests write   *)
(* chunks, ranks and recalls clusters, keeps the frozen summaries it was   *)
(* handed, and later reports the observed usage of records it recalled.    *)
(* Between a recall and its observation further chunks may be ingested and *)
(* other observations may evict, so a report can be stale; the memory must *)
(* refuse it then.                                                         *)
(***************************************************************************)
EXTENDS ClusterMemory

VARIABLES
  recalled,   \* the clusters of the last recall: their ids, as handed out
  recallOf,   \* record id -> cluster id, from the record_ids of the summaries
  recallTime, \* history: _next_record_serial at the recall
  emptied     \* history: the slots that lost all their records since the recall

recallVars == <<recalled, recallOf, recallTime>>
sessionVars == <<recallVars, emptied>>
vars == <<memoryVars, sessionVars>>

\* router_clusters ranks the slots whose slot_active is set and a session keeps
\* some of them; the summary lists the record ids of _slot_records.
Recall ==
  /\ Idle
  /\ \E S \in SUBSET {s \in Slots : slotActive[s]} :
       /\ S # {}
       /\ recalled' = {ClusterId(s) : s \in S}
       /\ recallOf' = [d \in {recordId[r] : r \in UNION {slotRecords[s] : s \in S}} |->
                         ClusterId(CHOOSE s \in S : recordIndex[d] \in slotRecords[s])]
  /\ recallTime' = nextSerial
  /\ emptied' = {}
  /\ UNCHANGED memoryVars

\* The session reports the usage of recalled records, with the eviction that
\* the configuration or the caller's apply_eviction asks for.
Observe ==
  /\ \E ids \in SUBSET DOMAIN recallOf :
     \E usage \in [ids -> UsageRates] :
     \E evicting \in BOOLEAN :
     \E E \in SUBSET IndicesOf(ids \cap DOMAIN recordIndex) :
       /\ ObserveRecallUsage(ids, usage, evicting, E)
       /\ emptied' = emptied \cup Emptied(E)
  /\ UNCHANGED recallVars

Init ==
  /\ MemoryInit
  /\ recalled = {}
  /\ recallOf = [d \in {} |-> <<0, 0>>]
  /\ recallTime = 0
  /\ emptied = {}

Next ==
  \/ BeginSome /\ UNCHANGED sessionVars
  \/ AllocateSome /\ UNCHANGED sessionVars
  \/ CommitSome /\ UNCHANGED sessionVars
  \/ Recall
  \/ Observe

Spec == Init /\ [][Next]_vars

------------------------------------------------------------------------------
\* The type of every variable of a memory and of its session.
TypeOK ==
  /\ MemoryTypeOK
  /\ recallOf \in [DOMAIN recallOf -> recalled]
  /\ DOMAIN recallOf \subseteq 1..recallTime
  /\ recalled \subseteq Slots \X Nat
  /\ recallTime \in 0..nextSerial
  /\ emptied \subseteq Slots

\* What the frozen summaries say of what still exists stays true: a record the
\* session recalled is in the cluster it was recalled in, and a recalled cluster
\* has gained only younger records.
SummariesHold ==
  /\ \A d \in DOMAIN recallOf \cap DOMAIN recordIndex :
       ClusterId(recordSlot[recordIndex[d]]) = recallOf[d]
  /\ \A s \in Live : ClusterId(s) \in recalled =>
       \A r \in slotRecords[s] : recordId[r] <= recallTime =>
          /\ recordId[r] \in DOMAIN recallOf
          /\ recallOf[recordId[r]] = ClusterId(s)

\* A cluster opened in a slot that lost all its records has an id nobody holds.
IdsNeverReused == \A s \in emptied \cap Live : ClusterId(s) \notin recalled

\* A stale summary never denotes the contents of another cluster, although slots
\* and record indices are recycled: what it says of records and clusters that
\* still exist is true, and the id of a recalled cluster that was evicted does not
\* become the id of the cluster that is later opened in its slot.
RecallNeverMisattributed == SummariesHold /\ IdsNeverReused

\* Eviction is confined: a step that removes records touches only clusters all
\* of whose records the session had recalled, removes only records observed
\* often enough, and leaves the configured number of records in each cluster.
EvictionConfined ==
  [][\A s \in Live : slotRecords[s] \ slotRecords'[s] # {} =>
       /\ \A r \in slotRecords[s] : recordId[r] \in DOMAIN recallOf
       /\ \A r \in slotRecords[s] \ slotRecords'[s] : recordRecalls[r] + 1 >= MinRecalls
       /\ Cardinality(slotRecords'[s]) >= MinRecords]_vars

\* The induction hypothesis behind the invariants above: the parts of the
\* memory's consistency that keep each other, and the generations that keep a
\* recalled cluster id from coming back.
MemoryInv ==
  /\ MemoryTypeOK
  /\ SlotsPartitioned
  /\ ChunkSlotsProtected
  /\ RecordsPartitioned
  /\ MembershipConsistent
  /\ IndexedIffLive

SessionInv ==
  /\ \A s \in Live : slotId[s] = slotGeneration[s]
  /\ recallTime \in 0..nextSerial
  /\ DOMAIN recallOf \subseteq 1..recallTime
  /\ recallOf \in [DOMAIN recallOf -> recalled]
  /\ recalled \subseteq Slots \X Nat
  /\ \A c \in recalled : c[2] <= slotGeneration[c[1]]
  /\ SummariesHold

EmptiedInv == emptied \subseteq Slots /\ IdsNeverReused

IInv == MemoryInv /\ SessionInv /\ EmptiedInv

\* A slot is live and without records only from its allocation to the commit of
\* the row that opens it.
CountsInv ==
  /\ \A s \in Slots : slotCount[s] = Cardinality(slotRecords[s])
  /\ \A s \in Slots : slotActive[s] <=> slotId[s] # NoId
  /\ \A s \in Live : slotRecords[s] # {} \/ s \in Touched

\* No index keeps the observations of a record that is gone.
UsageInv ==
  /\ \A r \in Records : recordSlot[r] = NoSlot => recordRecalls[r] = 0
  /\ ClusterMatesObservedTogether

Opened(s) == \E i \in DOMAIN chunk : chunk[i].chosen = NoSlot /\ chunk[i].slot = s

\* Every generation of a slot took at least one record: ids are bounded as
\* records are.
GenerationInv ==
  /\ \A i \in DOMAIN chunk : chunk[i].chosen # NoSlot => chunk[i].slot = chunk[i].chosen
  /\ Len(chunk) <= WriteChunk
  /\ nextSerial + Len(chunk) <= MaxSerial
  /\ \A s \in Slots : slotGeneration[s] <= nextSerial + (IF Opened(s) THEN 1 ELSE 0)

\* What the counts, the locality index, the usage and the ids of clusters add.
FullInv == IInv /\ CountsInv /\ BucketsOrdered /\ UsageInv /\ GenerationInv

------------------------------------------------------------------------------
(* The memory implements the abstract cluster store.                       *)

Populated == {s \in Live : slotRecords[s] # {}}

StoreClusters ==
  [c \in {ClusterId(s) : s \in Populated} |-> {recordId[r] : r \in slotRecords[c[1]]}]

\* Every generation of a slot was given out but one still waiting for its records.
StoreUsed ==
  {c \in Slots \X (1..MaxSerial) :
     c[2] <= slotGeneration[c[1]] /\ ~(c = ClusterId(c[1]) /\ slotRecords[c[1]] = {})}

Store == INSTANCE ClusterStore WITH
  clusters <- StoreClusters, used <- StoreUsed, serial <- nextSerial

\* Every behaviour of the memory is a behaviour of the cluster store.
ImplementsClusterStore == Store!Spec
==============================================================================
