----------------------------- MODULE RouterBridge -----------------------------
(***************************************************************************)
(* cluster_router_bridge: completed blocks written record by record into a *)
(* layer's hierarchical memory, a store of tensor payloads beside it, and a *)
(* reader that selects clusters by their router index and later packs the   *)
(* records of the selection into one K/V view.                              *)
(*                                                                          *)
(* Memory and payloads change at different times: a payload is registered   *)
(* after its record is written, and dropped when the caller synchronises,   *)
(* some time after memory evicted the record.  A block whose write raises   *)
(* leaves the records before it, and the caller may hand it in again.       *)
(***************************************************************************)
EXTENDS HierarchicalMemory, Sequences

CONSTANTS
  Parts,     \* block -> the sequence of the groups of its records
  MaxBegins  \* bound: how often a block is handed in

ASSUME BridgeAssumption ==
  /\ Parts \in [Blocks -> Seq(Groups) \ {<<>>}]
  /\ MaxBegins \in Nat

VARIABLES
  payloads,   \* KVPayloadStore: record id -> its block and logical position
  writing,    \* the block in ingest and how many of its records are written
  held,       \* the reader's selection: record id -> its payload then
  begun       \* history: how often each block was handed in

bridgeVars == <<payloads, writing, held, begun>>
allVars == <<vars, bridgeVars>>

NotWriting == [block |-> NoBlock, done |-> 0]

\* Mutant: the next part is the one written last.
PartAfterLast(b, done) == [group |-> Parts[b][1], position |-> 1]

\* The record of a block that is due: its group and logical position.
PartDue(b, done) == [group |-> Parts[b][done + 1], position |-> done + 1]

BridgeInit ==
  /\ Init
  /\ payloads = [r \in {} |-> None]
  /\ writing = NotWriting
  /\ held = [r \in {} |-> None]
  /\ begun = [b \in Blocks |-> 0]

\* Nothing else runs in the middle of a block.
BetweenBlocks == writing = NotWriting

BeginBlock(b) ==
  /\ BetweenBlocks /\ phase = "idle"
  /\ begun[b] < MaxBegins
  /\ begun' = [begun EXCEPT ![b] = @ + 1]
  /\ writing' = [block |-> b, done |-> 0]
  /\ UNCHANGED <<vars, payloads, held>>

\* register refuses a record that has a payload.
Registered(id, part, b) ==
  /\ id \notin DOMAIN payloads
  /\ payloads' = With(payloads, id, <<b, part.position>>)

\* One turn of the loop in ingest: memory writes the record, then its payload
\* is registered; the block is complete after its last record.
WriteRecord(now) ==
  /\ ~BetweenBlocks
  /\ LET b == writing.block
         part == PartDue(b, writing.done)
     IN /\ Write(part.group, b, None, now)
        /\ Registered(NewRecordId, part, b)
        /\ writing' = IF writing.done + 1 = Len(Parts[b])
                        THEN NotWriting
                        ELSE [writing EXCEPT !.done = @ + 1]
  /\ UNCHANGED <<held, begun>>

\* memory.write raises: ingest is left with the records written before.
FailBlock(now) ==
  /\ ~BetweenBlocks
  /\ RejectWrite(now)
  /\ writing' = NotWriting
  /\ UNCHANGED <<payloads, held, begun>>

\* retrieve_router_clusters ranks the leaves of the group that have a router
\* index; the reader gets every retained record of those it selects.  It makes
\* one selection: another only takes the place of the first.
SelectClusters(g) ==
  /\ BetweenBlocks /\ phase = "idle"
  /\ DOMAIN held = {}
  /\ \E S \in SUBSET {s \in DOMAIN leaves : leaves[s].group = g /\ leaves[s].routed # {}} :
       held' = [r \in (UNION {leaves[s].members : s \in S}) \cap DOMAIN records |-> payloads[r]]
  /\ UNCHANGED <<vars, payloads, writing, begun>>

\* Mutant: only clusters that were never split are listed.
ActiveRoots == UNION {leaves[s].members : s \in {q \in DOMAIN leaves : leaves[q].parent = None}}

\* memberships: what the leaves of the layer list.
ActiveRecords == UNION {leaves[s].members : s \in DOMAIN leaves}

Synchronize ==
  /\ BetweenBlocks /\ phase = "idle"
  /\ payloads' = Without(payloads, DOMAIN payloads \ ActiveRecords)
  /\ UNCHANGED <<vars, writing, held, begun>>

\* The memory's own operations, which its owner may call between blocks; reads
\* change usage only.
MemoryOperation ==
  /\ BetweenBlocks
  /\ \/ \E now \in Times :
          \/ \E s \in DOMAIN leaves : ObserveRecall(s, now)
          \/ BeginMaintain(now)
     \/ \E s \in DOMAIN leaves : KeepLeaf(s) \/ Split(s)
     \/ EndSplits
     \/ \E l, r \in DOMAIN leaves : Merge(l, r)
     \/ EndMaintain
  /\ UNCHANGED bridgeVars

BridgeNext ==
  \/ \E b \in Blocks : BeginBlock(b)
  \/ \E now \in Times :
       \/ WriteRecord(now)
       \/ FailBlock(now)
  \/ \E g \in Groups : SelectClusters(g)
  \/ Synchronize
  \/ MemoryOperation

BridgeSpec == BridgeInit /\ [][BridgeNext]_allVars

------------------------------------------------------------------------------
\* LayerKVCacheBuilder.build over record ids: every payload must be there and
\* no logical position may occur twice; the view has the payloads in order.
Packs(ids) ==
  /\ ids \subseteq DOMAIN payloads
  /\ \A r, q \in ids : payloads[r] = payloads[q] => r = q

View(ids) == {payloads[r] : r \in ids}

\* A cluster just selected can be packed: through splits, merges, evictions and
\* synchronisations every record a leaf lists counts in its router index and has
\* the payload of the block it was written for; two records are at one position
\* only when their block was handed in twice, its first write having failed or not.
FreshSelectionPacks ==
  BetweenBlocks =>
    \A s \in DOMAIN leaves :
      /\ leaves[s].routed = leaves[s].members
      /\ \A r \in leaves[s].members : r \in DOMAIN payloads /\ payloads[r][1] = records[r].block
      /\ (\A r \in leaves[s].members : begun[records[r].block] = 1) => Packs(leaves[s].members)

\* A selection packed late, after evictions, maintenance and further blocks,
\* raises or gives exactly the tokens it named when it was made.
StaleSelectionRaisesOrMatches ==
  Packs(DOMAIN held) => View(DOMAIN held) = {held[r] : r \in DOMAIN held}

\* A payload outlives its record until the next synchronisation and no longer;
\* it is never dropped while memory has the record.
PayloadsFollowMemory ==
  [][/\ \A r \in DOMAIN payloads \ DOMAIN payloads' : r \notin DOMAIN records
     /\ DOMAIN payloads \subseteq DOMAIN payloads' \/ DOMAIN payloads' = DOMAIN records]_allVars
==============================================================================
