-------------------------- MODULE HierarchicalMemory --------------------------
(***************************************************************************)
(* ProbabilisticHierarchicalMemory: records in leaf slots, leaves under a   *)
(* forest of parent slots that splits and merges rearrange, supersession    *)
(* between versions of a fact, reads as of a time in the past, and eviction *)
(* confined to a cluster that was recalled as a whole.                      *)
(*                                                                          *)
(* Vectors are left out: which leaf the posterior prefers, which partition  *)
(* two-means finds, which siblings are similar and which records are used   *)
(* little is any choice the guards allow.  A leaf's statistics are          *)
(* represented by the members they were last computed over.                 *)
(***************************************************************************)
EXTENDS Integers, FiniteSets

CONSTANTS
  Groups,         \* pairs of layer and head_or_kv_group
  Blocks,         \* router blocks
  NoBlock,        \* a record without router metadata
  MinRecalls,     \* eviction_min_recall_count
  KeepPerCluster, \* eviction_min_records_per_cluster
  Protection,     \* new_record_protection
  Patience,       \* split_patience
  SplitCooldown,  \* split_cooldown
  MergeCooldown,  \* merge_cooldown
  MaxRecords,     \* bound: records ever written
  MaxSlots,       \* bound: slot ids ever given
  MaxTime         \* bound: the clock

ASSUME HierarchyAssumption ==
  /\ NoBlock \notin Blocks
  /\ MinRecalls \in Nat \ {0}
  /\ KeepPerCluster \in Nat
  /\ {Protection, SplitCooldown, MergeCooldown} \subseteq Nat
  /\ Patience \in Nat \ {0}
  /\ {MaxRecords, MaxSlots, MaxTime} \subseteq Nat

VARIABLES
  records,      \* record id -> its group, write time, superseder, recalls, block
  leaves,       \* slot id -> leaf
  parents,      \* slot id -> parent
  clock,        \* _clock
  recordCount,  \* _record_counter
  slotCount,    \* _slot_counter
  phase,        \* where maintain is: "idle", "split" or "merge"
  todo,         \* leaves the loop of that phase has not used yet
  replaced,     \* history: <<old, time>> for every supersession
  leftInPast    \* history: a read of the past raised, and nothing was refreshed since

vars == <<records, leaves, parents, clock, recordCount, slotCount, phase, todo, replaced,
          leftInPast>>

None == 0   \* no parent, no superseder

With(f, k, v) == [x \in DOMAIN f \cup {k} |-> IF x = k THEN v ELSE f[x]]
Without(f, S) == [x \in DOMAIN f \ S |-> f[x]]

NewLeaf(g, members, parent, cooldown) ==
  [group |-> g, members |-> members, parent |-> parent, cooldown |-> cooldown,
   pending |-> 0, basis |-> members, routed |-> {}]

Init ==
  /\ records = [r \in {} |-> None]
  /\ leaves = [s \in {} |-> None]
  /\ parents = [s \in {} |-> None]
  /\ clock = 0
  /\ recordCount = 0
  /\ slotCount = 0
  /\ phase = "idle"
  /\ todo = {}
  /\ replaced = {}
  /\ leftInPast = FALSE

\* An operation at the next tick, or at an explicit time not before the clock.
Times == {t \in {clock, clock + 1} : t <= MaxTime}

\* _refresh_all: statistics over the members written by asOf, the router index
\* over all members that have a key.
RefreshedLeaves(L, R, asOf) ==
  [s \in DOMAIN L |->
     LET members == L[s].members \cap DOMAIN R IN
     [L[s] EXCEPT !.members = members,
                  !.basis = {r \in members : R[r].time <= asOf},
                  !.routed = {r \in members : R[r].block # NoBlock}]]

RefreshedParents(P, L) ==
  [s \in DOMAIN P |-> [P[s] EXCEPT !.children = @ \cap (DOMAIN L \cup DOMAIN P)]]

------------------------------------------------------------------------------
\* Mutant: the least id no stored record has.
NewRecordIdLeast == CHOOSE i \in 1..(recordCount + 1) :
                      i \notin DOMAIN records /\ \A j \in 1..(i - 1) : j \in DOMAIN records

NewRecordId == recordCount + 1

\* write: the record supersedes any stored record, joins a leaf of its group or
\* gets a leaf of its own.
Write(g, b, old, now) ==
  /\ phase = "idle"
  /\ recordCount < MaxRecords
  /\ LET id == NewRecordId
         hidden == [r \in DOMAIN records |->
                      IF r = old THEN [records[r] EXCEPT !.supersededBy = id] ELSE records[r]]
         stored == With(hidden, id, [group |-> g, time |-> now, supersededBy |-> None,
                                     recalls |-> 0, block |-> b])
         Placed(L) == RefreshedLeaves(L, stored, now)
     IN /\ records' = stored
        /\ recordCount' = recordCount + 1
        /\ replaced' = IF old = None THEN replaced ELSE replaced \cup {<<old, now>>}
        /\ \/ \E s \in DOMAIN leaves :
                /\ leaves[s].group = g
                /\ leaves' = Placed([leaves EXCEPT ![s].members = @ \cup {id}])
                /\ UNCHANGED slotCount
           \/ /\ slotCount < MaxSlots
              /\ slotCount' = slotCount + 1
              /\ leaves' = Placed(With(leaves, slotCount', NewLeaf(g, {id}, None, 0)))
  /\ clock' = now
  /\ parents' = RefreshedParents(parents, leaves')
  /\ leftInPast' = FALSE
  /\ UNCHANGED <<phase, todo>>

\* A write that is refused has already advanced the clock.
RejectWrite(now) ==
  /\ phase = "idle"
  /\ clock' = now
  /\ UNCHANGED <<records, leaves, parents, recordCount, slotCount, phase, todo, replaced,
                 leftInPast>>

\* Nodes that hierarchical routing can reach from the roots of a group.
Descend(g) ==
  LET start == {s \in DOMAIN leaves : leaves[s].parent = None /\ leaves[s].group = g} \cup
               {s \in DOMAIN parents : parents[s].parent = None /\ parents[s].group = g}
      level[n \in 0..Cardinality(DOMAIN parents)] ==
        IF n = 0 THEN start
        ELSE level[n - 1] \cup UNION {parents[s].children : s \in level[n - 1] \cap DOMAIN parents}
  IN level[Cardinality(DOMAIN parents)]

Reachable(g) == UNION {leaves[s].members : s \in Descend(g) \cap DOMAIN leaves}

\* Mutant: a record is hidden for every time once it is superseded.
VisibleAtOnlyCurrent(r, t) == records[r].time <= t /\ records[r].supersededBy = None

\* _visible for the policies "current", "historical" and "all".
Current(r) == records[r].supersededBy = None

VisibleAt(r, t) ==
  /\ records[r].time <= t
  /\ LET s == records[r].supersededBy IN
       IF s \in DOMAIN records THEN records[s].time > t ELSE TRUE

Visible(r, policy, asOf) ==
  \/ policy = "all"
  \/ policy = "current" /\ Current(r)
  \/ policy = "historical" /\ VisibleAt(r, asOf)

\* One more retrieval or recall of the records in S, counted up to MinRecalls.
Recalled(R, S) ==
  [r \in DOMAIN R |->
     IF r \in S /\ R[r].recalls < MinRecalls THEN [R[r] EXCEPT !.recalls = @ + 1] ELSE R[r]]

\* Mutant: the statistics of the past are left in place.
SettledInThePast(L, asOf, now) == RefreshedLeaves(L, records, asOf)

\* A read as of the past ends with the statistics of the present.
Settled(L, asOf, now) == RefreshedLeaves(RefreshedLeaves(L, records, asOf), records, now)

\* retrieve, which counts at most one selected record here.
Retrieve(g, policy, asOf, now) ==
  /\ phase = "idle"
  /\ \E S \in {{}} \cup {{r} : r \in {x \in Reachable(g) : Visible(x, policy, asOf)}} :
       records' = Recalled(records, S)
  /\ clock' = now
  /\ leaves' = Settled(leaves, asOf, now)
  /\ parents' = RefreshedParents(parents, leaves)
  /\ leftInPast' = FALSE
  /\ UNCHANGED <<recordCount, slotCount, phase, todo, replaced>>

\* retrieve with a query of another dimension raises when it scores the first root, after
\* the refresh: a read of the past leaves the statistics of the past.
RetrieveFails(g, asOf, now) ==
  /\ phase = "idle"
  /\ Descend(g) # {}
  /\ clock' = now
  /\ leaves' = RefreshedLeaves(leaves, records, asOf)
  /\ parents' = RefreshedParents(parents, leaves)
  /\ leftInPast' = (asOf < now)
  /\ UNCHANGED <<records, recordCount, slotCount, phase, todo, replaced>>

------------------------------------------------------------------------------
\* Slots that have a non-empty leaf at or below them.
Occupied(L, P) ==
  LET level[n \in 0..Cardinality(DOMAIN P)] ==
        IF n = 0 THEN {s \in DOMAIN L : L[s].members # {}}
        ELSE level[n - 1] \cup {s \in DOMAIN P : P[s].children \cap level[n - 1] # {}}
  IN level[Cardinality(DOMAIN P)]

\* _prune_empty_nodes
PrunedLeaves(L, P) == Without(L, DOMAIN L \ Occupied(L, P))

PrunedParents(L, P) ==
  LET kept == Without(P, DOMAIN P \ Occupied(L, P)) IN
  [s \in DOMAIN kept |-> [kept[s] EXCEPT !.children = @ \cap Occupied(L, P)]]

\* Mutant: the floor of the cluster is not kept.
MostEvictedAll(s) == Cardinality(leaves[s].members)

\* How many records an observation may evict.
MostEvicted(s) ==
  LET spare == Cardinality(leaves[s].members) - KeepPerCluster IN IF spare > 0 THEN spare ELSE 0

\* The records old enough and recalled often enough to be evicted.
Evictable(s, R, now) ==
  {r \in leaves[s].members : R[r].recalls >= MinRecalls /\ now - R[r].time >= Protection}

\* observe_cluster_recall_usage: the little used ones of them go.
ObserveRecall(s, now) ==
  /\ phase = "idle"
  /\ LET counted == Recalled(records, leaves[s].members) IN
     \E evicted \in SUBSET Evictable(s, counted, now) :
       /\ Cardinality(evicted) <= MostEvicted(s)
       /\ records' = Without(counted, evicted)
       /\ LET left == [leaves EXCEPT ![s].members = @ \ evicted] IN
            /\ leaves' = RefreshedLeaves(PrunedLeaves(left, parents), records', now)
            /\ parents' = PrunedParents(left, parents)
  /\ clock' = now
  /\ leftInPast' = FALSE
  /\ UNCHANGED <<recordCount, slotCount, phase, todo, replaced>>

------------------------------------------------------------------------------
\* maintain: prune, then offer every leaf to _try_split.
BeginMaintain(now) ==
  /\ phase = "idle"
  /\ clock' = now
  /\ leaves' = RefreshedLeaves(PrunedLeaves(leaves, parents), records, now)
  /\ parents' = PrunedParents(leaves, parents)
  /\ phase' = "split"
  /\ todo' = DOMAIN leaves'
  /\ leftInPast' = FALSE
  /\ UNCHANGED <<records, recordCount, slotCount, replaced>>

OneMorePending(s) == IF leaves[s].pending < Patience THEN leaves[s].pending + 1 ELSE Patience

\* _try_split without a split: the leaf cools down, is no candidate, or was one
\* too seldom or to no avail.  Observations are counted up to Patience, beyond
\* which no comparison tells them apart.
KeepLeaf(s) ==
  /\ phase = "split"
  /\ s \in todo
  /\ \/ /\ clock < leaves[s].cooldown
        /\ UNCHANGED leaves
     \/ /\ clock >= leaves[s].cooldown
        /\ \E pending \in {0, OneMorePending(s)} :
             /\ pending # 0 => Cardinality(leaves[s].members) > 1
             /\ leaves' = [leaves EXCEPT ![s].pending = pending]
  /\ todo' = todo \ {s}
  /\ UNCHANGED <<records, parents, clock, recordCount, slotCount, phase, replaced, leftInPast>>

\* _try_split: two children take over the members, the slot becomes a parent.
Split(s) ==
  /\ phase = "split"
  /\ s \in todo
  /\ clock >= leaves[s].cooldown
  /\ leaves[s].pending + 1 >= Patience
  /\ slotCount + 2 <= MaxSlots
  /\ \E left \in (SUBSET leaves[s].members) \ {{}, leaves[s].members} :
       LET a == slotCount + 1
           b == slotCount + 2
           Child(members) == NewLeaf(leaves[s].group, members, s, clock + SplitCooldown)
       IN leaves' = RefreshedLeaves(With(With(Without(leaves, {s}), a, Child(left)),
                                         b, Child(leaves[s].members \ left)), records, clock)
  /\ parents' = With(parents, s, [group |-> leaves[s].group, parent |-> leaves[s].parent,
                                  children |-> {slotCount + 1, slotCount + 2}])
  /\ slotCount' = slotCount + 2
  /\ todo' = todo \ {s}
  /\ UNCHANGED <<records, clock, recordCount, phase, replaced, leftInPast>>

EndSplits ==
  /\ phase = "split"
  /\ todo = {}
  /\ phase' = "merge"
  /\ todo' = DOMAIN leaves
  /\ UNCHANGED <<records, leaves, parents, clock, recordCount, slotCount, replaced, leftInPast>>

\* Mutant: only one direction is looked at.
CrossSupersessionOneWay(l, r) ==
  l < r /\ \E x \in leaves[l].members : records[x].supersededBy \in leaves[r].members

CrossSupersession(l, r) ==
  \/ \E x \in leaves[l].members : records[x].supersededBy \in leaves[r].members
  \/ \E x \in leaves[r].members : records[x].supersededBy \in leaves[l].members

\* The parent is left with the merged leaf only.
Collapses(l, r) ==
  leaves[l].parent \in DOMAIN parents /\ parents[leaves[l].parent].children = {l, r}

\* Mutant: the merged leaf keeps its new id.
MergedIdNew(l, r) == slotCount + 1

\* The merged leaf takes the id of a parent that collapses into it.
MergedId(l, r) == IF Collapses(l, r) THEN leaves[l].parent ELSE slotCount + 1

\* Mutant: the merged leaf stays below the parent that is gone.
MergedParentStale(l, r) == leaves[l].parent

MergedParent(l, r) ==
  IF Collapses(l, r) THEN parents[leaves[l].parent].parent ELSE leaves[l].parent

SlotsAfterMerge == slotCount + 1

\* _try_merge of a pair of siblings that were leaves when the phase began.
Merge(l, r) ==
  /\ phase = "merge"
  /\ l \in todo /\ r \in todo /\ l # r
  /\ leaves[l].parent = leaves[r].parent /\ leaves[l].group = leaves[r].group
  /\ clock >= leaves[l].cooldown /\ clock >= leaves[r].cooldown
  /\ ~CrossSupersession(l, r)
  /\ slotCount < MaxSlots
  /\ slotCount' = SlotsAfterMerge
  /\ LET p == leaves[l].parent
         merged == NewLeaf(leaves[l].group, leaves[l].members \cup leaves[r].members,
                           MergedParent(l, r), clock + MergeCooldown)
         adopted == IF p \in DOMAIN parents
                      THEN [parents EXCEPT ![p].children = (@ \ {l, r}) \cup {MergedId(l, r)}]
                      ELSE parents
     IN /\ leaves' = RefreshedLeaves(With(Without(leaves, {l, r}), MergedId(l, r), merged),
                                     records, clock)
        /\ parents' = RefreshedParents(IF Collapses(l, r) THEN Without(parents, {p}) ELSE adopted,
                                       leaves')
  /\ todo' = todo \ {l, r}
  /\ UNCHANGED <<records, clock, recordCount, phase, replaced, leftInPast>>

EndMaintain ==
  /\ phase = "merge"
  /\ leaves' = RefreshedLeaves(PrunedLeaves(leaves, parents), records, clock)
  /\ parents' = PrunedParents(leaves, parents)
  /\ phase' = "idle"
  /\ todo' = {}
  /\ UNCHANGED <<records, clock, recordCount, slotCount, replaced, leftInPast>>

Next ==
  \/ \E now \in Times :
       \/ \E g \in Groups, b \in Blocks \cup {NoBlock}, old \in DOMAIN records \cup {None} :
            Write(g, b, old, now)
       \/ RejectWrite(now)
       \/ \E g \in Groups, policy \in {"current", "historical", "all"} :
            \E asOf \in IF policy = "historical" THEN 0..now ELSE {now} :
              Retrieve(g, policy, asOf, now) \/ RetrieveFails(g, asOf, now)
       \/ \E s \in DOMAIN leaves : ObserveRecall(s, now)
       \/ BeginMaintain(now)
  \/ \E s \in DOMAIN leaves : KeepLeaf(s) \/ Split(s)
  \/ EndSplits
  \/ \E l, r \in DOMAIN leaves : Merge(l, r)
  \/ EndMaintain

Spec == Init /\ [][Next]_vars

------------------------------------------------------------------------------
Slots == DOMAIN leaves \cup DOMAIN parents

ParentOf(s) == IF s \in DOMAIN leaves THEN leaves[s].parent ELSE parents[s].parent
GroupOf(s) == IF s \in DOMAIN leaves THEN leaves[s].group ELSE parents[s].group

\* The type of every variable; ids are never beyond their counters.
TypeOK ==
  /\ \A r \in DOMAIN records :
       records[r] \in [group : Groups, time : 0..clock, supersededBy : 0..recordCount,
                       recalls : 0..MinRecalls, block : Blocks \cup {NoBlock}]
  /\ \A s \in DOMAIN leaves :
       leaves[s] \in [group : Groups, members : SUBSET (1..recordCount), parent : 0..slotCount,
                      cooldown : Nat, pending : 0..Patience,
                      basis : SUBSET (1..recordCount), routed : SUBSET (1..recordCount)]
  /\ \A s \in DOMAIN parents :
       parents[s] \in [group : Groups, parent : 0..slotCount, children : SUBSET (1..slotCount)]
  /\ DOMAIN records \subseteq 1..recordCount
  /\ Slots \subseteq 1..slotCount
  /\ clock \in 0..MaxTime
  /\ phase \in {"idle", "split", "merge"}
  /\ todo \subseteq DOMAIN leaves
  /\ replaced \subseteq (1..recordCount) \X (0..clock)
  /\ leftInPast \in BOOLEAN

\* A slot is a leaf or a parent, and the two directions of every link between
\* slots agree through splits, merges, collapses and prunings.
ForestConsistent ==
  /\ DOMAIN leaves \cap DOMAIN parents = {}
  /\ \A s \in DOMAIN parents :
       /\ parents[s].children # {}
       /\ \A c \in parents[s].children :
            c \in Slots /\ ParentOf(c) = s /\ GroupOf(c) = parents[s].group
  /\ \A s \in Slots :
       ParentOf(s) # None => ParentOf(s) \in DOMAIN parents /\ s \in parents[ParentOf(s)].children

\* Every stored record is in one leaf, of its own group, and no leaf is empty:
\* write reads the first record of every leaf of the group.
RecordsPartitioned ==
  /\ \A r \in DOMAIN records :
       \E s \in DOMAIN leaves :
         /\ r \in leaves[s].members
         /\ leaves[s].group = records[r].group
         /\ \A q \in DOMAIN leaves \ {s} : r \notin leaves[q].members
  /\ \A s \in DOMAIN leaves : leaves[s].members # {} /\ leaves[s].members \subseteq DOMAIN records

\* Slots, links and records fit together.
HierarchyConsistent == TypeOK /\ ForestConsistent /\ RecordsPartitioned

\* No record is stored where hierarchical routing cannot find it.
EveryRecordRoutable ==
  \A r \in DOMAIN records : r \in Reachable(records[r].group)

\* What routing and posterior read of a leaf was computed over the members it has
\* now, also after a read as of an earlier time, unless the last such read raised
\* and nothing refreshed the leaves since; the router index always was.
StatisticsFresh ==
  \A s \in DOMAIN leaves :
    /\ leaves[s].basis = leaves[s].members \/ leftInPast
    /\ leaves[s].routed = {r \in leaves[s].members : records[r].block # NoBlock}

\* Forest, leaves and records match, every retained record is in reach of a reader, and a
\* leaf's statistics are those of the records it lists, through splits, collapses, merges,
\* evictions and reads of the past, but for what a read of the past that raised leaves until
\* the next refresh.
RecordsInReach == HierarchyConsistent /\ EveryRecordRoutable /\ StatisticsFresh

\* A read as of t shows every retained record that was the current version at
\* t, whatever superseded it or was evicted since; a read as of now shows no
\* record a current read hides, but for one whose superseder was evicted.
HistoryIsKept ==
  \A r \in DOMAIN records :
    /\ \A t \in records[r].time..clock :
         (\A x \in replaced : x[1] = r => x[2] > t) => VisibleAt(r, t)
    /\ VisibleAt(r, clock) /\ records[r].supersededBy \in DOMAIN records => Current(r)

\* Records are lost to the recall of their own cluster only, never to
\* maintenance, never below the floor of the cluster, never before they were
\* recalled often enough and are out of protection.
EvictionConfined ==
  [][\A r \in DOMAIN records \ DOMAIN records' :
       /\ phase = "idle" /\ phase' = "idle"
       /\ clock' - records[r].time >= Protection
       /\ records[r].recalls + 1 >= MinRecalls
       /\ \E s \in DOMAIN leaves :
            /\ DOMAIN records \ DOMAIN records' \subseteq leaves[s].members
            /\ Cardinality(leaves[s].members \cap DOMAIN records') >= KeepPerCluster]_vars

\* No step of maintenance brings a record and the version that supersedes it
\* together in one cluster: where both are in a leaf after it, they shared one before.
VersionsStayApart ==
  [][\A s \in DOMAIN leaves', r \in DOMAIN records :
       /\ phase # "idle"
       /\ {r, records[r].supersededBy} \subseteq leaves'[s].members
       => \E q \in DOMAIN leaves : {r, records[r].supersededBy} \subseteq leaves[q].members]_vars
==============================================================================
