# ResidualCache: a TLA+ verification project

ResidualCache is research code for long-context inference: tokens that leave a
model's exact local context are stored in *cluster memories*, a router predicts
which clusters a later query needs, and the retrieved K/V is replayed beside the
local context. The Python is sequential, but it is heavy in state: growable tables
whose entries are recycled, ids handed out and redeemed much later, transactions
over a chunk of tokens, windows and caches that must agree about positions, and
long jobs on a cluster that are killed and started again. That is what is modelled
here; floating-point numerics are not.

Contents: [inventory](#1-inventory), [plan](#2-plan),
[modules and code](#3-modules-and-code), [runs](#4-runs), [fairness](#5-fairness),
[proofs](#6-proofs), [findings](#7-disagreements-found),
[what is only model-checked](#8-what-is-only-model-checked),
[what is not modelled](#9-what-is-not-modelled).

Check a module with `tlc -config X.cfg M.tla`, a proof module with `tlapm M.tla`.
`PROJECT.json` lists the runs, maps every definition to the lines it models, names
a mutant for every checked property and lists the hazards the properties are for.

## 1. Inventory

| Component | State | Operations | Hard behaviour | Correct means |
|---|---|---|---|---|
| **Local cluster memory** `residual_cache/gpu_local_cluster_memory.py` | slot and record tables that grow and recycle, id tables, usage averages | `ingest_block` per write chunk, `router_clusters`, `observe_recall_usage` with eviction | rows of a chunk decided together; growth inside a chunk; reports about records evicted or joined meanwhile | no entry lost or held twice; all views of membership agree; an old id never denotes something new; eviction confined |
| **Locality index** `CpuLocalityIndex` in `gpu_vmf_posterior.py` | code per slot, ordered buckets | update, remove, candidates | incremental maintenance, recency order, cut at a capacity | buckets always equal the codes; a lookup returns the most recent live slots |
| **Block cluster memory** `gpu_block_cluster_memory.py` | as above, one record per block, a block table | ingest, recall, observe, K/V by id | the same block may come back after eviction | one live record per block; a held id gives its own block or fails |
| **Token memory banks** `torch_token_memory.py`, used by `gemma4_memory_adapter.py` | slot and record tensors, ages | retrieve, write in chunks, reset | a chunk assigned at once; a write that needs more entries than are free; attention that raises between retrieval and write | slot statistics are those of the records it has; the oldest goes first |
| **Hierarchical memory** `probabilistic_hierarchical_memory.py` | records, forest of slots, clock, supersession, cached statistics | write, retrieve, observe, maintain (split, merge, prune) | structural change while iterating, reads as of the past, eviction by recall | records in reach; statistics fresh; history kept; versions apart |
| **Router bridge** `cluster_router_bridge/` | hierarchical memories, payload store, a reader's selection | ingest a block, select, synchronize, pack | a block is many writes; payloads lag behind evictions | fresh selections pack, stale ones raise or match |
| **Planning** `learnable_index/planning.py` | none | blocks, retrieval points | off-by-one between plan and collector | a plan can be carried out |
| **Rolling collector** `cluster_router_experiment/streaming.py`, `gemma4.py` | window, cache start, prepared keys, layer memories | forward a chunk, hand pieces to each layer, trim | a piece written layer by layer; positions against lengths | each token in memory or local, once, under its position |
| **Block-aligned collector** `block_streaming.py`, `streaming_collection.py` | window, waiting keys, captured blocks | forward, unload whole blocks | unload bound; key and K/V of a block arrive apart | captured = the plan's candidates, whole; window within its bounds |
| **Sparse replay** `learnable_index/replay.py`, `block_probability_router/qa.py`, `output_preserving_region_router/runtime.py` and others | attached history, local cache, mask positions | select, attach, answer in three ways | cache trimmed by length, mask by position; three programs cut the same window by arithmetic of their own | a query sees each token once, none after itself |
| **Validation run** `cluster_router_validation/runner.py` | manifest, samples and errors files | collect, resume | killed anywhere, torn lines | no sample twice; status and counts true for the whole history |
| **Validation pipeline** `cluster_router_validation/hpc.py`, `metrics.py` | workspace files, persistent artifacts | initialize, collect, metrics, export, clean-up | killed anywhere, requeued, shared destination | only complete results published; nothing removed before |
| **Router pipelines** `hpc.py` of `learnable_index`, `block_probability_router`, `output_preserving_region_router`; `evaluation_hpc.py`; the trainers; the K/V block store | stage outputs, checkpoints, block files, a manifest | stages skipped on their outputs; epochs with early stopping; export and clean-up | killed anywhere, launched again on what is left | no half file is read; a complete run is of one training; it can be finished |
| **Calibrations** `memory_cluster_calibration/`, `block_memory_cluster_calibration/` | configuration, sample file, result | capture once, measure every variant, choose | a directory used again after a kill; baselines and ties | one run behind a result; the choice stands on the rows |
| **Sweeps** `memory_replay_calibration/`, `learnable_index/topn_sweep.py` | state file, sample rows | evaluate, resume, choose a threshold | killed, resumed, another evaluation in the directory | every sample counted once; thresholds nested |
| **Answer block cache** `answer_block_cache.py`, `distance_sweep.py`, `continuation_equivalence.py` | K/V caches that forwards extend in place, saved blocks, positions | generate, capture a block, replay, measure a distance | shared caches, hand-built masks, position arithmetic | branches apart; blocks hold their answers; a replay sees blocks and itself |
| **Models, losses, data preparation, analysis and benchmark tools, scripts** | none that outlives a call | | | not modelled, section 9 |

How they interact. A collector plans a retrieval point, forwards chunks through the
model with an exact local cache, and hands what leaves the window to one cluster
memory per layer through callbacks. The memory asks its locality index for
candidates, a posterior chooses among them and a new cluster, and the chosen
cluster's code moves in the index. A session later ranks the memory's clusters,
replays some of them, and reports per-record usage, which may evict. The validation
run drives one such session per sample and streams a row per sample to disk; its
pipeline runs it, then the metrics, then exports. The router pipelines collect
datasets with the block-aligned collector, train a router on them, evaluate it by
sparse replay and export. The bridge puts the hierarchical memory behind a router
index. Everything runs in one thread of one process; the concurrency that matters
is between a reader's old knowledge and the memory's later state, and between a job
and the job that was killed before it.

## 2. Plan

In order of importance; done but for what the last step lists as left.

1. `CpuLocality`, `ClusterMemory`, `ClusterSession`, abstract `ClusterStore`.
2. `LocalityBuckets`, the dictionaries beneath `CpuLocality`.
3. `ClusterProofs`, before the other memory is modelled.
4. `BlockMemory`, implementing `ClusterStore` as well.
5. `MechanicalBlocks`, abstract `ContextStream`, `RollingContext`,
   `BlockAlignedContext` implementing it.
6. `HierarchicalMemory`.
7. `ValidationRun` and `ValidationPipeline`, which composes it with crashes and jobs.
8. `RouterBridge`: `HierarchicalMemory` with the payload store.
9. `TokenMemory`, `BankOrder`: chunked assignment under pressure.
10. `RouterPipelines`: four pipelines, three trainers, the block store, under kills.
11. `SparseReplay`: which tokens a replay sees, on what the collectors left.
12. `Calibration`, `ReplaySweeps`, `AnswerBlocks`.
13. Theorems. Proved: both cluster memories with the cluster store they implement
    (`ClusterProofs`, `BlockProofs`), the validation directory and its jobs
    (`ValidationProofs`), both context collectors with the stream they implement
    (`ContextProofs`), the hierarchical memory and the router bridge on it
    (`HierarchyProofs`), the router pipelines and the sweeps (`PipelineProofs`), the
    cluster calibrations (`ClusterProofs`), the token banks (`BlockProofs`), what
    the evaluations' answers see and select (`ContextProofs`), the answer blocks
    (`AnswerProofs`). Left: that `LocalityBuckets` implements `CpuLocality`.

## 3. Modules and code

| Module | Extends | Models |
|---|---|---|
| `CpuLocality` | | the locality index as a set: a code per slot and the recency order inside a bucket; used by both memories |
| `LocalityBuckets` | | the dictionaries and lists of `CpuLocalityIndex` themselves; refines `CpuLocality` |
| `ClusterMemory` | `CpuLocality` | `GpuLocalClusterMemory` |
| `ClusterSession` | `ClusterMemory` | a reader of one layer's memory: recall, later observation |
| `ClusterStore` | | abstract: ids to disjoint record sets |
| `BlockMemory` | `CpuLocality` | the block memory and its reader |
| `BankOrder`, `TokenMemory` | | the two token banks behind `Gemma4MemoryController` |
| `MechanicalBlocks` | | `mechanical_blocks`, `build_retrieval_plans` as operators |
| `ContextStream` | | abstract: tokens through a window into memory |
| `RollingContext` | `MechanicalBlocks` | `RollingContextCollector.collect` with the session's callbacks |
| `BlockAlignedContext` | `MechanicalBlocks` | `BlockAlignedRollingContextCollector.collect` with the callbacks of `collect_streaming_student_state` |
| `SparseReplay` | `MechanicalBlocks` | every condition the evaluations run for a sample |
| `HierarchicalMemory` | | `ProbabilisticHierarchicalMemory` |
| `RouterBridge` | `HierarchicalMemory` | `BlockMemoryIngestor`, `KVPayloadStore`, `LayerKVCacheBuilder` |
| `ValidationRun` | | `collect_validation_states` |
| `ValidationPipeline` | `ValidationRun` | `ClusterRouterHPCPipeline.run` and `evaluate_validation_states` |
| `RouterPipelines` | | the four `HPCPipeline` classes, `fit_router` of three trainers, `KVBlockStore` |
| `Calibration` | | `run_calibration` of both cluster calibrations and their metrics |
| `ReplaySweeps` | | `memory_replay_calibration.run_calibration`, `evaluate_topn_sweep` |
| `AnswerBlocks` | | `run_answer_block_experiment`, the replay-only run, one condition of the distance sweep |
| `MemoryLemmas` | `CpuLocality` | lemmas both memories use: orders under update and removal, stacks without repetition |
| `ClusterProofs` | `ClusterSession`, `Calibration` | theorems about the local cluster memory: types, tables and recalls; routing, evictions and the store; and about the cluster calibrations |
| `BlockProofs` | `BlockMemory`, `TokenMemory` | theorems about the block memory: tables, held ids, the store; and about the token banks |
| `HierarchyProofs` | `RouterBridge` | theorems about the hierarchical memory and about the bridge on it |
| `ContextProofs` | `MCContextCollectors` | theorems about both collectors on one plan and the evaluations after them |
| `ValidationProofs` | `ValidationPipeline` | theorems about state directories and jobs |
| `PipelineProofs` | `RouterPipelines`, `ReplaySweeps` | theorems about the four router pipelines and the sweeps, under kills |
| `AnswerProofs` | `AnswerBlocks` | theorems about the answer-block program, its replays and the distance sweep |
| `MC*` | | constants for TLC, and the composition of components a run checks together |

**Cluster memory.** Variables carry the code's fields: `slotRecords` is
`_slot_records`, `freeSlots` the stack `_free_slots`, `recordIndex` is
`_record_id_to_index`, and so on (the declarations name each). `record_active` is
`recordSlot /= NoSlot`, because the code assigns the two together. An id string
`slot-<s>-g<g>` is the pair `<<s, g>>`. `ingest_block` over a write chunk is three
actions, since the properties are about what may happen to one row because of
another: `BeginChunk` scores every row against the state before the chunk and
reserves record indices, `AllocateSlot` opens one cluster (growing the tables when
the free stack is empty), `CommitChunk` enters all rows. No other operation is
interleaved (`Idle`), as in the code. `ObserveRecallUsage` is one action: which
clusters are covered, the averages, the eviction order with its floor, the removal
from every table. The posterior is a free choice among the candidates and a new
cluster; a usage rate is a small number and the exponential average is taken in
exact integer arithmetic.

**Locality.** `CpuLocality` keeps an order instead of lists so that the memories stay
small and provable; `LocalityBuckets` has the lists and shows that updating slots
one after the other is what `CpuLocality` says at once.

**Block memory.** One action per call: a block is one record. `held` is what a
reader holds: record ids and the blocks it was handed with them.

**Token banks.** A window is retrieved for, attended (which may raise: the window is
then never written) and written. A Camelot bank consolidates familiar tokens and
places novel ones turn by turn; a record bank enters a chunk at once. Resultants are
sets of tokens, so that what was added and not subtracted can be compared with what a
slot has. Which slots are most similar is any choice. A record bank takes what it touched
in this write by age too; a Camelot bank sorts by age only what this write has left alone
and takes the slots it consolidated into by index (`CamelotBefore`). The pending
assignment (a cache keyed by data pointer) is left out: `attend` always writes the keys it has just
retrieved for. Layers share no state. The stable sorts of the allocation are one
comparison (`Before`, `CamelotBefore`), and `Sorted` puts an entry at the place that
as many others come before it as the place says: a definition the provers can unfold.

**Collectors.** A chunk is at most one block. `Forward` runs the model, prepares the
key of a completed block and hides the query's blocks; in `RollingContext` the exit
callback is `WriteLayer`, one action per layer, and `Trim` moves the cache. The
assertions of the code become `stage = "error"`, so that "no assertion can fail" is
part of `PlanIsServed` and `BothFinish`. Tokens are their positions; a cache is the
sequence of tokens in it, against which positions are checked.

**Sparse replay.** For each evaluation a programme of conditions; a condition chooses
a history, attaches it, and answers with all queries at once, one at a time over a
cache trimmed before each, or generating over a window that sheds blocks. `views`
records what each query attends to: the entries of the packed history and of the local
cache, each with the token it holds. The order of entries is left out, since attention
sums over them. Probabilities of router and teacher are free multiples of a unit, at
most `Parts` for each candidate, and a mass is counted unit by unit; clusters stand for tokens of residues modulo the block size; soft
gates weaken a block but never hide one. Installing and removing adapters, and the
condition that only sees the evidence text, are left out. Sliding layers use the
local-plus-block mask as all layers do.

**Hierarchical memory and bridge.** `write`, `retrieve`, `observe_recall_usage` are
one action each. A query whose dimension differs raises behind the refresh
(`RetrieveFails`): a read as of the past then leaves the statistics of the past, and
`leftInPast` says so until something refreshes them. Observations that wait for a split
are counted up to `Patience`. `maintain` is a loop whose iterations depend on each
other: `phase` and `todo` hold where it is. A leaf's cached statistics are the set of members they
were computed over (`basis`, `routed`). Which leaves split or merge is any choice the
cooldowns, patience and supersession checks allow. In the bridge a block is written
record by record; `FailBlock` leaves the records before. `held` is a selection a
reader keeps with the payloads it named; packing it late is judged by `Packs`.

**Validation.** A file is the sequence of its lines, a line the sequence of texts
written on it, `ended` whether the last is terminated; a kill inside a write leaves
any prefix of the row (`whole` when only the terminator is missing). A manifest is
replaced atomically. The pipeline's `stage` is where `run` is; a kill leaves every
file as it is. A requeued job has the workspace of its predecessor, a new job an
empty one. `rmtree` removes file by file. `DirectorySpec` has a directory that jobs work
on, or collections started by hand.

**Router pipelines.** `disk` maps a file to its content and whether it is whole;
`todo` holds the stages left, `write` the file operations of the command that runs,
in the order the program has them. A stage is skipped, raises or runs by what
`Inspect*` finds. A kill may fall before any operation, so a file opened and not
closed stays torn. The trainers keep best loss and stale epochs; a checkpoint is
written per improvement. Plans, sequences and samples of a dataset are one file; two
splits stand for three; all stages are enabled;
losses are comparable numbers (with NaN the first epoch improves on nothing, and the
checkpoint of a killed launch would stay). A job that failed is not launched again.
The workspace is cleared by `rmtree`, file by file, which nobody sees unless it is killed
in between: `Kill` then leaves any of the sets `Remnants` of it, and `remains` says that a
launch found such a workspace. A new job has a workspace of its own; one requeued onto
the remains is excluded from the two safety properties, see section 7.

**Calibration.** A sample's records, their labels and a target; an evaluation of a
variant is any grouping the instance offers, measured by the program's own formulas
in multiples of `1/Unit`. The selection is `_select_variant` of either program. The
cluster program writes its configuration before it checks the grid's size, the block
program checks first. `metrics.json` of an earlier launch stays beside the emptied
sample file until the new result replaces it. B-cubed F1 is a sum of floats over the
records, so shuffled labels may change its last place, and it is compared by a strict `>`: where the
exact scores are equal, `Rounding` lets either come out one unit larger. Groups that say
nothing of the facts can therefore be above every shuffle, and only a minimum gain above
the rounding keeps them from being chosen.

**Sweeps.** One module for two programs that write a row per sample: the threshold
calibration starts its file anew, the budget sweep reads it back and goes on behind
it if `sweep_state.json` says the same. The state names checkpoint, settings and samples
(`StateOf`), not the directory of the collection: rows of another collection whose
samples have the same names are taken over. A row's losses are one number for
all criteria. The state file names a checkpoint by path and epoch only; two
checkpoints written under one path and epoch are one to it, and to the model. A
sample that raises is a kill.

**Answer blocks.** A cache is an object with a name and a sequence of keys, a key a
token, its position and the branch it was computed in; `Prefill` and `GenerateToken`
extend it in place, `CloneCache` copies it. The greedy model is external: a row gives
its answers, a replay may answer any of a set. `FACT:` is one token, a key stands for
all layers, one of which has a sliding window, and the prompt's suffix is one token.
The distance sweep prefills the history again and, without a gap, compares caches
against a continuous run: keys, positions and the masks of the prompt, which for a
sliding layer have a column for each key it still has (`MasksExact`); `Window` is the
number it keeps, one less than `sliding_window`. Behind a longer history the shapes
differ and the condition is refused. Whether numbers agree is free. Position
extrapolation is off;
a directory is used with one configuration.

## 4. Runs

Each run takes from a few seconds to about three minutes with two workers.
`CHECK_DEADLOCK FALSE` is set throughout: the bounds end every behaviour of the
memories, a collector stops when it is done, a job may be the last. A run that checks
several components composes them so that either one works at a time, the others as
created, or one works on what the one before it left (the collectors).

| Run (cfg) | Shows | Bounds and why they suffice |
|---|---|---|
| `cluster_session` (`ClusterSession`) | types, tables, routing, recalls and the refinement of `ClusterStore` | 3 records, chunks of 2, one slot and two record entries at first: both tables grow, both stacks recycle, an evicted slot is reopened while its old id is held. Codes 0 and 1 with one candidate, so lookups miss live clusters |
| `cluster_routing` (`ClusterRouting`) | eviction confined to what may go, cluster mates observed together; the index's dictionaries implement `CpuLocality`; a calibration ends with one run and chooses by its rows | floor 1, two observations before eviction: an eviction needs recall, ingestion and two reports. Dictionaries: 3 slots, all codes of 2 bits, capacity 2, so that the cut falls inside a bucket and between buckets. Calibration: 2 to 4 records; 2 layers, 2 samples and 2 or 3 variants, for blocks also together; overlapping, uneven and even facts, 2 launches; ties rounded either way |
| `block_memory` (`BlockMemory`) | tables and held ids, refinement of `ClusterStore`; slot statistics and order of the token banks | 3 block ids, 4 ingestions: an evicted block comes back while its first record id is held. Banks: 2 slots, 4 records, chunks of 2, windows of 1 and 3: a window is larger than the slots and spans chunks |
| `context_collectors` (`ContextCollectors`) | rolling pass, block-aligned pass and evaluations on one plan: history served once, blocks accounted for, the passes agree, answers see what they should, all end; both implement `ContextStream` | window of 2 blocks of 3, 24 tokens, every retrieval point, answers of 5: the window fills, wraps, sheds a block while answering, and ends inside, at and after a block |
| `hierarchical_memory` (`HierarchicalMemory`) | alone: records in reach, history, versions apart. Behind the bridge: selections, payloads, eviction. Answer blocks: branches, blocks, masks, checks, distances | alone 3 records, 6 slots, two times: split, merge, collapse of a parent with a grandparent, reads as of the past, also such as raise half way. Bridge: a block of two records handed in twice, 3 records in all: a write fails between them, a record is evicted and synchronised before another comes. Answer blocks: 2 or 3 rows that stop at the limit, at `eos`, at `eot`, with and without a FACT line; blocks of 2, window of 2, histories up to and past it, 2 launches |
| `validation` (`Validation`) | by hand: no sample twice, a clean "complete". In jobs: only whole datasets published, rows accounted for | 4 launches of up to 3 samples; configurations that stop at a failure, go on, are cut, repeat an id |
| `router_pipelines` (`RouterPipelines`) | commands read whole files, a complete run is of one training, a killed one finishes; sweeps count each sample once, thresholds are nested, sweeps end | all kinds, with and without workspace and ephemeral inputs; 2 kills, 3 epochs, 2 losses: improvement, stagnation and early stop occur on both sides of a kill. A kill within the clearing leaves markers without data, evaluations without their training, or a summary without its checkpoint. Sweeps: 2 or 3 samples, 2 kills, one launch of another evaluation, which may differ in the collection alone |
| `validation_resume`, `validation_truncated`, `evaluation_answers`, `calibration_limit`, `gap_zero` | expected violations, see section 7 | |

Bounds named in the modules: `MaxSerial`, `MaxRecalls`, `MaxWindows` (memories),
`MaxRecords`, `MaxSlots`, `MaxTime`, `MaxBegins` (hierarchy, bridge), `Tokens`
(collectors), `Parts`, `Whole` (replay), `MaxLaunches`, `MaxKills`, `MaxStrangers`, `MaxStarts`,
`Remnants` (programs). None of them is in the code; they only end behaviours.

Every property has a mutant: a definition of the model changed the way a plausible
bug would change the code, under which the same run finds the property violated.

## 5. Fairness

`context_collectors` assumes weak fairness of its next-state relation: each pass is
one loop of one thread that waits for nothing, so a step it can take it takes.
`RouterPipelines` assumes `WF` of `Step`, which is everything but a kill: a command
runs on unless it is killed, and a job that was killed is submitted again. Kills are
bounded by `MaxKills`; no fairness is assumed of them. `ReplaySweeps` assumes the
same of `Progress`. Liveness there is conditional (`ResumedEnds`): a pipeline
finishes if no kill fell within a command's file operations, a sweep unless a kill
tore a line or another evaluation took its directory; the code promises no more, and
with torn files it does raise for ever. The memories and the answer blocks promise
nothing about when they are called and assume no fairness; nor does the validation
collection, whose resumption need not ever succeed (first finding).

## 6. Proofs

Every theorem holds for all values of the constants that satisfy the named
assumptions, of which the bounds of the runs are no part. Each safety proof has the
same shape: an inductive invariant that TLC checked first, one lemma per action and
conjunct it can disturb, the initial states, stuttering, one temporal step; the
properties follow from the invariant, or from it and one step.

### The local cluster memory

From `ConfigAssumption` and the assumption of `CpuLocality`: any number of codes, any
chunk size, any capacities, no bound on the tables.

| Theorem | Says |
|---|---|
| `TypeCorrect` | `Spec => []TypeOK` |
| `MemoryConsistent` | `Spec => []TablesConsistent`: no slot and no record index is lost or has two holders, rows of a chunk never share an opened slot, the three views of membership agree, through growth, eviction and recycling |
| `RecallStaysValid` | `Spec => []RecallNeverMisattributed`: what a summary says of records and clusters that still exist is true, and a cluster opened in a slot that lost all its records has an id no reader holds |
| `RoutingAlwaysConsistent` | `Spec => []RoutingConsistent`: counters equal what they count; exactly the live slots are indexed, in the order of their last entry |
| `UsageCoversClusters` | `Spec => []ClusterMatesObservedTogether` |
| `EvictionsAreConfined` | `Spec => EvictionConfined`, an action property |
| `MemoryImplementsStore` | `Spec => ImplementsClusterStore`, a refinement |

They rest on `Invariance` (`IInv`) and `FullInvariance` (`FullInv`).

`IInv` is `MemoryInv /\ SessionInv /\ EmptiedInv`. `MemoryInv` collects the partition of slots and
of record indices, the protection of a chunk's slots, the agreement of memberships
and `IndexedIffLive`. The parts need each other: that a free slot really is free
needs the partition of slots; that a reserved index is free needs that of records;
that a row's slot is alive at the commit needs `ChunkSlotsProtected`, which holds
because candidates come from the index and only live slots are indexed; and entering
a row keeps membership only because its index was active nowhere. `SessionInv` adds
to the property two facts it is not inductive without: the generation in a live
slot's id is the slot's current one, and a recalled id's generation is never ahead of
it. So reopening a slot makes an id no reader can hold, which is what `EmptiedInv` says of
the slots that were emptied since the recall (`emptied`, a history variable).

`FullInv` is `IInv` with four more parts. `CountsInv`: `slotCount` is a cardinality,
the flags agree with the ids, and a live cluster without records is one the chunk in
progress has yet to fill, so that between two chunks the live clusters are those of
the store. `BucketsOrdered`: an order without repetition,
so that moving a slot to the end of its bucket moves it past all others. `UsageInv`:
an inactive index has no observations left, so the next holder inherits none.
`GenerationInv`: a row that chose a cluster has that cluster as its slot, the chunk
fits what is left of the ids, and no generation is ahead of the writes.

The refinement maps a cluster to its id, the pair of slot and generation, and the ids
used up to the generations given out. A cluster that a chunk has opened and not yet
filled is not in the store: `BeginChunk` and `AllocateSlot` are stutters, and
`CommitChunk` is the store's ingestion, where the opened clusters appear with their
records at once. `ObserveRecallUsage` is the store's eviction; a cluster that is
emptied loses its id for good, because the slot's next generation is another id.

### The block memory

`BlockInvariance`, `BlocksAlwaysFound` (`Spec => []BlocksFoundByTheirIds`) and
`BlockMemoryImplementsStore` (`Spec => ImplementsClusterStore`), from the same kind of
assumptions. Its `IInv` is `TablesConsistent` and `HeldIdsNameTheirBlocks` with three
facts they lean on: an entry of the record table names an active record that carries
that very id (`IdsNameBlocks`: an index that is recycled has lost its old entry),
nothing above the high-water mark is in use (`UnusedAreInactive`: what growth hands
out is free), and a live cluster has the last generation of its slot
(`GenerationInv`, as above). `MemoryLemmas` has what the two memories' proofs share.

### The token banks

From `TokenMemoryAssumption` (positive capacities, chunk size and window sizes), with
no bound on the windows that matters to the argument:

| Theorem | Says |
|---|---|
| `BankHolds` | `BankSpec => []BankInv` |
| `BankSlotsSumWhatIsKept` | `BankSpec => []SlotsSumWhatIsKept`: the slots of the record bank are active, counted and directed as the records they route to, so retrieval always finds one; a write loses a token it brings only when it has gone through all slots or all records |
| `BankOldestIsTaken` | `BankSpec => LeastRecentlyUsedGoesFirst`, an action property: of what this write has left alone, both banks take the older first |

The run checks both properties on `EitherSpec`, whose steps are those of `BankSpec` or
leave the bank alone. `SumsInv` is not inductive alone: subtracting the tokens of the
overwritten records is right only because no two active records have one token
(`RecordsInv`), which holds because the waiting tokens are of this window, each once
(`NextInv`), and no record has one of them. That a chunk fits the tables is `RoomInv`;
with it the tokens that ask for a slot of their own are given the first slots of the
allocation order (`SelectedFacts`: the ranks of `cumsum` are one-to-one and leave no
gap), so the slots given away are a prefix of that order. `ChunkSlots` says what one
chunk does to one slot: cleared, less, more, refreshed; `SlotAfterSums` adds that up
to the new sum. `KeptInv` is why nothing of this window is lost early: a slot or
record the write has touched comes after all it has not, so when one is taken, the
write has gone through everything. `CamelotInv` ties ages to writes: of two slots
this write has not touched, the one of the higher age was written no later. Of those it
has touched nothing is said, as a Camelot bank takes them by index. All of it
rests on `SortedEnumerates`: a sort by rank has every element once and in order,
because the ranks are an injection into as many places as there are elements.

### The context collectors and the evaluations

From `BlocksAssumption`, `RollingAssumption` and `CollectorsAssumption`: any horizon,
block size, local context, chunk sizes, number of layers, limits and tolerance the code
accepts, and any plan the planner makes of them.

| Theorem | Says |
|---|---|
| `CollectorsInvariance` | `BothSpec => []BothInv` |
| `RollingAlwaysServesPlan` | `BothSpec => []RollingServesPlan`: every token forwarded once over all before it, every candidate block handed over whole at its layer |
| `BlocksAlwaysAccounted` | `BothSpec => []BlocksAccounted`: the window, the captured and the waiting blocks of the block-aligned collector are the tokens so far, and its window keeps its bounds |
| `CollectorsAlwaysAgree` | `BothSpec => []CollectorsAgree`: the same keys for every candidate, and the window of the evaluations' cut |
| `CollectorsImplementStream` | `BothSpec => BothImplementStream`, two refinements |
| `EvaluationInvariance` | `BothSpec => []EvaluationInv` |
| `AnswersAlwaysSeeTheirHistory` | `BothSpec => []AnswersSeeTheirHistory`: in every condition a query sees each token once, none after itself, its whole local context, and with all history attached misses one short stretch at most |
| `SelectionAlwaysMinimal` | `BothSpec => []SelectionMinimal`: an unlimited selection retains the mass asked for, and no smaller set does |

`BothInv` is three parts. `RollingInv`: every chunk but the last is whole blocks; the
window is the stretch of tokens that starts `LocalContext` before the position, or at
the first token, except between a forward pass and the trim; the ready keys are those
of all complete blocks; the layers already written hold one more piece than the
others, the one that is leaving. `AlignedInv`: the window starts on a boundary, has
at least `LocalContext` tokens once something has left it and never more than
`LocalContext` and a block; ready keys, summaries and captured blocks are functions of
the plan, the position and that start alone. Stating the state as a function of so
little is what makes the two collectors comparable at the end:
`CollectorsAgree` follows from both parts when both are done. `InTurn` says that the
second collector has not begun before the first has ended, so that it reads a plan and
a memory that no longer change.

What the provers cannot do with division is in the lemmas at the head of the module,
which `Boundaries` sums up: boundaries are at least a block apart, sums of boundaries
are boundaries, and every token lies in the block that starts at or before it. No
later step does arithmetic with `%`. In the refinements a chunk's forward pass is the
stream's; the last layer's write hands tokens over and the trimming drops them, the
other layers' writes are stutters; the block-aligned collector's unloading does both
at once.

`EvaluationInv` adds `ReplayInv` to `BothInv`. Before the first condition nothing has
been chosen (`FreshFits`); from then on (`BegunFits`) both collectors are done, so that
what an evaluation reads is what `Collected` and `DenseCandidates` say in terms of the
plan: memory holds the tokens up to the local context, the two windows are stretches
that end at the retrieval point, and the candidates have no gap. `LeftFits` keeps the
conditions that are left the last ones of the programme, from which follows that only
evaluations over records attach records. `WindowFits` says that the window is a stretch
of tokens and where it starts: at a place the condition and the number of answered
queries determine, except under generation, where it is some boundary that leaves at
least `LocalContext` and less than `LocalContext + BlockSize` tokens. That is why
shedding by cache length and by block size remove the same entries, which neither
line of the code says. `ViewFits` is what the property needs of each view: the history
holds exactly what is attached, and the local part is a stretch up to the query. All
that is attached ends before the window begins (`AttachedWithin`), and all candidates
together cover what lies between the first of them and the last boundary
(`CandidatesCover`).

`SelectionMinimal` needs of the invariant only that a selection was made from the
scores it is kept with. The rest is about one ranking: the ranks before which the mass
is not reached are the first `m` (`RetainedIsPrefix`), and no `m - 1` candidates have
more mass than the first `m - 1` (`MostMass`). For the latter the two sets are compared
outside of what they share: every unit count on one side is at most, on the other at
least, the smallest of the ranked side, and products of that number with the sizes
bound both masses.

### The hierarchical memory and the bridge

From `HierarchyAssumption` and `BridgeAssumption`: any groups and blocks, any protection,
patience, cooldowns and floors, any bounds, hence forests of any depth.

| Theorem | Says |
|---|---|
| `HierarchyHolds` | `Spec => []HierarchyInv` |
| `InReach` | `Spec => []RecordsInReach`: links agree both ways, leaves partition the records, every record can be descended to from a root of its group; statistics are those of the members, unless a read of the past raised and nothing was refreshed since |
| `PastIsKept` | `Spec => []HistoryIsKept`: a read as of the past shows every retained record that was current then, whatever has replaced it or was evicted since; a read as of now hides what a successor still stored replaces. The run's `HistoryKept` is this and `RecordsInReach` of its instance |
| `EvictionIsConfined`, `VersionsAreApart` | `Spec => EvictionConfined`, `Spec => VersionsStayApart`, two action properties; the run's `VersionsApart` is the second |
| `BridgeIsAMemory` | `BridgeSpec => Spec`, so all of the above holds behind the bridge (`InReachBehindBridge`, `EvictionIsConfinedBehindBridge`) |
| `BridgeHolds` | `BridgeSpec => []BridgeInv` |
| `FreshSelectionsPack`, `StaleSelectionsRaiseOrMatch` | `BridgeSpec => []FreshSelectionPacks`, `BridgeSpec => []StaleSelectionRaisesOrMatches` |
| `PayloadsAlwaysFollow` | `BridgeSpec => PayloadsFollowMemory`, an action property |

`HierarchyInv` says of the forest that a child names its parent and the parent that
child, in one group, and that **a child's id is greater than its parent's**
(`Linked`); of the records, that each is in exactly one leaf, of its own group
(`Placed`); that no leaf is empty (`NoneEmpty`), as no parent is childless; of
statistics, that each leaf's are those of its members unless `leftInPast` (`Fresh`); of the past, that
a record whose successor is still stored was seen to be replaced when that successor
was written (`HistoryLinked`). The order of ids is what no run checks by itself: it
makes the links a forest without speaking of paths, and the step it is in danger at
is the collapse, where the merged leaf takes the parent's old id below the
grandparent. It holds there because the id it takes is that of the slot it replaces.

`EveryRecordRoutable` speaks of `Descend`, which follows children from the roots of a
group for as many rounds as there are parents. The proof has two halves. The sets of
successive rounds grow, and a round that adds no parent is followed by none that adds
anything, so by counting parents the last one is closed under children
(`DescendReaches`). A slot of the group outside it would have a least one, whose parent
has a smaller id and is therefore inside (`EverySlotReached`). Both need induction only
over a set of numbers, which is in reach because the library's well-founded minimum
takes a set and not an operator.
The split replaces a leaf by two whose ids are new; pruning removes a node only when
nothing is below it; a merge is checked for supersession both ways, which is what
`VersionsStayApart` needs. A read as of the past that returns leaves the statistics fresh because it
computes them again for the present; one that raises sets `leftInPast`, and every
write, read, observation and start of maintenance refreshes and clears it.

`BridgeInv` adds to `HierarchyInv` that every stored record has a payload (also between the
records of a block, and after a failure), that the payload is a part of the record's own
block, that no payload or held id is ahead of the counter (so that the next id is new, and an
id held since a selection still means what it meant), and that two records have the same payload
only if their block was handed in twice. The last is why `FreshSelectionPacks` speaks of blocks
begun once: `Packs` is false of equal positions.

### The validation directory

From `ConfigsAssumption` and `PipelineAssumption`: any datasets, configurations,
artifact names, any number of launches and kills, incomplete state allowed or not.

| Theorem | Says |
|---|---|
| `DirectoryInvariance` | `DirectorySpec => []DirectoryInv` |
| `CollectionsTellTheTruth` | `DirectorySpec => []CollectedOnceAndWhole` |
| `OnlyWholeDatasetsPublished` | `DirectorySpec => []PublishedCoversDataset` |
| `RowsAlwaysAccountedFor` | `DirectorySpec => RowsAccountedFor`, two action properties |

`DirectoryInv` has five parts. `RunInv` is about a collection on its own. While it
works (`WorkInv`), every row is whole, `completed` is the set of rows and
`completed_count` its size, the error lines are at most `error_count`, and each
sample it has passed was recorded unless an error was counted; that is why a final
status "complete" means what it says. A collection that finds a torn row raises before
it writes, so `EachSampleOnce` needs no more than that a sample about to be written
has no row. `IdentityInv` ties the rows to the manifest's configuration, so that no
row of another dataset is among them.
`CollectedInv`: between the end of its collection and the clean-up, a job's directory
is that of its own configuration, and complete if the manifest says so. `ProgressInv`
says how far the loops over the artifacts are: all computed before the first is
copied, all published before the first file is removed. `Covers` says of each
artifact, in the workspace and in the destination, that it is about its whole
dataset; it has to be said of both, because a requeued job publishes what its
predecessor computed. The last part is the truth of "complete" where collections
alone write.

Checking `DirectoryInv` before the proof showed that `RowsOutlivedByMetrics` does not
hold where incomplete state is allowed, which the runs do not set: a job is killed
when its metrics are written, its successor collects a sample that failed before and
skips the metrics, since they exist; what is published lacks that sample when its row
is removed. The property excludes that case and says so.

### The router pipelines

From `PipelinesAssumption`: any two or more distinct splits, any finite set of blocks,
any configurations of the four kinds, any number of epochs, any patience, any losses
with a greatest one, any number of kills.

| Theorem | Says |
|---|---|
| `PipelineHolds` | `Spec => []PipelineInv` |
| `ReadsAreWhole` | `Spec => []CommandsReadWholeFiles`: a command that is started finds each file it reads, and whole, unless its workspace is what a kill within the clearing left |
| `CompletesAsOneRun` | `Spec => []CompleteIsOfOneRun`: behind a completed training pipeline, checkpoint, rows, summary and evaluations are of one training, with the same exception |

A launch sees nothing but files, so the invariant says what each file tells it.
What it says of their contents is `SoundInv`, and `PipelineInv` has `~remains =>
SoundInv`: a kill within the clearing ends it, a launch with a workspace of its own
begins it again, as an empty workspace is sound whatever an earlier launch has left at
home (`FreshStarts`). `TodoInv`: every stage has a place among all stages a launch of its kind may have
(`Rank`), the stages of a launch ascend, and what is left are those from the next
one on; so being past a stage is a comparison of numbers, whatever the splits.
`WriteInv`: an opening is followed by the writing of the same file, and only the
clean-up removes. `PairsInv` is about markers: a file by whose presence a stage is
skipped (an input's manifest, a collection's manifest, a block's entry) is there only
behind the whole file it stands for. It needs the order of the operations still
waiting, and it allows that an input is removed before its marker.
`ProgressInv`: what the stages passed have left is whole, or will be when the command
that runs has ended. `TornInv`: only a kill within a command leaves a torn file.

The rest is about one training. `ResultsInv`: a result exists only beside a whole
checkpoint whose row is in the metrics and is the best of its run; so it is the
training stage, which starts only where no result is, that may replace a checkpoint.
`RowsInv`: rows of this launch are those of the trainer that runs or has run in it.
`FitInv`: the best loss in memory is that of the checkpoint, but while it is being
saved; and it bounds the losses of all rows of the launch. `ExportInv`: after the
export every artifact at home is the one in the workspace, or its rename is still to
come, and the workspace is cleared only after the last. `FitInv` and `ResultsInv`
lean on each other across launches: a killed training leaves a checkpoint without
a summary, and the next launch trains anew and writes over it.

### The sweeps and the calibrations

From `SweepAssumption` and `CalibrationAssumption`: any data sets, criteria, losses,
variants, groupings and targets, any number of launches and kills.

| Theorem | Says |
|---|---|
| `SweepHolds` | `SweepSpec => []SweepInv` |
| `SamplesCountedOnce` | `SweepSpec => []SummaryCountsEachOnce`: a summary counts each sample once, by rows of its own launch or, for a budget sweep, of launches with its checkpoint, settings and samples |
| `ThresholdsNest` | `SweepSpec => []ThresholdsAreNested`: what a threshold retains every lower one retains, in every sample; no cluster has less than its floor left unless it has all it had; and the threshold accepted retains on average no more than any acceptable one |
| `CalibrationHolds` | `CalibrationSpec => []CalibrationInv` |
| `EndedLeavesOneRun` | `CalibrationSpec => []EndedIsOneRun`: the files of a calibration that has ended are those of one run |

`SweepInv`: the rows in memory are the samples so far in their order (`DoneInv`), a
row compares the plans of one replay (`MeasuredInv`), a line is torn or a row of an
evaluation with the state in `sweep_state.json` (`DirectoryInv`), and a summary is of such
rows (`SummaryInv`). Rows read back and rows just measured are the same sequence, so
it is the state file that has to keep another checkpoint's rows out. For the floor,
each record taken has a number of its own, that of the eligible ones before it, below
what the cluster has above the floor; the map is one-to-one, so no more are taken. That the accepted
threshold retains least compares two averages, which are folds over a finite set: the
module shows, counting elements with the well-founded minimum, that the function which
adds them one by one exists (`SumsExist`), that the averages are therefore numbers, and
that there is a least one among them (`CheapestExists`).

`CalibrationInv`: the loop over variants, layers and samples is where its counters
are (`CountersInv`), the file holds the rows due by then, each once
(`FileInv`), memory agrees with it line by line (`MemoryOfRowsInv`), and a result that
was written is the one computed from them (`ResultInv`). `metrics.json` of an earlier
launch may stay beside an emptied file, which is why the theorem speaks of ended ones.

### The answer blocks

From `AnswerAssumption`: any corpora whose rows have prompts and answers at least as
long as the limits, any answers to replays, any block size, limits and number of
blocks recalled, any window of at least a block, any conditions, any number of
launches and kills.

| Theorem | Says |
|---|---|
| `AnswersHold` | `AnswerSpec => []AnswerInv` |
| `BlocksAlwaysAreTheAnswers` | `AnswerSpec => []BlocksAreTheAnswers`: the branches of a row stay apart, and a saved block holds the first keys of its row's answer |
| `ReplayIsExact` | `AnswerSpec => []ReplaySeesBlocksAndItself`: a replayed token sees all of the blocks and its own branch up to itself |
| `ChecksHold` | `AnswerSpec => []ChecksNeverFail`: no check the program makes of its own positions, lengths and cuts ever raises; a condition without a gap is refused only behind a history longer than the window, for its masks |
| `DistanceIsRight` | `AnswerSpec => []DistanceIsBetweenBodies`: the reported distance is that between the bodies, across one jump of positions |

The corpus alone determines where an answer ends (`Taken`), where the history of each
row starts (`PlacesOf`) and hence each row's block (`BlockOf`). `FilesGood` says that
every block on disk is that block and every saved row that row, whichever launch wrote
it: a repeated run writes over an earlier one's files what was there, so a kill
between the blocks and the index leaves nothing that a replay could misread.
`PlaceGood` says for each place of the program what the history, the copy and the
call hold; the branch that looks for the index works on the copy, which is why
the main branch goes on from what the row started with.

Every call is described by `CallGood`, which a prefill establishes and each token
keeps: the tokens are a beginning of the answer with no end token inside
(`OutGood`), the cache is the prefix followed by the call's own keys at consecutive
positions (`CacheGood`), each token saw the whole prefix and its own beginning
(`SeesGood`), and a block was cut exactly when it became complete (`CaptureGood`).
`SeesGood` is where the two masks meet: the one built by hand from three lengths and
the model's causal one show a token the same keys. `CaptureGood` with `TakenIs`, by
which an answer has one end, gives the length check after the call.

For the replays the module shows that a set of chosen rows has one arrangement by
position, the one by rows (`Ordered`, `ByRows`), because places grow with rows; the
concatenation of the blocks is then known key by key. It counts upwards through sets
of numbers and their least elements, as no induction rule is available; that the
places exist at all (`PlacesAre`) is shown in this way.

## 7. Disagreements found

- `validation_resume` (`ResumeReadsCompleted`): `cluster_router_validation/README.md`
  says a resumed run skips completed samples. A collection killed inside a row leaves
  a line that does not parse, and every later resume raises while it reads the
  completed ids (`runner.py:282`).
- `validation_truncated` (`PublishedAreWhole`): the same README says the pipeline
  atomically exports its artifacts. The rename is atomic, but metrics are written in
  place and skipped when their files exist (`hpc.py:564`): killed inside the last of
  them, the requeued job exports a truncated `condition_summary.csv`, reports
  completion and removes the workspace.
- `evaluation_answers` (`CompleteIncludesAnswers`): without a temporary workspace an
  evaluation writes its combined metrics into the output root before QA adds to them
  (`evaluation_hpc.py:319`); killed in between, the next launch reports it complete
  without the QA its docstring names.
- `calibration_limit` (`StructuralLimitMeansNoSeparation`):
  `memory_cluster_calibration/README.md` says the status `possible_structural_limit`
  means that no variant separates facts. The code asks only the variant with the
  largest gain over shuffled facts (`runner.py:477`); another may pass all three
  thresholds and miss only an allocation limit.
- `gap_zero` (`GapZeroPassedTheComparison`): `src/README.md` says the gap-zero
  condition is refused unless layers and logits pass the comparison. The code refuses
  it only if tokens, positions or masks differ (`distance_sweep.py:400`); the
  numerical verdict is written to the report and the condition is measured.
- Seen in the model, without a run: the staging copy of the validation pipeline is
  made in the destination itself. Collection, metrics, `Stage`, then `KillJob`: the
  hidden file stays, and `DestinationAccepted` is false for every later job of the run.
- Seen in the model, with no document to contradict: `maximum_samples` counts the
  samples of one collection, so a resumed one exceeds it and works on under the
  status "complete" of the one before; and a requeued job under a maximum exports
  metrics older than its rows, as does one that allows incomplete state and records
  a sample that failed before. `CleanlyComplete` and `RowsOutlivedByMetrics` say so
  in their comments and leave these cases out. A sweep whose sample file was torn
  raises at every later launch, which `SweepEnds` allows.
- Seen in the model: a read as of the past whose query has another dimension raises
  between two refreshes (`probabilistic_hierarchical_memory.py:1066`) and leaves the
  leaves' statistics of the past until something refreshes them; `RecordsInReach` has
  `leftInPast` for it.
- Seen in the model: a launch killed while it clears its workspace may leave markers
  without the data they stand for, so that the same job, requeued onto what is left,
  starts training on missing files; or evaluations without the training they are of,
  which a new training then finds and exports beside its checkpoint. `remains`
  excludes both.
- Seen in the model: `sweep_state.json` does not name the collection's directory
  (`topn_sweep.py:212`), so a summary may count rows of another collection whose samples
  have the same names.
- Seen in the model: without a gap, a history longer than the sliding window is always
  refused, because the masks of the two runs differ in shape
  (`continuation_equivalence.py:320`).
- Seen in the model: each record alone can be above every shuffle of its labels, by the
  rounding of a sum, and is then chosen where no minimum gain is asked for.

## 8. What is only model-checked

The violations of section 7 are counterexamples and have no theorem. Liveness
(`BothFinish`, `ResumedEnds`) stays with TLC for good: the installed provers handle
neither fairness nor `ENABLED`. Without a theorem are

- of the calibrations, `ChosenStandsOnTheRows`: averages and gains are folds over data,
  which would need induction over each;
- that `LocalityBuckets` implements `CpuLocality`, for the same reason: a lookup
  walks lists of lists.

No module uses `RECURSIVE`.

## 9. What is not modelled

Vectors, posteriors, concentrations, softmax, losses and most metrics: numeric, and
the control depends on them only through a choice, which the models leave free. A
consequence is that nothing is said about *which* cluster is chosen. (`Calibration`
is the exception: there the metrics decide, and their formulas are modelled.)
Allocation failures end the process and are left out. In the validation modules: a
write that raises instead of being cut (a full disk), the mode without a temporary
workspace, configuration validation. In the pipelines: building of arguments and
environments, disabled stages. Networks, losses, dataset preparation and synthesis
are stateless or numeric; the benchmark and analysis tools of `residual_cache`
(`memory_benchmark`, `camelot_model_eval`, `attention_analysis`,
`prompt_free_index` and others) read inputs, run one pass and write a report; the
centroid and flat baselines at the end of `probabilistic_hierarchical_memory.py` are
yardsticks for the memory that is modelled. Hazards without a property are listed in
`PROJECT.json` with the reason.
