-------------------------- MODULE ValidationPipeline --------------------------
(***************************************************************************)
(* ClusterRouterHPCPipeline of cluster_router_validation/hpc.py with       *)
(* use_tmp_workspace and cleanup_tmp_workspace set: one allocation runs    *)
(* the collection of ValidationRun and the offline metrics over it in a    *)
(* temporary workspace, copies three metric artifacts to a persistent      *)
(* directory and removes the workspace.                                    *)
(*                                                                         *)
(* The workspace is named after the scheduler's job: a requeued job finds  *)
(* the workspace its killed predecessor left, a new job an empty one.  The *)
(* persistent directory is shared by all of them.                          *)
(***************************************************************************)
EXTENDS ValidationRun

CONSTANTS
    Artifacts,       \* EXPORTED_METRIC_ARTIFACTS, in the order of the tuple
    AllowIncomplete  \* metrics.allow_incomplete_state

ASSUME PipelineAssumption ==
    /\ Artifacts \in Seq(STRING) /\ Artifacts # <<>> /\ IsInjective(Artifacts)
    /\ AllowIncomplete \in BOOLEAN
  
VARIABLES
    stage,      \* what the allocation is doing
    marker,     \* resolved_config.json of the workspace
    computed,   \* the artifacts in the workspace
    published,  \* the artifacts in the persistent directory
    staging     \* names with a `.name.tmp-pid` file beside them there

pipelineVars == <<stage, marker, computed, published, staging>>
allVars == <<vars, pipelineVars>>

Names == Range(Artifacts)
NoArtifact == [state |-> "absent"]
None == [name \in Names |-> NoArtifact]
NoMarker == [state |-> "absent"]

\* No job is running.
Off == [at |-> "off"]

PipelineInit ==
    /\ Init
    /\ stage = Off
    /\ marker = NoMarker
    /\ computed = None
    /\ published = None
    /\ staging = {}

At(place) == stage.at = place
To(place) == stage' = [stage EXCEPT !.at = place]

-----------------------------------------------------------------------------
(* _initialize *)

\* A new job has a workspace of its own; the old one is out of reach.
FreshWorkspace ==
    /\ manifest' = NoManifest
    /\ samples' = NoFile
    /\ errors' = NoFile
    /\ computed' = None

\* A destination that holds anything but the artifacts is refused.
DestinationAccepted == staging = {}

\* The workspace's own configuration record is read, and is that of `config`.
MarkerAccepts(config) == marker.state = "whole" /\ marker.config = config

\* The configuration's checks ask for incomplete state to be allowed with errors.
Launch(config, fresh) ==
    /\ At("off")
    /\ config.continue_on_error => AllowIncomplete
    /\ launches < MaxLaunches
    /\ launches' = launches + 1
    /\ IF fresh THEN FreshWorkspace ELSE UNCHANGED <<manifest, samples, errors, computed>>
    /\ LET found == IF fresh THEN NoMarker ELSE marker
       IN IF ~DestinationAccepted
          THEN marker' = found /\ stage' = Off
          ELSE IF found.state = "absent"
          THEN /\ marker' = [state |-> "torn"]
               /\ stage' = [at |-> "marker", config |-> config, next |-> 1]
          ELSE /\ marker' = found
               /\ stage' = IF MarkerAccepts(config)
                           THEN [at |-> "collect", config |-> config, next |-> 1]
                           ELSE Off
    /\ UNCHANGED <<run, published, staging>>

\* resolved_config.json, created above, is completely written.
WriteMarker ==
    /\ At("marker")
    /\ marker' = [state |-> "whole", config |-> stage.config]
    /\ To("collect")
    /\ UNCHANGED <<vars, computed, published, staging>>

-----------------------------------------------------------------------------
(* _collect: a subprocess; the pipeline's configuration resumes by default *)

Collect ==
    /\ At("collect")
    /\ Start(stage.config, TRUE)
    /\ To("collecting")
    /\ UNCHANGED <<launches, marker, computed, published, staging>>

CollectStep ==
    /\ At("collecting")
    /\ RunStep
    /\ UNCHANGED <<launches, pipelineVars>>

\* Mutant: the subprocess's exit status is not checked.
CollectEndsUnchecked ==
    /\ At("collecting")
    /\ ~Running
    /\ run' = NoRun
    /\ To("metrics")
    /\ UNCHANGED <<manifest, samples, errors, launches, marker, computed,
                   published, staging>>

\* A collection that raised or died fails the stage, and with it the job.
CollectEnds ==
    /\ At("collecting")
    /\ ~Running
    /\ run' = NoRun
    /\ IF run.phase = "returned" THEN To("metrics") ELSE stage' = Off
    /\ UNCHANGED <<manifest, samples, errors, launches, marker, computed,
                   published, staging>>

-----------------------------------------------------------------------------
(* _metrics: skipped when every artifact is there, else a subprocess that     *)
(* loads the collected state and writes the artifacts one after the other.    *)

\* Mutant: any() for all().
AnyComputed == \E name \in Names : computed[name].state # "absent"

AllComputed == \A name \in Names : computed[name].state # "absent"

\* _load_states returns rows.
StateAccepted ==
    /\ manifest.status = "complete" \/ AllowIncomplete
    /\ Readable(samples)
    /\ samples.lines # <<>>

Metrics ==
    /\ At("metrics")
    /\ IF AllComputed THEN To("export")
       ELSE IF StateAccepted THEN To("opening")
       ELSE stage' = Off
    /\ UNCHANGED <<vars, marker, computed, published, staging>>

Current == Artifacts[stage.next]

\* On to the next artifact of a loop, or past its end.
Advanced(again, after) ==
    stage' = IF stage.next < Len(Artifacts)
             THEN [stage EXCEPT !.next = @ + 1, !.at = again]
             ELSE [stage EXCEPT !.next = 1, !.at = after]

\* Opening an artifact for writing truncates it.
OpenArtifact ==
    /\ At("opening")
    /\ computed' = [computed EXCEPT ![Current] = [state |-> "torn"]]
    /\ To("writing")
    /\ UNCHANGED <<vars, marker, published, staging>>

WriteArtifact ==
    /\ At("writing")
    /\ computed' = [computed EXCEPT ![Current] =
                       [state |-> "whole", rows |-> RowsOf(samples),
                        config |-> stage.config]]
    /\ Advanced("opening", "export")
    /\ UNCHANGED <<vars, marker, published, staging>>

-----------------------------------------------------------------------------
(* _export_metrics: each artifact is copied beside its target and renamed *)

Stage ==
    /\ At("export")
    /\ AllComputed
    /\ staging' = staging \cup {Current}
    /\ To("rename")
    /\ UNCHANGED <<vars, marker, computed, published>>

Publish ==
    /\ At("rename")
    /\ published' = [published EXCEPT ![Current] = computed[Current]]
    /\ staging' = staging \ {Current}
    /\ Advanced("export", "cleanup")
    /\ UNCHANGED <<vars, marker, computed>>

-----------------------------------------------------------------------------
(* _cleanup_workspace: rmtree, file by file in no order of its own *)

Verified == marker.state = "whole" /\ marker.config = stage.config

\* Without a marker of its own configuration nothing is removed.
BeginCleanup ==
    /\ At("cleanup")
    /\ IF Verified THEN To("removing") ELSE stage' = Off
    /\ UNCHANGED <<vars, marker, computed, published, staging>>

RemoveFile ==
    /\ At("removing")
    /\ \/ manifest # NoManifest /\ manifest' = NoManifest
          /\ UNCHANGED <<samples, errors, marker, computed>>
       \/ samples.exists /\ samples' = NoFile
          /\ UNCHANGED <<manifest, errors, marker, computed>>
       \/ errors.exists /\ errors' = NoFile
          /\ UNCHANGED <<manifest, samples, marker, computed>>
       \/ marker # NoMarker /\ marker' = NoMarker
          /\ UNCHANGED <<manifest, samples, errors, computed>>
       \/ \E name \in Names :
             /\ computed[name] # NoArtifact
             /\ computed' = [computed EXCEPT ![name] = NoArtifact]
             /\ UNCHANGED <<manifest, samples, errors, marker>>
    /\ UNCHANGED <<run, launches, stage, published, staging>>

Removed ==
    /\ At("removing")
    /\ manifest = NoManifest /\ ~samples.exists /\ ~errors.exists
    /\ marker = NoMarker /\ computed = None
    /\ stage' = Off
    /\ UNCHANGED <<vars, marker, computed, published, staging>>

\* The job is killed between two steps of the pipeline itself.
KillJob ==
    /\ ~At("off") /\ ~At("collecting")
    /\ stage' = Off
    /\ UNCHANGED <<vars, marker, computed, published, staging>>

PipelineNext ==
    \/ \E config \in Configs, fresh \in BOOLEAN : Launch(config, fresh)
    \/ WriteMarker
    \/ Collect \/ CollectStep \/ CollectEnds
    \/ Metrics \/ OpenArtifact \/ WriteArtifact
    \/ Stage \/ Publish
    \/ BeginCleanup \/ RemoveFile \/ Removed
    \/ KillJob

\* A state directory is worked on by the collections of scheduler jobs, or by
\* collections started by hand, with and without `resume`.
ByHand == [at |-> "by hand"]

DirectoryInit ==
    \/ PipelineInit
    \/ /\ Init
       /\ marker = NoMarker /\ computed = None /\ published = None /\ staging = {}
       /\ stage = ByHand

DirectoryNext ==
    \/ ~At("by hand") /\ PipelineNext
    \/ At("by hand") /\ Next /\ UNCHANGED pipelineVars

DirectorySpec == DirectoryInit /\ [][DirectoryNext]_allVars

-----------------------------------------------------------------------------
(* Properties *)

\* Unless incomplete state was allowed, whatever an artifact in the persistent
\* directory reports covers every sample of the dataset it is about: neither a
\* killed collection, nor a requeued job that finds half of a workspace, nor a
\* half-removed one gets partial results published.
PublishedCoversDataset ==
    ~AllowIncomplete =>
        \A name \in Names :
            published[name].state = "whole" /\ published[name].config.maximum = 0 =>
                published[name].rows = Range(published[name].config.dataset)

\* Unless incomplete state was allowed, collected rows leave a workspace only after
\* every artifact was published, and what is published of this configuration accounts
\* for each of those rows: the clean-up never takes results nobody has.  Three ways past
\* it are left out.  Where incomplete state is allowed a requeued job may collect a
\* sample that failed before and then skip the metrics, computed without it; under a
\* maximum it adds rows in the same way; and a workspace that lost its marker to a
\* killed clean-up is taken over by an edited configuration, old artifacts included.
RowsOutlivedByMetrics ==
    [][/\ ~AllowIncomplete
       /\ samples.exists /\ ~samples'.exists /\ ~At("off")
       /\ stage.config.maximum = 0
       => \A name \in Names :
            /\ published[name].state # "absent"
            /\ published[name].state = "whole" /\ published[name].config = stage.config =>
                  RowsOf(samples) \subseteq published[name].rows]_allVars

\* No sample has two rows and none stands behind a torn row; and status "complete" is
\* a promise about the whole history of the directory.  (Of the latter only where
\* collections alone write: the clean-up of a job may be killed with the manifest still
\* there and the rows gone.)
CollectedOnceAndWhole == EachSampleOnce /\ (At("by hand") => CleanlyComplete)

\* A manifest that closes a collection counts the rows, and rows leave a workspace only
\* when what is published accounts for them.
RowsAccountedFor == ManifestCountsRows /\ RowsOutlivedByMetrics

\* README.md of cluster_router_validation: "The pipeline atomically exports only
\* `metrics/metrics.json`, ...": an exported artifact is a complete file.
PublishedAreWhole == \A name \in Names : published[name].state # "torn"

-----------------------------------------------------------------------------
(* What is inductive *)

Places == {"marker", "collect", "collecting", "metrics", "opening", "writing",
           "export", "rename", "cleanup", "removing"}
ArtifactStates ==
    {NoArtifact, [state |-> "torn"]}
        \cup [state : {"whole"}, rows : SUBSET Samples, config : Configs]

Job == [at : Places, config : Configs, next : DOMAIN Artifacts]

\* The type of every variable of the pipeline.
PipelineTypeOK ==
    /\ stage = Off \/ stage = ByHand \/ stage \in Job
    /\ marker \in {NoMarker, [state |-> "torn"]} \cup [state : {"whole"}, config : Configs]
    /\ computed \in [Names -> ArtifactStates]
    /\ published \in [Names -> ArtifactStates]
    /\ staging \subseteq Names

\* The collection of this job has returned, and the manifest is what it closed with.
Collected == \/ At("collecting") /\ run.phase = "returned"
             \/ stage.at \in {"metrics", "opening", "writing", "export", "rename", "cleanup"}

CollectedInv ==
    /\ At("collecting") /\ Running => run.config = stage.config
    /\ ~At("collecting") /\ ~At("by hand") => run = NoRun
    /\ Collected =>
          /\ manifest # NoManifest /\ manifest.identity = stage.config
          /\ manifest.status = "complete" /\ stage.config.maximum = 0 =>
                RowsOf(samples) = Range(stage.config.dataset)

\* How far the loops over the artifacts are.
ProgressInv ==
    /\ stage.at \in {"marker", "collect", "collecting", "metrics"} => stage.next = 1
    /\ stage.at \in {"opening", "writing"} => manifest.status = "complete" \/ AllowIncomplete
    /\ At("rename") => AllComputed
    /\ stage.at \in {"export", "rename"} =>
          \A j \in 1..(stage.next - 1) : published[Artifacts[j]].state # "absent"
    /\ stage.at \in {"cleanup", "removing"} =>
          \A name \in Names : published[name].state # "absent"
    /\ At("removing") => RowsOf(samples) \subseteq Range(stage.config.dataset)

\* An artifact of the workspace or the destination is about the whole dataset.
Covers(artifact) ==
    artifact.state = "whole" /\ artifact.config.maximum = 0 =>
        artifact.rows = Range(artifact.config.dataset)

DirectoryInv ==
    /\ RunInv
    /\ PipelineTypeOK
    /\ CollectedInv
    /\ ProgressInv
    /\ ~AllowIncomplete => \A name \in Names : Covers(computed[name]) /\ Covers(published[name])
    /\ At("by hand") => CleanlyComplete
==============================================================================
