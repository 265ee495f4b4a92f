--------------------------- MODULE RouterPipelines ---------------------------
(***************************************************************************)
(* The four pipelines that train and evaluate routers as scheduler jobs:   *)
(* learnable_index/hpc.py ("index"), block_probability_router/hpc.py       *)
(* ("probability"), output_preserving_region_router/hpc.py ("region") and  *)
(* block_probability_router/evaluation_hpc.py ("evaluation").  A launch    *)
(* goes through its stages; a stage is skipped when its outputs exist,     *)
(* raises when they look half done, and else is a command that writes its  *)
(* files one after the other, in place.  A launch may be killed between    *)
(* any two steps and the job launched again, on the files it left: only    *)
(* the files tell the next launch what was done.                           *)
(*                                                                         *)
(* disk is the directory the stages work in: the output root itself, or a  *)
(* temporary workspace, in which case the artifacts are exported to home,  *)
(* the output root.  A file that is open for writing is not whole.         *)
(***************************************************************************)
EXTENDS Naturals, Sequences, FiniteSets, SequencesExt, Functions

CONSTANTS
  Splits,    \* REQUIRED_SPLITS, the one that trains first
  Blocks,    \* the blocks whose K/V the aligned collection of a split stores
  Jobs,      \* [kind, tmp, ephemeral]: the configurations
  Epochs,    \* training.epochs
  Patience,  \* training.early_stopping_patience
  Losses,    \* bound: the losses an epoch may have
  MaxKills,  \* bound: the launches that are killed
  Remnants   \* bound: sets of files that a kill within the clearing of a workspace may leave

Kinds == {"index", "probability", "region", "evaluation"}

ASSUME PipelinesAssumption ==
  /\ Splits \in Seq(ToSet(Splits)) /\ Len(Splits) >= 2 /\ IsInjective(Splits)
  /\ IsFiniteSet(Blocks)
  /\ Jobs \subseteq [kind : Kinds, tmp : BOOLEAN, ephemeral : BOOLEAN]
  /\ Epochs \in Nat \ {0} /\ Patience \in Nat \ {0}
  /\ Losses \subseteq Nat /\ \E worst \in Losses : \A loss \in Losses : loss <= worst
  /\ MaxKills \in Nat

VARIABLES
  job,      \* the configuration
  disk,     \* file -> content, of the directory the stages work in
  home,     \* file -> content, of the exported artifacts
  staging,  \* whether a `.name.tmp-pid` file lies among the exported artifacts
  phase,    \* "idle" between launches, "running", "complete" or "failed"
  todo,     \* the stages this launch has left
  write,    \* the file operations the current command has left
  fit,      \* what the trainer holds in memory
  kills,    \* launches killed so far
  torn,     \* whether one was killed within the file operations of a command
  remains   \* whether the workspace is what such a kill left of one that was being cleared

vars == <<job, disk, home, staging, phase, todo, write, fit, kills, torn, remains>>

-----------------------------------------------------------------------------
(* Files *)

Input(s) == <<"input", s>>
InputManifest(s) == <<"input_manifest", s>>
Block(s, b) == <<"block", s, b>>
Entry(s, b) == <<"block_entry", s, b>>
Dataset(s) == <<"dataset", s>>
Collection(s) == <<"collection_manifest", s>>
Evaluation(s) == <<"evaluation", s>>
Answers(s) == <<"qa", s>>
Configuration == <<"resolved_config">>
Metrics == <<"metrics_jsonl">>
Best == <<"best_pt">>
Final == <<"final_pt">>
Summary == <<"summary_json">>
Replay == <<"replay">>
PipelineManifest == <<"hpc_pipeline_manifest">>
Combined == <<"metrics_json">>

Open == [whole |-> FALSE]
Plain == [whole |-> TRUE]

Exists(f) == f \in DOMAIN disk
Whole(f) == Exists(f) /\ disk[f].whole

Put(d, f, content) == [g \in DOMAIN d \cup {f} |-> IF g = f THEN content ELSE d[g]]
Removed(d, f) == Restrict(d, DOMAIN d \ {f})
Empty == [f \in {} |-> Plain]

TrainSplit == Splits[1]
EvaluationSplits == Tail(Splits)

\* The launch in progress: each but the first follows a kill.
LaunchNumber == kills + 1

\* A file written in place.
InPlace(f, content) ==
  <<[op |-> "open", file |-> f], [op |-> "put", file |-> f, content |-> content]>>

\* A file replaced atomically.
Replaced(f) == <<[op |-> "put", file |-> f, content |-> Plain]>>

Unlinked(f) == IF Exists(f) THEN <<[op |-> "unlink", file |-> f]>> ELSE <<>>

\* The n things that f has for each element of seq, one element after the other.
InTurn(n, f(_), seq) ==
  [i \in 1..(n * Len(seq)) |-> f(seq[((i - 1) \div n) + 1])[((i - 1) % n) + 1]]

-----------------------------------------------------------------------------
(* The stages of a launch *)

Stage(name, s) == [name |-> name, split |-> s]

Aligned(s) == <<Stage("prepare", s), Stage("collect", s), Stage("cleanup", s)>>
Prepare(s) == <<Stage("prepare", s)>>
Collect(s) == <<Stage("collect", s)>>
Evaluate(s) == <<Stage("evaluate", s)>>
Assess(s) == <<Stage("prepare", s), Stage("evaluate", s), Stage("cleanup", s)>>

\* run of the aligned pipelines: with ephemeral inputs split after split.
AlignedStages ==
  IF job.ephemeral THEN InTurn(3, Aligned, Splits)
  ELSE InTurn(1, Prepare, Splits) \o InTurn(1, Collect, Splits)

Closing == <<Stage("manifest", "all"), Stage("export", "all"), Stage("clear", "all")>>

Stages ==
  CASE job.kind = "index" ->
         <<Stage("configure", "all")>> \o AlignedStages \o <<Stage("train", "all")>>
           \o InTurn(1, Evaluate, EvaluationSplits) \o <<Stage("replay", Last(Splits))>> \o Closing
    [] job.kind = "probability" ->
         <<Stage("configure", "all")>> \o AlignedStages \o <<Stage("train", "all")>>
           \o InTurn(1, Evaluate, EvaluationSplits) \o Closing
    [] job.kind = "region" ->
         <<Stage("configure", "all"), Stage("prepare", TrainSplit), Stage("train", "all"),
           Stage("cleanup", TrainSplit)>>
           \o InTurn(3, Assess, EvaluationSplits) \o Closing
    [] job.kind = "evaluation" ->
         <<Stage("configure", "all")>> \o Aligned(Last(Splits))
           \o <<Stage("evaluate", Last(Splits)), Stage("qa", Last(Splits)),
                Stage("export", "all"), Stage("clear", "all")>>

Assessment(s) == <<Evaluation(s), Answers(s)>>

\* The artifacts a temporary workspace exports, in order.
Exported ==
  CASE job.kind = "index" -> <<Best, Metrics, Summary>>
    [] job.kind = "probability" ->
         <<Best, Metrics, Summary>> \o [i \in DOMAIN EvaluationSplits |-> Evaluation(EvaluationSplits[i])]
    [] job.kind = "region" ->
         <<Best, Final, Metrics, Summary>>
           \o InTurn(2, Assessment, EvaluationSplits)
    [] job.kind = "evaluation" -> <<Combined>>

-----------------------------------------------------------------------------
(* What a launch does about a stage: "skip", "raise" or "run" *)

\* Mutant: the checkpoint alone shows that the training is done.
CheckpointExists == Exists(Best)

TrainingComplete == Exists(Summary) /\ Exists(Best)

\* resolved_config.json: the aligned pipelines compare it, the others write it again.
InspectConfiguration ==
  IF job.kind \in {"region", "evaluation"} \/ ~Exists(Configuration) THEN "run"
  ELSE IF Whole(Configuration) THEN "skip" ELSE "raise"

\* A prepared input is complete, absent, or refused.
InspectPrepare(s) ==
  IF Exists(Input(s)) /\ Exists(InputManifest(s))
    THEN IF Whole(InputManifest(s)) THEN "skip" ELSE "raise"
  ELSE IF Exists(Input(s)) \/ Exists(InputManifest(s)) THEN "raise" ELSE "run"

InspectCollect(s) ==
  IF Exists(Collection(s)) THEN IF Whole(Collection(s)) THEN "skip" ELSE "raise"
  ELSE IF Exists(Input(s)) THEN "run" ELSE "raise"

InspectEvaluate(s) ==
  CASE job.kind \in {"index", "probability"} -> IF Exists(Evaluation(s)) THEN "skip" ELSE "run"
    [] job.kind = "region" ->
         IF Exists(Evaluation(s)) /\ Exists(Answers(s)) THEN "skip"
         ELSE IF Exists(Evaluation(s)) \/ Exists(Answers(s)) THEN "raise" ELSE "run"
    [] job.kind = "evaluation" -> IF Exists(Combined) THEN "skip" ELSE "run"

\* The combined metrics must exist and parse; QA already merged is not run again.
InspectAnswers ==
  IF ~Whole(Combined) THEN "raise" ELSE IF disk[Combined].answered THEN "skip" ELSE "run"

InspectExport ==
  IF ~job.tmp THEN "skip" ELSE IF ToSet(Exported) \subseteq DOMAIN disk THEN "run" ELSE "raise"

Inspect(stage) ==
  LET s == stage.split
  IN CASE stage.name = "configure" -> InspectConfiguration
       [] stage.name = "prepare" -> InspectPrepare(s)
       [] stage.name = "collect" -> InspectCollect(s)
       [] stage.name = "cleanup" ->
            IF job.ephemeral /\ (Exists(Input(s)) \/ Exists(InputManifest(s))) THEN "run" ELSE "skip"
       [] stage.name = "train" -> IF TrainingComplete THEN "skip" ELSE "run"
       [] stage.name = "evaluate" -> InspectEvaluate(s)
       [] stage.name = "qa" -> InspectAnswers
       [] stage.name = "replay" -> IF Exists(Replay) THEN "skip" ELSE "run"
       [] stage.name = "manifest" -> "run"
       [] stage.name = "export" -> InspectExport
       [] stage.name = "clear" -> IF job.tmp THEN "run" ELSE "skip"

-----------------------------------------------------------------------------
(* The commands: what they read, and the file operations they go through *)

\* ensure_blocks computes the blocks the store's manifest does not name; save
\* writes a block's file and then replaces the manifest.
Missing(s) == {b \in Blocks : ~Exists(Entry(s, b))}

StoredBlocks(s) ==
  InTurn(3, LAMBDA b : InPlace(Block(s, b), Plain) \o Replaced(Entry(s, b)), SetToSeq(Missing(s)))

\* Mutant: the manifest is written before the samples.
CollectManifestFirst(s) == InPlace(Collection(s), Plain) \o InPlace(Dataset(s), Plain)

\* Sequences, plans and samples, of which nothing is looked at alone, are one file.
CollectWrites(s) ==
  (IF job.kind = "index" THEN StoredBlocks(s) ELSE <<>>)
    \o InPlace(Dataset(s), Plain) \o InPlace(Collection(s), Plain)

\* Mutant: the input alone is removed.
CleanupInput(s) == Unlinked(Input(s))

CleanupWrites(s) == Unlinked(Input(s)) \o Unlinked(InputManifest(s))

\* An evaluation is of the run that trained the checkpoint it loads.
OfCheckpoint == [whole |-> TRUE, of |-> disk[Best].of]

\* The combined metrics are written by the command and again with the
\* configuration's fingerprint.
Score(stamped, answered) == [whole |-> TRUE, stamped |-> stamped, answered |-> answered]

EvaluateWrites(s) ==
  CASE job.kind \in {"index", "probability"} -> InPlace(Evaluation(s), OfCheckpoint)
    [] job.kind = "region" -> InPlace(Answers(s), OfCheckpoint) \o InPlace(Evaluation(s), OfCheckpoint)
    [] job.kind = "evaluation" ->
         InPlace(Combined, Score(FALSE, FALSE)) \o InPlace(Combined, Score(TRUE, FALSE))

\* QA writes its own result, then the combined metrics with the result in it.
AnswerWrites(s) ==
  InPlace(Answers(s), Plain) \o InPlace(Combined, Score(disk[Combined].stamped, TRUE))

\* Each artifact is copied beside its target and renamed.
Transfer(f) == <<[op |-> "copy", file |-> f], [op |-> "rename", file |-> f]>>

ExportWrites == InTurn(2, Transfer, Exported)

\* Training is the trainer's; it ends with these.
TrainerCloses == InPlace(Final, Plain) \o InPlace(Summary, [whole |-> TRUE, of |-> LaunchNumber])

Writes(stage) ==
  LET s == stage.split
  IN CASE stage.name = "configure" -> InPlace(Configuration, Plain)
       [] stage.name = "prepare" -> InPlace(Input(s), Plain) \o InPlace(InputManifest(s), Plain)
       [] stage.name = "collect" -> CollectWrites(s)
       [] stage.name = "cleanup" -> CleanupWrites(s)
       [] stage.name = "evaluate" -> EvaluateWrites(s)
       [] stage.name = "qa" -> AnswerWrites(s)
       [] stage.name = "replay" -> InPlace(Replay, OfCheckpoint)
       [] stage.name = "manifest" -> InPlace(PipelineManifest, Plain)
       [] stage.name = "export" -> ExportWrites
       [] stage.name = "clear" -> <<[op |-> "clear", file |-> <<>>]>>

\* The files a command loads.
Reads(stage) ==
  LET s == stage.split
  IN CASE stage.name = "collect" -> {Input(s)}
       [] stage.name = "train" ->
            IF job.kind = "region" THEN {Input(TrainSplit)} ELSE {Dataset(TrainSplit)}
       [] stage.name = "evaluate" ->
            (IF job.kind = "region" THEN {Input(s)} ELSE {Dataset(s)})
              \cup (IF job.kind = "evaluation" THEN {} ELSE {Best})
       [] stage.name = "qa" -> {Dataset(s), Combined}
       [] stage.name = "replay" ->
            {Dataset(s), Best} \cup {Block(s, b) : b \in Blocks} \cup {Entry(s, b) : b \in Blocks}
       [] OTHER -> {}

\* A command fails on a file that is missing or was not written to its end.
Loads(stage) == \A f \in Reads(stage) : Whole(f)

-----------------------------------------------------------------------------
\* Before the first epoch: worse than every loss (float("inf")).
Worst == 1 + CHOOSE l \in Losses : \A m \in Losses : m <= l

NoFit == [at |-> "none"]

Init ==
  /\ job \in Jobs
  /\ disk = Empty /\ home = Empty /\ staging = FALSE
  /\ phase = "idle" /\ todo = <<>> /\ write = <<>> /\ fit = NoFit
  /\ kills = 0 /\ torn = FALSE /\ remains = FALSE

\* A destination of a temporary workspace holds artifacts and nothing else.
DestinationRefused == job.tmp /\ staging

\* The evaluation pipeline takes published metrics of its configuration for the
\* end of its work, and refuses any others.
Published == IF job.tmp THEN home ELSE disk

Launched ==
  IF job.kind = "evaluation" /\ Combined \in DOMAIN Published
    THEN IF Published[Combined].whole /\ Published[Combined].stamped
           THEN phase' = "complete" /\ todo' = <<>> ELSE phase' = "failed" /\ todo' = <<>>
  ELSE IF DestinationRefused THEN phase' = "failed" /\ todo' = <<>>
  ELSE phase' = "running" /\ todo' = Stages

\* A new job has a temporary workspace of its own, a requeued one its old one.
Launch ==
  /\ phase = "idle"
  /\ \/ UNCHANGED <<disk, remains>>
     \/ job.tmp /\ disk' = Empty /\ remains' = FALSE
  /\ Launched
  /\ UNCHANGED <<job, home, staging, write, fit, kills, torn>>

AtStage == phase = "running" /\ write = <<>> /\ fit = NoFit /\ todo # <<>>

Skip ==
  /\ AtStage
  /\ Inspect(Head(todo)) = "skip"
  /\ todo' = Tail(todo)
  /\ UNCHANGED <<job, disk, home, staging, phase, write, fit, kills, torn, remains>>

\* The pipeline or the command it runs raises; every later launch would, too: the
\* files stay as they are.
Raise ==
  /\ AtStage
  /\ \/ Inspect(Head(todo)) = "raise"
     \/ Inspect(Head(todo)) = "run" /\ ~Loads(Head(todo))
  /\ phase' = "failed" /\ todo' = <<>>
  /\ UNCHANGED <<job, disk, home, staging, write, fit, kills, torn, remains>>

Begin ==
  /\ AtStage
  /\ Inspect(Head(todo)) = "run" /\ Loads(Head(todo))
  /\ Head(todo).name # "train"
  /\ write' = Writes(Head(todo))
  /\ todo' = Tail(todo)
  /\ UNCHANGED <<job, disk, home, staging, phase, fit, kills, torn, remains>>

-----------------------------------------------------------------------------
(* fit_router *)

\* The region trainer appends to metrics.jsonl, the others start it again.
InitialRows ==
  IF job.kind = "region" /\ Exists(Metrics) THEN disk[Metrics].rows ELSE <<>>

BeginTraining ==
  /\ AtStage
  /\ Head(todo).name = "train" /\ Inspect(Head(todo)) = "run" /\ Loads(Head(todo))
  /\ fit' = [at |-> "epoch", epoch |-> 1, best |-> Worst, stale |-> 0]
  /\ disk' = Put(disk, Metrics, [whole |-> TRUE, rows |-> InitialRows])
  /\ UNCHANGED <<job, home, staging, phase, todo, write, kills, torn, remains>>

\* After an epoch: early stopping, the last epoch, or one more.
AfterEpoch(best, stale) ==
  IF stale >= Patience \/ fit.epoch = Epochs
    THEN [at |-> "close", epoch |-> fit.epoch, best |-> best, stale |-> stale]
    ELSE [at |-> "epoch", epoch |-> fit.epoch + 1, best |-> best, stale |-> stale]

\* An epoch's row is flushed before its checkpoint is opened.
Epoch ==
  /\ fit.at = "epoch"
  /\ \E loss \in Losses :
       LET row == [of |-> LaunchNumber, epoch |-> fit.epoch, loss |-> loss]
           logged == Put(disk, Metrics, [whole |-> TRUE, rows |-> Append(disk[Metrics].rows, row)])
       IN IF loss < fit.best
            THEN /\ disk' = Put(logged, Best, Open)
                 /\ fit' = [fit EXCEPT !.at = "save", !.best = loss]
            ELSE /\ disk' = logged
                 /\ fit' = AfterEpoch(fit.best, fit.stale + 1)
  /\ UNCHANGED <<job, home, staging, phase, todo, write, kills, torn, remains>>

SaveBest ==
  /\ fit.at = "save"
  /\ disk' = Put(disk, Best, [whole |-> TRUE, of |-> LaunchNumber, epoch |-> fit.epoch,
                              loss |-> fit.best])
  /\ fit' = AfterEpoch(fit.best, 0)
  /\ UNCHANGED <<job, home, staging, phase, todo, write, kills, torn, remains>>

EndTraining ==
  /\ fit.at = "close"
  /\ fit' = NoFit
  /\ write' = TrainerCloses
  /\ todo' = Tail(todo)
  /\ UNCHANGED <<job, disk, home, staging, phase, kills, torn, remains>>

-----------------------------------------------------------------------------
(* File operations *)

At(op) == phase = "running" /\ write # <<>> /\ Head(write).op = op

Target == Head(write).file

Done == write' = Tail(write) /\ UNCHANGED <<job, phase, todo, fit, kills, torn, remains>>

OpenFile == At("open") /\ disk' = Put(disk, Target, Open) /\ UNCHANGED <<home, staging>> /\ Done

PutFile ==
  At("put") /\ disk' = Put(disk, Target, Head(write).content) /\ UNCHANGED <<home, staging>> /\ Done

Unlink == At("unlink") /\ disk' = Removed(disk, Target) /\ UNCHANGED <<home, staging>> /\ Done

CopyArtifact == At("copy") /\ staging' = TRUE /\ UNCHANGED <<disk, home>> /\ Done

RenameArtifact ==
  /\ At("rename")
  /\ home' = Put(home, Target, disk[Target])
  /\ staging' = FALSE
  /\ UNCHANGED disk
  /\ Done

\* rmtree removes one file after the other, in the order the file system lists them.
\* Nobody else looks at the workspace meanwhile; what a kill leaves of it is in Kill.
ClearWorkspace == At("clear") /\ disk' = Empty /\ UNCHANGED <<home, staging>> /\ Done

Complete ==
  /\ phase = "running" /\ todo = <<>> /\ write = <<>> /\ fit = NoFit
  /\ phase' = "complete"
  /\ UNCHANGED <<job, disk, home, staging, todo, write, fit, kills, torn, remains>>

\* The scheduler ends the launch, at any point: of a workspace that is being cleared
\* some of the files are gone then and others are left.
Kill ==
  /\ phase = "running"
  /\ kills < MaxKills
  /\ kills' = kills + 1
  /\ phase' = "idle" /\ todo' = <<>> /\ write' = <<>> /\ fit' = NoFit
  /\ torn' = (torn \/ write # <<>>)
  /\ \/ UNCHANGED <<disk, remains>>
     \/ /\ At("clear") /\ remains' = TRUE
        /\ \E left \in Remnants : disk' = Restrict(disk, DOMAIN disk \cap left)
  /\ UNCHANGED <<job, home, staging>>

Step ==
  \/ Launch \/ Skip \/ Raise \/ Begin
  \/ BeginTraining \/ Epoch \/ SaveBest \/ EndTraining
  \/ OpenFile \/ PutFile \/ Unlink \/ CopyArtifact \/ RenameArtifact \/ ClearWorkspace
  \/ Complete

Next == Step \/ Kill

Spec == Init /\ [][Next]_vars

\* A launch runs while it is not killed, and a killed job is launched again.
FairSpec == Spec /\ WF_vars(Step)

-----------------------------------------------------------------------------
(* Properties *)

\* Whatever launches were killed, a command that is started finds every file it
\* loads there and whole: no dataset, checkpoint, input or block that a kill left
\* half written passes for the output of its stage.  It holds in a workspace of the
\* launch's own and in one an earlier launch worked in, but not in what a kill within
\* the clearing of a workspace left: there a marker may have outlived its files.
CommandsReadWholeFiles ==
  ~remains /\ AtStage /\ Inspect(Head(todo)) = "run" => Loads(Head(todo))

\* What a completed training pipeline leaves is of one training run: the summary,
\* the checkpoint, its row in the metrics (all rows, where a rerun starts the file
\* again) and every evaluation, though launches were killed while training,
\* between two artifacts of an export, and trained again over what was left.  The
\* summary and an evaluation are whole unless a kill struck a command that was
\* writing.  A launch that was requeued onto a workspace that was being cleared when
\* its launch was killed is excluded, one that got a workspace of its own is not.
CompleteIsOfOneRun ==
  phase = "complete" /\ job.kind # "evaluation" /\ ~remains =>
    LET left == Published
        run == left[Best].of
        rows == ToSet(left[Metrics].rows)
    IN /\ {Best, Metrics, Summary} \subseteq DOMAIN left /\ left[Best].whole
       /\ [of |-> run, epoch |-> left[Best].epoch, loss |-> left[Best].loss] \in rows
       /\ \A row \in rows : row.of = run => left[Best].loss <= row.loss
       /\ job.kind # "region" => \A row \in rows : row.of = run
       /\ \A f \in {Summary} \cup (DOMAIN left \cap {Evaluation(s) : s \in ToSet(Splits)}) :
            IF left[f].whole THEN left[f].of = run ELSE torn

\* Killed between two stages, or while it trains, a pipeline launched again
\* finishes: what earlier launches left is neither refused nor missed.
ResumesBetweenWrites == <>(torn \/ phase = "complete")

\* EvaluationHPCPipeline: "Synthesize, collect, score, and autoregressively QA one
\* router checkpoint": when it reports a completed run, the QA result is in it.
CompleteIncludesAnswers ==
  phase = "complete" /\ job.kind = "evaluation" /\ ~torn => Published[Combined].answered
=============================================================================
