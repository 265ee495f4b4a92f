---------------------------- MODULE ValidationRun ----------------------------
(***************************************************************************)
(* collect_validation_states of cluster_router_validation/runner.py: one   *)
(* collection into a state directory that outlives it.  The directory      *)
(* holds run_manifest.json (replaced atomically), samples.jsonl and        *)
(* errors.jsonl (appended to, one flushed line at a time).  A collection   *)
(* may be killed anywhere, in the middle of a line too, and started again  *)
(* on what it left.                                                        *)
(*                                                                         *)
(* The identity a manifest keeps is the configuration without `resume`.    *)
(* Every line of the two files is the sequence of the texts written on it: *)
(* one, unless a line that lost its end was appended to.                   *)
(***************************************************************************)
EXTENDS Naturals, Sequences, FiniteSets, Functions

CONSTANTS
    Samples,      \* sample ids
    Configs,      \* [dataset, maximum, continue_on_error]; maximum 0 is None
    MaxLaunches   \* bound: collections started on the directory

ASSUME ConfigsAssumption ==
    /\ \A c \in Configs : /\ c.dataset \in Seq(Samples)
                          /\ c.maximum \in Nat
                          /\ c.continue_on_error \in BOOLEAN
    /\ MaxLaunches \in Nat

VARIABLES
    manifest,  \* run_manifest.json; status "absent" while there is none
    samples,   \* samples.jsonl
    errors,    \* errors.jsonl
    run,       \* what the running collection holds in memory
    launches   \* collections started so far

runVars == <<manifest, samples, errors, run>>
vars == <<manifest, samples, errors, run, launches>>

NoManifest == [status |-> "absent"]
NoFile == [exists |-> FALSE, lines |-> <<>>, ended |-> TRUE]

\* No collection is running: none was started, or the last one was killed or raised.
NoRun == [phase |-> "idle"]

Init ==
    /\ manifest = NoManifest
    /\ samples = NoFile
    /\ errors = NoFile
    /\ run = NoRun
    /\ launches = 0

-----------------------------------------------------------------------------
(* Files of lines *)

\* Opening in mode "a" or "x" creates a missing file.
Opened(file) == [file EXCEPT !.exists = TRUE]

\* Text written at the end of a file: a line of its own when the last line is
\* terminated, else more of that line.
Written(file, text, terminated) ==
    LET lines == file.lines
    IN [file EXCEPT !.ended = terminated,
                    !.lines = IF file.ended
                              THEN Append(lines, <<text>>)
                              ELSE [lines EXCEPT ![Len(lines)] = Append(@, text)]]

Row(sample, whole) == [sample |-> sample, whole |-> whole]

\* Mutant: a reader that carries on over lines it cannot decode.
AcceptsAnyLine(line) == line # <<>>

\* json.loads accepts a line that holds one whole text and nothing else.
Parses(line) == Len(line) = 1 /\ line[1].whole

RowIds(file) == [i \in DOMAIN file.lines |-> file.lines[i][1].sample]

\* _completed_sample_ids returns: every line parses and no id repeats.
Readable(file) ==
    /\ \A i \in DOMAIN file.lines : Parses(file.lines[i])
    /\ IsInjective(RowIds(file))

-----------------------------------------------------------------------------
(* Starting *)

Running == run.phase \notin {"idle", "returned"}

Entered(config) == [phase |-> "loading", config |-> config]

\* The manifest decides whether this collection may use the directory.
Start(config, resume) ==
    /\ ~Running
    /\ IF manifest # NoManifest
       THEN /\ run' = IF resume /\ manifest.identity = config
                      THEN Entered(config) ELSE NoRun
            /\ UNCHANGED manifest
       ELSE IF samples.exists \/ errors.exists
       THEN run' = NoRun /\ UNCHANGED manifest
       ELSE /\ run' = Entered(config)
            /\ manifest' = [status |-> "running", identity |-> config,
                            completed |-> 0, errors |-> 0]
    /\ UNCHANGED <<samples, errors>>

\* The ids of an earlier collection are read, its error lines counted, and both
\* files opened; a line that does not parse raises before they are.
Load ==
    /\ run.phase = "loading"
    /\ IF Readable(samples)
       THEN /\ run' = [phase |-> "loop", config |-> run.config, position |-> 0,
                       completed |-> Range(RowIds(samples)),
                       completed_count |-> Cardinality(Range(RowIds(samples))),
                       error_count |-> Len(errors.lines), yielded_count |-> 0]
            /\ samples' = Opened(samples)
            /\ errors' = Opened(errors)
       ELSE run' = NoRun /\ UNCHANGED <<samples, errors>>
    /\ UNCHANGED manifest

-----------------------------------------------------------------------------
(* The loop over the dataset *)

AtExample ==
    run.phase = "loop" /\ run.position < Len(run.config.dataset)

Example == run.config.dataset[run.position + 1]
Seen == {run.config.dataset[i] : i \in 1..run.position}
Skipped == Example \in run.completed
AtMaximum == /\ run.config.maximum # 0
             /\ run.yielded_count >= run.config.maximum

\* A dataset that emits an id twice ends the collection outside its error handling.
RejectDuplicate ==
    /\ AtExample
    /\ Example \in Seen
    /\ run' = NoRun
    /\ UNCHANGED <<manifest, samples, errors>>

SkipCompleted ==
    /\ AtExample
    /\ Example \notin Seen
    /\ Skipped
    /\ run' = [run EXCEPT !.position = @ + 1]
    /\ UNCHANGED <<manifest, samples, errors>>

BeginSample ==
    /\ AtExample
    /\ Example \notin Seen
    /\ ~Skipped /\ ~AtMaximum
    /\ run' = [run EXCEPT !.phase = "sample", !.yielded_count = @ + 1]
    /\ UNCHANGED <<manifest, samples, errors>>

\* The dataset is exhausted, or the samples this collection may take are.
LeaveLoop ==
    /\ run.phase = "loop"
    /\ \/ run.position = Len(run.config.dataset)
       \/ AtExample /\ Example \notin Seen /\ ~Skipped /\ AtMaximum
    /\ run' = [run EXCEPT !.phase = "finishing"]
    /\ UNCHANGED <<manifest, samples, errors>>

\* Every condition ran; the row is written and flushed.
RecordSample ==
    /\ run.phase = "sample"
    /\ samples' = Written(samples, Row(Example, TRUE), TRUE)
    /\ run' = [run EXCEPT !.phase = "loop", !.position = @ + 1,
                          !.completed = @ \cup {Example},
                          !.completed_count = @ + 1]
    /\ UNCHANGED <<manifest, errors>>

\* A condition raised; the error line is written and flushed.
FailSample ==
    /\ run.phase = "sample"
    /\ errors' = Written(errors, Row(Example, TRUE), TRUE)
    /\ run' = [run EXCEPT !.error_count = @ + 1, !.position = @ + 1,
                          !.phase = IF run.config.continue_on_error
                                    THEN "loop" ELSE "failing"]
    /\ UNCHANGED <<manifest, samples>>

\* Mutant: only the samples of this collection are counted.
CountsOwnSamples(status) ==
    [status |-> status, identity |-> run.config,
     completed |-> run.yielded_count, errors |-> run.error_count]

Closing(status) ==
    [status |-> status, identity |-> run.config,
     completed |-> run.completed_count, errors |-> run.error_count]

\* Without continue_on_error the first failure is recorded and raised again.
Abort ==
    /\ run.phase = "failing"
    /\ manifest' = Closing("failed")
    /\ run' = NoRun
    /\ UNCHANGED <<samples, errors>>

\* Mutant: the errors of the history do not affect the status.
AlwaysComplete == "complete"

FinalStatus == IF run.error_count = 0 THEN "complete" ELSE "complete_with_errors"

Finish ==
    /\ run.phase = "finishing"
    /\ manifest' = Closing(FinalStatus)
    /\ run' = [phase |-> "returned"]
    /\ UNCHANGED <<samples, errors>>

-----------------------------------------------------------------------------
(* The process is killed: between two steps, or with part of a line written;  *)
(* the part may be all of the line but its terminator.                        *)

Kill ==
    /\ Running
    /\ run' = NoRun
    /\ UNCHANGED <<manifest, samples, errors>>

KillInRow ==
    /\ run.phase = "sample"
    /\ \E whole \in BOOLEAN : samples' = Written(samples, Row(Example, whole), FALSE)
    /\ run' = NoRun
    /\ UNCHANGED <<manifest, errors>>

KillInError ==
    /\ run.phase = "sample"
    /\ \E whole \in BOOLEAN : errors' = Written(errors, Row(Example, whole), FALSE)
    /\ run' = NoRun
    /\ UNCHANGED <<manifest, samples>>

RunStep ==
    \/ Load
    \/ RejectDuplicate \/ SkipCompleted \/ BeginSample \/ LeaveLoop
    \/ RecordSample \/ FailSample \/ Abort \/ Finish
    \/ Kill \/ KillInRow \/ KillInError

Next ==
    \/ /\ launches < MaxLaunches
       /\ launches' = launches + 1
       /\ \E config \in Configs, resume \in BOOLEAN : Start(config, resume)
    \/ RunStep /\ UNCHANGED launches

Spec == Init /\ [][Next]_vars

-----------------------------------------------------------------------------
(* Properties *)

\* The texts of a file, and the samples of those that are whole.
Texts(file) == UNION {Range(file.lines[i]) : i \in DOMAIN file.lines}
RowsOf(file) == {t.sample : t \in {u \in Texts(file) : u.whole}}

\* No sample stands on two places, and nothing behind a text that was torn.
OncePerSample(file) ==
    \A i, j \in DOMAIN file.lines :
        \A k \in DOMAIN file.lines[i], l \in DOMAIN file.lines[j] :
            i < j \/ (i = j /\ k < l) =>
                /\ file.lines[i][k].whole
                /\ file.lines[i][k].sample # file.lines[j][l].sample

\* "Resume is identity-checked and does not duplicate completed samples"
\* (test_cluster_router_validation.py): over any number of kills and resumed
\* collections no sample is recorded twice, and nothing is ever written after a
\* row that was torn, so no sample is recorded behind a line no reader accepts.
EachSampleOnce == OncePerSample(samples)

\* Status "complete" survives as a promise about the whole history of the
\* directory: unless a maximum cut the dataset short, no collection ever logged
\* a failure and every sample has its row.  (A maximum counts the samples of one
\* collection, so a complete directory resumed under it works on, and keeps its
\* status "complete" until it closes again.)
CleanlyComplete ==
    manifest.status = "complete" /\ manifest.identity.maximum = 0 =>
        /\ errors.lines = <<>>
        /\ RowsOf(samples) = Range(manifest.identity.dataset)

\* A manifest that closes a collection counts the rows the file then holds,
\* those of the collections it resumed included, and never overlooks an error line.
ManifestCountsRows ==
    [][manifest' # manifest /\ manifest'.status \notin {"running", "absent"} =>
          /\ manifest'.completed = Cardinality(RowsOf(samples'))
          /\ manifest'.errors >= Len(errors'.lines)]_vars

\* README.md of cluster_router_validation: "Setting `run.resume=true` validates
\* the dataset/model/config identity hash and skips completed sample IDs": once
\* the identity is accepted the completed ids can be read.
ResumeReadsCompleted == run.phase = "loading" => Readable(samples)

-----------------------------------------------------------------------------
(* What is inductive *)

Statuses == {"running", "complete", "complete_with_errors", "failed"}
Text == [sample : Samples, whole : BOOLEAN]
File == [exists : BOOLEAN, lines : Seq(Seq(Text)), ended : BOOLEAN]

\* A collection in its loop, or on its way out of it.
AtWork == [phase : {"loop", "sample", "finishing", "failing"}, config : Configs,
           position : Nat, completed : SUBSET Samples, completed_count : Nat,
           error_count : Nat, yielded_count : Nat]
Working == run.phase \in {"loop", "sample", "finishing", "failing"}

\* The type of every variable.
RunTypeOK ==
    /\ manifest = NoManifest
       \/ manifest \in [status : Statuses, identity : Configs, completed : Nat, errors : Nat]
    /\ samples \in File /\ errors \in File
    /\ \/ run = NoRun \/ run = [phase |-> "returned"]
       \/ run \in [phase : {"loading"}, config : Configs]
       \/ run \in AtWork
    /\ launches \in Nat

\* A missing file has no lines, and only a line can lack its terminator.
FileSound(file) ==
    /\ ~file.exists => file.lines = <<>>
    /\ ~file.ended => file.lines # <<>>

\* A collection at work knows what the files hold, and how far it is.
WorkInv ==
    Working =>
        /\ samples.exists /\ errors.exists
        /\ \A t \in Texts(samples) : t.whole
        /\ run.completed = RowsOf(samples)
        /\ IsFiniteSet(run.completed) /\ run.completed_count = Cardinality(run.completed)
        /\ Len(errors.lines) <= run.error_count
        /\ run.position <= Len(run.config.dataset)
        /\ \A i \in 1..run.position :
              run.config.dataset[i] \in run.completed \/ run.error_count > 0
        /\ run.phase = "sample" =>
              run.position < Len(run.config.dataset) /\ Example \notin run.completed
        /\ run.phase = "finishing" =>
              run.position = Len(run.config.dataset) \/ run.config.maximum # 0

\* The manifest is of the configuration that works, and so are the rows.
IdentityInv ==
    /\ Running => manifest # NoManifest /\ manifest.identity = run.config
    /\ manifest # NoManifest => RowsOf(samples) \subseteq Range(manifest.identity.dataset)

RunInv ==
    /\ RunTypeOK
    /\ FileSound(samples) /\ FileSound(errors)
    /\ EachSampleOnce
    /\ WorkInv
    /\ IdentityInv
==============================================================================
