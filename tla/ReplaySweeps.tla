---------------------------- MODULE ReplaySweeps -----------------------------
(* Two evaluations that compare settings of one thing over the samples of a   *)
(* data set, a row per sample: the calibration of the usage threshold, which   *)
(* starts its sample file anew, and the comparison of retrieval budgets, which *)
(* keeps the rows of earlier launches and goes on behind them.  Either may be  *)
(* killed, and either may raise at any sample; both are then started again.    *)
(*                                                                             *)
(* Losses are small numbers: how far the answers of a setting are from the     *)
(* reference, all criteria in one.  One cluster store, one layer.              *)
EXTENDS Integers, SequencesExt

CONSTANTS
  Sweeps,       \* program, checkpoint, collection and number of samples of an evaluation
  Thresholds,   \* usage_thresholds
  Usages,       \* what a replay may observe: for each cluster its records' usage
  SweepLosses, MaxLoss, MaxReplayLoss,
  MinRecalls, MinRecords,  \* eviction_min_recall_count, ..._min_records_per_cluster
  MaxSweepKills,     \* bound: launches that are killed or raise
  MaxStrangers  \* bound: launches of another evaluation in the same directory

\* A sample without a record raises before its row is made.
ASSUME SweepAssumption ==
  /\ \A s \in Sweeps : s.program \in {"thresholds", "topn"} /\ s.samples \in Nat
  /\ Thresholds \subseteq Nat /\ Thresholds # {}
  /\ Usages \subseteq Seq(Seq(Nat)) /\ \A u \in Usages : \E c \in DOMAIN u : u[c] # <<>>
  /\ SweepLosses \subseteq Nat /\ {MaxLoss, MaxReplayLoss} \subseteq Nat
  /\ MinRecalls \in Nat \ {0} /\ MinRecords \in Nat

VARIABLES
  sweep,    \* the evaluation the launch that runs was asked for
  at,       \* where it is
  done,     \* the rows it has, of this launch and, resumed, of earlier ones
  state,    \* sweep_state.json: what it names of the evaluation that has the directory
  lines,    \* samples.jsonl, line by line
  ended,    \* whether its last line is terminated
  summary,
  sweepKills, strangers

sweepVars == <<sweep, at, done, state, lines, ended, summary, sweepKills, strangers>>

Absent == [program |-> "absent"]
Torn == [sample |-> -1]      \* a line, or a file, that does not parse
NoSummary == [rows |-> <<>>]

(******************************* the threshold *******************************)

\* plan_recall_eviction on a memory that was recalled as a whole for the first time:
\* of each cluster the least used records under the threshold, the older first, down
\* to the floor.
Evictable(cluster, threshold) ==
  {i \in DOMAIN cluster : cluster[i] < threshold /\ MinRecalls <= 1}

\* Mutant: the older go first, whatever their usage.
EvictedByAge(cluster, threshold) ==
  LET eligible == Evictable(cluster, threshold)
      maximum == Max({0, Len(cluster) - MinRecords})
  IN {i \in eligible : Cardinality({j \in eligible : j < i}) < maximum}

Evicted(cluster, threshold) ==
  LET eligible == Evictable(cluster, threshold)
      maximum == Max({0, Len(cluster) - MinRecords})
      Earlier(i, j) == cluster[i] < cluster[j] \/ (cluster[i] = cluster[j] /\ i < j)
  IN {i \in eligible : Cardinality({j \in eligible : Earlier(j, i)}) < maximum}

RecordsOf(usage) == UNION {{c} \X DOMAIN usage[c] : c \in DOMAIN usage}

Retained(usage, threshold) ==
  {r \in RecordsOf(usage) : r[2] \notin Evicted(usage[r[1]], threshold)}

\* One replay of the whole memory serves every threshold: the plans leave it as it is.
ThresholdRow(s, usage, replayLoss, loss) ==
  [sample |-> s, sweep |-> sweep, replay |-> replayLoss, loss |-> loss,
   records |-> Cardinality(RecordsOf(usage)), clusters |-> [c \in DOMAIN usage |-> Len(usage[c])],
   retained |-> [t \in Thresholds |-> Retained(usage, t)]]

Total(value) == FoldFunction(+, 0, value)

\* Means are compared as sums; the ratio in parts of a thousand.
RetainedRatio(t) ==
  Total([i \in DOMAIN done |->
          (1000 * Cardinality(done[i].retained[t])) \div done[i].records])

ReplayGate == Total([i \in DOMAIN done |-> done[i].replay]) <= MaxReplayLoss * Len(done)

Acceptable(t) ==
  ReplayGate /\ Total([i \in DOMAIN done |-> done[i].loss[t]]) <= MaxLoss * Len(done)

\* The setting that retains least, of several the smallest threshold; none if the
\* replay of the whole memory is already too far from the full context.
ChooseSetting ==
  LET eligible == {t \in Thresholds : Acceptable(t)}
      Cheaper(t, u) == \/ RetainedRatio(t) < RetainedRatio(u)
                       \/ RetainedRatio(t) = RetainedRatio(u) /\ t < u
  IN IF eligible = {}
       THEN [status |-> IF ReplayGate THEN "no_setting_met_constraints"
                                      ELSE "uncompressed_replay_not_equivalent"]
       ELSE [status |-> "accepted",
             threshold |-> CHOOSE t \in eligible : \A u \in eligible \ {t} : Cheaper(t, u)]

(********************************* the runs *********************************)

SweepInit ==
  /\ sweep \in Sweeps /\ at = "idle" /\ done = <<>>
  /\ state = Absent /\ lines = <<>> /\ ended = TRUE
  /\ summary = NoSummary /\ sweepKills = 0 /\ strangers = 0

Resumes == sweep.program = "topn"

\* expected_state names the checkpoint and the samples, not the collection they are read
\* from: the samples of two collections may have the same names.
StateOf(s) == [checkpoint |-> s.checkpoint, samples |-> s.samples]

\* The same evaluation is started again until it has ended, now and then another one
\* of the same program.
LaunchSweep ==
  /\ at \in {"idle", "failed"}
  /\ \/ UNCHANGED <<sweep, strangers>>
     \/ /\ strangers < MaxStrangers /\ strangers' = strangers + 1
        /\ sweep' \in {s \in Sweeps : s.program = sweep.program}
  /\ at' = "begin" /\ done' = <<>>
  /\ UNCHANGED <<state, lines, ended, summary, sweepKills>>

\* Mutant: a state file that differs is not refused.
BeginAnywhere ==
  /\ at = "begin"
  /\ lines' = IF Resumes THEN lines ELSE <<>>
  /\ at' = IF Resumes THEN "read" ELSE "samples"
  /\ state' = IF Resumes THEN StateOf(sweep) ELSE state
  /\ UNCHANGED <<sweep, done, ended, summary, sweepKills, strangers>>

\* A threshold sweep opens its file anew.  A budget sweep goes on only in a directory
\* whose state file names its own model, checkpoint, settings and samples.
BeginSweep ==
  /\ at = "begin"
  /\ IF ~Resumes
       THEN /\ lines' = <<>> /\ ended' = TRUE /\ at' = "samples"
            /\ UNCHANGED state
       ELSE /\ UNCHANGED <<lines, ended>>
            /\ IF state = Absent THEN state' = StateOf(sweep) /\ at' = "read"
               ELSE UNCHANGED state /\ at' = IF state = StateOf(sweep) THEN "read" ELSE "failed"
  /\ UNCHANGED <<sweep, done, summary, sweepKills, strangers>>

Parsed == {lines[i].sample : i \in DOMAIN lines}

\* Rows of earlier launches are read back: every line has to parse, no sample may be
\* there twice, none that is not asked for.
Read ==
  /\ at = "read"
  /\ at' = IF /\ \A i \in DOMAIN lines : lines[i] # Torn
              /\ Cardinality(Parsed) = Len(lines)
              /\ Parsed \subseteq 1..sweep.samples
             THEN "samples" ELSE "failed"
  /\ UNCHANGED <<sweep, done, state, lines, ended, summary, sweepKills, strangers>>

Next1 == Len(done) + 1   \* the sample that is next

Existing == {i \in DOMAIN lines : Resumes /\ lines[i] # Torn /\ lines[i].sample = Next1}

\* A resumed row is taken over as it is.
TakeExisting ==
  /\ at = "samples" /\ Next1 <= sweep.samples
  /\ \E i \in Existing : done' = Append(done, lines[i])
  /\ UNCHANGED <<sweep, at, state, lines, ended, summary, sweepKills, strangers>>

\* What a line behind an unterminated one becomes: one line of two rows.
Appended(row) ==
  IF ended THEN Append(lines, row) ELSE Append(Front(lines), Torn)

Rows ==
  IF Resumes THEN {[sample |-> Next1, sweep |-> sweep]}
  ELSE {ThresholdRow(Next1, usage, replayLoss, loss) :
          usage \in Usages, replayLoss \in SweepLosses, loss \in [Thresholds -> SweepLosses]}

\* A sample is evaluated under every setting and its row appended.
EvaluateSample ==
  /\ at = "samples" /\ Next1 <= sweep.samples /\ Existing = {}
  /\ \E row \in Rows : done' = Append(done, row) /\ lines' = Appended(row)
  /\ ended' = TRUE
  /\ UNCHANGED <<sweep, at, state, summary, sweepKills, strangers>>

\* With all samples done the means are taken and written.
PublishSummary ==
  /\ at = "samples" /\ Len(done) = sweep.samples
  /\ at' = "ended"
  /\ summary' = [rows |-> done,
                 selection |-> IF Resumes THEN [status |-> "compared"] ELSE ChooseSetting]
  /\ UNCHANGED <<sweep, done, state, lines, ended, sweepKills, strangers>>

\* What a kill may leave of the state file: it is written beside its place and moved.
KilledState == {state}

\* A kill, or an error of a sample: of the row being written nothing is left, a part,
\* or all but its terminator.
KilledSweep ==
  /\ at \in {"begin", "read", "samples"} /\ sweepKills < MaxSweepKills
  /\ at' = "failed" /\ sweepKills' = sweepKills + 1 /\ done' = <<>>
  /\ state' \in KilledState
  /\ IF at = "samples" /\ Next1 <= sweep.samples /\ Existing = {} /\ Resumes
       THEN \/ UNCHANGED <<lines, ended>>
            \/ lines' = Appended(Torn) /\ ended' = FALSE
            \/ \E row \in Rows : lines' = Appended(row) /\ ended' = FALSE
       ELSE UNCHANGED <<lines, ended>>
  /\ UNCHANGED <<sweep, summary, strangers>>

SweepNext ==
  LaunchSweep \/ BeginSweep \/ Read \/ TakeExisting \/ EvaluateSample \/ PublishSummary \/ KilledSweep

Progress == LaunchSweep \/ BeginSweep \/ Read \/ TakeExisting \/ EvaluateSample \/ PublishSummary

\* An evaluation runs on while it can, and is started again after a failure.
SweepSpec == SweepInit /\ [][SweepNext]_sweepVars /\ WF_sweepVars(Progress)

(******************************** properties ********************************)

\* A summary counts every sample of its data set once, in order, whatever was killed,
\* resumed and attempted in its directory: each by a row of the very launch it is the
\* summary of or, of a budget sweep, of one with its checkpoint, settings and samples.
\* Of another collection with samples of the same names such a row may be.
SummaryCountsEachOnce ==
  at = "ended" =>
    /\ [i \in DOMAIN summary.rows |-> summary.rows[i].sample] = [i \in 1..sweep.samples |-> i]
    /\ \A i \in DOMAIN summary.rows :
         IF Resumes THEN StateOf(summary.rows[i].sweep) = StateOf(sweep) ELSE summary.rows[i].sweep = sweep

\* The records of the cluster c that a row's threshold t retains.
RetainedOf(row, c, t) == {r \in row.retained[t] : r[1] = c}

\* No cluster has less than its floor left, nor less than it had.
FloorHolds(row, t) ==
  \A c \in DOMAIN row.clusters :
    \/ Cardinality(RetainedOf(row, c, t)) >= MinRecords
    \/ Cardinality(RetainedOf(row, c, t)) = row.clusters[c]

\* A higher threshold retains no record that a lower one gives up, in no sample, and
\* no cluster goes below its floor: the plans of a sweep do not build on each other.
\* So the threshold accepted is the highest of those that keep the answers, or
\* retains as little as that one.
ThresholdsAreNested ==
  at = "ended" /\ ~Resumes =>
    /\ \A i \in DOMAIN done, t, u \in Thresholds :
         t <= u => done[i].retained[u] \subseteq done[i].retained[t]
    /\ \A i \in DOMAIN done, t \in Thresholds : FloorHolds(done[i], t)
    /\ summary.selection.status = "accepted" =>
         \A t \in Thresholds :
           Acceptable(t) => RetainedRatio(summary.selection.threshold) <= RetainedRatio(t)

\* Started again after every failure an evaluation ends, unless a kill tore a line of
\* a file that is resumed, or an evaluation with another state has taken its directory.
SweepEnds ==
  at # "idle" ~>
    (\/ at = "ended"
     \/ \E i \in DOMAIN lines : lines[i] = Torn
     \/ state \in {StateOf(s) : s \in Sweeps} \ {StateOf(sweep)})
==============================================================================
