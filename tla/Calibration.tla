----------------------------- MODULE Calibration -----------------------------
(* Calibrating the clustering parameters of a memory: every sample is         *)
(* captured once, every variant of the parameters groups the captured records *)
(* in an empty memory of its own, its groups are compared with the facts the  *)
(* records belong to and with a shuffling of these facts, and a variant is    *)
(* chosen by the means over all samples.  Two programs, one for token records *)
(* and one for whole blocks, that may be started again and again in one       *)
(* output directory and may be killed.                                        *)
(*                                                                            *)
(* Reals are whole multiples of 1/Unit, rounded down; where the program adds  *)
(* floats in an order that depends on the labels and the exact sums are equal *)
(* either may come out larger, by what Rounding stands for.  How a memory     *)
(* groups its records is ClusterMemory and BlockMemory; here it is open.      *)
EXTENDS Integers, SequencesExt

CONSTANTS
  Setups,          \* the configurations: program, samples, layers, variants, tokens
  FactRanges,      \* what a sample may be: the token ranges of its facts, its target
  Clusterings(_),  \* how a memory may group records, best group first
  BlockSize, MaximumVariants, TopN, Trials,
  Criteria,        \* the thresholds a variant has to meet
  Unit,            \* the fractions reals are rounded to
  MaxLaunches      \* bound: launches in the output directory

\* An axis of the grid without values, or a model without memory layers, is refused
\* before a launch begins.
ASSUME CalibrationAssumption ==
  /\ {BlockSize, TopN, Trials, Unit} \subseteq Nat \ {0}
  /\ \A s \in Setups : /\ s.program \in {"cluster", "block"}
                       /\ {s.samples, s.variants, s.layers} \subseteq Nat \ {0} /\ s.tokens \in Nat
  /\ {Criteria.gain, Criteria.consistent} \subseteq Int

VARIABLES
  setup,     \* the configuration of the launch that runs
  step,      \* where it is
  sample, variant,
  fixed,     \* the captured sample: labels of its records, records of the target
  rows,      \* the rows measured in this launch, in memory
  launch,    \* the number of launches so far
  resolved,  \* config.resolved.json: the launch and configuration that wrote it
  samples,   \* sample_metrics.jsonl: of each row the launch, sample, variant, layer
  metrics    \* metrics.json

calibrationVars ==
  <<setup, step, sample, variant, fixed, rows, launch, resolved, samples, metrics>>

None == [launch |-> 0]
Nothing == [labels |-> <<>>, targets |-> {}]

Variants == 1..setup.variants

(******************************** the labels ********************************)

Tokens(r) == r.from..(r.to - 1)

BlockTokens(b) == (b * BlockSize)..(b * BlockSize + BlockSize - 1)

RecordsOfSample(s) ==
  IF s.program = "block" THEN 0..(s.tokens \div BlockSize - 1) ELSE 0..(s.tokens - 1)

\* A memory has every record in one of its clusters.
ASSUME ClusteringsAssumption ==
  \A s \in Setups : \A ranked \in Clusterings(RecordsOfSample(s)) :
    /\ ranked \in Seq(SUBSET RecordsOfSample(s))
    /\ \A r \in RecordsOfSample(s) : \E i \in DOMAIN ranked : r \in ranked[i]

\* A token's fact; ranges of different facts must not overlap.
FactsOfToken(ranges, p) == {r.fact : r \in {q \in ranges : p \in Tokens(q)}}

TokenLabels(ranges, records) ==
  [p \in {q \in records : FactsOfToken(ranges, q) # {}} |->
     CHOOSE f \in FactsOfToken(ranges, p) : TRUE]

\* A block's label is the fact with most of its tokens, of several the first.
Overlap(ranges, b, f) ==
  MapThenSumSet(LAMBDA r : Cardinality(BlockTokens(b) \cap Tokens(r)),
                {r \in ranges : r.fact = f})

FactsOfBlock(ranges, b) == {f \in {r.fact : r \in ranges} : Overlap(ranges, b, f) > 0}

BlockLabels(ranges, records) ==
  [b \in {c \in records : FactsOfBlock(ranges, c) # {}} |->
     LET most == Max({Overlap(ranges, b, f) : f \in FactsOfBlock(ranges, b)})
     IN Min({f \in FactsOfBlock(ranges, b) : Overlap(ranges, b, f) = most})]

\* A block holds the target if any of its tokens is the target's.
Captured(s, facts) ==
  LET records == RecordsOfSample(s)
      labels == IF s.program = "block" THEN BlockLabels(facts.ranges, records)
                                       ELSE TokenLabels(facts.ranges, records)
  IN [labels |-> labels,
      targets |-> IF s.program = "block"
                    THEN {b \in records : facts.target \in FactsOfBlock(facts.ranges, b)}
                    ELSE {p \in DOMAIN labels : labels[p] = facts.target}]

\* A capture is refused without two facts, without the target, and, token by
\* token, if two facts claim one token.
Labelled(s, facts) ==
  LET captured == Captured(s, facts)
  IN /\ Cardinality(Range(captured.labels)) >= 2
     /\ captured.targets # {}
     /\ s.program = "cluster" =>
          \A p \in RecordsOfSample(s) : Cardinality(FactsOfToken(facts.ranges, p)) <= 1

(******************************* the measures *******************************)

Share(n, d) == (Unit * n) \div d

MeanOver(value) == FoldFunction(+, 0, value) \div Cardinality(DOMAIN value)

ClusterOf(ranked, r) == CHOOSE c \in Range(ranked) : r \in c

\* B-cubed: how much of a record's group has its fact, how much of its fact is
\* in its group, over the labelled records; F1 of the two means.
BCubed(ranked, labels) ==
  LET labelled == DOMAIN labels
      Group(r) == ClusterOf(ranked, r) \cap labelled
      Fact(r) == {q \in labelled : labels[q] = labels[r]}
      precision == MeanOver([r \in labelled |->
                     Share(Cardinality(Group(r) \cap Fact(r)), Cardinality(Group(r)))])
      recall == MeanOver([r \in labelled |->
                  Share(Cardinality(Group(r) \cap Fact(r)), Cardinality(Fact(r)))])
  IN IF precision + recall = 0 THEN 0
     ELSE (2 * precision * recall) \div (precision + recall)

\* Mutant: labels are drawn anew instead of dealt out.
DrawnLabels(labels) == [DOMAIN labels -> Range(labels)]

\* The labels dealt out anew to the same records.
Shuffles(labels) ==
  {other \in [DOMAIN labels -> Range(labels)] :
     \A f \in Range(labels) :
       Cardinality({r \in DOMAIN other : other[r] = f})
         = Cardinality({r \in DOMAIN labels : labels[r] = f})}

\* The k-th smallest of the values.
Ordered(values, k) ==
  CHOOSE x \in Range(values) : /\ Cardinality({i \in DOMAIN values : values[i] < x}) < k
                              /\ Cardinality({i \in DOMAIN values : values[i] <= x}) >= k

\* A percentile between two of the ordered values lies between them in proportion.
Percentile(values, percent) ==
  LET position == percent * (Len(values) - 1)
      lower == position \div 100
      weight == position % 100
      upper == IF weight = 0 THEN lower ELSE lower + 1
  IN (Ordered(values, lower + 1) * (100 - weight) + Ordered(values, upper + 1) * weight) \div 100

\* The last place of a float, as a fraction: what two sums of the same shares in
\* different orders may differ by.
Rounding == 1

\* How a shuffling whose exact score is another's may come out beside that one.
Rounded(exact, other) == IF exact = other THEN (exact - Rounding)..(exact + Rounding) ELSE {exact}

\* What shufflings score beside the score f1 of the facts.
Baselines(ranked, trials, f1) ==
  LET exact == [t \in 1..Trials |-> BCubed(ranked, trials[t])]
      scores == {values \in [1..Trials -> UNION {Rounded(exact[t], f1) : t \in 1..Trials}] :
                   \A t \in 1..Trials : values[t] \in Rounded(exact[t], f1)}
  IN {[mean |-> FoldFunction(+, 0, values) \div Trials, p95 |-> Percentile(values, 95)] :
        values \in scores}

ClusterSizes(ranked) ==
  LET sizes == [i \in 1..Len(ranked) |-> Unit * Cardinality(ranked[i])]
  IN [singles |-> Share(Cardinality({i \in DOMAIN sizes : sizes[i] = Unit}), Len(ranked)),
      size |-> FoldFunction(+, 0, sizes) \div Len(ranked),
      p95 |-> Percentile(sizes, 95)]

\* The records of the first groups: the share of the target, of the memory.
Retrieval(ranked) ==
  LET chosen == UNION {ranked[i] : i \in 1..Min({TopN, Len(ranked)})}
  IN [recall |-> Share(Cardinality(chosen \cap fixed.targets), Cardinality(fixed.targets)),
      ratio |-> Share(Cardinality(chosen), Cardinality(RecordsOfSample(setup)))]

\* Groups that tell nothing of the facts, whatever these are: all labelled records
\* in one group, or each in one of its own.
Flat(ranked) ==
  LET groups == {c \cap DOMAIN fixed.labels : c \in Range(ranked)} \ {{}}
  IN Cardinality(groups) = 1 \/ \A g \in groups : Cardinality(g) = 1

Measures(ranked, trials) ==
  LET f1 == BCubed(ranked, fixed.labels)
      sizes == ClusterSizes(ranked)
      retrieval == Retrieval(ranked)
  IN {[sample |-> sample, variant |-> variant, flat |-> Flat(ranked),
       f1 |-> f1, gain |-> f1 - baseline.mean,
       beats |-> IF f1 > baseline.p95 THEN Unit ELSE 0,
       singles |-> sizes.singles, size |-> sizes.size, p95 |-> sizes.p95,
       recall |-> retrieval.recall, ratio |-> retrieval.ratio] :
        baseline \in Baselines(ranked, trials, f1)}

(******************************* the selection *******************************)

RowsOfSample(v) == {i \in DOMAIN rows : rows[i].variant = v}

\* The mean of a measure over the samples and layers a variant was measured on.
MeanOf(v, measure) == MeanOver([i \in RowsOfSample(v) |-> rows[i][measure]])

SeparatesFacts(v) ==
  /\ MeanOf(v, "f1") >= Criteria.f1
  /\ MeanOf(v, "gain") >= Criteria.gain
  /\ MeanOf(v, "beats") >= Criteria.consistent
  /\ setup.program = "block" => MeanOf(v, "recall") >= Criteria.recall

AllocatesWell(v) ==
  /\ MeanOf(v, "singles") <= Criteria.singles
  /\ MeanOf(v, "size") >= Criteria.size
  /\ MeanOf(v, "p95") <= Criteria.p95
  /\ setup.program = "block" => MeanOf(v, "ratio") <= Criteria.ratio

Before(x, y) ==
  \E i \in DOMAIN x : x[i] < y[i] /\ \A j \in 1..(i - 1) : x[j] = y[j]

FirstBy(key) ==
  CHOOSE v \in DOMAIN key : \A w \in DOMAIN key \ {v} : Before(key[v], key[w])

\* Mutant: what counts most is sorted the wrong way round.
Ascending(v) ==
  IF setup.program = "block"
    THEN <<MeanOf(v, "recall"), -MeanOf(v, "f1"), MeanOf(v, "ratio"), v>>
    ELSE <<MeanOf(v, "f1"), MeanOf(v, "singles"), v>>

EligibleOrder(v) ==
  IF setup.program = "block"
    THEN <<-MeanOf(v, "recall"), -MeanOf(v, "f1"), MeanOf(v, "ratio"), v>>
    ELSE <<-MeanOf(v, "f1"), MeanOf(v, "singles"), v>>

BestOrder(v) ==
  IF setup.program = "block"
    THEN <<-MeanOf(v, "gain"), -MeanOf(v, "recall"), MeanOf(v, "ratio"), v>>
    ELSE <<-MeanOf(v, "gain"), -MeanOf(v, "beats"), v>>

\* What is chosen, and, if nothing is, whether the grid or the structure is to
\* blame: judged by the one variant with the largest gain.
SelectVariant ==
  LET eligible == {v \in Variants : SeparatesFacts(v) /\ AllocatesWell(v)}
      best == FirstBy([v \in Variants |-> BestOrder(v)])
      count == Cardinality({rows[i].sample : i \in DOMAIN rows})
  IN [selected |-> IF eligible = {} THEN 0 ELSE FirstBy([v \in eligible |-> EligibleOrder(v)]),
      status |-> IF eligible # {} THEN "calibrated"
                 ELSE IF count < Criteria.samples THEN "insufficient_conditions"
                 ELSE IF ~SeparatesFacts(best) THEN "possible_structural_limit"
                 ELSE "grid_did_not_meet_allocation_constraints"]

(********************************* the runs *********************************)

CalibrationInit ==
  /\ setup \in Setups /\ step = "idle" /\ sample = 0 /\ variant = 0
  /\ fixed = Nothing /\ rows = <<>> /\ launch = 0
  /\ resolved = None /\ samples = <<>> /\ metrics = None

Begin(s) == [launch |-> launch + 1, setup |-> s]

\* The block program checks its configuration before it writes anything, the other
\* one when its configuration is written and before it opens the sample file.
Launch ==
  /\ step \in {"idle", "ended", "failed"} /\ launch < MaxLaunches
  /\ \E s \in Setups :
       /\ setup' = s
       /\ resolved' = IF s.program = "block" /\ s.variants > MaximumVariants
                        THEN resolved ELSE Begin(s)
       /\ step' = IF s.variants > MaximumVariants THEN "failed" ELSE "open"
  /\ launch' = launch + 1 /\ sample' = 0 /\ variant' = 0 /\ rows' = <<>> /\ fixed' = Nothing
  /\ UNCHANGED <<samples, metrics>>

\* Mutant: the sample file is opened to append.
OpenedToAppend ==
  /\ step = "open"
  /\ step' = "capture"
  /\ UNCHANGED <<setup, sample, variant, fixed, rows, launch, resolved, samples, metrics>>

\* The sample file starts empty: rows of earlier launches are gone.
OpenSamples ==
  /\ step = "open"
  /\ step' = "capture" /\ samples' = <<>>
  /\ UNCHANGED <<setup, sample, variant, fixed, rows, launch, resolved, metrics>>

\* The next sample is collected once, for all variants.
Capture ==
  /\ step = "capture" /\ sample < setup.samples
  /\ \E facts \in FactRanges :
       IF Labelled(setup, facts)
         THEN /\ fixed' = Captured(setup, facts)
              /\ sample' = sample + 1 /\ variant' = 1 /\ step' = "variants"
         ELSE /\ step' = "failed"
              /\ UNCHANGED <<fixed, sample, variant>>
  /\ UNCHANGED <<setup, rows, launch, resolved, samples, metrics>>

Keys == [l \in 1..setup.layers |-> <<launch, sample, variant, l>>]

\* What a layer of the captured sample may measure.
Outcomes == UNION {Measures(ranked, trials) : ranked \in Clusterings(RecordsOfSample(setup)),
                                              trials \in [1..Trials -> Shuffles(fixed.labels)]}

\* A variant takes the captured records into an empty memory, one per layer, and is
\* measured; its rows, one per layer, reach the file together.
EvaluateVariant ==
  /\ step = "variants"
  /\ \E new \in [1..setup.layers -> Outcomes] : rows' = rows \o new
  /\ samples' = samples \o Keys
  /\ IF variant < setup.variants
       THEN variant' = variant + 1 /\ UNCHANGED <<step, fixed>>
       ELSE variant' = 0 /\ step' = "capture" /\ fixed' = Nothing
  /\ UNCHANGED <<setup, sample, launch, resolved, metrics>>

\* When every sample has been used the variants are compared and the result is
\* written in place.
Publish ==
  /\ step = "capture" /\ sample = setup.samples
  /\ step' = "ended"
  /\ metrics' = [launch |-> launch, setup |-> setup, selection |-> SelectVariant,
                 measured |-> [i \in DOMAIN rows |-> <<rows[i].sample, rows[i].variant>>]]
  /\ UNCHANGED <<setup, sample, variant, fixed, rows, launch, resolved, samples>>

\* A kill leaves of the rows being written any number, and of the result being
\* written a torn file.
Killed ==
  /\ step \in {"open", "capture", "variants"}
  /\ step' = "failed" /\ rows' = <<>> /\ fixed' = Nothing
  /\ IF step = "variants"
       THEN \E n \in 0..setup.layers :
              samples' = samples \o SubSeq(Keys, 1, n)
       ELSE UNCHANGED samples
  /\ IF step = "capture" /\ sample = setup.samples
       THEN metrics' \in {metrics, None}
       ELSE UNCHANGED metrics
  /\ UNCHANGED <<setup, sample, variant, launch, resolved>>

CalibrationNext == Launch \/ OpenSamples \/ Capture \/ EvaluateVariant \/ Publish \/ Killed

CalibrationSpec == CalibrationInit /\ [][CalibrationNext]_calibrationVars

(******************************** properties ********************************)

Ended == step = "ended"

\* Groups that say nothing of the facts gain nothing over shuffled facts, however
\* unevenly the facts are spread: the score of all in one group, or of each alone,
\* depends on how many records a fact has, not on which. Only the rounding of the
\* sums is left, which is enough to beat shuffles that score the same.
FlatGainsNothing ==
  \A i \in DOMAIN rows : rows[i].flat => rows[i].gain \in -Rounding..Rounding

\* A finished launch leaves one run: its configuration, and of every sample, variant
\* and layer one row, the same in the file and behind the result, whatever launches
\* went before in the directory and where they were killed.
EndedIsOneRun ==
  Ended =>
    /\ metrics.launch = launch /\ resolved = [launch |-> launch, setup |-> setup]
    /\ metrics.measured = [i \in DOMAIN samples |-> <<samples[i][2], samples[i][3]>>]
    /\ IsInjective(samples)
    /\ Range(samples) = {<<launch, s, v, l>> :
                           s \in 1..setup.samples, v \in Variants, l \in 1..setup.layers}

\* Wherever a gain over shuffled facts above the rounding is asked for, a variant is
\* chosen only if its groups tell the facts apart in some sample (to be consistently
\* above the shuffles does not suffice: a tie may be rounded upwards every time); and
\* always only if it meets every threshold, and if no variant that does is better by
\* what counts first, the target's recall for blocks and F1 for tokens. Groups that
\* say nothing of the facts gain no more than the rounding.
ChosenStandsOnTheRows ==
  /\ FlatGainsNothing
  /\ Ended /\ metrics.selection.selected # 0 =>
       LET v == metrics.selection.selected
           first == IF setup.program = "block" THEN "recall" ELSE "f1"
       IN /\ Criteria.gain > Rounding => \E i \in RowsOfSample(v) : ~rows[i].flat
          /\ SeparatesFacts(v) /\ AllocatesWell(v)
          /\ \A w \in Variants : SeparatesFacts(w) /\ AllocatesWell(w) =>
                                   MeanOf(w, first) <= MeanOf(v, first)

\* The structure is blamed only when no variant tells the facts apart
\* (memory_cluster_calibration/README.md:21).
StructuralLimitMeansNoSeparation ==
  Ended /\ metrics.selection.status = "possible_structural_limit" =>
    \A v \in Variants : ~SeparatesFacts(v)
==============================================================================
