---------------------------- MODULE PipelineProofs ----------------------------
(***************************************************************************)
(* Proofs about the four router pipelines of RouterPipelines, for every    *)
(* number of splits, blocks, epochs and kills: a command that is started   *)
(* reads whole files only, and what a completed training pipeline leaves   *)
(* is of one training run, but for a launch that is requeued onto what a   *)
(* kill within the clearing of its workspace left.                         *)
(*                                                                         *)
(* The invariant PipelineInv says what each launch may rely on, though it  *)
(* sees only the files: which stages it is past (TodoInv), what its        *)
(* command has left to write (WriteInv), which files are there only behind *)
(* which others (PairsInv), what the stages it is past have left           *)
(* (ProgressInv), and that checkpoint, rows, summary, evaluations, the     *)
(* trainer and the exported artifacts agree on the run they are of         *)
(* (ResultsInv, TornInv, RowsInv, FitInv, ExportInv).                      *)
(*                                                                         *)
(* The last part is about what a sweep over thresholds or budgets leaves,  *)
(* for every data set, loss and placement of the kills: a summary counts   *)
(* every sample once, by rows of its own evaluation as far as the state    *)
(* file tells, and a higher threshold retains no record that a lower one   *)
(* gives up, and every cluster its floor (SweepInv).                       *)
(***************************************************************************)
EXTENDS RouterPipelines, ReplaySweeps, TLAPS, FiniteSetTheorems, WellFoundedInduction

\* w is a sequence, of whatever elements.
IsSeq(w) == \E S : w \in Seq(S)

------------------------------------------------------------------------------
(* Sequences.                                                               *)

\* What is left behind the head.
LEMMA TailFacts ==
  ASSUME NEW w, IsSeq(w), w # <<>>
  PROVE  /\ IsSeq(Tail(w)) /\ 1 \in DOMAIN w /\ Head(w) = w[1]
         /\ \A i \in DOMAIN Tail(w) : i \in Nat /\ i >= 1 /\ i + 1 \in DOMAIN w /\ Tail(w)[i] = w[i + 1]
         /\ \A i \in DOMAIN w : i \in Nat /\ i >= 1
         /\ \A i \in DOMAIN w : i # 1 => i - 1 \in DOMAIN Tail(w) /\ Tail(w)[i - 1] = w[i]
<1>1. PICK S : w \in Seq(S)
  BY DEF IsSeq
<1>2. Tail(w) \in Seq(S) /\ Len(Tail(w)) = Len(w) - 1 /\ Len(w) \in Nat /\ Len(w) >= 1
  BY <1>1
<1>3. \A i \in 1..Len(Tail(w)) : Tail(w)[i] = w[i + 1]
  BY <1>1
<1>4. DOMAIN w = 1..Len(w) /\ DOMAIN Tail(w) = 1..Len(Tail(w)) /\ Head(w) = w[1]
  BY <1>1, <1>2
<1> QED BY <1>2, <1>3, <1>4 DEF IsSeq

\* Two sequences, one behind the other.
LEMMA ConcatFacts ==
  ASSUME NEW a, NEW b, IsSeq(a), IsSeq(b)
  PROVE  /\ IsSeq(a \o b) /\ Len(a) \in Nat /\ Len(b) \in Nat
         /\ Len(a \o b) = Len(a) + Len(b)
         /\ DOMAIN a = 1..Len(a) /\ DOMAIN b = 1..Len(b) /\ DOMAIN (a \o b) = 1..(Len(a) + Len(b))
         /\ \A i \in DOMAIN (a \o b) :
              (a \o b)[i] = IF i <= Len(a) THEN a[i] ELSE b[i - Len(a)]
         /\ ToSet(a \o b) = ToSet(a) \cup ToSet(b)
<1>1. PICK S, T : a \in Seq(S) /\ b \in Seq(T)
  BY DEF IsSeq
<1>2. a \in Seq(S \cup T) /\ b \in Seq(S \cup T)
  BY <1>1
<1>3. /\ a \o b \in Seq(S \cup T) /\ Len(a) \in Nat /\ Len(b) \in Nat
      /\ Len(a \o b) = Len(a) + Len(b)
      /\ DOMAIN a = 1..Len(a) /\ DOMAIN b = 1..Len(b) /\ DOMAIN (a \o b) = 1..(Len(a) + Len(b))
  BY <1>2
<1>4. \A i \in DOMAIN (a \o b) : (a \o b)[i] = IF i <= Len(a) THEN a[i] ELSE b[i - Len(a)]
  BY <1>2, <1>3
<1>5. ToSet(a \o b) \subseteq ToSet(a) \cup ToSet(b)
  BY <1>3, <1>4 DEF ToSet
<1>6. ASSUME NEW i \in DOMAIN a PROVE i \in DOMAIN (a \o b) /\ (a \o b)[i] = a[i]
  BY <1>3, <1>4
<1>7. ASSUME NEW i \in DOMAIN b PROVE i + Len(a) \in DOMAIN (a \o b) /\ (a \o b)[i + Len(a)] = b[i]
  BY <1>3, <1>4
<1>8. ToSet(a) \cup ToSet(b) \subseteq ToSet(a \o b)
  BY <1>6, <1>7 DEF ToSet
<1> QED BY <1>3, <1>4, <1>5, <1>8 DEF IsSeq

\* A function on 1..n is a sequence.
LEMMA SequenceOf ==
  ASSUME NEW n \in Nat, NEW S, NEW f \in [1..n -> S]
  PROVE  IsSeq(f) /\ Len(f) = n
<1>1. f \in Seq(S)
  OBVIOUS
<1> QED BY <1>1 DEF IsSeq

------------------------------------------------------------------------------
(* The order of the stages: the place of each among all stages a launch of    *)
(* its kind may have.                                                         *)

\* The splits, and the place of each among them.
SplitSet == ToSet(Splits)

Place(s) == CHOOSE k \in DOMAIN Splits : Splits[k] = s

\* The place of a stage in a launch of the configuration j.
RankOf(j, x) ==
  LET n == Len(Splits)
      k == Place(x.split)
      region == j.kind = "region"
  IN CASE x.name = "configure" -> 0
       [] x.name = "prepare" -> 3 * k
       [] x.name = "collect" ->
            IF j.ephemeral \/ j.kind = "evaluation" THEN 3 * k + 1 ELSE 3 * n + k
       [] x.name = "cleanup" -> 3 * k + 2
       [] x.name = "train" -> IF region THEN 4 ELSE 4 * n + 1
       [] x.name = "evaluate" -> IF region THEN 3 * k + 1 ELSE 4 * n + 1 + k
       [] x.name \in {"qa", "replay"} -> 5 * n + 2
       [] x.name = "manifest" -> 5 * n + 3
       [] x.name = "export" -> 5 * n + 4
       [] x.name = "clear" -> 5 * n + 5

Rank(x) == RankOf(job, x)

\* Each stage is before the next.
Ascends(seq) == \A i, j \in DOMAIN seq : i < j => Rank(seq[i]) < Rank(seq[j])

\* The workspace of the launch is not cleared yet.
Working == phase = "running" /\ (todo # <<>> \/ ~job.tmp)

\* The launch is done with the stage x of its stages.
Passed(x) == Working /\ x \in ToSet(Stages) /\ x \notin ToSet(todo)

\* What a launch has left are the stages from the next one on.
TodoInv ==
  /\ job \in Jobs /\ IsSeq(todo)
  /\ phase = "running" /\ todo # <<>> =>
       /\ Ascends(todo)
       /\ Head(todo) \in ToSet(Stages)
       /\ \A x : x \in ToSet(todo) <=> x \in ToSet(Stages) /\ Rank(x) >= Rank(Head(todo))
  /\ phase # "running" => todo = <<>> /\ write = <<>> /\ fit = NoFit
  /\ fit # NoFit => phase = "running" /\ todo # <<>> /\ Head(todo) = Stage("train", "all") /\ write = <<>>

------------------------------------------------------------------------------
(* The stages of a launch, in ascending order of their places.              *)

\* The places of the stages of seq ascend from lo to hi.
Ranked(seq, lo, hi) ==
  /\ IsSeq(seq) /\ Ascends(seq)
  /\ \A i \in DOMAIN seq : Rank(seq[i]) \in Nat /\ lo <= Rank(seq[i]) /\ Rank(seq[i]) <= hi

\* Stages whose places ascend, and behind them others with higher places.
LEMMA RankedConcat ==
  ASSUME NEW a, NEW b, NEW lo \in Nat, NEW mid \in Nat, NEW above \in Nat, NEW hi \in Nat,
         Ranked(a, lo, mid), Ranked(b, above, hi), lo <= mid, mid < above, above <= hi
  PROVE  Ranked(a \o b, lo, hi)
<1>1. IsSeq(a) /\ IsSeq(b)
  BY DEF Ranked
<1>2. /\ IsSeq(a \o b) /\ Len(a) \in Nat /\ Len(b) \in Nat
      /\ DOMAIN a = 1..Len(a) /\ DOMAIN b = 1..Len(b) /\ DOMAIN (a \o b) = 1..(Len(a) + Len(b))
      /\ \A i \in DOMAIN (a \o b) : (a \o b)[i] = IF i <= Len(a) THEN a[i] ELSE b[i - Len(a)]
  BY <1>1, ConcatFacts
<1>3. ASSUME NEW i \in DOMAIN (a \o b)
      PROVE  \/ i \in DOMAIN a /\ (a \o b)[i] = a[i]
             \/ i - Len(a) \in DOMAIN b /\ i > Len(a) /\ (a \o b)[i] = b[i - Len(a)]
  BY <1>2
<1>4. /\ \A i \in DOMAIN a : Rank(a[i]) \in Nat /\ lo <= Rank(a[i]) /\ Rank(a[i]) <= mid
      /\ \A i \in DOMAIN b : Rank(b[i]) \in Nat /\ above <= Rank(b[i]) /\ Rank(b[i]) <= hi
      /\ \A i, j \in DOMAIN a : i < j => Rank(a[i]) < Rank(a[j])
      /\ \A i, j \in DOMAIN b : i < j => Rank(b[i]) < Rank(b[j])
  BY DEF Ranked, Ascends
<1>5. \A i \in DOMAIN (a \o b) :
        Rank((a \o b)[i]) \in Nat /\ lo <= Rank((a \o b)[i]) /\ Rank((a \o b)[i]) <= hi
  BY <1>3, <1>4
<1>6. ASSUME NEW i \in DOMAIN (a \o b), NEW j \in DOMAIN (a \o b), i < j
      PROVE  Rank((a \o b)[i]) < Rank((a \o b)[j])
  <2>1. i \in Nat /\ j \in Nat /\ DOMAIN a = 1..Len(a) /\ Len(a) \in Nat
    BY <1>2
  <2>2. CASE j \in DOMAIN a /\ (a \o b)[j] = a[j]
    <3>1. i \in DOMAIN a /\ (a \o b)[i] = a[i]
      BY <2>1, <2>2, <1>2, <1>6
    <3> QED BY <3>1, <2>2, <1>4, <1>6
  <2>3. CASE j - Len(a) \in DOMAIN b /\ j > Len(a) /\ (a \o b)[j] = b[j - Len(a)]
    <3>1. CASE i \in DOMAIN a /\ (a \o b)[i] = a[i]
      BY <3>1, <2>3, <1>4
    <3>2. CASE i - Len(a) \in DOMAIN b /\ i > Len(a) /\ (a \o b)[i] = b[i - Len(a)]
      <4>1. i - Len(a) < j - Len(a)
        BY <2>1, <1>6
      <4> QED BY <4>1, <3>2, <2>3, <1>4
    <3> QED BY <3>1, <3>2, <1>3
  <2> QED BY <2>2, <2>3, <1>3
<1> QED BY <1>2, <1>5, <1>6 DEF Ranked, Ascends

\* The splits a router is evaluated on.
EvaluatedSet == ToSet(EvaluationSplits)

\* The splits and their places.
LEMMA SplitFacts ==
  /\ Len(Splits) \in Nat /\ Len(Splits) >= 2 /\ DOMAIN Splits = 1..Len(Splits)
  /\ \A k \in 1..Len(Splits) : Place(Splits[k]) = k /\ Splits[k] \in SplitSet
  /\ \A s \in SplitSet : Place(s) \in 1..Len(Splits) /\ Splits[Place(s)] = s
  /\ Len(EvaluationSplits) = Len(Splits) - 1
  /\ \A k \in 1..(Len(Splits) - 1) : EvaluationSplits[k] = Splits[k + 1]
  /\ \A k \in 1..(Len(Splits) - 1) : /\ Place(EvaluationSplits[k]) = k + 1
                                     /\ EvaluationSplits[k] \in EvaluatedSet
  /\ \A s \in EvaluatedSet : \E k \in 1..(Len(Splits) - 1) : EvaluationSplits[k] = s
  /\ EvaluatedSet = SplitSet \ {TrainSplit}
  /\ TrainSplit \in SplitSet /\ Place(TrainSplit) = 1
  /\ Last(Splits) \in EvaluatedSet /\ Place(Last(Splits)) = Len(Splits)
  /\ TrainSplit = Splits[1] /\ Last(Splits) = Splits[Len(Splits)]
<1>1. /\ Splits \in Seq(ToSet(Splits)) /\ Len(Splits) >= 2
      /\ \A i, j \in DOMAIN Splits : Splits[i] = Splits[j] => i = j
  BY PipelinesAssumption DEF PipelinesAssumption, IsInjective
<1>2. Len(Splits) \in Nat /\ DOMAIN Splits = 1..Len(Splits)
  BY <1>1
<1>3. \A k \in 1..Len(Splits) : Place(Splits[k]) = k /\ Splits[k] \in SplitSet
  <2> TAKE k \in 1..Len(Splits)
  <2>1. Splits[Place(Splits[k])] = Splits[k] /\ Place(Splits[k]) \in DOMAIN Splits
    BY <1>2 DEF Place
  <2> QED BY <2>1, <1>1, <1>2 DEF SplitSet, ToSet
<1>4. \A s \in SplitSet : \E k \in 1..Len(Splits) : Splits[k] = s
  BY <1>2 DEF SplitSet, ToSet
<1>5. /\ Len(Tail(Splits)) = Len(Splits) - 1
      /\ \A k \in 1..(Len(Splits) - 1) : Tail(Splits)[k] = Splits[k + 1]
  BY <1>1, <1>2
<1>6. /\ Len(EvaluationSplits) = Len(Splits) - 1 /\ DOMAIN EvaluationSplits = 1..(Len(Splits) - 1)
      /\ \A k \in 1..(Len(Splits) - 1) : EvaluationSplits[k] = Splits[k + 1]
  BY <1>1, <1>2, <1>5 DEF EvaluationSplits
<1>7. \A k \in 1..(Len(Splits) - 1) : /\ Place(EvaluationSplits[k]) = k + 1
                                       /\ EvaluationSplits[k] \in EvaluatedSet
  BY <1>2, <1>3, <1>6 DEF EvaluatedSet, ToSet
<1>8. \A s \in EvaluatedSet : \E k \in 1..(Len(Splits) - 1) : EvaluationSplits[k] = s
  BY <1>6 DEF EvaluatedSet, ToSet
<1>9. /\ TrainSplit = Splits[1] /\ Last(Splits) = Splits[Len(Splits)]
      /\ TrainSplit \in SplitSet /\ Place(TrainSplit) = 1 /\ Place(Last(Splits)) = Len(Splits)
  BY <1>1, <1>2, <1>3 DEF TrainSplit, Last
<1>10. Last(Splits) \in EvaluatedSet
  <2>1. EvaluationSplits[Len(Splits) - 1] = Last(Splits) /\ Len(Splits) - 1 \in 1..(Len(Splits) - 1)
    BY <1>1, <1>2, <1>6, <1>9
  <2> QED BY <2>1, <1>7
<1>11. EvaluatedSet = SplitSet \ {TrainSplit}
  <2>1. ASSUME NEW s \in EvaluatedSet PROVE s \in SplitSet \ {TrainSplit}
    <3>1. PICK k \in 1..(Len(Splits) - 1) : EvaluationSplits[k] = s
      BY <1>8
    <3>2. k + 1 \in 1..Len(Splits) /\ s = Splits[k + 1] /\ Place(s) = k + 1 /\ k + 1 # 1
      BY <3>1, <1>2, <1>6, <1>7
    <3> QED BY <3>2, <1>3, <1>9
  <2>2. ASSUME NEW s \in SplitSet, s # TrainSplit PROVE s \in EvaluatedSet
    <3>1. PICK k \in 1..Len(Splits) : Splits[k] = s
      BY <1>4
    <3>2. k # 1 /\ k - 1 \in 1..(Len(Splits) - 1) /\ (k - 1) + 1 = k
      BY <3>1, <2>2, <1>2, <1>9
    <3> QED BY <3>1, <3>2, <1>6, <1>7
  <2> QED BY <2>1, <2>2
<1> QED BY <1>1, <1>2, <1>3, <1>4, <1>6, <1>7, <1>8, <1>9, <1>10, <1>11

\* The place of the i-th of stages that come three for each split.
LEMMA ThreeInTurn ==
  ASSUME NEW m \in Nat, NEW i \in 1..(3 * m)
  PROVE  /\ ((i - 1) \div 3) + 1 \in 1..m
         /\ ((i - 1) % 3) + 1 \in 1..3
         /\ i = 3 * ((((i - 1) \div 3) + 1) - 1) + ((i - 1) % 3) + 1
OBVIOUS

\* The places of the stages.
LEMMA RankFacts ==
  /\ \A s : Rank(Stage("prepare", s)) = 3 * Place(s)
  /\ \A s : job.ephemeral \/ job.kind = "evaluation" => Rank(Stage("collect", s)) = 3 * Place(s) + 1
  /\ \A s : ~(job.ephemeral \/ job.kind = "evaluation") =>
       Rank(Stage("collect", s)) = 3 * Len(Splits) + Place(s)
  /\ \A s : Rank(Stage("cleanup", s)) = 3 * Place(s) + 2
  /\ \A s : job.kind = "region" => Rank(Stage("evaluate", s)) = 3 * Place(s) + 1
  /\ \A s : job.kind # "region" => Rank(Stage("evaluate", s)) = 4 * Len(Splits) + 1 + Place(s)
  /\ job.kind = "region" => Rank(Stage("train", "all")) = 4
  /\ job.kind # "region" => Rank(Stage("train", "all")) = 4 * Len(Splits) + 1
  /\ \A s : Rank(Stage("qa", s)) = 5 * Len(Splits) + 2
  /\ \A s : Rank(Stage("replay", s)) = 5 * Len(Splits) + 2
  /\ Rank(Stage("configure", "all")) = 0
  /\ Rank(Stage("manifest", "all")) = 5 * Len(Splits) + 3
  /\ Rank(Stage("export", "all")) = 5 * Len(Splits) + 4
  /\ Rank(Stage("clear", "all")) = 5 * Len(Splits) + 5
BY DEF Rank, RankOf, Stage

\* Split after split, as the aligned pipelines do with inputs they remove again.
LEMMA AlignedRanked ==
  ASSUME job.ephemeral \/ job.kind = "evaluation"
  PROVE  /\ Ranked(InTurn(3, Aligned, Splits), 3, 3 * Len(Splits) + 2)
         /\ \A x : x \in ToSet(InTurn(3, Aligned, Splits)) <=>
              \E s \in SplitSet : x \in {Stage("prepare", s), Stage("collect", s), Stage("cleanup", s)}
<1> DEFINE A == InTurn(3, Aligned, Splits)
           q == Splits
           n == Len(Splits)
           Nth(i) == ((i - 1) \div 3) + 1
           Rem(i) == ((i - 1) % 3) + 1
<1>1. n \in Nat /\ A = [i \in 1..(3 * n) |-> Aligned(q[Nth(i)])[Rem(i)]]
  BY SplitFacts DEF InTurn
<1>2. \A k \in 1..n : Place(q[k]) = k + 0 /\ q[k] \in SplitSet
  BY SplitFacts 
<1>3. \A s \in SplitSet : \E k \in 1..n : q[k] = s
  BY SplitFacts 
<1>4. \A s : /\ Aligned(s)[1] = Stage("prepare", s) /\ Aligned(s)[2] = Stage("collect", s)
             /\ Aligned(s)[3] = Stage("cleanup", s)
  BY DEF Aligned
<1>5. \A k \in 1..n : /\ Rank(Stage("prepare", q[k])) = 3 * k + 0
                     /\ Rank(Stage("collect", q[k])) = 3 * k + 1
                     /\ Rank(Stage("cleanup", q[k])) = 3 * k + 2
  <2>1. \A s : /\ Rank(Stage("prepare", s)) = 3 * Place(s) /\ Rank(Stage("collect", s)) = 3 * Place(s) + 1
               /\ Rank(Stage("cleanup", s)) = 3 * Place(s) + 2
    BY RankFacts, Zenon
  <2> QED BY <1>1, <1>2, <2>1
<1>6. \A i \in 1..(3 * n) : Nth(i) \in 1..n /\ Rem(i) \in 1..3 /\ i = 3 * (Nth(i) - 1) + Rem(i)
  BY <1>1, ThreeInTurn
<1>7. \A k \in 1..n :
        /\ 3 * k - 2 \in 1..(3 * n) /\ Nth(3 * k - 2) = k /\ Rem(3 * k - 2) = 1
        /\ 3 * k - 1 \in 1..(3 * n) /\ Nth(3 * k - 1) = k /\ Rem(3 * k - 1) = 2
        /\ 3 * k \in 1..(3 * n) /\ Nth(3 * k) = k /\ Rem(3 * k) = 3
  BY <1>1
<1>8. DOMAIN A = 1..(3 * n) /\ IsSeq(A)
  <2>1. A \in [1..(3 * n) -> {A[i] : i \in 1..(3 * n)}] /\ 3 * n \in Nat
    BY <1>1
  <2> QED BY <2>1, SequenceOf
<1>9. \A i \in 1..(3 * n) : A[i] = Aligned(q[Nth(i)])[Rem(i)]
  BY <1>1
<1> HIDE DEF A, q, n, Nth, Rem
<1>10. ASSUME NEW i \in 1..(3 * n)
       PROVE  /\ Rank(A[i]) = i + 2
              /\ A[i] \in {Stage("prepare", q[Nth(i)]), Stage("collect", q[Nth(i)]), Stage("cleanup", q[Nth(i)])}
  <2>1. Nth(i) \in 1..n /\ Rem(i) \in 1..3 /\ i = 3 * (Nth(i) - 1) + Rem(i)
    BY <1>6
  <2>2. A[i] = Aligned(q[Nth(i)])[Rem(i)]
    BY <1>9
  <2>3. CASE Rem(i) = 1
    <3>1. A[i] = Stage("prepare", q[Nth(i)])
      BY <2>2, <2>3, <1>4
    <3>2. Rank(A[i]) = 3 * Nth(i) + 0
      BY <3>1, <2>1, <1>5
    <3>3. 3 * Nth(i) + 0 = i + 2
      BY <2>1, <2>3, <1>1
    <3> QED BY <3>1, <3>2, <3>3
  <2>4. CASE Rem(i) = 2
    <3>1. A[i] = Stage("collect", q[Nth(i)])
      BY <2>2, <2>4, <1>4
    <3>2. Rank(A[i]) = 3 * Nth(i) + 1
      BY <3>1, <2>1, <1>5
    <3>3. 3 * Nth(i) + 1 = i + 2
      BY <2>1, <2>4, <1>1
    <3> QED BY <3>1, <3>2, <3>3
  <2>5. CASE Rem(i) = 3
    <3>1. A[i] = Stage("cleanup", q[Nth(i)])
      BY <2>2, <2>5, <1>4
    <3>2. Rank(A[i]) = 3 * Nth(i) + 2
      BY <3>1, <2>1, <1>5
    <3>3. 3 * Nth(i) + 2 = i + 2
      BY <2>1, <2>5, <1>1
    <3> QED BY <3>1, <3>2, <3>3
  <2> QED BY <2>1, <2>3, <2>4, <2>5
<1>11. Ascends(A)
  BY <1>1, <1>8, <1>10 DEF Ascends
<1>12. \A i \in DOMAIN A : Rank(A[i]) \in Nat /\ 3 <= Rank(A[i]) /\ Rank(A[i]) <= 3 * n + 2
  BY <1>1, <1>8, <1>10
<1>13. Ranked(A, 3, 3 * n + 2)
  BY <1>8, <1>11, <1>12 DEF Ranked
<1>14. ASSUME NEW x, x \in ToSet(A)
       PROVE  \E s \in SplitSet : x \in {Stage("prepare", s), Stage("collect", s), Stage("cleanup", s)}
  <2>1. PICK i \in 1..(3 * n) : x = A[i]
    BY <1>8, <1>14 DEF ToSet
  <2> QED BY <2>1, <1>10, <1>6, <1>2
<1>15. ASSUME NEW s \in SplitSet, NEW x \in {Stage("prepare", s), Stage("collect", s), Stage("cleanup", s)}
       PROVE  x \in ToSet(A)
  <2>1. PICK k \in 1..n : s = q[k]
    BY <1>3
  <2>2. /\ A[3 * k - 2] = Stage("prepare", s) /\ A[3 * k - 1] = Stage("collect", s)
        /\ A[3 * k] = Stage("cleanup", s)
    BY <2>1, <1>4, <1>7, <1>9
  <2> QED BY <2>1, <2>2, <1>7, <1>8 DEF ToSet
<1>16. 3 * n + 2 = 3 * Len(Splits) + 2
  BY SplitFacts DEF n
<1> QED BY <1>13, <1>14, <1>15, <1>16 DEF A

\* The evaluations of a region pipeline.
LEMMA AssessRanked ==
  ASSUME job.kind = "region"
  PROVE  /\ Ranked(InTurn(3, Assess, EvaluationSplits), 6, 3 * Len(Splits) + 2)
         /\ \A x : x \in ToSet(InTurn(3, Assess, EvaluationSplits)) <=>
              \E s \in EvaluatedSet : x \in {Stage("prepare", s), Stage("evaluate", s), Stage("cleanup", s)}
<1> DEFINE A == InTurn(3, Assess, EvaluationSplits)
           q == EvaluationSplits
           n == Len(EvaluationSplits)
           Nth(i) == ((i - 1) \div 3) + 1
           Rem(i) == ((i - 1) % 3) + 1
<1>1. n \in Nat /\ A = [i \in 1..(3 * n) |-> Assess(q[Nth(i)])[Rem(i)]]
  BY SplitFacts DEF InTurn
<1>2. \A k \in 1..n : Place(q[k]) = k + 1 /\ q[k] \in EvaluatedSet
  BY SplitFacts 
<1>3. \A s \in EvaluatedSet : \E k \in 1..n : q[k] = s
  BY SplitFacts 
<1>4. \A s : /\ Assess(s)[1] = Stage("prepare", s) /\ Assess(s)[2] = Stage("evaluate", s)
             /\ Assess(s)[3] = Stage("cleanup", s)
  BY DEF Assess
<1>5. \A k \in 1..n : /\ Rank(Stage("prepare", q[k])) = 3 * k + 3
                     /\ Rank(Stage("evaluate", q[k])) = 3 * k + 4
                     /\ Rank(Stage("cleanup", q[k])) = 3 * k + 5
  <2>1. \A s : /\ Rank(Stage("prepare", s)) = 3 * Place(s) /\ Rank(Stage("evaluate", s)) = 3 * Place(s) + 1
               /\ Rank(Stage("cleanup", s)) = 3 * Place(s) + 2
    BY RankFacts, Zenon
  <2> QED BY <1>1, <1>2, <2>1
<1>6. \A i \in 1..(3 * n) : Nth(i) \in 1..n /\ Rem(i) \in 1..3 /\ i = 3 * (Nth(i) - 1) + Rem(i)
  BY <1>1, ThreeInTurn
<1>7. \A k \in 1..n :
        /\ 3 * k - 2 \in 1..(3 * n) /\ Nth(3 * k - 2) = k /\ Rem(3 * k - 2) = 1
        /\ 3 * k - 1 \in 1..(3 * n) /\ Nth(3 * k - 1) = k /\ Rem(3 * k - 1) = 2
        /\ 3 * k \in 1..(3 * n) /\ Nth(3 * k) = k /\ Rem(3 * k) = 3
  BY <1>1
<1>8. DOMAIN A = 1..(3 * n) /\ IsSeq(A)
  <2>1. A \in [1..(3 * n) -> {A[i] : i \in 1..(3 * n)}] /\ 3 * n \in Nat
    BY <1>1
  <2> QED BY <2>1, SequenceOf
<1>9. \A i \in 1..(3 * n) : A[i] = Assess(q[Nth(i)])[Rem(i)]
  BY <1>1
<1> HIDE DEF A, q, n, Nth, Rem
<1>10. ASSUME NEW i \in 1..(3 * n)
       PROVE  /\ Rank(A[i]) = i + 5
              /\ A[i] \in {Stage("prepare", q[Nth(i)]), Stage("evaluate", q[Nth(i)]), Stage("cleanup", q[Nth(i)])}
  <2>1. Nth(i) \in 1..n /\ Rem(i) \in 1..3 /\ i = 3 * (Nth(i) - 1) + Rem(i)
    BY <1>6
  <2>2. A[i] = Assess(q[Nth(i)])[Rem(i)]
    BY <1>9
  <2>3. CASE Rem(i) = 1
    <3>1. A[i] = Stage("prepare", q[Nth(i)])
      BY <2>2, <2>3, <1>4
    <3>2. Rank(A[i]) = 3 * Nth(i) + 3
      BY <3>1, <2>1, <1>5
    <3>3. 3 * Nth(i) + 3 = i + 5
      BY <2>1, <2>3, <1>1
    <3> QED BY <3>1, <3>2, <3>3
  <2>4. CASE Rem(i) = 2
    <3>1. A[i] = Stage("evaluate", q[Nth(i)])
      BY <2>2, <2>4, <1>4
    <3>2. Rank(A[i]) = 3 * Nth(i) + 4
      BY <3>1, <2>1, <1>5
    <3>3. 3 * Nth(i) + 4 = i + 5
      BY <2>1, <2>4, <1>1
    <3> QED BY <3>1, <3>2, <3>3
  <2>5. CASE Rem(i) = 3
    <3>1. A[i] = Stage("cleanup", q[Nth(i)])
      BY <2>2, <2>5, <1>4
    <3>2. Rank(A[i]) = 3 * Nth(i) + 5
      BY <3>1, <2>1, <1>5
    <3>3. 3 * Nth(i) + 5 = i + 5
      BY <2>1, <2>5, <1>1
    <3> QED BY <3>1, <3>2, <3>3
  <2> QED BY <2>1, <2>3, <2>4, <2>5
<1>11. Ascends(A)
  BY <1>1, <1>8, <1>10 DEF Ascends
<1>12. \A i \in DOMAIN A : Rank(A[i]) \in Nat /\ 6 <= Rank(A[i]) /\ Rank(A[i]) <= 3 * n + 5
  BY <1>1, <1>8, <1>10
<1>13. Ranked(A, 6, 3 * n + 5)
  BY <1>8, <1>11, <1>12 DEF Ranked
<1>14. ASSUME NEW x, x \in ToSet(A)
       PROVE  \E s \in EvaluatedSet : x \in {Stage("prepare", s), Stage("evaluate", s), Stage("cleanup", s)}
  <2>1. PICK i \in 1..(3 * n) : x = A[i]
    BY <1>8, <1>14 DEF ToSet
  <2> QED BY <2>1, <1>10, <1>6, <1>2
<1>15. ASSUME NEW s \in EvaluatedSet, NEW x \in {Stage("prepare", s), Stage("evaluate", s), Stage("cleanup", s)}
       PROVE  x \in ToSet(A)
  <2>1. PICK k \in 1..n : s = q[k]
    BY <1>3
  <2>2. /\ A[3 * k - 2] = Stage("prepare", s) /\ A[3 * k - 1] = Stage("evaluate", s)
        /\ A[3 * k] = Stage("cleanup", s)
    BY <2>1, <1>4, <1>7, <1>9
  <2> QED BY <2>1, <2>2, <1>7, <1>8 DEF ToSet
<1>16. 3 * n + 5 = 3 * Len(Splits) + 2
  BY SplitFacts DEF n
<1> QED BY <1>13, <1>14, <1>15, <1>16 DEF A

\* The inputs of all splits, their collections, and the evaluations.
LEMMA PrepareRanked ==
  ASSUME TRUE
  PROVE  /\ Ranked(InTurn(1, Prepare, Splits), 3, 3 * Len(Splits))
         /\ \A x : x \in ToSet(InTurn(1, Prepare, Splits)) <=> \E s \in SplitSet : x = Stage("prepare", s)
<1> DEFINE A == InTurn(1, Prepare, Splits)
           q == Splits
           n == Len(Splits)
<1>1. n \in Nat
  BY SplitFacts
<1>2. A = [i \in 1..(1 * n) |-> Prepare(q[((i - 1) \div 1) + 1])[((i - 1) % 1) + 1]]
  BY DEF InTurn
<1>3. 1 * n = n /\ \A i \in 1..n : ((i - 1) \div 1) + 1 = i /\ ((i - 1) % 1) + 1 = 1
  BY <1>1
<1>4. DOMAIN A = 1..n /\ \A i \in 1..n : A[i] = Prepare(q[i])[1]
  BY <1>2, <1>3
<1>5. \A s : Prepare(s)[1] = Stage("prepare", s)
  BY DEF Prepare
<1>6. \A k \in 1..n : Rank(Stage("prepare", q[k])) = 3 * k /\ q[k] \in SplitSet
  <2>1. \A s : Rank(Stage("prepare", s)) = 3 * Place(s)
    BY RankFacts, Zenon
  <2> QED BY <2>1, SplitFacts
<1>7. \A s \in SplitSet : \E k \in 1..n : q[k] = s
  BY SplitFacts 
<1>8. IsSeq(A)
  <2>1. A \in [1..n -> {A[i] : i \in 1..n}]
    BY <1>2, <1>3
  <2> QED BY <2>1, <1>1, SequenceOf
<1>9. n = Len(Splits) /\ Len(Splits) \in Nat /\ Len(Splits) >= 2
  BY SplitFacts
<1> HIDE DEF A, q, n
<1>10. \A i \in 1..n : A[i] = Stage("prepare", q[i])
  BY <1>4, <1>5
<1>11. \A k \in 1..n : Rank(A[k]) = 3 * k
  BY <1>6, <1>10
<1>12. Ranked(A, 3, 3 * Len(Splits))
  BY <1>4, <1>8, <1>9, <1>11 DEF Ranked, Ascends
<1>13. \A x : x \in ToSet(A) <=> \E s \in SplitSet : x = Stage("prepare", s)
  BY <1>4, <1>6, <1>7, <1>10 DEF ToSet
<1> QED BY <1>12, <1>13 DEF A

\* Collections that follow all the inputs.
LEMMA CollectRanked ==
  ASSUME ~(job.ephemeral \/ job.kind = "evaluation")
  PROVE  /\ Ranked(InTurn(1, Collect, Splits), 3 * Len(Splits) + 1, 4 * Len(Splits))
         /\ \A x : x \in ToSet(InTurn(1, Collect, Splits)) <=> \E s \in SplitSet : x = Stage("collect", s)
<1> DEFINE A == InTurn(1, Collect, Splits)
           q == Splits
           n == Len(Splits)
<1>1. n \in Nat
  BY SplitFacts
<1>2. A = [i \in 1..(1 * n) |-> Collect(q[((i - 1) \div 1) + 1])[((i - 1) % 1) + 1]]
  BY DEF InTurn
<1>3. 1 * n = n /\ \A i \in 1..n : ((i - 1) \div 1) + 1 = i /\ ((i - 1) % 1) + 1 = 1
  BY <1>1
<1>4. DOMAIN A = 1..n /\ \A i \in 1..n : A[i] = Collect(q[i])[1]
  BY <1>2, <1>3
<1>5. \A s : Collect(s)[1] = Stage("collect", s)
  BY DEF Collect
<1>6. \A k \in 1..n : Rank(Stage("collect", q[k])) = 3 * Len(Splits) + k /\ q[k] \in SplitSet
  <2>1. \A s : Rank(Stage("collect", s)) = 3 * Len(Splits) + Place(s)
    BY RankFacts, Zenon
  <2> QED BY <2>1, SplitFacts
<1>7. \A s \in SplitSet : \E k \in 1..n : q[k] = s
  BY SplitFacts 
<1>8. IsSeq(A)
  <2>1. A \in [1..n -> {A[i] : i \in 1..n}]
    BY <1>2, <1>3
  <2> QED BY <2>1, <1>1, SequenceOf
<1>9. n = Len(Splits) /\ Len(Splits) \in Nat /\ Len(Splits) >= 2
  BY SplitFacts
<1> HIDE DEF A, q, n
<1>10. \A i \in 1..n : A[i] = Stage("collect", q[i])
  BY <1>4, <1>5
<1>11. \A k \in 1..n : Rank(A[k]) = 3 * Len(Splits) + k
  BY <1>6, <1>10
<1>12. Ranked(A, 3 * Len(Splits) + 1, 4 * Len(Splits))
  BY <1>4, <1>8, <1>9, <1>11 DEF Ranked, Ascends
<1>13. \A x : x \in ToSet(A) <=> \E s \in SplitSet : x = Stage("collect", s)
  BY <1>4, <1>6, <1>7, <1>10 DEF ToSet
<1> QED BY <1>12, <1>13 DEF A

\* Evaluations that follow the training.
LEMMA EvaluateRanked ==
  ASSUME job.kind # "region"
  PROVE  /\ Ranked(InTurn(1, Evaluate, EvaluationSplits), 4 * Len(Splits) + 3, 5 * Len(Splits) + 1)
         /\ \A x : x \in ToSet(InTurn(1, Evaluate, EvaluationSplits)) <=> \E s \in EvaluatedSet : x = Stage("evaluate", s)
<1> DEFINE A == InTurn(1, Evaluate, EvaluationSplits)
           q == EvaluationSplits
           n == Len(EvaluationSplits)
<1>1. n \in Nat
  BY SplitFacts
<1>2. A = [i \in 1..(1 * n) |-> Evaluate(q[((i - 1) \div 1) + 1])[((i - 1) % 1) + 1]]
  BY DEF InTurn
<1>3. 1 * n = n /\ \A i \in 1..n : ((i - 1) \div 1) + 1 = i /\ ((i - 1) % 1) + 1 = 1
  BY <1>1
<1>4. DOMAIN A = 1..n /\ \A i \in 1..n : A[i] = Evaluate(q[i])[1]
  BY <1>2, <1>3
<1>5. \A s : Evaluate(s)[1] = Stage("evaluate", s)
  BY DEF Evaluate
<1>6. \A k \in 1..n : Rank(Stage("evaluate", q[k])) = 4 * Len(Splits) + 2 + k /\ q[k] \in EvaluatedSet
  <2>1. \A s : Rank(Stage("evaluate", s)) = 4 * Len(Splits) + 1 + Place(s)
    BY RankFacts, Zenon
  <2> QED BY <2>1, SplitFacts
<1>7. \A s \in EvaluatedSet : \E k \in 1..n : q[k] = s
  BY SplitFacts 
<1>8. IsSeq(A)
  <2>1. A \in [1..n -> {A[i] : i \in 1..n}]
    BY <1>2, <1>3
  <2> QED BY <2>1, <1>1, SequenceOf
<1>9. n = Len(Splits) - 1 /\ Len(Splits) \in Nat /\ Len(Splits) >= 2
  BY SplitFacts
<1> HIDE DEF A, q, n
<1>10. \A i \in 1..n : A[i] = Stage("evaluate", q[i])
  BY <1>4, <1>5
<1>11. \A k \in 1..n : Rank(A[k]) = 4 * Len(Splits) + 2 + k
  BY <1>6, <1>10
<1>12. Ranked(A, 4 * Len(Splits) + 3, 5 * Len(Splits) + 1)
  BY <1>4, <1>8, <1>9, <1>11 DEF Ranked, Ascends
<1>13. \A x : x \in ToSet(A) <=> \E s \in EvaluatedSet : x = Stage("evaluate", s)
  BY <1>4, <1>6, <1>7, <1>10 DEF ToSet
<1> QED BY <1>12, <1>13 DEF A

\* One stage, and wider bounds.
LEMMA RankedOne ==
  ASSUME NEW x, Rank(x) \in Nat
  PROVE  Ranked(<<x>>, Rank(x), Rank(x)) /\ ToSet(<<x>>) = {x}
<1>1. <<x>> \in Seq({x}) /\ DOMAIN <<x>> = {1} /\ <<x>>[1] = x
  OBVIOUS
<1>2. IsSeq(<<x>>)
  BY <1>1 DEF IsSeq
<1>3. Ascends(<<x>>) /\ \A i \in DOMAIN <<x>> : Rank(<<x>>[i]) = Rank(x)
  BY <1>1 DEF Ascends
<1>4. ToSet(<<x>>) = {x}
  BY <1>1 DEF ToSet
<1> QED BY <1>2, <1>3, <1>4 DEF Ranked

\* A wider bound.
LEMMA RankedWider ==
  ASSUME NEW seq, NEW lo \in Nat, NEW hi \in Nat, NEW top \in Nat, Ranked(seq, lo, hi), hi <= top
  PROVE  Ranked(seq, lo, top)
BY DEF Ranked

\* A sequence of three stages.
LEMMA RankedThree ==
  ASSUME NEW u, NEW v, NEW x, Rank(u) \in Nat, Rank(v) \in Nat, Rank(x) \in Nat,
         Rank(u) < Rank(v), Rank(v) < Rank(x)
  PROVE  Ranked(<<u, v, x>>, Rank(u), Rank(x)) /\ ToSet(<<u, v, x>>) = {u, v, x}
<1> DEFINE q == <<u, v, x>>
<1>1. q \in Seq({u, v, x}) /\ DOMAIN q = 1..3 /\ q[1] = u /\ q[2] = v /\ q[3] = x
  OBVIOUS
<1> HIDE DEF q
<1>2. \A i \in DOMAIN q : i = 1 \/ i = 2 \/ i = 3
  BY <1>1
<1>3. Ascends(q)
  BY <1>1, <1>2 DEF Ascends
<1>4. \A i \in DOMAIN q : Rank(q[i]) \in Nat /\ Rank(u) <= Rank(q[i]) /\ Rank(q[i]) <= Rank(x)
  BY <1>1, <1>2
<1>5. ToSet(q) = {u, v, x}
  BY <1>1, <1>2 DEF ToSet
<1> QED BY <1>1, <1>3, <1>4, <1>5 DEF Ranked, IsSeq, q

\* A sequence of four stages.
LEMMA RankedFour ==
  ASSUME NEW u, NEW v, NEW w, NEW x, Rank(u) \in Nat, Rank(v) \in Nat, Rank(w) \in Nat, Rank(x) \in Nat,
         Rank(u) < Rank(v), Rank(v) < Rank(w), Rank(w) < Rank(x)
  PROVE  Ranked(<<u, v, w, x>>, Rank(u), Rank(x)) /\ ToSet(<<u, v, w, x>>) = {u, v, w, x}
<1> DEFINE q == <<u, v, w, x>>
<1>1. q \in Seq({u, v, w, x}) /\ DOMAIN q = 1..4 /\ q[1] = u /\ q[2] = v /\ q[3] = w /\ q[4] = x
  OBVIOUS
<1> HIDE DEF q
<1>2. \A i \in DOMAIN q : i = 1 \/ i = 2 \/ i = 3 \/ i = 4
  BY <1>1
<1>3. Ascends(q)
  BY <1>1, <1>2 DEF Ascends
<1>4. \A i \in DOMAIN q : Rank(q[i]) \in Nat /\ Rank(u) <= Rank(q[i]) /\ Rank(q[i]) <= Rank(x)
  BY <1>1, <1>2
<1>5. ToSet(q) = {u, v, w, x}
  BY <1>1, <1>2 DEF ToSet
<1> QED BY <1>1, <1>3, <1>4, <1>5 DEF Ranked, IsSeq, q

\* The last three stages.
LEMMA ClosingRanked ==
  /\ Ranked(Closing, 5 * Len(Splits) + 3, 5 * Len(Splits) + 5)
  /\ ToSet(Closing) = {Stage("manifest", "all"), Stage("export", "all"), Stage("clear", "all")}
<1>1. /\ Rank(Stage("manifest", "all")) = 5 * Len(Splits) + 3
      /\ Rank(Stage("export", "all")) = 5 * Len(Splits) + 4
      /\ Rank(Stage("clear", "all")) = 5 * Len(Splits) + 5
  BY RankFacts, Zenon
<1>2. Len(Splits) \in Nat
  BY SplitFacts
<1>3. /\ Rank(Stage("manifest", "all")) \in Nat /\ Rank(Stage("export", "all")) \in Nat
      /\ Rank(Stage("clear", "all")) \in Nat
      /\ Rank(Stage("manifest", "all")) < Rank(Stage("export", "all"))
      /\ Rank(Stage("export", "all")) < Rank(Stage("clear", "all"))
  BY <1>1, <1>2
<1>4. /\ Ranked(Closing, Rank(Stage("manifest", "all")), Rank(Stage("clear", "all")))
      /\ ToSet(Closing) = {Stage("manifest", "all"), Stage("export", "all"), Stage("clear", "all")}
  BY <1>3, RankedThree, Zenon DEF Closing
<1> QED BY <1>1, <1>4, Zenon

\* The stages of the aligned pipelines up to the training.
OfAligned(x) ==
  \E s \in SplitSet : \/ x = Stage("prepare", s) \/ x = Stage("collect", s)
                      \/ job.ephemeral /\ x = Stage("cleanup", s)

\* The aligned stages come between the configuration and the training.
LEMMA AlignedStagesRanked ==
  ASSUME job.kind \in {"index", "probability"}
  PROVE  /\ Ranked(AlignedStages, 3, 4 * Len(Splits))
         /\ \A x : x \in ToSet(AlignedStages) <=> OfAligned(x)
<1>1. Len(Splits) \in Nat /\ Len(Splits) >= 2 /\ job.kind # "evaluation"
  BY SplitFacts
<1>2. CASE job.ephemeral
  <2>1. AlignedStages = InTurn(3, Aligned, Splits)
    BY <1>2, Zenon DEF AlignedStages
  <2>2. /\ Ranked(AlignedStages, 3, 3 * Len(Splits) + 2)
        /\ \A x : x \in ToSet(AlignedStages) <=>
              \E s \in SplitSet : x \in {Stage("prepare", s), Stage("collect", s), Stage("cleanup", s)}
    BY <1>2, <2>1, AlignedRanked, Zenon
  <2>3. Ranked(AlignedStages, 3, 4 * Len(Splits))
    <3>1. 3 * Len(Splits) + 2 \in Nat /\ 4 * Len(Splits) \in Nat /\ 3 * Len(Splits) + 2 <= 4 * Len(Splits)
      BY <1>1
    <3> QED BY <3>1, <2>2, RankedWider
  <2>4. \A x : x \in ToSet(AlignedStages) <=> OfAligned(x)
    BY <1>2, <2>2, Zenon DEF OfAligned
  <2> QED BY <2>3, <2>4
<1>3. CASE ~job.ephemeral
  <2> DEFINE P == InTurn(1, Prepare, Splits)
             C == InTurn(1, Collect, Splits)
  <2>1. AlignedStages = P \o C
    BY <1>3, Zenon DEF AlignedStages
  <2>2. Ranked(P, 3, 3 * Len(Splits)) /\ \A x : x \in ToSet(P) <=> \E s \in SplitSet : x = Stage("prepare", s)
    BY PrepareRanked
  <2>3. /\ Ranked(C, 3 * Len(Splits) + 1, 4 * Len(Splits))
        /\ \A x : x \in ToSet(C) <=> \E s \in SplitSet : x = Stage("collect", s)
    BY <1>1, <1>3, CollectRanked, Zenon
  <2> HIDE DEF P, C
  <2>4. Ranked(P \o C, 3, 4 * Len(Splits))
    <3>1. /\ 3 * Len(Splits) \in Nat /\ 3 * Len(Splits) + 1 \in Nat /\ 4 * Len(Splits) \in Nat
          /\ 3 <= 3 * Len(Splits) /\ 3 * Len(Splits) < 3 * Len(Splits) + 1
          /\ 3 * Len(Splits) + 1 <= 4 * Len(Splits)
      BY <1>1
    <3> QED BY <3>1, <2>2, <2>3, RankedConcat
  <2>5. ToSet(P \o C) = ToSet(P) \cup ToSet(C)
    BY <2>2, <2>3, ConcatFacts DEF Ranked
  <2>6. \A x : x \in ToSet(AlignedStages) <=> OfAligned(x)
    BY <1>3, <2>1, <2>2, <2>3, <2>5, Zenon DEF OfAligned
  <2> QED BY <2>1, <2>4, <2>6
<1> QED BY <1>2, <1>3

\* What two ranked sequences have, one behind the other.
LEMMA RankedUnion ==
  ASSUME NEW a, NEW b, NEW lo \in Nat, NEW mid \in Nat, NEW above \in Nat, NEW hi \in Nat,
         Ranked(a, lo, mid), Ranked(b, above, hi), lo <= mid, mid < above, above <= hi
  PROVE  Ranked(a \o b, lo, hi) /\ ToSet(a \o b) = ToSet(a) \cup ToSet(b)
<1>1. Ranked(a \o b, lo, hi)
  BY RankedConcat
<1>2. IsSeq(a) /\ IsSeq(b)
  BY DEF Ranked
<1> QED BY <1>1, <1>2, ConcatFacts

\* The stages of a launch are in the order of their places.
Ordered == /\ IsSeq(Stages) /\ Ascends(Stages)
           /\ \A x \in ToSet(Stages) : Rank(x) \in Nat /\ Rank(x) <= 5 * Len(Splits) + 5

\* All places are within those of the last stage.
LEMMA RankedOrdered ==
  ASSUME NEW lo \in Nat, Ranked(Stages, lo, 5 * Len(Splits) + 5)
  PROVE  Ordered
BY DEF Ranked, Ordered, ToSet

\* The stages of a launch of each kind.
OfIndex(x) ==
  \/ x = Stage("configure", "all") \/ OfAligned(x) \/ x = Stage("train", "all")
  \/ \E s \in EvaluatedSet : x = Stage("evaluate", s)
  \/ x = Stage("replay", Last(Splits))
  \/ x \in {Stage("manifest", "all"), Stage("export", "all"), Stage("clear", "all")}

OfProbability(x) ==
  \/ x = Stage("configure", "all") \/ OfAligned(x) \/ x = Stage("train", "all")
  \/ \E s \in EvaluatedSet : x = Stage("evaluate", s)
  \/ x \in {Stage("manifest", "all"), Stage("export", "all"), Stage("clear", "all")}

OfRegion(x) ==
  \/ x = Stage("configure", "all") \/ x = Stage("prepare", TrainSplit) \/ x = Stage("train", "all")
  \/ x = Stage("cleanup", TrainSplit)
  \/ \E s \in EvaluatedSet : x \in {Stage("prepare", s), Stage("evaluate", s), Stage("cleanup", s)}
  \/ x \in {Stage("manifest", "all"), Stage("export", "all"), Stage("clear", "all")}

OfEvaluation(x) ==
  \/ x = Stage("configure", "all")
  \/ x \in {Stage("prepare", Last(Splits)), Stage("collect", Last(Splits)), Stage("cleanup", Last(Splits))}
  \/ x = Stage("evaluate", Last(Splits)) \/ x = Stage("qa", Last(Splits))
  \/ x \in {Stage("export", "all"), Stage("clear", "all")}

\* The stages of the pipelines that collect, train and evaluate.
LEMMA TrainingStages ==
  ASSUME job.kind \in {"index", "probability"}
  PROVE  /\ Ordered
         /\ job.kind = "index" => \A x : x \in ToSet(Stages) <=> OfIndex(x)
         /\ job.kind = "probability" => \A x : x \in ToSet(Stages) <=> OfProbability(x)
<1> DEFINE n == Len(Splits)
           c == <<Stage("configure", "all")>>
           t == <<Stage("train", "all")>>
           r == <<Stage("replay", Last(Splits))>>
           E == InTurn(1, Evaluate, EvaluationSplits)
           p1 == 4 * n
           p2 == 4 * n + 1
           p3 == 4 * n + 3
           p4 == 5 * n + 1
           p5 == 5 * n + 2
           p6 == 5 * n + 3
           p7 == 5 * n + 5
<1>1. n \in Nat /\ n >= 2
  BY SplitFacts
<1>2. Ranked(c, 0, 0) /\ ToSet(c) = {Stage("configure", "all")}
  <2>1. Rank(Stage("configure", "all")) = 0
    BY RankFacts
  <2>2. Rank(Stage("configure", "all")) \in Nat
    BY <2>1
  <2>3. /\ Ranked(c, Rank(Stage("configure", "all")), Rank(Stage("configure", "all")))
        /\ ToSet(c) = {Stage("configure", "all")}
    BY <2>2, RankedOne
  <2> QED BY <2>1, <2>3, Zenon
<1>3. Ranked(AlignedStages, 3, p1) /\ \A x : x \in ToSet(AlignedStages) <=> OfAligned(x)
  BY AlignedStagesRanked
<1>4. Ranked(t, p2, p2) /\ ToSet(t) = {Stage("train", "all")}
  <2>1. Rank(Stage("train", "all")) = p2 /\ p2 \in Nat
    BY <1>1, RankFacts
  <2> HIDE DEF p2, p5
  <2>2. Rank(Stage("train", "all")) \in Nat
    BY <2>1
  <2>3. Ranked(t, Rank(Stage("train", "all")), Rank(Stage("train", "all"))) /\ ToSet(t) = {Stage("train", "all")}
    BY <2>2, RankedOne
  <2> QED BY <2>1, <2>3, Zenon
<1>5. /\ Ranked(E, p3, p4)
      /\ \A x : x \in ToSet(E) <=> \E s \in EvaluatedSet : x = Stage("evaluate", s)
  BY EvaluateRanked
<1>6. Ranked(r, p5, p5) /\ ToSet(r) = {Stage("replay", Last(Splits))}
  <2>1. Rank(Stage("replay", Last(Splits))) = p5 /\ p5 \in Nat
    BY <1>1, RankFacts
  <2> HIDE DEF p2, p5
  <2>2. Rank(Stage("replay", Last(Splits))) \in Nat
    BY <2>1
  <2>3. Ranked(r, Rank(Stage("replay", Last(Splits))), Rank(Stage("replay", Last(Splits)))) /\ ToSet(r) = {Stage("replay", Last(Splits))}
    BY <2>2, RankedOne
  <2> QED BY <2>1, <2>3, Zenon
<1>7. /\ Ranked(Closing, p6, p7)
      /\ ToSet(Closing) = {Stage("manifest", "all"), Stage("export", "all"), Stage("clear", "all")}
  BY ClosingRanked
<1>8. /\ job.kind = "index" => Stages = c \o AlignedStages \o t \o E \o r \o Closing
      /\ job.kind = "probability" => Stages = c \o AlignedStages \o t \o E \o Closing
  BY DEF Stages
<1>9. /\ {0, p1, p2, p3, p4, p5, p6, p7} \subseteq Nat /\ 0 <= 0 /\ 0 < 3 /\ 3 <= p1 /\ 0 <= p1
      /\ p1 < p2 /\ p2 <= p2 /\ 0 <= p2 /\ p2 < p3 /\ p3 <= p4 /\ 0 <= p4 /\ p4 < p5 /\ p5 <= p5 /\ 0 <= p5
      /\ p5 < p6 /\ p4 < p6 /\ p6 <= p7
  BY <1>1
<1>10. p7 = 5 * Len(Splits) + 5
  OBVIOUS
<1> HIDE DEF c, t, r, E, n, p1, p2, p3, p4, p5, p6, p7
<1>11. /\ Ranked(c \o AlignedStages, 0, p1)
      /\ ToSet(c \o AlignedStages) = ToSet(c) \cup ToSet(AlignedStages)
  BY <1>9, <1>2, <1>3, RankedUnion
<1>12. /\ Ranked(c \o AlignedStages \o t, 0, p2)
       /\ ToSet(c \o AlignedStages \o t) = ToSet(c \o AlignedStages) \cup ToSet(t)
  BY <1>9, <1>4, <1>11, RankedUnion
<1>13. /\ Ranked(c \o AlignedStages \o t \o E, 0, p4)
       /\ ToSet(c \o AlignedStages \o t \o E) = ToSet(c \o AlignedStages \o t) \cup ToSet(E)
  BY <1>9, <1>5, <1>12, RankedUnion
<1>14. CASE job.kind = "index"
  <2>1. /\ Ranked(c \o AlignedStages \o t \o E \o r, 0, p5)
        /\ ToSet(c \o AlignedStages \o t \o E \o r) = ToSet(c \o AlignedStages \o t \o E) \cup ToSet(r)
    BY <1>6, <1>13, <1>9, RankedUnion
  <2>2. /\ Ranked(Stages, 0, p7)
        /\ ToSet(Stages) = ToSet(c \o AlignedStages \o t \o E \o r) \cup ToSet(Closing)
    BY <1>7, <1>8, <1>9, <1>14, <2>1, RankedUnion
  <2>3. \A x : x \in ToSet(Stages) <=> OfIndex(x)
    BY <2>1, <2>2, <1>2, <1>3, <1>4, <1>5, <1>6, <1>7, <1>11, <1>12, <1>13 DEF OfIndex
  <2> QED BY <2>2, <2>3, <1>14, <1>10, RankedOrdered
<1>15. CASE job.kind = "probability"
  <2>1. /\ Ranked(Stages, 0, p7)
        /\ ToSet(Stages) = ToSet(c \o AlignedStages \o t \o E) \cup ToSet(Closing)
    BY <1>7, <1>8, <1>13, <1>9, <1>15, RankedUnion
  <2>2. \A x : x \in ToSet(Stages) <=> OfProbability(x)
    BY <2>1, <1>2, <1>3, <1>4, <1>5, <1>7, <1>11, <1>12, <1>13 DEF OfProbability
  <2> QED BY <2>1, <2>2, <1>15, <1>10, RankedOrdered
<1> QED BY <1>14, <1>15

\* A region pipeline prepares the inputs of a split where it uses them.
LEMMA RegionStages ==
  ASSUME job.kind = "region"
  PROVE  Ordered /\ \A x : x \in ToSet(Stages) <=> OfRegion(x)
<1> DEFINE n == Len(Splits)
           c == <<Stage("configure", "all"), Stage("prepare", TrainSplit), Stage("train", "all"),
                  Stage("cleanup", TrainSplit)>>
           A == InTurn(3, Assess, EvaluationSplits)
           p1 == 3 * n + 2
           p6 == 5 * n + 3
           p7 == 5 * n + 5
<1>1. n \in Nat /\ n >= 2
  BY SplitFacts
<1>2. /\ Ranked(c, 0, 5)
      /\ ToSet(c) = {Stage("configure", "all"), Stage("prepare", TrainSplit), Stage("train", "all"),
                     Stage("cleanup", TrainSplit)}
  <2>1. /\ Rank(Stage("configure", "all")) = 0 /\ Rank(Stage("prepare", TrainSplit)) = 3
        /\ Rank(Stage("train", "all")) = 4 /\ Rank(Stage("cleanup", TrainSplit)) = 5
    BY RankFacts, SplitFacts
  <2>2. /\ Ranked(c, Rank(Stage("configure", "all")), Rank(Stage("cleanup", TrainSplit)))
        /\ ToSet(c) = {Stage("configure", "all"), Stage("prepare", TrainSplit), Stage("train", "all"),
                       Stage("cleanup", TrainSplit)}
    <3>1. /\ Rank(Stage("configure", "all")) \in Nat /\ Rank(Stage("prepare", TrainSplit)) \in Nat
          /\ Rank(Stage("train", "all")) \in Nat /\ Rank(Stage("cleanup", TrainSplit)) \in Nat
          /\ Rank(Stage("configure", "all")) < Rank(Stage("prepare", TrainSplit))
          /\ Rank(Stage("prepare", TrainSplit)) < Rank(Stage("train", "all"))
          /\ Rank(Stage("train", "all")) < Rank(Stage("cleanup", TrainSplit))
      BY <2>1
    <3> QED BY <3>1, RankedFour, Zenon
  <2> QED BY <2>1, <2>2, Zenon
<1>3. /\ Ranked(A, 6, p1)
      /\ \A x : x \in ToSet(A) <=>
           \E s \in EvaluatedSet : x \in {Stage("prepare", s), Stage("evaluate", s), Stage("cleanup", s)}
  BY AssessRanked
<1>4. /\ Ranked(Closing, p6, p7)
      /\ ToSet(Closing) = {Stage("manifest", "all"), Stage("export", "all"), Stage("clear", "all")}
  BY ClosingRanked
<1>5. Stages = c \o A \o Closing
  BY DEF Stages
<1>6. /\ {0, 5, 6, p1, p6, p7} \subseteq Nat /\ 0 <= 5 /\ 5 < 6 /\ 6 <= p1 /\ 0 <= p1 /\ p1 < p6 /\ p6 <= p7
      /\ p7 = 5 * Len(Splits) + 5
  BY <1>1
<1> HIDE DEF c, A, n, p1, p6, p7
<1>7. Ranked(c \o A, 0, p1) /\ ToSet(c \o A) = ToSet(c) \cup ToSet(A)
  BY <1>2, <1>3, <1>6, RankedUnion
<1>8. Ranked(Stages, 0, p7) /\ ToSet(Stages) = ToSet(c \o A) \cup ToSet(Closing)
  BY <1>4, <1>5, <1>6, <1>7, RankedUnion
<1>9. \A x : x \in ToSet(Stages) <=> OfRegion(x)
  BY <1>2, <1>3, <1>4, <1>7, <1>8 DEF OfRegion
<1> QED BY <1>6, <1>8, <1>9, RankedOrdered

\* The evaluation of one checkpoint.
LEMMA EvaluationStages ==
  ASSUME job.kind = "evaluation"
  PROVE  Ordered /\ \A x : x \in ToSet(Stages) <=> OfEvaluation(x)
<1> DEFINE n == Len(Splits)
           s == Last(Splits)
           c == <<Stage("configure", "all")>>
           q == <<Stage("evaluate", s), Stage("qa", s), Stage("export", "all"), Stage("clear", "all")>>
           p0 == 3 * n
           p1 == 3 * n + 2
           p4 == 5 * n + 1
           p7 == 5 * n + 5
<1>1. n \in Nat /\ n >= 2 /\ Place(s) = n
  BY SplitFacts
<1>2. Ranked(c, 0, 0) /\ ToSet(c) = {Stage("configure", "all")}
  <2>1. Rank(Stage("configure", "all")) = 0
    BY RankFacts
  <2>2. Rank(Stage("configure", "all")) \in Nat
    BY <2>1
  <2>3. /\ Ranked(c, Rank(Stage("configure", "all")), Rank(Stage("configure", "all")))
        /\ ToSet(c) = {Stage("configure", "all")}
    BY <2>2, RankedOne
  <2> QED BY <2>1, <2>3, Zenon
<1>3. /\ Ranked(Aligned(s), p0, p1)
      /\ ToSet(Aligned(s)) = {Stage("prepare", s), Stage("collect", s), Stage("cleanup", s)}
  <2>1. /\ Rank(Stage("prepare", s)) = 3 * Place(s) /\ Rank(Stage("collect", s)) = 3 * Place(s) + 1
        /\ Rank(Stage("cleanup", s)) = 3 * Place(s) + 2
    BY RankFacts
  <2>5. /\ Rank(Stage("prepare", s)) = 3 * n /\ Rank(Stage("collect", s)) = 3 * n + 1
        /\ Rank(Stage("cleanup", s)) = 3 * n + 2
    BY <2>1, <1>1, Zenon
  <2> HIDE DEF n, s
  <2>2. /\ Rank(Stage("prepare", s)) = p0 /\ Rank(Stage("cleanup", s)) = p1
        /\ Rank(Stage("prepare", s)) \in Nat /\ Rank(Stage("collect", s)) \in Nat
        /\ Rank(Stage("cleanup", s)) \in Nat
        /\ Rank(Stage("prepare", s)) < Rank(Stage("collect", s))
        /\ Rank(Stage("collect", s)) < Rank(Stage("cleanup", s))
    BY <2>5, <1>1
  <2>3. Aligned(s) = <<Stage("prepare", s), Stage("collect", s), Stage("cleanup", s)>>
    BY DEF Aligned
  <2> HIDE DEF p0, p1
  <2>4. /\ Ranked(Aligned(s), Rank(Stage("prepare", s)), Rank(Stage("cleanup", s)))
        /\ ToSet(Aligned(s)) = {Stage("prepare", s), Stage("collect", s), Stage("cleanup", s)}
    <3> DEFINE a == <<Stage("prepare", s), Stage("collect", s), Stage("cleanup", s)>>
    <3>1. /\ Ranked(a, Rank(Stage("prepare", s)), Rank(Stage("cleanup", s)))
          /\ ToSet(a) = {Stage("prepare", s), Stage("collect", s), Stage("cleanup", s)}
      BY <2>2, RankedThree, Zenon
    <3>2. Aligned(s) = a
      BY <2>3
    <3> HIDE DEF a
    <3> QED BY <3>1, <3>2
  <2> QED BY <2>2, <2>4, Zenon
<1>4. /\ Ranked(q, p4, p7)
      /\ ToSet(q) = {Stage("evaluate", s), Stage("qa", s), Stage("export", "all"), Stage("clear", "all")}
  <2>1. /\ Rank(Stage("evaluate", s)) = 4 * n + 1 + Place(s) /\ Rank(Stage("qa", s)) = 5 * n + 2
        /\ Rank(Stage("export", "all")) = 5 * n + 4 /\ Rank(Stage("clear", "all")) = 5 * n + 5
    BY RankFacts
  <2>2. /\ Rank(Stage("evaluate", s)) = p4 /\ Rank(Stage("clear", "all")) = p7
        /\ Rank(Stage("evaluate", s)) \in Nat /\ Rank(Stage("qa", s)) \in Nat
        /\ Rank(Stage("export", "all")) \in Nat /\ Rank(Stage("clear", "all")) \in Nat
        /\ Rank(Stage("evaluate", s)) < Rank(Stage("qa", s))
        /\ Rank(Stage("qa", s)) < Rank(Stage("export", "all"))
        /\ Rank(Stage("export", "all")) < Rank(Stage("clear", "all"))
    BY <2>1, <1>1
  <2> HIDE DEF p4, p7, n, s
  <2>3. /\ Ranked(q, Rank(Stage("evaluate", s)), Rank(Stage("clear", "all")))
        /\ ToSet(q) = {Stage("evaluate", s), Stage("qa", s), Stage("export", "all"), Stage("clear", "all")}
    BY <2>2, RankedFour, Zenon
  <2> QED BY <2>2, <2>3, Zenon
<1>5. Stages = c \o Aligned(s) \o q
  BY DEF Stages
<1>6. /\ {0, p0, p1, p4, p7} \subseteq Nat /\ 0 <= 0 /\ 0 < p0 /\ p0 <= p1 /\ 0 <= p1 /\ p1 < p4 /\ p4 <= p7
      /\ p7 = 5 * Len(Splits) + 5
  BY <1>1
<1> HIDE DEF c, q, s, n, p0, p1, p4, p7
<1>7. Ranked(c \o Aligned(s), 0, p1) /\ ToSet(c \o Aligned(s)) = ToSet(c) \cup ToSet(Aligned(s))
  BY <1>2, <1>3, <1>6, RankedUnion
<1>8. Ranked(Stages, 0, p7) /\ ToSet(Stages) = ToSet(c \o Aligned(s)) \cup ToSet(q)
  BY <1>4, <1>5, <1>6, <1>7, RankedUnion
<1>9. \A x : x \in ToSet(Stages) <=> OfEvaluation(x)
  BY <1>2, <1>3, <1>4, <1>7, <1>8 DEF OfEvaluation, s
<1> QED BY <1>6, <1>8, <1>9, RankedOrdered

\* What a stage of a launch is.
StageForms(h) ==
  \/ h.name \in {"configure", "train", "manifest", "export", "clear"} /\ h = Stage(h.name, "all")
  \/ /\ h.name \in {"prepare", "collect", "cleanup", "evaluate", "qa", "replay"}
     /\ h = Stage(h.name, h.split) /\ h.split \in SplitSet

\* A stage is its name and its split.
LEMMA StageFacts ==
  /\ \A n, s : Stage(n, s).name = n /\ Stage(n, s).split = s
  /\ \A n, s, m, t : Stage(n, s) = Stage(m, t) => n = m /\ s = t
<1>1. \A n, s : Stage(n, s).name = n /\ Stage(n, s).split = s
  BY DEF Stage
<1>2. ASSUME NEW n, NEW s, NEW m, NEW t, Stage(n, s) = Stage(m, t) PROVE n = m /\ s = t
  <2>1. Stage(n, s).name = n /\ Stage(n, s).split = s /\ Stage(m, t).name = m /\ Stage(m, t).split = t
    BY <1>1
  <2> QED BY <2>1, <1>2
<1> QED BY <1>1, <1>2

\* The stages of which all launches are made.
LEMMA FormFacts ==
  /\ \A n \in {"configure", "train", "manifest", "export", "clear"} : StageForms(Stage(n, "all"))
  /\ \A n \in {"prepare", "collect", "cleanup", "evaluate", "qa", "replay"}, s \in SplitSet :
       StageForms(Stage(n, s))
BY StageFacts DEF StageForms

\* The stages a stage of its kind of pipeline comes with.
LEMMA StagesOf ==
  ASSUME job.kind \in Kinds
  PROVE  /\ Ordered
         /\ \A h \in ToSet(Stages) : StageForms(h)
         /\ Stage("export", "all") \in ToSet(Stages) /\ Stage("clear", "all") \in ToSet(Stages)
         /\ \A s : Stage("collect", s) \in ToSet(Stages) =>
              job.kind # "region" /\ Stage("prepare", s) \in ToSet(Stages)
         /\ job.kind # "evaluation" <=> Stage("train", "all") \in ToSet(Stages)
         /\ job.kind \in {"index", "probability"} => Stage("collect", TrainSplit) \in ToSet(Stages)
         /\ job.kind = "region" => /\ Stage("prepare", TrainSplit) \in ToSet(Stages)
                                   /\ Stage("cleanup", TrainSplit) \in ToSet(Stages)
         /\ \A s : Stage("evaluate", s) \in ToSet(Stages) =>
              /\ job.kind # "region" => Stage("collect", s) \in ToSet(Stages)
              /\ job.kind = "region" => /\ Stage("prepare", s) \in ToSet(Stages)
                                        /\ Stage("cleanup", s) \in ToSet(Stages)
                                        /\ Place(s) # 1
         /\ \A s : Stage("qa", s) \in ToSet(Stages) =>
              job.kind = "evaluation" /\ Stage("collect", s) \in ToSet(Stages)
         /\ \A s : Stage("replay", s) \in ToSet(Stages) =>
              job.kind = "index" /\ Stage("collect", s) \in ToSet(Stages)
<1>1. /\ EvaluatedSet \subseteq SplitSet /\ TrainSplit \in SplitSet /\ Last(Splits) \in SplitSet
      /\ \A s \in EvaluatedSet : Place(s) # 1
  <2>1. \A s \in SplitSet : Place(s) = 1 => s = TrainSplit
    BY SplitFacts
  <2> QED BY <2>1, SplitFacts
<1>2. CASE job.kind = "index"
  <2>1. Ordered /\ \A x : x \in ToSet(Stages) <=> OfIndex(x)
    BY <1>2, TrainingStages
  <2>2. \A x \in ToSet(Stages) : StageForms(x)
    BY <2>1, <1>1, FormFacts DEF OfIndex, OfAligned
  <2> QED BY <1>1, <1>2, <2>1, <2>2, StageFacts DEF OfIndex, OfAligned
<1>3. CASE job.kind = "probability"
  <2>1. Ordered /\ \A x : x \in ToSet(Stages) <=> OfProbability(x)
    BY <1>3, TrainingStages
  <2>2. \A x \in ToSet(Stages) : StageForms(x)
    BY <2>1, <1>1, FormFacts DEF OfProbability, OfAligned
  <2> QED BY <1>1, <1>3, <2>1, <2>2, StageFacts DEF OfProbability, OfAligned
<1>4. CASE job.kind = "region"
  <2>1. Ordered /\ \A x : x \in ToSet(Stages) <=> OfRegion(x)
    BY <1>4, RegionStages
  <2>2. \A x \in ToSet(Stages) : StageForms(x)
    BY <2>1, <1>1, FormFacts DEF OfRegion
  <2> QED BY <1>1, <1>4, <2>1, <2>2, StageFacts DEF OfRegion
<1>5. CASE job.kind = "evaluation"
  <2>1. Ordered /\ \A x : x \in ToSet(Stages) <=> OfEvaluation(x)
    BY <1>5, EvaluationStages
  <2>2. \A x \in ToSet(Stages) : StageForms(x)
    BY <2>1, <1>1, FormFacts DEF OfEvaluation
  <2> QED BY <1>1, <1>5, <2>1, <2>2, StageFacts DEF OfEvaluation
<1> QED BY <1>2, <1>3, <1>4, <1>5 DEF Kinds

\* The stages before the next one have been passed, those behind it have not.
LEMMA NextStage ==
  ASSUME job.kind \in Kinds, TodoInv, phase = "running", todo # <<>>
  PROVE  /\ Head(todo) \in ToSet(Stages) /\ Head(todo) \in ToSet(todo)
         /\ \A x \in ToSet(Stages) : Rank(x) < Rank(Head(todo)) => Passed(x)
         /\ \A x \in ToSet(Stages) : Rank(Head(todo)) <= Rank(x) => x \in ToSet(todo)
         /\ \A x \in ToSet(todo) : x \in ToSet(Stages)
<1>1. Head(todo) \in ToSet(Stages) /\ \A x : x \in ToSet(todo) <=> x \in ToSet(Stages) /\ Rank(x) >= Rank(Head(todo))
  BY DEF TodoInv
<1>2. \A x \in ToSet(Stages) : Rank(x) \in Nat
  BY StagesOf DEF Ordered
<1> QED BY <1>1, <1>2 DEF Passed, Working

\* No other stage has the place of the last one.
LEMMA RankedForms ==
  ASSUME NEW h, StageForms(h), Rank(h) = 5 * Len(Splits) + 5
  PROVE  h = Stage("clear", "all")
<1> DEFINE n == Len(Splits)
           k == Place(h.split)
<1>1. n \in Nat /\ n >= 2
  BY SplitFacts
<1>2. CASE h.name \in {"configure", "train", "manifest", "export", "clear"} /\ h = Stage(h.name, "all")
  <2>1. CASE h.name # "clear"
    <3>0. \/ h = Stage("configure", "all") \/ h = Stage("train", "all") \/ h = Stage("manifest", "all")
          \/ h = Stage("export", "all")
      BY <1>2, <2>1
    <3>1. \/ Rank(h) = 0 \/ Rank(h) = 4 \/ Rank(h) = 4 * n + 1 \/ Rank(h) = 5 * n + 3 \/ Rank(h) = 5 * n + 4
      BY <3>0, RankFacts, Zenon
    <3> QED BY <3>1, <1>1
  <2> QED BY <2>1, <1>2
<1>3. CASE /\ h.name \in {"prepare", "collect", "cleanup", "evaluate", "qa", "replay"}
           /\ h = Stage(h.name, h.split) /\ h.split \in SplitSet
  <2>1. k \in Nat /\ k <= n /\ k >= 1
    BY <1>3, SplitFacts
  <2>0. PICK s : /\ s = h.split
                 /\ \/ h = Stage("prepare", s) \/ h = Stage("collect", s) \/ h = Stage("cleanup", s)
                    \/ h = Stage("evaluate", s) \/ h = Stage("qa", s) \/ h = Stage("replay", s)
    BY <1>3
  <2>3. Place(s) = k
    BY <2>0
  <2> HIDE DEF k
  <2>2. \/ Rank(h) = 3 * k \/ Rank(h) = 3 * k + 1 \/ Rank(h) = 3 * n + k \/ Rank(h) = 3 * k + 2
        \/ Rank(h) = 4 * n + 1 + k \/ Rank(h) = 5 * n + 2
    BY <2>0, <2>3, RankFacts
  <2> QED BY <2>1, <2>2, <1>1
<1> QED BY <1>2, <1>3 DEF StageForms

\* What comes before and behind each stage.
LEMMA OrderFacts ==
  ASSUME job.kind \in Kinds, TodoInv, phase = "running", todo # <<>>
  PROVE  /\ StageForms(Head(todo))
         /\ \A s : Head(todo) = Stage("collect", s) =>
              job.kind # "region" /\ Passed(Stage("prepare", s))
         /\ Head(todo) = Stage("train", "all") =>
              /\ job.kind # "evaluation"
              /\ job.kind # "region" => Passed(Stage("collect", TrainSplit))
              /\ job.kind = "region" => /\ Passed(Stage("prepare", TrainSplit))
                                        /\ Stage("cleanup", TrainSplit) \in ToSet(todo)
         /\ \A s : Head(todo) = Stage("evaluate", s) =>
              /\ job.kind # "evaluation" => Passed(Stage("train", "all"))
              /\ job.kind # "region" => Passed(Stage("collect", s))
              /\ job.kind = "region" => /\ Passed(Stage("prepare", s))
                                        /\ Stage("cleanup", s) \in ToSet(todo)
         /\ \A s : Head(todo) = Stage("qa", s) => job.kind = "evaluation" /\ Passed(Stage("collect", s))
         /\ \A s : Head(todo) = Stage("replay", s) =>
              job.kind = "index" /\ Passed(Stage("collect", s)) /\ Passed(Stage("train", "all"))
         /\ Head(todo) = Stage("clear", "all") => Passed(Stage("export", "all"))
         /\ Head(todo) \in {Stage("export", "all"), Stage("clear", "all")} /\ job.kind # "evaluation" =>
              Passed(Stage("train", "all"))
         /\ Stage("clear", "all") \in ToSet(todo)
         /\ Head(todo) # Stage("clear", "all") => Stage("export", "all") \in ToSet(todo)
<1> DEFINE h == Head(todo)
           n == Len(Splits)
<1>1. /\ h \in ToSet(Stages)
      /\ \A x \in ToSet(Stages) : Rank(x) < Rank(h) => Passed(x)
      /\ \A x \in ToSet(Stages) : Rank(h) <= Rank(x) => x \in ToSet(todo)
  BY NextStage
<1>2. /\ StageForms(h) /\ n \in Nat /\ n >= 2 /\ \A s \in SplitSet : Place(s) \in 1..n
  BY <1>1, StagesOf, SplitFacts
<1> HIDE DEF h
<1>3. \A s \in SplitSet : Rank(Stage("prepare", s)) < Rank(Stage("collect", s))
  <2> TAKE s \in SplitSet
  <2>1. Place(s) \in Nat /\ Place(s) <= n
    BY <1>2
  <2>2. /\ Rank(Stage("prepare", s)) = 3 * Place(s)
        /\ \/ Rank(Stage("collect", s)) = 3 * Place(s) + 1
           \/ Rank(Stage("collect", s)) = 3 * n + Place(s)
    BY RankFacts, Zenon
  <2>3. Place(s) >= 1
    BY <1>2
  <2> QED BY <1>2, <2>1, <2>2, <2>3
<1>4. ASSUME job.kind # "region" PROVE \A s \in SplitSet : /\ Rank(Stage("collect", s)) < Rank(Stage("train", "all"))
                                                          /\ Rank(Stage("train", "all")) < Rank(Stage("evaluate", s))
                                                          /\ Rank(Stage("collect", s)) < Rank(Stage("evaluate", s))
  <2> TAKE s \in SplitSet
  <2>1. Place(s) \in Nat /\ Place(s) <= n /\ Place(s) >= 1
    BY <1>2
  <2>2. /\ Rank(Stage("train", "all")) = 4 * n + 1
        /\ Rank(Stage("evaluate", s)) = 4 * n + 1 + Place(s)
        /\ \/ Rank(Stage("collect", s)) = 3 * Place(s) + 1
           \/ Rank(Stage("collect", s)) = 3 * n + Place(s)
    BY <1>4, RankFacts, Zenon
  <2> QED BY <1>2, <2>1, <2>2
<1>5. \A s \in SplitSet : /\ Rank(Stage("collect", s)) < Rank(Stage("qa", s))
                          /\ Rank(Stage("collect", s)) < Rank(Stage("replay", s))
  <2> TAKE s \in SplitSet
  <2>1. Place(s) \in Nat /\ Place(s) <= n /\ Place(s) >= 1
    BY <1>2
  <2>2. /\ Rank(Stage("qa", s)) = 5 * n + 2 /\ Rank(Stage("replay", s)) = 5 * n + 2
        /\ \/ Rank(Stage("collect", s)) = 3 * Place(s) + 1
           \/ Rank(Stage("collect", s)) = 3 * n + Place(s)
    BY RankFacts, Zenon
  <2> QED BY <1>2, <2>1, <2>2
<1>6. /\ \A s : Rank(Stage("train", "all")) < Rank(Stage("replay", s))
      /\ Rank(Stage("train", "all")) < Rank(Stage("export", "all"))
      /\ Rank(Stage("train", "all")) < Rank(Stage("clear", "all"))
      /\ Rank(Stage("export", "all")) < Rank(Stage("clear", "all"))
      /\ Rank(Stage("clear", "all")) = 5 * n + 5 /\ Rank(Stage("export", "all")) = 5 * n + 4
  <2>1. /\ Rank(Stage("train", "all")) = 4 * n + 1 \/ Rank(Stage("train", "all")) = 4
        /\ \A s : Rank(Stage("replay", s)) = 5 * n + 2
        /\ Rank(Stage("export", "all")) = 5 * n + 4 /\ Rank(Stage("clear", "all")) = 5 * n + 5
    BY RankFacts, Zenon
  <2> QED BY <1>2, <2>1
<1>7. ASSUME job.kind = "region"
      PROVE  /\ Rank(Stage("prepare", TrainSplit)) < Rank(Stage("train", "all"))
             /\ Rank(Stage("train", "all")) <= Rank(Stage("cleanup", TrainSplit))
             /\ \A s \in SplitSet : /\ Rank(Stage("prepare", s)) < Rank(Stage("evaluate", s))
                                    /\ Rank(Stage("evaluate", s)) <= Rank(Stage("cleanup", s))
                                    /\ Place(s) # 1 => Rank(Stage("train", "all")) < Rank(Stage("evaluate", s))
  <2>1. Place(TrainSplit) = 1
    BY SplitFacts
  <2>2. /\ Rank(Stage("prepare", TrainSplit)) = 3 * Place(TrainSplit) /\ Rank(Stage("train", "all")) = 4
        /\ Rank(Stage("cleanup", TrainSplit)) = 3 * Place(TrainSplit) + 2
        /\ \A s : /\ Rank(Stage("prepare", s)) = 3 * Place(s) /\ Rank(Stage("evaluate", s)) = 3 * Place(s) + 1
                  /\ Rank(Stage("cleanup", s)) = 3 * Place(s) + 2
    BY <1>7, RankFacts, Zenon
  <2>3. \A s \in SplitSet : Place(s) \in Nat /\ Place(s) >= 1
    BY <1>2
  <2> QED BY <2>1, <2>2, <2>3
<1>8. \A x \in ToSet(Stages) : Rank(x) \in Nat /\ Rank(x) <= 5 * n + 5
  BY StagesOf DEF Ordered
<1>9. \A s : h = Stage("collect", s) => job.kind # "region" /\ Passed(Stage("prepare", s))
  BY <1>1, <1>2, <1>3, StagesOf, StageFacts DEF StageForms
<1>10. h = Stage("train", "all") =>
         /\ job.kind # "evaluation"
         /\ job.kind # "region" => Passed(Stage("collect", TrainSplit))
         /\ job.kind = "region" => /\ Passed(Stage("prepare", TrainSplit))
                                   /\ Stage("cleanup", TrainSplit) \in ToSet(todo)
  <2> SUFFICES ASSUME h = Stage("train", "all")
               PROVE  /\ job.kind # "evaluation"
                      /\ job.kind # "region" => Passed(Stage("collect", TrainSplit))
                      /\ job.kind = "region" => /\ Passed(Stage("prepare", TrainSplit))
                                                /\ Stage("cleanup", TrainSplit) \in ToSet(todo)
    OBVIOUS
  <2>1. job.kind # "evaluation"
    BY <1>1, StagesOf
  <2>2. TrainSplit \in SplitSet
    BY SplitFacts
  <2>3. CASE job.kind # "region"
    <3>1. Stage("collect", TrainSplit) \in ToSet(Stages)
      BY <2>1, <2>3, StagesOf DEF Kinds
    <3> QED BY <3>1, <2>2, <2>3, <2>1, <1>4, <1>1
  <2>4. CASE job.kind = "region"
    BY <2>1, <2>4, <1>7, <1>1, StagesOf
  <2> QED BY <2>1, <2>3, <2>4
<1>11. ASSUME NEW s, h = Stage("evaluate", s)
       PROVE  /\ job.kind # "evaluation" => Passed(Stage("train", "all"))
              /\ job.kind # "region" => Passed(Stage("collect", s))
              /\ job.kind = "region" => /\ Passed(Stage("prepare", s))
                                        /\ Stage("cleanup", s) \in ToSet(todo)
  <2>1. s \in SplitSet
    BY <1>2, <1>11, StageFacts DEF StageForms
  <2>2. CASE job.kind # "region"
    <3>1. Stage("collect", s) \in ToSet(Stages)
      BY <2>2, <1>1, <1>11, StagesOf
    <3>2. job.kind # "evaluation" => Stage("train", "all") \in ToSet(Stages)
      BY StagesOf
    <3> QED BY <3>1, <3>2, <2>1, <2>2, <1>4, <1>1, <1>11
  <2>3. CASE job.kind = "region"
    <3>1. /\ Stage("prepare", s) \in ToSet(Stages) /\ Stage("cleanup", s) \in ToSet(Stages)
          /\ Place(s) # 1 /\ Stage("train", "all") \in ToSet(Stages)
      BY <2>3, <1>1, <1>11, StagesOf
    <3> QED BY <3>1, <2>1, <2>3, <1>7, <1>1, <1>11
  <2> QED BY <2>2, <2>3
<1>12. \A s : h = Stage("qa", s) => job.kind = "evaluation" /\ Passed(Stage("collect", s))
  BY <1>1, <1>2, <1>5, StagesOf, StageFacts DEF StageForms
<1>13. \A s : h = Stage("replay", s) =>
         job.kind = "index" /\ Passed(Stage("collect", s)) /\ Passed(Stage("train", "all"))
  BY <1>1, <1>2, <1>5, <1>6, StagesOf, StageFacts DEF StageForms
<1>14. h = Stage("clear", "all") => Passed(Stage("export", "all"))
  BY <1>1, <1>6, StagesOf
<1>15. h \in {Stage("export", "all"), Stage("clear", "all")} /\ job.kind # "evaluation" =>
         Passed(Stage("train", "all"))
  BY <1>1, <1>6, StagesOf
<1>16. Stage("clear", "all") \in ToSet(todo)
  BY <1>1, <1>6, <1>8, StagesOf
<1>17. ASSUME h # Stage("clear", "all") PROVE Stage("export", "all") \in ToSet(todo)
  <2>1. Rank(h) # 5 * n + 5
    BY <1>1, <1>2, <1>17, RankedForms
  <2>2. Rank(h) <= 5 * n + 4
    BY <2>1, <1>1, <1>2, <1>8
  <2> QED BY <2>2, <1>1, <1>6, StagesOf
<1> QED BY <1>2, <1>9, <1>10, <1>11, <1>12, <1>13, <1>14, <1>15, <1>16, <1>17 DEF h

------------------------------------------------------------------------------
(* Files that are whole before others are there.                              *)

\* The kind of a file.
FileKind(f) == f[1]

\* The file f is written before g: g tells that f is done.
PairedOf(kind, f, g) ==
  \/ \E s \in SplitSet : f = Input(s) /\ g = InputManifest(s)
  \/ \E s \in SplitSet : f = Dataset(s) /\ g = Collection(s)
  \/ \E s \in SplitSet, b \in Blocks : f = Block(s, b) /\ g = Entry(s, b)
  \/ kind = "index" /\ \E s \in SplitSet, b \in Blocks : f = Entry(s, b) /\ g = Collection(s)

\* g is there only if f is whole.
Paired(f, g) == PairedOf(job.kind, f, g)

Inputs == {Input(s) : s \in SplitSet}

WholeIn(d, f) == f \in DOMAIN d /\ d[f].whole

\* f is written by one of the first operations of w.
WrittenBefore(w, f, i) == \E j \in DOMAIN w : j < i /\ w[j].op = "put" /\ w[j].file = f

\* g is there only behind a whole f, now and by the operations that are left.
Guarded(d, w, f, g) ==
  /\ g \in DOMAIN d => WholeIn(d, f) \/ (f \in Inputs /\ f \notin DOMAIN d)
  /\ \A i \in DOMAIN w : w[i].op \in {"open", "put"} /\ w[i].file = g =>
       WholeIn(d, f) \/ WrittenBefore(w, f, i)
  /\ \A i \in DOMAIN w : w[i].op = "open" /\ w[i].file = f =>
       g \notin DOMAIN d /\ \A j \in DOMAIN w : j < i => w[j].file # g

\* No marker without what it stands for; a block entry is replaced atomically.
PairsInv ==
  /\ \A f, g : Paired(f, g) => Guarded(disk, write, f, g)
  /\ \A f \in DOMAIN disk : FileKind(f) = "block_entry" => disk[f].whole

\* A file is opened to be written next; nothing half done is written.
OperationOk(w, i, left, tmp, artifacts) ==
  /\ w[i].op \in {"open", "put", "unlink", "copy", "rename", "clear"}
  /\ w[i].op = "open" =>
       /\ i + 1 \in DOMAIN w
       /\ w[i + 1].op = "put" /\ w[i + 1].file = w[i].file
       /\ FileKind(w[i].file) # "block_entry"
  /\ w[i].op = "put" => w[i].content.whole
  /\ w[i].op \in {"open", "put"} => w[i].file \notin {Best, Metrics}
  /\ w[i].op = "unlink" =>
       /\ \A j \in DOMAIN w : w[j].op = "unlink"
       /\ \E s \in SplitSet : /\ w[i].file \in {Input(s), InputManifest(s)}
                              /\ Stage("cleanup", s) \notin ToSet(left)
  /\ w[i].op \in {"copy", "rename"} => w[i].file \in artifacts /\ left # <<>>
  /\ w[i].op = "clear" => left = <<>> /\ tmp /\ \A j \in DOMAIN w : j = 1
  /\ w[i].op \in {"open", "put", "unlink"} => Stage("export", "all") \in ToSet(left)

\* What the current command has left to do is sound.
WriteInv ==
  /\ IsSeq(write)
  /\ \A i \in DOMAIN write : OperationOk(write, i, todo, job.tmp, ToSet(Exported))

\* f is written by one of the operations.
Comes(w, f) == \E i \in DOMAIN w : w[i].op = "put" /\ w[i].file = f

\* f is whole, or will be when the operations of the command are done.
Safe(f) == WholeIn(disk, f) \/ Comes(write, f)

\* What the stages behind the launch have left.
ProgressInv ==
  \A s \in SplitSet :
    /\ Passed(Stage("prepare", s)) /\ Input(s) \in DOMAIN disk => Safe(Input(s))
    /\ job.kind = "region" /\ Passed(Stage("prepare", s)) /\ Stage("cleanup", s) \in ToSet(todo) =>
         Safe(Input(s))
    /\ Passed(Stage("collect", s)) => Safe(Dataset(s))
    /\ job.kind = "index" /\ Passed(Stage("collect", s)) => \A b \in Blocks : Safe(Entry(s, b))

------------------------------------------------------------------------------
(* One training run.                                                          *)

\* The checkpoint is whole, its row is in the metrics and is the best of its run.
ConsistentOf(kind, d) ==
  LET run == d[Best].of
      rows == ToSet(d[Metrics].rows)
  IN /\ {Best, Metrics} \subseteq DOMAIN d /\ d[Best].whole
     /\ [of |-> run, epoch |-> d[Best].epoch, loss |-> d[Best].loss] \in rows
     /\ \A row \in rows : row.of = run => d[Best].loss <= row.loss
     /\ kind # "region" => \A row \in rows : row.of = run

Consistent(d) == ConsistentOf(job.kind, d)

Results == {Summary} \cup {Evaluation(s) : s \in SplitSet}

\* The results are there only behind a training that is done, and are of it.
ResultsInv ==
  /\ \A f \in Results : f \in DOMAIN disk =>
       /\ Consistent(disk) /\ Summary \in DOMAIN disk
       /\ disk[f].whole => disk[f].of = disk[Best].of
  /\ \A i \in DOMAIN write : write[i].op = "put" /\ write[i].file \in Results =>
       /\ Consistent(disk) /\ write[i].content.of = disk[Best].of
       /\ write[i].file # Summary => Summary \in DOMAIN disk
  /\ Passed(Stage("train", "all")) => Consistent(disk) /\ (Summary \in DOMAIN disk \/ Comes(write, Summary))

\* Only a kill within a command leaves a file half written.
TornInv ==
  \A f \in DOMAIN disk : f # Best /\ ~disk[f].whole => torn \/ Comes(write, f)

MetricRows == disk[Metrics].rows

\* The rows are of launches up to this one.
RowsOk(r, launch) ==
  IsSeq(r) /\ \A row \in ToSet(r) : row.of \in Nat /\ row.of <= launch /\ row.loss \in Nat

\* The rows are of earlier launches.
Older(r, launch) == \A row \in ToSet(r) : row.of < launch

\* The rows of this launch are those of the training it is in or has ended.
RowsInv ==
  /\ kills \in Nat
  /\ Metrics \in DOMAIN disk =>
       /\ RowsOk(MetricRows, LaunchNumber)
       /\ phase = "idle" \/ (Stage("train", "all") \in ToSet(todo) /\ fit = NoFit) => Older(MetricRows, LaunchNumber)

\* What the trainer holds agrees with its rows and, but while it is saving, with
\* the checkpoint.
FitInv ==
  fit # NoFit =>
    /\ fit \in [at : {"epoch", "save", "close"}, epoch : Nat, best : Losses \cup {Worst}, stale : Nat]
    /\ \A f \in Results : f \notin DOMAIN disk
    /\ Metrics \in DOMAIN disk
    /\ job.kind # "region" => \A row \in ToSet(MetricRows) : row.of = LaunchNumber
    /\ \A row \in ToSet(MetricRows) : row.of = LaunchNumber => fit.best <= row.loss
    /\ fit.best = Worst => fit.at = "epoch" /\ \A row \in ToSet(MetricRows) : row.of # LaunchNumber
    /\ fit.best # Worst /\ fit.at # "save" =>
         /\ WholeIn(disk, Best)
         /\ disk[Best].of = LaunchNumber /\ disk[Best].loss = fit.best
         /\ [of |-> LaunchNumber, epoch |-> disk[Best].epoch, loss |-> fit.best] \in ToSet(MetricRows)
    /\ fit.at = "save" => [of |-> LaunchNumber, epoch |-> fit.epoch, loss |-> fit.best] \in ToSet(MetricRows)

\* What a completed launch leaves.
GoodOf(kind, struck, d) ==
  /\ ConsistentOf(kind, d) /\ Summary \in DOMAIN d
  /\ \A f \in Results : f \in DOMAIN d => IF d[f].whole THEN d[f].of = d[Best].of ELSE struck

Good(d) == GoodOf(job.kind, torn, d)

\* The export replaces all artifacts by those of the workspace.
ExportInv ==
  /\ DOMAIN home \subseteq ToSet(Exported)
  /\ Working /\ job.tmp /\ Stage("export", "all") \notin ToSet(todo) =>
       \A f \in ToSet(Exported) :
         /\ f \in DOMAIN disk
         /\ \/ f \in DOMAIN home /\ home[f] = disk[f]
            \/ \E i \in DOMAIN write : write[i].op = "rename" /\ write[i].file = f
  /\ job.kind # "evaluation" /\ phase = "running" /\ todo = <<>> /\ job.tmp => Good(home)
  /\ job.kind # "evaluation" /\ phase = "complete" => Good(Published)

\* What holds but of what a kill within the clearing of a workspace has left.
SoundInv == PairsInv /\ ProgressInv /\ ResultsInv /\ TornInv /\ RowsInv /\ FitInv /\ ExportInv

\* The inductive invariant of the pipelines.
PipelineInv ==
  /\ TodoInv /\ WriteInv
  /\ kills \in Nat /\ DOMAIN home \subseteq ToSet(Exported)
  /\ ~remains => SoundInv

------------------------------------------------------------------------------
(* Files and operations on them.                                            *)

\* A directory with one file more, or one replaced.
LEMMA PutFacts ==
  ASSUME NEW d, NEW f, NEW c
  PROVE  /\ DOMAIN Put(d, f, c) = DOMAIN d \cup {f} /\ Put(d, f, c)[f] = c
         /\ \A g \in DOMAIN d : g # f => Put(d, f, c)[g] = d[g]
BY DEF Put

\* A directory without a file.
LEMMA RemovedFacts ==
  ASSUME NEW d, NEW f
  PROVE  /\ DOMAIN Removed(d, f) = DOMAIN d \ {f}
         /\ \A g \in DOMAIN d : g # f => Removed(d, f)[g] = d[g]
BY DEF Removed, Restrict

\* An empty directory, an open file and a whole one.
LEMMA EmptyFacts == DOMAIN Empty = {} /\ ~Open.whole /\ Plain.whole
BY DEF Empty, Open, Plain

\* Files of different kinds differ.
LEMMA FileKinds ==
  /\ \A s : /\ FileKind(Input(s)) = "input" /\ FileKind(InputManifest(s)) = "input_manifest"
            /\ FileKind(Dataset(s)) = "dataset" /\ FileKind(Collection(s)) = "collection_manifest"
            /\ FileKind(Evaluation(s)) = "evaluation" /\ FileKind(Answers(s)) = "qa"
  /\ \A s, b : FileKind(Block(s, b)) = "block" /\ FileKind(Entry(s, b)) = "block_entry"
  /\ FileKind(Configuration) = "resolved_config" /\ FileKind(Metrics) = "metrics_jsonl"
  /\ FileKind(Best) = "best_pt" /\ FileKind(Final) = "final_pt" /\ FileKind(Summary) = "summary_json"
  /\ FileKind(Replay) = "replay" /\ FileKind(PipelineManifest) = "hpc_pipeline_manifest"
  /\ FileKind(Combined) = "metrics_json"
<1>1. \A s : /\ FileKind(Input(s)) = "input" /\ FileKind(InputManifest(s)) = "input_manifest"
             /\ FileKind(Dataset(s)) = "dataset" /\ FileKind(Collection(s)) = "collection_manifest"
             /\ FileKind(Evaluation(s)) = "evaluation" /\ FileKind(Answers(s)) = "qa"
  BY DEF FileKind, Input, InputManifest, Dataset, Collection, Evaluation, Answers
<1>2. \A s, b : FileKind(Block(s, b)) = "block" /\ FileKind(Entry(s, b)) = "block_entry"
  BY DEF FileKind, Block, Entry
<1>3. /\ FileKind(Configuration) = "resolved_config" /\ FileKind(Metrics) = "metrics_jsonl"
      /\ FileKind(Best) = "best_pt" /\ FileKind(Final) = "final_pt" /\ FileKind(Summary) = "summary_json"
      /\ FileKind(Replay) = "replay" /\ FileKind(PipelineManifest) = "hpc_pipeline_manifest"
      /\ FileKind(Combined) = "metrics_json"
  BY DEF FileKind, Configuration, Metrics, Best, Final, Summary, Replay, PipelineManifest, Combined
<1> QED BY <1>1, <1>2, <1>3

\* The split, and the block, a file is of.
LEMMA FileOwners ==
  /\ \A s : Input(s)[2] = s /\ InputManifest(s)[2] = s /\ Dataset(s)[2] = s /\ Collection(s)[2] = s
  /\ \A s, b : /\ Block(s, b)[2] = s /\ Block(s, b)[3] = b /\ Entry(s, b)[2] = s /\ Entry(s, b)[3] = b
BY DEF Input, InputManifest, Dataset, Collection, Block, Entry

\* A launch keeps its configuration, and with it its stages and artifacts.
LEMMA Kept ==
  ASSUME UNCHANGED job
  PROVE  /\ Stages' = Stages /\ Exported' = Exported
         /\ \A f, g : Paired(f, g)' <=> Paired(f, g)
         /\ \A x : Rank(x)' = Rank(x)
<1>1. AlignedStages' = AlignedStages
  BY Zenon DEF AlignedStages
<1>2. Stages' = Stages
  BY <1>1, Zenon DEF Stages
<1>3. Exported' = Exported
  BY Zenon DEF Exported
<1>4. \A f, g : Paired(f, g)' <=> Paired(f, g)
  BY DEF Paired
<1>5. \A x : Rank(x)' = Rank(x)
  BY Zenon DEF Rank
<1> QED BY <1>2, <1>3, <1>4, <1>5

\* The configuration of a launch.
LEMMA JobFacts ==
  ASSUME TodoInv
  PROVE  job.kind \in Kinds /\ job.tmp \in BOOLEAN /\ job.ephemeral \in BOOLEAN
BY PipelinesAssumption DEF TodoInv, PipelinesAssumption

\* The next stage is done with.
LEMMA TodoNext ==
  ASSUME TodoInv, phase = "running", todo # <<>>, UNCHANGED <<job, phase>>, todo' = Tail(todo), fit' = NoFit
  PROVE  /\ TodoInv'
         /\ ToSet(todo') = ToSet(todo) \ {Head(todo)}
         /\ \A x : Passed(x)' => Passed(x) \/ x = Head(todo)
<1> DEFINE h == Head(todo)
<1>1. /\ IsSeq(todo) /\ Ascends(todo) /\ h \in ToSet(Stages)
      /\ \A x : x \in ToSet(todo) <=> x \in ToSet(Stages) /\ Rank(x) >= Rank(h)
  BY DEF TodoInv
<1>2. job.kind \in Kinds
  BY JobFacts
<1>3. \A x \in ToSet(Stages) : Rank(x) \in Nat
  BY <1>2, StagesOf DEF Ordered
<1>4. /\ IsSeq(Tail(todo)) /\ 1 \in DOMAIN todo /\ h = todo[1]
      /\ \A i \in DOMAIN Tail(todo) : i \in Nat /\ i >= 1 /\ i + 1 \in DOMAIN todo /\ Tail(todo)[i] = todo[i + 1]
      /\ \A i \in DOMAIN todo : i \in Nat /\ i >= 1
      /\ \A i \in DOMAIN todo : i # 1 => i - 1 \in DOMAIN Tail(todo) /\ Tail(todo)[i - 1] = todo[i]
  BY <1>1, TailFacts
<1> HIDE DEF h
<1>5. \A i \in DOMAIN todo : todo[i] \in ToSet(Stages) /\ (i # 1 => Rank(h) < Rank(todo[i]))
  <2> TAKE i \in DOMAIN todo
  <2>1. todo[i] \in ToSet(todo)
    BY DEF ToSet
  <2>2. i # 1 => 1 < i
    BY <1>4
  <2> QED BY <2>1, <2>2, <1>1, <1>4 DEF Ascends
<1>6. ToSet(Tail(todo)) = ToSet(todo) \ {h}
  <2>1. \A x \in ToSet(Tail(todo)) : x \in ToSet(todo) /\ x # h
    <3> TAKE x \in ToSet(Tail(todo))
    <3>1. PICK i \in DOMAIN Tail(todo) : x = Tail(todo)[i]
      BY DEF ToSet
    <3>2. i + 1 \in DOMAIN todo /\ x = todo[i + 1] /\ i + 1 # 1
      BY <3>1, <1>4
    <3>3. Rank(h) < Rank(x) /\ Rank(h) \in Nat /\ Rank(x) \in Nat
      BY <3>2, <1>5, <1>3, <1>1
    <3> QED BY <3>2, <3>3 DEF ToSet
  <2>2. \A x \in ToSet(todo) : x # h => x \in ToSet(Tail(todo))
    <3> TAKE x \in ToSet(todo)
    <3>1. PICK i \in DOMAIN todo : x = todo[i]
      BY DEF ToSet
    <3> QED BY <3>1, <1>4 DEF ToSet
  <2> QED BY <2>1, <2>2
<1>7. Ascends(Tail(todo))
  <2> SUFFICES ASSUME NEW i \in DOMAIN Tail(todo), NEW j \in DOMAIN Tail(todo), i < j
               PROVE  Rank(Tail(todo)[i]) < Rank(Tail(todo)[j])
    BY DEF Ascends
  <2>1. i + 1 \in DOMAIN todo /\ j + 1 \in DOMAIN todo /\ i + 1 < j + 1
    BY <1>4
  <2> QED BY <2>1, <1>1, <1>4 DEF Ascends
<1>8. ASSUME Tail(todo) # <<>>
      PROVE  /\ Head(Tail(todo)) \in ToSet(Stages)
             /\ \A x : x \in ToSet(Tail(todo)) <=> x \in ToSet(Stages) /\ Rank(x) >= Rank(Head(Tail(todo)))
  <2> DEFINE n == Head(Tail(todo))
  <2>1. 1 \in DOMAIN Tail(todo) /\ n = Tail(todo)[1]
    BY <1>4, <1>8, TailFacts
  <2>2. n = todo[2] /\ 2 \in DOMAIN todo
    BY <2>1, <1>4
  <2>3. n \in ToSet(Stages) /\ Rank(h) < Rank(n) /\ Rank(n) \in Nat /\ Rank(h) \in Nat /\ n \in ToSet(todo)
    BY <2>2, <1>1, <1>3, <1>5 DEF ToSet
  <2> HIDE DEF n
  <2>4. ASSUME NEW x, x \in ToSet(Tail(todo)) PROVE x \in ToSet(Stages) /\ Rank(x) >= Rank(n)
    <3>1. PICK i \in DOMAIN Tail(todo) : x = Tail(todo)[i]
      BY <2>4 DEF ToSet
    <3>2. i + 1 \in DOMAIN todo /\ x = todo[i + 1] /\ i + 1 >= 2
      BY <3>1, <1>4
    <3>3. x \in ToSet(Stages) /\ Rank(x) \in Nat
      BY <3>2, <1>3, <1>5
    <3>4. i + 1 = 2 \/ Rank(n) < Rank(x)
      BY <3>2, <2>2, <1>1, <1>4 DEF Ascends
    <3> QED BY <3>2, <3>3, <3>4, <2>2, <2>3
  <2>5. ASSUME NEW x \in ToSet(Stages), Rank(x) >= Rank(n) PROVE x \in ToSet(Tail(todo))
    <3>1. Rank(x) >= Rank(h) /\ x # h
      BY <2>3, <2>5, <1>3
    <3> QED BY <3>1, <1>1, <1>6
  <2> QED BY <2>3, <2>4, <2>5 DEF n
<1>9. TodoInv'
  <2>1. /\ Stages' = Stages /\ \A x : Rank(x)' = Rank(x)
    BY Kept
  <2>2. Ascends(todo)'
    BY <1>7, <2>1 DEF Ascends
  <2>3. job' \in Jobs /\ IsSeq(todo')
    BY <1>4 DEF TodoInv
  <2> QED BY <1>8, <2>1, <2>2, <2>3 DEF TodoInv
<1>10. \A x : Passed(x)' => Passed(x) \/ x = h
  <2>1. Stages' = Stages
    BY Kept
  <2> QED BY <2>1, <1>6 DEF Passed, Working
<1> QED BY <1>6, <1>9, <1>10 DEF h

------------------------------------------------------------------------------
(* What a command writes.                                                   *)

\* A file and its content.
Of(f, c) == [file |-> f, content |-> c]

\* w writes the files of P, and no others: each in place or atomically.
Writing(w, P) ==
  /\ IsSeq(w)
  /\ \A i \in DOMAIN w :
       /\ w[i].op \in {"open", "put"}
       /\ w[i].op = "open" => /\ i + 1 \in DOMAIN w
                              /\ w[i + 1].op = "put" /\ w[i + 1].file = w[i].file
                              /\ FileKind(w[i].file) # "block_entry"
       /\ w[i].op = "put" => \E p \in P : w[i].file = p.file /\ w[i].content = p.content
  /\ \A p \in P : p.content.whole /\ Comes(w, p.file)

\* One of the operations is on f.
Touches(w, f) == \E i \in DOMAIN w : w[i].file = f

\* g is written behind f, and f is not written again behind it.
Follows(w, f, g) ==
  /\ \A i \in DOMAIN w : w[i].file = g => WrittenBefore(w, f, i)
  /\ \A i \in DOMAIN w : w[i].op = "open" /\ w[i].file = f => \A j \in DOMAIN w : j < i => w[j].file # g

\* A file and its content.
LEMMA OfFacts == \A f, c : Of(f, c).file = f /\ Of(f, c).content = c
BY DEF Of

\* The operations of a file written in place, and of one replaced.
LEMMA InPlaceShape ==
  ASSUME NEW f, NEW c
  PROVE  /\ IsSeq(InPlace(f, c)) /\ DOMAIN InPlace(f, c) = 1..2 /\ Len(InPlace(f, c)) = 2
         /\ InPlace(f, c)[1].op = "open" /\ InPlace(f, c)[1].file = f
         /\ InPlace(f, c)[2].op = "put" /\ InPlace(f, c)[2].file = f /\ InPlace(f, c)[2].content = c
<1> DEFINE w == InPlace(f, c)
<1>1. w = <<[op |-> "open", file |-> f], [op |-> "put", file |-> f, content |-> c]>>
  BY DEF InPlace
<1>2. DOMAIN w = 1..2 /\ Len(w) = 2 /\ w \in [1..2 -> {w[1], w[2]}]
  BY <1>1
<1>3. IsSeq(w)
  BY <1>2, SequenceOf
<1> QED BY <1>1, <1>2, <1>3

\* The operation of a file replaced atomically.
LEMMA ReplacedShape ==
  ASSUME NEW f
  PROVE  /\ IsSeq(Replaced(f)) /\ DOMAIN Replaced(f) = 1..1
         /\ Replaced(f)[1].op = "put" /\ Replaced(f)[1].file = f /\ Replaced(f)[1].content = Plain
<1> DEFINE w == Replaced(f)
<1>1. w = <<[op |-> "put", file |-> f, content |-> Plain]>>
  BY DEF Replaced
<1>2. DOMAIN w = 1..1 /\ w \in [1..1 -> {w[1]}]
  BY <1>1
<1>3. IsSeq(w)
  BY <1>2, SequenceOf
<1> QED BY <1>1, <1>2, <1>3

\* A file written in place is all that is written.
LEMMA WritingInPlace ==
  ASSUME NEW f, NEW c, c.whole, FileKind(f) # "block_entry"
  PROVE  Writing(InPlace(f, c), {Of(f, c)})
<1> DEFINE w == InPlace(f, c)
<1>1. /\ DOMAIN w = 1..2 /\ IsSeq(w)
      /\ w[1].op = "open" /\ w[1].file = f
      /\ w[2].op = "put" /\ w[2].file = f /\ w[2].content = c
  BY InPlaceShape
<1> HIDE DEF w
<1>2. \A i \in DOMAIN w : i = 1 \/ i = 2
  BY <1>1
<1>3. Comes(w, f)
  BY <1>1, <1>2 DEF Comes
<1> QED BY <1>1, <1>2, <1>3, OfFacts DEF Writing, w

\* w is a, and behind it b.
JoinOf(w, a, b) ==
  /\ IsSeq(w) /\ Len(a) \in Nat
  /\ \A i \in DOMAIN w : i \in Nat
  /\ \A i \in DOMAIN a : i \in Nat /\ i <= Len(a) /\ i \in DOMAIN w /\ w[i] = a[i]
  /\ \A i \in DOMAIN b : i \in Nat /\ i >= 1 /\ i + Len(a) \in DOMAIN w /\ w[i + Len(a)] = b[i]
  /\ \A i \in DOMAIN w : i \in DOMAIN a \/ (i - Len(a) \in DOMAIN b /\ w[i] = b[i - Len(a)])

\* What is behind what in two sequences, one behind the other.
LEMMA Joined ==
  ASSUME NEW a, NEW b, IsSeq(a), IsSeq(b)
  PROVE  JoinOf(a \o b, a, b)
<1> DEFINE w == a \o b
           m == Len(a)
           n == Len(b)
<1>1. /\ IsSeq(w) /\ m \in Nat /\ n \in Nat
      /\ DOMAIN a = 1..m /\ DOMAIN b = 1..n /\ DOMAIN w = 1..(m + n)
      /\ \A i \in DOMAIN w : w[i] = IF i <= m THEN a[i] ELSE b[i - m]
  BY ConcatFacts
<1> HIDE DEF w, m, n
<1>2. \A i \in DOMAIN a : i \in Nat /\ i <= m /\ i \in DOMAIN w /\ w[i] = a[i]
  BY <1>1
<1>3. \A i \in DOMAIN b : i \in Nat /\ i >= 1 /\ i + m \in DOMAIN w /\ w[i + m] = b[i]
  <2> TAKE i \in DOMAIN b
  <2>1. i \in Nat /\ i >= 1 /\ i <= n
    BY <1>1
  <2>2. i + m \in 1..(m + n) /\ ~(i + m <= m) /\ (i + m) - m = i
    BY <1>1, <2>1
  <2> QED BY <2>1, <2>2, <1>1
<1>4. \A i \in DOMAIN w : i \in Nat /\ (i \in DOMAIN a \/ (i - m \in DOMAIN b /\ w[i] = b[i - m]))
  <2> TAKE i \in DOMAIN w
  <2>1. i \in Nat /\ i >= 1 /\ i <= m + n
    BY <1>1
  <2>2. i <= m => i \in 1..m
    BY <2>1
  <2>3. ~(i <= m) => i - m \in 1..n
    BY <1>1, <2>1
  <2>4. ~(i <= m) => w[i] = b[i - m]
    BY <1>1
  <2>5. DOMAIN a = 1..m /\ DOMAIN b = 1..n
    BY <1>1
  <2> HIDE DEF m, n
  <2> QED BY <2>1, <2>2, <2>3, <2>4, <2>5, Zenon
<1> QED BY <1>1, <1>2, <1>3, <1>4 DEF JoinOf, w, m

\* Both sequences of operations write their files.
LEMMA JoinedComes ==
  ASSUME NEW a, NEW b, IsSeq(a), IsSeq(b), NEW f
  PROVE  /\ Comes(a, f) \/ Comes(b, f) => Comes(a \o b, f)
         /\ Touches(a \o b, f) => Touches(a, f) \/ Touches(b, f)
<1> DEFINE w == a \o b
<1>0. JoinOf(w, a, b)
  BY Joined
<1> HIDE DEF w
<1>1. /\ \A i \in DOMAIN a : i \in DOMAIN w /\ w[i] = a[i]
      /\ \A i \in DOMAIN b : i + Len(a) \in DOMAIN w /\ w[i + Len(a)] = b[i]
      /\ \A i \in DOMAIN w : \/ i \in DOMAIN a
                             \/ i - Len(a) \in DOMAIN b /\ w[i] = b[i - Len(a)]
  BY <1>0 DEF JoinOf
<1>2. Comes(a, f) \/ Comes(b, f) => Comes(w, f)
  BY <1>1 DEF Comes
<1>3. Touches(w, f) => Touches(a, f) \/ Touches(b, f)
  BY <1>1 DEF Touches
<1> QED BY <1>2, <1>3 DEF w

\* Two sequences of operations write the files of both.
LEMMA WritingConcat ==
  ASSUME NEW a, NEW b, NEW P, NEW Q, Writing(a, P), Writing(b, Q)
  PROVE  Writing(a \o b, P \cup Q)
<1> DEFINE w == a \o b
<1>1. IsSeq(a) /\ IsSeq(b)
  BY DEF Writing
<1>0. JoinOf(w, a, b)
  BY <1>1, Joined
<1>3. \A p \in P \cup Q : Comes(w, p.file) /\ p.content.whole
  <2> TAKE p \in P \cup Q
  <2>1. p.content.whole /\ (Comes(a, p.file) \/ Comes(b, p.file))
    BY DEF Writing
  <2> QED BY <2>1, <1>1, JoinedComes
<1> HIDE DEF w
<1>2. /\ IsSeq(w) /\ Len(a) \in Nat
      /\ \A i \in DOMAIN a : i \in Nat /\ i <= Len(a) /\ i \in DOMAIN w /\ w[i] = a[i]
      /\ \A i \in DOMAIN b : i \in Nat /\ i >= 1 /\ i + Len(a) \in DOMAIN w /\ w[i + Len(a)] = b[i]
      /\ \A i \in DOMAIN w : i \in Nat
      /\ \A i \in DOMAIN w : \/ i \in DOMAIN a
                             \/ i - Len(a) \in DOMAIN b /\ w[i] = b[i - Len(a)]
  BY <1>0 DEF JoinOf
<1>4. ASSUME NEW i \in DOMAIN w
      PROVE  /\ w[i].op \in {"open", "put"}
             /\ w[i].op = "open" => /\ i + 1 \in DOMAIN w
                                    /\ w[i + 1].op = "put" /\ w[i + 1].file = w[i].file
                                    /\ FileKind(w[i].file) # "block_entry"
             /\ w[i].op = "put" => \E p \in P \cup Q : w[i].file = p.file /\ w[i].content = p.content
  <2>1. CASE i \in DOMAIN a
    <3>1. w[i] = a[i] /\ (i + 1 \in DOMAIN a => i + 1 \in DOMAIN w /\ w[i + 1] = a[i + 1])
      BY <2>1, <1>2
    <3> QED BY <3>1, <2>1 DEF Writing
  <2>2. CASE i - Len(a) \in DOMAIN b /\ w[i] = b[i - Len(a)]
    <3> DEFINE k == i - Len(a)
    <3>1. k \in DOMAIN b /\ w[i] = b[k]
      BY <2>2
    <3>2. k + 1 \in DOMAIN b => i + 1 \in DOMAIN w /\ w[i + 1] = b[k + 1]
      <4>1. (k + 1) + Len(a) = i + 1
        BY <1>2
      <4> HIDE DEF k
      <4> QED BY <4>1, <1>2
    <3> HIDE DEF k
    <3> QED BY <3>1, <3>2 DEF Writing
  <2> QED BY <2>1, <2>2, <1>2
<1> QED BY <1>2, <1>3, <1>4 DEF Writing, w

\* A command opens what it then writes.
LEMMA WritingFiles ==
  ASSUME NEW w, NEW P, Writing(w, P), NEW i \in DOMAIN w
  PROVE  \E p \in P : w[i].file = p.file
BY DEF Writing

\* The order of two files holds when neither is touched later.
LEMMA FollowsFirst ==
  ASSUME NEW a, NEW b, IsSeq(a), IsSeq(b), NEW f, NEW g,
         Follows(a, f, g), ~Touches(b, f), ~Touches(b, g)
  PROVE  Follows(a \o b, f, g)
<1> DEFINE w == a \o b
<1>0. JoinOf(w, a, b)
  BY Joined
<1> HIDE DEF w
<1>1. /\ \A i \in DOMAIN a : i \in Nat /\ i <= Len(a) /\ i \in DOMAIN w /\ w[i] = a[i]
      /\ \A i \in DOMAIN w : i \in Nat
      /\ \A i \in DOMAIN w : \/ i \in DOMAIN a
                             \/ i - Len(a) \in DOMAIN b /\ w[i] = b[i - Len(a)]
  BY <1>0 DEF JoinOf
<1>2. \A i \in DOMAIN w : w[i].file \in {f, g} => i \in DOMAIN a /\ w[i] = a[i]
  BY <1>1 DEF Touches
<1>3. ASSUME NEW i \in DOMAIN w, w[i].file = g PROVE WrittenBefore(w, f, i)
  <2>1. WrittenBefore(a, f, i)
    BY <1>2, <1>3 DEF Follows
  <2> QED BY <2>1, <1>1 DEF WrittenBefore
<1>4. ASSUME NEW i \in DOMAIN w, w[i].op = "open", w[i].file = f, NEW j \in DOMAIN w, j < i
      PROVE  w[j].file # g
  BY <1>2, <1>4 DEF Follows
<1> QED BY <1>3, <1>4 DEF Follows, w

\* A file written by the first operations is before one of the later ones.
LEMMA FollowsNext ==
  ASSUME NEW a, NEW b, IsSeq(a), IsSeq(b), NEW f, NEW g,
         Comes(a, f), ~Touches(a, g), ~Touches(b, f)
  PROVE  Follows(a \o b, f, g)
<1> DEFINE w == a \o b
<1>0. JoinOf(w, a, b)
  BY Joined
<1> HIDE DEF w
<1>1. /\ Len(a) \in Nat
      /\ \A i \in DOMAIN a : i \in Nat /\ i <= Len(a) /\ i \in DOMAIN w /\ w[i] = a[i]
      /\ \A i \in DOMAIN b : i \in Nat /\ i >= 1
      /\ \A i \in DOMAIN w : i \in Nat
      /\ \A i \in DOMAIN w : \/ i \in DOMAIN a
                             \/ i - Len(a) \in DOMAIN b /\ w[i] = b[i - Len(a)]
  BY <1>0 DEF JoinOf
<1>2. PICK k \in DOMAIN a : a[k].op = "put" /\ a[k].file = f
  BY DEF Comes
<1>3. ASSUME NEW i \in DOMAIN w, w[i].file = g PROVE WrittenBefore(w, f, i)
  <2>1. i - Len(a) \in DOMAIN b
    BY <1>1, <1>3 DEF Touches
  <2>2. k < i /\ k \in DOMAIN w /\ w[k] = a[k]
    BY <2>1, <1>1
  <2> QED BY <2>2, <1>2 DEF WrittenBefore
<1>4. ASSUME NEW i \in DOMAIN w, w[i].file = f, NEW j \in DOMAIN w, j < i
      PROVE  w[j].file # g
  <2>1. i \in DOMAIN a
    BY <1>1, <1>4 DEF Touches
  <2>2. j \in DOMAIN a
    <3>1. i <= Len(a) /\ i \in Nat /\ j \in Nat
      BY <2>1, <1>1
    <3>2. CASE j - Len(a) \in DOMAIN b
      BY <3>1, <3>2, <1>1, <1>4
    <3> QED BY <3>2, <1>1
  <2> QED BY <2>2, <1>1 DEF Touches
<1> QED BY <1>3, <1>4 DEF Follows, w

\* What a command that begins writes leaves the pairs of files in order.
LEMMA GuardApart ==
  ASSUME NEW d, NEW w, NEW f, NEW g, NEW e, Guarded(d, e, f, g), ~Touches(w, f), ~Touches(w, g)
  PROVE  Guarded(d, w, f, g)
BY DEF Guarded, Touches

\* A guard that is not there yet and is written behind its file.
LEMMA GuardNew ==
  ASSUME NEW d, NEW w, NEW f, NEW g, g \notin DOMAIN d, Follows(w, f, g)
  PROVE  Guarded(d, w, f, g)
BY DEF Guarded, Follows

\* A whole file that is not opened again.
LEMMA GuardWhole ==
  ASSUME NEW d, NEW w, NEW f, NEW g, NEW e, Guarded(d, e, f, g), WholeIn(d, f),
         \A i \in DOMAIN w : w[i].op = "open" => w[i].file # f
  PROVE  Guarded(d, w, f, g)
BY DEF Guarded

------------------------------------------------------------------------------
(* What each stage writes.                                                  *)

\* All elements of a finite set, each once.
LEMMA ElementsInTurn ==
  ASSUME NEW S, IsFiniteSet(S)
  PROVE  /\ Cardinality(S) \in Nat
         /\ SetToSeq(S) \in [1..Cardinality(S) -> S]
         /\ \A i, j \in 1..Cardinality(S) : SetToSeq(S)[i] = SetToSeq(S)[j] => i = j
         /\ \A x \in S : \E i \in 1..Cardinality(S) : SetToSeq(S)[i] = x
<1> DEFINE n == Cardinality(S)
           q == SetToSeq(S)
<1>1. n \in Nat /\ Bijection(1..n, S) # {}
  BY FS_CardinalityType DEF ExistsBijection
<1>2. q \in [1..n -> S] /\ IsInjective(q)
  <2>1. \E f \in [1..n -> S] : IsInjective(f)
    BY <1>1 DEF Bijection, Injection
  <2> QED BY <2>1 DEF SetToSeq
<1>3. IsFiniteSet(1..n) /\ Cardinality(1..n) = n
  BY <1>1, FS_Interval
<1>4. q \in Injection(1..n, S)
  BY <1>2 DEF Injection
<1>5. q \in Surjection(1..n, S)
  BY <1>3, <1>4, FS_Injection
<1> HIDE DEF q, n
<1>6. \A x \in S : \E i \in 1..n : q[i] = x
  BY <1>5 DEF Surjection
<1>7. \A i, j \in 1..n : q[i] = q[j] => i = j
  BY <1>2 DEF IsInjective
<1> QED BY <1>1, <1>2, <1>6, <1>7 DEF q, n

\* The operations of the k-th block that is stored.
Stores(w, s, q, n) ==
  /\ IsSeq(w) /\ DOMAIN w = 1..(3 * n)
  /\ \A k \in 1..n :
       /\ w[3 * k - 2].op = "open" /\ w[3 * k - 2].file = Block(s, q[k])
       /\ w[3 * k - 1].op = "put" /\ w[3 * k - 1].file = Block(s, q[k]) /\ w[3 * k - 1].content = Plain
       /\ w[3 * k].op = "put" /\ w[3 * k].file = Entry(s, q[k]) /\ w[3 * k].content = Plain

\* The places of the three operations of the k-th block.
LEMMA Thirds ==
  ASSUME NEW n \in Nat, NEW k \in 1..n
  PROVE  /\ 3 * k - 2 \in 1..(3 * n) /\ (((3 * k - 2) - 1) \div 3) + 1 = k /\ (((3 * k - 2) - 1) % 3) + 1 = 1
         /\ 3 * k - 1 \in 1..(3 * n) /\ (((3 * k - 1) - 1) \div 3) + 1 = k /\ (((3 * k - 1) - 1) % 3) + 1 = 2
         /\ 3 * k \in 1..(3 * n) /\ ((3 * k - 1) \div 3) + 1 = k /\ ((3 * k - 1) % 3) + 1 = 3
OBVIOUS

\* The operations of the missing blocks: three for each, its entry last.
LEMMA StoredShape ==
  ASSUME NEW s, NEW n \in Nat, NEW q, q = SetToSeq(Missing(s)), q \in [1..n -> Missing(s)]
  PROVE  Stores(StoredBlocks(s), s, q, n)
<1> DEFINE Ops(b) == InPlace(Block(s, b), Plain) \o Replaced(Entry(s, b))
           w == StoredBlocks(s)
           Nth(i) == ((i - 1) \div 3) + 1
           Rem(i) == ((i - 1) % 3) + 1
<1>1. Len(q) = n
  <2>1. q \in Seq(Missing(s)) /\ DOMAIN q = 1..n
    OBVIOUS
  <2> QED BY <2>1
<1>2. w = [i \in 1..(3 * n) |-> Ops(q[Nth(i)])[Rem(i)]]
  BY <1>1 DEF StoredBlocks, InTurn
<1>3. \A b : /\ Ops(b)[1].op = "open" /\ Ops(b)[1].file = Block(s, b)
             /\ Ops(b)[2].op = "put" /\ Ops(b)[2].file = Block(s, b) /\ Ops(b)[2].content = Plain
             /\ Ops(b)[3].op = "put" /\ Ops(b)[3].file = Entry(s, b) /\ Ops(b)[3].content = Plain
  <2> TAKE b
  <2> DEFINE x == InPlace(Block(s, b), Plain)
             y == Replaced(Entry(s, b))
  <2>1. /\ IsSeq(x) /\ DOMAIN x = 1..2 /\ Len(x) = 2
        /\ x[1].op = "open" /\ x[1].file = Block(s, b)
        /\ x[2].op = "put" /\ x[2].file = Block(s, b) /\ x[2].content = Plain
    BY InPlaceShape
  <2>2. /\ IsSeq(y) /\ DOMAIN y = 1..1
        /\ y[1].op = "put" /\ y[1].file = Entry(s, b) /\ y[1].content = Plain
    BY ReplacedShape
  <2>3. Ops(b) = x \o y
    OBVIOUS
  <2> HIDE DEF x, y, Ops
  <2>4. JoinOf(Ops(b), x, y)
    BY <2>1, <2>2, <2>3, Joined
  <2>5. Ops(b)[1] = x[1] /\ Ops(b)[2] = x[2] /\ Ops(b)[3] = y[1]
    <3>1. 1 \in DOMAIN x /\ 2 \in DOMAIN x /\ 1 \in DOMAIN y /\ 1 + Len(x) = 3
      BY <2>1, <2>2
    <3> QED BY <3>1, <2>4 DEF JoinOf
  <2> QED BY <2>1, <2>2, <2>5
<1> HIDE DEF Ops
<1>5. DOMAIN w = 1..(3 * n) /\ \A i \in 1..(3 * n) : w[i] = Ops(q[Nth(i)])[Rem(i)]
  BY <1>2
<1>6. IsSeq(w)
  <2>1. w \in [1..(3 * n) -> {w[i] : i \in 1..(3 * n)}] /\ 3 * n \in Nat
    BY <1>2
  <2> QED BY <2>1, SequenceOf
<1>4. \A k \in 1..n :
        /\ 3 * k - 2 \in 1..(3 * n) /\ Nth(3 * k - 2) = k /\ Rem(3 * k - 2) = 1
        /\ 3 * k - 1 \in 1..(3 * n) /\ Nth(3 * k - 1) = k /\ Rem(3 * k - 1) = 2
        /\ 3 * k \in 1..(3 * n) /\ Nth(3 * k) = k /\ Rem(3 * k) = 3
  <2> TAKE k \in 1..n
  <2> QED BY Thirds, Zenon
<1> HIDE DEF w, Nth, Rem
<1>7. ASSUME NEW k \in 1..n
      PROVE  /\ w[3 * k - 2] = Ops(q[k])[1] /\ w[3 * k - 1] = Ops(q[k])[2] /\ w[3 * k] = Ops(q[k])[3]
  BY <1>4, <1>5
<1>8. \A k \in 1..n :
        /\ w[3 * k - 2].op = "open" /\ w[3 * k - 2].file = Block(s, q[k])
        /\ w[3 * k - 1].op = "put" /\ w[3 * k - 1].file = Block(s, q[k]) /\ w[3 * k - 1].content = Plain
        /\ w[3 * k].op = "put" /\ w[3 * k].file = Entry(s, q[k]) /\ w[3 * k].content = Plain
  <2> TAKE k \in 1..n
  <2>1. w[3 * k - 2] = Ops(q[k])[1] /\ w[3 * k - 1] = Ops(q[k])[2] /\ w[3 * k] = Ops(q[k])[3]
    BY <1>7
  <2> DEFINE b == q[k]
             x == w[3 * k - 2]
             y == w[3 * k - 1]
             z == w[3 * k]
  <2>2. x = Ops(b)[1] /\ y = Ops(b)[2] /\ z = Ops(b)[3]
    BY <2>1
  <2> HIDE DEF b, x, y, z
  <2>3. /\ x.op = "open" /\ x.file = Block(s, b)
        /\ y.op = "put" /\ y.file = Block(s, b) /\ y.content = Plain
        /\ z.op = "put" /\ z.file = Entry(s, b) /\ z.content = Plain
    BY <2>2, <1>3
  <2> QED BY <2>3, Zenon DEF b, x, y, z
<1> QED BY <1>5, <1>6, <1>8 DEF w, Stores

\* What the store lacks, block after block.
StoredSet(s) == {Of(Block(s, b), Plain) : b \in Missing(s)} \cup {Of(Entry(s, b), Plain) : b \in Missing(s)}

\* Every missing block is written, and its entry behind it.
LEMMA StoredFacts ==
  ASSUME NEW s
  PROVE  /\ Writing(StoredBlocks(s), StoredSet(s))
         /\ \A b \in Missing(s) : Follows(StoredBlocks(s), Block(s, b), Entry(s, b))
<1> DEFINE n == Cardinality(Missing(s))
           q == SetToSeq(Missing(s))
           w == StoredBlocks(s)
<1>1. IsFiniteSet(Missing(s))
  <2>1. IsFiniteSet(Blocks) /\ Missing(s) \subseteq Blocks
    BY PipelinesAssumption DEF PipelinesAssumption, Missing
  <2> QED BY <2>1, FS_Subset
<1>2. /\ n \in Nat /\ q \in [1..n -> Missing(s)]
      /\ \A i, j \in 1..n : q[i] = q[j] => i = j
      /\ \A x \in Missing(s) : \E i \in 1..n : q[i] = x
  BY <1>1, ElementsInTurn
<1>0. q = SetToSeq(Missing(s))
  OBVIOUS
<1> HIDE DEF n, q
<1>13. Stores(w, s, q, n)
  BY <1>0, <1>2, StoredShape
<1> HIDE DEF w
<1>3. /\ IsSeq(w) /\ DOMAIN w = 1..(3 * n)
      /\ \A k \in 1..n :
           /\ w[3 * k - 2].op = "open" /\ w[3 * k - 2].file = Block(s, q[k])
           /\ w[3 * k - 1].op = "put" /\ w[3 * k - 1].file = Block(s, q[k]) /\ w[3 * k - 1].content = Plain
           /\ w[3 * k].op = "put" /\ w[3 * k].file = Entry(s, q[k]) /\ w[3 * k].content = Plain
  BY <1>13 DEF Stores
<1>4. ASSUME NEW i \in DOMAIN w
      PROVE  \E k \in 1..n : i = 3 * k - 2 \/ i = 3 * k - 1 \/ i = 3 * k
  <2>1. i \in 1..(3 * n)
    BY <1>3
  <2> DEFINE k == ((i - 1) \div 3) + 1
             r == ((i - 1) % 3) + 1
  <2>2. n \in Nat
    BY <1>2
  <2>3. k \in 1..n /\ r \in 1..3 /\ i = 3 * (k - 1) + r
    BY <2>1, <2>2, ThreeInTurn
  <2> HIDE DEF k, r
  <2>4. i = 3 * k - 2 \/ i = 3 * k - 1 \/ i = 3 * k
    BY <2>3, <1>2
  <2> QED BY <2>3, <2>4
<1>5. \A k \in 1..n : 3 * k - 2 \in DOMAIN w /\ 3 * k - 1 \in DOMAIN w /\ 3 * k \in DOMAIN w
  BY <1>2, <1>3
<1>6. \A k \in 1..n : q[k] \in Missing(s)
  BY <1>2
<1>7. \A b : FileKind(Block(s, b)) = "block" /\ FileKind(Entry(s, b)) = "block_entry"
  BY FileKinds
<1>8. /\ \A b, c : Block(s, b) = Block(s, c) => b = c
      /\ \A b, c : Entry(s, b) = Entry(s, c) => b = c
      /\ \A b, c : Block(s, b) # Entry(s, c)
  <2>1. \A b, c : Block(s, b) = Block(s, c) => b = c
    BY FileOwners
  <2>2. \A b, c : Entry(s, b) = Entry(s, c) => b = c
    BY FileOwners
  <2>3. \A b, c : Block(s, b) # Entry(s, c)
    BY <1>7
  <2> QED BY <2>1, <2>2, <2>3
<1>9. ASSUME NEW i \in DOMAIN w
      PROVE  /\ w[i].op \in {"open", "put"}
             /\ w[i].op = "open" => /\ i + 1 \in DOMAIN w
                                    /\ w[i + 1].op = "put" /\ w[i + 1].file = w[i].file
                                    /\ FileKind(w[i].file) # "block_entry"
             /\ w[i].op = "put" => \E p \in StoredSet(s) : w[i].file = p.file /\ w[i].content = p.content
  <2>1. PICK k \in 1..n : i = 3 * k - 2 \/ i = 3 * k - 1 \/ i = 3 * k
    BY <1>4
  <2>2. q[k] \in Missing(s)
    BY <1>6
  <2>3. /\ Of(Block(s, q[k]), Plain) \in StoredSet(s) /\ Of(Entry(s, q[k]), Plain) \in StoredSet(s)
    BY <2>2 DEF StoredSet
  <2>4. CASE i = 3 * k - 2
    <3>1. i + 1 = 3 * k - 1
      BY <2>4
    <3> QED BY <3>1, <2>4, <1>3, <1>5, <1>7
  <2>5. CASE i = 3 * k - 1
    BY <2>3, <2>5, <1>3, OfFacts
  <2>6. CASE i = 3 * k
    BY <2>3, <2>6, <1>3, OfFacts
  <2> QED BY <2>1, <2>4, <2>5, <2>6
<1>10. ASSUME NEW p \in StoredSet(s) PROVE p.content.whole /\ Comes(w, p.file)
  <2>1. PICK b \in Missing(s) : p = Of(Block(s, b), Plain) \/ p = Of(Entry(s, b), Plain)
    BY DEF StoredSet
  <2>2. PICK k \in 1..n : q[k] = b
    BY <1>2
  <2>3. p.content = Plain /\ (p.file = Block(s, b) \/ p.file = Entry(s, b))
    BY <2>1, OfFacts
  <2>4. Comes(w, Block(s, b)) /\ Comes(w, Entry(s, b))
    BY <2>2, <1>3, <1>5 DEF Comes
  <2> QED BY <2>3, <2>4, EmptyFacts
<1>11. Writing(w, StoredSet(s))
  BY <1>3, <1>9, <1>10 DEF Writing
<1>12. ASSUME NEW b \in Missing(s) PROVE Follows(w, Block(s, b), Entry(s, b))
  <2>1. PICK k \in 1..n : q[k] = b
    BY <1>2
  <2>2. ASSUME NEW i \in DOMAIN w, w[i].file = Entry(s, b) PROVE i = 3 * k
    <3>1. PICK m \in 1..n : i = 3 * m - 2 \/ i = 3 * m - 1 \/ i = 3 * m
      BY <1>4
    <3>2. i = 3 * m /\ w[i].file = Entry(s, q[m])
      BY <3>1, <2>2, <1>3, <1>8
    <3>3. q[m] = q[k]
      BY <3>2, <2>1, <2>2, <1>8
    <3> QED BY <3>2, <3>3, <1>2
  <2>3. ASSUME NEW i \in DOMAIN w, w[i].op = "open", w[i].file = Block(s, b) PROVE i = 3 * k - 2
    <3>1. PICK m \in 1..n : i = 3 * m - 2 \/ i = 3 * m - 1 \/ i = 3 * m
      BY <1>4
    <3>2. i = 3 * m - 2 /\ w[i].file = Block(s, q[m])
      BY <3>1, <2>3, <1>3
    <3>3. q[m] = q[k]
      BY <3>2, <2>1, <2>3, <1>8
    <3> QED BY <3>2, <3>3, <1>2
  <2>4. \A i \in DOMAIN w : w[i].file = Entry(s, b) => WrittenBefore(w, Block(s, b), i)
    <3>1. /\ 3 * k - 1 \in DOMAIN w /\ 3 * k - 1 < 3 * k
          /\ w[3 * k - 1].op = "put" /\ w[3 * k - 1].file = Block(s, b)
      BY <2>1, <1>3, <1>5
    <3> QED BY <3>1, <2>2 DEF WrittenBefore
  <2>5. \A i \in DOMAIN w : w[i].op = "open" /\ w[i].file = Block(s, b) =>
          \A j \in DOMAIN w : j < i => w[j].file # Entry(s, b)
    <3>1. ~(3 * k < 3 * k - 2)
      OBVIOUS
    <3> QED BY <3>1, <2>2, <2>3
  <2> QED BY <2>4, <2>5 DEF Follows
<1> QED BY <1>11, <1>12 DEF w

\* The operations of each stage.
LEMMA WritesOf ==
  ASSUME NEW h
  PROVE  /\ h.name = "configure" => Writes(h) = InPlace(Configuration, Plain)
         /\ h.name = "prepare" =>
              Writes(h) = InPlace(Input(h.split), Plain) \o InPlace(InputManifest(h.split), Plain)
         /\ h.name = "collect" => Writes(h) = CollectWrites(h.split)
         /\ h.name = "cleanup" => Writes(h) = CleanupWrites(h.split)
         /\ h.name = "evaluate" => Writes(h) = EvaluateWrites(h.split)
         /\ h.name = "qa" => Writes(h) = AnswerWrites(h.split)
         /\ h.name = "replay" => Writes(h) = InPlace(Replay, OfCheckpoint)
         /\ h.name = "manifest" => Writes(h) = InPlace(PipelineManifest, Plain)
         /\ h.name = "export" => Writes(h) = ExportWrites
         /\ h.name = "clear" => Writes(h) = <<[op |-> "clear", file |-> <<>>]>>
BY DEF Writes

\* Files that stand in no pair, and none of which is of the training.
OtherKinds ==
  {"resolved_config", "evaluation", "qa", "replay", "hpc_pipeline_manifest", "metrics_json"}

\* What the commands write that are not of inputs, collections or the export.
LEMMA AsideWrites ==
  ASSUME NEW h, h.name \in {"configure", "evaluate", "qa", "replay", "manifest"}, job.kind \in Kinds
  PROVE  \E P : /\ Writing(Writes(h), P)
                /\ \A p \in P : /\ FileKind(p.file) \in OtherKinds
                                /\ FileKind(p.file) = "evaluation" =>
                                     h.name = "evaluate" /\ p.content.of = disk[Best].of /\ job.kind # "evaluation"
<1> DEFINE s == h.split
<1>1. OfCheckpoint.whole /\ OfCheckpoint.of = disk[Best].of /\ Plain.whole
  BY EmptyFacts DEF OfCheckpoint
<1>2. \A stamped, answered : Score(stamped, answered).whole
  BY DEF Score
<1>3. CASE h.name = "configure"
  <2> DEFINE P == {Of(Configuration, Plain)}
  <2>1. FileKind(Configuration) = "resolved_config"
    BY FileKinds
  <2>2. Writing(Writes(h), P)
    BY <2>1, <1>1, <1>3, WritesOf, WritingInPlace
  <2> WITNESS P
  <2> QED BY <2>1, <2>2, OfFacts DEF OtherKinds
<1>4. CASE h.name = "manifest"
  <2> DEFINE P == {Of(PipelineManifest, Plain)}
  <2>1. FileKind(PipelineManifest) = "hpc_pipeline_manifest"
    BY FileKinds
  <2>2. Writing(Writes(h), P)
    BY <2>1, <1>1, <1>4, WritesOf, WritingInPlace
  <2> WITNESS P
  <2> QED BY <2>1, <2>2, OfFacts DEF OtherKinds
<1>5. CASE h.name = "replay"
  <2> DEFINE P == {Of(Replay, OfCheckpoint)}
  <2>1. FileKind(Replay) = "replay"
    BY FileKinds
  <2>2. Writing(Writes(h), P)
    BY <2>1, <1>1, <1>5, WritesOf, WritingInPlace
  <2> WITNESS P
  <2> QED BY <2>1, <2>2, OfFacts DEF OtherKinds
<1>6. CASE h.name = "qa"
  <2> DEFINE c == Score(disk[Combined].stamped, TRUE)
             P == {Of(Answers(s), Plain)} \cup {Of(Combined, c)}
  <2>1. FileKind(Answers(s)) = "qa" /\ FileKind(Combined) = "metrics_json" /\ c.whole
    BY <1>2, FileKinds
  <2>2. Writes(h) = InPlace(Answers(s), Plain) \o InPlace(Combined, c)
    BY <1>6, WritesOf DEF AnswerWrites
  <2> HIDE DEF c
  <2>3. Writing(InPlace(Answers(s), Plain), {Of(Answers(s), Plain)})
    BY <2>1, <1>1, WritingInPlace
  <2>4. Writing(InPlace(Combined, c), {Of(Combined, c)})
    BY <2>1, WritingInPlace
  <2>5. Writing(Writes(h), P)
    BY <2>2, <2>3, <2>4, WritingConcat
  <2> WITNESS P
  <2> QED BY <2>1, <2>5, OfFacts DEF OtherKinds
<1>7. CASE h.name = "evaluate"
  <2>1. CASE job.kind \in {"index", "probability"}
    <3> DEFINE P == {Of(Evaluation(s), OfCheckpoint)}
    <3>1. FileKind(Evaluation(s)) = "evaluation"
      BY FileKinds
    <3>2. Writes(h) = InPlace(Evaluation(s), OfCheckpoint)
      BY <2>1, <1>7, WritesOf DEF EvaluateWrites
    <3>3. Writing(Writes(h), P)
      BY <3>1, <3>2, <1>1, WritingInPlace
    <3> WITNESS P
    <3> QED BY <3>1, <3>3, <2>1, <1>1, <1>7, OfFacts DEF OtherKinds
  <2>2. CASE job.kind = "region"
    <3> DEFINE P == {Of(Answers(s), OfCheckpoint)} \cup {Of(Evaluation(s), OfCheckpoint)}
    <3>1. FileKind(Evaluation(s)) = "evaluation" /\ FileKind(Answers(s)) = "qa"
      BY FileKinds
    <3>2. Writes(h) = InPlace(Answers(s), OfCheckpoint) \o InPlace(Evaluation(s), OfCheckpoint)
      BY <2>2, <1>7, WritesOf DEF EvaluateWrites
    <3>3. /\ Writing(InPlace(Answers(s), OfCheckpoint), {Of(Answers(s), OfCheckpoint)})
          /\ Writing(InPlace(Evaluation(s), OfCheckpoint), {Of(Evaluation(s), OfCheckpoint)})
      BY <3>1, <1>1, WritingInPlace
    <3>4. Writing(Writes(h), P)
      BY <3>2, <3>3, WritingConcat
    <3> WITNESS P
    <3> QED BY <3>1, <3>4, <2>2, <1>1, <1>7, OfFacts DEF OtherKinds
  <2>3. CASE job.kind = "evaluation"
    <3> DEFINE c == Score(FALSE, FALSE)
               e == Score(TRUE, FALSE)
               P == {Of(Combined, c)} \cup {Of(Combined, e)}
    <3>1. FileKind(Combined) = "metrics_json" /\ c.whole /\ e.whole
      BY <1>2, FileKinds
    <3>2. Writes(h) = InPlace(Combined, c) \o InPlace(Combined, e)
      BY <2>3, <1>7, WritesOf DEF EvaluateWrites
    <3> HIDE DEF c, e
    <3>3. Writing(InPlace(Combined, c), {Of(Combined, c)}) /\ Writing(InPlace(Combined, e), {Of(Combined, e)})
      BY <3>1, WritingInPlace
    <3>4. Writing(Writes(h), P)
      BY <3>2, <3>3, WritingConcat
    <3> WITNESS P
    <3> QED BY <3>1, <3>4, OfFacts DEF OtherKinds
  <2> QED BY <2>1, <2>2, <2>3 DEF Kinds
<1> QED BY <1>3, <1>4, <1>5, <1>6, <1>7

\* An input, and behind it its manifest.
LEMMA PrepareWrites ==
  ASSUME NEW s, NEW w, w = InPlace(Input(s), Plain) \o InPlace(InputManifest(s), Plain)
  PROVE  /\ Writing(w, {Of(Input(s), Plain)} \cup {Of(InputManifest(s), Plain)})
         /\ Follows(w, Input(s), InputManifest(s))
<1> DEFINE a == InPlace(Input(s), Plain)
           b == InPlace(InputManifest(s), Plain)
<1>1. FileKind(Input(s)) = "input" /\ FileKind(InputManifest(s)) = "input_manifest"
  BY FileKinds
<1>2. Writing(a, {Of(Input(s), Plain)}) /\ Writing(b, {Of(InputManifest(s), Plain)})
  BY <1>1, EmptyFacts, WritingInPlace
<1>3. w = a \o b
  OBVIOUS
<1> HIDE DEF a, b
<1>4. Writing(w, {Of(Input(s), Plain)} \cup {Of(InputManifest(s), Plain)})
  BY <1>2, <1>3, WritingConcat
<1>5. /\ \A i \in DOMAIN a : a[i].file = Input(s)
      /\ \A i \in DOMAIN b : b[i].file = InputManifest(s)
  BY <1>2, OfFacts, WritingFiles
<1>6. Comes(a, Input(s)) /\ ~Touches(a, InputManifest(s)) /\ ~Touches(b, Input(s))
  <2>1. Comes(a, Input(s))
    BY <1>2, OfFacts DEF Writing
  <2>2. Input(s) # InputManifest(s)
    BY <1>1
  <2> QED BY <2>1, <2>2, <1>5 DEF Touches
<1> QED BY <1>2, <1>3, <1>4, <1>6, FollowsNext DEF Writing

\* What a collection writes behind the blocks it stores.
OfBlocks(Q) == \A q \in Q : FileKind(q.file) \in {"block", "block_entry"}

\* The operations of a collection: blocks B, samples, manifest.
Collects(w, s, B, P) ==
  /\ Writing(w, P)
  /\ Follows(w, Dataset(s), Collection(s))
  /\ \A f, g : /\ Follows(B, f, g)
               /\ FileKind(f) \in {"block", "block_entry"} /\ FileKind(g) \in {"block", "block_entry"}
               => Follows(w, f, g)
  /\ \A f : Comes(B, f) /\ FileKind(f) \in {"block", "block_entry"} => Follows(w, f, Collection(s))

\* The samples and their manifest, behind the blocks.
LEMMA CollectBehind ==
  ASSUME NEW s, NEW B, NEW Q, Writing(B, Q), OfBlocks(Q)
  PROVE  Collects(B \o InPlace(Dataset(s), Plain) \o InPlace(Collection(s), Plain), s, B,
                  (Q \cup {Of(Dataset(s), Plain)}) \cup {Of(Collection(s), Plain)})
<1> DEFINE D == InPlace(Dataset(s), Plain)
           C == InPlace(Collection(s), Plain)
           P == Q \cup {Of(Dataset(s), Plain)}
           a == B \o D
           w == B \o D \o C
<1>1. FileKind(Dataset(s)) = "dataset" /\ FileKind(Collection(s)) = "collection_manifest"
  BY FileKinds
<1>2. Writing(D, {Of(Dataset(s), Plain)}) /\ Writing(C, {Of(Collection(s), Plain)})
  BY <1>1, EmptyFacts, WritingInPlace
<1>3. w = a \o C
  OBVIOUS
<1>4. a = B \o D
  OBVIOUS
<1> HIDE DEF D, C, a, w
<1>5. Writing(a, P)
  BY <1>2, <1>4, WritingConcat
<1>6. Writing(w, P \cup {Of(Collection(s), Plain)})
  BY <1>2, <1>3, <1>5, WritingConcat
<1>7. /\ \A i \in DOMAIN D : D[i].file = Dataset(s)
      /\ \A i \in DOMAIN C : C[i].file = Collection(s)
      /\ \A i \in DOMAIN a : FileKind(a[i].file) \in {"block", "block_entry", "dataset"}
  <2>1. \A p \in P : FileKind(p.file) \in {"block", "block_entry", "dataset"}
    BY <1>1, OfFacts DEF OfBlocks
  <2> QED BY <2>1, <1>2, <1>5, OfFacts, WritingFiles
<1>8. IsSeq(B) /\ IsSeq(D) /\ IsSeq(C) /\ IsSeq(a)
  BY <1>2, <1>5 DEF Writing
<1>9. /\ ~Touches(a, Collection(s)) /\ ~Touches(C, Dataset(s))
      /\ \A f : FileKind(f) \in {"block", "block_entry"} => ~Touches(D, f) /\ ~Touches(C, f)
  BY <1>1, <1>7 DEF Touches
<1>10. Comes(a, Dataset(s))
  <2>1. Comes(D, Dataset(s))
    BY <1>2, OfFacts DEF Writing
  <2> QED BY <2>1, <1>4, <1>8, JoinedComes
<1>11. Follows(w, Dataset(s), Collection(s))
  BY <1>3, <1>8, <1>9, <1>10, FollowsNext
<1>12. ASSUME NEW f, NEW g, Follows(B, f, g), FileKind(f) \in {"block", "block_entry"},
              FileKind(g) \in {"block", "block_entry"}
       PROVE  Follows(w, f, g)
  <2>1. ~Touches(D, f) /\ ~Touches(D, g) /\ ~Touches(C, f) /\ ~Touches(C, g)
    BY <1>9, <1>12
  <2>2. Follows(a, f, g)
    BY <2>1, <1>4, <1>8, <1>12, FollowsFirst
  <2> QED BY <2>1, <2>2, <1>3, <1>8, FollowsFirst
<1>13. ASSUME NEW f, Comes(B, f), FileKind(f) \in {"block", "block_entry"}
       PROVE  Follows(w, f, Collection(s))
  <2>1. Comes(a, f)
    BY <1>4, <1>8, <1>13, JoinedComes
  <2> QED BY <2>1, <1>3, <1>8, <1>9, <1>13, FollowsNext
<1>14. Collects(w, s, B, P \cup {Of(Collection(s), Plain)})
  BY <1>6, <1>11, <1>12, <1>13 DEF Collects
<1> QED BY <1>14 DEF w, D, C

\* A collection: the blocks the store lacks, the samples, and the manifest.
LEMMA CollectFacts ==
  ASSUME NEW s
  PROVE  \E P :
           /\ Writing(CollectWrites(s), P)
           /\ \A p \in P : \/ p.file = Dataset(s) \/ p.file = Collection(s)
                           \/ /\ job.kind = "index"
                              /\ \E b \in Missing(s) : p.file = Block(s, b) \/ p.file = Entry(s, b)
           /\ Follows(CollectWrites(s), Dataset(s), Collection(s))
           /\ Comes(CollectWrites(s), Dataset(s))
           /\ job.kind = "index" => \A b \in Missing(s) :
                /\ Follows(CollectWrites(s), Block(s, b), Entry(s, b))
                /\ Follows(CollectWrites(s), Entry(s, b), Collection(s))
                /\ Comes(CollectWrites(s), Entry(s, b))
<1> DEFINE w == CollectWrites(s)
           B == IF job.kind = "index" THEN StoredBlocks(s) ELSE <<>>
           Q == IF job.kind = "index" THEN StoredSet(s) ELSE {}
           P == (Q \cup {Of(Dataset(s), Plain)}) \cup {Of(Collection(s), Plain)}
<1>1. w = B \o InPlace(Dataset(s), Plain) \o InPlace(Collection(s), Plain)
  BY DEF CollectWrites
<1>2. \A b : FileKind(Block(s, b)) = "block" /\ FileKind(Entry(s, b)) = "block_entry"
  BY FileKinds
<1>3. Writing(B, Q)
  <2>1. CASE job.kind = "index"
    BY <2>1, StoredFacts
  <2>2. CASE job.kind # "index"
    <3>1. B = <<>> /\ Q = {}
      BY <2>2
    <3>2. <<>> \in Seq({}) /\ DOMAIN <<>> = {}
      OBVIOUS
    <3>3. Writing(<<>>, {})
      BY <3>2 DEF Writing, IsSeq
    <3> QED BY <3>1, <3>3
  <2> QED BY <2>1, <2>2
<1>4. \A q \in Q : job.kind = "index" /\ \E b \in Missing(s) : q.file = Block(s, b) \/ q.file = Entry(s, b)
  BY OfFacts DEF StoredSet
<1>5. job.kind = "index" => \A b \in Missing(s) : Comes(B, Entry(s, b)) /\ Follows(B, Block(s, b), Entry(s, b))
  <2> SUFFICES ASSUME job.kind = "index", NEW b \in Missing(s)
               PROVE  Comes(B, Entry(s, b)) /\ Follows(B, Block(s, b), Entry(s, b))
    OBVIOUS
  <2>1. Of(Entry(s, b), Plain) \in StoredSet(s)
    BY DEF StoredSet
  <2>2. Comes(StoredBlocks(s), Entry(s, b)) /\ Follows(StoredBlocks(s), Block(s, b), Entry(s, b))
    BY <2>1, StoredFacts, OfFacts DEF Writing
  <2> QED BY <2>2
<1>6. OfBlocks(Q)
  BY <1>2, <1>4 DEF OfBlocks
<1> HIDE DEF w, B, Q
<1>0. Collects(w, s, B, P)
  BY <1>1, <1>3, <1>6, CollectBehind
<1> HIDE DEF P
<1>7. /\ Writing(w, P) /\ Follows(w, Dataset(s), Collection(s))
      /\ \A f, g : /\ Follows(B, f, g)
                   /\ FileKind(f) \in {"block", "block_entry"} /\ FileKind(g) \in {"block", "block_entry"}
                   => Follows(w, f, g)
      /\ \A f : Comes(B, f) /\ FileKind(f) \in {"block", "block_entry"} => Follows(w, f, Collection(s))
  BY <1>0 DEF Collects
<1>8. \A p \in P : \/ p.file = Dataset(s) \/ p.file = Collection(s)
                   \/ /\ job.kind = "index"
                      /\ \E b \in Missing(s) : p.file = Block(s, b) \/ p.file = Entry(s, b)
  BY <1>4, OfFacts DEF P
<1>9. Comes(w, Dataset(s)) /\ \A q \in Q : Comes(w, q.file)
  <2>1. Of(Dataset(s), Plain) \in P /\ Q \subseteq P
    BY DEF P
  <2> QED BY <2>1, <1>7, OfFacts DEF Writing
<1>10. ASSUME job.kind = "index", NEW b \in Missing(s)
       PROVE  /\ Follows(w, Block(s, b), Entry(s, b)) /\ Follows(w, Entry(s, b), Collection(s))
              /\ Comes(w, Entry(s, b))
  <2>1. Of(Entry(s, b), Plain) \in Q
    BY <1>10 DEF Q, StoredSet
  <2>2. Comes(w, Entry(s, b))
    BY <2>1, <1>9, OfFacts
  <2> QED BY <2>2, <1>2, <1>5, <1>7, <1>10
<1>11. /\ Writing(w, P)
       /\ \A p \in P : \/ p.file = Dataset(s) \/ p.file = Collection(s)
                       \/ /\ job.kind = "index"
                          /\ \E b \in Missing(s) : p.file = Block(s, b) \/ p.file = Entry(s, b)
       /\ Follows(w, Dataset(s), Collection(s)) /\ Comes(w, Dataset(s))
       /\ job.kind = "index" => \A b \in Missing(s) :
            /\ Follows(w, Block(s, b), Entry(s, b)) /\ Follows(w, Entry(s, b), Collection(s))
            /\ Comes(w, Entry(s, b))
  BY <1>7, <1>8, <1>9, <1>10
<1> QED BY <1>11 DEF w

\* What the trainer closes with.
LEMMA ClosesFacts ==
  LET run == [whole |-> TRUE, of |-> LaunchNumber]
  IN Writing(TrainerCloses, {Of(Final, Plain)} \cup {Of(Summary, run)})
<1> DEFINE run == [whole |-> TRUE, of |-> LaunchNumber]
<1>1. FileKind(Final) = "final_pt" /\ FileKind(Summary) = "summary_json" /\ run.whole
  BY FileKinds
<1>2. TrainerCloses = InPlace(Final, Plain) \o InPlace(Summary, run)
  BY DEF TrainerCloses
<1> HIDE DEF run
<1>3. Writing(InPlace(Final, Plain), {Of(Final, Plain)}) /\ Writing(InPlace(Summary, run), {Of(Summary, run)})
  BY <1>1, EmptyFacts, WritingInPlace
<1>4. Writing(TrainerCloses, {Of(Final, Plain)} \cup {Of(Summary, run)})
  BY <1>2, <1>3, WritingConcat
<1> QED BY <1>4 DEF run

\* A cleanup removes the input and its manifest, where they are.
LEMMA CleanupFacts ==
  ASSUME NEW s
  PROVE  /\ IsSeq(CleanupWrites(s))
         /\ \A i \in DOMAIN CleanupWrites(s) :
              /\ CleanupWrites(s)[i].op = "unlink"
              /\ CleanupWrites(s)[i].file \in {Input(s), InputManifest(s)}
<1> DEFINE One(f) == [op |-> "unlink", file |-> f]
           Shape(w) == /\ IsSeq(w)
                       /\ \A i \in DOMAIN w : w[i].op = "unlink" /\ w[i].file \in {Input(s), InputManifest(s)}
<1>1. \A f \in {Input(s), InputManifest(s)} : Shape(Unlinked(f))
  <2> TAKE f \in {Input(s), InputManifest(s)}
  <2>1. CASE Exists(f)
    <3> DEFINE w == <<[op |-> "unlink", file |-> f]>>
    <3>1. DOMAIN w = 1..1 /\ w \in [1..1 -> {w[1]}] /\ w[1].op = "unlink" /\ w[1].file = f
      OBVIOUS
    <3>2. Unlinked(f) = w
      BY <2>1 DEF Unlinked
    <3> HIDE DEF w
    <3>3. IsSeq(w)
      BY <3>1, SequenceOf
    <3> QED BY <3>1, <3>2, <3>3
  <2>2. CASE ~Exists(f)
    <3>1. Unlinked(f) = <<>> /\ <<>> \in Seq({}) /\ DOMAIN <<>> = {}
      BY <2>2 DEF Unlinked
    <3> QED BY <3>1 DEF IsSeq
  <2> QED BY <2>1, <2>2
<1> DEFINE a == Unlinked(Input(s))
           b == Unlinked(InputManifest(s))
<1>2. CleanupWrites(s) = a \o b /\ Shape(a) /\ Shape(b)
  BY <1>1 DEF CleanupWrites
<1> HIDE DEF a, b
<1>3. JoinOf(a \o b, a, b)
  BY <1>2, Joined
<1> DEFINE w == CleanupWrites(s)
<1>4. JoinOf(w, a, b)
  BY <1>2, <1>3
<1> HIDE DEF w
<1>5. Shape(w)
  BY <1>2, <1>4 DEF JoinOf
<1> QED BY <1>5 DEF w

\* The artifacts a temporary workspace exports.
LEMMA ExportedFacts ==
  ASSUME job.kind \in Kinds
  PROVE  /\ IsSeq(Exported)
         /\ job.kind # "evaluation" => {Best, Metrics, Summary} \subseteq ToSet(Exported)
<1> DEFINE n == Len(EvaluationSplits)
           x == <<Best, Metrics, Summary>>
           y == <<Best, Final, Metrics, Summary>>
<1>1. n \in Nat /\ DOMAIN EvaluationSplits = 1..n
  <2>1. EvaluationSplits \in Seq(ToSet(Splits))
    BY PipelinesAssumption, SplitFacts DEF PipelinesAssumption, EvaluationSplits
  <2> QED BY <2>1
<1>2. IsSeq(x) /\ ToSet(x) = {Best, Metrics, Summary}
  <2>1. x \in Seq({Best, Metrics, Summary}) /\ DOMAIN x = 1..3 /\ x[1] = Best /\ x[2] = Metrics /\ x[3] = Summary
    OBVIOUS
  <2> HIDE DEF x
  <2>2. \A i \in DOMAIN x : i = 1 \/ i = 2 \/ i = 3
    BY <2>1
  <2> QED BY <2>1, <2>2 DEF IsSeq, ToSet
<1>3. IsSeq(y) /\ {Best, Metrics, Summary} \subseteq ToSet(y)
  <2>1. /\ y \in Seq({Best, Final, Metrics, Summary}) /\ DOMAIN y = 1..4
        /\ y[1] = Best /\ y[3] = Metrics /\ y[4] = Summary
    OBVIOUS
  <2> HIDE DEF y
  <2> QED BY <2>1 DEF IsSeq, ToSet
<1>4. CASE job.kind = "index"
  <2>1. Exported = x
    BY <1>4 DEF Exported
  <2> QED BY <2>1, <1>2
<1>5. CASE job.kind = "probability"
  <2> DEFINE z == [i \in DOMAIN EvaluationSplits |-> Evaluation(EvaluationSplits[i])]
  <2>1. Exported = x \o z
    BY <1>5 DEF Exported
  <2>2. IsSeq(z)
    <3>1. z \in [1..n -> {z[i] : i \in 1..n}]
      BY <1>1
    <3> QED BY <3>1, <1>1, SequenceOf
  <2> HIDE DEF x, z
  <2>3. IsSeq(x \o z) /\ ToSet(x \o z) = ToSet(x) \cup ToSet(z)
    BY <1>2, <2>2, ConcatFacts
  <2> QED BY <2>1, <2>3, <1>2
<1>6. CASE job.kind = "region"
  <2> DEFINE z == InTurn(2, Assessment, EvaluationSplits)
  <2>1. Exported = y \o z
    BY <1>6 DEF Exported
  <2>2. IsSeq(z)
    <3>1. z = [i \in 1..(2 * n) |-> Assessment(EvaluationSplits[((i - 1) \div 2) + 1])[((i - 1) % 2) + 1]]
      BY DEF InTurn
    <3>2. z \in [1..(2 * n) -> {z[i] : i \in 1..(2 * n)}] /\ 2 * n \in Nat
      BY <1>1, <3>1
    <3> QED BY <3>2, SequenceOf
  <2> HIDE DEF y, z
  <2>3. IsSeq(y \o z) /\ ToSet(y \o z) = ToSet(y) \cup ToSet(z)
    BY <1>3, <2>2, ConcatFacts
  <2> QED BY <2>1, <2>3, <1>3
<1>7. CASE job.kind = "evaluation"
  <2>1. Exported = <<Combined>> /\ <<Combined>> \in Seq({Combined})
    BY <1>7 DEF Exported
  <2> QED BY <2>1, <1>7 DEF IsSeq
<1> QED BY <1>4, <1>5, <1>6, <1>7 DEF Kinds

\* An export copies each artifact beside its target, and renames it.
LEMMA ExportFacts ==
  ASSUME job.kind \in Kinds
  PROVE  /\ IsSeq(ExportWrites)
         /\ \A i \in DOMAIN ExportWrites : /\ ExportWrites[i].op \in {"copy", "rename"}
                                           /\ ExportWrites[i].file \in ToSet(Exported)
         /\ \A f \in ToSet(Exported) :
              \E i \in DOMAIN ExportWrites : ExportWrites[i].op = "rename" /\ ExportWrites[i].file = f
<1> DEFINE q == Exported
           n == Len(q)
           w == ExportWrites
           Nth(i) == ((i - 1) \div 2) + 1
           Rem(i) == ((i - 1) % 2) + 1
<1>1. n \in Nat /\ DOMAIN q = 1..n
  <2>1. PICK S : q \in Seq(S)
    BY ExportedFacts DEF IsSeq
  <2> QED BY <2>1
<1>2. w = [i \in 1..(2 * n) |-> Transfer(q[Nth(i)])[Rem(i)]]
  BY DEF ExportWrites, InTurn
<1>3. \A f : /\ Transfer(f)[1].op = "copy" /\ Transfer(f)[1].file = f
             /\ Transfer(f)[2].op = "rename" /\ Transfer(f)[2].file = f
  BY DEF Transfer
<1> HIDE DEF q, n, w
<1>4. IsSeq(w) /\ DOMAIN w = 1..(2 * n)
  <2>1. w \in [1..(2 * n) -> {w[i] : i \in 1..(2 * n)}] /\ 2 * n \in Nat
    BY <1>1, <1>2
  <2> QED BY <2>1, SequenceOf
<1>5. \A i \in 1..(2 * n) : w[i] = Transfer(q[Nth(i)])[Rem(i)]
  BY <1>2
<1>6. \A i \in 1..(2 * n) : Nth(i) \in 1..n /\ Rem(i) \in 1..2
  BY <1>1
<1>7. \A k \in 1..n : 2 * k \in 1..(2 * n) /\ Nth(2 * k) = k /\ Rem(2 * k) = 2
  BY <1>1
<1> HIDE DEF Nth, Rem
<1>8. \A i \in DOMAIN w : w[i].op \in {"copy", "rename"} /\ w[i].file \in ToSet(q)
  <2> TAKE i \in DOMAIN w
  <2>1. Nth(i) \in DOMAIN q /\ (Rem(i) = 1 \/ Rem(i) = 2) /\ w[i] = Transfer(q[Nth(i)])[Rem(i)]
    BY <1>1, <1>4, <1>5, <1>6
  <2>2. q[Nth(i)] \in ToSet(q)
    BY <2>1 DEF ToSet
  <2> QED BY <2>1, <2>2, <1>3
<1>9. \A f \in ToSet(q) : \E i \in DOMAIN w : w[i].op = "rename" /\ w[i].file = f
  <2> TAKE f \in ToSet(q)
  <2>1. PICK k \in 1..n : q[k] = f
    BY <1>1 DEF ToSet
  <2>2. 2 * k \in DOMAIN w /\ w[2 * k] = Transfer(f)[2]
    BY <2>1, <1>4, <1>5, <1>7
  <2> QED BY <2>2, <1>3
<1> QED BY <1>4, <1>8, <1>9 DEF w, q

------------------------------------------------------------------------------
(* The stages and the operations a launch has left.                         *)

\* No operation, and no stage.
LEMMA NothingFacts == IsSeq(<<>>) /\ DOMAIN <<>> = {}
<1>1. <<>> \in Seq({}) /\ DOMAIN <<>> = {}
  OBVIOUS
<1> QED BY <1>1 DEF IsSeq

\* A trainer that is at work is there.
LEMMA FitFacts == \A x : x.at \in {"epoch", "save", "close"} => x # NoFit
BY DEF NoFit

\* A launch that goes on with the stages it has.
LEMMA TodoSame ==
  ASSUME TodoInv, UNCHANGED <<job, phase, todo>>,
         phase # "running" => write' = <<>> /\ fit' = NoFit,
         fit' # NoFit => /\ phase = "running" /\ todo # <<>> /\ Head(todo) = Stage("train", "all")
                         /\ write' = <<>>
  PROVE  TodoInv'
<1>1. Stages' = Stages /\ \A x : Rank(x)' = Rank(x)
  BY Kept
<1>2. Ascends(todo)' <=> Ascends(todo)
  BY <1>1 DEF Ascends
<1> QED BY <1>1, <1>2 DEF TodoInv

\* A launch that ends, and one that begins.
LEMMA TodoEnds ==
  ASSUME TodoInv, UNCHANGED job, todo' = <<>>, write' = <<>>, fit' = NoFit
  PROVE  TodoInv'
BY NothingFacts DEF TodoInv

\* A launch begins with all stages, and is past none.
LEMMA TodoBegins ==
  ASSUME TodoInv, UNCHANGED job, phase' = "running", todo' = Stages, write' = <<>>, fit' = NoFit
  PROVE  TodoInv' /\ \A x : ~Passed(x)'
<1>1. /\ IsSeq(Stages) /\ Ascends(Stages) /\ \A x \in ToSet(Stages) : Rank(x) \in Nat
  BY JobFacts, StagesOf DEF Ordered
<1>2. Stages' = Stages /\ \A x : Rank(x)' = Rank(x)
  BY Kept
<1> DEFINE q == Stages
<1>3. q # <<>> => 1 \in DOMAIN q /\ Head(q) = q[1] /\ \A i \in DOMAIN q : i \in Nat /\ i >= 1
  BY <1>1, TailFacts
<1>4. IsSeq(q) /\ todo' = q /\ Stages' = q /\ ToSet(Stages)' = ToSet(q)
  BY <1>1, <1>2 DEF ToSet
<1>5. Ascends(q) /\ \A x \in ToSet(q) : Rank(x) \in Nat
  BY <1>1
<1> HIDE DEF q
<1>6. ASSUME q # <<>> PROVE Head(q) \in ToSet(q) /\ \A x \in ToSet(q) : Rank(x) >= Rank(Head(q))
  <2>1. Head(q) \in ToSet(q) /\ Head(q) = q[1] /\ 1 \in DOMAIN q
    BY <1>3, <1>6 DEF ToSet
  <2>2. ASSUME NEW x \in ToSet(q) PROVE Rank(x) >= Rank(Head(q))
    <3>1. PICK i \in DOMAIN q : x = q[i]
      BY DEF ToSet
    <3>2. Rank(x) \in Nat /\ Rank(Head(q)) \in Nat
      BY <2>1, <1>5
    <3>3. CASE i = 1
      BY <3>1, <3>2, <3>3, <2>1
    <3>4. CASE i # 1
      <4>1. 1 < i
        BY <3>1, <3>4, <1>3, <1>6
      <4>2. Rank(q[1]) < Rank(q[i])
        BY <4>1, <3>1, <2>1, <1>5 DEF Ascends
      <4> QED BY <4>2, <3>1, <3>2, <2>1
    <3> QED BY <3>3, <3>4
  <2> QED BY <2>1, <2>2
<1>7. Ascends(todo)'
  BY <1>2, <1>4, <1>5 DEF Ascends
<1>8. ASSUME todo' # <<>>
      PROVE  (/\ Head(todo) \in ToSet(Stages)
              /\ \A x : x \in ToSet(todo) <=> x \in ToSet(Stages) /\ Rank(x) >= Rank(Head(todo)))'
  <2>1. q # <<>> /\ Head(todo') = Head(q) /\ ToSet(todo') = ToSet(q)
    BY <1>4, <1>8
  <2>2. Rank(Head(todo))' = Rank(Head(q))
    BY <1>2, <2>1
  <2>3. Head(q) \in ToSet(q) /\ \A x : x \in ToSet(q) <=> x \in ToSet(q) /\ Rank(x) >= Rank(Head(q))
    BY <1>6, <2>1
  <2> QED BY <1>2, <1>4, <2>1, <2>2, <2>3
<1>9. TodoInv'
  <2>1. IsSeq(todo)' /\ job' \in Jobs
    BY <1>4 DEF TodoInv
  <2> QED BY <2>1, <1>7, <1>8 DEF TodoInv
<1>10. \A x : ~Passed(x)'
  BY <1>4 DEF Passed
<1> QED BY <1>9, <1>10

\* The head of the stages, by its name.
LEMMA HeadFacts ==
  ASSUME TodoInv, phase = "running", todo # <<>>
  PROVE  /\ job.kind \in Kinds /\ StageForms(Head(todo))
         /\ Head(todo).name \in {"configure", "train", "manifest", "export", "clear"} =>
              Head(todo) = Stage(Head(todo).name, "all")
         /\ Head(todo).name \in {"prepare", "collect", "cleanup", "evaluate", "qa", "replay"} =>
              Head(todo) = Stage(Head(todo).name, Head(todo).split) /\ Head(todo).split \in SplitSet
         /\ Head(todo).name \in {"configure", "train", "manifest", "export", "clear",
                                 "prepare", "collect", "cleanup", "evaluate", "qa", "replay"}
<1>1. job.kind \in Kinds
  BY JobFacts
<1>2. StageForms(Head(todo))
  BY <1>1, OrderFacts
<1> QED BY <1>1, <1>2 DEF StageForms

\* The clearing of the workspace is the last stage.
LEMMA ClearIsLast ==
  ASSUME TodoInv, phase = "running", todo # <<>>
  PROVE  /\ Head(todo) = Stage("clear", "all") => Tail(todo) = <<>>
         /\ Tail(todo) = <<>> => Head(todo) = Stage("clear", "all")
<1> DEFINE n == Len(Splits)
           c == Stage("clear", "all")
<1>1. /\ IsSeq(todo) /\ Ascends(todo) /\ Head(todo) \in ToSet(Stages)
      /\ \A x : x \in ToSet(todo) <=> x \in ToSet(Stages) /\ Rank(x) >= Rank(Head(todo))
  BY DEF TodoInv
<1>2. n \in Nat /\ Rank(c) = 5 * n + 5 /\ \A x \in ToSet(Stages) : Rank(x) \in Nat /\ Rank(x) <= 5 * n + 5
  BY JobFacts, StagesOf, SplitFacts, RankFacts DEF Ordered
<1>3. c \in ToSet(todo)
  BY JobFacts, OrderFacts
<1>4. /\ IsSeq(Tail(todo)) /\ 1 \in DOMAIN todo /\ Head(todo) = todo[1]
      /\ \A i \in DOMAIN Tail(todo) : i \in Nat /\ i >= 1 /\ i + 1 \in DOMAIN todo /\ Tail(todo)[i] = todo[i + 1]
      /\ \A i \in DOMAIN todo : i \in Nat /\ i >= 1
      /\ \A i \in DOMAIN todo : i # 1 => i - 1 \in DOMAIN Tail(todo) /\ Tail(todo)[i - 1] = todo[i]
  BY <1>1, TailFacts
<1> HIDE DEF c, n
<1>5. ASSUME Head(todo) = c, Tail(todo) # <<>> PROVE FALSE
  <2>1. 1 \in DOMAIN Tail(todo)
    BY <1>4, <1>5, TailFacts
  <2>2. 2 \in DOMAIN todo
    BY <2>1, <1>4
  <2>3. Rank(todo[1]) < Rank(todo[2]) /\ todo[2] \in ToSet(todo)
    BY <2>2, <1>1, <1>4 DEF Ascends, ToSet
  <2> QED BY <2>3, <1>1, <1>2, <1>4, <1>5
<1>6. ASSUME Tail(todo) = <<>> PROVE Head(todo) = c
  <2>1. PICK i \in DOMAIN todo : c = todo[i]
    BY <1>3 DEF ToSet
  <2>2. DOMAIN Tail(todo) = {}
    BY <1>6, NothingFacts
  <2> QED BY <2>1, <2>2, <1>4
<1> QED BY <1>5, <1>6 DEF c

\* No operation is left, or one less.
LEMMA WriteEnds ==
  ASSUME write' = <<>>
  PROVE  WriteInv'
BY NothingFacts DEF WriteInv

\* One operation less is left.
LEMMA WriteGoesOn ==
  ASSUME WriteInv, write # <<>>, write' = Tail(write), UNCHANGED <<job, todo>>
  PROVE  WriteInv'
<1> DEFINE v == Tail(write)
<1>1. /\ IsSeq(v)
      /\ \A i \in DOMAIN v : i \in Nat /\ i >= 1 /\ i + 1 \in DOMAIN write /\ v[i] = write[i + 1]
      /\ \A i \in DOMAIN write : i \in Nat /\ i >= 1
      /\ \A i \in DOMAIN write : i # 1 => i - 1 \in DOMAIN v /\ v[i - 1] = write[i]
  BY TailFacts DEF WriteInv
<1>2. Exported' = Exported
  BY Kept
<1> HIDE DEF v
<1>3. ASSUME NEW i \in DOMAIN v
      PROVE  /\ v[i] = write[i + 1] /\ i + 1 \in DOMAIN write /\ i \in Nat /\ i >= 1
             /\ (i + 1) + 1 \in DOMAIN write => i + 1 \in DOMAIN v /\ v[i + 1] = write[(i + 1) + 1]
  <2>1. v[i] = write[i + 1] /\ i + 1 \in DOMAIN write /\ i \in Nat /\ i >= 1
    BY <1>1
  <2>2. ASSUME (i + 1) + 1 \in DOMAIN write PROVE i + 1 \in DOMAIN v /\ v[i + 1] = write[(i + 1) + 1]
    <3>1. (i + 1) + 1 # 1 /\ ((i + 1) + 1) - 1 = i + 1
      BY <2>1
    <3> QED BY <3>1, <2>2, <1>1
  <2> QED BY <2>1, <2>2
<1>4. ASSUME NEW i \in DOMAIN v
      PROVE  OperationOk(v, i, todo, job.tmp, ToSet(Exported))
  <2> DEFINE k == i + 1
             ex == ToSet(Exported)
  <2>1. /\ v[i] = write[k] /\ k \in DOMAIN write /\ k # 1
        /\ k + 1 \in DOMAIN write => i + 1 \in DOMAIN v /\ v[i + 1] = write[k + 1]
    BY <1>3
  <2>2. \A j \in DOMAIN v : j + 1 \in DOMAIN write /\ v[j] = write[j + 1]
    BY <1>3
  <2>0. OperationOk(write, k, todo, job.tmp, ex)
    BY <2>1 DEF WriteInv
  <2> HIDE DEF k, ex
  <2>3. v[i].op # "clear"
    BY <2>0, <2>1 DEF OperationOk
  <2>4. v[i].op = "unlink" => \A j \in DOMAIN v : v[j].op = "unlink"
    BY <2>0, <2>1, <2>2 DEF OperationOk
  <2>5. v[i].op = "open" => /\ i + 1 \in DOMAIN v
                            /\ v[i + 1].op = "put" /\ v[i + 1].file = v[i].file
                            /\ FileKind(v[i].file) # "block_entry"
    BY <2>0, <2>1 DEF OperationOk
  <2>6. OperationOk(v, i, todo, job.tmp, ex)
    BY <2>0, <2>1, <2>3, <2>4, <2>5 DEF OperationOk
  <2> QED BY <2>6 DEF ex
<1>5. /\ write' = v /\ todo' = todo /\ job' = job
  BY DEF v
<1>6. IsSeq(write)' /\ (\A i \in DOMAIN write : OperationOk(write, i, todo, job.tmp, ToSet(Exported)))'
  BY <1>1, <1>2, <1>4, <1>5
<1> QED BY <1>6 DEF WriteInv

\* A command that writes files of its own.
LEMMA WriteBegins ==
  ASSUME NEW P, Writing(write', P), \A p \in P : p.file \notin {Best, Metrics},
         Stage("export", "all") \in ToSet(todo')
  PROVE  WriteInv'
<1> DEFINE w == write'
<1>1. IsSeq(w) /\ \A i \in DOMAIN w : \E p \in P : w[i].file = p.file
  BY WritingFiles DEF Writing
<1>2. \A i \in DOMAIN w :
        /\ w[i].op \in {"open", "put"}
        /\ w[i].op = "open" => /\ i + 1 \in DOMAIN w
                               /\ w[i + 1].op = "put" /\ w[i + 1].file = w[i].file
                               /\ FileKind(w[i].file) # "block_entry"
        /\ w[i].op = "put" => w[i].content.whole
  BY DEF Writing
<1> HIDE DEF w
<1>3. \A i \in DOMAIN w : w[i].file \notin {Best, Metrics}
  BY <1>1
<1>4. write' = w
  BY DEF w
<1>5. \A i \in DOMAIN w : OperationOk(w, i, todo', job.tmp', ToSet(Exported)')
  BY <1>2, <1>3 DEF OperationOk
<1> QED BY <1>1, <1>4, <1>5 DEF WriteInv

\* The operations of a command that begins.
LEMMA BeginWrites ==
  ASSUME TodoInv, Begin
  PROVE  TodoInv' /\ WriteInv'
<1> DEFINE h == Head(todo)
           s == Head(todo).split
<1>1. /\ phase = "running" /\ todo # <<>> /\ todo' = Tail(todo) /\ write' = Writes(h) /\ fit = NoFit
      /\ UNCHANGED <<job, phase, fit>> /\ h.name # "train" /\ Inspect(h) = "run"
  BY DEF Begin, AtStage
<1>2. TodoInv' /\ ToSet(todo') = ToSet(todo) \ {h}
  BY <1>1, TodoNext
<1>3. /\ job.kind \in Kinds
      /\ h.name \in {"configure", "manifest", "export", "clear"} => h = Stage(h.name, "all")
      /\ h.name \in {"prepare", "collect", "cleanup", "evaluate", "qa", "replay"} =>
           h = Stage(h.name, s) /\ s \in SplitSet
      /\ h.name \in {"configure", "manifest", "export", "clear",
                     "prepare", "collect", "cleanup", "evaluate", "qa", "replay"}
  BY <1>1, HeadFacts
<1>4. h.name \notin {"export", "clear"} => Stage("export", "all") \in ToSet(todo')
  BY <1>1, <1>2, <1>3, OrderFacts, StageFacts
<1>5. Exported' = Exported /\ job' = job
  BY <1>1, Kept
<1>0. SUFFICES WriteInv'
  BY <1>2
<1> HIDE DEF h, s
<1>6. ASSUME NEW P, Writing(write', P), \A p \in P : FileKind(p.file) \notin {"best_pt", "metrics_jsonl"},
             h.name \notin {"export", "clear"}
      PROVE  WriteInv'
  <2>1. \A p \in P : p.file \notin {Best, Metrics}
    BY <1>6, FileKinds
  <2> QED BY <2>1, <1>4, <1>6, WriteBegins
<1>7. CASE h.name \in {"configure", "evaluate", "qa", "replay", "manifest"}
  <2>1. PICK P : Writing(Writes(h), P) /\ \A p \in P : FileKind(p.file) \in OtherKinds
    BY <1>3, <1>7, AsideWrites
  <2> QED BY <2>1, <1>1, <1>6, <1>7 DEF OtherKinds
<1>8. CASE h.name = "prepare"
  <2> DEFINE P == {Of(Input(s), Plain)} \cup {Of(InputManifest(s), Plain)}
  <2>1. Writes(h) = InPlace(Input(s), Plain) \o InPlace(InputManifest(s), Plain)
    BY <1>8, WritesOf DEF s, h
  <2>2. Writing(Writes(h), P)
    BY <2>1, PrepareWrites
  <2>3. \A p \in P : FileKind(p.file) \in {"input", "input_manifest"}
    BY OfFacts, FileKinds
  <2> HIDE DEF P
  <2> QED BY <2>2, <2>3, <1>1, <1>6, <1>8
<1>9. CASE h.name = "collect"
  <2>1. Writes(h) = CollectWrites(s)
    BY <1>9, WritesOf DEF s, h
  <2>2. PICK P :
            /\ Writing(CollectWrites(s), P)
            /\ \A p \in P : \/ p.file = Dataset(s) \/ p.file = Collection(s)
                            \/ /\ job.kind = "index"
                               /\ \E b \in Missing(s) : p.file = Block(s, b) \/ p.file = Entry(s, b)
    BY CollectFacts
  <2>3. \A p \in P : FileKind(p.file) \in {"dataset", "collection_manifest", "block", "block_entry"}
    BY <2>2, FileKinds
  <2> QED BY <2>1, <2>2, <2>3, <1>1, <1>6, <1>9
<1>10. CASE h.name = "cleanup"
  <2> DEFINE w == CleanupWrites(s)
  <2>1. write' = w
    BY <1>1, <1>10, WritesOf DEF s, h
  <2>2. IsSeq(w) /\ \A i \in DOMAIN w : w[i].op = "unlink" /\ w[i].file \in {Input(s), InputManifest(s)}
    BY CleanupFacts
  <2>3. Stage("cleanup", s) \notin ToSet(todo') /\ s \in SplitSet
    BY <1>2, <1>3, <1>10
  <2> HIDE DEF w
  <2>4. \A i \in DOMAIN w : OperationOk(w, i, todo', job.tmp, ToSet(Exported))
    BY <2>2, <2>3, <1>4, <1>10 DEF OperationOk
  <2> QED BY <2>1, <2>2, <2>4, <1>5 DEF WriteInv
<1>11. CASE h.name = "export"
  <2> DEFINE w == ExportWrites
  <2>1. write' = w
    BY <1>1, <1>11, WritesOf
  <2>2. IsSeq(w) /\ \A i \in DOMAIN w : w[i].op \in {"copy", "rename"} /\ w[i].file \in ToSet(Exported)
    BY <1>3, ExportFacts
  <2>3. todo' # <<>>
    <3>1. Stage("clear", "all") \in ToSet(todo) /\ h # Stage("clear", "all")
      BY <1>1, <1>3, <1>11, OrderFacts, StageFacts
    <3>2. Stage("clear", "all") \in ToSet(todo')
      BY <3>1, <1>2 DEF h
    <3> QED BY <3>2, NothingFacts DEF ToSet
  <2> HIDE DEF w
  <2>4. \A i \in DOMAIN w : OperationOk(w, i, todo', job.tmp, ToSet(Exported))
    BY <2>2, <2>3 DEF OperationOk
  <2> QED BY <2>1, <2>2, <2>4, <1>5 DEF WriteInv
<1>12. CASE h.name = "clear"
  <2> DEFINE c == [op |-> "clear", file |-> <<>>]
             w == <<c>>
  <2>1. write' = w
    BY <1>1, <1>12, WritesOf
  <2>2. IsSeq(w) /\ DOMAIN w = 1..1 /\ w[1] = c
    <3> HIDE DEF c
    <3>1. w \in Seq({c}) /\ DOMAIN w = 1..1 /\ w[1] = c
      OBVIOUS
    <3> QED BY <3>1 DEF IsSeq
  <2>3. c.op = "clear"
    OBVIOUS
  <2>4. Tail(todo) = <<>>
    BY <1>1, <1>3, <1>12, ClearIsLast DEF h
  <2>5. job.tmp
    BY <1>1, <1>12 DEF Inspect
  <2> HIDE DEF w, c
  <2>6. \A i \in DOMAIN w : OperationOk(w, i, todo', job.tmp, ToSet(Exported))
    BY <2>2, <2>3, <2>4, <2>5, <1>1 DEF OperationOk
  <2> QED BY <2>1, <2>2, <2>6, <1>5 DEF WriteInv
<1> QED BY <1>3, <1>1, <1>7, <1>8, <1>9, <1>10, <1>11, <1>12

\* The stages and the operations a launch has left.
RunInv == TodoInv /\ WriteInv

\* What a launch has left follows its stages, and the operations its commands.
LEMMA RunStep ==
  ASSUME RunInv, [Next]_vars
  PROVE  RunInv'
<1> USE DEF RunInv
<1>1. CASE Launch
  <2>1. /\ phase = "idle" /\ UNCHANGED <<job, write, fit>>
        /\ todo' = <<>> \/ (phase' = "running" /\ todo' = Stages)
    BY <1>1 DEF Launch, Launched
  <2>2. write' = <<>> /\ fit' = NoFit
    BY <2>1 DEF TodoInv
  <2> QED BY <2>1, <2>2, TodoBegins, TodoEnds, WriteEnds
<1>2. CASE Skip
  <2>1. /\ phase = "running" /\ todo # <<>> /\ UNCHANGED <<job, phase, write>> /\ todo' = Tail(todo)
        /\ fit' = NoFit /\ write' = <<>>
    BY <1>2 DEF Skip, AtStage
  <2> QED BY <2>1, TodoNext, WriteEnds
<1>3. CASE Raise
  <2>1. todo' = <<>> /\ write' = <<>> /\ fit' = NoFit /\ UNCHANGED job
    BY <1>3 DEF Raise, AtStage
  <2> QED BY <2>1, TodoEnds, WriteEnds
<1>4. CASE Begin
  BY <1>4, BeginWrites
<1>5. CASE BeginTraining
  <2>1. /\ phase = "running" /\ todo # <<>> /\ UNCHANGED <<job, phase, todo>> /\ write' = <<>>
        /\ Head(todo).name = "train"
    BY <1>5 DEF BeginTraining, AtStage
  <2>2. Head(todo) = Stage("train", "all")
    BY <2>1, HeadFacts
  <2> QED BY <2>1, <2>2, TodoSame, WriteEnds
<1>6. CASE Epoch \/ SaveBest
  <2>1. fit.at \in {"epoch", "save"} /\ UNCHANGED <<job, phase, todo, write>>
    <3>1. Epoch => fit.at = "epoch" /\ UNCHANGED <<job, home, staging, phase, todo, write, kills, torn, remains>>
      BY Zenon DEF Epoch
    <3>2. SaveBest => fit.at = "save" /\ UNCHANGED <<job, home, staging, phase, todo, write, kills, torn, remains>>
      BY Zenon DEF SaveBest
    <3> QED BY <1>6, <3>1, <3>2
  <2>2. phase = "running" /\ todo # <<>> /\ Head(todo) = Stage("train", "all") /\ write = <<>>
    BY <2>1, FitFacts DEF TodoInv
  <2> QED BY <2>1, <2>2, TodoSame, WriteEnds
<1>7. CASE EndTraining
  <2>1. /\ fit.at = "close" /\ fit' = NoFit /\ write' = TrainerCloses /\ todo' = Tail(todo)
        /\ UNCHANGED <<job, phase>>
    BY <1>7 DEF EndTraining
  <2>2. phase = "running" /\ todo # <<>> /\ Head(todo) = Stage("train", "all") /\ write = <<>>
    BY <2>1, FitFacts DEF TodoInv
  <2>3. TodoInv' /\ ToSet(todo') = ToSet(todo) \ {Head(todo)}
    BY <2>1, <2>2, TodoNext
  <2>4. Stage("export", "all") \in ToSet(todo')
    BY <2>2, <2>3, JobFacts, OrderFacts, StageFacts
  <2> DEFINE run == [whole |-> TRUE, of |-> LaunchNumber]
             P == {Of(Final, Plain)} \cup {Of(Summary, run)}
  <2>5. Writing(write', P)
    BY <2>1, ClosesFacts
  <2>6. \A p \in P : p.file \notin {Best, Metrics}
    BY OfFacts, FileKinds
  <2> HIDE DEF P
  <2> QED BY <2>3, <2>4, <2>5, <2>6, WriteBegins
<1>8. CASE OpenFile \/ PutFile \/ Unlink \/ CopyArtifact \/ RenameArtifact \/ ClearWorkspace
  <2>1. phase = "running" /\ write # <<>> /\ write' = Tail(write) /\ UNCHANGED <<job, phase, todo, fit>>
    BY <1>8 DEF OpenFile, PutFile, Unlink, CopyArtifact, RenameArtifact, ClearWorkspace, At, Done
  <2>2. fit = NoFit
    BY <2>1 DEF TodoInv
  <2> QED BY <2>1, <2>2, TodoSame, WriteGoesOn
<1>9. CASE Complete \/ Kill
  <2>1. todo' = <<>> /\ write' = <<>> /\ fit' = NoFit /\ UNCHANGED job
    BY <1>9 DEF Complete, Kill
  <2> QED BY <2>1, TodoEnds, WriteEnds
<1>10. CASE UNCHANGED vars
  <2>1. UNCHANGED <<job, phase, todo, write, fit>>
    BY <1>10 DEF vars
  <2>2. WriteInv'
    BY <2>1, Kept DEF WriteInv
  <2> QED BY <2>1, <2>2, TodoSame DEF TodoInv
<1> QED BY <1>1, <1>2, <1>3, <1>4, <1>5, <1>6, <1>7, <1>8, <1>9, <1>10 DEF Next, Step

------------------------------------------------------------------------------
(* The files of a pair, step by step.                                       *)

\* The kinds of the files that stand in a pair.
PairKinds == {"input", "input_manifest", "dataset", "collection_manifest", "block", "block_entry"}

\* What stands in a pair.
LEMMA PairFacts ==
  ASSUME NEW f, NEW g, Paired(f, g)
  PROVE  /\ FileKind(f) \in PairKinds /\ FileKind(g) \in PairKinds /\ f # g
         /\ f \notin {Best, Metrics} /\ g \notin {Best, Metrics}
         /\ FileKind(f) \in {"input", "input_manifest"} => f \in Inputs
<1>1. CASE \E s \in SplitSet : f = Input(s) /\ g = InputManifest(s)
  BY <1>1, FileKinds DEF PairKinds, Inputs
<1>2. CASE \E s \in SplitSet : f = Dataset(s) /\ g = Collection(s)
  BY <1>2, FileKinds DEF PairKinds
<1>3. CASE \E s \in SplitSet, b \in Blocks : f = Block(s, b) /\ g = Entry(s, b)
  BY <1>3, FileKinds DEF PairKinds
<1>4. CASE \E s \in SplitSet, b \in Blocks : f = Entry(s, b) /\ g = Collection(s)
  BY <1>4, FileKinds DEF PairKinds
<1> QED BY <1>1, <1>2, <1>3, <1>4 DEF Paired, PairedOf

\* A step that leaves the files alone and goes on or drops its operations.
LEMMA PairsQuiet ==
  ASSUME PairsInv, UNCHANGED <<job, disk>>, write' = write \/ write' = <<>>
  PROVE  PairsInv'
<1>1. ASSUME NEW f, NEW g, Paired(f, g)' PROVE Guarded(disk', write', f, g)
  <2>1. Guarded(disk, write, f, g)
    BY <1>1, Kept DEF PairsInv
  <2> QED BY <2>1, NothingFacts DEF Guarded
<1> QED BY <1>1 DEF PairsInv

\* An empty directory.
LEMMA PairsFresh ==
  ASSUME disk' = Empty, write' = <<>>
  PROVE  PairsInv'
BY EmptyFacts, NothingFacts DEF PairsInv, Guarded

\* The trainer's files stand in no pair.
TrainerOnly(d, e) ==
  \A f : f \notin {Best, Metrics} => /\ f \in DOMAIN e <=> f \in DOMAIN d
                                     /\ f \in DOMAIN d => e[f] = d[f]

\* The trainer leaves the pairs alone.
LEMMA PairsTraining ==
  ASSUME PairsInv, UNCHANGED job, TrainerOnly(disk, disk'), write' = <<>>
  PROVE  PairsInv'
<1>1. ASSUME NEW f, NEW g, Paired(f, g)' PROVE Guarded(disk', write', f, g)
  <2>1. Guarded(disk, write, f, g) /\ f \notin {Best, Metrics} /\ g \notin {Best, Metrics}
    BY <1>1, Kept, PairFacts DEF PairsInv
  <2> QED BY <2>1, NothingFacts DEF Guarded, TrainerOnly, WholeIn
<1>2. \A f \in DOMAIN disk' : FileKind(f) = "block_entry" => disk'[f].whole
  <2>1. \A f : FileKind(f) = "block_entry" => f \notin {Best, Metrics}
    BY FileKinds
  <2> QED BY <2>1 DEF PairsInv, TrainerOnly
<1> QED BY <1>1, <1>2 DEF PairsInv

\* Operations on other files, and those that write nothing.
LEMMA PairsApart ==
  ASSUME PairsInv, UNCHANGED <<job, disk>>,
         \A i \in DOMAIN write' : write'[i].op \in {"open", "put"} => FileKind(write'[i].file) \notin PairKinds
  PROVE  PairsInv'
<1>1. ASSUME NEW f, NEW g, Paired(f, g)' PROVE Guarded(disk', write', f, g)
  <2>1. Guarded(disk, write, f, g) /\ FileKind(f) \in PairKinds /\ FileKind(g) \in PairKinds
    BY <1>1, Kept, PairFacts DEF PairsInv
  <2> QED BY <2>1 DEF Guarded
<1> QED BY <1>1 DEF PairsInv

\* What was written behind the next operation is written by the rest.
LEMMA WrittenTail ==
  ASSUME NEW w, IsSeq(w), w # <<>>, NEW f, NEW i \in DOMAIN Tail(w), WrittenBefore(w, f, i + 1),
         ~(Head(w).op = "put" /\ Head(w).file = f)
  PROVE  WrittenBefore(Tail(w), f, i)
<1>1. PICK j \in DOMAIN w : j < i + 1 /\ w[j].op = "put" /\ w[j].file = f
  BY DEF WrittenBefore
<1>2. j # 1 /\ i \in Nat /\ j \in Nat
  BY <1>1, TailFacts
<1>3. j - 1 \in DOMAIN Tail(w) /\ Tail(w)[j - 1] = w[j] /\ j - 1 < i
  BY <1>1, <1>2, TailFacts
<1> QED BY <1>1, <1>3 DEF WrittenBefore

\* The operations that are left, of those there were.
LEMMA RestFacts ==
  ASSUME NEW w, IsSeq(w), w # <<>>
  PROVE  /\ \A i \in DOMAIN Tail(w) : i \in Nat /\ i >= 1 /\ i + 1 \in DOMAIN w /\ Tail(w)[i] = w[i + 1]
         /\ \A i, j \in DOMAIN Tail(w) : j < i => j + 1 < i + 1
         /\ 1 \in DOMAIN w /\ Head(w) = w[1] /\ \A i \in DOMAIN Tail(w) : 1 < i + 1
BY TailFacts

\* Guarded, when an operation that is no open, put, unlink or clear is done.
LEMMA GuardGoesOn ==
  ASSUME NEW d, NEW w, NEW f, NEW g, IsSeq(w), w # <<>>, Guarded(d, w, f, g), Head(w).op \notin {"open", "put"}
  PROVE  Guarded(d, Tail(w), f, g)
<1>1. ASSUME NEW i \in DOMAIN Tail(w), Tail(w)[i].op \in {"open", "put"}, Tail(w)[i].file = g
      PROVE  WholeIn(d, f) \/ WrittenBefore(Tail(w), f, i)
  <2>1. i + 1 \in DOMAIN w /\ Tail(w)[i] = w[i + 1]
    BY TailFacts
  <2>2. WholeIn(d, f) \/ WrittenBefore(w, f, i + 1)
    BY <1>1, <2>1 DEF Guarded
  <2> QED BY <2>2, WrittenTail
<1>2. ASSUME NEW i \in DOMAIN Tail(w), Tail(w)[i].op = "open", Tail(w)[i].file = f
      PROVE  g \notin DOMAIN d /\ \A j \in DOMAIN Tail(w) : j < i => Tail(w)[j].file # g
  <2>1. i + 1 \in DOMAIN w /\ w[i + 1].op = "open" /\ w[i + 1].file = f
    BY <1>2, TailFacts
  <2>2. g \notin DOMAIN d /\ \A j \in DOMAIN w : j < i + 1 => w[j].file # g
    BY <2>1 DEF Guarded
  <2> QED BY <2>2, RestFacts
<1> QED BY <1>1, <1>2 DEF Guarded

\* Guarded, when a file is opened or written whole.
LEMMA GuardWrites ==
  ASSUME NEW d, NEW w, NEW f, NEW g, IsSeq(w), w # <<>>, Guarded(d, w, f, g), f # g,
         NEW c, Head(w).op = "put" => c.whole,
         Head(w).op \in {"open", "put"},
         Head(w).op = "open" => 2 \in DOMAIN w /\ w[2].op = "put" /\ w[2].file = Head(w).file
  PROVE  Guarded(Put(d, Head(w).file, c), Tail(w), f, g)
<1> DEFINE t == Head(w).file
           v == Tail(w)
           e == Put(d, t, c)
<1>1. /\ DOMAIN e = DOMAIN d \cup {t} /\ e[t] = c /\ \A x \in DOMAIN d : x # t => e[x] = d[x]
  <2> HIDE DEF t, v
  <2> QED BY DEF Put
<1>2. /\ 1 \in DOMAIN w /\ w[1].op = Head(w).op /\ w[1].file = t
      /\ \A i \in DOMAIN v : i \in Nat /\ i >= 1 /\ i + 1 \in DOMAIN w /\ v[i] = w[i + 1] /\ 1 < i + 1
  BY RestFacts
<1>3. w[1].file = g => WholeIn(d, f)
  <2>1. w[1].file = g => WholeIn(d, f) \/ WrittenBefore(w, f, 1)
    BY <1>2 DEF Guarded
  <2>2. ~WrittenBefore(w, f, 1)
    BY TailFacts DEF WrittenBefore
  <2> QED BY <2>1, <2>2
<1>4. \A i \in DOMAIN v : v[i].op = "open" /\ v[i].file = f =>
        /\ g \notin DOMAIN d /\ t # g /\ \A j \in DOMAIN v : j < i => v[j].file # g
  <2> TAKE i \in DOMAIN v
  <2> HAVE v[i].op = "open" /\ v[i].file = f
  <2>1. g \notin DOMAIN d /\ \A j \in DOMAIN w : j < i + 1 => w[j].file # g
    BY <1>2 DEF Guarded
  <2>2. t # g
    BY <2>1, <1>2
  <2>3. \A j \in DOMAIN v : j < i => v[j].file # g
    BY <2>1, RestFacts
  <2> QED BY <2>1, <2>2, <2>3
<1>5. \A i \in DOMAIN v : v[i].op \in {"open", "put"} /\ v[i].file = g => WholeIn(d, f) \/ WrittenBefore(w, f, i + 1)
  BY <1>2 DEF Guarded
<1>6. \A i \in DOMAIN v : WrittenBefore(w, f, i + 1) /\ ~(Head(w).op = "put" /\ t = f) => WrittenBefore(v, f, i)
  BY WrittenTail
<1>7. g \in DOMAIN d => WholeIn(d, f) \/ (f \in Inputs /\ f \notin DOMAIN d)
  BY DEF Guarded
<1>8. Head(w).op = "open" => 1 \in DOMAIN v /\ v[1] = w[2]
  <2>1. \A i \in DOMAIN w : i # 1 => i - 1 \in DOMAIN v /\ v[i - 1] = w[i]
    BY TailFacts
  <2> QED BY <2>1
<1>9. Head(w).op = "open" /\ t = f => g \notin DOMAIN d
  BY <1>2 DEF Guarded
<1> HIDE DEF t, v, e
<1>10. CASE t = f
  <2>1. CASE Head(w).op = "put"
    <3>1. WholeIn(e, f)
      BY <1>1, <1>10, <2>1 DEF WholeIn
    <3>2. \A i \in DOMAIN v : v[i].op = "open" /\ v[i].file = f => g \notin DOMAIN e
      BY <1>1, <1>4
    <3> QED BY <3>1, <3>2, <1>4 DEF Guarded, e, v, t
  <2>2. CASE Head(w).op = "open"
    <3>1. g \notin DOMAIN e
      BY <1>1, <1>9, <1>10, <2>2
    <3>2. ASSUME NEW i \in DOMAIN v, v[i].file = g PROVE WrittenBefore(v, f, i)
      <4>1. v[1].file = f /\ v[1].op = "put" /\ 1 \in DOMAIN v
        BY <1>8, <1>10, <2>2 DEF t
      <4>2. i \in Nat /\ 1 < i
        BY <4>1, <3>2, <1>2
      <4> QED BY <4>1, <4>2 DEF WrittenBefore
    <3> QED BY <3>1, <3>2, <1>4 DEF Guarded, e, v, t
  <2> QED BY <2>1, <2>2
<1>11. CASE t = g
  <2>1. WholeIn(e, f)
    BY <1>1, <1>2, <1>3, <1>11 DEF WholeIn
  <2> QED BY <2>1, <1>4, <1>11 DEF Guarded, e, v, t
<1>12. CASE t # f /\ t # g
  <2>1. /\ WholeIn(e, f) <=> WholeIn(d, f)
        /\ f \in DOMAIN e <=> f \in DOMAIN d
        /\ g \in DOMAIN e <=> g \in DOMAIN d
    BY <1>1, <1>12 DEF WholeIn
  <2>2. \A i \in DOMAIN v : v[i].op \in {"open", "put"} /\ v[i].file = g => WholeIn(e, f) \/ WrittenBefore(v, f, i)
    BY <2>1, <1>5, <1>6, <1>12
  <2> QED BY <2>1, <2>2, <1>4, <1>7 DEF Guarded, e, v, t
<1> QED BY <1>10, <1>11, <1>12

\* The next operation of a command.
LEMMA OperationFacts ==
  ASSUME RunInv, NEW op, At(op)
  PROVE  /\ phase = "running" /\ fit = NoFit /\ IsSeq(write) /\ write # <<>>
         /\ 1 \in DOMAIN write /\ Head(write) = write[1] /\ write[1].op = op
         /\ op \in {"open", "put", "unlink", "copy", "rename", "clear"}
         /\ op = "open" => /\ 2 \in DOMAIN write /\ write[2].op = "put" /\ write[2].file = Target
                           /\ FileKind(Target) # "block_entry"
         /\ op = "put" => Head(write).content.whole
         /\ op \in {"open", "put"} => Target \notin {Best, Metrics}
         /\ op = "unlink" =>
              /\ \A j \in DOMAIN write : write[j].op = "unlink"
              /\ \E s \in SplitSet : /\ Target \in {Input(s), InputManifest(s)}
                                     /\ Stage("cleanup", s) \notin ToSet(todo)
         /\ op \in {"copy", "rename"} => Target \in ToSet(Exported) /\ todo # <<>>
         /\ op = "clear" => todo = <<>> /\ job.tmp /\ Tail(write) = <<>>
         /\ op \in {"open", "put", "unlink"} => Stage("export", "all") \in ToSet(todo)
<1>1. phase = "running" /\ write # <<>> /\ Head(write).op = op
  BY DEF At
<1>2. fit = NoFit /\ IsSeq(write)
  BY <1>1 DEF RunInv, TodoInv, WriteInv
<1>3. 1 \in DOMAIN write /\ Head(write) = write[1] /\ IsSeq(Tail(write))
  BY <1>1, <1>2, TailFacts
<1> DEFINE ex == ToSet(Exported)
<1>4. OperationOk(write, 1, todo, job.tmp, ex)
  BY <1>3 DEF RunInv, WriteInv
<1> HIDE DEF ex
<1>5. op = "clear" => todo = <<>> /\ job.tmp /\ \A j \in DOMAIN write : j = 1
  BY <1>1, <1>3, <1>4 DEF OperationOk
<1>6. ASSUME op = "clear" PROVE Tail(write) = <<>>
  <2>1. DOMAIN Tail(write) = {}
    <3>1. ASSUME NEW i \in DOMAIN Tail(write) PROVE FALSE
      <4>1. i + 1 \in DOMAIN write /\ i \in Nat /\ i >= 1
        BY <1>1, <1>2, <3>1, TailFacts
      <4>2. i + 1 = 1
        BY <4>1, <1>5, <1>6
      <4> QED BY <4>1, <4>2
    <3> QED BY <3>1
  <2>2. Tail(write) # <<>> => 1 \in DOMAIN Tail(write)
    BY <1>3, TailFacts
  <2> QED BY <2>1, <2>2
<1>7. /\ op \in {"open", "put", "unlink", "copy", "rename", "clear"}
      /\ op = "open" => /\ 2 \in DOMAIN write /\ write[2].op = "put" /\ write[2].file = Target
                        /\ FileKind(Target) # "block_entry"
      /\ op = "put" => Head(write).content.whole
      /\ op \in {"open", "put"} => Target \notin {Best, Metrics}
      /\ op = "unlink" =>
           /\ \A j \in DOMAIN write : write[j].op = "unlink"
           /\ \E s \in SplitSet : /\ Target \in {Input(s), InputManifest(s)}
                                  /\ Stage("cleanup", s) \notin ToSet(todo)
      /\ op \in {"open", "put", "unlink"} => Stage("export", "all") \in ToSet(todo)
  BY <1>1, <1>3, <1>4 DEF OperationOk, Target
<1>8. op \in {"copy", "rename"} => Target \in ToSet(Exported) /\ todo # <<>>
  BY <1>1, <1>3, <1>4 DEF OperationOk, Target, ex
<1> QED BY <1>1, <1>2, <1>3, <1>5, <1>6, <1>7, <1>8

\* Whatever the operation, the file a pair rests on stays whole.
LEMMA PairsOperation ==
  ASSUME RunInv, PairsInv,
         OpenFile \/ PutFile \/ Unlink \/ CopyArtifact \/ RenameArtifact \/ ClearWorkspace
  PROVE  PairsInv'
<1>1. ASSUME NEW c, (OpenFile /\ c = Open) \/ (PutFile /\ c = Head(write).content) PROVE PairsInv'
  <2>1. /\ Head(write).op \in {"open", "put"} /\ disk' = Put(disk, Target, c) /\ write' = Tail(write)
        /\ job' = job /\ At(Head(write).op)
    BY <1>1 DEF OpenFile, PutFile, At, Done
  <2>2. /\ IsSeq(write) /\ write # <<>>
        /\ Head(write).op = "put" => Head(write).content.whole
        /\ Head(write).op = "open" =>
             2 \in DOMAIN write /\ write[2].op = "put" /\ write[2].file = Target
        /\ Head(write).op = "open" => FileKind(Target) # "block_entry"
    BY <2>1, OperationFacts
  <2>3. Head(write).op = "put" => c.whole
    BY <1>1, <2>2 DEF OpenFile, At
  <2>4. ASSUME NEW f, NEW g, Paired(f, g)' PROVE Guarded(disk', write', f, g)
    <3>1. Guarded(disk, write, f, g) /\ f # g
      BY <2>1, <2>4, Kept, PairFacts DEF PairsInv
    <3>2. Guarded(Put(disk, Head(write).file, c), Tail(write), f, g)
      BY <3>1, <2>1, <2>2, <2>3, GuardWrites DEF Target
    <3> QED BY <3>2, <2>1 DEF Target
  <2>5. \A f \in DOMAIN disk' : FileKind(f) = "block_entry" => disk'[f].whole
    <3> DEFINE t == Target
    <3>1. disk' = Put(disk, t, c)
      BY <2>1
    <3>2. FileKind(t) = "block_entry" => c.whole
      BY <2>1, <2>2, <2>3
    <3> HIDE DEF t
    <3> QED BY <3>1, <3>2 DEF PairsInv, Put
  <2> QED BY <2>4, <2>5 DEF PairsInv
<1>2. CASE Unlink
  <2>1. disk' = Removed(disk, Target) /\ write' = Tail(write) /\ job' = job /\ At("unlink")
    BY <1>2 DEF Unlink, Done
  <2>2. /\ IsSeq(write) /\ write # <<>> /\ \A j \in DOMAIN write : write[j].op = "unlink"
        /\ \E s \in SplitSet : Target \in {Input(s), InputManifest(s)}
    BY <2>1, OperationFacts
  <2> DEFINE t == Target
  <2>3. FileKind(t) \in {"input", "input_manifest"}
    BY <2>2, FileKinds
  <2>4. \A j \in DOMAIN write' : write'[j].op = "unlink"
    BY <2>1, <2>2, TailFacts
  <2>5. DOMAIN disk' = DOMAIN disk \ {t} /\ \A x \in DOMAIN disk : x # t => disk'[x] = disk[x]
    BY <2>1, RemovedFacts
  <2> HIDE DEF t
  <2>6. ASSUME NEW f, NEW g, Paired(f, g)' PROVE Guarded(disk', write', f, g)
    <3>1. /\ Guarded(disk, write, f, g) /\ f # g
          /\ FileKind(f) \in {"input", "input_manifest"} => f \in Inputs
      BY <2>1, <2>6, Kept, PairFacts DEF PairsInv
    <3>2. t = f => f \in Inputs
      BY <3>1, <2>3
    <3> QED BY <3>1, <3>2, <2>4, <2>5 DEF Guarded, WholeIn
  <2> QED BY <2>5, <2>6 DEF PairsInv
<1>3. CASE CopyArtifact \/ RenameArtifact
  <2>1. disk' = disk /\ write' = Tail(write) /\ job' = job /\ (At("copy") \/ At("rename"))
    BY <1>3 DEF CopyArtifact, RenameArtifact, Done
  <2>2. IsSeq(write) /\ write # <<>> /\ Head(write).op \in {"copy", "rename"}
    BY <2>1, OperationFacts DEF At
  <2>3. ASSUME NEW f, NEW g, Paired(f, g)' PROVE Guarded(disk', write', f, g)
    <3>1. Guarded(disk, write, f, g)
      BY <2>1, <2>3, Kept DEF PairsInv
    <3>2. Guarded(disk, Tail(write), f, g)
      BY <3>1, <2>2, GuardGoesOn
    <3> QED BY <3>2, <2>1
  <2> QED BY <2>1, <2>3 DEF PairsInv
<1>4. CASE ClearWorkspace
  <2>1. disk' = Empty /\ write' = Tail(write) /\ At("clear")
    BY <1>4 DEF ClearWorkspace, Done
  <2>2. write' = <<>>
    BY <2>1, OperationFacts
  <2> QED BY <2>1, <2>2, PairsFresh
<1> QED BY <1>1, <1>2, <1>3, <1>4

\* The pairs when a command begins to prepare an input.
LEMMA PairsPrepare ==
  ASSUME PairsInv, UNCHANGED <<job, disk>>, NEW s, InspectPrepare(s) = "run",
         write' = InPlace(Input(s), Plain) \o InPlace(InputManifest(s), Plain)
  PROVE  PairsInv'
<1> DEFINE w == InPlace(Input(s), Plain) \o InPlace(InputManifest(s), Plain)
           P == {Of(Input(s), Plain)} \cup {Of(InputManifest(s), Plain)}
<1>1. Writing(w, P) /\ Follows(w, Input(s), InputManifest(s))
  BY PrepareWrites
<1>2. write' = w
  OBVIOUS
<1>3. InputManifest(s) \notin DOMAIN disk
  BY DEF InspectPrepare, Exists
<1> HIDE DEF w
<1>4. \A i \in DOMAIN w : w[i].file = Input(s) \/ w[i].file = InputManifest(s)
  BY <1>1, WritingFiles, OfFacts
<1> HIDE DEF P
<1>5. ASSUME NEW f, NEW g, Paired(f, g)' PROVE Guarded(disk', write', f, g)
  <2>1. Guarded(disk, write, f, g) /\ PairedOf(job.kind, f, g)
    BY <1>5, Kept DEF PairsInv, Paired
  <2>2. CASE f = Input(s) /\ g = InputManifest(s)
    <3>1. Guarded(disk, w, f, g)
      BY <2>2, <1>1, <1>3, GuardNew
    <3> QED BY <3>1, <1>2
  <2>3. CASE ~(f = Input(s) /\ g = InputManifest(s))
    <3>1. f # Input(s) /\ g # InputManifest(s) /\ f # InputManifest(s) /\ g # Input(s)
      BY <2>1, <2>3, FileKinds, FileOwners DEF PairedOf
    <3>2. ~Touches(w, f) /\ ~Touches(w, g)
      BY <3>1, <1>4 DEF Touches
    <3>3. Guarded(disk, w, f, g)
      BY <2>1, <3>2, GuardApart
    <3> QED BY <3>3, <1>2
  <2> QED BY <2>2, <2>3
<1> QED BY <1>5 DEF PairsInv

\* The pairs when a command begins to collect a split.
LEMMA PairsCollect ==
  ASSUME PairsInv, UNCHANGED <<job, disk>>, NEW s, InspectCollect(s) = "run", write' = CollectWrites(s)
  PROVE  PairsInv'
<1> DEFINE w == CollectWrites(s)
<1>1. PICK P :
         /\ Writing(w, P)
         /\ \A p \in P : \/ p.file = Dataset(s) \/ p.file = Collection(s)
                         \/ /\ job.kind = "index"
                            /\ \E b \in Missing(s) : p.file = Block(s, b) \/ p.file = Entry(s, b)
         /\ Follows(w, Dataset(s), Collection(s))
         /\ job.kind = "index" => \A b \in Missing(s) : /\ Follows(w, Block(s, b), Entry(s, b))
                                                       /\ Follows(w, Entry(s, b), Collection(s))
  BY CollectFacts
<1>2. write' = w
  OBVIOUS
<1>3. Collection(s) \notin DOMAIN disk
  BY DEF InspectCollect, Exists
<1>4. \A b \in Missing(s) : b \in Blocks /\ Entry(s, b) \notin DOMAIN disk
  BY DEF Missing, Exists
<1>5. \A b \in Blocks \ Missing(s) : Entry(s, b) \in DOMAIN disk
  BY DEF Missing, Exists
<1> HIDE DEF w
<1>6. \A f : Touches(w, f) =>
        \/ f = Dataset(s) \/ f = Collection(s)
        \/ job.kind = "index" /\ \E b \in Missing(s) : f = Block(s, b) \/ f = Entry(s, b)
  <2> TAKE f
  <2> HAVE Touches(w, f)
  <2>1. PICK i \in DOMAIN w : w[i].file = f
    BY DEF Touches
  <2>2. PICK p \in P : w[i].file = p.file
    BY <1>1, WritingFiles
  <2> QED BY <1>1, <2>1, <2>2
<1>7. \A i \in DOMAIN w : w[i].op = "open" => FileKind(w[i].file) # "block_entry"
  BY <1>1 DEF Writing
<1>8. ASSUME NEW f, NEW g, Paired(f, g)' PROVE Guarded(disk', write', f, g)
  <2>1. Guarded(disk, write, f, g) /\ PairedOf(job.kind, f, g)
    BY <1>8, Kept DEF PairsInv, Paired
  <2>2. SUFFICES Guarded(disk, w, f, g)
    BY <1>2
  <2>3. CASE \E t \in SplitSet : f = Input(t) /\ g = InputManifest(t)
    <3>1. ~Touches(w, f) /\ ~Touches(w, g)
      BY <2>3, <1>6, FileKinds
    <3> QED BY <3>1, <2>1, GuardApart
  <2>4. ASSUME NEW t \in SplitSet, f = Dataset(t), g = Collection(t) PROVE Guarded(disk, w, f, g)
    <3>1. CASE t = s
      BY <3>1, <2>4, <1>1, <1>3, GuardNew
    <3>2. CASE t # s
      <4>1. ~Touches(w, f) /\ ~Touches(w, g)
        BY <2>4, <3>2, <1>6, FileKinds, FileOwners
      <4> QED BY <4>1, <2>1, GuardApart
    <3> QED BY <3>1, <3>2
  <2>5. ASSUME NEW t \in SplitSet, NEW b \in Blocks, f = Block(t, b), g = Entry(t, b)
        PROVE  Guarded(disk, w, f, g)
    <3>1. CASE t = s /\ b \in Missing(s) /\ job.kind = "index"
      BY <3>1, <2>5, <1>1, <1>4, GuardNew
    <3>2. CASE ~(t = s /\ b \in Missing(s) /\ job.kind = "index")
      <4>1. ~Touches(w, f)
        BY <2>5, <3>2, <1>6, FileKinds, FileOwners
      <4>2. ~Touches(w, g)
        BY <2>5, <3>2, <1>6, FileKinds, FileOwners
      <4> QED BY <4>1, <4>2, <2>1, GuardApart
    <3> QED BY <3>1, <3>2
  <2>6. ASSUME NEW t \in SplitSet, NEW b \in Blocks, job.kind = "index", f = Entry(t, b), g = Collection(t)
        PROVE  Guarded(disk, w, f, g)
    <3>1. CASE t = s /\ b \in Missing(s)
      BY <3>1, <2>6, <1>1, <1>3, GuardNew
    <3>2. CASE t = s /\ b \notin Missing(s)
      <4>1. WholeIn(disk, f)
        BY <3>2, <2>6, <1>5, FileKinds DEF PairsInv, WholeIn
      <4>2. \A i \in DOMAIN w : w[i].op = "open" => w[i].file # f
        BY <2>6, <1>7, FileKinds
      <4> QED BY <4>1, <4>2, <2>1, GuardWhole
    <3>3. CASE t # s
      <4>1. ~Touches(w, f) /\ ~Touches(w, g)
        BY <2>6, <3>3, <1>6, FileKinds, FileOwners
      <4> QED BY <4>1, <2>1, GuardApart
    <3> QED BY <3>1, <3>2, <3>3
  <2> QED BY <2>1, <2>3, <2>4, <2>5, <2>6 DEF PairedOf
<1> QED BY <1>8 DEF PairsInv

\* The pairs when any command begins.
LEMMA PairsBegin ==
  ASSUME TodoInv, PairsInv, Begin
  PROVE  PairsInv'
<1> DEFINE h == Head(todo)
           s == Head(todo).split
<1>1. /\ phase = "running" /\ todo # <<>> /\ write' = Writes(h) /\ UNCHANGED <<job, disk>>
      /\ Inspect(h) = "run" /\ h.name # "train"
  BY DEF Begin, AtStage
<1>2. /\ job.kind \in Kinds
      /\ h.name \in {"configure", "manifest", "export", "clear",
                     "prepare", "collect", "cleanup", "evaluate", "qa", "replay"}
  BY <1>1, HeadFacts
<1>3. CASE h.name \in {"configure", "evaluate", "qa", "replay", "manifest"}
  <2>1. PICK P : Writing(Writes(h), P) /\ \A p \in P : FileKind(p.file) \in OtherKinds
    BY <1>2, <1>3, AsideWrites
  <2>2. \A i \in DOMAIN write' : FileKind(write'[i].file) \notin PairKinds
    <3> DEFINE w == Writes(h)
    <3> HIDE DEF w
    <3>1. \A i \in DOMAIN w : \E p \in P : w[i].file = p.file
      BY <2>1, WritingFiles DEF w
    <3>2. \A i \in DOMAIN w : FileKind(w[i].file) \in OtherKinds
      BY <2>1, <3>1
    <3> QED BY <3>2, <1>1 DEF OtherKinds, PairKinds, w
  <2> QED BY <2>2, <1>1, PairsApart
<1>4. CASE h.name = "prepare"
  <2>1. write' = InPlace(Input(s), Plain) \o InPlace(InputManifest(s), Plain) /\ InspectPrepare(s) = "run"
    BY <1>1, <1>4, WritesOf DEF Inspect
  <2> QED BY <2>1, <1>1, PairsPrepare
<1>5. CASE h.name = "collect"
  <2>1. write' = CollectWrites(s) /\ InspectCollect(s) = "run"
    BY <1>1, <1>5, WritesOf DEF Inspect
  <2> QED BY <2>1, <1>1, PairsCollect
<1>6. CASE h.name = "cleanup"
  <2>1. write' = CleanupWrites(s)
    BY <1>1, <1>6, WritesOf
  <2>2. \A i \in DOMAIN write' : write'[i].op = "unlink"
    BY <2>1, CleanupFacts
  <2> QED BY <2>2, <1>1, PairsApart
<1>7. CASE h.name = "export"
  <2>1. write' = ExportWrites
    BY <1>1, <1>7, WritesOf
  <2>2. \A i \in DOMAIN write' : write'[i].op \in {"copy", "rename"}
    BY <2>1, <1>2, ExportFacts
  <2> QED BY <2>2, <1>1, PairsApart
<1>8. CASE h.name = "clear"
  <2>1. write' = <<[op |-> "clear", file |-> <<>>]>>
    BY <1>1, <1>8, WritesOf
  <2>2. \A i \in DOMAIN write' : write'[i].op = "clear"
    <3> DEFINE c == [op |-> "clear", file |-> <<>>]
    <3>1. c.op = "clear" /\ write' = <<c>>
      BY <2>1
    <3> HIDE DEF c
    <3> QED BY <3>1
  <2> QED BY <2>2, <1>1, PairsApart
<1> QED BY <1>2, <1>3, <1>4, <1>5, <1>6, <1>7, <1>8

\* What training does to the files.
LEMMA TrainerFiles ==
  ASSUME BeginTraining \/ Epoch \/ SaveBest
  PROVE  TrainerOnly(disk, disk') /\ UNCHANGED <<job, phase, todo, write>>
<1>1. ASSUME NEW d, NEW f, NEW c, f \in {Best, Metrics} PROVE TrainerOnly(d, Put(d, f, c))
  BY <1>1 DEF TrainerOnly, Put
<1>2. ASSUME NEW d, NEW a, NEW b PROVE TrainerOnly(d, Put(Put(d, Metrics, a), Best, b))
  <2> DEFINE m == Put(d, Metrics, a)
  <2>1. TrainerOnly(d, m) /\ TrainerOnly(m, Put(m, Best, b))
    BY <1>1
  <2> HIDE DEF m
  <2>2. TrainerOnly(d, Put(m, Best, b))
    BY <2>1 DEF TrainerOnly
  <2> QED BY <2>2 DEF m
<1>3. BeginTraining => TrainerOnly(disk, disk') /\ UNCHANGED <<job, phase, todo, write>>
  BY <1>1 DEF BeginTraining
<1>4. SaveBest => TrainerOnly(disk, disk') /\ UNCHANGED <<job, phase, todo, write>>
  BY <1>1 DEF SaveBest
<1>5. ASSUME Epoch PROVE TrainerOnly(disk, disk') /\ UNCHANGED <<job, phase, todo, write>>
  <2>1. PICK c : disk' = Put(disk, Metrics, c) \/ disk' = Put(Put(disk, Metrics, c), Best, Open)
    BY <1>5, Zenon DEF Epoch
  <2>2. UNCHANGED <<job, home, staging, phase, todo, write, kills, torn, remains>>
    BY <1>5, Zenon DEF Epoch
  <2> QED BY <2>1, <2>2, <1>1, <1>2
<1> QED BY <1>3, <1>4, <1>5

\* Nothing is being written while a router is trained.
LEMMA TrainingAlone ==
  ASSUME RunInv, BeginTraining \/ Epoch \/ SaveBest \/ EndTraining
  PROVE  /\ phase = "running" /\ todo # <<>> /\ write = <<>> /\ Head(todo) = Stage("train", "all")
<1>1. CASE BeginTraining
  <2>1. phase = "running" /\ todo # <<>> /\ write = <<>> /\ Head(todo).name = "train"
    BY <1>1 DEF BeginTraining, AtStage
  <2> QED BY <2>1, HeadFacts DEF RunInv
<1>2. CASE Epoch \/ SaveBest \/ EndTraining
  <2>1. fit.at \in {"epoch", "save", "close"}
    BY <1>2, Zenon DEF Epoch, SaveBest, EndTraining
  <2> QED BY <2>1, FitFacts DEF RunInv, TodoInv
<1> QED BY <1>1, <1>2

\* Every step of a launch keeps the pairs.
LEMMA PairsStep ==
  ASSUME RunInv, PairsInv, [Next]_vars, Kill => UNCHANGED disk
  PROVE  PairsInv'
<1>1. CASE Launch
  <2>1. /\ phase = "idle" /\ UNCHANGED <<job, write>> /\ (UNCHANGED disk \/ disk' = Empty)
    BY <1>1 DEF Launch
  <2>2. write' = <<>>
    BY <2>1 DEF RunInv, TodoInv
  <2> QED BY <2>1, <2>2, PairsQuiet, PairsFresh
<1>2. CASE Skip \/ Raise \/ Complete \/ Kill \/ UNCHANGED vars
  <2>1. UNCHANGED <<job, disk>> /\ (write' = write \/ write' = <<>>)
    BY <1>2 DEF Skip, Raise, Complete, Kill, vars
  <2> QED BY <2>1, PairsQuiet
<1>3. CASE Begin
  BY <1>3, PairsBegin DEF RunInv
<1>4. CASE BeginTraining \/ Epoch \/ SaveBest
  <2>1. TrainerOnly(disk, disk') /\ UNCHANGED <<job, write>> /\ write = <<>>
    BY <1>4, TrainerFiles, TrainingAlone
  <2> QED BY <2>1, PairsTraining
<1>5. CASE EndTraining
  <2> DEFINE run == [whole |-> TRUE, of |-> LaunchNumber]
             P == {Of(Final, Plain)} \cup {Of(Summary, run)}
  <2>1. write' = TrainerCloses /\ UNCHANGED <<job, disk>>
    BY <1>5 DEF EndTraining
  <2>2. Writing(write', P)
    BY <2>1, ClosesFacts
  <2>3. \A p \in P : FileKind(p.file) \notin PairKinds
    BY OfFacts, FileKinds DEF PairKinds
  <2> HIDE DEF P
  <2> DEFINE w == TrainerCloses
  <2>4. Writing(w, P) /\ write' = w
    BY <2>1, <2>2
  <2> HIDE DEF w
  <2>5. \A i \in DOMAIN w : FileKind(w[i].file) \notin PairKinds
    BY <2>3, <2>4, WritingFiles
  <2> QED BY <2>1, <2>4, <2>5, PairsApart
<1>6. CASE OpenFile \/ PutFile \/ Unlink \/ CopyArtifact \/ RenameArtifact \/ ClearWorkspace
  BY <1>6, PairsOperation
<1> QED BY <1>1, <1>2, <1>3, <1>4, <1>5, <1>6 DEF Next, Step

------------------------------------------------------------------------------
(* What the stages behind the launch have left, step by step.               *)

\* A launch that is past no stage.
LEMMA ProgressNone ==
  ASSUME \A x : ~Passed(x)'
  PROVE  ProgressInv'
BY DEF ProgressInv

\* A step within a stage.
LEMMA ProgressKept ==
  ASSUME ProgressInv, UNCHANGED <<job, todo, phase>>,
         \A f \in Inputs : f \in DOMAIN disk' /\ (f \in DOMAIN disk => Safe(f)) => Safe(f)',
         \A s : Stage("cleanup", s) \in ToSet(todo) /\ Safe(Input(s)) => Safe(Input(s))',
         \A f : FileKind(f) \in {"dataset", "block_entry"} /\ Safe(f) => Safe(f)'
  PROVE  ProgressInv'
<1>1. \A x : Passed(x)' <=> Passed(x)
  BY Kept DEF Passed, Working
<1>2. ASSUME NEW s \in SplitSet
      PROVE  (/\ Passed(Stage("prepare", s)) /\ Input(s) \in DOMAIN disk => Safe(Input(s))
              /\ job.kind = "region" /\ Passed(Stage("prepare", s)) /\ Stage("cleanup", s) \in ToSet(todo) =>
                   Safe(Input(s))
              /\ Passed(Stage("collect", s)) => Safe(Dataset(s))
              /\ job.kind = "index" /\ Passed(Stage("collect", s)) => \A b \in Blocks : Safe(Entry(s, b)))'
  <2>1. /\ Passed(Stage("prepare", s)) /\ Input(s) \in DOMAIN disk => Safe(Input(s))
        /\ job.kind = "region" /\ Passed(Stage("prepare", s)) /\ Stage("cleanup", s) \in ToSet(todo) =>
             Safe(Input(s))
        /\ Passed(Stage("collect", s)) => Safe(Dataset(s))
        /\ job.kind = "index" /\ Passed(Stage("collect", s)) => \A b \in Blocks : Safe(Entry(s, b))
    BY DEF ProgressInv
  <2>2. Input(s) \in Inputs
    BY DEF Inputs
  <2>3. Passed(Stage("prepare", s))' /\ Input(s) \in DOMAIN disk' => Safe(Input(s))'
    BY <2>1, <2>2, <1>1
  <2>4. job'.kind = "region" /\ Passed(Stage("prepare", s))' /\ Stage("cleanup", s) \in ToSet(todo') =>
          Safe(Input(s))'
    BY <2>1, <1>1
  <2>5. Passed(Stage("collect", s))' => Safe(Dataset(s))'
    BY <2>1, <1>1, FileKinds
  <2>6. job'.kind = "index" /\ Passed(Stage("collect", s))' => \A b \in Blocks : Safe(Entry(s, b))'
    BY <2>1, <1>1, FileKinds
  <2> QED BY <2>3, <2>4, <2>5, <2>6
<1> QED BY <1>2 DEF ProgressInv

\* The next stage is left behind.
LEMMA ProgressNext ==
  ASSUME ProgressInv, UNCHANGED <<job, disk>>, write = <<>>,
         \A x : Passed(x)' => Passed(x) \/ x = Head(todo),
         ToSet(todo') \subseteq ToSet(todo),
         \A s : Head(todo) = Stage("prepare", s) => Safe(Input(s))',
         \A s : Head(todo) = Stage("collect", s) => Safe(Dataset(s))',
         \A s, b : Head(todo) = Stage("collect", s) /\ job.kind = "index" /\ b \in Blocks => Safe(Entry(s, b))'
  PROVE  ProgressInv'
<1>1. \A f : Safe(f) => Safe(f)'
  BY NothingFacts DEF Safe, Comes, WholeIn
<1>2. ASSUME NEW s \in SplitSet
      PROVE  (/\ Passed(Stage("prepare", s)) /\ Input(s) \in DOMAIN disk => Safe(Input(s))
              /\ job.kind = "region" /\ Passed(Stage("prepare", s)) /\ Stage("cleanup", s) \in ToSet(todo) =>
                   Safe(Input(s))
              /\ Passed(Stage("collect", s)) => Safe(Dataset(s))
              /\ job.kind = "index" /\ Passed(Stage("collect", s)) => \A b \in Blocks : Safe(Entry(s, b)))'
  <2>1. /\ Passed(Stage("prepare", s)) /\ Input(s) \in DOMAIN disk => Safe(Input(s))
        /\ job.kind = "region" /\ Passed(Stage("prepare", s)) /\ Stage("cleanup", s) \in ToSet(todo) =>
             Safe(Input(s))
        /\ Passed(Stage("collect", s)) => Safe(Dataset(s))
        /\ job.kind = "index" /\ Passed(Stage("collect", s)) => \A b \in Blocks : Safe(Entry(s, b))
    BY DEF ProgressInv
  <2>3. Passed(Stage("prepare", s))' /\ Input(s) \in DOMAIN disk' => Safe(Input(s))'
    BY <2>1, <1>1
  <2>4. job'.kind = "region" /\ Passed(Stage("prepare", s))' /\ Stage("cleanup", s) \in ToSet(todo') =>
          Safe(Input(s))'
    BY <2>1, <1>1
  <2>5. Passed(Stage("collect", s))' => Safe(Dataset(s))'
    BY <2>1, <1>1
  <2>6. job'.kind = "index" /\ Passed(Stage("collect", s))' => \A b \in Blocks : Safe(Entry(s, b))'
    BY <2>1, <1>1
  <2> QED BY <2>3, <2>4, <2>5, <2>6
<1> QED BY <1>2 DEF ProgressInv

\* A stage that is skipped has its output whole.
LEMMA ProgressSkip ==
  ASSUME RunInv, PairsInv, ProgressInv, Skip
  PROVE  ProgressInv'
<1> DEFINE h == Head(todo)
<1>1. /\ phase = "running" /\ todo # <<>> /\ UNCHANGED <<job, phase, disk, write>> /\ todo' = Tail(todo)
      /\ fit' = NoFit /\ write = <<>> /\ Inspect(h) = "skip"
  BY DEF Skip, AtStage
<1>2. /\ ToSet(todo') = ToSet(todo) \ {h}
      /\ \A x : Passed(x)' => Passed(x) \/ x = h
  BY <1>1, TodoNext DEF RunInv
<1>3. StageForms(h)
  BY <1>1, HeadFacts DEF RunInv
<1>4. \A f, g : Paired(f, g) /\ g \in DOMAIN disk => WholeIn(disk, f) \/ (f \in Inputs /\ f \notin DOMAIN disk)
  BY DEF PairsInv, Guarded
<1>5. ASSUME NEW s, h = Stage("prepare", s) PROVE Safe(Input(s))'
  <2>1. s \in SplitSet /\ Input(s) \in DOMAIN disk /\ InputManifest(s) \in DOMAIN disk
    <3>1. Inspect(h) = InspectPrepare(s)
      BY <1>5 DEF Inspect, Stage
    <3>2. InspectPrepare(s) = "skip" => Input(s) \in DOMAIN disk /\ InputManifest(s) \in DOMAIN disk
      BY DEF InspectPrepare, Exists
    <3>3. s \in SplitSet
      BY <1>3, <1>5, StageFacts DEF StageForms
    <3> QED BY <3>1, <3>2, <3>3, <1>1
  <2>2. Paired(Input(s), InputManifest(s))
    BY <2>1 DEF Paired, PairedOf
  <2>3. WholeIn(disk, Input(s))
    BY <2>1, <2>2, <1>4
  <2> QED BY <2>3, <1>1 DEF Safe
<1>6. ASSUME NEW s, h = Stage("collect", s)
      PROVE  Safe(Dataset(s))' /\ (job.kind = "index" => \A b \in Blocks : Safe(Entry(s, b))')
  <2>1. s \in SplitSet /\ Collection(s) \in DOMAIN disk
    <3>1. Inspect(h) = InspectCollect(s)
      BY <1>6 DEF Inspect, Stage
    <3>2. InspectCollect(s) = "skip" => Collection(s) \in DOMAIN disk
      BY DEF InspectCollect, Exists
    <3>3. s \in SplitSet
      BY <1>3, <1>6, StageFacts DEF StageForms
    <3> QED BY <3>1, <3>2, <3>3, <1>1
  <2>2. Paired(Dataset(s), Collection(s)) /\ (job.kind = "index" => \A b \in Blocks : Paired(Entry(s, b), Collection(s)))
    BY <2>1 DEF Paired, PairedOf
  <2>3. Dataset(s) \notin Inputs /\ \A b : Entry(s, b) \notin Inputs
    BY FileKinds DEF Inputs
  <2>4. WholeIn(disk, Dataset(s)) /\ (job.kind = "index" => \A b \in Blocks : WholeIn(disk, Entry(s, b)))
    BY <2>1, <2>2, <2>3, <1>4
  <2> QED BY <2>4, <1>1 DEF Safe
<1>7. /\ \A s : h = Stage("prepare", s) => Safe(Input(s))'
      /\ \A s : h = Stage("collect", s) => Safe(Dataset(s))'
      /\ \A s, b : h = Stage("collect", s) /\ job.kind = "index" /\ b \in Blocks => Safe(Entry(s, b))'
      /\ \A x : Passed(x)' => Passed(x) \/ x = h
      /\ ToSet(todo') \subseteq ToSet(todo) /\ UNCHANGED <<job, disk>> /\ write = <<>>
  BY <1>1, <1>2, <1>5, <1>6
<1> QED BY <1>7, ProgressNext

\* A command that begins writes the outputs of its stage that are not there whole.
LEMMA ProgressBegin ==
  ASSUME RunInv, PairsInv, ProgressInv, Begin
  PROVE  ProgressInv'
<1> DEFINE h == Head(todo)
<1>1. /\ phase = "running" /\ todo # <<>> /\ UNCHANGED <<job, phase, disk>> /\ todo' = Tail(todo)
      /\ fit' = NoFit /\ write = <<>> /\ Inspect(h) = "run" /\ write' = Writes(h)
  BY DEF Begin, AtStage
<1>2. /\ ToSet(todo') = ToSet(todo) \ {h}
      /\ \A x : Passed(x)' => Passed(x) \/ x = h
  BY <1>1, TodoNext DEF RunInv
<1>5. ASSUME NEW s, h = Stage("prepare", s) PROVE Safe(Input(s))'
  <2> DEFINE P == {Of(Input(s), Plain)} \cup {Of(InputManifest(s), Plain)}
             w == InPlace(Input(s), Plain) \o InPlace(InputManifest(s), Plain)
  <2>0. h.name = "prepare" /\ h.split = s
    BY <1>5, StageFacts
  <2>1. write' = w
    BY <2>0, <1>1, WritesOf
  <2>2. Writing(w, P)
    BY PrepareWrites
  <2>3. Of(Input(s), Plain) \in P /\ Of(Input(s), Plain).file = Input(s)
    BY OfFacts
  <2> HIDE DEF w, P
  <2>4. Comes(w, Input(s))
    BY <2>2, <2>3 DEF Writing
  <2> QED BY <2>1, <2>4 DEF Safe
<1>6. ASSUME NEW s, h = Stage("collect", s)
      PROVE  Safe(Dataset(s))' /\ (job.kind = "index" => \A b \in Blocks : Safe(Entry(s, b))')
  <2> DEFINE w == CollectWrites(s)
  <2>0. h.name = "collect" /\ h.split = s
    BY <1>6, StageFacts
  <2>1. write' = w
    BY <2>0, <1>1, WritesOf
  <2>2. /\ Comes(w, Dataset(s))
        /\ job.kind = "index" => \A b \in Missing(s) : Comes(w, Entry(s, b))
    BY CollectFacts
  <2> HIDE DEF w
  <2>3. \A b \in Blocks \ Missing(s) : WholeIn(disk, Entry(s, b))
    BY FileKinds DEF Missing, Exists, PairsInv, WholeIn
  <2>4. \A b \in Blocks \ Missing(s) : WholeIn(disk', Entry(s, b))
    BY <2>3, <1>1
  <2> QED BY <2>1, <2>2, <2>4 DEF Safe
<1>7. /\ \A s : h = Stage("prepare", s) => Safe(Input(s))'
      /\ \A s : h = Stage("collect", s) => Safe(Dataset(s))'
      /\ \A s, b : h = Stage("collect", s) /\ job.kind = "index" /\ b \in Blocks => Safe(Entry(s, b))'
      /\ \A x : Passed(x)' => Passed(x) \/ x = h
      /\ ToSet(todo') \subseteq ToSet(todo) /\ UNCHANGED <<job, disk>> /\ write = <<>>
  BY <1>1, <1>2, <1>5, <1>6
<1> QED BY <1>7, ProgressNext

\* What the operations that are left write.
LEMMA ComesTail ==
  ASSUME NEW w, IsSeq(w), w # <<>>, NEW f, Comes(w, f), ~(Head(w).op = "put" /\ Head(w).file = f)
  PROVE  Comes(Tail(w), f)
<1>1. PICK j \in DOMAIN w : w[j].op = "put" /\ w[j].file = f
  BY DEF Comes
<1>2. j # 1
  BY <1>1, TailFacts
<1>3. j - 1 \in DOMAIN Tail(w) /\ Tail(w)[j - 1] = w[j]
  BY <1>2, TailFacts
<1> QED BY <1>1, <1>3 DEF Comes

\* No operation but a removal, or the clearing of the workspace, spoils a file.
LEMMA SafeOperation ==
  ASSUME RunInv, NEW f, Safe(f),
         OpenFile \/ PutFile \/ CopyArtifact \/ RenameArtifact \/ (Unlink /\ Target # f)
  PROVE  Safe(f)'
<1>1. CASE OpenFile
  <2>1. disk' = Put(disk, Target, Open) /\ write' = Tail(write) /\ At("open")
    BY <1>1 DEF OpenFile, Done
  <2>2. /\ IsSeq(write) /\ write # <<>> /\ Head(write).op = "open"
        /\ 2 \in DOMAIN write /\ write[2].op = "put" /\ write[2].file = Target
    BY <2>1, OperationFacts DEF At
  <2> DEFINE t == Target
  <2>3. CASE t = f
    <3>1. 1 \in DOMAIN Tail(write) /\ Tail(write)[1] = write[2]
      <4>1. 2 - 1 \in DOMAIN Tail(write) /\ Tail(write)[2 - 1] = write[2]
        BY <2>2, TailFacts
      <4> QED BY <4>1
    <3>2. Comes(Tail(write), f)
      BY <3>1, <2>2, <2>3 DEF Comes
    <3> QED BY <3>2, <2>1 DEF Safe
  <2>4. CASE t # f
    <3>1. Comes(write, f) => Comes(Tail(write), f)
      BY <2>2, ComesTail
    <3>2. disk' = Put(disk, t, Open)
      BY <2>1
    <3> HIDE DEF t
    <3>3. WholeIn(disk, f) => WholeIn(disk', f)
      BY <3>2, <2>4 DEF WholeIn, Put
    <3> QED BY <3>1, <3>3, <2>1 DEF Safe
  <2> QED BY <2>3, <2>4
<1>2. CASE PutFile
  <2> DEFINE t == Target
             c == Head(write).content
  <2>1. disk' = Put(disk, t, c) /\ write' = Tail(write) /\ At("put")
    BY <1>2 DEF PutFile, Done
  <2>2. IsSeq(write) /\ write # <<>> /\ Head(write).file = t /\ c.whole
    BY <2>1, OperationFacts DEF Target
  <2> HIDE DEF t, c
  <2>3. CASE t = f
    BY <2>1, <2>2, <2>3 DEF Safe, WholeIn, Put
  <2>4. CASE t # f
    <3>1. Comes(write, f) => Comes(Tail(write), f)
      BY <2>2, <2>4, ComesTail
    <3>3. WholeIn(disk, f) => WholeIn(disk', f)
      BY <2>1, <2>4 DEF WholeIn, Put
    <3> QED BY <3>1, <3>3, <2>1 DEF Safe
  <2> QED BY <2>3, <2>4
<1>3. CASE CopyArtifact \/ RenameArtifact
  <2>1. disk' = disk /\ write' = Tail(write) /\ (At("copy") \/ At("rename"))
    BY <1>3 DEF CopyArtifact, RenameArtifact, Done
  <2>2. IsSeq(write) /\ write # <<>> /\ Head(write).op \in {"copy", "rename"}
    BY <2>1, OperationFacts DEF At
  <2>3. Comes(write, f) => Comes(Tail(write), f)
    BY <2>2, ComesTail
  <2> QED BY <2>1, <2>3 DEF Safe
<1>4. CASE Unlink /\ Target # f
  <2> DEFINE t == Target
  <2>1. disk' = Removed(disk, t) /\ At("unlink")
    BY <1>4 DEF Unlink
  <2>2. \A j \in DOMAIN write : write[j].op = "unlink"
    BY <2>1, OperationFacts
  <2>3. WholeIn(disk, f)
    BY <2>2 DEF Safe, Comes
  <2> HIDE DEF t
  <2>4. t # f
    BY <1>4 DEF t
  <2>5. WholeIn(disk', f)
    BY <2>1, <2>3, <2>4 DEF WholeIn, Removed, Restrict
  <2> QED BY <2>5 DEF Safe
<1> QED BY <1>1, <1>2, <1>3, <1>4

\* What is on disk behind an operation was there, or has just been written.
LEMMA DiskOperation ==
  ASSUME RunInv, NEW f, f \in DOMAIN disk',
         OpenFile \/ PutFile \/ Unlink \/ CopyArtifact \/ RenameArtifact
  PROVE  f \in DOMAIN disk \/ Safe(f)'
<1>1. CASE OpenFile
  <2>1. disk' = Put(disk, Target, Open) /\ write' = Tail(write) /\ At("open")
    BY <1>1 DEF OpenFile, Done
  <2>2. /\ IsSeq(write) /\ write # <<>>
        /\ 2 \in DOMAIN write /\ write[2].op = "put" /\ write[2].file = Target
    BY <2>1, OperationFacts
  <2>3. 1 \in DOMAIN Tail(write) /\ Tail(write)[1] = write[2]
    <3>1. 2 - 1 \in DOMAIN Tail(write) /\ Tail(write)[2 - 1] = write[2]
      BY <2>2, TailFacts
    <3> QED BY <3>1
  <2>4. Comes(Tail(write), Target)
    BY <2>2, <2>3 DEF Comes
  <2>5. f \in DOMAIN disk \/ f = Target
    BY <2>1 DEF Put
  <2> QED BY <2>1, <2>4, <2>5 DEF Safe
<1>2. CASE PutFile
  <2> DEFINE t == Target
             c == Head(write).content
  <2>1. disk' = Put(disk, t, c) /\ At("put")
    BY <1>2 DEF PutFile
  <2>2. c.whole
    BY <2>1, OperationFacts
  <2> HIDE DEF t, c
  <2> QED BY <2>1, <2>2 DEF Safe, WholeIn, Put
<1>3. CASE CopyArtifact \/ RenameArtifact \/ Unlink
  BY <1>3, RemovedFacts DEF CopyArtifact, RenameArtifact, Unlink
<1> QED BY <1>1, <1>2, <1>3

\* An input is removed only behind the cleanup of its split.
LEMMA UnlinkFacts ==
  ASSUME RunInv, Unlink
  PROVE  /\ Target \notin DOMAIN disk'
         /\ FileKind(Target) \in {"input", "input_manifest"}
         /\ \A s : Stage("cleanup", s) \in ToSet(todo) => Target # Input(s)
<1>1. disk' = Removed(disk, Target) /\ At("unlink")
  BY DEF Unlink
<1>2. PICK s \in SplitSet : Target \in {Input(s), InputManifest(s)} /\ Stage("cleanup", s) \notin ToSet(todo)
  BY <1>1, OperationFacts
<1>3. Target \notin DOMAIN disk'
  <2> DEFINE t == Target
  <2>1. disk' = Removed(disk, t)
    BY <1>1
  <2> HIDE DEF t
  <2>2. t \notin DOMAIN disk'
    BY <2>1 DEF Removed, Restrict
  <2> QED BY <2>2 DEF t
<1> QED BY <1>2, <1>3, FileKinds, FileOwners

\* File operations finish what the stages have begun.
LEMMA ProgressOperation ==
  ASSUME RunInv, ProgressInv,
         OpenFile \/ PutFile \/ Unlink \/ CopyArtifact \/ RenameArtifact
  PROVE  ProgressInv'
<1>1. UNCHANGED <<job, todo, phase>>
  BY DEF OpenFile, PutFile, Unlink, CopyArtifact, RenameArtifact, Done
<1>2. \A f : Safe(f) => Safe(f)' \/ (Unlink /\ Target = f)
  BY SafeOperation
<1>3. \A f : f \in DOMAIN disk' => f \in DOMAIN disk \/ Safe(f)'
  BY DiskOperation
<1>4. Unlink => /\ Target \notin DOMAIN disk'
                /\ FileKind(Target) \in {"input", "input_manifest"}
                /\ \A s : Stage("cleanup", s) \in ToSet(todo) => Target # Input(s)
  BY UnlinkFacts
<1>5. \A f \in Inputs : f \in DOMAIN disk' /\ (f \in DOMAIN disk => Safe(f)) => Safe(f)'
  BY <1>2, <1>3, <1>4
<1>6. \A s : Stage("cleanup", s) \in ToSet(todo) /\ Safe(Input(s)) => Safe(Input(s))'
  BY <1>2, <1>4
<1>7. \A f : FileKind(f) \in {"dataset", "block_entry"} /\ Safe(f) => Safe(f)'
  BY <1>2, <1>4
<1> QED BY <1>1, <1>5, <1>6, <1>7, ProgressKept

\* Every step of a launch keeps what the stages behind it have left.
LEMMA ProgressStep ==
  ASSUME RunInv, PairsInv, ProgressInv, [Next]_vars, Kill => UNCHANGED disk
  PROVE  ProgressInv'
<1>1. CASE Launch
  <2>1. /\ phase = "idle" /\ UNCHANGED <<job, write, fit>>
        /\ phase' # "running" \/ (phase' = "running" /\ todo' = Stages)
    BY <1>1 DEF Launch, Launched
  <2>2. write' = <<>> /\ fit' = NoFit
    BY <2>1 DEF RunInv, TodoInv
  <2>3. \A x : ~Passed(x)'
    <3>1. CASE phase' = "running" /\ todo' = Stages
      BY <3>1, <2>1, <2>2, TodoBegins DEF RunInv
    <3>2. CASE phase' # "running"
      BY <3>2 DEF Passed, Working
    <3> QED BY <2>1, <3>1, <3>2
  <2> QED BY <2>3, ProgressNone
<1>2. CASE Raise \/ Complete \/ Kill
  <2>1. phase' # "running"
    BY <1>2 DEF Raise, Complete, Kill
  <2>2. \A x : ~Passed(x)'
    BY <2>1 DEF Passed, Working
  <2> QED BY <2>2, ProgressNone
<1>3. CASE ClearWorkspace
  <2>1. At("clear") /\ UNCHANGED <<job, todo>>
    BY <1>3 DEF ClearWorkspace, Done
  <2>2. todo' = <<>> /\ job'.tmp
    BY <2>1, OperationFacts
  <2>3. \A x : ~Passed(x)'
    BY <2>2 DEF Passed, Working
  <2> QED BY <2>3, ProgressNone
<1>4. CASE Skip
  BY <1>4, ProgressSkip
<1>5. CASE Begin
  BY <1>5, ProgressBegin
<1>6. CASE BeginTraining \/ Epoch \/ SaveBest
  <2>1. TrainerOnly(disk, disk') /\ UNCHANGED <<job, phase, todo, write>>
    BY <1>6, TrainerFiles
  <2>2. \A f : f \notin {Best, Metrics} =>
          (f \in DOMAIN disk' <=> f \in DOMAIN disk) /\ (Safe(f)' <=> Safe(f))
    BY <2>1 DEF TrainerOnly, Safe, WholeIn
  <2>3. \A f \in Inputs : f \in DOMAIN disk' /\ (f \in DOMAIN disk => Safe(f)) => Safe(f)'
    <3>1. \A f \in Inputs : f \notin {Best, Metrics}
      BY FileKinds DEF Inputs
    <3> QED BY <2>2, <3>1
  <2>4. \A s : Stage("cleanup", s) \in ToSet(todo) /\ Safe(Input(s)) => Safe(Input(s))'
    BY <2>2, FileKinds
  <2>5. \A f : FileKind(f) \in {"dataset", "block_entry"} /\ Safe(f) => Safe(f)'
    BY <2>2, FileKinds
  <2> QED BY <2>1, <2>3, <2>4, <2>5, ProgressKept
<1>7. CASE EndTraining
  <2>1. /\ phase = "running" /\ todo # <<>> /\ write = <<>> /\ Head(todo) = Stage("train", "all")
    BY <1>7, TrainingAlone
  <2>2. UNCHANGED <<job, phase, disk>> /\ todo' = Tail(todo) /\ fit' = NoFit
    BY <1>7 DEF EndTraining
  <2>3. ToSet(todo') \subseteq ToSet(todo) /\ \A x : Passed(x)' => Passed(x) \/ x = Head(todo)
    BY <2>1, <2>2, TodoNext DEF RunInv
  <2>4. \A s : Head(todo) # Stage("prepare", s) /\ Head(todo) # Stage("collect", s)
    BY <2>1, StageFacts
  <2> QED BY <2>1, <2>2, <2>3, <2>4, ProgressNext
<1>8. CASE OpenFile \/ PutFile \/ Unlink \/ CopyArtifact \/ RenameArtifact
  BY <1>8, ProgressOperation
<1>9. CASE UNCHANGED vars
  <2>1. UNCHANGED <<job, phase, todo, disk, write>>
    BY <1>9 DEF vars
  <2>2. \A f : Safe(f)' <=> Safe(f)
    BY <2>1 DEF Safe
  <2> QED BY <2>1, <2>2, ProgressKept
<1> QED BY <1>1, <1>2, <1>3, <1>4, <1>5, <1>6, <1>7, <1>8, <1>9 DEF Next, Step

------------------------------------------------------------------------------
(* The training run and its results, step by step.                          *)

\* The checkpoint and the metrics are as they were.
Agree(d, e) == \A f \in {Best, Metrics} : f \in DOMAIN d => f \in DOMAIN e /\ e[f] = d[f]

\* A directory with the same checkpoint and metrics is of the same run.
LEMMA ConsistentKept ==
  ASSUME NEW kind, NEW d, NEW e, ConsistentOf(kind, d), Agree(d, e)
  PROVE  ConsistentOf(kind, e) /\ e[Best] = d[Best]
<1>1. /\ Best \in DOMAIN d /\ Metrics \in DOMAIN d
  BY DEF ConsistentOf
<1>2. Best \in DOMAIN e /\ e[Best] = d[Best] /\ Metrics \in DOMAIN e /\ e[Metrics] = d[Metrics]
  BY <1>1 DEF Agree
<1> QED BY <1>2 DEF ConsistentOf

\* No result is of the trainer's other files or of a pair.
LEMMA ResultFacts ==
  /\ \A f \in Results : FileKind(f) \in {"summary_json", "evaluation"}
  /\ \A f \in Results : f \notin {Best, Metrics}
  /\ Summary \in Results
<1>1. \A f \in Results : FileKind(f) \in {"summary_json", "evaluation"}
  BY FileKinds DEF Results
<1> QED BY <1>1, FileKinds DEF Results

\* A step that writes no result and keeps the files there are.
LEMMA ResultsKept ==
  ASSUME ResultsInv, UNCHANGED job, UNCHANGED disk,
         \A i \in DOMAIN write' : write'[i].op = "put" => write'[i].file \notin Results,
         Passed(Stage("train", "all"))' => Consistent(disk) /\ Summary \in DOMAIN disk
  PROVE  ResultsInv'
BY DEF ResultsInv, Consistent

\* No result, and no training that is done.
LEMMA ResultsNone ==
  ASSUME \A f \in Results : f \notin DOMAIN disk', write' = <<>>, ~Passed(Stage("train", "all"))'
  PROVE  ResultsInv'
BY NothingFacts DEF ResultsInv

\* Behind the training of a launch that writes nothing, the run is complete.
LEMMA TrainedFacts ==
  ASSUME ResultsInv, write = <<>>, Passed(Stage("train", "all"))
  PROVE  Consistent(disk) /\ Summary \in DOMAIN disk
BY NothingFacts DEF ResultsInv, Comes

\* Training begins where there are no results.
LEMMA TrainsAnew ==
  ASSUME ResultsInv, BeginTraining
  PROVE  \A f \in Results : f \notin DOMAIN disk
<1>1. Inspect(Head(todo)) = "run" /\ Head(todo).name = "train"
  BY DEF BeginTraining
<1>2. ~TrainingComplete
  BY <1>1 DEF Inspect
<1>3. ~(Summary \in DOMAIN disk /\ Best \in DOMAIN disk)
  BY <1>2 DEF TrainingComplete, Exists
<1> QED BY <1>3 DEF ResultsInv, Consistent, ConsistentOf

\* An evaluation that begins is of the checkpoint it loads.
LEMMA ResultsBegin ==
  ASSUME RunInv, ResultsInv, Begin
  PROVE  ResultsInv'
<1> DEFINE h == Head(todo)
           s == Head(todo).split
           t == Stage("train", "all")
<1>1. /\ phase = "running" /\ todo # <<>> /\ todo' = Tail(todo) /\ write = <<>> /\ write' = Writes(h)
      /\ fit' = NoFit /\ UNCHANGED <<job, phase, disk>> /\ h.name # "train"
  BY DEF Begin, AtStage
<1>2. /\ job.kind \in Kinds
      /\ h.name = "evaluate" => h = Stage("evaluate", s) /\ s \in SplitSet
      /\ h.name \in {"configure", "manifest", "export", "clear",
                     "prepare", "collect", "cleanup", "evaluate", "qa", "replay"}
  BY <1>1, HeadFacts DEF RunInv
<1>3. Passed(t)' => Passed(t)
  BY <1>1, TodoNext, StageFacts DEF RunInv
<1>4. Passed(t) => Consistent(disk) /\ Summary \in DOMAIN disk
  BY <1>1, TrainedFacts
<1>5. Passed(t)' => Consistent(disk) /\ Summary \in DOMAIN disk
  BY <1>3, <1>4
<1>6. ASSUME \A i \in DOMAIN write' : write'[i].op = "put" => write'[i].file \notin Results
      PROVE  ResultsInv'
  BY <1>1, <1>5, <1>6, ResultsKept
<1>7. CASE h.name \in {"configure", "evaluate", "qa", "replay", "manifest"}
  <2> DEFINE w == Writes(h)
  <2>1. PICK P : /\ Writing(w, P)
                 /\ \A p \in P : /\ FileKind(p.file) \in OtherKinds
                                 /\ FileKind(p.file) = "evaluation" =>
                                      h.name = "evaluate" /\ p.content.of = disk[Best].of /\ job.kind # "evaluation"
    BY <1>2, <1>7, AsideWrites
  <2>2. h.name = "evaluate" /\ job.kind # "evaluation" => Passed(t)
    BY <1>1, <1>2, OrderFacts DEF RunInv
  <2>3. write' = w
    BY <1>1
  <2> HIDE DEF w, h, t
  <2>4. ASSUME NEW i \in DOMAIN w, w[i].op = "put", w[i].file \in Results
        PROVE  Consistent(disk) /\ w[i].content.of = disk[Best].of /\ Summary \in DOMAIN disk
    <3>1. PICK p \in P : w[i].file = p.file /\ w[i].content = p.content
      BY <2>1, <2>4 DEF Writing
    <3>2. FileKind(p.file) \in {"summary_json", "evaluation"}
      BY <3>1, <2>4, ResultFacts
    <3>3. FileKind(p.file) = "evaluation"
      BY <3>2, <2>1 DEF OtherKinds
    <3> QED BY <3>1, <3>3, <2>1, <2>2, <1>4
  <2> QED BY <2>3, <2>4, <1>1, <1>5 DEF ResultsInv, Consistent, t
<1>8. CASE h.name = "prepare"
  <2> DEFINE P == {Of(Input(s), Plain)} \cup {Of(InputManifest(s), Plain)}
             w == InPlace(Input(s), Plain) \o InPlace(InputManifest(s), Plain)
  <2>1. write' = w
    BY <1>1, <1>8, WritesOf
  <2>2. Writing(w, P)
    BY PrepareWrites
  <2>3. \A p \in P : FileKind(p.file) \in {"input", "input_manifest"}
    BY OfFacts, FileKinds
  <2> HIDE DEF w, P
  <2>4. \A i \in DOMAIN w : FileKind(w[i].file) \in {"input", "input_manifest"}
    BY <2>2, <2>3, WritingFiles
  <2> QED BY <2>1, <2>4, <1>6, ResultFacts
<1>9. CASE h.name = "collect"
  <2> DEFINE w == CollectWrites(s)
  <2>1. write' = w
    BY <1>1, <1>9, WritesOf
  <2>2. PICK P :
            /\ Writing(w, P)
            /\ \A p \in P : \/ p.file = Dataset(s) \/ p.file = Collection(s)
                            \/ /\ job.kind = "index"
                               /\ \E b \in Missing(s) : p.file = Block(s, b) \/ p.file = Entry(s, b)
    BY CollectFacts
  <2>3. \A p \in P : FileKind(p.file) \in {"dataset", "collection_manifest", "block", "block_entry"}
    BY <2>2, FileKinds
  <2> HIDE DEF w
  <2>4. \A i \in DOMAIN w : FileKind(w[i].file) \in {"dataset", "collection_manifest", "block", "block_entry"}
    BY <2>2, <2>3, WritingFiles
  <2> QED BY <2>1, <2>4, <1>6, ResultFacts
<1>10. CASE h.name = "cleanup"
  <2>1. write' = CleanupWrites(s)
    BY <1>1, <1>10, WritesOf
  <2>2. \A i \in DOMAIN write' : write'[i].op = "unlink"
    BY <2>1, CleanupFacts
  <2> QED BY <2>2, <1>6
<1>11. CASE h.name = "export"
  <2>1. write' = ExportWrites
    BY <1>1, <1>11, WritesOf
  <2>2. \A i \in DOMAIN write' : write'[i].op \in {"copy", "rename"}
    BY <2>1, <1>2, ExportFacts
  <2> QED BY <2>2, <1>6
<1>12. CASE h.name = "clear"
  <2>1. write' = <<[op |-> "clear", file |-> <<>>]>>
    BY <1>1, <1>12, WritesOf
  <2>2. \A i \in DOMAIN write' : write'[i].op = "clear"
    <3> DEFINE c == [op |-> "clear", file |-> <<>>]
    <3>1. c.op = "clear" /\ write' = <<c>>
      BY <2>1
    <3> HIDE DEF c
    <3> QED BY <3>1
  <2> QED BY <2>2, <1>6
<1> QED BY <1>2, <1>7, <1>8, <1>9, <1>10, <1>11, <1>12

\* The trainer that closes has saved the best of its epochs.
LEMMA ClosesConsistent ==
  ASSUME FitInv, fit.at = "close"
  PROVE  Consistent(disk) /\ disk[Best].of = LaunchNumber
<1>1. fit # NoFit
  BY FitFacts
<1>2. fit.best # Worst /\ fit.at # "save"
  BY <1>1 DEF FitInv
<1>3. /\ Metrics \in DOMAIN disk /\ WholeIn(disk, Best)
      /\ disk[Best].of = LaunchNumber /\ disk[Best].loss = fit.best
      /\ [of |-> LaunchNumber, epoch |-> disk[Best].epoch, loss |-> fit.best] \in ToSet(disk[Metrics].rows)
      /\ job.kind # "region" => \A row \in ToSet(disk[Metrics].rows) : row.of = LaunchNumber
      /\ \A row \in ToSet(disk[Metrics].rows) : row.of = LaunchNumber => fit.best <= row.loss
  BY <1>1, <1>2 DEF FitInv, MetricRows
<1> QED BY <1>3 DEF Consistent, ConsistentOf, WholeIn

\* The trainer ends with a summary of its own run.
LEMMA ResultsCloses ==
  ASSUME RunInv, ResultsInv, FitInv, EndTraining
  PROVE  ResultsInv'
<1> DEFINE t == Stage("train", "all")
           run == [whole |-> TRUE, of |-> LaunchNumber]
           P == {Of(Final, Plain)} \cup {Of(Summary, run)}
           w == TrainerCloses
<1>1. fit.at = "close" /\ write' = w /\ UNCHANGED <<job, disk>>
  BY DEF EndTraining
<1>2. Consistent(disk) /\ disk[Best].of = LaunchNumber
  BY <1>1, ClosesConsistent
<1>3. Writing(w, P)
  BY ClosesFacts
<1>4. run.of = LaunchNumber
  OBVIOUS
<1>5. Of(Summary, run) \in P /\ Of(Summary, run).file = Summary
  BY OfFacts
<1>6. \A p \in P : p.file \in Results => p.file = Summary /\ p.content.of = LaunchNumber
  BY <1>4, OfFacts, ResultFacts, FileKinds
<1> HIDE DEF P, w, run, t
<1>7. Comes(w, Summary)
  BY <1>3, <1>5 DEF Writing
<1>8. \A i \in DOMAIN w : w[i].op = "put" /\ w[i].file \in Results =>
         w[i].file = Summary /\ w[i].content.of = LaunchNumber
  BY <1>3, <1>6 DEF Writing
<1> QED BY <1>1, <1>2, <1>7, <1>8 DEF ResultsInv, Consistent

\* Whatever the operation, the results stand behind their run.
LEMMA ResultsWrites ==
  ASSUME RunInv, ResultsInv, OpenFile \/ PutFile
  PROVE  ResultsInv'
<1> DEFINE t == Target
           v == Tail(write)
           c == IF Head(write).op = "open" THEN Open ELSE Head(write).content
           a == Stage("train", "all")
<1>1. /\ disk' = Put(disk, t, c) /\ write' = v /\ UNCHANGED <<job, todo, phase>>
      /\ Head(write).op \in {"open", "put"} /\ At(Head(write).op)
  BY DEF OpenFile, PutFile, At, Done
<1>2. /\ IsSeq(write) /\ write # <<>> /\ write[1] = Head(write) /\ 1 \in DOMAIN write
      /\ Head(write).op = "open" => 2 \in DOMAIN write /\ write[2].op = "put" /\ write[2].file = t
      /\ t \notin {Best, Metrics}
  BY <1>1, OperationFacts
<1>3. /\ \A i \in DOMAIN v : i + 1 \in DOMAIN write /\ v[i] = write[i + 1]
      /\ \A f : Comes(write, f) => Comes(v, f) \/ (Head(write).op = "put" /\ f = t)
  BY <1>2, RestFacts, ComesTail DEF Target
<1>4. Head(write).op = "open" => ~c.whole
  BY EmptyFacts
<1>5. Head(write).op = "put" => c = Head(write).content
  OBVIOUS
<1>6. Passed(a)' <=> Passed(a)
  BY <1>1, Kept DEF Passed, Working
<1>7. Head(write).file = t
  BY DEF Target
<1> HIDE DEF t, v, c, a
<1>8. /\ DOMAIN disk' = DOMAIN disk \cup {t} /\ disk'[t] = c
      /\ \A f \in DOMAIN disk : f # t => disk'[f] = disk[f]
  BY <1>1 DEF Put
<1>9. Agree(disk, disk')
  BY <1>8, <1>2 DEF Agree
<1>10. Consistent(disk) => Consistent(disk') /\ Consistent(disk)' /\ disk'[Best] = disk[Best]
  BY <1>1, <1>9, ConsistentKept DEF Consistent
<1>11. t \in Results =>
         /\ Consistent(disk) /\ (t # Summary => Summary \in DOMAIN disk)
         /\ c.whole => c.of = disk[Best].of
  <2>1. CASE Head(write).op = "put"
    BY <2>1, <1>2, <1>5, <1>7 DEF ResultsInv
  <2>2. CASE Head(write).op = "open"
    BY <2>2, <1>2, <1>4 DEF ResultsInv
  <2> QED BY <2>1, <2>2, <1>1
<1>12. \A f \in Results : f \in DOMAIN disk' =>
         /\ Consistent(disk)' /\ Summary \in DOMAIN disk'
         /\ disk'[f].whole => disk'[f].of = disk'[Best].of
  <2> TAKE f \in Results
  <2> HAVE f \in DOMAIN disk'
  <2>1. CASE f = t
    BY <2>1, <1>8, <1>10, <1>11
  <2>2. CASE f # t
    <3>1. f \in DOMAIN disk
      BY <2>2, <1>8
    <3>2. Consistent(disk) /\ Summary \in DOMAIN disk /\ (disk[f].whole => disk[f].of = disk[Best].of)
      BY <3>1 DEF ResultsInv
    <3> QED BY <3>1, <3>2, <2>2, <1>8, <1>10
  <2> QED BY <2>1, <2>2
<1>13. \A i \in DOMAIN v : v[i].op = "put" /\ v[i].file \in Results =>
         /\ Consistent(disk)' /\ v[i].content.of = disk'[Best].of
         /\ v[i].file # Summary => Summary \in DOMAIN disk'
  <2> TAKE i \in DOMAIN v
  <2> HAVE v[i].op = "put" /\ v[i].file \in Results
  <2>1. i + 1 \in DOMAIN write /\ v[i] = write[i + 1]
    BY <1>3
  <2>2. /\ Consistent(disk) /\ v[i].content.of = disk[Best].of
        /\ v[i].file # Summary => Summary \in DOMAIN disk
    BY <2>1 DEF ResultsInv
  <2> QED BY <2>2, <1>8, <1>10
<1>14. Passed(a)' => Consistent(disk)' /\ (Summary \in DOMAIN disk' \/ Comes(v, Summary))
  <2> HAVE Passed(a)'
  <2>1. Consistent(disk) /\ (Summary \in DOMAIN disk \/ Comes(write, Summary))
    BY <1>6 DEF ResultsInv, a
  <2> QED BY <2>1, <1>3, <1>8, <1>10
<1> QED BY <1>1, <1>12, <1>13, <1>14 DEF ResultsInv, a

\* Operations that write no file of the workspace.
LEMMA ResultsMoves ==
  ASSUME RunInv, ResultsInv, Unlink \/ CopyArtifact \/ RenameArtifact
  PROVE  ResultsInv'
<1> DEFINE v == Tail(write)
           a == Stage("train", "all")
<1>1. /\ write' = v /\ UNCHANGED <<job, todo, phase>> /\ At(Head(write).op)
      /\ Head(write).op \in {"unlink", "copy", "rename"}
  BY DEF Unlink, CopyArtifact, RenameArtifact, At, Done
<1>2. IsSeq(write) /\ write # <<>>
  BY <1>1, OperationFacts
<1>3. /\ \A i \in DOMAIN v : i + 1 \in DOMAIN write /\ v[i] = write[i + 1]
      /\ \A f : Comes(write, f) => Comes(v, f)
  BY <1>1, <1>2, RestFacts, ComesTail
<1>4. /\ \A f \in DOMAIN disk' : f \in DOMAIN disk /\ disk'[f] = disk[f]
      /\ \A f \in DOMAIN disk : FileKind(f) \notin {"input", "input_manifest"} => f \in DOMAIN disk'
  <2>1. CASE CopyArtifact \/ RenameArtifact
    BY <2>1 DEF CopyArtifact, RenameArtifact
  <2>2. CASE Unlink
    <3> DEFINE t == Target
    <3>1. disk' = Removed(disk, t) /\ FileKind(t) \in {"input", "input_manifest"}
      BY <2>2, UnlinkFacts DEF Unlink
    <3> HIDE DEF t
    <3> QED BY <3>1 DEF Removed, Restrict
  <2> QED BY <2>1, <2>2
<1>5. Passed(a)' <=> Passed(a)
  BY <1>1, Kept DEF Passed, Working
<1>6. Agree(disk, disk')
  BY <1>4, FileKinds DEF Agree
<1>7. Consistent(disk) => Consistent(disk)' /\ disk'[Best] = disk[Best]
  BY <1>1, <1>6, ConsistentKept DEF Consistent
<1>8. Summary \in DOMAIN disk => Summary \in DOMAIN disk'
  BY <1>4, FileKinds
<1> HIDE DEF v, a
<1>9. \A f \in Results : f \in DOMAIN disk' =>
         /\ Consistent(disk)' /\ Summary \in DOMAIN disk'
         /\ disk'[f].whole => disk'[f].of = disk'[Best].of
  BY <1>4, <1>7, <1>8 DEF ResultsInv
<1>10. \A i \in DOMAIN v : v[i].op = "put" /\ v[i].file \in Results =>
         /\ Consistent(disk)' /\ v[i].content.of = disk'[Best].of
         /\ v[i].file # Summary => Summary \in DOMAIN disk'
  BY <1>3, <1>7, <1>8 DEF ResultsInv
<1>11. Passed(a)' => Consistent(disk)' /\ (Summary \in DOMAIN disk' \/ Comes(v, Summary))
  BY <1>3, <1>5, <1>7, <1>8 DEF ResultsInv, a
<1> QED BY <1>1, <1>9, <1>10, <1>11 DEF ResultsInv, a

\* Every step of a launch keeps results and checkpoint of one run.
LEMMA ResultsStep ==
  ASSUME RunInv, ResultsInv, FitInv, [Next]_vars, Kill => UNCHANGED disk
  PROVE  ResultsInv'
<1> DEFINE a == Stage("train", "all")
<1>1. CASE Launch
  <2>1. /\ phase = "idle" /\ UNCHANGED <<job, write, fit>> /\ (UNCHANGED disk \/ disk' = Empty)
        /\ phase' # "running" \/ (phase' = "running" /\ todo' = Stages)
    BY <1>1 DEF Launch, Launched
  <2>2. write' = <<>> /\ fit' = NoFit
    BY <2>1 DEF RunInv, TodoInv
  <2>3. ~Passed(a)'
    <3>1. CASE phase' = "running" /\ todo' = Stages
      BY <3>1, <2>1, <2>2, TodoBegins DEF RunInv
    <3>2. CASE phase' # "running"
      BY <3>2 DEF Passed, Working
    <3> QED BY <2>1, <3>1, <3>2
  <2>4. CASE UNCHANGED disk
    BY <2>1, <2>2, <2>3, <2>4, NothingFacts, ResultsKept
  <2>5. CASE disk' = Empty
    BY <2>2, <2>3, <2>5, EmptyFacts, ResultsNone
  <2> QED BY <2>1, <2>4, <2>5
<1>2. CASE Raise \/ Complete \/ Kill
  <2>1. phase' # "running" /\ UNCHANGED <<job, disk>> /\ write' = <<>>
    BY <1>2 DEF Raise, Complete, Kill, AtStage
  <2>2. ~Passed(a)'
    BY <2>1 DEF Passed, Working
  <2> QED BY <2>1, <2>2, NothingFacts, ResultsKept
<1>3. CASE ClearWorkspace
  <2>1. At("clear") /\ UNCHANGED <<job, todo>> /\ disk' = Empty /\ write' = Tail(write)
    BY <1>3 DEF ClearWorkspace, Done
  <2>2. todo' = <<>> /\ job'.tmp /\ write' = <<>>
    BY <2>1, OperationFacts
  <2>3. ~Passed(a)'
    BY <2>2 DEF Passed, Working
  <2> QED BY <2>1, <2>2, <2>3, EmptyFacts, ResultsNone
<1>4. CASE Skip
  <2>1. /\ phase = "running" /\ todo # <<>> /\ todo' = Tail(todo) /\ write = <<>> /\ write' = <<>>
        /\ fit' = NoFit /\ UNCHANGED <<job, phase, disk>> /\ Inspect(Head(todo)) = "skip"
    BY <1>4 DEF Skip, AtStage
  <2>2. Passed(a)' => Passed(a) \/ a = Head(todo)
    BY <2>1, TodoNext DEF RunInv
  <2>3. ASSUME a = Head(todo) PROVE Consistent(disk) /\ Summary \in DOMAIN disk
    <3>1. Inspect(Head(todo)) = IF TrainingComplete THEN "skip" ELSE "run"
      BY <2>3, StageFacts DEF Inspect
    <3>2. Summary \in DOMAIN disk
      BY <3>1, <2>1 DEF TrainingComplete, Exists
    <3> QED BY <3>2, ResultFacts DEF ResultsInv
  <2>4. Passed(a)' => Consistent(disk) /\ Summary \in DOMAIN disk
    BY <2>1, <2>2, <2>3, TrainedFacts
  <2> QED BY <2>1, <2>4, NothingFacts, ResultsKept
<1>5. CASE Begin
  BY <1>5, ResultsBegin
<1>6. CASE BeginTraining \/ Epoch \/ SaveBest
  <2>1. TrainerOnly(disk, disk') /\ UNCHANGED <<job, phase, todo, write>>
    BY <1>6, TrainerFiles
  <2>2. write = <<>> /\ todo # <<>> /\ phase = "running" /\ Head(todo) = a
    BY <1>6, TrainingAlone
  <2>3. \A f \in Results : f \notin DOMAIN disk
    <3>1. CASE BeginTraining
      BY <3>1, TrainsAnew
    <3>2. CASE Epoch \/ SaveBest
      <4>1. fit.at \in {"epoch", "save"}
        BY <3>2, Zenon DEF Epoch, SaveBest
      <4> QED BY <4>1, FitFacts DEF FitInv
    <3> QED BY <1>6, <3>1, <3>2
  <2>4. \A f \in Results : f \notin DOMAIN disk'
    BY <2>1, <2>3, ResultFacts DEF TrainerOnly
  <2>5. ~Passed(a)'
    <3>1. a \in ToSet(todo)
      BY <2>2, JobFacts, NextStage DEF RunInv
    <3> QED BY <2>1, <3>1 DEF Passed
  <2> QED BY <2>1, <2>2, <2>4, <2>5, ResultsNone
<1>7. CASE EndTraining
  BY <1>7, ResultsCloses
<1>8. CASE OpenFile \/ PutFile
  BY <1>8, ResultsWrites
<1>9. CASE Unlink \/ CopyArtifact \/ RenameArtifact
  BY <1>9, ResultsMoves
<1>10. CASE UNCHANGED vars
  <2>1. UNCHANGED <<job, phase, todo, disk, write>>
    BY <1>10 DEF vars
  <2>2. Passed(a)' <=> Passed(a)
    BY <2>1, Kept DEF Passed, Working
  <2> QED BY <2>1, <2>2 DEF ResultsInv, Consistent
<1> QED BY <1>1, <1>2, <1>3, <1>4, <1>5, <1>6, <1>7, <1>8, <1>9, <1>10 DEF Next, Step

------------------------------------------------------------------------------
(* Rows, losses and epochs.                                                 *)

\* A sequence with one element more.
LEMMA AppendFacts ==
  ASSUME NEW w, IsSeq(w), NEW x
  PROVE  IsSeq(Append(w, x)) /\ ToSet(Append(w, x)) = ToSet(w) \cup {x}
<1>1. PICK S : w \in Seq(S)
  BY DEF IsSeq
<1> DEFINE T == S \cup {x}
           v == Append(w, x)
           n == Len(w)
<1>2. w \in Seq(T)
  BY <1>1
<1>3. v \in Seq(T) /\ n \in Nat /\ DOMAIN w = 1..n /\ DOMAIN v = 1..(n + 1)
  BY <1>1, <1>2
<1>4. v[n + 1] = x /\ \A i \in 1..n : v[i] = w[i]
  BY <1>1, <1>2
<1> HIDE DEF v, n, T
<1>5. ToSet(v) \subseteq ToSet(w) \cup {x}
  <2>1. ASSUME NEW i \in DOMAIN v PROVE v[i] \in ToSet(w) \cup {x}
    <3>1. i \in 1..n \/ i = n + 1
      BY <1>3
    <3> QED BY <3>1, <1>3, <1>4 DEF ToSet
  <2> QED BY <2>1 DEF ToSet
<1>6. ToSet(w) \cup {x} \subseteq ToSet(v)
  <2>1. x \in ToSet(v)
    <3>1. n + 1 \in DOMAIN v
      BY <1>3
    <3> QED BY <3>1, <1>4 DEF ToSet
  <2>2. ASSUME NEW i \in DOMAIN w PROVE w[i] \in ToSet(v)
    <3>1. i \in 1..n /\ i \in DOMAIN v
      BY <1>3
    <3> QED BY <3>1, <1>4 DEF ToSet
  <2> QED BY <2>1, <2>2 DEF ToSet
<1> QED BY <1>3, <1>5, <1>6 DEF IsSeq, v

\* Before the first epoch the best loss is worse than any.
LEMMA WorstFacts ==
  /\ \A loss \in Losses : loss \in Nat /\ loss < Worst
  /\ Worst \in Nat /\ Worst \notin Losses
<1>1. Losses \subseteq Nat /\ \E worst \in Losses : \A loss \in Losses : loss <= worst
  BY PipelinesAssumption DEF PipelinesAssumption
<1> DEFINE l == CHOOSE l \in Losses : \A m \in Losses : m <= l
<1>2. l \in Losses /\ \A m \in Losses : m <= l
  BY <1>1
<1>3. Worst = 1 + l
  BY DEF Worst
<1> HIDE DEF l
<1> QED BY <1>1, <1>2, <1>3

\* The row of an epoch.
RowOf(loss) == [of |-> LaunchNumber, epoch |-> fit.epoch, loss |-> loss]

\* An epoch adds its row, and improves on the best loss or fails to.
EpochLogs(loss) ==
  /\ Metrics \in DOMAIN disk' /\ disk'[Metrics].whole
  /\ disk'[Metrics].rows = Append(disk[Metrics].rows, RowOf(loss))

EpochImproves(loss) ==
  /\ loss < fit.best /\ Best \in DOMAIN disk'
  /\ fit' = [fit EXCEPT !.at = "save", !.best = loss]

EpochFails(loss) ==
  /\ ~(loss < fit.best) /\ fit' = AfterEpoch(fit.best, fit.stale + 1)
  /\ Best \in DOMAIN disk' => Best \in DOMAIN disk
  /\ Best \in DOMAIN disk => Best \in DOMAIN disk' /\ disk'[Best] = disk[Best]

\* What an epoch does: it logs its row and improves on the best loss, or fails to.
LEMMA EpochFacts ==
  ASSUME Epoch
  PROVE  /\ fit.at = "epoch"
         /\ UNCHANGED <<job, home, staging, phase, todo, write, kills, torn, remains>>
         /\ \E loss \in Losses : EpochLogs(loss) /\ (EpochImproves(loss) \/ EpochFails(loss))
<1>1. fit.at = "epoch" /\ UNCHANGED <<job, home, staging, phase, todo, write, kills, torn, remains>>
  BY Zenon DEF Epoch
<1> DEFINE Log(loss) == [whole |-> TRUE, rows |-> Append(disk[Metrics].rows, RowOf(loss))]
<1>2. PICK loss \in Losses :
         IF loss < fit.best
           THEN /\ disk' = Put(Put(disk, Metrics, Log(loss)), Best, Open)
                /\ fit' = [fit EXCEPT !.at = "save", !.best = loss]
           ELSE /\ disk' = Put(disk, Metrics, Log(loss))
                /\ fit' = AfterEpoch(fit.best, fit.stale + 1)
  BY Zenon DEF Epoch, RowOf
<1>3. Log(loss).whole /\ Log(loss).rows = Append(disk[Metrics].rows, RowOf(loss))
  OBVIOUS
<1> DEFINE c == Log(loss)
<1>4. c.whole /\ c.rows = Append(disk[Metrics].rows, RowOf(loss))
  BY <1>3
<1>5. Best # Metrics
  BY FileKinds
<1>6. CASE loss < fit.best
  <2> DEFINE m == Put(disk, Metrics, c)
  <2>1. disk' = Put(m, Best, Open)
    BY <1>2, <1>6, Zenon
  <2>2. fit' = [fit EXCEPT !.at = "save", !.best = loss]
    BY <1>2, <1>6, Zenon
  <2> HIDE DEF c
  <2>3. Metrics \in DOMAIN m /\ m[Metrics] = c
    BY DEF Put
  <2> HIDE DEF m
  <2>4. Metrics \in DOMAIN disk' /\ disk'[Metrics] = c /\ Best \in DOMAIN disk'
    BY <2>1, <2>3, <1>5 DEF Put
  <2>5. EpochLogs(loss)
    BY <2>4, <1>4 DEF EpochLogs
  <2>6. EpochImproves(loss)
    BY <1>6, <2>2, <2>4, Zenon DEF EpochImproves
  <2> QED BY <2>5, <2>6, <1>1
<1>7. CASE ~(loss < fit.best)
  <2>1. disk' = Put(disk, Metrics, c)
    BY <1>2, <1>7, Zenon
  <2>2. fit' = AfterEpoch(fit.best, fit.stale + 1)
    BY <1>2, <1>7, Zenon
  <2> HIDE DEF c
  <2>3. /\ Metrics \in DOMAIN disk' /\ disk'[Metrics] = c
        /\ Best \in DOMAIN disk' => Best \in DOMAIN disk
        /\ Best \in DOMAIN disk => Best \in DOMAIN disk' /\ disk'[Best] = disk[Best]
    BY <2>1, <1>5 DEF Put
  <2>4. EpochLogs(loss)
    BY <2>3, <1>4 DEF EpochLogs
  <2>5. EpochFails(loss)
    BY <1>7, <2>2, <2>3, Zenon DEF EpochFails
  <2> QED BY <2>4, <2>5, <1>1
<1> QED BY <1>6, <1>7

\* What the beginning of the training does.
LEMMA BeginTrainingFacts ==
  ASSUME BeginTraining
  PROVE  /\ fit = NoFit /\ write = <<>> /\ UNCHANGED <<job, home, staging, phase, todo, write, kills, torn, remains>>
         /\ fit' = [at |-> "epoch", epoch |-> 1, best |-> Worst, stale |-> 0]
         /\ Metrics \in DOMAIN disk' /\ disk'[Metrics].whole /\ disk'[Metrics].rows = InitialRows
<1> DEFINE c == [whole |-> TRUE, rows |-> InitialRows]
<1>1. /\ fit = NoFit /\ write = <<>> /\ UNCHANGED <<job, home, staging, phase, todo, write, kills, torn, remains>>
      /\ disk' = Put(disk, Metrics, c)
      /\ fit' = [at |-> "epoch", epoch |-> 1, best |-> Worst, stale |-> 0]
  BY DEF BeginTraining, AtStage
<1>2. c.whole /\ c.rows = InitialRows
  OBVIOUS
<1> HIDE DEF c
<1>3. Metrics \in DOMAIN disk' /\ disk'[Metrics] = c
  BY <1>1 DEF Put
<1> QED BY <1>1, <1>2, <1>3

\* What the saving of the checkpoint does.
LEMMA SaveBestFacts ==
  ASSUME SaveBest
  PROVE  /\ fit.at = "save" /\ UNCHANGED <<job, home, staging, phase, todo, write, kills, torn, remains>>
         /\ fit' = AfterEpoch(fit.best, 0)
         /\ WholeIn(disk', Best) /\ disk'[Best].of = LaunchNumber
         /\ disk'[Best].epoch = fit.epoch /\ disk'[Best].loss = fit.best
         /\ Metrics \in DOMAIN disk' => Metrics \in DOMAIN disk
         /\ Metrics \in DOMAIN disk => Metrics \in DOMAIN disk' /\ disk'[Metrics] = disk[Metrics]
<1> DEFINE c == [whole |-> TRUE, of |-> LaunchNumber, epoch |-> fit.epoch, loss |-> fit.best]
<1>1. /\ fit.at = "save" /\ UNCHANGED <<job, home, staging, phase, todo, write, kills, torn, remains>>
      /\ fit' = AfterEpoch(fit.best, 0) /\ disk' = Put(disk, Best, c)
  BY DEF SaveBest
<1>2. c.whole /\ c.of = LaunchNumber /\ c.epoch = fit.epoch /\ c.loss = fit.best
  OBVIOUS
<1> HIDE DEF c
<1>3. Best # Metrics
  BY FileKinds
<1>4. /\ Best \in DOMAIN disk' /\ disk'[Best] = c
      /\ Metrics \in DOMAIN disk' => Metrics \in DOMAIN disk
      /\ Metrics \in DOMAIN disk => Metrics \in DOMAIN disk' /\ disk'[Metrics] = disk[Metrics]
  BY <1>1, <1>3 DEF Put
<1> QED BY <1>1, <1>2, <1>4 DEF WholeIn

\* The steps that are not of the trainer leave its metrics, or an empty directory.
LEMMA OtherSteps ==
  ASSUME RunInv, [Next]_vars, Kill => UNCHANGED disk, ~(BeginTraining \/ Epoch \/ SaveBest)
  PROVE  /\ Metrics \in DOMAIN disk' => Metrics \in DOMAIN disk /\ disk'[Metrics] = disk[Metrics]
         /\ fit' = NoFit \/ UNCHANGED vars
<1>1. CASE Launch
  <2>1. phase = "idle" /\ UNCHANGED fit /\ (UNCHANGED disk \/ disk' = Empty)
    BY <1>1 DEF Launch
  <2> QED BY <2>1, EmptyFacts DEF RunInv, TodoInv
<1>2. CASE Skip \/ Raise \/ Begin \/ EndTraining \/ Complete \/ Kill
  <2>1. UNCHANGED disk /\ fit' = NoFit
    BY <1>2 DEF Skip, Raise, Begin, EndTraining, Complete, Kill, AtStage
  <2> QED BY <2>1
<1>3. CASE ClearWorkspace
  <2>1. At("clear") /\ disk' = Empty /\ UNCHANGED fit
    BY <1>3 DEF ClearWorkspace, Done
  <2> QED BY <2>1, OperationFacts, EmptyFacts
<1>4. CASE OpenFile \/ PutFile \/ Unlink
  <2> DEFINE t == Target
             c == IF Head(write).op = "open" THEN Open ELSE Head(write).content
  <2>1. /\ disk' = Put(disk, t, c) \/ disk' = Removed(disk, t)
        /\ UNCHANGED fit /\ At(Head(write).op) /\ Head(write).op \in {"open", "put", "unlink"}
    BY <1>4 DEF OpenFile, PutFile, Unlink, At, Done
  <2>2. fit = NoFit
    BY <2>1, OperationFacts
  <2>3. t # Metrics
    <3>1. CASE OpenFile \/ PutFile
      <4>1. At(Head(write).op) /\ Head(write).op \in {"open", "put"}
        BY <3>1 DEF OpenFile, PutFile, At
      <4> QED BY <4>1, OperationFacts
    <3>2. CASE Unlink
      BY <3>2, UnlinkFacts, FileKinds
    <3> QED BY <1>4, <3>1, <3>2
  <2> HIDE DEF t, c
  <2> QED BY <2>1, <2>2, <2>3 DEF Put, Removed, Restrict
<1>5. CASE CopyArtifact \/ RenameArtifact
  <2>1. UNCHANGED disk /\ UNCHANGED fit /\ (At("copy") \/ At("rename"))
    BY <1>5 DEF CopyArtifact, RenameArtifact, Done
  <2> QED BY <2>1, OperationFacts
<1>6. CASE UNCHANGED vars
  BY <1>6 DEF vars
<1> QED BY <1>1, <1>2, <1>3, <1>4, <1>5, <1>6 DEF Next, Step

------------------------------------------------------------------------------
(* What a kill leaves half written.                                         *)

\* A file that is not whole was struck by a kill, or is written next.
TornOf(d, w, struck) == \A f \in DOMAIN d : f # Best /\ ~d[f].whole => struck \/ Comes(w, f)

\* Every step of a launch keeps that only kills leave a file half written.
LEMMA TornStep ==
  ASSUME RunInv, TornInv, [Next]_vars, Kill => UNCHANGED disk
  PROVE  TornInv'
<1>0. TornOf(disk, write, torn)
  BY DEF TornInv, TornOf
<1>1. SUFFICES TornOf(disk', write', torn')
  BY DEF TornInv, TornOf
<1>2. \A f : write = <<>> => ~Comes(write, f)
  BY NothingFacts DEF Comes
<1>3. CASE Launch \/ Skip \/ Raise \/ Begin \/ EndTraining \/ Complete \/ UNCHANGED vars
  <2>1. UNCHANGED disk \/ disk' = Empty
    BY <1>3 DEF Launch, Skip, Raise, Begin, EndTraining, Complete, vars
  <2>2. UNCHANGED torn /\ (write = <<>> \/ UNCHANGED write)
    <3>1. CASE Launch \/ EndTraining
      BY <3>1, TrainingAlone DEF Launch, EndTraining
    <3>2. CASE Skip \/ Raise \/ Begin \/ Complete \/ UNCHANGED vars
      BY <3>2 DEF Skip, Raise, Begin, Complete, AtStage, vars
    <3> QED BY <1>3, <3>1, <3>2
  <2>3. CASE UNCHANGED disk
    BY <2>2, <2>3, <1>0, <1>2 DEF TornOf
  <2>4. CASE disk' = Empty
    BY <2>4, EmptyFacts DEF TornOf
  <2> QED BY <2>1, <2>3, <2>4
<1>4. CASE Kill
  <2>1. UNCHANGED disk /\ torn' = (torn \/ write # <<>>)
    BY <1>4 DEF Kill
  <2>2. \A f : Comes(write, f) => write # <<>>
    BY <1>2
  <2>3. TornOf(disk, write', torn')
    <3>0. SUFFICES ASSUME NEW g \in DOMAIN disk, g # Best, ~disk[g].whole PROVE torn' \/ Comes(write', g)
      BY DEF TornOf
    <3>1. torn \/ Comes(write, g)
      BY <3>0, <1>0 DEF TornOf
    <3> QED BY <3>1, <2>1, <2>2
  <2> QED BY <2>1, <2>3
<1>5. CASE BeginTraining \/ Epoch \/ SaveBest
  <2>1. TrainerOnly(disk, disk') /\ UNCHANGED write
    BY <1>5, TrainerFiles
  <2>2. UNCHANGED torn /\ (Metrics \in DOMAIN disk' => disk'[Metrics].whole \/ torn \/ Comes(write, Metrics))
    <3>1. CASE BeginTraining
      BY <3>1, BeginTrainingFacts
    <3>2. CASE Epoch
      BY <3>2, EpochFacts DEF EpochLogs
    <3>3. CASE SaveBest
      BY <3>3, SaveBestFacts, <1>0, FileKinds DEF TornOf
    <3> QED BY <1>5, <3>1, <3>2, <3>3
  <2> QED BY <2>1, <2>2, <1>0 DEF TornOf, TrainerOnly
<1>6. CASE OpenFile \/ PutFile \/ Unlink \/ CopyArtifact \/ RenameArtifact
  <2>1. UNCHANGED torn /\ write' = Tail(write) /\ write # <<>>
    BY <1>6 DEF OpenFile, PutFile, Unlink, CopyArtifact, RenameArtifact, Done, At
  <2>2. \A f : f \in DOMAIN disk' => f \in DOMAIN disk \/ Safe(f)'
    BY <1>6, DiskOperation
  <2>3. ASSUME NEW f \in DOMAIN disk', f # Best, ~disk'[f].whole PROVE torn \/ Comes(write', f)
    <3>1. CASE Safe(f)'
      BY <3>1, <2>3 DEF Safe, WholeIn
    <3>2. CASE ~Safe(f)'
      <4>1. f \in DOMAIN disk
        BY <2>2, <2>3, <3>2
      <4>2. torn \/ Comes(write, f) \/ disk[f].whole
        BY <4>1, <2>3, <1>0 DEF TornOf
      <4>3. ASSUME Safe(f) PROVE FALSE
        <5>1. ~(Unlink /\ Target # f) /\ ~OpenFile /\ ~PutFile /\ ~CopyArtifact /\ ~RenameArtifact
          BY <4>3, <3>2, SafeOperation
        <5>2. Unlink /\ Target = f
          BY <5>1, <1>6
        <5> QED BY <5>2, <2>3, UnlinkFacts
      <4> QED BY <4>1, <4>2, <4>3 DEF Safe, WholeIn
    <3> QED BY <3>1, <3>2
  <2> QED BY <2>1, <2>3 DEF TornOf
<1>7. CASE ClearWorkspace
  <2>1. disk' = Empty
    BY <1>7 DEF ClearWorkspace
  <2> QED BY <2>1, EmptyFacts DEF TornOf
<1> QED BY <1>3, <1>4, <1>5, <1>6, <1>7 DEF Next, Step

------------------------------------------------------------------------------
(* The rows of the training runs.                                           *)

\* The trainer goes on with, or ends, its epochs.
LEMMA AfterEpochFacts ==
  ASSUME FitInv, fit # NoFit, NEW b \in Losses \cup {Worst}, NEW k \in Nat
  PROVE  /\ AfterEpoch(b, k) \in [at : {"epoch", "save", "close"}, epoch : Nat, best : Losses \cup {Worst}, stale : Nat]
         /\ AfterEpoch(b, k).at \in {"epoch", "close"} /\ AfterEpoch(b, k).best = b
         /\ AfterEpoch(b, k) # NoFit
<1> DEFINE B == Losses \cup {Worst}
           e == fit.epoch
<1>1. e \in Nat /\ b \in B
  BY DEF FitInv
<1>2. \/ AfterEpoch(b, k) = [at |-> "close", epoch |-> e, best |-> b, stale |-> k]
      \/ AfterEpoch(b, k) = [at |-> "epoch", epoch |-> e + 1, best |-> b, stale |-> k]
  BY DEF AfterEpoch
<1> HIDE DEF B, e
<1>3. /\ AfterEpoch(b, k) \in [at : {"epoch", "save", "close"}, epoch : Nat, best : B, stale : Nat]
      /\ AfterEpoch(b, k).at \in {"epoch", "close"} /\ AfterEpoch(b, k).best = b
  BY <1>1, <1>2
<1> QED BY <1>3, FitFacts DEF B

\* The trainer adds rows of its own launch.
LEMMA RowsTrain ==
  ASSUME RunInv, RowsInv, FitInv, BeginTraining \/ Epoch \/ SaveBest
  PROVE  RowsInv' /\ fit' # NoFit
<1>1. phase' = "running" /\ UNCHANGED <<kills, todo, phase>>
  <2>1. phase = "running"
    BY TrainingAlone
  <2>2. UNCHANGED kills
    BY BeginTrainingFacts, EpochFacts, SaveBestFacts
  <2> QED BY <2>1, <2>2, TrainerFiles
<1>2. LaunchNumber' = LaunchNumber /\ kills \in Nat /\ LaunchNumber \in Nat
  BY <1>1 DEF LaunchNumber, RowsInv
<1> DEFINE L == LaunchNumber
<1>3. SUFFICES fit' # NoFit /\ (Metrics \in DOMAIN disk' => RowsOk(disk'[Metrics].rows, L))
  BY <1>1, <1>2 DEF RowsInv, MetricRows
<1> HIDE DEF L
<1>4. Metrics \in DOMAIN disk => RowsOk(disk[Metrics].rows, L)
  BY DEF RowsInv, MetricRows, L
<1>5. CASE BeginTraining
  <2>1. fit' = [at |-> "epoch", epoch |-> 1, best |-> Worst, stale |-> 0] /\ disk'[Metrics].rows = InitialRows
    BY <1>5, BeginTrainingFacts
  <2>2. fit' # NoFit
    <3>1. fit'.at = "epoch"
      BY <2>1
    <3> QED BY <3>1, FitFacts
  <2>3. RowsOk(<<>>, L)
    BY NothingFacts DEF RowsOk, ToSet
  <2> QED BY <2>1, <2>2, <2>3, <1>4 DEF InitialRows, Exists
<1>6. CASE Epoch
  <2>1. PICK loss \in Losses : EpochLogs(loss) /\ (EpochImproves(loss) \/ EpochFails(loss))
    BY <1>6, EpochFacts
  <2>2. fit.at = "epoch" /\ fit # NoFit
    BY <1>6, EpochFacts, FitFacts
  <2>3. /\ fit \in [at : {"epoch", "save", "close"}, epoch : Nat, best : Losses \cup {Worst}, stale : Nat]
        /\ Metrics \in DOMAIN disk
    BY <2>2 DEF FitInv
  <2>4. fit' # NoFit
    <3>1. CASE EpochImproves(loss)
      <4>1. fit' = [fit EXCEPT !.at = "save", !.best = loss]
        BY <3>1 DEF EpochImproves
      <4>2. fit'.at = "save"
        BY <4>1, <2>3
      <4> QED BY <4>2, FitFacts
    <3>2. CASE EpochFails(loss)
      <4>1. fit' = AfterEpoch(fit.best, fit.stale + 1) /\ fit.best \in Losses \cup {Worst} /\ fit.stale + 1 \in Nat
        BY <3>2, <2>3 DEF EpochFails
      <4> QED BY <4>1, <2>2, AfterEpochFacts
    <3> QED BY <2>1, <3>1, <3>2
  <2>5. RowsOk(Append(disk[Metrics].rows, RowOf(loss)), L)
    <3> DEFINE r == disk[Metrics].rows
               x == RowOf(loss)
    <3>1. RowsOk(r, L)
      BY <2>3, <1>4
    <3>2. x.of = L /\ x.loss = loss /\ loss \in Nat /\ L \in Nat
      BY <1>2, WorstFacts DEF RowOf, L
    <3> HIDE DEF r, x
    <3>3. IsSeq(Append(r, x)) /\ ToSet(Append(r, x)) = ToSet(r) \cup {x}
      BY <3>1, AppendFacts DEF RowsOk
    <3>4. x.of \in Nat /\ x.of <= L /\ x.loss \in Nat
      BY <3>2
    <3>5. RowsOk(Append(r, x), L)
      BY <3>1, <3>3, <3>4 DEF RowsOk
    <3> QED BY <3>5 DEF r, x
  <2> QED BY <2>1, <2>4, <2>5 DEF EpochLogs
<1>7. CASE SaveBest
  <2>1. fit.at = "save" /\ fit # NoFit /\ fit' = AfterEpoch(fit.best, 0)
    BY <1>7, SaveBestFacts, FitFacts
  <2>2. fit.best \in Losses \cup {Worst} /\ 0 \in Nat
    BY <2>1 DEF FitInv
  <2>3. fit' # NoFit
    BY <2>1, <2>2, AfterEpochFacts
  <2> QED BY <2>3, <1>4, <1>7, SaveBestFacts
<1> QED BY <1>5, <1>6, <1>7

\* The other steps add no row.
LEMMA RowsOther ==
  ASSUME RunInv, RowsInv, [Next]_vars, Kill => UNCHANGED disk, ~(BeginTraining \/ Epoch \/ SaveBest)
  PROVE  RowsInv'
<1> DEFINE a == Stage("train", "all")
           L == LaunchNumber
<1>1. Metrics \in DOMAIN disk' => Metrics \in DOMAIN disk /\ disk'[Metrics] = disk[Metrics]
  BY OtherSteps
<1>2. kills \in Nat /\ L \in Nat
  BY DEF RowsInv, LaunchNumber
<1>3. Metrics \in DOMAIN disk => /\ RowsOk(disk[Metrics].rows, L)
                                 /\ phase = "idle" \/ (a \in ToSet(todo) /\ fit = NoFit) => Older(disk[Metrics].rows, L)
  BY DEF RowsInv, MetricRows
<1>4. CASE Kill
  <2>1. kills' = kills + 1
    BY <1>4 DEF Kill
  <2>2. kills' \in Nat /\ LaunchNumber' = L + 1
    BY <2>1, <1>2 DEF LaunchNumber
  <2>3. \A r : RowsOk(r, L) => RowsOk(r, L + 1) /\ Older(r, L + 1)
    <3> HIDE DEF L
    <3> QED BY <1>2 DEF RowsOk, Older
  <2> HIDE DEF L
  <2> QED BY <1>1, <1>3, <2>2, <2>3 DEF RowsInv, MetricRows
<1>5. CASE ~Kill
  <2>1. UNCHANGED kills
    <3>1. CASE Launch \/ Skip \/ Raise \/ Begin \/ EndTraining \/ Complete
      BY <3>1 DEF Launch, Skip, Raise, Begin, EndTraining, Complete
    <3>2. CASE OpenFile \/ PutFile \/ Unlink \/ CopyArtifact \/ RenameArtifact \/ ClearWorkspace
      BY <3>2 DEF OpenFile, PutFile, Unlink, CopyArtifact, RenameArtifact, ClearWorkspace, Done
    <3>3. CASE UNCHANGED vars
      BY <3>3 DEF vars
    <3> QED BY <1>5, <3>1, <3>2, <3>3 DEF Next, Step
  <2>2. phase' = "idle" \/ (a \in ToSet(todo') /\ fit' = NoFit) =>
          phase = "idle" \/ (a \in ToSet(todo) /\ fit = NoFit)
    <3>1. CASE Launch
      BY <3>1 DEF Launch
    <3>2. CASE Skip \/ Begin
      <4>1. /\ phase = "running" /\ todo # <<>> /\ todo' = Tail(todo) /\ fit = NoFit /\ fit' = NoFit
            /\ UNCHANGED <<job, phase>>
        BY <3>2 DEF Skip, Begin, AtStage
      <4>2. ToSet(todo') = ToSet(todo) \ {Head(todo)}
        BY <4>1, TodoNext DEF RunInv
      <4> QED BY <4>1, <4>2
    <3>3. CASE Raise \/ Complete
      <4>1. todo' = <<>> /\ phase' # "idle"
        BY <3>3 DEF Raise, Complete
      <4>2. a \notin ToSet(<<>>)
        BY NothingFacts DEF ToSet
      <4> QED BY <4>1, <4>2
    <3>4. CASE EndTraining
      <4>1. phase = "running" /\ todo # <<>> /\ Head(todo) = a
        BY <3>4, TrainingAlone
      <4>2. todo' = Tail(todo) /\ fit' = NoFit /\ UNCHANGED <<job, phase>>
        BY <3>4 DEF EndTraining
      <4>3. ToSet(todo') = ToSet(todo) \ {Head(todo)}
        BY <4>1, <4>2, TodoNext DEF RunInv
      <4> QED BY <4>1, <4>2, <4>3
    <3>5. CASE OpenFile \/ PutFile \/ Unlink \/ CopyArtifact \/ RenameArtifact \/ ClearWorkspace
      BY <3>5 DEF OpenFile, PutFile, Unlink, CopyArtifact, RenameArtifact, ClearWorkspace, Done
    <3>6. CASE UNCHANGED vars
      BY <3>6 DEF vars
    <3> QED BY <1>5, <3>1, <3>2, <3>3, <3>4, <3>5, <3>6 DEF Next, Step
  <2>3. LaunchNumber' = L
    BY <2>1 DEF LaunchNumber
  <2> HIDE DEF L, a
  <2>4. Metrics \in DOMAIN disk' => /\ RowsOk(disk'[Metrics].rows, L)
                                    /\ phase' = "idle" \/ (a \in ToSet(todo') /\ fit' = NoFit) => Older(disk'[Metrics].rows, L)
    BY <1>1, <1>3, <2>2
  <2> QED BY <2>1, <2>3, <2>4, <1>2 DEF RowsInv, MetricRows, a
<1> QED BY <1>4, <1>5

------------------------------------------------------------------------------
(* What the trainer holds.                                                  *)

\* A trainer that begins has no row yet.
LEMMA FitBegins ==
  ASSUME RunInv, ResultsInv, RowsInv, BeginTraining
  PROVE  FitInv'
<1> DEFINE a == Stage("train", "all")
           F == [at : {"epoch", "save", "close"}, epoch : Nat, best : Losses \cup {Worst}, stale : Nat]
           r == disk'[Metrics].rows
<1>1. /\ fit = NoFit /\ UNCHANGED <<job, kills, todo, write>>
      /\ fit' = [at |-> "epoch", epoch |-> 1, best |-> Worst, stale |-> 0]
      /\ Metrics \in DOMAIN disk' /\ r = InitialRows
  BY BeginTrainingFacts
<1>2. phase = "running" /\ todo # <<>> /\ Head(todo) = a
  BY TrainingAlone
<1>3. a \in ToSet(todo)
  BY <1>2, JobFacts, NextStage DEF RunInv
<1>4. Metrics \in DOMAIN disk => /\ RowsOk(disk[Metrics].rows, LaunchNumber)
                                 /\ Older(disk[Metrics].rows, LaunchNumber)
  BY <1>1, <1>3 DEF RowsInv, MetricRows
<1>5. \A f \in Results : f \notin DOMAIN disk'
  <2>1. \A f \in Results : f \notin DOMAIN disk
    BY TrainsAnew
  <2> QED BY <2>1, TrainerFiles, ResultFacts DEF TrainerOnly
<1>6. LaunchNumber' = LaunchNumber /\ LaunchNumber \in Nat
  BY <1>1 DEF LaunchNumber, RowsInv
<1>7. \A row \in ToSet(r) : row.of # LaunchNumber
  <2>1. CASE job.kind = "region" /\ Metrics \in DOMAIN disk
    <3>1. r = disk[Metrics].rows
      BY <2>1, <1>1 DEF InitialRows, Exists
    <3> QED BY <3>1, <2>1, <1>4, <1>6 DEF RowsOk, Older
  <2>2. CASE ~(job.kind = "region" /\ Metrics \in DOMAIN disk)
    <3>1. r = <<>>
      BY <2>2, <1>1 DEF InitialRows, Exists
    <3> QED BY <3>1, NothingFacts DEF ToSet
  <2> QED BY <2>1, <2>2
<1>8. job.kind # "region" => \A row \in ToSet(r) : row.of = LaunchNumber
  <2> HAVE job.kind # "region"
  <2>1. r = <<>>
    BY <1>1 DEF InitialRows
  <2> QED BY <2>1, NothingFacts DEF ToSet
<1>9. fit' \in F /\ fit'.best = Worst /\ fit'.at = "epoch"
  <2> DEFINE B == Losses \cup {Worst}
  <2>1. Worst \in B
    OBVIOUS
  <2> HIDE DEF B
  <2>2. fit' \in [at : {"epoch", "save", "close"}, epoch : Nat, best : B, stale : Nat] /\ fit'.best = Worst /\ fit'.at = "epoch"
    BY <1>1, <2>1
  <2> QED BY <2>2 DEF B
<1> HIDE DEF F, r, a
<1>10. MetricRows' = r
  BY DEF MetricRows, r
<1> QED BY <1>1, <1>5, <1>6, <1>7, <1>8, <1>9, <1>10 DEF FitInv, F

\* An epoch: the best loss is that of the checkpoint, or the checkpoint is saved next.
LEMMA FitEpoch ==
  ASSUME RunInv, RowsInv, FitInv, Epoch
  PROVE  FitInv'
<1> DEFINE F == [at : {"epoch", "save", "close"}, epoch : Nat, best : Losses \cup {Worst}, stale : Nat]
           r == disk[Metrics].rows
           q == disk'[Metrics].rows
           L == LaunchNumber
<1>1. fit.at = "epoch" /\ fit # NoFit /\ UNCHANGED <<job, kills>>
  BY EpochFacts, FitFacts
<1>2. PICK loss \in Losses : EpochLogs(loss) /\ (EpochImproves(loss) \/ EpochFails(loss))
  BY EpochFacts
<1>3. /\ fit \in F /\ Metrics \in DOMAIN disk
      /\ \A f \in Results : f \notin DOMAIN disk
      /\ job.kind # "region" => \A row \in ToSet(r) : row.of = L
      /\ \A row \in ToSet(r) : row.of = L => fit.best <= row.loss
      /\ fit.best = Worst => \A row \in ToSet(r) : row.of # L
      /\ fit.best # Worst =>
           /\ WholeIn(disk, Best) /\ disk[Best].of = L /\ disk[Best].loss = fit.best
           /\ [of |-> L, epoch |-> disk[Best].epoch, loss |-> fit.best] \in ToSet(r)
  BY <1>1 DEF FitInv, MetricRows
<1>4. RowsOk(r, L)
  BY <1>3 DEF RowsInv, MetricRows
<1>5. LaunchNumber' = L /\ L \in Nat
  BY <1>1 DEF LaunchNumber, RowsInv
<1>6. \A f \in Results : f \notin DOMAIN disk'
  BY <1>3, TrainerFiles, ResultFacts DEF TrainerOnly
<1> DEFINE x == RowOf(loss)
<1>7. ToSet(q) = ToSet(r) \cup {x}
  BY <1>2, <1>4, AppendFacts DEF EpochLogs, RowsOk
<1>8. x = [of |-> L, epoch |-> fit.epoch, loss |-> loss] /\ x.of = L /\ x.loss = loss
  BY DEF RowOf
<1>9. loss \in Nat /\ loss < Worst /\ Worst \in Nat /\ Worst \notin Losses
  BY WorstFacts
<1>10. fit.best \in Nat
  BY <1>3, WorstFacts
<1>11. \A row \in ToSet(r) : row.loss \in Nat
  BY <1>4 DEF RowsOk
<1>12. Metrics \in DOMAIN disk'
  BY <1>2 DEF EpochLogs
<1>13. MetricRows' = q /\ MetricRows = r
  BY DEF MetricRows
<1> HIDE DEF r, q, x, L
<1>14. job.kind # "region" => \A row \in ToSet(q) : row.of = L
  BY <1>3, <1>7, <1>8
<1>15. CASE EpochImproves(loss)
  <2>1. loss < fit.best /\ fit' = [fit EXCEPT !.at = "save", !.best = loss]
    BY <1>15 DEF EpochImproves
  <2>2. fit' \in F /\ fit'.at = "save" /\ fit'.best = loss /\ fit'.epoch = fit.epoch
    <3> DEFINE B == Losses \cup {Worst}
    <3>1. loss \in B
      OBVIOUS
    <3> HIDE DEF B
    <3>2. fit \in [at : {"epoch", "save", "close"}, epoch : Nat, best : B, stale : Nat]
      BY <1>3 DEF B
    <3>3. /\ fit' \in [at : {"epoch", "save", "close"}, epoch : Nat, best : B, stale : Nat]
          /\ fit'.at = "save" /\ fit'.best = loss /\ fit'.epoch = fit.epoch
      BY <2>1, <3>1, <3>2
    <3> QED BY <3>3 DEF B
  <2>3. \A row \in ToSet(q) : row.of = L => loss <= row.loss
    <3> TAKE row \in ToSet(q)
    <3> HAVE row.of = L
    <3>1. CASE row = x
      BY <3>1, <1>8, <1>9
    <3>2. CASE row \in ToSet(r)
      <4>1. fit.best <= row.loss /\ row.loss \in Nat
        BY <3>2, <1>3, <1>11
      <4> QED BY <4>1, <2>1, <1>9, <1>10
    <3> QED BY <3>1, <3>2, <1>7
  <2>4. [of |-> L, epoch |-> fit'.epoch, loss |-> fit'.best] \in ToSet(q)
    <3>1. x = [of |-> L, epoch |-> fit'.epoch, loss |-> fit'.best]
      BY <2>2, <1>8
    <3> QED BY <3>1, <1>7
  <2>5. fit'.best # Worst
    BY <2>2, <1>9
  <2> HIDE DEF F
  <2> QED BY <1>1, <1>5, <1>6, <1>12, <1>13, <1>14, <2>2, <2>3, <2>4, <2>5 DEF FitInv, F
<1>16. CASE EpochFails(loss)
  <2>1. /\ ~(loss < fit.best) /\ fit' = AfterEpoch(fit.best, fit.stale + 1)
        /\ Best \in DOMAIN disk => Best \in DOMAIN disk' /\ disk'[Best] = disk[Best]
    BY <1>16 DEF EpochFails
  <2>2. fit.best # Worst
    BY <2>1, <1>9
  <2>3. fit' \in F /\ fit'.at \in {"epoch", "close"} /\ fit'.best = fit.best
    <3>1. fit.best \in Losses \cup {Worst} /\ fit.stale + 1 \in Nat
      BY <1>3
    <3> QED BY <3>1, <2>1, <1>1, AfterEpochFacts
  <2>4. \A row \in ToSet(q) : row.of = L => fit.best <= row.loss
    <3> TAKE row \in ToSet(q)
    <3> HAVE row.of = L
    <3>1. CASE row = x
      BY <3>1, <1>8, <1>9, <1>10, <2>1
    <3>2. CASE row \in ToSet(r)
      BY <3>2, <1>3
    <3> QED BY <3>1, <3>2, <1>7
  <2>5. /\ WholeIn(disk', Best) /\ disk'[Best].of = L /\ disk'[Best].loss = fit.best
        /\ [of |-> L, epoch |-> disk'[Best].epoch, loss |-> fit.best] \in ToSet(q)
    BY <1>3, <1>7, <2>1, <2>2 DEF WholeIn
  <2> HIDE DEF F
  <2> QED BY <1>1, <1>5, <1>6, <1>12, <1>13, <1>14, <2>2, <2>3, <2>4, <2>5 DEF FitInv, F
<1> QED BY <1>2, <1>15, <1>16

\* The checkpoint is that of the best row.
LEMMA FitSaves ==
  ASSUME RunInv, RowsInv, FitInv, SaveBest
  PROVE  FitInv'
<1> DEFINE F == [at : {"epoch", "save", "close"}, epoch : Nat, best : Losses \cup {Worst}, stale : Nat]
           r == disk[Metrics].rows
           L == LaunchNumber
<1>1. fit.at = "save" /\ fit # NoFit /\ UNCHANGED <<job, kills>> /\ fit' = AfterEpoch(fit.best, 0)
  BY SaveBestFacts, FitFacts
<1>2. /\ fit \in F /\ Metrics \in DOMAIN disk
      /\ \A f \in Results : f \notin DOMAIN disk
      /\ job.kind # "region" => \A row \in ToSet(r) : row.of = L
      /\ \A row \in ToSet(r) : row.of = L => fit.best <= row.loss
      /\ fit.best # Worst
      /\ [of |-> L, epoch |-> fit.epoch, loss |-> fit.best] \in ToSet(r)
  BY <1>1 DEF FitInv, MetricRows
<1>3. LaunchNumber' = L
  BY <1>1 DEF LaunchNumber
<1>4. /\ WholeIn(disk', Best) /\ disk'[Best].of = L
      /\ disk'[Best].epoch = fit.epoch /\ disk'[Best].loss = fit.best
      /\ Metrics \in DOMAIN disk' /\ disk'[Metrics] = disk[Metrics]
  BY <1>2, SaveBestFacts
<1>5. \A f \in Results : f \notin DOMAIN disk'
  BY <1>2, TrainerFiles, ResultFacts DEF TrainerOnly
<1>6. fit' \in F /\ fit'.at \in {"epoch", "close"} /\ fit'.best = fit.best
  BY <1>1, <1>2, AfterEpochFacts
<1>7. MetricRows' = r
  BY <1>4 DEF MetricRows
<1> HIDE DEF F, r, L
<1> QED BY <1>1, <1>2, <1>3, <1>4, <1>5, <1>6, <1>7 DEF FitInv, F

\* Every step of a launch keeps the trainer, its rows and its checkpoint in agreement.
LEMMA FitStep ==
  ASSUME RunInv, ResultsInv, RowsInv, FitInv, [Next]_vars, Kill => UNCHANGED disk
  PROVE  FitInv'
<1>1. CASE BeginTraining
  BY <1>1, FitBegins
<1>2. CASE Epoch
  BY <1>2, FitEpoch
<1>3. CASE SaveBest
  BY <1>3, FitSaves
<1>4. CASE ~(BeginTraining \/ Epoch \/ SaveBest)
  <2>1. fit' = NoFit \/ UNCHANGED vars
    BY <1>4, OtherSteps
  <2>2. CASE fit' = NoFit
    BY <2>2 DEF FitInv
  <2>3. CASE UNCHANGED vars
    <3>1. UNCHANGED <<job, disk, fit, kills>>
      BY <2>3 DEF vars
    <3> QED BY <3>1 DEF FitInv, MetricRows, LaunchNumber
  <2> QED BY <2>1, <2>2, <2>3
<1> QED BY <1>1, <1>2, <1>3, <1>4

\* Every step of a launch keeps the rows of the launches apart.
LEMMA RowsStep ==
  ASSUME RunInv, RowsInv, FitInv, [Next]_vars, Kill => UNCHANGED disk
  PROVE  RowsInv'
BY RowsTrain, RowsOther

------------------------------------------------------------------------------
(* The artifacts that are published.                                        *)

\* What a launch that trained and writes nothing has on disk.
LEMMA TrainedGood ==
  ASSUME ResultsInv, TornInv, write = <<>>, Passed(Stage("train", "all"))
  PROVE  Good(disk)
<1>1. Consistent(disk) /\ Summary \in DOMAIN disk
  BY TrainedFacts
<1>2. ASSUME NEW f \in Results, f \in DOMAIN disk
      PROVE  IF disk[f].whole THEN disk[f].of = disk[Best].of ELSE torn
  <2>1. disk[f].whole => disk[f].of = disk[Best].of
    BY <1>2 DEF ResultsInv
  <2>2. ~disk[f].whole => torn \/ Comes(write, f)
    BY <1>2, ResultFacts DEF TornInv
  <2>3. ~Comes(write, f)
    BY NothingFacts DEF Comes
  <2> QED BY <2>1, <2>2, <2>3
<1> QED BY <1>1, <1>2 DEF Good, GoodOf, Consistent

\* The artifacts that were exported are those on disk.
LEMMA ExportedGood ==
  ASSUME ExportInv, job.kind \in Kinds, job.kind # "evaluation", write = <<>>, Good(disk),
         Working, job.tmp, Stage("export", "all") \notin ToSet(todo)
  PROVE  Good(home)
<1>1. \A f \in ToSet(Exported) : f \in DOMAIN home /\ f \in DOMAIN disk /\ home[f] = disk[f]
  BY NothingFacts DEF ExportInv
<1>2. {Best, Metrics, Summary} \subseteq ToSet(Exported) /\ DOMAIN home \subseteq ToSet(Exported)
  BY ExportedFacts DEF ExportInv
<1>3. Agree(disk, home) /\ Summary \in DOMAIN home
  BY <1>1, <1>2 DEF Agree
<1>4. ConsistentOf(job.kind, home) /\ home[Best] = disk[Best]
  BY <1>3, ConsistentKept DEF Good, GoodOf
<1>5. ASSUME NEW f \in Results, f \in DOMAIN home
      PROVE  IF home[f].whole THEN home[f].of = home[Best].of ELSE torn
  <2>1. f \in DOMAIN disk /\ home[f] = disk[f]
    BY <1>1, <1>2, <1>5
  <2>2. IF disk[f].whole THEN disk[f].of = disk[Best].of ELSE torn
    BY <2>1 DEF Good, GoodOf
  <2> QED BY <2>1, <2>2, <1>4
<1> QED BY <1>3, <1>4, <1>5 DEF Good, GoodOf

\* A launch that has the export before it, or is not running.
LEMMA ExportBefore ==
  ASSUME DOMAIN home \subseteq ToSet(Exported), UNCHANGED <<job, home>>,
         phase' # "complete" \/ job.kind = "evaluation",
         phase' = "running" => Stage("export", "all") \in ToSet(todo')
  PROVE  ExportInv'
<1>1. Exported' = Exported
  BY Kept
<1>2. phase' = "running" => todo' # <<>>
  BY NothingFacts DEF ToSet
<1> QED BY <1>1, <1>2 DEF ExportInv, Working

\* The export begins with all artifacts on disk, and the workspace is cleared behind it.
LEMMA ExportBegin ==
  ASSUME RunInv, ResultsInv, TornInv, ExportInv, Begin
  PROVE  ExportInv'
<1> DEFINE h == Head(todo)
           x == Stage("export", "all")
           c == Stage("clear", "all")
<1>1. /\ phase = "running" /\ todo # <<>> /\ todo' = Tail(todo) /\ write = <<>> /\ write' = Writes(h)
      /\ fit' = NoFit /\ UNCHANGED <<job, phase, disk, home, torn>> /\ Inspect(h) = "run"
  BY DEF Begin, AtStage
<1>2. job.kind \in Kinds /\ (h.name = "export" => h = x) /\ (h.name = "clear" => h = c)
  BY <1>1, HeadFacts DEF RunInv
<1>3. ToSet(todo') = ToSet(todo) \ {h}
  BY <1>1, TodoNext DEF RunInv
<1>4. Exported' = Exported
  BY <1>1, Kept
<1>5. x # c /\ (h = x => h.name = "export")
  BY StageFacts
<1>6. h = c <=> todo' = <<>>
  BY <1>1, ClearIsLast DEF RunInv
<1>7. DOMAIN home' \subseteq ToSet(Exported')
  BY <1>1, <1>4 DEF ExportInv
<1>8. ASSUME Working', job.tmp, x \notin ToSet(todo')
      PROVE  \A f \in ToSet(Exported) :
               /\ f \in DOMAIN disk
               /\ \/ f \in DOMAIN home /\ home[f] = disk[f]
                  \/ \E i \in DOMAIN write' : write'[i].op = "rename" /\ write'[i].file = f
  <2>1. CASE h = x
    <3>1. InspectExport = "run"
      BY <2>1, <1>1, <1>5 DEF Inspect
    <3>2. ToSet(Exported) \subseteq DOMAIN disk
      BY <3>1 DEF InspectExport
    <3>3. write' = ExportWrites
      BY <2>1, <1>1, <1>5, WritesOf
    <3>4. \A f \in ToSet(Exported) :
            \E i \in DOMAIN ExportWrites : ExportWrites[i].op = "rename" /\ ExportWrites[i].file = f
      BY <1>2, ExportFacts
    <3> QED BY <3>2, <3>3, <3>4
  <2>2. CASE h # x
    <3>1. Working /\ x \notin ToSet(todo)
      BY <2>2, <1>1, <1>3, <1>8 DEF Working
    <3>2. \A i \in DOMAIN write : FALSE
      BY <1>1, NothingFacts
    <3> QED BY <3>1, <3>2, <1>8 DEF ExportInv
  <2> QED BY <2>1, <2>2
<1>9. ASSUME job.kind # "evaluation", todo' = <<>>, job.tmp PROVE Good(home)
  <2>1. h = c
    BY <1>6, <1>9
  <2>2. Passed(x) /\ Passed(Stage("train", "all"))
    BY <2>1, <1>1, <1>2, <1>9, OrderFacts DEF RunInv
  <2>3. Good(disk)
    BY <2>2, <1>1, TrainedGood
  <2>4. Working /\ x \notin ToSet(todo)
    BY <2>2 DEF Passed
  <2> QED BY <2>3, <2>4, <1>1, <1>2, <1>9, ExportedGood
<1>10. Good(home) => Good(home)'
  BY <1>1 DEF Good
<1> HIDE DEF h, x, c
<1>11. Working' /\ job'.tmp /\ x \notin ToSet(todo') =>
         \A f \in ToSet(Exported') :
           /\ f \in DOMAIN disk'
           /\ \/ f \in DOMAIN home' /\ home'[f] = disk'[f]
              \/ \E i \in DOMAIN write' : write'[i].op = "rename" /\ write'[i].file = f
  BY <1>1, <1>4, <1>8
<1>12. job'.kind # "evaluation" /\ phase' = "running" /\ todo' = <<>> /\ job'.tmp => Good(home)'
  BY <1>1, <1>9, <1>10
<1>13. phase' # "complete"
  BY <1>1
<1> QED BY <1>7, <1>11, <1>12, <1>13 DEF ExportInv, x

\* An artifact is at home as soon as it is renamed.
LEMMA ExportMoves ==
  ASSUME RunInv, ExportInv, CopyArtifact \/ RenameArtifact
  PROVE  ExportInv'
<1> DEFINE t == Target
           v == Tail(write)
           x == Stage("export", "all")
<1>1. /\ UNCHANGED <<job, disk, phase, todo, torn>> /\ write' = v
      /\ \/ At("copy") /\ home' = home
         \/ At("rename") /\ home' = Put(home, t, disk[t])
  BY DEF CopyArtifact, RenameArtifact, Done
<1>2. /\ phase = "running" /\ todo # <<>> /\ t \in ToSet(Exported)
      /\ IsSeq(write) /\ write # <<>> /\ write[1] = Head(write)
  BY <1>1, OperationFacts
<1>3. Head(write).file = t
  BY DEF Target
<1>4. Exported' = Exported
  BY <1>1, Kept
<1>5. Working' <=> Working
  BY <1>1 DEF Working
<1>6. ASSUME NEW i \in DOMAIN write, write[i].op = "rename", write[i].file # t \/ At("copy")
      PROVE  \E j \in DOMAIN v : v[j].op = "rename" /\ v[j].file = write[i].file
  <2>1. i # 1
    BY <1>2, <1>3, <1>6 DEF At
  <2>2. i - 1 \in DOMAIN v /\ v[i - 1] = write[i]
    BY <2>1, <1>2, TailFacts
  <2> QED BY <2>2, <1>6
<1> HIDE DEF t, v, x
<1>7. DOMAIN home' \subseteq ToSet(Exported)
  <2>1. DOMAIN home \subseteq ToSet(Exported)
    BY DEF ExportInv
  <2>2. DOMAIN home' = DOMAIN home \/ DOMAIN home' = DOMAIN home \cup {t}
    BY <1>1 DEF Put
  <2> QED BY <2>1, <2>2, <1>2
<1>8. ASSUME Working, job.tmp, x \notin ToSet(todo), NEW f \in ToSet(Exported)
      PROVE  /\ f \in DOMAIN disk
             /\ \/ f \in DOMAIN home' /\ home'[f] = disk[f]
                \/ \E j \in DOMAIN v : v[j].op = "rename" /\ v[j].file = f
  <2>1. /\ f \in DOMAIN disk
        /\ \/ f \in DOMAIN home /\ home[f] = disk[f]
           \/ \E i \in DOMAIN write : write[i].op = "rename" /\ write[i].file = f
    BY <1>8 DEF ExportInv, x
  <2>2. CASE f = t /\ ~At("copy")
    BY <2>1, <2>2, <1>1 DEF Put
  <2>3. CASE f # t \/ At("copy")
    <3>1. CASE f \in DOMAIN home /\ home[f] = disk[f]
      <4>1. CASE home' = home
        BY <3>1, <4>1, <2>1
      <4>2. CASE home' = Put(home, t, disk[t])
        BY <3>1, <4>2, <2>1 DEF Put
      <4> QED BY <4>1, <4>2, <1>1
    <3>2. CASE \E i \in DOMAIN write : write[i].op = "rename" /\ write[i].file = f
      BY <3>2, <2>1, <2>3, <1>6
    <3> QED BY <2>1, <3>1, <3>2
  <2> QED BY <2>2, <2>3
<1>9. phase' = "running" /\ todo' # <<>>
  BY <1>1, <1>2
<1>10. Working' /\ job'.tmp /\ x \notin ToSet(todo') =>
         \A f \in ToSet(Exported') :
           /\ f \in DOMAIN disk'
           /\ \/ f \in DOMAIN home' /\ home'[f] = disk'[f]
              \/ \E i \in DOMAIN write' : write'[i].op = "rename" /\ write'[i].file = f
  BY <1>1, <1>4, <1>5, <1>8
<1> QED BY <1>4, <1>7, <1>9, <1>10 DEF ExportInv, x

\* Every step of a launch keeps that the export replaces all artifacts.
LEMMA ExportStep ==
  ASSUME RunInv, ResultsInv, TornInv, ExportInv, [Next]_vars
  PROVE  ExportInv'
<1> DEFINE x == Stage("export", "all")
<1>0. job.kind \in Kinds /\ DOMAIN home \subseteq ToSet(Exported)
  BY JobFacts DEF RunInv, ExportInv
<1>1. CASE Launch
  <2>1. /\ UNCHANGED <<job, home>> /\ (phase' # "complete" \/ job.kind = "evaluation")
        /\ phase' = "running" => todo' = Stages
    BY <1>1 DEF Launch, Launched
  <2>2. x \in ToSet(Stages)
    BY <1>0, StagesOf
  <2> QED BY <1>0, <2>1, <2>2, ExportBefore
<1>2. CASE Skip
  <2>1. /\ phase = "running" /\ todo # <<>> /\ todo' = Tail(todo) /\ write = <<>> /\ write' = <<>>
        /\ fit' = NoFit /\ UNCHANGED <<job, phase, disk, home, torn>> /\ Inspect(Head(todo)) = "skip"
    BY <1>2 DEF Skip, AtStage
  <2>2. ToSet(todo') = ToSet(todo) \ {Head(todo)}
    BY <2>1, TodoNext DEF RunInv
  <2>3. CASE job.tmp
    <3>1. Head(todo) # x
      <4>1. Head(todo) = x => Inspect(Head(todo)) = InspectExport
        BY StageFacts DEF Inspect
      <4>2. InspectExport # "skip"
        BY <2>3 DEF InspectExport
      <4> QED BY <4>1, <4>2, <2>1
    <3>2. Head(todo) # Stage("clear", "all")
      <4>1. Head(todo) = Stage("clear", "all") => Inspect(Head(todo)) = "run"
        BY <2>3, StageFacts DEF Inspect
      <4> QED BY <4>1, <2>1
    <3>3. x \in ToSet(todo')
      BY <3>1, <3>2, <2>1, <2>2, <1>0, OrderFacts DEF RunInv
    <3> QED BY <1>0, <3>3, <2>1, ExportBefore
  <2>4. CASE ~job.tmp
    <3>1. Exported' = Exported
      BY <2>1, Kept
    <3> QED BY <3>1, <2>1, <2>4 DEF ExportInv
  <2> QED BY <2>3, <2>4
<1>3. CASE Raise \/ Kill
  <2>1. UNCHANGED <<job, home>> /\ phase' \notin {"running", "complete"}
    BY <1>3 DEF Raise, Kill
  <2> QED BY <1>0, <2>1, ExportBefore
<1>4. CASE Begin
  BY <1>4, ExportBegin
<1>5. CASE BeginTraining \/ Epoch \/ SaveBest \/ EndTraining
  <2>1. phase = "running" /\ todo # <<>> /\ Head(todo) = Stage("train", "all")
    BY <1>5, TrainingAlone
  <2>2. x \in ToSet(todo) /\ x # Head(todo)
    BY <2>1, <1>0, OrderFacts, StageFacts DEF RunInv
  <2>3. UNCHANGED <<job, home, phase>> /\ x \in ToSet(todo')
    <3>1. CASE BeginTraining \/ Epoch \/ SaveBest
      BY <2>2, <3>1, BeginTrainingFacts, EpochFacts, SaveBestFacts
    <3>2. CASE EndTraining
      <4>1. UNCHANGED <<job, home, phase>> /\ todo' = Tail(todo) /\ fit' = NoFit
        BY <3>2 DEF EndTraining
      <4>2. ToSet(todo') = ToSet(todo) \ {Head(todo)}
        BY <4>1, <2>1, TodoNext DEF RunInv
      <4> QED BY <4>1, <4>2, <2>2
    <3> QED BY <1>5, <3>1, <3>2
  <2> QED BY <1>0, <2>1, <2>3, ExportBefore
<1>6. CASE OpenFile \/ PutFile \/ Unlink
  <2>1. UNCHANGED <<job, home, phase, todo>> /\ (At("open") \/ At("put") \/ At("unlink"))
    BY <1>6 DEF OpenFile, PutFile, Unlink, Done
  <2>2. x \in ToSet(todo) /\ phase = "running"
    BY <2>1, OperationFacts
  <2> QED BY <1>0, <2>1, <2>2, ExportBefore
<1>7. CASE CopyArtifact \/ RenameArtifact
  BY <1>7, ExportMoves
<1>8. CASE ClearWorkspace
  <2>1. UNCHANGED <<job, home, phase, todo, torn>> /\ At("clear")
    BY <1>8 DEF ClearWorkspace, Done
  <2>2. todo = <<>> /\ job.tmp /\ phase = "running"
    BY <2>1, OperationFacts
  <2>3. Good(home)' <=> Good(home)
    BY <2>1 DEF Good
  <2>4. Exported' = Exported /\ ~Working'
    BY <2>1, <2>2, Kept DEF Working
  <2> QED BY <2>1, <2>2, <2>3, <2>4 DEF ExportInv
<1>9. CASE Complete
  <2>1. /\ phase = "running" /\ todo = <<>> /\ write = <<>> /\ phase' = "complete"
        /\ UNCHANGED <<job, disk, home, torn>>
    BY <1>9 DEF Complete
  <2>2. job.kind # "evaluation" => Good(Published)
    <3> HAVE job.kind # "evaluation"
    <3>1. CASE job.tmp
      BY <3>1, <2>1 DEF ExportInv, Published
    <3>2. CASE ~job.tmp
      <4>1. Passed(Stage("train", "all"))
        <5>1. Stage("train", "all") \in ToSet(Stages)
          BY <1>0, StagesOf
        <5>2. Stage("train", "all") \notin ToSet(todo)
          BY <2>1, NothingFacts DEF ToSet
        <5> QED BY <5>1, <5>2, <3>2, <2>1 DEF Passed, Working
      <4>2. Good(disk)
        BY <4>1, <2>1, TrainedGood
      <4> QED BY <4>2, <3>2 DEF Published
    <3> QED BY <3>1, <3>2
  <2>3. Good(Published)' <=> Good(Published)
    BY <2>1 DEF Good, Published
  <2>4. Exported' = Exported /\ ~Working'
    BY <2>1, Kept DEF Working
  <2> QED BY <2>1, <2>2, <2>3, <2>4 DEF ExportInv
<1>10. CASE UNCHANGED vars
  <2>1. UNCHANGED <<job, disk, home, phase, todo, write, torn>>
    BY <1>10 DEF vars
  <2>2. Exported' = Exported /\ (Good(home)' <=> Good(home)) /\ (Good(Published)' <=> Good(Published)) /\ (Working' <=> Working)
    BY <2>1, Kept DEF Good, Published, Working
  <2> QED BY <2>1, <2>2 DEF ExportInv
<1> QED BY <1>1, <1>2, <1>3, <1>4, <1>5, <1>6, <1>7, <1>8, <1>9, <1>10 DEF Next, Step

------------------------------------------------------------------------------
(* The invariant of the pipelines, and what follows from it.                *)

\* Before the first launch there is nothing.
LEMMA PipelineStarts ==
  ASSUME Init
  PROVE  PipelineInv
<1>1. /\ job \in Jobs /\ disk = Empty /\ home = Empty /\ phase = "idle" /\ todo = <<>> /\ write = <<>>
      /\ fit = NoFit /\ kills = 0
  BY DEF Init
<1>2. ~Working /\ \A x : ~Passed(x)
  BY <1>1 DEF Passed, Working
<1>3. DOMAIN disk = {} /\ DOMAIN home = {} /\ DOMAIN write = {} /\ IsSeq(todo) /\ IsSeq(write)
  BY <1>1, EmptyFacts, NothingFacts
<1>4. TodoInv /\ WriteInv
  BY <1>1, <1>3 DEF TodoInv, WriteInv
<1>5. PairsInv
  BY <1>3 DEF PairsInv, Guarded
<1>6. ProgressInv
  BY <1>2 DEF ProgressInv
<1>7. ResultsInv /\ TornInv
  BY <1>2, <1>3 DEF ResultsInv, TornInv
<1>8. RowsInv /\ FitInv
  BY <1>1, <1>3 DEF RowsInv, FitInv
<1>9. ExportInv
  BY <1>1, <1>2, <1>3 DEF ExportInv
<1> QED BY <1>1, <1>3, <1>4, <1>5, <1>6, <1>7, <1>8, <1>9 DEF PipelineInv, SoundInv

\* A launch in a workspace of its own begins with nothing, whatever an earlier one left.
LEMMA FreshStarts ==
  ASSUME RunInv, Launch, disk' = Empty, kills \in Nat, DOMAIN home \subseteq ToSet(Exported)
  PROVE  SoundInv'
<1>1. /\ phase = "idle" /\ UNCHANGED <<job, home, write, fit, kills>>
      /\ phase' # "running" \/ (phase' = "running" /\ todo' = Stages)
      /\ phase' # "complete" \/ job.kind = "evaluation"
  BY DEF Launch, Launched
<1>2. write' = <<>> /\ fit' = NoFit
  BY <1>1 DEF RunInv, TodoInv
<1>3. \A x : ~Passed(x)'
  <2>1. CASE phase' = "running" /\ todo' = Stages
    BY <2>1, <1>1, <1>2, TodoBegins DEF RunInv
  <2>2. CASE phase' # "running"
    BY <2>2 DEF Passed, Working
  <2> QED BY <1>1, <2>1, <2>2
<1>4. DOMAIN disk' = {}
  BY EmptyFacts
<1>5. PairsInv'
  BY <1>2, PairsFresh
<1>6. ProgressInv'
  BY <1>3, ProgressNone
<1>7. ResultsInv'
  BY <1>2, <1>3, <1>4, ResultsNone
<1>8. TornInv' /\ RowsInv' /\ FitInv'
  BY <1>1, <1>2, <1>4 DEF TornInv, RowsInv, FitInv
<1>9. ExportInv'
  <2>1. Stage("export", "all") \in ToSet(Stages)
    BY JobFacts, StagesOf DEF RunInv
  <2> QED BY <2>1, <1>1, ExportBefore
<1> QED BY <1>5, <1>6, <1>7, <1>8, <1>9 DEF SoundInv

\* Only a launch in a workspace of its own gets rid of what a kill within the clearing left.
LEMMA RemainsStep ==
  ASSUME [Next]_vars, ~remains'
  PROVE  /\ Kill => UNCHANGED disk
         /\ ~remains \/ (Launch /\ disk' = Empty)
<1>1. CASE Launch
  BY <1>1 DEF Launch, Kill
<1>2. CASE Kill
  <2>1. UNCHANGED <<disk, remains>>
    BY <1>2 DEF Kill
  <2> QED BY <2>1
<1>3. CASE ~Kill /\ ~Launch
  <2>1. Skip \/ Raise \/ Begin \/ EndTraining \/ Complete => UNCHANGED remains
    BY DEF Skip, Raise, Begin, EndTraining, Complete
  <2>2. BeginTraining \/ Epoch \/ SaveBest => UNCHANGED remains
    BY BeginTrainingFacts, EpochFacts, SaveBestFacts
  <2>3. OpenFile \/ PutFile \/ Unlink \/ CopyArtifact \/ RenameArtifact \/ ClearWorkspace => UNCHANGED remains
    BY DEF OpenFile, PutFile, Unlink, CopyArtifact, RenameArtifact, ClearWorkspace, Done
  <2>4. UNCHANGED vars => UNCHANGED remains
    BY DEF vars
  <2> QED BY <1>3, <2>1, <2>2, <2>3, <2>4 DEF Next, Step
<1> QED BY <1>1, <1>2, <1>3

\* Launches are counted, and nothing but artifacts is published.
LEMMA HomeStep ==
  ASSUME RunInv, kills \in Nat, DOMAIN home \subseteq ToSet(Exported), [Next]_vars
  PROVE  kills' \in Nat /\ DOMAIN home' \subseteq ToSet(Exported')
<1>1. CASE RenameArtifact
  <2> DEFINE t == Target
  <2>1. At("rename") /\ UNCHANGED <<job, kills>> /\ home' = Put(home, t, disk[t])
    BY <1>1 DEF RenameArtifact, Done
  <2>2. t \in ToSet(Exported) /\ Exported' = Exported
    BY <2>1, OperationFacts, Kept
  <2> HIDE DEF t
  <2>3. DOMAIN home' = DOMAIN home \cup {t}
    BY <2>1 DEF Put
  <2> QED BY <2>1, <2>2, <2>3
<1>2. CASE ~RenameArtifact
  <2>1. UNCHANGED <<job, home>> /\ (kills' = kills \/ kills' = kills + 1)
    <3>1. Launch \/ Skip \/ Raise \/ Begin \/ EndTraining \/ Complete => UNCHANGED <<job, home, kills>>
      BY DEF Launch, Skip, Raise, Begin, EndTraining, Complete
    <3>2. BeginTraining \/ Epoch \/ SaveBest => UNCHANGED <<job, home, kills>>
      BY BeginTrainingFacts, EpochFacts, SaveBestFacts
    <3>3. OpenFile \/ PutFile \/ Unlink \/ CopyArtifact \/ ClearWorkspace => UNCHANGED <<job, home, kills>>
      BY DEF OpenFile, PutFile, Unlink, CopyArtifact, ClearWorkspace, Done
    <3>4. Kill => UNCHANGED <<job, home>> /\ kills' = kills + 1
      BY DEF Kill
    <3>5. UNCHANGED vars => UNCHANGED <<job, home, kills>>
      BY DEF vars
    <3> QED BY <1>2, <3>1, <3>2, <3>3, <3>4, <3>5 DEF Next, Step
  <2>2. Exported' = Exported
    BY <2>1, Kept
  <2> QED BY <2>1, <2>2
<1> QED BY <1>1, <1>2

\* Every step of a launch, and every kill, keeps it.
LEMMA PipelineStep ==
  ASSUME PipelineInv, [Next]_vars
  PROVE  PipelineInv'
<1>1. RunInv /\ kills \in Nat /\ DOMAIN home \subseteq ToSet(Exported)
  BY DEF PipelineInv, RunInv
<1>2. RunInv' /\ kills' \in Nat /\ DOMAIN home' \subseteq ToSet(Exported')
  BY <1>1, RunStep, HomeStep
<1>3. ASSUME ~remains' PROVE SoundInv'
  <2>1. (Kill => UNCHANGED disk) /\ (~remains \/ (Launch /\ disk' = Empty))
    BY <1>3, RemainsStep
  <2>2. CASE ~remains
    <3>1. PairsInv /\ ProgressInv /\ ResultsInv /\ TornInv /\ RowsInv /\ FitInv /\ ExportInv
      BY <2>2 DEF PipelineInv, SoundInv
    <3>2. PairsInv' /\ ProgressInv'
      BY <1>1, <2>1, <3>1, PairsStep, ProgressStep
    <3>3. ResultsInv' /\ TornInv'
      BY <1>1, <2>1, <3>1, ResultsStep, TornStep
    <3>4. RowsInv' /\ FitInv'
      BY <1>1, <2>1, <3>1, RowsStep, FitStep
    <3>5. ExportInv'
      BY <1>1, <3>1, ExportStep
    <3> QED BY <3>2, <3>3, <3>4, <3>5 DEF SoundInv
  <2>3. CASE Launch /\ disk' = Empty
    BY <1>1, <2>3, FreshStarts
  <2> QED BY <2>1, <2>2, <2>3
<1> QED BY <1>2, <1>3 DEF PipelineInv, RunInv

\* The inductive invariant of the four router pipelines: the stages a launch has left
\* are those from the next one on; a stage it is past has left its outputs whole or is
\* writing them; the file that marks a stage as done is there only behind the files it
\* stands for; and results are only there of the checkpoint on disk, at home, and in
\* the trainer's memory.  Of what a kill within the clearing of a workspace left, and of
\* the launches requeued onto it, only the stages, the operations and the places of the
\* artifacts are known.
THEOREM PipelineHolds == Spec => []PipelineInv
<1>1. Init => PipelineInv
  BY PipelineStarts
<1>2. PipelineInv /\ [Next]_vars => PipelineInv'
  BY PipelineStep
<1> QED BY <1>1, <1>2, PTL DEF Spec

\* With no operation left, what is safe is whole.
LEMMA SafeIsWhole ==
  ASSUME write = <<>>, NEW f, Safe(f)
  PROVE  Whole(f)
BY NothingFacts DEF Safe, Comes, WholeIn, Whole, Exists

\* The invariant implies that a command that is started can load its files.
LEMMA LoadsWhole ==
  ASSUME PipelineInv, ~remains, AtStage, Inspect(Head(todo)) = "run"
  PROVE  Loads(Head(todo))
<1> DEFINE h == Head(todo)
           s == Head(todo).split
<1>1. /\ phase = "running" /\ write = <<>> /\ todo # <<>> /\ TodoInv /\ PairsInv /\ ProgressInv /\ ResultsInv
  BY DEF AtStage, PipelineInv, SoundInv
<1>2. /\ job.kind \in Kinds
      /\ h.name \in {"configure", "train", "manifest", "export", "clear"} => h = Stage(h.name, "all")
      /\ h.name \in {"prepare", "collect", "cleanup", "evaluate", "qa", "replay"} =>
           h = Stage(h.name, s) /\ s \in SplitSet
      /\ h.name \in {"configure", "train", "manifest", "export", "clear",
                     "prepare", "collect", "cleanup", "evaluate", "qa", "replay"}
  BY <1>1, HeadFacts
<1>3. TrainSplit \in SplitSet
  BY SplitFacts
<1>4. /\ \A x \in SplitSet : Passed(Stage("collect", x)) => Whole(Dataset(x))
      /\ \A x \in SplitSet :
           job.kind = "region" /\ Passed(Stage("prepare", x)) /\ Stage("cleanup", x) \in ToSet(todo) =>
             Whole(Input(x))
      /\ \A x \in SplitSet : Passed(Stage("prepare", x)) /\ Exists(Input(x)) => Whole(Input(x))
      /\ \A x \in SplitSet : job.kind = "index" /\ Passed(Stage("collect", x)) =>
           \A b \in Blocks : Whole(Entry(x, b))
  <2>1. \A f : Safe(f) => Whole(f)
    BY <1>1, SafeIsWhole
  <2> QED BY <1>1, <2>1 DEF ProgressInv, Exists
<1>5. Passed(Stage("train", "all")) => Whole(Best)
  BY <1>1, TrainedFacts DEF Consistent, ConsistentOf, Whole, Exists
<1>6. CASE h.name = "collect"
  <2>1. h = Stage("collect", s) /\ s \in SplitSet
    BY <1>2, <1>6
  <2>2. Passed(Stage("prepare", s))
    BY <2>1, <1>1, <1>2, OrderFacts
  <2>3. Exists(Input(s))
    <3>1. InspectCollect(s) = "run"
      BY <1>6 DEF Inspect
    <3> QED BY <3>1 DEF InspectCollect
  <2>4. Reads(h) = {Input(s)}
    BY <1>6 DEF Reads
  <2> QED BY <2>1, <2>2, <2>3, <2>4, <1>4 DEF Loads
<1>7. CASE h.name = "train"
  <2>1. h = Stage("train", "all")
    BY <1>2, <1>7
  <2>2. /\ job.kind # "region" => Passed(Stage("collect", TrainSplit))
        /\ job.kind = "region" => /\ Passed(Stage("prepare", TrainSplit))
                                  /\ Stage("cleanup", TrainSplit) \in ToSet(todo)
    BY <2>1, <1>1, <1>2, OrderFacts
  <2>3. Reads(h) = IF job.kind = "region" THEN {Input(TrainSplit)} ELSE {Dataset(TrainSplit)}
    BY <1>7 DEF Reads
  <2> QED BY <2>2, <2>3, <1>3, <1>4 DEF Loads
<1>8. CASE h.name = "evaluate"
  <2>1. h = Stage("evaluate", s) /\ s \in SplitSet
    BY <1>2, <1>8
  <2>2. /\ job.kind # "evaluation" => Passed(Stage("train", "all"))
        /\ job.kind # "region" => Passed(Stage("collect", s))
        /\ job.kind = "region" => Passed(Stage("prepare", s)) /\ Stage("cleanup", s) \in ToSet(todo)
    BY <2>1, <1>1, <1>2, OrderFacts
  <2>3. Reads(h) = (IF job.kind = "region" THEN {Input(s)} ELSE {Dataset(s)})
                     \cup (IF job.kind = "evaluation" THEN {} ELSE {Best})
    BY <1>8 DEF Reads
  <2> QED BY <2>1, <2>2, <2>3, <1>4, <1>5 DEF Loads
<1>9. CASE h.name = "qa"
  <2>1. h = Stage("qa", s) /\ s \in SplitSet
    BY <1>2, <1>9
  <2>2. Passed(Stage("collect", s))
    BY <2>1, <1>1, <1>2, OrderFacts
  <2>3. Whole(Combined)
    <3>1. InspectAnswers = "run"
      BY <1>9 DEF Inspect
    <3> QED BY <3>1 DEF InspectAnswers
  <2>4. Reads(h) = {Dataset(s), Combined}
    BY <1>9 DEF Reads
  <2> QED BY <2>1, <2>2, <2>3, <2>4, <1>4 DEF Loads
<1>10. CASE h.name = "replay"
  <2>1. h = Stage("replay", s) /\ s \in SplitSet
    BY <1>2, <1>10
  <2>2. job.kind = "index" /\ Passed(Stage("collect", s)) /\ Passed(Stage("train", "all"))
    BY <2>1, <1>1, <1>2, OrderFacts
  <2>3. ASSUME NEW b \in Blocks PROVE Whole(Block(s, b)) /\ Whole(Entry(s, b))
    <3>1. Whole(Entry(s, b))
      BY <2>1, <2>2, <1>4
    <3>2. Paired(Block(s, b), Entry(s, b))
      BY <2>1 DEF Paired, PairedOf
    <3>3. Block(s, b) \notin Inputs
      BY FileKinds DEF Inputs
    <3>4. WholeIn(disk, Block(s, b))
      BY <3>1, <3>2, <3>3, <1>1 DEF PairsInv, Guarded, Whole, Exists
    <3> QED BY <3>1, <3>4 DEF WholeIn, Whole, Exists
  <2>4. Reads(h) = {Dataset(s), Best} \cup {Block(s, b) : b \in Blocks} \cup {Entry(s, b) : b \in Blocks}
    BY <1>10 DEF Reads
  <2> HIDE DEF h, s
  <2>5. \A f \in Reads(h) : Whole(f)
    BY <2>1, <2>2, <2>3, <2>4, <1>4, <1>5
  <2> QED BY <2>5 DEF Loads, h
<1>11. CASE h.name \in {"configure", "manifest", "export", "clear", "prepare", "cleanup"}
  <2>1. Reads(h) = {}
    BY <1>11 DEF Reads
  <2> QED BY <2>1 DEF Loads
<1> QED BY <1>2, <1>6, <1>7, <1>8, <1>9, <1>10, <1>11

\* No command of the four pipelines reads a file that a killed launch left half
\* written: what the stages look at suffices to tell.  A workspace that was being
\* cleared when its launch was killed is excluded.
THEOREM ReadsAreWhole == Spec => []CommandsReadWholeFiles
<1>1. PipelineInv => CommandsReadWholeFiles
  BY LoadsWhole DEF CommandsReadWholeFiles
<1> QED BY <1>1, PipelineHolds, PTL

\* A completed training pipeline leaves the summary, the checkpoint, its row and the
\* evaluations of one training run, wherever launches were killed: but for a launch
\* requeued onto a workspace that was being cleared then.
THEOREM CompletesAsOneRun == Spec => []CompleteIsOfOneRun
<1>1. ASSUME PipelineInv PROVE CompleteIsOfOneRun
  <2> SUFFICES ASSUME phase = "complete", job.kind # "evaluation", ~remains PROVE CompleteIsOfOneRun
    BY DEF CompleteIsOfOneRun
  <2>1. Good(Published)
    BY <1>1 DEF PipelineInv, SoundInv, ExportInv
  <2> DEFINE left == Published
  <2>2. GoodOf(job.kind, torn, left)
    BY <2>1 DEF Good
  <2> HIDE DEF left
  <2>3. /\ {Best, Metrics, Summary} \subseteq DOMAIN left /\ left[Best].whole
        /\ [of |-> left[Best].of, epoch |-> left[Best].epoch, loss |-> left[Best].loss]
             \in ToSet(left[Metrics].rows)
        /\ \A row \in ToSet(left[Metrics].rows) : row.of = left[Best].of => left[Best].loss <= row.loss
        /\ job.kind # "region" => \A row \in ToSet(left[Metrics].rows) : row.of = left[Best].of
    BY <2>2 DEF GoodOf, ConsistentOf
  <2>4. ASSUME NEW f \in {Summary} \cup (DOMAIN left \cap {Evaluation(s) : s \in ToSet(Splits)})
        PROVE  IF left[f].whole THEN left[f].of = left[Best].of ELSE torn
    <3>1. f \in Results /\ f \in DOMAIN left
      BY <2>3 DEF Results, SplitSet
    <3> QED BY <3>1, <2>2 DEF GoodOf
  <2> QED BY <2>3, <2>4 DEF CompleteIsOfOneRun, left
<1> QED BY <1>1, PipelineHolds, PTL

------------------------------------------------------------------------------
(* Numbers, for the sweeps.                                                 *)

\* A set of numbers that is not empty has a least element.
LEMMA LeastNumber ==
  ASSUME NEW T \in SUBSET Nat, T # {}
  PROVE  \E n \in T : \A m \in T : ~(m < n)
<1> DEFINE R == {ss \in Nat \X Nat : ss[1] < ss[2]}
<1>1. IsWellFoundedOn(R, Nat)
  BY NatLessThanWellFounded, Zenon DEF OpToRel
<1>2. \A p : p \in R <=> p \in Nat \X Nat /\ p[1] < p[2]
  OBVIOUS
<1> HIDE DEF R
<1>3. \E x \in T : \A y \in T : ~(<<y, x>> \in R)
  BY <1>1, WFMin, Zenon
<1> QED BY <1>2, <1>3

\* A set of numbers with zero and the successor of each of its elements has them all.
LEMMA AllNumbers ==
  ASSUME NEW S \in SUBSET Nat, 0 \in S, \A n \in S : n + 1 \in S
  PROVE  S = Nat
<1> SUFFICES ASSUME S # Nat PROVE FALSE
  OBVIOUS
<1> DEFINE T == Nat \ S
<1>1. PICK n \in T : \A m \in T : ~(m < n)
  BY LeastNumber
<1>2. n - 1 \in Nat /\ n - 1 \notin T
  BY <1>1
<1> QED BY <1>1, <1>2

------------------------------------------------------------------------------
(* Sums.                                                                    *)

First(s) == CHOOSE x \in s : TRUE

\* g has for every set of D the sum of f over it, taken up element by element.
Sums(f, D, g) ==
  g = [s \in SUBSET D |-> IF s = {} THEN 0 ELSE f[First(s)] + g[s \ {First(s)}]]

\* Through the instance the operators of the libraries have a name of their own.
LEMMA SameCardinality == \A S : Cardinality(S) = Cardinality(S)
BY DEF Cardinality, Cardinality

\* The sum of a sweep is that of such a function.
LEMMA TotalUnfolds ==
  ASSUME NEW f
  PROVE  Total(f) = (CHOOSE g : Sums(f, DOMAIN f, g))[DOMAIN f]
BY DEF Total, FoldFunction, FoldFunctionOnSet, MapThenFoldSet, Sums, First

Small(D, n) == {s \in SUBSET D : Cardinality(s) <= n}

\* The sums over the sets with at most n elements.
SumsUpTo(f, D, n, g) ==
  /\ g \in [Small(D, n) -> Nat]
  /\ \A s \in Small(D, n) : g[s] = IF s = {} THEN 0 ELSE f[First(s)] + g[s \ {First(s)}]

\* The element that is taken up first is one of the set.
LEMMA FirstIsIn == ASSUME NEW s, s # {} PROVE First(s) \in s
BY DEF First

\* The sets with none, with one more and with all of the elements.
LEMMA SmallSets ==
  ASSUME NEW D, IsFiniteSet(D)
  PROVE  /\ Small(D, 0) = {{}}
         /\ \A n \in Nat : \A s \in Small(D, n + 1) : s # {} => s \ {First(s)} \in Small(D, n)
         /\ \A n \in Nat : Small(D, n) \subseteq Small(D, n + 1)
         /\ Small(D, Cardinality(D)) = SUBSET D
<1>1. \A s \in SUBSET D : IsFiniteSet(s) /\ Cardinality(s) \in Nat /\ Cardinality(s) <= Cardinality(D)
  BY FS_Subset, FS_CardinalityType
<1>2. \A s \in SUBSET D : Cardinality(s) = 0 <=> s = {}
  BY <1>1, FS_EmptySet
<1>3. \A s \in SUBSET D : s # {} => Cardinality(s \ {First(s)}) = Cardinality(s) - 1
  BY <1>1, FS_RemoveElement, FirstIsIn
<1>4. Cardinality(D) \in Nat
  BY FS_CardinalityType
<1>5. Small(D, 0) = {{}}
  BY <1>1, <1>2 DEF Small
<1>6. \A n \in Nat : \A s \in Small(D, n + 1) : s # {} => s \ {First(s)} \in Small(D, n)
  BY <1>1, <1>3 DEF Small
<1> QED BY <1>1, <1>4, <1>5, <1>6 DEF Small

\* The function of the sums over sets of at most n elements exists, for every n.
LEMMA SumsReach ==
  ASSUME NEW D, IsFiniteSet(D), NEW f, \A x \in D : f[x] \in Nat
  PROVE  \A n \in Nat : \E g : SumsUpTo(f, D, n, g)
<1> DEFINE S == {n \in Nat : \E g : SumsUpTo(f, D, n, g)}
<1>1. 0 \in S
  <2>1. SumsUpTo(f, D, 0, [s \in {{}} |-> 0])
    BY SmallSets DEF SumsUpTo
  <2> QED BY <2>1
<1>2. ASSUME NEW n \in S PROVE n + 1 \in S
  <2>1. PICK g : SumsUpTo(f, D, n, g)
    OBVIOUS
  <2> DEFINE h == [s \in Small(D, n + 1) |-> IF s = {} THEN 0 ELSE f[First(s)] + g[s \ {First(s)}]]
  <2>2. n \in Nat
    OBVIOUS
  <2>3. \A s \in Small(D, n + 1) : s # {} => /\ s \ {First(s)} \in Small(D, n)
                                             /\ First(s) \in D
    BY <2>2, SmallSets, FirstIsIn DEF Small
  <2>4. \A s \in Small(D, n + 1) : s # {} => g[s \ {First(s)}] \in Nat /\ f[First(s)] \in Nat
    BY <2>1, <2>3 DEF SumsUpTo
  <2>5. h \in [Small(D, n + 1) -> Nat]
    BY <2>4
  <2>6. \A s \in Small(D, n) : h[s] = g[s]
    BY <2>1, <2>2, SmallSets DEF SumsUpTo
  <2>7. \A s \in Small(D, n + 1) : h[s] = IF s = {} THEN 0 ELSE f[First(s)] + h[s \ {First(s)}]
    BY <2>3, <2>6
  <2>8. SumsUpTo(f, D, n + 1, h)
    <3> HIDE DEF h
    <3> QED BY <2>5, <2>7 DEF SumsUpTo
  <2> QED BY <2>2, <2>8
<1>3. S = Nat
  <2> HIDE DEF S
  <2>1. S \subseteq Nat
    BY DEF S
  <2> QED BY <1>1, <1>2, <2>1, AllNumbers
<1> QED BY <1>3

\* A function that sums exists, and what it gives is a number.
LEMMA SumsExist ==
  ASSUME NEW D, IsFiniteSet(D), NEW f, \A x \in D : f[x] \in Nat
  PROVE  \E g : Sums(f, D, g)
<1>1. PICK g : SumsUpTo(f, D, Cardinality(D), g)
  BY SumsReach, FS_CardinalityType
<1>2. Small(D, Cardinality(D)) = SUBSET D
  BY SmallSets
<1>3. Sums(f, D, g)
  BY <1>1, <1>2 DEF SumsUpTo, Sums
<1> QED BY <1>3

\* Sums of numbers are numbers.
LEMMA SumsAreNumbers ==
  ASSUME NEW D, IsFiniteSet(D), NEW f, \A x \in D : f[x] \in Nat, NEW g, Sums(f, D, g)
  PROVE  g[D] \in Nat
<1> DEFINE S == {n \in Nat : \A s \in Small(D, n) : g[s] \in Nat}
<1>0. \A s \in SUBSET D : g[s] = IF s = {} THEN 0 ELSE f[First(s)] + g[s \ {First(s)}]
  BY DEF Sums
<1>e. g[{}] = 0
  BY <1>0
<1>1. 0 \in S
  BY <1>e, SmallSets
<1>2. ASSUME NEW n \in S PROVE n + 1 \in S
  <2>1. n \in Nat /\ \A s \in Small(D, n) : g[s] \in Nat
    OBVIOUS
  <2>2. ASSUME NEW s \in Small(D, n + 1), s # {} PROVE g[s] \in Nat
    <3>1. s \ {First(s)} \in Small(D, n) /\ First(s) \in D /\ s \in SUBSET D
      BY <2>1, <2>2, SmallSets, FirstIsIn DEF Small
    <3>2. g[s] = f[First(s)] + g[s \ {First(s)}]
      BY <1>0, <2>2, <3>1
    <3> QED BY <2>1, <3>1, <3>2
  <2>3. \A s \in Small(D, n + 1) : g[s] \in Nat
    BY <1>e, <2>2
  <2> QED BY <2>1, <2>3
<1>3. S = Nat
  <2> HIDE DEF S
  <2>1. S \subseteq Nat
    BY DEF S
  <2> QED BY <1>1, <1>2, <2>1, AllNumbers
<1>4. D \in Small(D, Cardinality(D)) /\ Cardinality(D) \in Nat
  <2>1. Cardinality(D) \in Nat
    BY FS_CardinalityType
  <2> QED BY <2>1 DEF Small
<1> QED BY <1>3, <1>4

\* The sum of finitely many numbers is a number.
LEMMA TotalIsNumber ==
  ASSUME NEW f, IsFiniteSet(DOMAIN f), \A x \in DOMAIN f : f[x] \in Nat
  PROVE  Total(f) \in Nat
<1>1. \E g : Sums(f, DOMAIN f, g)
  BY SumsExist
<1>2. Sums(f, DOMAIN f, CHOOSE g : Sums(f, DOMAIN f, g))
  BY <1>1
<1>3. (CHOOSE g : Sums(f, DOMAIN f, g))[DOMAIN f] \in Nat
  BY <1>2, SumsAreNumbers
<1> QED BY <1>3, TotalUnfolds

------------------------------------------------------------------------------
(* What the plans of one replay have to do with each other.                 *)

\* Records under a threshold that come after a record under a smaller one in the order
\* of eviction are as many under both: a higher threshold evicts no less.
LEMMA EvictionsNest ==
  ASSUME NEW cluster \in Seq(Nat), NEW t \in Nat, NEW u \in Nat, t <= u
  PROVE  Evicted(cluster, t) \subseteq Evicted(cluster, u)
<1> DEFINE et == Evictable(cluster, t)
           eu == Evictable(cluster, u)
           Earlier(i, j) == cluster[i] < cluster[j] \/ (cluster[i] = cluster[j] /\ i < j)
<1>1. \A i \in DOMAIN cluster : cluster[i] \in Nat
  OBVIOUS
<1>2. et \subseteq eu /\ \A i \in et : \A j \in eu : Earlier(j, i) => j \in et
  BY <1>1 DEF Evictable
<1>3. \A i \in et : {j \in et : Earlier(j, i)} = {j \in eu : Earlier(j, i)}
  BY <1>2
<1> HIDE DEF et, eu
<1>4. SUFFICES ASSUME NEW i \in Evicted(cluster, t) PROVE i \in Evicted(cluster, u)
  OBVIOUS
<1>5. i \in et
  BY <1>4 DEF Evicted, et
<1> QED BY <1>2, <1>3, <1>4, <1>5 DEF Evicted, et, eu

\* So what a higher threshold retains a lower one retains, too.
LEMMA RetainedNest ==
  ASSUME NEW usage \in Usages, NEW t \in Thresholds, NEW u \in Thresholds, t <= u
  PROVE  Retained(usage, u) \subseteq Retained(usage, t)
<1>1. t \in Nat /\ u \in Nat /\ usage \in Seq(Seq(Nat))
  BY SweepAssumption DEF SweepAssumption
<1>2. \A r \in RecordsOf(usage) : r[1] \in DOMAIN usage
  BY DEF RecordsOf
<1>3. \A r \in RecordsOf(usage) : usage[r[1]] \in Seq(Nat)
  BY <1>1, <1>2
<1>4. \A r \in RecordsOf(usage) : Evicted(usage[r[1]], t) \subseteq Evicted(usage[r[1]], u)
  BY <1>1, <1>3, EvictionsNest
<1> QED BY <1>4 DEF Retained

\* A number that is at least zero and at least n.
LEMMA MaxWithZero ==
  ASSUME NEW n \in Int, NEW m, m = Max({0, n})
  PROVE  m \in Nat /\ m >= n /\ (m = 0 \/ m = n)
<1>1. \E x \in {0, n} : \A y \in {0, n} : x >= y
  OBVIOUS
<1>2. m \in {0, n} /\ \A y \in {0, n} : m >= y
  BY <1>1 DEF Max
<1> QED BY <1>2

\* The eligible records of a cluster that go before its record i.
EarlierThan(cluster, t, i) ==
  {j \in Evictable(cluster, t) : cluster[j] < cluster[i] \/ (cluster[j] = cluster[i] /\ j < i)}

\* Of two eligible records one has fewer before it than the other.
LEMMA EarlierFewer ==
  ASSUME NEW cluster \in Seq(Nat), NEW t \in Nat,
         NEW i \in Evictable(cluster, t), NEW k \in Evictable(cluster, t), i # k
  PROVE  Cardinality(EarlierThan(cluster, t, i)) # Cardinality(EarlierThan(cluster, t, k))
<1>1. IsFiniteSet(Evictable(cluster, t)) /\ Evictable(cluster, t) \subseteq Nat
  <2>1. DOMAIN cluster = 1..Len(cluster) /\ Len(cluster) \in Nat
    OBVIOUS
  <2>2. IsFiniteSet(1..Len(cluster))
    BY <2>1, FS_Interval
  <2>3. Evictable(cluster, t) \in SUBSET (1..Len(cluster))
    BY <2>1 DEF Evictable
  <2> QED BY <2>1, <2>2, <2>3, FS_Subset
<1>2. \A a \in Evictable(cluster, t) : a \in Nat /\ cluster[a] \in Nat
  BY <1>1 DEF Evictable
<1>3. ASSUME NEW a \in Evictable(cluster, t), NEW b \in Evictable(cluster, t),
             a \in EarlierThan(cluster, t, b)
      PROVE  Cardinality(EarlierThan(cluster, t, a)) # Cardinality(EarlierThan(cluster, t, b))
  <2> DEFINE A == EarlierThan(cluster, t, a)
             B == EarlierThan(cluster, t, b)
  <2>1. a \in B /\ a \notin A /\ B \subseteq Evictable(cluster, t)
    BY <1>2, <1>3 DEF EarlierThan
  <2>2. ASSUME NEW j \in A PROVE j \in B
    <3>1. j \in Evictable(cluster, t) /\ (cluster[j] < cluster[a] \/ (cluster[j] = cluster[a] /\ j < a))
      BY <2>2 DEF EarlierThan
    <3>2. cluster[a] < cluster[b] \/ (cluster[a] = cluster[b] /\ a < b)
      BY <1>3 DEF EarlierThan
    <3>3. /\ j \in Nat /\ a \in Nat /\ b \in Nat
          /\ cluster[j] \in Nat /\ cluster[a] \in Nat /\ cluster[b] \in Nat
      BY <3>1, <1>2
    <3>4. cluster[j] < cluster[b] \/ (cluster[j] = cluster[b] /\ j < b)
      <4> DEFINE x == cluster[j]
                 y == cluster[a]
                 z == cluster[b]
      <4>1. /\ x \in Nat /\ y \in Nat /\ z \in Nat
            /\ x < y \/ (x = y /\ j < a)
            /\ y < z \/ (y = z /\ a < b)
        BY <3>1, <3>2, <3>3
      <4> HIDE DEF x, y, z
      <4>2. x < z \/ (x = z /\ j < b)
        BY <3>3, <4>1
      <4> QED BY <4>2 DEF x, z
    <3> QED BY <3>1, <3>4 DEF EarlierThan
  <2>3. A \subseteq B
    BY <2>2
  <2> HIDE DEF A, B
  <2>4. IsFiniteSet(B)
    BY <1>1, <2>1, FS_Subset
  <2>5. Cardinality(B) = Cardinality(A) => B = A
    BY <2>3, <2>4, FS_Subset
  <2>6. Cardinality(A) # Cardinality(B)
    BY <2>1, <2>5
  <2> QED BY <2>6 DEF A, B
<1>4. i \in EarlierThan(cluster, t, k) \/ k \in EarlierThan(cluster, t, i)
  BY <1>2 DEF EarlierThan
<1> QED BY <1>3, <1>4

\* A plan takes no more of a cluster than it has above its floor.
LEMMA EvictedAboveFloor ==
  ASSUME NEW cluster \in Seq(Nat), NEW t \in Nat
  PROVE  /\ IsFiniteSet(Evicted(cluster, t)) /\ Evicted(cluster, t) \subseteq DOMAIN cluster
         /\ \/ Evicted(cluster, t) = {}
            \/ Cardinality(Evicted(cluster, t)) <= Len(cluster) - MinRecords
<1> DEFINE E == Evicted(cluster, t)
           m == Max({0, Len(cluster) - MinRecords})
           f == [i \in E |-> Cardinality(EarlierThan(cluster, t, i))]
<1>1. m \in Nat /\ (m = 0 \/ m = Len(cluster) - MinRecords)
  <2>1. Len(cluster) - MinRecords \in Int
    BY SweepAssumption DEF SweepAssumption
  <2> QED BY <2>1, MaxWithZero
<1>2. E \subseteq Evictable(cluster, t) /\ E \subseteq DOMAIN cluster
  BY DEF Evicted, Evictable
<1>3. IsFiniteSet(DOMAIN cluster)
  <2>1. DOMAIN cluster = 1..Len(cluster) /\ Len(cluster) \in Nat
    OBVIOUS
  <2> QED BY <2>1, FS_Interval
<1>4. IsFiniteSet(E)
  <2> HIDE DEF E
  <2> QED BY <1>2, <1>3, FS_Subset
<1>5. \A i \in E : f[i] \in Nat /\ f[i] < m
  <2> SUFFICES ASSUME NEW i \in E PROVE f[i] \in Nat /\ f[i] < m
    OBVIOUS
  <2> DEFINE B == EarlierThan(cluster, t, i)
  <2>1. f[i] = Cardinality(B)
    OBVIOUS
  <2>2. B \subseteq DOMAIN cluster
    BY DEF EarlierThan, Evictable
  <2>3. Cardinality(B) < m
    BY DEF Evicted, EarlierThan
  <2> HIDE DEF B
  <2>4. Cardinality(B) \in Nat
    BY <1>3, <2>2, FS_Subset, FS_CardinalityType
  <2> QED BY <2>1, <2>3, <2>4
<1>6. f \in Injection(E, 0..(m - 1))
  <2>1. \A i, k \in E : f[i] = f[k] => i = k
    BY <1>2, EarlierFewer
  <2>2. f \in [E -> 0..(m - 1)]
    <3> HIDE DEF E, m
    <3>1. DOMAIN f = E
      OBVIOUS
    <3>2. \A i \in E : f[i] \in 0..(m - 1)
      BY <1>1, <1>5
    <3> QED BY <3>1, <3>2
  <2> HIDE DEF E, m, f
  <2> QED BY <2>1, <2>2 DEF Injection, IsInjective
<1>7. Cardinality(E) <= m
  <2> HIDE DEF E, m, f
  <2>1. IsFiniteSet(0..(m - 1)) /\ Cardinality(0..(m - 1)) = m
    BY <1>1, FS_Interval
  <2>2. Cardinality(E) <= Cardinality(0..(m - 1))
    BY <1>6, <2>1, FS_Injection
  <2> QED BY <2>1, <2>2
<1>8. m = 0 => E = {}
  <2> HIDE DEF E, m, f
  <2> QED BY <1>4, <1>5
<1> QED BY <1>1, <1>2, <1>4, <1>7, <1>8

\* What a plan retains of a cluster is what it has above what is taken.
LEMMA RetainedCounts ==
  ASSUME NEW usage \in Usages, NEW t \in Thresholds, NEW c \in DOMAIN usage
  PROVE  LET left == {r \in Retained(usage, t) : r[1] = c}
         IN Cardinality(left) \in Nat
            /\ (Cardinality(left) >= MinRecords \/ Cardinality(left) = Len(usage[c]))
<1> DEFINE cluster == usage[c]
           E == Evicted(cluster, t)
           D == DOMAIN cluster
           left == {r \in Retained(usage, t) : r[1] = c}
           f == [i \in D \ E |-> <<c, i>>]
<1>1. cluster \in Seq(Nat) /\ t \in Nat /\ MinRecords \in Nat
  BY SweepAssumption DEF SweepAssumption
<1>2. IsFiniteSet(E) /\ E \subseteq D /\ (E = {} \/ Cardinality(E) <= Len(cluster) - MinRecords)
  BY <1>1, EvictedAboveFloor
<1>3. IsFiniteSet(D) /\ Cardinality(D) = Len(cluster) /\ Len(cluster) \in Nat
  <2> DEFINE n == Len(cluster)
  <2>1. D = 1..n /\ n \in Nat
    BY <1>1
  <2> HIDE DEF n, D
  <2>2. IsFiniteSet(1..n) /\ Cardinality(1..n) = IF 1 > n THEN 0 ELSE n - 1 + 1
    BY <2>1, FS_Interval
  <2>3. Cardinality(1..n) = n
    BY <2>1, <2>2
  <2> QED BY <2>1, <2>2, <2>3 DEF n
<1>4. left = {<<c, i>> : i \in D \ E}
  BY DEF Retained, RecordsOf
<1>5. f \in Bijection(D \ E, left)
  <2> HIDE DEF D, E, left
  <2> QED BY <1>4 DEF Bijection, Injection, Surjection, IsInjective
<1> HIDE DEF cluster, E, D, left, f
<1>6. IsFiniteSet(D \ E) /\ Cardinality(D \ E) = Cardinality(D) - Cardinality(E)
  <2>1. D \cap E = E
    BY <1>2
  <2>2. IsFiniteSet(D \ E) /\ Cardinality(D \ E) = Cardinality(D) - Cardinality(D \cap E)
    BY <1>3, FS_Difference
  <2> QED BY <2>1, <2>2
<1>7. Cardinality(left) = Cardinality(D \ E)
  <2>1. ExistsBijection(D \ E, left)
    BY <1>5 DEF ExistsBijection
  <2> QED BY <1>6, <2>1, FS_Bijection
<1>8. Cardinality(E) \in Nat /\ (E = {} => Cardinality(E) = 0) /\ Cardinality(D \ E) \in Nat
  BY <1>2, <1>6, FS_CardinalityType, FS_EmptySet
<1>9. Cardinality(left) \in Nat /\ (Cardinality(left) >= MinRecords \/ Cardinality(left) = Len(cluster))
  BY <1>1, <1>2, <1>3, <1>6, <1>7, <1>8
<1> QED BY <1>9 DEF left, cluster

\* A replay has finitely many records, and at least one.
LEMMA RecordsCounted ==
  ASSUME NEW usage \in Usages
  PROVE  /\ IsFiniteSet(RecordsOf(usage))
         /\ Cardinality(RecordsOf(usage)) \in Nat \ {0}
<1> DEFINE Pairs == [c \in DOMAIN usage |-> {c} \X DOMAIN usage[c]]
           All == {{c} \X DOMAIN usage[c] : c \in DOMAIN usage}
<1>1. usage \in Seq(Seq(Nat)) /\ \E c \in DOMAIN usage : usage[c] # <<>>
  BY SweepAssumption DEF SweepAssumption
<1>2. IsFiniteSet(DOMAIN usage)
  BY <1>1, FS_Interval
<1>3. \A c \in DOMAIN usage : IsFiniteSet({c} \X DOMAIN usage[c])
  <2> TAKE c \in DOMAIN usage
  <2>1. usage[c] \in Seq(Nat)
    BY <1>1
  <2>2. DOMAIN usage[c] = 1..Len(usage[c]) /\ Len(usage[c]) \in Nat
    BY <2>1
  <2>3. IsFiniteSet(DOMAIN usage[c]) /\ IsFiniteSet({c})
    <3>1. IsFiniteSet(1..Len(usage[c]))
      BY <2>2, FS_Interval
    <3> QED BY <2>2, <3>1, FS_Singleton, Zenon
  <2> DEFINE A == DOMAIN usage[c]
             B == {c}
  <2>4. IsFiniteSet(A) /\ IsFiniteSet(B)
    BY <2>3
  <2> HIDE DEF A, B
  <2>5. IsFiniteSet(B \X A)
    BY <2>4, FS_Product
  <2> QED BY <2>5 DEF A, B
<1>4. Pairs \in Surjection(DOMAIN usage, All)
  BY DEF Surjection
<1>5. IsFiniteSet(All)
  <2> HIDE DEF Pairs, All
  <2> QED BY <1>2, <1>4, FS_Surjection
<1>6. \A T \in All : IsFiniteSet(T)
  BY <1>3
<1>7. IsFiniteSet(UNION All)
  <2> HIDE DEF All
  <2> QED BY <1>5, <1>6, FS_UNION
<1>8. RecordsOf(usage) = UNION All
  BY DEF RecordsOf
<1>9. RecordsOf(usage) # {}
  <2>1. PICK c \in DOMAIN usage : usage[c] # <<>>
    BY <1>1
  <2>2. usage[c] \in Seq(Nat)
    BY <1>1
  <2>3. 1 \in DOMAIN usage[c]
    BY <2>1, <2>2
  <2>4. <<c, 1>> \in {c} \X DOMAIN usage[c]
    BY <2>3
  <2> QED BY <2>4 DEF RecordsOf
<1> HIDE DEF All
<1> QED BY <1>7, <1>8, <1>9, FS_CardinalityType, FS_EmptySet

\* Of the numbers with a cost there is one that comes first by cost, then by itself.
LEMMA CheapestExists ==
  ASSUME NEW E \in SUBSET Nat, E # {}, NEW r, \A t \in E : r[t] \in Nat
  PROVE  \E t \in E : \A u \in E \ {t} : r[t] < r[u] \/ (r[t] = r[u] /\ t < u)
<1> DEFINE Costs == {r[t] : t \in E}
<1>1. PICK c \in Costs : \A d \in Costs : ~(d < c)
  <2>1. Costs \in SUBSET Nat /\ Costs # {}
    OBVIOUS
  <2> HIDE DEF Costs
  <2> QED BY <2>1, LeastNumber
<1> DEFINE Cheap == {t \in E : r[t] = c}
<1>2. PICK t \in Cheap : \A u \in Cheap : ~(u < t)
  <2>1. Cheap \in SUBSET Nat /\ Cheap # {}
    OBVIOUS
  <2> HIDE DEF Cheap
  <2> QED BY <2>1, LeastNumber
<1>3. t \in E /\ r[t] = c
  OBVIOUS
<1>4. \A u \in E : ~(r[u] < c) /\ r[u] \in Nat /\ u \in Nat
  BY <1>1
<1>5. \A u \in E : r[u] = c => ~(u < t)
  BY <1>2
<1>6. t \in Nat /\ c \in Nat
  BY <1>3, <1>4
<1> HIDE DEF Costs, Cheap
<1> QED BY <1>3, <1>4, <1>5, <1>6

------------------------------------------------------------------------------
(* The inductive invariant of an evaluation.                                *)

\* The rows a resumed evaluation writes, and those of a calibration.
BudgetRows == [sample : Nat, sweep : Sweeps]

ReplayRows ==
  [sample : Nat, sweep : Sweeps, replay : SweepLosses, loss : [Thresholds -> SweepLosses],
   records : Nat, clusters : {[c \in DOMAIN u |-> Len(u[c])] : u \in Usages}, retained : [Thresholds -> SUBSET UNION {RecordsOf(u) : u \in Usages}]]

Lines == BudgetRows \cup ReplayRows \cup {Torn}

\* The evaluation s passes for the one that runs: it is that, or the state file of a
\* budget sweep does not tell the two apart.
Passes(s) == IF Resumes THEN StateOf(s) = StateOf(sweep) ELSE s = sweep

\* The rows in memory are those of the samples so far, in order, of this evaluation.
DoneInv ==
  /\ done \in Seq(Lines) /\ Len(done) <= sweep.samples
  /\ \A i \in DOMAIN done : done[i].sample = i /\ Passes(done[i].sweep)

\* The row compares the plans of one replay.
Measured(row) ==
  \E usage \in Usages :
    /\ row.records = Cardinality(RecordsOf(usage))
    /\ row.clusters = [c \in DOMAIN usage |-> Len(usage[c])]
    /\ \A t \in Thresholds : row.retained[t] = Retained(usage, t)

\* Each row of a calibration does.
MeasuredInv == ~Resumes => \A i \in DOMAIN done : Measured(done[i])

\* The lines of a directory whose rows are kept are rows of an evaluation as its state
\* file names it, and so is a launch that uses them.
DirectoryInv ==
  /\ state \in {StateOf(s) : s \in Sweeps} \cup {Absent}
  /\ lines \in Seq(Lines)
  /\ Resumes =>
       /\ state = Absent => lines = <<>>
       /\ \A i \in DOMAIN lines :
            lines[i] = Torn \/ (lines[i] \in BudgetRows /\ StateOf(lines[i].sweep) = state)
       /\ at \in {"read", "samples", "ended"} => state = StateOf(sweep)

\* A summary was made of the rows there are, of which nothing is missing.
SummaryInv ==
  at = "ended" =>
    /\ Len(done) = sweep.samples /\ summary.rows = done
    /\ ~Resumes => summary.selection = ChooseSetting

SweepInv ==
  /\ sweep \in Sweeps /\ at \in {"idle", "begin", "read", "samples", "ended", "failed"}
  /\ DoneInv /\ MeasuredInv /\ DirectoryInv /\ SummaryInv

\* A state file that is there is not one that is absent.
LEMMA StateIsThere == \A s : StateOf(s) # Absent
<1> SUFFICES ASSUME NEW s PROVE StateOf(s) # Absent
  OBVIOUS
<1>1. "samples" \in DOMAIN StateOf(s) /\ "samples" \notin DOMAIN Absent
  BY DEF StateOf, Absent
<1> QED BY <1>1

\* A line that is added adds a row, or what a torn line makes of it.
LEMMA AppendedLines ==
  ASSUME lines \in Seq(Lines), NEW row \in Lines
  PROVE  /\ Appended(row) \in Seq(Lines)
         /\ \A i \in DOMAIN Appended(row) :
              \/ Appended(row)[i] \in {row, Torn}
              \/ \E j \in DOMAIN lines : Appended(row)[i] = lines[j]
<1>0. Torn \in Lines
  BY DEF Lines
<1> HIDE DEF Lines
<1>1. CASE ended
  <2>1. Appended(row) = Append(lines, row)
    BY <1>1 DEF Appended
  <2> QED BY <2>1
<1>2. CASE ~ended
  <2> DEFINE F == SubSeq(lines, 1, Len(lines) - 1)
  <2>1. Appended(row) = Append(F, Torn)
    BY <1>2 DEF Appended, Front
  <2>2. F \in Seq(Lines) /\ \A i \in DOMAIN F : i \in DOMAIN lines /\ F[i] = lines[i]
    <3>1. CASE lines = <<>>
      <4>1. F = <<>>
        BY <3>1
      <4> QED BY <4>1
    <3>2. CASE lines # <<>>
      <4>1. Len(lines) \in Nat /\ Len(lines) >= 1
        BY <3>2
      <4> QED BY <4>1
    <3> QED BY <3>1, <3>2
  <2> HIDE DEF F
  <2> QED BY <1>0, <2>1, <2>2
<1> QED BY <1>1, <1>2

\* The invariant holds before the first launch.
LEMMA SweepStarts == ASSUME SweepInit PROVE SweepInv
<1>1. done = <<>> /\ lines = <<>> /\ at = "idle" /\ state = Absent /\ sweep \in Sweeps
  BY DEF SweepInit
<1>2. sweep.samples \in Nat
  BY SweepAssumption, <1>1 DEF SweepAssumption
<1>3. DoneInv
  BY <1>1, <1>2 DEF DoneInv
<1>4. MeasuredInv /\ DirectoryInv /\ SummaryInv
  BY <1>1 DEF MeasuredInv, DirectoryInv, SummaryInv
<1> QED BY <1>1, <1>3, <1>4 DEF SweepInv

\* A launch, of this evaluation or of another in its directory, keeps the invariant.
LEMMA SweepLaunch == ASSUME SweepInv, LaunchSweep PROVE SweepInv'
<1>1. /\ sweep' \in Sweeps /\ sweep'.program = sweep.program
      /\ done' = <<>> /\ lines' = lines /\ at' = "begin" /\ state' = state
  BY DEF LaunchSweep, SweepInv
<1>2. sweep'.samples \in Nat
  BY SweepAssumption, <1>1 DEF SweepAssumption
<1>3. DoneInv'
  BY <1>1, <1>2 DEF DoneInv
<1>4. MeasuredInv' /\ DirectoryInv' /\ SummaryInv'
  BY <1>1 DEF SweepInv, MeasuredInv, DirectoryInv, SummaryInv, Resumes
<1> QED BY <1>1, <1>3, <1>4 DEF SweepInv

\* So does looking for the state of earlier launches,
LEMMA SweepBegin == ASSUME SweepInv, BeginSweep PROVE SweepInv'
<1>1. sweep' = sweep /\ done' = done /\ at' \in {"read", "samples", "failed"}
  BY DEF BeginSweep
<1>2. DoneInv' /\ MeasuredInv' /\ SummaryInv'
  BY <1>1 DEF SweepInv, DoneInv, MeasuredInv, SummaryInv, Resumes, Passes
<1>3. DirectoryInv'
  <2>1. CASE ~Resumes
    <3>1. lines' = <<>> /\ state' = state /\ ~Resumes'
      BY <1>1, <2>1 DEF BeginSweep, Resumes
    <3> QED BY <3>1 DEF SweepInv, DirectoryInv
  <2>2. CASE Resumes
    <3>1. lines' = lines /\ (at' = "read" => state' = StateOf(sweep)) /\ at' \in {"read", "failed"}
      BY <2>2 DEF BeginSweep
    <3>2. state' = state \/ (state = Absent /\ state' = StateOf(sweep))
      BY <2>2 DEF BeginSweep
    <3>3. StateOf(sweep) # Absent /\ sweep \in Sweeps
      BY StateIsThere DEF SweepInv
    <3> QED BY <1>1, <2>2, <3>1, <3>2, <3>3 DEF SweepInv, DirectoryInv
  <2> QED BY <2>1, <2>2
<1> QED BY <1>1, <1>2, <1>3 DEF SweepInv

\* reading the rows they left,
LEMMA SweepRead == ASSUME SweepInv, Read PROVE SweepInv'
<1>1. /\ sweep' = sweep /\ done' = done /\ at' \in {"samples", "failed"}
      /\ at = "read" /\ lines' = lines /\ state' = state
  BY DEF Read
<1>2. DoneInv' /\ MeasuredInv' /\ SummaryInv' /\ DirectoryInv'
  BY <1>1 DEF SweepInv, DoneInv, MeasuredInv, SummaryInv, DirectoryInv, Resumes, Passes
<1> QED BY <1>1, <1>2 DEF SweepInv

\* A row is added to those in memory.
LEMMA OneMoreDone ==
  ASSUME SweepInv, NEW row \in Lines, row.sample = Next1, Passes(row.sweep),
         Next1 <= sweep.samples, done' = Append(done, row), sweep' = sweep
  PROVE  DoneInv' /\ DOMAIN done' = DOMAIN done \cup {Next1} /\ done'[Next1] = row
         /\ \A i \in DOMAIN done : done'[i] = done[i]
<1> HIDE DEF Lines
<1>1. done \in Seq(Lines) /\ Next1 = Len(done) + 1 /\ Len(done) \in Nat
  BY DEF SweepInv, DoneInv, Next1
<1>2. /\ done' \in Seq(Lines) /\ Len(done') = Len(done) + 1
      /\ \A i \in DOMAIN done : done'[i] = done[i]
      /\ done'[Len(done) + 1] = row
      /\ DOMAIN done' = DOMAIN done \cup {Len(done) + 1}
  BY <1>1
<1>3. \A s : Passes(s)' <=> Passes(s)
  BY DEF Passes, Resumes
<1> QED BY <1>1, <1>2, <1>3 DEF SweepInv, DoneInv

\* taking up such a row in place of its sample,
LEMMA SweepTake == ASSUME SweepInv, TakeExisting PROVE SweepInv'
<1>1. PICK i \in Existing : done' = Append(done, lines[i])
  BY DEF TakeExisting
<1>2. /\ at = "samples" /\ Next1 <= sweep.samples
      /\ sweep' = sweep /\ at' = at /\ lines' = lines /\ state' = state
  BY DEF TakeExisting
<1>3. /\ Resumes /\ i \in DOMAIN lines /\ lines[i] # Torn
      /\ lines[i].sample = Next1
  BY DEF Existing
<1>4. lines[i] \in Lines /\ Passes(lines[i].sweep)
  BY <1>2, <1>3 DEF SweepInv, DirectoryInv, Lines, Passes
<1>5. DoneInv'
  BY <1>1, <1>2, <1>3, <1>4, OneMoreDone
<1>6. MeasuredInv' /\ SummaryInv' /\ DirectoryInv'
  BY <1>2, <1>3 DEF SweepInv, MeasuredInv, SummaryInv, DirectoryInv, Resumes
<1> QED BY <1>2, <1>5, <1>6 DEF SweepInv

\* What a row of the next sample is.
LEMMA RowsAreLines ==
  ASSUME SweepInv, NEW row \in Rows
  PROVE  /\ row \in Lines /\ row.sample = Next1 /\ Passes(row.sweep)
         /\ Resumes => row.sweep = sweep
         /\ Resumes => row \in BudgetRows
         /\ ~Resumes => Measured(row)
<1>1. Next1 \in Nat /\ sweep \in Sweeps
  BY DEF SweepInv, DoneInv, Next1
<1>2. CASE Resumes
  <2>1. row = [sample |-> Next1, sweep |-> sweep]
    BY <1>2 DEF Rows
  <2>2. row \in BudgetRows
    BY <1>1, <2>1 DEF BudgetRows
  <2> QED BY <1>2, <2>1, <2>2 DEF Lines, Passes
<1>3. CASE ~Resumes
  <2>1. PICK usage \in Usages, replayLoss \in SweepLosses, loss \in [Thresholds -> SweepLosses] :
          row = ThresholdRow(Next1, usage, replayLoss, loss)
    BY <1>3 DEF Rows
  <2>2. row = [sample |-> Next1, sweep |-> sweep, replay |-> replayLoss, loss |-> loss,
               records |-> Cardinality(RecordsOf(usage)),
               clusters |-> [c \in DOMAIN usage |-> Len(usage[c])],
               retained |-> [t \in Thresholds |-> Retained(usage, t)]]
    BY <2>1, SameCardinality, Zenon DEF ThresholdRow
  <2>3. Cardinality(RecordsOf(usage)) \in Nat
    BY RecordsCounted
  <2>4. \A t \in Thresholds : Retained(usage, t) \in SUBSET UNION {RecordsOf(u) : u \in Usages}
    BY DEF Retained
  <2>5. [t \in Thresholds |-> Retained(usage, t)]
          \in [Thresholds -> SUBSET UNION {RecordsOf(u) : u \in Usages}]
    BY <2>4
  <2> DEFINE lengths == [c \in DOMAIN usage |-> Len(usage[c])]
  <2>6. lengths \in {[c \in DOMAIN u |-> Len(u[c])] : u \in Usages} /\ row.clusters = lengths
    BY <2>2
  <2>7. row \in ReplayRows
    BY <1>1, <2>2, <2>3, <2>5, <2>6 DEF ReplayRows
  <2>8. Measured(row)
    BY <2>2, Zenon DEF Measured
  <2> QED BY <1>3, <2>2, <2>7, <2>8 DEF Lines, Passes
<1> QED BY <1>2, <1>3

\* Lines that are added to a kept file are of the evaluation it is of.
LEMMA AppendedKeepsDirectory ==
  ASSUME SweepInv, at = "samples", NEW row \in Rows \cup {Torn},
         lines' = Appended(row), state' = state, sweep' = sweep
  PROVE  DirectoryInv'
<1>1. /\ row \in Lines
      /\ Resumes => row = Torn \/ (row \in BudgetRows /\ row.sweep = sweep)
  BY RowsAreLines DEF Lines
<1>2. lines \in Seq(Lines) /\ state \in {StateOf(s) : s \in Sweeps} \cup {Absent}
  BY DEF SweepInv, DirectoryInv
<1>3. /\ lines' \in Seq(Lines)
      /\ \A i \in DOMAIN lines' : lines'[i] \in {row, Torn} \/ \E j \in DOMAIN lines : lines'[i] = lines[j]
  BY <1>1, <1>2, AppendedLines
<1>4. CASE ~Resumes
  BY <1>2, <1>3, <1>4 DEF DirectoryInv, Resumes
<1>5. CASE Resumes
  <2>1. state = StateOf(sweep) /\ sweep \in Sweeps
    BY <1>5 DEF SweepInv, DirectoryInv
  <2>2. state # Absent
    BY StateIsThere, <2>1
  <2>3. \A j \in DOMAIN lines : lines[j] = Torn \/ (lines[j] \in BudgetRows /\ StateOf(lines[j].sweep) = state)
    BY <1>5 DEF SweepInv, DirectoryInv
  <2>4. \A i \in DOMAIN lines' :
          lines'[i] = Torn \/ (lines'[i] \in BudgetRows /\ StateOf(lines'[i].sweep) = state)
    BY <1>1, <1>3, <1>5, <2>1, <2>3
  <2> QED BY <1>2, <1>3, <2>1, <2>2, <2>4 DEF DirectoryInv
<1> QED BY <1>4, <1>5

\* evaluating a sample and writing its row,
LEMMA SweepEvaluate == ASSUME SweepInv, EvaluateSample PROVE SweepInv'
<1>1. PICK row \in Rows : done' = Append(done, row) /\ lines' = Appended(row)
  BY DEF EvaluateSample
<1>2. /\ at = "samples" /\ Next1 <= sweep.samples
      /\ sweep' = sweep /\ at' = at /\ state' = state
  BY DEF EvaluateSample
<1>3. /\ DoneInv' /\ DOMAIN done' = DOMAIN done \cup {Next1} /\ done'[Next1] = row
      /\ \A i \in DOMAIN done : done'[i] = done[i]
  BY <1>1, <1>2, RowsAreLines, OneMoreDone
<1>4. MeasuredInv'
  <2>1. CASE Resumes
    BY <1>2, <2>1 DEF MeasuredInv, Resumes
  <2>2. CASE ~Resumes
    BY <1>1, <1>2, <1>3, <2>2, RowsAreLines DEF SweepInv, MeasuredInv, Resumes
  <2> QED BY <2>1, <2>2
<1>5. DirectoryInv'
  BY <1>1, <1>2, AppendedKeepsDirectory
<1>6. SummaryInv'
  BY <1>2 DEF SummaryInv
<1> QED BY <1>2, <1>3, <1>4, <1>5, <1>6 DEF SweepInv

\* What is chosen depends on the rows in memory alone.
LEMMA ChoiceOfRows == ASSUME UNCHANGED done PROVE ChooseSetting' = ChooseSetting
<1>1. ReplayGate' = ReplayGate
  BY Zenon DEF ReplayGate
<1>2. \A t : RetainedRatio(t)' = RetainedRatio(t)
  BY DEF RetainedRatio
<1>3. \A t : Acceptable(t)' = Acceptable(t)
  BY <1>1 DEF Acceptable
<1> QED BY <1>1, <1>2, <1>3 DEF ChooseSetting

\* writing the summary,
LEMMA SweepPublish == ASSUME SweepInv, PublishSummary PROVE SweepInv'
<1>1. /\ at = "samples" /\ Len(done) = sweep.samples /\ at' = "ended"
      /\ sweep' = sweep /\ done' = done /\ lines' = lines /\ state' = state
  BY DEF PublishSummary
<1>2. summary'.rows = done
  BY DEF PublishSummary
<1>3. ~Resumes => summary'.selection = ChooseSetting
  BY DEF PublishSummary
<1>4. ChooseSetting' = ChooseSetting
  BY <1>1, ChoiceOfRows
<1>5. SummaryInv'
  BY <1>1, <1>2, <1>3, <1>4 DEF SummaryInv, Resumes
<1>6. DoneInv' /\ MeasuredInv' /\ DirectoryInv'
  BY <1>1 DEF SweepInv, DoneInv, MeasuredInv, DirectoryInv, Resumes, Passes
<1> QED BY <1>1, <1>5, <1>6 DEF SweepInv

\* and being killed, between two rows or within one.
LEMMA SweepKilled == ASSUME SweepInv, KilledSweep PROVE SweepInv'
<1>1. /\ sweep' = sweep /\ at' = "failed" /\ done' = <<>> /\ state' = state
  BY DEF KilledSweep, KilledState
<1>2. sweep.samples \in Nat
  BY SweepAssumption DEF SweepInv, SweepAssumption
<1>3. DoneInv' /\ MeasuredInv' /\ SummaryInv'
  BY <1>1, <1>2 DEF DoneInv, MeasuredInv, SummaryInv
<1>4. DirectoryInv'
  <2>1. CASE lines' = lines
    BY <1>1, <2>1 DEF SweepInv, DirectoryInv, Resumes
  <2>2. CASE at = "samples" /\ \E row \in Rows \cup {Torn} : lines' = Appended(row)
    BY <1>1, <2>2, AppendedKeepsDirectory
  <2> QED BY <2>1, <2>2 DEF KilledSweep
<1> QED BY <1>1, <1>3, <1>4 DEF SweepInv

\* The invariant of an evaluation, whatever is killed, resumed and attempted.
THEOREM SweepHolds == SweepSpec => []SweepInv
<1>1. SweepInit => SweepInv
  BY SweepStarts
<1>2. SweepInv /\ [SweepNext]_sweepVars => SweepInv'
  <2>1. CASE SweepNext
    BY <2>1, SweepLaunch, SweepBegin, SweepRead, SweepTake, SweepEvaluate, SweepPublish, SweepKilled
       DEF SweepNext
  <2>2. CASE UNCHANGED sweepVars
    <3>1. /\ sweep' = sweep /\ at' = at /\ done' = done /\ state' = state
          /\ lines' = lines /\ summary' = summary
      BY <2>2 DEF sweepVars
    <3>2. ChooseSetting' = ChooseSetting
      BY <3>1, ChoiceOfRows
    <3> QED BY <3>1, <3>2 DEF SweepInv, DoneInv, MeasuredInv, DirectoryInv, SummaryInv, Resumes, Passes
  <2> QED BY <2>1, <2>2
<1> QED BY <1>1, <1>2, PTL DEF SweepSpec

\* A summary counts every sample of its data set once, in order: of a calibration by
\* its own rows, of a budget sweep by rows of evaluations that have its checkpoint,
\* settings and samples.
THEOREM SamplesCountedOnce == SweepSpec => []SummaryCountsEachOnce
<1>1. SweepInv => SummaryCountsEachOnce
  <2> SUFFICES ASSUME SweepInv, at = "ended" PROVE
        /\ [i \in DOMAIN summary.rows |-> summary.rows[i].sample] = [i \in 1..sweep.samples |-> i]
        /\ \A i \in DOMAIN summary.rows : Passes(summary.rows[i].sweep)
    BY DEF SummaryCountsEachOnce, Passes
  <2>1. /\ summary.rows = done /\ DOMAIN done = 1..sweep.samples
        /\ \A i \in DOMAIN done : done[i].sample = i /\ Passes(done[i].sweep)
    BY DEF SweepInv, SummaryInv, DoneInv
  <2> QED BY <2>1
<1> QED BY <1>1, SweepHolds, PTL

\* What the thresholds of a calibration retain is nested and leaves every cluster its
\* floor, or what it had; and the one that is accepted retains least of those that are
\* acceptable.
THEOREM ThresholdsNest == SweepSpec => []ThresholdsAreNested
<1>1. SweepInv => ThresholdsAreNested
  <2> SUFFICES ASSUME SweepInv, at = "ended", ~Resumes PROVE
        /\ \A i \in DOMAIN done, t, u \in Thresholds :
             t <= u => done[i].retained[u] \subseteq done[i].retained[t]
        /\ \A i \in DOMAIN done, t \in Thresholds : FloorHolds(done[i], t)
        /\ summary.selection.status = "accepted" =>
             \A t \in Thresholds :
               Acceptable(t) => RetainedRatio(summary.selection.threshold) <= RetainedRatio(t)
    BY DEF ThresholdsAreNested
  <2>1. \A i \in DOMAIN done : Measured(done[i])
    BY DEF SweepInv, MeasuredInv
  <2>2. \A i \in DOMAIN done, t, u \in Thresholds :
             t <= u => done[i].retained[u] \subseteq done[i].retained[t]
    <3> SUFFICES ASSUME NEW i \in DOMAIN done, NEW t \in Thresholds, NEW u \in Thresholds, t <= u
                 PROVE  done[i].retained[u] \subseteq done[i].retained[t]
      OBVIOUS
    <3>1. PICK usage \in Usages : \A x \in Thresholds : done[i].retained[x] = Retained(usage, x)
      BY <2>1 DEF Measured
    <3>2. Retained(usage, u) \subseteq Retained(usage, t)
      BY RetainedNest
    <3> QED BY <3>1, <3>2
  <2>3. \A t \in Thresholds : RetainedRatio(t) \in Nat
    <3> TAKE t \in Thresholds
    <3> DEFINE f == [i \in DOMAIN done |-> (1000 * Cardinality(done[i].retained[t])) \div done[i].records]
    <3>1. IsFiniteSet(DOMAIN done)
      <4>1. DOMAIN done = 1..Len(done) /\ Len(done) \in Nat
        BY DEF SweepInv, DoneInv
      <4> QED BY <4>1, FS_Interval
    <3>2. \A i \in DOMAIN done : f[i] \in Nat
      <4> TAKE i \in DOMAIN done
      <4>1. PICK usage \in Usages :
              /\ done[i].records = Cardinality(RecordsOf(usage))
              /\ done[i].retained[t] = Retained(usage, t)
        BY <2>1 DEF Measured
      <4>2. IsFiniteSet(RecordsOf(usage)) /\ done[i].records \in Nat \ {0}
        BY <4>1, RecordsCounted
      <4>3. done[i].retained[t] \subseteq RecordsOf(usage)
        BY <4>1 DEF Retained
      <4>4. Cardinality(done[i].retained[t]) \in Nat
        BY <4>2, <4>3, FS_Subset, FS_CardinalityType
      <4> QED BY <4>2, <4>4
    <3>3. Total(f) \in Nat
      <4>1. DOMAIN f = DOMAIN done
        OBVIOUS
      <4> HIDE DEF f
      <4> QED BY <3>1, <3>2, <4>1, TotalIsNumber
    <3>4. f = [i \in DOMAIN done |->
                 (1000 * Cardinality(done[i].retained[t])) \div done[i].records]
      BY SameCardinality
    <3> HIDE DEF f
    <3> QED BY <3>3, <3>4 DEF RetainedRatio
  <2>4. ASSUME summary.selection.status = "accepted", NEW t \in Thresholds, Acceptable(t)
        PROVE  RetainedRatio(summary.selection.threshold) <= RetainedRatio(t)
    <3> DEFINE E == {x \in Thresholds : Acceptable(x)}
               r == [x \in E |-> RetainedRatio(x)]
               First1(x) == \A u \in E \ {x} : r[x] < r[u] \/ (r[x] = r[u] /\ x < u)
    <3>1. E \in SUBSET Nat /\ E # {}
      BY SweepAssumption, <2>4 DEF SweepAssumption
    <3>2. \A x \in E : r[x] = RetainedRatio(x) /\ r[x] \in Nat
      BY <2>3
    <3>3. \E x \in E : First1(x)
      <4> HIDE DEF E, r
      <4> QED BY <3>1, <3>2, CheapestExists
    <3>4. summary.selection = ChooseSetting
      BY DEF SweepInv, SummaryInv
    <3>5. ChooseSetting.threshold =
            CHOOSE x \in E : \A u \in E \ {x} :
              \/ RetainedRatio(x) < RetainedRatio(u)
              \/ RetainedRatio(x) = RetainedRatio(u) /\ x < u
      BY <3>1 DEF ChooseSetting
    <3>6. \E x \in E : \A u \in E \ {x} :
              \/ RetainedRatio(x) < RetainedRatio(u)
              \/ RetainedRatio(x) = RetainedRatio(u) /\ x < u
      BY <3>2, <3>3
    <3> HIDE DEF E
    <3>7. LET c == ChooseSetting.threshold
          IN  c \in E /\ \A u \in E \ {c} :
              \/ RetainedRatio(c) < RetainedRatio(u)
              \/ RetainedRatio(c) = RetainedRatio(u) /\ c < u
      BY <3>5, <3>6
    <3>8. t \in E
      BY <2>4 DEF E
    <3> QED BY <3>2, <3>4, <3>7, <3>8
  <2>5. ASSUME NEW i \in DOMAIN done, NEW t \in Thresholds PROVE FloorHolds(done[i], t)
    <3>1. PICK usage \in Usages :
            /\ done[i].clusters = [c \in DOMAIN usage |-> Len(usage[c])]
            /\ done[i].retained[t] = Retained(usage, t)
      BY <2>1 DEF Measured
    <3>2. ASSUME NEW c \in DOMAIN done[i].clusters
          PROVE  \/ Cardinality(RetainedOf(done[i], c, t)) >= MinRecords
                 \/ Cardinality(RetainedOf(done[i], c, t)) = done[i].clusters[c]
      <4> DEFINE left == {r \in Retained(usage, t) : r[1] = c}
      <4>1. c \in DOMAIN usage /\ done[i].clusters[c] = Len(usage[c])
        BY <3>1, <3>2
      <4>2. RetainedOf(done[i], c, t) = left
        BY <3>1 DEF RetainedOf
      <4>3. Cardinality(left) >= MinRecords \/ Cardinality(left) = Len(usage[c])
        BY <4>1, RetainedCounts
      <4> HIDE DEF left
      <4> QED BY <4>1, <4>2, <4>3
    <3> QED BY <3>2 DEF FloorHolds
  <2> QED BY <2>2, <2>4, <2>5
<1> QED BY <1>1, SweepHolds, PTL
==============================================================================
