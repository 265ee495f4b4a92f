----------------------------- MODULE SparseReplay -----------------------------
(***************************************************************************)
(* The answers an evaluation produces from what a collection pass left: in *)
(* each condition some history is chosen, attached in front of the local   *)
(* cache, and the answer's queries are forwarded over both.  There are     *)
(* three ways to do that: all queries in one masked forward, one query at  *)
(* a time over a cache trimmed before each, and generation over a window   *)
(* that sheds whole blocks.  For each query the module records which       *)
(* entries it attended to, in memory and locally, and the token each holds.*)
(* The order in which they are packed is left out: attention sums over     *)
(* them.                                                                   *)
(***************************************************************************)
EXTENDS MechanicalBlocks, SequencesExt

CONSTANTS
  Answer,         \* future_horizon_length and maximum_new_tokens
  TopN,           \* top_n of the retrieval policy
  RetrievalLimit, \* maximum_retrieval_blocks
  Whole,          \* bound: masses are compared in multiples of 1 / Whole
  Missing,        \* missing_mass_tolerance, in the same unit
  Parts           \* bound: the most units of probability a candidate has

ReplayAssumption ==
  /\ Answer \in Nat \ {0}
  /\ TopN \in Nat \ {0}
  /\ RetrievalLimit \in {-1} \cup (Nat \ {0})
  /\ Whole \in Nat /\ Missing \in 1..(Whole - 1)
  /\ Parts \in Nat \ {0}

VARIABLES
  plan,       \* the retrieval plan
  stored,     \* the tokens of a layer's cluster memory, in order of ingestion
  rolled,     \* the local cache of the rolling pass
  aligned,    \* the local cache of the block-aligned pass
  captured,   \* candidate block -> the tokens captured for it
  evaluator,  \* the evaluation that runs
  left,       \* its conditions that have not begun
  chosen,     \* what the condition attaches: starts of blocks, or tokens
  budget,     \* matched_budget: how many blocks the router chose
  scores,     \* candidate -> its probability, where a router or the teacher chose
  window,     \* the tokens whose K/V the local cache holds
  positions,  \* the logical positions the mask is built from
  views,      \* per answered query: the entries attended to, in memory and locally
  phase       \* "choose", "answer", "finished", "error"

sources == <<plan, stored, rolled, aligned, captured>>
replayVars == <<evaluator, left, chosen, budget, scores, window, positions, views, phase>>

\* The conditions of each evaluation, in the order it runs them for a sample.
SessionProgramme == <<"full", "local", "clusters">>
CalibrationProgramme == <<"full", "everything", "clusters">>
TokenwiseProgramme == <<"full", "local", "predicted", "oracle", "recent">>
QAProgramme == <<"full", "local", "router">>
SmokeProgramme == <<"full", "router", "all">>
RegionProgramme == <<"full", "local", "all", "region">>
HardProgramme == <<"full", "region", "all">>
TrainingProgramme == <<"full", "all", "gated">>

Programme ==
  [session |-> SessionProgramme, calibration |-> CalibrationProgramme,
   tokenwise |-> TokenwiseProgramme, qa |-> QAProgramme, smoke |-> SmokeProgramme,
   region |-> RegionProgramme, hard |-> HardProgramme, training |-> TrainingProgramme]

OverRecords == evaluator \in {"session", "calibration"}
Generates == evaluator \in {"qa", "smoke", "region"}
OverCaptured == evaluator \in {"region", "hard", "training"}

Init ==
  /\ evaluator \in DOMAIN Programme
  /\ left = Programme[evaluator]
  /\ chosen = {} /\ budget = 0
  /\ scores = [s \in {} |-> 0]
  /\ window = <<>> /\ positions = <<>> /\ views = <<>>
  /\ phase = "choose"

------------------------------------------------------------------------------
\* Which history a condition attaches.
Budgeted(n) == {S \in SUBSET plan.candidates : Cardinality(S) = n}
AtMost(n, m) == IF n <= m THEN n ELSE m

\* decide_retrieval: the top_n best, or those of them above a threshold; which
\* candidates score best is open.
Predicted ==
  {S \in SUBSET plan.candidates : Cardinality(S) <= AtMost(TopN, Cardinality(plan.candidates))}

\* recent_indices: the candidates that end last.
Recent(n) == {s \in plan.candidates : Cardinality({t \in plan.candidates : t > s}) < n}

\* Candidates by descending probability, ties either way.
Ranked(p) ==
  {o \in SetToSeqs(plan.candidates) : \A i \in 1..(Len(o) - 1) : p[o[i]] >= p[o[i + 1]]}

\* The probability of S under p, counted unit by unit.
Mass(p, S) == Cardinality({u \in S \X (1..Parts) : u[2] <= p[u[1]]})

\* Mutant: a block counts towards the mass before itself.
RetainedCumulative(p, o) ==
  {i \in DOMAIN o : Whole * Mass(p, {o[j] : j \in 1..i}) < (Whole - Missing) * Mass(p, plan.candidates)}

\* The ranks before which the mass that must be retained is not reached.
Retained(p, o) ==
  {i \in DOMAIN o : Whole * Mass(p, {o[j] : j \in 1..(i - 1)})
                      < (Whole - Missing) * Mass(p, plan.candidates)}

\* minimum_cumulative_mass_mask; the teacher's oracle sets no limit.
MassSelections(p, limit) ==
  {{o[i] : i \in {j \in Retained(p, o) : limit = -1 \/ j <= limit}} : o \in Ranked(p)}

Limit == IF evaluator = "smoke" THEN -1 ELSE RetrievalLimit

\* Mutant: the cut goes one block further back than the candidates end.
CutOverlapping == [i \in 1..(plan.end - BlockOf(plan.start) + BlockSize) |->
                     BlockOf(plan.start) - BlockSize + i - 1]

\* The local slice cut from one full-context prefix, from a block boundary on.
Cut == [i \in 1..(plan.end - BlockOf(plan.start)) |-> BlockOf(plan.start) + i - 1]

\* A full-context run has forwarded the whole prefix.
FullPrefix == [i \in 1..plan.end |-> i - 1]

\* RestrictedStudentCollector.collect_local_cache forwards the planned local context
\* again, without what came before it.
Recollected == [i \in 1..LocalContext |-> plan.start + i - 1]

\* The local cache a condition starts from.
Start(condition) ==
  IF condition = "full" THEN FullPrefix
  ELSE IF OverRecords THEN rolled
  ELSE IF OverCaptured THEN aligned
  ELSE IF evaluator = "tokenwise" THEN Recollected
  ELSE Cut

\* _generate_sparse_replay accepts only a contiguous window on a block boundary
\* of a length in [local, local + block) that ends right before the first query.
Acceptable(w) ==
  /\ Len(w) \in LocalContext..(LocalContext + BlockSize - 1)
  /\ w[1] % BlockSize = 0
  /\ \A i \in 1..(Len(w) - 1) : w[i + 1] = w[i] + 1
  /\ w[Len(w)] + 1 = plan.end

\* The history is chosen and the local cache taken anew from what was collected.
Begin(condition, S, p) ==
  /\ phase = "choose"
  /\ left # <<>>
  /\ Head(left) = condition
  /\ left' = Tail(left)
  /\ chosen' = S
  /\ budget' = IF condition = "predicted" THEN Cardinality(S) ELSE budget
  /\ scores' = p
  /\ window' = Start(condition)
  /\ positions' = Start(condition)
  /\ views' = <<>>
  /\ phase' = IF Generates /\ condition # "full" /\ ~Acceptable(Start(condition))
                THEN "error" ELSE "answer"
  /\ UNCHANGED evaluator

NoScores == [s \in {} |-> 0]

\* A full-context run, and one with the local cache alone.
BeginPlain == \E c \in {"full", "local"} : Begin(c, {}, NoScores)

\* Selected clusters hold tokens of several blocks: here all tokens of some
\* residues modulo the block size.
BeginClusters ==
  \E R \in SUBSET (0..(BlockSize - 1)) :
    Begin("clusters", {t \in Range(stored) : t % BlockSize \in R}, NoScores)

\* packed_full_memory: every record.
BeginEverything == Begin("everything", Range(stored), NoScores)

BeginPredicted == \E S \in Predicted : Begin("predicted", S, NoScores)

\* The teacher's best and the newest blocks, as many as the router chose.
BeginMatched ==
  \/ \E S \in Budgeted(AtMost(budget, Cardinality(plan.candidates))) : Begin("oracle", S, NoScores)
  \/ Begin("recent", Recent(budget), NoScores)

BeginRouter ==
  \E p \in [plan.candidates -> 0..Parts] :
    /\ Mass(p, plan.candidates) > 0
    /\ \E S \in MassSelections(p, Limit) : Begin("router", S, p)

\* Every candidate, attached as it is or behind the gates of the training pass,
\* which weaken a block but never hide it.
BeginAll == \E c \in {"all", "gated"} : Begin(c, plan.candidates, NoScores)

\* The candidates inside the query's region.
BeginRegion == \E S \in SUBSET plan.candidates : Begin("region", S, NoScores)

------------------------------------------------------------------------------
\* The K/V packed for what was chosen: entry -> the token it holds.  Records are
\* entries of their own, blocks have one for each of their tokens.
PackedRecords == Restrict(stored, {i \in DOMAIN stored : stored[i] \in chosen})

PackedCaptured == [u \in chosen \X (1..BlockSize) |-> captured[u[1]][u[2]]]

PackedBlocks == [u \in chosen \X (1..BlockSize) |-> u[1] + u[2] - 1]

History ==
  IF OverRecords THEN PackedRecords ELSE IF OverCaptured THEN PackedCaptured ELSE PackedBlocks

\* The attention of the static adapter: the native mask gets a prefix of zeros, so
\* that every query sees the whole history besides its local keys.
Attended(local) == [memory |-> History, local |-> local]

\* build_rolling_local_mask: the cache entries query q sees, itself included.
Visible(cached, at, q, reach) ==
  Restrict(cached, {i \in DOMAIN cached : at[i] <= q /\ at[i] > q - reach})

\* The condition that is being answered.
Current == Programme[evaluator][Len(Programme[evaluator]) - Len(left)]

Full == Current = "full"

Queries == [k \in 1..Answer |-> plan.end + k - 1]

Query == plan.end + Len(views)

\* Mutant: generation and the region runs use the mask of the rolling pass.
ReachOfRolling == LocalContext

\* The mask of a block-aligned window.
AlignedReach == LocalContext + BlockSize

\* All queries of the horizon in one forward that adds them to the cache.
AtOnce(reach) ==
  /\ views = <<>>
  /\ window' = window \o Queries
  /\ positions' = positions \o Queries
  /\ views' = [k \in 1..Answer |-> Attended(Visible(window', positions', Queries[k], reach))]
  /\ UNCHANGED <<evaluator, left, chosen, budget, scores, phase>>

\* The teacher-forced full-context reference, under the causal mask alone.
AnswerFull == phase = "answer" /\ Full /\ ~Generates /\ AtOnce(plan.end + Answer)

\* The session's conditions: the mask counts the query itself.
AnswerSession == phase = "answer" /\ ~Full /\ OverRecords /\ AtOnce(LocalContext)

\* A hard or gated region.
AnswerRegion ==
  phase = "answer" /\ ~Full /\ evaluator \in {"hard", "training"} /\ AtOnce(AlignedReach)

\* trim_prefix_and_local_kv: the history stays, of the local entries the newest n.
Trimmed(n) == IF Len(window) <= n THEN window ELSE SubSeq(window, Len(window) - n + 1, Len(window))

\* One query at a time over a cache trimmed to leave room for it; the mask of
\* build_sparse_prefix_mask is causal only.
AnswerTokenwise ==
  /\ phase = "answer"
  /\ evaluator = "tokenwise" /\ ~Full
  /\ Len(views) < Answer
  /\ window' = Append(Trimmed(LocalContext - 1), Query)
  /\ positions' = window'
  /\ views' = Append(views, Attended(window'))
  /\ UNCHANGED <<evaluator, left, chosen, budget, scores, phase>>

\* One token generated over the growing cache of the whole prompt, to which nothing
\* is attached.
GenerateFull ==
  /\ phase = "answer"
  /\ Generates /\ Full
  /\ Len(views) < Answer
  /\ window' = Append(window, Query)
  /\ positions' = Append(positions, Query)
  /\ views' = Append(views, [memory |-> <<>>, local |-> window'])
  /\ UNCHANGED <<evaluator, left, chosen, budget, scores, phase>>

\* One token generated over history and window; a window that reached local + block
\* sheds one block, the cache by its length, the positions by the size of a block.
GenerateSparse ==
  /\ phase = "answer"
  /\ Generates /\ ~Full
  /\ Len(views) < Answer
  /\ LET cached == Append(window, Query)
         at == Append(positions, Query)
         shed == Len(at) = LocalContext + BlockSize
     IN  /\ views' = Append(views, Attended(Visible(cached, at, Query, AlignedReach)))
         /\ window' = IF shed THEN SubSeq(cached, Len(cached) - LocalContext + 1, Len(cached)) ELSE cached
         /\ positions' = IF shed THEN SubSeq(at, BlockSize + 1, Len(at)) ELSE at
  /\ UNCHANGED <<evaluator, left, chosen, budget, scores, phase>>

\* The horizon is answered, the limit reached, or generation met the end token.
Answered ==
  /\ phase = "answer"
  /\ Len(views) = Answer \/ (Generates /\ views # <<>>)
  /\ phase' = "choose"
  /\ UNCHANGED <<evaluator, left, chosen, budget, scores, window, positions, views>>

Finish ==
  /\ phase = "choose"
  /\ left = <<>>
  /\ phase' = "finished"
  /\ UNCHANGED <<evaluator, left, chosen, budget, scores, window, positions, views>>

Next ==
  \/ BeginPlain \/ BeginClusters \/ BeginEverything \/ BeginPredicted
  \/ BeginMatched \/ BeginRouter \/ BeginAll \/ BeginRegion
  \/ AnswerFull \/ AnswerSession \/ AnswerRegion \/ AnswerTokenwise
  \/ GenerateFull \/ GenerateSparse \/ Answered \/ Finish

------------------------------------------------------------------------------
\* The tokens a view shows.
Seen(v) == Range(v.memory) \cup Range(v.local)

\* The type of every variable of the replay.
TypeOK ==
  /\ evaluator \in DOMAIN Programme
  /\ Len(left) <= Len(Programme[evaluator])
  /\ chosen \subseteq 0..plan.end
  /\ budget \in 0..TopN
  /\ window \in Seq(Nat) /\ positions \in Seq(Nat)
  /\ Len(views) <= Answer
  /\ \A k \in DOMAIN views : DOMAIN views[k] = {"memory", "local"}
  /\ phase \in {"choose", "answer", "finished", "error"}

\* Every query sees each token at most once, be it in memory or locally, none
\* after itself, and the last LocalContext tokens up to itself, whatever was
\* chosen and however the cache was trimmed; mask and cache name the same tokens.
AnswersSeeOnce ==
  /\ TypeOK
  /\ phase # "error"
  /\ window = positions
  /\ \A k \in DOMAIN views :
       /\ IsInjective(views[k].memory) /\ IsInjective(views[k].local)
       /\ Range(views[k].memory) \cap Range(views[k].local) = {}
       /\ Seen(views[k]) \subseteq 0..(plan.end + k - 1)
       /\ (plan.end + k - LocalContext)..(plan.end + k - 1) \subseteq Seen(views[k])

AllAttached ==
  Current \in {"full", "all", "gated", "everything"} \/ (Current # "clusters" /\ chosen = plan.candidates)

\* With the whole history attached a query misses only one stretch between the
\* history and the local context.  The full-context reference misses nothing, and
\* neither does the first query of a block-aligned replay; elsewhere the stretch
\* is at most the rest of a block and a token per query.
NothingLostAtTheCut ==
  views # <<>> /\ AllAttached =>
    \A k \in DOMAIN views :
      LET lost == {t \in (IF Full \/ OverRecords THEN 0
                          ELSE Min(plan.candidates))..(plan.end + k - 1) : t \notin Seen(views[k])}
      IN  /\ lost = {} \/ lost = Min(lost)..Max(lost)
          /\ Cardinality(lost) < BlockSize + k
          /\ Full => lost = {}
          /\ (Generates \/ OverCaptured) /\ k = 1 => lost = {}

\* A selection by cumulative mass that no limit cut short retains the mass asked
\* for, and no smaller set of blocks does.
SelectionMinimal ==
  DOMAIN scores # {} /\ Limit = -1 =>
    LET Enough(S) == Whole * Mass(scores, S) >= (Whole - Missing) * Mass(scores, plan.candidates)
    IN  /\ Enough(chosen)
        /\ \A S \in SUBSET plan.candidates :
             Enough(S) => Cardinality(S) >= Cardinality(chosen)
==============================================================================
