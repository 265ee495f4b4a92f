------------------------- MODULE MCContextCollectors -------------------------
(* The two collectors on one plan, the block-aligned one after the rolling   *)
(* one, and then the evaluations on what both have left.  The state of the   *)
(* first is RollingContext's own; that of the others has names of its own    *)
(* where the modules share one.                                              *)
EXTENDS RollingContext

CONSTANTS TopN, RetrievalLimit, Whole, Missing, Parts

VARIABLES
  alignedPosition, alignedCache, alignedStart, alignedReady, summaries, captured,
  evicted, alignedHidden, alignedStage

alignedVars == <<alignedPosition, alignedCache, alignedStart, alignedReady, summaries,
                 captured, evicted, alignedHidden, alignedStage>>

VARIABLES evaluator, left, chosen, budget, scores, window, positions, views, phase

answerVars == <<evaluator, left, chosen, budget, scores, window, positions, views, phase>>

Aligned == INSTANCE BlockAlignedContext WITH
  position <- alignedPosition, cache <- alignedCache, cacheStart <- alignedStart,
  ready <- alignedReady, hidden <- alignedHidden, stage <- alignedStage

Replay == INSTANCE SparseReplay WITH
  Answer <- Horizon, rolled <- cache, aligned <- alignedCache,
  stored <- [i \in 1..Len(memory[1]) |-> memory[1][i][2]]

ASSUME CollectorsAssumption == Aligned!AlignedAssumption /\ Replay!ReplayAssumption

BothInit == Init /\ Aligned!Init /\ Replay!Init

\* The rolling collector carries the plan out, then the block-aligned one, then an
\* evaluation answers.
BothNext ==
  \/ Next /\ UNCHANGED <<alignedVars, answerVars>>
  \/ stage = "done" /\ Aligned!Next /\ UNCHANGED <<vars, answerVars>>
  \/ alignedStage = "done" /\ Replay!Next /\ UNCHANGED <<vars, alignedVars>>

\* Each of them is one loop of one thread: while it can take a step it takes it.
BothSpec ==
  /\ BothInit /\ [][BothNext]_<<vars, alignedVars, answerVars>>
  /\ WF_<<vars, alignedVars, answerVars>>(BothNext)

\* Window, captured blocks and waiting keys of the block-aligned collector account
\* for every token and every complete block forwarded so far, and between two
\* forward passes its window keeps to the bounds the documents state.
BlocksAccounted == Aligned!BlocksAccounted /\ Aligned!WindowBounds

\* For one plan the two collectors hand over the same K/V of every candidate block,
\* though one cuts single pieces out of a window of fixed length, layer by layer,
\* and the other unloads whole blocks late from a window that grows; and the window
\* the latter ends with is the slice an evaluation cuts from a full-context prefix.
\* The router is trained on the one and serves the others.
CollectorsAgree ==
  alignedStage = "done" =>
    /\ \A s \in plan.candidates, l \in 1..Layers :
         captured[s] = [i \in 1..BlockSize |-> memory[l][s + i][2]]
    /\ alignedCache = Replay!Cut

\* The rolling collector forwards every token of the sequence over all before it and
\* hands over each candidate block whole, whatever plan the planner accepts.
RollingServesPlan == HistorySeenOnce /\ PlanIsServed

\* Whatever history an evaluation attaches to the collected window, and in whatever
\* way it answers, a query sees each token at most once, none after itself, and
\* its local context; and with the whole history attached the replay of a full-context
\* answer misses no token but the few that leave the window while it answers.
AnswersSeeTheirHistory == Replay!AnswersSeeOnce /\ Replay!NothingLostAtTheCut

\* Selecting by cumulative mass returns the smallest set that retains the mass.
SelectionMinimal == Replay!SelectionMinimal

\* Both passes end without an error, and so does the evaluation: the candidates of
\* a plan, which counts its local context from the retrieval point, are the blocks
\* a window of fixed length has let go by then and exactly the newest blocks a
\* block-aligned one has unloaded.
BothFinish == <>(stage = "done" /\ alignedStage = "done" /\ phase = "finished")

\* Each collector implements the stream of tokens through window and memory.
BothImplementStream == ImplementsStream /\ Aligned!ImplementsStream
==============================================================================
