---------------------------- MODULE MCEvaluations ----------------------------
(* The pipelines of the block router, or one of the evaluations that compare   *)
(* thresholds or budgets over a data set.                                      *)
EXTENDS MCRouterPipelines, ReplaySweeps

\* Two of the budget sweeps differ only in the collection they read.
MCSweeps ==
  {[program |-> "thresholds", checkpoint |-> 0, collection |-> 1, samples |-> 2],
   [program |-> "topn", checkpoint |-> 1, collection |-> 1, samples |-> 3],
   [program |-> "topn", checkpoint |-> 1, collection |-> 2, samples |-> 3],
   [program |-> "topn", checkpoint |-> 2, collection |-> 1, samples |-> 2]}

\* Two replays: clusters of three records and one, clusters of two.
MCUsages == {<< <<1, 0, 2>>, <<0>> >>, << <<1, 1>>, <<2, 0>> >>}

VARIABLE turn   \* the one that is worked on, the other stays as it was created

EitherInit ==
  /\ Init /\ SweepInit
  /\ \/ turn = "pipeline" /\ sweep = CHOOSE s \in MCSweeps : TRUE
     \/ turn = "sweep" /\ job = CHOOSE j \in Jobs : TRUE

EitherNext ==
  \/ turn = "pipeline" /\ Next /\ UNCHANGED <<turn, sweepVars>>
  \/ turn = "sweep" /\ SweepNext /\ UNCHANGED <<turn, vars>>

\* Each runs on while it can and is started again after a kill.
EitherSpec ==
  /\ EitherInit /\ [][EitherNext]_<<turn, vars, sweepVars>>
  /\ WF_<<turn, vars, sweepVars>>(turn = "pipeline" /\ Step /\ UNCHANGED <<turn, sweepVars>>)
  /\ WF_<<turn, vars, sweepVars>>(turn = "sweep" /\ Progress /\ UNCHANGED <<turn, vars>>)

\* Killed between two stages, or while it trains, a pipeline launched again finishes;
\* and a sweep ends, unless a kill tore a line that is resumed or one with another state
\* took its directory.
ResumedEnds == (turn = "pipeline" => ResumesBetweenWrites) /\ SweepEnds
==============================================================================
