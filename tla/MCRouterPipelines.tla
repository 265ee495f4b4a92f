-------------------------- MODULE MCRouterPipelines --------------------------
(* Each kind of pipeline, in the output root and in a temporary workspace,   *)
(* with inputs that are kept and inputs that are removed; two splits.        *)
EXTENDS RouterPipelines

MCSplits == <<"train", "test">>

MCJobs == [kind : Kinds, tmp : BOOLEAN, ephemeral : BOOLEAN]

\* A kill may leave the markers of the collections without their data, the evaluations
\* without the training they are of, or a summary without its checkpoint.
MCRemnants ==
  LET markers == {Collection(s) : s \in ToSet(MCSplits)}
      results == {Replay} \cup UNION {{Evaluation(s), Answers(s)} : s \in ToSet(MCSplits)}
      data == {Dataset(s) : s \in ToSet(MCSplits)}
  IN {markers, markers \cup data \cup results, markers \cup data \cup {Summary, Metrics}}

MCEvaluationJobs == {j \in MCJobs : j.kind = "evaluation"}
==============================================================================
