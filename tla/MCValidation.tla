----------------------------- MODULE MCValidation -----------------------------
(* Jobs and collections by hand over three samples and five configurations.    *)
EXTENDS ValidationPipeline
CONSTANTS s1, s2, s3

MCArtifacts == <<"metrics.json", "sample_metrics.jsonl", "condition_summary.csv">>

\* A plain dataset that stops at its first failure, one that goes on, one cut to
\* a sample per collection, and one that emits an id twice.
MCConfigs ==
    {[dataset |-> <<s1, s2, s3>>, maximum |-> 0, continue_on_error |-> FALSE],
     [dataset |-> <<s1, s2>>, maximum |-> 0, continue_on_error |-> TRUE],
     [dataset |-> <<s1, s2>>, maximum |-> 0, continue_on_error |-> FALSE],
     [dataset |-> <<s1, s2, s3>>, maximum |-> 1, continue_on_error |-> FALSE],
     [dataset |-> <<s1, s2, s1>>, maximum |-> 0, continue_on_error |-> TRUE]}
==============================================================================
