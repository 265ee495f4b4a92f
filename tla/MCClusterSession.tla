-------------------------- MODULE MCClusterSession --------------------------
(* A small memory: two locality codes one bit apart, probed exact first.   *)
EXTENDS ClusterSession, TLC

MCProbes == (0 :> <<0, 1>>) @@ (1 :> <<1, 0>>)

MCProbesOne == (0 :> <<0>>)
==============================================================================
