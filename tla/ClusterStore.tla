----------------------------- MODULE ClusterStore -----------------------------
(***************************************************************************)
(* What a cluster memory promises, without slots, indices, free lists or   *)
(* locality: a map from cluster ids to disjoint sets of records.  A batch  *)
(* of new records joins existing clusters or opens clusters under ids that *)
(* were never used before; an eviction removes records without taking a    *)
(* cluster below the floor, and a cluster that becomes empty is gone for   *)
(* good.  No record ever moves.                                            *)
(***************************************************************************)
EXTENDS Integers, FiniteSets

CONSTANTS
  WriteChunk,  \* the largest batch of new records
  MinRecords,  \* the floor an eviction respects
  MaxSerial    \* bound: records ever ingested

VARIABLES
  clusters,  \* cluster id -> the set of its records
  used,      \* the cluster ids given out so far
  serial     \* the number of records ingested so far

storeVars == <<clusters, used, serial>>

Init == clusters = [c \in {} |-> {}] /\ used = {} /\ serial = 0

\* The records serial+1 .. serial+n arrive, each in one cluster.
Ingest ==
  /\ DOMAIN clusters \subseteq DOMAIN clusters'
  /\ (DOMAIN clusters' \ DOMAIN clusters) \cap used = {}
  /\ used' = used \cup DOMAIN clusters'
  /\ serial' - serial \in 1..WriteChunk
  /\ \A c \in DOMAIN clusters' :
       /\ clusters'[c] # {}
       /\ clusters'[c] \ ((serial + 1)..serial') =
            IF c \in DOMAIN clusters THEN clusters[c] ELSE {}
  /\ \A d \in (serial + 1)..serial' :
       \E c \in DOMAIN clusters' :
         /\ d \in clusters'[c]
         /\ \A b \in DOMAIN clusters' \ {c} : d \notin clusters'[b]

\* Records leave their clusters, within the floor; empty clusters disappear.
Evict ==
  /\ \A c \in DOMAIN clusters' : c \in DOMAIN clusters /\ clusters'[c] # {}
  /\ \A c \in DOMAIN clusters :
       LET left == IF c \in DOMAIN clusters' THEN clusters'[c] ELSE {}
       IN /\ left \subseteq clusters[c]
          /\ left = clusters[c] \/ Cardinality(left) >= MinRecords
  /\ UNCHANGED <<used, serial>>

Next == Ingest \/ Evict

Spec == Init /\ [][Next]_storeVars
==============================================================================
