-------------------------- MODULE MechanicalBlocks --------------------------
(***************************************************************************)
(* The plan a rolling pass follows (learnable_index/planning.py): a        *)
(* sequence is cut into blocks at multiples of the block size, and a       *)
(* retrieval point fixes the local context that ends just after it and the *)
(* candidate blocks, which end before that context starts.                 *)
(***************************************************************************)
EXTENDS Integers, FiniteSets

CONSTANTS
  LocalContext,       \* local_context_length
  BlockSize,          \* block_size
  MinimumCandidates,  \* minimum_candidate_blocks
  MaximumCandidates   \* maximum_candidate_blocks

ASSUME BlocksAssumption ==
  /\ LocalContext \in Nat \ {0}
  /\ BlockSize \in Nat \ {0}
  /\ LocalContext % BlockSize = 0
  /\ MinimumCandidates \in Nat \ {0}
  /\ MaximumCandidates \in Nat /\ MaximumCandidates >= MinimumCandidates

BlockOf(t) == t - (t % BlockSize)

\* mechanical_blocks: the starts of the complete blocks of n tokens.
FullBlocks(n) == {s \in 0..(n - BlockSize) : s % BlockSize = 0}

FirstRetrieval == LocalContext + MinimumCandidates * BlockSize - 1

LastRetrieval(tokens, horizon) == tokens - horizon - 2

\* The newest blocks of S, as many as a plan may have.
Newest(S) == {s \in S : Cardinality({t \in S : t > s}) < MaximumCandidates}

\* Mutant: the block the local context starts in is a candidate.
PlanStraddling(tokens, position) ==
  [start |-> position + 1 - LocalContext,
   end |-> position + 1,
   candidates |-> Newest({s \in FullBlocks(tokens) : s <= position + 1 - LocalContext})]

\* The plan of build_retrieval_plans for a retrieval position it accepts.
PlanAt(tokens, position) ==
  [start |-> position + 1 - LocalContext,
   end |-> position + 1,
   candidates |-> Newest({s \in FullBlocks(tokens) :
                            s + BlockSize <= position + 1 - LocalContext})]

Plans(tokens, horizon) ==
  {plan \in {PlanAt(tokens, p) : p \in FirstRetrieval..LastRetrieval(tokens, horizon)} :
     Cardinality(plan.candidates) >= MinimumCandidates}
==============================================================================
