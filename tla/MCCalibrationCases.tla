-------------------------- MODULE MCCalibrationCases --------------------------
(* Calibrations small enough to enumerate: two to four records, of tokens or    *)
(* of blocks, one sample or two, and a configuration refused for its size.      *)
EXTENDS Integers, FiniteSets

MCCriteria ==
  [f1 |-> 600, gain |-> 100, consistent |-> 500, recall |-> 500, singles |-> 600,
   size |-> 1500, p95 |-> 3000, ratio |-> 750, samples |-> 2]

\* A first threshold no grouping of these samples misses by little, and groups of
\* two at most: one variant separates the facts, another has the larger gain.
MCStrictCriteria == [MCCriteria EXCEPT !.f1 = 850, !.p95 = 2400]

Setup(program, samples, layers, variants, tokens) ==
  [program |-> program, samples |-> samples, layers |-> layers, variants |-> variants,
   tokens |-> tokens]

\* Two layers, two samples and two variants in turn, all loops nested on two blocks,
\* and for each program a grid too large.
MCSetups ==
  {Setup("cluster", 1, 2, 1, 4), Setup("cluster", 1, 1, 2, 4), Setup("cluster", 1, 1, 3, 4),
   Setup("block", 2, 1, 1, 6), Setup("block", 1, 1, 2, 6), Setup("block", 2, 1, 2, 4),
   Setup("block", 1, 1, 3, 6)}

MCTwoSamples == {Setup("cluster", 2, 1, 2, 4)}

Fact(f, a, b) == [fact |-> f, from |-> a, to |-> b]

\* Facts side by side, uneven ones, two that overlap, one beyond the tokens.
MCFacts ==
  {[target |-> 1, ranges |-> {Fact(1, 0, 2), Fact(2, 2, 4)}],
   [target |-> 2, ranges |-> {Fact(1, 0, 3), Fact(2, 3, 6)}],
   [target |-> 2, ranges |-> {Fact(1, 0, 3), Fact(2, 2, 4)}],
   [target |-> 3, ranges |-> {Fact(1, 0, 2), Fact(2, 2, 4), Fact(3, 6, 8)}]}

MCEvenFacts == {[target |-> 1, ranges |-> {Fact(1, 0, 2), Fact(2, 2, 4)}]}

\* Groupings of two and three blocks and of four tokens, from each alone to all
\* together.
MCClusterings(S) ==
  CASE Cardinality(S) = 2 -> {<<{0}, {1}>>, <<{0, 1}>>}
    [] Cardinality(S) = 3 ->
         {<<{0}, {1}, {2}>>, <<{0, 1}, {2}>>, <<{2}, {0, 1}>>, <<{1, 2}, {0}>>, <<{0, 1, 2}>>}
    [] OTHER ->
         {<<{0}, {1}, {2}, {3}>>, <<{0, 1}, {2, 3}>>, <<{0, 2}, {1, 3}>>,
          <<{0, 1, 2}, {3}>>, <<{0, 1, 2, 3}>>}

MCPairings(S) == {<<{0, 1}, {2, 3}>>, <<{0, 2}, {1, 3}>>, <<{0, 1, 2}, {3}>>}
==============================================================================
