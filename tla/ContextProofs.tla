---------------------------- MODULE ContextProofs ----------------------------
(***************************************************************************)
(* The two context collectors for every value of the constants, on every   *)
(* plan the planner accepts: the invariants that account for each token    *)
(* and each block, the agreement of the two on what they hand over, and    *)
(* the stream of tokens each of them implements.  RollingInv and           *)
(* AlignedInv are inductive each on its own; only their agreement needs    *)
(* that the second collector starts when the first is done.  The last two  *)
(* parts are about the evaluations that follow: what every answered query  *)
(* sees of the collected state, and that a selection by mass is minimal.   *)
(***************************************************************************)
EXTENDS MCContextCollectors, TLAPS, SequenceTheorems, Functions, FiniteSetTheorems,
        WellFoundedInduction

------------------------------------------------------------------------------
(* Multiples of the block size.                                            *)

\* Division with remainder.
LEMMA Euclid ==
  ASSUME NEW a \in Int, NEW b \in Nat \ {0}
  PROVE  /\ a \div b \in Int
         /\ a % b \in 0..(b - 1)
         /\ a = b * (a \div b) + (a % b)
  BY SMT

\* A product leaves no remainder.
LEMMA ProductsAreMultiples ==
  ASSUME NEW q \in Int, NEW b \in Nat \ {0}
  PROVE  (b * q) % b = 0
  BY SMT

\* Two different products by b are at least b apart.
LEMMA ProductsApart ==
  ASSUME NEW p \in Int, NEW q \in Int, NEW b \in Nat \ {0}, b * p < b * q
  PROVE  b * p + b <= b * q
<1>1. p < q
  BY SMT
<1>2. p + 1 <= q
  BY <1>1, SMT
<1>3. b * (p + 1) <= b * q
  BY <1>2, SMT
<1>4. b * (p + 1) = b * p + b
  BY SMT
<1> QED BY <1>3, <1>4, SMT

\* The sum of two multiples is one.
LEMMA SumOfMultiples ==
  ASSUME NEW a \in Int, NEW c \in Int, NEW b \in Nat \ {0}, a % b = 0, c % b = 0
  PROVE  (a + c) % b = 0
<1> DEFINE p == a \div b
           q == c \div b
<1>1. p \in Int /\ a = b * p
  BY Euclid, SMT
<1>2. q \in Int /\ c = b * q
  BY Euclid, SMT
<1> HIDE DEF p, q
<1>3. a + c = b * (p + q)
  BY <1>1, <1>2, SMT
<1>4. (b * (p + q)) % b = 0
  BY <1>1, <1>2, ProductsAreMultiples
<1> QED BY <1>3, <1>4

\* Between two multiples of b there are at least b steps.
LEMMA MultiplesApart ==
  ASSUME NEW a \in Int, NEW c \in Int, NEW b \in Nat \ {0}, a % b = 0, c % b = 0, a < c
  PROVE  a + b <= c
<1> DEFINE p == a \div b
           q == c \div b
<1>1. p \in Int /\ a = b * p
  BY Euclid, SMT
<1>2. q \in Int /\ c = b * q
  BY Euclid, SMT
<1> HIDE DEF p, q
<1>3. b * p < b * q
  BY <1>1, <1>2
<1> QED BY <1>1, <1>2, <1>3, ProductsApart

\* What is left when the remainder is taken off is a multiple.
LEMMA WithoutRemainder ==
  ASSUME NEW t \in Int, NEW b \in Nat \ {0}
  PROVE  /\ t % b \in 0..(b - 1)
         /\ (t - (t % b)) % b = 0
<1>1. t \div b \in Int /\ t % b \in 0..(b - 1) /\ t = b * (t \div b) + (t % b)
  BY Euclid
<1>2. t - (t % b) = b * (t \div b)
  BY <1>1, SMT
<1>3. (b * (t \div b)) % b = 0
  BY <1>1, ProductsAreMultiples
<1> QED BY <1>1, <1>2, <1>3

\* A product with a positive factor is no smaller than the other factor.
LEMMA ProductAtLeast ==
  ASSUME NEW a \in Nat \ {0}, NEW b \in Nat \ {0}
  PROVE  a * b \in Nat /\ a * b >= b
  BY SMT

OnBoundary(t) == t % BlockSize = 0

\* Everything the proofs below use of block boundaries: they are BlockSize apart,
\* closed under addition, and every token belongs to the block that starts at or
\* before it.
LEMMA Boundaries ==
  /\ LocalContext \in Nat /\ BlockSize \in Nat \ {0} /\ BlockSize <= LocalContext
  /\ OnBoundary(0) /\ OnBoundary(LocalContext) /\ OnBoundary(BlockSize)
  /\ \A a, c \in Int : OnBoundary(a) /\ OnBoundary(c) => OnBoundary(a + c)
  /\ \A a, c \in Int : OnBoundary(a) /\ OnBoundary(c) /\ a < c => a + BlockSize <= c
  /\ \A t \in Nat : /\ BlockOf(t) \in Nat /\ OnBoundary(BlockOf(t))
                    /\ BlockOf(t) <= t /\ t < BlockOf(t) + BlockSize
<1>1. LocalContext \in Nat \ {0} /\ BlockSize \in Nat \ {0} /\ OnBoundary(LocalContext)
  BY BlocksAssumption DEF OnBoundary
<1>2. OnBoundary(0) /\ OnBoundary(BlockSize)
  <2>1. BlockSize * 0 = 0 /\ BlockSize * 1 = BlockSize
    BY <1>1
  <2>2. (BlockSize * 0) % BlockSize = 0 /\ (BlockSize * 1) % BlockSize = 0
    BY <1>1, ProductsAreMultiples
  <2> QED BY <2>1, <2>2 DEF OnBoundary
<1>3. \A a, c \in Int : OnBoundary(a) /\ OnBoundary(c) => OnBoundary(a + c)
  BY <1>1, SumOfMultiples DEF OnBoundary
<1>4. \A a, c \in Int : OnBoundary(a) /\ OnBoundary(c) /\ a < c => a + BlockSize <= c
  BY <1>1, MultiplesApart DEF OnBoundary
<1>5. BlockSize <= LocalContext
  BY <1>1, <1>2, <1>4
<1>6. ASSUME NEW t \in Nat
      PROVE  /\ BlockOf(t) \in Nat /\ OnBoundary(BlockOf(t))
             /\ BlockOf(t) <= t /\ t < BlockOf(t) + BlockSize
  <2> DEFINE r == t % BlockSize
  <2>1. r \in 0..(BlockSize - 1) /\ OnBoundary(t - r)
    <3>1. t \in Int
      OBVIOUS
    <3>2. r \in 0..(BlockSize - 1) /\ (t - r) % BlockSize = 0
      BY <1>1, <3>1, WithoutRemainder, Zenon
    <3> HIDE DEF r
    <3> QED BY <3>2, Zenon DEF OnBoundary
  <2>2. BlockOf(t) = t - r
    BY DEF BlockOf
  <2> HIDE DEF r
  <2>3. BlockOf(t) \in Int /\ OnBoundary(BlockOf(t)) /\ BlockOf(t) <= t /\ t < BlockOf(t) + BlockSize
    BY <1>1, <2>1, <2>2
  <2>4. BlockOf(t) < 0 => BlockOf(t) + BlockSize <= 0
    BY <1>2, <1>4, <2>3
  <2> QED BY <1>1, <2>3, <2>4
<1> QED BY <1>1, <1>2, <1>3, <1>4, <1>5, <1>6

\* The window is at least one block long.
LEMMA Sizes == LocalContext \in Nat /\ BlockSize \in Nat \ {0} /\ BlockSize <= LocalContext
  BY Boundaries

\* The complete blocks of n tokens are the boundaries a block before their end.
LEMMA FullBlocksAreBoundaries ==
  \A n, s : s \in FullBlocks(n) <=> s \in 0..(n - BlockSize) /\ OnBoundary(s)
  BY DEF FullBlocks, OnBoundary

\* A complete chunk completes the block it starts with, a tail completes none.
LEMMA BlocksAfterChunk ==
  ASSUME NEW p \in Nat, OnBoundary(p), NEW q \in Nat, p < q, q <= p + BlockSize
  PROVE  /\ FullBlocks(q) = FullBlocks(p) \cup (IF q - p = BlockSize THEN {p} ELSE {})
         /\ p \notin FullBlocks(p)
<1>1. p \notin FullBlocks(p)
  BY Boundaries, FullBlocksAreBoundaries
<1>2. ASSUME NEW s \in FullBlocks(q)
      PROVE  s \in FullBlocks(p) \cup (IF q - p = BlockSize THEN {p} ELSE {})
  <2>1. s \in 0..(q - BlockSize) /\ OnBoundary(s)
    BY <1>2, FullBlocksAreBoundaries
  <2>2. s \in Int /\ s <= p /\ (s = p => q - p = BlockSize)
    <3>1. BlockSize \in Nat \ {0}
      BY Boundaries
    <3> QED BY <3>1, <2>1
  <2>3. s # p => s \in 0..(p - BlockSize)
    BY <2>1, <2>2, Boundaries
  <2> QED BY <2>1, <2>2, <2>3, FullBlocksAreBoundaries
<1>3. ASSUME NEW s \in FullBlocks(p) \cup (IF q - p = BlockSize THEN {p} ELSE {})
      PROVE  s \in FullBlocks(q)
  <2>1. CASE s \in FullBlocks(p)
    <3>1. s \in 0..(p - BlockSize) /\ OnBoundary(s)
      BY <2>1, FullBlocksAreBoundaries
    <3>2. s \in 0..(q - BlockSize)
      BY <3>1, Boundaries
    <3> QED BY <3>1, <3>2, FullBlocksAreBoundaries
  <2>2. CASE s = p /\ q - p = BlockSize
    <3>1. s \in 0..(q - BlockSize)
      BY <2>2, Boundaries
    <3> QED BY <3>1, <2>2, FullBlocksAreBoundaries
  <2> QED BY <1>3, <2>1, <2>2
<1> QED BY <1>1, <1>2, <1>3

\* A plan leaves at least one block before its local context, and its candidates
\* are blocks that end before that context starts.
LEMMA PlanFacts ==
  ASSUME plan \in Plans(Tokens, Horizon)
  PROVE  /\ plan = [start |-> plan.start, end |-> plan.end, candidates |-> plan.candidates]
         /\ plan.start \in Nat /\ plan.start >= BlockSize
         /\ plan.end = plan.start + LocalContext
         /\ plan.candidates \subseteq Nat
         /\ \A s \in plan.candidates : OnBoundary(s) /\ s + BlockSize <= plan.start
<1>1. PICK p \in FirstRetrieval..LastRetrieval(Tokens, Horizon) : plan = PlanAt(Tokens, p)
  BY DEF Plans
<1>2. MinimumCandidates * BlockSize \in Nat /\ MinimumCandidates * BlockSize >= BlockSize
  BY BlocksAssumption, ProductAtLeast
<1> DEFINE first == MinimumCandidates * BlockSize
<1>3. p \in Int /\ p >= LocalContext + first - 1
  BY <1>1 DEF FirstRetrieval
<1> HIDE DEF first
<1>4. first \in Nat /\ first >= BlockSize
  BY <1>2 DEF first
<1>5. /\ plan = [start |-> plan.start, end |-> plan.end, candidates |-> plan.candidates]
      /\ plan.start = p + 1 - LocalContext
      /\ plan.end = p + 1
      /\ plan.candidates = Newest({s \in FullBlocks(Tokens) : s + BlockSize <= p + 1 - LocalContext})
  BY <1>1 DEF PlanAt
<1>6. plan.candidates \subseteq {s \in FullBlocks(Tokens) : s + BlockSize <= plan.start}
  BY <1>5 DEF Newest
<1>7. plan.start \in Nat /\ plan.start >= BlockSize /\ plan.end = plan.start + LocalContext
  BY <1>3, <1>4, <1>5, Boundaries
<1>8. \A s \in plan.candidates : s \in Nat /\ OnBoundary(s) /\ s + BlockSize <= plan.start
  BY <1>6, FullBlocksAreBoundaries, BlocksAssumption, RollingAssumption
<1> QED BY <1>5, <1>7, <1>8

------------------------------------------------------------------------------
(* The inductive invariants.                                               *)

\* The first n tokens, each under its own logical position.
Prefix(n) == [i \in 1..n |-> <<i - 1, i - 1>>]

\* The tokens from a on that end before b.
Stretch(a, b) == [i \in 1..(b - a) |-> a + i - 1]

\* The chunks forwarded so far are whole blocks, but the last; the window starts
\* where it should except between a forward pass and the trimming after it.
RollingWindow ==
  /\ stage \in {"forward", "exit", "check", "done"}
  /\ position \in 0..plan.end
  /\ position < plan.end => OnBoundary(position)
  /\ stage \in {"check", "done"} => position = plan.end
  /\ cacheStart \in 0..NewCacheStart
  /\ position - cacheStart <= LocalContext + BlockSize
  /\ exitStart \in cacheStart..NewCacheStart
  /\ stage # "exit" => cacheStart = NewCacheStart
  /\ cache = Stretch(cacheStart, position)

\* Every complete block has had its key prepared, and no hidden row is missing.
RollingKeys ==
  /\ ready = FullBlocks(position)
  /\ hidden = Least(QueryLength, position)

\* The layers before the one to be written have the piece that is exiting.
RollingMemories ==
  /\ layer \in 1..Layers
  /\ layer > 1 => stage = "exit" /\ exitStart < NewCacheStart
  /\ memory = [l \in 1..Layers |-> Prefix(IF l < layer THEN ExitEnd ELSE exitStart)]

RollingInv ==
  /\ plan \in Plans(Tokens, Horizon)
  /\ RollingWindow /\ RollingKeys /\ RollingMemories

\* The same of the block-aligned collector, whose window starts on a boundary, and
\* what it has kept of the candidates forwarded and unloaded so far.
AlignedWindow ==
  /\ alignedStage \in {"forward", "unload", "check", "done"}
  /\ alignedPosition \in 0..plan.end
  /\ alignedPosition < plan.end => OnBoundary(alignedPosition)
  /\ alignedStage \in {"check", "done"} => alignedPosition = plan.end
  /\ alignedStart \in 0..alignedPosition /\ OnBoundary(alignedStart)
  /\ alignedStart > 0 => alignedPosition - alignedStart >= LocalContext
  /\ alignedPosition - alignedStart <= LocalContext + BlockSize
  /\ alignedStage # "unload" => alignedPosition - alignedStart < LocalContext + BlockSize
  /\ alignedCache = Stretch(alignedStart, alignedPosition)

AlignedKept ==
  /\ alignedReady = {s \in FullBlocks(alignedPosition) : s >= alignedStart}
  /\ alignedHidden = Least(QueryLength, alignedPosition)
  /\ evicted = alignedStart
  /\ summaries = plan.candidates \cap FullBlocks(alignedPosition)
  /\ captured = [s \in {c \in plan.candidates : c < alignedStart} |-> Stretch(s, s + BlockSize)]

AlignedInv ==
  /\ plan \in Plans(Tokens, Horizon)
  /\ AlignedWindow /\ AlignedKept

\* The block-aligned collector starts when the rolling one is done.
InTurn == alignedPosition > 0 \/ alignedStage # "forward" => stage = "done"

BothInv == RollingInv /\ AlignedInv /\ InTurn

\* A stretch is a sequence of tokens.
LEMMA StretchIsSequence ==
  ASSUME NEW a \in Nat, NEW b \in Nat, a <= b
  PROVE  /\ Stretch(a, b) \in Seq(Nat)
         /\ Len(Stretch(a, b)) = b - a
         /\ \A i \in 1..(b - a) : Stretch(a, b)[i] = a + i - 1
<1>1. b - a \in Nat
  OBVIOUS
<1>2. \A i \in 1..(b - a) : a + i - 1 \in Nat
  OBVIOUS
<1> QED BY <1>1, <1>2 DEF Stretch

\* A prefix is a sequence of pairs.
LEMMA PrefixIsSequence ==
  ASSUME NEW n \in Nat
  PROVE  /\ Prefix(n) \in Seq(Nat \X Nat)
         /\ Len(Prefix(n)) = n
         /\ \A i \in 1..n : Prefix(n)[i] = <<i - 1, i - 1>>
<1>1. \A i \in 1..n : <<i - 1, i - 1>> \in Nat \X Nat
  OBVIOUS
<1> QED BY <1>1 DEF Prefix

\* Two sequences one after the other.
LEMMA Concatenation ==
  ASSUME NEW T, NEW s \in Seq(T), NEW t \in Seq(T)
  PROVE  s \o t = [i \in 1..(Len(s) + Len(t)) |-> IF i <= Len(s) THEN s[i] ELSE t[i - Len(s)]]
<1>1. s \o t \in Seq(T) /\ Len(s \o t) = Len(s) + Len(t)
      /\ \A i \in 1..(Len(s) + Len(t)) :
           (s \o t)[i] = IF i <= Len(s) THEN s[i] ELSE t[i - Len(s)]
  BY ConcatProperties
<1>2. s \o t \in [1..(Len(s) + Len(t)) -> T]
  BY <1>1, LenProperties
<1> QED BY <1>1, <1>2

\* The numbers the window is computed from.
LEMMA RollingNumbers ==
  ASSUME RollingInv
  PROVE  /\ position \in Nat /\ plan.end \in Nat /\ plan.start \in Nat
         /\ NewCacheStart = IF position <= LocalContext THEN 0 ELSE position - LocalContext
         /\ NewCacheStart \in Nat /\ cacheStart \in Nat /\ exitStart \in Nat
         /\ NewCacheStart <= position
         /\ ExitEnd \in Nat /\ ExitEnd <= NewCacheStart
         /\ exitStart < NewCacheStart => exitStart < ExitEnd /\ ExitEnd <= BlockOf(exitStart) + BlockSize
         /\ Len(cache) = position - cacheStart
         /\ cache \in Seq(Nat)
         /\ \A i \in 1..(position - cacheStart) : cache[i] = cacheStart + i - 1
<1>1. plan.end \in Nat /\ plan.start \in Nat
  BY PlanFacts, Boundaries DEF RollingInv
<1>2. position \in Nat
  BY <1>1 DEF RollingInv, RollingWindow
<1>3. /\ NewCacheStart = IF position <= LocalContext THEN 0 ELSE position - LocalContext
      /\ NewCacheStart \in Nat /\ NewCacheStart <= position
  BY <1>2, Boundaries DEF NewCacheStart, Greatest
<1>4. cacheStart \in Nat /\ exitStart \in Nat /\ cacheStart <= exitStart /\ exitStart <= NewCacheStart
  BY <1>3 DEF RollingInv, RollingWindow
<1>5. /\ BlockOf(exitStart) \in Nat
      /\ BlockOf(exitStart) <= exitStart /\ exitStart < BlockOf(exitStart) + BlockSize
      /\ BlockSize \in Nat
  BY <1>4, Boundaries
<1>6. /\ ExitEnd \in Nat /\ ExitEnd <= NewCacheStart
      /\ exitStart < NewCacheStart => exitStart < ExitEnd /\ ExitEnd <= BlockOf(exitStart) + BlockSize
  BY <1>3, <1>4, <1>5 DEF ExitEnd, Least
<1>7. cacheStart <= position
  BY <1>2, <1>3, <1>4
<1>8. cache = Stretch(cacheStart, position)
  BY DEF RollingInv, RollingWindow
<1>9. /\ Len(cache) = position - cacheStart
      /\ cache \in Seq(Nat)
      /\ \A i \in 1..(position - cacheStart) : cache[i] = cacheStart + i - 1
  BY <1>2, <1>4, <1>7, <1>8, StretchIsSequence
<1> QED BY <1>1, <1>2, <1>3, <1>4, <1>6, <1>9

\* Before the first chunk there is nothing to account for.
LEMMA RollingInit == Init => RollingInv
<1> SUFFICES ASSUME Init PROVE RollingInv
  OBVIOUS
<1>1. plan \in Plans(Tokens, Horizon)
  BY DEF Init
<1>2. plan.end \in Nat /\ LocalContext \in Nat /\ BlockSize \in Nat \ {0} /\ OnBoundary(0)
  BY <1>1, PlanFacts, Boundaries
<1>3. NewCacheStart = 0
  BY <1>2 DEF Init, NewCacheStart, Greatest
<1>4. RollingWindow
  <2>1. Stretch(0, 0) = <<>>
    BY DEF Stretch
  <2> QED BY <1>2, <1>3, <2>1 DEF Init, RollingWindow
<1>5. RollingKeys
  <2>1. FullBlocks(0) = {}
    BY <1>2, FullBlocksAreBoundaries
  <2>2. Least(QueryLength, 0) = 0
    BY RollingAssumption, <1>2 DEF Least
  <2> QED BY <2>1, <2>2 DEF Init, RollingKeys
<1>6. RollingMemories
  <2>1. Layers \in Nat \ {0}
    BY RollingAssumption
  <2>2. Prefix(0) = <<>>
    BY DEF Prefix
  <2>3. \A l \in 1..Layers : ~ (l < 1)
    OBVIOUS
  <2> QED BY <2>1, <2>2, <2>3 DEF Init, RollingMemories
<1> QED BY <1>1, <1>4, <1>5, <1>6 DEF RollingInv

\* A forward pass adds a chunk to the window and prepares the key of its block.
LEMMA RollingForward == RollingInv /\ Forward => RollingInv'
<1> SUFFICES ASSUME RollingInv, Forward PROVE RollingInv'
  OBVIOUS
<1>1. /\ position \in Nat /\ plan.end \in Nat /\ position < plan.end
      /\ OnBoundary(position) /\ LocalContext \in Nat /\ BlockSize \in Nat \ {0}
      /\ cacheStart \in Nat /\ cacheStart = NewCacheStart /\ exitStart = cacheStart
      /\ stage = "forward"
  <2>1. stage = "forward" /\ position < plan.end
    BY DEF Forward
  <2>2. cacheStart = NewCacheStart /\ exitStart \in cacheStart..NewCacheStart /\ OnBoundary(position)
    BY <2>1 DEF RollingInv, RollingWindow
  <2> QED BY <2>1, <2>2, RollingNumbers, Sizes
<1>2. ChunkEnd \in Nat /\ position < ChunkEnd /\ ChunkEnd <= position + BlockSize
      /\ ChunkEnd <= plan.end /\ (ChunkEnd < plan.end => ChunkEnd = position + BlockSize)
  BY <1>1 DEF ChunkEnd, Least
<1>3. Completed = (IF ChunkEnd - position = BlockSize THEN {position} ELSE {})
  BY DEF Completed
<1>4. /\ FullBlocks(ChunkEnd) = FullBlocks(position) \cup Completed
      /\ position \notin FullBlocks(position)
  BY <1>1, <1>2, <1>3, BlocksAfterChunk
<1>5. Completed \cap ready = {}
  BY <1>3, <1>4 DEF RollingInv, RollingKeys
<1>6. /\ cache' = [i \in 1..(Len(cache) + ChunkEnd - position) |->
                     IF i <= Len(cache) THEN cache[i] ELSE position + (i - Len(cache)) - 1]
      /\ ready' = ready \cup Completed
      /\ hidden' = Least(QueryLength, hidden + (ChunkEnd - position))
      /\ position' = ChunkEnd
      /\ exitStart' = cacheStart
      /\ stage' = "exit"
      /\ plan' = plan /\ cacheStart' = cacheStart /\ layer' = layer /\ memory' = memory
  BY <1>5 DEF Forward
<1>7. NewCacheStart = IF position <= LocalContext THEN 0 ELSE position - LocalContext
  BY RollingNumbers
<1>8. NewCacheStart' = IF ChunkEnd <= LocalContext THEN 0 ELSE ChunkEnd - LocalContext
  BY <1>1, <1>2, <1>6 DEF NewCacheStart, Greatest
<1>9. cache' = Stretch(cacheStart, ChunkEnd)
  <2>1. /\ Len(cache) = position - cacheStart
        /\ \A i \in 1..(position - cacheStart) : cache[i] = cacheStart + i - 1
    BY RollingNumbers
  <2>2. Len(cache) + ChunkEnd - position = ChunkEnd - cacheStart
    BY <1>1, <1>2, <2>1
  <2>3. \A i \in 1..(ChunkEnd - cacheStart) :
          (IF i <= Len(cache) THEN cache[i] ELSE position + (i - Len(cache)) - 1) = cacheStart + i - 1
    BY <1>1, <1>2, <2>1
  <2> QED BY <1>6, <2>2, <2>3 DEF Stretch
<1>10. RollingWindow'
  <2>1. ChunkEnd < plan.end => OnBoundary(ChunkEnd)
    <3>1. OnBoundary(position + BlockSize)
      BY <1>1, Boundaries
    <3> QED BY <1>2, <3>1
  <2>2. cacheStart \in 0..NewCacheStart' /\ exitStart' \in cacheStart..NewCacheStart'
        /\ ChunkEnd - cacheStart <= LocalContext + BlockSize
    BY <1>1, <1>2, <1>6, <1>7, <1>8
  <2>3. ChunkEnd \in 0..plan.end
    BY <1>1, <1>2
  <2> QED BY <1>6, <1>9, <2>1, <2>2, <2>3 DEF RollingWindow
<1>11. RollingKeys'
  <2>1. QueryLength \in Nat
    BY RollingAssumption, <1>1
  <2>2. hidden = Least(QueryLength, position)
    BY DEF RollingInv, RollingKeys
  <2>3. hidden' = Least(QueryLength, ChunkEnd)
    BY <1>1, <1>2, <1>6, <2>1, <2>2 DEF Least
  <2> QED BY <1>4, <1>6, <2>3 DEF RollingInv, RollingKeys
<1>12. RollingMemories'
  <2>1. layer = 1 /\ Layers \in Nat \ {0} /\ memory = [l \in 1..Layers |-> Prefix(exitStart)]
    <3>1. layer \in 1..Layers /\ ~(layer > 1)
          /\ memory = [l \in 1..Layers |-> Prefix(IF l < layer THEN ExitEnd ELSE exitStart)]
      BY <1>1 DEF RollingInv, RollingMemories
    <3>2. layer = 1 /\ Layers \in Nat \ {0}
      BY <3>1, RollingAssumption
    <3>3. \A l \in 1..Layers : ~(l < layer)
      BY <3>2
    <3> QED BY <3>1, <3>2, <3>3
  <2>2. \A l \in 1..Layers : ~(l < 1)
    OBVIOUS
  <2> QED BY <1>1, <1>6, <2>1, <2>2 DEF RollingMemories
<1> QED BY <1>6, <1>10, <1>11, <1>12 DEF RollingInv

\* A layer's turn to be written: it gets the piece that exits, under the positions
\* of its tokens; the key of the piece's block is there.
LEMMA RollingWriteFacts ==
  ASSUME RollingInv, WriteLayer
  PROVE  /\ BlockOf(exitStart) \in ready
         /\ memory' = [memory EXCEPT ![layer] = Prefix(ExitEnd)]
         /\ layer' = (IF layer = Layers THEN 1 ELSE layer + 1)
         /\ exitStart' = (IF layer = Layers THEN ExitEnd ELSE exitStart)
         /\ exitStart < NewCacheStart /\ stage = "exit" /\ stage' = stage
         /\ plan' = plan /\ position' = position /\ cache' = cache
         /\ cacheStart' = cacheStart /\ ready' = ready /\ hidden' = hidden
<1>1. exitStart < NewCacheStart /\ stage = "exit"
  BY DEF WriteLayer
<1>2. BlockOf(exitStart) \in FullBlocks(position)
  <2>1. BlockOf(exitStart) \in Nat /\ OnBoundary(BlockOf(exitStart)) /\ BlockOf(exitStart) <= exitStart
    BY RollingNumbers, Boundaries
  <2>2. BlockOf(exitStart) \in 0..(position - BlockSize)
    <3>1. exitStart \in Nat /\ position \in Nat /\ LocalContext \in Nat /\ BlockSize \in Nat
          /\ BlockSize <= LocalContext
          /\ NewCacheStart = IF position <= LocalContext THEN 0 ELSE position - LocalContext
      BY RollingNumbers, Boundaries
    <3> QED BY <1>1, <2>1, <3>1
  <2> QED BY <2>1, <2>2, FullBlocksAreBoundaries
<1>3. BlockOf(exitStart) \in ready
  BY <1>2 DEF RollingInv, RollingKeys
<1>4. /\ memory' = [memory EXCEPT ![layer] = @ \o Piece]
      /\ layer' = (IF layer = Layers THEN 1 ELSE layer + 1)
      /\ exitStart' = (IF layer = Layers THEN ExitEnd ELSE exitStart)
      /\ stage' = stage
      /\ plan' = plan /\ position' = position /\ cache' = cache
      /\ cacheStart' = cacheStart /\ ready' = ready /\ hidden' = hidden
  BY <1>3 DEF WriteLayer
<1>5. /\ exitStart \in Nat /\ ExitEnd \in Nat /\ exitStart < ExitEnd /\ cacheStart \in Nat
      /\ position \in Nat /\ cacheStart <= exitStart /\ ExitEnd <= position
  BY <1>1, RollingNumbers DEF RollingInv, RollingWindow
<1>6. \A i \in 1..(position - cacheStart) : cache[i] = cacheStart + i - 1
  BY RollingNumbers
<1>7. Piece = [i \in 1..(ExitEnd - exitStart) |-> <<exitStart + i - 1, exitStart + i - 1>>]
  <2>1. \A i \in 1..(ExitEnd - exitStart) : cache[exitStart - cacheStart + i] = exitStart + i - 1
    BY <1>5, <1>6
  <2> QED BY <2>1 DEF Piece
<1>8. memory[layer] = Prefix(exitStart)
  <2>1. layer \in 1..Layers
    BY DEF RollingInv, RollingMemories
  <2>2. ~(layer < layer)
    BY <2>1, RollingAssumption
  <2> QED BY <2>1, <2>2 DEF RollingInv, RollingMemories
<1>9. memory[layer] \o Piece = Prefix(ExitEnd)
  <2>1. Prefix(exitStart) = [i \in 1..exitStart |-> <<i - 1, i - 1>>]
    BY DEF Prefix
  <2>2. /\ Prefix(exitStart) \in Seq(Nat \X Nat) /\ Len(Prefix(exitStart)) = exitStart
    BY <1>5, PrefixIsSequence
  <2>3. Piece \in Seq(Nat \X Nat) /\ Len(Piece) = ExitEnd - exitStart
    <3>1. ExitEnd - exitStart \in Nat /\ \A i \in 1..(ExitEnd - exitStart) :
            <<exitStart + i - 1, exitStart + i - 1>> \in Nat \X Nat
      BY <1>5
    <3> QED BY <1>7, <3>1
  <2> DEFINE old == Prefix(exitStart)
             new == Piece
  <2>3a. old \o new = [i \in 1..(Len(old) + Len(new)) |->
                         IF i <= Len(old) THEN old[i] ELSE new[i - Len(old)]]
    <3> HIDE DEF old, new
    <3>1. old \in Seq(Nat \X Nat) /\ new \in Seq(Nat \X Nat)
      BY <2>2, <2>3 DEF old, new
    <3> QED BY <3>1, Concatenation
  <2>4. Prefix(exitStart) \o Piece
          = [i \in 1..(exitStart + (ExitEnd - exitStart)) |->
               IF i <= exitStart THEN Prefix(exitStart)[i] ELSE Piece[i - exitStart]]
    BY <2>2, <2>3, <2>3a
  <2>5. exitStart + (ExitEnd - exitStart) = ExitEnd
    BY <1>5
  <2>6. \A i \in 1..ExitEnd :
          (IF i <= exitStart THEN Prefix(exitStart)[i] ELSE Piece[i - exitStart]) = <<i - 1, i - 1>>
    <3> SUFFICES ASSUME NEW i \in 1..ExitEnd
                 PROVE  (IF i <= exitStart THEN Prefix(exitStart)[i] ELSE Piece[i - exitStart])
                          = <<i - 1, i - 1>>
      OBVIOUS
    <3>1. CASE i <= exitStart
      BY <3>1, <1>5, <2>1
    <3>2. CASE ~(i <= exitStart)
      <4>1. i - exitStart \in 1..(ExitEnd - exitStart)
        BY <3>2, <1>5
      <4>2. exitStart + (i - exitStart) - 1 = i - 1
        BY <1>5
      <4> QED BY <3>2, <4>1, <4>2, <1>7
    <3> QED BY <3>1, <3>2
  <2> QED BY <1>8, <2>4, <2>5, <2>6 DEF Prefix
<1> QED BY <1>1, <1>3, <1>4, <1>9

LEMMA RollingWrite == RollingInv /\ WriteLayer => RollingInv'
<1> SUFFICES ASSUME RollingInv, WriteLayer PROVE RollingInv'
  OBVIOUS
<1>1. /\ memory' = [memory EXCEPT ![layer] = Prefix(ExitEnd)]
      /\ layer' = (IF layer = Layers THEN 1 ELSE layer + 1)
      /\ exitStart' = (IF layer = Layers THEN ExitEnd ELSE exitStart)
      /\ exitStart < NewCacheStart /\ stage = "exit" /\ stage' = stage
      /\ plan' = plan /\ position' = position /\ cache' = cache
      /\ cacheStart' = cacheStart /\ ready' = ready /\ hidden' = hidden
  BY RollingWriteFacts
<1>2. NewCacheStart' = NewCacheStart
  BY <1>1 DEF NewCacheStart, Greatest
<1>3. /\ exitStart \in Nat /\ ExitEnd \in Nat /\ exitStart < ExitEnd /\ ExitEnd <= NewCacheStart
      /\ cacheStart \in Nat /\ NewCacheStart \in Nat
  BY <1>1, RollingNumbers
<1>4. RollingWindow'
  <2>1. exitStart' \in cacheStart..NewCacheStart
    BY <1>1, <1>3 DEF RollingInv, RollingWindow
  <2> QED BY <1>1, <1>2, <2>1 DEF RollingInv, RollingWindow
<1>5. RollingKeys'
  BY <1>1 DEF RollingInv, RollingKeys
<1>6. /\ layer \in 1..Layers /\ Layers \in Nat \ {0}
      /\ memory = [l \in 1..Layers |-> Prefix(IF l < layer THEN ExitEnd ELSE exitStart)]
  BY RollingAssumption DEF RollingInv, RollingMemories
<1>7. memory' = [l \in 1..Layers |-> Prefix(IF l <= layer THEN ExitEnd ELSE exitStart)]
  <2>1. \A l \in 1..Layers : memory'[l] = Prefix(IF l <= layer THEN ExitEnd ELSE exitStart)
    <3> SUFFICES ASSUME NEW l \in 1..Layers
                 PROVE  memory'[l] = Prefix(IF l <= layer THEN ExitEnd ELSE exitStart)
      OBVIOUS
    <3>1. CASE l = layer
      BY <3>1, <1>1, <1>6
    <3>2. CASE l # layer
      <4>1. (l < layer) = (l <= layer)
        BY <3>2, <1>6
      <4> QED BY <3>2, <4>1, <1>1, <1>6
    <3> QED BY <3>1, <3>2
  <2>2. DOMAIN memory' = 1..Layers /\ memory' = [l \in DOMAIN memory' |-> memory'[l]]
    BY <1>1, <1>6
  <2> QED BY <2>1, <2>2
<1>8. RollingMemories'
  <2>1. CASE layer = Layers
    <3>1. \A l \in 1..Layers : l <= layer /\ ~(l < 1)
      BY <2>1, <1>6
    <3>2. layer' = 1 /\ exitStart' = ExitEnd
      BY <2>1, <1>1
    <3>3. memory' = [l \in 1..Layers |-> Prefix(IF l < layer' THEN ExitEnd' ELSE exitStart')]
      BY <1>7, <3>1, <3>2
    <3> QED BY <1>6, <3>2, <3>3 DEF RollingMemories
  <2>2. CASE layer # Layers
    <3>1. layer' = layer + 1 /\ exitStart' = exitStart /\ layer' \in 1..Layers
      BY <2>2, <1>1, <1>6
    <3>2. ExitEnd' = ExitEnd
      BY <3>1, <1>2 DEF ExitEnd, Least, BlockOf
    <3>3. \A l \in 1..Layers : (l <= layer) = (l < layer')
      BY <3>1, <1>6
    <3>4. memory' = [l \in 1..Layers |-> Prefix(IF l < layer' THEN ExitEnd' ELSE exitStart')]
      BY <1>7, <3>1, <3>2, <3>3
    <3> QED BY <1>1, <1>2, <3>1, <3>4 DEF RollingMemories
  <2> QED BY <2>1, <2>2
<1> QED BY <1>1, <1>4, <1>5, <1>8 DEF RollingInv

\* Trimming leaves the newest LocalContext tokens.
LEMMA RollingTrim == RollingInv /\ Trim => RollingInv'
<1> SUFFICES ASSUME RollingInv, Trim PROVE RollingInv'
  OBVIOUS
<1>1. /\ stage = "exit" /\ exitStart >= NewCacheStart
      /\ IF NewCacheStart > cacheStart
           THEN cache' = Suffix(LocalContext) /\ cacheStart' = NewCacheStart
           ELSE cache' = cache /\ cacheStart' = cacheStart
      /\ stage' = (IF position < plan.end THEN "forward" ELSE "check")
      /\ plan' = plan /\ position' = position /\ exitStart' = exitStart /\ ready' = ready
      /\ hidden' = hidden /\ layer' = layer /\ memory' = memory
  BY DEF Trim
<1>2. /\ position \in Nat /\ plan.end \in Nat /\ cacheStart \in Nat /\ exitStart \in Nat
      /\ NewCacheStart \in Nat /\ LocalContext \in Nat
      /\ NewCacheStart = IF position <= LocalContext THEN 0 ELSE position - LocalContext
      /\ cacheStart <= NewCacheStart /\ exitStart <= NewCacheStart /\ position <= plan.end
  BY RollingNumbers, Boundaries DEF RollingInv, RollingWindow
<1>3. NewCacheStart' = NewCacheStart /\ exitStart = NewCacheStart
  BY <1>1, <1>2 DEF NewCacheStart, Greatest
<1>4. cacheStart' = NewCacheStart
  BY <1>1, <1>2
<1>5. cache' = Stretch(NewCacheStart, position)
  <2>1. CASE NewCacheStart > cacheStart
    <3>1. /\ Len(cache) = position - cacheStart /\ cache \in Seq(Nat)
          /\ \A i \in 1..(position - cacheStart) : cache[i] = cacheStart + i - 1
      BY RollingNumbers
    <3>2. NewCacheStart = position - LocalContext /\ ~(Len(cache) <= LocalContext)
      BY <2>1, <1>2, <3>1
    <3>3. cache' = SubSeq(cache, Len(cache) - LocalContext + 1, Len(cache))
      BY <2>1, <1>1, <3>2 DEF Suffix
    <3>4. SubSeq(cache, Len(cache) - LocalContext + 1, Len(cache))
            = [i \in 1..(Len(cache) - (Len(cache) - LocalContext + 1) + 1) |->
                 cache[i + (Len(cache) - LocalContext + 1) - 1]]
      BY <1>2, <3>1, <3>2
    <3>5. Len(cache) - (Len(cache) - LocalContext + 1) + 1 = position - NewCacheStart
      BY <1>2, <3>1, <3>2
    <3>6. \A i \in 1..(position - NewCacheStart) :
            cache[i + (Len(cache) - LocalContext + 1) - 1] = NewCacheStart + i - 1
      <4> SUFFICES ASSUME NEW i \in 1..(position - NewCacheStart)
                   PROVE  cache[i + (Len(cache) - LocalContext + 1) - 1] = NewCacheStart + i - 1
        OBVIOUS
      <4>1. i + (Len(cache) - LocalContext + 1) - 1 \in 1..(position - cacheStart)
        BY <1>2, <3>1, <3>2
      <4>2. cacheStart + (i + (Len(cache) - LocalContext + 1) - 1) - 1 = NewCacheStart + i - 1
        BY <1>2, <3>1, <3>2
      <4> QED BY <3>1, <4>1, <4>2
    <3> QED BY <3>3, <3>4, <3>5, <3>6 DEF Stretch
  <2>2. CASE ~(NewCacheStart > cacheStart)
    <3>1. cache' = cache /\ cacheStart = NewCacheStart
      BY <2>2, <1>1, <1>2
    <3> QED BY <3>1 DEF RollingInv, RollingWindow
  <2> QED BY <2>1, <2>2
<1>6. RollingWindow'
  <2>1. /\ stage' \in {"forward", "check"}
        /\ stage' = "check" => position = plan.end
    BY <1>1, <1>2
  <2>2. position - NewCacheStart <= LocalContext + BlockSize
    BY <1>2, Sizes
  <2>3. NewCacheStart \in 0..NewCacheStart /\ NewCacheStart \in NewCacheStart..NewCacheStart
    BY <1>2
  <2> QED BY <1>1, <1>3, <1>4, <1>5, <2>1, <2>2, <2>3 DEF RollingInv, RollingWindow
<1>7. RollingKeys'
  BY <1>1 DEF RollingInv, RollingKeys
<1>8. RollingMemories'
  <2>1. ~(exitStart < NewCacheStart)
    BY <1>2, <1>3
  <2>2. ExitEnd' = ExitEnd
    BY <1>1, <1>3 DEF ExitEnd, Least, BlockOf
  <2>3. /\ layer \in 1..Layers /\ ~(layer > 1)
        /\ memory = [l \in 1..Layers |-> Prefix(IF l < layer THEN ExitEnd ELSE exitStart)]
    BY <2>1 DEF RollingInv, RollingMemories
  <2> QED BY <1>1, <2>2, <2>3 DEF RollingMemories
<1> QED BY <1>1, <1>6, <1>7, <1>8 DEF RollingInv

\* The checks at the end pass: the memories have the tokens before the planned local
\* context and the window has the rest.
LEMMA RollingCheck == RollingInv /\ Check => RollingInv'
<1> SUFFICES ASSUME RollingInv, Check PROVE RollingInv'
  OBVIOUS
<1>1. /\ stage = "check"
      /\ plan' = plan /\ position' = position /\ cache' = cache /\ cacheStart' = cacheStart
      /\ exitStart' = exitStart /\ ready' = ready /\ hidden' = hidden /\ layer' = layer
      /\ memory' = memory
  BY DEF Check
<1>2. /\ position = plan.end /\ cacheStart = NewCacheStart /\ exitStart = NewCacheStart
  BY <1>1, RollingNumbers DEF RollingInv, RollingWindow
<1>3. /\ plan.start \in Nat /\ plan.start >= BlockSize /\ plan.end = plan.start + LocalContext
      /\ LocalContext \in Nat /\ BlockSize \in Nat \ {0}
  BY PlanFacts, Boundaries DEF RollingInv
<1>4. cacheStart = plan.start /\ exitStart = plan.start
  <2>1. NewCacheStart = IF position <= LocalContext THEN 0 ELSE position - LocalContext
    BY RollingNumbers
  <2> QED BY <1>2, <1>3, <2>1
<1>5. Len(memory[1]) = plan.start
  <2>1. /\ layer \in 1..Layers /\ ~(layer > 1) /\ Layers \in Nat \ {0}
        /\ memory = [l \in 1..Layers |-> Prefix(IF l < layer THEN ExitEnd ELSE exitStart)]
    BY <1>1, RollingAssumption DEF RollingInv, RollingMemories
  <2>2. 1 \in 1..Layers /\ ~(1 < layer)
    BY <2>1
  <2>3. memory[1] = Prefix(plan.start)
    BY <2>1, <2>2, <1>4
  <2> QED BY <2>3, <1>3, PrefixIsSequence
<1>6. hidden >= QueryLength
  <2>1. QueryLength \in Nat /\ QueryLength <= LocalContext + BlockSize
    BY RollingAssumption, <1>3
  <2>2. hidden = Least(QueryLength, position)
    BY DEF RollingInv, RollingKeys
  <2> QED BY <1>2, <1>3, <2>1, <2>2 DEF Least
<1>7. stage' = "done"
  BY <1>4, <1>5, <1>6 DEF Check
<1>8. NewCacheStart' = NewCacheStart /\ ExitEnd' = ExitEnd
  BY <1>1 DEF NewCacheStart, Greatest, ExitEnd, Least, BlockOf
<1>9. RollingWindow'
  BY <1>1, <1>2, <1>7, <1>8 DEF RollingInv, RollingWindow
<1>10. RollingKeys'
  BY <1>1 DEF RollingInv, RollingKeys
<1>11. RollingMemories'
  BY <1>1, <1>8 DEF RollingInv, RollingMemories
<1> QED BY <1>1, <1>9, <1>10, <1>11 DEF RollingInv

\* The inductive step of the rolling collector.
LEMMA RollingStep == RollingInv /\ [Next]_vars => RollingInv'
<1>1. ASSUME RollingInv, UNCHANGED vars PROVE RollingInv'
  BY <1>1 DEF vars, RollingInv, RollingWindow, RollingKeys, RollingMemories,
              NewCacheStart, Greatest, ExitEnd, Least, BlockOf
<1> QED BY <1>1, RollingForward, RollingWrite, RollingTrim, RollingCheck DEF Next

\* What the layers hold: the layers written in this turn have the piece that exits,
\* the others do not, and the last layer never does before the turn is over.
LEMMA RollingLayers ==
  ASSUME RollingInv
  PROVE  /\ Layers \in Nat \ {0} /\ layer \in 1..Layers /\ DOMAIN memory = 1..Layers
         /\ \A l \in 1..Layers :
              memory[l] = Prefix(IF l < layer THEN ExitEnd ELSE exitStart)
         /\ Handed = exitStart
         /\ stage # "exit" => \A l \in 1..Layers : memory[l] = Prefix(exitStart)
<1>1. /\ Layers \in Nat \ {0} /\ layer \in 1..Layers
      /\ memory = [l \in 1..Layers |-> Prefix(IF l < layer THEN ExitEnd ELSE exitStart)]
      /\ stage # "exit" => ~(layer > 1)
  BY RollingAssumption DEF RollingInv, RollingMemories
<1>2. \A l \in 1..Layers : memory[l] = Prefix(IF l < layer THEN ExitEnd ELSE exitStart)
  BY <1>1
<1>3. memory[Layers] = Prefix(exitStart)
  <2>1. Layers \in 1..Layers /\ ~(Layers < layer)
    BY <1>1
  <2> QED BY <2>1, <1>2
<1>4. Handed = exitStart
  BY <1>3, RollingNumbers, PrefixIsSequence DEF Handed
<1>5. ASSUME stage # "exit", NEW l \in 1..Layers PROVE memory[l] = Prefix(exitStart)
  <2>1. ~(l < layer)
    BY <1>1, <1>5
  <2> QED BY <2>1, <1>2
<1> QED BY <1>1, <1>2, <1>4, <1>5

\* The invariant is what the run checks of the rolling collector.
LEMMA RollingInvServesPlan == RollingInv => RollingServesPlan
<1> SUFFICES ASSUME RollingInv PROVE RollingServesPlan
  OBVIOUS
<1>1. /\ plan = [start |-> plan.start, end |-> plan.end, candidates |-> plan.candidates]
      /\ plan.start \in Nat /\ plan.start >= BlockSize
      /\ plan.end = plan.start + LocalContext /\ plan.end \in Nat
      /\ plan.candidates \subseteq Nat
      /\ \A s \in plan.candidates : s + BlockSize <= plan.start
  BY PlanFacts, Sizes DEF RollingInv
<1>2. /\ position \in Nat /\ position <= plan.end
      /\ NewCacheStart = IF position <= LocalContext THEN 0 ELSE position - LocalContext
      /\ NewCacheStart \in Nat /\ cacheStart \in Nat /\ exitStart \in Nat
      /\ cacheStart <= NewCacheStart /\ exitStart <= NewCacheStart /\ cacheStart <= exitStart
      /\ position - cacheStart <= LocalContext + BlockSize
      /\ stage # "exit" => cacheStart = NewCacheStart
      /\ stage \in {"check", "done"} => position = plan.end
      /\ Len(cache) = position - cacheStart /\ cache \in Seq(Nat)
      /\ ExitEnd \in Nat
      /\ LocalContext \in Nat /\ BlockSize \in Nat \ {0}
  BY RollingNumbers, Sizes DEF RollingInv, RollingWindow
<1>3. cache = [i \in 1..(position - cacheStart) |-> cacheStart + i - 1]
  BY DEF RollingInv, RollingWindow, Stretch
<1>4. QueryLength \in Nat
  BY RollingAssumption, <1>2
<1>5. TypeOK
  <2>1. plan \in [start : Nat, end : Nat, candidates : SUBSET Nat]
    BY <1>1
  <2>2. hidden \in 0..QueryLength
    BY <1>2, <1>4 DEF RollingInv, RollingKeys, Least
  <2>3. ready \subseteq FullBlocks(plan.end)
    <3> SUFFICES ASSUME NEW s \in FullBlocks(position) PROVE s \in FullBlocks(plan.end)
      BY DEF RollingInv, RollingKeys
    <3>1. s \in 0..(position - BlockSize) /\ OnBoundary(s)
      BY FullBlocksAreBoundaries
    <3>2. s \in 0..(plan.end - BlockSize)
      BY <3>1, <1>1, <1>2
    <3> QED BY <3>1, <3>2, FullBlocksAreBoundaries
  <2>4. memory \in [1..Layers -> Seq(Nat \X Nat)]
    <3>1. \A l \in 1..Layers : Prefix(IF l < layer THEN ExitEnd ELSE exitStart) \in Seq(Nat \X Nat)
      BY <1>2, PrefixIsSequence
    <3> QED BY <3>1 DEF RollingInv, RollingMemories
  <2>5. layer \in 1..Layers /\ stage \in {"forward", "exit", "check", "done", "error"}
    BY DEF RollingInv, RollingWindow, RollingMemories
  <2>6. Len(cache) <= LocalContext + BlockSize
    BY <1>2
  <2>7. position \in 0..plan.end /\ cacheStart \in 0..position /\ exitStart \in 0..position
    BY <1>1, <1>2
  <2> QED BY <1>2, <2>1, <2>2, <2>3, <2>4, <2>5, <2>6, <2>7 DEF TypeOK
<1>6. MemoryIsPrefix
  <2> SUFFICES ASSUME NEW l \in 1..Layers
               PROVE  /\ memory[l] = [i \in 1..Len(memory[l]) |-> <<i - 1, i - 1>>]
                      /\ Len(memory[l]) \in {Handed, ExitEnd}
    BY DEF MemoryIsPrefix
  <2>1. PICK n \in {Handed, ExitEnd} : n \in Nat /\ memory[l] = Prefix(n)
    BY <1>2, RollingLayers
  <2>2. Len(memory[l]) = n
    BY <2>1, PrefixIsSequence
  <2> QED BY <2>1, <2>2 DEF Prefix
<1>7. ForwardSeesHistoryOnce
  <2>1. ASSUME stage = "forward"
        PROVE  /\ \A l \in 1..Layers : Len(memory[l]) = cacheStart
               /\ Len(cache) = Least(position, LocalContext)
    <3>1. exitStart = cacheStart
      BY <1>2, <2>1
    <3>2. \A l \in 1..Layers : memory[l] = Prefix(exitStart)
      BY <2>1, RollingLayers
    <3>3. Len(Prefix(exitStart)) = exitStart
      BY <1>2, PrefixIsSequence
    <3>4. Len(cache) = Least(position, LocalContext)
      BY <1>2, <2>1 DEF Least
    <3> QED BY <3>1, <3>2, <3>3, <3>4
  <2> QED BY <1>3, <2>1 DEF ForwardSeesHistoryOnce
<1>8. PlanIsServed
  <2>1. stage # "error"
    BY DEF RollingInv, RollingWindow
  <2>2. ASSUME stage = "done"
        PROVE  /\ cache = [i \in 1..LocalContext |-> plan.start + i - 1]
               /\ \A l \in 1..Layers, s \in plan.candidates : \A t \in s..(s + BlockSize - 1) :
                    \E i \in DOMAIN memory[l] : memory[l][i] = <<t, t>>
    <3>1. cacheStart = plan.start /\ exitStart = plan.start /\ position - cacheStart = LocalContext
      BY <1>1, <1>2, <2>2
    <3>2. cache = [i \in 1..LocalContext |-> plan.start + i - 1]
      BY <1>3, <3>1
    <3>3. ASSUME NEW l \in 1..Layers, NEW s \in plan.candidates, NEW t \in s..(s + BlockSize - 1)
          PROVE  \E i \in DOMAIN memory[l] : memory[l][i] = <<t, t>>
      <4>1. t + 1 \in 1..plan.start /\ (t + 1) - 1 = t
        <5>1. s \in Nat /\ s + BlockSize <= plan.start /\ plan.start \in Nat /\ BlockSize \in Nat
          BY <1>1, <1>2
        <5>2. t \in Int /\ s <= t /\ t <= s + BlockSize - 1
          BY <5>1
        <5> QED BY <5>1, <5>2
      <4>2. memory[l] = [i \in 1..plan.start |-> <<i - 1, i - 1>>]
        BY <3>1, <2>2, RollingLayers DEF Prefix
      <4> DEFINE j == t + 1
      <4>3. j \in 1..plan.start /\ j - 1 = t
        BY <4>1
      <4> HIDE DEF j
      <4>4. j \in DOMAIN memory[l] /\ memory[l][j] = <<t, t>>
        BY <4>2, <4>3
      <4> QED BY <4>4
    <3> QED BY <3>2, <3>3
  <2> QED BY <2>1, <2>2 DEF PlanIsServed
<1> QED BY <1>5, <1>6, <1>7, <1>8 DEF RollingServesPlan, HistorySeenOnce

\* What the last layer has is what has exited.
LEMMA HandedIsExited == RollingInv => Handed = exitStart
  BY RollingLayers

\* A step of the rolling collector is a step of the stream or leaves it alone: the
\* last layer's write hands a piece over, the trimming drops it.
LEMMA RollingStreams == RollingInv /\ [Next]_vars => [Stream!Next]_(Stream!streamVars)
<1> SUFFICES ASSUME RollingInv, [Next]_vars
             PROVE  Stream!Next \/ (position' = position /\ Handed' = Handed /\ cacheStart' = cacheStart)
  BY DEF Stream!streamVars
<1>1. RollingInv'
  BY RollingStep
<1>2. Handed = exitStart /\ Handed' = exitStart'
  <2>1. (Handed = exitStart)'
    BY <1>1, HandedIsExited, PTL
  <2> QED BY <2>1, HandedIsExited
<1>3. /\ position \in Nat /\ plan.end \in Nat /\ cacheStart \in Nat /\ exitStart \in Nat
      /\ NewCacheStart \in Nat /\ ExitEnd \in Nat /\ ExitEnd <= NewCacheStart
      /\ NewCacheStart = IF position <= LocalContext THEN 0 ELSE position - LocalContext
      /\ exitStart < NewCacheStart => exitStart < ExitEnd
      /\ exitStart <= NewCacheStart /\ cacheStart <= exitStart
      /\ LocalContext \in Nat /\ BlockSize \in Nat \ {0}
      /\ stage = "forward" => cacheStart = NewCacheStart
  BY RollingNumbers, Sizes DEF RollingInv, RollingWindow
<1>4. CASE Forward
  <2>1. stage = "forward" /\ position < plan.end /\ stage' # "error"
    BY <1>4, <1>1 DEF Forward, RollingInv, RollingWindow
  <2>2. position' = ChunkEnd /\ exitStart' = cacheStart /\ cacheStart' = cacheStart
    BY <1>4, <2>1 DEF Forward
  <2>3. ChunkEnd \in (position + 1)..(position + BlockSize)
    BY <1>3, <2>1 DEF ChunkEnd, Least
  <2>4. cacheStart = Handed /\ Handed' = Handed
    BY <1>2, <1>3, <2>1, <2>2
  <2> QED BY <2>2, <2>3, <2>4 DEF Stream!Next, Stream!Forward
<1>5. CASE WriteLayer
  <2>1. /\ exitStart < NewCacheStart /\ position' = position /\ cacheStart' = cacheStart
        /\ exitStart' = (IF layer = Layers THEN ExitEnd ELSE exitStart)
    BY <1>5, RollingWriteFacts
  <2>2. CASE layer = Layers
    <3>1. Handed' = ExitEnd /\ Handed = exitStart
      BY <2>1, <2>2, <1>2
    <3>2. Handed' > Handed /\ Handed' + LocalContext <= position
      BY <1>3, <2>1, <3>1
    <3> QED BY <2>1, <3>2 DEF Stream!Next, Stream!Hand
  <2>3. CASE layer # Layers
    BY <2>1, <2>3, <1>2
  <2> QED BY <2>2, <2>3
<1>6. CASE Trim
  <2>1. /\ exitStart >= NewCacheStart /\ exitStart' = exitStart /\ position' = position
        /\ cacheStart' = IF NewCacheStart > cacheStart THEN NewCacheStart ELSE cacheStart
    BY <1>6 DEF Trim
  <2>2. cacheStart' = Handed /\ Handed' = Handed
    BY <1>2, <1>3, <2>1
  <2> QED BY <2>1, <2>2 DEF Stream!Next, Stream!Drop
<1>7. CASE Check
  BY <1>7, <1>2 DEF Check
<1>8. CASE UNCHANGED vars
  BY <1>8, <1>2 DEF vars
<1> QED BY <1>4, <1>5, <1>6, <1>7, <1>8 DEF Next

------------------------------------------------------------------------------
(* The block-aligned collector.                                            *)

\* It counts blocks as the rolling collector does.
LEMMA SameBlocks ==
  /\ \A n : Aligned!FullBlocks(n) = FullBlocks(n)
  /\ Aligned!Plans(Tokens, Horizon) = Plans(Tokens, Horizon)
  /\ \A a, b : Aligned!Least(a, b) = Least(a, b)
<1>1. \A n : Aligned!FullBlocks(n) = FullBlocks(n)
  BY DEF Aligned!FullBlocks, FullBlocks
<1>2. \A S : Aligned!Cardinality(S) = Cardinality(S)
  BY DEF Aligned!Cardinality, Cardinality
<1>3. ASSUME NEW S PROVE Aligned!Newest(S) = Newest(S)
  <2> DEFINE C(s) == Cardinality({t \in S : t > s})
  <2>1. Newest(S) = {s \in S : C(s) < MaximumCandidates}
    BY DEF Newest
  <2>2. Aligned!Newest(S) = {s \in S : C(s) < MaximumCandidates}
    BY <1>2 DEF Aligned!Newest
  <2> QED BY <2>1, <2>2
<1>4. /\ Aligned!FirstRetrieval = FirstRetrieval
      /\ Aligned!LastRetrieval(Tokens, Horizon) = LastRetrieval(Tokens, Horizon)
  BY DEF Aligned!FirstRetrieval, FirstRetrieval, Aligned!LastRetrieval, LastRetrieval
<1>5. Aligned!Plans(Tokens, Horizon) = Plans(Tokens, Horizon)
  <2>1. \A p : Aligned!PlanAt(Tokens, p) = PlanAt(Tokens, p)
    <3> SUFFICES ASSUME NEW p PROVE Aligned!PlanAt(Tokens, p) = PlanAt(Tokens, p)
      OBVIOUS
    <3> DEFINE S == {s \in FullBlocks(Tokens) : s + BlockSize <= p + 1 - LocalContext}
    <3>1. S = {s \in Aligned!FullBlocks(Tokens) : s + BlockSize <= p + 1 - LocalContext}
      BY <1>1
    <3>2. PlanAt(Tokens, p) = [start |-> p + 1 - LocalContext, end |-> p + 1, candidates |-> Newest(S)]
      BY DEF PlanAt
    <3>3. Aligned!PlanAt(Tokens, p)
            = [start |-> p + 1 - LocalContext, end |-> p + 1, candidates |-> Aligned!Newest(S)]
      BY <3>1 DEF Aligned!PlanAt
    <3> QED BY <1>3, <3>2, <3>3
  <2> DEFINE A == {PlanAt(Tokens, p) : p \in FirstRetrieval..LastRetrieval(Tokens, Horizon)}
  <2>2. A = {Aligned!PlanAt(Tokens, p) :
               p \in Aligned!FirstRetrieval..Aligned!LastRetrieval(Tokens, Horizon)}
    BY <1>4, <2>1
  <2>3. Plans(Tokens, Horizon) = {q \in A : Cardinality(q.candidates) >= MinimumCandidates}
    BY DEF Plans
  <2> HIDE DEF A
  <2>4. Aligned!Plans(Tokens, Horizon) = {q \in A : Cardinality(q.candidates) >= MinimumCandidates}
    BY <1>2, <2>2 DEF Aligned!Plans
  <2> QED BY <2>3, <2>4
<1>6. \A a, b : Aligned!Least(a, b) = Least(a, b)
  BY DEF Aligned!Least, Least
<1> QED BY <1>1, <1>5, <1>6

\* The numbers its window is computed from.
LEMMA AlignedNumbers ==
  ASSUME AlignedInv
  PROVE  /\ plan.start \in Nat /\ plan.start >= BlockSize
         /\ plan.end = plan.start + LocalContext /\ plan.end \in Nat
         /\ LocalContext \in Nat /\ BlockSize \in Nat \ {0} /\ BlockSize <= LocalContext
         /\ alignedPosition \in Nat /\ alignedPosition <= plan.end
         /\ alignedStart \in Nat /\ alignedStart <= alignedPosition /\ OnBoundary(alignedStart)
         /\ Len(alignedCache) = alignedPosition - alignedStart
         /\ alignedCache \in Seq(Nat)
         /\ \A i \in 1..(alignedPosition - alignedStart) : alignedCache[i] = alignedStart + i - 1
<1>1. /\ plan.start \in Nat /\ plan.start >= BlockSize
      /\ plan.end = plan.start + LocalContext /\ plan.end \in Nat
      /\ LocalContext \in Nat /\ BlockSize \in Nat \ {0} /\ BlockSize <= LocalContext
  BY PlanFacts, Sizes DEF AlignedInv
<1>2. /\ alignedPosition \in Nat /\ alignedPosition <= plan.end
      /\ alignedStart \in Nat /\ alignedStart <= alignedPosition /\ OnBoundary(alignedStart)
      /\ alignedCache = Stretch(alignedStart, alignedPosition)
  BY <1>1 DEF AlignedInv, AlignedWindow
<1> QED BY <1>1, <1>2, StretchIsSequence

\* Before the first chunk there is nothing to account for.
LEMMA AlignedInit == Aligned!Init => AlignedInv
<1> SUFFICES ASSUME Aligned!Init PROVE AlignedInv
  OBVIOUS
<1>1. plan \in Plans(Tokens, Horizon)
  BY SameBlocks DEF Aligned!Init
<1>2. /\ plan.end \in Nat /\ LocalContext \in Nat /\ BlockSize \in Nat \ {0} /\ OnBoundary(0)
      /\ plan.candidates \subseteq Nat
  BY <1>1, PlanFacts, Boundaries
<1>3. /\ alignedPosition = 0 /\ alignedCache = <<>> /\ alignedStart = 0 /\ alignedReady = {}
      /\ summaries = {} /\ captured = [s \in {} |-> <<>>] /\ evicted = 0 /\ alignedHidden = 0
      /\ alignedStage = "forward"
  BY DEF Aligned!Init
<1>4. AlignedWindow
  <2>1. Stretch(0, 0) = <<>>
    BY DEF Stretch
  <2> QED BY <1>2, <1>3, <2>1 DEF AlignedWindow
<1>5. AlignedKept
  <2>1. FullBlocks(0) = {}
    BY <1>2, FullBlocksAreBoundaries
  <2>2. Least(QueryLength, 0) = 0
    BY RollingAssumption, <1>2 DEF Least
  <2>3. {c \in plan.candidates : c < 0} = {}
    BY <1>2
  <2>4. captured = [s \in {c \in plan.candidates : c < 0} |-> Stretch(s, s + BlockSize)]
    BY <1>3, <2>3
  <2> QED BY <1>3, <2>1, <2>2, <2>4 DEF AlignedKept
<1> QED BY <1>1, <1>4, <1>5 DEF AlignedInv

\* A forward pass adds a chunk to the window; the window has room for a block.
LEMMA AlignedForwardFacts ==
  ASSUME AlignedInv, Aligned!Forward
  PROVE  /\ alignedStage = "forward" /\ alignedPosition < plan.end /\ OnBoundary(alignedPosition)
         /\ alignedPosition - alignedStart <= LocalContext
         /\ alignedPosition' \in (alignedPosition + 1)..(alignedPosition + BlockSize)
         /\ alignedPosition' <= plan.end
         /\ alignedPosition' < plan.end => alignedPosition' = alignedPosition + BlockSize
         /\ alignedCache' = Stretch(alignedStart, alignedPosition')
         /\ alignedReady' = alignedReady \cup
              (IF alignedPosition' - alignedPosition = BlockSize THEN {alignedPosition} ELSE {})
         /\ summaries' = summaries \cup
              ((IF alignedPosition' - alignedPosition = BlockSize THEN {alignedPosition} ELSE {})
                 \cap plan.candidates)
         /\ alignedHidden' = Least(QueryLength, alignedHidden + (alignedPosition' - alignedPosition))
         /\ alignedStage' = "unload"
         /\ plan' = plan /\ alignedStart' = alignedStart
         /\ captured' = captured /\ evicted' = evicted
<1>1. alignedStage = "forward" /\ alignedPosition < plan.end
  BY DEF Aligned!Forward
<1>2. /\ alignedPosition \in Nat /\ plan.end \in Nat /\ alignedStart \in Nat
      /\ alignedStart <= alignedPosition /\ OnBoundary(alignedStart)
      /\ LocalContext \in Nat /\ BlockSize \in Nat \ {0}
  BY AlignedNumbers
<1>3. OnBoundary(alignedPosition) /\ alignedPosition - alignedStart < LocalContext + BlockSize
  BY <1>1 DEF AlignedInv, AlignedWindow
<1>4. alignedPosition - alignedStart <= LocalContext
  <2>1. OnBoundary(alignedStart + LocalContext)
    BY <1>2, Boundaries
  <2>2. alignedStart + LocalContext < alignedPosition
          => alignedStart + LocalContext + BlockSize <= alignedPosition
    BY <1>2, <1>3, <2>1, Boundaries
  <2> QED BY <1>2, <1>3, <2>2
<1> DEFINE end == IF alignedPosition + BlockSize <= plan.end
                    THEN alignedPosition + BlockSize ELSE plan.end
           done == IF end - alignedPosition = BlockSize THEN {alignedPosition} ELSE {}
<1>5. Aligned!ChunkEnd = end /\ Aligned!Completed = done
  BY DEF Aligned!ChunkEnd, Aligned!Completed, Aligned!Least
<1>6. end \in Nat /\ alignedPosition < end /\ end <= alignedPosition + BlockSize
      /\ end <= plan.end /\ (end < plan.end => end = alignedPosition + BlockSize)
  BY <1>1, <1>2
<1>7. done \subseteq {alignedPosition}
  OBVIOUS
<1> HIDE DEF end, done
<1>8. alignedPosition \notin FullBlocks(alignedPosition)
  BY <1>2, FullBlocksAreBoundaries
<1>9. done \cap plan.candidates \cap summaries = {}
  BY <1>7, <1>8 DEF AlignedInv, AlignedKept
<1>10. Len(alignedCache) = alignedPosition - alignedStart
  BY AlignedNumbers
<1>11. /\ alignedCache' = [i \in 1..(Len(alignedCache) + end - alignedPosition) |->
                             IF i <= Len(alignedCache) THEN alignedCache[i]
                             ELSE alignedPosition + (i - Len(alignedCache)) - 1]
       /\ alignedReady' = alignedReady \cup done
       /\ summaries' = summaries \cup (done \cap plan.candidates)
       /\ alignedHidden' = Least(QueryLength, alignedHidden + (end - alignedPosition))
       /\ alignedPosition' = end
       /\ alignedStage' = "unload"
       /\ plan' = plan /\ alignedStart' = alignedStart /\ captured' = captured /\ evicted' = evicted
  BY <1>5, <1>9, <1>10, SameBlocks DEF Aligned!Forward
<1>12. alignedCache' = Stretch(alignedStart, end)
  <2>1. \A i \in 1..(alignedPosition - alignedStart) : alignedCache[i] = alignedStart + i - 1
    BY AlignedNumbers
  <2>2. Len(alignedCache) + end - alignedPosition = end - alignedStart
    BY <1>2, <1>6, <1>10
  <2>3. \A i \in 1..(end - alignedStart) :
          (IF i <= Len(alignedCache) THEN alignedCache[i]
           ELSE alignedPosition + (i - Len(alignedCache)) - 1) = alignedStart + i - 1
    BY <1>2, <1>6, <1>10, <2>1
  <2> QED BY <1>11, <2>2, <2>3 DEF Stretch
<1>13. end \in (alignedPosition + 1)..(alignedPosition + BlockSize)
  BY <1>2, <1>6
<1> QED BY <1>1, <1>3, <1>4, <1>6, <1>11, <1>12, <1>13 DEF done

LEMMA AlignedForward == AlignedInv /\ Aligned!Forward => AlignedInv'
<1> SUFFICES ASSUME AlignedInv, Aligned!Forward PROVE AlignedInv'
  OBVIOUS
<1>1. /\ plan.end \in Nat /\ LocalContext \in Nat /\ BlockSize \in Nat \ {0}
      /\ alignedPosition \in Nat /\ alignedStart \in Nat
      /\ alignedStart <= alignedPosition /\ OnBoundary(alignedStart)
  BY AlignedNumbers
<1> DEFINE end == alignedPosition'
           done == IF end - alignedPosition = BlockSize THEN {alignedPosition} ELSE {}
<1>2. /\ OnBoundary(alignedPosition)
      /\ alignedPosition - alignedStart <= LocalContext
      /\ end \in (alignedPosition + 1)..(alignedPosition + BlockSize)
      /\ end <= plan.end
      /\ end < plan.end => end = alignedPosition + BlockSize
      /\ alignedCache' = Stretch(alignedStart, end)
      /\ alignedReady' = alignedReady \cup done
      /\ summaries' = summaries \cup (done \cap plan.candidates)
      /\ alignedHidden' = Least(QueryLength, alignedHidden + (end - alignedPosition))
      /\ alignedStage' = "unload"
      /\ plan' = plan /\ alignedStart' = alignedStart
      /\ captured' = captured /\ evicted' = evicted
  BY AlignedForwardFacts
<1>3. end \in Nat /\ alignedPosition < end /\ end <= alignedPosition + BlockSize
  BY <1>1, <1>2
<1>4. /\ FullBlocks(end) = FullBlocks(alignedPosition) \cup done
      /\ alignedPosition \notin FullBlocks(alignedPosition)
  BY <1>1, <1>2, <1>3, BlocksAfterChunk
<1>5. AlignedWindow'
  <2>1. end < plan.end => OnBoundary(end)
    <3>1. OnBoundary(alignedPosition + BlockSize)
      BY <1>1, <1>2, Boundaries
    <3> QED BY <1>2, <3>1
  <2>2. /\ end \in 0..plan.end /\ alignedStart \in 0..end
        /\ end - alignedStart <= LocalContext + BlockSize
        /\ alignedStart > 0 => end - alignedStart >= LocalContext
    <3>1. alignedStart > 0 => alignedPosition - alignedStart >= LocalContext
      BY DEF AlignedInv, AlignedWindow
    <3> QED BY <1>1, <1>2, <1>3, <3>1
  <2> QED BY <1>1, <1>2, <2>1, <2>2 DEF AlignedWindow
<1>6. AlignedKept'
  <2>1. /\ alignedReady = {s \in FullBlocks(alignedPosition) : s >= alignedStart}
        /\ alignedHidden = Least(QueryLength, alignedPosition)
        /\ evicted = alignedStart
        /\ summaries = plan.candidates \cap FullBlocks(alignedPosition)
        /\ captured = [s \in {c \in plan.candidates : c < alignedStart} |-> Stretch(s, s + BlockSize)]
    BY DEF AlignedInv, AlignedKept
  <2>2. \A s \in done : s >= alignedStart
    BY <1>1
  <2>3. alignedHidden' = Least(QueryLength, end)
    <3>1. QueryLength \in Nat
      BY RollingAssumption, <1>1
    <3> HIDE DEF end
    <3> QED BY <1>1, <1>2, <1>3, <2>1, <3>1 DEF Least
  <2> HIDE DEF done
  <2>4. alignedReady' = {s \in FullBlocks(end) : s >= alignedStart}
    BY <1>2, <1>4, <2>1, <2>2
  <2>5. summaries' = plan.candidates \cap FullBlocks(end)
    BY <1>2, <1>4, <2>1
  <2> QED BY <1>2, <2>1, <2>3, <2>4, <2>5 DEF AlignedKept
<1> QED BY <1>2, <1>5, <1>6 DEF AlignedInv

\* The block that is unloaded is the first of the window, its key waits, and its
\* tokens were captured before for no candidate.
LEMMA AlignedUnloadFacts ==
  ASSUME AlignedInv, Aligned!Unload
  PROVE  /\ alignedStage = "unload" /\ alignedPosition = alignedStart + LocalContext + BlockSize
         /\ alignedStart \in alignedReady
         /\ alignedReady' = alignedReady \ {alignedStart}
         /\ captured' = (IF alignedStart \in plan.candidates
                          THEN [s \in DOMAIN captured \cup {alignedStart} |->
                                  IF s = alignedStart THEN Stretch(s, s + BlockSize) ELSE captured[s]]
                          ELSE captured)
         /\ alignedStart' = alignedStart + BlockSize
         /\ evicted' = evicted + BlockSize
         /\ alignedCache' = Stretch(alignedStart + BlockSize, alignedPosition)
         /\ plan' = plan /\ alignedPosition' = alignedPosition
         /\ summaries' = summaries /\ alignedHidden' = alignedHidden
         /\ alignedStage' = alignedStage
<1>1. /\ plan.end \in Nat /\ LocalContext \in Nat /\ BlockSize \in Nat \ {0}
      /\ alignedPosition \in Nat /\ alignedStart \in Nat
      /\ alignedStart <= alignedPosition /\ OnBoundary(alignedStart)
      /\ Len(alignedCache) = alignedPosition - alignedStart
      /\ alignedCache \in Seq(Nat)
      /\ \A i \in 1..(alignedPosition - alignedStart) : alignedCache[i] = alignedStart + i - 1
  BY AlignedNumbers
<1>2. alignedStage = "unload" /\ alignedPosition - alignedStart >= LocalContext + BlockSize
  BY DEF Aligned!Unload, Aligned!Overfull
<1>3. alignedPosition = alignedStart + LocalContext + BlockSize
  <2>1. alignedPosition - alignedStart <= LocalContext + BlockSize
    BY DEF AlignedInv, AlignedWindow
  <2> QED BY <1>1, <1>2, <2>1
<1>4. alignedStart \in alignedReady
  <2>1. alignedStart \in 0..(alignedPosition - BlockSize)
    BY <1>1, <1>3
  <2>2. alignedStart \in FullBlocks(alignedPosition)
    BY <1>1, <2>1, FullBlocksAreBoundaries
  <2> QED BY <1>1, <2>2 DEF AlignedInv, AlignedKept
<1>5. alignedStart \notin DOMAIN captured
  <2>1. DOMAIN captured = {c \in plan.candidates : c < alignedStart}
    BY DEF AlignedInv, AlignedKept
  <2> QED BY <1>1, <2>1
<1>6. Aligned!Retained = LocalContext
  BY <1>1, <1>3 DEF Aligned!Retained
<1>7. /\ alignedReady' = alignedReady \ {alignedStart}
      /\ captured' = (IF alignedStart \in plan.candidates
                        THEN [s \in DOMAIN captured \cup {alignedStart} |->
                                IF s = alignedStart THEN Aligned!Front ELSE captured[s]]
                        ELSE captured)
      /\ alignedStart' = alignedStart + BlockSize
      /\ evicted' = evicted + BlockSize
      /\ alignedCache' = IF Len(alignedCache) <= Aligned!Retained THEN alignedCache
                         ELSE SubSeq(alignedCache, Len(alignedCache) - Aligned!Retained + 1,
                                     Len(alignedCache))
      /\ plan' = plan /\ alignedPosition' = alignedPosition
      /\ summaries' = summaries /\ alignedHidden' = alignedHidden
      /\ alignedStage' = alignedStage
  BY <1>4, <1>5 DEF Aligned!Unload
<1>8. Aligned!Front = Stretch(alignedStart, alignedStart + BlockSize)
  <2>1. Aligned!Front = SubSeq(alignedCache, 1, BlockSize)
    BY DEF Aligned!Front
  <2>2. SubSeq(alignedCache, 1, BlockSize) = [i \in 1..(BlockSize - 1 + 1) |-> alignedCache[i + 1 - 1]]
    BY <1>1, <1>3
  <2>3. BlockSize - 1 + 1 = (alignedStart + BlockSize) - alignedStart
    BY <1>1
  <2>4. \A i \in 1..((alignedStart + BlockSize) - alignedStart) :
          alignedCache[i + 1 - 1] = alignedStart + i - 1
    <3> SUFFICES ASSUME NEW i \in 1..((alignedStart + BlockSize) - alignedStart)
                 PROVE  alignedCache[i + 1 - 1] = alignedStart + i - 1
      OBVIOUS
    <3>1. i \in 1..(alignedPosition - alignedStart) /\ i + 1 - 1 = i
      BY <1>1, <1>3
    <3> QED BY <1>1, <3>1
  <2> QED BY <2>1, <2>2, <2>3, <2>4 DEF Stretch
<1>9. alignedCache' = Stretch(alignedStart + BlockSize, alignedPosition)
  <2> DEFINE from == Len(alignedCache) - LocalContext + 1
  <2>1. alignedCache' = SubSeq(alignedCache, from, Len(alignedCache))
    <3>1. ~(Len(alignedCache) <= LocalContext)
      BY <1>1, <1>3
    <3>2. alignedCache' = IF Len(alignedCache) <= Aligned!Retained THEN alignedCache
                          ELSE SubSeq(alignedCache, Len(alignedCache) - Aligned!Retained + 1,
                                      Len(alignedCache))
      BY <1>7
    <3> QED BY <3>1, <3>2, <1>6
  <2>2. from = BlockSize + 1 /\ Len(alignedCache) = LocalContext + BlockSize
    BY <1>1, <1>3
  <2> HIDE DEF from
  <2>3. SubSeq(alignedCache, from, Len(alignedCache))
          = [i \in 1..(Len(alignedCache) - from + 1) |-> alignedCache[i + from - 1]]
    BY <1>1, <2>2
  <2>4. Len(alignedCache) - from + 1 = alignedPosition - (alignedStart + BlockSize)
    BY <1>1, <1>3, <2>2
  <2>5. \A i \in 1..(alignedPosition - (alignedStart + BlockSize)) :
          alignedCache[i + from - 1] = (alignedStart + BlockSize) + i - 1
    <3> SUFFICES ASSUME NEW i \in 1..(alignedPosition - (alignedStart + BlockSize))
                 PROVE  alignedCache[i + from - 1] = (alignedStart + BlockSize) + i - 1
      OBVIOUS
    <3>1. i + from - 1 \in 1..(alignedPosition - alignedStart) /\ i + from - 1 = i + BlockSize
      BY <1>1, <1>3, <2>2
    <3>2. alignedStart + (i + BlockSize) - 1 = (alignedStart + BlockSize) + i - 1
      BY <1>1, <3>1
    <3> QED BY <1>1, <3>1, <3>2
  <2> QED BY <2>1, <2>3, <2>4, <2>5 DEF Stretch
<1> QED BY <1>2, <1>3, <1>4, <1>7, <1>8, <1>9

LEMMA AlignedUnload == AlignedInv /\ Aligned!Unload => AlignedInv'
<1> SUFFICES ASSUME AlignedInv, Aligned!Unload PROVE AlignedInv'
  OBVIOUS
<1>1. /\ plan.end \in Nat /\ LocalContext \in Nat /\ BlockSize \in Nat \ {0}
      /\ alignedPosition \in Nat /\ alignedStart \in Nat
      /\ alignedStart <= alignedPosition /\ OnBoundary(alignedStart)
      /\ alignedPosition <= plan.end
  BY AlignedNumbers
<1>2. /\ alignedStage = "unload" /\ alignedPosition = alignedStart + LocalContext + BlockSize
      /\ alignedReady' = alignedReady \ {alignedStart}
      /\ captured' = (IF alignedStart \in plan.candidates
                        THEN [s \in DOMAIN captured \cup {alignedStart} |->
                                IF s = alignedStart THEN Stretch(s, s + BlockSize) ELSE captured[s]]
                        ELSE captured)
      /\ alignedStart' = alignedStart + BlockSize
      /\ evicted' = evicted + BlockSize
      /\ alignedCache' = Stretch(alignedStart + BlockSize, alignedPosition)
      /\ plan' = plan /\ alignedPosition' = alignedPosition
      /\ summaries' = summaries /\ alignedHidden' = alignedHidden
      /\ alignedStage' = alignedStage
  BY AlignedUnloadFacts
<1>3. AlignedWindow'
  <2>1. OnBoundary(alignedStart + BlockSize)
    BY <1>1, Boundaries
  <2>2. /\ alignedStart + BlockSize \in 0..alignedPosition
        /\ alignedPosition - (alignedStart + BlockSize) = LocalContext
    BY <1>1, <1>2
  <2>3. alignedPosition < plan.end => OnBoundary(alignedPosition)
    BY DEF AlignedInv, AlignedWindow
  <2> QED BY <1>1, <1>2, <2>1, <2>2, <2>3 DEF AlignedWindow
<1>4. AlignedKept'
  <2>1. /\ alignedReady = {s \in FullBlocks(alignedPosition) : s >= alignedStart}
        /\ alignedHidden = Least(QueryLength, alignedPosition)
        /\ evicted = alignedStart
        /\ summaries = plan.candidates \cap FullBlocks(alignedPosition)
        /\ captured = [s \in {c \in plan.candidates : c < alignedStart} |-> Stretch(s, s + BlockSize)]
    BY DEF AlignedInv, AlignedKept
  <2>2. \A s \in Nat : OnBoundary(s) =>
          /\ (s >= alignedStart + BlockSize) <=> (s >= alignedStart /\ s # alignedStart)
          /\ (s < alignedStart + BlockSize) <=> (s < alignedStart \/ s = alignedStart)
    <3> SUFFICES ASSUME NEW s \in Nat, OnBoundary(s)
                 PROVE  s > alignedStart <=> s >= alignedStart + BlockSize
      BY <1>1
    <3>1. s > alignedStart => s >= alignedStart + BlockSize
      BY <1>1, Boundaries
    <3> QED BY <1>1, <3>1
  <2>3. alignedReady' = {s \in FullBlocks(alignedPosition) : s >= alignedStart + BlockSize}
    <3>1. \A s \in FullBlocks(alignedPosition) : s \in Nat /\ OnBoundary(s)
      BY FullBlocksAreBoundaries, <1>1
    <3> QED BY <1>2, <2>1, <2>2, <3>1
  <2>4. plan.candidates \subseteq Nat /\ \A s \in plan.candidates : OnBoundary(s)
    BY PlanFacts DEF AlignedInv
  <2>5. {c \in plan.candidates : c < alignedStart + BlockSize}
          = {c \in plan.candidates : c < alignedStart} \cup
              (IF alignedStart \in plan.candidates THEN {alignedStart} ELSE {})
    BY <2>2, <2>4
  <2>6. captured' = [s \in {c \in plan.candidates : c < alignedStart + BlockSize} |->
                       Stretch(s, s + BlockSize)]
    <3>1. CASE alignedStart \in plan.candidates
      <4>1. captured' = [s \in DOMAIN captured \cup {alignedStart} |->
                           IF s = alignedStart THEN Stretch(s, s + BlockSize) ELSE captured[s]]
        BY <3>1, <1>2
      <4>2. DOMAIN captured = {c \in plan.candidates : c < alignedStart}
        BY <2>1
      <4>3. DOMAIN captured \cup {alignedStart} = {c \in plan.candidates : c < alignedStart + BlockSize}
        BY <3>1, <2>5, <4>2
      <4>4. \A s \in DOMAIN captured : captured[s] = Stretch(s, s + BlockSize)
        BY <2>1
      <4> QED BY <4>1, <4>3, <4>4
    <3>2. CASE alignedStart \notin plan.candidates
      <4>1. {c \in plan.candidates : c < alignedStart + BlockSize}
              = {c \in plan.candidates : c < alignedStart}
        BY <3>2, <2>5
      <4> QED BY <3>2, <4>1, <1>2, <2>1
    <3> QED BY <3>1, <3>2
  <2> QED BY <1>2, <2>1, <2>3, <2>6 DEF AlignedKept
<1> QED BY <1>2, <1>3, <1>4 DEF AlignedInv

\* No block is left to unload: the next chunk, or the checks at the end.
LEMMA AlignedSettle == AlignedInv /\ Aligned!Settle => AlignedInv'
<1> SUFFICES ASSUME AlignedInv, Aligned!Settle PROVE AlignedInv'
  OBVIOUS
<1>1. /\ alignedStage' = IF alignedPosition < plan.end THEN "forward" ELSE "check"
      /\ ~(alignedPosition - alignedStart >= LocalContext + BlockSize)
      /\ plan' = plan /\ alignedPosition' = alignedPosition /\ alignedCache' = alignedCache
      /\ alignedStart' = alignedStart /\ alignedReady' = alignedReady /\ summaries' = summaries
      /\ captured' = captured /\ evicted' = evicted /\ alignedHidden' = alignedHidden
  BY DEF Aligned!Settle, Aligned!Overfull
<1>2. /\ alignedPosition - alignedStart < LocalContext + BlockSize
      /\ alignedStage' = "check" => alignedPosition = plan.end
      /\ alignedStage' \in {"forward", "check"}
  BY <1>1, AlignedNumbers
<1>3. AlignedWindow'
  BY <1>1, <1>2 DEF AlignedInv, AlignedWindow
<1>4. AlignedKept'
  BY <1>1 DEF AlignedInv, AlignedKept
<1> QED BY <1>1, <1>3, <1>4 DEF AlignedInv

\* What the checks look at when the last chunk has been forwarded: the window starts
\* at the last boundary that leaves it the local context, and of all candidates the
\* summary and the K/V were captured.
LEMMA AlignedAtTheEnd ==
  ASSUME AlignedInv, alignedStage \in {"check", "done"}
  PROVE  /\ alignedPosition = plan.end
         /\ plan.end - alignedStart \in LocalContext..(LocalContext + BlockSize - 1)
         /\ alignedStart = BlockOf(plan.start)
         /\ evicted = alignedStart
         /\ alignedHidden >= QueryLength
         /\ summaries = plan.candidates
         /\ captured = [s \in plan.candidates |-> Stretch(s, s + BlockSize)]
<1>1. /\ plan.start \in Nat /\ plan.start >= BlockSize
      /\ plan.end = plan.start + LocalContext /\ plan.end \in Nat
      /\ LocalContext \in Nat /\ BlockSize \in Nat \ {0}
      /\ alignedStart \in Nat /\ OnBoundary(alignedStart)
  BY AlignedNumbers
<1>2. /\ alignedPosition = plan.end
      /\ alignedPosition - alignedStart < LocalContext + BlockSize
      /\ alignedStart > 0 => alignedPosition - alignedStart >= LocalContext
  BY DEF AlignedInv, AlignedWindow
<1>3. plan.end - alignedStart \in LocalContext..(LocalContext + BlockSize - 1)
  BY <1>1, <1>2
<1>4. alignedStart <= plan.start /\ plan.start < alignedStart + BlockSize
  BY <1>1, <1>3
<1>5. alignedStart = BlockOf(plan.start)
  <2> DEFINE b == BlockOf(plan.start)
  <2>1. b \in Nat /\ OnBoundary(b) /\ b <= plan.start /\ plan.start < b + BlockSize
    BY <1>1, Boundaries
  <2> HIDE DEF b
  <2>2. /\ b < alignedStart => b + BlockSize <= alignedStart
        /\ alignedStart < b => alignedStart + BlockSize <= b
    <3>1. \A a, c \in Int : OnBoundary(a) /\ OnBoundary(c) /\ a < c => a + BlockSize <= c
      BY Boundaries
    <3>2. b \in Int /\ alignedStart \in Int
      BY <1>1, <2>1
    <3> QED BY <1>1, <2>1, <3>1, <3>2
  <2>3. alignedStart = b
    BY <1>1, <1>4, <2>1, <2>2
  <2> QED BY <2>3 DEF b
<1>6. /\ plan.candidates \subseteq Nat
      /\ \A s \in plan.candidates : OnBoundary(s) /\ s + BlockSize <= plan.start
  BY PlanFacts DEF AlignedInv
<1>7. /\ alignedHidden = Least(QueryLength, alignedPosition)
      /\ evicted = alignedStart
      /\ summaries = plan.candidates \cap FullBlocks(alignedPosition)
      /\ captured = [s \in {c \in plan.candidates : c < alignedStart} |-> Stretch(s, s + BlockSize)]
  BY DEF AlignedInv, AlignedKept
<1>8. alignedHidden >= QueryLength
  <2>1. QueryLength \in Nat /\ QueryLength <= LocalContext + BlockSize
    BY RollingAssumption, <1>1
  <2> QED BY <1>1, <1>2, <1>7, <2>1 DEF Least
<1>9. plan.candidates \subseteq FullBlocks(alignedPosition)
  <2> SUFFICES ASSUME NEW s \in plan.candidates PROVE s \in FullBlocks(alignedPosition)
    OBVIOUS
  <2>1. s \in Nat /\ OnBoundary(s) /\ s + BlockSize <= plan.start
    BY <1>6
  <2>2. s \in 0..(alignedPosition - BlockSize)
    BY <1>1, <1>2, <2>1
  <2> QED BY <2>1, <2>2, FullBlocksAreBoundaries
<1>10. {c \in plan.candidates : c < alignedStart} = plan.candidates
  <2> SUFFICES ASSUME NEW s \in plan.candidates PROVE s < alignedStart
    OBVIOUS
  <2>1. s \in Nat /\ s + BlockSize <= plan.start
    BY <1>6
  <2> QED BY <1>1, <1>4, <2>1
<1> QED BY <1>2, <1>3, <1>5, <1>7, <1>8, <1>9, <1>10

\* The checks at the end pass.
LEMMA AlignedCheck == AlignedInv /\ Aligned!Check => AlignedInv'
<1> SUFFICES ASSUME AlignedInv, Aligned!Check PROVE AlignedInv'
  OBVIOUS
<1>1. /\ alignedStage = "check"
      /\ plan' = plan /\ alignedPosition' = alignedPosition /\ alignedCache' = alignedCache
      /\ alignedStart' = alignedStart /\ alignedReady' = alignedReady /\ summaries' = summaries
      /\ captured' = captured /\ evicted' = evicted /\ alignedHidden' = alignedHidden
  BY DEF Aligned!Check
<1>2. /\ alignedPosition = plan.end
      /\ plan.end - alignedStart \in LocalContext..(LocalContext + BlockSize - 1)
      /\ evicted = alignedStart
      /\ alignedHidden >= QueryLength
      /\ summaries = plan.candidates
      /\ DOMAIN captured = plan.candidates
  BY <1>1, AlignedAtTheEnd
<1>3. alignedStart % BlockSize = 0
  BY AlignedNumbers DEF OnBoundary
<1>4. alignedStage' = "done"
  BY <1>2, <1>3 DEF Aligned!Check
<1>5. AlignedWindow'
  BY <1>1, <1>2, <1>4 DEF AlignedInv, AlignedWindow
<1>6. AlignedKept'
  BY <1>1 DEF AlignedInv, AlignedKept
<1> QED BY <1>1, <1>5, <1>6 DEF AlignedInv

\* The inductive step of the block-aligned collector.
LEMMA AlignedStep == AlignedInv /\ [Aligned!Next]_(Aligned!vars) => AlignedInv'
<1>1. ASSUME AlignedInv, UNCHANGED Aligned!vars PROVE AlignedInv'
  BY <1>1 DEF Aligned!vars, AlignedInv, AlignedWindow, AlignedKept
<1> QED BY <1>1, AlignedForward, AlignedUnload, AlignedSettle, AlignedCheck DEF Aligned!Next

\* The invariant is what the run checks of the block-aligned collector.
LEMMA AlignedInvAccounts == AlignedInv => BlocksAccounted
<1> SUFFICES ASSUME AlignedInv PROVE BlocksAccounted
  OBVIOUS
<1>1. /\ plan = [start |-> plan.start, end |-> plan.end, candidates |-> plan.candidates]
      /\ plan.candidates \subseteq Nat
  BY PlanFacts DEF AlignedInv
<1>2. /\ plan.start \in Nat /\ plan.start >= BlockSize
      /\ plan.end = plan.start + LocalContext /\ plan.end \in Nat
      /\ LocalContext \in Nat /\ BlockSize \in Nat \ {0} /\ BlockSize <= LocalContext
      /\ alignedPosition \in Nat /\ alignedPosition <= plan.end
      /\ alignedStart \in Nat /\ alignedStart <= alignedPosition /\ OnBoundary(alignedStart)
      /\ Len(alignedCache) = alignedPosition - alignedStart
      /\ alignedCache \in Seq(Nat)
  BY AlignedNumbers
<1>3. /\ alignedStart > 0 => alignedPosition - alignedStart >= LocalContext
      /\ alignedPosition - alignedStart <= LocalContext + BlockSize
      /\ alignedStage # "unload" => alignedPosition - alignedStart < LocalContext + BlockSize
      /\ alignedStage \in {"forward", "unload", "check", "done"}
      /\ alignedCache = Stretch(alignedStart, alignedPosition)
  BY DEF AlignedInv, AlignedWindow
<1>4. /\ alignedReady = {s \in FullBlocks(alignedPosition) : s >= alignedStart}
      /\ alignedHidden = Least(QueryLength, alignedPosition)
      /\ evicted = alignedStart
      /\ summaries = plan.candidates \cap FullBlocks(alignedPosition)
      /\ captured = [s \in {c \in plan.candidates : c < alignedStart} |-> Stretch(s, s + BlockSize)]
  BY DEF AlignedInv, AlignedKept
<1>5. QueryLength \in Nat
  BY RollingAssumption, <1>2
<1>6. /\ DOMAIN captured = {c \in plan.candidates : c < alignedStart}
      /\ \A s \in DOMAIN captured : captured[s] = Stretch(s, s + BlockSize)
  BY <1>4
<1>7. \A s \in DOMAIN captured : s \in Nat /\ captured[s] \in Seq(Nat)
  <2> SUFFICES ASSUME NEW s \in DOMAIN captured PROVE s \in Nat /\ captured[s] \in Seq(Nat)
    OBVIOUS
  <2>1. s \in Nat
    BY <1>1, <1>6
  <2>2. s + BlockSize \in Nat /\ s <= s + BlockSize
    BY <1>2, <2>1
  <2> QED BY <1>6, <2>1, <2>2, StretchIsSequence
<1>8. FullBlocks(alignedPosition) \subseteq FullBlocks(plan.end)
  <2> SUFFICES ASSUME NEW s \in FullBlocks(alignedPosition) PROVE s \in FullBlocks(plan.end)
    OBVIOUS
  <2>1. s \in 0..(alignedPosition - BlockSize) /\ OnBoundary(s)
    BY FullBlocksAreBoundaries
  <2>2. s \in 0..(plan.end - BlockSize)
    BY <2>1, <1>2
  <2> QED BY <2>1, <2>2, FullBlocksAreBoundaries
<1>9. Aligned!TypeOK
  <2>1. plan \in [start : Nat, end : Nat, candidates : SUBSET Nat]
    BY <1>1, <1>2
  <2>2. Len(alignedCache) <= LocalContext + BlockSize
    BY <1>2, <1>3
  <2>3. alignedStart \in FullBlocks(plan.end)
    <3>1. alignedStart \in 0..(plan.end - BlockSize)
      BY <1>2, <1>3
    <3> QED BY <1>2, <3>1, FullBlocksAreBoundaries
  <2>4. captured \in [DOMAIN captured -> Seq(Nat)]
    BY <1>4, <1>7
  <2>5. alignedHidden \in 0..QueryLength
    BY <1>2, <1>4, <1>5 DEF Least
  <2>6. alignedPosition \in 0..plan.end /\ evicted \in 0..plan.end
    BY <1>2, <1>4
  <2>7. alignedReady \subseteq FullBlocks(plan.end) /\ summaries \subseteq plan.candidates
        /\ DOMAIN captured \subseteq plan.candidates
    BY <1>4, <1>6, <1>8
  <2> QED BY <1>2, <1>3, <2>1, <2>2, <2>3, <2>4, <2>5, <2>6, <2>7, SameBlocks DEF Aligned!TypeOK
<1>10. Aligned!CapturedWhole
  <2> SUFFICES ASSUME NEW s \in DOMAIN captured
               PROVE  captured[s] = [i \in 1..BlockSize |-> s + i - 1]
    BY DEF Aligned!CapturedWhole
  <2>1. (s + BlockSize) - s = BlockSize
    BY <1>2, <1>7
  <2> QED BY <1>6, <2>1 DEF Stretch
<1>11. Aligned!CacheAligned
  <2>1. alignedCache = [i \in 1..(alignedPosition - alignedStart) |-> alignedStart + i - 1]
    BY <1>3 DEF Stretch
  <2>2. ASSUME NEW s \in DOMAIN captured PROVE s + BlockSize <= alignedStart
    <3>1. s \in plan.candidates /\ s < alignedStart /\ s \in Nat
      BY <1>1, <1>6
    <3>2. OnBoundary(s)
      BY <3>1, PlanFacts DEF AlignedInv
    <3> QED BY <1>2, <3>1, <3>2, Boundaries
  <2>3. \A s \in plan.candidates : s < alignedStart => s \in DOMAIN captured
    BY <1>6
  <2> QED BY <2>1, <2>2, <2>3 DEF Aligned!CacheAligned
<1>12. Aligned!ReadyBlocksAreLocal
  BY <1>4, SameBlocks DEF Aligned!ReadyBlocksAreLocal
<1>13. Aligned!WindowBounds
  <2> SUFFICES ASSUME alignedStage \in {"forward", "check", "done"}
               PROVE  /\ Len(alignedCache) < LocalContext + BlockSize
                      /\ Len(alignedCache) >= Least(alignedPosition, LocalContext)
    BY SameBlocks DEF Aligned!WindowBounds
  <2>1. alignedStage # "unload"
    OBVIOUS
  <2> QED BY <1>2, <1>3, <2>1 DEF Least
<1> QED BY <1>9, <1>10, <1>11, <1>12, <1>13 DEF BlocksAccounted, Aligned!BlocksAccounted

\* A step of the block-aligned collector is a step of the stream or leaves it alone:
\* the block that is unloaded is handed over and dropped at once.
LEMMA AlignedStreams ==
  AlignedInv /\ [Aligned!Next]_(Aligned!vars) => [Aligned!Stream!Next]_(Aligned!Stream!streamVars)
<1> SUFFICES ASSUME AlignedInv, [Aligned!Next]_(Aligned!vars)
             PROVE  \/ Aligned!Stream!Next
                    \/ alignedPosition' = alignedPosition /\ evicted' = evicted
                       /\ alignedStart' = alignedStart
  BY DEF Aligned!Stream!streamVars
<1>1. /\ alignedPosition \in Nat /\ alignedStart \in Nat
      /\ LocalContext \in Nat /\ BlockSize \in Nat \ {0}
      /\ evicted = alignedStart
  BY AlignedNumbers DEF AlignedInv, AlignedKept
<1>2. CASE Aligned!Forward
  <2>1. /\ alignedPosition' \in (alignedPosition + 1)..(alignedPosition + BlockSize)
        /\ alignedStart' = alignedStart /\ evicted' = evicted
    BY <1>2, AlignedForwardFacts
  <2> QED BY <1>1, <2>1 DEF Aligned!Stream!Next, Aligned!Stream!Forward
<1>3. CASE Aligned!Unload
  <2>1. /\ alignedPosition = alignedStart + LocalContext + BlockSize
        /\ alignedStart' = alignedStart + BlockSize
        /\ evicted' = evicted + BlockSize
        /\ alignedPosition' = alignedPosition
    BY <1>3, AlignedUnloadFacts
  <2>2. evicted' > evicted /\ evicted' + LocalContext <= alignedPosition /\ alignedStart' = evicted'
    BY <1>1, <2>1
  <2> QED BY <2>1, <2>2 DEF Aligned!Stream!Next, Aligned!Stream!Hand
<1>4. CASE Aligned!Settle
  BY <1>4 DEF Aligned!Settle
<1>5. CASE Aligned!Check
  BY <1>5 DEF Aligned!Check
<1>6. CASE UNCHANGED Aligned!vars
  BY <1>6 DEF Aligned!vars
<1> QED BY <1>2, <1>3, <1>4, <1>5, <1>6 DEF Aligned!Next

------------------------------------------------------------------------------
(* The two collectors one after the other, and the evaluation after them.  *)

\* A step of the whole is one of the rolling collector's or leaves its state.
LEMMA BothStepsRoll == [BothNext]_<<vars, alignedVars, answerVars>> => [Next]_vars
  BY DEF BothNext

\* The plan is the rolling collector's and none of its steps changes it, so that a
\* step of the whole is one of the block-aligned collector's or leaves its state.
LEMMA BothStepsAlign ==
  [BothNext]_<<vars, alignedVars, answerVars>> => [Aligned!Next]_(Aligned!vars)
<1>1. Next => plan' = plan
  BY DEF Next, Forward, WriteLayer, Trim, Check
<1>2. UNCHANGED vars => plan' = plan
  BY DEF vars
<1>3. UNCHANGED alignedVars /\ plan' = plan => UNCHANGED Aligned!vars
  BY DEF alignedVars, Aligned!vars
<1> QED BY <1>1, <1>2, <1>3 DEF BothNext

\* Once the rolling collector is done it takes no step.
LEMMA InTurnStep == InTurn /\ [BothNext]_<<vars, alignedVars, answerVars>> => InTurn'
<1> SUFFICES ASSUME InTurn, [BothNext]_<<vars, alignedVars, answerVars>> PROVE InTurn'
  OBVIOUS
<1>1. Next => stage # "done"
  BY DEF Next, Forward, WriteLayer, Trim, Check
<1>2. CASE Next /\ UNCHANGED alignedVars
  BY <1>1, <1>2 DEF InTurn, alignedVars
<1>3. CASE stage = "done" /\ UNCHANGED vars
  BY <1>3 DEF InTurn, vars
<1>4. CASE UNCHANGED <<vars, alignedVars>>
  BY <1>4 DEF InTurn, vars, alignedVars
<1> QED BY <1>2, <1>3, <1>4 DEF BothNext

\* The inductive invariant of the two collectors in turn, whatever the plan: each
\* one's window, keys and what it has handed over are exactly what the position it
\* has forwarded to says.
THEOREM CollectorsInvariance == BothSpec => []BothInv
<1>1. BothInit => BothInv
  <2>1. BothInit => RollingInv /\ AlignedInv
    BY RollingInit, AlignedInit DEF BothInit
  <2>2. BothInit => InTurn
    BY DEF BothInit, Aligned!Init, InTurn
  <2> QED BY <2>1, <2>2 DEF BothInv
<1>2. BothInv /\ [BothNext]_<<vars, alignedVars, answerVars>> => BothInv'
  BY RollingStep, AlignedStep, BothStepsRoll, BothStepsAlign, InTurnStep DEF BothInv
<1> QED BY <1>1, <1>2, PTL DEF BothSpec

\* RollingContextCollector.collect forwards every token over all before it, in memory
\* or in the window, and every plan the planner accepts ends without an error with
\* its candidates in every memory and the planned local context in the window.
THEOREM RollingAlwaysServesPlan == BothSpec => []RollingServesPlan
<1>1. BothInv => RollingServesPlan
  BY RollingInvServesPlan DEF BothInv
<1> QED BY <1>1, CollectorsInvariance, PTL

\* BlockAlignedRollingContextCollector.collect: every token forwarded is local or was
\* captured with its whole block if its block is a candidate, every prepared key waits
\* for a local block, and the window keeps to the documented bounds.
THEOREM BlocksAlwaysAccounted == BothSpec => []BlocksAccounted
<1>1. BothInv => BlocksAccounted
  BY AlignedInvAccounts DEF BothInv
<1> QED BY <1>1, CollectorsInvariance, PTL

\* For one plan the two collectors hand over the same tokens of every candidate, and
\* the block-aligned window ends as the slice an evaluation cuts from a full prefix.
THEOREM CollectorsAlwaysAgree == BothSpec => []CollectorsAgree
<1>1. BothInv => CollectorsAgree
  <2> SUFFICES ASSUME BothInv, alignedStage = "done" PROVE
                 /\ \A s \in plan.candidates, l \in 1..Layers :
                      captured[s] = [i \in 1..BlockSize |-> memory[l][s + i][2]]
                 /\ alignedCache = Replay!Cut
    BY DEF CollectorsAgree
  <2>1. RollingInv /\ AlignedInv /\ stage = "done"
    BY DEF BothInv, InTurn
  <2>2. /\ plan.start \in Nat /\ plan.end = plan.start + LocalContext
        /\ LocalContext \in Nat /\ BlockSize \in Nat \ {0} /\ plan.start >= BlockSize
        /\ plan.candidates \subseteq Nat
        /\ \A s \in plan.candidates : s + BlockSize <= plan.start
    BY <2>1, PlanFacts, Sizes DEF RollingInv
  <2>3. /\ alignedPosition = plan.end
        /\ alignedStart = BlockOf(plan.start)
        /\ captured = [s \in plan.candidates |-> Stretch(s, s + BlockSize)]
    BY <2>1, AlignedAtTheEnd
  <2>4. exitStart = plan.start
    <3>1. /\ position = plan.end /\ cacheStart = NewCacheStart
          /\ exitStart \in cacheStart..NewCacheStart
      BY <2>1 DEF RollingInv, RollingWindow
    <3>2. NewCacheStart = IF position <= LocalContext THEN 0 ELSE position - LocalContext
      BY <2>1, RollingNumbers
    <3> QED BY <2>2, <3>1, <3>2
  <2>5. \A l \in 1..Layers : memory[l] = Prefix(plan.start)
    BY <2>1, <2>4, RollingLayers
  <2>6. ASSUME NEW s \in plan.candidates, NEW l \in 1..Layers
        PROVE  captured[s] = [i \in 1..BlockSize |-> memory[l][s + i][2]]
    <3>1. s \in Nat /\ s + BlockSize <= plan.start
      BY <2>2
    <3>2. captured[s] = Stretch(s, s + BlockSize) /\ (s + BlockSize) - s = BlockSize
      BY <2>2, <2>3, <3>1
    <3>3. \A j \in 1..plan.start : Prefix(plan.start)[j] = <<j - 1, j - 1>>
      BY <2>2, PrefixIsSequence
    <3>4. ASSUME NEW i \in 1..BlockSize PROVE memory[l][s + i][2] = s + i - 1
      <4> DEFINE j == s + i
      <4>1. j \in 1..plan.start /\ j - 1 = s + i - 1
        BY <2>2, <3>1
      <4> HIDE DEF j
      <4>2. memory[l][j] = <<j - 1, j - 1>>
        BY <2>5, <3>3, <4>1
      <4> QED BY <4>1, <4>2 DEF j
    <3> QED BY <3>2, <3>4 DEF Stretch
  <2>7. alignedCache = Replay!Cut
    <3>1. alignedCache = Stretch(BlockOf(plan.start), plan.end)
      BY <2>1, <2>3 DEF AlignedInv, AlignedWindow
    <3>2. Replay!BlockOf(plan.start) = BlockOf(plan.start)
      BY DEF Replay!BlockOf, BlockOf
    <3> QED BY <3>1, <3>2 DEF Replay!Cut, Stretch
  <2> QED BY <2>6, <2>7
<1> QED BY <1>1, CollectorsInvariance, PTL

\* Both collectors implement the stream of tokens through window and memory: nothing
\* leaves a window before memory has it, memory gets the tokens in order and only
\* those out of reach, and no chunk is forwarded while a token is in both.
THEOREM CollectorsImplementStream == BothSpec => BothImplementStream
<1>1. BothInit => Stream!Init /\ Aligned!Stream!Init
  <2>1. BothInit => Handed = 0
    <3> SUFFICES ASSUME BothInit PROVE Handed = 0
      OBVIOUS
    <3>1. RollingInv /\ exitStart = 0
      BY RollingInit DEF BothInit, Init
    <3> QED BY <3>1, HandedIsExited
  <2> QED BY <2>1 DEF BothInit, Init, Aligned!Init, Stream!Init, Aligned!Stream!Init
<1>2. BothInv /\ [BothNext]_<<vars, alignedVars, answerVars>>
        => /\ [Stream!Next]_(Stream!streamVars)
           /\ [Aligned!Stream!Next]_(Aligned!Stream!streamVars)
  BY RollingStreams, AlignedStreams, BothStepsRoll, BothStepsAlign DEF BothInv
<1> QED BY <1>1, <1>2, CollectorsInvariance, PTL
        DEF BothSpec, BothImplementStream, ImplementsStream, Stream!Spec,
            Aligned!ImplementsStream, Aligned!Stream!Spec

------------------------------------------------------------------------------
(* What an evaluation sees of the collected state, whatever is chosen.     *)

\* The first entries of the memory of the first layer, and what a session replays.
Stored == [i \in 1..Len(memory[1]) |-> memory[1][i][2]]

\* The boundary the local context starts after, from which on a window may hold it.
Base == BlockOf(plan.start)

RecordRuns == {"session", "calibration"}
CapturedRuns == {"region", "hard", "training"}
GeneratingRuns == {"qa", "smoke", "region"}

\* The tokens that condition c of evaluation e attaches when S is chosen.
Attached(p, e, S) ==
  {t \in 0..(p.start - 1) : IF e \in RecordRuns THEN t \in S ELSE BlockOf(t) \in S}

\* What a condition chooses from.
ChosenFits(p, e, c, S) ==
  /\ c \in {"full", "local"} => S = {}
  /\ e \in RecordRuns => S \subseteq 0..(p.start - 1)
  /\ e \notin RecordRuns => S \subseteq p.candidates
  /\ c = "everything" => S = 0..(p.start - 1)
  /\ c \in {"all", "gated"} => S = p.candidates

\* Where the window starts before query n + 1 is answered.
WindowFrom(p, e, c, low, n) ==
  IF c = "full" THEN low = 0
  ELSE IF e \in RecordRuns THEN low = p.start
  ELSE IF e = "tokenwise" THEN low = p.start + n
  ELSE IF e \in GeneratingRuns
    THEN /\ low >= BlockOf(p.start) /\ OnBoundary(low)
         /\ (p.end + n) - low >= LocalContext /\ (p.end + n) - low < LocalContext + BlockSize
  ELSE low = BlockOf(p.start)

\* The window holds every token from low on.
WindowFits(p, e, c, w, n) ==
  \E low \in 0..(p.start + n) : w = Stretch(low, p.end + n) /\ WindowFrom(p, e, c, low, n)

\* The first token query k sees locally.
SeenFrom(p, e, c, low, k) ==
  IF c = "full" THEN low = 0
  ELSE IF e \in RecordRuns THEN low >= p.start
  ELSE low >= BlockOf(p.start) /\ (k = 1 /\ e \in CapturedRuns \cup GeneratingRuns => low = BlockOf(p.start))

\* Query k sees what is attached once, and locally every token from low on once.
ViewFits(p, e, c, S, v, k) ==
  /\ DOMAIN v = {"memory", "local"}
  /\ IsInjective(v.memory) /\ Range(v.memory) = Attached(p, e, S)
  /\ IsInjective(v.local)
  /\ \E low \in 0..(p.start + k) :
       SeenFrom(p, e, c, low, k) /\ Range(v.local) = low..(p.end + k - 1)

\* The conditions of an evaluation over records, and of the others.
RunsWith(e, c) ==
  IF e \in RecordRuns THEN c \in {"full", "local", "everything", "clusters"}
  ELSE c \notin {"everything", "clusters"}

Rest(e, n) == [i \in 1..n |-> Replay!Programme[e][Len(Replay!Programme[e]) - n + i]]

\* The conditions that are left are the last ones of the programme.
LeftFits ==
  /\ evaluator \in DOMAIN Replay!Programme
  /\ Len(left) \in 0..Len(Replay!Programme[evaluator])
  /\ left = Rest(evaluator, Len(left))

\* No condition has begun.
Fresh == Len(left) = Len(Replay!Programme[evaluator])

FreshFits ==
  /\ chosen = {} /\ scores = Replay!NoScores
  /\ window = <<>> /\ positions = <<>> /\ views = <<>>
  /\ phase = "choose"

\* The candidates C in the order of their probabilities p, and the ranks at which
\* what is selected has not enough of them yet.
RankedOf(C, p) ==
  {o \in [1..Cardinality(C) -> C] :
     /\ \A i, j \in 1..Cardinality(C) : i # j => o[i] # o[j]
     /\ \A i \in 1..(Len(o) - 1) : p[o[i]] >= p[o[i + 1]]}

RetainedOf(C, p, o) ==
  {i \in DOMAIN o : Whole * Replay!Mass(p, {o[j] : j \in 1..(i - 1)})
                      < (Whole - Missing) * Replay!Mass(p, C)}

Selections(C, p, limit) ==
  {{o[i] : i \in {j \in RetainedOf(C, p, o) : limit = -1 \/ j <= limit}} : o \in RankedOf(C, p)}

LimitOf(e) == IF e = "smoke" THEN -1 ELSE RetrievalLimit

\* A selection by mass is one for the scores it was made by.
SelectionFits(C, e, S, p) ==
  DOMAIN p # {} => p \in [C -> 0..Parts] /\ S \in Selections(C, p, LimitOf(e))

BegunFits ==
  /\ alignedStage = "done"
  /\ ChosenFits(plan, evaluator, Replay!Current, chosen)
  /\ views \in Seq(Range(views)) /\ Len(views) \in 0..Horizon
  /\ window = positions
  /\ WindowFits(plan, evaluator, Replay!Current, window, Len(views))
  /\ \A k \in 1..Len(views) : ViewFits(plan, evaluator, Replay!Current, chosen, views[k], k)
  /\ SelectionFits(plan.candidates, evaluator, chosen, scores)

ReplayInv ==
  /\ LeftFits
  /\ budget \in 0..TopN
  /\ phase \in {"choose", "answer", "finished"}
  /\ Fresh => FreshFits
  /\ ~Fresh => BegunFits

EvaluationInv == BothInv /\ ReplayInv

\* The candidates of a plan are finitely many, at least one, and without a gap up to
\* the last block that ends before the local context.
LEMMA CandidatesAreDense ==
  ASSUME plan \in Plans(Tokens, Horizon)
  PROVE  /\ IsFiniteSet(plan.candidates) /\ plan.candidates # {}
         /\ \A s \in plan.candidates, t \in Nat :
              OnBoundary(t) /\ t >= s /\ t + BlockSize <= plan.start => t \in plan.candidates
<1>1. PICK p \in FirstRetrieval..LastRetrieval(Tokens, Horizon) : plan = PlanAt(Tokens, p)
  BY DEF Plans
<1>2. Cardinality(plan.candidates) >= MinimumCandidates
  BY DEF Plans
<1>3. /\ LocalContext \in Nat /\ BlockSize \in Nat \ {0} /\ Tokens \in Nat /\ Horizon \in Nat
      /\ MinimumCandidates \in Nat \ {0} /\ MaximumCandidates \in Nat
  BY Boundaries, BlocksAssumption, RollingAssumption
<1> DEFINE X == {s \in FullBlocks(Tokens) : s + BlockSize <= p + 1 - LocalContext}
<1>4. plan.start = p + 1 - LocalContext /\ plan.candidates = Newest(X)
  BY <1>1 DEF PlanAt
<1>5. p \in Int /\ p <= Tokens - Horizon - 2
  <2>1. FirstRetrieval \in Int /\ LastRetrieval(Tokens, Horizon) \in Int
    <3>1. MinimumCandidates * BlockSize \in Nat
      BY <1>3, BlocksAssumption, ProductAtLeast
    <3> QED BY <1>3, <3>1 DEF FirstRetrieval, LastRetrieval
  <2> QED BY <2>1, <1>1 DEF LastRetrieval
<1>6. \A s : s \in X <=> s \in 0..(Tokens - BlockSize) /\ OnBoundary(s) /\ s + BlockSize <= plan.start
  BY <1>4, FullBlocksAreBoundaries
<1>7. IsFiniteSet(X) /\ X \subseteq Nat
  <2>1. IsFiniteSet(0..(Tokens - BlockSize))
    BY <1>3, FS_Interval
  <2>2. X \subseteq 0..(Tokens - BlockSize)
    BY <1>6
  <2>3. 0..(Tokens - BlockSize) \subseteq Nat
    BY <1>3
  <2> QED BY <2>1, <2>2, <2>3, FS_Subset
<1> HIDE DEF X
<1>8. plan.candidates = {s \in X : Cardinality({t \in X : t > s}) < MaximumCandidates}
  BY <1>4 DEF Newest
<1>9. IsFiniteSet(plan.candidates)
  <2>1. plan.candidates \subseteq X
    BY <1>8
  <2> QED BY <1>7, <2>1, FS_Subset
<1>10. plan.candidates # {}
  <2>1. plan.candidates = {} => Cardinality(plan.candidates) = 0
    BY FS_EmptySet
  <2> QED BY <1>2, <1>3, <2>1
<1>11. ASSUME NEW s \in plan.candidates, NEW t \in Nat,
              OnBoundary(t), t >= s, t + BlockSize <= plan.start
       PROVE  t \in plan.candidates
  <2>1. t \in X
    <3>1. t \in 0..(Tokens - BlockSize)
      BY <1>3, <1>4, <1>5, <1>11
    <3> QED BY <3>1, <1>6, <1>11
  <2>2. {u \in X : u > t} \subseteq {u \in X : u > s}
    <3>1. s \in Nat
      BY <1>7, <1>8
    <3>2. ASSUME NEW u \in X, u > t PROVE u > s
      BY <1>7, <1>11, <3>1, <3>2
    <3> QED BY <3>2
  <2>3. IsFiniteSet({u \in X : u > s})
    BY <1>7, FS_Subset
  <2>4. Cardinality({u \in X : u > t}) <= Cardinality({u \in X : u > s})
    BY <2>2, <2>3, FS_Subset
  <2>5. Cardinality({u \in X : u > s}) < MaximumCandidates
    BY <1>8
  <2>6. Cardinality({u \in X : u > t}) \in Nat /\ Cardinality({u \in X : u > s}) \in Nat
    BY <2>2, <2>3, FS_Subset, FS_CardinalityType
  <2>7. Cardinality({u \in X : u > t}) < MaximumCandidates
    BY <1>3, <2>4, <2>5, <2>6
  <2> QED BY <1>8, <2>1, <2>7
<1> QED BY <1>9, <1>10, <1>11

\* What an evaluation finds when both collectors are done.
Collected ==
  /\ alignedStage = "done" /\ stage = "done"
  /\ plan.start \in Nat /\ plan.start >= BlockSize /\ plan.end = plan.start + LocalContext
  /\ Base \in Nat /\ OnBoundary(Base) /\ Base <= plan.start /\ plan.start < Base + BlockSize
  /\ Stored = [i \in 1..plan.start |-> i - 1]
  /\ cache = Stretch(plan.start, plan.end)
  /\ alignedCache = Stretch(Base, plan.end)
  /\ captured = [s \in plan.candidates |-> Stretch(s, s + BlockSize)]

\* The plan's candidates, as the evaluations use them.
DenseCandidates ==
  /\ IsFiniteSet(plan.candidates) /\ plan.candidates # {} /\ plan.candidates \subseteq Nat
  /\ \A s \in plan.candidates : OnBoundary(s) /\ s + BlockSize <= Base
  /\ \A s \in plan.candidates, t \in Nat :
       OnBoundary(t) /\ t >= s /\ t + BlockSize <= Base => t \in plan.candidates

LEMMA WhenBothAreDone ==
  ASSUME BothInv, alignedStage = "done"
  PROVE  Collected /\ DenseCandidates
<1>1. RollingInv /\ AlignedInv /\ stage = "done" /\ plan \in Plans(Tokens, Horizon)
  BY DEF BothInv, InTurn, RollingInv
<1>2. /\ plan.start \in Nat /\ plan.end = plan.start + LocalContext
      /\ LocalContext \in Nat /\ BlockSize \in Nat \ {0} /\ plan.start >= BlockSize
      /\ plan.candidates \subseteq Nat
      /\ \A s \in plan.candidates : OnBoundary(s) /\ s + BlockSize <= plan.start
  BY <1>1, PlanFacts, Sizes
<1>3. /\ alignedPosition = plan.end
      /\ alignedStart = BlockOf(plan.start)
      /\ captured = [s \in plan.candidates |-> Stretch(s, s + BlockSize)]
  BY <1>1, AlignedAtTheEnd
<1>4. exitStart = plan.start /\ cacheStart = plan.start /\ position = plan.end
  <2>1. /\ position = plan.end /\ cacheStart = NewCacheStart
        /\ exitStart \in cacheStart..NewCacheStart
    BY <1>1 DEF RollingInv, RollingWindow
  <2>2. NewCacheStart = IF position <= LocalContext THEN 0 ELSE position - LocalContext
    BY <1>1, RollingNumbers
  <2> QED BY <1>2, <2>1, <2>2
<1>5. cache = Stretch(plan.start, plan.end)
  BY <1>1, <1>4 DEF RollingInv, RollingWindow
<1>6. alignedCache = Stretch(Base, plan.end)
  BY <1>1, <1>3 DEF AlignedInv, AlignedWindow, Base
<1>7. Stored = [i \in 1..plan.start |-> i - 1]
  <2>1. 1 \in 1..Layers
    BY RollingAssumption
  <2>2. memory[1] = Prefix(plan.start)
    BY <1>1, <1>4, <2>1, RollingLayers
  <2>3. /\ Len(memory[1]) = plan.start
        /\ \A i \in 1..plan.start : memory[1][i] = <<i - 1, i - 1>>
    BY <1>2, <2>2, PrefixIsSequence
  <2>4. \A i \in 1..plan.start : memory[1][i][2] = i - 1
    BY <2>3
  <2> QED BY <2>3, <2>4 DEF Stored
<1>8. Base \in Nat /\ OnBoundary(Base) /\ Base <= plan.start /\ plan.start < Base + BlockSize
  BY <1>2, Boundaries DEF Base
<1>9. \A t \in Nat : OnBoundary(t) => (t + BlockSize <= plan.start <=> t + BlockSize <= Base)
  <2> SUFFICES ASSUME NEW t \in Nat, OnBoundary(t), t + BlockSize <= plan.start
               PROVE  t + BlockSize <= Base
    BY <1>2, <1>8
  <2>1. OnBoundary(t + BlockSize)
    BY <1>2, Boundaries
  <2>2. Base < t + BlockSize => Base + BlockSize <= t + BlockSize
    BY <1>2, <1>8, <2>1, Boundaries
  <2> QED BY <1>2, <1>8, <2>2
<1>10. DenseCandidates
  BY <1>1, <1>2, <1>9, CandidatesAreDense DEF DenseCandidates
<1> QED BY <1>1, <1>2, <1>3, <1>5, <1>6, <1>7, <1>8, <1>10 DEF Collected

\* A token belongs to the block that starts on the boundary at most a block before it.
LEMMA BlockHoldsToken ==
  ASSUME NEW s \in Nat, OnBoundary(s), NEW t \in Nat
  PROVE  BlockOf(t) = s <=> s <= t /\ t < s + BlockSize
<1>1. /\ BlockOf(t) \in Nat /\ OnBoundary(BlockOf(t)) /\ BlockOf(t) <= t /\ t < BlockOf(t) + BlockSize
      /\ BlockSize \in Nat \ {0}
  BY Boundaries
<1>2. s < BlockOf(t) => s + BlockSize <= BlockOf(t)
  BY <1>1, Boundaries
<1>3. BlockOf(t) < s => BlockOf(t) + BlockSize <= s
  BY <1>1, Boundaries
<1> QED BY <1>1, <1>2, <1>3

\* The entries of packed blocks hold each token of the blocks once.
LEMMA PackedBlocksShow ==
  ASSUME NEW S \in SUBSET Nat, \A s \in S : OnBoundary(s) /\ s + BlockSize <= plan.start,
         NEW f, f = [u \in S \X (1..BlockSize) |-> u[1] + u[2] - 1],
         plan.start \in Nat
  PROVE  /\ IsInjective(f)
         /\ Range(f) = {t \in 0..(plan.start - 1) : BlockOf(t) \in S}
<1>1. BlockSize \in Nat \ {0}
  BY Boundaries
<1>2. ASSUME NEW s \in S, NEW i \in 1..BlockSize
      PROVE  /\ f[<<s, i>>] = s + i - 1
             /\ s + i - 1 \in 0..(plan.start - 1) /\ BlockOf(s + i - 1) = s
  <2>1. s + i - 1 \in Nat /\ s <= s + i - 1 /\ s + i - 1 < s + BlockSize
    BY <1>1
  <2>2. s \in Nat /\ OnBoundary(s) /\ s + BlockSize <= plan.start
    OBVIOUS
  <2> DEFINE t == s + i - 1
  <2>3. t \in Nat /\ s <= t /\ t < s + BlockSize
    BY <2>1
  <2> HIDE DEF t
  <2>4. BlockOf(t) = s
    BY <2>2, <2>3, BlockHoldsToken
  <2>5. t \in 0..(plan.start - 1)
    BY <1>1, <2>2, <2>3
  <2> QED BY <2>4, <2>5 DEF t
<1>3. DOMAIN f = S \X (1..BlockSize)
  OBVIOUS
<1>4. ASSUME NEW u \in DOMAIN f, NEW v \in DOMAIN f, f[u] = f[v] PROVE u = v
  <2>1. PICK s \in S, i \in 1..BlockSize : u = <<s, i>>
    <3>1. u \in S \X (1..BlockSize)
      BY <1>3
    <3>2. u[1] \in S /\ u[2] \in 1..BlockSize /\ u = <<u[1], u[2]>>
      BY <3>1
    <3> QED BY <3>2
  <2>2. PICK r \in S, j \in 1..BlockSize : v = <<r, j>>
    <3>1. v \in S \X (1..BlockSize)
      BY <1>3
    <3>2. v[1] \in S /\ v[2] \in 1..BlockSize /\ v = <<v[1], v[2]>>
      BY <3>1
    <3> QED BY <3>2
  <2>3. s + i - 1 = r + j - 1
    BY <1>2, <1>4, <2>1, <2>2
  <2>4. s = r
    <3>1. BlockOf(s + i - 1) = s /\ BlockOf(r + j - 1) = r
      BY <1>2
    <3> QED BY <2>3, <3>1, Zenon
  <2>5. i = j
    BY <1>1, <2>3, <2>4
  <2> QED BY <2>1, <2>2, <2>4, <2>5
<1>5. ASSUME NEW t \in Range(f) PROVE t \in 0..(plan.start - 1) /\ BlockOf(t) \in S
  <2>1. PICK u \in DOMAIN f : t = f[u]
    BY DEF Range
  <2>2. PICK s \in S, i \in 1..BlockSize : u = <<s, i>>
    <3>1. u \in S \X (1..BlockSize)
      BY <1>3, <2>1
    <3>2. u[1] \in S /\ u[2] \in 1..BlockSize /\ u = <<u[1], u[2]>>
      BY <3>1
    <3> QED BY <3>2
  <2> QED BY <1>2, <2>1, <2>2
<1>6. ASSUME NEW t \in 0..(plan.start - 1), BlockOf(t) \in S PROVE t \in Range(f)
  <2> DEFINE s == BlockOf(t)
             i == t - s + 1
  <2>1. s \in Nat /\ s <= t /\ t < s + BlockSize /\ t \in Nat
    BY <1>6, Boundaries
  <2>2. s \in S
    BY <1>6
  <2> HIDE DEF s
  <2>3. i \in 1..BlockSize /\ s + i - 1 = t
    BY <1>1, <2>1
  <2> HIDE DEF i
  <2>4. <<s, i>> \in DOMAIN f /\ f[<<s, i>>] = t
    BY <1>2, <1>3, <2>2, <2>3
  <2> QED BY <2>4 DEF Range
<1> QED BY <1>4, <1>5, <1>6 DEF IsInjective

\* What is packed for a condition holds each token it attaches once.
LEMMA HistoryShows ==
  ASSUME Collected, DenseCandidates, NEW c, ChosenFits(plan, evaluator, c, chosen)
  PROVE  IsInjective(Replay!History) /\ Range(Replay!History) = Attached(plan, evaluator, chosen)
<1>1. plan.start \in Nat /\ BlockSize \in Nat \ {0} /\ Base \in Nat /\ Base <= plan.start
  BY Boundaries DEF Collected
<1>2. CASE evaluator \in RecordRuns
  <2>1. Replay!History = Replay!PackedRecords
    BY <1>2 DEF Replay!History, Replay!OverRecords, RecordRuns
  <2>2. Replay!PackedRecords = [i \in {j \in DOMAIN Stored : Stored[j] \in chosen} |-> Stored[i]]
    BY DEF Replay!PackedRecords, Replay!Restrict, Stored
  <2>3. Stored = [i \in 1..plan.start |-> i - 1]
    BY DEF Collected
  <2> DEFINE f == Replay!History
             D == {j \in 1..plan.start : j - 1 \in chosen}
  <2>4. f = [i \in D |-> i - 1]
    BY <2>1, <2>2, <2>3
  <2> HIDE DEF f
  <2>5. IsInjective(f)
    <3>1. ASSUME NEW i \in D, NEW j \in D, f[i] = f[j] PROVE i = j
      BY <2>4, <3>1
    <3> QED BY <2>4, <3>1 DEF IsInjective
  <2>6. Range(f) = {t \in 0..(plan.start - 1) : t \in chosen}
    <3>1. ASSUME NEW t \in Range(f) PROVE t \in 0..(plan.start - 1) /\ t \in chosen
      BY <1>1, <2>4 DEF Range
    <3>2. ASSUME NEW t \in 0..(plan.start - 1), t \in chosen PROVE t \in Range(f)
      <4>1. t + 1 \in 1..plan.start /\ (t + 1) - 1 = t
        BY <1>1
      <4>2. t + 1 \in D
        BY <3>2, <4>1
      <4>3. f[t + 1] = t
        BY <2>4, <4>1, <4>2
      <4> QED BY <2>4, <4>2, <4>3 DEF Range
    <3> QED BY <3>1, <3>2
  <2> QED BY <1>2, <2>5, <2>6 DEF Attached, f
<1>3. CASE evaluator \notin RecordRuns
  <2> DEFINE f == [u \in chosen \X (1..BlockSize) |-> u[1] + u[2] - 1]
  <2>1. chosen \subseteq plan.candidates
    BY <1>3 DEF ChosenFits
  <2>2. \A s \in chosen : s \in Nat /\ OnBoundary(s) /\ s + BlockSize <= plan.start
    BY <1>1, <2>1 DEF DenseCandidates
  <2>3. IsInjective(f) /\ Range(f) = {t \in 0..(plan.start - 1) : BlockOf(t) \in chosen}
    BY <1>1, <2>2, PackedBlocksShow
  <2>4. Replay!PackedBlocks = f
    BY DEF Replay!PackedBlocks
  <2>5. Replay!PackedCaptured = f
    <3>1. ASSUME NEW s \in chosen, NEW i \in 1..BlockSize PROVE captured[s][i] = s + i - 1
      <4>1. captured[s] = Stretch(s, s + BlockSize)
        BY <2>1 DEF Collected
      <4>2. (s + BlockSize) - s = BlockSize
        BY <1>1, <2>2
      <4> QED BY <4>1, <4>2 DEF Stretch
    <3>2. \A u \in chosen \X (1..BlockSize) : captured[u[1]][u[2]] = u[1] + u[2] - 1
      BY <3>1
    <3> QED BY <3>2 DEF Replay!PackedCaptured
  <2>6. Replay!History = f
    BY <1>3, <2>4, <2>5, Zenon DEF Replay!History, Replay!OverRecords, RecordRuns
  <2> QED BY <1>3, <2>3, <2>6 DEF Attached
<1> QED BY <1>2, <1>3

\* A stretch shows each of its tokens once.
LEMMA StretchShows ==
  ASSUME NEW a \in Nat, NEW b \in Nat
  PROVE  IsInjective(Stretch(a, b)) /\ Range(Stretch(a, b)) = a..(b - 1)
<1> DEFINE f == Stretch(a, b)
<1>1. DOMAIN f = 1..(b - a) /\ \A i \in 1..(b - a) : f[i] = a + i - 1
  BY DEF Stretch
<1> HIDE DEF f
<1>2. IsInjective(f)
  <2>1. ASSUME NEW i \in 1..(b - a), NEW j \in 1..(b - a), f[i] = f[j] PROVE i = j
    BY <1>1, <2>1
  <2> QED BY <1>1, <2>1 DEF IsInjective
<1>3. ASSUME NEW t \in Range(f) PROVE t \in a..(b - 1)
  BY <1>1 DEF Range
<1>4. ASSUME NEW t \in a..(b - 1) PROVE t \in Range(f)
  <2>1. t - a + 1 \in 1..(b - a) /\ a + (t - a + 1) - 1 = t
    OBVIOUS
  <2>2. f[t - a + 1] = t
    BY <1>1, <2>1
  <2> QED BY <1>1, <2>1, <2>2 DEF Range
<1> QED BY <1>2, <1>3, <1>4 DEF f

\* f holds each token of T once.
Shows(f, T) == IsInjective(f) /\ Range(f) = T

LEMMA StretchShowsItself ==
  ASSUME NEW a \in Nat, NEW b \in Nat
  PROVE  Shows(Stretch(a, b), a..(b - 1))
  BY StretchShows DEF Shows

\* The tokens from a on before b that the mask lets query q see.
Masked(a, b, q, reach) == {t \in a..(b - 1) : t <= q /\ t > q - reach}

\* The mask of a window shows each token it lets through once.
LEMMA MaskShows ==
  ASSUME NEW a \in Nat, NEW b \in Nat, NEW q \in Int, NEW reach \in Int
  PROVE  /\ IsInjective(Replay!Visible(Stretch(a, b), Stretch(a, b), q, reach))
         /\ Range(Replay!Visible(Stretch(a, b), Stretch(a, b), q, reach)) = Masked(a, b, q, reach)
<1> DEFINE w == Stretch(a, b)
           D == {i \in DOMAIN w : w[i] <= q /\ w[i] > q - reach}
           f == Replay!Visible(w, w, q, reach)
<1>1. f = [i \in D |-> w[i]]
  BY DEF Replay!Visible, Replay!Restrict
<1>2. IsInjective(w) /\ Range(w) = a..(b - 1)
  BY StretchShows
<1> HIDE DEF f, w
<1>3. IsInjective(f)
  BY <1>1, <1>2 DEF IsInjective
<1>4. Range(f) = Masked(a, b, q, reach)
  BY <1>1, <1>2 DEF Range, Masked
<1> QED BY <1>3, <1>4 DEF f, w

\* The conditions of all evaluations.
Conditions == {"full", "local", "everything", "clusters", "predicted", "oracle", "recent",
               "router", "all", "region", "gated"}

\* A programme of three conditions, of four and of five.
LEMMA ThreeConditions ==
  ASSUME NEW a \in Conditions, NEW b \in Conditions, NEW c \in Conditions,
         NEW P, P = <<a, b, c>>
  PROVE  P \in Seq(Conditions) /\ Len(P) = 3 /\ \A i \in 1..3 : P[i] \in {a, b, c}
<1>2. Len(P) = 3
  OBVIOUS
<1>3. P[1] = a /\ P[2] = b /\ P[3] = c
  OBVIOUS
<1>4. \A i \in 1..3 : i = 1 \/ i = 2 \/ i = 3
  OBVIOUS
<1>1. P \in Seq(Conditions)
  <2>1. DOMAIN P = 1..3 /\ P = [i \in 1..3 |-> P[i]]
    OBVIOUS
  <2>2. \A i \in 1..3 : P[i] \in Conditions
    BY <1>3, <1>4
  <2>3. P \in [1..3 -> Conditions]
    BY <2>1, <2>2
  <2> QED BY <2>3, SeqDef
<1> QED BY <1>1, <1>2, <1>3, <1>4, Zenon

LEMMA FourConditions ==
  ASSUME NEW a \in Conditions, NEW b \in Conditions, NEW c \in Conditions, NEW d \in Conditions,
         NEW P, P = <<a, b, c, d>>
  PROVE  P \in Seq(Conditions) /\ Len(P) = 4 /\ \A i \in 1..4 : P[i] \in {a, b, c, d}
<1>2. Len(P) = 4
  OBVIOUS
<1>3. P[1] = a /\ P[2] = b /\ P[3] = c /\ P[4] = d
  OBVIOUS
<1>4. \A i \in 1..4 : i = 1 \/ i = 2 \/ i = 3 \/ i = 4
  OBVIOUS
<1>1. P \in Seq(Conditions)
  <2>1. DOMAIN P = 1..4 /\ P = [i \in 1..4 |-> P[i]]
    OBVIOUS
  <2>2. \A i \in 1..4 : P[i] \in Conditions
    BY <1>3, <1>4
  <2>3. P \in [1..4 -> Conditions]
    BY <2>1, <2>2
  <2> QED BY <2>3, SeqDef
<1> QED BY <1>1, <1>2, <1>3, <1>4, Zenon

LEMMA FiveConditions ==
  ASSUME NEW a \in Conditions, NEW b \in Conditions, NEW c \in Conditions, NEW d \in Conditions, NEW f \in Conditions,
         NEW P, P = <<a, b, c, d, f>>
  PROVE  P \in Seq(Conditions) /\ Len(P) = 5 /\ \A i \in 1..5 : P[i] \in {a, b, c, d, f}
<1>2. Len(P) = 5
  OBVIOUS
<1>3. P[1] = a /\ P[2] = b /\ P[3] = c /\ P[4] = d /\ P[5] = f
  OBVIOUS
<1>4. \A i \in 1..5 : i = 1 \/ i = 2 \/ i = 3 \/ i = 4 \/ i = 5
  OBVIOUS
<1>1. P \in Seq(Conditions)
  <2>1. DOMAIN P = 1..5 /\ P = [i \in 1..5 |-> P[i]]
    OBVIOUS
  <2>2. \A i \in 1..5 : P[i] \in Conditions
    BY <1>3, <1>4
  <2>3. P \in [1..5 -> Conditions]
    BY <2>1, <2>2
  <2> QED BY <2>3, SeqDef
<1> QED BY <1>1, <1>2, <1>3, <1>4, Zenon

\* Which conditions the evaluations over records run, and which they do not.
LEMMA ProgrammeRuns ==
  ASSUME NEW e \in DOMAIN Replay!Programme
  PROVE  LET P == Replay!Programme[e]
         IN  /\ Len(P) \in Nat \ {0} /\ P \in Seq(Conditions)
             /\ \A i \in 1..Len(P) : RunsWith(e, P[i])
<1>1. e \in {"session", "calibration", "tokenwise", "qa", "smoke", "region", "hard", "training"}
  BY DEF Replay!Programme
<1>2. CASE e = "session"
  <2>1. Replay!Programme[e] = <<"full", "local", "clusters">> /\ e \in RecordRuns
    BY <1>2 DEF Replay!Programme, Replay!SessionProgramme, RecordRuns
  <2>2. "full" \in Conditions /\ "local" \in Conditions /\ "clusters" \in Conditions
    BY DEF Conditions
  <2>3. /\ Replay!Programme[e] \in Seq(Conditions) /\ Len(Replay!Programme[e]) = 3
        /\ \A i \in 1..3 : Replay!Programme[e][i] \in {"full", "local", "clusters"}
    BY <2>1, <2>2, ThreeConditions, Zenon
  <2> QED BY <2>1, <2>3 DEF RunsWith
<1>3. CASE e = "calibration"
  <2>1. Replay!Programme[e] = <<"full", "everything", "clusters">> /\ e \in RecordRuns
    BY <1>3 DEF Replay!Programme, Replay!CalibrationProgramme, RecordRuns
  <2>2. "full" \in Conditions /\ "everything" \in Conditions /\ "clusters" \in Conditions
    BY DEF Conditions
  <2>3. /\ Replay!Programme[e] \in Seq(Conditions) /\ Len(Replay!Programme[e]) = 3
        /\ \A i \in 1..3 : Replay!Programme[e][i] \in {"full", "everything", "clusters"}
    BY <2>1, <2>2, ThreeConditions, Zenon
  <2> QED BY <2>1, <2>3 DEF RunsWith
<1>4. CASE e = "tokenwise"
  <2>1. Replay!Programme[e] = <<"full", "local", "predicted", "oracle", "recent">> /\ e \notin RecordRuns
    BY <1>4 DEF Replay!Programme, Replay!TokenwiseProgramme, RecordRuns
  <2>2. "full" \in Conditions /\ "local" \in Conditions /\ "predicted" \in Conditions /\ "oracle" \in Conditions /\ "recent" \in Conditions
    BY DEF Conditions
  <2>3. /\ Replay!Programme[e] \in Seq(Conditions) /\ Len(Replay!Programme[e]) = 5
        /\ \A i \in 1..5 : Replay!Programme[e][i] \in {"full", "local", "predicted", "oracle", "recent"}
    BY <2>1, <2>2, FiveConditions, Zenon
  <2> QED BY <2>1, <2>3 DEF RunsWith
<1>5. CASE e = "qa"
  <2>1. Replay!Programme[e] = <<"full", "local", "router">> /\ e \notin RecordRuns
    BY <1>5 DEF Replay!Programme, Replay!QAProgramme, RecordRuns
  <2>2. "full" \in Conditions /\ "local" \in Conditions /\ "router" \in Conditions
    BY DEF Conditions
  <2>3. /\ Replay!Programme[e] \in Seq(Conditions) /\ Len(Replay!Programme[e]) = 3
        /\ \A i \in 1..3 : Replay!Programme[e][i] \in {"full", "local", "router"}
    BY <2>1, <2>2, ThreeConditions, Zenon
  <2> QED BY <2>1, <2>3 DEF RunsWith
<1>6. CASE e = "smoke"
  <2>1. Replay!Programme[e] = <<"full", "router", "all">> /\ e \notin RecordRuns
    BY <1>6 DEF Replay!Programme, Replay!SmokeProgramme, RecordRuns
  <2>2. "full" \in Conditions /\ "router" \in Conditions /\ "all" \in Conditions
    BY DEF Conditions
  <2>3. /\ Replay!Programme[e] \in Seq(Conditions) /\ Len(Replay!Programme[e]) = 3
        /\ \A i \in 1..3 : Replay!Programme[e][i] \in {"full", "router", "all"}
    BY <2>1, <2>2, ThreeConditions, Zenon
  <2> QED BY <2>1, <2>3 DEF RunsWith
<1>7. CASE e = "region"
  <2>1. Replay!Programme[e] = <<"full", "local", "all", "region">> /\ e \notin RecordRuns
    BY <1>7 DEF Replay!Programme, Replay!RegionProgramme, RecordRuns
  <2>2. "full" \in Conditions /\ "local" \in Conditions /\ "all" \in Conditions /\ "region" \in Conditions
    BY DEF Conditions
  <2>3. /\ Replay!Programme[e] \in Seq(Conditions) /\ Len(Replay!Programme[e]) = 4
        /\ \A i \in 1..4 : Replay!Programme[e][i] \in {"full", "local", "all", "region"}
    BY <2>1, <2>2, FourConditions, Zenon
  <2> QED BY <2>1, <2>3 DEF RunsWith
<1>8. CASE e = "hard"
  <2>1. Replay!Programme[e] = <<"full", "region", "all">> /\ e \notin RecordRuns
    BY <1>8 DEF Replay!Programme, Replay!HardProgramme, RecordRuns
  <2>2. "full" \in Conditions /\ "region" \in Conditions /\ "all" \in Conditions
    BY DEF Conditions
  <2>3. /\ Replay!Programme[e] \in Seq(Conditions) /\ Len(Replay!Programme[e]) = 3
        /\ \A i \in 1..3 : Replay!Programme[e][i] \in {"full", "region", "all"}
    BY <2>1, <2>2, ThreeConditions, Zenon
  <2> QED BY <2>1, <2>3 DEF RunsWith
<1>9. CASE e = "training"
  <2>1. Replay!Programme[e] = <<"full", "all", "gated">> /\ e \notin RecordRuns
    BY <1>9 DEF Replay!Programme, Replay!TrainingProgramme, RecordRuns
  <2>2. "full" \in Conditions /\ "all" \in Conditions /\ "gated" \in Conditions
    BY DEF Conditions
  <2>3. /\ Replay!Programme[e] \in Seq(Conditions) /\ Len(Replay!Programme[e]) = 3
        /\ \A i \in 1..3 : Replay!Programme[e][i] \in {"full", "all", "gated"}
    BY <2>1, <2>2, ThreeConditions, Zenon
  <2> QED BY <2>1, <2>3 DEF RunsWith
<1> QED BY <1>1, <1>2, <1>3, <1>4, <1>5, <1>6, <1>7, <1>8, <1>9

\* The next condition is taken off the front, and is then the current one.
LEMMA NextCondition ==
  ASSUME LeftFits, left # <<>>, left' = Tail(left), evaluator' = evaluator
  PROVE  /\ LeftFits' /\ ~Fresh' /\ Replay!Current' = Head(left)
         /\ Len(left) \in Nat \ {0}
         /\ RunsWith(evaluator, Head(left))
<1> DEFINE P == Replay!Programme[evaluator]
           n == Len(left)
<1>1. evaluator \in DOMAIN Replay!Programme /\ n \in 0..Len(P)
      /\ left = [i \in 1..n |-> P[Len(P) - n + i]]
  BY Zenon DEF LeftFits, Rest
<1>2. Len(P) \in Nat \ {0} /\ P \in Seq(Conditions)
      /\ \A i \in 1..Len(P) : RunsWith(evaluator, P[i])
  BY <1>1, ProgrammeRuns, Zenon
<1> HIDE DEF P
<1>3. n \in Nat /\ \A i \in 1..n : Len(P) - n + i \in 1..Len(P)
  BY <1>1, <1>2
<1>4. left \in Seq(Conditions)
  <2>1. \A i \in 1..n : P[Len(P) - n + i] \in Conditions
    BY <1>2, <1>3
  <2> HIDE DEF n
  <2>2. left \in [1..n -> Conditions]
    BY <1>1, <2>1
  <2> QED BY <1>3, <2>2, SeqDef
<1>5. n > 0
  BY <1>3, <1>4, EmptySeq
<1>6. Head(left) = P[Len(P) - n + 1]
  <2>1. left[1] = P[Len(P) - n + 1]
    BY <1>1, <1>3, <1>5
  <2> QED BY <1>4, <2>1
<1>7. left' \in Seq(Conditions) /\ Len(left') = n - 1 /\ \A i \in 1..(n - 1) : left'[i] = left[i + 1]
  BY <1>3, <1>4, <1>5
<1>8. \A i \in 1..(n - 1) : left'[i] = P[Len(P) - (n - 1) + i]
  <2> SUFFICES ASSUME NEW i \in 1..(n - 1) PROVE left'[i] = P[Len(P) - (n - 1) + i]
    OBVIOUS
  <2>1. i + 1 \in 1..n /\ Len(P) - n + (i + 1) = Len(P) - (n - 1) + i
    BY <1>2, <1>3
  <2>2. left[i + 1] = P[Len(P) - n + (i + 1)]
    BY <1>1, <2>1
  <2> QED BY <1>7, <2>1, <2>2
<1>9. left' = [i \in 1..(n - 1) |-> P[Len(P) - (n - 1) + i]]
  <2>1. left' = [i \in 1..Len(left') |-> left'[i]]
    <3>1. left' \in [1..Len(left') -> Conditions]
      BY <1>7, LenProperties
    <3> QED BY <3>1
  <2> HIDE DEF n
  <2> QED BY <1>7, <1>8, <2>1
<1>10. evaluator' \in DOMAIN Replay!Programme /\ P = Replay!Programme[evaluator']
  BY <1>1 DEF P
<1>11. LeftFits'
  <2>1. Len(left') \in 0..Len(P) /\ left' = [i \in 1..Len(left') |-> P[Len(P) - Len(left') + i]]
    <3>1. n - 1 \in 0..Len(P)
      BY <1>1, <1>2, <1>5
    <3> QED BY <1>7, <1>9, <3>1, Zenon
  <2> QED BY <1>10, <2>1, Zenon DEF LeftFits, Rest
<1>12. ~Fresh'
  <2>1. Len(left') # Len(P)
    <3>1. n <= Len(P) /\ n \in Nat /\ Len(P) \in Nat
      BY <1>1, <1>2
    <3> HIDE DEF n
    <3> QED BY <3>1, <1>7
  <2> QED BY <1>10, <2>1, Zenon DEF Fresh
<1>13. Replay!Current' = Head(left)
  <2>1. Len(P) - Len(left') = Len(P) - n + 1
    BY <1>2, <1>3, <1>7
  <2>2. Replay!Current' = P[Len(P) - Len(left')]
    BY <1>10, Zenon DEF Replay!Current
  <2> QED BY <1>6, <2>1, <2>2, Zenon
<1>14. RunsWith(evaluator, Head(left))
  <2>1. Len(P) - n + 1 \in 1..Len(P)
    BY <1>3, <1>5
  <2> QED BY <1>2, <1>6, <2>1
<1> QED BY <1>3, <1>5, <1>11, <1>12, <1>13, <1>14

\* A window that reaches back to the boundary before the local context is one that
\* generation accepts.
LEMMA CutIsAcceptable ==
  ASSUME Collected
  PROVE  Replay!Acceptable(Stretch(Base, plan.end))
<1>1. /\ Base \in Nat /\ plan.end \in Nat /\ LocalContext \in Nat \ {0} /\ BlockSize \in Nat \ {0}
      /\ plan.end - Base >= LocalContext /\ plan.end - Base < LocalContext + BlockSize
      /\ OnBoundary(Base)
  BY Sizes, BlocksAssumption DEF Collected
<1> DEFINE w == Stretch(Base, plan.end)
<1>2. /\ Len(w) = plan.end - Base
      /\ \A i \in 1..(plan.end - Base) : w[i] = Base + i - 1
  <2>1. Base <= plan.end
    BY <1>1
  <2> QED BY <1>1, <2>1, StretchIsSequence
<1> HIDE DEF w
<1>3. Len(w) \in LocalContext..(LocalContext + BlockSize - 1)
  BY <1>1, <1>2
<1>4. w[1] = Base
  <2>1. 1 \in 1..(plan.end - Base)
    BY <1>1
  <2> QED BY <1>1, <1>2, <2>1
<1>5. \A i \in 1..(Len(w) - 1) : w[i + 1] = w[i] + 1
  <2> SUFFICES ASSUME NEW i \in 1..(Len(w) - 1) PROVE w[i + 1] = w[i] + 1
    OBVIOUS
  <2>1. i \in 1..(plan.end - Base) /\ i + 1 \in 1..(plan.end - Base)
    BY <1>1, <1>2
  <2>2. w[i] = Base + i - 1 /\ w[i + 1] = Base + (i + 1) - 1
    BY <1>2, <2>1
  <2> QED BY <1>1, <2>2
<1>6. w[Len(w)] + 1 = plan.end
  <2>1. Len(w) \in 1..(plan.end - Base)
    BY <1>1, <1>2
  <2>2. w[Len(w)] = Base + Len(w) - 1
    BY <1>2, <2>1
  <2> QED BY <1>1, <1>2, <2>2
<1> QED BY <1>3, <1>4, <1>5, <1>6, <1>1 DEF Replay!Acceptable, OnBoundary, w

\* The local cache a condition starts from reaches to the retrieval point, from where
\* the evaluation lets it begin.
LEMMA StartFits ==
  ASSUME Collected, evaluator \in DOMAIN Replay!Programme, NEW c
  PROVE  /\ Replay!Start(c) = Stretch(IF c = "full" THEN 0
                                      ELSE IF evaluator \in RecordRuns \cup {"tokenwise"}
                                      THEN plan.start ELSE Base, plan.end)
         /\ WindowFits(plan, evaluator, c, Replay!Start(c), 0)
         /\ Replay!Generates /\ c # "full" => Replay!Acceptable(Replay!Start(c))
<1>1. /\ Base \in Nat /\ plan.start \in Nat /\ plan.end = plan.start + LocalContext
      /\ LocalContext \in Nat /\ BlockSize \in Nat \ {0}
      /\ Base <= plan.start /\ plan.start < Base + BlockSize /\ OnBoundary(Base)
      /\ plan.end - plan.start = LocalContext /\ plan.end - 0 = plan.end
  BY Sizes DEF Collected
<1>2. evaluator \in {"session", "calibration", "tokenwise", "qa", "smoke", "region", "hard", "training"}
  BY DEF Replay!Programme
<1>3. /\ cache = Stretch(plan.start, plan.end)
      /\ alignedCache = Stretch(Base, plan.end)
  BY DEF Collected
<1>4. Replay!FullPrefix = Stretch(0, plan.end)
  <2>1. \A i \in 1..plan.end : 0 + i - 1 = i - 1
    BY <1>1
  <2> QED BY <1>1, <2>1 DEF Replay!FullPrefix, Stretch
<1>5. Replay!Recollected = Stretch(plan.start, plan.end)
  BY <1>1 DEF Replay!Recollected, Stretch
<1>6. Replay!Cut = Stretch(Base, plan.end)
  <2>1. Replay!BlockOf(plan.start) = BlockOf(plan.start)
    BY DEF Replay!BlockOf, BlockOf
  <2> QED BY <2>1 DEF Replay!Cut, Stretch, Base
<1> DEFINE low == IF c = "full" THEN 0
                  ELSE IF evaluator \in RecordRuns \cup {"tokenwise"} THEN plan.start ELSE Base
<1>7. Replay!Start(c) = Stretch(low, plan.end)
  <2>1. CASE c = "full"
    BY <1>4, <2>1, Zenon DEF Replay!Start
  <2>2. CASE c # "full" /\ evaluator \in RecordRuns
    BY <1>3, <2>2, Zenon DEF Replay!Start, Replay!OverRecords, RecordRuns
  <2>3. CASE c # "full" /\ evaluator = "tokenwise"
    BY <1>5, <2>3 DEF Replay!Start, Replay!OverRecords, Replay!OverCaptured, RecordRuns
  <2>4. CASE c # "full" /\ evaluator \in {"qa", "smoke", "region", "hard", "training"}
    BY <1>3, <1>6, <2>4 DEF Replay!Start, Replay!OverRecords, Replay!OverCaptured, RecordRuns
  <2> QED BY <1>2, <2>1, <2>2, <2>3, <2>4 DEF RecordRuns
<1>8. low \in 0..(plan.start + 0) /\ plan.end + 0 = plan.end
  BY <1>1
<1>9. WindowFrom(plan, evaluator, c, low, 0)
  <2>1. /\ plan.start + 0 = plan.start
        /\ Base >= Base /\ (plan.end + 0) - Base >= LocalContext
        /\ (plan.end + 0) - Base < LocalContext + BlockSize
    BY <1>1
  <2> QED BY <1>1, <2>1, Zenon DEF WindowFrom, GeneratingRuns, RecordRuns, Base
<1>10. WindowFits(plan, evaluator, c, Replay!Start(c), 0)
  BY <1>7, <1>8, <1>9, Zenon DEF WindowFits
<1>11. ASSUME Replay!Generates, c # "full" PROVE Replay!Acceptable(Replay!Start(c))
  <2>1. evaluator \notin RecordRuns \cup {"tokenwise"}
    BY <1>11 DEF Replay!Generates, RecordRuns
  <2> QED BY <1>7, <1>11, <2>1, CutIsAcceptable, Zenon
<1> QED BY <1>7, <1>10, <1>11

\* One more token after a stretch.
LEMMA StretchGrows ==
  ASSUME NEW a \in Nat, NEW b \in Nat, a <= b
  PROVE  Append(Stretch(a, b), b) = Stretch(a, b + 1)
<1> DEFINE w == Stretch(a, b)
           v == Append(w, b)
<1>1. w \in Seq(Nat) /\ Len(w) = b - a /\ \A i \in 1..(b - a) : w[i] = a + i - 1
  BY StretchIsSequence
<1> HIDE DEF w
<1>2. /\ v \in Seq(Nat) /\ Len(v) = b - a + 1
      /\ \A i \in 1..(b - a) : v[i] = w[i]
      /\ v[b - a + 1] = b
  BY <1>1, AppendProperties
<1> HIDE DEF v
<1>3. v \in [1..((b + 1) - a) -> Nat]
  <2>1. b - a + 1 = (b + 1) - a
    OBVIOUS
  <2> QED BY <1>2, <2>1, LenProperties
<1>4. \A i \in 1..((b + 1) - a) : v[i] = a + i - 1
  <2> SUFFICES ASSUME NEW i \in 1..((b + 1) - a) PROVE v[i] = a + i - 1
    OBVIOUS
  <2>1. i \in 1..(b - a) \/ i = b - a + 1
    OBVIOUS
  <2>2. CASE i \in 1..(b - a)
    BY <1>1, <1>2, <2>2
  <2>3. CASE i = b - a + 1
    <3>1. a + i - 1 = b
      BY <2>3
    <3> QED BY <1>2, <2>3, <3>1
  <2> QED BY <2>1, <2>2, <2>3
<1>5. v = Stretch(a, b + 1)
  BY <1>3, <1>4 DEF Stretch
<1> QED BY <1>5 DEF v, w

\* A stretch and the one that follows it.
LEMMA StretchesJoin ==
  ASSUME NEW a \in Nat, NEW b \in Nat, NEW c \in Nat, a <= b, b <= c
  PROVE  Stretch(a, b) \o Stretch(b, c) = Stretch(a, c)
<1> DEFINE w == Stretch(a, b)
           v == Stretch(b, c)
<1>1. w \in Seq(Nat) /\ Len(w) = b - a /\ \A i \in 1..(b - a) : w[i] = a + i - 1
  BY StretchIsSequence
<1>2. v \in Seq(Nat) /\ Len(v) = c - b /\ \A i \in 1..(c - b) : v[i] = b + i - 1
  BY StretchIsSequence
<1> HIDE DEF w, v
<1>3. w \o v = [i \in 1..(Len(w) + Len(v)) |-> IF i <= Len(w) THEN w[i] ELSE v[i - Len(w)]]
  BY <1>1, <1>2, Concatenation
<1>4. Len(w) + Len(v) = c - a
  BY <1>1, <1>2
<1>5. \A i \in 1..(c - a) : (IF i <= Len(w) THEN w[i] ELSE v[i - Len(w)]) = a + i - 1
  <2> SUFFICES ASSUME NEW i \in 1..(c - a)
               PROVE  (IF i <= Len(w) THEN w[i] ELSE v[i - Len(w)]) = a + i - 1
    OBVIOUS
  <2>1. CASE i <= b - a
    BY <1>1, <2>1
  <2>2. CASE ~(i <= b - a)
    <3>1. i - (b - a) \in 1..(c - b)
      BY <2>2
    <3>2. v[i - (b - a)] = b + (i - (b - a)) - 1
      BY <1>2, <3>1
    <3> QED BY <1>1, <2>2, <3>2
  <2> QED BY <2>1, <2>2
<1>6. w \o v = Stretch(a, c)
  BY <1>3, <1>4, <1>5 DEF Stretch
<1> QED BY <1>6 DEF w, v

\* What is left of a stretch without its first tokens.
LEMMA StretchSuffix ==
  ASSUME NEW a \in Nat, NEW b \in Nat, NEW n \in Nat, a + n <= b
  PROVE  SubSeq(Stretch(a, b), n + 1, b - a) = Stretch(a + n, b)
<1> DEFINE w == Stretch(a, b)
           v == SubSeq(w, n + 1, b - a)
<1>1. w \in Seq(Nat) /\ Len(w) = b - a /\ \A i \in 1..(b - a) : w[i] = a + i - 1
  BY StretchIsSequence
<1> HIDE DEF w
<1>2. v = [i \in 1..((b - a) - (n + 1) + 1) |-> w[i + (n + 1) - 1]]
  BY <1>1
<1> HIDE DEF v
<1>3. (b - a) - (n + 1) + 1 = b - (a + n)
  OBVIOUS
<1>4. \A i \in 1..(b - (a + n)) : w[i + (n + 1) - 1] = (a + n) + i - 1
  <2> SUFFICES ASSUME NEW i \in 1..(b - (a + n)) PROVE w[i + (n + 1) - 1] = (a + n) + i - 1
    OBVIOUS
  <2> DEFINE j == i + (n + 1) - 1
  <2>1. j \in 1..(b - a) /\ a + j - 1 = (a + n) + i - 1
    OBVIOUS
  <2> HIDE DEF j
  <2>2. w[j] = a + j - 1
    BY <1>1, <2>1
  <2> QED BY <2>1, <2>2 DEF j
<1>5. v = Stretch(a + n, b)
  BY <1>2, <1>3, <1>4 DEF Stretch
<1> QED BY <1>5 DEF v, w

\* A sequence is one of its own elements.
LEMMA SequenceOfItsOwn ==
  ASSUME NEW T, NEW s \in Seq(T)
  PROVE  s \in Seq(Range(s))
<1>1. Len(s) \in Nat /\ s \in [1..Len(s) -> T] /\ DOMAIN s = 1..Len(s)
  BY LenProperties
<1>2. s \in [1..Len(s) -> Range(s)]
  BY <1>1 DEF Range
<1> QED BY <1>1, <1>2, SeqDef

\* The collected state an evaluation reads does not change while it runs.
Kept == plan' = plan /\ stage' = stage /\ alignedStage' = alignedStage

\* Sets are counted alike in both modules.
LEMMA SameCardinality == \A S : Replay!Cardinality(S) = Cardinality(S)
  BY DEF Replay!Cardinality, Cardinality

\* The candidates ranked, and what is selected of them, are the model's.
LEMMA SelectionsAreTheirs ==
  ASSUME NEW p, NEW limit
  PROVE  Replay!MassSelections(p, limit) = Selections(plan.candidates, p, limit)
<1>1. Replay!Ranked(p) = RankedOf(plan.candidates, p)
  <2>1. Replay!Cardinality(plan.candidates) = Cardinality(plan.candidates)
    BY SameCardinality
  <2> DEFINE n == Cardinality(plan.candidates)
  <2>2. ASSUME NEW o PROVE o \in Replay!Ranked(p) <=> o \in RankedOf(plan.candidates, p)
    <3>1. o \in RankedOf(plan.candidates, p) <=>
            /\ o \in [1..n -> plan.candidates]
            /\ \A i, j \in 1..n : i # j => o[i] # o[j]
            /\ \A i \in 1..(Len(o) - 1) : p[o[i]] >= p[o[i + 1]]
      BY DEF RankedOf
    <3>2. o \in Replay!SetToSeqs(plan.candidates) <=>
            /\ o \in [1..n -> plan.candidates]
            /\ \A i, j \in 1..n : i # j => o[i] # o[j]
      BY <2>1 DEF Replay!SetToSeqs
    <3>3. o \in Replay!Ranked(p) <=>
            /\ o \in Replay!SetToSeqs(plan.candidates)
            /\ \A i \in 1..(Len(o) - 1) : p[o[i]] >= p[o[i + 1]]
      BY DEF Replay!Ranked
    <3> QED BY <3>1, <3>2, <3>3, Zenon
  <2> QED BY <2>2, Zenon DEF RankedOf, Replay!Ranked
<1>2. \A o : Replay!Retained(p, o) = RetainedOf(plan.candidates, p, o)
  BY DEF Replay!Retained, RetainedOf
<1> QED BY <1>1, <1>2 DEF Replay!MassSelections, Selections

\* Whatever a condition chooses, the answers begin from a window that fits it.
LEMMA BeginKeeps ==
  ASSUME ReplayInv, Collected, Kept, NEW c, NEW S, NEW p,
         Replay!Begin(c, S, p),
         RunsWith(evaluator, c) => ChosenFits(plan, evaluator, c, S),
         c = "predicted" => Cardinality(S) \in 0..TopN,
         SelectionFits(plan.candidates, evaluator, S, p)
  PROVE  ReplayInv'
<1>1. LeftFits /\ budget \in 0..TopN /\ evaluator \in DOMAIN Replay!Programme
  BY Zenon DEF ReplayInv, LeftFits
<1>2. /\ left # <<>> /\ Head(left) = c /\ left' = Tail(left)
      /\ chosen' = S
      /\ budget' = IF c = "predicted" THEN Cardinality(S) ELSE budget
      /\ scores' = p
      /\ window' = Replay!Start(c) /\ positions' = Replay!Start(c)
      /\ views' = <<>>
      /\ phase' = IF Replay!Generates /\ c # "full" /\ ~Replay!Acceptable(Replay!Start(c))
                    THEN "error" ELSE "answer"
      /\ evaluator' = evaluator
  BY SameCardinality, Zenon DEF Replay!Begin
<1>3. LeftFits' /\ ~Fresh' /\ Replay!Current' = c /\ RunsWith(evaluator, c)
  BY <1>1, <1>2, NextCondition, Zenon
<1>4. ChosenFits(plan, evaluator, c, S)
  BY <1>3, Zenon
<1>5. /\ WindowFits(plan, evaluator, c, Replay!Start(c), 0)
      /\ Replay!Generates /\ c # "full" => Replay!Acceptable(Replay!Start(c))
  BY <1>1, StartFits, Zenon
<1>6. phase' = "answer" /\ budget' \in 0..TopN
  BY <1>1, <1>2, <1>5, Zenon
<1>7. alignedStage' = "done" /\ plan' = plan
  BY Zenon DEF Collected, Kept
<1>8. Len(views') = 0
  BY <1>2
<1>9. Len(views') \in 0..Horizon /\ views' \in Seq(Range(views'))
  BY <1>2, <1>8, RollingAssumption
<1>10. ChosenFits(plan', evaluator', Replay!Current', chosen')
  BY <1>2, <1>3, <1>4, <1>7, Zenon
<1>11. WindowFits(plan', evaluator', Replay!Current', window', Len(views'))
  BY <1>2, <1>3, <1>5, <1>7, <1>8, Zenon
<1>12. SelectionFits(plan'.candidates, evaluator', chosen', scores')
  BY <1>2, <1>7, Zenon
<1>13. \A k \in 1..Len(views') : ViewFits(plan', evaluator', Replay!Current', chosen', views'[k], k)
  BY <1>8
<1>14. BegunFits'
  BY <1>2, <1>7, <1>9, <1>10, <1>11, <1>12, <1>13, Zenon DEF BegunFits
<1> QED BY <1>3, <1>6, <1>14, Zenon DEF ReplayInv

\* An answer keeps the invariant if it leaves window and views as its condition wants
\* them.
LEMMA AnswerKeeps ==
  ASSUME ReplayInv, ~Fresh, Kept,
         UNCHANGED <<evaluator, left, chosen, budget, scores, phase>>,
         window' = positions' /\ views' \in Seq(Range(views')) /\ Len(views') \in 0..Horizon,
         WindowFits(plan, evaluator, Replay!Current, window', Len(views')),
         \A k \in 1..Len(views') : ViewFits(plan, evaluator, Replay!Current, chosen, views'[k], k)
  PROVE  ReplayInv'
<1>1. /\ LeftFits /\ budget \in 0..TopN /\ phase \in {"choose", "answer", "finished"} /\ BegunFits
  BY Zenon DEF ReplayInv
<1>2. /\ plan' = plan /\ alignedStage' = alignedStage
      /\ evaluator' = evaluator /\ left' = left /\ chosen' = chosen /\ budget' = budget
      /\ scores' = scores /\ phase' = phase
  BY Zenon DEF Kept
<1>3. LeftFits' /\ ~Fresh' /\ Replay!Current' = Replay!Current
  BY <1>1, <1>2, Zenon DEF LeftFits, Fresh, Replay!Current
<1>4. SelectionFits(plan'.candidates, evaluator', chosen', scores')
  BY <1>1, <1>2, Zenon DEF BegunFits
<1>5. /\ ChosenFits(plan', evaluator', Replay!Current', chosen')
      /\ alignedStage' = "done"
  BY <1>1, <1>2, <1>3, Zenon DEF BegunFits
<1>6. WindowFits(plan', evaluator', Replay!Current', window', Len(views'))
  BY <1>2, <1>3, Zenon
<1>7. \A k \in 1..Len(views') : ViewFits(plan', evaluator', Replay!Current', chosen', views'[k], k)
  BY <1>2, <1>3, Zenon
<1>8. BegunFits'
  BY <1>4, <1>5, <1>6, <1>7, Zenon DEF BegunFits
<1> QED BY <1>1, <1>2, <1>3, <1>8, Zenon DEF ReplayInv

\* A view of an injective history and an injective window.
LEMMA ViewIsFit ==
  ASSUME NEW e, NEW c, NEW S, NEW m, NEW f, NEW k, NEW low \in 0..(plan.start + k),
         IsInjective(m) /\ Range(m) = Attached(plan, e, S),
         Shows(f, low..(plan.end + k - 1)),
         SeenFrom(plan, e, c, low, k)
  PROVE  ViewFits(plan, e, c, S, [memory |-> m, local |-> f], k)
<1> DEFINE v == [memory |-> m, local |-> f]
<1>1. DOMAIN v = {"memory", "local"} /\ v.memory = m /\ v.local = f
  OBVIOUS
<1> HIDE DEF v
<1>2. ViewFits(plan, e, c, S, v, k)
  BY <1>1, Zenon DEF ViewFits, Shows
<1> QED BY <1>2 DEF v

\* The numbers of an evaluation that has begun, and what it has in its window.
LEMMA BegunFacts ==
  ASSUME ReplayInv, ~Fresh, Collected
  PROVE  /\ plan.start \in Nat /\ plan.end = plan.start + LocalContext
         /\ LocalContext \in Nat \ {0} /\ BlockSize \in Nat \ {0} /\ Horizon \in Nat \ {0}
         /\ Base \in Nat /\ Base <= plan.start /\ plan.start < Base + BlockSize
         /\ views \in Seq(Range(views)) /\ Len(views) \in 0..Horizon
         /\ window = positions
         /\ WindowFits(plan, evaluator, Replay!Current, window, Len(views))
         /\ ChosenFits(plan, evaluator, Replay!Current, chosen)
         /\ \A k \in 1..Len(views) : ViewFits(plan, evaluator, Replay!Current, chosen, views[k], k)
<1>1. BegunFits
  BY Zenon DEF ReplayInv
<1> QED BY <1>1, BlocksAssumption, RollingAssumption DEF BegunFits, Collected

\* All queries at once: whichever mask the condition uses, each query sees what it should.
LEMMA AnswerAtOnceKeeps ==
  ASSUME ReplayInv, ~Fresh, Collected, DenseCandidates, Kept, NEW reach \in Nat,
         Replay!AtOnce(reach),
         \/ Replay!Full /\ reach = plan.end + Horizon
         \/ ~Replay!Full /\ evaluator \in RecordRuns /\ reach = LocalContext
         \/ /\ ~Replay!Full /\ evaluator \in {"hard", "training"}
            /\ reach = LocalContext + BlockSize
  PROVE  ReplayInv'
<1> DEFINE c == Replay!Current
<1>1. /\ plan.start \in Nat /\ plan.end = plan.start + LocalContext
      /\ LocalContext \in Nat \ {0} /\ BlockSize \in Nat \ {0} /\ Horizon \in Nat \ {0}
      /\ Base \in Nat /\ Base <= plan.start /\ plan.start < Base + BlockSize
  BY BegunFacts
<1>2. window = positions /\ ChosenFits(plan, evaluator, c, chosen)
      /\ WindowFits(plan, evaluator, c, window, Len(views))
  BY BegunFacts, Zenon
<1>3. /\ views = <<>>
      /\ window' = window \o Replay!Queries
      /\ positions' = positions \o Replay!Queries
      /\ views' = [k \in 1..Horizon |->
                     Replay!Attended(Replay!Visible(window', positions', Replay!Queries[k], reach))]
      /\ UNCHANGED <<evaluator, left, chosen, budget, scores, phase>>
  BY Zenon DEF Replay!AtOnce
<1>4. Len(views) = 0 /\ plan.start + 0 = plan.start /\ plan.end + 0 = plan.end /\ plan.end \in Nat
  BY <1>1, <1>3
<1>5. PICK low \in 0..plan.start :
        window = Stretch(low, plan.end) /\ WindowFrom(plan, evaluator, c, low, 0)
  BY <1>2, <1>4, Zenon DEF WindowFits
<1>6. \/ c = "full" /\ low = 0 /\ reach = plan.end + Horizon
      \/ c # "full" /\ evaluator \in RecordRuns /\ low = plan.start /\ reach = LocalContext
      \/ /\ c # "full" /\ evaluator \notin RecordRuns /\ evaluator \notin GeneratingRuns
         /\ evaluator # "tokenwise"
         /\ low = Base /\ reach = LocalContext + BlockSize
  BY <1>5 DEF WindowFrom, Replay!Full, RecordRuns, GeneratingRuns, Base
<1>14. low \in Nat /\ low <= plan.start /\ plan.end \in Nat /\ plan.start <= plan.end
  <2>1. low \in 0..plan.start
    OBVIOUS
  <2> QED BY <1>1, <2>1
<1> DEFINE w == Stretch(low, plan.end + Horizon)
<1>7. \A k \in 1..Horizon : Replay!Queries[k] = plan.end + k - 1
  BY DEF Replay!Queries
<1>8. Replay!Queries = Stretch(plan.end, plan.end + Horizon)
  <2>1. (plan.end + Horizon) - plan.end = Horizon
    BY <1>1, <1>4
  <2> QED BY <2>1 DEF Replay!Queries, Stretch
<1>9. window' = w /\ positions' = w
  <2>1. Stretch(low, plan.end) \o Stretch(plan.end, plan.end + Horizon) = w
    <3>1. low \in Nat /\ plan.end + Horizon \in Nat /\ low <= plan.end /\ plan.end <= plan.end + Horizon
      BY <1>1, <1>14
    <3> QED BY <1>4, <3>1, StretchesJoin
  <2> QED BY <1>2, <1>3, <1>5, <1>8, <2>1, Zenon
<1> HIDE DEF c, w
<1>10. Len(views') = Horizon
  BY <1>1, <1>3
<1>11. WindowFits(plan, evaluator, c, window', Len(views'))
  <2>1. low \in 0..(plan.start + Horizon)
    BY <1>1, <1>5
  <2>2. WindowFrom(plan, evaluator, c, low, Horizon)
    BY <1>6, Zenon DEF WindowFrom, Base
  <2> QED BY <1>9, <1>10, <2>1, <2>2, Zenon DEF WindowFits, w
<1>12. ASSUME NEW k \in 1..Horizon
       PROVE  ViewFits(plan, evaluator, c, chosen, views'[k], k)
  <2> DEFINE q == plan.end + k - 1
             f == Replay!Visible(w, w, q, reach)
             from == IF low >= plan.end + k - reach THEN low ELSE plan.end + k - reach
  <2>1. views'[k] = [memory |-> Replay!History, local |-> f]
    BY <1>3, <1>7, <1>9 DEF Replay!Attended
  <2>2. IsInjective(Replay!History) /\ Range(Replay!History) = Attached(plan, evaluator, chosen)
    BY <1>2, HistoryShows
  <2>3. IsInjective(f) /\ Range(f) = Masked(low, plan.end + Horizon, q, reach)
    <3>1. low \in Nat /\ plan.end + Horizon \in Nat /\ q \in Int /\ reach \in Int
      BY <1>1, <1>14
    <3> QED BY <3>1, MaskShows, Zenon DEF w
  <2>4. Masked(low, plan.end + Horizon, q, reach) = from..(plan.end + k - 1)
    <3>1. k \in Nat /\ k <= Horizon
      BY <1>1
    <3> QED BY <1>1, <1>14, <3>1 DEF Masked
  <2>5. from \in 0..(plan.start + k) /\ SeenFrom(plan, evaluator, c, from, k)
    <3>1. k \in Nat /\ k >= 1 /\ k <= Horizon
      BY <1>1
    <3>2. CASE c = "full" /\ low = 0 /\ reach = plan.end + Horizon
      <4>1. from = 0
        BY <1>1, <1>14, <3>1, <3>2
      <4> HIDE DEF from
      <4> QED BY <1>1, <3>1, <3>2, <4>1 DEF SeenFrom
    <3>3. CASE c # "full" /\ evaluator \in RecordRuns /\ low = plan.start /\ reach = LocalContext
      <4>1. from \in 0..(plan.start + k) /\ from >= plan.start
        BY <1>1, <1>14, <3>1, <3>3
      <4> HIDE DEF from
      <4> QED BY <3>3, <4>1, Zenon DEF SeenFrom
    <3>4. CASE /\ c # "full" /\ evaluator \notin RecordRuns
               /\ low = Base /\ reach = LocalContext + BlockSize
      <4>1. from \in 0..(plan.start + k) /\ from >= Base /\ (k = 1 => from = Base)
        BY <1>1, <1>14, <3>1, <3>4
      <4> HIDE DEF from
      <4> QED BY <3>4, <4>1, Zenon DEF SeenFrom, Base
    <3> QED BY <1>6, <3>2, <3>3, <3>4, Zenon
  <2> HIDE DEF f, from, q
  <2>6. Shows(f, from..(plan.end + k - 1))
    BY <2>3, <2>4, Zenon DEF Shows
  <2> QED BY <2>1, <2>2, <2>5, <2>6, ViewIsFit, Zenon
<1>13. Len(views') \in 0..Horizon /\ window' = positions' /\ views' \in Seq(Range(views'))
  <2>1. views' \in [1..Horizon -> Range(views')]
    BY <1>3 DEF Range
  <2>2. views' \in Seq(Range(views'))
    BY <1>1, <2>1, SeqDef
  <2> QED BY <1>1, <1>9, <1>10, <2>2
<1> QED BY <1>3, <1>10, <1>11, <1>12, <1>13, AnswerKeeps, Zenon DEF c

\* One more answered query.
LEMMA OneMoreView ==
  ASSUME ReplayInv, ~Fresh, Collected, Kept, Len(views) < Horizon, NEW v,
         views' = Append(views, v),
         UNCHANGED <<evaluator, left, chosen, budget, scores, phase>>,
         window' = positions'
         /\ WindowFits(plan, evaluator, Replay!Current, window', Len(views) + 1)
         /\ ViewFits(plan, evaluator, Replay!Current, chosen, v, Len(views) + 1)
  PROVE  ReplayInv'
<1> DEFINE n == Len(views)
<1>1. n \in Nat /\ n < Horizon /\ Horizon \in Nat
  BY BegunFacts
<1>2. \A k \in 1..n : ViewFits(plan, evaluator, Replay!Current, chosen, views[k], k)
  BY BegunFacts, Zenon
<1> DEFINE T == Range(views) \cup {v}
<1>3. views \in Seq(T)
  <2>1. views \in Seq(Range(views))
    BY BegunFacts, Zenon
  <2> QED BY <2>1, SeqMonotonic
<1> HIDE DEF T
<1>4. /\ Len(views') = n + 1 /\ (\A k \in 1..n : views'[k] = views[k]) /\ views'[n + 1] = v
      /\ views' \in Seq(T)
  <2>1. v \in T
    BY DEF T
  <2> QED BY <1>1, <1>3, <2>1, AppendProperties
<1>7. views' \in Seq(Range(views'))
  BY <1>4, SequenceOfItsOwn, Zenon
<1> HIDE DEF n
<1>5. \A k \in 1..Len(views') : ViewFits(plan, evaluator, Replay!Current, chosen, views'[k], k)
  <2> SUFFICES ASSUME NEW k \in 1..Len(views')
               PROVE  ViewFits(plan, evaluator, Replay!Current, chosen, views'[k], k)
    OBVIOUS
  <2>1. k \in 1..n \/ k = n + 1
    BY <1>1, <1>4
  <2> QED BY <1>2, <1>4, <2>1, Zenon DEF n
<1>6. Len(views') \in 0..Horizon
  BY <1>1, <1>4
<1> QED BY <1>4, <1>5, <1>6, <1>7, AnswerKeeps, Zenon DEF n

\* Query by query over a trimmed cache: the window moves on by one token.
LEMMA AnswerTokenwiseKeeps ==
  ASSUME ReplayInv, ~Fresh, Collected, DenseCandidates, Kept, Replay!AnswerTokenwise
  PROVE  ReplayInv'
<1> DEFINE c == Replay!Current
           n == Len(views)
           low == plan.start + n
           w == Stretch(low + 1, plan.end + (n + 1))
<1>1. /\ plan.start \in Nat /\ plan.end = plan.start + LocalContext
      /\ LocalContext \in Nat \ {0} /\ BlockSize \in Nat \ {0} /\ Horizon \in Nat \ {0}
      /\ Base \in Nat /\ Base <= plan.start /\ n \in 0..Horizon
  BY BegunFacts
<1>2. window = positions /\ ChosenFits(plan, evaluator, c, chosen)
      /\ WindowFits(plan, evaluator, c, window, n)
  BY BegunFacts, Zenon
<1>3. /\ evaluator = "tokenwise" /\ c # "full" /\ n < Horizon
      /\ window' = Append(Replay!Trimmed(LocalContext - 1), plan.end + n)
      /\ positions' = window'
      /\ views' = Append(views, Replay!Attended(window'))
      /\ UNCHANGED <<evaluator, left, chosen, budget, scores, phase>>
  BY Zenon DEF Replay!AnswerTokenwise, Replay!Full, Replay!Query
<1>4. evaluator \notin RecordRuns \cup GeneratingRuns \cup CapturedRuns
  BY <1>3 DEF RecordRuns, GeneratingRuns, CapturedRuns
<1>5. window = Stretch(low, plan.end + n)
  BY <1>2, <1>3, <1>4 DEF WindowFits, WindowFrom
<1>6. low \in Nat /\ plan.end + n \in Nat /\ (plan.end + n) - low = LocalContext /\ n \in Nat
  BY <1>1
<1>12. /\ plan.start \in Nat /\ plan.end \in Nat /\ n \in Nat /\ Base <= plan.start
       /\ plan.end = plan.start + LocalContext /\ LocalContext >= 1 /\ LocalContext \in Nat
       /\ Base \in Nat
  BY <1>1
<1>7. Replay!Trimmed(LocalContext - 1) = Stretch(low + 1, plan.end + n)
  <2>1. Len(window) = LocalContext
    <3>1. low <= plan.end + n
      BY <1>1
    <3> HIDE DEF low, n
    <3> QED BY <1>5, <1>6, <3>1, StretchIsSequence
  <2>2. Replay!Trimmed(LocalContext - 1) = SubSeq(window, 1 + 1, LocalContext)
    <3>1. ~(LocalContext <= LocalContext - 1) /\ LocalContext - (LocalContext - 1) + 1 = 1 + 1
      BY <1>1
    <3> QED BY <2>1, <3>1, Zenon DEF Replay!Trimmed
  <2>3. low + 1 <= plan.end + n
    BY <1>1
  <2> HIDE DEF low, n
  <2> QED BY <1>5, <1>6, <2>2, <2>3, StretchSuffix
<1>8. window' = w
  <2>1. low + 1 \in Nat /\ low + 1 <= plan.end + n /\ plan.end + n + 1 = plan.end + (n + 1)
    <3> HIDE DEF n
    <3> QED BY <1>12
  <2> HIDE DEF low, n
  <2>2. Append(Stretch(low + 1, plan.end + n), plan.end + n) = Stretch(low + 1, plan.end + n + 1)
    BY <1>6, <2>1, StretchGrows
  <2> QED BY <1>3, <1>7, <2>1, <2>2, Zenon DEF w
<1>9. low + 1 = plan.start + (n + 1) /\ low + 1 \in 0..(plan.start + (n + 1))
  <2> HIDE DEF n
  <2> QED BY <1>12
<1>10. WindowFits(plan, evaluator, c, window', n + 1)
  <2>1. WindowFrom(plan, evaluator, c, low + 1, n + 1)
    BY <1>3, <1>4, <1>9, Zenon DEF WindowFrom
  <2> QED BY <1>8, <1>9, <2>1, Zenon DEF WindowFits, w
<1>11. ViewFits(plan, evaluator, c, chosen, Replay!Attended(window'), n + 1)
  <2>1. IsInjective(Replay!History) /\ Range(Replay!History) = Attached(plan, evaluator, chosen)
    BY <1>2, HistoryShows
  <2>2. Shows(w, (low + 1)..(plan.end + (n + 1) - 1))
    <3>1. low + 1 \in Nat /\ plan.end + (n + 1) \in Nat
      <4> HIDE DEF n
      <4> QED BY <1>12
    <3>2. (plan.end + (n + 1)) - 1 = plan.end + (n + 1) - 1
      <4> HIDE DEF n
      <4> QED BY <1>12
    <3> HIDE DEF low, n
    <3>3. Shows(Stretch(low + 1, plan.end + (n + 1)), (low + 1)..((plan.end + (n + 1)) - 1))
      BY <3>1, StretchShowsItself, Zenon
    <3> QED BY <3>2, <3>3, Zenon
  <2>3. SeenFrom(plan, evaluator, c, low + 1, n + 1)
    <3>1. low + 1 >= BlockOf(plan.start)
      BY <1>1 DEF Base
    <3> QED BY <1>3, <1>4, <3>1, Zenon DEF SeenFrom
  <2>4. Replay!Attended(window') = [memory |-> Replay!History, local |-> w]
    BY <1>8, Zenon DEF Replay!Attended
  <2> HIDE DEF low, n, w, c
  <2>5. ViewFits(plan, evaluator, c, chosen, [memory |-> Replay!History, local |-> w], n + 1)
    BY <1>9, <2>1, <2>2, <2>3, ViewIsFit, Zenon
  <2> QED BY <2>4, <2>5, Zenon
<1> HIDE DEF w
<1> QED BY <1>3, <1>10, <1>11, OneMoreView, Zenon

\* The full prompt grows by the generated token.
LEMMA GenerateFullKeeps ==
  ASSUME ReplayInv, ~Fresh, Collected, DenseCandidates, Kept, Replay!GenerateFull
  PROVE  ReplayInv'
<1> DEFINE c == Replay!Current
           n == Len(views)
           w == Stretch(0, plan.end + (n + 1))
<1>1. /\ plan.start \in Nat /\ plan.end = plan.start + LocalContext
      /\ LocalContext \in Nat \ {0} /\ Horizon \in Nat \ {0} /\ n \in 0..Horizon
  BY BegunFacts
<1>2. window = positions /\ ChosenFits(plan, evaluator, c, chosen)
      /\ WindowFits(plan, evaluator, c, window, n)
  BY BegunFacts, Zenon
<1>3. /\ c = "full" /\ n < Horizon
      /\ window' = Append(window, plan.end + n)
      /\ positions' = Append(positions, plan.end + n)
      /\ views' = Append(views, [memory |-> <<>>, local |-> window'])
      /\ UNCHANGED <<evaluator, left, chosen, budget, scores, phase>>
  BY Zenon DEF Replay!GenerateFull, Replay!Full, Replay!Query
<1>4. window = Stretch(0, plan.end + n)
  BY <1>2, <1>3 DEF WindowFits, WindowFrom
<1>12. plan.start \in Nat /\ plan.end \in Nat /\ n \in Nat
  BY <1>1
<1>5. window' = w /\ positions' = w
  <2>1. plan.end + n \in Nat /\ plan.end + n + 1 = plan.end + (n + 1) /\ 0 <= plan.end + n
    <3> HIDE DEF n
    <3> QED BY <1>12
  <2> HIDE DEF n
  <2>2. Append(Stretch(0, plan.end + n), plan.end + n) = Stretch(0, plan.end + n + 1)
    BY <2>1, StretchGrows
  <2> QED BY <1>2, <1>3, <1>4, <2>1, <2>2, Zenon DEF w
<1>6. 0 \in 0..(plan.start + (n + 1))
  BY <1>1
<1>7. WindowFits(plan, evaluator, c, window', n + 1)
  <2>1. WindowFrom(plan, evaluator, c, 0, n + 1)
    BY <1>3, Zenon DEF WindowFrom
  <2> QED BY <1>5, <1>6, <2>1, Zenon DEF WindowFits, w
<1>8. ViewFits(plan, evaluator, c, chosen, [memory |-> <<>>, local |-> window'], n + 1)
  <2>1. chosen = {}
    BY <1>2, <1>3 DEF ChosenFits
  <2>2. IsInjective(<<>>) /\ Range(<<>>) = Attached(plan, evaluator, chosen)
    BY <2>1 DEF IsInjective, Range, Attached
  <2>3. Shows(w, 0..(plan.end + (n + 1) - 1))
    <3>1. plan.end + (n + 1) \in Nat
      BY <1>1
    <3>3. 0 \in Nat
      OBVIOUS
    <3>4. (plan.end + (n + 1)) - 1 = plan.end + (n + 1) - 1
      <4> HIDE DEF n
      <4> QED BY <1>12
    <3> HIDE DEF n
    <3>2. Shows(Stretch(0, plan.end + (n + 1)), 0..((plan.end + (n + 1)) - 1))
      BY <3>1, <3>3, StretchShowsItself, Zenon
    <3> QED BY <3>2, <3>4, Zenon
  <2>4. SeenFrom(plan, evaluator, c, 0, n + 1)
    BY <1>3, Zenon DEF SeenFrom
  <2> HIDE DEF n, w, c
  <2> QED BY <1>5, <1>6, <2>2, <2>3, <2>4, ViewIsFit, Zenon
<1>9. window' = positions'
  BY <1>5
<1> HIDE DEF w
<1> QED BY <1>3, <1>7, <1>8, <1>9, OneMoreView, Zenon

\* A token generated over history and window: the window keeps to a boundary and to its
\* bounds, and what it sheds when it is full is one block.
LEMMA GenerateSparseKeeps ==
  ASSUME ReplayInv, ~Fresh, Collected, DenseCandidates, Kept, Replay!GenerateSparse
  PROVE  ReplayInv'
<1> DEFINE c == Replay!Current
           n == Len(views)
           q == plan.end + n
           cached == Append(window, q)
           at == Append(positions, q)
           shed == Len(at) = LocalContext + BlockSize
           reach == LocalContext + BlockSize
<1>1. /\ plan.start \in Nat /\ plan.end = plan.start + LocalContext
      /\ LocalContext \in Nat \ {0} /\ BlockSize \in Nat \ {0} /\ Horizon \in Nat \ {0}
      /\ Base \in Nat /\ Base <= plan.start /\ plan.start < Base + BlockSize
      /\ n \in 0..Horizon
  BY BegunFacts
<1>2. window = positions /\ ChosenFits(plan, evaluator, c, chosen)
      /\ WindowFits(plan, evaluator, c, window, n)
  BY BegunFacts, Zenon
<1>3. /\ evaluator \in GeneratingRuns /\ c # "full" /\ n < Horizon
      /\ views' = Append(views, Replay!Attended(Replay!Visible(cached, at, q, reach)))
      /\ window' = IF shed THEN SubSeq(cached, Len(cached) - LocalContext + 1, Len(cached)) ELSE cached
      /\ positions' = IF shed THEN SubSeq(at, BlockSize + 1, Len(at)) ELSE at
      /\ UNCHANGED <<evaluator, left, chosen, budget, scores, phase>>
  BY Zenon DEF Replay!GenerateSparse, Replay!Full, Replay!Query, Replay!Generates, GeneratingRuns,
               Replay!AlignedReach
<1>4. evaluator \notin RecordRuns /\ evaluator # "tokenwise"
  BY <1>3 DEF RecordRuns, GeneratingRuns
<1>5. PICK low \in 0..(plan.start + n) :
        window = Stretch(low, q) /\ WindowFrom(plan, evaluator, c, low, n)
  BY <1>2, Zenon DEF WindowFits
<1>6. /\ low >= Base /\ OnBoundary(low)
      /\ q - low >= LocalContext /\ q - low < LocalContext + BlockSize
  BY <1>3, <1>4, <1>5, Zenon DEF WindowFrom, Base, q
<1>7. /\ plan.start \in Nat /\ plan.end \in Nat /\ n \in Nat /\ q \in Nat /\ low \in Nat
      /\ plan.end = plan.start + LocalContext /\ q = plan.end + n
      /\ LocalContext \in Nat /\ LocalContext >= 1 /\ BlockSize \in Nat /\ BlockSize >= 1
      /\ Base \in Nat /\ Base <= plan.start /\ plan.start < Base + BlockSize
      /\ low <= plan.start + n
  <2> HIDE DEF n
  <2>1. low \in 0..(plan.start + n)
    OBVIOUS
  <2> QED BY <1>1, <2>1
<1> HIDE DEF n
<1>8. low <= q /\ q + 1 = plan.end + (n + 1) /\ (q + 1) - 1 = plan.end + (n + 1) - 1
  BY <1>6, <1>7
<1> HIDE DEF q
<1>9. cached = Stretch(low, q + 1) /\ at = Stretch(low, q + 1)
  <2>1. Append(Stretch(low, q), q) = Stretch(low, q + 1)
    BY <1>7, <1>8, StretchGrows
  <2> QED BY <1>2, <1>5, <2>1, Zenon
<1>10. Len(cached) = (q + 1) - low /\ Len(at) = (q + 1) - low
  <2>1. q + 1 \in Nat /\ low <= q + 1
    BY <1>7, <1>8
  <2>2. Len(Stretch(low, q + 1)) = (q + 1) - low
    BY <1>7, <2>1, StretchIsSequence
  <2> QED BY <1>9, <2>2, Zenon
<1> HIDE DEF cached, at
<1> DEFINE next == IF shed THEN low + BlockSize ELSE low
<1>11. window' = Stretch(next, q + 1) /\ positions' = Stretch(next, q + 1)
  <2>1. CASE ~shed
    BY <1>3, <1>9, <2>1, Zenon
  <2>2. CASE shed
    <3>1. (q + 1) - low = LocalContext + BlockSize
      BY <1>10, <2>2
    <3>2. /\ Len(cached) - LocalContext + 1 = BlockSize + 1 /\ Len(cached) = (q + 1) - low
          /\ Len(at) = (q + 1) - low
      BY <1>7, <1>10, <3>1
    <3>3. SubSeq(Stretch(low, q + 1), BlockSize + 1, (q + 1) - low) = Stretch(low + BlockSize, q + 1)
      <4>1. q + 1 \in Nat /\ low + BlockSize <= q + 1 /\ low \in Nat /\ BlockSize \in Nat
        BY <1>7, <3>1
      <4> HIDE DEF reach, shed
      <4> QED BY <4>1, StretchSuffix
    <3>4. window' = SubSeq(cached, BlockSize + 1, (q + 1) - low)
          /\ positions' = SubSeq(at, BlockSize + 1, (q + 1) - low)
      BY <1>3, <2>2, <3>2, Zenon
    <3> QED BY <1>9, <2>2, <3>3, <3>4, Zenon
  <2> QED BY <2>1, <2>2
<1>12. /\ next \in 0..(plan.start + (n + 1)) /\ next >= Base /\ OnBoundary(next)
       /\ (q + 1) - next >= LocalContext /\ (q + 1) - next < LocalContext + BlockSize
  <2>1. CASE ~shed
    <3>1. (q + 1) - low # LocalContext + BlockSize /\ next = low
      BY <1>10, <2>1, Zenon
    <3> HIDE DEF next
    <3> QED BY <1>6, <1>7, <3>1
  <2>2. CASE shed
    <3>1. (q + 1) - low = LocalContext + BlockSize
      BY <1>10, <2>2
    <3>2. OnBoundary(low + BlockSize)
      BY <1>6, <1>7, Boundaries
    <3>3. low + BlockSize \in 0..(plan.start + (n + 1)) /\ low + BlockSize >= Base
          /\ (q + 1) - (low + BlockSize) = LocalContext
      BY <1>6, <1>7, <3>1
    <3>4. next = low + BlockSize
      BY <2>2, Zenon
    <3> HIDE DEF next
    <3> QED BY <1>7, <3>2, <3>3, <3>4
  <2> QED BY <2>1, <2>2, Zenon
<1> HIDE DEF next
<1>13. WindowFits(plan, evaluator, c, window', n + 1)
  <2>2. WindowFrom(plan, evaluator, c, next, n + 1)
    <3>1. (plan.end + (n + 1)) - next = (q + 1) - next
      BY <1>8
    <3> QED BY <1>3, <1>4, <1>12, <3>1, Zenon DEF WindowFrom, Base
  <2> QED BY <1>8, <1>11, <1>12, <2>2, Zenon DEF WindowFits
<1>14. ViewFits(plan, evaluator, c, chosen,
                Replay!Attended(Replay!Visible(cached, at, q, reach)), n + 1)
  <2> DEFINE f == Replay!Visible(cached, at, q, reach)
  <2>1. IsInjective(Replay!History) /\ Range(Replay!History) = Attached(plan, evaluator, chosen)
    BY <1>2, HistoryShows
  <2>2. Shows(f, Masked(low, q + 1, q, reach))
    <3>1. q + 1 \in Nat /\ q \in Int /\ reach \in Int /\ low \in Nat
      BY <1>7
    <3> HIDE DEF reach
    <3>2. Shows(Replay!Visible(Stretch(low, q + 1), Stretch(low, q + 1), q, reach),
                Masked(low, q + 1, q, reach))
      BY <3>1, MaskShows, Zenon DEF Shows
    <3> QED BY <1>9, <3>2, Zenon
  <2>3. Masked(low, q + 1, q, reach) = low..((q + 1) - 1)
    BY <1>6, <1>7 DEF Masked
  <2>4. Shows(f, low..(plan.end + (n + 1) - 1))
    BY <1>8, <2>2, <2>3, Zenon
  <2>5. low \in 0..(plan.start + (n + 1))
    BY <1>7
  <2>6. SeenFrom(plan, evaluator, c, low, n + 1)
    <3>1. n + 1 = 1 => low = Base
      <4> SUFFICES ASSUME n + 1 = 1 PROVE low = Base
        OBVIOUS
      <4>1. low <= plan.start
        BY <1>7
      <4>2. OnBoundary(Base) /\ OnBoundary(low)
        BY <1>6 DEF Collected
      <4>3. Base < low => Base + BlockSize <= low
        BY <1>7, <4>2, Boundaries
      <4> QED BY <1>6, <1>7, <4>1, <4>3
    <3> QED BY <1>3, <1>4, <1>6, <3>1, Zenon DEF SeenFrom, Base
  <2> HIDE DEF f, c, reach
  <2>7. ViewFits(plan, evaluator, c, chosen, [memory |-> Replay!History, local |-> f], n + 1)
    BY <2>1, <2>4, <2>5, <2>6, ViewIsFit, Zenon
  <2> QED BY <2>7, Zenon DEF Replay!Attended, f
<1>15. window' = positions'
  BY <1>11
<1> QED BY <1>3, <1>13, <1>14, <1>15, OneMoreView, Zenon DEF n

\* A set chosen without scores is no selection by mass.
LEMMA NoSelection == \A C, e, S : SelectionFits(C, e, S, Replay!NoScores)
  BY DEF SelectionFits, Replay!NoScores

\* What is selected by mass are candidates.
LEMMA SelectedAreCandidates ==
  ASSUME NEW C, NEW p, NEW limit, NEW S \in Selections(C, p, limit)
  PROVE  S \subseteq C
<1>1. PICK o \in RankedOf(C, p) :
        S = {o[i] : i \in {j \in RetainedOf(C, p, o) : limit = -1 \/ j <= limit}}
  BY DEF Selections
<1>2. o \in [1..Cardinality(C) -> C]
  BY DEF RankedOf
<1> QED BY <1>1, <1>2 DEF RetainedOf

\* What each condition chooses is what it may attach.
LEMMA BeginSteps ==
  ASSUME ReplayInv, Collected, DenseCandidates, Kept,
         \/ Replay!BeginPlain \/ Replay!BeginClusters \/ Replay!BeginEverything
         \/ Replay!BeginPredicted \/ Replay!BeginMatched \/ Replay!BeginRouter
         \/ Replay!BeginAll \/ Replay!BeginRegion
  PROVE  ReplayInv'
<1> DEFINE C == plan.candidates
<1>1. Replay!Range(Stored) = 0..(plan.start - 1)
  <2>1. Stored = [i \in 1..plan.start |-> i - 1] /\ plan.start \in Nat
    BY Zenon DEF Collected
  <2>2. ASSUME NEW t \in 0..(plan.start - 1) PROVE t \in Replay!Range(Stored)
    <3>1. t + 1 \in 1..plan.start /\ (t + 1) - 1 = t
      BY <2>1
    <3>2. Stored[t + 1] = t /\ t + 1 \in DOMAIN Stored
      BY <2>1, <3>1
    <3> QED BY <3>2 DEF Replay!Range
  <2>3. ASSUME NEW t \in Replay!Range(Stored) PROVE t \in 0..(plan.start - 1)
    BY <2>1 DEF Replay!Range
  <2> QED BY <2>2, <2>3
<1>2. ASSUME NEW c, NEW S, Replay!Begin(c, S, Replay!NoScores),
             RunsWith(evaluator, c) => ChosenFits(plan, evaluator, c, S),
             c = "predicted" => Cardinality(S) \in 0..TopN
      PROVE  ReplayInv'
  BY <1>2, BeginKeeps, NoSelection, Zenon
<1>3. ASSUME NEW c \in {"predicted", "oracle", "recent", "router", "region"}, NEW S \in SUBSET C,
             RunsWith(evaluator, c)
      PROVE  ChosenFits(plan, evaluator, c, S)
  BY <1>3 DEF RunsWith, ChosenFits
<1>4. ASSUME Replay!BeginPlain PROVE ReplayInv'
  <2>1. PICK c \in {"full", "local"} : Replay!Begin(c, {}, Replay!NoScores)
    BY <1>4, Zenon DEF Replay!BeginPlain
  <2>2. ChosenFits(plan, evaluator, c, {})
    BY DEF ChosenFits
  <2>3. c # "predicted"
    OBVIOUS
  <2> QED BY <1>2, <2>1, <2>2, <2>3, Zenon
<1>5. ASSUME Replay!BeginClusters PROVE ReplayInv'
  <2>1. PICK R \in SUBSET (0..(BlockSize - 1)) :
          Replay!Begin("clusters", {t \in Replay!Range(Stored) : t % BlockSize \in R},
                       Replay!NoScores)
    BY <1>5, Zenon DEF Replay!BeginClusters, Stored
  <2> DEFINE S == {t \in Replay!Range(Stored) : t % BlockSize \in R}
  <2>2. S \subseteq 0..(plan.start - 1)
    BY <1>1
  <2> HIDE DEF S
  <2>3. RunsWith(evaluator, "clusters") => ChosenFits(plan, evaluator, "clusters", S)
    BY <2>2 DEF RunsWith, ChosenFits
  <2>4. Replay!Begin("clusters", S, Replay!NoScores) /\ "clusters" # "predicted"
    BY <2>1 DEF S
  <2> QED BY <1>2, <2>3, <2>4, Zenon
<1>6. ASSUME Replay!BeginEverything PROVE ReplayInv'
  <2>1. Replay!Begin("everything", 0..(plan.start - 1), Replay!NoScores)
    BY <1>1, <1>6, Zenon DEF Replay!BeginEverything, Stored
  <2>2. RunsWith(evaluator, "everything") => ChosenFits(plan, evaluator, "everything", 0..(plan.start - 1))
    BY DEF RunsWith, ChosenFits
  <2>3. "everything" # "predicted"
    OBVIOUS
  <2> QED BY <1>2, <2>1, <2>2, <2>3, Zenon
<1>7. ASSUME Replay!BeginPredicted PROVE ReplayInv'
  <2>1. PICK S \in Replay!Predicted : Replay!Begin("predicted", S, Replay!NoScores)
    BY <1>7, Zenon DEF Replay!BeginPredicted
  <2>2. S \in SUBSET C /\ Cardinality(S) <= Replay!AtMost(TopN, Cardinality(C))
    BY SameCardinality, Zenon DEF Replay!Predicted
  <2>3. TopN \in Nat
    BY CollectorsAssumption DEF Replay!ReplayAssumption
  <2>4. Cardinality(S) \in 0..TopN
    <3>1. IsFiniteSet(C) /\ Cardinality(C) \in Nat
      BY FS_CardinalityType DEF DenseCandidates
    <3>2. Cardinality(S) \in Nat
      BY <2>2, <3>1, FS_Subset, FS_CardinalityType
    <3>3. Replay!AtMost(TopN, Cardinality(C)) <= TopN /\ Replay!AtMost(TopN, Cardinality(C)) \in Nat
      BY <2>3, <3>1 DEF Replay!AtMost
    <3> QED BY <2>2, <2>3, <3>2, <3>3
  <2>5. RunsWith(evaluator, "predicted") => ChosenFits(plan, evaluator, "predicted", S)
    BY <1>3, <2>2
  <2> QED BY <1>2, <2>1, <2>4, <2>5, Zenon
<1>8. ASSUME Replay!BeginMatched PROVE ReplayInv'
  <2>1. CASE \E S \in Replay!Budgeted(Replay!AtMost(budget, Replay!Cardinality(C))) :
               Replay!Begin("oracle", S, Replay!NoScores)
    <3>1. PICK S \in Replay!Budgeted(Replay!AtMost(budget, Replay!Cardinality(C))) :
            Replay!Begin("oracle", S, Replay!NoScores)
      BY <2>1, Zenon
    <3>2. S \in SUBSET C
      BY Zenon DEF Replay!Budgeted
    <3>3. RunsWith(evaluator, "oracle") => ChosenFits(plan, evaluator, "oracle", S)
      BY <1>3, <3>2
    <3>4. "oracle" # "predicted"
      OBVIOUS
    <3> QED BY <1>2, <3>1, <3>3, <3>4, Zenon
  <2>2. CASE Replay!Begin("recent", Replay!Recent(budget), Replay!NoScores)
    <3>2. Replay!Recent(budget) \in SUBSET C
      BY DEF Replay!Recent
    <3>3. RunsWith(evaluator, "recent") => ChosenFits(plan, evaluator, "recent", Replay!Recent(budget))
      BY <1>3, <3>2
    <3>4. "recent" # "predicted"
      OBVIOUS
    <3> QED BY <1>2, <2>2, <3>3, <3>4, Zenon
  <2> QED BY <1>8, <2>1, <2>2, Zenon DEF Replay!BeginMatched
<1>9. ASSUME Replay!BeginRouter PROVE ReplayInv'
  <2>1. PICK p \in [C -> 0..Parts] :
          \E S \in Replay!MassSelections(p, Replay!Limit) : Replay!Begin("router", S, p)
    BY <1>9, Zenon DEF Replay!BeginRouter
  <2>2. PICK S \in Replay!MassSelections(p, Replay!Limit) : Replay!Begin("router", S, p)
    BY <2>1, Zenon
  <2>3. Replay!Limit = LimitOf(evaluator)
    BY DEF Replay!Limit, LimitOf
  <2>4. S \in Selections(C, p, LimitOf(evaluator))
    BY <2>2, <2>3, SelectionsAreTheirs, Zenon
  <2>5. SelectionFits(C, evaluator, S, p)
    BY <2>4, Zenon DEF SelectionFits
  <2>6. S \in SUBSET C
    BY <2>4, SelectedAreCandidates
  <2>7. RunsWith(evaluator, "router") => ChosenFits(plan, evaluator, "router", S)
    BY <1>3, <2>6
  <2>8. "router" # "predicted"
    OBVIOUS
  <2> QED BY <2>2, <2>5, <2>7, <2>8, BeginKeeps, Zenon
<1>10. ASSUME Replay!BeginAll PROVE ReplayInv'
  <2>1. PICK c \in {"all", "gated"} : Replay!Begin(c, C, Replay!NoScores)
    BY <1>10, Zenon DEF Replay!BeginAll
  <2>2. RunsWith(evaluator, c) => ChosenFits(plan, evaluator, c, C)
    BY DEF RunsWith, ChosenFits
  <2>3. c # "predicted"
    OBVIOUS
  <2> QED BY <1>2, <2>1, <2>2, <2>3, Zenon
<1>11. ASSUME Replay!BeginRegion PROVE ReplayInv'
  <2>1. PICK S \in SUBSET C : Replay!Begin("region", S, Replay!NoScores)
    BY <1>11, Zenon DEF Replay!BeginRegion
  <2>2. RunsWith(evaluator, "region") => ChosenFits(plan, evaluator, "region", S)
    BY <1>3
  <2>3. "region" # "predicted"
    OBVIOUS
  <2> QED BY <1>2, <2>1, <2>2, <2>3, Zenon
<1> QED BY <1>4, <1>5, <1>6, <1>7, <1>8, <1>9, <1>10, <1>11, Zenon

\* While a condition is answered, one has begun.
LEMMA AnsweringIsBegun == ReplayInv /\ phase = "answer" => ~Fresh
  BY DEF ReplayInv, FreshFits

\* Every step of the evaluation keeps its invariant.
LEMMA AnswerSteps ==
  ASSUME ReplayInv, Collected, DenseCandidates, Kept,
         \/ Replay!AnswerFull \/ Replay!AnswerSession \/ Replay!AnswerRegion
         \/ Replay!AnswerTokenwise \/ Replay!GenerateFull \/ Replay!GenerateSparse
  PROVE  ReplayInv'
<1>1. phase = "answer"
  BY Zenon DEF Replay!AnswerFull, Replay!AnswerSession, Replay!AnswerRegion,
               Replay!AnswerTokenwise, Replay!GenerateFull, Replay!GenerateSparse
<1>2. ~Fresh
  BY <1>1, AnsweringIsBegun, Zenon
<1>3. /\ plan.start \in Nat /\ plan.end = plan.start + LocalContext
      /\ LocalContext \in Nat \ {0} /\ BlockSize \in Nat \ {0} /\ Horizon \in Nat \ {0}
  BY <1>2, BegunFacts
<1>4. ASSUME Replay!AnswerFull PROVE ReplayInv'
  <2>1. plan.end + Horizon \in Nat
    BY <1>3
  <2>2. Replay!Full /\ Replay!AtOnce(plan.end + Horizon)
    BY <1>4, Zenon DEF Replay!AnswerFull
  <2> QED BY <1>2, <2>1, <2>2, AnswerAtOnceKeeps, Zenon
<1>5. ASSUME Replay!AnswerSession PROVE ReplayInv'
  <2>1. LocalContext \in Nat
    BY <1>3
  <2>2. ~Replay!Full /\ evaluator \in RecordRuns /\ Replay!AtOnce(LocalContext)
    BY <1>5, Zenon DEF Replay!AnswerSession, Replay!OverRecords, RecordRuns
  <2> QED BY <1>2, <2>1, <2>2, AnswerAtOnceKeeps, Zenon
<1>6. ASSUME Replay!AnswerRegion PROVE ReplayInv'
  <2>1. LocalContext + BlockSize \in Nat
    BY <1>3
  <2>2. ~Replay!Full /\ evaluator \in {"hard", "training"} /\ Replay!AtOnce(LocalContext + BlockSize)
    BY <1>6, Zenon DEF Replay!AnswerRegion, Replay!AlignedReach
  <2> QED BY <1>2, <2>1, <2>2, AnswerAtOnceKeeps, Zenon
<1> QED BY <1>2, <1>4, <1>5, <1>6, AnswerTokenwiseKeeps, GenerateFullKeeps, GenerateSparseKeeps, Zenon

\* The end of a condition and of the evaluation change the phase alone.
LEMMA PhaseStepKeeps ==
  ASSUME ReplayInv, Kept, phase' \in {"choose", "finished"}, alignedStage = "done",
         phase = "answer" \/ left = <<>>,
         UNCHANGED <<evaluator, left, chosen, budget, scores, window, positions, views>>
  PROVE  ReplayInv'
<1>1. /\ plan' = plan /\ alignedStage' = alignedStage
      /\ evaluator' = evaluator /\ left' = left /\ chosen' = chosen /\ budget' = budget
      /\ scores' = scores /\ window' = window /\ positions' = positions /\ views' = views
  BY Zenon DEF Kept
<1>2. ~Fresh
  <2>1. CASE phase = "answer"
    BY <2>1, AnsweringIsBegun, Zenon
  <2>2. CASE left = <<>>
    <3>1. Len(left) = 0
      BY <2>2
    <3>2. evaluator \in DOMAIN Replay!Programme
      BY Zenon DEF ReplayInv, LeftFits
    <3>3. Len(Replay!Programme[evaluator]) \in Nat \ {0}
      BY <3>2, ProgrammeRuns, Zenon
    <3> QED BY <3>1, <3>3 DEF Fresh
  <2> QED BY <2>1, <2>2
<1>3. LeftFits /\ budget \in 0..TopN /\ BegunFits
  BY <1>2, Zenon DEF ReplayInv
<1>4. LeftFits' /\ ~Fresh' /\ Replay!Current' = Replay!Current
  BY <1>1, <1>2, <1>3, Zenon DEF LeftFits, Fresh, Replay!Current
<1>5. BegunFits'
  BY <1>1, <1>3, <1>4, Zenon DEF BegunFits
<1>6. phase' \in {"choose", "answer", "finished"}
  OBVIOUS
<1> QED BY <1>1, <1>3, <1>4, <1>5, <1>6, Zenon DEF ReplayInv

\* Without a step of the evaluation its invariant stays, as long as no condition has
\* begun, or plan and stages stay.
LEMMA ReplayKeptApart ==
  ASSUME ReplayInv, UNCHANGED answerVars,
         Fresh \/ (plan' = plan /\ alignedStage' = alignedStage)
  PROVE  ReplayInv'
<1>1. /\ evaluator' = evaluator /\ left' = left /\ chosen' = chosen /\ budget' = budget
      /\ scores' = scores /\ window' = window /\ positions' = positions /\ views' = views
      /\ phase' = phase
  BY Zenon DEF answerVars
<1>2. LeftFits' /\ (Fresh' <=> Fresh) /\ Replay!Current' = Replay!Current
  BY <1>1, Zenon DEF ReplayInv, LeftFits, Fresh, Replay!Current
<1>3. Fresh => FreshFits'
  BY <1>1, Zenon DEF ReplayInv, FreshFits
<1>4. ~Fresh => BegunFits'
  <2> SUFFICES ASSUME ~Fresh PROVE BegunFits'
    OBVIOUS
  <2>1. BegunFits /\ plan' = plan /\ alignedStage' = alignedStage
    BY Zenon DEF ReplayInv
  <2> QED BY <1>1, <1>2, <2>1, Zenon DEF BegunFits
<1> QED BY <1>1, <1>2, <1>3, <1>4, Zenon DEF ReplayInv

\* An evaluation waits for the collectors, and what it does keeps its invariant.
LEMMA ReplayStep ==
  ASSUME BothInv, ReplayInv, [BothNext]_<<vars, alignedVars, answerVars>>
  PROVE  ReplayInv'
<1>1. alignedStage # "done" => Fresh
  BY Zenon DEF ReplayInv, BegunFits
<1>2. CASE Next /\ UNCHANGED <<alignedVars, answerVars>>
  <2>1. Next => stage # "done"
    BY DEF Next, Forward, WriteLayer, Trim, Check
  <2>2. alignedStage = "forward"
    BY <1>2, <2>1 DEF BothInv, InTurn
  <2> QED BY <1>1, <1>2, <2>2, ReplayKeptApart
<1>3. CASE Aligned!Next /\ UNCHANGED <<vars, answerVars>>
  <2>1. Aligned!Next => alignedStage # "done"
    BY DEF Aligned!Next, Aligned!Forward, Aligned!Unload, Aligned!Settle, Aligned!Check
  <2> QED BY <1>1, <1>3, <2>1, ReplayKeptApart
<1>4. CASE alignedStage = "done" /\ Replay!Next /\ UNCHANGED <<vars, alignedVars>>
  <2>1. Collected /\ DenseCandidates
    BY <1>4, WhenBothAreDone
  <2>2. Kept
    BY <1>4 DEF Kept, vars, alignedVars
  <2>3. CASE Replay!Answered
    <3>1. /\ phase = "answer" /\ phase' = "choose"
          /\ UNCHANGED <<evaluator, left, chosen, budget, scores, window, positions, views>>
      BY <2>3, Zenon DEF Replay!Answered
    <3>2. phase' \in {"choose", "finished"}
      BY <3>1
    <3> QED BY <1>4, <2>2, <3>1, <3>2, PhaseStepKeeps, Zenon
  <2>4. CASE Replay!Finish
    <3>1. /\ left = <<>> /\ phase' = "finished"
          /\ UNCHANGED <<evaluator, left, chosen, budget, scores, window, positions, views>>
      BY <2>4, Zenon DEF Replay!Finish
    <3>2. phase' \in {"choose", "finished"}
      BY <3>1
    <3> QED BY <1>4, <2>2, <3>1, <3>2, PhaseStepKeeps, Zenon
  <2> QED BY <1>4, <2>1, <2>2, <2>3, <2>4, BeginSteps, AnswerSteps, Zenon DEF Replay!Next
<1>5. CASE UNCHANGED <<vars, alignedVars, answerVars>>
  <2>1. plan' = plan /\ alignedStage' = alignedStage
    BY <1>5 DEF vars, alignedVars
  <2> QED BY <1>5, <2>1, ReplayKeptApart
<1> QED BY <1>2, <1>3, <1>4, <1>5, Zenon DEF BothNext

LEMMA ReplayBegins == Replay!Init => ReplayInv
<1> SUFFICES ASSUME Replay!Init PROVE ReplayInv
  OBVIOUS
<1> DEFINE P == Replay!Programme[evaluator]
<1>1. /\ evaluator \in DOMAIN Replay!Programme /\ left = P
      /\ chosen = {} /\ budget = 0 /\ scores = Replay!NoScores
      /\ window = <<>> /\ positions = <<>> /\ views = <<>> /\ phase = "choose"
  BY Zenon DEF Replay!Init, Replay!NoScores
<1>2. Len(P) \in Nat \ {0} /\ P \in Seq(Conditions)
  BY <1>1, ProgrammeRuns, Zenon
<1> HIDE DEF P
<1>3. P = [i \in 1..Len(P) |-> P[Len(P) - Len(P) + i]]
  <2>1. P = [i \in 1..Len(P) |-> P[i]]
    BY <1>2, LenProperties
  <2>2. \A i \in 1..Len(P) : Len(P) - Len(P) + i = i
    BY <1>2
  <2> QED BY <2>1, <2>2
<1>4. Fresh /\ LeftFits
  <2>1. Len(P) \in 0..Len(P)
    BY <1>2
  <2> QED BY <1>1, <1>3, <2>1, Zenon DEF Fresh, LeftFits, Rest, P
<1>5. budget \in 0..TopN
  BY <1>1, CollectorsAssumption DEF Replay!ReplayAssumption
<1>6. phase \in {"choose", "answer", "finished"} /\ FreshFits
  BY <1>1 DEF FreshFits
<1> QED BY <1>4, <1>5, <1>6, Zenon DEF ReplayInv

\* The inductive invariant of collection and evaluation together: whatever has been
\* chosen, window and views hold what the condition attaches and the stretch of local
\* tokens that its way of answering keeps.
THEOREM EvaluationInvariance == BothSpec => []EvaluationInv
<1>1. BothInit => ReplayInv
  BY ReplayBegins DEF BothInit
<1>2. BothInv /\ ReplayInv /\ [BothNext]_<<vars, alignedVars, answerVars>> => ReplayInv'
  BY ReplayStep
<1> QED BY <1>1, <1>2, CollectorsInvariance, PTL DEF BothSpec, EvaluationInv

------------------------------------------------------------------------------
(* What the answers see, from the invariant of the evaluation.             *)

\* Functions and numbers are judged alike in both modules.
LEMMA SameNotions ==
  /\ \A f : Replay!Range(f) = Range(f) /\ (Replay!IsInjective(f) <=> IsInjective(f))
  /\ \A S : Replay!Min(S) = CHOOSE x \in S : \A y \in S : x <= y
  /\ \A S : Replay!Max(S) = CHOOSE x \in S : \A y \in S : x >= y
  BY DEF Replay!Range, Range, Replay!IsInjective, IsInjective, Replay!Min, Replay!Max

\* A nonempty set of numbers has a least one.
LEMMA LeastOne ==
  ASSUME NEW S \in SUBSET Nat, S # {}
  PROVE  Replay!Min(S) \in S /\ \A y \in S : Replay!Min(S) <= y
<1> DEFINE R == {ss \in Nat \X Nat : ss[1] < ss[2]}
<1>1. IsWellFoundedOn(R, Nat)
  BY NatLessThanWellFounded, Zenon DEF OpToRel
<1>2. \A x, y \in Nat : ~(<<y, x>> \in R) => x <= y
  OBVIOUS
<1> HIDE DEF R
<1>3. \E x \in S : \A y \in S : x <= y
  <2>1. PICK x \in S : \A y \in S : ~(<<y, x>> \in R)
    BY <1>1, WFMin, Zenon
  <2> QED BY <1>2, <2>1
<1>4. Replay!Min(S) = CHOOSE z \in S : \A y \in S : z <= y
  BY SameNotions, Zenon
<1> QED BY <1>3, <1>4, Zenon

\* A stretch of tokens between two numbers is one from its least to its greatest.
LEMMA LostStretch ==
  ASSUME NEW a \in Int, NEW b \in Int
  PROVE  /\ a..(b - 1) = {} \/ a..(b - 1) = Replay!Min(a..(b - 1))..Replay!Max(a..(b - 1))
         /\ \A n \in Nat \ {0} : b - a < n => Replay!Cardinality(a..(b - 1)) < n
         /\ b <= a => a..(b - 1) = {}
<1> DEFINE S == a..(b - 1)
<1>1. CASE b <= a
  <2>1. S = {}
    BY <1>1
  <2>2. Replay!Cardinality(S) = 0
    BY <2>1, SameCardinality, FS_EmptySet
  <2> QED BY <2>1, <2>2
<1>2. CASE a < b
  <2>1. a \in S /\ b - 1 \in S /\ \A y \in S : a <= y /\ y <= b - 1 /\ y \in Int
    BY <1>2
  <2>2. Replay!Min(S) = a
    <3>1. \A x \in S : (\A y \in S : x <= y) <=> x = a
      BY <2>1
    <3>2. (CHOOSE x \in S : \A y \in S : x <= y) = CHOOSE x \in S : x = a
      BY <3>1
    <3> QED BY <2>1, <3>2, SameNotions
  <2>3. Replay!Max(S) = b - 1
    <3>1. \A x \in S : (\A y \in S : x >= y) <=> x = b - 1
      BY <2>1
    <3>2. (CHOOSE x \in S : \A y \in S : x >= y) = CHOOSE x \in S : x = b - 1
      BY <3>1
    <3> QED BY <2>1, <3>2, SameNotions
  <2>4. Replay!Cardinality(S) = b - a
    <3>1. Cardinality(S) = b - a
      BY <1>2, FS_Interval
    <3> QED BY <3>1, SameCardinality, Zenon
  <2> HIDE DEF S
  <2>5. /\ S = {} \/ S = Replay!Min(S)..Replay!Max(S)
        /\ \A n \in Nat \ {0} : b - a < n => Replay!Cardinality(S) < n
    BY <2>2, <2>3, <2>4 DEF S
  <2> QED BY <1>2, <2>5 DEF S
<1> QED BY <1>1, <1>2

\* What is attached comes before the tokens a window holds besides.
LEMMA AttachedWithin ==
  ASSUME Collected, DenseCandidates, NEW c, ChosenFits(plan, evaluator, c, chosen),
         NEW t \in Attached(plan, evaluator, chosen)
  PROVE  t \in Nat /\ c # "full" /\ t < (IF evaluator \in RecordRuns THEN plan.start ELSE Base)
<1>1. plan.start \in Nat /\ Base \in Nat /\ BlockSize \in Nat
  BY Boundaries DEF Collected
<1>2. t \in 0..(plan.start - 1) /\ (IF evaluator \in RecordRuns THEN t \in chosen ELSE BlockOf(t) \in chosen)
  BY DEF Attached
<1>3. c # "full"
  BY <1>2 DEF ChosenFits
<1>4. CASE evaluator \in RecordRuns
  BY <1>1, <1>2, <1>3, <1>4
<1>5. CASE evaluator \notin RecordRuns
  <2>1. BlockOf(t) \in plan.candidates
    BY <1>2, <1>5 DEF ChosenFits
  <2>2. BlockOf(t) + BlockSize <= Base /\ BlockOf(t) \in Nat
    BY <2>1 DEF DenseCandidates
  <2>3. t \in Nat /\ t < BlockOf(t) + BlockSize
    BY <1>1, <1>2, Boundaries
  <2> QED BY <1>1, <1>3, <1>5, <2>2, <2>3
<1> QED BY <1>4, <1>5

\* With every candidate attached no token between the first candidate and the boundary
\* before the local context is missing.
LEMMA CandidatesCover ==
  ASSUME Collected, DenseCandidates, evaluator \notin RecordRuns
  PROVE  /\ Replay!Min(plan.candidates) \in Nat
         /\ Attached(plan, evaluator, plan.candidates) = Replay!Min(plan.candidates)..(Base - 1)
<1> DEFINE C == plan.candidates
           m == Replay!Min(C)
<1>1. plan.start \in Nat /\ Base \in Nat /\ Base <= plan.start /\ OnBoundary(Base) /\ BlockSize \in Nat \ {0}
  BY Boundaries DEF Collected
<1>2. m \in C /\ (\A y \in C : m <= y) /\ C \subseteq Nat /\ (\A s \in C : OnBoundary(s) /\ s + BlockSize <= Base)
  BY LeastOne DEF DenseCandidates
<1> HIDE DEF m
<1>3. \A t : t \in Attached(plan, evaluator, C) <=> t \in 0..(plan.start - 1) /\ BlockOf(t) \in C
  BY DEF Attached
<1>4. ASSUME NEW t \in Attached(plan, evaluator, C) PROVE t \in m..(Base - 1)
  <2>1. t \in Nat /\ BlockOf(t) \in C
    BY <1>1, <1>3
  <2>2. BlockOf(t) <= t /\ t < BlockOf(t) + BlockSize
    BY <2>1, Boundaries
  <2> QED BY <1>1, <1>2, <2>1, <2>2
<1>5. ASSUME NEW t \in m..(Base - 1) PROVE t \in Attached(plan, evaluator, C)
  <2>1. t \in 0..(plan.start - 1) /\ t \in Nat /\ m \in Nat /\ m <= t /\ t < Base
    BY <1>1, <1>2
  <2>2. /\ BlockOf(t) \in Nat /\ OnBoundary(BlockOf(t)) /\ BlockOf(t) <= t
        /\ t < BlockOf(t) + BlockSize
    BY <2>1, Boundaries
  <2>3. m <= BlockOf(t)
    <3>1. BlockOf(t) < m => BlockOf(t) + BlockSize <= m
      <4>1. OnBoundary(m) /\ m \in Int /\ BlockOf(t) \in Int
        BY <1>2, <2>1, <2>2
      <4> QED BY <2>2, <4>1, Boundaries
    <3> QED BY <1>1, <2>1, <2>2, <3>1
  <2>4. BlockOf(t) + BlockSize <= Base
    <3>1. BlockOf(t) < Base => BlockOf(t) + BlockSize <= Base
      BY <1>1, <2>2, Boundaries
    <3> QED BY <1>1, <2>1, <2>2, <3>1
  <2>5. BlockOf(t) \in C
    <3>1. \A s \in C, u \in Nat : OnBoundary(u) /\ u >= s /\ u + BlockSize <= Base => u \in C
      BY Zenon DEF DenseCandidates
    <3> QED BY <1>2, <2>2, <2>3, <2>4, <3>1
  <2> QED BY <1>3, <2>1, <2>5
<1>6. m \in Nat
  BY <1>2
<1> QED BY <1>4, <1>5, <1>6 DEF m

\* The condition being answered is one the evaluation runs.
LEMMA CurrentRuns ==
  ASSUME ReplayInv, ~Fresh
  PROVE  RunsWith(evaluator, Replay!Current)
<1> DEFINE P == Replay!Programme[evaluator]
<1>1. evaluator \in DOMAIN Replay!Programme /\ Len(left) \in 0..Len(P) /\ Len(left) # Len(P)
  BY Zenon DEF ReplayInv, LeftFits, Fresh
<1>2. Len(P) \in Nat \ {0} /\ \A i \in 1..Len(P) : RunsWith(evaluator, P[i])
  BY <1>1, ProgrammeRuns, Zenon
<1>3. Replay!Current = P[Len(P) - Len(left)]
  BY DEF Replay!Current
<1> HIDE DEF P
<1>4. Len(P) - Len(left) \in 1..Len(P)
  BY <1>1, <1>2
<1> QED BY <1>2, <1>3, <1>4, Zenon

\* What query k sees: each token once, none after itself, and its local context.
SeesOnce(v, k) ==
  /\ IsInjective(v.memory) /\ IsInjective(v.local)
  /\ Range(v.memory) \cap Range(v.local) = {}
  /\ Range(v.memory) \cup Range(v.local) \subseteq 0..(plan.end + k - 1)
  /\ (plan.end + k - LocalContext)..(plan.end + k - 1) \subseteq Range(v.memory) \cup Range(v.local)

LEMMA ViewSeesOnce ==
  ASSUME Collected, DenseCandidates, NEW c, ChosenFits(plan, evaluator, c, chosen),
         NEW v, NEW k \in Nat, k >= 1, ViewFits(plan, evaluator, c, chosen, v, k)
  PROVE  SeesOnce(v, k)
<1>1. /\ plan.start \in Nat /\ plan.end = plan.start + LocalContext /\ LocalContext \in Nat
      /\ Base \in Nat /\ Base <= plan.start
  BY Boundaries DEF Collected
<1>2. /\ IsInjective(v.memory) /\ Range(v.memory) = Attached(plan, evaluator, chosen)
      /\ IsInjective(v.local)
  BY Zenon DEF ViewFits
<1>3. PICK low \in 0..(plan.start + k) :
        SeenFrom(plan, evaluator, c, low, k) /\ Range(v.local) = low..(plan.end + k - 1)
  BY Zenon DEF ViewFits
<1>4. low \in Nat /\ low <= plan.start + k
  <2>1. low \in 0..(plan.start + k)
    OBVIOUS
  <2> QED BY <1>1, <2>1
<1>5. ASSUME NEW t \in Range(v.memory) PROVE t \in Nat /\ t < low /\ t < plan.start
  <2>1. t \in Nat /\ c # "full" /\ t < (IF evaluator \in RecordRuns THEN plan.start ELSE Base)
    BY <1>2, AttachedWithin
  <2>2. low >= (IF evaluator \in RecordRuns THEN plan.start ELSE Base)
    BY <1>3, <2>1, Zenon DEF SeenFrom, Base
  <2> QED BY <1>1, <1>4, <2>1, <2>2
<1>6. Range(v.memory) \cap Range(v.local) = {}
  <2> SUFFICES ASSUME NEW t \in Range(v.memory), t \in Range(v.local) PROVE FALSE
    OBVIOUS
  <2>1. t \in low..(plan.end + k - 1)
    BY <1>3
  <2> QED BY <1>4, <1>5, <2>1
<1>7. Range(v.memory) \cup Range(v.local) \subseteq 0..(plan.end + k - 1)
  <2>1. ASSUME NEW t \in Range(v.memory) PROVE t \in 0..(plan.end + k - 1)
    BY <1>1, <1>5
  <2>2. ASSUME NEW t \in Range(v.local) PROVE t \in 0..(plan.end + k - 1)
    BY <1>3, <1>4
  <2> QED BY <2>1, <2>2
<1>8. (plan.end + k - LocalContext)..(plan.end + k - 1) \subseteq Range(v.local)
  <2> SUFFICES ASSUME NEW t \in (plan.end + k - LocalContext)..(plan.end + k - 1)
               PROVE  t \in low..(plan.end + k - 1)
    BY <1>3
  <2> QED BY <1>1, <1>4
<1> QED BY <1>2, <1>6, <1>7, <1>8 DEF SeesOnce

\* What query k misses from a token on, when the whole history is attached.
LostFrom(v, k, from) == {t \in from..(plan.end + k - 1) : t \notin Range(v.memory) \cup Range(v.local)}

LEMMA ViewMisses ==
  ASSUME Collected, DenseCandidates, NEW c, ChosenFits(plan, evaluator, c, chosen),
         RunsWith(evaluator, c), NEW v, NEW k \in Nat, k >= 1,
         ViewFits(plan, evaluator, c, chosen, v, k),
         c \in {"full", "all", "gated", "everything"} \/ (c # "clusters" /\ chosen = plan.candidates)
  PROVE  \E a, b \in Int :
           /\ LostFrom(v, k, IF c = "full" \/ evaluator \in RecordRuns THEN 0
                             ELSE Replay!Min(plan.candidates)) = a..(b - 1)
           /\ b - a < BlockSize + k
           /\ c = "full" => b <= a
           /\ evaluator \in CapturedRuns \cup GeneratingRuns /\ k = 1 => b <= a
<1>1. /\ plan.start \in Nat /\ plan.end = plan.start + LocalContext /\ LocalContext \in Nat
      /\ Base \in Nat /\ Base <= plan.start /\ plan.start < Base + BlockSize /\ BlockSize \in Nat \ {0}
  BY Boundaries DEF Collected
<1>2. Range(v.memory) = Attached(plan, evaluator, chosen)
  BY Zenon DEF ViewFits
<1>3. PICK low \in 0..(plan.start + k) :
        SeenFrom(plan, evaluator, c, low, k) /\ Range(v.local) = low..(plan.end + k - 1)
  BY Zenon DEF ViewFits
<1>4. low \in Nat /\ low <= plan.start + k
  <2>1. low \in 0..(plan.start + k)
    OBVIOUS
  <2> QED BY <1>1, <2>1
<1>5. CASE c = "full"
  <2>1. low = 0
    BY <1>3, <1>5, Zenon DEF SeenFrom
  <2>2. LostFrom(v, k, 0) = 0..(0 - 1)
    BY <1>1, <1>3, <2>1 DEF LostFrom
  <2> DEFINE z == 0
  <2>3. z \in Int /\ z - z < BlockSize + k /\ z <= z
    BY <1>1
  <2>4. LostFrom(v, k, 0) = z..(z - 1)
    BY <2>2
  <2> HIDE DEF z
  <2> QED BY <1>5, <2>3, <2>4, Zenon
<1>6. CASE c # "full" /\ evaluator \in RecordRuns
  <2>1. low >= plan.start
    BY <1>3, <1>6, Zenon DEF SeenFrom
  <2>2. chosen = 0..(plan.start - 1)
    <3>1. c = "everything"
      <4>1. c = "local" => chosen # plan.candidates
        BY DEF ChosenFits, DenseCandidates
      <4> QED BY <1>6, <4>1 DEF RunsWith
    <3> QED BY <3>1 DEF ChosenFits
  <2>3. Range(v.memory) = 0..(plan.start - 1)
    BY <1>2, <1>6, <2>2 DEF Attached
  <2>4. LostFrom(v, k, 0) = (plan.start)..(low - 1)
    BY <1>1, <1>3, <1>4, <2>1, <2>3 DEF LostFrom
  <2>5. low - plan.start < BlockSize + k /\ plan.start \in Int /\ low \in Int
    BY <1>1, <1>4
  <2>6. evaluator \notin CapturedRuns \cup GeneratingRuns
    BY <1>6 DEF RecordRuns, CapturedRuns, GeneratingRuns
  <2> QED BY <1>6, <2>4, <2>5, <2>6
<1>7. CASE c # "full" /\ evaluator \notin RecordRuns
  <2>1. low >= Base /\ (k = 1 /\ evaluator \in CapturedRuns \cup GeneratingRuns => low = Base)
    BY <1>3, <1>7, Zenon DEF SeenFrom, Base
  <2>2. chosen = plan.candidates
    BY <1>7 DEF ChosenFits, RunsWith
  <2> DEFINE m == Replay!Min(plan.candidates)
  <2>3. m \in Nat /\ Range(v.memory) = m..(Base - 1)
    BY <1>2, <1>7, <2>2, CandidatesCover
  <2>7. m <= Base
    <3>1. m \in plan.candidates
      BY LeastOne DEF DenseCandidates
    <3>2. m + BlockSize <= Base
      BY <3>1 DEF DenseCandidates
    <3> HIDE DEF m
    <3> QED BY <1>1, <2>3, <3>2
  <2> HIDE DEF m
  <2>4. LostFrom(v, k, m) = Base..(low - 1)
    <3> DEFINE q == plan.end + k - 1
    <3>1. q \in Int /\ low <= q + 1 /\ low >= Base /\ m <= Base /\ m \in Nat /\ low \in Nat /\ Base \in Nat
      <4>1. q \in Int /\ low <= q + 1 /\ low \in Nat /\ Base \in Nat
        BY <1>1, <1>4
      <4> HIDE DEF q
      <4> QED BY <2>1, <2>3, <2>7, <4>1, Zenon
    <3>2. LostFrom(v, k, m) = {t \in m..q : t \notin (m..(Base - 1)) \cup (low..q)}
      BY <1>3, <2>3, Zenon DEF LostFrom
    <3> HIDE DEF q
    <3>3. {t \in m..q : t \notin (m..(Base - 1)) \cup (low..q)} = Base..(low - 1)
      BY <3>1
    <3> QED BY <3>2, <3>3
  <2>5. low - Base < BlockSize + k /\ Base \in Int /\ low \in Int
    BY <1>1, <1>4
  <2>6. evaluator \in CapturedRuns \cup GeneratingRuns /\ k = 1 => low <= Base
    BY <1>1, <2>1
  <2> QED BY <1>7, <2>4, <2>5, <2>6 DEF m
<1> QED BY <1>5, <1>6, <1>7

\* The evaluation's state has its types.
LEMMA ReplayTypes == EvaluationInv => Replay!TypeOK /\ window = positions
<1> SUFFICES ASSUME EvaluationInv PROVE Replay!TypeOK /\ window = positions
  OBVIOUS
<1>1. /\ ReplayInv /\ LeftFits /\ budget \in 0..TopN /\ phase \in {"choose", "answer", "finished"}
      /\ (Fresh => FreshFits) /\ (~Fresh => BegunFits)
  BY Zenon DEF EvaluationInv, ReplayInv
<1>2. evaluator \in DOMAIN Replay!Programme /\ Len(left) <= Len(Replay!Programme[evaluator])
  <2>1. evaluator \in DOMAIN Replay!Programme /\ Len(left) \in 0..Len(Replay!Programme[evaluator])
    BY <1>1, Zenon DEF LeftFits
  <2>2. Len(Replay!Programme[evaluator]) \in Nat \ {0}
    BY <2>1, ProgrammeRuns, Zenon
  <2> QED BY <2>1, <2>2
<1>3. CASE Fresh
  <2>1. chosen = {} /\ window = <<>> /\ positions = <<>> /\ views = <<>>
    BY <1>1, <1>3, Zenon DEF FreshFits
  <2>2. Len(views) = 0 /\ <<>> \in Seq(Nat) /\ DOMAIN views = {}
    BY <2>1
  <2>3. Len(views) <= Horizon
    BY <2>2, RollingAssumption
  <2> QED BY <1>1, <1>2, <2>1, <2>2, <2>3 DEF Replay!TypeOK
<1>4. CASE ~Fresh
  <2>1. Collected /\ DenseCandidates
    BY <1>1, <1>4, WhenBothAreDone, Zenon DEF EvaluationInv, BegunFits
  <2>2. /\ plan.start \in Nat /\ plan.end = plan.start + LocalContext /\ LocalContext \in Nat
        /\ BlockSize \in Nat /\ Base \in Nat /\ Base <= plan.start
        /\ Len(views) \in 0..Horizon /\ Horizon \in Nat
    BY <1>1, <1>4, <2>1, BegunFacts
  <2>3. /\ window = positions
        /\ WindowFits(plan, evaluator, Replay!Current, window, Len(views))
        /\ ChosenFits(plan, evaluator, Replay!Current, chosen)
        /\ \A k \in 1..Len(views) : ViewFits(plan, evaluator, Replay!Current, chosen, views[k], k)
        /\ views \in Seq(Range(views))
    BY <1>1, <1>4, <2>1, BegunFacts, Zenon
  <2>4. chosen \subseteq 0..plan.end
    <3>1. CASE evaluator \in RecordRuns
      <4>1. chosen \subseteq 0..(plan.start - 1)
        BY <2>3, <3>1 DEF ChosenFits
      <4> QED BY <2>2, <4>1
    <3>2. CASE evaluator \notin RecordRuns
      <4>1. chosen \subseteq plan.candidates
        BY <2>3, <3>2 DEF ChosenFits
      <4>2. \A s \in plan.candidates : s \in Nat /\ s + BlockSize <= Base
        BY <2>1 DEF DenseCandidates
      <4> QED BY <2>2, <4>1, <4>2
    <3> QED BY <3>1, <3>2
  <2>5. window \in Seq(Nat)
    <3> DEFINE n == Len(views)
    <3>1. PICK low \in 0..(plan.start + n) : window = Stretch(low, plan.end + n)
      BY <2>3, Zenon DEF WindowFits
    <3>2. n \in Nat /\ low \in 0..(plan.start + n)
      BY <2>2
    <3> HIDE DEF n
    <3>3. low \in Nat /\ plan.end + n \in Nat /\ low <= plan.end + n
      <4>1. /\ low \in 0..(plan.start + n) /\ plan.start \in Nat /\ LocalContext \in Nat
            /\ plan.end = plan.start + LocalContext
        BY <2>2, <3>2, Zenon
      <4> QED BY <3>2, <4>1
    <3> QED BY <3>1, <3>3, StretchIsSequence
  <2>6. \A k \in DOMAIN views : DOMAIN views[k] = {"memory", "local"}
    <3>1. DOMAIN views = 1..Len(views)
      BY <2>3, LenProperties
    <3> QED BY <2>3, <3>1, Zenon DEF ViewFits
  <2>7. Len(views) <= Horizon
    BY <2>2
  <2> QED BY <1>1, <1>2, <2>3, <2>4, <2>5, <2>6, <2>7 DEF Replay!TypeOK
<1> QED BY <1>3, <1>4

\* Every answered query sees its history and its local context.
LEMMA InvSeesHistory == EvaluationInv => AnswersSeeTheirHistory
<1> SUFFICES ASSUME EvaluationInv PROVE AnswersSeeTheirHistory
  OBVIOUS
<1>1. /\ ReplayInv /\ phase # "error" /\ (Fresh => FreshFits) /\ (~Fresh => BegunFits)
  BY Zenon DEF EvaluationInv, ReplayInv
<1>2. Replay!TypeOK /\ window = positions
  BY ReplayTypes
<1>3. CASE Fresh
  <2>1. views = <<>> /\ DOMAIN views = {}
    <3>1. views = <<>>
      BY <1>1, <1>3, Zenon DEF FreshFits
    <3> QED BY <3>1
  <2> QED BY <1>1, <1>2, <2>1, Zenon
        DEF AnswersSeeTheirHistory, Replay!AnswersSeeOnce, Replay!NothingLostAtTheCut
<1>4. CASE ~Fresh
  <2> DEFINE c == Replay!Current
  <2>1. Collected /\ DenseCandidates
    BY <1>1, <1>4, WhenBothAreDone, Zenon DEF EvaluationInv, BegunFits
  <2>2. /\ ChosenFits(plan, evaluator, c, chosen)
        /\ \A k \in 1..Len(views) : ViewFits(plan, evaluator, c, chosen, views[k], k)
        /\ views \in Seq(Range(views)) /\ Len(views) \in 0..Horizon /\ RunsWith(evaluator, c)
    BY <1>1, <1>4, <2>1, BegunFacts, CurrentRuns, Zenon
  <2>3. DOMAIN views = 1..Len(views)
    BY <2>2, LenProperties
  <2>4. \A k \in DOMAIN views : k \in Nat /\ k >= 1 /\ ViewFits(plan, evaluator, c, chosen, views[k], k)
    BY <2>2, <2>3
  <2> HIDE DEF c
  <2>5. \A k \in DOMAIN views : SeesOnce(views[k], k)
    BY <2>1, <2>2, <2>4, ViewSeesOnce, Zenon
  <2>6. \A k \in DOMAIN views : Replay!Seen(views[k]) = Range(views[k].memory) \cup Range(views[k].local)
    BY SameNotions, Zenon DEF Replay!Seen
  <2>7. Replay!AnswersSeeOnce
    <3>1. \A k \in DOMAIN views :
            /\ Replay!IsInjective(views[k].memory) /\ Replay!IsInjective(views[k].local)
            /\ Replay!Range(views[k].memory) \cap Replay!Range(views[k].local) = {}
            /\ Replay!Seen(views[k]) \subseteq 0..(plan.end + k - 1)
            /\ (plan.end + k - LocalContext)..(plan.end + k - 1) \subseteq Replay!Seen(views[k])
      BY <2>5, <2>6, SameNotions, Zenon DEF SeesOnce
    <3> QED BY <1>1, <1>2, <3>1, Zenon DEF Replay!AnswersSeeOnce
  <2>8. Replay!NothingLostAtTheCut
    <3> SUFFICES ASSUME Replay!AllAttached, NEW k \in DOMAIN views
                 PROVE  LET lost == {t \in (IF Replay!Full \/ Replay!OverRecords THEN 0
                                            ELSE Replay!Min(plan.candidates))..(plan.end + k - 1) :
                                       t \notin Replay!Seen(views[k])}
                        IN  /\ lost = {} \/ lost = Replay!Min(lost)..Replay!Max(lost)
                            /\ Replay!Cardinality(lost) < BlockSize + k
                            /\ Replay!Full => lost = {}
                            /\ (Replay!Generates \/ Replay!OverCaptured) /\ k = 1 => lost = {}
      BY Zenon DEF Replay!NothingLostAtTheCut
    <3> DEFINE from == IF c = "full" \/ evaluator \in RecordRuns THEN 0
                       ELSE Replay!Min(plan.candidates)
               lost == LostFrom(views[k], k, from)
    <3>1. /\ Replay!Full <=> c = "full"
          /\ Replay!OverRecords <=> evaluator \in RecordRuns
          /\ Replay!Generates \/ Replay!OverCaptured <=> evaluator \in CapturedRuns \cup GeneratingRuns
      BY DEF Replay!Full, Replay!OverRecords, Replay!Generates, Replay!OverCaptured,
             RecordRuns, CapturedRuns, GeneratingRuns, c
    <3>2. {t \in (IF Replay!Full \/ Replay!OverRecords THEN 0
                  ELSE Replay!Min(plan.candidates))..(plan.end + k - 1) :
             t \notin Replay!Seen(views[k])} = lost
      BY <2>6, <3>1, Zenon DEF LostFrom
    <3>3. c \in {"full", "all", "gated", "everything"} \/ (c # "clusters" /\ chosen = plan.candidates)
      BY Zenon DEF Replay!AllAttached, c
    <3>4. PICK a \in Int, b \in Int :
            /\ lost = a..(b - 1) /\ b - a < BlockSize + k
            /\ c = "full" => b <= a
            /\ evaluator \in CapturedRuns \cup GeneratingRuns /\ k = 1 => b <= a
      BY <2>1, <2>2, <2>4, <3>3, ViewMisses, Zenon
    <3>5. BlockSize + k \in Nat \ {0}
      BY <2>4, BlocksAssumption
    <3> HIDE DEF lost
    <3>6. /\ lost = {} \/ lost = Replay!Min(lost)..Replay!Max(lost)
          /\ Replay!Cardinality(lost) < BlockSize + k
          /\ b <= a => lost = {}
      BY <3>4, <3>5, LostStretch, Zenon
    <3> QED BY <3>1, <3>2, <3>4, <3>6, Zenon
  <2> QED BY <2>7, <2>8 DEF AnswersSeeTheirHistory
<1> QED BY <1>3, <1>4

\* Every query of an evaluation sees each token once, none after itself, and its local
\* context; and with the whole history attached it misses at most the stretch between
\* the history and its window, which the mask and the trimming of the cache leave out.
THEOREM AnswersAlwaysSeeTheirHistory == BothSpec => []AnswersSeeTheirHistory
  BY EvaluationInvariance, InvSeesHistory, PTL

------------------------------------------------------------------------------
(* A selection by mass is the smallest that retains it.                    *)

\* The units of probability S has.
Units(p, S) == {u \in S \X (1..Parts) : u[2] <= p[u[1]]}

Scored(C, p) == IsFiniteSet(C) /\ p \in [C -> 0..Parts]

LEMMA UnitsCount ==
  ASSUME NEW C, NEW p, Scored(C, p), NEW S \in SUBSET C
  PROVE  /\ IsFiniteSet(S) /\ IsFiniteSet(Units(p, S))
         /\ Replay!Mass(p, S) = Cardinality(Units(p, S)) /\ Replay!Mass(p, S) \in Nat
<1>1. Parts \in Nat /\ IsFiniteSet(1..Parts)
  BY CollectorsAssumption, FS_Interval DEF Replay!ReplayAssumption
<1>2. IsFiniteSet(S)
  BY FS_Subset, Zenon DEF Scored
<1>3. IsFiniteSet(S \X (1..Parts))
  BY <1>1, <1>2, FS_Product, Zenon
<1>4. IsFiniteSet(Units(p, S))
  <2>1. Units(p, S) \in SUBSET (S \X (1..Parts))
    BY DEF Units
  <2> QED BY <1>3, <2>1, FS_Subset, Zenon
<1>5. Replay!Mass(p, S) = Cardinality(Units(p, S))
  BY SameCardinality, Zenon DEF Replay!Mass, Units
<1> QED BY <1>2, <1>4, <1>5, FS_CardinalityType, Zenon

\* More candidates have no less mass.
LEMMA MassGrows ==
  ASSUME NEW C, NEW p, Scored(C, p), NEW T \in SUBSET C, NEW S \in SUBSET T
  PROVE  Replay!Mass(p, S) <= Replay!Mass(p, T)
<1>1. S \in SUBSET C
  OBVIOUS
<1>2. Units(p, S) \in SUBSET Units(p, T)
  BY DEF Units
<1>3. IsFiniteSet(Units(p, T))
  BY UnitsCount, Zenon
<1>4. Cardinality(Units(p, S)) <= Cardinality(Units(p, T))
  BY <1>2, <1>3, FS_Subset, Zenon
<1>5. /\ Replay!Mass(p, S) = Cardinality(Units(p, S))
      /\ Replay!Mass(p, T) = Cardinality(Units(p, T))
  BY <1>1, UnitsCount, Zenon
<1> QED BY <1>4, <1>5, Zenon

\* The mass of two sets apart is the sum of theirs.
LEMMA MassAdds ==
  ASSUME NEW C, NEW p, Scored(C, p), NEW S \in SUBSET C, NEW T \in SUBSET C, S \cap T = {}
  PROVE  Replay!Mass(p, S \cup T) = Replay!Mass(p, S) + Replay!Mass(p, T)
<1>1. S \cup T \in SUBSET C
  OBVIOUS
<1>2. /\ IsFiniteSet(Units(p, S)) /\ Replay!Mass(p, S) = Cardinality(Units(p, S))
      /\ IsFiniteSet(Units(p, T)) /\ Replay!Mass(p, T) = Cardinality(Units(p, T))
      /\ Replay!Mass(p, S) \in Nat /\ Replay!Mass(p, T) \in Nat
      /\ Replay!Mass(p, S \cup T) = Cardinality(Units(p, S \cup T))
  BY <1>1, UnitsCount, Zenon
<1>3. Units(p, S \cup T) = Units(p, S) \cup Units(p, T) /\ Units(p, S) \cap Units(p, T) = {}
  BY DEF Units
<1>4. /\ Cardinality(Units(p, S) \cup Units(p, T))
           = Cardinality(Units(p, S)) + Cardinality(Units(p, T)) - Cardinality(Units(p, S) \cap Units(p, T))
  BY <1>2, FS_Union, Zenon
<1>5. Cardinality(Units(p, S) \cap Units(p, T)) = 0
  BY <1>3, FS_EmptySet, Zenon
<1>6. Cardinality(Units(p, S \cup T)) = Cardinality(Units(p, S)) + Cardinality(Units(p, T)) - 0
  BY <1>3, <1>4, <1>5, Zenon
<1> QED BY <1>2, <1>6

\* Candidates with at most v units each have at most v times their number, and with
\* at least v units no less.
LEMMA MassBounds ==
  ASSUME NEW C, NEW p, Scored(C, p), NEW S \in SUBSET C, NEW v \in 0..Parts
  PROVE  /\ Cardinality(S) \in Nat
         /\ (\A s \in S : p[s] <= v) => Replay!Mass(p, S) <= Cardinality(S) * v
         /\ (\A s \in S : p[s] >= v) => Cardinality(S) * v <= Replay!Mass(p, S)
<1>1. /\ IsFiniteSet(S) /\ IsFiniteSet(Units(p, S))
      /\ Replay!Mass(p, S) = Cardinality(Units(p, S))
  BY UnitsCount, Zenon
<1>2. Parts \in Nat /\ v \in Nat /\ v <= Parts
  BY CollectorsAssumption DEF Replay!ReplayAssumption
<1>3. \A s \in S : p[s] \in Int
  BY DEF Scored
<1> DEFINE B == S \X (1..v)
<1>4. IsFiniteSet(B) /\ Cardinality(B) = Cardinality(S) * v
  <2> DEFINE I == 1..v
  <2>1. IsFiniteSet(I) /\ Cardinality(I) = v
    BY <1>2, FS_Interval
  <2>2. B = S \X I
    OBVIOUS
  <2> HIDE DEF I, B
  <2>3. IsFiniteSet(S \X I) /\ Cardinality(S \X I) = Cardinality(S) * Cardinality(I)
    BY <1>1, <2>1, FS_Product, Zenon
  <2> QED BY <2>1, <2>2, <2>3, Zenon
<1>5. ASSUME \A s \in S : p[s] <= v PROVE Units(p, S) \in SUBSET B
  <2> SUFFICES ASSUME NEW u \in S \X (1..Parts), u[2] <= p[u[1]] PROVE u \in B
    BY DEF Units
  <2>1. u[1] \in S /\ u[2] \in 1..Parts /\ u = <<u[1], u[2]>>
    OBVIOUS
  <2>2. p[u[1]] <= v /\ p[u[1]] \in Int
    BY <1>3, <1>5, <2>1
  <2>3. u[2] \in 1..v
    BY <1>2, <2>1, <2>2
  <2> QED BY <2>1, <2>3
<1>6. ASSUME \A s \in S : p[s] >= v PROVE B \in SUBSET Units(p, S)
  <2> SUFFICES ASSUME NEW u \in S \X (1..v) PROVE u \in S \X (1..Parts) /\ u[2] <= p[u[1]]
    BY DEF Units
  <2>1. u[1] \in S /\ u[2] \in 1..v /\ u = <<u[1], u[2]>>
    OBVIOUS
  <2>2. p[u[1]] >= v /\ p[u[1]] \in Int
    BY <1>3, <1>6, <2>1
  <2>3. u[2] \in 1..Parts /\ u[2] <= p[u[1]]
    BY <1>2, <2>1, <2>2
  <2> QED BY <2>1, <2>3
<1> HIDE DEF B
<1>7. (\A s \in S : p[s] <= v) => Cardinality(Units(p, S)) <= Cardinality(B)
  BY <1>4, <1>5, FS_Subset, Zenon
<1>8. (\A s \in S : p[s] >= v) => Cardinality(B) <= Cardinality(Units(p, S))
  BY <1>1, <1>6, FS_Subset, Zenon
<1>9. Cardinality(S) \in Nat
  BY <1>1, FS_CardinalityType, Zenon
<1> QED BY <1>1, <1>4, <1>7, <1>8, <1>9, Zenon

\* Products grow with a factor.
LEMMA ProductGrows ==
  ASSUME NEW a \in Nat, NEW b \in Nat, NEW w \in Nat, a <= b
  PROVE  w * a <= w * b /\ a * w <= b * w /\ w * a \in Nat /\ w * b \in Nat
<1> DEFINE d == b - a
<1>1. d \in Nat /\ b = a + d
  OBVIOUS
<1> HIDE DEF d
<1>2. w * d \in Nat /\ w * a \in Nat
  BY <1>1, SMT
<1>3. w * (a + d) = w * a + w * d /\ (a + d) * w = a * w + d * w /\ d * w = w * d /\ a * w = w * a
  BY <1>1, SMT
<1> QED BY <1>1, <1>2, <1>3, SMT

\* No set of candidates has more mass than as many of those that have most of it.
LEMMA MostMass ==
  ASSUME NEW C, NEW p, Scored(C, p), NEW S \in SUBSET C, NEW T \in SUBSET C,
         Cardinality(S) <= Cardinality(T),
         \A s \in C \ T, t \in T : p[t] >= p[s]
  PROVE  Replay!Mass(p, S) <= Replay!Mass(p, T)
<1> DEFINE A == S \ T
           B == T \ S
           D == S \cap T
<1>1. A \in SUBSET C /\ B \in SUBSET C /\ D \in SUBSET C
  OBVIOUS
<1>2. S = A \cup D /\ A \cap D = {} /\ T = B \cup D /\ B \cap D = {}
  OBVIOUS
<1>3. IsFiniteSet(S) /\ IsFiniteSet(T) /\ IsFiniteSet(D) /\ IsFiniteSet(A) /\ IsFiniteSet(B)
  BY <1>1, UnitsCount, Zenon
<1>4. Cardinality(A) <= Cardinality(B) /\ Cardinality(A) \in Nat /\ Cardinality(B) \in Nat
  <2>1. Cardinality(A) = Cardinality(S) - Cardinality(D)
    BY <1>3, FS_Difference, Zenon
  <2>2. Cardinality(B) = Cardinality(T) - Cardinality(T \cap S) /\ T \cap S = D
    BY <1>3, FS_Difference
  <2>3. /\ Cardinality(S) \in Nat /\ Cardinality(T) \in Nat /\ Cardinality(D) \in Nat
        /\ Cardinality(A) \in Nat /\ Cardinality(B) \in Nat
    BY <1>3, FS_CardinalityType, Zenon
  <2> QED BY <2>1, <2>2, <2>3
<1>5. Replay!Mass(p, S) = Replay!Mass(p, A) + Replay!Mass(p, D)
  BY <1>1, <1>2, MassAdds
<1>6. Replay!Mass(p, T) = Replay!Mass(p, B) + Replay!Mass(p, D)
  BY <1>1, <1>2, MassAdds
<1>7. Replay!Mass(p, A) \in Nat /\ Replay!Mass(p, B) \in Nat /\ Replay!Mass(p, D) \in Nat
  BY <1>1, UnitsCount, Zenon
<1>8. \A s \in A, t \in B : p[t] >= p[s]
  OBVIOUS
<1>9. \A s \in C : p[s] \in 0..Parts
  BY DEF Scored
<1>10. Replay!Mass(p, A) <= Replay!Mass(p, B)
  <2>1. CASE B = {}
    <3>1. Cardinality(B) = 0
      BY <2>1, FS_EmptySet
    <3>2. A = {}
      BY <1>3, <1>4, <3>1, FS_EmptySet
    <3> QED BY <1>7, <2>1, <3>2
  <2>2. CASE B # {}
    <3> DEFINE V == {p[t] : t \in B}
    <3>1. V \in SUBSET Nat /\ V # {}
      <4>1. Parts \in Nat
        BY CollectorsAssumption DEF Replay!ReplayAssumption
      <4> QED BY <1>1, <1>9, <2>2, <4>1
    <3>2. Replay!Min(V) \in V /\ \A y \in V : Replay!Min(V) <= y
      BY <3>1, LeastOne
    <3> DEFINE v == Replay!Min(V)
    <3>3. PICK t \in B : v = p[t]
      BY <3>2
    <3>4. v \in 0..Parts
      BY <1>1, <1>9, <3>3
    <3>5. \A u \in B : p[u] >= v
      BY <1>1, <1>9, <3>2
    <3>6. \A s \in A : p[s] <= v
      BY <1>1, <1>8, <1>9, <3>3
    <3> HIDE DEF v, V, A, B
    <3>7. Replay!Mass(p, A) <= Cardinality(A) * v
      BY <1>1, <3>4, <3>6, MassBounds, Zenon
    <3>8. Cardinality(B) * v <= Replay!Mass(p, B)
      BY <1>1, <3>4, <3>5, MassBounds, Zenon
    <3>9. v \in Nat
      BY <3>4
    <3>10. /\ Cardinality(A) * v <= Cardinality(B) * v
           /\ Cardinality(A) * v \in Nat /\ Cardinality(B) * v \in Nat
      BY <1>4, <3>9, ProductGrows
    <3> QED BY <1>7, <3>7, <3>8, <3>10
  <2> QED BY <2>1, <2>2
<1> QED BY <1>5, <1>6, <1>7, <1>10

\* The first m candidates of a ranking.
Top(o, m) == {o[j] : j \in 1..m}

\* A ranking has every candidate once, in the order of their probabilities.
LEMMA RankingFacts ==
  ASSUME NEW C, NEW p, Scored(C, p), NEW o \in RankedOf(C, p)
  PROVE  /\ Cardinality(C) \in Nat /\ o \in [1..Cardinality(C) -> C]
         /\ \A i, j \in 1..Cardinality(C) : i # j => o[i] # o[j]
         /\ Top(o, Cardinality(C)) = C
         /\ \A i, j \in 1..Cardinality(C) : i <= j => p[o[i]] >= p[o[j]]
<1> DEFINE n == Cardinality(C)
<1>1. n \in Nat
  BY FS_CardinalityType, Zenon DEF Scored
<1>2. /\ o \in [1..n -> C]
      /\ \A i, j \in 1..n : i # j => o[i] # o[j]
      /\ \A i \in 1..(Len(o) - 1) : p[o[i]] >= p[o[i + 1]]
  BY DEF RankedOf
<1>3. IsFiniteSet(C) /\ \A s \in C : p[s] \in Nat
  BY CollectorsAssumption DEF Scored, Replay!ReplayAssumption
<1>4. Cardinality(1..n) = n
  BY <1>1, FS_Interval
<1>5. o \in Injection(1..n, C)
  BY <1>2 DEF Injection, IsInjective
<1>6. o \in Surjection(1..n, C)
  BY <1>3, <1>4, <1>5, FS_Injection, Zenon
<1>7. Top(o, n) = C
  BY <1>2, <1>6 DEF Top, Surjection
<1>8. Len(o) = n
  BY <1>1, <1>2
<1> HIDE DEF n
<1>9. ASSUME NEW i \in 1..n, NEW j \in 1..n, i <= j, ~(p[o[i]] >= p[o[j]]) PROVE FALSE
  <2> DEFINE J == {l \in i..n : p[o[l]] > p[o[i]]}
  <2>1. \A l \in 1..n : p[o[l]] \in Nat
    BY <1>2, <1>3
  <2>2. J \in SUBSET Nat /\ J # {}
    BY <1>1, <1>9, <2>1
  <2>3. Replay!Min(J) \in J /\ \A y \in J : Replay!Min(J) <= y
    BY <2>2, LeastOne, Zenon
  <2> DEFINE l == Replay!Min(J)
  <2>4. l \in i..n /\ p[o[l]] > p[o[i]] /\ l # i
    BY <2>1, <2>3
  <2>5. ~(p[o[l - 1]] > p[o[i]])
    <3> HIDE DEF l
    <3>1. l - 1 \in i..n /\ ~(l <= l - 1)
      <4>1. i \in Int /\ n \in Int /\ l \in i..n /\ l # i
        BY <1>1, <2>4
      <4> HIDE DEF J
      <4> QED BY <4>1
    <3>2. l - 1 \notin J
      BY <2>3, <3>1, Zenon DEF l
    <3> QED BY <3>1, <3>2
  <2> HIDE DEF l, J
  <2>6. l - 1 \in 1..n /\ l - 1 \in 1..(Len(o) - 1) /\ (l - 1) + 1 = l /\ l \in 1..n
    BY <1>1, <1>8, <2>4
  <2>7. p[o[l - 1]] >= p[o[l]]
    BY <1>2, <2>6
  <2> QED BY <2>1, <2>4, <2>5, <2>6, <2>7
<1> QED BY <1>1, <1>2, <1>7, <1>9, Zenon DEF n

\* The first m candidates are m, and the others follow them.
LEMMA TopFacts ==
  ASSUME NEW C, NEW p, Scored(C, p), NEW o \in RankedOf(C, p), NEW m \in 0..Cardinality(C)
  PROVE  /\ Top(o, m) \in SUBSET C /\ Cardinality(Top(o, m)) = m
         /\ \A s \in C \ Top(o, m), t \in Top(o, m) : p[t] >= p[s]
         /\ \A l \in 0..m : Top(o, l) \in SUBSET Top(o, m)
<1> DEFINE n == Cardinality(C)
<1>1. /\ n \in Nat /\ o \in [1..n -> C]
      /\ \A i, j \in 1..n : i # j => o[i] # o[j]
      /\ Top(o, n) = C
      /\ \A i, j \in 1..n : i <= j => p[o[i]] >= p[o[j]]
  BY RankingFacts, Zenon
<1> HIDE DEF n
<1>2. m \in Nat /\ m <= n
  BY <1>1 DEF n
<1>3. Top(o, m) \in SUBSET C
  BY <1>1, <1>2 DEF Top
<1>4. Cardinality(Top(o, m)) = m
  <2> DEFINE f == [j \in 1..m |-> o[j]]
  <2>1. f \in Bijection(1..m, Top(o, m))
    <3>1. f \in [1..m -> Top(o, m)]
      BY DEF Top
    <3>2. \A a, b \in 1..m : f[a] = f[b] => a = b
      BY <1>1, <1>2
    <3>3. \A t \in Top(o, m) : \E s \in 1..m : f[s] = t
      BY DEF Top
    <3> HIDE DEF f
    <3>4. DOMAIN f = 1..m
      BY <3>1
    <3> QED BY <3>1, <3>2, <3>3, <3>4, Zenon DEF Bijection, Injection, Surjection, IsInjective
  <2>2. ExistsBijection(1..m, Top(o, m))
    BY <2>1 DEF ExistsBijection
  <2> QED BY <1>2, <2>2, FS_CountingElements, Zenon
<1>5. ASSUME NEW s \in C \ Top(o, m), NEW t \in Top(o, m) PROVE p[t] >= p[s]
  <2>1. PICK i \in 1..m : t = o[i]
    BY DEF Top
  <2>2. PICK j \in 1..n : s = o[j]
    BY <1>1 DEF Top
  <2>3. ~(j <= m)
    <3>1. j <= m => j \in 1..m
      BY <1>1, <1>2
    <3>2. j \in 1..m => s \in Top(o, m)
      BY <2>2 DEF Top
    <3> QED BY <3>1, <3>2
  <2>4. i \in 1..n /\ i <= j
    BY <1>1, <1>2, <2>3
  <2> QED BY <1>1, <2>1, <2>2, <2>4
<1>6. \A l \in 0..m : Top(o, l) \in SUBSET Top(o, m)
  BY <1>2 DEF Top
<1> QED BY <1>3, <1>4, <1>5, <1>6

\* What has to be retained of C, and what a set retains.
Needs(p, C) == (Whole - Missing) * Replay!Mass(p, C)
Gives(p, S) == Whole * Replay!Mass(p, S)

\* The ranks before which the mass is not reached are the first ones.
LEMMA RetainedIsPrefix ==
  ASSUME NEW C, NEW p, Scored(C, p), NEW o \in RankedOf(C, p)
  PROVE  \E m \in 0..Cardinality(C) :
           /\ RetainedOf(C, p, o) = 1..m
           /\ m > 0 => Gives(p, Top(o, m - 1)) < Needs(p, C)
           /\ m < Cardinality(C) => ~(Gives(p, Top(o, m)) < Needs(p, C))
<1> DEFINE n == Cardinality(C)
           R == RetainedOf(C, p, o)
           K == {i \in 1..n : Gives(p, Top(o, i - 1)) < Needs(p, C)}
           J == {i \in 1..(n + 1) : i \notin K}
           m == Replay!Min(J) - 1
<1>1. n \in Nat /\ DOMAIN o = 1..n
  BY RankingFacts
<1>2. R = K
  BY <1>1 DEF RetainedOf, Gives, Needs, Top
<1>3. J \in SUBSET Nat /\ n + 1 \in J
  BY <1>1
<1>4. Replay!Min(J) \in J /\ \A y \in J : Replay!Min(J) <= y
  BY <1>3, LeastOne
<1>5. m \in 0..n /\ m + 1 \in J /\ m + 1 \in Nat
  BY <1>1, <1>4
<1>6. ASSUME NEW i \in 1..m PROVE i \in K
  <2>1. i \in 1..(n + 1) /\ ~(m + 1 <= i) /\ m + 1 = Replay!Min(J)
    BY <1>1, <1>4, <1>5
  <2>2. i \notin J
    BY <1>4, <2>1, Zenon
  <2> QED BY <2>1, <2>2
<1> HIDE DEF m, J
<1>7. ASSUME NEW i \in K PROVE i \in 1..m
  <2> SUFFICES ASSUME i > m PROVE FALSE
    BY <1>1, <1>5
  <2>1. i \in 1..n /\ Gives(p, Top(o, i - 1)) < Needs(p, C)
    OBVIOUS
  <2>2. m + 1 \in 1..n /\ i - 1 \in 0..n /\ m \in 0..(i - 1) /\ m \in 0..n
    BY <1>1, <1>5, <2>1
  <2>3. ~(Gives(p, Top(o, m)) < Needs(p, C))
    <3>1. m + 1 \notin K
      BY <1>5 DEF J
    <3>2. (m + 1) - 1 = m
      BY <1>5
    <3> QED BY <2>2, <3>1, <3>2
  <2>4. Top(o, m) \in SUBSET Top(o, i - 1) /\ Top(o, i - 1) \in SUBSET C /\ Top(o, m) \in SUBSET C
    BY <2>2, TopFacts
  <2>5. Replay!Mass(p, Top(o, m)) <= Replay!Mass(p, Top(o, i - 1))
    BY <2>4, MassGrows, Zenon
  <2>6. /\ Replay!Mass(p, Top(o, m)) \in Nat /\ Replay!Mass(p, Top(o, i - 1)) \in Nat
        /\ Replay!Mass(p, C) \in Nat
    <3>1. C \in SUBSET C
      OBVIOUS
    <3> QED BY <2>4, <3>1, UnitsCount, Zenon
  <2>7. Whole \in Nat /\ Missing \in Nat /\ Missing <= Whole
    BY CollectorsAssumption DEF Replay!ReplayAssumption
  <2>8. Gives(p, Top(o, m)) <= Gives(p, Top(o, i - 1)) /\ Gives(p, Top(o, m)) \in Nat
        /\ Gives(p, Top(o, i - 1)) \in Nat
    BY <2>5, <2>6, <2>7, ProductGrows DEF Gives
  <2>9. Needs(p, C) \in Nat
    <3>1. Whole - Missing \in Nat
      BY <2>7
    <3> QED BY <2>6, <3>1, ProductGrows DEF Needs
  <2> QED BY <2>1, <2>3, <2>8, <2>9
<1>8. K = 1..m
  BY <1>6, <1>7
<1>9. m > 0 => Gives(p, Top(o, m - 1)) < Needs(p, C)
  <2>1. m > 0 => m \in K
    BY <1>5, <1>6
  <2> QED BY <2>1
<1>10. m < n => ~(Gives(p, Top(o, m)) < Needs(p, C))
  <2>1. m < n => m + 1 \in 1..n /\ (m + 1) - 1 = m
    BY <1>1, <1>5
  <2>2. m + 1 \notin K
    BY <1>5 DEF J
  <2> QED BY <2>1, <2>2
<1> HIDE DEF K, R
<1> QED BY <1>2, <1>5, <1>8, <1>9, <1>10, Zenon DEF R, n

\* What is selected by mass retains what it must, and no smaller set does.
LEMMA SelectedIsLeast ==
  ASSUME NEW C, NEW p, Scored(C, p), NEW T \in Selections(C, p, -1)
  PROVE  /\ Gives(p, T) >= Needs(p, C)
         /\ \A S \in SUBSET C : Gives(p, S) >= Needs(p, C) => Cardinality(S) >= Cardinality(T)
<1> DEFINE n == Cardinality(C)
<1>1. PICK o \in RankedOf(C, p) : T = {o[i] : i \in RetainedOf(C, p, o)}
  BY DEF Selections
<1>2. PICK m \in 0..n :
        /\ RetainedOf(C, p, o) = 1..m
        /\ m > 0 => Gives(p, Top(o, m - 1)) < Needs(p, C)
        /\ m < n => ~(Gives(p, Top(o, m)) < Needs(p, C))
  BY RetainedIsPrefix, Zenon
<1>3. n \in Nat /\ Top(o, n) = C
  BY RankingFacts, Zenon
<1>4. T = Top(o, m) /\ T \in SUBSET C /\ Cardinality(T) = m
  BY <1>1, <1>2, TopFacts DEF Top
<1>5. Whole \in Nat /\ Missing \in Nat /\ Missing <= Whole /\ Whole - Missing \in Nat
  BY CollectorsAssumption DEF Replay!ReplayAssumption
<1>6. \A S \in SUBSET C : Replay!Mass(p, S) \in Nat
  BY UnitsCount, Zenon
<1>7. \A S \in SUBSET C : Gives(p, S) \in Nat
  BY <1>5, <1>6, ProductGrows DEF Gives
<1>8. Needs(p, C) \in Nat /\ Needs(p, C) <= Gives(p, C)
  <2>1. Replay!Mass(p, C) \in Nat
    BY <1>6
  <2>2. Whole - Missing <= Whole
    BY <1>5
  <2> QED BY <1>5, <2>1, <2>2, ProductGrows DEF Needs, Gives
<1> HIDE DEF n
<1>9. Gives(p, T) >= Needs(p, C)
  <2>1. CASE m < n
    BY <1>2, <1>4, <1>7, <1>8, <2>1
  <2>2. CASE ~(m < n)
    <3>1. m = n
      BY <1>2, <1>3, <2>2
    <3> QED BY <1>3, <1>4, <1>8, <3>1
  <2> QED BY <2>1, <2>2
<1>10. ASSUME NEW S \in SUBSET C, Gives(p, S) >= Needs(p, C), ~(Cardinality(S) >= Cardinality(T))
       PROVE  FALSE
  <2>1. Cardinality(S) \in Nat
    <3>1. IsFiniteSet(S)
      BY UnitsCount, Zenon
    <3> QED BY <3>1, FS_CardinalityType, Zenon
  <2>2. m - 1 \in 0..n /\ m > 0 /\ Cardinality(S) <= m - 1
    BY <1>2, <1>3, <1>4, <1>10, <2>1
  <2>3. /\ Top(o, m - 1) \in SUBSET C /\ Cardinality(Top(o, m - 1)) = m - 1
        /\ \A s \in C \ Top(o, m - 1), t \in Top(o, m - 1) : p[t] >= p[s]
    <3> DEFINE r == m - 1
    <3>1. r \in 0..Cardinality(C)
      BY <2>2 DEF n
    <3> HIDE DEF r
    <3>2. /\ Top(o, r) \in SUBSET C /\ Cardinality(Top(o, r)) = r
          /\ \A s \in C \ Top(o, r), t \in Top(o, r) : p[t] >= p[s]
      BY <3>1, TopFacts, Zenon
    <3> QED BY <3>2 DEF r
  <2>4. Replay!Mass(p, S) <= Replay!Mass(p, Top(o, m - 1))
    BY <2>2, <2>3, MostMass, Zenon
  <2>5. Gives(p, S) <= Gives(p, Top(o, m - 1))
    <3>1. Replay!Mass(p, S) \in Nat /\ Replay!Mass(p, Top(o, m - 1)) \in Nat
      BY <1>6, <2>3
    <3> QED BY <1>5, <2>4, <3>1, ProductGrows DEF Gives
  <2>6. Gives(p, S) \in Nat /\ Gives(p, Top(o, m - 1)) \in Nat
    BY <1>7, <2>3
  <2> QED BY <1>2, <1>8, <1>10, <2>2, <2>5, <2>6
<1> QED BY <1>9, <1>10

\* Whatever selection is being answered is the smallest.
LEMMA InvSelectsLeast == EvaluationInv => SelectionMinimal
<1> SUFFICES ASSUME EvaluationInv, DOMAIN scores # {}, Replay!Limit = -1
             PROVE  /\ Gives(scores, chosen) >= Needs(scores, plan.candidates)
                    /\ \A S \in SUBSET plan.candidates :
                         Gives(scores, S) >= Needs(scores, plan.candidates)
                           => Cardinality(S) >= Cardinality(chosen)
  BY SameCardinality, Zenon DEF SelectionMinimal, Replay!SelectionMinimal, Gives, Needs
<1>1. (Fresh => FreshFits) /\ (~Fresh => BegunFits)
  BY Zenon DEF EvaluationInv, ReplayInv
<1>2. ~Fresh
  BY <1>1 DEF FreshFits, Replay!NoScores
<1>3. Collected /\ DenseCandidates
  BY <1>1, <1>2, WhenBothAreDone, Zenon DEF EvaluationInv, BegunFits
<1>4. scores \in [plan.candidates -> 0..Parts]
      /\ chosen \in Selections(plan.candidates, scores, LimitOf(evaluator))
  BY <1>1, <1>2, Zenon DEF BegunFits, SelectionFits
<1>5. LimitOf(evaluator) = -1
  BY Zenon DEF LimitOf, Replay!Limit
<1>6. Scored(plan.candidates, scores)
  BY <1>3, <1>4, Zenon DEF Scored, DenseCandidates
<1>7. chosen \in Selections(plan.candidates, scores, -1)
  BY <1>4, <1>5, Zenon
<1> HIDE DEF Selections
<1> QED BY <1>6, <1>7, SelectedIsLeast, Zenon

\* minimum_cumulative_mass_mask: without a limit, what it selects retains the mass asked
\* for, and every set of candidates that does is at least as large, however ties fall.
THEOREM SelectionAlwaysMinimal == BothSpec => []SelectionMinimal
  BY EvaluationInvariance, InvSelectsLeast, PTL
==============================================================================
