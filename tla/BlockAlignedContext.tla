------------------------- MODULE BlockAlignedContext -------------------------
(***************************************************************************)
(* BlockAlignedRollingContextCollector.collect with the callbacks of       *)
(* collect_streaming_student_state, which keeps the summaries and the K/V  *)
(* of the plan's candidate blocks.  The window holds at least LocalContext *)
(* tokens; the step that would make it hold a block more unloads the       *)
(* oldest complete block, so that a block is either local or captured as a *)
(* whole.  A cache entry is the number of the token whose K/V it is.       *)
(***************************************************************************)
EXTENDS MechanicalBlocks, Sequences

CONSTANTS
  QueryLength,  \* query_summary_length
  Tokens,       \* bound: the length of the sequence
  Horizon       \* future_horizon_length

AlignedAssumption ==
  /\ QueryLength \in 1..(LocalContext + BlockSize)
  /\ Tokens \in Nat
  /\ Horizon \in Nat \ {0}

VARIABLES
  plan,        \* the retrieval plan
  position,    \* the end of the last forwarded block
  cache,       \* the physical cache: a sequence of tokens
  cacheStart,  \* cache_start, the logical position of its first entry
  ready,       \* ready_blocks: blocks whose key waits for their unloading
  summaries,   \* ready_summaries: candidates whose summary was captured
  captured,    \* captured_kv and evicted_candidates: candidate -> its tokens
  evicted,     \* evicted_tokens
  hidden,      \* rows of recent_hidden
  stage        \* where collect is: "forward", "unload", "check", "done", "error"

vars == <<plan, position, cache, cacheStart, ready, summaries, captured, evicted, hidden, stage>>

Least(a, b) == IF a <= b THEN a ELSE b

Init ==
  /\ plan \in Plans(Tokens, Horizon)
  /\ position = 0
  /\ cache = <<>>
  /\ cacheStart = 0
  /\ ready = {}
  /\ summaries = {}
  /\ captured = [s \in {} |-> <<>>]
  /\ evicted = 0
  /\ hidden = 0
  /\ stage = "forward"

ChunkEnd == Least(position + BlockSize, plan.end)

Completed == IF ChunkEnd - position = BlockSize THEN {position} ELSE {}

\* One forward pass, and the summary of a completed candidate.  The collector
\* refuses a cache of another length than its positions, the collection a second
\* summary of the same block.
Forward ==
  /\ stage = "forward"
  /\ position < plan.end
  /\ IF \/ Len(cache) # position - cacheStart
        \/ Completed \cap plan.candidates \cap summaries # {}
       THEN stage' = "error" /\ UNCHANGED <<position, cache, ready, summaries, hidden>>
       ELSE /\ cache' = [i \in 1..(Len(cache) + ChunkEnd - position) |->
                           IF i <= Len(cache) THEN cache[i] ELSE position + (i - Len(cache)) - 1]
            /\ ready' = ready \cup Completed
            /\ summaries' = summaries \cup (Completed \cap plan.candidates)
            /\ hidden' = Least(QueryLength, hidden + (ChunkEnd - position))
            /\ position' = ChunkEnd
            /\ stage' = "unload"
  /\ UNCHANGED <<plan, cacheStart, captured, evicted>>

\* Mutant: the bound is strict.
OverfullLate == position - cacheStart > LocalContext + BlockSize

\* The bound that unloads the oldest block.
Overfull == position - cacheStart >= LocalContext + BlockSize

\* Mutant: the cache keeps the configured number of entries, and one more.
RetainedMore == position - (cacheStart + BlockSize) + 1

\* The number of cache entries that stay.
Retained == position - (cacheStart + BlockSize)

\* The K/V of the block that is unloaded: the front of the physical cache.
Front == SubSeq(cache, 1, BlockSize)

\* The oldest complete block is unloaded: its key is taken, its K/V cut from
\* the front of the cache and captured if it is a candidate.
Unload ==
  /\ stage = "unload"
  /\ Overfull
  /\ IF cacheStart \notin ready \/ cacheStart \in DOMAIN captured
       THEN stage' = "error" /\ UNCHANGED <<cache, cacheStart, ready, captured, evicted>>
       ELSE /\ ready' = ready \ {cacheStart}
            /\ captured' = IF cacheStart \in plan.candidates
                             THEN [s \in DOMAIN captured \cup {cacheStart} |->
                                     IF s = cacheStart THEN Front ELSE captured[s]]
                             ELSE captured
            /\ cacheStart' = cacheStart + BlockSize
            /\ evicted' = evicted + BlockSize
            /\ cache' = IF Len(cache) <= Retained THEN cache
                        ELSE SubSeq(cache, Len(cache) - Retained + 1, Len(cache))
            /\ UNCHANGED stage
  /\ UNCHANGED <<plan, position, summaries, hidden>>

Settle ==
  /\ stage = "unload"
  /\ ~Overfull
  /\ stage' = IF position < plan.end THEN "forward" ELSE "check"
  /\ UNCHANGED <<plan, position, cache, cacheStart, ready, summaries, captured, evicted, hidden>>

\* The checks collect and collect_streaming_student_state end with.
Check ==
  /\ stage = "check"
  /\ stage' = IF /\ plan.end - cacheStart \in LocalContext..(LocalContext + BlockSize - 1)
                 /\ cacheStart % BlockSize = 0
                 /\ evicted = cacheStart
                 /\ hidden >= QueryLength
                 /\ summaries = plan.candidates
                 /\ DOMAIN captured = plan.candidates
                THEN "done" ELSE "error"
  /\ UNCHANGED <<plan, position, cache, cacheStart, ready, summaries, captured, evicted, hidden>>

Next == Forward \/ Unload \/ Settle \/ Check

Spec == Init /\ [][Next]_vars

------------------------------------------------------------------------------
\* The type of every variable; the cache never outgrows the window by more than
\* the block being forwarded.
TypeOK ==
  /\ plan \in [start : Nat, end : Nat, candidates : SUBSET Nat]
  /\ position \in 0..plan.end
  /\ cache \in Seq(Nat)
  /\ Len(cache) <= LocalContext + BlockSize
  /\ cacheStart \in FullBlocks(plan.end)
  /\ ready \subseteq FullBlocks(plan.end)
  /\ summaries \subseteq plan.candidates
  /\ captured \in [DOMAIN captured -> Seq(Nat)]
  /\ DOMAIN captured \subseteq plan.candidates
  /\ evicted \in 0..plan.end
  /\ hidden \in 0..QueryLength
  /\ stage \in {"forward", "unload", "check", "done", "error"}

\* A captured block holds its own tokens, complete and in order.
CapturedWhole ==
  \A s \in DOMAIN captured : captured[s] = [i \in 1..BlockSize |-> s + i - 1]

\* The physical cache holds the tokens its logical positions name, and before
\* every forward pass no token is both captured and local, and none that is
\* neither is a token of a candidate.
CacheAligned ==
  /\ cache = [i \in 1..(position - cacheStart) |-> cacheStart + i - 1]
  /\ \A s \in DOMAIN captured : s + BlockSize <= cacheStart
  /\ \A s \in plan.candidates : s < cacheStart => s \in DOMAIN captured

\* A key that was prepared is used or its block is still local: the blocks that
\* wait are exactly the complete blocks of the window.
ReadyBlocksAreLocal ==
  ready = {s \in FullBlocks(position) : s >= cacheStart}

\* Window, captured blocks and waiting keys together account for every token and
\* every complete block forwarded so far.
BlocksAccounted == TypeOK /\ CapturedWhole /\ CacheAligned /\ ReadyBlocksAreLocal

\* Between two forward passes the window keeps to the bounds the documents
\* state, LocalContext to LocalContext + BlockSize - 1 once it has filled.
WindowBounds ==
  stage \in {"forward", "check", "done"} =>
    /\ Len(cache) < LocalContext + BlockSize
    /\ Len(cache) >= Least(position, LocalContext)

------------------------------------------------------------------------------
Stream == INSTANCE ContextStream WITH
  seen <- position, handed <- evicted, dropped <- cacheStart

\* The collector implements the stream of tokens through window and memory; a
\* block is handed over and dropped in one step.
ImplementsStream == Stream!Spec
==============================================================================
