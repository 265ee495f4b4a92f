---------------------------- MODULE RollingContext ----------------------------
(***************************************************************************)
(* RollingContextCollector.collect with the callbacks of the Gemma 4       *)
(* session that drives it.  Block after block is forwarded over the local  *)
(* cache; after each, the tokens that left the last LocalContext positions *)
(* are cut out of the physical cache, block piece by block piece, and      *)
(* written to one cluster memory per layer, and the cache is trimmed.      *)
(*                                                                         *)
(* A cache entry is the number of the token whose K/V it is.  A memory     *)
(* entry pairs the logical position it was ingested under with the token   *)
(* whose K/V was copied, so that a slice off by one shows.                 *)
(***************************************************************************)
EXTENDS MechanicalBlocks, Sequences

CONSTANTS
  QueryLength,  \* query_summary_length
  Layers,       \* the number of memory layers
  Tokens,       \* bound: the length of the sequence
  Horizon       \* future_horizon_length

ASSUME RollingAssumption ==
  /\ QueryLength \in 1..(LocalContext + BlockSize)
  /\ Layers \in Nat \ {0}
  /\ Tokens \in Nat
  /\ Horizon \in Nat \ {0}

VARIABLES
  plan,        \* the retrieval plan
  position,    \* the end of the last forwarded block
  cache,       \* the physical cache: a sequence of tokens
  cacheStart,  \* cache_start, the logical position of its first entry
  exitStart,   \* exit_start
  ready,       \* ready_blocks and _block_router_keys: starts of prepared blocks
  hidden,      \* rows of recent_hidden
  layer,       \* the layer ingest_evicted writes next
  memory,      \* what each layer's memory has ingested
  stage        \* where collect is: "forward", "exit", "check", "done", "error"

vars == <<plan, position, cache, cacheStart, exitStart, ready, hidden, layer, memory, stage>>

Least(a, b) == IF a <= b THEN a ELSE b
Greatest(a, b) == IF a >= b THEN a ELSE b

Init ==
  /\ plan \in Plans(Tokens, Horizon)
  /\ position = 0
  /\ cache = <<>>
  /\ cacheStart = 0
  /\ exitStart = 0
  /\ ready = {}
  /\ hidden = 0
  /\ layer = 1
  /\ memory = [l \in 1..Layers |-> <<>>]
  /\ stage = "forward"

\* Mutant: the tail is left out.
ChunkEndFull ==
  IF position + BlockSize <= plan.end THEN position + BlockSize ELSE position

\* The end of the next chunk: a complete block, or the tail of the prefix.
ChunkEnd == Least(position + BlockSize, plan.end)

\* The block whose key on_block_ready prepares, if the chunk is complete.
Completed == IF ChunkEnd - position = BlockSize THEN {position} ELSE {}

\* One forward pass; the cache grows past the configured local context.
\* prepare_block_key refuses a block it has a key for.
Forward ==
  /\ stage = "forward"
  /\ position < plan.end
  /\ IF Completed \cap ready # {}
       THEN stage' = "error" /\ UNCHANGED <<position, cache, exitStart, ready, hidden>>
       ELSE /\ cache' = [i \in 1..(Len(cache) + ChunkEnd - position) |->
                           IF i <= Len(cache) THEN cache[i] ELSE position + (i - Len(cache)) - 1]
            /\ ready' = ready \cup Completed
            /\ hidden' = Least(QueryLength, hidden + (ChunkEnd - position))
            /\ position' = ChunkEnd
            /\ exitStart' = cacheStart
            /\ stage' = "exit"
  /\ UNCHANGED <<plan, cacheStart, layer, memory>>

\* Mutant: the window that is kept is one token short.
NewCacheStartEarly == Greatest(0, position - LocalContext + 1)

NewCacheStart == Greatest(0, position - LocalContext)

\* The piece of the oldest block that has left the window.
ExitEnd == Least(NewCacheStart, BlockOf(exitStart) + BlockSize)

\* Mutant: the slice starts one entry late.
PieceShifted ==
  [i \in 1..(ExitEnd - exitStart) |-> <<exitStart + i - 1, cache[exitStart - cacheStart + i + 1]>>]

\* The piece cut out of the physical cache, with its logical positions.
Piece ==
  [i \in 1..(ExitEnd - exitStart) |-> <<exitStart + i - 1, cache[exitStart - cacheStart + i]>>]

\* on_evict writes the piece to the memories one layer after the other.
WriteLayer ==
  /\ stage = "exit"
  /\ exitStart < NewCacheStart
  /\ IF BlockOf(exitStart) \notin ready
       THEN stage' = "error" /\ UNCHANGED <<memory, layer, exitStart>>
       ELSE /\ memory' = [memory EXCEPT ![layer] = @ \o Piece]
            /\ layer' = IF layer = Layers THEN 1 ELSE layer + 1
            /\ exitStart' = IF layer = Layers THEN ExitEnd ELSE exitStart
            /\ UNCHANGED stage
  /\ UNCHANGED <<plan, position, cache, cacheStart, ready, hidden>>

\* cache_suffix keeps the newest LocalContext entries of the physical cache.
Suffix(n) == IF Len(cache) <= n THEN cache ELSE SubSeq(cache, Len(cache) - n + 1, Len(cache))

Trim ==
  /\ stage = "exit"
  /\ exitStart >= NewCacheStart
  /\ IF NewCacheStart > cacheStart
       THEN cache' = Suffix(LocalContext) /\ cacheStart' = NewCacheStart
       ELSE UNCHANGED <<cache, cacheStart>>
  /\ stage' = IF position < plan.end THEN "forward" ELSE "check"
  /\ UNCHANGED <<plan, position, exitStart, ready, hidden, layer, memory>>

\* The checks collect ends with.
Check ==
  /\ stage = "check"
  /\ stage' = IF /\ Len(memory[1]) = plan.start
                 /\ cacheStart = plan.start
                 /\ hidden >= QueryLength
                THEN "done" ELSE "error"
  /\ UNCHANGED <<plan, position, cache, cacheStart, exitStart, ready, hidden, layer, memory>>

Next == Forward \/ WriteLayer \/ Trim \/ Check

Spec == Init /\ [][Next]_vars

------------------------------------------------------------------------------
Handed == Len(memory[Layers])

\* The type of every variable.
TypeOK ==
  /\ plan \in [start : Nat, end : Nat, candidates : SUBSET Nat]
  /\ position \in 0..plan.end
  /\ cache \in Seq(Nat)
  /\ Len(cache) <= LocalContext + BlockSize
  /\ cacheStart \in 0..position
  /\ exitStart \in 0..position
  /\ ready \subseteq FullBlocks(plan.end)
  /\ hidden \in 0..QueryLength
  /\ layer \in 1..Layers
  /\ memory \in [1..Layers -> Seq(Nat \X Nat)]
  /\ stage \in {"forward", "exit", "check", "done", "error"}

\* Each memory holds a gapless prefix of the sequence, every token once, in
\* order and under its own logical position, also between two layers' writes.
MemoryIsPrefix ==
  \A l \in 1..Layers :
    /\ memory[l] = [i \in 1..Len(memory[l]) |-> <<i - 1, i - 1>>]
    /\ Len(memory[l]) \in {Handed, ExitEnd}

\* The physical cache holds the tokens its logical positions name, and when a
\* chunk is forwarded its queries see each earlier token once, in memory or in
\* the cache, and at least the last LocalContext of them in the cache.
ForwardSeesHistoryOnce ==
  /\ cache = [i \in 1..(position - cacheStart) |-> cacheStart + i - 1]
  /\ stage = "forward" =>
       /\ \A l \in 1..Layers : Len(memory[l]) = cacheStart
       /\ Len(cache) = Least(position, LocalContext)

\* Window and memories together hold the sequence forwarded so far, every token
\* where its position says, and a forward pass never runs over a gap.
HistorySeenOnce == TypeOK /\ MemoryIsPrefix /\ ForwardSeesHistoryOnce

\* Every plan the planner accepts can be carried out: no block reaches the edge
\* of the window before its key is prepared, none is prepared twice, and when
\* collect returns, every candidate block of the plan is in every memory as a
\* whole and the local cache is exactly the planned local context.
PlanIsServed ==
  /\ stage # "error"
  /\ stage = "done" =>
       /\ cache = [i \in 1..LocalContext |-> plan.start + i - 1]
       /\ \A l \in 1..Layers, s \in plan.candidates : \A t \in s..(s + BlockSize - 1) :
            \E i \in DOMAIN memory[l] : memory[l][i] = <<t, t>>

------------------------------------------------------------------------------
Stream == INSTANCE ContextStream WITH
  seen <- position, handed <- Handed, dropped <- cacheStart

\* The collector implements the stream of tokens through window and memory.
ImplementsStream == Stream!Spec
==============================================================================
