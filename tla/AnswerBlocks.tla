----------------------------- MODULE AnswerBlocks -----------------------------
(***************************************************************************)
(* residual_cache/answer_block_cache.py and distance_sweep.py: a growing    *)
(* history is generated row by row, the keys of each answer's first tokens  *)
(* are saved as a block, and the blocks an index finds are put before a     *)
(* later prompt.  The sweep runs one row with a gap between history and     *)
(* query.                                                                   *)
(*                                                                          *)
(* A cache is an object: a forward extends it in place, so a second branch  *)
(* over the same history needs a copy.  The model is external: its greedy   *)
(* answers are given by the row, and a key stands for all of a layer's K/V. *)
(***************************************************************************)
EXTENDS Integers, SequencesExt

CONSTANTS
  Corpora,       \* sequences of rows [prompt, index: token counts, main, fact: answers]
  Answers,       \* what a replay or a recall may answer
  BlockSize,     \* tokens of an answer that are saved
  MaxNew,        \* max_new_tokens
  IndexMaxNew,   \* INDEX_PREFIX_MAX_NEW_TOKENS
  TopN,          \* top_n_blocks
  Window,        \* keys a sliding layer keeps
  TestPositions, \* values test_position_override may have
  Conditions,    \* conditions of the sweep: [start, gap, fact]
  QueryTokens,   \* tokens of the query in the chat template
  PositionLimit, \* max_position_embeddings
  NoValue,       \* what stands where there is no value
  MaxStarts      \* bound: how often a program is started

\* "fact" completes FACT:, "nl" ends a line, "eos" and "eot" end an answer.
Tokens == {"fact", "nl", "word", "eos", "eot"}

\* A key: its position, whose token it is and the token; "prompt" is any of a prompt.
Key == [pos : Nat, of : [row : Nat, branch : {"main", "index", "query"}], token : Tokens \cup {"prompt"}]

ASSUME AnswerAssumption ==
  /\ {BlockSize, MaxNew, IndexMaxNew, TopN, QueryTokens} \subseteq Nat \ {0}
  /\ Window \in Nat /\ Window >= BlockSize
  /\ Corpora \subseteq
       Seq([prompt : Nat \ {0}, index : Nat \ {0},
            main : {a \in Seq(Tokens) : Len(a) >= MaxNew}, fact : {a \in Seq(Tokens) : Len(a) >= IndexMaxNew}])
  /\ Answers \subseteq {a \in Seq(Tokens) : Len(a) >= MaxNew}
  /\ Conditions \subseteq [start : Nat, gap : Nat, fact : BOOLEAN]
  /\ TestPositions \subseteq Nat /\ PositionLimit \in Nat
  /\ NoValue \notin Seq(Key) /\ NoValue \notin [keys : Seq(Key), count : Nat]

VARIABLES
  setup,    \* the corpus, the test position and whether replay is custom positioned
  caches,   \* the cache objects: name -> sequence of keys
  gen,      \* the call of _generate under way
  program,  \* where the program is, and its local variables
  files,    \* the output directory
  starts

blockVars == <<setup, caches, gen, program, files, starts>>

Rows == setup.corpus
Held == DOMAIN caches

----------------------------------------------------------------------------
(* Caches and forwards                                                      *)

Spaced(from, n) == [i \in 1..n |-> from + i - 1]

\* The keys a forward appends: one per token, at consecutive positions.
Keys(of, tokens, from) ==
  [i \in 1..Len(tokens) |-> [pos |-> from + i - 1, of |-> of, token |-> tokens[i]]]

Prompt(n) == [i \in 1..n |-> "prompt"]

PositionsOf(keys) == [i \in 1..Len(keys) |-> keys[i].pos]
TokensOf(keys) == [i \in 1..Len(keys) |-> keys[i].token]

\* Mutant: the branch gets the cache itself.
SharedCache(held, past) == [name |-> past, caches |-> held]

\* _clone_cache: the index branch gets an object of its own.
CloneCache(held, past) ==
  [name |-> "clone", caches |-> [c \in DOMAIN held \cup {"clone"} |-> IF c = "clone" THEN held[past] ELSE held[c]]]

\* Mutant: the queries of a step are counted from the step, as in the prompt.
MaskFromZero(queries, prefix, current, start) ==
  [q \in 1..queries |-> (1..prefix) \cup {prefix + k : k \in 1..(IF q <= current THEN q ELSE current)}]

\* _make_prefix_causal_mask: the keys each query sees, all of the prefix and the
\* current ones up to itself.
PrefixCausalMask(queries, prefix, current, start) ==
  [q \in 1..queries |-> (1..prefix) \cup {prefix + k : k \in {k \in 1..current : k <= start + q}}]

\* The model's own mask, used when none is passed.
CausalMask(queries, before) == [q \in 1..queries |-> 1..(before + q)]

\* _slice_cache: the keys from start to end of every layer; a sliding layer has
\* dropped all but its last ones.
Sliceable(cache, start) == start >= Len(cache) - Window

SliceCache(cache, start, end) ==
  IF Sliceable(cache, start) THEN SubSeq(cache, start + 1, end) ELSE NoValue

----------------------------------------------------------------------------
(* _generate                                                                *)

Stops == {"eos", "eot"}

NoCall == [on |-> "none", custom |-> FALSE, prefix |-> 0, start |-> 0, prompt |-> 0, of |-> "none", answer |-> <<>>,
           limit |-> 0, out |-> <<>>, capture |-> 0, captured |-> NoValue, fact |-> FALSE, vector |-> NoValue,
           sees |-> <<>>]

\* The prompt's forward over the cache named `on`; `capture` is the number of
\* generated tokens to save, 0 for none.
Call(held, on, custom, of, prompt, start, answer, limit, capture, fact) ==
  LET prefix == Len(held[on]) IN
  [on |-> on, custom |-> custom /\ prefix > 0, prefix |-> prefix, start |-> start, prompt |-> prompt,
   of |-> of, answer |-> answer, limit |-> limit, out |-> <<>>, capture |-> capture, captured |-> NoValue,
   fact |-> fact, vector |-> NoValue,
   sees |-> IF custom /\ prefix > 0 THEN PrefixCausalMask(prompt, prefix, prompt, 0)
            ELSE CausalMask(prompt, prefix)]

Prefill(held, on, of, prompt, start) == [held EXCEPT ![on] = @ \o Keys(of, Prompt(prompt), start)]

Ended(call) == call.out # <<>> /\ (Last(call.out) \in Stops \/ Len(call.out) = call.limit)
Calling == gen.on # "none"
Returned == Calling /\ Ended(gen)

\* The generated text starts with FACT: once that token came after blank lines.
FactAt(out) == {i \in 1..Len(out) : out[i] = "fact" /\ \A j \in 1..(i - 1) : out[j] = "nl"}

\* Mutant: the block is cut out of the cache when the answer has ended.
AtTheEnd(call, out) == Last(out) \in Stops \/ Len(out) = call.limit

\* The block is complete: it has its tokens, or the answer stops.
BlockComplete(call, out) == Len(out) >= call.capture \/ Last(out) \in Stops

\* One token is appended and forwarded; the index is taken at FACT:, the block as
\* soon as it is complete.
GenerateToken ==
  /\ Calling /\ ~Ended(gen)
  /\ LET step == Len(gen.out)
         out == Append(gen.out, gen.answer[step + 1])
         cache == caches[gen.on] \o Keys(gen.of, <<Last(out)>>, gen.start + gen.prompt + step)
         current == gen.prompt + step + 1
         mask == IF gen.custom THEN PrefixCausalMask(1, gen.prefix, current, current - 1)
                 ELSE CausalMask(1, gen.prefix + current - 1)
         from == gen.prefix + gen.prompt
     IN
     /\ caches' = [caches EXCEPT ![gen.on] = cache]
     /\ gen' = [gen EXCEPT
          !.out = out,
          !.sees = @ \o mask,
          !.vector = IF gen.fact /\ @ = NoValue /\ FactAt(out) # {} THEN cache ELSE @,
          !.captured = IF gen.capture > 0 /\ @ = NoValue /\ BlockComplete(gen, out)
                       THEN [keys |-> SliceCache(cache, from, from + Len(out)), count |-> Len(out)] ELSE @]
  /\ UNCHANGED <<setup, program, files, starts>>

----------------------------------------------------------------------------
(* run_answer_block_experiment                                              *)

NoProgram == [at |-> "idle", row |-> 0, position |-> 0, branch |-> "none", main |-> NoValue, meta |-> <<>>,
              vectors |-> <<>>, condition |-> NoValue, result |-> NoValue, failure |-> "none"]

NoFiles == [blocks |-> <<>>, vectors |-> NoValue, meta |-> NoValue, summary |-> NoValue]

AnswerInit ==
  /\ setup \in [corpus : Corpora, test : TestPositions \cup {NoValue}, positioned : BOOLEAN]
  /\ caches = <<>> /\ gen = NoCall /\ program = NoProgram /\ files = NoFiles /\ starts = 0

At(place) == program.at = place

\* The program raises and ends; what it wrote stays.
Raise(why) ==
  /\ program' = [NoProgram EXCEPT !.failure = why]
  /\ caches' = <<>> /\ gen' = NoCall /\ UNCHANGED <<setup, files, starts>>

Launch ==
  /\ At("idle") /\ starts < MaxStarts
  /\ starts' = starts + 1
  /\ program' = [NoProgram EXCEPT !.at = "rows", !.row = 1]
  /\ caches' = [history |-> <<>>] /\ UNCHANGED <<setup, gen, files>>

\* A row checks the history's length, copies it for the index branch and starts
\* the main answer, whose first tokens are the block.
StartRow ==
  /\ At("rows") /\ program.row <= Len(Rows)
  /\ IF Len(caches["history"]) # program.position THEN Raise("positionMismatch")
     ELSE
       LET row == Rows[program.row]
           clone == CloneCache(caches, "history")
           of == [row |-> program.row, branch |-> "main"] IN
       /\ gen' = Call(clone.caches, "history", FALSE, of, row.prompt, program.position, row.main, MaxNew,
                      IF BlockSize < MaxNew THEN BlockSize ELSE MaxNew, FALSE)
       /\ caches' = Prefill(clone.caches, "history", of, row.prompt, program.position)
       /\ program' = [program EXCEPT !.at = "main", !.branch = clone.name]
       /\ UNCHANGED <<setup, files, starts>>

StartIndex ==
  /\ At("main") /\ Returned
  /\ IF gen.captured.keys = NoValue THEN Raise("sliceUnavailable")
     ELSE
       LET row == Rows[program.row]
           of == [row |-> program.row, branch |-> "index"] IN
       /\ gen' = Call(caches, program.branch, FALSE, of, row.index, program.position, row.fact, IndexMaxNew, 0, TRUE)
       /\ caches' = Prefill(caches, program.branch, of, row.index, program.position)
       /\ program' = [program EXCEPT !.at = "index", !.main = gen]
       /\ UNCHANGED <<setup, files, starts>>

\* _answer_block_end: the answer up to the block size, or up to eos.
AnswerBlockEnd(out) ==
  LET limit == IF Len(out) < BlockSize THEN Len(out) ELSE BlockSize
      ends == {i \in 1..limit : out[i] = "eos"}
  IN  IF ends = {} THEN limit ELSE CHOOSE i \in ends : \A j \in ends : i <= j

\* Mutant: the block is placed as if the prompt had not been there.
FromTheRow(position, main) == position

FirstGenerated(position, main) == position + main.prompt

\* The block is written and described, the index branch dropped, the history kept.
RecordRow ==
  /\ At("index") /\ Returned
  /\ LET main == program.main
         end == AnswerBlockEnd(main.out)
         block == [keys |-> main.captured.keys, positions |-> Spaced(FirstGenerated(program.position, main), end),
                   tokens |-> SubSeq(main.out, 1, end)]
     IN  IF gen.vector = NoValue THEN Raise("noIndexPrefix")
         ELSE IF main.captured.count # end \/ Len(block.keys) # end THEN Raise("captureMismatch")
         ELSE
           /\ files' = [files EXCEPT !.blocks =
                [r \in DOMAIN @ \cup {program.row} |-> IF r = program.row THEN block ELSE @[r]]]
           /\ program' = [program EXCEPT
                !.at = "rows", !.row = @ + 1, !.position = @ + main.prompt + Len(main.out),
                !.meta = Append(@, [row |-> program.row, positions |-> block.positions, tokens |-> block.tokens]),
                !.vectors = Append(@, gen.vector), !.main = NoValue, !.branch = "none"]
           /\ caches' = [history |-> caches["history"]] /\ gen' = NoCall
           /\ UNCHANGED <<setup, starts>>

\* After the last row the index, then the description of the blocks.
SaveIndex ==
  /\ At("rows") /\ program.row > Len(Rows)
  /\ IF Len(caches["history"]) # program.position THEN Raise("positionMismatch")
     ELSE /\ files' = [files EXCEPT !.vectors = program.vectors]
          /\ program' = [program EXCEPT !.at = "saved"]
          /\ caches' = <<>> /\ UNCHANGED <<setup, gen, starts>>

SaveMetadata ==
  /\ At("saved")
  /\ files' = [files EXCEPT !.meta = program.meta]
  /\ program' = [program EXCEPT !.at = "tests", !.row = 1, !.position = IF setup.test # NoValue THEN setup.test ELSE @]
  /\ UNCHANGED <<setup, caches, gen, starts>>

----------------------------------------------------------------------------
(* _run_replay_tests and run_answer_block_replay_only                       *)

\* Mutant: the blocks stay in the order of their scores.
ByScore(meta, chosen) == [i \in DOMAIN chosen |-> meta[chosen[i]]]

Earlier(a, b) == a.positions[1] < b.positions[1]

\* The chosen blocks by original position; no two have the same.
ByPosition(meta, chosen) ==
  CHOOSE s \in [DOMAIN chosen -> {meta[chosen[i]] : i \in DOMAIN chosen}] :
    \A i, j \in DOMAIN s : i < j => Earlier(s[i], s[j])

\* The best n of the index, in the order of scores the index may give them.
TopBlocks(meta) ==
  LET n == IF TopN < Len(meta) THEN TopN ELSE Len(meta) IN
  {s \in [1..n -> 1..Len(meta)] : IsInjective(s)}

\* _cat_block_caches: the blocks' files one after the other.
CatBlockCaches(selected) == FlattenSeq([i \in 1..Len(selected) |-> files.blocks[selected[i].row].keys])

SearchFails == At("tests") /\ program.row <= Len(Rows) /\ Raise("noIndexPrefix")

StartReplay ==
  /\ At("tests") /\ program.row <= Len(Rows)
  /\ \E chosen \in TopBlocks(program.meta), answer \in Answers :
       LET prefix == CatBlockCaches(ByPosition(program.meta, chosen))
           of == [row |-> program.row, branch |-> "query"]
           held == [replay |-> prefix] IN
       /\ gen' = Call(held, "replay", setup.positioned, of, QueryTokens, program.position, answer, MaxNew, 0, FALSE)
       /\ caches' = Prefill(held, "replay", of, QueryTokens, program.position)
       /\ program' = [program EXCEPT !.at = "replay"]
       /\ UNCHANGED <<setup, files, starts>>

EndReplay ==
  /\ At("replay") /\ Returned
  /\ program' = [program EXCEPT !.at = "tests", !.row = @ + 1]
  /\ caches' = <<>> /\ gen' = NoCall /\ UNCHANGED <<setup, files, starts>>

WriteSummary ==
  /\ At("tests") /\ program.row > Len(Rows)
  /\ files' = [files EXCEPT !.summary = [start |-> program.position]]
  /\ program' = NoProgram /\ UNCHANGED <<setup, caches, gen, starts>>

\* Only a directory with a summary is replayed from; its own files are not changed
\* by what is written elsewhere.
ReplayOnly ==
  /\ At("idle") /\ starts < MaxStarts /\ files.summary # NoValue
  /\ starts' = starts + 1
  /\ program' = [NoProgram EXCEPT !.at = "tests", !.row = 1, !.meta = files.meta, !.vectors = files.vectors,
                 !.position = IF setup.test # NoValue THEN setup.test ELSE files.summary.start]
  /\ UNCHANGED <<setup, caches, gen, files>>

Kill ==
  /\ ~At("idle")
  /\ program' = NoProgram /\ caches' = <<>> /\ gen' = NoCall /\ UNCHANGED <<setup, files, starts>>

----------------------------------------------------------------------------
(* run_distance_sweep: one condition at a time                              *)

StartCondition ==
  /\ At("idle") /\ starts < MaxStarts
  /\ starts' = starts + 1
  /\ \E c \in Conditions, r \in 1..Len(Rows) :
       LET held == [split |-> <<>>]
           of == [row |-> r, branch |-> "main"] IN
       /\ gen' = Call(held, "split", FALSE, of, Rows[r].prompt, c.start, Rows[r].main, MaxNew, 0, c.fact)
       /\ caches' = Prefill(held, "split", of, Rows[r].prompt, c.start)
       /\ program' = [NoProgram EXCEPT !.at = "history", !.row = r, !.condition = c]
       /\ UNCHANGED <<setup, files>>

\* _first_line_end_token_index: how many tokens the first line takes, 0 for none.
FirstLine(out) ==
  LET ends == {i \in 1..Len(out) : out[i] = "nl"} IN
  IF ends = {} THEN 0 ELSE CHOOSE i \in ends : \A j \in ends : i <= j

\* _retained_block_positions: where the answer's body is, and where the last token
\* that is kept is when it has none; the prompt's suffix is its last token.
ClosestBodyPosition(c, prompt, out) ==
  LET line == IF c.fact THEN FirstLine(out) ELSE 0
      generated == c.start + prompt
  IN  IF Len(out) > line THEN generated + Len(out) - 1 ELSE generated - 1

\* Mutant: the history's end is taken before its answer.
QueryAfterPrompt(c, prompt, out) == c.start + prompt + c.gap

QueryStart(c, prompt, out) == c.start + prompt + Len(out) + c.gap

\* build_continuous_turn_tokens: the template closes an answer with eot, once.
TemplateFollows(out) == Last(out) # "eos"
Continuation(out) == QueryTokens + (IF Last(out) = "eot" THEN 0 ELSE 1)

\* The history is prefilled again from its tokens.
HistoryOf(call, start) == Keys(call.of, Prompt(call.prompt) \o call.out, start)

\* The continuous run has the continuation right after the history.
Continuous(history, of, prompt, start) == history \o Keys(of, Prompt(prompt), start + Len(history))

\* A sliding layer's mask of the last tokens, behind `before` keys: which columns each of
\* them sees, itself and the window before it.
SlidingMask(tokens, before) ==
  [q \in 1..tokens |-> [k \in 1..(before + tokens) |-> before + q - Window <= k /\ k <= before + q]]

\* The keys a sliding layer still has.
KeptOf(before) == IF before < Window THEN before ELSE Window

\* _mask_metrics: the rows of the continuous mask that the cached run has, with all their
\* columns; masks of different shapes are not equal.
MasksExact(tokens, before) == SlidingMask(tokens, before) = SlidingMask(tokens, KeptOf(before))

\* structural_passed: the two caches have the same keys at the same positions, and the
\* continuation the same masks.
StructurallyEqual(held, history, tokens) ==
  held["split"] = held["continuous"] /\ MasksExact(tokens, history)

\* The report, which names the history's length, is written before the program raises.
Refuse(history) ==
  /\ program' = [NoProgram EXCEPT !.failure = "structuralMismatch", !.result = [history |-> history]]
  /\ caches' = <<>> /\ gen' = NoCall /\ UNCHANGED <<setup, files, starts>>

\* Whether layers and logits agree numerically: the model's arithmetic, external.
NumericalResults(c) == IF c.gap = 0 THEN BOOLEAN ELSE {TRUE}

\* The plan of the recall is checked, the history and its continuation prefilled;
\* without a gap also both in one piece, to compare positions, masks and (external) numbers.
PlanRecall ==
  /\ At("history") /\ Returned
  /\ LET c == program.condition
         out == gen.out
         query == QueryStart(c, gen.prompt, out)
         prompt == Continuation(out)
         of == [row |-> program.row, branch |-> "query"]
         history == HistoryOf(gen, c.start)
         held == [split |-> history, continuous |-> Continuous(history, of, prompt, c.start)]
         recalling == Prefill(held, "split", of, prompt, query)
     IN  IF gen.fact /\ gen.vector = NoValue THEN Raise("noIndexPrefix")
         ELSE IF ~TemplateFollows(out) THEN Raise("notTemplatePrefix")
         ELSE IF c.fact /\ FirstLine(out) = 0 THEN Raise("noFirstLine")
         ELSE IF query + prompt + MaxNew > PositionLimit THEN Raise("pastPositionLimit")
         ELSE IF c.gap = 0 /\ ~StructurallyEqual(recalling, Len(history), prompt) THEN Refuse(Len(history))
         ELSE \E answer \in Answers, same \in NumericalResults(c) :
           /\ gen' = Call(held, "split", FALSE, of, prompt, query, answer, MaxNew, 0, FALSE)
           /\ caches' = recalling
           /\ program' = [program EXCEPT
                !.at = "recall",
                !.result = [passed |-> same, closest |-> ClosestBodyPosition(c, gen.prompt, out), first |-> 0]]
           /\ UNCHANGED <<setup, files, starts>>

\* Mutant: the position of the body's first token, not of the one that predicts it.
FirstBodyItself(call, line) == call.start + call.prompt + line

FirstBodyQuery(call, line) == call.start + call.prompt + line - 1

EndCondition ==
  /\ At("recall") /\ Returned
  /\ LET line == IF program.condition.fact THEN FirstLine(gen.out) ELSE 0 IN
     IF program.condition.fact /\ line = 0 THEN Raise("noFirstLine")
     ELSE /\ program' = [program EXCEPT !.at = "measured", !.result.first = FirstBodyQuery(gen, line)]
          /\ UNCHANGED <<setup, caches, gen, files, starts>>

NextCondition ==
  /\ At("measured")
  /\ program' = NoProgram /\ caches' = <<>> /\ gen' = NoCall /\ UNCHANGED <<setup, files, starts>>

AnswerNext ==
  \/ Launch \/ StartRow \/ StartIndex \/ RecordRow \/ SaveIndex \/ SaveMetadata
  \/ GenerateToken \/ SearchFails \/ StartReplay \/ EndReplay \/ WriteSummary \/ ReplayOnly
  \/ StartCondition \/ PlanRecall \/ EndCondition \/ NextCondition \/ Kill

AnswerSpec == AnswerInit /\ [][AnswerNext]_blockVars

----------------------------------------------------------------------------
(* Properties                                                               *)

\* The main history is the rows' prompts and answers at consecutive positions and
\* nothing else; what an index was taken from is the history before its row, then
\* the branch's own prompt up to FACT:.  Neither branch ever sees the other's tokens.
BranchesStayApart ==
  /\ At("rows") =>
       /\ PositionsOf(caches["history"]) = Spaced(0, program.position)
       /\ \A i \in 1..Len(caches["history"]) : caches["history"][i].of.branch = "main"
  /\ At("rows") => \A i \in 1..Len(program.meta) :
       LET keys == program.vectors[i] IN
       /\ PositionsOf(keys) = Spaced(0, Len(keys)) /\ Last(keys).token = "fact"
       /\ \A k \in 1..Len(keys) :
            \/ keys[k].of = [row |-> program.meta[i].row, branch |-> "index"]
            \/ keys[k].of.branch = "main" /\ keys[k].of.row < program.meta[i].row

\* A directory with a summary has its blocks, described one for one by the rows of
\* the index, and a block holds the keys of the tokens and positions it lists: the
\* first of its row's answer.  No position is in two blocks.
BlocksHoldTheirAnswers ==
  /\ \A r \in DOMAIN files.blocks :
       LET block == files.blocks[r] IN
       /\ PositionsOf(block.keys) = block.positions /\ TokensOf(block.keys) = block.tokens
       /\ block.tokens = SubSeq(Rows[r].main, 1, Len(block.tokens))
       /\ \A other \in DOMAIN files.blocks \ {r} :
            ToSet(block.positions) \cap ToSet(files.blocks[other].positions) = {}
  /\ files.summary # NoValue =>
       /\ Len(files.vectors) = Len(files.meta)
       /\ \A i \in 1..Len(files.meta) :
            LET m == files.meta[i] IN
            /\ m.row \in DOMAIN files.blocks /\ files.blocks[m.row].positions = m.positions
            /\ m.row = Last(files.vectors[i]).of.row

\* Branches and files hold what they are said to hold.
BlocksAreTheAnswers == BranchesStayApart /\ BlocksHoldTheirAnswers

\* In a replay every token sees all the keys of the blocks, in the order their
\* answers were given, and of its own branch the tokens up to itself: with the
\* mask the program builds as with the model's own.
ReplaySeesBlocksAndItself ==
  At("replay") =>
    LET blocks == SubSeq(caches["replay"], 1, gen.prefix) IN
    /\ \A q \in 1..Len(gen.sees) : gen.sees[q] = 1..(gen.prefix + q)
    /\ \A i \in 1..(gen.prefix - 1) : blocks[i].pos < blocks[i + 1].pos
    /\ \A i \in 1..gen.prefix : blocks[i].of.branch = "main"
    /\ PositionsOf(caches["replay"]) = PositionsOf(blocks) \o Spaced(program.position, gen.prompt + Len(gen.out))

\* The checks the program makes of itself never fail: a block is complete when it
\* is cut, still in the window of a sliding layer, and as long as the answer's end
\* says; a history is as long as its position.  Without a gap a cached history is
\* refused only when it is longer than the window of a sliding layer, whose masks
\* then differ: it always has the positions of a continuous one.
ChecksNeverFail ==
  /\ program.failure \notin {"positionMismatch", "sliceUnavailable", "captureMismatch"}
  /\ program.failure = "structuralMismatch" => program.result.history > Window

\* The distance reported is between the last key of the history's answer (of its
\* prompt when nothing follows the FACT line) and the key the recall's body is
\* predicted from, and the positions between them jump by the gap, once.
DistanceIsBetweenBodies ==
  At("measured") =>
    LET keys == caches["split"]
        line == IF program.condition.fact THEN FirstLine(gen.out) ELSE 0
        history == gen.prefix
        jumps == {i \in 1..(Len(keys) - 1) : keys[i + 1].pos # keys[i].pos + 1} IN
    /\ jumps = IF program.condition.gap = 0 THEN {} ELSE {history}
    /\ keys[history + 1].pos = keys[history].pos + 1 + program.condition.gap
    /\ \E i \in 1..history :
         /\ keys[i].pos = program.result.closest
         /\ IF keys[history].token = "nl" /\ program.condition.fact
              /\ \A j \in 1..(history - 1) : keys[j].token # "nl"
            THEN keys[i].token = "prompt" /\ keys[i + 1].token # "prompt"
            ELSE i = history
    /\ keys[history + gen.prompt + line].pos = program.result.first

\* What the README says of the condition without a gap: it is refused unless
\* layers and logits pass the comparison with the continuous run.
GapZeroPassedTheComparison ==
  At("measured") /\ program.condition.gap = 0 => program.result.passed
==============================================================================
