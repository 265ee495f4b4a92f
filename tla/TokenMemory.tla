----------------------------- MODULE TokenMemory -----------------------------
(***************************************************************************)
(* Gemma4MemoryController over the bank of one decoder layer: each window   *)
(* of a stream first retrieves from the bank and, after attention, writes   *)
(* its keys and values into it.  The bank is a TorchCamelotMemoryBank,      *)
(* which averages familiar tokens into slots, or a TorchVMFRecordMemoryBank, *)
(* which keeps the newest tokens as records under routing slots.            *)
(*                                                                          *)
(* Vectors are left out: which slots are most similar, and whether a token   *)
(* is familiar or its posterior asks for a new slot, is any choice.  A       *)
(* resultant is the set of tokens added to it and not subtracted since.      *)
(* Layers share no state, and a bank's streams only their capacity.          *)
(***************************************************************************)
EXTENDS BankOrder

CONSTANTS
  Methods,        \* the configured methods: "camelot", "vmf_records"
  SlotCapacity,   \* slot_capacity
  RecordCapacity, \* record_capacity
  ChunkSize,      \* vmf_write_chunk_size
  WindowSizes,    \* tokens of a window
  MaxWindows      \* bound: windows between two resets

ASSUME TokenMemoryAssumption ==
  /\ Methods \subseteq {"camelot", "vmf_records"}
  /\ {SlotCapacity, RecordCapacity, ChunkSize} \subseteq Nat \ {0}
  /\ WindowSizes \subseteq Nat \ {0}
  /\ MaxWindows \in Nat

VARIABLES
  method,     \* memory_config.method
  slots,      \* the slots of the bank
  entries,    \* vmf_records: the records of the bank
  phase,      \* "idle", "attending", "consolidating", "placing", "chunks"
  window,     \* number of the window, counted from the last reset
  tokens,     \* its tokens
  next,       \* the tokens still to be placed, in order
  touched,    \* slots this write touched
  touchedRecords

bankVars == <<method, slots, entries, phase, window, tokens, next, touched, touchedRecords>>

New == 0      \* the choice of a slot of one's own
Unrouted == 0   \* record_slots of a record without a slot

BlankSlot == [active |-> FALSE, age |-> 0, wrote |-> 0, count |-> 0, sum |-> {}, basis |-> {}]
BlankRecord == [active |-> FALSE, age |-> 0, wrote |-> 0, slot |-> Unrouted, token |-> 0]

BankInit ==
  /\ method \in Methods
  /\ slots = <<>>
  /\ entries = <<>>
  /\ phase = "idle"
  /\ window = 0
  /\ tokens = 0
  /\ next = <<>>
  /\ touched = {}
  /\ touchedRecords = {}

ActiveOf(es) == {i \in DOMAIN es : es[i].active}

\* reset: the banks are dropped, the next window makes new ones.
Reset ==
  /\ phase = "idle" /\ window > 0
  /\ slots' = <<>> /\ entries' = <<>>
  /\ window' = 0 /\ tokens' = 0
  /\ UNCHANGED <<method, phase, next, touched, touchedRecords>>

\* attend: retrieve changes counters and the pending assignment only, which the
\* write that follows uses for the same keys.
Retrieve(n) ==
  /\ phase = "idle" /\ window < MaxWindows
  /\ phase' = "attending"
  /\ window' = window + 1
  /\ tokens' = n
  /\ UNCHANGED <<method, slots, entries, next, touched, touchedRecords>>

\* The attention between them raises; the bank has not seen the window.
AttentionFails ==
  /\ phase = "attending"
  /\ phase' = "idle"
  /\ tokens' = 0
  /\ UNCHANGED <<method, slots, entries, window, next, touched, touchedRecords>>

Token(i) == <<window, i>>

------------------------------------------------------------------------------
(* TorchCamelotMemoryBank.write                                            *)

\* Familiar tokens are averaged into the slots they are nearest to; the bank
\* grows by the most novel tokens any stream of the batch has.
CamelotConsolidate ==
  /\ method = "camelot" /\ phase = "attending"
  /\ \E choice \in [1..tokens -> {New} \cup ActiveOf(slots)], most \in 0..tokens :
       LET familiar == {i \in 1..tokens : choice[i] # New}
           novel == (1..tokens) \ familiar
           merged == {choice[i] : i \in familiar}
           updated == [s \in DOMAIN slots |->
                         IF s \in merged
                           THEN LET added == {Token(i) : i \in {j \in familiar : choice[j] = s}} IN
                                [slots[s] EXCEPT !.count = @ + Cardinality(added),
                                                 !.sum = @ \cup added, !.wrote = window]
                           ELSE slots[s]]
       IN /\ most >= tokens - Cardinality(familiar)
          /\ slots' = Grown(updated, most, SlotCapacity, BlankSlot)
          /\ touched' = merged
          /\ next' = LET order == Sorted(novel, {p \in novel \X novel : p[1] < p[2]})
                     IN [k \in DOMAIN order |-> Token(order[k])]
  /\ phase' = "placing"
  /\ UNCHANGED <<method, entries, window, tokens, touchedRecords>>

\* One turn of the loop over novel tokens: as many as there are slots.
CamelotPlace ==
  /\ method = "camelot" /\ phase = "placing" /\ next # <<>>
  /\ LET order == CamelotOrder(slots, touched)
         size == IF Len(next) < Len(order) THEN Len(next) ELSE Len(order)
         placed == [s \in {order[i] : i \in 1..size} |->
                      next[CHOOSE i \in 1..size : order[i] = s]]
     IN /\ slots' = [s \in DOMAIN slots |->
                       IF s \in DOMAIN placed
                         THEN [active |-> TRUE, age |-> 0, wrote |-> window,
                               count |-> 1, sum |-> {placed[s]}, basis |-> {}]
                         ELSE slots[s]]
        /\ touched' = touched \cup DOMAIN placed
        /\ next' = SubSeq(next, size + 1, Len(next))
  /\ UNCHANGED <<method, entries, phase, window, tokens, touchedRecords>>

CamelotFinish ==
  /\ method = "camelot" /\ phase = "placing" /\ next = <<>>
  /\ slots' = Aged(slots, touched)
  /\ phase' = "idle"
  /\ touched' = {}
  /\ UNCHANGED <<method, entries, window, tokens, next, touchedRecords>>

------------------------------------------------------------------------------
(* TorchVMFRecordMemoryBank.write                                          *)

RecordsGrow ==
  /\ method = "vmf_records" /\ phase = "attending"
  /\ slots' = Grown(slots, tokens, SlotCapacity, BlankSlot)
  /\ entries' = Grown(entries, tokens, RecordCapacity, BlankRecord)
  /\ next' = [i \in 1..tokens |-> Token(i)]
  /\ phase' = "chunks"
  /\ UNCHANGED <<method, window, tokens, touched, touchedRecords>>

\* Tokens that ask for a new slot get the slots of the allocation order by rank.
Selected(choice) ==
  LET order == AllocationOrder(slots, touched) IN
  [i \in DOMAIN choice |->
     IF choice[i] = New THEN order[Cardinality({j \in 1..i : choice[j] = New})]
     ELSE choice[i]]

Fresh(choice, selected) == {selected[i] : i \in {j \in DOMAIN choice : choice[j] = New}}

\* Mutant: the records of a slot that is given away stay in it.
MembersStay(fresh) == entries

\* The records of the slots that are given away are evicted.
MembersEvicted(fresh) ==
  [r \in DOMAIN entries |->
     IF entries[r].active /\ entries[r].slot \in fresh
       THEN [entries[r] EXCEPT !.active = FALSE, !.slot = Unrouted]
       ELSE entries[r]]

Cleared(fresh) ==
  [s \in DOMAIN slots |->
     IF s \in fresh THEN [slots[s] EXCEPT !.active = FALSE, !.count = 0, !.sum = {}]
     ELSE slots[s]]

\* Records that are overwritten leave the resultants and counts of their slots;
\* a slot without records is inactive.
WithoutOverwritten(S, E, ids) ==
  LET leaving(s) == {r \in ids : E[r].active /\ E[r].slot = s} IN
  [s \in DOMAIN S |->
     LET count == S[s].count - Cardinality(leaving(s)) IN
     IF count <= 0 THEN [S[s] EXCEPT !.active = FALSE, !.count = 0, !.sum = {}]
     ELSE [S[s] EXCEPT !.count = count, !.sum = @ \ {E[r].token : r \in leaving(s)}]]

\* The records of a chunk join the slots selected for them.
Joined(S, selected, chunk) ==
  [s \in DOMAIN S |->
     LET mine == {i \in DOMAIN chunk : selected[i] = s} IN
     IF mine = {} THEN S[s]
     ELSE [S[s] EXCEPT !.active = TRUE, !.count = @ + Cardinality(mine), !.wrote = window,
                       !.sum = @ \cup {chunk[i] : i \in mine}]]

\* _refresh_slots: norms, concentrations and posterior bases of the slots a chunk
\* changed, computed from their resultants and counts.
Refreshed(S, affected) ==
  [s \in DOMAIN S |-> IF s \in affected THEN [S[s] EXCEPT !.basis = S[s].sum] ELSE S[s]]

\* What the posterior may choose for each token: a slot of its own or a routed one.
ChoicesOf(size) == [1..size -> {New} \cup ActiveOf(slots)]

ChunkLimit == CHOOSE m \in {ChunkSize, SlotCapacity, RecordCapacity} :
                \A k \in {ChunkSize, SlotCapacity, RecordCapacity} : m <= k

RecordsChunk ==
  /\ phase = "chunks" /\ next # <<>>
  /\ LET size == IF Len(next) < ChunkLimit THEN Len(next) ELSE ChunkLimit
         chunk == SubSeq(next, 1, size)
     IN /\ \E choice \in ChoicesOf(size) :
             LET selected == Selected(choice)
                 fresh == Fresh(choice, selected)
                 kept == MembersEvicted(fresh)
                 order == AllocationOrder(kept, touchedRecords)
                 ids == {order[i] : i \in 1..size}
                 left == {kept[r].slot : r \in {q \in ids : kept[q].active}}
                 at == [r \in ids |-> CHOOSE i \in 1..size : order[i] = r]
             IN /\ slots' = Refreshed(Joined(WithoutOverwritten(Cleared(fresh), kept, ids),
                                         selected, chunk),
                                  left \cup {selected[i] : i \in 1..size})
                /\ entries' = [r \in DOMAIN kept |->
                     IF r \in ids
                       THEN [active |-> TRUE, age |-> kept[r].age, wrote |-> window,
                             slot |-> selected[at[r]], token |-> chunk[at[r]]]
                       ELSE kept[r]]
                /\ touched' = touched \cup {selected[i] : i \in 1..size}
                /\ touchedRecords' = touchedRecords \cup ids
        /\ next' = SubSeq(next, size + 1, Len(next))
  /\ UNCHANGED <<method, phase, window, tokens>>

RecordsFinish ==
  /\ phase = "chunks" /\ next = <<>>
  /\ slots' = Aged(slots, touched)
  /\ entries' = Aged(entries, touchedRecords)
  /\ phase' = "idle"
  /\ touched' = {} /\ touchedRecords' = {}
  /\ UNCHANGED <<method, window, tokens, next>>

BankNext ==
  \/ \E n \in WindowSizes : Retrieve(n)
  \/ AttentionFails
  \/ CamelotConsolidate
  \/ CamelotPlace
  \/ CamelotFinish
  \/ RecordsGrow
  \/ RecordsChunk
  \/ RecordsFinish
  \/ Reset

BankSpec == BankInit /\ [][BankNext]_bankVars

------------------------------------------------------------------------------
\* retrieve of the record bank: the best of the records of the routed slots; over no
\* record at all argmax gives the first.
Routed(S) == {r \in ActiveOf(entries) : entries[r].slot \in S}
Retrievable(S) == IF Routed(S) = {} THEN {1} ELSE Routed(S)

Held == IF method = "camelot"
          THEN UNION {slots[s].sum : s \in ActiveOf(slots)}
          ELSE {entries[r].token : r \in ActiveOf(entries)}

\* The slots of the record bank tell the truth about its records, whatever was
\* evicted, given away and joined: retrieve, which never asks whether the routed slots
\* have a record, finds one there, and the posterior weighs counts and directions of
\* the very records a slot has.
SlotsSumTheirRecords ==
  method = "vmf_records" =>
    /\ \A S \in (SUBSET ActiveOf(slots)) \ {{}} : Retrievable(S) \subseteq Routed(S)
    /\ \A s \in DOMAIN slots :
         LET mine == Routed({s}) IN
         /\ slots[s].active <=> mine # {}
         /\ slots[s].count = Cardinality(mine)
         /\ slots[s].sum = {entries[r].token : r \in mine}
         /\ slots[s].active => slots[s].basis = slots[s].sum

\* A token is lost in the very write that brings it only when that write has gone
\* through all slots, or through all records, and nothing older is left to give up.
OlderGoesFirst ==
  phase = "idle" /\ tokens > 0 /\ {Token(i) : i \in 1..tokens} \ Held # {} =>
    \/ \A s \in DOMAIN slots : slots[s].wrote = window
    \/ method = "vmf_records" /\ \A r \in DOMAIN entries : entries[r].wrote = window

\* The slots of the record bank are active, counted and directed as the records they
\* route to, whatever was evicted and joined; and a write loses a token it brings only
\* when nothing older is left to give up.
SlotsSumWhatIsKept == SlotsSumTheirRecords /\ OlderGoesFirst

\* A Camelot slot is taken from its tokens only when every slot used longer ago is
\* taken too: ages, kept apart from the writes, order the slots by last use.
LeastRecentlyUsedGoesFirst ==
  [][method = "camelot" =>
       \A s, t \in DOMAIN slots \cap DOMAIN slots' :
         /\ slots[s].active /\ slots[s].sum \cap slots'[s].sum = {}
         /\ slots[t].active /\ slots'[t] = slots[t]
         => slots[s].wrote <= slots[t].wrote]_bankVars
==============================================================================
